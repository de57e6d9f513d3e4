# Verification of go-arch-xray

go-arch-xray is an MCP server that analyses Go code. It answers tool calls from
a cache of loaded programs and from a SQLite store, `.gax/cache.db`, that it
refreshes in the background. This directory holds TLA+ models of the parts of it
that keep state between steps of different goroutines, sessions or calls, and of
the algorithms its tools run on a loaded program; the TLC configurations that
check them on small instances; and TLAPS proofs of all safety properties that
the passing runs check.

Run a configuration with `tlc -config <cfg> <module>` and check a proof with
`tlapm <module>.tla`. `PROJECT.json` lists every run, the source lines of every
definition, the findings, the hazards and the theorems.

## Inventory

| Part | State | Operations | Where it is hard | What makes it correct |
|---|---|---|---|---|
| Compute lock (`compute_mutex.go`) | owner name, priority, abort flag | `TryLock`, `Unlock`, `CheckAborted` | re-entrant by name; a caller may be told "aborted" and leave a flag behind | at most one owner; the flag concerns the rebuild it was raised against |
| Rebuild queue (`sync_queue.go`) | pending requests, active request, last error | `Enqueue`, `Dequeue`, `finishActive`, `setError` | requests come back with an old creation time | sorted; nothing lost or duplicated; served in order |
| Background sync (`sync_manager.go`) | status, builder and its store handle | the loop, `Trigger`, `Pause`, `Resume` | every step may fail; status written by several goroutines; preemption | lock and store released on every path; status settles; every request ends |
| Query router (`main.go`) | none of its own | `beginSlowPath`, deferred unlock | shares the lock with the loop | calls and the rebuild exclude each other |
| Program cache (`workspace.go`) | map, LRU list, flights, capacity, TTL | `getOrLoad`, `Reload`, `Invalidate`, `ClearAll`, `SetCapacity`, `SetTTL`, `sweep` | loads run outside the mutex; one flight per key *and mode*; sweeper stops early | map and list agree; capacity holds; a program of the mode asked for; reload is fresh |
| Shadow store (`storage.go`) | symbols, hashes, vector table and its recorded dimension | `ShadowStoreProgram`, `ComputeAndSnapshot`, `SemanticSearch` | only the last step is a transaction; sessions overlap; a session may die between statements | skipping symbols whose source is unchanged leaves no other source in the table; the vector index matches the symbols |
| File watcher (`file_watcher.go`, `sync_state.go`, `file_meta.go`) | channel, collected paths, rows of `file_meta` | `poll`, `ScanAndEnqueue`, `Trigger`, `debouncedProcess`, `Stop` | bounded channel that drops; scans fail; rebuild served from the cache | a change leads to a request, and the request to an index of the change |
| Configuration (`config.go`, `sync_state.go`) | three layers of files, a state file | merge of layers, `InitWorkspaceConfig`, the inspect tools, dismiss and reopen | defaults filled in on the way; several servers and an editor write the files; writes are not atomic | the documented precedence; nobody's file is overwritten; answers fit the files |
| Windows and streaming (`query_options.go`, `streaming.go`) | cursor held by the client | window, chunk | the result or the configured defaults may change between two calls | while nothing changes the client receives the list; in a stream that changes, as many items as the total, from the first one on |
| Listed tables (`storage.go`, `http_routes.go`, `grpc_endpoints.go`, `dependencies.go`) | rows of all loads | load, store, list | the answer comes from tables that other loads write | nothing of the program is missing |
| Package graph (`cycles.go`, `reverse_dependencies.go`, `boundaries.go`) | of one call | Tarjan's algorithm, a breadth-first search, rules | nested cycles, map order, limits | each agrees with its reference definition |
| Call graph (`callers.go`, `call_hierarchy.go`, `call_path.go`, `dead_code.go`) | of one call | bounded walks, path search, reachability | edge order, depth and path limits, names found in another program | each agrees with its reference definition |
| Concurrency analysis (`dataflow.go`, `concurrency.go`) | summaries | summarise, expand over calls, compare | locks across calls, deferred unlocks, goroutines | a real race is reported; consistent locking is not |
| Orphaned models (`orphaned_models.go`) | summaries | passes to a fixpoint, verdict | bounded passes in any order | a model used through wrappers is kept |
| Syntax metrics, lifecycle, interfaces | none | one pass over syntax or types | none | not modelled |

How they interact: `main` starts the background runtime, which opens the store,
creates the queue and the manager, starts the loop's goroutine, and then the
watcher's two goroutines. The watcher enqueues requests; the loop takes them,
takes the compute lock and rebuilds through the program cache; every load of the
cache, whoever asked for it, writes to the store. Tool handlers run in goroutines
of the MCP library: each resolves the configuration of its workspace first;
SSA-heavy ones go through the router, which takes the same compute lock; the
others only use the cache or read the store. Lists go through the same window or
stream function, which keeps nothing between calls. The cache is swept by a
goroutine of its own.

## Modules

| Module | Models |
|---|---|
| `RebuildPriority`, `ComputeMutex`, `RebuildQueue` | the priorities, the lock, the queue |
| `SyncManager` | `backgroundBuildLoop`, `runRebuild`, `Trigger`, `Pause`, `Resume` |
| `QueryRouter` | calls of SSA-heavy tools |
| `BackgroundRuntime` | their composition, its specification and its properties |
| `PriorityQueue` | abstract: requests wait, one at a time is served, most urgent first, each ends once |
| `Workspace` | the program cache |
| `ShadowStore` | the symbol and vector tables and the sessions that use them |
| `FileWatcher` | the watcher, and the rebuild by what it writes about files |
| `Listings` | a load that stores its rows and then is cached, and the tools that list the tables |
| `WorkspaceConfig` | suggestion, layers, merge, `init_workspace_config`, the inspect tools and the state file |
| `QueryOptions`, `Streaming` | the window and the configured defaults; a client that reads a list in chunks or pages |
| `PackageGraph` | import cycles, reverse dependencies, boundary rules |
| `CallGraph` | resolution of names, callers and hierarchy, call paths, dead code |
| `AccessSummary`, `ConcurrencyRisks` | what functions access under which locks; the risks, next to the threads of the analysed program |
| `OrmUsage` | which parameters reach an ORM operation, and the verdict on a model |
| `MCBackgroundRuntime`, `MCWorkspace`, `MCPersistence`, `MCTools` | constants and symmetries for TLC; the last two put several independent components into one run, of which one is at work in a behaviour |
| `BackgroundRuntime_proof`, `Workspace_proof`, `FileWatcher_proof` | theorems about the module of that name |
| `Persistence_proof` | theorems about `ShadowStore` and `WorkspaceConfig`, and both side by side as in `MCPersistence` |
| `Answers_proof` | theorems about `Streaming` and `Listings` |
| `GraphTools_proof` | theorems about `PackageGraph` and `CallGraph` |
| `Analyses_proof` | theorems about `OrmUsage` and `ConcurrencyRisks` |
| `Tools_proof` | all tools side by side as in `MCTools` |

An action is one critical section, one SQL statement outside a transaction, one
transaction, or one stretch of code that touches nothing another goroutine sees.
Labels (`pc`) name the places in between. The data are abstracted:

* A request (`BackgroundRuntime`) is a model value with a priority and a
  creation time from a logical clock. `outcome` is a history variable.
* A loaded program (`Workspace`) is the version of the source it was read from
  and its mode; an edit is a new version. Time is a counter that `sweep` and the
  accesses read. The list is a sequence of keys, most recent first, and the map a
  function from keys to entries, two variables that could disagree.
* A stored symbol (`ShadowStore`) is the version of its source and the provider
  its vector was computed by, which is what the hash stands for, and, apart from
  them, where it stands in the workspace, counted as the moves since that source
  was written. A provider determines a dimension.
* A file (`FileWatcher`) is the number of the edit that wrote it, which stands
  for its hash too. `owed` is a history variable.
* A configuration (`WorkspaceConfig`) is a function from settings to values;
  `Unset` is Go's zero value, which the merge cannot tell from a missing setting.
  `quiet` and `origin` are history variables: nobody else changed a file since
  the call began, and who created the repo config.
* A list (`Streaming`) is an increasing sequence of numbers. `received`, `quiet`
  and `mode` belong to the client.
* A row (`Listings`) is its package, its name and what the mode of the load
  guesses about it.
* Packages and functions of an analysed program (`PackageGraph`, `CallGraph`) are
  numbers, so that the code's sort orders are their order; a program is a set of
  edges. The tools take one turn of their loop per step; where the code ranges
  over a map, or over edges whose order is not fixed, the model takes any order.
* A Go program (`AccessSummary`, `ConcurrencyRisks`) is a sequence of locks,
  unlocks, accesses, calls and go statements per function, without branches. The
  threads that execute it are the reference the report is compared with.
* A value (`OrmUsage`) is the parameter it comes from and whether its type
  contains the model.

Definitions whose comment begins with "Mutant" are not part of any
specification: each is a plausible mistake in the code, used to show that a
property would notice it.

## Runs

### Background runtime

`runtime`: three requests, one from `Trigger` and two from the watcher, with two
priorities, and two calls of different tools. Three requests are the fewest for
which a request that returns to the queue can be misplaced between two others.
It shows that no request is lost or duplicated, that the lock is held exactly
during a rebuild, that the abort flag never outlives it, that calls and the
rebuild exclude each other, that the status settles, and that the whole
implements `PriorityQueue` (`ServesInOrder`, a refinement). The types, the sorted
queue (`QueueSorted`), `ActiveIsHeld` and `NoStoreLeak` are left to the proofs,
which show them for all constants.

`runtime_live`: two requests and two calls of one tool. An enqueued request is
finished, and cancelling the context ends the loop. Fairness: the loop's
goroutine is scheduled, a started `Trigger` and a started analysis end. Nobody is
obliged to call a tool. Since a model instance makes each call once, the run
does not claim that an endless stream of calls cannot starve the loop.

Two runs show where the code differs from what is said of it:
`same_tool_twice` (the lock is re-entrant by name, so two calls of one tool
share it and the first to end frees it for the rebuild) and `closed_store` (the
second rebuild uses the store handle the first one closed). Not claimed: that a
rebuild told to abort yields. The loop looks at the flag once, before the
rebuild, and `RebuildLoad` to `RebuildPublish` do not look at it.

### Program cache

`cache_lru`: three keys, capacity one or two, two goroutines, loads that may
fail, and the sweeper. Three keys are needed for an eviction to leave a list with
an order. The types and the order of the list (`OrderedByAccess`) are left to the
proofs. `cache_flights`: one key, two modes, two goroutines, edits, reloads and
the sweeper; flights of different modes run side by side, which takes two
goroutines and two modes. It also checks that a call that misses the cache
returns and that an idle program is evicted; fairness: loads end, goroutines run,
the sweeper's ticker fires. `QuietReloadIsFresh` says that a reload which meets
no flight answers with the source as it was when the reload began, or newer.
Without the condition it is false (`stale_reload`). Not claimed: that a program
is never replaced by one of older source. A load of a higher mode that began
before an edit replaces what a reload filed after it.

### What outlives a server

`persistence` has two components, one at work at a time.

The store: two sessions, which overlap under one provider, or come one after the
other while the provider changes (two providers of different dimension), and may
stop between any two statements; two symbols. Changing the provider and back is
what drops the vector table and fills it again from stored rows.
`VectorIndexIsSound` says that a vector in the index is always the stored
symbol's, and that the index is complete and of the dimension on record. The
second half holds unless `ensureVectorTable` was left half way: the history variable `torn` says so until the table is dropped again.
The condition is needed. A session that stops between recording a dimension and
filling the table leaves an empty index that looks complete, and one that stops
between creating the first table and recording its dimension leaves a table of a
dimension that `CREATE ... IF NOT EXISTS` keeps under the next provider.
`CommitStoresProgram` (storing only what changed leaves the source of the whole
program in `code_symbols`, each symbol where this source stood in this program or
an earlier one) does not hold for overlapping loads of different source: hashes
are compared outside the transaction that writes them. One edit and one move of a
symbol are enough: a commit meets rows of the same source in the same place,
of the same source in another place, and of another source. Not claimed, since
it is not so: that `file_path`, `line_start` and `line_end` are those of the
program. A symbol that moved and kept its source is not stored again
(`storage.go:791` compares the hash of the source), and `semantic_search` answers
with the location it had when that source was first stored.

The configuration: two calls of any of the tools and one edit, on trees without
module files, with an unsound go.mod and with a go.work, and files that may be
missing, broken or set any of the kinds of settings the merge treats differently.
Two calls are the fewest for which one creates the file between the look and the
open of the other. `HighestLayerWins` compares the merge, which normalises three
times, with one choice per setting and one normalisation at the end.
`OnlyOwnFileIsWritten` is the promise of `init_workspace_config`. `AnswerFitsDisk`
says that what an inspection answers fits the files, whatever of dismissing and
reopening it did, if nobody else was at work. Not claimed: that `init` leaves the
effective configuration alone (it writes the defaults out, which then override
the user's file), nor that a torn state file is repaired (nothing rewrites it).

### Tools

`tools` has six components, one at work at a time.

* Lists of up to four items, chunks of one and two items (two is the configured
  maximum), pages of one and two, caps, four configured defaults (none, a cap of
  three with and without a chunk size, a limit with an offset), and two changes of
  the list or of the defaults. Three kinds of tool: those that hand their list to
  `streamOrWindow`, the call hierarchy, and the HTTP routes. The last two cut the
  list to `max_items` first (`call_hierarchy.go:156`, `http_routes.go:120`), so
  that under a configured cap a client that pages ends with what the cap leaves;
  the hierarchy then names the length of what is left as the total, the routes
  that of the whole list. With the other tools the cap bounds each page, and the
  client comes to the end of the list. The lifecycle listing, which cuts by a limit
  of its own (`lifecycle.go:139`), is not modelled. `ReadsWholeList` says of
  clients while nothing changes that pages bring what these rules leave, and that
  chunks add up to the list up to the cap. A
  configured chunk size makes every page a first chunk, and nothing is claimed of
  a client that pages then. `ChunksFit` says what the fingerprint guarantees when
  something changes: as many items as the total, from the first one on. Not
  claimed: that all items come from one list. A change between the first and the
  last item that keeps the length goes unnoticed, so chunks may come from two
  lists.
* Import graphs over seven possible edges of four packages, of which a narrow
  pattern loads two or three. Four packages are needed for two cycles that share
  packages. Every list of `findSCCs` is a component and comes after what it
  imports, the cycles are exact, the reverse closure is exact in any order of
  the queue, and a repeated boundary check with one more rule or a wider pattern
  loses nothing. Of the reverse dependencies the direct ones are paged or chunked;
  the calls have limits, offsets, caps below the number of dependents, chunk sizes
  and a cursor. The total counts all dependents, and the answer says `truncated`
  exactly when it leaves one out, with one exception: in a stream `max_items` cuts
  the direct ones before they are chunked (`streaming.go:132`), and what it cut is
  counted in the total, appears in no chunk and does not raise the flag.
* Call graphs over six calls of four functions with a diamond, a cycle and a
  recursive function. A diamond whose long side is walked first is what makes a
  depth-first walk with a bound wrong when it does not come back. The walk, the
  paths and the dead functions are compared with reference definitions.
* 2872 small Go programs, their report and all interleavings of main and up
  to two goroutines of one go statement. `RaceIsReported`: whenever main and a
  goroutine are about to access a field at once, one of them writing, the field
  is reported. For goroutines of one statement, which the code does not compare,
  it says so of plain writes without a lock. `LockedIsQuiet` is the other
  direction. It makes an exception of unresolved calls under the lock in three
  places where they are reported: in a goroutine that gets the object as an
  argument and in a function that others call, because the call keeps the name the
  object has there; and in a closure that captures a parameter of main. Such a
  parameter lives in a cell, whatever main does with it loads the pointer first,
  and each load is recorded as a read of the whole object with the locks of that
  moment (`dataflow.go:418`), the first before any lock is taken; the call in the
  closure is a write to the whole object and is compared with it. Not claimed:
  races under a read lock between such goroutines, and precision beyond one lock
  per program. `GoProgramsAreDisciplined` has TLC check that the programs are
  among those the theorem `RacesAreReported` is about.
* Functions that hand a model on, in every order of the functions and with two
  passes instead of four, so that chains longer than the bound occur among three
  functions. `WrappedUseIsKept` bounds what the passes record from below (all
  chains within the bound) and from above (nothing that reaches no operation),
  and says that a model on such a chain is not reported.
* Two calls on two patterns with one edit, evictions and failing snapshots.
  `ListingIsComplete` holds because a program is stored before it is cached. Not
  claimed: that the answer has nothing else. Rows are never deleted, and rows of
  other patterns are listed too. The filter that leaves imports of the standard
  library out of the package dependencies (`storage.go:457`) is not modelled.

These machines stop when they have answered, and a server that died does not
come back: both configurations switch the deadlock check off.

### File watcher

`watcher`: one file, a channel of one path and two scanners, so that paths are
dropped; scans, loads and transactions fail; tools load too. `watcher_live`: with
scans and loads that fail, a change leads to a request, a change seen while no
program is cached is indexed, and `Stop` ends the watcher. Fairness: goroutines
run and tickers fire (weak); a scan and a load that are retried succeed some
time, and a ready case of a `select` is taken some time, since Go picks among
ready cases at random (strong). `never_reindexed` shows that the condition on the
cache is needed: a watcher's request does not invalidate the cached program, so
the rebuild stores the old source again. `watcher_live` has no loads of tools and
no failing transactions: it does not say that a file is indexed beside them. Not
claimed: that the watcher comes to
rest (a test file is scanned and never loaded, a deleted file keeps its row, and
both differ from `file_meta` for ever), and that a hash is the hash of the
indexed source (files are parsed and then read again to be hashed).

## Proofs

Every theorem holds for all values of the constants that satisfy the named
assumptions of the modules. `PROJECT.json` lists the theorems; each is preceded
by its statement in words. An invariant is proved from an inductive one, `IInv`
or the like, by one lemma per action; the rest of this section says what the
inductive invariants add and why they are needed.

### Background runtime

`IInv` adds to the invariants themselves where the loop holds a request and what
the status must be at each label. From it follow the types, the sorted queue,
that no request is lost (`NoRequestLost`), that the lock follows the loop, that
the abort flag is aimed, that the status settles and that the store is closed.

`LockExcludes` (mutual exclusion of calls and the rebuild) assumes that no two
calls are of the same tool, which `same_tool_twice` shows to be necessary; the
strengthening is that a computing call owns the lock under its tool's name.

`ImplementsPriorityQueue` is the refinement of `PriorityQueue`: each step of the
lock, the queue, the loop and the calls is a step of the abstract queue or
leaves it alone. The two facts that carry it: a creation time is given once and
is at least every earlier one (`ClockInv`), and in a sorted queue the head is the
most urgent and oldest, so that taking the head is taking the abstract minimum.

### Program cache

`IInv` is the conjunction of the types, `ListInv` (no key twice, map equals list,
sorted by access, no access in the future), the capacity, `FlightInv` (a flight
loads in the mode of the callers that wait for it) and the mode property. The
order of the list needs the clock bound: an entry moved to the front carries the
current time, which nothing in the list exceeds. `ServedModeSuffices` needs
`FlightInv`, since a caller takes the result of a flight somebody else began.
The action properties `SweepIsComplete` and `NeverDowngraded` follow from it.

`QuietReload` needs `ReloadInv` besides: from the moment a reload dropped the
entry until it returns, whatever it can be handed, be it cached or the value of
a flight, is of the version it saw at the beginning or of a later one. Eviction
and sweeping only take programs away, and every load that begins reads the
source as it is now.

### Symbol and vector tables

`SInv` proves `VectorIndexIsSound` and the half of `CommitStoresProgram` that is
about sources; for the half about locations `RowsInv` adds that a row tells of no
later version than the program that is being stored. The parts of `SInv`:
a row of the index is the stored symbol's row and of the recorded dimension
(`IndexFits`); what a rebuild of the index has read and not yet inserted fits the
table it will go to and is still the stored row, unless that row has been
inserted meanwhile, in which case the insertion fails (`CopiesFit`); sessions
that overlap share a provider, the others come one at a time (`OneProvider`,
`OneAtATime`). The last two are where the two ways of using the store differ:
with one provider nobody drops the table, and without overlap nobody stores in
between.

### File watcher

`ChannelInv`: the channel never holds more than its size. A path is dropped only
when the channel holds as many as its size, hence at least one, and that one
leads to the request. `TypeCorrect` proves the types with it.

### Configuration

`OthersFilesAreSafe` (`CInv`): a file that is being written exists, hence nobody
can create it again and become its origin, and what an `init` call writes is the
suggestion, which is not "no file".

`LayersWin` and `AnswersFit` (`LInv`): what a call has merged at each of its
labels, as a function of the files, as long as nobody else was at work. The
argument of `LayersWin` is about `mergeWorkspaceConfig` alone: normalising is
idempotent, a setting that only the normalisation filled in is the same whatever
was below it, and the next merge forgets it if a file sets it. The patterns of
the modules and the cleaning of lists of strings are recursive functions; lemmas
show by induction that they satisfy their equations.

### Answers of list tools

`StreamInv` says where the cursor points: behind the items the client has, which
are fewer than its total, with the first of them in the fingerprint; and, while
nothing changes, that these are a beginning of the list. `ChunksFit` follows
without the second part, `ReadsWholeList` with it.

`ListingsAreComplete` rests on `CacheIsStored`: whatever can be had from the
cache is in the tables, and so is what a call that passed the store is about to
list. Storing only adds, so other loads cannot break it. `ListingTypes` says that
what is stored are rows of packages of the workspace: a call that is about to
store or cache has a program of its pattern.

### Package graph and call graph

What these tools compute is compared with references that are recursive
functions over the distance (`Reach`, `Live`, `Near`, `SimplePaths`). The lemmas
show, layer by layer, that each reference is the least set closed under the
edges, and the invariants of the searches are then stated with closed sets:

* Reverse search and dead code (`SearchInv`, `DeadInv`): everything visited is
  reachable, and an edge from a visited node leads to a visited or a waiting one.
* Tarjan's algorithm (`TarjanInv`): the stack is in the order of the indices; a
  package on it leads to all that came later, and to a package in progress that
  came no later; nothing leads out of what was emitted; the low link of a call
  is the index of a package on the stack that it leads to, and a bound for the
  imports looked at within the call. When a call ends with its low link equal to
  its index, what is above it on the stack is therefore one component, and
  leads to nothing else on the stack.
* Bounded walk (`WalkInv`): the depth recorded for a function is the length of
  some way to it, and each of its calls was followed at that depth or awaits it
  in a call of `walk` in progress. The second half would fail without the second
  visit at a smaller depth.
* Paths (`PathsInv`): the queue is sorted and its lengths differ by at most one;
  no path in it is the beginning of another or of one found; every path that is
  wanted was found, begins with one of the queue, or was cut off when there were
  enough that are not longer.
* Boundaries: the report is what the rules forbid in the loaded program, and
  that grows with the rules and with the program.

### Summaries

`WrappersAreFollowed`: with `Handed(n)` the parameters that reach an operation
through at most n functions, every function that had its turn in pass p records
`Handed(p)` and nothing that reaches no operation. A pass that changes nothing
leaves a record closed under the calls, so that ending early loses nothing. The
induction goes over the passes and, within one, over the turns; the order of the
functions only decides how much more than `Handed(p)` is found.

`LockedIsNotReported`: an access is `Safe` if it is under the lock and carries the
name that its function has for the object, or if it is main's load of a captured
pointer, a read without a field that only an unresolved call of the goroutine
could be compared with. Scanning a body yields safe accesses,
since a function that locks before its accesses holds the lock at each; renaming
parameters and adding the caller's locks keep them safe, hence so does expanding
calls to any depth; and two safe accesses share a lock that excludes, or have
different names. The scan is a recursive function over the positions of the
body, unfolded by induction.

`RacesAreReported` is the other direction and relates the report, which is made
from the text, to a run of the program. Its invariant `Sound` says of every
thread:

* The calls on its stack are `Chained`: each but the top one stands behind the
  call instruction that entered the next, and the first is `main` or `worker`.
* What a call holds by the text of its body up to where it stands, the thread
  has (`HeldAreOwned`). For that to survive an unlock or the deferred unlocks of
  a return, no call may take what one of its callers holds (`TakenAfresh`): a
  lock held for writing is not free, and one held for reading is excluded by
  `Bounded`, a bound on what callers can hold for reading.
* A deferred unlock is of a lock that its function takes (`Deferred`).

`AccessIsCovered` then goes up the stack, one expansion of the scan per call,
and finds an entry of the report's input for the access a thread is about to do:
under the name the object has in `main`, as a write or an atomic if it is one,
and with no lock that the thread does not have (fewer locks in an entry only
cause more reports). Two threads that are about to race have no lock in common except for reading (`SharedIsRead`), so the
entries of the two are not taken to be protected.

The theorem is about programs that are `Disciplined` and calls that are
`Followed`, and each restriction excludes programs whose races are missed:

* A function gives back only locks that it took itself, the way it took them. A
  helper that unlocks the lock of its caller leaves the caller's lockset as it
  was, and what the caller does then counts as protected.
* A function does not lock for reading what a caller may have locked for reading,
  which `sync.RWMutex` forbids as well: the model's readers are a set, so the
  inner unlock would give up the outer lock.
* An unresolved call is made in a function that nobody calls and, in the
  goroutine, only if that is a closure: elsewhere it keeps the name the object
  has there, and is not compared with what main does under its own name.
* Calls are nested no deeper than `MaxCallDepth`.

### Components side by side

`MCPersistence` and `MCTools` put independent components into one behaviour, of
which one is at work. `PersistentTypes` and `ToolTypes` prove the types of these
compositions, the specifications that the runs check: each component keeps to
its own invariant or is off, a component that is off does nothing, and a step of
one leaves the variables of the others alone.

### What is assumed of the constants

Model values that mean "none" differ from the values they stand beside
(`NoRequest`, `NoEntry`, `NoFlight`, `NoResult`, `LoadError`, `NoCursor`, `Absent`,
`Unset`); tools are not called "sync-manager", the loop's name for itself; bounds
on edits, versions and time are natural numbers. Beyond that:

| Assumption | Why the code justifies it |
|---|---|
| `WorkspaceAssumption`: capacities and TTLs are natural numbers | `SetCapacity` takes less than one for one, and `sweep` any TTL that is not positive for none |
| `WatcherAssumption`: the channel has a size | it is a constant |
| `StoreAssumption`: a provider has a positive dimension | `ensureVectorTable` refuses any other, and the configuration has a default |
| `ContentsAssumption`, `TreesAssumption`, `UnsetAssumption` | types of what a file may hold; an empty list reads as a missing one |
| `MaxChunkSizeAssumption`, `CallsAssumption`, `OutputsAssumption` | options are clamped to natural numbers before they are used; there is always a configuration |
| `PatternsAssumption` | a pattern matches packages of the workspace |
| `FuncsAssumption`, `PackagesAssumption`, `AppFuncsAssumption`: finite | a loaded program is finite |
| `OwnAssumption` | root packages of a pattern are loaded by it |
| `DepthsAssumption` | default and limit are constants |
| `PathCountsAssumption`: positive | `call_path.go:44-46` replaces anything else by the default |
| `RolesAssumption`: an entry point is no candidate for dead code | entry points are named `main` or `init`, which `dead_code.go:438` excludes |
| `MaxPassesAssumption`, `MaxCallDepthAssumption` | they are constants |
| `FieldsAssumption` | a field has a name; an empty path stands for the whole object |
| `AppsAssumption`, `GoProgramsAssumption`, `CallGraphsAssumption`, `ProgramsAssumption` | types of programs |

### Only model-checked

* Liveness, which is out of the prover's reach: `EveryRequestFinishes`,
  `CancelStopsLoop`, `EveryCallReturns`, `IdleIsEvicted`, `ChangeIsRequested`,
  `StopEndsWatcher`, `IndexedIfUncached`.
* What the assumptions of the table say of the instances, evaluated by every run,
  and `GoProgramsAreDisciplined`.
* The runs that expect a violation.

Every invariant and every safety property of a step that a passing run checks is
stated by a theorem.

## Not modelled

* `RebuildQueue.Abort`, which nothing calls, and the progress counters.
* The router that `activeQueryRouter` makes per call when the runtime is
  disabled: each has a lock of its own, so there is nothing to exclude.
* Pattern normalisation and cache keys, YAML, the go.work parser, the encoding of
  cursors: what they yield is an input of the models.
* Recognition of routes, gRPC services, ORM tags and operations, complexity and
  Halstead metrics, duplicate methods, symbols, lifecycle and interface listings:
  one pass over Go syntax or types, without state that outlives the call or a
  loop over its own results, and with inputs too rich for a small set.
* In the concurrency analysis: branches and loops, keys of containers, aliases
  other than the cell of a captured parameter, and the cap on expanded accesses. In the call-graph tools: labels of
  entrypoints and kinds of edges. `graph_export.go`, which prints.
* The embedding vectors and the HTTP call that computes them.
* `state.json`: written, and not read back by the running server.
* The npm launcher: it downloads the binary and starts it.

## Plan

1. Done: lock, queue, loop, router and their composition; the abstract queue;
   the program cache; the symbol and vector tables; the watcher; proofs of the
   invariants of the first two and of the watcher's channel.
2. Done: configuration, streaming, the listed tables, the algorithms on package
   and call graphs, the concurrency analysis and the orphaned models; proofs of
   `ListingIsComplete`, `OnlyOwnFileIsWritten` and `NoViolationLost`.
3. Done: proofs of the refinement of `PriorityQueue`, of the reload, of the vector
   index and its commits, of the precedence of layers, of the clients of lists,
   of what the graph algorithms and the summaries compute, and of the types.
4. Done: `RaceIsReported` for the programs it holds of, with the restrictions
   stated as hypotheses; the types of the listings and of the compositions.
5. Left: liveness, which needs another prover. In the concurrency analysis,
   branches and loops in the bodies of the analysed programs.
