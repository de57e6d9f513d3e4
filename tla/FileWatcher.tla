---------------------------- MODULE FileWatcher ----------------------------
(***************************************************************************)
(* The polling watcher of analyzer/file_watcher.go and what it is for:     *)
(* noticing that the files on disk differ from the table file_meta, and    *)
(* asking for a rebuild.  Two goroutines talk over a bounded channel: a    *)
(* scanner (poll, and the one scan startBackgroundRuntime makes itself)    *)
(* sends the paths that differ and drops those that do not fit;            *)
(* debouncedProcess collects paths and enqueues one request at a tick of   *)
(* its ticker if it has any.                                               *)
(*                                                                         *)
(* The rebuild is reduced to what it writes about files: it gets the       *)
(* program from the cache twice, first with types and then with SSA, and   *)
(* stores it once more itself.  A load parses the files, then hashes them, *)
(* then stores both.  One load is in progress at a time; module Workspace  *)
(* has the races between loads.  Test files are scanned but never loaded   *)
(* (packages.Config has Tests: false).                                     *)
(*                                                                         *)
(* A file's content is the number of the edit that wrote it.               *)
(***************************************************************************)
EXTENDS Integers, Sequences, FiniteSets

CONSTANTS
    SourceFiles,    \* .go files that packages.Load returns
    TestFiles,      \* .go files that scanHashes sees and packages.Load does not
    ChannelSize,    \* capacity of changes; 128 in the program
    MaxEdits,       \* bound: edits and removals
    MaxRequests,    \* bound: requests waiting in the rebuild queue
    Failures,       \* what may fail: "scan", "load", "store"
    ToolModes,      \* the modes in which tools load
    Scanners,       \* the scans that run: "poll", and "initial" by startBackgroundRuntime
    NoProgram

Files == SourceFiles \cup TestFiles
Absent == 0
Contents == 0..MaxEdits
EmptyHash == -1     \* the hash of a file that could not be read
Hashes == Contents \cup {EmptyHash}
TypesMode == 1
SSAMode == 2

ASSUME WatcherAssumption ==
    /\ SourceFiles \cap TestFiles = {}
    /\ ChannelSize \in Nat \ {0}
    /\ MaxEdits \in Nat \ {0}
    /\ MaxRequests \in Nat \ {0}
    /\ Failures \subseteq {"scan", "load", "store"}
    /\ ToolModes \subseteq {TypesMode, SSAMode}
    /\ Scanners \in {{"poll"}, {"initial", "poll"}}

VARIABLES
    disk,        \* [Files -> Contents]
    edits,       \* edits so far
    fileMeta,    \* [Files -> Hashes], the hash column of table file_meta
    index,       \* [SourceFiles -> Contents], the source whose symbols are stored
    changes,     \* the channel
    collected,   \* the set "pending" of debouncedProcess
    requests,    \* watcher requests in the rebuild queue
    scanPc, scanned, found,    \* by scanner: where it is, Scan, DetectChanges
    debouncePc,  \* "select" or "stopped"
    done,        \* the watcher was stopped, or its context cancelled
    program,     \* the cached program, or NoProgram
    buildPc, got, want,        \* the load in progress: its program and mode
    rebuilding,  \* the load is a step of a rebuild, not of a tool
    builderStore,              \* SSABuilder.store: "nil", or "closed" by the first rebuild
    owed         \* a path was sent since the last request, for the properties

diskVars == <<disk, edits>>
storeVars == <<fileMeta, index>>
scanVars == <<scanPc, scanned, found>>
debounceVars == <<collected, debouncePc>>
buildVars == <<program, buildPc, got, want, rebuilding, builderStore>>
vars == <<diskVars, storeVars, changes, debounceVars, requests, scanVars, done,
          buildVars, owed>>

NoFiles == [f \in Files |-> Absent]

(* What a LoadedProgram says about the files: the parsed source, the       *)
(* hashes in fileMetas, and the mode.                                      *)
Programs == [src : [SourceFiles -> Contents], hash : [SourceFiles -> Hashes],
             mode : {TypesMode, SSAMode}]

Init ==
    /\ disk \in [Files -> {Absent, 1}]
    /\ edits = 1
    /\ fileMeta = NoFiles
    /\ index = [f \in SourceFiles |-> Absent]
    /\ changes = <<>>
    /\ collected = {}
    /\ requests = 0
    /\ scanPc = [s \in Scanners |-> IF s = "initial" THEN "scan" ELSE "select"]
    /\ scanned = [s \in Scanners |-> NoFiles]
    /\ found = [s \in Scanners |-> {}]
    /\ debouncePc = "select"
    /\ done = FALSE
    /\ program = NoProgram
    /\ buildPc = "idle"
    /\ got = NoProgram
    /\ want = TypesMode
    /\ rebuilding = FALSE
    /\ builderStore = "nil"
    /\ owed = FALSE

-----------------------------------------------------------------------------
(* poll and ScanAndEnqueue                                                 *)

pollTick ==
    /\ scanPc["poll"] = "select"
    /\ scanPc' = [scanPc EXCEPT !["poll"] = "scan"]
    /\ UNCHANGED <<diskVars, storeVars, changes, debounceVars, requests, scanned,
                   found, done, buildVars, owed>>

(* The initial scan runs once; poll goes back to its select.               *)
AfterScan(s) == IF s = "poll" THEN "select" ELSE "stopped"

Scan(s) ==
    /\ scanPc[s] = "scan"
    /\ scanPc' = [scanPc EXCEPT ![s] = "detect"]
    /\ scanned' = [scanned EXCEPT ![s] = disk]
    /\ UNCHANGED <<diskVars, storeVars, changes, debounceVars, requests, found, done,
                   buildVars, owed>>

Detected(s, differing) ==
    /\ scanPc[s] = "detect"
    /\ found' = [found EXCEPT ![s] = differing]
    /\ scanPc' = [scanPc EXCEPT ![s] = IF differing = {} THEN AfterScan(s) ELSE "trigger"]
    /\ scanned' = [scanned EXCEPT ![s] = NoFiles]
    /\ UNCHANGED <<diskVars, storeVars, changes, debounceVars, requests, done,
                   buildVars, owed>>

(* Mutant: a file without a row is not taken for changed.                  *)
DetectChangesOfKnown(s) ==
    Detected(s, {f \in Files : fileMeta[f] # Absent /\ scanned[s][f] # fileMeta[f]})

(* Changed files, and files with a row that are gone.                      *)
DetectChanges(s) == Detected(s, {f \in Files : scanned[s][f] # fileMeta[f]})

(* Scan or DetectChanges returned an error, which nobody keeps: the next   *)
(* tick scans again.                                                       *)
DetectFails(s) == "scan" \in Failures /\ Detected(s, {})

(* Mutant: the channel grows.                                              *)
TriggerUnbounded(s, f) ==
    /\ scanPc[s] = "trigger"
    /\ f \in found[s]
    /\ changes' = Append(changes, f)
    /\ owed' = TRUE
    /\ found' = [found EXCEPT ![s] = @ \ {f}]
    /\ scanPc' = [scanPc EXCEPT ![s] = IF found[s] = {f} THEN AfterScan(s) ELSE "trigger"]
    /\ UNCHANGED <<diskVars, storeVars, debounceVars, requests, scanned, done, buildVars>>

(* Trigger for one of the paths, in any order: a path that does not fit is *)
(* dropped.                                                                *)
Trigger(s, f) ==
    /\ scanPc[s] = "trigger"
    /\ f \in found[s]
    /\ changes' = IF Len(changes) < ChannelSize THEN Append(changes, f) ELSE changes
    /\ owed' = TRUE
    /\ found' = [found EXCEPT ![s] = @ \ {f}]
    /\ scanPc' = [scanPc EXCEPT ![s] = IF found[s] = {f} THEN AfterScan(s) ELSE "trigger"]
    /\ UNCHANGED <<diskVars, storeVars, debounceVars, requests, scanned, done, buildVars>>

(* Mutant: poll does not look at done.                                     *)
pollStopMissing ==
    /\ FALSE
    /\ UNCHANGED vars

pollStop ==
    /\ scanPc["poll"] = "select"
    /\ done
    /\ scanPc' = [scanPc EXCEPT !["poll"] = "stopped"]
    /\ UNCHANGED <<diskVars, storeVars, changes, debounceVars, requests, scanned,
                   found, done, buildVars, owed>>

-----------------------------------------------------------------------------
(* debouncedProcess.  A select with several ready cases takes any of them. *)

(* Mutant: a path that comes while a request is waiting is not collected.  *)
debounceReceiveForgets ==
    /\ debouncePc = "select"
    /\ changes # <<>>
    /\ collected' = IF requests > 0 THEN collected ELSE collected \cup {Head(changes)}
    /\ changes' = Tail(changes)
    /\ UNCHANGED <<diskVars, storeVars, debouncePc, requests, scanVars, done, buildVars, owed>>

debounceReceive ==
    /\ debouncePc = "select"
    /\ changes # <<>>
    /\ collected' = collected \cup {Head(changes)}
    /\ changes' = Tail(changes)
    /\ UNCHANGED <<diskVars, storeVars, debouncePc, requests, scanVars, done, buildVars, owed>>

debounceTick ==
    /\ debouncePc = "select"
    /\ collected # {}
    /\ requests < MaxRequests
    /\ requests' = requests + 1
    /\ owed' = (changes # <<>>)
    /\ collected' = {}
    /\ UNCHANGED <<diskVars, storeVars, changes, debouncePc, scanVars, done, buildVars>>

debounceStop ==
    /\ debouncePc = "select"
    /\ done
    /\ debouncePc' = "stopped"
    /\ UNCHANGED <<diskVars, storeVars, changes, collected, requests, scanVars, done,
                   buildVars, owed>>

Stop ==
    /\ ~done
    /\ done' = TRUE
    /\ UNCHANGED <<diskVars, storeVars, changes, debounceVars, requests, scanVars,
                   buildVars, owed>>

-----------------------------------------------------------------------------
(* The rebuild, and the program cache                                      *)

OutsideBuild == <<diskVars, changes, debounceVars, scanVars, done, owed>>

(* A rebuild takes a request from the queue.                               *)
RebuildStart ==
    /\ buildPc = "idle"
    /\ requests > 0
    /\ requests' = requests - 1
    /\ buildPc' = "get"
    /\ want' = TypesMode
    /\ rebuilding' = TRUE
    /\ UNCHANGED <<OutsideBuild, storeVars, program, got, builderStore>>

(* A tool gets the program too.                                            *)
ToolStart(m) ==
    /\ buildPc = "idle"
    /\ buildPc' = "get"
    /\ want' = m
    /\ rebuilding' = FALSE
    /\ UNCHANGED <<OutsideBuild, storeVars, requests, program, got, builderStore>>

Return ==
    /\ buildPc' = "idle"
    /\ got' = NoProgram
    /\ want' = TypesMode
    /\ rebuilding' = FALSE

(* The program p is there: a tool is served, a rebuild goes on to the SSA  *)
(* mode and then to its snapshot.                                          *)
Served(p) ==
    \/ /\ ~rebuilding
       /\ Return
    \/ /\ rebuilding
       /\ want = TypesMode
       /\ buildPc' = "get"
       /\ got' = NoProgram
       /\ want' = SSAMode
       /\ UNCHANGED rebuilding
    \/ /\ rebuilding
       /\ want = SSAMode
       /\ buildPc' = "snapshot"
       /\ got' = p
       /\ UNCHANGED <<want, rebuilding>>

(* getOrLoad looks in the cache.                                           *)
Get ==
    /\ buildPc = "get"
    /\ IF program # NoProgram /\ program.mode >= want
       THEN Served(program)
       ELSE buildPc' = "parse" /\ UNCHANGED <<got, want, rebuilding>>
    /\ UNCHANGED <<OutsideBuild, storeVars, requests, program, builderStore>>

(* packages.Load reads the sources.                                        *)
Parse ==
    /\ buildPc = "parse"
    /\ buildPc' = "hash"
    /\ got' = [src |-> [f \in SourceFiles |-> disk[f]],
               hash |-> [f \in SourceFiles |-> Absent], mode |-> want]
    /\ UNCHANGED <<OutsideBuild, storeVars, requests, program, want, rebuilding, builderStore>>

(* The load fails, and what asked for it with it.                          *)
ParseFails ==
    /\ "load" \in Failures
    /\ buildPc = "parse"
    /\ Return
    /\ UNCHANGED <<OutsideBuild, storeVars, requests, program, builderStore>>

(* extractFileMetasFromPackages reads them again.                          *)
Hash ==
    LET hashFile(f) == IF disk[f] = Absent THEN EmptyHash ELSE disk[f]
    IN /\ buildPc = "hash"
       /\ buildPc' = "store"
       /\ got' = [got EXCEPT !.hash = [f \in SourceFiles |->
                      IF got.src[f] = Absent THEN Absent ELSE hashFile(f)]]
       /\ UNCHANGED <<OutsideBuild, storeVars, requests, program, want, rebuilding, builderStore>>

(* The transaction: rows are inserted or overwritten, never deleted.       *)
WriteRows ==
    /\ fileMeta' = [f \in Files |->
                       IF f \in SourceFiles /\ got.src[f] # Absent THEN got.hash[f] ELSE fileMeta[f]]
    /\ index' = [f \in SourceFiles |-> IF got.src[f] # Absent THEN got.src[f] ELSE index[f]]

WriteRowsOrFail == WriteRows \/ ("store" \in Failures /\ UNCHANGED storeVars)

(* Mutant: the program is filed without having been stored.                *)
StoreNothing ==
    /\ buildPc = "store"
    /\ program' = got
    /\ Served(got)
    /\ UNCHANGED <<OutsideBuild, storeVars, requests, builderStore>>

(* ShadowStoreProgram, whose error is only logged; then the program is     *)
(* filed in the cache.                                                     *)
Store ==
    /\ buildPc = "store"
    /\ WriteRowsOrFail
    /\ program' = got
    /\ Served(got)
    /\ UNCHANGED <<OutsideBuild, requests, builderStore>>

(* ComputeAndSnapshot stores the program once more, but only the first     *)
(* rebuild has an open store to do so.                                     *)
Snapshot ==
    /\ buildPc = "snapshot"
    /\ Return
    /\ IF builderStore = "nil" THEN WriteRowsOrFail ELSE UNCHANGED storeVars
    /\ builderStore' = "closed"
    /\ UNCHANGED <<OutsideBuild, requests, program>>

(* reload_workspace, clear_cache, the capacity or the sweeper.             *)
Evict ==
    /\ program # NoProgram
    /\ program' = NoProgram
    /\ UNCHANGED <<diskVars, storeVars, changes, debounceVars, requests, scanVars, done,
                   buildPc, got, want, rebuilding, builderStore, owed>>

Write(f) ==
    /\ edits < MaxEdits
    /\ edits' = edits + 1
    /\ disk' = [disk EXCEPT ![f] = edits + 1]
    /\ UNCHANGED <<storeVars, changes, debounceVars, requests, scanVars, done,
                   buildVars, owed>>

Delete(f) ==
    /\ edits < MaxEdits
    /\ disk[f] # Absent
    /\ edits' = edits + 1
    /\ disk' = [disk EXCEPT ![f] = Absent]
    /\ UNCHANGED <<storeVars, changes, debounceVars, requests, scanVars, done,
                   buildVars, owed>>

-----------------------------------------------------------------------------
ScanStep(s) == Scan(s) \/ DetectChanges(s) \/ \E f \in Files : Trigger(s, f)

Load == Get \/ Parse \/ ParseFails \/ Hash \/ Store \/ Snapshot

Next ==
    \/ pollTick \/ pollStop
    \/ \E s \in Scanners : ScanStep(s) \/ DetectFails(s)
    \/ debounceReceive \/ debounceTick \/ debounceStop
    \/ Stop
    \/ RebuildStart
    \/ \E m \in ToolModes : ToolStart(m)
    \/ Load
    \/ Evict
    \/ \E f \in Files : Write(f) \/ Delete(f)

Spec == Init /\ [][Next]_vars

(* The goroutines run and their tickers fire; a scan or a load that is     *)
(* tried again and again succeeds some time; and a select that finds the   *)
(* same case ready again and again takes it some time, since Go chooses    *)
(* among the ready cases at random.                                        *)
FairSpec ==
    /\ Spec
    /\ WF_vars(pollTick \/ ScanStep("poll"))
    /\ SF_vars(DetectChanges("poll"))
    /\ SF_vars(debounceReceive)
    /\ SF_vars(debounceTick)
    /\ SF_vars(pollStop)
    /\ SF_vars(debounceStop)
    /\ WF_vars(RebuildStart \/ Load)
    /\ SF_vars(Parse)

-----------------------------------------------------------------------------
(* Every variable keeps the values its Go type and use allow.              *)
TypeOK ==
    /\ disk \in [Files -> Contents]
    /\ edits \in 1..MaxEdits
    /\ fileMeta \in [Files -> Hashes]
    /\ index \in [SourceFiles -> Contents]
    /\ changes \in Seq(Files) /\ Len(changes) <= ChannelSize
    /\ collected \subseteq Files
    /\ requests \in 0..MaxRequests
    /\ scanPc \in [Scanners -> {"select", "scan", "detect", "trigger", "stopped"}]
    /\ scanned \in [Scanners -> [Files -> Contents]]
    /\ found \in [Scanners -> SUBSET Files]
    /\ debouncePc \in {"select", "stopped"}
    /\ done \in BOOLEAN
    /\ program \in Programs \cup {NoProgram}
    /\ got \in Programs \cup {NoProgram}
    /\ want \in {TypesMode, SSAMode}
    /\ buildPc \in {"idle", "get", "parse", "hash", "store", "snapshot"}
    /\ rebuilding \in BOOLEAN
    /\ builderStore \in {"nil", "closed"}
    /\ owed \in BOOLEAN

(* Dropping a path when the channel is full loses nothing that matters: as *)
(* long as a path was sent and no request has followed it, some path is    *)
(* still on its way to one.                                                *)
DropsAreCovered == owed => changes # <<>> \/ collected # {}

Differs(f) == disk[f] # fileMeta[f]

(* A file that differs from its row leads to a request, or stops to        *)
(* differ, unless the watcher is stopped, however many paths are dropped.  *)
ChangeIsRequested ==
    \A f \in Files : Differs(f) ~> (requests > 0 \/ ~Differs(f) \/ done)

(* Stop ends both goroutines.                                              *)
StopEndsWatcher ==
    done ~> (debouncePc = "stopped" /\ scanPc["poll"] = "stopped")

(* Once the editing is over, a file that differs while no program is       *)
(* cached is indexed in its last version, although scans and loads of the  *)
(* rebuild fail and programs are evicted meanwhile.  It is a property of   *)
(* instances without loads of tools and without failures of the store.     *)
IndexedIfUncached ==
    \A f \in SourceFiles :
        (/\ edits = MaxEdits /\ disk[f] # Absent /\ Differs(f)
         /\ program = NoProgram /\ buildPc = "idle")
        ~> ((~Differs(f) /\ index[f] = disk[f]) \/ done)

(* Once the editing is over, a file is indexed in its last version.        *)
EditIsIndexed ==
    \A f \in SourceFiles :
        (edits = MaxEdits /\ disk[f] # Absent /\ Differs(f))
        ~> (~Differs(f) \/ done)
=============================================================================
