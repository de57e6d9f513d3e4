----------------------------- MODULE Workspace -----------------------------
(***************************************************************************)
(* The program cache of analyzer/workspace.go: an LRU list with a map, a   *)
(* capacity, an idle time-to-live, three load modes, and loads coalesced   *)
(* by singleflight.  A key stands for a directory with its normalised      *)
(* patterns.  A program is reduced to its mode and to the version of the   *)
(* source it was loaded from; editing the source makes a new version.      *)
(*                                                                         *)
(* Every method of Workspace is one critical section of its mutex, except  *)
(* getOrLoad: it looks the key up, releases the mutex, loads inside a      *)
(* singleflight call (keyed by key AND mode), and takes the mutex again to *)
(* file the result.  The steps between are interleaved with everything     *)
(* else.                                                                   *)
(***************************************************************************)
EXTENDS Integers, Sequences, FiniteSets

CONSTANTS
    Keys,         \* cache keys
    Calls,        \* goroutines calling into the workspace
    Modes,        \* the load modes in use
    Capacities,   \* arguments of SetCapacity
    TTLs,         \* arguments of SetTTL
    MaxVersion,   \* bound: edits of the source of a key
    MaxTime,      \* bound: ticks of the clock
    NoEntry, NoFlight, NoResult, LoadError

LoadModeSyntax == 0
LoadModeTypes == 1
LoadModeSSA == 2

ASSUME WorkspaceAssumption ==
    /\ Modes \subseteq {LoadModeSyntax, LoadModeTypes, LoadModeSSA}
    /\ LoadModeTypes \in Modes
    /\ Capacities \subseteq Nat
    /\ TTLs \subseteq Nat
    /\ MaxVersion \in Nat
    /\ MaxTime \in Nat
    /\ Keys # {}

Programs == [mode : Modes, version : 0..MaxVersion]
Entries == [prog : Programs, lastAccess : 0..MaxTime]
Flights == [stage : {"loading", "loaded", "over"},
            value : Programs \cup {NoResult, LoadError}]

ASSUME SentinelAssumption ==
    /\ NoEntry \notin Entries
    /\ NoFlight \notin Flights
    /\ NoResult \notin Programs
    /\ LoadError \notin Programs
    /\ LoadError # NoResult

VARIABLES
    order,      \* keys, most recently used first (container/list)
    cache,      \* [Keys -> Entries \cup {NoEntry}], the map and its entries
    capacity, ttl,
    flight,     \* [Keys -> [Modes -> a singleflight call or NoFlight]]
    source,     \* [Keys -> version], what is on disk
    now,        \* time.Now()
    callPc,     \* [Calls -> CallLabels]
    callKey, callMode,
    result,     \* [Calls -> Programs \cup {NoResult, LoadError}]
    asked,      \* [Calls -> version on disk when a Reload began, 0 otherwise]
    quiet       \* [Calls -> no load of the key was under way when Reload began]

cacheVars == <<order, cache>>
limitVars == <<capacity, ttl>>
envVars == <<source, now>>
requestVars == <<callKey, callMode, asked, quiet>>
vars == <<cacheVars, limitVars, flight, envVars, callPc, requestVars, result>>

CallLabels == {"idle", "lookup", "do", "lead", "wait", "returned"}

defaultCacheCapacity == 2

(* NewWorkspace, with the default capacity or the one of the environment   *)
(* variable, and the default time-to-live.                                 *)
NewWorkspace ==
    /\ order = <<>>
    /\ cache = [k \in Keys |-> NoEntry]
    /\ capacity \in {defaultCacheCapacity} \cup (Capacities \ {0})
    /\ ttl \in TTLs
    /\ flight = [k \in Keys |-> [m \in Modes |-> NoFlight]]
    /\ source = [k \in Keys |-> 0]
    /\ now = 0

Init ==
    /\ NewWorkspace
    /\ callPc = [c \in Calls |-> "idle"]
    /\ callKey \in [Calls -> {CHOOSE k \in Keys : TRUE}]
    /\ callMode = [c \in Calls |-> LoadModeTypes]
    /\ result = [c \in Calls |-> NoResult]
    /\ asked = [c \in Calls |-> 0]
    /\ quiet = [c \in Calls |-> TRUE]

-----------------------------------------------------------------------------
(* container/list, by position                                             *)

RemoveAt(q, i) == [j \in 1..(Len(q) - 1) |-> IF j < i THEN q[j] ELSE q[j + 1]]

PushFront(q, k) == [j \in 1..(Len(q) + 1) |-> IF j = 1 THEN k ELSE q[j - 1]]

MoveToFront(q, i) ==
    [j \in DOMAIN q |-> IF j = 1 THEN q[i] ELSE IF j <= i THEN q[j - 1] ELSE q[j]]

Take(q, n) == [j \in 1..n |-> q[j]]

Cached(k) == cache[k] # NoEntry

(* Touching an entry: a program is filed under k, its access time is now,  *)
(* and it moves to the front.                                              *)
Touch(k, prog) ==
    /\ cache' = [cache EXCEPT ![k] = [prog |-> prog, lastAccess |-> now]]
    /\ \E i \in DOMAIN order : order[i] = k /\ order' = MoveToFront(order, i)

(* Keep the first n elements of list q, and delete the keys of the others  *)
(* from map c.                                                             *)
KeepFirst(q, c, n) ==
    /\ order' = Take(q, n)
    /\ cache' = [k \in Keys |->
                    IF \E i \in (n + 1)..Len(q) : q[i] = k THEN NoEntry ELSE c[k]]

(* Mutant: one entry too many survives.                                    *)
evictLockedOffByOne(q, c, cap) ==
    KeepFirst(q, c, IF Len(q) > cap + 1 THEN cap + 1 ELSE Len(q))

(* Mutant: evicted elements leave the list but stay in the map.            *)
evictLockedListOnly(q, c, cap) ==
    /\ order' = Take(q, IF Len(q) > cap THEN cap ELSE Len(q))
    /\ cache' = c

(* Drop the least recently used entries until the list fits the capacity.  *)
evictLocked(q, c, cap) ==
    KeepFirst(q, c, IF Len(q) > cap THEN cap ELSE Len(q))

(* Invalidate, and Clear with its return value left out.                   *)
Remove(k) ==
    IF Cached(k)
    THEN /\ cache' = [cache EXCEPT ![k] = NoEntry]
         /\ \E i \in DOMAIN order : order[i] = k /\ order' = RemoveAt(order, i)
    ELSE UNCHANGED cacheVars

-----------------------------------------------------------------------------
(* getOrLoad                                                               *)

Answer(c, res) ==
    /\ callPc' = [callPc EXCEPT ![c] = "returned"]
    /\ result' = [result EXCEPT ![c] = res]

(* Mutant: any cached program is a hit, whatever was asked for.            *)
HitIgnoresMode(k, m) == Cached(k)

Hit(k, m) == Cached(k) /\ cache[k].prog.mode >= m

(* The first critical section, for a call that wants k in mode m.          *)
Lookup(c, k, m) ==
    IF Hit(k, m)
    THEN /\ Touch(k, cache[k].prog)
         /\ Answer(c, cache[k].prog)
    ELSE /\ callPc' = [callPc EXCEPT ![c] = "do"]
         /\ UNCHANGED cacheVars
         /\ UNCHANGED result

(* GetOrLoadSyntaxOnly, GetOrLoad and GetOrLoadSSA.                        *)
getOrLoad(c, k, m) ==
    /\ callPc[c] = "idle"
    /\ callKey' = [callKey EXCEPT ![c] = k]
    /\ callMode' = [callMode EXCEPT ![c] = m]
    /\ Lookup(c, k, m)
    /\ UNCHANGED <<asked, quiet, limitVars, flight, envVars>>

(* group.Do: the first caller of a (key, mode) leads, later ones wait.     *)
Do(c) ==
    LET k == callKey[c]
        m == callMode[c]
    IN /\ callPc[c] = "do"
       /\ IF flight[k][m] = NoFlight
          THEN /\ flight' = [flight EXCEPT ![k][m] = [stage |-> "loading", value |-> NoResult]]
               /\ callPc' = [callPc EXCEPT ![c] = "lead"]
          ELSE /\ callPc' = [callPc EXCEPT ![c] = "wait"]
               /\ UNCHANGED flight
       /\ UNCHANGED <<cacheVars, limitVars, envVars, requestVars, result>>

(* loadProgram reads the source; it may fail.  The write to the shadow     *)
(* store that follows does not change the cache, its failure is logged.    *)
loadProgram(c) ==
    LET k == callKey[c]
        m == callMode[c]
    IN /\ callPc[c] = "lead"
       /\ flight[k][m].stage = "loading"
       /\ \/ flight' = [flight EXCEPT ![k][m] = [stage |-> "loaded",
                            value |-> [mode |-> m, version |-> source[k]]]]
          \/ flight' = [flight EXCEPT ![k][m] = [stage |-> "over", value |-> LoadError]]
       /\ UNCHANGED <<cacheVars, limitVars, envVars, callPc, requestVars, result>>

(* Mutant: a program of a smaller mode replaces the cached one.            *)
FileResultDowngrades(k, prog) ==
    IF Cached(k)
    THEN Touch(k, prog)
    ELSE evictLocked(PushFront(order, k),
             [cache EXCEPT ![k] = [prog |-> prog, lastAccess |-> now]], capacity)

(* The second critical section: a program of sufficient mode that another  *)
(* flight filed meanwhile wins, a smaller one is replaced in place, and a  *)
(* new entry is pushed and the list trimmed.                               *)
FileResult(k, prog) ==
    IF Cached(k)
    THEN Touch(k, IF cache[k].prog.mode >= prog.mode THEN cache[k].prog ELSE prog)
    ELSE evictLocked(PushFront(order, k),
             [cache EXCEPT ![k] = [prog |-> prog, lastAccess |-> now]], capacity)

Insert(c) ==
    LET k == callKey[c]
        m == callMode[c]
        prog == flight[k][m].value
    IN /\ callPc[c] = "lead"
       /\ flight[k][m].stage = "loaded"
       /\ FileResult(k, prog)
       /\ flight' = [flight EXCEPT ![k][m] = [stage |-> "over",
                        value |-> IF Hit(k, m) THEN cache[k].prog ELSE prog]]
       /\ UNCHANGED <<limitVars, envVars, callPc, requestVars, result>>

(* singleflight, external: the call is forgotten and its value is handed   *)
(* to the leader and to everyone who waits.                                *)
OnFlight(c) ==
    {d \in Calls : /\ callPc[d] \in {"lead", "wait"}
                   /\ callKey[d] = callKey[c]
                   /\ callMode[d] = callMode[c]}

(* Mutant: only the leader is told.                                        *)
LandLeaderOnly(c) ==
    LET k == callKey[c]
        m == callMode[c]
    IN /\ callPc[c] = "lead"
       /\ flight[k][m].stage = "over"
       /\ flight' = [flight EXCEPT ![k][m] = NoFlight]
       /\ Answer(c, flight[k][m].value)
       /\ UNCHANGED <<cacheVars, limitVars, envVars, requestVars>>

Land(c) ==
    LET k == callKey[c]
        m == callMode[c]
    IN /\ callPc[c] = "lead"
       /\ flight[k][m].stage = "over"
       /\ flight' = [flight EXCEPT ![k][m] = NoFlight]
       /\ callPc' = [d \in Calls |-> IF d \in OnFlight(c) THEN "returned" ELSE callPc[d]]
       /\ result' = [d \in Calls |-> IF d \in OnFlight(c) THEN flight[k][m].value ELSE result[d]]
       /\ UNCHANGED <<cacheVars, limitVars, envVars, requestVars>>

-----------------------------------------------------------------------------
(* Reload: Invalidate, then GetOrLoad                                      *)

(* Mutant: Reload forgets to invalidate.                                   *)
ReloadKeepsEntry(c, k) ==
    /\ callPc[c] = "idle"
    /\ callPc' = [callPc EXCEPT ![c] = "lookup"]
    /\ callKey' = [callKey EXCEPT ![c] = k]
    /\ callMode' = [callMode EXCEPT ![c] = LoadModeTypes]
    /\ asked' = [asked EXCEPT ![c] = source[k]]
    /\ quiet' = [quiet EXCEPT ![c] = \A m \in Modes : flight[k][m] = NoFlight]
    /\ UNCHANGED <<cacheVars, limitVars, flight, envVars, result>>

Reload(c, k) ==
    /\ callPc[c] = "idle"
    /\ callPc' = [callPc EXCEPT ![c] = "lookup"]
    /\ callKey' = [callKey EXCEPT ![c] = k]
    /\ callMode' = [callMode EXCEPT ![c] = LoadModeTypes]
    /\ asked' = [asked EXCEPT ![c] = source[k]]
    /\ quiet' = [quiet EXCEPT ![c] = \A m \in Modes : flight[k][m] = NoFlight]
    /\ Remove(k)
    /\ UNCHANGED <<limitVars, flight, envVars, result>>

ReloadLookup(c) ==
    /\ callPc[c] = "lookup"
    /\ Lookup(c, callKey[c], callMode[c])
    /\ UNCHANGED <<limitVars, flight, envVars, requestVars>>

(* The caller takes its result and may call again.                         *)
Return(c) ==
    /\ callPc[c] = "returned"
    /\ callPc' = [callPc EXCEPT ![c] = "idle"]
    /\ result' = [result EXCEPT ![c] = NoResult]
    /\ asked' = [asked EXCEPT ![c] = 0]
    /\ quiet' = [quiet EXCEPT ![c] = TRUE]
    /\ UNCHANGED <<cacheVars, limitVars, flight, envVars, callKey, callMode>>

-----------------------------------------------------------------------------
(* The other methods, and the world                                        *)

restOfCache == <<flight, envVars, callPc, requestVars, result>>

Invalidate(k) == Remove(k) /\ UNCHANGED <<limitVars, restOfCache>>

ClearAll ==
    /\ order' = <<>>
    /\ cache' = [k \in Keys |-> NoEntry]
    /\ UNCHANGED <<limitVars, restOfCache>>

SetCapacity(n) ==
    LET cap == IF n < 1 THEN 1 ELSE n
    IN /\ capacity' = cap
       /\ evictLocked(order, cache, cap)
       /\ UNCHANGED <<ttl, restOfCache>>

SetTTL(d) ==
    /\ ttl' = d
    /\ UNCHANGED <<capacity, cacheVars, restOfCache>>

Expired(k) == ttl > 0 /\ now - cache[k].lastAccess > ttl

(* Mutant: an entry gets one more tick than its time-to-live.              *)
sweepOneTickLate ==
    /\ ttl > 0
    /\ \E n \in 0..Len(order) :
        /\ \A i \in (n + 1)..Len(order) : now - cache[order[i]].lastAccess > ttl + 1
        /\ n > 0 => now - cache[order[n]].lastAccess <= ttl + 1
        /\ KeepFirst(order, cache, n)
    /\ UNCHANGED <<limitVars, restOfCache>>

(* Mutant: only the last element is looked at.                             *)
sweepOnlyOne ==
    /\ ttl > 0
    /\ \E n \in {Len(order), Len(order) - 1} \cap Nat :
        /\ \A i \in (n + 1)..Len(order) : Expired(order[i])
        /\ n > 0 /\ n = Len(order) => ~Expired(order[n])
        /\ KeepFirst(order, cache, n)
    /\ UNCHANGED <<limitVars, restOfCache>>

(* Elements are removed from the back until one has not expired; what is   *)
(* further to the front is not looked at.                                  *)
sweep ==
    /\ ttl > 0
    /\ \E n \in 0..Len(order) :
        /\ \A i \in (n + 1)..Len(order) : Expired(order[i])
        /\ n > 0 => ~Expired(order[n])
        /\ KeepFirst(order, cache, n)
    /\ UNCHANGED <<limitVars, restOfCache>>

Edit(k) ==
    /\ source[k] < MaxVersion
    /\ source' = [source EXCEPT ![k] = @ + 1]
    /\ UNCHANGED <<cacheVars, limitVars, flight, now, callPc, requestVars, result>>

Tick ==
    /\ now < MaxTime
    /\ now' = now + 1
    /\ UNCHANGED <<cacheVars, limitVars, flight, source, callPc, requestVars, result>>

CallStep(c) ==
    \/ Do(c) \/ loadProgram(c) \/ Insert(c) \/ Land(c)
    \/ ReloadLookup(c) \/ Return(c)

Next ==
    \/ \E c \in Calls, k \in Keys, m \in Modes : getOrLoad(c, k, m)
    \/ \E c \in Calls, k \in Keys : Reload(c, k)
    \/ \E c \in Calls : CallStep(c)
    \/ \E k \in Keys : Invalidate(k) \/ Edit(k)
    \/ ClearAll
    \/ \E n \in Capacities : SetCapacity(n)
    \/ \E d \in TTLs : SetTTL(d)
    \/ sweep
    \/ Tick

Spec == Init /\ [][Next]_vars

(* Calls in progress go on (a load ends, with or without a program), the   *)
(* sweeper's ticker fires, and time passes up to its bound.                *)
FairSpec ==
    /\ Spec
    /\ \A c \in Calls : WF_vars(CallStep(c))
    /\ WF_vars(sweep)

-----------------------------------------------------------------------------
(* Every variable keeps the values its Go type and use allow.              *)
TypeOK ==
    /\ order \in Seq(Keys)
    /\ cache \in [Keys -> Entries \cup {NoEntry}]
    /\ capacity \in Nat \ {0}
    /\ ttl \in Nat
    /\ flight \in [Keys -> [Modes -> Flights \cup {NoFlight}]]
    /\ source \in [Keys -> 0..MaxVersion]
    /\ now \in 0..MaxTime
    /\ callPc \in [Calls -> CallLabels]
    /\ callKey \in [Calls -> Keys]
    /\ callMode \in [Calls -> Modes]
    /\ result \in [Calls -> Programs \cup {NoResult, LoadError}]
    /\ asked \in [Calls -> 0..MaxVersion]
    /\ quiet \in [Calls -> BOOLEAN]

(* The list and the map never part: every key of the map is in the list    *)
(* exactly once, and nothing else is.                                      *)
MapMatchesList ==
    /\ \A i, j \in DOMAIN order : order[i] = order[j] => i = j
    /\ \A k \in Keys : Cached(k) <=> \E i \in DOMAIN order : order[i] = k

(* The cache never holds more programs than its capacity, even right after *)
(* the capacity was lowered.                                               *)
WithinCapacity == Len(order) <= capacity

(* The list is sorted by access time, which is what lets sweep stop at the *)
(* first element that has not expired (workspace.go:231).                  *)
OrderedByAccess ==
    \A i, j \in DOMAIN order :
        i < j => cache[order[i]].lastAccess >= cache[order[j]].lastAccess

(* A sweep leaves no expired program behind, however it stopped.           *)
SweepIsComplete ==
    [][sweep => \A k \in Keys : cache'[k] # NoEntry => ~Expired(k)]_vars

(* A caller never gets a program of a smaller mode than it asked for,      *)
(* although flights of different modes of a key run side by side.          *)
ServedModeSuffices ==
    \A c \in Calls :
        callPc[c] = "returned" /\ result[c] \in Programs => result[c].mode >= callMode[c]

(* While a key stays cached, its program is never replaced by one of a     *)
(* smaller mode: concurrent flights can only upgrade it.                   *)
NeverDowngraded ==
    [][\A k \in Keys : Cached(k) /\ cache'[k] # NoEntry =>
            cache'[k].prog.mode >= cache[k].prog.mode]_vars

(* A reload returns the source as it was when the reload was asked for, or *)
(* a later one, provided no load of that key was already under way.        *)
QuietReloadIsFresh ==
    \A c \in Calls :
        callPc[c] = "returned" /\ quiet[c] /\ result[c] \in Programs =>
            result[c].version >= asked[c]

(* The same without the proviso.                                           *)
ReloadIsFresh ==
    \A c \in Calls :
        callPc[c] = "returned" /\ result[c] \in Programs =>
            result[c].version >= asked[c]

(* Every call that missed the cache comes back: nobody waits for a flight  *)
(* that has landed.                                                        *)
EveryCallReturns ==
    \A c \in Calls : callPc[c] = "do" ~> callPc[c] = "returned"

(* A program that has been idle for longer than the time-to-live is        *)
(* evicted, or used again, or the limits change.                           *)
IdleIsEvicted ==
    \A k \in Keys : (Cached(k) /\ Expired(k)) ~> ~(Cached(k) /\ Expired(k))
=============================================================================
