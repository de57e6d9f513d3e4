------------------------- MODULE FileWatcher_proof -------------------------
(***************************************************************************)
(* The watcher keeps its types, and nothing is lost when its full channel  *)
(* drops paths: proved for every set of files, every channel size and      *)
(* every pattern of failures.                                              *)
(***************************************************************************)
EXTENDS FileWatcher, SequenceTheorems, TLAPS

(* The channel never exceeds its size, and as long as a path was sent and  *)
(* no request followed, one is in the channel or among the collected.      *)
ChannelInv ==
    /\ changes \in Seq(Files)
    /\ Len(changes) <= ChannelSize
    /\ DropsAreCovered

(* What every action but three leaves alone.                               *)
channelVars == <<changes, collected, owed>>

LEMMA StutterKeeps == ChannelInv /\ UNCHANGED channelVars => ChannelInv'
BY DEF ChannelInv, channelVars, DropsAreCovered

(* A path that is dropped finds the channel full, hence not empty.         *)
LEMMA TriggerKeeps ==
    ASSUME NEW s \in Scanners, NEW f \in Files, ChannelInv, Trigger(s, f)
    PROVE  ChannelInv'
<1>1. ChannelSize \in Nat \ {0}
  BY WatcherAssumption
<1>2. changes' \in Seq(Files) /\ Len(changes') <= ChannelSize /\ changes' # <<>>
  <2>1. CASE Len(changes) < ChannelSize
    <3>1. changes' = Append(changes, f)
      BY <2>1 DEF Trigger
    <3>2. /\ Append(changes, f) \in Seq(Files)
          /\ Len(Append(changes, f)) = Len(changes) + 1
      BY AppendProperties DEF ChannelInv
    <3>3. Len(changes) \in Nat
      BY LenProperties DEF ChannelInv
    <3> QED BY <1>1, <2>1, <3>1, <3>2, <3>3, EmptySeq
  <2>2. CASE ~(Len(changes) < ChannelSize)
    <3>1. changes' = changes
      BY <2>2 DEF Trigger
    <3>2. changes # <<>>
      BY <1>1, <2>2, LenProperties, EmptySeq DEF ChannelInv
    <3> QED BY <3>1, <3>2 DEF ChannelInv
  <2> QED BY <2>1, <2>2
<1> QED BY <1>2 DEF ChannelInv, DropsAreCovered

(* A path that leaves the channel is among the collected.                  *)
LEMMA ReceiveKeeps ==
    ASSUME ChannelInv, debounceReceive
    PROVE  ChannelInv'
<1>1. changes \in Seq(Files) /\ changes # <<>>
  BY DEF ChannelInv, debounceReceive
<1>2. Tail(changes) \in Seq(Files) /\ Len(Tail(changes)) = Len(changes) - 1
  BY <1>1, HeadTailProperties
<1>3. changes' = Tail(changes) /\ Head(changes) \in collected'
  BY DEF debounceReceive
<1>4. Len(changes) \in Nat /\ Len(changes) <= ChannelSize /\ ChannelSize \in Nat
  BY <1>1, LenProperties, WatcherAssumption DEF ChannelInv
<1> QED BY <1>2, <1>3, <1>4 DEF ChannelInv, DropsAreCovered

(* A tick empties the collected paths into a request.                      *)
LEMMA TickKeeps ==
    ASSUME ChannelInv, debounceTick
    PROVE  ChannelInv'
BY DEF ChannelInv, debounceTick, DropsAreCovered

LEMMA NextKeeps == ChannelInv /\ [Next]_vars => ChannelInv'
<1> SUFFICES ASSUME ChannelInv, [Next]_vars
             PROVE  ChannelInv'
  OBVIOUS
<1>1. CASE \E s \in Scanners, f \in Files : Trigger(s, f)
  BY <1>1, TriggerKeeps
<1>2. CASE debounceReceive
  BY <1>2, ReceiveKeeps
<1>3. CASE debounceTick
  BY <1>3, TickKeeps
<1>4. CASE UNCHANGED vars
  BY <1>4, StutterKeeps DEF vars, debounceVars, channelVars
<1>5. CASE pollTick \/ pollStop \/ debounceStop \/ Stop
  BY <1>5, StutterKeeps DEF pollTick, pollStop, debounceStop, Stop, debounceVars, channelVars
<1>6. CASE \E s \in Scanners : Scan(s) \/ DetectChanges(s) \/ DetectFails(s)
  BY <1>6, StutterKeeps DEF Scan, DetectChanges, DetectFails, Detected, debounceVars, channelVars
<1>7. CASE RebuildStart \/ (\E m \in ToolModes : ToolStart(m)) \/ Load
  BY <1>7, StutterKeeps
  DEF RebuildStart, ToolStart, Load, Get, Parse, ParseFails, Hash, Store, Snapshot,
      OutsideBuild, debounceVars, channelVars
<1>8. CASE Evict \/ \E f \in Files : Write(f) \/ Delete(f)
  BY <1>8, StutterKeeps DEF Evict, Write, Delete, debounceVars, channelVars
<1> QED
  BY <1>1, <1>2, <1>3, <1>4, <1>5, <1>6, <1>7, <1>8 DEF Next, ScanStep

(* However often Trigger finds the channel full, a path that was sent      *)
(* leads to a request: one is in the channel or collected until a request  *)
(* has been made.                                                          *)
THEOREM NothingLostByDropping == Spec => []DropsAreCovered
<1>1. Init => ChannelInv
  BY WatcherAssumption, EmptySeq DEF Init, ChannelInv, DropsAreCovered
<1>2. ChannelInv => DropsAreCovered
  BY DEF ChannelInv
<1> QED BY <1>1, <1>2, NextKeeps, PTL DEF Spec

-----------------------------------------------------------------------------
(* The types.  A load that has parsed holds a program.                     *)
TypeInv ==
    /\ TypeOK
    /\ buildPc \in {"hash", "store", "snapshot"} => got \in Programs

LEMMA Numbers ==
    /\ MaxEdits \in Nat /\ MaxEdits >= 1 /\ MaxRequests \in Nat /\ ChannelSize \in Nat
    /\ Absent \in Contents /\ 1 \in Contents /\ Absent \in Hashes /\ EmptyHash \in Hashes
    /\ Contents \subseteq Hashes
    /\ ToolModes \subseteq {TypesMode, SSAMode}
    /\ SourceFiles \subseteq Files
BY WatcherAssumption DEF Contents, Absent, Hashes, EmptyHash, Files

LEMMA InitTypeInv == Init => TypeInv
<1> SUFFICES ASSUME Init PROVE TypeInv
  OBVIOUS
<1>1. NoFiles \in [Files -> Contents] /\ NoFiles \in [Files -> Hashes]
  BY Numbers DEF NoFiles
<1>2. /\ disk \in [Files -> Contents] /\ fileMeta \in [Files -> Hashes]
      /\ index \in [SourceFiles -> Contents] /\ edits \in 1..MaxEdits
      /\ scanned \in [Scanners -> [Files -> Contents]]
      /\ found \in [Scanners -> SUBSET Files]
  BY <1>1, Numbers DEF Init
<1>3. scanPc \in [Scanners -> {"select", "scan", "detect", "trigger", "stopped"}]
  BY DEF Init
<1>4. changes \in Seq(Files) /\ Len(changes) <= ChannelSize
  BY Numbers, EmptySeq DEF Init
<1>5. /\ collected = {} /\ requests \in 0..MaxRequests /\ debouncePc = "select"
      /\ done = FALSE /\ owed = FALSE /\ rebuilding = FALSE /\ builderStore = "nil"
      /\ program = NoProgram /\ got = NoProgram /\ want = TypesMode /\ buildPc = "idle"
  BY Numbers DEF Init
<1> QED BY <1>2, <1>3, <1>4, <1>5 DEF TypeInv, TypeOK

(* The variables of the load, typed.                                       *)
BuildTypes ==
    /\ program \in Programs \cup {NoProgram}
    /\ got \in Programs \cup {NoProgram}
    /\ want \in {TypesMode, SSAMode}
    /\ buildPc \in {"idle", "get", "parse", "hash", "store", "snapshot"}
    /\ rebuilding \in BOOLEAN
    /\ builderStore \in {"nil", "closed"}
    /\ buildPc \in {"hash", "store", "snapshot"} => got \in Programs

LEMMA ServedTypes ==
    ASSUME NEW p \in Programs, BuildTypes, Served(p)
    PROVE  /\ got' \in Programs \cup {NoProgram}
           /\ want' \in {TypesMode, SSAMode}
           /\ buildPc' \in {"idle", "get", "snapshot"}
           /\ rebuilding' \in BOOLEAN
           /\ buildPc' = "snapshot" => got' \in Programs
BY DEF Served, Return, BuildTypes

LEMMA RowsTypes ==
    ASSUME TypeInv, got \in Programs, WriteRowsOrFail
    PROVE  fileMeta' \in [Files -> Hashes] /\ index' \in [SourceFiles -> Contents]
<1>1. got.src \in [SourceFiles -> Contents] /\ got.hash \in [SourceFiles -> Hashes]
  BY DEF Programs
<1> QED BY <1>1 DEF TypeInv, TypeOK, WriteRowsOrFail, WriteRows, storeVars

(* Steps of the load and of what asks for it.                              *)
LEMMA LoadTypes ==
    ASSUME TypeInv, Load \/ RebuildStart \/ (\E m \in ToolModes : ToolStart(m)) \/ Evict
    PROVE  TypeInv'
<1>1. BuildTypes
  BY DEF TypeInv, TypeOK, BuildTypes
<1>2. /\ UNCHANGED <<disk, edits, changes, collected, debouncePc, scanPc, scanned, found,
                     done, owed>>
      /\ requests' \in 0..MaxRequests
  BY Numbers
  DEF Load, Get, Parse, ParseFails, Hash, Store, Snapshot, RebuildStart, ToolStart, Evict,
      OutsideBuild, diskVars, debounceVars, scanVars, TypeInv, TypeOK
<1> DEFINE Rows == fileMeta' \in [Files -> Hashes] /\ index' \in [SourceFiles -> Contents]
<1>3. UNCHANGED storeVars => Rows
  BY DEF storeVars, TypeInv, TypeOK
<1>4. CASE Get
  <2>1. /\ UNCHANGED <<program, builderStore, storeVars>>
        /\ \/ program \in Programs /\ Served(program)
           \/ buildPc' = "parse" /\ UNCHANGED <<got, want, rebuilding>>
    BY <1>1, <1>4 DEF Get, BuildTypes
  <2>2. BuildTypes'
    BY <1>1, <2>1, ServedTypes DEF BuildTypes
  <2> QED BY <1>2, <1>3, <2>1, <2>2 DEF BuildTypes, TypeInv, TypeOK
<1>5. CASE Parse
  <2> DEFINE p == [src |-> [f \in SourceFiles |-> disk[f]],
                   hash |-> [f \in SourceFiles |-> Absent], mode |-> want]
  <2>1. p \in Programs
    <3>1. [f \in SourceFiles |-> disk[f]] \in [SourceFiles -> Contents]
      BY Numbers DEF TypeInv, TypeOK
    <3>2. [f \in SourceFiles |-> Absent] \in [SourceFiles -> Hashes]
      BY Numbers
    <3> QED BY <1>1, <3>1, <3>2 DEF Programs, BuildTypes
  <2>2. /\ got' = p /\ buildPc' = "hash"
        /\ UNCHANGED <<program, want, rebuilding, builderStore, storeVars>>
    BY <1>5 DEF Parse
  <2> HIDE DEF p
  <2> QED BY <1>1, <1>2, <1>3, <2>1, <2>2 DEF BuildTypes, TypeInv, TypeOK
<1>6. CASE Hash
  <2> DEFINE h == [f \in SourceFiles |->
                      IF got.src[f] = Absent THEN Absent
                      ELSE IF disk[f] = Absent THEN EmptyHash ELSE disk[f]]
  <2>1. /\ got' = [got EXCEPT !.hash = h] /\ buildPc' = "store" /\ buildPc = "hash"
        /\ UNCHANGED <<program, want, rebuilding, builderStore, storeVars>>
    BY <1>6 DEF Hash
  <2>2. h \in [SourceFiles -> Hashes]
    BY Numbers DEF TypeInv, TypeOK
  <2>3. got \in Programs
    BY <1>1, <2>1 DEF BuildTypes
  <2> HIDE DEF h
  <2>4. got' \in Programs
    BY <2>1, <2>2, <2>3 DEF Programs
  <2> QED BY <1>1, <1>2, <1>3, <2>1, <2>4 DEF BuildTypes, TypeInv, TypeOK
<1>7. CASE Store
  <2>1. /\ got \in Programs /\ WriteRowsOrFail /\ program' = got /\ Served(got)
        /\ UNCHANGED builderStore
    BY <1>1, <1>7 DEF Store, BuildTypes
  <2>2. BuildTypes' /\ Rows
    BY <1>1, <2>1, ServedTypes, RowsTypes DEF BuildTypes
  <2> QED BY <1>2, <2>2 DEF BuildTypes, TypeInv, TypeOK
<1>8. CASE Snapshot
  <2>1. got \in Programs /\ Return /\ builderStore' = "closed" /\ UNCHANGED program
    BY <1>1, <1>8 DEF Snapshot, BuildTypes
  <2>2. Rows
    BY <1>3, <1>8, <2>1, RowsTypes DEF Snapshot
  <2> QED BY <1>1, <1>2, <2>1, <2>2 DEF Return, BuildTypes, TypeInv, TypeOK
<1>9. CASE ParseFails
  <2>1. Return /\ UNCHANGED <<program, builderStore, storeVars>>
    BY <1>9 DEF ParseFails
  <2> QED BY <1>1, <1>2, <1>3, <2>1 DEF Return, BuildTypes, TypeInv, TypeOK
<1>10. CASE RebuildStart \/ \E m \in ToolModes : ToolStart(m)
  <2>1. /\ buildPc' = "get" /\ want' \in {TypesMode, SSAMode} /\ rebuilding' \in BOOLEAN
        /\ UNCHANGED <<program, got, builderStore, storeVars>>
    BY <1>10, Numbers DEF RebuildStart, ToolStart
  <2> QED BY <1>1, <1>2, <1>3, <2>1 DEF BuildTypes, TypeInv, TypeOK
<1>11. CASE Evict
  <2>1. program' = NoProgram /\ UNCHANGED <<buildPc, got, want, rebuilding, builderStore, storeVars>>
    BY <1>11 DEF Evict
  <2> QED BY <1>1, <1>2, <1>3, <2>1 DEF BuildTypes, TypeInv, TypeOK
<1> QED BY <1>4, <1>5, <1>6, <1>7, <1>8, <1>9, <1>10, <1>11 DEF Load

(* Steps of the two goroutines of the watcher.  ChannelInv has the type of *)
(* the channel.                                                            *)
LEMMA ScanTypes ==
    ASSUME TypeInv, ChannelInv', NEW s \in Scanners,
           Scan(s) \/ DetectChanges(s) \/ DetectFails(s) \/ \E f \in Files : Trigger(s, f)
    PROVE  TypeInv'
<1>1. /\ UNCHANGED <<disk, edits, fileMeta, index, collected, debouncePc, requests, done,
                     program, buildPc, got, want, rebuilding, builderStore>>
      /\ owed' \in BOOLEAN
  BY DEF Scan, DetectChanges, DetectFails, Detected, Trigger, diskVars, storeVars,
         debounceVars, buildVars, TypeInv, TypeOK
<1>2. AfterScan(s) \in {"select", "stopped"}
  BY DEF AfterScan
<1>3. scanPc' \in [Scanners -> {"select", "scan", "detect", "trigger", "stopped"}]
  <2>1. PICK to \in {"select", "detect", "trigger", "stopped"} :
          scanPc' = [scanPc EXCEPT ![s] = to]
    BY <1>2 DEF Scan, DetectChanges, DetectFails, Detected, Trigger
  <2> QED BY <2>1 DEF TypeInv, TypeOK
<1>4. scanned' \in [Scanners -> [Files -> Contents]]
  <2>1. NoFiles \in [Files -> Contents]
    BY Numbers DEF NoFiles
  <2> QED BY <2>1 DEF Scan, DetectChanges, DetectFails, Detected, Trigger, TypeInv, TypeOK
<1>5. found' \in [Scanners -> SUBSET Files]
  BY DEF Scan, DetectChanges, DetectFails, Detected, Trigger, TypeInv, TypeOK
<1> QED BY <1>1, <1>3, <1>4, <1>5 DEF TypeInv, TypeOK, ChannelInv

LEMMA WatchTypes ==
    ASSUME TypeInv, ChannelInv, ChannelInv',
           \/ pollTick \/ pollStop \/ debounceReceive \/ debounceTick \/ debounceStop \/ Stop
    PROVE  TypeInv'
<1>1. /\ UNCHANGED <<disk, edits, fileMeta, index, scanned, found,
                     program, buildPc, got, want, rebuilding, builderStore>>
      /\ owed' \in BOOLEAN
  BY DEF pollTick, pollStop, debounceReceive, debounceTick, debounceStop, Stop, diskVars,
         storeVars, scanVars, buildVars, TypeInv, TypeOK
<1>2. scanPc' \in [Scanners -> {"select", "scan", "detect", "trigger", "stopped"}]
  BY DEF pollTick, pollStop, debounceReceive, debounceTick, debounceStop, Stop, scanVars,
         TypeInv, TypeOK
<1>3. /\ requests' \in 0..MaxRequests /\ debouncePc' \in {"select", "stopped"}
      /\ done' \in BOOLEAN
  <2>1. requests \in 0..MaxRequests /\ debouncePc \in {"select", "stopped"} /\ done \in BOOLEAN
    BY DEF TypeInv, TypeOK
  <2>2. CASE debounceTick
    BY <2>1, <2>2, Numbers DEF debounceTick
  <2>3. CASE pollTick \/ pollStop \/ debounceReceive \/ debounceStop \/ Stop
    BY <2>1, <2>3 DEF pollTick, pollStop, debounceReceive, debounceStop, Stop, debounceVars
  <2> QED BY <2>2, <2>3
<1>4. collected' \subseteq Files
  <2>1. changes # <<>> => Head(changes) \in Files
    BY HeadTailProperties DEF ChannelInv
  <2> QED BY <2>1 DEF pollTick, pollStop, debounceReceive, debounceTick, debounceStop, Stop,
         debounceVars, TypeInv, TypeOK
<1> QED BY <1>1, <1>2, <1>3, <1>4 DEF TypeInv, TypeOK, ChannelInv

LEMMA EditTypes ==
    ASSUME TypeInv, NEW f \in Files, Write(f) \/ Delete(f)
    PROVE  TypeInv'
<1>1. UNCHANGED <<fileMeta, index, changes, collected, debouncePc, requests, scanPc, scanned,
                  found, done, program, buildPc, got, want, rebuilding, builderStore, owed>>
  BY DEF Write, Delete, storeVars, debounceVars, scanVars, buildVars
<1>2. edits' \in 1..MaxEdits /\ edits' \in Contents
  BY Numbers DEF Write, Delete, Contents, TypeInv, TypeOK
<1>3. disk' \in [Files -> Contents]
  BY <1>2, Numbers DEF Write, Delete, TypeInv, TypeOK
<1> QED BY <1>1, <1>2, <1>3 DEF TypeInv, TypeOK

(* Every variable of the watcher, the load and the rebuild keeps its type. *)
THEOREM TypeCorrect == Spec => []TypeOK
<1>1. Init => ChannelInv /\ TypeInv
  BY InitTypeInv, WatcherAssumption, EmptySeq DEF Init, ChannelInv, DropsAreCovered
<1>2. ChannelInv /\ TypeInv /\ [Next]_vars => (ChannelInv /\ TypeInv)'
  <2> SUFFICES ASSUME ChannelInv, TypeInv, [Next]_vars PROVE ChannelInv' /\ TypeInv'
    OBVIOUS
  <2>1. ChannelInv'
    BY NextKeeps
  <2>2. CASE UNCHANGED vars
    <3>1. TypeInv'
      BY <2>2 DEF vars, diskVars, storeVars, debounceVars, scanVars, buildVars, TypeInv, TypeOK
    <3> QED BY <2>1, <3>1
  <2> QED BY <2>1, <2>2, LoadTypes, ScanTypes, WatchTypes, EditTypes DEF Next, ScanStep
<1>3. TypeInv => TypeOK
  BY DEF TypeInv
<1> QED BY <1>1, <1>2, <1>3, PTL DEF Spec
=============================================================================
