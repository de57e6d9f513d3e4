--------------------------- MODULE Persistence_proof ---------------------------
(***************************************************************************)
(* What outlives a server.                                                 *)
(*                                                                         *)
(* The symbol and vector tables: the index that semantic_search reads is   *)
(* sound, and storing what changed leaves the source of the whole program  *)
(* in the table.  Proved for any number of symbols, sessions and           *)
(* providers, any dimensions, and any pattern of failures and crashes      *)
(* between two statements.                                                 *)
(*                                                                         *)
(* The configuration of a workspace, proved for any number of calls and    *)
(* servers, any content of the files and any number of edits and crashes:  *)
(*   - init_workspace_config never writes into a file of somebody else     *)
(*     unless it is told to;                                               *)
(*   - merging the files one by one, each time filling in the defaults,    *)
(*     still gives every setting the value of the highest file that has    *)
(*     it, since normalising is idempotent and forgotten by the next merge;*)
(*   - what is said of the setup notice fits the files.                    *)
(*                                                                         *)
(* And the two next to each other, as they are checked.                    *)
(***************************************************************************)
EXTENDS MCPersistence, SequenceTheorems, WellFoundedInduction, TLAPS

-----------------------------------------------------------------------------
(* The symbol and vector tables.                                           *)

(* The part of VectorIndexIsSound that holds at every moment.              *)
IndexFits ==
    \A x \in Symbols : vectors[x] # NoRow =>
        vectors[x] = codeSymbols[x] /\ tableDim = Dimension[vectors[x].by]

(* A vector that rebuildVectorTable has read fits the table it will go to, *)
(* and it is that of the stored symbol unless that symbol's vector has     *)
(* been stored meanwhile: then the insertion will fail.                    *)
CopiesFit ==
    \A s \in Sessions, x \in Symbols : copied[s][x] # NoRow =>
        /\ pc[s] = "rebuildInsert"
        /\ Dimension[copied[s][x].by] = Wanted(s)
        /\ vectors[x] = NoRow => copied[s][x] = codeSymbols[x]

(* Sessions that do not overlap come one at a time.                        *)
OneAtATime ==
    ~together =>
        \A s, u \in Sessions : pc[s] # "idle" /\ pc[u] # "idle" => s = u

(* Sessions that overlap use one provider, so that nobody drops the table. *)
OneProvider ==
    together =>
        /\ recorded \in {NoDimension, Dimension[provider]}
        /\ \A s \in Sessions : /\ pc[s] # "idle" => by[s] = provider
                               /\ pc[s] # "drop"

(* Both symbol tables have the same rows, and what the session at work     *)
(* does not store is stored already.                                       *)
StoresChanges(s) ==
    /\ pc[s] = "createKnown" => recorded = Wanted(s)
    /\ pc[s] = "commit" \/ (pc[s] \in EnsureLabels /\ changed[s] # {}) =>
            \A x \in Symbols \ changed[s] : symbolHashes[x] = Row(s, x)

(* The vector table has the recorded dimension, and every stored vector of *)
(* that dimension is in it.                                                *)
Whole ==
    /\ tableDim = recorded
    /\ \A x \in Symbols :
        codeSymbols[x] # NoRow /\ Dimension[codeSymbols[x].by] = recorded =>
            vectors[x] = codeSymbols[x]

Copy(s, x) ==
    IF codeSymbols[x] # NoRow /\ Dimension[codeSymbols[x].by] = Wanted(s)
    THEN codeSymbols[x] ELSE NoRow

(* The labels at which the vector table is being made anew.                *)
MakingLabels == {"create", "record", "rebuildRead", "rebuildInsert"}

Making(s) ==
    /\ vectors = NoRows
    /\ tableDim = IF pc[s] = "create" THEN NoDimension ELSE Wanted(s)
    /\ pc[s] \in {"rebuildRead", "rebuildInsert"} => recorded = Wanted(s)
    /\ pc[s] = "rebuildInsert" => \A x \in Symbols : copied[s][x] = Copy(s, x)

Alone ==
    ~together =>
        /\ symbolHashes = codeSymbols
        /\ \A s \in Sessions : StoresChanges(s)
        /\ ~torn /\ (\A s \in Sessions : pc[s] \notin MakingLabels) => Whole
        /\ ~torn => \A s \in Sessions : pc[s] \in MakingLabels => Making(s)

(* The inductive invariant.                                                *)
SInv ==
    /\ StoreTypeOK
    /\ IndexFits
    /\ CopiesFit
    /\ OneAtATime
    /\ OneProvider
    /\ Alone

-----------------------------------------------------------------------------
LEMMA DimensionsAreNumbers ==
    /\ AnyProvider \in Providers
    /\ \A p \in Providers : Dimension[p] \in Nat /\ Dimension[p] \in Dimensions
                            /\ Dimension[p] # NoDimension
    /\ NoRow \notin Rows
BY StoreAssumption, StoreSentinels DEF AnyProvider, Dimensions

LEMMA RowIsARow ==
    ASSUME StoreTypeOK, NEW s \in Sessions, NEW x \in Symbols
    PROVE  Row(s, x) \in Rows /\ Row(s, x) # NoRow /\ Row(s, x).by = by[s]
           /\ Wanted(s) \in Dimensions /\ Wanted(s) # NoDimension
BY DimensionsAreNumbers DEF StoreTypeOK, Row, Rows, Versions, Wanted

(* Where a session goes, and that the others stay.                         *)
LEMMA GotoStep ==
    ASSUME StoreTypeOK, NEW s \in Sessions, NEW from, NEW to \in SessionLabels,
           Goto(s, from, to)
    PROVE  /\ pc[s] = from /\ pc'[s] = to
           /\ \A u \in Sessions \ {s} : pc'[u] = pc[u]
           /\ pc' \in [Sessions -> SessionLabels]
BY DEF StoreTypeOK, Goto

LEMMA ForgetStep ==
    ASSUME StoreTypeOK, NEW s \in Sessions, Forget(s)
    PROVE  /\ \A u \in Sessions \ {s} :
                /\ prog'[u] = prog[u] /\ by'[u] = by[u]
                /\ changed'[u] = changed[u] /\ copied'[u] = copied[u]
           /\ \A x \in Symbols : copied'[s][x] = NoRow
           /\ prog' \in [Sessions -> [Symbols -> Versions]]
           /\ by' \in [Sessions -> Providers]
           /\ changed' \in [Sessions -> SUBSET Symbols]
           /\ copied' \in [Sessions -> [Symbols -> Rows \cup {NoRow}]]
BY DimensionsAreNumbers, StoreAssumption DEF StoreTypeOK, Forget, NoRows, FirstVersion, Versions

LEMMA InitSInv == InitStore => SInv
<1> SUFFICES ASSUME InitStore PROVE SInv
  OBVIOUS
<1>1. StoreTypeOK
  <2>1. NoRows \in [Symbols -> Rows \cup {NoRow}]
    BY DEF NoRows
  <2>2. /\ "idle" \in SessionLabels /\ [x \in Symbols |-> FirstVersion] \in [Symbols -> Versions]
        /\ [x \in Symbols |-> 0] \in [Symbols -> 0..MaxMoves]
        /\ {} \in SUBSET Symbols
    BY StoreAssumption DEF SessionLabels, FirstVersion, Versions
  <2> QED BY <2>1, <2>2, DimensionsAreNumbers DEF InitStore, StoreTypeOK
<1>2. IndexFits /\ CopiesFit /\ OneAtATime /\ OneProvider
  BY DEF InitStore, IndexFits, CopiesFit, OneAtATime, OneProvider, NoRows
<1>3. Alone
  BY DEF InitStore, Alone, StoresChanges, Whole, MakingLabels, EnsureLabels, NoRows
<1> QED BY <1>1, <1>2, <1>3 DEF SInv

(* A step of session s leaves the variables of the others alone.           *)
OthersKeep(s) ==
    \A u \in Sessions \ {s} :
        /\ pc'[u] = pc[u] /\ prog'[u] = prog[u] /\ by'[u] = by[u]
        /\ changed'[u] = changed[u] /\ copied'[u] = copied[u]

(* What it finds when sessions do not overlap.                             *)
LEMMA AloneFacts ==
    ASSUME SInv, ~together, NEW s \in Sessions, pc[s] # "idle" \/ MayBegin(s)
    PROVE  /\ \A u \in Sessions \ {s} : pc[u] = "idle"
           /\ symbolHashes = codeSymbols
           /\ StoresChanges(s)
           /\ ~torn => IF pc[s] \in MakingLabels THEN Making(s) ELSE Whole
<1>1. \A u \in Sessions \ {s} : pc[u] = "idle"
  BY DEF SInv, OneAtATime, MayBegin
<1>2. symbolHashes = codeSymbols /\ StoresChanges(s)
  BY DEF SInv, Alone
<1>3. "idle" \notin MakingLabels
  BY DEF MakingLabels
<1>4. ~torn /\ pc[s] \notin MakingLabels => Whole
  BY <1>1, <1>3 DEF SInv, Alone
<1>5. ~torn /\ pc[s] \in MakingLabels => Making(s)
  BY DEF SInv, Alone
<1> QED BY <1>1, <1>2, <1>4, <1>5

(* What a step of s has to establish.                                      *)
LEMMA SessionStep ==
    ASSUME SInv, NEW s \in Sessions, OthersKeep(s), UNCHANGED envVars,
           StoreTypeOK', IndexFits', CopiesFit',
           pc[s] # "idle" \/ MayBegin(s),
           together => /\ recorded' \in {NoDimension, Dimension[provider]}
                       /\ pc'[s] # "idle" => by'[s] = provider
                       /\ pc'[s] # "drop",
           ~together => /\ symbolHashes' = codeSymbols'
                        /\ StoresChanges(s)'
                        /\ ~torn' /\ pc'[s] \in MakingLabels => Making(s)'
                        /\ ~torn' /\ pc'[s] \notin MakingLabels => Whole'
    PROVE  SInv'
<1>1. OneAtATime'
  BY AloneFacts DEF OneAtATime, OthersKeep, envVars
<1>2. OneProvider'
  BY DEF SInv, OneProvider, OthersKeep, envVars
<1>3. Alone'
  <2> SUFFICES ASSUME ~together' PROVE Alone!2'
    BY DEF Alone
  <2>1. ~together /\ \A u \in Sessions \ {s} : pc'[u] = "idle"
    BY AloneFacts DEF OthersKeep, envVars
  <2>2. \A u \in Sessions : StoresChanges(u)'
    BY <2>1 DEF StoresChanges, EnsureLabels
  <2>3. \A u \in Sessions : ~torn' /\ pc'[u] \in MakingLabels => Making(u)'
    BY <2>1 DEF MakingLabels, Making
  <2> QED BY <2>1, <2>2, <2>3
<1> QED BY <1>1, <1>2, <1>3 DEF SInv

-----------------------------------------------------------------------------
(* Steps that change no table.                                             *)

(* What such a step leaves to show.                                        *)
LEMMA TablesStand ==
    ASSUME SInv, NEW s \in Sessions, OthersKeep(s), UNCHANGED envVars, StoreTypeOK',
           UNCHANGED tableVars,
           pc[s] # "idle" \/ MayBegin(s),
           \A x \in Symbols : copied'[s][x] # NoRow =>
                /\ pc'[s] = "rebuildInsert"
                /\ Dimension[copied'[s][x].by] = Dimension[by'[s]]
                /\ vectors[x] = NoRow => copied'[s][x] = codeSymbols[x],
           together => /\ pc'[s] # "idle" => by'[s] = provider
                       /\ pc'[s] # "drop",
           ~together => /\ StoresChanges(s)'
                        /\ ~torn' /\ pc'[s] \in MakingLabels => Making(s)'
                        /\ ~torn' /\ pc'[s] \notin MakingLabels => Whole
    PROVE  SInv'
<1>1. /\ codeSymbols' = codeSymbols /\ symbolHashes' = symbolHashes
      /\ recorded' = recorded /\ tableDim' = tableDim /\ vectors' = vectors
      /\ provider' = provider /\ together' = together
  BY DEF tableVars, envVars
<1>2. IndexFits'
  BY <1>1 DEF SInv, IndexFits
<1>3. CopiesFit'
  BY <1>1 DEF SInv, CopiesFit, OthersKeep, Wanted
<1>4. together => recorded' \in {NoDimension, Dimension[provider]}
  BY <1>1 DEF SInv, OneProvider
<1>5. ~together => symbolHashes' = codeSymbols'
  BY <1>1 DEF SInv, Alone
<1>6. Whole => Whole'
  BY <1>1 DEF Whole
<1> QED BY <1>2, <1>3, <1>4, <1>5, <1>6, SessionStep

(* An idle session has nothing.                                            *)
LEMMA NoCopies ==
    ASSUME SInv, NEW s \in Sessions, pc[s] # "rebuildInsert", NEW x \in Symbols
    PROVE  copied[s][x] = NoRow
BY DEF SInv, CopiesFit

LEMMA BeginStoreKeeps ==
    ASSUME SInv, NEW s \in Sessions, BeginStore(s)
    PROVE  SInv'
<1>1. /\ Goto(s, "idle", "prepare") /\ MayBegin(s) /\ StoreTypeOK
      /\ prog' = [prog EXCEPT ![s] = disk]
      /\ by' = [by EXCEPT ![s] = provider]
      /\ UNCHANGED <<disk, provider, together, tableVars, envVars, changed, copied, torn>>
  BY DEF BeginStore, SInv, envVars
<1>2. /\ pc[s] = "idle" /\ pc'[s] = "prepare"
      /\ \A u \in Sessions \ {s} : pc'[u] = pc[u]
      /\ pc' \in [Sessions -> SessionLabels]
  BY <1>1, GotoStep DEF SessionLabels
<1>3. StoreTypeOK' /\ OthersKeep(s) /\ by'[s] = provider
  BY <1>1, <1>2 DEF StoreTypeOK, OthersKeep, tableVars
<1>4. StoresChanges(s)' /\ "prepare" \notin MakingLabels
  BY <1>2 DEF StoresChanges, EnsureLabels, MakingLabels
<1>5. ~together /\ ~torn => Whole
  BY <1>1, <1>2, AloneFacts DEF MakingLabels
<1> QED BY <1>1, <1>2, <1>3, <1>4, <1>5, NoCopies, TablesStand

LEMMA BeginSearchKeeps ==
    ASSUME SInv, NEW s \in Sessions, BeginSearch(s)
    PROVE  SInv'
<1>1. /\ Goto(s, "idle", "ensure") /\ MayBegin(s) /\ StoreTypeOK
      /\ by' = [by EXCEPT ![s] = provider]
      /\ changed' = [changed EXCEPT ![s] = {}]
      /\ UNCHANGED <<disk, provider, together, tableVars, envVars, prog, copied, torn>>
  BY DEF BeginSearch, SInv, envVars
<1>2. /\ pc[s] = "idle" /\ pc'[s] = "ensure"
      /\ \A u \in Sessions \ {s} : pc'[u] = pc[u]
      /\ pc' \in [Sessions -> SessionLabels]
  BY <1>1, GotoStep DEF SessionLabels, EnsureLabels
<1>3. StoreTypeOK' /\ OthersKeep(s) /\ by'[s] = provider /\ changed'[s] = {}
  BY <1>1, <1>2 DEF StoreTypeOK, OthersKeep, tableVars
<1>4. StoresChanges(s)' /\ "ensure" \notin MakingLabels
  BY <1>2, <1>3 DEF StoresChanges, MakingLabels
<1>5. ~together /\ ~torn => Whole
  BY <1>1, <1>2, AloneFacts DEF MakingLabels
<1> QED BY <1>1, <1>2, <1>3, <1>4, <1>5, NoCopies, TablesStand

LEMMA PrepareKeeps ==
    ASSUME SInv, NEW s \in Sessions, prepareChangedSymbols(s)
    PROVE  SInv'
<1> DEFINE stale == {x \in Symbols : Stale(s, x)}
           to == IF stale = {} THEN "commit" ELSE "ensure"
<1>1. /\ Goto(s, "prepare", to) /\ StoreTypeOK
      /\ changed' = [changed EXCEPT ![s] = stale]
      /\ UNCHANGED <<disk, provider, together, tableVars, envVars, prog, by, copied, torn>>
  BY DEF prepareChangedSymbols, SInv, envVars
<1>2. /\ pc[s] = "prepare" /\ pc'[s] = to
      /\ \A u \in Sessions \ {s} : pc'[u] = pc[u]
      /\ pc' \in [Sessions -> SessionLabels]
  <2>1. to \in SessionLabels
    BY DEF SessionLabels, EnsureLabels
  <2> QED BY <1>1, <2>1, GotoStep
<1>3. StoreTypeOK' /\ OthersKeep(s) /\ by'[s] = by[s] /\ changed'[s] = stale
  BY <1>1, <1>2 DEF StoreTypeOK, OthersKeep, tableVars
<1>4. \A x \in Symbols \ stale : symbolHashes'[x] = Row(s, x)'
  BY <1>1 DEF Stale, Row, tableVars
<1>5. to \in {"commit", "ensure"}
  OBVIOUS
<1> HIDE DEF to, stale
<1>6. StoresChanges(s)' /\ to \notin MakingLabels /\ pc[s] \notin MakingLabels
  BY <1>2, <1>3, <1>4, <1>5 DEF StoresChanges, MakingLabels
<1>7. ~together /\ ~torn => Whole
  BY <1>2, <1>6, AloneFacts
<1>8. together => by[s] = provider
  BY <1>2 DEF SInv, OneProvider
<1> QED BY <1>1, <1>2, <1>3, <1>5, <1>6, <1>7, <1>8, NoCopies, TablesStand

LEMMA EnsureReadKeeps ==
    ASSUME SInv, NEW s \in Sessions, EnsureRead(s)
    PROVE  SInv'
<1> DEFINE to == CASE recorded = Wanted(s) -> "createKnown"
                   [] recorded = NoDimension -> "create"
                   [] OTHER -> "drop"
<1>1. /\ Goto(s, "ensure", to) /\ StoreTypeOK
      /\ UNCHANGED <<disk, provider, together, tableVars, envVars, prog, by, changed, copied, torn>>
  BY DEF EnsureRead, SInv, envVars, sessionVars
<1>2. /\ to \in {"createKnown", "create", "drop"}
      /\ to = "createKnown" => recorded = Wanted(s)
      /\ to = "create" => recorded = NoDimension
      /\ to = "drop" => recorded # Wanted(s) /\ recorded # NoDimension
  OBVIOUS
<1> HIDE DEF to
<1>3. /\ pc[s] = "ensure" /\ pc'[s] = to
      /\ \A u \in Sessions \ {s} : pc'[u] = pc[u]
      /\ pc' \in [Sessions -> SessionLabels]
  <2>1. to \in SessionLabels
    BY <1>2 DEF SessionLabels, EnsureLabels
  <2> QED BY <1>1, <2>1, GotoStep
<1>4. StoreTypeOK' /\ OthersKeep(s)
  BY <1>1, <1>3 DEF StoreTypeOK, OthersKeep, tableVars
<1>5. together => by[s] = provider /\ to # "drop"
  BY <1>2, <1>3 DEF SInv, OneProvider, Wanted
<1>6. /\ Wanted(s)' = Wanted(s) /\ recorded' = recorded /\ symbolHashes' = symbolHashes
      /\ changed' = changed /\ \A x : Row(s, x)' = Row(s, x)
  BY <1>1 DEF Wanted, Row, tableVars
<1>7. ~together => StoresChanges(s)'
  <2>1. ~together => StoresChanges(s)
    BY <1>3, AloneFacts
  <2> QED BY <1>2, <1>3, <1>6, <2>1 DEF StoresChanges, EnsureLabels
<1>8. ~together /\ ~torn => Whole
  BY <1>3, AloneFacts DEF MakingLabels
<1>9. ~together /\ ~torn /\ to \in MakingLabels => Making(s)'
  <2> SUFFICES ASSUME ~together, ~torn, to \in MakingLabels PROVE Making(s)'
    OBVIOUS
  <2>1. to = "create" /\ tableDim = NoDimension
    BY <1>2, <1>8 DEF MakingLabels, Whole
  <2>2. \A x \in Symbols : vectors[x] = NoRow
    BY <2>1, DimensionsAreNumbers DEF SInv, IndexFits, StoreTypeOK, Rows
  <2>3. vectors = NoRows
    BY <1>1, <2>2 DEF NoRows, StoreTypeOK
  <2> QED BY <1>1, <1>3, <2>1, <2>3 DEF Making, NoRows, tableVars
<1> QED BY <1>1, <1>3, <1>4, <1>5, <1>7, <1>8, <1>9, NoCopies, TablesStand

LEMMA RebuildReadKeeps ==
    ASSUME SInv, NEW s \in Sessions, RebuildRead(s)
    PROVE  SInv'
<1> DEFINE read == [x \in Symbols |-> Copy(s, x)]
<1>1. /\ Goto(s, "rebuildRead", "rebuildInsert") /\ StoreTypeOK
      /\ copied' = [copied EXCEPT ![s] = read]
      /\ UNCHANGED <<disk, provider, together, tableVars, envVars, prog, by, changed, torn>>
  BY DEF RebuildRead, SInv, envVars, Copy
<1>2. /\ pc[s] = "rebuildRead" /\ pc'[s] = "rebuildInsert"
      /\ \A u \in Sessions \ {s} : pc'[u] = pc[u]
      /\ pc' \in [Sessions -> SessionLabels]
  BY <1>1, GotoStep DEF SessionLabels, EnsureLabels
<1>3. \A x \in Symbols :
        /\ read[x] \in Rows \cup {NoRow}
        /\ read[x] # NoRow => read[x] = codeSymbols[x] /\ Dimension[read[x].by] = Wanted(s)
  BY <1>1 DEF Copy, StoreTypeOK
<1>4. copied'[s] = read
  BY <1>1 DEF StoreTypeOK
<1>5. read \in [Symbols -> Rows \cup {NoRow}]
  BY <1>3
<1> HIDE DEF read
<1>6. StoreTypeOK' /\ OthersKeep(s)
  BY <1>1, <1>2, <1>5 DEF StoreTypeOK, OthersKeep, tableVars
<1>7. together => by[s] = provider
  BY <1>2 DEF SInv, OneProvider
<1>8. ~together => StoresChanges(s)'
  <2>1. ~together => StoresChanges(s)
    BY <1>2, AloneFacts
  <2> QED BY <1>1, <1>2, <2>1 DEF StoresChanges, EnsureLabels, Row, tableVars
<1>9. ~together /\ ~torn => Making(s)'
  <2>1. ~together /\ ~torn => Making(s)
    BY <1>2, AloneFacts DEF MakingLabels
  <2>2. \A x \in Symbols : copied'[s][x] = Copy(s, x)'
    BY <1>1, <1>4 DEF Copy, Wanted, tableVars, read
  <2> QED BY <1>1, <1>2, <2>1, <2>2 DEF Making, NoRows, Wanted, tableVars
<1>10. "rebuildInsert" \in MakingLabels
  BY DEF MakingLabels
<1> QED BY <1>1, <1>2, <1>3, <1>4, <1>6, <1>7, <1>8, <1>9, <1>10, TablesStand DEF Wanted

(* A session that ends or dies without touching a table.                   *)
LEMMA LeaveKeeps ==
    ASSUME SInv, NEW s \in Sessions, NEW from, from # "idle", Finish(s, from),
           UNCHANGED <<envVars, tableVars>>, torn' \in BOOLEAN,
           torn => torn', from \in MakingLabels => torn'
    PROVE  SInv'
<1>1. /\ Goto(s, from, "idle") /\ Forget(s) /\ StoreTypeOK
      /\ UNCHANGED <<disk, provider, together>>
  BY DEF Finish, SInv, envVars
<1>2. /\ pc[s] = from /\ pc'[s] = "idle"
      /\ \A u \in Sessions \ {s} : pc'[u] = pc[u]
      /\ pc' \in [Sessions -> SessionLabels]
  BY <1>1, GotoStep DEF SessionLabels
<1>3. /\ OthersKeep(s)
      /\ \A x \in Symbols : copied'[s][x] = NoRow
      /\ prog' \in [Sessions -> [Symbols -> Versions]]
      /\ by' \in [Sessions -> Providers]
      /\ changed' \in [Sessions -> SUBSET Symbols]
      /\ copied' \in [Sessions -> [Symbols -> Rows \cup {NoRow}]]
  BY <1>1, <1>2, ForgetStep DEF OthersKeep
<1>4. StoreTypeOK'
  BY <1>1, <1>2, <1>3 DEF StoreTypeOK, tableVars
<1>5. StoresChanges(s)' /\ "idle" \notin MakingLabels
  BY <1>2 DEF StoresChanges, EnsureLabels, MakingLabels
<1>6. ~together /\ ~torn' => Whole
  BY <1>2, AloneFacts
<1> QED BY <1>2, <1>3, <1>4, <1>5, <1>6, TablesStand

LEMMA SearchKeeps ==
    ASSUME SInv, NEW s \in Sessions, Search(s)
    PROVE  SInv'
<1>1. Finish(s, "search") /\ UNCHANGED <<envVars, tableVars>> /\ torn' = torn
  BY DEF Search
<1>2. torn \in BOOLEAN /\ "search" \notin MakingLabels
  BY DEF SInv, StoreTypeOK, MakingLabels
<1> QED BY <1>1, <1>2, LeaveKeeps

LEMMA StopKeeps ==
    ASSUME SInv, NEW s \in Sessions, Stop(s)
    PROVE  SInv'
<1>1. /\ Finish(s, pc[s]) /\ pc[s] # "idle" /\ UNCHANGED <<envVars, tableVars>>
      /\ torn' = (torn \/ pc[s] \in MakingLabels)
  BY DEF Stop, MakingLabels
<1>2. torn \in BOOLEAN
  BY DEF SInv, StoreTypeOK
<1> QED BY <1>1, <1>2, LeaveKeeps

-----------------------------------------------------------------------------
(* Steps that change the vector table.                                     *)

(* A missing table has no rows.                                            *)
LEMMA MissingIsEmpty ==
    ASSUME SInv, tableDim = NoDimension
    PROVE  vectors = NoRows
<1>1. \A x \in Symbols : vectors[x] = NoRow
  BY DimensionsAreNumbers DEF SInv, IndexFits, StoreTypeOK, Rows
<1> QED BY <1>1 DEF NoRows, SInv, StoreTypeOK

(* CREATE TABLE IF NOT EXISTS on its way from one label to another.        *)
LEMMA CreateKeeps ==
    ASSUME SInv, NEW s \in Sessions, NEW from, NEW to, Goto(s, from, to),
           CreateIfMissing(s),
           UNCHANGED <<envVars, codeSymbols, located, symbolHashes, recorded, vectors, sessionVars, torn>>,
           \/ /\ from = "createKnown"
              /\ to = AfterEnsure(s)
           \/ from = "create" /\ to = "record"
    PROVE  SInv'
<1>1. StoreTypeOK /\ UNCHANGED <<disk, provider, together, prog, by, changed, copied>>
  BY DEF SInv, envVars, sessionVars
<1>2. to \in {"commit", "search", "record"}
  BY DEF AfterEnsure
<1>3. /\ pc[s] = from /\ pc'[s] = to
      /\ \A u \in Sessions \ {s} : pc'[u] = pc[u]
      /\ pc' \in [Sessions -> SessionLabels]
  BY <1>1, <1>2, GotoStep DEF SessionLabels, EnsureLabels
<1>4. Wanted(s) \in Dimensions /\ Wanted(s) # NoDimension
  BY <1>1, DimensionsAreNumbers DEF StoreTypeOK, Wanted
<1>5. StoreTypeOK' /\ OthersKeep(s)
  BY <1>1, <1>3, <1>4 DEF StoreTypeOK, OthersKeep, CreateIfMissing
<1>6. IndexFits'
  <2>1. CASE tableDim = NoDimension
    BY <1>1, <2>1, MissingIsEmpty DEF IndexFits, NoRows
  <2>2. CASE tableDim # NoDimension
    BY <2>2 DEF SInv, IndexFits, CreateIfMissing
  <2> QED BY <2>1, <2>2
<1>7. CopiesFit'
  BY <1>1, <1>2, <1>3 DEF SInv, CopiesFit, Wanted
<1>8. together => /\ recorded' \in {NoDimension, Dimension[provider]}
                  /\ by'[s] = provider /\ pc'[s] # "drop"
  BY <1>1, <1>2, <1>3 DEF SInv, OneProvider
<1>9. ASSUME ~together
      PROVE  /\ symbolHashes' = codeSymbols'
             /\ StoresChanges(s)'
             /\ ~torn' /\ pc'[s] \in MakingLabels => Making(s)'
             /\ ~torn' /\ pc'[s] \notin MakingLabels => Whole'
  <2>1. /\ symbolHashes = codeSymbols /\ StoresChanges(s)
        /\ ~torn => IF pc[s] \in MakingLabels THEN Making(s) ELSE Whole
    BY <1>3, <1>9, AloneFacts
  <2>2. StoresChanges(s)'
    BY <1>1, <1>3, <2>1 DEF StoresChanges, EnsureLabels, Row, AfterEnsure
  <2>3. ASSUME ~torn, from = "createKnown" PROVE Whole' /\ to \notin MakingLabels
    <3>1. Whole /\ recorded = Wanted(s)
      BY <1>3, <2>1, <2>3 DEF MakingLabels, StoresChanges
    <3>2. tableDim' = tableDim
      BY <1>4, <3>1 DEF Whole, CreateIfMissing
    <3> QED BY <2>3, <3>1, <3>2 DEF Whole, AfterEnsure, MakingLabels
  <2>4. ASSUME ~torn, from = "create" PROVE Making(s)' /\ to \in MakingLabels
    <3>1. Making(s) /\ tableDim = NoDimension
      BY <1>3, <2>1, <2>4 DEF MakingLabels, Making
    <3>2. tableDim' = Wanted(s) /\ Wanted(s)' = Wanted(s) /\ to = "record"
      BY <1>1, <2>4, <3>1 DEF CreateIfMissing, Wanted
    <3> QED BY <1>3, <3>1, <3>2 DEF Making, MakingLabels, NoRows
  <2> QED BY <1>3, <2>1, <2>2, <2>3, <2>4
<1> QED BY <1>3, <1>5, <1>6, <1>7, <1>8, <1>9, SessionStep

(* The table is dropped: only when sessions do not overlap, so nobody else *)
(* has read vectors to copy.                                               *)
LEMMA DropKeeps ==
    ASSUME SInv, NEW s \in Sessions, EnsureDrop(s)
    PROVE  SInv'
<1>1. /\ Goto(s, "drop", "create") /\ StoreTypeOK
      /\ tableDim' = NoDimension /\ vectors' = NoRows /\ torn' = FALSE
      /\ UNCHANGED <<disk, provider, together, envVars, codeSymbols, located, symbolHashes, recorded,
                     prog, by, changed, copied>>
  BY DEF EnsureDrop, SInv, envVars, sessionVars
<1>2. /\ pc[s] = "drop" /\ pc'[s] = "create"
      /\ \A u \in Sessions \ {s} : pc'[u] = pc[u]
      /\ pc' \in [Sessions -> SessionLabels]
  BY <1>1, GotoStep DEF SessionLabels, EnsureLabels
<1>3. ~together
  BY <1>2 DEF SInv, OneProvider
<1>4. /\ \A u \in Sessions \ {s} : pc[u] = "idle"
      /\ symbolHashes = codeSymbols /\ StoresChanges(s)
  BY <1>2, <1>3, AloneFacts
<1>5. NoRows \in [Symbols -> Rows \cup {NoRow}] /\ \A x \in Symbols : NoRows[x] = NoRow
  BY DEF NoRows
<1>6. StoreTypeOK' /\ OthersKeep(s)
  BY <1>1, <1>2, <1>5 DEF StoreTypeOK, OthersKeep
<1>7. IndexFits'
  BY <1>1, <1>5 DEF IndexFits
<1>8. \A u \in Sessions, x \in Symbols : copied[u][x] = NoRow
  BY <1>2, <1>4, NoCopies
<1>9. CopiesFit'
  BY <1>1, <1>8 DEF CopiesFit
<1>10. StoresChanges(s)'
  BY <1>1, <1>2, <1>4 DEF StoresChanges, EnsureLabels, Row
<1>11. Making(s)' /\ "create" \in MakingLabels
  BY <1>1, <1>2 DEF Making, NoRows, MakingLabels
<1> QED BY <1>1, <1>2, <1>3, <1>4, <1>6, <1>7, <1>9, <1>10, <1>11, SessionStep

LEMMA RecordKeeps ==
    ASSUME SInv, NEW s \in Sessions, EnsureRecord(s)
    PROVE  SInv'
<1>1. /\ Goto(s, "record", "rebuildRead") /\ StoreTypeOK
      /\ recorded' = Wanted(s)
      /\ UNCHANGED <<disk, provider, together, envVars, codeSymbols, located, symbolHashes, tableDim,
                     vectors, prog, by, changed, copied, torn>>
  BY DEF EnsureRecord, SInv, envVars, sessionVars
<1>2. /\ pc[s] = "record" /\ pc'[s] = "rebuildRead"
      /\ \A u \in Sessions \ {s} : pc'[u] = pc[u]
      /\ pc' \in [Sessions -> SessionLabels]
  BY <1>1, GotoStep DEF SessionLabels, EnsureLabels
<1>3. Wanted(s) \in Dimensions
  BY <1>1, DimensionsAreNumbers DEF StoreTypeOK, Wanted
<1>4. StoreTypeOK' /\ OthersKeep(s)
  BY <1>1, <1>2, <1>3 DEF StoreTypeOK, OthersKeep
<1>5. IndexFits'
  BY <1>1 DEF SInv, IndexFits
<1>6. CopiesFit'
  BY <1>1, <1>2 DEF SInv, CopiesFit, Wanted
<1>7. together => by[s] = provider /\ recorded' = Dimension[provider]
  BY <1>1, <1>2 DEF SInv, OneProvider, Wanted
<1>8. ~together => StoresChanges(s)' /\ symbolHashes = codeSymbols
  <2>1. ~together => StoresChanges(s) /\ symbolHashes = codeSymbols
    BY <1>2, AloneFacts
  <2> QED BY <1>1, <1>2, <2>1 DEF StoresChanges, EnsureLabels, Row
<1>9. ~together /\ ~torn => Making(s)' /\ "rebuildRead" \in MakingLabels
  <2>1. ~together /\ ~torn => Making(s)
    BY <1>2, AloneFacts DEF MakingLabels
  <2> QED BY <1>1, <1>2, <2>1 DEF Making, NoRows, Wanted, MakingLabels
<1>10. "rebuildRead" \in MakingLabels
  BY DEF MakingLabels
<1> QED BY <1>1, <1>2, <1>4, <1>5, <1>6, <1>7, <1>8, <1>9, <1>10, SessionStep

(* The copied vectors are inserted if none of them is there and they fit.  *)
LEMMA RebuildInsertKeeps ==
    ASSUME SInv, NEW s \in Sessions, RebuildInsert(s)
    PROVE  SInv'
<1> DEFINE toInsert == {x \in Symbols : copied[s][x] # NoRow}
           fits == \A x \in toInsert : vectors[x] = NoRow /\ tableDim = Wanted(s)
<1>1. CASE ~fits
  <2>1. /\ Finish(s, "rebuildInsert") /\ torn' = TRUE
        /\ UNCHANGED <<envVars, tableVars>>
    BY <1>1 DEF RebuildInsert, tableVars
  <2> HIDE DEF fits
  <2> QED BY <2>1, LeaveKeeps
<1>2. CASE fits
  <2>0. StoreTypeOK
    BY DEF SInv
  <2>1. /\ Goto(s, "rebuildInsert", AfterEnsure(s))
        /\ vectors' = [x \in Symbols |-> IF x \in toInsert THEN copied[s][x] ELSE vectors[x]]
        /\ copied' = [copied EXCEPT ![s] = NoRows]
        /\ UNCHANGED <<disk, provider, together, envVars, codeSymbols, located, symbolHashes, recorded,
                       tableDim, prog, by, changed, torn>>
    BY <1>2 DEF RebuildInsert, envVars
  <2>2. AfterEnsure(s) \in {"search", "commit"}
    BY DEF AfterEnsure
  <2>3. /\ pc[s] = "rebuildInsert" /\ pc'[s] = AfterEnsure(s)
        /\ \A u \in Sessions \ {s} : pc'[u] = pc[u]
        /\ pc' \in [Sessions -> SessionLabels]
    BY <2>0, <2>1, <2>2, GotoStep DEF SessionLabels
  <2>4. \A x \in Symbols :
          /\ copied[s][x] \in Rows \cup {NoRow}
          /\ copied[s][x] # NoRow =>
                /\ vectors[x] = NoRow /\ copied[s][x] = codeSymbols[x]
                /\ tableDim = Dimension[copied[s][x].by] /\ vectors'[x] = codeSymbols[x]
          /\ copied[s][x] = NoRow => vectors'[x] = vectors[x]
    BY <1>2, <2>0, <2>1 DEF SInv, CopiesFit, StoreTypeOK
  <2>5. vectors' \in [Symbols -> Rows \cup {NoRow}]
    BY <2>0, <2>1, <2>4 DEF StoreTypeOK
  <2>6. copied' \in [Sessions -> [Symbols -> Rows \cup {NoRow}]] /\ \A x \in Symbols : copied'[s][x] = NoRow
    BY <2>0, <2>1 DEF StoreTypeOK, NoRows
  <2> HIDE DEF fits, toInsert
  <2>7. StoreTypeOK' /\ OthersKeep(s)
    BY <2>0, <2>1, <2>3, <2>5, <2>6 DEF StoreTypeOK, OthersKeep
  <2>8. IndexFits'
    BY <2>1, <2>4 DEF SInv, IndexFits
  <2>9. CopiesFit'
    <3> SUFFICES ASSUME NEW u \in Sessions, NEW x \in Symbols, copied'[u][x] # NoRow
                 PROVE  /\ pc'[u] = "rebuildInsert"
                        /\ Dimension[copied'[u][x].by] = Wanted(u)'
                        /\ vectors'[x] = NoRow => copied'[u][x] = codeSymbols'[x]
      BY DEF CopiesFit
    <3>1. u # s /\ copied'[u] = copied[u] /\ pc'[u] = pc[u] /\ Wanted(u)' = Wanted(u)
      BY <2>1, <2>6, <2>7 DEF OthersKeep, Wanted
    <3>2. vectors'[x] = NoRow => vectors[x] = NoRow
      BY <2>4
    <3> QED BY <2>1, <3>1, <3>2 DEF SInv, CopiesFit
  <2>10. together => /\ by[s] = provider
                     /\ recorded \in {NoDimension, Dimension[provider]}
    BY <2>3 DEF SInv, OneProvider
  <2>11. ~together => StoresChanges(s)' /\ symbolHashes = codeSymbols
    <3>1. ~together => StoresChanges(s) /\ symbolHashes = codeSymbols
      BY <2>3, AloneFacts
    <3> QED BY <2>1, <2>3, <3>1 DEF StoresChanges, EnsureLabels, Row, AfterEnsure
  <2>12. ~together /\ ~torn => Whole'
    <3> SUFFICES ASSUME ~together, ~torn PROVE Whole'
      OBVIOUS
    <3>1. Making(s)
      BY <2>3, AloneFacts DEF MakingLabels
    <3>2. tableDim = Wanted(s) /\ recorded = Wanted(s) /\ \A x \in Symbols : copied[s][x] = Copy(s, x)
      BY <2>3, <3>1 DEF Making
    <3>3. ASSUME NEW x \in Symbols, codeSymbols[x] # NoRow, Dimension[codeSymbols[x].by] = recorded
          PROVE  vectors'[x] = codeSymbols[x]
      BY <2>4, <3>2, <3>3 DEF Copy
    <3> QED BY <2>1, <3>2, <3>3 DEF Whole
  <2>13. AfterEnsure(s) \notin MakingLabels /\ AfterEnsure(s) # "drop"
    BY <2>2 DEF MakingLabels
  <2> QED BY <2>1, <2>3, <2>7, <2>8, <2>9, <2>10, <2>11, <2>12, <2>13, SessionStep
<1> QED BY <1>1, <1>2

-----------------------------------------------------------------------------
(* The last transaction stores the changed symbols with their vectors.     *)
LEMMA CommitKeeps ==
    ASSUME SInv, NEW s \in Sessions, Commit(s)
    PROVE  SInv'
<1>1. CASE ~CanCommit(s)
  <2>1. Finish(s, "commit") /\ UNCHANGED <<envVars, tableVars>> /\ torn' = torn
    BY <1>1 DEF Commit, OutsideCommit, tableVars
  <2>2. torn \in BOOLEAN /\ "commit" \notin MakingLabels
    BY DEF SInv, StoreTypeOK, MakingLabels
  <2> QED BY <2>1, <2>2, LeaveKeeps
<1>2. CASE CanCommit(s)
  <2>1. /\ Goto(s, "commit", "idle") /\ Forget(s) /\ StoreTypeOK
        /\ UNCHANGED <<disk, provider, together, envVars, recorded, tableDim, torn>>
        /\ codeSymbols' = [x \in Symbols |->
                IF x \in changed[s] THEN Row(s, x) ELSE codeSymbols[x]]
        /\ located' \in [Symbols -> 0..MaxMoves]
        /\ vectors' = [x \in Symbols |->
                IF x \in changed[s] THEN Row(s, x) ELSE vectors[x]]
        /\ symbolHashes' = [x \in Symbols |-> Row(s, x)]
    <3>1. located' = [x \in Symbols |->
                IF x \in changed[s] THEN prog[s][x].moves ELSE located[x]]
      BY <1>2 DEF Commit, upsertSymbols
    <3>2. \A x \in Symbols : prog[s][x].moves \in 0..MaxMoves /\ located[x] \in 0..MaxMoves
      BY DEF SInv, StoreTypeOK, Versions
    <3>3. located' \in [Symbols -> 0..MaxMoves]
      BY <3>1, <3>2
    <3> QED BY <1>2, <3>3 DEF Commit, Finish, OutsideCommit, SInv, envVars, upsertSymbols,
               upsertSymbolHashes
  <2>2. /\ pc[s] = "commit" /\ pc'[s] = "idle"
        /\ \A u \in Sessions \ {s} : pc'[u] = pc[u]
        /\ pc' \in [Sessions -> SessionLabels]
    BY <2>1, GotoStep DEF SessionLabels
  <2>3. /\ OthersKeep(s)
        /\ \A x \in Symbols : copied'[s][x] = NoRow
        /\ prog' \in [Sessions -> [Symbols -> Versions]]
        /\ by' \in [Sessions -> Providers]
        /\ changed' \in [Sessions -> SUBSET Symbols]
        /\ copied' \in [Sessions -> [Symbols -> Rows \cup {NoRow}]]
    BY <2>1, <2>2, ForgetStep DEF OthersKeep
  <2>4. \A x \in Symbols : Row(s, x) \in Rows /\ Row(s, x) # NoRow /\ Row(s, x).by = by[s]
    BY <2>1, RowIsARow
  <2>5. StoreTypeOK'
    BY <2>1, <2>2, <2>3, <2>4 DEF StoreTypeOK
  <2>6. changed[s] # {} => tableDim = Wanted(s)
    BY <1>2 DEF CanCommit
  <2>7. IndexFits'
    BY <2>1, <2>4, <2>6 DEF SInv, IndexFits, Wanted
  <2>8. CopiesFit'
    <3> SUFFICES ASSUME NEW u \in Sessions, NEW x \in Symbols, copied'[u][x] # NoRow
                 PROVE  /\ pc'[u] = "rebuildInsert"
                        /\ Dimension[copied'[u][x].by] = Wanted(u)'
                        /\ vectors'[x] = NoRow => copied'[u][x] = codeSymbols'[x]
      BY DEF CopiesFit
    <3>1. u # s /\ copied'[u] = copied[u] /\ pc'[u] = pc[u] /\ Wanted(u)' = Wanted(u)
      BY <2>3 DEF OthersKeep, Wanted
    <3>2. vectors'[x] = NoRow => vectors[x] = NoRow /\ codeSymbols'[x] = codeSymbols[x]
      BY <2>1, <2>4
    <3> QED BY <3>1, <3>2 DEF SInv, CopiesFit
  <2>9. together => recorded \in {NoDimension, Dimension[provider]}
    BY DEF SInv, OneProvider
  <2>10. StoresChanges(s)' /\ "idle" \notin MakingLabels /\ "commit" \notin MakingLabels
    BY <2>2 DEF StoresChanges, EnsureLabels, MakingLabels
  <2>11. ASSUME ~together PROVE symbolHashes' = codeSymbols'
    <3>1. symbolHashes = codeSymbols /\ StoresChanges(s)
      BY <2>2, <2>11, AloneFacts
    <3>2. \A x \in Symbols \ changed[s] : codeSymbols[x] = Row(s, x)
      BY <2>2, <3>1 DEF StoresChanges
    <3> QED BY <2>1, <3>2
  <2>12. ~together /\ ~torn => Whole'
    <3>1. ~together /\ ~torn => Whole
      BY <2>2, <2>10, AloneFacts
    <3> QED BY <2>1, <3>1 DEF Whole
  <2> QED BY <2>1, <2>2, <2>3, <2>5, <2>7, <2>8, <2>9, <2>10, <2>11, <2>12, SessionStep
<1> QED BY <1>1, <1>2

(* The editor, and the user who changes the provider.                      *)
LEMMA WorldKeeps ==
    ASSUME SInv, \/ \E x \in Symbols : Edit(x) \/ Move(x)
                 \/ \E p \in Providers : ChangeProvider(p)
    PROVE  SInv'
<1>1. /\ disk' \in [Symbols -> Versions] /\ provider' \in Providers
      /\ UNCHANGED <<together, codeSymbols, located, symbolHashes, recorded, tableDim, vectors, pc,
                     prog, by, changed, copied, torn>>
      /\ together => provider' = provider
  <2>1. ASSUME NEW x \in Symbols, Edit(x) \/ Move(x)
        PROVE  /\ disk' \in [Symbols -> Versions] /\ provider' = provider
    <3> DEFINE v == IF Edit(x) THEN [text |-> disk[x].text + 1, moves |-> 0]
                    ELSE [disk[x] EXCEPT !.moves = @ + 1]
    <3>1. disk' = [disk EXCEPT ![x] = v] /\ provider' = provider
      BY <2>1 DEF Edit, Move
    <3>2. disk \in [Symbols -> Versions]
      BY DEF SInv, StoreTypeOK
    <3>3. disk[x] \in Versions
      BY <3>2
    <3>4. v \in Versions
      BY <2>1, <3>3, StoreAssumption DEF Edit, Move, Versions
    <3> HIDE DEF v
    <3> QED BY <3>1, <3>2, <3>4
  <2>2. ASSUME NEW p \in Providers, ChangeProvider(p)
        PROVE  disk' = disk /\ provider' = p /\ ~together
    BY <2>2 DEF ChangeProvider
  <2>3. UNCHANGED <<together, tableVars, pc, sessionVars, torn>>
    BY DEF Edit, Move, ChangeProvider
  <2> QED BY <2>1, <2>2, <2>3 DEF SInv, StoreTypeOK, tableVars, sessionVars
<1>2. StoreTypeOK'
  BY <1>1 DEF SInv, StoreTypeOK
<1>3. IndexFits' /\ CopiesFit' /\ OneAtATime'
  BY <1>1 DEF SInv, IndexFits, CopiesFit, OneAtATime, Wanted
<1>4. OneProvider'
  BY <1>1 DEF SInv, OneProvider
<1>5. Alone'
  <2>1. /\ \A s \in Sessions : StoresChanges(s)' <=> StoresChanges(s)
        /\ \A s \in Sessions : Making(s)' <=> Making(s)
        /\ Whole' <=> Whole
    BY <1>1 DEF StoresChanges, Making, Whole, Row, Wanted, Copy, NoRows
  <2> QED BY <1>1, <2>1 DEF SInv, Alone
<1> QED BY <1>2, <1>3, <1>4, <1>5 DEF SInv

LEMMA StutterKeepsStore == SInv /\ UNCHANGED ssvars => SInv'
BY DEF SInv, ssvars, envVars, tableVars, sessionVars, StoreTypeOK, IndexFits, CopiesFit,
       OneAtATime, OneProvider, Alone, StoresChanges, Whole, Making, Row, Wanted, Copy, NoRows

LEMMA NextSInv == SInv /\ [NextStore]_ssvars => SInv'
<1> SUFFICES ASSUME SInv, [NextStore]_ssvars PROVE SInv'
  OBVIOUS
<1>1. ASSUME NEW s \in Sessions, EnsureCreateKnown(s) \/ EnsureCreate(s) PROVE SInv'
  BY <1>1, CreateKeeps DEF EnsureCreateKnown, EnsureCreate
<1>2. ASSUME NEW s \in Sessions, Step(s) PROVE SInv'
  BY <1>1, <1>2, PrepareKeeps, CommitKeeps, EnsureReadKeeps, DropKeeps, RecordKeeps,
     RebuildReadKeeps, RebuildInsertKeeps, SearchKeeps DEF Step
<1> QED BY <1>2, BeginStoreKeeps, BeginSearchKeeps, StopKeeps, WorldKeeps, StutterKeepsStore
        DEF NextStore

LEMMA SInvAlways == SpecStore => []SInv
BY InitSInv, NextSInv, PTL DEF SpecStore

-----------------------------------------------------------------------------
(* Every table and every session keeps the values its type allows.         *)
THEOREM StoreTypes == SpecStore => []StoreTypeOK
<1>1. SInv => StoreTypeOK
  BY DEF SInv
<1> QED BY <1>1, SInvAlways, PTL

(* What semantic_search reads is what is stored: no vector of an older     *)
(* version or of another dimension, and between sessions none is missing.  *)
THEOREM IndexIsSound == SpecStore => []VectorIndexIsSound
<1>1. SInv => VectorIndexIsSound
  <2> SUFFICES ASSUME SInv PROVE VectorIndexIsSound
    OBVIOUS
  <2>1. Settled => Whole
    <3>1. MakingLabels \subseteq EnsureLabels
      BY DEF MakingLabels, EnsureLabels
    <3> QED BY <3>1 DEF SInv, Alone, Settled
  <2> QED BY <2>1 DEF SInv, IndexFits, Whole, VectorIndexIsSound
<1> QED BY <1>1, SInvAlways, PTL

(* Versions of a symbol in the order in which the workspace has them.      *)
Earlier(v, w) == v.text < w.text \/ (v.text = w.text /\ v.moves <= w.moves)

Stored(x) == [text |-> codeSymbols[x].source, moves |-> located[x]]

(* The program of session s is on its way into the tables.                 *)
Storing(s) ==
    pc[s] \in {"prepare", "commit"} \/ (pc[s] \in EnsureLabels /\ changed[s] # {})

(* A row tells of a version the workspace had, and, if sessions do not     *)
(* overlap, of none that is later than the program being stored.           *)
NothingFromTheFuture ==
    /\ \A x \in Symbols : codeSymbols[x] # NoRow => Earlier(Stored(x), disk[x])
    /\ \A s \in Sessions, x \in Symbols : Earlier(prog[s][x], disk[x])
    /\ ~together => \A s \in Sessions, x \in Symbols :
            Storing(s) /\ codeSymbols[x] # NoRow => Earlier(Stored(x), prog[s][x])

RowsInv == SInv /\ NothingFromTheFuture

LEMMA EarlierIsAnOrder ==
    ASSUME NEW u \in [text : Nat, moves : Nat], NEW v \in [text : Nat, moves : Nat],
           NEW w \in [text : Nat, moves : Nat]
    PROVE  /\ Earlier(v, v)
           /\ Earlier(u, v) /\ Earlier(v, w) => Earlier(u, w)
           /\ Earlier(FirstVersion, v)
BY DEF Earlier, FirstVersion

LEMMA VersionsAreNumbers ==
    ASSUME StoreTypeOK
    PROVE  /\ \A x \in Symbols : disk[x] \in [text : Nat, moves : Nat]
           /\ \A s \in Sessions, x \in Symbols : prog[s][x] \in [text : Nat, moves : Nat]
           /\ \A x \in Symbols : codeSymbols[x] # NoRow =>
                Stored(x) \in [text : Nat, moves : Nat]
<1>1. Versions \subseteq [text : Nat, moves : Nat]
  BY StoreAssumption DEF Versions
<1>2. \A x \in Symbols : codeSymbols[x] # NoRow =>
          codeSymbols[x].source \in Nat /\ located[x] \in Nat
  BY StoreAssumption DEF StoreTypeOK, Rows
<1> QED BY <1>1, <1>2 DEF StoreTypeOK, Stored

(* A step that stores nothing, of a session that has just read the         *)
(* workspace or that stores no other program than before.                  *)
LEMMA NothingStored ==
    ASSUME RowsInv, NEW s \in Sessions, OthersKeep(s),
           UNCHANGED <<disk, together, codeSymbols, located>>,
           \A x \in Symbols : prog'[s][x] \in {prog[s][x], disk[x], FirstVersion},
           Storing(s)' => \/ \A x \in Symbols : prog'[s][x] = disk[x]
                          \/ Storing(s) /\ prog'[s] = prog[s]
    PROVE  NothingFromTheFuture'
<1>1. StoreTypeOK /\ NothingFromTheFuture
  BY DEF RowsInv, SInv
<1>2. \A x \in Symbols : Stored(x)' = Stored(x)
  BY DEF Stored
<1>3. \A x \in Symbols : codeSymbols'[x] # NoRow => Earlier(Stored(x)', disk'[x])
  BY <1>1, <1>2 DEF NothingFromTheFuture
<1>4. ASSUME NEW u \in Sessions, NEW x \in Symbols PROVE Earlier(prog'[u][x], disk'[x])
  <2>1. CASE u # s
    BY <1>1, <2>1 DEF NothingFromTheFuture, OthersKeep
  <2>2. CASE u = s
    <3>1. Earlier(prog[s][x], disk[x]) /\ Earlier(disk[x], disk[x]) /\ Earlier(FirstVersion, disk[x])
      BY <1>1, VersionsAreNumbers, EarlierIsAnOrder DEF NothingFromTheFuture
    <3> QED BY <2>2, <3>1
  <2> QED BY <2>1, <2>2
<1>5. ASSUME ~together, NEW u \in Sessions, NEW x \in Symbols, Storing(u)', codeSymbols[x] # NoRow
      PROVE  Earlier(Stored(x), prog'[u][x])
  <2>1. CASE u # s
    <3>1. Storing(u) /\ prog'[u] = prog[u]
      BY <1>5, <2>1 DEF OthersKeep, Storing
    <3> QED BY <1>1, <1>5, <3>1 DEF NothingFromTheFuture
  <2>2. CASE u = s
    BY <1>1, <1>5, <2>2 DEF NothingFromTheFuture
  <2> QED BY <2>1, <2>2
<1> QED BY <1>2, <1>3, <1>4, <1>5 DEF NothingFromTheFuture

(* A session that ends.                                                    *)
LEMMA EndedStoresNothing ==
    ASSUME StoreTypeOK, NEW s \in Sessions, NEW from, Finish(s, from)
    PROVE  /\ OthersKeep(s) /\ ~Storing(s)'
           /\ \A x \in Symbols : prog'[s][x] = FirstVersion
<1>1. /\ pc'[s] = "idle" /\ changed'[s] = {} /\ prog'[s] = [x \in Symbols |-> FirstVersion]
  BY DEF Finish, Forget, Goto, StoreTypeOK
<1>2. OthersKeep(s)
  BY DEF Finish, Forget, Goto, StoreTypeOK, OthersKeep
<1> QED BY <1>1, <1>2 DEF Storing, EnsureLabels

(* Only a commit stores anything.                                          *)
LEMMA OtherStepsStoreNothing ==
    ASSUME RowsInv, NEW s \in Sessions,
           \/ BeginStore(s) \/ BeginSearch(s) \/ prepareChangedSymbols(s) \/ EnsureRead(s)
           \/ EnsureCreateKnown(s) \/ EnsureDrop(s) \/ EnsureCreate(s) \/ EnsureRecord(s)
           \/ RebuildRead(s) \/ RebuildInsert(s) \/ Search(s) \/ Stop(s)
    PROVE  NothingFromTheFuture'
<1>1. StoreTypeOK
  BY DEF RowsInv, SInv
<1>2. CASE BeginStore(s)
  <2>1. /\ OthersKeep(s) /\ prog'[s] = disk /\ UNCHANGED <<disk, together, codeSymbols, located>>
    BY <1>1, <1>2 DEF BeginStore, Goto, StoreTypeOK, OthersKeep, envVars, tableVars
  <2> QED BY <2>1, NothingStored
<1>3. CASE BeginSearch(s)
  <2>1. /\ OthersKeep(s) /\ prog' = prog /\ ~Storing(s)'
        /\ UNCHANGED <<disk, together, codeSymbols, located>>
    BY <1>1, <1>3 DEF BeginSearch, Goto, StoreTypeOK, OthersKeep, Storing, EnsureLabels,
       envVars, tableVars
  <2> QED BY <2>1, NothingStored
<1>4. CASE prepareChangedSymbols(s)
  <2>1. /\ OthersKeep(s) /\ prog' = prog /\ Storing(s)
        /\ UNCHANGED <<disk, together, codeSymbols, located>>
    BY <1>1, <1>4 DEF prepareChangedSymbols, Goto, StoreTypeOK, OthersKeep, Storing,
       envVars, tableVars
  <2> QED BY <2>1, NothingStored
<1>5. CASE \/ EnsureRead(s) \/ EnsureCreateKnown(s) \/ EnsureDrop(s) \/ EnsureCreate(s)
           \/ EnsureRecord(s)
  <2>1. /\ UNCHANGED <<disk, together, codeSymbols, located, sessionVars>>
        /\ \E from \in EnsureLabels, to \in SessionLabels :
                /\ Goto(s, from, to) /\ to # "prepare"
                /\ to = "commit" => changed[s] # {}
    BY <1>5 DEF EnsureRead, EnsureCreateKnown, EnsureDrop, EnsureCreate, EnsureRecord,
       AfterEnsure, SessionLabels, EnsureLabels, envVars, tableVars
  <2>2. OthersKeep(s) /\ prog' = prog /\ (Storing(s)' => Storing(s))
    BY <1>1, <2>1 DEF Goto, StoreTypeOK, OthersKeep, Storing, sessionVars
  <2> QED BY <2>1, <2>2, NothingStored
<1>6. CASE RebuildRead(s)
  <2>1. /\ OthersKeep(s) /\ prog' = prog /\ (Storing(s)' => Storing(s))
        /\ UNCHANGED <<disk, together, codeSymbols, located>>
    BY <1>1, <1>6 DEF RebuildRead, Goto, StoreTypeOK, OthersKeep, Storing, EnsureLabels,
       envVars, tableVars
  <2> QED BY <2>1, NothingStored
<1>7. CASE RebuildInsert(s)
  <2>1. UNCHANGED <<disk, together, codeSymbols, located>>
    BY <1>7 DEF RebuildInsert, envVars
  <2>2. CASE Finish(s, "rebuildInsert")
    BY <1>1, <2>1, <2>2, EndedStoresNothing, NothingStored
  <2>3. CASE ~Finish(s, "rebuildInsert")
    <3>1. /\ Goto(s, "rebuildInsert", AfterEnsure(s)) /\ UNCHANGED <<prog, by, changed>>
          /\ copied' = [copied EXCEPT ![s] = NoRows]
      BY <1>7, <2>3 DEF RebuildInsert
    <3>2. OthersKeep(s) /\ prog' = prog /\ (Storing(s)' => Storing(s))
      BY <1>1, <3>1 DEF Goto, StoreTypeOK, OthersKeep, Storing, AfterEnsure,
         EnsureLabels
    <3> QED BY <2>1, <3>2, NothingStored
  <2> QED BY <2>2, <2>3
<1>8. CASE Search(s) \/ Stop(s)
  <2>1. UNCHANGED <<disk, together, codeSymbols, located>> /\ \E from : Finish(s, from)
    BY <1>8 DEF Search, Stop, envVars, tableVars
  <2> QED BY <1>1, <2>1, EndedStoresNothing, NothingStored
<1> QED BY <1>2, <1>3, <1>4, <1>5, <1>6, <1>7, <1>8

(* A commit stores what the session's program has; what it leaves alone is *)
(* of the same source there.                                               *)
LEMMA CommitStores ==
    ASSUME RowsInv, NEW s \in Sessions, Commit(s)
    PROVE  NothingFromTheFuture'
<1>1. StoreTypeOK /\ NothingFromTheFuture
  BY DEF RowsInv, SInv
<1>2. /\ OthersKeep(s) /\ ~Storing(s)' /\ \A x \in Symbols : prog'[s][x] = FirstVersion
      /\ pc[s] = "commit" /\ UNCHANGED <<disk, together>>
  BY <1>1, EndedStoresNothing DEF Commit, Finish, Goto, OutsideCommit, envVars
<1>3. ASSUME ~CanCommit(s) PROVE NothingFromTheFuture'
  BY <1>2, <1>3, NothingStored DEF Commit
<1>4. ASSUME CanCommit(s), NEW x \in Symbols
      PROVE  IF x \in changed[s] THEN Stored(x)' = prog[s][x]
             ELSE Stored(x)' = Stored(x) /\ codeSymbols'[x] = codeSymbols[x]
  <2>1. prog[s][x] = [text |-> prog[s][x].text, moves |-> prog[s][x].moves]
    BY <1>1 DEF StoreTypeOK, Versions
  <2> QED BY <1>4, <2>1 DEF Commit, upsertSymbols, Stored, Row
<1>5. ASSUME CanCommit(s) PROVE NothingFromTheFuture'
  <2>1. ASSUME NEW x \in Symbols, codeSymbols'[x] # NoRow PROVE Earlier(Stored(x)', disk'[x])
    BY <1>1, <1>2, <1>4, <1>5, <2>1 DEF NothingFromTheFuture
  <2>2. ASSUME NEW u \in Sessions, NEW x \in Symbols PROVE Earlier(prog'[u][x], disk'[x])
    <3>1. Earlier(prog[u][x], disk[x]) /\ Earlier(FirstVersion, disk[x])
      BY <1>1, VersionsAreNumbers, EarlierIsAnOrder DEF NothingFromTheFuture
    <3> QED BY <1>2, <3>1 DEF OthersKeep
  <2>3. ASSUME ~together PROVE \A u \in Sessions : ~Storing(u)'
    <3> SUFFICES ASSUME NEW u \in Sessions, u # s PROVE ~Storing(u)'
      BY <1>2
    <3>1. pc'[u] = "idle"
      BY <1>2, <2>3, AloneFacts DEF OthersKeep, RowsInv
    <3> QED BY <3>1 DEF Storing, EnsureLabels
  <2> QED BY <1>2, <2>1, <2>2, <2>3 DEF NothingFromTheFuture
<1> QED BY <1>3, <1>5

(* The workspace moves on: no version of it becomes later than the disk.   *)
LEMMA WorkspaceMovesOn ==
    ASSUME RowsInv, \/ \E x \in Symbols : Edit(x) \/ Move(x)
                 \/ \E p \in Providers : ChangeProvider(p)
    PROVE  NothingFromTheFuture'
<1>1. StoreTypeOK /\ NothingFromTheFuture
  BY DEF RowsInv, SInv
<1>2. /\ UNCHANGED <<together, codeSymbols, located, pc, prog, changed>>
      /\ \A x \in Symbols : Earlier(disk[x], disk'[x]) /\ disk'[x] \in [text : Nat, moves : Nat]
  <2>1. ASSUME NEW y \in Symbols, Edit(y) \/ Move(y), NEW x \in Symbols
        PROVE  Earlier(disk[x], disk'[x]) /\ disk'[x] \in [text : Nat, moves : Nat]
    <3>1. /\ disk[x] \in [text : Nat, moves : Nat] /\ disk[y] \in [text : Nat, moves : Nat]
          /\ DOMAIN disk = Symbols
      BY <1>1, VersionsAreNumbers DEF StoreTypeOK
    <3>2. CASE Edit(y)
      BY <3>1, <3>2 DEF Edit, Earlier
    <3>3. CASE Move(y)
      BY <3>1, <3>3 DEF Move, Earlier
    <3> QED BY <2>1, <3>2, <3>3
  <2>2. ASSUME NEW p \in Providers, ChangeProvider(p), NEW x \in Symbols
        PROVE  Earlier(disk[x], disk'[x]) /\ disk'[x] \in [text : Nat, moves : Nat]
    BY <1>1, <2>2, VersionsAreNumbers, EarlierIsAnOrder DEF ChangeProvider
  <2>3. UNCHANGED <<together, tableVars, pc, sessionVars>>
    BY DEF Edit, Move, ChangeProvider
  <2> QED BY <2>1, <2>2, <2>3 DEF tableVars, sessionVars
<1>3. \A x \in Symbols : Stored(x)' = Stored(x)
  BY <1>2 DEF Stored
<1>4. \A x \in Symbols : codeSymbols[x] # NoRow => Earlier(Stored(x), disk'[x])
  BY <1>1, <1>2, VersionsAreNumbers, EarlierIsAnOrder DEF NothingFromTheFuture
<1>5. \A s \in Sessions, x \in Symbols : Earlier(prog[s][x], disk'[x])
  BY <1>1, <1>2, VersionsAreNumbers, EarlierIsAnOrder DEF NothingFromTheFuture
<1>6. \A s \in Sessions : Storing(s)' <=> Storing(s)
  BY <1>2 DEF Storing
<1> QED BY <1>1, <1>2, <1>3, <1>4, <1>5, <1>6 DEF NothingFromTheFuture

LEMMA InitRowsInv == InitStore => RowsInv
<1> SUFFICES ASSUME InitStore PROVE RowsInv
  OBVIOUS
<1>1. NothingFromTheFuture
  BY DEF InitStore, NothingFromTheFuture, NoRows, Storing, EnsureLabels, Earlier, FirstVersion
<1> QED BY <1>1, InitSInv DEF RowsInv

LEMMA NextRowsInv == RowsInv /\ [NextStore]_ssvars => RowsInv'
<1> SUFFICES ASSUME RowsInv, [NextStore]_ssvars PROVE RowsInv'
  OBVIOUS
<1>1. ASSUME UNCHANGED ssvars PROVE NothingFromTheFuture'
  BY <1>1 DEF RowsInv, NothingFromTheFuture, Storing, Stored, ssvars, envVars, tableVars, sessionVars
<1>2. NothingFromTheFuture'
  BY <1>1, OtherStepsStoreNothing, CommitStores, WorkspaceMovesOn DEF NextStore, Step
<1> QED BY <1>2, NextSInv DEF RowsInv

LEMMA RowsInvAlways == SpecStore => []RowsInv
BY InitRowsInv, NextRowsInv, PTL DEF SpecStore

(* A session that stores only what has changed leaves in the symbol table  *)
(* the source of its whole program, each symbol where this source stood in *)
(* this program or in an earlier one.                                      *)
THEOREM CommitIsComplete == SpecStore => CommitStoresProgram
<1>1. ASSUME RowsInv, NEW s \in Sessions, ~together, Commit(s), CanCommit(s), NEW x \in Symbols
      PROVE  codeSymbols'[x] = Row(s, x) /\ located'[x] <= prog[s][x].moves
  <2>1. /\ codeSymbols' = [y \in Symbols |->
                IF y \in changed[s] THEN Row(s, y) ELSE codeSymbols[y]]
        /\ located' = [y \in Symbols |->
                IF y \in changed[s] THEN prog[s][y].moves ELSE located[y]]
        /\ pc[s] = "commit"
    BY <1>1 DEF Commit, Finish, Goto, upsertSymbols
  <2>2. symbolHashes = codeSymbols /\ StoresChanges(s) /\ StoreTypeOK /\ NothingFromTheFuture
    BY <1>1 DEF RowsInv, SInv, Alone
  <2>3. prog[s][x] \in [text : Nat, moves : Nat]
    BY <2>2, VersionsAreNumbers
  <2>4. CASE x \in changed[s]
    BY <2>1, <2>3, <2>4
  <2>5. CASE x \notin changed[s]
    <3>1. codeSymbols[x] = Row(s, x) /\ Row(s, x) # NoRow
      BY <2>1, <2>2, <2>5, RowIsARow DEF StoresChanges
    <3>2. Earlier(Stored(x), prog[s][x])
      BY <1>1, <2>1, <2>2, <3>1 DEF NothingFromTheFuture, Storing
    <3>3. located[x] <= prog[s][x].moves
      BY <2>3, <3>1, <3>2 DEF Earlier, Stored, Row
    <3> QED BY <2>1, <2>5, <3>1, <3>3
  <2> QED BY <2>4, <2>5
<1>2. RowsInv => (\A s \in Sessions :
                  ~together /\ Commit(s) /\ CanCommit(s)
                    => \A x \in Symbols : /\ codeSymbols'[x] = Row(s, x)
                                          /\ located'[x] <= prog[s][x].moves)
  BY <1>1
<1> QED BY <1>2, RowsInvAlways, PTL DEF CommitStoresProgram

-----------------------------------------------------------------------------
(* The configuration.                                                      *)

Shape ==
    /\ tree \in Trees
    /\ DOMAIN at = Calls /\ at = [c \in Calls |-> at[c]]
    /\ DOMAIN merged = Calls /\ merged = [c \in Calls |-> merged[c]]
    /\ DOMAIN request = Calls /\ request = [c \in Calls |-> request[c]]
    /\ DOMAIN file = ToSet(Layers) /\ file = [l \in ToSet(Layers) |-> file[l]]

(* A call that creates the file has read no layer, so what it will write   *)
(* is the suggestion.                                                      *)
WritesSuggestion ==
    \A c \in Calls : at[c] \in {"open", "write"} => merged[c] = SuggestWorkspaceConfig(tree)

(* A file that is being written is there, so nobody else can create it.    *)
WrittenExists == \A c \in Calls : at[c] = "write" => file["repo"] # Absent

CInv == Shape /\ WritesSuggestion /\ WrittenExists /\ OnlyOwnFileIsWritten

USE DEF CInv, Shape, WritesSuggestion, WrittenExists, OnlyOwnFileIsWritten

LEMMA RepoIsALayer == "repo" \in ToSet(Layers)
BY DEF ToSet, Layers

LEMMA InitKeeps == InitConfig => CInv
BY DEF InitConfig

LEMMA BeginKeeps ==
    ASSUME NEW c \in Calls, NEW r \in Requests, CInv, Begin(c, r)
    PROVE  CInv'
<1>1. tree' = tree /\ file' = file /\ origin' = origin
  BY DEF Begin, files
<1>2. /\ at[c] = "idle"
      /\ at' = [at EXCEPT ![c] = IF ~tree.sound THEN "failed"
                                 ELSE IF r.tool = "init" THEN "open" ELSE "user"]
      /\ merged' = [merged EXCEPT ![c] = IF tree.sound THEN SuggestWorkspaceConfig(tree) ELSE Blank]
      /\ request' = [request EXCEPT ![c] = r]
  BY DEF Begin, Goes
<1> QED BY <1>1, <1>2

(* Steps of a call that neither create nor write the repo config.          *)
LEMMA OtherStepKeeps ==
    ASSUME NEW c \in Calls, CInv, NEW label,
           UNCHANGED <<tree, file, origin, request>>,
           at[c] \notin {"open", "write"}, label \notin {"open", "write"},
           at' = [at EXCEPT ![c] = label],
           \/ merged' = merged
           \/ \E m : merged' = [merged EXCEPT ![c] = m]
    PROVE  CInv'
OBVIOUS

LEMMA ReadKeeps ==
    ASSUME NEW c \in Calls, CInv, loadOptionalWorkspaceConfigWithRaw(c)
    PROVE  CInv'
<1>1. PICK i \in DOMAIN Layers :
        LET l     == Layers[i]
            after == IF i < Len(Layers) THEN Layers[i + 1]
                     ELSE IF request[c].tool = "analysis" THEN "resolve" ELSE "inspect"
        IN  /\ at[c] = l
            /\ Goes(c, IF file[l] = Broken THEN "failed" ELSE after)
            /\ IF file[l] \in {Absent, Broken}
               THEN UNCHANGED <<merged, explicit>>
               ELSE /\ merged' = [merged EXCEPT ![c] = mergeWorkspaceConfig(@, file[l])]
                    /\ explicit' = [explicit EXCEPT ![c] = @ \/ hasExplicitEmbeddingsConfig(file[l])]
            /\ UNCHANGED <<files, capacity, request, existed, answer, quiet>>
  BY DEF loadOptionalWorkspaceConfigWithRaw
<1>2. i \in 1..3 /\ Len(Layers) = 3 /\ at[c] \in {"user", "repo", "project"}
  BY <1>1 DEF Layers
<1> DEFINE label == IF file[Layers[i]] = Broken THEN "failed"
                    ELSE IF i < Len(Layers) THEN Layers[i + 1]
                    ELSE IF request[c].tool = "analysis" THEN "resolve" ELSE "inspect"
<1>3. label \notin {"open", "write"}
  BY <1>2 DEF Layers
<1>4. at' = [at EXCEPT ![c] = label] /\ UNCHANGED <<tree, file, origin, request>>
  BY <1>1 DEF Goes, files
<1>5. merged' = merged \/ \E m : merged' = [merged EXCEPT ![c] = m]
  BY <1>1
<1> HIDE DEF label
<1> QED BY <1>2, <1>3, <1>4, <1>5, OtherStepKeeps

LEMMA AnswerKeeps ==
    ASSUME NEW c \in Calls, CInv,
           \/ resolveAnalysisDefaults(c) \/ Inspect(c) \/ LoadUserWorkspaceState(c)
           \/ TruncateState(c) \/ SaveDismissed(c) \/ SaveReopened(c) \/ ReloadState(c)
    PROVE  CInv'
<1>1. /\ UNCHANGED <<tree, file, origin, request>> /\ merged' = merged
      /\ at[c] \notin {"open", "write"}
  BY DEF resolveAnalysisDefaults, Inspect, LoadUserWorkspaceState, TruncateState,
         SaveDismissed, SaveReopened, ReloadState, files
<1>2. \E label : at' = [at EXCEPT ![c] = label] /\ label \notin {"open", "write"}
  <2> DEFINE To(label) == at' = [at EXCEPT ![c] = label]
  <2>1. \/ To("done") \/ To("failed") \/ To("load") \/ To("dismiss") \/ To("reopen")
        \/ To("dismissing") \/ To("reopening") \/ To("reload") \/ To("dead")
    BY DEF resolveAnalysisDefaults, Inspect, LoadUserWorkspaceState, TruncateState,
           SaveDismissed, SaveReopened, ReloadState, Goes
  <2> QED BY <2>1
<1> QED BY <1>1, <1>2, OtherStepKeeps

(* O_EXCL fails on a file that is there; without overwrite the call is the *)
(* creator, and nobody else is writing, since then the file would be there.*)
LEMMA OpenKeeps ==
    ASSUME NEW c \in Calls, CInv, OpenRepoConfig(c)
    PROVE  CInv'
<1>1. at[c] = "open" /\ UNCHANGED <<tree, request, merged>>
  BY DEF OpenRepoConfig
<1>2. CASE file["repo"] # Absent /\ ~request[c].overwrite
  <2>1. at' = [at EXCEPT ![c] = "failed"] /\ UNCHANGED <<file, origin>>
    BY <1>2 DEF OpenRepoConfig, Goes
  <2> QED BY <1>1, <2>1
<1>3. CASE ~(file["repo"] # Absent /\ ~request[c].overwrite)
  <2>1. /\ at' = [at EXCEPT ![c] = "write"]
        /\ file' = [file EXCEPT !["repo"] = Blank]
        /\ origin' = IF file["repo"] = Absent THEN c ELSE origin
    BY <1>3 DEF OpenRepoConfig, Goes
  <2>2. file'["repo"] # Absent
    BY <2>1, RepoIsALayer, AbsentAssumption
  <2>3. OnlyOwnFileIsWritten'
    BY <1>1, <1>3, <2>1
  <2> QED BY <1>1, <2>1, <2>2, <2>3
<1> QED BY <1>2, <1>3

LEMMA WriteKeeps ==
    ASSUME NEW c \in Calls, CInv, WriteRepoConfig(c)
    PROVE  CInv'
<1>1. /\ at[c] = "write" /\ at' = [at EXCEPT ![c] = "done"]
      /\ file' = [file EXCEPT !["repo"] = normalizeWorkspaceConfig(merged[c])]
      /\ UNCHANGED <<tree, origin, request, merged>>
  BY DEF WriteRepoConfig, Goes
<1>2. file'["repo"] # Absent
  BY <1>1, RepoIsALayer, AbsentAssumption
<1> QED BY <1>1, <1>2

LEMMA DieKeeps ==
    ASSUME NEW c \in Calls, CInv, Die(c)
    PROVE  CInv'
BY DEF Die, Goes, files

LEMMA EditKeeps ==
    ASSUME NEW l \in ToSet(Layers), CInv, EditFile(l)
    PROVE  CInv'
<1>1. PICK v : v # Absent /\ file' = [file EXCEPT ![l] = v]
  BY DEF EditFile
<1>2. /\ origin' = IF l = "repo" /\ file[l] = Absent THEN "editor" ELSE origin
      /\ UNCHANGED <<tree, at, request, merged>>
  BY DEF EditFile
<1>3. file["repo"] # Absent => file'["repo"] # Absent
  BY <1>1, RepoIsALayer
<1> QED BY <1>1, <1>2, <1>3

LEMMA StutterKeeps == CInv /\ UNCHANGED cfvars => CInv'
BY DEF cfvars, files

(* InitWorkspaceConfig without overwrite only writes to a file it created  *)
(* itself, also when several servers and an editor create it at once.      *)
THEOREM OthersFilesAreSafe == SpecConfig => []OnlyOwnFileIsWritten
<1>1. CInv /\ [NextConfig]_cfvars => CInv'
  <2> HIDE DEF CInv
  <2> QED BY BeginKeeps, ReadKeeps, AnswerKeeps, OpenKeeps, WriteKeeps, DieKeeps,
             EditKeeps, StutterKeeps DEF NextConfig
<1>2. CInv => OnlyOwnFileIsWritten
  OBVIOUS
<1> QED BY InitKeeps, <1>1, <1>2, PTL DEF SpecConfig

HIDE DEF CInv, Shape, WritesSuggestion, WrittenExists, OnlyOwnFileIsWritten

-----------------------------------------------------------------------------
(* Lists of patterns.  The recursive functions of the model are shown to   *)
(* satisfy their equations, by induction over a set of numbers.            *)

LEMMA Induction ==
    ASSUME NEW G, 0 \in G, \A n \in Nat : n \in G => n + 1 \in G
    PROVE  Nat \subseteq G
<1> DEFINE B == Nat \ G
<1>1. SUFFICES ASSUME B # {} PROVE FALSE
  OBVIOUS
<1>2. PICK n \in B : \A m \in B : ~ (<<m, n>> \in OpToRel(<, Nat))
  BY <1>1, WFMin, NatLessThanWellFounded
<1>3. \A m \in B : ~ (m < n)
  BY <1>2 DEF OpToRel
<1>4. n \in Nat /\ n # 0 /\ n - 1 \in Nat /\ n - 1 < n
  OBVIOUS
<1>5. n - 1 \in G
  BY <1>3, <1>4
<1>6. n - 1 + 1 \in G
  BY <1>4, <1>5
<1> QED BY <1>4, <1>6

(* What is kept of the first i values.                                     *)
CleanStep(v, f, i) ==
    IF i = 0 THEN <<>>
    ELSE IF v[i] \in ToSet(f[i - 1]) THEN f[i - 1]
    ELSE Append(f[i - 1], v[i])

LEMMA CleaningExists ==
    ASSUME NEW v
    PROVE  \A n \in Nat : \E f : f = [i \in 0..n |-> CleanStep(v, f, i)]
<1> DEFINE G == {n \in Nat : \E f : f = [i \in 0..n |-> CleanStep(v, f, i)]}
<1>1. 0 \in G
  <2> DEFINE f == [i \in 0..0 |-> <<>>]
  <2>1. f = [i \in 0..0 |-> CleanStep(v, f, i)]
    BY DEF CleanStep
  <2> HIDE DEF f
  <2> QED BY <2>1
<1>2. ASSUME NEW n \in Nat, n \in G PROVE n + 1 \in G
  <2>1. PICK f : f = [i \in 0..n |-> CleanStep(v, f, i)]
    BY <1>2
  <2> DEFINE g == [i \in 0..(n + 1) |-> IF i = n + 1 THEN CleanStep(v, f, n + 1) ELSE f[i]]
  <2>2. ASSUME NEW i \in 0..(n + 1) PROVE g[i] = CleanStep(v, g, i)
    <3>1. CASE i = 0
      <4>1. g[0] = f[0] /\ f[0] = CleanStep(v, f, 0)
        BY <2>1
      <4> QED BY <3>1, <4>1 DEF CleanStep
    <3>2. CASE i # 0
      <4>1. i - 1 \in 0..n /\ g[i - 1] = f[i - 1]
        BY <3>2
      <4>2. g[i] = CleanStep(v, f, i)
        BY <2>1
      <4>3. CleanStep(v, f, i) = CleanStep(v, g, i)
        BY <4>1 DEF CleanStep
      <4> QED BY <4>2, <4>3
    <3> QED BY <3>1, <3>2
  <2>3. g = [i \in 0..(n + 1) |-> g[i]]
    OBVIOUS
  <2> HIDE DEF g
  <2>4. g = [i \in 0..(n + 1) |-> CleanStep(v, g, i)]
    BY <2>2, <2>3
  <2> QED BY <2>4
<1>3. Nat \subseteq G
  <2> HIDE DEF G
  <2> QED BY <1>1, <1>2, Induction
<1> QED BY <1>3

Distinct(s) == \A i, j \in DOMAIN s : i # j => s[i] # s[j]

(* Cleaning ends with distinct values, some of the given ones, and the     *)
(* given list itself if its values are distinct.                           *)
LEMMA CleanProperties ==
    ASSUME NEW S, NEW v \in Seq(S)
    PROVE  /\ cleanStringSlice(v) \in Seq(S)
           /\ Distinct(cleanStringSlice(v))
           /\ v # <<>> => cleanStringSlice(v) # <<>>
           /\ Distinct(v) => cleanStringSlice(v) = v
<1> DEFINE n == Len(v)
           f == CHOOSE g : g = [i \in 0..n |-> CleanStep(v, g, i)]
<1>1. n \in Nat
  BY LenProperties
<1>2. cleanStringSlice(v) = f[n]
  BY DEF cleanStringSlice, CleanStep
<1>3. f = [i \in 0..n |-> CleanStep(v, f, i)]
  BY <1>1, CleaningExists
<1> HIDE DEF f
<1>4. \A i \in 0..n : f[i] = CleanStep(v, f, i)
  BY <1>3
<1>5. \A i \in 1..n : v[i] \in S
  BY <1>1, ElementOfSeq
<1> DEFINE Good(i) == /\ f[i] \in Seq(S)
                      /\ Distinct(f[i])
                      /\ i > 0 => f[i] # <<>>
                      /\ Distinct(v) => f[i] = SubSeq(v, 1, i)
           G == {i \in Nat : i <= n => Good(i)}
<1>6. 0 \in G
  <2>1. f[0] = <<>>
    BY <1>1, <1>4 DEF CleanStep
  <2>2. <<>> \in Seq(S) /\ Distinct(<<>>) /\ SubSeq(v, 1, 0) = <<>>
    BY SubSeqEmpty DEF Distinct
  <2>3. Good(0)
    BY <2>1, <2>2
  <2> HIDE DEF Good
  <2> QED BY <2>3
<1>7. ASSUME NEW i \in Nat, i \in G PROVE i + 1 \in G
  <2>1. SUFFICES ASSUME i + 1 <= n PROVE Good(i + 1)
    OBVIOUS
  <2>2. Good(i) /\ i \in 0..n /\ i + 1 \in 1..n /\ i + 1 \in 0..n /\ v[i + 1] \in S
    BY <1>1, <1>5, <1>7, <2>1
  <2>3. f[i + 1] = IF v[i + 1] \in ToSet(f[i]) THEN f[i] ELSE Append(f[i], v[i + 1])
    <3>1. f[i + 1] = CleanStep(v, f, i + 1)
      BY <1>4, <2>2
    <3>2. i + 1 # 0 /\ i + 1 - 1 = i
      OBVIOUS
    <3> QED BY <3>1, <3>2 DEF CleanStep
  <2>4. PICK r \in Seq(S) : r = f[i]
    BY <2>2
  <2>5. Len(r) \in Nat /\ DOMAIN r = 1..Len(r)
    BY LenProperties
  <2>6. CASE v[i + 1] \in ToSet(r)
    <3>1. f[i + 1] = r
      BY <2>3, <2>4, <2>6
    <3>2. r # <<>>
      BY <2>6 DEF ToSet
    <3>3. ~Distinct(v)
      <4>1. SUFFICES ASSUME Distinct(v) PROVE FALSE
        OBVIOUS
      <4>2. r = SubSeq(v, 1, i)
        BY <2>2, <2>4, <4>1
      <4>3. PICK k \in DOMAIN r : v[i + 1] = r[k]
        BY <2>6 DEF ToSet
      <4>4. Len(r) = i /\ \A m \in 1..i : r[m] = v[m]
        <5>1. 1 \in Int /\ i \in Int /\ \A m \in 1..i : v[m] \in S
          BY <1>5, <2>2
        <5>2. /\ Len(SubSeq(v, 1, i)) = IF 1 <= i THEN i - 1 + 1 ELSE 0
              /\ \A m \in 1..(i - 1 + 1) : SubSeq(v, 1, i)[m] = v[1 + m - 1]
          BY <5>1, SubSeqProperties
        <5> QED BY <4>2, <5>2
      <4>5. k \in 1..n /\ k # i + 1 /\ v[k] = v[i + 1]
        BY <2>2, <2>5, <4>3, <4>4
      <4> QED BY <2>2, <4>1, <4>5, LenProperties DEF Distinct
    <3> QED BY <2>2, <2>4, <3>1, <3>2, <3>3
  <2>7. CASE v[i + 1] \notin ToSet(r)
    <3>1. f[i + 1] = Append(r, v[i + 1])
      BY <2>3, <2>4, <2>7
    <3>2. /\ Append(r, v[i + 1]) \in Seq(S) /\ Append(r, v[i + 1]) # <<>>
          /\ Len(Append(r, v[i + 1])) = Len(r) + 1
          /\ \A k \in 1..Len(r) : Append(r, v[i + 1])[k] = r[k]
          /\ Append(r, v[i + 1])[Len(r) + 1] = v[i + 1]
      BY <2>2, AppendProperties
    <3>3. PICK a \in Seq(S) : a = Append(r, v[i + 1])
      BY <3>2
    <3>4. /\ DOMAIN a = 1..(Len(r) + 1) /\ a[Len(r) + 1] = v[i + 1]
          /\ \A k \in 1..Len(r) : a[k] = r[k]
      BY <3>2, <3>3, LenProperties
    <3>5. Distinct(a)
      <4>1. \A k \in 1..Len(r) : a[k] \in ToSet(r) /\ a[k] = r[k]
        BY <2>5, <3>4 DEF ToSet
      <4>2. Distinct(r)
        BY <2>2, <2>4
      <4>3. SUFFICES ASSUME NEW k \in 1..(Len(r) + 1), NEW m \in 1..(Len(r) + 1), k # m
                     PROVE  a[k] # a[m]
        BY <3>4 DEF Distinct
      <4>4. CASE k \in 1..Len(r) /\ m \in 1..Len(r)
        BY <2>5, <4>1, <4>2, <4>3, <4>4 DEF Distinct
      <4>5. CASE k \in 1..Len(r) /\ m = Len(r) + 1
        BY <2>7, <3>4, <4>1, <4>5
      <4>6. CASE m \in 1..Len(r) /\ k = Len(r) + 1
        BY <2>7, <3>4, <4>1, <4>6
      <4> QED BY <2>5, <4>3, <4>4, <4>5, <4>6
    <3>6. ASSUME Distinct(v) PROVE a = SubSeq(v, 1, i + 1)
      <4>1. r = SubSeq(v, 1, i)
        BY <2>2, <2>4, <3>6
      <4>2. SubSeq(v, 1, i + 1) = SubSeq(v, 1, i) \o <<v[i + 1]>>
        <5>1. 1 \in 1..Len(v) /\ i + 1 \in 1..Len(v)
          BY <1>1, <2>2
        <5>2. SubSeq(v, 1, i + 1) = SubSeq(v, 1, i + 1 - 1) \o <<v[i + 1]>>
          BY <5>1, SubSeqRecursiveSecond
        <5>3. i + 1 - 1 = i
          OBVIOUS
        <5> QED BY <5>2, <5>3
      <4>3. Append(r, v[i + 1]) = r \o <<v[i + 1]>>
        BY <2>2, AppendIsConcat
      <4> QED BY <3>3, <4>1, <4>2, <4>3
    <3> QED BY <3>1, <3>2, <3>3, <3>5, <3>6
  <2> QED BY <2>4, <2>6, <2>7
<1>8. n \in G
  <2> HIDE DEF G
  <2> QED BY <1>1, <1>6, <1>7, Induction
<1>9. Good(n)
  BY <1>1, <1>8
<1>10. SubSeq(v, 1, n) = v /\ (v # <<>> => n > 0)
  BY SubSeqFull, EmptySeq
<1> QED BY <1>2, <1>9, <1>10

LEMMA FunctionIsSeq ==
    ASSUME NEW S, NEW n \in Nat, NEW f \in [1..n -> S]
    PROVE  f \in Seq(S) /\ Len(f) = n /\ DOMAIN f = 1..n
<1>1. f \in Seq(S)
  BY SeqDef
<1>2. Len(f) \in Nat /\ DOMAIN f = 1..Len(f)
  BY <1>1, LenProperties
<1>3. 1..Len(f) = 1..n
  BY <1>2
<1> QED BY <1>1, <1>2, <1>3

FlattenStep(q, f, i) == IF i = 1 THEN q[i] ELSE f[i - 1] \o q[i]

LEMMA FlattenNext ==
    ASSUME NEW q, NEW f, NEW i, i # 1
    PROVE  FlattenStep(q, f, i) = f[i - 1] \o q[i]
BY DEF FlattenStep

LEMMA FlatteningExists ==
    ASSUME NEW q
    PROVE  \A n \in Nat : \E f : f = [i \in 1..n |-> FlattenStep(q, f, i)]
<1> DEFINE G == {n \in Nat : \E f : f = [i \in 1..n |-> FlattenStep(q, f, i)]}
<1>1. 0 \in G
  <2> DEFINE f == [i \in 1..0 |-> <<>>]
  <2>1. f = [i \in 1..0 |-> FlattenStep(q, f, i)]
    OBVIOUS
  <2> HIDE DEF f
  <2> QED BY <2>1
<1>2. ASSUME NEW n \in Nat, n \in G PROVE n + 1 \in G
  <2>1. PICK f : f = [i \in 1..n |-> FlattenStep(q, f, i)]
    BY <1>2
  <2> DEFINE g == [i \in 1..(n + 1) |-> IF i = n + 1 THEN FlattenStep(q, f, n + 1) ELSE f[i]]
  <2>2. ASSUME NEW i \in 1..(n + 1) PROVE g[i] = FlattenStep(q, g, i)
    <3>1. g[i] = FlattenStep(q, f, i)
      BY <2>1
    <3>2. i # 1 => i - 1 \in 1..n /\ g[i - 1] = f[i - 1]
      OBVIOUS
    <3> QED BY <3>1, <3>2 DEF FlattenStep
  <2>3. g = [i \in 1..(n + 1) |-> g[i]]
    OBVIOUS
  <2> HIDE DEF g
  <2>4. g = [i \in 1..(n + 1) |-> FlattenStep(q, g, i)]
    BY <2>2, <2>3
  <2> QED BY <2>4
<1>3. Nat \subseteq G
  <2> HIDE DEF G
  <2> QED BY <1>1, <1>2, Induction
<1> QED BY <1>3

LEMMA FlattenType ==
    ASSUME NEW S, NEW q \in Seq(Seq(S))
    PROVE  FlattenSeq(q) \in Seq(S)
<1> DEFINE n == Len(q)
           f == CHOOSE g : g = [i \in 1..n |-> FlattenStep(q, g, i)]
<1>1. n \in Nat /\ \A i \in 1..n : q[i] \in Seq(S)
  BY LenProperties, ElementOfSeq
<1>2. FlattenSeq(q) = IF n = 0 THEN q ELSE f[n]
  BY DEF FlattenSeq, FlattenStep
<1>3. f = [i \in 1..n |-> FlattenStep(q, f, i)]
  BY <1>1, FlatteningExists
<1> HIDE DEF f
<1>4. \A i \in 1..n : f[i] = FlattenStep(q, f, i)
  BY <1>3
<1> DEFINE G == {i \in Nat : i \in 1..n => f[i] \in Seq(S)}
<1>5. 0 \in G
  OBVIOUS
<1>6. ASSUME NEW i \in Nat, i \in G PROVE i + 1 \in G
  <2>1. SUFFICES ASSUME i + 1 \in 1..n PROVE f[i + 1] \in Seq(S)
    OBVIOUS
  <2>2. q[i + 1] \in Seq(S)
    BY <1>1, <2>1
  <2>3. CASE i = 0
    <3>1. f[i + 1] = q[i + 1]
      BY <1>4, <2>1, <2>3 DEF FlattenStep
    <3> QED BY <2>2, <3>1
  <2>4. CASE i # 0
    <3>1. f[i] \in Seq(S)
      BY <1>1, <1>6, <2>1, <2>4
    <3>2. f[i + 1] = f[i] \o q[i + 1]
      <4>1. PICK k \in 1..n : k = i + 1 /\ k # 1 /\ k - 1 = i
        BY <2>1, <2>4
      <4>2. f[k] = FlattenStep(q, f, k)
        BY <1>4
      <4>3. FlattenStep(q, f, k) = f[k - 1] \o q[k]
        BY <4>1, FlattenNext
      <4> QED BY <4>1, <4>2, <4>3
    <3> QED BY <2>2, <3>1, <3>2, ConcatProperties
  <2> QED BY <2>3, <2>4
<1>7. n \in G
  <2> HIDE DEF G
  <2> QED BY <1>1, <1>5, <1>6, Induction
<1>8. CASE n = 0
  <2>1. q = <<>>
    BY <1>8, EmptySeq
  <2> QED BY <1>2, <1>8, <2>1
<1>9. CASE n # 0
  <2>1. n \in 1..n
    BY <1>1, <1>9
  <2> QED BY <1>2, <1>7, <1>9, <2>1
<1> QED BY <1>8, <1>9

(* Everything and the patterns of modules are patterns.                    *)
LEMMA EverythingIsPattern ==
    /\ Everything \in PackagePatterns
    /\ <<Everything>> \in Seq(PackagePatterns) /\ <<Everything>> # <<>>
    /\ Distinct(<<Everything>>)
<1>1. <<>> \in Seq(STRING)
  BY EmptySeq
<1>2. Everything \in PackagePatterns
  BY <1>1 DEF Everything, PackagePatterns
<1>3. \A x : DOMAIN <<x>> = {1}
  OBVIOUS
<1> QED BY <1>2, <1>3 DEF Distinct

LEMMA OwnPatternsType ==
    ASSUME NEW m \in ConfigModules
    PROVE  /\ OwnPatterns(m) \in Seq(PackagePatterns) /\ OwnPatterns(m) # <<>>
           /\ Distinct(OwnPatterns(m))
<1>1. m.patterns \in Seq(PackagePatterns)
  BY DEF ConfigModules
<1> QED BY <1>1, EverythingIsPattern, CleanProperties DEF OwnPatterns

LEMMA JoinType ==
    ASSUME NEW r \in Seq(STRING), NEW p \in PackagePatterns
    PROVE  joinModulePattern(r, p) \in PackagePatterns
<1>1. p.dir \in Seq(STRING) /\ p.rest \in {"...", "self"} /\ p = [dir |-> p.dir, rest |-> p.rest]
  BY DEF PackagePatterns
<1>2. r \o p.dir \in Seq(STRING)
  BY <1>1, ConcatProperties
<1>3. joinModulePattern(r, p) = [dir |-> r \o p.dir, rest |-> p.rest]
  <2>1. PICK d \in Seq(STRING), e \in {"...", "self"} : p = [dir |-> d, rest |-> e]
    BY <1>1
  <2>2. joinModulePattern(r, [dir |-> d, rest |-> e]) = [dir |-> r \o d, rest |-> e]
    <3>1. \A x : [[dir |-> d, rest |-> e] EXCEPT !.dir = x] = [dir |-> x, rest |-> e]
      OBVIOUS
    <3>2. [dir |-> d, rest |-> e].dir = d
      OBVIOUS
    <3> QED BY <3>1, <3>2 DEF joinModulePattern
  <2>3. p.dir = d /\ p.rest = e
    BY <2>1
  <2> QED BY <2>1, <2>2, <2>3
<1> QED BY <1>1, <1>2, <1>3 DEF PackagePatterns

LEMMA ModulePatternsType ==
    ASSUME NEW modules \in Seq(ConfigModules)
    PROVE  modulePackagePatterns(modules) \in Seq(PackagePatterns)
<1> DEFINE n == Len(modules)
           Joined(i) == [j \in DOMAIN OwnPatterns(modules[i]) |->
                            joinModulePattern(modules[i].root, OwnPatterns(modules[i])[j])]
           q == [i \in DOMAIN modules |-> Joined(i)]
<1>1. n \in Nat /\ DOMAIN modules = 1..n /\ \A i \in 1..n : modules[i] \in ConfigModules
  BY LenProperties, ElementOfSeq
<1>2. ASSUME NEW i \in 1..n PROVE Joined(i) \in Seq(PackagePatterns)
  <2>1. PICK o \in Seq(PackagePatterns) : o = OwnPatterns(modules[i])
    BY <1>1, OwnPatternsType
  <2>2. modules[i].root \in Seq(STRING)
    BY <1>1 DEF ConfigModules
  <2>3. Len(o) \in Nat /\ DOMAIN o = 1..Len(o) /\ \A j \in 1..Len(o) : o[j] \in PackagePatterns
    BY LenProperties, ElementOfSeq
  <2>4. \A j \in 1..Len(o) : joinModulePattern(modules[i].root, o[j]) \in PackagePatterns
    BY <2>2, <2>3, JoinType
  <2>5. Joined(i) = [j \in 1..Len(o) |-> joinModulePattern(modules[i].root, o[j])]
    BY <2>1, <2>3
  <2> HIDE DEF Joined
  <2>6. Joined(i) \in [1..Len(o) -> PackagePatterns]
    BY <2>4, <2>5
  <2> QED BY <2>3, <2>6, FunctionIsSeq
<1> HIDE DEF Joined
<1>3. q \in [1..n -> Seq(PackagePatterns)]
  BY <1>1, <1>2
<1>4. q \in Seq(Seq(PackagePatterns))
  BY <1>1, <1>3, FunctionIsSeq
<1>5. FlattenSeq(q) \in Seq(PackagePatterns)
  BY <1>4, FlattenType
<1>6. modulePackagePatterns(modules) = cleanStringSlice(FlattenSeq(q))
  BY DEF modulePackagePatterns, Joined
<1> QED BY <1>5, <1>6, CleanProperties

-----------------------------------------------------------------------------
(* Normalising and laying one configuration over another.                  *)

(* A configuration that has patterns, as every suggestion does.            *)
IsFull(x) ==
    /\ x = [f \in Settings |-> x[f]]
    /\ x.modules \in (Seq(ConfigModules) \ {<<>>}) \cup {Unset}
    /\ x.patterns \in Seq(PackagePatterns)
    /\ x.capacity \in (Nat \ {0}) \cup {Unset}

NormalModules(ms) == [i \in DOMAIN ms |-> [ms[i] EXCEPT !.patterns = OwnPatterns(ms[i])]]

NormalPatterns(ps) ==
    IF cleanStringSlice(ps) = <<>> THEN <<Everything>> ELSE cleanStringSlice(ps)

LEMMA NormalModule ==
    ASSUME NEW m \in ConfigModules, NEW n, n = [m EXCEPT !.patterns = OwnPatterns(m)]
    PROVE  /\ n \in ConfigModules
           /\ [n EXCEPT !.patterns = OwnPatterns(n)] = n
<1>1. PICK r \in Seq(STRING), p \in Seq(PackagePatterns) : m = [root |-> r, patterns |-> p]
  BY DEF ConfigModules
<1>2. PICK o \in Seq(PackagePatterns) : o = OwnPatterns(m) /\ o # <<>> /\ Distinct(o)
  BY OwnPatternsType
<1>3. n = [root |-> r, patterns |-> o]
  BY <1>1, <1>2
<1>4. n.patterns = o
  BY <1>3
<1>5. OwnPatterns(n) = o
  BY <1>2, <1>4, CleanProperties DEF OwnPatterns
<1>6. n \in ConfigModules
  BY <1>3 DEF ConfigModules
<1>7. \A x : [[root |-> r, patterns |-> o] EXCEPT !.patterns = x] = [root |-> r, patterns |-> x]
  OBVIOUS
<1>8. [n EXCEPT !.patterns = OwnPatterns(n)] = [n EXCEPT !.patterns = o]
  BY <1>5
<1>9. [n EXCEPT !.patterns = o] = n
  BY <1>3, <1>7
<1> QED BY <1>6, <1>8, <1>9

LEMMA NormalModulesType ==
    ASSUME NEW ms \in Seq(ConfigModules) \ {<<>>}
    PROVE  /\ NormalModules(ms) \in Seq(ConfigModules) \ {<<>>}
           /\ NormalModules(NormalModules(ms)) = NormalModules(ms)
<1>1. /\ Len(ms) \in Nat /\ DOMAIN ms = 1..Len(ms) /\ Len(ms) # 0
      /\ \A i \in 1..Len(ms) : ms[i] \in ConfigModules
  BY LenProperties, ElementOfSeq, EmptySeq
<1> DEFINE ns == NormalModules(ms)
<1>2. /\ DOMAIN ns = 1..Len(ms)
      /\ \A i \in 1..Len(ms) : ns[i] = [ms[i] EXCEPT !.patterns = OwnPatterns(ms[i])]
      /\ ns = [i \in 1..Len(ms) |-> ns[i]]
  BY <1>1 DEF NormalModules
<1> HIDE DEF ns
<1>3. \A i \in 1..Len(ms) : /\ ns[i] \in ConfigModules
                            /\ [ns[i] EXCEPT !.patterns = OwnPatterns(ns[i])] = ns[i]
  BY <1>1, <1>2, NormalModule
<1>4. ns \in [1..Len(ms) -> ConfigModules]
  BY <1>2, <1>3
<1>5. ns \in Seq(ConfigModules) /\ Len(ns) = Len(ms)
  BY <1>1, <1>4, FunctionIsSeq
<1>6. NormalModules(ns) = ns
  BY <1>2, <1>3 DEF NormalModules
<1> QED BY <1>1, <1>5, <1>6, EmptySeq DEF ns

LEMMA NormalPatternsType ==
    ASSUME NEW ps \in Seq(PackagePatterns)
    PROVE  /\ NormalPatterns(ps) \in Seq(PackagePatterns) /\ NormalPatterns(ps) # <<>>
           /\ NormalPatterns(NormalPatterns(ps)) = NormalPatterns(ps)
<1>1. PICK q \in Seq(PackagePatterns) : q = NormalPatterns(ps) /\ q # <<>> /\ Distinct(q)
  BY CleanProperties, EverythingIsPattern DEF NormalPatterns
<1>2. cleanStringSlice(q) = q
  BY <1>1, CleanProperties
<1>3. NormalPatterns(q) = q
  BY <1>1, <1>2 DEF NormalPatterns
<1> QED BY <1>1, <1>3

LEMMA UnsetIsNoList ==
    /\ Unset \notin Seq(PackagePatterns) /\ Unset \notin Seq(ConfigModules)
    /\ Unset \notin Nat \ {0}
BY UnsetAssumption

LEMMA SettingNames ==
    /\ {"modules", "patterns", "capacity"} \subseteq Settings
    /\ DOMAIN Defaults = {"provider", "dimension", "debounce"}
    /\ \A f \in DOMAIN Defaults : f \in Settings /\ f \notin {"modules", "patterns", "capacity"}
BY DEF Settings, EmbeddingSettings, Defaults

NormalSetting(x, f) ==
    IF f = "modules" THEN IF x.modules = Unset THEN Unset ELSE NormalModules(x.modules)
    ELSE IF f = "patterns" THEN NormalPatterns(x.patterns)
    ELSE IF f \in DOMAIN Defaults /\ x[f] = Unset THEN Defaults[f]
    ELSE x[f]

(* Of a configuration with patterns, every setting is normalised by itself.*)
LEMMA NormalizeBySetting ==
    ASSUME NEW x, IsFull(x)
    PROVE  normalizeWorkspaceConfig(x) = [f \in Settings |-> NormalSetting(x, f)]
<1>1. x.patterns # Unset
  BY UnsetIsNoList DEF IsFull
<1> DEFINE modules == IF x.modules = Unset THEN Unset ELSE NormalModules(x.modules)
           patterns == CASE x.patterns # Unset -> cleanStringSlice(x.patterns)
                         [] x.patterns = Unset /\ modules # Unset -> modulePackagePatterns(modules)
                         [] OTHER -> <<Everything>>
           Setting(f) == CASE f = "modules" -> modules
                           [] f = "patterns" -> IF patterns = <<>> THEN <<Everything>> ELSE patterns
                           [] f \in DOMAIN Defaults /\ x[f] = Unset -> Defaults[f]
                           [] OTHER -> x[f]
<1>2. normalizeWorkspaceConfig(x) = [f \in Settings |-> Setting(f)]
  BY DEF normalizeWorkspaceConfig, NormalModules
<1>3. patterns = cleanStringSlice(x.patterns)
  BY <1>1
<1> HIDE DEF patterns
<1>4. ASSUME NEW f \in Settings PROVE Setting(f) = NormalSetting(x, f)
  <2>1. CASE f = "modules"
    <3>1. NormalSetting(x, f) = modules
      BY <2>1 DEF NormalSetting
    <3> HIDE DEF modules
    <3>2. f # "patterns" /\ f \notin DOMAIN Defaults
      BY <2>1, SettingNames
    <3>3. Setting(f) = modules
      BY <2>1, <3>2
    <3> QED BY <3>1, <3>3
  <2>2. CASE f = "patterns"
    BY <1>3, <2>2, SettingNames DEF NormalSetting, NormalPatterns
  <2>3. CASE f \notin {"modules", "patterns"}
    BY <2>3 DEF NormalSetting
  <2> QED BY <2>1, <2>2, <2>3
<1> HIDE DEF Setting
<1> QED BY <1>2, <1>4

LEMMA NormalIsFull ==
    ASSUME NEW x, IsFull(x)
    PROVE  /\ IsFull(normalizeWorkspaceConfig(x)) /\ IsConfig(normalizeWorkspaceConfig(x))
           /\ normalizeWorkspaceConfig(x).capacity = x.capacity
<1> DEFINE n == normalizeWorkspaceConfig(x)
<1>1. n = [f \in Settings |-> NormalSetting(x, f)]
  BY NormalizeBySetting
<1> HIDE DEF n
<1>2. n = [f \in Settings |-> n[f]]
  BY <1>1
<1>3. /\ n.modules = IF x.modules = Unset THEN Unset ELSE NormalModules(x.modules)
      /\ n.patterns = NormalPatterns(x.patterns)
      /\ n.capacity = x.capacity
  BY <1>1, SettingNames DEF NormalSetting
<1>4. n.modules \in (Seq(ConfigModules) \ {<<>>}) \cup {Unset}
  <2>1. CASE x.modules = Unset
    BY <1>3, <2>1
  <2>2. CASE x.modules # Unset
    BY <1>3, <2>2, NormalModulesType DEF IsFull
  <2> QED BY <2>1, <2>2
<1>5. n.patterns \in Seq(PackagePatterns) \ {<<>>}
  BY <1>3, NormalPatternsType DEF IsFull
<1>6. n.capacity \in (Nat \ {0}) \cup {Unset}
  BY <1>3 DEF IsFull
<1> QED BY <1>2, <1>3, <1>4, <1>5, <1>6 DEF IsFull, IsConfig, n

LEMMA OverlayIsFull ==
    ASSUME NEW x, NEW y, IsFull(x), IsConfig(y)
    PROVE  IsFull(Overlay(x, y))
<1> DEFINE o == Overlay(x, y)
<1>1. o = [f \in Settings |-> IF y[f] # Unset THEN y[f] ELSE x[f]]
  BY DEF Overlay
<1> HIDE DEF o
<1>2. /\ o = [f \in Settings |-> o[f]]
      /\ o.modules = IF y.modules # Unset THEN y.modules ELSE x.modules
      /\ o.patterns = IF y.patterns # Unset THEN y.patterns ELSE x.patterns
      /\ o.capacity = IF y.capacity # Unset THEN y.capacity ELSE x.capacity
  BY <1>1, SettingNames
<1>3. o.modules \in (Seq(ConfigModules) \ {<<>>}) \cup {Unset}
  BY <1>2 DEF IsFull, IsConfig
<1>4. o.patterns \in Seq(PackagePatterns)
  BY <1>2 DEF IsFull, IsConfig
<1>5. o.capacity \in (Nat \ {0}) \cup {Unset}
  BY <1>2 DEF IsFull, IsConfig
<1> QED BY <1>2, <1>3, <1>4, <1>5 DEF IsFull, o

(* No default that normalising fills in on the way overrides what a file   *)
(* says: it makes no difference whether the lower layer was normalised.    *)
LEMMA NormalizeOverlay ==
    ASSUME NEW x, NEW y, IsFull(x), IsConfig(y)
    PROVE  normalizeWorkspaceConfig(Overlay(normalizeWorkspaceConfig(x), y))
                = normalizeWorkspaceConfig(Overlay(x, y))
<1>1. PICK n : n = normalizeWorkspaceConfig(x)
  OBVIOUS
<1>2. IsFull(n) /\ n = [f \in Settings |-> NormalSetting(x, f)]
  BY <1>1, NormalIsFull, NormalizeBySetting
<1>3. PICK p, q : p = Overlay(n, y) /\ q = Overlay(x, y)
  OBVIOUS
<1>4. IsFull(p) /\ IsFull(q)
  BY <1>2, <1>3, OverlayIsFull
<1>5. /\ \A f \in Settings : p[f] = IF y[f] # Unset THEN y[f] ELSE n[f]
      /\ \A f \in Settings : q[f] = IF y[f] # Unset THEN y[f] ELSE x[f]
      /\ \A f \in Settings : n[f] = NormalSetting(x, f)
  BY <1>2, <1>3 DEF Overlay
<1>6. ASSUME NEW f \in Settings PROVE NormalSetting(p, f) = NormalSetting(q, f)
  <2>1. CASE y[f] # Unset
    <3>1. p[f] = q[f]
      BY <1>5, <2>1
    <3> QED BY <3>1 DEF NormalSetting
  <2>2. CASE y[f] = Unset
    <3>1. p[f] = NormalSetting(x, f) /\ q[f] = x[f]
      BY <1>5, <2>2
    <3>2. CASE f = "modules"
      <4>1. CASE x.modules = Unset
        BY <3>1, <3>2, <4>1 DEF NormalSetting
      <4>2. CASE x.modules # Unset
        <5>1. /\ NormalModules(x.modules) # Unset
              /\ NormalModules(NormalModules(x.modules)) = NormalModules(x.modules)
          BY <4>2, NormalModulesType, UnsetIsNoList DEF IsFull
        <5>2. p.modules = NormalModules(x.modules) /\ q.modules = x.modules
          BY <3>1, <3>2, <4>2 DEF NormalSetting
        <5> QED BY <3>2, <4>2, <5>1, <5>2 DEF NormalSetting
      <4> QED BY <4>1, <4>2
    <3>3. CASE f = "patterns"
      <4>1. p.patterns = NormalPatterns(x.patterns) /\ q.patterns = x.patterns
        BY <3>1, <3>3 DEF NormalSetting
      <4>2. NormalPatterns(NormalPatterns(x.patterns)) = NormalPatterns(x.patterns)
        BY NormalPatternsType DEF IsFull
      <4> QED BY <3>3, <4>1, <4>2 DEF NormalSetting
    <3>4. CASE f \notin {"modules", "patterns"}
      <4>1. f \in DOMAIN Defaults => Defaults[f] # Unset
        BY UnsetAssumption
      <4>2. \A z : NormalSetting(z, f) =
                    IF f \in DOMAIN Defaults /\ z[f] = Unset THEN Defaults[f] ELSE z[f]
        BY <3>4 DEF NormalSetting
      <4> HIDE DEF NormalSetting
      <4> QED BY <3>1, <4>1, <4>2
    <3> QED BY <3>2, <3>3, <3>4
  <2> QED BY <2>1, <2>2
<1>7. /\ normalizeWorkspaceConfig(p) = [f \in Settings |-> NormalSetting(p, f)]
      /\ normalizeWorkspaceConfig(q) = [f \in Settings |-> NormalSetting(q, f)]
  BY <1>4, NormalizeBySetting
<1> QED BY <1>1, <1>3, <1>6, <1>7

LEMMA NormalizeTwice ==
    ASSUME NEW x, IsFull(x)
    PROVE  normalizeWorkspaceConfig(normalizeWorkspaceConfig(x)) = normalizeWorkspaceConfig(x)
<1>1. IsConfig(Blank)
  BY SettingNames DEF IsConfig, Blank
<1>2. ASSUME NEW z, IsFull(z) PROVE Overlay(z, Blank) = z
  BY <1>2 DEF Overlay, Blank, IsFull
<1>3. IsFull(normalizeWorkspaceConfig(x))
  BY NormalIsFull
<1> QED BY <1>1, <1>2, <1>3, NormalizeOverlay

(* What a suggestion is made of, before it is normalised.                  *)
Suggested(w, ms, ps) ==
    [f \in Settings |-> IF f = "patterns" THEN ps
                        ELSE IF f = "modules" THEN ms
                        ELSE IF f = "workspace" THEN w
                        ELSE Unset]

LEMMA SuggestionIsFull ==
    ASSUME NEW w, NEW ms, ms = Unset \/ (ms \in Seq(ConfigModules) /\ ms # <<>>),
           NEW ps, ps \in Seq(PackagePatterns)
    PROVE  IsFull(Suggested(w, ms, ps)) /\ Suggested(w, ms, ps).capacity = Unset
<1>1. PICK x : x = Suggested(w, ms, ps)
  OBVIOUS
<1>2. /\ x = [f \in Settings |-> x[f]]
      /\ x.modules = ms /\ x.patterns = ps /\ x.capacity = Unset
  BY <1>1, SettingNames DEF Suggested
<1>3. IsFull(x)
  BY <1>2 DEF IsFull
<1> QED BY <1>1, <1>2, <1>3

LEMMA SuggestType ==
    ASSUME NEW t \in Trees
    PROVE  /\ IsFull(SuggestWorkspaceConfig(t)) /\ IsConfig(SuggestWorkspaceConfig(t))
           /\ SuggestWorkspaceConfig(t).capacity = Unset
           /\ normalizeWorkspaceConfig(SuggestWorkspaceConfig(t)) = SuggestWorkspaceConfig(t)
<1> DEFINE raw == CASE t.work # Unset -> suggestGoWorkConfig(t.work)
                    [] t.work = Unset /\ t.mod ->
                        [Blank EXCEPT !.workspace = "go_mod", !.patterns = <<Everything>>,
                                      !.modules = <<[root |-> <<>>, patterns |-> <<Everything>>]>>]
                    [] OTHER -> [Blank EXCEPT !.workspace = "auto", !.patterns = <<Everything>>]
<1>1. SuggestWorkspaceConfig(t) = normalizeWorkspaceConfig(raw)
  BY DEF SuggestWorkspaceConfig
<1>2. ASSUME NEW r \in Seq(STRING)
      PROVE  [root |-> r, patterns |-> <<Everything>>] \in ConfigModules
  BY <1>2, EverythingIsPattern DEF ConfigModules
<1>3. IsFull(raw) /\ raw.capacity = Unset
  <2>1. CASE t.work # Unset
    <3>1. t.work \in Seq(Seq(STRING))
      BY <2>1, TreesAssumption
    <3>2. PICK roots \in Seq(Seq(STRING)) : roots = t.work
      BY <3>1
    <3>3. /\ Len(roots) \in Nat /\ DOMAIN roots = 1..Len(roots)
          /\ \A i \in 1..Len(roots) : roots[i] \in Seq(STRING)
      BY LenProperties, ElementOfSeq
    <3>4. PICK ms : ms = [i \in 1..Len(roots) |-> [root |-> roots[i], patterns |-> <<Everything>>]]
      OBVIOUS
    <3>5. ms \in [1..Len(roots) -> ConfigModules]
      BY <1>2, <3>3, <3>4
    <3>6. ms \in Seq(ConfigModules)
      BY <3>3, <3>5, FunctionIsSeq
    <3>7. PICK ps \in Seq(PackagePatterns) : ps = modulePackagePatterns(ms)
      BY <3>6, ModulePatternsType
    <3>8. PICK some : some = IF ms = <<>> THEN Unset ELSE ms
      OBVIOUS
    <3>9. suggestGoWorkConfig(roots) = [Blank EXCEPT !.workspace = "go_work", !.modules = some,
                                                     !.patterns = ps]
      BY <3>3, <3>4, <3>7, <3>8 DEF suggestGoWorkConfig
    <3>10. raw = [Blank EXCEPT !.workspace = "go_work", !.modules = some, !.patterns = ps]
      BY <2>1, <3>2, <3>9
    <3> HIDE DEF raw
    <3>11. raw = Suggested("go_work", some, ps)
      BY <3>10 DEF Blank, Suggested
    <3>12. some = Unset \/ (some \in Seq(ConfigModules) /\ some # <<>>)
      BY <3>6, <3>8
    <3> QED BY <3>11, <3>12, SuggestionIsFull
  <2>2. CASE t.work = Unset /\ t.mod
    <3>1. PICK m \in ConfigModules : m = [root |-> <<>>, patterns |-> <<Everything>>]
      <4>1. <<>> \in Seq(STRING)
        BY EmptySeq
      <4> QED BY <1>2, <4>1
    <3>2. PICK ms : ms = <<m>> /\ ms \in Seq(ConfigModules) /\ ms # <<>>
      <4>1. [i \in 1..1 |-> m] \in Seq(ConfigModules) /\ Len([i \in 1..1 |-> m]) = 1
        BY FunctionIsSeq
      <4>2. <<m>> = [i \in 1..1 |-> m]
        OBVIOUS
      <4>3. PICK q : q = [i \in 1..1 |-> m]
        OBVIOUS
      <4> QED BY <4>1, <4>2, <4>3, EmptySeq
    <3>3. PICK ps \in Seq(PackagePatterns) : ps = <<Everything>>
      BY EverythingIsPattern
    <3>4. raw = [Blank EXCEPT !.workspace = "go_mod", !.patterns = ps, !.modules = ms]
      BY <2>2, <3>1, <3>2, <3>3
    <3> HIDE DEF raw
    <3>5. raw = Suggested("go_mod", ms, ps)
      BY <3>4 DEF Blank, Suggested
    <3> QED BY <3>2, <3>5, SuggestionIsFull
  <2>3. CASE t.work = Unset /\ ~t.mod
    <3>1. PICK ps \in Seq(PackagePatterns) : ps = <<Everything>>
      BY EverythingIsPattern
    <3>2. raw = [Blank EXCEPT !.workspace = "auto", !.patterns = ps]
      BY <2>3, <3>1
    <3> HIDE DEF raw
    <3>3. raw = Suggested("auto", Unset, ps)
      BY <3>2 DEF Blank, Suggested
    <3> QED BY <3>3, SuggestionIsFull
  <2> QED BY <2>1, <2>2, <2>3
<1> HIDE DEF raw
<1> QED BY <1>1, <1>3, NormalIsFull, NormalizeTwice

-----------------------------------------------------------------------------
(* What a call has merged, and what it answers, at each point of its way.  *)

LayersRead(a) == CASE a = "user" -> 0 [] a = "repo" -> 1 [] a = "project" -> 2 [] OTHER -> 3

Over(base, content) == IF content = Absent THEN base ELSE Overlay(base, content)

(* The suggestion under the first k of the files.                          *)
Laid(t, fl, k) ==
    IF k = 0 THEN SuggestWorkspaceConfig(t)
    ELSE IF k = 1 THEN Over(SuggestWorkspaceConfig(t), fl["user"])
    ELSE IF k = 2 THEN Over(Over(SuggestWorkspaceConfig(t), fl["user"]), fl["repo"])
    ELSE Over(Over(Over(SuggestWorkspaceConfig(t), fl["user"]), fl["repo"]), fl["project"])

Configured(fl, k) ==
    \E i \in 1..k : fl[Layers[i]] # Absent /\ hasExplicitEmbeddingsConfig(fl[Layers[i]])

ReadTools == {"analysis", "inspect", "settings"}
Answering == {"load", "dismiss", "reload", "reopen", "done"}

(* While nobody else changes a file, a call has merged just the files it   *)
(* has read, and its answer fits the state file whenever that is whole.    *)
Faithful(t, fl, nt, rq, a, m, e, ans) ==
    /\ \A i \in 1..LayersRead(a) : fl[Layers[i]] # Broken
    /\ m = normalizeWorkspaceConfig(Laid(t, fl, LayersRead(a)))
    /\ e = Configured(fl, LayersRead(a))
    /\ a \in Answering /\ rq.tool \in {"inspect", "settings"} =>
        /\ ans.dismissed = (nt = "dismissed")
        /\ ans.required = EmbeddingsSetupRequired(e, nt = "dismissed")

ToolOf(rq, a) ==
    /\ a \in {"open", "write"} => rq.tool = "init"
    /\ a = "resolve" => rq.tool = "analysis"
    /\ a \in {"load", "dismiss", "dismissing", "reload", "reopen", "reopening"}
            => rq.tool = "settings"

IsAnswer(ans) ==
    /\ ans = [required |-> ans.required, dismissed |-> ans.dismissed,
              patterns |-> ans.patterns, limit |-> ans.limit]

CallOK(q, t, fl, nt, rq, a, m, e, ans) ==
    /\ a = "idle" <=> rq = NoRequest
    /\ a # "idle" => rq \in Requests
    /\ a = "idle" => e = FALSE
    /\ ToolOf(rq, a)
    /\ IsConfig(m)
    /\ a \notin {"idle", "failed"} => IsFull(m)
    /\ e \in BOOLEAN
    /\ IsAnswer(ans)
    /\ q /\ rq.tool \in ReadTools /\ a # "failed" => Faithful(t, fl, nt, rq, a, m, e, ans)

FilesOK(t, fl, o, nt, cap, n) ==
    /\ t \in Trees
    /\ fl = [l \in ToSet(Layers) |-> fl[l]]
    /\ \A l \in ToSet(Layers) : fl[l] \in {Absent, Broken} \/ IsConfig(fl[l])
    /\ o \in Calls \cup {"editor"}
    /\ nt \in {Absent, "torn", "open", "dismissed"}
    /\ cap \in Nat \ {0}
    /\ n \in 0..MaxEdits

OfCalls(f) == f = [c \in Calls |-> f[c]]

CallFunctions(rq, a, m, e, ans) ==
    OfCalls(rq) /\ OfCalls(a) /\ OfCalls(m) /\ OfCalls(e) /\ OfCalls(ans)

LInv ==
    /\ FilesOK(tree, file, origin, notice, capacity, edits)
    /\ CallFunctions(request, at, merged, explicit, answer)
    /\ quiet \in [Calls -> BOOLEAN]
    /\ \A c \in Calls : CallOK(quiet[c], tree, file, notice,
                               request[c], at[c], merged[c], explicit[c], answer[c])

LEMMA LayerNames ==
    /\ Len(Layers) = 3 /\ DOMAIN Layers = 1..3
    /\ Layers[1] = "user" /\ Layers[2] = "repo" /\ Layers[3] = "project"
    /\ ToSet(Layers) = {"user", "repo", "project"}
<1>1. /\ Len(Layers) = 3 /\ DOMAIN Layers = 1..3
      /\ Layers[1] = "user" /\ Layers[2] = "repo" /\ Layers[3] = "project"
  BY DEF Layers
<1> QED BY <1>1 DEF ToSet

LEMMA BlankIsConfig == IsConfig(Blank)
BY SettingNames DEF IsConfig, Blank

LEMMA InitLayers == InitConfig => LInv
<1> SUFFICES ASSUME InitConfig PROVE LInv
  OBVIOUS
<1>1. FilesOK(tree, file, origin, notice, capacity, edits)
  <2>1. /\ file \in [ToSet(Layers) -> UNION {Contents[l] : l \in ToSet(Layers)}]
        /\ \A l \in ToSet(Layers) : file[l] \in Contents[l]
    BY DEF InitConfig
  <2>2. \A l \in ToSet(Layers) : file[l] \in {Absent, Broken} \/ IsConfig(file[l])
    BY <2>1, ContentsAssumption
  <2>3. tree \in Trees /\ origin = "editor" /\ notice = Absent /\ capacity = 1 /\ edits = 0
    BY DEF InitConfig
  <2> QED BY <2>1, <2>2, <2>3, MaxEditsAssumption DEF FilesOK
<1>2. CallFunctions(request, at, merged, explicit, answer)
  BY DEF InitConfig, CallFunctions, OfCalls
<1>3. quiet \in [Calls -> BOOLEAN]
  BY DEF InitConfig
<1>4. ASSUME NEW c \in Calls
      PROVE  CallOK(quiet[c], tree, file, notice,
                    request[c], at[c], merged[c], explicit[c], answer[c])
  <2>1. /\ request[c] = NoRequest /\ at[c] = "idle" /\ merged[c] = Blank /\ explicit[c] = FALSE
        /\ answer[c] = NoAnswer /\ quiet[c] = FALSE
    BY DEF InitConfig
  <2>2. IsAnswer(NoAnswer)
    BY DEF IsAnswer, NoAnswer
  <2>3. ToolOf(NoRequest, "idle")
    BY DEF ToolOf
  <2> QED BY <2>1, <2>2, <2>3, BlankIsConfig DEF CallOK
<1> QED BY <1>1, <1>2, <1>3, <1>4 DEF LInv

(* What another call does is either invisible to a call or disturbs it.    *)
LEMMA Undisturbed ==
    ASSUME NEW q, NEW p, NEW t, NEW fl, NEW gl, NEW nt, NEW mt,
           NEW rq, NEW a, NEW m, NEW e, NEW ans,
           CallOK(q, t, fl, nt, rq, a, m, e, ans),
           p => q /\ gl = fl /\ mt = nt
    PROVE  CallOK(p, t, gl, mt, rq, a, m, e, ans)
BY DEF CallOK

Moves(c, rq, a, m, e, ans) ==
    /\ request' = [request EXCEPT ![c] = rq] /\ at' = [at EXCEPT ![c] = a]
    /\ merged' = [merged EXCEPT ![c] = m] /\ explicit' = [explicit EXCEPT ![c] = e]
    /\ answer' = [answer EXCEPT ![c] = ans]

TellsOthers(c) ==
    /\ quiet' \in [Calls -> BOOLEAN]
    /\ \A d \in Calls : d # c /\ quiet'[d] => quiet[d] /\ file' = file /\ notice' = notice

LEMMA CallStep ==
    ASSUME NEW c \in Calls, LInv, NEW rq, NEW a, NEW m, NEW e, NEW ans,
           Moves(c, rq, a, m, e, ans), tree' = tree, TellsOthers(c),
           CallOK(quiet'[c], tree, file', notice', rq, a, m, e, ans),
           FilesOK(tree', file', origin', notice', capacity', edits')
    PROVE  LInv'
<1>1. CallFunctions(request, at, merged, explicit, answer)
  BY DEF LInv
<1>2. CallFunctions(request', at', merged', explicit', answer')
  BY <1>1 DEF Moves, CallFunctions, OfCalls
<1>3. ASSUME NEW d \in Calls
      PROVE  CallOK(quiet'[d], tree', file', notice',
                    request'[d], at'[d], merged'[d], explicit'[d], answer'[d])
  <2>1. CASE d = c
    <3>1. /\ request'[c] = rq /\ at'[c] = a /\ merged'[c] = m /\ explicit'[c] = e
          /\ answer'[c] = ans
      BY <1>1 DEF Moves, CallFunctions, OfCalls
    <3> QED BY <2>1, <3>1
  <2>2. CASE d # c
    <3>1. /\ request'[d] = request[d] /\ at'[d] = at[d] /\ merged'[d] = merged[d]
          /\ explicit'[d] = explicit[d] /\ answer'[d] = answer[d]
      BY <1>1, <2>2 DEF Moves, CallFunctions, OfCalls
    <3>2. CallOK(quiet[d], tree, file, notice,
                 request[d], at[d], merged[d], explicit[d], answer[d])
      BY DEF LInv
    <3>3. quiet'[d] => quiet[d] /\ file' = file /\ notice' = notice
      BY <2>2 DEF TellsOthers
    <3>4. CallOK(quiet'[d], tree, file', notice',
                 request[d], at[d], merged[d], explicit[d], answer[d])
      BY <3>2, <3>3, Undisturbed
    <3> QED BY <3>1, <3>4
  <2> QED BY <2>1, <2>2
<1> QED BY <1>2, <1>3 DEF LInv, TellsOthers

LEMMA Unchanging ==
    ASSUME NEW c \in Calls, NEW f, OfCalls(f)
    PROVE  f = [f EXCEPT ![c] = f[c]]
BY DEF OfCalls

LEMMA LaidNext ==
    ASSUME NEW t, NEW fl, NEW i \in 1..3
    PROVE  Laid(t, fl, i) = Over(Laid(t, fl, i - 1), fl[Layers[i]])
<1>1. CASE i = 1
  BY <1>1, LayerNames DEF Laid
<1>2. CASE i = 2
  BY <1>2, LayerNames DEF Laid
<1>3. CASE i = 3
  BY <1>3, LayerNames DEF Laid
<1> QED BY <1>1, <1>2, <1>3

LEMMA LaidIsFull ==
    ASSUME NEW t \in Trees, NEW fl,
           \A l \in ToSet(Layers) : fl[l] \in {Absent, Broken} \/ IsConfig(fl[l]),
           NEW k \in 0..3, \A i \in 1..k : fl[Layers[i]] # Broken
    PROVE  IsFull(Laid(t, fl, k))
<1>1. ASSUME NEW x, IsFull(x), NEW i \in 1..k PROVE IsFull(Over(x, fl[Layers[i]]))
  <2>1. Layers[i] \in ToSet(Layers)
    BY LayerNames
  <2>2. fl[Layers[i]] = Absent \/ IsConfig(fl[Layers[i]])
    BY <2>1
  <2> QED BY <1>1, <2>2, OverlayIsFull DEF Over
<1>2. IsFull(SuggestWorkspaceConfig(t))
  BY SuggestType
<1>3. k >= 1 => IsFull(Over(SuggestWorkspaceConfig(t), fl["user"]))
  BY <1>1, <1>2, LayerNames
<1>4. k >= 2 => IsFull(Over(Over(SuggestWorkspaceConfig(t), fl["user"]), fl["repo"]))
  BY <1>1, <1>3, LayerNames
<1>5. k = 3 => IsFull(Over(Over(Over(SuggestWorkspaceConfig(t), fl["user"]), fl["repo"]), fl["project"]))
  BY <1>1, <1>4, LayerNames
<1> QED BY <1>2, <1>3, <1>4, <1>5 DEF Laid

LEMMA BeginLayers ==
    ASSUME NEW c \in Calls, NEW r \in Requests, LInv, Begin(c, r)
    PROVE  LInv'
<1> DEFINE a == IF ~tree.sound THEN "failed" ELSE IF r.tool = "init" THEN "open" ELSE "user"
           m == IF tree.sound THEN SuggestWorkspaceConfig(tree) ELSE Blank
<1>1. /\ at[c] = "idle" /\ request' = [request EXCEPT ![c] = r]
      /\ at' = [at EXCEPT ![c] = a] /\ merged' = [merged EXCEPT ![c] = m]
      /\ quiet' = [quiet EXCEPT ![c] = TRUE]
      /\ UNCHANGED <<tree, file, origin, notice, edits, capacity, explicit, answer>>
  BY DEF Begin, Goes, files
<1>2. /\ FilesOK(tree, file, origin, notice, capacity, edits)
      /\ CallFunctions(request, at, merged, explicit, answer)
      /\ quiet \in [Calls -> BOOLEAN]
      /\ CallOK(quiet[c], tree, file, notice,
                request[c], at[c], merged[c], explicit[c], answer[c])
  BY DEF LInv
<1>3. /\ explicit' = [explicit EXCEPT ![c] = explicit[c]]
      /\ answer' = [answer EXCEPT ![c] = answer[c]]
  BY <1>1, <1>2, Unchanging DEF CallFunctions
<1>4. tree \in Trees
  BY <1>2 DEF FilesOK
<1>5. explicit[c] = FALSE /\ IsAnswer(answer[c])
  BY <1>1, <1>2 DEF CallOK
<1>6. r # NoRequest /\ (tree.sound => (r.tool = "init" <=> a = "open"))
  BY RequestsAssumption DEF NoRequest
<1>7. IsConfig(m) /\ (a # "failed" => IsFull(m))
  BY <1>4, SuggestType, BlankIsConfig
<1>8. ToolOf(r, a)
  BY <1>6 DEF ToolOf
<1>9. r.tool \in ReadTools /\ a # "failed" => Faithful(tree, file, notice, r, a, m, FALSE, answer[c])
  <2>1. SUFFICES ASSUME r.tool \in ReadTools, a # "failed"
                 PROVE  Faithful(tree, file, notice, r, a, m, FALSE, answer[c])
    OBVIOUS
  <2>2. a = "user" /\ m = SuggestWorkspaceConfig(tree)
    BY <2>1 DEF ReadTools
  <2>3. LayersRead("user") = 0
    BY DEF LayersRead
  <2>4. Laid(tree, file, 0) = SuggestWorkspaceConfig(tree)
    BY DEF Laid
  <2>5. Configured(file, 0) = FALSE
    BY DEF Configured
  <2>6. normalizeWorkspaceConfig(SuggestWorkspaceConfig(tree)) = SuggestWorkspaceConfig(tree)
    BY <1>4, SuggestType
  <2>7. "user" \notin Answering
    BY DEF Answering
  <2> HIDE DEF a, m
  <2>8. LayersRead(a) = 0 /\ a \notin Answering
    BY <2>2, <2>3, <2>7
  <2>9. \A i \in 1..LayersRead(a) : file[Layers[i]] # Broken
    BY <2>8
  <2>10. m = normalizeWorkspaceConfig(Laid(tree, file, LayersRead(a)))
    BY <2>2, <2>4, <2>6, <2>8
  <2>11. FALSE = Configured(file, LayersRead(a))
    BY <2>5, <2>8
  <2> QED BY <2>8, <2>9, <2>10, <2>11 DEF Faithful
<1>10. a # "idle"
  OBVIOUS
<1> HIDE DEF a, m
<1>11. CallOK(TRUE, tree, file, notice, r, a, m, FALSE, answer[c])
  BY <1>5, <1>6, <1>7, <1>8, <1>9, <1>10 DEF CallOK
<1>12. quiet' \in [Calls -> BOOLEAN] /\ quiet'[c] = TRUE /\ \A d \in Calls : d # c => quiet'[d] = quiet[d]
  BY <1>1, <1>2
<1>13. CallOK(quiet'[c], tree, file', notice', r, a, m, explicit[c], answer[c])
  BY <1>1, <1>5, <1>11, <1>12
<1>14. FilesOK(tree', file', origin', notice', capacity', edits')
  BY <1>1, <1>2
<1>15. Moves(c, r, a, m, explicit[c], answer[c])
  BY <1>1, <1>3 DEF Moves
<1>16. TellsOthers(c) /\ tree' = tree
  BY <1>1, <1>12 DEF TellsOthers
<1> QED BY <1>13, <1>14, <1>15, <1>16, CallStep

LEMMA ReadLayers ==
    ASSUME NEW c \in Calls, LInv, loadOptionalWorkspaceConfigWithRaw(c)
    PROVE  LInv'
<1>1. PICK i \in DOMAIN Layers :
        LET l     == Layers[i]
            after == IF i < Len(Layers) THEN Layers[i + 1]
                     ELSE IF request[c].tool = "analysis" THEN "resolve" ELSE "inspect"
        IN  /\ at[c] = l
            /\ Goes(c, IF file[l] = Broken THEN "failed" ELSE after)
            /\ IF file[l] \in {Absent, Broken}
               THEN UNCHANGED <<merged, explicit>>
               ELSE /\ merged' = [merged EXCEPT ![c] = mergeWorkspaceConfig(@, file[l])]
                    /\ explicit' = [explicit EXCEPT ![c] = @ \/ hasExplicitEmbeddingsConfig(file[l])]
            /\ UNCHANGED <<files, capacity, request, existed, answer, quiet>>
  BY DEF loadOptionalWorkspaceConfigWithRaw
<1> DEFINE l == Layers[i]
           after == IF i < Len(Layers) THEN Layers[i + 1]
                    ELSE IF request[c].tool = "analysis" THEN "resolve" ELSE "inspect"
           a == IF file[l] = Broken THEN "failed" ELSE after
           m == IF file[l] \in {Absent, Broken} THEN merged[c]
                ELSE mergeWorkspaceConfig(merged[c], file[l])
           e == IF file[l] \in {Absent, Broken} THEN explicit[c]
                ELSE explicit[c] \/ hasExplicitEmbeddingsConfig(file[l])
<1>2. /\ FilesOK(tree, file, origin, notice, capacity, edits)
      /\ CallFunctions(request, at, merged, explicit, answer)
      /\ quiet \in [Calls -> BOOLEAN]
      /\ CallOK(quiet[c], tree, file, notice,
                request[c], at[c], merged[c], explicit[c], answer[c])
  BY DEF LInv
<1>3. /\ at[c] = l /\ at' = [at EXCEPT ![c] = a]
      /\ UNCHANGED <<tree, file, origin, notice, edits, capacity, request, answer, quiet>>
  BY <1>1 DEF Goes, files
<1>4. merged' = [merged EXCEPT ![c] = m] /\ explicit' = [explicit EXCEPT ![c] = e]
  <2>1. CASE file[l] \in {Absent, Broken}
    BY <1>1, <1>2, <2>1, Unchanging DEF CallFunctions
  <2>2. CASE file[l] \notin {Absent, Broken}
    BY <1>1, <2>2
  <2> QED BY <2>1, <2>2
<1>5. request' = [request EXCEPT ![c] = request[c]] /\ answer' = [answer EXCEPT ![c] = answer[c]]
  BY <1>2, <1>3, Unchanging DEF CallFunctions
<1>6. /\ i \in 1..3 /\ l \in ToSet(Layers) /\ LayersRead(l) = i - 1 /\ LayersRead(after) = i
      /\ after \in {"repo", "project", "resolve", "inspect"}
      /\ after = "resolve" => request[c].tool = "analysis"
  <2>1. i \in {1, 2, 3}
    BY LayerNames
  <2>2. /\ LayersRead("user") = 0 /\ LayersRead("repo") = 1 /\ LayersRead("project") = 2
        /\ LayersRead("resolve") = 3 /\ LayersRead("inspect") = 3
    BY DEF LayersRead
  <2>3. CASE i = 1
    BY <2>2, <2>3, LayerNames
  <2>4. CASE i = 2
    BY <2>2, <2>4, LayerNames
  <2>5. CASE i = 3
    <3>1. after = IF request[c].tool = "analysis" THEN "resolve" ELSE "inspect"
      BY <2>5, LayerNames
    <3> QED BY <2>2, <2>5, <3>1, LayerNames
  <2> QED BY <2>1, <2>3, <2>4, <2>5
<1>7. at[c] \notin {"idle", "failed"} /\ request[c] \in Requests /\ request[c] # NoRequest
  BY <1>2, <1>3, <1>6, LayerNames DEF CallOK
<1>8. IsConfig(merged[c]) /\ IsFull(merged[c]) /\ explicit[c] \in BOOLEAN /\ IsAnswer(answer[c])
  BY <1>2, <1>7 DEF CallOK
<1>9. file[l] \in {Absent, Broken} \/ IsConfig(file[l])
  BY <1>2, <1>6 DEF FilesOK
<1>10. IsConfig(m) /\ IsFull(m) /\ e \in BOOLEAN
  <2>1. CASE file[l] \in {Absent, Broken}
    BY <1>8, <2>1
  <2>2. CASE file[l] \notin {Absent, Broken}
    <3>1. IsFull(Overlay(merged[c], file[l]))
      BY <1>8, <1>9, <2>2, OverlayIsFull
    <3>2. IsConfig(m) /\ IsFull(m)
      BY <2>2, <3>1, NormalIsFull DEF mergeWorkspaceConfig
    <3> QED BY <1>8, <2>2, <3>2 DEF hasExplicitEmbeddingsConfig
  <2> QED BY <2>1, <2>2
<1>11. ASSUME quiet[c], request[c].tool \in ReadTools, a # "failed"
       PROVE  Faithful(tree, file, notice, request[c], a, m, e, answer[c])
  <2>1. Faithful(tree, file, notice, request[c], l, merged[c], explicit[c], answer[c])
    BY <1>2, <1>3, <1>7, <1>11 DEF CallOK
  <2>2. a = after /\ file[l] # Broken
    BY <1>11
  <2> HIDE DEF after, a, m, e
  <2>3. LayersRead(a) = i /\ a \notin Answering
    BY <1>6, <2>2 DEF Answering
  <2>4. /\ \A j \in 1..(i - 1) : file[Layers[j]] # Broken
        /\ merged[c] = normalizeWorkspaceConfig(Laid(tree, file, i - 1))
        /\ explicit[c] = Configured(file, i - 1)
    BY <1>6, <2>1 DEF Faithful
  <2>5. \A j \in 1..i : file[Layers[j]] # Broken
    BY <1>6, <2>2, <2>4
  <2>6. m = normalizeWorkspaceConfig(Laid(tree, file, i))
    <3>1. PICK before : before = Laid(tree, file, i - 1)
      OBVIOUS
    <3>2. IsFull(before)
      <4>1. i - 1 \in 0..3 /\ tree \in Trees
        BY <1>2, <1>6 DEF FilesOK
      <4>2. \A k \in ToSet(Layers) : file[k] \in {Absent, Broken} \/ IsConfig(file[k])
        BY <1>2 DEF FilesOK
      <4> QED BY <2>4, <3>1, <4>1, <4>2, LaidIsFull
    <3>3. Laid(tree, file, i) = Over(before, file[l])
      BY <1>6, <3>1, LaidNext
    <3>4. CASE file[l] = Absent
      <4>1. m = merged[c]
        BY <3>4 DEF m
      <4> QED BY <2>4, <3>1, <3>3, <3>4, <4>1 DEF Over
    <3>5. CASE file[l] # Absent
      <4>1. IsConfig(file[l]) /\ file[l] \notin {Absent, Broken}
        BY <1>9, <2>2, <3>5
      <4>2. m = normalizeWorkspaceConfig(Overlay(normalizeWorkspaceConfig(before), file[l]))
        BY <2>4, <3>1, <4>1 DEF m, mergeWorkspaceConfig
      <4>3. Laid(tree, file, i) = Overlay(before, file[l])
        BY <3>3, <3>5 DEF Over
      <4> QED BY <3>2, <4>1, <4>2, <4>3, NormalizeOverlay
    <3> QED BY <3>4, <3>5
  <2>7. e = Configured(file, i)
    <3>1. 1..i = 1..(i - 1) \cup {i}
      BY <1>6
    <3>2. Configured(file, i) = (\/ Configured(file, i - 1)
                                 \/ file[l] # Absent /\ hasExplicitEmbeddingsConfig(file[l]))
      BY <3>1 DEF Configured
    <3>3. CASE file[l] = Absent
      <4>1. e = explicit[c]
        BY <3>3 DEF e
      <4>2. Configured(file, i) <=> Configured(file, i - 1)
        BY <3>2, <3>3
      <4>3. Configured(file, i) = Configured(file, i - 1)
        BY <4>2 DEF Configured
      <4> QED BY <2>4, <4>1, <4>3
    <3>4. CASE file[l] # Absent
      <4>1. e = (explicit[c] \/ hasExplicitEmbeddingsConfig(file[l]))
        BY <2>2, <3>4 DEF e
      <4> QED BY <2>4, <3>2, <3>4, <4>1
    <3> QED BY <3>3, <3>4
  <2> QED BY <2>3, <2>5, <2>6, <2>7 DEF Faithful
<1>12. a # "idle" /\ ToolOf(request[c], a)
  BY <1>6 DEF ToolOf
<1> HIDE DEF a, m, e, after, l
<1>13. CallOK(quiet[c], tree, file, notice, request[c], a, m, e, answer[c])
  BY <1>7, <1>8, <1>10, <1>11, <1>12 DEF CallOK
<1>14. quiet' \in [Calls -> BOOLEAN] /\ \A d \in Calls : quiet'[d] = quiet[d]
  BY <1>2, <1>3
<1>15. CallOK(quiet'[c], tree, file', notice', request[c], a, m, e, answer[c])
  BY <1>3, <1>13
<1>16. FilesOK(tree', file', origin', notice', capacity', edits')
  BY <1>2, <1>3
<1>17. Moves(c, request[c], a, m, e, answer[c])
  BY <1>3, <1>4, <1>5 DEF Moves
<1>18. TellsOthers(c) /\ tree' = tree
  BY <1>3, <1>14 DEF TellsOthers
<1> QED BY <1>15, <1>16, <1>17, <1>18, CallStep

(* The answers f with other parts in the answer of c.                      *)
Told(f, c, d, r) == [f EXCEPT ![c].dismissed = d, ![c].required = r]
Given(f, c, p, l) == [f EXCEPT ![c].patterns = p, ![c].limit = l]

LEMMA AnswerParts ==
    ASSUME NEW c \in Calls, NEW f, OfCalls(f), IsAnswer(f[c]), NEW x, NEW y
    PROVE  /\ Told(f, c, x, y) = [f EXCEPT ![c] = [required |-> y, dismissed |-> x,
                                    patterns |-> f[c].patterns, limit |-> f[c].limit]]
           /\ Given(f, c, x, y) = [f EXCEPT ![c] = [required |-> f[c].required,
                                    dismissed |-> f[c].dismissed, patterns |-> x, limit |-> y]]
<1>1. PICK r, d, p, l : f[c] = [required |-> r, dismissed |-> d, patterns |-> p, limit |-> l]
  BY DEF IsAnswer
<1>2. f[c].required = r /\ f[c].dismissed = d /\ f[c].patterns = p /\ f[c].limit = l
  BY <1>1
<1>3. PICK s : s = [required |-> r, dismissed |-> d, patterns |-> p, limit |-> l]
  OBVIOUS
<1>4. /\ [s EXCEPT !.dismissed = x, !.required = y]
            = [required |-> y, dismissed |-> x, patterns |-> p, limit |-> l]
      /\ [s EXCEPT !.patterns = x, !.limit = y]
            = [required |-> r, dismissed |-> d, patterns |-> x, limit |-> y]
  <2>1. /\ [s EXCEPT !.dismissed = x, !.required = y]
                = [[s EXCEPT !.dismissed = x] EXCEPT !.required = y]
        /\ [s EXCEPT !.patterns = x, !.limit = y] = [[s EXCEPT !.patterns = x] EXCEPT !.limit = y]
    OBVIOUS
  <2>2. PICK u, v : u = [s EXCEPT !.dismissed = x] /\ v = [s EXCEPT !.patterns = x]
    OBVIOUS
  <2>3. u = [required |-> r, dismissed |-> x, patterns |-> p, limit |-> l]
    BY <1>3, <2>2
  <2>4. v = [required |-> r, dismissed |-> d, patterns |-> x, limit |-> l]
    BY <1>3, <2>2
  <2>5. [u EXCEPT !.required = y] = [required |-> y, dismissed |-> x, patterns |-> p, limit |-> l]
    BY <2>3
  <2>6. [v EXCEPT !.limit = y] = [required |-> r, dismissed |-> d, patterns |-> x, limit |-> y]
    BY <2>4
  <2> QED BY <2>1, <2>2, <2>5, <2>6
<1>5. c \in DOMAIN f /\ f[c] = s
  BY <1>1, <1>3 DEF OfCalls
<1>6. Told(f, c, x, y) = [f EXCEPT ![c] = [s EXCEPT !.dismissed = x, !.required = y]]
  BY <1>5 DEF Told
<1>7. Given(f, c, x, y) = [f EXCEPT ![c] = [s EXCEPT !.patterns = x, !.limit = y]]
  BY <1>5 DEF Given
<1> QED BY <1>2, <1>4, <1>6, <1>7

LEMMA NewAnswer ==
    \A r, d, p, l : /\ IsAnswer([required |-> r, dismissed |-> d, patterns |-> p, limit |-> l])
                    /\ [required |-> r, dismissed |-> d, patterns |-> p, limit |-> l].dismissed = d
                    /\ [required |-> r, dismissed |-> d, patterns |-> p, limit |-> l].required = r
BY DEF IsAnswer

(* A step of a call that has merged all it wants, and changes no file.     *)
LEMMA PassLayers ==
    ASSUME NEW c \in Calls, LInv, NEW a, NEW ans,
           at' = [at EXCEPT ![c] = a], answer' = [answer EXCEPT ![c] = ans],
           UNCHANGED <<tree, file, origin, edits, request, merged, explicit>>,
           capacity' \in Nat \ {0}, notice' \in {Absent, "torn", "open", "dismissed"},
           quiet' \in [Calls -> BOOLEAN], quiet'[c] => quiet[c],
           \A d \in Calls : d # c /\ quiet'[d] => quiet[d] /\ notice' = notice,
           at[c] \notin {"idle", "failed"}, a # "idle",
           ToolOf(request[c], a), IsAnswer(ans),
           request[c].tool \in ReadTools /\ a # "failed"
                => LayersRead(at[c]) = 3 /\ LayersRead(a) = 3,
           quiet'[c] /\ a \in Answering /\ request[c].tool \in {"inspect", "settings"} =>
                /\ ans.dismissed = (notice' = "dismissed")
                /\ ans.required = EmbeddingsSetupRequired(explicit[c], notice' = "dismissed")
    PROVE  LInv'
<1>1. /\ FilesOK(tree, file, origin, notice, capacity, edits)
      /\ CallFunctions(request, at, merged, explicit, answer)
      /\ CallOK(quiet[c], tree, file, notice,
                request[c], at[c], merged[c], explicit[c], answer[c])
  BY DEF LInv
<1>2. /\ request' = [request EXCEPT ![c] = request[c]]
      /\ merged' = [merged EXCEPT ![c] = merged[c]]
      /\ explicit' = [explicit EXCEPT ![c] = explicit[c]]
  BY <1>1, Unchanging DEF CallFunctions
<1>3. ASSUME quiet'[c], request[c].tool \in ReadTools, a # "failed"
      PROVE  Faithful(tree, file, notice', request[c], a, merged[c], explicit[c], ans)
  <2>1. Faithful(tree, file, notice, request[c], at[c], merged[c], explicit[c], answer[c])
    BY <1>1, <1>3 DEF CallOK
  <2>2. LayersRead(at[c]) = 3 /\ LayersRead(a) = 3
    BY <1>3
  <2>3. /\ \A i \in 1..LayersRead(a) : file[Layers[i]] # Broken
        /\ merged[c] = normalizeWorkspaceConfig(Laid(tree, file, LayersRead(a)))
        /\ explicit[c] = Configured(file, LayersRead(a))
    BY <2>1, <2>2 DEF Faithful
  <2>4. a \in Answering /\ request[c].tool \in {"inspect", "settings"} =>
            /\ ans.dismissed = (notice' = "dismissed")
            /\ ans.required = EmbeddingsSetupRequired(explicit[c], notice' = "dismissed")
    BY <1>3
  <2> QED BY <2>3, <2>4 DEF Faithful
<1>4. /\ request[c] # NoRequest /\ request[c] \in Requests
      /\ IsConfig(merged[c]) /\ IsFull(merged[c]) /\ explicit[c] \in BOOLEAN
  BY <1>1 DEF CallOK
<1>5. CallOK(quiet'[c], tree, file, notice', request[c], a, merged[c], explicit[c], ans)
  BY <1>3, <1>4 DEF CallOK
<1>6. FilesOK(tree', file', origin', notice', capacity', edits')
  BY <1>1 DEF FilesOK
<1>7. file' = file /\ tree' = tree
  OBVIOUS
<1>8. CallOK(quiet'[c], tree, file', notice', request[c], a, merged[c], explicit[c], ans)
  BY <1>5, <1>7
<1>9. TellsOthers(c)
  BY <1>7 DEF TellsOthers
<1>10. Moves(c, request[c], a, merged[c], explicit[c], ans)
  BY <1>2 DEF Moves
<1> QED BY <1>6, <1>7, <1>8, <1>9, <1>10, CallStep

LEMMA AfterReading ==
    \A a : a \notin {"user", "repo", "project"} => LayersRead(a) = 3
BY DEF LayersRead

(* What is known of a call at work.                                        *)
LEMMA CallFacts ==
    ASSUME LInv, NEW c \in Calls, at[c] \notin {"idle", "failed"}
    PROVE  /\ OfCalls(at) /\ OfCalls(answer) /\ OfCalls(merged)
           /\ request[c] \in Requests /\ ToolOf(request[c], at[c])
           /\ IsAnswer(answer[c]) /\ IsConfig(merged[c]) /\ IsFull(merged[c])
           /\ explicit[c] \in BOOLEAN
           /\ quiet \in [Calls -> BOOLEAN]
           /\ FilesOK(tree, file, origin, notice, capacity, edits)
           /\ CallOK(quiet[c], tree, file, notice,
                     request[c], at[c], merged[c], explicit[c], answer[c])
<1>1. /\ CallFunctions(request, at, merged, explicit, answer)
      /\ quiet \in [Calls -> BOOLEAN]
      /\ FilesOK(tree, file, origin, notice, capacity, edits)
      /\ CallOK(quiet[c], tree, file, notice,
                request[c], at[c], merged[c], explicit[c], answer[c])
  BY DEF LInv
<1>2. OfCalls(at) /\ OfCalls(answer) /\ OfCalls(merged)
  BY <1>1 DEF CallFunctions
<1> QED BY <1>1, <1>2 DEF CallOK

LEMMA ResolveLayers ==
    ASSUME NEW c \in Calls, LInv, resolveAnalysisDefaults(c)
    PROVE  LInv'
<1>1. /\ at[c] = "resolve" /\ at' = [at EXCEPT ![c] = "done"]
      /\ capacity' = IF merged[c].capacity # Unset THEN merged[c].capacity ELSE capacity
      /\ UNCHANGED <<tree, file, origin, notice, edits, request, merged, explicit, quiet>>
  BY DEF resolveAnalysisDefaults, Goes, files
<1>2. PICK x, y : answer' = Given(answer, c, x, y)
  BY DEF resolveAnalysisDefaults, Given
<1>3. /\ OfCalls(answer) /\ ToolOf(request[c], at[c]) /\ IsAnswer(answer[c])
      /\ IsConfig(merged[c]) /\ quiet \in [Calls -> BOOLEAN]
      /\ FilesOK(tree, file, origin, notice, capacity, edits)
  BY <1>1, CallFacts
<1> DEFINE ans == [required |-> answer[c].required, dismissed |-> answer[c].dismissed,
                   patterns |-> x, limit |-> y]
<1>4. answer' = [answer EXCEPT ![c] = ans]
  BY <1>2, <1>3, AnswerParts
<1>5. IsAnswer(ans)
  BY NewAnswer
<1> HIDE DEF ans
<1>6. capacity' \in Nat \ {0} /\ notice' \in {Absent, "torn", "open", "dismissed"}
  BY <1>1, <1>3 DEF FilesOK, IsConfig
<1>7. request[c].tool = "analysis"
  BY <1>1, <1>3 DEF ToolOf
<1>8. ToolOf(request[c], "done")
  BY DEF ToolOf
<1>9. LayersRead("resolve") = 3 /\ LayersRead("done") = 3
  BY AfterReading
<1>10. /\ quiet' \in [Calls -> BOOLEAN] /\ (quiet'[c] => quiet[c])
       /\ \A d \in Calls : d # c /\ quiet'[d] => quiet[d] /\ notice' = notice
  BY <1>1, <1>3
<1>11. request[c].tool \notin {"inspect", "settings"}
  BY <1>7
<1> QED BY <1>1, <1>4, <1>5, <1>6, <1>8, <1>9, <1>10, <1>11, PassLayers

LEMMA AnswerHolds ==
    ASSUME NEW c \in Calls, LInv, at[c] \notin {"idle", "failed"}, quiet[c],
           request[c].tool \in {"inspect", "settings"}, at[c] \in Answering
    PROVE  /\ answer[c].dismissed = (notice = "dismissed")
           /\ answer[c].required = EmbeddingsSetupRequired(explicit[c], notice = "dismissed")
<1>1. CallOK(quiet[c], tree, file, notice,
             request[c], at[c], merged[c], explicit[c], answer[c])
  BY CallFacts
<1>2. request[c].tool \in ReadTools
  BY DEF ReadTools
<1>3. Faithful(tree, file, notice, request[c], at[c], merged[c], explicit[c], answer[c])
  BY <1>1, <1>2 DEF CallOK
<1> QED BY <1>3 DEF Faithful

LEMMA DisturbTells ==
    ASSUME NEW c \in Calls, quiet \in [Calls -> BOOLEAN], Disturb(c)
    PROVE  /\ quiet' \in [Calls -> BOOLEAN] /\ (quiet'[c] => quiet[c])
           /\ \A d \in Calls : d # c => ~quiet'[d]
BY DEF Disturb

LEMMA InspectLayers ==
    ASSUME NEW c \in Calls, LInv, Inspect(c)
    PROVE  LInv'
<1> DEFINE a == CASE notice = "torn" -> "failed"
                  [] notice # "torn" /\ request[c].tool = "settings" -> "load"
                  [] OTHER -> "done"
           d == notice = "dismissed"
           r == EmbeddingsSetupRequired(explicit[c], notice = "dismissed")
<1>1. /\ at[c] = "inspect" /\ at' = [at EXCEPT ![c] = a]
      /\ UNCHANGED <<tree, file, origin, notice, edits, capacity, request, merged, explicit, quiet>>
  BY DEF Inspect, Goes, files
<1>2. answer' = IF notice = "torn" THEN answer ELSE Told(answer, c, d, r)
  BY DEF Inspect, Told
<1>3. /\ OfCalls(answer) /\ IsAnswer(answer[c])
      /\ quiet \in [Calls -> BOOLEAN]
      /\ FilesOK(tree, file, origin, notice, capacity, edits)
  BY <1>1, CallFacts
<1>4. capacity' \in Nat \ {0} /\ notice' \in {Absent, "torn", "open", "dismissed"}
  BY <1>1, <1>3 DEF FilesOK
<1>5. /\ quiet' \in [Calls -> BOOLEAN] /\ (quiet'[c] => quiet[c])
      /\ \A k \in Calls : k # c /\ quiet'[k] => quiet[k] /\ notice' = notice
  BY <1>1, <1>3
<1>6. /\ a \in {"failed", "load", "done"} /\ (a = "load" => request[c].tool = "settings")
      /\ (a # "failed" <=> notice # "torn")
  OBVIOUS
<1>7. ToolOf(request[c], a) /\ a # "idle"
  BY <1>6 DEF ToolOf
<1>8. LayersRead(a) = 3 /\ LayersRead(at[c]) = 3
  BY <1>1, <1>6, AfterReading
<1> DEFINE ans == IF notice = "torn" THEN answer[c]
                  ELSE [required |-> r, dismissed |-> d,
                        patterns |-> answer[c].patterns, limit |-> answer[c].limit]
<1> HIDE DEF a, d, r
<1>9. answer' = [answer EXCEPT ![c] = ans] /\ IsAnswer(ans)
  <2>1. CASE notice = "torn"
    BY <1>2, <1>3, <2>1, Unchanging
  <2>2. CASE notice # "torn"
    BY <1>2, <1>3, <2>2, AnswerParts, NewAnswer
  <2> QED BY <2>1, <2>2
<1>10. a # "failed" => ans.dismissed = d /\ ans.required = r
  BY <1>6, NewAnswer
<1> HIDE DEF ans
<1>11. "failed" \notin Answering
  BY DEF Answering
<1>12. a \in Answering =>
            /\ ans.dismissed = (notice' = "dismissed")
            /\ ans.required = EmbeddingsSetupRequired(explicit[c], notice' = "dismissed")
  BY <1>1, <1>10, <1>11 DEF d, r
<1> QED BY <1>1, <1>4, <1>5, <1>7, <1>8, <1>9, <1>12, PassLayers

(* Steps that leave the answer and the state file alone.                   *)
LEMMA SameAnswerLayers ==
    ASSUME NEW c \in Calls, LInv, NEW a, at' = [at EXCEPT ![c] = a],
           UNCHANGED <<tree, file, origin, edits, request, merged, explicit, answer,
                       notice, capacity, quiet>>,
           at[c] \notin {"idle", "failed", "user", "repo", "project"},
           a \notin {"idle", "user", "repo", "project"},
           ToolOf(request[c], a), a \in Answering => at[c] \in Answering
    PROVE  LInv'
<1>1. /\ OfCalls(answer) /\ IsAnswer(answer[c])
      /\ quiet \in [Calls -> BOOLEAN]
      /\ FilesOK(tree, file, origin, notice, capacity, edits)
  BY CallFacts
<1>2. answer' = [answer EXCEPT ![c] = answer[c]]
  BY <1>1, Unchanging
<1>3. capacity' \in Nat \ {0} /\ notice' \in {Absent, "torn", "open", "dismissed"}
  BY <1>1 DEF FilesOK
<1>4. /\ quiet' \in [Calls -> BOOLEAN] /\ (quiet'[c] => quiet[c])
      /\ \A d \in Calls : d # c /\ quiet'[d] => quiet[d] /\ notice' = notice
  BY <1>1
<1>5. LayersRead(at[c]) = 3 /\ LayersRead(a) = 3
  BY AfterReading
<1>6. quiet'[c] /\ a \in Answering /\ request[c].tool \in {"inspect", "settings"} =>
        /\ answer[c].dismissed = (notice' = "dismissed")
        /\ answer[c].required = EmbeddingsSetupRequired(explicit[c], notice' = "dismissed")
  BY AnswerHolds
<1> QED BY <1>1, <1>2, <1>3, <1>4, <1>5, <1>6, PassLayers

LEMMA LoadLayers ==
    ASSUME NEW c \in Calls, LInv, LoadUserWorkspaceState(c)
    PROVE  LInv'
<1> DEFINE a == CASE notice = "torn" -> "failed"
                  [] notice # "torn" /\ request[c].dismiss -> "dismiss"
                  [] notice # "torn" /\ ~request[c].dismiss /\ request[c].reopen -> "reopen"
                  [] OTHER -> "done"
<1>1. /\ at[c] = "load" /\ at' = [at EXCEPT ![c] = a]
      /\ UNCHANGED <<tree, file, origin, edits, request, merged, explicit, answer,
                     notice, capacity, quiet>>
  BY DEF LoadUserWorkspaceState, Goes, files
<1>2. a \in {"failed", "dismiss", "reopen", "done"}
  OBVIOUS
<1>3. request[c].tool = "settings"
  BY <1>1, CallFacts DEF ToolOf
<1> HIDE DEF a
<1>4. ToolOf(request[c], a) /\ "load" \in Answering
  BY <1>2, <1>3 DEF ToolOf, Answering
<1> QED BY <1>1, <1>2, <1>4, SameAnswerLayers

LEMMA ReloadLayers ==
    ASSUME NEW c \in Calls, LInv, ReloadState(c)
    PROVE  LInv'
<1> DEFINE a == CASE ~request[c].reopen -> "done"
                  [] request[c].reopen /\ notice = "torn" -> "dead"
                  [] OTHER -> "reopen"
<1>1. /\ at[c] = "reload" /\ at' = [at EXCEPT ![c] = a]
      /\ UNCHANGED <<tree, file, origin, edits, request, merged, explicit, answer,
                     notice, capacity, quiet>>
  BY DEF ReloadState, Goes, files
<1>2. a \in {"done", "dead", "reopen"}
  OBVIOUS
<1>3. request[c].tool = "settings"
  BY <1>1, CallFacts DEF ToolOf
<1> HIDE DEF a
<1>4. ToolOf(request[c], a) /\ "reload" \in Answering
  BY <1>2, <1>3 DEF ToolOf, Answering
<1> QED BY <1>1, <1>2, <1>4, SameAnswerLayers

LEMMA DieLayers ==
    ASSUME NEW c \in Calls, LInv, Die(c)
    PROVE  LInv'
<1>1. /\ at[c] \in {"dismissing", "reopening", "write"} /\ at' = [at EXCEPT ![c] = "dead"]
      /\ UNCHANGED <<tree, file, origin, edits, request, merged, explicit, answer,
                     notice, capacity, quiet>>
  BY DEF Die, Goes, files
<1>2. ToolOf(request[c], "dead") /\ "dead" \notin Answering
  BY DEF ToolOf, Answering
<1> QED BY <1>1, <1>2, SameAnswerLayers

LEMMA TruncateLayers ==
    ASSUME NEW c \in Calls, LInv, TruncateState(c)
    PROVE  LInv'
<1> DEFINE a == IF at[c] = "dismiss" THEN "dismissing" ELSE "reopening"
<1>1. /\ at[c] \in {"dismiss", "reopen"} /\ at' = [at EXCEPT ![c] = a] /\ notice' = "torn"
      /\ UNCHANGED <<tree, file, origin, edits, capacity, request, merged, explicit, answer>>
  BY DEF TruncateState, Goes
<1>2. /\ OfCalls(answer) /\ IsAnswer(answer[c]) /\ ToolOf(request[c], at[c])
      /\ quiet \in [Calls -> BOOLEAN]
      /\ FilesOK(tree, file, origin, notice, capacity, edits)
  BY <1>1, CallFacts
<1>3. answer' = [answer EXCEPT ![c] = answer[c]]
  BY <1>1, <1>2, Unchanging
<1>4. capacity' \in Nat \ {0} /\ notice' \in {Absent, "torn", "open", "dismissed"}
  BY <1>1, <1>2 DEF FilesOK
<1>5. Disturb(c)
  BY DEF TruncateState
<1>6. /\ quiet' \in [Calls -> BOOLEAN] /\ (quiet'[c] => quiet[c])
      /\ \A d \in Calls : d # c /\ quiet'[d] => quiet[d] /\ notice' = notice
  BY <1>2, <1>5, DisturbTells
<1>7. request[c].tool = "settings"
  BY <1>1, <1>2 DEF ToolOf
<1>8. a \in {"dismissing", "reopening"}
  OBVIOUS
<1> HIDE DEF a
<1>9. ToolOf(request[c], a) /\ a \notin Answering /\ a # "idle"
  BY <1>7, <1>8 DEF ToolOf, Answering
<1>10. LayersRead(at[c]) = 3 /\ LayersRead(a) = 3
  BY <1>1, <1>8, AfterReading
<1> QED BY <1>1, <1>2, <1>3, <1>4, <1>6, <1>9, <1>10, PassLayers

(* The file is whole again, with the answer that was given.                *)
LEMMA SaveLayers ==
    ASSUME NEW c \in Calls, LInv, SaveDismissed(c) \/ SaveReopened(c)
    PROVE  LInv'
<1>1. PICK from, a, state, d, r :
        /\ at[c] = from /\ at' = [at EXCEPT ![c] = a] /\ notice' = state
        /\ answer' = Told(answer, c, d, r)
        /\ UNCHANGED <<tree, file, origin, edits, capacity, request, merged, explicit>>
        /\ from \in {"dismissing", "reopening"} /\ a \in {"reload", "done"}
        /\ a = "reload" => from = "dismissing"
        /\ state \in {"open", "dismissed"}
        /\ d = (state = "dismissed")
        /\ r = EmbeddingsSetupRequired(explicit[c], state = "dismissed")
  <2>1. CASE SaveDismissed(c)
    <3>1. /\ at[c] = "dismissing" /\ at' = [at EXCEPT ![c] = "reload"] /\ notice' = "dismissed"
          /\ answer' = Told(answer, c, TRUE, FALSE)
          /\ UNCHANGED <<tree, file, origin, edits, capacity, request, merged, explicit>>
      BY <2>1 DEF SaveDismissed, Goes, Told
    <3>2. FALSE = EmbeddingsSetupRequired(explicit[c], "dismissed" = "dismissed")
      BY DEF EmbeddingsSetupRequired
    <3> QED BY <3>1, <3>2
  <2>2. CASE SaveReopened(c)
    <3>1. /\ at[c] = "reopening" /\ at' = [at EXCEPT ![c] = "done"] /\ notice' = "open"
          /\ answer' = Told(answer, c, FALSE, EmbeddingsSetupRequired(explicit[c], FALSE))
          /\ UNCHANGED <<tree, file, origin, edits, capacity, request, merged, explicit>>
      BY <2>2 DEF SaveReopened, Goes, Told
    <3>2. FALSE = ("open" = "dismissed")
      OBVIOUS
    <3> QED BY <3>1, <3>2
  <2> QED BY <2>1, <2>2
<1>2. /\ OfCalls(answer) /\ IsAnswer(answer[c]) /\ ToolOf(request[c], at[c])
      /\ quiet \in [Calls -> BOOLEAN]
      /\ FilesOK(tree, file, origin, notice, capacity, edits)
  BY <1>1, CallFacts
<1> DEFINE ans == [required |-> r, dismissed |-> d,
                   patterns |-> answer[c].patterns, limit |-> answer[c].limit]
<1>3. answer' = [answer EXCEPT ![c] = ans]
  BY <1>1, <1>2, AnswerParts
<1>4. IsAnswer(ans) /\ ans.dismissed = d /\ ans.required = r
  BY NewAnswer
<1> HIDE DEF ans
<1>5. capacity' \in Nat \ {0} /\ notice' \in {Absent, "torn", "open", "dismissed"}
  BY <1>1, <1>2 DEF FilesOK
<1>6. Disturb(c)
  BY DEF SaveDismissed, SaveReopened
<1>7. /\ quiet' \in [Calls -> BOOLEAN] /\ (quiet'[c] => quiet[c])
      /\ \A k \in Calls : k # c /\ quiet'[k] => quiet[k] /\ notice' = notice
  BY <1>2, <1>6, DisturbTells
<1>8. ToolOf(request[c], a) /\ a # "idle"
  BY <1>1, <1>2 DEF ToolOf
<1>9. LayersRead(at[c]) = 3 /\ LayersRead(a) = 3
  BY <1>1, AfterReading
<1>10. /\ ans.dismissed = (notice' = "dismissed")
       /\ ans.required = EmbeddingsSetupRequired(explicit[c], notice' = "dismissed")
  BY <1>1, <1>4
<1> QED BY <1>1, <1>3, <1>4, <1>5, <1>7, <1>8, <1>9, <1>10, PassLayers

MayWrite(c, a, content) ==
    /\ at' = [at EXCEPT ![c] = a]
    /\ a \in {"failed", "write", "done"}
    /\ \/ file' = file /\ quiet' = quiet
       \/ file' = [file EXCEPT !["repo"] = content] /\ Disturb(c)
    /\ origin' = origin \/ origin' = c

(* The calls that write the repo config read nothing.                      *)
LEMMA RepoConfigLayers ==
    ASSUME NEW c \in Calls, LInv, NEW a, at[c] \in {"open", "write"},
           NEW content, IsConfig(content), MayWrite(c, a, content),
           UNCHANGED <<tree, notice, edits, capacity, request, merged, explicit, answer>>
    PROVE  LInv'
<1>1. /\ OfCalls(at) /\ OfCalls(answer) /\ OfCalls(merged)
      /\ request[c] \in Requests /\ ToolOf(request[c], at[c])
      /\ IsAnswer(answer[c]) /\ IsConfig(merged[c]) /\ IsFull(merged[c])
      /\ explicit[c] \in BOOLEAN
      /\ quiet \in [Calls -> BOOLEAN]
      /\ FilesOK(tree, file, origin, notice, capacity, edits)
      /\ CallOK(quiet[c], tree, file, notice,
                request[c], at[c], merged[c], explicit[c], answer[c])
  BY CallFacts
<1>2. CallFunctions(request, at, merged, explicit, answer)
  BY DEF LInv
<1>3. Moves(c, request[c], a, merged[c], explicit[c], answer[c])
  BY <1>2, Unchanging DEF Moves, CallFunctions, MayWrite
<1>4. TellsOthers(c)
  <2>1. CASE file' = file /\ quiet' = quiet
    BY <1>1, <2>1 DEF TellsOthers
  <2>2. CASE Disturb(c)
    BY <1>1, <2>2, DisturbTells DEF TellsOthers
  <2> QED BY <2>1, <2>2 DEF MayWrite
<1>5. request[c].tool = "init" /\ request[c] # NoRequest
  BY <1>1 DEF ToolOf, NoRequest
<1>6. request[c].tool \notin ReadTools /\ ToolOf(request[c], a) /\ a # "idle"
  BY <1>5 DEF ReadTools, ToolOf, MayWrite
<1>7. CallOK(quiet'[c], tree, file', notice', request[c], a, merged[c], explicit[c], answer[c])
  BY <1>1, <1>5, <1>6 DEF CallOK
<1>8. FilesOK(tree', file', origin', notice', capacity', edits')
  <2>1. /\ file' = [l \in ToSet(Layers) |-> file'[l]]
        /\ \A l \in ToSet(Layers) : file'[l] \in {Absent, Broken} \/ IsConfig(file'[l])
    <3>1. /\ file = [l \in ToSet(Layers) |-> file[l]]
          /\ \A l \in ToSet(Layers) : file[l] \in {Absent, Broken} \/ IsConfig(file[l])
      BY <1>1 DEF FilesOK
    <3> QED BY <3>1 DEF MayWrite
  <2> QED BY <1>1, <2>1 DEF FilesOK, MayWrite
<1> QED BY <1>3, <1>4, <1>7, <1>8, CallStep

LEMMA OpenLayers ==
    ASSUME NEW c \in Calls, LInv, OpenRepoConfig(c)
    PROVE  LInv'
<1>1. /\ at[c] \in {"open", "write"}
      /\ UNCHANGED <<tree, notice, edits, capacity, request, merged, explicit, answer>>
  BY DEF OpenRepoConfig
<1>2. PICK a : at' = [at EXCEPT ![c] = a] /\ a \in {"failed", "write", "done"}
  BY DEF OpenRepoConfig, Goes
<1>3. MayWrite(c, a, Blank)
  BY <1>2 DEF OpenRepoConfig, MayWrite
<1> QED BY <1>1, <1>2, <1>3, BlankIsConfig, RepoConfigLayers

LEMMA WriteLayers ==
    ASSUME NEW c \in Calls, LInv, WriteRepoConfig(c)
    PROVE  LInv'
<1>1. /\ at[c] \in {"open", "write"} /\ at[c] \notin {"idle", "failed"}
      /\ UNCHANGED <<tree, notice, edits, capacity, request, merged, explicit, answer>>
  BY DEF WriteRepoConfig
<1>2. PICK a : at' = [at EXCEPT ![c] = a] /\ a \in {"failed", "write", "done"}
  BY DEF WriteRepoConfig, Goes
<1>3. PICK content : content = normalizeWorkspaceConfig(merged[c]) /\ IsConfig(content)
  BY <1>1, CallFacts, NormalIsFull
<1>4. MayWrite(c, a, content)
  BY <1>2, <1>3 DEF WriteRepoConfig, MayWrite
<1> QED BY <1>1, <1>2, <1>3, <1>4, RepoConfigLayers

LEMMA EditLayers ==
    ASSUME NEW l \in ToSet(Layers), LInv, EditFile(l)
    PROVE  LInv'
<1>1. PICK v \in Contents[l] : file' = [file EXCEPT ![l] = v]
  BY DEF EditFile
<1>2. /\ edits < MaxEdits /\ edits' = edits + 1
      /\ origin' \in {origin, "editor"}
      /\ quiet' = [c \in Calls |-> FALSE]
      /\ UNCHANGED <<tree, notice, capacity, request, at, merged, explicit, answer>>
  BY DEF EditFile
<1>3. v \in {Absent, Broken} \/ IsConfig(v)
  BY ContentsAssumption
<1>4. FilesOK(tree, file, origin, notice, capacity, edits)
  BY DEF LInv
<1>5. FilesOK(tree', file', origin', notice', capacity', edits')
  <2>1. /\ file' = [k \in ToSet(Layers) |-> file'[k]]
        /\ \A k \in ToSet(Layers) : file'[k] \in {Absent, Broken} \/ IsConfig(file'[k])
    <3>1. /\ file = [k \in ToSet(Layers) |-> file[k]]
          /\ \A k \in ToSet(Layers) : file[k] \in {Absent, Broken} \/ IsConfig(file[k])
      BY <1>4 DEF FilesOK
    <3> QED BY <1>1, <1>3, <3>1
  <2>2. edits' \in 0..MaxEdits
    BY <1>2, <1>4, MaxEditsAssumption DEF FilesOK
  <2> QED BY <1>2, <1>4, <2>1, <2>2 DEF FilesOK
<1>6. CallFunctions(request', at', merged', explicit', answer')
  BY <1>2 DEF LInv
<1>7. quiet' \in [Calls -> BOOLEAN]
  BY <1>2
<1>8. ASSUME NEW c \in Calls
      PROVE  CallOK(quiet'[c], tree', file', notice',
                    request'[c], at'[c], merged'[c], explicit'[c], answer'[c])
  <2>1. CallOK(quiet[c], tree, file, notice,
               request[c], at[c], merged[c], explicit[c], answer[c])
    BY DEF LInv
  <2>2. ~quiet'[c]
    BY <1>2
  <2>3. CallOK(quiet'[c], tree, file', notice,
               request[c], at[c], merged[c], explicit[c], answer[c])
    BY <2>1, <2>2, Undisturbed
  <2> QED BY <1>2, <2>3
<1> QED BY <1>5, <1>6, <1>7, <1>8 DEF LInv

LEMMA StutterLayers ==
    ASSUME LInv, UNCHANGED cfvars
    PROVE  LInv'
BY DEF cfvars, files, LInv

LEMMA LayersKept == LInv /\ [NextConfig]_cfvars => LInv'
BY BeginLayers, ReadLayers, ResolveLayers, InspectLayers, LoadLayers, TruncateLayers,
   SaveLayers, ReloadLayers, OpenLayers, WriteLayers, DieLayers, EditLayers, StutterLayers
   DEF NextConfig

LEMMA LInvIsTyped == LInv => ConfigTypeOK
<1> SUFFICES ASSUME LInv PROVE ConfigTypeOK
  OBVIOUS
<1>1. /\ FilesOK(tree, file, origin, notice, capacity, edits)
      /\ quiet \in [Calls -> BOOLEAN]
      /\ \A c \in Calls : CallOK(quiet[c], tree, file, notice,
                                 request[c], at[c], merged[c], explicit[c], answer[c])
  BY DEF LInv
<1>2. \A x : IsConfig(x) => DOMAIN x = Settings
  BY DEF IsConfig
<1>3. \A l \in ToSet(Layers) : file[l] \in {Absent, Broken} \/ DOMAIN file[l] = Settings
  BY <1>1, <1>2 DEF FilesOK
<1>4. ASSUME NEW c \in Calls
      PROVE  /\ at[c] = "idle" <=> request[c] = NoRequest
             /\ at[c] \in {"open", "write"} => request[c].tool = "init"
             /\ at[c] \in {"load", "dismiss", "dismissing", "reload", "reopen", "reopening"}
                    => request[c].tool = "settings"
             /\ DOMAIN merged[c] = Settings
  BY <1>1, <1>2 DEF CallOK, ToolOf
<1> QED BY <1>1, <1>3, <1>4 DEF ConfigTypeOK, FilesOK

(* Laying the files over each other one by one gives each setting the      *)
(* value of the highest layer that has it.                                 *)
LEMMA HighestIsLaid ==
    ASSUME NEW t \in Trees, NEW fl,
           \A l \in ToSet(Layers) : fl[l] \in {Absent, Broken} \/ IsConfig(fl[l]),
           \A i \in 1..3 : fl[Layers[i]] # Broken
    PROVE  LET Says(i, f) == fl[Layers[i]] # Absent /\ fl[Layers[i]][f] # Unset
               Highest(f) == CHOOSE i \in DOMAIN Layers :
                                Says(i, f) /\ \A j \in DOMAIN Layers : Says(j, f) => j <= i
           IN  Laid(t, fl, 3) = [f \in Settings |-> IF \E i \in DOMAIN Layers : Says(i, f)
                                                   THEN fl[Layers[Highest(f)]][f]
                                                   ELSE SuggestWorkspaceConfig(t)[f]]
<1> DEFINE Says(i, f) == fl[Layers[i]] # Absent /\ fl[Layers[i]][f] # Unset
           Is(f, i) == Says(i, f) /\ \A j \in DOMAIN Layers : Says(j, f) => j <= i
           Highest(f) == CHOOSE i \in DOMAIN Layers : Is(f, i)
           Won(f) == IF \E i \in DOMAIN Layers : Says(i, f) THEN fl[Layers[Highest(f)]][f]
                     ELSE SuggestWorkspaceConfig(t)[f]
<1>1. PICK s : s = SuggestWorkspaceConfig(t) /\ IsFull(s)
  BY SuggestType
<1>2. PICK u : u = Over(s, fl["user"])
  OBVIOUS
<1>3. PICK r : r = Over(u, fl["repo"])
  OBVIOUS
<1>4. PICK p : p = Over(r, fl["project"])
  OBVIOUS
<1>5. IsFull(u) /\ IsFull(r) /\ IsFull(p)
  <2>1. fl["user"] = Absent \/ IsConfig(fl["user"])
    BY LayerNames
  <2>2. fl["repo"] = Absent \/ IsConfig(fl["repo"])
    BY LayerNames
  <2>3. fl["project"] = Absent \/ IsConfig(fl["project"])
    BY LayerNames
  <2>4. IsFull(u)
    BY <1>1, <1>2, <2>1, OverlayIsFull DEF Over
  <2>5. IsFull(r)
    BY <1>3, <2>2, <2>4, OverlayIsFull DEF Over
  <2>6. IsFull(p)
    BY <1>4, <2>3, <2>5, OverlayIsFull DEF Over
  <2> QED BY <2>4, <2>5, <2>6
<1>6. Laid(t, fl, 3) = p
  BY <1>1, <1>2, <1>3, <1>4 DEF Laid
<1>7. ASSUME NEW f \in Settings PROVE p[f] = Won(f)
  <2>1. ASSUME NEW base, NEW content
        PROVE  Over(base, content)[f] = IF content # Absent /\ content[f] # Unset
                                        THEN content[f] ELSE base[f]
    BY DEF Over, Overlay
  <2>2. p[f] = IF Says(3, f) THEN fl[Layers[3]][f] ELSE r[f]
    BY <1>4, <2>1, LayerNames
  <2>3. r[f] = IF Says(2, f) THEN fl[Layers[2]][f] ELSE u[f]
    BY <1>3, <2>1, LayerNames
  <2>4. u[f] = IF Says(1, f) THEN fl[Layers[1]][f] ELSE s[f]
    BY <1>2, <2>1, LayerNames
  <2> HIDE DEF Says
  <2>5. ASSUME NEW i \in 1..3, Is(f, i) PROVE Highest(f) = i
    <3>1. Highest(f) \in DOMAIN Layers /\ Is(f, Highest(f))
      BY <2>5, LayerNames
    <3> HIDE DEF Highest
    <3>2. Highest(f) \in 1..3 /\ i \in DOMAIN Layers
      BY <3>1, LayerNames
    <3>3. Highest(f) <= i /\ i <= Highest(f)
      BY <2>5, <3>1, <3>2
    <3> QED BY <3>2, <3>3
  <2>6. CASE Says(3, f)
    <3>1. Is(f, 3)
      BY <2>6, LayerNames
    <3> QED BY <2>2, <2>5, <2>6, <3>1, LayerNames
  <2>7. CASE ~Says(3, f) /\ Says(2, f)
    <3>1. Is(f, 2)
      BY <2>7, LayerNames
    <3> QED BY <2>2, <2>3, <2>5, <2>7, <3>1, LayerNames
  <2>8. CASE ~Says(3, f) /\ ~Says(2, f) /\ Says(1, f)
    <3>1. Is(f, 1)
      BY <2>8, LayerNames
    <3> QED BY <2>2, <2>3, <2>4, <2>5, <2>8, <3>1, LayerNames
  <2>9. CASE ~Says(3, f) /\ ~Says(2, f) /\ ~Says(1, f)
    <3>1. ~ \E i \in DOMAIN Layers : Says(i, f)
      BY <2>9, LayerNames
    <3> QED BY <1>1, <2>2, <2>3, <2>4, <2>9, <3>1
  <2> QED BY <2>6, <2>7, <2>8, <2>9
<1>8. p = [f \in Settings |-> p[f]]
  BY <1>5 DEF IsFull
<1>9. p = [f \in Settings |-> Won(f)]
  <2> HIDE DEF Won
  <2> QED BY <1>7, <1>8
<1> QED BY <1>6, <1>9

LEMMA LInvResolves ==
    ASSUME LInv, NEW c \in Calls, Resolved(c), quiet[c]
    PROVE  /\ tree \in Trees
           /\ \A l \in ToSet(Layers) : file[l] \in {Absent, Broken} \/ IsConfig(file[l])
           /\ \A i \in 1..3 : file[Layers[i]] # Broken
           /\ merged[c] = normalizeWorkspaceConfig(Laid(tree, file, 3))
           /\ explicit[c] = Configured(file, 3)
<1>1. /\ FilesOK(tree, file, origin, notice, capacity, edits)
      /\ CallOK(quiet[c], tree, file, notice,
                request[c], at[c], merged[c], explicit[c], answer[c])
  BY DEF LInv
<1>2. /\ request[c].tool \in ReadTools
      /\ at[c] \notin {"user", "repo", "project", "failed"}
  BY DEF Resolved, Reads, ReadTools
<1>3. Faithful(tree, file, notice, request[c], at[c], merged[c], explicit[c], answer[c])
  BY <1>1, <1>2 DEF CallOK
<1>4. LayersRead(at[c]) = 3
  BY <1>2, AfterReading
<1>5. /\ \A i \in 1..3 : file[Layers[i]] # Broken
      /\ merged[c] = normalizeWorkspaceConfig(Laid(tree, file, 3))
      /\ explicit[c] = Configured(file, 3)
  BY <1>3, <1>4 DEF Faithful
<1> QED BY <1>1, <1>5 DEF FilesOK

LEMMA LInvMerges == LInv => HighestLayerWins
<1> SUFFICES ASSUME LInv, NEW c \in Calls, Resolved(c), quiet[c]
             PROVE  LET Says(i, f) == file[Layers[i]] # Absent /\ file[Layers[i]][f] # Unset
                        Highest(f) == CHOOSE i \in DOMAIN Layers :
                            Says(i, f) /\ \A j \in DOMAIN Layers : Says(j, f) => j <= i
                    IN  merged[c] = normalizeWorkspaceConfig(
                            [f \in Settings |-> IF \E i \in DOMAIN Layers : Says(i, f)
                                                THEN file[Layers[Highest(f)]][f]
                                                ELSE SuggestWorkspaceConfig(tree)[f]])
  BY DEF HighestLayerWins
<1> QED BY LInvResolves, HighestIsLaid

LEMMA LInvAnswers == LInv => AnswerFitsDisk
<1> SUFFICES ASSUME LInv, NEW c \in Calls,
                    at[c] = "done", quiet[c], request[c].tool \in {"inspect", "settings"}
             PROVE  /\ answer[c].dismissed = (notice = "dismissed")
                    /\ answer[c].required =
                        (/\ notice # "dismissed"
                         /\ \A l \in ToSet(Layers) :
                            file[l] = Absent \/ \A f \in EmbeddingSettings : file[l][f] = Unset)
  BY DEF AnswerFitsDisk
<1>1. /\ answer[c].dismissed = (notice = "dismissed")
      /\ answer[c].required = EmbeddingsSetupRequired(explicit[c], notice = "dismissed")
  BY AnswerHolds DEF Answering
<1>2. explicit[c] = Configured(file, 3)
  BY LInvResolves DEF Resolved, Reads
<1>3. Configured(file, 3) <=>
        ~ \A l \in ToSet(Layers) : file[l] = Absent \/ \A f \in EmbeddingSettings : file[l][f] = Unset
  BY LayerNames DEF Configured, hasExplicitEmbeddingsConfig
<1>4. EmbeddingsSetupRequired(explicit[c], notice = "dismissed") =
        (/\ notice # "dismissed"
         /\ \A l \in ToSet(Layers) :
                file[l] = Absent \/ \A f \in EmbeddingSettings : file[l][f] = Unset)
  BY <1>2, <1>3 DEF EmbeddingsSetupRequired
<1> QED BY <1>1, <1>4

(* The variables keep their shape, for any number of calls and files.      *)
THEOREM ConfigTypes == SpecConfig => []ConfigTypeOK
BY InitLayers, LayersKept, LInvIsTyped, PTL DEF SpecConfig

(* EffectiveWorkspaceConfig: every setting has the value of the highest    *)
(* layer that has it, although each merge fills in the defaults.           *)
THEOREM LayersWin == SpecConfig => []HighestLayerWins
BY InitLayers, LayersKept, LInvMerges, PTL DEF SpecConfig

(* inspect_embeddings_settings and inspect_workspace_config: what the      *)
(* answer says of the setup notice fits the files.                         *)
THEOREM AnswersFit == SpecConfig => []AnswerFitsDisk
BY InitLayers, LayersKept, LInvAnswers, PTL DEF SpecConfig

-----------------------------------------------------------------------------
(* Both next to each other: each step is of one of them.                   *)

LEMMA BothStart == Init => SInv /\ LInv
<1>1. Init => InitStore /\ InitConfig
  BY DEF Init
<1> QED BY <1>1, InitSInv, InitLayers

LEMMA BothKeep ==
    SInv /\ LInv /\ [Next]_<<ssvars, cfvars, active>> => SInv' /\ LInv'
<1>1. [Next]_<<ssvars, cfvars, active>> => [NextStore]_ssvars /\ [NextConfig]_cfvars
  BY DEF Next
<1> QED BY <1>1, NextSInv, LayersKept

(* Whichever of the two is at work, the tables and the configuration files *)
(* keep to their types, and a step of one leaves the other alone.          *)
THEOREM PersistentTypes == Spec => []TypeOK
<1>1. SInv /\ LInv => TypeOK
  BY LInvIsTyped DEF SInv, TypeOK
<1> QED BY <1>1, BothStart, BothKeep, PTL DEF Spec
=============================================================================
