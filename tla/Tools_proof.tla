------------------------------ MODULE Tools_proof ------------------------------
(***************************************************************************)
(* The tools next to each other, one of them at work and the others off:   *)
(* the specification that is checked keeps to the invariants of each.      *)
(***************************************************************************)
EXTENDS MCTools, Answers_proof, GraphTools_proof, Analyses_proof

(* A component is off, or keeps to its invariant.                          *)
StreamOrOff == StreamInv \/ (phase = "off" /\ StreamTypeOK)
ImportsOrOff == (ImportsInv /\ SearchInv) \/ tool = "off"
CallsOrOff == (CallsInv /\ Untouched /\ WalkInv /\ DeadInv /\ Reasons) \/ pc = "off"
RisksOrOff == ThreadsInv \/ RisksOff
ListingsOrOff == ListingsInv \/ (cached = <<>> /\ ListingsTypeOK)
OrmOrOff == OrmInv \/ (verdict = "off" /\ OrmTypeOK)

Each == StreamOrOff /\ ImportsOrOff /\ CallsOrOff /\ RisksOrOff /\ ListingsOrOff /\ OrmOrOff

-----------------------------------------------------------------------------
LEMMA OffIsTyped ==
    /\ StreamOff => StreamOrOff
    /\ ImportsOff => ImportsOrOff
    /\ CallsOff => CallsOrOff
    /\ RisksOff => RisksOrOff
    /\ ListingsOff => ListingsOrOff
    /\ OrmOff => OrmOrOff
<1>1. StreamOff => StreamOrOff
  <2>1. (CHOOSE o \in Outputs : TRUE) \in Outputs
    BY OutputsAssumption
  <2>2. <<>> \in Seq(Nat)
    OBVIOUS
  <2> QED BY <2>1, <2>2, MaxEditsAssumption DEF StreamOff, Listers, StreamTypeOK, StreamOrOff
<1>2. (ImportsOff => ImportsOrOff) /\ (CallsOff => CallsOrOff) /\ (RisksOff => RisksOrOff)
  BY DEF ImportsOff, ImportsOrOff, CallsOff, CallsOrOff, RisksOrOff
<1>3. ListingsOff => ListingsOrOff
  <2>1. SUFFICES ASSUME ListingsOff PROVE cached = <<>> /\ ListingsTypeOK
    BY DEF ListingsOrOff
  <2>2. tables.rows = {} /\ tables.endpoint = "unknown"
    BY <2>1 DEF ListingsOff
  <2>3. revisions \in 0..MaxRevisions
    BY <2>1, MaxRevisionsAssumption DEF ListingsOff
  <2>4. text \in [Sources -> SUBSET RowNames] /\ failed \in BOOLEAN
    BY <2>1 DEF ListingsOff
  <2>5. tables.endpoint \in Endpoints
    BY <2>2 DEF Endpoints
  <2>6. cached = <<>>
    BY <2>1 DEF ListingsOff
  <2> QED BY <2>2, <2>3, <2>4, <2>5, <2>6 DEF ListingsTypeOK
<1>4. OrmOff => OrmOrOff
  <2>1. SUFFICES ASSUME OrmOff PROVE verdict = "off" /\ OrmTypeOK
    BY DEF OrmOrOff
  <2>2. PICK n \in Nat : n = Cardinality(AppFuncs)
    BY AppFuncsAssumption, FS_CardinalityType
  <2>3. pass \in 1..MaxPasses /\ turn \in 1..(n + 1)
    BY <2>1, MaxPassesAssumption DEF OrmOff
  <2>4. summaries \in [AppFuncs -> [params : SUBSET Nat, receiver : BOOLEAN]]
    BY <2>1 DEF OrmOff, Empty
  <2>5. changed \in BOOLEAN /\ verdict = "off"
    BY <2>1 DEF OrmOff
  <2> QED BY <2>2, <2>3, <2>4, <2>5 DEF OrmTypeOK
<1> QED BY <1>1, <1>2, <1>3, <1>4

LEMMA OffOrBegun == Init => Each
<1>1. InitStreaming => StreamOrOff
  BY InitKeeps DEF StreamOrOff
<1>2. InitImports => ImportsOrOff
  BY InitTools, InitSearches DEF ImportsOrOff
<1>3. InitCalls => CallsOrOff
  <2>1. InitCalls => Reasons
    BY DEF InitCalls, Blank, Reasons
  <2> QED BY <2>1, InitCallsInv, InitWalk, InitDead DEF CallsOrOff
<1>4. InitRisks => RisksOrOff
  BY ThreadsStart DEF RisksOrOff
<1>5. InitListings => ListingsOrOff
  BY InitListingTypes DEF ListingsOrOff
<1>6. InitOrm => OrmOrOff
  BY InitOrmKeeps DEF OrmOrOff
<1> QED BY <1>1, <1>2, <1>3, <1>4, <1>5, <1>6, OffIsTyped DEF Init, Each

(* An off component does nothing; the others keep their invariants.        *)
LEMMA StreamStays ==
    ASSUME StreamOrOff, (phase # "off" /\ NextStreaming) \/ UNCHANGED stvars
    PROVE  StreamOrOff'
<1>1. CASE StreamInv
  <2>1. [NextStreaming]_stvars
    OBVIOUS
  <2> QED BY <1>1, <2>1, NextKeeps DEF StreamOrOff
<1>2. CASE phase = "off" /\ StreamTypeOK
  <2>1. UNCHANGED stvars
    BY <1>2
  <2> QED BY <1>2, <2>1 DEF StreamOrOff, stvars, StreamTypeOK
<1> QED BY <1>1, <1>2 DEF StreamOrOff

LEMMA ImportsStay ==
    ASSUME ImportsOrOff, (tool # "off" /\ NextImports) \/ UNCHANGED pgvars
    PROVE  ImportsOrOff'
<1>1. CASE ImportsInv /\ SearchInv
  <2>1. [NextImports]_pgvars
    OBVIOUS
  <2> QED BY <1>1, <2>1, NextTools, NextSearches DEF ImportsOrOff
<1>2. CASE tool = "off"
  BY <1>2 DEF ImportsOrOff, pgvars
<1> QED BY <1>1, <1>2 DEF ImportsOrOff

LEMMA CallsStay ==
    ASSUME CallsOrOff, (pc # "off" /\ NextCalls) \/ UNCHANGED cgvars
    PROVE  CallsOrOff'
<1>1. CASE CallsInv /\ Untouched /\ WalkInv /\ DeadInv /\ Reasons
  <2>1. [NextCalls]_cgvars
    OBVIOUS
  <2>2. CallsInv' /\ Untouched' /\ Reasons'
    BY <1>1, <2>1, NextCallsInv, NextReasons
  <2>3. WalkInv' /\ DeadInv'
    BY <1>1, <2>1, NextWalk, NextDead
  <2> QED BY <2>2, <2>3 DEF CallsOrOff
<1>2. CASE pc = "off"
  BY <1>2 DEF CallsOrOff, cgvars
<1> QED BY <1>1, <1>2 DEF CallsOrOff

LEMMA RisksStay ==
    ASSUME RisksOrOff, NextRisks \/ UNCHANGED crvars
    PROVE  RisksOrOff'
<1>1. CASE ThreadsInv
  <2>1. [NextRisks]_crvars
    OBVIOUS
  <2> QED BY <1>1, <2>1, ThreadsKeep DEF RisksOrOff
<1>2. CASE RisksOff
  <2>1. \A t \in Threads : ~Runs(t)
    BY <1>2 DEF RisksOff, Runs
  <2>2. ~NextRisks
    BY <2>1 DEF NextRisks, Acquire, Release, Defer, Access, Enter, Leave, Go, Goes
  <2>3. UNCHANGED crvars
    BY <2>2
  <2> QED BY <1>2, <2>3 DEF RisksOrOff, RisksOff, crvars
<1> QED BY <1>1, <1>2 DEF RisksOrOff

LEMMA ListingsStay ==
    ASSUME ListingsOrOff, (cached # <<>> /\ NextListings) \/ UNCHANGED lsvars
    PROVE  ListingsOrOff'
<1>1. CASE ListingsInv
  <2>1. [NextListings]_lsvars
    OBVIOUS
  <2> QED BY <1>1, <2>1, NextListingTypes DEF ListingsOrOff
<1>2. CASE cached = <<>> /\ ListingsTypeOK
  <2>1. UNCHANGED lsvars
    BY <1>2
  <2> QED BY <1>2, <2>1 DEF ListingsOrOff, lsvars, ListingsTypeOK
<1> QED BY <1>1, <1>2 DEF ListingsOrOff

LEMMA OrmStays ==
    ASSUME OrmOrOff, (verdict # "off" /\ NextOrm) \/ UNCHANGED ouvars
    PROVE  OrmOrOff'
<1>1. CASE OrmInv
  <2>1. [NextOrm]_ouvars
    OBVIOUS
  <2> QED BY <1>1, <2>1, NextOrmKeeps DEF OrmOrOff
<1>2. CASE verdict = "off" /\ OrmTypeOK
  <2>1. UNCHANGED ouvars
    BY <1>2
  <2> QED BY <1>2, <2>1 DEF OrmOrOff, ouvars, OrmTypeOK
<1> QED BY <1>1, <1>2 DEF OrmOrOff

LEMMA EachStays ==
    ASSUME Each, [Next]_<<stvars, pgvars, cgvars, crvars, lsvars, ouvars>>
    PROVE  Each'
<1>1. /\ (phase # "off" /\ NextStreaming) \/ UNCHANGED stvars
      /\ (tool # "off" /\ NextImports) \/ UNCHANGED pgvars
      /\ (pc # "off" /\ NextCalls) \/ UNCHANGED cgvars
      /\ NextRisks \/ UNCHANGED crvars
      /\ (cached # <<>> /\ NextListings) \/ UNCHANGED lsvars
      /\ (verdict # "off" /\ NextOrm) \/ UNCHANGED ouvars
  BY DEF Next
<1>2. StreamOrOff /\ ImportsOrOff /\ CallsOrOff /\ RisksOrOff /\ ListingsOrOff /\ OrmOrOff
  BY DEF Each
<1>3. StreamOrOff' /\ ImportsOrOff' /\ CallsOrOff'
  BY <1>1, <1>2, StreamStays, ImportsStay, CallsStay
<1>4. RisksOrOff' /\ ListingsOrOff' /\ OrmOrOff'
  BY <1>1, <1>2, RisksStay, ListingsStay, OrmStays
<1> QED BY <1>3, <1>4 DEF Each

(* All tools: whichever one is at work, and whatever it is asked, each     *)
(* keeps to its types, and a step of one leaves the others alone.          *)
THEOREM ToolTypes == Spec => []TypeOK
<1>1. Each => TypeOK
  <2>1. SUFFICES ASSUME Each PROVE TypeOK
    OBVIOUS
  <2>2. StreamTypeOK
    BY <2>1 DEF Each, StreamOrOff, StreamInv
  <2>3. ImportsTypeOK
    BY <2>1, ToolsHaveTypes DEF Each, ImportsOrOff, ImportsTypeOK
  <2>4. CallsTypeOK
    BY <2>1, CallsHaveTypes DEF Each, CallsOrOff, CallsTypeOK
  <2>5. ThreadsTypeOK
    <3>1. CASE ThreadsInv
      BY <3>1, ThreadsHaveTypes
    <3>2. CASE RisksOff
      BY <3>2 DEF RisksOff, ThreadsTypeOK, Threads, NoThread
    <3> QED BY <2>1, <3>1, <3>2 DEF Each, RisksOrOff
  <2>6. ListingsTypeOK
    BY <2>1 DEF Each, ListingsOrOff, ListingsInv
  <2>7. OrmTypeOK
    BY <2>1, ModelsHaveTypes DEF Each, OrmOrOff
  <2> QED BY <2>2, <2>3, <2>4, <2>5, <2>6, <2>7 DEF TypeOK
<1>2. Each /\ [Next]_<<stvars, pgvars, cgvars, crvars, lsvars, ouvars>> => Each'
  BY EachStays
<1> QED BY <1>1, <1>2, OffOrBegun, PTL DEF Spec
=============================================================================
