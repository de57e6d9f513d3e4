--------------------------- MODULE GraphTools_proof ---------------------------
(***************************************************************************)
(* The tools that walk the import graph and the call graph of a program:   *)
(* what they answer is what the graphs say, proved for every graph, in     *)
(* whatever order its nodes and edges come.                                *)
(***************************************************************************)
EXTENDS PackageGraph, CallGraph, FiniteSetTheorems, SequenceTheorems, WellFoundedInduction, TLAPS

-----------------------------------------------------------------------------
(* Architecture boundaries.                                                *)

(* What is reported is what the rules forbid in the loaded program.        *)
ReportFitsProgram ==
    /\ program \in Programs
    /\ tool \in {"cycles", "reverse", "boundaries"}
    /\ tool = "boundaries" => violations = Violations(program, rules)

(* A program that has all packages of another, with the same imports,      *)
(* breaks a rule wherever the other one does.  allow_only and allow_prefix *)
(* judge imports of loaded packages only, and what was loaded still is.    *)
LEMMA WiderBreaksMore ==
    ASSUME NEW narrow, NEW wide, NEW rule,
           narrow.loaded \subseteq wide.loaded,
           \A p \in narrow.loaded : wide.imports[p] = narrow.imports[p]
    PROVE  Breaks(narrow, rule) \subseteq Breaks(wide, rule)
BY DEF Breaks

LEMMA AddRuleReportsMore ==
    ASSUME ReportFitsProgram, NEW r \in Rules, AddRule(r)
    PROVE  violations \subseteq violations' /\ ReportFitsProgram'
<1>1. /\ tool = "boundaries" /\ tool' = tool /\ program' = program
      /\ rules' = rules \cup {r} /\ violations' = Violations(program, rules')
  BY DEF AddRule
<1>2. violations = Violations(program, rules)
  BY <1>1 DEF ReportFitsProgram
<1>3. Violations(program, rules) \subseteq Violations(program, rules')
  BY <1>1 DEF Violations
<1> QED BY <1>1, <1>2, <1>3 DEF ReportFitsProgram

LEMMA WidenReportsMore ==
    ASSUME ReportFitsProgram, NEW g \in Programs, WidenPattern(g)
    PROVE  violations \subseteq violations' /\ ReportFitsProgram'
<1>1. /\ tool = "boundaries" /\ tool' = tool /\ program' = g
      /\ rules' = rules /\ violations' = Violations(g, rules)
      /\ program.loaded \subseteq g.loaded
      /\ \A p \in program.loaded : g.imports[p] = program.imports[p]
  BY DEF WidenPattern, loaded, imports
<1>2. violations = Violations(program, rules)
  BY <1>1 DEF ReportFitsProgram
<1>3. \A rule : Breaks(program, rule) \subseteq Breaks(g, rule)
  BY <1>1, WiderBreaksMore
<1>4. Violations(program, rules) \subseteq Violations(g, rules)
  BY <1>3 DEF Violations
<1> QED BY <1>1, <1>2, <1>4 DEF ReportFitsProgram

(* The other tools do not touch the report.                                *)
LEMMA OthersReportNothing ==
    ASSUME ReportFitsProgram,
           \/ StartRoot \/ Neighbour \/ Return \/ FinishCycles \/ Depending
           \/ \E w \in Windows : FinishSearch(w)
           \/ UNCHANGED pgvars
    PROVE  violations \subseteq violations' /\ ReportFitsProgram'
<1>1. /\ tool' = tool /\ program' = program
      /\ rules' = rules /\ violations' = violations
  BY DEF StartRoot, Neighbour, Return, FinishCycles, Depending, FinishSearch,
         pgvars, checks
<1> QED BY <1>1 DEF ReportFitsProgram

LEMMA InitReports == InitImports => ReportFitsProgram
BY DEF InitImports, ReportFitsProgram, Violations

LEMMA NextReports ==
    ReportFitsProgram /\ [NextImports]_pgvars
        => violations \subseteq violations' /\ ReportFitsProgram'
BY AddRuleReportsMore, WidenReportsMore, OthersReportNothing DEF NextImports

(* CheckArchitectureBoundaries: running the check again with one more rule *)
(* or a wider pattern reports everything it reported before.               *)
THEOREM BoundariesAreMonotone == SpecImports => NoViolationLost
<1>1. ReportFitsProgram /\ [NextImports]_pgvars => [violations \subseteq violations']_pgvars
  BY NextReports
<1> QED BY InitReports, NextReports, <1>1, PTL DEF SpecImports, NoViolationLost

-----------------------------------------------------------------------------
(* Numbers, sequences and sorted sets.                                     *)

LEMMA Induction ==
    ASSUME NEW G, 0 \in G, \A n \in Nat : n \in G => n + 1 \in G
    PROVE  Nat \subseteq G
<1> DEFINE B == Nat \ G
<1>1. SUFFICES ASSUME B # {} PROVE FALSE
  OBVIOUS
<1>2. PICK n \in B : \A m \in B : ~ (<<m, n>> \in OpToRel(<, Nat))
  BY <1>1, WFMin, NatLessThanWellFounded
<1>3. \A m \in B : ~ (m < n)
  BY <1>2 DEF OpToRel
<1>4. n \in Nat /\ n # 0 /\ n - 1 \in Nat /\ n - 1 < n
  OBVIOUS
<1>5. n - 1 \in G
  BY <1>3, <1>4
<1>6. n - 1 + 1 \in G
  BY <1>4, <1>5
<1> QED BY <1>4, <1>6

LEMMA Least ==
    ASSUME NEW S \in SUBSET Nat, S # {}
    PROVE  \E m \in S : \A x \in S : m <= x
<1>1. PICK m \in S : \A x \in S : ~ (<<x, m>> \in OpToRel(<, Nat))
  BY WFMin, NatLessThanWellFounded
<1>2. \A x \in S : ~ (x < m)
  BY <1>1 DEF OpToRel
<1> QED BY <1>2

Increasing(s) == \A i, j \in DOMAIN s : i < j => s[i] < s[j]

(* s lists the n members of S in their order.                              *)
Lists(s, S, n) ==
    /\ s \in [1..n -> S]
    /\ \A x \in S : \E i \in 1..n : s[i] = x
    /\ Increasing(s)

LEMMA ListExists ==
    \A n \in Nat : \A S \in SUBSET Nat :
        IsFiniteSet(S) /\ Cardinality(S) = n => \E s : Lists(s, S, n)
<1> DEFINE G == {n \in Nat : \A S \in SUBSET Nat :
                    IsFiniteSet(S) /\ Cardinality(S) = n => \E s : Lists(s, S, n)}
<1>1. 0 \in G
  <2>1. ASSUME NEW S \in SUBSET Nat, IsFiniteSet(S), Cardinality(S) = 0
        PROVE  \E s : Lists(s, S, 0)
    <3>1. S = {}
      BY <2>1, FS_EmptySet
    <3>2. 1..0 = {}
      OBVIOUS
    <3>3. [i \in 1..0 |-> 0] \in [1..0 -> S] /\ DOMAIN [i \in 1..0 |-> 0] = {}
      BY <3>2
    <3> QED BY <3>1, <3>2, <3>3 DEF Lists, Increasing
  <2> QED BY <2>1
<1>2. ASSUME NEW n \in Nat, n \in G PROVE n + 1 \in G
  <2>1. SUFFICES ASSUME NEW S \in SUBSET Nat, IsFiniteSet(S), Cardinality(S) = n + 1
                 PROVE  \E s : Lists(s, S, n + 1)
    OBVIOUS
  <2>2. S # {}
    BY <2>1, FS_EmptySet
  <2>3. PICK m \in S : \A x \in S : m <= x
    BY <2>2, Least
  <2>4. PICK T : T = S \ {m}
    OBVIOUS
  <2>5. IsFiniteSet(T) /\ Cardinality(T) = n /\ T \in SUBSET Nat
    BY <2>1, <2>4, FS_RemoveElement
  <2>6. PICK t : Lists(t, T, n)
    BY <1>2, <2>5
  <2>7. PICK s : s = [i \in 1..(n + 1) |-> IF i = 1 THEN m ELSE t[i - 1]]
    OBVIOUS
  <2>8. /\ DOMAIN s = 1..(n + 1) /\ s[1] = m
        /\ \A i \in 1..n : s[i + 1] = t[i]
        /\ \A i \in 2..(n + 1) : i - 1 \in 1..n /\ s[i] = t[i - 1]
    BY <2>7
  <2>9. ASSUME NEW i \in 1..n PROVE t[i] \in T /\ t[i] > m
    <3>1. t[i] \in T
      BY <2>6 DEF Lists
    <3>2. t[i] \in S /\ t[i] # m /\ t[i] \in Nat /\ m \in Nat /\ m <= t[i]
      BY <2>3, <2>4, <3>1
    <3> QED BY <3>1, <3>2
  <2>10. s \in [1..(n + 1) -> S]
    BY <2>4, <2>7, <2>9
  <2>11. ASSUME NEW x \in S PROVE \E i \in 1..(n + 1) : s[i] = x
    <3>1. CASE x = m
      BY <2>8, <3>1
    <3>2. CASE x # m
      <4>1. PICK i \in 1..n : t[i] = x
        BY <2>4, <2>6, <3>2 DEF Lists
      <4> QED BY <2>8, <4>1
    <3> QED BY <3>1, <3>2
  <2>12. ASSUME NEW i \in 1..(n + 1), NEW j \in 1..(n + 1), i < j PROVE s[i] < s[j]
    <3>1. j \in 2..(n + 1) /\ j - 1 \in 1..n /\ s[j] = t[j - 1]
      BY <2>8, <2>12
    <3>2. CASE i = 1
      BY <2>8, <2>9, <3>1, <3>2
    <3>3. CASE i # 1
      <4>1. i - 1 \in 1..n /\ s[i] = t[i - 1] /\ i - 1 < j - 1
        BY <2>8, <2>12, <3>3
      <4>2. DOMAIN t = 1..n
        BY <2>6 DEF Lists
      <4> QED BY <2>6, <3>1, <4>1, <4>2 DEF Lists, Increasing
    <3> QED BY <3>2, <3>3
  <2>13. Lists(s, S, n + 1)
    BY <2>8, <2>10, <2>11, <2>12 DEF Lists, Increasing
  <2> QED BY <2>13
<1>3. Nat \subseteq G
  <2> HIDE DEF G
  <2> QED BY <1>1, <1>2, Induction
<1> QED BY <1>3

LEMMA FunctionIsSeq ==
    ASSUME NEW S, NEW n \in Nat, NEW f \in [1..n -> S]
    PROVE  f \in Seq(S) /\ Len(f) = n /\ DOMAIN f = 1..n
<1>1. f \in Seq(S)
  BY SeqDef
<1>2. Len(f) \in Nat /\ DOMAIN f = 1..Len(f)
  BY <1>1, LenProperties
<1>3. 1..Len(f) = 1..n
  BY <1>2
<1> QED BY <1>1, <1>2, <1>3

LEMMA SortedProperties ==
    ASSUME NEW S \in SUBSET Nat, IsFiniteSet(S)
    PROVE  /\ Sorted(S) \in Seq(S) /\ Len(Sorted(S)) = Cardinality(S)
           /\ ToSet(Sorted(S)) = S /\ Increasing(Sorted(S))
<1>1. PICK n \in Nat : n = Cardinality(S)
  BY FS_CardinalityType
<1>2. PICK t : Lists(t, S, n)
  BY <1>1, ListExists
<1>3. t \in SetToSeqs(S) /\ \A i, j \in DOMAIN t : i < j => t[i] < t[j]
  <2>1. t \in [1..n -> S] /\ \A i, j \in 1..n : i < j => t[i] < t[j]
    BY <1>2 DEF Lists, Increasing
  <2>2. \A i, j \in 1..n : i # j => t[i] # t[j]
    <3>1. SUFFICES ASSUME NEW i \in 1..n, NEW j \in 1..n, i # j PROVE t[i] # t[j]
      OBVIOUS
    <3>2. t[i] \in Nat /\ t[j] \in Nat
      BY <2>1
    <3>3. CASE i < j
      BY <2>1, <3>2, <3>3
    <3>4. CASE j < i
      <4>1. t[j] < t[i]
        BY <2>1, <3>4
      <4> QED BY <3>2, <4>1
    <3> QED BY <3>1, <3>3, <3>4
  <2> QED BY <1>1, <2>1, <2>2 DEF SetToSeqs
<1>4. PICK s : s = Sorted(S)
  OBVIOUS
<1>5. s \in SetToSeqs(S) /\ Increasing(s)
  BY <1>3, <1>4 DEF Sorted, Increasing
<1>6. s \in [1..n -> S] /\ \A i, j \in 1..n : i # j => s[i] # s[j]
  BY <1>1, <1>5 DEF SetToSeqs
<1>7. s \in Seq(S) /\ Len(s) = n /\ DOMAIN s = 1..n
  BY <1>6, FunctionIsSeq
<1>8. ToSet(s) = S
  <2>1. s \in Injection(1..n, S)
    BY <1>6 DEF Injection, IsInjective
  <2>2. IsFiniteSet(1..n) /\ Cardinality(1..n) = n
    BY FS_Interval
  <2>3. s \in Surjection(1..n, S)
    BY <1>1, <2>1, <2>2, FS_Injection
  <2>4. \A x \in S : \E i \in 1..n : s[i] = x
    BY <2>3 DEF Surjection
  <2>5. \A i \in DOMAIN s : s[i] \in S
    BY <1>6, <1>7
  <2>6. \A x \in S : \E i \in DOMAIN s : s[i] = x
    BY <1>7, <2>4
  <2> QED BY <2>5, <2>6 DEF ToSet
<1> QED BY <1>1, <1>4, <1>5, <1>7, <1>8

LEMMA ToSetOfParts ==
    ASSUME NEW S, NEW s \in Seq(S), NEW t \in Seq(S)
    PROVE  /\ ToSet(s) \subseteq S
           /\ ToSet(s \o t) = ToSet(s) \cup ToSet(t)
           /\ s # <<>> => /\ Head(s) \in ToSet(s)
                          /\ Tail(s) \in Seq(S)
                          /\ ToSet(s) = {Head(s)} \cup ToSet(Tail(s))
<1>1. Len(s) \in Nat /\ DOMAIN s = 1..Len(s) /\ Len(t) \in Nat /\ DOMAIN t = 1..Len(t)
  BY LenProperties
<1>2. ToSet(s) \subseteq S
  BY <1>1, ElementOfSeq DEF ToSet
<1>3. ToSet(s \o t) = ToSet(s) \cup ToSet(t)
  <2>1. PICK u \in Seq(S) : u = s \o t
    BY ConcatProperties
  <2>2. /\ Len(u) = Len(s) + Len(t) /\ DOMAIN u = 1..Len(u)
        /\ \A i \in 1..Len(s) : u[i] = s[i]
        /\ \A i \in 1..Len(t) : u[i + Len(s)] = t[i]
    <3>1. /\ Len(u) = Len(s) + Len(t) /\ DOMAIN u = 1..Len(u)
          /\ \A i \in 1..(Len(s) + Len(t)) : u[i] = IF i <= Len(s) THEN s[i] ELSE t[i - Len(s)]
      BY <2>1, ConcatProperties, LenProperties
    <3>2. \A i \in 1..Len(s) : u[i] = s[i]
      <4> TAKE i \in 1..Len(s)
      <4>1. i \in 1..(Len(s) + Len(t)) /\ i <= Len(s)
        BY <1>1
      <4> QED BY <4>1, <3>1
    <3>3. \A i \in 1..Len(t) : u[i + Len(s)] = t[i]
      <4> TAKE i \in 1..Len(t)
      <4>1. i + Len(s) \in 1..(Len(s) + Len(t)) /\ ~(i + Len(s) <= Len(s)) /\ (i + Len(s)) - Len(s) = i
        BY <1>1
      <4>2. u[i + Len(s)] = t[(i + Len(s)) - Len(s)]
        BY <4>1, <3>1
      <4> QED BY <4>1, <4>2
    <3> QED BY <3>1, <3>2, <3>3
  <2>3. \A i \in DOMAIN u : i \in DOMAIN s \/ i - Len(s) \in DOMAIN t
    BY <1>1, <2>2
  <2>4. \A i \in DOMAIN u : i \notin DOMAIN s => u[i] = t[i - Len(s)]
    BY <1>1, <2>2
  <2>5. ToSet(u) \subseteq ToSet(s) \cup ToSet(t)
    <3>1. \A i \in DOMAIN u : u[i] \in ToSet(s) \/ u[i] \in ToSet(t)
      BY <1>1, <2>2, <2>3, <2>4 DEF ToSet
    <3> QED BY <3>1 DEF ToSet
  <2>6. ToSet(s) \subseteq ToSet(u)
    <3>1. \A i \in DOMAIN s : i \in DOMAIN u /\ u[i] = s[i]
      BY <1>1, <2>2
    <3> QED BY <3>1 DEF ToSet
  <2>7. ToSet(t) \subseteq ToSet(u)
    <3>1. \A i \in DOMAIN t : i + Len(s) \in DOMAIN u /\ u[i + Len(s)] = t[i]
      BY <1>1, <2>2
    <3> QED BY <3>1 DEF ToSet
  <2> QED BY <2>1, <2>5, <2>6, <2>7
<1>4. ASSUME s # <<>>
      PROVE  /\ Head(s) \in ToSet(s) /\ Tail(s) \in Seq(S)
             /\ ToSet(s) = {Head(s)} \cup ToSet(Tail(s))
  <2>1. PICK u \in Seq(S) : u = Tail(s)
    BY <1>4, HeadTailProperties
  <2>2. /\ Len(u) = Len(s) - 1 /\ DOMAIN u = 1..(Len(s) - 1) /\ Len(s) > 0 /\ Head(s) = s[1]
        /\ \A i \in 1..(Len(s) - 1) : u[i] = s[i + 1]
    BY <1>1, <1>4, <2>1, HeadTailProperties, LenProperties, EmptySeq
  <2>3. ToSet(s) = {s[1]} \cup ToSet(u)
    <3>1. \A i \in DOMAIN s : i = 1 \/ (i - 1 \in DOMAIN u /\ s[i] = u[i - 1])
      BY <1>1, <2>2
    <3>2. \A i \in DOMAIN u : i + 1 \in DOMAIN s /\ u[i] = s[i + 1]
      BY <1>1, <2>2
    <3>3. ToSet(s) \subseteq {s[1]} \cup ToSet(u)
      <4>1. \A i \in DOMAIN s : s[i] = s[1] \/ s[i] \in ToSet(u)
        BY <3>1 DEF ToSet
      <4> QED BY <4>1 DEF ToSet
    <3>4. s[1] \in ToSet(s)
      BY <1>1, <2>2 DEF ToSet
    <3>5. ToSet(u) \subseteq ToSet(s)
      BY <3>2 DEF ToSet
    <3> QED BY <3>3, <3>4, <3>5
  <2> QED BY <1>1, <2>1, <2>2, <2>3 DEF ToSet
<1> QED BY <1>2, <1>3, <1>4

(* Any order of a set lists its members, each once.                        *)
LEMMA AnyOrder ==
    ASSUME NEW S, IsFiniteSet(S), NEW s \in SetToSeqs(S)
    PROVE  s \in Seq(S) /\ Len(s) = Cardinality(S) /\ ToSet(s) = S
<1>1. PICK n \in Nat : n = Cardinality(S)
  BY FS_CardinalityType
<1>2. s \in [1..n -> S] /\ \A i, j \in 1..n : i # j => s[i] # s[j]
  BY <1>1 DEF SetToSeqs
<1>3. s \in Seq(S) /\ Len(s) = n /\ DOMAIN s = 1..n
  BY <1>2, FunctionIsSeq
<1>4. ToSet(s) = S
  <2>1. s \in Injection(1..n, S)
    BY <1>2 DEF Injection, IsInjective
  <2>2. IsFiniteSet(1..n) /\ Cardinality(1..n) = n
    BY FS_Interval
  <2>3. s \in Surjection(1..n, S)
    BY <1>1, <2>1, <2>2, FS_Injection
  <2>4. \A x \in S : \E i \in 1..n : s[i] = x
    BY <2>3 DEF Surjection
  <2>5. \A i \in DOMAIN s : s[i] \in S
    BY <1>2, <1>3
  <2>6. \A x \in S : \E i \in DOMAIN s : s[i] = x
    BY <1>3, <2>4
  <2> QED BY <2>5, <2>6 DEF ToSet
<1> QED BY <1>1, <1>3, <1>4

-----------------------------------------------------------------------------
(* Reverse dependencies.                                                   *)

(* A part of a sequence has members of the sequence only.                  *)
LEMMA PartProperties ==
    ASSUME NEW S, NEW s \in Seq(S), NEW i \in 0..Len(s), NEW j \in i..Len(s)
    PROVE  /\ Len(s) \in Nat
           /\ SubSeq(s, i + 1, j) \in Seq(S)
           /\ Len(SubSeq(s, i + 1, j)) = j - i
           /\ ToSet(SubSeq(s, i + 1, j)) \subseteq ToSet(s)
<1>1. Len(s) \in Nat /\ DOMAIN s = 1..Len(s)
  BY LenProperties
<1>2. i + 1 \in Int /\ j \in Int /\ \A k \in (i + 1)..j : k \in 1..Len(s)
  BY <1>1
<1>3. \A k \in (i + 1)..j : s[k] \in S
  BY <1>2, ElementOfSeq
<1>4. PICK t : t = SubSeq(s, i + 1, j)
  OBVIOUS
<1>5. /\ t \in Seq(S)
      /\ Len(t) = IF i + 1 <= j THEN j - (i + 1) + 1 ELSE 0
      /\ \A k \in 1..(j - (i + 1) + 1) : t[k] = s[(i + 1) + k - 1]
  BY <1>2, <1>3, <1>4, SubSeqProperties
<1>6. Len(t) = j - i /\ \A k \in 1..(j - i) : t[k] = s[i + k]
  BY <1>1, <1>2, <1>5
<1>7. DOMAIN t = 1..(j - i)
  BY <1>5, <1>6, LenProperties
<1>8. \A k \in DOMAIN t : i + k \in DOMAIN s /\ t[k] = s[i + k]
  BY <1>1, <1>2, <1>6, <1>7
<1>9. ToSet(t) \subseteq ToSet(s)
  BY <1>8 DEF ToSet
<1> QED BY <1>1, <1>4, <1>5, <1>6, <1>9

LEMMA PrefixProperties ==
    ASSUME NEW S, NEW s \in Seq(S), NEW j \in 0..Len(s)
    PROVE  /\ Len(s) \in Nat
           /\ SubSeq(s, 1, j) \in Seq(S)
           /\ Len(SubSeq(s, 1, j)) = j
           /\ ToSet(SubSeq(s, 1, j)) \subseteq ToSet(s)
<1>1. Len(s) \in Nat
  BY LenProperties
<1>2. 0 \in 0..Len(s) /\ j \in 0..Len(s) /\ 0 + 1 = 1 /\ j - 0 = j
  BY <1>1
<1>3. /\ SubSeq(s, 0 + 1, j) \in Seq(S) /\ Len(SubSeq(s, 0 + 1, j)) = j - 0
      /\ ToSet(SubSeq(s, 0 + 1, j)) \subseteq ToSet(s)
  BY <1>2, PartProperties
<1> QED BY <1>1, <1>2, <1>3

(* How many of n items a client with these options can get.                *)
Offered(w, n) == IF w.chunkSize > 0 /\ w.maxItems > 0 THEN AtMost(n, w.maxItems) ELSE n

(* What an answer shows of a list of which n items are offered: it counts  *)
(* as truncated exactly when one of these is missing.                      *)
ShowsPart(items, truncated, more, s, n) ==
    /\ Len(items) \in 0..n
    /\ ToSet(items) \subseteq ToSet(s)
    /\ truncated <=> Len(items) < n
    /\ more => truncated

LEMMA StreamsFacts ==
    ASSUME NEW w \in Windows
    PROVE  /\ w.limit \in Int /\ w.offset \in Int /\ w.maxItems \in Int
           /\ w.chunkSize \in Int /\ w.from \in Nat
           /\ clampChunkSize(w.chunkSize) \in Int
           /\ Streams(w) <=> w.chunkSize > 0
<1>1. /\ w.limit \in Int /\ w.offset \in Int /\ w.maxItems \in Int
      /\ w.chunkSize \in Int /\ w.from \in Nat
  BY WindowsAssumption
<1>2. MaxChunkSize \in Nat /\ MaxChunkSize > 0
  BY MaxChunkSizeAssumption
<1> QED BY <1>1, <1>2 DEF Streams, clampChunkSize, AtMost

(* A page: from the offset to what limit and max_items allow.              *)
LEMMA PageShowsPart ==
    ASSUME NEW S, NEW s \in Seq(S), NEW w \in Windows
    PROVE  LET v == applyQueryWindow(s, w)
           IN  ShowsPart(v.chunk, v.truncated, FALSE, s, Len(s))
<1> DEFINE o == normalizeQueryOptions(w)
           v == applyQueryWindow(s, w)
           n == Len(s)
           i == AtMost(o.offset, n)
           a == IF o.maxItems > 0 THEN AtMost(n, i + o.maxItems) ELSE n
           j == IF o.limit > 0 THEN AtMost(a, i + o.limit) ELSE a
<1>1. n \in Nat
  BY LenProperties
<1>2. o.limit \in Nat /\ o.maxItems \in Nat /\ o.offset \in Nat
  BY StreamsFacts DEF normalizeQueryOptions, NotNegative
<1>3. i \in 0..n
  BY <1>1, <1>2 DEF AtMost
<1>4. a \in i..n
  BY <1>1, <1>2, <1>3 DEF AtMost
<1>5. j \in i..n
  BY <1>1, <1>2, <1>3, <1>4 DEF AtMost
<1>6. v.chunk = SubSeq(s, i + 1, j) /\ (v.truncated <=> i > 0 \/ j < n)
  BY DEF applyQueryWindow
<1> HIDE DEF i, j, v
<1>7. Len(v.chunk) = j - i /\ ToSet(v.chunk) \subseteq ToSet(s)
  BY <1>3, <1>5, <1>6, PartProperties
<1>8. Len(v.chunk) \in 0..n /\ (v.truncated <=> Len(v.chunk) < n)
  BY <1>1, <1>3, <1>5, <1>6, <1>7
<1>9. ShowsPart(v.chunk, v.truncated, FALSE, s, n)
  BY <1>7, <1>8 DEF ShowsPart
<1> QED BY <1>9 DEF v

(* A chunk of what max_items leaves of the list: it begins at the cursor.  *)
LEMMA ChunkShowsPart ==
    ASSUME NEW s \in Seq(Nat), NEW w \in Windows, Streams(w), NEW c, NEW i \in Nat,
           i <= Len(Addressable(s, w.maxItems)),
           IF c = NoCursor THEN i = 0 ELSE i = c.offset /\ i > 0
    PROVE  LET v == streamOrWindow(s, c, w)
           IN  ShowsPart(v.chunk, Truncates(s, c, w), v.hasMore, s, Offered(w, Len(s)))
<1> DEFINE v == streamOrWindow(s, c, w)
           A == Addressable(s, w.maxItems)
           n == Len(A)
           j == AtMost(i + clampChunkSize(w.chunkSize), n)
<1>1. /\ w.maxItems \in Int /\ w.chunkSize > 0
      /\ clampChunkSize(w.chunkSize) \in Nat /\ Len(s) \in Nat
  BY StreamsFacts, LenProperties DEF Streams
<1>2. /\ A \in Seq(Nat) /\ n = Offered(w, Len(s)) /\ ToSet(A) \subseteq ToSet(s)
  <2>1. CASE w.maxItems > 0 /\ Len(s) > w.maxItems
    <3>1. w.maxItems \in 0..Len(s) /\ A = SubSeq(s, 1, w.maxItems)
      BY <1>1, <2>1 DEF Addressable
    <3>2. A \in Seq(Nat) /\ n = w.maxItems /\ ToSet(A) \subseteq ToSet(s)
      BY <3>1, PrefixProperties
    <3> QED BY <1>1, <2>1, <3>2 DEF Offered, AtMost
  <2>2. CASE ~(w.maxItems > 0 /\ Len(s) > w.maxItems)
    <3>1. A = s
      BY <2>2 DEF Addressable
    <3> QED BY <1>1, <2>2, <3>1 DEF Offered, AtMost
  <2> QED BY <2>1, <2>2
<1> HIDE DEF A
<1>3. n \in Nat
  BY <1>2, LenProperties
<1>4. i \in 0..n /\ j \in i..n
  BY <1>1, <1>3 DEF A, AtMost
<1>5. AtMost(i, n) = i
  BY <1>3, <1>4 DEF AtMost
<1>6. /\ v.chunk = SubSeq(A, i + 1, j) /\ v.hasMore = (j < n)
  <2>1. v = applyStreamWindow(A, c, w.chunkSize)
    BY DEF streamOrWindow, A
  <2> DEFINE at == IF c = NoCursor THEN 0 ELSE AtMost(c.offset, n)
             till == AtMost(at + clampChunkSize(w.chunkSize), n)
  <2> HIDE DEF v
  <2>2. v.chunk = SubSeq(A, at + 1, till) /\ v.hasMore = (till < n)
    BY <2>1 DEF applyStreamWindow
  <2>3. at = i
    BY <1>5
  <2> HIDE DEF at
  <2> QED BY <2>2, <2>3
<1>7. Truncates(s, c, w) <=> j < n \/ i > 0
  <2>1. Truncates(s, c, w) = (v.hasMore \/ c # NoCursor)
    BY DEF Truncates
  <2>2. c # NoCursor <=> i > 0
    OBVIOUS
  <2> HIDE DEF v, j
  <2> QED BY <1>6, <2>1, <2>2
<1> HIDE DEF v, j, n
<1>8. Len(v.chunk) = j - i /\ ToSet(v.chunk) \subseteq ToSet(A)
  BY <1>2, <1>4, <1>6, PartProperties DEF n
<1>9. Len(v.chunk) \in 0..n /\ (Truncates(s, c, w) <=> Len(v.chunk) < n)
  BY <1>3, <1>4, <1>7, <1>8
<1>10. ShowsPart(v.chunk, Truncates(s, c, w), v.hasMore, s, n)
  BY <1>2, <1>6, <1>7, <1>8, <1>9 DEF ShowsPart
<1> QED BY <1>2, <1>10 DEF v, n

Importers(g, p) == {q \in g.loaded : p \in g.imports[q]}

Closing(g, t, S) == Importers(g, t) \subseteq S /\ \A p \in S : Importers(g, p) \subseteq S

(* What has been visited is part of the answer, and what is missing is     *)
(* imported by something that still waits in the queue.                    *)
Searching(g, t, waiting, seen) ==
    /\ seen \subseteq g.loaded
    /\ waiting \in Seq(g.loaded)
    /\ ToSet(waiting) \subseteq seen
    /\ Importers(g, t) \subseteq seen
    /\ \A p \in seen : p \in ToSet(waiting) \/ Importers(g, p) \subseteq seen
    /\ \A S \in SUBSET Packages : Closing(g, t, S) => seen \subseteq S

AnswerFits(a, seen, near) ==
    /\ a.truncated <=> Len(a.direct) + Len(a.transitive)
                          < Offered(a.call, Cardinality(near)) + Cardinality(seen \ near)
    /\ a.hasMore => a.truncated
    /\ a.total = Cardinality(seen)
    /\ ToSet(a.direct) \cap ToSet(a.transitive) = {}
    /\ ToSet(a.direct) \cup ToSet(a.transitive) \subseteq seen

SearchInv ==
    /\ tool \in {"cycles", "reverse", "boundaries"}
    /\ program \in Programs
    /\ tool = "reverse" =>
        /\ Searching(program, target, pending, visited)
        /\ ~running => /\ pending = <<>>
                       /\ \A a \in found : AnswerFits(a, visited, Importers(program, target))

LEMMA ImportersAreFinite ==
    ASSUME NEW g \in Programs, NEW p
    PROVE  /\ g.loaded \subseteq Packages /\ g.loaded \subseteq Nat /\ IsFiniteSet(g.loaded)
           /\ Importers(g, p) \subseteq g.loaded /\ IsFiniteSet(Importers(g, p))
<1>1. g.loaded \subseteq Packages /\ g.loaded \subseteq Nat
  BY ProgramsAssumption, PackagesAssumption
<1>2. IsFiniteSet(g.loaded)
  BY <1>1, PackagesAssumption, FS_Subset
<1>3. Importers(g, p) \subseteq g.loaded
  BY DEF Importers
<1> QED BY <1>1, <1>2, <1>3, FS_Subset

(* One package of the queue: what imports it is visited and queued.        *)
LEMMA SearchStep ==
    ASSUME NEW g \in Programs, NEW t, NEW waiting, NEW seen,
           Searching(g, t, waiting, seen), waiting # <<>>
    PROVE  LET fresh == Importers(g, Head(waiting)) \ seen
           IN  Searching(g, t, Tail(waiting) \o Sorted(fresh), seen \cup fresh)
<1> DEFINE h == Head(waiting)
           fresh == Importers(g, h) \ seen
           later == Tail(waiting) \o Sorted(fresh)
           now == seen \cup fresh
<1>1. /\ seen \subseteq g.loaded /\ waiting \in Seq(g.loaded)
      /\ ToSet(waiting) \subseteq seen /\ Importers(g, t) \subseteq seen
      /\ \A p \in seen : p \in ToSet(waiting) \/ Importers(g, p) \subseteq seen
      /\ \A S \in SUBSET Packages : Closing(g, t, S) => seen \subseteq S
  BY DEF Searching
<1>2. fresh \subseteq g.loaded /\ fresh \in SUBSET Nat /\ IsFiniteSet(fresh)
  <2>1. /\ g.loaded \subseteq Nat
        /\ Importers(g, h) \subseteq g.loaded /\ IsFiniteSet(Importers(g, h))
    BY ImportersAreFinite
  <2> QED BY <2>1, FS_Subset
<1>3. Sorted(fresh) \in Seq(fresh) /\ ToSet(Sorted(fresh)) = fresh
  BY <1>2, SortedProperties
<1>4. Sorted(fresh) \in Seq(g.loaded)
  <2>1. PICK u \in Seq(fresh) : u = Sorted(fresh)
    BY <1>3
  <2>2. u \in Seq(g.loaded)
    BY <1>2, <2>1
  <2> QED BY <2>1, <2>2
<1>5. /\ h \in ToSet(waiting) /\ Tail(waiting) \in Seq(g.loaded)
      /\ ToSet(waiting) = {h} \cup ToSet(Tail(waiting))
  BY <1>1, <1>4, ToSetOfParts
<1>6. /\ later \in Seq(g.loaded)
      /\ ToSet(later) = ToSet(Tail(waiting)) \cup fresh
  <2>1. PICK u \in Seq(g.loaded) : u = Tail(waiting)
    BY <1>5
  <2>2. PICK w \in Seq(g.loaded) : w = Sorted(fresh)
    BY <1>4
  <2>3. u \o w \in Seq(g.loaded) /\ ToSet(u \o w) = ToSet(u) \cup ToSet(w)
    BY ToSetOfParts, ConcatProperties
  <2> QED BY <1>3, <2>1, <2>2, <2>3
<1>7. Importers(g, h) \subseteq now
  OBVIOUS
<1> HIDE DEF h, later
<1>8. \A p \in now : p \in ToSet(later) \/ Importers(g, p) \subseteq now
  <2>1. SUFFICES ASSUME NEW p \in now, p \notin ToSet(later)
                 PROVE  Importers(g, p) \subseteq now
    OBVIOUS
  <2>2. p \in seen /\ p \notin ToSet(Tail(waiting))
    BY <1>6, <2>1
  <2>3. CASE p = h
    BY <1>7, <2>3
  <2>4. CASE p # h
    BY <1>1, <1>5, <2>2, <2>4
  <2> QED BY <2>3, <2>4
<1>9. \A S \in SUBSET Packages : Closing(g, t, S) => now \subseteq S
  <2>1. SUFFICES ASSUME NEW S \in SUBSET Packages, Closing(g, t, S) PROVE now \subseteq S
    OBVIOUS
  <2>2. seen \subseteq S
    BY <1>1, <2>1
  <2>3. h \in S
    BY <1>1, <1>5, <2>2
  <2>4. Importers(g, h) \subseteq S
    BY <2>1, <2>3 DEF Closing
  <2> QED BY <2>2, <2>4
<1>10. now \subseteq g.loaded /\ ToSet(later) \subseteq now /\ Importers(g, t) \subseteq now
  BY <1>1, <1>2, <1>5, <1>6
<1>11. Searching(g, t, later, now)
  BY <1>6, <1>8, <1>9, <1>10 DEF Searching
<1> QED BY <1>11 DEF h, later

(* When the queue is empty, what was visited is the least closed set.      *)
LEMMA SearchEnds ==
    ASSUME NEW g \in Programs, NEW t, NEW seen, Searching(g, t, <<>>, seen)
    PROVE  Closing(g, t, seen)
<1>1. ToSet(<<>>) = {}
  BY DEF ToSet
<1> QED BY <1>1 DEF Searching, Closing

LEMMA WiderSeq ==
    ASSUME NEW S, NEW R, S \subseteq R, NEW s \in Seq(S)
    PROVE  s \in Seq(R)
OBVIOUS

(* Chunks and pages of the direct dependents: a cursor points into what    *)
(* max_items leaves of them.                                               *)
LEMMA DirectShowsPart ==
    ASSUME NEW w \in Windows, SearchInv, tool = "reverse",
           w.from > 0 => Streams(w) /\ w.from < Len(Addressable(Sorted(direct), w.maxItems))
    PROVE  LET D == Sorted(direct)
               v == streamOrWindow(D, CursorOf(w), w)
           IN  /\ D \in Seq(direct) /\ Len(D) = Cardinality(direct) /\ ToSet(D) = direct
               /\ ShowsPart(v.chunk, Truncates(D, CursorOf(w), w), v.hasMore, D,
                            Offered(w, Len(D)))
<1> DEFINE D == Sorted(direct)
           c == CursorOf(w)
           v == streamOrWindow(D, c, w)
<1>1. direct = Importers(program, target) /\ program \in Programs
  BY DEF direct, reverseAdj, Importers, loaded, imports, SearchInv
<1>2. direct \in SUBSET Nat /\ IsFiniteSet(direct)
  BY <1>1, ImportersAreFinite
<1>3. D \in Seq(direct) /\ Len(D) = Cardinality(direct) /\ ToSet(D) = direct
  BY <1>2, SortedProperties
<1>4. D \in Seq(Nat)
  <2>1. direct \subseteq Nat
    BY <1>2
  <2> QED BY <1>3, <2>1, WiderSeq
<1> HIDE DEF D
<1>5. CASE Streams(w)
  <2> DEFINE A == Addressable(D, w.maxItems)
  <2>1. w.from \in Nat /\ w.maxItems \in Int
    BY StreamsFacts
  <2>2. A \in Seq(Nat) /\ Len(A) \in Nat
    <3>1. CASE w.maxItems > 0 /\ Len(D) > w.maxItems
      <4>1. Len(D) \in Nat
        BY <1>4, LenProperties
      <4>2. w.maxItems \in 0..Len(D) /\ A = SubSeq(D, 1, w.maxItems)
        BY <2>1, <3>1, <4>1 DEF Addressable
      <4>3. SubSeq(D, 1, w.maxItems) \in Seq(Nat)
        BY <1>4, <4>2, PrefixProperties
      <4>4. A \in Seq(Nat)
        BY <4>2, <4>3
      <4> QED BY <4>4, LenProperties
    <3>2. CASE ~(w.maxItems > 0 /\ Len(D) > w.maxItems)
      BY <1>4, <3>2, LenProperties DEF Addressable
    <3> QED BY <3>1, <3>2
  <2>3. w.from > 0 => w.from < Len(A)
    BY DEF D
  <2>4. IF c = NoCursor THEN w.from = 0 ELSE w.from = c.offset /\ w.from > 0
    <3>1. CASE w.from = 0
      BY <3>1 DEF CursorOf
    <3>2. CASE w.from # 0
      <4>1. c = [offset |-> w.from, total |-> Len(A), fingerprint |-> streamFingerprint(A)]
        BY <3>2 DEF CursorOf, D
      <4>2. streamFingerprint(A) \in Seq(Nat)
        <5>1. CASE A = <<>>
          <6>1. streamFingerprint(A) = <<0>>
            BY <5>1 DEF streamFingerprint
          <6> QED BY <6>1
        <5>2. CASE A # <<>>
          <6>1. A[1] \in Nat /\ A[Len(A)] \in Nat
            <7>1. 1 \in 1..Len(A) /\ Len(A) \in 1..Len(A)
              BY <2>2, <5>2, EmptySeq, LenProperties
            <7> QED BY <2>2, <7>1, ElementOfSeq
          <6>2. streamFingerprint(A) = <<Len(A), A[1], A[Len(A)]>>
            BY <5>2 DEF streamFingerprint
          <6> HIDE DEF A
          <6>3. <<Len(A), A[1], A[Len(A)]>> \in Seq(Nat)
            BY <2>2, <6>1
          <6> QED BY <6>2, <6>3
        <5> QED BY <5>1, <5>2
      <4> HIDE DEF A, c
      <4>3. c \in Cursors /\ c.offset = w.from
        BY <2>1, <2>2, <4>1, <4>2 DEF Cursors
      <4>4. c # NoCursor
        BY <4>3, NoCursorAssumption
      <4> QED BY <2>1, <3>2, <4>3, <4>4
    <3> QED BY <3>1, <3>2
  <2>5. w.from <= Len(A)
    BY <2>1, <2>2, <2>3
  <2> HIDE DEF c
  <2>6. ShowsPart(v.chunk, Truncates(D, c, w), v.hasMore, D, Offered(w, Len(D)))
    BY <1>4, <1>5, <2>1, <2>4, <2>5, ChunkShowsPart
  <2> QED BY <1>3, <2>6 DEF c, D
<1>6. CASE ~Streams(w)
  <2> DEFINE q == applyQueryWindow(D, w)
  <2>1. v.chunk = q.chunk /\ v.hasMore = FALSE
    BY <1>6 DEF streamOrWindow
  <2>2. Truncates(D, c, w) = q.truncated
    BY <1>6 DEF Truncates
  <2>3. Offered(w, Len(D)) = Len(D)
    BY <1>6, StreamsFacts DEF Offered
  <2>4. ShowsPart(q.chunk, q.truncated, FALSE, D, Len(D))
    BY <1>3, PageShowsPart
  <2> HIDE DEF q, v, c
  <2>5. ShowsPart(v.chunk, Truncates(D, c, w), v.hasMore, D, Offered(w, Len(D)))
    BY <2>1, <2>2, <2>3, <2>4
  <2> QED BY <1>3, <2>5 DEF v, c, D
<1> QED BY <1>5, <1>6

(* The direct dependents and the others are counted together; of those the *)
(* answer has a part, of these a prefix.                                   *)
LEMMA AnswerStep ==
    ASSUME NEW w \in Windows, SearchInv, tool = "reverse",
           w.from > 0 => Streams(w) /\ w.from < Len(Addressable(Sorted(direct), w.maxItems))
    PROVE  AnswerFits(Answer(w), visited, Importers(program, target))
<1>1. /\ program \in Programs /\ visited \subseteq program.loaded
      /\ Importers(program, target) \subseteq visited
  BY DEF SearchInv, Searching
<1>2. direct = Importers(program, target)
  BY DEF direct, reverseAdj, Importers, loaded, imports
<1> DEFINE rest == visited \ direct
           D == Sorted(direct)
           T == Sorted(rest)
           shown == streamOrWindow(D, CursorOf(w), w)
           trunc == Truncates(D, CursorOf(w), w)
           n == Offered(w, Len(D))
           cap == TransitiveCap(w)
           cut == cap > 0 /\ Len(T) > cap
<1>3. /\ visited \in SUBSET Nat /\ IsFiniteSet(visited)
      /\ direct \in SUBSET Nat /\ IsFiniteSet(direct) /\ direct \subseteq visited
      /\ rest \in SUBSET Nat /\ IsFiniteSet(rest)
  BY <1>1, <1>2, ImportersAreFinite, FS_Subset
<1>4. /\ Cardinality(visited) \in Nat /\ Cardinality(direct) \in Nat
      /\ Cardinality(visited) = Cardinality(direct) + Cardinality(rest)
  <2>1. Cardinality(rest) = Cardinality(visited) - Cardinality(visited \cap direct)
    BY <1>3, FS_Difference
  <2>2. visited \cap direct = direct
    BY <1>3
  <2>3. Cardinality(visited) \in Nat /\ Cardinality(direct) \in Nat
    BY <1>3, FS_CardinalityType
  <2>4. Cardinality(rest) = Cardinality(visited) - Cardinality(direct)
    BY <2>1, <2>2
  <2> HIDE DEF rest
  <2> QED BY <2>3, <2>4
<1>5. /\ Len(D) = Cardinality(direct) /\ ToSet(D) = direct
      /\ ShowsPart(shown.chunk, trunc, shown.hasMore, D, n)
  BY DirectShowsPart
<1>6. T \in Seq(rest) /\ Len(T) = Cardinality(rest) /\ ToSet(T) = rest
  BY <1>3, SortedProperties
<1>7. w.limit \in Int /\ w.maxItems \in Int /\ cap \in Int
  BY StreamsFacts DEF TransitiveCap
<1>8. n \in Nat
  <2>1. w.chunkSize \in Int
    BY StreamsFacts
  <2> HIDE DEF D
  <2> QED BY <1>4, <1>5, <1>7, <2>1 DEF Offered, AtMost
<1>9. PICK k \in 0..Len(T) : /\ (IF cut THEN SubSeq(T, 1, cap) ELSE T) = SubSeq(T, 1, k)
                             /\ cut <=> k < Len(T)
  <2>1. Len(T) \in Nat /\ SubSeq(T, 1, Len(T)) = T
    BY <1>6, LenProperties, SubSeqFull
  <2>2. CASE cut
    <3>1. cap \in 0..Len(T) /\ cap < Len(T)
      BY <1>7, <2>1, <2>2
    <3> QED BY <2>2, <3>1
  <2>3. CASE ~cut
    <3>1. Len(T) \in 0..Len(T) /\ ~(Len(T) < Len(T))
      BY <2>1
    <3> QED BY <2>1, <2>3, <3>1
  <2> QED BY <2>2, <2>3
<1>10. /\ Len(shown.chunk) \in 0..n /\ ToSet(shown.chunk) \subseteq direct
       /\ trunc <=> Len(shown.chunk) < n
       /\ shown.hasMore => trunc
  BY <1>5 DEF ShowsPart
<1>11. /\ Len(T) \in Nat /\ Len(SubSeq(T, 1, k)) = k
       /\ ToSet(SubSeq(T, 1, k)) \subseteq rest
  BY <1>6, <1>9, PrefixProperties
<1>12. /\ Answer(w).call = w
       /\ Answer(w).direct = shown.chunk
       /\ Answer(w).hasMore = shown.hasMore
       /\ Answer(w).transitive = SubSeq(T, 1, k)
       /\ Answer(w).total = Cardinality(direct) + Len(T)
       /\ Answer(w).truncated <=> (trunc \/ k < Len(T))
  <2>1. /\ Answer(w).call = w
        /\ Answer(w).direct = shown.chunk
        /\ Answer(w).hasMore = shown.hasMore
        /\ Answer(w).transitive = IF cut THEN SubSeq(T, 1, cap) ELSE T
        /\ Answer(w).total = Cardinality(direct) + Len(T)
        /\ Answer(w).truncated <=> (trunc \/ cut)
    BY DEF Answer
  <2> HIDE DEF D, T, cut, shown, trunc, rest
  <2> QED BY <2>1, <1>9
<1> HIDE DEF D, T, shown, trunc, cut, cap, rest, n
<1>13. (Len(shown.chunk) < n \/ k < Len(T)) <=> Len(shown.chunk) + k < n + Len(T)
  BY <1>8, <1>9, <1>10, <1>11
<1>14. /\ Answer(w).truncated <=>
              Len(Answer(w).direct) + Len(Answer(w).transitive)
                 < Offered(Answer(w).call, Cardinality(direct)) + Cardinality(visited \ direct)
       /\ Answer(w).hasMore => Answer(w).truncated
       /\ Answer(w).total = Cardinality(visited)
  <2>1. n = Offered(w, Cardinality(direct)) /\ Len(T) = Cardinality(visited \ direct)
    BY <1>5, <1>6 DEF n, rest
  <2>2. Cardinality(visited) = Cardinality(direct) + Len(T)
    BY <1>4, <1>6
  <2> QED BY <1>10, <1>11, <1>12, <1>13, <2>1, <2>2
<1>15. /\ ToSet(Answer(w).direct) \cap ToSet(Answer(w).transitive) = {}
       /\ ToSet(Answer(w).direct) \cup ToSet(Answer(w).transitive) \subseteq visited
  BY <1>3, <1>10, <1>11, <1>12 DEF rest
<1> QED BY <1>2, <1>14, <1>15 DEF AnswerFits

LEMMA InitSearches == InitImports => SearchInv
<1>1. SUFFICES ASSUME InitImports PROVE SearchInv
  OBVIOUS
<1>2. tool \in {"cycles", "reverse", "boundaries"} /\ program \in Programs /\ running
  BY <1>1 DEF InitImports
<1>3. ASSUME tool = "reverse" PROVE Searching(program, target, pending, visited)
  <2>1. visited = Importers(program, target) /\ pending \in SetToSeqs(visited)
    BY <1>1, <1>3 DEF InitImports, direct, reverseAdj, Importers, loaded, imports
  <2>2. visited \subseteq program.loaded /\ IsFiniteSet(visited)
    BY <1>2, <2>1, ImportersAreFinite
  <2>3. pending \in Seq(visited) /\ ToSet(pending) = visited
    BY <2>1, <2>2, AnyOrder
  <2>4. pending \in Seq(program.loaded)
    BY <2>2, <2>3
  <2>5. \A S \in SUBSET Packages : Closing(program, target, S) => visited \subseteq S
    BY <2>1 DEF Closing
  <2> QED BY <2>1, <2>2, <2>3, <2>4, <2>5 DEF Searching
<1> QED BY <1>2, <1>3 DEF SearchInv

LEMMA NextSearches == SearchInv /\ [NextImports]_pgvars => SearchInv'
<1>1. SUFFICES ASSUME SearchInv, [NextImports]_pgvars PROVE SearchInv'
  OBVIOUS
<1>2. CASE Depending
  <2>1. /\ tool = "reverse" /\ running /\ pending # <<>>
        /\ UNCHANGED <<tool, program, running, target>>
    BY <1>2 DEF Depending
  <2>2. program \in Programs /\ Searching(program, target, pending, visited)
    BY <1>1, <2>1 DEF SearchInv
  <2>3. LET fresh == Importers(program, Head(pending)) \ visited
        IN  visited' = visited \cup fresh /\ pending' = Tail(pending) \o Sorted(fresh)
    BY <1>2 DEF Depending, reverseAdj, Importers, loaded, imports
  <2>4. Searching(program, target, pending', visited')
    BY <2>1, <2>2, <2>3, SearchStep
  <2> QED BY <2>1, <2>2, <2>4 DEF SearchInv
<1>3. ASSUME NEW w \in Windows, FinishSearch(w) PROVE SearchInv'
  <2>1. /\ tool = "reverse" /\ pending = <<>> /\ found' = {Answer(w)}
        /\ UNCHANGED <<tool, program, target, pending, visited>>
        /\ w.from > 0 => Streams(w) /\ w.from < Len(Addressable(Sorted(direct), w.maxItems))
    BY <1>3 DEF FinishSearch
  <2>2. AnswerFits(Answer(w), visited, Importers(program, target))
    BY <1>1, <2>1, AnswerStep
  <2>3. \A a \in found' : AnswerFits(a, visited, Importers(program, target))
    BY <2>1, <2>2
  <2> QED BY <1>1, <2>1, <2>3 DEF SearchInv
<1>4. CASE StartRoot \/ Neighbour \/ Return \/ FinishCycles
  <2>1. tool = "cycles" /\ UNCHANGED <<tool, program>>
    BY <1>4 DEF StartRoot, Neighbour, Return, FinishCycles
  <2> QED BY <1>1, <2>1 DEF SearchInv
<1>5. CASE \/ \E r \in Rules : AddRule(r)
           \/ \E g \in Programs : WidenPattern(g)
  <2>1. tool = "boundaries" /\ tool' = tool /\ program' \in Programs
    BY <1>1, <1>5 DEF AddRule, WidenPattern, SearchInv
  <2> QED BY <2>1 DEF SearchInv
<1>6. CASE UNCHANGED pgvars
  BY <1>1, <1>6 DEF SearchInv, pgvars, search
<1> QED BY <1>1, <1>2, <1>3, <1>4, <1>5, <1>6 DEF NextImports

LEMMA SearchIsExact == SearchInv => DependentsExact
<1>1. SUFFICES ASSUME SearchInv, tool = "reverse", ~running PROVE DependentsExact
  BY DEF DependentsExact
<1>2. /\ program \in Programs /\ Searching(program, target, <<>>, visited)
      /\ \A a \in found : AnswerFits(a, visited, Importers(program, target))
  BY <1>1 DEF SearchInv
<1>3. \A S : Closed(S) <=> Closing(program, target, S)
  BY DEF Closed, Closing, direct, reverseAdj, Importers, loaded, imports
<1>4. Closing(program, target, visited)
  BY <1>2, SearchEnds
<1>5. \A S \in SUBSET Packages : Closing(program, target, S) => visited \subseteq S
  BY <1>2 DEF Searching
<1>6. direct = Importers(program, target)
  BY DEF direct, reverseAdj, Importers, loaded, imports
<1>7. \A a : Addressed(a.call) = Offered(a.call, Cardinality(direct))
  BY DEF Addressed, Offered
<1> QED BY <1>2, <1>3, <1>4, <1>5, <1>6, <1>7 DEF DependentsExact, AnswerFits

(* FindReverseDependencies: in whatever order the queue is worked off, it  *)
(* ends with the least set of dependents; the answer counts all of them,   *)
(* and says "truncated" exactly when it leaves one of them out that a page *)
(* or a chunk could have had.                                              *)
THEOREM DependentsAreExact == SpecImports => []DependentsExact
BY InitSearches, NextSearches, SearchIsExact, PTL DEF SpecImports

-----------------------------------------------------------------------------
(* Layers: what is reached after 0, 1, 2, ... steps.                       *)

Layering(L, n, A, F) == L = [k \in 0..n |-> IF k = 0 THEN A ELSE F[L[k - 1]]]

Extensive(F, U) == F \in [SUBSET U -> SUBSET U] /\ \A S \in SUBSET U : S \subseteq F[S]

LEMMA LayersExist ==
    ASSUME NEW U, NEW A \in SUBSET U, NEW F \in [SUBSET U -> SUBSET U]
    PROVE  \A n \in Nat : \E L \in [0..n -> SUBSET U] : Layering(L, n, A, F)
<1> DEFINE G == {n \in Nat : \E L \in [0..n -> SUBSET U] : Layering(L, n, A, F)}
<1>1. 0 \in G
  <2> DEFINE L == [k \in 0..0 |-> A]
  <2>1. L \in [0..0 -> SUBSET U] /\ Layering(L, 0, A, F)
    BY DEF Layering
  <2> HIDE DEF L
  <2> QED BY <2>1
<1>2. ASSUME NEW n \in Nat, n \in G PROVE n + 1 \in G
  <2>1. PICK L \in [0..n -> SUBSET U] : Layering(L, n, A, F)
    BY <1>2
  <2> DEFINE M == [k \in 0..(n + 1) |-> IF k = n + 1 THEN F[L[n]] ELSE L[k]]
  <2>2. \A k \in 0..n : L[k] = IF k = 0 THEN A ELSE F[L[k - 1]]
    BY <2>1 DEF Layering
  <2>3. ASSUME NEW k \in 0..(n + 1)
        PROVE  M[k] \in SUBSET U /\ M[k] = IF k = 0 THEN A ELSE F[M[k - 1]]
    <3>1. CASE k = 0
      <4>1. M[k] = L[0] /\ L[0] = A
        BY <2>2, <3>1
      <4> QED BY <3>1, <4>1
    <3>2. CASE k = n + 1
      <4>1. M[k] = F[L[n]] /\ M[k - 1] = L[n] /\ L[n] \in SUBSET U
        BY <3>2
      <4> QED BY <3>2, <4>1
    <3>3. CASE k # 0 /\ k # n + 1
      <4>1. M[k] = L[k] /\ M[k - 1] = L[k - 1] /\ L[k - 1] \in SUBSET U /\ L[k] = F[L[k - 1]]
        BY <2>2, <3>3
      <4> QED BY <3>3, <4>1
    <3> QED BY <3>1, <3>2, <3>3
  <2>4. M = [k \in 0..(n + 1) |-> M[k]]
    OBVIOUS
  <2> HIDE DEF M
  <2>5. M = [k \in 0..(n + 1) |-> IF k = 0 THEN A ELSE F[M[k - 1]]]
    BY <2>3, <2>4
  <2>6. M \in [0..(n + 1) -> SUBSET U]
    BY <2>3, <2>4
  <2> QED BY <2>5, <2>6 DEF Layering
<1>3. Nat \subseteq G
  <2> HIDE DEF G
  <2> QED BY <1>1, <1>2, Induction
<1> QED BY <1>3

(* After as many steps as there are members, nothing more is reached.      *)
LEMMA LayersSaturate ==
    ASSUME NEW U, IsFiniteSet(U), NEW A \in SUBSET U, NEW F, Extensive(F, U),
           NEW N \in Nat, N = Cardinality(U),
           NEW L \in [0..N -> SUBSET U], Layering(L, N, A, F)
    PROVE  F[L[N]] = L[N]
<1>1. \A S \in SUBSET U : F[S] \in SUBSET U /\ S \subseteq F[S]
  BY DEF Extensive
<1>2. \A k \in Nat : k + 1 <= N => L[k + 1] = F[L[k]] /\ L[k] \in SUBSET U
  <2>1. SUFFICES ASSUME NEW k \in Nat, k + 1 <= N
                 PROVE  L[k + 1] = F[L[k]] /\ L[k] \in SUBSET U
    OBVIOUS
  <2>2. k \in 0..N /\ k + 1 \in 0..N /\ k + 1 # 0 /\ k + 1 - 1 = k
    BY <2>1
  <2>3. L[k + 1] = F[L[k + 1 - 1]]
    BY <2>2 DEF Layering
  <2> QED BY <2>2, <2>3
<1> DEFINE Grown(k) == F[L[k]] = L[k] \/ Cardinality(L[k]) >= k
           G == {k \in Nat : k <= N => Grown(k)}
<1>3. \A S \in SUBSET U : IsFiniteSet(S) /\ Cardinality(S) \in Nat
  BY FS_Subset, FS_CardinalityType
<1>4. 0 \in G
  <2>1. L[0] \in SUBSET U
    OBVIOUS
  <2>2. Cardinality(L[0]) >= 0
    BY <1>3, <2>1
  <2> QED BY <2>2
<1>5. ASSUME NEW k \in Nat, k \in G PROVE k + 1 \in G
  <2>1. SUFFICES ASSUME k + 1 <= N PROVE Grown(k + 1)
    OBVIOUS
  <2>2. Grown(k) /\ L[k + 1] = F[L[k]] /\ L[k] \in SUBSET U
    BY <1>2, <1>5, <2>1
  <2>3. CASE F[L[k]] = L[k]
    BY <2>2, <2>3
  <2>4. CASE F[L[k]] # L[k]
    <3>1. PICK S \in SUBSET U : S = L[k]
      BY <2>2
    <3>2. PICK T \in SUBSET U : T = F[S]
      BY <1>1
    <3>3. S \subseteq T /\ S # T
      BY <1>1, <2>4, <3>1, <3>2
    <3>4. Cardinality(S) <= Cardinality(T) /\ Cardinality(S) # Cardinality(T)
      BY <1>3, <3>3, FS_Subset
    <3>5. Cardinality(S) \in Nat /\ Cardinality(T) \in Nat
      BY <1>3
    <3>6. Cardinality(S) >= k
      BY <2>2, <2>4, <3>1
    <3>7. Cardinality(T) >= k + 1
      BY <3>4, <3>5, <3>6
    <3>8. L[k + 1] = T
      BY <2>2, <3>1, <3>2
    <3> QED BY <3>7, <3>8
  <2> QED BY <2>3, <2>4
<1>6. Nat \subseteq G
  <2> HIDE DEF G
  <2> QED BY <1>4, <1>5, Induction
<1>7. Grown(N)
  BY <1>6
<1>8. CASE Cardinality(L[N]) >= N
  <2>1. PICK S \in SUBSET U : S = L[N]
    OBVIOUS
  <2>2. Cardinality(S) <= Cardinality(U) /\ Cardinality(S) \in Nat
    BY <1>3, FS_Subset
  <2>3. Cardinality(U) = Cardinality(S)
    BY <1>8, <2>1, <2>2
  <2>4. U = S
    BY <2>3, FS_Subset
  <2>5. F[U] \in SUBSET U /\ U \subseteq F[U]
    <3>1. U \in SUBSET U
      OBVIOUS
    <3> QED BY <1>1, <3>1
  <2>6. F[U] = U
    BY <2>5
  <2> QED BY <2>1, <2>4, <2>6
<1> QED BY <1>7, <1>8

StepsWithin(F, U, S) == \A T \in SUBSET U : T \subseteq S => F[T] \subseteq S

(* A closed set that has the first layer has them all.                     *)
LEMMA LayersStayWithin ==
    ASSUME NEW U, NEW A \in SUBSET U, NEW F \in [SUBSET U -> SUBSET U],
           NEW N \in Nat, NEW L \in [0..N -> SUBSET U], Layering(L, N, A, F),
           NEW S, A \subseteq S, StepsWithin(F, U, S)
    PROVE  \A n \in 0..N : L[n] \subseteq S
<1> DEFINE G == {k \in Nat : k <= N => L[k] \subseteq S}
<1>1. \A k \in 0..N : L[k] = IF k = 0 THEN A ELSE F[L[k - 1]]
  BY DEF Layering
<1>2. 0 \in G
  <2>1. 0 \in 0..N /\ L[0] = A
    BY <1>1
  <2> QED BY <2>1
<1>3. ASSUME NEW k \in Nat, k \in G PROVE k + 1 \in G
  <2>1. SUFFICES ASSUME k + 1 <= N PROVE L[k + 1] \subseteq S
    OBVIOUS
  <2>2. k \in 0..N /\ k + 1 \in 0..N /\ k + 1 # 0 /\ k + 1 - 1 = k
    BY <2>1
  <2>3. L[k + 1] = F[L[k]]
    BY <1>1, <2>2
  <2>4. L[k] \in SUBSET U /\ L[k] \subseteq S
    BY <1>3, <2>1, <2>2
  <2> QED BY <2>3, <2>4 DEF StepsWithin
<1>4. Nat \subseteq G
  <2> HIDE DEF G
  <2> QED BY <1>2, <1>3, Induction
<1> QED BY <1>4

LEMMA LayersGrow ==
    ASSUME NEW U, NEW A \in SUBSET U, NEW F, Extensive(F, U),
           NEW N \in Nat, NEW L \in [0..N -> SUBSET U], Layering(L, N, A, F)
    PROVE  \A n \in 0..N : A \subseteq L[n]
<1> DEFINE G == {k \in Nat : k <= N => A \subseteq L[k]}
<1>1. \A k \in 0..N : L[k] = IF k = 0 THEN A ELSE F[L[k - 1]]
  BY DEF Layering
<1>2. 0 \in G
  <2>1. 0 \in 0..N /\ L[0] = A
    BY <1>1
  <2> QED BY <2>1
<1>3. ASSUME NEW k \in Nat, k \in G PROVE k + 1 \in G
  <2>1. SUFFICES ASSUME k + 1 <= N PROVE A \subseteq L[k + 1]
    OBVIOUS
  <2>2. k \in 0..N /\ k + 1 \in 0..N /\ k + 1 # 0 /\ k + 1 - 1 = k
    BY <2>1
  <2>3. L[k + 1] = F[L[k]]
    BY <1>1, <2>2
  <2>4. L[k] \in SUBSET U /\ A \subseteq L[k]
    BY <1>3, <2>1, <2>2
  <2>5. L[k] \subseteq F[L[k]]
    BY <2>4 DEF Extensive
  <2> QED BY <2>3, <2>4, <2>5
<1>4. Nat \subseteq G
  <2> HIDE DEF G
  <2> QED BY <1>2, <1>3, Induction
<1> QED BY <1>4

Layers(L, n, U, A, F) == L \in [0..n -> SUBSET U] /\ Layering(L, n, A, F)

LeastClosed(X, U, A, F) ==
    /\ X \in SUBSET U /\ A \subseteq X /\ F[X] = X
    /\ \A S : A \subseteq S /\ StepsWithin(F, U, S) => X \subseteq S

(* The last layer is the least closed set that has the first one.          *)
LEMMA LastLayer ==
    ASSUME NEW U, IsFiniteSet(U), NEW A \in SUBSET U, NEW F, Extensive(F, U),
           NEW N, N = Cardinality(U), NEW L, Layers(L, N, U, A, F)
    PROVE  LeastClosed(L[N], U, A, F)
<1>1. N \in Nat /\ N \in 0..N
  BY FS_CardinalityType
<1>a. L \in [0..N -> SUBSET U] /\ Layering(L, N, A, F)
  BY DEF Layers
<1>2. L[N] \in SUBSET U
  BY <1>1, <1>a
<1>3. A \subseteq L[N]
  BY <1>1, <1>a, LayersGrow
<1>4. F[L[N]] = L[N]
  BY <1>1, <1>a, LayersSaturate
<1>5. ASSUME NEW S, A \subseteq S, StepsWithin(F, U, S) PROVE L[N] \subseteq S
  <2>1. F \in [SUBSET U -> SUBSET U]
    BY DEF Extensive
  <2>2. \A n \in 0..N : L[n] \subseteq S
    BY <1>1, <1>a, <1>5, <2>1, LayersStayWithin
  <2> QED BY <1>1, <1>a, <2>2
<1> QED BY <1>2, <1>3, <1>4, <1>5 DEF LeastClosed

-----------------------------------------------------------------------------
(* Reachability over loaded imports.                                       *)

Onto(g, p) == g.imports[p] \cap g.loaded

(* q is in every set of packages that has p and what its members import.   *)
Leads(g, p, q) ==
    \A S \in SUBSET g.loaded : p \in S /\ (\A x \in S : Onto(g, x) \subseteq S) => q \in S

LEMMA LeadsProperties ==
    ASSUME NEW g
    PROVE  /\ \A p : Leads(g, p, p)
           /\ \A p, q, r : Leads(g, p, q) /\ Leads(g, q, r) => Leads(g, p, r)
           /\ \A p, q : q \in Onto(g, p) => Leads(g, p, q)
           /\ \A p, q : p \in g.loaded /\ Leads(g, p, q) => q \in g.loaded
<1>1. \A p : Leads(g, p, p)
  BY DEF Leads
<1>2. \A p, q, r : Leads(g, p, q) /\ Leads(g, q, r) => Leads(g, p, r)
  BY DEF Leads
<1>3. \A p, q : q \in Onto(g, p) => Leads(g, p, q)
  BY DEF Leads
<1>4. \A p, q : p \in g.loaded /\ Leads(g, p, q) => q \in g.loaded
  <2>1. \A x \in g.loaded : Onto(g, x) \subseteq g.loaded
    BY DEF Onto
  <2> QED BY <2>1 DEF Leads
<1> QED BY <1>1, <1>2, <1>3, <1>4

(* What a set of packages imports.                                         *)
Imported(g, S) == UNION {Onto(g, q) : q \in S}

(* Reach, layer by layer, is reachability.                                 *)
LEMMA ReachIsExact ==
    ASSUME program \in Programs, NEW p \in program.loaded
    PROVE  Reach(p) = {q \in program.loaded : Leads(program, p, q)}
<1> DEFINE Body(L) == [n \in 0..Cardinality(loaded) |->
                          IF n = 0 THEN {p}
                          ELSE L[n - 1] \cup UNION {imports[q] \cap loaded : q \in L[n - 1]}]
           Limit == CHOOSE L : L = Body(L)
<1>1. PICK U : U = program.loaded
  OBVIOUS
<1>2. PICK N \in Nat : N = Cardinality(U)
  BY <1>1, ImportersAreFinite, FS_CardinalityType
<1>3. IsFiniteSet(U) /\ p \in U
  BY <1>1, ImportersAreFinite
<1>A. PICK A \in SUBSET U : A = {p}
  BY <1>3
<1>4. PICK F : F = [S \in SUBSET U |-> S \cup Imported(program, S)]
  OBVIOUS
<1>5. \A S \in SUBSET U : /\ F[S] = S \cup Imported(program, S)
                         /\ Imported(program, S) \subseteq U
  BY <1>1, <1>4 DEF Imported, Onto
<1>6. Extensive(F, U)
  BY <1>4, <1>5 DEF Extensive
<1>7. \A L : Body(L) = [n \in 0..N |-> IF n = 0 THEN A
                                     ELSE L[n - 1] \cup Imported(program, L[n - 1])]
  BY <1>1, <1>2, <1>A DEF Imported, Onto, loaded, imports
<1>8. Reach(p) = Limit[N]
  BY <1>1, <1>2 DEF Reach, loaded
<1> HIDE DEF Body
<1>9. PICK M \in [0..N -> SUBSET U] : Layering(M, N, A, F)
  BY <1>3, <1>6, LayersExist DEF Extensive
<1>10. M = Body(M)
  <2>1. \A n \in 0..N : n # 0 => M[n - 1] \in SUBSET U
    BY <1>9
  <2>2. \A n \in 0..N : n # 0 => F[M[n - 1]] = M[n - 1] \cup Imported(program, M[n - 1])
    BY <1>5, <2>1
  <2> QED BY <1>7, <1>9, <2>2 DEF Layering
<1>11. PICK L : L = Limit
  OBVIOUS
<1>12. L = Body(L)
  BY <1>10, <1>11
<1>13. L = [n \in 0..N |-> IF n = 0 THEN A ELSE L[n - 1] \cup Imported(program, L[n - 1])]
  BY <1>7, <1>12
<1>14. L[0] = A /\ \A n \in 0..N : n # 0 => L[n] = L[n - 1] \cup Imported(program, L[n - 1])
  <2>1. 0 \in 0..N
    OBVIOUS
  <2> QED BY <1>13, <2>1
<1> HIDE DEF Limit
<1>15. \A n \in 0..N : L[n] \in SUBSET U
  <2> DEFINE G == {n \in Nat : n <= N => L[n] \in SUBSET U}
  <2>1. 0 \in G
    BY <1>14
  <2>2. ASSUME NEW n \in Nat, n \in G PROVE n + 1 \in G
    <3>1. SUFFICES ASSUME n + 1 <= N PROVE L[n + 1] \in SUBSET U
      OBVIOUS
    <3>2. n + 1 \in 0..N /\ n + 1 # 0 /\ n + 1 - 1 = n /\ L[n] \in SUBSET U
      BY <2>2, <3>1
    <3>3. L[n + 1] = L[n] \cup Imported(program, L[n])
      BY <1>14, <3>2
    <3> QED BY <1>5, <3>2, <3>3
  <2>3. Nat \subseteq G
    <3> HIDE DEF G
    <3> QED BY <2>1, <2>2, Induction
  <2> QED BY <2>3
<1>16. Layering(L, N, A, F) /\ L \in [0..N -> SUBSET U]
  <2>1. \A n \in 0..N : n # 0 => L[n - 1] \in SUBSET U
    BY <1>15
  <2>2. \A n \in 0..N : n # 0 => F[L[n - 1]] = L[n - 1] \cup Imported(program, L[n - 1])
    BY <1>5, <2>1
  <2>3. L = [n \in 0..N |-> IF n = 0 THEN A ELSE F[L[n - 1]]]
    BY <1>13, <2>2
  <2>4. L = [n \in 0..N |-> L[n]]
    BY <1>13
  <2> QED BY <1>15, <2>3, <2>4 DEF Layering
<1>17. LeastClosed(L[N], U, A, F)
  <2>1. Layers(L, N, U, A, F)
    BY <1>16 DEF Layers
  <2> QED BY <1>2, <1>3, <1>6, <2>1, LastLayer
<1>18. \A x \in L[N] : Onto(program, x) \subseteq L[N]
  BY <1>5, <1>17 DEF Imported, LeastClosed
<1>19. \A q : Leads(program, p, q) => q \in L[N]
  BY <1>1, <1>A, <1>17, <1>18 DEF Leads, LeastClosed
<1>20. ASSUME NEW q \in L[N] PROVE Leads(program, p, q)
  <2>1. SUFFICES ASSUME NEW S \in SUBSET U, p \in S, \A x \in S : Onto(program, x) \subseteq S
                 PROVE  q \in S
    BY <1>1 DEF Leads
  <2>2. StepsWithin(F, U, S)
    BY <1>5, <2>1 DEF StepsWithin, Imported
  <2>3. A \subseteq S
    BY <1>A, <2>1
  <2> QED BY <1>17, <2>2, <2>3 DEF LeastClosed
<1> QED BY <1>1, <1>8, <1>11, <1>17, <1>19, <1>20 DEF LeastClosed

-----------------------------------------------------------------------------
(* Import cycles.  A package is white until it has an index; then it is on *)
(* the stack until its component is emitted.                               *)

(* Indices are given out in order.                                         *)
Numbered(g, idx, low) ==
    /\ DOMAIN idx \subseteq g.loaded
    /\ idx \in [DOMAIN idx -> Nat] /\ low \in [DOMAIN idx -> Nat]
    /\ \A p \in DOMAIN idx : idx[p] < Cardinality(DOMAIN idx)
    /\ \A p, q \in DOMAIN idx : p # q => idx[p] # idx[q]

(* stk lists S in the order of the indices.                                *)
Stacked(g, idx, S, stk) ==
    /\ S \subseteq DOMAIN idx
    /\ stk \in Seq(g.loaded) /\ ToSet(stk) = S
    /\ \A i, j \in DOMAIN stk : i < j => idx[stk[i]] < idx[stk[j]]

(* The calls of strongConnect are for packages of the stack, each called   *)
(* later than the one before it.                                           *)
Nested(idx, S, frs) ==
    /\ \A i \in DOMAIN frs : frs[i].node \in S
    /\ \A i, j \in DOMAIN frs : i < j => idx[frs[i].node] < idx[frs[j].node]

(* Nothing leads out of the components that were emitted.                  *)
EmittedIsClosed(g, idx, S) ==
    \A p \in DOMAIN idx \ S : Onto(g, p) \subseteq DOMAIN idx \ S

(* A package on the stack leads to all that came later ...                 *)
LeadsUp(g, idx, S) == \A p, q \in S : idx[p] <= idx[q] => Leads(g, p, q)

(* ... and to a package in progress that came no later.                    *)
LeadsDown(g, idx, S, frs) ==
    \A q \in S : \E i \in DOMAIN frs :
        idx[frs[i].node] <= idx[q] /\ Leads(g, q, frs[i].node)

(* The last call that began no later than p got its index.                 *)
Owns(idx, frs, i, p) ==
    /\ idx[frs[i].node] <= idx[p]
    /\ \A j \in DOMAIN frs : i < j => idx[p] < idx[frs[j].node]

(* The imports of p that its call still has before it.                     *)
Ahead(frs, i, p) == IF frs[i].node = p THEN ToSet(frs[i].todo) ELSE {}

(* The lowlink of a call is a bound for all imports looked at within it.   *)
LowlinkBounds(g, idx, low, S, frs) ==
    \A i \in DOMAIN frs : \A p \in S : Owns(idx, frs, i, p) =>
        \A q \in Onto(g, p) :
            \/ q \in Ahead(frs, i, p)
            \/ q \in DOMAIN idx /\ (q \in S => low[frs[i].node] <= idx[q])

(* The lowlink of a call is the index of a package it leads to.            *)
LowlinkIsReached(g, idx, low, S, frs) ==
    \A i \in DOMAIN frs :
        /\ low[frs[i].node] <= idx[frs[i].node]
        /\ \E q \in S : idx[q] = low[frs[i].node] /\ Leads(g, frs[i].node, q)

Mutual(g, p) == {q \in g.loaded : Leads(g, p, q) /\ Leads(g, q, p)}

(* D was emitted, in components, each behind everything it imports.        *)
Emitted(g, D, comps) ==
    /\ comps \in Seq(Seq(g.loaded))
    /\ \A p : p \in D <=> \E i \in DOMAIN comps : p \in ToSet(comps[i])
    /\ \A i \in DOMAIN comps : \A p \in ToSet(comps[i]) :
           /\ ToSet(comps[i]) = Mutual(g, p)
           /\ \A q : Leads(g, p, q) => \E j \in 1..i : q \in ToSet(comps[j])
    /\ \A i, j \in DOMAIN comps : i # j => ToSet(comps[i]) \cap ToSet(comps[j]) = {}

(* A call has imports of its package before it.                            *)
Work(g) == [node : g.loaded, todo : Seq(Packages)]

Working(g, frs) ==
    /\ frs \in Seq(Work(g))
    /\ \A i \in DOMAIN frs : ToSet(frs[i].todo) \subseteq g.imports[frs[i].node]

Searched(g, idx, low, S, frs) ==
    /\ Numbered(g, idx, low)
    /\ Nested(idx, S, frs)
    /\ EmittedIsClosed(g, idx, S)
    /\ LeadsUp(g, idx, S)
    /\ LeadsDown(g, idx, S, frs)
    /\ LowlinkBounds(g, idx, low, S, frs)
    /\ LowlinkIsReached(g, idx, low, S, frs)

TarjanInv ==
    /\ Working(program, frames)
    /\ Searched(program, index, lowlink, ToSet(stack), frames)
    /\ Stacked(program, index, ToSet(stack), stack)
    /\ Emitted(program, DOMAIN index \ ToSet(stack), sccs)

ImportsInv ==
    /\ tool \in {"cycles", "reverse", "boundaries"}
    /\ program \in Programs
    /\ running \in BOOLEAN
    /\ rules \subseteq Rules
    /\ tool # "cycles" => NoTarjan
    /\ tool # "reverse" => NoSearch
    /\ tool = "cycles" => TarjanInv
    /\ tool = "cycles" /\ ~running => frames = <<>> /\ loaded \subseteq DOMAIN index

(* A package gets the next index.                                          *)
LEMMA Numbering ==
    ASSUME NEW g \in Programs, NEW idx, NEW low, Numbered(g, idx, low),
           NEW w \in g.loaded \ DOMAIN idx,
           NEW c, c = Cardinality(DOMAIN idx),
           NEW idx2, idx2 = WithNext(idx, w), NEW low2, low2 = WithNext(low, w)
    PROVE  /\ Numbered(g, idx2, low2)
           /\ DOMAIN idx2 = DOMAIN idx \cup {w} /\ idx2[w] = c /\ low2[w] = c
           /\ \A p \in DOMAIN idx : idx2[p] = idx[p] /\ low2[p] = low[p] /\ idx[p] < c
<1> DEFINE V == DOMAIN idx
<1>1. /\ V \subseteq g.loaded /\ idx \in [V -> Nat] /\ low \in [V -> Nat] /\ w \notin V
      /\ \A p \in V : idx[p] < c
      /\ \A p, q \in V : p # q => idx[p] # idx[q]
  BY DEF Numbered
<1>2. IsFiniteSet(V) /\ c \in Nat
  BY <1>1, ImportersAreFinite, FS_Subset, FS_CardinalityType
<1>3. Cardinality(V \cup {w}) = c + 1
  BY <1>1, <1>2, FS_AddElement
<1>4. /\ idx2 = [p \in V \cup {w} |-> IF p = w THEN c ELSE idx[p]]
      /\ low2 = [p \in V \cup {w} |-> IF p = w THEN c ELSE low[p]]
  BY <1>1 DEF WithNext
<1>5. /\ DOMAIN idx2 = V \cup {w} /\ idx2[w] = c /\ low2[w] = c
      /\ \A p \in V : idx2[p] = idx[p] /\ low2[p] = low[p]
  BY <1>1, <1>4
<1>6. idx2 \in [V \cup {w} -> Nat] /\ low2 \in [V \cup {w} -> Nat]
  BY <1>1, <1>2, <1>4
<1>7. \A p \in V \cup {w} : idx2[p] < c + 1
  <2>1. \A p \in V : idx[p] \in Nat /\ idx[p] < c
    BY <1>1
  <2> QED BY <1>2, <1>5, <2>1
<1>8. \A p, q \in V \cup {w} : p # q => idx2[p] # idx2[q]
  <2>1. \A p \in V : idx[p] \in Nat /\ idx[p] < c
    BY <1>1
  <2>2. \A p \in V : idx2[p] # c
    BY <1>2, <1>5, <2>1
  <2> QED BY <1>1, <1>5, <2>2
<1>9. V \cup {w} \subseteq g.loaded
  BY <1>1
<1>10. Numbered(g, idx2, low2)
  BY <1>3, <1>5, <1>6, <1>7, <1>8, <1>9 DEF Numbered
<1> QED BY <1>1, <1>5, <1>10

(* frs2 is frs with one more call, for w, which has all its imports before *)
(* it; of the imports of the others only w may be gone.                    *)
Pushed(g, frs, frs2, n, w) ==
    /\ DOMAIN frs = 1..n /\ DOMAIN frs2 = 1..(n + 1)
    /\ \A i \in 1..n : frs2[i].node = frs[i].node
    /\ \A i \in 1..n : \A q \in ToSet(frs[i].todo) : q = w \/ q \in ToSet(frs2[i].todo)
    /\ frs2[n + 1].node = w
    /\ Onto(g, w) \subseteq ToSet(frs2[n + 1].todo)

(* strongConnect is called for a white package: the first one, when the    *)
(* stack is empty, or one that the call in progress imports.               *)
LEMMA PushStep ==
    ASSUME NEW g \in Programs, NEW idx, NEW low, NEW S, NEW frs, NEW n \in Nat,
           S \subseteq DOMAIN idx,
           Searched(g, idx, low, S, frs),
           NEW w \in g.loaded \ DOMAIN idx,
           NEW idx2, idx2 = WithNext(idx, w), NEW low2, low2 = WithNext(low, w),
           NEW frs2, Pushed(g, frs, frs2, n, w),
           n > 0 => w \in Onto(g, frs[n].node)
    PROVE  Searched(g, idx2, low2, S \cup {w}, frs2) /\ (n = 0 => S = {})
<1> DEFINE V == DOMAIN idx
           S2 == S \cup {w}
<1>1. PICK c : c = Cardinality(V)
  OBVIOUS
<1>2. /\ Numbered(g, idx2, low2)
      /\ DOMAIN idx2 = V \cup {w} /\ idx2[w] = c /\ low2[w] = c
      /\ \A p \in V : idx2[p] = idx[p] /\ low2[p] = low[p] /\ idx[p] < c
  BY <1>1, Numbering DEF Searched
<1>3. /\ c \in Nat /\ w \notin V /\ V \subseteq g.loaded
      /\ \A p \in V : idx[p] \in Nat /\ low[p] \in Nat
  <2>1. Numbered(g, idx, low)
    BY DEF Searched
  <2>2. V \subseteq g.loaded /\ \A p \in V : idx[p] \in Nat /\ low[p] \in Nat
    BY <2>1 DEF Numbered
  <2>3. idx2[w] \in Nat
    BY <1>2 DEF Numbered
  <2> QED BY <1>2, <2>2, <2>3
<1>4. /\ DOMAIN frs = 1..n /\ DOMAIN frs2 = 1..(n + 1) /\ 1..(n + 1) = (1..n) \cup {n + 1}
      /\ \A i \in 1..n : frs2[i].node = frs[i].node
      /\ \A i \in 1..n : \A q \in ToSet(frs[i].todo) : q = w \/ q \in ToSet(frs2[i].todo)
      /\ frs2[n + 1].node = w /\ Onto(g, w) \subseteq ToSet(frs2[n + 1].todo)
  BY DEF Pushed
<1>5. /\ Nested(idx, S, frs) /\ EmittedIsClosed(g, idx, S) /\ LeadsUp(g, idx, S)
      /\ LeadsDown(g, idx, S, frs) /\ LowlinkBounds(g, idx, low, S, frs)
      /\ LowlinkIsReached(g, idx, low, S, frs)
  BY DEF Searched
<1>6. \A i \in 1..n : frs[i].node \in S /\ frs[i].node \in V
  BY <1>4, <1>5 DEF Nested
<1>7. n = 0 => S = {}
  <2>1. n = 0 => DOMAIN frs = {}
    BY <1>4
  <2> QED BY <1>5, <2>1 DEF LeadsDown
<1>8. Nested(idx2, S2, frs2)
  <2>1. \A i \in 1..(n + 1) : frs2[i].node \in S2
    BY <1>4, <1>6
  <2>2. ASSUME NEW i \in 1..(n + 1), NEW j \in 1..(n + 1), i < j
        PROVE  idx2[frs2[i].node] < idx2[frs2[j].node]
    <3>1. i \in 1..n /\ frs2[i].node = frs[i].node /\ frs[i].node \in V
      BY <1>4, <1>6, <2>2
    <3>2. CASE j = n + 1
      BY <1>2, <1>4, <3>1, <3>2
    <3>3. CASE j # n + 1
      <4>1. j \in 1..n /\ frs2[j].node = frs[j].node /\ frs[j].node \in V
        BY <1>4, <1>6, <3>3
      <4>2. idx[frs[i].node] < idx[frs[j].node]
        BY <1>4, <1>5, <2>2, <3>1, <4>1 DEF Nested
      <4> QED BY <1>2, <3>1, <4>1, <4>2
    <3> QED BY <3>2, <3>3
  <2> QED BY <1>4, <2>1, <2>2 DEF Nested
<1>9. EmittedIsClosed(g, idx2, S2)
  <2>1. DOMAIN idx2 \ S2 = V \ S
    BY <1>2, <1>3
  <2> QED BY <1>5, <2>1 DEF EmittedIsClosed
<1>10. \A p \in S : Leads(g, p, w)
  <2>1. SUFFICES ASSUME NEW p \in S PROVE Leads(g, p, w)
    OBVIOUS
  <2>2. PICK i \in 1..n : idx[frs[i].node] <= idx[p] /\ Leads(g, p, frs[i].node)
    BY <1>4, <1>5 DEF LeadsDown
  <2>3. n \in 1..n /\ n > 0
    BY <2>2
  <2>4. Leads(g, frs[i].node, frs[n].node)
    <3>1. CASE i = n
      BY <3>1, LeadsProperties
    <3>2. CASE i # n
      <4>1. idx[frs[i].node] < idx[frs[n].node]
        BY <1>4, <1>5, <2>3, <3>2 DEF Nested
      <4>2. /\ frs[i].node \in S /\ frs[n].node \in S
            /\ idx[frs[i].node] \in Nat /\ idx[frs[n].node] \in Nat
        BY <1>3, <1>6, <2>3
      <4> QED BY <1>5, <4>1, <4>2 DEF LeadsUp
    <3> QED BY <3>1, <3>2
  <2>5. Leads(g, frs[n].node, w)
    BY <2>3, LeadsProperties
  <2> QED BY <2>2, <2>4, <2>5, LeadsProperties
<1>11. LeadsUp(g, idx2, S2)
  <2>1. SUFFICES ASSUME NEW p \in S2, NEW q \in S2, idx2[p] <= idx2[q] PROVE Leads(g, p, q)
    BY DEF LeadsUp
  <2>2. CASE q = w
    BY <1>10, <2>2, LeadsProperties
  <2>3. CASE q # w /\ p = w
    <3>1. q \in V
      BY <2>3
    <3>2. idx2[p] = c /\ idx2[q] = idx[q] /\ idx[q] < c /\ idx[q] \in Nat
      BY <1>2, <1>3, <2>3, <3>1
    <3> QED BY <1>3, <2>1, <3>2
  <2>4. CASE q # w /\ p # w
    <3>1. p \in S /\ q \in S /\ idx[p] <= idx[q]
      BY <1>2, <2>1, <2>4
    <3> QED BY <1>5, <3>1 DEF LeadsUp
  <2> QED BY <2>2, <2>3, <2>4
<1>12. LeadsDown(g, idx2, S2, frs2)
  <2>1. SUFFICES ASSUME NEW q \in S2
                 PROVE  \E i \in 1..(n + 1) : /\ idx2[frs2[i].node] <= idx2[q]
                                              /\ Leads(g, q, frs2[i].node)
    BY <1>4 DEF LeadsDown
  <2>2. CASE q = w
    <3>1. idx2[w] <= idx2[w] /\ Leads(g, w, w) /\ n + 1 \in 1..(n + 1)
      BY <1>2, <1>3, LeadsProperties
    <3> QED BY <1>4, <2>2, <3>1
  <2>3. CASE q # w
    <3>1. PICK i \in 1..n : idx[frs[i].node] <= idx[q] /\ Leads(g, q, frs[i].node)
      BY <1>4, <1>5, <2>3 DEF LeadsDown
    <3>2. /\ i \in 1..(n + 1) /\ frs2[i].node = frs[i].node
          /\ idx2[q] = idx[q] /\ idx2[frs[i].node] = idx[frs[i].node]
      BY <1>2, <1>4, <1>6, <2>3
    <3> QED BY <3>1, <3>2
  <2> QED BY <2>2, <2>3
<1>13. LowlinkIsReached(g, idx2, low2, S2, frs2)
  <2>1. SUFFICES ASSUME NEW i \in 1..(n + 1)
                 PROVE  /\ low2[frs2[i].node] <= idx2[frs2[i].node]
                        /\ \E q \in S2 : /\ idx2[q] = low2[frs2[i].node]
                                         /\ Leads(g, frs2[i].node, q)
    BY <1>4 DEF LowlinkIsReached
  <2>2. CASE i = n + 1
    BY <1>2, <1>3, <1>4, <2>2, LeadsProperties
  <2>3. CASE i # n + 1
    <3>1. /\ i \in 1..n /\ frs2[i].node = frs[i].node /\ frs[i].node \in V
          /\ idx2[frs[i].node] = idx[frs[i].node] /\ low2[frs[i].node] = low[frs[i].node]
      BY <1>2, <1>4, <1>6, <2>3
    <3>2. PICK q \in S : idx[q] = low[frs[i].node] /\ Leads(g, frs[i].node, q)
      BY <1>4, <1>5, <3>1 DEF LowlinkIsReached
    <3>3. low[frs[i].node] <= idx[frs[i].node]
      BY <1>4, <1>5, <3>1 DEF LowlinkIsReached
    <3>4. idx2[q] = idx[q] /\ q \in S2
      BY <1>2
    <3> QED BY <3>1, <3>2, <3>3, <3>4
  <2> QED BY <2>2, <2>3
<1>14. LowlinkBounds(g, idx2, low2, S2, frs2)
  <2>1. SUFFICES ASSUME NEW i \in 1..(n + 1), NEW p \in S2, Owns(idx2, frs2, i, p),
                        NEW q \in Onto(g, p), q \notin Ahead(frs2, i, p)
                 PROVE  /\ q \in DOMAIN idx2
                        /\ q \in S2 => low2[frs2[i].node] <= idx2[q]
    BY <1>4 DEF LowlinkBounds
  <2>2. CASE i = n + 1
    <3>1. p = w
      <4>1. c <= idx2[p]
        BY <1>2, <1>4, <2>1, <2>2 DEF Owns
      <4>2. p \in V => idx2[p] = idx[p] /\ idx[p] < c /\ idx[p] \in Nat
        BY <1>2, <1>3
      <4>3. p \notin V
        BY <1>3, <4>1, <4>2
      <4> QED BY <4>3
    <3>2. Ahead(frs2, i, p) = ToSet(frs2[n + 1].todo)
      BY <1>4, <2>2, <3>1 DEF Ahead
    <3> QED BY <1>4, <2>1, <3>1, <3>2
  <2>3. CASE i # n + 1
    <3>1. /\ i \in 1..n /\ frs2[i].node = frs[i].node /\ frs[i].node \in V
          /\ idx2[frs[i].node] = idx[frs[i].node] /\ low2[frs[i].node] = low[frs[i].node]
          /\ idx[frs[i].node] < c
      BY <1>2, <1>4, <1>6, <2>3
    <3>2. p # w
      <4>1. n + 1 \in DOMAIN frs2 /\ i < n + 1
        BY <1>4, <3>1
      <4>2. idx2[p] < idx2[w]
        BY <1>4, <2>1, <4>1 DEF Owns
      <4> QED BY <1>2, <1>3, <4>2
    <3>3. p \in S /\ idx2[p] = idx[p]
      BY <1>2, <3>2
    <3>4. Owns(idx, frs, i, p)
      <4>1. idx[frs[i].node] <= idx[p]
        BY <2>1, <3>1, <3>3 DEF Owns
      <4>2. ASSUME NEW j \in 1..n, i < j PROVE idx[p] < idx[frs[j].node]
        <5>1. j \in DOMAIN frs2 /\ frs2[j].node = frs[j].node
              /\ idx2[frs[j].node] = idx[frs[j].node]
          BY <1>2, <1>4, <1>6
        <5>2. idx2[p] < idx2[frs2[j].node]
          BY <2>1, <4>2, <5>1 DEF Owns
        <5> QED BY <3>3, <5>1, <5>2
      <4> QED BY <1>4, <4>1, <4>2 DEF Owns
    <3>5. q \in Ahead(frs, i, p) \/ (q \in V /\ (q \in S => low[frs[i].node] <= idx[q]))
      BY <1>4, <1>5, <3>1, <3>3, <3>4 DEF LowlinkBounds
    <3>6. CASE q \in Ahead(frs, i, p)
      <4>1. q = w
        BY <1>4, <2>1, <3>1, <3>6 DEF Ahead
      <4>2. low[frs[i].node] <= idx[frs[i].node]
        BY <1>4, <1>5, <3>1 DEF LowlinkIsReached
      <4>3. low2[frs2[i].node] <= c
        BY <1>3, <3>1, <4>2
      <4> QED BY <1>2, <4>1, <4>3
    <3>7. CASE q \in V /\ (q \in S => low[frs[i].node] <= idx[q])
      <4>1. q # w /\ idx2[q] = idx[q] /\ q \in DOMAIN idx2
        BY <1>2, <1>3, <3>7
      <4> QED BY <3>1, <3>7, <4>1
    <3> QED BY <3>5, <3>6, <3>7
  <2> QED BY <2>2, <2>3
<1> QED BY <1>2, <1>7, <1>8, <1>9, <1>11, <1>12, <1>13, <1>14 DEF Searched

(* frs2 is frs after its last call has looked at w.                        *)
LookedAt(frs, frs2, n, w) ==
    /\ DOMAIN frs = 1..n /\ DOMAIN frs2 = 1..n
    /\ \A i \in 1..n : frs2[i].node = frs[i].node
    /\ \A i \in 1..n : \A q \in ToSet(frs[i].todo) :
           (i = n /\ q = w) \/ q \in ToSet(frs2[i].todo)

(* low2 is low, or has the index of w for the package v that imports it,   *)
(* if w is on the stack and its index is the smaller one.                  *)
TakesOver(g, idx, low, low2, S, v, w) ==
    /\ low2 \in [DOMAIN idx -> Nat]
    /\ \A p \in DOMAIN idx : p # v => low2[p] = low[p]
    /\ low2[v] <= low[v]
    /\ w \in S => low2[v] <= idx[w]
    /\ low2[v] = low[v] \/ (w \in S /\ w \in Onto(g, v) /\ low2[v] = idx[w])

(* The call in progress looks at an import that was not loaded or is not   *)
(* white.                                                                  *)
LEMMA LookStep ==
    ASSUME NEW g \in Programs, NEW idx, NEW low, NEW S, NEW frs, NEW n \in Nat \ {0},
           S \subseteq DOMAIN idx,
           Searched(g, idx, low, S, frs),
           NEW w, w \notin g.loaded \/ w \in DOMAIN idx,
           NEW frs2, LookedAt(frs, frs2, n, w),
           NEW low2, TakesOver(g, idx, low, low2, S, frs[n].node, w)
    PROVE  Searched(g, idx, low2, S, frs2)
<1> DEFINE V == DOMAIN idx
           v == frs[n].node
<1>1. /\ V \subseteq g.loaded /\ idx \in [V -> Nat] /\ low \in [V -> Nat]
      /\ \A p \in V : idx[p] \in Nat /\ low[p] \in Nat /\ low2[p] \in Nat
      /\ Numbered(g, idx, low2)
  <2>1. Numbered(g, idx, low)
    BY DEF Searched
  <2>2. low2 \in [V -> Nat]
    BY DEF TakesOver
  <2> QED BY <2>1, <2>2 DEF Numbered
<1>2. /\ DOMAIN frs = 1..n /\ DOMAIN frs2 = 1..n /\ n \in 1..n
      /\ \A i \in 1..n : frs2[i].node = frs[i].node
      /\ \A i \in 1..n : \A q \in ToSet(frs[i].todo) :
             (i = n /\ q = w) \/ q \in ToSet(frs2[i].todo)
  BY DEF LookedAt
<1>3. /\ Nested(idx, S, frs) /\ EmittedIsClosed(g, idx, S) /\ LeadsUp(g, idx, S)
      /\ LeadsDown(g, idx, S, frs) /\ LowlinkBounds(g, idx, low, S, frs)
      /\ LowlinkIsReached(g, idx, low, S, frs)
  BY DEF Searched
<1>4. \A i \in 1..n : frs[i].node \in S /\ frs[i].node \in V
  BY <1>2, <1>3 DEF Nested
<1>5. /\ \A p \in V : p # v => low2[p] = low[p]
      /\ low2[v] <= low[v]
      /\ w \in S => low2[v] <= idx[w]
      /\ low2[v] = low[v] \/ (w \in S /\ w \in Onto(g, v) /\ low2[v] = idx[w])
  BY DEF TakesOver
<1>6. \A p \in V : low2[p] <= low[p]
  BY <1>1, <1>5
<1>7. Nested(idx, S, frs2)
  BY <1>2, <1>3 DEF Nested
<1>8. LeadsDown(g, idx, S, frs2)
  BY <1>2, <1>3 DEF LeadsDown
<1>9. LowlinkIsReached(g, idx, low2, S, frs2)
  <2>1. SUFFICES ASSUME NEW i \in 1..n
                 PROVE  /\ low2[frs[i].node] <= idx[frs[i].node]
                        /\ \E q \in S : idx[q] = low2[frs[i].node] /\ Leads(g, frs[i].node, q)
    BY <1>2 DEF LowlinkIsReached
  <2>2. /\ low[frs[i].node] <= idx[frs[i].node]
        /\ \E q \in S : idx[q] = low[frs[i].node] /\ Leads(g, frs[i].node, q)
    BY <1>2, <1>3 DEF LowlinkIsReached
  <2>3. low2[frs[i].node] <= idx[frs[i].node]
    <3>1. low2[frs[i].node] <= low[frs[i].node]
      BY <1>4, <1>6
    <3>2. /\ low2[frs[i].node] \in Nat /\ low[frs[i].node] \in Nat /\ idx[frs[i].node] \in Nat
      BY <1>1, <1>4
    <3> QED BY <2>2, <3>1, <3>2
  <2>4. CASE low2[frs[i].node] = low[frs[i].node]
    BY <2>2, <2>3, <2>4
  <2>5. CASE low2[frs[i].node] # low[frs[i].node]
    <3>1. frs[i].node = v
      BY <1>4, <1>5, <2>5
    <3>2. w \in S /\ w \in Onto(g, v) /\ low2[v] = idx[w]
      BY <1>5, <2>5, <3>1
    <3>3. Leads(g, v, w)
      BY <3>2, LeadsProperties
    <3> QED BY <2>3, <3>1, <3>2, <3>3
  <2> QED BY <2>4, <2>5
<1>10. LowlinkBounds(g, idx, low2, S, frs2)
  <2>1. SUFFICES ASSUME NEW i \in 1..n, NEW p \in S, Owns(idx, frs2, i, p),
                        NEW q \in Onto(g, p), q \notin Ahead(frs2, i, p)
                 PROVE  q \in V /\ (q \in S => low2[frs[i].node] <= idx[q])
    BY <1>2 DEF LowlinkBounds
  <2>2. Owns(idx, frs, i, p)
    BY <1>2, <2>1 DEF Owns
  <2>3. q \in Ahead(frs, i, p) \/ (q \in V /\ (q \in S => low[frs[i].node] <= idx[q]))
    BY <1>2, <1>3, <2>2 DEF LowlinkBounds
  <2>4. CASE q \in Ahead(frs, i, p)
    <3>1. p = frs[i].node /\ i = n /\ q = w
      BY <1>2, <2>1, <2>4 DEF Ahead
    <3>2. q \in g.loaded
      BY DEF Onto
    <3> QED BY <1>5, <3>1, <3>2
  <2>5. CASE q \in V /\ (q \in S => low[frs[i].node] <= idx[q])
    <3>1. /\ low2[frs[i].node] <= low[frs[i].node]
          /\ low2[frs[i].node] \in Nat /\ low[frs[i].node] \in Nat /\ idx[q] \in Nat
      BY <1>1, <1>4, <1>6, <2>5
    <3> QED BY <2>5, <3>1
  <2> QED BY <2>3, <2>4, <2>5
<1> QED BY <1>1, <1>3, <1>7, <1>8, <1>9, <1>10 DEF Searched

(* frs2 is frs without its last call, for v, which has nothing before it.  *)
Popped(frs, frs2, n, v) ==
    /\ DOMAIN frs = 1..n /\ DOMAIN frs2 = 1..(n - 1)
    /\ \A i \in 1..(n - 1) : frs2[i] = frs[i]
    /\ frs[n].node = v /\ ToSet(frs[n].todo) = {}

(* low2 is low, but the caller, if there is one, has taken over the        *)
(* lowlink of v if it is the smaller one.                                  *)
Inherits(idx, low, low2, frs, n, v) ==
    /\ low2 \in [DOMAIN idx -> Nat]
    /\ \A p \in DOMAIN idx : (n = 1 \/ p # frs[n - 1].node) => low2[p] = low[p]
    /\ n > 1 => LET u == frs[n - 1].node
                IN  /\ low2[u] <= low[u] /\ low2[u] <= low[v]
                    /\ low2[u] = low[u] \/ low2[u] = low[v]

(* What comes after v on the stack.                                        *)
Above(idx, S, v) == {p \in S : idx[v] <= idx[p]}

(* Looked at from v, the imports of what comes after it.                   *)
LEMMA AboveStaysAbove ==
    ASSUME NEW g, NEW idx, NEW low, NEW S, NEW frs, NEW n \in Nat \ {0},
           S \subseteq DOMAIN idx,
           Searched(g, idx, low, S, frs),
           NEW v, DOMAIN frs = 1..n, frs[n].node = v, ToSet(frs[n].todo) = {}
    PROVE  \A p \in Above(idx, S, v) : \A q \in Onto(g, p) :
               q \in DOMAIN idx /\ (q \in S => low[v] <= idx[q])
<1>1. SUFFICES ASSUME NEW p \in Above(idx, S, v), NEW q \in Onto(g, p)
               PROVE  q \in DOMAIN idx /\ (q \in S => low[v] <= idx[q])
  OBVIOUS
<1>2. n \in DOMAIN frs /\ p \in S
  BY DEF Above
<1>3. Owns(idx, frs, n, p)
  <2>1. idx[frs[n].node] <= idx[p]
    BY DEF Above
  <2>2. \A j \in DOMAIN frs : ~(n < j)
    OBVIOUS
  <2> QED BY <2>1, <2>2 DEF Owns
<1>4. q \notin Ahead(frs, n, p)
  BY DEF Ahead
<1> QED BY <1>2, <1>3, <1>4 DEF Searched, LowlinkBounds

(* What both kinds of return have in common.                               *)
Returning(g, idx, low, low2, S, frs, frs2, n, v) ==
    /\ Numbered(g, idx, low2)
    /\ n \in DOMAIN frs /\ v \in S
    /\ \A p \in DOMAIN idx :
         idx[p] \in Nat /\ low[p] \in Nat /\ low2[p] \in Nat /\ low2[p] <= low[p]
    /\ \A i \in 1..(n - 1) : /\ i \in DOMAIN frs /\ frs2[i] = frs[i]
                             /\ frs[i].node \in S
                             /\ idx[frs[i].node] < idx[v]

LEMMA ReturnFacts ==
    ASSUME NEW g, NEW idx, NEW low, NEW S, NEW frs, NEW n \in Nat \ {0},
           S \subseteq DOMAIN idx,
           Searched(g, idx, low, S, frs),
           NEW v, NEW frs2, Popped(frs, frs2, n, v),
           NEW low2, Inherits(idx, low, low2, frs, n, v)
    PROVE  Returning(g, idx, low, low2, S, frs, frs2, n, v)
<1> DEFINE V == DOMAIN idx
<1>1. /\ DOMAIN frs = 1..n /\ DOMAIN frs2 = 1..(n - 1) /\ n \in 1..n
      /\ \A i \in 1..(n - 1) : i \in 1..n /\ i < n /\ frs2[i] = frs[i]
      /\ frs[n].node = v
  BY DEF Popped
<1>2. Numbered(g, idx, low) /\ Nested(idx, S, frs)
  BY DEF Searched
<1>3. \A i \in 1..n : frs[i].node \in S
  BY <1>1, <1>2 DEF Nested
<1>4. \A i \in 1..(n - 1) : idx[frs[i].node] < idx[v]
  BY <1>1, <1>2 DEF Nested
<1>5. low2 \in [V -> Nat]
  BY DEF Inherits
<1>6. \A p \in V : idx[p] \in Nat /\ low[p] \in Nat /\ low2[p] \in Nat
  BY <1>2, <1>5 DEF Numbered
<1>7. Numbered(g, idx, low2)
  BY <1>2, <1>5 DEF Numbered
<1>8. ASSUME NEW p \in V PROVE low2[p] <= low[p]
  <2>1. CASE n = 1 \/ p # frs[n - 1].node
    <3>1. low2[p] = low[p]
      BY <2>1 DEF Inherits
    <3> QED BY <1>6, <3>1
  <2>2. CASE n # 1 /\ p = frs[n - 1].node
    <3>1. n > 1
      BY <2>2
    <3> QED BY <2>2, <3>1 DEF Inherits
  <2> QED BY <2>1, <2>2
<1> QED BY <1>1, <1>3, <1>4, <1>6, <1>7, <1>8 DEF Returning

(* strongConnect returns before the component is complete: what the call   *)
(* led to leads further down the stack.                                    *)
LEMMA KeepStep ==
    ASSUME NEW g, NEW idx, NEW low, NEW S, NEW frs, NEW n \in Nat \ {0},
           S \subseteq DOMAIN idx,
           Searched(g, idx, low, S, frs),
           NEW v, NEW frs2, Popped(frs, frs2, n, v),
           NEW low2, Inherits(idx, low, low2, frs, n, v),
           low[v] # idx[v]
    PROVE  Searched(g, idx, low2, S, frs2)
<1> DEFINE V == DOMAIN idx
           m == n - 1
<1>1. /\ Numbered(g, idx, low2) /\ n \in DOMAIN frs /\ v \in S
      /\ \A p \in V : idx[p] \in Nat /\ low[p] \in Nat /\ low2[p] \in Nat /\ low2[p] <= low[p]
      /\ \A i \in 1..m : /\ i \in DOMAIN frs /\ frs2[i] = frs[i] /\ frs[i].node \in S
                         /\ idx[frs[i].node] < idx[v]
  <2>1. Returning(g, idx, low, low2, S, frs, frs2, n, v)
    BY ReturnFacts
  <2> QED BY <2>1 DEF Returning
<1>2. /\ DOMAIN frs = 1..n /\ DOMAIN frs2 = 1..m /\ m \in Nat
      /\ frs[n].node = v /\ ToSet(frs[n].todo) = {}
  BY DEF Popped
<1>3. /\ Nested(idx, S, frs) /\ EmittedIsClosed(g, idx, S) /\ LeadsUp(g, idx, S)
      /\ LeadsDown(g, idx, S, frs) /\ LowlinkBounds(g, idx, low, S, frs)
      /\ LowlinkIsReached(g, idx, low, S, frs)
  BY DEF Searched
<1>4. PICK z \in S : idx[z] = low[v] /\ Leads(g, v, z) /\ idx[z] < idx[v]
  <2>1. PICK z \in S : idx[z] = low[v] /\ Leads(g, v, z)
    BY <1>1, <1>2, <1>3 DEF LowlinkIsReached
  <2>2. low[v] <= idx[v]
    BY <1>1, <1>2, <1>3 DEF LowlinkIsReached
  <2>3. idx[z] < idx[v]
    BY <1>1, <2>1, <2>2
  <2> QED BY <2>1, <2>3
<1>5. PICK k \in 1..m : idx[frs[k].node] <= idx[z] /\ Leads(g, v, frs[k].node)
  <2>1. PICK k \in DOMAIN frs : idx[frs[k].node] <= idx[z] /\ Leads(g, z, frs[k].node)
    BY <1>3 DEF LeadsDown
  <2>2. k # n
    BY <1>1, <1>2, <1>4, <2>1
  <2>3. k \in 1..m
    BY <1>2, <2>2
  <2>4. Leads(g, v, frs[k].node)
    BY <1>4, <2>1, LeadsProperties
  <2> QED BY <2>1, <2>3, <2>4
<1>6. n > 1
  BY <1>5
<1>7. Nested(idx, S, frs2)
  BY <1>1, <1>2, <1>3 DEF Nested
<1>8. LeadsDown(g, idx, S, frs2)
  <2>1. SUFFICES ASSUME NEW q \in S
                 PROVE  \E i \in 1..m : idx[frs[i].node] <= idx[q] /\ Leads(g, q, frs[i].node)
    BY <1>1, <1>2 DEF LeadsDown
  <2>2. PICK i \in 1..n : idx[frs[i].node] <= idx[q] /\ Leads(g, q, frs[i].node)
    BY <1>2, <1>3 DEF LeadsDown
  <2>3. CASE i # n
    BY <2>2, <2>3
  <2>4. CASE i = n
    <3>1. Leads(g, q, frs[k].node)
      BY <1>2, <1>5, <2>2, <2>4, LeadsProperties
    <3>2. idx[frs[k].node] <= idx[q]
      <4>1. frs[k].node \in V /\ idx[v] <= idx[q] /\ idx[frs[k].node] < idx[v]
        BY <1>1, <1>2, <2>2, <2>4
      <4>2. idx[frs[k].node] \in Nat /\ idx[v] \in Nat /\ idx[q] \in Nat
        BY <1>1, <4>1
      <4> QED BY <4>1, <4>2
    <3> QED BY <3>1, <3>2
  <2> QED BY <2>3, <2>4
<1>9. LowlinkIsReached(g, idx, low2, S, frs2)
  <2>1. SUFFICES ASSUME NEW i \in 1..m
                 PROVE  /\ low2[frs[i].node] <= idx[frs[i].node]
                        /\ \E q \in S : idx[q] = low2[frs[i].node] /\ Leads(g, frs[i].node, q)
    BY <1>1, <1>2 DEF LowlinkIsReached
  <2>2. /\ low[frs[i].node] <= idx[frs[i].node]
        /\ \E q \in S : idx[q] = low[frs[i].node] /\ Leads(g, frs[i].node, q)
    BY <1>1, <1>3 DEF LowlinkIsReached
  <2>3. low2[frs[i].node] <= idx[frs[i].node]
    <3>1. frs[i].node \in V /\ low2[frs[i].node] <= low[frs[i].node]
      BY <1>1
    <3>2. /\ low2[frs[i].node] \in Nat /\ low[frs[i].node] \in Nat /\ idx[frs[i].node] \in Nat
      BY <1>1, <3>1
    <3> QED BY <2>2, <3>1, <3>2
  <2>4. CASE low2[frs[i].node] = low[frs[i].node]
    BY <2>2, <2>3, <2>4
  <2>5. CASE low2[frs[i].node] # low[frs[i].node]
    <3>1. frs[i].node \in V
      BY <1>1
    <3>2. low2[frs[i].node] = low[v]
      BY <1>6, <2>5, <3>1 DEF Inherits
    <3>3. Leads(g, frs[i].node, v)
      <4>1. /\ frs[i].node \in S /\ idx[frs[i].node] < idx[v]
            /\ idx[frs[i].node] \in Nat /\ idx[v] \in Nat
        BY <1>1
      <4> QED BY <1>1, <1>3, <4>1 DEF LeadsUp
    <3>4. Leads(g, frs[i].node, z)
      BY <1>4, <3>3, LeadsProperties
    <3> QED BY <1>4, <2>3, <3>2, <3>4
  <2> QED BY <2>4, <2>5
<1>10. LowlinkBounds(g, idx, low2, S, frs2)
  <2>1. SUFFICES ASSUME NEW i \in 1..m, NEW p \in S, Owns(idx, frs2, i, p),
                        NEW q \in Onto(g, p), q \notin Ahead(frs2, i, p)
                 PROVE  q \in V /\ (q \in S => low2[frs[i].node] <= idx[q])
    BY <1>1, <1>2 DEF LowlinkBounds
  <2>2. CASE idx[p] < idx[v]
    <3>1. Owns(idx, frs, i, p)
      <4>1. idx[frs[i].node] <= idx[p]
        BY <1>1, <2>1 DEF Owns
      <4>2. ASSUME NEW j \in 1..n, i < j PROVE idx[p] < idx[frs[j].node]
        <5>1. CASE j = n
          BY <1>2, <2>2, <5>1
        <5>2. CASE j # n
          <6>1. j \in 1..m /\ j \in DOMAIN frs2 /\ frs2[j] = frs[j]
            BY <1>1, <1>2, <5>2
          <6> QED BY <2>1, <4>2, <6>1 DEF Owns
        <5> QED BY <5>1, <5>2
      <4> QED BY <1>2, <4>1, <4>2 DEF Owns
    <3>2. q \notin Ahead(frs, i, p)
      BY <1>1, <2>1 DEF Ahead
    <3>3. q \in V /\ (q \in S => low[frs[i].node] <= idx[q])
      BY <1>1, <1>3, <3>1, <3>2 DEF LowlinkBounds
    <3>4. frs[i].node \in V
      BY <1>1
    <3>5. /\ low2[frs[i].node] <= low[frs[i].node] /\ idx[q] \in Nat
          /\ low2[frs[i].node] \in Nat /\ low[frs[i].node] \in Nat
      BY <1>1, <3>3, <3>4
    <3> QED BY <3>3, <3>5
  <2>3. CASE ~(idx[p] < idx[v])
    <3>1. p \in Above(idx, S, v)
      BY <1>1, <2>3 DEF Above
    <3>2. q \in V /\ (q \in S => low[v] <= idx[q])
      BY <1>2, <3>1, AboveStaysAbove
    <3>3. i = m
      <4>1. i # m => m \in DOMAIN frs2 /\ i < m /\ frs2[m] = frs[m] /\ idx[frs[m].node] < idx[v]
                     /\ frs[m].node \in V
        BY <1>1, <1>2, <1>6
      <4>2. i # m => idx[p] < idx[v]
        <5>1. SUFFICES ASSUME i # m PROVE idx[p] < idx[v]
          OBVIOUS
        <5>2. idx[p] < idx[frs[m].node]
          BY <2>1, <4>1, <5>1 DEF Owns
        <5>3. idx[p] \in Nat /\ idx[v] \in Nat /\ idx[frs[m].node] \in Nat
          BY <1>1, <4>1, <5>1
        <5> QED BY <4>1, <5>1, <5>2, <5>3
      <4> QED BY <2>3, <4>2
    <3>4. low2[frs[i].node] <= low[v]
      BY <1>6, <3>3 DEF Inherits
    <3>5. frs[i].node \in V /\ v \in V
      BY <1>1
    <3>6. low2[frs[i].node] \in Nat /\ low[v] \in Nat /\ idx[q] \in Nat
      BY <1>1, <3>2, <3>5
    <3> QED BY <3>2, <3>4, <3>6
  <2> QED BY <2>2, <2>3
<1> QED BY <1>1, <1>3, <1>7, <1>8, <1>9, <1>10 DEF Searched

(* C is a component, and all it leads to is in it or was emitted before.   *)
IsComponent(g, idx, S, C) ==
    /\ \A p \in C : Onto(g, p) \subseteq C \cup (DOMAIN idx \ S)
    /\ \A p \in C : C = Mutual(g, p)
    /\ \A p \in C : \A q : Leads(g, p, q) => q \in C \cup (DOMAIN idx \ S)

(* When the lowlink of v is its own index, v and what comes after it on    *)
(* the stack are a component.                                              *)
LEMMA ComponentFound ==
    ASSUME NEW g, NEW idx, NEW low, NEW S, NEW frs, NEW n \in Nat \ {0},
           S \subseteq DOMAIN idx,
           Searched(g, idx, low, S, frs),
           NEW v, DOMAIN frs = 1..n, frs[n].node = v, ToSet(frs[n].todo) = {},
           low[v] = idx[v]
    PROVE  IsComponent(g, idx, S, Above(idx, S, v))
<1> DEFINE V == DOMAIN idx
           D == V \ S
           C == Above(idx, S, v)
           K == C \cup D
<1>1. /\ Numbered(g, idx, low)
      /\ Nested(idx, S, frs) /\ EmittedIsClosed(g, idx, S) /\ LeadsUp(g, idx, S)
      /\ LeadsDown(g, idx, S, frs)
  BY DEF Searched
<1>2. V \subseteq g.loaded /\ C \subseteq S /\ \A p \in V : idx[p] \in Nat
  BY <1>1 DEF Numbered, Above
<1>3. n \in DOMAIN frs /\ v \in S /\ v \in C
  <2>1. n \in DOMAIN frs /\ v \in S
    BY <1>1 DEF Nested
  <2>2. idx[v] <= idx[v]
    BY <1>2, <2>1
  <2> QED BY <2>1, <2>2 DEF Above
<1>4. \A p \in C : Onto(g, p) \subseteq K
  <2>1. \A p \in C : \A q \in Onto(g, p) : q \in V /\ (q \in S => low[v] <= idx[q])
    BY AboveStaysAbove
  <2> QED BY <2>1 DEF Above
<1>5. \A p \in D : Onto(g, p) \subseteq D
  BY <1>1 DEF EmittedIsClosed
<1>6. K \in SUBSET g.loaded /\ D \in SUBSET g.loaded
  BY <1>2
<1> HIDE DEF C
<1>7. \A p \in K : \A q : Leads(g, p, q) => q \in K
  <2>1. \A x \in K : Onto(g, x) \subseteq K
    BY <1>4, <1>5
  <2> QED BY <1>6, <2>1 DEF Leads
<1>8. \A p \in D : \A q : Leads(g, p, q) => q \in D
  BY <1>5, <1>6 DEF Leads
<1>9. \A q \in C : Leads(g, v, q)
  BY <1>1, <1>2, <1>3 DEF LeadsUp, C, Above
<1>10. \A q \in C : Leads(g, q, v)
  <2>1. SUFFICES ASSUME NEW q \in C PROVE Leads(g, q, v)
    OBVIOUS
  <2>2. PICK i \in DOMAIN frs : idx[frs[i].node] <= idx[q] /\ Leads(g, q, frs[i].node)
    BY <1>1, <1>2 DEF LeadsDown
  <2>3. frs[i].node \in S
    BY <1>1 DEF Nested
  <2>4. frs[i].node \in C
    BY <1>7, <2>2, <2>3
  <2>5. idx[v] <= idx[frs[i].node]
    BY <2>4 DEF C, Above
  <2>6. i = n
    <3>1. i # n => i \in 1..n /\ i < n
      OBVIOUS
    <3>2. i # n => idx[frs[i].node] < idx[v]
      BY <1>1, <1>3, <3>1 DEF Nested
    <3>3. idx[v] \in Nat /\ idx[frs[i].node] \in Nat
      BY <1>2, <1>3, <2>3
    <3> QED BY <2>5, <3>2, <3>3
  <2> QED BY <2>2, <2>6
<1>11. ASSUME NEW p \in C PROVE C = Mutual(g, p)
  <2>1. ASSUME NEW q \in C PROVE q \in Mutual(g, p)
    <3>1. Leads(g, p, v) /\ Leads(g, v, q) /\ Leads(g, q, v) /\ Leads(g, v, p)
      BY <1>9, <1>10, <1>11, <2>1
    <3>2. Leads(g, p, q) /\ Leads(g, q, p)
      BY <3>1, LeadsProperties
    <3> QED BY <1>2, <3>2 DEF Mutual
  <2>2. ASSUME NEW q \in Mutual(g, p) PROVE q \in C
    <3>1. Leads(g, p, q) /\ Leads(g, q, p)
      BY DEF Mutual
    <3>2. q \in K
      BY <1>7, <1>11, <3>1
    <3>3. q \notin D
      BY <1>2, <1>8, <1>11, <3>1
    <3> QED BY <3>2, <3>3
  <2> QED BY <2>1, <2>2
<1>12. \A p \in C : \A q : Leads(g, p, q) => q \in K
  BY <1>7
<1>13. IsComponent(g, idx, S, C)
  BY <1>4, <1>11, <1>12 DEF IsComponent
<1> QED BY <1>13 DEF C

(* strongConnect returns with a component, which leaves the stack.         *)
LEMMA PopStep ==
    ASSUME NEW g, NEW idx, NEW low, NEW S, NEW frs, NEW n \in Nat \ {0},
           S \subseteq DOMAIN idx,
           Searched(g, idx, low, S, frs),
           NEW v, NEW frs2, Popped(frs, frs2, n, v),
           NEW low2, Inherits(idx, low, low2, frs, n, v),
           low[v] = idx[v],
           NEW S2, S2 = S \ Above(idx, S, v)
    PROVE  Searched(g, idx, low2, S2, frs2)
<1> DEFINE V == DOMAIN idx
           m == n - 1
<1>1. /\ Numbered(g, idx, low2) /\ n \in DOMAIN frs /\ v \in S
      /\ \A p \in V : idx[p] \in Nat /\ low[p] \in Nat /\ low2[p] \in Nat /\ low2[p] <= low[p]
      /\ \A i \in 1..m : /\ i \in DOMAIN frs /\ frs2[i] = frs[i] /\ frs[i].node \in S
                         /\ idx[frs[i].node] < idx[v]
  <2>1. Returning(g, idx, low, low2, S, frs, frs2, n, v)
    BY ReturnFacts
  <2> QED BY <2>1 DEF Returning
<1>2. /\ DOMAIN frs = 1..n /\ DOMAIN frs2 = 1..m /\ m \in Nat
      /\ frs[n].node = v /\ ToSet(frs[n].todo) = {}
  BY DEF Popped
<1>3. /\ Nested(idx, S, frs) /\ EmittedIsClosed(g, idx, S) /\ LeadsUp(g, idx, S)
      /\ LeadsDown(g, idx, S, frs) /\ LowlinkBounds(g, idx, low, S, frs)
      /\ LowlinkIsReached(g, idx, low, S, frs)
  BY DEF Searched
<1>4. /\ S2 \subseteq S
      /\ \A p \in S2 : p \in V /\ idx[p] < idx[v]
      /\ \A p \in S : idx[p] < idx[v] => p \in S2
  <2>1. \A p \in S : idx[p] \in Nat /\ idx[v] \in Nat
    BY <1>1
  <2>2. \A p \in S : p \in S2 <=> ~(idx[v] <= idx[p])
    BY DEF Above
  <2>3. S2 \subseteq S
    OBVIOUS
  <2> QED BY <2>1, <2>2, <2>3
<1>5. \A i \in 1..m : frs[i].node \in S2
  BY <1>1, <1>4
<1>6. Nested(idx, S2, frs2)
  BY <1>1, <1>2, <1>3, <1>5 DEF Nested
<1>7. EmittedIsClosed(g, idx, S2)
  <2>1. IsComponent(g, idx, S, Above(idx, S, v))
    BY <1>2, ComponentFound
  <2>2. V \ S2 = Above(idx, S, v) \cup (V \ S)
    BY DEF Above
  <2>3. \A p \in Above(idx, S, v) : Onto(g, p) \subseteq V \ S2
    BY <2>1, <2>2 DEF IsComponent
  <2>4. \A p \in V \ S : Onto(g, p) \subseteq V \ S2
    BY <1>3, <2>2 DEF EmittedIsClosed
  <2> QED BY <2>2, <2>3, <2>4 DEF EmittedIsClosed
<1>8. LeadsUp(g, idx, S2)
  BY <1>3, <1>4 DEF LeadsUp
<1>9. LeadsDown(g, idx, S2, frs2)
  <2>1. SUFFICES ASSUME NEW q \in S2
                 PROVE  \E i \in 1..m : idx[frs[i].node] <= idx[q] /\ Leads(g, q, frs[i].node)
    BY <1>1, <1>2 DEF LeadsDown
  <2>2. PICK i \in 1..n : idx[frs[i].node] <= idx[q] /\ Leads(g, q, frs[i].node)
    BY <1>2, <1>3, <1>4 DEF LeadsDown
  <2>3. i # n
    BY <1>1, <1>2, <1>4, <2>2
  <2> QED BY <2>2, <2>3
<1>10. \A i \in 1..m : low2[frs[i].node] = low[frs[i].node]
  <2>1. SUFFICES ASSUME NEW i \in 1..m PROVE low2[frs[i].node] = low[frs[i].node]
    OBVIOUS
  <2>2. frs[i].node \in V /\ v \in V
    BY <1>1
  <2>3. CASE frs[i].node # frs[m].node
    BY <2>2, <2>3 DEF Inherits
  <2>4. CASE frs[i].node = frs[m].node
    <3>1. n > 1
      BY <1>2
    <3>2. low2[frs[m].node] = low[frs[m].node] \/ low2[frs[m].node] = low[v]
      BY <3>1 DEF Inherits
    <3>3. low2[frs[m].node] <= low[frs[m].node] /\ low[frs[m].node] <= idx[frs[m].node]
      BY <1>1, <1>3, <2>2, <2>4 DEF LowlinkIsReached
    <3>4. idx[frs[m].node] < low[v]
      BY <1>1, <2>4
    <3>5. /\ low2[frs[m].node] \in Nat /\ low[frs[m].node] \in Nat
          /\ idx[frs[m].node] \in Nat /\ low[v] \in Nat
      BY <1>1, <2>2, <2>4
    <3> QED BY <2>4, <3>2, <3>3, <3>4, <3>5
  <2> QED BY <2>3, <2>4
<1>11. LowlinkIsReached(g, idx, low2, S2, frs2)
  <2>1. SUFFICES ASSUME NEW i \in 1..m
                 PROVE  /\ low[frs[i].node] <= idx[frs[i].node]
                        /\ \E q \in S2 : idx[q] = low[frs[i].node] /\ Leads(g, frs[i].node, q)
    BY <1>1, <1>2, <1>10 DEF LowlinkIsReached
  <2>2. low[frs[i].node] <= idx[frs[i].node]
    BY <1>1, <1>3 DEF LowlinkIsReached
  <2>3. PICK q \in S : idx[q] = low[frs[i].node] /\ Leads(g, frs[i].node, q)
    BY <1>1, <1>3 DEF LowlinkIsReached
  <2>4. q \in S2
    <3>1. frs[i].node \in V /\ q \in V /\ v \in V /\ idx[frs[i].node] < idx[v]
      BY <1>1
    <3>2. idx[q] <= idx[frs[i].node]
      BY <2>2, <2>3
    <3>3. idx[q] \in Nat /\ idx[frs[i].node] \in Nat /\ idx[v] \in Nat
      BY <1>1, <3>1
    <3>4. idx[q] < idx[v]
      BY <3>1, <3>2, <3>3
    <3> QED BY <1>4, <3>4
  <2> QED BY <2>2, <2>3, <2>4
<1>12. LowlinkBounds(g, idx, low2, S2, frs2)
  <2>1. SUFFICES ASSUME NEW i \in 1..m, NEW p \in S2, Owns(idx, frs2, i, p),
                        NEW q \in Onto(g, p), q \notin Ahead(frs2, i, p)
                 PROVE  q \in V /\ (q \in S2 => low[frs[i].node] <= idx[q])
    BY <1>1, <1>2, <1>10 DEF LowlinkBounds
  <2>2. Owns(idx, frs, i, p)
    <3>1. idx[frs[i].node] <= idx[p]
      BY <1>1, <2>1 DEF Owns
    <3>2. ASSUME NEW j \in 1..n, i < j PROVE idx[p] < idx[frs[j].node]
      <4>1. CASE j = n
        BY <1>2, <1>4, <4>1
      <4>2. CASE j # n
        <5>1. j \in 1..m /\ j \in DOMAIN frs2 /\ frs2[j] = frs[j]
          BY <1>1, <1>2, <4>2
        <5> QED BY <2>1, <3>2, <5>1 DEF Owns
      <4> QED BY <4>1, <4>2
    <3> QED BY <1>2, <3>1, <3>2 DEF Owns
  <2>3. q \notin Ahead(frs, i, p)
    BY <1>1, <2>1 DEF Ahead
  <2>4. q \in V /\ (q \in S => low[frs[i].node] <= idx[q])
    BY <1>1, <1>3, <1>4, <2>2, <2>3 DEF LowlinkBounds
  <2> QED BY <1>4, <2>4
<1> QED BY <1>1, <1>6, <1>7, <1>8, <1>9, <1>11, <1>12 DEF Searched

(* The stack and the list of components as sequences.                      *)
LEMMA LastAndFront ==
    ASSUME NEW T, NEW s \in Seq(T), s # <<>>
    PROVE  /\ Len(s) \in Nat \ {0} /\ DOMAIN s = 1..Len(s)
           /\ Last(s) = s[Len(s)] /\ Last(s) \in T
           /\ Front(s) \in Seq(T) /\ Len(Front(s)) = Len(s) - 1
           /\ DOMAIN Front(s) = 1..(Len(s) - 1)
           /\ \A i \in 1..(Len(s) - 1) : Front(s)[i] = s[i]
<1>1. Len(s) \in Nat \ {0} /\ DOMAIN s = 1..Len(s)
  BY LenProperties, EmptySeq
<1>2. Last(s) = s[Len(s)] /\ Last(s) \in T
  BY <1>1, ElementOfSeq DEF Last
<1>3. PICK m \in Nat : m = Len(s) - 1
  <2>1. Len(s) - 1 \in Nat
    BY <1>1
  <2> QED BY <2>1
<1>4. \A i \in 1..m : s[i] \in T
  BY <1>1, <1>3, ElementOfSeq
<1>5. PICK t : t = Front(s)
  OBVIOUS
<1>6. /\ t \in Seq(T) /\ Len(t) = (IF 1 <= m THEN m - 1 + 1 ELSE 0)
      /\ \A i \in 1..(m - 1 + 1) : t[i] = s[1 + i - 1]
  BY <1>3, <1>4, <1>5, SubSeqProperties DEF Front
<1>7. Len(t) = m /\ \A i \in 1..m : t[i] = s[i]
  BY <1>3, <1>6
<1>8. DOMAIN t = 1..m
  BY <1>6, <1>7, LenProperties
<1> QED BY <1>1, <1>2, <1>3, <1>5, <1>6, <1>7, <1>8

LEMMA SetOfFrontAndLast ==
    ASSUME NEW T, NEW s \in Seq(T), s # <<>>
    PROVE  /\ Last(s) \in T /\ Front(s) \in Seq(T)
           /\ ToSet(s) = ToSet(Front(s)) \cup {Last(s)}
<1>1. PICK top : top = Last(s)
  OBVIOUS
<1>2. PICK front : front = Front(s)
  OBVIOUS
<1>3. /\ Len(s) \in Nat \ {0} /\ DOMAIN s = 1..Len(s) /\ top = s[Len(s)] /\ top \in T
      /\ front \in Seq(T) /\ DOMAIN front = 1..(Len(s) - 1)
      /\ \A i \in 1..(Len(s) - 1) : front[i] = s[i]
  BY <1>1, <1>2, LastAndFront
<1>4. PICK n \in Nat \ {0} : n = Len(s)
  BY <1>3
<1>5. /\ DOMAIN s = 1..n /\ top = s[n] /\ DOMAIN front = 1..(n - 1)
      /\ \A i \in 1..(n - 1) : front[i] = s[i]
  BY <1>3, <1>4
<1>6. \A i \in DOMAIN s : i = n \/ i \in DOMAIN front
  BY <1>5
<1>7. \A i \in DOMAIN s : s[i] \in ToSet(front) \cup {top}
  BY <1>5, <1>6 DEF ToSet
<1>8. \A i \in DOMAIN front : i \in DOMAIN s /\ s[i] = front[i]
  BY <1>5
<1>9. n \in DOMAIN s
  BY <1>5
<1>10. ToSet(front) \subseteq ToSet(s)
  BY <1>8 DEF ToSet
<1>11. top \in ToSet(s)
  BY <1>5, <1>9 DEF ToSet
<1>12. ToSet(s) \subseteq ToSet(front) \cup {top}
  BY <1>7 DEF ToSet
<1> QED BY <1>1, <1>2, <1>3, <1>10, <1>11, <1>12

LEMMA Appended ==
    ASSUME NEW T, NEW s \in Seq(T), NEW x \in T
    PROVE  /\ Append(s, x) \in Seq(T) /\ Append(s, x) # <<>>
           /\ Len(s) \in Nat /\ Len(Append(s, x)) = Len(s) + 1
           /\ DOMAIN s = 1..Len(s) /\ DOMAIN Append(s, x) = 1..(Len(s) + 1)
           /\ \A i \in 1..Len(s) : Append(s, x)[i] = s[i]
           /\ Append(s, x)[Len(s) + 1] = x
           /\ ToSet(Append(s, x)) = ToSet(s) \cup {x}
<1>1. Len(s) \in Nat /\ DOMAIN s = 1..Len(s)
  BY LenProperties
<1>2. PICK t : t = Append(s, x)
  OBVIOUS
<1>3. /\ t \in Seq(T) /\ t # <<>> /\ Len(t) = Len(s) + 1
      /\ \A i \in 1..Len(s) : t[i] = s[i]
      /\ t[Len(s) + 1] = x
  BY <1>2, AppendProperties
<1>4. DOMAIN t = 1..(Len(s) + 1)
  BY <1>3, LenProperties
<1>5. ToSet(t) = ToSet(s) \cup {x}
  <2>1. \A i \in DOMAIN t : i \in DOMAIN s \/ i = Len(s) + 1
    BY <1>1, <1>4
  <2>2. \A i \in DOMAIN t : t[i] \in ToSet(s) \cup {x}
    BY <1>1, <1>3, <2>1 DEF ToSet
  <2>3. \A i \in DOMAIN s : i \in DOMAIN t /\ t[i] = s[i]
    BY <1>1, <1>3, <1>4
  <2>4. Len(s) + 1 \in DOMAIN t
    BY <1>1, <1>4
  <2>5. ToSet(t) \subseteq ToSet(s) \cup {x}
    BY <2>2 DEF ToSet
  <2>6. ToSet(s) \subseteq ToSet(t)
    BY <2>3 DEF ToSet
  <2>7. x \in ToSet(t)
    BY <1>3, <2>4 DEF ToSet
  <2> QED BY <2>5, <2>6, <2>7
<1> QED BY <1>1, <1>2, <1>3, <1>4, <1>5

LEMMA StackPush ==
    ASSUME NEW g \in Programs, NEW idx, NEW low, Numbered(g, idx, low),
           NEW S, NEW stk, Stacked(g, idx, S, stk),
           NEW w \in g.loaded \ DOMAIN idx,
           NEW idx2, idx2 = WithNext(idx, w)
    PROVE  Stacked(g, idx2, S \cup {w}, Append(stk, w))
<1>1. PICK c : c = Cardinality(DOMAIN idx)
  OBVIOUS
<1>2. /\ DOMAIN idx2 = DOMAIN idx \cup {w} /\ idx2[w] = c
      /\ \A p \in DOMAIN idx : idx2[p] = idx[p] /\ idx[p] < c
  BY <1>1, Numbering
<1>3. /\ S \subseteq DOMAIN idx /\ stk \in Seq(g.loaded) /\ ToSet(stk) = S
      /\ \A i, j \in DOMAIN stk : i < j => idx[stk[i]] < idx[stk[j]]
  BY DEF Stacked
<1>4. PICK t : t = Append(stk, w)
  OBVIOUS
<1>5. /\ t \in Seq(g.loaded) /\ Len(stk) \in Nat
      /\ DOMAIN stk = 1..Len(stk) /\ DOMAIN t = 1..(Len(stk) + 1)
      /\ \A i \in 1..Len(stk) : t[i] = stk[i]
      /\ t[Len(stk) + 1] = w
      /\ ToSet(t) = S \cup {w}
  BY <1>3, <1>4, Appended
<1>6. \A i \in 1..Len(stk) : stk[i] \in DOMAIN idx
  <2>1. \A i \in DOMAIN stk : stk[i] \in S
    BY <1>3 DEF ToSet
  <2> QED BY <1>3, <1>5, <2>1
<1>7. ASSUME NEW i \in 1..(Len(stk) + 1), NEW j \in 1..(Len(stk) + 1), i < j
      PROVE  idx2[t[i]] < idx2[t[j]]
  <2>1. i \in 1..Len(stk) /\ t[i] = stk[i] /\ idx2[t[i]] = idx[stk[i]] /\ idx[stk[i]] < c
    BY <1>2, <1>5, <1>6, <1>7
  <2>2. CASE j = Len(stk) + 1
    BY <1>2, <1>5, <2>1, <2>2
  <2>3. CASE j # Len(stk) + 1
    <3>1. j \in 1..Len(stk) /\ t[j] = stk[j] /\ idx2[t[j]] = idx[stk[j]]
      BY <1>2, <1>5, <1>6, <2>3
    <3>2. idx[stk[i]] < idx[stk[j]]
      BY <1>3, <1>5, <1>7, <2>1, <3>1
    <3> QED BY <2>1, <3>1, <3>2
  <2> QED BY <2>2, <2>3
<1>8. S \cup {w} \subseteq DOMAIN idx2
  BY <1>2, <1>3
<1> QED BY <1>4, <1>5, <1>7, <1>8 DEF Stacked

IsCut(g, idx, S, stk, k, v) ==
    /\ SubSeq(stk, k, Len(stk)) \in Seq(g.loaded)
    /\ ToSet(SubSeq(stk, k, Len(stk))) = Above(idx, S, v)
    /\ Stacked(g, idx, S \ Above(idx, S, v), SubSeq(stk, 1, k - 1))

(* The stack is cut where v is.                                            *)
LEMMA StackPop ==
    ASSUME NEW g, NEW idx, NEW low, Numbered(g, idx, low),
           NEW S, NEW stk, Stacked(g, idx, S, stk), NEW v \in S,
           NEW k \in DOMAIN stk, stk[k] = v
    PROVE  IsCut(g, idx, S, stk, k, v)
<1>1. /\ S \subseteq DOMAIN idx /\ stk \in Seq(g.loaded) /\ ToSet(stk) = S
      /\ \A i, j \in DOMAIN stk : i < j => idx[stk[i]] < idx[stk[j]]
  BY DEF Stacked
<1>2. Len(stk) \in Nat /\ DOMAIN stk = 1..Len(stk)
  BY <1>1, LenProperties
<1>3. k \in 1..Len(stk) /\ stk[k] = v
  BY <1>2
<1>4. PICK l \in Nat : l = Len(stk)
  BY <1>2
<1>5. \A i \in 1..l : stk[i] \in g.loaded /\ stk[i] \in S /\ idx[stk[i]] \in Nat
  <2>1. \A i \in DOMAIN stk : stk[i] \in S
    BY <1>1 DEF ToSet
  <2>2. \A p \in DOMAIN idx : idx[p] \in Nat /\ p \in g.loaded
    BY DEF Numbered
  <2> QED BY <1>1, <1>2, <1>4, <2>1, <2>2
<1>6. \A i \in 1..l : idx[v] <= idx[stk[i]] <=> k <= i
  <2>1. SUFFICES ASSUME NEW i \in 1..l PROVE idx[v] <= idx[stk[i]] <=> k <= i
    OBVIOUS
  <2>2. idx[v] \in Nat /\ idx[stk[i]] \in Nat
    BY <1>3, <1>4, <1>5
  <2>3. CASE k < i
    <3>1. idx[stk[k]] < idx[stk[i]]
      BY <1>1, <1>2, <1>3, <1>4, <2>3
    <3> QED BY <1>3, <2>2, <2>3, <3>1
  <2>4. CASE k = i
    <3>1. stk[i] = v /\ k <= i
      BY <1>3, <2>4
    <3> QED BY <2>2, <3>1
  <2>5. CASE i < k
    <3>1. idx[stk[i]] < idx[stk[k]]
      BY <1>1, <1>2, <1>3, <1>4, <2>5
    <3>2. ~(k <= i)
      BY <1>3, <2>5
    <3> QED BY <1>3, <2>2, <3>1, <3>2
  <2> QED BY <1>3, <2>3, <2>4, <2>5
<1>7. k \in Int /\ l \in Int /\ 1 <= k /\ k <= l
  BY <1>3, <1>4
<1>8. PICK t : t = SubSeq(stk, k, Len(stk))
  OBVIOUS
<1>9. /\ t \in Seq(g.loaded) /\ DOMAIN t = 1..(l - k + 1)
      /\ \A i \in 1..(l - k + 1) : t[i] = stk[k + i - 1]
  <2>1. \A i \in k..l : stk[i] \in g.loaded
    BY <1>5, <1>7
  <2>2. t = SubSeq(stk, k, l)
    BY <1>4, <1>8
  <2>a. PICK T : T = g.loaded
    OBVIOUS
  <2>b. k \in Int /\ l \in Int /\ \A i \in k..l : stk[i] \in T
    BY <1>7, <2>1, <2>a
  <2>c. /\ SubSeq(stk, k, l) \in Seq(T)
        /\ Len(SubSeq(stk, k, l)) = IF k <= l THEN l - k + 1 ELSE 0
        /\ \A i \in 1..(l - k + 1) : SubSeq(stk, k, l)[i] = stk[k + i - 1]
    BY <2>b, SubSeqProperties
  <2>3. /\ t \in Seq(g.loaded) /\ Len(t) = IF k <= l THEN l - k + 1 ELSE 0
        /\ \A i \in 1..(l - k + 1) : t[i] = stk[k + i - 1]
    BY <2>2, <2>a, <2>c
  <2>4. Len(t) = l - k + 1
    BY <1>7, <2>3
  <2> QED BY <2>3, <2>4, LenProperties
<1>10. ToSet(t) = Above(idx, S, v)
  <2>1. ASSUME NEW i \in DOMAIN t PROVE t[i] \in Above(idx, S, v)
    <3>1. k + i - 1 \in 1..l /\ k <= k + i - 1 /\ t[i] = stk[k + i - 1]
      BY <1>7, <1>9
    <3> QED BY <1>5, <1>6, <3>1 DEF Above
  <2>2. ASSUME NEW p \in Above(idx, S, v) PROVE \E i \in DOMAIN t : t[i] = p
    <3>1. PICK j \in 1..l : stk[j] = p
      BY <1>1, <1>2, <1>4 DEF Above, ToSet
    <3>2. k <= j
      BY <1>6, <3>1 DEF Above
    <3>3. j - k + 1 \in 1..(l - k + 1) /\ k + (j - k + 1) - 1 = j
      BY <1>7, <3>2
    <3>4. t[j - k + 1] = stk[j]
      BY <1>9, <3>3
    <3> QED BY <1>9, <3>1, <3>3, <3>4
  <2>3. ToSet(t) \subseteq Above(idx, S, v)
    BY <2>1 DEF ToSet
  <2>4. Above(idx, S, v) \subseteq ToSet(t)
    BY <2>2 DEF ToSet
  <2> QED BY <2>3, <2>4
<1>11. PICK r : r = SubSeq(stk, 1, k - 1)
  OBVIOUS
<1>12. /\ r \in Seq(g.loaded) /\ DOMAIN r = 1..(k - 1)
       /\ \A i \in 1..(k - 1) : i \in 1..l /\ r[i] = stk[i]
  <2>1. \A i \in 1..(k - 1) : i \in 1..l /\ stk[i] \in g.loaded
    BY <1>5, <1>7
  <2>2. 1 \in Int /\ k - 1 \in Int
    BY <1>7
  <2>a. PICK m \in Int : m = k - 1
    BY <2>2
  <2>b. PICK T : T = g.loaded
    OBVIOUS
  <2>c. \A i \in 1..m : stk[i] \in T
    BY <2>1, <2>a, <2>b
  <2>d. /\ SubSeq(stk, 1, m) \in Seq(T)
        /\ Len(SubSeq(stk, 1, m)) = IF 1 <= m THEN m - 1 + 1 ELSE 0
        /\ \A i \in 1..(m - 1 + 1) : SubSeq(stk, 1, m)[i] = stk[1 + i - 1]
    BY <2>c, SubSeqProperties
  <2>3. /\ r \in Seq(g.loaded) /\ Len(r) = IF 1 <= m THEN m - 1 + 1 ELSE 0
        /\ \A i \in 1..(m - 1 + 1) : r[i] = stk[1 + i - 1]
    BY <1>11, <2>a, <2>b, <2>d
  <2>4. Len(r) = k - 1 /\ \A i \in 1..(k - 1) : r[i] = stk[i]
    BY <1>7, <2>a, <2>3
  <2> QED BY <2>1, <2>3, <2>4, LenProperties
<1>13. ToSet(r) = S \ Above(idx, S, v)
  <2>1. ASSUME NEW i \in DOMAIN r PROVE r[i] \in S \ Above(idx, S, v)
    <3>1. i \in 1..l /\ r[i] = stk[i] /\ ~(k <= i)
      BY <1>7, <1>12
    <3> QED BY <1>5, <1>6, <3>1 DEF Above
  <2>2. ASSUME NEW p \in S \ Above(idx, S, v) PROVE \E i \in DOMAIN r : r[i] = p
    <3>1. PICK j \in 1..l : stk[j] = p
      BY <1>1, <1>2, <1>4 DEF ToSet
    <3>2. ~(k <= j)
      BY <1>6, <3>1 DEF Above
    <3>3. j \in 1..(k - 1)
      BY <1>7, <3>2
    <3> QED BY <1>12, <3>1, <3>3
  <2>3. ToSet(r) \subseteq S \ Above(idx, S, v)
    BY <2>1 DEF ToSet
  <2>4. S \ Above(idx, S, v) \subseteq ToSet(r)
    BY <2>2 DEF ToSet
  <2> QED BY <2>3, <2>4
<1>14. \A i, j \in DOMAIN r : i < j => idx[r[i]] < idx[r[j]]
  BY <1>1, <1>2, <1>4, <1>12
<1>15. S \ Above(idx, S, v) \subseteq DOMAIN idx
  BY <1>1
<1>16. Stacked(g, idx, S \ Above(idx, S, v), r)
  BY <1>12, <1>13, <1>14, <1>15 DEF Stacked
<1> QED BY <1>8, <1>9, <1>10, <1>11, <1>16 DEF IsCut

(* One more component is emitted.                                          *)
LEMMA EmittedStep ==
    ASSUME NEW g, NEW idx, NEW S, NEW C \in SUBSET S, S \subseteq DOMAIN idx,
           NEW comps, Emitted(g, DOMAIN idx \ S, comps),
           IsComponent(g, idx, S, C),
           NEW c \in Seq(g.loaded), ToSet(c) = C
    PROVE  Emitted(g, DOMAIN idx \ (S \ C), Append(comps, c))
<1> DEFINE D == DOMAIN idx \ S
           D2 == DOMAIN idx \ (S \ C)
           n == Len(comps)
<1>1. /\ comps \in Seq(Seq(g.loaded))
      /\ \A p : p \in D <=> \E i \in DOMAIN comps : p \in ToSet(comps[i])
      /\ \A i \in DOMAIN comps : \A p \in ToSet(comps[i]) :
             /\ ToSet(comps[i]) = Mutual(g, p)
             /\ \A q : Leads(g, p, q) => \E j \in 1..i : q \in ToSet(comps[j])
      /\ \A i, j \in DOMAIN comps : i # j => ToSet(comps[i]) \cap ToSet(comps[j]) = {}
  BY DEF Emitted
<1>2. D2 = D \cup C /\ D \cap C = {}
  OBVIOUS
<1>3. PICK T : T = Seq(g.loaded)
  OBVIOUS
<1>4. PICK u : u = Append(comps, c)
  OBVIOUS
<1>5. /\ u \in Seq(T) /\ n \in Nat
      /\ DOMAIN comps = 1..n /\ DOMAIN u = 1..(n + 1)
      /\ \A i \in 1..n : u[i] = comps[i]
      /\ u[n + 1] = c
  BY <1>1, <1>3, <1>4, Appended
<1> HIDE DEF n, D, D2
<1>6. 1..(n + 1) = (1..n) \cup {n + 1}
  BY <1>5
<1>7. \A p : p \in D2 <=> \E i \in DOMAIN u : p \in ToSet(u[i])
  BY <1>1, <1>2, <1>5, <1>6
<1>8. ASSUME NEW i \in 1..(n + 1), NEW p \in ToSet(u[i])
      PROVE  /\ ToSet(u[i]) = Mutual(g, p)
             /\ \A q : Leads(g, p, q) => \E j \in 1..i : q \in ToSet(u[j])
  <2>1. CASE i \in 1..n
    <3>1. \A j \in 1..i : j \in 1..n /\ u[j] = comps[j]
      BY <1>5, <2>1
    <3>2. i \in 1..i /\ u[i] = comps[i]
      BY <1>5, <2>1
    <3>3. /\ ToSet(comps[i]) = Mutual(g, p)
          /\ \A q : Leads(g, p, q) => \E j \in 1..i : q \in ToSet(comps[j])
      BY <1>1, <1>5, <1>8, <2>1, <3>2
    <3> QED BY <3>1, <3>2, <3>3
  <2>2. CASE i = n + 1
    <3>1. ToSet(u[i]) = C
      BY <1>5, <2>2
    <3>2. C = Mutual(g, p) /\ \A q : Leads(g, p, q) => q \in C \cup D
      BY <1>8, <3>1 DEF IsComponent, D
    <3>3. ASSUME NEW q, Leads(g, p, q) PROVE \E j \in 1..i : q \in ToSet(u[j])
      <4>1. q \in D2
        BY <1>2, <3>2, <3>3
      <4> QED BY <1>5, <1>7, <2>2, <4>1
    <3> QED BY <3>1, <3>2, <3>3
  <2> QED BY <1>6, <2>1, <2>2
<1>9. ASSUME NEW i \in 1..(n + 1), NEW j \in 1..(n + 1), i # j
      PROVE  ToSet(u[i]) \cap ToSet(u[j]) = {}
  <2>1. \A k \in 1..n : ToSet(u[k]) \subseteq D
    BY <1>1, <1>5
  <2>2. ToSet(u[n + 1]) = C
    BY <1>5
  <2>3. CASE i \in 1..n /\ j \in 1..n
    BY <1>1, <1>5, <1>9, <2>3
  <2>4. CASE i = n + 1 /\ j \in 1..n
    BY <1>2, <2>1, <2>2, <2>4
  <2>5. CASE i \in 1..n /\ j = n + 1
    BY <1>2, <2>1, <2>2, <2>5
  <2> QED BY <1>6, <1>9, <2>3, <2>4, <2>5
<1>10. Emitted(g, D2, u)
  BY <1>3, <1>5, <1>7, <1>8, <1>9 DEF Emitted
<1> QED BY <1>4, <1>10 DEF D2

(* The call for v begins with all imports of v before it.                  *)
LEMMA FrameBegins ==
    ASSUME program \in Programs, NEW v \in program.loaded
    PROVE  /\ Frame(v) \in Work(program)
           /\ Frame(v).node = v /\ ToSet(Frame(v).todo) = program.imports[v]
<1>1. program.imports[v] \subseteq Packages
  BY ProgramsAssumption
<1>2. program.imports[v] \in SUBSET Nat /\ IsFiniteSet(program.imports[v])
  BY <1>1, PackagesAssumption, FS_Subset
<1>3. PICK I : I = program.imports[v]
  OBVIOUS
<1>4. Sorted(I) \in Seq(I) /\ ToSet(Sorted(I)) = I
  BY <1>2, <1>3, SortedProperties
<1>5. PICK s \in Seq(I) : s = Sorted(I)
  BY <1>4
<1>6. s \in Seq(Packages)
  BY <1>1, <1>3
<1>7. Frame(v) = [node |-> v, todo |-> s]
  BY <1>3, <1>5 DEF Frame, imports
<1> QED BY <1>3, <1>4, <1>5, <1>6, <1>7 DEF Work

(* A call is added to those in progress.                                   *)
LEMMA WorkAppended ==
    ASSUME NEW g, NEW frs, Working(g, frs), NEW x \in Work(g),
           ToSet(x.todo) \subseteq g.imports[x.node]
    PROVE  /\ Working(g, Append(frs, x))
           /\ Len(frs) \in Nat /\ DOMAIN frs = 1..Len(frs)
           /\ DOMAIN Append(frs, x) = 1..(Len(frs) + 1)
           /\ \A i \in 1..Len(frs) : Append(frs, x)[i] = frs[i]
           /\ Append(frs, x)[Len(frs) + 1] = x
<1>1. PICK T : T = Work(g)
  OBVIOUS
<1>2. frs \in Seq(T) /\ x \in T
  BY <1>1 DEF Working
<1>3. PICK t : t = Append(frs, x)
  OBVIOUS
<1>4. /\ t \in Seq(T) /\ Len(frs) \in Nat
      /\ DOMAIN frs = 1..Len(frs) /\ DOMAIN t = 1..(Len(frs) + 1)
      /\ \A i \in 1..Len(frs) : t[i] = frs[i]
      /\ t[Len(frs) + 1] = x
  BY <1>2, <1>3, Appended
<1>5. \A i \in DOMAIN t : i \in 1..Len(frs) \/ i = Len(frs) + 1
  BY <1>4
<1>6. \A i \in DOMAIN t : ToSet(t[i].todo) \subseteq g.imports[t[i].node]
  BY <1>4, <1>5 DEF Working
<1> QED BY <1>1, <1>3, <1>4, <1>6 DEF Working

(* What one turn of the call in progress leaves of the calls.              *)
Rest(frs) == Append(Front(frs), [Last(frs) EXCEPT !.todo = Tail(@)])

LEMMA WorkGoesOn ==
    ASSUME NEW g, NEW frs, Working(g, frs), frs # <<>>
    PROVE  LET n == Len(frs)
           IN  /\ n \in Nat \ {0} /\ DOMAIN frs = 1..n
               /\ Last(frs) = frs[n] /\ frs[n] \in Work(g)
               /\ Working(g, Front(frs)) /\ DOMAIN Front(frs) = 1..(n - 1)
               /\ \A i \in 1..(n - 1) : Front(frs)[i] = frs[i]
               /\ Last(frs).todo # <<>> =>
                    /\ Head(frs[n].todo) \in g.imports[frs[n].node]
                    /\ Working(g, Rest(frs)) /\ Len(Rest(frs)) = n
                    /\ LookedAt(frs, Rest(frs), n, Head(frs[n].todo))
<1>1. PICK T : T = Work(g)
  OBVIOUS
<1>2. frs \in Seq(T)
  BY <1>1 DEF Working
<1>3. PICK n : n = Len(frs)
  OBVIOUS
<1>4. PICK h : h = Front(frs)
  OBVIOUS
<1>5. /\ n \in Nat \ {0} /\ DOMAIN frs = 1..n
      /\ Last(frs) = frs[n] /\ frs[n] \in T
      /\ h \in Seq(T) /\ Len(h) = n - 1
      /\ DOMAIN h = 1..(n - 1)
      /\ \A i \in 1..(n - 1) : h[i] = frs[i]
  BY <1>2, <1>3, <1>4, LastAndFront
<1>6. Working(g, h)
  <2>1. \A i \in DOMAIN h : i \in DOMAIN frs /\ h[i] = frs[i]
    BY <1>5
  <2> QED BY <1>1, <1>5, <2>1 DEF Working
<1>7. ASSUME frs[n].todo # <<>>
      PROVE  /\ Head(frs[n].todo) \in g.imports[frs[n].node]
             /\ Working(g, Rest(frs)) /\ Len(Rest(frs)) = n
             /\ LookedAt(frs, Rest(frs), n, Head(frs[n].todo))
  <2>1. PICK top \in Work(g) : top = frs[n]
    BY <1>1, <1>5
  <2>2. top.node \in g.loaded /\ top.todo \in Seq(Packages) /\ n \in 1..n
    BY <1>5 DEF Work
  <2>3. /\ Head(top.todo) \in ToSet(top.todo) /\ Tail(top.todo) \in Seq(Packages)
        /\ ToSet(top.todo) = {Head(top.todo)} \cup ToSet(Tail(top.todo))
    BY <1>7, <2>1, <2>2, ToSetOfParts
  <2>4. PICK x : x = [top EXCEPT !.todo = Tail(@)]
    OBVIOUS
  <2>5. x \in Work(g) /\ x.node = top.node /\ x.todo = Tail(top.todo)
    BY <2>2, <2>3, <2>4 DEF Work
  <2>6. ToSet(top.todo) \subseteq g.imports[top.node]
    BY <1>5, <2>1, <2>2 DEF Working
  <2>7. ToSet(x.todo) \subseteq g.imports[x.node]
    BY <2>3, <2>5, <2>6
  <2>8. Rest(frs) = Append(h, x)
    BY <1>4, <1>5, <2>1, <2>4 DEF Rest
  <2>9. PICK r : r = Append(h, x)
    OBVIOUS
  <2>10. /\ Working(g, r) /\ DOMAIN r = 1..(n - 1 + 1)
         /\ \A i \in 1..(n - 1) : r[i] = h[i]
         /\ r[n - 1 + 1] = x
    BY <1>5, <1>6, <2>5, <2>7, <2>9, WorkAppended
  <2>11. n - 1 + 1 = n
    BY <1>5
  <2>12. DOMAIN r = 1..n /\ r[n] = x
    BY <2>10, <2>11
  <2>13. Len(r) = n
    <3>1. r \in Seq(T)
      BY <1>1, <2>10 DEF Working
    <3>2. Len(r) \in Nat /\ 1..Len(r) = 1..n
      BY <2>12, <3>1, LenProperties
    <3> QED BY <1>5, <3>2
  <2>14. \A i \in 1..n : i # n => r[i] = frs[i]
    BY <1>5, <2>10
  <2>15. LookedAt(frs, r, n, Head(top.todo))
    <3>1. \A i \in 1..n : r[i].node = frs[i].node
      BY <2>1, <2>5, <2>12, <2>14
    <3>2. \A i \in 1..n : \A q \in ToSet(frs[i].todo) :
              (i = n /\ q = Head(top.todo)) \/ q \in ToSet(r[i].todo)
      BY <2>1, <2>3, <2>5, <2>12, <2>14
    <3> QED BY <1>5, <2>12, <3>1, <3>2 DEF LookedAt
  <2> QED BY <2>1, <2>3, <2>6, <2>8, <2>9, <2>10, <2>13, <2>15
<1> QED BY <1>1, <1>3, <1>4, <1>5, <1>6, <1>7

(* The index of a white package leaves what was emitted as it is.          *)
LEMMA StillEmitted ==
    ASSUME NEW idx, NEW S, NEW w, w \notin DOMAIN idx
    PROVE  DOMAIN WithNext(idx, w) \ (S \cup {w}) = DOMAIN idx \ S
BY DEF WithNext

LEMMA StartRootKeeps ==
    ASSUME program \in Programs, TarjanInv, StartRoot
    PROVE  TarjanInv'
<1> DEFINE S == ToSet(stack)
<1>1. /\ frames = <<>> /\ loaded \ DOMAIN index # {}
      /\ program' = program /\ sccs' = sccs
  BY DEF StartRoot
<1>2. PICK w : w = Head(Sorted(loaded \ DOMAIN index))
  OBVIOUS
<1>3. /\ index' = WithNext(index, w) /\ lowlink' = WithNext(lowlink, w)
      /\ stack' = Append(stack, w) /\ frames' = <<Frame(w)>>
  BY <1>2 DEF StartRoot, strongConnect
<1>4. w \in program.loaded \ DOMAIN index
  <2>1. PICK X : X = loaded \ DOMAIN index
    OBVIOUS
  <2>2. X \subseteq program.loaded /\ X # {}
    BY <1>1, <2>1 DEF loaded
  <2>3. X \in SUBSET Nat /\ IsFiniteSet(X)
    BY <2>2, ImportersAreFinite, FS_Subset
  <2>4. Sorted(X) \in Seq(X) /\ ToSet(Sorted(X)) = X
    BY <2>3, SortedProperties
  <2>5. Sorted(X) # <<>>
    <3>1. ToSet(<<>>) = {}
      BY DEF ToSet
    <3> QED BY <2>2, <2>4, <3>1
  <2>6. Head(Sorted(X)) \in X
    BY <2>4, <2>5, HeadTailProperties
  <2> QED BY <1>2, <2>1, <2>6 DEF loaded
<1>5. /\ Working(program, frames) /\ Searched(program, index, lowlink, S, frames)
      /\ Stacked(program, index, S, stack)
      /\ Emitted(program, DOMAIN index \ S, sccs)
  BY DEF TarjanInv
<1>6. S \subseteq DOMAIN index /\ Numbered(program, index, lowlink)
  BY <1>5 DEF Stacked, Searched
<1>7. /\ Frame(w) \in Work(program)
      /\ Frame(w).node = w /\ ToSet(Frame(w).todo) = program.imports[w]
  BY <1>4, FrameBegins
<1>8. PICK x : x = Frame(w)
  OBVIOUS
<1>9. frames' = Append(frames, x)
  BY <1>1, <1>3, <1>8
<1>10. /\ Working(program, frames') /\ DOMAIN frames = 1..0 /\ DOMAIN frames' = 1..1
       /\ frames'[1] = x
  <2>1. Len(frames) = 0
    BY <1>1
  <2>2. ToSet(x.todo) \subseteq program.imports[x.node] /\ x \in Work(program)
    BY <1>7, <1>8
  <2>3. /\ Working(program, Append(frames, x))
        /\ DOMAIN frames = 1..Len(frames)
        /\ DOMAIN Append(frames, x) = 1..(Len(frames) + 1)
        /\ Append(frames, x)[Len(frames) + 1] = x
    BY <1>5, <2>2, WorkAppended
  <2> QED BY <1>9, <2>1, <2>3
<1>11. Pushed(program, frames, frames', 0, w)
  <2>1. Onto(program, w) \subseteq ToSet(x.todo)
    BY <1>7, <1>8 DEF Onto
  <2> QED BY <1>7, <1>8, <1>10, <2>1 DEF Pushed
<1>12. Searched(program, index', lowlink', S \cup {w}, frames')
  BY <1>3, <1>4, <1>5, <1>6, <1>11, PushStep
<1>13. Stacked(program, index', S \cup {w}, stack')
  BY <1>3, <1>4, <1>5, <1>6, StackPush
<1>14. ToSet(stack') = S \cup {w}
  BY <1>13 DEF Stacked
<1>15. Emitted(program, DOMAIN index' \ (S \cup {w}), sccs')
  <2>1. DOMAIN index' \ (S \cup {w}) = DOMAIN index \ S
    BY <1>3, <1>4, StillEmitted
  <2> QED BY <1>1, <1>5, <2>1
<1> QED BY <1>1, <1>10, <1>12, <1>13, <1>14, <1>15 DEF TarjanInv

LEMMA NeighbourKeeps ==
    ASSUME program \in Programs, TarjanInv, Neighbour
    PROVE  TarjanInv'
<1> DEFINE S == ToSet(stack)
<1>1. PICK n : n = Len(frames)
  OBVIOUS
<1>2. /\ frames # <<>> /\ Last(frames).todo # <<>>
      /\ program' = program /\ sccs' = sccs
  BY DEF Neighbour
<1>3. /\ Working(program, frames) /\ Searched(program, index, lowlink, S, frames)
      /\ Stacked(program, index, S, stack)
      /\ Emitted(program, DOMAIN index \ S, sccs)
  BY DEF TarjanInv
<1>4. S \subseteq DOMAIN index /\ Numbered(program, index, lowlink)
  BY <1>3 DEF Stacked, Searched
<1>5. PICK v : v = Last(frames).node
  OBVIOUS
<1>6. PICK w : w = Head(Last(frames).todo)
  OBVIOUS
<1>7. PICK rest : rest = Rest(frames)
  OBVIOUS
<1>8. /\ n \in Nat \ {0} /\ DOMAIN frames = 1..n /\ Last(frames) = frames[n]
      /\ w \in program.imports[v]
      /\ Working(program, rest) /\ Len(rest) = n
      /\ LookedAt(frames, rest, n, w)
  BY <1>1, <1>2, <1>3, <1>5, <1>6, <1>7, WorkGoesOn
<1>9. \/ /\ w \notin loaded
         /\ frames' = rest
         /\ UNCHANGED <<index, lowlink, stack>>
      \/ /\ w \in loaded \ DOMAIN index
         /\ strongConnect(w)
         /\ frames' = Append(rest, Frame(w))
      \/ /\ w \in DOMAIN index
         /\ lowlink' = BackLink(v, w)
         /\ frames' = rest
         /\ UNCHANGED <<index, stack>>
  BY <1>5, <1>6, <1>7 DEF Neighbour, Rest
<1>10. /\ v = frames[n].node /\ v \in S /\ v \in DOMAIN index
       /\ lowlink \in [DOMAIN index -> Nat] /\ index \in [DOMAIN index -> Nat]
  <2>1. v = frames[n].node /\ n \in DOMAIN frames
    BY <1>5, <1>8
  <2>2. v \in S
    BY <1>3, <2>1 DEF Searched, Nested
  <2> QED BY <1>4, <2>1, <2>2 DEF Numbered
<1>11. CASE w \notin loaded /\ frames' = rest /\ UNCHANGED <<index, lowlink, stack>>
  <2>1. w \notin program.loaded
    BY <1>11 DEF loaded
  <2>2. TakesOver(program, index, lowlink, lowlink, S, frames[n].node, w)
    <3>1. lowlink[v] <= lowlink[v]
      BY <1>10
    <3>2. w \notin S
      BY <1>4, <2>1 DEF Numbered
    <3> QED BY <1>10, <3>1, <3>2 DEF TakesOver
  <2>3. Searched(program, index, lowlink, S, rest)
    BY <1>3, <1>4, <1>8, <2>1, <2>2, LookStep
  <2> QED BY <1>2, <1>3, <1>8, <1>11, <2>3 DEF TarjanInv
<1>12. CASE w \in loaded \ DOMAIN index /\ strongConnect(w) /\ frames' = Append(rest, Frame(w))
  <2>1. w \in program.loaded \ DOMAIN index
    BY <1>12 DEF loaded
  <2>2. /\ index' = WithNext(index, w) /\ lowlink' = WithNext(lowlink, w)
        /\ stack' = Append(stack, w)
    BY <1>12 DEF strongConnect
  <2>3. PICK x : x = Frame(w)
    OBVIOUS
  <2>4. x \in Work(program) /\ x.node = w /\ ToSet(x.todo) = program.imports[w]
    BY <2>1, <2>3, FrameBegins
  <2>5. /\ Working(program, frames') /\ DOMAIN frames' = 1..(n + 1)
        /\ \A i \in 1..n : frames'[i] = rest[i]
        /\ frames'[n + 1] = x
    <3>1. ToSet(x.todo) \subseteq program.imports[x.node] /\ frames' = Append(rest, x)
      BY <1>12, <2>3, <2>4
    <3> QED BY <1>8, <2>4, <3>1, WorkAppended
  <2>6. Pushed(program, frames, frames', n, w)
    <3>1. Onto(program, w) \subseteq ToSet(frames'[n + 1].todo)
      BY <2>4, <2>5 DEF Onto
    <3>2. /\ \A i \in 1..n : rest[i].node = frames[i].node
          /\ \A i \in 1..n : \A q \in ToSet(frames[i].todo) : q = w \/ q \in ToSet(rest[i].todo)
      BY <1>8 DEF LookedAt
    <3> QED BY <1>8, <2>4, <2>5, <3>1, <3>2 DEF Pushed
  <2>7. w \in Onto(program, frames[n].node)
    BY <1>8, <1>10, <2>1 DEF Onto
  <2>8. Searched(program, index', lowlink', S \cup {w}, frames')
    BY <1>3, <1>4, <1>8, <2>1, <2>2, <2>6, <2>7, PushStep
  <2>9. Stacked(program, index', S \cup {w}, stack')
    BY <1>3, <1>4, <2>1, <2>2, StackPush
  <2>10. ToSet(stack') = S \cup {w}
    BY <2>9 DEF Stacked
  <2>11. Emitted(program, DOMAIN index' \ (S \cup {w}), sccs')
    <3>1. DOMAIN index' \ (S \cup {w}) = DOMAIN index \ S
      BY <2>1, <2>2, StillEmitted
    <3> QED BY <1>2, <1>3, <3>1
  <2> QED BY <1>2, <2>5, <2>8, <2>9, <2>10, <2>11 DEF TarjanInv
<1>13. CASE /\ w \in DOMAIN index
            /\ lowlink' = BackLink(v, w)
            /\ frames' = rest
            /\ UNCHANGED <<index, stack>>
  <2>1. w \in Onto(program, v)
    BY <1>4, <1>8, <1>13 DEF Numbered, Onto
  <2>2. TakesOver(program, index, lowlink, lowlink', S, v, w)
    <3>1. lowlink[v] \in Nat /\ index[w] \in Nat
      BY <1>10, <1>13
    <3>2. CASE w \in S
      <4>1. lowlink' = [lowlink EXCEPT ![v] = AtMost(index[w], lowlink[v])]
        BY <1>13, <3>2 DEF BackLink
      <4>2. /\ AtMost(index[w], lowlink[v]) \in Nat
            /\ AtMost(index[w], lowlink[v]) <= index[w]
            /\ AtMost(index[w], lowlink[v]) <= lowlink[v]
            /\ AtMost(index[w], lowlink[v]) \in {index[w], lowlink[v]}
        BY <3>1 DEF AtMost
      <4>3. /\ lowlink' \in [DOMAIN index -> Nat]
            /\ lowlink'[v] = AtMost(index[w], lowlink[v])
            /\ \A p \in DOMAIN index : p # v => lowlink'[p] = lowlink[p]
        BY <1>10, <4>1, <4>2
      <4> QED BY <2>1, <3>2, <4>2, <4>3 DEF TakesOver
    <3>3. CASE w \notin S
      <4>1. lowlink' = lowlink
        BY <1>13, <3>3 DEF BackLink
      <4>2. lowlink[v] <= lowlink[v]
        BY <3>1
      <4> QED BY <1>10, <3>3, <4>1, <4>2 DEF TakesOver
    <3> QED BY <3>2, <3>3
  <2>3. Searched(program, index, lowlink', S, rest)
    <3>1. TakesOver(program, index, lowlink, lowlink', S, frames[n].node, w)
      BY <1>10, <2>2
    <3> QED BY <1>3, <1>4, <1>8, <1>13, <3>1, LookStep
  <2> QED BY <1>2, <1>3, <1>8, <1>13, <2>3 DEF TarjanInv
<1> QED BY <1>9, <1>11, <1>12, <1>13

LEMMA ReturnKeeps ==
    ASSUME program \in Programs, TarjanInv, Return
    PROVE  TarjanInv'
<1> DEFINE S == ToSet(stack)
<1>1. PICK n : n = Len(frames)
  OBVIOUS
<1>2. PICK v : v = Last(frames).node
  OBVIOUS
<1>3. PICK k : k = CHOOSE i \in DOMAIN stack : stack[i] = v
  OBVIOUS
<1>4. PICK callers : callers = Front(frames)
  OBVIOUS
<1>5. /\ frames # <<>> /\ Last(frames).todo = <<>>
      /\ program' = program /\ index' = index
      /\ frames' = callers
      /\ lowlink' = IF callers = <<>> THEN lowlink
                    ELSE [lowlink EXCEPT ![Last(callers).node] = AtMost(lowlink[v], @)]
      /\ IF lowlink[v] = index[v]
         THEN /\ sccs' = Append(sccs, SubSeq(stack, k, Len(stack)))
              /\ stack' = SubSeq(stack, 1, k - 1)
         ELSE UNCHANGED <<sccs, stack>>
  BY <1>2, <1>3, <1>4 DEF Return
<1>6. /\ Working(program, frames) /\ Searched(program, index, lowlink, S, frames)
      /\ Stacked(program, index, S, stack)
      /\ Emitted(program, DOMAIN index \ S, sccs)
  BY DEF TarjanInv
<1>7. S \subseteq DOMAIN index /\ Numbered(program, index, lowlink)
  BY <1>6 DEF Stacked, Searched
<1>8. /\ n \in Nat \ {0} /\ DOMAIN frames = 1..n /\ Last(frames) = frames[n]
      /\ Working(program, callers) /\ DOMAIN callers = 1..(n - 1)
      /\ \A i \in 1..(n - 1) : callers[i] = frames[i]
  BY <1>1, <1>4, <1>5, <1>6, WorkGoesOn
<1>9. Popped(frames, callers, n, v)
  <2>1. ToSet(frames[n].todo) = {}
    BY <1>5, <1>8 DEF ToSet
  <2> QED BY <1>2, <1>8, <2>1 DEF Popped
<1>10. v \in S /\ v \in DOMAIN index /\ \A i \in 1..n : frames[i].node \in S
  <2>1. \A i \in 1..n : frames[i].node \in S
    BY <1>6, <1>8 DEF Searched, Nested
  <2>2. n \in 1..n
    BY <1>8
  <2> QED BY <1>2, <1>7, <1>8, <2>1, <2>2
<1>11. lowlink \in [DOMAIN index -> Nat]
  BY <1>7 DEF Numbered
<1>12. Inherits(index, lowlink, lowlink', frames, n, v)
  <2>1. CASE n = 1
    <3>1. callers = <<>>
      <4>1. callers \in Seq(Work(program)) /\ DOMAIN callers = 1..0
        BY <1>8, <2>1 DEF Working
      <4>2. Len(callers) = 0
        BY <4>1, LenProperties
      <4> QED BY <4>1, <4>2, EmptySeq
    <3>2. lowlink' = lowlink
      BY <1>5, <3>1
    <3> QED BY <1>11, <2>1, <3>2 DEF Inherits
  <2>2. CASE n # 1
    <3>1. n - 1 \in 1..(n - 1) /\ n - 1 \in 1..n
      BY <1>8, <2>2
    <3>2. callers # <<>>
      <4>1. DOMAIN callers # {}
        BY <1>8, <3>1
      <4> QED BY <4>1
    <3>3. PICK u : u = frames[n - 1].node
      OBVIOUS
    <3>4. u \in DOMAIN index
      BY <1>7, <1>10, <3>1, <3>3
    <3>5. Last(callers).node = u
      <4>1. callers \in Seq(Work(program))
        BY <1>8 DEF Working
      <4>2. PICK T : T = Work(program)
        OBVIOUS
      <4>3. Last(callers) = callers[Len(callers)] /\ Len(callers) \in Nat
            /\ 1..Len(callers) = 1..(n - 1)
        BY <1>8, <3>2, <4>1, <4>2, LastAndFront
      <4>4. Len(callers) = n - 1
        BY <1>8, <3>1, <4>3
      <4> QED BY <1>8, <3>1, <3>3, <4>3, <4>4
    <3>6. lowlink' = [lowlink EXCEPT ![u] = AtMost(lowlink[v], lowlink[u])]
      BY <1>5, <3>2, <3>5
    <3>7. lowlink[u] \in Nat /\ lowlink[v] \in Nat
      BY <1>10, <1>11, <3>4
    <3>8. /\ AtMost(lowlink[v], lowlink[u]) \in Nat
          /\ AtMost(lowlink[v], lowlink[u]) <= lowlink[v]
          /\ AtMost(lowlink[v], lowlink[u]) <= lowlink[u]
          /\ AtMost(lowlink[v], lowlink[u]) \in {lowlink[v], lowlink[u]}
      BY <3>7 DEF AtMost
    <3>9. /\ lowlink' \in [DOMAIN index -> Nat]
          /\ lowlink'[u] = AtMost(lowlink[v], lowlink[u])
          /\ \A p \in DOMAIN index : p # u => lowlink'[p] = lowlink[p]
      BY <1>11, <3>4, <3>6, <3>8
    <3> QED BY <2>2, <3>3, <3>8, <3>9 DEF Inherits
  <2> QED BY <2>1, <2>2
<1>13. CASE lowlink[v] # index[v]
  <2>1. sccs' = sccs /\ stack' = stack
    BY <1>5, <1>13
  <2>2. Searched(program, index, lowlink', S, callers)
    BY <1>6, <1>7, <1>8, <1>9, <1>12, <1>13, KeepStep
  <2> QED BY <1>5, <1>6, <1>8, <2>1, <2>2 DEF TarjanInv
<1>14. CASE lowlink[v] = index[v]
  <2> DEFINE C == Above(index, S, v)
  <2>1. /\ sccs' = Append(sccs, SubSeq(stack, k, Len(stack)))
        /\ stack' = SubSeq(stack, 1, k - 1)
    BY <1>5, <1>14
  <2>2. k \in DOMAIN stack /\ stack[k] = v
    <3>1. \E i \in DOMAIN stack : stack[i] = v
      BY <1>10 DEF ToSet
    <3> QED BY <1>3, <3>1
  <2>3. PICK c : c = SubSeq(stack, k, Len(stack))
    OBVIOUS
  <2>a. IsCut(program, index, S, stack, k, v)
    BY <1>6, <1>7, <1>10, <2>2, StackPop
  <2>4. c \in Seq(program.loaded) /\ ToSet(c) = C
    BY <2>3, <2>a DEF IsCut
  <2>5. Stacked(program, index, S \ C, stack')
    BY <2>1, <2>a DEF IsCut
  <2>6. ToSet(stack') = S \ C
    BY <2>5 DEF Stacked
  <2>7. Searched(program, index, lowlink', S \ C, callers)
    BY <1>6, <1>7, <1>8, <1>9, <1>12, <1>14, PopStep
  <2>8. IsComponent(program, index, S, C)
    <3>1. DOMAIN frames = 1..n /\ frames[n].node = v /\ ToSet(frames[n].todo) = {}
      BY <1>9 DEF Popped
    <3> QED BY <1>6, <1>7, <1>8, <1>14, <3>1, ComponentFound
  <2>9. Emitted(program, DOMAIN index \ (S \ C), sccs')
    <3>1. C \in SUBSET S
      BY DEF Above
    <3> HIDE DEF C
    <3> QED BY <1>6, <1>7, <2>1, <2>3, <2>4, <2>8, <3>1, EmittedStep
  <2> HIDE DEF C
  <2> QED BY <1>5, <1>8, <2>5, <2>6, <2>7, <2>9 DEF TarjanInv
<1> QED BY <1>13, <1>14

LEMMA TarjanBegins ==
    ASSUME NoTarjan
    PROVE  TarjanInv
<1>1. index = <<>> /\ lowlink = <<>> /\ stack = <<>> /\ frames = <<>> /\ sccs = <<>>
  BY DEF NoTarjan
<1>2. \A T : <<>> \in Seq(T)
  OBVIOUS
<1>3. DOMAIN <<>> = {} /\ ToSet(<<>>) = {} /\ <<>> \in [{} -> Nat]
  <2>1. DOMAIN <<>> = {}
    OBVIOUS
  <2>2. ToSet(<<>>) = {}
    BY <2>1 DEF ToSet
  <2>3. <<>> = [x \in {} |-> 0]
    BY <2>1
  <2>4. [x \in {} |-> 0] \in [{} -> Nat]
    OBVIOUS
  <2> QED BY <2>1, <2>2, <2>3, <2>4
<1>4. Working(program, frames)
  BY <1>1, <1>2, <1>3 DEF Working
<1>5. Numbered(program, index, lowlink)
  BY <1>1, <1>3 DEF Numbered
<1>6. Searched(program, index, lowlink, ToSet(stack), frames)
  BY <1>1, <1>3, <1>5 DEF Searched, Nested, EmittedIsClosed, LeadsUp, LeadsDown,
                         LowlinkBounds, LowlinkIsReached
<1>7. Stacked(program, index, ToSet(stack), stack)
  BY <1>1, <1>2, <1>3 DEF Stacked
<1>8. Emitted(program, DOMAIN index \ ToSet(stack), sccs)
  BY <1>1, <1>2, <1>3 DEF Emitted
<1> QED BY <1>4, <1>6, <1>7, <1>8 DEF TarjanInv

LEMMA InitTools == InitImports => ImportsInv
BY TarjanBegins DEF InitImports, ImportsInv

LEMMA NextTools == ImportsInv /\ [NextImports]_pgvars => ImportsInv'
<1>1. SUFFICES ASSUME ImportsInv, [NextImports]_pgvars PROVE ImportsInv'
  OBVIOUS
<1>2. CASE StartRoot \/ Neighbour \/ Return
  <2>1. /\ tool = "cycles" /\ running /\ UNCHANGED <<tool, program, running, search, checks>>
    BY <1>2 DEF StartRoot, Neighbour, Return
  <2>2. TarjanInv'
    BY <1>1, <1>2, <2>1, StartRootKeeps, NeighbourKeeps, ReturnKeeps DEF ImportsInv
  <2> QED BY <1>1, <2>1, <2>2 DEF ImportsInv, NoSearch, search, checks
<1>3. CASE FinishCycles
  <2>1. /\ tool = "cycles" /\ frames = <<>> /\ loaded \subseteq DOMAIN index
        /\ running' = FALSE /\ UNCHANGED <<tool, program, tarjan, search, checks>>
    BY <1>3 DEF FinishCycles
  <2> QED BY <1>1, <2>1 DEF ImportsInv, NoSearch, TarjanInv, loaded, tarjan, search, checks
<1>4. CASE Depending \/ \E w \in Windows : FinishSearch(w)
  <2>1. /\ tool = "reverse" /\ running' \in BOOLEAN
        /\ UNCHANGED <<tool, program, tarjan, checks>>
    BY <1>1, <1>4 DEF Depending, FinishSearch, ImportsInv
  <2> QED BY <1>1, <2>1 DEF ImportsInv, NoTarjan, tarjan, checks
<1>5. CASE \/ \E r \in Rules : AddRule(r)
           \/ \E g \in Programs : WidenPattern(g)
  <2>1. /\ tool = "boundaries" /\ program' \in Programs /\ rules' \subseteq Rules
        /\ UNCHANGED <<tool, running, tarjan, search>>
    BY <1>1, <1>5 DEF AddRule, WidenPattern, ImportsInv
  <2> QED BY <1>1, <2>1 DEF ImportsInv, NoTarjan, NoSearch, tarjan, search
<1>6. CASE UNCHANGED pgvars
  BY <1>1, <1>6 DEF ImportsInv, NoTarjan, NoSearch, TarjanInv, loaded, pgvars, tarjan, search, checks
<1> QED BY <1>1, <1>2, <1>3, <1>4, <1>5, <1>6 DEF NextImports

(* The components of a program, as the reference defines them.             *)
LEMMA ComponentIsExact ==
    ASSUME program \in Programs, NEW p \in program.loaded
    PROVE  Component(p) = Mutual(program, p)
<1>1. \A q \in program.loaded : Reach(q) = {r \in program.loaded : Leads(program, q, r)}
  BY ReachIsExact
<1> QED BY <1>1 DEF Component, Mutual

LEMMA ToolsAreExact == ImportsInv => CyclesExact
<1>1. SUFFICES ASSUME ImportsInv PROVE CyclesExact
  OBVIOUS
<1>2. CASE tool # "cycles"
  <2>1. sccs = <<>>
    BY <1>1, <1>2 DEF ImportsInv, NoTarjan
  <2>2. DOMAIN sccs = {}
    BY <2>1
  <2> QED BY <1>2, <2>2 DEF CyclesExact
<1>3. CASE tool = "cycles"
  <2> DEFINE D == DOMAIN index \ ToSet(stack)
             g == program
  <2>1. /\ program \in Programs /\ Searched(g, index, lowlink, ToSet(stack), frames)
        /\ Stacked(g, index, ToSet(stack), stack) /\ Emitted(g, D, sccs)
        /\ ~running => frames = <<>> /\ loaded \subseteq DOMAIN index
    BY <1>1, <1>3 DEF ImportsInv, TarjanInv
  <2>2. /\ \A p : p \in D <=> \E i \in DOMAIN sccs : p \in ToSet(sccs[i])
        /\ \A i \in DOMAIN sccs : \A p \in ToSet(sccs[i]) :
               /\ ToSet(sccs[i]) = Mutual(g, p)
               /\ \A q : Leads(g, p, q) => \E j \in 1..i : q \in ToSet(sccs[j])
        /\ \A i, j \in DOMAIN sccs : i # j => ToSet(sccs[i]) \cap ToSet(sccs[j]) = {}
    BY <2>1 DEF Emitted
  <2>3. D \subseteq g.loaded
    BY <2>1 DEF Searched, Numbered
  <2>4. \A p \in g.loaded : /\ Component(p) = Mutual(g, p)
                            /\ \A q \in Reach(p) : Leads(g, p, q)
    BY <2>1, ComponentIsExact, ReachIsExact
  <2> HIDE DEF D
  <2>5. \A i \in DOMAIN sccs : \A p \in ToSet(sccs[i]) :
            /\ ToSet(sccs[i]) = Component(p)
            /\ \A q \in Reach(p) : \E j \in 1..i : q \in ToSet(sccs[j])
    BY <2>2, <2>3, <2>4
  <2>6. ASSUME ~running
        PROVE  cycles = {c \in {Component(p) : p \in loaded} : Cardinality(c) >= 2}
    <3>1. D = g.loaded
      <4>1. ToSet(stack) = {}
        <5>1. DOMAIN frames = {}
          BY <2>1, <2>6
        <5> QED BY <2>1, <5>1 DEF Searched, LeadsDown
      <4> QED BY <2>1, <2>3, <2>6, <4>1 DEF D, loaded
    <3>2. ASSUME NEW c \in cycles
          PROVE  c \in {Component(p) : p \in loaded} /\ Cardinality(c) >= 2
      <4>1. PICK i \in DOMAIN sccs : c = ToSet(sccs[i])
        BY DEF cycles
      <4>2. Cardinality(c) >= 2
        BY DEF cycles
      <4>3. c # {}
        <5>1. Cardinality({}) = 0
          BY FS_EmptySet
        <5> QED BY <4>2, <5>1
      <4>4. PICK p \in c : TRUE
        BY <4>3
      <4>5. c = Component(p) /\ p \in loaded
        BY <2>2, <2>5, <3>1, <4>1, <4>4 DEF loaded
      <4> QED BY <4>2, <4>5
    <3>3. ASSUME NEW p \in loaded, Cardinality(Component(p)) >= 2
          PROVE  Component(p) \in cycles
      <4>1. PICK i \in DOMAIN sccs : p \in ToSet(sccs[i])
        BY <2>2, <3>1 DEF loaded
      <4>2. Component(p) = ToSet(sccs[i])
        BY <2>5, <4>1
      <4> QED BY <3>3, <4>2 DEF cycles
    <3> QED BY <3>2, <3>3
  <2> QED BY <2>2, <2>5, <2>6 DEF CyclesExact
<1> QED BY <1>2, <1>3

(* DetectImportCycles: in every program, every list that findSCCs emits is *)
(* a strongly connected component, behind everything it imports, and at    *)
(* the end the cycles are all of them, each once.                          *)
THEOREM CyclesAreExact == SpecImports => []CyclesExact
BY InitTools, NextTools, ToolsAreExact, PTL DEF SpecImports

LEMMA ToolsHaveTypes == ImportsInv /\ SearchInv => ImportsTypeOK
<1>1. SUFFICES ASSUME ImportsInv, SearchInv PROVE ImportsTypeOK
  OBVIOUS
<1>2. loaded \subseteq Packages /\ running \in BOOLEAN /\ rules \subseteq Rules
  BY <1>1, ProgramsAssumption DEF ImportsInv, loaded
<1>3. TarjanInv
  BY <1>1, TarjanBegins DEF ImportsInv
<1>4. DOMAIN index \subseteq loaded /\ DOMAIN lowlink = DOMAIN index /\ stack \in Seq(loaded)
  BY <1>3 DEF TarjanInv, Searched, Numbered, Stacked, loaded
<1>5. \A i \in DOMAIN frames : frames[i].node \in loaded
  <2>1. frames \in Seq(Work(program))
    BY <1>3 DEF TarjanInv, Working
  <2>2. PICK T : T = Work(program)
    OBVIOUS
  <2>3. \A i \in DOMAIN frames : frames[i] \in T
    BY <2>1, <2>2, LenProperties, ElementOfSeq
  <2> QED BY <2>2, <2>3 DEF Work, loaded
<1>6. \A i \in DOMAIN sccs : sccs[i] \in Seq(loaded)
  <2>1. PICK T : T = Seq(program.loaded)
    OBVIOUS
  <2>2. sccs \in Seq(T)
    BY <1>3, <2>1 DEF TarjanInv, Emitted
  <2>3. \A i \in DOMAIN sccs : sccs[i] \in T
    BY <2>2, LenProperties, ElementOfSeq
  <2> QED BY <2>1, <2>3 DEF loaded
<1>7. pending \in Seq(loaded) /\ visited \subseteq loaded
  <2>1. CASE tool = "reverse"
    BY <1>1, <2>1 DEF SearchInv, Searching, loaded
  <2>2. CASE tool # "reverse"
    <3>1. pending = <<>> /\ visited = {}
      BY <1>1, <2>2 DEF ImportsInv, NoSearch
    <3>2. \A T : <<>> \in Seq(T)
      OBVIOUS
    <3> QED BY <3>1, <3>2
  <2> QED BY <2>1, <2>2
<1> QED BY <1>2, <1>4, <1>5, <1>6, <1>7 DEF ImportsTypeOK

(* The state of the three tools stays in its types.                        *)
THEOREM ImportTypes == SpecImports => []ImportsTypeOK
BY InitTools, NextTools, InitSearches, NextSearches, ToolsHaveTypes, PTL DEF SpecImports

-----------------------------------------------------------------------------
(* Call graphs: what every request keeps to.                               *)

(* A request is answered from one call graph.  The program is the one that *)
(* answered the last name, and a function that was found is a function of  *)
(* the program it was found in.                                            *)
CallsInv ==
    /\ request \in Requests
    /\ calls \in CallGraphs
    /\ pc \in {"resolve", "run", "done", "failed"}
    /\ prog \in {"narrow", "broad"}
    /\ resolved \in Seq([prog : {"narrow", "broad"}, fn : Funcs])
    /\ \A i \in DOMAIN resolved : resolved[i].fn \in Known(resolved[i].prog)
    /\ resolved # <<>> => Last(resolved).prog = prog

LEMMA KnownFunctions ==
    ASSUME NEW p \in {"narrow", "broad"}
    PROVE  /\ Known(p) \subseteq Funcs /\ IsFiniteSet(Known(p))
           /\ Own[p] \subseteq Known(p)
           /\ \A e \in Edges(p) : e.caller \in Known(p) /\ e.callee \in Known(p)
<1>1. Known(p) \subseteq Funcs
  BY FuncsAssumption DEF Known
<1>2. IsFiniteSet(Known(p))
  BY <1>1, FuncsAssumption, FS_Subset
<1>3. Own[p] \subseteq Known(p)
  BY OwnAssumption DEF Known
<1> QED BY <1>1, <1>2, <1>3 DEF Edges

LEMMA FoundIsKnown ==
    ASSUME NEW p \in {"narrow", "broad"}, NEW q
    PROVE  findFunction(p, q) \subseteq Known(p)
<1> DEFINE sets == <<q.exact \cap Own[p], q.exact \cap Known(p),
                     q.fold \cap Own[p], q.fold \cap Known(p)>>
           Prefer(S, T) == IF Cardinality(S) > 1 /\ S \cap T # {} THEN S \cap T ELSE S
<1>1. \A i \in 1..4 : sets[i] \subseteq Known(p)
  BY KnownFunctions
<1>2. DOMAIN sets = 1..4
  OBVIOUS
<1> HIDE DEF sets
<1>3. FirstNonEmpty(sets) \subseteq Known(p)
  <2>1. CASE \E i \in DOMAIN sets : sets[i] # {}
    <3> DEFINE P(i) == sets[i] # {} /\ \A j \in 1..(i - 1) : sets[j] = {}
    <3>1. \E i \in DOMAIN sets : P(i)
      <4>1. PICK M : M = {i \in DOMAIN sets : sets[i] # {}}
        OBVIOUS
      <4>2. M \in SUBSET Nat /\ M # {}
        BY <1>2, <2>1, <4>1
      <4>3. PICK m \in M : \A x \in M : m <= x
        BY <4>2, Least
      <4>4. \A j \in 1..(m - 1) : j \in DOMAIN sets /\ ~(m <= j)
        BY <1>2, <4>1, <4>2
      <4> QED BY <4>1, <4>3, <4>4
    <3>2. (CHOOSE i \in DOMAIN sets : P(i)) \in DOMAIN sets
      BY <3>1
    <3>3. PICK c \in DOMAIN sets : c = CHOOSE i \in DOMAIN sets : P(i)
      BY <3>2
    <3>4. FirstNonEmpty(sets) = sets[c]
      BY <2>1, <3>3 DEF FirstNonEmpty
    <3> QED BY <1>1, <1>2, <3>3, <3>4
  <2>2. CASE ~ \E i \in DOMAIN sets : sets[i] # {}
    BY <2>2 DEF FirstNonEmpty
  <2> QED BY <2>1, <2>2
<1>4. findFunction(p, q) = Prefer(Prefer(FirstNonEmpty(sets), Own[p]), Funcs \ Synthetic)
  BY DEF findFunction, sets
<1> QED BY <1>3, <1>4

LEMMA ResolveKeeps ==
    ASSUME CallsInv, NEW q, NEW loads, Resolve(q, loads)
    PROVE  CallsInv' /\ pc' \in {"resolve", "failed"} /\ pc = "resolve"
<1> DEFINE hits == findFunctionWithFallback(prog, q, loads)
           P == {"narrow", "broad"}
<1>1. \A h \in hits : h.prog \in P /\ h.fn \in Known(h.prog)
  <2>1. \A p \in P : \A h \in {[prog |-> p, fn |-> f] : f \in findFunction(p, q)} :
            h.prog \in P /\ h.fn \in Known(h.prog)
    BY FoundIsKnown
  <2>2. prog \in P
    BY DEF CallsInv
  <2>3. \/ hits = {[prog |-> prog, fn |-> f] : f \in findFunction(prog, q)}
        \/ hits = {[prog |-> "broad", fn |-> f] : f \in findFunction("broad", q)}
    BY DEF findFunctionWithFallback
  <2> HIDE DEF hits
  <2>4. CASE hits = {[prog |-> prog, fn |-> f] : f \in findFunction(prog, q)}
    BY <2>1, <2>2, <2>4
  <2>5. CASE hits = {[prog |-> "broad", fn |-> f] : f \in findFunction("broad", q)}
    BY <2>1, <2>5
  <2> QED BY <2>3, <2>4, <2>5
<1>2. \A h \in hits : h = [prog |-> h.prog, fn |-> h.fn]
  BY DEF findFunctionWithFallback
<1>3. pc = "resolve" /\ UNCHANGED <<request, calls>>
  BY DEF Resolve
<1>4. CASE Cardinality(hits) # 1
  <2>1. pc' = "failed" /\ UNCHANGED <<resolved, prog>>
    BY <1>4 DEF Resolve
  <2> QED BY <1>3, <2>1 DEF CallsInv, Known
<1>5. CASE Cardinality(hits) = 1
  <2>1. PICK h : /\ h = (CHOOSE x \in hits : TRUE)
                 /\ resolved' = Append(resolved, h) /\ prog' = h.prog /\ pc' = pc
    BY <1>5 DEF Resolve
  <2>2. hits # {}
    <3>1. Cardinality({}) = 0
      BY FS_EmptySet
    <3> QED BY <1>5, <3>1
  <2> HIDE DEF hits
  <2>3. h \in hits
    BY <2>1, <2>2
  <2>4. /\ h.prog \in P /\ h.fn \in Known(h.prog) /\ h.fn \in Funcs
        /\ h = [prog |-> h.prog, fn |-> h.fn]
    BY <1>1, <1>2, <2>3, KnownFunctions
  <2>5. PICK T : T = [prog : P, fn : Funcs]
    OBVIOUS
  <2>6. h \in T
    <3>1. PICK a : a = h.prog
      OBVIOUS
    <3>2. PICK b : b = h.fn
      OBVIOUS
    <3> QED BY <2>4, <2>5, <3>1, <3>2
  <2>7. resolved \in Seq(T)
    BY <2>5 DEF CallsInv
  <2>8. PICK t : t = Append(resolved, h)
    OBVIOUS
  <2>9. /\ t \in Seq(T) /\ t # <<>> /\ Len(resolved) \in Nat /\ Len(t) = Len(resolved) + 1
        /\ DOMAIN resolved = 1..Len(resolved) /\ DOMAIN t = 1..(Len(resolved) + 1)
        /\ \A i \in 1..Len(resolved) : t[i] = resolved[i]
        /\ t[Len(resolved) + 1] = h
    BY <2>6, <2>7, <2>8, Appended
  <2>10. \A i \in DOMAIN t : i \in DOMAIN resolved \/ i = Len(resolved) + 1
    BY <2>9
  <2>11. \A i \in DOMAIN t : t[i].fn \in Known(t[i].prog)
    BY <2>4, <2>9, <2>10 DEF CallsInv
  <2>12. Last(t) = h
    BY <2>9 DEF Last
  <2>13. /\ t \in Seq([prog : P, fn : Funcs]) /\ resolved' = t /\ prog' = h.prog
    BY <2>1, <2>5, <2>8, <2>9
  <2> QED BY <1>3, <2>1, <2>4, <2>11, <2>12, <2>13 DEF CallsInv, Known
<1> QED BY <1>4, <1>5

(* What a tool does not use is as it was before the first request.         *)
Untouched ==
    /\ ~Walks \/ pc \in {"resolve", "failed"} =>
           seenNodes = <<>> /\ seenEdges = <<>> /\ walks = <<>>
    /\ request.tool # "paths" \/ pc \in {"resolve", "failed"} =>
           queue = <<>> /\ paths = <<>> /\ reason = ""
    /\ request.tool # "dead" \/ pc \in {"resolve", "failed"} =>
           reachable = {} /\ todo = {}

LEMMA InitCallsInv == InitCalls => CallsInv /\ Untouched
<1> SUFFICES ASSUME InitCalls PROVE CallsInv /\ Untouched
  OBVIOUS
<1>1. /\ request \in Requests /\ calls \in CallGraphs /\ pc = "resolve" /\ prog = "narrow"
      /\ resolved = <<>> /\ seenNodes = <<>> /\ seenEdges = <<>> /\ walks = <<>>
      /\ queue = <<>> /\ paths = <<>> /\ reason = "" /\ reachable = {} /\ todo = {}
  BY DEF InitCalls, Blank
<1>2. resolved \in Seq([prog : {"narrow", "broad"}, fn : Funcs]) /\ DOMAIN resolved = {}
  <2>1. PICK T : T = [prog : {"narrow", "broad"}, fn : Funcs]
    OBVIOUS
  <2>2. \A s : s = <<>> => s \in Seq(T) /\ DOMAIN s = {}
    OBVIOUS
  <2> QED BY <1>1, <2>1, <2>2
<1>3. CallsInv
  BY <1>1, <1>2 DEF CallsInv
<1> QED BY <1>1, <1>3 DEF Untouched

LEMMA NextCallsInv ==
    CallsInv /\ Untouched /\ [NextCalls]_cgvars => CallsInv' /\ Untouched'
<1> SUFFICES ASSUME CallsInv, Untouched, [NextCalls]_cgvars
             PROVE  CallsInv' /\ Untouched'
  OBVIOUS
<1>1. CASE \E q \in Queries, loads \in BOOLEAN : Resolve(q, loads)
  <2>1. PICK q \in Queries, loads \in BOOLEAN : Resolve(q, loads)
    BY <1>1
  <2>2. CallsInv' /\ pc' \in {"resolve", "failed"} /\ pc = "resolve"
    BY <2>1, ResolveKeeps
  <2>3. UNCHANGED <<request, walkVars, pathVars, deadVars>>
    BY <2>1 DEF Resolve
  <2> QED BY <2>2, <2>3 DEF Untouched, Walks, walkVars, pathVars, deadVars
<1>2. CASE StartWalk \/ WalkEdge \/ WalkReturns
  <2>1. /\ UNCHANGED <<request, calls, prog, resolved, pathVars, deadVars>>
        /\ Walks /\ pc' \in {"run", "done"} /\ pc \in {"run", "resolve"}
    BY <1>2 DEF StartWalk, WalkEdge, WalkReturns
  <2>2. CallsInv'
    BY <2>1 DEF CallsInv, Known
  <2> QED BY <2>1, <2>2 DEF Untouched, Walks, pathVars, deadVars
<1>3. CASE StartPaths \/ DequeuePath \/ FinishPaths
  <2>1. /\ UNCHANGED <<request, calls, prog, resolved, walkVars, deadVars>>
        /\ request.tool = "paths" /\ pc' \in {"run", "done"}
    BY <1>3 DEF StartPaths, DequeuePath, FinishPaths
  <2>2. CallsInv'
    BY <2>1 DEF CallsInv, Known
  <2> QED BY <2>1, <2>2 DEF Untouched, Walks, walkVars, deadVars
<1>4. CASE StartDead \/ (\E f \in Funcs : Visit(f)) \/ FinishDead
  <2>1. /\ UNCHANGED <<request, calls, prog, resolved, walkVars, pathVars>>
        /\ request.tool = "dead" /\ pc' \in {"run", "done"}
    BY <1>4 DEF StartDead, Visit, FinishDead
  <2>2. CallsInv'
    BY <2>1 DEF CallsInv, Known
  <2> QED BY <2>1, <2>2 DEF Untouched, Walks, walkVars, pathVars
<1>5. CASE UNCHANGED cgvars
  BY <1>5 DEF cgvars, CallsInv, Untouched, Walks, Known
<1> QED BY <1>1, <1>2, <1>3, <1>4, <1>5 DEF NextCalls

-----------------------------------------------------------------------------
(* Dead code.                                                              *)

Callees(edges, S) == {e.callee : e \in {g \in edges : g.caller \in S}}

(* The functions of a set that has the seeds and what its members call.    *)
HasLive(edges, seeds, S) == seeds \subseteq S /\ Callees(edges, S) \subseteq S

LEMMA SeedsAreKnown ==
    ASSUME CallsInv
    PROVE  Seeds \subseteq Known(prog) /\ Seeds \subseteq Funcs
<1>1. prog \in {"narrow", "broad"}
  BY DEF CallsInv
<1> QED BY <1>1, KnownFunctions
        DEF Seeds, collectEntrypointNodes, collectRegisteredCallbackNodes

(* Live, layer by layer, is the least such set.                            *)
LEMMA LiveIsLeast ==
    ASSUME CallsInv
    PROVE  /\ Live \subseteq Funcs /\ HasLive(Edges(prog), Seeds, Live)
           /\ \A S : HasLive(Edges(prog), Seeds, S) => Live \subseteq S
<1> DEFINE Body(L) == [n \in 0..Cardinality(Funcs) |->
                          IF n = 0 THEN Seeds
                          ELSE L[n - 1] \cup {e.callee : e \in {g \in Edges(prog) : g.caller \in L[n - 1]}}]
           Limit == CHOOSE L : L = Body(L)
<1>1. PICK U : U = Funcs
  OBVIOUS
<1>2. PICK N \in Nat : N = Cardinality(U)
  BY <1>1, FuncsAssumption, FS_CardinalityType
<1>3. IsFiniteSet(U)
  BY <1>1, FuncsAssumption
<1>A. PICK A \in SUBSET U : A = Seeds
  BY <1>1, SeedsAreKnown
<1>E. PICK edges : edges = Edges(prog)
  OBVIOUS
<1>C. \A S : Callees(edges, S) \subseteq U
  <2>1. prog \in {"narrow", "broad"}
    BY DEF CallsInv
  <2>2. \A e \in edges : e.callee \in U
    BY <1>1, <1>E, <2>1, KnownFunctions
  <2> QED BY <2>2 DEF Callees
<1>4. PICK F : F = [S \in SUBSET U |-> S \cup Callees(edges, S)]
  OBVIOUS
<1>5. \A S \in SUBSET U : F[S] = S \cup Callees(edges, S)
  BY <1>4
<1>6. Extensive(F, U)
  BY <1>4, <1>5, <1>C DEF Extensive
<1>7. \A L : Body(L) = [n \in 0..N |-> IF n = 0 THEN A ELSE L[n - 1] \cup Callees(edges, L[n - 1])]
  BY <1>1, <1>2, <1>A, <1>E DEF Callees
<1>8. Live = Limit[N]
  BY <1>1, <1>2 DEF Live
<1> HIDE DEF Body
<1>9. PICK M \in [0..N -> SUBSET U] : Layering(M, N, A, F)
  BY <1>3, <1>6, LayersExist DEF Extensive
<1>10. M = Body(M)
  <2>1. \A n \in 0..N : n # 0 => M[n - 1] \in SUBSET U
    BY <1>9
  <2>2. \A n \in 0..N : n # 0 => F[M[n - 1]] = M[n - 1] \cup Callees(edges, M[n - 1])
    BY <1>5, <2>1
  <2> QED BY <1>7, <1>9, <2>2 DEF Layering
<1>11. PICK L : L = Limit
  OBVIOUS
<1>12. L = Body(L)
  BY <1>10, <1>11
<1>13. L = [n \in 0..N |-> IF n = 0 THEN A ELSE L[n - 1] \cup Callees(edges, L[n - 1])]
  BY <1>7, <1>12
<1> HIDE DEF Limit
<1>14. Layers(L, N, U, A, F)
  <2>1. L[0] = A /\ \A n \in 0..N : n # 0 => L[n] = L[n - 1] \cup Callees(edges, L[n - 1])
    <3>1. 0 \in 0..N
      OBVIOUS
    <3> QED BY <1>13, <3>1
  <2>2. \A n \in 0..N : L[n] \in SUBSET U
    <3> DEFINE G == {n \in Nat : n <= N => L[n] \in SUBSET U}
    <3>1. 0 \in G
      BY <2>1
    <3>2. ASSUME NEW n \in Nat, n \in G PROVE n + 1 \in G
      <4>1. SUFFICES ASSUME n + 1 <= N PROVE L[n + 1] \in SUBSET U
        OBVIOUS
      <4>2. n + 1 \in 0..N /\ n + 1 # 0 /\ n + 1 - 1 = n /\ L[n] \in SUBSET U
        BY <3>2, <4>1
      <4>3. L[n + 1] = L[n] \cup Callees(edges, L[n])
        BY <2>1, <4>2
      <4> QED BY <1>C, <4>2, <4>3
    <3>3. Nat \subseteq G
      <4> HIDE DEF G
      <4> QED BY <3>1, <3>2, Induction
    <3> QED BY <3>3
  <2>3. \A n \in 0..N : n # 0 => L[n - 1] \in SUBSET U
    BY <2>2
  <2>4. \A n \in 0..N : n # 0 => F[L[n - 1]] = L[n - 1] \cup Callees(edges, L[n - 1])
    BY <1>5, <2>3
  <2>5. L = [n \in 0..N |-> IF n = 0 THEN A ELSE F[L[n - 1]]]
    BY <1>13, <2>4
  <2>6. L = [n \in 0..N |-> L[n]]
    BY <1>13
  <2> QED BY <2>2, <2>5, <2>6 DEF Layering, Layers
<1>15. LeastClosed(L[N], U, A, F)
  BY <1>2, <1>3, <1>6, <1>14, LastLayer
<1>16. HasLive(edges, A, L[N])
  BY <1>5, <1>15 DEF LeastClosed, HasLive
<1>17. ASSUME NEW S, HasLive(edges, A, S) PROVE L[N] \subseteq S
  <2>1. StepsWithin(F, U, S)
    BY <1>5, <1>17 DEF StepsWithin, HasLive, Callees
  <2> QED BY <1>15, <1>17, <2>1 DEF LeastClosed, HasLive
<1>18. L[N] \subseteq U
  BY <1>15 DEF LeastClosed
<1> QED BY <1>1, <1>8, <1>11, <1>16, <1>17, <1>18, <1>A, <1>E

(* What was visited and what is still to visit has the seeds and every     *)
(* call of what was visited, and nothing that is not live.                 *)
Visiting(edges, seeds, seen, open) ==
    /\ seeds \subseteq seen \cup open
    /\ Callees(edges, seen) \subseteq seen \cup open
    /\ \A S : HasLive(edges, seeds, S) => seen \cup open \subseteq S

Unreferenced == {f \in Judged : In(prog, f) = {}}
Unreached == {f \in Judged \ Unreferenced : f \notin reachable}

(* The report is read off from what was visited.                           *)
DeadInv ==
    request.tool = "dead" /\ pc \in {"run", "done"} =>
        /\ Visiting(Edges(prog), Seeds, reachable, todo)
        /\ pc = "done" =>
               /\ todo = {}
               /\ dead.unreferenced = Unreferenced
               /\ dead.unreachable = (IF request.mode = "audit" THEN Unreached ELSE {})
               /\ dead.filtered = (IF request.mode = "audit" THEN 0 ELSE Cardinality(Unreached))

LEMMA VisitStep ==
    ASSUME NEW edges, NEW seeds, NEW seen, NEW open, NEW f \in open,
           Visiting(edges, seeds, seen, open),
           NEW seen2, seen2 = seen \cup {f},
           NEW open2, open2 = (open \cup {e.callee : e \in {g \in edges : g.caller = f}}) \ seen2
    PROVE  Visiting(edges, seeds, seen2, open2)
<1>1. PICK new : new = {e.callee : e \in {g \in edges : g.caller = f}}
  OBVIOUS
<1>2. seen2 \cup open2 = seen \cup open \cup new
  BY <1>1
<1>3. Callees(edges, seen2) = Callees(edges, seen) \cup new
  BY <1>1 DEF Callees
<1>4. ASSUME NEW S, HasLive(edges, seeds, S) PROVE new \subseteq S
  <2>1. f \in S
    BY <1>4 DEF Visiting
  <2> QED BY <1>1, <1>4, <2>1 DEF HasLive, Callees
<1> QED BY <1>2, <1>3, <1>4 DEF Visiting

LEMMA NextDead ==
    ASSUME CallsInv, Untouched, DeadInv, [NextCalls]_cgvars
    PROVE  DeadInv'
<1> SUFFICES ASSUME request'.tool = "dead", pc' \in {"run", "done"}
             PROVE  /\ Visiting(Edges(prog), Seeds, reachable, todo)'
                    /\ (pc = "done" =>
                          /\ todo = {}
                          /\ dead.unreferenced = Unreferenced
                          /\ dead.unreachable = (IF request.mode = "audit" THEN Unreached ELSE {})
                          /\ dead.filtered = (IF request.mode = "audit" THEN 0 ELSE Cardinality(Unreached)))'
  BY DEF DeadInv
<1>1. CASE \E q \in Queries, loads \in BOOLEAN : Resolve(q, loads)
  <2>1. pc' \in {"resolve", "failed"}
    BY <1>1, ResolveKeeps
  <2> QED BY <2>1
<1>2. CASE StartWalk \/ WalkEdge \/ WalkReturns \/ StartPaths \/ DequeuePath \/ FinishPaths
  <2>1. request' = request /\ request.tool # "dead"
    BY <1>2 DEF StartWalk, WalkEdge, WalkReturns, StartPaths, DequeuePath, FinishPaths, Walks
  <2> QED BY <2>1
<1>3. CASE StartDead
  <2>1. /\ UNCHANGED <<request, calls, prog, reachable>> /\ pc' = "run" /\ pc = "resolve"
        /\ todo' = Seeds
    BY <1>3 DEF StartDead
  <2>2. Edges(prog)' = Edges(prog) /\ Seeds' = Seeds
    BY <2>1 DEF Edges, Known, Seeds, collectEntrypointNodes, collectRegisteredCallbackNodes, roles
  <2>3. reachable = {}
    BY <2>1 DEF Untouched
  <2>4. PICK edges : edges = Edges(prog)
    OBVIOUS
  <2>5. PICK seeds : seeds = Seeds
    OBVIOUS
  <2>6. Visiting(edges, seeds, {}, seeds)
    BY DEF Visiting, HasLive, Callees
  <2> QED BY <2>1, <2>2, <2>3, <2>4, <2>5, <2>6
<1>4. CASE \E f \in Funcs : Visit(f)
  <2>1. PICK f \in Funcs : Visit(f)
    BY <1>4
  <2>2. /\ UNCHANGED <<request, calls, prog>> /\ pc' = "run" /\ pc = "run" /\ f \in todo
        /\ reachable' = reachable \cup {f}
        /\ todo' = (todo \cup {e.callee : e \in {g \in Edges(prog) : g.caller = f}}) \ reachable'
    BY <2>1 DEF Visit, Out
  <2>3. Edges(prog)' = Edges(prog) /\ Seeds' = Seeds
    BY <2>2 DEF Edges, Known, Seeds, collectEntrypointNodes, collectRegisteredCallbackNodes, roles
  <2>4. Visiting(Edges(prog), Seeds, reachable, todo)
    BY <2>2 DEF DeadInv
  <2>5. Visiting(Edges(prog), Seeds, reachable', todo')
    BY <2>2, <2>4, VisitStep
  <2> QED BY <2>2, <2>3, <2>5
<1>5. CASE FinishDead
  <2>1. /\ UNCHANGED <<request, calls, prog, reachable, todo>> /\ pc' = "done" /\ pc = "run"
        /\ todo = {}
        /\ dead'.unreferenced = Unreferenced
        /\ dead'.unreachable = (IF request.mode = "audit" THEN Unreached ELSE {})
        /\ dead'.filtered = (IF request.mode = "audit" THEN 0 ELSE Cardinality(Unreached))
    BY <1>5 DEF FinishDead, Unreferenced, Unreached
  <2>2. /\ Edges(prog)' = Edges(prog) /\ Seeds' = Seeds
        /\ Unreferenced' = Unreferenced /\ Unreached' = Unreached
    BY <2>1 DEF Edges, Known, Seeds, collectEntrypointNodes, collectRegisteredCallbackNodes, roles,
                Unreferenced, Unreached, Judged, In
  <2>4. Visiting(Edges(prog), Seeds, reachable, todo)
    BY <2>1 DEF DeadInv
  <2> QED BY <2>1, <2>2, <2>4
<1>6. CASE UNCHANGED cgvars
  <2>1. UNCHANGED <<request, calls, prog, pc, reachable, todo, dead>>
    BY <1>6 DEF cgvars
  <2>2. /\ Edges(prog)' = Edges(prog) /\ Seeds' = Seeds
        /\ Unreferenced' = Unreferenced /\ Unreached' = Unreached
    BY <2>1 DEF Edges, Known, Seeds, collectEntrypointNodes, collectRegisteredCallbackNodes, roles,
                Unreferenced, Unreached, Judged, In
  <2> QED BY <2>1, <2>2 DEF DeadInv
<1> QED BY <1>1, <1>2, <1>3, <1>4, <1>5, <1>6 DEF NextCalls

(* What is live is not judged unreferenced: a function that neither is a   *)
(* seed nor is called can be left out of every set that has the live ones. *)
LEMMA LiveIsReferenced ==
    ASSUME CallsInv, request.tool = "dead", NEW f \in Live
    PROVE  f \notin Unreferenced
<1>1. /\ HasLive(Edges(prog), Seeds, Live)
      /\ \A S : HasLive(Edges(prog), Seeds, S) => Live \subseteq S
  BY LiveIsLeast
<1>2. f \in Seeds \/ In(prog, f) # {}
  <2>1. SUFFICES ASSUME f \notin Seeds, In(prog, f) = {} PROVE FALSE
    OBVIOUS
  <2>2. \A e \in Edges(prog) : e.callee # f
    BY <2>1 DEF In
  <2>3. PICK edges : edges = Edges(prog)
    OBVIOUS
  <2>4. Callees(edges, Live \ {f}) \subseteq Callees(edges, Live) /\ f \notin Callees(edges, Live)
    BY <2>2, <2>3 DEF Callees
  <2>5. HasLive(Edges(prog), Seeds, Live \ {f})
    BY <1>1, <2>1, <2>3, <2>4 DEF HasLive
  <2> QED BY <1>1, <2>5
<1>3. SUFFICES ASSUME f \in Seeds, f \in Judged, In(prog, f) = {} PROVE FALSE
  BY <1>2 DEF Unreferenced
<1>4. roles \in Roles
  BY DEF CallsInv, Requests, roles
<1>5. f \in roles.candidates /\ f \notin roles.entry /\ f \notin collectRegisteredCallbackNodes
  BY <1>3, <1>4, RolesAssumption DEF Judged
<1>6. f \in {e.callee : e \in Edges(prog)}
  BY <1>3, <1>5 DEF Seeds, collectEntrypointNodes
<1> QED BY <1>3, <1>6 DEF In

LEMMA DeadIsRight ==
    ASSUME CallsInv, DeadInv
    PROVE  DeadExact
<1> SUFFICES ASSUME request.tool = "dead", pc = "done"
             PROVE  /\ (dead.unreferenced \cup dead.unreachable) \cap Live = {}
                    /\ Cardinality(dead.unreferenced \cup dead.unreachable) + dead.filtered
                           = Cardinality(Judged \ Live)
                    /\ request.mode = "audit" => dead.filtered = 0
  BY DEF DeadExact
<1>1. /\ Visiting(Edges(prog), Seeds, reachable, {})
      /\ dead.unreferenced = Unreferenced
      /\ dead.unreachable = (IF request.mode = "audit" THEN Unreached ELSE {})
      /\ dead.filtered = (IF request.mode = "audit" THEN 0 ELSE Cardinality(Unreached))
  BY DEF DeadInv
<1>2. reachable = Live
  <2>1. HasLive(Edges(prog), Seeds, reachable)
    BY <1>1 DEF Visiting, HasLive
  <2>2. reachable \subseteq Live
    BY <1>1, LiveIsLeast DEF Visiting
  <2> QED BY <2>1, <2>2, LiveIsLeast
<1>3. Unreferenced \cap Live = {} /\ Unreached \cap Live = {}
  BY <1>2, LiveIsReferenced DEF Unreached
<1>4. Unreferenced \cup Unreached = Judged \ Live /\ Unreferenced \cap Unreached = {}
  BY <1>2, <1>3 DEF Unreached, Unreferenced
<1>5. IsFiniteSet(Judged)
  <2>1. Judged \subseteq Known(prog) /\ IsFiniteSet(Known(prog))
    BY KnownFunctions DEF CallsInv, Judged
  <2> QED BY <2>1, FS_Subset
<1>6. PICK A : A = Unreferenced
  OBVIOUS
<1>7. PICK B : B = Unreached
  OBVIOUS
<1>8. IsFiniteSet(A) /\ IsFiniteSet(B)
  BY <1>5, <1>6, <1>7, FS_Subset DEF Unreached, Unreferenced
<1>9. Cardinality(A \cup B) = Cardinality(A) + Cardinality(B)
  <2>1. Cardinality(A \cap B) = 0
    BY <1>4, <1>6, <1>7, FS_EmptySet
  <2>2. Cardinality(A) \in Nat /\ Cardinality(B) \in Nat
    BY <1>8, FS_CardinalityType
  <2>3. Cardinality(A \cup B) = Cardinality(A) + Cardinality(B) - Cardinality(A \cap B)
    BY <1>8, FS_Union
  <2> QED BY <2>1, <2>2, <2>3
<1>10. Cardinality(A) \in Nat /\ Cardinality(B) \in Nat
  BY <1>8, FS_CardinalityType
<1>11. CASE request.mode = "audit"
  <2>1. dead.unreferenced = A /\ dead.unreachable = B /\ dead.filtered = 0
    BY <1>1, <1>6, <1>7, <1>11
  <2>2. Cardinality(A \cup B) + 0 = Cardinality(Judged \ Live)
    BY <1>4, <1>6, <1>7, <1>9, <1>10
  <2> QED BY <1>3, <1>6, <1>7, <2>1, <2>2
<1>12. CASE request.mode # "audit"
  <2>1. dead.unreferenced = A /\ dead.unreachable = {} /\ dead.filtered = Cardinality(B)
    BY <1>1, <1>6, <1>7, <1>12
  <2>2. A \cup {} = A /\ Cardinality(A) + Cardinality(B) = Cardinality(Judged \ Live)
    BY <1>4, <1>6, <1>7, <1>9
  <2> QED BY <1>3, <1>6, <1>12, <2>1, <2>2
<1> QED BY <1>11, <1>12

LEMMA InitDead == InitCalls => DeadInv
BY DEF InitCalls, DeadInv

(* find_dead_code: whatever the call graph, no live function is reported   *)
(* and every other judged one is reported or counted.                      *)
THEOREM DeadIsExact == SpecCalls => []DeadExact
BY InitCallsInv, NextCallsInv, InitDead, NextDead, DeadIsRight, PTL DEF SpecCalls

-----------------------------------------------------------------------------
(* Distances in a call graph.                                              *)

LEMMA LayersAgree ==
    ASSUME NEW A, NEW F, NEW n \in Nat, NEW L, Layering(L, n, A, F),
           NEW m \in Nat, NEW M, Layering(M, m, A, F)
    PROVE  \A k \in Nat : k <= n /\ k <= m => L[k] = M[k]
<1> DEFINE G == {k \in Nat : k <= n /\ k <= m => L[k] = M[k]}
<1>1. /\ \A k \in 0..n : L[k] = IF k = 0 THEN A ELSE F[L[k - 1]]
      /\ \A k \in 0..m : M[k] = IF k = 0 THEN A ELSE F[M[k - 1]]
  BY DEF Layering
<1>2. 0 \in G
  BY <1>1
<1>3. ASSUME NEW k \in Nat, k \in G PROVE k + 1 \in G
  <2>1. SUFFICES ASSUME k + 1 <= n, k + 1 <= m PROVE L[k + 1] = M[k + 1]
    OBVIOUS
  <2>2. L[k] = M[k] /\ k + 1 \in 0..n /\ k + 1 \in 0..m /\ k + 1 # 0 /\ k + 1 - 1 = k
    BY <1>3, <2>1
  <2> QED BY <1>1, <2>2
<1>4. Nat \subseteq G
  <2> HIDE DEF G
  <2> QED BY <1>2, <1>3, Induction
<1> QED BY <1>4

Endless(B, U, A, F) ==
    /\ B \in [Nat -> SUBSET U] /\ B[0] = A
    /\ \A n \in Nat : B[n + 1] = F[B[n]]

LEMMA LayersForever ==
    ASSUME NEW U, NEW A \in SUBSET U, NEW F \in [SUBSET U -> SUBSET U]
    PROVE  \E B : Endless(B, U, A, F)
<1> DEFINE P(n, L) == L \in [0..n -> SUBSET U] /\ Layering(L, n, A, F)
           Choice(n) == CHOOSE L : P(n, L)
           B == [n \in Nat |-> Choice(n)[n]]
<1>1. \A n \in Nat : P(n, Choice(n))
  <2>1. \A n \in Nat : \E L : P(n, L)
    BY LayersExist
  <2> QED BY <2>1
<1> HIDE DEF Choice
<1>2. B \in [Nat -> SUBSET U]
  <2>1. ASSUME NEW n \in Nat PROVE Choice(n)[n] \in SUBSET U
    <3>1. Choice(n) \in [0..n -> SUBSET U] /\ n \in 0..n
      BY <1>1
    <3> QED BY <3>1
  <2> QED BY <2>1
<1>3. B[0] = A
  <2>1. Layering(Choice(0), 0, A, F) /\ 0 \in 0..0
    BY <1>1
  <2> QED BY <2>1 DEF Layering
<1>4. ASSUME NEW n \in Nat PROVE B[n + 1] = F[B[n]]
  <2>1. PICK L : L = Choice(n + 1)
    OBVIOUS
  <2>2. PICK M : M = Choice(n)
    OBVIOUS
  <2>3. Layering(L, n + 1, A, F) /\ Layering(M, n, A, F) /\ n + 1 \in Nat
    BY <1>1, <2>1, <2>2
  <2>4. L[n] = M[n]
    BY <2>3, LayersAgree
  <2>5. n + 1 \in 0..(n + 1) /\ n + 1 # 0 /\ n + 1 - 1 = n
    OBVIOUS
  <2>6. L[n + 1] = F[L[n]]
    BY <2>3, <2>5 DEF Layering
  <2> QED BY <2>1, <2>2, <2>3, <2>4, <2>6
<1>5. Endless(B, U, A, F)
  <2> HIDE DEF B
  <2> QED BY <1>2, <1>3, <1>4 DEF Endless
<1> QED BY <1>5

(* The edges a walk takes from a function, and where an edge takes it.     *)
Nexts == [f \in Known(prog) |-> NextEdges(f)]
Ends == [e \in Edges(prog) |-> Across(e)]

Gain(nexts, ends, S) == {ends[e] : e \in UNION {nexts[f] : f \in S}}

(* B[n]: the functions at most n calls away from r.                        *)
Distances(B, nodes, nexts, ends, r) ==
    /\ B \in [Nat -> SUBSET nodes] /\ B[0] = {r}
    /\ \A n \in Nat : B[n + 1] = B[n] \cup Gain(nexts, ends, B[n])

Around(nodes, nexts, ends, r) == CHOOSE B : Distances(B, nodes, nexts, ends, r)

IsGraph(nodes, edges, nexts, ends) ==
    nexts \in [nodes -> SUBSET edges] /\ ends \in [edges -> nodes]

LEMMA DistancesExist ==
    ASSUME NEW nodes, NEW edges, NEW nexts, NEW ends, NEW r \in nodes,
           IsGraph(nodes, edges, nexts, ends)
    PROVE  Distances(Around(nodes, nexts, ends, r), nodes, nexts, ends, r)
<1>1. \A S \in SUBSET nodes : Gain(nexts, ends, S) \subseteq nodes
  BY DEF Gain, IsGraph
<1>2. PICK F \in [SUBSET nodes -> SUBSET nodes] :
          \A S \in SUBSET nodes : F[S] = S \cup Gain(nexts, ends, S)
  <2> DEFINE H == [S \in SUBSET nodes |-> S \cup Gain(nexts, ends, S)]
  <2>1. H \in [SUBSET nodes -> SUBSET nodes]
    BY <1>1
  <2>2. \A S \in SUBSET nodes : H[S] = S \cup Gain(nexts, ends, S)
    OBVIOUS
  <2> HIDE DEF H
  <2> QED BY <2>1, <2>2
<1>4. PICK A \in SUBSET nodes : A = {r}
  OBVIOUS
<1>5. PICK B : Endless(B, nodes, A, F)
  BY LayersForever
<1>6. \A n \in Nat : B[n] \in SUBSET nodes
  BY <1>5 DEF Endless
<1>7. \A n \in Nat : F[B[n]] = B[n] \cup Gain(nexts, ends, B[n])
  BY <1>2, <1>6
<1>8. Distances(B, nodes, nexts, ends, r)
  BY <1>4, <1>5, <1>7 DEF Distances, Endless
<1> QED BY <1>8 DEF Around

LEMMA DistancesGrow ==
    ASSUME NEW B, NEW nodes, NEW nexts, NEW ends, NEW r,
           Distances(B, nodes, nexts, ends, r)
    PROVE  \A m \in Nat : \A d \in Nat : B[m] \subseteq B[m + d]
<1> SUFFICES ASSUME NEW m \in Nat PROVE \A d \in Nat : B[m] \subseteq B[m + d]
  OBVIOUS
<1> DEFINE G == {d \in Nat : B[m] \subseteq B[m + d]}
<1>1. 0 \in G
  OBVIOUS
<1>2. ASSUME NEW d \in Nat, d \in G PROVE d + 1 \in G
  <2>1. B[m] \subseteq B[m + d] /\ m + d \in Nat /\ m + d + 1 = m + (d + 1)
    BY <1>2
  <2>2. B[m + d + 1] = B[m + d] \cup Gain(nexts, ends, B[m + d])
    BY <2>1 DEF Distances
  <2> QED BY <2>1, <2>2
<1>3. Nat \subseteq G
  <2> HIDE DEF G
  <2> QED BY <1>1, <1>2, Induction
<1> QED BY <1>3

LEMMA NextsAreGraph ==
    ASSUME CallsInv
    PROVE  IsGraph(Known(prog), Edges(prog), Nexts, Ends)
<1>1. prog \in {"narrow", "broad"}
  BY DEF CallsInv
<1>2. \A e \in Edges(prog) : e.caller \in Known(prog) /\ e.callee \in Known(prog)
  BY <1>1, KnownFunctions
<1>3. \A e \in Edges(prog) : Across(e) \in Known(prog)
  BY <1>2 DEF Across
<1>4. \A f : NextEdges(f) \subseteq Edges(prog)
  BY DEF NextEdges, In, Out
<1> QED BY <1>3, <1>4 DEF IsGraph, Nexts, Ends

(* Near(n), layer by layer, is what is at most n calls away.               *)
LEMMA NearIsAround ==
    ASSUME CallsInv, from \in Known(prog), NEW B,
           B = Around(Known(prog), Nexts, Ends, from)
    PROVE  /\ Distances(B, Known(prog), Nexts, Ends, from)
           /\ \A n \in Nat : Near(n) = B[n]
<1>1. Distances(B, Known(prog), Nexts, Ends, from)
  BY NextsAreGraph, DistancesExist
<1>2. ASSUME NEW S \in SUBSET Known(prog)
      PROVE  {Across(e) : e \in UNION {NextEdges(f) : f \in S}} = Gain(Nexts, Ends, S)
  <2>1. \A f \in S : Nexts[f] = NextEdges(f)
    BY DEF Nexts
  <2>2. PICK T : T = UNION {NextEdges(f) : f \in S}
    OBVIOUS
  <2>3. T = UNION {Nexts[f] : f \in S}
    BY <2>1, <2>2
  <2>4. \A e \in T : e \in Edges(prog)
    BY <2>2 DEF NextEdges, In, Out
  <2>5. \A e \in T : Ends[e] = Across(e)
    BY <2>4 DEF Ends
  <2>6. {Across(e) : e \in T} = {Ends[e] : e \in T}
    BY <2>5
  <2> QED BY <2>2, <2>3, <2>6 DEF Gain
<1>3. ASSUME NEW n \in Nat PROVE Near(n) = B[n]
  <2> DEFINE Body(L) == [k \in 0..n |->
                            IF k = 0 THEN {resolved[1].fn}
                            ELSE L[k - 1] \cup {Across(e) : e \in UNION {NextEdges(f) : f \in L[k - 1]}}]
             Limit == CHOOSE L : L = Body(L)
             M == [k \in 0..n |-> B[k]]
  <2>1. Near(n) = Limit[n]
    BY DEF Near
  <2>2. \A k \in 0..n : k # 0 =>
            /\ k - 1 \in Nat /\ k - 1 \in 0..n
            /\ B[k - 1 + 1] = B[k - 1] \cup Gain(Nexts, Ends, B[k - 1])
            /\ B[k - 1] \in SUBSET Known(prog) /\ k - 1 + 1 = k
    BY <1>1 DEF Distances
  <2>3. \A k \in 0..n : k # 0 =>
            B[k] = M[k - 1] \cup {Across(e) : e \in UNION {NextEdges(f) : f \in M[k - 1]}}
    <3>1. SUFFICES ASSUME NEW k \in 0..n, k # 0
                   PROVE  B[k] = M[k - 1] \cup {Across(e) : e \in UNION {NextEdges(f) : f \in M[k - 1]}}
      OBVIOUS
    <3>2. PICK S \in SUBSET Known(prog) : S = B[k - 1]
      BY <2>2, <3>1
    <3>3. M[k - 1] = S
      BY <2>2, <3>1, <3>2
    <3>4. B[k] = S \cup Gain(Nexts, Ends, S)
      BY <2>2, <3>1, <3>2
    <3> HIDE DEF M
    <3> QED BY <1>2, <3>3, <3>4
  <2>4. B[0] = {resolved[1].fn}
    BY <1>1 DEF Distances, from
  <2>5. M = Body(M)
    BY <2>3, <2>4
  <2> HIDE DEF Body, M
  <2>6. PICK L : L = Limit
    OBVIOUS
  <2>7. L = Body(L)
    BY <2>5, <2>6
  <2>8. /\ L[0] = {resolved[1].fn}
        /\ \A k \in 0..n : k # 0 =>
              L[k] = L[k - 1] \cup {Across(e) : e \in UNION {NextEdges(f) : f \in L[k - 1]}}
    <3>1. 0 \in 0..n
      OBVIOUS
    <3> QED BY <2>7, <3>1 DEF Body
  <2> HIDE DEF Limit
  <2> DEFINE G == {k \in Nat : k <= n => L[k] = B[k]}
  <2>9. 0 \in G
    BY <2>4, <2>8
  <2>10. ASSUME NEW k \in Nat, k \in G PROVE k + 1 \in G
    <3>1. SUFFICES ASSUME k + 1 <= n PROVE L[k + 1] = B[k + 1]
      OBVIOUS
    <3>2. k + 1 \in 0..n /\ k + 1 # 0 /\ k + 1 - 1 = k /\ L[k] = B[k]
      BY <2>10, <3>1
    <3>3. PICK S \in SUBSET Known(prog) : S = B[k]
      BY <1>1 DEF Distances
    <3>4. B[k + 1] = S \cup Gain(Nexts, Ends, S)
      BY <1>1, <3>3 DEF Distances
    <3>5. L[k + 1] = S \cup {Across(e) : e \in UNION {NextEdges(f) : f \in S}}
      BY <2>8, <3>2, <3>3
    <3> QED BY <1>2, <3>4, <3>5
  <2>11. Nat \subseteq G
    <3> HIDE DEF G
    <3> QED BY <2>9, <2>10, Induction
  <2> QED BY <2>1, <2>6, <2>11
<1> QED BY <1>1, <1>3

-----------------------------------------------------------------------------
(* Callers and call hierarchy.                                             *)

(* What a walk goes by: the graph, the distances from its root, its limit. *)
Walk == [nodes |-> Known(prog), edges |-> Edges(prog), nexts |-> Nexts, ends |-> Ends,
         near |-> Around(Known(prog), Nexts, Ends, from), limit |-> maxDepth, root |-> from]

IsWalk(w) ==
    /\ IsGraph(w.nodes, w.edges, w.nexts, w.ends)
    /\ w.limit \in Nat \ {0} /\ w.root \in w.nodes
    /\ Distances(w.near, w.nodes, w.nexts, w.ends, w.root)

(* A function is visited with the length of some way to it.                *)
Visited(w, seen) ==
    /\ \A f \in DOMAIN seen : /\ f \in w.nodes /\ seen[f] \in 1..w.limit
                              /\ f \in w.near[seen[f] - 1]
    /\ w.root \in DOMAIN seen /\ seen[w.root] = 1

(* The calls of walk in progress; a later one may have come a shorter way. *)
InProgress(w, seen, active) ==
    \A t \in active : /\ t.node \in DOMAIN seen /\ t.depth \in 1..w.limit
                      /\ seen[t.node] <= t.depth
                      /\ t.node \in w.near[t.depth - 1]
                      /\ t.todo \subseteq w.nexts[t.node]

WalkRecorded(w, noted) ==
    \A c \in DOMAIN noted : /\ noted[c] \in 1..w.limit
                            /\ \E f \in w.near[w.limit - 1] : \E e \in w.nexts[f] :
                                   c = <<e.caller, e.callee>>

Awaits(active, f, d, e) == \E t \in active : t.node = f /\ t.depth = d /\ e \in t.todo

WalkFollowed(w, seen, noted, e, d) ==
    /\ <<e.caller, e.callee>> \in DOMAIN noted
    /\ d + 1 <= w.limit => w.ends[e] \in DOMAIN seen /\ seen[w.ends[e]] <= d + 1

(* Every edge of a visited function was followed at its smallest depth, or *)
(* a call of walk with that depth still has it to do.                      *)
Walking(w, seen, noted, active) ==
    /\ Visited(w, seen) /\ InProgress(w, seen, active) /\ WalkRecorded(w, noted)
    /\ \A f \in DOMAIN seen : \A e \in w.nexts[f] :
           Awaits(active, f, seen[f], e) \/ WalkFollowed(w, seen, noted, e, seen[f])

(* The frames after one more edge of the top one was taken: the frame that *)
(* the edge starts, when it leads to a function on a shorter way.          *)
Entered(w, seen, seen2, x, d, added) ==
    /\ \A y \in DOMAIN seen : y \in DOMAIN seen2 /\ (y # x => seen2[y] = seen[y])
    /\ DOMAIN seen2 \subseteq DOMAIN seen \cup {x}
    /\ \/ /\ d <= w.limit /\ x \in DOMAIN seen2 /\ seen2[x] = d
          /\ x \in DOMAIN seen => seen[x] > d
          /\ added = {[node |-> x, depth |-> d, todo |-> w.nexts[x]]}
       \/ /\ added = {}
          /\ x \in DOMAIN seen2 => x \in DOMAIN seen
          /\ x \in DOMAIN seen2 => seen2[x] = seen[x]
          /\ d <= w.limit => x \in DOMAIN seen /\ seen[x] <= d

LEMMA NearGoesOn ==
    ASSUME NEW w, IsWalk(w), NEW k \in Nat, NEW f \in w.near[k], NEW e \in w.nexts[f]
    PROVE  w.ends[e] \in w.near[k + 1] /\ w.ends[e] \in w.nodes
<1>1. w.near[k + 1] = w.near[k] \cup Gain(w.nexts, w.ends, w.near[k])
  BY DEF IsWalk, Distances
<1>2. w.near[k + 1] \in SUBSET w.nodes
  BY DEF IsWalk, Distances
<1>3. w.ends[e] \in Gain(w.nexts, w.ends, w.near[k])
  BY DEF Gain
<1> QED BY <1>1, <1>2, <1>3

LEMMA FollowEdge ==
    ASSUME NEW w, IsWalk(w), NEW seen, NEW noted, NEW rest, NEW top,
           Walking(w, seen, noted, rest \cup {top}), NEW e \in top.todo,
           NEW top2, top2.node = top.node, top2.depth = top.depth, top2.todo = top.todo \ {e},
           NEW noted2, DOMAIN noted2 = DOMAIN noted \cup {<<e.caller, e.callee>>},
           \A c \in DOMAIN noted : noted2[c] = noted[c],
           noted2[<<e.caller, e.callee>>] \in 1..w.limit,
           NEW seen2, NEW added, Entered(w, seen, seen2, w.ends[e], top.depth + 1, added)
    PROVE  Walking(w, seen2, noted2, rest \cup {top2} \cup added)
<1>1. /\ top.node \in DOMAIN seen /\ top.depth \in 1..w.limit
      /\ seen[top.node] <= top.depth
      /\ top.node \in w.near[top.depth - 1]
      /\ top.todo \subseteq w.nexts[top.node]
  BY DEF Walking, InProgress
<1>2. PICK x : x = w.ends[e]
  OBVIOUS
<1>3. PICK d : d = top.depth + 1
  OBVIOUS
<1>a. w.limit \in Nat /\ w.limit - 1 \in Nat
  BY DEF IsWalk
<1>4. d \in Nat /\ d >= 2 /\ d - 1 = top.depth /\ top.depth - 1 \in Nat /\ top.depth - 1 + 1 = d - 1
  BY <1>1, <1>3, <1>a
<1>5. x \in w.near[d - 1] /\ x \in w.nodes
  BY <1>1, <1>2, <1>4, NearGoesOn
<1>6. Entered(w, seen, seen2, x, d, added)
  BY <1>2, <1>3
<1>7. \A y \in DOMAIN seen : y \in DOMAIN seen2 /\ seen2[y] <= seen[y] /\ seen[y] \in 1..w.limit
  <2>1. SUFFICES ASSUME NEW y \in DOMAIN seen
                 PROVE  y \in DOMAIN seen2 /\ seen2[y] <= seen[y] /\ seen[y] \in 1..w.limit
    OBVIOUS
  <2>2. seen[y] \in 1..w.limit
    BY DEF Walking, Visited
  <2>3. CASE y # x
    BY <1>6, <2>2, <2>3, <1>a DEF Entered
  <2>4. CASE y = x
    BY <1>6, <2>2, <2>4, <1>a, <1>4 DEF Entered
  <2> QED BY <2>3, <2>4
<1>8. \A y \in DOMAIN seen2 :
          \/ y \in DOMAIN seen /\ seen2[y] = seen[y]
          \/ y = x /\ seen2[y] = d /\ d <= w.limit
             /\ added = {[node |-> x, depth |-> d, todo |-> w.nexts[x]]}
  BY <1>6 DEF Entered
<1>9. Visited(w, seen2)
  <2>1. ASSUME NEW f \in DOMAIN seen2
        PROVE  f \in w.nodes /\ seen2[f] \in 1..w.limit /\ f \in w.near[seen2[f] - 1]
    <3>1. CASE f \in DOMAIN seen /\ seen2[f] = seen[f]
      BY <3>1 DEF Walking, Visited
    <3>2. CASE f = x /\ seen2[f] = d /\ d <= w.limit
      BY <1>4, <1>5, <1>a, <3>2
    <3> QED BY <1>8, <2>1, <3>1, <3>2
  <2>2. w.root \in DOMAIN seen /\ seen[w.root] = 1
    BY DEF Walking, Visited
  <2>3. w.root \in DOMAIN seen2 /\ seen2[w.root] = 1
    <3>1. CASE w.root # x
      BY <1>6, <2>2, <3>1 DEF Entered
    <3>2. CASE w.root = x
      BY <1>4, <1>6, <2>2, <3>2 DEF Entered
    <3> QED BY <3>1, <3>2
  <2> QED BY <2>1, <2>3 DEF Visited
<1>10. InProgress(w, seen2, rest \cup {top2} \cup added)
  <2>1. ASSUME NEW t \in rest \cup {top}
        PROVE  /\ t.node \in DOMAIN seen2 /\ t.depth \in 1..w.limit
               /\ seen2[t.node] <= t.depth
               /\ t.node \in w.near[t.depth - 1]
               /\ t.todo \subseteq w.nexts[t.node]
    <3>1. /\ t.node \in DOMAIN seen /\ t.depth \in 1..w.limit
          /\ seen[t.node] <= t.depth
          /\ t.node \in w.near[t.depth - 1]
          /\ t.todo \subseteq w.nexts[t.node]
      BY <2>1 DEF Walking, InProgress
    <3>2. /\ t.node \in DOMAIN seen2 /\ seen2[t.node] <= seen[t.node]
          /\ seen[t.node] \in 1..w.limit
      BY <1>7, <3>1
    <3>3. seen2[t.node] \in 1..w.limit
      BY <1>9, <3>2 DEF Visited
    <3> QED BY <1>a, <3>1, <3>2, <3>3
  <2>2. ASSUME NEW t \in added
        PROVE  /\ t.node \in DOMAIN seen2 /\ t.depth \in 1..w.limit
               /\ seen2[t.node] <= t.depth
               /\ t.node \in w.near[t.depth - 1]
               /\ t.todo \subseteq w.nexts[t.node]
    <3>1. /\ d <= w.limit /\ x \in DOMAIN seen2 /\ seen2[x] = d
          /\ t = [node |-> x, depth |-> d, todo |-> w.nexts[x]]
      BY <1>6, <2>2 DEF Entered
    <3> QED BY <1>4, <1>5, <1>a, <3>1
  <2>3. /\ top2.node \in DOMAIN seen2 /\ top2.depth \in 1..w.limit
        /\ seen2[top2.node] <= top2.depth
        /\ top2.node \in w.near[top2.depth - 1]
        /\ top2.todo \subseteq w.nexts[top2.node]
    BY <2>1
  <2> QED BY <2>1, <2>2, <2>3 DEF InProgress
<1>11. WalkRecorded(w, noted2)
  <2>1. top.node \in w.near[w.limit - 1]
    <3>1. w.limit - top.depth \in Nat /\ top.depth - 1 + (w.limit - top.depth) = w.limit - 1
      BY <1>1, <1>a
    <3>2. w.near[top.depth - 1] \subseteq w.near[top.depth - 1 + (w.limit - top.depth)]
      BY <1>4, <3>1, DistancesGrow DEF IsWalk
    <3> QED BY <1>1, <3>1, <3>2
  <2>2. e \in w.nexts[top.node]
    BY <1>1
  <2>3. WalkRecorded(w, noted)
    BY DEF Walking
  <2> QED BY <2>1, <2>2, <2>3 DEF WalkRecorded
<1>12. ASSUME NEW f \in DOMAIN seen2, NEW g \in w.nexts[f]
       PROVE  \/ Awaits(rest \cup {top2} \cup added, f, seen2[f], g)
              \/ WalkFollowed(w, seen2, noted2, g, seen2[f])
  <2>1. CASE f = x /\ seen2[f] = d /\ added = {[node |-> x, depth |-> d, todo |-> w.nexts[x]]}
    <3>1. PICK t : t = [node |-> x, depth |-> d, todo |-> w.nexts[x]]
      OBVIOUS
    <3>2. t.node = f /\ t.depth = seen2[f] /\ g \in t.todo /\ t \in added
      BY <1>12, <2>1, <3>1
    <3> QED BY <3>2 DEF Awaits
  <2>2. CASE f \in DOMAIN seen /\ seen2[f] = seen[f]
    <3>1. CASE Awaits(rest \cup {top}, f, seen[f], g)
      <4>1. PICK t \in rest \cup {top} : t.node = f /\ t.depth = seen[f] /\ g \in t.todo
        BY <3>1 DEF Awaits
      <4>2. CASE t \in rest
        BY <2>2, <4>1, <4>2 DEF Awaits
      <4>3. CASE t = top /\ g # e
        BY <2>2, <4>1, <4>3 DEF Awaits
      <4>4. CASE t = top /\ g = e
        <5>1. <<g.caller, g.callee>> \in DOMAIN noted2
          BY <4>4
        <5>2. seen2[f] + 1 = d /\ w.ends[g] = x
          BY <1>2, <1>3, <2>2, <4>1, <4>4
        <5>3. d <= w.limit => x \in DOMAIN seen2 /\ seen2[x] <= d
          BY <1>4, <1>6 DEF Entered
        <5> QED BY <5>1, <5>2, <5>3 DEF WalkFollowed
      <4> QED BY <4>1, <4>2, <4>3, <4>4
    <3>2. CASE WalkFollowed(w, seen, noted, g, seen[f])
      <4>1. <<g.caller, g.callee>> \in DOMAIN noted2
        BY <3>2 DEF WalkFollowed
      <4>2. ASSUME seen[f] + 1 <= w.limit
            PROVE  w.ends[g] \in DOMAIN seen2 /\ seen2[w.ends[g]] <= seen[f] + 1
        <5>1. w.ends[g] \in DOMAIN seen /\ seen[w.ends[g]] <= seen[f] + 1
          BY <3>2, <4>2 DEF WalkFollowed
        <5>2. PICK y \in DOMAIN seen : y = w.ends[g]
          BY <5>1
        <5>3. y \in DOMAIN seen2 /\ seen2[y] <= seen[y] /\ seen[y] \in 1..w.limit
          BY <1>7
        <5>4. seen2[y] \in 1..w.limit /\ seen[f] \in 1..w.limit
          BY <1>7, <1>9, <2>2, <5>3 DEF Visited
        <5> QED BY <1>a, <5>1, <5>2, <5>3, <5>4
      <4> QED BY <2>2, <4>1, <4>2 DEF WalkFollowed
    <3> QED BY <1>12, <2>2, <3>1, <3>2 DEF Walking
  <2> QED BY <1>8, <1>12, <2>1, <2>2
<1> QED BY <1>9, <1>10, <1>11, <1>12 DEF Walking

(* A call of walk that returns has nothing left to do.                     *)
LEMMA FrameEnds ==
    ASSUME NEW w, NEW seen, NEW noted, NEW rest, NEW top, top.todo = {},
           Walking(w, seen, noted, rest \cup {top})
    PROVE  Walking(w, seen, noted, rest)
<1>1. \A f, d, e : Awaits(rest \cup {top}, f, d, e) => Awaits(rest, f, d, e)
  BY DEF Awaits
<1> QED BY <1>1 DEF Walking, InProgress

WalkReported(w, seen, noted) ==
    /\ DOMAIN noted = {<<e.caller, e.callee>> : e \in UNION {w.nexts[f] : f \in w.near[w.limit - 1]}}
    /\ \A f \in DOMAIN seen : /\ f \in w.near[seen[f] - 1]
                              /\ seen[f] > 1 => f \notin w.near[seen[f] - 2]
    /\ \A c \in DOMAIN noted : noted[c] <= w.limit

(* When no call of walk is left, every function in reach was visited at    *)
(* its distance from the root and every edge in reach was recorded.        *)
LEMMA WalkEnds ==
    ASSUME NEW w, IsWalk(w), NEW seen, NEW noted, Walking(w, seen, noted, {})
    PROVE  WalkReported(w, seen, noted)
<1>1. w.limit \in Nat \ {0} /\ w.limit - 1 \in Nat
  BY DEF IsWalk
<1>2. \A f \in DOMAIN seen : \A e \in w.nexts[f] : WalkFollowed(w, seen, noted, e, seen[f])
  BY DEF Walking, Awaits
<1>3. /\ \A f \in DOMAIN seen : /\ f \in w.nodes /\ seen[f] \in 1..w.limit
                                /\ f \in w.near[seen[f] - 1]
      /\ w.root \in DOMAIN seen /\ seen[w.root] = 1
  BY DEF Walking, Visited
<1> DEFINE AtDistance(k) == \A f \in w.near[k] : f \in DOMAIN seen /\ seen[f] <= k + 1
           G == {k \in Nat : k < w.limit => AtDistance(k)}
<1>4. 0 \in G
  <2>1. w.near[0] = {w.root}
    BY DEF IsWalk, Distances
  <2> QED BY <1>3, <2>1
<1>5. ASSUME NEW k \in Nat, k \in G PROVE k + 1 \in G
  <2>1. SUFFICES ASSUME k + 1 < w.limit, NEW f \in w.near[k + 1]
                 PROVE  f \in DOMAIN seen /\ seen[f] <= k + 1 + 1
    OBVIOUS
  <2>2. AtDistance(k)
    BY <1>1, <1>5, <2>1
  <2>3. w.near[k + 1] = w.near[k] \cup Gain(w.nexts, w.ends, w.near[k])
    BY DEF IsWalk, Distances
  <2>4. CASE f \in w.near[k]
    <3>1. f \in DOMAIN seen /\ seen[f] <= k + 1 /\ seen[f] \in 1..w.limit
      BY <1>3, <2>2, <2>4
    <3> QED BY <1>1, <3>1
  <2>5. CASE f \in Gain(w.nexts, w.ends, w.near[k])
    <3>1. PICK g \in w.near[k] : \E e \in w.nexts[g] : f = w.ends[e]
      BY <2>5 DEF Gain
    <3>a. PICK e \in w.nexts[g] : f = w.ends[e]
      BY <3>1
    <3>2. g \in DOMAIN seen /\ seen[g] <= k + 1 /\ seen[g] \in 1..w.limit
      BY <1>3, <2>2, <3>1
    <3>3. seen[g] + 1 <= w.limit
      BY <1>1, <2>1, <3>2
    <3>4. f \in DOMAIN seen /\ seen[f] <= seen[g] + 1
      BY <1>2, <3>a, <3>2, <3>3 DEF WalkFollowed
    <3>5. seen[f] \in 1..w.limit
      BY <1>3, <3>4
    <3> QED BY <1>1, <3>2, <3>4, <3>5
  <2> QED BY <2>1, <2>3, <2>4, <2>5
<1>6. Nat \subseteq G
  <2> HIDE DEF G
  <2> QED BY <1>4, <1>5, Induction
<1>7. \A k \in Nat : k < w.limit => AtDistance(k)
  BY <1>6
<1>8. ASSUME NEW f \in DOMAIN seen, seen[f] > 1 PROVE f \notin w.near[seen[f] - 2]
  <2>1. PICK k \in Nat : k = seen[f] - 2
    <3>1. seen[f] - 2 \in Nat
      BY <1>1, <1>3, <1>8
    <3> QED BY <3>1
  <2>2. k < w.limit /\ seen[f] \in 1..w.limit /\ ~(seen[f] <= k + 1)
    BY <1>1, <1>3, <2>1
  <2> QED BY <1>7, <2>1, <2>2
<1>9. ASSUME NEW f \in w.near[w.limit - 1], NEW e \in w.nexts[f]
      PROVE  <<e.caller, e.callee>> \in DOMAIN noted
  <2>1. w.limit - 1 < w.limit
    BY <1>1
  <2>2. f \in DOMAIN seen
    BY <1>1, <1>7, <2>1
  <2> QED BY <1>2, <2>2 DEF WalkFollowed
<1>10. \A c \in DOMAIN noted : /\ noted[c] \in 1..w.limit
                               /\ \E f \in w.near[w.limit - 1] : \E e \in w.nexts[f] :
                                      c = <<e.caller, e.callee>>
  BY DEF Walking, WalkRecorded
<1>11. PICK R : R = {<<e.caller, e.callee>> : e \in UNION {w.nexts[f] : f \in w.near[w.limit - 1]}}
  OBVIOUS
<1>12. DOMAIN noted \subseteq R
  BY <1>10, <1>11
<1>13. R \subseteq DOMAIN noted
  BY <1>9, <1>11
<1>14. \A c \in DOMAIN noted : noted[c] <= w.limit
  BY <1>1, <1>10
<1> QED BY <1>3, <1>8, <1>11, <1>12, <1>13, <1>14 DEF WalkReported

Frames == [node : Known(prog), depth : Nat, todo : SUBSET Edges(prog)]

WalkInv ==
    Walks /\ pc \in {"run", "done"} =>
        /\ Len(resolved) = 1
        /\ walks \in Seq(Frames)
        /\ Walking(Walk, seenNodes, seenEdges, ToSet(walks))
        /\ pc = "done" => walks = <<>>

LEMMA DepthIsPositive ==
    ASSUME CallsInv, request.tool # "dead"
    PROVE  maxDepth \in Nat \ {0}
<1>1. request.depth \in Int
  BY DepthsAssumption DEF CallsInv, Requests
<1> QED BY <1>1, DepthsAssumption DEF maxDepth, EffectiveDepth

LEMMA WalkIsGood ==
    ASSUME CallsInv, Walks, Len(resolved) = 1
    PROVE  IsWalk(Walk) /\ from \in Known(prog)
<1>1. from \in Known(prog)
  <2>1. PICK T : T = [prog : {"narrow", "broad"}, fn : Funcs]
    OBVIOUS
  <2>2. resolved \in Seq(T)
    BY <2>1 DEF CallsInv
  <2>3. DOMAIN resolved = 1..1 /\ resolved # <<>>
    BY <2>2, LenProperties, EmptySeq
  <2>4. Last(resolved) = resolved[1] /\ 1 \in DOMAIN resolved
    BY <2>3 DEF Last
  <2> QED BY <2>3, <2>4 DEF CallsInv, from
<1>2. IsGraph(Known(prog), Edges(prog), Nexts, Ends)
  BY NextsAreGraph
<1>3. Distances(Around(Known(prog), Nexts, Ends, from), Known(prog), Nexts, Ends, from)
  BY <1>1, NearIsAround
<1>4. maxDepth \in Nat \ {0}
  BY DepthIsPositive DEF Walks
<1> QED BY <1>1, <1>2, <1>3, <1>4 DEF IsWalk, Walk

LEMMA PutProperties ==
    ASSUME NEW f, NEW x, NEW v, NEW g, g = Put(f, x, v)
    PROVE  /\ DOMAIN g = DOMAIN f \cup {x} /\ g[x] = v
           /\ \A y \in DOMAIN f : y # x => g[y] = f[y]
BY DEF Put

(* What a call of walk does, in terms of the frames.                       *)
LEMMA WalkCalled ==
    ASSUME NEW x \in Known(prog), NEW d \in Nat, NEW below \in Seq(Frames),
           NextEdges(x) \subseteq Edges(prog), \A f \in DOMAIN seenNodes : seenNodes[f] \in Nat,
           walk(x, d, below), Nexts[x] = NextEdges(x)
    PROVE  /\ walks' \in Seq(Frames)
           /\ \E added : /\ ToSet(walks') = ToSet(below) \cup added
                         /\ Entered(Walk, seenNodes, seenNodes', x, d, added)
<1>1. Walk.limit = maxDepth /\ Walk.nexts = Nexts
  BY DEF Walk
<1>2. CASE Enters(x, d, seenNodes)
  <2>1. PICK t : t = [node |-> x, depth |-> d, todo |-> NextEdges(x)]
    OBVIOUS
  <2>2. t \in Frames
    BY <2>1 DEF Frames
  <2>3. seenNodes' = Put(seenNodes, x, d) /\ walks' = Append(below, t)
    BY <1>2, <2>1 DEF walk
  <2>4. PICK T : T = Frames
    OBVIOUS
  <2>5. PICK s : s = Append(below, t)
    OBVIOUS
  <2>6. s \in Seq(T) /\ ToSet(s) = ToSet(below) \cup {t}
    BY <2>2, <2>4, <2>5, Appended
  <2>7. PICK sn : sn = seenNodes'
    OBVIOUS
  <2>8. /\ DOMAIN sn = DOMAIN seenNodes \cup {x} /\ sn[x] = d
        /\ \A y \in DOMAIN seenNodes : y # x => sn[y] = seenNodes[y]
    BY <2>3, <2>7 DEF Put
  <2>9. Entered(Walk, seenNodes, sn, x, d, {t})
    BY <1>1, <1>2, <2>1, <2>8 DEF Entered, Enters
  <2> QED BY <2>3, <2>4, <2>5, <2>6, <2>7, <2>9
<1>3. CASE ~Enters(x, d, seenNodes)
  <2>1. seenNodes' = seenNodes /\ walks' = below
    BY <1>3 DEF walk
  <2>2. d <= maxDepth => x \in DOMAIN seenNodes /\ seenNodes[x] <= d
    BY <1>3 DEF Enters
  <2>3. Entered(Walk, seenNodes, seenNodes, x, d, {})
    BY <1>1, <2>2 DEF Entered
  <2>4. ToSet(below) = ToSet(below) \cup {}
    OBVIOUS
  <2> QED BY <2>1, <2>3, <2>4
<1> QED BY <1>2, <1>3

LEMMA StartWalkKeeps ==
    ASSUME CallsInv, Untouched, StartWalk
    PROVE  WalkInv'
<1>1. /\ UNCHANGED <<request, calls, prog, resolved, seenEdges>>
      /\ Walks /\ pc = "resolve" /\ pc' = "run" /\ Len(resolved) = Names
      /\ walk(from, 1, <<>>)
  BY DEF StartWalk, from
<1>2. Len(resolved) = 1
  BY <1>1 DEF Walks, Names
<1>3. seenNodes = <<>> /\ seenEdges = <<>>
  BY <1>1 DEF Untouched
<1>4. IsWalk(Walk) /\ from \in Known(prog)
  BY <1>1, <1>2, WalkIsGood
<1>5. \A s : s = <<>> => DOMAIN s = {}
  OBVIOUS
<1>6. DOMAIN seenNodes = {} /\ DOMAIN seenEdges = {}
  BY <1>3, <1>5
<1>7. maxDepth \in Nat \ {0} /\ from \notin DOMAIN seenNodes
  BY <1>1, <1>6, DepthIsPositive DEF Walks
<1>8. Enters(from, 1, seenNodes)
  BY <1>7 DEF Enters
<1>9. PICK t : t = [node |-> from, depth |-> 1, todo |-> NextEdges(from)]
  OBVIOUS
<1>10. seenNodes' = Put(seenNodes, from, 1) /\ walks' = Append(<<>>, t)
  BY <1>1, <1>8, <1>9 DEF walk
<1>11. t \in Frames
  <2>1. NextEdges(from) \subseteq Edges(prog)
    BY DEF NextEdges, In, Out
  <2> QED BY <1>4, <1>9, <2>1 DEF Frames
<1>12. walks' \in Seq(Frames) /\ ToSet(walks') = {t}
  <2>1. PICK T : T = Frames
    OBVIOUS
  <2>a. \A s : s = <<>> => s \in Seq(T) /\ DOMAIN s = {}
    OBVIOUS
  <2>2. PICK s0 : s0 = <<>>
    OBVIOUS
  <2>b. s0 \in Seq(T) /\ DOMAIN s0 = {}
    BY <2>a, <2>2
  <2>3. PICK s : s = Append(s0, t)
    OBVIOUS
  <2>4. s \in Seq(T) /\ ToSet(s) = ToSet(s0) \cup {t}
    <3>1. t \in T /\ s0 \in Seq(T)
      BY <1>11, <2>1, <2>b
    <3> QED BY <2>3, <3>1, Appended
  <2>5. ToSet(s0) = {}
    BY <2>b DEF ToSet
  <2> QED BY <1>10, <2>1, <2>2, <2>3, <2>4, <2>5
<1>13. PICK sn : sn = seenNodes'
  OBVIOUS
<1>14. DOMAIN sn = {from} /\ sn[from] = 1
  BY <1>6, <1>10, <1>13 DEF Put
<1>15. PICK w : w = Walk
  OBVIOUS
<1>16. /\ IsWalk(w) /\ w.root = from /\ w.nodes = Known(prog) /\ w.nexts = Nexts
       /\ w.limit = maxDepth /\ Nexts[from] = NextEdges(from)
  BY <1>4, <1>15 DEF Walk, Nexts
<1>17. from \in w.near[0]
  BY <1>16 DEF IsWalk, Distances
<1>18. Visited(w, sn)
  BY <1>4, <1>7, <1>14, <1>16, <1>17 DEF Visited
<1>19. InProgress(w, sn, {t})
  BY <1>7, <1>9, <1>14, <1>16, <1>17 DEF InProgress
<1>20. WalkRecorded(w, seenEdges)
  BY <1>6 DEF WalkRecorded
<1>21. \A f \in DOMAIN sn : \A e \in w.nexts[f] : Awaits({t}, f, sn[f], e)
  BY <1>9, <1>14, <1>16 DEF Awaits
<1>22. Walking(w, sn, seenEdges, {t})
  BY <1>18, <1>19, <1>20, <1>21 DEF Walking
<1>23. Frames' = Frames /\ Walk' = Walk
  BY <1>1 DEF Frames, Walk, Nexts, Ends, NextEdges, Across, In, Out, Edges, Known, maxDepth, from
<1>24. Walking(Walk, seenNodes', seenEdges', ToSet(walks'))
  BY <1>1, <1>12, <1>13, <1>15, <1>22
<1>25. pc' # "done"
  BY <1>1
<1> QED BY <1>1, <1>2, <1>12, <1>23, <1>24, <1>25 DEF WalkInv

LEMMA WalkEdgeKeeps ==
    ASSUME CallsInv, WalkInv, WalkEdge
    PROVE  WalkInv'
<1>1. /\ UNCHANGED <<request, calls, pc, prog, resolved>>
      /\ Walks /\ pc = "run" /\ walks # <<>>
  BY DEF WalkEdge
<1>2. PICK top : top = Last(walks)
  OBVIOUS
<1>3. PICK e \in top.todo :
          /\ seenEdges' = (IF <<e.caller, e.callee>> \in DOMAIN seenEdges THEN seenEdges
                           ELSE Put(seenEdges, <<e.caller, e.callee>>, top.depth))
          /\ walk(Across(e), top.depth + 1, Append(Front(walks), [top EXCEPT !.todo = @ \ {e}]))
  BY <1>2 DEF WalkEdge
<1>4. /\ Len(resolved) = 1 /\ walks \in Seq(Frames)
      /\ Walking(Walk, seenNodes, seenEdges, ToSet(walks))
  BY <1>1 DEF WalkInv
<1>5. PICK w : w = Walk
  OBVIOUS
<1>6. /\ IsWalk(w) /\ w.nodes = Known(prog) /\ w.nexts = Nexts /\ w.ends = Ends
      /\ w.limit = maxDepth /\ w.edges = Edges(prog)
  BY <1>1, <1>4, <1>5, WalkIsGood DEF Walk
<1>7. PICK T : T = Frames
  OBVIOUS
<1>8. PICK front : front = Front(walks)
  OBVIOUS
<1>9. top \in T /\ front \in Seq(T) /\ ToSet(walks) = ToSet(front) \cup {top}
  BY <1>1, <1>2, <1>4, <1>7, <1>8, SetOfFrontAndLast
<1>10. top.node \in Known(prog) /\ top.depth \in Nat /\ top.todo \subseteq Edges(prog)
  BY <1>7, <1>9 DEF Frames
<1>11. PICK top2 : top2 = [top EXCEPT !.todo = @ \ {e}]
  OBVIOUS
<1>12. /\ top2 \in T /\ top2.node = top.node /\ top2.depth = top.depth
       /\ top2.todo = top.todo \ {e}
  BY <1>7, <1>9, <1>11 DEF Frames
<1>13. PICK below : below = Append(front, top2)
  OBVIOUS
<1>14. below \in Seq(T) /\ ToSet(below) = ToSet(front) \cup {top2}
  BY <1>9, <1>12, <1>13, Appended
<1>15. PICK x : x = Across(e)
  OBVIOUS
<1>16. e \in Edges(prog) /\ w.ends[e] = x /\ x \in Known(prog)
  <2>1. e \in Edges(prog)
    BY <1>10
  <2>2. Ends[e] = x
    BY <1>15, <2>1 DEF Ends
  <2>3. Ends \in [Edges(prog) -> Known(prog)]
    BY NextsAreGraph DEF IsGraph
  <2> QED BY <1>6, <2>1, <2>2, <2>3
<1>17. PICK d \in Nat : d = top.depth + 1
  <2>1. top.depth + 1 \in Nat
    BY <1>10
  <2> QED BY <2>1
<1>18. walk(x, d, below)
  BY <1>3, <1>8, <1>11, <1>13, <1>15, <1>17
<1>19. Visited(w, seenNodes) /\ InProgress(w, seenNodes, ToSet(front) \cup {top})
  BY <1>4, <1>5, <1>9 DEF Walking
<1>20. /\ walks' \in Seq(Frames)
       /\ \E added : /\ ToSet(walks') = ToSet(below) \cup added
                     /\ Entered(Walk, seenNodes, seenNodes', x, d, added)
  <2>1. NextEdges(x) \subseteq Edges(prog) /\ Nexts[x] = NextEdges(x)
    BY <1>16 DEF NextEdges, In, Out, Nexts
  <2>2. \A f \in DOMAIN seenNodes : seenNodes[f] \in Nat
    BY <1>19 DEF Visited
  <2>3. below \in Seq(Frames)
    BY <1>7, <1>14
  <2> QED BY <1>16, <1>18, <2>1, <2>2, <2>3, WalkCalled
<1>21. PICK added : /\ ToSet(walks') = ToSet(below) \cup added
                    /\ Entered(Walk, seenNodes, seenNodes', x, d, added)
  BY <1>20
<1>22. PICK se : se = seenEdges'
  OBVIOUS
<1>23. PICK c : c = <<e.caller, e.callee>>
  OBVIOUS
<1>24. top.depth \in 1..w.limit
  BY <1>19 DEF InProgress
<1>25. /\ DOMAIN se = DOMAIN seenEdges \cup {c}
       /\ \A y \in DOMAIN seenEdges : se[y] = seenEdges[y]
       /\ se[c] \in 1..w.limit
  <2>1. CASE c \in DOMAIN seenEdges
    <3>1. se = seenEdges
      BY <1>3, <1>22, <1>23, <2>1
    <3>2. \A y \in DOMAIN seenEdges : seenEdges[y] \in 1..w.limit
      BY <1>4, <1>5 DEF Walking, WalkRecorded
    <3> QED BY <2>1, <3>1, <3>2
  <2>2. CASE c \notin DOMAIN seenEdges
    <3>1. se = Put(seenEdges, c, top.depth)
      BY <1>3, <1>22, <1>23, <2>2
    <3> QED BY <1>24, <2>2, <3>1 DEF Put
  <2> QED BY <2>1, <2>2
<1>26. Walking(w, seenNodes', se, ToSet(front) \cup {top2} \cup added)
  <2>1. Walking(w, seenNodes, seenEdges, ToSet(front) \cup {top})
    BY <1>4, <1>5, <1>9
  <2>2. Entered(w, seenNodes, seenNodes', w.ends[e], top.depth + 1, added)
    BY <1>5, <1>16, <1>17, <1>21
  <2>3. PICK sn : sn = seenNodes'
    OBVIOUS
  <2>4. Walking(w, sn, se, ToSet(front) \cup {top2} \cup added)
    BY <1>3, <1>6, <1>12, <1>23, <1>25, <2>1, <2>2, <2>3, FollowEdge
  <2> QED BY <2>3, <2>4
<1>27. Frames' = Frames /\ Walk' = Walk
  BY <1>1 DEF Frames, Walk, Nexts, Ends, NextEdges, Across, In, Out, Edges, Known, maxDepth, from
<1>28. Walking(Walk, seenNodes', seenEdges', ToSet(walks'))
  BY <1>5, <1>14, <1>21, <1>22, <1>26
<1> QED BY <1>1, <1>4, <1>20, <1>27, <1>28 DEF WalkInv

LEMMA WalkReturnsKeeps ==
    ASSUME CallsInv, WalkInv, WalkReturns
    PROVE  WalkInv'
<1>1. /\ UNCHANGED <<request, calls, prog, resolved, seenNodes, seenEdges>>
      /\ Walks /\ pc = "run" /\ walks # <<>> /\ Last(walks).todo = {}
      /\ walks' = Front(walks)
      /\ pc' = IF walks' = <<>> THEN "done" ELSE pc
  BY DEF WalkReturns
<1>2. /\ Len(resolved) = 1 /\ walks \in Seq(Frames)
      /\ Walking(Walk, seenNodes, seenEdges, ToSet(walks))
  BY <1>1 DEF WalkInv
<1>3. PICK T : T = Frames
  OBVIOUS
<1>4. PICK front : front = Front(walks)
  OBVIOUS
<1>5. PICK top : top = Last(walks)
  OBVIOUS
<1>6. front \in Seq(T) /\ ToSet(walks) = ToSet(front) \cup {top}
  BY <1>1, <1>2, <1>3, <1>4, <1>5, SetOfFrontAndLast
<1>7. PICK w : w = Walk
  OBVIOUS
<1>8. Walking(w, seenNodes, seenEdges, ToSet(front) \cup {top}) /\ top.todo = {}
  BY <1>1, <1>2, <1>5, <1>6, <1>7
<1>9. Walking(w, seenNodes, seenEdges, ToSet(front))
  BY <1>8, FrameEnds
<1>10. Frames' = Frames /\ Walk' = Walk
  BY <1>1 DEF Frames, Walk, Nexts, Ends, NextEdges, Across, In, Out, Edges, Known, maxDepth, from
<1>11. walks' \in Seq(Frames) /\ Walking(Walk, seenNodes', seenEdges', ToSet(walks'))
  BY <1>1, <1>3, <1>4, <1>6, <1>7, <1>9
<1>12. pc' = "done" => walks' = <<>>
  BY <1>1
<1> QED BY <1>1, <1>2, <1>10, <1>11, <1>12 DEF WalkInv

LEMMA NextWalk ==
    ASSUME CallsInv, Untouched, WalkInv, [NextCalls]_cgvars
    PROVE  WalkInv'
<1>1. CASE \E q \in Queries, loads \in BOOLEAN : Resolve(q, loads)
  <2>1. pc' \in {"resolve", "failed"}
    BY <1>1, ResolveKeeps
  <2> QED BY <2>1 DEF WalkInv
<1>2. CASE StartWalk
  BY <1>2, StartWalkKeeps
<1>3. CASE WalkEdge
  BY <1>3, WalkEdgeKeeps
<1>4. CASE WalkReturns
  BY <1>4, WalkReturnsKeeps
<1>5. CASE StartPaths \/ DequeuePath \/ FinishPaths \/ StartDead
           \/ (\E f \in Funcs : Visit(f)) \/ FinishDead
  <2>1. request' = request /\ request.tool \in {"paths", "dead"}
    BY <1>5 DEF StartPaths, DequeuePath, FinishPaths, StartDead, Visit, FinishDead
  <2> QED BY <2>1 DEF WalkInv, Walks
<1>6. CASE UNCHANGED cgvars
  <2>1. UNCHANGED <<request, calls, pc, prog, resolved, seenNodes, seenEdges, walks>>
    BY <1>6 DEF cgvars
  <2>2. Frames' = Frames /\ Walk' = Walk /\ Walks' = Walks
    BY <2>1 DEF Frames, Walk, Nexts, Ends, NextEdges, Across, In, Out, Edges, Known, maxDepth,
                from, Walks
  <2> QED BY <2>1, <2>2 DEF WalkInv
<1> QED BY <1>1, <1>2, <1>3, <1>4, <1>5, <1>6 DEF NextCalls

LEMMA WalkIsRight ==
    ASSUME CallsInv, WalkInv
    PROVE  WalkExact
<1> SUFFICES ASSUME Walks, pc = "done"
             PROVE  /\ DOMAIN seenEdges =
                           {<<e.caller, e.callee>> : e \in UNION {NextEdges(f) : f \in Near(maxDepth - 1)}}
                    /\ \A f \in DOMAIN seenNodes :
                           /\ f \in Near(seenNodes[f] - 1)
                           /\ (seenNodes[f] > 1 => f \notin Near(seenNodes[f] - 2))
                    /\ \A c \in DOMAIN seenEdges : seenEdges[c] <= maxDepth
  BY DEF WalkExact
<1>1. /\ Len(resolved) = 1 /\ Walking(Walk, seenNodes, seenEdges, {})
  <2>1. /\ Len(resolved) = 1 /\ Walking(Walk, seenNodes, seenEdges, ToSet(walks)) /\ walks = <<>>
    BY DEF WalkInv
  <2>2. \A s : s = <<>> => DOMAIN s = {}
    OBVIOUS
  <2>3. ToSet(walks) = {}
    BY <2>1, <2>2 DEF ToSet
  <2> QED BY <2>1, <2>3
<1>2. PICK w : w = Walk
  OBVIOUS
<1>3. /\ IsWalk(w) /\ from \in Known(prog) /\ w.nexts = Nexts /\ w.limit = maxDepth
      /\ w.near = Around(Known(prog), Nexts, Ends, from) /\ w.nodes = Known(prog)
  BY <1>1, <1>2, WalkIsGood DEF Walk
<1>4. \A n \in Nat : Near(n) = w.near[n]
  BY <1>3, NearIsAround
<1>5. /\ DOMAIN seenEdges = {<<e.caller, e.callee>> :
                                 e \in UNION {w.nexts[f] : f \in w.near[w.limit - 1]}}
      /\ \A f \in DOMAIN seenNodes :
             /\ f \in w.near[seenNodes[f] - 1]
             /\ seenNodes[f] > 1 => f \notin w.near[seenNodes[f] - 2]
      /\ \A c \in DOMAIN seenEdges : seenEdges[c] <= w.limit
  <2>1. Walking(w, seenNodes, seenEdges, {}) /\ IsWalk(w)
    BY <1>1, <1>2, <1>3
  <2>2. WalkReported(w, seenNodes, seenEdges)
    BY <2>1, WalkEnds
  <2> QED BY <2>2 DEF WalkReported
<1>6. w.limit \in Nat /\ w.limit - 1 \in Nat
  BY <1>3 DEF IsWalk
<1>7. \A f \in w.near[w.limit - 1] : w.nexts[f] = NextEdges(f)
  <2>1. w.near[w.limit - 1] \in SUBSET w.nodes
    BY <1>3, <1>6 DEF IsWalk, Distances
  <2> QED BY <1>3, <2>1 DEF Nexts
<1>8. Near(maxDepth - 1) = w.near[w.limit - 1]
  BY <1>3, <1>4, <1>6
<1>9. UNION {w.nexts[f] : f \in w.near[w.limit - 1]} = UNION {NextEdges(f) : f \in Near(maxDepth - 1)}
  BY <1>7, <1>8
<1>10. DOMAIN seenEdges =
           {<<e.caller, e.callee>> : e \in UNION {NextEdges(f) : f \in Near(maxDepth - 1)}}
  BY <1>5, <1>9
<1>11. \A f \in DOMAIN seenNodes : seenNodes[f] \in 1..w.limit
  BY <1>1, <1>2 DEF Walking, Visited
<1>12. ASSUME NEW f \in DOMAIN seenNodes
       PROVE  /\ f \in Near(seenNodes[f] - 1)
              /\ seenNodes[f] > 1 => f \notin Near(seenNodes[f] - 2)
  <2>1. PICK k \in Nat : k = seenNodes[f] - 1
    <3>1. seenNodes[f] - 1 \in Nat
      BY <1>6, <1>11
    <3> QED BY <3>1
  <2>2. Near(k) = w.near[k]
    BY <1>4
  <2>3. CASE seenNodes[f] > 1
    <3>1. PICK m \in Nat : m = seenNodes[f] - 2
      <4>1. seenNodes[f] - 2 \in Nat
        BY <1>6, <1>11, <2>3
      <4> QED BY <4>1
    <3>2. Near(m) = w.near[m]
      BY <1>4
    <3> QED BY <1>5, <2>1, <2>2, <3>1, <3>2
  <2>4. CASE ~(seenNodes[f] > 1)
    BY <1>5, <2>1, <2>2, <2>4
  <2> QED BY <2>3, <2>4
<1> QED BY <1>3, <1>5, <1>10, <1>12

LEMMA InitWalk == InitCalls => WalkInv
BY DEF InitCalls, WalkInv

(* find_callers and get_call_hierarchy: whatever the call graph, the limit *)
(* and the order of the edges, the walk reports exactly what is in reach,  *)
(* and every function at its distance from the root.                       *)
THEOREM WalkIsExact == SpecCalls => []WalkExact
BY InitCallsInv, NextCallsInv, InitWalk, NextWalk, WalkIsRight, PTL DEF SpecCalls

-----------------------------------------------------------------------------
(* Call paths.  A path is the sequence of its edges.                       *)

(* What a search goes by.                                                  *)
Ways == [edges |-> Edges(prog), from |-> from, to |-> to,
         limit |-> maxDepth, count |-> request.paths]

(* A path that starts at from, follows calls, comes to no function twice   *)
(* and does not go on beyond to.                                           *)
IsTrail(w, p) ==
    /\ p \in Seq(w.edges)
    /\ \A i \in DOMAIN p :
           /\ p[i].caller = IF i = 1 THEN w.from ELSE p[i - 1].callee
           /\ p[i].callee # w.from
           /\ \A j \in DOMAIN p : j < i => p[j].callee # p[i].callee
           /\ i < Len(p) => p[i].callee # w.to

IsOpen(w, p) == IsTrail(w, p) /\ \A i \in DOMAIN p : p[i].callee # w.to

IsGoal(w, p) == IsTrail(w, p) /\ Len(p) \in 1..w.limit /\ p[Len(p)].callee = w.to

EndOf(w, p) == IF p = <<>> THEN w.from ELSE p[Len(p)].callee

(* The edges a path can go on with.                                        *)
Onward(w, p) == {e \in w.edges : /\ e.caller = EndOf(w, p) /\ e.callee # w.from
                                 /\ \A i \in DOMAIN p : p[i].callee # e.callee}

Covers(p, q) == Len(p) <= Len(q) /\ \A i \in 1..Len(p) : p[i] = q[i]

LEMMA PathProperties ==
    ASSUME NEW T, NEW p \in Seq(T)
    PROVE  /\ Len(p) \in Nat /\ DOMAIN p = 1..Len(p) /\ \A i \in 1..Len(p) : p[i] \in T
           /\ p = <<>> <=> Len(p) = 0
<1>1. Len(p) \in Nat /\ DOMAIN p = 1..Len(p)
  BY LenProperties
<1>2. \A i \in 1..Len(p) : p[i] \in T
  BY ElementOfSeq
<1>3. p = <<>> <=> Len(p) = 0
  <2>1. p # <<>> => Len(p) # 0
    BY EmptySeq
  <2>2. p = <<>> => Len(p) = 0
    BY EmptySeq
  <2> QED BY <2>1, <2>2
<1> QED BY <1>1, <1>2, <1>3

(* A path with one more edge.                                              *)
Continues(w, p, e, q) ==
    /\ IsTrail(w, q) /\ Len(q) = Len(p) + 1 /\ Covers(p, q)
    /\ q[Len(p) + 1] = e
    /\ e.callee # w.to => IsOpen(w, q)

LEMMA OneMore ==
    ASSUME NEW w, NEW p, IsOpen(w, p), NEW e \in Onward(w, p), NEW q, q = Append(p, e)
    PROVE  Continues(w, p, e, q)
<1>1. p \in Seq(w.edges) /\ e \in w.edges
  BY DEF IsOpen, IsTrail, Onward
<1>2. /\ q \in Seq(w.edges) /\ Len(p) \in Nat /\ Len(q) = Len(p) + 1
      /\ DOMAIN p = 1..Len(p) /\ DOMAIN q = 1..(Len(p) + 1)
      /\ \A i \in 1..Len(p) : q[i] = p[i]
      /\ q[Len(p) + 1] = e
  BY <1>1, Appended
<1>3. PICK n \in Nat : n = Len(p)
  BY <1>2
<1>4. /\ DOMAIN p = 1..n /\ DOMAIN q = 1..(n + 1) /\ Len(q) = n + 1
      /\ \A i \in 1..n : q[i] = p[i]
      /\ q[n + 1] = e
  BY <1>2, <1>3
<1>5. \A i \in 1..n : /\ p[i].caller = (IF i = 1 THEN w.from ELSE p[i - 1].callee)
                      /\ p[i].callee # w.from /\ p[i].callee # w.to
                      /\ \A j \in 1..n : j < i => p[j].callee # p[i].callee
  BY <1>4 DEF IsOpen, IsTrail
<1>6. /\ e.caller = EndOf(w, p) /\ e.callee # w.from
      /\ \A i \in 1..n : p[i].callee # e.callee
  BY <1>4 DEF Onward
<1>7. e.caller = IF n = 0 THEN w.from ELSE p[n].callee
  <2>1. p = <<>> <=> n = 0
    BY <1>1, <1>3, PathProperties
  <2> QED BY <1>3, <1>6, <2>1 DEF EndOf
<1>8. ASSUME NEW i \in DOMAIN q
      PROVE  /\ q[i].caller = IF i = 1 THEN w.from ELSE q[i - 1].callee
             /\ q[i].callee # w.from
             /\ \A j \in DOMAIN q : j < i => q[j].callee # q[i].callee
             /\ i < Len(q) => q[i].callee # w.to
  <2>1. CASE i \in 1..n
    <3>1. i - 1 \in 1..n \/ i = 1
      BY <2>1
    <3>2. \A j \in DOMAIN q : j < i => j \in 1..n
      BY <1>4, <2>1
    <3> QED BY <1>4, <1>5, <2>1, <3>1, <3>2
  <2>2. CASE i = n + 1
    <3>1. i = 1 <=> n = 0
      BY <2>2
    <3>2. n # 0 => i - 1 = n /\ n \in 1..n
      BY <2>2
    <3>3. \A j \in DOMAIN q : j < i => j \in 1..n
      BY <1>4, <2>2
    <3>4. ~(i < Len(q))
      BY <1>4, <2>2
    <3> QED BY <1>4, <1>6, <1>7, <2>2, <3>1, <3>2, <3>3, <3>4
  <2> QED BY <1>4, <2>1, <2>2
<1>9. IsTrail(w, q)
  BY <1>2, <1>8 DEF IsTrail
<1>10. Covers(p, q)
  BY <1>3, <1>4 DEF Covers
<1>11. ASSUME e.callee # w.to PROVE IsOpen(w, q)
  <2>1. \A i \in DOMAIN q : i \in 1..n \/ i = n + 1
    BY <1>4
  <2>2. \A i \in DOMAIN q : q[i].callee # w.to
    BY <1>4, <1>5, <1>11, <2>1
  <2> QED BY <1>9, <2>2 DEF IsOpen
<1> QED BY <1>2, <1>9, <1>10, <1>11 DEF Continues

(* A path that goes on beyond an open one does so with one of its edges.   *)
LEMMA GoesThrough ==
    ASSUME NEW w, NEW p, IsOpen(w, p), NEW q, IsTrail(w, q), Covers(p, q), Len(q) # Len(p)
    PROVE  /\ Len(p) + 1 <= Len(q) /\ Len(p) \in Nat /\ Len(q) \in Nat
           /\ q[Len(p) + 1] \in Onward(w, p)
           /\ Covers(Append(p, q[Len(p) + 1]), q)
           /\ Len(q) = Len(p) + 1 => q = Append(p, q[Len(p) + 1])
           /\ Len(q) # Len(p) + 1 => q[Len(p) + 1].callee # w.to
<1>1. p \in Seq(w.edges) /\ q \in Seq(w.edges)
  BY DEF IsOpen, IsTrail
<1>2. PICK n \in Nat : n = Len(p)
  BY <1>1, PathProperties
<1>3. PICK m \in Nat : m = Len(q)
  BY <1>1, PathProperties
<1>4. /\ DOMAIN p = 1..n /\ DOMAIN q = 1..m /\ \A i \in 1..m : q[i] \in w.edges
      /\ p = <<>> <=> n = 0
  BY <1>1, <1>2, <1>3, PathProperties
<1>5. n + 1 <= m /\ \A i \in 1..n : p[i] = q[i]
  BY <1>2, <1>3 DEF Covers
<1>6. PICK e : e = q[n + 1]
  OBVIOUS
<1>7. n + 1 \in 1..m
  BY <1>5
<1>8. /\ e \in w.edges /\ e.callee # w.from
      /\ e.caller = (IF n + 1 = 1 THEN w.from ELSE q[n + 1 - 1].callee)
      /\ \A j \in 1..m : j < n + 1 => q[j].callee # e.callee
      /\ n + 1 < m => e.callee # w.to
  BY <1>3, <1>4, <1>6, <1>7 DEF IsTrail
<1>9. e.caller = EndOf(w, p)
  <2>1. CASE n = 0
    BY <1>4, <1>8, <2>1 DEF EndOf
  <2>2. CASE n # 0
    <3>1. n + 1 # 1 /\ n + 1 - 1 = n /\ n \in 1..n
      BY <2>2
    <3> QED BY <1>2, <1>4, <1>5, <1>8, <2>2, <3>1 DEF EndOf
  <2> QED BY <2>1, <2>2
<1>10. \A i \in DOMAIN p : p[i].callee # e.callee
  <2>1. \A i \in 1..n : i \in 1..m /\ i < n + 1
    BY <1>5
  <2> QED BY <1>4, <1>5, <1>8, <2>1
<1>11. e \in Onward(w, p)
  BY <1>8, <1>9, <1>10 DEF Onward
<1>12. PICK r : r = Append(p, e)
  OBVIOUS
<1>13. /\ r \in Seq(w.edges) /\ Len(r) = n + 1 /\ \A i \in 1..n : r[i] = p[i]
       /\ r[n + 1] = e
  BY <1>1, <1>2, <1>8, <1>12, Appended
<1>14. \A i \in 1..(n + 1) : i \in 1..n \/ i = n + 1
  OBVIOUS
<1>15. \A i \in 1..(n + 1) : r[i] = q[i]
  BY <1>5, <1>6, <1>13, <1>14
<1>16. Covers(r, q)
  BY <1>3, <1>5, <1>13, <1>15 DEF Covers
<1>17. m = n + 1 => q = r
  <2>1. SUFFICES ASSUME m = n + 1 PROVE q = r
    OBVIOUS
  <2>2. Len(r) = Len(q) /\ \A i \in 1..Len(r) : r[i] = q[i]
    BY <1>3, <1>13, <1>15, <2>1
  <2> QED BY <1>1, <1>13, <2>2, SeqEqual
<1>18. m # n + 1 => e.callee # w.to
  BY <1>5, <1>8
<1> QED BY <1>2, <1>3, <1>5, <1>6, <1>11, <1>12, <1>16, <1>17, <1>18

LEMMA CoversFacts ==
    ASSUME NEW T, NEW a \in Seq(T), NEW b \in Seq(T), NEW c \in Seq(T)
    PROVE  /\ Covers(a, b) /\ Covers(b, c) => Covers(a, c)
           /\ Covers(a, a)
           /\ Covers(a, b) /\ Len(a) = Len(b) => a = b
           /\ Covers(a, c) /\ Covers(b, c) /\ Len(a) <= Len(b) => Covers(a, b)
<1>1. Len(a) \in Nat /\ Len(b) \in Nat /\ Len(c) \in Nat
  BY LenProperties
<1>2. Covers(a, b) /\ Covers(b, c) => Covers(a, c)
  BY <1>1 DEF Covers
<1>3. Covers(a, a)
  BY <1>1 DEF Covers
<1>4. ASSUME Covers(a, b), Len(a) = Len(b) PROVE a = b
  <2>1. \A i \in 1..Len(a) : a[i] = b[i]
    BY <1>4 DEF Covers
  <2> QED BY <1>4, <2>1, SeqEqual
<1>5. ASSUME Covers(a, c), Covers(b, c), Len(a) <= Len(b) PROVE Covers(a, b)
  <2>1. \A i \in 1..Len(a) : i \in 1..Len(b)
    BY <1>1, <1>5
  <2> QED BY <1>5, <2>1 DEF Covers
<1> QED BY <1>2, <1>3, <1>4, <1>5

Child(w, h, r) == \E e \in Onward(w, h) : r = Append(h, e)

(* Shorter paths come first, and no path in the queue is more than one     *)
(* edge longer than another.                                               *)
Sorted2(line, done) ==
    /\ \A i, j \in DOMAIN line : i < j => Len(line[i]) <= Len(line[j])
    /\ \A i, j \in DOMAIN line : Len(line[j]) <= Len(line[i]) + 1
    /\ \A i, j \in DOMAIN done : i < j => Len(done[i]) <= Len(done[j])
    /\ \A i \in DOMAIN done : \A j \in DOMAIN line : Len(done[i]) <= Len(line[j]) + 1

(* No path is found or queued twice, and none goes on from a queued one.   *)
Apart(line, done) ==
    /\ \A i, j \in DOMAIN line : i # j => ~Covers(line[i], line[j])
    /\ \A i \in DOMAIN line : \A j \in DOMAIN done : ~Covers(line[i], done[j])
    /\ \A i, j \in DOMAIN done : i # j => done[i] # done[j]

(* Every path that is wanted was found, goes on from a queued one, or was  *)
(* cut off when there were enough that are not longer.                     *)
Complete(w, line, done) ==
    \A p : IsGoal(w, p) =>
        \/ p \in ToSet(done)
        \/ \E j \in DOMAIN line : Covers(line[j], p)
        \/ Len(done) = w.count /\ \A i \in DOMAIN done : Len(done[i]) <= Len(p)

Exploring(w, line, done) ==
    /\ line \in Seq(Seq(w.edges)) /\ done \in Seq(Seq(w.edges))
    /\ \A j \in DOMAIN line : IsOpen(w, line[j])
    /\ \A i \in DOMAIN done : IsGoal(w, done[i])
    /\ Len(done) <= w.count
    /\ Sorted2(line, done) /\ Apart(line, done) /\ Complete(w, line, done)

(* Two sequences end to end.                                               *)
Joins(u, s, t) ==
    /\ Len(s) \in Nat /\ Len(t) \in Nat /\ Len(u) = Len(s) + Len(t)
    /\ DOMAIN s = 1..Len(s) /\ DOMAIN t = 1..Len(t) /\ DOMAIN u = 1..(Len(s) + Len(t))
    /\ \A i \in DOMAIN s : i \in DOMAIN u /\ u[i] = s[i]
    /\ \A i \in DOMAIN t : Len(s) + i \in DOMAIN u /\ u[Len(s) + i] = t[i]
    /\ \A k \in DOMAIN u : \/ k \in DOMAIN s
                           \/ k > Len(s) /\ k - Len(s) \in DOMAIN t /\ u[k] = t[k - Len(s)]

LEMMA Joined ==
    ASSUME NEW T, NEW s \in Seq(T), NEW t \in Seq(T), NEW u, u = s \o t
    PROVE  u \in Seq(T) /\ Joins(u, s, t)
<1>1. /\ u \in Seq(T) /\ Len(u) = Len(s) + Len(t)
      /\ \A i \in 1..Len(s) + Len(t) : u[i] = IF i <= Len(s) THEN s[i] ELSE t[i - Len(s)]
  BY ConcatProperties
<1>2. PICK m \in Nat : m = Len(s)
  BY LenProperties
<1>3. PICK n \in Nat : n = Len(t)
  BY LenProperties
<1>4. DOMAIN s = 1..m /\ DOMAIN t = 1..n /\ DOMAIN u = 1..(m + n) /\ Len(u) = m + n
  <2>1. DOMAIN s = 1..Len(s) /\ DOMAIN t = 1..Len(t) /\ DOMAIN u = 1..Len(u)
    BY <1>1, LenProperties
  <2> QED BY <1>1, <1>2, <1>3, <2>1
<1>5. \A i \in 1..(m + n) : u[i] = IF i <= m THEN s[i] ELSE t[i - m]
  BY <1>1, <1>2, <1>3
<1>6. \A i \in 1..m : i \in 1..(m + n) /\ u[i] = s[i]
  <2>1. \A i \in 1..m : i \in 1..(m + n) /\ i <= m
    OBVIOUS
  <2> QED BY <1>5, <2>1
<1>7. \A i \in 1..n : m + i \in 1..(m + n) /\ u[m + i] = t[i]
  <2>1. SUFFICES ASSUME NEW i \in 1..n PROVE m + i \in 1..(m + n) /\ u[m + i] = t[i]
    OBVIOUS
  <2>2. PICK k \in Int : k = m + i
    OBVIOUS
  <2>3. k \in 1..(m + n) /\ ~(k <= m) /\ k - m = i
    BY <2>2
  <2> QED BY <1>5, <2>2, <2>3
<1>8. \A k \in 1..(m + n) : k \in 1..m \/ (k > m /\ k - m \in 1..n /\ u[k] = t[k - m])
  <2>1. \A k \in 1..(m + n) : k \in 1..m \/ (k > m /\ k - m \in 1..n /\ ~(k <= m))
    OBVIOUS
  <2>2. \A k \in 1..(m + n) : ~(k <= m) => u[k] = t[k - m]
    BY <1>5
  <2> QED BY <2>1, <2>2
<1> QED BY <1>1, <1>2, <1>3, <1>4, <1>6, <1>7, <1>8 DEF Joins

(* What the paths that go on from an open path have to do with the others. *)
LEMMA ChildFacts ==
    ASSUME NEW w, NEW h, IsOpen(w, h), NEW r, Child(w, h, r)
    PROVE  /\ h \in Seq(w.edges) /\ r \in Seq(w.edges) /\ Len(h) \in Nat
           /\ Len(r) = Len(h) + 1 /\ Covers(h, r) /\ IsTrail(w, r)
           /\ r[Len(h) + 1].callee # w.to => IsOpen(w, r)
           /\ \A t \in Seq(w.edges) : Covers(t, r) => Covers(t, h) \/ t = r
           /\ \A t \in Seq(w.edges) : Covers(r, t) => Covers(h, t)
           /\ \A t : Child(w, h, t) /\ Covers(r, t) => r = t
<1>1. PICK e \in Onward(w, h) : r = Append(h, e)
  BY DEF Child
<1>2. /\ IsTrail(w, r) /\ Len(r) = Len(h) + 1 /\ Covers(h, r) /\ r[Len(h) + 1] = e
      /\ e.callee # w.to => IsOpen(w, r)
  <2>1. Continues(w, h, e, r)
    BY <1>1, OneMore
  <2> QED BY <2>1 DEF Continues
<1>3. h \in Seq(w.edges) /\ r \in Seq(w.edges) /\ Len(h) \in Nat
  BY <1>2, LenProperties DEF IsOpen, IsTrail
<1>4. ASSUME NEW t \in Seq(w.edges), Covers(t, r) PROVE Covers(t, h) \/ t = r
  <2>1. Len(t) \in Nat /\ Len(t) <= Len(h) + 1
    BY <1>2, <1>4, LenProperties DEF Covers
  <2>2. CASE Len(t) = Len(h) + 1
    BY <1>2, <1>3, <1>4, <2>2, CoversFacts
  <2>3. CASE Len(t) <= Len(h)
    BY <1>2, <1>3, <1>4, <2>3, CoversFacts
  <2> QED BY <1>3, <2>1, <2>2, <2>3
<1>5. \A t \in Seq(w.edges) : Covers(r, t) => Covers(h, t)
  BY <1>2, <1>3, CoversFacts
<1>6. ASSUME NEW t, Child(w, h, t), Covers(r, t) PROVE r = t
  <2>1. PICK g \in Onward(w, h) : t = Append(h, g)
    BY <1>6 DEF Child
  <2>2. IsTrail(w, t) /\ Len(t) = Len(h) + 1
    <3>1. Continues(w, h, g, t)
      BY <2>1, OneMore
    <3> QED BY <3>1 DEF Continues
  <2>3. t \in Seq(w.edges)
    BY <2>2 DEF IsTrail
  <2> QED BY <1>2, <1>3, <1>6, <2>2, <2>3, CoversFacts
<1> QED BY <1>2, <1>3, <1>4, <1>5, <1>6

(* The queue without its first path.                                       *)
IsTailOf(rest, line) ==
    /\ Len(line) \in Nat \ {0} /\ Len(rest) = Len(line) - 1
    /\ DOMAIN line = 1..Len(line) /\ DOMAIN rest = 1..(Len(line) - 1)
    /\ \A i \in DOMAIN rest : i + 1 \in DOMAIN line /\ i + 1 # 1 /\ rest[i] = line[i + 1]
    /\ 1 \in DOMAIN line
    /\ \A j \in DOMAIN line : j # 1 => j - 1 \in DOMAIN rest /\ rest[j - 1] = line[j]

LEMMA TailOf ==
    ASSUME NEW T, NEW line \in Seq(T), line # <<>>
    PROVE  Head(line) = line[1] /\ Tail(line) \in Seq(T) /\ IsTailOf(Tail(line), line)
<1>1. PICK rest : rest = Tail(line)
  OBVIOUS
<1>2. PICK n \in Nat \ {0} : n = Len(line)
  BY EmptySeq
<1>3. rest \in Seq(T) /\ Len(rest) = n - 1 /\ \A i \in 1..Len(rest) : rest[i] = line[i + 1]
  BY <1>1, <1>2, HeadTailProperties
<1>4. DOMAIN line = 1..n /\ DOMAIN rest = 1..(n - 1)
  BY <1>2, <1>3, LenProperties
<1>5. \A i \in 1..(n - 1) : i + 1 \in 1..n /\ i + 1 # 1 /\ rest[i] = line[i + 1]
  BY <1>3
<1>6. \A j \in 1..n : j # 1 => j - 1 \in 1..(n - 1) /\ rest[j - 1] = line[j]
  <2>1. SUFFICES ASSUME NEW j \in 1..n, j # 1 PROVE j - 1 \in 1..(n - 1) /\ rest[j - 1] = line[j]
    OBVIOUS
  <2>2. PICK k \in 1..(n - 1) : k = j - 1
    <3>1. j - 1 \in 1..(n - 1)
      BY <2>1
    <3> QED BY <3>1
  <2>3. k + 1 = j
    BY <2>2
  <2> QED BY <1>5, <2>2, <2>3
<1>7. IsTailOf(rest, line)
  BY <1>2, <1>3, <1>4, <1>5, <1>6 DEF IsTailOf
<1>8. Head(line) = line[1]
  OBVIOUS
<1> QED BY <1>1, <1>3, <1>7, <1>8

(* A path as long as the limit is dropped.                                 *)
LEMMA DropPath ==
    ASSUME NEW w, w.limit \in Nat, NEW line, NEW done, Exploring(w, line, done),
           NEW rest \in Seq(Seq(w.edges)), IsTailOf(rest, line),
           Len(line[1]) >= w.limit
    PROVE  Exploring(w, rest, done)
<1>1. /\ \A i \in DOMAIN rest : i + 1 \in DOMAIN line /\ i + 1 # 1 /\ rest[i] = line[i + 1]
      /\ 1 \in DOMAIN line /\ DOMAIN rest \subseteq Nat
      /\ \A j \in DOMAIN line : j # 1 => j - 1 \in DOMAIN rest /\ rest[j - 1] = line[j]
  BY DEF IsTailOf
<1>2. \A i \in DOMAIN rest : IsOpen(w, rest[i])
  BY <1>1 DEF Exploring
<1>3. Sorted2(rest, done)
  <2>1. Sorted2(line, done)
    BY DEF Exploring
  <2>2. \A i, j \in DOMAIN rest : i < j => i + 1 < j + 1
    BY <1>1
  <2>3. \A i, j \in DOMAIN rest : i < j => Len(rest[i]) <= Len(rest[j])
    BY <1>1, <2>1, <2>2 DEF Sorted2
  <2> QED BY <1>1, <2>1, <2>3 DEF Sorted2
<1>4. Apart(rest, done)
  <2>1. Apart(line, done)
    BY DEF Exploring
  <2>2. \A i, j \in DOMAIN rest : i # j => i + 1 # j + 1
    BY <1>1
  <2> QED BY <1>1, <2>1, <2>2 DEF Apart
<1>5. ASSUME NEW p, IsGoal(w, p)
      PROVE  \/ p \in ToSet(done)
             \/ \E j \in DOMAIN rest : Covers(rest[j], p)
             \/ Len(done) = w.count /\ \A i \in DOMAIN done : Len(done[i]) <= Len(p)
  <2>1. ~Covers(line[1], p)
    <3>1. SUFFICES ASSUME Covers(line[1], p) PROVE FALSE
      OBVIOUS
    <3>2. IsOpen(w, line[1])
      BY <1>1 DEF Exploring
    <3>3. line[1] \in Seq(w.edges) /\ p \in Seq(w.edges) /\ IsTrail(w, p)
      BY <1>5, <3>2 DEF IsOpen, IsTrail, IsGoal
    <3>4. Len(line[1]) \in Nat /\ Len(p) \in Nat /\ DOMAIN line[1] = 1..Len(line[1])
      BY <3>3, LenProperties
    <3>5. Len(p) \in 1..w.limit /\ p[Len(p)].callee = w.to
      BY <1>5 DEF IsGoal
    <3>6. Len(line[1]) = Len(p)
      BY <3>1, <3>4, <3>5 DEF Covers
    <3>7. line[1] = p
      BY <3>1, <3>3, <3>6, CoversFacts
    <3> QED BY <3>2, <3>4, <3>5, <3>7 DEF IsOpen
  <2>2. \/ p \in ToSet(done)
        \/ \E j \in DOMAIN line : Covers(line[j], p)
        \/ Len(done) = w.count /\ \A i \in DOMAIN done : Len(done[i]) <= Len(p)
    BY <1>5 DEF Exploring, Complete
  <2>3. ASSUME NEW j \in DOMAIN line, Covers(line[j], p)
        PROVE  \E i \in DOMAIN rest : Covers(rest[i], p)
    <3>1. j # 1
      BY <2>1, <2>3
    <3> QED BY <1>1, <2>3, <3>1
  <2> QED BY <2>2, <2>3
<1> QED BY <1>2, <1>3, <1>4, <1>5 DEF Exploring, Complete

(* The paths that one path in the queue is replaced with, and those found. *)
Extends(w, h, room, kept, new) ==
    /\ \A i \in DOMAIN new : Child(w, h, new[i]) /\ IsOpen(w, new[i])
    /\ \A i \in DOMAIN kept : Child(w, h, kept[i]) /\ IsGoal(w, kept[i])
    /\ \A i, j \in DOMAIN new : i # j => new[i] # new[j]
    /\ \A i, j \in DOMAIN kept : i # j => kept[i] # kept[j]
    /\ \A r : Child(w, h, r) /\ IsOpen(w, r) => r \in ToSet(new)
    /\ Len(kept) <= room
    /\ \/ Len(kept) = room
       \/ \A r : Child(w, h, r) /\ IsGoal(w, r) => r \in ToSet(kept)

(* What goes on from the first path is new to the queue and to the answer. *)
LEMMA ChildIsNew ==
    ASSUME NEW w, NEW line, NEW done, Exploring(w, line, done), 1 \in DOMAIN line,
           NEW r, Child(w, line[1], r)
    PROVE  /\ \A k \in DOMAIN line : k # 1 => ~Covers(line[k], r) /\ ~Covers(r, line[k])
           /\ \A j \in DOMAIN done : ~Covers(r, done[j]) /\ r # done[j]
<1>1. PICK h : h = line[1]
  OBVIOUS
<1>2. IsOpen(w, h) /\ Child(w, h, r) /\ Apart(line, done)
  BY <1>1 DEF Exploring
<1>3. /\ h \in Seq(w.edges) /\ r \in Seq(w.edges) /\ Covers(h, r)
      /\ \A t \in Seq(w.edges) : Covers(t, r) => Covers(t, h) \/ t = r
      /\ \A t \in Seq(w.edges) : Covers(r, t) => Covers(h, t)
  BY <1>2, ChildFacts
<1>4. ASSUME NEW k \in DOMAIN line, k # 1
      PROVE  ~Covers(line[k], r) /\ ~Covers(r, line[k])
  <2>1. line[k] \in Seq(w.edges)
    BY DEF Exploring, IsOpen, IsTrail
  <2>2. ~Covers(line[k], h) /\ ~Covers(h, line[k])
    BY <1>1, <1>2, <1>4 DEF Apart
  <2> QED BY <1>3, <2>1, <2>2
<1>5. ASSUME NEW j \in DOMAIN done
      PROVE  ~Covers(r, done[j]) /\ r # done[j]
  <2>1. done[j] \in Seq(w.edges)
    BY DEF Exploring, IsGoal, IsTrail
  <2>2. ~Covers(h, done[j])
    BY <1>1, <1>2 DEF Apart
  <2> QED BY <1>3, <2>1, <2>2
<1> QED BY <1>4, <1>5

(* The lengths in the queue and in the answer, after the first path of     *)
(* length n was replaced.                                                  *)
LEMMA StaysSorted ==
    ASSUME NEW line, NEW rest, IsTailOf(rest, line), NEW done, Sorted2(line, done),
           NEW n \in Nat, n = Len(line[1]),
           \A k \in DOMAIN line : Len(line[k]) \in Nat,
           \A k \in DOMAIN done : Len(done[k]) \in Nat,
           NEW new, \A i \in DOMAIN new : Len(new[i]) = n + 1,
           NEW kept, \A i \in DOMAIN kept : Len(kept[i]) = n + 1,
           NEW line2, Joins(line2, rest, new), NEW done2, Joins(done2, done, kept)
    PROVE  Sorted2(line2, done2)
<1>1. /\ \A i \in DOMAIN rest : i + 1 \in DOMAIN line /\ i + 1 # 1 /\ rest[i] = line[i + 1]
      /\ 1 \in DOMAIN line /\ DOMAIN rest \subseteq Nat
      /\ Len(rest) \in Nat /\ DOMAIN rest = 1..Len(rest)
  BY DEF IsTailOf
<1>2. \A k \in DOMAIN line : n <= Len(line[k]) /\ Len(line[k]) <= n + 1
  <2>1. \A k \in DOMAIN line : k = 1 \/ 1 < k
    BY DEF IsTailOf
  <2> QED BY <1>1, <2>1 DEF Sorted2
<1>3. \A k \in DOMAIN done : Len(done[k]) <= n + 1
  BY <1>1 DEF Sorted2
<1>4. ASSUME NEW k \in DOMAIN line2
      PROVE  \/ k \in DOMAIN rest /\ line2[k] = line[k + 1] /\ k + 1 \in DOMAIN line
             \/ k > Len(rest) /\ Len(line2[k]) = n + 1
  BY <1>1 DEF Joins
<1>5. ASSUME NEW k \in DOMAIN done2
      PROVE  \/ k \in DOMAIN done /\ done2[k] = done[k]
             \/ k > Len(done) /\ Len(done2[k]) = n + 1
  BY DEF Joins
<1>6. \A k \in DOMAIN line2 : Len(line2[k]) \in Nat /\ n <= Len(line2[k]) /\ Len(line2[k]) <= n + 1
  <2>1. SUFFICES ASSUME NEW k \in DOMAIN line2
                 PROVE  Len(line2[k]) \in Nat /\ n <= Len(line2[k]) /\ Len(line2[k]) <= n + 1
    OBVIOUS
  <2>2. CASE line2[k] = line[k + 1] /\ k + 1 \in DOMAIN line
    BY <1>2, <2>2
  <2>3. CASE Len(line2[k]) = n + 1
    BY <2>3
  <2> QED BY <1>4, <2>2, <2>3
<1>7. \A k \in DOMAIN done2 : Len(done2[k]) \in Nat /\ Len(done2[k]) <= n + 1
  BY <1>3, <1>5
<1>8. ASSUME NEW i \in DOMAIN line2, NEW j \in DOMAIN line2, i < j
      PROVE  Len(line2[i]) <= Len(line2[j])
  <2>1. DOMAIN line2 \subseteq Nat
    BY DEF Joins
  <2>2. CASE Len(line2[j]) = n + 1
    BY <1>6, <2>2
  <2>3. CASE j \in DOMAIN rest /\ line2[j] = line[j + 1] /\ j + 1 \in DOMAIN line
    <3>1. i \in DOMAIN rest
      BY <1>1, <1>8, <2>1, <2>3 DEF Joins
    <3>2. line2[i] = line[i + 1] /\ i + 1 \in DOMAIN line /\ i + 1 < j + 1
      BY <1>1, <1>4, <1>8, <2>1, <3>1
    <3> QED BY <2>3, <3>2 DEF Sorted2
  <2> QED BY <1>4, <2>2, <2>3
<1>9. ASSUME NEW i \in DOMAIN done2, NEW j \in DOMAIN done2, i < j
      PROVE  Len(done2[i]) <= Len(done2[j])
  <2>1. /\ DOMAIN done2 = 1..(Len(done) + Len(kept)) /\ Len(done) \in Nat /\ Len(kept) \in Nat
        /\ DOMAIN done = 1..Len(done)
    BY DEF Joins
  <2>2. CASE Len(done2[j]) = n + 1
    BY <1>7, <2>2
  <2>3. CASE j \in DOMAIN done /\ done2[j] = done[j]
    <3>1. i \in DOMAIN done
      BY <1>9, <2>1, <2>3
    <3>2. done2[i] = done[i]
      BY <3>1 DEF Joins
    <3> QED BY <1>9, <2>3, <3>1, <3>2 DEF Sorted2
  <2> QED BY <1>5, <2>2, <2>3
<1>10. \A i, j \in DOMAIN line2 : Len(line2[j]) <= Len(line2[i]) + 1
  BY <1>6
<1>11. \A i \in DOMAIN done2 : \A j \in DOMAIN line2 : Len(done2[i]) <= Len(line2[j]) + 1
  BY <1>6, <1>7
<1> QED BY <1>8, <1>9, <1>10, <1>11 DEF Sorted2

LEMMA StaysApart ==
    ASSUME NEW w, NEW line, NEW done, Exploring(w, line, done),
           NEW rest, IsTailOf(rest, line), NEW room, NEW kept, NEW new,
           Extends(w, line[1], room, kept, new),
           NEW line2, Joins(line2, rest, new), NEW done2, Joins(done2, done, kept)
    PROVE  Apart(line2, done2)
<1>1. /\ \A i \in DOMAIN rest : i + 1 \in DOMAIN line /\ i + 1 # 1 /\ rest[i] = line[i + 1]
      /\ 1 \in DOMAIN line /\ DOMAIN rest \subseteq Nat /\ Len(rest) \in Nat
  BY DEF IsTailOf
<1>2. Apart(line, done) /\ IsOpen(w, line[1])
  BY <1>1 DEF Exploring
<1>3. ASSUME NEW k \in DOMAIN line2
      PROVE  \/ k \in DOMAIN rest /\ line2[k] = line[k + 1] /\ k + 1 \in DOMAIN line /\ k + 1 # 1
             \/ k - Len(rest) \in DOMAIN new /\ line2[k] = new[k - Len(rest)]
  BY <1>1 DEF Joins
<1>4. ASSUME NEW k \in DOMAIN done2
      PROVE  \/ k \in DOMAIN done /\ done2[k] = done[k]
             \/ k - Len(done) \in DOMAIN kept /\ done2[k] = kept[k - Len(done)]
  BY DEF Joins
<1>5. DOMAIN line2 \subseteq Nat /\ DOMAIN done2 \subseteq Nat /\ Len(done) \in Nat
  BY DEF Joins
<1>6. \A i \in DOMAIN new : Child(w, line[1], new[i]) /\ IsOpen(w, new[i])
  BY DEF Extends
<1>7. \A i \in DOMAIN kept : Child(w, line[1], kept[i]) /\ IsGoal(w, kept[i])
  BY DEF Extends
<1>8. \A r, s : Child(w, line[1], r) /\ Child(w, line[1], s) /\ Covers(r, s) => r = s
  BY <1>2, ChildFacts
<1>9. \A p : ~(IsOpen(w, p) /\ IsGoal(w, p))
  <2>1. SUFFICES ASSUME NEW p, IsOpen(w, p), IsGoal(w, p) PROVE FALSE
    OBVIOUS
  <2>2. p \in Seq(w.edges)
    BY <2>1 DEF IsOpen, IsTrail
  <2>3. DOMAIN p = 1..Len(p) /\ Len(p) \in Nat
    BY <2>2, LenProperties
  <2>4. Len(p) \in DOMAIN p /\ p[Len(p)].callee = w.to
    BY <2>1, <2>3 DEF IsGoal
  <2> QED BY <2>1, <2>4 DEF IsOpen
<1>10. \A r : Child(w, line[1], r) =>
          /\ \A k \in DOMAIN line : k # 1 => ~Covers(line[k], r) /\ ~Covers(r, line[k])
          /\ \A j \in DOMAIN done : ~Covers(r, done[j]) /\ r # done[j]
  BY <1>1, ChildIsNew
<1>11. ASSUME NEW i \in DOMAIN line2, NEW j \in DOMAIN line2, i # j
       PROVE  ~Covers(line2[i], line2[j])
  <2>1. CASE line2[i] = line[i + 1] /\ i + 1 \in DOMAIN line /\ i + 1 # 1
    <3>1. CASE line2[j] = line[j + 1] /\ j + 1 \in DOMAIN line
      <4>1. i + 1 # j + 1
        BY <1>5, <1>11
      <4> QED BY <1>2, <2>1, <3>1, <4>1 DEF Apart
    <3>2. CASE j - Len(rest) \in DOMAIN new /\ line2[j] = new[j - Len(rest)]
      BY <1>6, <1>10, <2>1, <3>2
    <3> QED BY <1>3, <3>1, <3>2
  <2>2. CASE i - Len(rest) \in DOMAIN new /\ line2[i] = new[i - Len(rest)]
    <3>1. CASE line2[j] = line[j + 1] /\ j + 1 \in DOMAIN line /\ j + 1 # 1
      BY <1>6, <1>10, <2>2, <3>1
    <3>2. CASE j - Len(rest) \in DOMAIN new /\ line2[j] = new[j - Len(rest)]
      <4>1. i - Len(rest) # j - Len(rest)
        BY <1>1, <1>5, <1>11
      <4>2. line2[i] # line2[j]
        BY <2>2, <3>2, <4>1 DEF Extends
      <4> QED BY <1>6, <1>8, <2>2, <3>2, <4>2
    <3> QED BY <1>3, <3>1, <3>2
  <2> QED BY <1>3, <2>1, <2>2
<1>12. ASSUME NEW i \in DOMAIN line2, NEW j \in DOMAIN done2
       PROVE  ~Covers(line2[i], done2[j])
  <2>1. CASE line2[i] = line[i + 1] /\ i + 1 \in DOMAIN line /\ i + 1 # 1
    <3>1. CASE j \in DOMAIN done /\ done2[j] = done[j]
      BY <1>2, <2>1, <3>1 DEF Apart
    <3>2. CASE j - Len(done) \in DOMAIN kept /\ done2[j] = kept[j - Len(done)]
      BY <1>7, <1>10, <2>1, <3>2
    <3> QED BY <1>4, <3>1, <3>2
  <2>2. CASE i - Len(rest) \in DOMAIN new /\ line2[i] = new[i - Len(rest)]
    <3>1. CASE j \in DOMAIN done /\ done2[j] = done[j]
      BY <1>6, <1>10, <2>2, <3>1
    <3>2. CASE j - Len(done) \in DOMAIN kept /\ done2[j] = kept[j - Len(done)]
      BY <1>6, <1>7, <1>8, <1>9, <2>2, <3>2
    <3> QED BY <1>4, <3>1, <3>2
  <2> QED BY <1>3, <2>1, <2>2
<1>13. ASSUME NEW i \in DOMAIN done2, NEW j \in DOMAIN done2, i # j
       PROVE  done2[i] # done2[j]
  <2>1. CASE i \in DOMAIN done /\ done2[i] = done[i]
    <3>1. CASE j \in DOMAIN done /\ done2[j] = done[j]
      BY <1>2, <1>13, <2>1, <3>1 DEF Apart
    <3>2. CASE j - Len(done) \in DOMAIN kept /\ done2[j] = kept[j - Len(done)]
      BY <1>7, <1>10, <2>1, <3>2
    <3> QED BY <1>4, <3>1, <3>2
  <2>2. CASE i - Len(done) \in DOMAIN kept /\ done2[i] = kept[i - Len(done)]
    <3>1. CASE j \in DOMAIN done /\ done2[j] = done[j]
      BY <1>7, <1>10, <2>2, <3>1
    <3>2. CASE j - Len(done) \in DOMAIN kept /\ done2[j] = kept[j - Len(done)]
      <4>1. i - Len(done) # j - Len(done)
        BY <1>5, <1>13
      <4> QED BY <2>2, <3>2, <4>1 DEF Extends
    <3> QED BY <1>4, <3>1, <3>2
  <2> QED BY <1>4, <2>1, <2>2
<1> QED BY <1>11, <1>12, <1>13 DEF Apart

LEMMA StaysComplete ==
    ASSUME NEW w, w.limit \in Nat, NEW line, NEW done, Exploring(w, line, done),
           NEW rest, IsTailOf(rest, line), w.count \in Nat,
           Len(line[1]) < w.limit, Len(done) < w.count, NEW kept, NEW new,
           Extends(w, line[1], w.count - Len(done), kept, new),
           NEW line2, Joins(line2, rest, new), NEW done2, Joins(done2, done, kept)
    PROVE  Complete(w, line2, done2)
<1>1. /\ 1 \in DOMAIN line
      /\ \A j \in DOMAIN line : j # 1 => j - 1 \in DOMAIN rest /\ rest[j - 1] = line[j]
  BY DEF IsTailOf
<1>2. PICK h : h = line[1]
  OBVIOUS
<1>3. IsOpen(w, h) /\ h \in Seq(w.edges)
  BY <1>1, <1>2 DEF Exploring, IsOpen, IsTrail
<1>4. PICK n \in Nat : n = Len(h)
  BY <1>3, LenProperties
<1>5. DOMAIN h = 1..n
  BY <1>3, <1>4, LenProperties
<1>6. \A i \in DOMAIN done : Len(done[i]) <= n + 1
  BY <1>1, <1>2, <1>4 DEF Exploring, Sorted2
<1>7. \A i \in DOMAIN kept : Len(kept[i]) = n + 1
  <2>1. \A i \in DOMAIN kept : Child(w, h, kept[i])
    BY <1>2 DEF Extends
  <2> QED BY <1>3, <1>4, <2>1, ChildFacts
<1>8. \A i \in DOMAIN rest : i \in DOMAIN line2 /\ line2[i] = rest[i]
  BY DEF Joins
<1>9. \A i \in DOMAIN new : Len(rest) + i \in DOMAIN line2 /\ line2[Len(rest) + i] = new[i]
  BY DEF Joins
<1>10. \A i \in DOMAIN done : i \in DOMAIN done2 /\ done2[i] = done[i]
  BY DEF Joins
<1>11. \A i \in DOMAIN kept : Len(done) + i \in DOMAIN done2 /\ done2[Len(done) + i] = kept[i]
  BY DEF Joins
<1>12. SUFFICES ASSUME NEW p, IsGoal(w, p)
                PROVE  \/ p \in ToSet(done2)
                       \/ \E j \in DOMAIN line2 : Covers(line2[j], p)
                       \/ Len(done2) = w.count /\ \A i \in DOMAIN done2 : Len(done2[i]) <= Len(p)
  BY DEF Complete
<1>13. \/ p \in ToSet(done)
       \/ \E j \in DOMAIN line : Covers(line[j], p)
       \/ Len(done) = w.count
  BY <1>12 DEF Exploring, Complete
<1>14. CASE p \in ToSet(done)
  <2>1. PICK i \in DOMAIN done : p = done[i]
    BY <1>14 DEF ToSet
  <2>2. i \in DOMAIN done2 /\ done2[i] = p
    BY <1>10, <2>1
  <2> QED BY <2>2 DEF ToSet
<1>15. ASSUME NEW j \in DOMAIN line, j # 1, Covers(line[j], p)
       PROVE  \E k \in DOMAIN line2 : Covers(line2[k], p)
  <2>1. j - 1 \in DOMAIN rest /\ rest[j - 1] = line[j]
    BY <1>1, <1>15
  <2>2. j - 1 \in DOMAIN line2 /\ line2[j - 1] = line[j]
    BY <1>8, <2>1
  <2> QED BY <1>15, <2>2
<1>16. CASE Covers(h, p)
  <2>1. IsTrail(w, p) /\ p \in Seq(w.edges) /\ Len(p) \in 1..w.limit /\ p[Len(p)].callee = w.to
    BY <1>12 DEF IsGoal, IsTrail
  <2>2. Len(p) # Len(h)
    <3>1. SUFFICES ASSUME Len(p) = Len(h) PROVE FALSE
      OBVIOUS
    <3>2. p = h
      BY <1>3, <1>16, <2>1, <3>1, CoversFacts
    <3>3. Len(p) \in DOMAIN h
      BY <1>4, <1>5, <2>1, <3>1
    <3> QED BY <1>3, <2>1, <3>2, <3>3 DEF IsOpen
  <2>3. PICK e : e = p[n + 1]
    OBVIOUS
  <2>4. PICK r : r = Append(h, e)
    OBVIOUS
  <2>5. /\ e \in Onward(w, h) /\ Covers(r, p)
        /\ Len(p) = n + 1 => p = r
        /\ Len(p) # n + 1 => e.callee # w.to
    BY <1>3, <1>4, <1>16, <2>1, <2>2, <2>3, <2>4, GoesThrough
  <2>6. Child(w, h, r)
    BY <2>4, <2>5 DEF Child
  <2>7. CASE Len(p) # n + 1
    <3>1. Continues(w, h, e, r)
      BY <1>3, <2>4, <2>5, OneMore
    <3>2. IsOpen(w, r)
      BY <2>5, <2>7, <3>1 DEF Continues
    <3>3. r \in ToSet(new)
      BY <1>2, <2>6, <3>2 DEF Extends
    <3>4. PICK i \in DOMAIN new : r = new[i]
      BY <3>3 DEF ToSet
    <3> QED BY <1>9, <2>5, <3>4
  <2>8. CASE Len(p) = n + 1
    <3>1. p = r /\ Child(w, h, p)
      BY <2>5, <2>6, <2>8
    <3>2. CASE p \in ToSet(kept)
      <4>1. PICK i \in DOMAIN kept : p = kept[i]
        BY <3>2 DEF ToSet
      <4>2. Len(done) + i \in DOMAIN done2 /\ done2[Len(done) + i] = p
        BY <1>11, <4>1
      <4> QED BY <4>2 DEF ToSet
    <3>3. CASE p \notin ToSet(kept)
      <4>1. Len(kept) = w.count - Len(done)
        BY <1>2, <1>12, <3>1, <3>3 DEF Extends
      <4>2. Len(done) \in Nat /\ Len(done2) = Len(done) + Len(kept)
        BY DEF Joins
      <4>3. Len(done2) = w.count
        BY <4>1, <4>2
      <4>4. \A k \in DOMAIN done2 : \/ k \in DOMAIN done /\ done2[k] = done[k]
                                    \/ k - Len(done) \in DOMAIN kept /\ done2[k] = kept[k - Len(done)]
        BY DEF Joins
      <4>5. \A k \in DOMAIN done2 : Len(done2[k]) <= n + 1
        BY <1>6, <1>7, <4>4
      <4> QED BY <2>8, <4>3, <4>5
    <3> QED BY <3>2, <3>3
  <2> QED BY <2>7, <2>8
<1>17. Len(done) # w.count
  OBVIOUS
<1> QED BY <1>2, <1>13, <1>14, <1>15, <1>16, <1>17

(* One turn of the search, when the first path is not too long.            *)
LEMMA ExtendPath ==
    ASSUME NEW w, w.limit \in Nat, NEW line, NEW done, Exploring(w, line, done),
           NEW rest \in Seq(Seq(w.edges)), IsTailOf(rest, line), w.count \in Nat,
           Len(line[1]) < w.limit, Len(done) < w.count,
           NEW kept \in Seq(Seq(w.edges)), NEW new \in Seq(Seq(w.edges)),
           Extends(w, line[1], w.count - Len(done), kept, new),
           NEW line2, line2 = rest \o new, NEW done2, done2 = done \o kept
    PROVE  Exploring(w, line2, done2)
<1>1. PICK T : T = Seq(w.edges)
  OBVIOUS
<1>2. done \in Seq(T) /\ rest \in Seq(T) /\ kept \in Seq(T) /\ new \in Seq(T)
  BY <1>1 DEF Exploring
<1>3. line2 \in Seq(T) /\ Joins(line2, rest, new)
  BY <1>2, Joined
<1>4. done2 \in Seq(T) /\ Joins(done2, done, kept)
  BY <1>2, Joined
<1>5. 1 \in DOMAIN line /\ \A i \in DOMAIN rest : i + 1 \in DOMAIN line /\ rest[i] = line[i + 1]
  BY DEF IsTailOf
<1>6. /\ \A i \in DOMAIN new : Child(w, line[1], new[i]) /\ IsOpen(w, new[i])
      /\ \A i \in DOMAIN kept : Child(w, line[1], kept[i]) /\ IsGoal(w, kept[i])
      /\ Len(kept) <= w.count - Len(done)
  BY DEF Extends
<1>7. IsOpen(w, line[1])
  BY <1>5 DEF Exploring
<1>8. PICK n \in Nat : n = Len(line[1])
  <2>1. line[1] \in Seq(w.edges)
    BY <1>7 DEF IsOpen, IsTrail
  <2> QED BY <2>1, LenProperties
<1>9. Sorted2(line2, done2)
  <2>1. Sorted2(line, done)
    BY DEF Exploring
  <2>2. \A k \in DOMAIN line : line[k] \in Seq(w.edges)
    BY DEF Exploring, IsOpen, IsTrail
  <2>3. \A k \in DOMAIN done : done[k] \in Seq(w.edges)
    BY DEF Exploring, IsGoal, IsTrail
  <2>4. \A s \in Seq(w.edges) : Len(s) \in Nat
    BY LenProperties
  <2>5. \A i \in DOMAIN new : Len(new[i]) = n + 1
    BY <1>6, <1>7, <1>8, ChildFacts
  <2>6. \A i \in DOMAIN kept : Len(kept[i]) = n + 1
    BY <1>6, <1>7, <1>8, ChildFacts
  <2>7. (\A k \in DOMAIN line : Len(line[k]) \in Nat) /\ (\A k \in DOMAIN done : Len(done[k]) \in Nat)
    BY <2>2, <2>3, <2>4
  <2> QED BY <1>3, <1>4, <1>8, <2>1, <2>5, <2>6, <2>7, StaysSorted
<1>10. Apart(line2, done2)
  BY <1>3, <1>4, StaysApart
<1>11. Complete(w, line2, done2)
  BY <1>3, <1>4, StaysComplete
<1>12. \A j \in DOMAIN line2 : IsOpen(w, line2[j])
  <2>1. \A k \in DOMAIN line2 : \/ k \in DOMAIN rest /\ line2[k] = rest[k]
                                \/ k - Len(rest) \in DOMAIN new /\ line2[k] = new[k - Len(rest)]
    BY <1>3 DEF Joins
  <2>2. \A i \in DOMAIN rest : IsOpen(w, rest[i])
    BY <1>5 DEF Exploring
  <2> QED BY <1>6, <2>1, <2>2
<1>13. \A j \in DOMAIN done2 : IsGoal(w, done2[j])
  <2>1. \A k \in DOMAIN done2 : \/ k \in DOMAIN done /\ done2[k] = done[k]
                                \/ k - Len(done) \in DOMAIN kept /\ done2[k] = kept[k - Len(done)]
    BY <1>4 DEF Joins
  <2> QED BY <1>6, <2>1 DEF Exploring
<1>14. Len(done2) <= w.count
  <2>1. Len(done2) = Len(done) + Len(kept) /\ Len(done) \in Nat /\ Len(kept) \in Nat
    BY <1>4 DEF Joins
  <2> QED BY <1>6, <2>1
<1> QED BY <1>1, <1>3, <1>4, <1>9, <1>10, <1>11, <1>12, <1>13, <1>14 DEF Exploring

LEMMA EdgesAreFinite ==
    ASSUME CallsInv
    PROVE  IsFiniteSet(Edges(prog))
<1>1. calls \subseteq [caller : Funcs, callee : Funcs, type : {"Static", "Goroutine"}]
  BY CallGraphsAssumption DEF CallsInv
<1>2. PICK P : P = Funcs \X Funcs
  OBVIOUS
<1>3. IsFiniteSet(P)
  BY <1>2, FuncsAssumption, FS_Product
<1>4. PICK K : K = {"Static", "Goroutine"}
  OBVIOUS
<1>5. IsFiniteSet(K)
  <2>1. K = {"Static"} \cup {"Goroutine"}
    BY <1>4
  <2>2. IsFiniteSet({"Static"}) /\ IsFiniteSet({"Goroutine"})
    BY FS_Singleton
  <2> QED BY <2>1, <2>2, FS_Union
<1>6. PICK Q : Q = P \X K
  OBVIOUS
<1>7. IsFiniteSet(Q)
  BY <1>3, <1>5, <1>6, FS_Product
<1> DEFINE edge(q) == [caller |-> q[1][1], callee |-> q[1][2], type |-> q[2]]
           f == [q \in Q |-> edge(q)]
<1>8. ASSUME NEW e \in calls PROVE \E q \in Q : f[q] = e
  <2>1. e \in [caller : Funcs, callee : Funcs, type : {"Static", "Goroutine"}]
    BY <1>1
  <2>2. e = [caller |-> e.caller, callee |-> e.callee, type |-> e.type]
    BY <2>1
  <2>3. <<<<e.caller, e.callee>>, e.type>> \in Q
    BY <1>2, <1>4, <1>6, <2>1
  <2>4. f[<<<<e.caller, e.callee>>, e.type>>] = e
    BY <2>2, <2>3
  <2> QED BY <2>3, <2>4
<1> HIDE DEF f
<1>9. PICK R : R = {f[q] : q \in Q}
  OBVIOUS
<1>10. f \in Surjection(Q, R)
  <2>1. DOMAIN f = Q
    BY DEF f
  <2>2. f \in [Q -> R]
    <3>1. f = [q \in Q |-> f[q]]
      BY DEF f
    <3> QED BY <1>9, <3>1
  <2> QED BY <1>9, <2>2 DEF Surjection
<1>11. IsFiniteSet(R)
  BY <1>7, <1>10, FS_Surjection
<1>12. calls \subseteq R
  BY <1>8, <1>9
<1>13. Edges(prog) \subseteq R
  BY <1>12 DEF Edges
<1> QED BY <1>11, <1>13, FS_Subset

(* What a path goes on with is what Longer says.                           *)
LEMMA LongerIsChild ==
    ASSUME NEW h, IsOpen(Ways, h), Len(h) < maxDepth, maxDepth \in Nat
    PROVE  /\ \A r : r \in Longer(h) <=> Child(Ways, h, r)
           /\ \A r \in Longer(h) : /\ End(r) = to => IsGoal(Ways, r)
                                   /\ End(r) # to => IsOpen(Ways, r)
                                   /\ IsGoal(Ways, r) => End(r) = to
                                   /\ IsOpen(Ways, r) => End(r) # to
<1>1. PICK w : w = Ways
  OBVIOUS
<1>2. /\ w.edges = Edges(prog) /\ w.from = from /\ w.to = to /\ w.limit = maxDepth
      /\ IsOpen(w, h) /\ h \in Seq(w.edges)
  BY <1>1 DEF Ways, IsOpen, IsTrail
<1>3. Len(h) \in Nat /\ DOMAIN h = 1..Len(h)
  BY <1>2, LenProperties
<1>4. EndOf(w, h) = End(h)
  BY <1>2 DEF EndOf, End, Last
<1>5. Onward(w, h) = {e \in Out(prog, End(h)) : e.callee \notin On(h)}
  BY <1>2, <1>4 DEF Onward, Out, On
<1>6. \A r : r \in Longer(h) <=> Child(w, h, r)
  BY <1>5 DEF Longer, Child
<1>7. ASSUME NEW r \in Longer(h)
      PROVE  /\ End(r) = to => IsGoal(w, r)
             /\ End(r) # to => IsOpen(w, r)
             /\ IsGoal(w, r) => End(r) = to
             /\ IsOpen(w, r) => End(r) # to
  <2>1. PICK e \in Onward(w, h) : r = Append(h, e)
    BY <1>6, <1>7 DEF Child
  <2>2. Continues(w, h, e, r)
    BY <1>2, <2>1, OneMore
  <2>3. /\ IsTrail(w, r) /\ Len(r) = Len(h) + 1 /\ r[Len(h) + 1] = e
        /\ e.callee # w.to => IsOpen(w, r)
    BY <2>2 DEF Continues
  <2>4. r \in Seq(w.edges)
    BY <2>3 DEF IsTrail
  <2>5. DOMAIN r = 1..Len(r) /\ (r = <<>> <=> Len(r) = 0)
    BY <2>4, PathProperties
  <2>6. End(r) = e.callee
    <3>1. r # <<>>
      BY <1>3, <2>3, <2>5
    <3> QED BY <2>3, <3>1 DEF End, Last
  <2>7. Len(r) \in 1..w.limit /\ Len(r) \in DOMAIN r
    BY <1>2, <1>3, <2>3, <2>5
  <2>8. IsGoal(w, r) <=> e.callee = to
    BY <1>2, <2>3, <2>7 DEF IsGoal
  <2>9. IsOpen(w, r) => e.callee # to
    BY <1>2, <2>3, <2>7 DEF IsOpen
  <2> QED BY <1>2, <2>3, <2>6, <2>8, <2>9
<1> QED BY <1>1, <1>6, <1>7

LEMMA OrderIsInjective ==
    ASSUME NEW S, IsFiniteSet(S), NEW s \in SetToSeqs(S)
    PROVE  \A i, j \in DOMAIN s : i # j => s[i] # s[j]
<1>1. PICK n \in Nat : n = Cardinality(S)
  BY FS_CardinalityType
<1>2. s \in [1..n -> S] /\ \A i, j \in 1..n : i # j => s[i] # s[j]
  BY <1>1 DEF SetToSeqs
<1>3. DOMAIN s = 1..n
  BY <1>2
<1> QED BY <1>2, <1>3

(* Orders of what goes on from a path, cut to what there is room for.      *)
LEMMA OrdersExtend ==
    ASSUME CallsInv, NEW h, IsOpen(Ways, h), Len(h) < maxDepth, maxDepth \in Nat,
           NEW hits, hits \in SetToSeqs({p \in Longer(h) : End(p) = to}),
           NEW new, new \in SetToSeqs({p \in Longer(h) : End(p) # to}),
           NEW room \in Nat, NEW kept,
           kept = SubSeq(hits, 1, IF Len(hits) < room THEN Len(hits) ELSE room)
    PROVE  /\ kept \in Seq(Seq(Edges(prog))) /\ new \in Seq(Seq(Edges(prog)))
           /\ Extends(Ways, h, room, kept, new)
<1>1. PICK w : w = Ways
  OBVIOUS
<1>2. w.edges = Edges(prog) /\ IsOpen(w, h)
  BY <1>1 DEF Ways
<1>3. PICK T : T = Seq(w.edges)
  OBVIOUS
<1>4. /\ \A r : r \in Longer(h) <=> Child(w, h, r)
      /\ \A r \in Longer(h) : /\ End(r) = to => IsGoal(w, r)
                              /\ End(r) # to => IsOpen(w, r)
                              /\ IsGoal(w, r) => End(r) = to
                              /\ IsOpen(w, r) => End(r) # to
  BY <1>1, LongerIsChild
<1>5. IsFiniteSet(Longer(h))
  <2>1. PICK E : E = {g \in Out(prog, End(h)) : g.callee \notin On(h)}
    OBVIOUS
  <2>2. IsFiniteSet(E)
    <3>1. E \subseteq Edges(prog)
      BY <2>1 DEF Out
    <3> QED BY <3>1, EdgesAreFinite, FS_Subset
  <2> DEFINE f == [e \in E |-> Append(h, e)]
  <2>3. f \in Surjection(E, Longer(h))
    <3>1. Longer(h) = {f[e] : e \in E}
      BY <2>1 DEF Longer
    <3>2. f = [e \in E |-> f[e]] /\ DOMAIN f = E
      OBVIOUS
    <3> HIDE DEF f
    <3>3. f \in [E -> Longer(h)]
      BY <3>1, <3>2
    <3> QED BY <3>1, <3>3 DEF Surjection
  <2> HIDE DEF f
  <2> QED BY <2>2, <2>3, FS_Surjection
<1>6. PICK A : A = {p \in Longer(h) : End(p) = to}
  OBVIOUS
<1>7. PICK B : B = {p \in Longer(h) : End(p) # to}
  OBVIOUS
<1>8. IsFiniteSet(A) /\ IsFiniteSet(B)
  BY <1>5, <1>6, <1>7, FS_Subset
<1>9. /\ hits \in Seq(A) /\ Len(hits) = Cardinality(A) /\ ToSet(hits) = A
      /\ \A i, j \in DOMAIN hits : i # j => hits[i] # hits[j]
  BY <1>6, <1>8, AnyOrder, OrderIsInjective
<1>10. /\ new \in Seq(B) /\ ToSet(new) = B
       /\ \A i, j \in DOMAIN new : i # j => new[i] # new[j]
  BY <1>7, <1>8, AnyOrder, OrderIsInjective
<1>11. \A r \in A : Child(w, h, r) /\ IsGoal(w, r) /\ r \in T
  <2>1. \A r \in A : Child(w, h, r) /\ IsGoal(w, r)
    BY <1>4, <1>6
  <2> QED BY <1>3, <2>1 DEF IsGoal, IsTrail
<1>12. \A r \in B : Child(w, h, r) /\ IsOpen(w, r) /\ r \in T
  <2>1. \A r \in B : Child(w, h, r) /\ IsOpen(w, r)
    BY <1>4, <1>7
  <2> QED BY <1>3, <2>1 DEF IsOpen, IsTrail
<1>13. new \in Seq(T)
  <2>1. B \subseteq T
    BY <1>12
  <2> QED BY <1>10, <2>1, SeqMonotonic
<1>14. PICK n \in Nat : n = Len(hits)
  BY <1>9, LenProperties
<1>15. DOMAIN hits = 1..n /\ \A i \in 1..n : hits[i] \in A
  BY <1>9, <1>14, PathProperties
<1>16. PICK m \in Nat : m = IF n < room THEN n ELSE room
  OBVIOUS
<1>17. m <= n /\ m <= room
  BY <1>16
<1>18. \A i \in 1..m : i \in 1..n /\ hits[i] \in T
  BY <1>11, <1>15, <1>17
<1>19. kept = SubSeq(hits, 1, m)
  BY <1>14, <1>16
<1>20. /\ kept \in Seq(T) /\ Len(kept) = (IF 1 <= m THEN m - 1 + 1 ELSE 0)
       /\ \A i \in 1..(m - 1 + 1) : kept[i] = hits[1 + i - 1]
  BY <1>18, <1>19, SubSeqProperties
<1>21. Len(kept) = m /\ \A i \in 1..m : kept[i] = hits[i]
  BY <1>20
<1>22. DOMAIN kept = 1..m
  BY <1>20, <1>21, LenProperties
<1>23. \A i \in DOMAIN kept : i \in DOMAIN hits /\ kept[i] = hits[i] /\ kept[i] \in A
  BY <1>15, <1>18, <1>21, <1>22
<1>24. \A i \in DOMAIN kept : Child(w, h, kept[i]) /\ IsGoal(w, kept[i])
  BY <1>11, <1>23
<1>25. \A i \in DOMAIN new : Child(w, h, new[i]) /\ IsOpen(w, new[i])
  <2>1. \A i \in DOMAIN new : new[i] \in B
    BY <1>10 DEF ToSet
  <2> QED BY <1>12, <2>1
<1>26. \A i, j \in DOMAIN kept : i # j => kept[i] # kept[j]
  BY <1>9, <1>23
<1>27. \A r : Child(w, h, r) /\ IsOpen(w, r) => r \in ToSet(new)
  BY <1>4, <1>7, <1>10
<1>28. Len(kept) <= room
  BY <1>17, <1>21
<1>29. Len(kept) = room \/ \A r : Child(w, h, r) /\ IsGoal(w, r) => r \in ToSet(kept)
  <2>1. CASE n < room
    <3>1. m = n
      BY <1>16, <2>1
    <3>2. \A i \in DOMAIN hits : i \in DOMAIN kept /\ kept[i] = hits[i]
      BY <1>15, <1>21, <1>22, <3>1
    <3>3. A \subseteq ToSet(kept)
      BY <1>9, <3>2 DEF ToSet
    <3> QED BY <1>4, <1>6, <3>3
  <2>2. CASE ~(n < room)
    BY <1>16, <1>21, <2>2
  <2> QED BY <2>1, <2>2
<1>30. Extends(w, h, room, kept, new)
  BY <1>10, <1>24, <1>25, <1>26, <1>27, <1>28, <1>29 DEF Extends
<1> QED BY <1>1, <1>2, <1>3, <1>13, <1>20, <1>30

PathsInv ==
    request.tool = "paths" /\ pc \in {"run", "done"} =>
        /\ Len(resolved) = 2
        /\ pc = "run" => \A i \in 1..2 : resolved[i].prog = prog
        /\ resolved[1].prog = resolved[2].prog =>
               /\ Exploring(Ways, queue, paths)
               /\ pc = "done" =>
                      /\ queue = <<>> \/ Len(paths) >= request.paths
                      /\ reason = IF Len(paths) >= request.paths THEN "max_paths"
                                  ELSE IF paths = <<>> THEN "none" ELSE ""

LEMMA WaysAreGood ==
    ASSUME CallsInv, request.tool = "paths"
    PROVE  /\ maxDepth \in Nat \ {0} /\ request.paths \in Nat \ {0}
           /\ Ways.edges = Edges(prog) /\ Ways.limit = maxDepth /\ Ways.count = request.paths
<1>1. maxDepth \in Nat \ {0}
  BY DepthIsPositive
<1>2. request.paths \in Nat \ {0}
  BY PathCountsAssumption DEF CallsInv, Requests
<1> QED BY <1>1, <1>2 DEF Ways

LEMMA TwoResolved ==
    ASSUME CallsInv, Len(resolved) = 2
    PROVE  resolved[2].prog = prog
<1>1. PICK T : T = [prog : {"narrow", "broad"}, fn : Funcs]
  OBVIOUS
<1>2. resolved \in Seq(T)
  BY <1>1 DEF CallsInv
<1>3. resolved # <<>>
  BY <1>2, PathProperties
<1>4. Last(resolved) = resolved[2]
  BY DEF Last
<1> QED BY <1>3, <1>4 DEF CallsInv

(* The search begins with the path that has no edge.                       *)
LEMMA SearchBegins ==
    ASSUME NEW w, w.count \in Nat, NEW line, line = <<<<>>>>, NEW done, done = <<>>
    PROVE  Exploring(w, line, done)
<1>1. PICK T : T = Seq(w.edges)
  OBVIOUS
<1>2. PICK e : e = <<>>
  OBVIOUS
<1>3. \A U : \A s : s = <<>> => s \in Seq(U) /\ Len(s) = 0 /\ DOMAIN s = {}
  OBVIOUS
<1>4. e \in T /\ Len(e) = 0 /\ DOMAIN e = {}
  BY <1>1, <1>2, <1>3
<1>5. line \in Seq(T) /\ DOMAIN line = {1} /\ line[1] = e
  <2>1. line = <<e>>
    BY <1>2
  <2> QED BY <1>4, <2>1
<1>6. done \in Seq(T) /\ Len(done) = 0 /\ DOMAIN done = {}
  BY <1>3
<1>7. IsOpen(w, e)
  BY <1>1, <1>4 DEF IsOpen, IsTrail
<1>8. Sorted2(line, done)
  BY <1>4, <1>5, <1>6 DEF Sorted2
<1>9. Apart(line, done)
  BY <1>5, <1>6 DEF Apart
<1>10. ASSUME NEW p, IsGoal(w, p) PROVE Covers(e, p)
  <2>1. p \in Seq(w.edges)
    BY <1>10 DEF IsGoal, IsTrail
  <2>2. Len(p) \in Nat
    BY <2>1, LenProperties
  <2> QED BY <1>4, <2>2 DEF Covers
<1>11. Complete(w, line, done)
  BY <1>5, <1>10 DEF Complete
<1> QED BY <1>1, <1>5, <1>6, <1>7, <1>8, <1>9, <1>11 DEF Exploring

LEMMA StartPathsKeeps ==
    ASSUME CallsInv, Untouched, StartPaths
    PROVE  PathsInv'
<1>1. /\ UNCHANGED <<request, calls, prog, resolved, paths, reason>>
      /\ request.tool = "paths" /\ pc = "resolve" /\ Len(resolved) = Names
      /\ IF \A i \in 1..2 : resolved[i].prog = prog
         THEN pc' = "run" /\ queue' = <<<<>>>>
         ELSE pc' = "done" /\ UNCHANGED queue
  BY DEF StartPaths
<1>2. Len(resolved) = 2
  BY <1>1 DEF Names
<1>3. queue = <<>> /\ paths = <<>>
  BY <1>1 DEF Untouched
<1>4. Ways' = Ways
  BY <1>1 DEF Ways, Edges, Known, from, to, maxDepth
<1>5. CASE \A i \in 1..2 : resolved[i].prog = prog
  <2>1. pc' = "run" /\ queue' = <<<<>>>>
    BY <1>1, <1>5
  <2>2. PICK line : line = queue'
    OBVIOUS
  <2>3. PICK w : w = Ways
    OBVIOUS
  <2>4. w.count \in Nat
    BY <1>1, <2>3, WaysAreGood
  <2>5. Exploring(w, line, paths)
    BY <1>3, <2>1, <2>2, <2>4, SearchBegins
  <2>6. Exploring(Ways, queue', paths')
    BY <1>1, <2>2, <2>3, <2>5
  <2> QED BY <1>1, <1>2, <1>4, <1>5, <2>1, <2>6 DEF PathsInv
<1>6. CASE ~(\A i \in 1..2 : resolved[i].prog = prog)
  <2>1. pc' = "done"
    BY <1>1, <1>6
  <2>2. resolved[2].prog = prog
    BY <1>2, TwoResolved
  <2>3. resolved[1].prog # resolved[2].prog
    <3>1. \A i \in 1..2 : i = 1 \/ i = 2
      OBVIOUS
    <3> QED BY <1>6, <2>2, <3>1
  <2> QED BY <1>1, <1>2, <2>1, <2>3 DEF PathsInv
<1> QED BY <1>5, <1>6

LEMMA DequeuePathKeeps ==
    ASSUME CallsInv, PathsInv, DequeuePath
    PROVE  PathsInv'
<1>1. /\ UNCHANGED <<request, calls, pc, prog, resolved, reason>>
      /\ request.tool = "paths" /\ pc = "run"
      /\ queue # <<>> /\ Len(paths) < request.paths
  BY DEF DequeuePath
<1>2. /\ Len(resolved) = 2 /\ \A i \in 1..2 : resolved[i].prog = prog
      /\ Exploring(Ways, queue, paths)
  BY <1>1 DEF PathsInv
<1>3. Ways' = Ways
  BY <1>1 DEF Ways, Edges, Known, from, to, maxDepth
<1>4. PICK w : w = Ways
  OBVIOUS
<1>5. /\ maxDepth \in Nat /\ request.paths \in Nat /\ w.edges = Edges(prog)
      /\ w.limit = maxDepth /\ w.count = request.paths
  BY <1>1, <1>4, WaysAreGood
<1>6. Exploring(w, queue, paths)
  BY <1>2, <1>4
<1>7. PICK T : T = Seq(w.edges)
  OBVIOUS
<1>8. queue \in Seq(T) /\ paths \in Seq(T)
  BY <1>6, <1>7 DEF Exploring
<1>9. PICK rest : rest = Tail(queue)
  OBVIOUS
<1>10. Head(queue) = queue[1] /\ rest \in Seq(T) /\ IsTailOf(rest, queue)
  BY <1>1, <1>8, <1>9, TailOf
<1>11. IsOpen(w, queue[1])
  <2>1. 1 \in DOMAIN queue
    BY <1>10 DEF IsTailOf
  <2> QED BY <1>6, <2>1 DEF Exploring
<1>12. PICK h : h = Head(queue)
  OBVIOUS
<1>13. PICK n \in Nat : n = Len(h)
  <2>1. h \in Seq(w.edges)
    BY <1>10, <1>11, <1>12 DEF IsOpen, IsTrail
  <2> QED BY <2>1, LenProperties
<1>14. CASE Len(Head(queue)) >= maxDepth
  <2>1. queue' = rest /\ paths' = paths
    BY <1>9, <1>14 DEF DequeuePath
  <2>2. Len(queue[1]) >= w.limit
    BY <1>5, <1>10, <1>14
  <2>3. Exploring(w, rest, paths)
    BY <1>5, <1>6, <1>7, <1>10, <2>2, DropPath
  <2> QED BY <1>1, <1>2, <1>3, <1>4, <2>1, <2>3 DEF PathsInv
<1>15. CASE ~(Len(Head(queue)) >= maxDepth)
  <2>1. PICK hits \in SetToSeqs({p \in Longer(h) : End(p) = to}) :
        \E new \in SetToSeqs({p \in Longer(h) : End(p) # to}) : Extend(hits, new)
    BY <1>12, <1>15 DEF DequeuePath
  <2>2. PICK new \in SetToSeqs({p \in Longer(h) : End(p) # to}) : Extend(hits, new)
    BY <2>1
  <2>3. PICK room \in Nat : room = request.paths - Len(paths)
    <3>1. Len(paths) \in Nat
      BY <1>8, LenProperties
    <3>2. request.paths - Len(paths) \in Nat
      BY <1>1, <1>5, <3>1
    <3> QED BY <3>2
  <2>4. PICK kept : kept = SubSeq(hits, 1, IF Len(hits) < room THEN Len(hits) ELSE room)
    OBVIOUS
  <2>5. paths' = paths \o kept /\ queue' = rest \o new
    BY <1>9, <2>2, <2>3, <2>4 DEF Extend, Requeue
  <2>6. Len(h) < maxDepth
    BY <1>5, <1>12, <1>13, <1>15
  <2>7. IsOpen(Ways, h)
    BY <1>4, <1>10, <1>11, <1>12
  <2>8. /\ kept \in Seq(Seq(Edges(prog))) /\ new \in Seq(Seq(Edges(prog)))
        /\ Extends(Ways, h, room, kept, new)
    BY <1>5, <2>1, <2>2, <2>3, <2>4, <2>6, <2>7, OrdersExtend
  <2>9. kept \in Seq(T) /\ new \in Seq(T) /\ Extends(w, queue[1], w.count - Len(paths), kept, new)
    BY <1>4, <1>5, <1>7, <1>10, <1>12, <2>3, <2>8
  <2>10. PICK line2 : line2 = rest \o new
    OBVIOUS
  <2>11. PICK done2 : done2 = paths \o kept
    OBVIOUS
  <2>12. w.limit \in Nat /\ w.count \in Nat /\ Len(queue[1]) < w.limit /\ Len(paths) < w.count
    BY <1>1, <1>5, <1>10, <1>12, <2>6
  <2>13. Exploring(w, line2, done2)
    BY <1>6, <1>7, <1>10, <2>9, <2>10, <2>11, <2>12, ExtendPath
  <2> QED BY <1>1, <1>2, <1>3, <1>4, <2>5, <2>10, <2>11, <2>13 DEF PathsInv
<1> QED BY <1>14, <1>15

LEMMA FinishPathsKeeps ==
    ASSUME CallsInv, PathsInv, FinishPaths
    PROVE  PathsInv'
<1>1. /\ UNCHANGED <<request, calls, prog, resolved, queue, paths>>
      /\ request.tool = "paths" /\ pc = "run" /\ pc' = "done"
      /\ queue = <<>> \/ Len(paths) >= request.paths
      /\ reason' = IF Len(paths) >= request.paths THEN "max_paths"
                   ELSE IF paths = <<>> THEN "none" ELSE ""
  BY DEF FinishPaths
<1>2. /\ Len(resolved) = 2 /\ \A i \in 1..2 : resolved[i].prog = prog
      /\ Exploring(Ways, queue, paths)
  <2>1. request.tool = "paths" /\ pc = "run"
    BY <1>1
  <2> QED BY <2>1 DEF PathsInv
<1>3. Ways' = Ways
  BY <1>1 DEF Ways, Edges, Known, from, to, maxDepth
<1>4. Exploring(Ways', queue', paths')
  BY <1>1, <1>2, <1>3
<1>5. /\ queue' = <<>> \/ Len(paths') >= request'.paths
      /\ reason' = IF Len(paths') >= request'.paths THEN "max_paths"
                   ELSE IF paths' = <<>> THEN "none" ELSE ""
  BY <1>1
<1>6. pc' # "run" /\ Len(resolved') = 2
  BY <1>1, <1>2
<1> QED BY <1>4, <1>5, <1>6 DEF PathsInv

LEMMA NextPaths ==
    ASSUME CallsInv, Untouched, PathsInv, [NextCalls]_cgvars
    PROVE  PathsInv'
<1>1. CASE \E q \in Queries, loads \in BOOLEAN : Resolve(q, loads)
  <2>1. pc' \in {"resolve", "failed"}
    BY <1>1, ResolveKeeps
  <2> QED BY <2>1 DEF PathsInv
<1>2. CASE StartPaths
  BY <1>2, StartPathsKeeps
<1>3. CASE DequeuePath
  BY <1>3, DequeuePathKeeps
<1>4. CASE FinishPaths
  BY <1>4, FinishPathsKeeps
<1>5. CASE StartWalk \/ WalkEdge \/ WalkReturns \/ StartDead
           \/ (\E f \in Funcs : Visit(f)) \/ FinishDead
  <2>1. request' = request /\ request.tool # "paths"
    BY <1>5 DEF StartWalk, WalkEdge, WalkReturns, Walks, StartDead, Visit, FinishDead
  <2> QED BY <2>1 DEF PathsInv
<1>6. CASE UNCHANGED cgvars
  <2>1. UNCHANGED <<request, calls, pc, prog, resolved, queue, paths, reason>>
    BY <1>6 DEF cgvars
  <2>2. Ways' = Ways
    BY <2>1 DEF Ways, Edges, Known, from, to, maxDepth
  <2> QED BY <2>1, <2>2 DEF PathsInv
<1> QED BY <1>1, <1>2, <1>3, <1>4, <1>5, <1>6 DEF NextCalls

LEMMA InitPaths == InitCalls => PathsInv
BY DEF InitCalls, PathsInv

(* The paths with n edges, when there is a way that ends at to at all.     *)
TrailSet(w, n) ==
    IF n > 0 /\ w.from = w.to THEN {} ELSE {p \in Seq(w.edges) : IsTrail(w, p) /\ Len(p) = n}

LEMMA TrailsGoOn ==
    ASSUME NEW w, NEW n \in Nat, NEW r
    PROVE  r \in TrailSet(w, n + 1) <=>
               \E q \in TrailSet(w, n) : EndOf(w, q) # w.to /\ Child(w, q, r)
<1>1. ASSUME NEW q \in TrailSet(w, n), EndOf(w, q) # w.to, Child(w, q, r)
      PROVE  r \in TrailSet(w, n + 1)
  <2>1. q \in Seq(w.edges) /\ IsTrail(w, q) /\ Len(q) = n
    BY <1>1 DEF TrailSet
  <2>2. DOMAIN q = 1..n /\ (q = <<>> <=> n = 0)
    BY <2>1, PathProperties
  <2>3. w.from # w.to
    BY <1>1, <2>1, <2>2 DEF TrailSet, EndOf
  <2>4. ASSUME NEW i \in DOMAIN q PROVE q[i].callee # w.to
    <3>1. i < Len(q) \/ i = Len(q)
      BY <2>1, <2>2
    <3>2. q # <<>>
      BY <2>2
    <3> QED BY <1>1, <2>1, <3>1, <3>2 DEF IsTrail, EndOf
  <2>5. IsOpen(w, q)
    BY <2>1, <2>4 DEF IsOpen
  <2>6. r \in Seq(w.edges) /\ Len(r) = n + 1 /\ IsTrail(w, r)
    BY <1>1, <2>1, <2>5, ChildFacts
  <2> QED BY <2>3, <2>6 DEF TrailSet
<1>2. ASSUME r \in TrailSet(w, n + 1)
      PROVE  \E q \in TrailSet(w, n) : EndOf(w, q) # w.to /\ Child(w, q, r)
  <2>1. n + 1 > 0
    OBVIOUS
  <2>2. r \in Seq(w.edges) /\ IsTrail(w, r) /\ Len(r) = n + 1 /\ w.from # w.to
    BY <1>2, <2>1 DEF TrailSet
  <2>3. r # <<>>
    BY <2>2, PathProperties
  <2>4. PICK E : E = w.edges
    OBVIOUS
  <2>5. PICK q : q = Front(r)
    OBVIOUS
  <2>6. /\ q \in Seq(E) /\ Len(q) = n /\ DOMAIN q = 1..n /\ DOMAIN r = 1..(n + 1)
        /\ \A i \in 1..n : q[i] = r[i]
    <3>1. /\ Len(r) \in Nat \ {0} /\ DOMAIN r = 1..Len(r)
          /\ q \in Seq(E) /\ Len(q) = Len(r) - 1 /\ DOMAIN q = 1..(Len(r) - 1)
          /\ \A i \in 1..(Len(r) - 1) : q[i] = r[i]
      BY <2>2, <2>3, <2>4, <2>5, LastAndFront
    <3>2. Len(r) - 1 = n
      BY <2>2
    <3> QED BY <2>2, <3>1, <3>2
  <2>7. ASSUME NEW i \in DOMAIN q
        PROVE  /\ q[i].caller = IF i = 1 THEN w.from ELSE q[i - 1].callee
               /\ q[i].callee # w.from
               /\ \A j \in DOMAIN q : j < i => q[j].callee # q[i].callee
               /\ q[i].callee # w.to
    <3>1. i \in DOMAIN r /\ i < Len(r) /\ q[i] = r[i]
      BY <2>2, <2>6
    <3>2. i # 1 => i - 1 \in 1..n
      BY <2>6
    <3>3. \A j \in DOMAIN q : j \in DOMAIN r /\ q[j] = r[j]
      BY <2>6
    <3> QED BY <2>2, <2>6, <3>1, <3>2, <3>3 DEF IsTrail
  <2>8. IsOpen(w, q)
    BY <2>4, <2>6, <2>7 DEF IsOpen, IsTrail
  <2>9. Covers(q, r)
    BY <2>2, <2>6 DEF Covers
  <2>10. Len(r) # Len(q)
    BY <2>2, <2>6
  <2>11. r[n + 1] \in Onward(w, q) /\ r = Append(q, r[n + 1])
    BY <2>2, <2>6, <2>8, <2>9, <2>10, GoesThrough
  <2>12. Child(w, q, r)
    BY <2>11 DEF Child
  <2>13. EndOf(w, q) # w.to
    <3>1. q = <<>> <=> n = 0
      BY <2>6, PathProperties
    <3>2. n # 0 => n \in DOMAIN q
      BY <2>6
    <3> QED BY <2>2, <2>6, <2>7, <3>1, <3>2 DEF EndOf
  <2>14. q \in TrailSet(w, n)
    BY <2>2, <2>4, <2>6, <2>8 DEF TrailSet, IsOpen
  <2> QED BY <2>12, <2>13, <2>14
<1> QED BY <1>1, <1>2

(* SimplePaths, one length after the other, has exactly the paths wanted.  *)
LEMMA SimplePathsAreGoals ==
    ASSUME CallsInv, request.tool = "paths"
    PROVE  \A p : p \in SimplePaths <=> IsGoal(Ways, p)
<1>1. PICK w : w = Ways
  OBVIOUS
<1>2. /\ w.edges = Edges(prog) /\ w.from = from /\ w.to = to /\ w.limit = maxDepth
  BY <1>1 DEF Ways
<1>3. PICK N \in Nat \ {0} : N = maxDepth
  BY WaysAreGood
<1> DEFINE Onwards(S) == UNION {{Append(p, e) : e \in {g \in Out(prog, End(p)) : g.callee \notin On(p)}} :
                                   p \in {q \in S : End(q) # to}}
           Body(L) == [n \in 0..maxDepth |-> IF n = 0 THEN {<<>>} ELSE Onwards(L[n - 1])]
           Limit == CHOOSE L : L = Body(L)
           M == [n \in 0..maxDepth |-> TrailSet(w, n)]
<1>4. SimplePaths = {p \in UNION {Limit[n] : n \in 1..maxDepth} : End(p) = to}
  BY DEF SimplePaths
<1>5. \A q \in Seq(w.edges) : EndOf(w, q) = End(q)
  BY <1>2 DEF EndOf, End, Last
<1>6. \A q \in Seq(w.edges) : \A r :
          Child(w, q, r) <=> r \in {Append(q, e) : e \in {g \in Out(prog, End(q)) : g.callee \notin On(q)}}
  <2>1. SUFFICES ASSUME NEW q \in Seq(w.edges)
                 PROVE  \A r : Child(w, q, r) <=>
                            r \in {Append(q, e) : e \in {g \in Out(prog, End(q)) : g.callee \notin On(q)}}
    OBVIOUS
  <2>2. Onward(w, q) = {e \in Out(prog, End(q)) : e.callee \notin On(q)}
    BY <1>2, <1>5 DEF Onward, Out, On
  <2> QED BY <2>2 DEF Child
<1>7. \A n \in Nat : TrailSet(w, n) \subseteq Seq(w.edges)
  BY DEF TrailSet
<1>8. ASSUME NEW n \in Nat PROVE TrailSet(w, n + 1) = Onwards(TrailSet(w, n))
  <2>1. \A r : r \in TrailSet(w, n + 1) <=>
               \E q \in TrailSet(w, n) : EndOf(w, q) # w.to /\ Child(w, q, r)
    BY TrailsGoOn
  <2>2. \A r : r \in Onwards(TrailSet(w, n)) <=>
               \E q \in TrailSet(w, n) : EndOf(w, q) # w.to /\ Child(w, q, r)
    BY <1>2, <1>5, <1>6, <1>7
  <2> HIDE DEF Onwards
  <2> QED BY <2>1, <2>2
<1>9. TrailSet(w, 0) = {<<>>}
  <2>1. \A s : s = <<>> => s \in Seq(w.edges) /\ Len(s) = 0 /\ DOMAIN s = {}
    OBVIOUS
  <2>2. \A s : s = <<>> => IsTrail(w, s)
    BY <2>1 DEF IsTrail
  <2>3. \A s \in Seq(w.edges) : Len(s) = 0 => s = <<>>
    BY PathProperties
  <2>4. TrailSet(w, 0) = {p \in Seq(w.edges) : IsTrail(w, p) /\ Len(p) = 0}
    BY DEF TrailSet
  <2> QED BY <2>1, <2>2, <2>3, <2>4
<1> HIDE DEF Onwards
<1>10. M = Body(M)
  <2>1. \A n \in 0..maxDepth : n # 0 => n - 1 \in Nat /\ n - 1 \in 0..maxDepth /\ n - 1 + 1 = n
    BY <1>3
  <2>2. \A n \in 0..maxDepth : n # 0 => M[n - 1] = TrailSet(w, n - 1)
    BY <2>1
  <2>3. \A n \in 0..maxDepth : n # 0 => TrailSet(w, n) = Onwards(M[n - 1])
    BY <1>8, <2>1, <2>2
  <2> QED BY <1>9, <2>3
<1>11. PICK L : L = Limit
  OBVIOUS
<1> HIDE DEF Body, M
<1>12. L = Body(L)
  BY <1>10, <1>11
<1>13. /\ L[0] = {<<>>} /\ \A n \in 0..N : n # 0 => L[n] = Onwards(L[n - 1])
  <2>1. 0 \in 0..maxDepth
    BY <1>3
  <2> QED BY <1>3, <1>12, <2>1 DEF Body
<1> HIDE DEF Limit
<1> DEFINE G == {n \in Nat : n <= N => L[n] = TrailSet(w, n)}
<1>14. 0 \in G
  BY <1>9, <1>13
<1>15. ASSUME NEW n \in Nat, n \in G PROVE n + 1 \in G
  <2>1. SUFFICES ASSUME n + 1 <= N PROVE L[n + 1] = TrailSet(w, n + 1)
    OBVIOUS
  <2>2. n + 1 \in 0..N /\ n + 1 # 0 /\ n + 1 - 1 = n /\ L[n] = TrailSet(w, n)
    BY <1>15, <2>1
  <2>3. L[n + 1] = Onwards(L[n])
    BY <1>13, <2>2
  <2> QED BY <1>8, <2>2, <2>3
<1>16. Nat \subseteq G
  <2> HIDE DEF G
  <2> QED BY <1>14, <1>15, Induction
<1>17. \A n \in 1..N : L[n] = TrailSet(w, n)
  BY <1>16
<1>18. \A p : p \in SimplePaths <=> (\E n \in 1..N : p \in TrailSet(w, n)) /\ End(p) = to
  BY <1>3, <1>4, <1>11, <1>17
<1>19. ASSUME NEW p, NEW n \in 1..N, p \in TrailSet(w, n), End(p) = to PROVE IsGoal(w, p)
  <2>1. p \in Seq(w.edges) /\ IsTrail(w, p) /\ Len(p) = n
    BY <1>19 DEF TrailSet
  <2>2. p # <<>>
    BY <2>1, PathProperties
  <2>3. p[Len(p)].callee = w.to
    BY <1>2, <1>19, <2>2 DEF End, Last
  <2> QED BY <1>2, <1>3, <2>1, <2>3 DEF IsGoal
<1>20. ASSUME NEW p, IsGoal(w, p) PROVE (\E n \in 1..N : p \in TrailSet(w, n)) /\ End(p) = to
  <2>1. IsTrail(w, p) /\ p \in Seq(w.edges) /\ Len(p) \in 1..N /\ p[Len(p)].callee = w.to
    BY <1>2, <1>3, <1>20 DEF IsGoal, IsTrail
  <2>2. p # <<>> /\ Len(p) \in DOMAIN p
    BY <2>1, PathProperties
  <2>3. End(p) = to
    BY <1>2, <2>1, <2>2 DEF End, Last
  <2>4. w.from # w.to
    BY <2>1, <2>2 DEF IsTrail
  <2>5. p \in TrailSet(w, Len(p))
    BY <2>1, <2>4 DEF TrailSet
  <2> QED BY <2>1, <2>3, <2>5
<1> QED BY <1>1, <1>18, <1>19, <1>20

LEMMA PathsAreRight ==
    ASSUME CallsInv, PathsInv
    PROVE  PathsExact
<1> SUFFICES ASSUME request.tool = "paths", pc = "done", resolved[1].prog = resolved[2].prog
             PROVE  /\ IsInjective(paths)
                    /\ ToSet(paths) \subseteq SimplePaths
                    /\ \A i, j \in DOMAIN paths : i < j => Len(paths[i]) <= Len(paths[j])
                    /\ IF reason = "max_paths"
                       THEN /\ Len(paths) = request.paths
                            /\ \A p \in SimplePaths \ ToSet(paths) : Len(p) >= Len(Last(paths))
                       ELSE ToSet(paths) = SimplePaths /\ (reason = "none" <=> paths = <<>>)
  BY DEF PathsExact
<1>1. PICK w : w = Ways
  OBVIOUS
<1>2. /\ Exploring(w, queue, paths)
      /\ queue = <<>> \/ Len(paths) >= request.paths
      /\ reason = IF Len(paths) >= request.paths THEN "max_paths"
                  ELSE IF paths = <<>> THEN "none" ELSE ""
  BY <1>1 DEF PathsInv
<1>3. w.count = request.paths /\ request.paths \in Nat \ {0}
  BY <1>1, WaysAreGood
<1>4. \A p : p \in SimplePaths <=> IsGoal(w, p)
  BY <1>1, SimplePathsAreGoals
<1>5. PICK T : T = Seq(w.edges)
  OBVIOUS
<1>6. queue \in Seq(T) /\ paths \in Seq(T)
  BY <1>2, <1>5 DEF Exploring
<1>7. Len(paths) \in Nat /\ DOMAIN paths = 1..Len(paths) /\ (paths = <<>> <=> Len(paths) = 0)
  BY <1>6, PathProperties
<1>8. IsInjective(paths)
  BY <1>2 DEF Exploring, Apart, IsInjective
<1>9. ToSet(paths) \subseteq SimplePaths
  BY <1>2, <1>4 DEF Exploring, ToSet
<1>10. \A i, j \in DOMAIN paths : i < j => Len(paths[i]) <= Len(paths[j])
  BY <1>2 DEF Exploring, Sorted2
<1>11. Len(paths) <= w.count
  BY <1>2 DEF Exploring
<1>12. \A p \in SimplePaths :
          \/ p \in ToSet(paths)
          \/ \E j \in DOMAIN queue : Covers(queue[j], p)
          \/ Len(paths) = w.count /\ \A i \in DOMAIN paths : Len(paths[i]) <= Len(p)
  BY <1>2, <1>4 DEF Exploring, Complete
<1>13. CASE reason = "max_paths"
  <2>1. Len(paths) >= request.paths
    BY <1>2, <1>13
  <2>2. Len(paths) = request.paths /\ Len(paths) \in DOMAIN paths /\ Last(paths) = paths[Len(paths)]
    BY <1>3, <1>7, <1>11, <2>1 DEF Last
  <2>3. ASSUME NEW p \in SimplePaths \ ToSet(paths) PROVE Len(p) >= Len(Last(paths))
    <3>1. IsGoal(w, p) /\ p \in Seq(w.edges) /\ Len(p) \in Nat /\ DOMAIN p = 1..Len(p)
      <4>1. IsGoal(w, p) /\ p \in Seq(w.edges)
        BY <1>4, <2>3 DEF IsGoal, IsTrail
      <4> QED BY <4>1, LenProperties
    <3>2. PICK last : last = paths[Len(paths)]
      OBVIOUS
    <3>3. Len(last) \in Nat
      <4>1. last \in Seq(w.edges)
        BY <1>2, <2>2, <3>2 DEF Exploring, IsGoal, IsTrail
      <4> QED BY <4>1, LenProperties
    <3>4. CASE \E j \in DOMAIN queue : Covers(queue[j], p)
      <4>1. PICK j \in DOMAIN queue : Covers(queue[j], p)
        BY <3>4
      <4>2. PICK q : q = queue[j]
        OBVIOUS
      <4>3. IsOpen(w, q) /\ q \in Seq(w.edges)
        BY <1>2, <4>2 DEF Exploring, IsOpen, IsTrail
      <4>4. Len(last) <= Len(q) + 1
        BY <1>2, <2>2, <3>2, <4>2 DEF Exploring, Sorted2
      <4>5. Len(q) \in Nat /\ Len(q) <= Len(p)
        BY <4>1, <4>2, <4>3, LenProperties DEF Covers
      <4>6. Len(q) # Len(p)
        <5>1. SUFFICES ASSUME Len(q) = Len(p) PROVE FALSE
          OBVIOUS
        <5>2. q = p
          BY <3>1, <4>1, <4>2, <4>3, <5>1, CoversFacts
        <5>3. Len(p) \in DOMAIN p /\ p[Len(p)].callee = w.to
          BY <3>1 DEF IsGoal
        <5> QED BY <4>3, <5>2, <5>3 DEF IsOpen
      <4> QED BY <2>2, <3>1, <3>2, <3>3, <4>4, <4>5, <4>6
    <3>5. CASE \A i \in DOMAIN paths : Len(paths[i]) <= Len(p)
      BY <2>2, <3>1, <3>2, <3>3, <3>5
    <3> QED BY <1>12, <2>3, <3>4, <3>5
  <2> QED BY <1>8, <1>9, <1>10, <1>13, <2>2, <2>3
<1>14. CASE reason # "max_paths"
  <2>1. ~(Len(paths) >= request.paths)
    BY <1>2, <1>14
  <2>2. queue = <<>> /\ Len(paths) # w.count
    <3>1. queue = <<>>
      BY <1>2, <2>1
    <3>2. PICK n : n = Len(paths)
      OBVIOUS
    <3>3. n \in Nat /\ ~(n >= w.count) /\ w.count \in Nat
      BY <1>3, <1>7, <2>1, <3>2
    <3>4. n # w.count
      BY <3>3
    <3> QED BY <3>1, <3>2, <3>4
  <2>3. DOMAIN queue = {}
    <3>1. \A s : s = <<>> => DOMAIN s = {}
      OBVIOUS
    <3> QED BY <2>2, <3>1
  <2>4. SimplePaths \subseteq ToSet(paths)
    BY <1>12, <2>2, <2>3
  <2>5. reason = IF paths = <<>> THEN "none" ELSE ""
    BY <1>2, <2>1
  <2>6. reason = "none" <=> paths = <<>>
    BY <2>5
  <2>7. ToSet(paths) = SimplePaths
    <3> HIDE DEF SimplePaths, ToSet
    <3> QED BY <1>9, <2>4
  <2> HIDE DEF SimplePaths, ToSet
  <2> QED BY <1>8, <1>9, <1>10, <1>14, <2>6, <2>7
<1> QED BY <1>13, <1>14

(* find_call_path: whatever the call graph, the limits and the order of    *)
(* the edges, the answer has every path wanted, or as many as were asked   *)
(* for and none that is longer than one left out.                          *)
THEOREM PathsAreExact == SpecCalls => []PathsExact
BY InitCallsInv, NextCallsInv, InitPaths, NextPaths, PathsAreRight, PTL DEF SpecCalls

-----------------------------------------------------------------------------
(* Types.                                                                  *)

Reasons == reason \in {"", "max_paths", "none"}

LEMMA NextReasons ==
    Reasons /\ [NextCalls]_cgvars => Reasons'
<1> SUFFICES ASSUME Reasons, [NextCalls]_cgvars PROVE Reasons'
  OBVIOUS
<1>1. CASE FinishPaths
  BY <1>1 DEF FinishPaths, Reasons
<1>2. CASE ~FinishPaths
  <2>1. reason' = reason
    BY <1>2 DEF NextCalls, Resolve, StartWalk, WalkEdge, WalkReturns, StartPaths, DequeuePath,
                StartDead, Visit, FinishDead, pathVars, cgvars
  <2> QED BY <2>1 DEF Reasons
<1> QED BY <1>1, <1>2

(* A walk notes functions and calls of the program it was started in.      *)
LEMMA WalkIsKnown ==
    ASSUME CallsInv, Untouched, WalkInv
    PROVE  /\ DOMAIN seenNodes \subseteq Known(prog)
           /\ DOMAIN seenEdges \subseteq Known(prog) \X Known(prog)
<1>1. CASE Walks /\ pc \in {"run", "done"}
  <2>1. Walking(Walk, seenNodes, seenEdges, ToSet(walks)) /\ Len(resolved) = 1
    BY <1>1 DEF WalkInv
  <2>2. IsWalk(Walk)
    BY <1>1, <2>1, WalkIsGood
  <2>3. PICK w : w = Walk
    OBVIOUS
  <2>4. w.nodes = Known(prog) /\ w.edges = Edges(prog)
    BY <2>3 DEF Walk
  <2>5. Visited(w, seenNodes) /\ WalkRecorded(w, seenEdges)
    BY <2>1, <2>3 DEF Walking
  <2>6. DOMAIN seenNodes \subseteq Known(prog)
    BY <2>4, <2>5 DEF Visited
  <2>7. /\ w.limit - 1 \in Nat /\ w.near \in [Nat -> SUBSET w.nodes]
        /\ w.nexts \in [w.nodes -> SUBSET w.edges]
    BY <2>2, <2>3 DEF IsWalk, Distances, IsGraph
  <2>8. \A e \in Edges(prog) : e.caller \in Known(prog) /\ e.callee \in Known(prog)
    BY KnownFunctions DEF CallsInv
  <2>9. ASSUME NEW c \in DOMAIN seenEdges PROVE c \in Known(prog) \X Known(prog)
    <3>1. PICK f \in w.near[w.limit - 1] : \E e \in w.nexts[f] : c = <<e.caller, e.callee>>
      BY <2>5 DEF WalkRecorded
    <3>2. PICK e \in w.nexts[f] : c = <<e.caller, e.callee>>
      BY <3>1
    <3>3. f \in w.nodes
      BY <2>7, <3>1
    <3>4. e \in Edges(prog)
      BY <2>4, <2>7, <3>2, <3>3
    <3> QED BY <2>8, <3>2, <3>4
  <2> QED BY <2>6, <2>9
<1>2. CASE ~(Walks /\ pc \in {"run", "done"})
  <2>1. seenNodes = <<>> /\ seenEdges = <<>>
    BY <1>2 DEF Untouched, CallsInv
  <2>2. \A s : s = <<>> => DOMAIN s = {}
    OBVIOUS
  <2> QED BY <2>1, <2>2
<1> QED BY <1>1, <1>2

(* So does the search for dead code.                                       *)
LEMMA VisitIsKnown ==
    ASSUME CallsInv, Untouched, DeadInv
    PROVE  reachable \subseteq Known(prog) /\ todo \subseteq Known(prog)
<1>1. CASE request.tool = "dead" /\ pc \in {"run", "done"}
  <2>1. Visiting(Edges(prog), Seeds, reachable, todo)
    BY <1>1 DEF DeadInv
  <2>2. \A e \in Edges(prog) : e.callee \in Known(prog)
    BY KnownFunctions DEF CallsInv
  <2>3. HasLive(Edges(prog), Seeds, Known(prog))
    BY <2>2, SeedsAreKnown DEF HasLive, Callees
  <2> QED BY <2>1, <2>3 DEF Visiting
<1>2. CASE ~(request.tool = "dead" /\ pc \in {"run", "done"})
  BY <1>2 DEF Untouched, CallsInv
<1> QED BY <1>1, <1>2

LEMMA CallsHaveTypes == CallsInv /\ Untouched /\ WalkInv /\ DeadInv /\ Reasons => CallsTypeOK
BY WalkIsKnown, VisitIsKnown DEF CallsInv, Reasons, CallsTypeOK

(* What the call-graph tools visited, found and noted belongs to the       *)
(* program that answered the names of the request.                         *)
THEOREM CallTypes == SpecCalls => []CallsTypeOK
<1>1. InitCalls => Reasons
  BY DEF InitCalls, Blank, Reasons
<1> QED BY <1>1, CallsHaveTypes, InitCallsInv, NextCallsInv, InitWalk, NextWalk, InitDead, NextDead,
           NextReasons, PTL DEF SpecCalls
=============================================================================
