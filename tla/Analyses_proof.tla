--------------------------- MODULE Analyses_proof --------------------------
(***************************************************************************)
(* Analyses that summarise the functions of a program.  The passes of      *)
(* find_orphaned_database_models record every parameter that is handed on  *)
(* to an ORM operation through as many functions as there are passes, in   *)
(* whatever order the functions come: proved for all programs and any      *)
(* number of passes.  detect_concurrency_risks is silent on a program that *)
(* takes one lock before each access: proved for all programs and any      *)
(* depth to which calls are followed.                                      *)
(***************************************************************************)
EXTENDS OrmUsage, ConcurrencyRisks, FiniteSetTheorems, SequenceTheorems, WellFoundedInduction, TLAPS

-----------------------------------------------------------------------------
(* Recursive functions on the numbers.                                     *)

LEMMA SetInduction ==
    ASSUME NEW G, 0 \in G, \A n \in Nat : n \in G => n + 1 \in G
    PROVE  Nat \subseteq G
<1> DEFINE B == Nat \ G
<1>1. SUFFICES ASSUME B # {} PROVE FALSE
  OBVIOUS
<1>2. PICK n \in B : \A m \in B : ~ (<<m, n>> \in OpToRel(<, Nat))
  BY <1>1, WFMin, NatLessThanWellFounded
<1>3. \A m \in B : ~ (m < n)
  BY <1>2 DEF OpToRel
<1>4. n \in Nat /\ n # 0 /\ n - 1 \in Nat /\ n - 1 < n
  OBVIOUS
<1>5. n - 1 \in G
  BY <1>3, <1>4
<1>6. n - 1 + 1 \in G
  BY <1>4, <1>5
<1> QED BY <1>4, <1>6

(* The first n + 1 values of what starts with a and goes on by F.          *)
Unfolds(L, n, a, F) ==
    L = [k \in 0..n |-> IF k = 0 THEN a ELSE F[k - 1][L[k - 1]]]

Sequel(T, S, a, F) ==
    /\ T \in [Nat -> S] /\ T[0] = a
    /\ \A n \in Nat : T[n + 1] = F[n][T[n]]

LEMMA UnfoldsExist ==
    ASSUME NEW S, NEW a \in S, NEW F \in [Nat -> [S -> S]]
    PROVE  \A n \in Nat : \E L \in [0..n -> S] : Unfolds(L, n, a, F)
<1> DEFINE G == {n \in Nat : \E L \in [0..n -> S] : Unfolds(L, n, a, F)}
<1>1. 0 \in G
  <2> DEFINE L == [k \in 0..0 |-> a]
  <2>1. L \in [0..0 -> S] /\ Unfolds(L, 0, a, F)
    BY DEF Unfolds
  <2> HIDE DEF L
  <2> QED BY <2>1
<1>2. ASSUME NEW n \in Nat, n \in G PROVE n + 1 \in G
  <2>1. PICK L \in [0..n -> S] : Unfolds(L, n, a, F)
    BY <1>2
  <2> DEFINE M == [k \in 0..(n + 1) |-> IF k = n + 1 THEN F[n][L[n]] ELSE L[k]]
  <2>2. \A k \in 0..n : L[k] = IF k = 0 THEN a ELSE F[k - 1][L[k - 1]]
    BY <2>1 DEF Unfolds
  <2>3. ASSUME NEW k \in 0..(n + 1)
        PROVE  M[k] \in S /\ M[k] = IF k = 0 THEN a ELSE F[k - 1][M[k - 1]]
    <3>1. CASE k = 0
      <4>1. M[k] = L[0] /\ L[0] = a
        BY <2>2, <3>1
      <4> QED BY <3>1, <4>1
    <3>2. CASE k = n + 1
      <4>1. M[k] = F[n][L[n]] /\ M[k - 1] = L[n] /\ L[n] \in S /\ k - 1 = n
        BY <3>2
      <4> QED BY <3>2, <4>1
    <3>3. CASE k # 0 /\ k # n + 1
      <4>1. /\ M[k] = L[k] /\ M[k - 1] = L[k - 1] /\ L[k - 1] \in S
            /\ L[k] = F[k - 1][L[k - 1]] /\ k - 1 \in Nat
        BY <2>2, <3>3
      <4> QED BY <3>3, <4>1
    <3> QED BY <3>1, <3>2, <3>3
  <2>4. M = [k \in 0..(n + 1) |-> M[k]]
    OBVIOUS
  <2> HIDE DEF M
  <2>5. M = [k \in 0..(n + 1) |-> IF k = 0 THEN a ELSE F[k - 1][M[k - 1]]]
    BY <2>3, <2>4
  <2>6. M \in [0..(n + 1) -> S]
    BY <2>3, <2>4
  <2>7. Unfolds(M, n + 1, a, F)
    BY <2>5 DEF Unfolds
  <2> QED BY <2>6, <2>7
<1>3. Nat \subseteq G
  <2> HIDE DEF G
  <2> QED BY <1>1, <1>2, SetInduction
<1> QED BY <1>3

LEMMA UnfoldsAgree ==
    ASSUME NEW a, NEW F, NEW n \in Nat, NEW L, Unfolds(L, n, a, F),
           NEW m \in Nat, NEW M, Unfolds(M, m, a, F)
    PROVE  \A k \in Nat : k <= n /\ k <= m => L[k] = M[k]
<1> DEFINE G == {k \in Nat : k <= n /\ k <= m => L[k] = M[k]}
<1>1. /\ \A k \in 0..n : L[k] = IF k = 0 THEN a ELSE F[k - 1][L[k - 1]]
      /\ \A k \in 0..m : M[k] = IF k = 0 THEN a ELSE F[k - 1][M[k - 1]]
  BY DEF Unfolds
<1>2. 0 \in G
  BY <1>1
<1>3. ASSUME NEW k \in Nat, k \in G PROVE k + 1 \in G
  <2>1. SUFFICES ASSUME k + 1 <= n, k + 1 <= m PROVE L[k + 1] = M[k + 1]
    OBVIOUS
  <2>2. L[k] = M[k] /\ k + 1 \in 0..n /\ k + 1 \in 0..m /\ k + 1 # 0 /\ k + 1 - 1 = k
    BY <1>3, <2>1
  <2> QED BY <1>1, <2>2
<1>4. Nat \subseteq G
  <2> HIDE DEF G
  <2> QED BY <1>2, <1>3, SetInduction
<1> QED BY <1>4

LEMMA RunExists ==
    ASSUME NEW S, NEW a \in S, NEW F \in [Nat -> [S -> S]]
    PROVE  \E T : Sequel(T, S, a, F)
<1> DEFINE P(n, L) == L \in [0..n -> S] /\ Unfolds(L, n, a, F)
           Choice(n) == CHOOSE L : P(n, L)
           T == [n \in Nat |-> Choice(n)[n]]
<1>1. \A n \in Nat : P(n, Choice(n))
  <2>1. \A n \in Nat : \E L : P(n, L)
    BY UnfoldsExist
  <2> QED BY <2>1
<1> HIDE DEF Choice
<1>2. T \in [Nat -> S]
  <2>1. ASSUME NEW n \in Nat PROVE Choice(n)[n] \in S
    <3>1. Choice(n) \in [0..n -> S] /\ n \in 0..n
      BY <1>1
    <3> QED BY <3>1
  <2> QED BY <2>1
<1>3. T[0] = a
  <2>1. Unfolds(Choice(0), 0, a, F) /\ 0 \in 0..0
    BY <1>1
  <2> QED BY <2>1 DEF Unfolds
<1>4. ASSUME NEW n \in Nat PROVE T[n + 1] = F[n][T[n]]
  <2>1. PICK L : L = Choice(n + 1)
    OBVIOUS
  <2>2. PICK M : M = Choice(n)
    OBVIOUS
  <2>3. Unfolds(L, n + 1, a, F) /\ Unfolds(M, n, a, F) /\ n + 1 \in Nat
    BY <1>1, <2>1, <2>2
  <2>4. L[n] = M[n]
    BY <2>3, UnfoldsAgree
  <2>5. n + 1 \in 0..(n + 1) /\ n + 1 # 0 /\ n + 1 - 1 = n
    OBVIOUS
  <2>6. L[n + 1] = F[n][L[n]]
    BY <2>3, <2>5 DEF Unfolds
  <2> QED BY <2>1, <2>2, <2>3, <2>4, <2>6
<1>5. Sequel(T, S, a, F)
  <2> HIDE DEF T
  <2> QED BY <1>2, <1>3, <1>4 DEF Sequel
<1> QED BY <1>5

-----------------------------------------------------------------------------
(* What an analysed program hands on.                                      *)

Bodies == [AppFuncs -> Seq(AppCalls)]

Pairs == AppFuncs \X ParamIndexes

LEMMA CallFacts ==
    ASSUME app.body \in Bodies, NEW f \in AppFuncs, NEW call \in CallsIn(f)
    PROVE  /\ call \in AppCalls
           /\ \A j \in DOMAIN call.args :
                  /\ j \in Nat /\ call.args[j].param \in Nat
                  /\ call.args[j].param # 0 => call.args[j].param \in ParamIndexes
           /\ \E n \in 1..Len(app.body[f]) : call = app.body[f][n]
<1>1. app.body[f] \in Seq(AppCalls)
  BY DEF Bodies
<1>2. PICK n \in 1..Len(app.body[f]) : call = app.body[f][n]
  BY <1>1, LenProperties DEF CallsIn, ToSet
<1>3. call \in AppCalls
  BY <1>1, <1>2, ElementOfSeq
<1>4. call.args \in Seq(Values)
  BY <1>3 DEF AppCalls
<1>5. DOMAIN call.args = 1..Len(call.args) /\ Len(call.args) \in Nat
  BY <1>4, LenProperties
<1>6. ASSUME NEW j \in DOMAIN call.args
      PROVE  /\ j \in Nat /\ call.args[j].param \in Nat
             /\ call.args[j].param # 0 => call.args[j].param \in ParamIndexes
  <2>1. call.args[j] \in Values
    BY <1>4, <1>5, ElementOfSeq
  <2>2. call.args[j].param # 0 => call.args[j].param \in callModelParamIndexes(call.args)
    BY DEF callModelParamIndexes
  <2>3. call \in UNION {CallsIn(g) : g \in AppFuncs}
    OBVIOUS
  <2>4. call.args[j].param # 0 => call.args[j].param \in ParamIndexes
    BY <2>2, <2>3 DEF ParamIndexes
  <2> QED BY <1>5, <2>1, <2>4 DEF Values
<1> QED BY <1>2, <1>3, <1>6

LEMMA ImageIsFinite ==
    ASSUME NEW S, IsFiniteSet(S), NEW f, DOMAIN f = S
    PROVE  IsFiniteSet({f[x] : x \in S})
<1>1. PICK T : T = {f[x] : x \in S}
  OBVIOUS
<1>2. PICK g : g = [x \in S |-> f[x]]
  OBVIOUS
<1>3. g \in Surjection(S, T)
  BY <1>1, <1>2 DEF Surjection
<1> QED BY <1>1, <1>3, FS_Surjection

LEMMA SeqIsFinite ==
    ASSUME NEW V, NEW s \in Seq(V)
    PROVE  IsFiniteSet({s[i] : i \in DOMAIN s})
<1>1. DOMAIN s = 1..Len(s) /\ Len(s) \in Nat
  BY LenProperties
<1>2. IsFiniteSet(DOMAIN s)
  BY <1>1, FS_Interval
<1> QED BY <1>2, ImageIsFinite

LEMMA PairsAreFinite ==
    ASSUME app.body \in Bodies
    PROVE  /\ IsFiniteSet(AppFuncs) /\ IsFiniteSet(ParamIndexes) /\ IsFiniteSet(Pairs)
           /\ ParamIndexes \subseteq Nat \ {0}
           /\ Cardinality(Pairs) = Cardinality(AppFuncs) * Cardinality(ParamIndexes)
<1>1. IsFiniteSet(AppFuncs)
  BY AppFuncsAssumption
<1>2. \A f \in AppFuncs : IsFiniteSet(CallsIn(f))
  <2>1. SUFFICES ASSUME NEW f \in AppFuncs PROVE IsFiniteSet(CallsIn(f))
    OBVIOUS
  <2>2. app.body[f] \in Seq(AppCalls)
    BY DEF Bodies
  <2> QED BY <2>2, SeqIsFinite DEF CallsIn, ToSet
<1>3. PICK B : B = {CallsIn(f) : f \in AppFuncs}
  OBVIOUS
<1>4. IsFiniteSet(B)
  <2>1. PICK g : g = [f \in AppFuncs |-> CallsIn(f)]
    OBVIOUS
  <2>2. B = {g[f] : f \in AppFuncs} /\ DOMAIN g = AppFuncs
    BY <1>3, <2>1
  <2> QED BY <1>1, <2>2, ImageIsFinite
<1>5. PICK C : C = UNION B
  OBVIOUS
<1>6. IsFiniteSet(C)
  BY <1>2, <1>3, <1>4, <1>5, FS_UNION
<1>7. ASSUME NEW c \in C
      PROVE  /\ IsFiniteSet(callModelParamIndexes(c.args))
             /\ callModelParamIndexes(c.args) \subseteq Nat \ {0}
  <2>1. PICK f \in AppFuncs : c \in CallsIn(f)
    BY <1>3, <1>5, <1>7
  <2>2. c \in AppCalls
    BY <2>1, CallFacts
  <2>3. c.args \in Seq(Values)
    BY <2>2 DEF AppCalls
  <2>4. PICK t : t = [i \in DOMAIN c.args |-> c.args[i].param]
    OBVIOUS
  <2>5. DOMAIN c.args = 1..Len(c.args) /\ Len(c.args) \in Nat
    BY <2>3, LenProperties
  <2>6. IsFiniteSet(DOMAIN c.args)
    BY <2>5, FS_Interval
  <2>7. IsFiniteSet({t[i] : i \in DOMAIN c.args})
    BY <2>4, <2>6, ImageIsFinite
  <2>8. callModelParamIndexes(c.args) = {t[i] : i \in DOMAIN c.args} \ {0}
    BY <2>4 DEF callModelParamIndexes
  <2>9. IsFiniteSet(callModelParamIndexes(c.args))
    BY <2>7, <2>8, FS_Subset
  <2>10. \A i \in DOMAIN c.args : c.args[i].param \in Nat
    BY <2>1, CallFacts
  <2> QED BY <2>9, <2>10 DEF callModelParamIndexes
<1>8. PICK D : D = {callModelParamIndexes(c.args) : c \in C}
  OBVIOUS
<1>9. IsFiniteSet(D)
  <2>1. PICK g : g = [c \in C |-> callModelParamIndexes(c.args)]
    OBVIOUS
  <2>2. D = {g[c] : c \in C} /\ DOMAIN g = C
    BY <1>8, <2>1
  <2> QED BY <1>6, <2>2, ImageIsFinite
<1>10. ParamIndexes = UNION D
  BY <1>3, <1>5, <1>8 DEF ParamIndexes
<1>11. IsFiniteSet(ParamIndexes)
  BY <1>7, <1>8, <1>9, <1>10, FS_UNION
<1>12. ParamIndexes \subseteq Nat \ {0}
  BY <1>7, <1>8, <1>10
<1>13. IsFiniteSet(Pairs) /\ Cardinality(Pairs) = Cardinality(AppFuncs) * Cardinality(ParamIndexes)
  BY <1>1, <1>11, FS_Product DEF Pairs
<1> QED BY <1>1, <1>11, <1>12, <1>13

(* The parameters that reach an operation if those in S do.                *)
HandsOn(S) ==
    {h \in AppFuncs \X ParamIndexes :
        \E call \in CallsIn(h[1]) : \E j \in DOMAIN call.args :
            /\ call.args[j].param = h[2]
            /\ call.op \/ <<call.callee, j>> \in S}

LEMMA HandedRuns ==
    \E T : /\ T \in [Nat -> SUBSET Pairs] /\ T[0] = {}
           /\ \A n \in Nat : T[n + 1] = HandsOn(T[n])
           /\ \A n \in Nat : Handed(n) = T[n]
<1>1. PICK U : U = SUBSET Pairs
  OBVIOUS
<1>2. PICK F : F = [n \in Nat |-> [S \in U |-> HandsOn(S)]]
  OBVIOUS
<1>3. F \in [Nat -> [U -> U]]
  <2>1. \A S : HandsOn(S) \in U
    BY <1>1 DEF HandsOn, Pairs
  <2> QED BY <1>2, <2>1
<1>4. {} \in U
  BY <1>1
<1>5. PICK T : Sequel(T, U, {}, F)
  BY <1>3, <1>4, RunExists
<1>6. T \in [Nat -> U] /\ T[0] = {} /\ \A n \in Nat : T[n + 1] = HandsOn(T[n])
  <2>1. T \in [Nat -> U] /\ T[0] = {} /\ \A n \in Nat : T[n + 1] = F[n][T[n]]
    BY <1>5 DEF Sequel
  <2>2. \A n \in Nat : \A S \in U : F[n][S] = HandsOn(S)
    BY <1>2
  <2> QED BY <2>1, <2>2
<1>7. ASSUME NEW n \in Nat PROVE Handed(n) = T[n]
  <2> DEFINE Chain(L) == [k \in 0..n |->
                 IF k = 0 THEN {}
                 ELSE {h \in AppFuncs \X ParamIndexes :
                         \E call \in CallsIn(h[1]) : \E j \in DOMAIN call.args :
                             /\ call.args[j].param = h[2]
                             /\ call.op \/ <<call.callee, j>> \in L[k - 1]}]
  <2>1. Handed(n) = (CHOOSE L : L = Chain(L))[n]
    BY DEF Handed
  <2>2. \A L : Chain(L) = [k \in 0..n |-> IF k = 0 THEN {} ELSE HandsOn(L[k - 1])]
    BY DEF HandsOn
  <2> HIDE DEF Chain
  <2> DEFINE P(L) == L = [k \in 0..n |-> IF k = 0 THEN {} ELSE HandsOn(L[k - 1])]
             M == [k \in 0..n |-> T[k]]
  <2>3. P(M)
    <3>1. ASSUME NEW k \in 0..n
          PROVE  M[k] = IF k = 0 THEN {} ELSE HandsOn(M[k - 1])
      <4>1. CASE k = 0
        BY <1>6, <4>1
      <4>2. CASE k # 0
        <5>1. k - 1 \in Nat /\ k - 1 \in 0..n /\ k - 1 + 1 = k
          BY <4>2
        <5>2. T[k] = HandsOn(T[k - 1])
          BY <1>6, <5>1
        <5> QED BY <4>2, <5>1, <5>2
      <4> QED BY <4>1, <4>2
    <3>2. M = [k \in 0..n |-> M[k]]
      OBVIOUS
    <3> HIDE DEF M
    <3> QED BY <3>1, <3>2
  <2>4. PICK L : L = CHOOSE X : X = Chain(X)
    OBVIOUS
  <2>5. L = Chain(L)
    <3>1. M = Chain(M)
      BY <2>2, <2>3
    <3> HIDE DEF M
    <3> QED BY <2>4, <3>1
  <2>6. \A k \in 0..n : L[k] = IF k = 0 THEN {} ELSE HandsOn(L[k - 1])
    BY <2>2, <2>5
  <2> DEFINE G == {k \in Nat : k <= n => L[k] = T[k]}
  <2>7. 0 \in G
    <3>1. 0 \in 0..n
      OBVIOUS
    <3>2. L[0] = {}
      BY <2>6, <3>1
    <3> QED BY <1>6, <3>2
  <2>8. ASSUME NEW k \in Nat, k \in G PROVE k + 1 \in G
    <3>1. SUFFICES ASSUME k + 1 <= n PROVE L[k + 1] = T[k + 1]
      OBVIOUS
    <3>2. L[k] = T[k] /\ k + 1 \in 0..n /\ k + 1 # 0 /\ k + 1 - 1 = k
      BY <2>8, <3>1
    <3>3. L[k + 1] = HandsOn(L[k])
      BY <2>6, <3>2
    <3> QED BY <1>6, <3>2, <3>3
  <2>9. Nat \subseteq G
    <3> HIDE DEF G
    <3> QED BY <2>7, <2>8, SetInduction
  <2> QED BY <2>1, <2>4, <2>9
<1> QED BY <1>1, <1>6, <1>7

(* A set that hands on nothing more has everything that is handed on.      *)
LEMMA HandedIsLeast ==
    ASSUME NEW S, HandsOn(S) \subseteq S, NEW n \in Nat
    PROVE  Handed(n) \subseteq S
<1>1. PICK T : /\ T \in [Nat -> SUBSET Pairs] /\ T[0] = {}
               /\ \A m \in Nat : T[m + 1] = HandsOn(T[m])
               /\ \A m \in Nat : Handed(m) = T[m]
  BY HandedRuns
<1> DEFINE G == {m \in Nat : T[m] \subseteq S}
<1>2. 0 \in G
  BY <1>1
<1>3. ASSUME NEW m \in Nat, m \in G PROVE m + 1 \in G
  <2>1. HandsOn(T[m]) \subseteq HandsOn(S)
    BY <1>3 DEF HandsOn
  <2> QED BY <1>1, <2>1
<1>4. Nat \subseteq G
  <2> HIDE DEF G
  <2> QED BY <1>2, <1>3, SetInduction
<1> QED BY <1>1, <1>4

LEMMA HandedFacts ==
    ASSUME app.body \in Bodies
    PROVE  /\ Handed(0) = {}
           /\ \A n \in Nat : Handed(n) \subseteq Pairs /\ Handed(n + 1) = HandsOn(Handed(n))
           /\ AllHanded \subseteq Pairs /\ HandsOn(AllHanded) = AllHanded
           /\ \A n \in Nat : Handed(n) \subseteq AllHanded
<1>1. PICK T : /\ T \in [Nat -> SUBSET Pairs] /\ T[0] = {}
               /\ \A n \in Nat : T[n + 1] = HandsOn(T[n])
               /\ \A n \in Nat : Handed(n) = T[n]
  BY HandedRuns
<1>2. \A R, S : R \subseteq S => HandsOn(R) \subseteq HandsOn(S)
  BY DEF HandsOn
<1>3. \A S : HandsOn(S) \subseteq Pairs
  BY DEF HandsOn, Pairs
<1>4. \A n \in Nat : T[n] \subseteq T[n + 1]
  <2> DEFINE G == {n \in Nat : T[n] \subseteq T[n + 1]}
  <2>1. 0 \in G
    BY <1>1
  <2>2. ASSUME NEW n \in Nat, n \in G PROVE n + 1 \in G
    <3>1. T[n] \subseteq T[n + 1] /\ n + 1 \in Nat
      BY <2>2
    <3>2. T[n + 1] = HandsOn(T[n]) /\ T[n + 1 + 1] = HandsOn(T[n + 1])
      BY <1>1, <3>1
    <3>3. T[n + 1] \subseteq T[n + 1 + 1]
      BY <1>2, <3>1, <3>2
    <3> QED BY <3>1, <3>3
  <2>3. Nat \subseteq G
    <3> HIDE DEF G
    <3> QED BY <2>1, <2>2, SetInduction
  <2> QED BY <2>3
<1>5. PICK a \in Nat : a = Cardinality(AppFuncs)
  BY PairsAreFinite, FS_CardinalityType
<1>6. PICK p \in Nat : p = Cardinality(ParamIndexes)
  BY PairsAreFinite, FS_CardinalityType
<1>7. PICK N \in Nat : N = a * (p + 1)
  OBVIOUS
<1>8. PICK U : U = Pairs
  OBVIOUS
<1>9. IsFiniteSet(U) /\ Cardinality(U) = a * p /\ Cardinality(U) \in Nat
  BY <1>5, <1>6, <1>8, PairsAreFinite
<1>10. Cardinality(U) <= N
  BY <1>7, <1>9
<1>11. \A S \in SUBSET U : IsFiniteSet(S) /\ Cardinality(S) \in Nat /\ Cardinality(S) <= Cardinality(U)
  BY <1>9, FS_Subset, FS_CardinalityType
<1> DEFINE G == {n \in Nat : T[n + 1] = T[n] \/ Cardinality(T[n]) >= n}
<1>12. 0 \in G
  BY <1>1, <1>8, <1>11
<1>13. ASSUME NEW n \in Nat, n \in G PROVE n + 1 \in G
  <2>1. CASE T[n + 1] = T[n]
    <3>1. T[n + 1 + 1] = T[n + 1]
      BY <1>1, <2>1
    <3> QED BY <3>1
  <2>2. CASE T[n + 1] # T[n]
    <3>1. PICK R \in SUBSET U : R = T[n]
      BY <1>1, <1>8
    <3>2. PICK S \in SUBSET U : S = T[n + 1]
      BY <1>1, <1>8
    <3>3. R \subseteq S /\ R # S
      BY <1>4, <2>2, <3>1, <3>2
    <3>4. Cardinality(R) >= n
      BY <1>13, <2>2, <3>1
    <3>5. Cardinality(R) <= Cardinality(S) /\ Cardinality(R) # Cardinality(S)
      BY <1>11, <3>3, FS_Subset
    <3>6. Cardinality(R) \in Nat /\ Cardinality(S) \in Nat
      BY <1>11
    <3>7. Cardinality(S) >= n + 1
      BY <3>4, <3>5, <3>6
    <3> QED BY <3>2, <3>7
  <2> QED BY <2>1, <2>2
<1>14. Nat \subseteq G
  <2> HIDE DEF G
  <2> QED BY <1>12, <1>13, SetInduction
<1>15. T[N + 1] = T[N]
  <2>1. PICK R \in SUBSET U : R = T[N]
    BY <1>1, <1>8
  <2>2. PICK S \in SUBSET U : S = T[N + 1]
    BY <1>1, <1>8
  <2>3. R \subseteq S
    BY <1>4, <2>1, <2>2
  <2>4. SUFFICES ASSUME R # S PROVE FALSE
    BY <2>1, <2>2
  <2>5. Cardinality(R) >= N
    BY <1>14, <2>1, <2>2, <2>4
  <2>6. Cardinality(R) \in Nat /\ Cardinality(R) <= Cardinality(U)
    BY <1>11
  <2>7. Cardinality(R) = Cardinality(U)
    BY <1>9, <1>10, <2>5, <2>6
  <2>8. R = U
    BY <1>9, <2>7, FS_Subset
  <2> QED BY <2>3, <2>4, <2>8
<1>16. AllHanded = T[N]
  BY <1>1, <1>5, <1>6, <1>7 DEF AllHanded
<1>17. HandsOn(AllHanded) = AllHanded
  BY <1>1, <1>15, <1>16
<1>18. \A n \in Nat : Handed(n) \subseteq AllHanded
  BY <1>17, HandedIsLeast
<1> QED BY <1>1, <1>16, <1>17, <1>18

-----------------------------------------------------------------------------
(* Summaries.                                                              *)

Summaries == [params : SUBSET Nat, receiver : BOOLEAN]

(* The argument j of a call reaches an operation by what is on record.     *)
Counts(call, j, recorded) ==
    call.op \/ (call.callee \in AppFuncs /\ j \in recorded[call.callee].params)

LEMMA AddFacts ==
    ASSUME app.body \in Bodies, summaries \in [AppFuncs -> Summaries],
           NEW f \in AppFuncs, NEW s \in Summaries, NEW call \in CallsIn(f),
           summaries[f].params \subseteq s.params
    PROVE  /\ Add(f, s, call) \in Summaries
           /\ s.params \subseteq Add(f, s, call).params
           /\ \A j \in DOMAIN call.args :
                  call.args[j].param # 0 /\ Counts(call, j, summaries)
                  => call.args[j].param \in Add(f, s, call).params
           /\ \A i \in Add(f, s, call).params :
                  \/ i \in s.params
                  \/ \E j \in DOMAIN call.args :
                         /\ call.args[j].param = i /\ i \in ParamIndexes
                         /\ Counts(call, j, [summaries EXCEPT ![f] = s])
<1>1. /\ call \in AppCalls
      /\ \A j \in DOMAIN call.args :
             /\ j \in Nat /\ call.args[j].param \in Nat
             /\ call.args[j].param # 0 => call.args[j].param \in ParamIndexes
  BY CallFacts
<1>2. call.op \in BOOLEAN /\ call.callee \in AppFuncs \cup {Dynamic}
  BY <1>1 DEF AppCalls
<1>3. /\ s = [params |-> s.params, receiver |-> s.receiver]
      /\ s.params \in SUBSET Nat /\ s.receiver \in BOOLEAN
  BY DEF Summaries
<1>4. CASE call.op
  <2>1. PICK r : r = (s.receiver \/ callReceiverComesFromFunctionParam(call))
    OBVIOUS
  <2>2. r \in BOOLEAN
    BY <2>1
  <2>3. PICK P : P = s.params \cup callModelParamIndexes(call.args)
    OBVIOUS
  <2>4. P \in SUBSET Nat
    BY <1>1, <1>3, <2>3 DEF callModelParamIndexes
  <2>5. Add(f, s, call) = [params |-> P, receiver |-> r]
    BY <1>4, <2>1, <2>3 DEF Add
  <2>6. Add(f, s, call) \in Summaries /\ Add(f, s, call).params = P
    BY <2>2, <2>4, <2>5 DEF Summaries
  <2>7. \A j \in DOMAIN call.args : call.args[j].param # 0 => call.args[j].param \in P
    BY <2>3 DEF callModelParamIndexes
  <2>8. \A i \in P : i \in s.params \/ \E j \in DOMAIN call.args :
            call.args[j].param = i /\ i # 0
    BY <2>3 DEF callModelParamIndexes
  <2> QED BY <1>1, <1>4, <2>3, <2>6, <2>7, <2>8 DEF Counts
<1>5. CASE ~call.op /\ call.callee \in AppFuncs
  <2>1. PICK t : t = [summaries EXCEPT ![f] = s]
    OBVIOUS
  <2>2. PICK g \in AppFuncs : g = call.callee
    BY <1>5
  <2>3. summaries[g].params \subseteq t[g].params
    BY <2>1
  <2>4. PICK c : c = IF g = f THEN [summaries[f] EXCEPT !.params = s.params] ELSE summaries[g]
    OBVIOUS
  <2>5. c.params = t[g].params /\ c.receiver \in BOOLEAN
    <3>1. summaries[f] \in Summaries /\ summaries[g] \in Summaries
      OBVIOUS
    <3>2. summaries[f].receiver \in BOOLEAN /\ summaries[g].receiver \in BOOLEAN
      BY <3>1 DEF Summaries
    <3>3. CASE g = f
      BY <2>1, <2>4, <3>1, <3>2, <3>3 DEF Summaries
    <3>4. CASE g # f
      BY <2>1, <2>4, <3>2, <3>4
    <3> QED BY <3>3, <3>4
  <2>6. PICK r : r = (s.receiver \/ (c.receiver /\ callReceiverComesFromFunctionParam(call)))
    OBVIOUS
  <2>7. PICK new : new = forwardedOrmParamIndexes(call, c.params)
    OBVIOUS
  <2>8. new = {call.args[j].param : j \in c.params \cap DOMAIN call.args} \ {0}
    BY <2>7 DEF forwardedOrmParamIndexes, callArgIndexForCalleeParam
  <2>9. PICK P : P = s.params \cup new
    OBVIOUS
  <2>10. P \in SUBSET Nat
    BY <1>1, <1>3, <2>8, <2>9
  <2>11. Add(f, s, call) = [params |-> P, receiver |-> r]
    BY <1>5, <2>2, <2>4, <2>6, <2>7, <2>9 DEF Add
  <2>12. r \in BOOLEAN
    BY <2>6
  <2>13. Add(f, s, call) \in Summaries /\ Add(f, s, call).params = P
    BY <2>10, <2>11, <2>12 DEF Summaries
  <2>14. \A j \in DOMAIN call.args : call.args[j].param # 0 /\ j \in summaries[g].params
            => call.args[j].param \in P
    BY <2>3, <2>5, <2>8, <2>9
  <2>15. \A i \in P : i \in s.params \/ \E j \in DOMAIN call.args :
            call.args[j].param = i /\ i # 0 /\ j \in t[g].params
    BY <2>5, <2>8, <2>9
  <2> QED BY <1>1, <1>5, <2>1, <2>2, <2>9, <2>13, <2>14, <2>15 DEF Counts
<1>6. CASE ~call.op /\ call.callee \notin AppFuncs
  <2>1. Add(f, s, call) = s
    BY <1>6 DEF Add
  <2> QED BY <1>6, <2>1 DEF Counts
<1> QED BY <1>2, <1>4, <1>5, <1>6

(* Every parameter of f that a call hands on by what is on record.         *)
Follows(f, recorded, params) ==
    \A call \in CallsIn(f) : \A j \in DOMAIN call.args :
        call.args[j].param # 0 /\ Counts(call, j, recorded) => call.args[j].param \in params

Within(recorded, S) == \A g \in AppFuncs : \A i \in recorded[g].params : <<g, i>> \in S

(* Taking the calls of f one by one, its summary keeps what it has, gets   *)
(* everything that they hand on, and nothing that reaches no operation.    *)
LEMMA SummaryFacts ==
    ASSUME app.body \in Bodies, summaries \in [AppFuncs -> Summaries], NEW f \in AppFuncs
    PROVE  /\ Summary(f) \in Summaries
           /\ summaries[f].params \subseteq Summary(f).params
           /\ Follows(f, summaries, Summary(f).params)
           /\ \A S : HandsOn(S) \subseteq S /\ Within(summaries, S)
                     => \A i \in Summary(f).params : <<f, i>> \in S
<1>1. PICK b : b = app.body[f]
  OBVIOUS
<1>2. PICK N \in Nat : N = Len(b) /\ DOMAIN b = 1..N
  <2>1. b \in Seq(AppCalls)
    BY <1>1 DEF Bodies
  <2> QED BY <2>1, LenProperties
<1>3. \A n \in 1..N : b[n] \in CallsIn(f)
  BY <1>1, <1>2 DEF CallsIn, ToSet
<1>4. PICK R : R = {s \in Summaries : summaries[f].params \subseteq s.params}
  OBVIOUS
<1>5. PICK a \in R : a = summaries[f]
  BY <1>4
<1>6. PICK F : F = [n \in Nat |-> [s \in R |-> IF n < N THEN Add(f, s, b[n + 1]) ELSE s]]
  OBVIOUS
<1>7. \A n \in Nat : n < N => n + 1 \in 1..N
  BY <1>2
<1>8. \A n \in Nat : n < N => \A s \in R : Add(f, s, b[n + 1]) \in R
  <2>1. SUFFICES ASSUME NEW n \in Nat, n < N, NEW s \in R PROVE Add(f, s, b[n + 1]) \in R
    OBVIOUS
  <2>2. b[n + 1] \in CallsIn(f)
    BY <1>3, <1>7, <2>1
  <2>3. PICK call \in CallsIn(f) : call = b[n + 1]
    BY <2>2
  <2>4. s \in Summaries /\ summaries[f].params \subseteq s.params
    BY <1>4
  <2>5. Add(f, s, call) \in Summaries /\ s.params \subseteq Add(f, s, call).params
    BY <2>4, AddFacts
  <2> QED BY <1>4, <2>3, <2>4, <2>5
<1>9. F \in [Nat -> [R -> R]]
  BY <1>6, <1>8
<1>10. PICK T : Sequel(T, R, a, F)
  BY <1>9, RunExists
<1>11. /\ T \in [Nat -> R] /\ T[0] = a
       /\ \A n \in Nat : n < N => T[n + 1] = Add(f, T[n], b[n + 1])
  BY <1>6, <1>10 DEF Sequel
<1>12. Summary(f) = T[N]
  <2> DEFINE Chain(L) == [n \in 0..Len(app.body[f]) |->
                 IF n = 0 THEN summaries[f] ELSE Add(f, L[n - 1], app.body[f][n])]
  <2>1. PICK L : L = CHOOSE X : X = Chain(X)
    OBVIOUS
  <2>2. Summary(f) = L[N]
    BY <1>1, <1>2, <2>1 DEF Summary
  <2>3. \A X : Chain(X) = [n \in 0..N |-> IF n = 0 THEN a ELSE Add(f, X[n - 1], b[n])]
    BY <1>1, <1>2, <1>5
  <2> HIDE DEF Chain
  <2> DEFINE M == [n \in 0..N |-> T[n]]
  <2>4. M = Chain(M)
    <3>1. ASSUME NEW n \in 0..N PROVE M[n] = IF n = 0 THEN a ELSE Add(f, M[n - 1], b[n])
      <4>1. CASE n = 0
        BY <1>11, <4>1
      <4>2. CASE n # 0
        <5>1. n - 1 \in Nat /\ n - 1 \in 0..N /\ n - 1 < N /\ n - 1 + 1 = n
          BY <1>2, <4>2
        <5>2. T[n] = Add(f, T[n - 1], b[n])
          BY <1>11, <5>1
        <5> QED BY <4>2, <5>1, <5>2
      <4> QED BY <4>1, <4>2
    <3>2. M = [n \in 0..N |-> M[n]]
      OBVIOUS
    <3> HIDE DEF M
    <3> QED BY <2>3, <3>1, <3>2
  <2>5. L = Chain(L)
    <3> HIDE DEF M
    <3> QED BY <2>1, <2>4
  <2>6. \A n \in 0..N : L[n] = IF n = 0 THEN a ELSE Add(f, L[n - 1], b[n])
    BY <2>3, <2>5
  <2> DEFINE G == {n \in Nat : n <= N => L[n] = T[n]}
  <2>7. 0 \in G
    <3>1. 0 \in 0..N
      OBVIOUS
    <3>2. L[0] = a
      BY <2>6, <3>1
    <3> QED BY <1>11, <3>2
  <2>8. ASSUME NEW n \in Nat, n \in G PROVE n + 1 \in G
    <3>1. SUFFICES ASSUME n + 1 <= N PROVE L[n + 1] = T[n + 1]
      OBVIOUS
    <3>2. L[n] = T[n] /\ n + 1 \in 0..N /\ n + 1 # 0 /\ n + 1 - 1 = n /\ n < N
      BY <1>2, <2>8, <3>1
    <3>3. L[n + 1] = Add(f, L[n], b[n + 1])
      BY <2>6, <3>2
    <3> QED BY <1>11, <3>2, <3>3
  <2>9. Nat \subseteq G
    <3> HIDE DEF G
    <3> QED BY <2>7, <2>8, SetInduction
  <2> QED BY <2>2, <2>9
<1>13. ASSUME NEW n \in Nat, n < N
       PROVE  /\ b[n + 1] \in CallsIn(f) /\ T[n] \in Summaries
              /\ summaries[f].params \subseteq T[n].params
              /\ T[n + 1] = Add(f, T[n], b[n + 1])
  BY <1>3, <1>4, <1>7, <1>11, <1>13
<1>14. T[N] \in Summaries /\ summaries[f].params \subseteq T[N].params
  BY <1>4, <1>11
<1>15. Follows(f, summaries, T[N].params)
  <2> DEFINE Done(m, n) == \A j \in DOMAIN b[m].args :
                 b[m].args[j].param # 0 /\ Counts(b[m], j, summaries)
                 => b[m].args[j].param \in T[n].params
             G == {n \in Nat : n <= N => \A m \in 1..n : Done(m, n)}
  <2>1. 0 \in G
    OBVIOUS
  <2>2. ASSUME NEW n \in Nat, n \in G PROVE n + 1 \in G
    <3>1. SUFFICES ASSUME n + 1 <= N, NEW m \in 1..(n + 1) PROVE Done(m, n + 1)
      OBVIOUS
    <3>2. n < N
      BY <1>2, <3>1
    <3>3. PICK call \in CallsIn(f) : call = b[n + 1]
      BY <1>13, <3>2
    <3>4. PICK s \in Summaries : s = T[n] /\ summaries[f].params \subseteq s.params
      BY <1>13, <3>2
    <3>5. PICK t : t = Add(f, s, call)
      OBVIOUS
    <3>6. T[n + 1] = t
      BY <1>13, <3>2, <3>3, <3>4, <3>5
    <3>7. /\ s.params \subseteq t.params
          /\ \A j \in DOMAIN call.args :
                 call.args[j].param # 0 /\ Counts(call, j, summaries)
                 => call.args[j].param \in t.params
      BY <3>4, <3>5, AddFacts
    <3>8. CASE m = n + 1
      BY <3>3, <3>6, <3>7, <3>8
    <3>9. CASE m # n + 1
      <4>1. m \in 1..n /\ n <= N
        BY <1>2, <3>1, <3>9
      <4>2. Done(m, n)
        BY <2>2, <4>1
      <4> QED BY <3>4, <3>6, <3>7, <4>2
    <3> QED BY <3>8, <3>9
  <2>3. Nat \subseteq G
    <3> HIDE DEF G
    <3> QED BY <2>1, <2>2, SetInduction
  <2>4. \A m \in 1..N : Done(m, N)
    BY <2>3
  <2>5. \A call \in CallsIn(f) : \E m \in 1..N : call = b[m]
    BY <1>1, <1>2 DEF CallsIn, ToSet
  <2> QED BY <2>4, <2>5 DEF Follows
<1>16. ASSUME NEW S, HandsOn(S) \subseteq S, Within(summaries, S)
       PROVE  \A i \in T[N].params : <<f, i>> \in S
  <2> DEFINE G == {n \in Nat : n <= N => \A i \in T[n].params : <<f, i>> \in S}
  <2>1. 0 \in G
    BY <1>5, <1>11, <1>16 DEF Within
  <2>2. ASSUME NEW n \in Nat, n \in G PROVE n + 1 \in G
    <3>1. SUFFICES ASSUME n + 1 <= N, NEW i \in T[n + 1].params PROVE <<f, i>> \in S
      OBVIOUS
    <3>2. n < N /\ n <= N
      BY <1>2, <3>1
    <3>3. PICK call \in CallsIn(f) : call = b[n + 1]
      BY <1>13, <3>2
    <3>4. PICK s \in Summaries : s = T[n] /\ summaries[f].params \subseteq s.params
      BY <1>13, <3>2
    <3>5. PICK t : t = Add(f, s, call)
      OBVIOUS
    <3>6. i \in t.params
      BY <1>13, <3>1, <3>2, <3>3, <3>4, <3>5
    <3>7. \/ i \in s.params
          \/ \E j \in DOMAIN call.args :
                 /\ call.args[j].param = i /\ i \in ParamIndexes
                 /\ Counts(call, j, [summaries EXCEPT ![f] = s])
      BY <3>4, <3>5, <3>6, AddFacts
    <3>8. \A k \in s.params : <<f, k>> \in S
      BY <2>2, <3>2, <3>4
    <3>9. CASE \E j \in DOMAIN call.args :
                 /\ call.args[j].param = i /\ i \in ParamIndexes
                 /\ Counts(call, j, [summaries EXCEPT ![f] = s])
      <4>1. PICK j \in DOMAIN call.args :
                 /\ call.args[j].param = i /\ i \in ParamIndexes
                 /\ Counts(call, j, [summaries EXCEPT ![f] = s])
        BY <3>9
      <4>2. ASSUME NEW g \in AppFuncs, j \in [summaries EXCEPT ![f] = s][g].params
            PROVE  <<g, j>> \in S
        <5>1. CASE g = f
          BY <3>8, <4>2, <5>1
        <5>2. CASE g # f
          BY <1>16, <4>2, <5>2 DEF Within
        <5> QED BY <5>1, <5>2
      <4>3. call.op \/ <<call.callee, j>> \in S
        BY <4>1, <4>2 DEF Counts
      <4>4. <<f, i>> \in HandsOn(S)
        <5>1. PICK h : h = <<f, i>>
          OBVIOUS
        <5>2. h \in AppFuncs \X ParamIndexes /\ h[1] = f /\ h[2] = i
          BY <4>1, <5>1
        <5> QED BY <4>1, <4>3, <5>1, <5>2 DEF HandsOn
      <4> QED BY <1>16, <4>4
    <3> QED BY <3>7, <3>8, <3>9
  <2>3. Nat \subseteq G
    <3> HIDE DEF G
    <3> QED BY <2>1, <2>2, SetInduction
  <2> QED BY <2>3
<1>17. PICK t : t = T[N]
  OBVIOUS
<1> QED BY <1>12, <1>14, <1>15, <1>16

-----------------------------------------------------------------------------
(* The passes.                                                             *)

LEMMA AnyPassOrder ==
    ASSUME NEW s \in SetToSeqs(AppFuncs)
    PROVE  /\ Len(s) = Cardinality(AppFuncs) /\ Cardinality(AppFuncs) \in Nat
           /\ \A k \in 1..Len(s) : s[k] \in AppFuncs
           /\ \A f \in AppFuncs : \E k \in 1..Len(s) : s[k] = f
<1>1. PICK n \in Nat : n = Cardinality(AppFuncs)
  BY AppFuncsAssumption, FS_CardinalityType
<1>2. s \in [1..n -> AppFuncs] /\ \A i, j \in 1..n : i # j => s[i] # s[j]
  BY <1>1 DEF SetToSeqs
<1>3. Len(s) = n
  <2>1. s \in Seq(AppFuncs)
    BY <1>2, SeqDef
  <2>2. Len(s) \in Nat /\ DOMAIN s = 1..Len(s)
    BY <2>1, LenProperties
  <2>3. PICK l \in Nat : l = Len(s)
    BY <2>2
  <2>4. DOMAIN s = 1..l /\ DOMAIN s = 1..n
    BY <1>2, <2>2, <2>3
  <2>5. \A i : i \in 1..l <=> i \in 1..n
    BY <2>4
  <2>6. l = n
    BY <2>3, <2>5
  <2> QED BY <2>3, <2>6
<1>4. s \in Injection(1..n, AppFuncs)
  BY <1>2 DEF Injection, IsInjective
<1>5. IsFiniteSet(1..n) /\ Cardinality(1..n) = n
  BY FS_Interval
<1>6. s \in Surjection(1..n, AppFuncs)
  BY <1>1, <1>4, <1>5, AppFuncsAssumption, FS_Injection
<1>7. \A f \in AppFuncs : \E k \in 1..n : s[k] = f
  BY <1>6 DEF Surjection
<1> QED BY <1>1, <1>2, <1>3, <1>7

Has(recorded, S) == \A h \in S : h[2] \in recorded[h[1]].params

InPlace(n) == pass \in 1..MaxPasses /\ turn \in 1..(n + 1)

OrmTyped ==
    /\ app \in Apps /\ order \in SetToSeqs(AppFuncs)
    /\ InPlace(Len(order)) /\ changed \in BOOLEAN
    /\ summaries \in [AppFuncs -> Summaries]
    /\ verdict \in {"", "kept", "skipped", "no_references", "no_orm_usage"}

(* What is on record is handed on, and what is handed on through as many   *)
(* functions as there were passes is on record: the functions that had     *)
(* their turn are one pass ahead.  If nothing changed in this pass, their  *)
(* calls hand on nothing that is not on record.                            *)
PassesInv ==
    /\ Within(summaries, AllHanded)
    /\ Has(summaries, Handed(pass - 1))
    /\ \A k \in 1..(turn - 1) : \A h \in Handed(pass) :
           h[1] = order[k] => h[2] \in summaries[order[k]].params
    /\ ~changed => \A k \in 1..(turn - 1) :
           Follows(order[k], summaries, summaries[order[k]].params)

(* A verdict is given after the last pass.                                 *)
VerdictInv ==
    /\ verdict \in {"kept", "no_references", "no_orm_usage"} => turn > Len(order) /\ ~Again
    /\ verdict \in {"no_references", "no_orm_usage"} => ~hasOrmUsage /\ app.migrations # "table"

OrmInv == OrmTyped /\ PassesInv /\ VerdictInv

LEMMA TypedFacts ==
    ASSUME OrmTyped
    PROVE  /\ app.body \in Bodies
           /\ pass \in Nat \ {0} /\ pass - 1 \in Nat /\ pass - 1 + 1 = pass
           /\ Len(order) \in Nat /\ turn \in Nat \ {0}
<1>1. app.body \in Bodies
  BY AppsAssumption DEF OrmTyped, Bodies
<1>2. PICK n : n = Len(order)
  OBVIOUS
<1>3. n \in Nat /\ InPlace(n)
  BY <1>2, AnyPassOrder DEF OrmTyped
<1>4. pass \in 1..MaxPasses /\ turn \in 1..(n + 1)
  BY <1>3 DEF InPlace
<1>5. pass \in Nat \ {0} /\ pass - 1 \in Nat /\ pass - 1 + 1 = pass
  BY <1>4, MaxPassesAssumption
<1>6. turn \in Nat \ {0}
  BY <1>3, <1>4
<1> QED BY <1>1, <1>2, <1>3, <1>5, <1>6

(* What is handed on depends on the program alone.                         *)
LEMMA HandedStays ==
    ASSUME app' = app
    PROVE  /\ \A n \in Nat : Handed(n)' = Handed(n)
           /\ AllHanded' = AllHanded
           /\ \A f : CallsIn(f)' = CallsIn(f)
BY DEF Handed, AllHanded, ParamIndexes, CallsIn

LEMMA InitOrmKeeps == InitOrm => OrmInv
<1> SUFFICES ASSUME InitOrm PROVE OrmInv
  OBVIOUS
<1>1. OrmTyped
  <2>1. summaries \in [AppFuncs -> Summaries]
    BY DEF InitOrm, Empty, Summaries
  <2>2. PICK n : n = Len(order)
    OBVIOUS
  <2>3. n \in Nat
    BY <2>2, AnyPassOrder DEF InitOrm
  <2>4. pass = 1 /\ turn = 1
    BY DEF InitOrm
  <2>5. pass \in 1..MaxPasses
    BY <2>4, MaxPassesAssumption
  <2>6. turn \in 1..(n + 1)
    BY <2>3, <2>4
  <2> QED BY <2>1, <2>2, <2>5, <2>6 DEF InitOrm, OrmTyped, InPlace
<1>2. Within(summaries, AllHanded)
  BY DEF InitOrm, Empty, Within
<1>3. Handed(0) = {}
  BY <1>1, TypedFacts, HandedFacts
<1>4. pass - 1 = 0 /\ 1..(turn - 1) = {}
  <2>1. pass = 1 /\ turn = 1
    BY DEF InitOrm
  <2> QED BY <2>1
<1>5. verdict = ""
  BY DEF InitOrm
<1>6. Has(summaries, Handed(pass - 1))
  BY <1>3, <1>4 DEF Has
<1>7. PassesInv
  BY <1>2, <1>4, <1>6 DEF PassesInv
<1>8. VerdictInv
  BY <1>5 DEF VerdictInv
<1> QED BY <1>1, <1>7, <1>8 DEF OrmInv

LEMMA TurnKeeps ==
    ASSUME OrmInv, buildOrmUsageSummaries
    PROVE  OrmInv'
<1>1. /\ turn <= Len(order) /\ turn' = turn + 1 /\ verdict = ""
      /\ UNCHANGED <<app, order, pass, verdict>>
  BY DEF buildOrmUsageSummaries
<1>2. PICK f : f = order[turn]
  OBVIOUS
<1>3. /\ summaries' = [summaries EXCEPT ![f] = Summary(f)]
      /\ changed' = (changed \/ Summary(f) # summaries[f])
  BY <1>2 DEF buildOrmUsageSummaries
<1>4. /\ app.body \in Bodies /\ pass \in Nat /\ pass - 1 \in Nat /\ pass - 1 + 1 = pass
      /\ Len(order) \in Nat /\ turn \in Nat \ {0}
      /\ summaries \in [AppFuncs -> Summaries]
  BY TypedFacts DEF OrmInv, OrmTyped
<1>5. PICK n : n = Len(order)
  OBVIOUS
<1>6. turn <= n /\ turn \in Nat \ {0} /\ n \in Nat
  <2>1. turn <= n
    BY <1>1, <1>5
  <2>2. turn \in Nat \ {0}
    BY <1>4
  <2>3. n \in Nat
    BY <1>4, <1>5
  <2> QED BY <2>1, <2>2, <2>3
<1>7. f \in AppFuncs
  <2>1. \A k \in 1..Len(order) : order[k] \in AppFuncs
    BY AnyPassOrder DEF OrmInv, OrmTyped
  <2>2. n = Len(order)
    BY <1>5
  <2>3. turn \in 1..n
    BY <1>6
  <2> QED BY <1>2, <2>1, <2>2, <2>3
<1>8. PICK s : s = Summary(f)
  OBVIOUS
<1>9. /\ s \in Summaries /\ summaries[f].params \subseteq s.params
      /\ Follows(f, summaries, s.params)
      /\ \A S : HandsOn(S) \subseteq S /\ Within(summaries, S) => \A i \in s.params : <<f, i>> \in S
  BY <1>4, <1>7, <1>8, SummaryFacts
<1>10. PICK t : t = [summaries EXCEPT ![f] = s]
  OBVIOUS
<1>11. summaries' = t /\ t \in [AppFuncs -> Summaries] /\ t[f] = s
      /\ \A g \in AppFuncs : g # f => t[g] = summaries[g]
  BY <1>3, <1>4, <1>7, <1>8, <1>9, <1>10
<1>12. \A g \in AppFuncs : summaries[g].params \subseteq t[g].params
  BY <1>9, <1>11
<1>13. OrmTyped'
  <2>1. n = Len(order)
    BY <1>5
  <2>2. turn' = turn + 1
    BY <1>1
  <2>3. turn' \in 1..(n + 1)
    BY <1>6, <2>2
  <2>4. InPlace(n)
    BY <2>1 DEF OrmInv, OrmTyped
  <2>5. InPlace(n)'
    BY <1>1, <2>3, <2>4 DEF InPlace
  <2>6. changed' \in BOOLEAN
    BY <1>3 DEF OrmInv, OrmTyped
  <2> QED BY <1>1, <1>11, <2>1, <2>5, <2>6 DEF OrmInv, OrmTyped
<1>14. /\ \A l \in Nat : Handed(l)' = Handed(l)
       /\ AllHanded' = AllHanded
       /\ \A g : CallsIn(g)' = CallsIn(g)
  BY <1>1, HandedStays
<1>15. /\ \A l \in Nat : Handed(l) \subseteq Pairs /\ Handed(l + 1) = HandsOn(Handed(l))
       /\ HandsOn(AllHanded) = AllHanded
  BY <1>4, HandedFacts
<1>16. Within(t, AllHanded)
  <2>1. \A i \in s.params : <<f, i>> \in AllHanded
    BY <1>9, <1>15 DEF OrmInv, PassesInv
  <2> QED BY <1>11, <2>1 DEF Within, OrmInv, PassesInv
<1>17. Has(t, Handed(pass - 1))
  <2>1. \A h \in Handed(pass - 1) : h[1] \in AppFuncs
    BY <1>4, <1>15 DEF Pairs
  <2> QED BY <1>12, <2>1 DEF Has, OrmInv, PassesInv
<1>18. ASSUME NEW k \in 1..turn, NEW h \in Handed(pass), h[1] = order[k]
       PROVE  h[2] \in t[order[k]].params
  <2>1. order[k] \in AppFuncs
    <3>1. \A i \in 1..Len(order) : order[i] \in AppFuncs
      BY AnyPassOrder DEF OrmInv, OrmTyped
    <3>2. n = Len(order)
      BY <1>5
    <3>3. k \in 1..n
      BY <1>6
    <3> QED BY <3>1, <3>2, <3>3
  <2>2. CASE order[k] = f
    <3>1. h \in HandsOn(Handed(pass - 1))
      BY <1>4, <1>15
    <3>2. PICK call \in CallsIn(f) : \E j \in DOMAIN call.args :
              /\ call.args[j].param = h[2]
              /\ call.op \/ <<call.callee, j>> \in Handed(pass - 1)
      BY <1>18, <2>2, <3>1 DEF HandsOn
    <3>3. PICK j \in DOMAIN call.args :
              /\ call.args[j].param = h[2]
              /\ call.op \/ <<call.callee, j>> \in Handed(pass - 1)
      BY <3>2
    <3>4. h[2] # 0
      BY <1>4, <3>1, PairsAreFinite DEF HandsOn
    <3>5. Counts(call, j, summaries)
      <4>1. CASE call.op
        BY <4>1 DEF Counts
      <4>2. CASE <<call.callee, j>> \in Handed(pass - 1)
        <5>1. PICK c : c = call.callee
          OBVIOUS
        <5>2. <<c, j>> \in Pairs
          BY <1>4, <1>15, <4>2, <5>1
        <5>3. c \in AppFuncs
          BY <5>2 DEF Pairs
        <5>4. j \in summaries[c].params
          <6>1. \A x \in Handed(pass - 1) : x[2] \in summaries[x[1]].params
            BY DEF OrmInv, PassesInv, Has
          <6>2. PICK x : x = <<c, j>>
            OBVIOUS
          <6>3. x[2] \in summaries[x[1]].params
            BY <4>2, <5>1, <6>1, <6>2
          <6>4. x[1] = c /\ x[2] = j
            BY <6>2
          <6> QED BY <6>3, <6>4
        <5> QED BY <5>1, <5>3, <5>4 DEF Counts
      <4> QED BY <3>3, <4>1, <4>2
    <3>6. h[2] \in s.params
      BY <1>9, <3>3, <3>4, <3>5 DEF Follows
    <3> QED BY <1>11, <2>2, <3>6
  <2>3. CASE order[k] # f
    <3>1. k \in 1..(turn - 1)
      BY <1>2, <1>4, <2>3
    <3>2. h[2] \in summaries[order[k]].params
      BY <1>18, <3>1 DEF OrmInv, PassesInv
    <3> QED BY <1>12, <2>1, <3>2
  <2> QED BY <2>2, <2>3
<1>19. ASSUME ~changed', NEW k \in 1..turn
       PROVE  Follows(order[k], t, t[order[k]].params)'
  <2>1. ~changed /\ s = summaries[f]
    BY <1>3, <1>8, <1>19
  <2>2. t = summaries
    BY <1>4, <1>10, <2>1
  <2>3. Follows(order[k], summaries, summaries[order[k]].params)
    <3>1. CASE k = turn
      BY <1>2, <1>9, <2>1, <3>1
    <3>2. CASE k # turn
      <4>1. k \in 1..(turn - 1)
        BY <1>4, <3>2
      <4> QED BY <2>1, <4>1 DEF OrmInv, PassesInv
    <3> QED BY <3>1, <3>2
  <2> QED BY <1>1, <1>14, <2>2, <2>3 DEF Follows, Counts
<1>20. PassesInv'
  <2>1. turn' - 1 = turn
    <3>1. turn \in Nat /\ turn' = turn + 1
      BY <1>1, <1>4
    <3> QED BY <3>1
  <2>2. Within(t, AllHanded)' /\ Has(t, Handed(pass - 1))'
    BY <1>1, <1>4, <1>14, <1>16, <1>17 DEF Within, Has
  <2>3. \A k \in 1..(turn' - 1) : \A h \in Handed(pass)' :
            h[1] = order'[k] => h[2] \in t[order'[k]].params
    BY <1>1, <1>4, <1>14, <1>18, <2>1
  <2> QED BY <1>1, <1>11, <1>19, <2>1, <2>2, <2>3 DEF PassesInv, Within, Has, Follows, Counts
<1>21. VerdictInv'
  BY <1>1 DEF VerdictInv
<1> QED BY <1>13, <1>20, <1>21 DEF OrmInv

(* Once all functions had their turn, the pass is done for all of them.    *)
LEMMA AllTurns ==
    ASSUME OrmInv, turn > Len(order)
    PROVE  /\ Has(summaries, Handed(pass))
           /\ ~changed => \A f \in AppFuncs : Follows(f, summaries, summaries[f].params)
<1>1. /\ app.body \in Bodies /\ pass \in Nat /\ Len(order) \in Nat /\ turn \in Nat \ {0}
  BY TypedFacts DEF OrmInv
<1>2. \A f \in AppFuncs : \E k \in 1..Len(order) : order[k] = f
  BY AnyPassOrder DEF OrmInv, OrmTyped
<1>3. \A k \in 1..Len(order) : k \in 1..(turn - 1)
  <2>1. PICK n : n = Len(order)
    OBVIOUS
  <2>2. n \in Nat /\ turn \in Nat /\ turn > n
    BY <1>1, <2>1
  <2>3. \A k \in 1..n : k \in 1..(turn - 1)
    BY <2>2
  <2> QED BY <2>1, <2>3
<1>4. \A h \in Handed(pass) : h[1] \in AppFuncs
  BY <1>1, HandedFacts DEF Pairs
<1>5. ASSUME NEW h \in Handed(pass)
      PROVE  h[2] \in summaries[h[1]].params
  <2>1. PICK k \in 1..Len(order) : order[k] = h[1]
    BY <1>2, <1>4
  <2>2. k \in 1..(turn - 1)
    BY <1>3, <2>1
  <2>3. h[2] \in summaries[order[k]].params
    BY <2>1, <2>2 DEF OrmInv, PassesInv
  <2> QED BY <2>1, <2>3
<1>6. ASSUME ~changed, NEW f \in AppFuncs
      PROVE  Follows(f, summaries, summaries[f].params)
  <2>1. PICK k \in 1..Len(order) : order[k] = f
    BY <1>2
  <2>2. k \in 1..(turn - 1)
    BY <1>3, <2>1
  <2>3. Follows(order[k], summaries, summaries[order[k]].params)
    BY <1>6, <2>2 DEF OrmInv, PassesInv
  <2> QED BY <2>1, <2>3
<1> QED BY <1>5, <1>6 DEF Has

LEMMA NextPassKeeps ==
    ASSUME OrmInv, NextPass
    PROVE  OrmInv'
<1>1. /\ turn > Len(order) /\ verdict = "" /\ Again
      /\ pass' = pass + 1 /\ turn' = 1
      /\ UNCHANGED <<app, order, summaries, verdict>>
  BY DEF NextPass
<1>2. changed' = FALSE
  BY DEF NextPass
<1>3. PICK n : n = Len(order)
  OBVIOUS
<1>4. pass \in Nat \ {0} /\ n \in Nat
  BY <1>3, TypedFacts DEF OrmInv
<1>5. OrmTyped'
  <2>1. pass < MaxPasses /\ pass' = pass + 1 /\ turn' = 1
    BY <1>1 DEF Again
  <2>2. pass' \in 1..MaxPasses
    BY <1>4, <2>1, MaxPassesAssumption
  <2>3. turn' \in 1..(n + 1)
    BY <1>4, <2>1
  <2>4. InPlace(n)'
    BY <2>2, <2>3 DEF InPlace
  <2>5. changed' \in BOOLEAN
    BY <1>2
  <2> QED BY <1>1, <1>3, <2>4, <2>5 DEF OrmInv, OrmTyped
<1>6. /\ \A m \in Nat : Handed(m)' = Handed(m)
      /\ AllHanded' = AllHanded
  BY <1>1, HandedStays
<1>7. Has(summaries, Handed(pass))
  BY <1>1, AllTurns
<1>8. pass' - 1 = pass /\ turn' - 1 = 0 /\ 1..0 = {}
  <2>1. pass' = pass + 1 /\ turn' = 1
    BY <1>1
  <2> QED BY <1>4, <2>1
<1>9. PassesInv'
  <2>1. Within(summaries, AllHanded)'
    BY <1>1, <1>6 DEF OrmInv, PassesInv, Within
  <2>2. Has(summaries, Handed(pass - 1))'
    BY <1>1, <1>4, <1>6, <1>7, <1>8 DEF Has
  <2>3. \A k : k \notin 1..(turn' - 1)
    BY <1>8
  <2> QED BY <2>1, <2>2, <2>3 DEF PassesInv
<1>10. VerdictInv'
  BY <1>1 DEF VerdictInv
<1> QED BY <1>5, <1>9, <1>10 DEF OrmInv

(* A verdict leaves the passes as they are.                                *)
LEMMA PassesStay ==
    ASSUME OrmInv, UNCHANGED <<app, order, pass, turn, changed, summaries>>,
           verdict' \in {"", "kept", "skipped", "no_references", "no_orm_usage"}
    PROVE  /\ OrmTyped' /\ PassesInv'
           /\ Again' = Again /\ hasOrmUsage' = hasOrmUsage
<1>1. OrmTyped'
  BY DEF OrmInv, OrmTyped, InPlace
<1>2. /\ \A m \in Nat : Handed(m)' = Handed(m)
      /\ AllHanded' = AllHanded
      /\ \A f : CallsIn(f)' = CallsIn(f)
  BY HandedStays
<1>3. pass - 1 \in Nat /\ pass \in Nat
  BY TypedFacts DEF OrmInv
<1>4. Within(summaries, AllHanded)' /\ Has(summaries, Handed(pass - 1))'
  BY <1>2, <1>3 DEF OrmInv, PassesInv, Within, Has
<1>5. \A k \in 1..(turn' - 1) : \A h \in Handed(pass)' :
          h[1] = order'[k] => h[2] \in summaries'[order'[k]].params
  BY <1>2, <1>3 DEF OrmInv, PassesInv
<1>6. ASSUME ~changed', NEW k \in 1..(turn' - 1)
      PROVE  Follows(order[k], summaries, summaries[order[k]].params)'
  <2>1. Follows(order[k], summaries, summaries[order[k]].params)
    BY <1>6 DEF OrmInv, PassesInv
  <2> QED BY <1>2, <2>1 DEF Follows, Counts
<1>7. PassesInv'
  BY <1>4, <1>5, <1>6 DEF PassesInv
<1>8. Again' = Again /\ hasOrmUsage' = hasOrmUsage
  BY <1>2 DEF Again, hasOrmUsage, callUsesModelInOrm
<1> QED BY <1>1, <1>7, <1>8

LEMMA NextOrmKeeps ==
    ASSUME OrmInv, [NextOrm]_ouvars
    PROVE  OrmInv'
<1>1. CASE Skip
  <2>1. /\ verdict' = "skipped"
        /\ UNCHANGED <<app, order, pass, turn, changed, summaries>>
    BY <1>1 DEF Skip
  <2>2. OrmTyped' /\ PassesInv'
    BY <2>1, PassesStay
  <2>3. VerdictInv'
    BY <2>1 DEF VerdictInv
  <2> QED BY <2>2, <2>3 DEF OrmInv
<1>2. CASE buildOrmUsageSummaries
  BY <1>2, TurnKeeps
<1>3. CASE NextPass
  BY <1>3, NextPassKeeps
<1>4. CASE Judge
  <2>1. /\ turn > Len(order) /\ ~Again
        /\ UNCHANGED <<app, order, pass, turn, changed, summaries>>
    BY <1>4 DEF Judge
  <2>2. /\ verdict' \in {"kept", "no_references", "no_orm_usage"}
        /\ verdict' \in {"no_references", "no_orm_usage"}
           => ~hasOrmUsage /\ app.migrations # "table"
    BY <1>4 DEF Judge, checkInMigrations
  <2>3. OrmTyped' /\ PassesInv' /\ Again' = Again /\ hasOrmUsage' = hasOrmUsage
    BY <2>1, <2>2, PassesStay
  <2>4. VerdictInv'
    <3>1. turn' > Len(order') /\ ~Again'
      BY <2>1, <2>3
    <3>2. verdict' \in {"no_references", "no_orm_usage"} => ~hasOrmUsage' /\ app'.migrations # "table"
      BY <2>1, <2>2, <2>3
    <3> QED BY <3>1, <3>2 DEF VerdictInv
  <2> QED BY <2>3, <2>4 DEF OrmInv
<1>5. CASE UNCHANGED ouvars
  <2>1. UNCHANGED <<app, order, pass, turn, changed, summaries>> /\ verdict' = verdict
    BY <1>5 DEF ouvars
  <2>2. OrmTyped' /\ PassesInv' /\ Again' = Again /\ hasOrmUsage' = hasOrmUsage
    BY <2>1, PassesStay DEF OrmInv, OrmTyped
  <2>3. VerdictInv'
    <3>1. verdict' \in {"kept", "no_references", "no_orm_usage"} => turn' > Len(order') /\ ~Again'
      BY <2>1, <2>2 DEF OrmInv, VerdictInv
    <3>2. verdict' \in {"no_references", "no_orm_usage"} => ~hasOrmUsage' /\ app'.migrations # "table"
      BY <2>1, <2>2 DEF OrmInv, VerdictInv
    <3> QED BY <3>1, <3>2 DEF VerdictInv
  <2> QED BY <2>2, <2>3 DEF OrmInv
<1> QED BY <1>1, <1>2, <1>3, <1>4, <1>5 DEF NextOrm

LEMMA OrmIsInvariant == SpecOrm => []OrmInv
<1>1. InitOrm => OrmInv
  BY InitOrmKeeps
<1>2. OrmInv /\ [NextOrm]_ouvars => OrmInv'
  BY NextOrmKeeps
<1> QED BY <1>1, <1>2, PTL DEF SpecOrm

LEMMA ModelsHaveTypes == OrmInv => OrmTypeOK
<1> SUFFICES ASSUME OrmInv PROVE OrmTypeOK
  OBVIOUS
<1>1. PICK n : n = Len(order)
  OBVIOUS
<1>2. Len(order) = Cardinality(AppFuncs)
  BY AnyPassOrder DEF OrmInv, OrmTyped
<1>3. pass \in 1..MaxPasses /\ turn \in 1..(n + 1)
  BY <1>1 DEF OrmInv, OrmTyped, InPlace
<1>4. turn \in 1..(Cardinality(AppFuncs) + 1)
  BY <1>1, <1>2, <1>3
<1>5. summaries \in [AppFuncs -> [params : SUBSET Nat, receiver : BOOLEAN]]
  BY DEF OrmInv, OrmTyped, Summaries
<1>6. changed \in BOOLEAN /\ verdict \in {"", "off", "kept", "skipped", "no_references", "no_orm_usage"}
  BY DEF OrmInv, OrmTyped
<1> QED BY <1>3, <1>4, <1>5, <1>6 DEF OrmTypeOK

(* orphaned_models.go: the passes end after MaxPasses, every function has   *)
(* its turn once in each of them, and no summary records anything but       *)
(* parameter positions.                                                     *)
THEOREM OrmTypes == SpecOrm => []OrmTypeOK
<1>1. OrmInv => OrmTypeOK
  BY ModelsHaveTypes
<1> QED BY <1>1, OrmIsInvariant, PTL

(* When nothing changed in a whole pass, the record is closed.             *)
LEMMA QuietIsClosed ==
    ASSUME OrmInv, turn > Len(order), ~changed
    PROVE  HandsOn(Recorded) \subseteq Recorded
<1>1. app.body \in Bodies
  BY TypedFacts DEF OrmInv
<1>2. \A f \in AppFuncs : Follows(f, summaries, summaries[f].params)
  BY AllTurns
<1> SUFFICES ASSUME NEW h \in HandsOn(Recorded)
             PROVE  h \in Recorded
  OBVIOUS
<1>3. h \in AppFuncs \X ParamIndexes /\ h[1] \in AppFuncs /\ h[2] \in ParamIndexes
  BY DEF HandsOn
<1>4. PICK call \in CallsIn(h[1]) : \E j \in DOMAIN call.args :
          /\ call.args[j].param = h[2]
          /\ call.op \/ <<call.callee, j>> \in Recorded
  BY DEF HandsOn
<1>5. PICK j \in DOMAIN call.args :
          /\ call.args[j].param = h[2]
          /\ call.op \/ <<call.callee, j>> \in Recorded
  BY <1>4
<1>6. Counts(call, j, summaries)
  <2>1. CASE call.op
    BY <2>1 DEF Counts
  <2>2. CASE <<call.callee, j>> \in Recorded
    <3>1. PICK c : c = call.callee
      OBVIOUS
    <3>2. PICK x : x = <<c, j>>
      OBVIOUS
    <3>3. x[1] \in AppFuncs /\ x[2] \in summaries[x[1]].params
      BY <2>2, <3>1, <3>2 DEF Recorded
    <3>4. x[1] = c /\ x[2] = j
      BY <3>2
    <3> QED BY <3>1, <3>3, <3>4 DEF Counts
  <2> QED BY <1>5, <2>1, <2>2
<1>7. h[2] # 0
  BY <1>1, <1>3, PairsAreFinite
<1>8. h[2] \in summaries[h[1]].params
  BY <1>2, <1>3, <1>5, <1>6, <1>7 DEF Follows
<1> QED BY <1>3, <1>8 DEF Recorded

(* find_orphaned_database_models: in whatever order the functions come, a   *)
(* model is never reported while a chain of at most MaxPasses functions     *)
(* hands it on to an operation, and nothing is recorded that reaches none.  *)
THEOREM WrappersAreFollowed == SpecOrm => []WrappedUseIsKept
<1>1. OrmInv => WrappedUseIsKept
  <2> SUFFICES ASSUME OrmInv PROVE WrappedUseIsKept
    OBVIOUS
  <2>1. app.body \in Bodies /\ pass \in Nat
    BY TypedFacts DEF OrmInv
  <2>2. ASSUME verdict \in {"kept", "no_references", "no_orm_usage"}
        PROVE  /\ Handed(MaxPasses) \subseteq Recorded
               /\ Recorded \subseteq AllHanded
               /\ ~changed => Recorded = AllHanded
    <3>1. turn > Len(order) /\ ~Again
      BY <2>2 DEF OrmInv, VerdictInv
    <3>2. ASSUME NEW h \in Recorded
          PROVE  h \in AllHanded
      <4>1. h \in AppFuncs \X ParamIndexes /\ h[2] \in summaries[h[1]].params
        BY DEF Recorded
      <4>2. <<h[1], h[2]>> \in AllHanded
        BY <4>1 DEF OrmInv, PassesInv, Within
      <4>3. h = <<h[1], h[2]>>
        BY <4>1
      <4> QED BY <4>2, <4>3
    <3>3. ASSUME ~changed, NEW n \in Nat
          PROVE  Handed(n) \subseteq Recorded
      BY <3>1, <3>3, QuietIsClosed, HandedIsLeast
    <3>4. ASSUME ~changed
          PROVE  AllHanded \subseteq Recorded
      <4>1. Cardinality(AppFuncs) \in Nat /\ Cardinality(ParamIndexes) \in Nat
        BY <2>1, PairsAreFinite, FS_CardinalityType
      <4>2. PICK n \in Nat : n = Cardinality(AppFuncs) * (Cardinality(ParamIndexes) + 1)
        BY <4>1
      <4> QED BY <3>3, <3>4, <4>2 DEF AllHanded
    <3>5. Handed(MaxPasses) \subseteq Recorded
      <4>1. CASE ~changed
        BY <3>3, <4>1, MaxPassesAssumption
      <4>2. CASE changed
        <5>1. pass = MaxPasses
          <6>1. pass \in 1..MaxPasses
            BY DEF OrmInv, OrmTyped, InPlace
          <6>2. ~(pass < MaxPasses)
            BY <3>1, <4>2 DEF Again
          <6> QED BY <6>1, <6>2, MaxPassesAssumption
        <5>2. Has(summaries, Handed(pass))
          BY <3>1, AllTurns
        <5>3. Handed(pass) \subseteq AppFuncs \X ParamIndexes
          BY <2>1, HandedFacts DEF Pairs
        <5> QED BY <5>1, <5>2, <5>3 DEF Has, Recorded
      <4> QED BY <4>1, <4>2
    <3> QED BY <3>2, <3>4, <3>5
  <2>3. ASSUME verdict \in {"no_references", "no_orm_usage"}
        PROVE  /\ app.migrations # "table"
               /\ \A f \in AppFuncs : \A call \in CallsIn(f) : \A j \in DOMAIN call.args :
                      call.args[j].model => ~call.op /\ <<call.callee, j>> \notin Handed(MaxPasses)
    <3>1. app.migrations # "table" /\ ~hasOrmUsage
      BY <2>3 DEF OrmInv, VerdictInv
    <3>2. ASSUME NEW f \in AppFuncs, NEW call \in CallsIn(f), NEW j \in DOMAIN call.args,
                 call.args[j].model
          PROVE  ~call.op /\ <<call.callee, j>> \notin Handed(MaxPasses)
      <4>1. ~callUsesModelInOrm(call)
        BY <3>1 DEF hasOrmUsage
      <4>2. ~call.op
        BY <3>2, <4>1 DEF callUsesModelInOrm
      <4>3. ASSUME <<call.callee, j>> \in Handed(MaxPasses)
            PROVE  FALSE
        <5>1. <<call.callee, j>> \in Recorded
          BY <2>2, <2>3, <4>3
        <5>2. PICK c : c = call.callee
          OBVIOUS
        <5>3. PICK x : x = <<c, j>>
          OBVIOUS
        <5>4. x[1] \in AppFuncs /\ x[2] \in summaries[x[1]].params
          BY <5>1, <5>2, <5>3 DEF Recorded
        <5>5. x[1] = c /\ x[2] = j
          BY <5>3
        <5> QED BY <3>2, <4>1, <5>2, <5>4, <5>5 DEF callUsesModelInOrm, callArgIndexForCalleeParam
      <4> QED BY <4>2, <4>3
    <3> QED BY <3>1, <3>2
  <2> QED BY <2>2, <2>3 DEF WrappedUseIsKept
<1> QED BY <1>1, OrmIsInvariant, PTL

-----------------------------------------------------------------------------
(* The scan of a Go program.                                               *)

Kinds == {"param", "alloc", "freevar", "unknown"}
Keys == [kind : Kinds, id : GoFunctions, field : DataFields \cup LockFields \cup {""}]
KeyLocks == [key : Keys, read : BOOLEAN]
MemoryAccesses == [key : Keys, write : BOOLEAN, atomic : BOOLEAN, locks : SUBSET KeyLocks]
StaticCalls == [callee : GoFunctions, locks : SUBSET KeyLocks]
Scans == [locks : SUBSET KeyLocks, accesses : SUBSET MemoryAccesses, calls : SUBSET StaticCalls]

LEMMA ProgramFacts ==
    ASSUME NEW p \in GoPrograms
    PROVE  /\ p.body \in [GoFunctions -> Seq(GoInstructions)]
           /\ \A f \in GoFunctions : rootKey(p, f).kind \in Kinds \ {"unknown"} /\ rootKey(p, f).id = f
           /\ \A f \in GoFunctions : \A x \in DataFields \cup LockFields \cup {""} :
                  memoryKey(p, f, x) \in Keys
<1>1. /\ p.body \in [GoFunctions -> Seq(GoInstructions)]
      /\ p.root \in {"param", "alloc"}
  BY GoProgramsAssumption
<1>2. ASSUME NEW f \in GoFunctions
      PROVE  rootKey(p, f).kind \in Kinds \ {"unknown"} /\ rootKey(p, f).id = f
  BY <1>1 DEF rootKey, Kinds
<1>3. ASSUME NEW f \in GoFunctions, NEW x \in DataFields \cup LockFields \cup {""}
      PROVE  memoryKey(p, f, x) \in Keys
  BY <1>2 DEF memoryKey, Keys
<1> QED BY <1>1, <1>2, <1>3

(* The lock m of the object, as f calls it, held for writing.              *)
Held(p, f, m) == Lock(memoryKey(p, f, m), FALSE)

(* One instruction adds at most one access, under the locks held there, or *)
(* one call, and before it a load of a captured pointer; only an unlock    *)
(* gives up a lock.                                                        *)
Grows(p, f, s, instr, r) ==
    /\ r \in Scans
    /\ \A a \in r.accesses :
           \/ a \in s.accesses
           \/ /\ instr.op \in Accesses /\ a.locks = s.locks
              /\ a.key.kind = rootKey(p, f).kind /\ a.key.id = f /\ a.key.field # ""
           \/ /\ instr.op = "DynCall" /\ a.locks = s.locks
              /\ a.key.kind = "unknown" /\ a.key.id = f /\ a.key.field = ""
           \/ /\ f = "main" /\ Spilled(p) /\ ~a.write
              /\ a.key.kind = rootKey(p, f).kind /\ a.key.id = f /\ a.key.field = ""
    /\ \A c \in r.calls : c \in s.calls \/ instr = [op |-> "Call", on |-> c.callee]
    /\ \A m \in LockFields :
           /\ Held(p, f, m) \in s.locks /\ instr # [op |-> "Unlock", on |-> m]
              => Held(p, f, m) \in r.locks
           /\ instr = [op |-> "Lock", on |-> m] => Held(p, f, m) \in r.locks

LEMMA InstrFacts ==
    ASSUME NEW p \in GoPrograms, NEW f \in GoFunctions, NEW s \in Scans,
           NEW instr \in GoInstructions
    PROVE  Grows(p, f, s, instr, recordInstr(p, f, s, instr))
<1>1. PICK r : r = recordInstr(p, f, s, instr)
  OBVIOUS
<1> SUFFICES Grows(p, f, s, instr, r)
  BY <1>1
<1>2. \A x \in DataFields \cup LockFields \cup {""} :
          memoryKey(p, f, x) \in Keys /\ memoryKey(p, f, x).field = x
          /\ memoryKey(p, f, x).kind = rootKey(p, f).kind /\ memoryKey(p, f, x).id = f
  BY ProgramFacts DEF memoryKey
<1>3. s.locks \in SUBSET KeyLocks /\ s.accesses \in SUBSET MemoryAccesses /\ s.calls \in SUBSET StaticCalls
  BY DEF Scans
<1>4. CASE instr.op \in Accesses
  <2>1. PICK a : a = recordAccess(p, f, s, instr)
    OBVIOUS
  <2>2. instr.on \in DataFields
    BY <1>4 DEF GoInstructions, Accesses, Loads, Stores, LockCalls
  <2>3. a \in MemoryAccesses /\ a.locks = s.locks
        /\ a.key.kind = rootKey(p, f).kind /\ a.key.id = f /\ a.key.field # ""
    <3>1. PICK k \in Keys : /\ k = memoryKey(p, f, instr.on) /\ k.kind = rootKey(p, f).kind
                            /\ k.id = f /\ k.field # ""
      BY <1>2, <2>2, FieldsAssumption
    <3>2. a = [key |-> k, write |-> instr.op \in Stores,
               atomic |-> instr.op \in {"AtomicLoad", "AtomicStore"}, locks |-> s.locks]
      BY <2>1, <3>1, Zenon DEF recordAccess
    <3>3. \A w \in BOOLEAN : \A o \in BOOLEAN :
              [key |-> k, write |-> w, atomic |-> o, locks |-> s.locks] \in MemoryAccesses
      BY <1>3 DEF MemoryAccesses
    <3>4. a \in MemoryAccesses
      <4>1. (instr.op \in Stores) \in BOOLEAN
            /\ (instr.op \in {"AtomicLoad", "AtomicStore"}) \in BOOLEAN
        OBVIOUS
      <4> QED BY <3>2, <3>3, <4>1, Zenon
    <3>5. a.key = k /\ a.locks = s.locks
      BY <3>2
    <3> QED BY <3>1, <3>4, <3>5
  <2>4. r = [s EXCEPT !.accesses = @ \cup {a}]
    BY <1>1, <1>4, <2>1 DEF recordInstr, Accesses, Loads, Stores
  <2>5. r \in Scans /\ r.locks = s.locks /\ r.calls = s.calls /\ r.accesses = s.accesses \cup {a}
    BY <1>3, <2>3, <2>4 DEF Scans
  <2>6. \A m : instr # [op |-> "Lock", on |-> m]
    BY <1>4 DEF Accesses, Loads, Stores
  <2> QED BY <1>4, <2>3, <2>5, <2>6 DEF Grows
<1>5. CASE instr.op = "DynCall"
  <2>1. PICK a : a = recordUnknownCallEffects(p, f, s)
    OBVIOUS
  <2>2. a \in MemoryAccesses /\ a.locks = s.locks
        /\ a.key.kind = "unknown" /\ a.key.id = f /\ a.key.field = ""
    <3>1. PICK k \in Keys : k = memoryKey(p, f, "") /\ k.id = f /\ k.field = ""
      BY <1>2
    <3>2. PICK j : j = [k EXCEPT !.kind = "unknown"]
      OBVIOUS
    <3>3. j \in Keys /\ j.kind = "unknown" /\ j.id = f /\ j.field = ""
      BY <3>1, <3>2 DEF Keys, Kinds
    <3>4. a = [key |-> j, write |-> TRUE, atomic |-> FALSE, locks |-> s.locks]
      BY <2>1, <3>1, <3>2 DEF recordUnknownCallEffects
    <3> QED BY <1>3, <3>3, <3>4 DEF MemoryAccesses
  <2>3. r = [s EXCEPT !.accesses = @ \cup {a}]
    BY <1>1, <1>5, <2>1 DEF recordInstr, Accesses, Loads, Stores
  <2>4. r \in Scans /\ r.locks = s.locks /\ r.calls = s.calls /\ r.accesses = s.accesses \cup {a}
    BY <1>3, <2>2, <2>3 DEF Scans
  <2>5. \A m : instr # [op |-> "Lock", on |-> m]
    BY <1>5
  <2> QED BY <1>5, <2>2, <2>4, <2>5 DEF Grows
<1>6. CASE instr.op = "Call"
  <2>1. PICK c : c = recordStaticCall(s, instr)
    OBVIOUS
  <2>2. instr.on \in GoFunctions /\ instr = [op |-> "Call", on |-> instr.on]
    BY <1>6 DEF GoInstructions, Accesses, Loads, Stores, LockCalls
  <2>3. c \in StaticCalls /\ c.callee = instr.on
    BY <1>3, <2>1, <2>2 DEF recordStaticCall, StaticCalls
  <2>4. r = [s EXCEPT !.calls = @ \cup {c}]
    BY <1>1, <1>6, <2>1 DEF recordInstr, Accesses, Loads, Stores
  <2>5. r \in Scans /\ r.locks = s.locks /\ r.accesses = s.accesses /\ r.calls = s.calls \cup {c}
    BY <1>3, <2>3, <2>4 DEF Scans
  <2>6. \A m : instr # [op |-> "Lock", on |-> m]
    BY <1>6
  <2> QED BY <2>2, <2>3, <2>5, <2>6 DEF Grows
<1>7. CASE instr.op = "Go"
  <2>1. r = s
    BY <1>1, <1>7 DEF recordInstr, Accesses, Loads, Stores
  <2>2. \A m : instr # [op |-> "Lock", on |-> m]
    BY <1>7
  <2> QED BY <1>7, <2>1, <2>2 DEF Grows
<1>8. CASE instr.op \in LockCalls
  <2>1. instr.on \in LockFields /\ instr = [op |-> instr.op, on |-> instr.on]
    BY <1>8 DEF GoInstructions, Accesses, Loads, Stores, LockCalls
  <2>2. PICK k \in Keys : k = memoryKey(p, f, instr.on)
    BY <1>2, <2>1
  <2>3. \A read \in BOOLEAN : Lock(k, read) \in KeyLocks
    BY DEF Lock, KeyLocks
  <2>4. r = recordLockCall(p, f, s, instr)
    BY <1>1, <1>8 DEF recordInstr, Accesses, Loads, Stores, LockCalls
  <2>5. /\ instr.op = "Lock" => r = addLock(s, Lock(k, FALSE))
        /\ instr.op = "RLock" => r = addLock(s, Lock(k, TRUE))
        /\ instr.op = "Unlock" => r = removeLock(s, Lock(k, FALSE))
        /\ instr.op = "RUnlock" => r = removeLock(s, Lock(k, TRUE))
        /\ instr.op \in {"DeferUnlock", "DeferRUnlock"} => r = s
    BY <2>2, <2>4 DEF recordLockCall
  <2>6. \A l \in KeyLocks :
            /\ addLock(s, l) \in Scans /\ addLock(s, l).locks = s.locks \cup {l}
            /\ addLock(s, l).accesses = s.accesses /\ addLock(s, l).calls = s.calls
            /\ removeLock(s, l) \in Scans /\ removeLock(s, l).locks = s.locks \ {l}
            /\ removeLock(s, l).accesses = s.accesses /\ removeLock(s, l).calls = s.calls
    BY <1>3 DEF addLock, removeLock, Scans
  <2>7. /\ r \in Scans /\ r.accesses = s.accesses /\ r.calls = s.calls
        /\ instr.op = "Lock" => r.locks = s.locks \cup {Lock(k, FALSE)}
        /\ instr.op = "RLock" => r.locks = s.locks \cup {Lock(k, TRUE)}
        /\ instr.op = "Unlock" => r.locks = s.locks \ {Lock(k, FALSE)}
        /\ instr.op = "RUnlock" => r.locks = s.locks \ {Lock(k, TRUE)}
        /\ instr.op \in {"DeferUnlock", "DeferRUnlock"} => r.locks = s.locks
    BY <1>8, <2>3, <2>5, <2>6 DEF LockCalls
  <2>8. ASSUME NEW m \in LockFields
        PROVE  /\ Held(p, f, m) \in s.locks /\ instr # [op |-> "Unlock", on |-> m]
                  => Held(p, f, m) \in r.locks
               /\ instr = [op |-> "Lock", on |-> m] => Held(p, f, m) \in r.locks
    <3>1. PICK j \in Keys : j = memoryKey(p, f, m)
      BY <1>2
    <3>2. j = k => instr.on = m
      BY <1>2, <2>1, <2>2, <3>1
    <3>3. Held(p, f, m) = Lock(j, FALSE) /\ Lock(j, FALSE) # Lock(k, TRUE)
          /\ (Lock(j, FALSE) = Lock(k, FALSE) => j = k)
      BY <3>1 DEF Held, Lock
    <3>4. CASE instr = [op |-> "Lock", on |-> m]
      <4>1. instr.op = "Lock" /\ instr.on = m
        BY <3>4
      <4> QED BY <2>2, <2>7, <3>1, <3>3, <4>1
    <3>5. CASE instr # [op |-> "Lock", on |-> m]
      <4>1. instr # [op |-> "Unlock", on |-> m] => ~(instr.op = "Unlock" /\ instr.on = m)
        BY <2>1
      <4> QED BY <1>8, <2>7, <3>2, <3>3, <3>5, <4>1 DEF LockCalls
    <3> QED BY <3>4, <3>5
  <2> QED BY <2>7, <2>8 DEF Grows
<1>9. instr.op \in Accesses \cup {"DynCall", "Call", "Go"} \cup LockCalls
  BY DEF GoInstructions
<1> QED BY <1>4, <1>5, <1>6, <1>7, <1>8, <1>9

(* The load of a captured pointer adds a read, and nothing else.           *)
Reads(p, f, s, r) ==
    /\ r \in Scans /\ r.locks = s.locks /\ r.calls = s.calls
    /\ s.accesses \subseteq r.accesses
    /\ \A a \in r.accesses :
           \/ a \in s.accesses
           \/ /\ f = "main" /\ Spilled(p) /\ ~a.write
              /\ a.key.kind = rootKey(p, f).kind /\ a.key.id = f /\ a.key.field = ""

LEMMA ReadFacts ==
    ASSUME NEW p \in GoPrograms, NEW f \in GoFunctions, NEW s \in Scans,
           NEW instr \in GoInstructions
    PROVE  Reads(p, f, s, recordRead(p, f, s, instr))
<1>1. PICK r : r = recordRead(p, f, s, instr)
  OBVIOUS
<1> SUFFICES Reads(p, f, s, r)
  BY <1>1
<1>2. PICK k \in Keys : /\ k = memoryKey(p, f, "") /\ k.kind = rootKey(p, f).kind
                        /\ k.id = f /\ k.field = ""
  <2>1. memoryKey(p, f, "") \in Keys
    BY ProgramFacts
  <2>2. /\ memoryKey(p, f, "").kind = rootKey(p, f).kind
        /\ memoryKey(p, f, "").id = f /\ memoryKey(p, f, "").field = ""
    BY DEF memoryKey
  <2> QED BY <2>1, <2>2
<1>3. s.locks \in SUBSET KeyLocks /\ s.accesses \in SUBSET MemoryAccesses /\ s.calls \in SUBSET StaticCalls
  BY DEF Scans
<1>4. PICK a : a = [key |-> k, write |-> FALSE, atomic |-> FALSE, locks |-> s.locks]
  OBVIOUS
<1>5. a \in MemoryAccesses /\ ~a.write /\ a.key = k
  BY <1>3, <1>4 DEF MemoryAccesses
<1>6. CASE f = "main" /\ Spilled(p) /\ instr.op # "Go"
  <2>1. r = [s EXCEPT !.accesses = @ \cup {a}]
    BY <1>1, <1>2, <1>4, <1>6 DEF recordRead
  <2>2. r \in Scans /\ r.locks = s.locks /\ r.calls = s.calls /\ r.accesses = s.accesses \cup {a}
    BY <1>3, <1>5, <2>1 DEF Scans
  <2> QED BY <1>2, <1>5, <1>6, <2>2 DEF Reads
<1>7. CASE ~(f = "main" /\ Spilled(p) /\ instr.op # "Go")
  <2>1. r = s
    BY <1>1, <1>7 DEF recordRead
  <2> QED BY <2>1 DEF Reads
<1> QED BY <1>6, <1>7

LEMMA RecordFacts ==
    ASSUME NEW p \in GoPrograms, NEW f \in GoFunctions, NEW s \in Scans,
           NEW instr \in GoInstructions
    PROVE  Grows(p, f, s, instr, Record(p, f, s, instr))
<1>1. PICK t : t = recordRead(p, f, s, instr)
  OBVIOUS
<1>2. /\ t \in Scans /\ t.locks = s.locks /\ t.calls = s.calls
      /\ \A a \in t.accesses :
             \/ a \in s.accesses
             \/ /\ f = "main" /\ Spilled(p) /\ ~a.write
                /\ a.key.kind = rootKey(p, f).kind /\ a.key.id = f /\ a.key.field = ""
  <2>1. Reads(p, f, s, t)
    BY <1>1, ReadFacts
  <2> QED BY <2>1 DEF Reads
<1>3. PICK r : r = recordInstr(p, f, t, instr)
  OBVIOUS
<1>4. Grows(p, f, t, instr, r)
  BY <1>2, <1>3, InstrFacts
<1>5. Grows(p, f, s, instr, r)
  BY <1>2, <1>4 DEF Grows
<1> QED BY <1>1, <1>3, <1>5 DEF Record

(* What the scan of f knows after each of its instructions.                *)
Scanned(p, f, T) ==
    LET body == p.body[f]
    IN  /\ T \in [Nat -> Scans] /\ T[0] = [locks |-> {}, accesses |-> {}, calls |-> {}]
        /\ \A n \in Nat : n < Len(body) => T[n + 1] = Record(p, f, T[n], body[n + 1])
        /\ scan(p, f) = T[Len(body)]

LEMMA ScanUnfolds ==
    ASSUME NEW p \in GoPrograms, NEW f \in GoFunctions
    PROVE  \E T : Scanned(p, f, T)
<1>1. PICK b : b = p.body[f]
  OBVIOUS
<1>2. PICK N \in Nat : N = Len(b) /\ DOMAIN b = 1..N
  <2>1. b \in Seq(GoInstructions)
    BY <1>1, ProgramFacts
  <2> QED BY <2>1, LenProperties
<1>3. \A n \in 1..N : b[n] \in GoInstructions
  <2>1. b \in Seq(GoInstructions)
    BY <1>1, ProgramFacts
  <2> QED BY <1>2, <2>1, ElementOfSeq
<1>4. PICK a \in Scans : a = [locks |-> {}, accesses |-> {}, calls |-> {}]
  BY DEF Scans
<1>5. PICK F : F = [n \in Nat |-> [s \in Scans |->
                       IF n < N THEN Record(p, f, s, b[n + 1]) ELSE s]]
  OBVIOUS
<1>6. \A n \in Nat : n < N => n + 1 \in 1..N
  BY <1>2
<1>7. \A n \in Nat : n < N => \A s \in Scans : Record(p, f, s, b[n + 1]) \in Scans
  <2>1. SUFFICES ASSUME NEW n \in Nat, n < N, NEW s \in Scans
                 PROVE  Record(p, f, s, b[n + 1]) \in Scans
    OBVIOUS
  <2>2. b[n + 1] \in GoInstructions
    BY <1>3, <1>6, <2>1
  <2> QED BY <2>2, RecordFacts DEF Grows
<1>8. F \in [Nat -> [Scans -> Scans]]
  BY <1>5, <1>7
<1>9. PICK T : Sequel(T, Scans, a, F)
  BY <1>8, RunExists
<1>10. /\ T \in [Nat -> Scans] /\ T[0] = a
       /\ \A n \in Nat : n < N => T[n + 1] = Record(p, f, T[n], b[n + 1])
  BY <1>5, <1>9 DEF Sequel
<1>11. scan(p, f) = T[N]
  <2> DEFINE Chain(L) == [n \in 0..Len(p.body[f]) |->
                 IF n = 0 THEN [locks |-> {}, accesses |-> {}, calls |-> {}]
                 ELSE Record(p, f, L[n - 1], p.body[f][n])]
  <2>1. PICK L : L = CHOOSE X : X = Chain(X)
    OBVIOUS
  <2>2. scan(p, f) = L[N]
    BY <1>1, <1>2, <2>1 DEF scan
  <2>3. \A X : Chain(X) = [n \in 0..N |-> IF n = 0 THEN a ELSE Record(p, f, X[n - 1], b[n])]
    BY <1>1, <1>2, <1>4
  <2> HIDE DEF Chain
  <2> DEFINE M == [n \in 0..N |-> T[n]]
  <2>4. M = Chain(M)
    <3>1. ASSUME NEW n \in 0..N
          PROVE  M[n] = IF n = 0 THEN a ELSE Record(p, f, M[n - 1], b[n])
      <4>1. CASE n = 0
        BY <1>10, <4>1
      <4>2. CASE n # 0
        <5>1. n - 1 \in Nat /\ n - 1 \in 0..N /\ n - 1 < N /\ n - 1 + 1 = n
          BY <1>2, <4>2
        <5>2. T[n] = Record(p, f, T[n - 1], b[n])
          BY <1>10, <5>1
        <5> QED BY <4>2, <5>1, <5>2
      <4> QED BY <4>1, <4>2
    <3>2. M = [n \in 0..N |-> M[n]]
      OBVIOUS
    <3> HIDE DEF M
    <3> QED BY <2>3, <3>1, <3>2
  <2>5. L = Chain(L)
    <3> HIDE DEF M
    <3> QED BY <2>1, <2>4
  <2>6. \A n \in 0..N : L[n] = IF n = 0 THEN a ELSE Record(p, f, L[n - 1], b[n])
    BY <2>3, <2>5
  <2> DEFINE G == {n \in Nat : n <= N => L[n] = T[n]}
  <2>7. 0 \in G
    <3>1. 0 \in 0..N
      OBVIOUS
    <3>2. L[0] = a
      BY <2>6, <3>1
    <3> QED BY <1>10, <3>2
  <2>8. ASSUME NEW n \in Nat, n \in G PROVE n + 1 \in G
    <3>1. SUFFICES ASSUME n + 1 <= N PROVE L[n + 1] = T[n + 1]
      OBVIOUS
    <3>2. L[n] = T[n] /\ n + 1 \in 0..N /\ n + 1 # 0 /\ n + 1 - 1 = n /\ n < N
      BY <1>2, <2>8, <3>1
    <3>3. L[n + 1] = Record(p, f, L[n], b[n + 1])
      BY <2>6, <3>2
    <3> QED BY <1>10, <3>2, <3>3
  <2>9. Nat \subseteq G
    <3> HIDE DEF G
    <3> QED BY <2>7, <2>8, SetInduction
  <2> QED BY <2>2, <2>9
<1> QED BY <1>1, <1>2, <1>4, <1>10, <1>11 DEF Scanned

-----------------------------------------------------------------------------
(* Programs in which every function takes one and the same lock.           *)

LockedBy(m) ==
    \A f \in GoFunctions : \A i \in DOMAIN code.body[f] :
        LET op == code.body[f][i].op
        IN  /\ op \in Accesses \cup {"DynCall"} => Holding(code, f, i, m, FALSE)
            /\ op = "DynCall" => Traced(code, f) /\ ~(f = "worker" /\ Spilled(code))

(* What is known of an access in f: it is done under the lock, and it is an *)
(* unresolved call only where nobody else sees the object by that name; or *)
(* it is a load of the captured pointer by main.                           *)
Safe(f, m, a) ==
    /\ a.key.id = f
    /\ \/ /\ Held(code, f, m) \in a.locks
          /\ \/ a.key.kind = rootKey(code, f).kind /\ a.key.field # ""
             \/ /\ a.key.kind = "unknown" /\ a.key.field = ""
                /\ Traced(code, f) /\ ~(f = "worker" /\ Spilled(code))
       \/ /\ Spilled(code) /\ (f = "main" \/ Called(code, "main"))
          /\ ~a.write /\ a.key.kind = rootKey(code, f).kind /\ a.key.field = ""

LEMMA ScanFacts ==
    ASSUME code \in GoPrograms, NEW f \in GoFunctions, NEW m \in LockFields, LockedBy(m)
    PROVE  /\ scan(code, f) \in Scans
           /\ \A a \in scan(code, f).accesses : Safe(f, m, a)
           /\ \A c \in scan(code, f).calls : Called(code, c.callee)
<1>1. PICK b : b = code.body[f]
  OBVIOUS
<1>2. PICK N \in Nat : N = Len(b) /\ DOMAIN b = 1..N
  <2>1. b \in Seq(GoInstructions)
    BY <1>1, ProgramFacts
  <2> QED BY <2>1, LenProperties
<1>3. \A n \in 1..N : b[n] \in GoInstructions
  <2>1. b \in Seq(GoInstructions)
    BY <1>1, ProgramFacts
  <2> QED BY <1>2, <2>1, ElementOfSeq
<1>4. \A n \in Nat : n < N => n + 1 \in 1..N
  BY <1>2
<1>5. PICK T : Scanned(code, f, T)
  BY ScanUnfolds
<1>6. /\ T \in [Nat -> Scans] /\ T[0] = [locks |-> {}, accesses |-> {}, calls |-> {}]
      /\ \A n \in Nat : n < N => T[n + 1] = Record(code, f, T[n], b[n + 1])
      /\ scan(code, f) = T[N]
  BY <1>1, <1>2, <1>5 DEF Scanned
<1>7. PICK H : H = Held(code, f, m)
  OBVIOUS
<1>8. ASSUME NEW n \in Nat, n < N
       PROVE  /\ \A x \in T[n + 1].accesses :
                     \/ x \in T[n].accesses
                     \/ /\ b[n + 1].op \in Accesses /\ x.locks = T[n].locks
                        /\ x.key.kind = rootKey(code, f).kind /\ x.key.id = f /\ x.key.field # ""
                     \/ /\ b[n + 1].op = "DynCall" /\ x.locks = T[n].locks
                        /\ x.key.kind = "unknown" /\ x.key.id = f /\ x.key.field = ""
                     \/ /\ f = "main" /\ Spilled(code) /\ ~x.write
                        /\ x.key.kind = rootKey(code, f).kind /\ x.key.id = f /\ x.key.field = ""
              /\ \A c \in T[n + 1].calls :
                     c \in T[n].calls \/ b[n + 1] = [op |-> "Call", on |-> c.callee]
              /\ H \in T[n].locks /\ b[n + 1] # [op |-> "Unlock", on |-> m] => H \in T[n + 1].locks
              /\ b[n + 1] = [op |-> "Lock", on |-> m] => H \in T[n + 1].locks
  <2>1. PICK instr \in GoInstructions : instr = b[n + 1]
    BY <1>3, <1>4, <1>8
  <2>2. PICK s \in Scans : s = T[n]
    BY <1>6
  <2>3. PICK r : r = Record(code, f, s, instr)
    OBVIOUS
  <2>4. T[n + 1] = r
    BY <1>6, <1>8, <2>1, <2>2, <2>3
  <2>5. Grows(code, f, s, instr, r)
    BY <2>3, RecordFacts
  <2> QED BY <1>7, <2>1, <2>2, <2>4, <2>5 DEF Grows
<1>9. ASSUME NEW i \in 1..N, Holding(code, f, i, m, FALSE)
       PROVE  H \in T[i - 1].locks
  <2>1. PICK j \in 1..(i - 1) :
            /\ b[j] = [op |-> "Lock", on |-> m]
            /\ \A k \in j..(i - 1) : b[k] # [op |-> "Unlock", on |-> m]
    BY <1>1, <1>9 DEF Holding
  <2>2. i \in Nat /\ j \in Nat /\ 1 <= j /\ j <= i - 1 /\ i <= N
    BY <1>2, <2>1
  <2> DEFINE G == {n \in Nat : j <= n /\ n < i => H \in T[n].locks}
  <2>3. 0 \in G
    BY <2>2
  <2>4. ASSUME NEW n \in Nat, n \in G PROVE n + 1 \in G
    <3>1. SUFFICES ASSUME j <= n + 1, n + 1 < i PROVE H \in T[n + 1].locks
      OBVIOUS
    <3>2. n < N /\ n < i /\ n + 1 \in j..(i - 1)
      BY <1>2, <2>2, <3>1
    <3>3. CASE j = n + 1
      BY <1>8, <2>1, <3>2, <3>3
    <3>4. CASE j # n + 1
      <4>1. j <= n
        BY <2>2, <3>1, <3>4
      <4>2. H \in T[n].locks
        BY <2>4, <3>2, <4>1
      <4>3. b[n + 1] # [op |-> "Unlock", on |-> m]
        BY <2>1, <3>2
      <4> QED BY <1>8, <3>2, <4>2, <4>3
    <3> QED BY <3>3, <3>4
  <2>5. Nat \subseteq G
    <3> HIDE DEF G
    <3> QED BY <2>3, <2>4, SetInduction
  <2>6. i - 1 \in Nat /\ j <= i - 1 /\ i - 1 < i
    BY <2>2
  <2>7. i - 1 \in G
    <3> HIDE DEF G
    <3> QED BY <2>5, <2>6
  <2> QED BY <2>6, <2>7
<1>10. \A x \in T[N].accesses : Safe(f, m, x)
  <2> DEFINE G == {n \in Nat : n <= N => \A x \in T[n].accesses : Safe(f, m, x)}
  <2>1. 0 \in G
    BY <1>6
  <2>2. ASSUME NEW n \in Nat, n \in G PROVE n + 1 \in G
    <3>1. SUFFICES ASSUME n + 1 <= N, NEW x \in T[n + 1].accesses PROVE Safe(f, m, x)
      OBVIOUS
    <3>2. n < N /\ n <= N /\ n + 1 \in 1..N /\ n + 1 - 1 = n
      BY <1>2, <3>1
    <3>3. /\ b[n + 1].op \in Accesses \cup {"DynCall"} => Holding(code, f, n + 1, m, FALSE)
          /\ b[n + 1].op = "DynCall" => Traced(code, f) /\ ~(f = "worker" /\ Spilled(code))
      BY <1>1, <1>2, <3>2 DEF LockedBy
    <3>4. ASSUME b[n + 1].op \in Accesses \cup {"DynCall"} PROVE H \in T[n].locks
      <4>1. PICK i \in 1..N : i = n + 1
        BY <3>2
      <4>2. Holding(code, f, i, m, FALSE)
        BY <3>3, <3>4, <4>1
      <4>3. H \in T[i - 1].locks
        BY <1>9, <4>2, Zenon
      <4>4. i - 1 = n
        BY <3>2, <4>1
      <4> QED BY <4>3, <4>4
    <3>5. CASE x \in T[n].accesses
      BY <2>2, <3>2, <3>5
    <3>6. CASE x \notin T[n].accesses
      BY <1>7, <1>8, <3>1, <3>2, <3>3, <3>4, <3>6 DEF Safe
    <3> QED BY <3>5, <3>6
  <2>3. Nat \subseteq G
    <3> HIDE DEF G
    <3> QED BY <2>1, <2>2, SetInduction
  <2> QED BY <2>3
<1>11. \A c \in T[N].calls : Called(code, c.callee)
  <2> DEFINE G == {n \in Nat : n <= N => \A c \in T[n].calls : Called(code, c.callee)}
  <2>1. 0 \in G
    BY <1>6
  <2>2. ASSUME NEW n \in Nat, n \in G PROVE n + 1 \in G
    <3>1. SUFFICES ASSUME n + 1 <= N, NEW c \in T[n + 1].calls PROVE Called(code, c.callee)
      OBVIOUS
    <3>2. n < N /\ n <= N /\ n + 1 \in 1..N
      BY <1>2, <3>1
    <3>3. CASE c \in T[n].calls
      BY <2>2, <3>2, <3>3
    <3>4. CASE c \notin T[n].calls
      <4>1. b[n + 1] = [op |-> "Call", on |-> c.callee]
        BY <1>8, <3>1, <3>2, <3>4
      <4> QED BY <1>1, <1>2, <3>2, <4>1 DEF Called
    <3> QED BY <3>3, <3>4
  <2>3. Nat \subseteq G
    <3> HIDE DEF G
    <3> QED BY <2>1, <2>2, SetInduction
  <2> QED BY <2>3
<1>12. scan(code, f) = T[N] /\ T[N] \in Scans
  BY <1>2, <1>6
<1> QED BY <1>10, <1>11, <1>12

(* An access of g, as f calls the object: the lock stays the same lock.    *)
Renamed(y, g, f, bound, x) ==
    /\ x \in MemoryAccesses /\ x.write = y.write /\ x.key.field = y.key.field
    /\ \A m \in LockFields : Held(code, g, m) \in y.locks => Held(code, f, m) \in x.locks
    /\ y.key.id = g /\ y.key.kind # "unknown" => x.key.kind = rootKey(code, f).kind /\ x.key.id = f
    /\ y.key.id = g /\ y.key.kind = "unknown" /\ bound
       => x.key.kind = "unknown" /\ x.key.id = f

LEMMA SubstituteFacts ==
    ASSUME code \in GoPrograms, NEW g \in GoFunctions, NEW f \in GoFunctions,
           NEW bound \in BOOLEAN, NEW A \in SUBSET MemoryAccesses,
           NEW x \in Substitute(A, g, rootKey(code, f), bound)
    PROVE  \E y \in A : Renamed(y, g, f, bound, x)
<1>1. PICK root : root = rootKey(code, f)
  OBVIOUS
<1>2. root.kind \in Kinds \ {"unknown"} /\ root.id = f /\ root.id \in GoFunctions
  BY <1>1, ProgramFacts
<1>3. \A j \in Keys :
          /\ substituteRoot(j, g, root, bound) \in Keys
          /\ substituteRoot(j, g, root, bound).field = j.field
          /\ j.id = g /\ j.kind # "unknown"
             => substituteRoot(j, g, root, bound) = [kind |-> root.kind, id |-> f, field |-> j.field]
          /\ j.id = g /\ j.kind = "unknown" /\ bound
             => substituteRoot(j, g, root, bound) = [kind |-> "unknown", id |-> f, field |-> j.field]
  <2>1. SUFFICES ASSUME NEW j \in Keys
                 PROVE  /\ substituteRoot(j, g, root, bound) \in Keys
                        /\ substituteRoot(j, g, root, bound).field = j.field
                        /\ j.id = g /\ j.kind # "unknown" => substituteRoot(j, g, root, bound)
                               = [kind |-> root.kind, id |-> f, field |-> j.field]
                        /\ j.id = g /\ j.kind = "unknown" /\ bound
                           => substituteRoot(j, g, root, bound)
                               = [kind |-> "unknown", id |-> f, field |-> j.field]
    OBVIOUS
  <2>2. j = [kind |-> j.kind, id |-> j.id, field |-> j.field]
    BY DEF Keys
  <2>3. CASE j.id # g
    BY <2>3 DEF substituteRoot
  <2>4. CASE j.id = g /\ j.kind = "unknown"
    <3>1. PICK i \in GoFunctions : i = IF bound THEN root.id ELSE j.id
      BY <1>2 DEF Keys
    <3>2. substituteRoot(j, g, root, bound) = [j EXCEPT !.id = i]
      BY <2>4, <3>1 DEF substituteRoot
    <3>3. [j EXCEPT !.id = i] = [kind |-> j.kind, id |-> i, field |-> j.field]
      BY <2>2
    <3>4. [kind |-> j.kind, id |-> i, field |-> j.field] \in Keys
      BY DEF Keys
    <3> QED BY <1>2, <2>4, <3>1, <3>2, <3>3, <3>4
  <2>5. CASE j.id = g /\ j.kind # "unknown"
    <3>1. substituteRoot(j, g, root, bound) = [kind |-> root.kind, id |-> f, field |-> j.field]
      BY <1>2, <2>5 DEF substituteRoot
    <3>2. [kind |-> root.kind, id |-> f, field |-> j.field] \in Keys
      BY <1>2 DEF Keys
    <3> QED BY <2>5, <3>1, <3>2
  <2> QED BY <2>3, <2>4, <2>5
<1>4. PICK y \in A : x = [y EXCEPT !.key = substituteRoot(y.key, g, root, bound),
                                   !.locks = substituteLockset(y.locks, g, root, bound)]
  BY <1>1 DEF Substitute
<1>5. y.key \in Keys /\ y.locks \in SUBSET KeyLocks /\ y.write \in BOOLEAN /\ y.atomic \in BOOLEAN
  BY DEF MemoryAccesses
<1>6. PICK k : k = substituteRoot(y.key, g, root, bound)
  OBVIOUS
<1>7. PICK S : S = substituteLockset(y.locks, g, root, bound)
  OBVIOUS
<1>8. x = [key |-> k, write |-> y.write, atomic |-> y.atomic, locks |-> S]
  BY <1>4, <1>6, <1>7 DEF MemoryAccesses
<1>9. \A l \in y.locks : [l EXCEPT !.key = substituteRoot(l.key, g, root, bound)]
                         = [key |-> substituteRoot(l.key, g, root, bound), read |-> l.read]
  BY <1>5 DEF KeyLocks
<1>10. S \in SUBSET KeyLocks
  <2>1. S = {[l EXCEPT !.key = substituteRoot(l.key, g, root, bound)] : l \in y.locks}
    BY <1>7 DEF substituteLockset
  <2>2. \A l \in y.locks : [key |-> substituteRoot(l.key, g, root, bound), read |-> l.read] \in KeyLocks
    BY <1>3, <1>5 DEF KeyLocks
  <2>3. ASSUME NEW z \in S PROVE z \in KeyLocks
    <3>1. PICK l \in y.locks : z = [l EXCEPT !.key = substituteRoot(l.key, g, root, bound)]
      BY <2>1
    <3>2. z = [key |-> substituteRoot(l.key, g, root, bound), read |-> l.read]
      BY <1>9, <3>1
    <3> QED BY <2>2, <3>2
  <2> QED BY <2>3
<1>11. k \in Keys
  BY <1>3, <1>5, <1>6
<1>12. x \in MemoryAccesses /\ x.key = k /\ x.locks = S /\ x.write = y.write
  BY <1>5, <1>8, <1>10, <1>11 DEF MemoryAccesses
<1>13. ASSUME NEW m \in LockFields, Held(code, g, m) \in y.locks
       PROVE  Held(code, f, m) \in S
  <2>1. PICK j \in Keys : j = memoryKey(code, g, m)
    BY ProgramFacts
  <2>2. j.id = g /\ j.kind # "unknown" /\ j.field = m
    BY <2>1, ProgramFacts DEF memoryKey
  <2>3. substituteRoot(j, g, root, bound) = [kind |-> root.kind, id |-> f, field |-> m]
    BY <1>3, <2>2
  <2>4. memoryKey(code, f, m) = [kind |-> root.kind, id |-> f, field |-> m]
    BY <1>1 DEF memoryKey
  <2>5. PICK l \in y.locks : l = Held(code, g, m)
    BY <1>13
  <2>6. l.key = j /\ l.read = FALSE
    BY <2>1, <2>5 DEF Held, Lock
  <2>7. [l EXCEPT !.key = substituteRoot(l.key, g, root, bound)] = Held(code, f, m)
    BY <1>9, <2>3, <2>4, <2>6 DEF Held, Lock
  <2>8. [l EXCEPT !.key = substituteRoot(l.key, g, root, bound)] \in S
    BY <1>7 DEF substituteLockset
  <2> QED BY <2>7, <2>8
<1>14. /\ k.field = y.key.field
       /\ y.key.id = g /\ y.key.kind # "unknown" => k.kind = root.kind /\ k.id = f
       /\ y.key.id = g /\ y.key.kind = "unknown" /\ bound => k.kind = "unknown" /\ k.id = f
  BY <1>3, <1>5, <1>6
<1> QED BY <1>1, <1>12, <1>13, <1>14 DEF Renamed

(* What is handed up from the callees to f.                                *)
Inlined(E, f) ==
    UNION {mergeLocksets(Substitute(E[c.callee], c.callee, rootKey(code, f), FALSE), c.locks) :
               c \in scan(code, f).calls}

(* The accesses of every function, calls followed one level deeper.        *)
OwnAccesses == [f \in GoFunctions |-> scan(code, f).accesses]
Deeper(E) == [f \in GoFunctions |-> scan(code, f).accesses \cup Inlined(E, f)]

LEMMA ExpandedUnfolds ==
    ASSUME NEW R, OwnAccesses \in R, \A E \in R : Deeper(E) \in R
    PROVE  \E T \in [Nat -> R] :
               /\ T[0] = OwnAccesses
               /\ \A n \in Nat : T[n + 1] = Deeper(T[n])
               /\ Expanded(code) = T[MaxCallDepth]
<1>1. PICK A : A = OwnAccesses
  OBVIOUS
<1> DEFINE Step(E) == [f \in GoFunctions |-> A[f] \cup Inlined(E, f)]
<1>2. \A E : Step(E) = Deeper(E)
  BY <1>1 DEF Deeper, OwnAccesses
<1> HIDE DEF Step
<1>3. PICK F : F = [n \in Nat |-> [E \in R |-> Step(E)]]
  OBVIOUS
<1>4. PICK T : Sequel(T, R, A, F)
  <2>1. F \in [Nat -> [R -> R]]
    BY <1>2, <1>3
  <2> QED BY <1>1, <2>1, RunExists
<1>5. /\ T \in [Nat -> R] /\ T[0] = A
      /\ \A n \in Nat : T[n + 1] = Step(T[n])
  BY <1>3, <1>4 DEF Sequel
<1>6. PICK N \in Nat : N = MaxCallDepth
  BY MaxCallDepthAssumption
<1>7. Expanded(code) = T[N]
  <2> DEFINE Chain(L) == [d \in 0..N |-> IF d = 0 THEN A ELSE Step(L[d - 1])]
             Equation(X) == [d \in 0..N |->
                 [f \in GoFunctions |-> A[f] \cup (IF d = 0 THEN {} ELSE Inlined(X[d - 1], f))]]
  <2>1. \A X : \A d : d # 0 =>
            [f \in GoFunctions |-> A[f] \cup (IF d = 0 THEN {} ELSE Inlined(X[d - 1], f))] = Step(X[d - 1])
    BY DEF Step
  <2>2. [f \in GoFunctions |-> A[f] \cup {}] = A
    BY <1>1 DEF OwnAccesses
  <2>3. \A X : Equation(X) = Chain(X)
    <3>1. ASSUME NEW X, NEW d \in 0..N
          PROVE  [f \in GoFunctions |-> A[f] \cup (IF d = 0 THEN {} ELSE Inlined(X[d - 1], f))]
                 = IF d = 0 THEN A ELSE Step(X[d - 1])
      <4>1. CASE d = 0
        BY <2>2, <4>1
      <4>2. CASE d # 0
        BY <2>1, <4>2
      <4> QED BY <4>1, <4>2
    <3> QED BY <3>1
  <2>4. PICK L : L = CHOOSE X : X = Equation(X)
    OBVIOUS
  <2>5. Expanded(code) = L[N]
    BY <1>1, <1>6, <2>4 DEF Expanded, Inlined, OwnAccesses
  <2> HIDE DEF Chain, Equation
  <2> DEFINE M == [d \in 0..N |-> T[d]]
  <2>6. M = Chain(M)
    <3>1. ASSUME NEW d \in 0..N
          PROVE  M[d] = IF d = 0 THEN A ELSE Step(M[d - 1])
      <4>1. CASE d = 0
        BY <1>5, <4>1
      <4>2. CASE d # 0
        <5>1. d - 1 \in Nat /\ d - 1 \in 0..N /\ d - 1 + 1 = d
          BY <1>6, <4>2
        <5>2. T[d] = Step(T[d - 1])
          BY <1>5, <5>1
        <5> QED BY <4>2, <5>1, <5>2
      <4> QED BY <4>1, <4>2
    <3>2. M = [d \in 0..N |-> M[d]]
      OBVIOUS
    <3> HIDE DEF M
    <3> QED BY <3>1, <3>2 DEF Chain
  <2>7. L = Chain(L)
    <3> HIDE DEF M
    <3>1. M = Equation(M)
      BY <2>3, <2>6
    <3>2. L = Equation(L)
      BY <2>4, <3>1
    <3> QED BY <2>3, <3>2
  <2>8. \A d \in 0..N : L[d] = IF d = 0 THEN A ELSE Step(L[d - 1])
    BY <2>7 DEF Chain
  <2> DEFINE G == {d \in Nat : d <= N => L[d] = T[d]}
  <2>9. 0 \in G
    <3>1. 0 \in 0..N
      OBVIOUS
    <3>2. L[0] = A
      BY <2>8, <3>1
    <3> QED BY <1>5, <3>2
  <2>10. ASSUME NEW d \in Nat, d \in G PROVE d + 1 \in G
    <3>1. SUFFICES ASSUME d + 1 <= N PROVE L[d + 1] = T[d + 1]
      OBVIOUS
    <3>2. L[d] = T[d] /\ d + 1 \in 0..N /\ d + 1 # 0 /\ d + 1 - 1 = d
      BY <1>6, <2>10, <3>1
    <3>3. L[d + 1] = Step(L[d])
      BY <2>8, <3>2
    <3> QED BY <1>5, <3>2, <3>3
  <2>11. Nat \subseteq G
    <3> HIDE DEF G
    <3> QED BY <2>9, <2>10, SetInduction
  <2> QED BY <2>5, <2>11
<1> QED BY <1>1, <1>2, <1>5, <1>6, <1>7

SafeSets(m) ==
    {E \in [GoFunctions -> SUBSET MemoryAccesses] :
        \A f \in GoFunctions : \A a \in E[f] : Safe(f, m, a)}

LEMMA InlinedIsSafe ==
    ASSUME code \in GoPrograms, NEW m \in LockFields, LockedBy(m), NEW E \in SafeSets(m),
           NEW f \in GoFunctions, NEW a \in Inlined(E, f)
    PROVE  a \in MemoryAccesses /\ Safe(f, m, a)
<1>1. PICK c \in scan(code, f).calls :
          a \in mergeLocksets(Substitute(E[c.callee], c.callee, rootKey(code, f), FALSE), c.locks)
  BY DEF Inlined
<1>2. c \in StaticCalls /\ Called(code, c.callee)
  BY ScanFacts DEF Scans
<1>3. PICK g \in GoFunctions : g = c.callee
  BY <1>2 DEF StaticCalls
<1>4. c.locks \in SUBSET KeyLocks
  BY <1>2 DEF StaticCalls
<1>5. E[g] \in SUBSET MemoryAccesses /\ \A y \in E[g] : Safe(g, m, y)
  BY DEF SafeSets
<1>6. PICK x \in Substitute(E[g], g, rootKey(code, f), FALSE) : a = [x EXCEPT !.locks = x.locks \cup c.locks]
  BY <1>1, <1>3 DEF mergeLocksets
<1>7. PICK y \in E[g] : Renamed(y, g, f, FALSE, x)
  BY <1>5, SubstituteFacts
<1>8. /\ y.key.id = g /\ y.key.kind = rootKey(code, g).kind
      /\ \/ Held(code, g, m) \in y.locks /\ y.key.field # ""
         \/ Spilled(code) /\ Called(code, "main") /\ ~y.write /\ y.key.field = ""
  BY <1>2, <1>3, <1>5 DEF Safe, Traced
<1>9. y.key.kind # "unknown"
  BY <1>8, ProgramFacts
<1>10. /\ x \in MemoryAccesses /\ x.key.kind = rootKey(code, f).kind /\ x.key.id = f
       /\ x.write = y.write /\ x.key.field = y.key.field
       /\ Held(code, g, m) \in y.locks => Held(code, f, m) \in x.locks
  BY <1>7, <1>8, <1>9 DEF Renamed
<1>11. /\ a \in MemoryAccesses /\ a.key = x.key /\ a.write = x.write
       /\ a.locks = x.locks \cup c.locks
  BY <1>4, <1>6, <1>10 DEF MemoryAccesses
<1> QED BY <1>8, <1>10, <1>11 DEF Safe

LEMMA ExpandedIsSafe ==
    ASSUME code \in GoPrograms, NEW m \in LockFields, LockedBy(m)
    PROVE  Expanded(code) \in SafeSets(m)
<1>1. PICK A : A = OwnAccesses
  OBVIOUS
<1>2. \A f \in GoFunctions : A[f] \in SUBSET MemoryAccesses /\ \A a \in A[f] : Safe(f, m, a)
  BY <1>1, ScanFacts DEF Scans, OwnAccesses
<1>3. OwnAccesses \in SafeSets(m)
  BY <1>1, <1>2 DEF SafeSets, OwnAccesses
<1>4. ASSUME NEW E \in SafeSets(m) PROVE Deeper(E) \in SafeSets(m)
  <2>1. \A f \in GoFunctions : \A a \in Inlined(E, f) : a \in MemoryAccesses /\ Safe(f, m, a)
    BY InlinedIsSafe
  <2>2. Deeper(E) = [f \in GoFunctions |-> A[f] \cup Inlined(E, f)]
    BY <1>1 DEF Deeper, OwnAccesses
  <2> QED BY <1>2, <2>1, <2>2 DEF SafeSets
<1> QED BY <1>3, <1>4, ExpandedUnfolds, MaxCallDepthAssumption

(* What is known of an access of the goroutine, as main calls the object.  *)
Shared(m, a) ==
    /\ a.key.id = "main"
    /\ \/ /\ Held(code, "main", m) \in a.locks
          /\ \/ a.key.kind = rootKey(code, "main").kind /\ a.key.field # ""
             \/ a.key.kind = "unknown" /\ a.key.field = "" /\ ~Spilled(code)
       \/ /\ Spilled(code) /\ Called(code, "main")
          /\ ~a.write /\ a.key.kind = rootKey(code, "main").kind /\ a.key.field = ""

LEMMA TaggedIsSafe ==
    ASSUME code \in GoPrograms, NEW m \in LockFields, LockedBy(m),
           NEW u \in ExpandConcurrentAccesses(code)
    PROVE  /\ u.inGoroutine \in BOOLEAN
           /\ ~u.inGoroutine => \E f \in GoFunctions : Safe(f, m, u.access)
           /\ u.inGoroutine => Shared(m, u.access)
<1>1. PICK E \in SafeSets(m) : E = Expanded(code)
  BY ExpandedIsSafe
<1>2. \A f \in GoFunctions : E[f] \in SUBSET MemoryAccesses /\ \A a \in E[f] : Safe(f, m, a)
  BY DEF SafeSets
<1>3. "main" \in GoFunctions /\ "worker" \in GoFunctions
  BY DEF GoFunctions
<1>4. code.closure \in BOOLEAN
  BY GoProgramsAssumption
<1>5. PICK D \in SUBSET GoFunctions : D = IF code.closure THEN GoFunctions \ {"worker"} ELSE GoFunctions
  OBVIOUS
<1>6. PICK W : W = Substitute(E["worker"], "worker", rootKey(code, "main"), code.closure)
  OBVIOUS
<1>7. u \in {[access |-> a, inGoroutine |-> FALSE] : a \in UNION {E[f] : f \in D}}
            \cup {[access |-> a, inGoroutine |-> TRUE] : a \in W}
  BY <1>1, <1>5, <1>6 DEF ExpandConcurrentAccesses
<1>8. CASE u \in {[access |-> a, inGoroutine |-> FALSE] : a \in UNION {E[f] : f \in D}}
  <2>1. PICK f \in D : \E a \in E[f] : u = [access |-> a, inGoroutine |-> FALSE]
    BY <1>8
  <2>2. PICK a \in E[f] : u = [access |-> a, inGoroutine |-> FALSE]
    BY <2>1
  <2>3. f \in GoFunctions /\ Safe(f, m, a)
    BY <1>2
  <2> QED BY <2>2, <2>3
<1>9. CASE u \in {[access |-> a, inGoroutine |-> TRUE] : a \in W}
  <2>1. PICK a \in W : u = [access |-> a, inGoroutine |-> TRUE]
    BY <1>9
  <2>2. PICK y \in E["worker"] : Renamed(y, "worker", "main", code.closure, a)
    BY <1>2, <1>3, <1>4, <1>6, SubstituteFacts
  <2>3. Safe("worker", m, y)
    BY <1>2, <1>3
  <2>4. Shared(m, a)
    <3>1. CASE y.key.kind # "unknown"
      BY <2>2, <2>3, <3>1 DEF Safe, Renamed, Shared
    <3>2. CASE y.key.kind = "unknown"
      <4>1. y.key.kind # rootKey(code, "worker").kind
        BY <1>3, <3>2, ProgramFacts
      <4>2. /\ code.closure /\ y.key.field = "" /\ y.key.id = "worker" /\ ~Spilled(code)
            /\ Held(code, "worker", m) \in y.locks
        BY <2>3, <4>1 DEF Safe, Traced
      <4> QED BY <2>2, <3>2, <4>2 DEF Renamed, Shared
    <3> QED BY <3>1, <3>2
  <2> QED BY <2>1, <2>4
<1> QED BY <1>7, <1>8, <1>9

LEMMA NothingToReport ==
    ASSUME code \in GoPrograms, NEW m \in LockFields, LockedBy(m)
    PROVE  risksFromAccesses(ExpandConcurrentAccesses(code)) = {}
<1>1. PICK U : U = ExpandConcurrentAccesses(code)
  OBVIOUS
<1>2. "main" \in GoFunctions
  BY DEF GoFunctions
<1>3. rootKey(code, "main").kind # "unknown"
  BY <1>2, ProgramFacts
<1>4. LoneRisks(U) = {}
  <2>1. ASSUME NEW u \in U, u.inGoroutine, u.access.write, isSharedGoroutineAccess(u.access)
        PROVE  hasRelevantLock(u.access)
    <3>1. Shared(m, u.access)
      BY <1>1, <2>1, TaggedIsSafe
    <3>2. /\ Held(code, "main", m) \in u.access.locks /\ u.access.key.id = "main"
          /\ u.access.key.kind = rootKey(code, "main").kind
      BY <2>1, <3>1 DEF Shared, isSharedGoroutineAccess
    <3>3. PICK l \in u.access.locks : l = Held(code, "main", m)
      BY <3>2
    <3>4. ~l.read /\ l.key.kind = rootKey(code, "main").kind /\ l.key.id = "main"
      BY <3>3 DEF Held, Lock, memoryKey
    <3> QED BY <3>2, <3>3, <3>4 DEF hasRelevantLock
  <2> QED BY <2>1 DEF LoneRisks
(* Of two accesses that could be a pair, neither is a load of the pointer. *)
<1>5. ASSUME NEW t \in U, NEW u \in U, mayRunConcurrently(t, u),
             t.access.write \/ u.access.write,
             sameOrUnknownMemory(t.access.key, u.access.key)
      PROVE  locksetsProtect(t.access, u.access)
  <2>1. t.access.key.id = u.access.key.id
    BY <1>5 DEF sameOrUnknownMemory
  <2>2. t.inGoroutine \in BOOLEAN /\ u.inGoroutine \in BOOLEAN /\ t.inGoroutine # u.inGoroutine
    BY <1>1, <1>5, TaggedIsSafe DEF mayRunConcurrently
  <2>3. \A v \in U : v.inGoroutine => Shared(m, v.access)
    BY <1>1, TaggedIsSafe
  <2>4. \A v \in U : ~v.inGoroutine /\ v.access.key.id = "main" => Safe("main", m, v.access)
    BY <1>1, TaggedIsSafe DEF Safe
  <2>5. Held(code, "main", m) \in t.access.locks /\ Held(code, "main", m) \in u.access.locks
    <3>1. ASSUME NEW a, NEW b, Shared(m, a), Safe("main", m, b), a.write \/ b.write,
                 \/ sameOrUnknownMemory(a.key, b.key)
                 \/ sameOrUnknownMemory(b.key, a.key)
          PROVE  Held(code, "main", m) \in a.locks /\ Held(code, "main", m) \in b.locks
      <4>1. a.key.kind # "unknown" /\ b.key.kind # "unknown" => a.key = b.key
        BY <3>1 DEF sameOrUnknownMemory
      <4> QED BY <1>3, <3>1, <4>1 DEF Shared, Safe, Traced
    <3>2. CASE t.inGoroutine
      <4>1. Shared(m, t.access) /\ Safe("main", m, u.access)
        BY <2>1, <2>2, <2>3, <2>4, <3>2 DEF Shared
      <4> QED BY <1>5, <3>1, <4>1
    <3>3. CASE ~t.inGoroutine
      <4>1. Shared(m, u.access) /\ Safe("main", m, t.access)
        BY <2>1, <2>2, <2>3, <2>4, <3>3 DEF Shared
      <4> QED BY <1>5, <3>1, <4>1
    <3> QED BY <2>2, <3>2, <3>3
  <2>6. PICK l \in t.access.locks : l = Held(code, "main", m)
    BY <2>5
  <2>7. l \in u.access.locks /\ ~l.read
    BY <2>5, <2>6 DEF Held, Lock
  <2>8. lockModesProtect(t.access, l, u.access, l)
    BY <2>7 DEF lockModesProtect
  <2> QED BY <2>7, <2>8 DEF locksetsProtect
<1>6. PairRisks(U) = {}
  <2>1. \A q \in U \X U : q[1] \in U /\ q[2] \in U
    OBVIOUS
  <2> QED BY <1>5, <2>1 DEF PairRisks
<1> QED BY <1>1, <1>4, <1>6 DEF risksFromAccesses

(* detect_concurrency_risks: a program in which every function takes one    *)
(* and the same lock before its accesses is never reported, however deep    *)
(* its calls are nested and followed, also when main loads a captured       *)
(* pointer before it takes the lock.                                        *)
THEOREM LockedIsNotReported == SpecRisks => []LockedIsQuiet
<1> DEFINE I == code \in GoPrograms /\ risks = risksFromAccesses(ExpandConcurrentAccesses(code))
<1>1. InitRisks => I
  BY DEF InitRisks
<1>2. I /\ [NextRisks]_crvars => I'
  <2> SUFFICES ASSUME I, [NextRisks]_crvars PROVE I'
    OBVIOUS
  <2>1. code' = code /\ risks' = risks
    BY DEF NextRisks, crvars, Acquire, Release, Defer, Access, Enter, Leave, Go
  <2> QED BY <2>1 DEF risksFromAccesses, ExpandConcurrentAccesses
<1>3. I => LockedIsQuiet
  <2> SUFFICES ASSUME I, NEW m \in LockFields, LockedBy(m) PROVE risks = {}
    BY DEF LockedIsQuiet, LockedBy
  <2> QED BY NothingToReport
<1> QED BY <1>1, <1>2, <1>3, PTL DEF SpecRisks

-----------------------------------------------------------------------------
(* The threads of the program.                                             *)

LEMMA StackFacts ==
    ASSUME NEW T, NEW s \in Seq(T), s # <<>>
    PROVE  Last(s) \in T /\ Front(s) \in Seq(T)
<1>1. PICK n \in Nat : n = Len(s)
  BY LenProperties
<1>2. n # 0
  BY <1>1, EmptySeq
<1>3. n \in 1..n /\ n - 1 \in 0..n
  BY <1>2
<1>4. \A i \in 1..n : s[i] \in T
  BY <1>1, ElementOfSeq
<1>5. Last(s) \in T
  BY <1>1, <1>3, <1>4 DEF Last
<1>6. Front(s) \in Seq(T)
  BY <1>1, <1>3, <1>4, SubSeqProperties DEF Front
<1> QED BY <1>5, <1>6

(* A call is at one of its instructions, or at its end.                    *)
GoFrames ==
    {c \in [fn : GoFunctions, at : Nat, defers : SUBSET LockFields] :
        c.at \in 1..(Len(code.body[c.fn]) + 1)}

ThreadsInv ==
    /\ code \in GoPrograms
    /\ threads \in [Threads -> Seq(GoFrames)]
    /\ started \subseteq Threads \ {"main"}
    /\ writer \in [LockFields -> Threads \cup {NoThread}]
    /\ readers \in [LockFields -> SUBSET Threads]
    /\ \A m \in LockFields : writer[m] # NoThread => readers[m] = {}

(* A thread that goes on stands at an instruction of its top call.         *)
LEMMA GoingOn ==
    ASSUME ThreadsInv, NEW t \in Threads, NEW ops, Goes(t, ops)
    PROVE  /\ Instr(t) \in GoInstructions /\ Instr(t).op \in ops
           /\ Top(t) \in GoFrames /\ Front(threads[t]) \in Seq(GoFrames)
           /\ [Top(t) EXCEPT !.at = Top(t).at + 1] \in GoFrames
           /\ \A m \in LockFields :
                  [fn |-> Top(t).fn, at |-> Top(t).at + 1, defers |-> Top(t).defers \cup {m}] \in GoFrames
           /\ Advance(t) \in Seq(GoFrames)
<1>1. threads[t] \in Seq(GoFrames) /\ threads[t] # <<>> /\ ~AtEnd(t) /\ Instr(t).op \in ops
  BY DEF ThreadsInv, Goes, Runs
<1>2. Top(t) \in GoFrames /\ Front(threads[t]) \in Seq(GoFrames)
  BY <1>1, StackFacts DEF Top
<1>3. PICK c \in GoFrames : c = Top(t)
  BY <1>2
<1>4. c \in [fn : GoFunctions, at : Nat, defers : SUBSET LockFields]
  BY DEF GoFrames
<1>5. PICK b \in Seq(GoInstructions) : b = code.body[c.fn]
  <2>1. PICK g \in GoFunctions : g = c.fn
    BY <1>4
  <2>2. code.body[g] \in Seq(GoInstructions)
    BY ProgramFacts DEF ThreadsInv
  <2> QED BY <2>1, <2>2
<1>6. PICK n \in Nat : n = Len(b)
  BY LenProperties
<1>7. PICK i \in Nat : i = c.at
  BY <1>4
<1>8. i \in 1..(n + 1) /\ ~(i > n)
  BY <1>1, <1>3, <1>5, <1>6, <1>7 DEF GoFrames, AtEnd, Body
<1>9. i \in 1..n /\ i + 1 \in 1..(n + 1) /\ i + 1 \in Nat
  BY <1>8
<1>10. Instr(t) \in GoInstructions
  <2>1. \A k \in 1..n : b[k] \in GoInstructions
    BY <1>6, ElementOfSeq
  <2>2. Instr(t) = b[i]
    BY <1>3, <1>5, <1>7 DEF Instr, Body
  <2> QED BY <1>9, <2>1, <2>2
<1>11. \A D \in SUBSET LockFields : [fn |-> c.fn, at |-> i + 1, defers |-> D] \in GoFrames
  BY <1>4, <1>5, <1>6, <1>9 DEF GoFrames
<1>12. c = [fn |-> c.fn, at |-> c.at, defers |-> c.defers]
  BY <1>4
<1>13. [c EXCEPT !.at = c.at + 1] = [fn |-> c.fn, at |-> i + 1, defers |-> c.defers]
  BY <1>7, <1>12
<1>14. [c EXCEPT !.at = c.at + 1] \in GoFrames
  BY <1>4, <1>11, <1>13
<1>15. \A m \in LockFields : [fn |-> c.fn, at |-> c.at + 1, defers |-> c.defers \cup {m}] \in GoFrames
  BY <1>4, <1>7, <1>11
<1>16. Advance(t) \in Seq(GoFrames)
  BY <1>2, <1>3, <1>14, AppendProperties DEF Advance
<1> QED BY <1>1, <1>2, <1>3, <1>10, <1>14, <1>15, <1>16

(* Giving up locks keeps readers and writers apart.                        *)
LEMMA FreeFacts ==
    ASSUME ThreadsInv, NEW t \in Threads, NEW D, Free(t, D)
    PROVE  /\ writer' \in [LockFields -> Threads \cup {NoThread}]
           /\ readers' \in [LockFields -> SUBSET Threads]
           /\ \A m \in LockFields : writer'[m] # NoThread => readers'[m] = {}
BY DEF ThreadsInv, Free

LEMMA ThreadsKeep ==
    ASSUME ThreadsInv, [NextRisks]_crvars
    PROVE  ThreadsInv'
<1>1. code' = code /\ code' \in GoPrograms /\ GoFrames' = GoFrames
  <2>1. code' = code
    BY DEF NextRisks, crvars, Acquire, Release, Defer, Access, Enter, Leave, Go
  <2> QED BY <2>1 DEF ThreadsInv, GoFrames
<1>2. /\ threads \in [Threads -> Seq(GoFrames)]
      /\ started \subseteq Threads \ {"main"}
      /\ writer \in [LockFields -> Threads \cup {NoThread}]
      /\ readers \in [LockFields -> SUBSET Threads]
      /\ \A m \in LockFields : writer[m] # NoThread => readers[m] = {}
  BY DEF ThreadsInv
<1>3. \A fn \in GoFunctions : Call(fn) \in GoFrames
  <2>1. SUFFICES ASSUME NEW fn \in GoFunctions PROVE Call(fn) \in GoFrames
    OBVIOUS
  <2>2. PICK b \in Seq(GoInstructions) : b = code.body[fn]
    BY ProgramFacts DEF ThreadsInv
  <2>3. PICK n \in Nat : n = Len(b)
    BY LenProperties
  <2>4. 1 \in 1..(n + 1)
    OBVIOUS
  <2> QED BY <2>2, <2>3, <2>4 DEF Call, GoFrames
<1>4. ASSUME NEW t \in Threads, Acquire(t) PROVE ThreadsInv'
  <2>1. /\ Goes(t, {"Lock", "RLock"}) /\ writer[Instr(t).on] = NoThread
        /\ threads' = [threads EXCEPT ![t] = Advance(t)] /\ started' = started
    BY <1>4 DEF Acquire
  <2>2. PICK m : m = Instr(t).on
    OBVIOUS
  <2>3. Instr(t).op = "Lock" \/ Instr(t).op = "RLock"
    BY <2>1 DEF Goes
  <2>4. m \in LockFields
    BY <2>1, <2>2, <2>3, GoingOn DEF GoInstructions, Accesses, Loads, Stores, LockCalls
  <2>5. \/ readers[m] = {} /\ writer' = [writer EXCEPT ![m] = t] /\ readers' = readers
        \/ readers' = [readers EXCEPT ![m] = readers[m] \cup {t}] /\ writer' = writer
    BY <1>4, <2>2 DEF Acquire
  <2>6. /\ writer' \in [LockFields -> Threads \cup {NoThread}]
        /\ readers' \in [LockFields -> SUBSET Threads]
        /\ \A l \in LockFields : writer'[l] # NoThread => readers'[l] = {}
    <3>1. CASE readers[m] = {} /\ writer' = [writer EXCEPT ![m] = t] /\ readers' = readers
      BY <1>2, <2>4, <3>1
    <3>2. CASE readers' = [readers EXCEPT ![m] = readers[m] \cup {t}] /\ writer' = writer
      <4>1. writer[m] = NoThread
        BY <2>1, <2>2
      <4>2. readers' \in [LockFields -> SUBSET Threads]
        BY <1>2, <2>4, <3>2
      <4>3. \A l \in LockFields : writer'[l] # NoThread => readers'[l] = {}
        BY <1>2, <3>2, <4>1
      <4> QED BY <1>2, <3>2, <4>2, <4>3
    <3> QED BY <2>5, <3>1, <3>2
  <2>7. threads' \in [Threads -> Seq(GoFrames)]
    BY <1>2, <2>1, GoingOn
  <2> QED BY <1>1, <1>2, <2>1, <2>6, <2>7 DEF ThreadsInv
<1>5. ASSUME NEW t \in Threads, Release(t) PROVE ThreadsInv'
  <2>1. /\ Goes(t, {"Unlock", "RUnlock"}) /\ Free(t, {Instr(t).on})
        /\ threads' = [threads EXCEPT ![t] = Advance(t)] /\ started' = started
    BY <1>5 DEF Release
  <2>2. threads' \in [Threads -> Seq(GoFrames)]
    BY <1>2, <2>1, GoingOn
  <2> QED BY <1>1, <1>2, <2>1, <2>2, FreeFacts DEF ThreadsInv
<1>6. ASSUME NEW t \in Threads, Defer(t) PROVE ThreadsInv'
  <2>1. /\ Goes(t, {"DeferUnlock", "DeferRUnlock"}) /\ UNCHANGED <<started, writer, readers>>
        /\ threads' = [threads EXCEPT ![t] =
                Append(Front(threads[t]), [fn |-> Top(t).fn, at |-> Top(t).at + 1,
                                           defers |-> Top(t).defers \cup {Instr(t).on}])]
    BY <1>6 DEF Defer
  <2>2. Instr(t).on \in LockFields
    <3>1. Instr(t).op = "DeferUnlock" \/ Instr(t).op = "DeferRUnlock"
      BY <2>1 DEF Goes
    <3> QED BY <2>1, <3>1, GoingOn DEF GoInstructions, Accesses, Loads, Stores, LockCalls
  <2>3. PICK c \in GoFrames :
            c = [fn |-> Top(t).fn, at |-> Top(t).at + 1, defers |-> Top(t).defers \cup {Instr(t).on}]
    BY <2>1, <2>2, GoingOn
  <2>4. Append(Front(threads[t]), c) \in Seq(GoFrames)
    BY <2>1, GoingOn, AppendProperties
  <2>5. threads' \in [Threads -> Seq(GoFrames)]
    BY <1>2, <2>1, <2>3, <2>4
  <2> QED BY <1>1, <1>2, <2>1, <2>5 DEF ThreadsInv
<1>7. ASSUME NEW t \in Threads, Access(t) PROVE ThreadsInv'
  <2>1. /\ Goes(t, Accesses \cup {"DynCall"}) /\ UNCHANGED <<started, writer, readers>>
        /\ threads' = [threads EXCEPT ![t] = Advance(t)]
    BY <1>7 DEF Access
  <2>2. threads' \in [Threads -> Seq(GoFrames)]
    BY <1>2, <2>1, GoingOn
  <2> QED BY <1>1, <1>2, <2>1, <2>2 DEF ThreadsInv
<1>8. ASSUME NEW t \in Threads, Enter(t) PROVE ThreadsInv'
  <2>1. /\ Goes(t, {"Call"}) /\ UNCHANGED <<started, writer, readers>>
        /\ threads' = [threads EXCEPT ![t] = Append(Advance(t), Call(Instr(t).on))]
    BY <1>8 DEF Enter
  <2>2. Instr(t).on \in GoFunctions
    <3>1. Instr(t).op = "Call"
      BY <2>1 DEF Goes
    <3> QED BY <2>1, <3>1, GoingOn DEF GoInstructions, Accesses, Loads, Stores, LockCalls
  <2>3. Append(Advance(t), Call(Instr(t).on)) \in Seq(GoFrames)
    BY <1>3, <2>1, <2>2, GoingOn, AppendProperties
  <2>4. threads' \in [Threads -> Seq(GoFrames)]
    BY <1>2, <2>1, <2>3
  <2> QED BY <1>1, <1>2, <2>1, <2>4 DEF ThreadsInv
<1>9. ASSUME NEW t \in Threads, Leave(t) PROVE ThreadsInv'
  <2>1. /\ threads[t] # <<>> /\ Free(t, Top(t).defers) /\ started' = started
        /\ threads' = [threads EXCEPT ![t] = Front(threads[t])]
    BY <1>9 DEF Leave, Runs
  <2>2. Front(threads[t]) \in Seq(GoFrames)
    BY <1>2, <2>1, StackFacts
  <2>3. threads' \in [Threads -> Seq(GoFrames)]
    BY <1>2, <2>1, <2>2
  <2> QED BY <1>1, <1>2, <2>1, <2>3, FreeFacts DEF ThreadsInv
<1>10. ASSUME NEW t \in Threads, Go(t) PROVE ThreadsInv'
  <2>1. /\ Goes(t, {"Go"}) /\ UNCHANGED <<writer, readers>>
        /\ started' = IF code.workers = 2 THEN {"worker1", "worker2"} ELSE {"worker1"}
        /\ threads' = [u \in Threads |-> IF u = t THEN Advance(t)
                                        ELSE IF u \in started' THEN <<Call("worker")>> ELSE threads[u]]
    BY <1>10 DEF Go
  <2>2. <<Call("worker")>> \in Seq(GoFrames)
    <3>1. Call("worker") \in GoFrames
      BY <1>3 DEF GoFunctions
    <3>2. PICK c \in GoFrames : c = Call("worker")
      BY <3>1
    <3>3. <<c>> \in Seq(GoFrames)
      OBVIOUS
    <3> QED BY <3>2, <3>3
  <2>3. threads' \in [Threads -> Seq(GoFrames)]
    BY <1>2, <2>1, <2>2, GoingOn
  <2>4. started' \subseteq Threads \ {"main"}
    BY <2>1 DEF Threads
  <2> QED BY <1>1, <1>2, <2>1, <2>3, <2>4 DEF ThreadsInv
<1>11. CASE UNCHANGED crvars
  BY <1>1, <1>2, <1>11 DEF crvars, ThreadsInv
<1> QED BY <1>4, <1>5, <1>6, <1>7, <1>8, <1>9, <1>10, <1>11 DEF NextRisks

LEMMA ThreadsStart == InitRisks => ThreadsInv
<1> SUFFICES ASSUME InitRisks PROVE ThreadsInv
  OBVIOUS
<1>1. code \in GoPrograms
  BY DEF InitRisks
<1>2. PICK b \in Seq(GoInstructions) : b = code.body["main"]
  BY <1>1, ProgramFacts DEF GoFunctions
<1>3. PICK n \in Nat : n = Len(b)
  BY LenProperties
<1>4. 1 \in 1..(n + 1)
  OBVIOUS
<1>5. PICK c \in GoFrames : c = Call("main")
  BY <1>2, <1>3, <1>4 DEF Call, GoFrames, GoFunctions
<1>6. <<c>> \in Seq(GoFrames) /\ <<>> \in Seq(GoFrames)
  OBVIOUS
<1>7. threads \in [Threads -> Seq(GoFrames)]
  BY <1>5, <1>6 DEF InitRisks
<1> QED BY <1>1, <1>7 DEF InitRisks, ThreadsInv

LEMMA ThreadsHaveTypes == ThreadsInv => ThreadsTypeOK
<1> SUFFICES ASSUME ThreadsInv PROVE ThreadsTypeOK
  OBVIOUS
<1>1. \A t \in Threads : \A i \in DOMAIN threads[t] : threads[t][i] \in GoFrames
  <2>1. SUFFICES ASSUME NEW t \in Threads, NEW i \in DOMAIN threads[t]
                 PROVE  threads[t][i] \in GoFrames
    OBVIOUS
  <2>2. PICK s \in Seq(GoFrames) : s = threads[t]
    BY DEF ThreadsInv
  <2> QED BY <2>1, <2>2, LenProperties, ElementOfSeq
<1> QED BY <1>1 DEF ThreadsInv, ThreadsTypeOK, GoFrames

(* The analysed program: a thread never runs past the end of a call, and a  *)
(* lock that is held for writing has no readers, whatever the program does. *)
THEOREM GoTypes == SpecRisks => []ThreadsTypeOK
<1>1. InitRisks => ThreadsInv
  BY ThreadsStart
<1>2. ThreadsInv /\ [NextRisks]_crvars => ThreadsInv'
  BY ThreadsKeep
<1>3. ThreadsInv => ThreadsTypeOK
  BY ThreadsHaveTypes
<1> QED BY <1>1, <1>2, <1>3, PTL DEF SpecRisks

-----------------------------------------------------------------------------
(* Locks that are held by the text of a body.                              *)

Take(m, read) == [op |-> IF read THEN "RLock" ELSE "Lock", on |-> m]
Give(m, read) == [op |-> IF read THEN "RUnlock" ELSE "Unlock", on |-> m]

(* A lock is held after an instruction that takes it, and then until it is *)
(* given back.                                                             *)
LEMMA HoldingStep ==
    ASSUME NEW p, NEW f, NEW i \in Nat \ {0}, NEW m, NEW r \in BOOLEAN
    PROVE  Holding(p, f, i + 1, m, r) <=>
               \/ p.body[f][i] = Take(m, r)
               \/ Holding(p, f, i, m, r) /\ p.body[f][i] # Give(m, r)
<1>1. PICK b : b = p.body[f]
  OBVIOUS
<1>2. PICK tk : tk = Take(m, r)
  OBVIOUS
<1>3. PICK gv : gv = Give(m, r)
  OBVIOUS
<1>4. tk # gv
  BY <1>2, <1>3 DEF Take, Give
<1>5. \A n \in Nat : Holding(p, f, n, m, r) <=>
          \E j \in 1..(n - 1) : b[j] = tk /\ \A k \in j..(n - 1) : b[k] # gv
  BY <1>1, <1>2, <1>3 DEF Holding, Take, Give
<1>6. Holding(p, f, i, m, r) <=>
          \E j \in 1..(i - 1) : b[j] = tk /\ \A k \in j..(i - 1) : b[k] # gv
  BY <1>5
<1>7. Holding(p, f, i + 1, m, r) <=>
          \E j \in 1..i : b[j] = tk /\ \A k \in j..i : b[k] # gv
  <2>1. i + 1 \in Nat /\ i + 1 - 1 = i
    OBVIOUS
  <2> QED BY <1>5, <2>1
<1>8. ASSUME NEW j \in 1..i, b[j] = tk, \A k \in j..i : b[k] # gv, b[i] # tk
      PROVE  Holding(p, f, i, m, r) /\ b[i] # gv
  <2>1. j \in 1..(i - 1) /\ i \in j..i
    BY <1>8
  <2>2. \A k \in j..(i - 1) : b[k] # gv
    BY <1>8
  <2> QED BY <1>6, <1>8, <2>1, <2>2
<1>9. ASSUME b[i] = tk PROVE Holding(p, f, i + 1, m, r)
  <2>1. i \in 1..i /\ \A k \in i..i : k = i
    OBVIOUS
  <2> QED BY <1>4, <1>7, <1>9, <2>1
<1>10. ASSUME Holding(p, f, i, m, r), b[i] # gv PROVE Holding(p, f, i + 1, m, r)
  <2>1. PICK j \in 1..(i - 1) : b[j] = tk /\ \A k \in j..(i - 1) : b[k] # gv
    BY <1>6, <1>10
  <2>2. j \in 1..i /\ \A k \in j..i : k = i \/ k \in j..(i - 1)
    OBVIOUS
  <2> QED BY <1>7, <1>10, <2>1, <2>2
<1> QED BY <1>1, <1>2, <1>3, <1>7, <1>8, <1>9, <1>10

LEMMA NothingHeldYet ==
    ASSUME NEW p, NEW f, NEW m, NEW r
    PROVE  ~Holding(p, f, 1, m, r)
BY DEF Holding

(* One instruction leaves what was recorded, records what it does, and the *)
(* lockset grows only by what it takes.                                    *)
Records(p, f, s, instr, r) ==
    /\ s.accesses \subseteq r.accesses /\ s.calls \subseteq r.calls
    /\ instr.op \in Accesses => recordAccess(p, f, s, instr) \in r.accesses
    /\ instr.op = "DynCall" => recordUnknownCallEffects(p, f, s) \in r.accesses
    /\ instr.op = "Call" => recordStaticCall(s, instr) \in r.calls
    /\ \A l \in r.locks :
           \/ l \in s.locks
           \/ \E m \in LockFields, read \in BOOLEAN :
                  instr = Take(m, read) /\ l = Lock(memoryKey(p, f, m), read)
    /\ \A m \in LockFields, read \in BOOLEAN :
           instr = Give(m, read) => Lock(memoryKey(p, f, m), read) \notin r.locks

LEMMA InstrKeeps ==
    ASSUME NEW p \in GoPrograms, NEW f \in GoFunctions, NEW s \in Scans,
           NEW instr \in GoInstructions
    PROVE  Records(p, f, s, instr, recordInstr(p, f, s, instr))
<1>1. PICK r : r = recordInstr(p, f, s, instr)
  OBVIOUS
<1> SUFFICES Records(p, f, s, instr, r)
  BY <1>1
<1>2. s = [locks |-> s.locks, accesses |-> s.accesses, calls |-> s.calls]
  BY DEF Scans
<1>3. \A m, read : (Take(m, read).op = "Lock" \/ Take(m, read).op = "RLock")
                   /\ (Give(m, read).op = "Unlock" \/ Give(m, read).op = "RUnlock")
  BY DEF Take, Give
<1>4. CASE instr.op \in Accesses
  <2>1. PICK a : a = recordAccess(p, f, s, instr)
    OBVIOUS
  <2>2. r = [s EXCEPT !.accesses = @ \cup {a}]
    BY <1>1, <1>4, <2>1 DEF recordInstr, Accesses, Loads, Stores
  <2>3. r.locks = s.locks /\ r.calls = s.calls /\ r.accesses = s.accesses \cup {a}
    BY <1>2, <2>2
  <2>4. instr.op \notin {"Unlock", "RUnlock", "DynCall", "Call"}
    BY <1>4 DEF Accesses, Loads, Stores
  <2> QED BY <1>3, <2>1, <2>3, <2>4 DEF Records
<1>5. CASE instr.op = "DynCall"
  <2>1. PICK a : a = recordUnknownCallEffects(p, f, s)
    OBVIOUS
  <2>2. r = [s EXCEPT !.accesses = @ \cup {a}]
    BY <1>1, <1>5, <2>1 DEF recordInstr, Accesses, Loads, Stores
  <2>3. r.locks = s.locks /\ r.calls = s.calls /\ r.accesses = s.accesses \cup {a}
    BY <1>2, <2>2
  <2>4. instr.op \notin Accesses /\ instr.op \notin {"Unlock", "RUnlock", "Call"}
    BY <1>5 DEF Accesses, Loads, Stores
  <2> QED BY <1>3, <2>1, <2>3, <2>4 DEF Records
<1>6. CASE instr.op = "Call"
  <2>1. PICK c : c = recordStaticCall(s, instr)
    OBVIOUS
  <2>2. r = [s EXCEPT !.calls = @ \cup {c}]
    BY <1>1, <1>6, <2>1 DEF recordInstr, Accesses, Loads, Stores
  <2>3. r.locks = s.locks /\ r.accesses = s.accesses /\ r.calls = s.calls \cup {c}
    BY <1>2, <2>2
  <2>4. instr.op \notin Accesses /\ instr.op \notin {"Unlock", "RUnlock", "DynCall"}
    BY <1>6 DEF Accesses, Loads, Stores
  <2> QED BY <1>3, <2>1, <2>3, <2>4 DEF Records
<1>7. CASE instr.op = "Go"
  <2>1. r = s
    BY <1>1, <1>7 DEF recordInstr, Accesses, Loads, Stores
  <2>2. instr.op \notin Accesses /\ instr.op \notin {"Unlock", "RUnlock", "DynCall", "Call"}
    BY <1>7 DEF Accesses, Loads, Stores
  <2> QED BY <1>3, <2>1, <2>2 DEF Records
<1>8. CASE instr.op \in LockCalls
  <2>1. instr.on \in LockFields /\ instr = [op |-> instr.op, on |-> instr.on]
    BY <1>8 DEF GoInstructions, Accesses, Loads, Stores, LockCalls
  <2>2. PICK k : k = memoryKey(p, f, instr.on)
    OBVIOUS
  <2>3. r = recordLockCall(p, f, s, instr)
    BY <1>1, <1>8 DEF recordInstr, Accesses, Loads, Stores, LockCalls
  <2>4. /\ instr.op = "Lock" => r = addLock(s, Lock(k, FALSE))
        /\ instr.op = "RLock" => r = addLock(s, Lock(k, TRUE))
        /\ instr.op = "Unlock" => r = removeLock(s, Lock(k, FALSE))
        /\ instr.op = "RUnlock" => r = removeLock(s, Lock(k, TRUE))
        /\ instr.op \in {"DeferUnlock", "DeferRUnlock"} => r = s
    BY <2>2, <2>3 DEF recordLockCall
  <2>5. \A l :
            /\ addLock(s, l).locks = s.locks \cup {l} /\ removeLock(s, l).locks = s.locks \ {l}
            /\ addLock(s, l).accesses = s.accesses /\ addLock(s, l).calls = s.calls
            /\ removeLock(s, l).accesses = s.accesses /\ removeLock(s, l).calls = s.calls
    BY <1>2 DEF addLock, removeLock
  <2>6. /\ r.accesses = s.accesses /\ r.calls = s.calls
        /\ instr.op = "Lock" => r.locks = s.locks \cup {Lock(k, FALSE)}
        /\ instr.op = "RLock" => r.locks = s.locks \cup {Lock(k, TRUE)}
        /\ instr.op = "Unlock" => r.locks = s.locks \ {Lock(k, FALSE)}
        /\ instr.op = "RUnlock" => r.locks = s.locks \ {Lock(k, TRUE)}
        /\ instr.op \in {"DeferUnlock", "DeferRUnlock"} => r.locks = s.locks
    BY <1>8, <2>4, <2>5 DEF LockCalls
  <2>7. ASSUME NEW l \in r.locks, l \notin s.locks
        PROVE  \E m \in LockFields, read \in BOOLEAN :
                   instr = Take(m, read) /\ l = Lock(memoryKey(p, f, m), read)
    <3>1. \/ instr.op = "Lock" /\ l = Lock(k, FALSE)
          \/ instr.op = "RLock" /\ l = Lock(k, TRUE)
      BY <1>8, <2>6, <2>7 DEF LockCalls
    <3>2. CASE instr.op = "Lock" /\ l = Lock(k, FALSE)
      <4>1. instr = Take(instr.on, FALSE)
        BY <2>1, <3>2 DEF Take
      <4> QED BY <2>1, <2>2, <3>2, <4>1
    <3>3. CASE instr.op = "RLock" /\ l = Lock(k, TRUE)
      <4>1. instr = Take(instr.on, TRUE)
        BY <2>1, <3>3 DEF Take
      <4> QED BY <2>1, <2>2, <3>3, <4>1
    <3> QED BY <3>1, <3>2, <3>3
  <2>8. ASSUME NEW m \in LockFields, NEW read \in BOOLEAN, instr = Give(m, read)
        PROVE  Lock(memoryKey(p, f, m), read) \notin r.locks
    <3>1. CASE read
      <4>1. instr.op = "RUnlock" /\ instr.on = m
        BY <2>8, <3>1 DEF Give
      <4>2. Lock(memoryKey(p, f, m), read) = Lock(k, TRUE)
        BY <2>2, <3>1, <4>1
      <4> QED BY <2>6, <4>1, <4>2
    <3>2. CASE ~read
      <4>1. instr.op = "Unlock" /\ instr.on = m
        BY <2>8, <3>2 DEF Give
      <4>2. Lock(memoryKey(p, f, m), read) = Lock(k, FALSE)
        BY <2>2, <3>2, <4>1
      <4> QED BY <2>6, <4>1, <4>2
    <3> QED BY <3>1, <3>2
  <2>9. instr.op \notin Accesses /\ instr.op \notin {"DynCall", "Call"}
    BY <1>8 DEF LockCalls, Accesses, Loads, Stores
  <2> QED BY <2>6, <2>7, <2>8, <2>9 DEF Records
<1>9. instr.op \in Accesses \cup {"DynCall", "Call", "Go"} \cup LockCalls
  BY DEF GoInstructions
<1> QED BY <1>4, <1>5, <1>6, <1>7, <1>8, <1>9

LEMMA RecordKeeps ==
    ASSUME NEW p \in GoPrograms, NEW f \in GoFunctions, NEW s \in Scans,
           NEW instr \in GoInstructions
    PROVE  Records(p, f, s, instr, Record(p, f, s, instr))
<1>1. PICK t : t = recordRead(p, f, s, instr)
  OBVIOUS
<1>2. t \in Scans /\ t.locks = s.locks /\ t.calls = s.calls /\ s.accesses \subseteq t.accesses
  <2>1. Reads(p, f, s, t)
    BY <1>1, ReadFacts
  <2> QED BY <2>1 DEF Reads
<1>3. PICK r : r = recordInstr(p, f, t, instr)
  OBVIOUS
<1>4. Records(p, f, t, instr, r)
  BY <1>2, <1>3, InstrKeeps
<1>5. /\ recordAccess(p, f, t, instr) = recordAccess(p, f, s, instr)
      /\ recordUnknownCallEffects(p, f, t) = recordUnknownCallEffects(p, f, s)
      /\ recordStaticCall(t, instr) = recordStaticCall(s, instr)
  BY <1>2 DEF recordAccess, recordUnknownCallEffects, recordStaticCall
<1>6. Records(p, f, s, instr, r)
  BY <1>2, <1>4, <1>5 DEF Records
<1> QED BY <1>1, <1>3, <1>6 DEF Record

(* A lockset with no lock that f does not hold, by its text, at i.         *)
HeldThere(f, i, L) ==
    \A l \in L : \E m \in LockFields, read \in BOOLEAN :
        l = Lock(memoryKey(code, f, m), read) /\ Holding(code, f, i, m, read)

(* What the scan of f makes of an access by an instruction.                *)
Finds(f, instr, a) ==
    \/ /\ instr.op \in Accesses
       /\ a.key = memoryKey(code, f, instr.on)
       /\ a.write = (instr.op \in Stores)
       /\ a.atomic = (instr.op \in {"AtomicLoad", "AtomicStore"})
    \/ /\ instr.op = "DynCall"
       /\ a.key = [kind |-> "unknown", id |-> f, field |-> ""]
       /\ a.write = TRUE /\ a.atomic = FALSE

(* The scan misses no access and no call, and gives each of them only locks *)
(* that are held there.                                                     *)
LEMMA ScanKeeps ==
    ASSUME code \in GoPrograms, NEW f \in GoFunctions, NEW i \in 1..Len(code.body[f]),
           NEW instr, instr = code.body[f][i]
    PROVE  /\ scan(code, f) \in Scans
           /\ instr.op \in Accesses \cup {"DynCall"} =>
                  \E a \in scan(code, f).accesses :
                      Finds(f, instr, a) /\ HeldThere(f, i, a.locks)
           /\ instr.op = "Call" =>
                  \E c \in scan(code, f).calls : c.callee = instr.on /\ HeldThere(f, i, c.locks)
<1>1. PICK b : b = code.body[f]
  OBVIOUS
<1>2. PICK N \in Nat : N = Len(b) /\ DOMAIN b = 1..N
  <2>1. b \in Seq(GoInstructions)
    BY <1>1, ProgramFacts
  <2> QED BY <2>1, LenProperties
<1>3. \A n \in Nat : n < N => b[n + 1] \in GoInstructions
  <2>1. b \in Seq(GoInstructions)
    BY <1>1, ProgramFacts
  <2>2. \A n \in Nat : n < N => n + 1 \in 1..N
    BY <1>2
  <2> QED BY <1>2, <2>1, <2>2, ElementOfSeq
<1>4. PICK T : Scanned(code, f, T)
  BY ScanUnfolds
<1>5. /\ T \in [Nat -> Scans] /\ T[0] = [locks |-> {}, accesses |-> {}, calls |-> {}]
      /\ \A n \in Nat : n < N => T[n + 1] = Record(code, f, T[n], b[n + 1])
      /\ scan(code, f) = T[N]
  BY <1>1, <1>2, <1>4 DEF Scanned
<1>6. ASSUME NEW n \in Nat, n < N
      PROVE  Records(code, f, T[n], b[n + 1], T[n + 1])
  <2>1. T[n] \in Scans /\ b[n + 1] \in GoInstructions
    BY <1>3, <1>5, <1>6
  <2>2. T[n + 1] = Record(code, f, T[n], b[n + 1])
    BY <1>5, <1>6
  <2> QED BY <2>1, <2>2, RecordKeeps
<1>7. ASSUME NEW n \in Nat, n <= N PROVE HeldThere(f, n + 1, T[n].locks)
  <2> DEFINE G == {k \in Nat : k <= N => HeldThere(f, k + 1, T[k].locks)}
  <2>1. 0 \in G
    BY <1>5 DEF HeldThere
  <2>2. ASSUME NEW k \in Nat, k \in G PROVE k + 1 \in G
    <3>1. SUFFICES ASSUME k + 1 <= N, NEW l \in T[k + 1].locks
                   PROVE  \E m \in LockFields, read \in BOOLEAN :
                              /\ l = Lock(memoryKey(code, f, m), read)
                              /\ Holding(code, f, k + 1 + 1, m, read)
      BY DEF HeldThere
    <3>2. k < N /\ HeldThere(f, k + 1, T[k].locks)
      BY <1>2, <2>2, <3>1
    <3>3. Records(code, f, T[k], b[k + 1], T[k + 1])
      BY <1>6, <3>2
    <3>4. CASE l \in T[k].locks
      <4>1. PICK m \in LockFields, read \in BOOLEAN :
                l = Lock(memoryKey(code, f, m), read) /\ Holding(code, f, k + 1, m, read)
        BY <3>2, <3>4 DEF HeldThere
      <4>2. b[k + 1] # Give(m, read)
        BY <3>1, <3>3, <4>1 DEF Records
      <4>3. Holding(code, f, k + 1 + 1, m, read)
        BY <1>1, <4>1, <4>2, HoldingStep
      <4> QED BY <4>1, <4>3
    <3>5. CASE l \notin T[k].locks
      <4>1. PICK m \in LockFields, read \in BOOLEAN :
                b[k + 1] = Take(m, read) /\ l = Lock(memoryKey(code, f, m), read)
        BY <3>1, <3>3, <3>5 DEF Records
      <4>2. Holding(code, f, k + 1 + 1, m, read)
        BY <1>1, <4>1, HoldingStep
      <4> QED BY <4>1, <4>2
    <3> QED BY <3>4, <3>5
  <2>3. Nat \subseteq G
    <3> HIDE DEF G
    <3> QED BY <2>1, <2>2, SetInduction
  <2> QED BY <1>7, <2>3
<1>8. ASSUME NEW n \in Nat, n <= N
      PROVE  T[n].accesses \subseteq T[N].accesses /\ T[n].calls \subseteq T[N].calls
  <2> DEFINE G == {k \in Nat : n + k <= N =>
                       T[n].accesses \subseteq T[n + k].accesses /\ T[n].calls \subseteq T[n + k].calls}
  <2>1. 0 \in G
    OBVIOUS
  <2>2. ASSUME NEW k \in Nat, k \in G PROVE k + 1 \in G
    <3>1. SUFFICES ASSUME n + (k + 1) <= N
                   PROVE  /\ T[n].accesses \subseteq T[n + (k + 1)].accesses
                          /\ T[n].calls \subseteq T[n + (k + 1)].calls
      OBVIOUS
    <3>2. PICK j \in Nat : j = n + k /\ j < N /\ j + 1 = n + (k + 1)
      BY <1>2, <3>1
    <3>3. Records(code, f, T[j], b[j + 1], T[j + 1])
      BY <1>6, <3>2
    <3>4. T[n].accesses \subseteq T[j].accesses /\ T[n].calls \subseteq T[j].calls
      BY <1>2, <2>2, <3>2
    <3> QED BY <3>2, <3>3, <3>4 DEF Records
  <2>3. Nat \subseteq G
    <3> HIDE DEF G
    <3> QED BY <2>1, <2>2, SetInduction
  <2>4. N - n \in Nat /\ n + (N - n) = N
    BY <1>2, <1>8
  <2>5. N - n \in G
    <3> HIDE DEF G
    <3> QED BY <2>3, <2>4
  <2> QED BY <1>2, <2>4, <2>5
<1>9. PICK n \in Nat : n + 1 = i /\ n < N /\ n <= N /\ n + 1 <= N
  <2>1. i - 1 \in Nat /\ i - 1 + 1 = i /\ i - 1 < N /\ i - 1 <= N /\ i <= N
    BY <1>1, <1>2
  <2> QED BY <2>1
<1>10. PICK s \in Scans : s = T[n]
  BY <1>5
<1>11. Records(code, f, s, instr, T[n + 1])
  BY <1>1, <1>6, <1>9, <1>10
<1>12. T[n + 1].accesses \subseteq T[N].accesses /\ T[n + 1].calls \subseteq T[N].calls
  <2>1. n + 1 \in Nat
    OBVIOUS
  <2> QED BY <1>8, <1>9, <2>1
<1>13. HeldThere(f, i, s.locks)
  BY <1>7, <1>9, <1>10
<1>14. CASE instr.op \in Accesses
  <2>1. PICK a : a = recordAccess(code, f, s, instr)
    OBVIOUS
  <2>2. a \in T[N].accesses
    BY <1>11, <1>12, <1>14, <2>1 DEF Records
  <2>3. a.locks = s.locks /\ Finds(f, instr, a)
    BY <1>14, <2>1 DEF recordAccess, Finds
  <2>4. instr.op # "Call"
    BY <1>14 DEF Accesses, Loads, Stores
  <2> QED BY <1>2, <1>5, <1>13, <2>2, <2>3, <2>4
<1>15. CASE instr.op = "DynCall"
  <2>1. PICK a : a = recordUnknownCallEffects(code, f, s)
    OBVIOUS
  <2>2. a \in T[N].accesses
    BY <1>11, <1>12, <1>15, <2>1 DEF Records
  <2>3. a.locks = s.locks /\ Finds(f, instr, a)
    <3>1. [memoryKey(code, f, "") EXCEPT !.kind = "unknown"] = [kind |-> "unknown", id |-> f, field |-> ""]
      <4>1. PICK x : x = rootKey(code, f).kind
        OBVIOUS
      <4>2. memoryKey(code, f, "") = [kind |-> x, id |-> f, field |-> ""]
        BY <4>1 DEF memoryKey
      <4>3. PICK k : k = [kind |-> x, id |-> f, field |-> ""]
        OBVIOUS
      <4>4. PICK j : j = [k EXCEPT !.kind = "unknown"]
        OBVIOUS
      <4>5. k \in [kind : {x}, id : {f}, field : {""}]
        BY <4>3
      <4>6. j \in [kind : {"unknown"}, id : {f}, field : {""}]
        BY <4>4, <4>5
      <4>7. j = [kind |-> "unknown", id |-> f, field |-> ""]
        BY <4>6
      <4> QED BY <4>2, <4>3, <4>4, <4>7
    <3> QED BY <1>15, <2>1, <3>1 DEF recordUnknownCallEffects, Finds
  <2> QED BY <1>2, <1>5, <1>13, <1>15, <2>2, <2>3
<1>16. CASE instr.op = "Call"
  <2>1. PICK c : c = recordStaticCall(s, instr)
    OBVIOUS
  <2>2. c \in T[N].calls
    BY <1>11, <1>12, <1>16, <2>1 DEF Records
  <2>3. c.callee = instr.on /\ c.locks = s.locks
    BY <2>1 DEF recordStaticCall
  <2>4. instr.op \notin Accesses \cup {"DynCall"}
    BY <1>16 DEF Accesses, Loads, Stores
  <2> QED BY <1>2, <1>5, <1>13, <2>2, <2>3, <2>4
<1>17. scan(code, f) \in Scans
  BY <1>2, <1>5
<1> QED BY <1>14, <1>15, <1>16, <1>17

-----------------------------------------------------------------------------
(* What is known of an access after calls are followed.                    *)

LEMMA ScanTyped ==
    ASSUME code \in GoPrograms, NEW f \in GoFunctions
    PROVE  scan(code, f) \in Scans
<1>1. PICK T : Scanned(code, f, T)
  BY ScanUnfolds
<1>2. code.body[f] \in Seq(GoInstructions)
  BY ProgramFacts
<1>3. PICK N \in Nat : N = Len(code.body[f])
  BY <1>2, LenProperties
<1> QED BY <1>1, <1>3 DEF Scanned

AccessSets == [GoFunctions -> SUBSET MemoryAccesses]

LEMMA DeeperTyped ==
    ASSUME code \in GoPrograms, NEW E \in AccessSets
    PROVE  Deeper(E) \in AccessSets
<1>1. ASSUME NEW f \in GoFunctions, NEW a \in Inlined(E, f) PROVE a \in MemoryAccesses
  <2>1. PICK c \in scan(code, f).calls :
            a \in mergeLocksets(Substitute(E[c.callee], c.callee, rootKey(code, f), FALSE), c.locks)
    BY <1>1 DEF Inlined
  <2>2. c \in StaticCalls
    BY ScanTyped DEF Scans
  <2>3. PICK g \in GoFunctions : g = c.callee
    BY <2>2 DEF StaticCalls
  <2>4. c.locks \in SUBSET KeyLocks
    BY <2>2 DEF StaticCalls
  <2>5. E[g] \in SUBSET MemoryAccesses
    BY DEF AccessSets
  <2>6. PICK x \in Substitute(E[g], g, rootKey(code, f), FALSE) :
            a = [x EXCEPT !.locks = x.locks \cup c.locks]
    BY <2>1, <2>3 DEF mergeLocksets
  <2>7. x \in MemoryAccesses
    BY <2>5, SubstituteFacts DEF Renamed
  <2> QED BY <2>4, <2>6, <2>7 DEF MemoryAccesses
<1>2. \A f \in GoFunctions : scan(code, f).accesses \in SUBSET MemoryAccesses
  BY ScanTyped DEF Scans
<1> QED BY <1>1, <1>2 DEF Deeper, AccessSets

(* A lockset in the terms of f; the access z, in the terms of f, for y, in *)
(* the terms of g.                                                          *)
Named(f, L) ==
    \A l \in L : \E m \in LockFields, read \in BOOLEAN : l = Lock(memoryKey(code, f, m), read)

Renames(g, f, instr, y, z) ==
    /\ z \in MemoryAccesses /\ Finds(f, instr, z)
    /\ \A l \in z.locks : \E m \in LockFields, read \in BOOLEAN :
           /\ l = Lock(memoryKey(code, f, m), read)
           /\ Lock(memoryKey(code, g, m), read) \in y.locks

(* Under the name that another function has for the object, an access is   *)
(* the same access under the same locks.                                   *)
LEMMA RenamedKeeps ==
    ASSUME code \in GoPrograms, NEW g \in GoFunctions, NEW f \in GoFunctions,
           NEW bound \in BOOLEAN, NEW A \in SUBSET MemoryAccesses, NEW y \in A,
           NEW instr, Finds(g, instr, y), instr.op \in Accesses \/ bound, Named(g, y.locks)
    PROVE  \E z \in Substitute(A, g, rootKey(code, f), bound) : Renames(g, f, instr, y, z)
<1>1. PICK root : root = rootKey(code, f)
  OBVIOUS
<1>2. root.id = f
  BY <1>1, ProgramFacts
<1>3. ASSUME NEW x PROVE substituteRoot(memoryKey(code, g, x), g, root, bound) = memoryKey(code, f, x)
  <2>1. PICK c : c = rootKey(code, g).kind
    OBVIOUS
  <2>2. PICK j : j = memoryKey(code, g, x)
    OBVIOUS
  <2>3. j = [kind |-> c, id |-> g, field |-> x] /\ c # "unknown"
    BY <2>1, <2>2, ProgramFacts DEF memoryKey
  <2>4. j.id = g /\ j.kind # "unknown" /\ j.field = x
    BY <2>3
  <2>5. substituteRoot(j, g, root, bound) = [kind |-> root.kind, id |-> root.id, field |-> x]
    BY <2>4 DEF substituteRoot
  <2> QED BY <1>1, <1>2, <2>2, <2>5 DEF memoryKey
<1>4. ASSUME bound
      PROVE  substituteRoot([kind |-> "unknown", id |-> g, field |-> ""], g, root, bound)
             = [kind |-> "unknown", id |-> f, field |-> ""]
  <2>1. PICK j : j = [kind |-> "unknown", id |-> g, field |-> ""]
    OBVIOUS
  <2>2. j.id = g /\ j.kind = "unknown" /\ j \in [kind : {"unknown"}, id : {g}, field : {""}]
    BY <2>1
  <2>3. PICK k : k = [j EXCEPT !.id = f]
    OBVIOUS
  <2>4. substituteRoot(j, g, root, bound) = k
    BY <1>2, <1>4, <2>2, <2>3 DEF substituteRoot
  <2>5. k \in [kind : {"unknown"}, id : {f}, field : {""}]
    BY <2>2, <2>3
  <2>6. k = [kind |-> "unknown", id |-> f, field |-> ""]
    BY <2>5
  <2> QED BY <2>1, <2>4, <2>6
<1>5. PICK k : k = substituteRoot(y.key, g, root, bound)
  OBVIOUS
<1>6. PICK S : S = substituteLockset(y.locks, g, root, bound)
  OBVIOUS
<1>7. PICK z : z = [y EXCEPT !.key = substituteRoot(y.key, g, root, bound),
                             !.locks = substituteLockset(y.locks, g, root, bound)]
  OBVIOUS
<1>8. z \in Substitute(A, g, root, bound)
  BY <1>7 DEF Substitute
<1>9. z \in MemoryAccesses
  BY <1>1, <1>8, SubstituteFacts DEF Renamed
<1>10. z.key = k /\ z.locks = S /\ z.write = y.write /\ z.atomic = y.atomic
  BY <1>5, <1>6, <1>7 DEF MemoryAccesses
<1>11. Finds(f, instr, z)
  <2>1. CASE instr.op \in Accesses
    <3>1. instr.op # "DynCall"
      BY <2>1 DEF Accesses, Loads, Stores
    <3>2. /\ y.key = memoryKey(code, g, instr.on) /\ y.write = (instr.op \in Stores)
          /\ y.atomic = (instr.op \in {"AtomicLoad", "AtomicStore"})
      BY <3>1 DEF Finds
    <3>3. k = memoryKey(code, f, instr.on)
      BY <1>3, <1>5, <3>2
    <3> QED BY <1>10, <2>1, <3>2, <3>3 DEF Finds
  <2>2. CASE instr.op \notin Accesses
    <3>1. /\ instr.op = "DynCall" /\ y.key = [kind |-> "unknown", id |-> g, field |-> ""]
          /\ y.write = TRUE /\ y.atomic = FALSE
      BY <2>2 DEF Finds
    <3>2. k = [kind |-> "unknown", id |-> f, field |-> ""]
      BY <1>4, <1>5, <2>2, <3>1
    <3> QED BY <1>10, <3>1, <3>2 DEF Finds
  <2> QED BY <2>1, <2>2
<1>12. ASSUME NEW l \in S
       PROVE  \E m \in LockFields, read \in BOOLEAN :
                  /\ l = Lock(memoryKey(code, f, m), read)
                  /\ Lock(memoryKey(code, g, m), read) \in y.locks
  <2>1. PICK h \in y.locks : l = [h EXCEPT !.key = substituteRoot(h.key, g, root, bound)]
    BY <1>6, <1>12 DEF substituteLockset
  <2>2. PICK m \in LockFields, read \in BOOLEAN : h = Lock(memoryKey(code, g, m), read)
    BY DEF Named
  <2>3. PICK j : j = memoryKey(code, g, m)
    OBVIOUS
  <2>4. PICK i : i = memoryKey(code, f, m)
    OBVIOUS
  <2>5. h = [key |-> j, read |-> read]
    BY <2>2, <2>3 DEF Lock
  <2>6. h.key = j /\ h \in [key : {j}, read : {read}]
    BY <2>5
  <2>7. substituteRoot(h.key, g, root, bound) = i
    BY <1>3, <2>3, <2>4, <2>6
  <2>8. l = [h EXCEPT !.key = i]
    BY <2>1, <2>7
  <2>9. l \in [key : {i}, read : {read}]
    BY <2>6, <2>8
  <2>10. l = [key |-> i, read |-> read]
    BY <2>9
  <2> QED BY <2>2, <2>4, <2>10 DEF Lock
<1> QED BY <1>1, <1>8, <1>9, <1>10, <1>11, <1>12 DEF Renames

-----------------------------------------------------------------------------
(* The report covers what a thread is about to do.                         *)

(* Every call but the top one has just called the next.                    *)
Chained(p, s) ==
    \A j \in 1..(Len(s) - 1) :
        /\ s[j].at - 1 \in 1..Len(p.body[s[j].fn])
        /\ p.body[s[j].fn][s[j].at - 1] = [op |-> "Call", on |-> s[j + 1].fn]

(* A lockset, in the terms of call j, of locks held by it or a later call. *)
HeldSince(s, j, L) ==
    \A l \in L : \E k \in j..Len(s), m \in LockFields, read \in BOOLEAN :
        /\ l = Lock(memoryKey(code, s[j].fn, m), read)
        /\ Holding(code, s[k].fn, s[k].at, m, read)

(* The access of the top call is known to each of its callers, k calls     *)
(* further down, where calls are followed at least k levels deep.          *)
LEMMA CallersKnow ==
    ASSUME code \in GoPrograms, NEW s \in Seq(GoFrames), s # <<>>, Chained(code, s),
           NEW instr, Last(s).at \in 1..Len(code.body[Last(s).fn]),
           instr = code.body[Last(s).fn][Last(s).at],
           instr.op \in Accesses \cup {"DynCall"},
           NEW T \in [Nat -> AccessSets], T[0] = OwnAccesses,
           \A n \in Nat : T[n + 1] = Deeper(T[n])
    PROVE  \A k \in Nat : \A d \in Nat :
               k < Len(s) /\ k <= d /\ (instr.op \in Accesses \/ k = 0) =>
                   \E a \in T[d][s[Len(s) - k].fn] :
                       Finds(s[Len(s) - k].fn, instr, a) /\ HeldSince(s, Len(s) - k, a.locks)
<1>1. PICK n \in Nat : n = Len(s) /\ n # 0
  <2>1. Len(s) \in Nat /\ Len(s) # 0
    BY EmptySeq, LenProperties
  <2> QED BY <2>1
<1>2. \A j \in 1..n : s[j] \in GoFrames
  BY <1>1, ElementOfSeq
<1>3. \A j \in 1..n : s[j].fn \in GoFunctions
  BY <1>2 DEF GoFrames
<1>4. \A d \in Nat : \A f \in GoFunctions :
          /\ scan(code, f).accesses \subseteq T[d][f]
          /\ T[d + 1][f] = scan(code, f).accesses \cup Inlined(T[d], f)
  <2>1. SUFFICES ASSUME NEW d \in Nat, NEW f \in GoFunctions
                 PROVE  /\ scan(code, f).accesses \subseteq T[d][f]
                        /\ T[d + 1][f] = scan(code, f).accesses \cup Inlined(T[d], f)
    OBVIOUS
  <2>2. ASSUME NEW e \in Nat PROVE T[e + 1][f] = scan(code, f).accesses \cup Inlined(T[e], f)
    BY DEF Deeper
  <2>3. CASE d = 0
    BY <2>2, <2>3 DEF OwnAccesses
  <2>4. CASE d # 0
    <3>1. d - 1 \in Nat /\ d - 1 + 1 = d
      BY <2>1, <2>4
    <3>2. T[d][f] = scan(code, f).accesses \cup Inlined(T[d - 1], f)
      BY <2>2, <3>1
    <3> QED BY <2>2, <3>2
  <2> QED BY <2>2, <2>3, <2>4
<1> DEFINE Known(k) ==
        \A d \in Nat : k < n /\ k <= d /\ (instr.op \in Accesses \/ k = 0) =>
            \E a \in T[d][s[n - k].fn] :
                Finds(s[n - k].fn, instr, a) /\ HeldSince(s, n - k, a.locks)
           G == {k \in Nat : Known(k)}
<1>5. 0 \in G
  <2>1. SUFFICES ASSUME NEW d \in Nat
                 PROVE  \E a \in T[d][s[n].fn] : Finds(s[n].fn, instr, a) /\ HeldSince(s, n, a.locks)
    BY <1>1
  <2>2. n \in 1..n /\ Last(s) = s[n]
    BY <1>1 DEF Last
  <2>3. PICK f \in GoFunctions : f = s[n].fn
    BY <1>3, <2>2
  <2>4. PICK i : i = s[n].at
    OBVIOUS
  <2>5. i \in 1..Len(code.body[f]) /\ instr = code.body[f][i]
    BY <2>2, <2>3, <2>4
  <2>6. PICK a \in scan(code, f).accesses : Finds(f, instr, a) /\ HeldThere(f, i, a.locks)
    BY <2>5, ScanKeeps
  <2>7. HeldSince(s, n, a.locks)
    <3>1. SUFFICES ASSUME NEW l \in a.locks
                   PROVE  \E k \in n..Len(s), m \in LockFields, read \in BOOLEAN :
                              /\ l = Lock(memoryKey(code, s[n].fn, m), read)
                              /\ Holding(code, s[k].fn, s[k].at, m, read)
      BY DEF HeldSince
    <3>2. PICK m \in LockFields, read \in BOOLEAN :
              l = Lock(memoryKey(code, f, m), read) /\ Holding(code, f, i, m, read)
      BY <2>6 DEF HeldThere
    <3>3. n \in n..Len(s)
      BY <1>1
    <3> QED BY <2>3, <2>4, <3>2, <3>3
  <2>8. a \in T[d][f]
    BY <1>4
  <2> QED BY <2>3, <2>6, <2>7, <2>8
<1>6. ASSUME NEW k \in Nat, k \in G PROVE k + 1 \in G
  <2>1. SUFFICES ASSUME NEW d \in Nat, k + 1 < n, k + 1 <= d, instr.op \in Accesses \/ k + 1 = 0
                 PROVE  \E a \in T[d][s[n - (k + 1)].fn] :
                            /\ Finds(s[n - (k + 1)].fn, instr, a)
                            /\ HeldSince(s, n - (k + 1), a.locks)
    <3>1. Known(k + 1)
      OBVIOUS
    <3>2. k + 1 \in Nat
      OBVIOUS
    <3> HIDE DEF Known
    <3> QED BY <3>1, <3>2
  <2>2. instr.op \in Accesses
    BY <2>1
  <2>3. PICK e \in Nat : e + 1 = d /\ k <= e
    <3>1. d - 1 \in Nat /\ d - 1 + 1 = d /\ k <= d - 1
      BY <2>1
    <3> QED BY <3>1
  <2>4. PICK j \in 1..(n - 1) : j = n - (k + 1) /\ j + 1 = n - k /\ j \in 1..n /\ j + 1 \in 1..n
    <3>1. n - (k + 1) \in 1..(n - 1) /\ n - (k + 1) + 1 = n - k
          /\ n - (k + 1) \in 1..n /\ n - (k + 1) + 1 \in 1..n
      BY <2>1
    <3> QED BY <3>1
  <2>5. PICK g \in GoFunctions : g = s[j + 1].fn
    BY <1>3, <2>4
  <2>6. PICK f \in GoFunctions : f = s[j].fn
    BY <1>3, <2>4
  <2>7. PICK y \in T[e][g] : Finds(g, instr, y) /\ HeldSince(s, j + 1, y.locks)
    <3>1. k < n /\ Known(k)
      BY <1>6, <2>1
    <3> QED BY <2>2, <2>3, <2>4, <2>5, <3>1
  <2>8. PICK i : i = s[j].at - 1
    OBVIOUS
  <2>9. i \in 1..Len(code.body[f]) /\ code.body[f][i] = [op |-> "Call", on |-> g]
    BY <1>1, <2>4, <2>5, <2>6, <2>8 DEF Chained
  <2>10. PICK c \in scan(code, f).calls : c.callee = g /\ HeldThere(f, i, c.locks)
    <3>1. PICK call : call = code.body[f][i]
      OBVIOUS
    <3>2. call.op = "Call" /\ call.on = g
      BY <2>9, <3>1
    <3> QED BY <2>9, <3>1, <3>2, ScanKeeps
  <2>11. PICK A \in SUBSET MemoryAccesses : A = T[e][g]
    BY DEF AccessSets
  <2>12. PICK z \in Substitute(A, g, rootKey(code, f), FALSE) : Renames(g, f, instr, y, z)
    <3>1. Named(g, y.locks)
      BY <2>5, <2>7 DEF HeldSince, Named
    <3>2. y \in A /\ Finds(g, instr, y)
      BY <2>7, <2>11
    <3>3. PICK bound \in BOOLEAN : bound = FALSE
      OBVIOUS
    <3>4. \E z \in Substitute(A, g, rootKey(code, f), bound) : Renames(g, f, instr, y, z)
      BY <2>2, <3>1, <3>2, RenamedKeeps
    <3> QED BY <3>3, <3>4
  <2>13. PICK a : a = [z EXCEPT !.locks = z.locks \cup c.locks]
    OBVIOUS
  <2>14. a \in T[d][f]
    <3>1. a \in mergeLocksets(Substitute(T[e][g], g, rootKey(code, f), FALSE), c.locks)
      BY <2>11, <2>13 DEF mergeLocksets
    <3>2. a \in Inlined(T[e], f)
      BY <2>10, <3>1 DEF Inlined
    <3>3. T[e + 1][f] = scan(code, f).accesses \cup Inlined(T[e], f)
      BY <1>4
    <3> QED BY <2>3, <3>2, <3>3
  <2>15. a.key = z.key /\ a.write = z.write /\ a.atomic = z.atomic /\ a.locks = z.locks \cup c.locks
    BY <2>12, <2>13 DEF MemoryAccesses, Renames
  <2>16. Finds(f, instr, a)
    BY <2>12, <2>15 DEF Finds, Renames
  <2>17. ASSUME NEW l \in z.locks
         PROVE  \E q \in j..n, m \in LockFields, read \in BOOLEAN :
                    /\ l = Lock(memoryKey(code, f, m), read)
                    /\ Holding(code, s[q].fn, s[q].at, m, read)
    <3>1. PICK m \in LockFields, read \in BOOLEAN :
              /\ l = Lock(memoryKey(code, f, m), read)
              /\ Lock(memoryKey(code, g, m), read) \in y.locks
      BY <2>12 DEF Renames
    <3>2. PICK q \in (j + 1)..n, w \in LockFields, mode \in BOOLEAN :
              /\ Lock(memoryKey(code, g, m), read) = Lock(memoryKey(code, g, w), mode)
              /\ Holding(code, s[q].fn, s[q].at, w, mode)
      BY <1>1, <2>5, <2>7, <3>1 DEF HeldSince
    <3>3. w = m /\ mode = read
      BY <3>2 DEF Lock, memoryKey
    <3>4. q \in j..n
      BY <2>4
    <3> QED BY <3>1, <3>2, <3>3, <3>4
  <2>18. ASSUME NEW l \in c.locks
         PROVE  \E q \in j..n, m \in LockFields, read \in BOOLEAN :
                    /\ l = Lock(memoryKey(code, f, m), read)
                    /\ Holding(code, s[q].fn, s[q].at, m, read)
    <3>1. PICK m \in LockFields, read \in BOOLEAN :
              l = Lock(memoryKey(code, f, m), read) /\ Holding(code, f, i, m, read)
      BY <2>10 DEF HeldThere
    <3>2. Holding(code, f, i + 1, m, read)
      <4>1. code.body[f][i] # Give(m, read)
        <5>1. Give(m, read).op = "Unlock" \/ Give(m, read).op = "RUnlock"
          BY DEF Give
        <5>2. [op |-> "Call", on |-> g].op = "Call"
          OBVIOUS
        <5> QED BY <2>9, <5>1, <5>2
      <4>2. i \in Nat \ {0}
        BY <2>9
      <4> QED BY <3>1, <4>1, <4>2, HoldingStep
    <3>3. i + 1 = s[j].at /\ j \in j..n
      <4>1. s[j].at \in Nat
        BY <1>2, <2>4 DEF GoFrames
      <4>2. j \in j..n
        BY <2>4
      <4>3. PICK at \in Nat : at = s[j].at
        BY <4>1
      <4>4. i = at - 1
        BY <2>8, <4>3
      <4>5. i + 1 = at
        BY <4>4
      <4> QED BY <4>2, <4>3, <4>5
    <3> QED BY <2>6, <3>1, <3>2, <3>3
  <2>19. HeldSince(s, j, a.locks)
    BY <1>1, <2>6, <2>15, <2>17, <2>18 DEF HeldSince
  <2> QED BY <2>4, <2>6, <2>14, <2>16, <2>19
<1>7. Nat \subseteq G
  <2> HIDE DEF G
  <2> QED BY <1>5, <1>6, SetInduction
<1> QED BY <1>1, <1>7

(* t has m, for reading or for writing.                                    *)
HasLock(w, r, t, m, read) == IF read THEN t \in r[m] ELSE w[m] = t

(* What the calls of a thread hold by the text is what the thread has.     *)
HeldAreOwned(p, w, r, t, s) ==
    \A j \in 1..Len(s), m \in LockFields, read \in BOOLEAN :
        Holding(p, s[j].fn, s[j].at, m, read) => HasLock(w, r, t, m, read)

FirstCall(t) == IF t = "main" THEN "main" ELSE "worker"

(* The report knows of what t is about to do: in main's terms, and under   *)
(* no lock that t does not have.                                           *)
Tells(t, field, e) ==
    /\ e.inGoroutine = (t # "main")
    /\ e.access.write = Writes(t) /\ e.access.atomic = IsAtomic(t)
    /\ \/ e.access.key = memoryKey(code, "main", field)
       \/ /\ Instr(t).op = "DynCall"
          /\ e.access.key = [kind |-> "unknown", id |-> "main", field |-> ""]
    /\ \A l \in e.access.locks : \E m \in LockFields, read \in BOOLEAN :
           l = Lock(memoryKey(code, "main", m), read) /\ HasLock(writer, readers, t, m, read)

LEMMA AccessIsCovered ==
    ASSUME ThreadsInv, Disciplined(code), Followed, NEW t \in Threads, NEW field, Touches(t, field),
           Chained(code, threads[t]), threads[t][1].fn = FirstCall(t),
           HeldAreOwned(code, writer, readers, t, threads[t])
    PROVE  \E e \in ExpandConcurrentAccesses(code) : Tells(t, field, e)
<1>1. code \in GoPrograms /\ threads \in [Threads -> Seq(GoFrames)]
  BY DEF ThreadsInv
<1>2. PICK s \in Seq(GoFrames) : s = threads[t]
  BY <1>1
<1>3. s # <<>> /\ ~AtEnd(t) /\ Instr(t).op \in Accesses \cup {"DynCall"}
      /\ (Instr(t).on = field \/ Instr(t).op = "DynCall")
  BY <1>2 DEF Touches, Goes, Runs
<1>4. PICK n \in Nat : n = Len(s) /\ n # 0 /\ n \in 1..n /\ 1 \in 1..n
  <2>1. Len(s) \in Nat /\ Len(s) # 0
    BY <1>3, EmptySeq, LenProperties
  <2> QED BY <2>1
<1>5. \A j \in 1..n : s[j] \in GoFrames
  BY <1>4, ElementOfSeq
<1>6. PICK f \in GoFunctions : f = s[n].fn
  BY <1>4, <1>5 DEF GoFrames
<1>7. Top(t) = s[n] /\ Last(s) = s[n]
  BY <1>2, <1>4 DEF Top, Last
<1>8. PICK i : i = s[n].at
  OBVIOUS
<1>9. PICK instr : instr = Instr(t)
  OBVIOUS
<1>10. i \in 1..Len(code.body[f]) /\ instr = code.body[f][i]
  <2>1. PICK N \in Nat : N = Len(code.body[f])
    <3>1. code.body[f] \in Seq(GoInstructions)
      BY <1>1, ProgramFacts
    <3> QED BY <3>1, LenProperties
  <2>2. i \in 1..(N + 1)
    BY <1>4, <1>5, <1>6, <1>8, <2>1 DEF GoFrames
  <2>3. ~(i > N)
    BY <1>3, <1>6, <1>7, <1>8, <2>1 DEF AtEnd, Body
  <2>4. instr = code.body[f][i]
    BY <1>6, <1>7, <1>8, <1>9 DEF Instr, Body
  <2> QED BY <2>1, <2>2, <2>3, <2>4
<1>11. n <= MaxCallDepth + 1 /\ n - 1 \in Nat /\ n - 1 < n /\ n - 1 <= MaxCallDepth /\ n - (n - 1) = 1
  BY <1>2, <1>4, MaxCallDepthAssumption DEF Followed
<1>12. PICK T \in [Nat -> AccessSets] :
           /\ T[0] = OwnAccesses
           /\ \A k \in Nat : T[k + 1] = Deeper(T[k])
           /\ Expanded(code) = T[MaxCallDepth]
  <2>1. OwnAccesses \in AccessSets
    BY <1>1, ScanTyped DEF OwnAccesses, AccessSets, Scans
  <2>2. \A E \in AccessSets : Deeper(E) \in AccessSets
    BY <1>1, DeeperTyped
  <2> QED BY <2>1, <2>2, ExpandedUnfolds
<1>13. PICK E \in AccessSets : E = Expanded(code) /\ E = T[MaxCallDepth]
  BY <1>12, MaxCallDepthAssumption
<1>14. instr.op = "DynCall" => n = 1 /\ Traced(code, f)
  <2>1. SUFFICES ASSUME instr.op = "DynCall" PROVE n = 1 /\ Traced(code, f)
    OBVIOUS
  <2>2. Traced(code, f)
    <3>1. DOMAIN code.body[f] = 1..Len(code.body[f])
      <4>1. code.body[f] \in Seq(GoInstructions)
        BY <1>1, ProgramFacts
      <4> QED BY <4>1, LenProperties
    <3> QED BY <1>10, <2>1, <3>1 DEF Disciplined
  <2>3. CASE n # 1
    <3>1. PICK j \in 1..(n - 1) : j + 1 = n /\ j \in 1..n
      <4>1. n - 1 \in 1..(n - 1) /\ n - 1 + 1 = n /\ n - 1 \in 1..n
        BY <1>4, <2>3
      <4> QED BY <4>1
    <3>2. PICK g \in GoFunctions : g = s[j].fn
      BY <1>5, <3>1 DEF GoFrames
    <3>3. PICK c : c = s[j].at - 1
      OBVIOUS
    <3>4. c \in 1..Len(code.body[g]) /\ code.body[g][c] = [op |-> "Call", on |-> f]
      BY <1>2, <1>4, <1>6, <3>1, <3>2, <3>3 DEF Chained
    <3>5. c \in DOMAIN code.body[g]
      <4>1. code.body[g] \in Seq(GoInstructions)
        BY <1>1, ProgramFacts
      <4> QED BY <3>4, <4>1, LenProperties
    <3> QED BY <2>2, <3>4, <3>5 DEF Traced, Called
  <2> QED BY <2>2, <2>3
<1>15. PICK b \in GoFunctions : b = s[1].fn /\ b = FirstCall(t)
  BY <1>2, <1>4, <1>5 DEF GoFrames
<1>16. PICK a \in E[b] : Finds(b, instr, a) /\ HeldSince(s, 1, a.locks)
  <2>1. PICK d \in Nat : d = MaxCallDepth
    BY MaxCallDepthAssumption
  <2>2. PICK k \in Nat : k = n - 1 /\ k < Len(s) /\ k <= d /\ Len(s) - k = 1
                         /\ (instr.op \in Accesses \/ k = 0)
    BY <1>3, <1>4, <1>9, <1>11, <1>14, <2>1
  <2>3. /\ Last(s).at \in 1..Len(code.body[Last(s).fn])
        /\ instr = code.body[Last(s).fn][Last(s).at]
        /\ instr.op \in Accesses \cup {"DynCall"} /\ Chained(code, s)
    BY <1>2, <1>3, <1>6, <1>7, <1>8, <1>9, <1>10
  <2>4. \E a \in T[d][s[Len(s) - k].fn] :
            Finds(s[Len(s) - k].fn, instr, a) /\ HeldSince(s, Len(s) - k, a.locks)
    BY <1>1, <1>3, <1>12, <2>2, <2>3, CallersKnow
  <2> QED BY <1>13, <1>15, <2>1, <2>2, <2>4
<1>17. \A l \in a.locks : \E m \in LockFields, read \in BOOLEAN :
           l = Lock(memoryKey(code, b, m), read) /\ HasLock(writer, readers, t, m, read)
  <2>1. SUFFICES ASSUME NEW l \in a.locks
                 PROVE  \E m \in LockFields, read \in BOOLEAN :
                            l = Lock(memoryKey(code, b, m), read) /\ HasLock(writer, readers, t, m, read)
    OBVIOUS
  <2>2. PICK k \in 1..n, m \in LockFields, read \in BOOLEAN :
            l = Lock(memoryKey(code, b, m), read) /\ Holding(code, s[k].fn, s[k].at, m, read)
    BY <1>4, <1>15, <1>16, <2>1 DEF HeldSince
  <2>3. HasLock(writer, readers, t, m, read)
    BY <1>2, <1>4, <2>2 DEF HeldAreOwned
  <2> QED BY <2>2, <2>3
<1>18. ASSUME NEW x, Finds("main", instr, x)
       PROVE  /\ x.write = Writes(t) /\ x.atomic = IsAtomic(t)
              /\ \/ x.key = memoryKey(code, "main", field)
                 \/ /\ Instr(t).op = "DynCall"
                    /\ x.key = [kind |-> "unknown", id |-> "main", field |-> ""]
  <2>1. CASE instr.op \in Accesses
    <3>1. instr.op # "DynCall"
      BY <2>1 DEF Accesses, Loads, Stores
    <3>2. /\ x.key = memoryKey(code, "main", instr.on)
          /\ x.write = (instr.op \in Stores)
          /\ x.atomic = (instr.op \in {"AtomicLoad", "AtomicStore"})
      BY <1>18, <3>1 DEF Finds
    <3>3. instr.on = field
      BY <1>3, <1>9, <3>1
    <3>4. (instr.op \in Stores) = Writes(t)
      BY <1>9, <3>1 DEF Writes
    <3>5. (instr.op \in {"AtomicLoad", "AtomicStore"}) = IsAtomic(t)
      BY <1>9, Zenon DEF IsAtomic
    <3> QED BY <3>2, <3>3, <3>4, <3>5, Zenon
  <2>2. CASE instr.op = "DynCall"
    <3>1. instr.op \notin Accesses
      BY <2>2 DEF Accesses, Loads, Stores
    <3>2. /\ x.key = [kind |-> "unknown", id |-> "main", field |-> ""]
          /\ x.write = TRUE /\ x.atomic = FALSE
      BY <1>18, <3>1 DEF Finds
    <3>3. Writes(t) = TRUE
      BY <1>9, <2>2 DEF Writes
    <3>4. IsAtomic(t) = FALSE
      BY <1>9, <2>2 DEF IsAtomic
    <3> QED BY <1>9, <2>2, <3>2, <3>3, <3>4, Zenon
  <2> QED BY <1>3, <1>9, <2>1, <2>2
<1>19. PICK D \in SUBSET GoFunctions : D = IF code.closure THEN GoFunctions \ {"worker"} ELSE GoFunctions
  OBVIOUS
<1>20. PICK W : W = Substitute(E["worker"], "worker", rootKey(code, "main"), code.closure)
  OBVIOUS
<1>21. ExpandConcurrentAccesses(code)
       = {[access |-> x, inGoroutine |-> FALSE] : x \in UNION {E[g] : g \in D}}
         \cup {[access |-> x, inGoroutine |-> TRUE] : x \in W}
  BY <1>13, <1>19, <1>20 DEF ExpandConcurrentAccesses
<1>22. CASE t = "main"
  <2>1. b = "main" /\ "main" \in D
    BY <1>15, <1>19, <1>22 DEF FirstCall, GoFunctions
  <2>2. PICK e : e = [access |-> a, inGoroutine |-> FALSE]
    OBVIOUS
  <2>3. e \in ExpandConcurrentAccesses(code)
    BY <1>21, <2>1, <2>2
  <2>4. e.access = a /\ e.inGoroutine = FALSE
    BY <2>2
  <2>5. Tells(t, field, e)
    BY <1>16, <1>17, <1>18, <1>22, <2>1, <2>4 DEF Tells
  <2> QED BY <2>3, <2>5
<1>23. CASE t # "main"
  <2>1. b = "worker" /\ "main" \in GoFunctions /\ "worker" \in GoFunctions
    BY <1>15, <1>23 DEF FirstCall, GoFunctions
  <2>2. PICK bound \in BOOLEAN : bound = code.closure
    BY <1>1, GoProgramsAssumption
  <2>3. instr.op \in Accesses \/ bound
    <3>1. CASE instr.op = "DynCall"
      <4>1. n = 1 /\ f = "worker"
        BY <1>6, <1>14, <1>15, <2>1, <3>1
      <4> QED BY <1>14, <2>2, <3>1, <4>1 DEF Traced
    <3> QED BY <1>3, <1>9, <3>1
  <2>4. PICK A \in SUBSET MemoryAccesses : A = E["worker"]
    BY <2>1 DEF AccessSets
  <2>5. Named("worker", a.locks) /\ a \in A /\ Finds("worker", instr, a)
    BY <1>16, <1>17, <2>1, <2>4 DEF Named
  <2>6. PICK z \in Substitute(A, "worker", rootKey(code, "main"), bound) :
            Renames("worker", "main", instr, a, z)
    BY <1>1, <2>1, <2>3, <2>5, RenamedKeeps
  <2>7. z \in W
    BY <1>20, <2>2, <2>4, <2>6
  <2>8. PICK e : e = [access |-> z, inGoroutine |-> TRUE]
    OBVIOUS
  <2>9. e \in ExpandConcurrentAccesses(code) /\ e.access = z /\ e.inGoroutine = TRUE
    BY <1>21, <2>7, <2>8
  <2>10. ASSUME NEW l \in z.locks
         PROVE  \E m \in LockFields, read \in BOOLEAN :
                    l = Lock(memoryKey(code, "main", m), read) /\ HasLock(writer, readers, t, m, read)
    <3>1. PICK m \in LockFields, read \in BOOLEAN :
              /\ l = Lock(memoryKey(code, "main", m), read)
              /\ Lock(memoryKey(code, "worker", m), read) \in a.locks
      BY <2>6 DEF Renames
    <3>2. PICK w \in LockFields, mode \in BOOLEAN :
              /\ Lock(memoryKey(code, "worker", m), read) = Lock(memoryKey(code, "worker", w), mode)
              /\ HasLock(writer, readers, t, w, mode)
      BY <1>17, <2>1, <3>1
    <3>3. w = m /\ mode = read
      BY <3>2 DEF Lock, memoryKey
    <3> QED BY <3>1, <3>2, <3>3
  <2>11. Finds("main", instr, z)
    BY <2>6 DEF Renames
  <2>12. Tells(t, field, e)
    BY <1>18, <1>23, <2>9, <2>10, <2>11 DEF Tells
  <2> QED BY <2>9, <2>12
<1> QED BY <1>22, <1>23

-----------------------------------------------------------------------------
(* The stack of a thread of a disciplined program.                         *)

(* A deferred unlock is of a lock that the function takes.                 *)
Deferred(p, s) ==
    \A j \in 1..Len(s) : \A m \in s[j].defers :
        \E i \in 1..Len(p.body[s[j].fn]), read \in BOOLEAN : p.body[s[j].fn][i] = Take(m, read)

(* A call has taken no lock that a caller holds.                           *)
TakenAfresh(p, s) ==
    \A b \in 1..Len(s) : \A a \in 1..(b - 1) : \A i \in 1..(s[b].at - 1) :
        \A m \in LockFields, q \in BOOLEAN, r \in BOOLEAN :
            p.body[s[b].fn][i] = Take(m, q) => ~Holding(p, s[a].fn, s[a].at, m, r)

(* held bounds what the callers hold for reading.                          *)
Bounded(p, held, s) ==
    \A b \in 1..Len(s) : \A a \in 1..(b - 1) : \A m \in LockFields :
        Holding(p, s[a].fn, s[a].at, m, TRUE) => m \in held[s[b].fn]

WellFormed(p, held, t, s) ==
    /\ s # <<>> => s[1].fn = FirstCall(t)
    /\ Chained(p, s) /\ Deferred(p, s) /\ TakenAfresh(p, s) /\ Bounded(p, held, s)

(* The top call goes on: what it takes, no caller holds.                   *)
LEMMA MovedStack ==
    ASSUME code \in GoPrograms, NEW s \in Seq(GoFrames), NEW r \in Seq(GoFrames), NEW held, NEW t,
           NEW n \in Nat \ {0}, Len(s) = n, Len(r) = n, WellFormed(code, held, t, s),
           \A j \in 1..(n - 1) : r[j] = s[j],
           r[n].fn = s[n].fn, r[n].at = s[n].at + 1,
           \A m \in r[n].defers : m \in s[n].defers \/
               \E i \in 1..Len(code.body[s[n].fn]), read \in BOOLEAN :
                   code.body[s[n].fn][i] = Take(m, read),
           \A a \in 1..(n - 1), m \in LockFields, q \in BOOLEAN, x \in BOOLEAN :
               code.body[s[n].fn][s[n].at] = Take(m, q) => ~Holding(code, s[a].fn, s[a].at, m, x)
    PROVE  WellFormed(code, held, t, r)
<1>1. s # <<>> /\ \A j \in 1..n : r[j].fn = s[j].fn
  <2>1. \A j \in 1..n : j = n \/ j \in 1..(n - 1)
    OBVIOUS
  <2>2. \A j \in 1..n : r[j].fn = s[j].fn
    BY <2>1
  <2>3. s # <<>>
    BY EmptySeq
  <2> QED BY <2>2, <2>3
<1>2. r[1].fn = FirstCall(t)
  <2>1. 1 \in 1..n
    OBVIOUS
  <2> QED BY <1>1, <2>1 DEF WellFormed
<1>3. Chained(code, r)
  <2>1. SUFFICES ASSUME NEW j \in 1..(n - 1)
                 PROVE  /\ r[j].at - 1 \in 1..Len(code.body[r[j].fn])
                        /\ code.body[r[j].fn][r[j].at - 1] = [op |-> "Call", on |-> r[j + 1].fn]
    BY DEF Chained
  <2>2. r[j] = s[j] /\ j + 1 \in 1..n
    OBVIOUS
  <2>3. r[j + 1].fn = s[j + 1].fn
    BY <1>1, <2>2
  <2> QED BY <2>2, <2>3 DEF WellFormed, Chained
<1>4. Deferred(code, r)
  <2>1. SUFFICES ASSUME NEW j \in 1..n, NEW m \in r[j].defers
                 PROVE  \E i \in 1..Len(code.body[r[j].fn]), read \in BOOLEAN :
                            code.body[r[j].fn][i] = Take(m, read)
    BY DEF Deferred
  <2>2. CASE m \in s[j].defers
    BY <1>1, <2>2 DEF WellFormed, Deferred
  <2>3. CASE m \notin s[j].defers
    <3>1. j = n
      <4>1. j = n \/ j \in 1..(n - 1)
        OBVIOUS
      <4> QED BY <2>1, <2>3, <4>1
    <3> QED BY <2>1, <2>3, <3>1
  <2> QED BY <2>2, <2>3
<1>5. TakenAfresh(code, r)
  <2>1. SUFFICES ASSUME NEW b \in 1..n, NEW a \in 1..(b - 1), NEW i \in 1..(r[b].at - 1),
                        NEW m \in LockFields, NEW q \in BOOLEAN, NEW x \in BOOLEAN,
                        code.body[r[b].fn][i] = Take(m, q)
                 PROVE  ~Holding(code, r[a].fn, r[a].at, m, x)
    BY DEF TakenAfresh
  <2>2. a \in 1..(n - 1) /\ r[a] = s[a]
    <3>1. a \in 1..(n - 1)
      BY <2>1
    <3> QED BY <3>1
  <2>3. CASE i \in 1..(s[b].at - 1)
    BY <1>1, <2>1, <2>2, <2>3 DEF WellFormed, TakenAfresh
  <2>4. CASE i \notin 1..(s[b].at - 1)
    <3>1. b = n
      <4>1. b = n \/ b \in 1..(n - 1)
        OBVIOUS
      <4> QED BY <2>1, <2>4, <4>1
    <3>2. PICK at \in Nat : at = s[n].at
      <4>1. n \in 1..n
        OBVIOUS
      <4>2. s[n] \in GoFrames
        BY <4>1, ElementOfSeq
      <4> QED BY <4>2 DEF GoFrames
    <3>3. i \in 1..at /\ i \notin 1..(at - 1)
      <4>1. r[n].at = at + 1
        BY <3>2
      <4> QED BY <2>1, <2>4, <3>1, <3>2, <4>1
    <3>4. i = at
      BY <3>3
    <3> QED BY <2>1, <2>2, <3>1, <3>2, <3>4
  <2> QED BY <2>3, <2>4
<1>6. Bounded(code, held, r)
  <2>1. SUFFICES ASSUME NEW b \in 1..n, NEW a \in 1..(b - 1), NEW m \in LockFields,
                        Holding(code, r[a].fn, r[a].at, m, TRUE)
                 PROVE  m \in held[r[b].fn]
    BY DEF Bounded
  <2>2. a \in 1..(n - 1)
    BY <2>1
  <2>3. r[a] = s[a]
    BY <2>2
  <2> QED BY <1>1, <2>1, <2>3 DEF WellFormed, Bounded
<1> QED BY <1>2, <1>3, <1>4, <1>5, <1>6 DEF WellFormed

(* The top call has made a call: what all of them hold for reading is      *)
(* within the bound of the callee.                                         *)
LEMMA EnteredStack ==
    ASSUME code \in GoPrograms, NEW s \in Seq(GoFrames), NEW f \in GoFunctions, NEW held, NEW t,
           NEW n \in Nat \ {0}, Len(s) = n, WellFormed(code, held, t, s),
           s[n].at - 1 \in 1..Len(code.body[s[n].fn]),
           code.body[s[n].fn][s[n].at - 1] = [op |-> "Call", on |-> f],
           \A a \in 1..n, m \in LockFields :
               Holding(code, s[a].fn, s[a].at, m, TRUE) => m \in held[f]
    PROVE  WellFormed(code, held, t, Append(s, Call(f)))
<1>1. PICK c : c = Call(f) /\ c.fn = f /\ c.at = 1 /\ c.defers = {}
  <2>1. PICK c : c = [fn |-> f, at |-> 1, defers |-> {}]
    OBVIOUS
  <2> QED BY <2>1 DEF Call
<1>2. PICK r : r = Append(s, c)
  OBVIOUS
<1>3. Len(r) = n + 1 /\ Len(r) - 1 = n /\ r[n + 1] = c /\ \A j \in 1..n : r[j] = s[j]
  BY <1>2
<1>4. r # <<>> /\ s # <<>>
  <2>1. Len(r) # 0 /\ Len(s) # 0
    BY <1>3
  <2> QED BY <2>1, EmptySeq
<1>5. r[1].fn = FirstCall(t)
  <2>1. 1 \in 1..n
    OBVIOUS
  <2> QED BY <1>3, <1>4, <2>1 DEF WellFormed
<1>6. \A b \in 1..(n + 1) : b = n + 1 \/ b \in 1..n
  OBVIOUS
<1>7. Chained(code, r)
  <2>1. SUFFICES ASSUME NEW j \in 1..n
                 PROVE  /\ r[j].at - 1 \in 1..Len(code.body[r[j].fn])
                        /\ code.body[r[j].fn][r[j].at - 1] = [op |-> "Call", on |-> r[j + 1].fn]
    BY <1>3 DEF Chained
  <2>2. CASE j = n
    BY <1>1, <1>3, <2>2
  <2>3. CASE j # n
    <3>1. j \in 1..(n - 1) /\ j + 1 \in 1..n
      BY <2>3
    <3>2. r[j] = s[j] /\ r[j + 1] = s[j + 1]
      BY <1>3, <3>1
    <3> QED BY <3>1, <3>2 DEF WellFormed, Chained
  <2> QED BY <2>2, <2>3
<1>8. Deferred(code, r)
  <2>1. SUFFICES ASSUME NEW j \in 1..(n + 1), NEW m \in r[j].defers
                 PROVE  \E i \in 1..Len(code.body[r[j].fn]), read \in BOOLEAN :
                            code.body[r[j].fn][i] = Take(m, read)
    BY <1>3 DEF Deferred
  <2>2. j \in 1..n /\ r[j] = s[j]
    BY <1>1, <1>3, <1>6, <2>1
  <2> QED BY <2>1, <2>2 DEF WellFormed, Deferred
<1>9. TakenAfresh(code, r)
  <2>1. SUFFICES ASSUME NEW b \in 1..(n + 1), NEW a \in 1..(b - 1), NEW i \in 1..(r[b].at - 1),
                        NEW m \in LockFields, NEW q \in BOOLEAN, NEW x \in BOOLEAN,
                        code.body[r[b].fn][i] = Take(m, q)
                 PROVE  ~Holding(code, r[a].fn, r[a].at, m, x)
    BY <1>3 DEF TakenAfresh
  <2>2. a \in 1..n /\ r[a] = s[a]
    <3>1. a \in 1..n
      BY <2>1
    <3> QED BY <1>3, <3>1
  <2>3. b # n + 1
    <3>1. SUFFICES ASSUME b = n + 1 PROVE FALSE
      OBVIOUS
    <3>2. i \in 1..0
      BY <1>1, <1>3, <2>1, <3>1
    <3> QED BY <3>2
  <2>4. b \in 1..n /\ r[b] = s[b]
    BY <1>3, <1>6, <2>3
  <2> QED BY <2>1, <2>2, <2>4 DEF WellFormed, TakenAfresh
<1>10. Bounded(code, held, r)
  <2>1. SUFFICES ASSUME NEW b \in 1..(n + 1), NEW a \in 1..(b - 1), NEW m \in LockFields,
                        Holding(code, r[a].fn, r[a].at, m, TRUE)
                 PROVE  m \in held[r[b].fn]
    BY <1>3 DEF Bounded
  <2>2. a \in 1..n
    BY <2>1
  <2>3. r[a] = s[a]
    BY <1>3, <2>2
  <2>4. CASE b = n + 1
    BY <1>1, <1>3, <2>1, <2>2, <2>3, <2>4
  <2>5. CASE b # n + 1
    <3>1. b \in 1..n /\ r[b] = s[b]
      BY <1>3, <1>6, <2>5
    <3> QED BY <2>1, <2>3, <3>1 DEF WellFormed, Bounded
  <2> QED BY <2>4, <2>5
<1>11. r = Append(s, Call(f))
  BY <1>1, <1>2
<1> QED BY <1>5, <1>7, <1>8, <1>9, <1>10, <1>11 DEF WellFormed

LEMMA LeftStack ==
    ASSUME NEW s \in Seq(GoFrames), s # <<>>, NEW held, NEW t, WellFormed(code, held, t, s)
    PROVE  WellFormed(code, held, t, Front(s))
<1>1. PICK n \in Nat : n = Len(s) /\ n # 0
  <2>1. Len(s) \in Nat /\ Len(s) # 0
    BY EmptySeq, LenProperties
  <2> QED BY <2>1
<1>2. PICK r \in Seq(GoFrames) : r = Front(s)
  BY StackFacts
<1>3. Len(r) = n - 1 /\ \A j \in 1..(n - 1) : r[j] = s[j]
  <2>1. n - 1 \in 0..n /\ 1 \in 1..(n + 1) /\ n - 1 \in 1 - 1..n
    BY <1>1
  <2>2. r = SubSeq(s, 1, n - 1)
    BY <1>1, <1>2 DEF Front
  <2>3. r = [j \in 1..(n - 1) |-> s[j]] /\ Len(r) = n - 1
    BY <1>1, <2>2, SubSeqProperties
  <2> QED BY <2>3
<1>4. r # <<>> => r[1].fn = FirstCall(t)
  <2>1. SUFFICES ASSUME r # <<>> PROVE r[1].fn = FirstCall(t)
    OBVIOUS
  <2>2. n - 1 # 0
    BY <1>3, <2>1, EmptySeq
  <2>3. 1 \in 1..(n - 1)
    BY <1>1, <2>2
  <2> QED BY <1>3, <2>3 DEF WellFormed
<1>5. Chained(code, r)
  <2>1. SUFFICES ASSUME NEW j \in 1..(n - 1 - 1)
                 PROVE  /\ r[j].at - 1 \in 1..Len(code.body[r[j].fn])
                        /\ code.body[r[j].fn][r[j].at - 1] = [op |-> "Call", on |-> r[j + 1].fn]
    BY <1>3 DEF Chained
  <2>2. j \in 1..(n - 1) /\ j + 1 \in 1..(n - 1)
    BY <1>1, <2>1
  <2>3. r[j] = s[j] /\ r[j + 1] = s[j + 1]
    BY <1>3, <2>2
  <2> QED BY <1>1, <2>2, <2>3 DEF WellFormed, Chained
<1>6. \A b \in 1..(n - 1) : b \in 1..n /\ r[b] = s[b]
                            /\ \A a \in 1..(b - 1) : a \in 1..(n - 1) /\ r[a] = s[a]
  BY <1>1, <1>3
<1>7. Deferred(code, r)
  <2>1. \A b \in 1..n : \A m \in s[b].defers :
            \E i \in 1..Len(code.body[s[b].fn]), read \in BOOLEAN : code.body[s[b].fn][i] = Take(m, read)
    BY <1>1 DEF WellFormed, Deferred
  <2>2. SUFFICES ASSUME NEW b \in 1..(n - 1), NEW m \in r[b].defers
                 PROVE  \E i \in 1..Len(code.body[r[b].fn]), read \in BOOLEAN :
                            code.body[r[b].fn][i] = Take(m, read)
    BY <1>3 DEF Deferred
  <2>3. b \in 1..n /\ r[b] = s[b]
    BY <1>6
  <2> QED BY <2>1, <2>2, <2>3
<1>8. TakenAfresh(code, r)
  <2>1. SUFFICES ASSUME NEW b \in 1..(n - 1), NEW a \in 1..(b - 1), NEW i \in 1..(r[b].at - 1),
                        NEW m \in LockFields, NEW q \in BOOLEAN, NEW x \in BOOLEAN,
                        code.body[r[b].fn][i] = Take(m, q)
                 PROVE  ~Holding(code, r[a].fn, r[a].at, m, x)
    BY <1>3 DEF TakenAfresh
  <2>2. b \in 1..n /\ r[b] = s[b] /\ r[a] = s[a]
    BY <1>6
  <2> QED BY <1>1, <2>1, <2>2 DEF WellFormed, TakenAfresh
<1>9. Bounded(code, held, r)
  <2>1. SUFFICES ASSUME NEW b \in 1..(n - 1), NEW a \in 1..(b - 1), NEW m \in LockFields,
                        Holding(code, r[a].fn, r[a].at, m, TRUE)
                 PROVE  m \in held[r[b].fn]
    BY <1>3 DEF Bounded
  <2>2. b \in 1..n /\ r[b] = s[b] /\ r[a] = s[a]
    BY <1>6
  <2> QED BY <1>1, <2>1, <2>2 DEF WellFormed, Bounded
<1> QED BY <1>2, <1>4, <1>5, <1>7, <1>8, <1>9 DEF WellFormed

LEMMA NewStack ==
    ASSUME NEW p, NEW held, NEW t
    PROVE  /\ WellFormed(p, held, t, <<>>)
           /\ WellFormed(p, held, t, <<Call(FirstCall(t))>>)
<1>1. WellFormed(p, held, t, <<>>)
  BY DEF WellFormed, Chained, Deferred, TakenAfresh, Bounded
<1>2. PICK c : c = Call(FirstCall(t)) /\ c.fn = FirstCall(t) /\ c.at = 1 /\ c.defers = {}
  <2>1. PICK c : c = [fn |-> FirstCall(t), at |-> 1, defers |-> {}]
    OBVIOUS
  <2> QED BY <2>1 DEF Call
<1>3. PICK s : s = <<c>> /\ Len(s) = 1 /\ s[1] = c
  <2>1. PICK s : s = <<c>>
    OBVIOUS
  <2> QED BY <2>1
<1>4. Chained(p, s) /\ Deferred(p, s)
  BY <1>2, <1>3 DEF Chained, Deferred
<1>5. TakenAfresh(p, s) /\ Bounded(p, held, s)
  <2>1. \A b \in 1..Len(s) : 1..(b - 1) = {}
    BY <1>3
  <2> QED BY <2>1 DEF TakenAfresh, Bounded
<1> QED BY <1>1, <1>2, <1>3, <1>4, <1>5 DEF WellFormed

-----------------------------------------------------------------------------
(* A disciplined program has the locks that its calls hold by the text.    *)

Sound(held) ==
    \A t \in Threads :
        /\ WellFormed(code, held, t, threads[t])
        /\ HeldAreOwned(code, writer, readers, t, threads[t])

(* The top call is one instruction further.                                *)
Further(s, r, n) ==
    /\ r \in Seq(GoFrames) /\ Len(s) = n /\ Len(r) = n
    /\ \A j \in 1..(n - 1) : r[j] = s[j]
    /\ r[n].fn = s[n].fn /\ r[n].at = s[n].at + 1

(* t stands at instruction i of f, in its n-th call.                       *)
StandsAt(t, s, n, f, i) ==
    /\ s = threads[t] /\ s # <<>> /\ Len(s) = n
    /\ Top(t) = s[n] /\ s[n].fn = f /\ s[n].at = i
    /\ i \in 1..Len(code.body[f]) /\ i \in DOMAIN code.body[f] /\ Instr(t) = code.body[f][i]

LEMMA Standing ==
    ASSUME ThreadsInv, NEW t \in Threads, NEW ops, Goes(t, ops)
    PROVE  \E s \in Seq(GoFrames), n \in Nat \ {0}, f \in GoFunctions, i \in Nat \ {0} :
               StandsAt(t, s, n, f, i)
<1>1. code \in GoPrograms /\ threads \in [Threads -> Seq(GoFrames)]
  BY DEF ThreadsInv
<1>2. PICK s \in Seq(GoFrames) : s = threads[t]
  BY <1>1
<1>3. s # <<>> /\ ~AtEnd(t)
  BY <1>2 DEF Goes, Runs
<1>4. PICK n \in Nat \ {0} : n = Len(s) /\ n \in 1..n
  <2>1. Len(s) \in Nat /\ Len(s) # 0
    BY <1>3, EmptySeq, LenProperties
  <2> QED BY <2>1
<1>5. Top(t) = s[n] /\ s[n] \in GoFrames
  BY <1>2, <1>4, ElementOfSeq DEF Top, Last
<1>6. PICK f \in GoFunctions : f = s[n].fn
  BY <1>5 DEF GoFrames
<1>7. PICK i \in Nat : i = s[n].at
  BY <1>5 DEF GoFrames
<1>8. PICK b \in Seq(GoInstructions) : b = code.body[f]
  BY <1>1, ProgramFacts
<1>9. PICK N \in Nat : N = Len(b) /\ DOMAIN b = 1..N
  BY LenProperties
<1>10. i \in 1..(N + 1) /\ ~(i > N)
  BY <1>3, <1>5, <1>6, <1>7, <1>8, <1>9 DEF GoFrames, AtEnd, Body
<1>11. i \in 1..N /\ i \in Nat \ {0}
  BY <1>10
<1>12. Instr(t) = b[i]
  BY <1>5, <1>6, <1>7, <1>8 DEF Instr, Body
<1>13. StandsAt(t, s, n, f, i)
  BY <1>2, <1>3, <1>4, <1>5, <1>6, <1>7, <1>8, <1>9, <1>11, <1>12 DEF StandsAt
<1> QED BY <1>11, <1>13

LEMMA NextTop ==
    ASSUME NEW s \in Seq(GoFrames), NEW n \in Nat \ {0}, Len(s) = n, NEW c \in GoFrames,
           c.fn = s[n].fn, c.at = s[n].at + 1
    PROVE  Further(s, Append(Front(s), c), n) /\ Append(Front(s), c)[n] = c
<1>1. s # <<>>
  BY EmptySeq
<1>2. PICK q \in Seq(GoFrames) : q = Front(s)
  BY <1>1, StackFacts
<1>3. Len(q) = n - 1 /\ \A j \in 1..(n - 1) : q[j] = s[j]
  <2>1. n - 1 \in 0..n /\ n - 1 \in 1 - 1..n /\ 1 \in 1..(n + 1)
    OBVIOUS
  <2>2. q = SubSeq(s, 1, n - 1)
    BY <1>2 DEF Front
  <2>3. q = [j \in 1..(n - 1) |-> s[j]] /\ Len(q) = n - 1
    BY <2>1, <2>2, SubSeqProperties
  <2> QED BY <2>3
<1>4. PICK r : r = Append(q, c)
  OBVIOUS
<1>5. r \in Seq(GoFrames) /\ Len(r) = n /\ r[n] = c /\ \A j \in 1..(n - 1) : r[j] = q[j]
  BY <1>3, <1>4, AppendProperties
<1> QED BY <1>2, <1>3, <1>4, <1>5 DEF Further

LEMMA Advancing ==
    ASSUME ThreadsInv, NEW t \in Threads, NEW ops, Goes(t, ops),
           NEW s \in Seq(GoFrames), NEW n \in Nat \ {0}, NEW f, NEW i, StandsAt(t, s, n, f, i)
    PROVE  Further(s, Advance(t), n) /\ Advance(t)[n].defers = s[n].defers
<1>1. PICK c : c = [Top(t) EXCEPT !.at = Top(t).at + 1]
  OBVIOUS
<1>2. Top(t) \in GoFrames /\ c \in GoFrames
  BY <1>1, GoingOn
<1>3. c.fn = Top(t).fn /\ c.at = Top(t).at + 1 /\ c.defers = Top(t).defers
  BY <1>1, <1>2 DEF GoFrames
<1>4. Advance(t) = Append(Front(s), c)
  BY <1>1 DEF Advance, StandsAt
<1>5. Top(t) = s[n] /\ Len(s) = n
  BY DEF StandsAt
<1>6. c.fn = s[n].fn /\ c.at = s[n].at + 1 /\ c.defers = s[n].defers
  BY <1>3, <1>5
<1>7. Further(s, Append(Front(s), c), n) /\ Append(Front(s), c)[n] = c
  BY <1>2, <1>5, <1>6, NextTop
<1> QED BY <1>4, <1>6, <1>7

(* What is held after one more instruction is owned if nothing that is     *)
(* held gets lost and what is taken is gained.                             *)
LEMMA HeldGoesOn ==
    ASSUME NEW s, NEW r, NEW n \in Nat \ {0}, Further(s, r, n), NEW t, NEW w, NEW d, NEW v, NEW e,
           NEW i \in Nat \ {0}, i = s[n].at, HeldAreOwned(code, w, d, t, s),
           \A a \in 1..(n - 1), m \in LockFields, x \in BOOLEAN :
               Holding(code, s[a].fn, s[a].at, m, x) /\ HasLock(w, d, t, m, x) => HasLock(v, e, t, m, x),
           \A m \in LockFields, x \in BOOLEAN :
               Holding(code, s[n].fn, i, m, x) /\ code.body[s[n].fn][i] # Give(m, x)
               /\ HasLock(w, d, t, m, x) => HasLock(v, e, t, m, x),
           \A m \in LockFields, x \in BOOLEAN :
               code.body[s[n].fn][i] = Take(m, x) => HasLock(v, e, t, m, x)
    PROVE  HeldAreOwned(code, v, e, t, r)
<1>1. /\ Len(s) = n /\ Len(r) = n /\ \A j \in 1..(n - 1) : r[j] = s[j]
      /\ r[n].fn = s[n].fn /\ r[n].at = i + 1
  BY DEF Further
<1>2. SUFFICES ASSUME NEW j \in 1..n, NEW m \in LockFields, NEW x \in BOOLEAN,
                      Holding(code, r[j].fn, r[j].at, m, x)
               PROVE  HasLock(v, e, t, m, x)
  BY <1>1 DEF HeldAreOwned
<1>3. \A k \in 1..n, l \in LockFields, y \in BOOLEAN :
          Holding(code, s[k].fn, s[k].at, l, y) => HasLock(w, d, t, l, y)
  BY <1>1 DEF HeldAreOwned
<1>4. CASE j \in 1..(n - 1)
  BY <1>1, <1>2, <1>3, <1>4
<1>5. CASE j = n
  <2>1. Holding(code, s[n].fn, i + 1, m, x)
    BY <1>1, <1>2, <1>5
  <2>2. \/ code.body[s[n].fn][i] = Take(m, x)
        \/ Holding(code, s[n].fn, i, m, x) /\ code.body[s[n].fn][i] # Give(m, x)
    BY <2>1, HoldingStep
  <2>3. Holding(code, s[n].fn, i, m, x) => HasLock(w, d, t, m, x)
    BY <1>3, <1>5
  <2> QED BY <2>2, <2>3
<1>6. j = n \/ j \in 1..(n - 1)
  OBVIOUS
<1> QED BY <1>4, <1>5, <1>6

LEMMA OneThread ==
    ASSUME ThreadsInv, NEW held, Sound(held), NEW t \in Threads, NEW r,
           threads' = [threads EXCEPT ![t] = r], code' = code,
           WellFormed(code, held, t, r), HeldAreOwned(code, writer', readers', t, r),
           \A u \in Threads \ {t}, m \in LockFields, x \in BOOLEAN :
               HasLock(writer, readers, u, m, x) => HasLock(writer', readers', u, m, x)
    PROVE  Sound(held)'
<1>1. SUFFICES ASSUME NEW u \in Threads
               PROVE  /\ WellFormed(code, held, u, threads'[u])
                      /\ HeldAreOwned(code, writer', readers', u, threads'[u])
  BY DEF Sound
<1>2. threads \in [Threads -> Seq(GoFrames)]
  BY DEF ThreadsInv
<1>3. CASE u = t
  BY <1>2, <1>3
<1>4. CASE u # t
  <2>1. threads'[u] = threads[u]
    BY <1>2, <1>4
  <2>2. PICK s : s = threads[u]
    OBVIOUS
  <2>3. WellFormed(code, held, u, s) /\ HeldAreOwned(code, writer, readers, u, s)
    BY <2>2 DEF Sound
  <2>4. HeldAreOwned(code, writer', readers', u, s)
    BY <1>4, <2>3 DEF HeldAreOwned
  <2> QED BY <2>1, <2>2, <2>3, <2>4
<1> QED BY <1>3, <1>4

LEMMA TakesAndGives ==
    ASSUME NEW m, NEW x \in BOOLEAN
    PROVE  /\ Take(m, x).on = m /\ Take(m, x).op = IF x THEN "RLock" ELSE "Lock"
           /\ Give(m, x).on = m /\ Give(m, x).op = IF x THEN "RUnlock" ELSE "Unlock"
<1>1. CASE x
  BY <1>1 DEF Take, Give
<1>2. CASE ~x
  BY <1>2 DEF Take, Give
<1> QED BY <1>1, <1>2

LEMMA LocksOnly ==
    ASSUME NEW instr \in GoInstructions, instr.op \in LockCalls
    PROVE  instr.on \in LockFields /\ instr = [op |-> instr.op, on |-> instr.on]
BY DEF GoInstructions, Accesses, Loads, Stores, LockCalls

(* An instruction that takes no lock.                                      *)
LEMMA QuietMove ==
    ASSUME ThreadsInv, NEW held, Sound(held), NEW t \in Threads,
           NEW s \in Seq(GoFrames), NEW n \in Nat \ {0}, NEW f, NEW i \in Nat \ {0},
           StandsAt(t, s, n, f, i), NEW r, Further(s, r, n),
           \A m \in r[n].defers : m \in s[n].defers \/
               \E j \in 1..Len(code.body[f]), read \in BOOLEAN : code.body[f][j] = Take(m, read),
           Instr(t).op \notin {"Lock", "RLock"}
    PROVE  WellFormed(code, held, t, r) /\ HeldAreOwned(code, writer, readers, t, r)
<1>1. code \in GoPrograms
  BY DEF ThreadsInv
<1>2. /\ s = threads[t] /\ Len(s) = n /\ s[n].fn = f /\ s[n].at = i
      /\ Instr(t) = code.body[f][i]
  BY DEF StandsAt
<1>3. WellFormed(code, held, t, s) /\ HeldAreOwned(code, writer, readers, t, s)
  BY <1>2 DEF Sound
<1>4. \A m \in LockFields, x \in BOOLEAN : code.body[f][i] # Take(m, x)
  BY <1>2, TakesAndGives
<1>5. /\ r \in Seq(GoFrames) /\ Len(r) = n /\ \A j \in 1..(n - 1) : r[j] = s[j]
      /\ r[n].fn = s[n].fn /\ r[n].at = s[n].at + 1
  BY DEF Further
<1>6. WellFormed(code, held, t, r)
  <2>1. \A a \in 1..(n - 1), m \in LockFields, q \in BOOLEAN, x \in BOOLEAN :
            code.body[s[n].fn][s[n].at] = Take(m, q) => ~Holding(code, s[a].fn, s[a].at, m, x)
    BY <1>2, <1>4
  <2>2. \A m \in r[n].defers : m \in s[n].defers \/
            \E j \in 1..Len(code.body[s[n].fn]), read \in BOOLEAN :
                code.body[s[n].fn][j] = Take(m, read)
    BY <1>2
  <2> QED BY <1>1, <1>2, <1>3, <1>5, <2>1, <2>2, MovedStack
<1>7. HeldAreOwned(code, writer, readers, t, r)
  <2>1. \A m \in LockFields, x \in BOOLEAN :
            code.body[s[n].fn][i] = Take(m, x) => HasLock(writer, readers, t, m, x)
    BY <1>2, <1>4
  <2>2. i = s[n].at
    BY <1>2
  <2> QED BY <1>3, <2>1, <2>2, HeldGoesOn
<1> QED BY <1>6, <1>7

(* The lock is free, or held by readers that do not include t: no caller   *)
(* has it.                                                                 *)
LEMMA SoundAcquire ==
    ASSUME ThreadsInv, NEW held, ReadsOnce(code, held), Sound(held),
           NEW t \in Threads, Acquire(t)
    PROVE  Sound(held)'
<1>1. /\ Goes(t, {"Lock", "RLock"}) /\ writer[Instr(t).on] = NoThread
      /\ threads' = [threads EXCEPT ![t] = Advance(t)] /\ code' = code
  BY DEF Acquire
<1>2. PICK s \in Seq(GoFrames), n \in Nat \ {0}, f \in GoFunctions, i \in Nat \ {0} :
          StandsAt(t, s, n, f, i)
  BY <1>1, Standing
<1>3. PICK r : r = Advance(t)
  OBVIOUS
<1>4. Further(s, r, n) /\ r[n].defers = s[n].defers
  BY <1>1, <1>2, <1>3, Advancing
<1>5. /\ s = threads[t] /\ Len(s) = n /\ s[n].fn = f /\ s[n].at = i
      /\ Instr(t) = code.body[f][i] /\ i \in DOMAIN code.body[f]
  BY <1>2 DEF StandsAt
<1>6. WellFormed(code, held, t, s) /\ HeldAreOwned(code, writer, readers, t, s)
  BY <1>5 DEF Sound
<1>7. PICK l : l = Instr(t).on
  OBVIOUS
<1>8. l \in LockFields /\ (Instr(t).op = "Lock" \/ Instr(t).op = "RLock")
  <2>1. Instr(t) \in GoInstructions /\ Instr(t).op \in {"Lock", "RLock"}
    BY <1>1, GoingOn
  <2> QED BY <1>7, <2>1, LocksOnly DEF LockCalls
<1>9. /\ writer[l] = NoThread /\ t # NoThread
      /\ Instr(t).op = "Lock" =>
             readers[l] = {} /\ writer' = [writer EXCEPT ![l] = t] /\ readers' = readers
      /\ Instr(t).op # "Lock" =>
             readers' = [readers EXCEPT ![l] = readers[l] \cup {t}] /\ writer' = writer
  BY <1>7 DEF Acquire, Threads, NoThread
<1>10. writer \in [LockFields -> Threads \cup {NoThread}] /\ readers \in [LockFields -> SUBSET Threads]
  BY DEF ThreadsInv
<1>11. ASSUME NEW u \in Threads, NEW m \in LockFields, NEW x \in BOOLEAN,
              HasLock(writer, readers, u, m, x)
       PROVE  HasLock(writer', readers', u, m, x)
  <2>1. u # NoThread
    BY DEF Threads, NoThread
  <2>2. CASE x
    BY <1>9, <1>10, <1>11, <2>2 DEF HasLock
  <2>3. CASE ~x
    BY <1>8, <1>9, <1>10, <1>11, <2>1, <2>3 DEF HasLock
  <2> QED BY <2>2, <2>3
<1>12. ASSUME NEW a \in 1..(n - 1), NEW m \in LockFields, NEW q \in BOOLEAN, NEW x \in BOOLEAN,
              code.body[f][i] = Take(m, q), Holding(code, s[a].fn, s[a].at, m, x)
       PROVE  FALSE
  <2>1. m = l /\ Instr(t).op = IF q THEN "RLock" ELSE "Lock"
    BY <1>5, <1>7, <1>12, TakesAndGives
  <2>2. a \in 1..n
    OBVIOUS
  <2>3. HasLock(writer, readers, t, m, x)
    BY <1>5, <1>6, <1>12, <2>2 DEF HeldAreOwned
  <2>4. x /\ t \in readers[l]
    BY <1>9, <2>1, <2>3 DEF HasLock
  <2>5. Instr(t).op = "RLock"
    BY <1>8, <1>9, <2>4
  <2>6. l \notin held[f]
    <3>1. \A g \in GoFunctions : \A k \in DOMAIN code.body[g] :
              code.body[g][k].op = "RLock" => code.body[g][k].on \notin held[g]
      BY DEF ReadsOnce
    <3> QED BY <1>5, <1>7, <2>5, <3>1
  <2>7. Holding(code, s[a].fn, s[a].at, m, TRUE)
    BY <1>12, <2>4
  <2>8. m \in held[s[n].fn]
    <3>1. n \in 1..Len(s)
      BY <1>5
    <3> QED BY <1>5, <1>6, <2>7, <3>1 DEF WellFormed, Bounded
  <2> QED BY <1>5, <2>1, <2>6, <2>8
<1>13. WellFormed(code, held, t, r)
  <2>1. code \in GoPrograms
    BY DEF ThreadsInv
  <2>2. /\ r \in Seq(GoFrames) /\ Len(r) = n /\ \A j \in 1..(n - 1) : r[j] = s[j]
        /\ r[n].fn = s[n].fn /\ r[n].at = s[n].at + 1
    BY <1>4 DEF Further
  <2>3. \A a \in 1..(n - 1), m \in LockFields, q \in BOOLEAN, x \in BOOLEAN :
            code.body[s[n].fn][s[n].at] = Take(m, q) => ~Holding(code, s[a].fn, s[a].at, m, x)
    BY <1>5, <1>12
  <2> QED BY <1>4, <1>5, <1>6, <2>1, <2>2, <2>3, MovedStack
<1>14. ASSUME NEW m \in LockFields, NEW x \in BOOLEAN, code.body[f][i] = Take(m, x)
       PROVE  HasLock(writer', readers', t, m, x)
  <2>1. m = l /\ Instr(t).op = IF x THEN "RLock" ELSE "Lock"
    BY <1>5, <1>7, <1>14, TakesAndGives
  <2>2. CASE x
    BY <1>8, <1>9, <1>10, <2>1, <2>2 DEF HasLock
  <2>3. CASE ~x
    BY <1>8, <1>9, <1>10, <2>1, <2>3 DEF HasLock
  <2> QED BY <2>2, <2>3
<1>15. HeldAreOwned(code, writer', readers', t, r)
  BY <1>4, <1>5, <1>6, <1>11, <1>14, HeldGoesOn
<1>16. \A u \in Threads \ {t}, m \in LockFields, x \in BOOLEAN :
           HasLock(writer, readers, u, m, x) => HasLock(writer', readers', u, m, x)
  BY <1>11
<1> QED BY <1>1, <1>3, <1>13, <1>15, <1>16, OneThread

(* What t gives up, in a set, the others keep; t keeps the rest.           *)
LEMMA FreeKeeps ==
    ASSUME ThreadsInv, NEW t \in Threads, NEW D, Free(t, D),
           NEW u \in Threads, NEW m \in LockFields, NEW x \in BOOLEAN,
           u # t \/ m \notin D, HasLock(writer, readers, u, m, x)
    PROVE  HasLock(writer', readers', u, m, x)
<1>1. /\ writer'[m] = IF m \in D /\ writer[m] = t THEN NoThread ELSE writer[m]
      /\ readers'[m] = IF m \in D THEN readers[m] \ {t} ELSE readers[m]
  BY DEF Free
<1>2. CASE x
  BY <1>1, <1>2 DEF HasLock
<1>3. CASE ~x
  BY <1>1, <1>3 DEF HasLock
<1> QED BY <1>2, <1>3

(* A function gives back what it took itself: no caller has it, and it has *)
(* it in one way only.                                                     *)
LEMMA SoundRelease ==
    ASSUME ThreadsInv, NEW held, GivesBackItsOwn(code), Sound(held),
           NEW t \in Threads, Release(t)
    PROVE  Sound(held)'
<1>1. /\ Goes(t, {"Unlock", "RUnlock"}) /\ Free(t, {Instr(t).on})
      /\ threads' = [threads EXCEPT ![t] = Advance(t)] /\ code' = code
  BY DEF Release
<1>2. PICK s \in Seq(GoFrames), n \in Nat \ {0}, f \in GoFunctions, i \in Nat \ {0} :
          StandsAt(t, s, n, f, i)
  BY <1>1, Standing
<1>3. PICK r : r = Advance(t)
  OBVIOUS
<1>4. Further(s, r, n) /\ r[n].defers = s[n].defers
  BY <1>1, <1>2, <1>3, Advancing
<1>5. /\ s = threads[t] /\ Len(s) = n /\ s[n].fn = f /\ s[n].at = i
      /\ Instr(t) = code.body[f][i] /\ i \in DOMAIN code.body[f]
  BY <1>2 DEF StandsAt
<1>6. WellFormed(code, held, t, s) /\ HeldAreOwned(code, writer, readers, t, s)
  BY <1>5 DEF Sound
<1>7. PICK l \in LockFields :
          /\ l = Instr(t).on /\ Instr(t) = [op |-> Instr(t).op, on |-> l]
          /\ Instr(t).op = "Unlock" \/ Instr(t).op = "RUnlock"
  <2>1. Instr(t) \in GoInstructions /\ Instr(t).op \in {"Unlock", "RUnlock"}
    BY <1>1, GoingOn
  <2>2. Instr(t).op \in LockCalls
    BY <2>1 DEF LockCalls
  <2> QED BY <2>1, <2>2, LocksOnly
<1>8. PICK mode \in BOOLEAN : Instr(t) = Give(l, mode) /\ Instr(t).op = IF mode THEN "RUnlock" ELSE "Unlock"
  <2>1. CASE Instr(t).op = "Unlock"
    <3>1. Instr(t) = Give(l, FALSE)
      BY <1>7, <2>1 DEF Give
    <3> QED BY <2>1, <3>1
  <2>2. CASE Instr(t).op = "RUnlock"
    <3>1. Instr(t) = Give(l, TRUE)
      BY <1>7, <2>2 DEF Give
    <3> QED BY <2>2, <3>1
  <2> QED BY <1>7, <2>1, <2>2
<1>9. Holding(code, f, i, l, mode)
  <2>1. \A g \in GoFunctions : \A k \in DOMAIN code.body[g] :
            /\ code.body[g][k].op = "Unlock" => Holding(code, g, k, code.body[g][k].on, FALSE)
            /\ code.body[g][k].op = "RUnlock" => Holding(code, g, k, code.body[g][k].on, TRUE)
    BY Zenon DEF GivesBackItsOwn
  <2>2. CASE mode
    BY <1>5, <1>7, <1>8, <2>1, <2>2
  <2>3. CASE ~mode
    BY <1>5, <1>7, <1>8, <2>1, <2>3
  <2> QED BY <2>2, <2>3
<1>10. PICK j \in 1..(i - 1) : code.body[f][j] = Take(l, mode)
  BY <1>9 DEF Holding, Take
<1>11. ASSUME NEW a \in 1..(n - 1), NEW x \in BOOLEAN, Holding(code, s[a].fn, s[a].at, l, x)
       PROVE  FALSE
  <2>1. n \in 1..Len(s)
    BY <1>5
  <2> QED BY <1>5, <1>6, <1>10, <1>11, <2>1 DEF WellFormed, TakenAfresh
<1>12. ASSUME NEW x \in BOOLEAN, Holding(code, f, i, l, x), code.body[f][i] # Give(l, x)
       PROVE  FALSE
  <2>1. x # mode
    BY <1>5, <1>8, <1>12
  <2>2. n \in 1..Len(s)
    BY <1>5
  <2>3. HasLock(writer, readers, t, l, x) /\ HasLock(writer, readers, t, l, mode)
    BY <1>5, <1>6, <1>9, <1>12, <2>2 DEF HeldAreOwned
  <2>4. writer[l] = t /\ t \in readers[l]
    <3>1. CASE x
      BY <2>1, <2>3, <3>1 DEF HasLock
    <3>2. CASE ~x
      BY <2>1, <2>3, <3>2 DEF HasLock
    <3> QED BY <3>1, <3>2
  <2>5. t # NoThread
    BY DEF Threads, NoThread
  <2> QED BY <2>4, <2>5 DEF ThreadsInv
<1>13. \A m \in LockFields, x \in BOOLEAN : code.body[f][i] # Take(m, x)
  BY <1>5, <1>8, TakesAndGives
<1>14. WellFormed(code, held, t, r)
  <2>1. code \in GoPrograms
    BY DEF ThreadsInv
  <2>2. /\ r \in Seq(GoFrames) /\ Len(r) = n /\ \A k \in 1..(n - 1) : r[k] = s[k]
        /\ r[n].fn = s[n].fn /\ r[n].at = s[n].at + 1
    BY <1>4 DEF Further
  <2>3. \A a \in 1..(n - 1), m \in LockFields, q \in BOOLEAN, x \in BOOLEAN :
            code.body[s[n].fn][s[n].at] = Take(m, q) => ~Holding(code, s[a].fn, s[a].at, m, x)
    BY <1>5, <1>13
  <2> QED BY <1>4, <1>5, <1>6, <2>1, <2>2, <2>3, MovedStack
<1>15. PICK D : D = {l}
  OBVIOUS
<1>16. Free(t, D)
  BY <1>1, <1>7, <1>15
<1>17. HeldAreOwned(code, writer', readers', t, r)
  <2>1. ASSUME NEW a \in 1..(n - 1), NEW m \in LockFields, NEW x \in BOOLEAN,
               Holding(code, s[a].fn, s[a].at, m, x), HasLock(writer, readers, t, m, x)
        PROVE  HasLock(writer', readers', t, m, x)
    <3>1. m \notin D
      BY <1>11, <1>15, <2>1
    <3> QED BY <1>16, <2>1, <3>1, FreeKeeps
  <2>2. ASSUME NEW m \in LockFields, NEW x \in BOOLEAN, Holding(code, f, i, m, x),
               code.body[f][i] # Give(m, x), HasLock(writer, readers, t, m, x)
        PROVE  HasLock(writer', readers', t, m, x)
    <3>1. m \notin D
      BY <1>12, <1>15, <2>2
    <3> QED BY <1>16, <2>2, <3>1, FreeKeeps
  <2>3. \A m \in LockFields, x \in BOOLEAN :
            code.body[s[n].fn][i] = Take(m, x) => HasLock(writer', readers', t, m, x)
    BY <1>5, <1>13
  <2>4. \A m \in LockFields, x \in BOOLEAN :
            Holding(code, s[n].fn, i, m, x) /\ code.body[s[n].fn][i] # Give(m, x)
            /\ HasLock(writer, readers, t, m, x) => HasLock(writer', readers', t, m, x)
    BY <1>5, <2>2
  <2>5. \A a \in 1..(n - 1), m \in LockFields, x \in BOOLEAN :
            Holding(code, s[a].fn, s[a].at, m, x) /\ HasLock(writer, readers, t, m, x)
            => HasLock(writer', readers', t, m, x)
    BY <2>1
  <2>6. i = s[n].at
    BY <1>5
  <2> QED BY <1>4, <1>6, <2>3, <2>4, <2>5, <2>6, HeldGoesOn
<1>18. \A u \in Threads \ {t}, m \in LockFields, x \in BOOLEAN :
           HasLock(writer, readers, u, m, x) => HasLock(writer', readers', u, m, x)
  BY <1>16, FreeKeeps
<1> QED BY <1>1, <1>3, <1>14, <1>17, <1>18, OneThread

LEMMA SoundAccess ==
    ASSUME ThreadsInv, NEW held, Sound(held), NEW t \in Threads, Access(t)
    PROVE  Sound(held)'
<1>1. /\ Goes(t, Accesses \cup {"DynCall"})
      /\ threads' = [threads EXCEPT ![t] = Advance(t)] /\ UNCHANGED <<code, writer, readers>>
  BY DEF Access
<1>2. PICK s \in Seq(GoFrames), n \in Nat \ {0}, f \in GoFunctions, i \in Nat \ {0} :
          StandsAt(t, s, n, f, i)
  BY <1>1, Standing
<1>3. PICK r : r = Advance(t)
  OBVIOUS
<1>4. Further(s, r, n) /\ r[n].defers = s[n].defers
  BY <1>1, <1>2, <1>3, Advancing
<1>5. Instr(t).op \notin {"Lock", "RLock"}
  BY <1>1 DEF Goes, Accesses, Loads, Stores
<1>6. WellFormed(code, held, t, r) /\ HeldAreOwned(code, writer, readers, t, r)
  BY <1>2, <1>4, <1>5, QuietMove
<1>7. code' = code /\ writer' = writer /\ readers' = readers
  BY <1>1
<1>8. HeldAreOwned(code, writer', readers', t, r)
  BY <1>6, <1>7
<1>9. \A u \in Threads \ {t}, m \in LockFields, x \in BOOLEAN :
          HasLock(writer, readers, u, m, x) => HasLock(writer', readers', u, m, x)
  BY <1>7
<1> QED BY <1>1, <1>3, <1>6, <1>7, <1>8, <1>9, OneThread

LEMMA SoundDefer ==
    ASSUME ThreadsInv, NEW held, GivesBackItsOwn(code), Sound(held), NEW t \in Threads, Defer(t)
    PROVE  Sound(held)'
<1>1. /\ Goes(t, {"DeferUnlock", "DeferRUnlock"}) /\ UNCHANGED <<code, writer, readers>>
      /\ threads' = [threads EXCEPT ![t] =
              Append(Front(threads[t]), [fn |-> Top(t).fn, at |-> Top(t).at + 1,
                                         defers |-> Top(t).defers \cup {Instr(t).on}])]
  BY DEF Defer
<1>2. PICK s \in Seq(GoFrames), n \in Nat \ {0}, f \in GoFunctions, i \in Nat \ {0} :
          StandsAt(t, s, n, f, i)
  BY <1>1, Standing
<1>3. /\ s = threads[t] /\ Len(s) = n /\ Top(t) = s[n] /\ s[n].fn = f /\ s[n].at = i
      /\ Instr(t) = code.body[f][i] /\ i \in DOMAIN code.body[f]
  BY <1>2 DEF StandsAt
<1>4. PICK l \in LockFields :
          l = Instr(t).on /\ (Instr(t).op = "DeferUnlock" \/ Instr(t).op = "DeferRUnlock")
  <2>1. Instr(t) \in GoInstructions /\ Instr(t).op \in {"DeferUnlock", "DeferRUnlock"}
    BY <1>1, GoingOn
  <2>2. Instr(t).op \in LockCalls
    BY <2>1 DEF LockCalls
  <2> QED BY <2>1, <2>2, LocksOnly
<1>5. PICK c \in GoFrames : c = [fn |-> Top(t).fn, at |-> Top(t).at + 1, defers |-> Top(t).defers \cup {l}]
  BY <1>1, GoingOn
<1>6. c.fn = s[n].fn /\ c.at = s[n].at + 1 /\ c.defers = s[n].defers \cup {l}
  BY <1>3, <1>5
<1>7. PICK r : r = Append(Front(s), c)
  OBVIOUS
<1>8. Further(s, r, n) /\ r[n] = c
  <2>1. Len(s) = n
    BY <1>3
  <2>2. Further(s, Append(Front(s), c), n) /\ Append(Front(s), c)[n] = c
    BY <1>6, <2>1, NextTop
  <2> QED BY <1>7, <2>2
<1>9. \E j \in 1..Len(code.body[f]), read \in BOOLEAN : code.body[f][j] = Take(l, read)
  <2>1. DOMAIN code.body[f] = 1..Len(code.body[f])
    <3>1. code.body[f] \in Seq(GoInstructions)
      BY ProgramFacts DEF ThreadsInv
    <3> QED BY <3>1, LenProperties
  <2>2. \A g \in GoFunctions : \A k \in DOMAIN code.body[g] :
            /\ code.body[g][k].op = "DeferUnlock" =>
                   \E j \in DOMAIN code.body[g] :
                       code.body[g][j] = [op |-> "Lock", on |-> code.body[g][k].on]
            /\ code.body[g][k].op = "DeferRUnlock" =>
                   \E j \in DOMAIN code.body[g] :
                       code.body[g][j] = [op |-> "RLock", on |-> code.body[g][k].on]
    BY Zenon DEF GivesBackItsOwn
  <2>3. Take(l, FALSE) = [op |-> "Lock", on |-> l] /\ Take(l, TRUE) = [op |-> "RLock", on |-> l]
    BY DEF Take
  <2>4. \/ \E j \in DOMAIN code.body[f] : code.body[f][j] = Take(l, FALSE)
        \/ \E j \in DOMAIN code.body[f] : code.body[f][j] = Take(l, TRUE)
    <3>1. PICK b : b = code.body[f]
      OBVIOUS
    <3>2. PICK instr : instr = b[i] /\ instr = Instr(t)
      BY <1>3, <3>1
    <3>3. /\ instr.op = "DeferUnlock" =>
                 \E j \in DOMAIN b : b[j] = [op |-> "Lock", on |-> instr.on]
          /\ instr.op = "DeferRUnlock" =>
                 \E j \in DOMAIN b : b[j] = [op |-> "RLock", on |-> instr.on]
      <4>1. i \in DOMAIN code.body[f]
        BY <1>3
      <4>2. /\ code.body[f][i].op = "DeferUnlock" =>
                   \E j \in DOMAIN code.body[f] :
                       code.body[f][j] = [op |-> "Lock", on |-> code.body[f][i].on]
            /\ code.body[f][i].op = "DeferRUnlock" =>
                   \E j \in DOMAIN code.body[f] :
                       code.body[f][j] = [op |-> "RLock", on |-> code.body[f][i].on]
        BY <2>2, <4>1, Zenon
      <4>3. b = code.body[f] /\ instr = code.body[f][i]
        BY <3>1, <3>2
      <4> QED BY <4>2, <4>3, Zenon
    <3>4. instr.on = l /\ (instr.op = "DeferUnlock" \/ instr.op = "DeferRUnlock")
      BY <1>4, <3>2
    <3>5. \/ \E j \in DOMAIN b : b[j] = [op |-> "Lock", on |-> l]
          \/ \E j \in DOMAIN b : b[j] = [op |-> "RLock", on |-> l]
      BY <3>3, <3>4, Zenon
    <3> QED BY <2>3, <3>1, <3>5, Zenon
  <2> QED BY <2>1, <2>4
<1>10. \A m \in r[n].defers : m \in s[n].defers \/
           \E j \in 1..Len(code.body[f]), read \in BOOLEAN : code.body[f][j] = Take(m, read)
  BY <1>6, <1>8, <1>9
<1>11. Instr(t).op \notin {"Lock", "RLock"}
  BY <1>4
<1>12. WellFormed(code, held, t, r) /\ HeldAreOwned(code, writer, readers, t, r)
  BY <1>2, <1>8, <1>10, <1>11, QuietMove
<1>13. code' = code /\ writer' = writer /\ readers' = readers
  BY <1>1
<1>14. HeldAreOwned(code, writer', readers', t, r)
  BY <1>12, <1>13
<1>15. \A u \in Threads \ {t}, m \in LockFields, x \in BOOLEAN :
           HasLock(writer, readers, u, m, x) => HasLock(writer', readers', u, m, x)
  BY <1>13
<1>16. threads' = [threads EXCEPT ![t] = r]
  BY <1>1, <1>3, <1>4, <1>5, <1>7
<1> QED BY <1>12, <1>13, <1>14, <1>15, <1>16, OneThread

LEMMA SoundEnter ==
    ASSUME ThreadsInv, NEW held, ReadsOnce(code, held), Sound(held), NEW t \in Threads, Enter(t)
    PROVE  Sound(held)'
<1>1. /\ Goes(t, {"Call"}) /\ UNCHANGED <<code, writer, readers>>
      /\ threads' = [threads EXCEPT ![t] = Append(Advance(t), Call(Instr(t).on))]
  BY DEF Enter
<1>2. PICK s \in Seq(GoFrames), n \in Nat \ {0}, f \in GoFunctions, i \in Nat \ {0} :
          StandsAt(t, s, n, f, i)
  BY <1>1, Standing
<1>3. /\ s = threads[t] /\ Len(s) = n /\ s[n].fn = f /\ s[n].at = i
      /\ Instr(t) = code.body[f][i] /\ i \in DOMAIN code.body[f] /\ i \in 1..Len(code.body[f])
  BY <1>2 DEF StandsAt
<1>4. PICK g \in GoFunctions : g = Instr(t).on /\ Instr(t) = [op |-> "Call", on |-> g]
  <2>1. Instr(t) \in GoInstructions /\ Instr(t).op = "Call"
    <3>1. Instr(t) \in GoInstructions /\ Instr(t).op \in {"Call"}
      BY <1>1, GoingOn
    <3> QED BY <3>1
  <2> QED BY <2>1 DEF GoInstructions, Accesses, Loads, Stores, LockCalls
<1>5. PICK r : r = Advance(t)
  OBVIOUS
<1>6. Further(s, r, n) /\ r[n].defers = s[n].defers
  BY <1>1, <1>2, <1>5, Advancing
<1>7. Instr(t).op \notin {"Lock", "RLock"} /\ Instr(t).op = "Call"
  BY <1>4
<1>8. WellFormed(code, held, t, r) /\ HeldAreOwned(code, writer, readers, t, r)
  BY <1>2, <1>6, <1>7, QuietMove
<1>9. /\ r \in Seq(GoFrames) /\ Len(r) = n /\ \A j \in 1..(n - 1) : r[j] = s[j]
      /\ r[n].fn = f /\ r[n].at = i + 1 /\ r[n].at - 1 = i
  BY <1>3, <1>6 DEF Further
<1>10. WellFormed(code, held, t, s)
  BY <1>3 DEF Sound
<1>11. \A j \in GoFunctions : \A k \in DOMAIN code.body[j] : code.body[j][k].op = "Call" =>
           held[j] \cup {m \in LockFields : Holding(code, j, k, m, TRUE)} \subseteq held[code.body[j][k].on]
  BY Zenon DEF ReadsOnce
<1>12. held[f] \subseteq held[g] /\ \A m \in LockFields : Holding(code, f, i, m, TRUE) => m \in held[g]
  <2>1. PICK S : S = {m \in LockFields : Holding(code, f, i, m, TRUE)}
    OBVIOUS
  <2>2. held[f] \cup S \subseteq held[g]
    BY <1>3, <1>4, <1>7, <1>11, <2>1
  <2> QED BY <2>1, <2>2
<1>13. ASSUME NEW a \in 1..n, NEW m \in LockFields, Holding(code, r[a].fn, r[a].at, m, TRUE)
       PROVE  m \in held[g]
  <2>1. CASE a = n
    <3>1. Holding(code, f, i + 1, m, TRUE)
      BY <1>9, <1>13, <2>1
    <3>2. code.body[f][i] # Take(m, TRUE)
      <4>1. Take(m, TRUE).op = "RLock"
        BY TakesAndGives
      <4> QED BY <1>3, <1>7, <4>1
    <3>3. Holding(code, f, i, m, TRUE)
      BY <3>1, <3>2, HoldingStep
    <3> QED BY <1>12, <3>3
  <2>2. CASE a # n
    <3>1. a \in 1..(n - 1) /\ n \in 1..Len(s)
      BY <1>3, <2>2
    <3>2. Holding(code, s[a].fn, s[a].at, m, TRUE)
      BY <1>9, <1>13, <3>1
    <3>3. m \in held[f]
      BY <1>3, <1>10, <3>1, <3>2 DEF WellFormed, Bounded
    <3> QED BY <1>12, <3>3
  <2> QED BY <2>1, <2>2
<1>14. PICK q : q = Append(r, Call(g))
  OBVIOUS
<1>15. WellFormed(code, held, t, q)
  <2>1. code \in GoPrograms
    BY DEF ThreadsInv
  <2>2. r[n].at - 1 \in 1..Len(code.body[r[n].fn])
        /\ code.body[r[n].fn][r[n].at - 1] = [op |-> "Call", on |-> g]
    BY <1>3, <1>4, <1>9
  <2>3. \A a \in 1..n, m \in LockFields :
            Holding(code, r[a].fn, r[a].at, m, TRUE) => m \in held[g]
    BY <1>13
  <2> QED BY <1>8, <1>9, <1>14, <2>1, <2>2, <2>3, EnteredStack
<1>16. HeldAreOwned(code, writer, readers, t, q)
  <2>1. Len(q) = n + 1 /\ q[n + 1] = Call(g) /\ \A j \in 1..n : q[j] = r[j]
    BY <1>9, <1>14
  <2>2. SUFFICES ASSUME NEW j \in 1..(n + 1), NEW m \in LockFields, NEW x \in BOOLEAN,
                        Holding(code, q[j].fn, q[j].at, m, x)
                 PROVE  HasLock(writer, readers, t, m, x)
    BY <2>1 DEF HeldAreOwned
  <2>3. CASE j = n + 1
    <3>1. Holding(code, g, 1, m, x)
      BY <2>1, <2>2, <2>3 DEF Call
    <3> QED BY <3>1, NothingHeldYet
  <2>4. CASE j # n + 1
    <3>1. j \in 1..n
      BY <2>4
    <3> QED BY <1>8, <1>9, <2>1, <2>2, <3>1 DEF HeldAreOwned
  <2> QED BY <2>3, <2>4
<1>17. code' = code /\ writer' = writer /\ readers' = readers
  BY <1>1
<1>18. HeldAreOwned(code, writer', readers', t, q)
  BY <1>16, <1>17
<1>19. \A u \in Threads \ {t}, m \in LockFields, x \in BOOLEAN :
           HasLock(writer, readers, u, m, x) => HasLock(writer', readers', u, m, x)
  BY <1>17
<1>20. threads' = [threads EXCEPT ![t] = q]
  BY <1>1, <1>4, <1>5, <1>14
<1> QED BY <1>15, <1>17, <1>18, <1>19, <1>20, OneThread

(* A call that ends gives back what it took itself: no caller has it.      *)
LEMMA SoundLeave ==
    ASSUME ThreadsInv, NEW held, Sound(held), NEW t \in Threads, Leave(t)
    PROVE  Sound(held)'
<1>1. /\ threads[t] # <<>> /\ AtEnd(t) /\ Free(t, Top(t).defers)
      /\ threads' = [threads EXCEPT ![t] = Front(threads[t])] /\ code' = code
  BY DEF Leave, Runs
<1>2. PICK s \in Seq(GoFrames) : s = threads[t]
  BY DEF ThreadsInv
<1>3. PICK n \in Nat \ {0} : n = Len(s) /\ n \in 1..n
  <2>1. Len(s) \in Nat /\ Len(s) # 0
    BY <1>1, <1>2, EmptySeq, LenProperties
  <2> QED BY <2>1
<1>4. s[n] \in GoFrames /\ Top(t) = s[n]
  BY <1>2, <1>3, ElementOfSeq DEF Top, Last
<1>5. WellFormed(code, held, t, s) /\ HeldAreOwned(code, writer, readers, t, s)
  BY <1>2 DEF Sound
<1>6. PICK f \in GoFunctions : f = s[n].fn
  BY <1>4 DEF GoFrames
<1>7. PICK at \in Nat : at = s[n].at
  BY <1>4 DEF GoFrames
<1>8. PICK N \in Nat : N = Len(code.body[f]) /\ at > N
  <2>1. code.body[f] \in Seq(GoInstructions)
    BY ProgramFacts DEF ThreadsInv
  <2>2. Len(code.body[f]) \in Nat
    BY <2>1, LenProperties
  <2> QED BY <1>1, <1>4, <1>6, <1>7, <2>2 DEF AtEnd, Body
<1>9. PICK D : D = s[n].defers
  OBVIOUS
<1>10. ASSUME NEW a \in 1..(n - 1), NEW m \in LockFields, NEW x \in BOOLEAN,
              Holding(code, s[a].fn, s[a].at, m, x)
       PROVE  m \notin D
  <2>1. SUFFICES ASSUME m \in D PROVE FALSE
    OBVIOUS
  <2>2. PICK i \in 1..N, q \in BOOLEAN : code.body[f][i] = Take(m, q)
    BY <1>3, <1>5, <1>6, <1>8, <1>9, <2>1 DEF WellFormed, Deferred
  <2>3. i \in 1..(s[n].at - 1)
    BY <1>7, <1>8
  <2>4. n \in 1..Len(s)
    BY <1>3
  <2> QED BY <1>5, <1>6, <1>10, <2>2, <2>3, <2>4 DEF WellFormed, TakenAfresh
<1>11. Free(t, D)
  BY <1>1, <1>4, <1>9
<1>12. PICK r \in Seq(GoFrames) : r = Front(s)
  BY <1>1, <1>2, StackFacts
<1>13. Len(r) = n - 1 /\ \A j \in 1..(n - 1) : r[j] = s[j]
  <2>1. n - 1 \in 0..n /\ 1 \in 1..(n + 1) /\ n - 1 \in 1 - 1..n
    OBVIOUS
  <2>2. r = SubSeq(s, 1, n - 1)
    BY <1>3, <1>12 DEF Front
  <2>3. r = [j \in 1..(n - 1) |-> s[j]] /\ Len(r) = n - 1
    BY <1>3, <2>1, <2>2, SubSeqProperties
  <2> QED BY <2>3
<1>14. WellFormed(code, held, t, r)
  BY <1>1, <1>2, <1>5, <1>12, LeftStack
<1>15. HeldAreOwned(code, writer', readers', t, r)
  <2>1. SUFFICES ASSUME NEW j \in 1..(n - 1), NEW m \in LockFields, NEW x \in BOOLEAN,
                        Holding(code, r[j].fn, r[j].at, m, x)
                 PROVE  HasLock(writer', readers', t, m, x)
    BY <1>13 DEF HeldAreOwned
  <2>2. Holding(code, s[j].fn, s[j].at, m, x) /\ j \in 1..Len(s)
    BY <1>3, <1>13, <2>1
  <2>3. HasLock(writer, readers, t, m, x)
    BY <1>5, <2>2 DEF HeldAreOwned
  <2>4. m \notin D
    BY <1>10, <2>2
  <2> QED BY <1>11, <2>3, <2>4, FreeKeeps
<1>16. \A u \in Threads \ {t}, m \in LockFields, x \in BOOLEAN :
           HasLock(writer, readers, u, m, x) => HasLock(writer', readers', u, m, x)
  BY <1>11, FreeKeeps
<1>17. threads' = [threads EXCEPT ![t] = r]
  BY <1>1, <1>2, <1>12
<1> QED BY <1>1, <1>14, <1>15, <1>16, <1>17, OneThread

(* A goroutine begins with no calls but its first, which holds nothing.    *)
LEMMA NewThread ==
    ASSUME NEW p, NEW held, NEW w, NEW d, NEW t
    PROVE  /\ WellFormed(p, held, t, <<>>) /\ HeldAreOwned(p, w, d, t, <<>>)
           /\ WellFormed(p, held, t, <<Call(FirstCall(t))>>)
           /\ HeldAreOwned(p, w, d, t, <<Call(FirstCall(t))>>)
<1>1. HeldAreOwned(p, w, d, t, <<>>)
  BY DEF HeldAreOwned
<1>2. PICK c : c = Call(FirstCall(t)) /\ c.at = 1
  <2>1. PICK c : c = [fn |-> FirstCall(t), at |-> 1, defers |-> {}]
    OBVIOUS
  <2> QED BY <2>1 DEF Call
<1>3. PICK s : s = <<c>> /\ Len(s) = 1 /\ s[1] = c
  <2>1. PICK s : s = <<c>>
    OBVIOUS
  <2> QED BY <2>1
<1>4. HeldAreOwned(p, w, d, t, s)
  <2>1. SUFFICES ASSUME NEW j \in 1..1, NEW m \in LockFields, NEW x \in BOOLEAN,
                        Holding(p, s[j].fn, s[j].at, m, x)
                 PROVE  FALSE
    BY <1>3 DEF HeldAreOwned
  <2>2. Holding(p, s[1].fn, 1, m, x)
    BY <1>2, <1>3, <2>1
  <2> QED BY <2>2, NothingHeldYet
<1> QED BY <1>1, <1>2, <1>3, <1>4, NewStack

LEMMA SoundGo ==
    ASSUME ThreadsInv, NEW held, Sound(held), NEW t \in Threads, Go(t)
    PROVE  Sound(held)'
<1>1. /\ Goes(t, {"Go"}) /\ UNCHANGED <<code, writer, readers>>
      /\ started' \subseteq Threads \ {"main"}
      /\ threads' = [u \in Threads |-> IF u = t THEN Advance(t)
                                      ELSE IF u \in started' THEN <<Call("worker")>> ELSE threads[u]]
  BY DEF Go, Threads
<1>2. PICK s \in Seq(GoFrames), n \in Nat \ {0}, f \in GoFunctions, i \in Nat \ {0} :
          StandsAt(t, s, n, f, i)
  BY <1>1, Standing
<1>3. PICK r : r = Advance(t)
  OBVIOUS
<1>4. Further(s, r, n) /\ r[n].defers = s[n].defers
  BY <1>1, <1>2, <1>3, Advancing
<1>5. Instr(t).op \notin {"Lock", "RLock"}
  BY <1>1 DEF Goes
<1>6. WellFormed(code, held, t, r) /\ HeldAreOwned(code, writer, readers, t, r)
  BY <1>2, <1>4, <1>5, QuietMove
<1>7. ASSUME NEW u \in Threads
      PROVE  WellFormed(code, held, u, threads'[u]) /\ HeldAreOwned(code, writer, readers, u, threads'[u])
  <2>1. CASE u = t
    BY <1>1, <1>3, <1>6, <2>1
  <2>2. CASE u # t /\ u \in started'
    <3>1. threads'[u] = <<Call("worker")>> /\ u # "main"
      BY <1>1, <2>2
    <3>2. threads'[u] = <<Call(FirstCall(u))>>
      BY <3>1 DEF FirstCall
    <3> QED BY <3>2, NewThread
  <2>3. CASE u # t /\ u \notin started'
    <3>1. threads'[u] = threads[u]
      BY <1>1, <2>3
    <3> QED BY <3>1 DEF Sound
  <2> QED BY <2>1, <2>2, <2>3
<1>8. code' = code /\ writer' = writer /\ readers' = readers
  BY <1>1
<1> QED BY <1>7, <1>8 DEF Sound

-----------------------------------------------------------------------------
(* The report of a race.                                                   *)

(* Two threads share a lock only for reading.                              *)
LEMMA SharedIsRead ==
    ASSUME ThreadsInv, NEW t \in Threads, NEW u \in Threads, t # u, NEW m \in LockFields,
           NEW x \in BOOLEAN, NEW y \in BOOLEAN,
           HasLock(writer, readers, t, m, x), HasLock(writer, readers, u, m, y)
    PROVE  x /\ y
<1>1. t # NoThread /\ u # NoThread
  BY DEF Threads, NoThread
<1>2. writer[m] # NoThread => readers[m] = {}
  BY DEF ThreadsInv
<1>3. CASE x
  <2>1. t \in readers[m]
    BY <1>3 DEF HasLock
  <2>2. CASE y
    BY <1>3, <2>2
  <2>3. CASE ~y
    <3>1. writer[m] = u
      BY <2>3 DEF HasLock
    <3> QED BY <1>1, <1>2, <2>1, <3>1
  <2> QED BY <2>2, <2>3
<1>4. CASE ~x
  <2>1. writer[m] = t
    BY <1>4 DEF HasLock
  <2>2. CASE y
    <3>1. u \in readers[m]
      BY <2>2 DEF HasLock
    <3> QED BY <1>1, <1>2, <2>1, <3>1
  <2>3. CASE ~y
    <3>1. writer[m] = u
      BY <2>3 DEF HasLock
    <3> QED BY <2>1, <3>1
  <2> QED BY <2>2, <2>3
<1> QED BY <1>3, <1>4

LEMMA MainKeys ==
    ASSUME NEW m
    PROVE  /\ memoryKey(code, "main", m).field = m /\ memoryKey(code, "main", m).id = "main"
           /\ memoryKey(code, "main", m).kind = code.root
<1>1. PICK k : k = [kind |-> rootKey(code, "main").kind, id |-> "main", field |-> m]
  OBVIOUS
<1>2. rootKey(code, "main").kind = code.root
  BY DEF rootKey
<1>3. k.field = m /\ k.id = "main" /\ k.kind = rootKey(code, "main").kind
  BY <1>1
<1>4. memoryKey(code, "main", m) = k
  BY <1>1 DEF memoryKey
<1> QED BY <1>2, <1>3, <1>4

LEMMA PartOfReport ==
    ASSUME NEW a, NEW b, NEW field \in DataFields, <<a, b>> \in risks,
           a.key.field = field \/ a.key.field = ""
    PROVE  Reported(field)
<1>1. PICK risk : risk = <<a, b>> /\ risk[1] = a /\ risk \in risks
  OBVIOUS
<1>2. PICK S : S = IF a.key.field = "" THEN DataFields ELSE {a.key.field}
  OBVIOUS
<1>3. field \in S
  BY <1>2
<1>4. S \in {IF risk[i].key.field = "" THEN DataFields ELSE {risk[i].key.field} : i \in {1, 2}}
  BY <1>1, <1>2
<1>5. field \in About(risk)
  BY <1>3, <1>4 DEF About
<1> QED BY <1>1, <1>5 DEF Reported

(* What the scan knows of two accesses that race does not protect them.    *)
LEMMA PairIsReported ==
    ASSUME ThreadsInv, risks = risksFromAccesses(ExpandConcurrentAccesses(code)),
           NEW u \in Threads \ {"main"}, NEW field \in DataFields, Races("main", u, field),
           NEW d \in ExpandConcurrentAccesses(code), Tells("main", field, d),
           NEW e \in ExpandConcurrentAccesses(code), Tells(u, field, e)
    PROVE  Reported(field)
<1>1. PICK a : a = d.access
  OBVIOUS
<1>2. PICK b : b = e.access
  OBVIOUS
<1>3. /\ "main" \in Threads /\ u \in Threads /\ u # "main"
      /\ Writes("main") \/ Writes(u)
      /\ ~(IsAtomic("main") /\ IsAtomic(u))
  BY DEF Races, Threads
<1>4. mayRunConcurrently(d, e)
  BY <1>3 DEF Tells, mayRunConcurrently
<1>5. /\ a.write = Writes("main") /\ b.write = Writes(u)
      /\ a.atomic = IsAtomic("main") /\ b.atomic = IsAtomic(u)
  BY <1>1, <1>2 DEF Tells
<1>6. PICK k : k = memoryKey(code, "main", field)
  OBVIOUS
<1>7. PICK z : z = [kind |-> "unknown", id |-> "main", field |-> ""]
  OBVIOUS
<1>8. k.id = "main" /\ k.field = field /\ z.kind = "unknown" /\ z.id = "main" /\ z.field = ""
  BY <1>6, <1>7, MainKeys
<1>9. (a.key = k \/ a.key = z) /\ (b.key = k \/ b.key = z)
  BY <1>1, <1>2, <1>6, <1>7 DEF Tells
<1>10. sameOrUnknownMemory(a.key, b.key)
  BY <1>8, <1>9 DEF sameOrUnknownMemory
<1>11. ~locksetsProtect(a, b)
  <2>1. SUFFICES ASSUME NEW l \in a.locks, NEW n \in b.locks, l.key = n.key, lockModesProtect(a, l, b, n)
                 PROVE  FALSE
    BY DEF locksetsProtect
  <2>2. PICK m \in LockFields, x \in BOOLEAN :
            l = Lock(memoryKey(code, "main", m), x) /\ HasLock(writer, readers, "main", m, x)
    BY <1>1 DEF Tells
  <2>3. PICK p \in LockFields, y \in BOOLEAN :
            n = Lock(memoryKey(code, "main", p), y) /\ HasLock(writer, readers, u, p, y)
    BY <1>2 DEF Tells
  <2>4. l.key = memoryKey(code, "main", m) /\ l.read = x
    BY <2>2 DEF Lock
  <2>5. n.key = memoryKey(code, "main", p) /\ n.read = y
    BY <2>3 DEF Lock
  <2>6. m = p
    <3>1. l.key.field = m /\ n.key.field = p
      BY <2>4, <2>5, MainKeys
    <3> QED BY <2>1, <3>1
  <2>7. x /\ y
    BY <1>3, <2>2, <2>3, <2>6, SharedIsRead
  <2>8. ~a.write /\ ~b.write
    BY <2>1, <2>4, <2>5, <2>7 DEF lockModesProtect
  <2> QED BY <1>3, <1>5, <2>8
<1>12. PICK T : T = ExpandConcurrentAccesses(code) /\ d \in T /\ e \in T
  OBVIOUS
<1>13. PICK q : q = <<d, e>> /\ q[1] = d /\ q[2] = e /\ q \in T \X T
  <2>1. PICK q \in T \X T : q = <<d, e>>
    BY <1>12
  <2>2. q[1] = d /\ q[2] = e
    BY <2>1
  <2> QED BY <2>1, <2>2
<1>14. <<q[1].access, q[2].access>> \in PairRisks(T)
  <2>1. /\ mayRunConcurrently(q[1], q[2])
        /\ q[1].access.write \/ q[2].access.write
        /\ sameOrUnknownMemory(q[1].access.key, q[2].access.key)
        /\ ~(q[1].access.atomic /\ q[2].access.atomic)
        /\ ~locksetsProtect(q[1].access, q[2].access)
    BY <1>1, <1>2, <1>3, <1>4, <1>5, <1>10, <1>11, <1>13
  <2> QED BY <1>13, <2>1 DEF PairRisks
<1>15. <<a, b>> \in risks
  BY <1>1, <1>2, <1>12, <1>13, <1>14 DEF risksFromAccesses
<1>16. a.key.field = field \/ a.key.field = ""
  BY <1>8, <1>9
<1> QED BY <1>15, <1>16, PartOfReport

(* A goroutine that writes without any lock is reported on its own.        *)
LEMMA LoneIsReported ==
    ASSUME ThreadsInv, risks = risksFromAccesses(ExpandConcurrentAccesses(code)),
           NEW t \in Threads \ {"main"}, NEW field \in DataFields,
           Instr(t).op = "Store", ~Holds(t), code.root = "param",
           NEW e \in ExpandConcurrentAccesses(code), Tells(t, field, e)
    PROVE  Reported(field)
<1>1. PICK a : a = e.access
  OBVIOUS
<1>2. Writes(t) = TRUE /\ IsAtomic(t) = FALSE
  BY DEF Writes, IsAtomic, Stores
<1>3. e.inGoroutine /\ a.write /\ ~a.atomic
  BY <1>1, <1>2 DEF Tells
<1>4. a.key = memoryKey(code, "main", field)
  BY <1>1 DEF Tells
<1>5. ~hasRelevantLock(a)
  <2>1. SUFFICES ASSUME NEW l \in a.locks PROVE FALSE
    BY DEF hasRelevantLock
  <2>2. PICK m \in LockFields, x \in BOOLEAN : HasLock(writer, readers, t, m, x)
    BY <1>1, <2>1 DEF Tells
  <2>3. writer[m] = t \/ t \in readers[m]
    BY <2>2 DEF HasLock
  <2> QED BY <2>3 DEF Holds
<1>6. isSharedGoroutineAccess(a)
  <2>1. a.key.kind = "param"
    BY <1>4, MainKeys
  <2> QED BY <2>1 DEF isSharedGoroutineAccess
<1>7. PICK T : T = ExpandConcurrentAccesses(code) /\ e \in T
  OBVIOUS
<1>8. <<e.access, e.access>> \in LoneRisks(T)
  <2>1. e \in {u \in T : /\ u.inGoroutine /\ u.access.write /\ ~u.access.atomic
                        /\ ~hasRelevantLock(u.access)
                        /\ isSharedGoroutineAccess(u.access)}
    BY <1>1, <1>3, <1>5, <1>6, <1>7
  <2> QED BY <2>1 DEF LoneRisks
<1>9. <<a, a>> \in risks
  BY <1>1, <1>7, <1>8 DEF risksFromAccesses
<1>10. a.key.field = field
  BY <1>4, MainKeys
<1> QED BY <1>9, <1>10, PartOfReport

-----------------------------------------------------------------------------
(* The invariant: a disciplined program has a bound on what callers hold   *)
(* for reading, and with it the stacks are well formed.                    *)

Heldsets == [GoFunctions -> SUBSET LockFields]

RunInv ==
    /\ ThreadsInv
    /\ risks = risksFromAccesses(ExpandConcurrentAccesses(code))
    /\ Disciplined(code) => \E held \in Heldsets : ReadsOnce(code, held) /\ Sound(held)

LEMMA SoundKeeps ==
    ASSUME ThreadsInv, Disciplined(code), NEW held, ReadsOnce(code, held), Sound(held),
           [NextRisks]_crvars
    PROVE  Sound(held)'
<1>1. GivesBackItsOwn(code)
  BY DEF Disciplined
<1>2. CASE UNCHANGED crvars
  BY <1>2 DEF crvars, Sound
<1>3. ASSUME NEW t \in Threads, Acquire(t) PROVE Sound(held)'
  BY <1>3, SoundAcquire
<1>4. ASSUME NEW t \in Threads, Release(t) PROVE Sound(held)'
  BY <1>1, <1>4, SoundRelease
<1>5. ASSUME NEW t \in Threads, Defer(t) PROVE Sound(held)'
  BY <1>1, <1>5, SoundDefer
<1>6. ASSUME NEW t \in Threads, Access(t) PROVE Sound(held)'
  BY <1>6, SoundAccess
<1>7. ASSUME NEW t \in Threads, Enter(t) PROVE Sound(held)'
  BY <1>7, SoundEnter
<1>8. ASSUME NEW t \in Threads, Leave(t) PROVE Sound(held)'
  BY <1>8, SoundLeave
<1>9. ASSUME NEW t \in Threads, Go(t) PROVE Sound(held)'
  BY <1>9, SoundGo
<1> QED BY <1>2, <1>3, <1>4, <1>5, <1>6, <1>7, <1>8, <1>9 DEF NextRisks

LEMMA RunKeeps ==
    ASSUME RunInv, [NextRisks]_crvars
    PROVE  RunInv'
<1>1. code' = code /\ risks' = risks
  BY DEF NextRisks, crvars, Acquire, Release, Defer, Access, Enter, Leave, Go
<1>2. ThreadsInv /\ ThreadsInv'
  BY ThreadsKeep DEF RunInv
<1>3. (risks = risksFromAccesses(ExpandConcurrentAccesses(code)))'
  <2>1. PICK S : S = risksFromAccesses(ExpandConcurrentAccesses(code)) /\ risks = S
    BY DEF RunInv
  <2>2. risksFromAccesses(ExpandConcurrentAccesses(code'))
        = risksFromAccesses(ExpandConcurrentAccesses(code))
    BY <1>1
  <2> QED BY <1>1, <2>1, <2>2
<1>4. ASSUME Disciplined(code)'
      PROVE  (\E held \in Heldsets : ReadsOnce(code, held) /\ Sound(held))'
  <2>1. Disciplined(code)
    BY <1>1, <1>4
  <2>2. PICK held \in Heldsets : ReadsOnce(code, held) /\ Sound(held)
    BY <2>1 DEF RunInv
  <2>3. ReadsOnce(code', held)
    BY <1>1, <2>2
  <2>4. Sound(held)'
    BY <1>2, <2>1, <2>2, SoundKeeps
  <2> QED BY <2>3, <2>4
<1> QED BY <1>2, <1>3, <1>4 DEF RunInv

LEMMA RunStarts ==
    ASSUME InitRisks, ThreadsInv
    PROVE  RunInv
<1>1. ASSUME Disciplined(code)
      PROVE  \E held \in Heldsets : ReadsOnce(code, held) /\ Sound(held)
  <2>1. PICK held \in Heldsets : ReadsOnce(code, held)
    BY <1>1 DEF Disciplined, Heldsets
  <2>2. ASSUME NEW t \in Threads
        PROVE  WellFormed(code, held, t, threads[t]) /\ HeldAreOwned(code, writer, readers, t, threads[t])
    <3>1. CASE t = "main"
      <4>1. threads[t] = <<Call("main")>> /\ FirstCall(t) = "main"
        BY <3>1 DEF InitRisks, FirstCall
      <4>2. threads[t] = <<Call(FirstCall(t))>>
        BY <4>1
      <4> QED BY <4>2, NewThread
    <3>2. CASE t # "main"
      <4>1. threads[t] = <<>>
        BY <3>2 DEF InitRisks
      <4> QED BY <4>1, NewThread
    <3> QED BY <3>1, <3>2
  <2> QED BY <2>1, <2>2 DEF Sound
<1>2. risks = risksFromAccesses(ExpandConcurrentAccesses(code))
  BY DEF InitRisks
<1> QED BY <1>1, <1>2 DEF RunInv

LEMMA RacesAreCovered ==
    ASSUME RunInv, Disciplined(code), Followed,
           NEW t \in Threads, NEW field \in DataFields, Touches(t, field)
    PROVE  \E e \in ExpandConcurrentAccesses(code) : Tells(t, field, e)
<1>1. PICK held \in Heldsets : Sound(held)
  BY DEF RunInv
<1>2. ThreadsInv
  BY DEF RunInv
<1>3. WellFormed(code, held, t, threads[t]) /\ HeldAreOwned(code, writer, readers, t, threads[t])
  BY <1>1 DEF Sound
<1>4. threads[t] # <<>>
  BY DEF Touches, Goes, Runs
<1>5. Chained(code, threads[t]) /\ threads[t][1].fn = FirstCall(t)
  BY <1>3, <1>4 DEF WellFormed
<1> QED BY <1>2, <1>3, <1>5, AccessIsCovered

(* detect_concurrency_risks: whatever the program, a field on which main   *)
(* and a goroutine are about to race is reported, and so is a plain write  *)
(* that a goroutine of one go statement does without a lock, as long as    *)
(* functions give back the locks that they took themselves, take none for  *)
(* reading that a caller has for reading, make unresolved calls only with  *)
(* the object as main names it, and nest their calls no deeper than the    *)
(* scan follows them.                                                      *)
THEOREM RacesAreReported == SpecRisks => [](Disciplined(code) /\ Followed => RaceIsReported)
<1>1. InitRisks => RunInv
  BY RunStarts, ThreadsStart
<1>2. RunInv /\ [NextRisks]_crvars => RunInv'
  BY RunKeeps
<1>3. RunInv => (Disciplined(code) /\ Followed => RaceIsReported)
  <2>1. SUFFICES ASSUME RunInv, Disciplined(code), Followed, NEW field \in DataFields,
                        NEW t \in Threads, NEW u \in Threads \ {"main"}, Races(t, u, field),
                        t = "main" \/ (Instr(t).op = "Store" /\ ~Holds(t) /\ code.root = "param")
                 PROVE  Reported(field)
    BY DEF RaceIsReported
  <2>2. ThreadsInv /\ risks = risksFromAccesses(ExpandConcurrentAccesses(code))
    BY <2>1 DEF RunInv
  <2>3. Touches(t, field) /\ Touches(u, field)
    BY <2>1 DEF Races
  <2>4. PICK d \in ExpandConcurrentAccesses(code) : Tells(t, field, d)
    BY <2>1, <2>3, RacesAreCovered
  <2>5. PICK e \in ExpandConcurrentAccesses(code) : Tells(u, field, e)
    BY <2>1, <2>3, RacesAreCovered
  <2>6. CASE t = "main"
    <3>1. Races("main", u, field) /\ Tells("main", field, d)
      BY <2>1, <2>4, <2>6
    <3> QED BY <2>1, <2>2, <2>5, <3>1, PairIsReported
  <2>7. CASE t # "main"
    <3>1. t \in Threads \ {"main"} /\ Instr(t).op = "Store" /\ ~Holds(t) /\ code.root = "param"
      BY <2>1, <2>7
    <3> QED BY <2>1, <2>2, <2>4, <3>1, LoneIsReported
  <2> QED BY <2>6, <2>7
<1> QED BY <1>1, <1>2, <1>3, PTL DEF SpecRisks
=============================================================================
