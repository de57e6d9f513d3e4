-------------------------- MODULE Workspace_proof --------------------------
(***************************************************************************)
(* Proofs about the program cache.                                         *)
(***************************************************************************)
EXTENDS Workspace, TLAPS

(* What every method of Workspace keeps true of its list q and its map c   *)
(* at time t.                                                              *)
ListInv(q, c, t) ==
    /\ q \in Seq(Keys)
    /\ c \in [Keys -> Entries \cup {NoEntry}]
    /\ \A i, j \in DOMAIN q : q[i] = q[j] => i = j
    /\ \A k \in Keys : c[k] # NoEntry <=> \E i \in DOMAIN q : q[i] = k
    /\ \A i, j \in DOMAIN q : i < j => c[q[i]].lastAccess >= c[q[j]].lastAccess
    /\ \A k \in Keys : c[k] # NoEntry => c[k].lastAccess <= t

(* Dropping a tail of the list and its keys, as evictLocked and sweep do.  *)
LEMMA KeepFirstInv ==
    ASSUME NEW q, NEW c, NEW t \in Nat, ListInv(q, c, t),
           NEW n \in 0..Len(q)
    PROVE  LET c2 == [k \in Keys |->
                        IF \E i \in (n + 1)..Len(q) : q[i] = k THEN NoEntry ELSE c[k]]
           IN ListInv(Take(q, n), c2, t) /\ Len(Take(q, n)) = n
<1> DEFINE p == Take(q, n)
           c2 == [k \in Keys |->
                    IF \E i \in (n + 1)..Len(q) : q[i] = k THEN NoEntry ELSE c[k]]
<1>1. p \in Seq(Keys) /\ Len(p) = n /\ \A j \in 1..n : p[j] = q[j]
  BY DEF ListInv, Take
<1>2. c2 \in [Keys -> Entries \cup {NoEntry}]
  BY DEF ListInv
<1>3. \A j \in 1..n : c2[p[j]] = c[q[j]]
  BY <1>1 DEF ListInv
<1>4. \A k \in Keys : c2[k] # NoEntry <=> \E i \in DOMAIN p : p[i] = k
  <2> SUFFICES ASSUME NEW k \in Keys
               PROVE  c2[k] # NoEntry <=> \E i \in DOMAIN p : p[i] = k
    OBVIOUS
  <2>1. ASSUME c2[k] # NoEntry PROVE \E i \in DOMAIN p : p[i] = k
    <3>1. PICK i \in DOMAIN q : q[i] = k
      BY <2>1 DEF ListInv
    <3>2. i \in 1..n
      BY <2>1, <3>1 DEF ListInv
    <3> QED BY <1>1, <3>1, <3>2
  <2>2. ASSUME NEW i \in DOMAIN p, p[i] = k PROVE c2[k] # NoEntry
    BY <1>1, <1>3, <2>2 DEF ListInv
  <2> QED BY <2>1, <2>2
<1>5. \A i, j \in DOMAIN p : i < j => c2[p[i]].lastAccess >= c2[p[j]].lastAccess
  BY <1>1, <1>3 DEF ListInv
<1>6. \A i, j \in DOMAIN p : p[i] = p[j] => i = j
  BY <1>1 DEF ListInv
<1>7. \A k \in Keys : c2[k] # NoEntry => c2[k].lastAccess <= t
  BY DEF ListInv
<1> HIDE DEF p, c2
<1>8. ListInv(p, c2, t)
  BY <1>1, <1>2, <1>4, <1>5, <1>6, <1>7 DEF ListInv
<1> QED BY <1>1, <1>8 DEF p, c2

(* Filing program g under the key at position i, as a hit or an upgrade.   *)
LEMMA TouchInv ==
    ASSUME NEW q, NEW c, NEW t \in 0..MaxTime, ListInv(q, c, t),
           NEW i \in DOMAIN q, NEW g \in Programs
    PROVE  LET c2 == [c EXCEPT ![q[i]] = [prog |-> g, lastAccess |-> t]]
           IN ListInv(MoveToFront(q, i), c2, t) /\ Len(MoveToFront(q, i)) = Len(q)
<1> DEFINE p == MoveToFront(q, i)
           c2 == [c EXCEPT ![q[i]] = [prog |-> g, lastAccess |-> t]]
<1>1. /\ p \in Seq(Keys) /\ Len(p) = Len(q)
      /\ \A j \in DOMAIN q : p[j] = IF j = 1 THEN q[i] ELSE IF j <= i THEN q[j - 1] ELSE q[j]
  BY DEF ListInv, MoveToFront
<1>d. /\ Len(q) \in Nat /\ DOMAIN q = 1..Len(q) /\ i \in 1..Len(q)
      /\ DOMAIN p = 1..Len(q)
  BY <1>1 DEF ListInv
<1>2. c2 \in [Keys -> Entries \cup {NoEntry}]
  BY DEF ListInv, Entries
<1>3. q[i] \in Keys /\ c2[q[i]].lastAccess = t /\ c2[q[i]] # NoEntry
  BY SentinelAssumption DEF ListInv, Entries
<1>4. \A k \in Keys : k # q[i] => c2[k] = c[k]
  BY DEF ListInv
<1>5. \A k \in Keys : c2[k] # NoEntry => c2[k].lastAccess \in Nat /\ c2[k].lastAccess <= t
  BY <1>2, <1>3, <1>4 DEF ListInv, Entries
<1>6. \A j, m \in DOMAIN p : p[j] = p[m] => j = m
  <2> SUFFICES ASSUME NEW j \in DOMAIN p, NEW m \in DOMAIN p, p[j] = p[m]
               PROVE  j = m
    OBVIOUS
  <2> DEFINE at(x) == IF x = 1 THEN i ELSE IF x <= i THEN x - 1 ELSE x
  <2>1. \A x \in DOMAIN p : at(x) \in DOMAIN q /\ p[x] = q[at(x)]
    BY <1>1 DEF ListInv
  <2>2. at(j) = at(m)
    BY <2>1 DEF ListInv
  <2>3. i \in Nat /\ i >= 1 /\ j \in Nat /\ j >= 1 /\ m \in Nat /\ m >= 1
    BY <1>1 DEF ListInv
  <2> HIDE DEF p
  <2> QED BY <2>2, <2>3
<1>7. \A k \in Keys : c2[k] # NoEntry <=> \E j \in DOMAIN p : p[j] = k
  <2> SUFFICES ASSUME NEW k \in Keys
               PROVE  c2[k] # NoEntry <=> \E j \in DOMAIN p : p[j] = k
    OBVIOUS
  <2>1. CASE k = q[i]
    BY <1>1, <1>3, <2>1 DEF ListInv
  <2>2. CASE k # q[i]
    <3>1. ASSUME c[k] # NoEntry PROVE \E j \in DOMAIN p : p[j] = k
      <4>1. PICK j \in DOMAIN q : q[j] = k
        BY <3>1 DEF ListInv
      <4>2. CASE j < i
        <5>1. /\ j + 1 \in DOMAIN q /\ j + 1 # 1 /\ j + 1 <= i /\ (j + 1) - 1 = j
          BY <1>d, <4>2
        <5>2. j + 1 \in DOMAIN p /\ p[j + 1] = q[j]
          BY <1>1, <1>d, <5>1
        <5> QED BY <4>1, <5>2
      <4>3. CASE j > i
        <5>1. j \in DOMAIN p /\ p[j] = q[j]
          BY <1>1, <1>d, <4>3
        <5> QED BY <4>1, <5>1
      <4> QED BY <1>d, <2>2, <4>1, <4>2, <4>3
    <3>2. ASSUME NEW j \in DOMAIN p, p[j] = k PROVE c[k] # NoEntry
      BY <1>1, <2>2, <3>2 DEF ListInv
    <3> QED BY <1>4, <2>2, <3>1, <3>2
  <2> QED BY <2>1, <2>2
<1>8. \A j, m \in DOMAIN p : j < m => c2[p[j]].lastAccess >= c2[p[m]].lastAccess
  <2> SUFFICES ASSUME NEW j \in DOMAIN p, NEW m \in DOMAIN p, j < m
               PROVE  c2[p[j]].lastAccess >= c2[p[m]].lastAccess
    OBVIOUS
  <2>1. p[m] \in Keys /\ c2[p[m]] # NoEntry
    BY <1>1, <1>7
  <2>2. CASE j = 1
    BY <1>1, <1>3, <1>5, <2>1, <2>2 DEF ListInv
  <2>3. CASE j # 1
    <3>1. p[j] # q[i] /\ p[m] # q[i]
      <4>1. 1 \in DOMAIN p /\ p[1] = q[i]
        BY <1>1, <1>d
      <4>2. m # 1
        BY <1>d
      <4> HIDE DEF p
      <4> QED BY <1>6, <2>3, <4>1, <4>2
    <3>2. PICK a \in DOMAIN q, b \in DOMAIN q : a < b /\ p[j] = q[a] /\ p[m] = q[b]
      <4> DEFINE a == IF j <= i THEN j - 1 ELSE j
                 b == IF m <= i THEN m - 1 ELSE m
      <4>1. a \in DOMAIN q /\ b \in DOMAIN q /\ p[j] = q[a] /\ p[m] = q[b]
        BY <1>1, <2>3 DEF ListInv
      <4>2. a < b
        <5>1. j < m /\ j \in Nat /\ m \in Nat /\ i \in Nat
          BY <1>1 DEF ListInv
        <5>2. ~(j = i /\ m = i)
          BY <5>1
        <5> QED BY <5>1
      <4> QED BY <4>1, <4>2
    <3> QED BY <1>1, <1>4, <3>1, <3>2 DEF ListInv
  <2> QED BY <2>2, <2>3
<1> HIDE DEF p, c2
<1>9. ListInv(p, c2, t)
  BY <1>1, <1>2, <1>5, <1>6, <1>7, <1>8 DEF ListInv
<1> QED BY <1>1, <1>9 DEF p, c2

(* A new entry at the front.                                               *)
LEMMA PushInv ==
    ASSUME NEW q, NEW c, NEW t \in 0..MaxTime, ListInv(q, c, t),
           NEW k \in Keys, c[k] = NoEntry, NEW g \in Programs
    PROVE  LET c2 == [c EXCEPT ![k] = [prog |-> g, lastAccess |-> t]]
           IN ListInv(PushFront(q, k), c2, t) /\ Len(PushFront(q, k)) = Len(q) + 1
<1> DEFINE p == PushFront(q, k)
           c2 == [c EXCEPT ![k] = [prog |-> g, lastAccess |-> t]]
<1>1. /\ p \in Seq(Keys) /\ Len(p) = Len(q) + 1
      /\ \A j \in 1..(Len(q) + 1) : p[j] = IF j = 1 THEN k ELSE q[j - 1]
  BY DEF ListInv, PushFront
<1>2. c2 \in [Keys -> Entries \cup {NoEntry}]
  BY DEF ListInv, Entries
<1>3. c2[k].lastAccess = t /\ c2[k] # NoEntry
  BY SentinelAssumption DEF ListInv, Entries
<1>4. \A x \in Keys : x # k => c2[x] = c[x]
  BY DEF ListInv
<1>5. \A x \in Keys : c2[x] # NoEntry => c2[x].lastAccess \in Nat /\ c2[x].lastAccess <= t
  BY <1>2, <1>3, <1>4 DEF ListInv, Entries
<1>6. \A j \in DOMAIN q : q[j] # k
  BY DEF ListInv
<1>7. \A j, m \in DOMAIN p : p[j] = p[m] => j = m
  <2> SUFFICES ASSUME NEW j \in DOMAIN p, NEW m \in DOMAIN p, p[j] = p[m]
               PROVE  j = m
    OBVIOUS
  <2>1. \A x \in DOMAIN p : x # 1 => x - 1 \in DOMAIN q /\ p[x] = q[x - 1]
    BY <1>1 DEF ListInv
  <2>2. j \in Nat /\ m \in Nat /\ p[1] = k
    BY <1>1 DEF ListInv
  <2> HIDE DEF p
  <2>3. CASE j = 1 \/ m = 1
    BY <1>6, <2>1, <2>2, <2>3
  <2>4. CASE j # 1 /\ m # 1
    <3>1. j - 1 = m - 1
      BY <2>1, <2>4 DEF ListInv
    <3> QED BY <2>2, <3>1
  <2> QED BY <2>3, <2>4
<1>8. \A x \in Keys : c2[x] # NoEntry <=> \E j \in DOMAIN p : p[j] = x
  <2> SUFFICES ASSUME NEW x \in Keys
               PROVE  c2[x] # NoEntry <=> \E j \in DOMAIN p : p[j] = x
    OBVIOUS
  <2>1. CASE x = k
    BY <1>1, <1>3, <2>1 DEF ListInv
  <2>2. CASE x # k
    <3>1. ASSUME c[x] # NoEntry PROVE \E j \in DOMAIN p : p[j] = x
      <4>1. PICK j \in DOMAIN q : q[j] = x
        BY <3>1 DEF ListInv
      <4>2. j + 1 \in DOMAIN p /\ p[j + 1] = q[j]
        BY <1>1 DEF ListInv
      <4> QED BY <4>1, <4>2
    <3>2. ASSUME NEW j \in DOMAIN p, p[j] = x PROVE c[x] # NoEntry
      BY <1>1, <2>2, <3>2 DEF ListInv
    <3> QED BY <1>4, <2>2, <3>1, <3>2
  <2> QED BY <2>1, <2>2
<1>9. \A j, m \in DOMAIN p : j < m => c2[p[j]].lastAccess >= c2[p[m]].lastAccess
  <2> SUFFICES ASSUME NEW j \in DOMAIN p, NEW m \in DOMAIN p, j < m
               PROVE  c2[p[j]].lastAccess >= c2[p[m]].lastAccess
    OBVIOUS
  <2>1. p[m] \in Keys /\ c2[p[m]] # NoEntry
    BY <1>1, <1>8
  <2>2. CASE j = 1
    BY <1>1, <1>3, <1>5, <2>1, <2>2
  <2>3. CASE j # 1
    <3>1. /\ j - 1 \in DOMAIN q /\ m - 1 \in DOMAIN q
          /\ p[j] = q[j - 1] /\ p[m] = q[m - 1]
      BY <1>1, <2>3 DEF ListInv
    <3>2. q[j - 1] \in Keys /\ q[m - 1] \in Keys
      BY <3>1 DEF ListInv
    <3>3. c2[p[j]] = c[q[j - 1]] /\ c2[p[m]] = c[q[m - 1]]
      BY <1>4, <1>6, <3>1, <3>2
    <3>4. j - 1 < m - 1
      BY <1>1
    <3> HIDE DEF p, c2
    <3> QED BY <3>1, <3>3, <3>4 DEF ListInv
  <2> QED BY <2>2, <2>3
<1> HIDE DEF p, c2
<1>10. ListInv(p, c2, t)
  BY <1>1, <1>2, <1>5, <1>7, <1>8, <1>9 DEF ListInv
<1> QED BY <1>1, <1>10 DEF p, c2

(* Removing one element, as Invalidate and Clear do.                       *)
LEMMA RemoveInv ==
    ASSUME NEW q, NEW c, NEW t \in Nat, ListInv(q, c, t),
           NEW i \in DOMAIN q
    PROVE  LET c2 == [c EXCEPT ![q[i]] = NoEntry]
           IN ListInv(RemoveAt(q, i), c2, t) /\ Len(RemoveAt(q, i)) = Len(q) - 1
<1> DEFINE p == RemoveAt(q, i)
           c2 == [c EXCEPT ![q[i]] = NoEntry]
<1>1. /\ p \in Seq(Keys) /\ Len(p) = Len(q) - 1
      /\ \A j \in 1..(Len(q) - 1) : p[j] = IF j < i THEN q[j] ELSE q[j + 1]
  BY DEF ListInv, RemoveAt
<1>2. c2 \in [Keys -> Entries \cup {NoEntry}] /\ q[i] \in Keys /\ c2[q[i]] = NoEntry
  BY DEF ListInv
<1>3. \A k \in Keys : k # q[i] => c2[k] = c[k]
  BY DEF ListInv
<1>4. \A k \in Keys : c2[k] # NoEntry => c2[k].lastAccess <= t
  BY <1>2, <1>3 DEF ListInv
<1> DEFINE at(x) == IF x < i THEN x ELSE x + 1
<1>0. /\ \A x \in DOMAIN p : /\ at(x) \in DOMAIN q /\ at(x) # i /\ p[x] = q[at(x)]
                              /\ x \in Nat
      /\ \A x, y \in DOMAIN p : x < y <=> at(x) < at(y)
  <2>1. q \in Seq(Keys) /\ Len(q) \in Nat /\ DOMAIN q = 1..Len(q) /\ i \in 1..Len(q)
    BY DEF ListInv
  <2>2. DOMAIN p = 1..(Len(q) - 1)
    BY <1>1, <2>1
  <2> HIDE DEF p
  <2>3. \A x \in DOMAIN p : x \in Nat /\ at(x) \in DOMAIN q /\ at(x) # i
    BY <2>1, <2>2
  <2>4. \A x \in DOMAIN p : p[x] = q[at(x)]
    BY <1>1, <2>2
  <2>5. \A x, y \in DOMAIN p : x < y <=> at(x) < at(y)
    BY <2>1, <2>2
  <2> QED BY <2>3, <2>4, <2>5
<1>5. \A j, m \in DOMAIN p : p[j] = p[m] => j = m
  <2> SUFFICES ASSUME NEW j \in DOMAIN p, NEW m \in DOMAIN p, p[j] = p[m]
               PROVE  j = m
    OBVIOUS
  <2>1. at(j) = at(m)
    BY <1>0 DEF ListInv
  <2>2. j \in Nat /\ m \in Nat /\ i \in Nat
    BY <1>0 DEF ListInv
  <2> HIDE DEF p
  <2> QED BY <2>1, <2>2
<1>6. \A j \in DOMAIN p : p[j] # q[i]
  <2> HIDE DEF p, at
  <2> QED BY <1>0 DEF ListInv
<1>7. \A k \in Keys : c2[k] # NoEntry <=> \E j \in DOMAIN p : p[j] = k
  <2> SUFFICES ASSUME NEW k \in Keys
               PROVE  c2[k] # NoEntry <=> \E j \in DOMAIN p : p[j] = k
    OBVIOUS
  <2>1. CASE k = q[i]
    BY <1>2, <1>6, <2>1
  <2>2. CASE k # q[i]
    <3>1. ASSUME c[k] # NoEntry PROVE \E j \in DOMAIN p : p[j] = k
      <4>1. PICK j \in DOMAIN q : q[j] = k
        BY <3>1 DEF ListInv
      <4>2. CASE j < i
        <5>1. j \in DOMAIN p /\ p[j] = q[j]
          BY <1>1, <4>2 DEF ListInv
        <5> QED BY <4>1, <5>1
      <4>3. CASE j > i
        <5>1. j - 1 \in DOMAIN p /\ p[j - 1] = q[j]
          BY <1>1, <4>3 DEF ListInv
        <5> QED BY <4>1, <5>1
      <4> QED BY <2>2, <4>1, <4>2, <4>3 DEF ListInv
    <3>2. ASSUME NEW j \in DOMAIN p, p[j] = k PROVE c[k] # NoEntry
      <4> HIDE DEF p, at
      <4> QED BY <1>0, <3>2 DEF ListInv
    <3> QED BY <1>3, <2>2, <3>1, <3>2
  <2> QED BY <2>1, <2>2
<1>8. \A j, m \in DOMAIN p : j < m => c2[p[j]].lastAccess >= c2[p[m]].lastAccess
  <2> SUFFICES ASSUME NEW j \in DOMAIN p, NEW m \in DOMAIN p, j < m
               PROVE  c2[p[j]].lastAccess >= c2[p[m]].lastAccess
    OBVIOUS
  <2>1. p[j] \in Keys /\ p[m] \in Keys
    BY <1>1
  <2>2. c2[p[j]] = c[q[at(j)]] /\ c2[p[m]] = c[q[at(m)]]
    BY <1>0, <1>3, <1>6, <2>1
  <2>3. at(j) \in DOMAIN q /\ at(m) \in DOMAIN q /\ at(j) < at(m)
    BY <1>0
  <2> HIDE DEF p, c2, at
  <2> QED BY <2>2, <2>3 DEF ListInv
<1> HIDE DEF p, c2
<1>9. ListInv(p, c2, t)
  BY <1>1, <1>2, <1>4, <1>5, <1>7, <1>8 DEF ListInv
<1> QED BY <1>1, <1>9 DEF p, c2

-----------------------------------------------------------------------------
(* A call that leads is on a flight, and a flight that has loaded carries  *)
(* a program of at least the mode it is for.                               *)
FlightInv ==
    /\ \A c \in Calls :
        callPc[c] = "lead" => flight[callKey[c]][callMode[c]] # NoFlight
    /\ \A k \in Keys, m \in Modes :
        flight[k][m] # NoFlight =>
            /\ flight[k][m].stage = "loaded" =>
                    flight[k][m].value \in [mode : {m}, version : 0..MaxVersion]
            /\ flight[k][m].stage = "over" /\ flight[k][m].value \in Programs =>
                    flight[k][m].value.mode >= m

(* The inductive invariant.                                                *)
IInv ==
    /\ TypeOK
    /\ ListInv(order, cache, now)
    /\ WithinCapacity
    /\ FlightInv
    /\ ServedModeSuffices

(* The critical sections, as steps of the list and the map.                *)
LEMMA TouchStep ==
    ASSUME IInv, NEW k \in Keys, NEW g \in Programs, Touch(k, g)
    PROVE  ListInv(order', cache', now) /\ Len(order') = Len(order)
<1>1. PICK i \in DOMAIN order : order[i] = k /\ order' = MoveToFront(order, i)
  BY DEF Touch
<1>2. cache' = [cache EXCEPT ![order[i]] = [prog |-> g, lastAccess |-> now]]
  BY <1>1 DEF Touch
<1>3. now \in 0..MaxTime /\ ListInv(order, cache, now)
  BY DEF IInv, TypeOK
<1> QED BY <1>1, <1>2, <1>3, TouchInv

LEMMA RemoveStep ==
    ASSUME IInv, NEW k \in Keys, Remove(k)
    PROVE  ListInv(order', cache', now) /\ Len(order') <= Len(order)
<1>0. now \in Nat /\ ListInv(order, cache, now) /\ Len(order) \in Nat
  BY WorkspaceAssumption DEF IInv, TypeOK
<1>1. CASE Cached(k)
  <2>1. PICK i \in DOMAIN order : order[i] = k /\ order' = RemoveAt(order, i)
    BY <1>1 DEF Remove
  <2>2. cache' = [cache EXCEPT ![order[i]] = NoEntry]
    BY <1>1, <2>1 DEF Remove
  <2>3. ListInv(order', cache', now) /\ Len(order') = Len(order) - 1
    BY <1>0, <2>1, <2>2, RemoveInv
  <2> QED BY <1>0, <2>3
<1>2. CASE ~Cached(k)
  BY <1>0, <1>2 DEF Remove, cacheVars
<1> QED BY <1>1, <1>2

LEMMA KeepFirstStep ==
    ASSUME NEW q, NEW c, NEW n \in 0..Len(q), ListInv(q, c, now), now \in Nat,
           KeepFirst(q, c, n)
    PROVE  ListInv(order', cache', now) /\ Len(order') = n
BY KeepFirstInv DEF KeepFirst

LEMMA EvictStep ==
    ASSUME NEW q, NEW c, NEW cap \in Nat, ListInv(q, c, now), now \in Nat,
           evictLocked(q, c, cap)
    PROVE  ListInv(order', cache', now) /\ Len(order') <= cap
<1>1. Len(q) \in Nat
  BY DEF ListInv
<1> DEFINE n == IF Len(q) > cap THEN cap ELSE Len(q)
<1>2. n \in 0..Len(q) /\ n <= cap /\ KeepFirst(q, c, n)
  BY <1>1 DEF evictLocked
<1> HIDE DEF n
<1> QED BY <1>2, KeepFirstStep

LEMMA FileResultStep ==
    ASSUME IInv, NEW k \in Keys, NEW g \in Programs, FileResult(k, g)
    PROVE  ListInv(order', cache', now) /\ Len(order') <= capacity
<1>0. /\ now \in 0..MaxTime /\ now \in Nat /\ ListInv(order, cache, now)
      /\ capacity \in Nat /\ Len(order) \in Nat /\ Len(order) <= capacity
      /\ cache \in [Keys -> Entries \cup {NoEntry}]
  BY WorkspaceAssumption DEF IInv, TypeOK, WithinCapacity
<1>1. CASE Cached(k)
  <2>1. cache[k].prog \in Programs
    BY <1>0, <1>1 DEF Cached, Entries
  <2> DEFINE h == IF cache[k].prog.mode >= g.mode THEN cache[k].prog ELSE g
  <2>2. h \in Programs /\ Touch(k, h)
    BY <1>1, <2>1 DEF FileResult
  <2> HIDE DEF h
  <2> QED BY <1>0, <2>2, TouchStep
<1>2. CASE ~Cached(k)
  <2> DEFINE q == PushFront(order, k)
             c == [cache EXCEPT ![k] = [prog |-> g, lastAccess |-> now]]
  <2>1. ListInv(q, c, now)
    BY <1>0, <1>2, PushInv DEF Cached
  <2>2. evictLocked(q, c, capacity)
    BY <1>2 DEF FileResult
  <2> HIDE DEF q, c
  <2> QED BY <1>0, <2>1, <2>2, EvictStep
<1> QED BY <1>1, <1>2

LEMMA LookupStep ==
    ASSUME IInv, NEW c \in Calls, NEW k \in Keys, NEW m \in Modes, Lookup(c, k, m)
    PROVE  /\ ListInv(order', cache', now) /\ Len(order') = Len(order)
           /\ callPc' \in [Calls -> CallLabels]
           /\ \A d \in Calls \ {c} : callPc'[d] = callPc[d] /\ result'[d] = result[d]
           /\ callPc'[c] \in {"do", "returned"}
           /\ result' \in [Calls -> Programs \cup {NoResult, LoadError}]
           /\ callPc'[c] = "returned" => result'[c].mode >= m
<1>0. /\ callPc \in [Calls -> CallLabels]
      /\ result \in [Calls -> Programs \cup {NoResult, LoadError}]
      /\ cache \in [Keys -> Entries \cup {NoEntry}]
  BY DEF IInv, TypeOK
<1>1. CASE Hit(k, m)
  <2>1. cache[k].prog \in Programs /\ cache[k].prog.mode >= m
    BY <1>0, <1>1 DEF Hit, Cached, Entries
  <2>2. Touch(k, cache[k].prog) /\ Answer(c, cache[k].prog)
    BY <1>1 DEF Lookup
  <2>3. ListInv(order', cache', now) /\ Len(order') = Len(order)
    BY <2>1, <2>2, TouchStep
  <2> QED BY <1>0, <2>1, <2>2, <2>3 DEF Answer, CallLabels
<1>2. CASE ~Hit(k, m)
  <2>1. ListInv(order', cache', now) /\ Len(order') = Len(order)
    BY <1>2 DEF Lookup, cacheVars, IInv
  <2> QED BY <1>0, <1>2, <2>1 DEF Lookup, CallLabels
<1> QED BY <1>1, <1>2

-----------------------------------------------------------------------------
LEMMA InitIInv == Init => IInv
<1> SUFFICES ASSUME Init PROVE IInv
  OBVIOUS
<1>1. TypeOK
  <2>1. (CHOOSE k \in Keys : TRUE) \in Keys
    BY WorkspaceAssumption
  <2>2. capacity \in Nat \ {0} /\ ttl \in Nat
    BY WorkspaceAssumption DEF Init, NewWorkspace, defaultCacheCapacity
  <2> QED
    BY <2>1, <2>2, WorkspaceAssumption DEF Init, NewWorkspace, TypeOK, CallLabels
<1>2. ListInv(order, cache, now)
  BY <1>1 DEF Init, NewWorkspace, ListInv, TypeOK
<1>3. WithinCapacity
  BY <1>1 DEF Init, NewWorkspace, WithinCapacity, TypeOK
<1>4. FlightInv /\ ServedModeSuffices
  BY DEF Init, NewWorkspace, FlightInv, ServedModeSuffices
<1> QED BY <1>1, <1>2, <1>3, <1>4 DEF IInv

(* The part of the type invariant that is not about the list and the map.  *)
RestTypeOK ==
    /\ capacity \in Nat \ {0}
    /\ ttl \in Nat
    /\ flight \in [Keys -> [Modes -> Flights \cup {NoFlight}]]
    /\ source \in [Keys -> 0..MaxVersion]
    /\ now \in 0..MaxTime
    /\ callPc \in [Calls -> CallLabels]
    /\ callKey \in [Calls -> Keys]
    /\ callMode \in [Calls -> Modes]
    /\ result \in [Calls -> Programs \cup {NoResult, LoadError}]
    /\ asked \in [Calls -> 0..MaxVersion]
    /\ quiet \in [Calls -> BOOLEAN]

(* What the step of each action gives; IInv' follows from it.              *)
Kept ==
    /\ RestTypeOK'
    /\ ListInv(order', cache', now')
    /\ Len(order') <= capacity'
    /\ FlightInv'
    /\ ServedModeSuffices'

LEMMA KeptIsIInv == ASSUME Kept PROVE IInv'
BY DEF Kept, IInv, TypeOK, RestTypeOK, ListInv, WithinCapacity

LEMMA RestOfIInv ==
    ASSUME IInv
    PROVE  /\ RestTypeOK /\ FlightInv /\ ServedModeSuffices
           /\ Len(order) \in Nat /\ Len(order) <= capacity /\ now \in Nat
           /\ ListInv(order, cache, now)
           /\ cache \in [Keys -> Entries \cup {NoEntry}]
BY WorkspaceAssumption DEF IInv, TypeOK, RestTypeOK, WithinCapacity

LEMMA GetOrLoadKept ==
    ASSUME IInv, NEW c \in Calls, NEW k \in Keys, NEW m \in Modes, getOrLoad(c, k, m)
    PROVE  Kept
<1> USE RestOfIInv
<1>0. Lookup(c, k, m) /\ callPc[c] = "idle"
  BY DEF getOrLoad
<1>1. /\ ListInv(order', cache', now) /\ Len(order') = Len(order)
      /\ callPc' \in [Calls -> CallLabels]
      /\ \A d \in Calls \ {c} : callPc'[d] = callPc[d] /\ result'[d] = result[d]
      /\ callPc'[c] \in {"do", "returned"}
      /\ result' \in [Calls -> Programs \cup {NoResult, LoadError}]
      /\ callPc'[c] = "returned" => result'[c].mode >= m
  BY <1>0, LookupStep
<1>2. /\ callKey' = [callKey EXCEPT ![c] = k] /\ callMode' = [callMode EXCEPT ![c] = m]
      /\ UNCHANGED <<asked, quiet, capacity, ttl, flight, source, now>>
  BY DEF getOrLoad, limitVars, envVars
<1>3. RestTypeOK'
  BY <1>1, <1>2 DEF RestTypeOK
<1>4. FlightInv'
  BY <1>1, <1>2 DEF RestTypeOK, FlightInv
<1>5. ServedModeSuffices'
  BY <1>1, <1>2 DEF RestTypeOK, ServedModeSuffices
<1> QED BY <1>1, <1>2, <1>3, <1>4, <1>5 DEF Kept

LEMMA ReloadLookupKept ==
    ASSUME IInv, NEW c \in Calls, ReloadLookup(c)
    PROVE  Kept
<1> USE RestOfIInv
<1> DEFINE k == callKey[c]
           m == callMode[c]
<1>0. Lookup(c, k, m) /\ k \in Keys /\ m \in Modes
  BY DEF ReloadLookup, RestTypeOK
<1>1. /\ ListInv(order', cache', now) /\ Len(order') = Len(order)
      /\ callPc' \in [Calls -> CallLabels]
      /\ \A d \in Calls \ {c} : callPc'[d] = callPc[d] /\ result'[d] = result[d]
      /\ callPc'[c] \in {"do", "returned"}
      /\ result' \in [Calls -> Programs \cup {NoResult, LoadError}]
      /\ callPc'[c] = "returned" => result'[c].mode >= m
  BY <1>0, LookupStep
<1>2. UNCHANGED <<asked, quiet, capacity, ttl, flight, source, now, callKey, callMode>>
  BY DEF ReloadLookup, limitVars, envVars, requestVars
<1>3. RestTypeOK'
  BY <1>1, <1>2 DEF RestTypeOK
<1>4. FlightInv'
  BY <1>1, <1>2 DEF RestTypeOK, FlightInv
<1>5. ServedModeSuffices'
  BY <1>1, <1>2 DEF RestTypeOK, ServedModeSuffices
<1> QED BY <1>1, <1>2, <1>3, <1>4, <1>5 DEF Kept

LEMMA DoKept ==
    ASSUME IInv, NEW c \in Calls, Do(c)
    PROVE  Kept
<1> USE RestOfIInv
<1> DEFINE k == callKey[c]
           m == callMode[c]
           new == [stage |-> "loading", value |-> NoResult]
<1>0. /\ k \in Keys /\ m \in Modes /\ callPc[c] = "do"
      /\ new \in Flights /\ new # NoFlight
  BY SentinelAssumption DEF Do, RestTypeOK, Flights
<1>1. UNCHANGED <<order, cache, asked, quiet, capacity, ttl, source, now, callKey,
                  callMode, result>>
  BY DEF Do, cacheVars, limitVars, envVars, requestVars
<1>2. CASE flight[k][m] = NoFlight
  <2>1. /\ flight' = [flight EXCEPT ![k][m] = new]
        /\ callPc' = [callPc EXCEPT ![c] = "lead"]
    BY <1>2 DEF Do
  <2>2. RestTypeOK'
    BY <1>0, <1>1, <2>1 DEF RestTypeOK, CallLabels
  <2>3. FlightInv'
    BY <1>0, <1>1, <2>1 DEF RestTypeOK, FlightInv
  <2>4. ServedModeSuffices'
    BY <1>0, <1>1, <2>1 DEF RestTypeOK, ServedModeSuffices
  <2> QED BY <1>1, <2>2, <2>3, <2>4 DEF Kept
<1>3. CASE flight[k][m] # NoFlight
  <2>1. flight' = flight /\ callPc' = [callPc EXCEPT ![c] = "wait"]
    BY <1>3 DEF Do
  <2> QED BY <1>0, <1>1, <2>1 DEF Kept, RestTypeOK, CallLabels, FlightInv, ServedModeSuffices
<1> QED BY <1>2, <1>3

LEMMA LoadProgramKept ==
    ASSUME IInv, NEW c \in Calls, loadProgram(c)
    PROVE  Kept
<1> USE RestOfIInv
<1> DEFINE k == callKey[c]
           m == callMode[c]
<1>0. k \in Keys /\ m \in Modes
  BY DEF RestTypeOK
<1>1. UNCHANGED <<order, cache, asked, quiet, capacity, ttl, source, now, callKey,
                  callMode, result, callPc>>
  BY DEF loadProgram, cacheVars, limitVars, envVars, requestVars
<1>2. PICK f \in Flights :
        /\ flight' = [flight EXCEPT ![k][m] = f]
        /\ \/ f.stage = "loaded" /\ f.value \in [mode : {m}, version : 0..MaxVersion]
           \/ f.stage = "over" /\ f.value = LoadError
  <2>1. [mode |-> m, version |-> source[k]] \in [mode : {m}, version : 0..MaxVersion]
    BY <1>0 DEF RestTypeOK
  <2>2. [mode |-> m, version |-> source[k]] \in Programs
    BY <1>0, <2>1 DEF Programs
  <2> DEFINE f1 == [stage |-> "loaded", value |-> [mode |-> m, version |-> source[k]]]
             f2 == [stage |-> "over", value |-> LoadError]
  <2>3. f1 \in Flights /\ f1.stage = "loaded" /\ f1.value = [mode |-> m, version |-> source[k]]
    BY <2>2 DEF Flights
  <2>4. f2 \in Flights /\ f2.stage = "over" /\ f2.value = LoadError
    BY DEF Flights
  <2>5. flight' = [flight EXCEPT ![k][m] = f1] \/ flight' = [flight EXCEPT ![k][m] = f2]
    BY DEF loadProgram
  <2> HIDE DEF f1, f2
  <2> QED BY <2>1, <2>3, <2>4, <2>5
<1>3. RestTypeOK'
  BY <1>0, <1>1, <1>2 DEF RestTypeOK
<1>4. f # NoFlight
  BY <1>2, SentinelAssumption
<1>5. FlightInv'
  BY <1>0, <1>1, <1>2, <1>4, SentinelAssumption DEF RestTypeOK, FlightInv
<1>6. ServedModeSuffices'
  BY <1>1 DEF ServedModeSuffices
<1> QED BY <1>1, <1>3, <1>5, <1>6 DEF Kept

LEMMA ModesAreNumbers == \A m \in Modes : m \in Int
BY WorkspaceAssumption DEF LoadModeSyntax, LoadModeTypes, LoadModeSSA

LEMMA InsertKept ==
    ASSUME IInv, NEW c \in Calls, Insert(c)
    PROVE  Kept
<1> USE RestOfIInv
<1> DEFINE k == callKey[c]
           m == callMode[c]
           prog == flight[k][m].value
           ans == IF Hit(k, m) THEN cache[k].prog ELSE prog
           f == [stage |-> "over", value |-> ans]
<1>0. k \in Keys /\ m \in Modes
  BY DEF RestTypeOK
<1>1. prog \in Programs /\ prog.mode = m
  <2>1. flight[k][m] # NoFlight /\ flight[k][m].stage = "loaded"
    BY DEF Insert, FlightInv
  <2>2. prog \in [mode : {m}, version : 0..MaxVersion]
    BY <1>0, <2>1 DEF FlightInv
  <2> QED BY <1>0, <2>2 DEF Programs
<1>2. m \in Int
  BY <1>0, ModesAreNumbers
<1>3. ans \in Programs /\ ans.mode >= m
  BY <1>0, <1>1, <1>2 DEF Hit, Cached, Entries
<1>4. f \in Flights /\ f # NoFlight /\ f.stage = "over" /\ f.value = ans
  BY <1>3, SentinelAssumption DEF Flights
<1>5. /\ FileResult(k, prog) /\ flight' = [flight EXCEPT ![k][m] = f]
      /\ UNCHANGED <<asked, quiet, capacity, ttl, source, now, callKey, callMode,
                     result, callPc>>
  BY DEF Insert, limitVars, envVars, requestVars
<1> HIDE DEF prog, ans, f
<1>6. ListInv(order', cache', now') /\ Len(order') <= capacity'
  BY <1>0, <1>1, <1>5, FileResultStep
<1>7. RestTypeOK'
  BY <1>0, <1>4, <1>5 DEF RestTypeOK
<1>8. FlightInv'
  BY <1>0, <1>3, <1>4, <1>5 DEF RestTypeOK, FlightInv
<1>9. ServedModeSuffices'
  BY <1>5 DEF ServedModeSuffices
<1> QED BY <1>6, <1>7, <1>8, <1>9 DEF Kept

LEMMA LandKept ==
    ASSUME IInv, NEW c \in Calls, Land(c)
    PROVE  Kept
<1> USE RestOfIInv
<1> DEFINE k == callKey[c]
           m == callMode[c]
           val == flight[k][m].value
<1>0. k \in Keys /\ m \in Modes
  BY DEF RestTypeOK
<1>1. flight[k][m] # NoFlight /\ flight[k][m].stage = "over" /\ flight[k][m] \in Flights
  BY <1>0 DEF Land, FlightInv, RestTypeOK
<1>2. /\ val \in Programs \cup {NoResult, LoadError}
      /\ val \in Programs => val.mode >= m
  BY <1>0, <1>1 DEF FlightInv, Flights
<1>3. /\ flight' = [flight EXCEPT ![k][m] = NoFlight]
      /\ callPc' = [d \in Calls |-> IF d \in OnFlight(c) THEN "returned" ELSE callPc[d]]
      /\ result' = [d \in Calls |-> IF d \in OnFlight(c) THEN val ELSE result[d]]
      /\ UNCHANGED <<order, cache, asked, quiet, capacity, ttl, source, now, callKey,
                     callMode>>
  BY DEF Land, cacheVars, limitVars, envVars, requestVars
<1> HIDE DEF val
<1>4. RestTypeOK'
  BY <1>0, <1>2, <1>3 DEF RestTypeOK, CallLabels
<1>5. FlightInv'
  <2>1. ASSUME NEW d \in Calls, callPc'[d] = "lead"
        PROVE  flight'[callKey'[d]][callMode'[d]] # NoFlight
    <3>1. d \notin OnFlight(c) /\ callPc[d] = "lead"
      BY <1>3, <2>1
    <3>2. ~(callKey[d] = k /\ callMode[d] = m)
      BY <3>1 DEF OnFlight
    <3>3. flight[callKey[d]][callMode[d]] # NoFlight
      BY <3>1 DEF FlightInv
    <3> QED BY <1>0, <1>3, <3>2, <3>3 DEF RestTypeOK
  <2>2. ASSUME NEW x \in Keys, NEW y \in Modes, flight'[x][y] # NoFlight
        PROVE  flight'[x][y] = flight[x][y]
    BY <1>0, <1>3, <2>2 DEF RestTypeOK
  <2> QED BY <2>1, <2>2 DEF FlightInv
<1>6. ServedModeSuffices'
  BY <1>0, <1>2, <1>3 DEF ServedModeSuffices, OnFlight, RestTypeOK
<1> QED BY <1>3, <1>4, <1>5, <1>6 DEF Kept

LEMMA ReloadKept ==
    ASSUME IInv, NEW c \in Calls, NEW k \in Keys, Reload(c, k)
    PROVE  Kept
<1> USE RestOfIInv
<1>1. /\ Remove(k) /\ callPc[c] = "idle"
      /\ callPc' = [callPc EXCEPT ![c] = "lookup"]
      /\ callKey' = [callKey EXCEPT ![c] = k]
      /\ callMode' = [callMode EXCEPT ![c] = LoadModeTypes]
      /\ asked' = [asked EXCEPT ![c] = source[k]]
      /\ UNCHANGED <<capacity, ttl, flight, source, now, result>>
  BY DEF Reload, limitVars, envVars
<1>2. quiet' \in [Calls -> BOOLEAN]
  <2>1. quiet' = [quiet EXCEPT ![c] = \A m \in Modes : flight[k][m] = NoFlight]
    BY DEF Reload
  <2> QED BY <2>1 DEF RestTypeOK
<1>3. ListInv(order', cache', now') /\ Len(order') <= capacity'
  <2>1. ListInv(order', cache', now) /\ Len(order') <= Len(order)
    BY <1>1, RemoveStep
  <2>2. Len(order') \in Nat /\ capacity \in Nat
    BY <2>1 DEF ListInv, RestTypeOK
  <2> QED BY <1>1, <2>1, <2>2
<1>4. RestTypeOK'
  BY <1>1, <1>2, WorkspaceAssumption DEF RestTypeOK, CallLabels
<1>5. FlightInv'
  BY <1>1 DEF FlightInv, RestTypeOK
<1>6. ServedModeSuffices'
  BY <1>1 DEF ServedModeSuffices, RestTypeOK
<1> QED BY <1>3, <1>4, <1>5, <1>6 DEF Kept

LEMMA ReturnKept ==
    ASSUME IInv, NEW c \in Calls, Return(c)
    PROVE  Kept
<1> USE RestOfIInv
<1>1. /\ callPc' = [callPc EXCEPT ![c] = "idle"]
      /\ result' = [result EXCEPT ![c] = NoResult]
      /\ asked' = [asked EXCEPT ![c] = 0]
      /\ quiet' = [quiet EXCEPT ![c] = TRUE]
      /\ UNCHANGED <<order, cache, capacity, ttl, flight, source, now, callKey, callMode>>
  BY DEF Return, cacheVars, limitVars, envVars
<1>2. RestTypeOK'
  BY <1>1, WorkspaceAssumption DEF RestTypeOK, CallLabels
<1> QED BY <1>1, <1>2 DEF Kept, FlightInv, ServedModeSuffices, RestTypeOK

(* The methods that change only the list, the map and the limits.          *)
LEMMA LimitsKept ==
    ASSUME IInv, UNCHANGED restOfCache,
           ListInv(order', cache', now), Len(order') <= capacity',
           capacity' \in Nat \ {0}, ttl' \in Nat
    PROVE  Kept
<1>1. UNCHANGED <<flight, source, now, callPc, callKey, callMode, asked, quiet, result>>
  BY DEF restOfCache, envVars, requestVars
<1> QED BY <1>1, RestOfIInv DEF Kept, RestTypeOK, FlightInv, ServedModeSuffices

LEMMA InvalidateKept ==
    ASSUME IInv, NEW k \in Keys, Invalidate(k)
    PROVE  Kept
<1>1. ListInv(order', cache', now) /\ Len(order') <= Len(order)
  BY RemoveStep DEF Invalidate
<1>2. UNCHANGED <<capacity, ttl, restOfCache>>
  BY DEF Invalidate, limitVars
<1>3. Len(order') \in Nat
  BY <1>1 DEF ListInv
<1> QED BY <1>1, <1>2, <1>3, RestOfIInv, LimitsKept DEF RestTypeOK

LEMMA ClearAllKept ==
    ASSUME IInv, ClearAll
    PROVE  Kept
<1>1. ListInv(order', cache', now) /\ Len(order') = 0
  BY DEF ClearAll, ListInv
<1>2. UNCHANGED <<capacity, ttl, restOfCache>>
  BY DEF ClearAll, limitVars
<1> QED BY <1>1, <1>2, RestOfIInv, LimitsKept DEF RestTypeOK

LEMMA SetCapacityKept ==
    ASSUME IInv, NEW n \in Capacities, SetCapacity(n)
    PROVE  Kept
<1> DEFINE cap == IF n < 1 THEN 1 ELSE n
<1>1. cap \in Nat \ {0}
  BY WorkspaceAssumption
<1>2. capacity' = cap /\ evictLocked(order, cache, cap) /\ UNCHANGED <<ttl, restOfCache>>
  BY DEF SetCapacity
<1> HIDE DEF cap
<1>3. ListInv(order', cache', now) /\ Len(order') <= cap
  BY <1>1, <1>2, RestOfIInv, EvictStep
<1> QED BY <1>1, <1>2, <1>3, RestOfIInv, LimitsKept DEF RestTypeOK

LEMMA SetTTLKept ==
    ASSUME IInv, NEW d \in TTLs, SetTTL(d)
    PROVE  Kept
<1>1. ttl' = d /\ UNCHANGED <<capacity, order, cache, restOfCache>> /\ d \in Nat
  BY WorkspaceAssumption DEF SetTTL, cacheVars
<1> QED BY <1>1, RestOfIInv, LimitsKept DEF RestTypeOK

LEMMA SweepKept ==
    ASSUME IInv, sweep
    PROVE  Kept
<1>1. PICK n \in 0..Len(order) : KeepFirst(order, cache, n)
  BY DEF sweep
<1>2. ListInv(order', cache', now) /\ Len(order') = n
  BY <1>1, RestOfIInv, KeepFirstStep
<1>3. UNCHANGED <<capacity, ttl, restOfCache>>
  BY DEF sweep, limitVars
<1> QED BY <1>2, <1>3, RestOfIInv, LimitsKept DEF RestTypeOK

LEMMA EditKept ==
    ASSUME IInv, NEW k \in Keys, Edit(k)
    PROVE  Kept
<1> USE RestOfIInv
<1>1. /\ source[k] < MaxVersion /\ source' = [source EXCEPT ![k] = @ + 1]
      /\ UNCHANGED <<order, cache, capacity, ttl, flight, now, callPc, callKey, callMode,
                     asked, quiet, result>>
  BY DEF Edit, cacheVars, limitVars, requestVars
<1>2. RestTypeOK'
  BY <1>1, WorkspaceAssumption DEF RestTypeOK
<1> QED BY <1>1, <1>2 DEF Kept, FlightInv, ServedModeSuffices

LEMMA TickKept ==
    ASSUME IInv, Tick
    PROVE  Kept
<1> USE RestOfIInv
<1>1. /\ now < MaxTime /\ now' = now + 1
      /\ UNCHANGED <<order, cache, capacity, ttl, flight, source, callPc, callKey, callMode,
                     asked, quiet, result>>
  BY DEF Tick, cacheVars, limitVars, requestVars
<1>2. RestTypeOK'
  BY <1>1, WorkspaceAssumption DEF RestTypeOK
<1>3. ListInv(order', cache', now')
  BY <1>1 DEF ListInv, Entries
<1> QED BY <1>1, <1>2, <1>3 DEF Kept, FlightInv, ServedModeSuffices

LEMMA NextIInv == IInv /\ [Next]_vars => IInv'
<1> SUFFICES ASSUME IInv, [Next]_vars PROVE IInv'
  OBVIOUS
<1>1. ASSUME NEW c \in Calls, NEW k \in Keys, NEW m \in Modes, getOrLoad(c, k, m)
      PROVE  IInv'
  BY <1>1, GetOrLoadKept, KeptIsIInv
<1>2. ASSUME NEW c \in Calls, NEW k \in Keys, Reload(c, k)
      PROVE  IInv'
  BY <1>2, ReloadKept, KeptIsIInv
<1>3. ASSUME NEW c \in Calls, CallStep(c)
      PROVE  IInv'
  <2> USE KeptIsIInv
  <2>1. CASE Do(c) BY <2>1, DoKept
  <2>2. CASE loadProgram(c) BY <2>2, LoadProgramKept
  <2>3. CASE Insert(c) BY <2>3, InsertKept
  <2>4. CASE Land(c) BY <2>4, LandKept
  <2>5. CASE ReloadLookup(c) BY <2>5, ReloadLookupKept
  <2>6. CASE Return(c) BY <2>6, ReturnKept
  <2> QED BY <1>3, <2>1, <2>2, <2>3, <2>4, <2>5, <2>6 DEF CallStep
<1>4. ASSUME NEW k \in Keys, Invalidate(k) \/ Edit(k)
      PROVE  IInv'
  BY <1>4, InvalidateKept, EditKept, KeptIsIInv
<1>5. CASE ClearAll
  BY <1>5, ClearAllKept, KeptIsIInv
<1>6. ASSUME NEW n \in Capacities, SetCapacity(n)
      PROVE  IInv'
  BY <1>6, SetCapacityKept, KeptIsIInv
<1>7. ASSUME NEW d \in TTLs, SetTTL(d)
      PROVE  IInv'
  BY <1>7, SetTTLKept, KeptIsIInv
<1>8. CASE sweep
  BY <1>8, SweepKept, KeptIsIInv
<1>9. CASE Tick
  BY <1>9, TickKept, KeptIsIInv
<1>10. CASE UNCHANGED vars
  BY <1>10 DEF vars, cacheVars, limitVars, envVars, requestVars, IInv, TypeOK, ListInv,
               WithinCapacity, FlightInv, ServedModeSuffices
<1> QED
  BY <1>1, <1>2, <1>3, <1>4, <1>5, <1>6, <1>7, <1>8, <1>9, <1>10 DEF Next

-----------------------------------------------------------------------------
LEMMA IInvAlways == Spec => []IInv
BY InitIInv, NextIInv, PTL DEF Spec

(* Every variable of the program cache keeps its type.                     *)
THEOREM TypeCorrect == Spec => []TypeOK
<1>1. IInv => TypeOK
  BY DEF IInv
<1> QED BY <1>1, IInvAlways, PTL

(* The list and the map of the cache agree, for any number of keys, calls, *)
(* flights and any capacity.                                               *)
THEOREM MapAndList == Spec => []MapMatchesList
<1>1. IInv => MapMatchesList
  BY DEF IInv, ListInv, MapMatchesList, Cached
<1> QED BY <1>1, IInvAlways, PTL

(* The cache never exceeds its capacity.                                   *)
THEOREM CapacityHolds == Spec => []WithinCapacity
<1>1. IInv => WithinCapacity
  BY DEF IInv
<1> QED BY <1>1, IInvAlways, PTL

(* The list stays sorted by access time: the comment in sweep is right.    *)
THEOREM ListIsSorted == Spec => []OrderedByAccess
<1>1. IInv => OrderedByAccess
  BY DEF IInv, ListInv, OrderedByAccess
<1> QED BY <1>1, IInvAlways, PTL

(* No caller is handed a program of a smaller mode than it asked for.      *)
THEOREM ModeSuffices == Spec => []ServedModeSuffices
<1>1. IInv => ServedModeSuffices
  BY DEF IInv
<1> QED BY <1>1, IInvAlways, PTL

(* A sweep that stops at the first element that has not expired leaves no  *)
(* expired element anywhere.                                               *)
THEOREM SweepLeavesNothing == Spec => SweepIsComplete
<1>1. ASSUME IInv, sweep, NEW k \in Keys, cache'[k] # NoEntry
      PROVE  ~Expired(k)
  <2>1. PICK n \in 0..Len(order) :
          /\ n > 0 => ~Expired(order[n])
          /\ KeepFirst(order, cache, n)
    BY <1>1 DEF sweep
  <2>2. /\ ListInv(order, cache, now) /\ now \in Nat /\ ttl \in Nat
        /\ cache \in [Keys -> Entries \cup {NoEntry}]
    BY <1>1, RestOfIInv DEF RestTypeOK
  <2>3. cache'[k] = cache[k] /\ ~\E i \in (n + 1)..Len(order) : order[i] = k
    BY <1>1, <2>1 DEF KeepFirst
  <2>4. PICK i \in DOMAIN order : order[i] = k
    BY <1>1, <2>2, <2>3 DEF ListInv
  <2>5. i \in 1..n /\ n \in DOMAIN order
    BY <2>2, <2>3, <2>4 DEF ListInv
  <2>6. cache[order[i]].lastAccess >= cache[order[n]].lastAccess
    <3>1. CASE i = n
      <4>1. order[n] \in Keys /\ cache[order[n]] # NoEntry
        BY <2>2, <2>5 DEF ListInv
      <4> QED BY <2>2, <3>1, <4>1 DEF Entries
    <3>2. CASE i < n
      BY <2>2, <2>5, <3>2 DEF ListInv
    <3> QED BY <2>5, <3>1, <3>2
  <2>7. cache[order[i]].lastAccess \in Nat /\ cache[order[n]].lastAccess \in Nat
    BY <2>2, <2>5 DEF ListInv, Entries
  <2> QED BY <2>1, <2>2, <2>4, <2>5, <2>6, <2>7 DEF Expired
<1>2. IInv /\ [Next]_vars =>
        [sweep => \A k \in Keys : cache'[k] # NoEntry => ~Expired(k)]_vars
  BY <1>1
<1> QED BY <1>2, IInvAlways, PTL DEF Spec, SweepIsComplete

-----------------------------------------------------------------------------
(* What a step does to the programs that are cached.  Only the filing of a *)
(* load's result brings in a program; every other step keeps a program or  *)
(* drops it.                                                               *)
NoNewPrograms ==
    \A k \in Keys :
        cache'[k] # NoEntry => Cached(k) /\ cache'[k].prog = cache[k].prog

LEMMA TouchKeepsProgram ==
    ASSUME IInv, NEW k \in Keys, Touch(k, cache[k].prog), Cached(k)
    PROVE  NoNewPrograms
<1>1. cache \in [Keys -> Entries \cup {NoEntry}]
  BY RestOfIInv
<1>2. cache' = [cache EXCEPT ![k] = [prog |-> cache[k].prog, lastAccess |-> now]]
  BY DEF Touch
<1> QED BY <1>1, <1>2 DEF NoNewPrograms, Cached

LEMMA LookupKeepsPrograms ==
    ASSUME IInv, NEW c \in Calls, NEW k \in Keys, NEW m \in Modes, Lookup(c, k, m)
    PROVE  /\ NoNewPrograms
           /\ callPc'[c] = "returned" => Cached(k) /\ result'[c] = cache[k].prog
<1>1. CASE Hit(k, m)
  BY <1>1, TouchKeepsProgram, RestOfIInv DEF Lookup, Hit, Answer, RestTypeOK
<1>2. CASE ~Hit(k, m)
  BY <1>2, RestOfIInv DEF Lookup, cacheVars, NoNewPrograms, Cached, RestTypeOK
<1> QED BY <1>1, <1>2

LEMMA RemoveKeepsPrograms ==
    ASSUME IInv, NEW k \in Keys, Remove(k)
    PROVE  NoNewPrograms /\ cache'[k] = NoEntry
<1>1. cache \in [Keys -> Entries \cup {NoEntry}]
  BY RestOfIInv
<1>2. CASE Cached(k)
  <2>1. cache' = [cache EXCEPT ![k] = NoEntry]
    BY <1>2 DEF Remove
  <2> QED BY <1>1, <2>1 DEF NoNewPrograms, Cached
<1>3. CASE ~Cached(k)
  BY <1>3 DEF Remove, cacheVars, NoNewPrograms, Cached
<1> QED BY <1>2, <1>3

LEMMA KeepFirstKeepsPrograms ==
    ASSUME NEW n, KeepFirst(order, cache, n)
    PROVE  NoNewPrograms
BY DEF KeepFirst, NoNewPrograms, Cached

(* Filing program g under k: it takes the place of a program only when     *)
(* that one is of a smaller mode.                                          *)
LEMMA FileResultPrograms ==
    ASSUME IInv, NEW k \in Keys, NEW g \in Programs, FileResult(k, g),
           NEW x \in Keys, cache'[x] # NoEntry
    PROVE  \/ Cached(x) /\ cache'[x].prog = cache[x].prog
           \/ /\ x = k /\ cache'[x].prog = g
              /\ Cached(x) => ~(cache[x].prog.mode >= g.mode)
<1>1. cache \in [Keys -> Entries \cup {NoEntry}]
  BY RestOfIInv
<1>2. CASE Cached(k)
  <2> DEFINE h == IF cache[k].prog.mode >= g.mode THEN cache[k].prog ELSE g
  <2>1. Touch(k, h)
    BY <1>2 DEF FileResult
  <2>2. cache' = [cache EXCEPT ![k] = [prog |-> h, lastAccess |-> now]]
    BY <2>1 DEF Touch
  <2>3. x # k => cache'[x] = cache[x]
    BY <1>1, <2>2
  <2>4. x = k => cache'[x].prog = h
    BY <1>1, <2>2
  <2> QED BY <1>2, <2>3, <2>4 DEF Cached
<1>3. CASE ~Cached(k)
  <2> DEFINE c2 == [cache EXCEPT ![k] = [prog |-> g, lastAccess |-> now]]
  <2>1. evictLocked(PushFront(order, k), c2, capacity)
    BY <1>3 DEF FileResult
  <2>2. cache'[x] = c2[x]
    BY <2>1 DEF evictLocked, KeepFirst
  <2>3. x # k => c2[x] = cache[x]
    BY <1>1
  <2>4. x = k => c2[x].prog = g
    BY <1>1
  <2> HIDE DEF c2
  <2> QED BY <1>3, <2>2, <2>3, <2>4 DEF Cached
<1> QED BY <1>2, <1>3

(* The program that Insert files is the one its flight loaded.             *)
LEMMA InsertFiles ==
    ASSUME IInv, NEW c \in Calls, Insert(c)
    PROVE  LET k == callKey[c]
               m == callMode[c]
               g == flight[k][m].value
               ans == IF Hit(k, m) THEN cache[k].prog ELSE g
           IN /\ k \in Keys /\ m \in Modes /\ flight[k][m] # NoFlight
              /\ g \in Programs /\ g.mode = m /\ FileResult(k, g)
              /\ flight' = [flight EXCEPT ![k][m] = [stage |-> "over", value |-> ans]]
<1> USE RestOfIInv
<1> DEFINE k == callKey[c]
           m == callMode[c]
<1>0. k \in Keys /\ m \in Modes
  BY DEF RestTypeOK
<1>1. flight[k][m] # NoFlight /\ flight[k][m].stage = "loaded"
  BY DEF Insert, FlightInv
<1>2. flight[k][m].value \in [mode : {m}, version : 0..MaxVersion]
  BY <1>0, <1>1 DEF FlightInv
<1>3. flight[k][m].value \in Programs /\ flight[k][m].value.mode = m
  BY <1>0, <1>2 DEF Programs
<1> QED BY <1>0, <1>1, <1>3 DEF Insert

-----------------------------------------------------------------------------
(* While a key stays cached its program is only ever upgraded, whichever   *)
(* flights of whichever modes land in whichever order.                     *)
THEOREM OnlyUpgraded == Spec => NeverDowngraded
<1> DEFINE Upgraded == \A k \in Keys : Cached(k) /\ cache'[k] # NoEntry =>
                            cache'[k].prog.mode >= cache[k].prog.mode
<1>1. ASSUME IInv, NoNewPrograms PROVE Upgraded
  <2> SUFFICES ASSUME NEW k \in Keys, Cached(k), cache'[k] # NoEntry
               PROVE  cache'[k].prog.mode >= cache[k].prog.mode
    OBVIOUS
  <2>1. cache'[k].prog = cache[k].prog
    BY <1>1 DEF NoNewPrograms
  <2>2. cache[k].prog.mode \in Modes
    BY <1>1, RestOfIInv DEF Cached, Entries, Programs
  <2> QED BY <2>1, <2>2, ModesAreNumbers
<1>2. ASSUME IInv, UNCHANGED cache PROVE NoNewPrograms
  BY <1>2 DEF NoNewPrograms, Cached
<1>3. ASSUME IInv, NEW c \in Calls, Insert(c) PROVE Upgraded
  <2> SUFFICES ASSUME NEW k \in Keys, Cached(k), cache'[k] # NoEntry
               PROVE  cache'[k].prog.mode >= cache[k].prog.mode
    OBVIOUS
  <2>1. cache[k].prog.mode \in Int
    BY <1>3, RestOfIInv, ModesAreNumbers DEF Cached, Entries, Programs
  <2>2. PICK g \in Programs :
          \/ cache'[k].prog = cache[k].prog
          \/ cache'[k].prog = g /\ ~(cache[k].prog.mode >= g.mode)
    BY <1>3, InsertFiles, FileResultPrograms
  <2>3. g.mode \in Int
    BY <2>2, ModesAreNumbers DEF Programs
  <2> QED BY <2>1, <2>2, <2>3
<1>4. ASSUME IInv, Next PROVE Upgraded
  <2> USE <1>4
  <2>1. ASSUME NEW c \in Calls, NEW k \in Keys, NEW m \in Modes, getOrLoad(c, k, m)
        PROVE  NoNewPrograms
    BY <2>1, LookupKeepsPrograms DEF getOrLoad
  <2>2. ASSUME NEW c \in Calls, NEW k \in Keys, Reload(c, k) PROVE NoNewPrograms
    BY <2>2, RemoveKeepsPrograms DEF Reload
  <2>3. ASSUME NEW c \in Calls, ReloadLookup(c) PROVE NoNewPrograms
    BY <2>3, LookupKeepsPrograms, RestOfIInv DEF ReloadLookup, RestTypeOK
  <2>4. ASSUME NEW c \in Calls, Do(c) \/ loadProgram(c) \/ Land(c) \/ Return(c)
        PROVE  NoNewPrograms
    BY <1>2, <2>4 DEF Do, loadProgram, Land, Return, cacheVars
  <2>5. ASSUME NEW k \in Keys, Invalidate(k) \/ Edit(k) PROVE NoNewPrograms
    BY <1>2, <2>5, RemoveKeepsPrograms DEF Invalidate, Edit, cacheVars
  <2>6. ASSUME ClearAll PROVE NoNewPrograms
    BY <2>6 DEF ClearAll, NoNewPrograms
  <2>7. ASSUME NEW n \in Capacities, SetCapacity(n) PROVE NoNewPrograms
    BY <2>7, KeepFirstKeepsPrograms DEF SetCapacity, evictLocked
  <2>8. ASSUME NEW d \in TTLs, SetTTL(d) PROVE NoNewPrograms
    BY <1>2, <2>8 DEF SetTTL, cacheVars
  <2>9. ASSUME sweep PROVE NoNewPrograms
    BY <2>9, KeepFirstKeepsPrograms DEF sweep
  <2>10. ASSUME Tick PROVE NoNewPrograms
    BY <1>2, <2>10 DEF Tick, cacheVars
  <2> HIDE DEF Upgraded
  <2> QED
    BY <1>1, <1>3, <2>1, <2>2, <2>3, <2>4, <2>5, <2>6, <2>7, <2>8, <2>9, <2>10
    DEF Next, CallStep
<1>5. IInv /\ [Next]_vars => [Upgraded]_vars
  BY <1>4
<1> QED BY <1>5, IInvAlways, PTL DEF Spec, NeverDowngraded

-----------------------------------------------------------------------------
(* Every program that cache ca and flights fl hold for k is of version v   *)
(* of its source, or of a later one.                                       *)
Fresh(ca, fl, k, v) ==
    /\ ca[k] # NoEntry => ca[k].prog.version >= v
    /\ \A m \in Modes :
        fl[k][m] # NoFlight /\ fl[k][m].value \in Programs =>
            fl[k][m].value.version >= v

(* What a reload that found no load under way relies on until it returns:  *)
(* from the moment it dropped the entry, whatever it can be handed is of   *)
(* the version it asked for or of a later one.                             *)
ReloadInv ==
    /\ \A c \in Calls :
        /\ callPc[c] = "idle" => asked[c] = 0
        /\ asked[c] <= source[callKey[c]]
        /\ quiet[c] /\ callPc[c] \in {"lookup", "do", "lead", "wait"} =>
                Fresh(cache, flight, callKey[c], asked[c])
    /\ QuietReloadIsFresh

LEMMA InitReloadInv == Init => ReloadInv
<1> SUFFICES ASSUME Init PROVE ReloadInv
  OBVIOUS
<1>1. \A c \in Calls : /\ callPc[c] = "idle" /\ asked[c] = 0
                       /\ callKey[c] \in Keys /\ source[callKey[c]] = 0
  BY WorkspaceAssumption DEF Init, NewWorkspace
<1> QED BY <1>1 DEF ReloadInv, QuietReloadIsFresh

LEMMA FreshKept ==
    ASSUME NEW k \in Keys, NEW v \in 0..MaxVersion, Fresh(cache, flight, k, v),
           NoNewPrograms
    PROVE  Fresh(cache', flight, k, v)
BY DEF Fresh, NoNewPrograms, Cached

(* Steps that leave every call where it is.                                *)
LEMMA CallsStand ==
    ASSUME IInv, ReloadInv,
           UNCHANGED <<callPc, callKey, asked, quiet, result>>,
           source' \in [Keys -> 0..MaxVersion],
           \A k \in Keys : source'[k] >= source[k],
           \A k \in Keys : \A v \in 0..MaxVersion :
                v <= source[k] /\ Fresh(cache, flight, k, v) => Fresh(cache', flight', k, v)
    PROVE  ReloadInv'
<1> USE RestOfIInv
<1>1. QuietReloadIsFresh'
  BY DEF ReloadInv, QuietReloadIsFresh
<1>2. ASSUME NEW c \in Calls
      PROVE  /\ callPc[c] = "idle" => asked[c] = 0
             /\ asked[c] <= source'[callKey[c]]
             /\ quiet[c] /\ callPc[c] \in {"lookup", "do", "lead", "wait"} =>
                    Fresh(cache', flight', callKey[c], asked[c])
  <2>1. callKey[c] \in Keys /\ asked[c] \in 0..MaxVersion /\ asked[c] <= source[callKey[c]]
    BY DEF RestTypeOK, ReloadInv
  <2>2. /\ source'[callKey[c]] >= source[callKey[c]] /\ source[callKey[c]] \in Int
        /\ source'[callKey[c]] \in Int
    BY <2>1 DEF RestTypeOK
  <2> QED BY <2>1, <2>2 DEF ReloadInv
<1> QED BY <1>1, <1>2 DEF ReloadInv

(* Steps of the world and of the methods that touch no flight.             *)
LEMMA NoFlightStep ==
    ASSUME IInv, ReloadInv, NoNewPrograms,
           UNCHANGED <<flight, callPc, callKey, asked, quiet, result>>,
           source' \in [Keys -> 0..MaxVersion],
           \A k \in Keys : source'[k] >= source[k]
    PROVE  ReloadInv'
BY FreshKept, CallsStand

LEMMA SameSource ==
    ASSUME IInv, UNCHANGED source
    PROVE  /\ source' \in [Keys -> 0..MaxVersion]
           /\ \A k \in Keys : source'[k] >= source[k]
BY RestOfIInv DEF RestTypeOK

LEMMA LoadProgramFresh ==
    ASSUME IInv, ReloadInv, NEW c \in Calls, loadProgram(c)
    PROVE  ReloadInv'
<1> USE RestOfIInv
<1> DEFINE k == callKey[c]
           m == callMode[c]
<1>0. k \in Keys /\ m \in Modes
  BY DEF RestTypeOK
<1>1. UNCHANGED <<cache, asked, quiet, source, callKey, result, callPc>>
  BY DEF loadProgram, cacheVars, envVars, requestVars
<1>2. PICK f : /\ flight' = [flight EXCEPT ![k][m] = f]
               /\ f.value \in Programs => f.value.version = source[k]
  <2> DEFINE f1 == [stage |-> "loaded", value |-> [mode |-> m, version |-> source[k]]]
             f2 == [stage |-> "over", value |-> LoadError]
  <2>1. f1.value.version = source[k] /\ f2.value \notin Programs
    BY SentinelAssumption
  <2>2. flight' = [flight EXCEPT ![k][m] = f1] \/ flight' = [flight EXCEPT ![k][m] = f2]
    BY DEF loadProgram
  <2> HIDE DEF f1, f2
  <2> QED BY <2>1, <2>2
<1>3. ASSUME NEW x \in Keys, NEW v \in 0..MaxVersion, v <= source[x],
             Fresh(cache, flight, x, v)
      PROVE  Fresh(cache', flight', x, v)
  <2>1. ASSUME NEW y \in Modes, flight'[x][y] # NoFlight, flight'[x][y].value \in Programs
        PROVE  flight'[x][y].value.version >= v
    <3>1. CASE x = k /\ y = m
      BY <1>0, <1>2, <1>3, <2>1, <3>1 DEF RestTypeOK
    <3>2. CASE ~(x = k /\ y = m)
      <4>1. flight'[x][y] = flight[x][y]
        BY <1>0, <1>2, <3>2 DEF RestTypeOK
      <4> QED BY <1>3, <2>1, <4>1 DEF Fresh
    <3> QED BY <3>1, <3>2
  <2> QED BY <1>1, <1>3, <2>1 DEF Fresh
<1> QED BY <1>1, <1>3, CallsStand, SameSource

LEMMA InsertFresh ==
    ASSUME IInv, ReloadInv, NEW c \in Calls, Insert(c)
    PROVE  ReloadInv'
<1> USE RestOfIInv
<1> DEFINE k == callKey[c]
           m == callMode[c]
           g == flight[k][m].value
           ans == IF Hit(k, m) THEN cache[k].prog ELSE g
           f == [stage |-> "over", value |-> ans]
<1>1. UNCHANGED <<asked, quiet, source, callKey, result, callPc>>
  BY DEF Insert, envVars, requestVars
<1>2. /\ k \in Keys /\ m \in Modes /\ flight[k][m] # NoFlight
      /\ g \in Programs /\ FileResult(k, g)
      /\ flight' = [flight EXCEPT ![k][m] = f]
  BY InsertFiles
<1>3. f.value = ans /\ (ans = g \/ (Cached(k) /\ ans = cache[k].prog))
  <2>1. CASE Hit(k, m)
    BY <2>1 DEF Hit
  <2>2. CASE ~Hit(k, m)
    BY <2>2
  <2> QED BY <2>1, <2>2
<1> HIDE DEF g, ans, f
<1>4. ASSUME NEW x \in Keys, NEW v \in 0..MaxVersion, Fresh(cache, flight, x, v)
      PROVE  Fresh(cache', flight', x, v)
  <2>1. x = k => g.version >= v
    BY <1>2, <1>4 DEF Fresh, g
  <2>2. Cached(x) => cache[x].prog.version >= v
    BY <1>4 DEF Fresh, Cached
  <2>3. cache'[x] # NoEntry => cache'[x].prog.version >= v
    <3> SUFFICES ASSUME cache'[x] # NoEntry PROVE cache'[x].prog.version >= v
      OBVIOUS
    <3>1. \/ Cached(x) /\ cache'[x].prog = cache[x].prog
          \/ x = k /\ cache'[x].prog = g
      BY <1>2, FileResultPrograms
    <3> QED BY <2>1, <2>2, <3>1
  <2>4. ASSUME NEW y \in Modes, flight'[x][y] # NoFlight, flight'[x][y].value \in Programs
        PROVE  flight'[x][y].value.version >= v
    <3>1. CASE x = k /\ y = m
      <4>1. flight'[x][y] = f
        BY <1>2, <3>1 DEF RestTypeOK
      <4> QED BY <1>3, <2>1, <2>2, <3>1, <4>1
    <3>2. CASE ~(x = k /\ y = m)
      <4>1. flight'[x][y] = flight[x][y]
        BY <1>2, <3>2 DEF RestTypeOK
      <4> QED BY <1>4, <2>4, <4>1 DEF Fresh
    <3> QED BY <3>1, <3>2
  <2> QED BY <2>3, <2>4 DEF Fresh
<1> QED BY <1>1, <1>4, CallsStand, SameSource

(* Landing hands the same programs out that the flight held.               *)
LEMMA LandFresh ==
    ASSUME IInv, ReloadInv, NEW c \in Calls, Land(c)
    PROVE  ReloadInv'
<1> USE RestOfIInv
<1> DEFINE k == callKey[c]
           m == callMode[c]
           val == flight[k][m].value
<1>0. k \in Keys /\ m \in Modes /\ flight[k][m] # NoFlight
  BY DEF RestTypeOK, Land, FlightInv
<1>1. /\ flight' = [flight EXCEPT ![k][m] = NoFlight]
      /\ callPc' = [d \in Calls |-> IF d \in OnFlight(c) THEN "returned" ELSE callPc[d]]
      /\ result' = [d \in Calls |-> IF d \in OnFlight(c) THEN val ELSE result[d]]
      /\ UNCHANGED <<cache, asked, quiet, source, callKey>>
  BY DEF Land, cacheVars, envVars, requestVars
<1>2. ASSUME NEW d \in Calls
      PROVE  /\ callPc'[d] = "idle" => asked[d] = 0
             /\ asked[d] <= source[callKey[d]]
             /\ quiet[d] /\ callPc'[d] \in {"lookup", "do", "lead", "wait"} =>
                    Fresh(cache, flight', callKey[d], asked[d])
             /\ callPc'[d] = "returned" /\ quiet[d] /\ result'[d] \in Programs =>
                    result'[d].version >= asked[d]
  <2>1. CASE d \in OnFlight(c)
    <3>1. /\ callPc[d] \in {"lead", "wait"} /\ callKey[d] = k
          /\ callPc'[d] = "returned" /\ result'[d] = val
      BY <1>1, <2>1 DEF OnFlight
    <3>2. quiet[d] => Fresh(cache, flight, k, asked[d])
      BY <3>1 DEF ReloadInv
    <3>3. quiet[d] /\ val \in Programs => val.version >= asked[d]
      BY <1>0, <3>2 DEF Fresh
    <3> HIDE DEF val
    <3> QED BY <3>1, <3>3 DEF ReloadInv
  <2>2. CASE d \notin OnFlight(c)
    <3>1. callPc'[d] = callPc[d] /\ result'[d] = result[d] /\ callKey[d] \in Keys
      BY <1>1, <2>2 DEF RestTypeOK
    <3>2. Fresh(cache, flight, callKey[d], asked[d]) =>
            Fresh(cache, flight', callKey[d], asked[d])
      <4>1. ASSUME NEW y \in Modes, flight'[callKey[d]][y] # NoFlight
            PROVE  flight'[callKey[d]][y] = flight[callKey[d]][y]
        BY <1>0, <1>1, <3>1, <4>1 DEF RestTypeOK
      <4> QED BY <4>1 DEF Fresh
    <3> QED BY <3>1, <3>2 DEF ReloadInv, QuietReloadIsFresh
  <2> QED BY <2>1, <2>2
<1> QED BY <1>1, <1>2 DEF ReloadInv, QuietReloadIsFresh

(* Steps of one call c alone: what they must give for c, and what they do  *)
(* to the others.                                                          *)
LEMMA OneCall ==
    ASSUME IInv, ReloadInv, NEW c \in Calls, NoNewPrograms,
           UNCHANGED <<flight, source>>,
           \A d \in Calls \ {c} :
              /\ callPc'[d] = callPc[d] /\ callKey'[d] = callKey[d]
              /\ asked'[d] = asked[d] /\ quiet'[d] = quiet[d] /\ result'[d] = result[d],
           callPc'[c] = "idle" => asked'[c] = 0,
           asked'[c] <= source[callKey'[c]],
           quiet'[c] /\ callPc'[c] \in {"lookup", "do", "lead", "wait"} =>
                Fresh(cache', flight, callKey'[c], asked'[c]),
           callPc'[c] = "returned" /\ quiet'[c] /\ result'[c] \in Programs =>
                result'[c].version >= asked'[c]
    PROVE  ReloadInv'
<1> USE RestOfIInv
<1>1. ASSUME NEW d \in Calls \ {c}
      PROVE  /\ callPc'[d] = "idle" => asked'[d] = 0
             /\ asked'[d] <= source[callKey'[d]]
             /\ quiet'[d] /\ callPc'[d] \in {"lookup", "do", "lead", "wait"} =>
                    Fresh(cache', flight, callKey'[d], asked'[d])
             /\ callPc'[d] = "returned" /\ quiet'[d] /\ result'[d] \in Programs =>
                    result'[d].version >= asked'[d]
  <2>1. callKey[d] \in Keys /\ asked[d] \in 0..MaxVersion
    BY DEF RestTypeOK
  <2>2. Fresh(cache, flight, callKey[d], asked[d]) =>
            Fresh(cache', flight, callKey[d], asked[d])
    BY <2>1, FreshKept
  <2> QED BY <2>2 DEF ReloadInv, QuietReloadIsFresh
<1> QED BY <1>1 DEF ReloadInv, QuietReloadIsFresh

(* A call whose version is not above any is fresh whatever it is given.    *)
LEMMA AnythingIsFresh ==
    ASSUME IInv, NEW k \in Keys, NoNewPrograms
    PROVE  Fresh(cache', flight, k, 0)
<1> USE RestOfIInv
<1>1. Cached(k) => cache[k].prog.version \in Nat
  BY WorkspaceAssumption DEF Cached, Entries, Programs
<1>2. \A p \in Programs : p.version >= 0
  BY WorkspaceAssumption DEF Programs
<1> QED BY <1>1, <1>2 DEF Fresh, NoNewPrograms

LEMMA GetOrLoadFresh ==
    ASSUME IInv, ReloadInv, NEW c \in Calls, NEW k \in Keys, NEW m \in Modes,
           getOrLoad(c, k, m)
    PROVE  ReloadInv'
<1> USE RestOfIInv
<1>1. Lookup(c, k, m) /\ callPc[c] = "idle"
  BY DEF getOrLoad
<1>2. /\ NoNewPrograms
      /\ \A d \in Calls \ {c} : callPc'[d] = callPc[d] /\ result'[d] = result[d]
      /\ callPc'[c] \in {"do", "returned"}
  BY <1>1, LookupKeepsPrograms, LookupStep
<1>3. callKey' = [callKey EXCEPT ![c] = k] /\ UNCHANGED <<asked, quiet, flight, source>>
  BY DEF getOrLoad, envVars
<1>4. asked[c] = 0 /\ callKey'[c] = k
  BY <1>1, <1>3 DEF ReloadInv, RestTypeOK
<1>5. Fresh(cache', flight, k, 0)
  BY <1>2, AnythingIsFresh
<1>6. 0 <= source[k]
  BY DEF RestTypeOK
<1>7. \A p \in Programs : p.version >= 0
  BY WorkspaceAssumption DEF Programs
<1> QED BY <1>2, <1>3, <1>4, <1>5, <1>6, <1>7, OneCall DEF RestTypeOK

(* The reload itself: it takes the entry out, and no flight of the key is  *)
(* under way if it counts itself quiet.                                    *)
LEMMA ReloadFresh ==
    ASSUME IInv, ReloadInv, NEW c \in Calls, NEW k \in Keys, Reload(c, k)
    PROVE  ReloadInv'
<1> USE RestOfIInv
<1>1. NoNewPrograms /\ cache'[k] = NoEntry
  BY RemoveKeepsPrograms DEF Reload
<1>2. /\ callPc' = [callPc EXCEPT ![c] = "lookup"]
      /\ callKey' = [callKey EXCEPT ![c] = k]
      /\ asked' = [asked EXCEPT ![c] = source[k]]
      /\ UNCHANGED <<flight, source, result>>
  BY DEF Reload, envVars
<1>3. \A d \in Calls \ {c} : quiet'[d] = quiet[d]
  BY DEF Reload, RestTypeOK
<1>4. quiet'[c] => \A m \in Modes : flight[k][m] = NoFlight
  BY DEF Reload, RestTypeOK
<1>5. quiet'[c] => Fresh(cache', flight, k, source[k])
  BY <1>1, <1>4 DEF Fresh
<1>6. source[k] <= source[k]
  BY DEF RestTypeOK
<1> QED BY <1>1, <1>2, <1>3, <1>5, <1>6, OneCall DEF RestTypeOK

LEMMA ReloadLookupFresh ==
    ASSUME IInv, ReloadInv, NEW c \in Calls, ReloadLookup(c)
    PROVE  ReloadInv'
<1> USE RestOfIInv
<1> DEFINE k == callKey[c]
<1>1. Lookup(c, k, callMode[c]) /\ callPc[c] = "lookup" /\ k \in Keys /\ callMode[c] \in Modes
  BY DEF ReloadLookup, RestTypeOK
<1>2. /\ NoNewPrograms
      /\ \A d \in Calls \ {c} : callPc'[d] = callPc[d] /\ result'[d] = result[d]
      /\ callPc'[c] \in {"do", "returned"}
      /\ callPc'[c] = "returned" => Cached(k) /\ result'[c] = cache[k].prog
  BY <1>1, LookupKeepsPrograms, LookupStep
<1>3. UNCHANGED <<asked, quiet, flight, source, callKey>>
  BY DEF ReloadLookup, envVars, requestVars
<1>4. quiet[c] => Fresh(cache, flight, k, asked[c])
  BY <1>1 DEF ReloadInv
<1>5. quiet[c] => Fresh(cache', flight, k, asked[c])
  BY <1>1, <1>2, <1>4, FreshKept DEF RestTypeOK
<1>6. quiet[c] /\ Cached(k) => cache[k].prog.version >= asked[c]
  BY <1>4 DEF Fresh, Cached
<1>7. asked[c] <= source[k]
  BY DEF ReloadInv
<1> QED BY <1>2, <1>3, <1>5, <1>6, <1>7, OneCall

LEMMA DoFresh ==
    ASSUME IInv, ReloadInv, NEW c \in Calls, Do(c)
    PROVE  ReloadInv'
<1> USE RestOfIInv
<1> DEFINE k == callKey[c]
           m == callMode[c]
           new == [stage |-> "loading", value |-> NoResult]
<1>0. k \in Keys /\ m \in Modes /\ callPc[c] = "do" /\ new.value \notin Programs
  BY SentinelAssumption DEF Do, RestTypeOK
<1>1. UNCHANGED <<cache, asked, quiet, source, callKey, result>>
  BY DEF Do, cacheVars, envVars, requestVars
<1>2. /\ callPc'[c] \in {"lead", "wait"} /\ \A d \in Calls \ {c} : callPc'[d] = callPc[d]
      /\ flight' = flight \/ flight' = [flight EXCEPT ![k][m] = new]
  BY DEF Do, RestTypeOK
<1> HIDE DEF new
<1>3. ASSUME NEW x \in Keys, NEW v, Fresh(cache, flight, x, v)
      PROVE  Fresh(cache, flight', x, v)
  <2>1. ASSUME NEW y \in Modes, flight'[x][y] # NoFlight, flight'[x][y].value \in Programs
        PROVE  flight'[x][y] = flight[x][y]
    <3>1. CASE x = k /\ y = m
      <4>1. flight'[x][y] # new
        BY <1>0, <2>1
      <4> QED BY <1>0, <1>2, <3>1, <4>1 DEF RestTypeOK
    <3>2. CASE ~(x = k /\ y = m)
      BY <1>0, <1>2, <3>2 DEF RestTypeOK
    <3> QED BY <3>1, <3>2
  <2> QED BY <1>3, <2>1 DEF Fresh
<1>4. ASSUME NEW d \in Calls
      PROVE  /\ callPc'[d] = "idle" => asked[d] = 0
             /\ asked[d] <= source[callKey[d]]
             /\ quiet[d] /\ callPc'[d] \in {"lookup", "do", "lead", "wait"} =>
                    Fresh(cache, flight', callKey[d], asked[d])
             /\ callPc'[d] = "returned" /\ quiet[d] /\ result[d] \in Programs =>
                    result[d].version >= asked[d]
  <2>1. callKey[d] \in Keys
    BY DEF RestTypeOK
  <2>2. CASE d = c
    BY <1>0, <1>2, <1>3, <2>1, <2>2 DEF ReloadInv
  <2>3. CASE d # c
    BY <1>2, <1>3, <2>1, <2>3 DEF ReloadInv, QuietReloadIsFresh
  <2> QED BY <2>2, <2>3
<1> QED BY <1>1, <1>4 DEF ReloadInv, QuietReloadIsFresh

LEMMA ReturnFresh ==
    ASSUME IInv, ReloadInv, NEW c \in Calls, Return(c)
    PROVE  ReloadInv'
<1> USE RestOfIInv
<1>1. /\ callPc' = [callPc EXCEPT ![c] = "idle"]
      /\ result' = [result EXCEPT ![c] = NoResult]
      /\ asked' = [asked EXCEPT ![c] = 0]
      /\ quiet' = [quiet EXCEPT ![c] = TRUE]
      /\ UNCHANGED <<cache, flight, source, callKey>>
  BY DEF Return, cacheVars, envVars
<1>2. NoNewPrograms /\ callKey[c] \in Keys /\ 0 <= source[callKey[c]]
  BY <1>1 DEF NoNewPrograms, Cached, RestTypeOK
<1> QED BY <1>1, <1>2, OneCall DEF RestTypeOK

LEMMA EditFresh ==
    ASSUME IInv, ReloadInv, NEW k \in Keys, Edit(k)
    PROVE  ReloadInv'
<1> USE RestOfIInv
<1>1. UNCHANGED <<cache, flight, callPc, callKey, asked, quiet, result>>
  BY DEF Edit, cacheVars, requestVars
<1>2. /\ source' \in [Keys -> 0..MaxVersion]
      /\ \A x \in Keys : source'[x] >= source[x]
  BY WorkspaceAssumption DEF Edit, RestTypeOK
<1>3. NoNewPrograms
  BY <1>1 DEF NoNewPrograms, Cached
<1> QED BY <1>1, <1>2, <1>3, NoFlightStep

LEMMA NextReloadInv == IInv /\ ReloadInv /\ [Next]_vars => ReloadInv'
<1> SUFFICES ASSUME IInv, ReloadInv, [Next]_vars PROVE ReloadInv'
  OBVIOUS
<1>1. ASSUME NEW c \in Calls, NEW k \in Keys, NEW m \in Modes, getOrLoad(c, k, m)
      PROVE  ReloadInv'
  BY <1>1, GetOrLoadFresh
<1>2. ASSUME NEW c \in Calls, NEW k \in Keys, Reload(c, k) PROVE ReloadInv'
  BY <1>2, ReloadFresh
<1>3. ASSUME NEW c \in Calls, CallStep(c) PROVE ReloadInv'
  BY <1>3, DoFresh, LoadProgramFresh, InsertFresh, LandFresh, ReloadLookupFresh, ReturnFresh
  DEF CallStep
<1>4. ASSUME NoNewPrograms, UNCHANGED restOfCache PROVE ReloadInv'
  BY <1>4, NoFlightStep, SameSource DEF restOfCache, envVars, requestVars
<1>5. ASSUME NEW k \in Keys, Invalidate(k) \/ Edit(k) PROVE ReloadInv'
  BY <1>4, <1>5, RemoveKeepsPrograms, EditFresh DEF Invalidate
<1>6. CASE ClearAll
  BY <1>4, <1>6 DEF ClearAll, NoNewPrograms
<1>7. ASSUME NEW n \in Capacities, SetCapacity(n) PROVE ReloadInv'
  BY <1>4, <1>7, KeepFirstKeepsPrograms DEF SetCapacity, evictLocked
<1>8. ASSUME NEW d \in TTLs, SetTTL(d) PROVE ReloadInv'
  BY <1>4, <1>8 DEF SetTTL, cacheVars, NoNewPrograms, Cached
<1>9. CASE sweep
  BY <1>4, <1>9, KeepFirstKeepsPrograms DEF sweep
<1>10. CASE Tick \/ UNCHANGED vars
  <2>1. UNCHANGED <<cache, flight, callPc, callKey, asked, quiet, result, source>>
    BY <1>10 DEF Tick, vars, cacheVars, envVars, requestVars
  <2>2. NoNewPrograms
    BY <2>1 DEF NoNewPrograms, Cached
  <2> QED BY <2>1, <2>2, NoFlightStep, SameSource
<1> QED
  BY <1>1, <1>2, <1>3, <1>5, <1>6, <1>7, <1>8, <1>9, <1>10 DEF Next

(* A reload that found no load of its key under way returns the source as  *)
(* it was when it was asked for, or later: no flight that was started      *)
(* before it, and no entry filed before it, can be what it returns.        *)
THEOREM QuietReload == Spec => []QuietReloadIsFresh
<1>1. ReloadInv => QuietReloadIsFresh
  BY DEF ReloadInv
<1> QED BY <1>1, InitReloadInv, NextReloadInv, IInvAlways, PTL DEF Spec
=============================================================================
