--------------------------- MODULE Answers_proof ---------------------------
(***************************************************************************)
(* What the answers of list tools add up to.  A client that follows chunks *)
(* or pages receives the whole list: proved for all lists, configured      *)
(* defaults and options of the calls, and any number of edits between the  *)
(* calls.  What a listing answers from the shared tables has everything of *)
(* the program the call was served: proved for every set of packages,      *)
(* patterns and calls, and any number of edits and evictions.              *)
(***************************************************************************)
EXTENDS Streaming, Listings, SequenceTheorems, TLAPS

USE MaxChunkSizeAssumption

-----------------------------------------------------------------------------
(* Lists and their windows.                                                *)

LEMMA DatasetIsSeq == ASSUME NEW d \in Datasets PROVE d \in Seq(Nat) /\ Len(d) \in Nat
BY DatasetsAssumption, LenProperties

LEMMA PartOfSeq ==
    ASSUME NEW s \in Seq(Nat), NEW i \in 0..Len(s), NEW j \in i..Len(s)
    PROVE  /\ SubSeq(s, i + 1, j) \in Seq(Nat)
           /\ Len(SubSeq(s, i + 1, j)) = j - i
           /\ \A k \in 1..(j - i) : SubSeq(s, i + 1, j)[k] = s[i + k]
<1>1. Len(s) \in Nat
  BY LenProperties
<1>2. i + 1 \in Int /\ j \in Int /\ \A k \in (i + 1)..j : k \in 1..Len(s)
  BY <1>1
<1>3. \A k \in (i + 1)..j : s[k] \in Nat
  BY <1>2, ElementOfSeq
<1>4. /\ SubSeq(s, i + 1, j) \in Seq(Nat)
      /\ Len(SubSeq(s, i + 1, j)) = IF i + 1 <= j THEN j - (i + 1) + 1 ELSE 0
      /\ \A k \in 1..(j - (i + 1) + 1) : SubSeq(s, i + 1, j)[k] = s[(i + 1) + k - 1]
  BY <1>2, <1>3, SubSeqProperties
<1> QED BY <1>1, <1>4

(* A prefix and the window behind it are a longer prefix.                  *)
LEMMA PrefixGrows ==
    ASSUME NEW s \in Seq(Nat), NEW i \in 0..Len(s), NEW j \in i..Len(s)
    PROVE  SubSeq(s, 1, i) \o SubSeq(s, i + 1, j) = SubSeq(s, 1, j)
<1>1. Len(s) \in Nat
  BY LenProperties
<1>2. 1 \in 1..(Len(s) + 1) /\ i \in (1 - 1)..Len(s)
  BY <1>1
<1> QED BY <1>2, ConcatAdjacentSubSeq

LEMMA PrefixOfPrefix ==
    ASSUME NEW s \in Seq(Nat), NEW i \in 0..Len(s), NEW j \in 0..i
    PROVE  SubSeq(SubSeq(s, 1, i), 1, j) = SubSeq(s, 1, j)
<1>1. Len(s) \in Nat
  BY LenProperties
<1>2. CASE j = 0
  BY <1>2, SubSeqEmpty
<1>3. CASE j > 0
  <2>1. i \in 1..Len(s) /\ 1 \in 1..Len(s) /\ 1 \in 1..(i - 1 + 1) /\ j \in 1..(i - 1 + 1)
    BY <1>1, <1>3
  <2>2. SubSeq(SubSeq(s, 1, i), 1, j) = SubSeq(s, 1 + 1 - 1, 1 + j - 1)
    BY <2>1, SubSeqOfSubSeq
  <2> QED BY <2>2
<1> QED BY <1>2, <1>3

(* max_items leaves a prefix of the list.                                  *)
LEMMA AddressableIsPrefix ==
    ASSUME NEW s \in Seq(Nat), NEW m \in Nat
    PROVE  /\ Addressable(s, m) \in Seq(Nat)
           /\ Len(Addressable(s, m)) \in 0..Len(s)
           /\ Addressable(s, m) = SubSeq(s, 1, Len(Addressable(s, m)))
<1>1. Len(s) \in Nat
  BY LenProperties
<1>2. CASE m > 0 /\ Len(s) > m
  <2>1. 0 \in 0..Len(s) /\ m \in 0..Len(s)
    BY <1>1, <1>2
  <2>2. SubSeq(s, 0 + 1, m) \in Seq(Nat) /\ Len(SubSeq(s, 0 + 1, m)) = m - 0
    BY <2>1, PartOfSeq
  <2>3. SubSeq(s, 1, m) \in Seq(Nat) /\ Len(SubSeq(s, 1, m)) = m
    BY <2>2
  <2> QED BY <1>2, <2>1, <2>3 DEF Addressable
<1>3. CASE ~(m > 0 /\ Len(s) > m)
  BY <1>1, <1>3, SubSeqFull DEF Addressable
<1> QED BY <1>2, <1>3

(* What the tool hands to the window or the stream is the list, or the     *)
(* beginning of it that max_items leaves.                                  *)
LEMMA ListedIsPrefix ==
    ASSUME NEW opts, opts.maxItems \in Nat, dataset \in Seq(Nat)
    PROVE  /\ Listed(opts) \in Seq(Nat)
           /\ Len(Listed(opts)) \in 0..Len(dataset)
           /\ Listed(opts) = SubSeq(dataset, 1, Len(Listed(opts)))
<1>1. Len(dataset) \in Nat
  BY LenProperties
<1>2. CASE lister = "window"
  BY <1>1, <1>2, SubSeqFull DEF Listed
<1>3. CASE lister # "window"
  <2>1. Listed(opts) = Addressable(dataset, opts.maxItems)
    BY <1>3 DEF Listed
  <2> QED BY <2>1, AddressableIsPrefix
<1> QED BY <1>2, <1>3

(* The options of a call are filled in with numbers.                       *)
LEMMA OptionsAreNumbers ==
    ASSUME NEW o \in Outputs, NEW l \in Nat, NEW f \in Nat, NEW m \in Nat, NEW c \in Int
    PROVE  LET opts == queryOptionsWithConfig(o,
                            [limit |-> l, offset |-> f, maxItems |-> m, chunkSize |-> c])
           IN  /\ opts.limit \in Nat /\ opts.offset \in Nat
               /\ opts.maxItems \in Nat /\ opts.chunkSize \in Int
               /\ l # 0 => opts.limit = l
               /\ opts.offset = IF f = 0 THEN o.offset ELSE f
               /\ opts.maxItems = IF m = 0 THEN o.maxItems ELSE m
<1>1. o \in [limit : Nat, offset : Nat, maxItems : Nat, chunkSize : Nat]
  BY OutputsAssumption
<1> QED BY <1>1 DEF queryOptionsWithConfig

-----------------------------------------------------------------------------
(* The answers.                                                            *)

(* A call that does not stream gets a window from the offset, without      *)
(* negative options; it is empty only behind the end of the list.          *)
LEMMA WindowIsPart ==
    ASSUME NEW s \in Seq(Nat), NEW opts,
           opts.limit \in Nat, opts.offset \in Nat, opts.maxItems \in Nat
    PROVE  LET w == applyQueryWindow(s, opts)
           IN  /\ w.total = Len(s)
               /\ \E i \in 0..Len(s) : \E j \in i..Len(s) :
                    /\ i = AtMost(opts.offset, Len(s))
                    /\ i < Len(s) => i < j
                    /\ w.chunk = SubSeq(s, i + 1, j)
<1> DEFINE w == applyQueryWindow(s, opts)
           n == Len(s)
           o == normalizeQueryOptions(opts)
           i == AtMost(opts.offset, n)
           a == IF opts.maxItems > 0 THEN AtMost(n, i + opts.maxItems) ELSE n
           j == IF opts.limit > 0 THEN AtMost(a, i + opts.limit) ELSE a
<1>1. n \in Nat
  BY LenProperties
<1>2. o.offset = opts.offset /\ o.maxItems = opts.maxItems /\ o.limit = opts.limit
  BY DEF normalizeQueryOptions, NotNegative
<1>3. i \in 0..n
  BY <1>1 DEF AtMost
<1>4. a \in i..n /\ (i < n => i < a)
  BY <1>1, <1>3 DEF AtMost
<1>5. j \in i..n /\ (i < n => i < j)
  BY <1>1, <1>3, <1>4 DEF AtMost
<1>6. w.total = n /\ w.chunk = SubSeq(s, i + 1, j)
  BY <1>2 DEF applyQueryWindow
<1> QED BY <1>3, <1>5, <1>6

(* Where a chunk begins, and what an answer with a chunk from there is: it *)
(* has at least one item when one is left.                                 *)
Start(s, c) == IF c = NoCursor THEN 0 ELSE AtMost(c.offset, Len(s))

ChunkFrom(w, s, i) ==
    /\ i \in 0..Len(s)
    /\ w.total = Len(s)
    /\ \E j \in i..Len(s) :
        /\ i < Len(s) => i < j
        /\ w.chunk = SubSeq(s, i + 1, j)
        /\ w.hasMore = (j < Len(s))
        /\ w.next = IF j < Len(s)
                    THEN [offset |-> j, total |-> Len(s),
                          fingerprint |-> streamFingerprint(s)]
                    ELSE NoCursor

LEMMA StreamWindowIsPart ==
    ASSUME NEW s \in Seq(Nat), NEW c, NEW k \in Int,
           c = NoCursor \/ c \in Cursors, clampChunkSize(k) > 0
    PROVE  ChunkFrom(applyStreamWindow(s, c, k), s, Start(s, c))
<1> DEFINE w == applyStreamWindow(s, c, k)
           n == Len(s)
           i == Start(s, c)
           j == AtMost(i + clampChunkSize(k), n)
<1>1. n \in Nat /\ clampChunkSize(k) \in Nat \ {0}
  BY LenProperties DEF clampChunkSize, AtMost
<1>2. i \in 0..n
  <2>1. CASE c = NoCursor
    BY <1>1, <2>1 DEF Start
  <2>2. CASE c # NoCursor
    <3>1. c.offset \in Nat
      BY <2>2 DEF Cursors
    <3> QED BY <1>1, <2>2, <3>1 DEF AtMost, Start
  <2> QED BY <2>1, <2>2
<1>3. j \in i..n /\ (i < n => i < j)
  BY <1>1, <1>2 DEF AtMost
<1>4. /\ w.total = n /\ w.chunk = SubSeq(s, i + 1, j) /\ w.hasMore = (j < n)
      /\ w.next = IF j < n THEN [offset |-> j, total |-> n,
                                 fingerprint |-> streamFingerprint(s)]
                  ELSE NoCursor
  BY DEF applyStreamWindow, Start
<1> HIDE DEF w, i, j
<1>5. ChunkFrom(w, s, i)
  BY <1>2, <1>3, <1>4 DEF ChunkFrom
<1> QED BY <1>5 DEF w, i

LEMMA FingerprintTypes ==
    ASSUME NEW s \in Seq(Nat)
    PROVE  /\ streamFingerprint(s) \in Seq(Nat)
           /\ Len(s) > 0 => streamFingerprint(s)[2] = s[1]
<1>1. Len(s) \in Nat
  BY LenProperties
<1>2. CASE s = <<>>
  <2>1. <<0>> \in Seq(Nat)
    OBVIOUS
  <2>2. Len(s) = 0
    BY <1>2, EmptySeq
  <2> QED BY <1>2, <2>1, <2>2 DEF streamFingerprint
<1>3. CASE s # <<>>
  <2>1. Len(s) \in Nat \ {0}
    BY <1>3, EmptySeq
  <2>2. s[1] \in Nat /\ s[Len(s)] \in Nat
    BY <2>1, ElementOfSeq
  <2>3. streamFingerprint(s) = <<Len(s), s[1], s[Len(s)]>>
    BY <1>3 DEF streamFingerprint
  <2> QED BY <1>1, <2>2, <2>3
<1> QED BY <1>2, <1>3

-----------------------------------------------------------------------------
(* The invariant.                                                          *)

(* A client that has not begun has nothing; one that has a cursor has only *)
(* had chunks, one that pages only pages, or first chunks instead.         *)
PhaseInv ==
    /\ phase = "idle" => /\ received = <<>> /\ mode = "none"
                         /\ cursor = NoCursor /\ total = 0
    /\ phase = "streaming" => mode = "chunks"
    /\ phase = "paging" => mode \in {"pages", "mixed"}

(* The cursor points behind the items the client has, which are fewer than *)
(* its total, and knows the first of them; while nothing changes, they are *)
(* the first items of the list.                                            *)
ChunksInv ==
    mode = "chunks" =>
        /\ phase = "streaming" => /\ cursor \in Cursors
                                  /\ cursor.offset = Len(received)
                                  /\ cursor.total = total
                                  /\ Len(received) \in 1..(total - 1)
                                  /\ received[1] = cursor.fingerprint[2]
        /\ phase = "done" => Len(received) = total
        /\ quiet => /\ Len(received) <= total /\ total <= Len(dataset)
                    /\ received = SubSeq(dataset, 1, Len(received))

(* While nothing changes, what a client has paged through is the beginning *)
(* of the list, unless a configured offset shifted its first page.         *)
PagesInv ==
    mode = "pages" /\ quiet /\ output.offset = 0 =>
        /\ Len(received) <= Len(Listed(output))
        /\ received = SubSeq(Listed(output), 1, Len(received))
        /\ phase = "done" => Len(received) = Len(Listed(output))

StreamInv == StreamTypeOK /\ PhaseInv /\ ChunksInv /\ PagesInv

LEMMA InitKeeps == InitStreaming => StreamInv
<1>1. <<>> \in Seq(Nat)
  OBVIOUS
<1> QED BY <1>1, MaxEditsAssumption
      DEF InitStreaming, StreamInv, StreamTypeOK, PhaseInv, ChunksInv, PagesInv

(* The client only ever appends what it is sent.                           *)
Lengthened(q, r, s, i, j) ==
    /\ q \in Seq(Nat)
    /\ Len(q) = Len(r) + (j - i)
    /\ Len(r) > 0 => q[1] = r[1]
    /\ Len(r) = 0 /\ j > i => q[1] = s[i + 1]

LEMMA Received ==
    ASSUME NEW s \in Seq(Nat), NEW r \in Seq(Nat),
           NEW i \in 0..Len(s), NEW j \in i..Len(s)
    PROVE  LET q == r \o SubSeq(s, i + 1, j)
           IN  /\ q \in Seq(Nat)
               /\ Len(q) = Len(r) + (j - i)
               /\ Len(r) > 0 => q[1] = r[1]
               /\ Len(r) = 0 /\ j > i => q[1] = s[i + 1]
<1>1. Len(s) \in Nat /\ Len(r) \in Nat
  BY LenProperties
<1>2. /\ SubSeq(s, i + 1, j) \in Seq(Nat)
      /\ Len(SubSeq(s, i + 1, j)) = j - i
      /\ \A k \in 1..(j - i) : SubSeq(s, i + 1, j)[k] = s[i + k]
  BY PartOfSeq
<1> DEFINE p == SubSeq(s, i + 1, j)
<1>3. p \in Seq(Nat) /\ Len(p) = j - i /\ \A k \in 1..(j - i) : p[k] = s[i + k]
  BY <1>2
<1> HIDE DEF p
<1>4. /\ r \o p \in Seq(Nat) /\ Len(r \o p) = Len(r) + Len(p)
      /\ \A k \in 1..Len(r) + Len(p) : (r \o p)[k] =
                IF k <= Len(r) THEN r[k] ELSE p[k - Len(r)]
  BY <1>3, ConcatProperties
<1>5. Len(r) > 0 => (r \o p)[1] = r[1]
  BY <1>1, <1>3, <1>4
<1>6. Len(r) = 0 /\ j > i => (r \o p)[1] = s[i + 1]
  BY <1>1, <1>3, <1>4
<1> QED BY <1>3, <1>4, <1>5, <1>6 DEF p

LEMMA ReceivedLengthens ==
    ASSUME NEW s \in Seq(Nat), NEW r \in Seq(Nat),
           NEW i \in 0..Len(s), NEW j \in i..Len(s)
    PROVE  Lengthened(r \o SubSeq(s, i + 1, j), r, s, i, j)
BY Received DEF Lengthened

(* An accepted chunk of a client that has begun with chunks, or begins.    *)
LEMMA ChunkKeeps ==
    ASSUME NEW k \in ChunkSizes, NEW m \in Caps, StreamInv, Stream(k, m), mode' = "chunks"
    PROVE  StreamInv'
<1> DEFINE opts == queryOptionsWithConfig(output,
                        [limit |-> 0, offset |-> 0, maxItems |-> m, chunkSize |-> k])
           addressable == Addressable(Listed(opts), opts.maxItems)
<1>1. /\ dataset \in Datasets /\ dataset \in Seq(Nat) /\ output \in Outputs
      /\ received \in Seq(Nat) /\ cursor \in Cursors \cup {NoCursor}
      /\ Len(dataset) \in Nat /\ Len(received) \in Nat /\ total \in Nat
  BY DatasetIsSeq, LenProperties DEF StreamInv, StreamTypeOK
<1>2. opts.maxItems \in Nat /\ opts.chunkSize \in Int
  <2>1. m \in Nat /\ k \in Int /\ 0 \in Nat
    BY CallsAssumption
  <2> QED BY <1>1, <2>1, OptionsAreNumbers
<1>3. clampChunkSize(opts.chunkSize) > 0
  BY DEF Stream, Streams
<1>b. PICK A : A = addressable
  OBVIOUS
<1> DEFINE n == Len(A)
           w == applyStreamWindow(A, cursor, opts.chunkSize)
           i == Start(A, cursor)
<1>4. /\ phase \in {"idle", "streaming"}
      /\ Accepts(cursor, A)
      /\ received' = received \o w.chunk /\ total' = w.total /\ cursor' = w.next
      /\ phase' = IF w.hasMore THEN "streaming" ELSE "done"
      /\ quiet' = (phase = "idle" \/ quiet)
      /\ UNCHANGED <<lister, dataset, output, edits>>
  BY <1>3, <1>b DEF Stream, Streams, Rejected, streamOrWindow, Begins
<1> HIDE DEF opts
<1>5. A \in Seq(Nat) /\ n \in 0..Len(dataset) /\ A = SubSeq(dataset, 1, n)
  <2>1. /\ Listed(opts) \in Seq(Nat) /\ Len(Listed(opts)) \in 0..Len(dataset)
        /\ Listed(opts) = SubSeq(dataset, 1, Len(Listed(opts)))
    BY <1>1, <1>2, ListedIsPrefix
  <2>2. A \in Seq(Nat) /\ n \in 0..Len(Listed(opts)) /\ A = SubSeq(Listed(opts), 1, n)
    BY <1>2, <1>b, <2>1, AddressableIsPrefix
  <2>3. SubSeq(SubSeq(dataset, 1, Len(Listed(opts))), 1, n) = SubSeq(dataset, 1, n)
    BY <1>1, <2>1, <2>2, PrefixOfPrefix
  <2> QED BY <1>1, <2>1, <2>2, <2>3
<1>c. /\ A \in Seq(Nat) /\ opts.chunkSize \in Int
      /\ cursor = NoCursor \/ cursor \in Cursors
  BY <1>1, <1>2, <1>5
<1>a. ChunkFrom(w, A, i)
  BY <1>3, <1>c, StreamWindowIsPart
<1>6. PICK j \in i..n : /\ i < n => i < j
                        /\ w.chunk = SubSeq(A, i + 1, j)
                        /\ w.hasMore = (j < n)
                        /\ w.next = IF j < n
                                    THEN [offset |-> j, total |-> n,
                                          fingerprint |-> streamFingerprint(A)]
                                    ELSE NoCursor
  BY <1>a DEF ChunkFrom
<1>7. streamFingerprint(A) \in Seq(Nat) /\ (n > 0 => streamFingerprint(A)[2] = A[1])
  BY <1>5, FingerprintTypes
<1> DEFINE fp == streamFingerprint(A)
(* The window begins where the client is.                                  *)
<1>8. /\ i = Len(received)
      /\ phase = "streaming" => received[1] = fp[2] /\ i > 0 /\ n = total
      /\ phase = "streaming" => mode = "chunks"
      /\ phase = "idle" => received = <<>>
  <2>1. CASE phase = "idle"
    BY <2>1, EmptySeq DEF StreamInv, PhaseInv, Start
  <2>2. CASE phase = "streaming"
    <3>1. /\ cursor \in Cursors /\ cursor.offset = Len(received) /\ cursor.total = total
          /\ Len(received) \in 1..(total - 1) /\ received[1] = cursor.fingerprint[2]
          /\ mode = "chunks"
      BY <2>2 DEF StreamInv, PhaseInv, ChunksInv
    <3>2. cursor # NoCursor
      BY <3>1, NoCursorAssumption
    <3>3. cursor.fingerprint = fp /\ cursor.total = n
      BY <1>4, <3>2 DEF Accepts
    <3>4. AtMost(cursor.offset, n) = Len(received) /\ Len(received) > 0 /\ n = total
      BY <1>1, <3>1, <3>3 DEF AtMost
    <3>5. i = Len(received) /\ i > 0
      BY <3>2, <3>4 DEF Start
    <3>6. received[1] = fp[2]
      BY <3>1, <3>3
    <3> QED BY <2>2, <3>1, <3>4, <3>5, <3>6
  <2> QED BY <1>4, <2>1, <2>2
<1> HIDE DEF w, i, fp, n
<1>9. n \in Nat /\ i \in 0..n /\ j \in i..n
  BY <1>1, <1>5, <1>6, <1>a DEF ChunkFrom, n
<1>10. /\ received' \in Seq(Nat) /\ Len(received') = j
       /\ Len(received) > 0 => received'[1] = received[1]
       /\ Len(received) = 0 /\ j > i => received'[1] = A[i + 1]
  <2>1. received' = received \o SubSeq(A, i + 1, j)
    BY <1>4, <1>6
  <2>2. Len(A) = n
    BY DEF n
  <2>3. /\ received' \in Seq(Nat) /\ Len(received') = Len(received) + (j - i)
        /\ Len(received) > 0 => received'[1] = received[1]
        /\ Len(received) = 0 /\ j > i => received'[1] = A[i + 1]
    <3>1. i \in 0..Len(A) /\ j \in i..Len(A)
      BY <1>9, <2>2
    <3>2. A \in Seq(Nat) /\ received \in Seq(Nat)
      BY <1>1, <1>5
    <3>3. Lengthened(received \o SubSeq(A, i + 1, j), received, A, i, j)
      BY <3>1, <3>2, ReceivedLengthens
    <3> QED BY <2>1, <3>3 DEF Lengthened
  <2> QED BY <1>1, <1>8, <1>9, <2>3
<1>11. total' = n /\ phase' = IF j < n THEN "streaming" ELSE "done"
  BY <1>4, <1>6, <1>a DEF ChunkFrom, n
<1>12. j < n => /\ cursor' = [offset |-> j, total |-> n, fingerprint |-> fp]
                /\ cursor' \in Cursors /\ j > 0 /\ received'[1] = fp[2]
  <2>1. SUFFICES ASSUME j < n
                 PROVE  /\ cursor' = [offset |-> j, total |-> n, fingerprint |-> fp]
                        /\ cursor' \in Cursors /\ j > 0 /\ received'[1] = fp[2]
    OBVIOUS
  <2>2. cursor' = [offset |-> j, total |-> n, fingerprint |-> fp]
    BY <1>4, <1>6, <2>1 DEF fp
  <2>3. fp \in Seq(Nat) /\ fp[2] = A[1]
    BY <1>7, <1>9, <2>1 DEF fp
  <2>4. i < j
    BY <1>6, <1>9, <2>1
  <2>5. received'[1] = fp[2]
    <3>1. CASE Len(received) > 0
      <4>1. phase = "streaming"
        BY <1>4, <1>8, <3>1, EmptySeq
      <4> QED BY <1>8, <1>10, <3>1, <4>1
    <3>2. CASE Len(received) = 0
      BY <1>8, <1>9, <1>10, <2>3, <2>4, <3>2
    <3> QED BY <1>1, <3>1, <3>2
  <2> QED BY <1>9, <2>2, <2>3, <2>4, <2>5 DEF Cursors
<1>13. cursor' \in Cursors \cup {NoCursor}
  BY <1>4, <1>6, <1>12
<1>14. StreamTypeOK'
  BY <1>1, <1>4, <1>9, <1>10, <1>11, <1>13 DEF StreamInv, StreamTypeOK
<1>15. PhaseInv' /\ PagesInv'
  BY <1>11 DEF PhaseInv, PagesInv
<1>16. ASSUME quiet' PROVE /\ j <= n /\ n <= Len(dataset)
                           /\ received' = SubSeq(dataset, 1, j)
  <2>1. received = SubSeq(dataset, 1, i)
    <3>1. CASE phase = "idle"
      <4>1. i = 0 /\ received = <<>>
        BY <1>8, <3>1, EmptySeq
      <4> QED BY <4>1, SubSeqEmpty
    <3>2. CASE phase = "streaming"
      BY <1>4, <1>8, <1>16, <3>2 DEF StreamInv, ChunksInv
    <3> QED BY <1>4, <3>1, <3>2
  <2>2. SubSeq(A, 1, i) = SubSeq(dataset, 1, i)
    <3>1. n \in 0..Len(dataset) /\ i \in 0..n /\ A = SubSeq(dataset, 1, n)
      BY <1>5, <1>9
    <3> QED BY <1>1, <3>1, PrefixOfPrefix
  <2>3. SubSeq(A, 1, i) \o SubSeq(A, i + 1, j) = SubSeq(A, 1, j)
    <3>1. i \in 0..Len(A) /\ j \in i..Len(A)
      BY <1>9 DEF n
    <3> QED BY <1>5, <3>1, PrefixGrows
  <2>4. SubSeq(A, 1, j) = SubSeq(dataset, 1, j)
    <3>1. n \in 0..Len(dataset) /\ j \in 0..n /\ A = SubSeq(dataset, 1, n)
      BY <1>5, <1>9
    <3> QED BY <1>1, <3>1, PrefixOfPrefix
  <2>5. received' = SubSeq(dataset, 1, i) \o SubSeq(A, i + 1, j)
    BY <1>4, <1>6, <2>1
  <2>6. received' = SubSeq(dataset, 1, j)
    BY <2>2, <2>3, <2>4, <2>5
  <2> QED BY <1>1, <1>5, <1>9, <2>6
<1>17. phase' = "streaming" => /\ cursor' \in Cursors
                               /\ cursor'.offset = Len(received') /\ cursor'.total = total'
                               /\ Len(received') \in 1..(total' - 1)
                               /\ received'[1] = cursor'.fingerprint[2]
  BY <1>9, <1>10, <1>11, <1>12
<1>18. phase' = "done" => Len(received') = total'
  BY <1>9, <1>10, <1>11
<1>19. quiet' => /\ Len(received') <= total' /\ total' <= Len(dataset')
                 /\ received' = SubSeq(dataset', 1, Len(received'))
  BY <1>4, <1>10, <1>11, <1>16
<1>20. ChunksInv'
  BY <1>17, <1>18, <1>19 DEF ChunksInv
<1> QED BY <1>14, <1>15, <1>20 DEF StreamInv

(* The cursor of the call is not looked at, and the stream ends with a     *)
(* page.                                                                   *)
LEMMA MixedKeeps ==
    ASSUME NEW k \in ChunkSizes, NEW m \in Caps, StreamInv, Stream(k, m), mode' # "chunks"
    PROVE  StreamInv'
<1> DEFINE opts == queryOptionsWithConfig(output,
                        [limit |-> 0, offset |-> 0, maxItems |-> m, chunkSize |-> k])
           L == Listed(opts)
           w == applyQueryWindow(L, opts)
<1>1. /\ dataset \in Datasets /\ dataset \in Seq(Nat) /\ output \in Outputs
      /\ received \in Seq(Nat) /\ Len(dataset) \in Nat
      /\ phase \in {"idle", "streaming"} /\ quiet \in BOOLEAN
  BY DatasetIsSeq, LenProperties DEF StreamInv, StreamTypeOK, Stream
<1>2. opts.limit \in Nat /\ opts.offset \in Nat /\ opts.maxItems \in Nat
  <2>1. m \in Nat /\ k \in Int /\ 0 \in Nat
    BY CallsAssumption
  <2> QED BY <1>1, <2>1, OptionsAreNumbers
<1>3. ~Streams(opts)
  <2>1. mode \in {"none", "chunks"}
    BY <1>1 DEF StreamInv, PhaseInv
  <2> QED BY <2>1 DEF Stream
<1>4. /\ received' = received \o w.chunk /\ total' = w.total
      /\ cursor' = NoCursor /\ phase' = "done" /\ mode' = "mixed"
      /\ quiet' = (phase = "idle" \/ quiet) /\ UNCHANGED <<lister, dataset, output, edits>>
  BY <1>3 DEF Stream, streamOrWindow, Begins
<1> HIDE DEF opts
<1>a. L \in Seq(Nat) /\ Len(L) \in Nat
  BY <1>1, <1>2, ListedIsPrefix
<1> HIDE DEF L
<1>5. w.total = Len(L) /\ \E i \in 0..Len(L) : \E j \in i..Len(L) :
                                    w.chunk = SubSeq(L, i + 1, j)
  BY <1>a, <1>2, WindowIsPart
<1>6. received' \in Seq(Nat)
  <2>0. PICK i \in 0..Len(L) : \E j \in i..Len(L) :
                w.chunk = SubSeq(L, i + 1, j)
    BY <1>5
  <2>1. PICK j \in i..Len(L) : w.chunk = SubSeq(L, i + 1, j)
    BY <2>0
  <2> HIDE DEF w
  <2>2. received \o SubSeq(L, i + 1, j) \in Seq(Nat)
    BY <1>1, <1>a, Received
  <2> QED BY <1>4, <2>1, <2>2
<1> HIDE DEF w
<1> QED BY <1>1, <1>4, <1>5, <1>6, <1>a
      DEF StreamInv, StreamTypeOK, PhaseInv, ChunksInv, PagesInv

(* A page goes on where the client is, and ends behind the list only.  If  *)
(* a chunk size is configured it is a first chunk, of which nothing is     *)
(* claimed but its type.                                                   *)
LEMMA PageKeeps ==
    ASSUME NEW l \in Limits, StreamInv, Page(l)
    PROVE  StreamInv'
<1> DEFINE opts == queryOptionsWithConfig(output,
                        [limit |-> l, offset |-> Len(received),
                         maxItems |-> 0, chunkSize |-> 0])
           answer == streamOrWindow(Listed(opts), NoCursor, opts)
<1>1. /\ dataset \in Datasets /\ dataset \in Seq(Nat) /\ output \in Outputs
      /\ received \in Seq(Nat) /\ Len(dataset) \in Nat /\ Len(received) \in Nat
      /\ phase \in {"idle", "paging"} /\ quiet \in BOOLEAN /\ cursor \in Cursors \cup {NoCursor}
  BY DatasetIsSeq, LenProperties DEF StreamInv, StreamTypeOK, Page
<1>2. /\ opts.limit \in Nat /\ opts.offset \in Nat /\ opts.maxItems \in Nat
      /\ opts.chunkSize \in Int /\ opts.maxItems = output.maxItems
      /\ opts.offset = IF Len(received) = 0 THEN output.offset ELSE Len(received)
  <2>1. l \in Nat /\ 0 \in Nat /\ 0 \in Int /\ output \in Outputs /\ Len(received) \in Nat
    BY <1>1, CallsAssumption
  <2> QED BY <2>1, OptionsAreNumbers
<1>3. PICK L : L = Listed(opts)
  OBVIOUS
<1> DEFINE n == Len(L)
<1>4. /\ received' = received \o answer.chunk /\ total' = answer.total
      /\ phase' = IF answer.chunk = <<>> \/ Len(received') >= TotalBeforeTruncate(answer)
                  THEN "done" ELSE "paging"
      /\ mode' = IF Streams(opts) \/ mode = "mixed" THEN "mixed" ELSE "pages"
      /\ quiet' = (phase = "idle" \/ quiet)
      /\ UNCHANGED <<lister, dataset, output, edits, cursor>>
  BY DEF Page, Begins
<1>5. /\ L \in Seq(Nat) /\ n \in 0..Len(dataset) /\ n \in Nat
      /\ L = Listed(output) /\ Listed(output)' = Listed(output)
  <2>1. L = Listed(output) /\ Listed(output)' = Listed(output)
    BY <1>2, <1>3, <1>4 DEF Listed
  <2>2. L \in Seq(Nat) /\ n \in 0..Len(dataset)
    BY <1>1, <1>2, <1>3, ListedIsPrefix
  <2> QED BY <1>1, <2>1, <2>2
<1> HIDE DEF opts
<1>6. ASSUME ~Streams(opts)
      PROVE  /\ answer.total = n
             /\ \E i \in 0..n : \E j \in i..n :
                    /\ i = AtMost(opts.offset, n)
                    /\ i < n => i < j
                    /\ answer.chunk = SubSeq(L, i + 1, j)
  <2>1. /\ answer.chunk = applyQueryWindow(L, opts).chunk
        /\ answer.total = applyQueryWindow(L, opts).total
    BY <1>3, <1>6 DEF streamOrWindow
  <2> DEFINE w == applyQueryWindow(L, opts)
  <2>2. L \in Seq(Nat) /\ opts.limit \in Nat /\ opts.offset \in Nat /\ opts.maxItems \in Nat
    BY <1>2, <1>5
  <2>3. /\ w.total = Len(L)
        /\ \E i \in 0..Len(L) : \E j \in i..Len(L) :
                /\ i = AtMost(opts.offset, Len(L))
                /\ i < Len(L) => i < j
                /\ w.chunk = SubSeq(L, i + 1, j)
    BY <2>2, WindowIsPart
  <2> QED BY <2>1, <2>3
<1>7. answer.total \in Nat /\ received \o answer.chunk \in Seq(Nat)
  <2>1. CASE Streams(opts)
    <3> DEFINE B == Addressable(L, opts.maxItems)
    <3>1. B \in Seq(Nat) /\ Len(B) \in Nat
      BY <1>2, <1>5, AddressableIsPrefix
    <3>2. answer = applyStreamWindow(B, NoCursor, opts.chunkSize)
      BY <1>3, <2>1 DEF streamOrWindow
    <3> HIDE DEF B, answer
    <3>3. ChunkFrom(answer, B, Start(B, NoCursor))
      BY <1>2, <2>1, <3>1, <3>2, StreamWindowIsPart DEF Streams
    <3>4. PICK j \in Start(B, NoCursor)..Len(B) : answer.chunk = SubSeq(B, Start(B, NoCursor) + 1, j)
      BY <3>3 DEF ChunkFrom
    <3>5. answer.total \in Nat /\ Start(B, NoCursor) \in 0..Len(B)
      BY <3>1, <3>3 DEF ChunkFrom
    <3>6. received \o SubSeq(B, Start(B, NoCursor) + 1, j) \in Seq(Nat)
      BY <1>1, <3>1, <3>5, Received
    <3> QED BY <3>4, <3>5, <3>6
  <2>2. CASE ~Streams(opts)
    <3>1. PICK i \in 0..n : \E j \in i..n : answer.chunk = SubSeq(L, i + 1, j)
      BY <1>6, <2>2
    <3>2. PICK j \in i..n : answer.chunk = SubSeq(L, i + 1, j)
      BY <3>1
    <3> HIDE DEF answer
    <3>3. received \o SubSeq(L, i + 1, j) \in Seq(Nat)
      BY <1>1, <1>5, Received
    <3> QED BY <1>5, <1>6, <2>2, <3>2, <3>3
  <2> QED BY <2>1, <2>2
<1> HIDE DEF answer
<1>8. StreamTypeOK' /\ PhaseInv' /\ ChunksInv'
  <2>1. phase' \in {"done", "paging"} /\ mode' \in {"pages", "mixed"} /\ quiet' \in BOOLEAN
    BY <1>1, <1>4
  <2>2. total' \in Nat /\ received' \in Seq(Nat)
    BY <1>4, <1>7
  <2> QED BY <1>1, <1>4, <2>1, <2>2 DEF StreamInv, StreamTypeOK, PhaseInv, ChunksInv
<1>9. PagesInv'
  <2>1. SUFFICES ASSUME quiet', output'.offset = 0, mode' = "pages"
                 PROVE  /\ Len(received') <= n
                        /\ received' = SubSeq(L, 1, Len(received'))
                        /\ phase' = "done" => Len(received') = n
    BY <1>5 DEF PagesInv
  <2>2. ~Streams(opts) /\ mode # "mixed"
    BY <1>4, <2>1
  <2>3. PICK i \in 0..n : \E j \in i..n : /\ i = AtMost(opts.offset, n)
                                          /\ i < n => i < j
                                          /\ answer.chunk = SubSeq(L, i + 1, j)
    BY <1>6, <2>2
  <2>4. PICK j \in i..n : /\ i = AtMost(opts.offset, n)
                          /\ i < n => i < j
                          /\ answer.chunk = SubSeq(L, i + 1, j)
    BY <2>3
  <2>5. Len(received) <= n /\ received = SubSeq(L, 1, Len(received))
    <3>1. CASE phase = "idle"
      <4>1. received = <<>> /\ Len(received) = 0
        BY <3>1, EmptySeq DEF StreamInv, PhaseInv
      <4> QED BY <1>5, <4>1, SubSeqEmpty
    <3>2. CASE phase = "paging"
      <4>1. mode = "pages" /\ quiet /\ output.offset = 0
        BY <1>4, <2>1, <2>2, <3>2 DEF StreamInv, PhaseInv
      <4> QED BY <1>5, <4>1 DEF StreamInv, PagesInv
    <3> QED BY <1>1, <3>1, <3>2
  <2>6. i = Len(received)
    <3>1. opts.offset = Len(received)
      BY <1>2, <1>4, <2>1
    <3>2. AtMost(Len(received), n) = Len(received)
      BY <1>1, <1>5, <2>5 DEF AtMost
    <3> QED BY <2>4, <3>1, <3>2
  <2>7. received' = SubSeq(L, 1, j) /\ Len(received') = j /\ j <= n
    <3>1. received' = SubSeq(L, 1, i) \o SubSeq(L, i + 1, j)
      BY <1>4, <2>4, <2>5, <2>6
    <3>2. SubSeq(L, 1, i) \o SubSeq(L, i + 1, j) = SubSeq(L, 1, j)
      BY <1>5, PrefixGrows
    <3>3. Len(received \o SubSeq(L, i + 1, j)) = Len(received) + (j - i)
      <4>1. /\ L \in Seq(Nat) /\ received \in Seq(Nat)
            /\ i \in 0..Len(L) /\ j \in i..Len(L)
        BY <1>1, <1>5
      <4> QED BY <4>1, Received
    <3>4. Len(received') = Len(received) + (j - i)
      BY <1>4, <2>4, <3>3
    <3>5. received' = SubSeq(L, 1, j)
      BY <3>1, <3>2
    <3>6. Len(received') = j /\ j <= n
      BY <1>1, <1>5, <2>6, <3>4
    <3> QED BY <3>5, <3>6
  <2>8. ASSUME phase' = "done" PROVE j = n
    <3>1. CASE answer.chunk = <<>>
      <4>1. Len(SubSeq(L, i + 1, j)) = j - i
        BY <1>5, PartOfSeq
      <4>2. j = i
        BY <1>5, <2>4, <3>1, <4>1, EmptySeq
      <4> QED BY <1>5, <2>4, <4>2
    <3>2. CASE Len(received') >= TotalBeforeTruncate(answer)
      <4>1. TotalBeforeTruncate(answer) >= n
        BY <1>1, <1>5, <1>6, <2>2 DEF TotalBeforeTruncate
      <4>2. TotalBeforeTruncate(answer) \in Nat
        BY <1>1, <1>7 DEF TotalBeforeTruncate
      <4> QED BY <1>5, <2>7, <3>2, <4>1, <4>2
    <3> QED BY <1>4, <2>8, <3>1, <3>2
  <2> QED BY <2>7, <2>8
<1> QED BY <1>8, <1>9 DEF StreamInv

LEMMA NextKeeps == StreamInv /\ [NextStreaming]_stvars => StreamInv'
<1>1. SUFFICES ASSUME StreamInv, [NextStreaming]_stvars PROVE StreamInv'
  OBVIOUS
<1>2. ASSUME NEW k \in ChunkSizes, NEW m \in Caps, Stream(k, m) PROVE StreamInv'
  BY <1>1, <1>2, ChunkKeeps, MixedKeeps
<1>3. ASSUME NEW k \in ChunkSizes, NEW m \in Caps, StreamFails(k, m) PROVE StreamInv'
  BY <1>1, <1>3 DEF StreamInv, StreamTypeOK, PhaseInv, ChunksInv, PagesInv, StreamFails
<1>4. ASSUME NEW l \in Limits, Page(l) PROVE StreamInv'
  BY <1>1, <1>4, PageKeeps
<1>5. ASSUME Restart PROVE StreamInv'
  <2>1. <<>> \in Seq(Nat)
    OBVIOUS
  <2> QED BY <1>1, <1>5, <2>1
        DEF StreamInv, StreamTypeOK, PhaseInv, ChunksInv, PagesInv, Restart
<1>6. ASSUME Edit \/ EditConfig PROVE StreamInv'
  <2>1. /\ edits' \in 0..MaxEdits /\ dataset' \in Datasets /\ output' \in Outputs
        /\ quiet' = FALSE /\ UNCHANGED <<lister, client>>
    BY <1>1, <1>6, MaxEditsAssumption DEF StreamInv, StreamTypeOK, Edit, EditConfig, client
  <2> QED BY <1>1, <2>1
        DEF StreamInv, StreamTypeOK, PhaseInv, ChunksInv, PagesInv, client
<1>7. ASSUME UNCHANGED stvars PROVE StreamInv'
  BY <1>1, <1>7 DEF StreamInv, StreamTypeOK, PhaseInv, ChunksInv, PagesInv, stvars, Listed
<1> QED BY <1>1, <1>2, <1>3, <1>4, <1>5, <1>6, <1>7 DEF NextStreaming

LEMMA Invariant == SpecStreaming => []StreamInv
BY InitKeeps, NextKeeps, PTL DEF SpecStreaming

-----------------------------------------------------------------------------
(* streamOrWindow: cursors, answers and options of all calls stay in their *)
(* types, also when configured defaults fill in what a call leaves out.    *)
THEOREM StreamTypes == SpecStreaming => []StreamTypeOK
<1>1. StreamInv => StreamTypeOK
  BY DEF StreamInv
<1> QED BY <1>1, Invariant, PTL

(* applyStreamWindow: the cursor a client holds always points behind the   *)
(* items it has received, and a stream that ends has delivered as many     *)
(* items as its total says, whatever was edited between the calls.         *)
THEOREM StreamsFit == SpecStreaming => []ChunksFit
<1>1. StreamInv => ChunksFit
  BY DEF StreamInv, ChunksInv, ChunksFit
<1> QED BY <1>1, Invariant, PTL

(* streamOrWindow: a client that reads chunks of any sizes while nothing   *)
(* changes receives the list up to the cap, one that pages receives all of *)
(* it, or what a configured cap leaves of the lists that are cut before    *)
(* they are paged; each item once and in order.                            *)
THEOREM ListIsRead == SpecStreaming => []ReadsWholeList
<1>1. StreamInv => ReadsWholeList
  <2>1. SUFFICES ASSUME StreamInv, phase = "done", quiet PROVE ReadsWholeList
    BY DEF ReadsWholeList
  <2>2. ASSUME mode = "chunks" PROVE received = SubSeq(dataset, 1, total)
    BY <2>1, <2>2 DEF StreamInv, ChunksInv
  <2>3. ASSUME mode = "pages", output.offset = 0 PROVE received = Listed(output)
    <3>1. received = SubSeq(Listed(output), 1, Len(Listed(output)))
      BY <2>1, <2>3 DEF StreamInv, PagesInv
    <3>2. output.maxItems \in Nat /\ dataset \in Seq(Nat)
      BY <2>1, DatasetIsSeq, OutputsAssumption DEF StreamInv, StreamTypeOK
    <3>3. Listed(output) \in Seq(Nat)
      BY <3>2, ListedIsPrefix
    <3> QED BY <3>1, <3>3, SubSeqFull
  <2> QED BY <2>2, <2>3 DEF ReadsWholeList
<1> QED BY <1>1, Invariant, PTL

-----------------------------------------------------------------------------
(* The listed tables.                                                      *)

(* The tables have everything of a program.                                *)
Kept(prog) ==
    /\ prog.rows \subseteq tables.rows
    /\ prog.endpoint # "unknown" => tables.endpoint # "unknown"

(* The functions are defined on all patterns and calls, and a call that    *)
(* has begun has a pattern.                                                *)
Shape ==
    /\ DOMAIN cached = Patterns /\ DOMAIN ask = Asks /\ DOMAIN step = Asks
    /\ DOMAIN served = Asks /\ DOMAIN listed = Asks
    /\ cached = [p \in Patterns |-> cached[p]]
    /\ ask = [c \in Asks |-> ask[c]]
    /\ step = [c \in Asks |-> step[c]]
    /\ served = [c \in Asks |-> served[c]]
    /\ listed = [c \in Asks |-> listed[c]]
    /\ \A c \in Asks : step[c] # "idle" => ask[c].pattern \in Patterns

(* Whatever can be had from the cache is in the tables, and so is what a   *)
(* call is about to list.                                                  *)
CacheIsStored ==
    ~failed => /\ \A p \in Patterns : cached[p] # NoProgram => Kept(cached[p])
               /\ \A c \in Asks : step[c] \in {"cache", "list"} => Kept(served[c])

LInv == Shape /\ CacheIsStored /\ ListingIsComplete

LEMMA InitKeepsListings == InitListings => LInv
BY DEF InitListings, LInv, Shape, CacheIsStored, ListingIsComplete

LEMMA AskKeeps ==
    ASSUME NEW c \in Asks, NEW p \in Patterns, NEW m \in Modes, LInv, Ask(c, p, m)
    PROVE  LInv'
BY DEF LInv, Shape, CacheIsStored, ListingIsComplete, Ask, Move, Hit, Kept

LEMMA LoadKeeps ==
    ASSUME NEW c \in Asks, LInv, Load(c)
    PROVE  LInv'
BY DEF LInv, Shape, CacheIsStored, ListingIsComplete, Load, Move, Kept

(* Storing only adds, so that nothing that was kept is lost.               *)
LEMMA StoreKeeps ==
    ASSUME NEW c \in Asks, LInv, Store(c)
    PROVE  LInv'
<1>1. /\ tables'.rows = tables.rows \cup served[c].rows
      /\ tables'.endpoint = IF served[c].endpoint = "unknown" THEN tables.endpoint
                            ELSE served[c].endpoint
  BY DEF Store, upsertRows, upsertGRPCEndpoints
<1>2. ASSUME NEW prog, Kept(prog) PROVE Kept(prog)'
  BY <1>1, <1>2 DEF Kept
<1>3. Kept(served[c])'
  BY <1>1 DEF Kept, Store
<1>4. Shape'
  BY DEF LInv, Shape, Store, Move
<1>5. CacheIsStored'
  BY <1>1, <1>3 DEF LInv, Shape, CacheIsStored, Store, Move, Kept
<1>6. ListingIsComplete'
  BY DEF LInv, Shape, ListingIsComplete, Store, Move
<1> QED BY <1>4, <1>5, <1>6 DEF LInv

LEMMA StoreFailsKeeps ==
    ASSUME NEW c \in Asks, LInv, StoreFails(c)
    PROVE  LInv'
BY DEF LInv, Shape, CacheIsStored, ListingIsComplete, StoreFails, Move

LEMMA CacheKeeps ==
    ASSUME NEW c \in Asks, LInv, Cache(c)
    PROVE  LInv'
<1>1. ask[c].pattern \in Patterns
  BY DEF LInv, Shape, Cache, Move
<1>2. Shape'
  BY <1>1 DEF LInv, Shape, Cache, Move
<1>3. CacheIsStored'
  BY <1>1 DEF LInv, Shape, CacheIsStored, Cache, Move, Hit, Kept
<1>4. ListingIsComplete'
  BY DEF LInv, Shape, ListingIsComplete, Cache, Move
<1> QED BY <1>2, <1>3, <1>4 DEF LInv

LEMMA ListKeeps ==
    ASSUME NEW c \in Asks, LInv, List(c)
    PROVE  LInv'
<1>1. Shape' /\ CacheIsStored'
  BY DEF LInv, Shape, CacheIsStored, List, Move, Kept
<1>2. ListingIsComplete'
  BY DEF LInv, Shape, CacheIsStored, ListingIsComplete, List, Move, Kept,
         GetHTTPRoutes, GetGRPCEndpoints
<1> QED BY <1>1, <1>2 DEF LInv

LEMMA EvictKeeps ==
    ASSUME NEW p \in Patterns, LInv, Evict(p)
    PROVE  LInv'
BY DEF LInv, Shape, CacheIsStored, ListingIsComplete, Evict, Kept

LEMMA ReviseKeeps ==
    ASSUME NEW p \in Sources, LInv, Revise(p)
    PROVE  LInv'
BY DEF LInv, Shape, CacheIsStored, ListingIsComplete, Revise, Kept

LEMMA StutterKeeps == LInv /\ UNCHANGED lsvars => LInv'
BY DEF LInv, Shape, CacheIsStored, ListingIsComplete, Kept, lsvars

(* ListHTTPRoutes, ListGRPCEndpoints and GetPackageDependencies: unless a  *)
(* snapshot failed, the answer has every row of the program the call was   *)
(* served, whatever other calls load, store and evict meanwhile.           *)
THEOREM ListingsAreComplete == SpecListings => []ListingIsComplete
<1>1. LInv /\ [NextListings]_lsvars => LInv'
  BY AskKeeps, LoadKeeps, StoreKeeps, StoreFailsKeeps, CacheKeeps, ListKeeps,
     EvictKeeps, ReviseKeeps, StutterKeeps DEF NextListings
<1>2. LInv => ListingIsComplete
  BY DEF LInv
<1> QED BY InitKeepsListings, <1>1, <1>2, PTL DEF SpecListings

-----------------------------------------------------------------------------
(* Types of the listings.                                                  *)

TableRows == [pkg : Sources, name : RowNames, guess : Modes \cup {"sure"}]
LoadedPrograms == [mode : Modes, rows : SUBSET TableRows, endpoint : Endpoints]

(* What a call stores or caches is a program; the cache has programs only. *)
ListingsInv ==
    /\ ListingsTypeOK
    /\ cached \in [Patterns -> LoadedPrograms \cup {NoProgram}]
    /\ ask \in [Asks -> [pattern : SUBSET Sources, mode : Modes]]
    /\ step = [c \in Asks |-> step[c]] /\ served = [c \in Asks |-> served[c]]
    /\ \A c \in Asks : step[c] \in {"store", "cache"} => served[c] \in LoadedPrograms

LEMMA LoadedIsProgram ==
    ASSUME NEW pattern \in SUBSET Sources, NEW m \in Modes
    PROVE  loadProgram(pattern, m) \in LoadedPrograms
<1>1. PICK rows : rows = {row \in [pkg : pattern, name : RowNames, guess : Modes \cup {"sure"}] :
                              row.name \in text[row.pkg] /\ row.guess = Guess(row.name, m)}
  OBVIOUS
<1>2. rows \subseteq TableRows
  BY <1>1 DEF TableRows
<1>3. PICK e \in Endpoints : e = buildGRPCEndpoints(pattern)
  BY DEF buildGRPCEndpoints, Endpoints
<1>4. loadProgram(pattern, m) = [mode |-> m, rows |-> rows, endpoint |-> e]
  BY <1>1, <1>3 DEF loadProgram
<1> QED BY <1>2, <1>4 DEF LoadedPrograms

LEMMA InitListingTypes == InitListings => ListingsInv
<1> SUFFICES ASSUME InitListings PROVE ListingsInv
  OBVIOUS
<1>1. [pattern |-> {}, mode |-> "syntax"] \in [pattern : SUBSET Sources, mode : Modes]
  BY DEF Modes
<1>2. ask \in [Asks -> [pattern : SUBSET Sources, mode : Modes]]
  BY <1>1 DEF InitListings
<1>3. tables.rows = {} /\ tables.endpoint = "unknown"
  BY DEF InitListings
<1>4. ListingsTypeOK
  <2>1. revisions \in 0..MaxRevisions
    BY MaxRevisionsAssumption DEF InitListings
  <2>2. text \in [Sources -> SUBSET RowNames] /\ failed \in BOOLEAN
    BY DEF InitListings
  <2>3. tables.endpoint \in Endpoints
    BY <1>3 DEF Endpoints
  <2> QED BY <1>3, <2>1, <2>2, <2>3 DEF ListingsTypeOK
<1>5. \A c \in Asks : step[c] = "idle"
  BY DEF InitListings
<1> QED BY <1>2, <1>4, <1>5 DEF InitListings, ListingsInv

LEMMA NextListingTypes == ListingsInv /\ [NextListings]_lsvars => ListingsInv'
<1> SUFFICES ASSUME ListingsInv, [NextListings]_lsvars PROVE ListingsInv'
  OBVIOUS
<1>1. ASSUME NEW c \in Asks, NEW p \in Patterns, NEW m \in Modes, Ask(c, p, m) PROVE ListingsInv'
  <2>1. p \in SUBSET Sources
    BY PatternsAssumption
  <2>2. ask' \in [Asks -> [pattern : SUBSET Sources, mode : Modes]]
    BY <1>1, <2>1 DEF ListingsInv, Ask
  <2>3. step' = [a \in Asks |-> step'[a]] /\ served' = [a \in Asks |-> served'[a]]
    BY <1>1 DEF ListingsInv, Ask, Move
  <2>4. \A a \in Asks : step'[a] \in {"store", "cache"} => served'[a] \in LoadedPrograms
    BY <1>1 DEF ListingsInv, Ask, Move
  <2> QED BY <1>1, <2>2, <2>3, <2>4 DEF ListingsInv, ListingsTypeOK, Ask
<1>2. ASSUME NEW c \in Asks, Load(c) PROVE ListingsInv'
  <2>1. ask[c].pattern \in SUBSET Sources /\ ask[c].mode \in Modes
    BY DEF ListingsInv
  <2>2. PICK prog \in LoadedPrograms : prog = loadProgram(ask[c].pattern, ask[c].mode)
    BY <2>1, LoadedIsProgram
  <2>3. served' = [served EXCEPT ![c] = prog] /\ step' = [step EXCEPT ![c] = "store"]
    BY <1>2, <2>2 DEF Load, Move
  <2> QED BY <1>2, <2>3 DEF ListingsInv, ListingsTypeOK, Load
<1>3. ASSUME NEW c \in Asks, Store(c) PROVE ListingsInv'
  <2>1. step[c] = "store" /\ step' = [step EXCEPT ![c] = "cache"]
    BY <1>3 DEF Store, Move
  <2>2. served[c].rows \subseteq TableRows /\ served[c].endpoint \in Endpoints
    BY <2>1 DEF ListingsInv, LoadedPrograms
  <2>3. /\ tables'.rows = tables.rows \cup served[c].rows
        /\ tables'.endpoint = IF served[c].endpoint = "unknown" THEN tables.endpoint
                              ELSE served[c].endpoint
    BY <1>3 DEF Store, upsertRows, upsertGRPCEndpoints
  <2>4. tables'.rows \subseteq TableRows /\ tables'.endpoint \in Endpoints
    BY <2>2, <2>3 DEF ListingsInv, ListingsTypeOK, TableRows
  <2> QED BY <1>3, <2>1, <2>4 DEF ListingsInv, ListingsTypeOK, TableRows, Store
<1>4. ASSUME NEW c \in Asks, StoreFails(c) PROVE ListingsInv'
  BY <1>4 DEF ListingsInv, ListingsTypeOK, StoreFails, Move
<1>5. ASSUME NEW c \in Asks, Cache(c) PROVE ListingsInv'
  <2>1. step[c] = "cache" /\ step' = [step EXCEPT ![c] = "list"]
    BY <1>5 DEF Cache, Move
  <2>2. PICK prog \in LoadedPrograms : prog = served[c]
    BY <2>1 DEF ListingsInv
  <2>3. cached' = cached \/ cached' = [cached EXCEPT ![ask[c].pattern] = prog]
    BY <1>5, <2>2 DEF Cache
  <2>4. cached' \in [Patterns -> LoadedPrograms \cup {NoProgram}]
    BY <2>3 DEF ListingsInv
  <2>5. served' = [served EXCEPT ![c] = cached'[ask[c].pattern]]
        /\ UNCHANGED <<text, revisions, tables, ask, listed, failed>>
    BY <1>5 DEF Cache
  <2> QED BY <2>1, <2>4, <2>5 DEF ListingsInv, ListingsTypeOK
<1>6. ASSUME NEW c \in Asks, List(c) PROVE ListingsInv'
  BY <1>6 DEF ListingsInv, ListingsTypeOK, List, Move
<1>7. ASSUME NEW p \in Patterns, Evict(p) PROVE ListingsInv'
  BY <1>7 DEF ListingsInv, ListingsTypeOK, Evict
<1>8. ASSUME NEW p \in Sources, Revise(p) PROVE ListingsInv'
  <2>1. revisions' \in 0..MaxRevisions
    BY <1>8, MaxRevisionsAssumption DEF ListingsInv, ListingsTypeOK, Revise
  <2>2. text' \in [Sources -> SUBSET RowNames]
    BY <1>8 DEF ListingsInv, ListingsTypeOK, Revise
  <2> QED BY <1>8, <2>1, <2>2 DEF ListingsInv, ListingsTypeOK, Revise
<1>9. CASE UNCHANGED lsvars
  BY <1>9 DEF ListingsInv, ListingsTypeOK, lsvars
<1> QED BY <1>1, <1>2, <1>3, <1>4, <1>5, <1>6, <1>7, <1>8, <1>9 DEF NextListings

(* What is stored in the tables of routes, endpoints and imports are rows  *)
(* of packages of the workspace, whichever loads they come from.           *)
THEOREM ListingTypes == SpecListings => []ListingsTypeOK
<1>1. ListingsInv => ListingsTypeOK
  BY DEF ListingsInv
<1> QED BY <1>1, InitListingTypes, NextListingTypes, PTL DEF SpecListings
=============================================================================
