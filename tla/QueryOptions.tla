---- MODULE QueryOptions ----
(***************************************************************************)
(* The output controls every listing tool shares: the options of a call,   *)
(* the defaults the workspace configuration gives them, the window of the  *)
(* sorted result list that limit, offset and max_items select, and the     *)
(* chunk of it that chunk_size and a cursor select.                        *)
(***************************************************************************)
EXTENDS Integers, Sequences

CONSTANTS
    MaxChunkSize,   \* GO_ARCH_XRAY_MAX_CHUNK_SIZE, or 50
    NoCursor        \* a call without a cursor, an answer without next_cursor

ASSUME MaxChunkSizeAssumption == MaxChunkSize \in Nat \ {0}

AtMost(m, n) == IF m < n THEN m ELSE n

NotNegative(n) == IF n < 0 THEN 0 ELSE n

\* A value of zero or less passes through: it means "no streaming".
clampChunkSize(n) == IF n <= 0 THEN n ELSE AtMost(n, MaxChunkSize)

\* A zero option of the call takes the configured default; no call can ask
\* for zero where the configuration says otherwise.
queryOptionsWithConfig(output, opts) ==
    [f \in DOMAIN opts |->
        IF opts[f] = 0 /\ f \in DOMAIN output THEN output[f] ELSE opts[f]]

normalizeQueryOptions(opts) ==
    [limit     |-> NotNegative(opts.limit),
     offset    |-> NotNegative(opts.offset),
     maxItems  |-> NotNegative(opts.maxItems),
     chunkSize |-> clampChunkSize(NotNegative(opts.chunkSize))]

\* Here max_items bounds the page, not the list.
applyQueryWindow(items, options) ==
    LET opts  == normalizeQueryOptions(options)
        total == Len(items)
        start == AtMost(opts.offset, total)
        Capped(end, n) == IF n > 0 THEN AtMost(end, start + n) ELSE end
        end   == Capped(Capped(total, opts.maxItems), opts.limit)
    IN  [chunk     |-> SubSeq(items, start + 1, end),
         total     |-> total,
         truncated |-> start > 0 \/ end < total]

-----------------------------------------------------------------------------
Cursors == [offset : Nat, total : Nat, fingerprint : Seq(Nat)]

ASSUME NoCursorAssumption == NoCursor \notin Cursors

\* The identifier of the query is the same in every call of a client, and the
\* hash is taken to be free of collisions.
streamFingerprint(items) ==
    IF items = <<>> THEN <<0>> ELSE <<Len(items), items[1], items[Len(items)]>>

\* Mutant: only the length of the list is compared.
AcceptsSameLength(c, items) == c = NoCursor \/ c.total = Len(items)

Accepts(c, items) ==
    \/ c = NoCursor
    \/ c.fingerprint = streamFingerprint(items) /\ c.total = Len(items)

\* Mutant: a single item that is left over does not count as more.
applyStreamWindowButOne(items, c, chunkSize) ==
    LET n      == Len(items)
        offset == IF c = NoCursor THEN 0 ELSE AtMost(c.offset, n)
        end    == AtMost(offset + clampChunkSize(chunkSize), n)
    IN  [chunk   |-> SubSeq(items, offset + 1, end),
         total   |-> n,
         hasMore |-> end < n - 1,
         next    |-> IF end < n - 1
                     THEN [offset |-> end, total |-> n,
                           fingerprint |-> streamFingerprint(items)]
                     ELSE NoCursor]

applyStreamWindow(items, c, chunkSize) ==
    LET n      == Len(items)
        offset == IF c = NoCursor THEN 0 ELSE AtMost(c.offset, n)
        end    == AtMost(offset + clampChunkSize(chunkSize), n)
    IN  [chunk   |-> SubSeq(items, offset + 1, end),
         total   |-> n,
         hasMore |-> end < n,
         next    |-> IF end < n
                     THEN [offset |-> end, total |-> n,
                           fingerprint |-> streamFingerprint(items)]
                     ELSE NoCursor]

\* max_items cuts the list before it is chunked.
Addressable(items, maxItems) ==
    IF maxItems > 0 /\ Len(items) > maxItems THEN SubSeq(items, 1, maxItems) ELSE items

Streams(opts) == clampChunkSize(opts.chunkSize) > 0

\* Without a chunk size the cursor of the call is not looked at.
streamOrWindow(items, c, opts) ==
    IF Streams(opts)
    THEN applyStreamWindow(Addressable(items, opts.maxItems), c, opts.chunkSize)
    ELSE LET w == applyQueryWindow(items, opts)
         IN  [chunk |-> w.chunk, total |-> w.total, hasMore |-> FALSE, next |-> NoCursor]

\* A chunk counts as truncated when more follow or others went before it; what
\* max_items cut off the list does not count.
Truncates(items, c, opts) ==
    IF Streams(opts)
    THEN streamOrWindow(items, c, opts).hasMore \/ c # NoCursor
    ELSE applyQueryWindow(items, opts).truncated

Rejected(items, c, opts) ==
    Streams(opts) /\ ~Accepts(c, Addressable(items, opts.maxItems))
====
