---- MODULE Streaming ----
(***************************************************************************)
(* A client that reads a long result list in pieces, while the analysed    *)
(* workspace or its configuration may change between two calls.            *)
(*                                                                         *)
(* Nothing is kept on the server: each call computes the list again, and a *)
(* cursor carries an offset and a fingerprint of the list it was cut from. *)
(***************************************************************************)
EXTENDS QueryOptions

CONSTANTS
    Datasets,       \* the sorted lists the query may produce
    Outputs,        \* the configured defaults ("output" of the config)
    ChunkSizes,     \* chunk_size of a call, 0 when it is omitted
    Limits,         \* limit of a page
    Caps,           \* max_items of a call
    MaxEdits        \* bound on the edits during a behaviour

ASSUME DatasetsAssumption == \A d \in Datasets : d \in Seq(Nat)
ASSUME CallsAssumption ==
    ChunkSizes \subseteq Nat /\ Limits \subseteq Nat \ {0} /\ Caps \subseteq Nat
ASSUME OutputsAssumption ==
    Outputs # {} /\ Outputs \subseteq [limit : Nat, offset : Nat, maxItems : Nat, chunkSize : Nat]
ASSUME MaxEditsAssumption == MaxEdits \in Nat

VARIABLES
    lister,         \* the tool: "window" if it hands its list to streamOrWindow,
                    \* "hierarchy" or "routes" if it cuts it first
    dataset,        \* what the query produces now
    output,         \* the configured defaults now
    edits,
    phase,          \* "idle", "streaming", "paging", "done" or "failed"; "off"
                    \* when another component is at work
    cursor,         \* next_cursor of the last answer
    received,       \* the items of all answers since the client began
    total,          \* length of the list the last answer was cut from
    quiet,          \* nothing changed since the client began
    mode            \* "none", "chunks", "pages", or "mixed" when a call for a chunk
                    \* was answered with a page, or a call for a page with a chunk

stvars == <<lister, dataset, output, edits, phase, cursor, received, total, quiet, mode>>

client == <<phase, cursor, received, total, mode>>

-----------------------------------------------------------------------------
Listers == {"window", "hierarchy", "routes"}

\* The call hierarchy and the HTTP routes are cut to max_items before they are
\* chunked or paged.
Listed(opts) == IF lister = "window" THEN dataset ELSE Addressable(dataset, opts.maxItems)

\* What a page says the list has: the routes are counted before the cut.
TotalBeforeTruncate(answer) == IF lister = "routes" THEN Len(dataset) ELSE answer.total

InitStreaming ==
    /\ lister \in Listers
    /\ dataset \in Datasets
    /\ output \in Outputs
    /\ edits = 0
    /\ phase = "idle"
    /\ cursor = NoCursor
    /\ received = <<>>
    /\ total = 0
    /\ quiet = TRUE
    /\ mode = "none"

StreamOff ==
    /\ lister = "window"
    /\ dataset \in Datasets /\ Len(dataset) = 0
    /\ output = CHOOSE o \in Outputs : TRUE
    /\ edits = 0 /\ phase = "off" /\ cursor = NoCursor
    /\ received = <<>> /\ total = 0 /\ quiet = TRUE /\ mode = "none"

Begins == quiet' = (phase = "idle" \/ quiet)

\* The next chunk: the client passes the last next_cursor back until has_more
\* is false.
Stream(chunkSize, maxItems) ==
    LET opts == queryOptionsWithConfig(output,
                    [limit |-> 0, offset |-> 0,
                     maxItems |-> maxItems, chunkSize |-> chunkSize])
        answer == streamOrWindow(Listed(opts), cursor, opts)
    IN  /\ phase \in {"idle", "streaming"}
        /\ ~Rejected(Listed(opts), cursor, opts)
        /\ received' = received \o answer.chunk
        /\ total' = answer.total
        /\ cursor' = answer.next
        /\ phase' = IF answer.hasMore THEN "streaming" ELSE "done"
        /\ mode' = IF Streams(opts) /\ mode \in {"none", "chunks"} THEN "chunks" ELSE "mixed"
        /\ Begins
        /\ UNCHANGED <<lister, dataset, output, edits>>

\* "stream cursor invalidated": the client has to restart without a cursor.
StreamFails(chunkSize, maxItems) ==
    LET opts == queryOptionsWithConfig(output,
                    [limit |-> 0, offset |-> 0,
                     maxItems |-> maxItems, chunkSize |-> chunkSize])
    IN  /\ phase = "streaming"
        /\ Rejected(Listed(opts), cursor, opts)
        /\ phase' = "failed"
        /\ cursor' = NoCursor
        /\ UNCHANGED <<lister, dataset, output, edits, received, total, quiet, mode>>

\* The next page: a limit and, as the offset, the number of items the client
\* has.  It stops when it has as many as it was told there are, or nothing new
\* comes.  A configured chunk size makes every page a first chunk.
Page(limit) ==
    LET opts == queryOptionsWithConfig(output,
                    [limit |-> limit, offset |-> Len(received),
                     maxItems |-> 0, chunkSize |-> 0])
        answer == streamOrWindow(Listed(opts), NoCursor, opts)
    IN  /\ phase \in {"idle", "paging"}
        /\ received' = received \o answer.chunk
        /\ total' = answer.total
        /\ phase' = IF answer.chunk = <<>> \/ Len(received') >= TotalBeforeTruncate(answer)
                    THEN "done" ELSE "paging"
        /\ mode' = IF Streams(opts) \/ mode = "mixed" THEN "mixed" ELSE "pages"
        /\ Begins
        /\ UNCHANGED <<lister, dataset, output, edits, cursor>>

Restart ==
    /\ phase \in {"done", "failed"}
    /\ phase' = "idle"
    /\ cursor' = NoCursor
    /\ received' = <<>>
    /\ total' = 0
    /\ quiet' = TRUE
    /\ mode' = "none"
    /\ UNCHANGED <<lister, dataset, output, edits>>

\* The workspace is edited and reloaded, or the client names another one:
\* some tools leave the workspace out of the identifier.
Edit ==
    /\ edits < MaxEdits
    /\ edits' = edits + 1
    /\ dataset' \in Datasets \ {dataset}
    /\ quiet' = FALSE
    /\ UNCHANGED <<lister, output, client>>

EditConfig ==
    /\ edits < MaxEdits
    /\ edits' = edits + 1
    /\ output' \in Outputs \ {output}
    /\ quiet' = FALSE
    /\ UNCHANGED <<lister, dataset, client>>

NextStreaming ==
    \/ \E c \in ChunkSizes, m \in Caps : Stream(c, m) \/ StreamFails(c, m)
    \/ \E l \in Limits : Page(l)
    \/ Restart
    \/ Edit
    \/ EditConfig

SpecStreaming == InitStreaming /\ [][NextStreaming]_stvars

-----------------------------------------------------------------------------
\* The client's view stays in its types: a cursor has its three parts.
StreamTypeOK ==
    /\ lister \in Listers
    /\ dataset \in Datasets
    /\ output \in Outputs
    /\ edits \in 0..MaxEdits
    /\ phase \in {"off", "idle", "streaming", "paging", "done", "failed"}
    /\ cursor \in Cursors \cup {NoCursor}
    /\ received \in Seq(Nat)
    /\ total \in Nat
    /\ quiet \in BOOLEAN
    /\ mode \in {"none", "chunks", "pages", "mixed"}

\* A client that asks for chunks of any sizes while nothing changes receives
\* the list up to the cap, each item once and in order, also when configured
\* defaults fill in the options it leaves out (streamOrWindow).  One that pages
\* with limit and its own count as the offset receives the whole list, unless a
\* configured offset shifts its first page or a configured chunk size makes a
\* chunk of it; a configured max_items bounds each of its pages where the list
\* goes through streamOrWindow, and the list itself where the tool cuts it
\* before (the call hierarchy, the HTTP routes).
ReadsWholeList ==
    phase = "done" /\ quiet =>
        /\ mode = "chunks" => received = SubSeq(dataset, 1, total)
        /\ mode = "pages" /\ output.offset = 0 => received = Listed(output)

\* Whatever changes between the calls, a stream that is not refused delivers as
\* many items as each list it was cut from has, and begins with the first item
\* of each of them; the cursor always points behind the last item delivered.
ChunksFit ==
    mode = "chunks" =>
        /\ phase = "streaming" => /\ cursor.offset = Len(received)
                                  /\ cursor.total = total
                                  /\ received[1] = cursor.fingerprint[2]
        /\ phase = "done" => Len(received) = total
====
