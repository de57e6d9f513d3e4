---------------------------- MODULE ShadowStore ----------------------------
(***************************************************************************)
(* The symbol and vector tables of .gax/cache.db (analyzer/storage.go) and *)
(* the sessions that write and search them.  A session is one goroutine    *)
(* with a connection of its own: ShadowStoreProgram, run by every load of  *)
(* a program, ComputeAndSnapshot, which runs the same statements, and      *)
(* semantic_search.  Sessions overlap: loads of different keys or modes    *)
(* of one root are not coalesced, and searches do not wait for them.       *)
(*                                                                         *)
(* An action is one SQL statement outside a transaction, or one whole      *)
(* transaction: SQLite serialises them.  A symbol is stored with the       *)
(* version of its source, the provider its vector was computed by, and     *)
(* where it stands in the workspace.  The tables a session only ever       *)
(* overwrites row by row with what it loaded (arch_edges, metrics, routes, *)
(* endpoints) are the subject of Listings, file_meta that of FileWatcher.  *)
(***************************************************************************)
EXTENDS Integers, FiniteSets

CONSTANTS
    Symbols,
    Sessions,
    Providers,     \* embedding providers the configuration may name
    Fallback,      \* provider "none": deterministic vectors, no searches
    Dimension,     \* [Providers -> dimension of the provider's vectors]
    MaxVersion,    \* bound: edits of a symbol
    MaxMoves,      \* bound: moves of a symbol whose source stays the same
    MayStop,       \* whether a session may fail or die between statements
    NoRow, NoDimension

ASSUME StoreAssumption ==
    /\ Dimension \in [Providers -> Nat \ {0}]
    /\ Providers # {}
    /\ MaxVersion \in Nat /\ MaxMoves \in Nat
    /\ MayStop \in BOOLEAN

(* The text of a symbol, and how often it moved (to other lines, to        *)
(* another file) since that text was written.                              *)
Versions == [text : 0..MaxVersion, moves : 0..MaxMoves]
FirstVersion == [text |-> 0, moves |-> 0]

(* The columns that the hash of a symbol stands for.                       *)
Rows == [source : 0..MaxVersion, by : Providers]
Dimensions == {Dimension[p] : p \in Providers}

ASSUME StoreSentinels == NoRow \notin Rows /\ NoDimension \notin Nat

VARIABLES
    disk,           \* [Symbols -> version], the workspace
    provider,       \* embeddings.provider of the configuration
    together,       \* whether sessions overlap under one provider, or come one
                    \* at a time while the provider changes
    codeSymbols,    \* table code_symbols, by symbol id: source, embedding
    located,        \* its columns file_path, line_start and line_end, as the
                    \* number of moves under the stored source
    symbolHashes,   \* table symbol_hashes, by symbol id: what is read back
    recorded,       \* system_state 'code_symbol_vec_dimension'
    tableDim,       \* dimension of code_symbol_vec, NoDimension: no such table
    vectors,        \* rows of code_symbol_vec, by symbol id
    pc,             \* [Sessions -> SessionLabels]
    prog,           \* [Sessions -> the versions the session's program has]
    by,             \* [Sessions -> the provider it embeds with]
    changed,        \* [Sessions -> the symbols prepareChangedSymbols found]
    copied,         \* [Sessions -> what rebuildVectorTable read]
    torn            \* ensureVectorTable was left half way and the table has not
                    \* been dropped since, for the properties

tableVars == <<codeSymbols, located, symbolHashes, recorded, tableDim, vectors>>
envVars == <<disk, provider, together>>
sessionVars == <<prog, by, changed, copied>>
ssvars == <<envVars, tableVars, pc, sessionVars, torn>>

EnsureLabels == {"ensure", "createKnown", "drop", "create", "record",
                 "rebuildRead", "rebuildInsert"}
SessionLabels == {"idle", "prepare", "commit", "search"} \cup EnsureLabels

NoRows == [x \in Symbols |-> NoRow]
AnyProvider == CHOOSE p \in Providers : TRUE

InitStore ==
    /\ disk = [x \in Symbols |-> FirstVersion]
    /\ provider \in Providers
    /\ together \in BOOLEAN
    /\ codeSymbols = NoRows
    /\ located = [x \in Symbols |-> 0]
    /\ symbolHashes = NoRows
    /\ recorded = NoDimension
    /\ tableDim = NoDimension
    /\ vectors = NoRows
    /\ pc = [s \in Sessions |-> "idle"]
    /\ prog = [s \in Sessions |-> [x \in Symbols |-> FirstVersion]]
    /\ by = [s \in Sessions |-> AnyProvider]
    /\ changed = [s \in Sessions |-> {}]
    /\ copied = [s \in Sessions |-> NoRows]
    /\ torn = FALSE

Goto(s, from, to) == pc[s] = from /\ pc' = [pc EXCEPT ![s] = to]

(* The session ends and its variables with it.                             *)
Forget(s) ==
    /\ prog' = [prog EXCEPT ![s] = [x \in Symbols |-> FirstVersion]]
    /\ by' = [by EXCEPT ![s] = AnyProvider]
    /\ changed' = [changed EXCEPT ![s] = {}]
    /\ copied' = [copied EXCEPT ![s] = NoRows]

Finish(s, from) == Goto(s, from, "idle") /\ Forget(s)

(* A session begins while others are at work, or waits until they are not. *)
MayBegin(s) == together \/ \A u \in Sessions \ {s} : pc[u] = "idle"

(* What the session would store for symbol x, its location apart.          *)
Row(s, x) == [source |-> prog[s][x].text, by |-> by[s]]

(* Mutant: the length of a vector is miscounted.                           *)
WantedOffByOne(s) == Dimension[by[s]] + 1

Wanted(s) == Dimension[by[s]]

-----------------------------------------------------------------------------
(* Storing a program                                                       *)

(* A load has parsed the source; the configuration is read.                *)
BeginStore(s) ==
    /\ MayBegin(s)
    /\ Goto(s, "idle", "prepare")
    /\ prog' = [prog EXCEPT ![s] = disk]
    /\ by' = [by EXCEPT ![s] = provider]
    /\ UNCHANGED <<envVars, tableVars, changed, copied, torn>>

(* GetStaleSymbolHashes: what is not stored under the same source and the  *)
(* same embedding version.  Where the symbol stands is not compared.       *)
Stale(s, x) == symbolHashes[x] # Row(s, x)

(* prepareChangedSymbols, then the choice of ensureVectorTableForSymbols.  *)
prepareChangedSymbols(s) ==
    LET stale == {x \in Symbols : Stale(s, x)}
    IN /\ Goto(s, "prepare", IF stale = {} THEN "commit" ELSE "ensure")
       /\ changed' = [changed EXCEPT ![s] = stale]
       /\ UNCHANGED <<envVars, tableVars, prog, by, copied, torn>>

(* upsertSymbolsTx: the changed symbols, each with its vector; the others  *)
(* keep their location too.                                                *)
upsertSymbols(s) ==
    /\ located' = [x \in Symbols |->
                      IF x \in changed[s] THEN prog[s][x].moves ELSE located[x]]
    /\ codeSymbols' = [x \in Symbols |-> IF x \in changed[s] THEN Row(s, x) ELSE codeSymbols[x]]
    /\ vectors' = [x \in Symbols |-> IF x \in changed[s] THEN Row(s, x) ELSE vectors[x]]

(* upsertSymbolHashesTx: the hashes of all symbols of the program.         *)
upsertSymbolHashes(s) == symbolHashes' = [x \in Symbols |-> Row(s, x)]

(* A vector that does not fit the vector table, or a missing table, makes  *)
(* the transaction fail.                                                   *)
CanCommit(s) == changed[s] = {} \/ tableDim = Wanted(s)

OutsideCommit == <<envVars, recorded, tableDim, torn>>

(* Mutant: ON CONFLICT DO NOTHING in all tables.                           *)
CommitInsertsOnly(s) ==
    LET new == {x \in changed[s] : codeSymbols[x] = NoRow /\ CanCommit(s)}
        insert(table) == [x \in Symbols |-> IF x \in new THEN Row(s, x) ELSE table[x]]
    IN /\ Finish(s, "commit")
       /\ codeSymbols' = insert(codeSymbols)
       /\ vectors' = insert(vectors)
       /\ symbolHashes' = insert(symbolHashes)
       /\ located' = [x \in Symbols |-> IF x \in new THEN prog[s][x].moves ELSE located[x]]
       /\ UNCHANGED OutsideCommit

(* The last transaction: all of it or nothing.                             *)
Commit(s) ==
    /\ Finish(s, "commit")
    /\ IF CanCommit(s)
       THEN upsertSymbols(s) /\ upsertSymbolHashes(s)
       ELSE UNCHANGED <<codeSymbols, located, vectors, symbolHashes>>
    /\ UNCHANGED OutsideCommit

-----------------------------------------------------------------------------
(* ensureVectorTable: outside any transaction, statement by statement      *)

AfterEnsure(s) == IF changed[s] = {} THEN "search" ELSE "commit"

EnsureRead(s) ==
    /\ Goto(s, "ensure", CASE recorded = Wanted(s) -> "createKnown"
                           [] recorded = NoDimension -> "create"
                           [] OTHER -> "drop")
    /\ UNCHANGED <<envVars, tableVars, sessionVars, torn>>

(* CREATE VIRTUAL TABLE IF NOT EXISTS.                                     *)
CreateIfMissing(s) ==
    tableDim' = IF tableDim = NoDimension THEN Wanted(s) ELSE tableDim

EnsureCreateKnown(s) ==
    /\ Goto(s, "createKnown", AfterEnsure(s))
    /\ CreateIfMissing(s)
    /\ UNCHANGED <<envVars, codeSymbols, located, symbolHashes, recorded, vectors, sessionVars, torn>>

EnsureDrop(s) ==
    /\ Goto(s, "drop", "create")
    /\ tableDim' = NoDimension
    /\ vectors' = NoRows
    /\ torn' = FALSE
    /\ UNCHANGED <<envVars, codeSymbols, located, symbolHashes, recorded, sessionVars>>

EnsureCreate(s) ==
    /\ Goto(s, "create", "record")
    /\ CreateIfMissing(s)
    /\ UNCHANGED <<envVars, codeSymbols, located, symbolHashes, recorded, vectors, sessionVars, torn>>

(* Mutant: a new vector table is not filled with what is already stored.   *)
EnsureRecordOnly(s) ==
    /\ Goto(s, "record", AfterEnsure(s))
    /\ recorded' = Wanted(s)
    /\ UNCHANGED <<envVars, codeSymbols, located, symbolHashes, tableDim, vectors, sessionVars, torn>>

EnsureRecord(s) ==
    /\ Goto(s, "record", "rebuildRead")
    /\ recorded' = Wanted(s)
    /\ UNCHANGED <<envVars, codeSymbols, located, symbolHashes, tableDim, vectors, sessionVars, torn>>

(* rebuildVectorTable reads every stored embedding and keeps those of the  *)
(* wanted dimension ...                                                    *)
RebuildRead(s) ==
    /\ Goto(s, "rebuildRead", "rebuildInsert")
    /\ copied' = [copied EXCEPT ![s] = [x \in Symbols |->
            IF codeSymbols[x] # NoRow /\ Dimension[codeSymbols[x].by] = Wanted(s)
            THEN codeSymbols[x] ELSE NoRow]]
    /\ UNCHANGED <<envVars, tableVars, prog, by, changed, torn>>

(* ... and inserts them in a transaction, which fails on a row that is     *)
(* already there, a vector that does not fit or a missing table.           *)
RebuildInsert(s) ==
    LET toInsert == {x \in Symbols : copied[s][x] # NoRow}
        fits == \A x \in toInsert : vectors[x] = NoRow /\ tableDim = Wanted(s)
    IN /\ IF fits
          THEN /\ Goto(s, "rebuildInsert", AfterEnsure(s))
               /\ vectors' = [x \in Symbols |-> IF x \in toInsert THEN copied[s][x] ELSE vectors[x]]
               /\ copied' = [copied EXCEPT ![s] = NoRows]
               /\ UNCHANGED <<prog, by, changed, torn>>
          ELSE /\ Finish(s, "rebuildInsert")
               /\ torn' = TRUE
               /\ UNCHANGED vectors
       /\ UNCHANGED <<envVars, codeSymbols, located, symbolHashes, recorded, tableDim>>

-----------------------------------------------------------------------------
(* Searching, failing, and the world                                       *)

(* semantic_search has embedded its query with the configured provider;    *)
(* without one it answers "setup_required" and does not touch the store.   *)
BeginSearch(s) ==
    /\ MayBegin(s)
    /\ Goto(s, "idle", "ensure")
    /\ provider # Fallback
    /\ by' = [by EXCEPT ![s] = provider]
    /\ changed' = [changed EXCEPT ![s] = {}]
    /\ UNCHANGED <<envVars, tableVars, prog, copied, torn>>

Search(s) ==
    /\ Finish(s, "search")
    /\ UNCHANGED <<envVars, tableVars, torn>>

(* A statement or the embedding provider fails, or the process dies: what  *)
(* was committed stays.                                                    *)
Stop(s) ==
    /\ MayStop
    /\ pc[s] # "idle"
    /\ Finish(s, pc[s])
    /\ torn' = (torn \/ pc[s] \in {"create", "record", "rebuildRead", "rebuildInsert"})
    /\ UNCHANGED <<envVars, tableVars>>

Edit(x) ==
    /\ disk[x].text < MaxVersion
    /\ disk' = [disk EXCEPT ![x] = [text |-> @.text + 1, moves |-> 0]]
    /\ UNCHANGED <<provider, together, tableVars, pc, sessionVars, torn>>

(* The code around the symbol is edited, or it moves to another file of    *)
(* its package.                                                            *)
Move(x) ==
    /\ disk[x].moves < MaxMoves
    /\ disk' = [disk EXCEPT ![x].moves = @ + 1]
    /\ UNCHANGED <<provider, together, tableVars, pc, sessionVars, torn>>

ChangeProvider(p) ==
    /\ ~together
    /\ p # provider
    /\ provider' = p
    /\ UNCHANGED <<disk, together, tableVars, pc, sessionVars, torn>>

Step(s) ==
    \/ prepareChangedSymbols(s) \/ Commit(s)
    \/ EnsureRead(s) \/ EnsureCreateKnown(s) \/ EnsureDrop(s) \/ EnsureCreate(s)
    \/ EnsureRecord(s) \/ RebuildRead(s) \/ RebuildInsert(s)
    \/ Search(s)

NextStore ==
    \/ \E s \in Sessions : BeginStore(s) \/ BeginSearch(s) \/ Step(s) \/ Stop(s)
    \/ \E x \in Symbols : Edit(x) \/ Move(x)
    \/ \E p \in Providers : ChangeProvider(p)

SpecStore == InitStore /\ [][NextStore]_ssvars

-----------------------------------------------------------------------------
(* Every table and every session keeps the values its type allows.         *)
StoreTypeOK ==
    /\ disk \in [Symbols -> Versions]
    /\ provider \in Providers
    /\ together \in BOOLEAN
    /\ codeSymbols \in [Symbols -> Rows \cup {NoRow}]
    /\ located \in [Symbols -> 0..MaxMoves]
    /\ symbolHashes \in [Symbols -> Rows \cup {NoRow}]
    /\ recorded \in Dimensions \cup {NoDimension}
    /\ tableDim \in Dimensions \cup {NoDimension}
    /\ vectors \in [Symbols -> Rows \cup {NoRow}]
    /\ pc \in [Sessions -> SessionLabels]
    /\ prog \in [Sessions -> [Symbols -> Versions]]
    /\ by \in [Sessions -> Providers]
    /\ changed \in [Sessions -> SUBSET Symbols]
    /\ copied \in [Sessions -> [Symbols -> Rows \cup {NoRow}]]
    /\ torn \in BOOLEAN

(* Storing only what changed keeps code_symbols up to date: a transaction  *)
(* that commits leaves in it the source of every symbol of the session's   *)
(* program, embedded by its provider.  The file and the lines may lag: a   *)
(* symbol that moved and kept its source is not stored again, so its row   *)
(* says where this same source stood in this program or an earlier one,    *)
(* and where it stands if it has not moved since it was written.           *)
CommitStoresProgram ==
    [][\A s \in Sessions :
          ~together /\ Commit(s) /\ CanCommit(s)
            => \A x \in Symbols : /\ codeSymbols'[x] = Row(s, x)
                                  /\ located'[x] <= prog[s][x].moves]_ssvars

(* Sessions come one at a time, nobody is between two statements of        *)
(* ensureVectorTable, and nobody has given up there since the vector table *)
(* was last dropped.                                                       *)
Settled == ~together /\ ~torn /\ \A s \in Sessions : pc[s] \notin EnsureLabels

(* semantic_search finds every symbol there is, and nothing else.  A       *)
(* vector in the index is always that of the stored symbol and fits the    *)
(* table, although rebuildVectorTable copies vectors outside the           *)
(* transaction that read them.  Between sessions the dimension on record   *)
(* is that of the vector table (or else ensureVectorTable is satisfied and *)
(* every insertion fails), and each stored vector of that dimension is in  *)
(* it, whatever changes of provider and failures came before; a table that *)
(* was left half way is whole again once it has been dropped and filled.   *)
VectorIndexIsSound ==
    /\ \A x \in Symbols : vectors[x] # NoRow =>
        /\ vectors[x] = codeSymbols[x]
        /\ tableDim = Dimension[vectors[x].by]
    /\ Settled /\ recorded # NoDimension => tableDim = recorded
    /\ Settled => \A x \in Symbols :
        codeSymbols[x] # NoRow /\ Dimension[codeSymbols[x].by] = recorded
            => vectors[x] = codeSymbols[x]
=============================================================================
