---- MODULE Listings ----
(***************************************************************************)
(* The tools that answer from the flattened tables of .gax/cache.db:       *)
(* list_http_routes, list_grpc_endpoints and package_dependencies.  A call *)
(* makes sure that its pattern is loaded, which stores the rows of the     *)
(* program before it is cached, and then lists all rows there are.         *)
(*                                                                         *)
(* A row is [pkg, name, guess]: a route, a registration or an import of a  *)
(* package.  Its key has what the load guessed (the framework of a route,  *)
(* whether an import is a package of the program), which depends on the    *)
(* mode of the load.  Rows are inserted or overwritten, never deleted.     *)
(* One gRPC service is declared in one package and registered in another.  *)
(***************************************************************************)
EXTENDS Integers, FiniteSets

CONSTANTS
    Sources,        \* the packages of the workspace
    Patterns,       \* the sets of packages a pattern may match
    RowNames,       \* what a package may register or import
    Guessed,        \* the names whose row depends on the mode
    Declares,       \* the package that declares the service
    Registers,      \* the package that registers it, under the name "register"
    Asks,           \* the calls
    MaxRevisions,   \* bound on the edits
    NoProgram

ASSUME PatternsAssumption == Patterns \subseteq SUBSET Sources
ASSUME MaxRevisionsAssumption == MaxRevisions \in Nat

VARIABLES
    text,           \* package -> the names its source has now
    revisions,
    tables,         \* [rows, endpoint]: what is stored
    cached,         \* pattern -> its program in the cache
    ask,            \* call -> [pattern, mode]
    step,           \* call -> "idle", "load", "store", "cache", "list", "done"
    served,         \* call -> its program
    listed,         \* call -> what it answered
    failed          \* some program was cached although it was not stored

lsvars == <<text, revisions, tables, cached, ask, step, served, listed, failed>>

Modes == {"syntax", "types"}
Endpoints == {"unknown", "unregistered", "registered"}

Guess(n, mode) == IF n \in Guessed THEN mode ELSE "sure"

-----------------------------------------------------------------------------
(* Loading.  A service counts as registered when a registration is in the   *)
(* same program.                                                            *)

buildGRPCEndpoints(pattern) ==
    CASE Declares \notin pattern -> "unknown"
      [] Declares \in pattern /\ Registers \in pattern /\ "register" \in text[Registers] -> "registered"
      [] OTHER -> "unregistered"

loadProgram(pattern, mode) ==
    [mode     |-> mode,
     rows     |-> {row \in [pkg : pattern, name : RowNames, guess : Modes \cup {"sure"}] :
                        row.name \in text[row.pkg] /\ row.guess = Guess(row.name, mode)},
     endpoint |-> buildGRPCEndpoints(pattern)]

\* ON CONFLICT DO UPDATE, for every table of rows.
upsertRows(rows) == tables.rows \cup rows

\* The registration of an endpoint is overwritten by what this program knows
\* of it; a program without the service leaves the endpoint alone.
upsertGRPCEndpoints(endpoint) == IF endpoint = "unknown" THEN tables.endpoint ELSE endpoint

\* All rows are read, whichever load they come from.
GetHTTPRoutes == tables.rows
GetGRPCEndpoints == tables.endpoint

-----------------------------------------------------------------------------
InitListings ==
    /\ text \in [Sources -> SUBSET RowNames]
    /\ tables = [rows |-> {}, endpoint |-> "unknown"]
    /\ ask = [c \in Asks |-> [pattern |-> {}, mode |-> "syntax"]]
    /\ step = [c \in Asks |-> "idle"]
    /\ revisions = 0
    /\ cached = [p \in Patterns |-> NoProgram]
    /\ served = [c \in Asks |-> NoProgram]
    /\ listed = [c \in Asks |-> NoProgram]
    /\ failed = FALSE

ListingsOff ==
    /\ text = [p \in Sources |-> {}]
    /\ tables = [rows |-> {}, endpoint |-> "unknown"]
    /\ ask = <<>> /\ step = [c \in Asks |-> "off"]
    /\ revisions = 0 /\ cached = <<>> /\ served = <<>> /\ listed = <<>> /\ failed = FALSE

Move(c, from, to) == step[c] = from /\ step' = [step EXCEPT ![c] = to]

\* The cache has a program of the pattern, of this mode or a higher one.
Hit(pattern, mode) ==
    cached[pattern] # NoProgram /\ (mode = "types" => cached[pattern].mode = "types")

\* GetOrLoadSyntaxOnly or GetOrLoad: a hit, or a load.
Ask(c, pattern, mode) ==
    /\ ask' = [ask EXCEPT ![c] = [pattern |-> pattern, mode |-> mode]]
    /\ Move(c, "idle", IF Hit(pattern, mode) THEN "list" ELSE "load")
    /\ served' = [served EXCEPT ![c] = cached[pattern]]
    /\ UNCHANGED <<text, revisions, tables, cached, listed, failed>>

\* Mutant: the program is cached when it is loaded, and stored afterwards.
LoadAndCache(c) ==
    /\ Move(c, "load", "store")
    /\ served' = [served EXCEPT ![c] = loadProgram(ask[c].pattern, ask[c].mode)]
    /\ cached' = [cached EXCEPT ![ask[c].pattern] = served'[c]]
    /\ UNCHANGED <<text, revisions, tables, ask, listed, failed>>

Load(c) ==
    /\ Move(c, "load", "store")
    /\ served' = [served EXCEPT ![c] = loadProgram(ask[c].pattern, ask[c].mode)]
    /\ UNCHANGED <<text, revisions, tables, cached, ask, listed, failed>>

\* One transaction for all the tables.
Store(c) ==
    /\ Move(c, "store", "cache")
    /\ tables' = [rows     |-> upsertRows(served[c].rows),
                  endpoint |-> upsertGRPCEndpoints(served[c].endpoint)]
    /\ UNCHANGED <<text, revisions, cached, ask, served, listed, failed>>

\* The database, the configuration or the embedding provider fails: this is
\* logged, and the program is cached all the same.
StoreFails(c) ==
    /\ Move(c, "store", "cache")
    /\ failed' = TRUE
    /\ UNCHANGED <<text, revisions, tables, cached, ask, served, listed>>

Cache(c) ==
    LET p == ask[c].pattern
    IN  /\ Move(c, "cache", "list")
        /\ cached' = IF Hit(p, ask[c].mode) THEN cached ELSE [cached EXCEPT ![p] = served[c]]
        /\ served' = [served EXCEPT ![c] = cached'[p]]
        /\ UNCHANGED <<text, revisions, tables, ask, listed, failed>>

\* The pattern of the call plays no part in the answer.
List(c) ==
    /\ Move(c, "list", "done")
    /\ listed' = [listed EXCEPT ![c] = [rows |-> GetHTTPRoutes, endpoint |-> GetGRPCEndpoints]]
    /\ UNCHANGED <<text, revisions, tables, cached, ask, served, failed>>

\* An eviction, a reload or clear_cache.
Evict(p) ==
    /\ cached[p] # NoProgram
    /\ cached' = [cached EXCEPT ![p] = NoProgram]
    /\ UNCHANGED <<text, revisions, tables, ask, step, served, listed, failed>>

Revise(p) ==
    /\ revisions < MaxRevisions
    /\ revisions' = revisions + 1
    /\ \E T \in (SUBSET RowNames) \ {text[p]} : text' = [text EXCEPT ![p] = T]
    /\ UNCHANGED <<tables, cached, ask, step, served, listed, failed>>

NextListings ==
    \/ \E c \in Asks :
        \/ \E p \in Patterns, m \in Modes : Ask(c, p, m)
        \/ Load(c) \/ Store(c) \/ StoreFails(c) \/ Cache(c) \/ List(c)
    \/ \E p \in Patterns : Evict(p)
    \/ \E p \in Sources : Revise(p)

SpecListings == InitListings /\ [][NextListings]_lsvars

-----------------------------------------------------------------------------
\* The tables, the texts and the bound stay in their types.
ListingsTypeOK ==
    /\ text \in [Sources -> SUBSET RowNames]
    /\ revisions \in 0..MaxRevisions
    /\ tables.rows \subseteq [pkg : Sources, name : RowNames, guess : Modes \cup {"sure"}]
    /\ tables.endpoint \in Endpoints
    /\ failed \in BOOLEAN

\* ListHTTPRoutes, ListGRPCEndpoints and GetPackageDependencies: although the
\* answer comes from tables that other loads overwrite, it has everything of
\* the program the call was served, unless a snapshot failed.  The rows of a
\* program are stored before anybody can get it from the cache.  The filter of
\* GetPackageDependencies, which leaves imports of the standard library out when
\* the call does not ask for them (isStdlib), is not modelled: the rows are those
\* it keeps.
ListingIsComplete ==
    \A c \in Asks : step[c] = "done" /\ ~failed =>
        /\ served[c].rows \subseteq listed[c].rows
        /\ served[c].endpoint # "unknown" => listed[c].endpoint # "unknown"
====
