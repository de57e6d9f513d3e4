---- MODULE MCTools ----
(* One request to a tool that analyses a loaded program: a client that reads  *)
(* a result list in pieces, the tools over import graphs and call graphs, or  *)
(* the concurrency analysis, or the search for orphaned models; or a few      *)
(* calls of the tools that list the flattened tables.                         *)
EXTENDS PackageGraph, CallGraph, Streaming, ConcurrencyRisks, Listings, OrmUsage

CONSTANT MaxItem

SymmetricAsks == Permutations(Asks)

-----------------------------------------------------------------------------
(* Lists: every sorted list over a few items, and the configured defaults     *)
(* that matter: none, a chunk size, a shifted window, a cap.                  *)

SortedLists == {SetToSortSeq(S, <) : S \in SUBSET (1..MaxItem)}

Output(limit, offset, maxItems, chunkSize) ==
    [limit |-> limit, offset |-> offset, maxItems |-> maxItems, chunkSize |-> chunkSize]

NoDefaults == Output(0, 0, 0, 0)

AllOutputs == {NoDefaults, Output(0, 0, 3, 2), Output(1, 1, 0, 0), Output(0, 0, 3, 0)}

-----------------------------------------------------------------------------
(* Import graphs of a few packages and call graphs of a few functions.        *)

AllPackages == 1..4

\* Import graphs with nested and overlapping cycles; a narrow pattern leaves
\* packages 3 and 4, or only 3, outside of the program.
SomePrograms ==
    LET Imports == {<<1, 2>>, <<2, 3>>, <<3, 1>>, <<2, 1>>, <<3, 4>>, <<4, 2>>, <<1, 4>>}
        Program(L, I) == [loaded |-> L, imports |-> [p \in L |-> {q \in AllPackages : <<p, q>> \in I}]]
    IN  {Program(L, I) : L \in {{1, 2}, {1, 2, 4}, AllPackages}, I \in SUBSET Imports}

\* Package 1 is the root directory of package 2.
Tree == [p \in AllPackages |-> IF p = 1 THEN {2} ELSE {}]

\* Pages and chunks, a cursor, and caps below the number of dependents.
SomeWindows ==
    LET Window(limit, offset, maxItems, chunkSize, resume) ==
            [limit |-> limit, offset |-> offset, maxItems |-> maxItems,
             chunkSize |-> chunkSize, from |-> resume]
    IN  {Window(l, 0, m, 0, 0) : l \in {0, 1, 2}, m \in {0, 1}} \cup
        {Window(0, 1, 0, 0, 0), Window(1, 1, 2, 0, 0), Window(0, 0, 0, 1, 0),
         Window(0, 0, 0, 1, 1), Window(0, 0, 2, 3, 1), Window(0, 0, 1, 3, 0),
         Window(1, 1, 1, 1, 0)}

SomeRules ==
    LET Rule(t, b, tree) == [type |-> t, from |-> 1, to |-> b, tree |-> tree]
    IN  {Rule("forbid", 3, FALSE), Rule("forbid", 1, TRUE),
         Rule("allow_only", 1, TRUE), Rule("allow_prefix", 1, FALSE)}

AllFuncs == 1..4

CallsOf(type, pairs) == {[caller |-> p[1], callee |-> p[2], type |-> type] : p \in pairs}

\* A diamond in which the longer way to 3 may be walked first, with cycles, a
\* recursive function and, in some, a call that is also started by go.
SomeCallGraphs ==
    LET Plain == CallsOf("Static", {<<1, 2>>, <<2, 3>>, <<1, 3>>, <<3, 4>>, <<4, 2>>, <<4, 4>>})
    IN  SUBSET Plain \cup {g \cup CallsOf("Goroutine", {<<2, 3>>}) : g \in SUBSET Plain}

\* The requested pattern does not load function 1.
NarrowFuncs == {2, 3, 4}

OwnFuncs == [p \in {"narrow", "broad"} |-> IF p = "narrow" THEN NarrowFuncs ELSE AllFuncs]

Match(exact, fold) == [exact |-> exact, fold |-> fold]

\* Not in the pattern; found only without regard to case; decided because 2 is
\* synthetic; ambiguous.
SomeQueries == {Match({1}, {1}), Match({}, {4}), Match({2, 3}, {2, 3}), Match({3, 4}, {3, 4})}

SomeRoles ==
    LET Role(entry, callbacks, exported, scope) ==
            [entry |-> entry, callbacks |-> callbacks, exported |-> exported,
             candidates |-> AllFuncs \ entry, scope |-> scope]
    IN  {Role({2}, {}, {}, AllFuncs), Role({}, {4}, {}, AllFuncs), Role({}, {}, {4}, {3, 4})}

-----------------------------------------------------------------------------
(* Small analysed programs: what main does next to the goroutine it starts,   *)
(* what the goroutine does, and the helpers they may call.                    *)

I(op, on) == [op |-> op, on |-> on]

Under(lock, unlock, m, body) == <<I(lock, m)>> \o body \o <<I(unlock, m)>>

StoreX == <<I("Store", "x")>>
LoadX == <<I("Load", "x")>>
CallHelper == <<I("Call", "helper")>>

Segments ==
    {StoreX, LoadX, <<I("AtomicStore", "x")>>, <<I("DynCall", "x")>>, CallHelper,
     Under("Lock", "Unlock", "mu", StoreX), Under("RLock", "RUnlock", "mu", LoadX),
     Under("RLock", "RUnlock", "mu", StoreX), Under("Lock", "Unlock", "nu", StoreX),
     <<I("Lock", "mu"), I("DeferUnlock", "mu")>> \o StoreX,
     <<I("RLock", "mu"), I("DeferRUnlock", "mu")>> \o LoadX,
     Under("Lock", "Unlock", "mu", CallHelper), Under("Lock", "Unlock", "mu", <<I("DynCall", "x")>>),
     Under("Lock", "Unlock", "mu", StoreX) \o <<I("Load", "y")>>}

\* The goroutine is started before, or after, or while main holds a lock.
MainBodies ==
    {<<I("Go", "worker")>> \o s : s \in Segments} \cup
    {<<I("Go", "worker")>>, StoreX \o <<I("Go", "worker")>>,
     Under("Lock", "Unlock", "mu", <<I("Go", "worker")>> \o StoreX)}

\* [helper, leaf]
HelperBodies ==
    {<<StoreX, <<>>>>, <<Under("Lock", "Unlock", "mu", StoreX), <<>>>>,
     <<<<I("Call", "leaf")>>, LoadX>>,
     <<<<I("Lock", "nu"), I("DeferUnlock", "nu"), I("Call", "leaf")>>, StoreX>>}

HasOp(op, body) == \E i \in DOMAIN body : body[i].op = op

\* An unresolved call is only tracked back to the object where the goroutine
\* captured it.
SomeGoPrograms ==
    LET Program(m, w, h, c, r, n) ==
            [body |-> [f \in GoFunctions |-> CASE f = "main" -> m [] f = "worker" -> w
                                               [] f = "helper" -> h[1] [] f = "leaf" -> h[2]],
             closure |-> c, root |-> r, workers |-> n]
    IN  {Program(q[1], q[2], q[3], q[4], q[5], q[6]) :
            q \in {p \in MainBodies \X Segments \X (HelperBodies \cup {<<<<>>, <<>>>>})
                        \X BOOLEAN \X {"param", "alloc"} \X {1, 2} :
                    /\ (p[3][1] # <<>>) = (HasOp("Call", p[1]) \/ HasOp("Call", p[2]))
                    /\ HasOp("DynCall", p[2]) => p[4]}}

\* They are within what RacesAreReported is about.
ASSUME GoProgramsAreDisciplined == \A p \in SomeGoPrograms : Disciplined(p)

-----------------------------------------------------------------------------
(* Programs that use a model: main passes it to a function, and three         *)
(* functions of two parameters, the second of them a method, hand parameters  *)
(* on to each other, in place or swapped, or to an operation.                 *)

Param(i) == [param |-> i, model |-> FALSE]
AModel == [param |-> 0, model |-> TRUE]

Operation(args) == [op |-> TRUE, callee |-> Dynamic, args |-> args, recv |-> NoValue]
OperationOn(receiver) == [op |-> TRUE, callee |-> Dynamic, args |-> <<>>, recv |-> receiver]
HandOn(f, args) == [op |-> FALSE, callee |-> f, args |-> args, recv |-> NoValue]

WrapperBodies ==
    {<<>>, <<Operation(<<Param(2)>>)>>, <<OperationOn(Param(1))>>,
     <<HandOn("a", <<Param(1), Param(2)>>)>>, <<HandOn("b", <<Param(2), Param(1)>>)>>,
     <<HandOn("c", <<Param(0), Param(2)>>), HandOn("b", <<Param(1), Param(1)>>)>>}

ModelUses ==
    {<<HandOn("a", <<AModel, Param(0)>>)>>, <<HandOn("b", <<Param(0), AModel>>)>>,
     <<HandOn("c", <<AModel, AModel>>)>>}

SomeApps ==
    {[body |-> ("main" :> m @@ "a" :> w[1] @@ "b" :> w[2] @@ "c" :> w[3]),
      mentioned |-> TRUE, migrations |-> "", scope |-> {}] :
        m \in ModelUses, w \in WrapperBodies \X WrapperBodies \X WrapperBodies} \cup
    {[body |-> [f \in AppFuncs |-> IF f = "main" THEN m ELSE <<>>], mentioned |-> n, migrations |-> t, scope |-> s] :
        m \in {<<>>, <<Operation(<<AModel>>)>>}, n \in BOOLEAN, t \in {"", "other", "table"},
        s \in SUBSET {"models", "cmd"}}

-----------------------------------------------------------------------------
Init ==
    \/ InitStreaming /\ ImportsOff /\ CallsOff /\ RisksOff /\ ListingsOff /\ OrmOff
    \/ InitImports /\ StreamOff /\ CallsOff /\ RisksOff /\ ListingsOff /\ OrmOff
    \/ InitCalls /\ StreamOff /\ ImportsOff /\ RisksOff /\ ListingsOff /\ OrmOff
    \/ InitRisks /\ StreamOff /\ ImportsOff /\ CallsOff /\ ListingsOff /\ OrmOff
    \/ InitListings /\ StreamOff /\ ImportsOff /\ CallsOff /\ RisksOff /\ OrmOff
    \/ InitOrm /\ StreamOff /\ ImportsOff /\ CallsOff /\ RisksOff /\ ListingsOff

Next ==
    \/ phase # "off" /\ NextStreaming /\ UNCHANGED <<pgvars, cgvars, crvars, lsvars, ouvars>>
    \/ tool # "off" /\ NextImports /\ UNCHANGED <<stvars, cgvars, crvars, lsvars, ouvars>>
    \/ pc # "off" /\ NextCalls /\ UNCHANGED <<stvars, pgvars, crvars, lsvars, ouvars>>
    \/ NextRisks /\ UNCHANGED <<stvars, pgvars, cgvars, lsvars, ouvars>>
    \/ cached # <<>> /\ NextListings /\ UNCHANGED <<stvars, pgvars, cgvars, crvars, ouvars>>
    \/ verdict # "off" /\ NextOrm /\ UNCHANGED <<stvars, pgvars, cgvars, crvars, lsvars>>

Spec == Init /\ [][Next]_<<stvars, pgvars, cgvars, crvars, lsvars, ouvars>>

\* Every component keeps its types.
TypeOK == StreamTypeOK /\ ImportsTypeOK /\ CallsTypeOK /\ ThreadsTypeOK /\ ListingsTypeOK
          /\ OrmTypeOK
====
