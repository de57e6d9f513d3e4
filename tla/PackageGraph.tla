---- MODULE PackageGraph ----
(***************************************************************************)
(* The tools that read the import graph of a loaded program: import        *)
(* cycles, reverse dependencies and architecture boundaries.  Each is a    *)
(* machine that takes one turn of its loop per step; the initial state     *)
(* names the tool and the program.                                         *)
(*                                                                         *)
(* A package is a natural number, so that the code's sort orders are the   *)
(* order of the numbers.                                                   *)
(***************************************************************************)
EXTENDS QueryOptions, FiniteSets, SequencesExt

CONSTANTS
    Packages,       \* the packages of the workspace and what they import
    Programs,       \* [loaded, imports]: what a pattern may load
    Windows,        \* [limit, offset, maxItems, chunkSize, from]: the options of a
                    \* call; from is the offset of its cursor, 0 if it has none
    Rules,          \* [type, from, to, tree]: the rules of a boundary check
    Beneath         \* Beneath[p]: the packages below p in the directory tree

ASSUME PackagesAssumption == Packages \subseteq Nat /\ IsFiniteSet(Packages)
ASSUME ProgramsAssumption ==
    \A p \in Programs : /\ p.loaded \subseteq Packages
                        /\ p.imports \in [p.loaded -> SUBSET Packages]
ASSUME BeneathAssumption == Beneath \in [Packages -> SUBSET Packages]
ASSUME WindowsAssumption ==
    Windows \subseteq [limit : Int, offset : Int, maxItems : Int, chunkSize : Int, from : Nat]

VARIABLES
    tool,           \* "cycles", "reverse" or "boundaries"; "off" when another
                    \* component is at work
    program,        \* the loaded program
    running,
    index,          \* indexMap of findSCCs
    lowlink,
    stack,
    frames,         \* the calls of strongConnect: [node, todo]
    sccs,
    target,         \* the target of the reverse search
    pending,
    visited,
    found,          \* the answer of the reverse search
    rules,          \* the rules of the boundary check
    violations

tarjan == <<index, lowlink, stack, frames, sccs>>
search == <<target, pending, visited, found>>
checks == <<rules, violations>>
pgvars == <<tool, program, running, tarjan, search, checks>>

loaded == program.loaded
imports == program.imports

\* The paths of the packages in a set, sorted.
Sorted(S) == CHOOSE s \in SetToSeqs(S) : \A i, j \in DOMAIN s : i < j => s[i] < s[j]

-----------------------------------------------------------------------------
(* Import cycles.  Imports that were not loaded are skipped one by one.     *)

\* f with the next index for v.
WithNext(f, v) ==
    [p \in DOMAIN f \cup {v} |-> IF p = v THEN Cardinality(DOMAIN f) ELSE f[p]]

strongConnect(v) ==
    /\ index' = WithNext(index, v)
    /\ lowlink' = WithNext(lowlink, v)
    /\ stack' = Append(stack, v)

Frame(v) == [node |-> v, todo |-> Sorted(imports[v])]

\* The outer loop of findSCCs: the first key without an index.
StartRoot ==
    /\ tool = "cycles" /\ running /\ frames = <<>>
    /\ loaded \ DOMAIN index # {}
    /\ LET v == Head(Sorted(loaded \ DOMAIN index))
       IN  strongConnect(v) /\ frames' = <<Frame(v)>>
    /\ UNCHANGED <<tool, program, running, sccs, search, checks>>

\* Mutant: the stack is not looked at.
BackLinkAnywhere(v, w) == [lowlink EXCEPT ![v] = AtMost(index[w], @)]

\* A neighbour that was visited before and still waits for its component.
BackLink(v, w) ==
    IF w \in ToSet(stack) THEN [lowlink EXCEPT ![v] = AtMost(index[w], @)] ELSE lowlink

\* One neighbour of the package on top of the recursion.
Neighbour ==
    /\ tool = "cycles" /\ running /\ frames # <<>>
    /\ LET top == Last(frames)
           v == top.node
           w == Head(top.todo)
           rest == Append(Front(frames), [top EXCEPT !.todo = Tail(@)])
       IN  /\ top.todo # <<>>
           /\ \/ /\ w \notin loaded
                 /\ frames' = rest
                 /\ UNCHANGED <<index, lowlink, stack>>
              \/ /\ w \in loaded \ DOMAIN index
                 /\ strongConnect(w)
                 /\ frames' = Append(rest, Frame(w))
              \/ /\ w \in DOMAIN index
                 /\ lowlink' = BackLink(v, w)
                 /\ frames' = rest
                 /\ UNCHANGED <<index, stack>>
    /\ UNCHANGED <<tool, program, running, sccs, search, checks>>

\* strongConnect returns: it pops a component if v is its first package, and
\* the caller takes over the lowlink.
Return ==
    /\ tool = "cycles" /\ running /\ frames # <<>>
    /\ LET v == Last(frames).node
           callers == Front(frames)
           at == CHOOSE i \in DOMAIN stack : stack[i] = v
       IN  /\ Last(frames).todo = <<>>
           /\ IF lowlink[v] = index[v]
              THEN /\ sccs' = Append(sccs, SubSeq(stack, at, Len(stack)))
                   /\ stack' = SubSeq(stack, 1, at - 1)
              ELSE UNCHANGED <<sccs, stack>>
           /\ frames' = callers
           /\ lowlink' = IF callers = <<>> THEN lowlink
                         ELSE [lowlink EXCEPT ![Last(callers).node] = AtMost(lowlink[v], @)]
    /\ UNCHANGED <<tool, program, running, index, search, checks>>

\* DetectImportCycles keeps the components of two packages or more.
cycles == {c \in {ToSet(sccs[i]) : i \in DOMAIN sccs} : Cardinality(c) >= 2}

FinishCycles ==
    /\ tool = "cycles" /\ running /\ frames = <<>>
    /\ loaded \subseteq DOMAIN index
    /\ running' = FALSE
    /\ UNCHANGED <<tool, program, tarjan, search, checks>>

-----------------------------------------------------------------------------
(* Reverse dependencies.                                                    *)

reverseAdj(p) == {q \in loaded : p \in imports[q]}

direct == reverseAdj(target)

\* Mutant: the target is never counted among its dependents.
DependingNotTarget ==
    /\ tool = "reverse" /\ running /\ pending # <<>>
    /\ LET fresh == (reverseAdj(Head(pending)) \ visited) \ {target}
       IN  /\ visited' = visited \cup fresh
           /\ pending' = Tail(pending) \o Sorted(fresh)
    /\ UNCHANGED <<tool, program, running, target, found, tarjan, checks>>

\* One package of the queue, with everything that imports it.
Depending ==
    /\ tool = "reverse" /\ running /\ pending # <<>>
    /\ LET fresh == reverseAdj(Head(pending)) \ visited
       IN  /\ visited' = visited \cup fresh
           /\ pending' = Tail(pending) \o Sorted(fresh)
    /\ UNCHANGED <<tool, program, running, target, found, tarjan, checks>>

TransitiveCap(window) ==
    IF window.limit = 0 \/ (window.maxItems > 0 /\ window.maxItems < window.limit)
    THEN window.maxItems ELSE window.limit

\* The cursor of a call, as an earlier call with the same max_items got it for
\* the same dependents.
CursorOf(window) ==
    LET items == Addressable(Sorted(direct), window.maxItems)
    IN  IF window.from = 0 THEN NoCursor
        ELSE [offset |-> window.from, total |-> Len(items),
              fingerprint |-> streamFingerprint(items)]

\* The direct dependents are chunked or windowed; of the transitive ones, which
\* the call includes, only the first are kept, whatever offset and cursor are.
Answer(window) ==
    LET transitive == Sorted(visited \ direct)
        shown == streamOrWindow(Sorted(direct), CursorOf(window), window)
        cap == TransitiveCap(window)
        cut == cap > 0 /\ Len(transitive) > cap
    IN  [call       |-> window,
         direct     |-> shown.chunk,
         hasMore    |-> shown.hasMore,
         transitive |-> IF cut THEN SubSeq(transitive, 1, cap) ELSE transitive,
         total      |-> Cardinality(direct) + Len(transitive),
         truncated  |-> Truncates(Sorted(direct), CursorOf(window), window) \/ cut]

FinishSearch(window) ==
    /\ tool = "reverse" /\ running /\ pending = <<>>
    /\ window.from > 0 =>
            Streams(window) /\ window.from < Len(Addressable(Sorted(direct), window.maxItems))
    /\ found' = {Answer(window)}
    /\ running' = FALSE
    /\ UNCHANGED <<tool, program, target, pending, visited, tarjan, checks>>

-----------------------------------------------------------------------------
(* Architecture boundaries.  A pattern with a trailing "/" (tree) matches   *)
(* the package and everything beneath it.                                   *)

matchBoundaryPkg(p, pattern, tree) == p = pattern \/ (tree /\ p \in Beneath[pattern])

\* allow_prefix compares the text of the paths, so it always takes the tree.
matchBoundaryTo(p, rule) ==
    matchBoundaryPkg(p, rule.to, rule.tree \/ rule.type = "allow_prefix")

\* Mutant: the imports that were not loaded are judged instead.
BreaksOutside(prog, rule) ==
    {b \in [pkg : prog.loaded, imp : Packages] :
        /\ b.imp \in prog.imports[b.pkg]
        /\ matchBoundaryPkg(b.pkg, rule.from, rule.tree)
        /\ IF rule.type = "forbid"
           THEN matchBoundaryTo(b.imp, rule)
           ELSE b.imp \notin prog.loaded /\ ~matchBoundaryTo(b.imp, rule)}

\* The imports of a program that break a rule.  allow_only and allow_prefix
\* judge only the imports of packages that were loaded.
Breaks(prog, rule) ==
    {b \in [pkg : prog.loaded, imp : Packages] :
        /\ b.imp \in prog.imports[b.pkg]
        /\ matchBoundaryPkg(b.pkg, rule.from, rule.tree)
        /\ IF rule.type = "forbid"
           THEN matchBoundaryTo(b.imp, rule)
           ELSE b.imp \in prog.loaded /\ ~matchBoundaryTo(b.imp, rule)}

Violations(prog, R) == UNION {[rule : {r}, at : Breaks(prog, r)] : r \in R}

\* The check runs again, after a rule was added or the pattern was widened to
\* a program that has everything the last one had.
AddRule(r) ==
    /\ tool = "boundaries"
    /\ rules' = rules \cup {r}
    /\ violations' = Violations(program, rules')
    /\ UNCHANGED <<tool, program, running, tarjan, search>>

WidenPattern(prog) ==
    /\ tool = "boundaries"
    /\ loaded \subseteq prog.loaded
    /\ \A p \in loaded : prog.imports[p] = imports[p]
    /\ program' = prog
    /\ violations' = Violations(prog, rules)
    /\ UNCHANGED <<tool, running, rules, tarjan, search>>

-----------------------------------------------------------------------------
NoTarjan == index = <<>> /\ lowlink = <<>> /\ stack = <<>> /\ frames = <<>> /\ sccs = <<>>
NoSearch == target = 0 /\ pending = <<>> /\ visited = {}

InitImports ==
    /\ tool \in {"cycles", "reverse", "boundaries"}
    /\ program \in Programs
    /\ running = TRUE
    /\ NoTarjan
    /\ \/ tool # "reverse" /\ NoSearch
       \/ /\ tool = "reverse"
          /\ target \in Packages
          /\ visited = direct
          /\ pending \in SetToSeqs(direct)     \* the order of a Go map
    /\ found = {} /\ rules = {} /\ violations = {}

ImportsOff ==
    /\ tool = "off" /\ program = {} /\ running = FALSE
    /\ NoTarjan /\ NoSearch
    /\ found = {} /\ rules = {} /\ violations = {}

NextImports ==
    \/ StartRoot \/ Neighbour \/ Return \/ FinishCycles
    \/ Depending
    \/ \E w \in Windows : FinishSearch(w)
    \/ \E r \in Rules : AddRule(r)
    \/ \E prog \in Programs : WidenPattern(prog)

SpecImports == InitImports /\ [][NextImports]_pgvars

-----------------------------------------------------------------------------
\* What a package reaches over loaded imports: the reference for the answers.
Reach(p) ==
    LET Layer[n \in 0..Cardinality(loaded)] ==
            IF n = 0 THEN {p}
            ELSE Layer[n - 1] \cup UNION {imports[q] \cap loaded : q \in Layer[n - 1]}
    IN  Layer[Cardinality(loaded)]

Component(p) == {q \in Reach(p) : p \in Reach(q)}

\* The state of the three tools stays in its types.
ImportsTypeOK ==
    tool # "off" =>
        /\ loaded \subseteq Packages
        /\ running \in BOOLEAN
        /\ DOMAIN index \subseteq loaded
        /\ DOMAIN lowlink = DOMAIN index
        /\ stack \in Seq(loaded)
        /\ \A i \in DOMAIN frames : frames[i].node \in loaded
        /\ \A i \in DOMAIN sccs : sccs[i] \in Seq(loaded)
        /\ pending \in Seq(loaded)
        /\ visited \subseteq loaded
        /\ rules \subseteq Rules

\* DetectImportCycles: every list findSCCs emits is a strongly connected
\* component of the loaded packages, emitted after everything it imports (the
\* reverse topological order it promises), and at the end the reported cycles
\* are all of them, each once.
CyclesExact ==
    /\ \A i \in DOMAIN sccs : \A p \in ToSet(sccs[i]) :
        /\ ToSet(sccs[i]) = Component(p)
        /\ \A q \in Reach(p) : \E j \in 1..i : q \in ToSet(sccs[j])
    /\ tool = "cycles" /\ ~running =>
        /\ cycles = {c \in {Component(p) : p \in loaded} : Cardinality(c) >= 2}
        /\ \A i, j \in DOMAIN sccs : i # j => ToSet(sccs[i]) \cap ToSet(sccs[j]) = {}

Closed(S) == direct \subseteq S /\ \A p \in S : reverseAdj(p) \subseteq S

\* How many of the direct dependents a client of these options can get.
Addressed(call) ==
    IF call.chunkSize > 0 /\ call.maxItems > 0 THEN AtMost(Cardinality(direct), call.maxItems)
    ELSE Cardinality(direct)

\* FindReverseDependencies: in whatever order the queue is worked off, the
\* search ends with the least set that has the direct dependents and the
\* importers of each of its members (the target too, when it is in a cycle);
\* the answer is taken from that set, counts all of it, lists none twice, and
\* says "truncated" exactly when it leaves a dependent out.  In a stream the
\* direct dependents beyond max_items do not make it say so: they are counted,
\* but no chunk has them (streamOrWindow cuts the list before it chunks it).
DependentsExact ==
    tool = "reverse" /\ ~running =>
        /\ Closed(visited)
        /\ \A S \in SUBSET Packages : Closed(S) => visited \subseteq S
        /\ \A a \in found :
            /\ a.truncated <=> Len(a.direct) + Len(a.transitive)
                                  < Addressed(a.call) + Cardinality(visited \ direct)
            /\ a.hasMore => a.truncated
            /\ a.total = Cardinality(visited)
            /\ ToSet(a.direct) \cap ToSet(a.transitive) = {}
            /\ ToSet(a.direct) \cup ToSet(a.transitive) \subseteq visited

\* CheckArchitectureBoundaries: a wider pattern or one more rule never hides a
\* violation that was reported before.
NoViolationLost == [][violations \subseteq violations']_pgvars
====
