---- MODULE CallGraph ----
(***************************************************************************)
(* The tools that walk the call graph of a loaded program: callers and     *)
(* call hierarchy (one depth-bounded walk, over the incoming or over the   *)
(* outgoing calls), call paths, and dead code.  Each is a machine that     *)
(* takes one turn of its loop per step; the order in which the edges of a  *)
(* node come is left open.                                                 *)
(*                                                                         *)
(* The program of the requested pattern knows some functions of the        *)
(* workspace, the program of the fallback pattern knows all of them.  An   *)
(* *ssa.Function is a node of the graph of its own program only.           *)
(***************************************************************************)
EXTENDS Integers, FiniteSets, SequencesExt

CONSTANTS
    Funcs,          \* the functions of the workspace
    CallGraphs,     \* sets of edges [caller, callee, type]
    Narrow,         \* the functions the requested pattern loads
    Own,            \* Own[p]: the functions of p's root packages (SSAFuncs)
    Synthetic,      \* the functions the SSA builder made
    Queries,        \* [exact, fold]: the functions a name matches, with or
                    \* without regard to case
    Depths,         \* max_depth of a call, 0 when it is omitted
    DefaultDepth,   \* the depth that stands for an omitted or too large one
    DepthLimit,     \* the largest depth a call may ask for
    PathCounts,     \* max_paths of a call
    Roles           \* [entry, callbacks, exported, candidates, scope]

ASSUME FuncsAssumption == IsFiniteSet(Funcs) /\ Narrow \subseteq Funcs
ASSUME OwnAssumption == Own["narrow"] \subseteq Narrow /\ Own["broad"] \subseteq Funcs
ASSUME DepthsAssumption == Depths \subseteq Int /\ DefaultDepth \in Nat \ {0} /\ DepthLimit \in Nat
ASSUME PathCountsAssumption == PathCounts \subseteq Nat \ {0}
ASSUME RolesAssumption == \A r \in Roles : r.entry \cap r.candidates = {}
ASSUME CallGraphsAssumption ==
    \A g \in CallGraphs :
        g \subseteq [caller : Funcs, callee : Funcs, type : {"Static", "Goroutine"}]

VARIABLES
    request,        \* [tool, depth, paths, roles, mode]
    calls,          \* the call edges of the workspace
    pc,             \* "resolve", "run", "done" or "failed"
    prog,           \* "narrow" or "broad"
    resolved,       \* the functions resolved so far: [prog, fn]
    seenNodes,      \* node -> the smallest depth it was walked at
    seenEdges,      \* <<caller, callee>> -> the depth it was recorded with
    walks,          \* the calls of walk in progress: [node, depth, todo]
    queue,          \* the paths to extend, each a sequence of edges
    paths,          \* the paths found
    reason,         \* cutoff_reason: "", "max_paths" or "none"
    reachable,
    todo,           \* the calls of visit still to make
    dead            \* [unreferenced, unreachable, filtered]

cgvars == <<request, calls, pc, prog, resolved, seenNodes, seenEdges, walks,
            queue, paths, reason, reachable, todo, dead>>

walkVars == <<seenNodes, seenEdges, walks>>
pathVars == <<queue, paths, reason>>
deadVars == <<reachable, todo, dead>>

Known(p) == IF p = "broad" THEN Funcs ELSE Narrow

\* Mutant: the edges of every program.
EdgesOfAll(p) == calls

\* graph.Nodes and the edges of the call graph of a program.
Edges(p) == {e \in calls : e.caller \in Known(p) /\ e.callee \in Known(p)}

Out(p, f) == {e \in Edges(p) : e.caller = f}
In(p, f) == {e \in Edges(p) : e.callee = f}

-----------------------------------------------------------------------------
(* Names.                                                                   *)

FirstNonEmpty(sets) ==
    IF \E i \in DOMAIN sets : sets[i] # {}
    THEN sets[CHOOSE i \in DOMAIN sets : sets[i] # {} /\ \A j \in 1..(i - 1) : sets[j] = {}]
    ELSE {}

\* Several matches are narrowed to those of the root packages and then to those
\* the programmer wrote, where such exist.  More than one left: ambiguous.
findFunction(p, query) ==
    LET matches == FirstNonEmpty(<<query.exact \cap Own[p], query.exact \cap Known(p),
                                   query.fold \cap Own[p], query.fold \cap Known(p)>>)
        Prefer(S, T) == IF Cardinality(S) > 1 /\ S \cap T # {} THEN S \cap T ELSE S
    IN  Prefer(Prefer(matches, Own[p]), Funcs \ Synthetic)

\* The program and the function of findFunctionWithFallback.  Only a name that
\* is not found goes on to the fallback patterns, not an ambiguous one.  Those
\* that fail to load or do not have the name are skipped: "broad" is the first
\* that has it, when it loads.
findFunctionWithFallback(p, query, loads) ==
    LET Hit(q) == {[prog |-> q, fn |-> f] : f \in findFunction(q, query)}
    IN  IF Hit(p) = {} /\ loads THEN Hit("broad") ELSE Hit(p)

\* How many names the tool resolves, one after the other.
Names == CASE request.tool = "paths" -> 2 [] request.tool = "dead" -> 0 [] OTHER -> 1

\* The program that answered the last name is the one the tool goes on with.
Resolve(query, loads) ==
    LET hits == findFunctionWithFallback(prog, query, loads)
    IN  /\ pc = "resolve" /\ Len(resolved) < Names
        /\ IF Cardinality(hits) = 1
           THEN LET h == CHOOSE h \in hits : TRUE
                IN  resolved' = Append(resolved, h) /\ prog' = h.prog /\ pc' = pc
           ELSE pc' = "failed" /\ UNCHANGED <<resolved, prog>>
        /\ UNCHANGED <<request, calls, walkVars, pathVars, deadVars>>

EffectiveDepth(d) == IF d <= 0 \/ d > DepthLimit THEN DefaultDepth ELSE d

maxDepth == EffectiveDepth(request.depth)

-----------------------------------------------------------------------------
(* Callers and call hierarchy.                                              *)

Walks == request.tool \in {"callers", "hierarchy"}

NextEdges(f) == IF request.tool = "callers" THEN In(prog, f) ELSE Out(prog, f)
Across(e) == IF request.tool = "callers" THEN e.caller ELSE e.callee

\* Mutant: no function is walked twice, not even on a shorter way.
EntersOnce(f, d, seen) == d <= maxDepth /\ f \notin DOMAIN seen

\* walk(f, d) returns at once if it is too deep, or was here at this depth or
\* a smaller one.
Enters(f, d, seen) == d <= maxDepth /\ (f \in DOMAIN seen => seen[f] > d)

\* f with a value for x.
Put(f, x, v) == [y \in DOMAIN f \cup {x} |-> IF y = x THEN v ELSE f[y]]

walk(f, d, below) ==
    IF Enters(f, d, seenNodes)
    THEN /\ seenNodes' = Put(seenNodes, f, d)
         /\ walks' = Append(below, [node |-> f, depth |-> d, todo |-> NextEdges(f)])
    ELSE UNCHANGED seenNodes /\ walks' = below

StartWalk ==
    /\ Walks /\ pc = "resolve" /\ Len(resolved) = Names
    /\ pc' = "run"
    /\ walk(resolved[1].fn, 1, <<>>)
    /\ UNCHANGED <<request, calls, prog, resolved, seenEdges, pathVars, deadVars>>

WalkEdge ==
    /\ Walks /\ pc = "run" /\ walks # <<>>
    /\ LET top == Last(walks)
       IN  \E e \in top.todo :
              /\ seenEdges' = IF <<e.caller, e.callee>> \in DOMAIN seenEdges THEN seenEdges
                              ELSE Put(seenEdges, <<e.caller, e.callee>>, top.depth)
              /\ walk(Across(e), top.depth + 1,
                      Append(Front(walks), [top EXCEPT !.todo = @ \ {e}]))
    /\ UNCHANGED <<request, calls, pc, prog, resolved, pathVars, deadVars>>

WalkReturns ==
    /\ Walks /\ pc = "run" /\ walks # <<>>
    /\ Last(walks).todo = {}
    /\ walks' = Front(walks)
    /\ pc' = IF walks' = <<>> THEN "done" ELSE pc
    /\ UNCHANGED <<request, calls, prog, resolved, seenNodes, seenEdges, pathVars, deadVars>>

-----------------------------------------------------------------------------
(* Call paths.  A path is the sequence of its edges; the empty one starts   *)
(* the search.                                                              *)

from == resolved[1].fn
to == resolved[2].fn

On(path) == {from} \cup {path[i].callee : i \in DOMAIN path}
End(path) == IF path = <<>> THEN from ELSE Last(path).callee

\* A function resolved in another program than the last has no node here: the
\* answer is "not reachable", without a reason.
StartPaths ==
    /\ request.tool = "paths" /\ pc = "resolve" /\ Len(resolved) = Names
    /\ IF \A i \in 1..2 : resolved[i].prog = prog
       THEN pc' = "run" /\ queue' = <<<<>>>>
       ELSE pc' = "done" /\ UNCHANGED queue
    /\ UNCHANGED <<request, calls, prog, resolved, paths, reason, walkVars, deadVars>>

\* Mutant: the longer paths come first.
RequeueFirst(open) == open \o Tail(queue)

Requeue(open) == Tail(queue) \o open

\* The paths one edge longer that do not come back to a function of the path.
Longer(path) ==
    {Append(path, e) : e \in {g \in Out(prog, End(path)) : g.callee \notin On(path)}}

\* What the edges of one path lead to, in the order of node.Out: the path that
\* reaches the limit ends the search and cuts the rest off.
Extend(found, open) ==
    LET room == request.paths - Len(paths)
        kept == SubSeq(found, 1, IF Len(found) < room THEN Len(found) ELSE room)
    IN  /\ paths' = paths \o kept
        /\ queue' = Requeue(open)

DequeuePath ==
    /\ request.tool = "paths" /\ pc = "run"
    /\ queue # <<>> /\ Len(paths) < request.paths
    /\ IF Len(Head(queue)) >= maxDepth
       THEN queue' = Tail(queue) /\ UNCHANGED paths
       ELSE \E found \in SetToSeqs({p \in Longer(Head(queue)) : End(p) = to}) :
            \E open \in SetToSeqs({p \in Longer(Head(queue)) : End(p) # to}) :
                Extend(found, open)
    /\ UNCHANGED <<request, calls, pc, prog, resolved, reason, walkVars, deadVars>>

FinishPaths ==
    /\ request.tool = "paths" /\ pc = "run"
    /\ queue = <<>> \/ Len(paths) >= request.paths
    /\ reason' = IF Len(paths) >= request.paths THEN "max_paths"
                 ELSE IF paths = <<>> THEN "none" ELSE ""
    /\ pc' = "done"
    /\ UNCHANGED <<request, calls, prog, resolved, queue, paths, walkVars, deadVars>>

-----------------------------------------------------------------------------
(* Dead code.                                                               *)

roles == request.roles

\* main and init functions, and what any other function starts with go.
collectEntrypointNodes ==
    (roles.entry \cap Own[prog]) \cup
        {e.callee : e \in {g \in Edges(prog) : /\ g.type = "Goroutine"
                                               /\ g.caller \in Own[prog] \ roles.entry}}

\* The handlers that are passed to AddTool.
collectRegisteredCallbackNodes == roles.callbacks \cap Known(prog)

Seeds == collectEntrypointNodes \cup collectRegisteredCallbackNodes

StartDead ==
    /\ request.tool = "dead" /\ pc = "resolve"
    /\ pc' = "run"
    /\ todo' = Seeds
    /\ UNCHANGED <<request, calls, prog, resolved, reachable, dead, walkVars, pathVars>>

Visit(f) ==
    /\ request.tool = "dead" /\ pc = "run" /\ f \in todo
    /\ reachable' = reachable \cup {f}
    /\ todo' = (todo \cup {e.callee : e \in Out(prog, f)}) \ reachable'
    /\ UNCHANGED <<request, calls, pc, prog, resolved, dead, walkVars, pathVars>>

\* Mutant: registered handlers are judged too.
JudgedWithHandlers ==
    (roles.candidates \cap Own[prog] \cap roles.scope) \ roles.exported

\* Not closures, wrappers, main or init; in the scope of the report; not a
\* handler; and unexported unless the call asks for exported functions too.
Judged ==
    ((roles.candidates \cap Own[prog] \cap roles.scope)
        \ collectRegisteredCallbackNodes) \ roles.exported

FinishDead ==
    LET unreferenced == {f \in Judged : In(prog, f) = {}}
        unreachable == {f \in Judged \ unreferenced : f \notin reachable}
        audit == request.mode = "audit"
    IN  /\ request.tool = "dead" /\ pc = "run" /\ todo = {}
        /\ dead' = [unreferenced |-> unreferenced,
                    unreachable  |-> IF audit THEN unreachable ELSE {},
                    filtered     |-> IF audit THEN 0 ELSE Cardinality(unreachable)]
        /\ pc' = "done"
        /\ UNCHANGED <<request, calls, prog, resolved, reachable, todo, walkVars, pathVars>>
-----------------------------------------------------------------------------
Blank ==
    /\ resolved = <<>>
    /\ seenNodes = <<>> /\ seenEdges = <<>> /\ walks = <<>>
    /\ queue = <<>> /\ paths = <<>> /\ reason = ""
    /\ reachable = {} /\ todo = {}
    /\ dead = [unreferenced |-> {}, unreachable |-> {}, filtered |-> 0]

Requests ==
    [tool : {"callers", "hierarchy"}, depth : Depths]
        \cup [tool : {"paths"}, depth : Depths, paths : PathCounts]
        \cup [tool : {"dead"}, roles : Roles, mode : {"precision", "audit"}]

InitCalls ==
    /\ request \in Requests
    /\ calls \in CallGraphs
    /\ pc = "resolve"
    /\ prog = "narrow"
    /\ Blank

CallsOff ==
    /\ request = [tool |-> "off"] /\ calls = {} /\ pc = "off" /\ prog = "none"
    /\ Blank

NextCalls ==
    \/ \E q \in Queries, loads \in BOOLEAN : Resolve(q, loads)
    \/ StartWalk \/ WalkEdge \/ WalkReturns
    \/ StartPaths \/ DequeuePath \/ FinishPaths
    \/ StartDead \/ (\E f \in Funcs : Visit(f)) \/ FinishDead

SpecCalls == InitCalls /\ [][NextCalls]_cgvars

-----------------------------------------------------------------------------
\* What the tools visited, found and queued are functions and edges of the
\* program the request was resolved in.
CallsTypeOK ==
    pc # "off" =>
        /\ pc \in {"resolve", "run", "done", "failed"}
        /\ prog \in {"narrow", "broad"}
        /\ resolved \in Seq([prog : {"narrow", "broad"}, fn : Funcs])
        /\ DOMAIN seenNodes \subseteq Known(prog)
        /\ DOMAIN seenEdges \subseteq Known(prog) \X Known(prog)
        /\ reason \in {"", "max_paths", "none"}
        /\ reachable \subseteq Known(prog)
        /\ todo \subseteq Known(prog)

\* The functions at most n calls away from the root of the walk.
Near(n) ==
    LET Layer[k \in 0..n] ==
            IF k = 0 THEN {resolved[1].fn}
            ELSE Layer[k - 1] \cup {Across(e) : e \in UNION {NextEdges(f) : f \in Layer[k - 1]}}
    IN  Layer[n]

\* callers and call_hierarchy: in whatever order the edges come, the walk
\* reports exactly the calls within max_depth of the root, and walks every
\* function at its true distance in the end.
WalkExact ==
    Walks /\ pc = "done" =>
        /\ DOMAIN seenEdges =
               {<<e.caller, e.callee>> : e \in UNION {NextEdges(f) : f \in Near(maxDepth - 1)}}
        /\ \A f \in DOMAIN seenNodes :
               f \in Near(seenNodes[f] - 1) /\ (seenNodes[f] > 1 => f \notin Near(seenNodes[f] - 2))
        /\ \A c \in DOMAIN seenEdges : seenEdges[c] <= maxDepth

\* All cycle-free paths between the two functions, not longer than max_depth,
\* that reach the second one only at their end.
SimplePaths ==
    LET Trails[n \in 0..maxDepth] ==
            IF n = 0 THEN {<<>>}
            ELSE UNION {{Append(p, e) : e \in {g \in Out(prog, End(p)) : g.callee \notin On(p)}} :
                            p \in {q \in Trails[n - 1] : End(q) # to}}
    IN  {p \in UNION {Trails[n] : n \in 1..maxDepth} : End(p) = to}

\* find_call_path: when both names were found in one program, the paths are all
\* there are, unless max_paths cut the search; then they are as many as asked
\* for, and none is longer than a path left out.  Shorter paths come first.
PathsExact ==
    request.tool = "paths" /\ pc = "done" /\ resolved[1].prog = resolved[2].prog =>
        /\ IsInjective(paths)
        /\ ToSet(paths) \subseteq SimplePaths
        /\ \A i, j \in DOMAIN paths : i < j => Len(paths[i]) <= Len(paths[j])
        /\ IF reason = "max_paths"
           THEN /\ Len(paths) = request.paths
                /\ \A p \in SimplePaths \ ToSet(paths) : Len(p) >= Len(Last(paths))
           ELSE ToSet(paths) = SimplePaths /\ (reason = "none" <=> paths = <<>>)

Live ==
    LET Layer[n \in 0..Cardinality(Funcs)] ==
            IF n = 0 THEN Seeds
            ELSE Layer[n - 1] \cup {e.callee : e \in {g \in Edges(prog) : g.caller \in Layer[n - 1]}}
    IN  Layer[Cardinality(Funcs)]

\* find_dead_code: nothing that main, init, a started goroutine or a registered
\* handler can reach is reported, also not as "unreferenced", which does not
\* look at reachability; and every other function of the scope is counted, in
\* the precise mode too, which leaves most of them out.
DeadExact ==
    request.tool = "dead" /\ pc = "done" =>
        /\ (dead.unreferenced \cup dead.unreachable) \cap Live = {}
        /\ Cardinality(dead.unreferenced \cup dead.unreachable) + dead.filtered
               = Cardinality(Judged \ Live)
        /\ request.mode = "audit" => dead.filtered = 0
====
