---- MODULE MCPersistence ----
(* What outlives a server: either sessions write and search the database of  *)
(* a workspace, or two calls and an editor are at its configuration files.   *)
EXTENDS ShadowStore, WorkspaceConfig

VARIABLE active     \* the component at work: "store" or "config"

-----------------------------------------------------------------------------
CONSTANTS none, local

\* The deterministic fallback has 16 dimensions; 1024 is the dimension of
\* the configuration the README shows.
DimensionOf == [p \in Providers |-> IF p = none THEN 16 ELSE 1024]

-----------------------------------------------------------------------------
In(root) == [root |-> <<root>>, patterns |-> <<>>]

SomeTrees ==
    {[work |-> Unset, mod |-> FALSE, sound |-> TRUE],
     [work |-> Unset, mod |-> TRUE, sound |-> FALSE],
     [work |-> <<<<"a">>, <<"b">>>>, mod |-> TRUE, sound |-> TRUE]}

Api == [Blank EXCEPT !.provider = "api", !.dimension = 1024]
Tuned == [Blank EXCEPT !.limit = 7, !.capacity = 2]
Modules == [Blank EXCEPT !.modules = <<In("a"), In("a")>>, !.limit = 9]
Patterns == [Blank EXCEPT !.patterns = <<Everything, Everything>>, !.provider = "local"]

SomeContents ==
    "user" :> {Absent, Api, Tuned} @@ "repo" :> {Absent, Modules, Broken} @@ "project" :> {Absent, Patterns}

Request(tool, overwrite, dismiss, reopen) ==
    [tool |-> tool, overwrite |-> overwrite, dismiss |-> dismiss, reopen |-> reopen,
     patterns |-> <<>>, limit |-> Unset]

SomeRequests ==
    {Request("analysis", FALSE, FALSE, FALSE), Request("inspect", FALSE, FALSE, FALSE),
     Request("init", FALSE, FALSE, FALSE), Request("init", TRUE, FALSE, FALSE)} \cup
    {Request("settings", FALSE, d, r) : d, r \in BOOLEAN}

-----------------------------------------------------------------------------
Symmetry == Permutations(Symbols) \cup Permutations(Sessions) \cup Permutations(Calls)

Init ==
    \/ /\ active = "store"
       /\ InitStore /\ InitConfig
       /\ tree = [work |-> Unset, mod |-> FALSE, sound |-> TRUE]
       /\ file = [l \in ToSet(Layers) |-> Absent]
    \/ /\ active = "config"
       /\ InitConfig /\ InitStore
       /\ provider = none /\ together = FALSE

Next ==
    \/ active = "store" /\ NextStore /\ UNCHANGED <<cfvars, active>>
    \/ active = "config" /\ NextConfig /\ UNCHANGED <<ssvars, active>>

Spec == Init /\ [][Next]_<<ssvars, cfvars, active>>

\* Both components keep their types.
TypeOK == StoreTypeOK /\ ConfigTypeOK
====
