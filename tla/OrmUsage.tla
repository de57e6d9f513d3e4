---- MODULE OrmUsage ----
(***************************************************************************)
(* find_orphaned_database_models for one model type: which functions hand  *)
(* a parameter on to an ORM operation, worked out in a bounded number of   *)
(* passes over all functions, and what the tool then says of the model.    *)
(*                                                                         *)
(* A function is the sequence of its calls [op, callee, args, recv]: op    *)
(* says whether the name of the call is an operation of the model's        *)
(* framework; callee is Dynamic when it is not known.  A value is          *)
(* [param, model]: the parameter it comes from (0 if none) and whether its *)
(* type contains the model, both seen through loads and conversions.       *)
(***************************************************************************)
EXTENDS Integers, FiniteSets, SequencesExt

CONSTANTS
    AppFuncs,       \* the functions of the analysed program
    Methods,        \* those of them that are methods: args[1] is the receiver
    Apps,           \* [body, mentioned, migrations, scope]: analysed programs,
                    \* with the packages the scope pattern selects
    ModelPkg,       \* the package of the model
    MaxPasses,      \* maxOrmUsageExpansionDepth
    Dynamic

ASSUME MaxPassesAssumption == MaxPasses \in Nat \ {0}
ASSUME MethodsAssumption == Methods \subseteq AppFuncs

Values == [param : Nat, model : BOOLEAN]
AppCalls ==
    [op : BOOLEAN, callee : AppFuncs \cup {Dynamic}, args : Seq(Values), recv : Values]

ASSUME AppFuncsAssumption == IsFiniteSet(AppFuncs) /\ Dynamic \notin AppFuncs
ASSUME AppsAssumption == \A a \in Apps : a.body \in [AppFuncs -> Seq(AppCalls)]

VARIABLES
    app,            \* the analysed program
    order,          \* the functions, in the order in which a pass takes them
    pass,
    turn,           \* the place in order
    changed,
    summaries,      \* function -> [params, receiver]
    verdict         \* "", "kept", "no_references", "no_orm_usage" or "skipped";
                    \* "off" when another component is at work

ouvars == <<app, order, pass, turn, changed, summaries, verdict>>

\* A scope pattern that selects nothing is as good as none.
InScope == app.scope = {} \/ ModelPkg \in app.scope

CallsIn(f) == ToSet(app.body[f])

-----------------------------------------------------------------------------
(* Summaries.                                                               *)

NoValue == [param |-> 0, model |-> FALSE]

receiverValue(call) ==
    IF call.callee \in Methods
    THEN IF call.args = <<>> THEN NoValue ELSE call.args[1]
    ELSE call.recv

callReceiverComesFromFunctionParam(call) == receiverValue(call).param > 0

callModelParamIndexes(args) == {args[i].param : i \in DOMAIN args} \ {0}

\* ssa.Call keeps the receiver of a method as its first argument.
callArgIndexForCalleeParam(callee, i) == i

forwardedOrmParamIndexes(call, params) ==
    {call.args[i].param :
        i \in {callArgIndexForCalleeParam(call.callee, p) : p \in params} \cap DOMAIN call.args}
    \ {0}

\* What one call adds to the summary of f.  f's own parameters are seen as they
\* are recorded; that its receiver drives an operation is filed at the end.
Add(f, summary, call) ==
    LET callee == IF call.callee = f THEN [summaries[f] EXCEPT !.params = summary.params]
                  ELSE summaries[call.callee]
    IN  CASE call.op ->
                [params   |-> summary.params \cup callModelParamIndexes(call.args),
                 receiver |-> summary.receiver \/ callReceiverComesFromFunctionParam(call)]
          [] ~call.op /\ call.callee \in AppFuncs ->
                [params   |-> summary.params \cup forwardedOrmParamIndexes(call, callee.params),
                 receiver |-> \/ summary.receiver
                              \/ callee.receiver /\ callReceiverComesFromFunctionParam(call)]
          [] OTHER -> summary

Summary(f) ==
    LET After[n \in 0..Len(app.body[f])] ==
            IF n = 0 THEN summaries[f] ELSE Add(f, After[n - 1], app.body[f][n])
    IN  After[Len(app.body[f])]

\* Mutant: the last function decides whether there is another pass.
buildOrmUsageSummariesLast ==
    /\ verdict = "" /\ InScope /\ turn <= Len(order)
    /\ LET f == order[turn]
       IN  /\ summaries' = [summaries EXCEPT ![f] = Summary(f)]
           /\ changed' = (Summary(f) # summaries[f])
    /\ turn' = turn + 1
    /\ UNCHANGED <<app, order, pass, verdict>>

\* One function in one pass.
buildOrmUsageSummaries ==
    /\ verdict = "" /\ InScope /\ turn <= Len(order)
    /\ LET f == order[turn]
       IN  /\ summaries' = [summaries EXCEPT ![f] = Summary(f)]
           /\ changed' = (changed \/ Summary(f) # summaries[f])
    /\ turn' = turn + 1
    /\ UNCHANGED <<app, order, pass, verdict>>

Again == pass < MaxPasses /\ changed

NextPass ==
    /\ verdict = "" /\ turn > Len(order) /\ Again
    /\ pass' = pass + 1
    /\ turn' = 1
    /\ changed' = FALSE
    /\ UNCHANGED <<app, order, summaries, verdict>>

-----------------------------------------------------------------------------
(* The verdict.                                                             *)

receiverContainsModel(call) == receiverValue(call).model

callUsesModelInOrm(call) ==
    \/ call.op /\ (receiverContainsModel(call) \/ \E i \in DOMAIN call.args : call.args[i].model)
    \/ /\ call.callee \in AppFuncs
       /\ \/ \E p \in summaries[call.callee].params :
                LET i == callArgIndexForCalleeParam(call.callee, p)
                IN  i \in DOMAIN call.args /\ call.args[i].model
          \/ summaries[call.callee].receiver /\ receiverContainsModel(call)

hasOrmUsage == \E f \in AppFuncs : \E call \in CallsIn(f) : callUsesModelInOrm(call)

\* The type occurs in a signature, an allocation or a store (mentioned), or as
\* the argument of a call.
countStructReferences ==
    app.mentioned \/ \E f \in AppFuncs : \E call \in CallsIn(f) :
                        \E i \in DOMAIN call.args : call.args[i].model

\* Without any text of migrations the table counts as found.
checkInMigrations == app.migrations \in {"", "table"}

\* The third and the fourth case of the switch repeat the first two for a
\* program without migrations.
Judge ==
    /\ verdict = "" /\ turn > Len(order) /\ ~Again
    /\ verdict' = IF hasOrmUsage \/ (checkInMigrations /\ app.migrations # "") THEN "kept"
                  ELSE IF countStructReferences THEN "no_orm_usage" ELSE "no_references"
    /\ UNCHANGED <<app, order, pass, turn, changed, summaries>>

Skip ==
    /\ verdict = "" /\ ~InScope
    /\ verdict' = "skipped"
    /\ UNCHANGED <<app, order, pass, turn, changed, summaries>>

-----------------------------------------------------------------------------
Empty == [f \in AppFuncs |-> [params |-> {}, receiver |-> FALSE]]

InitOrm ==
    /\ app \in Apps
    /\ order \in SetToSeqs(AppFuncs)
    /\ pass = 1 /\ turn = 1 /\ changed = FALSE
    /\ summaries = Empty
    /\ verdict = ""

OrmOff ==
    /\ app = {} /\ order = <<>> /\ pass = 1 /\ turn = 1 /\ changed = FALSE
    /\ summaries = Empty /\ verdict = "off"

NextOrm == Skip \/ buildOrmUsageSummaries \/ NextPass \/ Judge

SpecOrm == InitOrm /\ [][NextOrm]_ouvars

-----------------------------------------------------------------------------
\* The passes and the summaries stay in their types.
OrmTypeOK ==
    /\ pass \in 1..MaxPasses
    /\ turn \in 1..(Cardinality(AppFuncs) + 1)
    /\ changed \in BOOLEAN
    /\ summaries \in [AppFuncs -> [params : SUBSET Nat, receiver : BOOLEAN]]
    /\ verdict \in {"", "off", "kept", "skipped", "no_references", "no_orm_usage"}

ParamIndexes == UNION {callModelParamIndexes(c.args) : c \in UNION {CallsIn(f) : f \in AppFuncs}}

\* The parameters <<f, i>> that reach an argument of an ORM operation through
\* at most n functions, f included.
Handed(n) ==
    LET Layer[k \in 0..n] ==
            IF k = 0 THEN {}
            ELSE {h \in AppFuncs \X ParamIndexes :
                    \E call \in CallsIn(h[1]) : \E j \in DOMAIN call.args :
                        /\ call.args[j].param = h[2]
                        /\ call.op \/ <<call.callee, j>> \in Layer[k - 1]}
    IN  Layer[n]

AllHanded == Handed(Cardinality(AppFuncs) * (Cardinality(ParamIndexes) + 1))

Recorded == {h \in AppFuncs \X ParamIndexes : h[2] \in summaries[h[1]].params}

\* find_orphaned_database_models (docs/advanced-usage.md, "bounded wrapper
\* forwarding"): in whatever order the functions come, the passes record every
\* parameter that is handed on through at most MaxPasses functions, only
\* parameters that really reach an operation, and all of those when the last
\* pass changed nothing.  A model that some function passes to an ORM operation,
\* or to a chain of at most MaxPasses functions that hand it on to one, is not
\* reported, and neither is a model whose table is in the migrations.
WrappedUseIsKept ==
    /\ verdict \in {"kept", "no_references", "no_orm_usage"} =>
        /\ Handed(MaxPasses) \subseteq Recorded
        /\ Recorded \subseteq AllHanded
        /\ ~changed => Recorded = AllHanded
    /\ verdict \in {"no_references", "no_orm_usage"} =>
        /\ app.migrations # "table"
        /\ \A f \in AppFuncs : \A call \in CallsIn(f) : \A j \in DOMAIN call.args :
            call.args[j].model => ~call.op /\ <<call.callee, j>> \notin Handed(MaxPasses)
====
