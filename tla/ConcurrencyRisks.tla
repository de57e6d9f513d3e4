---- MODULE ConcurrencyRisks ----
(***************************************************************************)
(* detect_concurrency_risks against the programs it is about.  A state     *)
(* machine runs an analysed Go program, main and the goroutines it starts, *)
(* under Go's mutex semantics; next to it stand the risks that the scan    *)
(* reports for the program's text.                                         *)
(***************************************************************************)
EXTENDS AccessSummary

CONSTANTS
    GoPrograms,     \* [body, closure, root, workers]: the analysed programs
    DataFields,
    LockFields

GoInstructions ==
    [op : Accesses \cup {"DynCall"}, on : DataFields] \cup [op : LockCalls, on : LockFields]
        \cup [op : {"Call", "Go"}, on : GoFunctions]

ASSUME FieldsAssumption == "" \notin DataFields

ASSUME GoProgramsAssumption ==
    \A p \in GoPrograms :
        /\ p.body \in [GoFunctions -> Seq(GoInstructions)]
        /\ p.closure \in BOOLEAN /\ p.workers \in {1, 2} /\ p.root \in {"param", "alloc"}

VARIABLES
    code,           \* the analysed program
    risks,          \* what the scan says of it
    threads,        \* thread -> its calls: [fn, at, defers]
    started,        \* the goroutines that run
    writer,         \* lock -> the thread that holds it for writing
    readers         \* lock -> the threads that hold it for reading

crvars == <<code, risks, threads, started, writer, readers>>

Threads == {"main", "worker1", "worker2"}
NoThread == "none"

-----------------------------------------------------------------------------
(* The report.                                                              *)

isSharedGoroutineAccess(a) ==
    /\ a.key.kind \in {"param", "freevar", "unknown"}
    /\ ~(a.key.kind = "unknown" /\ a.key.field = "")

\* A lock of the same object, held for writing.
hasRelevantLock(a) ==
    \E l \in a.locks : ~l.read /\ l.key.kind = a.key.kind /\ l.key.id = a.key.id

\* All goroutines of one go statement have the same id.
mayRunConcurrently(a, b) == a.inGoroutine # b.inGoroutine

sameOrUnknownMemory(j, k) ==
    \/ j = k
    \/ /\ "unknown" \in {j.kind, k.kind}
       /\ j.id = k.id
       /\ j.field = k.field \/ "" \in {j.field, k.field}

\* Mutant: a read lock protects writes too.
lockModesProtectAny(a, l, b, m) == TRUE

lockModesProtect(a, l, b, m) == ~(a.write /\ l.read) /\ ~(b.write /\ m.read)

locksetsProtect(a, b) ==
    \E l \in a.locks, m \in b.locks : l.key = m.key /\ lockModesProtect(a, l, b, m)

\* A goroutine that writes a shared field without a lock of its object.
LoneRisks(tagged) ==
    {<<t.access, t.access>> : t \in {u \in tagged :
        /\ u.inGoroutine /\ u.access.write /\ ~u.access.atomic
        /\ ~hasRelevantLock(u.access)
        /\ isSharedGoroutineAccess(u.access)}}

PairRisks(tagged) ==
    {<<p[1].access, p[2].access>> : p \in {q \in tagged \X tagged :
        LET a == q[1].access
            b == q[2].access
        IN  /\ mayRunConcurrently(q[1], q[2])
            /\ a.write \/ b.write
            /\ sameOrUnknownMemory(a.key, b.key)
            /\ ~(a.atomic /\ b.atomic)
            /\ ~locksetsProtect(a, b)}}

risksFromAccesses(tagged) == LoneRisks(tagged) \cup PairRisks(tagged)

\* The fields a report is about; an access to an unknown part is about all.
About(risk) ==
    UNION {IF risk[i].key.field = "" THEN DataFields ELSE {risk[i].key.field} : i \in {1, 2}}

Reported(field) == \E r \in risks : field \in About(r)

-----------------------------------------------------------------------------
(* The program runs.                                                        *)

Top(t) == Last(threads[t])
Body(t) == code.body[Top(t).fn]
Runs(t) == threads[t] # <<>>
AtEnd(t) == Top(t).at > Len(Body(t))
Instr(t) == Body(t)[Top(t).at]

Call(f) == [fn |-> f, at |-> 1, defers |-> {}]

Advance(t) == Append(Front(threads[t]), [Top(t) EXCEPT !.at = @ + 1])

Goes(t, ops) == Runs(t) /\ ~AtEnd(t) /\ Instr(t).op \in ops

Acquire(t) ==
    /\ Goes(t, {"Lock", "RLock"})
    /\ LET m == Instr(t).on
       IN  /\ writer[m] = NoThread
           /\ IF Instr(t).op = "Lock"
              THEN /\ readers[m] = {}
                   /\ writer' = [writer EXCEPT ![m] = t]
                   /\ UNCHANGED readers
              ELSE /\ readers' = [readers EXCEPT ![m] = @ \cup {t}]
                   /\ UNCHANGED writer
    /\ threads' = [threads EXCEPT ![t] = Advance(t)]
    /\ UNCHANGED <<code, risks, started>>

\* Give up the locks in a set, whichever way they are held.
Free(t, locks) ==
    /\ writer' = [m \in LockFields |->
                    IF m \in locks /\ writer[m] = t THEN NoThread ELSE writer[m]]
    /\ readers' = [m \in LockFields |-> IF m \in locks THEN readers[m] \ {t} ELSE readers[m]]

Release(t) ==
    /\ Goes(t, {"Unlock", "RUnlock"})
    /\ Free(t, {Instr(t).on})
    /\ threads' = [threads EXCEPT ![t] = Advance(t)]
    /\ UNCHANGED <<code, risks, started>>

Defer(t) ==
    /\ Goes(t, {"DeferUnlock", "DeferRUnlock"})
    /\ threads' = [threads EXCEPT ![t] =
                    Append(Front(@), [fn |-> Top(t).fn, at |-> Top(t).at + 1,
                                      defers |-> Top(t).defers \cup {Instr(t).on}])]
    /\ UNCHANGED <<code, risks, started, writer, readers>>

\* A field access, or a call that turns out to do one.
Access(t) ==
    /\ Goes(t, Accesses \cup {"DynCall"})
    /\ threads' = [threads EXCEPT ![t] = Advance(t)]
    /\ UNCHANGED <<code, risks, started, writer, readers>>

Enter(t) ==
    /\ Goes(t, {"Call"})
    /\ threads' = [threads EXCEPT ![t] = Append(Advance(t), Call(Instr(t).on))]
    /\ UNCHANGED <<code, risks, started, writer, readers>>

Leave(t) ==
    /\ Runs(t) /\ AtEnd(t)
    /\ Free(t, Top(t).defers)
    /\ threads' = [threads EXCEPT ![t] = Front(@)]
    /\ UNCHANGED <<code, risks, started>>

\* One go statement, in a loop if the program has two workers.
Go(t) ==
    /\ Goes(t, {"Go"})
    /\ started' = IF code.workers = 2 THEN {"worker1", "worker2"} ELSE {"worker1"}
    /\ threads' = [u \in Threads |-> IF u = t THEN Advance(t)
                                   ELSE IF u \in started' THEN <<Call("worker")>> ELSE threads[u]]
    /\ UNCHANGED <<code, risks, writer, readers>>

-----------------------------------------------------------------------------
InitRisks ==
    /\ code \in GoPrograms
    /\ risks = risksFromAccesses(ExpandConcurrentAccesses(code))
    /\ threads = [t \in Threads |-> IF t = "main" THEN <<Call("main")>> ELSE <<>>]
    /\ started = {}
    /\ writer = [m \in LockFields |-> NoThread]
    /\ readers = [m \in LockFields |-> {}]

RisksOff ==
    /\ code = [body |-> [f \in GoFunctions |-> <<>>], closure |-> FALSE, root |-> "param", workers |-> 1]
    /\ risks = {} /\ started = {}
    /\ threads = [t \in Threads |-> <<>>]
    /\ writer = [m \in LockFields |-> NoThread]
    /\ readers = [m \in LockFields |-> {}]

NextRisks ==
    \E t \in Threads :
        \/ Acquire(t) \/ Release(t) \/ Defer(t) \/ Access(t)
        \/ Enter(t) \/ Leave(t) \/ Go(t)

SpecRisks == InitRisks /\ [][NextRisks]_crvars

-----------------------------------------------------------------------------
\* The threads stay in their types.
ThreadsTypeOK ==
    /\ \A t \in Threads : \A i \in DOMAIN threads[t] :
            /\ threads[t][i].fn \in GoFunctions
            /\ threads[t][i].at \in 1..(Len(code.body[threads[t][i].fn]) + 1)
            /\ threads[t][i].defers \subseteq LockFields
    /\ started \subseteq Threads \ {"main"}
    /\ writer \in [LockFields -> Threads \cup {NoThread}]
    /\ readers \in [LockFields -> SUBSET Threads]
    /\ \A m \in LockFields : writer[m] # NoThread => readers[m] = {}

Touches(t, field) ==
    Goes(t, Accesses \cup {"DynCall"}) /\ (Instr(t).on = field \/ Instr(t).op = "DynCall")

Writes(t) == Instr(t).op \in Stores \cup {"DynCall"}
IsAtomic(t) == Instr(t).op \in {"AtomicLoad", "AtomicStore"}

\* Two threads are about to access a field at once, and one of them writes.
Races(t, u, field) ==
    /\ t # u
    /\ Touches(t, field) /\ Touches(u, field)
    /\ Writes(t) \/ Writes(u)
    /\ ~(IsAtomic(t) /\ IsAtomic(u))

Holds(t) == \E m \in LockFields : writer[m] = t \/ t \in readers[m]

\* detect_concurrency_risks: a field on which main and a goroutine can really
\* race is reported, through helper calls, deferred unlocks, read locks and
\* atomics.  Goroutines of one go statement are not compared with each other,
\* but a plain write they race on without any lock is reported too, unless the
\* object is a local of main.
RaceIsReported ==
    \A field \in DataFields, t \in Threads, u \in Threads \ {"main"} :
        /\ Races(t, u, field)
        /\ t = "main" \/ (Instr(t).op = "Store" /\ ~Holds(t) /\ code.root = "param")
        => Reported(field)

\* By the text of its body, f holds m when it comes to instruction i.
Holding(p, f, i, m, read) ==
    LET body == p.body[f]
    IN  \E j \in 1..(i - 1) :
            /\ body[j] = [op |-> IF read THEN "RLock" ELSE "Lock", on |-> m]
            /\ \A k \in j..(i - 1) :
                   body[k] # [op |-> IF read THEN "RUnlock" ELSE "Unlock", on |-> m]

\* A function gives back the locks that it took itself, the way it took them.
GivesBackItsOwn(p) ==
    \A f \in GoFunctions : \A i \in DOMAIN p.body[f] :
        LET instr == p.body[f][i]
            Took(op) == \E j \in DOMAIN p.body[f] : p.body[f][j] = [op |-> op, on |-> instr.on]
        IN  /\ instr.op = "Unlock" => Holding(p, f, i, instr.on, FALSE)
            /\ instr.op = "RUnlock" => Holding(p, f, i, instr.on, TRUE)
            /\ instr.op = "DeferUnlock" => Took("Lock")
            /\ instr.op = "DeferRUnlock" => Took("RLock")

\* held bounds what the callers of a function hold for reading, and the
\* function does not lock that for reading again, which sync.RWMutex forbids.
ReadsOnce(p, held) ==
    \A f \in GoFunctions : \A i \in DOMAIN p.body[f] :
        LET instr == p.body[f][i]
        IN  /\ instr.op = "RLock" => instr.on \notin held[f]
            /\ instr.op = "Call" =>
                   held[f] \cup {m \in LockFields : Holding(p, f, i, m, TRUE)} \subseteq held[instr.on]

Called(p, f) ==
    \E g \in GoFunctions : \E i \in DOMAIN p.body[g] :
        p.body[g][i] = [op |-> "Call", on |-> f]

\* An unresolved call of f gets the name that the object has for main.
Traced(p, f) == ~Called(p, f) /\ (f # "worker" \/ p.closure)

\* What an analysed program has to keep to for its races to be reported.
Disciplined(p) ==
    /\ GivesBackItsOwn(p)
    /\ \E held \in [GoFunctions -> SUBSET LockFields] : ReadsOnce(p, held)
    /\ \A f \in GoFunctions : \A i \in DOMAIN p.body[f] :
            p.body[f][i].op = "DynCall" => Traced(p, f)

\* Calls are nested no deeper than they are followed.
Followed == \A t \in Threads : Len(threads[t]) <= MaxCallDepth + 1

\* detect_concurrency_risks: when every function takes one and the same lock
\* before each of its accesses, with a deferred unlock or not, nothing is
\* reported.  An unresolved call is the exception in a goroutine that gets the
\* object as an argument, and in a function that others call: it keeps the
\* name that the object has there, and is compared with itself or with the
\* accesses of that function as if they took different locks.  It is an
\* exception, too, in a goroutine that captured a parameter of main: there it
\* is compared with main's loads of the pointer, the first of which comes
\* before any lock.
LockedIsQuiet ==
    \A m \in LockFields :
        (\A f \in GoFunctions : \A i \in DOMAIN code.body[f] :
            LET op == code.body[f][i].op
            IN  /\ op \in Accesses \cup {"DynCall"} => Holding(code, f, i, m, FALSE)
                /\ op = "DynCall" => Traced(code, f) /\ ~(f = "worker" /\ Spilled(code)))
        => risks = {}
====
