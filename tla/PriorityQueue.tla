--------------------------- MODULE PriorityQueue ---------------------------
(***************************************************************************)
(* What the background sync promises to whoever submits a rebuild request, *)
(* with no lock, no loop and no sequence: a request waits, is served by a  *)
(* single server, may be sent back to wait, and ends once.  The server     *)
(* always takes a most urgent waiting request, the earliest among equals.  *)
(***************************************************************************)
EXTENDS Integers

CONSTANTS Request, None, Urgency(_)

VARIABLES
    waiting,    \* set of requests
    serving,    \* a request, or None
    ended,      \* set of requests
    arrival     \* [Request -> Nat], 0: not yet arrived

vars == <<waiting, serving, ended, arrival>>

Init ==
    /\ waiting = {}
    /\ serving = None
    /\ ended = {}
    /\ arrival = [r \in Request |-> 0]

ArrivalTimes == {arrival[r] : r \in Request}

Arrive(r) ==
    /\ arrival[r] = 0
    /\ arrival' = [arrival EXCEPT ![r] = arrival'[r]]
    /\ arrival'[r] > 0
    /\ \A t \in ArrivalTimes : arrival'[r] >= t
    /\ waiting' = waiting \cup {r}
    /\ UNCHANGED <<serving, ended>>

MoreUrgent(r, s) ==
    \/ Urgency(r) < Urgency(s)
    \/ Urgency(r) = Urgency(s) /\ arrival[r] < arrival[s]

Serve(r) ==
    /\ serving = None
    /\ r \in waiting
    /\ \A s \in waiting : ~MoreUrgent(s, r)
    /\ serving' = r
    /\ waiting' = waiting \ {r}
    /\ UNCHANGED <<ended, arrival>>

SendBack ==
    /\ serving # None
    /\ waiting' = waiting \cup {serving}
    /\ serving' = None
    /\ UNCHANGED <<ended, arrival>>

End ==
    /\ serving # None
    /\ ended' = ended \cup {serving}
    /\ serving' = None
    /\ UNCHANGED <<waiting, arrival>>

Next ==
    \/ \E r \in Request : Arrive(r) \/ Serve(r)
    \/ SendBack
    \/ End

Spec == Init /\ [][Next]_vars
=============================================================================
