----------------------------- MODULE EventBus ------------------------------
(***************************************************************************)
(* What the session bus promises its subscribers about the event log: an   *)
(* event is announced only once it is in the log, and at most once.        *)
(***************************************************************************)
EXTENDS Integers

CONSTANT Events

VARIABLES
    logged,     \* the events in the log
    announced   \* how often each event went over the bus

vars == <<logged, announced>>

Init == logged = {} /\ announced = [e \in Events |-> 0]

\* An append commits.
Commit(e) ==
    /\ e \notin logged
    /\ logged' = logged \cup {e}
    /\ UNCHANGED announced

\* A committed event goes over the bus.
Announce(e) ==
    /\ e \in logged
    /\ announced[e] = 0
    /\ announced' = [announced EXCEPT ![e] = 1]
    /\ UNCHANGED logged

Next == \E e \in Events : Commit(e) \/ Announce(e)

Spec == Init /\ [][Next]_vars

=============================================================================
