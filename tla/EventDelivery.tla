--------------------------- MODULE EventDelivery ---------------------------
(***************************************************************************)
(* What the durable path promises for the session events of one worker,    *)
(* whatever breaks in between: each is delivered once, in the order it was *)
(* numbered, and the worker keeps it until it has been delivered.          *)
(***************************************************************************)
EXTENDS Integers, Sequences

VARIABLES
    pending,    \* numbers of the events the worker still keeps
    delivered   \* the coordinator's log: place -> number of the event there

vars == <<pending, delivered>>

Places == DOMAIN delivered
Delivered == {delivered[p] : p \in Places}

Init == pending = {} /\ delivered = <<>>

\* The worker records an event, numbered above everything recorded before.
Submit(n) ==
    /\ \A m \in pending \cup Delivered : m < n
    /\ pending' = pending \cup {n}
    /\ UNCHANGED delivered

\* The oldest event not yet delivered reaches the end of the log.
Deliver(p, n) ==
    /\ n \in pending \ Delivered
    /\ \A m \in pending \ Delivered : n <= m
    /\ \A q \in Places : q < p /\ delivered[q] < n
    /\ delivered' = [q \in Places \cup {p} |-> IF q = p THEN n ELSE delivered[q]]
    /\ UNCHANGED pending

\* The worker lets go of an event the log has.
Retire(n) ==
    /\ n \in pending \cap Delivered
    /\ pending' = pending \ {n}
    /\ UNCHANGED delivered

Next ==
    \/ \E n \in pending' \ pending : Submit(n)
    \/ \E p \in Places' \ Places, n \in pending : Deliver(p, n)
    \/ \E n \in pending : Retire(n)

Spec == Init /\ [][Next]_vars

=============================================================================
