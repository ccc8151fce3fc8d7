---------------------------- MODULE LinkBarrier ----------------------------
(***************************************************************************)
(* The coordinator link's application barrier: Pump in                     *)
(* crates/roost-worker/src/link_barrier.rs.  The machine has no socket and *)
(* no clock, so it is a record and one operator per method; each operator  *)
(* returns the machine after the call and the Action the caller must       *)
(* perform.  Payload bytes are left out: an event is its client sequence.  *)
(* Sequence 0 stands for None.                                             *)
(***************************************************************************)
EXTENDS Integers, Sequences

None == 0

Barriers == {"Idle", "Open", "Replay", "Snapshot", "Live"}

Pump(MaxSeq) ==
    [barrier : Barriers, durable : Seq(1..MaxSeq), inFlight : 0..MaxSeq,
     replayAgain : BOOLEAN, snapshotSeq : Nat, blocked : BOOLEAN,
     nextSeq : Nat \ {0}, acked : 0..MaxSeq]

\* Pump::new.
NewPump ==
    [barrier |-> "Idle", durable |-> <<>>, inFlight |-> None, replayAgain |-> FALSE,
     snapshotSeq |-> None, blocked |-> FALSE, nextSeq |-> 1, acked |-> 0]

----------------------------------------------------------------------------
(* Actions the pump answers with.                                          *)

Wait == [kind |-> "Wait", seq |-> None]
SendHello == [kind |-> "SendHello", seq |-> None]
WriteDurable(n) == [kind |-> "WriteDurable", seq |-> n]
WriteSnapshot == [kind |-> "WriteSnapshot", seq |-> None]
IgnoredAck(n) == [kind |-> "IgnoredAck", seq |-> n]

Result(p, act) == [pump |-> p, act |-> act]

----------------------------------------------------------------------------

\* Fault: the snapshot is taken over rows that are still waiting.
AdvanceEagerSnapshot(p) ==
    IF p.barrier = "Replay" /\ ~p.blocked
    THEN Result([p EXCEPT !.barrier = "Snapshot", !.snapshotSeq = p.nextSeq,
                          !.nextSeq = p.nextSeq + 1], WriteSnapshot)
    ELSE IF p.barrier = "Live" /\ p.inFlight = None /\ p.durable # <<>>
         THEN Result([p EXCEPT !.inFlight = Head(p.durable)], WriteDurable(Head(p.durable)))
         ELSE Result(p, Wait)

\* advance: at most one durable event in flight; from Replay with nothing left
\* and nothing blocked, the snapshot, which takes a number of its own.
Advance(p) ==
    CASE p.barrier \in {"Live", "Replay"} /\ p.inFlight = None /\ p.durable # <<>> ->
             Result([p EXCEPT !.inFlight = Head(p.durable)], WriteDurable(Head(p.durable)))
      [] p.barrier = "Replay" /\ p.durable = <<>> /\ ~p.blocked ->
             Result([p EXCEPT !.barrier = "Snapshot", !.snapshotSeq = p.nextSeq,
                              !.nextSeq = p.nextSeq + 1], WriteSnapshot)
      [] OTHER -> Result(p, Wait)

\* A row or a blocking claim during a snapshot: its ACK must not admit live
\* traffic.
NoteReplay(p) == IF p.barrier = "Snapshot" THEN [p EXCEPT !.replayAgain = TRUE] ELSE p

\* enqueue_durable_at refuses AlreadyPassed numbers.
CanEnqueueAt(p, n) == n >= p.nextSeq

EnqueueDurableAt(p, n) ==
    Advance(NoteReplay([p EXCEPT !.nextSeq = n + 1, !.durable = Append(p.durable, n)]))

OnOpen(p) ==
    Result([p EXCEPT !.barrier = "Open", !.inFlight = None, !.snapshotSeq = None], SendHello)

NoteDurableAppeared(p) == Advance(NoteReplay(p))

\* Fault: the end of a block releases nothing.
SetSnapshotBlockedSilent(p, b) ==
    LET q == [p EXCEPT !.blocked = b]
    IN  IF ~p.blocked /\ b THEN NoteDurableAppeared(q) ELSE Result(q, Wait)

\* set_snapshot_blocked.
SetSnapshotBlocked(p, b) ==
    LET q == [p EXCEPT !.blocked = b]
    IN  CASE ~p.blocked /\ b -> NoteDurableAppeared(q)
          [] p.blocked /\ ~b -> Advance(q)
          [] OTHER -> Result(q, Wait)

\* Fault: the pump goes on waiting for the number it drew itself.
ReassignSnapshotSequenceKeeping(p, n) ==
    IF p.barrier = "Snapshot" /\ p.snapshotSeq # None
    THEN [p EXCEPT !.nextSeq = IF p.nextSeq >= n + 1 THEN p.nextSeq ELSE n + 1]
    ELSE p

\* reassign_snapshot_sequence: the outbox's number replaces the pump's own.
ReassignSnapshotSequence(p, n) ==
    IF p.barrier = "Snapshot" /\ p.snapshotSeq # None
    THEN [p EXCEPT !.snapshotSeq = n,
                   !.nextSeq = IF p.nextSeq >= n + 1 THEN p.nextSeq ELSE n + 1]
    ELSE p

\* abandon_snapshot: back to replay; the draw is given back when it is still
\* the newest number.
AbandonSnapshot(p) ==
    IF p.barrier # "Snapshot" THEN p
    ELSE [p EXCEPT !.barrier = "Replay", !.snapshotSeq = None, !.replayAgain = FALSE,
                   !.nextSeq = IF p.snapshotSeq # None /\ p.snapshotSeq + 1 = p.nextSeq
                               THEN p.snapshotSeq ELSE p.nextSeq]

OnHelloAck(p) == Advance([p EXCEPT !.barrier = "Replay"])

\* on_event_ack: exactly the number in flight, nothing else.
OnEventAck(p, n) ==
    IF p.inFlight # None /\ p.inFlight = n
    THEN Advance([p EXCEPT !.inFlight = None,
                           !.durable = IF p.durable = <<>> THEN <<>> ELSE Tail(p.durable),
                           !.acked = IF p.acked >= n THEN p.acked ELSE n])
    ELSE Result(p, IgnoredAck(n))

\* Fault: the snapshot's ACK opens the link over a row that arrived meanwhile.
OnSnapshotAckForgetful(p, n) ==
    IF p.snapshotSeq # None /\ p.snapshotSeq = n
    THEN Advance([p EXCEPT !.snapshotSeq = None, !.replayAgain = FALSE, !.barrier = "Live"])
    ELSE Result(p, IgnoredAck(n))

\* on_snapshot_ack: live, unless something durable appeared meanwhile.
OnSnapshotAck(p, n) ==
    IF p.snapshotSeq # None /\ p.snapshotSeq = n
    THEN Advance([p EXCEPT !.snapshotSeq = None, !.replayAgain = FALSE,
                           !.barrier = IF p.replayAgain THEN "Replay" ELSE "Live"])
    ELSE Result(p, IgnoredAck(n))

\* on_disconnect: rows and numbering stay, everything of the connection goes.
OnDisconnect(p) ==
    [p EXCEPT !.barrier = "Idle", !.inFlight = None, !.snapshotSeq = None,
              !.replayAgain = FALSE]

=============================================================================
