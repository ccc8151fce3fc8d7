---------------------------- MODULE DurableLink ----------------------------
(***************************************************************************)
(* The durable half of the worker-coordinator link, end to end: the outbox *)
(* (Journal), the barrier (LinkBarrier), the link loop that moves rows     *)
(* between them and the socket (crates/roost-worker/src/runtime),          *)
(* connections that break with frames still in them, and the coordinator's *)
(* generations, commit and acknowledgement                                 *)
(* (crates/roost-coord/src/worker_link, events/append.rs).                 *)
(*                                                                         *)
(* The worker's session tasks write the outbox between any two awaits of   *)
(* the link loop, so a drain is a sequence of steps.  An event is its      *)
(* client sequence; what events say is the subject of SessionReplay.  Only *)
(* the kind of an event matters here, because the coordinator keeps a      *)
(* barrier of its own: before a connection's snapshot it takes metadata    *)
(* for nothing, and answers only the folder's.                             *)
(***************************************************************************)
EXTENDS LinkBarrier, FiniteSets

CONSTANTS
    MaxRows, BlockSize, MaxSequence, MaxClaims, MaxCallers,  \* see Journal
    MirrorCap,        \* DURABLE_MIRROR_CAP
    MaxAppends,       \* bound of the model: rows the session tasks number
    MaxUnnoted,       \* bound of the model: writes whose signal is not raised yet
    MaxConn,          \* bound of the model: dials
    MaxFaults,        \* bound of the model: process deaths, failed store calls
                      \* and frames refused at the write gate or by admission
    MayFail,          \* whether the outbox's queries and the snapshot source
                      \* may answer Err
    Metadata,         \* numbers of the rows that neither open, close nor respawn
    Folder            \* those of them that carry folder metadata

ASSUME LinkAssumption ==
    /\ MaxRows \in Nat \ {0}
    /\ BlockSize \in Nat \ {0}
    /\ MaxSequence \in Nat
    /\ MaxClaims \in Nat
    /\ MaxCallers \in Nat
    /\ MirrorCap \in Nat \ {0}
    /\ MaxAppends \in Nat
    /\ MaxUnnoted \in Nat \ {0}
    /\ MaxConn \in Nat \ {0}
    /\ MaxFaults \in Nat
    /\ MayFail \in BOOLEAN
    /\ Folder \subseteq Metadata

VARIABLES
    rows, watermark, claims, up, issued, reservedThrough, writer, tokens,
    checked, draws, snaps,   \* the outbox, see Journal
    link,      \* LinkLoop: pump, mirror, authorised, wanted, offered, resync, acks, wake
    pc,        \* where the link loop is: idle, or a step of drain
    changed,   \* DurableDelivery.changed
    drained,   \* DurableDelivery.drained
    unnoted,   \* emits that committed and have not raised note_store_changed
    boot,      \* boot admission: waiting for replay, reconciling, active
    faults,    \* process deaths, failed store calls and refusals so far
    conn,      \* the connection the worker is on, 0 when it is off
    dialled,   \* connections dialled so far
    upq,       \* per connection: frames the coordinator has not read
    downq,     \* per connection: frames the worker has not read
    closed,    \* connections whose coordinator end is closed
    current,   \* the generation the registry holds, 0 when none
    reply,     \* per connection: the committed frame not yet acknowledged
    log,       \* the coordinator's durable event log
    ready,     \* the registered generation has crossed the snapshot barrier
    refused,   \* history: connections on which a frame was left unanswered
    dropped    \* history: rows acknowledged without an append

journalVars == <<rows, watermark, claims, up, issued, reservedThrough, writer,
                 tokens, checked, draws, snaps>>
deliveryVars == <<changed, drained, unnoted>>
netVars == <<upq, downq>>
barrierVars == <<ready, refused, dropped>>
coordVars == <<closed, current, reply, log, barrierVars>>
vars == <<journalVars, link, pc, deliveryVars, boot, faults, conn, dialled,
          netVars, coordVars>>

J == INSTANCE Journal

Conns == 1..MaxConn

Frame(kind, n) == [kind |-> kind, seq |-> n]
NoFrame == Frame("none", None)

CommittedSeqs == {log[i].seq : i \in 1..Len(log)}

\* The coordinator has done with the number: it is in the log, or dropped.
Settled == CommittedSeqs \cup dropped

----------------------------------------------------------------------------
(* LinkLoop: the fields the durable path uses.                             *)

\* LinkLoop::new and attach_durable_outbox.
NewLink ==
    [pump |-> NewPump, mirror |-> <<>>, authorised |-> NoFrame, wanted |-> FALSE,
     offered |-> 0, resync |-> TRUE, acks |-> <<>>, wake |-> FALSE]

\* apply_to: one durable event is released to the writer, under the number the
\* pump gave, or the drain is asked to number a snapshot.
ApplyTo(l, res) ==
    LET m == [l EXCEPT !.pump = res.pump]
    IN  CASE res.act.kind = "WriteDurable" /\ m.mirror # <<>> ->
                 [m EXCEPT !.authorised = Frame("event", res.act.seq),
                           !.mirror[1].seq = res.act.seq]
          [] res.act.kind = "WriteSnapshot" -> [m EXCEPT !.wanted = TRUE, !.wake = TRUE]
          [] OTHER -> m

\* reopen_replay_before_unsent_snapshot.
ReopenReplay(l) ==
    IF l.wanted /\ l.pump.barrier = "Snapshot"
    THEN [l EXCEPT !.wanted = FALSE, !.pump = AbandonSnapshot(l.pump)]
    ELSE l

\* Fault: the mirror takes a row over its cap.
OfferRowUncapped(l, n) ==
    LET r == ReopenReplay(l)
        m == [r EXCEPT !.mirror = Append(r.mirror, [row |-> n, seq |-> n])]
    IN  IF l.resync \/ n <= l.offered THEN l
        ELSE IF ~CanEnqueueAt(r.pump, n) THEN [m EXCEPT !.resync = TRUE]
        ELSE ApplyTo([m EXCEPT !.offered = n], EnqueueDurableAt(m.pump, n))

\* offer_new_rows for one row.  A row the mirror or the pump refuses stops the
\* pass (resync); the mirror takes the row before the pump can refuse it.
OfferRow(l, n) ==
    LET r == ReopenReplay(l)
        m == [r EXCEPT !.mirror = Append(r.mirror, [row |-> n, seq |-> n])]
    IN  IF l.resync \/ n <= l.offered THEN l
        ELSE IF Len(r.mirror) >= MirrorCap THEN [r EXCEPT !.resync = TRUE]
        ELSE IF ~CanEnqueueAt(r.pump, n) THEN [m EXCEPT !.resync = TRUE]
        ELSE ApplyTo([m EXCEPT !.offered = n], EnqueueDurableAt(m.pump, n))

\* offer_new_rows: the waiting rows, oldest first.  The n-th element is the
\* link once the rows up to n have had their turn.
OfferPass(l, waiting) ==
    LET pass[n \in 0..MaxSequence] ==
            IF n = 0 THEN [l EXCEPT !.resync = FALSE]
            ELSE IF n \in waiting THEN OfferRow(pass[n - 1], n) ELSE pass[n - 1]
    IN  pass

OfferRows(l, waiting) == OfferPass(l, waiting)[MaxSequence]

\* Fault: a pass that stopped early counts as drained.
ReplayDrainedEarly(l) ==
    /\ l.pump.barrier \in {"Snapshot", "Live"}
    /\ l.mirror = <<>>
    /\ ~l.pump.blocked

\* decide_replay_barrier.
ReplayDrained(l) ==
    /\ l.pump.barrier \in {"Snapshot", "Live"}
    /\ l.mirror = <<>>
    /\ ~l.pump.blocked
    /\ ~l.resync

\* Fault: the mirror goes with the connection.
DetachedClearingMirror(l) ==
    [l EXCEPT !.pump = OnDisconnect(l.pump), !.authorised = NoFrame, !.wanted = FALSE,
              !.mirror = <<>>]

\* detach_link: the connection's state goes, the mirror and the numbering stay.
Detached(l) ==
    [l EXCEPT !.pump = OnDisconnect(l.pump), !.authorised = NoFrame, !.wanted = FALSE]

\* refresh_snapshot_blocking.
RefreshBlocking(l) ==
    LET blocking == J!BlockingClaims # {}
        r == IF blocking THEN ReopenReplay(l) ELSE l
    IN  ApplyTo(r, SetSnapshotBlocked(r.pump, blocking))

\* event_acknowledged: the row in flight, or else the snapshot.
EventAcknowledged(l, n) ==
    LET ev == OnEventAck(l.pump, n)
        popped == IF l.mirror # <<>> /\ Head(l.mirror).seq = n
                  THEN [l EXCEPT !.mirror = Tail(l.mirror)] ELSE l
        noted == [IF ev.act.kind = "IgnoredAck" THEN l ELSE popped
                     EXCEPT !.acks = Append(l.acks, n)]
    IN  ApplyTo(noted, IF ev.act.kind = "IgnoredAck" THEN OnSnapshotAck(l.pump, n) ELSE ev)

----------------------------------------------------------------------------
(* The session tasks: they write the outbox, and raise note_store_changed  *)
(* only after the write has committed (journal_sink.rs).                   *)

rest == <<link, pc, boot, faults, conn, dialled, netVars, coordVars>>

Unnoticed(A) == A /\ UNCHANGED <<rest, deliveryVars>>

Noticed(A) ==
    /\ unnoted < MaxUnnoted
    /\ A
    /\ unnoted' = unnoted + 1
    /\ UNCHANGED <<rest, changed, drained>>

EmitNumber ==
    /\ Len(draws) - Cardinality(snaps) < MaxAppends
    /\ \E k \in tokens \cup {J!NoClaim} : Unnoticed(J!AppendNumber(k))

EmitCommit == Noticed(J!AppendCommit)

EmitRefused == Unnoticed(J!AppendRefused)

Reserve == Unnoticed(J!ReserveCheck) \/ Noticed(J!ReserveInsert)

HoldOrRelease == \E k \in tokens : Noticed(J!Hold(k)) \/ Noticed(J!Release(k))

LeaseExpire == \E c \in claims : Unnoticed(J!LeaseExpire(c))

\* note_store_changed.
NoteStoreChanged ==
    /\ up
    /\ unnoted > 0
    /\ unnoted' = unnoted - 1
    /\ changed' = TRUE
    /\ drained' = FALSE
    /\ UNCHANGED <<journalVars, rest>>

----------------------------------------------------------------------------
(* The link loop.  It is off, idle in the select of serve, or inside drain.*)

Connected == up /\ conn # 0

linkOnly == <<journalVars, unnoted, boot, conn, dialled, coordVars>>

\* A query of the outbox, or the snapshot source, answers Err.
Fails == MayFail /\ faults < MaxFaults /\ faults' = faults + 1

Works == UNCHANGED faults

\* dial and force_hello.
Dial ==
    /\ up /\ conn = 0 /\ dialled < MaxConn
    /\ dialled' = dialled + 1
    /\ conn' = dialled + 1
    /\ link' = [link EXCEPT !.pump = OnOpen(link.pump).pump]
    /\ upq' = [upq EXCEPT ![dialled + 1] = <<Frame("hello", None)>>]
    /\ UNCHANGED <<journalVars, pc, deliveryVars, boot, faults, downq, coordVars>>

\* link.recv: hello-ack or an acknowledgement.  The select serves the wake
\* first.
Receive ==
    /\ Connected /\ pc = "idle" /\ ~link.wake
    /\ downq[conn] # <<>>
    /\ LET f == Head(downq[conn])
       IN  link' = IF f.kind = "helloack" THEN ApplyTo(link, OnHelloAck(link.pump))
                   ELSE EventAcknowledged(link, f.seq)
    /\ downq' = [downq EXCEPT ![conn] = Tail(@)]
    /\ UNCHANGED <<linkOnly, faults, pc, changed, drained, upq>>

\* A tick, the wake or a change of the store starts a drain.
DrainStart ==
    /\ Connected /\ pc = "idle"
    /\ pc' = "acks"
    /\ link' = [link EXCEPT !.wake = FALSE]
    /\ UNCHANGED <<linkOnly, faults, changed, drained, netVars>>

\* apply_durable_acks, one acknowledge call; a failed one is logged and dropped.
DrainAck ==
    /\ Connected /\ pc = "acks" /\ link.acks # <<>>
    /\ link' = [link EXCEPT !.acks = Tail(@)]
    /\ \/ J!Acknowledge(Head(link.acks)) /\ Works
       \/ Head(link.acks) \notin rows /\ Works /\ UNCHANGED journalVars
       \/ Fails /\ UNCHANGED journalVars
    /\ UNCHANGED <<pc, deliveryVars, boot, conn, dialled, netVars, coordVars>>

\* sync_durable_rows up to its read of the rows, which may fail; again from
\* resume_replay_before_snapshot, where resync is set.
DrainSync ==
    /\ Connected
    /\ (pc = "acks" /\ link.acks = <<>>) \/ pc = "resync"
    /\ changed' = FALSE
    /\ IF changed \/ link.resync
       THEN /\ \/ Works /\ link' = OfferRows(link, rows)
               \/ Fails /\ link' = [link EXCEPT !.resync = TRUE]
            /\ pc' = IF pc = "acks" THEN "claims" ELSE "reclaims"
            /\ UNCHANGED drained
       ELSE /\ drained' = ReplayDrained(link)
            /\ pc' = "snapshot"
            /\ Works /\ UNCHANGED link
    /\ UNCHANGED <<linkOnly, netVars>>

\* sync_durable_rows from its read of the claims, which may fail;
\* note_durable_appeared ends resume_replay_before_snapshot.
DrainClaims ==
    /\ Connected /\ pc \in {"claims", "reclaims"}
    /\ \E l \in {RefreshBlocking(link), [link EXCEPT !.resync = TRUE]} :
          /\ IF l = RefreshBlocking(link) THEN Works ELSE Fails
          /\ drained' = ReplayDrained(l)
          /\ link' = IF pc = "claims" THEN l ELSE ApplyTo(l, NoteDurableAppeared(l.pump))
    /\ pc' = IF pc = "claims" THEN "snapshot" ELSE "write"
    /\ UNCHANGED <<linkOnly, changed, netVars>>

SnapshotDue == link.wanted /\ link.pump.barrier = "Snapshot"

\* authorise_snapshot, the ways out that number nothing: not asked for, held
\* by boot, no snapshot to be had, or no number to be had.
SnapshotNotNow ==
    /\ Connected /\ pc = "snapshot"
    /\ \/ ~SnapshotDue /\ Works /\ link' = [link EXCEPT !.wanted = FALSE]
       \/ SnapshotDue /\ boot # "active" /\ Works /\ UNCHANGED link
       \/ SnapshotDue /\ boot = "active" /\ Fails /\ link' = [link EXCEPT !.wanted = FALSE]
       \/ SnapshotDue /\ boot = "active" /\ Fails /\ UNCHANGED link
       \/ SnapshotDue /\ boot = "active" /\ writer = J!NoWriter
             /\ (\A r \in rows : r <= link.offered)
             /\ J!NeedsBlock /\ J!BlockFloor + BlockSize > MaxSequence
             /\ Works /\ UNCHANGED link
    /\ pc' = "write"
    /\ UNCHANGED <<linkOnly, changed, drained, netVars>>

\* authorise_snapshot: the outbox numbers the snapshot.
SnapshotAuthorised ==
    /\ Connected /\ pc = "snapshot" /\ SnapshotDue /\ boot = "active"
    /\ J!SnapshotSequence(link.offered)
    /\ link' = [link EXCEPT !.wanted = FALSE,
                            !.pump = ReassignSnapshotSequence(link.pump, J!NextSequence),
                            !.authorised = Frame("snapshot", J!NextSequence)]
    /\ pc' = "write"
    /\ UNCHANGED <<deliveryVars, boot, faults, conn, dialled, netVars, coordVars>>

\* resume_replay_before_snapshot: a row was committed that the link has not
\* been offered.
SnapshotOutrun ==
    /\ Connected /\ pc = "snapshot" /\ SnapshotDue /\ boot = "active"
    /\ writer = J!NoWriter
    /\ \E r \in rows : r > link.offered
    /\ link' = [link EXCEPT !.wanted = FALSE, !.resync = TRUE,
                            !.pump = AbandonSnapshot(link.pump)]
    /\ pc' = "resync"
    /\ UNCHANGED <<linkOnly, faults, changed, drained, netVars>>

\* next_write and send, and the decision that ends the drain.  An event's
\* bytes are the mirror head's.
DrainWrite ==
    /\ Connected /\ pc = "write"
    /\ link.authorised.kind = "event" => link.mirror # <<>>
    /\ LET sent == IF link.authorised.kind = "event"
                   THEN Frame("event", Head(link.mirror).row) ELSE link.authorised
       IN  upq' = IF sent = NoFrame THEN upq ELSE [upq EXCEPT ![conn] = Append(@, sent)]
    /\ link' = [link EXCEPT !.authorised = NoFrame]
    /\ drained' = ReplayDrained(link)
    /\ pc' = "idle"
    /\ UNCHANGED <<linkOnly, faults, changed, downq>>

\* serve returns and detach_link runs: the socket closed, a write failed, or
\* the link was stale after a drain.
Disconnect ==
    /\ Connected
    /\ (pc = "idle" /\ ~link.wake) \/ pc = "write"
    /\ link' = Detached(link)
    /\ pc' = "idle"
    /\ conn' = 0
    /\ drained' = FALSE
    /\ downq' = [downq EXCEPT ![conn] = <<>>]
    /\ UNCHANGED <<journalVars, changed, unnoted, boot, faults, dialled, upq, coordVars>>

\* wait_for_replay returns and the boot reconcile reads the coordinator.
BootReplayed ==
    /\ up /\ boot = "waiting" /\ drained
    /\ boot' = "reconciling"
    /\ UNCHANGED <<journalVars, link, pc, deliveryVars, faults, conn, dialled, netVars, coordVars>>

\* SnapshotActivation::activate.
BootActivate ==
    /\ up /\ boot = "reconciling"
    /\ boot' = "active"
    /\ link' = [link EXCEPT !.wake = TRUE]
    /\ UNCHANGED <<journalVars, pc, deliveryVars, faults, conn, dialled, netVars, coordVars>>

\* The worker process dies: everything but the outbox file goes.
WorkerCrash ==
    /\ faults < MaxFaults
    /\ J!Crash
    /\ faults' = faults + 1
    /\ link' = NewLink /\ pc' = "idle" /\ boot' = "waiting"
    /\ changed' = FALSE /\ drained' = FALSE /\ unnoted' = 0
    /\ conn' = 0
    /\ downq' = IF conn = 0 THEN downq ELSE [downq EXCEPT ![conn] = <<>>]
    /\ UNCHANGED <<dialled, upq, coordVars>>

WorkerStart == J!Open /\ UNCHANGED <<deliveryVars, rest>>

----------------------------------------------------------------------------
(* The coordinator.  Each connection is read by a task of its own.  What a *)
(* worker wrote before its connection broke may be read after it, or lost. *)

worker == <<journalVars, link, pc, deliveryVars, boot, faults, conn, dialled>>

Busy(g) == reply[g] # NoFrame

\* LinkSession::claim: any hello supersedes the registered generation.
CoordHello(g) ==
    /\ g \notin closed /\ upq[g] # <<>> /\ Head(upq[g]).kind = "hello"
    /\ upq' = [upq EXCEPT ![g] = Tail(@)]
    /\ current' = g
    /\ ready' = FALSE
    /\ downq' = IF conn = g THEN [downq EXCEPT ![g] = Append(@, Frame("helloack", None))]
                 ELSE downq
    /\ UNCHANGED <<worker, closed, reply, log, refused, dropped>>

\* A durable frame is read from the current generation's socket.
Reads(g) ==
    /\ current = g /\ g \notin closed /\ ~Busy(g)
    /\ upq[g] # <<>> /\ Head(upq[g]).kind \in {"event", "snapshot"}
    /\ upq' = [upq EXCEPT ![g] = Tail(@)]

\* may_cross_barrier: before the snapshot, no metadata.
MayCrossBarrier(f) == ready \/ f.kind = "snapshot" \/ f.seq \notin Metadata

\* Fault: the acknowledgement does not wait for the commit.
CoordReadAcking(g) ==
    /\ Reads(g)
    /\ MayCrossBarrier(Head(upq[g]))
    /\ reply' = [reply EXCEPT ![g] = Head(upq[g])]
    /\ downq' = IF conn = g THEN [downq EXCEPT ![g] = Append(@, Frame("ack", Head(upq[g]).seq))]
                 ELSE downq
    /\ UNCHANGED <<worker, closed, current, log, barrierVars>>

\* handle_one_durable up to the append: the generation is current, the frame
\* may cross and the write gate is open.
CoordRead(g) ==
    /\ Reads(g)
    /\ MayCrossBarrier(Head(upq[g]))
    /\ reply' = [reply EXCEPT ![g] = Head(upq[g])]
    /\ UNCHANGED <<worker, downq, closed, current, log, barrierVars>>

\* handle_one_durable: folder metadata before the barrier is acknowledged at
\* once and goes into no log.
CoordDrop(g) ==
    /\ Reads(g)
    /\ LET f == Head(upq[g]) IN
       /\ ~MayCrossBarrier(f) /\ f.seq \in Folder
       /\ dropped' = dropped \cup {f.seq}
       /\ downq' = IF conn = g THEN [downq EXCEPT ![g] = Append(@, Frame("ack", f.seq))]
                    ELSE downq
    /\ UNCHANGED <<worker, closed, current, reply, log, ready, refused>>

\* A keeper update holds the write gate, or admission refuses the append.
Refuses(g) ==
    /\ faults < MaxFaults
    /\ faults' = faults + 1
    /\ refused' = refused \cup {g}

workerAside == <<journalVars, link, pc, deliveryVars, boot, conn, dialled>>

\* handle_one_durable: other metadata before the barrier, and any frame at a
\* held write gate, is let go with no answer and no close.
CoordRefuse(g) ==
    /\ Reads(g)
    /\ IF MayCrossBarrier(Head(upq[g])) THEN Refuses(g)
       ELSE /\ Head(upq[g]).seq \notin Folder
            /\ refused' = refused \cup {g}
            /\ UNCHANGED faults
    /\ UNCHANGED <<workerAside, downq, closed, current, reply, log, ready, dropped>>

\* Fault: a sequence the log already has is appended again.
CoordAppendBlind(g) ==
    /\ Busy(g) /\ reply[g].kind \in {"event", "snapshot"}
    /\ log' = Append(log, reply[g])
    /\ reply' = [reply EXCEPT ![g] = Frame("ack", reply[g].seq)]
    /\ UNCHANGED <<worker, netVars, closed, current, barrierVars>>

\* append_event commits, or finds the sequence already in the log; a later
\* hello does not stop it.  A snapshot that is not the one committed here is
\* never acknowledged.
CoordAppend(g) ==
    /\ Busy(g) /\ reply[g].kind \in {"event", "snapshot"}
    /\ LET n == reply[g].seq
           duplicate == n \in CommittedSeqs
       IN  /\ log' = IF duplicate THEN log ELSE Append(log, reply[g])
           /\ reply' = [reply EXCEPT ![g] =
                           IF duplicate /\ reply[g].kind = "snapshot" THEN NoFrame
                           ELSE Frame("ack", n)]
    /\ UNCHANGED <<worker, netVars, closed, current, barrierVars>>

\* append_event does not admit the event (admission.rs): nothing is committed,
\* and after_append neither answers nor closes.
CoordNotAdmitted(g) ==
    /\ Busy(g) /\ reply[g].kind \in {"event", "snapshot"}
    /\ Refuses(g)
    /\ reply' = [reply EXCEPT ![g] = NoFrame]
    /\ UNCHANGED <<workerAside, netVars, closed, current, log, ready, dropped>>

\* append_event fails, in the transaction or after its commit (the publication),
\* and the socket is closed.
CoordAppendFailed(g) ==
    /\ Busy(g) /\ reply[g].kind \in {"event", "snapshot"}
    /\ \/ UNCHANGED log
       \/ reply[g].seq \notin CommittedSeqs /\ log' = Append(log, reply[g])
    /\ reply' = [reply EXCEPT ![g] = NoFrame]
    /\ closed' = closed \cup {g}
    /\ current' = IF current = g THEN 0 ELSE current
    /\ UNCHANGED <<worker, netVars, barrierVars>>

\* after_append: a fenced generation drops the acknowledgement; a snapshot's
\* opens the barrier first (after_snapshot).
CoordReply(g) ==
    /\ Busy(g) /\ reply[g].kind = "ack"
    /\ reply' = [reply EXCEPT ![g] = NoFrame]
    /\ downq' = IF current = g /\ conn = g THEN [downq EXCEPT ![g] = Append(@, reply[g])]
                 ELSE downq
    /\ ready' = \/ ready
                \/ current = g /\ \E i \in 1..Len(log) : log[i] = Frame("snapshot", reply[g].seq)
    /\ UNCHANGED <<worker, upq, closed, current, log, refused, dropped>>

\* The connection's task ends: superseded, peer gone or keepalive; the
\* generation is retired if it is still the current one.
CoordEnd(g) ==
    /\ g <= dialled /\ g \notin closed /\ ~Busy(g)
    /\ closed' = closed \cup {g}
    /\ current' = IF current = g THEN 0 ELSE current
    /\ UNCHANGED <<worker, netVars, reply, log, barrierVars>>

\* The coordinator process dies and comes back: its sockets, its registry and
\* its appends in progress go, the log stays.
CoordRestart ==
    /\ faults < MaxFaults
    /\ faults' = faults + 1
    /\ closed' = 1..dialled
    /\ current' = 0
    /\ reply' = [g \in Conns |-> NoFrame]
    /\ UNCHANGED <<journalVars, link, pc, deliveryVars, boot, conn, dialled, netVars, log,
                   barrierVars>>

----------------------------------------------------------------------------

Init ==
    /\ J!Init
    /\ link = NewLink /\ pc = "idle"
    /\ changed = FALSE /\ drained = FALSE /\ unnoted = 0
    /\ boot = "waiting" /\ faults = 0
    /\ conn = 0 /\ dialled = 0
    /\ upq = [g \in Conns |-> <<>>] /\ downq = [g \in Conns |-> <<>>]
    /\ closed = {} /\ current = 0 /\ reply = [g \in Conns |-> NoFrame]
    /\ log = <<>>
    /\ ready = FALSE /\ refused = {} /\ dropped = {}

SessionTasks ==
    \/ EmitNumber \/ EmitCommit \/ EmitRefused
    \/ Reserve \/ HoldOrRelease \/ LeaseExpire \/ NoteStoreChanged

Drain ==
    \/ DrainStart \/ DrainAck \/ DrainSync \/ DrainClaims
    \/ SnapshotNotNow \/ SnapshotAuthorised \/ SnapshotOutrun \/ DrainWrite

Coordinator(g) ==
    \/ CoordHello(g) \/ CoordRead(g) \/ CoordDrop(g) \/ CoordRefuse(g)
    \/ CoordAppend(g) \/ CoordNotAdmitted(g) \/ CoordAppendFailed(g)
    \/ CoordReply(g) \/ CoordEnd(g)

Next ==
    \/ SessionTasks
    \/ Dial \/ Receive \/ Drain \/ Disconnect
    \/ BootReplayed \/ BootActivate
    \/ WorkerCrash \/ WorkerStart
    \/ \E g \in Conns : Coordinator(g)
    \/ CoordRestart

Spec == Init /\ [][Next]_vars

\* What the runtimes schedule: every ready task runs, a broken connection is
\* noticed at both ends, a dead worker is started again, a worker that is off
\* dials.  The ticks of the drain come at an interval, so the select reaches
\* the socket between them, which the strong fairness says.  Nothing makes a
\* connection break, a process die or a lease expire.
Fairness ==
    /\ WF_vars(EmitCommit \/ EmitRefused) /\ WF_vars(NoteStoreChanged)
    /\ WF_vars(Dial) /\ WF_vars(Drain)
    /\ SF_vars(Receive) /\ SF_vars(conn \in closed /\ Disconnect)
    /\ WF_vars(BootReplayed) /\ WF_vars(BootActivate) /\ WF_vars(WorkerStart)
    /\ \A g \in Conns :
          /\ WF_vars(CoordHello(g))
          /\ WF_vars(CoordRead(g) \/ CoordDrop(g) \/ CoordRefuse(g))
          /\ WF_vars(CoordAppend(g)) /\ WF_vars(CoordReply(g))
          /\ WF_vars((current # g \/ conn # g) /\ CoordEnd(g))

FairSpec == Spec /\ Fairness

----------------------------------------------------------------------------
(* Properties.                                                             *)

\* Type invariant of the link loop, the connections and the coordinator.
TypeOK ==
    /\ J!TypeOK
    /\ link.pump \in Pump(MaxSequence)
    /\ Len(link.mirror) <= MirrorCap
    /\ pc \in {"idle", "acks", "claims", "snapshot", "resync", "reclaims", "write"}
    /\ boot \in {"waiting", "reconciling", "active"}
    /\ conn \in 0..dialled /\ current \in 0..dialled /\ closed \subseteq 1..dialled
    /\ \A i \in 1..Len(log) : log[i].kind \in {"event", "snapshot"}
    /\ refused \subseteq 1..dialled
    /\ dropped \subseteq Folder

EventPlaces == {i \in 1..Len(log) : log[i].kind = "event" /\ log[i].seq \notin Folder}

\* Every session event but folder metadata reaches the coordinator's log
\* exactly once and in order, and leaves the outbox only after that
\* (EventDelivery).
Delivery == INSTANCE EventDelivery WITH
    pending <- rows \ Folder, delivered <- [i \in EventPlaces |-> log[i].seq]
DeliveredInOrder == Delivery!Spec

\* A snapshot in the log was committed after every row the outbox numbered
\* below it, dropped folder metadata aside: "the snapshot would describe a
\* state that already moved on".
SnapshotCoversRows ==
    \A i \in 1..Len(log) :
       log[i].kind = "snapshot" =>
          \A r \in rows \ dropped : r < log[i].seq => \E j \in 1..i : log[j].seq = r

\* The link goes live only when the coordinator has every row the link was
\* offered, in its log or dropped, and a snapshot numbered above them.
LiveMeansCaughtUp ==
    [][link.pump.barrier # "Live" /\ link'.pump.barrier = "Live" =>
          /\ \A r \in rows : r <= link.offered => r \in Settled
          /\ \E i \in 1..Len(log) : log[i].kind = "snapshot" /\ log[i].seq > link.offered]_vars

\* One thing at a time: of the hello and its answer, the events, the snapshot
\* and their acknowledgements at most one is on the connection, unread or
\* unanswered.
OneInFlight ==
    conn # 0 => Len(upq[conn]) + Len(downq[conn]) + (IF Busy(conn) THEN 1 ELSE 0) <= 1

\* "the two never allocate one space twice" (durable.rs): off the snapshot
\* stage, a row the link has not been offered can still be offered.
RowsStillOfferable ==
    link.pump.barrier # "Snapshot" =>
       \A r \in rows : r > link.offered => CanEnqueueAt(link.pump, r)

\* Between two drains, drained means that the coordinator settled every row whose
\* signal was raised and read: no failed query, refused row, lost connection or
\* restart lets boot reconcile over a row that is still to be sent.
DrainedBetweenDrains ==
    drained /\ unnoted = 0 /\ ~changed /\ pc = "idle" => rows \subseteq Settled

\* Does not hold, see README 4.
\* "a waiter can never read drained over a row it was not told about"
\* (note_store_changed): once every emit has raised its signal, drained means
\* that the coordinator has every row.
DrainedMeansDelivered ==
    drained /\ unnoted = 0 => rows \subseteq Settled

\* The worker is on a connection that answered every frame it read.
Answered == Connected /\ conn \notin refused

\* While the connection lasts and answers, and rows can be offered, every row
\* reaches the coordinator and leaves the outbox: it ends empty, since the
\* session tasks stop after MaxAppends.
EveryRowRetired ==
    <>[]Answered /\ []RowsStillOfferable => <>[](rows = {})

\* Does not hold, see README 4.
\* A row refused before the barrier is not lost, and does not stop the link:
\* "the worker replays it after its snapshot" (frame_dispatch.rs,
\* may_cross_barrier).
BarrierRefusalReplayed ==
    <>[]Connected /\ []RowsStillOfferable => <>[](rows = {})

\* The sequence space, which the model makes small, is not used up.
SpaceLeft == J!NeedsBlock => J!BlockFloor + BlockSize <= MaxSequence

\* While the connection lasts and answers, rows can be offered, no claim blocks
\* and no claim outlives its lease, the link goes live.
LinkGoesLive ==
    /\ <>[](Answered /\ J!BlockingClaims = {})
    /\ [](RowsStillOfferable /\ SpaceLeft /\ \A c \in claims : c.fresh)
    => []<>(link.pump.barrier = "Live")

\* Does not hold, see README 4.
\* "it will still block this worker's snapshot until its lease expires"
\* (journal_sink.rs): after that it does not.
LinkGoesLiveAfterLease ==
    <>[](Answered /\ J!BlockingClaims = {}) /\ [](RowsStillOfferable /\ SpaceLeft)
    => []<>(link.pump.barrier = "Live")

=============================================================================
