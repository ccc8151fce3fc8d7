---------------------------- MODULE KeeperUpdate ----------------------------
(***************************************************************************)
(* Preparing a keeper update: the coordinator's exclusive write drain and  *)
(* its decision (crates/roost-coord/src/write_gate.rs, deploy/             *)
(* keeper_update), the worker's preparation (crates/roost-worker/src/      *)
(* keeper_pool/update_prepare.rs) with the channel creation gate and the   *)
(* reconcile boundary it closes, and the durable events that meet the      *)
(* drain.                                                                  *)
(*                                                                         *)
(* The link is up; what a lost connection and the next hello do to it is   *)
(* one step.  Rows travel as DurableLink establishes: in order, one at a   *)
(* time, the head offered once per connection.  What a reconcile pass does *)
(* after its wait, and the contracts a journaled envelope carries, are     *)
(* left out: whether the keeper matches them is a free choice.  A kill of  *)
(* a session that is not in the table only adds a row and is left out too. *)
(***************************************************************************)
EXTENDS Integers, Sequences, FiniteSets

CONSTANTS
    Sessions,   \* session ids; a session has one channel
    Requests,   \* preparation requests
    MaxPasses,  \* bound of the model: reconcile passes
    MaxDrops    \* bound of the model: lost connections

ASSUME KeeperAssumption ==
    /\ IsFiniteSet(Requests)
    /\ MaxPasses \in Nat
    /\ MaxDrops \in Nat

VARIABLES
    drain,          \* coordinator: the requests holding the exclusive drain
    phase,          \* coordinator: idle, held, waiting or done, per request
    frame,          \* what the coordinator sent: the mode asked for and the
                    \* open sessions its decision read
    open,           \* coordinator: sessions with an open row
    stage,          \* worker: how far each session has come
    outbox,         \* worker: durable rows not acknowledged, oldest first
    sent,           \* the head row on this connection
    task,           \* worker: how far each preparation has come
    preparations,   \* worker: preparations that close channel creation
    blocked,        \* worker: the reconcile boundary is closed
    changed,        \* worker: the preparations that closed the boundary
    pass,           \* worker: the reconcile pass: none, waiting or running
    keeper,         \* whether the keeper runs
    channels,       \* keeper: its channels
    proven,         \* history: journaled preparations that succeeded
    passes, drops   \* counters of the bounds

coordVars == <<drain, phase, open>>
rowVars == <<outbox, sent>>
gateVars == <<preparations, blocked, changed>>
keeperVars == <<keeper, channels>>
passVars == <<pass, passes>>
workerVars == <<stage, task, frame, gateVars, passVars, proven>>
vars == <<coordVars, rowVars, workerVars, keeperVars, drops>>

Modes == {"forced", "maintenance", "replace", "preserve"}
Journaled == {"replace", "preserve"}
Running == {"turn", "boundary", "compare", "probe", "shutdown", "force", "exit"}
Settled == {"ok", "failed"}

NoFrame == [mode |-> "none", ids |-> {}]

Table == {s \in Sessions : stage[s] = "live"}
Creating == {s \in Sessions : stage[s] \in {"creating", "made", "opened"}}
Ended == {s \in Sessions : stage[s] = "gone"}

----------------------------------------------------------------------------
(* Sessions and their channels.                                            *)

Advance(s, from, to) ==
    /\ stage[s] = from
    /\ stage' = [stage EXCEPT ![s] = to]

otherThanSessions ==
    <<coordVars, sent, task, frame, gateVars, passVars, proven, keeper, drops>>

Emit(kind, s) == outbox' = Append(outbox, [kind |-> kind, session |-> s])

\* open_shell: the creation lease, refused while a preparation is counted.
CreateBegin(s) ==
    /\ preparations = 0
    /\ Advance(s, "none", "creating")
    /\ UNCHANGED <<otherThanSessions, outbox, channels>>

\* The keeper opens the channel.
CreateChannel(s) ==
    /\ keeper
    /\ Advance(s, "creating", "made")
    /\ channels' = channels \cup {s}
    /\ UNCHANGED <<otherThanSessions, outbox>>

\* The keeper refused, or opened could not be recorded: the lease is dropped
\* with the call.  The kill of the shell is only written.
CreateFailed(s) ==
    /\ stage[s] \in {"creating", "made"}
    /\ stage' = [stage EXCEPT ![s] = "gone"]
    /\ UNCHANGED <<otherThanSessions, outbox, channels>>

\* opened is recorded before the session is in the table.
CreateOpened(s) ==
    /\ Advance(s, "made", "opened")
    /\ Emit("opened", s)
    /\ UNCHANGED <<otherThanSessions, channels>>

\* The record enters the table and the lease is dropped.
CreateEnd(s) ==
    /\ Advance(s, "opened", "live")
    /\ UNCHANGED <<otherThanSessions, outbox, channels>>

\* The shell exits, by itself or because a kill landed.
ChannelExit(s) ==
    /\ s \in channels /\ stage[s] \in {"live", "gone"}
    /\ channels' = channels \ {s}
    /\ UNCHANGED <<otherThanSessions, stage, outbox>>

\* close_channel: the record leaves the table and closed is emitted.
CloseChannel(s) ==
    /\ Advance(s, "live", "gone")
    /\ Emit("closed", s)
    /\ UNCHANGED <<otherThanSessions, channels>>

\* On the exit, or on keeper_lost.
SessionEnd(s) == s \notin channels /\ CloseChannel(s)

\* kill_held_session: the record is closed at once; the kill is written to the
\* keeper, or refused by it, and the channel may outlive the record.
Kill(s) == CloseChannel(s)

----------------------------------------------------------------------------
(* Durable rows against the write gate.                                    *)

SendHead ==
    /\ outbox # <<>> /\ sent = "none"
    /\ sent' = "sent"
    /\ UNCHANGED <<coordVars, outbox, workerVars, keeperVars, drops>>

\* acquire_shared in handle_one_durable: while a drain is held the row gets no
\* answer.
CoordRead ==
    /\ sent = "sent"
    /\ sent' = IF drain = {} THEN "leased" ELSE "refused"
    /\ UNCHANGED <<coordVars, outbox, workerVars, keeperVars, drops>>

Projected(row) ==
    IF row.kind = "opened" THEN open \cup {row.session} ELSE open \ {row.session}

\* The append commits under its lease, which may be older than a drain.
CoordCommit ==
    /\ sent = "leased"
    /\ sent' = "acked"
    /\ open' = Projected(Head(outbox))
    /\ UNCHANGED <<drain, phase, outbox, workerVars, keeperVars, drops>>

RowAcked ==
    /\ sent = "acked"
    /\ sent' = "none"
    /\ outbox' = Tail(outbox)
    /\ UNCHANGED <<coordVars, workerVars, keeperVars, drops>>

----------------------------------------------------------------------------
(* The coordinator's handler.                                              *)

\* The handler returns, whatever the outcome, and drops the drain.
Return(r) ==
    /\ phase' = [phase EXCEPT ![r] = "done"]
    /\ drain' = drain \ {r}

\* Fault: the drain does not ask who holds it.
AcquireShared(r) ==
    /\ phase[r] = "idle"
    /\ drain' = drain \cup {r}
    /\ phase' = [phase EXCEPT ![r] = "held"]
    /\ UNCHANGED <<open, rowVars, workerVars, keeperVars, drops>>

\* handle_workers_prepare_keeper_update up to the drain; acquire_exclusive
\* refuses a second one.
Acquire(r) ==
    /\ phase[r] = "idle" /\ drain = {}
    /\ drain' = drain \cup {r}
    /\ phase' = [phase EXCEPT ![r] = "held"]
    /\ UNCHANGED <<open, rowVars, workerVars, keeperVars, drops>>

\* The device is no longer authorized, the worker is not live or not
\* routable, or the sessions could not be read.
Refuse(r) ==
    /\ phase[r] = "held"
    /\ Return(r)
    /\ UNCHANGED <<open, rowVars, workerVars, keeperVars, drops>>

RequiresEmptyKeeper(m) == m \in {"maintenance", "replace"}

\* decide_keeper_update for what the request asks, and the frame to the worker.
Decide(r, m) ==
    /\ phase[r] = "held"
    /\ IF RequiresEmptyKeeper(m) /\ open # {}
       THEN Return(r) /\ UNCHANGED <<task, frame>>
       ELSE /\ phase' = [phase EXCEPT ![r] = "waiting"]
            /\ task' = [task EXCEPT ![r] = "frame"]
            /\ frame' = [frame EXCEPT ![r] = [mode |-> m, ids |-> open]]
            /\ UNCHANGED drain
    /\ UNCHANGED <<open, rowVars, stage, gateVars, passVars, proven, keeperVars, drops>>

\* The worker's answer, good or bad.
Answer(r) ==
    /\ phase[r] = "waiting" /\ task[r] \in Settled
    /\ Return(r)
    /\ UNCHANGED <<open, rowVars, workerVars, keeperVars, drops>>

\* KEEPER_UPDATE_RPC_DEADLINE: the caller is told it failed; the worker is not.
Deadline(r) ==
    /\ phase[r] = "waiting" /\ task[r] \notin Settled
    /\ Return(r)
    /\ UNCHANGED <<open, rowVars, workerVars, keeperVars, drops>>

----------------------------------------------------------------------------
(* The worker's preparation.                                               *)

otherThanTask == <<coordVars, rowVars, stage, passVars, drops>>

\* prepare, its synchronous half: channel creation closes on receipt.
Arrive(r) ==
    /\ task[r] = "frame"
    /\ task' = [task EXCEPT ![r] = "queued"]
    /\ preparations' = preparations + 1
    /\ UNCHANGED <<otherThanTask, frame, blocked, changed, proven, keeperVars>>

\* The tail lock: one preparation at a time.
Turn(r) ==
    /\ task[r] = "queued"
    /\ \A q \in Requests : task[q] \notin Running
    /\ task' = [task EXCEPT ![r] = "turn"]
    /\ UNCHANGED <<otherThanTask, frame, gateVars, proven, keeperVars>>

\* Fault: the preparation goes on under a creation in flight.
CloseBoundaryAtOnce(r) ==
    /\ task[r] = "turn"
    /\ task' = [task EXCEPT ![r] = "boundary"]
    /\ blocked' = TRUE
    /\ changed' = IF blocked THEN changed ELSE changed \cup {r}
    /\ UNCHANGED <<otherThanTask, frame, preparations, proven, keeperVars>>

\* Every creation in flight has ended; the boundary closes, and the request
\* remembers whether it was the one that closed it.
CloseBoundary(r) ==
    /\ task[r] = "turn" /\ Creating = {}
    /\ task' = [task EXCEPT ![r] = "boundary"]
    /\ blocked' = TRUE
    /\ changed' = IF blocked THEN changed ELSE changed \cup {r}
    /\ UNCHANGED <<otherThanTask, frame, preparations, proven, keeperVars>>

\* The pass in flight has ended: the boundary is held.
HoldBoundary(r) ==
    /\ task[r] = "boundary" /\ pass = "none"
    /\ task' = [task EXCEPT ![r] = "compare"]
    /\ UNCHANGED <<otherThanTask, frame, gateVars, proven, keeperVars>>

\* Fault: a rollback reopens creation for everyone.
ReopenForAll(r) ==
    /\ preparations' = 0
    /\ blocked' = (blocked /\ r \notin changed)
    /\ changed' = changed \ {r}

\* Fault: a failure releases the boundary and leaves creation closed.
ReopenBoundaryOnly(r) ==
    /\ UNCHANGED preparations
    /\ blocked' = (blocked /\ r \notin changed)
    /\ changed' = changed \ {r}

\* rollback and the boundary's release, which undoes only what r closed.
Reopen(r) ==
    /\ preparations' = preparations - 1
    /\ blocked' = (blocked /\ r \notin changed)
    /\ changed' = changed \ {r}

\* The task ends and the request is dropped with it.
Settle(r, result) ==
    /\ task' = [task EXCEPT ![r] = result]
    /\ frame' = [frame EXCEPT ![r] = NoFrame]

\* Every failure, from the boundary on.
Fail(r) == Settle(r, "failed") /\ Reopen(r) /\ UNCHANGED proven

\* A maintenance shutdown reopens; a journaled success leaves creation closed
\* and the boundary held.
Succeed(r) ==
    /\ Settle(r, "ok")
    /\ IF frame[r].mode \in Journaled
       THEN proven' = proven \cup {r} /\ UNCHANGED gateVars
       ELSE Reopen(r) /\ UNCHANGED proven

Goto(r, step) ==
    /\ task' = [task EXCEPT ![r] = step]
    /\ UNCHANGED <<frame, gateVars, proven>>

\* The sessions the coordinator read are the sessions of the table.
Compare(r) ==
    /\ task[r] = "compare"
    /\ IF frame[r].ids = Table THEN Goto(r, "probe") ELSE Fail(r)
    /\ UNCHANGED <<otherThanTask, keeperVars>>

\* The probe, for maintenance (shutdown_keeper_for_maintenance).
ProbeMaintenance(r) ==
    /\ frame[r].mode \notin Journaled
    /\ IF ~keeper THEN Succeed(r)
       ELSE IF channels = {} THEN Goto(r, "shutdown")
       ELSE IF frame[r].mode = "forced" THEN Goto(r, "force")
       ELSE Fail(r)

\* The probe, for a journaled action: the channels are those of the table, and
\* the keeper is the one the journal names, or is not.
ProbeJournaled(r) ==
    /\ frame[r].mode \in Journaled
    /\ IF ~keeper
       THEN IF frame[r].mode = "replace" THEN Succeed(r) ELSE Fail(r)
       ELSE \/ Fail(r)
            \/ /\ channels = frame[r].ids
               /\ \/ Succeed(r)
                  \/ frame[r].mode = "replace" /\ Goto(r, "shutdown")

Probe(r) ==
    /\ task[r] = "probe"
    /\ ProbeMaintenance(r) \/ ProbeJournaled(r)
    /\ UNCHANGED <<otherThanTask, keeperVars>>

KeeperEnds == keeper' = FALSE /\ channels' = {}

\* shutdown_empty: the keeper looks again, atomically.
ShutdownEmpty(r) ==
    /\ task[r] = "shutdown"
    /\ \/ keeper /\ channels = {} /\ Goto(r, "exit") /\ KeeperEnds
       \/ Fail(r) /\ UNCHANGED keeperVars
    /\ UNCHANGED otherThanTask

\* shutdown_forced.
ShutdownForced(r) ==
    /\ task[r] = "force"
    /\ \/ Goto(r, "exit") /\ KeeperEnds
       \/ Fail(r) /\ UNCHANGED keeperVars
    /\ UNCHANGED otherThanTask

\* wait_for_exit: the endpoint stopped answering, or its 30 seconds are over.
ExitWatched(r) ==
    /\ task[r] = "exit"
    /\ Succeed(r) \/ Fail(r)
    /\ UNCHANGED <<otherThanTask, keeperVars>>

----------------------------------------------------------------------------
(* Reconcile passes and the connection.                                    *)

\* reconcile_open_sessions.
PassStart ==
    /\ passes < MaxPasses /\ pass = "none" /\ ~blocked
    /\ pass' = "waiting" /\ passes' = passes + 1
    /\ UNCHANGED <<coordVars, rowVars, stage, task, frame, gateVars, proven, keeperVars, drops>>

\* Fault: the pass looks at the boundary again after its wait.
PassReplayedUnblocked ==
    /\ pass = "waiting" /\ outbox = <<>> /\ ~blocked
    /\ pass' = "running"
    /\ UNCHANGED <<coordVars, rowVars, stage, task, frame, gateVars, passes, proven, keeperVars, drops>>

\* wait_for_replay: every durable row has reached the coordinator.
PassReplayed ==
    /\ pass = "waiting" /\ outbox = <<>>
    /\ pass' = "running"
    /\ UNCHANGED <<coordVars, rowVars, stage, task, frame, gateVars, passes, proven, keeperVars, drops>>

PassEnd ==
    /\ pass = "running"
    /\ pass' = "none"
    /\ UNCHANGED <<coordVars, rowVars, stage, task, frame, gateVars, passes, proven, keeperVars, drops>>

\* The connection is lost and comes back: the head row is offered again, an
\* append under way commits or fails, the caller of a preparation is rejected
\* and a frame on its way is gone.  A preparation that arrived goes on.
Disconnect ==
    /\ drops < MaxDrops
    /\ drops' = drops + 1
    /\ sent' = "none"
    /\ \/ UNCHANGED open
       \/ sent = "leased" /\ open' = Projected(Head(outbox))
    /\ phase' = [r \in Requests |-> IF phase[r] = "waiting" THEN "done" ELSE phase[r]]
    /\ drain' = {r \in drain : phase[r] # "waiting"}
    /\ task' = [r \in Requests |-> IF task[r] = "frame" THEN "none" ELSE task[r]]
    /\ frame' = [r \in Requests |-> IF task[r] = "frame" THEN NoFrame ELSE frame[r]]
    /\ UNCHANGED <<outbox, stage, gateVars, passVars, proven, keeperVars>>

----------------------------------------------------------------------------

Init ==
    /\ drain = {} /\ open = {}
    /\ phase = [r \in Requests |-> "idle"]
    /\ frame = [r \in Requests |-> NoFrame]
    /\ stage = [s \in Sessions |-> "none"]
    /\ outbox = <<>> /\ sent = "none"
    /\ task = [r \in Requests |-> "none"]
    /\ preparations = 0 /\ blocked = FALSE /\ changed = {}
    /\ pass = "none" /\ passes = 0
    /\ keeper = TRUE /\ channels = {}
    /\ proven = {} /\ drops = 0

SessionStep(s) ==
    \/ CreateBegin(s) \/ CreateChannel(s) \/ CreateFailed(s) \/ CreateOpened(s)
    \/ CreateEnd(s) \/ ChannelExit(s) \/ SessionEnd(s) \/ Kill(s)

Rows == SendHead \/ CoordRead \/ CoordCommit \/ RowAcked

Handler(r) ==
    \/ Acquire(r) \/ Refuse(r) \/ (\E m \in Modes : Decide(r, m))
    \/ Answer(r) \/ Deadline(r)

Prepare(r) ==
    \/ Arrive(r) \/ Turn(r) \/ CloseBoundary(r) \/ HoldBoundary(r) \/ Compare(r)
    \/ Probe(r) \/ ShutdownEmpty(r) \/ ShutdownForced(r) \/ ExitWatched(r)

Passes == PassStart \/ PassReplayed \/ PassEnd

Next ==
    \/ \E s \in Sessions : SessionStep(s)
    \/ \E r \in Requests : Handler(r) \/ Prepare(r)
    \/ Rows \/ Passes \/ Disconnect

Spec == Init /\ [][Next]_vars

\* Both processes run: rows move, a creation under way ends, a handler gets on
\* and its deadline comes, a preparation and a pass take the steps they can.
Fairness ==
    /\ WF_vars(Rows) /\ WF_vars(PassReplayed \/ PassEnd)
    /\ \A s \in Sessions :
          /\ WF_vars(CreateChannel(s) \/ CreateFailed(s) \/ CreateOpened(s))
          /\ WF_vars(CreateEnd(s))
          /\ WF_vars(SessionEnd(s))
    /\ \A r \in Requests :
          /\ WF_vars(Refuse(r) \/ \E m \in Modes : Decide(r, m)) /\ WF_vars(Answer(r) \/ Deadline(r))
          /\ WF_vars(Prepare(r))

FairSpec == Spec /\ Fairness

----------------------------------------------------------------------------
(* Properties.                                                             *)

\* Type invariant; the drain has one holder.
TypeOK ==
    /\ Cardinality(drain) <= 1
    /\ phase \in [Requests -> {"idle", "held", "waiting", "done"}]
    /\ frame \in [Requests -> [mode : Modes \cup {"none"}, ids : SUBSET Sessions]]
    /\ open \subseteq Sessions
    /\ stage \in [Sessions -> {"none", "creating", "made", "opened", "live", "gone"}]
    /\ sent \in {"none", "sent", "leased", "refused", "acked"}
    /\ task \in [Requests -> Running \cup Settled \cup {"none", "frame", "queued"}]
    /\ preparations \in 0..Cardinality(Requests)
    /\ blocked \in BOOLEAN /\ changed \subseteq Requests
    /\ pass \in {"none", "waiting", "running"}
    /\ keeper \in BOOLEAN /\ channels \subseteq Sessions /\ proven \subseteq Requests

\* Only a forced request destroys a channel, and only of a session its decision
\* read or of one whose record is closed and whose kill has not landed: no
\* session opened after the decision, or live without a row in the coordinator,
\* is lost to an update (decide_keeper_update: the emptiness proof "is only
\* valid while nothing can create a channel between the read and the worker's
\* shutdown").
DestroysOnlyDecided ==
    [][keeper /\ ~keeper' /\ channels # {} =>
          \E r \in Requests : /\ task[r] = "force" /\ frame[r].mode = "forced"
                              /\ channels \subseteq frame[r].ids \cup Ended]_vars

\* A journaled preparation that succeeded keeps its proof: whatever later
\* requests do, no channel is created and no pass runs (update_prepare.rs: "a
\* spawn or a reconcile against the keeper it just proved would invalidate the
\* proof").
ProofStands == proven # {} => Creating = {} /\ pass = "none"

\* Channel creation and reconciliation are closed exactly while a preparation
\* is under way or a proof stands: no failure, timeout or overlap of requests
\* leaves them closed, or opens them early.
ClosedWhilePrepared ==
    /\ preparations = Cardinality(
          {r \in Requests : task[r] \in Running \cup {"queued"}} \cup proven)
    /\ blocked <=> proven # {} \/ \E r \in Requests : task[r] \in Running \ {"turn"}

\* Nobody waits for good: where no row is refused at the drain, every
\* preparation that reached the worker settles.
PreparationSettles ==
    [](sent # "refused") =>
        \A r \in Requests : task[r] = "queued" ~> task[r] \in Settled

\* Refuted by the run keeper_replay.
\* "A held keeper-update fence withholds the ACK so the worker replays this
\* entry after the update" (frame_dispatch.rs): a row refused at the drain is
\* offered again.
RefusedIsReplayed == sent = "refused" ~> sent # "refused"

=============================================================================
