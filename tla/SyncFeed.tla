------------------------------ MODULE SyncFeed ------------------------------
(***************************************************************************)
(* The durable half of a Sync v2 socket: how the session events of the log *)
(* reach one client that comes and goes with a cursor.                     *)
(*                                                                         *)
(* Coordinator: the live feed of the session bus (live_feed.rs), the       *)
(* recovery of what lies above the cursor (backfill.rs, session_replay.rs, *)
(* recovery_delivery.rs), and the terminal domain of the socket with its   *)
(* generation, its readiness and its bounded queue (admission.rs).         *)
(* Client: the fold, the cursor and the hydration of the session list      *)
(* (roost-client-core: handle_sync, sync/watermark.rs, sync/hydration.rs). *)
(*                                                                         *)
(* An event is opened or closed of a session; its id is its place in the   *)
(* log.  Between an event's commit and its publication other appends run,  *)
(* so ids are published out of order.  Those of one session are in order   *)
(* when its worker appended them (Publication, PublishedInOrder), and not  *)
(* when the coordinator itself closes the session: its closed goes over    *)
(* the bus at once, the opened it ends may be retained and follow it.      *)
(***************************************************************************)
EXTENDS Integers, Sequences, SequencesExt, FiniteSets, FiniteSetsExt

CONSTANTS
    Sessions,   \* sessions that may open, and close, once each
    Astray,     \* those of them that may be closed by the coordinator itself,
                \* or lose a publication (deleted worker, slot given away)
    Cursors,    \* cursors the client may have in storage at the start
    MaxAppends, \* appends between their commit and their publication
    HoldMax,    \* live events a recovery holds (512 in the code)
    QueueMax,   \* frames the domain queues (512 in the code)
    Window,     \* frames sent and not acknowledged
    MaxDrops,   \* bound of the model: links lost, coordinator crashes, reloads
    MaxFaults   \* bound of the model: failed reads of the log or the list

\* Fewer appends are under way than a recovery holds events: every worker
\* connection and every call of a browser has one at most.
\* A stored cursor is zero, or from a longer log than this one will be: what
\* happens when a foreign cursor is met by a growing log is not claimed.
ASSUME SyncFeedAssumption ==
    /\ IsFiniteSet(Sessions) /\ Sessions # {} /\ Astray \subseteq Sessions
    /\ MaxAppends \in Nat \ {0}
    /\ HoldMax \in Nat /\ HoldMax >= MaxAppends
    /\ QueueMax \in Nat \ {0}
    /\ Window \in Nat \ {0}
    /\ MaxDrops \in Nat
    /\ MaxFaults \in Nat
    /\ Cursors \subseteq {0} \cup {n \in Nat : n > 2 * Cardinality(Sessions)}

VARIABLES
    log,        \* the durable log: a sequence of events
    unpublished,\* ids committed and not yet on the session bus
    \* The socket, on the coordinator.
    up,         \* it is open
    generation, \* of its terminal domain
    ready,      \* the client hydrated that generation
    queue,      \* ids admitted to the domain's queue
    wire,       \* frames written and not yet handled by the client
    replay,     \* the replay bookkeeping (SessionReplay)
    backfill,   \* the recovery task
    admitted,   \* history: ids queued since the socket opened, or its recovery
                \* was abandoned
    \* The client.
    lastSeen,   \* the cursor
    persisted,  \* the cursor in storage
    domain,     \* the generation announced to it
    hydrated,   \* the snapshot of that generation is in
    retained,   \* ids received before it was
    ticket,     \* the SessionsList call under way and the log it was read at
    readySent,  \* generation of a domain_ready under way, 0 when none
    sessions,   \* the projection
    drops, faults

serverVars == <<up, generation, ready, queue, wire, replay, backfill, admitted>>
callVars == <<ticket, readySent>>
storeVars == <<lastSeen, persisted, domain, hydrated, retained, sessions>>
counters == <<drops, faults>>
vars == <<log, unpublished, serverVars, callVars, storeVars, counters>>

Events == [kind : {"opened", "closed"}, session : Sessions]

NoTicket == [at |-> "none", read |-> 0]

IdleReplay == [recovering |-> FALSE, aborted |-> FALSE, cutoff |-> 0,
               held |-> {}, boundary |-> {}]

NoBackfill == [at |-> "none", since |-> 0, target |-> 0, cursor |-> 0, frame |-> 0]

Opened(n) == {s \in Sessions : \E i \in 1..n : log[i] = [kind |-> "opened", session |-> s]}
Closed(n) == {s \in Sessions : \E i \in 1..n : log[i] = [kind |-> "closed", session |-> s]}

\* The session list as the table has it after the first n events.
ListAt(n) == Opened(n) \ Closed(n)

\* The client's fold looks at no id.
Fold(S, i) == IF log[i].kind = "opened" THEN S \cup {log[i].session}
              ELSE S \ {log[i].session}

FoldAll(S, ids) == FoldLeft(Fold, S, ids)

EventFrame(i) == [kind |-> "event", id |-> i, generation |-> 0]
Control(kind, g) == [kind |-> kind, id |-> 0, generation |-> g]

InFlight == Cardinality({k \in DOMAIN wire : wire[k].kind = "event"})

----------------------------------------------------------------------------
(* The log, and the socket's domain.                                       *)

\* An append commits: the event and the session list in one transaction.
Commit(e) ==
    /\ Cardinality(unpublished) < MaxAppends
    /\ e.session \notin Closed(Len(log))
    /\ e.session \in Opened(Len(log)) <=> e.kind = "closed"
    /\ log' = Append(log, e)
    /\ unpublished' = unpublished \cup {Len(log) + 1}
    /\ UNCHANGED <<serverVars, callVars, storeVars, counters>>

\* Closing the socket stops its recovery and drops what it held; the client
\* forgets the calls it made for it and keeps what it folded.
Close ==
    /\ up' = FALSE
    /\ generation' = 0
    /\ ready' = FALSE
    /\ queue' = <<>>
    /\ wire' = <<>>
    /\ replay' = IdleReplay
    /\ backfill' = NoBackfill
    /\ admitted' = <<>>
    /\ ticket' = NoTicket
    /\ readySent' = 0

\* Fault: the reset domain stays ready.
ResetStillReady(reason, ids) ==
    /\ generation' = generation + 1
    /\ queue' = ids
    /\ admitted' = ids
    /\ wire' = Append(wire, Control(reason, generation + 1))
    /\ UNCHANGED ready

\* reset_domain, its notice on the control lane, and the frames in `ids`
\* queued behind it.
ResetWith(reason, ids) ==
    /\ generation' = generation + 1
    /\ ready' = FALSE
    /\ queue' = ids
    /\ admitted' = ids
    /\ wire' = Append(wire, Control(reason, generation + 1))

Abort(r) == [r EXCEPT !.aborted = TRUE, !.recovering = FALSE, !.held = {}]

\* Fault: the bound of the queue is off by one.
EnqueueOneMore(i) ==
    IF Len(queue) <= QueueMax
    THEN /\ queue' = Append(queue, i)
         /\ admitted' = Append(admitted, i)
         /\ UNCHANGED <<up, generation, ready, wire, replay, backfill, callVars>>
    ELSE Close

\* A full queue closes the socket: a session event cannot be dropped.
Enqueue(i) ==
    IF Len(queue) < QueueMax
    THEN /\ queue' = Append(queue, i)
         /\ admitted' = Append(admitted, i)
         /\ UNCHANGED <<up, generation, ready, wire, replay, backfill, callVars>>
    ELSE Close

----------------------------------------------------------------------------
(* The live feed (route_session, admit_live).                              *)

\* The session bus calls the socket's listener before the publisher goes on.
Published(i) ==
    /\ i \in unpublished
    /\ \A j \in unpublished :
          j < i /\ log[j].session = log[i].session => log[i].session \in Astray
    /\ unpublished' = unpublished \ {i}

\* The worker's deletion drops the publications its slots retain, and a slot
\* given away takes one with it.
Unpublish(i) ==
    /\ i \in unpublished
    /\ log[i].session \in Astray
    /\ unpublished' = unpublished \ {i}
    /\ UNCHANGED <<log, serverVars, callVars, storeVars, counters>>

NotListening(i) ==
    /\ ~up
    /\ Published(i)
    /\ UNCHANGED <<log, serverVars, callVars, storeVars, counters>>

Duplicate(i) == i <= replay.cutoff \/ i \in replay.boundary

\* No recovery: the event goes out unless the client has it.
EmitLive(i) ==
    /\ up
    /\ ~replay.recovering
    /\ Published(i)
    /\ IF Duplicate(i) THEN UNCHANGED <<serverVars, callVars>> ELSE Enqueue(i)
    /\ UNCHANGED <<log, storeVars, counters>>

\* A recovery is under way: the event waits for it.
HoldLive(i) ==
    /\ up
    /\ replay.recovering
    /\ Published(i)
    /\ Cardinality(replay.held) < HoldMax
    /\ replay' = [replay EXCEPT !.held = @ \cup {i}]
    /\ UNCHANGED <<log, up, generation, ready, queue, wire, backfill, admitted,
                   callVars, storeVars, counters>>

\* What is left of the held events and the one that found no room, of which
\* route_session returns the last.
LastReleased(i) ==
    IF ~Duplicate(i) THEN <<i>>
    ELSE IF replay.held = {} THEN <<>> ELSE <<Max(replay.held)>>

\* The hold is full: the recovery is abandoned and the domain reset.
OverflowLive(i) ==
    /\ up
    /\ replay.recovering
    /\ Published(i)
    /\ Cardinality(replay.held) >= HoldMax
    /\ replay' = Abort(replay)
    /\ ResetWith("reset", LastReleased(i))
    /\ UNCHANGED <<log, up, backfill, callVars, storeVars, counters>>

----------------------------------------------------------------------------
(* The recovery task (recover_through_cutoff).                             *)

MoveBackfill(at) == backfill' = [backfill EXCEPT !.at = at]

\* The target is the end of the log, read once the feed is listening.  A
\* cursor above it came from another coordinator: the cutoff falls back.
BackfillReadEnd ==
    /\ backfill.at = "start"
    /\ IF Len(log) < backfill.since
       THEN /\ MoveBackfill("ahead")
            /\ replay' = [replay EXCEPT !.cutoff = Len(log)]
       ELSE /\ backfill' = [backfill EXCEPT !.at = "row", !.target = Len(log)]
            /\ UNCHANGED replay
    /\ UNCHANGED <<log, unpublished, up, generation, ready, queue, wire,
                   admitted, callVars, storeVars, counters>>

\* Then, under another lock, the domain is reset unless it was already.
BackfillCursorAhead ==
    /\ backfill.at = "ahead"
    /\ IF replay.aborted
       THEN UNCHANGED <<generation, ready, queue, wire, replay, admitted>>
       ELSE replay' = Abort(replay) /\ ResetWith("cursor_ahead", <<>>)
    /\ backfill' = NoBackfill
    /\ UNCHANGED <<log, unpublished, up, callVars, storeVars, counters>>

\* A read of the log fails: the domain is reset, abandoned before or not.
BackfillReadFails ==
    /\ backfill.at \in {"start", "row"}
    /\ faults < MaxFaults
    /\ faults' = faults + 1
    /\ replay' = Abort(replay)
    /\ ResetWith("reset", <<>>)
    /\ backfill' = NoBackfill
    /\ UNCHANGED <<log, unpublished, up, callVars, storeVars, drops>>

\* Every step of the task first asks whether the recovery was abandoned.
BackfillStops ==
    /\ backfill.at \in {"row", "tail"}
    /\ replay.aborted
    /\ backfill' = NoBackfill
    /\ UNCHANGED <<log, unpublished, up, generation, ready, queue, wire, replay,
                   admitted, callVars, storeVars, counters>>

\* A replayed frame waits for the hydration and for room; it never overflows.
Paced(i) ==
    /\ ready
    /\ Len(queue) < QueueMax
    /\ queue' = Append(queue, i)
    /\ admitted' = Append(admitted, i)

\* The next row of the closed interval is queued.
BackfillRow ==
    /\ backfill.at = "row"
    /\ ~replay.aborted
    /\ backfill.cursor < backfill.target
    /\ Paced(backfill.cursor + 1)
    /\ MoveBackfill("admit")
    /\ UNCHANGED <<log, unpublished, up, generation, ready, wire, replay,
                   callVars, storeVars, counters>>

\* Then, under another lock, the replay cutoff moves to it.
BackfillAdmit ==
    /\ backfill.at = "admit"
    /\ LET i == backfill.cursor + 1 IN
       /\ replay' = IF i <= replay.cutoff THEN replay
                    ELSE [replay EXCEPT !.cutoff = i, !.boundary = @ \ {i}]
       /\ backfill' = [backfill EXCEPT !.at = "row", !.cursor = i]
    /\ UNCHANGED <<log, unpublished, up, generation, ready, queue, wire,
                   admitted, callVars, storeVars, counters>>

HeldTail == {i \in replay.held : i > backfill.target /\ i \notin replay.boundary}

\* Fault: the tail is not compared with the interval that was replayed.
PopEverything ==
    /\ backfill.at = "row"
    /\ ~replay.aborted
    /\ backfill.cursor = backfill.target
    /\ IF replay.held = {}
       THEN /\ replay' = [replay EXCEPT !.cutoff = backfill.target,
                                        !.recovering = FALSE]
            /\ MoveBackfill("done")
       ELSE /\ replay' = [replay EXCEPT !.cutoff = backfill.target,
                            !.boundary = @ \cup {Min(replay.held)},
                            !.held = @ \ {Min(replay.held)}]
            /\ backfill' = [backfill EXCEPT !.at = "tail", !.frame = Min(replay.held)]
    /\ UNCHANGED <<log, unpublished, up, generation, ready, queue, wire,
                   admitted, callVars, storeVars, counters>>

\* The interval is out: the oldest held event above it is taken, and with none
\* left the recovery ends under the same lock.
BackfillPopTail ==
    /\ backfill.at = "row"
    /\ ~replay.aborted
    /\ backfill.cursor = backfill.target
    /\ IF HeldTail = {}
       THEN /\ replay' = [replay EXCEPT !.cutoff = backfill.target,
                                        !.recovering = FALSE, !.held = {}]
            /\ MoveBackfill("done")
       ELSE /\ replay' = [replay EXCEPT !.cutoff = backfill.target,
                            !.boundary = @ \cup {Min(HeldTail)},
                            !.held = {i \in HeldTail : i > Min(HeldTail)}]
            /\ backfill' = [backfill EXCEPT !.at = "tail", !.frame = Min(HeldTail)]
    /\ UNCHANGED <<log, unpublished, up, generation, ready, queue, wire,
                   admitted, callVars, storeVars, counters>>

\* The event taken is queued; newer ones stay held meanwhile.
BackfillTail ==
    /\ backfill.at = "tail"
    /\ ~replay.aborted
    /\ Paced(backfill.frame)
    /\ backfill' = [backfill EXCEPT !.at = "row", !.frame = 0]
    /\ UNCHANGED <<log, unpublished, up, generation, ready, wire, replay,
                   callVars, storeVars, counters>>

----------------------------------------------------------------------------
(* The socket's turn, and its commands.                                    *)

\* A queued frame goes out when the domain is ready and the window has room.
Flush ==
    /\ ready
    /\ queue # <<>>
    /\ InFlight < Window
    /\ wire' = Append(wire, EventFrame(Head(queue)))
    /\ queue' = Tail(queue)
    /\ UNCHANGED <<log, unpublished, up, generation, ready, replay, backfill,
                   admitted, callVars, storeVars, counters>>

\* domain_ready of another generation, or for a ready domain, is ignored.
HandleDomainReady ==
    /\ readySent # 0
    /\ ready' = (ready \/ readySent = generation)
    /\ readySent' = 0
    /\ UNCHANGED <<log, unpublished, up, generation, queue, wire, replay,
                   backfill, admitted, ticket, storeVars, counters>>

\* A snapshot token that is missing or evicted resets the domain instead.
RejectToken ==
    /\ readySent # 0
    /\ ~ready /\ readySent = generation
    /\ faults < MaxFaults
    /\ faults' = faults + 1
    /\ generation' = generation + 1
    /\ queue' = <<>>
    /\ wire' = Append(wire, Control("reset", generation + 1))
    /\ readySent' = 0
    /\ UNCHANGED <<log, unpublished, up, ready, replay, backfill, admitted, ticket,
                   storeVars, drops>>

\* The client dials with its cursor: the feed is installed, the barrier sent
\* and the recovery started.  A cursor of zero recovers nothing.
Dial ==
    /\ ~up
    /\ up' = TRUE
    /\ generation' = 1
    /\ wire' = <<Control("subscribed", 1)>>
    /\ replay' = [IdleReplay EXCEPT !.cutoff = lastSeen,
                                    !.recovering = lastSeen > 0]
    /\ backfill' = IF lastSeen = 0 THEN NoBackfill
                   ELSE [NoBackfill EXCEPT !.at = "start", !.since = lastSeen,
                                           !.cursor = lastSeen]
    /\ UNCHANGED <<log, unpublished, ready, queue, admitted, callVars,
                   storeVars, counters>>

\* The link is lost with all that was under way on it.
Drop ==
    /\ up
    /\ drops < MaxDrops
    /\ drops' = drops + 1
    /\ Close
    /\ UNCHANGED <<log, unpublished, storeVars, faults>>

\* The coordinator dies: what it had not published, it never will.
Crash ==
    /\ drops < MaxDrops
    /\ drops' = drops + 1
    /\ unpublished' = {}
    /\ Close
    /\ UNCHANGED <<log, storeVars, faults>>

----------------------------------------------------------------------------
(* The client.                                                             *)

\* Fault: the list is asked for once in the client's life.
AskOnce(frame) ==
    /\ domain' = frame.generation
    /\ hydrated' = FALSE
    /\ ticket' = IF domain = 0 THEN [at |-> "asked", read |-> 0] ELSE ticket

\* subscribed and a reset announce a generation; the snapshot in hand is no
\* longer one, and the list is asked for again.
NewGeneration(frame) ==
    /\ domain' = frame.generation
    /\ hydrated' = FALSE
    /\ ticket' = [at |-> "asked", read |-> 0]

ReceiveControl ==
    /\ wire # <<>>
    /\ Head(wire).kind # "event"
    /\ NewGeneration(Head(wire))
    /\ lastSeen' = IF Head(wire).kind = "cursor_ahead" THEN 0 ELSE lastSeen
    /\ wire' = Tail(wire)
    /\ UNCHANGED <<log, unpublished, up, generation, ready, queue, replay,
                   backfill, admitted, persisted, retained, readySent,
                   sessions, counters>>

\* An event is folded and moves the cursor in one step; before the snapshot
\* is in, it is kept for later.
ReceiveEvent ==
    /\ wire # <<>>
    /\ Head(wire).kind = "event"
    /\ LET i == Head(wire).id IN
       IF hydrated
       THEN /\ sessions' = Fold(sessions, i)
            /\ lastSeen' = Max({lastSeen, i})
            /\ UNCHANGED retained
       ELSE /\ retained' = Append(retained, i)
            /\ UNCHANGED <<sessions, lastSeen>>
    /\ wire' = Tail(wire)
    /\ UNCHANGED <<log, unpublished, up, generation, ready, queue, replay,
                   backfill, admitted, persisted, domain, hydrated, callVars,
                   counters>>

\* The coordinator reads the list for the call.
ReadList ==
    /\ ticket.at = "asked"
    /\ ticket' = [at |-> "answered", read |-> Len(log)]
    /\ UNCHANGED <<log, unpublished, serverVars, readySent, storeVars, counters>>

\* The call fails or passes its deadline, and is made again.
HydrationFails ==
    /\ ticket.at = "answered"
    /\ faults < MaxFaults
    /\ faults' = faults + 1
    /\ ticket' = [at |-> "asked", read |-> 0]
    /\ UNCHANGED <<log, unpublished, serverVars, readySent, storeVars, drops>>

\* Fault: the snapshot is merged into the projection and prunes nothing.
MergeHydration ==
    /\ ticket.at = "answered"
    /\ sessions' = FoldAll(sessions \cup ListAt(ticket.read), retained)
    /\ lastSeen' = Max({lastSeen} \cup Range(retained))
    /\ retained' = <<>>
    /\ hydrated' = TRUE
    /\ readySent' = domain
    /\ ticket' = NoTicket
    /\ UNCHANGED <<log, unpublished, serverVars, persisted, domain, counters>>

\* The list replaces the projection, what was kept is folded into it, and
\* the gap is closed.
SettleHydration ==
    /\ ticket.at = "answered"
    /\ sessions' = FoldAll(ListAt(ticket.read), retained)
    /\ lastSeen' = Max({lastSeen} \cup Range(retained))
    /\ retained' = <<>>
    /\ hydrated' = TRUE
    /\ readySent' = domain
    /\ ticket' = NoTicket
    /\ UNCHANGED <<log, unpublished, serverVars, persisted, domain, counters>>

\* The sweep writes the cursor to storage.
SweepCursor ==
    /\ persisted # lastSeen
    /\ persisted' = lastSeen
    /\ UNCHANGED <<log, unpublished, serverVars, callVars, lastSeen, domain,
                   hydrated, retained, sessions, counters>>

\* The page is loaded anew, from storage.
Reload ==
    /\ drops < MaxDrops
    /\ drops' = drops + 1
    /\ Close
    /\ lastSeen' = persisted
    /\ domain' = 0
    /\ hydrated' = FALSE
    /\ retained' = <<>>
    /\ sessions' = {}
    /\ UNCHANGED <<log, unpublished, persisted, faults>>

----------------------------------------------------------------------------

Init ==
    /\ log = <<>>
    /\ unpublished = {}
    /\ up = FALSE
    /\ generation = 0
    /\ ready = FALSE
    /\ queue = <<>>
    /\ wire = <<>>
    /\ replay = IdleReplay
    /\ backfill = NoBackfill
    /\ admitted = <<>>
    /\ persisted \in Cursors
    /\ lastSeen = persisted
    /\ domain = 0
    /\ hydrated = FALSE
    /\ retained = <<>>
    /\ ticket = NoTicket
    /\ readySent = 0
    /\ sessions = {}
    /\ drops = 0
    /\ faults = 0

Route(i) == NotListening(i) \/ EmitLive(i) \/ HoldLive(i) \/ OverflowLive(i)

Recovery ==
    \/ BackfillReadEnd
    \/ BackfillCursorAhead
    \/ BackfillReadFails
    \/ BackfillStops
    \/ BackfillRow
    \/ BackfillAdmit
    \/ BackfillPopTail
    \/ BackfillTail

Socket == Flush \/ HandleDomainReady \/ RejectToken \/ Dial

Client ==
    \/ ReceiveControl
    \/ ReceiveEvent
    \/ ReadList
    \/ HydrationFails
    \/ SettleHydration
    \/ SweepCursor

Next ==
    \/ \E e \in Events : Commit(e)
    \/ \E i \in unpublished : Route(i) \/ Unpublish(i)
    \/ Recovery
    \/ Socket
    \/ Client
    \/ Drop
    \/ Crash
    \/ Reload

\* The recovery task, the socket's loop and the client's event loop keep
\* running; a lost link is dialled again and a failed call retried.  Nothing
\* is assumed of the publishers: a retained event waits for its worker.
Fairness ==
    /\ WF_vars(Recovery)
    /\ WF_vars(Flush)
    /\ WF_vars(HandleDomainReady)
    /\ WF_vars(Dial)
    /\ WF_vars(ReceiveControl \/ ReceiveEvent)
    /\ WF_vars(ReadList)
    /\ WF_vars(SettleHydration)

Spec == Init /\ [][Next]_vars /\ Fairness

----------------------------------------------------------------------------
(* Properties.                                                             *)

Ids == 1..(2 * Cardinality(Sessions))

\* Type invariant of the socket and the client, with the bounds of its queues.
TypeOK ==
    /\ log \in Seq(Events) /\ Len(log) <= 2 * Cardinality(Sessions)
    /\ unpublished \subseteq 1..Len(log)
    /\ up \in BOOLEAN /\ ready \in BOOLEAN /\ hydrated \in BOOLEAN
    /\ generation \in Nat /\ domain \in Nat /\ readySent \in Nat
    /\ queue \in Seq(Ids) /\ Len(queue) <= QueueMax
    /\ Range(retained) \cup Range(admitted) \subseteq Ids
    /\ Cardinality(replay.held) <= HoldMax
    /\ replay.held # {} => replay.recovering
    /\ InFlight <= Window
    /\ sessions \subseteq Sessions

\* The seam (backfill.rs, in order, exactly once): no id is queued twice on a
\* socket between resets, whatever overlaps of the log, the held events and
\* the live feed; and a recovery that ends without a reset has queued every
\* row of its interval.
SeamExact ==
    /\ IsInjective(admitted)
    /\ backfill.at = "done" /\ ~replay.aborted =>
         backfill.since + 1 .. backfill.target \subseteq Range(admitted)

\* A frame is never sent into a gap: the client has the snapshot of the
\* generation by the time the first event of it arrives, so the hold of
\* handle_sync.rs stays empty.
NoFrameBeforeHydration == retained = <<>>

Quiet ==
    /\ up /\ ready /\ hydrated
    /\ unpublished = {} /\ queue = <<>> /\ wire = <<>>
    /\ ~replay.recovering

\* An abandoned recovery released an event at or below its cutoff, or gave up
\* with a cutoff this log never wrote: see CutoffIsFinal and AheadIsRewound.
StaleRelease == replay.aborted /\ \E i \in Range(admitted) : i <= replay.cutoff
CutoffAhead == replay.cutoff > Len(log)

\* The client shows of every session but the astray what the log says.
Converged == sessions \ Astray = ListAt(Len(log)) \ Astray

\* When nothing is under way the client shows what the log says of every
\* session published in order, after any cursor, drop, crash, reload, failed
\* read, rejected token and overflow (handle_sync.rs, hydration.rs).
ConvergedWhenQuiet == Quiet /\ ~StaleRelease /\ ~CutoffAhead => Converged

\* If every event is published in the end, or given up, the client ends up
\* connected and showing what the log says of those sessions (handle_sync.rs).
EventuallyConverged ==
    <>[](unpublished = {}) => <>[](StaleRelease \/ CutoffAhead \/ (Quiet /\ Converged))

\* Refuted by the run sync_cutoff.
\* Every event at or below the cutoff is dropped wherever it arrives from
\* (session_replay.rs, ONE SCALAR CUTOFF).
CutoffIsFinal ==
    [][\A i \in Range(queue') \ Range(queue) : i > replay.cutoff]_vars

\* Does not hold, see README 4.
\* A recovery that gave up leaves no cutoff above the log, which would drop
\* every live event (session_replay.rs, rewind_to_log_end).
AheadIsRewound == up /\ backfill.at = "none" => ~CutoffAhead

=============================================================================
