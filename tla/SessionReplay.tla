--------------------------- MODULE SessionReplay ---------------------------
(***************************************************************************)
(* What the durable events say, and what the two ends make of them: the    *)
(* worker's session table and the steps of spawn, close and metadata       *)
(* emission (crates/roost-worker/src/session), the coordinator's admission *)
(* and projection of each event kind, its tombstones, its readiness        *)
(* barrier, its forced closes, kills and reaps (crates/roost-coord/src). *)
(*                                                                         *)
(* Transport is what DurableLink establishes: rows travel in order, one at *)
(* a time, and are replayed on the next connection until acknowledged; the *)
(* snapshot is drawn only with no row left.  A worker crash is left to     *)
(* DurableLink.                                                            *)
(***************************************************************************)
EXTENDS Integers, Sequences, FiniteSets

CONSTANTS
    Sessions,       \* session ids; an id is used for one session only
    Adopted,        \* the sessions an earlier process left and this one adopted
    MetaKinds,      \* the metadata events the session tasks emit
    ForceClosable,  \* the sessions force-closed while the worker is away
    Killable,       \* the sessions browsers kill over the live link
    MaxConn         \* bound of the model: connections

ASSUME ReplayAssumption ==
    /\ Adopted \subseteq Sessions
    /\ MetaKinds \subseteq {"attached", "folder"}
    /\ ForceClosable \subseteq Sessions /\ Killable \subseteq Sessions
    /\ MaxConn \in Nat \ {0}

VARIABLES
    stage,      \* worker: how far each session's spawn or close has come
    meta,       \* worker: metadata read from a record and not emitted yet
    outbox,     \* worker: the rows not acknowledged, oldest first
    emitted,    \* worker: rows written so far, which numbers them
    barrier,    \* worker: off, replay, snapshot (drawing or waiting) or live
    sent,       \* the head row on this connection: none, sent, acked or refused
    snapshot,   \* the snapshot of this connection: none, built, sent or acked
    conns,      \* connections so far
    open,       \* coordinator: sessions with a row
    tombs,      \* coordinator: sessions with a closed event in the log
    committed,  \* coordinator: row numbers in the log
    ready,      \* coordinator: this connection crossed the snapshot barrier
    reaps,      \* coordinator: kills this connection owes the worker
    stale,      \* coordinator: snapshots of lost connections, append under way
    disowned    \* history: sessions with a closed that is not their own close's

workerVars == <<stage, meta, outbox, emitted>>
linkVars == <<barrier, sent, snapshot, conns>>
coordVars == <<open, tombs, committed, ready, reaps, stale, disowned>>
vars == <<workerVars, linkVars, coordVars>>

Stages == {"none", "reserved", "opened", "held", "live", "closing", "gone",
           "lost"}

NoSnapshot == [at |-> "none", names |-> {}]

\* The session table: what a snapshot is built from.
Table == {s \in Sessions : stage[s] = "live"}

\* The claims that block a snapshot: from the reserve until the close is held.
Blocking == {s \in Sessions : stage[s] \in {"reserved", "opened"}}

Row(kind, s) == [id |-> emitted + 1, kind |-> kind, session |-> s]

\* Fault: the row takes a number without spending it.
EmitUnspent(kind, s) ==
    /\ outbox' = Append(outbox, Row(kind, s))
    /\ UNCHANGED emitted

\* The sink's emit: one row at the end of the outbox, under the next number.
Emit(kind, s) ==
    /\ outbox' = Append(outbox, Row(kind, s))
    /\ emitted' = emitted + 1

----------------------------------------------------------------------------
(* The worker's session tasks.                                             *)

Advance(s, from, to) ==
    /\ stage[s] = from
    /\ stage' = [stage EXCEPT ![s] = to]

quiet == <<meta, linkVars, coordVars>>

\* spawn_shell: room for opened and for closed is reserved.
SpawnReserve(s) ==
    Advance(s, "none", "reserved") /\ UNCHANGED <<quiet, outbox, emitted>>

\* spawn_claimed: opened is emitted.
SpawnOpened(s) ==
    Advance(s, "reserved", "opened") /\ Emit("opened", s) /\ UNCHANGED quiet

\* spawn_claimed: the claim for closed stops blocking the snapshot.
SpawnHold(s) ==
    Advance(s, "opened", "held") /\ UNCHANGED <<quiet, outbox, emitted>>

\* The record enters the table.  SessionTable::insert refuses an id that is in
\* the table already, which takes two creations of one session: not modelled.
SpawnInsert(s) ==
    Advance(s, "held", "live") /\ UNCHANGED <<quiet, outbox, emitted>>

\* The keeper refused the channel or opened was not recorded: the claims are
\* released.
SpawnFailed(s) ==
    Advance(s, "reserved", "gone") /\ UNCHANGED <<quiet, outbox, emitted>>

\* close_channel up to its emission: the record leaves the table.
CloseForget(s) ==
    Advance(s, "live", "closing") /\ UNCHANGED <<quiet, outbox, emitted>>

\* close_channel: closed is emitted.
CloseEmit(s) ==
    Advance(s, "closing", "gone") /\ Emit("closed", s) /\ UNCHANGED quiet

\* close_channel: closed could not be recorded (DurabilityLost).
CloseLost(s) ==
    Advance(s, "closing", "lost") /\ UNCHANGED <<quiet, outbox, emitted>>

\* claim_viewer, the cwd lane, git and ports: the fact is read from a record
\* of the table.  Bound of the model: once per kind.  A viewer's attach comes
\* over a live link, and only an adopted session is not attached yet.
MetaRead(s, k) ==
    /\ stage[s] = "live"
    /\ k = "attached" => s \in Adopted /\ ready
    /\ \A m \in meta : m.kind # k
    /\ meta' = meta \cup {[session |-> s, kind |-> k, done |-> FALSE]}
    /\ UNCHANGED <<stage, outbox, emitted, linkVars, coordVars>>

\* The row follows, whether the session is still in the table or not.
MetaEmit(m) ==
    /\ ~m.done
    /\ meta' = (meta \ {m}) \cup {[m EXCEPT !.done = TRUE]}
    /\ Emit(m.kind, m.session)
    /\ UNCHANGED <<stage, linkVars, coordVars>>

----------------------------------------------------------------------------
(* The link.                                                               *)

\* Hello and hello-ack: the coordinator's readiness starts over.
Connect ==
    /\ barrier = "off" /\ conns < MaxConn
    /\ conns' = conns + 1
    /\ barrier' = "replay"
    /\ ready' = FALSE
    /\ UNCHANGED <<workerVars, sent, snapshot, open, tombs, committed, reaps, stale, disowned>>

\* The connection is lost with what was on it, the kills included.  A snapshot
\* the coordinator has read goes on being appended.
Disconnect ==
    /\ barrier # "off"
    /\ barrier' = "off" /\ sent' = "none" /\ snapshot' = NoSnapshot
    /\ ready' = FALSE /\ reaps' = {}
    /\ stale' = IF snapshot.at = "sent" THEN stale \cup {snapshot.names} ELSE stale
    /\ UNCHANGED <<workerVars, conns, open, tombs, committed, disowned>>

\* The pump releases the head row.
SendHead ==
    /\ barrier \in {"replay", "live"}
    /\ outbox # <<>> /\ sent = "none"
    /\ sent' = "sent"
    /\ UNCHANGED <<workerVars, barrier, snapshot, conns, coordVars>>

\* The row in flight was acknowledged and leaves the outbox.
RowAcked ==
    /\ barrier # "off" /\ sent = "acked"
    /\ sent' = "none"
    /\ outbox' = Tail(outbox)
    /\ UNCHANGED <<stage, meta, emitted, barrier, snapshot, conns, coordVars>>

\* Replay is done and no claim blocks: the table is copied.
SnapshotBuild ==
    /\ barrier = "replay" /\ outbox = <<>> /\ Blocking = {}
    /\ barrier' = "snapshot"
    /\ snapshot' = [at |-> "built", names |-> Table]
    /\ UNCHANGED <<workerVars, sent, conns, coordVars>>

\* snapshot_sequence: a row written since then sends the link back to replay.
SnapshotDraw ==
    /\ barrier = "snapshot" /\ snapshot.at = "built"
    /\ IF outbox = <<>>
       THEN snapshot' = [snapshot EXCEPT !.at = "sent"] /\ UNCHANGED barrier
       ELSE snapshot' = NoSnapshot /\ barrier' = "replay"
    /\ UNCHANGED <<workerVars, sent, conns, coordVars>>

\* on_snapshot_ack: live, or replay again if the link has seen a row or a
\* blocking claim meanwhile.
SnapshotAcked ==
    /\ barrier = "snapshot" /\ snapshot.at = "acked"
    /\ snapshot' = NoSnapshot
    /\ \/ barrier' = "live"
       \/ (outbox # <<>> \/ Blocking # {}) /\ barrier' = "replay"
    /\ UNCHANGED <<workerVars, sent, conns, coordVars>>

----------------------------------------------------------------------------
(* The coordinator.                                                        *)

\* Fault: a closing event waits for the barrier.
MayCrossOpenedOnly(kind) == ready \/ kind = "opened"

\* may_cross_barrier.
MayCross(kind) == ready \/ kind \in {"opened", "closed"}

\* admit, for a worker's row: a duplicate passes, then a known session, then
\* opened; anything else names an unknown session.
Admitted(row) ==
    row.id \in committed \/ row.session \in open \/ row.kind = "opened"

\* Fault: the closing event leaves the row in place.
ProjectParking(row) ==
    /\ committed' = committed \cup {row.id}
    /\ open' = IF row.kind = "opened" THEN open \cup {row.session} ELSE open
    /\ tombs' = IF row.kind = "closed" THEN tombs \cup {row.session} ELSE tombs

\* project, for a row that is not a duplicate.
Project(row) ==
    /\ committed' = committed \cup {row.id}
    /\ open' = CASE row.kind = "opened" -> open \cup {row.session}
                 [] row.kind = "closed" -> open \ {row.session}
                 [] OTHER -> open
    /\ tombs' = IF row.kind = "closed" THEN tombs \cup {row.session} ELSE tombs

\* handle_one_durable: folder metadata before the barrier is acknowledged and
\* dropped, other metadata is dropped; a refusal by admission is not answered.
HandleRow ==
    /\ barrier # "off" /\ sent = "sent"
    /\ LET row == Head(outbox)
           dropped == ~MayCross(row.kind) /\ row.kind = "folder"
           accepted == MayCross(row.kind) /\ Admitted(row)
       IN  /\ sent' = IF dropped \/ accepted THEN "acked" ELSE "refused"
           /\ IF accepted /\ row.id \notin committed
              THEN Project(row) ELSE UNCHANGED <<open, tombs, committed>>
    /\ UNCHANGED <<workerVars, barrier, snapshot, conns, ready, reaps, stale, disowned>>

\* Fault: a snapshot brings its tombstoned sessions back.
SnapshotRowsUnfiltered(names) == open \cup names

\* force_closed_ids and project_snapshot_sessions: what the snapshot leaves in
\* the table; sessions it does not name stay.
SnapshotRows(names) == open \cup (names \ tombs)

\* A snapshot on the current connection: committed, published, ready,
\* acknowledged, and the tombstoned sessions it named are owed a kill.
HandleSnapshot ==
    /\ barrier = "snapshot" /\ snapshot.at = "sent"
    /\ open' = SnapshotRows(snapshot.names)
    /\ ready' = TRUE
    /\ reaps' = reaps \cup (snapshot.names \cap tombs)
    /\ snapshot' = [snapshot EXCEPT !.at = "acked"]
    /\ UNCHANGED <<workerVars, barrier, sent, conns, tombs, committed, stale, disowned>>

\* A snapshot whose connection is gone commits late, or its append failed:
\* nothing is published, acknowledged or reaped.
HandleStale(names) ==
    /\ names \in stale
    /\ stale' = stale \ {names}
    /\ open' = SnapshotRows(names) \/ UNCHANGED open
    /\ UNCHANGED <<workerVars, linkVars, tombs, committed, ready, reaps, disowned>>

\* handle_sessions_kill with force, the worker not routable.
ForceClose(s) ==
    /\ s \in ForceClosable \cap open /\ ~ready
    /\ open' = open \ {s}
    /\ tombs' = tombs \cup {s}
    /\ disowned' = disowned \cup {s}
    /\ UNCHANGED <<workerVars, linkVars, committed, ready, reaps, stale>>

\* handle_sessions_kill, the worker routable: the kill is relayed on the link.
\* Bound of the model: no further kill once one has left a tombstone.
Kill(s) ==
    /\ s \in Killable \ disowned
    /\ s \in open /\ ready
    /\ reaps' = reaps \cup {s}
    /\ UNCHANGED <<workerVars, linkVars, open, tombs, committed, ready, stale, disowned>>

\* deliver_owed_reaps and kill_held_session: the session is closed, if the
\* worker still has it; if not, a tombstone is emitted unless the close was
\* marked less than RECENTLY_CLOSED_TTL ago.
Reap(s) ==
    /\ ready /\ s \in reaps
    /\ reaps' = reaps \ {s}
    /\ \/ Advance(s, "live", "closing") /\ UNCHANGED <<outbox, emitted, disowned>>
       \/ stage[s] \in {"gone", "lost"} /\ UNCHANGED <<stage, outbox, emitted, disowned>>
       \/ /\ stage[s] # "live" /\ Emit("closed", s)
          /\ disowned' = disowned \cup {s}
          /\ UNCHANGED stage
    /\ UNCHANGED <<meta, linkVars, open, tombs, committed, ready, stale>>

----------------------------------------------------------------------------

Init ==
    /\ stage = [s \in Sessions |-> IF s \in Adopted THEN "live" ELSE "none"]
    /\ meta = {} /\ outbox = <<>> /\ emitted = 0
    /\ barrier = "off" /\ sent = "none" /\ snapshot = NoSnapshot /\ conns = 0
    /\ open = Adopted /\ tombs = {} /\ committed = {} /\ ready = FALSE
    /\ reaps = {} /\ stale = {} /\ disowned = {}

SessionStep(s) ==
    \/ SpawnReserve(s) \/ SpawnOpened(s) \/ SpawnHold(s) \/ SpawnInsert(s)
    \/ SpawnFailed(s) \/ CloseForget(s) \/ CloseEmit(s) \/ CloseLost(s)
    \/ \E k \in MetaKinds : MetaRead(s, k)

Link ==
    \/ SendHead \/ RowAcked
    \/ SnapshotBuild \/ SnapshotDraw \/ SnapshotAcked

Coordinator ==
    \/ HandleRow \/ HandleSnapshot
    \/ \E names \in stale : HandleStale(names)
    \/ \E s \in Sessions : ForceClose(s) \/ Kill(s) \/ Reap(s)

Next ==
    \/ \E s \in Sessions : SessionStep(s)
    \/ \E m \in meta : MetaEmit(m)
    \/ Connect \/ Disconnect \/ Link
    \/ Coordinator

Spec == Init /\ [][Next]_vars

\* Both ends run; a spawn or a close that began goes on.  Nobody has to open
\* or close a session, lose the connection or force anything.
Fairness ==
    /\ WF_vars(Connect) /\ WF_vars(Link)
    /\ WF_vars(HandleRow) /\ WF_vars(HandleSnapshot)
    /\ \A s \in Sessions :
          /\ WF_vars(SpawnOpened(s) \/ SpawnFailed(s)) /\ WF_vars(SpawnHold(s))
          /\ WF_vars(SpawnInsert(s)) /\ WF_vars(CloseEmit(s) \/ CloseLost(s)) /\ WF_vars(Reap(s))

FairSpec == Spec /\ Fairness

----------------------------------------------------------------------------
(* Properties.                                                             *)

\* Type invariant.
TypeOK ==
    /\ stage \in [Sessions -> Stages]
    /\ \A i \in 1..Len(outbox) :
          outbox[i].id \in 1..emitted /\ outbox[i].session \in Sessions
    /\ barrier \in {"off", "replay", "snapshot", "live"}
    /\ sent \in {"none", "sent", "acked", "refused"}
    /\ snapshot.at \in {"none", "built", "sent", "acked"} /\ snapshot.names \subseteq Sessions
    /\ conns \in 0..MaxConn
    /\ open \subseteq Sessions /\ tombs \subseteq Sessions /\ reaps \subseteq Sessions
    /\ committed \subseteq 1..emitted
    /\ ready \in BOOLEAN /\ disowned \subseteq Sessions

\* "A closed is a tombstone, not a status" (append_transaction.rs): once the
\* log has a session's closed, no opened, no snapshot and no late snapshot of
\* a lost connection gives the session a row again.
ClosedStaysClosed == open \cap tombs = {}

\* When every row has been acknowledged, no spawn or close is half done and no
\* close was lost, the coordinator has a row for exactly the sessions of the
\* worker's table that nothing but their own close has closed, whatever
\* connections were lost on the way and whatever late snapshot is still to come.
Agreement ==
    /\ outbox = <<>>
    /\ \A s \in Sessions : stage[s] \in {"none", "live", "gone"}
    => open = Table \ tombs

\* No metadata of a session is on its way once the session is closing.
NoLateMetadata == \A m \in meta : m.done \/ stage[m.session] = "live"

\* The ordered replay is never blocked for good: while the connection lasts
\* and no metadata outlives its session, the outbox empties and the link goes
\* live.
ReplayCompletes ==
    <>[](barrier # "off") /\ []NoLateMetadata => []<>(barrier = "live" /\ outbox = <<>>)

\* The same, where every closed event comes from the close of a session this
\* worker held, kills that meet a live session included.
OwnClosesReplay ==
    [](disowned = {}) => ReplayCompletes

=============================================================================
