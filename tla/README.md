# Roost in TLA+: session events from the worker to the browser

Roost is a self-hosted terminal control plane. A *worker* runs on every machine
and owns its terminal sessions (through a *keeper* daemon that owns the PTYs); one
*coordinator* holds the fleet's session table in a database and serves browsers.
What keeps the two session tables equal is the **durable event path**: a session's
`opened`, `closed` and metadata events are written to an outbox on the worker,
replayed in order to the coordinator over a socket that may break at any time, and
followed by a snapshot of the worker's table before the link is declared live.
The coordinator then publishes each committed event on its session bus, and every
browser's socket carries it, with a recovery of what the browser missed. This
project models that path from one end to the other, and the maintenance protocol
that stops it (the keeper update).

Paths below are relative to `src/crates/`; `worker/` stands for
`roost-worker/src/`, `coord/` for `roost-coord/src/`, `client/` for
`roost-client-core/src/`.

## 1. Inventory

| Component | State | Operations | Correct when |
|---|---|---|---|
| Durable outbox (`worker/event_store*`) | SQLite file: rows, sequence watermark, capacity claims; memory: sequence window, tokens | reserve, hold, release, emit/append, snapshot_sequence, acknowledge, open | a number is never used twice, over any crash; commit order is number order; a claim keeps its room |
| Link barrier (`worker/link_barrier.rs`) | Idle/Open/Replay/Snapshot/Live, queue, one in flight, numbering | enqueue_durable_at, on_* handlers, block/abandon/reassign snapshot | one event in flight; the snapshot comes after the rows; live only when nothing appeared meanwhile |
| Link loop (`worker/runtime/link_*`, `link_loop/`) | pump, mirror of the outbox, offered-through, resync, pending acks, wake | dial, serve, drain, detach | no row is lost between outbox, mirror and pump; the link goes live |
| Delivery signal and boot gate (`worker/session/durable_delivery.rs`, `runtime/boot_admission.rs`, `reconcile_gate.rs`) | changed, drained, held snapshot | note_store_changed, wait_for_replay, activate | drained means delivered; boot and link do not wait for each other |
| Session lifecycle (`worker/session/`) | session table, claims per session | spawn, close, kill, tombstone, metadata lanes, adoption, respawn | every opened is followed by its closed; snapshot and rows tell one story |
| Coordinator worker link (`coord/worker_link/`) | registry of generations, readiness, reap outbox, result lane | hello, frame dispatch, after_append, end | an old generation changes nothing for the new one; acknowledgement after commit |
| Event append and projection (`coord/events/`) | event log, session table, tombstones | admission, dedupe, project, snapshot filter | once per sequence; closed is a tombstone |
| Publication (`coord/events/append_publication.rs`, `pending_publications.rs`) | 256 pending slots, bus | reserve, publish, retain, claim, release, clear_worker | an event is announced at most once, after its commit, in its worker's order; slots come back, a fenced snapshot's excepted |
| Sync feed (`coord/sync_ws/`) | per socket: replay cutoff, held and boundary ids, domain generation and readiness, queue, send window | open, admit_live, recover, reset_domain, domain_ready, flush | no gap and no repeat at the seam of replay and live feed; nothing is sent to a client without its snapshot |
| Client core, session half (`client/handle_sync*`, `client/sync/`) | projection, cursor in memory and storage, generation per domain, hydration calls | dial, frame, hydrate, settle, sweep, reload | the projection is the coordinator's session list once all is quiet |
| Keeper update (`coord/deploy/keeper_update*`, `coord/write_gate.rs`, `worker/keeper_pool/update_*`, `worker/session/channel_creation_gate.rs`, `worker/runtime/reconcile_gate.rs`) | exclusive drain and shared leases, preparations, boundary, keeper and its channels | acquire, decide, prepare, compare, probe, shut down, roll back | no channel is lost that the decision did not name; admission closes and reopens with the preparations |
| Keeper (`roost-keeper`) and pool (`worker/keeper_pool/`) | channels, output ring, input queue | spawn, write, resize, history, reap | bytes survive a worker restart; offsets agree |
| Boot reconcile and adoption (`worker/runtime/reconcile*.rs`, `strays.rs`) | keeper's channels against both tables | adopt, reap strays | nothing alive is killed, nothing dead is shown |
| Terminal stream and screen, views, input routes | stream generations, cursors, replicas, routes | snapshot, delta, repair, claim, resize | a screen never mixes two generations |
| Direct grants and peers, attachments, auth, UI state, deploy, push, agents, CLI, web app | see `PROJECT.json` | | |

**How they interact.** Session tasks write the outbox and raise `note_store_changed`; the
link loop reads the outbox, mirrors rows and feeds them to the pump; the pump authorises
one write at a time; the coordinator's task per socket reads a frame, appends it in a
transaction, projects, publishes and acknowledges; the acknowledgement retires the row.
The snapshot is built from the session table, numbered by the outbox, and crossing it
makes the coordinator's generation *ready*. Before that the coordinator takes no metadata:
the folder's it acknowledges and drops, other metadata it refuses without an answer, as it
does any frame at a held write gate and any append it does not admit. Boot holds the first
snapshot until the drained signal and the reconcile. Kills of sessions that the
coordinator closed on its own travel back. A committed event is published under the
pending store's lock if the connection is still the current one, and retained for its
retry otherwise. The session bus calls every browser socket's feed, which queues the
event, or holds it while a recovery reads the log from the browser's cursor. The client
asks for the session list when a generation of its domain is announced, answers
`domain_ready`, and folds events from then on. A keeper update takes the coordinator's
write gate exclusively, reads the open sessions, and asks the worker, which closes channel
creation and reconciliation, to compare them with its own and shut the keeper down.

**What is hard.** Every `await` of the link loop lets session tasks write; both processes
die at any point; a socket dies with frames in it in either direction, and an append under
way on a dead socket goes on ("never cancelled"); admission, readiness and ordered replay
can wait for each other; events are published in another order than they were committed; a
recovery and the live feed race for every id; a preparation outlives the deadline of the
request that asked for it; four counters (outbox window, file watermark, pump numbering,
offered-through) must stay in step. The list, with the line where each bites and the
property that would catch it, is `hazards` in `PROJECT.json`.

## 2. Modules

| Module | Models | Notes |
|---|---|---|
| `Journal` | the outbox | a row is its number; `reserve` and `append_within` are two steps each, as in the code; `Crash` clears memory, `Open` is `Journal::open` |
| `JournalProofs` | proofs about `Journal` | TLAPS |
| `LinkBarrier` | `Pump` | one operator per method, returning the machine and the Action |
| `DurableLink` | outbox (by INSTANCE of `Journal`) + `LinkBarrier` + link loop + two-way sockets + coordinator generations, readiness barrier, refusals and log | a drain is split at its awaits (`pc`); of a row's kind only *metadata* and *folder metadata* are told apart, as sets of numbers |
| `EventDelivery` | abstract specification: submitted, delivered once and in order, retired after delivery | `DurableLink` is checked and proved to implement it under the mapping pending = rows, delivered = place and number of the log's row events, folder metadata left out of both: the barrier may drop it |
| `SessionReplay` | what the events mean: spawn/close/metadata steps, readiness, admission, projection, tombstones, forced closes, reaps | takes ordered, at-least-once transport from `DurableLink` |
| `Publication` | barrier and append of a worker's rows and snapshots and of the coordinator's events, split at awaits and locks; fence, slots, refusals, deletion of the worker, death of the coordinator | takes from `DurableLink` that a connection brings the oldest row it still owes, once, and a snapshot is sent once in all |
| `EventBus` | abstract specification: announced at most once and only when logged | `Publication` is checked and proved to implement it |
| `SyncFeed` | log, bus, one v2 socket's terminal domain, its recovery task, and the client's session projection | events of a session outside `Astray` are published in order, which `Publication` proves of one worker's events; those of a session in `Astray`, which the coordinator may close by itself, in any order or never |
| `KeeperUpdate` | write gate, handler, worker's preparation, creation gate, reconcile boundary, keeper, and the durable rows that meet the drain, kills | rows travel as `DurableLink` establishes; a killed session's channel may outlive its record |
| `LinkLoopProofs` | what each method of `LinkBarrier` and of the link loop preserves of the link's record | TLAPS, lemmas only |
| `DurableLinkProofs`, `PublicationProofs`, `SessionReplayProofs`, `SyncFeedProofs`, `KeeperUpdateProofs` | proofs about the module of that name | TLAPS |
| `SyncClientProofs` | proofs about the client's projection in `SyncFeed`, on top of `SyncFeedProofs` | TLAPS |
| `MC*` | instances for TLC | one `.cfg` per run |

`map` in `PROJECT.json` gives the source lines of every definition. Definitions
whose comment starts with "Fault:" are deliberately wrong variants: each shows that
a property can be broken by a plausible mistake in the mapped code. They are not
part of any specification.

**State and actions.** `Journal`'s variables are the three tables of the file
(`rows`, `watermark`, `claims`), `SequenceWindow` (`issued`, `reservedThrough`),
the append that holds the window lock (`writer`), callers' tokens, and two history
variables (`draws`, `snaps`). `DurableLink` adds `link` (the fields of `LinkLoop`
the durable path uses), the delivery signal (`changed`, `drained`, and `unnoted`
for emits that committed and have not signalled), `boot`, and per connection the
unread frames each way and the coordinator's append in progress (`reply`), whether the
registered generation is `ready`, and two histories: the connections on which a frame
was left unanswered (`refused`) and the rows acknowledged without an append (`dropped`).
`SessionReplay` has one `stage` per session: reserved, opened emitted, claim held,
in the table, closing, gone, lost; `disowned` is a history variable: the sessions
some `closed` of which was not that of their own close (a forced close, a tombstone).
`Publication` has one `task` per connection, with the phase of the event its
dispatcher is handling, and one `slot` per sequence. `SyncFeed`'s `replay` is the
struct SessionReplay of `session_replay.rs`, `backfill` the program counter and locals
of `recover_through_cutoff`; `admitted` is a history variable. `KeeperUpdate` has one
`phase` (coordinator) and one `task` (worker) per request and one `stage` per session.

**Abstractions.**
- Payloads, bytes and times are left out, and kinds in `Journal`; in `DurableLink` and
  `Publication` the constants `Metadata` and `Folder` say which numbers are rows of
  which kind. The row and byte caps are one cap. A lease expires at any time.
- In `DurableLink` and `Publication` a held write gate and a refused admission are free
  choices of the coordinator; what brings them about is in `KeeperUpdate` and
  `SessionReplay`. In `DurableLink` they use up the budget of faults.
- A connection is a pair of queues. What the worker wrote before the connection
  broke may still be read by the coordinator, or not; what was on its way to the
  worker is lost.
- Where `MayFail` is set, the worker's queries of the outbox and the build of the
  snapshot may answer Err; these and process deaths share one budget, `MaxFaults`.
  The coordinator's append may fail at any time (`CoordAppendFailed`).
- `SessionReplay` has no worker crash (`DurableLink` has) and treats a coordinator
  restart as the loss of the connection. A row whose append outlives its connection
  is the same as one committed before the loss, because the retry is a dedupe; a
  snapshot is not, so its late commit is an action of its own (`HandleStale`).
- `Publication` and `SyncFeed` leave payloads out; an event of `SyncFeed` is opened or
  closed of a session, and each session has one of each. A retry whose payload differs
  from the retained one (`replay_rejected`) cannot happen with an outbox that never
  rewrites a row.
- A full window of `SyncFeed` stalls and never closes the socket: the age deadline is
  a loss of the link, which may happen anyway. A cursor is zero, one of this log, or
  above anything this log will reach: a foreign cursor that a growing log reaches is
  indistinguishable from a good one, to the code as to the model.
- In `KeeperUpdate` the contracts and identities of a journaled envelope are a free
  choice (matches or does not); a reconcile pass waits for the replay, runs and ends,
  and what it does is left out, as is the start of the next keeper. A pass that fails
  fatally stops the worker and is left out.
- A kill or a reap in `SessionReplay` may or may not find the id recently closed; the
  window's length is not modelled. Each session is created once, so the refusal of
  `SessionTable::insert` (an id already in the table) does not arise.
- A kill in `KeeperUpdate` closes the record of a session of the table; the channel goes
  later, or never. A kill that finds no record only adds a row and is left out.
- `RejectToken` in `SyncFeed` stands for a snapshot token that is missing or evicted when
  `domain_ready` arrives; it shares the budget of failed reads.

## 3. Runs

| Run | Instance | Result |
|---|---|---|
| `journal` | 2 rows, blocks of 2, space of 6, 2 claims, 2 concurrent reserves, unlimited crashes | passes: `TypeOK`, `NeverRepeat`, `OpenNeverRefuses`, `TokensNameClaims`, `RowsCommitInOrder` |
| `link_safety` | 2 rows over a mirror of 1, folder and other metadata among them, 2 connections, 1 death, failed call or refusal anywhere | passes: `TypeOK`, `SnapshotCoversRows`, `OneInFlight`, `DrainedBetweenDrains`, `DeliveredInOrder` (refinement of `EventDelivery`), `LiveMeansCaughtUp` |
| `link_live` | 1 row, folder or other metadata or a session row by its number, 2 connections, 1 death of either process or refusal | passes: `EveryRowRetired`, `LinkGoesLive` |
| `link_claims` | 1 claim, no rows, 1 connection | passes: `LinkGoesLive` |
| `link_numbering` | 1 row, 2 connections, no fault | **violated**: `RowsStillOfferable` |
| `session` | an adopted and a new session, folder metadata, a forced close, kills, 2 connections | passes: `TypeOK`, `ClosedStaysClosed`, `Agreement`, `OwnClosesReplay` |
| `session_forced` | one adopted session, forced closes | **violated**: `ReplayCompletes` |
| `publication` | 2 snapshots, folder metadata, a session row and other metadata, 3 connections, 1 slot, 1 coordinator append, 2 faults, deletion | passes: `TypeOK`, `NoOrphanSlot`, `AckedIsDurable`, `BusPromise` (refinement of `EventBus`), `PublishedInOrder` |
| `sync` | 2 sessions, one of them astray, 2 appends under way, hold and queue of 2, window of 1, stored cursor 0 or foreign, 1 loss, 1 failed read or rejected token | passes: `TypeOK`, `SeamExact`, `NoFrameBeforeHydration`, `ConvergedWhenQuiet`, `EventuallyConverged` |
| `sync_cutoff` | the same without foreign cursor and failed reads | **violated**: `CutoffIsFinal` |
| `keeper` | 1 session that may be killed, 2 requests of any kind, 1 pass, 1 loss of the connection | passes: `TypeOK`, `ProofStands`, `ClosedWhilePrepared`, `DestroysOnlyDecided`, `PreparationSettles` |
| `keeper_replay` | 1 session, 1 request | **violated**: `RefusedIsReplayed` |

**Why the bounds are enough to be interesting.** Blocks of 2 make every second number
cross a block boundary, and the space of 6 ends inside the run. Two rows against a row cap
of 2 and a mirror of 1 fill both. Two connections are what it takes for a lost
acknowledgement, a late append of the old generation and a superseding hello; one fault is
enough for a crash, or for a refusal, in every state. The metadata numbers of the link's
runs are chosen so that a row is of each kind on the first connection and on the second,
before the barrier and after it. Two sessions let one close while the other opens. In
`Publication` three connections let the append of the first meet the retry of the second
and the claim of the third, and one slot is a full store as soon as one event has it. A
snapshot before and after the rows gives every row a connection that is ready and one that
is not. In `SyncFeed` two sessions and two appends under way give ids published out of
order; a hold of two overflows, a queue of two fills, and one loss is enough for every
resume from a cursor. In `KeeperUpdate` two requests overlap on the worker after the first
one's deadline, which is the only way they can. `MaxAppends`, `MaxUnnoted`, `MaxConn`,
`MaxFaults`, `MaxClaims`, `MaxCallers`, `MaxDrops` and `MaxPasses` are bounds of the
model; all other constants are constants of the code made small. All runs but `journal`
turn the deadlock check off because a system whose connections are used up and that has
nothing to write really may stop.

**Fairness.** Weak fairness for every task that is ready (tokio polls it): the
second half of an append, its signal, dial, drain, boot, the coordinator's steps,
the restart of a dead worker by its service manager. Strong fairness for `Receive`
and for noticing a closed socket: the `select` of `serve` alternates with drain
ticks that come at an interval, so the socket branch is enabled again and again and
is taken. Nothing is assumed about connections breaking, leases running out,
processes dying, users opening or closing sessions. The liveness properties are
conditional on the connection eventually lasting, and each excludes by name what section 4
shows. For `EveryRowRetired` and `LinkGoesLive` this is `RowsStillOfferable`
(`link_numbering`), claims past their lease (item 9 below), and `Answered`: the connection
left no frame without an answer. Three branches of the coordinator leave one so, with the
socket open, and on a connection where one of them is taken the row or the snapshot in
flight, and all behind it, waits for the next connection: metadata other than the folder's
before the barrier (item 5 below), a held write gate (`keeper_replay`), and an append that
is not admitted (`session_forced`). A refusal on an earlier connection is not excluded. The
reading of the socket is one choice of three (`CoordRead`, `CoordDrop`, `CoordRefuse`) and
weak fairness is of their disjunction: nothing is assumed about which is taken. `SpaceLeft`
excludes only the end of the sequence space, which the model makes reachable. `EveryRowRetired` is
checked without failed store calls: after a failed `acknowledge` the row is not
offered again before the process restarts.

`SyncFeed`: weak fairness for the recovery task, the socket's loop, the client's event
loop and its redial; none for commits, publications, losses and failures: a retained
event is published when its worker comes back, which it need not do.
`EventuallyConverged` therefore supposes that in the end nothing waits to be published;
it needs no condition on the link, because losses are bounded; it
excludes `StaleRelease` (refuted by `sync_cutoff`) and `CutoffAhead` (item 11 below), and
says nothing of the sessions in `Astray` (item 13).
`KeeperUpdate`: weak fairness for the rows' journey, a creation under way, the end of
a session whose channel is gone, the handler with its deadline, and the steps of a
preparation and a pass; `PreparationSettles` excludes rows refused at the drain, which
`keeper_replay` shows to be stuck. `OwnClosesReplay` is `ReplayCompletes` while no
session is `disowned`.

## 4. Where the code and its documentation disagree

Items 1 to 4 are runs TLC refutes; `findings` in `PROJECT.json` quotes the lines.

1. **The pump keeps an un-numbered snapshot draw** (`link_numbering`).
   `on_disconnect` forgets the snapshot and not the number it drew for it; when the
   outbox never numbered that snapshot (boot hold, failed build) its next row is
   refused as already passed for the rest of the process.
2. **A close that is not the worker's own blocks the ordered replay**
   (`session_forced`). The worker's `closed` of a session with no row is refused and
   never answered. It takes a forced close while the worker was away, a reap, or a
   kill that meets a session just leaving the table (`tombstone`, which
   `lifecycle.rs:335` says is for a session this worker NEVER held). Folder metadata
   emitted after a close meets the same refusal (`NoLateMetadata`).
3. **An overflowing hold releases what was already replayed** (`sync_cutoff`), and of
   several held events only the last, where the comment says all, in order.
4. **A row refused at the drain is not replayed** (`keeper_replay`) while the link stays
   up. A forced maintenance shutdown causes it by itself, and with a reconcile pass
   waiting for the replay the preparation waits for that pass.

The following are stated in the modules and refuted by TLC in the instance given; no run
is kept for them.

5. **Metadata refused before the barrier is not replayed** (`BarrierRefusalReplayed` in
   `DurableLink`; `MCLinkLive.cfg` with `MaxFaults = 0`, `Metadata = {1}`, `Folder = {}`).
   `frame_dispatch.rs:107` says it is "dropped SILENTLY with no ACK, so the worker replays
   it after its snapshot"; the worker replays its outbox before its snapshot, and an
   `attached` row (`respawn.rs:127`) left over from the last connection is at the head of
   it. Neither the row, nor those behind it, nor the snapshot is sent from then on. Only
   folder metadata was exempted (`frame_dispatch.rs:214`). The same stall is in
   `SessionReplay` (`ReplayCompletes` with `MetaKinds = {"attached"}` and
   `ForceClosable = {}` in `MCSessionForced.cfg`).
6. **A fenced snapshot's publication is retained for nobody** (`RetainedIsRetried` in
   `Publication`; `MCPublication.cfg` with `MaxFaults = 0`). `append_publication.rs:17` calls
   the retry that is to claim it "guaranteed, because it never got an ACK"; a snapshot is
   not in the outbox and the next connection sends another under a new number, so its slot
   is gone from the 256 until the worker is deleted, its key revoked, or the process ends. A
   retained folder row whose retry is dropped at the barrier goes the same way.
   `NoOrphanSlot` names both (`Replaceable`) and says there is no other.
7. **Reserved room is not reserved** (`ClaimedAppendFits` in `Journal`; `MCJournal.cfg`
   with `MaxCallers = 1`). `append_within` compares stored rows with the cap and does not
   count live claims, so metadata appends can take the room of a session's `closed`
   ("the close still has to fit", `claims.rs:177`).
8. **Drained over an unread change** (`DrainedMeansDelivered` in `DurableLink`;
   `MCLinkNumbering.cfg`). `decide_replay_barrier` does not look at `changed`, so for a
   moment drained is true over a row whose signal has been raised
   (`durable_delivery.rs:49`). `DrainedBetweenDrains` is what does hold.
9. **A lease that runs out is not noticed** (`LinkGoesLiveAfterLease`;
   `MCLinkClaims.cfg`). Claims are read again only when the store changes
   (`journal_sink.rs:98`).
10. **An acknowledged event may never be announced** (`AckedWasPublished` in
   `Publication`; `MCPublication.cfg` with `MaxFaults = 0`). The retry of an event
   whose first append has committed and not yet reached its fence check finds
   nothing retained, releases the slot and is acknowledged; the first append is then
   fenced, finds no slot to retain into, and no further retry comes.
   `append_publication.rs:16` calls the retry guaranteed "because it never got an ACK".
11. **A cutoff above the log may stay** (`AheadIsRewound` in `SyncFeed`;
   `MCSyncFeed.cfg`). When the first read of a recovery with a foreign cursor fails,
   the domain is reset and the cutoff is not rewound; every live event is a duplicate
   from then on, the quiet that `rewind_to_log_end` exists to prevent.
12. **A failed begin or commit leaves its slot** (`leaked` in `NoOrphanSlot`), where
   `append.rs:306` says that a failed append leaves no slot behind.

One behaviour is not denied by any line of the repository and is described here only.

13. **A closed session may be shown open by a live client.** The worker's `opened` commits,
   is fenced and retained; a forced kill appends and publishes `closed` at once
   (`rpc_sessions.rs:172`: the coordinator's own appends have neither slot nor fence); the
   worker comes back, and its retry claims and publishes `opened` last. The client folds
   in arrival order (`fold_event` looks at no id) until it hydrates again.
   `PublishedInOrder` does not exclude this: it orders the events one worker drew, and
   the forced `closed` is not among them. `SyncFeed` has the case (`Astray`), and what it shows is
   that such a session disturbs no other.

## 5. Proofs

`JournalProofs` proves, for every `MaxRows`, `BlockSize` > 0 and every
`MaxSequence`, `MaxClaims`, `MaxCallers` (`JournalAssumption`):
`TypeCorrect`, `SequenceNeverRepeats`, `RestartNeverRefused`, `TokenOwnership`
(`Spec => []` of the invariants of the run `journal`) and `CommitOrder`
(`Spec => RowsCommitInOrder`). All rest on `Invariance`, `Spec => []IInv`:

- `WindowInv`: nothing was ever handed out above the watermark on disk; the window
  lies below it; *while this process has a block open* nothing was handed out above
  its own count. The condition is what makes it inductive: after a restart `issued`
  is the highest waiting row, which may lie far below what the previous process
  handed out, and it is `reservedThrough = 0` that forces a new block above the
  watermark before the first draw.
- `WriterInv`: the append holding the lock owns the newest number and a block is
  open; this is why its row lands above every snapshot and row.
- `DownInv`: a dead process holds nothing.
- `TokensNameClaims` and `NeverRepeat` themselves. `NeverRepeat` alone is not
  inductive: it needs the window.

The proof has one lemma per group of actions; `ClaimSequenceFacts` isolates what a
draw does, and `CommitOrder` follows from `WriterInv` at the one step that adds a row.

`DurableLinkProofs` proves every safety property of the run `link_safety` for all caps,
block sizes, sequence spaces, connections and faults (`LinkAssumption`): `TypeOK`,
`OneInFlight`, `SnapshotCoversRows`, `DrainedBetweenDrains`, `LiveMeansCaughtUp`, and step
by step the refinement of `EventDelivery`, for any choice of which numbers are metadata
and folder metadata. A number is *settled* when it is in the log or was dropped at the
barrier, and only folder metadata is ever dropped (`TypeOK`). The lemmas about one call of
the pump or the link loop are in `LinkLoopProofs`; a pass over any number of rows
(`OfferRows`) goes by its first row that would break the claim. The parts of the
invariant:

- `FileInv`: what is in the outbox, drawn for a snapshot or in the log lies below the
  file's watermark and, while a block is open, below its count; rows and snapshots share
  no number. A new number is therefore above everything, the log included.
- `LinkInv` (`LinkOK`): something is authorised only when the connection is empty, and a
  snapshot is asked for only with nothing queued and a number above the last row offered.
  `OneInFlight` is not inductive without it: it needs what the link is *about* to write.
- `MirrorInv` (`MirrorOK`): mirror and queue are in order, and every row up to the last
  one offered is mirrored or settled. A mirrored row may be neither settled nor
  queued (the mirror takes a row before the pump can refuse it); then nothing above it
  was offered, which is why the head of the mirror is still the oldest row missing.
- `PromiseInv`, `NetInv`: what each frame promises wherever it is, on the current connection,
  on one the worker has left, or half appended: an event is settled or the oldest row
  that is not; below a snapshot every row is settled; what is acknowledged is settled.
  Promises survive every step because steps only add higher numbers and only retire rows
  that are settled (`Grows`); a frame of an old connection that is committed late keeps the order.
- `LogInv`: the rows of the log come before those still waiting. `DrainInv`: once every
  signal was read and no pass was cut short, every row was offered; `drained` was raised
  over an empty mirror.

`PublicationProofs` proves, for any number of events, connections, slots and faults and
any choice of snapshots and metadata, `TypeOK` with the cap of the store,
`AckedIsDurable`, `NoOrphanSlot`, the refinement of `EventBus` (`BusPromise`) and
`PublishedInOrder`. Its invariant adds to the types:

- `ConnInv`: the registered connection is the newest and what it is busy with is a
  snapshot or still in the outbox; `OrderInv`: an event enters the pipe only when nothing
  older is left; `OfferInv`: nothing drawn after a snapshot is offered while the registered
  connection handles it, so that a snapshot that is announced is not behind its rows.
- `LogInv`: what left the outbox was answered, what was answered is in the log or folder
  metadata, and everything a slot retains or an append is about to announce is in the log.
- `RightInv`: at most one holder of the right to announce an event - the append that
  committed it, the slot that retains it, or the append that claimed it under the
  store's lock - and none once it was announced. This is what makes a retry racing a
  late publisher harmless, and every step of `EventBus` is read off it.
- `SlotInv`: a held slot has somebody who will give it back, or retains a replaceable
  event. `NoOrphanSlot` is not
  inductive without its second half: when the registered connection is through with an
  event, the event's place in the outbox no longer counts.

`KeeperUpdateProofs` proves `ProofStands`, `ClosedWhilePrepared` and
`DestroysOnlyDecided` for any sessions and any finite set of overlapping requests
(`KeeperAssumption`; the count of preparations is a cardinality). `TaskInv` says
which requests the count counts and that a running preparation is the one that closed
the boundary exactly when no proof held it closed before; `GateInv` what a closed gate
excludes; `ChannelInv` that past the comparison the keeper's channels are among the
decided sessions and those whose record was closed before (`Ended`: a kill whose channel has
not gone, a creation that failed), which is where `DestroysOnlyDecided` comes from.

`SessionReplayProofs` proves `ClosedStaysClosed` and `Agreement` for any sessions,
metadata and number of connections. `RowInv`: row numbers are given once. `OpenInv`: a
session is known to the coordinator exactly from the commit of its opened row on, and
snapshots, late commits and reaps only name known sessions, so an old snapshot cannot
bring back what nobody opened. `CloseInv`: a session that is gone has its tombstone, or
the row that will be one, or was never opened. `Agreement` holds as soon as the outbox is
empty and no spawn or close is half done; it needs no condition on snapshots or
commands under way.

`SyncFeedProofs` proves `TypeOK` (with the bounds of queue, hold and window),
`SeamExact` and `NoFrameBeforeHydration` for any finite non-empty set of sessions and any
queue, hold and window (`SyncFeedAssumption`). `DomainInv` is about generations: the
notices on the wire come after the events, each of a later generation, and an answer to
an earlier one cannot make a later one ready. `TaskInv` says where the recovery task
is, `SeamInv` what each of the three paths has let through: the recovery everything up to
its cursor and the held events it took, the live feed what is published and neither.
`Range(admitted)` is compared with `unpublished` in three cases (aborted, recovering,
done), because the filter `Duplicate` changes meaning when a recovery ends.

`SyncClientProofs` adds the client and proves `ConvergedWhenQuiet` (`Convergence`) under
the same assumption. The difficulty is that ids reach the client out of order: a snapshot,
replayed rows, held events and live events each have an order of their own, and `Fold`
looks at no id. What saves it is the order *within* a session, so nothing is said of the
sessions in `Astray`, whose ids may be published in any order; their frames still pass
through the same queue and hold. Every id of the log of another session is in one of three
places: *ahead* (`Ahead`: not queued, and the live feed or the recovery will queue it), on
the *line* (`Line`: on the wire or queued for the generation the client is in or about to
enter), or *settled*, which is neither. On top of `IInv`:

- `OrderInv` (`Ordered`): on the line the ids of a session rise, those ahead are above
  them, and nothing above either has settled. So what is still to come of a session are
  its last events. Each step that moves an id takes the least of its session: a
  publication because the bus keeps that order (`PubInv`), a replayed row because it is the
  least id above the cutoff, a held event because the hold has the last events of a session.
- `TicketInv`: what the list was read without has not settled; `ShownInv`: a hydrated
  client shows what the settled events say. The snapshot itself may be newer than some
  ids on the line, and folding those again brings nothing back that is still closed:
  a close comes after its open (`LogInv`) and is on the line or ahead if the open is.
- `PubInv`, `CursorInv`, `CallInv`, `SentInv` are what these need of the publication, the
  cursors, the call for the list and the history `admitted`.

The three view invariants are claimed only in `Tracked` states: the socket is up, neither
exclusion of `ConvergedWhenQuiet` applies, and the task is not between rewinding a foreign
cutoff and the reset it does next; in that gap the ids between the two cutoffs are neither
sent nor owed, and only the snapshot after the reset has them. The proof shows that a step back
into `Tracked` comes with a notice on the wire, so that the client is about to hydrate again.
`UnabandonedConvergence` then says where the exclusions come from: a socket
whose recovery was never abandoned (no overflow of the hold, no failed read, no foreign
cursor) is in neither, so its client converges without a condition.

In every module the proof has one lemma per action or per group of actions that
change the same state, facts about sequences and cardinalities are lemmas of their own,
and each theorem of section `theorems` in `PROJECT.json` follows from `Invariance`
(`Convergence` from `IInv /\ ClientInv`). Every safety invariant and every safety action
property of the passing runs is proved.

**Only model-checked:** the liveness properties (`EveryRowRetired`, `LinkGoesLive`,
`OwnClosesReplay`, `EventuallyConverged`, `PreparationSettles`): liveness under fairness
and `ENABLED` are out of the prover's reach.

## 6. Plan

1. *Done:* `Journal` and its proofs, `LinkBarrier`, `DurableLink` with
   `EventDelivery`, `SessionReplay` with kills, `Publication` with `EventBus`,
   `SyncFeed` with the client's projection, `KeeperUpdate`.
2. *Proved:* the safety properties of `Journal`, `DurableLink`, `Publication`,
   `KeeperUpdate`, `SessionReplay` and `SyncFeed`.
3. *Next modules:* what a reconcile pass does (adoption, strays, `respawned`) with a
   worker restart in `SessionReplay`; the keeper's output ring and resume; terminal stream
   generations and input routes.

## 7. Not modelled

- **Worth a module, not written:** adoption and strays, the keeper's output ring,
  terminal streams and views, input routes, direct grants. Each is a state machine
  of its own, next to the event path modelled here and not part of it.
- **Only partly:** of the Sync socket the v1 protocol, the other domains and the
  terminal lanes; of the client core everything but the session projection; of
  the coordinator's worker link the rate window, retained budget and live frames.
- **Out of reach or without promises about state:** rendering, terminal emulation, wire
  encodings and cryptography (byte-level code), the agents' screen pattern matching,
  OMP sessions (an external program), attachments, deploy and CLI (I/O), push, metrics and
  diagnostics (best effort), generated and vendored code.

These are the bulk of the repository's lines; the share the map covers is small because
the event path is a small, central part of a large program.
