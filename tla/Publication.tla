---------------------------- MODULE Publication ----------------------------
(***************************************************************************)
(* From a committed event to the session bus: the append of one worker's   *)
(* durable events and of the coordinator's own (events/append.rs), the     *)
(* fence of the connection's generation, and the store that keeps the      *)
(* publication an event lost to that fence (pending_publications.rs).      *)
(*                                                                         *)
(* Each connection handles one event at a time, and an append outlives the *)
(* connection that brought it, so appends of one event over an old and a   *)
(* new connection interleave at every await.  The worker's side is what    *)
(* DurableLink establishes: the oldest row not acknowledged is sent once   *)
(* on each connection, and a snapshot, whose number is drawn from the same *)
(* sequence, once in all: it is no row of the outbox and is never retried. *)
(***************************************************************************)
EXTENDS Integers, FiniteSets

CONSTANTS
    MaxSeq,         \* the worker draws the sequences 1..MaxSeq
    Snapshots,      \* those of them it draws for snapshots
    Metadata,       \* rows that do not establish or end a session
    Folder,         \* rows of replaceable folder metadata
    MaxConn,        \* bound of the model: connections of the worker
    Direct,         \* events the coordinator itself appends
    MaxEntries,     \* slots of the store (256 in the code)
    MaxFaults       \* bound of the model: failed transactions and crashes

ASSUME PublicationAssumption ==
    /\ MaxSeq \in Nat
    /\ Snapshots \subseteq 1..MaxSeq
    /\ Metadata \subseteq (1..MaxSeq) \ Snapshots
    /\ Folder \subseteq Metadata
    /\ MaxConn \in Nat
    /\ MaxEntries \in Nat
    /\ MaxFaults \in Nat
    /\ Direct \cap Int = {}

Seqs == 1..MaxSeq
Conns == 1..MaxConn
Events == Seqs \cup Direct

VARIABLES
    outbox,     \* worker: rows it was not told are settled
    opened,     \* connections so far
    current,    \* the registered connection, 0 when there is none
    offered,    \* per connection: the sequences it brought
    ready,      \* connections whose snapshot crossed the barrier
    task,       \* per connection: the event its dispatcher is handling
    slot,       \* per sequence: its publication slot
    direct,     \* coordinator appends committed and not published yet
    logged,     \* events in the durable log
    announced,  \* how often each event was published on the session bus
    answered,   \* sequences some connection acknowledged
    deleted,    \* the worker's row: live, tombstoned, or tombstoned and fenced
    leaked,     \* history: sequences whose begin or commit failed
    faults      \* faults so far

linkVars == <<outbox, opened, current, offered, ready>>
storeVars == <<task, slot, direct>>
busVars == <<logged, announced>>
vars == <<linkVars, storeVars, busVars, answered, deleted, leaked, faults>>

Phases == {"idle", "arrived", "reserved", "committed", "deduplicated",
           "refused", "claimed", "resolved", "acked"}

SlotStates == {"free", "reserved", "retained", "claimed"}

Idle == [at |-> "idle", seq |-> 0]

Busy(c) == task[c].at # "idle"

\* The generation fence: this connection is the registered one.
IsCurrent(c) == current = c

\* The store's mutex is held from a claim to its publication.
StoreLocked == \E c \in Conns : task[c].at = "claimed"

HeldSlots == {s \in Seqs : slot[s] # "free"}

Move(c, phase) == task' = [task EXCEPT ![c].at = phase]

SetSlot(s, state) == slot' = [slot EXCEPT ![s] = state]

Publish(e) == announced' = [announced EXCEPT ![e] = @ + 1]

----------------------------------------------------------------------------
(* The store's operations (pending_publications.rs).                       *)

HasRoom(s) == slot[s] # "free" \/ Cardinality(HeldSlots) < MaxEntries

\* A duplicate of one sequence shares the slot that is there, as it is.
ReserveSlot(s) ==
    IF slot[s] = "free" THEN SetSlot(s, "reserved") ELSE UNCHANGED slot

\* Only a slot that still exists takes the effect.
Retain(s) ==
    IF slot[s] # "free" THEN SetSlot(s, "retained") ELSE UNCHANGED slot

Release(s) == SetSlot(s, "free")

----------------------------------------------------------------------------
(* Connections, and the worker's end of them.                              *)

\* Before its snapshot a connection carries only what opens, closes or
\* respawns a session, and the snapshot.
MayCrossBarrier(c, s) == c \in ready \/ s \notin Metadata

\* Fault: a hello registers without being counted.
ConnectUncounted ==
    /\ opened < MaxConn
    /\ deleted = "live"
    /\ current' = opened + 1
    /\ UNCHANGED <<outbox, opened, offered, ready, storeVars, busVars, answered,
                   deleted, leaked, faults>>

\* A hello supersedes whatever connection was registered.
Connect ==
    /\ opened < MaxConn
    /\ deleted = "live"
    /\ opened' = opened + 1
    /\ current' = opened + 1
    /\ UNCHANGED <<outbox, offered, ready, storeVars, busVars, answered, deleted,
                   leaked, faults>>

\* The socket ends and gives its registration back.
Disconnect ==
    /\ current # 0
    /\ current' = 0
    /\ UNCHANGED <<outbox, opened, offered, ready, storeVars, busVars, answered,
                   deleted, leaked, faults>>

\* The worker sends the oldest row of its outbox, once on each connection.
SendsRow(c, s) ==
    /\ s \in outbox
    /\ \A r \in outbox : s <= r
    /\ s \notin offered[c]

\* It sends a snapshot once, after every row drawn before it was settled and
\* before anything drawn after it is sent.
SendsSnapshot(s) ==
    /\ s \in Snapshots
    /\ \A r \in outbox : s < r
    /\ \A d \in Conns : \A r \in offered[d] : r < s

\* A frame reaches the dispatcher of the registered connection.
Brings(c, s) ==
    /\ IsCurrent(c)
    /\ ~Busy(c)
    /\ SendsRow(c, s) \/ SendsSnapshot(s)
    /\ offered' = [offered EXCEPT ![c] = @ \cup {s}]

\* It passes the fence, the barrier and the write gate; the dispatcher then
\* waits for the sequence cursor.
Arrive(c, s) ==
    /\ Brings(c, s)
    /\ MayCrossBarrier(c, s)
    /\ task' = [task EXCEPT ![c] = [at |-> "arrived", seq |-> s]]
    /\ UNCHANGED <<outbox, opened, current, ready, slot, direct, busVars,
                   answered, deleted, leaked, faults>>

\* Folder metadata before the barrier is acknowledged and not appended.
DropFolder(c, s) ==
    /\ Brings(c, s)
    /\ ~MayCrossBarrier(c, s)
    /\ s \in Folder
    /\ task' = [task EXCEPT ![c] = [at |-> "acked", seq |-> s]]
    /\ answered' = answered \cup {s}
    /\ UNCHANGED <<outbox, opened, current, ready, slot, direct, busVars,
                   deleted, leaked, faults>>

\* Other metadata before the barrier, and any frame that may cross it while
\* the write gate is held, is refused: no answer, and the socket stays.
Refuse(c, s) ==
    /\ Brings(c, s)
    /\ MayCrossBarrier(c, s) \/ s \notin Folder
    /\ UNCHANGED <<outbox, opened, current, ready, storeVars, busVars,
                   answered, deleted, leaked, faults>>

\* The dispatcher's answer: none over a superseded connection, and none to a
\* snapshot that was not announced; the snapshot that was opens the barrier.
Answer(c) ==
    /\ task[c].at = "resolved"
    /\ LET s == task[c].seq IN
       IF IsCurrent(c) /\ (s \in Snapshots => announced[s] > 0)
       THEN /\ Move(c, "acked")
            /\ answered' = answered \cup {s}
            /\ ready' = IF s \in Snapshots THEN ready \cup {c} ELSE ready
       ELSE /\ task' = [task EXCEPT ![c] = Idle]
            /\ UNCHANGED <<answered, ready>>
    /\ UNCHANGED <<outbox, opened, current, offered, slot, direct, busVars,
                   deleted, leaked, faults>>

\* The acknowledgement reaches the worker, or is lost with its connection.
AckArrives(c) ==
    /\ task[c].at = "acked"
    /\ outbox' = IF IsCurrent(c) THEN outbox \ {task[c].seq} ELSE outbox
    /\ task' = [task EXCEPT ![c] = Idle]
    /\ UNCHANGED <<opened, current, offered, ready, slot, direct, busVars,
                   answered, deleted, leaked, faults>>

----------------------------------------------------------------------------
(* The append of a worker's event.                                         *)

EndOf(c) == IF IsCurrent(c) THEN 0 ELSE current

\* The slot is taken before the transaction; a full store closes the socket.
Reserve(c) ==
    /\ task[c].at = "arrived"
    /\ ~StoreLocked
    /\ \/ /\ HasRoom(task[c].seq)
          /\ ReserveSlot(task[c].seq)
          /\ Move(c, "reserved")
          /\ UNCHANGED current
       \/ /\ ~HasRoom(task[c].seq)
          /\ task' = [task EXCEPT ![c] = Idle]
          /\ current' = EndOf(c)
          /\ UNCHANGED slot
    /\ UNCHANGED <<outbox, opened, offered, ready, direct, busVars, answered,
                   deleted, leaked, faults>>

\* The transaction: a tombstoned worker is refused as data, a sequence the
\* unique index already holds is a duplicate, anything else is inserted, or
\* refused as data when it names a session its worker does not have.
Transact(c) ==
    /\ task[c].at = "reserved"
    /\ LET s == task[c].seq IN
       \/ /\ deleted # "live" \/ s \notin logged
          /\ Move(c, "refused")
          /\ UNCHANGED logged
       \/ /\ deleted = "live" /\ s \in logged
          /\ Move(c, "deduplicated")
          /\ UNCHANGED logged
       \/ /\ deleted = "live" /\ s \notin logged
          /\ Move(c, "committed")
          /\ logged' = logged \cup {s}
    /\ UNCHANGED <<linkVars, slot, direct, announced, answered, deleted,
                   leaked, faults>>

\* The transaction fails and the socket closes.  An error inside the body
\* releases the slot; one of begin or commit leaves it.
FailTransaction(c, inBody) ==
    /\ faults < MaxFaults
    /\ task[c].at = "reserved"
    /\ inBody => ~StoreLocked
    /\ IF inBody THEN Release(task[c].seq) ELSE UNCHANGED slot
    /\ task' = [task EXCEPT ![c] = Idle]
    /\ current' = EndOf(c)
    /\ leaked' = IF inBody THEN leaked ELSE leaked \cup {task[c].seq}
    /\ faults' = faults + 1
    /\ UNCHANGED <<outbox, opened, offered, ready, direct, busVars, answered,
                   deleted>>

\* Fault: a fresh commit is published without asking the fence.
PublishUnfenced(c) ==
    /\ task[c].at = "committed"
    /\ ~StoreLocked
    /\ Publish(task[c].seq)
    /\ Release(task[c].seq)
    /\ Move(c, "resolved")
    /\ UNCHANGED <<linkVars, direct, logged, answered, deleted, leaked, faults>>

\* A fresh commit is published, or retained when the fence refuses it.
ResolveCommit(c) ==
    /\ task[c].at = "committed"
    /\ ~StoreLocked
    /\ IF IsCurrent(c)
       THEN Publish(task[c].seq) /\ Release(task[c].seq)
       ELSE Retain(task[c].seq) /\ UNCHANGED announced
    /\ Move(c, "resolved")
    /\ UNCHANGED <<linkVars, direct, logged, answered, deleted, leaked, faults>>

\* Fault: a refusal is answered like a duplicate.
AnswerRefusal(c) ==
    /\ task[c].at = "refused"
    /\ ~StoreLocked
    /\ Release(task[c].seq)
    /\ Move(c, "resolved")
    /\ UNCHANGED <<linkVars, direct, busVars, answered, deleted, leaked, faults>>

\* A refusal has nothing to publish and is not answered.
ResolveRefusal(c) ==
    /\ task[c].at = "refused"
    /\ ~StoreLocked
    /\ Release(task[c].seq)
    /\ task' = [task EXCEPT ![c] = Idle]
    /\ UNCHANGED <<linkVars, direct, busVars, answered, deleted, leaked, faults>>

\* Fault: a duplicate claims whatever the slot holds.
ClaimAnything(c) ==
    /\ task[c].at = "deduplicated"
    /\ ~StoreLocked
    /\ IF IsCurrent(c) /\ slot[task[c].seq] # "free"
       THEN SetSlot(task[c].seq, "claimed") /\ Move(c, "claimed")
       ELSE Release(task[c].seq) /\ Move(c, "resolved")
    /\ UNCHANGED <<linkVars, direct, busVars, answered, deleted, leaked, faults>>

\* A duplicate claims a retained effect; behind the fence, or with nothing
\* retained, it releases the slot whoever holds it.
ResolveDuplicate(c) ==
    /\ task[c].at = "deduplicated"
    /\ ~StoreLocked
    /\ IF IsCurrent(c) /\ slot[task[c].seq] = "retained"
       THEN SetSlot(task[c].seq, "claimed") /\ Move(c, "claimed")
       ELSE Release(task[c].seq) /\ Move(c, "resolved")
    /\ UNCHANGED <<linkVars, direct, busVars, answered, deleted, leaked, faults>>

\* The fence is asked again: the claim is published, or put back.
FinishClaim(c) ==
    /\ task[c].at = "claimed"
    /\ IF IsCurrent(c)
       THEN Publish(task[c].seq) /\ Release(task[c].seq)
       ELSE Retain(task[c].seq) /\ UNCHANGED announced
    /\ Move(c, "resolved")
    /\ UNCHANGED <<linkVars, direct, logged, answered, deleted, leaked, faults>>

----------------------------------------------------------------------------
(* The coordinator's own appends, the end of a worker, and of the process. *)

\* A rename, a forced close or an assignment: no slot and no fence.
DirectCommit(e) ==
    /\ e \in Direct \ logged
    /\ logged' = logged \cup {e}
    /\ direct' = direct \cup {e}
    /\ UNCHANGED <<linkVars, task, slot, announced, answered, deleted, leaked,
                   faults>>

DirectPublish(e) ==
    /\ e \in direct
    /\ ~StoreLocked
    /\ Publish(e)
    /\ direct' = direct \ {e}
    /\ UNCHANGED <<linkVars, task, slot, logged, answered, deleted, leaked,
                   faults>>

\* Deleting the worker: the tombstone commits first.
DeleteWorker ==
    /\ deleted = "live"
    /\ deleted' = "tombstoned"
    /\ UNCHANGED <<linkVars, storeVars, busVars, answered, leaked, faults>>

\* Fault: the fence forgets the slots.
FenceOnly ==
    /\ deleted = "tombstoned"
    /\ ~StoreLocked
    /\ deleted' = "fenced"
    /\ current' = 0
    /\ UNCHANGED <<outbox, opened, offered, ready, storeVars, busVars, answered,
                   leaked, faults>>

\* Then, in one step, its connection is fenced and its slots dropped.
FenceDeletedWorker ==
    /\ deleted = "tombstoned"
    /\ ~StoreLocked
    /\ deleted' = "fenced"
    /\ current' = 0
    /\ slot' = [s \in Seqs |-> "free"]
    /\ UNCHANGED <<outbox, opened, offered, ready, task, direct, busVars, answered,
                   leaked, faults>>

\* The coordinator dies: the store and every append under way go with it.
Crash ==
    /\ faults < MaxFaults
    /\ faults' = faults + 1
    /\ current' = 0
    /\ task' = [c \in Conns |-> Idle]
    /\ slot' = [s \in Seqs |-> "free"]
    /\ direct' = {}
    /\ UNCHANGED <<outbox, opened, offered, ready, busVars, answered, deleted, leaked>>

----------------------------------------------------------------------------

Init ==
    /\ outbox = Seqs \ Snapshots
    /\ opened = 0
    /\ current = 0
    /\ offered = [c \in Conns |-> {}]
    /\ ready = {}
    /\ task = [c \in Conns |-> Idle]
    /\ slot = [s \in Seqs |-> "free"]
    /\ direct = {}
    /\ logged = {}
    /\ announced = [e \in Events |-> 0]
    /\ answered = {}
    /\ deleted = "live"
    /\ leaked = {}
    /\ faults = 0

AppendStep(c) ==
    \/ Reserve(c)
    \/ Transact(c)
    \/ \E inBody \in BOOLEAN : FailTransaction(c, inBody)
    \/ ResolveCommit(c)
    \/ ResolveRefusal(c)
    \/ ResolveDuplicate(c)
    \/ FinishClaim(c)

Next ==
    \/ Connect
    \/ Disconnect
    \/ \E c \in Conns :
          \/ \E s \in Seqs : Arrive(c, s) \/ DropFolder(c, s) \/ Refuse(c, s)
          \/ AppendStep(c)
          \/ Answer(c)
          \/ AckArrives(c)
    \/ \E e \in Direct : DirectCommit(e) \/ DirectPublish(e)
    \/ DeleteWorker
    \/ FenceDeletedWorker
    \/ Crash

Spec == Init /\ [][Next]_vars

----------------------------------------------------------------------------
(* Properties.                                                             *)

Types ==
    /\ outbox \subseteq Seqs \ Snapshots
    /\ opened \in 0..MaxConn
    /\ current \in 0..opened
    /\ offered \in [Conns -> SUBSET Seqs]
    /\ ready \subseteq Conns
    /\ task \in [Conns -> [at : Phases, seq : 0..MaxSeq]]
    /\ \A c \in Conns : Busy(c) => task[c].seq \in Seqs
    /\ slot \in [Seqs -> SlotStates]
    /\ direct \subseteq Direct
    /\ logged \subseteq Events
    /\ announced \in [Events -> Nat]
    /\ answered \subseteq Seqs
    /\ deleted \in {"live", "tombstoned", "fenced"}
    /\ leaked \subseteq Seqs
    /\ faults \in 0..MaxFaults

\* Type invariant of the appends, the slots and the log; the store stays
\* within its cap.
TypeOK == Types /\ Cardinality(HeldSlots) <= MaxEntries

\* Announcing is at most once and only after the commit, however the appends
\* of one event over several connections interleave with each other, with
\* crashes and with the worker's deletion (EventBus).
Bus == INSTANCE EventBus
BusPromise == Bus!Spec

\* What the worker does not have to bring again: a snapshot, which the next
\* connection replaces, and folder metadata, which the barrier may settle.
Replaceable == Snapshots \cup Folder

\* A slot is held only for a row its worker still has to bring again, or by
\* an append under way, or where begin or commit failed, or for a replaceable
\* event that lost its publication to the fence: other settled rows, and
\* deleted workers, do not use up the 256 slots.
NoOrphanSlot ==
    \A s \in HeldSlots :
        \/ s \in outbox /\ deleted # "fenced"
        \/ \E c \in Conns : Busy(c) /\ task[c].seq = s
        \/ s \in leaked
        \/ s \in Replaceable /\ slot[s] = "retained" /\ deleted # "fenced"

\* Does not hold, see README 4.
\* A publication lost to the fence is claimed by the worker's retry, "which is
\* guaranteed, because it never got an ACK" (pending_publications.rs): what a
\* slot retains is a row the worker still has, or an append handles it.
RetainedIsRetried ==
    \A s \in Seqs :
        slot[s] = "retained" =>
            s \in outbox \/ \E c \in Conns : Busy(c) /\ task[c].seq = s

\* Once an event of a worker went over the bus, no event that worker drew
\* before it does, though appends of old connections outlive them and retained
\* ones go out late.  The coordinator's own events are not among them: a forced
\* close may go over the bus before the opened it ends (SyncFeed).
PublishedInOrder ==
    [][\A r, s \in Seqs :
         r < s /\ announced[s] > 0 => announced'[r] = announced[r]]_vars

\* What the worker was told is settled is in the durable log, because the
\* worker drops its only copy on that word; folder metadata alone may be
\* dropped, since the next change sends it again.
AckedIsDurable == answered \subseteq logged \cup Folder

\* Does not hold, see README 4.
\* An acknowledged event was announced: the retry of an event that lost its
\* publication claims and publishes it (append_publication.rs, WHAT THE CLAIM
\* IS FOR).  An append still under way may yet publish it.
AckedWasPublished ==
    \A s \in answered \ Folder :
        announced[s] > 0 \/ \E c \in Conns : Busy(c) /\ task[c].seq = s

=============================================================================
