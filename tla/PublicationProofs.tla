------------------------- MODULE PublicationProofs -------------------------
(***************************************************************************)
(* Proofs about the publication of events, for any number of sequences,    *)
(* connections, slots and faults, and any choice of which of them are      *)
(* snapshots and metadata.  The inductive invariant has six parts beside   *)
(* the types: how connections succeed one another; which events are in the *)
(* log; in which order they enter the pipe; what a snapshot finds offered; *)
(* who may still announce an event; and who will give a slot back.         *)
(***************************************************************************)
EXTENDS Publication, FiniteSetTheorems, TLAPS

At(c, S) == task[c].at \in S

\* The registered connection is the newest; a connection not opened yet has
\* handled nothing; and what the registered connection is busy with is a
\* snapshot or still in the outbox, because only that connection's
\* acknowledgement removes it.  A fenced worker has no connection.
ConnInv ==
    /\ current \in {0, opened}
    /\ deleted = "fenced" => current = 0
    /\ \A c \in Conns : c > opened => ~Busy(c)
    /\ \A c \in Conns :
          IsCurrent(c) /\ Busy(c) => task[c].seq \in outbox \cup Snapshots

\* What has left the outbox was answered, what was answered is in the log or
\* folder metadata, and in the log is whatever an append found or put there.
LogInv ==
    /\ (Seqs \ Snapshots) \ outbox \subseteq answered
    /\ answered \subseteq logged \cup Folder
    /\ \A c \in Conns : At(c, {"acked"}) => task[c].seq \in answered
    /\ \A c \in Conns :
          At(c, {"committed", "deduplicated", "claimed", "resolved"})
             => task[c].seq \in logged
    /\ \A s \in Seqs : slot[s] \in {"retained", "claimed"} => s \in logged
    /\ direct \subseteq logged
    /\ \A e \in Events : announced[e] > 0 => e \in logged

\* An event enters the pipe only when nothing older is left in the outbox.
OrderInv ==
    /\ \A c \in Conns : Busy(c) => \A r \in outbox : task[c].seq <= r
    /\ \A s \in Seqs \cap logged : \A r \in outbox : s <= r

\* Whatever is handled or logged was offered, and nothing drawn after a
\* snapshot is offered while the registered connection handles it.
OfferInv ==
    /\ \A c \in Conns : Busy(c) => task[c].seq \in offered[c]
    /\ \A s \in Seqs \cap logged : \E d \in Conns : s \in offered[d]
    /\ \A c \in Conns :
          IsCurrent(c) /\ Busy(c) /\ task[c].seq \in Snapshots =>
             \A d \in Conns : \A r \in offered[d] : r <= task[c].seq

\* At most one holder of the right to announce an event, and none once it was
\* announced: the append that committed it, the slot that retains it, or the
\* append that claimed it from there under the store's lock.
RightInv ==
    /\ \A c, d \in Conns :
          At(c, {"committed"}) /\ At(d, {"committed"}) /\ task[c].seq = task[d].seq
             => c = d
    /\ \A c, d \in Conns : At(c, {"claimed"}) /\ At(d, {"claimed"}) => c = d
    /\ \A c \in Conns : At(c, {"claimed"}) => slot[task[c].seq] = "claimed"
    /\ \A c \in Conns :
          At(c, {"committed"}) =>
             /\ slot[task[c].seq] \notin {"retained", "claimed"}
             /\ announced[task[c].seq] = 0
    /\ \A s \in Seqs : slot[s] \in {"retained", "claimed"} => announced[s] = 0
    /\ \A e \in direct : announced[e] = 0
    /\ \A e \in Events : announced[e] <= 1

\* An append on s that is going to release the slot, or to leave it leaked.
Releasing(s) ==
    \E d \in Conns : task[d].seq = s /\ At(d, {"reserved", "deduplicated", "refused"})

\* An append on s that has the right to announce it.
Holding(s) ==
    \E d \in Conns : task[d].seq = s /\ At(d, {"committed", "claimed"})

\* A held slot retains its event or has someone to give it back; what is held
\* beyond that is of a row that comes again or of a replaceable event; and when
\* the registered connection is through with an event, its place in the outbox
\* does not count.
SlotInv ==
    /\ \A s \in Seqs :
          slot[s] # "free" =>
             slot[s] = "retained" \/ s \in leaked \/ Releasing(s) \/ Holding(s)
    /\ \A s \in Seqs :
          slot[s] # "free" =>
             \/ s \in leaked \/ Releasing(s)
             \/ s \in outbox \cup Replaceable /\ deleted # "fenced"
    /\ \A c \in Conns :
          IsCurrent(c) /\ At(c, {"resolved", "acked"})
          /\ task[c].seq \notin Replaceable /\ slot[task[c].seq] # "free"
             => task[c].seq \in leaked \/ Releasing(task[c].seq)

IInv ==
    /\ Types
    /\ ConnInv
    /\ LogInv
    /\ OrderInv
    /\ OfferInv
    /\ RightInv
    /\ SlotInv

----------------------------------------------------------------------------

\* Nothing is under way at the start.
LEMMA InitEstablishes == Init => IInv
  <1> SUFFICES ASSUME Init PROVE IInv
    OBVIOUS
  <1> USE PublicationAssumption DEF Init
  <1>1. Types
    BY DEF Types, Busy, Idle, Phases, SlotStates, Conns, Events
  <1>2. ConnInv /\ LogInv /\ OrderInv /\ OfferInv
    BY DEF ConnInv, LogInv, OrderInv, OfferInv, At, Busy, Idle, Conns
  <1>3. RightInv /\ SlotInv
    BY DEF RightInv, SlotInv, At, Idle, Events
  <1> QED BY <1>1, <1>2, <1>3 DEF IInv

\* A hello: the new connection has handled nothing.
LEMMA ConnectPreserves == IInv /\ Connect => IInv'
  <1> SUFFICES ASSUME IInv, Connect PROVE IInv'
    OBVIOUS
  <1> USE PublicationAssumption DEF IInv, Connect, storeVars, busVars
  <1>1. Types'
    BY DEF Types, Busy
  <1>2. ConnInv'
    BY DEF ConnInv, Types, Busy, IsCurrent, Conns
  <1>3. LogInv' /\ OrderInv' /\ RightInv'
    BY DEF LogInv, OrderInv, RightInv, At, Busy
  <1>5. OfferInv'
    BY DEF OfferInv, ConnInv, Types, Busy, IsCurrent, Conns
  <1>4. SlotInv'
    BY DEF SlotInv, Releasing, Holding, At, ConnInv, Types, Busy, IsCurrent, Conns
  <1> QED BY <1>1, <1>2, <1>3, <1>4, <1>5

\* The connection goes; its append goes on.
LEMMA DisconnectPreserves == IInv /\ Disconnect => IInv'
  <1> SUFFICES ASSUME IInv, Disconnect PROVE IInv'
    OBVIOUS
  <1> USE PublicationAssumption DEF IInv, Disconnect, storeVars, busVars
  <1>1. Types'
    BY DEF Types, Busy
  <1>2. ConnInv'
    BY DEF ConnInv, Types, Busy, IsCurrent, Conns
  <1>3. LogInv' /\ OrderInv' /\ RightInv'
    BY DEF LogInv, OrderInv, RightInv, At, Busy
  <1>5. OfferInv'
    BY DEF OfferInv, ConnInv, Types, Busy, IsCurrent, Conns
  <1>4. SlotInv'
    BY DEF SlotInv, Releasing, Holding, At, Types, IsCurrent, Conns
  <1> QED BY <1>1, <1>2, <1>3, <1>4, <1>5

\* A frame is taken up by the dispatcher of the registered connection, or, if
\* it is folder metadata before the barrier, acknowledged there and then.
LEMMA TakeUpPreserves ==
  ASSUME IInv, NEW c \in Conns, NEW s \in Seqs, Arrive(c, s) \/ DropFolder(c, s)
  PROVE  IInv'
  <1> USE PublicationAssumption DEF IInv
  <1>1. /\ IsCurrent(c) /\ ~Busy(c) /\ s \in outbox \cup Snapshots
        /\ \A r \in outbox : s <= r
        /\ UNCHANGED <<outbox, opened, current, ready, slot, direct, logged,
                       announced, deleted, leaked, faults>>
        /\ offered' = [offered EXCEPT ![c] = @ \cup {s}]
    <2>1. \A r \in outbox : s < r => s <= r
      BY DEF Types, Seqs
    <2> QED BY <2>1 DEF Arrive, DropFolder, Brings, SendsRow, SendsSnapshot, busVars
  <1>2. PICK phase \in {"arrived", "acked"} :
           /\ task' = [task EXCEPT ![c] = [at |-> phase, seq |-> s]]
           /\ phase = "arrived" => answered' = answered
           /\ phase = "acked" => answered' = answered \cup {s} /\ s \in Folder
    BY DEF Arrive, DropFolder
  <1>3. /\ task[c].at = "idle" /\ task'[c].at = phase /\ task'[c].seq = s
        /\ \A d \in Conns : d # c => task'[d] = task[d]
        /\ task' \in [Conns -> [at : Phases, seq : 0..MaxSeq]]
    BY <1>1, <1>2 DEF Types, Busy, Phases, Seqs
  <1>4. /\ offered' \in [Conns -> SUBSET Seqs]
        /\ offered'[c] = offered[c] \cup {s}
        /\ \A d \in Conns : d # c => offered'[d] = offered[d]
    BY <1>1 DEF Types
  <1>5. Types'
    BY <1>1, <1>2, <1>3, <1>4 DEF Types, Busy
  <1>6. ConnInv'
    BY <1>1, <1>3 DEF ConnInv, Types, Busy, IsCurrent, Conns
  <1>7. LogInv'
    BY <1>1, <1>2, <1>3 DEF LogInv, At
  <1>8. OrderInv'
    BY <1>1, <1>3 DEF OrderInv, Busy
  <1>9. OfferInv'
    <2>1. /\ \A d \in Conns : Busy(d)' => task'[d].seq \in offered'[d]
          /\ \A r \in Seqs \cap logged : \E d \in Conns : r \in offered'[d]
      BY <1>1, <1>3, <1>4 DEF OfferInv, Busy
    <2>2. ASSUME s \in Snapshots, NEW d \in Conns, NEW r \in offered'[d]
          PROVE  r <= s
      <3>1. \A e \in Conns : \A x \in offered[e] : x < s
        BY <2>2 DEF Arrive, DropFolder, Brings, SendsRow, SendsSnapshot, Types
      <3>2. r \in Seqs /\ (r = s \/ r \in offered[d])
        BY <1>4, <2>2
      <3> QED BY <3>1, <3>2 DEF Seqs
    <2>3. \A d \in Conns : IsCurrent(d)' => d = c
      BY <1>1 DEF IsCurrent
    <2> QED BY <1>1, <1>3, <2>1, <2>2, <2>3 DEF OfferInv
  <1>10. RightInv'
    BY <1>1, <1>3 DEF RightInv, At
  <1>11. SlotInv'
    <2>1. \A r : /\ Releasing(r) => Releasing(r)'
                 /\ Holding(r) => Holding(r)'
      BY <1>3 DEF Releasing, Holding, At
    <2> QED BY <1>1, <1>2, <1>3, <2>1 DEF SlotInv, At, IsCurrent, Replaceable
  <1> QED BY <1>5, <1>6, <1>7, <1>8, <1>9, <1>10, <1>11

\* A frame is refused without an answer: it only counts as offered.
LEMMA RefusePreserves ==
  ASSUME IInv, NEW c \in Conns, NEW s \in Seqs, Refuse(c, s)
  PROVE  IInv'
  <1> USE PublicationAssumption DEF IInv
  <1>1. /\ IsCurrent(c) /\ ~Busy(c)
        /\ UNCHANGED <<outbox, opened, current, ready, task, slot, direct, logged,
                       announced, answered, deleted, leaked, faults>>
        /\ offered' = [offered EXCEPT ![c] = @ \cup {s}]
    BY DEF Refuse, Brings, storeVars, busVars
  <1>2. /\ offered' \in [Conns -> SUBSET Seqs]
        /\ \A d \in Conns : offered[d] \subseteq offered'[d]
    BY <1>1 DEF Types
  <1>3. Types' /\ ConnInv' /\ LogInv' /\ OrderInv'
    BY <1>1, <1>2 DEF Types, ConnInv, LogInv, OrderInv, At, Busy, IsCurrent
  <1>4. OfferInv'
    <2>1. \A d \in Conns : ~(IsCurrent(d) /\ Busy(d))
      BY <1>1 DEF IsCurrent
    <2> QED BY <1>1, <1>2, <2>1 DEF OfferInv, Busy, IsCurrent
  <1>5. RightInv' /\ SlotInv'
    BY <1>1 DEF RightInv, SlotInv, Releasing, Holding, At, IsCurrent
  <1> QED BY <1>3, <1>4, <1>5

\* The dispatcher answers over the connection that is still registered.
LEMMA AnswerPreserves ==
  ASSUME IInv, NEW c \in Conns, Answer(c)
  PROVE  IInv'
  <1> USE PublicationAssumption DEF IInv
  <1>1. /\ task[c].at = "resolved"
        /\ UNCHANGED <<outbox, opened, current, offered, slot, direct, logged,
                       announced, deleted, leaked, faults>>
        /\ ready' \subseteq ready \cup {c}
        /\ \A d \in Conns : d # c => task'[d] = task[d]
        /\ task'[c].at \in {"acked", "idle"}
    BY DEF Answer, Move, Idle, Types, busVars
  <1>2. /\ task'[c].at = "acked" =>
              /\ IsCurrent(c) /\ task'[c].seq = task[c].seq
              /\ task[c].seq \in answered'
        /\ answered \subseteq answered' /\ answered' \subseteq answered \cup {task[c].seq}
        /\ task'[c].at = "acked" \/ task'[c] = Idle
        /\ task' \in [Conns -> [at : Phases, seq : 0..MaxSeq]]
    BY DEF Answer, Move, Idle, Types, Phases
  <1>3. task[c].seq \in Seqs /\ task[c].seq \in logged
    BY <1>1 DEF Types, LogInv, At, Busy
  <1>4. Types'
    BY <1>1, <1>2, <1>3 DEF Types, Busy, Idle
  <1>5. ConnInv'
    BY <1>1, <1>2 DEF ConnInv, Busy, IsCurrent, Idle
  <1>6. LogInv'
    BY <1>1, <1>2, <1>3 DEF LogInv, At, Idle
  <1>7. OrderInv' /\ OfferInv'
    BY <1>1, <1>2 DEF OrderInv, OfferInv, Busy, Idle, IsCurrent
  <1>8. RightInv'
    BY <1>1, <1>2 DEF RightInv, At
  <1>9. SlotInv'
    <2>1. \A r : /\ Releasing(r) => Releasing(r)'
                 /\ Holding(r) => Holding(r)'
      BY <1>1 DEF Releasing, Holding, At
    <2> QED BY <1>1, <1>2, <2>1 DEF SlotInv, At, IsCurrent
  <1> QED BY <1>4, <1>5, <1>6, <1>7, <1>8, <1>9

\* The acknowledgement reaches the worker: the event leaves the outbox, and
\* SlotInv says that whoever still holds its slot is about to release it.
LEMMA AckArrivesPreserves ==
  ASSUME IInv, NEW c \in Conns, AckArrives(c)
  PROVE  IInv'
  <1> USE PublicationAssumption DEF IInv
  <1>1. /\ task[c].at = "acked"
        /\ outbox' = IF IsCurrent(c) THEN outbox \ {task[c].seq} ELSE outbox
        /\ UNCHANGED <<opened, current, offered, ready, slot, direct, logged,
                       announced, answered, deleted, leaked, faults>>
        /\ \A d \in Conns : d # c => task'[d] = task[d]
        /\ task'[c] = Idle /\ task' \in [Conns -> [at : Phases, seq : 0..MaxSeq]]
    BY DEF AckArrives, Idle, Types, busVars, Phases
  <1>2. Types'
    BY <1>1 DEF Types, Busy, Idle
  <1>3. ConnInv'
    BY <1>1 DEF ConnInv, Busy, IsCurrent, Idle
  <1>4. LogInv'
    BY <1>1 DEF LogInv, At, Idle
  <1>5. OrderInv' /\ OfferInv' /\ RightInv'
    BY <1>1 DEF OrderInv, OfferInv, RightInv, Busy, At, Idle, IsCurrent
  <1>6. SlotInv'
    <2>1. \A r : /\ Releasing(r) => Releasing(r)'
                 /\ Holding(r) => Holding(r)'
      BY <1>1 DEF Releasing, Holding, At
    <2> QED BY <1>1, <2>1 DEF SlotInv, At, IsCurrent, Idle
  <1> QED BY <1>2, <1>3, <1>4, <1>5, <1>6

\* The slot is taken, or the full store closes the socket.
LEMMA ReservePreserves ==
  ASSUME IInv, NEW c \in Conns, Reserve(c)
  PROVE  IInv'
  <1> USE PublicationAssumption DEF IInv
  <1> DEFINE s == task[c].seq
  <1>1. /\ task[c].at = "arrived"
        /\ UNCHANGED <<outbox, opened, offered, ready, direct, logged, announced,
                       answered, deleted, leaked, faults>>
    BY DEF Reserve, busVars
  <1>2. s \in Seqs
    BY <1>1 DEF Types, Busy
  <1>3. CASE HasRoom(s) /\ ReserveSlot(s) /\ Move(c, "reserved") /\ UNCHANGED current
    <2>1. /\ task'[c].at = "reserved" /\ task'[c].seq = s
          /\ \A d \in Conns : d # c => task'[d] = task[d]
          /\ task' \in [Conns -> [at : Phases, seq : 0..MaxSeq]]
      BY <1>3 DEF Move, Types, Phases
    <2>2. /\ slot' \in [Seqs -> SlotStates]
          /\ \A r \in Seqs : r # s => slot'[r] = slot[r]
          /\ slot'[s] = IF slot[s] = "free" THEN "reserved" ELSE slot[s]
      BY <1>2, <1>3 DEF ReserveSlot, SetSlot, Types, SlotStates
    <2>3. Types'
      BY <1>1, <1>2, <1>3, <2>1, <2>2 DEF Types, Busy
    <2>4. ConnInv' /\ OrderInv' /\ OfferInv'
      BY <1>1, <1>3, <2>1 DEF ConnInv, OrderInv, OfferInv, Busy, IsCurrent
    <2>5. LogInv'
      BY <1>1, <2>1, <2>2 DEF LogInv, At
    <2>6. RightInv'
      <3>1. \A d \in Conns : At(d, {"committed", "claimed"}) => task[d].seq \in Seqs
        BY DEF Types, Busy, At
      <3>2. \A r \in Seqs : slot'[r] # slot[r] => slot[r] = "free" /\ slot'[r] = "reserved"
        BY <2>2
      <3>3. \A d \in Conns : At(d, {"committed", "claimed"})' => d # c
        BY <2>1 DEF At
      <3> QED BY <1>1, <2>1, <3>1, <3>2, <3>3 DEF RightInv, At
    <2>7. SlotInv'
      <3>1. \A r : /\ Releasing(r) => Releasing(r)'
                   /\ Holding(r) => Holding(r)'
        BY <1>1, <2>1 DEF Releasing, Holding, At
      <3>2. Releasing(s)'
        BY <2>1 DEF Releasing, At
      <3>3. \A d \in Conns : At(d, {"resolved", "acked"}) => task[d].seq \in Seqs
        BY DEF Types, Busy, At
      <3> QED BY <1>1, <1>2, <1>3, <2>1, <2>2, <3>1, <3>2, <3>3 DEF SlotInv, At, IsCurrent
    <2> QED BY <2>3, <2>4, <2>5, <2>6, <2>7
  <1>4. CASE /\ task' = [task EXCEPT ![c] = Idle]
             /\ current' = EndOf(c)
             /\ UNCHANGED slot
    <2>1. /\ task'[c] = Idle
          /\ \A d \in Conns : d # c => task'[d] = task[d]
          /\ task' \in [Conns -> [at : Phases, seq : 0..MaxSeq]]
      BY <1>4 DEF Types, Phases, Idle
    <2>2. current' = current \/ current' = 0
      BY <1>4 DEF EndOf
    <2>3. Types'
      BY <1>1, <1>4, <2>1, <2>2 DEF Types, Busy, Idle
    <2>4. ConnInv' /\ OrderInv' /\ OfferInv'
      <3>1. \A d \in Conns : /\ IsCurrent(d)' => IsCurrent(d)
                             /\ Busy(d)' => Busy(d) /\ task'[d] = task[d]
        BY <2>1, <2>2 DEF Busy, IsCurrent, Idle, Conns
      <3> QED BY <1>1, <2>2, <3>1 DEF ConnInv, OrderInv, OfferInv
    <2>5. LogInv' /\ RightInv'
      BY <1>1, <1>4, <2>1 DEF LogInv, RightInv, At, Idle
    <2>6. SlotInv'
      <3>1. \A r : /\ Releasing(r) => Releasing(r)'
                   /\ Holding(r) => Holding(r)'
        BY <1>1, <2>1 DEF Releasing, Holding, At, Idle
      <3> QED BY <1>1, <1>4, <2>1, <2>2, <3>1 DEF SlotInv, At, IsCurrent, Idle, Conns
    <2> QED BY <2>3, <2>4, <2>5, <2>6
  <1> QED BY <1>3, <1>4 DEF Reserve

\* The transaction.  A commit is of an event the log did not have, so nobody
\* else has the right to announce it, and it is still in the outbox.
LEMMA TransactPreserves ==
  ASSUME IInv, NEW c \in Conns, Transact(c)
  PROVE  IInv'
  <1> USE PublicationAssumption DEF IInv
  <1> DEFINE s == task[c].seq
  <1>1. /\ task[c].at = "reserved"
        /\ UNCHANGED <<outbox, opened, current, offered, ready, slot, direct, announced,
                       answered, deleted, leaked, faults>>
    BY DEF Transact, linkVars
  <1>2. s \in Seqs
    BY <1>1 DEF Types, Busy
  <1>3. /\ task'[c].seq = s
        /\ \A d \in Conns : d # c => task'[d] = task[d]
        /\ task' \in [Conns -> [at : Phases, seq : 0..MaxSeq]]
        /\ \/ task'[c].at = "refused" /\ logged' = logged
           \/ task'[c].at = "deduplicated" /\ logged' = logged /\ s \in logged
           \/ /\ task'[c].at = "committed" /\ logged' = logged \cup {s}
              /\ s \notin logged /\ deleted = "live"
    BY DEF Transact, Move, Types, Phases
  <1>4. Types'
    BY <1>1, <1>2, <1>3 DEF Types, Busy, Events
  <1>5. ConnInv'
    BY <1>1, <1>3 DEF ConnInv, Busy, IsCurrent
  <1>6. OrderInv' /\ OfferInv'
    BY <1>1, <1>3 DEF OrderInv, OfferInv, Busy, IsCurrent
  <1>7. LogInv'
    BY <1>1, <1>3 DEF LogInv, At
  <1>8. RightInv'
    <2>1. CASE task'[c].at # "committed"
      BY <1>1, <1>3, <2>1 DEF RightInv, At
    <2>2. CASE task'[c].at = "committed"
      <3>1. /\ slot[s] \notin {"retained", "claimed"}
            /\ announced[s] = 0
            /\ \A d \in Conns : At(d, {"committed"}) => task[d].seq # s
        BY <1>2, <1>3, <2>2 DEF LogInv, At, Types, Events
      <3> QED BY <1>1, <1>3, <2>2, <3>1 DEF RightInv, At
    <2> QED BY <2>1, <2>2
  <1>9. SlotInv'
    <2>1. \A r : Releasing(r) /\ (r = s => task'[c].at # "committed") => Releasing(r)'
      BY <1>1, <1>3 DEF Releasing, At
    <2>2. task'[c].at = "committed" =>
             /\ s \in outbox \cup Replaceable /\ deleted # "fenced" /\ Holding(s)'
             /\ \A d \in Conns : At(d, {"resolved", "acked"}) =>
                   task[d].seq # s \/ s \in Replaceable
      BY <1>2, <1>3 DEF LogInv, At, Replaceable, Holding
    <2>3. \A d \in Conns : At(d, {"resolved", "acked"})' => d # c /\ At(d, {"resolved", "acked"})
      BY <1>3 DEF At
    <2>4. \A r : Holding(r) => Holding(r)'
      BY <1>1, <1>3 DEF Holding, At
    <2> QED BY <1>1, <1>3, <2>1, <2>2, <2>3, <2>4 DEF SlotInv, IsCurrent
  <1> QED BY <1>4, <1>5, <1>6, <1>7, <1>8, <1>9

\* The transaction fails: the slot is released, or recorded as leaked.
LEMMA FailTransactionPreserves ==
  ASSUME IInv, NEW c \in Conns, NEW inBody \in BOOLEAN, FailTransaction(c, inBody)
  PROVE  IInv'
  <1> USE PublicationAssumption DEF IInv
  <1> DEFINE s == task[c].seq
  <1>1. /\ task[c].at = "reserved"
        /\ UNCHANGED <<outbox, opened, offered, ready, direct, logged, announced,
                       answered, deleted>>
        /\ faults' = faults + 1 /\ faults < MaxFaults
        /\ current' = current \/ current' = 0
    BY DEF FailTransaction, busVars, EndOf
  <1>2. /\ s \in Seqs
        /\ \A d \in Conns : Busy(d) => task[d].seq \in Seqs
    BY <1>1 DEF Types, Busy
  <1>3. /\ task'[c] = Idle
        /\ \A d \in Conns : d # c => task'[d] = task[d]
        /\ task' \in [Conns -> [at : Phases, seq : 0..MaxSeq]]
    BY DEF FailTransaction, Types, Phases, Idle
  <1>4. /\ slot' \in [Seqs -> SlotStates] /\ leaked \subseteq leaked' /\ leaked' \subseteq Seqs
        /\ \A r \in Seqs : r # s => slot'[r] = slot[r]
        /\ \/ slot'[s] = "free" /\ ~StoreLocked
           \/ slot'[s] = slot[s] /\ s \in leaked'
    BY <1>2 DEF FailTransaction, Release, SetSlot, Types, SlotStates
  <1>5. Types'
    BY <1>1, <1>3, <1>4 DEF Types, Busy, Idle
  <1>6. ConnInv' /\ OrderInv' /\ OfferInv'
    <2>1. \A d \in Conns : /\ IsCurrent(d)' => IsCurrent(d)
                           /\ Busy(d)' => Busy(d) /\ task'[d] = task[d]
      BY <1>1, <1>3 DEF Busy, IsCurrent, Idle, Conns
    <2> QED BY <1>1, <2>1 DEF ConnInv, OrderInv, OfferInv
  <1>7. LogInv'
    BY <1>1, <1>3, <1>4 DEF LogInv, At, Idle
  <1>8. RightInv'
    <2>1. \A d \in Conns : At(d, {"committed", "claimed"})' =>
              d # c /\ task'[d] = task[d] /\ task[d].seq \in Seqs
      BY <1>2, <1>3 DEF At, Busy, Idle
    <2>2. \A r \in Seqs : slot'[r] # slot[r] =>
              slot'[r] = "free" /\ \A d \in Conns : ~At(d, {"claimed"})
      BY <1>4 DEF StoreLocked, At
    <2> QED BY <1>1, <1>3, <2>1, <2>2 DEF RightInv, At
  <1>9. SlotInv'
    <2>1. \A r : /\ Releasing(r) /\ r # s => Releasing(r)'
                 /\ Holding(r) => Holding(r)'
      BY <1>1, <1>3 DEF Releasing, Holding, At
    <2>2. \A d \in Conns : At(d, {"resolved", "acked"})' =>
              d # c /\ task'[d] = task[d] /\ task[d].seq \in Seqs
      BY <1>2, <1>3 DEF At, Busy, Idle
    <2>3. \A d \in Conns : IsCurrent(d)' => IsCurrent(d)
      BY <1>1 DEF IsCurrent, Conns
    <2>4. \A d \in Conns : At(d, {"resolved", "acked"})' => At(d, {"resolved", "acked"})
      BY <2>2 DEF At
    <2>5. \A r \in Seqs : slot'[r] # "free" =>
             slot[r] # "free" /\ slot'[r] = slot[r] /\ (r = s => r \in leaked')
      BY <1>4
    <2> QED BY <1>1, <1>4, <2>1, <2>2, <2>3, <2>4, <2>5 DEF SlotInv
  <1> QED BY <1>5, <1>6, <1>7, <1>8, <1>9

\* An append under way is of an event of the worker.
LEMMA SeqOfTask ==
  ASSUME IInv, NEW c \in Conns, Busy(c)
  PROVE  task[c].seq \in Seqs
  BY DEF IInv, Types

\* A fresh commit is announced over the registered connection, or retained.
LEMMA ResolveCommitPreserves ==
  ASSUME IInv, NEW c \in Conns, ResolveCommit(c)
  PROVE  IInv'
  <1> USE PublicationAssumption DEF IInv
  <1> DEFINE s == task[c].seq
  <1>1. /\ task[c].at = "committed" /\ ~StoreLocked
        /\ UNCHANGED <<outbox, opened, current, offered, ready, direct, logged,
                       answered, deleted, leaked, faults>>
    BY DEF ResolveCommit, linkVars
  <1>2. /\ s \in Seqs /\ s \in logged /\ announced[s] = 0
        /\ slot[s] \notin {"retained", "claimed"}
        /\ \A d \in Conns : d # c /\ At(d, {"committed"}) => task[d].seq # s
        /\ \A d \in Conns : ~At(d, {"claimed"})
    BY <1>1 DEF Types, Busy, LogInv, RightInv, At, StoreLocked
  <1>3. /\ task'[c].at = "resolved" /\ task'[c].seq = s
        /\ \A d \in Conns : d # c => task'[d] = task[d]
        /\ task' \in [Conns -> [at : Phases, seq : 0..MaxSeq]]
    BY DEF ResolveCommit, Move, Types, Phases
  <1>4. /\ slot' \in [Seqs -> SlotStates]
        /\ announced' \in [Events -> Nat]
        /\ \A r \in Seqs : r # s => slot'[r] = slot[r]
        /\ \A e \in Events : e # s => announced'[e] = announced[e]
        /\ \/ IsCurrent(c) /\ slot'[s] = "free" /\ announced'[s] = 1
           \/ /\ ~IsCurrent(c) /\ announced'[s] = 0
              /\ slot'[s] = IF slot[s] # "free" THEN "retained" ELSE "free"
    BY <1>2 DEF ResolveCommit, Publish, Release, Retain, SetSlot, Types,
                SlotStates, Events
  <1>5. Types'
    BY <1>1, <1>2, <1>3, <1>4 DEF Types, Busy
  <1>6. ConnInv' /\ OrderInv' /\ OfferInv'
    BY <1>1, <1>3 DEF ConnInv, OrderInv, OfferInv, Busy, IsCurrent
  <1>7. LogInv'
    BY <1>1, <1>2, <1>3, <1>4 DEF LogInv, At
  <1>8. RightInv'
    <2>1. \A d \in Conns : At(d, {"committed"})' =>
              /\ d # c /\ task'[d] = task[d] /\ At(d, {"committed"})
              /\ task[d].seq \in Seqs /\ task[d].seq \in Events /\ task[d].seq # s
      BY <1>2, <1>3, SeqOfTask DEF At, Busy, Events
    <2>2. \A d \in Conns : ~At(d, {"claimed"})'
      BY <1>2, <1>3 DEF At
    <2>3. s \notin direct
      BY <1>2 DEF Types, Seqs
    <2> QED BY <1>1, <1>2, <1>4, <2>1, <2>2, <2>3, SMTT(30) DEF RightInv, At, Types, Events
  <1>9. SlotInv'
    <2>1. \A r : /\ Releasing(r) => Releasing(r)'
                 /\ Holding(r) /\ r # s => Holding(r)'
      BY <1>1, <1>3 DEF Releasing, Holding, At
    <2>2. \A r \in Seqs : slot'[r] # "free" => slot[r] # "free"
      BY <1>4
    <2>3. \A d \in Conns : At(d, {"resolved", "acked"})' /\ d # c =>
              At(d, {"resolved", "acked"}) /\ task'[d] = task[d] /\ task[d].seq \in Seqs
      BY <1>3, SeqOfTask DEF At, Busy
    <2>4. IsCurrent(c) => slot'[task'[c].seq] = "free"
      BY <1>3, <1>4
    <2> QED BY <1>1, <1>3, <1>4, <2>1, <2>2, <2>3, <2>4 DEF SlotInv, IsCurrent
  <1> QED BY <1>5, <1>6, <1>7, <1>8, <1>9

\* A refusal releases the slot.
LEMMA ResolveRefusalPreserves ==
  ASSUME IInv, NEW c \in Conns, ResolveRefusal(c)
  PROVE  IInv'
  <1> USE PublicationAssumption DEF IInv
  <1> DEFINE s == task[c].seq
  <1>1. /\ task[c].at = "refused"
        /\ UNCHANGED <<outbox, opened, current, offered, ready, direct, logged,
                       announced, answered, deleted, leaked, faults>>
        /\ \A d \in Conns : ~At(d, {"claimed"})
    BY DEF ResolveRefusal, linkVars, busVars, StoreLocked, At
  <1>2. s \in Seqs
    BY <1>1, SeqOfTask DEF Busy
  <1>3. /\ task'[c] = Idle
        /\ \A d \in Conns : d # c => task'[d] = task[d]
        /\ task' \in [Conns -> [at : Phases, seq : 0..MaxSeq]]
    BY DEF ResolveRefusal, Types, Phases, Idle
  <1>4. /\ slot' \in [Seqs -> SlotStates]
        /\ \A r \in Seqs : r # s => slot'[r] = slot[r]
        /\ slot'[s] = "free"
    BY <1>2 DEF ResolveRefusal, Release, SetSlot, Types, SlotStates
  <1>5. Types'
    BY <1>1, <1>3, <1>4 DEF Types, Busy, Idle
  <1>6. ConnInv' /\ OrderInv' /\ OfferInv'
    BY <1>1, <1>3 DEF ConnInv, OrderInv, OfferInv, Busy, IsCurrent, Idle
  <1>7. LogInv'
    BY <1>1, <1>3, <1>4 DEF LogInv, At, Idle
  <1>8. RightInv'
    <2>1. \A d \in Conns : At(d, {"committed", "claimed"})' =>
              d # c /\ task'[d] = task[d] /\ task[d].seq \in Seqs
      BY <1>3, SeqOfTask DEF At, Busy, Idle
    <2> QED BY <1>1, <1>3, <1>4, <2>1 DEF RightInv, At
  <1>9. SlotInv'
    <2>1. \A r : /\ Releasing(r) /\ r # s => Releasing(r)'
                 /\ Holding(r) => Holding(r)'
      BY <1>1, <1>3 DEF Releasing, Holding, At
    <2>2. \A d \in Conns : At(d, {"resolved", "acked"})' =>
              d # c /\ task'[d] = task[d] /\ task[d].seq \in Seqs
      BY <1>3, SeqOfTask DEF At, Busy, Idle
    <2> QED BY <1>1, <1>3, <1>4, <2>1, <2>2 DEF SlotInv, At, IsCurrent
  <1> QED BY <1>5, <1>6, <1>7, <1>8, <1>9

\* A duplicate claims what the slot retains, or releases the slot.
LEMMA ResolveDuplicatePreserves ==
  ASSUME IInv, NEW c \in Conns, ResolveDuplicate(c)
  PROVE  IInv'
  <1> USE PublicationAssumption DEF IInv
  <1> DEFINE s == task[c].seq
  <1>1. /\ task[c].at = "deduplicated"
        /\ UNCHANGED <<outbox, opened, current, offered, ready, direct, logged,
                       announced, answered, deleted, leaked, faults>>
        /\ \A d \in Conns : ~At(d, {"claimed"})
    BY DEF ResolveDuplicate, linkVars, busVars, StoreLocked, At
  <1>2. s \in Seqs /\ s \in logged
    BY <1>1, SeqOfTask DEF Busy, LogInv, At
  <1>3. /\ task'[c].seq = s
        /\ \A d \in Conns : d # c => task'[d] = task[d]
        /\ task' \in [Conns -> [at : Phases, seq : 0..MaxSeq]]
        /\ slot' \in [Seqs -> SlotStates]
        /\ \A r \in Seqs : r # s => slot'[r] = slot[r]
        /\ \/ /\ slot'[s] = "claimed" /\ slot[s] = "retained" /\ IsCurrent(c)
              /\ task'[c].at = "claimed"
           \/ slot'[s] = "free" /\ task'[c].at = "resolved"
    <2>1. /\ task \in [Conns -> [at : Phases, seq : 0..MaxSeq]]
          /\ slot \in [Seqs -> SlotStates]
      BY DEF Types
    <2>2. CASE IsCurrent(c) /\ slot[s] = "retained"
      <3>1. /\ task' = [task EXCEPT ![c].at = "claimed"]
            /\ slot' = [slot EXCEPT ![s] = "claimed"]
        BY <2>2 DEF ResolveDuplicate, SetSlot, Move
      <3> QED BY <1>2, <2>1, <2>2, <3>1 DEF Phases, SlotStates
    <2>3. CASE ~(IsCurrent(c) /\ slot[s] = "retained")
      <3>1. /\ task' = [task EXCEPT ![c].at = "resolved"]
            /\ slot' = [slot EXCEPT ![s] = "free"]
        BY <2>3 DEF ResolveDuplicate, Release, SetSlot, Move
      <3> QED BY <1>2, <2>1, <3>1 DEF Phases, SlotStates
    <2> QED BY <2>2, <2>3
  <1>4. Types'
    BY <1>1, <1>2, <1>3 DEF Types, Busy
  <1>5. ConnInv' /\ OrderInv' /\ OfferInv'
    BY <1>1, <1>3 DEF ConnInv, OrderInv, OfferInv, Busy, IsCurrent
  <1>6. LogInv'
    BY <1>1, <1>2, <1>3 DEF LogInv, At
  <1>7. RightInv'
    <2>1. \A d \in Conns : At(d, {"committed"})' =>
              d # c /\ task'[d] = task[d] /\ task[d].seq \in Seqs
      BY <1>3, SeqOfTask DEF At, Busy
    <2>2. \A d \in Conns : At(d, {"claimed"})' => d = c /\ slot'[s] = "claimed"
      BY <1>1, <1>3 DEF At
    <2>3. slot'[s] = "claimed" => announced[s] = 0
      BY <1>2, <1>3 DEF RightInv
    <2>4. \A d \in Conns : At(d, {"committed"}) /\ task[d].seq = s => slot'[s] # "claimed"
      BY <1>3 DEF RightInv
    <2> QED BY <1>1, <1>3, <2>1, <2>2, <2>3, <2>4 DEF RightInv, At
  <1>8. SlotInv'
    <2>1. \A r : /\ Releasing(r) /\ r # s => Releasing(r)'
                 /\ Holding(r) => Holding(r)'
      BY <1>1, <1>3 DEF Releasing, Holding, At
    <2>2. \A d \in Conns : At(d, {"resolved", "acked"})' /\ d # c =>
              At(d, {"resolved", "acked"}) /\ task'[d] = task[d] /\ task[d].seq \in Seqs
      BY <1>3, SeqOfTask DEF At, Busy
    <2>3. CASE slot'[s] = "free"
      BY <1>1, <1>3, <2>1, <2>2, <2>3 DEF SlotInv, IsCurrent
    <2>4. CASE slot'[s] = "claimed"
      <3>1. s \in outbox \cup Replaceable /\ deleted # "fenced" /\ Holding(s)'
        BY <1>1, <1>3, <2>4 DEF ConnInv, Busy, IsCurrent, Conns, Replaceable, Holding, At
      <3>2. \A d \in Conns : At(d, {"resolved", "acked"})' => ~IsCurrent(d)
        BY <1>3, <2>4 DEF IsCurrent, At
      <3> QED BY <1>1, <1>3, <2>1, <3>1, <3>2 DEF SlotInv, IsCurrent
    <2> QED BY <1>3, <2>3, <2>4
  <1> QED BY <1>4, <1>5, <1>6, <1>7, <1>8

\* The claim is announced, or put back into its slot.
LEMMA FinishClaimPreserves ==
  ASSUME IInv, NEW c \in Conns, FinishClaim(c)
  PROVE  IInv'
  <1> USE PublicationAssumption DEF IInv
  <1> DEFINE s == task[c].seq
  <1>1. /\ task[c].at = "claimed"
        /\ UNCHANGED <<outbox, opened, current, offered, ready, direct, logged,
                       answered, deleted, leaked, faults>>
    BY DEF FinishClaim, linkVars
  <1>2. /\ s \in Seqs /\ s \in logged /\ slot[s] = "claimed"
        /\ \A d \in Conns : At(d, {"committed"}) => task[d].seq # s
        /\ \A d \in Conns : At(d, {"claimed"}) => d = c
    BY <1>1, SeqOfTask DEF Busy, LogInv, RightInv, At
  <1>3. announced[s] = 0
    BY <1>2 DEF RightInv
  <1>4. /\ task'[c].at = "resolved" /\ task'[c].seq = s
        /\ \A d \in Conns : d # c => task'[d] = task[d]
        /\ task' \in [Conns -> [at : Phases, seq : 0..MaxSeq]]
    BY DEF FinishClaim, Move, Types, Phases
  <1>5. /\ slot' \in [Seqs -> SlotStates]
        /\ announced' \in [Events -> Nat]
        /\ \A r \in Seqs : r # s => slot'[r] = slot[r]
        /\ \A e \in Events : e # s => announced'[e] = announced[e]
        /\ \/ IsCurrent(c) /\ slot'[s] = "free" /\ announced'[s] = 1
           \/ ~IsCurrent(c) /\ slot'[s] = "retained" /\ announced'[s] = 0
    <2>1. s \in Events /\ slot[s] # "free"
      BY <1>2 DEF Events
    <2>2. CASE IsCurrent(c)
      BY <1>2, <1>3, <2>1, <2>2 DEF FinishClaim, Publish, Release, SetSlot, Types, SlotStates
    <2>3. CASE ~IsCurrent(c)
      BY <1>2, <1>3, <2>1, <2>3 DEF FinishClaim, Retain, SetSlot, Types, SlotStates
    <2> QED BY <2>2, <2>3
  <1>6. Types'
    BY <1>1, <1>2, <1>4, <1>5 DEF Types, Busy
  <1>7. ConnInv' /\ OrderInv' /\ OfferInv'
    BY <1>1, <1>4 DEF ConnInv, OrderInv, OfferInv, Busy, IsCurrent
  <1>8. LogInv'
    BY <1>1, <1>2, <1>4, <1>5 DEF LogInv, At
  <1>9. RightInv'
    <2>1. \A d \in Conns : At(d, {"committed"})' =>
              /\ d # c /\ task'[d] = task[d] /\ At(d, {"committed"})
              /\ task[d].seq \in Seqs /\ task[d].seq \in Events /\ task[d].seq # s
      BY <1>2, <1>4, SeqOfTask DEF At, Busy, Events
    <2>2. \A d \in Conns : ~At(d, {"claimed"})'
      BY <1>2, <1>4 DEF At
    <2>3. s \notin direct
      BY <1>2 DEF Types, Seqs
    <2>4. \A r \in Seqs : slot'[r] \in {"retained", "claimed"} => announced'[r] = 0
      BY <1>2, <1>5 DEF RightInv, Events
    <2>5. \A e \in direct : announced'[e] = 0
      BY <1>5, <2>3 DEF RightInv, Types, Events
    <2>6. \A e \in Events : announced'[e] <= 1
      BY <1>5 DEF RightInv
    <2>7. \A d \in Conns : At(d, {"committed"})' =>
             /\ slot'[task'[d].seq] \notin {"retained", "claimed"}
             /\ announced'[task'[d].seq] = 0
      BY <1>5, <2>1 DEF RightInv
    <2>8. \A d, e \in Conns :
             At(d, {"committed"})' /\ At(e, {"committed"})' /\ task'[d].seq = task'[e].seq
                => d = e
      BY <2>1 DEF RightInv
    <2> QED BY <1>1, <2>2, <2>4, <2>5, <2>6, <2>7, <2>8 DEF RightInv, At
  <1>10. SlotInv'
    <2>1. \A r : /\ Releasing(r) => Releasing(r)'
                 /\ Holding(r) /\ r # s => Holding(r)'
      BY <1>1, <1>4 DEF Releasing, Holding, At
    <2>2. \A r \in Seqs : slot'[r] # "free" => slot[r] # "free"
      BY <1>2, <1>5
    <2>3. \A d \in Conns : At(d, {"resolved", "acked"})' /\ d # c =>
              At(d, {"resolved", "acked"}) /\ task'[d] = task[d] /\ task[d].seq \in Seqs
      BY <1>4, SeqOfTask DEF At, Busy
    <2>4. IsCurrent(c) => slot'[task'[c].seq] = "free"
      BY <1>4, <1>5
    <2> QED BY <1>1, <1>4, <1>5, <2>1, <2>2, <2>3, <2>4 DEF SlotInv, IsCurrent
  <1> QED BY <1>6, <1>7, <1>8, <1>9, <1>10

\* The coordinator's own appends are announced by the call that made them.
LEMMA DirectPreserves ==
  ASSUME IInv, NEW e \in Direct, DirectCommit(e) \/ DirectPublish(e)
  PROVE  IInv'
  <1> USE PublicationAssumption DEF IInv
  <1>1. UNCHANGED <<outbox, opened, current, offered, ready, task, slot, answered,
                    deleted, leaked, faults>>
    BY DEF DirectCommit, DirectPublish, linkVars
  <1>2. e \notin Seqs /\ e \in Events
    BY DEF Seqs, Events
  <1>3. /\ \/ /\ logged' = logged \cup {e} /\ direct' = direct \cup {e}
              /\ announced' = announced /\ e \notin logged
           \/ /\ logged' = logged /\ direct' = direct \ {e} /\ e \in direct
              /\ announced' = [announced EXCEPT ![e] = @ + 1]
    BY DEF DirectCommit, DirectPublish, Publish
  <1>4. announced[e] = 0 /\ announced' \in [Events -> Nat]
    BY <1>2, <1>3 DEF LogInv, RightInv, Types
  <1>5. /\ \A x \in Events : x # e => announced'[x] = announced[x]
        /\ announced'[e] \in {0, 1} /\ (announced'[e] = 1 => e \in logged /\ e \notin direct')
    BY <1>2, <1>3, <1>4 DEF Types, LogInv
  <1>6. Types'
    BY <1>1, <1>2, <1>3, <1>4 DEF Types, Busy
  <1>7. ConnInv' /\ SlotInv'
    BY <1>1 DEF ConnInv, SlotInv, Releasing, Holding, At, Busy, IsCurrent
  <1>8. OrderInv' /\ OfferInv'
    BY <1>1, <1>2, <1>3 DEF OrderInv, OfferInv, Busy, IsCurrent
  <1>9. LogInv'
    BY <1>1, <1>3, <1>5 DEF LogInv, At, Types
  <1>10. RightInv'
    <2>1. \A x \in Seqs : x \in Events /\ x # e
      BY <1>2 DEF Events
    <2>2. \A d \in Conns : At(d, {"committed"}) => task[d].seq \in Seqs
      BY SeqOfTask DEF At, Busy
    <2>3. \A x \in direct' : x \in Events /\ (x # e => x \in direct)
      BY <1>3, <1>6 DEF Types, Events
    <2> QED BY <1>1, <1>3, <1>4, <1>5, <2>1, <2>2, <2>3 DEF RightInv, At
  <1> QED BY <1>6, <1>7, <1>8, <1>9, <1>10

\* The worker is deleted, its connection fenced and its slots dropped.
LEMMA DeletionPreserves == IInv /\ (DeleteWorker \/ FenceDeletedWorker) => IInv'
  <1> SUFFICES ASSUME IInv, DeleteWorker \/ FenceDeletedWorker PROVE IInv'
    OBVIOUS
  <1> USE PublicationAssumption DEF IInv
  <1>1. CASE DeleteWorker
    <2> USE <1>1 DEF DeleteWorker, linkVars, storeVars, busVars
    <2>1. Types' /\ ConnInv'
      BY DEF Types, ConnInv, Busy, IsCurrent
    <2>2. LogInv' /\ OrderInv' /\ OfferInv' /\ RightInv' /\ SlotInv'
      BY DEF LogInv, OrderInv, OfferInv, RightInv, SlotInv, Releasing, Holding, At,
             Busy, IsCurrent
    <2> QED BY <2>1, <2>2
  <1>2. CASE FenceDeletedWorker
    <2>1. /\ deleted' = "fenced" /\ current' = 0
          /\ slot' \in [Seqs -> SlotStates] /\ \A s \in Seqs : slot'[s] = "free"
          /\ UNCHANGED <<outbox, opened, offered, ready, task, direct, logged, announced,
                         answered, leaked, faults>>
          /\ \A d \in Conns : ~At(d, {"claimed"})
      BY <1>2 DEF FenceDeletedWorker, busVars, SlotStates, StoreLocked, At
    <2>2. Types' /\ ConnInv' /\ OrderInv' /\ OfferInv'
      BY <2>1 DEF Types, ConnInv, OrderInv, OfferInv, Busy, IsCurrent, Conns
    <2>3. LogInv'
      BY <2>1 DEF LogInv, At
    <2>4. RightInv'
      <3>1. \A d \in Conns : At(d, {"committed"}) => task[d].seq \in Seqs
        BY SeqOfTask DEF At, Busy
      <3> QED BY <2>1, <3>1 DEF RightInv, At
    <2>5. SlotInv'
      BY <2>1 DEF SlotInv, IsCurrent, Conns
    <2> QED BY <2>2, <2>3, <2>4, <2>5
  <1> QED BY <1>1, <1>2

\* The coordinator dies with its store and its appends.
LEMMA CrashPreserves == IInv /\ Crash => IInv'
  <1> SUFFICES ASSUME IInv, Crash PROVE IInv'
    OBVIOUS
  <1> USE PublicationAssumption DEF IInv
  <1>1. /\ current' = 0 /\ direct' = {} /\ faults' \in 0..MaxFaults
        /\ task' \in [Conns -> [at : Phases, seq : 0..MaxSeq]]
        /\ \A c \in Conns : task'[c].at = "idle"
        /\ slot' \in [Seqs -> SlotStates] /\ \A s \in Seqs : slot'[s] = "free"
        /\ UNCHANGED <<outbox, opened, offered, ready, logged, announced, answered,
                       deleted, leaked>>
    BY DEF Crash, busVars, SlotStates, Idle, Phases, Types
  <1>2. Types' /\ ConnInv' /\ OrderInv' /\ OfferInv'
    BY <1>1 DEF Types, ConnInv, OrderInv, OfferInv, Busy, IsCurrent, Conns
  <1>3. LogInv' /\ RightInv' /\ SlotInv'
    BY <1>1 DEF LogInv, RightInv, SlotInv, At
  <1> QED BY <1>2, <1>3

----------------------------------------------------------------------------

\* One step of an append.
LEMMA AppendStepPreserves ==
  ASSUME IInv, NEW c \in Conns, AppendStep(c)
  PROVE  IInv'
  BY ReservePreserves, TransactPreserves, FailTransactionPreserves,
     ResolveCommitPreserves, ResolveRefusalPreserves, ResolveDuplicatePreserves,
     FinishClaimPreserves DEF AppendStep

\* The inductive invariant holds of every reachable state, however appends of
\* one event over several connections interleave.
THEOREM Invariance == Spec => []IInv
  <1>1. IInv /\ [Next]_vars => IInv'
    <2> SUFFICES ASSUME IInv, [Next]_vars PROVE IInv'
      OBVIOUS
    <2>1. CASE Connect
      BY <2>1, ConnectPreserves
    <2>2. CASE Disconnect
      BY <2>2, DisconnectPreserves
    <2>3. ASSUME NEW c \in Conns, NEW s \in Seqs,
                 Arrive(c, s) \/ DropFolder(c, s) \/ Refuse(c, s)
          PROVE  IInv'
      BY <2>3, TakeUpPreserves, RefusePreserves
    <2>4. ASSUME NEW c \in Conns, AppendStep(c) \/ Answer(c) \/ AckArrives(c)
          PROVE  IInv'
      BY <2>4, AppendStepPreserves, AnswerPreserves, AckArrivesPreserves
    <2>5. ASSUME NEW e \in Direct, DirectCommit(e) \/ DirectPublish(e)
          PROVE  IInv'
      BY <2>5, DirectPreserves
    <2>6. CASE DeleteWorker \/ FenceDeletedWorker
      BY <2>6, DeletionPreserves
    <2>7. CASE Crash
      BY <2>7, CrashPreserves
    <2>8. CASE UNCHANGED vars
      BY <2>8 DEF vars, linkVars, storeVars, busVars, IInv, Types, ConnInv, LogInv,
                  OrderInv, OfferInv, RightInv, SlotInv, Releasing, Holding, At, Busy,
                  IsCurrent
    <2> QED BY <2>1, <2>2, <2>3, <2>4, <2>5, <2>6, <2>7, <2>8 DEF Next
  <1> QED BY <1>1, InitEstablishes, PTL DEF Spec

\* The store takes a new slot only below its cap.
LEMMA CapPreserved ==
  ASSUME IInv, Cardinality(HeldSlots) <= MaxEntries, [Next]_vars
  PROVE  (Cardinality(HeldSlots) <= MaxEntries)'
  <1> USE PublicationAssumption
  <1>1. IsFiniteSet(HeldSlots) /\ HeldSlots \subseteq Seqs
    <2>1. IsFiniteSet(Seqs)
      BY FS_Interval DEF Seqs
    <2>2. HeldSlots \subseteq Seqs
      BY DEF HeldSlots
    <2> QED BY <2>1, <2>2, FS_Subset
  <1>2. CASE HeldSlots' \subseteq HeldSlots
    <2>1. Cardinality(HeldSlots') <= Cardinality(HeldSlots) /\ IsFiniteSet(HeldSlots')
      BY <1>1, <1>2, FS_Subset
    <2>2. Cardinality(HeldSlots') \in Nat /\ Cardinality(HeldSlots) \in Nat
      BY <1>1, <2>1, FS_CardinalityType
    <2> QED BY <2>1, <2>2
  <1>3. ASSUME NEW c \in Conns, Reserve(c), HasRoom(task[c].seq), slot[task[c].seq] = "free"
        PROVE  (Cardinality(HeldSlots) <= MaxEntries)'
    <2> DEFINE s == task[c].seq
    <2>1. s \in Seqs /\ s \notin HeldSlots /\ Cardinality(HeldSlots) < MaxEntries
      BY <1>3, SeqOfTask DEF HasRoom, Reserve, Busy, HeldSlots
    <2>2. HeldSlots' = HeldSlots \cup {s}
      BY <1>3, <2>1 DEF Reserve, ReserveSlot, SetSlot, HeldSlots, IInv, Types
    <2>3. Cardinality(HeldSlots') = Cardinality(HeldSlots) + 1
      BY <1>1, <2>1, <2>2, FS_AddElement
    <2>4. Cardinality(HeldSlots) \in Nat
      BY <1>1, FS_CardinalityType
    <2> QED BY <2>1, <2>3, <2>4
  <1>4. ASSUME NEW c \in Conns, Reserve(c),
               ~(HasRoom(task[c].seq) /\ slot[task[c].seq] = "free")
        PROVE  HeldSlots' \subseteq HeldSlots
    BY <1>4 DEF Reserve, ReserveSlot, HeldSlots
  <1>5. ASSUME NEW c \in Conns,
               \/ Transact(c) \/ \E inBody \in BOOLEAN : FailTransaction(c, inBody)
               \/ ResolveCommit(c) \/ ResolveRefusal(c)
        PROVE  HeldSlots' \subseteq HeldSlots
    BY <1>5 DEF Transact, FailTransaction, ResolveCommit, ResolveRefusal, Release,
                Retain, SetSlot, HeldSlots, IInv, Types
  <1>6. ASSUME NEW c \in Conns, ResolveDuplicate(c) \/ FinishClaim(c)
        PROVE  HeldSlots' \subseteq HeldSlots
    BY <1>6 DEF ResolveDuplicate, FinishClaim, Release, Retain, SetSlot, HeldSlots,
                IInv, Types
  <1>7. CASE FenceDeletedWorker \/ Crash
    <2>1. HeldSlots' = {}
      BY <1>7 DEF FenceDeletedWorker, Crash, HeldSlots
    <2> QED BY <1>2, <2>1
  <1>8. ASSUME NEW c \in Conns,
               \/ \E s \in Seqs : Arrive(c, s) \/ DropFolder(c, s) \/ Refuse(c, s)
               \/ Answer(c) \/ AckArrives(c)
        PROVE  slot' = slot
    BY <1>8 DEF Arrive, DropFolder, Refuse, Answer, AckArrives, storeVars
  <1>9. CASE \/ Connect \/ Disconnect \/ DeleteWorker \/ UNCHANGED vars
             \/ \E e \in Direct : DirectCommit(e) \/ DirectPublish(e)
    <2>1. slot' = slot
      BY <1>9 DEF Connect, Disconnect, DeleteWorker, DirectCommit, DirectPublish,
                  vars, storeVars
    <2> QED BY <1>2, <2>1 DEF HeldSlots
  <1> QED BY <1>2, <1>3, <1>4, <1>5, <1>6, <1>7, <1>8, <1>9 DEF Next, AppendStep, HeldSlots

\* Type correctness of the appends, the slots and the log, and the cap of the
\* store.
THEOREM TypeCorrect == Spec => []TypeOK
  <1> DEFINE Cap == Cardinality(HeldSlots) <= MaxEntries
  <1>1. Init => Cap
    <2> SUFFICES ASSUME Init PROVE Cap
      OBVIOUS
    <2>1. HeldSlots = {}
      BY DEF Init, HeldSlots
    <2> QED BY <2>1, FS_EmptySet, PublicationAssumption
  <1>2. IInv /\ Cap /\ [Next]_vars => Cap'
    BY CapPreserved
  <1>3. IInv /\ Cap => TypeOK
    BY DEF IInv, TypeOK
  <1> HIDE DEF Cap
  <1> QED BY <1>1, <1>2, <1>3, Invariance, PTL DEF Spec

\* What the worker was told is settled is in the durable log, or is folder
\* metadata that came before the barrier.
THEOREM AckedDurable == Spec => []AckedIsDurable
  <1>1. IInv => AckedIsDurable
    BY DEF IInv, LogInv, AckedIsDurable
  <1> QED BY <1>1, Invariance, PTL

\* No slot stays taken for a settled row or a deleted worker, except where
\* begin or commit failed and where a replaceable event lost its publication.
THEOREM SlotsHaveOwners == Spec => []NoOrphanSlot
  <1>1. IInv => NoOrphanSlot
    <2> SUFFICES ASSUME IInv, NEW s \in Seqs, slot[s] # "free"
                 PROVE  \/ s \in outbox /\ deleted # "fenced"
                        \/ \E c \in Conns : Busy(c) /\ task[c].seq = s
                        \/ s \in leaked
                        \/ /\ s \in Replaceable /\ slot[s] = "retained"
                           /\ deleted # "fenced"
      BY DEF NoOrphanSlot, HeldSlots
    <2>1. Releasing(s) \/ Holding(s) => \E c \in Conns : Busy(c) /\ task[c].seq = s
      BY DEF Releasing, Holding, At, Busy
    <2> QED BY <2>1 DEF IInv, SlotInv
  <1> QED BY <1>1, Invariance, PTL

\* The bus promise: with retries over several connections, crashes and the
\* worker's deletion, an event is announced after its commit and at most once.
THEOREM RefinesEventBus == Spec => BusPromise
  <1>1. Init => Bus!Init
    BY DEF Init, Bus!Init
  <1>2. IInv /\ [Next]_vars => [Bus!Next]_Bus!vars
    <2> SUFFICES ASSUME IInv, [Next]_vars
                 PROVE  (\E e \in Events : Bus!Commit(e) \/ Bus!Announce(e))
                        \/ (logged' = logged /\ announced' = announced)
      BY DEF Bus!Next, Bus!vars
    <2> USE DEF IInv
    <2>1. ASSUME NEW c \in Conns, Transact(c)
          PROVE  \/ Bus!Commit(task[c].seq) /\ task[c].seq \in Events
                 \/ logged' = logged /\ announced' = announced
      <3>1. task[c].seq \in Events
        BY <2>1, SeqOfTask DEF Transact, Busy, Events
      <3> QED BY <2>1, <3>1 DEF Transact, Bus!Commit
    <2>2. ASSUME NEW c \in Conns, ResolveCommit(c) \/ FinishClaim(c)
          PROVE  \/ Bus!Announce(task[c].seq) /\ task[c].seq \in Events
                 \/ logged' = logged /\ announced' = announced
      <3>1. task[c].seq \in Seqs /\ task[c].seq \in Events
        BY <2>2, SeqOfTask DEF ResolveCommit, FinishClaim, Busy, Events
      <3>2. task[c].seq \in logged /\ announced[task[c].seq] = 0
        BY <2>2, <3>1 DEF ResolveCommit, FinishClaim, LogInv, RightInv, At
      <3> QED BY <2>2, <3>1, <3>2 DEF ResolveCommit, FinishClaim, Publish, Bus!Announce
    <2>3. ASSUME NEW e \in Direct, DirectCommit(e)
          PROVE  e \in Events /\ Bus!Commit(e)
      BY <2>3 DEF DirectCommit, Bus!Commit, Events
    <2>4. ASSUME NEW e \in Direct, DirectPublish(e)
          PROVE  e \in Events /\ Bus!Announce(e)
      <3>1. e \in logged /\ announced[e] = 0
        BY <2>4 DEF DirectPublish, LogInv, RightInv
      <3> QED BY <2>4, <3>1 DEF DirectPublish, Publish, Bus!Announce, Events
    <2>5. ASSUME NEW c \in Conns,
                 \/ \E s \in Seqs : Arrive(c, s) \/ DropFolder(c, s) \/ Refuse(c, s)
                 \/ Reserve(c) \/ ResolveRefusal(c) \/ ResolveDuplicate(c)
                 \/ \E inBody \in BOOLEAN : FailTransaction(c, inBody)
                 \/ Answer(c) \/ AckArrives(c)
          PROVE  logged' = logged /\ announced' = announced
      BY <2>5 DEF Arrive, DropFolder, Refuse, Reserve, ResolveRefusal, ResolveDuplicate,
                  FailTransaction, Answer, AckArrives, busVars
    <2>6. CASE \/ Connect \/ Disconnect \/ DeleteWorker \/ FenceDeletedWorker
               \/ Crash \/ UNCHANGED vars
      BY <2>6 DEF Connect, Disconnect, DeleteWorker, FenceDeletedWorker, Crash,
                  vars, busVars
    <2> QED BY <2>1, <2>2, <2>3, <2>4, <2>5, <2>6 DEF Next, AppendStep
  <1> QED BY <1>1, <1>2, Invariance, PTL DEF Spec, BusPromise, Bus!Spec

\* Events of one worker are announced in their order: a row that is announced
\* is still in the outbox, so nothing newer can have entered the pipe, and a
\* snapshot is announced before anything newer is offered.
THEOREM InOrder == Spec => PublishedInOrder
  <1> DEFINE Ordered == \A r, s \in Seqs :
                           r < s /\ announced[s] > 0 => announced'[r] = announced[r]
  <1>1. IInv /\ [Next]_vars => [Ordered]_vars
    <2> SUFFICES ASSUME IInv, Next, NEW r \in Seqs, NEW s \in Seqs,
                        r < s, announced[s] > 0, announced'[r] # announced[r]
                 PROVE  FALSE
      BY DEF Ordered
    <2> USE PublicationAssumption DEF IInv
    <2>1. r \notin outbox
      BY DEF LogInv, OrderInv, Events, Seqs
    <2>2. PICK c \in Conns : ResolveCommit(c) \/ FinishClaim(c)
      <3>1. ASSUME NEW e \in Direct, DirectPublish(e)
            PROVE  FALSE
        BY <3>1 DEF DirectPublish, Publish, Types, Events, Seqs
      <3> QED BY <3>1 DEF Next, AppendStep, Connect, Disconnect, Arrive, DropFolder, Refuse, Reserve,
                 Transact, FailTransaction, ResolveRefusal, ResolveDuplicate, Answer,
                 AckArrives, DirectCommit, DeleteWorker, FenceDeletedWorker, Crash, busVars
    <2>3. Busy(c) /\ task[c].seq \in Seqs
      BY <2>2, SeqOfTask DEF ResolveCommit, FinishClaim, Busy
    <2>4. IsCurrent(c) /\ r = task[c].seq
      BY <2>2, <2>3 DEF ResolveCommit, FinishClaim, Publish, Types, Events
    <2>5. r \in Snapshots
      BY <2>1, <2>3, <2>4 DEF ConnInv
    <2>6. s \in logged
      BY DEF LogInv, Events
    <2>7. PICK d \in Conns : s \in offered[d]
      BY <2>6 DEF OfferInv
    <2>8. s <= r
      BY <2>3, <2>4, <2>5, <2>7 DEF OfferInv
    <2> QED BY <2>8 DEF Seqs
  <1> QED BY <1>1, Invariance, PTL DEF Spec, PublishedInOrder

=============================================================================
