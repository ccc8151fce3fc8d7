--------------------------- MODULE SyncFeedProofs ---------------------------
(***************************************************************************)
(* Proofs about the durable half of a Sync socket, for any finite set of   *)
(* sessions and any size of the queue, the hold and the window.  The       *)
(* inductive invariant has two parts beside the types: which generation    *)
(* the two ends of the socket are in, which keeps events behind the        *)
(* client's snapshot; and which ids the recovery, the held events and the  *)
(* live feed have let through, which keeps the seam between them exact.    *)
(***************************************************************************)
EXTENDS SyncFeed, FiniteSetTheorems, WellFoundedInduction, TLAPS

Frames == [kind : {"event", "subscribed", "reset", "cursor_ahead"}, id : Nat, generation : Nat]
Replays == [recovering : BOOLEAN, aborted : BOOLEAN, cutoff : Nat,
            held : SUBSET Nat, boundary : SUBSET Nat]
Backfills == [at : {"none", "start", "ahead", "row", "admit", "tail", "done"},
              since : Nat, target : Nat, cursor : Nat, frame : Nat]
Tickets == [at : {"none", "asked", "answered"}, read : Nat]

\* The sessions the log has an opened, and a closed, event for.
Opens == Opened(Len(log))
Closes == Closed(Len(log))

\* The records, and that every id on its way is one of the log.
ShapeInv ==
    /\ log \in Seq(Events)
    /\ Len(log) = Cardinality(Opens) + Cardinality(Closes)
    /\ unpublished \subseteq 1..Len(log)
    /\ wire \in Seq(Frames)
    /\ \A k \in 1..Len(wire) : wire[k].kind = "event" => wire[k].id \in 1..Len(log)
    /\ queue \in Seq(Nat) /\ Range(queue) \subseteq 1..Len(log)
    /\ admitted \in Seq(Nat) /\ Range(admitted) \subseteq 1..Len(log)
    /\ replay \in Replays /\ replay.held \subseteq 1..Len(log) /\ replay.boundary \subseteq 1..Len(log)
    /\ backfill \in Backfills
    /\ ticket \in Tickets
    /\ lastSeen \in Nat /\ persisted \in Nat
    /\ generation \in Nat /\ domain \in Nat /\ readySent \in Nat
    /\ sessions \subseteq Sessions

\* The bounds of what the socket holds.
BoundInv ==
    /\ Len(queue) <= QueueMax
    /\ Cardinality(replay.held) <= HoldMax
    /\ replay.held # {} => replay.recovering
    /\ InFlight <= Window

FlagInv == up \in BOOLEAN /\ ready \in BOOLEAN /\ hydrated \in BOOLEAN

IsControl(k) == wire[k].kind # "event"

\* A closed socket has nothing; the notices on the wire come after the events,
\* each of a later generation than the one before; and an answer to an earlier
\* notice cannot make a later generation ready.
DomainInv ==
    /\ retained = <<>>
    /\ ~up => /\ generation = 0 /\ ~ready /\ wire = <<>> /\ queue = <<>> /\ admitted = <<>>
              /\ replay = IdleReplay /\ backfill = NoBackfill
              /\ ticket = NoTicket /\ readySent = 0
    /\ \A j, k \in 1..Len(wire) :
          j < k /\ IsControl(j) => IsControl(k) /\ wire[j].generation < wire[k].generation
    /\ \A k \in 1..Len(wire) : IsControl(k) => wire[k].generation <= generation
    /\ wire # <<>> /\ ~IsControl(1) => hydrated
    /\ ready => hydrated /\ \A k \in 1..Len(wire) : ~IsControl(k)
    /\ readySent # 0 =>
          /\ readySent <= generation
          /\ readySent = generation => hydrated
          /\ \A k \in 1..Len(wire) : IsControl(k) => readySent < wire[k].generation
    /\ ticket.at # "none" =>
          /\ domain <= generation
          /\ \A k \in 1..Len(wire) : IsControl(k) => domain < wire[k].generation

Active == backfill.at \in {"start", "ahead", "row", "admit", "tail"}
Reading == backfill.at \in {"row", "admit", "tail"}

\* Where the recovery task is.
TaskInv ==
    /\ replay.recovering <=> Active /\ ~replay.aborted
    /\ replay.held \cap unpublished = {}
    /\ backfill.at \in {"start", "ahead"} => replay.boundary = {} /\ backfill.cursor = backfill.since
    /\ Reading => /\ backfill.since <= backfill.cursor
                  /\ backfill.cursor <= backfill.target
                  /\ backfill.target <= Len(log)
                  /\ \A i \in replay.boundary : i > backfill.target
                  /\ replay.boundary # {} => backfill.cursor = backfill.target
    /\ backfill.at = "admit" => backfill.cursor < backfill.target
    /\ backfill.at = "tail" => /\ backfill.cursor = backfill.target
                               /\ backfill.frame \in replay.boundary

\* What was let through: by the recovery, everything up to its cursor and the
\* held events it has taken; by the live feed, what is published and neither.
SeamInv ==
    /\ IsInjective(admitted)
    /\ replay.aborted => Range(admitted) \cap unpublished = {}
    /\ ~replay.recovering => \A i \in Range(admitted) : i \notin unpublished \/ Duplicate(i)
    /\ replay.recovering /\ ~Reading => admitted = <<>>
    /\ replay.recovering /\ Reading =>
          /\ \A i \in Range(admitted) :
                \/ i <= backfill.cursor
                \/ backfill.at = "admit" /\ i = backfill.cursor + 1
                \/ i \in replay.boundary /\ ~(backfill.at = "tail" /\ i = backfill.frame)
          /\ \A i \in Nat : backfill.since < i /\ i <= backfill.cursor => i \in Range(admitted)
          /\ backfill.at = "admit" => backfill.cursor + 1 \in Range(admitted)
    /\ backfill.at = "done" /\ ~replay.aborted =>
          \A i \in Nat : backfill.since < i /\ i <= backfill.target => i \in Range(admitted)

IInv ==
    /\ ShapeInv
    /\ BoundInv
    /\ FlagInv
    /\ DomainInv
    /\ TaskInv
    /\ SeamInv

----------------------------------------------------------------------------
(* Sequences, least and greatest ids.                                      *)

\* A non-empty set of naturals has its minimum.
LEMMA MinOf ==
  ASSUME NEW S \in SUBSET Nat, S # {}
  PROVE  Min(S) \in S /\ \A y \in S : Min(S) <= y
  <1>1. PICK x \in S : \A y \in S : ~(<<y, x>> \in OpToRel(<, Nat))
    BY WFMin, NatLessThanWellFounded, Zenon
  <1>2. \A y \in S : ~(y < x)
    BY <1>1, Zenon DEF OpToRel
  <1>3. \A y \in S : x <= y
    BY <1>2
  <1> QED BY <1>3 DEF Min

\* A non-empty bounded set of naturals has its maximum.
LEMMA MaxOf ==
  ASSUME NEW S \in SUBSET Nat, S # {}, NEW n \in Nat, \A x \in S : x <= n
  PROVE  Max(S) \in S /\ \A y \in S : y <= Max(S)
  <1> DEFINE T == {n - x : x \in S}
  <1>1. T \in SUBSET Nat
    <2>1. \A x \in S : n - x \in Nat
      OBVIOUS
    <2> QED BY <2>1
  <1>2. T # {}
    <2>1. PICK x \in S : TRUE
      OBVIOUS
    <2>2. n - x \in T
      OBVIOUS
    <2> QED BY <2>2
  <1>3. Min(T) \in T /\ \A y \in T : Min(T) <= y
    BY <1>1, <1>2, MinOf
  <1>4. PICK x \in S : Min(T) = n - x
    BY <1>3
  <1>5. \A y \in S : n - x <= n - y
    BY <1>3, <1>4
  <1>6. \A y \in S : x >= y
    BY <1>5
  <1> QED BY <1>6 DEF Max

\* The range of the empty sequence, of one id and of one id more.
LEMMA RangeFacts ==
  /\ Range(<<>>) = {} /\ IsInjective(<<>>) /\ <<>> \in Seq(Nat) /\ Len(<<>>) = 0
  /\ \A i \in Nat : /\ Range(<<i>>) = {i} /\ IsInjective(<<i>>)
                    /\ <<i>> \in Seq(Nat) /\ Len(<<i>>) = 1
  BY DEF Range, IsInjective

\* A sequence of ids with one more.
LEMMA AppendFacts ==
  ASSUME NEW q \in Seq(Nat), NEW e \in Nat
  PROVE  /\ Append(q, e) \in Seq(Nat) /\ Len(Append(q, e)) = Len(q) + 1
         /\ Range(Append(q, e)) = Range(q) \cup {e}
         /\ IsInjective(q) /\ e \notin Range(q) => IsInjective(Append(q, e))
  <1>1. /\ Append(q, e) \in Seq(Nat) /\ Len(Append(q, e)) = Len(q) + 1
        /\ \A i \in 1..Len(q) : Append(q, e)[i] = q[i]
        /\ Append(q, e)[Len(q) + 1] = e
    OBVIOUS
  <1>2. /\ DOMAIN q = 1..Len(q) /\ Len(q) \in Nat
        /\ DOMAIN Append(q, e) = 1..Len(q) \cup {Len(q) + 1}
    BY <1>1
  <1>3. Range(Append(q, e)) = Range(q) \cup {e}
    BY <1>1, <1>2 DEF Range
  <1>4. IsInjective(q) /\ e \notin Range(q) => IsInjective(Append(q, e))
    BY <1>1, <1>2 DEF Range, IsInjective
  <1> QED BY <1>1, <1>3, <1>4

\* A sequence without its head.
LEMMA TailFacts ==
  ASSUME NEW S, NEW q \in Seq(S), q # <<>>
  PROVE  /\ Tail(q) \in Seq(S) /\ Len(q) \in Nat /\ Len(q) >= 1 /\ Len(Tail(q)) = Len(q) - 1
         /\ \A i \in 1..Len(Tail(q)) : Tail(q)[i] = q[i + 1] /\ i + 1 \in 1..Len(q)
         /\ Head(q) = q[1] /\ Head(q) \in S
         /\ Range(Tail(q)) \subseteq Range(q) /\ Head(q) \in Range(q)
  <1>1. /\ Tail(q) \in Seq(S) /\ Len(q) \in Nat /\ Len(q) >= 1 /\ Len(Tail(q)) = Len(q) - 1
        /\ \A i \in 1..Len(Tail(q)) : Tail(q)[i] = q[i + 1]
        /\ Head(q) = q[1] /\ Head(q) \in S
    OBVIOUS
  <1>2. DOMAIN q = 1..Len(q) /\ DOMAIN Tail(q) = 1..Len(Tail(q))
    BY <1>1
  <1>3. \A i \in 1..Len(Tail(q)) : i + 1 \in 1..Len(q)
    BY <1>1
  <1> QED BY <1>1, <1>2, <1>3 DEF Range

\* Nothing was kept for later, so the snapshot is the projection.
LEMMA FoldNone ==
  ASSUME NEW S
  PROVE  FoldAll(S, <<>>) = S
  <1>1. DOMAIN <<>> = {}
    OBVIOUS
  <1> QED BY <1>1 DEF FoldAll, FoldLeft, MapThenFoldSet

\* One frame more on the wire.
LEMMA WireFacts ==
  ASSUME NEW w \in Seq(Frames)
  PROVE  /\ Len(w) \in Nat /\ DOMAIN w = 1..Len(w)
         /\ \A k \in 1..Len(w) : w[k] \in Frames /\ w[k].generation \in Nat
         /\ \A f \in Frames :
               /\ Append(w, f) \in Seq(Frames) /\ Len(Append(w, f)) = Len(w) + 1
               /\ \A k \in 1..Len(w) : Append(w, f)[k] = w[k]
               /\ Append(w, f)[Len(w) + 1] = f
               /\ 1..Len(Append(w, f)) = 1..Len(w) \cup {Len(w) + 1}
  <1>1. Len(w) \in Nat /\ \A k \in 1..Len(w) : w[k] \in Frames
    OBVIOUS
  <1>2. \A f \in Frames : f.generation \in Nat
    BY DEF Frames
  <1>3. ASSUME NEW f \in Frames
        PROVE  /\ Append(w, f) \in Seq(Frames) /\ Len(Append(w, f)) = Len(w) + 1
               /\ \A k \in 1..Len(w) : Append(w, f)[k] = w[k]
               /\ Append(w, f)[Len(w) + 1] = f
    OBVIOUS
  <1>4. 1..(Len(w) + 1) = 1..Len(w) \cup {Len(w) + 1}
    BY <1>1
  <1>5. DOMAIN w = 1..Len(w)
    OBVIOUS
  <1> QED BY <1>1, <1>2, <1>3, <1>4, <1>5

EventsOf(w) == {k \in DOMAIN w : w[k].kind = "event"}

\* How many of a sequence of frames are events.
LEMMA EventCount ==
  ASSUME NEW w \in Seq(Frames)
  PROVE  /\ IsFiniteSet(EventsOf(w)) /\ Cardinality(EventsOf(w)) \in Nat
         /\ \A f \in Frames : f.kind # "event" =>
               Cardinality(EventsOf(Append(w, f))) = Cardinality(EventsOf(w))
         /\ \A f \in Frames : f.kind = "event" =>
               Cardinality(EventsOf(Append(w, f))) = Cardinality(EventsOf(w)) + 1
         /\ w # <<>> => Cardinality(EventsOf(Tail(w))) <= Cardinality(EventsOf(w))
  <1>1. IsFiniteSet(EventsOf(w))
    <2>1. EventsOf(w) \in SUBSET (1..Len(w)) /\ Len(w) \in Int
      BY DEF EventsOf
    <2> QED BY <2>1, FS_Interval, FS_Subset
  <1>2. Cardinality(EventsOf(w)) \in Nat
    BY <1>1, FS_CardinalityType
  <1>3. \A f \in Frames :
          /\ f.kind # "event" => EventsOf(Append(w, f)) = EventsOf(w)
          /\ f.kind = "event" => EventsOf(Append(w, f)) = EventsOf(w) \cup {Len(w) + 1}
    <2> TAKE f \in Frames
    <2>1. /\ DOMAIN w = 1..Len(w) /\ Len(w) \in Nat
          /\ DOMAIN Append(w, f) = 1..Len(w) \cup {Len(w) + 1}
          /\ \A i \in 1..Len(w) : Append(w, f)[i] = w[i]
          /\ Append(w, f)[Len(w) + 1] = f
      OBVIOUS
    <2> QED BY <2>1 DEF EventsOf
  <1>4. \A f \in Frames : f.kind = "event" =>
           Cardinality(EventsOf(Append(w, f))) = Cardinality(EventsOf(w)) + 1
    <2>1. Len(w) + 1 \notin EventsOf(w)
      BY DEF EventsOf
    <2>2. Cardinality(EventsOf(w) \cup {Len(w) + 1}) = Cardinality(EventsOf(w)) + 1
      BY <1>1, <2>1, FS_AddElement
    <2> QED BY <1>3, <2>2
  <1>5. ASSUME w # <<>>
        PROVE  Cardinality(EventsOf(Tail(w))) <= Cardinality(EventsOf(w))
    <2> DEFINE f == [k \in EventsOf(Tail(w)) |-> k + 1]
    <2>1. /\ Tail(w) \in Seq(Frames) /\ DOMAIN Tail(w) = 1..Len(Tail(w)) /\ DOMAIN w = 1..Len(w)
          /\ \A i \in 1..Len(Tail(w)) : Tail(w)[i] = w[i + 1] /\ i + 1 \in 1..Len(w)
      BY <1>5, TailFacts
    <2>2. \A k \in EventsOf(Tail(w)) : k \in Int /\ k + 1 \in EventsOf(w)
      BY <2>1 DEF EventsOf
    <2>3. f \in Injection(EventsOf(Tail(w)), EventsOf(w))
      BY <2>2 DEF Injection, IsInjective
    <2> HIDE DEF f
    <2> QED BY <1>1, <2>3, FS_Injection
  <1> QED BY <1>1, <1>2, <1>3, <1>4, <1>5

----------------------------------------------------------------------------
(* The invariant holds at the start, and every step keeps it.              *)

\* What a closed socket holds has its type.
LEMMA IdleTypes == IdleReplay \in Replays /\ NoBackfill \in Backfills /\ NoTicket \in Tickets
  BY DEF IdleReplay, NoBackfill, NoTicket, Replays, Backfills, Tickets

\* Nothing is in the log and no socket is open.
LEMMA InitEstablishes == Init => IInv
  <1> SUFFICES ASSUME Init PROVE IInv
    OBVIOUS
  <1>1. /\ log = <<>> /\ unpublished = {} /\ queue = <<>> /\ wire = <<>> /\ admitted = <<>>
        /\ generation = 0 /\ domain = 0 /\ readySent = 0 /\ retained = <<>> /\ sessions = {}
        /\ replay = IdleReplay /\ backfill = NoBackfill /\ ticket = NoTicket
        /\ ~up /\ ~ready
        /\ persisted \in Cursors /\ lastSeen = persisted
    BY DEF Init
  <1>2. FlagInv
    BY Zenon DEF Init, FlagInv
  <1>3. ShapeInv
    <2>1. Opens = {} /\ Closes = {} /\ Len(log) = 0 /\ log \in Seq(Events) /\ wire \in Seq(Frames)
      BY <1>1 DEF Opens, Closes, Opened, Closed
    <2>2. Cardinality({}) = 0
      BY FS_EmptySet
    <2>3. persisted \in Nat
      BY <1>1, SyncFeedAssumption
    <2>4. IdleReplay.held = {} /\ IdleReplay.boundary = {}
      BY DEF IdleReplay
    <2> QED BY <1>1, <2>1, <2>2, <2>3, <2>4, RangeFacts, IdleTypes DEF ShapeInv
  <1>4. BoundInv
    <2>1. EventsOf(wire) = {} /\ Cardinality({}) = 0
      BY <1>1, FS_EmptySet DEF EventsOf
    <2>2. InFlight = 0
      BY <2>1 DEF InFlight, EventsOf
    <2> QED BY <1>1, <2>1, <2>2, SyncFeedAssumption DEF BoundInv, IdleReplay
  <1>5. DomainInv
    BY <1>1 DEF DomainInv, NoTicket
  <1>6. TaskInv
    BY <1>1 DEF TaskInv, Active, Reading, IdleReplay, NoBackfill
  <1>7. SeamInv
    BY <1>1, RangeFacts DEF SeamInv, Reading, IdleReplay, NoBackfill
  <1> QED BY <1>2, <1>3, <1>4, <1>5, <1>6, <1>7 DEF IInv

\* A step that leaves the socket's conversation alone.
LEMMA DomainUntouched ==
  ASSUME DomainInv, up \/ UNCHANGED <<queue, admitted, replay, backfill>>,
         UNCHANGED <<up, generation, ready, wire, ticket, readySent, domain, hydrated, retained>>
  PROVE  DomainInv'
  BY DEF DomainInv, IsControl

\* Closing the socket, by a full queue, a lost link, a crash or a reload.
LEMMA ClosePreserves ==
  ASSUME IInv, Close, UNCHANGED log, unpublished' \subseteq unpublished,
         retained' = <<>>, lastSeen' \in Nat, UNCHANGED persisted, domain' \in Nat,
         hydrated' \in BOOLEAN, sessions' \subseteq Sessions
  PROVE  IInv'
  <1>1. /\ generation' = 0 /\ ~up' /\ ~ready' /\ queue' = <<>> /\ wire' = <<>> /\ admitted' = <<>>
        /\ replay' = IdleReplay /\ backfill' = NoBackfill /\ ticket' = NoTicket /\ readySent' = 0
    BY DEF Close
  <1>2. FlagInv'
    BY Zenon DEF FlagInv, Close
  <1>3. IdleReplay.held = {} /\ IdleReplay.boundary = {}
    BY DEF IdleReplay
  <1>4. Opens' = Opens /\ Closes' = Closes
    BY DEF Opens, Closes, Opened, Closed
  <1>5. ShapeInv'
    BY <1>1, <1>3, <1>4, RangeFacts, IdleTypes DEF IInv, ShapeInv
  <1>6. BoundInv'
    <2>1. EventsOf(wire') = {} /\ Cardinality({}) = 0
      BY <1>1, FS_EmptySet DEF EventsOf
    <2>2. InFlight' = 0
      BY <2>1 DEF InFlight, EventsOf
    <2> QED BY <1>1, <1>3, <2>1, <2>2, SyncFeedAssumption DEF BoundInv
  <1>7. DomainInv'
    BY <1>1 DEF DomainInv, NoTicket
  <1>8. TaskInv'
    BY <1>1 DEF TaskInv, Active, Reading, IdleReplay, NoBackfill
  <1>9. SeamInv'
    BY <1>1, RangeFacts DEF SeamInv, Reading, IdleReplay, NoBackfill
  <1> QED BY <1>2, <1>5, <1>6, <1>7, <1>8, <1>9 DEF IInv

\* An append commits under the next id, which nothing has named yet; each
\* session adds at most two events.
LEMMA CommitPreserves ==
  ASSUME IInv, NEW e \in Events, Commit(e)
  PROVE  IInv'
  <1> DEFINE n == Len(log)
  <1>1. /\ e.session \notin Closes /\ (e.session \in Opens <=> e.kind = "closed")
        /\ log' = Append(log, e) /\ unpublished' = unpublished \cup {n + 1}
        /\ UNCHANGED <<up, generation, ready, queue, wire, replay, backfill, admitted, ticket,
                       readySent, lastSeen, persisted, domain, hydrated, retained, sessions>>
    BY DEF Commit, serverVars, callVars, storeVars, Opens, Closes
  <1>2. /\ log \in Seq(Events) /\ n \in Nat /\ log' \in Seq(Events) /\ Len(log') = n + 1
        /\ \A i \in 1..n : log'[i] = log[i]
        /\ log'[n + 1] = e /\ 1..Len(log') = 1..n \cup {n + 1}
    BY <1>1 DEF IInv, ShapeInv
  <1>3. e.session \in Sessions /\ e.kind \in {"opened", "closed"}
        /\ e = [kind |-> e.kind, session |-> e.session]
    BY DEF Events
  <1>4. Len(log') = Cardinality(Opens') + Cardinality(Closes')
    <2>1. /\ Opens' = IF e.kind = "opened" THEN Opens \cup {e.session} ELSE Opens
          /\ Closes' = IF e.kind = "closed" THEN Closes \cup {e.session} ELSE Closes
      BY <1>2, <1>3 DEF Opens, Closes, Opened, Closed
    <2>2. IsFiniteSet(Opens) /\ IsFiniteSet(Closes)
      <3>1. Opens \in SUBSET Sessions /\ Closes \in SUBSET Sessions
        BY DEF Opens, Closes, Opened, Closed
      <3> QED BY <3>1, FS_Subset, SyncFeedAssumption
    <2>3. Cardinality(Opens) \in Nat /\ Cardinality(Closes) \in Nat
      BY <2>2, FS_CardinalityType
    <2>4. n = Cardinality(Opens) + Cardinality(Closes)
      BY DEF IInv, ShapeInv
    <2>5. CASE e.kind = "opened"
      <3>1. Cardinality(Opens \cup {e.session}) = Cardinality(Opens) + 1
        BY <1>1, <2>2, <2>5, FS_AddElement
      <3> QED BY <1>2, <2>1, <2>3, <2>4, <2>5, <3>1
    <2>6. CASE e.kind = "closed"
      <3>1. Cardinality(Closes \cup {e.session}) = Cardinality(Closes) + 1
        BY <1>1, <2>2, FS_AddElement
      <3> QED BY <1>2, <2>1, <2>3, <2>4, <2>6, <3>1
    <2> QED BY <1>3, <2>5, <2>6
  <1> HIDE DEF n
  <1>5. n + 1 \notin Range(admitted) /\ n + 1 \notin replay.held
    BY <1>2 DEF n, IInv, ShapeInv
  <1>6. ShapeInv'
    BY <1>1, <1>2, <1>4 DEF n, IInv, ShapeInv
  <1>7. BoundInv' /\ FlagInv'
    BY <1>1 DEF IInv, BoundInv, FlagInv, InFlight
  <1>8. DomainInv'
    BY <1>1, DomainUntouched DEF IInv
  <1>9. TaskInv'
    BY <1>1, <1>2, <1>5 DEF n, IInv, ShapeInv, TaskInv, Active, Reading, Backfills
  <1>10. SeamInv'
    BY <1>1, <1>5 DEF IInv, SeamInv, Reading, Duplicate
  <1> QED BY <1>6, <1>7, <1>8, <1>9, <1>10 DEF IInv

\* An abandoned recovery holds nothing, and keeps its cutoff and boundary.
LEMMA AbortFacts ==
  ASSUME NEW r \in Replays
  PROVE  /\ Abort(r) \in Replays /\ Abort(r).aborted /\ ~Abort(r).recovering
         /\ Abort(r).held = {} /\ Abort(r).boundary = r.boundary /\ Abort(r).cutoff = r.cutoff
  BY DEF Abort, Replays

\* A new generation that is not ready is announced behind whatever is on the
\* wire.
LEMMA NoticeFacts ==
  ASSUME IInv, up, NEW reason \in {"reset", "cursor_ahead"},
         generation' = generation + 1, ready' = FALSE,
         wire' = Append(wire, Control(reason, generation + 1)),
         readySent' \in {readySent, 0},
         UNCHANGED <<log, up, ticket, domain, hydrated, retained>>
  PROVE  /\ DomainInv' /\ InFlight' = InFlight /\ wire' \in Seq(Frames)
         /\ \A k \in 1..Len(wire') : wire'[k].kind = "event" => wire'[k].id \in 1..Len(log')
         /\ generation' \in Nat /\ readySent' \in Nat /\ Opens' = Opens /\ Closes' = Closes
  <1> DEFINE f == Control(reason, generation + 1)
  <1>1. wire' = Append(wire, f)
    OBVIOUS
  <1>2. /\ f \in Frames /\ f.kind # "event" /\ f.generation = generation + 1 /\ generation \in Nat
        /\ domain \in Nat /\ readySent \in Nat
    BY DEF Control, Frames, IInv, ShapeInv
  <1> HIDE DEF f
  <1>3. /\ wire \in Seq(Frames) /\ wire' \in Seq(Frames) /\ Len(wire) \in Nat
        /\ Len(wire') = Len(wire) + 1
        /\ \A k \in 1..Len(wire) : wire'[k] = wire[k]
        /\ wire'[Len(wire) + 1] = f
        /\ 1..Len(wire') = 1..Len(wire) \cup {Len(wire) + 1}
        /\ \A k \in 1..Len(wire) : wire[k] \in Frames /\ wire[k].generation \in Nat
    BY <1>1, <1>2, WireFacts DEF IInv, ShapeInv
  <1>4. Opens' = Opens /\ Closes' = Closes
    BY DEF Opens, Closes, Opened, Closed
  <1>5. \A k \in 1..Len(wire') : wire'[k].kind = "event" => wire'[k].id \in 1..Len(log')
    BY <1>2, <1>3 DEF IInv, ShapeInv
  <1>6. InFlight' = InFlight
    <2>1. InFlight = Cardinality(EventsOf(wire)) /\ InFlight' = Cardinality(EventsOf(wire'))
      BY DEF InFlight, EventsOf
    <2> QED BY <1>1, <1>2, <1>3, <2>1, EventCount
  <1>7. DomainInv'
    <2>1. \A k \in 1..Len(wire) : IsControl(k)' <=> IsControl(k)
      BY <1>3 DEF IsControl
    <2>2. \A j, k \in 1..Len(wire') :
             j < k /\ IsControl(j)' => IsControl(k)' /\ wire'[j].generation < wire'[k].generation
      <3> SUFFICES ASSUME NEW j \in 1..Len(wire'), NEW k \in 1..Len(wire'), j < k, IsControl(j)'
                   PROVE  IsControl(k)' /\ wire'[j].generation < wire'[k].generation
        OBVIOUS
      <3>1. j \in 1..Len(wire) /\ IsControl(j) /\ wire'[j] = wire[j]
        BY <1>3, <2>1
      <3>2. CASE k \in 1..Len(wire)
        <4>1. IsControl(k) /\ wire[j].generation < wire[k].generation
          BY <3>1, <3>2 DEF IInv, DomainInv
        <4> QED BY <1>3, <2>1, <3>1, <3>2, <4>1
      <3>3. CASE k = Len(wire) + 1
        <4>1. wire[j].generation <= generation /\ wire[j].generation \in Nat
          BY <1>3, <3>1 DEF IInv, DomainInv
        <4>2. IsControl(k)' /\ wire'[k].generation = generation + 1
          BY <1>2, <1>3, <3>3 DEF IsControl
        <4> QED BY <1>2, <3>1, <4>1, <4>2
      <3> QED BY <1>3, <3>2, <3>3
    <2>3. \A k \in 1..Len(wire') : IsControl(k)' => wire'[k].generation <= generation'
      BY <1>1, <1>2, <1>3 DEF IInv, DomainInv, IsControl
    <2>4. wire' # <<>> /\ ~IsControl(1)' => hydrated'
      BY <1>2, <1>3 DEF IInv, DomainInv, IsControl
    <2>5. readySent' # 0 =>
             /\ readySent' < generation'
             /\ \A k \in 1..Len(wire') : IsControl(k)' => readySent' < wire'[k].generation
      BY <1>1, <1>2, <1>3 DEF IInv, DomainInv, IsControl
    <2>6. ticket.at # "none" =>
             /\ domain <= generation'
             /\ \A k \in 1..Len(wire') : IsControl(k)' => domain < wire'[k].generation
      BY <1>1, <1>2, <1>3 DEF IInv, DomainInv, IsControl
    <2> QED BY <1>1, <1>2, <2>2, <2>3, <2>4, <2>5, <2>6 DEF IInv, DomainInv
  <1> QED BY <1>2, <1>3, <1>4, <1>5, <1>6, <1>7

\* A reset that abandons the recovery, with at most one published event queued
\* behind the notice.
LEMMA ResetPreserves ==
  ASSUME IInv, up, NEW reason \in {"reset", "cursor_ahead"}, NEW ids, ResetWith(reason, ids),
         ids = <<>> \/ \E i \in 1..Len(log) : ids = <<i>> /\ i \notin unpublished',
         unpublished' \subseteq unpublished, replay' = Abort(replay),
         backfill' = backfill \/ backfill' = NoBackfill,
         UNCHANGED <<log, up, ticket, readySent, lastSeen, persisted, domain, hydrated, retained,
                     sessions>>
  PROVE  IInv'
  <1>1. /\ generation' = generation + 1 /\ ready' = FALSE /\ queue' = ids /\ admitted' = ids
        /\ wire' = Append(wire, Control(reason, generation + 1))
    BY DEF ResetWith
  <1>2. /\ DomainInv' /\ InFlight' = InFlight /\ wire' \in Seq(Frames)
        /\ \A k \in 1..Len(wire') : wire'[k].kind = "event" => wire'[k].id \in 1..Len(log')
        /\ generation' \in Nat /\ readySent' \in Nat /\ Opens' = Opens /\ Closes' = Closes
    BY <1>1, NoticeFacts
  <1>4. /\ ids \in Seq(Nat) /\ Len(ids) <= 1 /\ IsInjective(ids)
        /\ Range(ids) \subseteq 1..Len(log) /\ Range(ids) \cap unpublished' = {}
    <2>1. CASE ids = <<>>
      BY <2>1, RangeFacts
    <2>2. ASSUME NEW i \in 1..Len(log), ids = <<i>>, i \notin unpublished'
          PROVE  /\ ids \in Seq(Nat) /\ Len(ids) <= 1 /\ IsInjective(ids)
                 /\ Range(ids) \subseteq 1..Len(log) /\ Range(ids) \cap unpublished' = {}
      BY <2>2, RangeFacts
    <2> QED BY <2>1, <2>2
  <1>5. /\ replay' \in Replays /\ replay'.aborted /\ ~replay'.recovering /\ replay'.held = {}
        /\ replay'.boundary = replay.boundary
    BY AbortFacts DEF IInv, ShapeInv
  <1>7. ShapeInv'
    BY <1>1, <1>2, <1>4, <1>5, IdleTypes DEF IInv, ShapeInv
  <1>8. BoundInv'
    <2>1. Cardinality({}) = 0
      BY FS_EmptySet
    <2> QED BY <1>1, <1>2, <1>4, <1>5, <2>1, SyncFeedAssumption DEF IInv, BoundInv
  <1>9. FlagInv'
    BY <1>1, Zenon DEF IInv, FlagInv
  <1>11. TaskInv'
    BY <1>5 DEF IInv, TaskInv, Active, Reading, NoBackfill
  <1>12. SeamInv'
    BY <1>1, <1>4, <1>5 DEF IInv, SeamInv
  <1> QED BY <1>2, <1>7, <1>8, <1>9, <1>11, <1>12 DEF IInv

\* An event leaves the set of unpublished ones and nothing else happens: the
\* socket is closed, or the client has the event.
LEMMA PublishOnly ==
  ASSUME IInv, unpublished' \subseteq unpublished,
         UNCHANGED <<log, up, generation, ready, queue, wire, replay, backfill, admitted, ticket,
                     readySent, lastSeen, persisted, domain, hydrated, retained, sessions>>
  PROVE  IInv'
  <1>1. ShapeInv'
    BY DEF IInv, ShapeInv, Opens, Closes, Opened, Closed
  <1>2. BoundInv' /\ FlagInv'
    BY DEF IInv, BoundInv, FlagInv, InFlight
  <1>3. DomainInv'
    BY DomainUntouched DEF IInv
  <1>4. TaskInv'
    BY DEF IInv, TaskInv, Active, Reading
  <1>5. SeamInv'
    BY DEF IInv, SeamInv, Reading, Duplicate
  <1> QED BY <1>1, <1>2, <1>3, <1>4, <1>5 DEF IInv

\* A live event that is let through is not one the client has.
LEMMA EmitLivePreserves ==
  ASSUME IInv, NEW i \in unpublished, EmitLive(i)
  PROVE  IInv'
  <1>1. /\ up /\ ~replay.recovering /\ unpublished' = unpublished \ {i}
        /\ UNCHANGED <<log, lastSeen, persisted, domain, hydrated, retained, sessions>>
        /\ IF Duplicate(i) THEN UNCHANGED <<serverVars, callVars>> ELSE Enqueue(i)
    BY DEF EmitLive, Published, storeVars
  <1>2. CASE Duplicate(i)
    <2>1. UNCHANGED <<up, generation, ready, queue, wire, replay, backfill, admitted, ticket, readySent>>
      BY <1>1, <1>2 DEF serverVars, callVars
    <2> QED BY <1>1, <2>1, PublishOnly
  <1>3. CASE ~Duplicate(i) /\ Len(queue) >= QueueMax
    <2>1. Close
      <3>1. ~(Len(queue) < QueueMax)
        BY <1>3, SyncFeedAssumption DEF IInv, ShapeInv
      <3> QED BY <1>1, <1>3, <3>1 DEF Enqueue
    <2>2. /\ retained' = <<>> /\ lastSeen' \in Nat /\ domain' \in Nat /\ sessions' \subseteq Sessions
          /\ hydrated' \in BOOLEAN
      BY <1>1 DEF IInv, ShapeInv, DomainInv, FlagInv
    <2> QED BY <1>1, <2>1, <2>2, ClosePreserves
  <1>4. CASE ~Duplicate(i) /\ Len(queue) < QueueMax
    <2>1. /\ queue' = Append(queue, i) /\ admitted' = Append(admitted, i)
          /\ UNCHANGED <<up, generation, ready, wire, replay, backfill, ticket, readySent>>
      BY <1>1, <1>4 DEF Enqueue, callVars
    <2>2. i \in 1..Len(log) /\ i \in Nat /\ queue \in Seq(Nat) /\ admitted \in Seq(Nat)
      BY DEF IInv, ShapeInv
    <2>3. /\ queue' \in Seq(Nat) /\ Len(queue') = Len(queue) + 1 /\ Range(queue') = Range(queue) \cup {i}
          /\ admitted' \in Seq(Nat) /\ Range(admitted') = Range(admitted) \cup {i}
          /\ IsInjective(admitted) /\ i \notin Range(admitted) => IsInjective(admitted')
      BY <2>1, <2>2, AppendFacts
    <2>4. i \notin Range(admitted)
      BY <1>1, <1>4 DEF IInv, SeamInv
    <2>5. Opens' = Opens /\ Closes' = Closes
      BY <1>1 DEF Opens, Closes, Opened, Closed
    <2>6. ShapeInv'
      BY <1>1, <2>1, <2>2, <2>3, <2>5 DEF IInv, ShapeInv
    <2>7. BoundInv' /\ FlagInv'
      BY <1>1, <1>4, <2>1, <2>2, <2>3, SyncFeedAssumption DEF IInv, BoundInv, FlagInv, InFlight
    <2>8. DomainInv'
      BY <1>1, <2>1, DomainUntouched DEF IInv
    <2>9. TaskInv'
      BY <1>1, <2>1 DEF IInv, TaskInv, Active, Reading
    <2>10. SeamInv'
      BY <1>1, <2>1, <2>3, <2>4 DEF IInv, SeamInv, Duplicate
    <2> QED BY <2>6, <2>7, <2>8, <2>9, <2>10 DEF IInv
  <1>5. Len(queue) \in Nat
    BY DEF IInv, ShapeInv
  <1> QED BY <1>2, <1>3, <1>4, <1>5, SyncFeedAssumption

\* The held events are finitely many.
LEMMA HeldFinite ==
  ASSUME IInv, NEW S \in SUBSET replay.held
  PROVE  IsFiniteSet(S) /\ Cardinality(S) <= Cardinality(replay.held)
  <1>1. IsFiniteSet(replay.held)
    <2>1. replay.held \in SUBSET (1..Len(log)) /\ Len(log) \in Int
      BY DEF IInv, ShapeInv
    <2>2. IsFiniteSet(1..Len(log))
      BY <2>1, FS_Interval
    <2> QED BY <2>1, <2>2, FS_Subset
  <1> QED BY <1>1, FS_Subset

\* A live event is held during a recovery.
LEMMA HoldLivePreserves ==
  ASSUME IInv, NEW i \in unpublished, HoldLive(i)
  PROVE  IInv'
  <1>1. /\ up /\ replay.recovering /\ unpublished' = unpublished \ {i}
        /\ Cardinality(replay.held) < HoldMax
        /\ replay' = [replay EXCEPT !.held = @ \cup {i}]
        /\ UNCHANGED <<log, up, generation, ready, queue, wire, backfill, admitted, ticket,
                       readySent, lastSeen, persisted, domain, hydrated, retained, sessions>>
    BY DEF HoldLive, Published, storeVars, callVars
  <1>2. i \in 1..Len(log) /\ i \in Nat
    BY DEF IInv, ShapeInv
  <1>3. /\ replay' \in Replays /\ replay'.held = replay.held \cup {i}
        /\ replay'.recovering = replay.recovering /\ replay'.aborted = replay.aborted
        /\ replay'.boundary = replay.boundary /\ replay'.cutoff = replay.cutoff
    BY <1>1, <1>2 DEF IInv, ShapeInv, Replays
  <1>4. Cardinality(replay'.held) <= HoldMax
    <2>1. IsFiniteSet(replay.held)
      BY HeldFinite
    <2>2. Cardinality(replay.held) \in Nat
      BY <2>1, FS_CardinalityType
    <2>3. \/ Cardinality(replay.held \cup {i}) = Cardinality(replay.held)
          \/ Cardinality(replay.held \cup {i}) = Cardinality(replay.held) + 1
      BY <2>1, FS_AddElement, Zenon
    <2> QED BY <1>1, <1>3, <2>2, <2>3, SyncFeedAssumption
  <1>5. Opens' = Opens /\ Closes' = Closes
    BY <1>1 DEF Opens, Closes, Opened, Closed
  <1>6. ShapeInv'
    BY <1>1, <1>2, <1>3, <1>5 DEF IInv, ShapeInv
  <1>7. BoundInv' /\ FlagInv'
    BY <1>1, <1>3, <1>4 DEF IInv, BoundInv, FlagInv, InFlight
  <1>8. DomainInv'
    BY <1>1, DomainUntouched DEF IInv
  <1>9. TaskInv'
    BY <1>1, <1>3 DEF IInv, TaskInv, Active, Reading
  <1>10. SeamInv'
    BY <1>1, <1>3 DEF IInv, SeamInv, Reading
  <1> QED BY <1>6, <1>7, <1>8, <1>9, <1>10 DEF IInv

\* The hold overflows: what is released behind the reset has been published.
LEMMA OverflowLivePreserves ==
  ASSUME IInv, NEW i \in unpublished, OverflowLive(i)
  PROVE  IInv'
  <1>1. /\ up /\ unpublished' = unpublished \ {i} /\ replay' = Abort(replay)
        /\ ResetWith("reset", LastReleased(i))
        /\ UNCHANGED <<log, up, backfill, ticket, readySent, lastSeen, persisted, domain, hydrated,
                       retained, sessions>>
    BY DEF OverflowLive, Published, storeVars, callVars
  <1>2. \/ LastReleased(i) = <<>>
        \/ \E j \in 1..Len(log) : LastReleased(i) = <<j>> /\ j \notin unpublished'
    <2>1. i \in 1..Len(log) /\ i \notin unpublished'
      BY <1>1 DEF IInv, ShapeInv
    <2>2. replay.held # {} => Max(replay.held) \in 1..Len(log) /\ Max(replay.held) \notin unpublished'
      <3>1. replay.held \in SUBSET Nat /\ Len(log) \in Nat /\ \A x \in replay.held : x <= Len(log)
        BY DEF IInv, ShapeInv
      <3>2. replay.held # {} => Max(replay.held) \in replay.held
        BY <3>1, MaxOf
      <3> QED BY <1>1, <3>2 DEF IInv, ShapeInv, TaskInv
    <2> QED BY <2>1, <2>2 DEF LastReleased
  <1> QED BY <1>1, <1>2, ResetPreserves

\* A published event, on every path.
LEMMA RoutePreserves ==
  ASSUME IInv, NEW i \in unpublished, Route(i)
  PROVE  IInv'
  <1>1. CASE NotListening(i)
    <2>1. /\ unpublished' \subseteq unpublished
          /\ UNCHANGED <<log, up, generation, ready, queue, wire, replay, backfill, admitted, ticket,
                         readySent, lastSeen, persisted, domain, hydrated, retained, sessions>>
      BY <1>1 DEF NotListening, Published, serverVars, callVars, storeVars
    <2> QED BY <2>1, PublishOnly
  <1> QED BY <1>1, EmitLivePreserves, HoldLivePreserves, OverflowLivePreserves DEF Route

----------------------------------------------------------------------------
(* The recovery task.                                                      *)

\* A task under way has an open socket.
LEMMA TaskIsUp ==
  ASSUME IInv, backfill.at # "none"
  PROVE  up
  BY DEF IInv, DomainInv, NoBackfill

\* A step of the task under the lock of the replay bookkeeping.
LEMMA BookkeepingStep ==
  ASSUME IInv, up, replay' \in Replays, replay'.held \subseteq replay.held,
         replay'.boundary \subseteq 1..Len(log), replay'.held # {} => replay'.recovering,
         backfill' \in Backfills, TaskInv', SeamInv',
         UNCHANGED <<log, unpublished, up, generation, ready, queue, wire, admitted, ticket,
                     readySent, lastSeen, persisted, domain, hydrated, retained, sessions>>
  PROVE  IInv'
  <1>1. Opens' = Opens /\ Closes' = Closes
    BY DEF Opens, Closes, Opened, Closed
  <1>2. ShapeInv'
    BY <1>1 DEF IInv, ShapeInv
  <1>3. BoundInv'
    <2>1. IsFiniteSet(replay.held) /\ IsFiniteSet(replay'.held)
          /\ Cardinality(replay'.held) <= Cardinality(replay.held)
      BY HeldFinite
    <2>2. Cardinality(replay.held) \in Nat /\ Cardinality(replay'.held) \in Nat
      BY <2>1, FS_CardinalityType
    <2> QED BY <2>1, <2>2, SyncFeedAssumption DEF IInv, BoundInv, InFlight
  <1>4. FlagInv'
    BY DEF IInv, FlagInv
  <1>5. DomainInv'
    BY DomainUntouched DEF IInv
  <1> QED BY <1>2, <1>3, <1>4, <1>5 DEF IInv

\* A frame of the task is queued, once the client is hydrated.
LEMMA PacedStep ==
  ASSUME IInv, up, NEW i \in 1..Len(log), Paced(i), backfill' \in Backfills, TaskInv', SeamInv',
         UNCHANGED <<log, unpublished, up, generation, ready, wire, replay, ticket,
                     readySent, lastSeen, persisted, domain, hydrated, retained, sessions>>
  PROVE  IInv'
  <1>1. /\ queue' = Append(queue, i) /\ admitted' = Append(admitted, i) /\ Len(queue) < QueueMax
        /\ i \in Nat /\ queue \in Seq(Nat) /\ admitted \in Seq(Nat)
    BY DEF Paced, IInv, ShapeInv
  <1>2. /\ queue' \in Seq(Nat) /\ Len(queue') = Len(queue) + 1 /\ Range(queue') = Range(queue) \cup {i}
        /\ admitted' \in Seq(Nat) /\ Range(admitted') = Range(admitted) \cup {i}
    BY <1>1, AppendFacts
  <1>3. Opens' = Opens /\ Closes' = Closes
    BY DEF Opens, Closes, Opened, Closed
  <1>4. ShapeInv'
    BY <1>1, <1>2, <1>3 DEF IInv, ShapeInv
  <1>5. BoundInv'
    BY <1>1, <1>2, SyncFeedAssumption DEF IInv, BoundInv, InFlight
  <1>6. FlagInv'
    BY DEF IInv, FlagInv
  <1>7. DomainInv'
    BY DomainUntouched DEF IInv
  <1> QED BY <1>4, <1>5, <1>6, <1>7 DEF IInv

\* The task learns where the log ends.
LEMMA ReadEndPreserves ==
  ASSUME IInv, BackfillReadEnd
  PROVE  IInv'
  <1>1. /\ backfill.at = "start"
        /\ UNCHANGED <<log, unpublished, up, generation, ready, queue, wire, admitted, ticket,
                       readySent, lastSeen, persisted, domain, hydrated, retained, sessions>>
    BY DEF BackfillReadEnd, callVars, storeVars
  <1>2. /\ up /\ backfill \in Backfills /\ replay \in Replays /\ Len(log) \in Nat
        /\ backfill.since \in Nat
    BY <1>1, TaskIsUp DEF IInv, ShapeInv, Backfills
  <1>3. CASE Len(log) < backfill.since
    <2>1. /\ backfill' = [backfill EXCEPT !.at = "ahead"]
          /\ replay' = [replay EXCEPT !.cutoff = Len(log)]
      BY <1>3 DEF BackfillReadEnd, MoveBackfill
    <2>2. /\ backfill' \in Backfills /\ backfill'.at = "ahead" /\ backfill'.since = backfill.since
          /\ backfill'.cursor = backfill.cursor
      BY <1>2, <2>1 DEF Backfills
    <2>3. /\ replay' \in Replays /\ replay'.held = replay.held /\ replay'.boundary = replay.boundary
          /\ replay'.recovering = replay.recovering /\ replay'.aborted = replay.aborted
      BY <1>2, <2>1 DEF Replays
    <2>4. TaskInv'
      BY <1>1, <2>2, <2>3 DEF IInv, TaskInv, Active, Reading
    <2>5. SeamInv'
      <3>1. replay.recovering <=> ~replay.aborted
        BY <1>1 DEF IInv, TaskInv, Active
      <3> QED BY <1>1, <2>2, <2>3, <3>1 DEF IInv, SeamInv, Reading
    <2> QED BY <1>1, <1>2, <2>2, <2>3, <2>4, <2>5, BookkeepingStep DEF IInv, ShapeInv, BoundInv
  <1>4. CASE ~(Len(log) < backfill.since)
    <2>1. /\ backfill' = [backfill EXCEPT !.at = "row", !.target = Len(log)]
          /\ replay' = replay
      BY <1>4 DEF BackfillReadEnd
    <2>2. /\ backfill' \in Backfills /\ backfill'.at = "row" /\ backfill'.since = backfill.since
          /\ backfill'.cursor = backfill.cursor /\ backfill'.target = Len(log)
      BY <1>2, <2>1 DEF Backfills
    <2>3. backfill.cursor = backfill.since /\ replay.boundary = {}
      BY <1>1 DEF IInv, TaskInv
    <2>4. TaskInv'
      BY <1>1, <1>2, <1>4, <2>1, <2>2, <2>3 DEF IInv, TaskInv, Active, Reading
    <2>5. SeamInv'
      BY <1>1, <1>2, <2>1, <2>2, <2>3, RangeFacts DEF IInv, SeamInv, Reading, Duplicate
    <2> QED BY <1>1, <1>2, <2>1, <2>2, <2>4, <2>5, BookkeepingStep DEF IInv, ShapeInv, BoundInv
  <1> QED BY <1>3, <1>4

\* The task gives up: its cursor is ahead of the log, a read failed, or the
\* live feed abandoned the recovery.
LEMMA GiveUpPreserves ==
  ASSUME IInv, BackfillCursorAhead \/ BackfillReadFails \/ BackfillStops
  PROVE  IInv'
  <1>1. /\ backfill.at # "none" /\ backfill' = NoBackfill
        /\ UNCHANGED <<log, unpublished, up, ticket, readySent, lastSeen, persisted, domain,
                       hydrated, retained, sessions>>
    BY DEF BackfillCursorAhead, BackfillReadFails, BackfillStops, callVars, storeVars
  <1>2. up
    BY <1>1, TaskIsUp
  <1>3. ASSUME replay.aborted, UNCHANGED <<generation, ready, queue, wire, replay, admitted>>
        PROVE  IInv'
    <2>1. /\ ~replay.recovering /\ NoBackfill.at = "none" /\ replay.held = {}
      BY <1>3 DEF IInv, TaskInv, BoundInv, NoBackfill
    <2>2. TaskInv'
      BY <1>1, <1>3, <2>1 DEF IInv, TaskInv, Active, Reading
    <2>3. SeamInv'
      BY <1>1, <1>3, <2>1 DEF IInv, SeamInv, Reading, Duplicate
    <2> QED BY <1>1, <1>2, <1>3, <2>1, <2>2, <2>3, BookkeepingStep, IdleTypes DEF IInv, ShapeInv
  <1>4. CASE BackfillCursorAhead
    <2>1. CASE replay.aborted
      BY <1>3, <1>4, <2>1 DEF BackfillCursorAhead
    <2>2. CASE ~replay.aborted
      <3>1. replay' = Abort(replay) /\ ResetWith("cursor_ahead", <<>>)
        BY <1>4, <2>2 DEF BackfillCursorAhead
      <3> QED BY <1>1, <1>2, <3>1, ResetPreserves
    <2> QED BY <2>1, <2>2
  <1>5. CASE BackfillReadFails
    <2>1. replay' = Abort(replay) /\ ResetWith("reset", <<>>)
      BY <1>5 DEF BackfillReadFails
    <2> QED BY <1>1, <1>2, <2>1, ResetPreserves
  <1>6. CASE BackfillStops
    BY <1>3, <1>6 DEF BackfillStops
  <1> QED BY <1>4, <1>5, <1>6

\* The next row of the interval is one that no path has queued yet.
LEMMA RowPreserves ==
  ASSUME IInv, BackfillRow
  PROVE  IInv'
  <1> DEFINE i == backfill.cursor + 1
  <1>1. /\ backfill.at = "row" /\ ~replay.aborted /\ backfill.cursor < backfill.target /\ Paced(i)
        /\ backfill' = [backfill EXCEPT !.at = "admit"]
        /\ admitted' = Append(admitted, i)
        /\ UNCHANGED <<log, unpublished, up, generation, ready, wire, replay, ticket,
                       readySent, lastSeen, persisted, domain, hydrated, retained, sessions>>
    BY DEF BackfillRow, MoveBackfill, Paced, callVars, storeVars
  <1>2. /\ up /\ backfill \in Backfills /\ Len(log) \in Nat /\ admitted \in Seq(Nat)
        /\ backfill.cursor \in Nat /\ backfill.target \in Nat /\ backfill.since \in Nat
    BY <1>1, TaskIsUp, SMTT(30) DEF IInv, ShapeInv, Backfills
  <1>3. /\ backfill' \in Backfills /\ backfill'.at = "admit" /\ backfill'.since = backfill.since
        /\ backfill'.cursor = backfill.cursor /\ backfill'.target = backfill.target
    BY <1>1, <1>2 DEF Backfills
  <1>4. /\ backfill.since <= backfill.cursor /\ backfill.target <= Len(log)
        /\ replay.boundary = {} /\ replay.recovering
    BY <1>1, <1>2 DEF IInv, TaskInv, Reading, Active
  <1>5. i \in 1..Len(log) /\ i \in Nat
    BY <1>1, <1>2, <1>4
  <1>6. i \notin Range(admitted)
    BY <1>1, <1>2, <1>4 DEF IInv, SeamInv, Reading
  <1>7. Range(admitted') = Range(admitted) \cup {i} /\ IsInjective(admitted')
    BY <1>1, <1>2, <1>5, <1>6, AppendFacts DEF IInv, SeamInv
  <1>8. TaskInv'
    BY <1>1, <1>2, <1>3, <1>4 DEF IInv, TaskInv, Active, Reading
  <1>9. SeamInv'
    BY <1>1, <1>2, <1>3, <1>4, <1>7 DEF IInv, SeamInv, Reading
  <1> QED BY <1>1, <1>2, <1>3, <1>5, <1>8, <1>9, PacedStep

\* The cutoff follows the row, also when the recovery was abandoned meanwhile.
LEMMA AdmitPreserves ==
  ASSUME IInv, BackfillAdmit
  PROVE  IInv'
  <1> DEFINE i == backfill.cursor + 1
  <1>1. /\ backfill.at = "admit"
        /\ replay' = IF i <= replay.cutoff THEN replay
                     ELSE [replay EXCEPT !.cutoff = i, !.boundary = @ \ {i}]
        /\ backfill' = [backfill EXCEPT !.at = "row", !.cursor = i]
        /\ UNCHANGED <<log, unpublished, up, generation, ready, queue, wire, admitted, ticket,
                       readySent, lastSeen, persisted, domain, hydrated, retained, sessions>>
    BY DEF BackfillAdmit, callVars, storeVars
  <1>2. /\ up /\ backfill \in Backfills /\ replay \in Replays /\ Len(log) \in Nat
        /\ backfill.cursor \in Nat /\ backfill.target \in Nat /\ backfill.since \in Nat
        /\ i \in Nat
    <2>1. backfill.at = "admit"
      BY <1>1
    <2> QED BY <2>1, TaskIsUp DEF IInv, ShapeInv, Backfills
  <1> HIDE DEF i
  <1>3. /\ backfill' \in Backfills /\ backfill'.at = "row" /\ backfill'.since = backfill.since
        /\ backfill'.cursor = i /\ backfill'.target = backfill.target
    BY <1>1, <1>2 DEF Backfills
  <1>4. /\ backfill.since <= backfill.cursor /\ backfill.target <= Len(log)
        /\ backfill.cursor < backfill.target /\ replay.boundary = {}
    BY <1>1, <1>2 DEF IInv, TaskInv, Reading
  <1>5. /\ replay' \in Replays /\ replay'.held = replay.held /\ replay'.boundary = {}
        /\ replay'.recovering = replay.recovering /\ replay'.aborted = replay.aborted
    <2>1. CASE i <= replay.cutoff
      BY <1>1, <1>2, <1>4, <2>1
    <2>2. CASE ~(i <= replay.cutoff)
      BY <1>1, <1>2, <1>4, <2>2 DEF Replays
    <2> QED BY <2>1, <2>2
  <1>6. TaskInv'
    BY <1>1, <1>2, <1>3, <1>4, <1>5 DEF i, IInv, TaskInv, Active, Reading
  <1>7. replay.recovering <=> ~replay.aborted
    BY <1>1 DEF IInv, TaskInv, Active
  <1>8. SeamInv'
    <2>1. CASE replay.aborted
      BY <1>1, <1>3, <1>5, <1>7, <2>1 DEF IInv, SeamInv
    <2>2. CASE ~replay.aborted
      <3>1. \A x \in Range(admitted) : x <= i
        <4>1. \A x \in Range(admitted) : x \in Nat
          BY DEF IInv, ShapeInv
        <4>2. replay.recovering /\ Reading
          BY <1>1, <1>7, <2>2 DEF Reading
        <4>3. \A x \in Range(admitted) : x <= backfill.cursor \/ x = backfill.cursor + 1
          BY <1>4, <4>2 DEF IInv, SeamInv
        <4> QED BY <1>2, <4>1, <4>3 DEF i
      <3>2. \A x \in Nat : backfill.since < x /\ x <= i => x \in Range(admitted)
        BY <1>1, <1>2, <1>7, <2>2 DEF i, IInv, SeamInv, Reading
      <3> QED BY <1>1, <1>3, <1>5, <1>7, <2>2, <3>1, <3>2 DEF IInv, SeamInv, Reading
    <2> QED BY <2>1, <2>2
  <1> QED BY <1>1, <1>2, <1>3, <1>5, <1>6, <1>8, BookkeepingStep DEF IInv, BoundInv

\* The interval is out: the oldest held event above it comes next, and with
\* none left the live feed takes over where the recovery stopped.
LEMMA PopTailPreserves ==
  ASSUME IInv, BackfillPopTail
  PROVE  IInv'
  <1>1. /\ backfill.at = "row" /\ ~replay.aborted /\ backfill.cursor = backfill.target
        /\ UNCHANGED <<log, unpublished, up, generation, ready, queue, wire, admitted, ticket,
                       readySent, lastSeen, persisted, domain, hydrated, retained, sessions>>
    BY DEF BackfillPopTail, callVars, storeVars
  <1>2. /\ up /\ backfill \in Backfills /\ replay \in Replays /\ Len(log) \in Nat
        /\ backfill.cursor \in Nat /\ backfill.target \in Nat /\ backfill.since \in Nat
        /\ replay.held \subseteq 1..Len(log) /\ replay.boundary \subseteq 1..Len(log)
    BY <1>1, TaskIsUp DEF IInv, ShapeInv, Backfills
  <1>3. /\ backfill.since <= backfill.cursor /\ backfill.target <= Len(log)
        /\ replay.recovering /\ \A x \in replay.boundary : x > backfill.target
        /\ replay.held \cap unpublished = {}
    BY <1>1, <1>2 DEF IInv, TaskInv, Reading, Active
  <1>4. /\ \A x \in Range(admitted) : x <= backfill.target \/ x \in replay.boundary
        /\ \A x \in Nat : backfill.since < x /\ x <= backfill.target => x \in Range(admitted)
        /\ IsInjective(admitted)
    BY <1>1, <1>3 DEF IInv, SeamInv, Reading
  <1>5. CASE HeldTail = {}
    <2>1. /\ replay' = [replay EXCEPT !.cutoff = backfill.target, !.recovering = FALSE, !.held = {}]
          /\ backfill' = [backfill EXCEPT !.at = "done"]
      BY <1>5 DEF BackfillPopTail, MoveBackfill
    <2>2. /\ backfill' \in Backfills /\ backfill'.at = "done" /\ backfill'.since = backfill.since
          /\ backfill'.target = backfill.target
      BY <1>2, <2>1 DEF Backfills
    <2>3. /\ replay' \in Replays /\ replay'.held = {} /\ replay'.boundary = replay.boundary
          /\ ~replay'.recovering /\ ~replay'.aborted /\ replay'.cutoff = backfill.target
      BY <1>1, <1>2, <2>1 DEF Replays
    <2>4. TaskInv'
      BY <2>2, <2>3 DEF TaskInv, Active, Reading
    <2>5. SeamInv'
      BY <1>1, <1>4, <2>2, <2>3 DEF SeamInv, Duplicate
    <2> QED BY <1>1, <1>2, <2>2, <2>3, <2>4, <2>5, BookkeepingStep
  <1>6. CASE HeldTail # {}
    <2> DEFINE m == Min(HeldTail)
    <2>1. /\ replay' = [replay EXCEPT !.cutoff = backfill.target,
                          !.boundary = @ \cup {m}, !.held = {i \in HeldTail : i > m}]
          /\ backfill' = [backfill EXCEPT !.at = "tail", !.frame = m]
      BY <1>6 DEF BackfillPopTail
    <2>2. m \in HeldTail
      <3>1. HeldTail \in SUBSET Nat
        BY <1>2 DEF HeldTail
      <3> QED BY <1>6, <3>1, MinOf
    <2> HIDE DEF m
    <2>3. /\ m \in replay.held /\ m \in 1..Len(log) /\ m \in Nat /\ m > backfill.target
          /\ m \notin replay.boundary
      BY <1>2, <2>2 DEF HeldTail
    <2>4. {i \in HeldTail : i > m} \subseteq replay.held
      BY DEF HeldTail
    <2>5. /\ backfill' \in Backfills /\ backfill'.at = "tail" /\ backfill'.since = backfill.since
          /\ backfill'.target = backfill.target /\ backfill'.cursor = backfill.cursor
          /\ backfill'.frame = m
      BY <1>2, <2>1, <2>3 DEF Backfills
    <2>6. {i \in HeldTail : i > m} \in SUBSET Nat
      BY <1>2, <2>4
    <2>7. /\ replay' \in Replays /\ replay'.held = {i \in HeldTail : i > m}
          /\ replay'.boundary = replay.boundary \cup {m}
          /\ replay'.recovering /\ ~replay'.aborted
      BY <1>1, <1>2, <1>3, <2>1, <2>3, <2>6 DEF Replays
    <2>8. TaskInv'
      BY <1>1, <1>2, <1>3, <2>3, <2>4, <2>5, <2>7 DEF TaskInv, Active, Reading
    <2>9. SeamInv'
      BY <1>1, <1>2, <1>4, <2>3, <2>5, <2>7 DEF SeamInv, Reading
    <2> QED BY <1>1, <1>2, <2>3, <2>4, <2>5, <2>7, <2>8, <2>9, BookkeepingStep
  <1> QED BY <1>5, <1>6

\* The held event that was taken is queued, for the first time.
LEMMA TailPreserves ==
  ASSUME IInv, BackfillTail
  PROVE  IInv'
  <1> DEFINE i == backfill.frame
  <1>1. /\ backfill.at = "tail" /\ ~replay.aborted /\ Paced(i)
        /\ backfill' = [backfill EXCEPT !.at = "row", !.frame = 0]
        /\ admitted' = Append(admitted, i)
        /\ UNCHANGED <<log, unpublished, up, generation, ready, wire, replay, ticket,
                       readySent, lastSeen, persisted, domain, hydrated, retained, sessions>>
    BY DEF BackfillTail, Paced, callVars, storeVars
  <1>2. /\ up /\ backfill \in Backfills /\ Len(log) \in Nat /\ admitted \in Seq(Nat)
        /\ backfill.cursor \in Nat /\ backfill.target \in Nat /\ backfill.since \in Nat
        /\ replay.boundary \subseteq 1..Len(log)
    BY <1>1, TaskIsUp, SMTT(30) DEF IInv, ShapeInv, Backfills
  <1>3. /\ backfill' \in Backfills /\ backfill'.at = "row" /\ backfill'.since = backfill.since
        /\ backfill'.cursor = backfill.cursor /\ backfill'.target = backfill.target
    BY <1>1, <1>2 DEF Backfills
  <1>4. /\ i \in replay.boundary /\ backfill.cursor = backfill.target /\ replay.recovering
        /\ i > backfill.target
    BY <1>1 DEF IInv, TaskInv, Reading, Active
  <1>5. i \in 1..Len(log) /\ i \in Nat
    BY <1>2, <1>4
  <1>6. i \notin Range(admitted)
    BY <1>1, <1>2, <1>4, <1>5 DEF IInv, SeamInv, Reading
  <1>7. Range(admitted') = Range(admitted) \cup {i} /\ IsInjective(admitted')
    BY <1>1, <1>2, <1>5, <1>6, AppendFacts DEF IInv, SeamInv
  <1>8. TaskInv'
    BY <1>1, <1>2, <1>3, <1>4 DEF IInv, TaskInv, Active, Reading
  <1>9. SeamInv'
    BY <1>1, <1>2, <1>3, <1>4, <1>7 DEF IInv, SeamInv, Reading
  <1> QED BY <1>1, <1>2, <1>3, <1>5, <1>8, <1>9, PacedStep

\* Every step of the recovery task.
LEMMA RecoveryPreserves ==
  ASSUME IInv, Recovery
  PROVE  IInv'
  BY ReadEndPreserves, GiveUpPreserves, RowPreserves, AdmitPreserves, PopTailPreserves,
     TailPreserves DEF Recovery

----------------------------------------------------------------------------
(* The socket's turn and the client.                                       *)

\* A step that leaves the log, its publication and the recovery alone.
LEMMA SeamUntouched ==
  ASSUME IInv, UNCHANGED <<log, unpublished, replay, backfill, admitted>>
  PROVE  /\ TaskInv' /\ SeamInv' /\ Opens' = Opens /\ Closes' = Closes
  <1>1. TaskInv'
    BY DEF IInv, TaskInv, Active, Reading
  <1>2. SeamInv'
    BY DEF IInv, SeamInv, Reading, Duplicate
  <1>3. Opens' = Opens /\ Closes' = Closes
    BY DEF Opens, Closes, Opened, Closed
  <1> QED BY <1>1, <1>2, <1>3

\* A frame goes out only into a generation that is ready, behind no notice.
LEMMA FlushPreserves ==
  ASSUME IInv, Flush
  PROVE  IInv'
  <1> DEFINE f == EventFrame(Head(queue))
  <1>1. /\ ready /\ queue # <<>> /\ InFlight < Window
        /\ wire' = Append(wire, f) /\ queue' = Tail(queue)
        /\ UNCHANGED <<log, unpublished, up, generation, ready, replay, backfill, admitted, ticket,
                       readySent, lastSeen, persisted, domain, hydrated, retained, sessions>>
    BY DEF Flush, callVars, storeVars
  <1>2. /\ queue \in Seq(Nat) /\ queue' \in Seq(Nat) /\ Len(queue) \in Nat
        /\ Len(queue') = Len(queue) - 1 /\ Range(queue') \subseteq Range(queue)
        /\ Head(queue) \in 1..Len(log) /\ Len(log) \in Nat
    BY <1>1, TailFacts DEF IInv, ShapeInv
  <1>3. f \in Frames /\ f.kind = "event" /\ f.id \in 1..Len(log)
    BY <1>2 DEF EventFrame, Frames
  <1> HIDE DEF f
  <1>4. /\ wire \in Seq(Frames) /\ wire' \in Seq(Frames) /\ Len(wire) \in Nat
        /\ \A k \in 1..Len(wire) : wire'[k] = wire[k]
        /\ wire'[Len(wire) + 1] = f
        /\ 1..Len(wire') = 1..Len(wire) \cup {Len(wire) + 1}
    BY <1>1, <1>3, WireFacts DEF IInv, ShapeInv
  <1>5. TaskInv' /\ SeamInv' /\ Opens' = Opens /\ Closes' = Closes
    BY <1>1, SeamUntouched
  <1>6. ShapeInv'
    <2>1. \A k \in 1..Len(wire') : wire'[k].kind = "event" => wire'[k].id \in 1..Len(log')
      BY <1>1, <1>3, <1>4 DEF IInv, ShapeInv
    <2> QED BY <1>1, <1>2, <1>4, <1>5, <2>1 DEF IInv, ShapeInv
  <1>7. BoundInv'
    <2>1. InFlight = Cardinality(EventsOf(wire)) /\ InFlight' = Cardinality(EventsOf(wire'))
      BY DEF InFlight, EventsOf
    <2>2. InFlight \in Nat /\ InFlight' = InFlight + 1
      BY <1>1, <1>3, <1>4, <2>1, EventCount
    <2>3. InFlight' <= Window
      BY <1>1, <2>2, SyncFeedAssumption
    <2> QED BY <1>1, <1>2, <2>3, SyncFeedAssumption DEF IInv, BoundInv
  <1>8. FlagInv'
    BY <1>1 DEF IInv, FlagInv
  <1>9. DomainInv'
    <2>1. up /\ hydrated /\ \A k \in 1..Len(wire) : ~IsControl(k)
      BY <1>1 DEF IInv, DomainInv
    <2>2. \A k \in 1..Len(wire') : ~IsControl(k)'
      BY <1>3, <1>4, <2>1 DEF IsControl
    <2> QED BY <1>1, <2>1, <2>2 DEF IInv, DomainInv
  <1> QED BY <1>5, <1>6, <1>7, <1>8, <1>9 DEF IInv

\* An answer makes the generation ready only if it is the last one announced,
\* and then the client has handled every notice.
LEMMA DomainReadyPreserves ==
  ASSUME IInv, HandleDomainReady
  PROVE  IInv'
  <1>1. /\ readySent # 0 /\ readySent' = 0 /\ (ready' <=> ready \/ readySent = generation)
        /\ UNCHANGED <<log, unpublished, up, generation, queue, wire, replay, backfill, admitted,
                       ticket, lastSeen, persisted, domain, hydrated, retained, sessions>>
    BY DEF HandleDomainReady, storeVars
  <1>2. ready' \in BOOLEAN
    BY Zenon DEF HandleDomainReady
  <1>3. TaskInv' /\ SeamInv' /\ Opens' = Opens /\ Closes' = Closes
    BY <1>1, SeamUntouched
  <1>4. ShapeInv'
    BY <1>1, <1>3 DEF IInv, ShapeInv
  <1>5. BoundInv' /\ FlagInv'
    BY <1>1, <1>2 DEF IInv, BoundInv, FlagInv, InFlight
  <1>6. DomainInv'
    <2>1. up /\ readySent \in Nat /\ generation \in Nat
          /\ \A k \in 1..Len(wire) : wire[k].generation \in Nat
      BY <1>1, WireFacts DEF IInv, DomainInv, ShapeInv
    <2>2. ready' => hydrated /\ \A k \in 1..Len(wire) : ~IsControl(k)
      BY <1>1, <2>1 DEF IInv, DomainInv
    <2> QED BY <1>1, <2>1, <2>2, SMTT(30) DEF IInv, DomainInv, IsControl
  <1> QED BY <1>3, <1>4, <1>5, <1>6 DEF IInv

\* A rejected token: the queue goes, and the recovery goes on.
LEMMA TokenPreserves ==
  ASSUME IInv, RejectToken
  PROVE  IInv'
  <1>1. /\ readySent # 0 /\ readySent' = 0 /\ generation' = generation + 1 /\ queue' = <<>>
        /\ ~ready /\ wire' = Append(wire, Control("reset", generation + 1))
        /\ UNCHANGED <<log, unpublished, up, ready, replay, backfill, admitted, ticket, lastSeen,
                       persisted, domain, hydrated, retained, sessions>>
    BY DEF RejectToken, storeVars
  <1>2. up /\ ready' = FALSE /\ ready' \in BOOLEAN
    BY <1>1, Zenon DEF IInv, DomainInv, FlagInv
  <1>3. /\ DomainInv' /\ InFlight' = InFlight /\ wire' \in Seq(Frames)
        /\ \A k \in 1..Len(wire') : wire'[k].kind = "event" => wire'[k].id \in 1..Len(log')
        /\ generation' \in Nat /\ readySent' \in Nat /\ Opens' = Opens /\ Closes' = Closes
    BY <1>1, <1>2, NoticeFacts
  <1>4. TaskInv' /\ SeamInv'
    BY <1>1, SeamUntouched
  <1>5. ShapeInv'
    BY <1>1, <1>3, RangeFacts DEF IInv, ShapeInv
  <1>6. BoundInv' /\ FlagInv'
    BY <1>1, <1>2, <1>3, SyncFeedAssumption DEF IInv, BoundInv, FlagInv
  <1> QED BY <1>3, <1>4, <1>5, <1>6 DEF IInv

\* A socket opens with its first generation announced and nothing else.
LEMMA DialPreserves ==
  ASSUME IInv, Dial
  PROVE  IInv'
  <1> DEFINE f == Control("subscribed", 1)
  <1>1. /\ ~up /\ up' /\ generation' = 1 /\ wire' = <<f>>
        /\ replay' = [IdleReplay EXCEPT !.cutoff = lastSeen, !.recovering = lastSeen > 0]
        /\ backfill' = IF lastSeen = 0 THEN NoBackfill
                       ELSE [NoBackfill EXCEPT !.at = "start", !.since = lastSeen,
                                               !.cursor = lastSeen]
        /\ UNCHANGED <<log, unpublished, ready, queue, admitted, ticket, readySent, lastSeen,
                       persisted, domain, hydrated, retained, sessions>>
    BY DEF Dial, callVars, storeVars
  <1>2. /\ ~ready /\ queue = <<>> /\ admitted = <<>> /\ ticket = NoTicket /\ readySent = 0
        /\ retained = <<>> /\ lastSeen \in Nat
    BY <1>1 DEF IInv, DomainInv, ShapeInv
  <1>3. /\ f \in Frames /\ f.kind # "event" /\ f.generation = 1
    BY DEF Control, Frames
  <1> HIDE DEF f
  <1>4. wire' \in Seq(Frames) /\ Len(wire') = 1 /\ wire'[1] = f
    BY <1>1, <1>3
  <1>5. /\ replay' \in Replays /\ replay'.held = {} /\ replay'.boundary = {} /\ ~replay'.aborted
        /\ (replay'.recovering <=> lastSeen > 0)
    <2> DEFINE b == lastSeen > 0
    <2>1. replay' = [IdleReplay EXCEPT !.cutoff = lastSeen, !.recovering = b]
      BY <1>1
    <2>2. b \in BOOLEAN
      BY <1>2
    <2>3. b <=> lastSeen > 0
      OBVIOUS
    <2> HIDE DEF b
    <2>4. /\ replay' \in Replays /\ replay'.held = {} /\ replay'.boundary = {}
          /\ replay'.aborted = FALSE /\ replay'.recovering = b
      BY <1>2, <2>1, <2>2 DEF IdleReplay, Replays
    <2> QED BY <2>3, <2>4
  <1>6. /\ backfill' \in Backfills /\ backfill'.cursor = backfill'.since
        /\ backfill'.at = IF lastSeen = 0 THEN "none" ELSE "start"
    BY <1>1, <1>2 DEF NoBackfill, Backfills
  <1>7. Opens' = Opens /\ Closes' = Closes
    BY <1>1 DEF Opens, Closes, Opened, Closed
  <1>8. ShapeInv'
    <2>1. \A k \in 1..Len(wire') : wire'[k].kind = "event" => wire'[k].id \in 1..Len(log')
      BY <1>3, <1>4
    <2> QED BY <1>1, <1>4, <1>5, <1>6, <1>7, <2>1 DEF IInv, ShapeInv
  <1>9. BoundInv'
    <2>1. EventsOf(wire') = {} /\ Cardinality({}) = 0
      BY <1>1, <1>3, <1>4, FS_EmptySet DEF EventsOf
    <2>2. InFlight' = 0
      BY <2>1 DEF InFlight, EventsOf
    <2>3. Len(queue') <= QueueMax
      BY <1>1 DEF IInv, BoundInv
    <2> QED BY <1>5, <2>1, <2>2, <2>3, SyncFeedAssumption DEF BoundInv
  <1>10. FlagInv'
    <2>1. up' \in BOOLEAN
      BY Zenon DEF Dial
    <2> QED BY <1>1, <2>1 DEF IInv, FlagInv
  <1>11. DomainInv'
    BY <1>1, <1>2, <1>3, <1>4 DEF DomainInv, IsControl, NoTicket
  <1>12. TaskInv'
    BY <1>2, <1>5, <1>6 DEF TaskInv, Active, Reading
  <1>13. SeamInv'
    BY <1>1, <1>2, <1>5, <1>6, RangeFacts DEF SeamInv, Reading
  <1> QED BY <1>8, <1>9, <1>10, <1>11, <1>12, <1>13 DEF IInv

\* The client handles a notice: the events behind it are not ready yet, and
\* every other frame on the wire is a later notice.
LEMMA ReceiveControlPreserves ==
  ASSUME IInv, ReceiveControl
  PROVE  IInv'
  <1> DEFINE g == Head(wire).generation
  <1>1. /\ wire # <<>> /\ Head(wire).kind # "event" /\ wire' = Tail(wire)
        /\ domain' = g /\ hydrated' = FALSE /\ ticket' = [at |-> "asked", read |-> 0]
        /\ lastSeen' = IF Head(wire).kind = "cursor_ahead" THEN 0 ELSE lastSeen
        /\ UNCHANGED <<log, unpublished, up, generation, ready, queue, replay, backfill, admitted,
                       persisted, retained, readySent, sessions>>
    BY DEF ReceiveControl, NewGeneration
  <1>2. wire \in Seq(Frames)
    BY DEF IInv, ShapeInv
  <1>3. /\ wire' \in Seq(Frames) /\ Len(wire) \in Nat /\ Len(wire) >= 1 /\ Len(wire') = Len(wire) - 1
        /\ \A k \in 1..Len(wire') : wire'[k] = wire[k + 1] /\ k + 1 \in 1..Len(wire)
        /\ Head(wire) = wire[1]
    BY <1>1, <1>2, TailFacts
  <1>4. g \in Nat /\ \A k \in 1..Len(wire) : wire[k].generation \in Nat
    BY <1>2, <1>3, WireFacts
  <1>5. TaskInv' /\ SeamInv' /\ Opens' = Opens /\ Closes' = Closes
    BY <1>1, SeamUntouched
  <1>6. 1 \in 1..Len(wire) /\ IsControl(1) /\ wire[1].generation = g
    BY <1>1, <1>3 DEF IsControl
  <1> HIDE DEF g
  <1>7. ShapeInv'
    <2>1. \A k \in 1..Len(wire') : wire'[k].kind = "event" => wire'[k].id \in 1..Len(log')
      BY <1>1, <1>3 DEF IInv, ShapeInv
    <2>2. ticket' \in Tickets
      BY <1>1 DEF Tickets
    <2>3. lastSeen' \in Nat
      BY <1>1 DEF IInv, ShapeInv
    <2>4. /\ domain' \in Nat
          /\ UNCHANGED <<log, unpublished, generation, queue, replay, backfill, admitted, persisted,
                         readySent, sessions>>
      BY <1>1, <1>4
    <2> QED BY <1>3, <1>5, <2>1, <2>2, <2>3, <2>4 DEF IInv, ShapeInv
  <1>8. BoundInv'
    <2>1. InFlight = Cardinality(EventsOf(wire)) /\ InFlight' = Cardinality(EventsOf(wire'))
      BY DEF InFlight, EventsOf
    <2>2. InFlight \in Nat /\ InFlight' \in Nat /\ InFlight' <= InFlight
      BY <1>1, <1>2, <1>3, <2>1, EventCount
    <2>3. UNCHANGED <<queue, replay>>
      BY <1>1
    <2> QED BY <2>2, <2>3, SyncFeedAssumption DEF IInv, BoundInv
  <1>9. FlagInv'
    BY <1>1 DEF IInv, FlagInv
  <1>10. DomainInv'
    <2>1. /\ up /\ ~ready /\ retained = <<>> /\ g <= generation
          /\ \A k \in 1..Len(wire) : 1 < k => IsControl(k) /\ g < wire[k].generation
      BY <1>1, <1>6 DEF IInv, DomainInv
    <2>2. \A k \in 1..Len(wire') : IsControl(k)' /\ wire'[k].generation = wire[k + 1].generation
      BY <1>3, <2>1 DEF IsControl
    <2>3. \A k \in 1..Len(wire') :
             /\ wire[k + 1].generation <= generation
             /\ g < wire[k + 1].generation
             /\ readySent # 0 => readySent < wire[k + 1].generation
      BY <1>3, <2>1, <2>2 DEF IInv, DomainInv, IsControl
    <2>4. \A j, k \in 1..Len(wire') : j < k => wire[j + 1].generation < wire[k + 1].generation
      <3>1. \A j, k \in 1..Len(wire') : j < k => j + 1 < k + 1 /\ IsControl(j + 1)
        BY <1>3, <2>1
      <3> QED BY <1>3, <3>1 DEF IInv, DomainInv
    <2>5. readySent # 0 => readySent <= generation /\ readySent # generation
      BY <1>4, <1>6, <2>1 DEF IInv, DomainInv, ShapeInv
    <2>6. wire' # <<>> => IsControl(1)'
      BY <1>3, <2>2
    <2>7. UNCHANGED <<up, generation, ready, retained, readySent>> /\ domain' = g
      BY <1>1
    <2> QED BY <2>1, <2>2, <2>3, <2>4, <2>5, <2>6, <2>7 DEF DomainInv
  <1> QED BY <1>5, <1>7, <1>8, <1>9, <1>10 DEF IInv

\* An event at the head of the wire finds the client hydrated.
LEMMA ReceiveEventPreserves ==
  ASSUME IInv, ReceiveEvent
  PROVE  IInv'
  <1> DEFINE i == Head(wire).id
  <1>1. /\ wire # <<>> /\ Head(wire).kind = "event" /\ wire' = Tail(wire)
        /\ UNCHANGED <<log, unpublished, up, generation, ready, queue, replay, backfill, admitted,
                       persisted, domain, hydrated, ticket, readySent>>
    BY DEF ReceiveEvent, callVars
  <1>2. wire \in Seq(Frames)
    BY DEF IInv, ShapeInv
  <1>3. /\ wire' \in Seq(Frames) /\ Len(wire) \in Nat /\ Len(wire) >= 1 /\ Len(wire') = Len(wire) - 1
        /\ \A k \in 1..Len(wire') : wire'[k] = wire[k + 1] /\ k + 1 \in 1..Len(wire)
        /\ Head(wire) = wire[1]
    BY <1>1, <1>2, TailFacts
  <1>4. /\ 1 \in 1..Len(wire) /\ ~IsControl(1) /\ i \in 1..Len(log) /\ hydrated
    BY <1>1, <1>3 DEF IInv, ShapeInv, DomainInv, IsControl
  <1>5. /\ sessions' = Fold(sessions, i) /\ lastSeen' = Max({lastSeen, i}) /\ retained' = retained
    BY <1>4 DEF ReceiveEvent
  <1>6. TaskInv' /\ SeamInv' /\ Opens' = Opens /\ Closes' = Closes
    BY <1>1, SeamUntouched
  <1> HIDE DEF i
  <1>7. lastSeen' \in Nat
    <2>1. lastSeen \in Nat /\ i \in Nat
      BY <1>4 DEF IInv, ShapeInv
    <2>2. {lastSeen, i} \in SUBSET Nat /\ {lastSeen, i} # {} /\ lastSeen + i \in Nat
          /\ \A x \in {lastSeen, i} : x <= lastSeen + i
      BY <2>1
    <2>3. Max({lastSeen, i}) \in {lastSeen, i}
      BY <2>2, MaxOf
    <2> QED BY <1>5, <2>1, <2>3
  <1>8. sessions' \subseteq Sessions
    <2>1. log[i] \in Events /\ sessions \subseteq Sessions
      BY <1>4 DEF IInv, ShapeInv
    <2>2. log[i].session \in Sessions
      BY <2>1 DEF Events
    <2> QED BY <1>5, <2>1, <2>2 DEF Fold
  <1>9. ShapeInv'
    <2>1. \A k \in 1..Len(wire') : wire'[k].kind = "event" => wire'[k].id \in 1..Len(log')
      BY <1>1, <1>3 DEF IInv, ShapeInv
    <2> QED BY <1>1, <1>3, <1>6, <1>7, <1>8, <2>1 DEF IInv, ShapeInv
  <1>10. BoundInv'
    <2>1. InFlight = Cardinality(EventsOf(wire)) /\ InFlight' = Cardinality(EventsOf(wire'))
      BY DEF InFlight, EventsOf
    <2>2. InFlight \in Nat /\ InFlight' \in Nat /\ InFlight' <= InFlight
      BY <1>1, <1>2, <1>3, <2>1, EventCount
    <2>3. UNCHANGED <<queue, replay>>
      BY <1>1
    <2> QED BY <2>2, <2>3, SyncFeedAssumption DEF IInv, BoundInv
  <1>11. FlagInv'
    BY <1>1 DEF IInv, FlagInv
  <1>12. DomainInv'
    <2>1. \A k \in 1..Len(wire') :
             (IsControl(k)' <=> IsControl(k + 1)) /\ wire'[k].generation = wire[k + 1].generation
      BY <1>3 DEF IsControl
    <2>2. \A j, k \in 1..Len(wire') : j < k => j + 1 < k + 1
      BY <1>3
    <2>3. \A j, k \in 1..Len(wire') :
             j < k /\ IsControl(j)' => IsControl(k)' /\ wire'[j].generation < wire'[k].generation
      BY <1>3, <2>1, <2>2 DEF IInv, DomainInv
    <2>4. up
      BY <1>1 DEF IInv, DomainInv
    <2> QED BY <1>1, <1>3, <1>4, <1>5, <2>1, <2>3, <2>4 DEF IInv, DomainInv
  <1> QED BY <1>6, <1>9, <1>10, <1>11, <1>12 DEF IInv

\* The call for the session list is answered, or made again.
LEMMA TicketPreserves ==
  ASSUME IInv, ReadList \/ HydrationFails
  PROVE  IInv'
  <1>1. /\ ticket.at # "none"
        /\ \/ ticket' = [at |-> "answered", read |-> Len(log)]
           \/ ticket' = [at |-> "asked", read |-> 0]
        /\ UNCHANGED <<log, unpublished, up, generation, ready, queue, wire, replay, backfill,
                       admitted, readySent, lastSeen, persisted, domain, hydrated, retained, sessions>>
    BY DEF ReadList, HydrationFails, serverVars, storeVars
  <1>2. TaskInv' /\ SeamInv' /\ Opens' = Opens /\ Closes' = Closes
    BY <1>1, SeamUntouched
  <1>3. ShapeInv'
    <2>1. Len(log) \in Nat
      BY DEF IInv, ShapeInv
    <2>2. ticket' \in Tickets
      BY <1>1, <2>1 DEF Tickets
    <2> QED BY <1>1, <1>2, <2>2 DEF IInv, ShapeInv
  <1>4. BoundInv' /\ FlagInv'
    BY <1>1 DEF IInv, BoundInv, FlagInv, InFlight
  <1>5. DomainInv'
    <2>1. up
      BY <1>1 DEF IInv, DomainInv, NoTicket
    <2> QED BY <1>1, <2>1 DEF IInv, DomainInv, IsControl
  <1> QED BY <1>2, <1>3, <1>4, <1>5 DEF IInv

\* The snapshot is in, and the answer names the generation it is of.
LEMMA SettlePreserves ==
  ASSUME IInv, SettleHydration
  PROVE  IInv'
  <1>1. /\ ticket.at = "answered" /\ retained' = <<>> /\ hydrated' = TRUE /\ readySent' = domain
        /\ ticket' = NoTicket
        /\ sessions' = FoldAll(ListAt(ticket.read), retained)
        /\ lastSeen' = Max({lastSeen} \cup Range(retained))
        /\ UNCHANGED <<log, unpublished, up, generation, ready, queue, wire, replay, backfill,
                       admitted, persisted, domain>>
    BY DEF SettleHydration, serverVars
  <1>2. retained = <<>> /\ up
    BY <1>1 DEF IInv, DomainInv, NoTicket
  <1>3. TaskInv' /\ SeamInv' /\ Opens' = Opens /\ Closes' = Closes
    BY <1>1, SeamUntouched
  <1>4. lastSeen' \in Nat
    <2>1. lastSeen \in Nat
      BY DEF IInv, ShapeInv
    <2>2. {lastSeen} \in SUBSET Nat /\ {lastSeen} # {} /\ \A x \in {lastSeen} : x <= lastSeen
      BY <2>1
    <2>3. Max({lastSeen}) \in {lastSeen}
      BY <2>1, <2>2, MaxOf
    <2>4. {lastSeen} \cup Range(retained) = {lastSeen}
      BY <1>2, RangeFacts
    <2> QED BY <1>1, <2>1, <2>3, <2>4
  <1>5. sessions' \subseteq Sessions
    <2>1. sessions' = ListAt(ticket.read)
      BY <1>1, <1>2, FoldNone
    <2> QED BY <2>1 DEF ListAt, Opened
  <1>6. ShapeInv'
    BY <1>1, <1>3, <1>4, <1>5, IdleTypes DEF IInv, ShapeInv
  <1>7. BoundInv' /\ FlagInv'
    BY <1>1 DEF IInv, BoundInv, FlagInv, InFlight
  <1>8. DomainInv'
    BY <1>1, <1>2 DEF IInv, DomainInv, IsControl, NoTicket
  <1> QED BY <1>3, <1>6, <1>7, <1>8 DEF IInv

\* The cursor goes to storage.
LEMMA SweepPreserves ==
  ASSUME IInv, SweepCursor
  PROVE  IInv'
  <1>1. /\ persisted' = lastSeen
        /\ UNCHANGED <<log, unpublished, up, generation, ready, queue, wire, replay, backfill,
                       admitted, ticket, readySent, lastSeen, domain, hydrated, retained, sessions>>
    BY DEF SweepCursor, serverVars, callVars
  <1>2. TaskInv' /\ SeamInv' /\ Opens' = Opens /\ Closes' = Closes
    BY <1>1, SeamUntouched
  <1>3. ShapeInv'
    BY <1>1, <1>2 DEF IInv, ShapeInv
  <1>4. BoundInv' /\ FlagInv'
    BY <1>1 DEF IInv, BoundInv, FlagInv, InFlight
  <1>5. DomainInv'
    BY <1>1, DomainUntouched DEF IInv
  <1> QED BY <1>2, <1>3, <1>4, <1>5 DEF IInv

\* A lost link, a crash of the coordinator and a reload of the page.
LEMMA LossPreserves ==
  ASSUME IInv, Drop \/ Crash \/ Reload
  PROVE  IInv'
  <1>1. /\ Close /\ UNCHANGED <<log, persisted>> /\ unpublished' \subseteq unpublished
        /\ \/ UNCHANGED <<lastSeen, domain, hydrated, retained, sessions>>
           \/ /\ lastSeen' = persisted /\ domain' = 0 /\ hydrated' = FALSE
              /\ retained' = <<>> /\ sessions' = {}
    BY DEF Drop, Crash, Reload, storeVars
  <1>2. /\ retained' = <<>> /\ lastSeen' \in Nat /\ domain' \in Nat /\ sessions' \subseteq Sessions
    <2>1. /\ retained = <<>> /\ lastSeen \in Nat /\ persisted \in Nat /\ domain \in Nat
          /\ sessions \subseteq Sessions
      BY DEF IInv, ShapeInv, DomainInv
    <2> QED BY <1>1, <2>1
  <1>3. hydrated' \in BOOLEAN
    BY <1>1 DEF IInv, FlagInv
  <1> QED BY <1>1, <1>2, <1>3, ClosePreserves

\* Every step keeps the invariant.
LEMMA NextPreserves ==
  ASSUME IInv, [Next]_vars
  PROVE  IInv'
  <1>1. CASE \E e \in Events : Commit(e)
    BY <1>1, CommitPreserves
  <1>2. CASE \E i \in unpublished : Route(i) \/ Unpublish(i)
    <2>1. ASSUME NEW i \in unpublished, Unpublish(i) PROVE IInv'
      BY <2>1, PublishOnly DEF Unpublish, serverVars, callVars, storeVars
    <2> QED BY <1>2, <2>1, RoutePreserves
  <1>3. CASE Recovery
    BY <1>3, RecoveryPreserves
  <1>4. CASE Socket
    BY <1>4, FlushPreserves, DomainReadyPreserves, TokenPreserves, DialPreserves DEF Socket
  <1>5. CASE Client
    BY <1>5, ReceiveControlPreserves, ReceiveEventPreserves, TicketPreserves, SettlePreserves,
       SweepPreserves DEF Client
  <1>6. CASE Drop \/ Crash \/ Reload
    BY <1>6, LossPreserves
  <1>7. CASE UNCHANGED vars
    <2>1. UNCHANGED <<log, unpublished, up, generation, ready, queue, wire, replay, backfill,
                      admitted, ticket, readySent, lastSeen, persisted, domain, hydrated, retained,
                      sessions>>
      BY <1>7 DEF vars, serverVars, callVars, storeVars
    <2> QED BY <2>1, PublishOnly
  <1> QED BY <1>1, <1>2, <1>3, <1>4, <1>5, <1>6, <1>7 DEF Next

----------------------------------------------------------------------------
(* The theorems.                                                           *)

\* The invariant holds in every state the socket and the client reach.
THEOREM Invariance == Spec => []IInv
  BY InitEstablishes, NextPreserves, PTL DEF Spec

\* What is under way stays in its types, and the queue, the hold and the
\* window of the socket (admission.rs, session_replay.rs) in their bounds.
THEOREM TypeCorrect == Spec => []TypeOK
  <1>1. IInv => TypeOK
    <2> SUFFICES ASSUME IInv PROVE TypeOK
      OBVIOUS
    <2> DEFINE n == Len(log)
    <2>1. n \in Nat /\ n <= 2 * Cardinality(Sessions) /\ Cardinality(Sessions) \in Nat
      <3>1. Opens \in SUBSET Sessions /\ Closes \in SUBSET Sessions
        BY DEF Opens, Closes, Opened, Closed
      <3>2. /\ IsFiniteSet(Opens) /\ IsFiniteSet(Closes)
            /\ Cardinality(Opens) <= Cardinality(Sessions)
            /\ Cardinality(Closes) <= Cardinality(Sessions)
        BY <3>1, FS_Subset, SyncFeedAssumption
      <3>3. /\ Cardinality(Opens) \in Nat /\ Cardinality(Closes) \in Nat
            /\ Cardinality(Sessions) \in Nat
        BY <3>2, FS_CardinalityType, SyncFeedAssumption
      <3>4. n = Cardinality(Opens) + Cardinality(Closes)
        BY DEF IInv, ShapeInv
      <3> QED BY <3>2, <3>3, <3>4
    <2>2. 1..n \subseteq Ids
      BY <2>1 DEF Ids
    <2> HIDE DEF n
    <2>3. queue \in Seq(Ids)
      <3>1. queue \in Seq(Nat) /\ \A k \in 1..Len(queue) : queue[k] \in Range(queue)
        BY DEF IInv, ShapeInv, Range
      <3>2. \A k \in 1..Len(queue) : queue[k] \in Ids
        BY <2>2, <3>1 DEF n, IInv, ShapeInv
      <3> QED BY <3>1, <3>2
    <2>4. Range(retained) \cup Range(admitted) \subseteq Ids
      BY <2>2, RangeFacts DEF n, IInv, ShapeInv, DomainInv
    <2> QED BY <2>1, <2>3, <2>4 DEF n, IInv, ShapeInv, BoundInv, FlagInv, TypeOK
  <1> QED BY <1>1, Invariance, PTL

\* Whatever overlaps of the log, the held events and the live feed, no id is
\* queued twice between resets, and a recovery that ends has queued its whole
\* interval (backfill.rs, recover_through_cutoff).
THEOREM SeamIsExact == Spec => []SeamExact
  <1>1. IInv => SeamExact
    <2> SUFFICES ASSUME IInv PROVE SeamExact
      OBVIOUS
    <2>1. backfill.since \in Nat /\ backfill.target \in Nat
      BY DEF IInv, ShapeInv, Backfills
    <2>2. \A i \in backfill.since + 1 .. backfill.target :
             i \in Nat /\ backfill.since < i /\ i <= backfill.target
      BY <2>1
    <2> QED BY <2>2 DEF IInv, SeamInv, SeamExact
  <1> QED BY <1>1, Invariance, PTL

\* No event reaches a client that lacks the snapshot of the generation it is
\* of: what handle_sync.rs keeps for later stays empty.
THEOREM HydratedFirst == Spec => []NoFrameBeforeHydration
  <1>1. IInv => NoFrameBeforeHydration
    BY DEF IInv, DomainInv, NoFrameBeforeHydration
  <1> QED BY <1>1, Invariance, PTL

=============================================================================
