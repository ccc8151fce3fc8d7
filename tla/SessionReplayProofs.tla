------------------------ MODULE SessionReplayProofs ------------------------
(***************************************************************************)
(* Proofs about the replay of session events, for any sessions, metadata   *)
(* and number of connections.  The inductive invariant follows a session   *)
(* from its opened row to its closed row: what the outbox still holds of   *)
(* it, what the coordinator's log has of it, and that nobody names a       *)
(* session the log has not seen.                                           *)
(***************************************************************************)
EXTENDS SessionReplay, TLAPS

Kinds == {"opened", "closed", "attached", "folder"}
Rowset == [id : Nat \ {0}, kind : Kinds, session : Sessions]

\* The rows of the outbox, and whether it has one of a kind for a session.
Held == {outbox[i] : i \in 1..Len(outbox)}
Queued(kind, s) == \E x \in Held : x.kind = kind /\ x.session = s

\* The sessions the coordinator's log has an opened or a closed event for.
Known == open \cup tombs

\* Row numbers are given once, and a row under way is there.
RowInv ==
    /\ emitted \in Nat
    /\ outbox \in Seq(Rowset)
    /\ \A i, j \in 1..Len(outbox) : outbox[i].id = outbox[j].id => i = j
    /\ \A x \in Held : x.id <= emitted
    /\ sent # "none" => outbox # <<>>
    /\ meta \subseteq [session : Sessions, kind : {"attached", "folder"}, done : BOOLEAN]
    /\ snapshot \in [at : {"none", "built", "sent", "acked"}, names : SUBSET Sessions]

\* A session is known from the commit of its opened row on, and not before:
\* the row is written once, an acknowledged one has been committed, and
\* whatever else names a session names a known one.
OpenInv ==
    /\ \A x \in Held : x.kind = "opened" => (x.session \in Known <=> x.id \in committed)
    /\ \A x, y \in Held :
          x.kind = "opened" /\ y.kind = "opened" /\ x.session = y.session => x = y
    /\ sent = "acked" /\ Head(outbox).kind = "opened" => Head(outbox).session \in Known
    /\ \A s \in Sessions :
          stage[s] \in {"none", "reserved"} => s \notin Known /\ ~Queued("opened", s)
    /\ \A s \in Sessions :
          stage[s] \in {"opened", "held", "live"} => s \in Known \/ Queued("opened", s)
    /\ snapshot.names \subseteq Known
    /\ \A names \in stale : names \subseteq Known
    /\ reaps \subseteq Known

\* A session that is gone has its tombstone, or the row that will be one, or
\* was never opened.
CloseInv ==
    /\ open \cap tombs = {}
    /\ \A x \in Held : x.kind = "closed" /\ x.id \in committed => x.session \in tombs
    /\ sent = "acked" /\ Head(outbox).kind = "closed" => Head(outbox).session \in tombs
    /\ \A s \in Sessions :
          stage[s] = "gone" =>
             \/ s \in tombs
             \/ Queued("closed", s)
             \/ s \notin Known /\ ~Queued("opened", s)

IInv ==
    /\ TypeOK
    /\ RowInv
    /\ OpenInv
    /\ CloseInv

----------------------------------------------------------------------------

\* A row at the end leaves the others in their places.
LEMMA AppendFacts ==
  ASSUME NEW S, NEW q \in Seq(S), NEW e \in S
  PROVE  /\ Append(q, e) \in Seq(S) /\ Len(Append(q, e)) = Len(q) + 1
         /\ \A i \in 1..Len(q) : Append(q, e)[i] = q[i]
         /\ Append(q, e)[Len(q) + 1] = e
         /\ Append(q, e) # <<>>
         /\ q # <<>> => Head(Append(q, e)) = Head(q)
  <1>1. /\ Append(q, e) \in Seq(S) /\ Len(Append(q, e)) = Len(q) + 1
        /\ \A i \in 1..Len(q) : Append(q, e)[i] = q[i]
        /\ Append(q, e)[Len(q) + 1] = e
    OBVIOUS
  <1>2. Append(q, e) # <<>>
    BY <1>1
  <1>3. \A p \in Seq(S) : p # <<>> => Head(p) = p[1] /\ 1 \in 1..Len(p)
    OBVIOUS
  <1> QED BY <1>1, <1>2, <1>3

\* The first row leaves, the others move up.
LEMMA TailFacts ==
  ASSUME NEW S, NEW q \in Seq(S), q # <<>>
  PROVE  /\ Tail(q) \in Seq(S) /\ Len(q) \in Nat /\ Len(q) >= 1 /\ Len(Tail(q)) = Len(q) - 1
         /\ \A i \in 1..Len(Tail(q)) : Tail(q)[i] = q[i + 1]
         /\ Head(q) = q[1]
  OBVIOUS

\* Nothing was emitted at the start, and the adopted sessions have their rows.
LEMMA InitEstablishes == Init => IInv
  <1> SUFFICES ASSUME Init PROVE IInv
    OBVIOUS
  <1> USE ReplayAssumption DEF Init
  <1>1. Held = {} /\ Known = Adopted
    BY DEF Held, Known
  <1>2. TypeOK
    <2>1. ready \in BOOLEAN
      BY Zenon
    <2>2. stage \in [Sessions -> Stages]
      BY DEF Stages
    <2> QED BY <2>1, <2>2 DEF TypeOK, NoSnapshot
  <1>3. RowInv
    BY <1>1 DEF RowInv, NoSnapshot
  <1>4. OpenInv
    BY <1>1 DEF OpenInv, NoSnapshot, Queued
  <1>5. CloseInv
    BY <1>1 DEF CloseInv
  <1> QED BY <1>2, <1>3, <1>4, <1>5 DEF IInv

\* What an emission does to the outbox: one row more, under a number nothing
\* has.
LEMMA EmitFacts ==
  ASSUME IInv, NEW kind \in Kinds, NEW s \in Sessions, Emit(kind, s)
  PROVE  /\ outbox' \in Seq(Rowset) /\ emitted' = emitted + 1 /\ emitted \in Nat
         /\ \A i, j \in 1..Len(outbox') : outbox'[i].id = outbox'[j].id => i = j
         /\ Held' = Held \cup {Row(kind, s)}
         /\ \A x \in Held : x \in Rowset /\ x.id <= emitted /\ x.id \in 1..emitted'
         /\ Row(kind, s) \in Rowset /\ Row(kind, s).id = emitted'
         /\ Row(kind, s).kind = kind /\ Row(kind, s).session = s
         /\ Row(kind, s).id \notin committed
         /\ outbox' # <<>> /\ (outbox # <<>> => Head(outbox') = Head(outbox))
  <1> DEFINE e == Row(kind, s)
  <1>1. /\ emitted \in Nat /\ outbox \in Seq(Rowset) /\ Len(outbox) \in Nat
        /\ outbox' = Append(outbox, e) /\ emitted' = emitted + 1
    BY DEF IInv, RowInv, Emit
  <1>2. e \in Rowset /\ e.id = emitted + 1 /\ e.kind = kind /\ e.session = s
    BY <1>1 DEF Row, Rowset
  <1> HIDE DEF e
  <1>3. /\ outbox' \in Seq(Rowset) /\ Len(outbox') = Len(outbox) + 1
        /\ \A i \in 1..Len(outbox) : outbox'[i] = outbox[i]
        /\ outbox'[Len(outbox) + 1] = e
        /\ outbox' # <<>> /\ (outbox # <<>> => Head(outbox') = Head(outbox))
    BY <1>1, <1>2, AppendFacts
  <1>4. \A i \in 1..Len(outbox) : outbox[i] \in Rowset /\ outbox[i].id <= emitted
    BY <1>1 DEF IInv, RowInv, Held
  <1>5. \A x \in Held : x \in Rowset /\ x.id <= emitted
    BY <1>4 DEF Held
  <1>6. \A i, j \in 1..Len(outbox') : outbox'[i].id = outbox'[j].id => i = j
    <2> SUFFICES ASSUME NEW i \in 1..Len(outbox'), NEW j \in 1..Len(outbox'),
                        outbox'[i].id = outbox'[j].id
                 PROVE  i = j
      OBVIOUS
    <2>1. CASE i \in 1..Len(outbox) /\ j \in 1..Len(outbox)
      BY <1>3, <2>1 DEF IInv, RowInv
    <2>2. CASE i = Len(outbox) + 1 /\ j \in 1..Len(outbox)
      BY <1>1, <1>2, <1>3, <1>4, <2>2 DEF Rowset
    <2>3. CASE j = Len(outbox) + 1 /\ i \in 1..Len(outbox)
      BY <1>1, <1>2, <1>3, <1>4, <2>3 DEF Rowset
    <2> QED BY <1>1, <1>3, <2>1, <2>2, <2>3
  <1>7. Held' = Held \cup {e}
    <2>1. 1..Len(outbox') = 1..Len(outbox) \cup {Len(outbox) + 1}
      BY <1>1, <1>3
    <2> QED BY <1>3, <2>1 DEF Held
  <1>8. e.id \notin committed
    BY <1>1, <1>2 DEF IInv, TypeOK
  <1>9. \A x \in Held : x.id \in 1..emitted'
    BY <1>1, <1>5 DEF Rowset
  <1> QED BY <1>1, <1>2, <1>3, <1>5, <1>6, <1>7, <1>8, <1>9 DEF e

\* What the coordinator and the link keep when a session's task steps.
LEMMA QuietFrame ==
  ASSUME UNCHANGED quiet
  PROVE  UNCHANGED <<meta, barrier, sent, snapshot, conns, open, tombs, committed, ready,
                     reaps, stale, disowned>>
  BY DEF quiet, linkVars, coordVars

\* The steps of a spawn or a close that write no row.
Moves == {<<"none", "reserved">>, <<"opened", "held">>, <<"held", "live">>,
          <<"reserved", "gone">>, <<"live", "closing">>, <<"closing", "lost">>}

\* A step of a spawn or a close that writes no row: a spawn that fails leaves
\* a session nobody has heard of.
LEMMA MovePreserves ==
  ASSUME IInv, NEW s \in Sessions, NEW from, NEW to, <<from, to>> \in Moves,
         Advance(s, from, to), UNCHANGED <<outbox, emitted, meta, linkVars>>,
         UNCHANGED <<open, tombs, committed, ready, stale, disowned>>, reaps' \subseteq reaps
  PROVE  IInv'
  <1>1. UNCHANGED <<outbox, emitted, meta, barrier, sent, snapshot, conns>>
    BY DEF linkVars
  <1>2. /\ from \in Stages /\ to \in Stages
        /\ \/ from = "none" /\ to = "reserved"
           \/ from = "opened" /\ to = "held"
           \/ from = "held" /\ to = "live"
           \/ from = "reserved" /\ to = "gone"
           \/ from = "live" /\ to = "closing"
           \/ from = "closing" /\ to = "lost"
    BY DEF Moves, Stages
  <1>3. /\ stage' \in [Sessions -> Stages] /\ stage[s] = from /\ stage'[s] = to
        /\ \A q \in Sessions : q # s => stage'[q] = stage[q]
    BY <1>2 DEF Advance, IInv, TypeOK
  <1>4. TypeOK' /\ RowInv'
    BY <1>1, <1>3 DEF IInv, TypeOK, RowInv, Held
  <1>5. Held' = Held /\ Known' = Known /\ \A k, q : Queued(k, q)' <=> Queued(k, q)
    BY <1>1 DEF Held, Known, Queued
  <1>6. OpenInv'
    BY <1>1, <1>2, <1>3, <1>5 DEF IInv, OpenInv, Queued
  <1>7. CloseInv'
    BY <1>1, <1>2, <1>3, <1>5 DEF IInv, OpenInv, CloseInv, Queued
  <1> QED BY <1>4, <1>6, <1>7 DEF IInv

\* A row is written: an opened row by a spawn that had none, a closed row by
\* the close that ends the session or by a reap, metadata by anyone.
LEMMA EmitPreserves ==
  ASSUME IInv, NEW kind \in Kinds, NEW s \in Sessions, Emit(kind, s),
         \/ kind = "opened" /\ Advance(s, "reserved", "opened")
         \/ kind = "closed" /\ Advance(s, "closing", "gone")
         \/ kind # "opened" /\ UNCHANGED stage,
         meta' \subseteq [session : Sessions, kind : {"attached", "folder"}, done : BOOLEAN],
         UNCHANGED <<linkVars, open, tombs, committed, ready, stale>>,
         reaps' \subseteq reaps, disowned' \subseteq Sessions
  PROVE  IInv'
  <1> DEFINE e == Row(kind, s)
  <1>1. UNCHANGED <<barrier, sent, snapshot, conns, open, tombs, committed, ready, stale>>
    BY DEF linkVars
  <1>2. /\ outbox' \in Seq(Rowset) /\ emitted' = emitted + 1 /\ emitted \in Nat
        /\ \A i, j \in 1..Len(outbox') : outbox'[i].id = outbox'[j].id => i = j
        /\ Held' = Held \cup {e}
        /\ \A x \in Held : x \in Rowset /\ x.id <= emitted /\ x.id \in 1..emitted'
        /\ e \in Rowset /\ e.id = emitted' /\ e.kind = kind /\ e.session = s
        /\ e.id \notin committed
        /\ outbox' # <<>> /\ (outbox # <<>> => Head(outbox') = Head(outbox))
    BY EmitFacts
  <1> HIDE DEF e
  <1>3. stage' \in [Sessions -> Stages]
    BY DEF Advance, IInv, TypeOK, Stages
  <1>4. /\ \A q \in Sessions : q # s => stage'[q] = stage[q]
        /\ kind = "opened" => stage[s] = "reserved" /\ stage'[s] = "opened"
        /\ kind # "opened" => \/ stage'[s] = stage[s]
                              \/ kind = "closed" /\ stage[s] = "closing" /\ stage'[s] = "gone"
    BY DEF Advance, IInv, TypeOK
  <1>5. RowInv'
    BY <1>1, <1>2 DEF IInv, RowInv, Rowset
  <1>6. TypeOK'
    <2>1. \A i \in 1..Len(outbox') : outbox'[i] \in Held'
      BY DEF Held
    <2>2. \A x \in Held' : x.id \in 1..emitted' /\ x.session \in Sessions
      BY <1>2 DEF Rowset
    <2>3. committed' \subseteq 1..emitted'
      BY <1>1, <1>2 DEF IInv, TypeOK
    <2>4. reaps' \subseteq Sessions
      BY DEF IInv, TypeOK
    <2> QED BY <1>1, <1>3, <2>1, <2>2, <2>3, <2>4 DEF IInv, TypeOK
  <1>7. /\ Known' = Known
        /\ \A k, q : Queued(k, q)' <=> Queued(k, q) \/ (k = kind /\ q = s)
    BY <1>1, <1>2 DEF Known, Queued
  <1>8. sent # "none" => Head(outbox') = Head(outbox)
    BY <1>2 DEF IInv, RowInv
  <1>9. OpenInv'
    <2>1. /\ \A x \in Held' : x.kind = "opened" => (x.session \in Known' <=> x.id \in committed')
          /\ \A x, y \in Held' :
                x.kind = "opened" /\ y.kind = "opened" /\ x.session = y.session => x = y
      BY <1>1, <1>2, <1>4, <1>7 DEF IInv, OpenInv, Queued
    <2>2. /\ \A q \in Sessions :
                stage'[q] \in {"none", "reserved"} => q \notin Known' /\ ~Queued("opened", q)'
          /\ \A q \in Sessions :
                stage'[q] \in {"opened", "held", "live"} => q \in Known' \/ Queued("opened", q)'
      BY <1>4, <1>7 DEF IInv, OpenInv
    <2> QED BY <1>1, <1>7, <1>8, <2>1, <2>2 DEF IInv, OpenInv
  <1>10. CloseInv'
    BY <1>1, <1>2, <1>4, <1>7, <1>8 DEF IInv, CloseInv
  <1> QED BY <1>5, <1>6, <1>9, <1>10 DEF IInv

\* A step of a session's task.
LEMMA SessionPreserves ==
  ASSUME IInv, NEW s \in Sessions, SessionStep(s)
  PROVE  IInv'
  <1>1. ASSUME UNCHANGED <<quiet, outbox, emitted>>, NEW from, NEW to, <<from, to>> \in Moves,
               Advance(s, from, to)
        PROVE  IInv'
    <2>1. UNCHANGED linkVars
      BY <1>1 DEF quiet
    <2> QED BY <1>1, <2>1, QuietFrame, MovePreserves
  <1>2. SpawnReserve(s) => IInv'
    BY <1>1 DEF SpawnReserve, Moves
  <1>3. SpawnHold(s) => IInv'
    BY <1>1 DEF SpawnHold, Moves
  <1>4. SpawnInsert(s) => IInv'
    BY <1>1 DEF SpawnInsert, Moves
  <1>5. SpawnFailed(s) => IInv'
    BY <1>1 DEF SpawnFailed, Moves
  <1>6. CloseForget(s) => IInv'
    BY <1>1 DEF CloseForget, Moves
  <1>7. CloseLost(s) => IInv'
    BY <1>1 DEF CloseLost, Moves
  <1>8. ASSUME SpawnOpened(s) \/ CloseEmit(s) PROVE IInv'
    <2>1. UNCHANGED quiet
      BY <1>8 DEF SpawnOpened, CloseEmit
    <2>2. /\ UNCHANGED <<linkVars, open, tombs, committed, ready, stale, reaps, disowned, meta>>
          /\ meta' \subseteq [session : Sessions, kind : {"attached", "folder"}, done : BOOLEAN]
          /\ disowned' \subseteq Sessions
      BY <2>1, QuietFrame DEF quiet, IInv, RowInv, TypeOK
    <2>3. \/ Emit("opened", s) /\ Advance(s, "reserved", "opened")
          \/ Emit("closed", s) /\ Advance(s, "closing", "gone")
      BY <1>8 DEF SpawnOpened, CloseEmit
    <2>4. "opened" \in Kinds /\ "closed" \in Kinds
      BY DEF Kinds
    <2> QED BY <2>2, <2>3, <2>4, EmitPreserves
  <1>9. ASSUME NEW k \in MetaKinds, MetaRead(s, k) PROVE IInv'
    <2>1. /\ UNCHANGED <<stage, outbox, emitted, barrier, sent, snapshot, conns, open, tombs,
                         committed, ready, reaps, stale, disowned>>
          /\ meta' = meta \cup {[session |-> s, kind |-> k, done |-> FALSE]}
      BY <1>9 DEF MetaRead, linkVars, coordVars
    <2>2. [session |-> s, kind |-> k, done |-> FALSE]
             \in [session : Sessions, kind : {"attached", "folder"}, done : BOOLEAN]
      BY ReplayAssumption
    <2>3. TypeOK' /\ RowInv'
      BY <2>1, <2>2 DEF IInv, TypeOK, RowInv, Held
    <2>4. OpenInv' /\ CloseInv'
      BY <2>1 DEF IInv, OpenInv, CloseInv, Held, Known, Queued
    <2> QED BY <2>3, <2>4 DEF IInv
  <1> QED BY <1>2, <1>3, <1>4, <1>5, <1>6, <1>7, <1>8, <1>9 DEF SessionStep

\* Metadata is written.
LEMMA MetaEmitPreserves ==
  ASSUME IInv, NEW m \in meta, MetaEmit(m)
  PROVE  IInv'
  <1> DEFINE M == [session : Sessions, kind : {"attached", "folder"}, done : BOOLEAN]
  <1>1. m \in M /\ meta \subseteq M
    BY DEF IInv, RowInv
  <1>2. m.session \in Sessions /\ m.kind \in Kinds /\ m.kind # "opened"
    BY <1>1 DEF Kinds
  <1>3. [m EXCEPT !.done = TRUE] \in M
    BY <1>1
  <1>4. /\ Emit(m.kind, m.session) /\ UNCHANGED stage
        /\ UNCHANGED <<linkVars, open, tombs, committed, ready, stale, reaps, disowned>>
    BY DEF MetaEmit, coordVars
  <1>5. meta' \subseteq M
    BY <1>1, <1>3 DEF MetaEmit
  <1>6. disowned' \subseteq Sessions
    BY <1>4 DEF IInv, TypeOK
  <1> QED BY <1>2, <1>4, <1>5, <1>6, EmitPreserves

\* The connection's steps that move no row and commit nothing.
LEMMA LinkFrame ==
  ASSUME IInv, UNCHANGED <<stage, meta, outbox, emitted, open, tombs, committed, disowned>>,
         barrier' \in {"off", "replay", "snapshot", "live"}, conns' \in 0..MaxConn,
         sent' \in {"none", "sent", "acked", "refused"},
         sent' # "none" => outbox # <<>>, sent' = "acked" => sent = "acked",
         snapshot' \in [at : {"none", "built", "sent", "acked"}, names : SUBSET Sessions],
         snapshot'.names \subseteq Known, \A names \in stale' : names \subseteq Known,
         reaps' \subseteq Known, ready' \in BOOLEAN
  PROVE  IInv'
  <1>1. Held' = Held /\ Known' = Known
    BY DEF Held, Known
  <1>2. Known \subseteq Sessions
    BY DEF IInv, TypeOK, Known
  <1>3. TypeOK' /\ RowInv'
    BY <1>1, <1>2 DEF IInv, TypeOK, RowInv
  <1>4. OpenInv' /\ CloseInv'
    BY <1>1 DEF IInv, OpenInv, CloseInv, Queued
  <1> QED BY <1>3, <1>4 DEF IInv

\* A connection comes or goes; a late snapshot it leaves names known sessions.
LEMMA ConnectionPreserves ==
  ASSUME IInv, Connect \/ Disconnect
  PROVE  IInv'
  <1>1. ready' \in BOOLEAN
    <2>1. ready' = FALSE
      BY DEF Connect, Disconnect
    <2> QED BY <2>1, Zenon
  <1>2. CASE Connect
    BY <1>1, <1>2, LinkFrame, ReplayAssumption
       DEF Connect, workerVars, IInv, TypeOK, RowInv, OpenInv
  <1>3. CASE Disconnect
    <2>1. /\ UNCHANGED <<stage, meta, outbox, emitted, conns, open, tombs, committed, disowned>>
          /\ barrier' = "off" /\ sent' = "none" /\ snapshot' = NoSnapshot /\ reaps' = {}
          /\ stale' \subseteq stale \cup {snapshot.names}
      BY <1>3 DEF Disconnect, workerVars
    <2>2. NoSnapshot \in [at : {"none", "built", "sent", "acked"}, names : SUBSET Sessions]
          /\ NoSnapshot.names = {}
      BY DEF NoSnapshot
    <2>3. \A names \in stale' : names \subseteq Known
      BY <2>1 DEF IInv, OpenInv
    <2>4. conns' \in 0..MaxConn
      BY <2>1 DEF IInv, TypeOK
    <2> QED BY <1>1, <2>1, <2>2, <2>3, <2>4, LinkFrame
  <1> QED BY <1>2, <1>3

\* An acknowledged row leaves the outbox: the log has it, so what the row
\* vouched for the log vouches for.
LEMMA RowAckedPreserves ==
  ASSUME IInv, RowAcked
  PROVE  IInv'
  <1> DEFINE h == Head(outbox)
  <1>1. /\ sent = "acked" /\ sent' = "none" /\ outbox' = Tail(outbox)
        /\ UNCHANGED <<stage, meta, emitted, barrier, snapshot, conns, open, tombs, committed,
                       ready, reaps, stale, disowned>>
    BY DEF RowAcked, coordVars
  <1>2. outbox \in Seq(Rowset) /\ outbox # <<>>
    BY <1>1 DEF IInv, RowInv
  <1>3. /\ outbox' \in Seq(Rowset) /\ Len(outbox) \in Nat /\ Len(outbox) >= 1
        /\ Len(outbox') = Len(outbox) - 1
        /\ \A i \in 1..Len(outbox') : outbox'[i] = outbox[i + 1]
        /\ h = outbox[1]
    BY <1>1, <1>2, TailFacts
  <1>4. Held' = Held \ {h}
    <2>1. \A i \in 1..Len(outbox') : i + 1 \in 1..Len(outbox) /\ i + 1 # 1
      BY <1>3
    <2>2. \A i \in 1..Len(outbox) : i # 1 => i - 1 \in 1..Len(outbox') /\ outbox[i] = outbox'[i - 1]
      BY <1>3
    <2>3. \A i \in 1..Len(outbox) : i # 1 => outbox[i] # h
      BY <1>3 DEF IInv, RowInv
    <2>4. Held' \subseteq Held \ {h}
      BY <1>3, <2>1, <2>3 DEF Held
    <2>5. Held \ {h} \subseteq Held'
      BY <1>3, <2>2 DEF Held
    <2> QED BY <2>4, <2>5
  <1>5. /\ h.kind = "opened" => h.session \in Known
        /\ h.kind = "closed" => h.session \in tombs
    BY <1>1 DEF IInv, OpenInv, CloseInv
  <1> HIDE DEF h
  <1>6. RowInv'
    BY <1>1, <1>3, <1>4 DEF IInv, RowInv
  <1>7. TypeOK'
    BY <1>1, <1>3 DEF IInv, TypeOK
  <1>8. /\ Known' = Known
        /\ \A k, q : Queued(k, q)' => Queued(k, q)
        /\ \A k, q : Queued(k, q) => Queued(k, q)' \/ (k = h.kind /\ q = h.session)
    BY <1>1, <1>4 DEF Known, Queued
  <1>9. OpenInv'
    BY <1>1, <1>4, <1>5, <1>8 DEF IInv, OpenInv
  <1>10. CloseInv'
    BY <1>1, <1>4, <1>5, <1>8 DEF IInv, CloseInv, Known
  <1> QED BY <1>6, <1>7, <1>9, <1>10 DEF IInv

\* The pump's other steps: a snapshot is copied only from an empty outbox, so
\* every session it names is known.
LEMMA LinkPreserves ==
  ASSUME IInv, Link
  PROVE  IInv'
  <1>1. CASE RowAcked
    BY <1>1, RowAckedPreserves
  <1>2. CASE SendHead
    BY <1>2, LinkFrame DEF SendHead, workerVars, coordVars, IInv, TypeOK, RowInv, OpenInv
  <1>3. CASE SnapshotBuild
    <2>1. Table \subseteq Known /\ Table \subseteq Sessions
      <3>1. Held = {}
        BY <1>3 DEF SnapshotBuild, Held
      <3> QED BY <3>1 DEF IInv, OpenInv, Queued, Table
    <2>2. snapshot' \in [at : {"none", "built", "sent", "acked"}, names : SUBSET Sessions]
          /\ snapshot'.names = Table
      BY <1>3, <2>1 DEF SnapshotBuild
    <2> QED BY <1>3, <2>1, <2>2, LinkFrame
        DEF SnapshotBuild, workerVars, coordVars, IInv, TypeOK, RowInv, OpenInv
  <1>4. CASE SnapshotDraw \/ SnapshotAcked
    <2>1. /\ UNCHANGED <<stage, meta, outbox, emitted, sent, conns, open, tombs, committed, ready,
                         reaps, stale, disowned>>
          /\ barrier' \in {"snapshot", "replay", "live"}
      BY <1>4 DEF SnapshotDraw, SnapshotAcked, workerVars, coordVars
    <2>2. /\ snapshot' \in [at : {"none", "built", "sent", "acked"}, names : SUBSET Sessions]
          /\ snapshot'.names \subseteq snapshot.names
      BY <1>4 DEF SnapshotDraw, SnapshotAcked, NoSnapshot, IInv, RowInv
    <2> QED BY <2>1, <2>2, LinkFrame DEF IInv, TypeOK, RowInv, OpenInv
  <1> QED BY <1>1, <1>2, <1>3, <1>4 DEF Link

\* A row is handled: an opened row that is not in the log yet is of a session
\* nobody knows, so no tombstone is undone; a closed row that is not in the
\* log yet is admitted only for a session with a row.
LEMMA HandleRowPreserves ==
  ASSUME IInv, HandleRow
  PROVE  IInv'
  <1> DEFINE h == Head(outbox)
  <1>1. /\ sent = "sent" /\ sent' \in {"acked", "refused"}
        /\ UNCHANGED <<stage, meta, outbox, emitted, barrier, snapshot, conns, ready, reaps,
                       stale, disowned>>
    BY DEF HandleRow, workerVars
  <1>2. outbox \in Seq(Rowset) /\ outbox # <<>>
    BY <1>1 DEF IInv, RowInv
  <1>3. h \in Held /\ h \in Rowset /\ h.id \in 1..emitted /\ h.session \in Sessions
    <2>1. h = outbox[1] /\ 1 \in 1..Len(outbox)
      BY <1>2, TailFacts
    <2>2. outbox[1] \in Rowset
      BY <1>2, <2>1
    <2> QED BY <2>1, <2>2 DEF IInv, TypeOK, Held
  <1>4. /\ Held' = Held /\ \A k, q : Queued(k, q)' <=> Queued(k, q)
        /\ Queued(h.kind, h.session)
    BY <1>1, <1>3 DEF Held, Queued
  <1>5. \A x, y \in Held : x.id = y.id => x = y
    BY DEF IInv, RowInv, Held
  <1>6. CASE UNCHANGED <<open, tombs, committed>>
    <2>1. sent' = "acked" => h.kind \in {"attached", "folder"} \/ h.id \in committed
      <3>1. ~(MayCross(h.kind) /\ Admitted(h) /\ h.id \notin committed)
        BY <1>3, <1>6 DEF HandleRow, Project
      <3>2. h.kind \in {"opened", "closed"} => MayCross(h.kind)
        BY DEF MayCross
      <3>3. h.kind \in Kinds
        BY <1>3 DEF Rowset
      <3> QED BY <3>1, <3>2, <3>3 DEF HandleRow, Kinds
    <2>2. Known' = Known
      BY <1>6 DEF Known
    <2>3. Head(outbox') = h
      BY <1>1
    <2> HIDE DEF h
    <2>4. TypeOK' /\ RowInv'
      BY <1>1, <1>2, <1>4, <1>6 DEF IInv, TypeOK, RowInv
    <2>5. /\ sent' = "acked" /\ h.kind = "opened" => h.session \in Known
          /\ sent' = "acked" /\ h.kind = "closed" => h.session \in tombs
      BY <1>3, <2>1 DEF IInv, OpenInv, CloseInv
    <2>6. OpenInv'
      BY <1>1, <1>4, <1>6, <2>2, <2>3, <2>5 DEF IInv, OpenInv
    <2>7. CloseInv'
      BY <1>1, <1>4, <1>6, <2>2, <2>3, <2>5 DEF IInv, CloseInv
    <2> QED BY <2>4, <2>6, <2>7 DEF IInv
  <1>7. CASE MayCross(h.kind) /\ Admitted(h) /\ h.id \notin committed
    <2>1. Project(h) /\ sent' = "acked"
      BY <1>7 DEF HandleRow
    <2>2. Head(outbox') = h
      BY <1>1
    <2> HIDE DEF h
    <2>3. /\ committed' = committed \cup {h.id}
          /\ h.kind = "opened" => open' = open \cup {h.session} /\ tombs' = tombs
          /\ h.kind = "closed" => open' = open \ {h.session} /\ tombs' = tombs \cup {h.session}
          /\ h.kind \notin {"opened", "closed"} => open' = open /\ tombs' = tombs
      BY <2>1 DEF Project
    <2>4. /\ h.kind = "opened" => h.session \notin Known
          /\ h.kind # "opened" => h.session \in open
      BY <1>3, <1>7 DEF Admitted, IInv, OpenInv
    <2>5. /\ h.kind = "opened" => Known' = Known \cup {h.session}
          /\ h.kind # "opened" => Known' = Known
          /\ tombs \subseteq tombs'
      BY <2>3, <2>4 DEF Known
    <2>6. TypeOK' /\ RowInv'
      BY <1>1, <1>2, <1>3, <1>4, <2>3 DEF IInv, TypeOK, RowInv
    <2>7. OpenInv'
      <3>1. \A x \in Held' : x.kind = "opened" => (x.session \in Known' <=> x.id \in committed')
        BY <1>3, <1>4, <1>5, <2>3, <2>5 DEF IInv, OpenInv
      <3>2. h.kind = "opened" => h.session \in Known'
        BY <2>5
      <3>3. \A s \in Sessions :
               stage'[s] \in {"none", "reserved"} => s \notin Known' /\ ~Queued("opened", s)'
        BY <1>1, <1>4, <2>5 DEF IInv, OpenInv
      <3>4. Known \subseteq Known'
        BY <2>5
      <3> QED BY <1>1, <1>4, <2>2, <3>1, <3>2, <3>3, <3>4 DEF IInv, OpenInv
    <2>8. CloseInv'
      <3>1. open' \cap tombs' = {}
        BY <2>3, <2>4 DEF IInv, CloseInv, Known
      <3>2. \A x \in Held' : x.kind = "closed" /\ x.id \in committed' => x.session \in tombs'
        BY <1>3, <1>4, <1>5, <2>3 DEF IInv, CloseInv
      <3>3. h.kind = "closed" => h.session \in tombs'
        BY <2>3
      <3>4. \A s \in Sessions :
               stage'[s] = "gone" =>
                  s \in tombs' \/ Queued("closed", s)' \/ (s \notin Known' /\ ~Queued("opened", s)')
        BY <1>1, <1>4, <2>5 DEF IInv, CloseInv
      <3> QED BY <2>2, <3>1, <3>2, <3>3, <3>4 DEF CloseInv
    <2> QED BY <2>6, <2>7, <2>8 DEF IInv
  <1> QED BY <1>6, <1>7 DEF HandleRow

\* A snapshot names known sessions only, so its rows are there or are
\* tombstoned: it adds none.
LEMMA SnapshotAddsNothing ==
  ASSUME IInv, NEW names, names \subseteq Known
  PROVE  SnapshotRows(names) = open
  BY DEF SnapshotRows, Known

\* The coordinator's other steps.
LEMMA CoordinatorPreserves ==
  ASSUME IInv, Coordinator
  PROVE  IInv'
  <1>1. CASE HandleRow
    BY <1>1, HandleRowPreserves
  <1>2. CASE HandleSnapshot
    <2>1. open' = open
      BY <1>2, SnapshotAddsNothing DEF HandleSnapshot, IInv, OpenInv
    <2>2. /\ UNCHANGED <<stage, meta, outbox, emitted, barrier, sent, conns, tombs, committed,
                         stale, disowned>>
          /\ ready' = TRUE /\ reaps' = reaps \cup (snapshot.names \cap tombs)
          /\ snapshot' = [snapshot EXCEPT !.at = "acked"]
      BY <1>2 DEF HandleSnapshot, workerVars
    <2>3. ready' \in BOOLEAN
      BY <2>2, Zenon
    <2>4. /\ snapshot' \in [at : {"none", "built", "sent", "acked"}, names : SUBSET Sessions]
          /\ snapshot'.names = snapshot.names
      BY <2>2 DEF IInv, RowInv
    <2>5. reaps' \subseteq Known
      BY <2>2 DEF IInv, OpenInv
    <2> QED BY <2>1, <2>2, <2>3, <2>4, <2>5, LinkFrame DEF IInv, TypeOK, RowInv, OpenInv
  <1>3. ASSUME NEW names \in stale, HandleStale(names) PROVE IInv'
    <2>1. open' = open
      BY <1>3, SnapshotAddsNothing DEF HandleStale, IInv, OpenInv
    <2>2. /\ UNCHANGED <<stage, meta, outbox, emitted, barrier, sent, snapshot, conns, tombs,
                         committed, ready, reaps, disowned>>
          /\ stale' \subseteq stale
      BY <1>3 DEF HandleStale, workerVars, linkVars
    <2> QED BY <2>1, <2>2, LinkFrame DEF IInv, TypeOK, RowInv, OpenInv
  <1>4. ASSUME NEW s \in Sessions, ForceClose(s) PROVE IInv'
    <2>1. /\ UNCHANGED <<stage, meta, outbox, emitted, barrier, sent, snapshot, conns, committed,
                         ready, reaps, stale>>
          /\ s \in open /\ open' = open \ {s} /\ tombs' = tombs \cup {s}
          /\ disowned' = disowned \cup {s}
      BY <1>4 DEF ForceClose, workerVars, linkVars
    <2>2. Held' = Held /\ Known' = Known
      BY <2>1 DEF Held, Known
    <2>3. TypeOK' /\ RowInv'
      BY <2>1, <2>2 DEF IInv, TypeOK, RowInv
    <2>4. OpenInv'
      BY <2>1, <2>2 DEF IInv, OpenInv, Queued
    <2>5. CloseInv'
      BY <2>1, <2>2 DEF IInv, CloseInv, Queued
    <2> QED BY <2>3, <2>4, <2>5 DEF IInv
  <1>5. ASSUME NEW s \in Sessions, Kill(s) PROVE IInv'
    <2>1. /\ UNCHANGED <<stage, meta, outbox, emitted, barrier, sent, snapshot, conns, open, tombs,
                         committed, ready, stale, disowned>>
          /\ reaps' = reaps \cup {s} /\ s \in Known
      BY <1>5 DEF Kill, workerVars, linkVars, Known
    <2>2. reaps' \subseteq Known
      BY <2>1 DEF IInv, OpenInv
    <2> QED BY <2>1, <2>2, LinkFrame DEF IInv, TypeOK, RowInv, OpenInv
  <1>6. ASSUME NEW s \in Sessions, Reap(s) PROVE IInv'
    <2>1. /\ UNCHANGED <<meta, linkVars, open, tombs, committed, ready, stale>>
          /\ reaps' = reaps \ {s}
      BY <1>6 DEF Reap
    <2>2. CASE Advance(s, "live", "closing") /\ UNCHANGED <<outbox, emitted, disowned>>
      <3>1. <<"live", "closing">> \in Moves
        BY DEF Moves
      <3> QED BY <2>1, <2>2, <3>1, MovePreserves
    <2>3. CASE UNCHANGED <<stage, outbox, emitted, disowned>>
      <3>1. UNCHANGED <<barrier, sent, snapshot, conns>>
        BY <2>1 DEF linkVars
      <3> QED BY <2>1, <2>3, <3>1, LinkFrame DEF IInv, TypeOK, RowInv, OpenInv
    <2>4. CASE Emit("closed", s) /\ disowned' = disowned \cup {s} /\ UNCHANGED stage
      <3>1. "closed" \in Kinds /\ "closed" # "opened"
        BY DEF Kinds
      <3>2. /\ meta' \subseteq [session : Sessions, kind : {"attached", "folder"}, done : BOOLEAN]
            /\ disowned' \subseteq Sessions
        BY <2>1, <2>4 DEF IInv, RowInv, TypeOK
      <3> QED BY <2>1, <2>4, <3>1, <3>2, EmitPreserves
    <2> QED BY <1>6, <2>2, <2>3, <2>4 DEF Reap
  <1> QED BY <1>1, <1>2, <1>3, <1>4, <1>5, <1>6 DEF Coordinator

\* Every step keeps the invariant.
LEMMA NextPreserves == IInv /\ [Next]_vars => IInv'
  <1> SUFFICES ASSUME IInv, [Next]_vars PROVE IInv'
    OBVIOUS
  <1>1. CASE UNCHANGED vars
    <2>1. UNCHANGED <<stage, meta, outbox, emitted, barrier, sent, snapshot, conns, open, tombs,
                      committed, ready, reaps, stale, disowned>>
      BY <1>1 DEF vars, workerVars, linkVars, coordVars
    <2> QED BY <2>1, LinkFrame DEF IInv, TypeOK, RowInv, OpenInv
  <1> QED BY <1>1, SessionPreserves, MetaEmitPreserves, ConnectionPreserves, LinkPreserves,
          CoordinatorPreserves DEF Next

\* The inductive invariant of the replay: a session is known to the
\* coordinator from the commit of its opened row on, and a session that is
\* gone has its tombstone, or the row that will be one, or was never opened.
THEOREM Invariance == Spec => []IInv
  <1>1. Init => IInv
    BY InitEstablishes
  <1>2. IInv /\ [Next]_vars => IInv'
    BY NextPreserves
  <1> QED BY <1>1, <1>2, PTL DEF Spec

\* Every variable keeps its type, and the log and the outbox hold only numbers
\* that were given out.
THEOREM TypeCorrect == Spec => []TypeOK
  <1>1. IInv => TypeOK
    BY DEF IInv
  <1> QED BY <1>1, Invariance, PTL

\* No opened row, snapshot or late snapshot of a lost connection gives a
\* tombstoned session a row again (append_transaction.rs).
THEOREM TombstonesHold == Spec => []ClosedStaysClosed
  <1>1. IInv => ClosedStaysClosed
    BY DEF IInv, CloseInv, ClosedStaysClosed
  <1> QED BY <1>1, Invariance, PTL

\* Once every row has been acknowledged and no spawn or close is half done or
\* lost, the coordinator's open sessions are the worker's table but for the
\* tombstones somebody else's closed has left.
THEOREM EndsAgree == Spec => []Agreement
  <1>1. ASSUME IInv, outbox = <<>>,
               \A s \in Sessions : stage[s] \in {"none", "live", "gone"}
        PROVE  open = Table \ tombs
    <2>1. \A k, s : ~Queued(k, s)
      BY <1>1 DEF Queued, Held
    <2>2. ASSUME NEW s \in open PROVE s \in Table \ tombs
      BY <1>1, <2>1, <2>2 DEF IInv, TypeOK, OpenInv, CloseInv, Known, Table
    <2>3. ASSUME NEW s \in Table \ tombs PROVE s \in open
      BY <1>1, <2>1, <2>3 DEF IInv, OpenInv, Known, Table
    <2> QED BY <2>2, <2>3
  <1>2. IInv => Agreement
    BY <1>1 DEF Agreement
  <1> QED BY <1>2, Invariance, PTL

=============================================================================
