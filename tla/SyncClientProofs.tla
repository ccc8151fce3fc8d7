-------------------------- MODULE SyncClientProofs --------------------------
(***************************************************************************)
(* The client of a Sync socket ends up showing what the log says: the proof*)
(* of ConvergedWhenQuiet, on top of the invariant of SyncFeedProofs.       *)
(*                                                                         *)
(* Every id of the log is settled, on the line to the client, or ahead of  *)
(* the line, with the recovery or the live feed.  Within a session whose   *)
(* events are published in order these three are in the order of the ids,  *)
(* so what is settled is a prefix of the session's events, and the fold,   *)
(* which looks at no id, agrees with the log on it.  Nothing is said of an *)
(* astray session: its closed may be published before its opened.          *)
(***************************************************************************)
EXTENDS SyncFeedProofs, SequenceTheorems

\* Of one session, and not of one that may be published out of order.
SameSession(i, j) == log[i].session = log[j].session /\ log[i].session \notin Astray

\* No notice of a generation is under way.
NoControl == \A k \in 1..Len(wire) : wire[k].kind = "event"

\* Published, if at all, to a recovery that has not taken it yet.
Waiting == unpublished \cup replay.held

\* A session closes after it opened.
LogInv ==
    \A i, j \in 1..Len(log) :
        SameSession(i, j) /\ log[i].kind = "opened" /\ log[j].kind = "closed" => i < j

\* What waits of a session are its last events.
PubInv ==
    /\ \A i \in unpublished, j \in 1..Len(log) : i < j /\ SameSession(i, j) => j \in unpublished
    /\ \A i \in replay.held, j \in 1..Len(log) : i < j /\ SameSession(i, j) => j \in Waiting
    /\ Waiting \cap replay.boundary = {}

\* A cursor of this log, or of one that this log never reaches.
Known(n) == n <= Len(log) \/ n > 2 * Cardinality(Sessions)

\* The cutoff follows the task's cursor; an overflow under a foreign cursor
\* releases an event.
CursorInv ==
    /\ Known(lastSeen) /\ Known(persisted) /\ Known(replay.cutoff)
    /\ backfill.at = "start" \/ Reading => replay.cutoff = backfill.cursor
    /\ backfill.at = "start" /\ replay.aborted /\ CutoffAhead => admitted # <<>>

\* A call for the list is made for a client without a snapshot.
CallInv ==
    /\ ticket.read <= Len(log)
    /\ ticket.at # "none" => ~hydrated

\* What is on its way was let through since the last reset.
SentInv ==
    /\ Range(queue) \subseteq Range(admitted)
    /\ NoControl => \A k \in 1..Len(wire) : wire[k].id \in Range(admitted)

\* The bookkeeping can be relied on: not one of the two states the property
\* excludes, nor the moment between a rewound cutoff and the reset for it.
Tracked ==
    /\ up /\ ~StaleRelease /\ ~CutoffAhead
    /\ ~(backfill.at = "ahead" /\ ~replay.aborted)

\* The last id of the interval that is queued.
Floor == IF backfill.at = "admit" THEN replay.cutoff + 1 ELSE replay.cutoff

\* The recovery will queue it.
Owed(i) ==
    \/ backfill.at = "start"
    \/ i <= backfill.target
    \/ i \in replay.held
    \/ backfill.at = "tail" /\ i = backfill.frame

\* Not queued yet, and it will be.
Ahead == {i \in 1..Len(log) : i > Floor /\ (i \in unpublished \/ (replay.recovering /\ Owed(i)))}

\* The ids on the wire and then those queued.
Joined(w, q) == [k \in 1..(Len(w) + Len(q)) |-> IF k <= Len(w) THEN w[k].id ELSE q[k - Len(w)]]

\* What the generation the client is in, or will be in, has on its way.
Line == IF NoControl THEN Joined(wire, queue) ELSE queue

\* On the line and ahead of it a session's events are its last, in order.
Ordered(L, A) ==
    /\ \A p, q \in DOMAIN L : p < q /\ SameSession(L[p], L[q]) => L[p] < L[q]
    /\ \A x \in Range(L), a \in A : SameSession(x, a) => x < a
    /\ \A i \in Range(L) \cup A, j \in 1..Len(log) :
          i < j /\ SameSession(i, j) => j \in Range(L) \cup A

\* Ids of the sessions the property is about.
Kept == {i \in 1..Len(log) : log[i].session \notin Astray}

Settled == Kept \ (Range(Line) \cup Ahead)

OrderInv == Tracked => Ordered(Line, Ahead)

\* What the list was read without is still to come.
TicketInv ==
    Tracked /\ NoControl /\ ticket.at = "answered" => \A i \in Settled : i <= ticket.read

\* A hydrated client shows what the settled events say.
ShownInv ==
    Tracked /\ NoControl /\ hydrated =>
        /\ sessions \subseteq Opened(Len(log))
        /\ \A i \in Settled : log[i].kind = "closed" => log[i].session \notin sessions
        /\ \A i \in Settled :
              log[i].kind = "opened" /\ log[i].session \notin Closed(Len(log)) =>
                  log[i].session \in sessions

BaseInv == LogInv /\ PubInv /\ CursorInv /\ CallInv /\ SentInv
ViewInv == OrderInv /\ TicketInv /\ ShownInv
ClientInv == BaseInv /\ ViewInv

----------------------------------------------------------------------------
(* The line as a sequence.                                                 *)

\* The wire and the queue, one after the other.
LEMMA JoinedFacts ==
  ASSUME NEW w \in Seq(Frames), NEW q \in Seq(Nat)
  PROVE  /\ Joined(w, q) \in Seq(Nat) /\ Len(Joined(w, q)) = Len(w) + Len(q)
         /\ \A k \in 1..Len(w) : Joined(w, q)[k] = w[k].id
         /\ \A k \in 1..Len(q) : Joined(w, q)[Len(w) + k] = q[k]
         /\ Range(Joined(w, q)) = {w[k].id : k \in 1..Len(w)} \cup Range(q)
  <1> DEFINE j == Joined(w, q)
  <1>1. PICK m \in Nat, n \in Nat : m = Len(w) /\ n = Len(q)
    BY Zenon, WireFacts, LenProperties
  <1>2. \A k \in 1..m : w[k].id \in Nat
    <2>1. \A k \in 1..m : w[k] \in Frames
      BY <1>1, WireFacts
    <2>2. \A f \in Frames : f.id \in Nat
      BY DEF Frames
    <2> QED BY <2>1, <2>2
  <1>3. \A k \in 1..n : q[k] \in Nat
    BY <1>1
  <1>4. j = [k \in 1..(m + n) |-> IF k <= m THEN w[k].id ELSE q[k - m]]
    BY <1>1 DEF Joined
  <1>5. \A k \in 1..(m + n) : j[k] \in Nat
    <2> TAKE k \in 1..(m + n)
    <2>1. CASE k <= m
      BY <1>2, <1>4, <2>1
    <2>2. CASE ~(k <= m)
      <3>1. k - m \in 1..n
        BY <2>2
      <3> QED BY <1>3, <1>4, <2>2, <3>1
    <2> QED BY <2>1, <2>2
  <1>6. m + n \in Nat
    OBVIOUS
  <1>7. j \in Seq(Nat) /\ Len(j) = m + n
    BY <1>4, <1>5, <1>6
  <1>8. \A k \in 1..m : j[k] = w[k].id
    BY <1>4
  <1>9. \A k \in 1..n : j[m + k] = q[k]
    <2> TAKE k \in 1..n
    <2>1. m + k \in 1..(m + n) /\ ~(m + k <= m) /\ (m + k) - m = k
      OBVIOUS
    <2> QED BY <1>4, <2>1
  <1>10. Range(j) = {w[k].id : k \in 1..m} \cup Range(q)
    <2>1. DOMAIN j = 1..(m + n) /\ DOMAIN q = 1..n
      BY <1>1, <1>4
    <2>2. \A k \in 1..(m + n) : k \in 1..m \/ (k - m \in 1..n /\ m + (k - m) = k)
      OBVIOUS
    <2>3. \A k \in 1..n : m + k \in 1..(m + n)
      OBVIOUS
    <2>4. \A k \in 1..m : k \in 1..(m + n)
      OBVIOUS
    <2>5. \A k \in 1..(m + n) : j[k] \in {w[x].id : x \in 1..m} \cup {q[x] : x \in 1..n}
      BY <1>8, <1>9, <2>2, ZenonT(30)
    <2>6. \A k \in 1..m : w[k].id \in {j[x] : x \in 1..(m + n)}
      BY <1>8, <2>4
    <2>7. \A k \in 1..n : q[k] \in {j[x] : x \in 1..(m + n)}
      BY <1>9, <2>3
    <2>8. Range(j) = {j[x] : x \in 1..(m + n)} /\ Range(q) = {q[x] : x \in 1..n}
      BY <2>1 DEF Range
    <2> HIDE DEF j
    <2> QED BY <2>5, <2>6, <2>7, <2>8
  <1> QED BY <1>1, <1>7, <1>8, <1>9, <1>10

\* One more queued.
LEMMA JoinedAppend ==
  ASSUME NEW w \in Seq(Frames), NEW q \in Seq(Nat), NEW i \in Nat
  PROVE  Joined(w, Append(q, i)) = Append(Joined(w, q), i)
  <1> DEFINE j == Joined(w, q)
             p == Append(q, i)
             r == Joined(w, p)
             a == Append(j, i)
  <1>1. p \in Seq(Nat) /\ Len(p) = Len(q) + 1 /\ Len(q) \in Nat /\ Len(w) \in Nat
        /\ (\A k \in 1..Len(q) : p[k] = q[k]) /\ p[Len(q) + 1] = i
    OBVIOUS
  <1> HIDE DEF p
  <1>2. /\ j \in Seq(Nat) /\ Len(j) = Len(w) + Len(q)
        /\ \A k \in 1..Len(w) : j[k] = w[k].id
        /\ \A k \in 1..Len(q) : j[Len(w) + k] = q[k]
    BY JoinedFacts
  <1>3. /\ r \in Seq(Nat) /\ Len(r) = Len(w) + (Len(q) + 1)
        /\ \A k \in 1..Len(w) : r[k] = w[k].id
        /\ \A k \in 1..(Len(q) + 1) : r[Len(w) + k] = p[k]
    <2>1. /\ r \in Seq(Nat) /\ Len(r) = Len(w) + Len(p)
          /\ \A k \in 1..Len(w) : r[k] = w[k].id
          /\ \A k \in 1..Len(p) : r[Len(w) + k] = p[k]
      BY <1>1, JoinedFacts
    <2> HIDE DEF r
    <2> QED BY <1>1, <2>1
  <1> HIDE DEF j, r
  <1>4. /\ a \in Seq(Nat) /\ Len(a) = Len(j) + 1 /\ a[Len(j) + 1] = i
        /\ \A k \in 1..Len(j) : a[k] = j[k]
    BY <1>2
  <1> HIDE DEF a
  <1>5. PICK m \in Nat, n \in Nat : m = Len(w) /\ n = Len(q)
    BY <1>1, Zenon
  <1>6. \A k \in 1..(m + n + 1) : k \in 1..m \/ (k - m \in 1..n /\ m + (k - m) = k) \/ k = m + (n + 1)
    OBVIOUS
  <1>7. \A k \in 1..m : k \in 1..(m + n)
    OBVIOUS
  <1>8. \A k \in 1..n : m + k \in 1..(m + n) /\ k \in 1..(n + 1)
    OBVIOUS
  <1>9. m + (n + 1) = (m + n) + 1 /\ n + 1 \in 1..(n + 1)
    OBVIOUS
  <1>10. \A k \in 1..m : r[k] = a[k]
    BY <1>2, <1>3, <1>4, <1>5, <1>7
  <1>11. \A k \in 1..n : r[m + k] = a[m + k]
    BY <1>1, <1>2, <1>3, <1>4, <1>5, <1>8
  <1>12. r[m + (n + 1)] = a[m + (n + 1)]
    BY <1>1, <1>2, <1>3, <1>4, <1>5, <1>9
  <1>13. Len(r) = m + n + 1 /\ Len(a) = m + n + 1
    BY <1>2, <1>3, <1>4, <1>5, <1>9
  <1>14. \A k \in 1..(m + n + 1) : r[k] = a[k]
    BY <1>6, <1>10, <1>11, <1>12
  <1>15. r = a
    BY <1>3, <1>4, <1>13, <1>14, SeqEqual
  <1> QED BY <1>15 DEF r, a, j, p

\* One frame goes out.
LEMMA JoinedFlush ==
  ASSUME NEW w \in Seq(Frames), NEW q \in Seq(Nat), q # <<>>
  PROVE  Joined(Append(w, EventFrame(Head(q))), Tail(q)) = Joined(w, q)
  <1> DEFINE f == EventFrame(Head(q))
             v == Append(w, f)
             t == Tail(q)
             j == Joined(w, q)
             r == Joined(v, t)
  <1>1. /\ t \in Seq(Nat) /\ Len(q) \in Nat /\ Len(q) >= 1 /\ Len(t) = Len(q) - 1
        /\ \A k \in 1..Len(t) : t[k] = q[k + 1]
        /\ Head(q) = q[1] /\ Head(q) \in Nat
    BY TailFacts
  <1>2. f \in Frames /\ f.id = q[1]
    BY <1>1 DEF EventFrame, Frames
  <1> HIDE DEF f, t
  <1>3. /\ v \in Seq(Frames) /\ Len(v) = Len(w) + 1 /\ Len(w) \in Nat
        /\ (\A k \in 1..Len(w) : v[k] = w[k]) /\ v[Len(w) + 1] = f
    BY <1>2, WireFacts
  <1> HIDE DEF v
  <1>4. /\ j \in Seq(Nat) /\ Len(j) = Len(w) + Len(q)
        /\ \A k \in 1..Len(w) : j[k] = w[k].id
        /\ \A k \in 1..Len(q) : j[Len(w) + k] = q[k]
    BY JoinedFacts
  <1>5. /\ r \in Seq(Nat) /\ Len(r) = Len(v) + Len(t)
        /\ \A k \in 1..Len(v) : r[k] = v[k].id
        /\ \A k \in 1..Len(t) : r[Len(v) + k] = t[k]
    BY <1>1, <1>3, JoinedFacts
  <1> HIDE DEF j, r
  <1>6. PICK m \in Nat, n \in Nat : m = Len(w) /\ n = Len(q)
    BY <1>1, <1>3, Zenon
  <1>7. n >= 1 /\ Len(v) = m + 1 /\ Len(t) = n - 1
    BY <1>1, <1>3, <1>6
  <1>8. \A k \in 1..(m + n) :
           k \in 1..m \/ k = m + 1 \/ (k - (m + 1) \in 1..(n - 1) /\ (m + 1) + (k - (m + 1)) = k)
    BY <1>7
  <1>9. /\ \A k \in 1..m : k \in 1..(m + 1)
        /\ \A k \in 1..(n - 1) : k + 1 \in 1..n /\ (m + 1) + k = m + (k + 1)
        /\ m + 1 \in 1..(m + 1) /\ 1 \in 1..n /\ (m + 1) + (n - 1) = m + n
    BY <1>7
  <1>10. \A k \in 1..m : r[k] = j[k]
    BY <1>3, <1>4, <1>5, <1>6, <1>7, <1>9, ZenonT(30)
  <1>11. r[m + 1] = j[m + 1]
    BY <1>2, <1>3, <1>4, <1>5, <1>6, <1>7, <1>9
  <1>12. \A k \in 1..(n - 1) : r[(m + 1) + k] = j[(m + 1) + k]
    <2> TAKE k \in 1..(n - 1)
    <2>1. r[(m + 1) + k] = q[k + 1]
      BY <1>1, <1>5, <1>7
    <2>2. j[m + (k + 1)] = q[k + 1]
      BY <1>4, <1>6, <1>9
    <2> QED BY <1>9, <2>1, <2>2
  <1>13. Len(r) = m + n /\ Len(j) = m + n
    BY <1>4, <1>5, <1>6, <1>7, <1>9
  <1>14. \A k \in 1..(m + n) : r[k] = j[k]
    BY <1>8, <1>10, <1>11, <1>12
  <1>15. r = j
    BY <1>4, <1>5, <1>13, <1>14, SeqEqual
  <1> QED BY <1>15 DEF r, j, v, t, f

\* The client handles the first frame.
LEMMA JoinedTail ==
  ASSUME NEW w \in Seq(Frames), NEW q \in Seq(Nat), w # <<>>
  PROVE  /\ Joined(w, q) # <<>> /\ Head(Joined(w, q)) = Head(w).id
         /\ Joined(Tail(w), q) = Tail(Joined(w, q))
  <1> DEFINE t == Tail(w)
             j == Joined(w, q)
             r == Joined(t, q)
             u == Tail(j)
  <1>1. /\ t \in Seq(Frames) /\ Len(w) \in Nat /\ Len(w) >= 1 /\ Len(t) = Len(w) - 1
        /\ \A k \in 1..Len(t) : t[k] = w[k + 1]
        /\ Head(w) = w[1] /\ Len(q) \in Nat
    BY TailFacts
  <1> HIDE DEF t
  <1>2. /\ j \in Seq(Nat) /\ Len(j) = Len(w) + Len(q)
        /\ \A k \in 1..Len(w) : j[k] = w[k].id
        /\ \A k \in 1..Len(q) : j[Len(w) + k] = q[k]
    BY JoinedFacts
  <1>3. /\ r \in Seq(Nat) /\ Len(r) = Len(t) + Len(q)
        /\ \A k \in 1..Len(t) : r[k] = t[k].id
        /\ \A k \in 1..Len(q) : r[Len(t) + k] = q[k]
    BY <1>1, JoinedFacts
  <1> HIDE DEF j, r
  <1>4. PICK m \in Nat, n \in Nat : m = Len(w) /\ n = Len(q)
    BY <1>1, Zenon
  <1>5. m >= 1 /\ Len(t) = m - 1 /\ Len(j) = m + n /\ Len(r) = (m - 1) + n /\ 1 \in 1..m
    BY <1>1, <1>2, <1>3, <1>4
  <1>6. j # <<>>
    BY <1>5
  <1>7. /\ u \in Seq(Nat) /\ Len(u) = Len(j) - 1 /\ Head(j) = j[1]
        /\ \A k \in 1..Len(u) : u[k] = j[k + 1]
    BY <1>2, <1>6, TailFacts
  <1> HIDE DEF u
  <1>8. j[1] = w[1].id
    BY <1>2, <1>4, <1>5
  <1>9. Len(u) = (m - 1) + n
    BY <1>5, <1>7
  <1>10. \A k \in 1..((m - 1) + n) :
            k \in 1..(m - 1) \/ (k - (m - 1) \in 1..n /\ (m - 1) + (k - (m - 1)) = k)
    BY <1>5
  <1>11. /\ \A k \in 1..(m - 1) : k + 1 \in 1..m /\ k \in 1..((m - 1) + n)
         /\ \A k \in 1..n : (m - 1) + k \in 1..((m - 1) + n) /\ ((m - 1) + k) + 1 = m + k
    BY <1>5
  <1>12. \A k \in 1..(m - 1) : r[k] = u[k]
    <2> TAKE k \in 1..(m - 1)
    <2>1. r[k] = w[k + 1].id
      BY <1>1, <1>3, <1>5
    <2>2. u[k] = j[k + 1] /\ j[k + 1] = w[k + 1].id
      BY <1>2, <1>4, <1>7, <1>9, <1>11
    <2> QED BY <2>1, <2>2
  <1>13. \A k \in 1..n : r[(m - 1) + k] = u[(m - 1) + k]
    <2> TAKE k \in 1..n
    <2>1. r[(m - 1) + k] = q[k]
      BY <1>3, <1>4, <1>5
    <2>2. u[(m - 1) + k] = j[((m - 1) + k) + 1]
      BY <1>7, <1>9, <1>11
    <2>3. j[((m - 1) + k) + 1] = q[k]
      BY <1>2, <1>4, <1>11
    <2> QED BY <2>1, <2>2, <2>3
  <1>14. \A k \in 1..((m - 1) + n) : r[k] = u[k]
    BY <1>10, <1>12, <1>13
  <1>15. r = u
    BY <1>3, <1>5, <1>7, <1>9, <1>14, SeqEqual
  <1> QED BY <1>1, <1>6, <1>7, <1>8, <1>15 DEF r, j, t, u

\* Nothing on the wire.
LEMMA JoinedNone ==
  ASSUME NEW q \in Seq(Nat)
  PROVE  Joined(<<>>, q) = q
  <1>1. <<>> \in Seq(Frames) /\ Len(<<>>) = 0 /\ Len(q) \in Nat
    OBVIOUS
  <1>2. /\ Joined(<<>>, q) \in Seq(Nat) /\ Len(Joined(<<>>, q)) = 0 + Len(q)
        /\ \A k \in 1..Len(q) : Joined(<<>>, q)[0 + k] = q[k]
    BY <1>1, JoinedFacts
  <1>3. Len(Joined(<<>>, q)) = Len(q) /\ \A k \in 1..Len(q) : Joined(<<>>, q)[k] = q[k]
    BY <1>1, <1>2
  <1> QED BY <1>2, <1>3, SeqEqual

\* The line holds ids of the log that were let through since the last reset.
LEMMA LineFacts ==
  ASSUME IInv, SentInv
  PROVE  /\ Line \in Seq(Nat) /\ Range(Line) \subseteq 1..Len(log) /\ Range(Line) \subseteq Range(admitted)
         /\ Ahead \in SUBSET Nat /\ Ahead \subseteq 1..Len(log)
  <1>1. /\ queue \in Seq(Nat) /\ Range(queue) \subseteq 1..Len(log) /\ wire \in Seq(Frames)
        /\ Len(log) \in Nat
    BY DEF IInv, ShapeInv
  <1>2. CASE ~NoControl
    BY <1>1, <1>2 DEF Line, SentInv, Ahead
  <1>3. CASE NoControl
    <2>1. \A k \in 1..Len(wire) : wire[k].id \in 1..Len(log) /\ wire[k].id \in Range(admitted)
      BY <1>3 DEF NoControl, SentInv, IInv, ShapeInv
    <2>2. /\ Line \in Seq(Nat) /\ Range(Line) = {wire[k].id : k \in 1..Len(wire)} \cup Range(queue)
      BY <1>1, <1>3, JoinedFacts DEF Line
    <2>3. {wire[k].id : k \in 1..Len(wire)} \subseteq 1..Len(log)
      BY <2>1
    <2>4. {wire[k].id : k \in 1..Len(wire)} \subseteq Range(admitted)
      BY <2>1
    <2> QED BY <1>1, <2>2, <2>3, <2>4 DEF SentInv, Ahead
  <1> QED BY <1>2, <1>3

----------------------------------------------------------------------------
(* The order of the line, and what a step makes of it.                     *)

\* An id joins the line behind those of its session, before those to come.
LEMMA OrderedAppend ==
  ASSUME NEW L \in Seq(Nat), NEW A \in SUBSET Nat, Ordered(L, A), NEW i \in Nat,
         \A x \in Range(L) : SameSession(x, i) => x < i,
         \A a \in A \ {i} : SameSession(i, a) => i < a,
         \A j \in 1..Len(log) : i < j /\ SameSession(i, j) => j \in Range(L) \cup A
  PROVE  Ordered(Append(L, i), A \ {i})
  <1> DEFINE M == Append(L, i)
  <1>1. Range(M) = Range(L) \cup {i} /\ M \in Seq(Nat) /\ Len(M) = Len(L) + 1 /\ Len(L) \in Nat
        /\ (\A k \in 1..Len(L) : M[k] = L[k]) /\ M[Len(L) + 1] = i
        /\ DOMAIN L = 1..Len(L) /\ DOMAIN M = 1..Len(L) \cup {Len(L) + 1}
        /\ \A k \in 1..Len(L) : L[k] \in Range(L)
    <2>1. Range(M) = Range(L) \cup {i} /\ M \in Seq(Nat) /\ Len(M) = Len(L) + 1
      BY AppendFacts
    <2>2. Len(L) \in Nat /\ DOMAIN L = 1..Len(L) /\ DOMAIN M = 1..Len(L) \cup {Len(L) + 1}
          /\ (\A k \in 1..Len(L) : M[k] = L[k]) /\ M[Len(L) + 1] = i
      OBVIOUS
    <2> QED BY <2>1, <2>2 DEF Range
  <1> HIDE DEF M
  <1>2. \A p, q \in DOMAIN M : p < q /\ SameSession(M[p], M[q]) => M[p] < M[q]
    <2> SUFFICES ASSUME NEW p \in DOMAIN M, NEW q \in DOMAIN M, p < q, SameSession(M[p], M[q])
                 PROVE  M[p] < M[q]
      OBVIOUS
    <2>1. p \in 1..Len(L)
      BY <1>1
    <2>2. CASE q \in 1..Len(L)
      BY <1>1, <2>1, <2>2 DEF Ordered
    <2>3. CASE q = Len(L) + 1
      BY <1>1, <2>1, <2>3
    <2> QED BY <1>1, <2>2, <2>3
  <1>3. \A x \in Range(M), a \in A \ {i} : SameSession(x, a) => x < a
    BY <1>1 DEF Ordered
  <1>4. \A u \in Range(M) \cup (A \ {i}), j \in 1..Len(log) :
           u < j /\ SameSession(u, j) => j \in Range(M) \cup (A \ {i})
    BY <1>1 DEF Ordered
  <1> QED BY <1>2, <1>3, <1>4 DEF Ordered, M

\* The head of the line settles.
LEMMA OrderedTail ==
  ASSUME NEW L \in Seq(Nat), L # <<>>, NEW A \in SUBSET Nat, Ordered(L, A)
  PROVE  /\ Ordered(Tail(L), A)
         /\ Range(L) = Range(Tail(L)) \cup {Head(L)}
  <1> DEFINE t == Tail(L)
             h == Head(L)
  <1>1. /\ t \in Seq(Nat) /\ Len(L) \in Nat /\ Len(L) >= 1 /\ Len(t) = Len(L) - 1
        /\ \A k \in 1..Len(t) : t[k] = L[k + 1] /\ k + 1 \in 1..Len(L)
        /\ h = L[1] /\ h \in Nat /\ DOMAIN L = 1..Len(L)
    BY TailFacts
  <1>2. DOMAIN t = 1..Len(t)
    BY <1>1
  <1> HIDE DEF t, h
  <1>3. \A k \in 1..Len(L) : k = 1 \/ (k - 1 \in 1..Len(t) /\ (k - 1) + 1 = k)
    BY <1>1
  <1>4. Range(L) = Range(t) \cup {h} /\ h \in Range(L)
    <2>1. Range(L) = {L[k] : k \in 1..Len(L)} /\ Range(t) = {t[k] : k \in 1..Len(t)}
      BY <1>1, RangeEquality
    <2>2. \A k \in 1..Len(L) : L[k] = h \/ L[k] \in Range(t)
      BY <1>1, <1>3, <2>1
    <2>3. \A k \in 1..Len(t) : t[k] \in Range(L)
      BY <1>1, <2>1
    <2>4. 1 \in 1..Len(L)
      BY <1>1
    <2>5. h \in Range(L)
      BY <1>1, <2>1, <2>4
    <2> QED BY <2>1, <2>2, <2>3, <2>5
  <1>5. \A x \in Range(t) : SameSession(h, x) => h < x
    <2> SUFFICES ASSUME NEW k \in 1..Len(t), SameSession(h, t[k]) PROVE h < t[k]
      BY <1>2 DEF Range
    <2>1. 1 \in 1..Len(L) /\ k + 1 \in 1..Len(L) /\ 1 < k + 1 /\ t[k] = L[k + 1]
      BY <1>1
    <2>2. SameSession(L[1], L[k + 1])
      BY <1>1, <2>1
    <2>3. L[1] < L[k + 1]
      BY <1>1, <2>1, <2>2 DEF Ordered
    <2> QED BY <1>1, <2>1, <2>3
  <1>6. \A a \in A : SameSession(h, a) => h < a
    BY <1>4 DEF Ordered
  <1>7. \A x \in Range(t) \cup A : x \in Nat
    <2>1. Range(t) = {t[k] : k \in 1..Len(t)} /\ \A k \in 1..Len(t) : t[k] \in Nat
      BY <1>1, RangeEquality, SMTT(30)
    <2> QED BY <2>1
  <1>9. \A p, q \in DOMAIN t : p < q /\ SameSession(t[p], t[q]) => t[p] < t[q]
    <2> SUFFICES ASSUME NEW p \in 1..Len(t), NEW q \in 1..Len(t), p < q, SameSession(t[p], t[q])
                 PROVE  t[p] < t[q]
      BY <1>2
    <2>1. p + 1 < q + 1
      OBVIOUS
    <2> QED BY <1>1, <2>1 DEF Ordered
  <1>10. \A x \in Range(t), a \in A : SameSession(x, a) => x < a
    BY <1>4 DEF Ordered
  <1>11. \A u \in Range(t) \cup A, j \in 1..Len(log) :
            u < j /\ SameSession(u, j) => j \in Range(t) \cup A
    <2> SUFFICES ASSUME NEW u \in Range(t) \cup A, NEW j \in 1..Len(log), u < j, SameSession(u, j),
                        j \notin Range(t) \cup A
                 PROVE  FALSE
      OBVIOUS
    <2>1. j = h
      BY <1>4 DEF Ordered
    <2>2. h < u
      BY <1>5, <1>6, <2>1 DEF SameSession
    <2> QED BY <1>1, <1>7, <2>1, <2>2
  <1> QED BY <1>4, <1>9, <1>10, <1>11 DEF Ordered, t, h

\* Nothing on the line.
LEMMA OrderedNone ==
  ASSUME NEW A \in SUBSET Nat,
         \A u \in A, j \in 1..Len(log) : u < j /\ SameSession(u, j) => j \in A
  PROVE  Ordered(<<>>, A)
  <1>1. DOMAIN <<>> = {} /\ Range(<<>>) = {}
    BY RangeFacts
  <1> QED BY <1>1 DEF Ordered

\* One id on the line.
LEMMA OrderedOne ==
  ASSUME NEW A \in SUBSET Nat, NEW m \in Nat,
         \A u \in A, j \in 1..Len(log) : u < j /\ SameSession(u, j) => j \in A,
         \A a \in A : SameSession(m, a) => m < a,
         \A j \in 1..Len(log) : m < j /\ SameSession(m, j) => j \in A
  PROVE  Ordered(<<m>>, A)
  <1> DEFINE L == <<m>>
  <1>1. DOMAIN L = {1} /\ Range(L) = {m}
    BY RangeFacts
  <1> HIDE DEF L
  <1>2. \A p, q \in DOMAIN L : ~(p < q)
    BY <1>1
  <1>3. \A u \in Range(L) \cup A, j \in 1..Len(log) :
           u < j /\ SameSession(u, j) => j \in Range(L) \cup A
    BY <1>1
  <1>4. Ordered(L, A)
    BY <1>1, <1>2, <1>3 DEF Ordered
  <1> QED BY <1>4 DEF L

----------------------------------------------------------------------------
(* What a step makes of the client's view.                                 *)

\* Nothing to say.
LEMMA UntrackedView ==
  ASSUME ~Tracked'
  PROVE  ViewInv'
  BY DEF ViewInv, OrderInv, TicketInv, ShownInv

\* A step that moves no id.
LEMMA SameView ==
  ASSUME ViewInv, UNCHANGED <<log, hydrated, sessions>>, Line' = Line, Ahead' = Ahead,
         Tracked' => Tracked, NoControl' => NoControl, ticket'.at = "answered" => ticket' = ticket
  PROVE  ViewInv'
  <1>1. OrderInv'
    BY DEF ViewInv, OrderInv, Ordered, SameSession
  <1>2. Settled' = Settled
    BY DEF Settled, Kept
  <1>3. TicketInv'
    BY <1>2 DEF ViewInv, TicketInv
  <1>4. ShownInv'
    BY <1>2 DEF ViewInv, ShownInv, Opened, Closed
  <1> QED BY <1>1, <1>3, <1>4 DEF ViewInv

\* A step that puts an id on the line.
LEMMA QueuedView ==
  ASSUME ViewInv, UNCHANGED <<log, hydrated, sessions, ticket>>, Tracked, NoControl' => NoControl,
         NEW i \in Nat, Line \in Seq(Nat), Ahead \in SUBSET Nat,
         Line' = Append(Line, i), Ahead' = Ahead \ {i},
         \A x \in Range(Line) : SameSession(x, i) => x < i,
         \A a \in Ahead \ {i} : SameSession(i, a) => i < a,
         \A j \in 1..Len(log) : i < j /\ SameSession(i, j) => j \in Range(Line) \cup Ahead
  PROVE  ViewInv'
  <1>1. Ordered(Line, Ahead)
    BY DEF ViewInv, OrderInv
  <1>2. Ordered(Append(Line, i), Ahead \ {i})
    BY <1>1, OrderedAppend
  <1>3. OrderInv'
    BY <1>2 DEF OrderInv, Ordered, SameSession
  <1>4. Settled' \subseteq Settled
    <2>1. Range(Line') = Range(Line) \cup {i}
      BY AppendFacts
    <2> QED BY <2>1 DEF Settled, Kept
  <1>5. TicketInv'
    BY <1>4 DEF ViewInv, TicketInv
  <1>6. ShownInv'
    BY <1>4 DEF ViewInv, ShownInv, Opened, Closed
  <1> QED BY <1>3, <1>5, <1>6 DEF ViewInv

\* A step after which a notice is under way.
LEMMA FreshView ==
  ASSUME UNCHANGED log, ~NoControl', NEW L, queue' = L, NEW A, Ahead' = A, Ordered(L, A)
  PROVE  ViewInv'
  <1>1. Line' = L
    BY DEF Line
  <1>2. OrderInv'
    BY <1>1 DEF OrderInv, Ordered, SameSession
  <1> QED BY <1>2 DEF ViewInv, TicketInv, ShownInv

----------------------------------------------------------------------------
(* What the steps keep of the base, part by part.                          *)

\* Every session adds at most two events.
LEMMA TwoEach ==
  ASSUME NEW O \in SUBSET Sessions, NEW C \in SUBSET Sessions
  PROVE  /\ Cardinality(O) + Cardinality(C) <= 2 * Cardinality(Sessions)
         /\ Cardinality(O) + Cardinality(C) \in Nat /\ Cardinality(Sessions) \in Nat
  <1>1. /\ IsFiniteSet(O) /\ IsFiniteSet(C)
        /\ Cardinality(O) <= Cardinality(Sessions) /\ Cardinality(C) <= Cardinality(Sessions)
    BY FS_Subset, SyncFeedAssumption
  <1>2. Cardinality(O) \in Nat /\ Cardinality(C) \in Nat /\ Cardinality(Sessions) \in Nat
    BY <1>1, FS_CardinalityType, SyncFeedAssumption
  <1> QED BY <1>1, <1>2

\* The ids are natural numbers of the log.
LEMMA IdFacts ==
  ASSUME IInv
  PROVE  /\ Len(log) \in Nat /\ Len(log) <= 2 * Cardinality(Sessions) /\ Cardinality(Sessions) \in Nat
         /\ unpublished \subseteq 1..Len(log) /\ replay.held \subseteq 1..Len(log)
         /\ replay.boundary \subseteq 1..Len(log) /\ Range(admitted) \subseteq 1..Len(log)
         /\ replay \in Replays /\ replay.cutoff \in Nat /\ backfill \in Backfills
         /\ backfill.since \in Nat /\ backfill.target \in Nat
         /\ backfill.cursor \in Nat /\ backfill.frame \in Nat
         /\ lastSeen \in Nat /\ persisted \in Nat /\ ticket.read \in Nat
         /\ queue \in Seq(Nat) /\ wire \in Seq(Frames) /\ admitted \in Seq(Nat)
  <1>1. Opens \in SUBSET Sessions /\ Closes \in SUBSET Sessions
    BY DEF Opens, Closes, Opened, Closed
  <1>2. Len(log) = Cardinality(Opens) + Cardinality(Closes)
    BY DEF IInv, ShapeInv
  <1>3. Cardinality(Sessions) \in Nat
    BY <1>1, TwoEach
  <1>5. Len(log) \in Nat /\ Len(log) <= 2 * Cardinality(Sessions)
    BY <1>1, <1>2, TwoEach
  <1>6. replay.cutoff \in Nat /\ ticket.read \in Nat
    BY DEF IInv, ShapeInv, Replays, Tickets
  <1>7. /\ backfill.since \in Nat /\ backfill.target \in Nat
        /\ backfill.cursor \in Nat /\ backfill.frame \in Nat
    BY DEF IInv, ShapeInv, Backfills
  <1> QED BY <1>3, <1>5, <1>6, <1>7 DEF IInv, ShapeInv

\* The log alone.
LEMMA LogKept ==
  ASSUME LogInv, UNCHANGED log
  PROVE  LogInv'
  BY DEF LogInv, SameSession

\* What waits, when it is left alone.
LEMMA PubKept ==
  ASSUME PubInv, UNCHANGED <<log, unpublished>>, replay'.held = replay.held,
         replay'.boundary \subseteq replay.boundary
  PROVE  PubInv'
  BY DEF PubInv, SameSession, Waiting

\* The call, when it is left alone.
LEMMA CallKept ==
  ASSUME CallInv, UNCHANGED <<log, ticket, hydrated>>
  PROVE  CallInv'
  BY DEF CallInv

\* What is on its way, when it is left alone.
LEMMA SentKept ==
  ASSUME SentInv, UNCHANGED <<queue, wire, admitted>>
  PROVE  SentInv'
  BY DEF SentInv, NoControl

\* One more let through.
LEMMA SentMore ==
  ASSUME IInv, SentInv, NEW i \in Nat, queue' = Append(queue, i), admitted' = Append(admitted, i),
         UNCHANGED wire
  PROVE  SentInv'
  <1>1. Range(queue') = Range(queue) \cup {i} /\ Range(admitted') = Range(admitted) \cup {i}
    BY AppendFacts, IdFacts
  <1> QED BY <1>1 DEF SentInv, NoControl

\* A new generation is announced behind what is on the wire.
LEMMA SentAnew ==
  ASSUME NEW reason \in {"reset", "cursor_ahead"}, NEW ids, ResetWith(reason, ids), IInv
  PROVE  SentInv' /\ ~NoControl' /\ queue' = ids /\ admitted' = ids
  <1> DEFINE f == Control(reason, generation + 1)
  <1>1. queue' = ids /\ admitted' = ids /\ wire' = Append(wire, f)
    BY DEF ResetWith
  <1>2. f \in Frames /\ f.kind # "event"
    BY DEF Control, Frames, IInv, ShapeInv
  <1> HIDE DEF f
  <1>3. /\ Len(wire) \in Nat /\ wire'[Len(wire) + 1] = f
        /\ 1..Len(wire') = 1..Len(wire) \cup {Len(wire) + 1}
    BY <1>1, <1>2, WireFacts DEF IInv, ShapeInv
  <1>4. ~NoControl'
    BY <1>2, <1>3 DEF NoControl
  <1> QED BY <1>1, <1>4 DEF SentInv

\* The cursors, when the recovery is left alone.
LEMMA CursorKept ==
  ASSUME CursorInv, UNCHANGED <<log, replay, backfill>>, admitted' = admitted \/ admitted' # <<>>,
         Known(lastSeen'), Known(persisted')
  PROVE  CursorInv'
  BY DEF CursorInv, Known, Reading, CutoffAhead

\* An event leaves the unpublished ones in the order of its session.
LEMMA PublishedOrder ==
  ASSUME IInv, PubInv, NEW i \in unpublished, Published(i)
  PROVE  /\ unpublished' = unpublished \ {i}
         /\ \A a \in unpublished \ {i} : SameSession(a, i) => i < a
         /\ \A a \in unpublished \ {i}, j \in 1..Len(log) :
               a < j /\ SameSession(a, j) => j \in unpublished \ {i}
         /\ \A j \in 1..Len(log) : i < j /\ SameSession(i, j) => j \in unpublished \ {i}
  <1>1. unpublished \subseteq Nat
    BY IdFacts
  <1>2. /\ unpublished' = unpublished \ {i}
        /\ \A j \in unpublished : j < i => ~SameSession(j, i)
    BY DEF Published, SameSession
  <1>3. \A a \in unpublished \ {i} : SameSession(a, i) => i < a
    BY <1>1, <1>2 DEF SameSession
  <1>4. ASSUME NEW a \in unpublished \ {i}, NEW j \in 1..Len(log), a < j, SameSession(a, j)
        PROVE  j \in unpublished \ {i}
    <2>1. j \in unpublished
      BY <1>4 DEF PubInv
    <2>2. j # i
      BY <1>2, <1>4
             DEF SameSession
    <2> QED BY <2>1, <2>2
  <1>5. \A j \in 1..Len(log) : i < j /\ SameSession(i, j) => j \in unpublished \ {i}
    BY <1>1 DEF PubInv
  <1> QED BY <1>2, <1>3, <1>4, <1>5

\* Closing the socket.
LEMMA CloseClient ==
  ASSUME IInv, BaseInv, Close, UNCHANGED <<log, persisted>>,
         unpublished' \subseteq unpublished,
         \A a \in unpublished', j \in 1..Len(log) : a < j /\ SameSession(a, j) => j \in unpublished',
         lastSeen' \in {lastSeen, persisted}
  PROVE  ClientInv'
  <1>1. /\ ~up' /\ queue' = <<>> /\ wire' = <<>> /\ admitted' = <<>>
        /\ replay' = IdleReplay /\ backfill' = NoBackfill /\ ticket' = NoTicket
    BY DEF Close
  <1>2. LogInv'
    BY LogKept DEF BaseInv
  <1>3. PubInv'
    BY <1>1 DEF PubInv, Waiting, SameSession, IdleReplay
  <1>4. CursorInv'
    <2>1. /\ Known(lastSeen) /\ Known(persisted) /\ Known(0)
      BY IdFacts DEF BaseInv, CursorInv, Known
    <2>2. Known(lastSeen') /\ Known(persisted')
      BY <2>1
    <2>3. replay'.cutoff = 0 /\ backfill'.at = "none"
      BY <1>1 DEF IdleReplay, NoBackfill
    <2> QED BY <2>1, <2>2, <2>3 DEF CursorInv, Known, Reading
  <1>5. CallInv'
    BY <1>1, IdFacts DEF CallInv, NoTicket
  <1>6. SentInv'
    BY <1>1, RangeFacts DEF SentInv
  <1>7. ViewInv'
    BY <1>1, UntrackedView DEF Tracked
  <1> QED BY <1>2, <1>3, <1>4, <1>5, <1>6, <1>7 DEF ClientInv, BaseInv

----------------------------------------------------------------------------
(* The log, the loss of the link, and the live feed.                       *)

\* The queued part of the interval is part of the log.
LEMMA FloorFacts ==
  ASSUME IInv, CursorInv
  PROVE  /\ Floor \in Nat /\ Floor >= replay.cutoff /\ Floor <= replay.cutoff + 1
         /\ ~CutoffAhead => Floor <= Len(log)
  <1>1. /\ replay.cutoff \in Nat /\ Len(log) \in Nat /\ backfill.cursor \in Nat /\ backfill.target \in Nat
    BY IdFacts
  <1>2. CASE backfill.at = "admit"
    <2>1. replay.cutoff = backfill.cursor
      BY <1>2 DEF CursorInv, Reading
    <2>2. backfill.cursor < backfill.target /\ backfill.target <= Len(log)
      BY <1>2 DEF IInv, TaskInv, Reading
    <2>3. Floor = replay.cutoff + 1
      BY <1>2 DEF Floor
    <2> QED BY <1>1, <2>1, <2>2, <2>3
  <1>3. CASE backfill.at # "admit"
    <2>1. Floor = replay.cutoff
      BY <1>3 DEF Floor
    <2> QED BY <1>1, <2>1 DEF CutoffAhead
  <1> QED BY <1>2, <1>3

\* A committed event is ahead of everything.
LEMMA CommitClient ==
  ASSUME IInv, ClientInv, NEW e \in Events, Commit(e)
  PROVE  ClientInv'
  <1>1. PICK n \in Nat : n = Len(log)
    BY IdFacts, Zenon
  <1>2. /\ e.session \notin Closed(n)
        /\ log' = Append(log, e) /\ unpublished' = unpublished \cup {n + 1}
        /\ UNCHANGED <<up, queue, wire, replay, backfill, admitted, ticket,
                       lastSeen, persisted, hydrated, sessions>>
    BY <1>1 DEF Commit, serverVars, callVars, storeVars
  <1>3. /\ log \in Seq(Events) /\ log' \in Seq(Events) /\ Len(log') = n + 1
        /\ \A i \in 1..n : log'[i] = log[i]
        /\ log'[n + 1] = e /\ 1..(n + 1) = 1..n \cup {n + 1}
    BY <1>1, <1>2 DEF IInv, ShapeInv
  <1>4. \A i \in 1..n : log[i] \in Events
    BY <1>1, <1>3
  <1>5. \A i, j \in 1..n : SameSession(i, j)' <=> SameSession(i, j)
    BY <1>3 DEF SameSession
  <1>6. /\ unpublished \subseteq 1..n /\ replay.held \subseteq 1..n /\ replay.boundary \subseteq 1..n
    BY <1>1, IdFacts
  <1>7. IInv'
    BY CommitPreserves
  <1>8. n + 1 <= 2 * Cardinality(Sessions) /\ Cardinality(Sessions) \in Nat
    <2>1. Opens' \in SUBSET Sessions /\ Closes' \in SUBSET Sessions
      BY DEF Opens, Closes, Opened, Closed
    <2>2. Len(log') = Cardinality(Opens') + Cardinality(Closes')
      BY <1>7 DEF IInv, ShapeInv
    <2> QED BY <1>3, <2>1, <2>2, TwoEach
  <1>9. LogInv'
    <2> SUFFICES ASSUME NEW i \in 1..(n + 1), NEW j \in 1..(n + 1), SameSession(i, j)',
                        log'[i].kind = "opened", log'[j].kind = "closed"
                 PROVE  i < j
      BY <1>3 DEF LogInv
    <2>1. CASE i \in 1..n /\ j \in 1..n
      BY <1>1, <1>3, <1>5, <2>1 DEF ClientInv, BaseInv, LogInv
    <2>2. CASE i \in 1..n /\ j = n + 1
      BY <2>2
    <2>3. CASE i = n + 1 /\ j \in 1..n
      <3>1. log[j].session = e.session /\ log[j].kind = "closed" /\ log[j] \in Events
        BY <1>3, <1>4, <2>3 DEF SameSession
      <3>2. log[j] = [kind |-> "closed", session |-> e.session] /\ e.session \in Sessions
        BY <3>1 DEF Events
      <3>3. e.session \in Closed(n)
        BY <2>3, <3>2 DEF Closed
      <3> QED BY <1>2, <3>3
    <2>4. CASE i = n + 1 /\ j = n + 1
      BY <2>4
    <2> QED BY <1>3, <2>1, <2>2, <2>3, <2>4
  <1>10. PubInv'
    <2>1. /\ \A i \in unpublished, j \in 1..n : i < j /\ SameSession(i, j) => j \in unpublished
          /\ \A i \in replay.held, j \in 1..n : i < j /\ SameSession(i, j) => j \in Waiting
          /\ Waiting \cap replay.boundary = {}
      BY <1>1 DEF ClientInv, BaseInv, PubInv
    <2>2. \A i \in unpublished', j \in 1..(n + 1) : i < j /\ SameSession(i, j)' => j \in unpublished'
      BY <1>2, <1>3, <1>5, <1>6, <2>1
    <2>3. Waiting' = Waiting \cup {n + 1}
      BY <1>2 DEF Waiting
    <2>4. \A i \in replay.held, j \in 1..(n + 1) : i < j /\ SameSession(i, j)' => j \in Waiting'
      BY <1>3, <1>5, <1>6, <2>1, <2>3
    <2>5. n + 1 \notin replay.boundary
      BY <1>6
    <2>6. Waiting' \cap replay.boundary = {}
      BY <2>1, <2>3, <2>5
    <2> QED BY <1>2, <1>3, <2>2, <2>4, <2>6 DEF PubInv
  <1>11. /\ lastSeen \in Nat /\ persisted \in Nat /\ replay.cutoff \in Nat /\ ticket.read \in Nat
    BY IdFacts
  <1>12. \A x \in Nat : Known(x) => Known(x)'
    BY <1>1, <1>3 DEF Known
  <1>13. CutoffAhead <=> CutoffAhead'
    <2>1. Known(replay.cutoff)
      BY DEF ClientInv, BaseInv, CursorInv
    <2> QED BY <1>1, <1>2, <1>3, <1>8, <1>11, <2>1 DEF Known, CutoffAhead
  <1>14. CursorInv'
    <2>1. Known(lastSeen)' /\ Known(persisted)' /\ Known(replay.cutoff)'
      BY <1>2, <1>11, <1>12 DEF ClientInv, BaseInv, CursorInv, Known
    <2> QED BY <1>2, <1>13, <2>1 DEF ClientInv, BaseInv, CursorInv, Reading
  <1>15. CallInv'
    BY <1>1, <1>2, <1>3, <1>11 DEF ClientInv, BaseInv, CallInv
  <1>16. SentInv'
    BY <1>2, SentKept DEF ClientInv, BaseInv
  <1>17. ViewInv'
    <2>1. SUFFICES ASSUME Tracked' PROVE ViewInv'
      BY UntrackedView
    <2>2. Tracked /\ ~CutoffAhead
      BY <1>2, <1>13, <2>1 DEF Tracked, StaleRelease
    <2>3. Floor' = Floor /\ Floor \in Nat /\ Floor <= n
      BY <1>1, <1>2, <2>2, FloorFacts DEF Floor, ClientInv, BaseInv
    <2>4. NoControl' <=> NoControl
      BY <1>2 DEF NoControl
    <2>5. Line' = Line
      BY <1>2, <2>4 DEF Line
    <2>6. Line \in Seq(Nat) /\ Range(Line) \subseteq 1..n /\ Ahead \subseteq 1..n
      BY <1>1, LineFacts DEF ClientInv, BaseInv
    <2>7. Ahead' = Ahead \cup {n + 1}
      <3>1. \A i : Owed(i)' <=> Owed(i)
        BY <1>2 DEF Owed
      <3>2. Ahead' = {i \in 1..(n + 1) : i > Floor /\ (i \in unpublished' \/ (replay.recovering /\ Owed(i)))}
        BY <1>2, <1>3, <2>3, <3>1 DEF Ahead
      <3>3. Ahead = {i \in 1..n : i > Floor /\ (i \in unpublished \/ (replay.recovering /\ Owed(i)))}
        BY <1>1 DEF Ahead
      <3>4. n + 1 > Floor /\ n + 1 \in unpublished'
        BY <1>2, <2>3
      <3>5. \A i \in 1..n : i \in unpublished' <=> i \in unpublished
        BY <1>2
      <3> QED BY <1>3, <3>2, <3>3, <3>4, <3>5
    <2>8. \A k \in DOMAIN Line : Line[k] \in Range(Line)
      BY DEF Range
    <2>9. Ordered(Line, Ahead)
      BY <2>2 DEF ClientInv, ViewInv, OrderInv
    <2>10. OrderInv'
      <3>1. \A p, q \in DOMAIN Line : p < q /\ SameSession(Line[p], Line[q])' => Line[p] < Line[q]
        <4>1. \A p, q \in DOMAIN Line : SameSession(Line[p], Line[q])' <=> SameSession(Line[p], Line[q])
          BY <1>3, <2>5, <2>6, <2>8 DEF SameSession
        <4> QED BY <2>9, <4>1 DEF Ordered
      <3>2. \A x \in Range(Line), a \in Ahead' : SameSession(x, a)' => x < a
        BY <1>5, <2>6, <2>7, <2>9 DEF Ordered
      <3>3. \A i \in Range(Line) \cup Ahead', j \in 1..(n + 1) :
               i < j /\ SameSession(i, j)' => j \in Range(Line) \cup Ahead'
        <4> SUFFICES ASSUME NEW i \in Range(Line) \cup Ahead', NEW j \in 1..(n + 1), i < j,
                            SameSession(i, j)', j # n + 1
                     PROVE  j \in Range(Line) \cup Ahead
          BY <2>7
        <4>1. j \in 1..n
          BY <1>3
        <4>2. i \in Range(Line) \cup Ahead /\ i \in 1..n
          <5>1. ~(n + 1 < j)
            BY <4>1
          <5>2. i # n + 1
            BY <5>1
          <5>3. i \in Range(Line) \cup Ahead
            BY <2>7, <5>2
          <5> QED BY <2>6, <5>3
        <4>3. SameSession(i, j)
          BY <1>5, <4>1, <4>2
        <4> QED BY <1>1, <2>9, <4>1, <4>2, <4>3 DEF Ordered
      <3> QED BY <1>3, <2>5, <3>1, <3>2, <3>3 DEF OrderInv, Ordered, SameSession
    <2>11. Settled' = Settled /\ Settled \subseteq 1..n
      <3>1. /\ Settled' = Kept' \ (Range(Line) \cup (Ahead \cup {n + 1}))
            /\ Settled = Kept \ (Range(Line) \cup Ahead)
        BY <2>5, <2>7 DEF Settled
      <3>2. Kept' = {i \in 1..(n + 1) : log'[i].session \notin Astray}
        BY <1>3 DEF Kept
      <3>3. Kept = {i \in 1..n : log[i].session \notin Astray}
        BY <1>1 DEF Kept
      <3>4. Kept \subseteq Kept' /\ Kept' \subseteq Kept \cup {n + 1} /\ Kept \subseteq 1..n
        BY <1>3, <3>2, <3>3
      <3>5. n + 1 \notin 1..n
        OBVIOUS
      <3> QED BY <3>1, <3>4, <3>5
    <2>12. TicketInv'
      BY <1>2, <2>2, <2>4, <2>11 DEF ClientInv, ViewInv, TicketInv
    <2>13. ShownInv'
      <3>1. Opened(Len(log)) \subseteq Opened(Len(log))' /\ Closed(Len(log)) \subseteq Closed(Len(log))'
        BY <1>1, <1>3 DEF Opened, Closed
      <3>2. \A i \in Settled : log'[i] = log[i]
        BY <1>3, <2>11
      <3> HIDE DEF Settled
      <3> QED BY <1>2, <2>2, <2>4, <2>11, <3>1, <3>2 DEF ClientInv, ViewInv, ShownInv
    <2> QED BY <2>10, <2>12, <2>13 DEF ViewInv
  <1> QED BY <1>9, <1>10, <1>14, <1>15, <1>16, <1>17 DEF ClientInv, BaseInv

\* A lost link, a crash of the coordinator and a reload of the page.
LEMMA LossClient ==
  ASSUME IInv, ClientInv, Drop \/ Crash \/ Reload
  PROVE  ClientInv'
  <1>1. /\ Close /\ UNCHANGED <<log, persisted>> /\ lastSeen' \in {lastSeen, persisted}
        /\ unpublished' = unpublished \/ unpublished' = {}
    BY DEF Drop, Crash, Reload, storeVars
  <1>2. \A a \in unpublished', j \in 1..Len(log) : a < j /\ SameSession(a, j) => j \in unpublished'
    BY <1>1 DEF ClientInv, BaseInv, PubInv
  <1> QED BY <1>1, <1>2, CloseClient DEF ClientInv

\* One id more at the end of the line.
LEMMA LineAppend ==
  ASSUME IInv, NEW i \in Nat, queue' = Append(queue, i), UNCHANGED wire
  PROVE  (NoControl' <=> NoControl) /\ Line' = Append(Line, i)
  <1>1. NoControl' <=> NoControl
    BY DEF NoControl
  <1>2. Joined(wire, Append(queue, i)) = Append(Joined(wire, queue), i)
    BY JoinedAppend, IdFacts
  <1> QED BY <1>1, <1>2 DEF Line

\* The line of a step that leaves the wire and the queue alone.
LEMMA LineKept ==
  ASSUME UNCHANGED <<wire, queue>>
  PROVE  (NoControl' <=> NoControl) /\ Line' = Line
  <1>1. NoControl' <=> NoControl
    BY DEF NoControl
  <1> QED BY <1>1 DEF Line

\* A published event that no socket listens to, or that the client has.
LEMMA PublishedUnseen ==
  ASSUME IInv, ClientInv, NEW i \in unpublished, Published(i), up => i \notin Ahead,
         replay.held = {}, ~replay.recovering,
         UNCHANGED <<log, up, queue, wire, replay, backfill, admitted, ticket,
                     lastSeen, persisted, hydrated, sessions>>
  PROVE  ClientInv'
  <1>1. /\ unpublished' = unpublished \ {i}
        /\ \A a \in unpublished \ {i}, j \in 1..Len(log) :
              a < j /\ SameSession(a, j) => j \in unpublished \ {i}
    BY PublishedOrder DEF ClientInv, BaseInv
  <1>2. LogInv' /\ CallInv' /\ SentInv'
    BY LogKept, CallKept, SentKept DEF ClientInv, BaseInv
  <1>3. PubInv'
    BY <1>1 DEF ClientInv, BaseInv, PubInv, Waiting, SameSession
  <1>4. CursorInv'
    <2>1. Known(lastSeen') /\ Known(persisted')
      BY DEF ClientInv, BaseInv, CursorInv
    <2> QED BY <2>1, CursorKept DEF ClientInv, BaseInv
  <1>5. ViewInv'
    <2>1. SUFFICES ASSUME Tracked' PROVE ViewInv'
      BY UntrackedView
    <2>2. Tracked /\ up
      BY <2>1 DEF Tracked, StaleRelease, CutoffAhead
    <2>3. Ahead' = Ahead
      <3>1. Floor' = Floor
        BY DEF Floor
      <3>2. Ahead = {x \in 1..Len(log) : x > Floor /\ x \in unpublished}
        BY DEF Ahead
      <3>3. Ahead' = {x \in 1..Len(log) : x > Floor /\ x \in unpublished'}
        BY <3>1 DEF Ahead
      <3> QED BY <1>1, <2>2, <3>2, <3>3
    <2> QED BY <2>2, <2>3, LineKept, SameView DEF ClientInv
  <1> QED BY <1>2, <1>3, <1>4, <1>5 DEF ClientInv, BaseInv

\* A live event that is let through is the next of its session.
LEMMA EmitLiveClient ==
  ASSUME IInv, ClientInv, NEW i \in unpublished, EmitLive(i)
  PROVE  ClientInv'
  <1>1. /\ up /\ ~replay.recovering /\ Published(i)
        /\ UNCHANGED <<log, lastSeen, persisted, hydrated, sessions>>
        /\ IF Duplicate(i) THEN UNCHANGED <<serverVars, callVars>> ELSE Enqueue(i)
    BY DEF EmitLive, storeVars
  <1>2. /\ LogInv /\ PubInv /\ CursorInv /\ CallInv /\ SentInv /\ ViewInv
    BY DEF ClientInv, BaseInv
  <1>3. /\ unpublished' = unpublished \ {i}
        /\ \A a \in unpublished \ {i} : SameSession(a, i) => i < a
        /\ \A a \in unpublished \ {i}, j \in 1..Len(log) :
              a < j /\ SameSession(a, j) => j \in unpublished \ {i}
        /\ \A j \in 1..Len(log) : i < j /\ SameSession(i, j) => j \in unpublished \ {i}
    BY <1>1, <1>2, PublishedOrder
  <1>4. replay.held = {}
    BY <1>1 DEF IInv, BoundInv
  <1>5. /\ Floor \in Nat /\ Floor >= replay.cutoff /\ Floor <= replay.cutoff + 1
        /\ replay.cutoff \in Nat /\ i \in 1..Len(log) /\ i \in Nat /\ unpublished \subseteq Nat
    <2>1. /\ Floor \in Nat /\ Floor >= replay.cutoff /\ Floor <= replay.cutoff + 1
      BY <1>2, FloorFacts
    <2> QED BY <2>1, IdFacts, SMTT(30)
  <1>6. i \notin replay.boundary
    BY <1>2 DEF PubInv, Waiting
  <1>7. Ahead = {x \in 1..Len(log) : x > Floor /\ x \in unpublished}
    BY <1>1 DEF Ahead
  <1>8. CASE Duplicate(i)
    <2>1. UNCHANGED <<up, queue, wire, replay, backfill, admitted, ticket>>
      BY <1>1, <1>8 DEF serverVars, callVars
    <2>2. i <= replay.cutoff
      BY <1>6, <1>8 DEF Duplicate
    <2>3. i \notin Ahead
      BY <1>5, <1>7, <2>2
    <2> QED BY <1>1, <1>4, <2>1, <2>3, PublishedUnseen
  <1>9. CASE ~Duplicate(i) /\ ~(Len(queue) < QueueMax)
    <2>1. Close
      BY <1>1, <1>9 DEF Enqueue
    <2>2. /\ unpublished' \subseteq unpublished
          /\ \A a \in unpublished', j \in 1..Len(log) : a < j /\ SameSession(a, j) => j \in unpublished'
      BY <1>3
    <2>3. BaseInv
      BY DEF ClientInv
    <2> QED BY <1>1, <2>1, <2>2, <2>3, CloseClient
  <1>10. CASE ~Duplicate(i) /\ Len(queue) < QueueMax
    <2>1. /\ queue' = Append(queue, i) /\ admitted' = Append(admitted, i)
          /\ UNCHANGED <<up, wire, replay, backfill, ticket>>
      BY <1>1, <1>10 DEF Enqueue, callVars
    <2>2. Range(admitted') = Range(admitted) \cup {i} /\ admitted' # <<>>
      <3>1. Range(admitted') = Range(admitted) \cup {i}
        BY <1>5, <2>1, AppendFacts, IdFacts
      <3>2. Range(admitted') # {}
        BY <3>1
      <3> QED BY <3>1, <3>2, RangeFacts
    <2>3. LogInv' /\ CallInv' /\ SentInv'
      BY <1>1, <1>2, <1>5, <2>1, LogKept, CallKept, SentMore
    <2>4. PubInv'
      BY <1>1, <1>2, <1>3, <1>4, <2>1 DEF PubInv, Waiting, SameSession
    <2>5. CursorInv'
      <3>1. Known(lastSeen') /\ Known(persisted')
        BY <1>1, <1>2 DEF CursorInv
      <3> QED BY <1>1, <1>2, <2>1, <2>2, <3>1, CursorKept
    <2>6. ViewInv'
      <3>1. SUFFICES ASSUME Tracked' PROVE ViewInv'
        BY UntrackedView
      <3>2. Tracked
        BY <1>1, <2>1, <2>2, <3>1 DEF Tracked, StaleRelease, CutoffAhead
      <3>3. (NoControl' <=> NoControl) /\ Line' = Append(Line, i)
        BY <1>5, <2>1, LineAppend
      <3>4. Ahead' = Ahead \ {i}
        <4>1. Floor' = Floor
          BY <2>1 DEF Floor
        <4>2. Ahead' = {x \in 1..Len(log) : x > Floor /\ x \in unpublished'}
          BY <1>1, <2>1, <4>1 DEF Ahead
        <4> QED BY <1>3, <1>7, <4>2
      <3>5. /\ Line \in Seq(Nat) /\ Range(Line) \subseteq 1..Len(log)
            /\ Range(Line) \subseteq Range(admitted) /\ Ahead \in SUBSET Nat
        BY <1>2, LineFacts
      <3>6. ASSUME NEW x \in Range(Line), SameSession(x, i)
            PROVE  x < i
        <4>1. x \notin unpublished \/ Duplicate(x)
          BY <1>1, <3>5, <3>6 DEF IInv, SeamInv
        <4>2. x \in 1..Len(log) /\ x \in Nat
          BY <3>5, <3>6, IdFacts
        <4>3. SameSession(i, x)
          BY <3>6 DEF SameSession
        <4>4. ~(i < x) \/ x \in unpublished
          BY <1>3, <4>2, <4>3
        <4>5. x \in unpublished => x <= replay.cutoff
          BY <1>2, <4>1 DEF Duplicate, PubInv, Waiting
        <4>6. i > replay.cutoff
          BY <1>5, <1>10 DEF Duplicate
        <4> QED BY <1>5, <4>2, <4>4, <4>5, <4>6
      <3>7. \A a \in Ahead \ {i} : SameSession(i, a) => i < a
        BY <1>3, <1>7 DEF SameSession
      <3>8. \A j \in 1..Len(log) : i < j /\ SameSession(i, j) => j \in Range(Line) \cup Ahead
        <4>1. i >= Floor
          BY <1>5, <1>10 DEF Duplicate
        <4>2. \A j \in 1..Len(log) : i < j => j > Floor
          BY <1>5, <4>1
        <4> QED BY <1>3, <1>7, <4>2
      <3> QED BY <1>1, <1>2, <1>5, <2>1, <3>2, <3>3, <3>4, <3>5, <3>6, <3>7, <3>8, QueuedView
    <2> QED BY <2>3, <2>4, <2>5, <2>6 DEF ClientInv, BaseInv
  <1> QED BY <1>8, <1>9, <1>10

\* A live event is held: it stays ahead.
LEMMA HoldLiveClient ==
  ASSUME IInv, ClientInv, NEW i \in unpublished, HoldLive(i)
  PROVE  ClientInv'
  <1>1. /\ up /\ replay.recovering /\ Published(i)
        /\ replay' = [replay EXCEPT !.held = @ \cup {i}]
        /\ UNCHANGED <<log, up, queue, wire, backfill, admitted, ticket,
                       lastSeen, persisted, hydrated, sessions>>
    BY DEF HoldLive, storeVars, callVars
  <1>2. /\ LogInv /\ PubInv /\ CursorInv /\ CallInv /\ SentInv /\ ViewInv
    BY DEF ClientInv, BaseInv
  <1>3. /\ unpublished' = unpublished \ {i}
        /\ \A a \in unpublished \ {i}, j \in 1..Len(log) :
              a < j /\ SameSession(a, j) => j \in unpublished \ {i}
        /\ \A j \in 1..Len(log) : i < j /\ SameSession(i, j) => j \in unpublished \ {i}
    BY <1>1, <1>2, PublishedOrder
  <1>4. /\ replay'.held = replay.held \cup {i}
        /\ replay'.recovering = replay.recovering /\ replay'.aborted = replay.aborted
        /\ replay'.boundary = replay.boundary /\ replay'.cutoff = replay.cutoff
    BY <1>1, IdFacts DEF Replays
  <1>5. LogInv' /\ CallInv' /\ SentInv'
    BY <1>1, <1>2, LogKept, CallKept, SentKept
  <1>6. PubInv'
    <2>1. Waiting' = Waiting
      BY <1>3, <1>4 DEF Waiting
    <2>2. \A a \in replay'.held, j \in 1..Len(log) : a < j /\ SameSession(a, j) => j \in Waiting
      BY <1>2, <1>3, <1>4 DEF PubInv, Waiting
    <2> QED BY <1>1, <1>2, <1>3, <1>4, <2>1, <2>2 DEF PubInv, SameSession
  <1>7. CursorInv'
    BY <1>1, <1>2, <1>4 DEF CursorInv, Known, Reading, CutoffAhead
  <1>8. ViewInv'
    <2>1. Tracked' <=> Tracked
      BY <1>1, <1>4 DEF Tracked, StaleRelease, CutoffAhead
    <2>2. Floor' = Floor
      BY <1>1, <1>4 DEF Floor
    <2>3. \A x : (x \in unpublished' \/ Owed(x)') <=> (x \in unpublished \/ Owed(x))
      BY <1>1, <1>3, <1>4 DEF Owed
    <2>4. Ahead' = Ahead
      BY <1>1, <1>4, <2>2, <2>3 DEF Ahead
    <2> QED BY <1>1, <1>2, <2>1, <2>4, LineKept, SameView
  <1> QED BY <1>5, <1>6, <1>7, <1>8 DEF ClientInv, BaseInv

\* An abandoned recovery: what the live feed has not published is ahead, and
\* that is a session's last events.
LEMMA AbandonedAhead ==
  ASSUME IInv, PubInv, CursorInv, NEW U \in SUBSET unpublished, NEW c \in Nat,
         \A a \in U, j \in 1..Len(log) : a < j /\ SameSession(a, j) => j \in U,
         unpublished' = U, replay' = Abort(replay), UNCHANGED log, Floor' = c
  PROVE  /\ Ahead' = {x \in U : x > c} /\ Ahead' \in SUBSET Nat
         /\ \A u \in Ahead', j \in 1..Len(log) : u < j /\ SameSession(u, j) => j \in Ahead'
  <1>1. U \subseteq 1..Len(log) /\ U \subseteq Nat
    BY IdFacts
  <1>2. ~replay'.recovering
    BY AbortFacts, IdFacts
  <1>3. Ahead' = {x \in U : x > c}
    BY <1>1, <1>2 DEF Ahead
  <1>4. \A u \in U, j \in U : u > c /\ u < j => j > c
    BY <1>1
  <1> HIDE DEF Ahead
  <1>5. \A u \in Ahead', j \in 1..Len(log) : u < j /\ SameSession(u, j) => j \in U
    BY <1>3
  <1> QED BY <1>1, <1>3, <1>4, <1>5

\* The hold overflows: what is released is the next of its session.
LEMMA OverflowLiveClient ==
  ASSUME IInv, ClientInv, NEW i \in unpublished, OverflowLive(i)
  PROVE  ClientInv'
  <1> DEFINE L == LastReleased(i)
             U == unpublished \ {i}
  <1>1. /\ up /\ replay.recovering /\ Published(i) /\ Cardinality(replay.held) >= HoldMax
        /\ replay' = Abort(replay) /\ ResetWith("reset", L)
        /\ UNCHANGED <<log, up, backfill, ticket, lastSeen, persisted, hydrated, sessions>>
    BY DEF OverflowLive, storeVars, callVars
  <1>2. /\ LogInv /\ PubInv /\ CursorInv /\ CallInv /\ SentInv
    BY DEF ClientInv, BaseInv
  <1>3. /\ unpublished' = U
        /\ \A a \in U : SameSession(a, i) => i < a
        /\ \A a \in U, j \in 1..Len(log) : a < j /\ SameSession(a, j) => j \in U
        /\ \A j \in 1..Len(log) : i < j /\ SameSession(i, j) => j \in U
    BY <1>1, <1>2, PublishedOrder
  <1>4. /\ replay'.aborted /\ ~replay'.recovering /\ replay'.held = {}
        /\ replay'.boundary = replay.boundary /\ replay'.cutoff = replay.cutoff
    BY <1>1, IdFacts, AbortFacts
  <1>5. SentInv' /\ ~NoControl' /\ queue' = L /\ admitted' = L
    BY <1>1, SentAnew
  <1>6. /\ i \in 1..Len(log) /\ i \in Nat /\ i \notin replay.boundary
        /\ replay.held \subseteq Nat /\ Len(log) \in Nat /\ replay.cutoff \in Nat
    BY <1>2, IdFacts, SMTT(30) DEF PubInv, Waiting
  <1>7. replay.held # {}
    <2>1. Cardinality({}) = 0
      BY FS_EmptySet
    <2>2. HoldMax \in Nat /\ MaxAppends \in Nat /\ MaxAppends # 0 /\ HoldMax >= MaxAppends
      BY SyncFeedAssumption
    <2> QED BY <1>1, <2>1, <2>2
  <1> DEFINE m == Max(replay.held)
  <1>8. m \in replay.held /\ \A x \in replay.held : x <= m
    <2>1. \A x \in replay.held : x <= Len(log)
      BY <1>6, IdFacts
    <2> QED BY <1>6, <1>7, <2>1, MaxOf
  <1>9. L = IF Duplicate(i) THEN <<m>> ELSE <<i>>
    BY <1>7 DEF LastReleased
  <1>10. Duplicate(i) <=> i <= replay.cutoff
    BY <1>6 DEF Duplicate
  <1> HIDE DEF L, m
  <1>11. LogInv' /\ CallInv'
    BY <1>1, <1>2, LogKept, CallKept
  <1>12. PubInv'
    BY <1>1, <1>2, <1>3, <1>4 DEF PubInv, Waiting, SameSession
  <1>13. CursorInv'
    <2>1. L # <<>>
      BY <1>9
    <2> QED BY <1>1, <1>2, <1>4, <1>5, <2>1 DEF CursorInv, Known, Reading, CutoffAhead
  <1>14. ViewInv'
    <2>1. SUFFICES ASSUME Tracked' PROVE ViewInv'
      BY UntrackedView
    <2>2. PICK c \in Nat : c = Floor /\ c >= replay.cutoff /\ c <= replay.cutoff + 1
      BY <1>2, FloorFacts, Zenon
    <2>3. Floor' = c
      BY <1>1, <1>4, <2>2 DEF Floor
    <2>4. \A x \in Range(L) : ~(x <= replay.cutoff)
      BY <1>4, <1>5, <2>1 DEF Tracked, StaleRelease
    <2>5. /\ Ahead' = {x \in U : x > c} /\ Ahead' \in SUBSET Nat
          /\ \A u \in Ahead', j \in 1..Len(log) : u < j /\ SameSession(u, j) => j \in Ahead'
      BY <1>1, <1>2, <1>3, <2>3, AbandonedAhead
    <2>6. CASE ~Duplicate(i)
      <3>1. L = <<i>> /\ i >= c
        BY <1>6, <1>9, <1>10, <2>2, <2>6
      <3>2. \A j \in 1..Len(log) : i < j => j > c
        BY <1>6, <3>1
      <3>3. \A a \in Ahead' : SameSession(i, a) => i < a
        BY <1>3, <2>5 DEF SameSession
      <3>4. \A j \in 1..Len(log) : i < j /\ SameSession(i, j) => j \in Ahead'
        BY <1>3, <2>5, <3>2
      <3>5. Ordered(<<i>>, Ahead')
        BY <1>6, <2>5, <3>3, <3>4, OrderedOne
      <3> QED BY <1>1, <1>5, <3>1, <3>5, FreshView
    <2>7. CASE Duplicate(i)
      <3>1. L = <<m>> /\ m \in Nat /\ m \notin unpublished /\ m \in 1..Len(log)
        BY <1>6, <1>8, <1>9, <2>7, IdFacts DEF IInv, TaskInv
      <3>2. m > replay.cutoff
        <4>1. m \in Range(L)
          BY <3>1, RangeFacts
        <4> QED BY <1>6, <2>4, <3>1, <4>1
      <3>3. \A j \in 1..Len(log) : m < j => j > c /\ j # i /\ ~(j <= m)
        BY <1>6, <1>10, <2>2, <2>7, <3>1, <3>2
      <3>4. ASSUME NEW a \in Ahead', SameSession(m, a)
            PROVE  m < a
        <4>1. a \in unpublished /\ a \in Nat
          BY <2>5, <3>4
        <4>2. SameSession(a, m)
          BY <3>4 DEF SameSession
        <4>3. ~(a < m)
          BY <1>2, <3>1, <4>1, <4>2 DEF PubInv
        <4> QED BY <3>1, <4>1, <4>3
      <3>5. ASSUME NEW j \in 1..Len(log), m < j, SameSession(m, j)
            PROVE  j \in Ahead'
        <4>1. j \in Waiting
          BY <1>2, <1>8, <3>5 DEF PubInv
        <4>2. j \notin replay.held
          BY <1>8, <3>3, <3>5
        <4>3. j \in U
          BY <3>3, <3>5, <4>1, <4>2 DEF Waiting
        <4> QED BY <2>5, <3>3, <3>5, <4>3
      <3>6. Ordered(<<m>>, Ahead')
        BY <2>5, <3>1, <3>4, <3>5, OrderedOne
      <3> QED BY <1>1, <1>5, <3>1, <3>6, FreshView
    <2> QED BY <2>6, <2>7
  <1> QED BY <1>5, <1>11, <1>12, <1>13, <1>14 DEF ClientInv, BaseInv

\* A published event, on every path.
LEMMA RouteClient ==
  ASSUME IInv, ClientInv, NEW i \in unpublished, Route(i)
  PROVE  ClientInv'
  <1>1. CASE NotListening(i)
    <2>1. /\ ~up /\ Published(i)
          /\ UNCHANGED <<log, up, queue, wire, replay, backfill, admitted, ticket,
                         lastSeen, persisted, hydrated, sessions>>
      BY <1>1 DEF NotListening, serverVars, callVars, storeVars
    <2>2. replay.held = {} /\ ~replay.recovering
      BY <2>1 DEF IInv, DomainInv, IdleReplay
    <2> QED BY <2>1, <2>2, PublishedUnseen
  <1> QED BY <1>1, EmitLiveClient, HoldLiveClient, OverflowLiveClient DEF Route

----------------------------------------------------------------------------
(* The recovery task.                                                      *)

\* The rows of the interval that are not queued are ahead as they were with
\* the whole log; a cursor ahead of the log leaves the bookkeeping untracked
\* until the reset.
LEMMA ReadEndClient ==
  ASSUME IInv, ClientInv, BackfillReadEnd
  PROVE  ClientInv'
  <1>1. /\ backfill.at = "start"
        /\ UNCHANGED <<log, unpublished, up, queue, wire, admitted, ticket,
                       lastSeen, persisted, hydrated, sessions>>
    BY DEF BackfillReadEnd, callVars, storeVars
  <1>2. /\ LogInv /\ PubInv /\ CursorInv /\ CallInv /\ SentInv /\ ViewInv
    BY DEF ClientInv, BaseInv
  <1>3. /\ backfill \in Backfills /\ replay \in Replays /\ Len(log) \in Nat
        /\ backfill.since \in Nat /\ Range(admitted) \subseteq 1..Len(log) /\ admitted \in Seq(Nat)
    BY IdFacts
  <1>4. replay.cutoff = backfill.cursor /\ backfill.cursor = backfill.since
    BY <1>1, <1>2 DEF CursorInv, IInv, TaskInv
  <1>5. LogInv' /\ CallInv' /\ SentInv'
    BY <1>1, <1>2, LogKept, CallKept, SentKept
  <1>6. CASE Len(log) < backfill.since
    <2>1. /\ backfill' = [backfill EXCEPT !.at = "ahead"]
          /\ replay' = [replay EXCEPT !.cutoff = Len(log)]
      BY <1>6 DEF BackfillReadEnd, MoveBackfill
    <2>2. backfill'.at = "ahead"
      BY <1>3, <2>1 DEF Backfills
    <2>3. /\ replay'.held = replay.held /\ replay'.boundary = replay.boundary
          /\ replay'.aborted = replay.aborted /\ replay'.cutoff = Len(log)
      BY <1>3, <2>1 DEF Replays
    <2>4. PubInv'
      BY <1>1, <1>2, <2>3, PubKept
    <2>5. CursorInv'
      <3>1. Len(log) <= Len(log)
        BY <1>3
      <3> QED BY <1>1, <1>2, <2>2, <2>3, <3>1 DEF CursorInv, Known, Reading
    <2>6. ~Tracked'
      <3>1. CASE ~replay.aborted
        BY <2>2, <2>3, <3>1 DEF Tracked
      <3>2. CASE replay.aborted
        <4>1. admitted # <<>>
          BY <1>1, <1>2, <1>4, <1>6, <3>2 DEF CursorInv, CutoffAhead
        <4>2. Head(admitted) \in Range(admitted)
          BY <1>3, <4>1, TailFacts
        <4>3. Head(admitted) <= Len(log)
          BY <1>3, <4>2
        <4> QED BY <1>1, <2>3, <3>2, <4>2, <4>3 DEF Tracked, StaleRelease
      <3> QED BY <3>1, <3>2
    <2> QED BY <1>5, <2>4, <2>5, <2>6, UntrackedView DEF ClientInv, BaseInv
  <1>7. CASE ~(Len(log) < backfill.since)
    <2>1. /\ backfill' = [backfill EXCEPT !.at = "row", !.target = Len(log)]
          /\ replay' = replay
      BY <1>7 DEF BackfillReadEnd
    <2>2. /\ backfill'.at = "row" /\ backfill'.cursor = backfill.cursor /\ backfill'.target = Len(log)
      BY <1>3, <2>1 DEF Backfills
    <2>3. PubInv'
      BY <1>1, <1>2, <2>1, PubKept
    <2>4. CursorInv'
      BY <1>1, <1>2, <1>4, <2>1, <2>2 DEF CursorInv, Known, Reading
    <2>5. Tracked' => Tracked
      BY <1>1, <2>1 DEF Tracked, StaleRelease, CutoffAhead
    <2>6. Ahead' = Ahead
      <3>1. Floor' = Floor
        BY <1>1, <2>1, <2>2 DEF Floor
      <3>2. \A x \in 1..Len(log) : Owed(x) /\ Owed(x)'
        BY <1>1, <1>3, <2>2 DEF Owed
      <3> QED BY <1>1, <2>1, <3>1, <3>2 DEF Ahead
    <2>7. ViewInv'
      BY <1>1, <1>2, <2>5, <2>6, LineKept, SameView
    <2> QED BY <1>5, <2>3, <2>4, <2>7 DEF ClientInv, BaseInv
  <1> QED BY <1>6, <1>7

\* The task gives up: after a reset the live feed alone is ahead.
LEMMA GiveUpClient ==
  ASSUME IInv, ClientInv, BackfillCursorAhead \/ BackfillReadFails \/ BackfillStops
  PROVE  ClientInv'
  <1>1. /\ backfill.at \notin {"none", "admit"} /\ backfill' = NoBackfill
        /\ UNCHANGED <<log, unpublished, up, ticket, lastSeen, persisted, hydrated, sessions>>
    BY DEF BackfillCursorAhead, BackfillReadFails, BackfillStops, callVars, storeVars
  <1>2. /\ LogInv /\ PubInv /\ CursorInv /\ CallInv /\ SentInv /\ ViewInv
    BY DEF ClientInv, BaseInv
  <1>3. LogInv' /\ CallInv'
    BY <1>1, <1>2, LogKept, CallKept
  <1>4. backfill'.at = "none"
    BY <1>1 DEF NoBackfill
  <1>5. ASSUME replay.aborted, UNCHANGED <<queue, wire, replay, admitted>>
        PROVE  ClientInv'
    <2>1. PubInv' /\ SentInv'
      BY <1>1, <1>2, <1>5, PubKept, SentKept
    <2>2. CursorInv'
      BY <1>1, <1>2, <1>4, <1>5 DEF CursorInv, Known, Reading
    <2>3. Tracked' => Tracked
      BY <1>1, <1>5 DEF Tracked, StaleRelease, CutoffAhead
    <2>4. Ahead' = Ahead
      <3>1. Floor' = Floor
        BY <1>1, <1>4, <1>5 DEF Floor
      <3>2. ~replay.recovering
        BY <1>5 DEF IInv, TaskInv
      <3> QED BY <1>1, <1>5, <3>1, <3>2 DEF Ahead
    <2>5. ViewInv'
      BY <1>1, <1>2, <1>5, <2>3, <2>4, LineKept, SameView
    <2> QED BY <1>3, <2>1, <2>2, <2>5 DEF ClientInv, BaseInv
  <1>6. ASSUME NEW reason \in {"reset", "cursor_ahead"}, ResetWith(reason, <<>>), replay' = Abort(replay)
        PROVE  ClientInv'
    <2>1. SentInv' /\ ~NoControl' /\ queue' = <<>> /\ admitted' = <<>>
      BY <1>6, SentAnew
    <2>2. /\ replay'.held = {} /\ replay'.boundary = replay.boundary /\ replay'.cutoff = replay.cutoff
          /\ replay.cutoff \in Nat
      BY <1>6, IdFacts, AbortFacts
    <2>3. PubInv'
      BY <1>1, <1>2, <2>2 DEF PubInv, Waiting, SameSession
    <2>4. CursorInv'
      BY <1>1, <1>2, <1>4, <2>2 DEF CursorInv, Known, Reading
    <2>5. Floor' = replay.cutoff
      BY <1>4, <2>2 DEF Floor
    <2>6. \A a \in unpublished, j \in 1..Len(log) : a < j /\ SameSession(a, j) => j \in unpublished
      BY <1>2 DEF PubInv
    <2>7. /\ Ahead' \in SUBSET Nat
          /\ \A u \in Ahead', j \in 1..Len(log) : u < j /\ SameSession(u, j) => j \in Ahead'
      BY <1>1, <1>2, <1>6, <2>2, <2>5, <2>6, AbandonedAhead
    <2>8. Ordered(<<>>, Ahead')
      BY <2>7, OrderedNone
    <2>9. ViewInv'
      BY <1>1, <2>1, <2>8, FreshView
    <2> QED BY <1>3, <2>1, <2>3, <2>4, <2>9 DEF ClientInv, BaseInv
  <1>7. CASE BackfillCursorAhead
    BY <1>5, <1>6, <1>7 DEF BackfillCursorAhead
  <1>8. CASE BackfillReadFails
    BY <1>6, <1>8 DEF BackfillReadFails
  <1>9. CASE BackfillStops
    BY <1>5, <1>9 DEF BackfillStops
  <1> QED BY <1>7, <1>8, <1>9

\* The next row of the interval is the least id ahead.
LEMMA RowClient ==
  ASSUME IInv, ClientInv, BackfillRow
  PROVE  ClientInv'
  <1> DEFINE i == backfill.cursor + 1
  <1>1. /\ backfill.at = "row" /\ ~replay.aborted /\ backfill.cursor < backfill.target
        /\ backfill' = [backfill EXCEPT !.at = "admit"]
        /\ queue' = Append(queue, i) /\ admitted' = Append(admitted, i)
        /\ UNCHANGED <<log, unpublished, up, wire, replay, ticket,
                       lastSeen, persisted, hydrated, sessions>>
    BY DEF BackfillRow, MoveBackfill, Paced, callVars, storeVars
  <1>2. /\ LogInv /\ PubInv /\ CursorInv /\ CallInv /\ SentInv /\ ViewInv
    BY DEF ClientInv, BaseInv
  <1>3. /\ backfill \in Backfills /\ backfill.cursor \in Nat /\ backfill.target \in Nat
        /\ Len(log) \in Nat
    BY IdFacts
  <1>4. /\ backfill'.at = "admit" /\ backfill'.cursor = backfill.cursor
        /\ backfill'.target = backfill.target
    BY <1>1, <1>3 DEF Backfills
  <1>5. replay.recovering /\ backfill.target <= Len(log) /\ replay.cutoff = backfill.cursor
    BY <1>1, <1>2 DEF IInv, TaskInv, Reading, Active, CursorInv
  <1>6. i \in Nat /\ i \in 1..Len(log) /\ i <= backfill.target /\ i > replay.cutoff
    BY <1>1, <1>3, <1>5
  <1>7. LogInv' /\ CallInv' /\ PubInv'
    BY <1>1, <1>2, LogKept, CallKept, PubKept
  <1>8. SentInv'
    BY <1>1, <1>2, <1>6, SentMore
  <1>9. CursorInv'
    BY <1>1, <1>2, <1>4, <1>5 DEF CursorInv, Known, Reading
  <1>10. ViewInv'
    <2>1. SUFFICES ASSUME Tracked' PROVE ViewInv'
      BY UntrackedView
    <2>2. Tracked
      BY <1>1, <2>1 DEF Tracked, StaleRelease, CutoffAhead
    <2>3. Floor = replay.cutoff /\ Floor' = i
      BY <1>1, <1>4, <1>5 DEF Floor
    <2>4. \A x \in 1..Len(log) : (x > i <=> x > replay.cutoff /\ x # i)
      BY <1>3, <1>5
    <2>5. \A x : Owed(x)' <=> Owed(x)
      BY <1>1, <1>4 DEF Owed
    <2>6. Owed(i)
      BY <1>6 DEF Owed
    <2> HIDE DEF i
    <2>7. i \in Ahead
      BY <1>5, <1>6, <2>3, <2>6 DEF Ahead
    <2>8. Ahead' = {x \in 1..Len(log) : x > i /\ (x \in unpublished \/ (replay.recovering /\ Owed(x)))}
      BY <1>1, <2>3, <2>5 DEF Ahead
    <2>9. Ahead = {x \in 1..Len(log) : x > replay.cutoff /\ (x \in unpublished \/ (replay.recovering /\ Owed(x)))}
      BY <2>3 DEF Ahead
    <2>10. Ahead' = Ahead \ {i}
      BY <2>4, <2>8, <2>9
    <2>11. \A a \in Ahead \ {i} : i < a
      <3>1. \A a \in Ahead \ {i} : a > i /\ a \in Nat
        BY <2>8, <2>10
      <3> QED BY <1>6, <3>1
    <2>12. (NoControl' <=> NoControl) /\ Line' = Append(Line, i)
      BY <1>1, <1>6, LineAppend
    <2>13. Line \in Seq(Nat) /\ Ahead \in SUBSET Nat
      BY <1>2, LineFacts
    <2>14. /\ \A x \in Range(Line) : SameSession(x, i) => x < i
           /\ \A j \in 1..Len(log) : i < j /\ SameSession(i, j) => j \in Range(Line) \cup Ahead
      BY <1>2, <2>2, <2>7 DEF ViewInv, OrderInv, Ordered
    <2> QED BY <1>1, <1>2, <1>6, <2>2, <2>10, <2>11, <2>12, <2>13, <2>14, QueuedView
  <1> QED BY <1>7, <1>8, <1>9, <1>10 DEF ClientInv, BaseInv

\* The cutoff follows the row.
LEMMA AdmitClient ==
  ASSUME IInv, ClientInv, BackfillAdmit
  PROVE  ClientInv'
  <1> DEFINE i == backfill.cursor + 1
  <1>1. /\ backfill.at = "admit"
        /\ replay' = IF i <= replay.cutoff THEN replay
                     ELSE [replay EXCEPT !.cutoff = i, !.boundary = @ \ {i}]
        /\ backfill' = [backfill EXCEPT !.at = "row", !.cursor = i]
        /\ UNCHANGED <<log, unpublished, up, queue, wire, admitted, ticket,
                       lastSeen, persisted, hydrated, sessions>>
    BY DEF BackfillAdmit, callVars, storeVars
  <1>2. /\ LogInv /\ PubInv /\ CursorInv /\ CallInv /\ SentInv /\ ViewInv
    BY DEF ClientInv, BaseInv
  <1>3. /\ backfill \in Backfills /\ replay \in Replays /\ Len(log) \in Nat
        /\ backfill.cursor \in Nat /\ backfill.target \in Nat
    BY IdFacts
  <1>4. /\ backfill.cursor < backfill.target /\ backfill.target <= Len(log)
        /\ replay.cutoff = backfill.cursor
    BY <1>1, <1>2 DEF IInv, TaskInv, Reading, CursorInv
  <1>5. i \in Nat /\ ~(i <= replay.cutoff) /\ i <= Len(log) /\ replay.cutoff <= i
        /\ replay.cutoff <= Len(log) /\ i = replay.cutoff + 1
    BY <1>3, <1>4
  <1> HIDE DEF i
  <1>6. /\ replay'.held = replay.held /\ replay'.boundary \subseteq replay.boundary
        /\ replay'.recovering = replay.recovering /\ replay'.aborted = replay.aborted
        /\ replay'.cutoff = i
    BY <1>1, <1>3, <1>5 DEF Replays
  <1>7. /\ backfill'.at = "row" /\ backfill'.cursor = i /\ backfill'.target = backfill.target
    BY <1>1, <1>3, <1>5 DEF Backfills
  <1>8. LogInv' /\ CallInv' /\ PubInv' /\ SentInv'
    BY <1>1, <1>2, <1>6, LogKept, CallKept, PubKept, SentKept
  <1>9. CursorInv'
    BY <1>1, <1>2, <1>5, <1>6, <1>7 DEF CursorInv, Known, Reading
  <1>10. ViewInv'
    <2>1. Tracked' => Tracked
      <3>1. \A x \in Range(admitted) : x <= replay.cutoff => x <= i
        <4>1. \A x \in Range(admitted) : x \in Nat
          BY IdFacts
        <4> QED BY <1>5, <4>1, IdFacts
      <3>2. StaleRelease => StaleRelease'
        BY <1>1, <1>6, <3>1 DEF StaleRelease
      <3>3. ~CutoffAhead
        BY <1>3, <1>4, <1>5 DEF CutoffAhead
      <3> QED BY <1>1, <3>2, <3>3 DEF Tracked
    <2>2. Floor' = Floor
      BY <1>1, <1>5, <1>6, <1>7 DEF Floor
    <2>3. \A x : Owed(x)' <=> Owed(x)
      BY <1>1, <1>6, <1>7 DEF Owed
    <2>4. Ahead' = Ahead
      BY <1>1, <1>6, <2>2, <2>3 DEF Ahead
    <2> QED BY <1>1, <1>2, <2>1, <2>4, LineKept, SameView
  <1> QED BY <1>8, <1>9, <1>10 DEF ClientInv, BaseInv

\* A held event that is taken stays ahead, and with none left the live feed
\* alone is.
LEMMA PopTailClient ==
  ASSUME IInv, ClientInv, BackfillPopTail
  PROVE  ClientInv'
  <1>1. /\ backfill.at = "row" /\ ~replay.aborted /\ backfill.cursor = backfill.target
        /\ UNCHANGED <<log, unpublished, up, queue, wire, admitted, ticket,
                       lastSeen, persisted, hydrated, sessions>>
    BY DEF BackfillPopTail, callVars, storeVars
  <1>2. /\ LogInv /\ PubInv /\ CursorInv /\ CallInv /\ SentInv /\ ViewInv
    BY DEF ClientInv, BaseInv
  <1>3. /\ backfill \in Backfills /\ replay \in Replays /\ Len(log) \in Nat
        /\ backfill.target \in Nat /\ replay.held \subseteq 1..Len(log)
    BY IdFacts
  <1>4. /\ replay.recovering /\ replay.cutoff = backfill.target
        /\ replay.held \cap unpublished = {} /\ replay.held \cap replay.boundary = {}
    BY <1>1, <1>2 DEF IInv, TaskInv, Reading, Active, CursorInv, PubInv, Waiting
  <1>5. LogInv' /\ CallInv' /\ SentInv'
    BY <1>1, <1>2, LogKept, CallKept, SentKept
  <1>6. HeldTail = {x \in replay.held : x > backfill.target}
    BY <1>4 DEF HeldTail
  <1>7. Ahead = {x \in 1..Len(log) : x > backfill.target /\ (x \in unpublished \/ x \in HeldTail)}
    <2>1. Floor = backfill.target
      BY <1>1, <1>4 DEF Floor
    <2>2. \A x \in 1..Len(log) : x > backfill.target => (Owed(x) <=> x \in HeldTail)
      BY <1>1, <1>3, <1>6 DEF Owed
    <2> QED BY <1>4, <2>1, <2>2 DEF Ahead
  <1>8. CASE HeldTail = {}
    <2>1. /\ replay' = [replay EXCEPT !.cutoff = backfill.target, !.recovering = FALSE, !.held = {}]
          /\ backfill' = [backfill EXCEPT !.at = "done"]
      BY <1>8 DEF BackfillPopTail, MoveBackfill
    <2>2. /\ backfill'.at = "done"
      BY <1>3, <2>1 DEF Backfills
    <2>3. /\ replay'.held = {} /\ replay'.boundary = replay.boundary
          /\ ~replay'.recovering /\ ~replay'.aborted /\ replay'.cutoff = backfill.target
      BY <1>1, <1>3, <2>1 DEF Replays
    <2>4. PubInv'
      BY <1>1, <1>2, <2>3 DEF PubInv, Waiting, SameSession
    <2>5. CursorInv'
      BY <1>1, <1>2, <1>4, <2>2, <2>3 DEF CursorInv, Known, Reading
    <2>6. Tracked' => Tracked
      BY <1>1, <1>4, <2>3 DEF Tracked, StaleRelease, CutoffAhead
    <2>7. Ahead' = Ahead
      <3>1. Floor' = backfill.target
        BY <2>2, <2>3 DEF Floor
      <3>2. Ahead' = {x \in 1..Len(log) : x > backfill.target /\ x \in unpublished}
        BY <1>1, <2>3, <3>1 DEF Ahead
      <3> QED BY <1>7, <1>8, <3>2
    <2>8. ViewInv'
      BY <1>1, <1>2, <2>6, <2>7, LineKept, SameView
    <2> QED BY <1>5, <2>4, <2>5, <2>8 DEF ClientInv, BaseInv
  <1>9. CASE HeldTail # {}
    <2> DEFINE m == Min(HeldTail)
               H == {x \in HeldTail : x > m}
    <2>1. /\ replay' = [replay EXCEPT !.cutoff = backfill.target,
                          !.boundary = @ \cup {m}, !.held = H]
          /\ backfill' = [backfill EXCEPT !.at = "tail", !.frame = m]
      BY <1>9 DEF BackfillPopTail
    <2>2. HeldTail \in SUBSET Nat
      BY <1>3, <1>6
    <2>3. m \in HeldTail /\ \A x \in HeldTail : m <= x
      BY <1>9, <2>2, MinOf
    <2> HIDE DEF m
    <2>4. HeldTail = H \cup {m} /\ m \notin H
      <3>1. \A x \in HeldTail : x > m <=> x # m
        BY <2>2, <2>3
      <3>2. H = {x \in HeldTail : x # m}
        BY <3>1
      <3> QED BY <2>3, <3>2
    <2>5. \A x, y \in HeldTail : x \in H /\ x < y => y \in H
      BY <2>2, <2>3
    <2> HIDE DEF H
    <2>6. /\ backfill'.at = "tail" /\ backfill'.target = backfill.target
          /\ backfill'.cursor = backfill.cursor /\ backfill'.frame = m
      BY <1>3, <2>1 DEF Backfills
    <2>7. /\ replay'.held = H /\ replay'.boundary = replay.boundary \cup {m}
          /\ replay'.recovering /\ ~replay'.aborted /\ replay'.cutoff = backfill.target
      BY <1>1, <1>3, <1>4, <2>1 DEF Replays
    <2>8. PubInv'
      <3>1. m \notin unpublished /\ H \subseteq replay.held
        BY <1>4, <1>6, <2>4
      <3>2. ASSUME NEW a \in H, NEW j \in 1..Len(log), a < j, SameSession(a, j)
            PROVE  j \in unpublished \cup H
        <4>1. a \in replay.held /\ a \in HeldTail /\ a > backfill.target /\ a \in Nat
          BY <1>6, <2>2, <2>4, <3>2
        <4>2. j \in unpublished \/ j \in replay.held
          BY <1>2, <3>2, <4>1 DEF PubInv, Waiting
        <4>3. j > backfill.target
          BY <1>3, <3>2, <4>1
        <4>4. j \in replay.held => j \in HeldTail
          BY <1>6, <4>3
        <4> QED BY <2>5, <3>2, <4>1, <4>2, <4>4
      <3>3. (unpublished \cup H) \cap (replay.boundary \cup {m}) = {}
        BY <1>2, <2>4, <3>1 DEF PubInv, Waiting
      <3> QED BY <1>1, <1>2, <2>7, <3>2, <3>3 DEF PubInv, Waiting, SameSession
    <2>9. CursorInv'
      BY <1>1, <1>2, <1>4, <2>6, <2>7 DEF CursorInv, Known, Reading
    <2>10. Tracked' => Tracked
      BY <1>1, <1>4, <2>7 DEF Tracked, StaleRelease, CutoffAhead
    <2>11. Ahead' = Ahead
      <3>1. Floor' = backfill.target
        BY <2>6, <2>7 DEF Floor
      <3>2. \A x \in 1..Len(log) : x > backfill.target => (Owed(x)' <=> x \in HeldTail)
        BY <1>3, <2>4, <2>6, <2>7 DEF Owed
      <3>3. Ahead' = {x \in 1..Len(log) : x > backfill.target /\ (x \in unpublished \/ Owed(x)')}
        BY <1>1, <2>7, <3>1 DEF Ahead
      <3> QED BY <1>7, <3>2, <3>3
    <2>12. ViewInv'
      BY <1>1, <1>2, <2>10, <2>11, LineKept, SameView
    <2> QED BY <1>5, <2>8, <2>9, <2>12 DEF ClientInv, BaseInv
  <1> QED BY <1>8, <1>9

\* The event taken from the hold is the next of its session.
LEMMA TailClient ==
  ASSUME IInv, ClientInv, BackfillTail
  PROVE  ClientInv'
  <1> DEFINE i == backfill.frame
  <1>1. /\ backfill.at = "tail" /\ ~replay.aborted
        /\ backfill' = [backfill EXCEPT !.at = "row", !.frame = 0]
        /\ queue' = Append(queue, i) /\ admitted' = Append(admitted, i)
        /\ UNCHANGED <<log, unpublished, up, wire, replay, ticket,
                       lastSeen, persisted, hydrated, sessions>>
    BY DEF BackfillTail, Paced, callVars, storeVars
  <1>2. /\ LogInv /\ PubInv /\ CursorInv /\ CallInv /\ SentInv /\ ViewInv
    BY DEF ClientInv, BaseInv
  <1>3. /\ backfill \in Backfills /\ backfill.target \in Nat /\ Len(log) \in Nat /\ i \in Nat
        /\ replay.boundary \subseteq 1..Len(log) /\ unpublished \subseteq 1..Len(log)
        /\ replay.held \subseteq 1..Len(log)
    BY IdFacts
  <1>4. /\ backfill'.at = "row" /\ backfill'.cursor = backfill.cursor
        /\ backfill'.target = backfill.target
    BY <1>1, <1>3 DEF Backfills
  <1>5. /\ i \in replay.boundary /\ backfill.cursor = backfill.target /\ replay.recovering
        /\ i > backfill.target /\ replay.cutoff = backfill.target
    BY <1>1, <1>2 DEF IInv, TaskInv, Reading, Active, CursorInv
  <1>6. i \in 1..Len(log) /\ i \notin Waiting
    BY <1>2, <1>3, <1>5 DEF PubInv
  <1>7. LogInv' /\ CallInv' /\ PubInv'
    BY <1>1, <1>2, LogKept, CallKept, PubKept
  <1>8. SentInv'
    BY <1>1, <1>2, <1>3, SentMore
  <1>9. CursorInv'
    BY <1>1, <1>2, <1>4, <1>5 DEF CursorInv, Known, Reading
  <1>10. ViewInv'
    <2>1. SUFFICES ASSUME Tracked' PROVE ViewInv'
      BY UntrackedView
    <2>2. Tracked
      BY <1>1, <2>1 DEF Tracked, StaleRelease, CutoffAhead
    <2>3. Floor = backfill.target /\ Floor' = backfill.target
      BY <1>1, <1>4, <1>5 DEF Floor
    <2>4. \A x \in 1..Len(log) : x > backfill.target =>
             /\ Owed(x) <=> x \in replay.held \/ x = i
             /\ Owed(x)' <=> x \in replay.held
      BY <1>1, <1>3, <1>4 DEF Owed
    <2> HIDE DEF i
    <2>5. Ahead = {x \in 1..Len(log) : x > backfill.target /\ (x \in Waiting \/ x = i)}
      BY <1>5, <2>3, <2>4 DEF Ahead, Waiting
    <2>6. Ahead' = {x \in 1..Len(log) : x > backfill.target /\ x \in Waiting}
      BY <1>1, <1>5, <2>3, <2>4 DEF Ahead, Waiting
    <2>7. Ahead' = Ahead \ {i} /\ i \in Ahead
      BY <1>5, <1>6, <2>5, <2>6
    <2>8. ASSUME NEW a \in Ahead \ {i}, SameSession(i, a)
          PROVE  i < a
      <3>1. a \in Waiting /\ a \in Nat /\ a # i
        BY <2>5, <2>8
      <3>2. SameSession(a, i)
        BY <2>8 DEF SameSession
      <3>3. ~(a < i)
        BY <1>2, <1>6, <3>1, <3>2 DEF PubInv, Waiting
      <3> QED BY <1>3, <3>1, <3>3
    <2>9. (NoControl' <=> NoControl) /\ Line' = Append(Line, i)
      BY <1>1, <1>3, LineAppend
    <2>10. Line \in Seq(Nat) /\ Ahead \in SUBSET Nat
      BY <1>2, LineFacts
    <2>11. /\ \A x \in Range(Line) : SameSession(x, i) => x < i
           /\ \A j \in 1..Len(log) : i < j /\ SameSession(i, j) => j \in Range(Line) \cup Ahead
      BY <1>2, <2>2, <2>7 DEF ViewInv, OrderInv, Ordered
    <2> QED BY <1>1, <1>2, <1>3, <2>2, <2>7, <2>8, <2>9, <2>10, <2>11, QueuedView
  <1> QED BY <1>7, <1>8, <1>9, <1>10 DEF ClientInv, BaseInv

\* Every step of the recovery task.
LEMMA RecoveryClient ==
  ASSUME IInv, ClientInv, Recovery
  PROVE  ClientInv'
  BY ReadEndClient, GiveUpClient, RowClient, AdmitClient, PopTailClient, TailClient DEF Recovery

----------------------------------------------------------------------------
(* The socket's turn and the client.                                       *)

\* A step that leaves the log, its publication and the recovery alone.
LEMMA AheadKept ==
  ASSUME UNCHANGED <<log, unpublished, up, replay, backfill, admitted>>
  PROVE  Ahead' = Ahead /\ (Tracked' <=> Tracked)
  <1>1. Floor' = Floor /\ \A x : Owed(x)' <=> Owed(x)
    BY DEF Floor, Owed
  <1>2. Ahead' = Ahead
    BY <1>1 DEF Ahead
  <1>3. Tracked' <=> Tracked
    BY DEF Tracked, StaleRelease, CutoffAhead
  <1> QED BY <1>2, <1>3

\* The order, when no id moves.
LEMMA OrderKept ==
  ASSUME ViewInv, UNCHANGED log, Line' = Line, Ahead' = Ahead, Tracked' => Tracked
  PROVE  OrderInv' /\ Settled' = Settled
  <1>1. OrderInv'
    BY DEF ViewInv, OrderInv, Ordered, SameSession
  <1>2. Settled' = Settled
    BY DEF Settled, Kept
  <1> QED BY <1>1, <1>2

\* A frame goes out: the line is the same.
LEMMA FlushClient ==
  ASSUME IInv, ClientInv, Flush
  PROVE  ClientInv'
  <1> DEFINE f == EventFrame(Head(queue))
  <1>1. /\ ready /\ queue # <<>> /\ wire' = Append(wire, f) /\ queue' = Tail(queue)
        /\ UNCHANGED <<log, unpublished, up, replay, backfill, admitted, ticket,
                       lastSeen, persisted, hydrated, sessions>>
    BY DEF Flush, callVars, storeVars
  <1>2. /\ LogInv /\ PubInv /\ CursorInv /\ CallInv /\ SentInv /\ ViewInv
    BY DEF ClientInv, BaseInv
  <1>3. queue \in Seq(Nat) /\ wire \in Seq(Frames)
    BY IdFacts
  <1>4. /\ Range(Tail(queue)) \subseteq Range(queue) /\ Head(queue) \in Range(queue)
        /\ Head(queue) \in Nat
    BY <1>1, <1>3, TailFacts
  <1>5. f \in Frames /\ f.kind = "event" /\ f.id = Head(queue)
    BY <1>4 DEF EventFrame, Frames
  <1>6. /\ \A k \in 1..Len(wire) : wire'[k] = wire[k]
        /\ wire'[Len(wire) + 1] = f /\ 1..Len(wire') = 1..Len(wire) \cup {Len(wire) + 1}
    <2> HIDE DEF f
    <2> QED BY <1>1, <1>3, <1>5, WireFacts
  <1>7. NoControl
    BY <1>1 DEF IInv, DomainInv, IsControl, NoControl
  <1>8. Line' = Line /\ NoControl'
    <2>1. NoControl'
      BY <1>5, <1>6, <1>7 DEF NoControl
    <2>2. Joined(wire', queue') = Joined(wire, queue)
      BY <1>1, <1>3, JoinedFlush
    <2> QED BY <1>7, <2>1, <2>2 DEF Line
  <1> HIDE DEF f
  <1>9. SentInv'
    BY <1>1, <1>2, <1>4, <1>5, <1>6, <1>7 DEF SentInv
  <1>10. LogInv' /\ CallInv' /\ PubInv'
    BY <1>1, <1>2, LogKept, CallKept, PubKept
  <1>11. CursorInv'
    BY <1>1, <1>2 DEF CursorInv, Known, Reading, CutoffAhead
  <1>12. ViewInv'
    BY <1>1, <1>2, <1>7, <1>8, AheadKept, SameView
  <1> QED BY <1>9, <1>10, <1>11, <1>12 DEF ClientInv, BaseInv

\* A step of the socket and the client that no id is part of.
LEMMA QuietStep ==
  ASSUME IInv, ClientInv, persisted' \in {persisted, lastSeen},
         UNCHANGED <<log, unpublished, up, queue, wire, replay, backfill, admitted, ticket,
                     lastSeen, hydrated, sessions>>
  PROVE  ClientInv'
  <1>1. /\ LogInv /\ PubInv /\ CursorInv /\ CallInv /\ SentInv /\ ViewInv
    BY DEF ClientInv, BaseInv
  <1>2. LogInv' /\ CallInv' /\ PubInv' /\ SentInv'
    BY <1>1, LogKept, CallKept, PubKept, SentKept
  <1>3. CursorInv'
    BY <1>1 DEF CursorInv, Known, Reading, CutoffAhead
  <1>4. ViewInv'
    BY <1>1, LineKept, AheadKept, SameView
  <1> QED BY <1>2, <1>3, <1>4 DEF ClientInv, BaseInv

\* A publication that is lost, of a session the property is not about.
LEMMA UnpublishClient ==
  ASSUME IInv, ClientInv, NEW i \in unpublished, Unpublish(i)
  PROVE  ClientInv'
  <1>1. /\ log[i].session \in Astray /\ unpublished' = unpublished \ {i}
        /\ UNCHANGED <<log, up, queue, wire, replay, backfill, admitted, ticket,
                       lastSeen, persisted, hydrated, sessions>>
    BY DEF Unpublish, serverVars, callVars, storeVars
  <1>2. /\ LogInv /\ PubInv /\ CursorInv /\ CallInv /\ SentInv /\ ViewInv
    BY DEF ClientInv, BaseInv
  <1>3. \A a, j : SameSession(a, j) => j # i
    BY <1>1 DEF SameSession
  <1>4. LogInv' /\ CallInv' /\ SentInv'
    BY <1>1, <1>2, LogKept, CallKept, SentKept
  <1>5. \A a, j : SameSession(a, j)' <=> SameSession(a, j)
    BY <1>1 DEF SameSession
  <1>6. PubInv'
    BY <1>1, <1>2, <1>3, <1>5 DEF PubInv, Waiting
  <1>7. CursorInv'
    BY <1>1, <1>2 DEF CursorInv, Known, Reading, CutoffAhead
  <1>8. Tracked' <=> Tracked
    BY <1>1 DEF Tracked, StaleRelease, CutoffAhead
  <1>9. Line' = Line /\ (NoControl' <=> NoControl)
    BY <1>1, LineKept
  <1>10. Ahead \ {i} \subseteq Ahead' /\ Ahead' \subseteq Ahead
    <2>1. Floor' = Floor /\ \A x : Owed(x)' <=> Owed(x)
      BY <1>1 DEF Floor, Owed
    <2> QED BY <1>1, <2>1 DEF Ahead
  <1>11. Settled' = Settled
    <2>1. i \notin Kept /\ Kept' = Kept
      BY <1>1 DEF Kept
    <2> QED BY <1>9, <1>10, <2>1 DEF Settled
  <1>12. OrderInv'
    <2> SUFFICES ASSUME Tracked PROVE Ordered(Line, Ahead)'
      BY <1>8 DEF OrderInv
    <2>1. Ordered(Line, Ahead)
      BY <1>2 DEF ViewInv, OrderInv
    <2>2. \A x \in Range(Line), a \in Ahead' : SameSession(x, a) => x < a
      BY <1>10, <2>1 DEF Ordered
    <2>3. \A u \in Range(Line) \cup Ahead', j \in 1..Len(log) :
             u < j /\ SameSession(u, j) => j \in Range(Line) \cup Ahead'
      BY <1>3, <1>10, <2>1 DEF Ordered
    <2>4. \A p, q \in DOMAIN Line : p < q /\ SameSession(Line[p], Line[q]) => Line[p] < Line[q]
      BY <2>1 DEF Ordered
    <2> QED BY <1>1, <1>5, <1>9, <2>2, <2>3, <2>4 DEF Ordered
  <1>13. TicketInv'
    BY <1>1, <1>2, <1>8, <1>9, <1>11 DEF ViewInv, TicketInv
  <1>14. ShownInv'
    BY <1>1, <1>2, <1>8, <1>9, <1>11 DEF ViewInv, ShownInv, Opened, Closed
  <1> QED BY <1>4, <1>6, <1>7, <1>12, <1>13, <1>14 DEF ClientInv, BaseInv, ViewInv

\* A rejected token empties the queue: the client will read the list again.
LEMMA TokenClient ==
  ASSUME IInv, ClientInv, RejectToken
  PROVE  ClientInv'
  <1> DEFINE f == Control("reset", generation + 1)
  <1>1. /\ queue' = <<>> /\ wire' = Append(wire, f)
        /\ UNCHANGED <<log, unpublished, up, replay, backfill, admitted, ticket, lastSeen,
                       persisted, hydrated, sessions>>
    BY DEF RejectToken, storeVars
  <1>2. /\ LogInv /\ PubInv /\ CursorInv /\ CallInv /\ SentInv /\ ViewInv
    BY DEF ClientInv, BaseInv
  <1>3. f \in Frames /\ f.kind # "event"
    BY DEF Control, Frames, IInv, ShapeInv
  <1> HIDE DEF f
  <1>4. ~NoControl'
    <2>1. /\ Len(wire) \in Nat /\ wire'[Len(wire) + 1] = f
          /\ 1..Len(wire') = 1..Len(wire) \cup {Len(wire) + 1}
      BY <1>1, <1>3, WireFacts DEF IInv, ShapeInv
    <2> QED BY <1>3, <2>1 DEF NoControl
  <1>5. SentInv'
    BY <1>1, <1>4, RangeFacts DEF SentInv
  <1>6. LogInv' /\ CallInv' /\ PubInv'
    BY <1>1, <1>2, LogKept, CallKept, PubKept
  <1>7. CursorInv'
    BY <1>1, <1>2 DEF CursorInv, Known, Reading, CutoffAhead
  <1>8. Ahead' = Ahead /\ (Tracked' <=> Tracked)
    BY <1>1, AheadKept
  <1>9. ViewInv'
    <2> SUFFICES ASSUME Tracked PROVE ViewInv'
      BY <1>8, UntrackedView
    <2>1. Ordered(Line, Ahead)
      BY <1>2 DEF ViewInv, OrderInv
    <2>2. /\ Range(Line) \subseteq 1..Len(log) /\ Ahead \in SUBSET Nat /\ Len(log) \in Nat
      BY <1>2, LineFacts, IdFacts
    <2>3. \A u \in Ahead, j \in 1..Len(log) : u < j /\ SameSession(u, j) => j \in Ahead
      <3> SUFFICES ASSUME NEW u \in Ahead, NEW j \in 1..Len(log), u < j, SameSession(u, j),
                          j \in Range(Line)
                   PROVE  FALSE
        BY <2>1 DEF Ordered
      <3>1. SameSession(j, u)
        BY DEF SameSession
      <3>2. j < u
        BY <2>1, <3>1 DEF Ordered
      <3> QED BY <2>2, <3>2
    <2>4. Ordered(<<>>, Ahead)
      BY <2>2, <2>3, OrderedNone
    <2> QED BY <1>1, <1>4, <1>8, <2>4, FreshView
  <1> QED BY <1>5, <1>6, <1>7, <1>9 DEF ClientInv, BaseInv

\* A new socket: everything above the cursor is ahead, or without a cursor
\* what is not published.
LEMMA DialClient ==
  ASSUME IInv, ClientInv, Dial
  PROVE  ClientInv'
  <1> DEFINE f == Control("subscribed", 1)
  <1>1. /\ ~up /\ wire' = <<f>>
        /\ replay' = [IdleReplay EXCEPT !.cutoff = lastSeen, !.recovering = lastSeen > 0]
        /\ backfill' = IF lastSeen = 0 THEN NoBackfill
                       ELSE [NoBackfill EXCEPT !.at = "start", !.since = lastSeen,
                                               !.cursor = lastSeen]
        /\ UNCHANGED <<log, unpublished, queue, admitted, ticket, lastSeen,
                       persisted, hydrated, sessions>>
    BY DEF Dial, callVars, storeVars
  <1>2. /\ LogInv /\ PubInv /\ CursorInv /\ CallInv
    BY DEF ClientInv, BaseInv
  <1>3. queue = <<>> /\ admitted = <<>>
    BY <1>1 DEF IInv, DomainInv
  <1>4. f.kind # "event"
    BY DEF Control
  <1>5. ~NoControl'
    BY <1>1, <1>4 DEF NoControl
  <1>6. lastSeen \in Nat /\ Len(log) \in Nat /\ unpublished \subseteq 1..Len(log)
    BY IdFacts
  <1>7. /\ replay'.held = {} /\ replay'.boundary = {} /\ ~replay'.aborted
        /\ (replay'.recovering <=> lastSeen > 0) /\ replay'.cutoff = lastSeen
    <2> DEFINE b == lastSeen > 0
    <2>1. replay' = [IdleReplay EXCEPT !.cutoff = lastSeen, !.recovering = b]
      BY <1>1
    <2>2. b <=> lastSeen > 0
      OBVIOUS
    <2> HIDE DEF b
    <2>3. /\ replay'.held = {} /\ replay'.boundary = {} /\ replay'.cutoff = lastSeen
          /\ replay'.aborted = FALSE /\ replay'.recovering = b
      BY <2>1 DEF IdleReplay
    <2> QED BY <2>2, <2>3
  <1>8. /\ lastSeen = 0 => backfill'.at = "none"
        /\ lastSeen # 0 => backfill'.at = "start" /\ backfill'.cursor = lastSeen
    BY <1>1 DEF NoBackfill
  <1>9. LogInv' /\ CallInv'
    BY <1>1, <1>2, LogKept, CallKept
  <1>10. PubInv'
    BY <1>1, <1>2, <1>7 DEF PubInv, Waiting, SameSession
  <1>11. CursorInv'
    BY <1>1, <1>2, <1>7, <1>8 DEF CursorInv, Known, Reading
  <1>12. SentInv'
    BY <1>1, <1>3, <1>5 DEF SentInv
  <1>13. ViewInv'
    <2>1. Floor' = lastSeen
      BY <1>7, <1>8 DEF Floor
    <2>2. /\ Ahead' \in SUBSET Nat
          /\ \A u \in Ahead', j \in 1..Len(log) : u < j /\ SameSession(u, j) => j \in Ahead'
      <3>1. CASE lastSeen = 0
        <4>1. ~replay'.recovering
          BY <1>7, <3>1
        <4>2. \A x \in 1..Len(log) : x > 0
          OBVIOUS
        <4>3. Ahead' = unpublished
          BY <1>1, <1>6, <2>1, <3>1, <4>1, <4>2 DEF Ahead
        <4> QED BY <1>2, <1>6, <4>3 DEF PubInv
      <3>2. CASE lastSeen # 0
        <4>1. replay'.recovering /\ \A x : Owed(x)'
          BY <1>6, <1>7, <1>8, <3>2 DEF Owed
        <4>2. Ahead' = {x \in 1..Len(log) : x > lastSeen}
          BY <1>1, <2>1, <4>1 DEF Ahead
        <4>3. \A u, j \in 1..Len(log) : u > lastSeen /\ u < j => j > lastSeen
          BY <1>6
        <4> QED BY <1>6, <4>2, <4>3
      <3> QED BY <3>1, <3>2
    <2>3. Ordered(<<>>, Ahead')
      BY <2>2, OrderedNone
    <2> QED BY <1>1, <1>3, <1>5, <2>3, FreshView
  <1> QED BY <1>9, <1>10, <1>11, <1>12, <1>13 DEF ClientInv, BaseInv

\* The last notice is handled with an empty wire, and the call for the list
\* comes after it.
LEMMA ReceiveControlClient ==
  ASSUME IInv, ClientInv, ReceiveControl
  PROVE  ClientInv'
  <1>1. /\ wire # <<>> /\ Head(wire).kind # "event" /\ wire' = Tail(wire)
        /\ hydrated' = FALSE /\ ticket' = [at |-> "asked", read |-> 0]
        /\ lastSeen' = IF Head(wire).kind = "cursor_ahead" THEN 0 ELSE lastSeen
        /\ UNCHANGED <<log, unpublished, up, queue, replay, backfill, admitted, persisted, sessions>>
    BY DEF ReceiveControl, NewGeneration
  <1>2. /\ LogInv /\ PubInv /\ CursorInv /\ CallInv /\ SentInv /\ ViewInv
    BY DEF ClientInv, BaseInv
  <1>3. wire \in Seq(Frames) /\ queue \in Seq(Nat) /\ Len(log) \in Nat
    BY IdFacts
  <1>4. /\ wire' \in Seq(Frames) /\ Len(wire) \in Nat /\ Len(wire) >= 1
        /\ \A k \in 1..Len(wire') : wire'[k] = wire[k + 1] /\ k + 1 \in 1..Len(wire)
        /\ Head(wire) = wire[1]
    BY <1>1, <1>3, TailFacts
  <1>5. 1 \in 1..Len(wire) /\ IsControl(1)
    BY <1>1, <1>4 DEF IsControl
  <1>6. ~NoControl
    BY <1>5 DEF NoControl, IsControl
  <1>7. \A k \in 1..Len(wire') : wire'[k].kind # "event"
    <2>1. \A k \in 1..Len(wire) : 1 < k => IsControl(k)
      BY <1>5 DEF IInv, DomainInv
    <2>2. \A k \in 1..Len(wire') : 1 < k + 1
      OBVIOUS
    <2> QED BY <1>4, <2>1, <2>2 DEF IsControl
  <1>8. NoControl' => 1..Len(wire') = {}
    BY <1>7 DEF NoControl
  <1>9. Line = queue /\ Line' = queue
    <2>1. CASE NoControl'
      <3>1. wire' = <<>>
        BY <1>4, <1>8, <2>1
      <3>2. Joined(wire', queue) = queue
        BY <1>3, <3>1, JoinedNone
      <3> QED BY <1>1, <1>6, <2>1, <3>2 DEF Line
    <2>2. CASE ~NoControl'
      BY <1>1, <1>6, <2>2 DEF Line
    <2> QED BY <2>1, <2>2
  <1>10. LogInv' /\ PubInv'
    BY <1>1, <1>2, LogKept, PubKept
  <1>11. CallInv'
    BY <1>1, <1>3 DEF CallInv
  <1>12. CursorInv'
    <2>1. Known(0) /\ Known(lastSeen) /\ Known(persisted)
      BY <1>2, <1>3 DEF CursorInv, Known
    <2> QED BY <1>1, <1>2, <2>1, CursorKept
  <1>13. SentInv'
    BY <1>1, <1>2, <1>8 DEF SentInv
  <1>14. ViewInv'
    <2>1. OrderInv'
      BY <1>1, <1>2, <1>9, AheadKept, OrderKept
    <2> QED BY <1>1, <2>1 DEF ViewInv, TicketInv, ShownInv
  <1> QED BY <1>10, <1>11, <1>12, <1>13, <1>14 DEF ClientInv, BaseInv

\* An event that is folded settles, behind every event of its session that
\* has settled and before the others.
LEMMA ReceiveEventClient ==
  ASSUME IInv, ClientInv, ReceiveEvent
  PROVE  ClientInv'
  <1>1. PICK i : i = Head(wire).id
    OBVIOUS
  <1>2. /\ wire # <<>> /\ Head(wire).kind = "event" /\ wire' = Tail(wire)
        /\ UNCHANGED <<log, unpublished, up, queue, replay, backfill, admitted, persisted,
                       hydrated, ticket>>
    BY DEF ReceiveEvent, callVars
  <1>3. /\ LogInv /\ PubInv /\ CursorInv /\ CallInv /\ SentInv /\ ViewInv
    BY DEF ClientInv, BaseInv
  <1>4. wire \in Seq(Frames) /\ queue \in Seq(Nat) /\ Len(log) \in Nat /\ lastSeen \in Nat
    BY IdFacts
  <1>5. /\ wire' \in Seq(Frames) /\ Len(wire) \in Nat /\ Len(wire) >= 1 /\ Len(wire') = Len(wire) - 1
        /\ \A k \in 1..Len(wire') : wire'[k] = wire[k + 1] /\ k + 1 \in 1..Len(wire)
        /\ Head(wire) = wire[1]
    BY <1>2, <1>4, TailFacts
  <1>6. 1 \in 1..Len(wire) /\ i \in 1..Len(log) /\ i \in Nat /\ hydrated
    BY <1>1, <1>2, <1>4, <1>5 DEF IInv, ShapeInv, DomainInv, IsControl
  <1>7. sessions' = Fold(sessions, i) /\ lastSeen' = Max({lastSeen, i})
    BY <1>1, <1>6 DEF ReceiveEvent
  <1>8. NoControl' <=> NoControl
    <2>1. \A k \in 1..Len(wire) : k = 1 \/ (k - 1 \in 1..Len(wire') /\ (k - 1) + 1 = k)
      BY <1>5
    <2>2. \A k \in 1..Len(wire) : k = 1 \/ (k - 1 \in 1..Len(wire') /\ wire'[k - 1] = wire[k])
      BY <1>5, <2>1
    <2>3. wire[1].kind = "event"
      BY <1>2, <1>5
    <2>4. ASSUME NoControl' PROVE NoControl
      BY <2>2, <2>3, <2>4 DEF NoControl
    <2>5. ASSUME NoControl PROVE NoControl'
      BY <1>5, <2>5 DEF NoControl
    <2> QED BY <2>4, <2>5
  <1>9. LogInv' /\ PubInv' /\ CallInv'
    BY <1>2, <1>3, LogKept, PubKept, CallKept
  <1>10. CursorInv'
    <2>1. {lastSeen, i} \in SUBSET Nat /\ {lastSeen, i} # {} /\ lastSeen + i \in Nat
          /\ \A x \in {lastSeen, i} : x <= lastSeen + i
      BY <1>4, <1>6
    <2>2. Max({lastSeen, i}) \in {lastSeen, i}
      BY <2>1, MaxOf
    <2>3. Known(i) /\ Known(lastSeen) /\ Known(persisted)
      BY <1>3, <1>6 DEF CursorInv, Known
    <2>4. lastSeen' = lastSeen \/ lastSeen' = i
      BY <1>7, <2>2
    <2> QED BY <1>2, <1>3, <2>3, <2>4, CursorKept
  <1>11. SentInv'
    BY <1>2, <1>3, <1>5, <1>8 DEF SentInv
  <1>12. ViewInv'
    <2>1. Ahead' = Ahead /\ (Tracked' <=> Tracked)
      BY <1>2, AheadKept
    <2>2. CASE ~NoControl
      <3>1. Line' = Line
        BY <1>2, <1>8, <2>2 DEF Line
      <3>2. OrderInv'
        BY <1>2, <1>3, <2>1, <3>1, OrderKept
      <3> QED BY <1>8, <2>2, <3>2 DEF ViewInv, TicketInv, ShownInv
    <2>3. CASE NoControl
      <3>1. SUFFICES ASSUME Tracked' PROVE ViewInv'
        BY UntrackedView
      <3>2. Ordered(Line, Ahead)
        BY <1>3, <2>1, <3>1 DEF ViewInv, OrderInv
      <3>3. Line = Joined(wire, queue) /\ Line' = Joined(wire', queue)
        BY <1>2, <1>8, <2>3 DEF Line
      <3>4. Line # <<>> /\ Head(Line) = i /\ Line' = Tail(Line)
        BY <1>1, <1>2, <1>4, <3>3, JoinedTail
      <3>5. Line \in Seq(Nat) /\ Ahead \in SUBSET Nat
        BY <1>3, LineFacts
      <3>6. /\ Ordered(Tail(Line), Ahead)
            /\ Range(Line) = Range(Tail(Line)) \cup {i}
        BY <3>2, <3>4, <3>5, OrderedTail
      <3>7. OrderInv'
        BY <1>2, <2>1, <3>4, <3>6 DEF OrderInv, Ordered, SameSession
      <3>8. Settled' \subseteq Settled \cup {i}
        <4>1. Settled' = Kept \ (Range(Tail(Line)) \cup Ahead)
          BY <1>2, <2>1, <3>4 DEF Settled, Kept
        <4> QED BY <3>6, <4>1 DEF Settled
      <3>9. TicketInv'
        BY <1>2, <1>3, <1>6 DEF CallInv, TicketInv
      <3>10. ShownInv'
        <4>1. /\ sessions \subseteq Opened(Len(log))
              /\ \A x \in Settled : log[x].kind = "closed" => log[x].session \notin sessions
              /\ \A x \in Settled :
                    log[x].kind = "opened" /\ log[x].session \notin Closed(Len(log)) =>
                        log[x].session \in sessions
          BY <1>3, <1>6, <2>1, <2>3, <3>1 DEF ViewInv, ShownInv
        <4>2. log[i] \in Events /\ Settled \subseteq Kept /\ Kept \subseteq 1..Len(log)
          BY <1>6 DEF IInv, ShapeInv, Settled, Kept
        <4>3. Opened(Len(log))' = Opened(Len(log)) /\ Closed(Len(log))' = Closed(Len(log))
          BY <1>2 DEF Opened, Closed
        <4> DEFINE s == log[i].session
        <4>4. CASE log[i].kind = "opened"
          <5>1. sessions' = sessions \cup {s}
            BY <1>7, <4>4 DEF Fold
          <5>2. s \in Opened(Len(log))
            <6>1. log[i] = [kind |-> "opened", session |-> s] /\ s \in Sessions
              BY <4>2, <4>4 DEF Events
            <6> QED BY <1>6, <6>1 DEF Opened
          <5>3. \A x \in Settled' : log[x].kind = "closed" => log[x].session # s
            <6> SUFFICES ASSUME NEW x \in Settled', log[x].kind = "closed", log[x].session = s
                         PROVE  FALSE
              OBVIOUS
            <6>1. x \in Settled /\ x \in Kept /\ x \in 1..Len(log)
              BY <3>8, <4>2, <4>4
            <6>2. SameSession(i, x)
              BY <6>1 DEF SameSession, Kept
            <6>3. i < x
              BY <1>3, <1>6, <4>4, <6>1, <6>2 DEF LogInv
            <6>4. i \in Range(Line)
              BY <3>6
            <6>5. x \in Range(Line) \cup Ahead
              BY <3>2, <6>1, <6>2, <6>3, <6>4 DEF Ordered
            <6> QED BY <6>1, <6>5 DEF Settled
          <5> HIDE DEF Settled
          <5>4. \A x \in Settled' : log[x].kind = "closed" => log[x].session \notin sessions
            BY <3>8, <4>1, <4>4
          <5>5. \A x \in Settled' : log[x].kind = "opened" /\ log[x].session \notin Closed(Len(log)) =>
                    log[x].session \in sessions'
            BY <3>8, <4>1, <5>1
          <5> QED BY <1>2, <4>1, <4>3, <5>1, <5>2, <5>3, <5>4, <5>5 DEF ShownInv
        <4>5. CASE log[i].kind # "opened"
          <5>1. sessions' = sessions \ {s}
            BY <1>7, <4>5 DEF Fold
          <5>2. s \in Closed(Len(log))
            <6>1. log[i] = [kind |-> "closed", session |-> s] /\ s \in Sessions
              BY <4>2, <4>5 DEF Events
            <6> QED BY <1>6, <6>1 DEF Closed
          <5> HIDE DEF Settled
          <5>3. \A x \in Settled' : log[x].kind = "closed" => log[x].session \notin sessions'
            BY <3>8, <4>1, <5>1
          <5>4. \A x \in Settled' : log[x].kind = "opened" /\ log[x].session \notin Closed(Len(log)) =>
                    log[x].session \in sessions'
            BY <3>8, <4>1, <4>5, <5>1, <5>2
          <5> QED BY <1>2, <4>1, <4>3, <5>1, <5>3, <5>4 DEF ShownInv
        <4> QED BY <4>4, <4>5
      <3> QED BY <3>7, <3>9, <3>10 DEF ViewInv
    <2> QED BY <2>2, <2>3
  <1> QED BY <1>9, <1>10, <1>11, <1>12 DEF ClientInv, BaseInv

\* The list is read at the end of the log, or the call made again.
LEMMA TicketClient ==
  ASSUME IInv, ClientInv, ReadList \/ HydrationFails
  PROVE  ClientInv'
  <1>1. /\ ticket.at # "none"
        /\ \/ ticket' = [at |-> "answered", read |-> Len(log)]
           \/ ticket' = [at |-> "asked", read |-> 0]
        /\ UNCHANGED <<log, unpublished, up, queue, wire, replay, backfill, admitted,
                       lastSeen, persisted, hydrated, sessions>>
    BY DEF ReadList, HydrationFails, serverVars, storeVars
  <1>2. /\ LogInv /\ PubInv /\ CursorInv /\ CallInv /\ SentInv /\ ViewInv
    BY DEF ClientInv, BaseInv
  <1>3. Len(log) \in Nat
    BY IdFacts
  <1>4. LogInv' /\ PubInv' /\ SentInv'
    BY <1>1, <1>2, LogKept, PubKept, SentKept
  <1>5. CursorInv'
    BY <1>1, <1>2 DEF CursorInv, Known, Reading, CutoffAhead
  <1>6. CallInv'
    BY <1>1, <1>2, <1>3 DEF CallInv
  <1>7. ViewInv'
    <2>1. OrderInv' /\ Settled' = Settled
      BY <1>1, <1>2, LineKept, AheadKept, OrderKept
    <2>2. \A i \in Settled : i <= Len(log)
      BY <1>3 DEF Settled, Kept
    <2>3. TicketInv'
      BY <1>1, <2>1, <2>2 DEF TicketInv
    <2>4. ShownInv'
      BY <1>1, <1>2 DEF CallInv, ShownInv
    <2> QED BY <2>1, <2>3, <2>4 DEF ViewInv
  <1> QED BY <1>4, <1>5, <1>6, <1>7 DEF ClientInv, BaseInv

\* The snapshot has every event that settled without it.
LEMMA SettleClient ==
  ASSUME IInv, ClientInv, SettleHydration
  PROVE  ClientInv'
  <1>1. /\ ticket.at = "answered" /\ hydrated' = TRUE /\ ticket' = NoTicket
        /\ sessions' = FoldAll(ListAt(ticket.read), retained)
        /\ lastSeen' = Max({lastSeen} \cup Range(retained))
        /\ UNCHANGED <<log, unpublished, up, queue, wire, replay, backfill, admitted, persisted>>
    BY DEF SettleHydration, serverVars
  <1>2. /\ LogInv /\ PubInv /\ CursorInv /\ CallInv /\ SentInv /\ ViewInv
    BY DEF ClientInv, BaseInv
  <1>3. retained = <<>> /\ Len(log) \in Nat /\ lastSeen \in Nat /\ ticket.read \in Nat
    BY IdFacts DEF IInv, DomainInv
  <1>4. sessions' = ListAt(ticket.read)
    BY <1>1, <1>3, FoldNone
  <1>5. lastSeen' = lastSeen
    <2>1. {lastSeen} \in SUBSET Nat /\ {lastSeen} # {} /\ \A x \in {lastSeen} : x <= lastSeen
      BY <1>3
    <2>2. Max({lastSeen}) \in {lastSeen}
      BY <1>3, <2>1, MaxOf
    <2>3. {lastSeen} \cup Range(retained) = {lastSeen}
      BY <1>3, RangeFacts
    <2> QED BY <1>1, <2>2, <2>3
  <1>6. LogInv' /\ PubInv' /\ SentInv'
    BY <1>1, <1>2, LogKept, PubKept, SentKept
  <1>7. CursorInv'
    BY <1>1, <1>2, <1>5 DEF CursorInv, Known, Reading, CutoffAhead
  <1>8. ticket'.at = "none" /\ ticket'.read = 0
    BY <1>1 DEF NoTicket
  <1>9. CallInv'
    BY <1>1, <1>3, <1>8 DEF CallInv
  <1>10. ViewInv'
    <2>1. OrderInv' /\ Settled' = Settled /\ (Tracked' <=> Tracked) /\ (NoControl' <=> NoControl)
      BY <1>1, <1>2, LineKept, AheadKept, OrderKept
    <2>2. TicketInv'
      BY <1>8 DEF TicketInv
    <2>3. SUFFICES ASSUME Tracked, NoControl PROVE ShownInv'
      BY <2>1, <2>2 DEF ViewInv, ShownInv
    <2>4. \A x \in Settled : x \in 1..Len(log) /\ x \in 1..ticket.read
      <3>1. \A x \in Settled : x <= ticket.read
        BY <1>1, <1>2, <2>3 DEF ViewInv, TicketInv
      <3>2. \A x \in Settled : x \in 1..Len(log)
        BY DEF Settled, Kept
      <3> QED BY <1>3, <3>1, <3>2
    <2>5. \A x \in 1..ticket.read : x \in 1..Len(log)
      BY <1>2, <1>3 DEF CallInv
    <2>6. Opened(ticket.read) \subseteq Opened(Len(log)) /\ Closed(ticket.read) \subseteq Closed(Len(log))
      BY <2>5 DEF Opened, Closed
    <2>7. \A x \in 1..Len(log) :
             /\ log[x].session \in Sessions /\ log[x].kind \in {"opened", "closed"}
             /\ log[x] = [kind |-> log[x].kind, session |-> log[x].session]
      <3>1. \A x \in 1..Len(log) : log[x] \in Events
        BY DEF IInv, ShapeInv
      <3> QED BY <3>1 DEF Events
    <2> HIDE DEF Settled
    <2>8. \A x \in Settled : log[x].kind = "closed" => log[x].session \in Closed(ticket.read)
      BY <2>4, <2>7 DEF Closed
    <2>9. \A x \in Settled : log[x].kind = "opened" => log[x].session \in Opened(ticket.read)
      BY <2>4, <2>7 DEF Opened
    <2>10. Opened(Len(log))' = Opened(Len(log)) /\ Closed(Len(log))' = Closed(Len(log))
      BY <1>1 DEF Opened, Closed
    <2> QED BY <1>1, <1>4, <2>1, <2>6, <2>8, <2>9, <2>10 DEF ShownInv, ListAt
  <1> QED BY <1>6, <1>7, <1>9, <1>10 DEF ClientInv, BaseInv

----------------------------------------------------------------------------
(* The theorem.                                                            *)

\* Nothing is in the log and no socket is open.
LEMMA InitClient == Init => ClientInv
  <1> SUFFICES ASSUME Init PROVE ClientInv
    OBVIOUS
  <1>1. /\ log = <<>> /\ unpublished = {} /\ queue = <<>> /\ wire = <<>> /\ admitted = <<>>
        /\ replay = IdleReplay /\ backfill = NoBackfill /\ ticket = NoTicket /\ ~up
        /\ persisted \in Cursors /\ lastSeen = persisted
    BY DEF Init
  <1>2. Len(log) = 0 /\ Cardinality(Sessions) \in Nat
    BY <1>1, SyncFeedAssumption, FS_CardinalityType
  <1>3. LogInv
    BY <1>2 DEF LogInv
  <1>4. PubInv
    BY <1>1 DEF PubInv, Waiting, IdleReplay
  <1>5. CursorInv
    <2>1. persisted = 0 \/ (persisted \in Nat /\ persisted > 2 * Cardinality(Sessions))
      BY <1>1, SyncFeedAssumption
    <2>2. Known(persisted) /\ Known(0)
      BY <1>2, <2>1 DEF Known
    <2> QED BY <1>1, <2>2 DEF CursorInv, IdleReplay, NoBackfill, Reading
  <1>6. CallInv /\ SentInv
    BY <1>1, <1>2, RangeFacts DEF CallInv, SentInv, NoTicket
  <1>7. ViewInv
    BY <1>1 DEF ViewInv, OrderInv, TicketInv, ShownInv, Tracked
  <1> QED BY <1>3, <1>4, <1>5, <1>6, <1>7 DEF ClientInv, BaseInv

\* Every step keeps the invariant.
LEMMA NextClient ==
  ASSUME IInv, ClientInv, [Next]_vars
  PROVE  ClientInv'
  <1>1. CASE \E e \in Events : Commit(e)
    BY <1>1, CommitClient
  <1>2. CASE \E i \in unpublished : Route(i) \/ Unpublish(i)
    BY <1>2, RouteClient, UnpublishClient
  <1>3. CASE Recovery
    BY <1>3, RecoveryClient
  <1>4. CASE HandleDomainReady \/ SweepCursor
    <2>1. /\ persisted' \in {persisted, lastSeen}
          /\ UNCHANGED <<log, unpublished, up, queue, wire, replay, backfill, admitted, ticket,
                         lastSeen, hydrated, sessions>>
      BY <1>4 DEF HandleDomainReady, SweepCursor, serverVars, callVars, storeVars
    <2> QED BY <2>1, QuietStep
  <1>5. CASE Socket
    BY <1>4, <1>5, FlushClient, TokenClient, DialClient DEF Socket
  <1>6. CASE Client
    BY <1>4, <1>6, ReceiveControlClient, ReceiveEventClient, TicketClient, SettleClient DEF Client
  <1>7. CASE Drop \/ Crash \/ Reload
    BY <1>7, LossClient
  <1>8. CASE UNCHANGED vars
    <2>1. /\ persisted' \in {persisted, lastSeen}
          /\ UNCHANGED <<log, unpublished, up, queue, wire, replay, backfill, admitted, ticket,
                         lastSeen, hydrated, sessions>>
      BY <1>8 DEF vars, serverVars, callVars, storeVars
    <2> QED BY <2>1, QuietStep
  <1> QED BY <1>1, <1>2, <1>3, <1>5, <1>6, <1>7, <1>8 DEF Next

\* With nothing on its way every event has settled.
LEMMA QuietConverged == IInv /\ ClientInv => ConvergedWhenQuiet
  <1> SUFFICES ASSUME IInv, ClientInv, Quiet, ~StaleRelease, ~CutoffAhead
               PROVE  Converged
    BY DEF ConvergedWhenQuiet
  <1>1. /\ up /\ hydrated /\ unpublished = {} /\ queue = <<>> /\ wire = <<>> /\ ~replay.recovering
    BY DEF Quiet
  <1>2. Tracked
    BY <1>1 DEF Tracked, IInv, TaskInv, Active
  <1>3. NoControl
    BY <1>1 DEF NoControl
  <1>4. Range(Line) = {}
    <2>1. Line = <<>>
      BY <1>1, <1>3, RangeFacts, JoinedNone DEF Line
    <2> QED BY <2>1, RangeFacts
  <1>5. Ahead = {}
    BY <1>1 DEF Ahead
  <1>6. Settled = Kept
    BY <1>4, <1>5 DEF Settled
  <1>7. /\ sessions \subseteq Opened(Len(log))
        /\ \A i \in Kept : log[i].kind = "closed" => log[i].session \notin sessions
        /\ \A i \in Kept :
              log[i].kind = "opened" /\ log[i].session \notin Closed(Len(log)) =>
                  log[i].session \in sessions
    BY <1>1, <1>2, <1>3, <1>6 DEF ClientInv, ViewInv, ShownInv
  <1>8. \A s \in Opened(Len(log)) \ Astray : s \notin Closed(Len(log)) => s \in sessions
    <2> SUFFICES ASSUME NEW s \in Opened(Len(log)) \ Astray, s \notin Closed(Len(log)) PROVE s \in sessions
      OBVIOUS
    <2>1. PICK i \in 1..Len(log) : log[i] = [kind |-> "opened", session |-> s]
      BY DEF Opened
    <2>2. log[i].kind = "opened" /\ log[i].session = s /\ i \in Kept
      BY <2>1 DEF Kept
    <2> QED BY <1>7, <2>2
  <1>9. \A s \in Closed(Len(log)) \ Astray : s \notin sessions
    <2> SUFFICES ASSUME NEW s \in Closed(Len(log)) \ Astray PROVE s \notin sessions
      OBVIOUS
    <2>1. PICK i \in 1..Len(log) : log[i] = [kind |-> "closed", session |-> s]
      BY DEF Closed
    <2>2. log[i].kind = "closed" /\ log[i].session = s /\ i \in Kept
      BY <2>1 DEF Kept
    <2> QED BY <1>7, <2>2
  <1> QED BY <1>7, <1>8, <1>9 DEF ListAt, Converged

\* When nothing is under way the client shows what the log says of every
\* session but those the coordinator closed itself or lost a publication of,
\* after any cursor, drop, crash, reload, failed read, rejected token and
\* overflow (handle_sync.rs and hydration.rs against backfill.rs,
\* session_replay.rs and live_feed.rs).
THEOREM Convergence == Spec => []ConvergedWhenQuiet
  <1>1. Spec => [](IInv /\ ClientInv)
    <2>1. Init => IInv /\ ClientInv
      BY InitEstablishes, InitClient
    <2>2. IInv /\ ClientInv /\ [Next]_vars => (IInv /\ ClientInv)'
      BY NextPreserves, NextClient
    <2> QED BY <2>1, <2>2, PTL DEF Spec
  <1> QED BY <1>1, QuietConverged, PTL

----------------------------------------------------------------------------
(* Where the two exclusions of ConvergedWhenQuiet come from.               *)

\* A recovery that ended by itself leaves a cutoff of this log.
CleanCutoff == ~replay.recovering /\ ~replay.aborted => ~CutoffAhead

\* When nothing is under way, and the socket's recovery was not abandoned, the
\* client shows what the log says of every session but the astray.
ConvergedUnlessAbandoned == Quiet /\ ~replay.aborted => Converged

\* A closed socket has the cutoff of a new one.
LEMMA CloseClean ==
  ASSUME IInv, Close, UNCHANGED log
  PROVE  CleanCutoff'
  <1>1. replay'.cutoff = 0
    BY DEF Close, IdleReplay
  <1> QED BY <1>1, IdFacts DEF CleanCutoff, CutoffAhead

\* The log only grows.
LEMMA SameClean ==
  ASSUME IInv, CleanCutoff, UNCHANGED replay, UNCHANGED log \/ \E e \in Events : log' = Append(log, e)
  PROVE  CleanCutoff'
  <1>1. Len(log) \in Nat /\ Len(log') \in Nat /\ Len(log') >= Len(log)
    BY IdFacts, SMTT(30) DEF IInv, ShapeInv
  <1>2. replay.cutoff \in Nat
    BY IdFacts
  <1> QED BY <1>1, <1>2 DEF CleanCutoff, CutoffAhead

\* Every step of the recovery task leaves it under way or abandoned, until the
\* interval is out.
LEMMA RecoveryClean ==
  ASSUME IInv, CleanCutoff, Recovery
  PROVE  CleanCutoff'
  <1>0. replay \in Replays
    BY IdFacts
  <1>1. CASE BackfillReadEnd
    <2>1. /\ Active
          /\ replay'.recovering = replay.recovering /\ replay'.aborted = replay.aborted
      BY <1>0, <1>1 DEF BackfillReadEnd, Active, Replays
    <2> QED BY <2>1 DEF CleanCutoff, IInv, TaskInv
  <1>2. CASE BackfillCursorAhead
    <2>1. replay'.aborted
      BY <1>0, <1>2 DEF BackfillCursorAhead, Abort, Replays
    <2> QED BY <2>1 DEF CleanCutoff
  <1>3. CASE BackfillReadFails
    <2>1. replay'.aborted
      BY <1>0, <1>3 DEF BackfillReadFails, Abort, Replays
    <2> QED BY <2>1 DEF CleanCutoff
  <1>4. CASE BackfillStops \/ BackfillRow \/ BackfillTail
    <2>1. UNCHANGED <<replay, log>>
      BY <1>4 DEF BackfillStops, BackfillRow, BackfillTail
    <2> QED BY <2>1, SameClean
  <1>5. CASE BackfillAdmit
    <2>1. /\ Active
          /\ replay'.recovering = replay.recovering /\ replay'.aborted = replay.aborted
      BY <1>0, <1>5 DEF BackfillAdmit, Active, Replays
    <2> QED BY <2>1 DEF CleanCutoff, IInv, TaskInv
  <1>6. CASE BackfillPopTail
    <2>1. replay'.cutoff = backfill.target /\ UNCHANGED log
      BY <1>0, <1>6 DEF BackfillPopTail, Replays
    <2>2. backfill.target <= Len(log)
      BY <1>6 DEF BackfillPopTail, IInv, TaskInv, Reading
    <2> QED BY <2>1, <2>2, IdFacts DEF CleanCutoff, CutoffAhead
  <1> QED BY <1>1, <1>2, <1>3, <1>4, <1>5, <1>6 DEF Recovery

\* A published event: an overflow abandons, a full queue closes.
LEMMA RouteClean ==
  ASSUME IInv, CleanCutoff, NEW i \in unpublished, Route(i)
  PROVE  CleanCutoff'
  <1>0. replay \in Replays
    BY IdFacts
  <1>1. CASE NotListening(i)
    <2>1. UNCHANGED <<replay, log>>
      BY <1>1 DEF NotListening, serverVars
    <2> QED BY <2>1, SameClean
  <1>2. CASE EmitLive(i)
    <2>1. UNCHANGED log /\ (UNCHANGED replay \/ Close)
      BY <1>2 DEF EmitLive, Enqueue, serverVars
    <2> QED BY <2>1, SameClean, CloseClean
  <1>3. CASE HoldLive(i)
    <2>1. replay.recovering /\ replay'.recovering = replay.recovering
      BY <1>0, <1>3 DEF HoldLive, Replays
    <2> QED BY <2>1 DEF CleanCutoff
  <1>4. CASE OverflowLive(i)
    <2>1. replay'.aborted
      BY <1>0, <1>4 DEF OverflowLive, Abort, Replays
    <2> QED BY <2>1 DEF CleanCutoff
  <1> QED BY <1>1, <1>2, <1>3, <1>4 DEF Route

\* Every step keeps the cutoff of a recovery that ended within the log.
LEMMA NextClean ==
  ASSUME IInv, CleanCutoff, [Next]_vars
  PROVE  CleanCutoff'
  <1>1. CASE \E e \in Events : Commit(e)
    <2>1. UNCHANGED replay /\ \E e \in Events : log' = Append(log, e)
      BY <1>1 DEF Commit, serverVars
    <2> QED BY <2>1, SameClean
  <1>2. CASE \E i \in unpublished : Route(i) \/ Unpublish(i)
    <2>1. ASSUME NEW i \in unpublished, Unpublish(i) PROVE CleanCutoff'
      <3>1. UNCHANGED <<replay, log>>
        BY <2>1 DEF Unpublish, serverVars
      <3> QED BY <3>1, SameClean
    <2> QED BY <1>2, <2>1, RouteClean
  <1>3. CASE Recovery
    BY <1>3, RecoveryClean
  <1>4. CASE Flush \/ HandleDomainReady \/ RejectToken \/ Client \/ UNCHANGED vars
    <2>1. UNCHANGED <<replay, log>>
      BY <1>4 DEF Flush, HandleDomainReady, RejectToken, Client, ReceiveControl, ReceiveEvent, ReadList,
                  HydrationFails, SettleHydration, SweepCursor, vars, serverVars
    <2> QED BY <2>1, SameClean
  <1>5. CASE Dial
    <2>1. /\ replay'.cutoff = lastSeen /\ replay'.recovering = (lastSeen > 0)
          /\ UNCHANGED log
      BY <1>5 DEF Dial, IdleReplay
    <2>2. CASE lastSeen > 0
      BY <2>1, <2>2 DEF CleanCutoff
    <2>3. CASE ~(lastSeen > 0)
      <3>1. lastSeen = 0 /\ Len(log) \in Nat
        BY <2>3, IdFacts
      <3>2. ~(replay'.cutoff > Len(log'))
        BY <2>1, <3>1
      <3> QED BY <3>2 DEF CleanCutoff, CutoffAhead
    <2> QED BY <2>2, <2>3
  <1>6. CASE Drop \/ Crash \/ Reload
    <2>1. Close /\ UNCHANGED log
      BY <1>6 DEF Drop, Crash, Reload
    <2> QED BY <2>1, CloseClean
  <1> QED BY <1>1, <1>2, <1>3, <1>4, <1>5, <1>6 DEF Next, Socket

\* A client whose recovery was not abandoned needs neither exclusion: whenever
\* nothing is under way it shows what the log says of every session published
\* in order (backfill.rs, the cutoff of a finished recovery is the end of the
\* log it read).
THEOREM UnabandonedConvergence == Spec => []ConvergedUnlessAbandoned
  <1>1. Spec => [](IInv /\ CleanCutoff)
    <2>1. Init => IInv /\ CleanCutoff
      <3> SUFFICES ASSUME Init PROVE IInv /\ CleanCutoff
        OBVIOUS
      <3>1. IInv
        BY InitEstablishes
      <3>2. replay.cutoff = 0
        BY DEF Init, IdleReplay
      <3> QED BY <3>1, <3>2, IdFacts DEF CleanCutoff, CutoffAhead
    <2>2. IInv /\ CleanCutoff /\ [Next]_vars => (IInv /\ CleanCutoff)'
      BY NextPreserves, NextClean
    <2> QED BY <2>1, <2>2, PTL DEF Spec
  <1>2. IInv /\ CleanCutoff /\ ConvergedWhenQuiet => ConvergedUnlessAbandoned
    BY DEF ConvergedUnlessAbandoned, ConvergedWhenQuiet, CleanCutoff, StaleRelease, Quiet
  <1> QED BY <1>1, <1>2, Convergence, PTL

=============================================================================
