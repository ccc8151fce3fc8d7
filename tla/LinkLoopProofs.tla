-------------------------- MODULE LinkLoopProofs ---------------------------
(***************************************************************************)
(* What the methods of the pump and of the link loop preserve.  They are   *)
(* functions of the link's record, so the lemmas are about records: LinkOK *)
(* (the pump against the one frame on the connection) and MirrorOK (mirror *)
(* and queue against the outbox and the log).  DurableLinkProofs builds    *)
(* the invariant of the state on them.                                     *)
(***************************************************************************)
EXTENDS DurableLink, WellFoundedInduction, TLAPS

Numbers == 1..MaxSequence
Entries == [row : Numbers, seq : Numbers]
Frames == [kind : {"none", "hello", "helloack", "event", "snapshot", "ack"}, seq : 0..MaxSequence]
Pumps == Pump(MaxSequence)
Links == [pump : Pumps, mirror : Seq(Entries), authorised : Frames, wanted : BOOLEAN,
          offered : 0..MaxSequence, resync : BOOLEAN, acks : Seq(0..MaxSequence), wake : BOOLEAN]

Members(s) == {s[i] : i \in 1..Len(s)}

----------------------------------------------------------------------------
(* The record of the link.                                                 *)

\* The pump p and the link around it, with k frames on the connection: what
\* may be written next is written only when nothing else is under way, and the
\* pump's own numbers stay above the last row offered.
PumpOK(p, authorised, wanted, offered, k) ==
    /\ authorised # NoFrame => k = 0 /\ authorised.kind \in {"event", "snapshot"}
    /\ p.barrier \in {"Idle", "Open"} => authorised = NoFrame /\ p.inFlight = None
    /\ p.snapshotSeq # None <=> p.barrier = "Snapshot"
    /\ wanted => p.barrier = "Snapshot" /\ authorised = NoFrame /\ k = 0 /\ p.durable = <<>>
    /\ p.barrier = "Snapshot" => p.inFlight = None
    /\ p.barrier \in {"Replay", "Live"} /\ p.inFlight = None => authorised = NoFrame /\ k = 0
    /\ p.inFlight # None => p.durable # <<>> /\ p.inFlight = Head(p.durable)
    /\ authorised.kind = "event" => p.inFlight # None
    /\ authorised.kind = "snapshot" => p.barrier = "Snapshot" /\ authorised.seq = p.snapshotSeq
    /\ p.replayAgain => p.barrier = "Snapshot"
    /\ p.barrier = "Snapshot" /\ ~p.replayAgain => p.durable = <<>>
    /\ offered < p.nextSeq
    /\ p.barrier = "Snapshot" /\ (wanted \/ ~p.replayAgain) => offered < p.snapshotSeq

LinkOK(l, k) ==
    /\ l \in Links
    /\ k \in {0, 1}
    /\ Len(l.mirror) <= MirrorCap
    /\ l.authorised.kind = "event" => l.mirror # <<>>
    /\ PumpOK(l.pump, l.authorised, l.wanted, l.offered, k)

MirrorRows(l) == {l.mirror[i].row : i \in 1..Len(l.mirror)}
Queued(l) == {l.pump.durable[i] : i \in 1..Len(l.pump.durable)}

\* The mirror and the pump's queue against the rows R of the outbox and the
\* rows C in the log: both in order; what is queued is mirrored; a mirrored
\* row is in the log, queued, or was refused before anything above it was
\* offered; and no row below the last one offered is missing.
MirrorOK(l, R, C) ==
    /\ l.offered \in R \cup C \cup {0}
    /\ MirrorRows(l) \subseteq R \cup C
    /\ \A i, j \in 1..Len(l.mirror) : i < j => l.mirror[i].row <= l.mirror[j].row
    /\ \A i, j \in 1..Len(l.pump.durable) : i < j => l.pump.durable[i] < l.pump.durable[j]
    /\ \A n \in Queued(l) : n <= l.offered /\ n \in MirrorRows(l)
    /\ \A e \in MirrorRows(l) : e \in C \/ e \in Queued(l) \/ e > l.offered
    /\ \A r \in R \ C : r \in MirrorRows(l) \/ r > l.offered
    /\ \A e \in MirrorRows(l), r \in R : e <= l.offered \/ r <= l.offered \/ e <= r

----------------------------------------------------------------------------
(* What the calls of the link loop do to its record.                       *)

\* What any call may do to the link: it authorises events only, a connection
\* stays one, and a snapshot under way stays the same snapshot or is off.
Keeps(l, r) ==
    /\ r.authorised = l.authorised \/ r.authorised.kind = "event"
    /\ r.pump.barrier \in {"Idle", "Open"} => r.pump.barrier = l.pump.barrier
    /\ l.pump.barrier \in {"Idle", "Open"} => r.pump.barrier = l.pump.barrier
    /\ r.pump.barrier = "Snapshot" /\ ~r.wanted =>
          l.pump.barrier = "Snapshot" /\ ~l.wanted /\ r.pump.snapshotSeq = l.pump.snapshotSeq

\* A call that handles no frame does not open the link either.
Calm(l, r) ==
    /\ Keeps(l, r)
    /\ r.acks = l.acks
    /\ r.pump.barrier = "Live" => l.pump.barrier = "Live"

\* The same mirror and queue, the numbers an entry was sent under aside.
SameMirror(l, r) ==
    /\ Len(r.mirror) = Len(l.mirror)
    /\ \A i \in 1..Len(l.mirror) : r.mirror[i].row = l.mirror[i].row
    /\ r.pump.durable = l.pump.durable
    /\ r.offered = l.offered

\* Types of the fields of a pump and a link.
LEMMA FieldTypes ==
  /\ \A p \in Pumps : /\ p.barrier \in Barriers /\ p.durable \in Seq(Numbers)
                      /\ p.inFlight \in 0..MaxSequence /\ p.replayAgain \in BOOLEAN
                      /\ p.snapshotSeq \in Nat /\ p.blocked \in BOOLEAN
                      /\ p.nextSeq \in Nat /\ p.nextSeq >= 1 /\ p.acked \in 0..MaxSequence
  /\ \A l \in Links : /\ l.pump \in Pumps /\ l.mirror \in Seq(Entries) /\ l.authorised \in Frames
                      /\ l.wanted \in BOOLEAN /\ l.offered \in 0..MaxSequence
                      /\ l.resync \in BOOLEAN /\ l.acks \in Seq(0..MaxSequence)
                      /\ l.wake \in BOOLEAN
  <1>1. \A p \in Pumps : /\ p.barrier \in Barriers /\ p.durable \in Seq(Numbers)
                         /\ p.inFlight \in 0..MaxSequence /\ p.replayAgain \in BOOLEAN
                         /\ p.snapshotSeq \in Nat /\ p.blocked \in BOOLEAN
                         /\ p.nextSeq \in Nat /\ p.nextSeq >= 1 /\ p.acked \in 0..MaxSequence
    BY DEF Pumps, Pump, Numbers
  <1>2. \A l \in Links : /\ l.pump \in Pumps /\ l.mirror \in Seq(Entries) /\ l.authorised \in Frames
                         /\ l.wanted \in BOOLEAN /\ l.offered \in 0..MaxSequence
                         /\ l.resync \in BOOLEAN /\ l.acks \in Seq(0..MaxSequence)
                         /\ l.wake \in BOOLEAN
    BY DEF Links
  <1> QED BY <1>1, <1>2

\* Steps compose.
LEMMA CalmTransitive ==
  ASSUME NEW a, NEW b, NEW c, Calm(a, b), Calm(b, c)
  PROVE  Calm(a, c)
  BY DEF Calm, Keeps

\* What MirrorOK says does not depend on the numbers entries were sent under.
LEMMA MirrorSame ==
  ASSUME NEW l, NEW r, NEW R, NEW C, MirrorOK(l, R, C), SameMirror(l, r)
  PROVE  MirrorOK(r, R, C) /\ MirrorRows(r) = MirrorRows(l) /\ Queued(r) = Queued(l)
  <1>1. MirrorRows(r) = MirrorRows(l) /\ Queued(r) = Queued(l)
    BY DEF SameMirror, MirrorRows, Queued
  <1> QED BY <1>1 DEF MirrorOK, SameMirror

\* advance: one event is released when nothing is under way, or the snapshot
\* is asked for when nothing is left to send.
LEMMA AdvanceOK ==
  ASSUME NEW l, NEW k, LinkOK(l, k)
  PROVE  LET r == ApplyTo(l, Advance(l.pump))
         IN  LinkOK(r, k) /\ Calm(l, r) /\ SameMirror(l, r) /\ r.resync = l.resync
  <1> DEFINE p == l.pump
             r == ApplyTo(l, Advance(p))
             h == Head(p.durable)
  <1>1. l \in Links /\ p \in Pumps /\ l.mirror \in Seq(Entries)
    BY FieldTypes DEF LinkOK
  <1>2. /\ k \in {0, 1} /\ Len(l.mirror) <= MirrorCap
        /\ l.authorised.kind = "event" => l.mirror # <<>>
        /\ PumpOK(p, l.authorised, l.wanted, l.offered, k)
    BY DEF LinkOK
  <1> HIDE DEF p
  <1>3. CASE p.barrier \in {"Live", "Replay"} /\ p.inFlight = None /\ p.durable # <<>>
    <2>1. Advance(p) = Result([p EXCEPT !.inFlight = h], WriteDurable(h))
      BY <1>3 DEF Advance
    <2>0. p.durable \in Seq(Numbers)
      BY <1>1, FieldTypes
    <2>2. h \in Numbers /\ h # None
      <3>1. h \in Numbers
        BY <1>3, <2>0
      <3> HIDE DEF h
      <3> QED BY <3>1 DEF Numbers, None
    <2> DEFINE q == [p EXCEPT !.inFlight = h]
    <2> HIDE DEF h
    <2>3. /\ q \in Pumps /\ q.inFlight = h /\ q.barrier = p.barrier /\ q.durable = p.durable
          /\ q.snapshotSeq = p.snapshotSeq /\ q.replayAgain = p.replayAgain
        /\ q.nextSeq = p.nextSeq
      BY <1>1, <2>2 DEF Pumps, Pump, Numbers
    <2>4. k = 0 /\ l.authorised = NoFrame /\ ~l.wanted
      BY <1>2, <1>3 DEF PumpOK
    <2>5. ApplyTo(l, Result(q, WriteDurable(h))) =
             IF l.mirror # <<>>
             THEN [[l EXCEPT !.pump = q] EXCEPT !.authorised = Frame("event", h), !.mirror[1].seq = h]
             ELSE [l EXCEPT !.pump = q]
      BY <1>1 DEF ApplyTo, Result, WriteDurable, Links
    <2> HIDE DEF q
    <2>6. CASE l.mirror = <<>>
      <3>1. r = [l EXCEPT !.pump = q]
        BY <2>1, <2>5, <2>6 DEF q
      <3> HIDE DEF r
      <3>2. /\ r \in Links /\ r.pump = q /\ r.mirror = l.mirror /\ r.authorised = l.authorised
            /\ r.wanted = l.wanted /\ r.offered = l.offered /\ r.acks = l.acks /\ r.resync = l.resync
        BY <1>1, <2>3, <3>1 DEF Links
      <3>3. PumpOK(q, l.authorised, l.wanted, l.offered, k)
        BY <1>2, <1>3, <2>2, <2>3, <2>4 DEF PumpOK, h, NoFrame, Frame
      <3>4. LinkOK(r, k)
        BY <1>2, <3>2, <3>3 DEF LinkOK
      <3>5. Calm(l, r)
        BY <1>3, <2>3, <3>2 DEF Calm, Keeps, p
      <3>6. SameMirror(l, r)
        BY <2>3, <3>2 DEF SameMirror, p
      <3> QED BY <3>2, <3>4, <3>5, <3>6 DEF r, p
    <2>7. CASE l.mirror # <<>>
      <3> DEFINE e == [l.mirror EXCEPT ![1].seq = h]
      <3>0. r = [[l EXCEPT !.pump = q] EXCEPT !.authorised = Frame("event", h), !.mirror[1].seq = h]
        BY <2>1, <2>5, <2>7 DEF q
      <3>1. r = [l EXCEPT !.pump = q, !.authorised = Frame("event", h), !.mirror = e]
        BY <1>1, <3>0 DEF Links
      <3> HIDE DEF r
      <3>3. l.mirror[1] \in Entries /\ 1 \in 1..Len(l.mirror)
        BY <1>1, <2>7
      <3>4. /\ [l.mirror[1] EXCEPT !.seq = h] \in Entries
            /\ [l.mirror[1] EXCEPT !.seq = h].row = l.mirror[1].row
        BY <3>3, <2>2 DEF Entries
      <3>5. e = [l.mirror EXCEPT ![1] = [l.mirror[1] EXCEPT !.seq = h]]
        OBVIOUS
      <3> HIDE DEF e
      <3>6. /\ e \in Seq(Entries) /\ Len(e) = Len(l.mirror) /\ e # <<>>
            /\ \A i \in 1..Len(l.mirror) : e[i].row = l.mirror[i].row
        BY <1>1, <2>7, <3>3, <3>4, <3>5
      <3>7. /\ Frame("event", h) \in Frames /\ Frame("event", h).kind = "event"
            /\ Frame("event", h) # NoFrame
        BY <2>2 DEF Frames, Frame, NoFrame, Numbers
      <3>8. /\ r \in Links /\ r.pump = q /\ r.mirror = e /\ r.authorised = Frame("event", h)
            /\ r.wanted = l.wanted /\ r.offered = l.offered /\ r.acks = l.acks /\ r.resync = l.resync
        BY <1>1, <2>3, <3>1, <3>6, <3>7 DEF Links
      <3>9. PumpOK(q, Frame("event", h), l.wanted, l.offered, k)
        BY <1>2, <1>3, <2>2, <2>3, <2>4, <3>7 DEF PumpOK, h
      <3>10. LinkOK(r, k)
        BY <1>2, <3>6, <3>8, <3>9 DEF LinkOK
      <3>11. Calm(l, r)
        BY <1>3, <2>3, <3>7, <3>8 DEF Calm, Keeps, p
      <3>12. SameMirror(l, r)
        BY <2>3, <3>6, <3>8 DEF SameMirror, p
      <3> QED BY <3>8, <3>10, <3>11, <3>12 DEF r, p
    <2> QED BY <2>6, <2>7
  <1>4. CASE p.barrier = "Replay" /\ p.durable = <<>> /\ ~p.blocked
    <2> DEFINE q == [p EXCEPT !.barrier = "Snapshot", !.snapshotSeq = p.nextSeq, !.nextSeq = p.nextSeq + 1]
    <2>1. Advance(p) = Result(q, WriteSnapshot)
      BY <1>4 DEF Advance
    <2>2. p.nextSeq \in Nat /\ p.nextSeq >= 1 /\ p.nextSeq + 1 \in Nat \ {0}
      BY <1>1, FieldTypes
    <2>3. /\ q \in Pumps /\ q.barrier = "Snapshot" /\ q.snapshotSeq = p.nextSeq /\ q.inFlight = p.inFlight
          /\ q.durable = p.durable /\ q.replayAgain = p.replayAgain /\ q.nextSeq = p.nextSeq + 1
      BY <1>1, <2>2 DEF Pumps, Pump, Barriers
    <2> HIDE DEF q
    <2>4. r = [l EXCEPT !.pump = q, !.wanted = TRUE, !.wake = TRUE]
      BY <1>1, <2>1 DEF ApplyTo, Result, WriteSnapshot, Links
    <2> HIDE DEF r
    <2>5. /\ r \in Links /\ r.pump = q /\ r.mirror = l.mirror /\ r.authorised = l.authorised
          /\ r.wanted = TRUE /\ r.offered = l.offered /\ r.acks = l.acks /\ r.resync = l.resync
      BY <1>1, <2>3, <2>4 DEF Links
    <2>6. p.inFlight = None /\ l.authorised = NoFrame /\ k = 0 /\ ~p.replayAgain
      BY <1>2, <1>4 DEF PumpOK
    <2>7. PumpOK(q, l.authorised, TRUE, l.offered, k)
      <3>1. l.offered \in Nat /\ l.offered < p.nextSeq
        BY <1>1, <1>2, FieldTypes DEF PumpOK
      <3>2. l.offered < q.nextSeq /\ l.offered < q.snapshotSeq /\ q.snapshotSeq # None
        BY <2>2, <2>3, <3>1 DEF None
      <3> QED BY <1>4, <2>3, <2>6, <3>2 DEF PumpOK, NoFrame, Frame
    <2>8. LinkOK(r, k)
      BY <1>2, <2>5, <2>7 DEF LinkOK
    <2>9. Calm(l, r)
      BY <1>4, <2>3, <2>5 DEF Calm, Keeps, p
    <2>10. SameMirror(l, r)
      BY <2>3, <2>5 DEF SameMirror, p
    <2> QED BY <2>5, <2>8, <2>9, <2>10 DEF r, p
  <1>5. CASE /\ ~(p.barrier \in {"Live", "Replay"} /\ p.inFlight = None /\ p.durable # <<>>)
             /\ ~(p.barrier = "Replay" /\ p.durable = <<>> /\ ~p.blocked)
    <2>1. Advance(p) = Result(p, Wait)
      BY <1>5 DEF Advance
    <2>2. r = [l EXCEPT !.pump = p]
      BY <2>1 DEF ApplyTo, Result, Wait
    <2>3. r = l
      BY <1>1, <2>2 DEF Links, p
    <2> QED BY <2>3 DEF Calm, Keeps, SameMirror, p
  <1> QED BY <1>3, <1>4, <1>5


\* A link with another pump.
LEMMA SetPump ==
  ASSUME NEW l \in Links, NEW q \in Pumps
  PROVE  LET m == [l EXCEPT !.pump = q]
         IN  /\ m \in Links /\ m.pump = q /\ m.mirror = l.mirror /\ m.authorised = l.authorised
             /\ m.wanted = l.wanted /\ m.offered = l.offered /\ m.acks = l.acks
             /\ m.resync = l.resync /\ m.wake = l.wake
             /\ \A res : ApplyTo(m, res) = ApplyTo(l, res)
  <1> DEFINE m == [l EXCEPT !.pump = q]
  <1>1. /\ m \in Links /\ m.pump = q /\ m.mirror = l.mirror /\ m.authorised = l.authorised
        /\ m.wanted = l.wanted /\ m.offered = l.offered /\ m.acks = l.acks
        /\ m.resync = l.resync /\ m.wake = l.wake
    BY DEF Links
  <1>2. ASSUME NEW res
        PROVE  ApplyTo(m, res) = ApplyTo(l, res)
    <2>1. [m EXCEPT !.pump = res.pump] = [l EXCEPT !.pump = res.pump]
      BY DEF Links
    <2> QED BY <2>1 DEF ApplyTo
  <1> QED BY <1>1, <1>2

\* A row or a claim that appears during a snapshot is remembered.
LEMMA NoteReplayOK ==
  ASSUME NEW l, NEW k, LinkOK(l, k)
  PROVE  LET m == [l EXCEPT !.pump = NoteReplay(l.pump)]
         IN  LinkOK(m, k) /\ Calm(l, m) /\ SameMirror(l, m) /\ m.resync = l.resync
  <1> DEFINE p == l.pump
             q == NoteReplay(p)
             m == [l EXCEPT !.pump = q]
  <1>1. l \in Links /\ p \in Pumps
    BY FieldTypes DEF LinkOK
  <1> HIDE DEF p
  <1>2. /\ q \in Pumps /\ q.barrier = p.barrier /\ q.durable = p.durable /\ q.inFlight = p.inFlight
        /\ q.snapshotSeq = p.snapshotSeq /\ q.nextSeq = p.nextSeq
        /\ q.replayAgain = (p.replayAgain \/ p.barrier = "Snapshot")
    <2>1. CASE p.barrier = "Snapshot"
      BY <1>1, <2>1 DEF NoteReplay, Pumps, Pump
    <2>2. CASE p.barrier # "Snapshot"
      <3>1. q = p
        BY <2>2 DEF NoteReplay
      <3>2. p.replayAgain \in BOOLEAN
        BY <1>1, FieldTypes
      <3> QED BY <1>1, <2>2, <3>1, <3>2, Zenon
    <2> QED BY <2>1, <2>2
  <1> HIDE DEF q
  <1>3. /\ m \in Links /\ m.pump = q /\ m.mirror = l.mirror /\ m.authorised = l.authorised
        /\ m.wanted = l.wanted /\ m.offered = l.offered /\ m.acks = l.acks /\ m.resync = l.resync
    BY <1>1, <1>2, SetPump
  <1> HIDE DEF m
  <1>4. PumpOK(q, l.authorised, l.wanted, l.offered, k)
    BY <1>2 DEF LinkOK, PumpOK, p
  <1>5. LinkOK(m, k)
    BY <1>3, <1>4 DEF LinkOK
  <1>6. Calm(l, m)
    BY <1>2, <1>3 DEF Calm, Keeps, p
  <1>7. SameMirror(l, m)
    BY <1>2, <1>3 DEF SameMirror, p
  <1> QED BY <1>3, <1>5, <1>6, <1>7 DEF m, q, p

\* note_durable_appeared.
LEMMA NoteDurableAppearedOK ==
  ASSUME NEW l, NEW k, LinkOK(l, k)
  PROVE  LET r == ApplyTo(l, NoteDurableAppeared(l.pump))
         IN  LinkOK(r, k) /\ Calm(l, r) /\ SameMirror(l, r) /\ r.resync = l.resync
  <1> DEFINE m == [l EXCEPT !.pump = NoteReplay(l.pump)]
             r == ApplyTo(m, Advance(m.pump))
  <1>1. LinkOK(m, k) /\ Calm(l, m) /\ SameMirror(l, m) /\ m.resync = l.resync
    BY NoteReplayOK
  <1>2. l \in Links /\ NoteReplay(l.pump) \in Pumps
    <2>1. l \in Links /\ l.pump \in Pumps
      BY FieldTypes DEF LinkOK
    <2> QED BY <2>1 DEF NoteReplay, Pumps, Pump
  <1>3. m.pump = NoteReplay(l.pump) /\ r = ApplyTo(l, NoteDurableAppeared(l.pump))
    BY <1>2, SetPump DEF NoteDurableAppeared
  <1> HIDE DEF m
  <1>4. LinkOK(r, k) /\ Calm(m, r) /\ SameMirror(m, r) /\ r.resync = m.resync
    BY <1>1, AdvanceOK
  <1> HIDE DEF r
  <1>5. Calm(l, r)
    BY <1>1, <1>4, CalmTransitive
  <1>6. SameMirror(l, r)
    BY <1>1, <1>4 DEF SameMirror
  <1> QED BY <1>1, <1>3, <1>4, <1>5, <1>6

\* The block alone changes nothing the link relies on.
LEMMA BlockedOK ==
  ASSUME NEW l, NEW k, LinkOK(l, k), NEW b \in BOOLEAN
  PROVE  LET m == [l EXCEPT !.pump = [l.pump EXCEPT !.blocked = b]]
         IN  LinkOK(m, k) /\ Calm(l, m) /\ SameMirror(l, m) /\ m.resync = l.resync
  <1> DEFINE p == l.pump
             q == [p EXCEPT !.blocked = b]
             m == [l EXCEPT !.pump = q]
  <1>1. l \in Links /\ p \in Pumps
    BY FieldTypes DEF LinkOK
  <1> HIDE DEF p
  <1>2. /\ q \in Pumps /\ q.barrier = p.barrier /\ q.durable = p.durable /\ q.inFlight = p.inFlight
        /\ q.snapshotSeq = p.snapshotSeq /\ q.replayAgain = p.replayAgain
        /\ q.nextSeq = p.nextSeq
    BY <1>1 DEF Pumps, Pump
  <1> HIDE DEF q
  <1>3. /\ m \in Links /\ m.pump = q /\ m.mirror = l.mirror /\ m.authorised = l.authorised
        /\ m.wanted = l.wanted /\ m.offered = l.offered /\ m.acks = l.acks /\ m.resync = l.resync
    BY <1>1, <1>2, SetPump
  <1> HIDE DEF m
  <1>4. PumpOK(q, l.authorised, l.wanted, l.offered, k)
    BY <1>2 DEF LinkOK, PumpOK, p
  <1>5. LinkOK(m, k)
    BY <1>3, <1>4 DEF LinkOK
  <1>6. Calm(l, m)
    BY <1>2, <1>3 DEF Calm, Keeps, p
  <1>7. SameMirror(l, m)
    BY <1>2, <1>3 DEF SameMirror, p
  <1> QED BY <1>3, <1>5, <1>6, <1>7 DEF m, q, p

\* set_snapshot_blocked.
LEMMA SetSnapshotBlockedOK ==
  ASSUME NEW l, NEW k, LinkOK(l, k), NEW b \in BOOLEAN
  PROVE  LET r == ApplyTo(l, SetSnapshotBlocked(l.pump, b))
         IN  LinkOK(r, k) /\ Calm(l, r) /\ SameMirror(l, r) /\ r.resync = l.resync
  <1> DEFINE q == [l.pump EXCEPT !.blocked = b]
             m == [l EXCEPT !.pump = q]
             r == ApplyTo(l, SetSnapshotBlocked(l.pump, b))
  <1>1. LinkOK(m, k) /\ Calm(l, m) /\ SameMirror(l, m) /\ m.resync = l.resync
    BY BlockedOK
  <1>2. l \in Links /\ l.pump \in Pumps
    BY FieldTypes DEF LinkOK
  <1>3. q \in Pumps
    BY <1>2 DEF Pumps, Pump
  <1>4. r \in {ApplyTo(l, NoteDurableAppeared(q)), ApplyTo(l, Advance(q)), ApplyTo(l, Result(q, Wait))}
    BY DEF SetSnapshotBlocked
  <1> HIDE DEF q
  <1>5. m.pump = q /\ \A res : ApplyTo(m, res) = ApplyTo(l, res)
    BY <1>2, <1>3, SetPump
  <1>6. ApplyTo(l, Result(q, Wait)) = m
    BY DEF ApplyTo, Result, Wait
  <1> HIDE DEF m, r
  <1>7. LinkOK(r, k) /\ Calm(m, r) /\ SameMirror(m, r) /\ r.resync = m.resync
    <2>1. CASE r = ApplyTo(m, NoteDurableAppeared(m.pump))
      BY <1>1, <2>1, NoteDurableAppearedOK
    <2>2. CASE r = ApplyTo(m, Advance(m.pump))
      BY <1>1, <2>2, AdvanceOK
    <2>3. CASE r = m
      BY <1>1, <2>3 DEF Calm, Keeps, SameMirror
    <2> QED BY <1>4, <1>5, <1>6, <2>1, <2>2, <2>3
  <1>8. Calm(l, r)
    BY <1>1, <1>7, CalmTransitive
  <1>9. SameMirror(l, r)
    BY <1>1, <1>7 DEF SameMirror
  <1> QED BY <1>1, <1>7, <1>8, <1>9 DEF r

\* abandon_snapshot, with the request for a snapshot withdrawn: nothing is
\* under way, so the link is back where it asked.
LEMMA AbandonOK ==
  ASSUME NEW l, NEW k, LinkOK(l, k), l.wanted
  PROVE  LET r == [l EXCEPT !.wanted = FALSE, !.pump = AbandonSnapshot(l.pump)]
         IN  /\ LinkOK(r, k) /\ Calm(l, r) /\ SameMirror(l, r) /\ r.resync = l.resync
             /\ r.pump.barrier = "Replay" /\ ~r.wanted
  <1> DEFINE p == l.pump
             q == AbandonSnapshot(p)
             r == [l EXCEPT !.wanted = FALSE, !.pump = q]
  <1>1. l \in Links /\ p \in Pumps
    BY FieldTypes DEF LinkOK
  <1>2. /\ p.barrier = "Snapshot" /\ p.snapshotSeq # None /\ l.authorised = NoFrame /\ k = 0
        /\ p.durable = <<>> /\ p.inFlight = None
        /\ l.offered < p.nextSeq /\ l.offered < p.snapshotSeq
    BY DEF LinkOK, PumpOK
  <1> HIDE DEF p
  <1> DEFINE n == IF p.snapshotSeq # None /\ p.snapshotSeq + 1 = p.nextSeq
                  THEN p.snapshotSeq ELSE p.nextSeq
  <1>3. n \in Nat \ {0} /\ l.offered < n
    BY <1>1, <1>2, FieldTypes DEF None
  <1> HIDE DEF n
  <1>4. q = [p EXCEPT !.barrier = "Replay", !.snapshotSeq = None, !.replayAgain = FALSE, !.nextSeq = n]
    BY <1>2 DEF AbandonSnapshot, n
  <1> HIDE DEF q
  <1>5. /\ q \in Pumps /\ q.barrier = "Replay" /\ q.snapshotSeq = None /\ q.replayAgain = FALSE
        /\ q.durable = p.durable /\ q.inFlight = p.inFlight /\ q.nextSeq = n
    BY <1>1, <1>3, <1>4 DEF Pumps, Pump, Barriers, None
  <1>6. /\ r \in Links /\ r.pump = q /\ r.mirror = l.mirror /\ r.authorised = l.authorised
        /\ r.wanted = FALSE /\ r.offered = l.offered /\ r.acks = l.acks /\ r.resync = l.resync
    BY <1>1, <1>5 DEF Links
  <1> HIDE DEF r
  <1>7. PumpOK(q, l.authorised, FALSE, l.offered, k)
    BY <1>2, <1>3, <1>5 DEF PumpOK, NoFrame, Frame, None
  <1>8. LinkOK(r, k)
    BY <1>6, <1>7 DEF LinkOK
  <1>9. Calm(l, r)
    BY <1>2, <1>5, <1>6 DEF Calm, Keeps, p
  <1>10. SameMirror(l, r)
    BY <1>5, <1>6 DEF SameMirror, p
  <1> QED BY <1>5, <1>6, <1>8, <1>9, <1>10 DEF r, q, p

\* reopen_replay_before_unsent_snapshot.
LEMMA ReopenReplayOK ==
  ASSUME NEW l, NEW k, LinkOK(l, k)
  PROVE  LET r == ReopenReplay(l)
         IN  LinkOK(r, k) /\ Calm(l, r) /\ SameMirror(l, r) /\ r.resync = l.resync /\ ~r.wanted
  <1>1. l.wanted => l.pump.barrier = "Snapshot"
    BY DEF LinkOK, PumpOK
  <1>2. l.wanted \in BOOLEAN
    BY FieldTypes DEF LinkOK
  <1>3. CASE l.wanted
    <2>1. ReopenReplay(l) = [l EXCEPT !.wanted = FALSE, !.pump = AbandonSnapshot(l.pump)]
      BY <1>1, <1>3 DEF ReopenReplay
    <2> QED BY <1>3, <2>1, AbandonOK, ZenonT(30)
  <1>4. CASE ~l.wanted
    <2>1. ReopenReplay(l) = l
      BY <1>4 DEF ReopenReplay
    <2> QED BY <1>4, <2>1 DEF Calm, Keeps, SameMirror
  <1> QED BY <1>2, <1>3, <1>4

----------------------------------------------------------------------------
(* offer_new_rows.                                                         *)

\* The mirror takes a row.
LEMMA MirrorTakes ==
  ASSUME NEW l \in Links, NEW n \in Numbers
  PROVE  LET m == [l EXCEPT !.mirror = Append(l.mirror, [row |-> n, seq |-> n])]
         IN  /\ m \in Links /\ m.pump = l.pump /\ m.authorised = l.authorised /\ m.wanted = l.wanted
             /\ m.offered = l.offered /\ m.acks = l.acks /\ m.resync = l.resync
             /\ m.mirror # <<>> /\ Len(m.mirror) = Len(l.mirror) + 1
             /\ m.mirror[Len(l.mirror) + 1].row = n
             /\ \A i \in 1..Len(l.mirror) : m.mirror[i] = l.mirror[i]
             /\ MirrorRows(m) = MirrorRows(l) \cup {n}
  <1> DEFINE e == [row |-> n, seq |-> n]
             s == Append(l.mirror, e)
             m == [l EXCEPT !.mirror = s]
  <1>1. e \in Entries /\ e.row = n
    BY DEF Entries
  <1>2. l.mirror \in Seq(Entries)
    BY FieldTypes
  <1> HIDE DEF e
  <1>3. /\ s \in Seq(Entries) /\ s # <<>> /\ Len(s) = Len(l.mirror) + 1
        /\ s[Len(l.mirror) + 1] = e /\ \A i \in 1..Len(l.mirror) : s[i] = l.mirror[i]
    BY <1>1, <1>2
  <1>4. Len(l.mirror) \in Nat
    BY <1>2
  <1> HIDE DEF s
  <1>5. /\ m \in Links /\ m.pump = l.pump /\ m.authorised = l.authorised /\ m.wanted = l.wanted
        /\ m.offered = l.offered /\ m.acks = l.acks /\ m.resync = l.resync /\ m.mirror = s
    BY <1>3 DEF Links
  <1> HIDE DEF m
  <1>6. MirrorRows(m) = MirrorRows(l) \cup {n}
    <2>1. ASSUME NEW x \in MirrorRows(m) PROVE x \in MirrorRows(l) \cup {n}
      BY <2>1, <1>1, <1>3, <1>4, <1>5 DEF MirrorRows
    <2>2. ASSUME NEW x \in MirrorRows(l) PROVE x \in MirrorRows(m)
      <3>1. PICK i \in 1..Len(l.mirror) : x = l.mirror[i].row
        BY <2>2 DEF MirrorRows
      <3>2. i \in 1..Len(m.mirror) /\ m.mirror[i].row = x
        BY <1>3, <1>4, <1>5, <3>1
      <3> QED BY <3>2 DEF MirrorRows
    <2>3. n \in MirrorRows(m)
      <3>1. Len(l.mirror) + 1 \in 1..Len(m.mirror) /\ m.mirror[Len(l.mirror) + 1].row = n
        BY <1>1, <1>3, <1>4, <1>5
      <3> QED BY <3>1 DEF MirrorRows
    <2> QED BY <2>1, <2>2, <2>3
  <1> QED BY <1>1, <1>3, <1>5, <1>6 DEF m, s, e

\* enqueue_durable_at up to its advance: the queue takes the row.
LEMMA QueueTakes ==
  ASSUME NEW p \in Pumps, NEW n \in Numbers
  PROVE  LET q == NoteReplay([p EXCEPT !.nextSeq = n + 1, !.durable = Append(p.durable, n)])
         IN  /\ q \in Pumps /\ q.barrier = p.barrier /\ q.inFlight = p.inFlight
             /\ q.snapshotSeq = p.snapshotSeq /\ q.nextSeq = n + 1
             /\ q.replayAgain = (p.replayAgain \/ p.barrier = "Snapshot")
             /\ q.durable = Append(p.durable, n)
  <1> DEFINE d == Append(p.durable, n)
             q == [p EXCEPT !.nextSeq = n + 1, !.durable = d]
  <1>1. p.durable \in Seq(Numbers)
    BY FieldTypes
  <1>2. d \in Seq(Numbers)
    BY <1>1
  <1>3. n + 1 \in Nat \ {0}
    BY DEF Numbers
  <1> HIDE DEF d
  <1>4. /\ q \in Pumps /\ q.barrier = p.barrier /\ q.inFlight = p.inFlight
        /\ q.snapshotSeq = p.snapshotSeq /\ q.replayAgain = p.replayAgain /\ q.durable = d
        /\ q.nextSeq = n + 1
    BY <1>2, <1>3 DEF Pumps, Pump, Numbers
  <1> HIDE DEF q
  <1>5. /\ NoteReplay(q) \in Pumps /\ NoteReplay(q).barrier = q.barrier
        /\ NoteReplay(q).inFlight = q.inFlight /\ NoteReplay(q).snapshotSeq = q.snapshotSeq
        /\ NoteReplay(q).nextSeq = q.nextSeq
        /\ NoteReplay(q).replayAgain = (q.replayAgain \/ q.barrier = "Snapshot")
        /\ NoteReplay(q).durable = q.durable
    <2>1. CASE q.barrier = "Snapshot"
      BY <1>4, <2>1 DEF NoteReplay, Pumps, Pump
    <2>2. CASE q.barrier # "Snapshot"
      <3>1. NoteReplay(q) = q
        BY <2>2 DEF NoteReplay
      <3>2. q.replayAgain \in BOOLEAN
        BY <1>4, FieldTypes
      <3> QED BY <1>4, <2>2, <3>1, <3>2, Zenon
    <2> QED BY <2>1, <2>2
  <1> QED BY <1>4, <1>5 DEF q, d

\* The members of a queue with one more.
LEMMA AppendedNumbers ==
  ASSUME NEW s \in Seq(Numbers), NEW n \in Numbers
  PROVE  /\ {Append(s, n)[i] : i \in 1..Len(Append(s, n))} = {s[i] : i \in 1..Len(s)} \cup {n}
         /\ (\A i, j \in 1..Len(s) : i < j => s[i] < s[j]) /\ (\A i \in 1..Len(s) : s[i] < n)
               => \A i, j \in 1..Len(Append(s, n)) : i < j => Append(s, n)[i] < Append(s, n)[j]
  <1> DEFINE t == Append(s, n)
  <1>1. /\ Len(t) = Len(s) + 1 /\ t[Len(s) + 1] = n
        /\ \A i \in 1..Len(s) : t[i] = s[i] /\ s[i] \in Numbers
    OBVIOUS
  <1>2. Len(s) \in Nat
    OBVIOUS
  <1> HIDE DEF t
  <1>3. {t[i] : i \in 1..Len(t)} = {s[i] : i \in 1..Len(s)} \cup {n}
    <2>1. \A i \in 1..Len(t) : i \in 1..Len(s) \/ i = Len(s) + 1
      BY <1>1, <1>2
    <2>2. \A i \in 1..Len(s) : i \in 1..Len(t)
      BY <1>1, <1>2
    <2>3. Len(s) + 1 \in 1..Len(t)
      BY <1>1, <1>2
    <2> QED BY <1>1, <2>1, <2>2, <2>3
  <1>4. ASSUME \A i, j \in 1..Len(s) : i < j => s[i] < s[j], \A i \in 1..Len(s) : s[i] < n
        PROVE  \A i, j \in 1..Len(t) : i < j => t[i] < t[j]
    <2> SUFFICES ASSUME NEW i \in 1..Len(t), NEW j \in 1..Len(t), i < j
                 PROVE  t[i] < t[j]
      OBVIOUS
    <2>1. i \in 1..Len(s) /\ (j \in 1..Len(s) \/ j = Len(s) + 1)
      BY <1>1, <1>2
    <2>2. t[i] = s[i]
      BY <1>1, <2>1
    <2>3. CASE j \in 1..Len(s)
      BY <1>1, <1>4, <2>1, <2>2, <2>3
    <2>4. CASE j = Len(s) + 1
      BY <1>1, <1>4, <2>1, <2>2, <2>4
    <2> QED BY <2>1, <2>3, <2>4
  <1> QED BY <1>3, <1>4 DEF t

\* What a pass has established once the rows up to n have had their turn.
PassOK(l, k, R, C, n) ==
    /\ LinkOK(l, k)
    /\ MirrorOK(l, R, C)
    /\ ~l.resync => \A r \in R : r <= n => r <= l.offered

\* A row above the last one offered is not below anything in the mirror.
LEMMA MirrorBelow ==
  ASSUME NEW l, NEW R \in SUBSET Numbers, NEW C \in SUBSET Numbers, NEW n \in R,
         l \in Links, MirrorOK(l, R, C), n > l.offered
  PROVE  \A e \in MirrorRows(l) : e <= n
  <1>1. l.offered \in 0..MaxSequence
    BY FieldTypes
  <1>2. \A e \in MirrorRows(l) : e \in Numbers
    BY DEF MirrorOK
  <1> QED BY <1>1, <1>2 DEF MirrorOK, Numbers

\* The pump refuses a row the mirror has already taken.
LEMMA RefusedOK ==
  ASSUME NEW l, NEW k, NEW R \in SUBSET Numbers, NEW C \in SUBSET Numbers, NEW n \in R,
         PassOK(l, k, R, C, n - 1), ~l.resync, n > l.offered, Len(l.mirror) < MirrorCap
  PROVE  LET m == [l EXCEPT !.mirror = Append(l.mirror, [row |-> n, seq |-> n])]
             r == [m EXCEPT !.resync = TRUE]
         IN  PassOK(r, k, R, C, n) /\ Calm(l, r)
  <1> DEFINE m == [l EXCEPT !.mirror = Append(l.mirror, [row |-> n, seq |-> n])]
             r == [m EXCEPT !.resync = TRUE]
  <1>1. l \in Links /\ n \in Numbers /\ l.offered \in 0..MaxSequence /\ l.mirror \in Seq(Entries)
    BY FieldTypes DEF PassOK, LinkOK
  <1>2. /\ m \in Links /\ m.pump = l.pump /\ m.authorised = l.authorised /\ m.wanted = l.wanted
        /\ m.offered = l.offered /\ m.acks = l.acks
        /\ m.mirror # <<>> /\ Len(m.mirror) = Len(l.mirror) + 1
        /\ m.mirror[Len(l.mirror) + 1].row = n
        /\ \A i \in 1..Len(l.mirror) : m.mirror[i] = l.mirror[i]
        /\ MirrorRows(m) = MirrorRows(l) \cup {n}
    BY <1>1, MirrorTakes, ZenonT(30)
  <1> HIDE DEF m
  <1>3. /\ r \in Links /\ r.pump = m.pump /\ r.authorised = m.authorised /\ r.wanted = m.wanted
        /\ r.offered = m.offered /\ r.acks = m.acks /\ r.mirror = m.mirror /\ r.resync = TRUE
    BY <1>2 DEF Links
  <1>4. MirrorRows(r) = MirrorRows(l) \cup {n} /\ Queued(r) = Queued(l)
    BY <1>2, <1>3, SMTT(30) DEF MirrorRows, Queued
  <1> HIDE DEF r
  <1>5. LinkOK(r, k)
    <2>1. Len(l.mirror) \in Nat /\ MirrorCap \in Nat
      BY <1>1, LinkAssumption
    <2> QED BY <1>2, <1>3, <2>1 DEF PassOK, LinkOK
  <1>6. Calm(l, r)
    BY <1>2, <1>3 DEF Calm, Keeps
  <1>7. \A e \in MirrorRows(l) : e <= n /\ e \in Numbers
    BY <1>1, MirrorBelow DEF PassOK, MirrorOK
  <1>8. \A i, j \in 1..Len(r.mirror) : i < j => r.mirror[i].row <= r.mirror[j].row
    <2> SUFFICES ASSUME NEW i \in 1..Len(r.mirror), NEW j \in 1..Len(r.mirror), i < j
                 PROVE  r.mirror[i].row <= r.mirror[j].row
      OBVIOUS
    <2>1. Len(l.mirror) \in Nat
      BY <1>1
    <2>2. i \in 1..Len(l.mirror) /\ (j \in 1..Len(l.mirror) \/ j = Len(l.mirror) + 1)
      BY <1>2, <1>3, <2>1
    <2>3. r.mirror[i].row = l.mirror[i].row /\ l.mirror[i].row \in MirrorRows(l)
      BY <1>2, <1>3, <2>2 DEF MirrorRows
    <2>4. CASE j \in 1..Len(l.mirror)
      BY <1>2, <1>3, <2>2, <2>3, <2>4 DEF PassOK, MirrorOK
    <2>5. CASE j = Len(l.mirror) + 1
      BY <1>2, <1>3, <1>7, <2>3, <2>5
    <2> QED BY <2>2, <2>4, <2>5
  <1>9. \A x \in R : n <= l.offered \/ x <= l.offered \/ n <= x
    <2>1. \A x \in R : x <= n - 1 => x <= l.offered
      BY DEF PassOK
    <2> QED BY <1>1, <2>1 DEF Numbers
  <1>10. MirrorOK(r, R, C)
    <2>1. r.offered = l.offered /\ r.pump = l.pump
      BY <1>2, <1>3
    <2>2. MirrorRows(r) \subseteq R \cup C
      BY <1>4 DEF PassOK, MirrorOK
    <2>3. \A x \in Queued(r) : x <= r.offered /\ x \in MirrorRows(r)
      BY <1>4, <2>1 DEF PassOK, MirrorOK
    <2>4. \A e \in MirrorRows(r) : e \in C \/ e \in Queued(r) \/ e > r.offered
      BY <1>4, <2>1 DEF PassOK, MirrorOK
    <2>5. \A x \in R \ C : x \in MirrorRows(r) \/ x > r.offered
      BY <1>4, <2>1 DEF PassOK, MirrorOK
    <2>6. \A e \in MirrorRows(r), x \in R : e <= r.offered \/ x <= r.offered \/ e <= x
      BY <1>4, <1>9, <2>1 DEF PassOK, MirrorOK
    <2>7. \A i, j \in 1..Len(r.pump.durable) : i < j => r.pump.durable[i] < r.pump.durable[j]
      BY <2>1 DEF PassOK, MirrorOK
    <2>8. r.offered \in R \cup C \cup {0}
      BY <2>1 DEF PassOK, MirrorOK
    <2> QED BY <1>8, <2>2, <2>3, <2>4, <2>5, <2>6, <2>7, <2>8 DEF MirrorOK
  <1> QED BY <1>3, <1>5, <1>6, <1>10 DEF PassOK, r, m

\* The pump takes the row; it is written at once when nothing is under way.
LEMMA EnqueuedOK ==
  ASSUME NEW l, NEW k, NEW R \in SUBSET Numbers, NEW C \in SUBSET Numbers, NEW n \in R,
         PassOK(l, k, R, C, n - 1), ~l.resync, n > l.offered, ~l.wanted, Len(l.mirror) < MirrorCap
  PROVE  LET m == [l EXCEPT !.mirror = Append(l.mirror, [row |-> n, seq |-> n])]
             r == ApplyTo([m EXCEPT !.offered = n], EnqueueDurableAt(m.pump, n))
         IN  PassOK(r, k, R, C, n) /\ Calm(l, r)
  <1> DEFINE m == [l EXCEPT !.mirror = Append(l.mirror, [row |-> n, seq |-> n])]
             o == [m EXCEPT !.offered = n]
             q == NoteReplay([l.pump EXCEPT !.nextSeq = n + 1, !.durable = Append(l.pump.durable, n)])
             y == [o EXCEPT !.pump = q]
             r == ApplyTo(o, EnqueueDurableAt(m.pump, n))
  <1>1. /\ l \in Links /\ n \in Numbers /\ l.offered \in 0..MaxSequence /\ l.mirror \in Seq(Entries)
        /\ l.pump \in Pumps /\ l.pump.durable \in Seq(Numbers)
    BY FieldTypes DEF PassOK, LinkOK
  <1>2. /\ m \in Links /\ m.pump = l.pump /\ m.authorised = l.authorised /\ m.wanted = l.wanted
        /\ m.acks = l.acks /\ m.resync = l.resync
        /\ m.mirror # <<>> /\ Len(m.mirror) = Len(l.mirror) + 1
        /\ m.mirror[Len(l.mirror) + 1].row = n
        /\ \A i \in 1..Len(l.mirror) : m.mirror[i] = l.mirror[i]
        /\ MirrorRows(m) = MirrorRows(l) \cup {n}
    BY <1>1, MirrorTakes, ZenonT(30)
  <1> HIDE DEF m
  <1>3. /\ o \in Links /\ o.pump = m.pump /\ o.authorised = m.authorised /\ o.wanted = m.wanted
        /\ o.offered = n /\ o.acks = m.acks /\ o.mirror = m.mirror /\ o.resync = m.resync
    <2>1. n \in 0..MaxSequence
      BY <1>1 DEF Numbers
    <2> QED BY <1>2, <2>1 DEF Links
  <1>4. /\ q \in Pumps /\ q.barrier = l.pump.barrier /\ q.inFlight = l.pump.inFlight
        /\ q.snapshotSeq = l.pump.snapshotSeq /\ q.nextSeq = n + 1
        /\ q.replayAgain = (l.pump.replayAgain \/ l.pump.barrier = "Snapshot")
        /\ q.durable = Append(l.pump.durable, n)
    BY <1>1, QueueTakes
  <1>5. EnqueueDurableAt(m.pump, n) = Advance(q)
    BY <1>2 DEF EnqueueDurableAt
  <1> HIDE DEF o, q
  <1>6. /\ y \in Links /\ y.pump = q /\ y.mirror = m.mirror /\ y.authorised = l.authorised
        /\ y.wanted = l.wanted /\ y.offered = n /\ y.acks = l.acks /\ y.resync = l.resync
        /\ ApplyTo(y, Advance(q)) = ApplyTo(o, Advance(q))
    BY <1>2, <1>3, <1>4, SetPump
  <1> HIDE DEF y
  <1>7. MirrorRows(y) = MirrorRows(l) \cup {n}
    BY <1>2, <1>6 DEF MirrorRows
  <1>8. Queued(y) = Queued(l) \cup {n}
    <2> DEFINE d == l.pump.durable
    <2>1. d \in Seq(Numbers) /\ n \in Numbers
      BY <1>1
    <2> HIDE DEF d
    <2>2. {Append(d, n)[i] : i \in 1..Len(Append(d, n))} = {d[i] : i \in 1..Len(d)} \cup {n}
      BY <2>1, AppendedNumbers
    <2>3. y.pump.durable = Append(d, n)
      BY <1>4, <1>6 DEF d
    <2> QED BY <2>2, <2>3 DEF Queued, d
  <1>9. /\ l.pump.durable # <<>> => Head(q.durable) = Head(l.pump.durable)
        /\ q.durable # <<>>
    BY <1>1, <1>4
  <1>10. PumpOK(q, l.authorised, l.wanted, n, k)
    <2>1. n < q.nextSeq
      BY <1>1, <1>4 DEF Numbers
    <2> QED BY <1>4, <1>9, <2>1 DEF PassOK, LinkOK, PumpOK
  <1>11. LinkOK(y, k)
    <2>1. Len(l.mirror) \in Nat /\ MirrorCap \in Nat
      BY <1>1, LinkAssumption
    <2> QED BY <1>2, <1>6, <1>10, <2>1 DEF PassOK, LinkOK
  <1>12. Calm(l, y)
    BY <1>4, <1>6 DEF Calm, Keeps
  <1>13. \A e \in MirrorRows(l) : e <= n /\ e \in Numbers
    BY <1>1, MirrorBelow DEF PassOK, MirrorOK
  <1>14. \A i, j \in 1..Len(y.mirror) : i < j => y.mirror[i].row <= y.mirror[j].row
    <2> SUFFICES ASSUME NEW i \in 1..Len(y.mirror), NEW j \in 1..Len(y.mirror), i < j
                 PROVE  y.mirror[i].row <= y.mirror[j].row
      OBVIOUS
    <2>1. Len(l.mirror) \in Nat
      BY <1>1
    <2>2. i \in 1..Len(l.mirror) /\ (j \in 1..Len(l.mirror) \/ j = Len(l.mirror) + 1)
      BY <1>2, <1>6, <2>1
    <2>3. y.mirror[i].row = l.mirror[i].row /\ l.mirror[i].row \in MirrorRows(l)
      BY <1>2, <1>6, <2>2 DEF MirrorRows
    <2>4. CASE j \in 1..Len(l.mirror)
      BY <1>2, <1>6, <2>2, <2>3, <2>4 DEF PassOK, MirrorOK
    <2>5. CASE j = Len(l.mirror) + 1
      BY <1>2, <1>6, <1>13, <2>3, <2>5
    <2> QED BY <2>2, <2>4, <2>5
  <1>15. \A x \in R : x <= n - 1 => x <= l.offered
    BY DEF PassOK
  <1>16. \A x \in R : x < n => x <= l.offered
    BY <1>1, <1>15 DEF Numbers
  <1>17. MirrorOK(y, R, C)
    <2>2. MirrorRows(y) \subseteq R \cup C
      BY <1>7 DEF PassOK, MirrorOK
    <2>3. \A x \in Queued(l) : x <= l.offered /\ x \in MirrorRows(l) /\ x \in Numbers
      BY <1>13 DEF PassOK, MirrorOK
    <2>4. \A x \in Queued(y) : x <= n /\ x \in MirrorRows(y)
      BY <1>1, <1>7, <1>8, <2>3 DEF Numbers
    <2>5. ASSUME NEW e \in MirrorRows(y), e \notin C, e # n
          PROVE  e \in Queued(y)
      <3>1. e \in MirrorRows(l) /\ e \in R
        BY <1>7, <2>2, <2>5
      <3>2. e < n
        BY <1>1, <1>13, <2>5, <3>1 DEF Numbers
      <3>3. e <= l.offered
        BY <1>16, <3>1, <3>2
      <3>4. ~(e > l.offered)
        BY <1>1, <1>13, <3>1, <3>3 DEF Numbers
      <3> QED BY <1>8, <2>5, <3>1, <3>4 DEF PassOK, MirrorOK
    <2>6. \A e \in MirrorRows(y) : e \in C \/ e \in Queued(y) \/ e > y.offered
      BY <1>8, <2>5
    <2>7. ASSUME NEW x \in R \ C, x \notin MirrorRows(y)
          PROVE  x > n
      <3>1. x \notin MirrorRows(l) /\ x # n
        BY <1>7, <2>7
      <3>2. x > l.offered
        BY <2>7, <3>1 DEF PassOK, MirrorOK
      <3> QED BY <1>1, <1>16, <2>7, <3>1, <3>2 DEF Numbers
    <2>8. \A e \in MirrorRows(y) : e <= n
      BY <1>1, <1>7, <1>13 DEF Numbers
    <2>9. \A i \in 1..Len(l.pump.durable) : l.pump.durable[i] < n
      <3>1. ASSUME NEW i \in 1..Len(l.pump.durable) PROVE l.pump.durable[i] \in Queued(l)
        BY DEF Queued
      <3>2. \A x \in Queued(l) : x < n
        BY <1>1, <2>3 DEF Numbers
      <3> QED BY <3>1, <3>2
    <2>10. \A i, j \in 1..Len(y.pump.durable) : i < j => y.pump.durable[i] < y.pump.durable[j]
      BY <1>1, <1>4, <1>6, <2>9, AppendedNumbers DEF PassOK, MirrorOK
    <2> QED BY <1>6, <1>14, <2>2, <2>4, <2>6, <2>7, <2>8, <2>10 DEF MirrorOK
  <1>18. r = ApplyTo(y, Advance(y.pump))
    BY <1>5, <1>6
  <1> HIDE DEF r
  <1>19. LinkOK(r, k) /\ Calm(y, r) /\ SameMirror(y, r) /\ r.resync = y.resync
    BY <1>11, <1>18, AdvanceOK
  <1>20. MirrorOK(r, R, C)
    BY <1>17, <1>19, MirrorSame
  <1>21. Calm(l, r)
    BY <1>12, <1>19, CalmTransitive
  <1>22. \A x \in R : x <= n => x <= r.offered
    BY <1>6, <1>19 DEF SameMirror
  <1> QED BY <1>19, <1>20, <1>21, <1>22 DEF PassOK, r, o, m

\* The flag that asks for another pass.
LEMMA SetResync ==
  ASSUME NEW l, NEW k, LinkOK(l, k), NEW b \in BOOLEAN
  PROVE  LET r == [l EXCEPT !.resync = b]
         IN  LinkOK(r, k) /\ Calm(l, r) /\ SameMirror(l, r) /\ r.resync = b
  <1> DEFINE r == [l EXCEPT !.resync = b]
  <1>1. l \in Links
    BY DEF LinkOK
  <1>2. /\ r \in Links /\ r.pump = l.pump /\ r.mirror = l.mirror /\ r.authorised = l.authorised
        /\ r.wanted = l.wanted /\ r.offered = l.offered /\ r.acks = l.acks /\ r.resync = b
    BY <1>1 DEF Links
  <1> HIDE DEF r
  <1>3. LinkOK(r, k) /\ Calm(l, r) /\ SameMirror(l, r)
    BY <1>2 DEF LinkOK, Calm, Keeps, SameMirror
  <1> QED BY <1>2, <1>3 DEF r

\* offer_new_rows for one row.
LEMMA OfferRowOK ==
  ASSUME NEW l, NEW k, NEW R \in SUBSET Numbers, NEW C \in SUBSET Numbers, NEW n \in R,
         PassOK(l, k, R, C, n - 1)
  PROVE  PassOK(OfferRow(l, n), k, R, C, n) /\ Calm(l, OfferRow(l, n))
  <1> DEFINE r == ReopenReplay(l)
             m == [r EXCEPT !.mirror = Append(r.mirror, [row |-> n, seq |-> n])]
  <1>1. /\ LinkOK(r, k) /\ Calm(l, r) /\ SameMirror(l, r) /\ r.resync = l.resync /\ ~r.wanted
    BY ReopenReplayOK DEF PassOK
  <1>2. /\ n \in Numbers /\ l.offered \in 0..MaxSequence /\ l.resync \in BOOLEAN
        /\ l.mirror \in Seq(Entries) /\ r.mirror \in Seq(Entries)
    BY <1>1, FieldTypes DEF PassOK, LinkOK
  <1> DEFINE x == OfferRow(l, n)
             full == Len(r.mirror) >= MirrorCap
             can == CanEnqueueAt(r.pump, n)
             a == [r EXCEPT !.resync = TRUE]
             b == [m EXCEPT !.resync = TRUE]
             c == ApplyTo([m EXCEPT !.offered = n], EnqueueDurableAt(m.pump, n))
  <1>4. x = IF l.resync \/ n <= l.offered THEN l
            ELSE IF full THEN a ELSE IF ~can THEN b ELSE c
    BY DEF OfferRow
  <1> HIDE DEF x
  <1>5. CASE l.resync \/ n <= l.offered
    <2>1. x = l
      BY <1>4, <1>5
    <2>2. \A y \in R : y <= n => y = n \/ y <= n - 1
      BY <1>2 DEF Numbers
    <2>3. PassOK(l, k, R, C, n)
      BY <1>5, <2>2 DEF PassOK
    <2>4. Calm(l, l)
      BY DEF Calm, Keeps
    <2> QED BY <2>1, <2>3, <2>4 DEF x
  <1>6. CASE ~l.resync /\ ~(n <= l.offered)
    <2>1. n > l.offered
      BY <1>2, <1>6 DEF Numbers
    <2>2. r.offered = l.offered
      BY <1>1 DEF SameMirror
    <2>3. PassOK(r, k, R, C, n - 1)
      BY <1>1, <2>2, MirrorSame DEF PassOK
    <2>4. n > r.offered /\ ~r.resync
      BY <1>1, <1>6, <2>1, <2>2
    <2> HIDE DEF r
    <2>5. PassOK(x, k, R, C, n) /\ Calm(r, x)
      <3>1. CASE full
        <4>1. x = a
          BY <1>4, <1>6, <3>1
        <4>2. LinkOK(a, k) /\ Calm(r, a) /\ SameMirror(r, a) /\ a.resync = TRUE
          BY <1>1, SetResync
        <4> HIDE DEF a
        <4>3. MirrorOK(a, R, C)
          BY <2>3, <4>2, MirrorSame DEF PassOK
        <4> QED BY <4>1, <4>2, <4>3 DEF PassOK
      <3>2. CASE ~full
        <4>1. Len(r.mirror) < MirrorCap
          BY <1>2, <3>2, LinkAssumption
        <4>2. CASE ~can
          <5>1. x = b
            BY <1>4, <1>6, <3>2, <4>2
          <5>2. PassOK(b, k, R, C, n) /\ Calm(r, b)
            BY <2>3, <2>4, <4>1, RefusedOK
          <5> QED BY <5>1, <5>2
        <4>3. CASE can
          <5>1. x = c
            BY <1>4, <1>6, <3>2, <4>3
          <5>2. PassOK(c, k, R, C, n) /\ Calm(r, c)
            BY <1>1, <2>3, <2>4, <4>1, EnqueuedOK
          <5> QED BY <5>1, <5>2
        <4> QED BY <4>2, <4>3
      <3> QED BY <3>1, <3>2
    <2>6. Calm(l, x)
      BY <1>1, <2>5, CalmTransitive
    <2> QED BY <2>5, <2>6 DEF x
  <1> QED BY <1>2, <1>5, <1>6

\* A non-empty set of naturals has a least member.
LEMMA LeastOf ==
  ASSUME NEW S \in SUBSET Nat, S # {}
  PROVE  \E x \in S : \A y \in S : x <= y
  <1>1. PICK x \in S : \A y \in S : ~(<<y, x>> \in OpToRel(<, Nat))
    BY WFMin, NatLessThanWellFounded, Zenon
  <1>2. \A y \in S : ~(y < x)
    BY <1>1, Zenon DEF OpToRel
  <1> QED BY <1>2

\* The pass as a function of the rows it has come to.
Turn(f, l, W, n) ==
    IF n = 0 THEN [l EXCEPT !.resync = FALSE]
    ELSE IF n \in W THEN OfferRow(f[n - 1], n) ELSE f[n - 1]

\* The recursion of offer_new_rows defines a function.
LEMMA PassUnfolds ==
  ASSUME NEW l, NEW W
  PROVE  /\ OfferPass(l, W)[0] = [l EXCEPT !.resync = FALSE]
         /\ \A n \in Numbers :
               OfferPass(l, W)[n] = IF n \in W THEN OfferRow(OfferPass(l, W)[n - 1], n)
                                    ELSE OfferPass(l, W)[n - 1]
  <1> DEFINE Bad == {m \in Nat : ~ \E f : f = [n \in 0..m |-> Turn(f, l, W, n)]}
  <1>1. Bad = {}
    <2> SUFFICES ASSUME Bad # {} PROVE FALSE
      OBVIOUS
    <2>1. PICK m \in Bad : \A y \in Bad : m <= y
      BY LeastOf
    <2>2. m \in Nat /\ ~ \E f : f = [n \in 0..m |-> Turn(f, l, W, n)]
      OBVIOUS
    <2>3. CASE m = 0
      <3> DEFINE g == [n \in 0..0 |-> [l EXCEPT !.resync = FALSE]]
      <3>1. \A n \in 0..0 : Turn(g, l, W, n) = [l EXCEPT !.resync = FALSE]
        BY DEF Turn
      <3>2. g = [n \in 0..0 |-> Turn(g, l, W, n)]
        BY <3>1
      <3> QED BY <2>2, <2>3, <3>2
    <2>4. CASE m # 0
      <3>1. m - 1 \in Nat /\ ~(m <= m - 1)
        BY <2>2, <2>4
      <3>2. m - 1 \notin Bad
        BY <2>1, <3>1
      <3>3. PICK f : f = [n \in 0..(m - 1) |-> Turn(f, l, W, n)]
        BY <3>1, <3>2
      <3> DEFINE g == [n \in 0..m |-> IF n = m THEN Turn(f, l, W, m) ELSE f[n]]
      <3>4. ASSUME NEW n \in 0..m
            PROVE  g[n] = Turn(g, l, W, n)
        <4>1. n # 0 => n - 1 \in 0..m /\ n - 1 # m
          BY <2>2
        <4>2. n # 0 => g[n - 1] = f[n - 1]
          BY <4>1
        <4>3. Turn(g, l, W, n) = Turn(f, l, W, n)
          BY <4>2 DEF Turn
        <4>4. n # m => n \in 0..(m - 1)
          BY <2>2
        <4>5. n # m => f[n] = Turn(f, l, W, n)
          BY <3>3, <4>4
        <4> QED BY <4>3, <4>5
      <3>5. g = [n \in 0..m |-> g[n]]
        OBVIOUS
      <3>6. g = [n \in 0..m |-> Turn(g, l, W, n)]
        BY <3>4, <3>5
      <3> QED BY <2>2, <3>6
    <2> QED BY <2>3, <2>4
  <1>2. MaxSequence \in Nat
    BY LinkAssumption
  <1>3. \E f : f = [n \in 0..MaxSequence |-> Turn(f, l, W, n)]
    BY <1>1, <1>2
  <1> DEFINE F == OfferPass(l, W)
  <1>4. F = CHOOSE f : f = [n \in 0..MaxSequence |-> Turn(f, l, W, n)]
    BY DEF OfferPass, Turn
  <1> HIDE DEF F
  <1>5. F = [n \in 0..MaxSequence |-> Turn(F, l, W, n)]
    BY <1>3, <1>4
  <1>6. \A n \in 0..MaxSequence : F[n] = Turn(F, l, W, n)
    BY <1>5
  <1>7. 0 \in 0..MaxSequence /\ \A n \in Numbers : n \in 0..MaxSequence /\ n # 0
    BY <1>2 DEF Numbers
  <1> QED BY <1>6, <1>7 DEF F, Turn

\* offer_new_rows: after a pass over all rows the mirror and the queue are in
\* order, and unless the pass was stopped no row is left to offer.
LEMMA OfferRowsOK ==
  ASSUME NEW l, NEW k, NEW R \in SUBSET Numbers, NEW C \in SUBSET Numbers,
         LinkOK(l, k), MirrorOK(l, R, C)
  PROVE  LET r == OfferRows(l, R)
         IN  LinkOK(r, k) /\ MirrorOK(r, R, C) /\ Calm(l, r)
             /\ (~r.resync => \A x \in R : x <= r.offered)
  <1> DEFINE F == OfferPass(l, R)
             Good(n) == PassOK(F[n], k, R, C, n) /\ Calm(l, F[n])
             Bad == {n \in Nat : n <= MaxSequence /\ ~Good(n)}
  <1>1. /\ F[0] = [l EXCEPT !.resync = FALSE]
        /\ \A n \in Numbers : F[n] = IF n \in R THEN OfferRow(F[n - 1], n) ELSE F[n - 1]
    BY PassUnfolds
  <1> HIDE DEF F
  <1>2. Good(0)
    <2>1. LinkOK(F[0], k) /\ Calm(l, F[0]) /\ SameMirror(l, F[0])
      BY <1>1, SetResync
    <2>2. MirrorOK(F[0], R, C)
      BY <2>1, MirrorSame
    <2>3. \A r \in R : ~(r <= 0)
      BY DEF Numbers
    <2> QED BY <2>1, <2>2, <2>3 DEF PassOK
  <1>3. ASSUME NEW n \in Numbers, Good(n - 1)
        PROVE  Good(n)
    <2>1. CASE n \in R
      <3>1. F[n] = OfferRow(F[n - 1], n)
        BY <1>1, <2>1
      <3>2. PassOK(F[n], k, R, C, n) /\ Calm(F[n - 1], F[n])
        BY <1>3, <2>1, <3>1, OfferRowOK
      <3>3. Calm(l, F[n])
        BY <1>3, <3>2, CalmTransitive
      <3> QED BY <3>2, <3>3
    <2>2. CASE n \notin R
      <3>1. F[n] = F[n - 1]
        BY <1>1, <2>2
      <3>2. \A r \in R : r <= n => r <= n - 1
        BY <2>2 DEF Numbers
      <3>3. PassOK(F[n], k, R, C, n)
        BY <1>3, <3>1, <3>2 DEF PassOK
      <3> QED BY <1>3, <3>1, <3>3
    <2> QED BY <2>1, <2>2
  <1>4. Bad = {}
    <2> SUFFICES ASSUME Bad # {} PROVE FALSE
      OBVIOUS
    <2> HIDE DEF Good
    <2>1. PICK n \in Bad : \A y \in Bad : n <= y
      BY LeastOf
    <2>2. n \in Nat /\ n <= MaxSequence /\ ~Good(n)
      OBVIOUS
    <2>3. n # 0
      BY <1>2, <2>2
    <2>4. n - 1 \in Nat /\ n - 1 <= MaxSequence /\ ~(n <= n - 1) /\ n \in Numbers
      BY <2>2, <2>3, LinkAssumption DEF Numbers
    <2>5. Good(n - 1)
      BY <2>1, <2>4
    <2> QED BY <1>3, <2>2, <2>4, <2>5
  <1>5. MaxSequence \in Nat /\ MaxSequence <= MaxSequence
    BY LinkAssumption
  <1>6. Good(MaxSequence)
    <2> HIDE DEF Good
    <2> QED BY <1>4, <1>5
  <1>7. OfferRows(l, R) = F[MaxSequence]
    BY DEF OfferRows, F
  <1>8. \A x \in R : x <= MaxSequence
    BY DEF Numbers
  <1> QED BY <1>6, <1>7, <1>8 DEF PassOK

----------------------------------------------------------------------------
(* The other calls of the link loop.                                       *)

\* refresh_snapshot_blocking.
LEMMA RefreshBlockingOK ==
  ASSUME NEW k, LinkOK(link, k)
  PROVE  LET r == RefreshBlocking(link)
         IN  LinkOK(r, k) /\ Calm(link, r) /\ SameMirror(link, r) /\ r.resync = link.resync
  <1> DEFINE b == J!BlockingClaims # {}
             m == IF b THEN ReopenReplay(link) ELSE link
             r == ApplyTo(m, SetSnapshotBlocked(m.pump, b))
  <1>1. LinkOK(m, k) /\ Calm(link, m) /\ SameMirror(link, m) /\ m.resync = link.resync
    <2>1. Calm(link, link) /\ SameMirror(link, link)
      BY DEF Calm, Keeps, SameMirror
    <2> QED BY <2>1, ReopenReplayOK
  <1>2. RefreshBlocking(link) = r
    BY DEF RefreshBlocking
  <1>3. b \in BOOLEAN
    OBVIOUS
  <1> HIDE DEF m, b
  <1>4. LinkOK(r, k) /\ Calm(m, r) /\ SameMirror(m, r) /\ r.resync = m.resync
    BY <1>1, <1>3, SetSnapshotBlockedOK
  <1> HIDE DEF r
  <1>5. Calm(link, r)
    BY <1>1, <1>4, CalmTransitive
  <1>6. SameMirror(link, r)
    BY <1>1, <1>4 DEF SameMirror
  <1> QED BY <1>1, <1>2, <1>4, <1>5, <1>6

\* The frame that was read no longer counts.
LEMMA ReadOne ==
  ASSUME NEW l, LinkOK(l, 1)
  PROVE  LinkOK(l, 0) /\ l.authorised = NoFrame /\ l.wanted = FALSE
  <1>1. LinkOK(l, 0) /\ l.authorised = NoFrame /\ ~l.wanted
    BY DEF LinkOK, PumpOK
  <1>2. l.wanted \in BOOLEAN
    BY FieldTypes DEF LinkOK
  <1> QED BY <1>1, <1>2

\* The hello's answer: the rows that wait are replayed.
LEMMA HelloAckOK ==
  ASSUME NEW l, LinkOK(l, 1), l.pump.barrier = "Open"
  PROVE  LET r == ApplyTo(l, OnHelloAck(l.pump))
         IN  /\ LinkOK(r, 0) /\ SameMirror(l, r) /\ r.resync = l.resync /\ r.acks = l.acks
             /\ r.pump.barrier \in {"Replay", "Snapshot"}
             /\ r.pump.barrier = "Snapshot" => r.wanted
             /\ r.authorised = NoFrame \/ r.authorised.kind = "event"
  <1> DEFINE p == l.pump
             q == [p EXCEPT !.barrier = "Replay"]
             m == [l EXCEPT !.pump = q]
             r == ApplyTo(m, Advance(m.pump))
  <1>1. l \in Links /\ p \in Pumps
    BY FieldTypes DEF LinkOK
  <1>2. /\ LinkOK(l, 0) /\ l.authorised = NoFrame /\ l.wanted = FALSE
        /\ p.inFlight = None /\ p.snapshotSeq = None /\ ~p.replayAgain /\ l.offered < p.nextSeq
    BY ReadOne DEF LinkOK, PumpOK
  <1> HIDE DEF p
  <1>3. /\ q \in Pumps /\ q.barrier = "Replay" /\ q.durable = p.durable /\ q.inFlight = p.inFlight
        /\ q.snapshotSeq = p.snapshotSeq /\ q.replayAgain = p.replayAgain
        /\ q.nextSeq = p.nextSeq
    BY <1>1 DEF Pumps, Pump, Barriers
  <1> HIDE DEF q
  <1>4. /\ m \in Links /\ m.pump = q /\ m.mirror = l.mirror /\ m.authorised = l.authorised
        /\ m.wanted = l.wanted /\ m.offered = l.offered /\ m.acks = l.acks /\ m.resync = l.resync
        /\ ApplyTo(m, Advance(q)) = ApplyTo(l, Advance(q))
    BY <1>1, <1>3, SetPump
  <1>5. ApplyTo(l, OnHelloAck(l.pump)) = r
    BY <1>4 DEF OnHelloAck, q, p
  <1> HIDE DEF m
  <1>6. PumpOK(q, l.authorised, FALSE, l.offered, 0)
    BY <1>2, <1>3 DEF PumpOK, NoFrame, Frame
  <1>7. LinkOK(m, 0)
    BY <1>2, <1>4, <1>6 DEF LinkOK
  <1>8. LinkOK(r, 0) /\ Calm(m, r) /\ SameMirror(m, r) /\ r.resync = m.resync
    BY <1>7, AdvanceOK
  <1>9. r.pump.barrier \in Barriers
    BY <1>8, FieldTypes DEF LinkOK
  <1> HIDE DEF r
  <1>10. SameMirror(l, r)
    BY <1>3, <1>4, <1>8 DEF SameMirror, p
  <1>11. /\ r.pump.barrier \in {"Replay", "Snapshot"}
         /\ r.pump.barrier = "Snapshot" => r.wanted
         /\ r.authorised = NoFrame \/ r.authorised.kind = "event"
         /\ r.acks = l.acks
    BY <1>2, <1>3, <1>4, <1>8, <1>9 DEF Calm, Keeps, Barriers
  <1> QED BY <1>4, <1>5, <1>8, <1>10, <1>11

\* detach_link.
LEMMA DetachedOK ==
  ASSUME NEW l, NEW k, LinkOK(l, k)
  PROVE  LET r == Detached(l)
         IN  /\ LinkOK(r, 0) /\ SameMirror(l, r) /\ r.resync = l.resync /\ r.acks = l.acks
             /\ r.pump.barrier = "Idle" /\ r.authorised = NoFrame
  <1> DEFINE p == l.pump
             q == OnDisconnect(p)
             r == [l EXCEPT !.pump = q, !.authorised = NoFrame, !.wanted = FALSE]
  <1>1. l \in Links /\ p \in Pumps /\ l.offered < p.nextSeq
    BY FieldTypes DEF LinkOK, PumpOK
  <1> HIDE DEF p
  <1>2. MaxSequence \in Nat
    BY LinkAssumption
  <1>3. /\ q \in Pumps /\ q.barrier = "Idle" /\ q.durable = p.durable /\ q.inFlight = None
        /\ q.snapshotSeq = None /\ q.replayAgain = FALSE /\ q.nextSeq = p.nextSeq
    <2>1. None \in 0..MaxSequence /\ None \in Nat
      BY <1>2 DEF None
    <2>2. q = [p EXCEPT !.barrier = "Idle", !.inFlight = None, !.snapshotSeq = None,
                        !.replayAgain = FALSE]
      BY DEF OnDisconnect
    <2> HIDE DEF q
    <2> QED BY <1>1, <2>1, <2>2 DEF Pumps, Pump, Barriers
  <1> HIDE DEF q
  <1>4. NoFrame \in Frames /\ NoFrame.kind = "none"
    BY <1>2 DEF Frames, NoFrame, Frame, None
  <1>5. /\ r \in Links /\ r.pump = q /\ r.mirror = l.mirror /\ r.authorised = NoFrame
        /\ r.wanted = FALSE /\ r.offered = l.offered /\ r.acks = l.acks /\ r.resync = l.resync
    BY <1>1, <1>3, <1>4 DEF Links
  <1> HIDE DEF r
  <1>6. PumpOK(q, NoFrame, FALSE, l.offered, 0)
    BY <1>1, <1>3, <1>4 DEF PumpOK
  <1>7. LinkOK(r, 0)
    BY <1>4, <1>5, <1>6 DEF LinkOK
  <1>8. SameMirror(l, r)
    BY <1>3, <1>5 DEF SameMirror, p
  <1>9. Detached(l) = r
    BY DEF Detached, r, q, p
  <1> QED BY <1>3, <1>5, <1>7, <1>8, <1>9

\* dial: the pump opens.  The hello is the one thing under way.
LEMMA OnOpenOK ==
  ASSUME NEW l, LinkOK(l, 0), l.pump.barrier = "Idle"
  PROVE  LET r == [l EXCEPT !.pump = OnOpen(l.pump).pump]
         IN  /\ LinkOK(r, 1) /\ SameMirror(l, r) /\ r.resync = l.resync /\ r.acks = l.acks
             /\ r.pump.barrier = "Open" /\ r.authorised = NoFrame
  <1> DEFINE p == l.pump
             q == OnOpen(p).pump
             r == [l EXCEPT !.pump = q]
  <1>1. l \in Links /\ p \in Pumps
    BY FieldTypes DEF LinkOK
  <1>2. l.authorised = NoFrame /\ ~l.wanted /\ ~p.replayAgain /\ l.offered < p.nextSeq
    BY DEF LinkOK, PumpOK
  <1> HIDE DEF p
  <1>3. MaxSequence \in Nat
    BY LinkAssumption
  <1>4. /\ q \in Pumps /\ q.barrier = "Open" /\ q.durable = p.durable /\ q.inFlight = None
        /\ q.snapshotSeq = None /\ q.replayAgain = p.replayAgain /\ q.nextSeq = p.nextSeq
    <2>1. None \in 0..MaxSequence /\ None \in Nat
      BY <1>3 DEF None
    <2>2. q = [p EXCEPT !.barrier = "Open", !.inFlight = None, !.snapshotSeq = None]
      BY DEF OnOpen, Result
    <2> HIDE DEF q
    <2> QED BY <1>1, <2>1, <2>2 DEF Pumps, Pump, Barriers
  <1> HIDE DEF q
  <1>5. /\ r \in Links /\ r.pump = q /\ r.mirror = l.mirror /\ r.authorised = l.authorised
        /\ r.wanted = l.wanted /\ r.offered = l.offered /\ r.acks = l.acks /\ r.resync = l.resync
    BY <1>1, <1>4, SetPump
  <1> HIDE DEF r
  <1>6. NoFrame.kind = "none"
    BY DEF NoFrame, Frame
  <1>7. PumpOK(q, l.authorised, l.wanted, l.offered, 1)
    BY <1>2, <1>4, <1>6 DEF PumpOK
  <1>8. LinkOK(r, 1)
    BY <1>2, <1>5, <1>7 DEF LinkOK
  <1>9. SameMirror(l, r)
    BY <1>4, <1>5 DEF SameMirror, p
  <1> QED BY <1>2, <1>4, <1>5, <1>8, <1>9 DEF r, q, p

\* A new process starts with nothing.
LEMMA NewLinkOK ==
  ASSUME NEW R \in SUBSET Numbers, NEW C \in SUBSET Numbers
  PROVE  /\ LinkOK(NewLink, 0) /\ MirrorOK(NewLink, R, C)
         /\ NewLink.pump.barrier = "Idle" /\ NewLink.acks = <<>> /\ NewLink.authorised = NoFrame
         /\ NewLink.resync = TRUE /\ NewLink.offered = 0 /\ NewLink.mirror = <<>>
  <1>1. MaxSequence \in Nat /\ MirrorCap \in Nat
    BY LinkAssumption
  <1>2. NewPump \in Pumps
    BY <1>1 DEF NewPump, Pumps, Pump, Barriers, None, Numbers
  <1>3. NoFrame \in Frames /\ NoFrame.kind = "none"
    BY <1>1 DEF NoFrame, Frame, Frames, None
  <1>4. /\ NewPump.barrier = "Idle" /\ NewPump.durable = <<>> /\ NewPump.inFlight = None
        /\ NewPump.snapshotSeq = None /\ NewPump.replayAgain = FALSE /\ NewPump.nextSeq = 1
    BY DEF NewPump
  <1>5. /\ NewLink \in Links /\ NewLink.pump = NewPump /\ NewLink.mirror = <<>>
        /\ NewLink.authorised = NoFrame /\ NewLink.wanted = FALSE /\ NewLink.offered = 0
        /\ NewLink.acks = <<>> /\ NewLink.resync = TRUE
    BY <1>1, <1>2, <1>3 DEF NewLink, Links
  <1>6. PumpOK(NewPump, NoFrame, FALSE, 0, 0)
    BY <1>3, <1>4 DEF PumpOK
  <1>7. LinkOK(NewLink, 0)
    <2>1. Len(NewLink.mirror) <= MirrorCap
      BY <1>1, <1>5
    <2> QED BY <1>3, <1>5, <1>6, <2>1 DEF LinkOK
  <1>8. MirrorRows(NewLink) = {} /\ Queued(NewLink) = {}
    BY <1>4, <1>5 DEF MirrorRows, Queued
  <1>9. \A r \in R : r > 0
    BY DEF Numbers
  <1>10. MirrorOK(NewLink, R, C)
    BY <1>4, <1>5, <1>8, <1>9 DEF MirrorOK
  <1> QED BY <1>4, <1>5, <1>7, <1>10

\* advance answers with what is to be written, or with nothing.
LEMMA AdvanceKind ==
  ASSUME NEW p
  PROVE  Advance(p).act.kind # "IgnoredAck"
  BY DEF Advance, Result, WriteDurable, WriteSnapshot, Wait

\* A link that has noted an acknowledgement.
LEMMA NotedOK ==
  ASSUME NEW l, NEW k, LinkOK(l, k), NEW n \in Numbers
  PROVE  LET r == [l EXCEPT !.acks = Append(l.acks, n)]
         IN  /\ LinkOK(r, k) /\ Keeps(l, r) /\ SameMirror(l, r) /\ r.mirror = l.mirror
             /\ r.resync = l.resync /\ r.acks = Append(l.acks, n) /\ r.pump = l.pump
             /\ r.authorised = l.authorised /\ r.wanted = l.wanted
  <1> DEFINE r == [l EXCEPT !.acks = Append(l.acks, n)]
  <1>1. l \in Links
    BY DEF LinkOK
  <1>2. Append(l.acks, n) \in Seq(0..MaxSequence)
    <2>1. l.acks \in Seq(0..MaxSequence) /\ n \in 0..MaxSequence
      BY <1>1, FieldTypes DEF Numbers
    <2> QED BY <2>1
  <1>3. /\ r \in Links /\ r.pump = l.pump /\ r.mirror = l.mirror /\ r.authorised = l.authorised
        /\ r.wanted = l.wanted /\ r.offered = l.offered /\ r.resync = l.resync
        /\ r.acks = Append(l.acks, n)
    BY <1>1, <1>2 DEF Links
  <1> HIDE DEF r
  <1>4. LinkOK(r, k) /\ Keeps(l, r) /\ SameMirror(l, r)
    BY <1>3 DEF LinkOK, Keeps, SameMirror
  <1> QED BY <1>3, <1>4 DEF r

\* The pump and the link once the row in flight is acknowledged.
AckedPump(p, n) ==
    [p EXCEPT !.inFlight = None,
              !.durable = IF p.durable = <<>> THEN <<>> ELSE Tail(p.durable),
              !.acked = IF p.acked >= n THEN p.acked ELSE n]
Popped(l, n) ==
    IF l.mirror # <<>> /\ Head(l.mirror).seq = n
    THEN [l EXCEPT !.mirror = Tail(l.mirror)] ELSE l
AckedLink(l, n) == [Popped(l, n) EXCEPT !.pump = AckedPump(l.pump, n)]

\* event_acknowledged, the row in flight: the head of the queue and the head of
\* the mirror go, and the head of the mirror is that row or an older one the
\* coordinator already had.
LEMMA RowAckOK ==
  ASSUME NEW l, NEW R \in SUBSET Numbers, NEW C \in SUBSET Numbers, NEW n \in C,
         LinkOK(l, 0), l.authorised = NoFrame, ~l.wanted, MirrorOK(l, R, C),
         l.pump.inFlight = n
  PROVE  LET q == AckedPump(l.pump, n)
             popped == Popped(l, n)
             m == AckedLink(l, n)
         IN  /\ popped \in Links /\ q \in Pumps
             /\ LinkOK(m, 0) /\ MirrorOK(m, R, C) /\ Calm(l, m) /\ m.resync = l.resync
             /\ m.offered = l.offered /\ (l.mirror = <<>> => m.mirror = <<>>)
  <1> DEFINE p == l.pump
             d == IF p.durable = <<>> THEN <<>> ELSE Tail(p.durable)
             a == IF p.acked >= n THEN p.acked ELSE n
             q == AckedPump(p, n)
             t == IF l.mirror # <<>> /\ Head(l.mirror).seq = n THEN Tail(l.mirror) ELSE l.mirror
             popped == Popped(l, n)
             m == AckedLink(l, n)
  <1>1. /\ l \in Links /\ p \in Pumps /\ l.mirror \in Seq(Entries) /\ p.durable \in Seq(Numbers)
        /\ p.acked \in 0..MaxSequence /\ n \in Numbers /\ n # None /\ l.offered \in 0..MaxSequence
    BY FieldTypes DEF LinkOK, Numbers, None
  <1>2. /\ p.inFlight = n /\ p.durable # <<>> /\ n = Head(p.durable)
        /\ p.barrier \in Barriers /\ p.barrier \notin {"Idle", "Open", "Snapshot"}
        /\ p.snapshotSeq = None /\ ~p.replayAgain /\ l.offered < p.nextSeq
    BY <1>1, FieldTypes DEF LinkOK, PumpOK
  <1> HIDE DEF p
  <1>3. d = Tail(p.durable) /\ d \in Seq(Numbers)
    BY <1>1, <1>2
  <1>4. a \in 0..MaxSequence
    BY <1>1 DEF Numbers
  <1> HIDE DEF d, a
  <1>5. /\ q \in Pumps /\ q.barrier = p.barrier /\ q.inFlight = None /\ q.durable = d
        /\ q.snapshotSeq = p.snapshotSeq /\ q.replayAgain = p.replayAgain
        /\ q.nextSeq = p.nextSeq
    <2>1. None \in 0..MaxSequence
      BY LinkAssumption DEF None
    <2>2. q = [p EXCEPT !.inFlight = None, !.durable = d, !.acked = a]
      BY DEF AckedPump, d, a
    <2> HIDE DEF q
    <2> QED BY <1>1, <1>3, <1>4, <2>1, <2>2 DEF Pumps, Pump, Numbers
  <1> HIDE DEF q
  <1>6. /\ t \in Seq(Entries) /\ Len(t) <= Len(l.mirror) /\ (l.mirror = <<>> => t = <<>>)
        /\ t = l.mirror \/ (l.mirror # <<>> /\ t = Tail(l.mirror))
    BY <1>1
  <1> HIDE DEF t
  <1>7. /\ popped \in Links /\ popped.pump = l.pump /\ popped.mirror = t
        /\ popped.authorised = l.authorised /\ popped.wanted = l.wanted
        /\ popped.offered = l.offered /\ popped.acks = l.acks /\ popped.resync = l.resync
    <2>1. CASE l.mirror # <<>> /\ Head(l.mirror).seq = n
      <3>1. popped = [l EXCEPT !.mirror = t]
        BY <2>1 DEF t, Popped
      <3> HIDE DEF popped
      <3> QED BY <1>1, <1>6, <3>1 DEF Links
    <2>2. CASE ~(l.mirror # <<>> /\ Head(l.mirror).seq = n)
      <3>1. popped = l /\ t = l.mirror
        BY <2>2 DEF t, Popped
      <3> QED BY <1>1, <3>1
    <2> QED BY <2>1, <2>2
  <1> HIDE DEF popped
  <1>8. /\ m \in Links /\ m.pump = q /\ m.mirror = t /\ m.authorised = l.authorised
        /\ m.wanted = l.wanted /\ m.offered = l.offered /\ m.acks = l.acks /\ m.resync = l.resync
    <2>1. m = [popped EXCEPT !.pump = q]
      BY DEF AckedLink, popped, q, p
    <2> HIDE DEF m
    <2> QED BY <1>5, <1>7, <2>1, SetPump
  <1> HIDE DEF m
  <1>9. NoFrame.kind = "none"
    BY DEF NoFrame, Frame
  <1>10. PumpOK(q, l.authorised, l.wanted, l.offered, 0)
    BY <1>2, <1>5, <1>9 DEF PumpOK
  <1>11. LinkOK(m, 0)
    <2>1. Len(m.mirror) <= MirrorCap
      <3>1. Len(l.mirror) <= MirrorCap /\ Len(l.mirror) \in Nat /\ Len(t) \in Nat /\ MirrorCap \in Nat
        BY <1>1, <1>6, LinkAssumption DEF LinkOK
      <3> QED BY <1>6, <1>8, <3>1
    <2> QED BY <1>8, <1>9, <1>10, <2>1 DEF LinkOK
  <1>12. Calm(l, m)
    BY <1>2, <1>5, <1>8 DEF Calm, Keeps, p
  <1>13. Queued(l) = Queued(m) \cup {n} /\ \A x \in Queued(m) : n < x
    <2>1. /\ Len(d) = Len(p.durable) - 1 /\ Len(p.durable) \in Nat /\ Len(p.durable) >= 1
          /\ \A i \in 1..Len(d) : d[i] = p.durable[i + 1]
          /\ n = p.durable[1]
      BY <1>1, <1>2, <1>3
    <2>2. Queued(l) = {p.durable[i] : i \in 1..Len(p.durable)} /\ Queued(m) = {d[i] : i \in 1..Len(d)}
      BY <1>5, <1>8 DEF Queued, p
    <2>3. \A i, j \in 1..Len(p.durable) : i < j => p.durable[i] < p.durable[j]
      BY DEF MirrorOK, p
    <2>4. \A i \in 1..Len(d) : i + 1 \in 1..Len(p.durable) /\ 1 < i + 1 /\ 1 \in 1..Len(p.durable)
      BY <2>1
    <2>5. \A x \in Queued(m) : n < x /\ x \in Queued(l)
      BY <2>1, <2>2, <2>3, <2>4
    <2>6. \A i \in 1..Len(p.durable) : i = 1 \/ (i - 1 \in 1..Len(d) /\ d[i - 1] = p.durable[i])
      BY <2>1
    <2>7. \A x \in Queued(l) : x = n \/ x \in Queued(m)
      BY <2>1, <2>2, <2>6
    <2>8. n \in Queued(l)
      BY <2>1, <2>2
    <2> QED BY <2>5, <2>7, <2>8
  <1>14. \A x \in Queued(l) : x <= l.offered /\ x \in MirrorRows(l) /\ x \in Numbers
    BY <1>1 DEF MirrorOK
  <1>15. /\ MirrorRows(m) \subseteq MirrorRows(l)
         /\ \A e \in MirrorRows(l) : e \in MirrorRows(m) \/ (e \in C /\ e <= n)
         /\ \A i, j \in 1..Len(m.mirror) : i < j => m.mirror[i].row <= m.mirror[j].row
    <2>1. CASE t = l.mirror
      <3>1. MirrorRows(m) = MirrorRows(l)
        BY <1>8, <2>1 DEF MirrorRows
      <3> QED BY <1>8, <2>1, <3>1 DEF MirrorOK
    <2>2. CASE l.mirror # <<>> /\ t = Tail(l.mirror)
      <3> DEFINE h == l.mirror[1].row
      <3>1. /\ Len(t) = Len(l.mirror) - 1 /\ Len(l.mirror) \in Nat /\ Len(l.mirror) >= 1
            /\ \A i \in 1..Len(t) : t[i] = l.mirror[i + 1]
        BY <1>1, <2>2
      <3>2. \A i \in 1..Len(t) : i + 1 \in 1..Len(l.mirror)
        BY <3>1
      <3>3. \A i \in 1..Len(l.mirror) : i = 1 \/ (i - 1 \in 1..Len(t) /\ t[i - 1] = l.mirror[i])
        BY <3>1
      <3>4. MirrorRows(m) = {t[i].row : i \in 1..Len(t)}
        BY <1>8 DEF MirrorRows
      <3>5. MirrorRows(m) \subseteq MirrorRows(l)
        BY <3>1, <3>2, <3>4 DEF MirrorRows
      <3>6. \A e \in MirrorRows(l) : e = h \/ e \in MirrorRows(m)
        BY <3>3, <3>4, ZenonT(30) DEF MirrorRows
      <3>7. h \in MirrorRows(l)
        BY <3>1 DEF MirrorRows
      <3>8. \A e \in MirrorRows(l) : e \in Numbers
        BY DEF MirrorOK
      <3>9. h <= n
        <4>1. PICK i \in 1..Len(l.mirror) : n = l.mirror[i].row
          BY <1>13, <1>14 DEF MirrorRows
        <4>2. i = 1 \/ h <= n
          BY <3>1, <4>1 DEF MirrorOK
        <4> QED BY <1>1, <4>1, <4>2 DEF Numbers
      <3> HIDE DEF h
      <3>10. h \in C
        <4>1. h \in C \/ h \in Queued(l) \/ h > l.offered
          BY <3>7 DEF MirrorOK
        <4>2. n <= l.offered
          BY <1>13, <1>14
        <4>3. ~(h > l.offered)
          BY <1>1, <3>7, <3>8, <3>9, <4>2 DEF Numbers
        <4>4. h \in Queued(l) => h = n
          BY <1>1, <1>13, <3>7, <3>8, <3>9 DEF Numbers
        <4> QED BY <4>1, <4>3, <4>4
      <3>11. \A i, j \in 1..Len(t) : i < j => t[i].row <= t[j].row
        <4> SUFFICES ASSUME NEW i \in 1..Len(t), NEW j \in 1..Len(t), i < j
                     PROVE  t[i].row <= t[j].row
          OBVIOUS
        <4>1. t[i] = l.mirror[i + 1] /\ t[j] = l.mirror[j + 1]
          BY <3>1
        <4>2. i + 1 \in 1..Len(l.mirror) /\ j + 1 \in 1..Len(l.mirror) /\ i + 1 < j + 1
          BY <3>1, <3>2
        <4> QED BY <4>1, <4>2 DEF MirrorOK
      <3> QED BY <1>8, <3>5, <3>6, <3>9, <3>10, <3>11
    <2> QED BY <1>6, <2>1, <2>2
  <1>16. MirrorOK(m, R, C)
    <2>1. MirrorRows(m) \subseteq R \cup C
      BY <1>15 DEF MirrorOK
    <2>2. \A i, j \in 1..Len(m.pump.durable) : i < j => m.pump.durable[i] < m.pump.durable[j]
      <3>1. /\ Len(d) = Len(p.durable) - 1 /\ Len(p.durable) \in Nat
            /\ \A i \in 1..Len(d) : d[i] = p.durable[i + 1]
        BY <1>1, <1>2, <1>3
      <3>2. \A i, j \in 1..Len(p.durable) : i < j => p.durable[i] < p.durable[j]
        BY DEF MirrorOK, p
      <3>3. ASSUME NEW i \in 1..Len(d), NEW j \in 1..Len(d), i < j
            PROVE  d[i] < d[j]
        <4>1. i + 1 \in 1..Len(p.durable) /\ j + 1 \in 1..Len(p.durable) /\ i + 1 < j + 1
          BY <3>1, <3>3
        <4> QED BY <3>1, <3>2, <4>1
      <3> QED BY <1>5, <1>8, <3>3
    <2>3. \A x \in Queued(m) : x <= m.offered /\ x \in MirrorRows(m)
      <3>1. \A x \in Queued(m) : ~(x <= n)
        BY <1>1, <1>13, <1>14 DEF Numbers
      <3> QED BY <1>8, <1>13, <1>14, <1>15, <3>1
    <2>4. \A e \in MirrorRows(m) : e \in C \/ e \in Queued(m) \/ e > m.offered
      BY <1>8, <1>13, <1>15 DEF MirrorOK
    <2>5. \A r \in R \ C : r \in MirrorRows(m) \/ r > m.offered
      BY <1>8, <1>15 DEF MirrorOK
    <2>6. \A e \in MirrorRows(m), r \in R : e <= m.offered \/ r <= m.offered \/ e <= r
      BY <1>8, <1>15 DEF MirrorOK
    <2>7. m.offered \in R \cup C \cup {0}
      BY <1>8 DEF MirrorOK
    <2> QED BY <1>15, <2>1, <2>2, <2>3, <2>4, <2>5, <2>6, <2>7 DEF MirrorOK
  <1> QED BY <1>5, <1>6, <1>7, <1>8, <1>11, <1>12, <1>16 DEF m, popped, q, p

\* event_acknowledged, the snapshot: live, unless something appeared meanwhile.
LEMMA SnapshotAckOK ==
  ASSUME NEW l, LinkOK(l, 0), l.authorised = NoFrame, ~l.wanted, l.pump.barrier = "Snapshot"
  PROVE  LET q == [l.pump EXCEPT !.snapshotSeq = None, !.replayAgain = FALSE,
                        !.barrier = IF l.pump.replayAgain THEN "Replay" ELSE "Live"]
             m == [l EXCEPT !.pump = q]
         IN  /\ q \in Pumps /\ LinkOK(m, 0) /\ SameMirror(l, m) /\ Keeps(l, m) /\ m.acks = l.acks
             /\ m.resync = l.resync /\ m.mirror = l.mirror
             /\ m.pump.barrier \in {"Replay", "Live"}
             /\ m.pump.barrier = "Live" => ~l.pump.replayAgain
  <1> DEFINE p == l.pump
             b == IF p.replayAgain THEN "Replay" ELSE "Live"
             q == [p EXCEPT !.snapshotSeq = None, !.replayAgain = FALSE, !.barrier = b]
             m == [l EXCEPT !.pump = q]
  <1>1. l \in Links /\ p \in Pumps
    BY FieldTypes DEF LinkOK
  <1>2. p.inFlight = None /\ l.offered < p.nextSeq
    BY DEF LinkOK, PumpOK
  <1> HIDE DEF p
  <1>3. b \in {"Replay", "Live"} /\ (b = "Live" => ~p.replayAgain)
    OBVIOUS
  <1> HIDE DEF b
  <1>4. /\ q \in Pumps /\ q.barrier = b /\ q.inFlight = p.inFlight /\ q.durable = p.durable
        /\ q.snapshotSeq = None /\ q.replayAgain = FALSE /\ q.nextSeq = p.nextSeq
    <2>1. None \in Nat
      BY DEF None
    <2> QED BY <1>1, <1>3, <2>1 DEF Pumps, Pump, Barriers
  <1> HIDE DEF q
  <1>5. /\ m \in Links /\ m.pump = q /\ m.mirror = l.mirror /\ m.authorised = l.authorised
        /\ m.wanted = l.wanted /\ m.offered = l.offered /\ m.acks = l.acks /\ m.resync = l.resync
    BY <1>1, <1>4, SetPump
  <1> HIDE DEF m
  <1>6. NoFrame.kind = "none"
    BY DEF NoFrame, Frame
  <1>7. PumpOK(q, l.authorised, l.wanted, l.offered, 0)
    BY <1>2, <1>3, <1>4, <1>6 DEF PumpOK
  <1>8. LinkOK(m, 0)
    BY <1>5, <1>7 DEF LinkOK
  <1>9. SameMirror(l, m)
    BY <1>4, <1>5 DEF SameMirror, p
  <1>10. Keeps(l, m)
    BY <1>3, <1>4, <1>5 DEF Keeps, p
  <1> QED BY <1>3, <1>4, <1>5, <1>8, <1>9, <1>10 DEF m, q, b, p

\* Steps that handle a frame compose too.
LEMMA KeepsTransitive ==
  ASSUME NEW a, NEW b, NEW c, Keeps(a, b), Keeps(b, c)
  PROVE  Keeps(a, c)
  BY DEF Keeps

\* What the acknowledgement of n does: only that of a snapshot nothing followed
\* opens the link.
Acknowledges(l, r, n) ==
    /\ Keeps(l, r) /\ r.acks = Append(l.acks, n)
    /\ r.resync = l.resync /\ r.offered = l.offered /\ (l.mirror = <<>> => r.mirror = <<>>)
    /\ r.pump.barrier = "Live" /\ l.pump.barrier # "Live" =>
          /\ l.pump.barrier = "Snapshot" /\ l.pump.snapshotSeq = n
          /\ ~l.wanted /\ ~l.pump.replayAgain

\* event_acknowledged.
LEMMA EventAcknowledgedOK ==
  ASSUME NEW l, NEW R \in SUBSET Numbers, NEW C \in SUBSET Numbers, NEW n \in Numbers,
         LinkOK(l, 1), MirrorOK(l, R, C), l.pump.barrier \notin {"Idle", "Open"},
         n \in MirrorRows(l) => n \in C
  PROVE  LET r == EventAcknowledged(l, n)
         IN  LinkOK(r, 0) /\ MirrorOK(r, R, C) /\ Acknowledges(l, r, n)
  <1> DEFINE p == l.pump
             q == AckedPump(p, n)
             popped == Popped(l, n)
             r == EventAcknowledged(l, n)
             Good == /\ LinkOK(r, 0) /\ MirrorOK(r, R, C) /\ Keeps(l, r) /\ r.acks = Append(l.acks, n)
                     /\ r.resync = l.resync /\ r.offered = l.offered
                     /\ (l.mirror = <<>> => r.mirror = <<>>)
                     /\ r.pump.barrier = "Live" /\ p.barrier # "Live" =>
                           /\ p.barrier = "Snapshot" /\ p.snapshotSeq = n
                           /\ ~l.wanted /\ ~p.replayAgain
  <1>1. LinkOK(l, 0) /\ l.authorised = NoFrame /\ l.wanted = FALSE
    BY ReadOne
  <1>2. l \in Links /\ p \in Pumps /\ n \in Numbers /\ n # None /\ l.acks \in Seq(0..MaxSequence)
    BY <1>1, FieldTypes DEF LinkOK, Numbers, None
  <1> SUFFICES Good
    BY Zenon DEF Acknowledges
  <1>3. CASE p.inFlight = n
    <2> DEFINE m == AckedLink(l, n)
               o == [popped EXCEPT !.acks = Append(l.acks, n)]
               s == [m EXCEPT !.acks = Append(m.acks, n)]
    <2>1. OnEventAck(p, n) = Advance(q)
      BY <1>2, <1>3 DEF OnEventAck, AckedPump
    <2>2. r = ApplyTo(o, Advance(q))
      <3>1. OnEventAck(p, n).act.kind # "IgnoredAck"
        BY <2>1, AdvanceKind
      <3> QED BY <2>1, <3>1 DEF EventAcknowledged, Popped
    <2>3. /\ popped \in Links /\ q \in Pumps
          /\ LinkOK(m, 0) /\ MirrorOK(m, R, C) /\ Calm(l, m) /\ m.resync = l.resync
          /\ m.offered = l.offered /\ (l.mirror = <<>> => m.mirror = <<>>)
      <3>1. LinkOK(l, 0) /\ l.authorised = NoFrame /\ ~l.wanted /\ MirrorOK(l, R, C) /\ l.pump.inFlight = n
        BY <1>1, <1>3
      <3>2. n \in C
        <4>1. p.durable # <<>> /\ n = Head(p.durable) /\ p.durable \in Seq(Numbers)
          BY <1>2, <1>3, <3>1, FieldTypes DEF LinkOK, PumpOK
        <4>2. 1 \in 1..Len(p.durable) /\ n = p.durable[1]
          BY <4>1
        <4>3. n \in Queued(l)
          BY <4>2 DEF Queued
        <4> QED BY <4>3 DEF MirrorOK
      <3> QED BY <3>1, <3>2, RowAckOK
    <2>0. m = [popped EXCEPT !.pump = q]
      BY DEF AckedLink
    <2> HIDE DEF q, popped, m
    <2>4. m.acks = l.acks /\ m.pump = q
      BY <2>0, <2>3, SetPump DEF Calm
    <2>5. s = [o EXCEPT !.pump = q]
      BY <2>0, <2>3, <2>4 DEF Links
    <2>6. o \in Links
      <3>1. Append(l.acks, n) \in Seq(0..MaxSequence)
        <4>1. n \in 0..MaxSequence
          BY <1>2 DEF Numbers
        <4> QED BY <1>2, <4>1
      <3> QED BY <2>3, <3>1 DEF Links
    <2> HIDE DEF o
    <2>7. /\ LinkOK(s, 0) /\ Keeps(m, s) /\ SameMirror(m, s) /\ s.resync = m.resync
          /\ s.acks = Append(m.acks, n) /\ s.pump = q /\ s.mirror = m.mirror
      BY <1>2, <2>3, <2>4, NotedOK
    <2>8. r = ApplyTo(s, Advance(s.pump))
      BY <2>2, <2>3, <2>5, <2>6, <2>7, SetPump
    <2> HIDE DEF s, r
    <2>9. LinkOK(r, 0) /\ Calm(s, r) /\ SameMirror(s, r) /\ r.resync = s.resync
      BY <2>7, <2>8, AdvanceOK
    <2>10. MirrorOK(r, R, C)
      BY <2>3, <2>7, <2>9, MirrorSame
    <2>11. Keeps(l, r)
      BY <2>3, <2>7, <2>9, KeepsTransitive DEF Calm
    <2>12. r.acks = Append(l.acks, n)
      BY <2>4, <2>7, <2>9 DEF Calm
    <2>13. r.offered = l.offered
      BY <2>3, <2>7, <2>9 DEF SameMirror
    <2>14. l.mirror = <<>> => r.mirror = <<>>
      <3>1. Len(r.mirror) = Len(s.mirror) /\ s.mirror = m.mirror /\ r.mirror \in Seq(Entries)
        BY <2>7, <2>9, FieldTypes DEF SameMirror, LinkOK
      <3> QED BY <2>3, <3>1
    <2>15. r.pump.barrier = "Live" => p.barrier = "Live"
      BY <2>3, <2>4, <2>7, <2>9 DEF Calm
    <2> QED BY <2>3, <2>7, <2>9, <2>10, <2>11, <2>12, <2>13, <2>14, <2>15
  <1>4. CASE p.inFlight # n
    <2> DEFINE o == [l EXCEPT !.acks = Append(l.acks, n)]
               z == [p EXCEPT !.snapshotSeq = None, !.replayAgain = FALSE,
                              !.barrier = IF p.replayAgain THEN "Replay" ELSE "Live"]
    <2>1. OnEventAck(p, n) = Result(p, IgnoredAck(n))
      BY <1>4 DEF OnEventAck
    <2>2. r = ApplyTo(o, OnSnapshotAck(p, n))
      BY <2>1 DEF EventAcknowledged, Result, IgnoredAck
    <2>3. /\ LinkOK(o, 0) /\ Keeps(l, o) /\ SameMirror(l, o) /\ o.mirror = l.mirror
          /\ o.resync = l.resync /\ o.acks = Append(l.acks, n) /\ o.pump = p
          /\ o.authorised = NoFrame /\ ~o.wanted
      BY <1>1, <1>2, NotedOK
    <2>4. o \in Links
      BY <2>3 DEF LinkOK
    <2> HIDE DEF o
    <2>5. MirrorOK(o, R, C)
      BY <2>3, MirrorSame
    <2>6. CASE p.snapshotSeq = n
      <3> DEFINE s == [o EXCEPT !.pump = z]
      <3>1. OnSnapshotAck(p, n) = Advance(z)
        BY <1>2, <2>6 DEF OnSnapshotAck
      <3>2. p.barrier = "Snapshot"
        BY <1>1, <1>2, <2>6 DEF LinkOK, PumpOK
      <3>3. /\ z \in Pumps /\ LinkOK(s, 0) /\ SameMirror(o, s) /\ Keeps(o, s) /\ s.acks = o.acks
            /\ s.resync = o.resync /\ s.mirror = o.mirror
            /\ s.pump.barrier \in {"Replay", "Live"}
            /\ s.pump.barrier = "Live" => ~p.replayAgain
        BY <2>3, <3>2, SnapshotAckOK, ZenonT(30)
      <3>4. s.pump = z /\ ApplyTo(s, Advance(z)) = ApplyTo(o, Advance(z))
        BY <2>4, <3>3, SetPump
      <3>5. r = ApplyTo(s, Advance(s.pump))
        BY <2>2, <3>1, <3>4
      <3> HIDE DEF s, r, z
      <3>6. LinkOK(r, 0) /\ Calm(s, r) /\ SameMirror(s, r) /\ r.resync = s.resync
        BY <3>3, <3>5, AdvanceOK
      <3>7. MirrorOK(r, R, C)
        BY <2>5, <3>3, <3>6, MirrorSame
      <3>8. Keeps(l, r)
        BY <2>3, <3>3, <3>6, KeepsTransitive DEF Calm
      <3>9. r.acks = Append(l.acks, n) /\ r.offered = l.offered
        BY <2>3, <3>3, <3>6 DEF Calm, SameMirror
      <3>10. l.mirror = <<>> => r.mirror = <<>>
        <4>1. Len(r.mirror) = Len(s.mirror) /\ s.mirror = l.mirror /\ r.mirror \in Seq(Entries)
          BY <2>3, <3>3, <3>6, FieldTypes DEF SameMirror, LinkOK
        <4> QED BY <4>1
      <3>11. r.pump.barrier = "Live" => ~p.replayAgain
        BY <3>3, <3>6 DEF Calm
      <3> QED BY <1>1, <2>3, <2>6, <3>2, <3>3, <3>6, <3>7, <3>8, <3>9, <3>10, <3>11
    <2>7. CASE p.snapshotSeq # n
      <3>1. OnSnapshotAck(p, n) = Result(p, IgnoredAck(n))
        BY <2>7 DEF OnSnapshotAck
      <3>2. r = [o EXCEPT !.pump = p]
        BY <2>2, <3>1 DEF ApplyTo, Result, IgnoredAck
      <3>3. r = o
        BY <2>3, <2>4, <3>2 DEF Links
      <3> HIDE DEF r
      <3>4. r.offered = l.offered
        BY <2>3, <3>3 DEF SameMirror
      <3> QED BY <2>3, <2>5, <3>3, <3>4
    <2> QED BY <2>6, <2>7
  <1> QED BY <1>3, <1>4

\* The wake of the drain.
LEMMA SetWake ==
  ASSUME NEW l, NEW k, LinkOK(l, k), NEW b \in BOOLEAN
  PROVE  LET r == [l EXCEPT !.wake = b]
         IN  LinkOK(r, k) /\ Calm(l, r) /\ SameMirror(l, r) /\ r.resync = l.resync
             /\ r.mirror = l.mirror /\ r.pump = l.pump
  <1> DEFINE r == [l EXCEPT !.wake = b]
  <1>1. l \in Links
    BY DEF LinkOK
  <1>2. /\ r \in Links /\ r.pump = l.pump /\ r.mirror = l.mirror /\ r.authorised = l.authorised
        /\ r.wanted = l.wanted /\ r.offered = l.offered /\ r.acks = l.acks /\ r.resync = l.resync
    BY <1>1 DEF Links
  <1> HIDE DEF r
  <1>3. LinkOK(r, k) /\ Calm(l, r) /\ SameMirror(l, r)
    BY <1>2 DEF LinkOK, Calm, Keeps, SameMirror
  <1> QED BY <1>2, <1>3 DEF r

\* A snapshot that cannot be had is no longer asked for.
LEMMA Withdrawn ==
  ASSUME NEW l, NEW k, LinkOK(l, k)
  PROVE  LET r == [l EXCEPT !.wanted = FALSE]
         IN  /\ LinkOK(r, k) /\ SameMirror(l, r) /\ r.resync = l.resync /\ r.pump = l.pump
             /\ r.authorised = l.authorised /\ r.acks = l.acks /\ r.mirror = l.mirror
  <1> DEFINE r == [l EXCEPT !.wanted = FALSE]
  <1>1. l \in Links
    BY DEF LinkOK
  <1>2. /\ r \in Links /\ r.pump = l.pump /\ r.mirror = l.mirror /\ r.authorised = l.authorised
        /\ r.wanted = FALSE /\ r.offered = l.offered /\ r.acks = l.acks /\ r.resync = l.resync
    BY <1>1 DEF Links
  <1> HIDE DEF r
  <1>3. PumpOK(l.pump, l.authorised, FALSE, l.offered, k)
    BY DEF LinkOK, PumpOK
  <1>4. LinkOK(r, k) /\ SameMirror(l, r)
    BY <1>2, <1>3 DEF LinkOK, SameMirror
  <1> QED BY <1>2, <1>4 DEF r

\* The acknowledgement that was applied goes.
LEMMA AckApplied ==
  ASSUME NEW l, NEW k, LinkOK(l, k), l.acks # <<>>
  PROVE  LET r == [l EXCEPT !.acks = Tail(l.acks)]
         IN  /\ LinkOK(r, k) /\ Keeps(l, r) /\ SameMirror(l, r) /\ r.resync = l.resync
             /\ r.pump = l.pump /\ r.authorised = l.authorised /\ r.acks = Tail(l.acks)
             /\ r.mirror = l.mirror /\ r.wanted = l.wanted
  <1> DEFINE r == [l EXCEPT !.acks = Tail(l.acks)]
  <1>1. l \in Links
    BY DEF LinkOK
  <1>2. Tail(l.acks) \in Seq(0..MaxSequence)
    <2> DEFINE s == l.acks
    <2>1. s \in Seq(0..MaxSequence) /\ s # <<>>
      BY <1>1, FieldTypes
    <2> HIDE DEF s
    <2>2. Tail(s) \in Seq(0..MaxSequence)
      BY <2>1
    <2> QED BY <2>2 DEF s
  <1>3. /\ r \in Links /\ r.pump = l.pump /\ r.mirror = l.mirror /\ r.authorised = l.authorised
        /\ r.wanted = l.wanted /\ r.offered = l.offered /\ r.resync = l.resync
        /\ r.acks = Tail(l.acks)
    BY <1>1, <1>2 DEF Links
  <1> HIDE DEF r
  <1>4. LinkOK(r, k) /\ Keeps(l, r) /\ SameMirror(l, r)
    BY <1>3 DEF LinkOK, Keeps, SameMirror
  <1> QED BY <1>3, <1>4 DEF r

\* next_write: what was authorised is on the connection now.
LEMMA WrittenOK ==
  ASSUME NEW l, NEW k, LinkOK(l, k)
  PROVE  LET r == [l EXCEPT !.authorised = NoFrame]
         IN  /\ l.authorised = NoFrame => LinkOK(r, k)
             /\ l.authorised # NoFrame => k = 0 /\ LinkOK(r, 1)
             /\ SameMirror(l, r) /\ r.resync = l.resync /\ r.pump = l.pump
             /\ r.acks = l.acks /\ r.mirror = l.mirror /\ r.authorised = NoFrame
  <1> DEFINE r == [l EXCEPT !.authorised = NoFrame]
  <1>1. l \in Links
    BY DEF LinkOK
  <1>2. NoFrame \in Frames /\ NoFrame.kind = "none"
    BY LinkAssumption DEF NoFrame, Frame, Frames, None
  <1>3. /\ r \in Links /\ r.pump = l.pump /\ r.mirror = l.mirror /\ r.authorised = NoFrame
        /\ r.wanted = l.wanted /\ r.offered = l.offered /\ r.acks = l.acks /\ r.resync = l.resync
    BY <1>1, <1>2 DEF Links
  <1> HIDE DEF r
  <1>4. SameMirror(l, r)
    BY <1>3 DEF SameMirror
  <1>5. l.authorised = NoFrame => LinkOK(r, k)
    BY <1>3 DEF LinkOK
  <1>6. ASSUME l.authorised # NoFrame
        PROVE  k = 0 /\ LinkOK(r, 1)
    <2>1. k = 0 /\ PumpOK(l.pump, NoFrame, l.wanted, l.offered, 1)
      BY <1>2, <1>6 DEF LinkOK, PumpOK
    <2> QED BY <1>2, <1>3, <2>1 DEF LinkOK
  <1> QED BY <1>3, <1>4, <1>5, <1>6 DEF r

\* The link with its snapshot numbered n.
Numbered(l, n) ==
    [l EXCEPT !.wanted = FALSE, !.pump = ReassignSnapshotSequence(l.pump, n),
              !.authorised = Frame("snapshot", n)]

\* authorise_snapshot with a number of the outbox, above every row offered.
LEMMA SnapshotNumbered ==
  ASSUME NEW l, NEW k, LinkOK(l, k), l.wanted, NEW n \in Numbers, l.offered < n
  PROVE  LET r == Numbered(l, n)
         IN  /\ LinkOK(r, k) /\ SameMirror(l, r) /\ r.resync = l.resync /\ r.acks = l.acks
             /\ r.mirror = l.mirror /\ k = 0
             /\ l.pump.barrier = "Snapshot" /\ r.pump.barrier = "Snapshot"
             /\ r.authorised = Frame("snapshot", n)
  <1> DEFINE p == l.pump
             q == ReassignSnapshotSequence(p, n)
             x == IF p.nextSeq >= n + 1 THEN p.nextSeq ELSE n + 1
             f == Frame("snapshot", n)
             r == [l EXCEPT !.wanted = FALSE, !.pump = q, !.authorised = f]
  <1>1. l \in Links /\ p \in Pumps /\ l.offered \in 0..MaxSequence
    BY FieldTypes DEF LinkOK
  <1>2. /\ p.barrier = "Snapshot" /\ p.snapshotSeq # None /\ p.inFlight = None
        /\ p.durable = <<>> /\ k = 0 /\ l.offered < p.nextSeq
    BY DEF LinkOK, PumpOK
  <1> HIDE DEF p
  <1>3. x \in Nat \ {0} /\ l.offered < x
    BY <1>1, <1>2, FieldTypes DEF Numbers
  <1>4. q = [p EXCEPT !.snapshotSeq = n, !.nextSeq = x]
    BY <1>2 DEF ReassignSnapshotSequence
  <1> HIDE DEF x, q
  <1>5. n \in Nat /\ n # None
    BY DEF Numbers, None
  <1>6. /\ q \in Pumps /\ q.barrier = p.barrier /\ q.snapshotSeq = n /\ q.nextSeq = x
        /\ q.inFlight = p.inFlight /\ q.durable = p.durable /\ q.replayAgain = p.replayAgain
    BY <1>1, <1>3, <1>4, <1>5 DEF Pumps, Pump
  <1>7. f \in Frames /\ f.kind = "snapshot" /\ f.seq = n /\ f # NoFrame
    BY DEF Frames, Frame, NoFrame, Numbers
  <1> HIDE DEF f
  <1>8. /\ r \in Links /\ r.pump = q /\ r.mirror = l.mirror /\ r.authorised = f
        /\ r.wanted = FALSE /\ r.offered = l.offered /\ r.acks = l.acks /\ r.resync = l.resync
    BY <1>1, <1>6, <1>7 DEF Links
  <1> HIDE DEF r
  <1>9. PumpOK(q, f, FALSE, l.offered, 0)
    BY <1>2, <1>3, <1>5, <1>6, <1>7 DEF PumpOK
  <1>10. LinkOK(r, k)
    BY <1>2, <1>7, <1>8, <1>9 DEF LinkOK
  <1>11. SameMirror(l, r)
    BY <1>6, <1>8 DEF SameMirror, p
  <1>12. r = Numbered(l, n)
    BY DEF r, q, f, p, Numbered
  <1>13. /\ r.authorised = Frame("snapshot", n) /\ l.pump.barrier = "Snapshot"
         /\ r.pump.barrier = "Snapshot"
    BY <1>2, <1>6, <1>8 DEF f, p
  <1> QED BY <1>2, <1>8, <1>10, <1>11, <1>12, <1>13

=============================================================================
