------------------------- MODULE DurableLinkProofs -------------------------
(***************************************************************************)
(* Proofs about the durable link, for every cap, sequence space, number of *)
(* connections and number of faults.  The invariant says of the link's     *)
(* record what LinkLoopProofs shows its methods to preserve, and adds      *)
(* where the numbers in the file lie, what is on each connection, and what *)
(* every frame under way promises.                                         *)
(***************************************************************************)
EXTENDS LinkLoopProofs

----------------------------------------------------------------------------
(* The invariant of the state.                                             *)

\* The rows the coordinator has done with, in its log or dropped, and the rows
\* still to be delivered.
Delivered == Settled \ snaps
Waiting == rows \ Settled

\* The numbers handed out that are still about.
Handed == rows \cup snaps \cup Settled

\* Nothing was handed out above the watermark or, while this process has a
\* block open, above its count; the append that holds the window has the
\* newest number; and no number is a row's and a snapshot's.
FileInv ==
    /\ J!TypeOK
    /\ issued <= watermark /\ reservedThrough <= watermark
    /\ \A x \in Handed : x <= watermark /\ (reservedThrough > 0 => x <= issued)
    /\ writer # J!NoWriter =>
          /\ writer.seq \in 1..issued /\ reservedThrough > 0
          /\ \A x \in Handed : x < writer.seq
    /\ ~up => reservedThrough = 0 /\ writer = J!NoWriter
    /\ rows \cap snaps = {}

ShapeInv ==
    /\ pc \in {"idle", "acks", "claims", "snapshot", "resync", "reclaims", "write"}
    /\ boot \in {"waiting", "reconciling", "active"}
    /\ changed \in BOOLEAN /\ drained \in BOOLEAN /\ unnoted \in Nat
    /\ dialled \in 0..MaxConn /\ conn \in 0..dialled /\ current \in 0..dialled
    /\ closed \subseteq 1..dialled /\ refused \subseteq 1..dialled
    /\ upq \in [Conns -> Seq(Frames)] /\ downq \in [Conns -> Seq(Frames)]
    /\ reply \in [Conns -> Frames]
    /\ log \in Seq(Frames)

\* What is on the worker's connection, counted and one by one.
Occupied == IF conn = 0 THEN 0 ELSE Len(upq[conn]) + Len(downq[conn]) + (IF Busy(conn) THEN 1 ELSE 0)
Passing(g) == Members(upq[g]) \cup Members(downq[g]) \cup ({reply[g]} \ {NoFrame})

LinkInv == LinkOK(link, Occupied)
MirrorInv == MirrorOK(link, rows, Delivered)

\* The worker is on a connection exactly when its pump is, and a dead worker
\* has no link.
ConnInv ==
    /\ conn # 0 => up
    /\ conn = 0 <=> link.pump.barrier = "Idle"
    /\ conn = 0 => pc = "idle"
    /\ ~up => link = NewLink

\* What a frame promises: an event is settled, or is the oldest row that is not;
\* every row numbered below a snapshot is settled; and so is whatever was
\* acknowledged.
EventOK(n) == n \notin snaps /\ (n \in Settled \/ (n \in rows /\ \A r \in Waiting : n <= r))
SnapOK(n) == n \in snaps /\ \A r \in rows : r < n => r \in Settled
FrameOK(f) ==
    /\ f.kind = "event" => EventOK(f.seq)
    /\ f.kind = "snapshot" => SnapOK(f.seq)
    /\ f.kind = "ack" => f.seq \in Settled

PromiseInv ==
    /\ link.authorised.kind = "snapshot" => SnapOK(link.authorised.seq)
    /\ Members(link.acks) \subseteq Settled

\* What may be on the worker's connection: the hello and its answer while the
\* pump is open, and during a snapshot that snapshot or its acknowledgement.
Rides(f) ==
    /\ f.kind \in {"hello", "helloack"} <=> link.pump.barrier = "Open"
    /\ link.pump.barrier = "Snapshot" =>
          f.kind # "event" /\ f.seq = link.pump.snapshotSeq /\ f.seq \in snaps

\* What a connection carries: one the worker has left delivers nothing to it,
\* one it has not dialled carries nothing, and what is under way keeps its
\* promise.
Carries(g) ==
    /\ g # conn => downq[g] = <<>>
    /\ g > dialled => upq[g] = <<>> /\ reply[g] = NoFrame
    /\ reply[g] # NoFrame => reply[g].kind \in {"event", "snapshot", "ack"}
    /\ \A f \in Members(upq[g]) : f.kind \in {"hello", "event", "snapshot"}
    /\ \A f \in Members(downq[g]) : f.kind \in {"helloack", "ack"}
    /\ \A f \in Passing(g) : FrameOK(f) /\ (g = conn => Rides(f))

NetInv == \A g \in Conns : Carries(g)

\* The log has rows and snapshots, each under its own kind of number, what was
\* dropped is folder metadata, and the rows settled come before the rows still
\* waiting.
LogInv ==
    /\ Settled \subseteq Numbers
    /\ \A i \in 1..Len(log) :
          /\ log[i].kind \in {"event", "snapshot"}
          /\ log[i].kind = "snapshot" <=> log[i].seq \in snaps
    /\ dropped \subseteq Folder /\ dropped \cap snaps = {}
    /\ \A e \in Delivered, r \in Waiting : e < r
    /\ SnapshotCoversRows

\* The signal and the passes: once every signal was read and no pass was cut
\* short, no row is left to offer; and drained is raised over an empty mirror.
DrainInv ==
    /\ up /\ ~link.resync /\ unnoted = 0 /\ ~changed => \A r \in rows : r <= link.offered
    /\ drained /\ pc \in {"idle", "acks"} => link.mirror = <<>> /\ ~link.resync /\ up

IInv ==
    /\ FileInv
    /\ ShapeInv
    /\ LinkInv
    /\ MirrorInv
    /\ ConnInv
    /\ PromiseInv
    /\ NetInv
    /\ LogInv
    /\ DrainInv

----------------------------------------------------------------------------
(* Frames and numbers.                                                     *)

\* The members of a sequence with one more.
LEMMA MembersAppend ==
  ASSUME NEW S, NEW s \in Seq(S), NEW x
  PROVE  Members(Append(s, x)) = Members(s) \cup {x}
  <1> DEFINE t == Append(s, x)
  <1>1. Len(t) = Len(s) + 1 /\ t[Len(s) + 1] = x /\ \A i \in 1..Len(s) : t[i] = s[i]
    OBVIOUS
  <1>2. Len(s) \in Nat
    OBVIOUS
  <1> HIDE DEF t
  <1>3. \A i \in 1..Len(t) : i \in 1..Len(s) \/ i = Len(s) + 1
    BY <1>1, <1>2
  <1>4. \A i \in 1..Len(s) : i \in 1..Len(t)
    BY <1>1, <1>2
  <1>5. Len(s) + 1 \in 1..Len(t)
    BY <1>1, <1>2
  <1>6. Members(t) = Members(s) \cup {x}
    BY <1>1, <1>3, <1>4, <1>5 DEF Members
  <1> QED BY <1>6 DEF t

\* The members of a sequence without its first.
LEMMA MembersTail ==
  ASSUME NEW S, NEW s \in Seq(S), s # <<>>
  PROVE  /\ Members(Tail(s)) \subseteq Members(s) /\ Head(s) \in Members(s) /\ Head(s) \in S
         /\ Tail(s) \in Seq(S) /\ Len(Tail(s)) = Len(s) - 1 /\ Len(s) \in Nat /\ Len(s) >= 1
  <1> DEFINE t == Tail(s)
  <1>1. /\ Len(t) = Len(s) - 1 /\ Len(s) \in Nat /\ Len(s) >= 1 /\ t \in Seq(S)
        /\ \A i \in 1..Len(t) : t[i] = s[i + 1]
        /\ Head(s) = s[1] /\ Head(s) \in S
    OBVIOUS
  <1> HIDE DEF t
  <1>2. \A i \in 1..Len(t) : i + 1 \in 1..Len(s)
    BY <1>1
  <1>3. 1 \in 1..Len(s)
    BY <1>1
  <1>4. Members(t) \subseteq Members(s) /\ Head(s) \in Members(s)
    BY <1>1, <1>2, <1>3 DEF Members
  <1> QED BY <1>1, <1>4 DEF t

\* A connection that is not occupied carries nothing.
LEMMA NothingPassing ==
  ASSUME ShapeInv, conn # 0, Occupied = 0
  PROVE  Passing(conn) = {} /\ upq[conn] = <<>> /\ downq[conn] = <<>> /\ ~Busy(conn)
  <1>1. conn \in Conns
    BY LinkAssumption DEF ShapeInv, Conns
  <1>2. upq[conn] \in Seq(Frames) /\ downq[conn] \in Seq(Frames)
    BY <1>1 DEF ShapeInv
  <1>3. Len(upq[conn]) \in Nat /\ Len(downq[conn]) \in Nat
    BY <1>2
  <1>4. Len(upq[conn]) = 0 /\ Len(downq[conn]) = 0 /\ ~Busy(conn)
    <2> DEFINE a == Len(upq[conn])
               b == Len(downq[conn])
    <2>1. a \in Nat /\ b \in Nat /\ a + b + (IF Busy(conn) THEN 1 ELSE 0) = 0
      BY <1>3 DEF Occupied
    <2> HIDE DEF a, b
    <2>2. a = 0 /\ b = 0 /\ ~Busy(conn)
      BY <2>1
    <2> QED BY <2>2 DEF a, b
  <1>5. upq[conn] = <<>> /\ downq[conn] = <<>> /\ reply[conn] = NoFrame
    BY <1>2, <1>4 DEF Busy
  <1>6. Members(<<>>) = {}
    BY DEF Members
  <1> QED BY <1>4, <1>5, <1>6 DEF Passing

\* The numbers of the file and of the log.
LEMMA NumberTypes ==
  ASSUME FileInv, LogInv
  PROVE  /\ rows \in SUBSET Numbers /\ snaps \in SUBSET Numbers /\ Settled \in SUBSET Numbers
         /\ Delivered \in SUBSET Numbers /\ Handed \in SUBSET Numbers
         /\ rows \cap snaps = {} /\ Waiting = rows \ Delivered
  <1>1. rows \in SUBSET Numbers /\ snaps \in SUBSET Numbers
    BY DEF FileInv, J!TypeOK, Numbers
  <1> QED BY <1>1 DEF FileInv, LogInv, Delivered, Handed, Waiting

----------------------------------------------------------------------------
(* Steps that only add numbers above all others and retire rows the log    *)
(* has.                                                                    *)

Grows ==
    /\ Settled \subseteq Settled'
    /\ snaps \subseteq snaps'
    /\ rows \ rows' \subseteq Settled
    /\ \A x \in (rows' \ rows) \cup (snaps' \ snaps) : \A h \in Handed : h < x
    /\ rows' \in SUBSET Numbers /\ snaps' \in SUBSET Numbers

\* A step that leaves rows and snapshots alone and keeps the log grows.
LEMMA StillGrows ==
  ASSUME FileInv, LogInv, rows' = rows, snaps' = snaps, Settled \subseteq Settled'
  PROVE  Grows
  BY NumberTypes DEF Grows

\* What a frame promises, it goes on promising.
LEMMA PromiseKept ==
  ASSUME FileInv, LogInv, Grows, NEW f, f \in Frames, FrameOK(f)
  PROVE  FrameOK(f)'
  <1>1. /\ rows \subseteq Numbers /\ snaps \subseteq Numbers /\ Settled \subseteq Numbers
        /\ Handed = rows \cup snaps \cup Settled /\ Waiting = rows \ Settled
    BY NumberTypes DEF Handed, Waiting
  <1>2. \A x \in Numbers : x \in Int
    BY DEF Numbers
  <1>3. ASSUME NEW n, EventOK(n)
        PROVE  EventOK(n)'
    <2>1. n \in Handed /\ n \in Numbers /\ n \notin snaps
      BY <1>1, <1>3 DEF EventOK
    <2>2. n \notin snaps'
      BY <1>2, <2>1 DEF Grows
    <2>3. CASE n \in Settled
      BY <2>2, <2>3 DEF EventOK, Grows
    <2>4. CASE n \notin Settled
      <3>1. n \in rows /\ n \in rows'
        BY <1>3, <2>4 DEF EventOK, Grows
      <3>2. ASSUME NEW r \in Waiting'
            PROVE  n <= r
        <4>1. r \in rows' /\ r \notin Settled' /\ r \notin Settled /\ r \in Numbers
          BY <3>2 DEF Grows, Waiting
        <4>2. CASE r \in rows
          BY <1>1, <1>3, <2>4, <4>1, <4>2 DEF EventOK
        <4>3. CASE r \notin rows
          <5>1. n < r
            BY <2>1, <4>1, <4>3 DEF Grows
          <5> QED BY <1>2, <2>1, <4>1, <5>1
        <4> QED BY <4>2, <4>3
      <3> QED BY <2>2, <3>1, <3>2 DEF EventOK
    <2> QED BY <2>3, <2>4
  <1>4. ASSUME NEW n, SnapOK(n)
        PROVE  SnapOK(n)'
    <2>1. n \in snaps' /\ n \in Numbers /\ n \in Handed
      BY <1>1, <1>4 DEF SnapOK, Grows
    <2>2. ASSUME NEW r \in rows', r < n
          PROVE  r \in Settled'
      <3>1. CASE r \in rows
        BY <1>4, <2>2, <3>1 DEF SnapOK, Grows
      <3>2. CASE r \notin rows
        <4>1. n < r /\ r \in Numbers
          BY <2>1, <2>2, <3>2 DEF Grows
        <4> QED BY <1>2, <2>1, <2>2, <4>1
      <3> QED BY <3>1, <3>2
    <2> QED BY <2>1, <2>2 DEF SnapOK
  <1> QED BY <1>3, <1>4 DEF FrameOK, Grows

\* The mirror is as good against the outbox and the log after the step.
LEMMA MirrorKept ==
  ASSUME FileInv, LogInv, Grows, NEW l, l \in Links, MirrorOK(l, rows, Delivered)
  PROVE  MirrorOK(l, rows', Delivered')
  <1>1. /\ rows \subseteq Numbers /\ snaps \subseteq Numbers /\ Settled \subseteq Numbers
        /\ Handed = rows \cup snaps \cup Settled /\ Delivered = Settled \ snaps
        /\ rows \cap snaps = {}
    BY NumberTypes DEF Handed, Delivered
  <1>2. \A x \in Numbers : x \in Int /\ x > 0
    BY DEF Numbers
  <1>3. Delivered' = Settled' \ snaps'
    BY DEF Delivered
  <1>4. \A x \in Handed : x \in snaps' => x \in snaps
    BY <1>1, <1>2 DEF Grows
  <1>5. Delivered \subseteq Delivered'
    BY <1>1, <1>3, <1>4 DEF Grows
  <1>6. rows \cup Delivered \subseteq rows' \cup Delivered'
    BY <1>1, <1>5 DEF Grows
  <1>7. rows' \subseteq Numbers /\ \A x \in rows' \ rows : \A h \in Handed : h < x
    BY DEF Grows
  <1>8. l.offered \in Int /\ MirrorRows(l) \subseteq rows \cup Delivered
        /\ l.offered \in rows \cup Delivered \cup {0}
    BY FieldTypes DEF MirrorOK
  <1>9. ASSUME NEW x \in rows', x \notin rows
        PROVE  x > l.offered /\ \A e \in MirrorRows(l) : e <= x
    <2>1. \A h \in Handed : h < x
      BY <1>7, <1>9
    <2>2. \A e \in MirrorRows(l) : e \in Handed
      BY <1>1, <1>8
    <2>3. x > l.offered
      BY <1>1, <1>2, <1>7, <1>8, <2>1
    <2>4. \A e \in MirrorRows(l) : e \in Int /\ e < x
      BY <1>1, <1>2, <2>1, <2>2
    <2> QED BY <1>2, <1>7, <2>3, <2>4
  <1>10. \A r \in rows' \ Delivered' : r \in MirrorRows(l) \/ r > l.offered
    BY <1>5, <1>9 DEF MirrorOK
  <1>11. \A e \in MirrorRows(l), r \in rows' : e <= l.offered \/ r <= l.offered \/ e <= r
    BY <1>9 DEF MirrorOK
  <1>12. \A e \in MirrorRows(l) : e \in Delivered' \/ e \in Queued(l) \/ e > l.offered
    BY <1>5 DEF MirrorOK
  <1>13. l.offered \in rows' \cup Delivered' \cup {0} /\ MirrorRows(l) \subseteq rows' \cup Delivered'
    BY <1>6, <1>8
  <1> QED BY <1>10, <1>11, <1>12, <1>13 DEF MirrorOK

\* The log is as good when only rows and snapshots change.
LEMMA LogKept ==
  ASSUME FileInv, LogInv, Grows, log' = log, dropped' = dropped
  PROVE  LogInv'
  <1>1. /\ rows \subseteq Numbers /\ snaps \subseteq Numbers /\ Settled \subseteq Numbers
        /\ Handed = rows \cup snaps \cup Settled
    BY NumberTypes DEF Handed
  <1>2. \A x \in Numbers : x \in Int
    BY DEF Numbers
  <1>3. Settled' = Settled
    BY DEF Settled, CommittedSeqs
  <1>4. \A x \in Settled : x \in snaps' <=> x \in snaps
    BY <1>1, <1>2 DEF Grows
  <1>5. \A i \in 1..Len(log) : log[i].seq \in Settled
    BY DEF Settled, CommittedSeqs
  <1>6. Delivered' = Delivered
    BY <1>3, <1>4 DEF Delivered
  <1>7. ASSUME NEW e \in Delivered, NEW r \in Waiting'
        PROVE  e < r
    <2>1. r \in rows' /\ r \notin Settled
      BY <1>3 DEF Waiting
    <2>2. CASE r \in rows
      BY <2>1, <2>2 DEF LogInv, Waiting
    <2>3. CASE r \notin rows
      BY <1>1, <2>1, <2>3 DEF Grows, Delivered
    <2> QED BY <2>2, <2>3
  <1>8. ASSUME NEW i \in 1..Len(log), log[i].kind = "snapshot", NEW r \in rows' \ dropped,
               r < log[i].seq
        PROVE  \E j \in 1..i : log[j].seq = r
    <2>1. CASE r \in rows
      BY <1>8, <2>1 DEF LogInv, SnapshotCoversRows
    <2>2. CASE r \notin rows
      <3>1. log[i].seq < r /\ log[i].seq \in Numbers /\ r \in Numbers
        BY <1>1, <1>5, <2>2 DEF Grows
      <3> QED BY <1>2, <1>8, <3>1
    <2> QED BY <2>1, <2>2
  <1>9. SnapshotCoversRows'
    BY <1>8 DEF SnapshotCoversRows
  <1>10. \A i \in 1..Len(log) : /\ log[i].kind \in {"event", "snapshot"}
                               /\ log[i].kind = "snapshot" <=> log[i].seq \in snaps'
    BY <1>4, <1>5 DEF LogInv
  <1>11. dropped \subseteq Settled
    BY DEF Settled
  <1>12. dropped' \subseteq Folder /\ dropped' \cap snaps' = {}
    BY <1>4, <1>11 DEF LogInv
  <1> QED BY <1>3, <1>6, <1>7, <1>9, <1>10, <1>12 DEF LogInv

\* A connection nobody wrote to, unless the worker's end of it was cleared,
\* goes on carrying what it did.
LEMMA CarriesKept ==
  ASSUME FileInv, LogInv, ShapeInv, Grows, NEW h \in Conns, Carries(h),
         upq'[h] = upq[h], reply'[h] = reply[h],
         downq'[h] = downq[h] \/ downq'[h] = <<>>,
         h # conn' => downq'[h] = <<>>,
         h > dialled' => h > dialled,
         h = conn' => \A f \in Passing(h)' : Rides(f)'
  PROVE  Carries(h)'
  <1>1. upq[h] \in Seq(Frames) /\ downq[h] \in Seq(Frames) /\ reply[h] \in Frames
    BY DEF ShapeInv
  <1>2. Members(<<>>) = {}
    BY DEF Members
  <1>3. Members(downq'[h]) \subseteq Members(downq[h])
    BY <1>2
  <1>4. Passing(h)' = Members(upq'[h]) \cup Members(downq'[h]) \cup ({reply'[h]} \ {NoFrame})
    BY DEF Passing, Members
  <1>5. Passing(h)' \subseteq Passing(h)
    BY <1>3, <1>4 DEF Passing
  <1>6. \A f \in Passing(h) : f \in Frames /\ FrameOK(f)
    BY <1>1 DEF Passing, Members, Carries
  <1>7. \A f \in Passing(h)' : FrameOK(f)'
    BY <1>5, <1>6, PromiseKept
  <1>8. /\ \A f \in Members(upq'[h]) : f.kind \in {"hello", "event", "snapshot"}
        /\ \A f \in Members(downq'[h]) : f.kind \in {"helloack", "ack"}
    BY <1>3 DEF Carries
  <1>9. /\ h > dialled' => upq'[h] = <<>> /\ reply'[h] = NoFrame
        /\ reply'[h] # NoFrame => reply'[h].kind \in {"event", "snapshot", "ack"}
    BY DEF Carries
  <1> QED BY <1>7, <1>8, <1>9 DEF Carries, Members

\* A step of the worker that touches neither connections nor log.
LEMMA LinkStep ==
  ASSUME IInv, Grows,
         UNCHANGED <<conn, dialled, upq, downq, reply, log, refused, dropped>>,
         up' \/ (up' = up /\ link' = link),
         conn # 0 \/ pc' = pc,
         LinkOK(link', Occupied), MirrorOK(link', rows, Delivered),
         link'.pump.barrier = "Idle" <=> link.pump.barrier = "Idle",
         link'.pump.barrier = "Open" <=> link.pump.barrier = "Open",
         link'.pump.barrier = "Snapshot" =>
            \/ Occupied = 0
            \/ link.pump.barrier = "Snapshot" /\ link'.pump.snapshotSeq = link.pump.snapshotSeq,
         link'.authorised.kind = "snapshot" => SnapOK(link.authorised.seq)',
         Members(link'.acks) \subseteq Settled
  PROVE  LinkInv' /\ MirrorInv' /\ ConnInv' /\ PromiseInv' /\ NetInv' /\ LogInv'
  <1>1. FileInv /\ LogInv /\ ShapeInv /\ ConnInv /\ NetInv
    BY DEF IInv
  <1>2. Settled' = Settled /\ Occupied' = Occupied
    BY DEF Settled, CommittedSeqs, Occupied, Busy
  <1>3. LinkInv'
    BY <1>2 DEF LinkInv
  <1>4. MirrorInv'
    BY <1>1, MirrorKept DEF MirrorInv, LinkOK
  <1>5. ConnInv'
    BY <1>1 DEF ConnInv
  <1>6. PromiseInv'
    BY <1>2 DEF PromiseInv
  <1>7. ASSUME NEW h \in Conns
        PROVE  Carries(h)'
    <2>1. Carries(h)
      BY <1>1 DEF NetInv
    <2>2. Passing(h)' = Passing(h)
      BY DEF Passing
    <2>3. ASSUME h = conn, NEW f \in Passing(h)
          PROVE  Rides(f)'
      <3>1. Rides(f) /\ conn # 0
        BY <2>1, <2>3 DEF Carries, Conns
      <3>2. Occupied # 0
        BY <1>1, <2>3, <3>1, NothingPassing
      <3> QED BY <3>1, <3>2 DEF Rides, Grows
    <2>4. h # conn => downq'[h] = <<>>
      BY <2>1 DEF Carries
    <2> QED BY <1>1, <2>1, <2>2, <2>3, <2>4, CarriesKept
  <1>8. LogInv'
    BY <1>1, LogKept
  <1> QED BY <1>3, <1>4, <1>5, <1>6, <1>7, <1>8 DEF NetInv

\* A step of the worker that changes only its link, the way calls do.
LEMMA KeepsStep ==
  ASSUME IInv, Connected, up' = up,
         UNCHANGED <<rows, snaps, conn, dialled, upq, downq, reply, log, refused, dropped>>,
         LinkOK(link', Occupied), MirrorOK(link', rows, Delivered), Keeps(link, link'),
         link'.acks = link.acks
  PROVE  LinkInv' /\ MirrorInv' /\ ConnInv' /\ PromiseInv' /\ NetInv' /\ LogInv'
  <1>1. FileInv /\ LogInv /\ PromiseInv
    BY DEF IInv
  <1>2. Settled' = Settled
    BY DEF Settled, CommittedSeqs
  <1>3. Grows
    BY <1>1, <1>2, StillGrows
  <1>4. up' /\ conn # 0
    BY DEF Connected
  <1>5. link'.pump.barrier = "Snapshot" =>
            \/ Occupied = 0
            \/ link.pump.barrier = "Snapshot" /\ link'.pump.snapshotSeq = link.pump.snapshotSeq
    <2>1. link'.wanted => Occupied = 0
      BY DEF LinkOK, PumpOK
    <2> QED BY <2>1 DEF Keeps
  <1>6. link'.authorised.kind = "snapshot" => SnapOK(link.authorised.seq)'
    <2> SUFFICES ASSUME link'.authorised.kind = "snapshot"
                 PROVE  SnapOK(link.authorised.seq)'
      OBVIOUS
    <2>1. link'.authorised = link.authorised
      BY DEF Keeps
    <2>2. SnapOK(link.authorised.seq)
      BY <1>1, <2>1 DEF PromiseInv
    <2> QED BY <1>2, <2>1, <2>2 DEF SnapOK
  <1>7. Members(link'.acks) \subseteq Settled
    BY <1>1 DEF PromiseInv
  <1>8. /\ link'.pump.barrier = "Idle" <=> link.pump.barrier = "Idle"
        /\ link'.pump.barrier = "Open" <=> link.pump.barrier = "Open"
    BY DEF Keeps
  <1> QED BY <1>3, <1>4, <1>5, <1>6, <1>7, <1>8, LinkStep

\* A step that leaves the link, the connections and the log alone.
LEMMA AsideStep ==
  ASSUME IInv, Grows, UNCHANGED <<link, conn, dialled, upq, downq, reply, log,
                                  refused, dropped, pc>>,
         up' \/ up' = up
  PROVE  LinkInv' /\ MirrorInv' /\ ConnInv' /\ PromiseInv' /\ NetInv' /\ LogInv'
  <1>1. FileInv /\ LogInv /\ PromiseInv /\ LinkInv /\ MirrorInv
    BY DEF IInv
  <1>2. link.authorised.kind = "snapshot" => SnapOK(link.authorised.seq)'
    <2> SUFFICES ASSUME link.authorised.kind = "snapshot"
                 PROVE  SnapOK(link.authorised.seq)'
      OBVIOUS
    <2>1. PICK f \in Frames : f = link.authorised
      BY <1>1, FieldTypes DEF LinkInv, LinkOK
    <2>2. FrameOK(f)
      BY <1>1, <2>1 DEF PromiseInv, FrameOK
    <2>3. FrameOK(f)'
      BY <1>1, <2>2, PromiseKept
    <2> QED BY <2>1, <2>3 DEF FrameOK
  <1> QED BY <1>1, <1>2, LinkStep DEF LinkInv, MirrorInv, PromiseInv

\* The file is as good when nothing new was handed out.
LEMMA FileKept ==
  ASSUME FileInv, rows' \subseteq rows, Handed' \subseteq Handed,
         UNCHANGED <<watermark, claims, up, issued, reservedThrough, writer, tokens, checked,
                     draws, snaps>>
  PROVE  FileInv'
  <1>1. J!TypeOK'
    BY DEF FileInv, J!TypeOK, J!Claim
  <1> QED BY <1>1 DEF FileInv, J!NoWriter, J!NoClaim

----------------------------------------------------------------------------
(* The outbox.                                                             *)

\* claim_sequence_in: the number is above everything still about, and the
\* block it is from is on file.
LEMMA NextNumber ==
  ASSUME FileInv, LogInv, J!ClaimSequence
  PROVE  /\ J!NextSequence \in Numbers /\ issued' = J!NextSequence
         /\ \A h \in Handed : h < J!NextSequence
         /\ watermark' \in 0..MaxSequence /\ reservedThrough' \in 0..MaxSequence
         /\ issued' <= watermark' /\ reservedThrough' <= watermark' /\ reservedThrough' > 0
         /\ watermark <= watermark' /\ draws' \in Seq(1..MaxSequence)
  <1>1. /\ watermark \in 0..MaxSequence /\ issued \in 0..MaxSequence
        /\ reservedThrough \in 0..MaxSequence /\ draws \in Seq(1..MaxSequence)
        /\ issued <= watermark /\ reservedThrough <= watermark
    BY DEF FileInv, J!TypeOK
  <1>2. \A h \in Handed : h \in Int /\ h <= watermark /\ (reservedThrough > 0 => h <= issued)
    BY NumberTypes DEF FileInv, Numbers
  <1>3. MaxSequence \in Nat /\ BlockSize \in Nat /\ BlockSize >= 1
    BY LinkAssumption
  <1>4. issued' = J!NextSequence /\ draws' = Append(draws, J!NextSequence)
    BY DEF J!ClaimSequence
  <1>5. CASE J!NeedsBlock
    <2>1. /\ J!NextSequence = watermark + 1
          /\ watermark' = watermark + BlockSize /\ reservedThrough' = watermark + BlockSize
          /\ watermark + BlockSize <= MaxSequence
      BY <1>1, <1>5 DEF J!ClaimSequence, J!ReserveBlock, J!NextSequence, J!BlockFloor
    <2>2. /\ J!NextSequence \in 1..MaxSequence /\ \A h \in Handed : h < J!NextSequence
          /\ watermark' \in 0..MaxSequence /\ reservedThrough' \in 0..MaxSequence
          /\ issued' <= watermark' /\ reservedThrough' <= watermark' /\ reservedThrough' > 0
          /\ watermark <= watermark'
      BY <1>1, <1>2, <1>3, <1>4, <2>1
    <2>3. draws' \in Seq(1..MaxSequence)
      BY <1>1, <1>4, <2>2
    <2> QED BY <1>4, <2>2, <2>3 DEF Numbers
  <1>6. CASE ~J!NeedsBlock
    <2>1. /\ J!NextSequence = issued + 1 /\ watermark' = watermark
          /\ reservedThrough' = reservedThrough /\ issued < reservedThrough
      BY <1>1, <1>6 DEF J!ClaimSequence, J!NextSequence, J!NeedsBlock
    <2>2. /\ J!NextSequence \in 1..MaxSequence /\ \A h \in Handed : h < J!NextSequence
          /\ watermark' \in 0..MaxSequence /\ reservedThrough' \in 0..MaxSequence
          /\ issued' <= watermark' /\ reservedThrough' <= watermark' /\ reservedThrough' > 0
          /\ watermark <= watermark'
      BY <1>1, <1>2, <1>3, <1>4, <2>1
    <2>3. draws' \in Seq(1..MaxSequence)
      BY <1>1, <1>4, <2>2
    <2> QED BY <1>4, <2>2, <2>3 DEF Numbers
  <1> QED BY <1>5, <1>6

\* append_within up to its number.
LEMMA NumberStep ==
  ASSUME FileInv, LogInv, log' = log, dropped' = dropped, NEW k \in tokens \cup {J!NoClaim}, J!AppendNumber(k)
  PROVE  FileInv'
  <1>1. J!ClaimSequence /\ writer' = [seq |-> J!NextSequence, claim |-> k] /\ up /\ up' = up
        /\ rows' = rows /\ snaps' = snaps
    BY DEF J!AppendNumber
  <1>2. Handed' = Handed
    BY <1>1 DEF Handed, Settled, CommittedSeqs
  <1>3. k \in 0..MaxClaims
    BY LinkAssumption DEF FileInv, J!TypeOK, J!NoClaim
  <1>4. /\ J!NextSequence \in 1..MaxSequence /\ issued' = J!NextSequence
        /\ \A h \in Handed : h < J!NextSequence
        /\ watermark' \in 0..MaxSequence /\ reservedThrough' \in 0..MaxSequence
        /\ issued' <= watermark' /\ reservedThrough' <= watermark' /\ reservedThrough' > 0
        /\ watermark <= watermark' /\ draws' \in Seq(1..MaxSequence)
    BY <1>1, NextNumber DEF Numbers
  <1>5. \A h \in Handed : h \in Int
    BY NumberTypes DEF Numbers
  <1> HIDE DEF Handed
  <1>6. writer' \in [seq : 0..MaxSequence, claim : 0..MaxClaims] /\ writer'.seq = J!NextSequence
    BY <1>1, <1>3, <1>4
  <1>7. J!TypeOK'
    BY <1>1, <1>4, <1>6 DEF FileInv, J!TypeOK, J!AppendNumber, J!Claim
  <1>8. \A x \in Handed : x <= watermark' /\ x <= issued' /\ x < writer'.seq
    BY <1>4, <1>5, <1>6
  <1>9. writer'.seq \in 1..issued'
    BY <1>4, <1>6
  <1> QED BY <1>1, <1>2, <1>4, <1>7, <1>8, <1>9 DEF FileInv

\* append_within's transaction; the row is the newest number there is.
LEMMA CommitStep ==
  ASSUME FileInv, LogInv, log' = log, dropped' = dropped, J!AppendCommit
  PROVE  FileInv' /\ Grows
  <1> DEFINE w == writer.seq
  <1>1. /\ writer # J!NoWriter /\ rows' = rows \cup {w} /\ writer' = J!NoWriter /\ up /\ up' = up
        /\ snaps' = snaps /\ UNCHANGED <<watermark, issued, reservedThrough, checked, draws>>
        /\ claims' \subseteq claims /\ tokens' \subseteq tokens
    BY DEF J!AppendCommit, J!windowVars, J!history
  <1>2. w \in 1..issued /\ reservedThrough > 0 /\ \A x \in Handed : x < w
    BY <1>1 DEF FileInv
  <1>3. J!TypeOK /\ issued <= watermark /\ reservedThrough <= watermark
    BY DEF FileInv
  <1>4. issued \in 0..MaxSequence /\ watermark \in 0..MaxSequence /\ w \in 1..MaxSequence
    BY <1>2, <1>3, LinkAssumption DEF J!TypeOK
  <1>5. Settled' = Settled
    BY DEF Settled, CommittedSeqs
  <1> HIDE DEF w
  <1>6. Handed' = Handed \cup {w}
    BY <1>1, <1>5 DEF Handed
  <1>7. w \notin snaps
    BY <1>2, <1>4 DEF Handed
  <1>8. J!NoWriter \in [seq : 0..MaxSequence, claim : 0..MaxClaims]
    BY LinkAssumption DEF J!NoWriter, J!NoClaim
  <1>9. J!TypeOK'
    <2>1. rows' \subseteq 1..MaxSequence
      BY <1>1, <1>3, <1>4 DEF J!TypeOK
    <2> QED BY <1>1, <1>3, <1>8, <2>1 DEF J!TypeOK, J!Claim
  <1>10. \A x \in Handed' : x <= watermark /\ x <= issued
    BY <1>2, <1>3, <1>4, <1>6, NumberTypes DEF Numbers, FileInv
  <1>11. rows' \cap snaps' = {}
    BY <1>1, <1>7 DEF FileInv
  <1>12. FileInv'
    BY <1>1, <1>3, <1>9, <1>10, <1>11 DEF FileInv
  <1>13. Grows
    BY <1>1, <1>2, <1>4, <1>5, NumberTypes DEF Grows, Numbers
  <1> QED BY <1>12, <1>13

\* snapshot_sequence; the snapshot has the newest number there is.
LEMMA SnapshotStep ==
  ASSUME FileInv, LogInv, log' = log, dropped' = dropped, NEW o, J!SnapshotSequence(o)
  PROVE  /\ FileInv' /\ Grows /\ J!NextSequence \in Numbers /\ snaps' = snaps \cup {J!NextSequence}
         /\ rows' = rows /\ up' = up /\ \A h \in Handed : h < J!NextSequence
  <1> DEFINE w == J!NextSequence
  <1>1. /\ J!ClaimSequence /\ writer = J!NoWriter /\ up /\ up' = up /\ rows' = rows
        /\ snaps' = snaps \cup {w} /\ UNCHANGED <<claims, writer, tokens, checked>>
    BY DEF J!SnapshotSequence
  <1>2. /\ w \in 1..MaxSequence /\ issued' = w /\ \A h \in Handed : h < w
        /\ watermark' \in 0..MaxSequence /\ reservedThrough' \in 0..MaxSequence
        /\ issued' <= watermark' /\ reservedThrough' <= watermark' /\ reservedThrough' > 0
        /\ watermark <= watermark' /\ draws' \in Seq(1..MaxSequence)
    BY <1>1, NextNumber DEF Numbers
  <1> HIDE DEF w
  <1>3. Settled' = Settled
    BY DEF Settled, CommittedSeqs
  <1>4. Handed' = Handed \cup {w}
    BY <1>1, <1>3 DEF Handed
  <1>5. w \notin rows
    BY <1>2 DEF Handed
  <1>6. J!TypeOK'
    BY <1>1, <1>2 DEF FileInv, J!TypeOK, J!Claim
  <1>7. \A x \in Handed' : x <= watermark' /\ x <= issued'
    BY <1>2, <1>4, NumberTypes DEF Numbers
  <1>8. FileInv'
    BY <1>1, <1>2, <1>5, <1>6, <1>7 DEF FileInv
  <1>9. Grows
    BY <1>1, <1>2, <1>3, NumberTypes DEF Grows, Numbers
  <1> QED BY <1>1, <1>2, <1>8, <1>9 DEF w, Numbers

\* The capacity claims and the error path of append_within.
LEMMA ClaimStep ==
  ASSUME FileInv, LogInv, log' = log, dropped' = dropped,
         \/ J!ReserveCheck \/ J!ReserveInsert \/ J!AppendRefused
         \/ \E k \in tokens : J!Hold(k) \/ J!Release(k)
         \/ \E c \in claims : J!LeaseExpire(c)
  PROVE  FileInv' /\ rows' = rows /\ snaps' = snaps /\ up' = up
  <1>1. /\ UNCHANGED <<rows, watermark, up, issued, reservedThrough, draws, snaps>>
        /\ writer' = writer \/ writer' = J!NoWriter
    BY DEF J!ReserveCheck, J!ReserveInsert, J!AppendRefused, J!Hold, J!Release, J!LeaseExpire,
           J!fileVars, J!windowVars, J!history
  <1>2. J!TypeOK
    BY DEF FileInv
  <1>3. claims' \subseteq J!Claim /\ tokens' \subseteq 1..MaxClaims /\ checked' \in 0..MaxCallers
    <2>1. CASE J!ReserveCheck
      BY <1>2, <2>1, LinkAssumption DEF J!ReserveCheck, J!TypeOK, J!fileVars
    <2>2. CASE J!ReserveInsert
      <3>1. PICK n \in J!ClaimIds \cup {0} :
               /\ n < MaxClaims
               /\ claims' = claims \cup {[id |-> n + 1, blocking |-> TRUE, fresh |-> TRUE]}
               /\ tokens' = tokens \cup {n + 1}
        BY <2>2 DEF J!ReserveInsert
      <3>2. n + 1 \in 1..MaxClaims
        BY <1>2, <3>1, LinkAssumption DEF J!ClaimIds, J!TypeOK, J!Claim
      <3>3. checked' \in 0..MaxCallers
        BY <1>2, <2>2, LinkAssumption DEF J!ReserveInsert, J!TypeOK
      <3>4. [id |-> n + 1, blocking |-> TRUE, fresh |-> TRUE] \in J!Claim
        BY <3>2 DEF J!Claim
      <3>5. claims \subseteq J!Claim /\ tokens \subseteq 1..MaxClaims
        BY <1>2 DEF J!TypeOK
      <3> QED BY <3>1, <3>2, <3>3, <3>4, <3>5
    <2>3. CASE J!AppendRefused
      BY <1>2, <2>3 DEF J!AppendRefused, J!TypeOK, J!fileVars
    <2>4. ASSUME NEW k \in tokens, J!Hold(k)
          PROVE  claims' \subseteq J!Claim /\ tokens' \subseteq 1..MaxClaims /\ checked' \in 0..MaxCallers
      <3>1. PICK c \in claims : claims' = (claims \ {c}) \cup {[c EXCEPT !.blocking = FALSE]}
        BY <2>4 DEF J!Hold
      <3>2. [c EXCEPT !.blocking = FALSE] \in J!Claim
        BY <1>2 DEF J!TypeOK, J!Claim
      <3> QED BY <1>2, <2>4, <3>1, <3>2 DEF J!Hold, J!TypeOK
    <2>5. ASSUME NEW k \in tokens, J!Release(k)
          PROVE  claims' \subseteq J!Claim /\ tokens' \subseteq 1..MaxClaims /\ checked' \in 0..MaxCallers
      BY <1>2, <2>5 DEF J!Release, J!TypeOK
    <2>6. ASSUME NEW c \in claims, J!LeaseExpire(c)
          PROVE  claims' \subseteq J!Claim /\ tokens' \subseteq 1..MaxClaims /\ checked' \in 0..MaxCallers
      <3>1. [c EXCEPT !.fresh = FALSE] \in J!Claim
        BY <1>2 DEF J!TypeOK, J!Claim
      <3> QED BY <1>2, <2>6, <3>1 DEF J!LeaseExpire, J!TypeOK
    <2> QED BY <2>1, <2>2, <2>3, <2>4, <2>5, <2>6
  <1>4. J!NoWriter \in [seq : 0..MaxSequence, claim : 0..MaxClaims]
    BY LinkAssumption DEF J!NoWriter, J!NoClaim
  <1>5. J!TypeOK'
    BY <1>1, <1>2, <1>3, <1>4 DEF J!TypeOK, J!Claim
  <1>6. Handed' = Handed
    BY <1>1 DEF Handed, Settled, CommittedSeqs
  <1>7. \A x \in Handed : x <= watermark /\ (reservedThrough > 0 => x <= issued)
    BY DEF FileInv
  <1>8. writer' # J!NoWriter => /\ writer'.seq \in 1..issued /\ reservedThrough > 0
                                /\ \A x \in Handed : x < writer'.seq
    BY <1>1 DEF FileInv
  <1>9. ~up => reservedThrough = 0 /\ writer' = J!NoWriter
    BY <1>1 DEF FileInv
  <1>10. /\ issued <= watermark /\ reservedThrough <= watermark /\ rows \cap snaps = {}
    BY DEF FileInv
  <1> HIDE DEF Handed
  <1> QED BY <1>1, <1>5, <1>6, <1>7, <1>8, <1>9, <1>10 DEF FileInv

\* The process dies, or another opens the file.
LEMMA ProcessStep ==
  ASSUME FileInv, LogInv, log' = log, dropped' = dropped, J!Crash \/ J!Open
  PROVE  FileInv' /\ rows' = rows /\ snaps' = snaps
  <1>1. UNCHANGED <<rows, watermark, draws, snaps>> /\ reservedThrough' = 0
    BY DEF J!Crash, J!Open, J!fileVars, J!history
  <1>2. J!TypeOK
    BY DEF FileInv
  <1>3. writer' = J!NoWriter
    BY DEF FileInv, J!Crash, J!Open
  <1>4. issued' \in 0..MaxSequence /\ issued' <= watermark
    <2>1. CASE J!Crash
      BY <1>2, <2>1, LinkAssumption DEF J!Crash, J!TypeOK
    <2>2. CASE J!Open
      <3>1. issued' \in rows \cup {0} /\ \A r \in rows : r <= watermark
        BY <2>2 DEF J!Open
      <3> QED BY <1>2, <3>1, LinkAssumption DEF J!TypeOK
    <2> QED BY <2>1, <2>2
  <1>5. J!NoWriter \in [seq : 0..MaxSequence, claim : 0..MaxClaims]
    BY LinkAssumption DEF J!NoWriter, J!NoClaim
  <1>6. /\ claims' \subseteq J!Claim /\ up' \in BOOLEAN /\ tokens' \subseteq 1..MaxClaims
        /\ checked' \in 0..MaxCallers
    <2>1. CASE J!Crash
      <3>1. claims' = claims /\ up' = FALSE /\ tokens' = {} /\ checked' = 0
        BY <2>1 DEF J!Crash, J!fileVars
      <3>2. claims \subseteq J!Claim /\ 0 \in 0..MaxCallers
        BY <1>2, LinkAssumption DEF J!TypeOK
      <3> QED BY <3>1, <3>2
    <2>2. CASE J!Open
      BY <1>2, <2>2, LinkAssumption DEF J!Open, J!TypeOK
    <2> QED BY <2>1, <2>2
  <1>7. J!TypeOK'
    BY <1>1, <1>2, <1>3, <1>4, <1>5, <1>6, LinkAssumption DEF J!TypeOK, J!Claim
  <1>8. Handed' = Handed
    BY <1>1 DEF Handed, Settled, CommittedSeqs
  <1>9. watermark \in Nat
    BY <1>2 DEF J!TypeOK
  <1>10. /\ \A x \in Handed : x <= watermark
         /\ rows \cap snaps = {}
    BY DEF FileInv
  <1> HIDE DEF Handed
  <1> QED BY <1>1, <1>3, <1>4, <1>7, <1>8, <1>9, <1>10 DEF FileInv

----------------------------------------------------------------------------
(* The steps of the session tasks and of the process.                      *)

\* The steps that number, claim, release, expire or refuse, and the start of
\* the worker: they touch the outbox alone.
LEMMA OutboxStep ==
  ASSUME IInv, \/ EmitNumber \/ EmitRefused \/ Reserve \/ HoldOrRelease \/ LeaseExpire
               \/ WorkerStart
  PROVE  IInv'
  <1>1. FileInv /\ ShapeInv /\ LogInv /\ ConnInv /\ DrainInv
    BY DEF IInv
  <1>2. /\ UNCHANGED <<link, pc, boot, faults, conn, dialled, upq, downq, closed, current, reply, log,
                       refused, dropped>>
        /\ changed' = changed /\ drained' = drained
        /\ unnoted' = unnoted \/ unnoted' = unnoted + 1
    BY DEF EmitNumber, EmitRefused, Reserve, HoldOrRelease, LeaseExpire, WorkerStart, Unnoticed,
           Noticed, rest, netVars, coordVars, barrierVars, deliveryVars
  <1>3. FileInv' /\ rows' = rows /\ snaps' = snaps /\ (up' = up \/ (~up /\ up'))
    <2>1. CASE EmitNumber
      <3>1. PICK k \in tokens \cup {J!NoClaim} : J!AppendNumber(k)
        BY <2>1 DEF EmitNumber, Unnoticed
      <3>2. FileInv'
        BY <1>1, <1>2, <3>1, NumberStep
      <3> QED BY <3>1, <3>2 DEF J!AppendNumber
    <2>2. CASE EmitRefused \/ Reserve \/ HoldOrRelease \/ LeaseExpire
      <3>1. \/ J!ReserveCheck \/ J!ReserveInsert \/ J!AppendRefused
            \/ \E k \in tokens : J!Hold(k) \/ J!Release(k)
            \/ \E c \in claims : J!LeaseExpire(c)
        BY <2>2 DEF EmitRefused, Reserve, HoldOrRelease, LeaseExpire, Unnoticed, Noticed
      <3> QED BY <1>1, <1>2, <3>1, ClaimStep
    <2>3. CASE WorkerStart
      <3>1. J!Open
        BY <2>3 DEF WorkerStart
      <3> QED BY <1>1, <1>2, <3>1, ProcessStep DEF J!Open
    <2> QED BY <2>1, <2>2, <2>3
  <1>4. Grows
    BY <1>1, <1>2, <1>3, StillGrows DEF Settled, CommittedSeqs
  <1>5. LinkInv' /\ MirrorInv' /\ ConnInv' /\ PromiseInv' /\ NetInv' /\ LogInv'
    BY <1>2, <1>3, <1>4, AsideStep
  <1>6. unnoted \in Nat /\ unnoted' \in Nat /\ (unnoted' = 0 => unnoted = 0)
    BY <1>1, <1>2 DEF ShapeInv
  <1>7. ShapeInv'
    BY <1>1, <1>2, <1>6 DEF ShapeInv
  <1>8. DrainInv'
    <2>1. CASE up' = up
      BY <1>1, <1>2, <1>3, <1>6, <2>1 DEF DrainInv
    <2>2. CASE ~up /\ up'
      <3>1. link.resync /\ pc = "idle"
        BY <1>1, <2>2 DEF ConnInv, NewLink
      <3>2. ~drained
        BY <1>1, <2>2, <3>1 DEF DrainInv
      <3> QED BY <1>2, <3>1, <3>2 DEF DrainInv
    <2> QED BY <1>3, <2>1, <2>2
  <1> QED BY <1>3, <1>5, <1>7, <1>8 DEF IInv

\* A row is committed: it is numbered above everything, and its signal is
\* owed.
LEMMA EmitCommitStep ==
  ASSUME IInv, EmitCommit
  PROVE  IInv'
  <1>1. FileInv /\ ShapeInv /\ LogInv /\ DrainInv
    BY DEF IInv
  <1>2. /\ UNCHANGED <<link, pc, boot, faults, conn, dialled, upq, downq, closed, current, reply, log,
                       refused, dropped>>
        /\ changed' = changed /\ drained' = drained /\ unnoted' = unnoted + 1 /\ J!AppendCommit
    BY DEF EmitCommit, Noticed, rest, netVars, coordVars, barrierVars
  <1>3. FileInv' /\ Grows /\ up' = up
    BY <1>1, <1>2, CommitStep DEF J!AppendCommit
  <1>4. LinkInv' /\ MirrorInv' /\ ConnInv' /\ PromiseInv' /\ NetInv' /\ LogInv'
    BY <1>2, <1>3, AsideStep
  <1>5. unnoted' \in Nat /\ unnoted' # 0
    BY <1>1, <1>2 DEF ShapeInv
  <1>6. ShapeInv'
    BY <1>1, <1>2, <1>5 DEF ShapeInv
  <1>7. DrainInv'
    BY <1>1, <1>2, <1>3, <1>5 DEF DrainInv
  <1> QED BY <1>3, <1>4, <1>6, <1>7 DEF IInv

\* The signal of a committed row, and the end of the wait of boot.
LEMMA SignalStep ==
  ASSUME IInv, NoteStoreChanged \/ BootReplayed
  PROVE  IInv'
  <1>1. FileInv /\ ShapeInv /\ LogInv /\ DrainInv
    BY DEF IInv
  <1>2. /\ UNCHANGED <<journalVars, link, pc, faults, conn, dialled, upq, downq, closed, current,
                       reply, log, refused, dropped>>
    BY DEF NoteStoreChanged, BootReplayed, rest, netVars, coordVars, barrierVars
  <1>3. FileInv' /\ Grows /\ up' = up /\ rows' = rows
    <2>1. Settled' = Settled /\ Handed' = Handed
      BY <1>2 DEF Settled, CommittedSeqs, Handed, journalVars
    <2> QED BY <1>1, <1>2, <2>1, StillGrows, FileKept DEF journalVars
  <1>4. LinkInv' /\ MirrorInv' /\ ConnInv' /\ PromiseInv' /\ NetInv' /\ LogInv'
    BY <1>2, <1>3, AsideStep
  <1>5. CASE NoteStoreChanged
    <2>1. /\ unnoted > 0 /\ unnoted' = unnoted - 1 /\ changed' = TRUE /\ drained' = FALSE
          /\ boot' = boot
      BY <1>5 DEF NoteStoreChanged, rest
    <2>2. unnoted' \in Nat
      BY <1>1, <2>1 DEF ShapeInv
    <2>3. ShapeInv'
      BY <1>1, <1>2, <2>1, <2>2 DEF ShapeInv
    <2>4. DrainInv'
      BY <2>1 DEF DrainInv
    <2> QED BY <1>3, <1>4, <2>3, <2>4 DEF IInv
  <1>6. CASE BootReplayed
    <2>1. UNCHANGED <<changed, drained, unnoted>> /\ boot' = "reconciling"
      BY <1>6 DEF BootReplayed, deliveryVars
    <2>2. ShapeInv'
      BY <1>1, <1>2, <2>1 DEF ShapeInv
    <2>3. DrainInv'
      BY <1>1, <1>2, <1>3, <2>1 DEF DrainInv
    <2> QED BY <1>3, <1>4, <2>2, <2>3 DEF IInv
  <1> QED BY <1>5, <1>6

----------------------------------------------------------------------------
(* The steps of a drain.                                                   *)

\* With nothing queued, the log has every row the link was offered.
LEMMA OfferedDelivered ==
  ASSUME FileInv, LogInv, LinkInv, MirrorInv, link.pump.durable = <<>>
  PROVE  \A r \in rows : r <= link.offered => r \in Settled
  <1>1. Queued(link) = {}
    BY DEF Queued
  <1>2. rows \subseteq Numbers /\ link.offered \in Int /\ MirrorRows(link) \subseteq Numbers
    <2>1. link \in Links
      BY DEF LinkInv, LinkOK
    <2> QED BY <2>1, NumberTypes, FieldTypes DEF MirrorInv, MirrorOK
  <1>3. \A r \in Numbers : r <= link.offered => ~(r > link.offered)
    BY <1>2 DEF Numbers
  <1>4. ASSUME NEW r \in rows, r <= link.offered, r \notin Delivered
        PROVE  FALSE
    <2>1. r \in MirrorRows(link)
      BY <1>2, <1>3, <1>4 DEF MirrorInv, MirrorOK
    <2> QED BY <1>1, <1>2, <1>3, <1>4, <2>1 DEF MirrorInv, MirrorOK
  <1> QED BY <1>4 DEF Delivered

\* The steps of a drain that only call the link: its start, the passes over
\* rows and claims, and the snapshot that a row has outrun.
LEMMA PassStep ==
  ASSUME IInv, DrainStart \/ DrainSync \/ DrainClaims \/ SnapshotOutrun
  PROVE  IInv'
  <1>1. FileInv /\ ShapeInv /\ LinkInv /\ MirrorInv /\ LogInv /\ ConnInv /\ DrainInv
    BY DEF IInv
  <1>2. /\ UNCHANGED <<journalVars, unnoted, boot, conn, dialled, closed, current, reply, log,
                       refused, dropped,
                       upq, downq>>
        /\ Connected
    BY DEF DrainStart, DrainSync, DrainClaims, SnapshotOutrun, linkOnly, netVars, coordVars, barrierVars
  <1>3. /\ rows' = rows /\ snaps' = snaps /\ up' = up
        /\ Settled' = Settled /\ Handed' = Handed
    BY <1>2 DEF Settled, CommittedSeqs, Handed, journalVars
  <1>4. FileInv'
    BY <1>1, <1>2, <1>3, FileKept DEF journalVars
  <1>5. LinkOK(link, Occupied) /\ MirrorOK(link, rows, Delivered)
        /\ rows \in SUBSET Numbers /\ Delivered \in SUBSET Numbers
    BY <1>1, NumberTypes DEF LinkInv, MirrorInv
  <1>6. ASSUME LinkOK(link', Occupied), MirrorOK(link', rows, Delivered), Calm(link, link'),
               pc' \in {"acks", "claims", "snapshot", "resync", "reclaims", "write"},
               changed' \in BOOLEAN, drained' \in BOOLEAN, DrainInv'
        PROVE  IInv'
    <2>1. LinkInv' /\ MirrorInv' /\ ConnInv' /\ PromiseInv' /\ NetInv' /\ LogInv'
      BY <1>2, <1>3, <1>6, KeepsStep DEF Calm
    <2>2. ShapeInv'
      BY <1>1, <1>2, <1>6 DEF ShapeInv
    <2> QED BY <1>4, <1>6, <2>1, <2>2 DEF IInv
  <1>7. CASE DrainStart
    <2>1. /\ link' = [link EXCEPT !.wake = FALSE] /\ pc = "idle" /\ pc' = "acks"
          /\ changed' = changed /\ drained' = drained
      BY <1>7 DEF DrainStart
    <2>2. /\ LinkOK(link', Occupied) /\ Calm(link, link') /\ SameMirror(link, link')
          /\ link'.resync = link.resync /\ link'.mirror = link.mirror
      BY <1>5, <2>1, SetWake
    <2>3. MirrorOK(link', rows, Delivered)
      BY <1>5, <2>2, MirrorSame
    <2>4. DrainInv'
      BY <1>1, <1>2, <1>3, <2>1, <2>2 DEF DrainInv, SameMirror
    <2> QED BY <1>1, <1>6, <2>1, <2>2, <2>3, <2>4 DEF ShapeInv
  <1>8. CASE DrainSync
    <2>1. CASE changed \/ link.resync
      <3>1. /\ pc' \in {"claims", "reclaims"} /\ drained' = drained /\ changed' = FALSE
            /\ link' = OfferRows(link, rows) \/ link' = [link EXCEPT !.resync = TRUE]
        BY <1>8, <2>1 DEF DrainSync
      <3>2. CASE link' = OfferRows(link, rows)
        <4>1. /\ LinkOK(link', Occupied) /\ MirrorOK(link', rows, Delivered) /\ Calm(link, link')
              /\ ~link'.resync => \A x \in rows : x <= link'.offered
          BY <1>5, <3>2, OfferRowsOK
        <4>2. DrainInv'
          BY <1>3, <3>1, <4>1 DEF DrainInv
        <4> QED BY <1>1, <1>6, <3>1, <4>1, <4>2 DEF ShapeInv
      <3>3. CASE link' = [link EXCEPT !.resync = TRUE]
        <4>1. /\ LinkOK(link', Occupied) /\ Calm(link, link') /\ SameMirror(link, link')
              /\ link'.resync
          BY <1>5, <3>3, SetResync
        <4>2. MirrorOK(link', rows, Delivered)
          BY <1>5, <4>1, MirrorSame
        <4>3. DrainInv'
          BY <3>1, <4>1 DEF DrainInv
        <4> QED BY <1>1, <1>6, <3>1, <4>1, <4>2, <4>3 DEF ShapeInv
      <3> QED BY <3>1, <3>2, <3>3
    <2>2. CASE ~(changed \/ link.resync)
      <3>1. /\ pc' = "snapshot" /\ changed' = FALSE /\ link' = link /\ drained' = ReplayDrained(link)
        BY <1>8, <2>2 DEF DrainSync
      <3>2. drained' \in BOOLEAN
        BY <3>1 DEF ReplayDrained
      <3>3. DrainInv'
        BY <1>1, <1>2, <1>3, <2>2, <3>1 DEF DrainInv
      <3>4. Calm(link, link')
        BY <3>1 DEF Calm, Keeps
      <3> QED BY <1>5, <1>6, <3>1, <3>2, <3>3, <3>4
    <2> QED BY <2>1, <2>2
  <1>9. CASE DrainClaims
    <2>1. PICK l \in {RefreshBlocking(link), [link EXCEPT !.resync = TRUE]} :
             /\ drained' = ReplayDrained(l)
             /\ link' = IF pc = "claims" THEN l ELSE ApplyTo(l, NoteDurableAppeared(l.pump))
      BY <1>9 DEF DrainClaims
    <2>2. pc' \in {"snapshot", "write"} /\ changed' = changed /\ drained' \in BOOLEAN
      BY <1>9, <2>1 DEF DrainClaims, ReplayDrained
    <2>3. /\ LinkOK(l, Occupied) /\ Calm(link, l) /\ SameMirror(link, l)
          /\ l.resync = link.resync \/ l.resync
      <3>1. CASE l = RefreshBlocking(link)
        BY <1>5, <3>1, RefreshBlockingOK
      <3>2. CASE l = [link EXCEPT !.resync = TRUE]
        BY <1>5, <3>2, SetResync
      <3> QED BY <2>1, <3>1, <3>2
    <2>4. MirrorOK(l, rows, Delivered)
      BY <1>5, <2>3, MirrorSame
    <2>5. /\ LinkOK(link', Occupied) /\ Calm(link, link') /\ MirrorOK(link', rows, Delivered)
          /\ link'.offered = link.offered /\ (link'.resync = link.resync \/ link'.resync)
      <3>1. CASE pc = "claims"
        BY <2>1, <2>3, <2>4, <3>1 DEF SameMirror
      <3>2. CASE pc # "claims"
        <4>1. /\ LinkOK(link', Occupied) /\ Calm(l, link') /\ SameMirror(l, link')
              /\ link'.resync = l.resync
          BY <2>1, <2>3, <3>2, NoteDurableAppearedOK
        <4>2. MirrorOK(link', rows, Delivered) /\ Calm(link, link')
          BY <2>3, <2>4, <4>1, MirrorSame, CalmTransitive
        <4> QED BY <2>3, <4>1, <4>2 DEF SameMirror
      <3> QED BY <3>1, <3>2
    <2>6. DrainInv'
      BY <1>1, <1>2, <1>3, <2>2, <2>5 DEF DrainInv
    <2> QED BY <1>1, <1>6, <2>2, <2>5, <2>6 DEF ShapeInv
  <1>10. CASE SnapshotOutrun
    <2> DEFINE l == [link EXCEPT !.wanted = FALSE, !.pump = AbandonSnapshot(link.pump)]
    <2>1. /\ link.wanted /\ pc' = "resync" /\ changed' = changed /\ drained' = drained
          /\ link' = [link EXCEPT !.wanted = FALSE, !.resync = TRUE,
                                  !.pump = AbandonSnapshot(link.pump)]
      BY <1>10 DEF SnapshotOutrun, SnapshotDue
    <2>2. LinkOK(l, Occupied) /\ Calm(link, l) /\ SameMirror(link, l)
      BY <1>5, <2>1, AbandonOK
    <2>3. link' = [l EXCEPT !.resync = TRUE]
      BY <1>5, <2>1 DEF LinkOK, Links
    <2> HIDE DEF l
    <2>4. LinkOK(link', Occupied) /\ Calm(l, link') /\ SameMirror(l, link') /\ link'.resync
      BY <2>2, <2>3, SetResync
    <2>5. MirrorOK(link', rows, Delivered)
      BY <1>5, <2>2, <2>4, MirrorSame
    <2>6. Calm(link, link')
      BY <2>2, <2>4, CalmTransitive
    <2>7. DrainInv'
      BY <2>1, <2>4 DEF DrainInv
    <2> QED BY <1>1, <1>6, <2>1, <2>4, <2>5, <2>6, <2>7 DEF ShapeInv
  <1> QED BY <1>7, <1>8, <1>9, <1>10

\* The snapshot is not to be had now, or boot lets it go: the pump stays.
LEMMA WithdrawStep ==
  ASSUME IInv, SnapshotNotNow \/ BootActivate
  PROVE  IInv'
  <1>1. FileInv /\ ShapeInv /\ LinkInv /\ MirrorInv /\ LogInv /\ PromiseInv /\ ConnInv /\ DrainInv
    BY DEF IInv
  <1>2. /\ UNCHANGED <<journalVars, unnoted, conn, dialled, closed, current, reply, log,
                       refused, dropped,
                       upq, downq, changed, drained>>
        /\ up /\ (conn # 0 \/ pc' = pc) /\ boot' \in {boot, "active"}
        /\ pc' = "write" \/ pc' = pc
        /\ \/ link' = link \/ link' = [link EXCEPT !.wanted = FALSE]
           \/ link' = [link EXCEPT !.wake = TRUE]
    BY DEF SnapshotNotNow, BootActivate, linkOnly, netVars, coordVars, barrierVars, deliveryVars, Connected
  <1>3. /\ rows' = rows /\ snaps' = snaps /\ up' = up
        /\ Settled' = Settled /\ Handed' = Handed
    BY <1>2 DEF Settled, CommittedSeqs, Handed, journalVars
  <1>4. FileInv' /\ Grows
    BY <1>1, <1>2, <1>3, FileKept, StillGrows DEF journalVars
  <1>5. LinkOK(link, Occupied) /\ MirrorOK(link, rows, Delivered)
    BY <1>1 DEF LinkInv, MirrorInv
  <1>6. /\ LinkOK(link', Occupied) /\ SameMirror(link, link') /\ link'.resync = link.resync
        /\ link'.pump = link.pump /\ link'.authorised = link.authorised /\ link'.acks = link.acks
        /\ link'.mirror = link.mirror
    <2>1. CASE link' = link
      BY <1>5, <2>1 DEF SameMirror
    <2>2. CASE link' = [link EXCEPT !.wanted = FALSE]
      BY <1>5, <2>2, Withdrawn
    <2>3. CASE link' = [link EXCEPT !.wake = TRUE]
      <3>1. link'.authorised = link.authorised
        BY <1>5, <2>3 DEF LinkOK, Links
      <3> QED BY <1>5, <2>3, <3>1, SetWake DEF Calm
    <2> QED BY <1>2, <2>1, <2>2, <2>3
  <1>7. MirrorOK(link', rows, Delivered)
    BY <1>5, <1>6, MirrorSame
  <1>8. link'.authorised.kind = "snapshot" => SnapOK(link.authorised.seq)'
    BY <1>1, <1>3, <1>6 DEF PromiseInv, SnapOK
  <1>9. Members(link'.acks) \subseteq Settled
    BY <1>1, <1>6 DEF PromiseInv
  <1>10. LinkInv' /\ MirrorInv' /\ ConnInv' /\ PromiseInv' /\ NetInv' /\ LogInv'
    BY <1>2, <1>3, <1>4, <1>6, <1>7, <1>8, <1>9, LinkStep
  <1>11. ShapeInv'
    BY <1>1, <1>2 DEF ShapeInv
  <1>12. DrainInv'
    BY <1>1, <1>2, <1>3, <1>6 DEF DrainInv, SameMirror
  <1> QED BY <1>4, <1>10, <1>11, <1>12 DEF IInv

\* The snapshot is numbered: every row of the outbox was offered and nothing is
\* queued, so the log has them all.
LEMMA AuthoriseStep ==
  ASSUME IInv, SnapshotAuthorised
  PROVE  IInv'
  <1> DEFINE n == J!NextSequence
  <1>1. FileInv /\ ShapeInv /\ LinkInv /\ MirrorInv /\ LogInv /\ PromiseInv /\ ConnInv /\ DrainInv
    BY DEF IInv
  <1>2. /\ UNCHANGED <<conn, dialled, closed, current, reply, log, refused, dropped, upq, downq,
                       boot, changed, drained, unnoted>>
        /\ Connected /\ link.wanted /\ pc' = "write" /\ J!SnapshotSequence(link.offered)
        /\ link' = [link EXCEPT !.wanted = FALSE,
                                !.pump = ReassignSnapshotSequence(link.pump, n),
                                !.authorised = Frame("snapshot", n)]
    BY DEF SnapshotAuthorised, SnapshotDue, netVars, coordVars, barrierVars, deliveryVars
  <1>3. /\ FileInv' /\ Grows /\ n \in Numbers /\ snaps' = snaps \cup {n} /\ rows' = rows
        /\ up' = up /\ \A h \in Handed : h < n
    BY <1>1, <1>2, SnapshotStep
  <1>4. \A r \in rows : r <= link.offered
    BY <1>2 DEF J!SnapshotSequence
  <1>5. Settled' = Settled
    BY <1>2 DEF Settled, CommittedSeqs
  <1> HIDE DEF n
  <1>6. LinkOK(link, Occupied) /\ MirrorOK(link, rows, Delivered)
    BY <1>1 DEF LinkInv, MirrorInv
  <1>7. link.offered < n
    <2>1. link.offered \in Handed \cup {0}
      BY <1>6 DEF MirrorOK, Handed, Delivered
    <2> QED BY <1>3, <2>1 DEF Numbers
  <1>8. /\ LinkOK(link', Occupied) /\ SameMirror(link, link') /\ link'.resync = link.resync
        /\ link'.acks = link.acks /\ link'.mirror = link.mirror /\ Occupied = 0
        /\ link.pump.barrier = "Snapshot" /\ link'.pump.barrier = "Snapshot"
        /\ link'.authorised = Frame("snapshot", n)
    <2>1. link.wanted /\ link' = Numbered(link, n)
      BY <1>2 DEF Numbered
    <2> QED BY <1>3, <1>6, <1>7, <2>1, SnapshotNumbered
  <1>9. MirrorOK(link', rows, Delivered)
    BY <1>6, <1>8, MirrorSame
  <1>10. link.pump.durable = <<>>
    BY <1>2, <1>6 DEF LinkOK, PumpOK
  <1>11. SnapOK(link.authorised.seq)'
    <2>1. link'.authorised.seq = n
      BY <1>8 DEF Frame
    <2>2. \A r \in rows : r \in Settled
      BY <1>1, <1>4, <1>10, OfferedDelivered
    <2> QED BY <1>3, <1>5, <2>1, <2>2 DEF SnapOK
  <1>12. Members(link'.acks) \subseteq Settled
    BY <1>1, <1>8 DEF PromiseInv
  <1>13. LinkInv' /\ MirrorInv' /\ ConnInv' /\ PromiseInv' /\ NetInv' /\ LogInv'
    BY <1>2, <1>3, <1>8, <1>9, <1>11, <1>12, LinkStep DEF Connected
  <1>14. ShapeInv'
    BY <1>1, <1>2 DEF ShapeInv
  <1>15. DrainInv'
    BY <1>1, <1>2, <1>3, <1>8 DEF DrainInv, SameMirror
  <1> QED BY <1>3, <1>13, <1>14, <1>15 DEF IInv

\* apply_durable_acks: the log has the row that goes.
LEMMA DrainAckStep ==
  ASSUME IInv, DrainAck
  PROVE  IInv'
  <1> DEFINE n == Head(link.acks)
  <1>1. FileInv /\ ShapeInv /\ LinkInv /\ MirrorInv /\ LogInv /\ PromiseInv /\ ConnInv /\ DrainInv
    BY DEF IInv
  <1>2. /\ UNCHANGED <<conn, dialled, closed, current, reply, log,
                       refused, dropped, upq, downq, pc, boot,
                       changed, drained, unnoted>>
        /\ Connected /\ link.acks # <<>>
        /\ link' = [link EXCEPT !.acks = Tail(link.acks)]
        /\ J!Acknowledge(n) \/ UNCHANGED journalVars
    BY DEF DrainAck, netVars, coordVars, barrierVars, deliveryVars
  <1>3. LinkOK(link, Occupied) /\ MirrorOK(link, rows, Delivered)
    BY <1>1 DEF LinkInv, MirrorInv
  <1>4. link.acks \in Seq(0..MaxSequence)
    BY <1>3, FieldTypes DEF LinkOK
  <1>5. Members(Tail(link.acks)) \subseteq Settled /\ n \in Settled
    BY <1>1, <1>2, <1>4, MembersTail DEF PromiseInv
  <1>6. Settled' = Settled
    BY <1>2 DEF Settled, CommittedSeqs
  <1> HIDE DEF n
  <1>7. /\ rows' = rows \/ rows' = rows \ {n}
        /\ UNCHANGED <<watermark, claims, up, issued, reservedThrough, writer, tokens, checked,
                       draws, snaps>>
    BY <1>2 DEF J!Acknowledge, J!windowVars, J!history, journalVars
  <1>8. Handed' = Handed
    BY <1>5, <1>6, <1>7 DEF Handed
  <1>9. FileInv'
    BY <1>1, <1>7, <1>8, FileKept
  <1>10. Grows
    BY <1>1, <1>5, <1>6, <1>7, NumberTypes DEF Grows
  <1>11. /\ LinkOK(link', Occupied) /\ SameMirror(link, link') /\ link'.resync = link.resync
         /\ link'.pump = link.pump /\ link'.authorised = link.authorised
         /\ link'.acks = Tail(link.acks) /\ link'.mirror = link.mirror
    BY <1>2, <1>3, AckApplied
  <1>12. MirrorOK(link', rows, Delivered)
    BY <1>3, <1>11, MirrorSame
  <1>13. link'.authorised.kind = "snapshot" => SnapOK(link.authorised.seq)'
    BY <1>1, <1>6, <1>7, <1>11 DEF PromiseInv, SnapOK
  <1>14. LinkInv' /\ MirrorInv' /\ ConnInv' /\ PromiseInv' /\ NetInv' /\ LogInv'
    BY <1>2, <1>5, <1>7, <1>10, <1>11, <1>12, <1>13, LinkStep DEF Connected
  <1>15. ShapeInv'
    BY <1>1, <1>2 DEF ShapeInv
  <1>16. DrainInv'
    BY <1>1, <1>2, <1>7, <1>11 DEF DrainInv, SameMirror
  <1> QED BY <1>9, <1>14, <1>15, <1>16 DEF IInv

----------------------------------------------------------------------------
(* The steps that use the connection.                                      *)

\* A connection that carries one frame to the coordinator.
LEMMA OneFrame ==
  ASSUME NEW h \in Conns, h <= dialled', dialled' \in Int, NEW f \in Frames,
         upq'[h] = <<f>>, downq'[h] = <<>>, reply'[h] = NoFrame,
         f.kind \in {"hello", "event", "snapshot"}, FrameOK(f)', h = conn' => Rides(f)'
  PROVE  Carries(h)'
  <1>1. Members(<<>>) = {} /\ Members(<<f>>) = {f}
    BY DEF Members
  <1>2. Passing(h)' = {f}
    BY <1>1 DEF Passing, Members
  <1>3. ~(h > dialled')
    BY DEF Conns
  <1> QED BY <1>1, <1>2, <1>3 DEF Carries, Members

\* A connection that carries nothing.
LEMMA NoFrames ==
  ASSUME NEW h \in Conns, upq'[h] = <<>>, downq'[h] = <<>>, reply'[h] = NoFrame
  PROVE  Carries(h)'
  <1>1. Members(<<>>) = {}
    BY DEF Members
  <1>2. Passing(h)' = {}
    BY <1>1 DEF Passing, Members
  <1> QED BY <1>1, <1>2 DEF Carries, Members

\* What the link writes as an event is the oldest row the log does not have,
\* or a row it has.
LEMMA HeadIsOldest ==
  ASSUME FileInv, LogInv, MirrorInv, link \in Links, link.mirror # <<>>
  PROVE  Head(link.mirror).row \in Numbers /\ EventOK(Head(link.mirror).row)
  <1> DEFINE m == link.mirror
             n == m[1].row
  <1>1. m \in Seq(Entries)
    BY FieldTypes
  <1>2. Head(m) = m[1] /\ 1 \in 1..Len(m)
    <2> HIDE DEF m
    <2> QED BY <1>1 DEF m
  <1>3. /\ rows \subseteq Numbers /\ Delivered \subseteq Numbers /\ rows \cap snaps = {}
        /\ Waiting = rows \ Delivered /\ Delivered = Settled \ snaps
    BY NumberTypes DEF Delivered
  <1>4. n \in MirrorRows(link) /\ \A e \in MirrorRows(link) : \E j \in 1..Len(m) : e = m[j].row
    BY <1>2 DEF MirrorRows
  <1>5. n \in rows \cup Delivered /\ n \in Numbers /\ link.offered \in Int
    BY <1>3, <1>4, FieldTypes DEF MirrorInv, MirrorOK
  <1>6. \A x \in Numbers : x \in Int
    BY DEF Numbers
  <1>7. ASSUME NEW r \in Waiting
        PROVE  n <= r
    <2>1. r \in rows /\ r \in Numbers /\ r \notin Delivered
      BY <1>3
    <2>2. CASE r \in MirrorRows(link)
      <3>1. PICK j \in 1..Len(m) : r = m[j].row
        BY <1>4, <2>2
      <3>2. j = 1 \/ 1 < j
        BY <3>1
      <3>3. 1 < j => m[1].row <= m[j].row
        BY <1>2, <3>1 DEF MirrorInv, MirrorOK
      <3> QED BY <1>5, <1>6, <3>1, <3>2, <3>3
    <2>3. CASE r > link.offered
      <3>1. n <= link.offered \/ r <= link.offered \/ n <= r
        BY <1>4, <2>1 DEF MirrorInv, MirrorOK
      <3> QED BY <1>5, <1>6, <2>1, <2>3, <3>1
    <2> QED BY <2>1, <2>2, <2>3 DEF MirrorInv, MirrorOK
  <1>8. n \notin snaps /\ (n \in Settled \/ n \in rows)
    BY <1>3, <1>5
  <1> HIDE DEF n
  <1>9. EventOK(n)
    BY <1>7, <1>8 DEF EventOK
  <1>10. Head(link.mirror).row = n
    BY <1>2 DEF n
  <1> QED BY <1>5, <1>9, <1>10

\* next_write and send.
LEMMA WriteStep ==
  ASSUME IInv, DrainWrite
  PROVE  IInv'
  <1>1. /\ FileInv /\ ShapeInv /\ LinkInv /\ MirrorInv /\ LogInv /\ PromiseInv /\ ConnInv
        /\ NetInv /\ DrainInv
    BY DEF IInv
  <1> DEFINE sent == IF link.authorised.kind = "event"
                     THEN Frame("event", Head(link.mirror).row) ELSE link.authorised
  <1>2. /\ UNCHANGED <<journalVars, unnoted, boot, conn, dialled, closed, current, reply, log,
                       refused, dropped,
                       changed, downq>>
        /\ Connected /\ pc' = "idle" /\ drained' = ReplayDrained(link)
        /\ link' = [link EXCEPT !.authorised = NoFrame]
        /\ upq' = IF sent = NoFrame THEN upq ELSE [upq EXCEPT ![conn] = Append(@, sent)]
    BY DEF DrainWrite, linkOnly, coordVars, barrierVars
  <1>3. /\ rows' = rows /\ snaps' = snaps /\ up' = up /\ up
        /\ Settled' = Settled /\ Handed' = Handed
    BY <1>2 DEF Settled, CommittedSeqs, Handed, journalVars, Connected
  <1>4. FileInv' /\ Grows
    BY <1>1, <1>2, <1>3, FileKept, StillGrows DEF journalVars
  <1>5. LinkOK(link, Occupied) /\ MirrorOK(link, rows, Delivered) /\ link \in Links
    BY <1>1 DEF LinkInv, MirrorInv, LinkOK
  <1>6. /\ link.authorised = NoFrame => LinkOK(link', Occupied)
        /\ link.authorised # NoFrame => Occupied = 0 /\ LinkOK(link', 1)
        /\ SameMirror(link, link') /\ link'.resync = link.resync /\ link'.pump = link.pump
        /\ link'.acks = link.acks /\ link'.mirror = link.mirror /\ link'.authorised = NoFrame
    <2>1. link' = [link EXCEPT !.authorised = NoFrame]
      BY <1>2
    <2> HIDE DEF sent
    <2> QED BY <1>5, <2>1, WrittenOK
  <1>7. MirrorOK(link', rows, Delivered) /\ link' \in Links
    BY <1>5, <1>6, MirrorSame DEF LinkOK
  <1>8. NoFrame.kind = "none"
    BY DEF NoFrame, Frame
  <1>9. Members(link'.acks) \subseteq Settled
    BY <1>1, <1>6 DEF PromiseInv
  <1>10. drained' \in BOOLEAN
    BY <1>2 DEF ReplayDrained
  <1>11. DrainInv'
    BY <1>1, <1>2, <1>3, <1>6 DEF DrainInv, SameMirror, ReplayDrained
  <1>12. CASE link.authorised = NoFrame
    <2>1. upq' = upq
      BY <1>2, <1>8, <1>12
    <2>2. LinkInv' /\ MirrorInv' /\ ConnInv' /\ PromiseInv' /\ NetInv' /\ LogInv'
      BY <1>2, <1>3, <1>4, <1>6, <1>7, <1>8, <1>9, <1>12, <2>1, LinkStep DEF Connected
    <2>3. ShapeInv'
      BY <1>1, <1>2, <1>10, <2>1 DEF ShapeInv
    <2> QED BY <1>4, <1>11, <2>2, <2>3 DEF IInv
  <1>13. CASE link.authorised # NoFrame
    <2>1. Occupied = 0 /\ LinkOK(link', 1) /\ link.authorised.kind \in {"event", "snapshot"}
      BY <1>5, <1>6, <1>13 DEF LinkOK, PumpOK
    <2>2. conn \in Conns /\ conn # 0 /\ conn <= dialled /\ dialled \in Int /\ conn \in Int
      BY <1>1, <1>2, LinkAssumption DEF ShapeInv, Conns, Connected
    <2>3. upq[conn] = <<>> /\ downq[conn] = <<>> /\ ~Busy(conn)
      BY <1>1, <2>1, <2>2, NothingPassing
    <2>4. link.authorised.kind = "event" => link.mirror # <<>>
      BY <1>5 DEF LinkOK
    <2>5. sent \in Frames /\ sent.kind = link.authorised.kind /\ sent # NoFrame /\ FrameOK(sent)
      <3>1. CASE link.authorised.kind = "event"
        <4>1. Head(link.mirror).row \in Numbers /\ EventOK(Head(link.mirror).row)
          BY <1>1, <1>5, <2>4, <3>1, HeadIsOldest
        <4>2. sent = [kind |-> "event", seq |-> Head(link.mirror).row]
          BY <3>1 DEF Frame
        <4> HIDE DEF sent
        <4>3. sent \in Frames
          BY <4>1, <4>2 DEF Frames, Numbers
        <4> QED BY <1>8, <3>1, <4>1, <4>2, <4>3 DEF FrameOK
      <3>2. CASE link.authorised.kind = "snapshot"
        <4>1. sent = link.authorised
          BY <3>2
        <4> HIDE DEF sent
        <4>2. sent \in Frames
          BY <1>5, <4>1, FieldTypes
        <4> QED BY <1>1, <1>13, <3>2, <4>1, <4>2 DEF FrameOK, PromiseInv
      <3> QED BY <2>1, <3>1, <3>2
    <2>6. /\ link.pump.barrier # "Open"
          /\ link.pump.barrier = "Snapshot" => sent.kind = "snapshot"
          /\ sent.kind = "snapshot" => sent.seq = link.pump.snapshotSeq /\ sent.seq \in snaps
      <3>1. /\ link.pump.barrier # "Open"
            /\ link.pump.barrier = "Snapshot" => link.authorised.kind # "event"
            /\ link.authorised.kind = "snapshot" => link.authorised.seq = link.pump.snapshotSeq
        BY <1>5, <1>13 DEF LinkOK, PumpOK
      <3>2. link.authorised.kind = "snapshot" => sent = link.authorised
        OBVIOUS
      <3>3. sent.kind = "snapshot" => sent.seq \in snaps
        BY <2>5 DEF FrameOK, SnapOK
      <3> HIDE DEF sent
      <3> QED BY <2>1, <2>5, <3>1, <3>2, <3>3
    <2>7. PICK f \in Frames : f = sent
      BY <2>5
    <2>8. upq' = [upq EXCEPT ![conn] = Append(upq[conn], f)]
      BY <1>2, <2>5, <2>7
    <2>9. /\ f.kind \in {"event", "snapshot"} /\ FrameOK(f) /\ f # NoFrame
          /\ link.pump.barrier = "Snapshot" => f.kind = "snapshot"
          /\ f.kind = "snapshot" => f.seq = link.pump.snapshotSeq /\ f.seq \in snaps
      BY <2>1, <2>5, <2>6, <2>7
    <2> HIDE DEF sent
    <2>10. upq \in [Conns -> Seq(Frames)]
      BY <1>1 DEF ShapeInv
    <2>11. Append(upq[conn], f) = <<f>> /\ <<f>> \in Seq(Frames)
      BY <2>3
    <2>12. /\ upq' \in [Conns -> Seq(Frames)] /\ upq'[conn] = <<f>>
           /\ \A h \in Conns \ {conn} : upq'[h] = upq[h]
      BY <2>2, <2>8, <2>10, <2>11
    <2>13. Occupied' = 1
      <3>1. Len(upq'[conn]) = 1 /\ Len(downq[conn]) = 0 /\ reply[conn] = NoFrame
        BY <2>3, <2>12 DEF Busy
      <3> QED BY <1>2, <2>2, <3>1 DEF Occupied, Busy
    <2>14. LinkInv'
      BY <2>1, <2>13 DEF LinkInv
    <2>15. MirrorInv' /\ LogInv'
      BY <1>1, <1>2, <1>4, <1>7, MirrorKept, LogKept DEF MirrorInv
    <2>16. ConnInv'
      BY <1>1, <1>2, <1>3, <1>6, <2>2 DEF ConnInv
    <2>17. PromiseInv'
      BY <1>3, <1>6, <1>8, <1>9 DEF PromiseInv
    <2>18. ASSUME NEW h \in Conns
           PROVE  Carries(h)'
      <3>1. CASE h = conn
        <4>1. FrameOK(f)'
          BY <1>1, <1>4, <2>9, PromiseKept
        <4>2. Rides(f)'
          BY <1>3, <1>6, <2>6, <2>9 DEF Rides
        <4>3. reply'[h] = NoFrame /\ downq'[h] = <<>> /\ upq'[h] = <<f>>
              /\ f.kind \in {"hello", "event", "snapshot"} /\ dialled' = dialled
          BY <1>2, <2>3, <2>9, <2>12, <3>1 DEF Busy
        <4> QED BY <2>2, <3>1, <4>1, <4>2, <4>3, OneFrame
      <3>2. CASE h # conn
        <4>1. Carries(h) /\ downq[h] = <<>>
          BY <1>1, <3>2 DEF NetInv, Carries
        <4> QED BY <1>1, <1>2, <1>4, <2>12, <3>2, <4>1, CarriesKept
      <3> QED BY <3>1, <3>2
    <2>19. ShapeInv'
      BY <1>1, <1>2, <1>10, <2>12 DEF ShapeInv
    <2> QED BY <1>4, <1>11, <2>14, <2>15, <2>16, <2>17, <2>18, <2>19 DEF IInv, NetInv
  <1> QED BY <1>12, <1>13

\* A sequence of length zero.
LEMMA EmptySequence ==
  ASSUME NEW S, NEW s \in Seq(S), Len(s) = 0
  PROVE  s = <<>>
  OBVIOUS

\* A connection with something for the worker to read carries just that.
LEMMA OneToRead ==
  ASSUME ShapeInv, LinkInv, conn # 0, downq[conn] # <<>>
  PROVE  /\ Occupied = 1 /\ upq[conn] = <<>> /\ reply[conn] = NoFrame
         /\ Tail(downq[conn]) = <<>> /\ conn \in Conns
         /\ Head(downq[conn]) \in Frames /\ Head(downq[conn]) \in Members(downq[conn])
  <1> DEFINE a == upq[conn]
             b == downq[conn]
  <1>1. conn \in Conns
    BY LinkAssumption DEF ShapeInv, Conns
  <1>2. a \in Seq(Frames) /\ b \in Seq(Frames) /\ b # <<>>
    BY <1>1 DEF ShapeInv
  <1>3. Occupied = Len(a) + Len(b) + (IF Busy(conn) THEN 1 ELSE 0) /\ Occupied \in {0, 1}
    BY DEF Occupied, LinkInv, LinkOK
  <1> HIDE DEF a, b
  <1>4. Len(a) \in Nat /\ Len(b) \in Nat /\ Len(b) >= 1
    BY <1>2
  <1>5. Occupied = 1 /\ Len(a) = 0 /\ Len(b) = 1 /\ ~Busy(conn)
    BY <1>3, <1>4, SMTT(30)
  <1>6. a = <<>> /\ Tail(b) = <<>>
    <2>1. Tail(b) \in Seq(Frames) /\ Len(Tail(b)) = 0
      BY <1>2, <1>5, MembersTail
    <2>2. Tail(b) = <<>>
      BY <2>1, EmptySequence
    <2>3. a = <<>>
      BY <1>2, <1>5, EmptySequence
    <2> QED BY <2>2, <2>3
  <1>7. Head(b) \in Frames /\ Head(b) \in Members(b)
    BY <1>2, MembersTail
  <1> QED BY <1>1, <1>5, <1>6, <1>7 DEF a, b, Busy

\* link.recv: the frame was the only one, so nothing is under way after it.
LEMMA ReceiveStep ==
  ASSUME IInv, Receive
  PROVE  IInv'
  <1>1. /\ FileInv /\ ShapeInv /\ LinkInv /\ MirrorInv /\ LogInv /\ PromiseInv /\ ConnInv
        /\ NetInv /\ DrainInv
    BY DEF IInv
  <1>2. PICK f : /\ f = Head(downq[conn])
                 /\ link' = IF f.kind = "helloack" THEN ApplyTo(link, OnHelloAck(link.pump))
                            ELSE EventAcknowledged(link, f.seq)
    BY DEF Receive
  <1>3. /\ UNCHANGED <<journalVars, unnoted, boot, conn, dialled, closed, current, reply, log,
                       refused, dropped, pc,
                       changed, drained, upq>>
        /\ Connected /\ downq[conn] # <<>> /\ pc = "idle"
        /\ downq' = [downq EXCEPT ![conn] = Tail(downq[conn])]
    BY DEF Receive, linkOnly, coordVars, barrierVars
  <1>4. /\ rows' = rows /\ snaps' = snaps /\ up' = up /\ up /\ conn # 0
        /\ Settled' = Settled /\ Handed' = Handed
    BY <1>3 DEF Settled, CommittedSeqs, Handed, journalVars, Connected
  <1>5. FileInv' /\ Grows
    BY <1>1, <1>3, <1>4, FileKept, StillGrows DEF journalVars
  <1>6. /\ Occupied = 1 /\ upq[conn] = <<>> /\ reply[conn] = NoFrame
        /\ Tail(downq[conn]) = <<>> /\ conn \in Conns /\ f \in Frames /\ f \in Members(downq[conn])
    BY <1>1, <1>2, <1>3, <1>4, OneToRead
  <1>7. f.kind \in {"helloack", "ack"} /\ Rides(f) /\ FrameOK(f)
    BY <1>1, <1>6 DEF NetInv, Carries, Passing
  <1>8. LinkOK(link, 1) /\ MirrorOK(link, rows, Delivered) /\ link \in Links
    BY <1>1, <1>6 DEF LinkInv, MirrorInv, LinkOK
  <1>9. link.authorised = NoFrame /\ NoFrame.kind = "none"
    BY <1>8, ReadOne DEF NoFrame, Frame
  <1>10. rows \in SUBSET Numbers /\ Delivered \in SUBSET Numbers /\ Settled \in SUBSET Numbers
    BY <1>1, NumberTypes
  <1>11. /\ LinkOK(link', 0) /\ MirrorOK(link', rows, Delivered) /\ link'.pump.barrier # "Idle"
         /\ link'.authorised.kind # "snapshot" /\ Members(link'.acks) \subseteq Settled
         /\ link'.resync = link.resync /\ link'.offered = link.offered
         /\ link.mirror = <<>> => link'.mirror = <<>>
    <2>1. CASE f.kind = "helloack"
      <3>1. link.pump.barrier = "Open" /\ link' = ApplyTo(link, OnHelloAck(link.pump))
        BY <1>2, <1>7, <2>1 DEF Rides
      <3>2. /\ LinkOK(link', 0) /\ SameMirror(link, link') /\ link'.resync = link.resync
            /\ link'.acks = link.acks /\ link'.pump.barrier \in {"Replay", "Snapshot"}
            /\ link'.authorised = NoFrame \/ link'.authorised.kind = "event"
        BY <1>8, <3>1, HelloAckOK
      <3>3. MirrorOK(link', rows, Delivered)
        BY <1>8, <3>2, MirrorSame
      <3>4. link.mirror = <<>> => link'.mirror = <<>>
        <4>1. link'.mirror \in Seq(Entries) /\ Len(link'.mirror) = Len(link.mirror)
          BY <3>2, FieldTypes DEF LinkOK, SameMirror
        <4> QED BY <4>1
      <3> QED BY <1>1, <1>9, <3>2, <3>3, <3>4 DEF PromiseInv, SameMirror
    <2>2. CASE f.kind = "ack"
      <3>1. /\ link.pump.barrier # "Open" /\ f.seq \in Settled
            /\ link' = EventAcknowledged(link, f.seq)
        BY <1>2, <1>7, <2>2 DEF Rides, FrameOK
      <3>2. link.pump.barrier \notin {"Idle", "Open"} /\ f.seq \in Numbers
        BY <1>1, <1>4, <1>10, <3>1 DEF ConnInv
      <3>3. f.seq \in MirrorRows(link) => f.seq \in Delivered
        BY <1>1, <1>8, <3>1 DEF MirrorOK, Delivered, FileInv
      <3>4. /\ LinkOK(link', 0) /\ MirrorOK(link', rows, Delivered) /\ Keeps(link, link')
            /\ link'.acks = Append(link.acks, f.seq) /\ link'.resync = link.resync
            /\ link'.offered = link.offered /\ (link.mirror = <<>> => link'.mirror = <<>>)
        <4>1. PICK n \in Numbers : n = f.seq
          BY <3>2
        <4>2. /\ link.pump.barrier \notin {"Idle", "Open"}
              /\ n \in MirrorRows(link) => n \in Delivered
              /\ link' = EventAcknowledged(link, n)
          BY <3>1, <3>2, <3>3, <4>1
        <4>3. LinkOK(link', 0) /\ MirrorOK(link', rows, Delivered) /\ Acknowledges(link, link', n)
          BY <1>8, <1>10, <4>2, EventAcknowledgedOK
        <4> QED BY <4>1, <4>3 DEF Acknowledges
      <3>5. link.acks \in Seq(0..MaxSequence)
        BY <1>8, FieldTypes
      <3>6. Members(link'.acks) \subseteq Settled
        BY <1>1, <3>1, <3>4, <3>5, MembersAppend DEF PromiseInv
      <3> QED BY <1>9, <3>2, <3>4, <3>6 DEF Keeps
    <2> QED BY <1>7, <2>1, <2>2
  <1>12. downq \in [Conns -> Seq(Frames)] /\ <<>> \in Seq(Frames)
    BY <1>1 DEF ShapeInv
  <1>13. /\ downq' \in [Conns -> Seq(Frames)] /\ downq'[conn] = <<>>
         /\ \A h \in Conns \ {conn} : downq'[h] = downq[h]
    BY <1>3, <1>6, <1>12
  <1>14. Occupied' = 0
    <2>1. Len(upq'[conn]) = 0 /\ Len(downq'[conn]) = 0 /\ reply'[conn] = NoFrame
      BY <1>3, <1>6, <1>13
    <2> QED BY <1>3, <1>4, <2>1 DEF Occupied, Busy
  <1>15. LinkInv'
    BY <1>11, <1>14 DEF LinkInv
  <1>16. MirrorInv' /\ LogInv'
    BY <1>1, <1>3, <1>5, <1>11, MirrorKept, LogKept DEF MirrorInv, LinkOK
  <1>17. ConnInv'
    BY <1>1, <1>3, <1>4, <1>11 DEF ConnInv
  <1>18. PromiseInv'
    BY <1>4, <1>11 DEF PromiseInv
  <1>19. ASSUME NEW h \in Conns
         PROVE  Carries(h)'
    <2>1. CASE h = conn
      BY <1>3, <1>6, <1>13, <2>1, NoFrames
    <2>2. CASE h # conn
      <3>1. Carries(h) /\ downq[h] = <<>>
        BY <1>1, <2>2 DEF NetInv, Carries
      <3> QED BY <1>1, <1>3, <1>5, <1>13, <2>2, <3>1, CarriesKept
    <2> QED BY <2>1, <2>2
  <1>20. ShapeInv'
    BY <1>1, <1>3, <1>13 DEF ShapeInv
  <1>21. DrainInv'
    BY <1>1, <1>3, <1>4, <1>11 DEF DrainInv
  <1> QED BY <1>5, <1>15, <1>16, <1>17, <1>18, <1>19, <1>20, <1>21 DEF IInv, NetInv

\* dial and force_hello.
LEMMA DialStep ==
  ASSUME IInv, Dial
  PROVE  IInv'
  <1>1. /\ FileInv /\ ShapeInv /\ LinkInv /\ MirrorInv /\ LogInv /\ PromiseInv /\ ConnInv
        /\ NetInv /\ DrainInv
    BY DEF IInv
  <1> DEFINE g == dialled + 1
  <1>2. PICK f : f = Frame("hello", None)
    OBVIOUS
  <1>3. /\ UNCHANGED <<journalVars, unnoted, boot, closed, current, reply, log,
                       refused, dropped, pc,
                       changed, drained, downq>>
        /\ up /\ conn = 0 /\ dialled < MaxConn /\ dialled' = g /\ conn' = g
        /\ link' = [link EXCEPT !.pump = OnOpen(link.pump).pump]
        /\ upq' = [upq EXCEPT ![g] = <<f>>]
    BY <1>2 DEF Dial, coordVars, barrierVars, deliveryVars
  <1>4. /\ rows' = rows /\ snaps' = snaps /\ up' = up
        /\ Settled' = Settled /\ Handed' = Handed
    BY <1>3 DEF Settled, CommittedSeqs, Handed, journalVars
  <1>5. FileInv' /\ Grows
    BY <1>1, <1>3, <1>4, FileKept, StillGrows DEF journalVars
  <1>6. f \in Frames /\ f.kind = "hello"
    BY <1>2, LinkAssumption DEF Frame, Frames, None
  <1>7. dialled \in Nat /\ g \in Conns /\ g # 0 /\ g > dialled /\ g \in 0..MaxConn
    BY <1>1, <1>3, LinkAssumption, SMTT(30) DEF ShapeInv, Conns
  <1>8. upq[g] = <<>> /\ reply[g] = NoFrame /\ downq[g] = <<>>
    BY <1>1, <1>3, <1>7 DEF NetInv, Carries
  <1>9. upq \in [Conns -> Seq(Frames)] /\ <<f>> \in Seq(Frames)
    BY <1>1, <1>6 DEF ShapeInv
  <1> HIDE DEF g
  <1>10. /\ upq' \in [Conns -> Seq(Frames)] /\ upq'[g] = <<f>>
         /\ \A h \in Conns \ {g} : upq'[h] = upq[h]
    BY <1>3, <1>7, <1>9
  <1>11. LinkOK(link, 0) /\ MirrorOK(link, rows, Delivered) /\ link.pump.barrier = "Idle"
    BY <1>1, <1>3 DEF LinkInv, MirrorInv, Occupied, ConnInv
  <1>12. /\ LinkOK(link', 1) /\ SameMirror(link, link') /\ link'.resync = link.resync
         /\ link'.acks = link.acks /\ link'.pump.barrier = "Open" /\ link'.authorised = NoFrame
         /\ MirrorOK(link', rows, Delivered)
    <2>1. /\ LinkOK(link', 1) /\ SameMirror(link, link') /\ link'.resync = link.resync
          /\ link'.acks = link.acks /\ link'.pump.barrier = "Open" /\ link'.authorised = NoFrame
      BY <1>3, <1>11, OnOpenOK
    <2> QED BY <1>11, <2>1, MirrorSame
  <1>13. Occupied' = 1
    <2>1. Len(upq'[g]) = 1 /\ Len(downq'[g]) = 0 /\ reply'[g] = NoFrame
      BY <1>3, <1>8, <1>10
    <2> QED BY <1>3, <1>7, <2>1 DEF Occupied, Busy
  <1>14. LinkInv'
    BY <1>12, <1>13 DEF LinkInv
  <1>15. MirrorInv' /\ LogInv'
    BY <1>1, <1>3, <1>5, <1>12, MirrorKept, LogKept DEF MirrorInv, LinkOK
  <1>16. ConnInv'
    BY <1>3, <1>4, <1>7, <1>12 DEF ConnInv
  <1>17. PromiseInv'
    BY <1>1, <1>4, <1>12 DEF PromiseInv, NoFrame, Frame
  <1>18. ASSUME NEW h \in Conns
         PROVE  Carries(h)'
    <2>1. CASE h = g
      <3>1. FrameOK(f)' /\ Rides(f)'
        BY <1>6, <1>12 DEF FrameOK, Rides
      <3>2. h <= dialled' /\ dialled' \in Int
        BY <1>3, <1>7, <2>1
      <3>3. upq'[h] = <<f>> /\ downq'[h] = <<>> /\ reply'[h] = NoFrame
            /\ f.kind \in {"hello", "event", "snapshot"}
        BY <1>3, <1>6, <1>8, <1>10, <2>1
      <3> QED BY <1>6, <3>1, <3>2, <3>3, OneFrame
    <2>2. CASE h # g
      <3>1. Carries(h) /\ downq[h] = <<>>
        BY <1>1, <1>3 DEF NetInv, Carries, Conns
      <3>2. h > dialled' => h > dialled
        BY <1>3, <1>7 DEF Conns
      <3> QED BY <1>1, <1>3, <1>5, <1>10, <2>2, <3>1, <3>2, CarriesKept
    <2> QED BY <2>1, <2>2
  <1>19. ShapeInv'
    <2>1. dialled' \in 0..MaxConn /\ conn' \in 0..dialled' /\ current' \in 0..dialled'
          /\ closed' \subseteq 1..dialled' /\ refused' \subseteq 1..dialled'
      BY <1>1, <1>3, <1>7 DEF ShapeInv
    <2> QED BY <1>1, <1>3, <1>10, <2>1 DEF ShapeInv
  <1>20. DrainInv'
    <2>1. link.mirror = <<>> => link'.mirror = <<>>
      <3>1. link'.mirror \in Seq(Entries) /\ Len(link'.mirror) = Len(link.mirror)
        BY <1>12, FieldTypes DEF LinkOK, SameMirror
      <3> QED BY <3>1
    <2> QED BY <1>1, <1>3, <1>4, <1>12, <2>1 DEF DrainInv, SameMirror
  <1> QED BY <1>5, <1>14, <1>15, <1>16, <1>17, <1>18, <1>19, <1>20 DEF IInv, NetInv

\* serve returns: what the coordinator has not read stays under way.
LEMMA DisconnectStep ==
  ASSUME IInv, Disconnect
  PROVE  IInv'
  <1>1. /\ FileInv /\ ShapeInv /\ LinkInv /\ MirrorInv /\ LogInv /\ PromiseInv /\ ConnInv
        /\ NetInv /\ DrainInv
    BY DEF IInv
  <1>2. /\ UNCHANGED <<journalVars, unnoted, boot, closed, current, reply, log, refused, dropped,
                       changed, upq, dialled>>
        /\ Connected /\ conn' = 0 /\ pc' = "idle" /\ drained' = FALSE /\ link' = Detached(link)
        /\ downq' = [downq EXCEPT ![conn] = <<>>]
    BY DEF Disconnect, coordVars, barrierVars
  <1>3. /\ rows' = rows /\ snaps' = snaps /\ up' = up /\ up /\ conn # 0
        /\ Settled' = Settled /\ Handed' = Handed
    BY <1>2 DEF Settled, CommittedSeqs, Handed, journalVars, Connected
  <1>4. FileInv' /\ Grows
    BY <1>1, <1>2, <1>3, FileKept, StillGrows DEF journalVars
  <1>5. LinkOK(link, Occupied) /\ MirrorOK(link, rows, Delivered)
    BY <1>1 DEF LinkInv, MirrorInv
  <1>6. /\ LinkOK(link', 0) /\ SameMirror(link, link') /\ link'.resync = link.resync
        /\ link'.acks = link.acks /\ link'.pump.barrier = "Idle" /\ link'.authorised = NoFrame
    BY <1>2, <1>5, DetachedOK
  <1>7. MirrorOK(link', rows, Delivered)
    BY <1>5, <1>6, MirrorSame
  <1>8. LinkInv'
    BY <1>2, <1>6 DEF LinkInv, Occupied
  <1>9. MirrorInv' /\ LogInv'
    BY <1>1, <1>2, <1>4, <1>6, <1>7, MirrorKept, LogKept DEF MirrorInv, LinkOK
  <1>10. ConnInv'
    BY <1>2, <1>3, <1>6 DEF ConnInv
  <1>11. PromiseInv'
    BY <1>1, <1>3, <1>6 DEF PromiseInv, NoFrame, Frame
  <1>12. conn \in Conns /\ downq \in [Conns -> Seq(Frames)] /\ <<>> \in Seq(Frames)
    BY <1>1, <1>3, LinkAssumption DEF ShapeInv, Conns
  <1>13. /\ downq' \in [Conns -> Seq(Frames)] /\ downq'[conn] = <<>>
         /\ \A h \in Conns \ {conn} : downq'[h] = downq[h]
    BY <1>2, <1>12
  <1>14. ASSUME NEW h \in Conns
         PROVE  Carries(h)'
    <2>1. Carries(h)
      BY <1>1 DEF NetInv
    <2>2. downq'[h] = <<>>
      BY <1>13, <2>1 DEF Carries
    <2>3. h # conn'
      BY <1>2 DEF Conns
    <2> QED BY <1>1, <1>2, <1>4, <2>1, <2>2, <2>3, CarriesKept
  <1>15. ShapeInv'
    <2>1. conn' \in 0..dialled'
      BY <1>1, <1>2 DEF ShapeInv
    <2> QED BY <1>1, <1>2, <1>13, <2>1 DEF ShapeInv
  <1>16. DrainInv'
    BY <1>1, <1>2, <1>3, <1>6 DEF DrainInv, SameMirror
  <1> QED BY <1>4, <1>8, <1>9, <1>10, <1>11, <1>14, <1>15, <1>16 DEF IInv, NetInv

\* The worker process dies: the outbox and what is under way stay.
LEMMA CrashStep ==
  ASSUME IInv, WorkerCrash
  PROVE  IInv'
  <1>1. /\ FileInv /\ ShapeInv /\ LogInv /\ ConnInv /\ NetInv
    BY DEF IInv
  <1>2. /\ UNCHANGED <<closed, current, reply, log, refused, dropped, upq, dialled>>
        /\ J!Crash /\ conn' = 0 /\ pc' = "idle" /\ boot' = "waiting" /\ link' = NewLink
        /\ drained' = FALSE /\ changed' = FALSE /\ unnoted' = 0
        /\ downq' = IF conn = 0 THEN downq ELSE [downq EXCEPT ![conn] = <<>>]
    BY DEF WorkerCrash, coordVars, barrierVars
  <1>3. FileInv' /\ rows' = rows /\ snaps' = snaps /\ ~up'
    BY <1>1, <1>2, ProcessStep DEF J!Crash
  <1>4. Settled' = Settled
    BY <1>2 DEF Settled, CommittedSeqs
  <1>5. Grows
    BY <1>1, <1>3, <1>4, StillGrows
  <1>6. rows' \in SUBSET Numbers /\ Delivered' \in SUBSET Numbers
    BY <1>1, <1>3, <1>4, NumberTypes DEF Delivered
  <1>7. /\ LinkOK(NewLink, 0) /\ MirrorOK(NewLink, rows', Delivered')
        /\ NewLink.pump.barrier = "Idle" /\ NewLink.acks = <<>> /\ NewLink.authorised = NoFrame
        /\ NewLink.resync = TRUE
    BY <1>6, NewLinkOK
  <1>8. LinkInv'
    BY <1>2, <1>7 DEF LinkInv, Occupied
  <1>9. MirrorInv' /\ LogInv'
    BY <1>1, <1>2, <1>5, <1>7, LogKept DEF MirrorInv
  <1>10. ConnInv'
    BY <1>2, <1>3, <1>7 DEF ConnInv
  <1>11. PromiseInv'
    <2>1. Members(<<>>) = {}
      BY DEF Members
    <2>2. link'.acks = <<>> /\ link'.authorised = NoFrame
      BY <1>2, <1>7
    <2>3. Members(link'.acks) = {} /\ link'.authorised.kind # "snapshot"
      BY <2>1, <2>2 DEF NoFrame, Frame
    <2> QED BY <2>3 DEF PromiseInv
  <1>12. /\ downq' \in [Conns -> Seq(Frames)]
         /\ \A h \in Conns : downq'[h] = <<>>
    <2>1. \A h \in Conns : h # conn => downq[h] = <<>>
      BY <1>1 DEF NetInv, Carries
    <2>2. downq \in [Conns -> Seq(Frames)] /\ <<>> \in Seq(Frames)
      BY <1>1 DEF ShapeInv
    <2>3. 0 \notin Conns
      BY DEF Conns
    <2>4. CASE conn = 0
      BY <1>2, <2>1, <2>2, <2>3, <2>4
    <2>5. CASE conn # 0
      BY <1>2, <2>1, <2>2, <2>5
    <2> QED BY <2>4, <2>5
  <1>13. ASSUME NEW h \in Conns
         PROVE  Carries(h)'
    <2>1. Carries(h) /\ h # conn'
      BY <1>1, <1>2 DEF NetInv, Conns
    <2> QED BY <1>1, <1>2, <1>5, <1>12, <2>1, CarriesKept
  <1>14. ShapeInv'
    <2>1. conn' \in 0..dialled'
      BY <1>1, <1>2 DEF ShapeInv
    <2> QED BY <1>1, <1>2, <1>12, <2>1 DEF ShapeInv
  <1>15. DrainInv'
    BY <1>2, <1>3 DEF DrainInv
  <1> QED BY <1>3, <1>8, <1>9, <1>10, <1>11, <1>13, <1>14, <1>15 DEF IInv, NetInv

----------------------------------------------------------------------------
(* The steps of the coordinator.                                           *)

\* append_event commits a frame that was under way.
LEMMA LogGrows ==
  ASSUME FileInv, LogInv, log \in Seq(Frames), NEW f \in Frames, FrameOK(f),
         f.kind \in {"event", "snapshot"}, f.seq \notin CommittedSeqs,
         log' = Append(log, f), dropped' = dropped, UNCHANGED journalVars
  PROVE  /\ FileInv' /\ LogInv' /\ Grows /\ log' \in Seq(Frames)
         /\ f.seq \in Settled'
  <1> DEFINE n == f.seq
             k == Len(log)
  <1>1. /\ rows' = rows /\ snaps' = snaps
        /\ UNCHANGED <<watermark, claims, up, issued, reservedThrough, writer, tokens, checked, draws>>
    BY DEF journalVars
  <1>2. k \in Nat /\ Len(log') = k + 1 /\ log'[k + 1] = f /\ \A i \in 1..k : log'[i] = log[i]
    OBVIOUS
  <1>3. log' \in Seq(Frames)
    OBVIOUS
  <1>4. /\ rows \subseteq Numbers /\ snaps \subseteq Numbers /\ Settled \subseteq Numbers
        /\ rows \cap snaps = {}
    BY NumberTypes
  <1>5. n \in Handed /\ (f.kind = "snapshot" <=> n \in snaps)
    BY DEF FrameOK, EventOK, SnapOK, Handed
  <1>6. n \in Numbers /\ \A x \in Numbers : x \in Int
    <2>1. n \in Numbers
      BY <1>5, NumberTypes
    <2>2. \A x \in Numbers : x \in Int
      BY DEF Numbers
    <2> QED BY <2>1, <2>2
  <1> HIDE DEF k
  <1>7. \A i \in 1..Len(log') : i \in 1..k \/ i = k + 1
    BY <1>2
  <1>8. \A i \in 1..k : i \in 1..Len(log')
    BY <1>2
  <1>9. k + 1 \in 1..Len(log')
    BY <1>2
  <1>10. Settled' = Settled \cup {n}
    BY <1>2, <1>7, <1>8, <1>9 DEF Settled, CommittedSeqs, k
  <1>11. Handed' = Handed
    BY <1>1, <1>5, <1>10 DEF Handed
  <1>12. FileInv'
    BY <1>1, <1>11, FileKept
  <1>13. Grows
    BY <1>1, <1>10, StillGrows
  <1>14. \A i \in 1..Len(log') : /\ log'[i].kind \in {"event", "snapshot"}
                                /\ log'[i].kind = "snapshot" <=> log'[i].seq \in snaps
    <2>1. \A i \in 1..k : /\ log[i].kind \in {"event", "snapshot"}
                          /\ log[i].kind = "snapshot" <=> log[i].seq \in snaps
      BY DEF LogInv, k
    <2> QED BY <1>2, <1>5, <1>7, <2>1
  <1>15. ASSUME NEW e \in Delivered', NEW r \in Waiting'
         PROVE  e < r
    <2>1. r \in rows /\ r \notin Settled /\ r # n /\ r \in Waiting /\ r \in Numbers
      BY <1>1, <1>4, <1>10 DEF Waiting
    <2>2. e \in Delivered \/ (e = n /\ n \notin snaps /\ n \notin Settled)
      BY <1>1, <1>10 DEF Delivered
    <2>3. CASE e \in Delivered
      BY <2>1, <2>3 DEF LogInv
    <2>4. CASE e = n /\ n \notin snaps /\ n \notin Settled
      <3>1. EventOK(n)
        BY <1>5, <2>4 DEF FrameOK
      <3>2. n <= r
        BY <2>1, <2>4, <3>1 DEF EventOK
      <3> QED BY <1>6, <2>1, <2>4, <3>2
    <2> QED BY <2>2, <2>3, <2>4
  <1>16. ASSUME NEW i \in 1..Len(log'), log'[i].kind = "snapshot",
                NEW r \in rows \ dropped, r < log'[i].seq
         PROVE  \E j \in 1..i : log'[j].seq = r
    <2>1. CASE i \in 1..k
      <3>1. log[i].kind = "snapshot" /\ r < log[i].seq
        BY <1>2, <1>16, <2>1
      <3>2. PICK j \in 1..i : log[j].seq = r
        BY <2>1, <3>1 DEF LogInv, SnapshotCoversRows, k
      <3>3. j \in 1..k
        BY <1>2, <2>1, <3>2
      <3> QED BY <1>2, <3>2, <3>3
    <2>2. CASE i = k + 1
      <3>1. f.kind = "snapshot" /\ r < n
        BY <1>2, <1>16, <2>2
      <3>2. r \in Settled
        BY <3>1 DEF FrameOK, SnapOK
      <3>3. PICK j \in 1..k : log[j].seq = r
        BY <3>2 DEF Settled, CommittedSeqs, k
      <3>4. j \in 1..i
        BY <1>2, <2>2, <3>3
      <3> QED BY <1>2, <3>3, <3>4
    <2> QED BY <1>7, <2>1, <2>2
  <1>17. SnapshotCoversRows'
    BY <1>1, <1>16 DEF SnapshotCoversRows
  <1>18. Settled' \subseteq Numbers
    BY <1>4, <1>6, <1>10
  <1>19. LogInv'
    BY <1>1, <1>14, <1>15, <1>17, <1>18 DEF LogInv
  <1> QED BY <1>3, <1>10, <1>12, <1>13, <1>19

\* handle_one_durable drops folder metadata that was under way.
LEMMA DropSettles ==
  ASSUME FileInv, LogInv, NEW f \in Frames, FrameOK(f), f.kind = "event", f.seq \in Folder,
         dropped' = dropped \cup {f.seq}, log' = log, UNCHANGED journalVars
  PROVE  FileInv' /\ LogInv' /\ Grows /\ f.seq \in Settled'
  <1> DEFINE n == f.seq
  <1>1. /\ rows' = rows /\ snaps' = snaps
        /\ UNCHANGED <<watermark, claims, up, issued, reservedThrough, writer, tokens, checked,
                       draws>>
    BY DEF journalVars
  <1>2. EventOK(n) /\ n \in Folder
    BY DEF FrameOK
  <1>3. Settled' = Settled \cup {n}
    BY DEF Settled, CommittedSeqs
  <1>4. n \in Handed /\ n \notin snaps
    BY <1>2 DEF EventOK, Handed
  <1>5. n \in Numbers /\ Settled \subseteq Numbers /\ rows \subseteq Numbers
    BY <1>4, NumberTypes
  <1>6. \A x \in Numbers : x \in Int
    BY DEF Numbers
  <1>7. dropped' = dropped \cup {n}
    OBVIOUS
  <1> HIDE DEF n
  <1>8. Handed' = Handed
    BY <1>1, <1>3, <1>4 DEF Handed
  <1>9. FileInv'
    BY <1>1, <1>8, FileKept
  <1>10. Grows
    BY <1>1, <1>3, StillGrows
  <1>11. ASSUME NEW e \in Delivered', NEW r \in Waiting'
         PROVE  e < r
    <2>1. r \in rows /\ r # n /\ r \in Waiting /\ r \in Numbers
      BY <1>1, <1>3, <1>5 DEF Waiting
    <2>2. e \in Delivered \/ (e = n /\ n \notin Settled)
      BY <1>1, <1>3 DEF Delivered
    <2>3. CASE e \in Delivered
      BY <2>1, <2>3 DEF LogInv
    <2>4. CASE e = n /\ n \notin Settled
      <3>1. n <= r
        BY <1>2, <2>1, <2>4 DEF EventOK
      <3> QED BY <1>5, <1>6, <2>1, <2>4, <3>1
    <2> QED BY <2>2, <2>3, <2>4
  <1>12. SnapshotCoversRows'
    <2>1. rows' \ dropped' \subseteq rows \ dropped
      BY <1>1, <1>7
    <2> QED BY <2>1 DEF LogInv, SnapshotCoversRows
  <1>13. dropped' \subseteq Folder /\ dropped' \cap snaps' = {}
    BY <1>1, <1>2, <1>4, <1>7 DEF LogInv
  <1>14. \A i \in 1..Len(log') : /\ log'[i].kind \in {"event", "snapshot"}
                                /\ log'[i].kind = "snapshot" <=> log'[i].seq \in snaps'
    BY <1>1 DEF LogInv
  <1>15. Settled' \subseteq Numbers
    BY <1>3, <1>5
  <1>16. LogInv'
    BY <1>11, <1>12, <1>13, <1>14, <1>15 DEF LogInv
  <1> QED BY <1>3, <1>9, <1>10, <1>16 DEF n

\* A step at the coordinator's end of connection g: what it carries then was
\* carried before, or fits.
LEMMA CarriesWith ==
  ASSUME FileInv, LogInv, ShapeInv, Grows, NEW g \in Conns, Carries(g),
         conn' = conn, dialled' = dialled, link' = link,
         g > dialled => upq'[g] = <<>> /\ reply'[g] = NoFrame,
         g # conn => downq'[g] = <<>>,
         Members(upq'[g]) \subseteq Members(upq[g]),
         reply'[g] # NoFrame =>
            /\ reply'[g].kind \in {"event", "snapshot", "ack"}
            /\ reply'[g] \in Passing(g) \/ (FrameOK(reply[g])' /\ (g = conn => Rides(reply[g])')),
         \A f \in Members(downq'[g]) \ Members(downq[g]) :
            /\ f.kind \in {"helloack", "ack"}
            /\ f \in Passing(g) \/ (FrameOK(f)' /\ (g = conn => Rides(f)'))
  PROVE  Carries(g)'
  <1>1. upq[g] \in Seq(Frames) /\ downq[g] \in Seq(Frames) /\ reply[g] \in Frames
    BY DEF ShapeInv
  <1>2. Passing(g)' = Members(upq'[g]) \cup Members(downq'[g]) \cup ({reply'[g]} \ {NoFrame})
    BY DEF Passing, Members
  <1>3. ASSUME NEW f \in Passing(g)
        PROVE  FrameOK(f)' /\ (g = conn => Rides(f)')
    <2>1. f \in Frames /\ FrameOK(f) /\ (g = conn => Rides(f))
      BY <1>1 DEF Passing, Members, Carries
    <2>2. FrameOK(f)'
      BY <2>1, PromiseKept
    <2>3. g = conn => Rides(f)'
      BY <2>1 DEF Rides, Grows
    <2> QED BY <2>2, <2>3
  <1>4. Members(upq[g]) \subseteq Passing(g) /\ Members(downq[g]) \subseteq Passing(g)
    BY DEF Passing
  <1>5. \A f \in Members(downq'[g]) : f.kind \in {"helloack", "ack"}
    BY DEF Carries
  <1>6. \A f \in Members(upq'[g]) : f.kind \in {"hello", "event", "snapshot"}
    BY DEF Carries
  <1>7. \A f \in Members(upq'[g]) \cup Members(downq'[g]) : FrameOK(f)' /\ (g = conn => Rides(f)')
    BY <1>3, <1>4
  <1>8. ASSUME NEW f, f = reply'[g], f # NoFrame
        PROVE  FrameOK(f)' /\ (g = conn => Rides(f)')
    <2>1. CASE f \in Passing(g)
      BY <1>3, <2>1
    <2>2. CASE f \notin Passing(g)
      <3>1. FrameOK(reply[g])' /\ (g = conn => Rides(reply[g])')
        BY <1>8, <2>2
      <3> QED BY <1>8, <3>1 DEF FrameOK, Rides
    <2> QED BY <2>1, <2>2
  <1>9. \A f \in Passing(g)' : FrameOK(f)' /\ (g = conn => Rides(f)')
    BY <1>2, <1>7, <1>8
  <1>10. reply'[g] # NoFrame => reply'[g].kind \in {"event", "snapshot", "ack"}
    OBVIOUS
  <1> QED BY <1>5, <1>6, <1>9, <1>10 DEF Carries, Members

\* The other connections are left alone.
LEMMA OthersCarry ==
  ASSUME FileInv, LogInv, ShapeInv, NetInv, Grows, NEW g \in Conns, Carries(g)',
         conn' = conn, dialled' = dialled, link' = link,
         \A h \in Conns \ {g} : upq'[h] = upq[h] /\ downq'[h] = downq[h] /\ reply'[h] = reply[h]
  PROVE  NetInv'
  <1>1. ASSUME NEW h \in Conns, h # g
        PROVE  Carries(h)'
    <2>1. Carries(h)
      BY DEF NetInv
    <2>2. upq'[h] = upq[h] /\ downq'[h] = downq[h] /\ reply'[h] = reply[h]
      BY <1>1
    <2>3. Passing(h)' = Passing(h)
      BY <2>2 DEF Passing, Members
    <2>4. h = conn' => \A f \in Passing(h)' : Rides(f)'
      BY <2>1, <2>3 DEF Carries, Rides, Grows
    <2>5. h # conn' => downq'[h] = <<>>
      BY <2>1, <2>2 DEF Carries
    <2> QED BY <2>1, <2>2, <2>4, <2>5, CarriesKept
  <1> QED BY <1>1 DEF NetInv

\* A step of the coordinator leaves the worker alone and puts no more on its
\* connection than there was.
LEMMA CoordStep ==
  ASSUME IInv, FileInv', LogInv', ShapeInv', NetInv', Grows, Occupied' \in {0, Occupied},
         UNCHANGED <<journalVars, link, pc, deliveryVars, conn>>
  PROVE  IInv'
  <1>1. /\ FileInv /\ ShapeInv /\ LinkInv /\ MirrorInv /\ LogInv /\ PromiseInv /\ ConnInv /\ DrainInv
    BY DEF IInv
  <1>2. UNCHANGED <<link, pc, changed, drained, unnoted, conn, rows, snaps, up>>
    BY DEF deliveryVars, journalVars
  <1>3. LinkInv'
    <2>1. LinkOK(link, Occupied) /\ Occupied \in {0, 1}
      BY <1>1 DEF LinkInv, LinkOK
    <2>2. LinkOK(link, Occupied')
      BY <2>1, ReadOne
    <2> QED BY <1>2, <2>2 DEF LinkInv
  <1>4. MirrorInv'
    BY <1>1, <1>2, MirrorKept DEF MirrorInv, LinkInv, LinkOK
  <1>5. ConnInv'
    BY <1>1, <1>2 DEF ConnInv
  <1>6. PromiseInv'
    BY <1>1, <1>2 DEF PromiseInv, SnapOK, Grows
  <1>7. DrainInv'
    BY <1>1, <1>2 DEF DrainInv
  <1> QED BY <1>3, <1>4, <1>5, <1>6, <1>7 DEF IInv

Held(g) == IF Busy(g) THEN 1 ELSE 0
Load(g) == Len(upq[g]) + Len(downq[g]) + Held(g)

\* The worker's connection carries no more than it did.
LEMMA NotMore ==
  ASSUME ShapeInv, ShapeInv', LinkInv, conn' = conn, \A h \in Conns : Load(h)' <= Load(h)
  PROVE  Occupied' \in {0, Occupied}
  <1>1. CASE conn = 0
    BY <1>1 DEF Occupied
  <1>2. CASE conn # 0
    <2>1. conn \in Conns
      BY <1>2, LinkAssumption DEF ShapeInv, Conns
    <2>2. Occupied = Load(conn) /\ Occupied' = Load(conn)' /\ Occupied \in {0, 1}
      BY <1>2 DEF Occupied, Load, Held, LinkInv, LinkOK
    <2>3. upq'[conn] \in Seq(Frames) /\ downq'[conn] \in Seq(Frames)
      BY <2>1 DEF ShapeInv
    <2>4. Len(upq'[conn]) \in Nat /\ Len(downq'[conn]) \in Nat
      BY <2>3
    <2>5. PICK a \in Nat, b \in Nat : a = Len(upq'[conn]) /\ b = Len(downq'[conn])
      BY <2>4
    <2>6. Load(conn)' = a + b + (IF Busy(conn)' THEN 1 ELSE 0)
      BY <2>5 DEF Load, Held, Busy
    <2>7. Load(conn)' \in Nat
      <3>1. PICK c \in Int : c = IF Busy(conn)' THEN 1 ELSE 0
        BY DEF Busy
      <3>2. Load(conn)' = a + b + c
        BY <2>6, <3>1
      <3>3. c >= 0
        BY <3>1
      <3>4. a + b + c \in Nat
        BY <3>3
      <3> QED BY <3>2, <3>4
    <2>8. Load(conn)' <= Load(conn)
      BY <2>1
    <2> QED BY <2>2, <2>7, <2>8
  <1> QED BY <1>1, <1>2

\* The coordinator reads a frame and is done with it: it answers at once, or not
\* at all.
LEMMA TakenStep ==
  ASSUME IInv, NEW g \in Conns, upq[g] # <<>>, FileInv', LogInv', Grows,
         NEW answer \in Frames, answer.kind \in {"helloack", "ack"},
         UNCHANGED <<journalVars, link, pc, deliveryVars, boot, conn, dialled, closed, reply, log>>,
         current' \in 0..dialled, refused' \subseteq 1..dialled,
         upq' = [upq EXCEPT ![g] = Tail(upq[g])],
         \/ downq' = downq
         \/ /\ conn = g /\ FrameOK(answer)' /\ Rides(answer)'
            /\ downq' = [downq EXCEPT ![g] = Append(downq[g], answer)]
  PROVE  IInv'
  <1>1. /\ FileInv /\ ShapeInv /\ LinkInv /\ LogInv /\ NetInv
    BY DEF IInv
  <1> DEFINE a == upq[g]
             b == downq[g]
  <1>2. a \in Seq(Frames) /\ b \in Seq(Frames) /\ reply[g] \in Frames /\ a # <<>> /\ Carries(g)
    BY <1>1 DEF ShapeInv, NetInv
  <1>3. /\ UNCHANGED <<journalVars, link, pc, deliveryVars, boot, conn, dialled, closed, reply, log>>
        /\ upq' = [upq EXCEPT ![g] = Tail(a)]
    OBVIOUS
  <1>4. /\ Members(Tail(a)) \subseteq Members(a)
        /\ Tail(a) \in Seq(Frames) /\ Len(Tail(a)) = Len(a) - 1 /\ Len(a) \in Nat /\ Len(b) \in Nat
    <2> HIDE DEF a, b
    <2>1. Len(b) \in Nat
      BY <1>2
    <2> QED BY <1>2, <2>1, MembersTail
  <1>5. g <= dialled /\ dialled \in Nat /\ g \in 0..dialled
    BY <1>1, <1>2 DEF Carries, ShapeInv, Conns
  <1>6. upq \in [Conns -> Seq(Frames)] /\ downq \in [Conns -> Seq(Frames)]
    BY <1>1 DEF ShapeInv
  <1>7. \/ downq' = downq
        \/ /\ conn = g /\ FrameOK(answer)' /\ Rides(answer)'
           /\ downq' = [downq EXCEPT ![g] = Append(b, answer)]
    OBVIOUS
  <1> HIDE DEF a, b
  <1>8. /\ upq' \in [Conns -> Seq(Frames)] /\ upq'[g] = Tail(a)
        /\ \A h \in Conns \ {g} : upq'[h] = upq[h]
    BY <1>3, <1>4, <1>6
  <1>9. /\ Append(b, answer) \in Seq(Frames) /\ Len(Append(b, answer)) = Len(b) + 1
        /\ Members(Append(b, answer)) = Members(b) \cup {answer}
    <2>1. b \in Seq(Frames)
      BY <1>2
    <2>2. Append(b, answer) \in Seq(Frames) /\ Len(Append(b, answer)) = Len(b) + 1
      BY <2>1
    <2> QED BY <2>1, <2>2, MembersAppend
  <1>10. /\ downq' \in [Conns -> Seq(Frames)]
         /\ \A h \in Conns \ {g} : downq'[h] = downq[h]
         /\ \/ downq'[g] = b
            \/ conn = g /\ FrameOK(answer)' /\ Rides(answer)' /\ downq'[g] = Append(b, answer)
    <2>1. CASE downq' = downq
      BY <1>6, <2>1 DEF b
    <2>2. CASE downq' # downq
      BY <1>6, <1>7, <1>9, <2>2
    <2> QED BY <2>1, <2>2
  <1>11. ShapeInv'
    BY <1>1, <1>3, <1>5, <1>8, <1>10 DEF ShapeInv, deliveryVars
  <1>12. \A x \in Members(downq'[g]) \ Members(downq[g]) :
           /\ x.kind \in {"helloack", "ack"}
           /\ x \in Passing(g) \/ (FrameOK(x)' /\ (g = conn => Rides(x)'))
    <2>1. CASE downq'[g] = b
      BY <2>1 DEF b
    <2>2. CASE downq'[g] # b
      <3>1. \A x \in Members(downq'[g]) \ Members(downq[g]) : x = answer
        BY <1>9, <1>10, <2>2 DEF b
      <3> QED BY <1>10, <2>2, <3>1
    <2> QED BY <2>1, <2>2
  <1>13. Carries(g)'
    <2>1. g # conn => downq'[g] = <<>>
      BY <1>2, <1>10 DEF Carries, b
    <2>2. ~(g > dialled)
      BY <1>5 DEF Conns
    <2>3. Members(upq'[g]) \subseteq Members(upq[g])
      BY <1>4, <1>8 DEF a
    <2>4. reply'[g] # NoFrame =>
             reply'[g].kind \in {"event", "snapshot", "ack"} /\ reply'[g] \in Passing(g)
      BY <1>2, <1>3 DEF Carries, Passing
    <2> QED BY <1>1, <1>2, <1>3, <1>12, <2>1, <2>2, <2>3, <2>4, CarriesWith
  <1>14. NetInv'
    BY <1>1, <1>3, <1>8, <1>10, <1>13, OthersCarry
  <1>15. \A h \in Conns : Load(h)' <= Load(h)
    <2>1. Load(g) \in Int /\ Load(g)' <= Load(g)
      <3>1. Load(g) = Len(a) + Len(b) + (IF Busy(g) THEN 1 ELSE 0) /\ Busy(g)' = Busy(g)
        BY <1>3 DEF Load, Held, Busy, a, b
      <3>2. Load(g)' = Len(upq'[g]) + Len(downq'[g]) + (IF Busy(g)' THEN 1 ELSE 0)
        BY DEF Load, Held, Busy
      <3>3. Len(upq'[g]) = Len(a) - 1 /\ (Len(downq'[g]) = Len(b) \/ Len(downq'[g]) = Len(b) + 1)
        BY <1>4, <1>8, <1>9, <1>10
      <3>4. PICK c \in Int : c = IF Busy(g) THEN 1 ELSE 0
        OBVIOUS
      <3>5. Load(g) = Len(a) + Len(b) + c /\ Load(g)' = Len(upq'[g]) + Len(downq'[g]) + c
        BY <3>1, <3>2, <3>4
      <3>6. PICK x \in Int, y \in Int, v \in Int :
               /\ v = y \/ v = y + 1
               /\ Load(g) = x + y + c /\ Load(g)' = (x - 1) + v + c
        <4>1. Len(a) \in Int /\ Len(b) \in Int /\ Len(downq'[g]) \in Int
          <5>1. downq'[g] \in Seq(Frames)
            BY <1>10
          <5>2. Len(downq'[g]) \in Nat
            BY <5>1
          <5> QED BY <1>4, <5>2
        <4>2. Load(g)' = (Len(a) - 1) + Len(downq'[g]) + c
          BY <3>3, <3>5
        <4> QED BY <3>3, <3>5, <4>1, <4>2
      <3>7. x + y + c \in Int /\ (x - 1) + v + c <= x + y + c
        BY <3>6
      <3> QED BY <3>6, <3>7
    <2>2. ASSUME NEW h \in Conns, h # g
          PROVE  Load(h)' <= Load(h)
      <3>1. Len(upq[h]) \in Nat /\ Len(downq[h]) \in Nat
        <4>1. upq[h] \in Seq(Frames) /\ downq[h] \in Seq(Frames)
          BY <1>6
        <4> QED BY <4>1
      <3>2. Load(h)' = Load(h)
        BY <1>3, <1>8, <1>10, <2>2 DEF Load, Held, Busy
      <3>3. Load(h) \in Int
        BY <3>1 DEF Load, Held
      <3> QED BY <3>2, <3>3
    <2> QED BY <2>1, <2>2
  <1>16. Occupied' \in {0, Occupied}
    BY <1>1, <1>3, <1>11, <1>15, NotMore
  <1> QED BY <1>3, <1>11, <1>14, <1>16, CoordStep

\* The coordinator reads a frame: the hello, which it answers, or an event or
\* a snapshot, which it holds until it is committed.
LEMMA CoordReadStep ==
  ASSUME IInv, NEW g \in Conns, CoordHello(g) \/ CoordRead(g)
  PROVE  IInv'
  <1>1. /\ FileInv /\ ShapeInv /\ LinkInv /\ LogInv /\ NetInv
    BY DEF IInv
  <1> DEFINE a == upq[g]
             b == downq[g]
             f == Head(a)
  <1>2. a \in Seq(Frames) /\ b \in Seq(Frames) /\ reply[g] \in Frames /\ a # <<>> /\ Carries(g)
    BY <1>1 DEF ShapeInv, NetInv, CoordHello, CoordRead, Reads
  <1>3. /\ UNCHANGED <<journalVars, link, pc, deliveryVars, boot, conn, dialled, closed, log,
                       refused, dropped>>
        /\ upq' = [upq EXCEPT ![g] = Tail(a)]
    BY DEF CoordHello, CoordRead, Reads, worker, barrierVars
  <1>4. /\ Members(Tail(a)) \subseteq Members(a) /\ f \in Members(a) /\ f \in Frames
        /\ Tail(a) \in Seq(Frames) /\ Len(Tail(a)) = Len(a) - 1 /\ Len(a) \in Nat /\ Len(b) \in Nat
    <2> HIDE DEF a, b
    <2>1. Len(b) \in Nat
      BY <1>2
    <2> QED BY <1>2, <2>1, MembersTail
  <1>5. /\ rows' = rows /\ snaps' = snaps /\ Settled' = Settled /\ Handed' = Handed
    BY <1>3 DEF Settled, CommittedSeqs, Handed, journalVars
  <1>6. FileInv' /\ Grows
    BY <1>1, <1>3, <1>5, FileKept, StillGrows DEF journalVars
  <1>7. LogInv'
    BY <1>1, <1>3, <1>6, LogKept
  <1>8. g <= dialled /\ dialled \in Nat /\ g \in 0..dialled
    BY <1>1, <1>2 DEF Carries, ShapeInv, Conns
  <1>9. f \in Passing(g) /\ FrameOK(f) /\ (g = conn => Rides(f))
    BY <1>2, <1>4 DEF Passing, Carries
  <1>10. upq \in [Conns -> Seq(Frames)] /\ downq \in [Conns -> Seq(Frames)] /\ reply \in [Conns -> Frames]
    BY <1>1 DEF ShapeInv
  <1> HIDE DEF a, b, f
  <1>11. /\ upq' \in [Conns -> Seq(Frames)] /\ upq'[g] = Tail(a)
         /\ \A h \in Conns \ {g} : upq'[h] = upq[h]
    BY <1>3, <1>4, <1>10
  <1>12. CASE CoordHello(g)
    <2> DEFINE answer == Frame("helloack", None)
    <2>1. /\ current' = g /\ reply' = reply /\ f.kind = "hello"
          /\ downq' = IF conn = g THEN [downq EXCEPT ![g] = Append(downq[g], answer)] ELSE downq
          /\ upq' = [upq EXCEPT ![g] = Tail(upq[g])] /\ upq[g] # <<>>
      BY <1>12 DEF CoordHello, f, a
    <2>2. answer \in Frames /\ answer.kind = "helloack"
      BY LinkAssumption DEF Frame, Frames, None
    <2> HIDE DEF answer
    <2>3. ASSUME g = conn
          PROVE  FrameOK(answer)' /\ Rides(answer)'
      <3>1. link.pump.barrier = "Open"
        BY <1>9, <2>1, <2>3 DEF Rides
      <3> QED BY <1>3, <2>2, <3>1 DEF FrameOK, Rides
    <2>4. \/ downq' = downq
          \/ /\ conn = g /\ FrameOK(answer)' /\ Rides(answer)'
             /\ downq' = [downq EXCEPT ![g] = Append(downq[g], answer)]
      BY <2>1, <2>3
    <2>5. current' \in 0..dialled /\ refused' \subseteq 1..dialled
      BY <1>1, <1>3, <1>8, <2>1 DEF ShapeInv
    <2> QED BY <1>3, <1>6, <1>7, <2>1, <2>2, <2>4, <2>5, TakenStep
  <1>13. CASE CoordRead(g)
    <2>1. /\ current' = current /\ ~Busy(g) /\ f.kind \in {"event", "snapshot"} /\ downq' = downq
          /\ reply' = [reply EXCEPT ![g] = f]
      BY <1>13 DEF CoordRead, Reads, f, a
    <2>2. /\ reply' \in [Conns -> Frames] /\ reply'[g] = f
          /\ \A h \in Conns \ {g} : reply'[h] = reply[h]
      BY <1>4, <1>10, <2>1
    <2>3. ShapeInv'
      BY <1>1, <1>3, <1>11, <2>1, <2>2 DEF ShapeInv, deliveryVars
    <2>4. Carries(g)'
      <3>1. g # conn => downq'[g] = <<>>
        BY <1>2, <2>1 DEF Carries
      <3>2. ~(g > dialled)
        BY <1>8 DEF Conns
      <3>3. Members(upq'[g]) \subseteq Members(upq[g]) /\ Members(downq'[g]) \ Members(downq[g]) = {}
        BY <1>4, <1>11, <2>1 DEF a
      <3>4. reply'[g].kind \in {"event", "snapshot", "ack"} /\ reply'[g] \in Passing(g)
        BY <1>9, <2>1, <2>2
      <3> QED BY <1>1, <1>2, <1>3, <1>6, <3>1, <3>2, <3>3, <3>4, CarriesWith
    <2>5. NetInv'
      BY <1>1, <1>3, <1>6, <1>11, <2>1, <2>2, <2>4, OthersCarry
    <2>6. \A h \in Conns : Load(h)' <= Load(h)
      <3>1. Load(g) \in Int /\ Load(g)' <= Load(g)
        <4>1. Load(g) = Len(a) + Len(b) + 0
          BY <2>1 DEF Load, Held, a, b
        <4>2. Load(g)' = (Len(a) - 1) + Len(b) + (IF Busy(g)' THEN 1 ELSE 0)
          BY <1>4, <1>11, <2>1 DEF Load, Held, Busy, b
        <4> QED BY <1>4, <4>1, <4>2
      <3>2. ASSUME NEW h \in Conns, h # g
            PROVE  Load(h)' <= Load(h)
        <4>1. Len(upq[h]) \in Nat /\ Len(downq[h]) \in Nat
          <5>1. upq[h] \in Seq(Frames) /\ downq[h] \in Seq(Frames)
            BY <1>10
          <5> QED BY <5>1
        <4>2. Load(h)' = Load(h)
          BY <1>11, <2>1, <2>2, <3>2 DEF Load, Held, Busy
        <4>3. Load(h) \in Int
          BY <4>1 DEF Load, Held
        <4> QED BY <4>2, <4>3
      <3> QED BY <3>1, <3>2
    <2>7. Occupied' \in {0, Occupied}
      BY <1>1, <1>3, <2>3, <2>6, NotMore
    <2> QED BY <1>3, <1>6, <1>7, <2>3, <2>5, <2>7, CoordStep
  <1> QED BY <1>12, <1>13

\* The coordinator reads a frame it does not append: folder metadata before the
\* barrier, which it acknowledges, or a frame it leaves unanswered.
LEMMA CoordDropStep ==
  ASSUME IInv, NEW g \in Conns, CoordDrop(g) \/ CoordRefuse(g)
  PROVE  IInv'
  <1>1. FileInv /\ ShapeInv /\ LogInv /\ NetInv
    BY DEF IInv
  <1>2. PICK f : f = Head(upq[g])
    OBVIOUS
  <1>3. PICK answer : answer = Frame("ack", f.seq)
    OBVIOUS
  <1>4. /\ UNCHANGED <<journalVars, link, pc, deliveryVars, boot, conn, dialled, closed, current,
                       reply, log>>
        /\ upq' = [upq EXCEPT ![g] = Tail(upq[g])] /\ upq[g] # <<>>
        /\ f.kind \in {"event", "snapshot"}
    BY <1>2 DEF CoordDrop, CoordRefuse, Reads, worker, workerAside
  <1>5. upq[g] \in Seq(Frames) /\ Carries(g)
    BY <1>1 DEF ShapeInv, NetInv
  <1>6. f \in Members(upq[g]) /\ f \in Frames
    BY <1>2, <1>4, <1>5, MembersTail
  <1>7. FrameOK(f) /\ (g = conn => Rides(f))
    BY <1>5, <1>6 DEF Passing, Carries
  <1>8. g \in 1..dialled /\ current' \in 0..dialled
    <2>1. g <= dialled /\ dialled \in Nat /\ g \in Nat /\ g >= 1
      BY <1>1, <1>4, <1>5 DEF Carries, ShapeInv, Conns
    <2> QED BY <1>1, <1>4, <2>1 DEF ShapeInv
  <1>9. answer \in Frames /\ answer.kind = "ack" /\ answer.seq = f.seq
    BY <1>3, <1>6 DEF Frame, Frames
  <1>10. CASE CoordDrop(g)
    <2>1. /\ f.kind = "event" /\ f.seq \in Folder /\ dropped' = dropped \cup {f.seq}
          /\ refused' = refused
          /\ downq' = IF conn = g THEN [downq EXCEPT ![g] = Append(downq[g], answer)] ELSE downq
      BY <1>2, <1>3, <1>4, <1>10 DEF CoordDrop, MayCrossBarrier
    <2>2. FileInv' /\ LogInv' /\ Grows /\ f.seq \in Settled'
      BY <1>1, <1>4, <1>6, <1>7, <2>1, DropSettles
    <2>3. FrameOK(answer)'
      BY <1>9, <2>2 DEF FrameOK
    <2>4. g = conn => Rides(answer)'
      BY <1>4, <1>7, <1>9, <2>1, <2>2 DEF Rides, Grows
    <2>5. \/ downq' = downq
          \/ /\ conn = g /\ FrameOK(answer)' /\ Rides(answer)'
             /\ downq' = [downq EXCEPT ![g] = Append(downq[g], answer)]
      BY <2>1, <2>3, <2>4
    <2>6. refused' \subseteq 1..dialled
      BY <1>1, <2>1 DEF ShapeInv
    <2> QED BY <1>4, <1>8, <1>9, <2>2, <2>5, <2>6, TakenStep
  <1>11. CASE CoordRefuse(g)
    <2>1. downq' = downq /\ dropped' = dropped /\ refused' = refused \cup {g}
      BY <1>11 DEF CoordRefuse, Refuses
    <2>2. /\ rows' = rows /\ snaps' = snaps /\ Settled' = Settled /\ Handed' = Handed
      BY <1>4, <2>1 DEF Settled, CommittedSeqs, Handed, journalVars
    <2>3. FileInv' /\ Grows
      BY <1>1, <1>4, <2>2, FileKept, StillGrows DEF journalVars
    <2>4. LogInv'
      BY <1>1, <1>4, <2>1, <2>3, LogKept
    <2>5. refused' \subseteq 1..dialled
      BY <1>1, <1>8, <2>1 DEF ShapeInv
    <2> QED BY <1>4, <1>8, <1>9, <2>1, <2>3, <2>4, <2>5, TakenStep
  <1> QED BY <1>10, <1>11

\* A step that answers or drops what the coordinator holds of connection g, and
\* reads nothing.
LEMMA ReplyTaken ==
  ASSUME IInv, NEW g \in Conns, FileInv', LogInv', ShapeInv', Grows,
         UNCHANGED <<journalVars, link, pc, deliveryVars, conn, dialled, upq>>,
         \A h \in Conns \ {g} : downq'[h] = downq[h] /\ reply'[h] = reply[h],
         downq'[g] = downq[g], Busy(g), Carries(g)'
  PROVE  IInv'
  <1>1. FileInv /\ ShapeInv /\ LinkInv /\ LogInv /\ NetInv
    BY DEF IInv
  <1>2. NetInv'
    BY <1>1, OthersCarry
  <1>3. ASSUME NEW h \in Conns
        PROVE  Load(h)' <= Load(h)
    <2>1. upq[h] \in Seq(Frames) /\ downq[h] \in Seq(Frames)
      BY <1>1 DEF ShapeInv
    <2>2. Len(upq[h]) \in Nat /\ Len(downq[h]) \in Nat
      BY <2>1
    <2>3. Held(h) \in {0, 1} /\ Held(h)' \in {0, 1}
      BY DEF Held, Busy
    <2>4. Held(h)' = Held(h) \/ Held(h) = 1
      <3>1. CASE h = g
        BY <3>1 DEF Held
      <3>2. CASE h # g
        BY <3>2 DEF Held, Busy
      <3> QED BY <3>1, <3>2
    <2>5. /\ Load(h) = Len(upq[h]) + Len(downq[h]) + Held(h)
          /\ Load(h)' = Len(upq[h]) + Len(downq[h]) + Held(h)'
      <3>1. upq'[h] = upq[h] /\ downq'[h] = downq[h]
        OBVIOUS
      <3> QED BY <3>1 DEF Load
    <2>6. PICK x \in Int, y \in Int, c \in Int, d \in Int :
             Load(h) = x + y + c /\ Load(h)' = x + y + d /\ d <= c
      <3>1. Held(h) \in Int /\ Held(h)' \in Int /\ Held(h)' <= Held(h)
        BY <2>3, <2>4
      <3>2. Len(upq[h]) \in Int /\ Len(downq[h]) \in Int
        BY <2>2
      <3> QED BY <2>5, <3>1, <3>2, Zenon
    <2>7. x + y + d <= x + y + c
      BY <2>6
    <2> QED BY <2>6, <2>7
  <1>4. Occupied' \in {0, Occupied}
    BY <1>1, <1>3, NotMore
  <1> QED BY <1>2, <1>4, CoordStep

\* append_event: the frame is committed or already was; or is not admitted; or it
\* fails, before or after its commit.
LEMMA CoordAppendStep ==
  ASSUME IInv, NEW g \in Conns, CoordAppend(g) \/ CoordNotAdmitted(g) \/ CoordAppendFailed(g)
  PROVE  IInv'
  <1>1. FileInv /\ ShapeInv /\ LinkInv /\ LogInv /\ NetInv
    BY DEF IInv
  <1>2. PICK f : f = reply[g]
    OBVIOUS
  <1>3. PICK a : a = Frame("ack", f.seq)
    OBVIOUS
  <1>4. /\ UNCHANGED <<journalVars, link, pc, deliveryVars, boot, conn, dialled, upq, downq>>
        /\ Busy(g) /\ f.kind \in {"event", "snapshot"}
        /\ reply' = [reply EXCEPT ![g] = a] \/ reply' = [reply EXCEPT ![g] = NoFrame]
        /\ reply' = [reply EXCEPT ![g] = a] =>
              f.seq \in Settled \/ log' = Append(log, f) \/ a = NoFrame
        /\ log' = log \/ (f.seq \notin CommittedSeqs /\ log' = Append(log, f))
        /\ dropped' = dropped /\ refused' \subseteq refused \cup {g}
        /\ \/ closed' = closed /\ current' = current
           \/ closed' = closed \cup {g} /\ current' \in {0, current}
    <2>1. CASE CoordAppend(g)
      BY <1>2, <1>3, <2>1 DEF CoordAppend, worker, netVars, barrierVars, Settled
    <2>2. CASE CoordAppendFailed(g)
      <3>1. f.seq \in Settled \/ log' = Append(log, f) \/ a = NoFrame
            \/ reply' # [reply EXCEPT ![g] = a]
        <4>1. a # NoFrame
          BY <1>3 DEF Frame, NoFrame
        <4>2. reply' = [reply EXCEPT ![g] = NoFrame] /\ reply \in [Conns -> Frames]
          BY <1>1, <2>2 DEF CoordAppendFailed, ShapeInv
        <4>3. reply'[g] = NoFrame /\ [reply EXCEPT ![g] = a][g] = a
          BY <4>2
        <4> QED BY <4>1, <4>3
      <3> QED BY <1>2, <2>2, <3>1 DEF CoordAppendFailed, worker, netVars, barrierVars
    <2>3. CASE CoordNotAdmitted(g)
      <3>1. reply' # [reply EXCEPT ![g] = a]
        <4>1. a # NoFrame
          BY <1>3 DEF Frame, NoFrame
        <4>2. reply' = [reply EXCEPT ![g] = NoFrame] /\ reply \in [Conns -> Frames]
          BY <1>1, <2>3 DEF CoordNotAdmitted, ShapeInv
        <4>3. reply'[g] = NoFrame /\ [reply EXCEPT ![g] = a][g] = a
          BY <4>2
        <4> QED BY <4>1, <4>3
      <3> QED BY <1>2, <2>3, <3>1 DEF CoordNotAdmitted, Refuses, workerAside, netVars
    <2> QED BY <2>1, <2>2, <2>3
  <1>5. reply \in [Conns -> Frames] /\ f \in Frames /\ f # NoFrame /\ Carries(g)
        /\ log \in Seq(Frames)
    BY <1>1, <1>2, <1>4 DEF ShapeInv, NetInv, Busy
  <1>6. f \in Passing(g) /\ FrameOK(f) /\ (g = conn => Rides(f))
    BY <1>2, <1>5 DEF Passing, Carries
  <1>7. FileInv' /\ LogInv' /\ Grows /\ log' \in Seq(Frames)
        /\ (log' = Append(log, f) => f.seq \in Settled')
    <2>1. CASE log' = log
      <3>1. /\ rows' = rows /\ snaps' = snaps /\ Settled' = Settled
            /\ Handed' = Handed
        BY <1>4, <2>1 DEF Settled, CommittedSeqs, Handed, journalVars
      <3>2. FileInv' /\ Grows
        BY <1>1, <1>4, <3>1, FileKept, StillGrows DEF journalVars
      <3>3. LogInv'
        BY <1>1, <1>4, <2>1, <3>2, LogKept
      <3>4. log # Append(log, f)
        <4>1. Len(Append(log, f)) = Len(log) + 1 /\ Len(log) \in Nat
          BY <1>5
        <4> QED BY <4>1
      <3> QED BY <1>5, <2>1, <3>2, <3>3, <3>4
    <2>2. CASE f.seq \notin CommittedSeqs /\ log' = Append(log, f)
      BY <1>1, <1>4, <1>5, <1>6, <2>2, LogGrows
    <2> QED BY <1>4, <2>1, <2>2
  <1>8. a \in Frames /\ a.kind = "ack" /\ a.seq = f.seq /\ a # NoFrame /\ NoFrame \in Frames
    BY <1>3, <1>5, LinkAssumption DEF Frame, Frames, NoFrame, None
  <1>9. /\ reply' \in [Conns -> Frames] /\ reply'[g] \in {a, NoFrame}
        /\ \A h \in Conns \ {g} : reply'[h] = reply[h]
    BY <1>4, <1>5, <1>8
  <1>10. g <= dialled /\ dialled \in Nat /\ g \in 1..dialled
    BY <1>1, <1>2, <1>5 DEF Carries, ShapeInv, Conns
  <1>11. ShapeInv'
    <2>1. closed \subseteq 1..dialled /\ current \in 0..dialled /\ 0 \in 0..dialled
      BY <1>1, <1>10 DEF ShapeInv
    <2>2. current' \in 0..dialled /\ closed' \subseteq 1..dialled /\ dialled' = dialled
          /\ refused' \subseteq 1..dialled
      BY <1>1, <1>4, <1>10, <2>1 DEF ShapeInv
    <2> QED BY <1>1, <1>4, <1>7, <2>2, <1>9, <2>1 DEF ShapeInv, deliveryVars
  <1>12. ASSUME reply'[g] = a
         PROVE  FrameOK(a)' /\ (g = conn => Rides(a)')
    <2>1. f.seq \in Settled'
      <3>1. reply' = [reply EXCEPT ![g] = a]
        <4>1. [reply EXCEPT ![g] = NoFrame][g] = NoFrame
          BY <1>5
        <4> QED BY <1>4, <1>8, <1>12, <4>1
      <3> QED BY <1>4, <1>7, <1>8, <3>1 DEF Grows
    <2>2. FrameOK(a)'
      BY <1>8, <2>1 DEF FrameOK
    <2>3. g = conn => Rides(a)'
      BY <1>4, <1>6, <1>7, <1>8 DEF Rides, Grows
    <2> QED BY <2>2, <2>3
  <1>13. Carries(g)'
    <2>1. g # conn => downq'[g] = <<>>
      BY <1>4, <1>5 DEF Carries
    <2>2. ~(g > dialled)
      BY <1>10 DEF Conns
    <2>3. Members(upq'[g]) \subseteq Members(upq[g]) /\ Members(downq'[g]) \ Members(downq[g]) = {}
      BY <1>4
    <2>4. reply'[g] # NoFrame =>
            /\ reply'[g].kind \in {"event", "snapshot", "ack"}
            /\ FrameOK(reply[g])' /\ (g = conn => Rides(reply[g])')
      BY <1>8, <1>9, <1>12 DEF FrameOK, Rides
    <2> QED BY <1>1, <1>4, <1>5, <1>7, <2>1, <2>2, <2>3, <2>4, CarriesWith
  <1> QED BY <1>4, <1>7, <1>9, <1>11, <1>13, ReplyTaken

\* after_append: the acknowledgement goes to the worker or is dropped.
LEMMA CoordReplyStep ==
  ASSUME IInv, NEW g \in Conns, CoordReply(g)
  PROVE  IInv'
  <1>1. FileInv /\ ShapeInv /\ LinkInv /\ LogInv /\ NetInv
    BY DEF IInv
  <1>2. PICK f : f = reply[g]
    OBVIOUS
  <1>3. PICK b : b = downq[g]
    OBVIOUS
  <1>4. /\ UNCHANGED <<journalVars, link, pc, deliveryVars, boot, conn, dialled, upq, closed,
                       current, log, refused, dropped>>
        /\ Busy(g) /\ f.kind = "ack" /\ reply' = [reply EXCEPT ![g] = NoFrame]
        /\ downq' = downq \/ (conn = g /\ downq' = [downq EXCEPT ![g] = Append(b, f)])
    BY <1>2, <1>3 DEF CoordReply, worker
  <1>5. /\ reply \in [Conns -> Frames] /\ downq \in [Conns -> Seq(Frames)] /\ f \in Frames
        /\ f # NoFrame /\ NoFrame \in Frames /\ b \in Seq(Frames) /\ Carries(g)
    <2>1. NoFrame \in Frames
      BY LinkAssumption DEF NoFrame, Frame, Frames, None
    <2> QED BY <1>1, <1>2, <1>3, <1>4, <2>1 DEF ShapeInv, NetInv, Busy
  <1>6. f \in Passing(g)
    BY <1>2, <1>5 DEF Passing
  <1>7. /\ rows' = rows /\ snaps' = snaps /\ Settled' = Settled /\ Handed' = Handed
    BY <1>4 DEF Settled, CommittedSeqs, Handed, journalVars
  <1>8. FileInv' /\ Grows
    BY <1>1, <1>4, <1>7, FileKept, StillGrows DEF journalVars
  <1>9. LogInv'
    BY <1>1, <1>4, <1>8, LogKept
  <1>10. /\ reply' \in [Conns -> Frames] /\ reply'[g] = NoFrame
         /\ \A h \in Conns \ {g} : reply'[h] = reply[h]
    BY <1>4, <1>5
  <1>11. /\ Append(b, f) \in Seq(Frames) /\ Len(Append(b, f)) = Len(b) + 1 /\ Len(b) \in Nat
         /\ Members(Append(b, f)) = Members(b) \cup {f}
    <2>1. Append(b, f) \in Seq(Frames) /\ Len(Append(b, f)) = Len(b) + 1 /\ Len(b) \in Nat
      BY <1>5
    <2> QED BY <1>5, <2>1, MembersAppend
  <1>12. /\ downq' \in [Conns -> Seq(Frames)]
         /\ \A h \in Conns \ {g} : downq'[h] = downq[h]
         /\ downq'[g] = b \/ (conn = g /\ downq'[g] = Append(b, f))
    <2>1. CASE downq' = downq
      BY <1>3, <1>5, <2>1
    <2>2. CASE conn = g /\ downq' = [downq EXCEPT ![g] = Append(b, f)]
      BY <1>5, <1>11, <2>2
    <2> QED BY <1>4, <2>1, <2>2
  <1>13. ShapeInv'
    BY <1>1, <1>4, <1>10, <1>12 DEF ShapeInv, deliveryVars
  <1>14. Carries(g)'
    <2>1. g # conn => downq'[g] = <<>>
      BY <1>3, <1>5, <1>12 DEF Carries
    <2>2. g > dialled => upq'[g] = <<>> /\ reply'[g] = NoFrame
      BY <1>4, <1>5, <1>10 DEF Carries
    <2>3. Members(upq'[g]) \subseteq Members(upq[g])
      BY <1>4
    <2>4. \A x \in Members(downq'[g]) \ Members(downq[g]) :
             x.kind \in {"helloack", "ack"} /\ x \in Passing(g)
      <3>1. CASE downq'[g] = b
        BY <1>3, <3>1
      <3>2. CASE downq'[g] = Append(b, f)
        <4>1. \A x \in Members(downq'[g]) \ Members(downq[g]) : x = f
          BY <1>3, <1>11, <3>2
        <4> QED BY <1>4, <1>6, <4>1
      <3> QED BY <1>12, <3>1, <3>2
    <2> QED BY <1>1, <1>4, <1>5, <1>8, <1>10, <2>1, <2>2, <2>3, <2>4, CarriesWith
  <1>15. NetInv'
    BY <1>1, <1>4, <1>8, <1>10, <1>12, <1>14, OthersCarry
  <1>16. ASSUME NEW h \in Conns
         PROVE  Load(h)' <= Load(h)
    <2>1. upq[h] \in Seq(Frames) /\ downq[h] \in Seq(Frames)
      BY <1>1 DEF ShapeInv
    <2>2. Len(upq[h]) \in Nat /\ Len(downq[h]) \in Nat
      BY <2>1
    <2>3. CASE h = g
      <3>1. Held(h) = 1 /\ Held(h)' = 0
        BY <1>4, <1>10, <2>3 DEF Held, Busy
      <3>2. Len(downq'[h]) \in Int /\ Len(downq[h]) \in Int
            /\ (Len(downq'[h]) = Len(downq[h]) \/ Len(downq'[h]) = Len(downq[h]) + 1)
        BY <1>3, <1>11, <1>12, <2>3
      <3>3. Load(h) = Len(upq[h]) + Len(downq[h]) + 1 /\ Load(h)' = Len(upq[h]) + Len(downq'[h]) + 0
        BY <1>4, <3>1 DEF Load
      <3>4. PICK x \in Int, y \in Int, v \in Int :
               /\ Load(h) = x + y + 1 /\ Load(h)' = x + v + 0
               /\ v = y \/ v = y + 1
        <4>1. Len(upq[h]) \in Int
          BY <2>2
        <4> QED BY <3>2, <3>3, <4>1, Zenon
      <3>5. x + v + 0 <= x + y + 1
        BY <3>4
      <3> QED BY <3>4, <3>5
    <2>4. CASE h # g
      <3>1. Load(h)' = Load(h)
        BY <1>4, <1>10, <1>12, <2>4 DEF Load, Held, Busy
      <3>2. Load(h) \in Int
        BY <2>2 DEF Load, Held
      <3> QED BY <3>1, <3>2
    <2> QED BY <2>3, <2>4
  <1>17. Occupied' \in {0, Occupied}
    BY <1>1, <1>4, <1>13, <1>16, NotMore
  <1> QED BY <1>4, <1>8, <1>9, <1>13, <1>15, <1>17, CoordStep

\* The task of a connection ends, or the coordinator comes back without its
\* sockets and its appends in progress.
LEMMA CoordEndStep ==
  ASSUME IInv, (\E g \in Conns : CoordEnd(g)) \/ CoordRestart
  PROVE  IInv'
  <1>1. FileInv /\ ShapeInv /\ LinkInv /\ LogInv /\ NetInv
    BY DEF IInv
  <1>2. UNCHANGED <<journalVars, link, pc, deliveryVars, boot, conn, dialled, upq, downq, log,
                    refused, dropped>>
    BY DEF CoordEnd, CoordRestart, worker, netVars, barrierVars
  <1>3. /\ rows' = rows /\ snaps' = snaps /\ Settled' = Settled /\ Handed' = Handed
    BY <1>2 DEF Settled, CommittedSeqs, Handed, journalVars
  <1>4. FileInv' /\ Grows
    BY <1>1, <1>2, <1>3, FileKept, StillGrows DEF journalVars
  <1>5. LogInv'
    BY <1>1, <1>2, <1>4, LogKept
  <1>6. NoFrame \in Frames
    BY LinkAssumption DEF NoFrame, Frame, Frames, None
  <1>7. /\ reply' \in [Conns -> Frames]
        /\ \A h \in Conns : reply'[h] = reply[h] \/ reply'[h] = NoFrame
        /\ current' \in {0, current}
        /\ closed' \subseteq 1..dialled
    <2>1. ASSUME NEW g \in Conns, CoordEnd(g)
          PROVE  reply' = reply /\ current' \in {0, current} /\ closed' \subseteq 1..dialled
      <3>1. closed' = closed \cup {g} /\ g <= dialled /\ reply' = reply /\ current' \in {0, current}
        BY <2>1 DEF CoordEnd
      <3>2. g \in 1..dialled
        BY <1>1, <3>1 DEF Conns, ShapeInv
      <3> QED BY <1>1, <3>1, <3>2 DEF ShapeInv
    <2>2. CASE CoordRestart
      BY <1>6, <2>2 DEF CoordRestart
    <2> QED BY <1>1, <2>1, <2>2 DEF ShapeInv
  <1>8. ShapeInv'
    <2>1. 0 \in 0..dialled
      BY <1>1 DEF ShapeInv
    <2> QED BY <1>1, <1>2, <1>7, <2>1 DEF ShapeInv, deliveryVars
  <1>9. ASSUME NEW h \in Conns
        PROVE  Carries(h)'
    <2>1. Carries(h)
      BY <1>1 DEF NetInv
    <2>2. h # conn => downq'[h] = <<>>
      BY <1>2, <2>1 DEF Carries
    <2>3. h > dialled => upq'[h] = <<>> /\ reply'[h] = NoFrame
      BY <1>2, <1>7, <2>1 DEF Carries
    <2>4. Members(upq'[h]) \subseteq Members(upq[h]) /\ Members(downq'[h]) \ Members(downq[h]) = {}
      BY <1>2
    <2>5. reply'[h] # NoFrame =>
             reply'[h].kind \in {"event", "snapshot", "ack"} /\ reply'[h] \in Passing(h)
      BY <1>7, <2>1 DEF Carries, Passing
    <2> QED BY <1>1, <1>2, <1>4, <2>1, <2>2, <2>3, <2>4, <2>5, CarriesWith
  <1>10. ASSUME NEW h \in Conns
         PROVE  Load(h)' <= Load(h)
    <2>1. upq[h] \in Seq(Frames) /\ downq[h] \in Seq(Frames)
      BY <1>1 DEF ShapeInv
    <2>2. Len(upq[h]) \in Int /\ Len(downq[h]) \in Int
      BY <2>1
    <2>3. Held(h) \in Int /\ Held(h)' \in Int /\ Held(h)' <= Held(h)
      BY <1>7 DEF Held, Busy
    <2>4. /\ Load(h) = Len(upq[h]) + Len(downq[h]) + Held(h)
          /\ Load(h)' = Len(upq[h]) + Len(downq[h]) + Held(h)'
      BY <1>2 DEF Load
    <2>5. PICK x \in Int, y \in Int, c \in Int, d \in Int :
             Load(h) = x + y + c /\ Load(h)' = x + y + d /\ d <= c
      BY <2>2, <2>3, <2>4, Zenon
    <2>6. x + y + d <= x + y + c
      BY <2>5
    <2> QED BY <2>5, <2>6
  <1>11. Occupied' \in {0, Occupied}
    BY <1>1, <1>2, <1>8, <1>10, NotMore
  <1>12. NetInv'
    BY <1>9 DEF NetInv
  <1> QED BY <1>2, <1>4, <1>5, <1>8, <1>11, <1>12, CoordStep

----------------------------------------------------------------------------
(* The invariant holds.                                                    *)

\* A first start: an empty outbox, an empty log and no connection.
LEMMA InitOK ==
  ASSUME Init
  PROVE  IInv
  <1>1. /\ link = NewLink /\ pc = "idle" /\ changed = FALSE /\ drained = FALSE /\ unnoted = 0
        /\ boot = "waiting" /\ conn = 0 /\ dialled = 0
        /\ upq = [g \in Conns |-> <<>>] /\ downq = [g \in Conns |-> <<>>]
        /\ closed = {} /\ current = 0 /\ reply = [g \in Conns |-> NoFrame] /\ log = <<>>
        /\ refused = {} /\ dropped = {}
    BY DEF Init
  <1>2. /\ rows = {} /\ watermark = 0 /\ claims = {} /\ up = FALSE /\ issued = 0
        /\ reservedThrough = 0 /\ writer = J!NoWriter /\ tokens = {} /\ checked = 0
        /\ draws = <<>> /\ snaps = {}
    BY DEF Init, J!Init
  <1>3. Settled = {} /\ Handed = {} /\ Delivered = {} /\ Waiting = {}
    <2>1. Len(log) = 0
      BY <1>1
    <2>2. Settled = {}
      BY <1>1, <2>1 DEF Settled, CommittedSeqs
    <2> QED BY <1>2, <2>2 DEF Handed, Delivered, Waiting
  <1>4. /\ LinkOK(NewLink, 0) /\ MirrorOK(NewLink, {}, {})
        /\ NewLink.pump.barrier = "Idle" /\ NewLink.acks = <<>> /\ NewLink.authorised = NoFrame
        /\ NewLink.resync = TRUE
    BY NewLinkOK
  <1>5. FileInv
    <2>1. J!TypeOK
      <3>1. up \in BOOLEAN
        BY <1>2, Zenon
      <3>2. draws \in Seq(1..MaxSequence)
        BY <1>2
      <3>3. writer \in [seq : 0..MaxSequence, claim : 0..MaxClaims]
        BY <1>2, LinkAssumption DEF J!NoWriter, J!NoClaim
      <3>4. /\ rows \subseteq 1..MaxSequence /\ snaps \subseteq 1..MaxSequence
            /\ claims \subseteq J!Claim /\ tokens \subseteq 1..MaxClaims
        BY <1>2, Zenon
      <3> QED BY <1>2, <3>1, <3>2, <3>3, <3>4, LinkAssumption DEF J!TypeOK
    <2> QED BY <1>2, <1>3, <2>1 DEF FileInv
  <1>6. ShapeInv
    <2>1. NoFrame \in Frames
      BY LinkAssumption DEF NoFrame, Frame, Frames, None
    <2>2. <<>> \in Seq(Frames)
      OBVIOUS
    <2>3. changed \in BOOLEAN /\ drained \in BOOLEAN
      BY <1>1, Zenon
    <2>4. dialled \in 0..MaxConn /\ conn \in 0..dialled /\ current \in 0..dialled
          /\ closed \subseteq 1..dialled /\ refused \subseteq 1..dialled /\ unnoted \in Nat
      BY <1>1, LinkAssumption
    <2>5. /\ upq \in [Conns -> Seq(Frames)] /\ downq \in [Conns -> Seq(Frames)]
          /\ reply \in [Conns -> Frames] /\ log \in Seq(Frames)
      BY <1>1, <2>1, <2>2
    <2> QED BY <1>1, <2>3, <2>4, <2>5 DEF ShapeInv
  <1>7. LinkInv /\ MirrorInv
    BY <1>1, <1>2, <1>3, <1>4 DEF LinkInv, MirrorInv, Occupied
  <1>8. ConnInv
    BY <1>1, <1>2, <1>4 DEF ConnInv
  <1>9. PromiseInv
    BY <1>1, <1>4 DEF PromiseInv, Members, NoFrame, Frame
  <1>10. NetInv
    <2>1. ASSUME NEW g \in Conns
          PROVE  Carries(g)
      <3>1. upq[g] = <<>> /\ downq[g] = <<>> /\ reply[g] = NoFrame
        BY <1>1
      <3>2. Members(<<>>) = {}
        BY DEF Members
      <3>3. Passing(g) = {}
        BY <3>1, <3>2 DEF Passing
      <3> QED BY <3>1, <3>2, <3>3 DEF Carries
    <2> QED BY <2>1 DEF NetInv
  <1>11. LogInv
    BY <1>1, <1>3 DEF LogInv, SnapshotCoversRows
  <1>12. DrainInv
    BY <1>1, <1>2 DEF DrainInv
  <1> QED BY <1>5, <1>6, <1>7, <1>8, <1>9, <1>10, <1>11, <1>12 DEF IInv

\* A step that changes nothing.
LEMMA StutterStep ==
  ASSUME IInv, UNCHANGED vars
  PROVE  IInv'
  <1>1. FileInv /\ ShapeInv /\ LogInv /\ DrainInv
    BY DEF IInv
  <1>2. UNCHANGED <<journalVars, link, pc, deliveryVars, boot, conn, dialled, netVars, coordVars>>
    BY DEF vars
  <1>3. /\ Settled' = Settled /\ Handed' = Handed /\ rows' = rows /\ snaps' = snaps
        /\ up' = up
    BY <1>2 DEF Settled, CommittedSeqs, Handed, journalVars, coordVars, barrierVars
  <1>4. FileInv' /\ Grows
    BY <1>1, <1>2, <1>3, FileKept, StillGrows DEF journalVars
  <1>5. ShapeInv'
    BY <1>1, <1>2 DEF ShapeInv, deliveryVars, netVars, coordVars, barrierVars
  <1>6. LinkInv' /\ MirrorInv' /\ ConnInv' /\ PromiseInv' /\ NetInv' /\ LogInv'
    BY <1>2, <1>3, <1>4, AsideStep DEF netVars, coordVars, barrierVars
  <1>7. DrainInv'
    BY <1>1, <1>2, <1>3 DEF DrainInv, deliveryVars
  <1> QED BY <1>4, <1>5, <1>6, <1>7 DEF IInv

\* Every step of the system keeps the invariant.
LEMMA NextStep ==
  ASSUME IInv, [Next]_vars
  PROVE  IInv'
  <1>1. CASE SessionTasks
    BY <1>1, OutboxStep, EmitCommitStep, SignalStep DEF SessionTasks
  <1>2. CASE Dial \/ Receive \/ Disconnect
    BY <1>2, DialStep, ReceiveStep, DisconnectStep
  <1>3. CASE Drain
    BY <1>3, PassStep, DrainAckStep, WithdrawStep, AuthoriseStep, WriteStep DEF Drain
  <1>4. CASE BootReplayed \/ BootActivate
    BY <1>4, SignalStep, WithdrawStep
  <1>5. CASE WorkerCrash \/ WorkerStart
    BY <1>5, CrashStep, OutboxStep
  <1>6. ASSUME NEW g \in Conns, Coordinator(g)
        PROVE  IInv'
    BY <1>6, CoordReadStep, CoordDropStep, CoordAppendStep, CoordReplyStep, CoordEndStep
       DEF Coordinator
  <1>7. CASE CoordRestart
    BY <1>7, CoordEndStep
  <1>8. CASE UNCHANGED vars
    BY <1>8, StutterStep
  <1> QED BY <1>1, <1>2, <1>3, <1>4, <1>5, <1>6, <1>7, <1>8 DEF Next

\* The invariant of the durable link: whatever the session tasks, the link
\* loop, the connections and the coordinator do, in whatever order, and
\* whatever dies or is lost in between.
THEOREM Invariance == Spec => []IInv
  <1>1. Init => IInv
    BY InitOK
  <1>2. IInv /\ [Next]_vars => IInv'
    BY NextStep
  <1> QED BY <1>1, <1>2, PTL DEF Spec

----------------------------------------------------------------------------
(* What it says.                                                           *)

\* Every variable has its type: the mirror stays within DURABLE_MIRROR_CAP,
\* and no number leaves the sequence space.
THEOREM TypeCorrect == Spec => []TypeOK
  <1>1. IInv => TypeOK
    <2> SUFFICES ASSUME IInv
                 PROVE  TypeOK
      OBVIOUS
    <2>1. FileInv /\ ShapeInv /\ LinkOK(link, Occupied) /\ LogInv
      BY DEF IInv, LinkInv
    <2>2. link.pump \in Pump(MaxSequence)
      BY <2>1, FieldTypes DEF LinkOK, Pumps
    <2> QED BY <2>1, <2>2 DEF FileInv, ShapeInv, LinkOK, LogInv, TypeOK
  <1> QED BY <1>1, Invariance, PTL

\* One frame at a time is on the worker's connection, counting the one the
\* coordinator is committing: after a lost connection, a crash or a restart
\* the link never sends a second one beside the first.
THEOREM SingleFlight == Spec => []OneInFlight
  <1>1. IInv => OneInFlight
    <2> SUFFICES ASSUME IInv, conn # 0
                 PROVE  Len(upq[conn]) + Len(downq[conn]) + (IF Busy(conn) THEN 1 ELSE 0) <= 1
      BY DEF OneInFlight
    <2>1. Occupied \in {0, 1}
      BY DEF IInv, LinkInv, LinkOK
    <2>2. Occupied = Len(upq[conn]) + Len(downq[conn]) + (IF Busy(conn) THEN 1 ELSE 0)
      BY DEF Occupied
    <2>3. Occupied <= 1
      BY <2>1
    <2> QED BY <2>2, <2>3
  <1> QED BY <1>1, Invariance, PTL

\* No snapshot is committed before a row the outbox numbered below it, unless
\* the row is folder metadata the coordinator dropped.
THEOREM SnapshotsCover == Spec => []SnapshotCoversRows
  <1>1. IInv => SnapshotCoversRows
    BY DEF IInv, LogInv
  <1> QED BY <1>1, Invariance, PTL

\* drained, read between two drains with every signal raised and read, means
\* that the coordinator has settled every row of the outbox.
THEOREM DrainedIsDelivered == Spec => []DrainedBetweenDrains
  <1>1. IInv => DrainedBetweenDrains
    <2> SUFFICES ASSUME IInv, drained, unnoted = 0, ~changed, pc = "idle"
                 PROVE  rows \subseteq Settled
      BY DEF DrainedBetweenDrains
    <2>1. FileInv /\ LogInv /\ LinkInv /\ MirrorInv /\ DrainInv
      BY DEF IInv
    <2>2. link.mirror = <<>> /\ ~link.resync /\ up
      BY <2>1 DEF DrainInv
    <2>3. \A r \in rows : r <= link.offered
      BY <2>1, <2>2 DEF DrainInv
    <2>4. MirrorRows(link) = {}
      BY <2>2 DEF MirrorRows
    <2>5. \A r \in rows \ Delivered : r > link.offered
      BY <2>1, <2>4 DEF MirrorInv, MirrorOK
    <2>6. \A r \in rows : r \in Int /\ link.offered \in Int
      BY <2>1, NumberTypes, FieldTypes DEF LinkInv, LinkOK, Numbers
    <2> QED BY <2>3, <2>5, <2>6 DEF Delivered
  <1> QED BY <1>1, Invariance, PTL

----------------------------------------------------------------------------
(* How the link opens.                                                     *)

\* Only a frame from the coordinator opens the link.
LEMMA OnlyFramesOpen ==
  ASSUME IInv, Next, ~Receive
  PROVE  link'.pump.barrier = "Live" => link.pump.barrier = "Live"
  <1> DEFINE Goal == link'.pump.barrier = "Live" => link.pump.barrier = "Live"
  <1>1. LinkOK(link, Occupied) /\ MirrorOK(link, rows, Delivered) /\ ConnInv
        /\ rows \in SUBSET Numbers /\ Delivered \in SUBSET Numbers
    BY NumberTypes DEF IInv, LinkInv, MirrorInv
  <1>2. CASE SessionTasks \/ BootReplayed \/ WorkerStart \/ CoordRestart
             \/ (\E g \in Conns : Coordinator(g))
    <2>1. link' = link
      BY <1>2 DEF SessionTasks, EmitNumber, EmitCommit, EmitRefused, Reserve, HoldOrRelease,
                  LeaseExpire, NoteStoreChanged, Unnoticed, Noticed, rest, BootReplayed, WorkerStart,
                  CoordRestart, Coordinator, CoordHello, CoordRead, CoordDrop, CoordRefuse,
                  CoordAppend, CoordNotAdmitted, CoordAppendFailed, CoordReply, CoordEnd, worker,
                  workerAside
    <2> QED BY <2>1
  <1>3. CASE DrainStart \/ BootActivate
    <2>1. PICK b \in BOOLEAN : link' = [link EXCEPT !.wake = b]
      BY <1>3 DEF DrainStart, BootActivate
    <2> QED BY <1>1, <2>1, SetWake
  <1>4. CASE DrainAck
    <2>1. link.acks # <<>> /\ link' = [link EXCEPT !.acks = Tail(link.acks)]
      BY <1>4 DEF DrainAck
    <2> QED BY <1>1, <2>1, AckApplied
  <1>5. CASE DrainSync
    <2>1. \/ link' = OfferRows(link, rows) \/ link' = [link EXCEPT !.resync = TRUE] \/ link' = link
      BY <1>5 DEF DrainSync
    <2>2. CASE link' = OfferRows(link, rows)
      BY <1>1, <2>2, OfferRowsOK DEF Calm
    <2>3. CASE link' = [link EXCEPT !.resync = TRUE]
      BY <1>1, <2>3, SetResync DEF Calm
    <2> QED BY <2>1, <2>2, <2>3
  <1>6. CASE DrainClaims
    <2>1. PICK l \in {RefreshBlocking(link), [link EXCEPT !.resync = TRUE]} :
             link' = IF pc = "claims" THEN l ELSE ApplyTo(l, NoteDurableAppeared(l.pump))
      BY <1>6 DEF DrainClaims
    <2>2. LinkOK(l, Occupied) /\ Calm(link, l)
      <3>1. CASE l = RefreshBlocking(link)
        BY <1>1, <3>1, RefreshBlockingOK
      <3>2. CASE l = [link EXCEPT !.resync = TRUE]
        BY <1>1, <3>2, SetResync
      <3> QED BY <2>1, <3>1, <3>2
    <2>3. Calm(l, link') \/ link' = l
      BY <2>1, <2>2, NoteDurableAppearedOK
    <2> QED BY <2>2, <2>3 DEF Calm
  <1>7. CASE SnapshotNotNow
    <2>1. link' = link \/ link' = [link EXCEPT !.wanted = FALSE]
      BY <1>7 DEF SnapshotNotNow
    <2> QED BY <1>1, <2>1, Withdrawn
  <1>8. CASE SnapshotAuthorised \/ SnapshotOutrun
    <2>1. PICK n, b, a : link' = [link EXCEPT !.wanted = FALSE, !.resync = b, !.authorised = a,
                                           !.pump = n]
                      /\ n \in {ReassignSnapshotSequence(link.pump, J!NextSequence),
                                AbandonSnapshot(link.pump)}
      <3>1. CASE SnapshotAuthorised
        <4>1. link' = [link EXCEPT !.wanted = FALSE, !.resync = link.resync,
                                   !.authorised = Frame("snapshot", J!NextSequence),
                                   !.pump = ReassignSnapshotSequence(link.pump, J!NextSequence)]
          BY <1>1, <3>1 DEF SnapshotAuthorised, LinkOK, Links
        <4> QED BY <4>1
      <3>2. CASE SnapshotOutrun
        <4>1. link' = [link EXCEPT !.wanted = FALSE, !.resync = TRUE,
                                   !.authorised = link.authorised,
                                   !.pump = AbandonSnapshot(link.pump)]
          BY <1>1, <3>2 DEF SnapshotOutrun, LinkOK, Links
        <4> QED BY <4>1
      <3> QED BY <1>8, <3>1, <3>2
    <2>2. link'.pump = n /\ link.pump \in Pumps
      BY <1>1, <2>1, FieldTypes DEF LinkOK, Links
    <2>3. n.barrier = "Live" => link.pump.barrier = "Live"
      BY <2>1, <2>2 DEF ReassignSnapshotSequence, AbandonSnapshot, Pumps, Pump
    <2> QED BY <2>2, <2>3
  <1>9. CASE DrainWrite
    <2>1. link' = [link EXCEPT !.authorised = NoFrame]
      BY <1>9 DEF DrainWrite
    <2> QED BY <1>1, <2>1, WrittenOK
  <1>10. CASE Disconnect
    BY <1>1, <1>10, DetachedOK DEF Disconnect
  <1>11. CASE WorkerCrash
    BY <1>1, <1>11, NewLinkOK DEF WorkerCrash
  <1>12. CASE Dial
    <2>1. link' = [link EXCEPT !.pump = OnOpen(link.pump).pump] /\ link.pump \in Pumps
      BY <1>1, <1>12, FieldTypes DEF Dial, LinkOK
    <2>2. link'.pump.barrier = "Open"
      BY <1>1, <2>1 DEF LinkOK, Links, OnOpen, Result, Pumps, Pump
    <2> QED BY <2>2
  <1> QED BY <1>2, <1>3, <1>4, <1>5, <1>6, <1>7, <1>8, <1>9, <1>10, <1>11, <1>12 DEF Next, Drain

\* The frame that opens it acknowledges the snapshot under way, over which
\* nothing was queued.
LEMMA ReceiveOpens ==
  ASSUME IInv, Receive, link.pump.barrier # "Live", link'.pump.barrier = "Live"
  PROVE  /\ \A r \in rows : r <= link.offered => r \in Settled
         /\ \E i \in 1..Len(log) : log[i].kind = "snapshot" /\ log[i].seq > link.offered
  <1>1. /\ FileInv /\ ShapeInv /\ LinkInv /\ MirrorInv /\ LogInv /\ ConnInv /\ NetInv
    BY DEF IInv
  <1>2. PICK f : /\ f = Head(downq[conn])
                 /\ link' = IF f.kind = "helloack" THEN ApplyTo(link, OnHelloAck(link.pump))
                            ELSE EventAcknowledged(link, f.seq)
    BY DEF Receive
  <1>3. conn # 0 /\ downq[conn] # <<>>
    BY DEF Receive, Connected
  <1>4. /\ Occupied = 1 /\ conn \in Conns /\ f \in Members(downq[conn])
    BY <1>1, <1>2, <1>3, OneToRead
  <1>5. f.kind \in {"helloack", "ack"} /\ Rides(f) /\ FrameOK(f)
    BY <1>1, <1>4 DEF NetInv, Carries, Passing
  <1>6. /\ LinkOK(link, 1) /\ MirrorOK(link, rows, Delivered) /\ link \in Links
        /\ rows \in SUBSET Numbers /\ Delivered \in SUBSET Numbers /\ Settled \in SUBSET Numbers
    BY <1>1, <1>4, NumberTypes DEF LinkInv, MirrorInv, LinkOK
  <1>7. f.kind = "ack"
    <2>1. ASSUME f.kind = "helloack"
          PROVE  FALSE
      <3>1. link.pump.barrier = "Open" /\ link' = ApplyTo(link, OnHelloAck(link.pump))
        BY <1>2, <1>5, <2>1 DEF Rides
      <3> QED BY <1>6, <3>1, HelloAckOK
    <2> QED BY <1>5, <2>1
  <1>8. PICK n : n = f.seq
    OBVIOUS
  <1>9. /\ n \in Settled /\ n \in Numbers /\ link.pump.barrier \notin {"Idle", "Open"}
        /\ link' = EventAcknowledged(link, n)
    BY <1>1, <1>2, <1>3, <1>5, <1>6, <1>7, <1>8 DEF Rides, FrameOK, ConnInv
  <1>10. n \in MirrorRows(link) => n \in Delivered
    BY <1>1, <1>6, <1>9 DEF MirrorOK, Delivered, FileInv
  <1>11. Acknowledges(link, link', n)
    BY <1>6, <1>9, <1>10, EventAcknowledgedOK
  <1>12. link.pump.barrier = "Snapshot" /\ link.pump.snapshotSeq = n /\ ~link.pump.replayAgain
    BY <1>11 DEF Acknowledges
  <1>13. link.pump.durable = <<>> /\ link.offered < n
    BY <1>6, <1>12 DEF LinkOK, PumpOK
  <1>14. n \in snaps
    BY <1>5, <1>8, <1>12 DEF Rides
  <1>15. PICK i \in 1..Len(log) : log[i].seq = n
    <2>1. n \in CommittedSeqs
      BY <1>1, <1>9, <1>14 DEF LogInv, Settled
    <2> QED BY <2>1 DEF CommittedSeqs
  <1>16. log[i].kind = "snapshot"
    BY <1>1, <1>14, <1>15 DEF LogInv
  <1>17. log[i].seq > link.offered
    <2>1. n \in Int /\ link.offered \in Int
      BY <1>6, <1>9, FieldTypes DEF Numbers
    <2>2. n > link.offered
      BY <1>13, <2>1
    <2> QED BY <1>15, <2>2
  <1> QED BY <1>1, <1>13, <1>16, <1>17, OfferedDelivered

\* The link goes live only over a coordinator that settled every row the link
\* was offered and holds a snapshot above them.
THEOREM LiveIsCaughtUp == Spec => LiveMeansCaughtUp
  <1> DEFINE Opens == link.pump.barrier # "Live" /\ link'.pump.barrier = "Live" =>
          /\ \A r \in rows : r <= link.offered => r \in Settled
          /\ \E i \in 1..Len(log) : log[i].kind = "snapshot" /\ log[i].seq > link.offered
  <1>1. IInv /\ [Next]_vars => [Opens]_vars
    <2> SUFFICES ASSUME IInv, Next
                 PROVE  Opens
      OBVIOUS
    <2> QED BY OnlyFramesOpen, ReceiveOpens
  <1>2. Spec => [][Opens]_vars
    BY <1>1, Invariance, PTL DEF Spec
  <1> QED BY <1>2 DEF LiveMeansCaughtUp

----------------------------------------------------------------------------
(* The link implements EventDelivery.                                      *)

\* The places of the log's events and their numbers, as EventDelivery sees
\* them.
Placed == [i \in EventPlaces |-> log[i].seq]

\* EventDelivery's set of numbers is the settled rows that are not folder
\* metadata: those are in the log.
LEMMA PlacedRows ==
  ASSUME LogInv
  PROVE  {Placed[p] : p \in EventPlaces} = Delivered \ Folder
  <1>1. \A p \in EventPlaces : Placed[p] = log[p].seq
    BY DEF Placed
  <1>2. \A p \in EventPlaces : log[p].seq \in Delivered \ Folder
    BY DEF LogInv, EventPlaces, Delivered, Settled, CommittedSeqs
  <1>3. ASSUME NEW n \in Delivered \ Folder
        PROVE  \E p \in EventPlaces : Placed[p] = n
    <2>1. n \in CommittedSeqs /\ n \notin snaps
      BY DEF LogInv, Delivered, Settled
    <2>2. PICK p \in 1..Len(log) : log[p].seq = n
      BY <2>1 DEF CommittedSeqs
    <2>3. p \in EventPlaces
      BY <2>1, <2>2 DEF LogInv, EventPlaces
    <2> QED BY <1>1, <2>2, <2>3
  <1> QED BY <1>1, <1>2, <1>3

\* What EventDelivery's definitions stand for.
LEMMA DeliveryReads ==
  ASSUME LogInv
  PROVE  Delivery!Places = EventPlaces /\ Delivery!Delivered = Delivered \ Folder
  <1>1. Delivery!Places = EventPlaces
    BY DEF Delivery!Places
  <1>2. Delivery!Delivered = {Placed[p] : p \in EventPlaces}
    BY <1>1 DEF Delivery!Delivered, Placed
  <1> QED BY <1>1, <1>2, PlacedRows

\* A row that is committed to the outbox is submitted, folder metadata aside.
LEMMA SubmitStep ==
  ASSUME IInv, EmitCommit
  PROVE  Delivery!Next \/ UNCHANGED Delivery!vars
  <1>1. FileInv /\ LogInv
    BY DEF IInv
  <1>2. /\ J!AppendCommit /\ log' = log
    BY DEF EmitCommit, Noticed, rest, coordVars, barrierVars
  <1>3. PICK n : n = writer.seq
    OBVIOUS
  <1>4. rows' = rows \cup {n} /\ writer # J!NoWriter
    BY <1>2, <1>3 DEF J!AppendCommit
  <1>5. \A x \in Handed : x < n
    BY <1>1, <1>3, <1>4 DEF FileInv
  <1>6. rows \subseteq Handed /\ Delivered \subseteq Handed
    BY DEF Handed, Delivered
  <1>7. n \notin rows
    <2>1. \A x \in rows : x < n /\ x \in Int
      BY <1>1, <1>5, <1>6, NumberTypes DEF Numbers
    <2> QED BY <2>1
  <1>8. Placed' = Placed
    BY <1>2 DEF Placed, EventPlaces
  <1>9. Delivery!Delivered = Delivered \ Folder
    BY <1>1, DeliveryReads
  <1>10. CASE n \in Folder
    <2>1. rows' \ Folder = rows \ Folder
      BY <1>4, <1>10
    <2> QED BY <1>8, <2>1 DEF Delivery!vars, Placed
  <1>11. CASE n \notin Folder
    <2>1. rows' \ Folder = (rows \ Folder) \cup {n}
      BY <1>4, <1>11
    <2>2. \A x \in (rows \ Folder) \cup (Delivered \ Folder) : x < n
      BY <1>5, <1>6
    <2>3. Delivery!Submit(n)
      BY <1>8, <1>9, <2>1, <2>2 DEF Delivery!Submit, Placed
    <2>4. n \in (rows' \ Folder) \ (rows \ Folder)
      BY <1>7, <2>1
    <2> QED BY <2>3, <2>4 DEF Delivery!Next
  <1> QED BY <1>10, <1>11

\* A row the outbox lets go of is retired, folder metadata aside.
LEMMA RetireStep ==
  ASSUME IInv, DrainAck
  PROVE  Delivery!Next \/ UNCHANGED Delivery!vars
  <1>1. FileInv /\ LogInv /\ LinkInv /\ PromiseInv
    BY DEF IInv
  <1>2. PICK n : n = Head(link.acks)
    OBVIOUS
  <1>3. log' = log /\ link.acks # <<>> /\ (J!Acknowledge(n) \/ UNCHANGED journalVars)
    BY <1>2 DEF DrainAck, coordVars, barrierVars
  <1>4. Placed' = Placed
    BY <1>3 DEF Placed, EventPlaces
  <1>5. CASE UNCHANGED journalVars
    BY <1>4, <1>5 DEF journalVars, Delivery!vars, Placed
  <1>6. CASE J!Acknowledge(n)
    <2>1. n \in rows /\ rows' = rows \ {n}
      BY <1>6 DEF J!Acknowledge
    <2>2. link.acks \in Seq(0..MaxSequence)
      BY <1>1, FieldTypes DEF LinkInv, LinkOK
    <2>3. n \in Settled
      BY <1>1, <1>2, <1>3, <2>2, MembersTail DEF PromiseInv
    <2>4. n \in Delivered
      BY <1>1, <2>1, <2>3 DEF Delivered, FileInv
    <2>5. Delivery!Delivered = Delivered \ Folder
      BY <1>1, DeliveryReads
    <2>6. CASE n \in Folder
      <3>1. rows' \ Folder = rows \ Folder
        BY <2>1, <2>6
      <3> QED BY <1>4, <3>1 DEF Delivery!vars, Placed
    <2>7. CASE n \notin Folder
      <3>1. rows' \ Folder = (rows \ Folder) \ {n} /\ n \in rows \ Folder
        BY <2>1, <2>7
      <3>2. Delivery!Retire(n)
        BY <1>4, <2>4, <2>5, <2>7, <3>1 DEF Delivery!Retire, Placed
      <3> QED BY <3>1, <3>2 DEF Delivery!Next
    <2> QED BY <2>6, <2>7
  <1> QED BY <1>3, <1>5, <1>6

\* A frame that append_event commits is the next row, or a snapshot or folder
\* metadata, which are no delivery.
LEMMA DeliverStep ==
  ASSUME FileInv, LogInv, log \in Seq(Frames), rows' = rows, NEW f \in Frames, FrameOK(f),
         f.kind \in {"event", "snapshot"}, f.seq \notin CommittedSeqs, log' = Append(log, f)
  PROVE  Delivery!Next \/ UNCHANGED Delivery!vars
  <1> DEFINE n == f.seq
             k == Len(log)
  <1>1. k \in Nat /\ Len(log') = k + 1 /\ log'[k + 1] = f /\ \A i \in 1..k : log'[i] = log[i]
    OBVIOUS
  <1>2. Delivery!Places = EventPlaces /\ Delivery!Delivered = Delivered \ Folder
    BY DeliveryReads
  <1>3. EventPlaces \subseteq 1..k /\ \A p \in EventPlaces : Placed[p] = log[p].seq
    BY DEF EventPlaces, Placed, k
  <1> HIDE DEF k
  <1>4. 1..Len(log') = 1..k \cup {k + 1} /\ k + 1 \notin 1..k
    BY <1>1
  <1>5. CASE f.kind = "snapshot" \/ n \in Folder
    <2>1. EventPlaces' = EventPlaces
      BY <1>1, <1>4, <1>5 DEF EventPlaces, k
    <2>2. Placed' = Placed
      BY <1>1, <1>3, <2>1 DEF Placed
    <2> QED BY <2>2 DEF Delivery!vars, Placed
  <1>6. CASE f.kind = "event" /\ n \notin Folder
    <2>1. EventPlaces' = EventPlaces \cup {k + 1}
      BY <1>1, <1>4, <1>6 DEF EventPlaces, k
    <2>2. n \in rows /\ n \notin snaps /\ \A r \in Waiting : n <= r
      <3>1. n \notin Settled
        BY <1>6 DEF LogInv, Settled
      <3> QED BY <1>6, <3>1 DEF FrameOK, EventOK
    <2>3. n \in Waiting /\ Waiting = rows \ Delivered
      <3>1. n \notin Settled
        BY <1>6 DEF LogInv, Settled
      <3> QED BY <2>2, <3>1, NumberTypes DEF Waiting
    <2>4. Placed' = [q \in EventPlaces \cup {k + 1} |-> IF q = k + 1 THEN n ELSE Placed[q]]
      BY <1>1, <1>3, <1>4, <2>1 DEF Placed
    <2>5. \A q \in EventPlaces : q < k + 1 /\ Placed[q] < n
      <3>1. \A q \in EventPlaces : q < k + 1
        <4>1. \A q \in 1..k : q < k + 1
          BY <1>1
        <4> QED BY <1>3, <4>1
      <3>2. \A q \in EventPlaces : Placed[q] \in Delivered
        BY PlacedRows
      <3>3. \A e \in Delivered : e < n
        BY <2>3 DEF LogInv
      <3> QED BY <3>1, <3>2, <3>3
    <2>6. n \in rows \ Folder /\ n \notin Delivered \ Folder
      BY <1>6, <2>2, <2>3
    <2>7. \A r \in rows \ Folder : r \notin Delivered \ Folder => n <= r
      BY <2>2, <2>3
    <2>8. Delivery!Deliver(k + 1, n)
      BY <1>2, <2>4, <2>5, <2>6, <2>7 DEF Delivery!Deliver, Placed
    <2>9. Delivery!Places' = EventPlaces'
      BY DEF Delivery!Places
    <2>10. k + 1 \in Delivery!Places' \ Delivery!Places
      BY <1>2, <1>3, <1>4, <2>1, <2>9
    <2> QED BY <2>6, <2>8, <2>10 DEF Delivery!Next
  <1> QED BY <1>5, <1>6

\* Every step of the link is a step of EventDelivery, or none.
LEMMA DeliveryStep ==
  ASSUME IInv, [Next]_vars
  PROVE  [Delivery!Next]_(Delivery!vars)
  <1>1. ASSUME rows' = rows, log' = log
        PROVE  UNCHANGED Delivery!vars
    BY <1>1 DEF Delivery!vars, EventPlaces
  <1>2. FileInv /\ LogInv /\ ShapeInv /\ NetInv
    BY DEF IInv
  <1>3. CASE EmitNumber \/ EmitRefused \/ Reserve \/ HoldOrRelease \/ LeaseExpire
    <2>1. log' = log /\ dropped' = dropped
      BY <1>3 DEF EmitNumber, EmitRefused, Reserve, HoldOrRelease, LeaseExpire, Unnoticed, Noticed,
                  rest, coordVars, barrierVars
    <2>2. \/ \E k \in tokens \cup {J!NoClaim} : J!AppendNumber(k)
          \/ J!ReserveCheck \/ J!ReserveInsert \/ J!AppendRefused
          \/ \E k \in tokens : J!Hold(k) \/ J!Release(k)
          \/ \E c \in claims : J!LeaseExpire(c)
      BY <1>3 DEF EmitNumber, EmitRefused, Reserve, HoldOrRelease, LeaseExpire, Unnoticed, Noticed
    <2>3. rows' = rows
      <3>1. CASE \E k \in tokens \cup {J!NoClaim} : J!AppendNumber(k)
        BY <3>1 DEF J!AppendNumber
      <3> QED BY <1>2, <2>1, <2>2, <3>1, ClaimStep
    <2> QED BY <1>1, <2>1, <2>3
  <1>4. CASE EmitCommit
    BY <1>4, SubmitStep
  <1>5. CASE DrainAck
    BY <1>5, RetireStep
  <1>6. CASE SnapshotAuthorised
    BY <1>1, <1>6 DEF SnapshotAuthorised, J!SnapshotSequence, coordVars, barrierVars
  <1>7. CASE WorkerCrash \/ WorkerStart
    <2>1. log' = log /\ dropped' = dropped /\ (J!Crash \/ J!Open)
      BY <1>7 DEF WorkerCrash, WorkerStart, rest, coordVars, barrierVars
    <2> QED BY <1>1, <1>2, <2>1, ProcessStep
  <1>8. CASE NoteStoreChanged \/ Dial \/ Receive \/ Disconnect \/ BootReplayed \/ BootActivate
             \/ DrainStart \/ DrainSync \/ DrainClaims \/ SnapshotNotNow \/ SnapshotOutrun
             \/ DrainWrite \/ CoordRestart \/ UNCHANGED vars
    <2>1. UNCHANGED <<journalVars, log>>
      BY <1>8 DEF NoteStoreChanged, Dial, Receive, Disconnect, BootReplayed, BootActivate, DrainStart,
                  DrainSync, DrainClaims, SnapshotNotNow, SnapshotOutrun, DrainWrite, CoordRestart,
                  vars, rest, linkOnly, coordVars, barrierVars
    <2> QED BY <1>1, <2>1 DEF journalVars
  <1>9. ASSUME NEW g \in Conns, Coordinator(g)
        PROVE  Delivery!Next \/ UNCHANGED Delivery!vars
    <2>1. UNCHANGED journalVars
      BY <1>9 DEF Coordinator, CoordHello, CoordRead, CoordDrop, CoordRefuse, CoordAppend,
                  CoordNotAdmitted, CoordAppendFailed, CoordReply, CoordEnd, worker, workerAside
    <2>2. PICK f : f = reply[g]
      OBVIOUS
    <2>3. \/ log' = log
          \/ /\ Busy(g) /\ f.kind \in {"event", "snapshot"} /\ f.seq \notin CommittedSeqs
             /\ log' = Append(log, f)
      BY <1>9, <2>2 DEF Coordinator, CoordHello, CoordRead, CoordDrop, CoordRefuse, CoordAppend,
                        CoordNotAdmitted, CoordAppendFailed, CoordReply, CoordEnd
    <2>4. CASE log' = log
      BY <1>1, <2>1, <2>4 DEF journalVars
    <2>5. CASE /\ Busy(g) /\ f.kind \in {"event", "snapshot"} /\ f.seq \notin CommittedSeqs
               /\ log' = Append(log, f)
      <3>1. f \in Frames /\ log \in Seq(Frames) /\ f \in Passing(g) /\ Carries(g)
        BY <1>2, <2>2, <2>5 DEF ShapeInv, NetInv, Busy, Passing
      <3>2. FrameOK(f)
        BY <3>1 DEF Carries
      <3> QED BY <1>2, <2>1, <2>5, <3>1, <3>2, DeliverStep DEF journalVars
    <2> QED BY <2>3, <2>4, <2>5
  <1> QED BY <1>3, <1>4, <1>5, <1>6, <1>7, <1>8, <1>9 DEF Next, SessionTasks, Drain

\* Every session event but folder metadata reaches the coordinator's log exactly
\* once and in the order it was numbered, and leaves the outbox only after that,
\* over lost connections, lost acknowledgements, refusals, retries and the death
\* of either side.
THEOREM ImplementsDelivery == Spec => DeliveredInOrder
  <1>1. Init => Delivery!Init
    <2> SUFFICES ASSUME Init
                 PROVE  Delivery!Init
      OBVIOUS
    <2>1. rows = {} /\ Len(log) = 0
      BY DEF Init, J!Init
    <2>2. EventPlaces = {} /\ rows \ Folder = {}
      BY <2>1 DEF EventPlaces
    <2>3. [i \in EventPlaces |-> log[i].seq] = <<>>
      BY <2>2
    <2> QED BY <2>2, <2>3 DEF Delivery!Init
  <1>2. IInv /\ [Next]_vars => [Delivery!Next]_(Delivery!vars)
    BY DeliveryStep
  <1> QED BY <1>1, <1>2, Invariance, PTL DEF Spec, DeliveredInOrder, Delivery!Spec

=============================================================================
