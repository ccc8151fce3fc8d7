--------------------------- MODULE JournalProofs ---------------------------
(***************************************************************************)
(* Proofs about the durable outbox, for every cap, block size and sequence *)
(* space.  The inductive invariant has three parts beside the types: where *)
(* every number ever handed out lies relative to the file's watermark and  *)
(* to the open window; what an append that holds the lock knows; and that  *)
(* claim ids are a key of the claim table.                                 *)
(***************************************************************************)
EXTENDS Journal, TLAPS

\* No waiting row, no drawn snapshot and no number ever drawn is above n.
HandedAtMost(n) ==
    /\ \A x \in rows \cup snaps : x <= n
    /\ \A i \in 1..Len(draws) : draws[i] <= n

\* Nothing was handed out above the watermark on disk, and while this process
\* has a block open nothing was handed out above its own count.
WindowInv ==
    /\ HandedAtMost(watermark)
    /\ issued <= watermark
    /\ reservedThrough <= watermark
    /\ reservedThrough > 0 => HandedAtMost(issued)

\* The append that holds the lock owns the newest number.
WriterInv ==
    writer # NoWriter =>
        /\ writer.seq \in 1..issued
        /\ reservedThrough > 0
        /\ \A x \in rows \cup snaps : x < writer.seq

\* A process that is down holds nothing in memory.
DownInv == ~up => reservedThrough = 0 /\ writer = NoWriter /\ tokens = {}

IInv ==
    /\ TypeOK
    /\ WindowInv
    /\ WriterInv
    /\ DownInv
    /\ TokensNameClaims
    /\ NeverRepeat

----------------------------------------------------------------------------

\* The initial file and process satisfy the inductive invariant.
LEMMA InitEstablishes == Init => IInv
  <1> SUFFICES ASSUME Init PROVE IInv
    OBVIOUS
  <1>1. TypeOK
    <2>1. up \in BOOLEAN
      BY Zenon DEF Init
    <2>2. draws \in Seq(1..MaxSequence)
      BY DEF Init
    <2>3. writer \in [seq : 0..MaxSequence, claim : 0..MaxClaims]
      BY JournalAssumption DEF Init, NoWriter, NoClaim
    <2>4. /\ rows \subseteq 1..MaxSequence /\ snaps \subseteq 1..MaxSequence
          /\ claims \subseteq Claim /\ tokens \subseteq 1..MaxClaims
      BY Zenon DEF Init
    <2> QED BY <2>1, <2>2, <2>3, <2>4, JournalAssumption DEF Init, TypeOK
  <1>2. WindowInv /\ WriterInv /\ DownInv
    BY DEF Init, WindowInv, WriterInv, DownInv, HandedAtMost
  <1>3. TokensNameClaims /\ NeverRepeat
    BY DEF Init, TokensNameClaims, NeverRepeat, ClaimIds
  <1> QED BY <1>1, <1>2, <1>3 DEF IInv

\* claim_sequence_in: the number it returns is above everything handed out
\* before, and stays within the file's watermark.
LEMMA ClaimSequenceFacts ==
  ASSUME TypeOK, WindowInv, NeverRepeat, ClaimSequence
  PROVE  /\ NextSequence \in 1..MaxSequence
         /\ HandedAtMost(NextSequence - 1)
         /\ watermark' \in 0..MaxSequence
         /\ issued' = NextSequence
         /\ issued' <= watermark'
         /\ reservedThrough' \in 1..MaxSequence
         /\ reservedThrough' <= watermark'
         /\ watermark <= watermark'
         /\ draws' \in Seq(1..MaxSequence)
         /\ \A i \in 1..Len(draws') : draws'[i] <= issued'
         /\ NeverRepeat'
  <1> USE JournalAssumption
  <1> DEFINE n == NextSequence
  <1>0. /\ issued \in Nat /\ watermark \in Nat /\ reservedThrough \in Nat
        /\ issued <= MaxSequence /\ watermark <= MaxSequence
        /\ reservedThrough <= MaxSequence
        /\ draws \in Seq(1..MaxSequence)
        /\ \A x \in rows \cup snaps : x \in Nat
        /\ draws' = Append(draws, n)
        /\ issued' = n
    BY DEF TypeOK, ClaimSequence
  <1>1. /\ n \in 1..MaxSequence
        /\ HandedAtMost(n - 1)
        /\ watermark' \in 0..MaxSequence
        /\ n <= watermark'
        /\ reservedThrough' \in 1..MaxSequence
        /\ reservedThrough' <= watermark'
        /\ watermark <= watermark'
    <2>1. CASE NeedsBlock
      <3>1. /\ BlockFloor = watermark
            /\ watermark' = watermark + BlockSize
            /\ reservedThrough' = watermark + BlockSize
            /\ watermark + BlockSize <= MaxSequence
            /\ n = watermark + 1
        BY <1>0, <2>1 DEF ClaimSequence, ReserveBlock, BlockFloor, NextSequence, WindowInv
      <3>2. HandedAtMost(n - 1)
        BY <1>0, <3>1 DEF WindowInv
      <3> QED BY <1>0, <3>1, <3>2
    <2>2. CASE ~NeedsBlock
      <3>1. /\ n = issued + 1
            /\ issued < reservedThrough
            /\ watermark' = watermark
            /\ reservedThrough' = reservedThrough
        BY <1>0, <2>2 DEF ClaimSequence, NeedsBlock, NextSequence
      <3>2. HandedAtMost(n - 1)
        BY <1>0, <3>1 DEF WindowInv
      <3> QED BY <1>0, <3>1, <3>2 DEF WindowInv
    <2> QED BY <2>1, <2>2
  <1>2. /\ draws' \in Seq(1..MaxSequence)
        /\ Len(draws') = Len(draws) + 1
        /\ \A i \in 1..Len(draws) : draws'[i] = draws[i] /\ draws[i] \in Nat
        /\ draws'[Len(draws) + 1] = n
    BY <1>0, <1>1
  <1>3. \A i \in 1..Len(draws) : draws[i] < n
    BY <1>0, <1>1, <1>2 DEF HandedAtMost
  <1>4. \A i \in 1..Len(draws') : draws'[i] <= n
    BY <1>0, <1>1, <1>2, <1>3
  <1>5. NeverRepeat'
    <2> SUFFICES ASSUME NEW i \in 1..Len(draws'), NEW j \in 1..Len(draws'), i < j
                 PROVE  draws'[i] < draws'[j]
      BY DEF NeverRepeat
    <2>1. i \in 1..Len(draws)
      BY <1>0, <1>2
    <2>2. CASE j \in 1..Len(draws)
      BY <1>2, <2>1, <2>2 DEF NeverRepeat
    <2>3. CASE j = Len(draws) + 1
      BY <1>2, <1>3, <2>1, <2>3
    <2>4. Len(draws) \in Nat
      BY <1>0
    <2>5. Len(draws') = Len(draws) + 1
      BY <1>2
    <2>6. j \in 1..(Len(draws) + 1)
      BY <2>5
    <2>7. j \in 1..Len(draws) \/ j = Len(draws) + 1
      BY <2>4, <2>6
    <2> QED BY <2>2, <2>3, <2>7
  <1> HIDE DEF n
  <1>6. QED BY <1>0, <1>1, <1>2, <1>4, <1>5 DEF n

\* A step that draws no number and opens no window keeps WindowInv when it
\* adds no row: rows only leave, so the bounds on what was handed out stand.
LEMMA WindowUnchanged ==
  ASSUME WindowInv, rows' \subseteq rows,
         UNCHANGED <<watermark, issued, reservedThrough, draws, snaps>>
  PROVE  WindowInv'
  BY DEF WindowInv, HandedAtMost

\* The calls that only touch claims, tokens and the reserve counter.
ClaimStep ==
    \/ ReserveCheck \/ ReserveInsert
    \/ \E k \in tokens : Hold(k) \/ Release(k) \/ DropToken(k)
    \/ \E c \in claims : LeaseExpire(c)

\* They leave rows, window, lock holder and histories alone.
LEMMA ClaimStepFrame ==
  ASSUME ClaimStep
  PROVE  UNCHANGED <<rows, watermark, issued, reservedThrough, writer, up, draws, snaps>>
  BY DEF ClaimStep, ReserveCheck, ReserveInsert, Hold, Release, DropToken,
         LeaseExpire, fileVars, windowVars, history

\* The claim calls keep the types of what they touch, and ids stay a key.
LEMMA ClaimStepClaims ==
  ASSUME IInv, ClaimStep
  PROVE  /\ claims' \subseteq Claim
         /\ tokens' \subseteq 1..MaxClaims
         /\ checked' \in 0..MaxCallers
         /\ TokensNameClaims'
         /\ up' = up /\ (~up => tokens' = {})
  <1> USE JournalAssumption
  <1>0. /\ claims \subseteq Claim /\ tokens \subseteq 1..MaxClaims
        /\ checked \in 0..MaxCallers
        /\ tokens \subseteq ClaimIds
        /\ \A c, d \in claims : c.id = d.id => c = d
        /\ ~up => tokens = {}
    BY DEF IInv, TypeOK, TokensNameClaims, DownInv
  <1>1. CASE ReserveCheck
    BY <1>0, <1>1 DEF ReserveCheck, fileVars, TokensNameClaims, ClaimIds
  <1>2. CASE ReserveInsert
    <2>1. PICK n \in ClaimIds \cup {0} :
             /\ IsHighest(n, ClaimIds)
             /\ n < MaxClaims
             /\ claims' = claims \cup {[id |-> n + 1, blocking |-> TRUE, fresh |-> TRUE]}
             /\ tokens' = tokens \cup {n + 1}
      BY <1>2 DEF ReserveInsert
    <2> DEFINE new == [id |-> n + 1, blocking |-> TRUE, fresh |-> TRUE]
    <2>2. n \in 0..MaxClaims /\ n + 1 \in 1..MaxClaims
      BY <1>0, <2>1 DEF ClaimIds, Claim
    <2>3. new \in Claim /\ new.id = n + 1
      BY <2>2 DEF Claim
    <2>4. \A c \in claims : c.id # n + 1
      <3> SUFFICES ASSUME NEW c \in claims PROVE c.id # n + 1
        OBVIOUS
      <3>1. c.id \in ClaimIds /\ c.id \in Nat
        BY <1>0 DEF ClaimIds, Claim
      <3>2. c.id <= n
        BY <2>1, <3>1 DEF IsHighest
      <3> QED BY <2>2, <3>1, <3>2
    <2>5. \A c, d \in claims' : c.id = d.id => c = d
      BY <1>0, <2>1, <2>3, <2>4
    <2>6. tokens' \subseteq ClaimIds'
      BY <1>0, <2>1, <2>3 DEF ClaimIds
    <2>7. checked' \in 0..MaxCallers /\ up' = up /\ up
      BY <1>0, <1>2 DEF ReserveInsert
    <2> QED BY <1>0, <2>1, <2>2, <2>3, <2>5, <2>6, <2>7 DEF TokensNameClaims
  <1>3. ASSUME NEW k \in tokens, Hold(k)
        PROVE  /\ claims' \subseteq Claim /\ TokensNameClaims'
    <2>1. PICK c \in claims : c.id = k
                /\ claims' = (claims \ {c}) \cup {[c EXCEPT !.blocking = FALSE]}
      BY <1>3 DEF Hold
    <2> DEFINE new == [c EXCEPT !.blocking = FALSE]
    <2>2. new \in Claim /\ new.id = c.id
      BY <1>0 DEF Claim
    <2>3. tokens' = tokens
      BY <1>3 DEF Hold
    <2> QED BY <1>0, <2>1, <2>2, <2>3 DEF TokensNameClaims, ClaimIds
  <1>4. ASSUME NEW k \in tokens, Release(k)
        PROVE  /\ claims' \subseteq Claim /\ TokensNameClaims'
               /\ tokens' \subseteq tokens
    BY <1>0, <1>4 DEF Release, TokensNameClaims, ClaimIds
  <1>5. ASSUME NEW k \in tokens, DropToken(k)
        PROVE  /\ claims' \subseteq Claim /\ TokensNameClaims'
               /\ tokens' \subseteq tokens
    BY <1>0, <1>5 DEF DropToken, TokensNameClaims, ClaimIds, fileVars
  <1>6. ASSUME NEW c \in claims, LeaseExpire(c)
        PROVE  /\ claims' \subseteq Claim /\ TokensNameClaims'
    <2> DEFINE new == [c EXCEPT !.fresh = FALSE]
    <2>1. new \in Claim /\ new.id = c.id
      BY <1>0 DEF Claim
    <2>2. claims' = (claims \ {c}) \cup {new} /\ tokens' = tokens
      BY <1>6 DEF LeaseExpire
    <2> QED BY <1>0, <2>1, <2>2 DEF TokensNameClaims, ClaimIds
  <1>7. ASSUME NEW k \in tokens, Hold(k) \/ Release(k) \/ DropToken(k)
        PROVE  /\ tokens' \subseteq tokens /\ checked' = checked /\ up' = up
    BY <1>7 DEF Hold, Release, DropToken
  <1>8. ASSUME NEW c \in claims, LeaseExpire(c)
        PROVE  tokens' = tokens /\ checked' = checked /\ up' = up
    BY <1>8 DEF LeaseExpire
  <1> QED BY <1>0, <1>1, <1>2, <1>3, <1>4, <1>5, <1>6, <1>7, <1>8 DEF ClaimStep

\* A claim call keeps the whole invariant.
LEMMA ClaimStepPreserves == IInv /\ ClaimStep => IInv'
  <1> SUFFICES ASSUME IInv, ClaimStep PROVE IInv'
    OBVIOUS
  <1>1. UNCHANGED <<rows, watermark, issued, reservedThrough, writer, up, draws, snaps>>
    BY ClaimStepFrame
  <1>2. /\ claims' \subseteq Claim
        /\ tokens' \subseteq 1..MaxClaims
        /\ checked' \in 0..MaxCallers
        /\ TokensNameClaims'
        /\ (~up => tokens' = {})
    BY ClaimStepClaims
  <1>3. TypeOK'
    BY <1>1, <1>2 DEF IInv, TypeOK
  <1>4. WindowInv'
    BY <1>1, WindowUnchanged DEF IInv
  <1>5. WriterInv' /\ DownInv'
    BY <1>1, <1>2 DEF IInv, WriterInv, DownInv
  <1>6. NeverRepeat'
    BY <1>1 DEF IInv, NeverRepeat
  <1> QED BY <1>2, <1>3, <1>4, <1>5, <1>6 DEF IInv

\* append_within up to its number: the writer owns a number above every row
\* and every snapshot.
LEMMA AppendNumberPreserves ==
  ASSUME IInv, NEW k \in tokens \cup {NoClaim}, AppendNumber(k)
  PROVE  IInv'
  <1> USE JournalAssumption
  <1> DEFINE n == NextSequence
  <1>1. /\ n \in 1..MaxSequence
        /\ HandedAtMost(n - 1)
        /\ watermark' \in 0..MaxSequence
        /\ issued' = n /\ issued' <= watermark'
        /\ reservedThrough' \in 1..MaxSequence /\ reservedThrough' <= watermark'
        /\ draws' \in Seq(1..MaxSequence)
        /\ \A i \in 1..Len(draws') : draws'[i] <= issued'
        /\ NeverRepeat'
    BY ClaimSequenceFacts DEF IInv, AppendNumber
  <1>2. /\ up /\ writer' = [seq |-> n, claim |-> k]
        /\ UNCHANGED <<rows, claims, up, tokens, checked, snaps>>
    BY DEF AppendNumber
  <1>3. TypeOK /\ TokensNameClaims
    BY DEF IInv
  <1>4. k \in 0..MaxClaims
    BY <1>3 DEF TypeOK, NoClaim
  <1> HIDE DEF n
  <1>5. TypeOK'
    BY <1>1, <1>2, <1>3, <1>4 DEF TypeOK
  <1>6. \A x \in rows \cup snaps : x \in Nat /\ x <= n - 1
    BY <1>1, <1>3 DEF TypeOK, HandedAtMost
  <1>7. WindowInv'
    <2>1. HandedAtMost(issued)'
      BY <1>1, <1>2, <1>6 DEF HandedAtMost
    <2>2. HandedAtMost(watermark)'
      <3>1. \A x \in rows' \cup snaps' : x <= watermark'
        BY <1>1, <1>2, <1>6
      <3>2. \A i \in 1..Len(draws') : draws'[i] <= watermark'
        BY <1>1
      <3> QED BY <3>1, <3>2 DEF HandedAtMost
    <2> QED BY <1>1, <2>1, <2>2 DEF WindowInv
  <1>8. WriterInv'
    BY <1>1, <1>2, <1>6 DEF WriterInv
  <1>9. DownInv' /\ TokensNameClaims'
    BY <1>2, <1>3 DEF DownInv, TokensNameClaims, ClaimIds
  <1> QED BY <1>1, <1>5, <1>7, <1>8, <1>9 DEF IInv

\* snapshot_sequence: as an append, with the number given to the snapshot.
LEMMA SnapshotSequencePreserves ==
  ASSUME IInv, NEW offered \in 0..MaxSequence, SnapshotSequence(offered)
  PROVE  IInv'
  <1> USE JournalAssumption
  <1> DEFINE n == NextSequence
  <1>1. /\ n \in 1..MaxSequence
        /\ HandedAtMost(n - 1)
        /\ watermark' \in 0..MaxSequence
        /\ issued' = n /\ issued' <= watermark'
        /\ reservedThrough' \in 1..MaxSequence /\ reservedThrough' <= watermark'
        /\ draws' \in Seq(1..MaxSequence)
        /\ \A i \in 1..Len(draws') : draws'[i] <= issued'
        /\ NeverRepeat'
    BY ClaimSequenceFacts DEF IInv, SnapshotSequence
  <1>2. /\ up /\ writer = NoWriter /\ snaps' = snaps \cup {n}
        /\ UNCHANGED <<rows, claims, up, writer, tokens, checked>>
    BY DEF SnapshotSequence
  <1>3. TypeOK /\ TokensNameClaims
    BY DEF IInv
  <1> HIDE DEF n
  <1>4. TypeOK'
    BY <1>1, <1>2, <1>3 DEF TypeOK
  <1>5. \A x \in rows' \cup snaps' : x \in Nat /\ x <= n
    BY <1>1, <1>2, <1>3 DEF TypeOK, HandedAtMost
  <1>6. WindowInv'
    <2>1. HandedAtMost(issued)'
      BY <1>1, <1>5 DEF HandedAtMost
    <2>2. HandedAtMost(watermark)'
      <3>1. \A x \in rows' \cup snaps' : x <= watermark'
        BY <1>1, <1>5
      <3>2. \A i \in 1..Len(draws') : draws'[i] <= watermark'
        BY <1>1
      <3> QED BY <3>1, <3>2 DEF HandedAtMost
    <2> QED BY <1>1, <2>1, <2>2 DEF WindowInv
  <1>7. WriterInv' /\ DownInv' /\ TokensNameClaims'
    BY <1>2, <1>3 DEF WriterInv, DownInv, TokensNameClaims, ClaimIds
  <1> QED BY <1>1, <1>4, <1>6, <1>7 DEF IInv

\* append_within's commit: the row takes the writer's number.
LEMMA AppendCommitPreserves == IInv /\ AppendCommit => IInv'
  <1> SUFFICES ASSUME IInv, AppendCommit PROVE IInv'
    OBVIOUS
  <1>1. /\ up /\ writer # NoWriter
        /\ rows' = rows \cup {writer.seq}
        /\ claims' = {c \in claims : c.id # writer.claim}
        /\ tokens' = tokens \ {writer.claim}
        /\ writer' = NoWriter
        /\ UNCHANGED <<watermark, up, issued, reservedThrough, checked, draws, snaps>>
    BY DEF AppendCommit, windowVars, history
  <1>2. /\ TypeOK /\ WindowInv /\ TokensNameClaims /\ NeverRepeat
        /\ writer.seq \in 1..issued /\ reservedThrough > 0
    BY <1>1 DEF IInv, WriterInv
  <1>3. writer.seq \in 1..MaxSequence /\ writer.seq <= issued /\ writer.seq <= watermark
    BY <1>2, JournalAssumption DEF TypeOK, WindowInv
  <1>4. TypeOK'
    <2>1. writer' \in [seq : 0..MaxSequence, claim : 0..MaxClaims]
      BY <1>1, JournalAssumption DEF NoWriter, NoClaim
    <2> QED BY <1>1, <1>2, <1>3, <2>1 DEF TypeOK
  <1>5. WindowInv'
    BY <1>1, <1>2, <1>3 DEF WindowInv, HandedAtMost
  <1>6. WriterInv' /\ DownInv' /\ NeverRepeat'
    BY <1>1, <1>2 DEF WriterInv, DownInv, NeverRepeat
  <1>7. TokensNameClaims'
    BY <1>1, <1>2 DEF TokensNameClaims, ClaimIds
  <1> QED BY <1>4, <1>5, <1>6, <1>7 DEF IInv

\* append_within's errors give the lock back and change nothing else.
LEMMA AppendRefusedPreserves == IInv /\ AppendRefused => IInv'
  <1> SUFFICES ASSUME IInv, AppendRefused PROVE IInv'
    OBVIOUS
  <1>1. /\ up /\ writer' = NoWriter
        /\ UNCHANGED <<rows, watermark, claims, up, issued, reservedThrough,
                       tokens, checked, draws, snaps>>
    BY DEF AppendRefused, fileVars, windowVars, history
  <1>2. TypeOK'
    <2>1. writer' \in [seq : 0..MaxSequence, claim : 0..MaxClaims]
      BY <1>1, JournalAssumption DEF NoWriter, NoClaim
    <2> QED BY <1>1, <2>1 DEF IInv, TypeOK
  <1>3. WindowInv'
    BY <1>1, WindowUnchanged DEF IInv
  <1>4. WriterInv' /\ DownInv' /\ NeverRepeat' /\ TokensNameClaims'
    BY <1>1 DEF IInv, WriterInv, DownInv, NeverRepeat, TokensNameClaims, ClaimIds
  <1> QED BY <1>2, <1>3, <1>4 DEF IInv

\* An acknowledgement removes one row.
LEMMA AcknowledgePreserves ==
  ASSUME IInv, NEW m \in rows, Acknowledge(m)
  PROVE  IInv'
  <1>1. /\ rows' = rows \ {m}
        /\ UNCHANGED <<watermark, claims, up, issued, reservedThrough, writer,
                       tokens, checked, draws, snaps>>
    BY DEF Acknowledge, windowVars, history
  <1>2. TypeOK'
    BY <1>1 DEF IInv, TypeOK
  <1>3. WindowInv'
    BY <1>1, WindowUnchanged DEF IInv
  <1>4. WriterInv' /\ DownInv' /\ NeverRepeat' /\ TokensNameClaims'
    BY <1>1 DEF IInv, WriterInv, DownInv, NeverRepeat, TokensNameClaims, ClaimIds
  <1> QED BY <1>2, <1>3, <1>4 DEF IInv

\* The process dies: only what is on disk, and the histories, survive.
LEMMA CrashPreserves == IInv /\ Crash => IInv'
  <1> SUFFICES ASSUME IInv, Crash PROVE IInv'
    OBVIOUS
  <1>1. /\ ~up' /\ issued' = 0 /\ reservedThrough' = 0 /\ writer' = NoWriter
        /\ tokens' = {} /\ checked' = 0
        /\ UNCHANGED <<rows, watermark, claims, draws, snaps>>
    BY DEF Crash, fileVars, history
  <1>2. TypeOK'
    <2>1. writer' \in [seq : 0..MaxSequence, claim : 0..MaxClaims]
      BY <1>1, JournalAssumption DEF NoWriter, NoClaim
    <2>2. up' \in BOOLEAN
      BY Zenon DEF Crash
    <2> QED BY <1>1, <2>1, <2>2, JournalAssumption DEF IInv, TypeOK
  <1>3. WindowInv'
    <2>1. watermark \in Nat /\ HandedAtMost(watermark)
      BY JournalAssumption DEF IInv, TypeOK, WindowInv
    <2> QED BY <1>1, <2>1 DEF WindowInv, HandedAtMost
  <1>4. WriterInv' /\ DownInv' /\ NeverRepeat' /\ TokensNameClaims'
    BY <1>1 DEF IInv, WriterInv, DownInv, NeverRepeat, TokensNameClaims, ClaimIds
  <1> QED BY <1>2, <1>3, <1>4 DEF IInv

\* Journal::open: the window starts closed, at the highest waiting row.
LEMMA OpenPreserves == IInv /\ Open => IInv'
  <1> SUFFICES ASSUME IInv, Open PROVE IInv'
    OBVIOUS
  <1>1. /\ up' /\ reservedThrough' = 0
        /\ claims' \subseteq claims
        /\ issued' \in rows \cup {0}
        /\ UNCHANGED <<rows, watermark, writer, tokens, checked, draws, snaps>>
        /\ writer = NoWriter /\ tokens = {}
    BY DEF Open, history, IInv, DownInv
  <1>2. issued' \in 0..MaxSequence /\ issued' <= watermark
    BY <1>1, JournalAssumption DEF IInv, TypeOK, WindowInv, HandedAtMost
  <1>3. TypeOK'
    <2>1. up' \in BOOLEAN
      BY Zenon DEF Open
    <2> QED BY <1>1, <1>2, <2>1, JournalAssumption DEF IInv, TypeOK
  <1>4. WindowInv'
    <2>1. watermark \in Nat /\ HandedAtMost(watermark)
      BY JournalAssumption DEF IInv, TypeOK, WindowInv
    <2> QED BY <1>1, <1>2, <2>1 DEF WindowInv, HandedAtMost
  <1>5. WriterInv' /\ DownInv' /\ NeverRepeat' /\ TokensNameClaims'
    BY <1>1 DEF IInv, WriterInv, DownInv, NeverRepeat, TokensNameClaims, ClaimIds
  <1> QED BY <1>3, <1>4, <1>5 DEF IInv

----------------------------------------------------------------------------

\* The inductive invariant holds of every reachable state of the outbox.
THEOREM Invariance == Spec => []IInv
  <1>1. IInv /\ [Next]_vars => IInv'
    <2> SUFFICES ASSUME IInv, [Next]_vars PROVE IInv'
      OBVIOUS
    <2>1. CASE ClaimStep
      BY <2>1, ClaimStepPreserves
    <2>2. CASE \E k \in tokens \cup {NoClaim} : AppendNumber(k)
      BY <2>2, AppendNumberPreserves
    <2>3. CASE AppendCommit
      BY <2>3, AppendCommitPreserves
    <2>4. CASE AppendRefused
      BY <2>4, AppendRefusedPreserves
    <2>5. CASE \E offered \in 0..MaxSequence : SnapshotSequence(offered)
      BY <2>5, SnapshotSequencePreserves
    <2>6. CASE \E m \in rows : Acknowledge(m)
      BY <2>6, AcknowledgePreserves
    <2>7. CASE Crash
      BY <2>7, CrashPreserves
    <2>8. CASE Open
      BY <2>8, OpenPreserves
    <2>9. CASE UNCHANGED vars
      BY <2>9 DEF vars, IInv, TypeOK, WindowInv, HandedAtMost, WriterInv, DownInv,
                  TokensNameClaims, ClaimIds, NeverRepeat
    <2> QED BY <2>1, <2>2, <2>3, <2>4, <2>5, <2>6, <2>7, <2>8, <2>9
            DEF Next, ClaimStep
  <1> QED BY <1>1, InitEstablishes, PTL DEF Spec

\* Type correctness of the outbox, for every size of file.
THEOREM TypeCorrect == Spec => []TypeOK
  <1>1. IInv => TypeOK
    BY DEF IInv
  <1> QED BY <1>1, Invariance, PTL

\* "A gap, never a repeat": the numbers the outbox hands out, over any number
\* of crashes, restarts, failed appends and snapshots, strictly increase.
THEOREM SequenceNeverRepeats == Spec => []NeverRepeat
  <1>1. IInv => NeverRepeat
    BY DEF IInv
  <1> QED BY <1>1, Invariance, PTL

\* No crash leaves a file whose rows are above its watermark, so the check in
\* persisted_high_water never stops a worker.
THEOREM RestartNeverRefused == Spec => []OpenNeverRefuses
  <1>1. IInv => OpenNeverRefuses
    BY DEF IInv, WindowInv, HandedAtMost, OpenNeverRefuses
  <1> QED BY <1>1, Invariance, PTL

\* A reservation token names one live claim for as long as it is owned.
THEOREM TokenOwnership == Spec => []TokensNameClaims
  <1>1. IInv => TokensNameClaims
    BY DEF IInv
  <1> QED BY <1>1, Invariance, PTL

\* Commit order is sequence order: no row reaches the file numbered below a
\* snapshot already drawn or a row already waiting.
THEOREM CommitOrder == Spec => RowsCommitInOrder
  <1> DEFINE Ordered == \A r \in rows' \ rows :
                           /\ \A s \in snaps : s < r
                           /\ \A q \in rows : q < r
  <1>1. IInv /\ [Next]_vars => [Ordered]_vars
    <2> SUFFICES ASSUME IInv, Next PROVE Ordered
      OBVIOUS
    <2>1. CASE AppendCommit
      <3>1. rows' = rows \cup {writer.seq} /\ writer # NoWriter
        BY <2>1 DEF AppendCommit
      <3>2. \A x \in rows \cup snaps : x < writer.seq
        BY <3>1 DEF IInv, WriterInv
      <3> QED BY <3>1, <3>2
    <2>2. CASE ~AppendCommit
      <3>1. rows' \subseteq rows
        BY <2>2 DEF Next, ReserveCheck, ReserveInsert, Hold, Release, DropToken,
             LeaseExpire, AppendNumber, AppendRefused, SnapshotSequence, Acknowledge,
             Crash, Open, fileVars
      <3> QED BY <3>1
    <2> QED BY <2>1, <2>2
  <1> QED BY <1>1, Invariance, PTL DEF Spec, RowsCommitInOrder

=============================================================================
