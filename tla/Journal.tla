------------------------------ MODULE Journal ------------------------------
(***************************************************************************)
(* The worker's durable outbox: crates/roost-worker/src/event_store.       *)
(*                                                                         *)
(* One SQLite file holds the rows the coordinator has not acknowledged,    *)
(* the watermark of the client-sequence space, and the capacity claims of  *)
(* sessions whose closing event is still to come.  One process at a time   *)
(* owns the file; its tasks call reserve, hold, release, emit, append,     *)
(* snapshot_sequence and acknowledge concurrently.  A row is its sequence  *)
(* number: payloads, kinds and byte counts are abstracted, so the two caps *)
(* of the file (rows and bytes) are one cap, MaxRows.                      *)
(***************************************************************************)
EXTENDS Integers, Sequences, FiniteSets

CONSTANTS
    MaxRows,      \* MAX_ROWS
    BlockSize,    \* SEQUENCE_BLOCK_SIZE
    MaxSequence,  \* MAX_SEQUENCE, the top of the sequence space
    MaxClaims,    \* bound of the model: the highest claim id
    MaxCallers    \* bound of the model: reserve calls between check and insert

ASSUME JournalAssumption ==
    /\ MaxRows \in Nat \ {0}
    /\ BlockSize \in Nat \ {0}
    /\ MaxSequence \in Nat
    /\ MaxClaims \in Nat
    /\ MaxCallers \in Nat

VARIABLES
    rows,             \* file: sequence numbers of the rows still waiting
    watermark,        \* file: sequence_state.reserved_through
    claims,           \* file: session_claims, records [id, blocking, fresh]
    up,               \* a process holds the file open
    issued,           \* memory: SequenceWindow.issued
    reservedThrough,  \* memory: SequenceWindow.reserved_through
    writer,           \* memory: the append that holds the window lock
    tokens,           \* memory: ids of the Reservation tokens callers own
    checked,          \* memory: reserve calls past admission, not inserted
    draws,            \* history: every sequence number handed out, in order
    snaps             \* history: the numbers handed to snapshots

fileVars == <<rows, watermark, claims>>
windowVars == <<issued, reservedThrough>>
history == <<draws, snaps>>
vars == <<rows, watermark, claims, up, issued, reservedThrough, writer, tokens,
          checked, draws, snaps>>

NoClaim == 0
NoWriter == [seq |-> 0, claim |-> NoClaim]

Claim == [id : 1..MaxClaims, blocking : BOOLEAN, fresh : BOOLEAN]

ClaimIds == {c.id : c \in claims}

\* SELECT COALESCE(MAX(...), 0): n is the largest member of S, or 0.
IsHighest(n, S) == n \in S \cup {0} /\ \A x \in S : x <= n

\* claims(): the claims inside their lease that still block a snapshot.
BlockingClaims == {c \in claims : c.fresh /\ c.blocking}

\* used_totals: stored rows plus the claims inside their lease.
UsedRows == Cardinality(rows) + Cardinality({c \in claims : c.fresh})

----------------------------------------------------------------------------
(* The sequence window.                                                    *)

\* Fault: the block starts at this process's own count, blind to the file.
BlockFloorBlind == issued

\* Where reserve_block starts: above what this process issued and above
\* everything a process before it may have handed out.
BlockFloor == IF issued >= watermark THEN issued ELSE watermark

NeedsBlock == issued >= reservedThrough

\* The number claim_sequence_in returns.
NextSequence == IF NeedsBlock THEN BlockFloor + 1 ELSE issued + 1

\* Fault: the end of the sequence space is not looked at.
ReserveBlockUnbounded ==
    /\ watermark' = BlockFloor + BlockSize
    /\ reservedThrough' = BlockFloor + BlockSize

\* Fault: the block is used in memory and never written to the file.
ReserveBlockUnwritten ==
    /\ BlockFloor + BlockSize <= MaxSequence
    /\ reservedThrough' = BlockFloor + BlockSize
    /\ UNCHANGED watermark

\* reserve_block: the end of the block is committed before any of it is used,
\* and a block past MAX_SEQUENCE is refused.
ReserveBlock ==
    /\ BlockFloor + BlockSize <= MaxSequence
    /\ watermark' = BlockFloor + BlockSize
    /\ reservedThrough' = BlockFloor + BlockSize

\* claim_sequence_in, under the window lock its caller holds.
ClaimSequence ==
    /\ IF NeedsBlock THEN ReserveBlock ELSE UNCHANGED <<watermark, reservedThrough>>
    /\ issued' = NextSequence
    /\ draws' = Append(draws, NextSequence)

----------------------------------------------------------------------------
(* Capacity claims.  reserve reads the totals and inserts the claim in two *)
(* statements, and other calls may come between them.                      *)

\* reserve, first half: used_totals and admission_fits.
ReserveCheck ==
    /\ up
    /\ UsedRows < MaxRows
    /\ checked < MaxCallers
    /\ checked' = checked + 1
    /\ UNCHANGED <<fileVars, up, windowVars, writer, tokens, history>>

\* Fault: the id counts on from this process's own tokens, not from the file.
ReserveInsertFromMemory ==
    /\ up
    /\ checked > 0
    /\ \E n \in tokens \cup {0} :
          /\ IsHighest(n, tokens)
          /\ n < MaxClaims
          /\ claims' = claims \cup {[id |-> n + 1, blocking |-> TRUE, fresh |-> TRUE]}
          /\ tokens' = tokens \cup {n + 1}
    /\ checked' = checked - 1
    /\ UNCHANGED <<rows, watermark, up, windowVars, writer, history>>

\* reserve, second half: INSERT ... MAX(id) + 1, and the token for it.
ReserveInsert ==
    /\ up
    /\ checked > 0
    /\ \E n \in ClaimIds \cup {0} :
          /\ IsHighest(n, ClaimIds)
          /\ n < MaxClaims
          /\ claims' = claims \cup {[id |-> n + 1, blocking |-> TRUE, fresh |-> TRUE]}
          /\ tokens' = tokens \cup {n + 1}
    /\ checked' = checked - 1
    /\ UNCHANGED <<rows, watermark, up, windowVars, writer, history>>

\* hold: the claim stops blocking snapshots and keeps its room.
Hold(k) ==
    /\ up
    /\ k \in tokens /\ k # writer.claim
    /\ \E c \in claims :
          /\ c.id = k /\ c.blocking
          /\ claims' = (claims \ {c}) \cup {[c EXCEPT !.blocking = FALSE]}
    /\ UNCHANGED <<rows, watermark, up, windowVars, writer, tokens, checked, history>>

\* release: the claim is given back unused.
Release(k) ==
    /\ up
    /\ k \in tokens /\ k # writer.claim
    /\ claims' = {c \in claims : c.id # k}
    /\ tokens' = tokens \ {k}
    /\ UNCHANGED <<rows, watermark, up, windowVars, writer, checked, history>>

\* A caller forgets its token: close_channel does when its emit failed.
DropToken(k) ==
    /\ up
    /\ k \in tokens /\ k # writer.claim
    /\ tokens' = tokens \ {k}
    /\ UNCHANGED <<fileVars, up, windowVars, writer, checked, history>>

\* RESERVATION_LEASE passes for one claim.
LeaseExpire(c) ==
    /\ c.fresh
    /\ claims' = (claims \ {c}) \cup {[c EXCEPT !.fresh = FALSE]}
    /\ UNCHANGED <<rows, watermark, up, windowVars, writer, tokens, checked, history>>

----------------------------------------------------------------------------
(* Rows.  append_within numbers the row and commits it in two transactions *)
(* under one lock, so a crash or an error may fall between them.           *)

\* append_within up to its number: emit when k is a token, append when not.
AppendNumber(k) ==
    /\ up
    /\ writer = NoWriter
    /\ k \in tokens \cup {NoClaim}
    /\ ClaimSequence
    /\ writer' = [seq |-> NextSequence, claim |-> k]
    /\ UNCHANGED <<rows, claims, up, tokens, checked, snaps>>

\* append_within's transaction: the claim is retired and the row inserted.
AppendCommit ==
    /\ up
    /\ writer # NoWriter
    /\ Cardinality(rows) < MaxRows
    /\ writer.claim # NoClaim => writer.claim \in ClaimIds
    /\ rows' = rows \cup {writer.seq}
    /\ claims' = {c \in claims : c.id # writer.claim}
    /\ tokens' = tokens \ {writer.claim}
    /\ writer' = NoWriter
    /\ UNCHANGED <<watermark, up, windowVars, checked, history>>

\* append_within's error paths: Full, Corrupt or a failed query rolls the
\* transaction back; the number stays burned and the claim stays live.
AppendRefused ==
    /\ up
    /\ writer # NoWriter
    /\ writer' = NoWriter
    /\ UNCHANGED <<fileVars, up, windowVars, tokens, checked, history>>

\* Fault: the snapshot is numbered without waiting for the window lock.
SnapshotSequenceUnlocked(offered) ==
    /\ up
    /\ \A r \in rows : r <= offered
    /\ ClaimSequence
    /\ snaps' = snaps \cup {NextSequence}
    /\ UNCHANGED <<rows, claims, up, writer, tokens, checked>>

\* snapshot_sequence: a number for the snapshot, unless a committed row is
\* numbered above what the link has already offered.
SnapshotSequence(offered) ==
    /\ up
    /\ writer = NoWriter
    /\ \A r \in rows : r <= offered
    /\ ClaimSequence
    /\ snaps' = snaps \cup {NextSequence}
    /\ UNCHANGED <<rows, claims, up, writer, tokens, checked>>

\* acknowledge: the coordinator has this row; exactly this row goes.
Acknowledge(n) ==
    /\ up
    /\ n \in rows
    /\ rows' = rows \ {n}
    /\ UNCHANGED <<watermark, claims, up, windowVars, writer, tokens, checked, history>>

----------------------------------------------------------------------------
(* The process dies and another opens the file.                            *)

Crash ==
    /\ up
    /\ up' = FALSE
    /\ issued' = 0 /\ reservedThrough' = 0
    /\ writer' = NoWriter
    /\ tokens' = {}
    /\ checked' = 0
    /\ UNCHANGED <<fileVars, history>>

\* Journal::open: expired claims go, the window starts at the highest row,
\* and a row above the watermark stops the worker.
Open ==
    /\ ~up
    /\ \A r \in rows : r <= watermark
    /\ up' = TRUE
    /\ claims' = {c \in claims : c.fresh}
    /\ issued' \in {n \in rows \cup {0} : IsHighest(n, rows)}
    /\ reservedThrough' = 0
    /\ UNCHANGED <<rows, watermark, writer, tokens, checked, history>>

----------------------------------------------------------------------------

Init ==
    /\ rows = {} /\ watermark = 0 /\ claims = {}
    /\ up = FALSE
    /\ issued = 0 /\ reservedThrough = 0
    /\ writer = NoWriter
    /\ tokens = {} /\ checked = 0
    /\ draws = <<>> /\ snaps = {}

Next ==
    \/ ReserveCheck \/ ReserveInsert
    \/ \E k \in tokens : Hold(k) \/ Release(k) \/ DropToken(k)
    \/ \E c \in claims : LeaseExpire(c)
    \/ \E k \in tokens \cup {NoClaim} : AppendNumber(k)
    \/ AppendCommit \/ AppendRefused
    \/ \E offered \in 0..MaxSequence : SnapshotSequence(offered)
    \/ \E n \in rows : Acknowledge(n)
    \/ Crash \/ Open

Spec == Init /\ [][Next]_vars

----------------------------------------------------------------------------
(* Properties.                                                             *)

\* Type invariant of the file, the process memory and the histories.
TypeOK ==
    /\ rows \subseteq 1..MaxSequence
    /\ watermark \in 0..MaxSequence
    /\ claims \subseteq Claim
    /\ up \in BOOLEAN
    /\ issued \in 0..MaxSequence
    /\ reservedThrough \in 0..MaxSequence
    /\ writer \in [seq : 0..MaxSequence, claim : 0..MaxClaims]
    /\ tokens \subseteq 1..MaxClaims
    /\ checked \in 0..MaxCallers
    /\ draws \in Seq(1..MaxSequence)
    /\ snaps \subseteq 1..MaxSequence

\* "A GAP in the sequence, never a repeat" (sequence.rs): over every crash,
\* failed append and abandoned block, each number handed out is larger than
\* all numbers handed out before it.
NeverRepeat ==
    \A i, j \in 1..Len(draws) : i < j => draws[i] < draws[j]

\* persisted_high_water never meets a row above the watermark, so no crash
\* leaves a file that Journal::open refuses.
OpenNeverRefuses == \A r \in rows : r <= watermark

\* Sequence order is commit order (append_within's lock): a row that reaches
\* the file is numbered above every snapshot drawn before it got there, and
\* above every row waiting with it.
RowsCommitInOrder ==
    [][\A r \in rows' \ rows :
          /\ \A s \in snaps : s < r
          /\ \A q \in rows : q < r]_vars

\* A token names exactly one claim of the file for as long as a caller owns
\* it, although ids are MAX(id) + 1 and are used again after a release.
TokensNameClaims ==
    /\ tokens \subseteq ClaimIds
    /\ \A c, d \in claims : c.id = d.id => c = d

\* Does not hold, see README 4.
\* event_store.rs and claims.rs: "the close still has to fit".  An append
\* that spends a claim is never refused for want of room.
ClaimedAppendFits ==
    writer.claim # NoClaim => Cardinality(rows) < MaxRows

=============================================================================
