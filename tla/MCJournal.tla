----------------------------- MODULE MCJournal -----------------------------
(* The outbox on a small file: the cap, the block size and the end of the  *)
(* sequence space are all within reach of a few appends and restarts.      *)
EXTENDS Journal
=============================================================================
