----------------------------- MODULE MCSyncFeed -----------------------------
(* SyncFeed for TLC: the instances are the MCSync .cfg files.              *)
EXTENDS SyncFeed

CONSTANTS s1, s2

=============================================================================
