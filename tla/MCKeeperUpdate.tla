--------------------------- MODULE MCKeeperUpdate ---------------------------
(* KeeperUpdate for TLC: the instances are the MCKeeper .cfg files.        *)
EXTENDS KeeperUpdate

CONSTANTS s1, s2, r1, r2

=============================================================================
