--------------------------- MODULE MCPublication ---------------------------
(* Publication for TLC: the instances are the MCPublication .cfg files.    *)
EXTENDS Publication

CONSTANTS d1

=============================================================================
