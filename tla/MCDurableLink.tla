--------------------------- MODULE MCDurableLink ---------------------------
(* DurableLink for TLC: the instances are the .cfg files of this name.     *)
EXTENDS DurableLink

=============================================================================
