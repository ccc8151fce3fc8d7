-------------------------- MODULE MCSessionReplay --------------------------
(* SessionReplay for TLC: the instances are the MCSession .cfg files.      *)
EXTENDS SessionReplay

CONSTANTS s1, s2

=============================================================================
