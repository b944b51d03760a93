---------------------------- MODULE MCBandwidth ----------------------------
(***************************************************************************)
(* Instances of Bandwidth for TLC.                                         *)
(***************************************************************************)
EXTENDS Bandwidth, TLC

Symmetry == Permutations(Conn) \cup Permutations(Caller)

=============================================================================
