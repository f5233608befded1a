---------------------------- MODULE MCTunnPair ----------------------------
(***************************************************************************)
(* Model-checking instance of TunnPair: the two ends are interchangeable.  *)
(***************************************************************************)
EXTENDS TunnPair, TLC

Symmetry == Permutations(Peers)
=============================================================================
