---------------------------- MODULE MCCoapObserve ----------------------------
(* CoapObserve for TLC.                                                     *)
EXTENDS CoapObserve, TLC

\* Instances, peers and blocks are interchangeable.
Symmetric ==
  Permutations(Insts) \cup Permutations(Peers) \cup Permutations(Blocks)

=============================================================================
