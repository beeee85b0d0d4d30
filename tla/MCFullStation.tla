---------------------------- MODULE MCFullStation -----------------------------
(* Instances of FullStation for TLC.                                            *)
EXTENDS FullStation, TLC

Symmetry == Permutations(Addrs) \cup Permutations(SNs)
=============================================================================
