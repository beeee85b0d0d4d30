----------------------------- MODULE MCSNStation -----------------------------
(* Instances of SNStation for TLC. *)
EXTENDS SNStation, TLC

Symmetry == Permutations(Devices) \cup Permutations(SNs) \cup Permutations(Threads)
=============================================================================
