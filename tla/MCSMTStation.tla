----------------------------- MODULE MCSMTStation ------------------------------
(* Instances of SMTStation for TLC.                                             *)
EXTENDS SMTStation, TLC

Sensors  == <<"lsensor", "version">>
Symmetry == Permutations(Addrs) \cup Permutations(Devices) \cup Permutations(Threads)
=============================================================================
