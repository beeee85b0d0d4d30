--------------------------- MODULE MCDeviceDetect -----------------------------
(* Instances of DeviceDetect for TLC. *)
EXTENDS DeviceDetect, TLC

\* Nothing tells one serial number from another.
SNSymmetry == Permutations(SNs)
=============================================================================
