---------------------------- MODULE MCDeviceServer ----------------------------
(* Instances of DeviceServer for TLC.                                           *)
EXTENDS DeviceServer
=============================================================================
