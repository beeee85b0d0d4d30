------------------------------ MODULE MCBootStage ------------------------------
(* Instances of BootStage for TLC.                                              *)
EXTENDS BootStage
=============================================================================
