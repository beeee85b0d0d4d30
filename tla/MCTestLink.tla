------------------------------ MODULE MCTestLink ------------------------------
(* Instances of TestLink for TLC.                                               *)
EXTENDS TestLink
=============================================================================
