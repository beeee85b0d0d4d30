----------------------------- MODULE MCAudioTest ------------------------------
(* The instance of AudioTest for TLC: it has no constants.                       *)
EXTENDS AudioTest
=============================================================================
