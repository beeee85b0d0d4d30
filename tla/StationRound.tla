----------------------------- MODULE StationRound ------------------------------
(* What a test station promises: a device is attached, rounds of tests are run on *)
(* it one at a time, each files at most one report, and the device is let go only *)
(* between rounds.                                                                *)
CONSTANTS Devices, NoDev

VARIABLES
    attached,     \* the device on the station, or NoDev
    testing,      \* a round is in progress
    filed         \* the round in progress has filed its report

vars == <<attached, testing, filed>>

Init == attached = NoDev /\ testing = FALSE /\ filed = FALSE

Attach(d) == /\ attached = NoDev /\ ~testing
             /\ attached' = d /\ UNCHANGED <<testing, filed>>

Begin == /\ attached # NoDev /\ ~testing
         /\ testing' = TRUE /\ UNCHANGED <<attached, filed>>

File == /\ testing /\ ~filed
        /\ filed' = TRUE /\ UNCHANGED <<attached, testing>>

End == /\ testing
       /\ testing' = FALSE /\ filed' = FALSE /\ UNCHANGED attached

Detach == /\ attached # NoDev /\ ~testing
          /\ attached' = NoDev /\ UNCHANGED <<testing, filed>>

\* A waiting scan starts its round in the step that attaches the device.
AttachAndBegin(d) == /\ attached = NoDev /\ ~testing
                     /\ attached' = d /\ testing' = TRUE /\ UNCHANGED filed

Next == (\E d \in Devices : Attach(d) \/ AttachAndBegin(d)) \/ Begin \/ File \/ End \/ Detach

Spec == Init /\ [][Next]_vars
=============================================================================
