----------------------------- MODULE MCCapture -----------------------------
(***************************************************************************)
(* Instances of Capture for TLC.                                           *)
(***************************************************************************)
EXTENDS Capture

CONSTANT KeyEvents, MouseEvents

MCEvents == [d \in Devices |-> IF d = "keyboard" THEN KeyEvents ELSE MouseEvents]
=============================================================================
