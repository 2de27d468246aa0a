----------------------------- MODULE MCEventDlq -----------------------------
(* Instances of EventDlq for TLC. *)
EXTENDS EventDlq, TLC
=============================================================================
