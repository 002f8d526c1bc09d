----------------------------- MODULE MCPolling ------------------------------
(***************************************************************************)
(* Instance of Polling for TLC: two devices, one of two fields, whose      *)
(* samples are told apart, and one of one field.                           *)
(***************************************************************************)
EXTENDS Polling

TwoDevices == <<2, 1>>
OneToldApart == <<2, 1>>
=============================================================================
