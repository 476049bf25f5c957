------------------------------ MODULE MCRelease ------------------------------
(* Instances of Release for TLC. *)
EXTENDS Release

CONSTANTS windows, linux

TwoTargets == <<windows, linux>>
=============================================================================
