----------------------------- MODULE MCApproval -----------------------------
(* Instances of Approval for TLC. *)
EXTENDS Approval, TLC

CONSTANTS o1, o2, s1, pump, PUMP

OneSite == s1 :> o1

\* "pump" and "PUMP" are equal but for case.
FoldPump == pump :> pump @@ PUMP :> pump
=============================================================================
