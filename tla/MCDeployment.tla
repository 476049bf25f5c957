---------------------------- MODULE MCDeployment ----------------------------
(* Instances of Deployment for TLC. *)
EXTENDS Deployment

\* Settings around the limits, whose sums do not wrap.
SmallValues == {-1, 0, 1, 2, 3}

\* With MaxInt = 31, 31 + 1 wraps to -32.
WrappingValues == {1, 2, 31}
=============================================================================
