-------------------------- MODULE MCAuthentication --------------------------
(* Instances of Authentication for TLC. *)
EXTENDS Authentication, TLC

AuthSymmetry ==
  Permutations(Handlers) \cup Permutations(Browsers) \cup Permutations(Subjects)
=============================================================================
