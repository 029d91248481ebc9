--------------------------- MODULE MCLoginLockout ---------------------------
(* Instances of LoginLockout for TLC. *)
EXTENDS LoginLockout, TLC

\* Attempts are told apart only by the steps they take.
Symmetry == Permutations(Attempts)
=============================================================================
