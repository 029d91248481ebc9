------------------------- MODULE MCRefreshSessions -------------------------
(* Instances of RefreshSessions for TLC. *)
EXTENDS RefreshSessions, TLC

\* Requests are told apart only by the steps they take.
Symmetry == Permutations(Requests)
=============================================================================
