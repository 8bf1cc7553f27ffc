----------------------------- MODULE MCRegistry -----------------------------
(* Instances of Registry for TLC. *)
EXTENDS Registry, TLC

CallerSymmetry == Permutations(Caller)

=============================================================================
