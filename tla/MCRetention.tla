----------------------------- MODULE MCRetention -----------------------------
(* Retention for TLC: small limits in the order of the real ones. *)
EXTENDS Retention, TLC

\* Sound for safety only.
Symmetry == Permutations(Jobs)
=============================================================================
