------------------------------- MODULE MCOps -------------------------------
(* Small instances of Ops for TLC. *)
EXTENDS Ops, TLC

(* Sound for the safety properties: no action and no invariant tells two    *)
(* readers, two writers or two databases apart.                             *)
OpsSymmetry == Permutations(Readers) \cup Permutations(Writers) \cup Permutations(Databases)

=============================================================================
