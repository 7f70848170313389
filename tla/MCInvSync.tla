----------------------------- MODULE MCInvSync -----------------------------
(* Instances of InvSync for TLC. *)
EXTENDS InvSync, TLC

Symmetry == Permutations(Loaders) \cup Permutations(Consumers)
=============================================================================
