----------------------------- MODULE MCRegistry -----------------------------
(* Two CRDs with one plural in different groups. *)
EXTENDS Registry, TLC

MCCRDs == {[plural |-> "jobs", group |-> "batch"], [plural |-> "jobs", group |-> "flow"]}

Symmetry == Permutations(Calls)
=============================================================================
