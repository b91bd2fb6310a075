----------------------------- MODULE MCWatcher -----------------------------
(* Parents, and waiters, are alike. *)
EXTENDS WatcherProperties, TLC

Symmetry == Permutations(Parents) \cup Permutations(Waiters)
=============================================================================
