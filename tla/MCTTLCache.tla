---------------------------- MODULE MCTTLCache ----------------------------
(* The instance of TTLCache that is checked. *)
EXTENDS TTLCache, TLC

Symmetry == Permutations(Callers) \cup Permutations(Keys)
=============================================================================
