---------------------------- MODULE MCDefaultFlag ----------------------------
(* Small instances of DefaultFlag.                                         *)
EXTENDS DefaultFlag, TLC

\* The request slots are interchangeable.
Symmetry == Permutations(Requests)

==============================================================================
