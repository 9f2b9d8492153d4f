------------------------------ MODULE MCProfile ------------------------------
(* Small instances of Profile.                                             *)
EXTENDS Profile, TLC

\* The request slots are interchangeable, and so are the containers.
Symmetry == Permutations(Requests) \cup Permutations(Containers)

==============================================================================
