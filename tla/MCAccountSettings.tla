-------------------------- MODULE MCAccountSettings --------------------------
(***************************************************************************)
(* Small instances of AccountSettings.                                     *)
(***************************************************************************)
EXTENDS AccountSettings, TLC

\* One tag of a namespace of one service, one of a namespace of two services.
MCTags == {[owner |-> "loyalty.",   name |-> 1],
           [owner |-> "marketing.", name |-> 1]}

\* One tag, where the tags are not the question.
MCOneTag == {[owner |-> "support.", name |-> 1]}

\* The request slots are interchangeable.
Symmetry == Permutations(Requests)

==============================================================================
