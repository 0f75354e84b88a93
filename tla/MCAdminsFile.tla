---------------------------- MODULE MCAdminsFile ----------------------------
(* Instances of AdminsFile for TLC: two administrators to start with. *)
EXTENDS AdminsFile, TLC

CONSTANTS d1, d2, d3, d4, alice, bob

TwoAdmins == {[id |-> d1, name |-> alice, hash |-> d1], [id |-> d2, name |-> bob, hash |-> d2]}

MCInitialFiles == {TwoAdmins}

(* Handlers of the panel are interchangeable; so are the unused draws. *)
Symmetry == Permutations(Requests) \cup Permutations({d3, d4})
==============================================================================
