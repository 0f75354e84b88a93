------------------------------ MODULE MCSignIn ------------------------------
(* Instances of SignIn for TLC. *)
EXTENDS SignIn, TLC

CONSTANTS d1, d2, alice, bob

OneAdmin == {[id |-> d1, name |-> alice, hash |-> d1]}

MCInitialFiles == {OneAdmin}

Symmetry == Permutations(Keys) \cup Permutations(Clients)
==============================================================================
