---------------------------- MODULE MCCeremonies ----------------------------
(* Instances of Ceremonies for TLC. *)
EXTENDS Ceremonies, TLC

Symmetry == Permutations(Attempts) \cup Permutations(Admins)
==============================================================================
