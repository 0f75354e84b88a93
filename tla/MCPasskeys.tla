------------------------------ MODULE MCPasskeys ------------------------------
(* Instances of Passkeys for TLC. *)
EXTENDS Passkeys, TLC

Symmetry == Permutations(Admins) \cup Permutations(Devices) \cup Permutations(Handles)
               \cup Permutations(Creds)
==============================================================================
