---------------------------- MODULE MCSubscribers ----------------------------
(* Instances of Subscribers for TLC. *)
EXTENDS Subscribers, TLC

Symmetry == Permutations(Ids) \cup Permutations(Tokens) \cup Permutations(Accounts)
               \cup Permutations(EntryIds)
==============================================================================
