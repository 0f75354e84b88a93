------------------------------ MODULE MCPages ------------------------------
(* Instances of Pages for TLC. *)
EXTENDS Pages, TLC
============================================================================
