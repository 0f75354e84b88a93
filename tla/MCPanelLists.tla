---------------------------- MODULE MCPanelLists ----------------------------
(* Instances of PanelLists for TLC. *)
EXTENDS PanelLists, TLC
==============================================================================
