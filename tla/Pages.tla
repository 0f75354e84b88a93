-------------------------------- MODULE Pages --------------------------------
(***************************************************************************)
(* Four screens of the frontend that have nothing to do with one another:   *)
(* the dialog that adds a user to several nodes, the one that attaches      *)
(* accounts to a subscriber, the page behind a share link, and a node's     *)
(* page with its list.  A behaviour stays on one of them.                  *)
(***************************************************************************)
EXTENDS EnrolDialog, AttachDialog, SharePage, PanelLists

VARIABLE screen

vars == <<screen, enrolVars, attachVars, shareVars, listVars>>

Init ==
    /\ screen \in {"enrol", "attach", "share", "list"}
    /\ EnrolInit /\ AttachInit /\ ShareInit /\ ListInit
    \* What is not on screen starts in one way only.
    /\ screen # "enrol" => has = {}
    /\ screen # "share" =>
          /\ token = "" /\ \A e \in Entries : where[e] = Nowhere
          /\ account \in [Entries -> {"active"}] /\ node \in [ShareNodes -> {"answers"}]
    /\ page = IF screen = "list" THEN "node" ELSE "subscribers"

Next ==
    \/ screen = "enrol" /\ EnrolNext /\ UNCHANGED <<screen, attachVars, shareVars, listVars>>
    \/ screen = "attach" /\ AttachNext /\ UNCHANGED <<screen, enrolVars, shareVars, listVars>>
    \/ screen = "share" /\ ShareNext /\ UNCHANGED <<screen, enrolVars, attachVars, listVars>>
    \/ screen = "list" /\ ListNext /\ UNCHANGED <<screen, enrolVars, attachVars, shareVars>>

Spec == Init /\ [][Next]_vars /\ ShareFairness /\ ListFairness
==============================================================================
