----------------------------- MODULE EnrolDialog -----------------------------
(***************************************************************************)
(* Adding one user to several nodes at once: CreateUserDialog.tsx over      *)
(* useCreateUserOnServers and useUsersByServer of web/src/queries/hooks.ts. *)
(*                                                                         *)
(* The name is fixed: a node that has it refuses a second user of that      *)
(* name.  The dialog may be closed, and opened anew, while nodes have not   *)
(* answered; an attempt that was told so much goes on.                      *)
(***************************************************************************)
EXTENDS Naturals

CONSTANTS Nodes, MaxAttempts

ASSUME EnrolAssumption == MaxAttempts \in Nat

VARIABLES
    has,        \* nodes that have a user of this name
    listed,     \* those whose cached list shows one
    adding,     \* whether the dialog is open
    picked,     \* the nodes ticked in it
    attempt,    \* the calls of mutate that wait for nodes
    wanted      \* nodes the visitor ticked since the dialog was opened and has not
                \*   been told of since that they took the user

enrolVars == <<has, listed, adding, picked, attempt, wanted>>

Attempts == 1..MaxAttempts
Over == [on |-> FALSE, ids |-> {}, left |-> {}, failed |-> {}, mine |-> FALSE]

EnrolInit ==
    /\ has \in SUBSET Nodes /\ listed = has
    /\ adding = FALSE /\ picked = {}
    /\ attempt = [c \in Attempts |-> Over]
    /\ wanted = {}

(* The mutation the hook observes; create.isPending. *)
Observed == {c \in Attempts : attempt[c].mine}

(* create.reset: the hook lets go of its mutation, whose onSuccess then never runs. *)
Reset == attempt' = [c \in Attempts |-> [attempt[c] EXCEPT !.mine = FALSE]]

(* The button of the page; the effect of the dialog starts it afresh. *)
OpensEnrol ==
    /\ ~adding /\ adding' = TRUE
    /\ picked' = {} /\ wanted' = {}
    /\ Reset
    /\ UNCHANGED <<has, listed>>

(* Cancel or Escape, also while nodes have not answered. *)
ClosesEnrol ==
    /\ adding /\ adding' = FALSE
    /\ UNCHANGED <<has, listed, picked, attempt, wanted>>

(* A node whose list shows the name cannot be ticked or unticked. *)
Ticks(n) ==
    /\ adding /\ n \notin listed
    /\ picked' = IF n \in picked THEN picked \ {n} ELSE picked \cup {n}
    /\ wanted' = wanted \cup {n}
    /\ UNCHANGED <<has, listed, adding, attempt>>

(* Select all, or Clear once all are selected. *)
TicksAll ==
    /\ adding
    /\ picked' = IF Nodes \subseteq picked THEN {} ELSE Nodes
    /\ wanted' = Nodes
    /\ UNCHANGED <<has, listed, adding, attempt>>

(* What was ticked, without the nodes known to have the name. *)
Targets == picked \ listed

Creates ==
    /\ adding /\ Targets # {} /\ Observed = {}
    /\ \E c \in Attempts :
          /\ ~attempt[c].on
          /\ attempt' = [attempt EXCEPT ![c] =
                [on |-> TRUE, ids |-> Targets, left |-> Targets, failed |-> {}, mine |-> TRUE]]
    /\ UNCHANGED <<has, listed, adding, picked, wanted>>

(* A node of the fan-out is over: it took the user, or refused; or the answer, or
   the request, was lost. *)
NodeEnds(c, n) ==
    /\ n \in attempt[c].left
    /\ \E took, failed \in BOOLEAN :
          /\ took => n \notin has
          /\ took \/ failed
          /\ has' = IF took THEN has \cup {n} ELSE has
          /\ attempt' = [attempt EXCEPT ![c].left = @ \ {n},
                                        ![c].failed = IF failed THEN @ \cup {n} ELSE @]
    /\ UNCHANGED <<listed, adding, picked, wanted>>

(* Mutant of StaysTicked: a failure leaves the dialog as it was. *)
StaysTickedAll(r) == picked

(* Only the nodes that failed stay ticked. *)
StaysTicked(r) == r.failed

(* All nodes are over: mutate's onSuccess, if the hook still observes the attempt. *)
Hears(c) ==
    /\ attempt[c].on /\ attempt[c].left = {}
    /\ attempt' = [attempt EXCEPT ![c] = Over]
    /\ LET r == attempt[c]
       IN  IF ~r.mine
           THEN UNCHANGED <<adding, picked, wanted>>
           ELSE /\ adding' = (adding /\ r.failed # {})
                /\ picked' = IF r.failed = {} THEN picked ELSE StaysTicked(r)
                /\ wanted' = wanted \ (r.ids \ r.failed)
    /\ UNCHANGED <<has, listed>>

(* The lists are fetched, by the timer or because an attempt invalidated them. *)
ListsCatchUp ==
    /\ listed # has /\ listed' = has
    /\ UNCHANGED <<has, adding, picked, attempt, wanted>>

EnrolNext ==
    \/ OpensEnrol \/ ClosesEnrol \/ TicksAll \/ Creates \/ ListsCatchUp
    \/ \E n \in Nodes : Ticks(n)
    \/ \E c \in Attempts : Hears(c) \/ \E n \in Nodes : NodeEnds(c, n)

------------------------------------------------------------------------------
(* In an open dialog only what the visitor ticked is ticked: no answer to an earlier
   opening ticks anything, and a node that said it took the user is not asked again
   unless the visitor insists (CreateUserDialog.tsx: "cannot enrol the same user
   twice on a node that already took them"). *)
NoSecondEnrolment == adding => picked \subseteq wanted
==============================================================================
