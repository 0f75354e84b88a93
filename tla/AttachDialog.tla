---------------------------- MODULE AttachDialog ----------------------------
(***************************************************************************)
(* Attaching several accounts to a subscriber: AttachEntryDialog.tsx inside *)
(* the drawer of SubscriberDrawer.tsx.                                     *)
(*                                                                         *)
(* A submission is an async function that attaches one account after        *)
(* another, and goes on after a failure, after Cancel and after the drawer   *)
(* is gone.  Accounts may be ticked while it runs, and others attach and     *)
(* detach.                                                                 *)
(***************************************************************************)
EXTENDS Naturals

CONSTANTS Accounts, MaxSubmissions, MaxOthers

ASSUME AttachAssumption == MaxSubmissions \in Nat /\ MaxOthers \in Nat

VARIABLES
    attached,   \* the accounts attached, on the server
    shown,      \* those the cached list shows
    attaching,  \* whether the dialog is open
    picks,      \* the accounts ticked
    submission, \* the submissions that run
    others,     \* changes others may still make
    owed        \* picks of the last submission, without those unticked or detached since

attachVars == <<attached, shown, attaching, picks, submission, others, owed>>

Submissions == 1..MaxSubmissions
Done == [on |-> FALSE, rest |-> {}, failed |-> {}, mine |-> FALSE]

AttachInit ==
    /\ attached = {} /\ shown = {}
    /\ attaching = FALSE /\ picks = {}
    /\ submission = [c \in Submissions |-> Done]
    /\ others = MaxOthers
    /\ owed = {}

(* busy, of the dialog on screen. *)
Busy == \E c \in Submissions : submission[c].on /\ submission[c].mine

(* What was ticked is still ticked when the dialog is opened again. *)
OpensAttach ==
    /\ ~attaching /\ attaching' = TRUE
    /\ UNCHANGED <<attached, shown, picks, submission, others, owed>>

ClosesAttach ==
    /\ attaching /\ attaching' = FALSE
    /\ UNCHANGED <<attached, shown, picks, submission, others, owed>>

(* The drawer closes, or shows somebody else: all state of the dialog is gone. *)
LeavesDrawer ==
    /\ attaching' = FALSE /\ picks' = {} /\ owed' = {}
    /\ submission' = [c \in Submissions |-> [submission[c] EXCEPT !.mine = FALSE]]
    /\ UNCHANGED <<attached, shown, others>>

(* The box of an account that is shown as attached is disabled, ticked or not. *)
TogglesPick(a) ==
    /\ attaching /\ a \notin shown
    /\ picks' = IF a \in picks THEN picks \ {a} ELSE picks \cup {a}
    /\ owed' = owed \ {a}
    /\ UNCHANGED <<attached, shown, attaching, submission, others>>

Submits ==
    /\ attaching /\ picks # {} /\ ~Busy
    /\ \E c \in Submissions :
          /\ ~submission[c].on
          /\ submission' = [submission EXCEPT ![c] =
                [on |-> TRUE, rest |-> picks, failed |-> {}, mine |-> TRUE]]
    /\ owed' = picks
    /\ UNCHANGED <<attached, shown, attaching, picks, others>>

(* Mutant of GoesOn: the loop ends at the first failure. *)
GoesOnWhileFine(r, a, failed) == IF failed THEN {} ELSE r.rest \ {a}

GoesOn(r, a, failed) == r.rest \ {a}

(* One account: attached; attached but the answer lost; refused, as the account is
   attached already or the node cannot be asked. *)
AttachesOne(c, a) ==
    /\ a \in submission[c].rest
    /\ \E took, failed \in BOOLEAN :
          /\ took => a \notin attached
          /\ took \/ failed
          /\ attached' = IF took THEN attached \cup {a} ELSE attached
          /\ submission' = [submission EXCEPT ![c].rest = GoesOn(submission[c], a, failed),
                                              ![c].failed = IF failed THEN @ \cup {a} ELSE @]
    /\ UNCHANGED <<shown, attaching, picks, others, owed>>

(* The loop is over: the dialog closes, reset; or what failed is what is ticked. *)
EndsAttach(c) ==
    /\ submission[c].on /\ submission[c].rest = {}
    /\ submission' = [submission EXCEPT ![c] = Done]
    /\ IF submission[c].mine
       THEN /\ picks' = submission[c].failed
            /\ attaching' = (attaching /\ submission[c].failed # {})
       ELSE UNCHANGED <<picks, attaching>>
    /\ UNCHANGED <<attached, shown, others, owed>>

(* Another operator, or the drawer of the account. *)
OthersAttach(a) ==
    /\ others > 0 /\ others' = others - 1
    /\ attached' = IF a \in attached THEN attached \ {a} ELSE attached \cup {a}
    /\ owed' = owed \ {a}
    /\ UNCHANGED <<shown, attaching, picks, submission>>

(* The list of subscribers is fetched. *)
ListShows ==
    /\ shown # attached /\ shown' = attached
    /\ UNCHANGED <<attached, attaching, picks, submission, others, owed>>

AttachNext ==
    \/ OpensAttach \/ ClosesAttach \/ LeavesDrawer \/ Submits \/ ListShows
    \/ \E a \in Accounts : TogglesPick(a) \/ OthersAttach(a)
    \/ \E c \in Submissions : EndsAttach(c) \/ \E a \in Accounts : AttachesOne(c, a)

------------------------------------------------------------------------------
(* Once a submission is over, each of its picks is attached, or still selected for
   another try; whatever failed, whatever was closed and opened meanwhile
   (AttachEntryDialog.tsx: "every pick is attempted", "with the failures still
   selected"). *)
PicksLandOrStay == ~Busy => owed \subseteq attached \cup picks
==============================================================================
