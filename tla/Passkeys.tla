------------------------------- MODULE Passkeys -------------------------------
(***************************************************************************)
(* internal/store/passkeys.go and internal/api/passkeys.go: the passkeys   *)
(* of the panel's administrators, the ceremonies that enrol them and sign  *)
(* in with them, and the authenticators on the other side.                 *)
(*                                                                         *)
(* A store method holds the mutex from start to end, its save included, so *)
(* each is one step; a handler calls several, and every stretch between    *)
(* two calls is a step.  The window between a stat and a rename is that of *)
(* Subscribers, whose save this is word for word: here a save goes through *)
(* or fails.                                                               *)
(*                                                                         *)
(* A credential stands for its panel id as well, the two being drawn       *)
(* together.  Labels, counters and keys are left out, and with them what   *)
(* Rename and RecordUse write.  A ceremony may expire or be evicted at any *)
(* time; Throttle says when.  Passwords do not change: SignIn treats that. *)
(***************************************************************************)
EXTENDS Naturals, Sequences, FiniteSets

CONSTANTS
    Admins, Nobody,     \* administrator ids
    Devices,            \* browsers with an authenticator, one ceremony at a time each
    Handles,            \* WebAuthn user handles, drawn once each
    Creds,              \* credential ids, drawn once each
    MaxPasskeys         \* MaxPasskeysPerAdmin

ASSUME PasskeysAssumption == Nobody \notin Admins /\ MaxPasskeys \in Nat

VARIABLES
    file,               \* the administrators in admins.json, whenever it is there
    admins,             \* those in the panel's memory
    list, byAdminID, byHandle, byCredID,    \* store.Passkeys
    disk,               \* the owners in passkeys.json
    session,            \* session[d]: who the cookie in d's browser is for
    pc, tab,            \* where d's ceremony is, and what it carries
    keys,               \* what the authenticators hold
    handed,             \* handles handed out so far
    made,               \* made[c]: who began the enrolment that credential c was made in
    removed             \* history: credentials that were taken off the account page

store == <<list, byAdminID, byHandle, byCredID, disk>>
vars == <<file, admins, store, session, pc, tab, keys, handed, made, removed>>

Owner == [admin : Admins, handle : Handles, creds : SUBSET Creds]
Key == [device : Devices, handle : Handles, cred : Creds]

(* A ceremony: who it is for and with what handle; the credential the
   authenticator answered with, those of the owner it led to, and whether it had
   been removed by the time the answer came. *)
NoTab == [admin |-> Nobody, handle |-> {}, cred |-> {}, creds |-> {}, late |-> FALSE]

InList(l) == {l[n] : n \in DOMAIN l}
CredsOf(l) == UNION {o.creds : o \in InList(l)}

(* What load accepts. *)
IsValid(l) ==
    /\ \A m, n \in DOMAIN l :
          m # n => l[m].admin # l[n].admin /\ l[m].handle # l[n].handle /\ l[m].creds \cap l[n].creds = {}
    /\ \A o \in InList(l) : Cardinality(o.creds) <= MaxPasskeys

Without(l, n) == SubSeq(l, 1, n - 1) \o SubSeq(l, n + 1, Len(l))

(* reindexLocked: the three maps are rebuilt. *)
Reindex(l) ==
    /\ byAdminID' = [a \in {o.admin : o \in InList(l)} |-> CHOOSE n \in DOMAIN l : l[n].admin = a]
    /\ byHandle' = [h \in {o.handle : o \in InList(l)} |-> CHOOSE n \in DOMAIN l : l[n].handle = h]
    /\ byCredID' = [c \in CredsOf(l) |-> CHOOSE n \in DOMAIN l : c \in l[n].creds]

(* ByHandle, List: one owner, or none. *)
ByHandle(h) == {list[n] : n \in {byHandle[g] : g \in {h} \cap DOMAIN byHandle}}

ListOf(a) == UNION {list[n].creds : n \in {byAdminID[b] : b \in {a} \cap DOMAIN byAdminID}}

(* commitLocked and its caller: all of it, or nothing. *)
Commit(new) ==
    \/ list' = new /\ Reindex(new) /\ disk' = new
    \/ list' = list /\ Reindex(list) /\ disk' = disk

Init ==
    /\ file = Admins /\ admins = Admins
    /\ list = <<>> /\ byAdminID = <<>> /\ byHandle = <<>> /\ byCredID = <<>> /\ disk = <<>>
    /\ session = [d \in Devices |-> Nobody]
    /\ pc = [d \in Devices |-> "idle"] /\ tab = [d \in Devices |-> NoTab]
    /\ keys = {} /\ handed = {}
    /\ made = [c \in Creds |-> Nobody]
    /\ removed = {}

Carry(d, t, label) ==
    /\ tab' = [tab EXCEPT ![d] = t]
    /\ pc' = [pc EXCEPT ![d] = label]

Done(d) == Carry(d, NoTab, "idle")

(* A request with a session, whose administrator is in the panel's memory when
   the handler asks; and one that was let in, whoever has been removed since. *)
SignedIn(d) == session[d] \in admins
LetIn(d) == session[d] # Nobody

------------------------------------------------------------------------------
(* beginRegisterPasskey: the count, and the handle, new for a first passkey; then
   the ceremony is issued. *)
BeginEnrolment(d) ==
    LET a == session[d] IN
    /\ pc[d] = "idle" /\ SignedIn(d)
    /\ Cardinality(ListOf(a)) < MaxPasskeys
    /\ \E h \in IF a \in DOMAIN byAdminID THEN {list[byAdminID[a]].handle} ELSE Handles \ handed :
        /\ handed' = handed \cup {h}
        /\ Carry(d, [NoTab EXCEPT !.admin = a, !.handle = {h}], "offered")
    /\ UNCHANGED <<file, admins, store, session, keys, made, removed>>

(* The authenticator makes a credential, in place of the one it has under the same
   handle.  It should refuse when it holds one that beginRegisterPasskey listed as
   excluded; nothing here relies on that. *)
MakeKey(d) ==
    /\ pc[d] = "offered"
    /\ \E c \in Creds, h \in tab[d].handle :
        /\ made[c] = Nobody
        /\ made' = [made EXCEPT ![c] = tab[d].admin]
        /\ keys' = {k \in keys : k.device # d \/ k.handle # h}
                     \cup {[device |-> d, handle |-> h, cred |-> c]}
        /\ Carry(d, [tab[d] EXCEPT !.cred = {c}], "made")
    /\ UNCHANGED <<file, admins, store, session, handed, removed>>

(* Mutant of Add: the handle is not compared. *)
AddUnderAnyHandle(a, h, c) ==
    IF a \in DOMAIN byAdminID
    THEN /\ Cardinality(ListOf(a)) < MaxPasskeys
         /\ Commit([list EXCEPT ![byAdminID[a]].creds = @ \cup {c}])
    ELSE Commit(Append(list, [admin |-> a, handle |-> h, creds |-> {c}]))

(* Mutant of Add: the count is not taken again. *)
AddUncounted(a, h, c) ==
    /\ c \notin DOMAIN byCredID
    /\ IF a \in DOMAIN byAdminID
       THEN list[byAdminID[a]].handle = h /\ Commit([list EXCEPT ![byAdminID[a]].creds = @ \cup {c}])
       ELSE Commit(Append(list, [admin |-> a, handle |-> h, creds |-> {c}]))

Add(a, h, c) ==
    /\ c \notin DOMAIN byCredID
    /\ IF a \in DOMAIN byAdminID
       THEN /\ list[byAdminID[a]].handle = h
            /\ Cardinality(ListOf(a)) < MaxPasskeys
            /\ Commit([list EXCEPT ![byAdminID[a]].creds = @ \cup {c}])
       ELSE Commit(Append(list, [admin |-> a, handle |-> h, creds |-> {c}]))

(* Mutant of FinishEnrolment: whoever is signed in may finish it. *)
FinishAnybodys(d) ==
    /\ pc[d] = "made" /\ LetIn(d)
    /\ \/ \E h \in tab[d].handle, c \in tab[d].cred : Add(session[d], h, c)
       \/ UNCHANGED store
    /\ Done(d)
    /\ UNCHANGED <<file, admins, session, keys, handed, made, removed>>

(* finishRegisterPasskey: who is signed in by now must have begun it.  take
   concerns nobody else, so it needs no step of its own before Add. *)
FinishEnrolment(d) ==
    /\ pc[d] = "made" /\ LetIn(d)
    /\ \/ /\ session[d] = tab[d].admin
          /\ \E h \in tab[d].handle, c \in tab[d].cred : Add(session[d], h, c)
       \/ UNCHANGED store
    /\ Done(d)
    /\ UNCHANGED <<file, admins, session, keys, handed, made, removed>>

(* The tab is closed, the authenticator says no, or the ceremony is gone. *)
Abandon(d) ==
    /\ pc[d] \in {"offered", "made"}
    /\ Done(d)
    /\ UNCHANGED <<file, admins, store, session, keys, handed, made, removed>>

------------------------------------------------------------------------------
(* deletePasskey: the owner goes with the last one. *)
Remove(d) ==
    /\ LetIn(d)
    /\ \E c \in ListOf(session[d]) :
        LET n == byAdminID[session[d]]
            new == IF list[n].creds = {c} THEN Without(list, n)
                   ELSE [list EXCEPT ![n].creds = @ \ {c}]
        IN  /\ Commit(new)
            /\ removed' = IF list' = new THEN removed \cup {c} ELSE removed
    /\ UNCHANGED <<file, admins, session, pc, tab, keys, handed, made>>

(* The owners who are among some administrators, in the order they had. *)
Living(l, as) ==
    LET kept == {n \in DOMAIN l : l[n].admin \in as}
        nth  == CHOOSE f \in [1..Cardinality(kept) -> kept] : \A i, j \in DOMAIN f : i < j => f[i] < f[j]
    IN  [i \in DOMAIN nth |-> l[nth[i]]]

(* listPasskeys prunes what belongs to nobody the panel knows. *)
ListPage(d) ==
    /\ LetIn(d)
    /\ Living(list, admins) # list
    /\ Commit(Living(list, admins))
    /\ UNCHANGED <<file, admins, session, pc, tab, keys, handed, made, removed>>

------------------------------------------------------------------------------
(* beginPasskeyLogin only issues a ceremony.  The authenticator answers with a
   key of its own, and finishPasskeyLogin takes the ceremony. *)
AnswerLogin(d) ==
    /\ pc[d] = "idle"
    /\ \E k \in keys :
        /\ k.device = d
        /\ Carry(d, [NoTab EXCEPT !.handle = {k.handle}, !.cred = {k.cred},
                                  !.late = k.cred \in removed], "answered")
    /\ UNCHANGED <<file, admins, store, session, keys, handed, made, removed>>

(* ByHandle returns a copy of the owner. *)
ResolveOwner(d) ==
    /\ pc[d] = "answered"
    /\ \/ \E h \in tab[d].handle : \E o \in ByHandle(h) :
            Carry(d, [tab[d] EXCEPT !.admin = o.admin, !.creds = o.creds], "resolved")
       \/ /\ \A h \in tab[d].handle : ByHandle(h) = {}
          /\ Done(d)
    /\ UNCHANGED <<file, admins, store, session, keys, handed, made, removed>>

(* Mutant of Verify: the handle is proof enough. *)
VerifyHandle(d) ==
    /\ pc[d] = "resolved"
    /\ IF tab[d].admin \in admins
       THEN Carry(d, [tab[d] EXCEPT !.creds = {}, !.handle = {}], "verified")
       ELSE Done(d)
    /\ UNCHANGED <<file, admins, store, session, keys, handed, made, removed>>

(* GetByID, and hasCredential on the copy; then the library looks for the
   credential among those userFor lists, and the signature is good. *)
Verify(d) ==
    /\ pc[d] = "resolved"
    /\ IF tab[d].admin \in admins /\ tab[d].cred \subseteq tab[d].creds \cap ListOf(tab[d].admin)
       THEN Carry(d, [tab[d] EXCEPT !.creds = {}, !.handle = {}], "verified")
       ELSE Done(d)
    /\ UNCHANGED <<file, admins, store, session, keys, handed, made, removed>>

(* RecordUse, whose failure is only logged, and the session. *)
IssueSession(d) ==
    /\ pc[d] = "verified"
    /\ session' = [session EXCEPT ![d] = tab[d].admin]
    /\ Done(d)
    /\ UNCHANGED <<file, admins, store, keys, handed, made, removed>>
------------------------------------------------------------------------------
(* A password, between two requests: a handler keeps the administrator its
   request came with.  Signing out only stops what a device without a session
   cannot do anyway, and is left to SignIn. *)
PasswordLogin(d) ==
    /\ pc[d] \in {"idle", "made"}
    /\ \E a \in admins : session' = [session EXCEPT ![d] = a]
    /\ UNCHANGED <<file, admins, store, pc, tab, keys, handed, made, removed>>

(* What Reload and OpenAdmins make of admins.json: an empty list if it is not
   there, and it may go missing and be put back at any time. *)
Loaded == {file, {}}

(* ReloadIfChanged, of authenticate and finishPasskeyLogin: a file that is not
   there is left alone. *)
ReloadAdmins ==
    /\ admins' = file
    /\ UNCHANGED <<file, store, session, pc, tab, keys, handed, made, removed>>

(* Reload, of the account page's changes. *)
AccountPage(d) ==
    /\ SignedIn(d)
    /\ admins' \in Loaded
    /\ UNCHANGED <<file, store, session, pc, tab, keys, handed, made, removed>>

(* `users rm`. *)
RemoveAdmin ==
    /\ \E a \in file : file # {a} /\ file' = file \ {a}
    /\ UNCHANGED <<admins, store, session, pc, tab, keys, handed, made, removed>>

(* Mutant of RestartPanel: it prunes before it has loaded the administrators. *)
RestartPruningFirst ==
    /\ admins' \in Loaded
    /\ LET kept == Living(disk, {}) IN
       list' = kept /\ Reindex(kept) /\ disk' = kept
    /\ pc' = [d \in Devices |-> "idle"] /\ tab' = [d \in Devices |-> NoTab]
    /\ UNCHANGED <<file, session, keys, handed, made, removed>>

(* serve, started again: both files are loaded, then it prunes.  Ceremonies are
   forgotten. *)
RestartPanel ==
    /\ admins' \in Loaded
    /\ \E kept \in {disk, Living(disk, admins')} :
          list' = kept /\ Reindex(kept) /\ disk' = kept
    /\ pc' = [d \in Devices |-> "idle"] /\ tab' = [d \in Devices |-> NoTab]
    /\ UNCHANGED <<file, session, keys, handed, made, removed>>

Enrolment(d) ==
    \/ BeginEnrolment(d) \/ MakeKey(d) \/ FinishEnrolment(d)

Login(d) ==
    \/ AnswerLogin(d) \/ ResolveOwner(d) \/ Verify(d) \/ IssueSession(d)

Next ==
    \/ \E d \in Devices :
          \/ Enrolment(d) \/ Login(d) \/ Abandon(d) \/ Remove(d) \/ ListPage(d)
          \/ PasswordLogin(d) \/ AccountPage(d)
    \/ ReloadAdmins \/ RemoveAdmin \/ RestartPanel

Spec == Init /\ [][Next]_vars

------------------------------------------------------------------------------
Tabs == [admin : Admins \cup {Nobody}, handle : SUBSET Handles,
         cred : SUBSET Creds, creds : SUBSET Creds, late : BOOLEAN]

TypeOK ==
    /\ file \subseteq Admins /\ admins \subseteq Admins
    /\ list \in Seq(Owner) /\ disk \in Seq(Owner)
    /\ byAdminID \in [{o.admin : o \in InList(list)} -> DOMAIN list]
    /\ byHandle \in [{o.handle : o \in InList(list)} -> DOMAIN list]
    /\ byCredID \in [CredsOf(list) -> DOMAIN list]
    /\ session \in [Devices -> Admins \cup {Nobody}]
    /\ pc \in [Devices -> {"idle", "offered", "made", "answered", "resolved", "verified"}]
    /\ tab \in [Devices -> Tabs]
    /\ keys \subseteq Key /\ handed \subseteq Handles
    /\ made \in [Creds -> Admins \cup {Nobody}]
    /\ removed \subseteq Creds

(* However enrolments, removals and prunings overlap, passkeys.json is what the
   panel holds, and a file the next start accepts: nobody is in it twice, no
   handle or credential has two owners, nobody has too many. *)
FileLoads == list = disk /\ IsValid(disk)

(* A credential the panel accepted works: the handle its authenticator stored
   leads to the owner who has it, though several enrolments of one
   administrator may be under way, each with a handle of its own until the first
   is stored (Add: "the authenticator has already stored the handle it was
   given"). *)
EveryKeyWorks ==
    \A k \in keys, o \in InList(list) :
        k.cred \in o.creds => ByHandle(k.handle) = {o} /\ k.cred \in ListOf(o.admin)

(* A passkey belongs to, and signs in, the administrator who began its enrolment:
   not whoever is signed in when the enrolment ends, not who comes to stand in
   the owner's place in the list. *)
KeysAreTheirMakers ==
    /\ \A o \in InList(list) : \A c \in o.creds : made[c] = o.admin
    /\ \A d \in Devices : pc[d] = "verified" => \A c \in tab[d].cred : made[c] = tab[d].admin

(* A passkey whose removal was acknowledged before the browser answered does not
   sign anybody in, whatever the panel forgot or reloaded since. *)
RemovedKeysStayOut == \A d \in Devices : pc[d] = "verified" => ~tab[d].late

(* Nobody loses a passkey but by removing that one or by being removed - unless the
   panel has read a missing admins.json as an empty list (store.go:
   "drops credentials whose administrator no longer exists"). *)
PruneSparesTheLiving ==
    [][\A o \in InList(list) : \A c \in o.creds \ CredsOf(list') :
          c \in removed' \/ o.admin \notin file \/ admins' = {}]_vars
==============================================================================
