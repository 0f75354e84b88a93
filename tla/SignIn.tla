------------------------------- MODULE SignIn -------------------------------
(***************************************************************************)
(* Who is signed in: internal/api/api.go (login, logout, authenticate) and *)
(* account.go (changePassword, changeUsername) over the session table and  *)
(* the panel's copy of admins.json, while `vlessvmorectl users ...` edits  *)
(* the file.                                                               *)
(*                                                                         *)
(* A handler takes the session table's mutex and the administrator list's  *)
(* in turn, never both, and bcrypt and the read of admins.json run outside *)
(* either; every stretch between two acquisitions is a step.  So a list    *)
(* read before another handler's may be installed after it, and with the   *)
(* stamp of the newer file.  A save is one step here: what the shell may   *)
(* do between its stat and its rename is the subject of AdminsFile.  The   *)
(* clock does not move: expiry is the subject of Sessions.                 *)
(***************************************************************************)
EXTENDS SessionTable

CONSTANTS
    Clients,        \* browsers, with one cookie and one request at a time each
    Draws, Names,   \* as in AdminList
    InitialFiles,   \* lists admins.json may hold at first
    FileMoves,      \* whether somebody may move admins.json aside and put it back
    NoKey, Nobody

VARIABLES
    file,       \* the list in admins.json, or in the copy it was moved aside to
    missing,    \* admins.json is not there
    admins,     \* Admins.list of the panel
    stamped,    \* the panel's stamp is that of the list in `file`
    buffer,     \* buffer[c]: the list load has read for c's request and not yet installed
    strayed,    \* history: the panel has installed a list other than the one in `file`
    drawn,      \* ids and hashes drawn so far
    issued,     \* session keys issued so far
    knows,      \* knows[c]: hashes of the passwords client c has known
    cookie,     \* cookie[c]: the session key in c's browser
    pc,         \* pc[c]: where c's request is
    rec,        \* rec[c]: the session Lookup returned to it
    who,        \* who[c]: the administrator record the handler goes on with
    refused,    \* keys authenticate has refused for their fingerprint or owner
    lingering   \* those of them whose row stayed on disk, the write having failed

AL == INSTANCE AdminList WITH status <- "list"

ASSUME SignInAssumption ==
    /\ Owners = Draws /\ Prints = Draws
    /\ NoKey \notin Keys /\ FileMoves \in BOOLEAN
    /\ \A f \in InitialFiles : f \in AL!Lists /\ AL!IsValid(f)

panel == <<table, disk, behind>>
memory == <<admins, stamped, buffer, strayed>>
store == <<file, missing, drawn, memory>>
refusals == <<refused, lingering>>
vars == <<panel, store, issued, knows, cookie, pc, rec, who, refusals>>

(* "loading" is a load of authenticate's, "rereading" one of currentAdmin's. *)
Labels == {"idle", "verified", "stale", "loading", "looking", "checking", "signed in",
           "rereading", "reloaded", "found", "proven", "changed", "dropped"}

Init ==
    /\ file \in InitialFiles /\ admins = file
    /\ missing = FALSE /\ stamped = TRUE /\ strayed = FALSE
    /\ buffer = [c \in Clients |-> {}]
    /\ drawn = {a.id : a \in file} \cup {a.hash : a \in file}
    /\ table = {} /\ disk = {} /\ behind = FALSE
    /\ issued = {} /\ refused = {} /\ lingering = {}
    /\ knows \in [Clients -> {{a.hash} : a \in file} \cup {{}}]
    /\ cookie = [c \in Clients |-> NoKey]
    /\ pc = [c \in Clients |-> "idle"]
    /\ rec = [c \in Clients |-> Nobody]
    /\ who = [c \in Clients |-> Nobody]

Goto(c, label) == pc' = [pc EXCEPT ![c] = label]

(* The handler is over; nothing it held is used again. *)
Done(c) ==
    /\ Goto(c, "idle")
    /\ rec' = [rec EXCEPT ![c] = Nobody]
    /\ who' = [who EXCEPT ![c] = Nobody]

(* A session for the record the handler carries, and its cookie; or no random
   bytes, and an error. *)
StartSession(c) ==
    \/ \E k \in Keys \ issued :
          /\ Issue(k, who[c].id, who[c].hash, 0)
          /\ issued' = issued \cup {k}
          /\ cookie' = [cookie EXCEPT ![c] = k]
    \/ UNCHANGED <<panel, issued, cookie>>

------------------------------------------------------------------------------
(* login: Verify copies the record under the lock and compares after it; the
   session is for the copy.  A wrong password changes nothing here. *)
LoginVerifies(c) ==
    /\ pc[c] = "idle"
    /\ \E a \in admins :
        /\ a.hash \in knows[c]
        /\ who' = [who EXCEPT ![c] = a]
    /\ Goto(c, "verified")
    /\ UNCHANGED <<panel, store, issued, knows, cookie, rec, refusals>>

(* Mutant of LoginIssues: the fingerprint is read when the session starts. *)
LoginIssuesLive(c) ==
    /\ pc[c] = "verified"
    /\ \E k \in Keys \ issued, a \in admins :
        /\ a.id = who[c].id
        /\ Issue(k, a.id, a.hash, 0)
        /\ issued' = issued \cup {k}
        /\ cookie' = [cookie EXCEPT ![c] = k]
    /\ Done(c)
    /\ UNCHANGED <<store, knows, refusals>>

LoginIssues(c) ==
    /\ pc[c] = "verified"
    /\ StartSession(c)
    /\ Done(c)
    /\ UNCHANGED <<store, knows, refusals>>

(* logout asks for no session: the record goes first, then the cookie. *)
Logout(c) ==
    /\ pc[c] = "idle" /\ cookie[c] # NoKey
    /\ Delete(cookie[c])
    /\ cookie' = [cookie EXCEPT ![c] = NoKey]
    /\ UNCHANGED <<store, issued, knows, pc, rec, who, refusals>>

(* What readJSON finds: a file that is not there is an empty list. *)
Content == IF missing THEN {} ELSE file

(* The list is installed under the mutex, with the stamp of the file as it is by
   then; a file that is not there leaves the zero stamp. *)
Takes(l) ==
    /\ admins' = l
    /\ stamped' = ~missing
    /\ strayed' = (strayed \/ l # file)
    /\ UNCHANGED <<file, missing, drawn>>

(* authenticate, on a request with a cookie: ReloadIfChanged goes no further if
   another request looked less than a second ago, the file is not there, or its
   stamp has not moved; nor does a load that fails. *)
Throttled(c) ==
    /\ pc[c] = "idle" /\ cookie[c] # NoKey
    /\ Goto(c, "looking")
    /\ UNCHANGED <<panel, store, issued, knows, cookie, rec, who, refusals>>

Reloads(c) ==
    /\ pc[c] = "idle" /\ cookie[c] # NoKey
    /\ ~missing /\ ~stamped
    /\ Goto(c, "stale")
    /\ UNCHANGED <<panel, store, issued, knows, cookie, rec, who, refusals>>

(* load, outside the mutex: authenticate's, and currentAdmin's for changePassword
   and changeUsername, which asks for no stamp. *)
Reads(c) ==
    /\ pc[c] \in {"stale", "signed in"}
    /\ buffer' = [buffer EXCEPT ![c] = Content]
    /\ Goto(c, IF pc[c] = "stale" THEN "loading" ELSE "rereading")
    /\ UNCHANGED <<panel, file, missing, drawn, admins, stamped, strayed,
                   issued, knows, cookie, rec, who, refusals>>

(* Mutant of Swaps: what the file no longer has stays in memory. *)
SwapsByAdding(c) ==
    /\ pc[c] \in {"loading", "rereading"}
    /\ Takes(admins \cup {a \in buffer[c] : \A b \in admins : b.id # a.id})
    /\ buffer' = [buffer EXCEPT ![c] = {}]
    /\ Goto(c, IF pc[c] = "loading" THEN "looking" ELSE "reloaded")
    /\ UNCHANGED <<panel, issued, knows, cookie, rec, who, refusals>>

(* The end of load. *)
Swaps(c) ==
    /\ pc[c] \in {"loading", "rereading"}
    /\ Takes(buffer[c])
    /\ buffer' = [buffer EXCEPT ![c] = {}]
    /\ Goto(c, IF pc[c] = "loading" THEN "looking" ELSE "reloaded")
    /\ UNCHANGED <<panel, issued, knows, cookie, rec, who, refusals>>

(* Lookup, which returns a copy of the record. *)
Looks(c) ==
    /\ pc[c] = "looking"
    /\ \/ /\ LookupMisses(cookie[c])
          /\ Done(c)
       \/ /\ LookupLive(cookie[c], 0)
          /\ \E r \in table : r.key = cookie[c] /\ rec' = [rec EXCEPT ![c] = r]
          /\ Goto(c, "checking")
          /\ UNCHANGED who
    /\ UNCHANGED <<store, issued, knows, cookie, refusals>>

(* GetByID and the fingerprint: the administrator is still there with the
   password the session was started with, or the session is over. *)
Checks(c) ==
    /\ pc[c] = "checking"
    /\ IF \E a \in admins : a.id = rec[c].owner /\ a.hash = rec[c].print
       THEN /\ Goto(c, "signed in")
            /\ UNCHANGED <<panel, rec, who, refusals>>
       ELSE /\ Delete(cookie[c])
            /\ refused' = refused \cup {cookie[c]}
            /\ lingering' = lingering \cup ({cookie[c]} \cap KeysOf(disk'))
            /\ Done(c)
    /\ UNCHANGED <<store, issued, knows, cookie>>

(* Every other handler behind requireSession ends without touching sessions or
   administrators. *)
Answers(c) ==
    /\ pc[c] = "signed in"
    /\ Done(c)
    /\ UNCHANGED <<panel, store, issued, knows, cookie, refusals>>

------------------------------------------------------------------------------
(* changePassword and changeUsername: currentAdmin finds the caller by id in
   whatever list is in memory by the time its own load is over. *)
FindsSelf(c) ==
    /\ pc[c] = "reloaded"
    /\ \/ \E a \in admins :
            /\ a.id = rec[c].owner
            /\ who' = [who EXCEPT ![c] = a]
            /\ rec' = [rec EXCEPT ![c] = Nobody]
            /\ Goto(c, "found")
       \/ /\ \A a \in admins : a.id # rec[c].owner
          /\ Done(c)
    /\ UNCHANGED <<panel, store, issued, knows, cookie, refusals>>

(* saveLocked refuses when the file moved since the stamp was taken, but not when
   it is not there; what it writes is the list in memory, edited. *)
Saves(edited) ==
    /\ missing \/ stamped
    /\ admins' = edited /\ file' = edited
    /\ missing' = FALSE /\ stamped' = TRUE
    /\ UNCHANGED <<buffer, strayed>>

(* changeUsername: SetUsername by id, to a name nobody else has; sessions are
   left alone.  As for SetsPassword below, a refused or failed save changes nothing. *)
SetsUsername(c) ==
    /\ pc[c] = "found"
    /\ \/ \E a \in admins, n \in Names :
            /\ a.id = who[c].id
            /\ ~AL!Taken(admins \ {a}, n)
            /\ Saves((admins \ {a}) \cup {AL!WithName(a, n)})
            /\ UNCHANGED drawn
       \/ UNCHANGED store
    /\ Done(c)
    /\ UNCHANGED <<panel, issued, knows, cookie, refusals>>

(* changePassword: reauthenticate verifies the current password by the name
   just found, unless the limiter refuses it. *)
Reauthenticates(c) ==
    /\ pc[c] = "found"
    /\ \/ /\ \E a \in admins : a.name = who[c].name /\ a.hash \in knows[c]
          /\ Goto(c, "proven")
          /\ UNCHANGED <<rec, who>>
       \/ Done(c)
    /\ UNCHANGED <<panel, store, issued, knows, cookie, refusals>>

(* Mutant of SetsPassword: a failed save leaves the new hash in memory. *)
SetsPasswordUnsaved(c) ==
    /\ pc[c] = "proven"
    /\ \E a \in admins, d \in Draws \ drawn :
          /\ a.id = who[c].id
          /\ drawn' = drawn \cup {d}
          /\ \/ /\ Saves((admins \ {a}) \cup {AL!WithHash(a, d)})
                /\ knows' = [knows EXCEPT ![c] = @ \cup {d}]
                /\ who' = [who EXCEPT ![c] = AL!WithHash(a, d)]
                /\ Goto(c, "changed")
                /\ UNCHANGED rec
             \/ /\ admins' = (admins \ {a}) \cup {AL!WithHash(a, d)}
                /\ Done(c)
                /\ UNCHANGED <<file, missing, stamped, buffer, strayed, knows>>
    /\ UNCHANGED <<panel, issued, cookie, refusals>>

(* SetPasswordByID: the id must still be there; a refused or failed save changes
   nothing. *)
SetsPassword(c) ==
    /\ pc[c] = "proven"
    /\ \/ \E a \in admins, d \in Draws \ drawn :
            /\ a.id = who[c].id
            /\ drawn' = drawn \cup {d}
            /\ Saves((admins \ {a}) \cup {AL!WithHash(a, d)})
            /\ knows' = [knows EXCEPT ![c] = @ \cup {d}]
            /\ who' = [who EXCEPT ![c] = AL!WithHash(a, d)]
            /\ Goto(c, "changed")
            /\ UNCHANGED rec
       \/ Done(c) /\ UNCHANGED <<store, knows>>
    /\ UNCHANGED <<panel, issued, cookie, refusals>>

DropsSessions(c) ==
    /\ pc[c] = "changed"
    /\ DeleteAdmin(who[c].id)
    /\ Goto(c, "dropped")
    /\ UNCHANGED <<store, issued, knows, cookie, rec, who, refusals>>

SignsBackIn(c) ==
    /\ pc[c] = "dropped"
    /\ StartSession(c)
    /\ Done(c)
    /\ UNCHANGED <<store, knows, refusals>>

------------------------------------------------------------------------------
(* `users add, passwd, rename, rm`: one edit of the file, or a new file if there is
   none, and a new password is told to one client at most. *)
Shell ==
    \E d \in Draws \ drawn, told \in SUBSET Clients :
        /\ Cardinality(told) <= 1
        /\ file' \in AL!Edits(Content, d)
        /\ missing' = FALSE /\ stamped' = FALSE
        /\ drawn' = IF \E a \in file' : a.hash = d THEN drawn \cup {d} ELSE drawn
        /\ knows' = [c \in Clients |-> knows[c] \cup (IF c \in told THEN drawn' \ drawn ELSE {})]
        /\ UNCHANGED <<panel, admins, buffer, strayed, issued, cookie, pc, rec, who, refusals>>

(* Somebody moves admins.json aside, or puts it back as it was. *)
Moves ==
    /\ FileMoves
    /\ missing' = ~missing
    /\ UNCHANGED <<panel, file, drawn, memory, issued, knows, cookie, pc, rec, who, refusals>>

(* The panel stops, whatever it was doing, and starts. *)
RestartPanel ==
    /\ Restart(0)
    /\ Takes(Content)
    /\ buffer' = [c \in Clients |-> {}]
    /\ pc' = [c \in Clients |-> "idle"]
    /\ rec' = [c \in Clients |-> Nobody]
    /\ who' = [c \in Clients |-> Nobody]
    /\ UNCHANGED <<issued, knows, cookie, refusals>>

Request(c) ==
    \/ Throttled(c) \/ Reloads(c) \/ Reads(c) \/ Swaps(c) \/ Looks(c) \/ Checks(c)
    \/ Answers(c) \/ FindsSelf(c) \/ SetsUsername(c)
    \/ Reauthenticates(c) \/ SetsPassword(c) \/ DropsSessions(c) \/ SignsBackIn(c)

Login(c) == LoginVerifies(c) \/ LoginIssues(c)

Next ==
    \/ \E c \in Clients : Login(c) \/ Logout(c) \/ Request(c)
    \/ Shell \/ Moves \/ RestartPanel

Spec == Init /\ [][Next]_vars

(* A handler that started goes on.  Clients that hold a cookie keep asking -
   the pages poll every few seconds - so some request of theirs gets past the
   one-second throttle again and again. *)
Fairness ==
    \A c \in Clients :
        /\ WF_vars(LoginIssues(c) \/ (Request(c) /\ pc[c] # "idle"))
        /\ SF_vars(Reloads(c))

(* The file does not change between the read of a load and the installation of
   what it read; AdminsFile shows what happens when it does. *)
Undisturbed ==
    (\E c \in Clients : pc[c] \in {"loading", "rereading"}) => UNCHANGED <<file, missing>>

FairSpec == Init /\ [][Next /\ Undisturbed]_vars /\ Fairness

------------------------------------------------------------------------------
TypeOK ==
    /\ table \subseteq Record /\ disk \subseteq Record /\ behind \in BOOLEAN
    /\ file \in AL!Lists /\ admins \in AL!Lists /\ drawn \subseteq Draws
    /\ missing \in BOOLEAN /\ stamped \in BOOLEAN /\ strayed \in BOOLEAN
    /\ buffer \in [Clients -> AL!Lists]
    /\ issued \subseteq Keys /\ refused \subseteq Keys /\ lingering \subseteq refused
    /\ knows \in [Clients -> SUBSET Draws]
    /\ cookie \in [Clients -> Keys \cup {NoKey}]
    /\ pc \in [Clients -> Labels]
    /\ rec \in [Clients -> Record \cup {Nobody}]
    /\ who \in [Clients -> AL!Admin \cup {Nobody}]

(* The administrators a session key opens the panel to. *)
Opens(k) ==
    {a \in admins : \E r \in table : r.key = k /\ r.owner = a.id /\ r.print = a.hash}

(* A cookie opens the panel only as an administrator whose present password its
   holder has known: a sign-in that verified an older password, a restart, or
   somebody who was given a freed username does not get round a change
   (api.go authenticate, login; account.go changePassword). *)
SessionNeedsPassword ==
    \A c \in Clients : \A a \in Opens(cookie[c]) : a.hash \in knows[c]

(* A session once refused is refused for good, restarts and failed writes included,
   with one exception that takes two accidents: the panel has at some time installed
   a list that was not admins.json's - an empty one, the file being away, or one
   read before the file changed - and sessions.json could not be written when the
   session was refused, so that a restart brings it back (README: "users passwd
   signs that person out everywhere"; api.go authenticate, admins.go load). *)
RefusedForGood == \A k \in refused : Opens(k) = {} \/ (strayed /\ k \in lingering)

(* A session the file no longer backs stops opening the panel (README: "serve
   notices an out-of-band change to admins.json within a second ... users
   passwd signs that person out everywhere, immediately"). *)
RevocationTakesHold ==
    \A c \in Clients :
        (\E a \in Opens(cookie[c]) : \A b \in file : b.id # a.id \/ b.hash # a.hash)
            ~> (\A a \in Opens(cookie[c]) : \E b \in file : b.id = a.id /\ b.hash = a.hash)
==============================================================================
