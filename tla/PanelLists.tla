----------------------------- MODULE PanelLists -----------------------------
(***************************************************************************)
(* A page of the panel with a list, a drawer and changes under way: a       *)
(* node's page (routes/ServerPage.tsx, features/users/UserDrawer.tsx) or    *)
(* the subscribers page (routes/SubscribersPage.tsx, features/subscribers/  *)
(* SubscriberDrawer.tsx), over the hooks of queries/hooks.ts and the "did   *)
(* not reload" banner of queries/reloadWatch.ts.                           *)
(*                                                                         *)
(* The server of the list is external: a node saves a change and then       *)
(* reloads sing-box, which may fail while the change stays; the panel's own *)
(* store has nothing to reload.  Others change the list too.  Requests and  *)
(* answers travel in any order, and either may be lost.  The list of a node *)
(* is read through singleFlightGet of internal/api/proxy.go: one GET at a   *)
(* time, which all who ask meanwhile share and none of them can abort.     *)
(***************************************************************************)
EXTENDS QueryCache

CONSTANTS
    Users,          \* the users of the node, or the subscribers
    Notes,          \* what may be noted of them, None being no note
    MaxRequests,    \* changes under way at a time
    MaxChanges,     \* changes made in all, by this tab and by others, and GETs of others
    None

ASSUME PanelListsAssumption == MaxRequests \in Nat /\ MaxChanges \in Nat

VARIABLES
    page,       \* "node" or "subscribers"
    server,     \* its rows, the number of its last change, and of the last one
                \*   that sing-box was reloaded with
    query,      \* the cached list
    get,        \* the GET of the node's list that is under way, if any, and what the
                \*   panel had been told when it began
    req,        \* the changes under way
    problem,    \* ReloadWatch: "", "marked", or "healed" once the node's
                \*   last_reload is later than the mark
    drawer,     \* whose drawer is open, drawn while the list has them
    left,       \* changes still to be made, and GETs of others
    told,       \* the latest change the panel has had an answer to
    unlive      \* the latest it was told is not live, 0 once an older answer
                \*   that said "live" has overtaken that

history == <<told, unlive>>
listVars == <<page, server, query, get, req, problem, drawer, left, history>>

Requests == 1..MaxRequests
Gone == [on |-> "gone", note |-> None]
Free == [at |-> "free"]
NoGet == [at |-> "none", rows |-> NoData, rev |-> 0, began |-> 0]

ListInit ==
    /\ page \in {"node", "subscribers"}
    /\ server = [rows |-> [u \in Users |-> [on |-> "on", note |-> None]], rev |-> 0, good |-> 0]
    /\ query = Refetch(Empty, {})
    /\ get = NoGet
    /\ req = [c \in Requests |-> Free]
    /\ problem = ""
    /\ drawer = None
    /\ left = MaxChanges
    /\ told = 0 /\ unlive = 0

IsMarked == problem # ""

------------------------------------------------------------------------------
(* The hooks of the drawer go with it; their requests do not.  Reload is the page's. *)
Unhook(reqs) ==
    [c \in Requests |-> IF reqs[c] = Free THEN Free
                        ELSE [reqs[c] EXCEPT !.mine = @ /\ reqs[c].kind = "reload"]]

Shown(q, u) == IF q.data = NoData \/ u = None THEN Gone ELSE q.data[u]

(* A removal that its drawer waited for is over: mutate's own onSuccess closes the
   drawer.  It comes last, after the refetch that onSettled returns. *)
ClosesDrawer(reqs) ==
    \E c \in Requests :
        /\ req[c] # Free /\ reqs[c] = Free
        /\ req[c].kind = "delete" /\ req[c].mine /\ req[c].ok

(* The list becomes q, the changes under way being reqs.  A drawer is drawn only
   for a user in the list: when the user goes it unmounts, and the id stays in the
   URL or in the page; when the user is back a fresh one is drawn. *)
Draws(q, reqs) ==
    LET who == IF ClosesDrawer(reqs) THEN None ELSE drawer
    IN  /\ query' = q
        /\ drawer' = who
        /\ req' = IF Shown(q, who) = Gone THEN Unhook(reqs) ELSE reqs

(* Mutations that waited for a fetch which is no more, the list being q, are over. *)
Ended(q) ==
    [c \in Requests |-> IF req[c].at = "settling" /\ c \notin q.by THEN Free ELSE req[c]]

(* The window gets the focus, or somebody presses Retry. *)
Asks ==
    /\ IsIdle(query)
    /\ query' = Refetch(query, {})
    /\ UNCHANGED <<page, server, get, req, problem, drawer, left, history>>

(* The timer of useUsers; useSubscribers has none. *)
Polls == page = "node" /\ PollsAgain(query) /\ Asks

(* The panel reads its own subscribers. *)
Answers ==
    /\ page = "subscribers" /\ query.fetch = "asked"
    /\ query' = Read(query, server.rows, server.rev, told)
    /\ UNCHANGED <<page, server, get, req, problem, drawer, left, history>>

Begun == [at |-> "asked", rows |-> NoData, rev |-> 0, began |-> told]

(* The request for a node's list reaches the panel: it leads a GET, or joins the one
   under way. *)
Arrives ==
    /\ page = "node" /\ query.fetch = "asked"
    /\ query' = [query EXCEPT !.fetch = "waits"]
    /\ get' = IF get = NoGet THEN Begun ELSE get
    /\ UNCHANGED <<page, server, req, problem, drawer, left, history>>

(* Another tab asks, or a request arrives that its page has aborted. *)
OthersRead ==
    /\ left > 0 /\ left' = left - 1
    /\ page = "node" /\ get = NoGet /\ get' = Begun
    /\ UNCHANGED <<page, server, query, req, problem, drawer, history>>

NodeReads ==
    /\ get.at = "asked"
    /\ get' = [get EXCEPT !.at = "read", !.rows = server.rows, !.rev = server.rev]
    /\ UNCHANGED <<page, server, query, req, problem, drawer, left, history>>

(* The answer reaches the panel, and goes out to whoever waits for it. *)
GetEnds ==
    /\ get.at = "read" /\ get' = NoGet
    /\ query' = IF query.fetch = "waits" THEN Read(query, get.rows, get.rev, get.began) ELSE query
    /\ UNCHANGED <<page, server, req, problem, drawer, left, history>>

Lands ==
    /\ query.fetch = "read"
    /\ LET q == Land(query) IN Draws(q, Ended(q))
    /\ UNCHANGED <<page, server, get, problem, left, history>>

(* The panel cannot be reached, or its answer does not arrive; a GET goes on. *)
Fails ==
    /\ query.fetch \in {"asked", "waits"}
    /\ query' = FailWith(query, Classify("proxy error"))
    /\ req' = Ended(query')
    /\ UNCHANGED <<page, server, get, problem, drawer, left, history>>

(* The node cannot be reached, or refuses the token. *)
GetFails ==
    /\ get # NoGet /\ get' = NoGet
    /\ \E response \in {"proxy error", "404 text"} :
           query' = IF query.fetch = "waits" THEN FailWith(query, Classify(response)) ELSE query
    /\ req' = Ended(query')
    /\ UNCHANGED <<page, server, problem, drawer, left, history>>

(* Mutant of StatusLands: any last_reload will do. *)
StatusLandsAnyway ==
    /\ IsMarked /\ problem' = ""
    /\ UNCHANGED <<page, server, query, get, req, drawer, left, history>>

(* useReloadProblem: last_reload of a status answer is later than the mark. *)
StatusLands ==
    /\ problem = "healed" /\ problem' = ""
    /\ UNCHANGED <<page, server, query, get, req, drawer, left, history>>

------------------------------------------------------------------------------
(* What the panel foresees a change to do, and what the server does. *)

Foreseen(rows, r) ==
    CASE r.kind = "toggle" -> [rows EXCEPT ![r.user].on = r.on]
      [] r.kind = "save"   -> [rows EXCEPT ![r.user].note = r.note]
      [] r.kind = "delete" -> [rows EXCEPT ![r.user] = Gone]
      [] OTHER             -> rows

Made(rows, r) ==
    IF r.kind = "reset"
    THEN [rows EXCEPT ![r.user].on = IF @ = "quota" THEN "on" ELSE @]
    ELSE Foreseen(rows, r)

IsFree(c) == req[c] = Free
Slot == CHOOSE c \in Requests : IsFree(c)

(* Kinds of changes that write what they foresee, a change of expiry that nothing is
   foreseen of among them, and those that cancel the fetch under way. *)
Optimistic(kind) ==
    kind \in {"toggle", "expiry", "save"} \/ (kind = "delete" /\ page = "node")
Cancels(kind) == Optimistic(kind) \/ (kind = "reset" /\ page = "node")

(* A hook is called, by the drawer or, for a reload, by the banner. *)
Mutates(kind, on, note) ==
    LET r == [kind |-> kind, user |-> drawer, on |-> on, note |-> note, at |-> "sent",
              before |-> IF Optimistic(kind) THEN query.data ELSE NoData,
              ok |-> FALSE, live |-> FALSE, rev |-> 0, mine |-> TRUE]
        q == IF Cancels(kind) THEN Cancel(query) ELSE query
    IN  /\ left > 0 /\ left' = left - 1
        /\ \E c \in Requests : IsFree(c)
        /\ Draws(IF Optimistic(kind) THEN SetData(q, Foreseen(q.data, r)) ELSE q,
                 [Ended(q) EXCEPT ![Slot] = r])
        /\ UNCHANGED <<page, server, get, problem, history>>

IsPending(kinds) == \E c \in Requests : ~IsFree(c) /\ req[c].mine /\ req[c].kind \in kinds

(* The drawer is drawn and no change of these kinds, made in it, is under way. *)
Offers(kinds) == Shown(query, drawer) # Gone /\ ~IsPending(kinds)

Row == query.data[drawer]

Flipped == IF Row.on = "on" THEN "off" ELSE "on"

(* Enable or Disable: the request names the value. *)
TogglesUser == page = "node" /\ Offers({"toggle", "expiry"}) /\ Mutates("toggle", Flipped, None)
SwitchesLink == page = "subscribers" /\ Offers({"toggle"}) /\ Mutates("toggle", Flipped, None)

(* The expiry shares the hook of Enable, rollback and all; it is not among what the
   list is modelled with. *)
SetsExpiry == page = "node" /\ Offers({"toggle", "expiry"}) /\ Mutates("expiry", None, None)

(* The drawer of a user sends what differs from the list as it is now; that of a
   subscriber sends the note in the form, be it only the name that was edited. *)
SavesUser(n) == page = "node" /\ Offers({"save"}) /\ n # Row.note /\ Mutates("save", None, n)
SavesSubscriber(n) == page = "subscribers" /\ Offers({"save"}) /\ Mutates("save", None, n)

DeletesUser == page = "node" /\ Offers({"delete"}) /\ Mutates("delete", None, None)
DeletesSubscriber == page = "subscribers" /\ Offers({"delete"}) /\ Mutates("delete", None, None)
ResetsUsage == page = "node" /\ Offers({"reset"}) /\ Mutates("reset", None, None)
Rotates == page = "node" /\ Offers({"rotate"}) /\ Mutates("rotate", None, None)

(* Detach, and what attaches: entries are not among what the list is modelled with. *)
EditsEntries == page = "subscribers" /\ Offers({}) /\ Mutates("entry", None, None)

RetriesReload ==
    /\ IsMarked /\ ~IsPending({"reload"})
    /\ Mutates("reload", None, None)

Opens(u) ==
    /\ Shown(query, drawer) = Gone /\ Shown(query, u) # Gone
    /\ drawer' = u
    /\ UNCHANGED <<page, server, query, get, req, problem, left, history>>

Closes ==
    /\ drawer # None /\ drawer' = None
    /\ req' = Unhook(req)
    /\ UNCHANGED <<page, server, query, get, problem, left, history>>

------------------------------------------------------------------------------
(* The server, and others who change the same list. *)

(* A reload later than the mark. *)
Reloaded == IF problem = "" THEN "" ELSE "healed"

(* The rows are saved; live says whether sing-box has been reloaded since. *)
Changed(rows, live) ==
    /\ server' = [rows |-> rows, rev |-> server.rev + 1,
                  good |-> IF live THEN server.rev + 1 ELSE server.good]
    /\ problem' = IF live /\ page = "node" THEN Reloaded ELSE problem

(* The answer to c is on its way; a lost one comes to the same as a refusal.  What
   the panel wrote is kept only for a failure, which puts it back. *)
Replies(c, ok, live, rev) ==
    /\ req' = [req EXCEPT ![c].at = "answered", ![c].on = None, ![c].note = None,
                          ![c].before = IF ok THEN NoData ELSE @,
                          ![c].ok = ok, ![c].live = live, ![c].rev = rev]
    /\ UNCHANGED <<page, query, get, drawer, left, history>>
NoReply(c) == Replies(c, FALSE, FALSE, 0)

(* A change to somebody who is gone is a 404. *)
Refused(r) == r.kind # "reload" /\ server.rows[r.user] = Gone

Sent(c) == req[c] # Free /\ req[c].at = "sent"

(* c never arrives, or is refused. *)
Rejects(c) == Sent(c) /\ NoReply(c) /\ UNCHANGED <<server, problem>>

Reloads(c) ==
    /\ Sent(c) /\ req[c].kind = "reload"
    /\ server' = [server EXCEPT !.good = server.rev]
    /\ problem' = Reloaded
    /\ Replies(c, TRUE, TRUE, server.rev) \/ NoReply(c)

(* A new subscription token changes nothing in the list. *)
TakesToken(c) ==
    /\ Sent(c) /\ req[c].kind = "rotate" /\ ~Refused(req[c])
    /\ Replies(c, TRUE, TRUE, 0)
    /\ UNCHANGED <<server, problem>>

Takes(c) ==
    /\ Sent(c) /\ req[c].kind \notin {"rotate", "reload"} /\ ~Refused(req[c])
    /\ \E live \in (IF page = "node" THEN BOOLEAN ELSE {TRUE}) :
          /\ Changed(Made(server.rows, req[c]), live)
          /\ Replies(c, TRUE, live, server.rev + 1) \/ NoReply(c)

Handles(c) == Rejects(c) \/ Reloads(c) \/ TakesToken(c) \/ Takes(c)

(* Another tab or operator, or a node's enforcement of quotas.  An id never comes
   back. *)
OthersChange(u) ==
    LET row == server.rows[u]
    IN  /\ left > 0 /\ left' = left - 1
        /\ row # Gone
        /\ \E other \in {Gone, [row EXCEPT !.on = IF page = "node" THEN "quota" ELSE "off"]} \cup
                          {[row EXCEPT !.note = n] : n \in Notes \cup {None}},
              live \in (IF page = "node" THEN BOOLEAN ELSE {TRUE}) :
              /\ other # row
              /\ Changed([server.rows EXCEPT ![u] = other], live)
    /\ UNCHANGED <<page, query, get, req, drawer, history>>

------------------------------------------------------------------------------
(* What a hook does with the answer. *)

(* useReloadAware and useReloadNode: an answer says whether the change is live. *)
Watched(r) ==
    IF page = "node" /\ r.ok /\ r.kind # "rotate"
    THEN IF r.live THEN "" ELSE "marked"
    ELSE problem

(* onError: the list is put back as it was before the change. *)
RolledBack(q, r) == IF ~r.ok /\ r.before # NoData THEN SetData(q, r.before) ELSE q

(* Mutants of OnSettled: joins the fetch under way; only after a success. *)
OnSettledJoining(q, c) ==
    IF IsIdle(q) THEN Refetch(q, {c}) ELSE [q EXCEPT !.by = @ \cup {c}]
OnSettledIfOk(q, c) == IF req[c].ok THEN Refetch(q, {c}) ELSE q

(* onSettled: the list is fetched again, whatever the answer was. *)
OnSettled(q, c) == Refetch(q, {c})

(* All that is still asked of a change that waits for the list. *)
Settling(r) == [r EXCEPT !.at = "settling", !.before = NoData, !.live = FALSE, !.rev = 0]

Remembers(r) ==
    IF r.ok /\ r.kind # "rotate"
    THEN /\ told' = IF r.rev > told THEN r.rev ELSE told
         /\ unlive' = CASE ~r.live /\ r.rev > unlive -> r.rev
                        [] r.live /\ r.rev < told -> 0
                        [] OTHER -> unlive
    ELSE UNCHANGED history

HearsAnswer(c) ==
    /\ req[c] # Free /\ req[c].at = "answered"
    /\ problem' = Watched(req[c])
    /\ LET q == OnSettled(RolledBack(query, req[c]), c)
       IN  Draws(q, [Ended(q) EXCEPT ![c] = IF c \in q.by THEN Settling(req[c]) ELSE Free])
    /\ Remembers(req[c])
    /\ UNCHANGED <<page, server, get, left>>

ListNext ==
    \/ Asks \/ Polls \/ Answers \/ Lands \/ Fails \/ StatusLands
    \/ Arrives \/ OthersRead \/ NodeReads \/ GetEnds \/ GetFails
    \/ TogglesUser \/ SetsExpiry \/ DeletesUser \/ ResetsUsage \/ Rotates
    \/ SwitchesLink \/ DeletesSubscriber \/ EditsEntries
    \/ RetriesReload \/ Closes
    \/ \E n \in Notes \cup {None} : SavesUser(n) \/ SavesSubscriber(n)
    \/ \E u \in Users : Opens(u) \/ OthersChange(u)
    \/ \E c \in Requests : Handles(c) \/ HearsAnswer(c)

(* Timers fire; a request is answered or given up; a list that is asked for again
   and again reaches its node, and the answer the page, in the end. *)
ListFairness ==
    /\ WF_listVars(Polls) /\ WF_listVars(Lands)
    /\ SF_listVars(Arrives)
    /\ SF_listVars(query.fetch = "waits" /\ NodeReads)
    /\ SF_listVars(query.fetch = "waits" /\ GetEnds)
    /\ WF_listVars(\E c \in Requests : Handles(c) \/ HearsAnswer(c))

ListSpec == ListInit /\ [][ListNext]_listVars /\ ListFairness

------------------------------------------------------------------------------
(* No list that predates a change the panel has been told of is on its way to the
   screen (hooks.ts: onSettled's invalidation cancels the fetch under way and asks
   again), unless the node was asked for it before the panel was told: the request
   that asks again may join that GET, which nothing cancels (proxy.go: "Strictly
   in-flight only"). *)
NothingStaleUnderWay ==
    query.fetch = "read" =>
        \/ query.answer.rev >= told
        \/ page = "node" /\ query.answer.began < told

(* A node that was heard to have saved a change without reloading keeps its banner
   until it has reloaded (reloadWatch.ts: "lives until the situation actually
   resolves"), as long as no answer has overtaken another. *)
BannerUnlessOvertaken == unlive > server.good => IsMarked

(* What the panel wrote into the list itself, and what it put back, lasts no longer
   than the change: with nothing under way, it has been replaced by the server's own
   list, or the list says that it could not be loaded. *)
SettledIsTrue ==
    query.touched /\ IsIdle(query) /\ (\A c \in Requests : IsFree(c)) => query.error # ""

(* A node's page comes to show the node's list, whatever was optimistic, rolled
   back or lost on the way, unless the node goes on refusing the panel's token. *)
AgreesInTheEnd ==
    page = "node" => <>[](query.data = server.rows) \/ []<>IsTerminal(query.error)
==============================================================================
