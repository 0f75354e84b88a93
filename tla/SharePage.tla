----------------------------- MODULE SharePage -----------------------------
(***************************************************************************)
(* A subscriber opens a share link: AccessPage.tsx of web/src/access, the   *)
(* fan-out over the nodes behind it (collect of internal/api/access.go),    *)
(* and the words of copy.ts over the states of lib/format.ts.              *)
(*                                                                         *)
(* Per load the panel asks every node for its name, and then, for every     *)
(* entry, for the account and for its link; each call waits for one of      *)
(* Fanout slots, or gives up when the budget of the page is over.  A call    *)
(* that has a slot goes through singleFlightGet of internal/api/proxy.go: it *)
(* leads a GET of its own, which the budget does not end, or joins one that  *)
(* is under way, be it for this page or for whoever else the panel serves.   *)
(***************************************************************************)
EXTENDS Naturals

CONSTANTS
    Entries, ShareNodes,
    States,     \* states of accounts, of those userState tells apart
    Fanout,     \* calls to nodes at a time
    MaxEvents,  \* changes of accounts, nodes and the link, and GETs of others
    Nowhere

(* userState of lib/format.ts. *)
UserStates == {"active", "expiring", "expired", "quota", "disabled"}

ASSUME ShareAssumption ==
    /\ States \subseteq UserStates
    /\ Fanout \in Nat \ {0} /\ MaxEvents \in Nat

VARIABLES
    token,      \* what the URL says: "", "good", or "bad" once the link is shut
    where,      \* the node of each entry, Nowhere if it is no longer configured
    account,    \* the state of each entry's account at its node, or "gone"
    node,       \* what each node does with a request; one that "strays" has a proxy
                \*   in front of it that answers 404 itself
    flight,     \* the GET under way for each call: "none", "asked" of the node, or
                \*   what the node's answer, on its way, will be taken for
    since,      \* for the GET of each account that others lead: what the account
                \*   has been, or been said to be, since that GET began
    events,     \* what may still happen
    shared,     \* the page: its state and its cards
    call,       \* the calls of the load under way
    slots,      \* free slots of the fan-out
    budget,     \* whether the load has time left
    been        \* the same since the load began, or since a GET began that it joined

shareVars == <<token, where, account, node, flight, since, events, shared, call, slots, budget, been>>
nodes == <<token, where, account, node, events>>
world == <<nodes, flight, since, been>>

Configured == {e \in Entries : where[e] # Nowhere}
NameCalls == {"name"} \X {where[e] : e \in Configured}
EntryCalls == {"user", "link"} \X Configured
NodeOf(k) == IF k[1] = "name" THEN k[2] ELSE where[k[2]]
Answered(k) == k \in DOMAIN call /\ call[k] \notin {"waits", "leads", "joins"}

NodeStates == {"answers", "silent", "refuses", "strays"}
AllCalls == ({"name"} \X ShareNodes) \cup ({"user", "link"} \X Entries)
NoCalls == [k \in {} |-> "waits"]
IsAt(k, state) == k \in DOMAIN call /\ call[k] = state

ShareInit ==
    /\ token \in {"", "good", "bad"}
    /\ where \in [Entries -> ShareNodes \cup {Nowhere}]
    /\ account \in [Entries -> States]
    /\ node \in [ShareNodes -> NodeStates]
    /\ flight = [k \in AllCalls |-> "none"] /\ since = [e \in Entries |-> {}]
    /\ events = MaxEvents
    /\ shared = [status |-> "new", cards |-> <<>>]
    /\ call = NoCalls /\ slots = Fanout /\ budget = FALSE
    /\ been = [e \in Entries |-> {}]

------------------------------------------------------------------------------
(* What a call makes of the node's answer. *)

(* Mutant of TokenRefused: every 404 is taken at its word. *)
TokenRefusedIsMissing(k) == IF k[1] = "user" THEN "missing" ELSE "failed"

(* nodeGetStatus: the plain-text 404 of a node that refuses the panel's token is
   a transport failure, without a status. *)
TokenRefused(k) == "failed"

(* fillEntry: a 404 in JSON is an account that is not there. *)
NodeSays(k) ==
    CASE k[1] = "user" -> IF account[k[2]] = "gone" THEN "missing" ELSE account[k[2]]
      [] k[1] = "link" -> IF account[k[2]] = "gone" THEN "failed" ELSE "ok"
      [] OTHER         -> "ok"

(* A 404 that is neither Go's own nor JSON is taken for the node's word all the same. *)
StrayAnswer(k) == IF k[1] = "user" THEN "missing" ELSE "failed"

------------------------------------------------------------------------------
(* singleFlightGet, for the load under way and for others. *)

(* What a proxy that strays has the account of e said to be. *)
SaidOf(e, at) ==
    IF where[e] # Nowhere /\ at[where[e]] = "strays" THEN {"gone"} ELSE {}

(* The select of nodeGetStatus takes a slot that is free even when the budget is
   over.  The answer of a GET already under way is good enough for whoever joins. *)
Acquires(k) ==
    /\ IsAt(k, "waits") /\ slots > 0
    /\ slots' = slots - 1
    /\ IF flight[k] = "none"
       THEN /\ flight' = [flight EXCEPT ![k] = "asked"]
            /\ call' = [call EXCEPT ![k] = "leads"]
            /\ UNCHANGED <<since, been>>
       ELSE /\ call' = [call EXCEPT ![k] = "joins"]
            /\ been' = [e \in Entries |-> IF k = <<"user", e>> THEN been[e] \cup since[e] ELSE been[e]]
            /\ UNCHANGED <<flight, since>>
    /\ UNCHANGED <<nodes, shared, budget>>

(* Another load, another visitor's or the operator's tab. *)
OthersAsk(k) ==
    /\ events > 0 /\ events' = events - 1
    /\ k \in NameCalls \cup EntryCalls /\ flight[k] = "none"
    /\ flight' = [flight EXCEPT ![k] = "asked"]
    /\ since' = [e \in Entries |->
                    IF k = <<"user", e>> THEN {account[e]} \cup SaidOf(e, node) ELSE since[e]]
    /\ UNCHANGED <<token, where, account, node, shared, call, slots, budget, been>>

(* The node reads what it is asked for, and answers. *)
NodeAnswers(k) ==
    /\ flight[k] = "asked"
    /\ \/ node[NodeOf(k)] = "answers" /\ flight' = [flight EXCEPT ![k] = NodeSays(k)]
       \/ node[NodeOf(k)] = "refuses" /\ flight' = [flight EXCEPT ![k] = TokenRefused(k)]
       \/ node[NodeOf(k)] = "strays" /\ flight' = [flight EXCEPT ![k] = StrayAnswer(k)]
    /\ UNCHANGED <<nodes, since, been, shared, call, slots, budget>>

(* The GET is over, and whoever of the load is part of it has its answer. *)
Ends(k, answer) ==
    /\ flight' = [flight EXCEPT ![k] = "none"]
    /\ since' = [e \in Entries |-> IF k = <<"user", e>> THEN {} ELSE since[e]]
    /\ IF IsAt(k, "leads") \/ IsAt(k, "joins")
       THEN call' = [call EXCEPT ![k] = answer] /\ slots' = slots + 1
       ELSE UNCHANGED <<call, slots>>
    /\ UNCHANGED <<nodes, been, shared, budget>>

FlightEnds(k) == flight[k] \notin {"none", "asked"} /\ Ends(k, flight[k])

(* Mutant of TimesOut: a client without a Timeout. *)
NeverTimesOut(k) == flight[k] # "none" /\ UNCHANGED shareVars

(* The client's own Timeout, or a connection that breaks. *)
TimesOut(k) == flight[k] # "none" /\ Ends(k, "failed")

(* Once the budget is over nobody needs to wait for a slot, or for a GET somebody
   else leads; who leads one goes on. *)
GivesUp(k) ==
    /\ IsAt(k, "waits") /\ ~budget
    /\ call' = [call EXCEPT ![k] = "failed"]
    /\ UNCHANGED <<world, shared, slots, budget>>

Abandons(k) ==
    /\ IsAt(k, "joins") /\ ~budget
    /\ call' = [call EXCEPT ![k] = "failed"] /\ slots' = slots + 1
    /\ UNCHANGED <<world, shared, budget>>

BudgetEnds ==
    /\ budget /\ budget' = FALSE
    /\ UNCHANGED <<world, shared, call, slots>>

(* collect: the calls for the entries are made when every name is there. *)
AsksForEntries ==
    /\ shared.status = "collecting" /\ call # NoCalls
    /\ DOMAIN call = NameCalls /\ \A k \in NameCalls : Answered(k)
    /\ call' = [k \in NameCalls \cup EntryCalls |->
                  IF k \in NameCalls THEN call[k] ELSE "waits"]
    /\ UNCHANGED <<world, shared, slots, budget>>

------------------------------------------------------------------------------
(* The card of an entry. *)

Unavailable(reason) == [available |-> FALSE, says |-> reason, link |-> FALSE]

FilledIn(e) ==
    LET user == call[<<"user", e>>]
    IN  CASE user = "missing" -> Unavailable("removed")
          [] user = "failed"  -> Unavailable("unavailable")
          [] OTHER -> [available |-> TRUE, says |-> user, link |-> call[<<"link", e>>] = "ok"]

Collected == [e \in Entries |->
    IF e \in Configured THEN FilledIn(e) ELSE Unavailable("unconfigured")]

(* entryStatus, down to what its words say of the account: that there is one, that
   there is none any more, or nothing. *)
EntryStatus(card) ==
    CASE card.says = "unavailable"                -> "nothing"
      [] card.says \in {"removed", "unconfigured"} -> "gone"
      [] OTHER                                    -> card.says

(* Everything has been answered or given up, and the response reaches the page. *)
Served ==
    /\ shared.status = "collecting"
    /\ \A k \in NameCalls \cup EntryCalls : Answered(k)
    /\ shared' = [status |-> "ok", cards |-> Collected]
    /\ call' = NoCalls /\ budget' = FALSE
    /\ UNCHANGED <<world, slots>>

------------------------------------------------------------------------------
(* The page and its request. *)

(* On arrival, by Refresh, or by Try again, which a dead link does not offer.  A
   link that was cut short is not asked about at all. *)
Loads ==
    /\ shared.status \in {"new", "ok", "error"}
    /\ shared' = [status |-> IF token = "" THEN "incomplete" ELSE "asking", cards |-> <<>>]
    /\ been' = [e \in Entries |-> {account[e]} \cup SaidOf(e, node)]
    /\ UNCHANGED <<nodes, flight, since, call, slots, budget>>

(* The link is opened again in the browser, which is all there is left to do. *)
Reopens ==
    /\ shared.status \in {"dead", "incomplete"}
    /\ shared' = [status |-> "new", cards |-> <<>>]
    /\ UNCHANGED <<world, call, slots, budget>>

(* accessHandler lets the request through to collect. *)
Admitted ==
    /\ shared.status = "asking" /\ token = "good"
    /\ shared' = [status |-> "collecting", cards |-> <<>>]
    /\ call' = [k \in NameCalls |-> "waits"] /\ budget' = TRUE
    /\ UNCHANGED <<world, slots>>

(* The link is not valid, or not any more; or too many requests; or no answer. *)
TurnedAway ==
    /\ shared.status = "asking"
    /\ shared' \in [status : {"error"} \cup (IF token = "bad" THEN {"dead"} ELSE {}), cards : {<<>>}]
    /\ UNCHANGED <<world, call, slots, budget>>

(* What accounts are said to be is noted for the load, and for GETs under way. *)
Noted(said) ==
    /\ been' = [e \in Entries |-> been[e] \cup said[e]]
    /\ since' = [e \in Entries |-> IF since[e] = {} THEN {} ELSE since[e] \cup said[e]]

(* An operator, or a quota or an expiry; an account that is gone is gone for good. *)
AccountChanges(e) ==
    /\ events > 0 /\ events' = events - 1
    /\ account[e] # "gone"
    /\ account' \in {[account EXCEPT ![e] = a] : a \in {"gone"} \cup States}
    /\ Noted([d \in Entries |-> IF d = e THEN {account'[e]} ELSE {}])
    /\ UNCHANGED <<token, where, node, flight, shared, call, slots, budget>>

NodeChanges(n) ==
    /\ events > 0 /\ events' = events - 1
    /\ node' \in {[node EXCEPT ![n] = x] : x \in NodeStates}
    /\ Noted([e \in Entries |-> SaidOf(e, node')])
    /\ UNCHANGED <<token, where, account, flight, shared, call, slots, budget>>

(* The subscriber is switched off, or on again. *)
LinkSwitched ==
    /\ events > 0 /\ events' = events - 1
    /\ token # "" /\ token' = (IF token = "good" THEN "bad" ELSE "good")
    /\ UNCHANGED <<where, account, node, flight, since, shared, call, slots, budget, been>>

ShareNext ==
    \/ Loads \/ Reopens \/ Admitted \/ TurnedAway \/ AsksForEntries \/ Served \/ BudgetEnds
    \/ \E k \in AllCalls : \/ Acquires(k) \/ GivesUp(k) \/ Abandons(k)
                          \/ OthersAsk(k) \/ NodeAnswers(k) \/ FlightEnds(k) \/ TimesOut(k)
    \/ \E e \in Entries : AccountChanges(e)
    \/ \E n \in ShareNodes : NodeChanges(n)
    \/ LinkSwitched

(* The request arrives or fails, the deadline and the client's Timeout fire, and
   goroutines run on.  No node need ever answer. *)
ShareFairness ==
    /\ WF_shareVars(Admitted \/ TurnedAway)
    /\ WF_shareVars(BudgetEnds) /\ WF_shareVars(AsksForEntries) /\ WF_shareVars(Served)
    /\ \A k \in AllCalls : WF_shareVars(GivesUp(k)) /\ WF_shareVars(FlightEnds(k) \/ TimesOut(k))

------------------------------------------------------------------------------
(* A card never says of an account what it has not been since the page was asked
   for, or since a GET began that the page's own was joined to; least of all that it
   is gone because its node was away, or refused the panel: only another server in
   the node's place, with a 404 of its own, can have it so (access.go: "it cannot be
   reported to the reader as your account was removed"; proxy.go: "Strictly in-flight
   only"). *)
CardsTellTheTruth ==
    shared.status = "ok" =>
        \A e \in Configured :
            EntryStatus(shared.cards[e]) \in {"nothing"} \cup been[e]

(* Every load of the page ends, with a card for every entry or with an error, even
   while a node accepts connections and never answers: the client's Timeout ends what
   the budget does not. *)
PageFillsInTheEnd ==
    shared.status \in {"asking", "collecting"} ~> shared.status \in {"ok", "error", "dead"}
==============================================================================
