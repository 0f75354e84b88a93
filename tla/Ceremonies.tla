----------------------------- MODULE Ceremonies -----------------------------
(***************************************************************************)
(* Signing in and enrolling a passkey, as the panel does it in the browser: *)
(* web/src/features/passkeys/webauthn.ts and useConditionalPasskey.ts under *)
(* routes/LoginPage.tsx, features/passkeys/PasskeysCard.tsx, App.tsx and the *)
(* sign-in hooks of queries/hooks.ts.                                      *)
(*                                                                         *)
(* An attempt is a form submission, a press of a button or a run of the    *)
(* autofill effect.  JavaScript runs to its next await, so a step is what  *)
(* happens on one event: a click, an answer, a promise the browser         *)
(* settles.  The browser works on one WebAuthn request at a time and       *)
(* refuses another until the first has settled.                            *)
(*                                                                         *)
(* One tab: nothing else changes its cookie.  A session may end on the     *)
(* server at any time, and at most one request to sign out is under way.   *)
(***************************************************************************)
EXTENDS Naturals, FiniteSets

CONSTANTS
    Attempts,   \* how many attempts there may be at a time
    Admins,     \* identities a sign-in may turn out to be for
    None

ASSUME CeremoniesAssumption == None \notin Attempts \cup Admins

VARIABLES
    screen,     \* what App shows: "boot", "login" or "panel"
    cookie,     \* whom the browser's session cookie signs in, None if nobody
    cache,      \* whose data the query cache holds
    asked,      \* as whom the queries under way were asked, None among them
    leaving,    \* a sign-out under way: none "", of this "shell", of an "orphan"
    autofill,   \* whether the effect of the login form on screen has run
    kind,       \* kind[c]: what attempt c is
    pc,         \* pc[c]: where it is
    mounted,    \* attempts whose component is still on screen
    latest,     \* per mutation hook on screen, the attempt mutate was last called for
    pending,    \* pending of webauthn.ts
    awaits,     \* awaits[c]: the ceremony whose promise c awaits
    slot,       \* the ceremony the browser is working on
    aborted,    \* ceremonies whose signal has been aborted, not settled yet
    stopped,    \* those the browser was working on when they were to stop
    crowded     \* somebody called in while another was waiting for the browser

page == <<screen, cookie, cache, asked, leaving, autofill>>
hooks == <<kind, mounted, latest>>
browser == <<pending, awaits, slot, aborted, stopped, crowded>>
vars == <<page, hooks, pc, browser>>

Kinds == {"auto", "password", "button", "register"}
Stages == {"free", "stopping", "beginning", "queued", "asked", "refused", "finishing", "accepted"}
Hook(k) == IF k = "password" THEN "login" ELSE IF k = "register" THEN "register" ELSE "passkey"
Hooks == {"login", "passkey", "register"}

Init ==
    /\ screen = "boot"
    /\ cookie \in Admins \cup {None}
    /\ cache = {} /\ asked = {} /\ leaving = "" /\ autofill = FALSE
    /\ kind = [c \in Attempts |-> "auto"]
    /\ pc = [c \in Attempts |-> "free"]
    /\ mounted = {} /\ latest = [h \in Hooks |-> None]
    /\ pending = None /\ slot = None
    /\ awaits = [c \in Attempts |-> None]
    /\ aborted = {} /\ stopped = {} /\ crowded = FALSE

------------------------------------------------------------------------------
(* Steps of webauthn.ts. *)

Some(c) == {c} \ {None}
CallsIn == crowded' = (crowded \/ \E w \in Attempts : awaits[w] # None)

(* Mutant of AbortPending: awaited, but nobody tells the browser. *)
AwaitPending(c) ==
    /\ pending' = None
    /\ stopped' = stopped \cup Some(slot)
    /\ awaits' = [w \in Attempts |-> IF w = c THEN pending ELSE awaits[w]]
    /\ CallsIn
    /\ UNCHANGED <<slot, aborted>>

(* abortPendingCeremony, called by c, or by a cleanup that awaits nothing. *)
AbortPending(c) ==
    /\ pending' = None
    /\ aborted' = aborted \cup Some(pending)
    /\ stopped' = stopped \cup Some(slot)
    /\ awaits' = [w \in Attempts |-> IF w = c THEN pending ELSE awaits[w]]
    /\ CallsIn
    /\ UNCHANGED slot

(* exclusive: with nothing to wait for the browser is asked at once, and refuses
   while it still works on another request. *)
Exclusive(c) ==
    \/ pending # None /\ AbortPending(c) /\ pc' = [pc EXCEPT ![c] = "queued"]
    \/ /\ pending = None
       /\ pending' = c
       /\ IF slot = None
          THEN slot' = c /\ pc' = [pc EXCEPT ![c] = "asked"]
          ELSE pc' = [pc EXCEPT ![c] = "refused"] /\ UNCHANGED slot
       /\ CallsIn
       /\ UNCHANGED <<awaits, aborted, stopped>>

(* Where a form or a button goes on once it has stopped what was outstanding. *)
Stopped(c) == IF kind[c] = "password" THEN "finishing" ELSE "beginning"

(* Mutant of Forget: whatever is pending is forgotten. *)
ForgetAny(c) == None

(* The finally of exclusive: forget c, unless another has taken its place. *)
Forget(c) == IF pending = c THEN None ELSE pending

(* What the autofill effect picked goes to the mutation of the button, and is
   the form's from then on, whatever becomes of the effect. *)
Goes(c) == IF kind[c] = "auto" THEN "button" ELSE kind[c]

(* The browser settles c's promise, and whoever awaits it goes on in the same
   event: exclusive asks the browser, a form or a button calls mutate. *)
Settles(c, to) ==
    LET waiters == {w \in Attempts : awaits[w] = c}
        next    == {w \in waiters : pc[w] = "queued"}
        left    == IF slot = c THEN None ELSE slot
        asks(w) == w \in next /\ left = None
    IN  /\ pending' = IF next = {} THEN Forget(c) ELSE CHOOSE w \in next : TRUE
        /\ slot' = IF \E w \in next : asks(w) THEN CHOOSE w \in next : TRUE ELSE left
        /\ pc' = [w \in Attempts |->
                    CASE w = c -> to
                      [] w \in next -> IF asks(w) THEN "asked" ELSE "refused"
                      [] w \in waiters \ next -> Stopped(w)
                      [] OTHER -> pc[w]]
        /\ latest' = [h \in Hooks |->
                        IF \E w \in (waiters \ next) \cap mounted : Hook(kind[w]) = h
                        THEN CHOOSE w \in waiters : TRUE
                        ELSE IF to = "free" THEN (IF latest[h] = c THEN None ELSE latest[h])
                        ELSE IF Hook(kind[c]) = h /\ c \in mounted THEN c ELSE latest[h]]
        /\ kind' = [kind EXCEPT ![c] = IF to = "free" THEN "auto" ELSE Goes(c)]
        /\ mounted' = IF to = "free" THEN mounted \ {c} ELSE mounted
        /\ awaits' = [w \in Attempts |-> IF w \in waiters THEN None ELSE awaits[w]]
        /\ aborted' = aborted \ {c}
        /\ stopped' = IF to = "free" THEN stopped \ {c} ELSE stopped
        /\ UNCHANGED crowded

(* The visitor dismisses the prompt or it times out, the signal aborts it, or
   the browser had refused: the attempt ends, in an error or in silence. *)
Rejects(c) ==
    /\ pc[c] \in {"asked", "refused"}
    /\ Settles(c, "free")
    /\ UNCHANGED page

(* The visitor picks a passkey; it goes to the finish request, unless it came
   from an effect that has been cleaned up. *)
Picks(c) ==
    /\ slot = c /\ c \notin aborted
    /\ Settles(c, IF kind[c] = "auto" /\ c \notin mounted THEN "free" ELSE "finishing")
    /\ UNCHANGED page

------------------------------------------------------------------------------
(* What the visitor does. *)

(* A hook's mutation is under way, as its own component sees it. *)
IsPending(h) == latest[h] \in mounted

(* c's component is the one on screen. *)
Starts(c, k) ==
    /\ pc[c] = "free"
    /\ kind' = [kind EXCEPT ![c] = k]
    /\ mounted' = mounted \cup {c}

(* The form and the button stop what is outstanding before anything else.  Two
   quick clicks are two attempts: neither is disabled until mutate is called. *)
SubmitsOrPresses(c, k) ==
    /\ screen = "login" /\ autofill /\ ~IsPending(Hook(k))
    /\ Starts(c, k)
    /\ AbortPending(c)
    /\ IF pending # None
       THEN pc' = [pc EXCEPT ![c] = "stopping"] /\ UNCHANGED latest
       ELSE /\ pc' = [pc EXCEPT ![c] = IF k = "password" THEN "finishing" ELSE "beginning"]
            /\ latest' = [latest EXCEPT ![Hook(k)] = c]
    /\ UNCHANGED page

(* The autofill effect runs when the login form is mounted, ahead of any click. *)
EffectRuns(c) ==
    /\ screen = "login" /\ ~autofill /\ autofill' = TRUE
    /\ Starts(c, "auto")
    /\ pc' = [pc EXCEPT ![c] = "beginning"]
    /\ UNCHANGED <<screen, cookie, cache, asked, leaving, latest, browser>>

(* ... and runs again: its cleanup, and then a new run. *)
EffectReruns ==
    /\ screen = "login" /\ autofill /\ autofill' = FALSE
    /\ mounted' = {c \in mounted : kind[c] # "auto"}
    /\ AbortPending(None)
    /\ UNCHANGED <<screen, cookie, cache, asked, leaving, kind, latest, pc>>

(* PasskeyList add: one mutation for begin, ceremony and finish. *)
AddsPasskey(c) ==
    /\ screen = "panel" /\ ~IsPending("register")
    /\ Starts(c, "register")
    /\ pc' = [pc EXCEPT ![c] = "beginning"]
    /\ latest' = [latest EXCEPT !["register"] = c]
    /\ UNCHANGED <<page, browser>>

(* Leaving the account page and coming back: another card, another hook. *)
LeavesAccount ==
    /\ screen = "panel"
    /\ mounted' = {c \in mounted : kind[c] # "register"}
    /\ UNCHANGED <<page, kind, latest, pc, browser>>

------------------------------------------------------------------------------
(* Answers of the backend. *)

(* c is over, and forgotten: its name may be used again. *)
Frees(c) ==
    /\ pc' = [pc EXCEPT ![c] = "free"]
    /\ kind' = [kind EXCEPT ![c] = "auto"]
    /\ mounted' = mounted \ {c}
    /\ latest' = [h \in Hooks |-> IF latest[h] = c THEN None ELSE latest[h]]
    /\ stopped' = stopped \ {c}
    /\ UNCHANGED <<pending, awaits, slot, aborted, crowded>>

(* Mutant of BeginAnswered: the effect does not look whether it was cleaned up. *)
BeginAnsweredUnchecked(c) ==
    /\ pc[c] = "beginning"
    /\ \/ Exclusive(c) /\ UNCHANGED hooks
       \/ Frees(c)
    /\ UNCHANGED page

(* Options for the ceremony, or a failure. *)
BeginAnswered(c) ==
    /\ pc[c] = "beginning"
    /\ \/ /\ kind[c] = "auto" => c \in mounted
          /\ Exclusive(c)
          /\ UNCHANGED hooks
       \/ Frees(c)
    /\ UNCHANGED page

(* The last request of an attempt is refused, or answers an enrolment. *)
FinishEnds(c) ==
    /\ pc[c] = "finishing"
    /\ Frees(c)
    /\ UNCHANGED page

(* Mutant of ClearCache: what is in flight still lands. *)
ClearHeld == cache' = {} /\ UNCHANGED asked

(* qc.clear(): what was held goes, and what is in flight is dropped. *)
ClearCache == cache' = {} /\ asked' = {}

(* Everything on screen goes, c's form with it; no component is left to ask, and
   the callbacks of mutate are not called any more. *)
Unmounts(c, to) ==
    /\ screen' = to /\ autofill' = FALSE
    /\ mounted' = {} /\ latest' = [h \in Hooks |-> None]
    /\ pc' = [w \in Attempts |-> IF w = c THEN "free" ELSE pc[w]]
    /\ kind' = [w \in Attempts |-> IF w = c THEN "auto" ELSE kind[w]]

(* A sign-in is accepted: the cookie is there before any JavaScript runs. *)
Accepted(c) ==
    /\ pc[c] = "finishing" /\ kind[c] # "register"
    /\ cookie' \in Admins
    /\ pc' = [pc EXCEPT ![c] = "accepted"]
    /\ UNCHANGED <<screen, cache, asked, leaving, autofill, hooks, browser>>

(* ... and its hook hears of it.  The callback of mutate is called for the last
   call of a hook still on screen: identityChanged, the boundary's key changes and
   the effect of the login form cleans up. *)
Hears(c) ==
    /\ pc[c] = "accepted"
    /\ ClearCache
    /\ IF IsPending(Hook(kind[c])) /\ latest[Hook(kind[c])] = c
       THEN Unmounts(c, "boot") /\ AbortPending(None)
       ELSE Frees(c) /\ UNCHANGED <<screen, autofill>>
    /\ UNCHANGED <<cookie, leaving>>

(* The button of the shell, and the answer: the browser drops the cookie it has. *)
SignsOut ==
    /\ screen = "panel" /\ leaving = ""
    /\ leaving' = "shell"
    /\ UNCHANGED <<screen, cookie, cache, asked, autofill, hooks, pc, browser>>

SignOutAnswered ==
    /\ leaving # "" /\ leaving' = ""
    /\ \/ /\ cookie' = None
          /\ ClearCache
          /\ IF leaving = "shell" THEN Unmounts(None, "boot")
             ELSE UNCHANGED <<screen, autofill, hooks, pc>>
       \/ UNCHANGED <<screen, cookie, cache, asked, autofill, hooks, pc>>
    /\ UNCHANGED browser

(* The session expires, or is ended elsewhere. *)
SessionEnds ==
    /\ cookie # None /\ cookie' = None
    /\ UNCHANGED <<screen, cache, asked, leaving, autofill, hooks, pc, browser>>

(* The session query of a new subtree, and the queries of the panel as they poll. *)
Asks ==
    /\ screen # "login"
    /\ asked' = asked \cup {cookie}
    /\ UNCHANGED <<screen, cookie, cache, leaving, autofill, hooks, pc, browser>>

(* One of those asked as a is answered, be it the last of them or not. *)
Lands(a) ==
    /\ a \in asked \ {None}
    /\ cache' = cache \cup {a}
    /\ asked' \in {asked, asked \ {a}}
    /\ screen' = IF screen = "boot" THEN "panel" ELSE screen
    /\ UNCHANGED <<cookie, leaving, autofill, hooks, pc, browser>>

(* A 401.  A query that holds data keeps it and the page stays; one that holds
   none throws, and the boundary shows the login form.  The cache stays as it is,
   and the queries under way are aborted with the components that asked. *)
Refused ==
    /\ None \in asked
    /\ \/ /\ Unmounts(None, "login")
          /\ asked' = {}
          /\ leaving' = IF leaving = "" THEN "" ELSE "orphan"
       \/ /\ screen = "panel"
          /\ asked' = asked \ {None}
          /\ UNCHANGED <<screen, leaving, autofill, hooks, pc>>
    /\ UNCHANGED <<cookie, cache, browser>>

Answers(c) == BeginAnswered(c) \/ FinishEnds(c) \/ Accepted(c) \/ Hears(c)

Next ==
    \/ \E c \in Attempts :
        \/ SubmitsOrPresses(c, "password") \/ SubmitsOrPresses(c, "button")
        \/ EffectRuns(c) \/ AddsPasskey(c)
        \/ Answers(c) \/ Rejects(c) \/ Picks(c)
    \/ EffectReruns \/ LeavesAccount \/ SignsOut \/ SignOutAnswered
    \/ SessionEnds \/ Asks \/ Refused
    \/ \E a \in Admins : Lands(a)

Spec == Init /\ [][Next]_vars

------------------------------------------------------------------------------
TypeOK ==
    /\ screen \in {"boot", "login", "panel"} /\ {autofill, crowded} \subseteq BOOLEAN
    /\ cookie \in Admins \cup {None} /\ cache \subseteq Admins
    /\ asked \subseteq Admins \cup {None} /\ leaving \in {"", "shell", "orphan"}
    /\ kind \in [Attempts -> Kinds] /\ pc \in [Attempts -> Stages]
    /\ mounted \cup aborted \cup stopped \subseteq Attempts
    /\ latest \in [Hooks -> Attempts \cup {None}]
    /\ awaits \in [Attempts -> Attempts \cup {None}]
    /\ {pending, slot} \subseteq Attempts \cup {None}

(* A ceremony the browser was working on when the form, the button or a cleanup
   stopped what is outstanding never signs anybody in, as long as nobody calls in
   while another is waiting (useConditionalPasskey.ts: "a request that resolves
   later signs in as whoever the autofill picked, racing a password login"). *)
StopStops == crowded \/ \A c \in stopped : pc[c] \notin {"finishing", "accepted"}

(* No autofill request outlives the form it was made for, on the same condition:
   once its effect has been cleaned up the browser has been told to drop it. *)
NoGhostRequest ==
    \A c \in Attempts :
        slot = c /\ kind[c] = "auto" => crowded \/ c \in mounted \/ c \in aborted

(* Whoever waits, waits for a ceremony that ends without the visitor, because the
   browser was told to abort it; and nobody waits twice over or in a circle
   (webauthn.ts: "waits for the browser to let go of it"). *)
NobodyWaitsForTheVisitor ==
    \A c \in Attempts : awaits[c] # None =>
        /\ awaits[c] \in aborted /\ awaits[c] # c
        /\ pc[awaits[c]] \in {"asked", "refused"}
        /\ \A d \in Attempts : awaits[d] = awaits[c] => d = c

(* Once the page has heard of a sign-in, whatever the cache holds and whatever may
   still land in it is the present identity's: not what the session before it left
   behind when it ended, nor an answer to a query asked before (hooks.ts: "whatever
   is left over belongs to the previous identity"). *)
CacheIsOurs ==
    cookie # None /\ (\A c \in Attempts : pc[c] # "accepted")
        => cache \cup (asked \ {None}) \subseteq {cookie}

(* useConditionalPasskey.ts:18: "Four things want to stop it", submitting the form
   among them, lest it race "a password login that may be for a different account":
   while a submitted password is on its way, the browser works on no autofill
   request that has not been aborted. *)
FormStopsAutofill ==
    \A c, d \in Attempts :
        kind[c] = "password" /\ pc[c] = "finishing" /\ slot = d /\ kind[d] = "auto"
            => d \in aborted
==============================================================================
