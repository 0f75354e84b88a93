-------------------------- MODULE CeremoniesProofs --------------------------
(***************************************************************************)
(* Theorems about Ceremonies, for any number of attempts and identities.    *)
(***************************************************************************)
EXTENDS Ceremonies, TLAPS

USE CeremoniesAssumption

------------------------------------------------------------------------------
(* The inductive invariant. *)

Typed ==
    /\ pc \in [Attempts -> Stages] /\ kind \in [Attempts -> Kinds]
    /\ awaits \in [Attempts -> Attempts \cup {None}]
    /\ mounted \subseteq Attempts /\ aborted \subseteq Attempts /\ stopped \subseteq Attempts
    /\ pending \in Attempts \cup {None} /\ slot \in Attempts \cup {None}

(* Whom webauthn.ts holds to be pending is waiting for the browser, and has not been
   told to stop; whom the browser works on has asked it. *)
Running ==
    /\ pending # None => pc[pending] \in {"asked", "refused"} /\ pending \notin aborted
    /\ slot # None => pc[slot] = "asked"
    /\ \A c \in aborted : pc[c] \in {"asked", "refused"}

Waiting ==
    /\ \A c \in Attempts : awaits[c] # None => pc[c] \in {"stopping", "queued"}
    /\ NobodyWaitsForTheVisitor

(* As long as nobody calls in while another is waiting, one waits at a time and
   nothing is pending meanwhile; whom the browser works on is pending or aborted. *)
Orderly ==
    /\ slot = None \/ slot = pending \/ slot \in aborted
    /\ stopped \subseteq aborted /\ stopped \subseteq {slot}
    /\ \A c \in Attempts : awaits[c] # None => pending = None
    /\ \A c, d \in Attempts : awaits[c] # None /\ awaits[d] # None => c = d

(* ... and an autofill request that is pending, or waits to be, has its form. *)
Attended ==
    \A c \in Attempts :
        kind[c] = "auto" /\ (pending = c \/ awaits[c] # None) => c \in mounted

(* Who signs in has the login form, autofill one whose effect has run; nothing is
   asked there, and a shell that waits to be signed out is on screen. *)
Placed ==
    /\ \A c \in mounted : /\ kind[c] = "auto" => autofill
                          /\ kind[c] # "register" => screen = "login"
    /\ \A c \in Attempts : pc[c] = "accepted" => kind[c] # "register"
    /\ screen = "login" => asked = {}
    /\ leaving = "shell" => screen = "panel"

CInv ==
    /\ Typed /\ Running /\ Waiting /\ Placed
    /\ crowded \/ (Orderly /\ Attended)

LEMMA Initially == Init => CInv
<1> SUFFICES ASSUME Init
             PROVE  CInv
  OBVIOUS
<1>1. Typed /\ Running /\ Waiting /\ Placed
  BY DEF Init, Typed, Running, Waiting, NobodyWaitsForTheVisitor, Placed, Stages, Kinds
<1>2. Orderly /\ Attended
  BY DEF Init, Orderly, Attended
<1> QED
  BY <1>1, <1>2 DEF CInv

------------------------------------------------------------------------------
(* What abortPendingCeremony leaves behind, c being ready to wait. *)
LEMMA AbortEffect ==
    ASSUME CInv, NEW c, AbortPending(c)
    PROVE  /\ pending' = None /\ slot' = slot
           /\ aborted' = aborted \cup Some(pending)
           /\ stopped' = stopped \cup Some(slot)
           /\ stopped' \subseteq Attempts /\ aborted' \subseteq Attempts
           /\ awaits' = [w \in Attempts |-> IF w = c THEN pending ELSE awaits[w]]
           /\ awaits' \in [Attempts -> Attempts \cup {None}]
           /\ ~crowded' => ~crowded /\ \A w \in Attempts : awaits[w] = None
BY DEF AbortPending, CInv, Typed, Some, CallsIn

(* The stages of those who do not start waiting stay as they were, or were no part
   of any ceremony: then calling in keeps what holds of the browser. *)
LEMMA AbortKeeps ==
    ASSUME CInv, NEW c, AbortPending(c),
           pc' \in [Attempts -> Stages],
           \A w \in Attempts : w # c => \/ pc'[w] = pc[w]
                                        \/ pc[w] = "accepted" /\ pc'[w] = "free",
           c \in Attempts => pc[c] \in {"free", "beginning"},
           c \in Attempts /\ pending # None => pc'[c] \in {"stopping", "queued"}
    PROVE  /\ Running' /\ Waiting' /\ (crowded' \/ Orderly')
           /\ ~crowded' => \A w \in Attempts : awaits'[w] # None => w = c
<1>1. /\ pending' = None /\ slot' = slot
      /\ aborted' = aborted \cup Some(pending)
      /\ stopped' = stopped \cup Some(slot)
      /\ awaits' = [w \in Attempts |-> IF w = c THEN pending ELSE awaits[w]]
      /\ ~crowded' => ~crowded /\ \A w \in Attempts : awaits[w] = None
  BY AbortEffect
<1>2. Typed /\ Running /\ Waiting /\ (crowded \/ Orderly)
  BY DEF CInv
<1>3. \A w \in Attempts : pc[w] \in {"asked", "refused", "stopping", "queued"} => pc'[w] = pc[w]
  <2> SUFFICES ASSUME NEW w \in Attempts, pc[w] \in {"asked", "refused", "stopping", "queued"}
               PROVE  pc'[w] = pc[w]
    OBVIOUS
  <2>1. w # c
    BY <1>2 DEF Waiting
  <2> QED
    BY <2>1
<1>4. Running'
  BY <1>1, <1>2, <1>3 DEF Running, Typed, Some
<1>5. \A w \in Attempts : awaits'[w] # None => pc'[w] \in {"stopping", "queued"}
  BY <1>1, <1>2, <1>3 DEF Waiting
<1>6. NobodyWaitsForTheVisitor'
  <2> SUFFICES ASSUME NEW v \in Attempts, awaits'[v] # None
               PROVE  /\ awaits'[v] \in aborted' /\ awaits'[v] # v
                      /\ pc'[awaits'[v]] \in {"asked", "refused"}
                      /\ \A d \in Attempts : awaits'[d] = awaits'[v] => d = v
    BY DEF NobodyWaitsForTheVisitor
  <2>1. CASE v = c
    BY <1>1, <1>2, <1>3, <2>1 DEF Running, Waiting, NobodyWaitsForTheVisitor, Typed, Some
  <2>2. CASE v # c
    BY <1>1, <1>2, <1>3, <2>2 DEF Running, Waiting, NobodyWaitsForTheVisitor, Typed, Some
  <2> QED
    BY <2>1, <2>2
<1>7. crowded' \/ Orderly'
  BY <1>1, <1>2 DEF Orderly, Some, Typed
<1> QED
  BY <1>1, <1>4, <1>5, <1>6, <1>7 DEF Waiting

(* The ceremonies stay as they are, and so do those who take part in one. *)
LEMMA BrowserKept ==
    ASSUME CInv, UNCHANGED browser, pc' \in [Attempts -> Stages],
           \A w \in Attempts : pc'[w] = pc[w] \/ pc[w] \in {"free", "beginning", "finishing", "accepted"}
    PROVE  Running' /\ Waiting' /\ (crowded' \/ Orderly')
<1>1. UNCHANGED <<pending, awaits, slot, aborted, stopped, crowded>>
  BY DEF browser
<1>2. Typed /\ Running /\ Waiting /\ (crowded \/ Orderly)
  BY DEF CInv
<1>3. \A w \in Attempts : pc[w] \in {"asked", "refused", "stopping", "queued"} => pc'[w] = pc[w]
  OBVIOUS
<1>4. Running'
  BY <1>1, <1>2, <1>3 DEF Running, Typed
<1>5. Waiting'
  BY <1>1, <1>2, <1>3 DEF Waiting, NobodyWaitsForTheVisitor, Typed
<1>6. crowded' \/ Orderly'
  BY <1>1, <1>2 DEF Orderly
<1> QED
  BY <1>4, <1>5, <1>6

------------------------------------------------------------------------------
(* Attempts that take part in no ceremony. *)

LEMMA FreesKeeps ==
    ASSUME CInv, NEW c \in Attempts, pc[c] \in {"beginning", "finishing", "accepted"}, Frees(c),
           UNCHANGED <<screen, autofill, leaving>>, asked' \subseteq asked
    PROVE  CInv'
<1>1. /\ pc' = [pc EXCEPT ![c] = "free"] /\ kind' = [kind EXCEPT ![c] = "auto"]
      /\ mounted' = mounted \ {c} /\ stopped' = stopped \ {c}
      /\ UNCHANGED <<pending, awaits, slot, aborted, crowded>>
  BY DEF Frees
<1>2. Typed /\ Running /\ Waiting /\ Placed /\ (crowded \/ (Orderly /\ Attended))
  BY DEF CInv
<1>3. Typed' /\ Running'
  BY <1>1, <1>2 DEF Typed, Running, Stages, Kinds
<1>4. Waiting'
  BY <1>1, <1>2 DEF Waiting, NobodyWaitsForTheVisitor, Typed
<1>5. Placed'
  BY <1>1, <1>2 DEF Placed, Typed
<1>6. ~crowded => Orderly' /\ Attended'
  <2> SUFFICES ASSUME ~crowded
               PROVE  Orderly' /\ Attended'
    OBVIOUS
  <2>1. Orderly'
    BY <1>1, <1>2 DEF Orderly
  <2>2. pending # c /\ awaits[c] = None
    BY <1>2 DEF Running, Waiting, Typed
  <2>3. Attended'
    BY <1>1, <1>2, <2>2 DEF Attended, Typed
  <2> QED
    BY <2>1, <2>3
<1> QED
  BY <1>1, <1>3, <1>4, <1>5, <1>6 DEF CInv

LEMMA StartsKeep ==
    ASSUME CInv, NEW c \in Attempts, EffectRuns(c) \/ AddsPasskey(c)
    PROVE  CInv'
<1>1. PICK k \in {"auto", "register"} :
          /\ pc[c] = "free" /\ kind' = [kind EXCEPT ![c] = k] /\ mounted' = mounted \cup {c}
          /\ pc' = [pc EXCEPT ![c] = "beginning"] /\ UNCHANGED browser
          /\ k = "auto" => screen = "login" /\ autofill'
          /\ k = "register" => UNCHANGED autofill
          /\ UNCHANGED <<screen, asked, leaving>>
  BY DEF EffectRuns, AddsPasskey, Starts, page
<1>2. Typed /\ Running /\ Waiting /\ Placed /\ (crowded \/ (Orderly /\ Attended))
  BY DEF CInv
<1>3. Typed'
  BY <1>1, <1>2 DEF Typed, browser, Stages, Kinds
<1>4. Running' /\ Waiting' /\ (crowded' \/ Orderly')
  BY <1>1, <1>2, <1>3, BrowserKept DEF Typed
<1>5. Placed'
  BY <1>1, <1>2 DEF Placed, Typed
<1>6. ~crowded => Attended'
  <2>1. pending # c /\ awaits[c] = None
    BY <1>1, <1>2 DEF Running, Waiting, Typed
  <2> QED
    BY <1>1, <1>2, <2>1 DEF Attended, Typed, browser
<1> QED
  BY <1>1, <1>3, <1>4, <1>5, <1>6 DEF CInv, browser

(* Everything on screen goes, while no login form is. *)
LEMMA UnmountsKeep ==
    ASSUME CInv, screen # "login", NEW to \in {"boot", "login"}, Unmounts(None, to),
           UNCHANGED browser, to = "login" => asked' = {}, leaving' # "shell"
    PROVE  CInv'
<1>1. Typed /\ Running /\ Waiting /\ Placed /\ (crowded \/ (Orderly /\ Attended))
  BY DEF CInv
<1>2. pc' = pc /\ kind' = kind /\ mounted' = {} /\ screen' = to
  <2>1. /\ pc' = [w \in Attempts |-> IF w = None THEN "free" ELSE pc[w]]
        /\ kind' = [w \in Attempts |-> IF w = None THEN "auto" ELSE kind[w]]
    BY DEF Unmounts
  <2>2. \A w \in Attempts : w # None
    OBVIOUS
  <2> QED
    BY <1>1, <2>1, <2>2 DEF Typed, Unmounts
<1>3. Typed'
  BY <1>1, <1>2 DEF Typed, browser
<1>4. Running' /\ Waiting' /\ (crowded' \/ Orderly')
  BY <1>2, <1>3, BrowserKept DEF Typed
<1>5. Placed'
  BY <1>1, <1>2 DEF Placed
<1>6. ~crowded => Attended'
  <2>1. \A c \in mounted : kind[c] # "auto"
    BY <1>1 DEF Placed
  <2> QED
    BY <1>1, <1>2, <2>1 DEF Attended, browser
<1> QED
  BY <1>1, <1>3, <1>4, <1>5, <1>6 DEF CInv, browser

(* What happens without an attempt, but for the effect, leaves the ceremonies be. *)
ScreenStep ==
    LeavesAccount \/ SignsOut \/ SessionEnds \/ Asks \/ (\E a \in Admins : Lands(a)) \/ UNCHANGED vars

LEMMA ScreensKeep ==
    ASSUME CInv, ScreenStep
    PROVE  CInv'
<1>1. Typed /\ Running /\ Waiting /\ Placed /\ (crowded \/ (Orderly /\ Attended))
  BY DEF CInv
<1>2. UNCHANGED browser /\ pc' = pc /\ kind' = kind
  BY DEF ScreenStep, LeavesAccount, SignsOut, SessionEnds, Asks, Lands, vars, hooks
<1>3. /\ mounted' \subseteq mounted
      /\ \A c \in mounted : kind[c] = "auto" => c \in mounted'
  BY DEF ScreenStep, LeavesAccount, SignsOut, SessionEnds, Asks, Lands, vars, hooks
<1>4. /\ autofill' = autofill
      /\ screen = "login" => screen' = "login" /\ asked' = asked
      /\ screen # "login" => screen' # "login"
      /\ leaving' = "shell" => screen' = "panel"
  <2>1. CASE \E a \in Admins : Lands(a)
    BY <1>1, <2>1 DEF Lands, Placed
  <2>2. CASE LeavesAccount \/ SignsOut \/ SessionEnds \/ Asks \/ UNCHANGED vars
    BY <1>1, <2>2 DEF LeavesAccount, SignsOut, SessionEnds, Asks, vars, page, Placed
  <2> QED
    BY <2>1, <2>2 DEF ScreenStep
<1>5. Typed'
  BY <1>1, <1>2, <1>3 DEF Typed, browser
<1>6. Running' /\ Waiting' /\ (crowded' \/ Orderly')
  BY <1>2, <1>5, BrowserKept DEF Typed
<1>7. Placed'
  BY <1>1, <1>2, <1>3, <1>4 DEF Placed
<1>8. ~crowded => Attended'
  BY <1>1, <1>2, <1>3 DEF Attended, browser
<1> QED
  BY <1>1, <1>2, <1>5, <1>6, <1>7, <1>8 DEF CInv, browser

LEMMA RefusedKeeps ==
    ASSUME CInv, Refused
    PROVE  CInv'
<1>1. screen # "login" /\ UNCHANGED browser
  BY DEF Refused, CInv, Placed
<1>2. CASE UNCHANGED <<screen, leaving, autofill, hooks, pc>> /\ asked' = asked \ {None}
  <2>1. Typed /\ Running /\ Waiting /\ Placed /\ (crowded \/ (Orderly /\ Attended))
    BY DEF CInv
  <2>2. UNCHANGED <<kind, mounted>>
    BY <1>2 DEF hooks
  <2>3. Typed'
    BY <1>1, <1>2, <2>1, <2>2 DEF Typed, browser
  <2>4. Running' /\ Waiting' /\ (crowded' \/ Orderly')
    BY <1>1, <1>2, <2>3, BrowserKept DEF Typed
  <2>5. Placed' /\ (~crowded => Attended')
    BY <1>1, <1>2, <2>1, <2>2 DEF Placed, Attended, browser
  <2> QED
    BY <1>1, <2>3, <2>4, <2>5 DEF CInv, browser
<1>3. CASE Unmounts(None, "login") /\ asked' = {} /\ leaving' # "shell"
  BY <1>1, <1>3, UnmountsKeep
<1> QED
  BY <1>2, <1>3 DEF Refused

LEMMA SignOutKeeps ==
    ASSUME CInv, SignOutAnswered
    PROVE  CInv'
<1>1. UNCHANGED browser /\ leaving' = ""
  BY DEF SignOutAnswered
<1>2. CASE leaving = "shell" /\ Unmounts(None, "boot")
  <2>1. screen # "login"
    BY <1>2 DEF CInv, Placed
  <2> QED
    BY <1>1, <1>2, <2>1, UnmountsKeep
<1>3. CASE UNCHANGED <<screen, autofill, hooks, pc>> /\ asked' \subseteq asked
  <2>1. Typed /\ Running /\ Waiting /\ Placed /\ (crowded \/ (Orderly /\ Attended))
    BY DEF CInv
  <2>2. UNCHANGED <<kind, mounted>>
    BY <1>3 DEF hooks
  <2>3. Typed'
    BY <1>1, <1>3, <2>1, <2>2 DEF Typed, browser
  <2>4. Running' /\ Waiting' /\ (crowded' \/ Orderly')
    BY <1>1, <1>3, <2>3, BrowserKept DEF Typed
  <2>5. Placed' /\ (~crowded => Attended')
    BY <1>1, <1>3, <2>1, <2>2 DEF Placed, Attended, browser
  <2> QED
    BY <1>1, <2>3, <2>4, <2>5 DEF CInv, browser
<1> QED
  BY <1>2, <1>3 DEF SignOutAnswered, ClearCache

------------------------------------------------------------------------------
(* Attempts that call in. *)

LEMMA SubmitsKeeps ==
    ASSUME CInv, NEW c \in Attempts, NEW k \in {"password", "button"}, SubmitsOrPresses(c, k)
    PROVE  CInv'
<1>1. /\ pc[c] = "free" /\ kind' = [kind EXCEPT ![c] = k] /\ mounted' = mounted \cup {c}
      /\ AbortPending(c) /\ UNCHANGED <<screen, autofill, asked, leaving>> /\ screen = "login"
      /\ \E to \in {"stopping", "finishing", "beginning"} :
             pc' = [pc EXCEPT ![c] = to] /\ (pending # None => to = "stopping")
  BY DEF SubmitsOrPresses, Starts, page
<1>2. Typed /\ Placed /\ (crowded \/ (Orderly /\ Attended))
  BY DEF CInv
<1>3. Typed'
  BY <1>1, <1>2, AbortEffect DEF Typed, Stages, Kinds
<1>4. /\ Running' /\ Waiting' /\ (crowded' \/ Orderly')
      /\ ~crowded' => \A w \in Attempts : awaits'[w] # None => w = c
  BY <1>1, <1>2, <1>3, AbortKeeps DEF Typed
<1>5. Placed'
  BY <1>1, <1>2 DEF Placed, Typed
<1>6. crowded' \/ Attended'
  BY <1>1, <1>2, <1>4, AbortEffect DEF Attended, Typed
<1> QED
  BY <1>3, <1>4, <1>5, <1>6 DEF CInv

LEMMA RerunsKeep ==
    ASSUME CInv, EffectReruns
    PROVE  CInv'
<1>1. /\ mounted' = {c \in mounted : kind[c] # "auto"} /\ AbortPending(None)
      /\ UNCHANGED <<pc, kind, screen, asked, leaving>>
  BY DEF EffectReruns
<1>2. Typed /\ Placed /\ (crowded \/ (Orderly /\ Attended))
  BY DEF CInv
<1>3. Typed'
  BY <1>1, <1>2, AbortEffect DEF Typed
<1>4. /\ Running' /\ Waiting' /\ (crowded' \/ Orderly')
      /\ ~crowded' => \A w \in Attempts : awaits'[w] = None
  BY <1>1, <1>2, AbortKeeps DEF Typed
<1>5. Placed'
  BY <1>1, <1>2 DEF Placed
<1>6. crowded' \/ Attended'
  BY <1>1, <1>4, AbortEffect DEF Attended
<1> QED
  BY <1>3, <1>4, <1>5, <1>6 DEF CInv

LEMMA AcceptedKeeps ==
    ASSUME CInv, NEW c \in Attempts, Accepted(c)
    PROVE  CInv'
<1>1. /\ pc[c] = "finishing" /\ kind[c] # "register" /\ pc' = [pc EXCEPT ![c] = "accepted"]
      /\ UNCHANGED <<screen, asked, leaving, autofill, kind, mounted>> /\ UNCHANGED browser
  BY DEF Accepted, hooks
<1>2. Typed /\ Placed /\ (crowded \/ Attended)
  BY DEF CInv
<1>3. Typed'
  BY <1>1, <1>2 DEF Typed, Stages, browser
<1>4. Running' /\ Waiting' /\ (crowded' \/ Orderly')
  BY <1>1, <1>2, <1>3, BrowserKept DEF Typed
<1>5. Placed' /\ (crowded' \/ Attended')
  BY <1>1, <1>2 DEF Placed, Attended, Typed, browser
<1> QED
  BY <1>3, <1>4, <1>5 DEF CInv

LEMMA HearsKeeps ==
    ASSUME CInv, NEW c \in Attempts, Hears(c)
    PROVE  CInv'
<1>1. pc[c] = "accepted" /\ leaving' = leaving /\ asked' = {}
  BY DEF Hears, ClearCache
<1>2. CASE Frees(c) /\ UNCHANGED <<screen, autofill>>
  BY <1>1, <1>2, FreesKeeps
<1>3. CASE Unmounts(c, "boot") /\ AbortPending(None) /\ IsPending(Hook(kind[c])) /\ latest[Hook(kind[c])] = c
  <2>1. /\ mounted' = {} /\ screen' = "boot"
        /\ pc' = [w \in Attempts |-> IF w = c THEN "free" ELSE pc[w]]
        /\ kind' = [w \in Attempts |-> IF w = c THEN "auto" ELSE kind[w]]
    BY <1>3 DEF Unmounts
  <2>2. Typed /\ Placed
    BY DEF CInv
  <2>3. Typed'
    BY <1>3, <2>1, <2>2, AbortEffect DEF Typed, Stages, Kinds
  <2>4. /\ Running' /\ Waiting' /\ (crowded' \/ Orderly')
        /\ ~crowded' => \A w \in Attempts : awaits'[w] = None
    BY <1>1, <1>3, <2>1, <2>3, AbortKeeps DEF Typed
  <2>5. leaving # "shell"
    BY <1>1, <1>3, <2>2 DEF Placed, IsPending
  <2>6. Placed' /\ (crowded' \/ Attended')
    BY <1>1, <1>3, <2>1, <2>2, <2>4, <2>5, AbortEffect DEF Placed, Attended, Typed
  <2> QED
    BY <2>3, <2>4, <2>6 DEF CInv
<1> QED
  BY <1>2, <1>3 DEF Hears

LEMMA BeginKeeps ==
    ASSUME CInv, NEW c \in Attempts, BeginAnswered(c)
    PROVE  CInv'
<1>1. pc[c] = "beginning" /\ UNCHANGED <<screen, autofill, asked, leaving>>
  BY DEF BeginAnswered, page
<1>2. CASE Frees(c)
  BY <1>1, <1>2, FreesKeeps
<1>3. CASE (kind[c] = "auto" => c \in mounted) /\ Exclusive(c) /\ UNCHANGED hooks
  <2>1. Typed /\ Running /\ Waiting /\ Placed /\ (crowded \/ (Orderly /\ Attended))
    BY DEF CInv
  <2>2. UNCHANGED <<kind, mounted>>
    BY <1>3 DEF hooks
  <2>3. Placed'
    <3>1. \A w \in Attempts : pc'[w] = "accepted" => pc[w] = "accepted"
      BY <1>3, <2>1 DEF Exclusive, Typed
    <3> QED
      BY <1>1, <2>1, <2>2, <3>1 DEF Placed
  <2>4. awaits[c] = None
    BY <1>1, <2>1 DEF Waiting
  <2>5. CASE pending # None /\ AbortPending(c) /\ pc' = [pc EXCEPT ![c] = "queued"]
    <3>1. Typed'
      BY <2>1, <2>2, <2>5, AbortEffect DEF Typed, Stages
    <3>2. /\ Running' /\ Waiting' /\ (crowded' \/ Orderly')
          /\ ~crowded' => \A w \in Attempts : awaits'[w] # None => w = c
      BY <1>1, <2>1, <2>5, <3>1, AbortKeeps DEF Typed
    <3>3. crowded' \/ Attended'
      BY <1>3, <2>2, <2>5, <3>2, AbortEffect DEF Attended
    <3> QED
      BY <2>3, <3>1, <3>2, <3>3 DEF CInv
  <2>6. CASE pending = None /\ ~(pending # None /\ AbortPending(c))
    <3>1. /\ pending' = c /\ UNCHANGED <<awaits, aborted, stopped>>
          /\ crowded' = (crowded \/ \E w \in Attempts : awaits[w] # None)
          /\ \/ slot = None /\ slot' = c /\ pc' = [pc EXCEPT ![c] = "asked"]
             \/ slot # None /\ slot' = slot /\ pc' = [pc EXCEPT ![c] = "refused"]
      BY <1>3, <2>6 DEF Exclusive, CallsIn
    <3>2. Typed'
      BY <2>1, <2>2, <3>1 DEF Typed, Stages
    <3>3. Running'
      BY <1>1, <2>1, <3>1 DEF Typed, Running
    <3>4. Waiting'
      BY <1>1, <2>1, <3>1 DEF Typed, Waiting, NobodyWaitsForTheVisitor
    <3>5. crowded' \/ (Orderly' /\ Attended')
      <4> SUFFICES ASSUME ~crowded'
                   PROVE  Orderly' /\ Attended'
        OBVIOUS
      <4>1. ~crowded /\ \A w \in Attempts : awaits[w] = None
        BY <3>1
      <4>2. Attended'
        BY <1>3, <2>2, <3>1, <4>1 DEF Attended
      <4>3. Orderly'
        BY <2>1, <2>6, <3>1, <4>1 DEF Orderly, Typed
      <4> QED
        BY <4>2, <4>3
    <3> QED
      BY <2>3, <3>2, <3>3, <3>4, <3>5 DEF CInv
  <2> QED
    BY <1>3, <2>5, <2>6 DEF Exclusive
<1> QED
  BY <1>2, <1>3 DEF BeginAnswered

------------------------------------------------------------------------------
(* The browser settles a ceremony. *)

LEMMA SettlesKeeps ==
    ASSUME CInv, NEW c \in Attempts, NEW to \in {"free", "finishing"},
           pc[c] \in {"asked", "refused"}, Settles(c, to),
           UNCHANGED <<screen, autofill, asked, leaving>>,
           to = "finishing" => slot = c /\ c \notin aborted /\ (kind[c] = "auto" => c \in mounted)
    PROVE  CInv'
<1> DEFINE waiters == {w \in Attempts : awaits[w] = c}
           next == {w \in waiters : pc[w] = "queued"}
           left == IF slot = c THEN None ELSE slot
           first == CHOOSE w \in next : TRUE
<1>1. Typed /\ Running /\ Waiting /\ Placed /\ (crowded \/ (Orderly /\ Attended))
  BY DEF CInv
<1>2. \A v, w \in waiters : v = w
  BY <1>1 DEF Waiting, NobodyWaitsForTheVisitor
<1>3. /\ pending' = IF next = {} THEN Forget(c) ELSE first
      /\ slot' = IF \E w \in next : w \in next /\ left = None THEN first ELSE left
      /\ pc' = [w \in Attempts |->
                  CASE w = c -> to
                    [] w \in next -> IF w \in next /\ left = None THEN "asked" ELSE "refused"
                    [] w \in waiters \ next -> Stopped(w)
                    [] OTHER -> pc[w]]
      /\ kind' = [kind EXCEPT ![c] = IF to = "free" THEN "auto" ELSE Goes(c)]
      /\ mounted' = IF to = "free" THEN mounted \ {c} ELSE mounted
      /\ awaits' = [w \in Attempts |-> IF w \in waiters THEN None ELSE awaits[w]]
      /\ aborted' = aborted \ {c}
      /\ stopped' = IF to = "free" THEN stopped \ {c} ELSE stopped
      /\ crowded' = crowded
  BY DEF Settles
<1>4. next # {} => first \in next
  BY Zenon
<1>5. \A w \in next : w = first
  BY <1>2, <1>4
<1> HIDE DEF first
<1>6. /\ c \notin waiters /\ awaits[c] = None
      /\ \A w \in waiters : pc[w] \in {"stopping", "queued"} /\ w \notin aborted
                               /\ w # pending /\ w # slot
      /\ waiters # {} => c \in aborted /\ c # pending /\ to = "free"
  BY <1>1 DEF Running, Waiting, NobodyWaitsForTheVisitor, Typed
<1>7. Typed'
  <2>1. pc' \in [Attempts -> Stages]
    BY <1>1, <1>3 DEF Typed, Stages, Stopped
  <2> QED
    BY <1>1, <1>3, <1>4, <2>1 DEF Typed, Kinds, Forget, Goes
(* Who is next, and what becomes of everybody else. *)
<1>8. /\ pc'[c] = to
      /\ \A w \in Attempts : w # c /\ w \notin waiters => pc'[w] = pc[w] /\ awaits'[w] = awaits[w]
      /\ \A w \in waiters : awaits'[w] = None
      /\ next # {} => /\ pending' = first /\ first \in Attempts /\ first # c
                      /\ IF left = None THEN slot' = first /\ pc'[first] = "asked"
                                        ELSE slot' = slot /\ slot # c /\ pc'[first] = "refused"
      /\ next = {} => /\ pending' = IF pending = c THEN None ELSE pending
                      /\ slot' = IF slot = c THEN None ELSE slot
  <2>1. \A w \in next : w \in Attempts /\ w # c /\ w \in waiters
    BY <1>6
  <2>2. CASE next = {}
    BY <1>1, <1>3, <1>6, <2>2 DEF Typed, Forget
  <2>3. CASE next # {}
    <3>1. first \in next /\ first \in Attempts /\ first # c
      BY <1>4, <2>1, <2>3
    <3>2. pc'[first] = IF left = None THEN "asked" ELSE "refused"
      BY <1>3, <3>1
    <3>3. pending' = first /\ slot' = IF left = None THEN first ELSE left
      BY <1>3, <2>3, <3>1
    <3> QED
      BY <1>1, <1>3, <1>6, <2>3, <3>1, <3>2, <3>3 DEF Typed
  <2> QED
    BY <2>2, <2>3
<1>9. Running'
  BY <1>1, <1>3, <1>4, <1>6, <1>7, <1>8 DEF Running, Typed
<1>10. Waiting'
  <2> SUFFICES ASSUME NEW v \in Attempts, awaits'[v] # None
               PROVE  /\ pc'[v] \in {"stopping", "queued"}
                      /\ awaits'[v] \in aborted' /\ awaits'[v] # v
                      /\ pc'[awaits'[v]] \in {"asked", "refused"}
                      /\ \A d \in Attempts : awaits'[d] = awaits'[v] => d = v
    BY DEF Waiting, NobodyWaitsForTheVisitor
  <2>1. v \notin waiters /\ v # c /\ awaits'[v] = awaits[v] /\ awaits[v] # c
    BY <1>3, <1>6, <1>8
  <2>2. /\ pc[v] \in {"stopping", "queued"} /\ awaits[v] \in aborted /\ awaits[v] # v
        /\ pc[awaits[v]] \in {"asked", "refused"} /\ awaits[v] \in Attempts
        /\ \A d \in Attempts : awaits[d] = awaits[v] => d = v
    BY <1>1, <2>1 DEF Waiting, NobodyWaitsForTheVisitor, Typed
  <2>3. awaits[v] \notin waiters
    BY <1>6, <2>2
  <2> QED
    BY <1>3, <1>8, <2>1, <2>2, <2>3
<1>11. Placed'
  <2>1. \A w \in Attempts : pc'[w] = "accepted" => w # c /\ pc[w] = "accepted"
    BY <1>3, <1>6 DEF Stopped
  <2> QED
    BY <1>1, <1>3, <2>1 DEF Placed, Typed, Goes
<1>12. ~crowded => Orderly' /\ Attended'
  <2> SUFFICES ASSUME ~crowded
               PROVE  Orderly' /\ Attended'
    OBVIOUS
  <2>1. Orderly /\ Attended
    BY <1>1
  <2>2. next # {} => pending = None /\ \A w \in Attempts : awaits'[w] = None
    <3> SUFFICES ASSUME next # {}
                 PROVE  pending = None /\ \A w \in Attempts : awaits'[w] = None
      OBVIOUS
    <3>1. first \in Attempts /\ awaits[first] = c /\ c # None
      BY <1>4
    <3> QED
      BY <1>3, <2>1, <3>1 DEF Orderly
  <2>3. Orderly'
    <3>1. CASE next = {}
      BY <1>1, <1>3, <1>8, <2>1, <3>1 DEF Orderly, Typed
    <3>2. CASE next # {}
      BY <1>1, <1>3, <1>8, <2>1, <2>2, <3>2 DEF Orderly, Typed
    <3> QED
      BY <3>1, <3>2
  <2>4. Attended'
    <3> SUFFICES ASSUME NEW v \in Attempts, kind'[v] = "auto",
                        pending' = v \/ awaits'[v] # None
                 PROVE  v \in mounted'
      BY DEF Attended
    <3>1. v # c
      BY <1>3, <1>6, <1>8, <1>4, <1>7 DEF Typed
    <3>2. kind[v] = "auto"
      BY <1>1, <1>3, <3>1 DEF Typed, Goes
    <3>3. pending = v \/ awaits[v] # None
      BY <1>3, <1>4, <1>8, <3>1
    <3> QED
      BY <1>3, <2>1, <3>1, <3>2, <3>3 DEF Attended
  <2> QED
    BY <2>3, <2>4
<1> QED
  BY <1>3, <1>7, <1>9, <1>10, <1>11, <1>12 DEF CInv

------------------------------------------------------------------------------
LEMMA Steps == CInv /\ [Next]_vars => CInv'
<1> SUFFICES ASSUME CInv, [Next]_vars
             PROVE  CInv'
  OBVIOUS
<1>1. ASSUME NEW c \in Attempts, SubmitsOrPresses(c, "password") \/ SubmitsOrPresses(c, "button")
      PROVE  CInv'
  BY <1>1, SubmitsKeeps
<1>2. ASSUME NEW c \in Attempts, EffectRuns(c) \/ AddsPasskey(c)
      PROVE  CInv'
  BY <1>2, StartsKeep
<1>3. ASSUME NEW c \in Attempts, FinishEnds(c)
      PROVE  CInv'
  BY <1>3, FreesKeeps DEF FinishEnds, page
<1>4. ASSUME NEW c \in Attempts, Rejects(c)
      PROVE  CInv'
  BY <1>4, SettlesKeeps DEF Rejects, page
<1>5. ASSUME NEW c \in Attempts, Picks(c)
      PROVE  CInv'
  <2>1. pc[c] = "asked"
    BY <1>5 DEF Picks, CInv, Typed, Running
  <2> QED
    BY <1>5, <2>1, SettlesKeeps DEF Picks, page
<1>6. ASSUME NEW c \in Attempts, Answers(c)
      PROVE  CInv'
  BY <1>3, <1>6, BeginKeeps, AcceptedKeeps, HearsKeeps DEF Answers
<1>7. CASE EffectReruns
  BY <1>7, RerunsKeep
<1>8. CASE SignOutAnswered
  BY <1>8, SignOutKeeps
<1>9. CASE Refused
  BY <1>9, RefusedKeeps
<1>10. CASE ScreenStep
  BY <1>10, ScreensKeep
<1> QED
  BY <1>1, <1>2, <1>4, <1>5, <1>6, <1>7, <1>8, <1>9, <1>10 DEF Next, ScreenStep

LEMMA Always == Spec => []CInv
BY Initially, Steps, PTL DEF Spec

(* Who waits for the browser to let go waits for a ceremony it has been told to
   abort: waiting ends without the visitor, and never in a circle (webauthn.ts). *)
THEOREM WaitingEnds == Spec => []NobodyWaitsForTheVisitor
<1>1. CInv => NobodyWaitsForTheVisitor
  BY DEF CInv, Waiting
<1> QED
  BY <1>1, Always, PTL

(* What was stopped does not sign in, unless callers crowded (useConditionalPasskey.ts). *)
THEOREM StoppedStaysStopped == Spec => []StopStops
<1>1. CInv => StopStops
  BY DEF CInv, Typed, Running, Orderly, StopStops
<1> QED
  BY <1>1, Always, PTL

(* An autofill request does not outlive its form, unless callers crowded. *)
THEOREM RequestsEndWithTheForm == Spec => []NoGhostRequest
<1>1. CInv => NoGhostRequest
  BY DEF CInv, Orderly, Attended, NoGhostRequest
<1> QED
  BY <1>1, Always, PTL

(* A sign-in that was accepted stays so until the page hears of it. *)
LEMMA AcceptedUntilHeard ==
    ASSUME CInv, [Next]_vars, ~\E c \in Attempts : Hears(c), NEW w \in Attempts, pc[w] = "accepted"
    PROVE  pc'[w] = "accepted"
<1>1. Typed /\ Running /\ Waiting
  BY DEF CInv
<1>2. w # None
  OBVIOUS
<1>3. ASSUME NEW c \in Attempts, Rejects(c) \/ Picks(c)
      PROVE  pc'[w] = "accepted"
  <2>1. PICK to : Settles(c, to)
    BY <1>3 DEF Rejects, Picks
  <2>2. w # c
    BY <1>1, <1>3 DEF Rejects, Picks, Running
  <2>3. awaits[w] # c
    BY <1>1, <1>2 DEF Waiting
  <2> QED
    BY <2>1, <2>2, <2>3 DEF Settles
<1>4. ASSUME NEW c \in Attempts, NEW k \in {"password", "button"}, SubmitsOrPresses(c, k)
      PROVE  pc'[w] = "accepted"
  BY <1>1, <1>4 DEF SubmitsOrPresses, Starts, Typed
<1>5. ASSUME NEW c \in Attempts, EffectRuns(c) \/ AddsPasskey(c)
      PROVE  pc'[w] = "accepted"
  BY <1>1, <1>5 DEF EffectRuns, AddsPasskey, Starts, Typed
<1>6. ASSUME NEW c \in Attempts, BeginAnswered(c) \/ FinishEnds(c) \/ Accepted(c)
      PROVE  pc'[w] = "accepted"
  <2>1. w # c
    BY <1>6 DEF BeginAnswered, FinishEnds, Accepted
  <2> QED
    BY <1>1, <1>6, <2>1 DEF BeginAnswered, FinishEnds, Accepted, Exclusive, Frees, Typed
<1>7. CASE Refused \/ SignOutAnswered
  BY <1>2, <1>7 DEF Refused, SignOutAnswered, Unmounts
<1>8. CASE EffectReruns \/ ScreenStep
  BY <1>8 DEF EffectReruns, ScreenStep, LeavesAccount, SignsOut, SessionEnds, Asks, Lands, vars
<1> QED
  BY <1>3, <1>4, <1>5, <1>6, <1>7, <1>8 DEF Next, Answers, ScreenStep

(* Once a sign-in has been heard of nothing is left, in the cache or under way, of
   what was answered or asked before it, whatever session ended in between and
   whichever forms it outlived (hooks.ts: qc.clear in every hook that signs in or out). *)
THEOREM CacheFollowsCookie == Spec => []CacheIsOurs
<1>1. Init => CacheIsOurs
  BY DEF Init, CacheIsOurs
<1>2. CInv /\ CacheIsOurs /\ [Next]_vars => CacheIsOurs'
  <2> SUFFICES ASSUME CInv, CacheIsOurs, [Next]_vars
               PROVE  CacheIsOurs'
    OBVIOUS
  <2>1. ASSUME NEW c \in Attempts, Hears(c)
        PROVE  CacheIsOurs'
    BY <2>1 DEF Hears, ClearCache, CacheIsOurs
  <2>2. ASSUME NEW c \in Attempts, Accepted(c)
        PROVE  CacheIsOurs'
    <3>1. pc'[c] = "accepted"
      BY <2>2 DEF Accepted, CInv, Typed
    <3> QED
      BY <3>1 DEF CacheIsOurs
  <2>3. CASE SignOutAnswered /\ cookie' = None
    BY <2>3 DEF CacheIsOurs
  <2>4. CASE SessionEnds
    BY <2>4 DEF SessionEnds, CacheIsOurs
  <2>5. CASE /\ cookie' = cookie /\ ~\E c \in Attempts : Hears(c)
             /\ cache' \cup (asked' \ {None}) \subseteq cache \cup (asked \ {None}) \cup {cookie}
    <3>1. (\A c \in Attempts : pc'[c] # "accepted") => \A c \in Attempts : pc[c] # "accepted"
      BY <2>5, AcceptedUntilHeard
    <3> QED
      BY <2>5, <3>1 DEF CacheIsOurs
  <2>6. CASE ~\E c \in Attempts : (Hears(c) \/ Accepted(c))
    <3>1. CASE Asks
      BY <2>5, <2>6, <3>1 DEF Asks
    <3>2. CASE \E a \in Admins : Lands(a)
      BY <2>5, <2>6, <3>2 DEF Lands
    <3>3. CASE Refused
      BY <2>5, <2>6, <3>3 DEF Refused
    <3>4. CASE UNCHANGED <<cookie, cache, asked>>
      BY <2>5, <2>6, <3>4
    <3> QED
      BY <2>3, <2>4, <2>6, <3>1, <3>2, <3>3, <3>4
         DEF Next, SubmitsOrPresses, EffectRuns, AddsPasskey, Answers, BeginAnswered, FinishEnds,
             Rejects, Picks, EffectReruns, LeavesAccount, SignsOut, SignOutAnswered, vars, page
  <2> QED
    BY <2>1, <2>2, <2>6
<1> QED
  BY <1>1, <1>2, Always, PTL DEF Spec

------------------------------------------------------------------------------
(* What the ceremonies do not turn on: the page, its cache, and which attempt a
   mutation hook speaks for. *)
PageTyped ==
    /\ screen \in {"boot", "login", "panel"} /\ {autofill, crowded} \subseteq BOOLEAN
    /\ cookie \in Admins \cup {None} /\ cache \subseteq Admins
    /\ asked \subseteq Admins \cup {None} /\ leaving \in {"", "shell", "orphan"}
    /\ latest \in [Hooks -> Attempts \cup {None}]

(* Calling in, forgetting an attempt and changing who is signed in keep all that. *)
LEMMA AbortTyped ==
    ASSUME CInv, PageTyped, NEW c, AbortPending(c)
    PROVE  {crowded'} \subseteq BOOLEAN
BY DEF AbortPending, CallsIn, PageTyped

LEMMA FreesTyped ==
    ASSUME PageTyped, NEW c, Frees(c)
    PROVE  latest' \in [Hooks -> Attempts \cup {None}] /\ {crowded'} \subseteq BOOLEAN
BY DEF Frees, PageTyped

LEMMA SettlesTyped ==
    ASSUME CInv, PageTyped, UNCHANGED page, NEW c \in Attempts, NEW to, Settles(c, to)
    PROVE  PageTyped'
<1> DEFINE waiters == {w \in Attempts : awaits[w] = c}
           next == {w \in waiters : pc[w] = "queued"}
           calls(h) == \E w \in (waiters \ next) \cap mounted : Hook(kind[w]) = h
<1>1. latest' = [h \in Hooks |->
                   IF calls(h) THEN CHOOSE w \in waiters : TRUE
                   ELSE IF to = "free" THEN (IF latest[h] = c THEN None ELSE latest[h])
                   ELSE IF Hook(kind[c]) = h /\ c \in mounted THEN c ELSE latest[h]]
  BY DEF Settles
<1>2. \A h \in Hooks : calls(h) => (CHOOSE w \in waiters : TRUE) \in Attempts
  OBVIOUS
<1>3. \A h \in Hooks : latest[h] \in Attempts \cup {None}
  BY DEF PageTyped
<1>4. latest' \in [Hooks -> Attempts \cup {None}]
  <2> HIDE DEF calls, waiters
  <2> QED
    BY <1>1, <1>2, <1>3
<1>5. UNCHANGED <<screen, cookie, cache, asked, leaving, autofill, crowded>>
  BY DEF page, Settles
<1> QED
  BY <1>4, <1>5 DEF PageTyped

LEMMA PageSteps == CInv /\ PageTyped /\ [Next]_vars => PageTyped'
<1> SUFFICES ASSUME CInv, PageTyped, [Next]_vars
             PROVE  PageTyped'
  OBVIOUS
<1>1. ASSUME NEW c \in Attempts, NEW k \in {"password", "button"}, SubmitsOrPresses(c, k)
      PROVE  PageTyped'
  <2>1. {crowded'} \subseteq BOOLEAN
    BY <1>1, AbortTyped DEF SubmitsOrPresses
  <2>2. latest' \in [Hooks -> Attempts \cup {None}]
    BY <1>1 DEF SubmitsOrPresses, PageTyped
  <2> QED
    BY <1>1, <2>1, <2>2 DEF SubmitsOrPresses, page, PageTyped
<1>2. ASSUME NEW c \in Attempts, EffectRuns(c) \/ AddsPasskey(c)
      PROVE  PageTyped'
  BY <1>2 DEF EffectRuns, AddsPasskey, browser, page, PageTyped
<1>3. ASSUME NEW c \in Attempts, BeginAnswered(c)
      PROVE  PageTyped'
  <2>1. CASE Frees(c)
    BY <1>3, <2>1, FreesTyped DEF BeginAnswered, page, PageTyped
  <2>2. CASE Exclusive(c) /\ UNCHANGED hooks
    <3>1. {crowded'} \subseteq BOOLEAN
      BY <2>2, AbortTyped DEF Exclusive, CallsIn, PageTyped
    <3> QED
      BY <1>3, <2>2, <3>1 DEF BeginAnswered, page, hooks, PageTyped
  <2> QED
    BY <1>3, <2>1, <2>2 DEF BeginAnswered
<1>4. ASSUME NEW c \in Attempts, FinishEnds(c)
      PROVE  PageTyped'
  BY <1>4, FreesTyped DEF FinishEnds, page, PageTyped
<1>5. ASSUME NEW c \in Attempts, Accepted(c)
      PROVE  PageTyped'
  BY <1>5 DEF Accepted, hooks, browser, PageTyped
<1>6. ASSUME NEW c \in Attempts, Hears(c)
      PROVE  PageTyped'
  <2>1. CASE Unmounts(c, "boot") /\ AbortPending(None)
    <3>1. {crowded'} \subseteq BOOLEAN
      BY <2>1, AbortTyped
    <3> QED
      BY <1>6, <2>1, <3>1 DEF Hears, Unmounts, ClearCache, PageTyped
  <2>2. CASE Frees(c) /\ UNCHANGED <<screen, autofill>>
    BY <1>6, <2>2, FreesTyped DEF Hears, ClearCache, PageTyped
  <2> QED
    BY <1>6, <2>1, <2>2 DEF Hears
<1>7. ASSUME NEW c \in Attempts, Rejects(c) \/ Picks(c)
      PROVE  PageTyped'
  BY <1>7, SettlesTyped DEF Rejects, Picks
<1>8. CASE EffectReruns
  <2>1. {crowded'} \subseteq BOOLEAN
    BY <1>8, AbortTyped DEF EffectReruns
  <2> QED
    BY <1>8, <2>1 DEF EffectReruns, PageTyped
<1>9. CASE SignOutAnswered \/ Refused
  BY <1>9 DEF SignOutAnswered, Refused, Unmounts, ClearCache, browser, hooks, PageTyped
<1>10. ASSUME NEW a \in Admins, Lands(a)
       PROVE  PageTyped'
  BY <1>10 DEF Lands, hooks, browser, PageTyped
<1>11. CASE LeavesAccount \/ SignsOut \/ SessionEnds \/ Asks \/ UNCHANGED vars
  BY <1>11 DEF LeavesAccount, SignsOut, SessionEnds, Asks, vars, page, hooks, browser, PageTyped
<1> QED
  BY <1>1, <1>2, <1>3, <1>4, <1>5, <1>6, <1>7, <1>8, <1>9, <1>10, <1>11 DEF Next, Answers

(* Whoever is named, by a hook, by the browser or by an attempt that waits, is an
   attempt, and what the cache holds belongs to somebody: also when CHOOSE picks who
   goes on after a ceremony has settled (webauthn.ts, the finally of exclusive). *)
THEOREM TypeCorrect == Spec => []TypeOK
<1>1. Init => PageTyped
  BY DEF Init, PageTyped, Hooks
<1>2. CInv /\ PageTyped => TypeOK
  BY DEF CInv, Typed, PageTyped, TypeOK
<1>3. Spec => []PageTyped
  BY <1>1, PageSteps, Always, PTL DEF Spec
<1> QED
  BY <1>2, <1>3, Always, PTL
==============================================================================
