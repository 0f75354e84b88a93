------------------------------ MODULE Throttle ------------------------------
(***************************************************************************)
(* internal/api/ratelimit.go and challenges.go: the login limiter, the     *)
(* table of pending WebAuthn ceremonies, and the handlers of login and of  *)
(* passkey sign-in and enrolment as far as they go through the two.        *)
(*                                                                         *)
(* Each method of the limiter and of the table is one step under its       *)
(* mutex.  A handler reads the clock once and calls them one after the     *)
(* other with that time, so it fails, or issues, with a clock up to Lag    *)
(* old while others have moved the windows on.                             *)
(***************************************************************************)
EXTENDS Integers, FiniteSets, Functions

CONSTANTS
    Handlers,           \* requests under way at one time
    Names,              \* usernames after limiterKey
    Owners, Nobody,     \* administrators enrolling a passkey; nobody in particular
    MaxBegun,           \* bound: passkey sign-ins begun
    PerUser,            \* perUserFailures
    GlobalCap,          \* globalAttempts
    Window,             \* limitWindow
    TTL,                \* passkeyChallengeTTL
    MaxChallenges,      \* maxPasskeyChallenges
    MaxEnrolments,      \* bound: enrolments begun, which takes a session
    Lag,                \* how long after reading the clock a handler goes on
    MaxClock            \* bound: the clock stops here

ASSUME ThrottleAssumption ==
    /\ {PerUser, GlobalCap, Window, TTL, MaxChallenges} \subseteq Nat \ {0}
    /\ {MaxBegun, MaxEnrolments, Lag, MaxClock} \subseteq Nat
    /\ Nobody \notin Owners
    /\ IsFiniteSet(Handlers) /\ Handlers # {} /\ IsFiniteSet(Owners)
    \* the windows that the life of a ceremony can touch: 4 in the code, so that
    \* sign-ins take 240 of the 512
    /\ GlobalCap * ((TTL - 2) \div Window + 2) + Cardinality(Owners) * MaxEnrolments <= MaxChallenges

\* from the limiter's answer to issue nothing is waited for, least of all three minutes
ASSUME LagAssumption == Lag < TTL

VARIABLES
    users,      \* loginLimiter.users: a window for some of the names
    global,     \* loginLimiter.global
    reaped,     \* loginLimiter.lastReapedAt
    pending,    \* challengeStore.m
    clock,
    pc, now,    \* pc[h]: where handler h is; now[h]: the time it read
    name,       \* name[h]: the username it verifies
    wrong,      \* history: wrong[n]: guesses for n that failed, <<t, i>> the i-th of those of time t
    begun,      \* begun[o]: how many ceremonies o began; the n-th one's state is <<o, n>>
    spent,      \* history: states used to get through, still in the table
    misused     \* history: somebody got through with a spent state, or another's

limiter == <<users, global, reaped>>
ceremonies == <<pending, begun, spent, misused>>
handlers == <<pc, now, name>>
vars == <<limiter, ceremonies, clock, handlers, wrong>>

(* The zero time, longer ago than any window. *)
Never == 0 - Window

Within(w, t) == t - w.start < Window

(* roll: the window with one more request in it, or a new one that starts now. *)
Roll(w, t) ==
    IF Within(w, t) THEN [count |-> w.count + 1, start |-> w.start]
                    ELSE [count |-> 1, start |-> t]

Fresh == [count |-> 0, start |-> Never]

WindowOf(n) == IF n \in DOMAIN users THEN users[n] ELSE Fresh

(* reapLocked, at most once per window. *)
Reap(t) ==
    IF t - reaped < Window
    THEN UNCHANGED <<users, reaped>>
    ELSE /\ users' = Restrict(users, {n \in DOMAIN users : Within(users[n], t)})
         /\ reaped' = t

Init ==
    /\ users = <<>> /\ global = Fresh /\ reaped = Never
    /\ pending = {}
    /\ clock = 0
    /\ pc = [h \in Handlers |-> "idle"]
    /\ now = [h \in Handlers |-> 0]
    /\ name = [h \in Handlers |-> Nobody]
    /\ wrong = [n \in Names |-> {}]
    /\ begun = [o \in Owners \cup {Nobody} |-> 0]
    /\ spent = {} /\ misused = FALSE

(* allow and allowGlobal count every request, those they refuse as well; bound:
   one more than the cap stands for any number more. *)
CountRequest(t) ==
    LET w == Roll(global, t) IN
    /\ Reap(t)
    /\ global' = IF w.count <= GlobalCap + 1 THEN w ELSE global

UnderCap(t) == Roll(global, t).count <= GlobalCap

Blocked(n, t) == n \in DOMAIN users /\ Within(users[n], t) /\ users[n].count >= PerUser

(* The handler goes on from its first call, at the time it read. *)
Goto(h, label) ==
    /\ pc' = [pc EXCEPT ![h] = label]
    /\ now' = [now EXCEPT ![h] = clock]

Done(h) ==
    /\ pc' = [pc EXCEPT ![h] = "idle"]
    /\ now' = [now EXCEPT ![h] = 0]
    /\ name' = [name EXCEPT ![h] = Nobody]

------------------------------------------------------------------------------
(* Mutant of Login: a blocked name is let through. *)
LoginUnblocked(h) ==
    /\ pc[h] = "idle"
    /\ UnderCap(clock)
    /\ CountRequest(clock)
    /\ \E n \in Names : name' = [name EXCEPT ![h] = n]
    /\ Goto(h, "verifying")
    /\ UNCHANGED <<ceremonies, clock, wrong>>

(* login, reauthenticate: allow, then bcrypt, then fail or succeed. *)
Login(h) ==
    /\ pc[h] = "idle"
    /\ UnderCap(clock)
    /\ CountRequest(clock)
    /\ \E n \in Names :
        /\ ~Blocked(n, clock)
        /\ name' = [name EXCEPT ![h] = n]
    /\ Goto(h, "verifying")
    /\ UNCHANGED <<ceremonies, clock, wrong>>

(* allow or allowGlobal says no, and has counted the request all the same. *)
Refused(h) ==
    /\ pc[h] = "idle"
    /\ ~UnderCap(clock) \/ \E n \in Names : Blocked(n, clock)
    /\ CountRequest(clock)
    /\ UNCHANGED <<ceremonies, clock, handlers, wrong>>

Fail(h) ==
    /\ pc[h] = "verifying"
    /\ users' = [n \in DOMAIN users \cup {name[h]} |->
                     IF n = name[h] THEN Roll(WindowOf(n), now[h]) ELSE users[n]]
    /\ wrong' = [wrong EXCEPT ![name[h]] =
                     @ \cup {<<now[h], Cardinality({g \in @ : g[1] = now[h]}) + 1>>}]
    /\ Done(h)
    /\ UNCHANGED <<global, reaped, ceremonies, clock>>

(* A right password wipes the name's window. *)
Succeed(h) ==
    /\ pc[h] = "verifying"
    /\ users' = Restrict(users, DOMAIN users \ {name[h]})
    /\ wrong' = [wrong EXCEPT ![name[h]] = {}]
    /\ Done(h)
    /\ UNCHANGED <<global, reaped, ceremonies, clock>>

------------------------------------------------------------------------------
(* issue: what has expired by the caller's clock goes, and if the table is full
   still, the oldest. *)
Issue(owner, t) ==
    LET live == {p \in pending : t < p.expires}
        new == [state |-> <<owner, begun[owner] + 1>>, expires |-> t + TTL]
    IN  /\ \/ Cardinality(live) < MaxChallenges /\ pending' = live \cup {new}
           \/ /\ Cardinality(live) >= MaxChallenges
              /\ \E o \in live :
                    /\ \A p \in live : o.expires <= p.expires
                    /\ pending' = (live \ {o}) \cup {new}
        /\ begun' = [begun EXCEPT ![owner] = @ + 1]
        /\ UNCHANGED <<spent, misused>>

(* A state has got a handler of this owner's through. *)
Through(p, owner) ==
    /\ misused' = (misused \/ p.state \in spent \/ p.state[1] # owner)
    /\ spent' = (spent \cup {p.state}) \cap {q.state : q \in pending'}

(* Mutant of Take: the state stays in the table. *)
TakeAgain(owner, t) ==
    \E p \in pending :
        /\ t < p.expires /\ p.state[1] = owner
        /\ UNCHANGED pending
        /\ Through(p, owner)

(* take: gone on every path; let through in time, and for who began it. *)
Take(owner, t) ==
    \E p \in pending :
        /\ pending' = pending \ {p}
        /\ IF t < p.expires /\ p.state[1] = owner
           THEN Through(p, owner)
           ELSE UNCHANGED <<spent, misused>>

(* Mutant of PasskeyRequest: the cap is not asked. *)
PasskeyRequestUncapped(h) ==
    /\ pc[h] = "idle"
    /\ CountRequest(clock)
    /\ \E label \in {"issuing", "taking"} : Goto(h, label)
    /\ UNCHANGED <<ceremonies, clock, name, wrong>>

(* Passkey sign-in: allowGlobal, then issue or take. *)
PasskeyRequest(h) ==
    /\ pc[h] = "idle"
    /\ UnderCap(clock)
    /\ CountRequest(clock)
    /\ \E label \in {"issuing", "taking"} : Goto(h, label)
    /\ UNCHANGED <<ceremonies, clock, name, wrong>>

BeginLogin(h) ==
    /\ pc[h] = "issuing"
    /\ \/ begun[Nobody] < MaxBegun /\ Issue(Nobody, now[h])
       \/ UNCHANGED ceremonies
    /\ Done(h)
    /\ UNCHANGED <<limiter, clock, wrong>>

FinishLogin(h) ==
    /\ pc[h] = "taking"
    /\ \/ Take(Nobody, now[h]) /\ UNCHANGED begun
       \/ UNCHANGED ceremonies
    /\ Done(h)
    /\ UNCHANGED <<limiter, clock, wrong>>

(* Enrolment, which takes a session and asks the limiter nothing. *)
BeginEnrolment ==
    /\ \E o \in Owners : begun[o] < MaxEnrolments /\ Issue(o, clock)
    /\ UNCHANGED <<limiter, clock, handlers, wrong>>

FinishEnrolment ==
    /\ \E o \in Owners : Take(o, clock)
    /\ UNCHANGED <<limiter, clock, handlers, wrong, begun>>

Tick ==
    /\ clock < MaxClock
    /\ \A h \in Handlers : pc[h] # "idle" => clock - now[h] < Lag
    /\ clock' = clock + 1
    /\ UNCHANGED <<limiter, ceremonies, handlers, wrong>>

Next ==
    \/ \E h \in Handlers :
          \/ Login(h) \/ Refused(h) \/ Fail(h) \/ Succeed(h)
          \/ PasskeyRequest(h) \/ BeginLogin(h) \/ FinishLogin(h)
    \/ BeginEnrolment \/ FinishEnrolment \/ Tick

Spec == Init /\ [][Next]_vars

------------------------------------------------------------------------------
Pending == [state : (Owners \cup {Nobody}) \X Nat, expires : Nat]

TypeOK ==
    /\ DOMAIN users \subseteq Names
    /\ Range(users) \subseteq [count : Nat \ {0}, start : Nat]
    /\ global \in [count : Nat, start : Int] /\ reaped \in Int
    /\ pending \subseteq Pending
    /\ clock \in Nat
    /\ pc \in [Handlers -> {"idle", "verifying", "issuing", "taking"}]
    /\ now \in [Handlers -> Nat]
    /\ name \in [Handlers -> Names \cup {Nobody}]
    /\ wrong \in [Names -> SUBSET (Nat \X Nat)]
    /\ begun \in [Owners \cup {Nobody} -> Nat]
    /\ spent \subseteq {p.state : p \in pending} /\ misused \in BOOLEAN

(* The wrong passwords for n among handlers that started in t .. t + Window - 1. *)
WrongWithin(n, t) == Cardinality({g \in wrong[n] : t <= g[1] /\ g[1] < t + Window})

(* What one window takes: handlers under way when it is almost full were let in. *)
Most == PerUser + Cardinality(Handlers) - 1

(* In any stretch of a Window between two successes, no more wrong passwords for a
   name get through than fit in two windows back to back - windows are fixed, not
   sliding - or in three: when a window has been reaped, a handler still under way
   opens one in the past, that stops nobody for as long as it should. *)
GuessesBounded ==
    \A n \in Names, t \in 0..MaxClock :
        WrongWithin(n, t) < 2 * Most \/ WrongWithin(n, t) <= 3 * (Most - 1)

(* A flood of ceremonies, begun at the rate the limiter lets through, never
   costs anybody a ceremony that is still good: the eviction is for what the
   limiter does not see.  (challenges.go: "a flood costs a legitimate operator
   a retry".) *)
FloodNeverEvicts ==
    [][begun' # begun => \A p \in pending \ pending' : p.expires <= clock]_vars

(* A ceremony's state gets past take once at most, and only for a handler of the
   kind, and of the administrator, that began it ("a replayed finish fails here
   before any signature is checked"; "one signed-in administrator cannot finish
   another's enrolment"). *)
OnceAndOwn == ~misused
==============================================================================
