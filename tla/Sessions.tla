------------------------------ MODULE Sessions ------------------------------
(***************************************************************************)
(* The session table under a clock: sign-ins, requests, sign-outs, the     *)
(* janitor, restarts and failing storage, in any order.  What each session *)
(* has really been used for is kept in history variables, to be compared   *)
(* with what the throttled, mirrored table believes.                       *)
(***************************************************************************)
EXTENDS SessionTable

CONSTANTS
    Lag,        \* how old a handler's `now` may be when it gets the mutex
    MaxClock    \* bound: the clock stops here

ASSUME ClockAssumption == Lag \in Nat /\ MaxClock \in Nat

VARIABLES
    clock,
    used,       \* used[k]: the last time k was signed in with or looked up
    issued,     \* keys ever issued
    revoked,    \* keys signed out, or dropped with their administrator's
    revived     \* keys a restart has taken from a file that was behind

vars == <<table, disk, clock, used, issued, revoked, behind, revived>>

(* A handler reads the clock and then waits: for bcrypt, for the mutex. *)
Now == {n \in 0..clock : clock - n <= Lag}

Later(a, b) == IF a < b THEN b ELSE a

Init ==
    /\ table = {} /\ disk = {}
    /\ clock = 0
    /\ used = [k \in Keys |-> 0]
    /\ issued = {} /\ revoked = {} /\ behind = FALSE /\ revived = {}

SignIn ==
    \E k \in Keys \ issued, owner \in Owners, print \in Prints, now \in Now :
        /\ Issue(k, owner, print, now)
        /\ used' = [used EXCEPT ![k] = now]
        /\ issued' = issued \cup {k}
        /\ UNCHANGED <<clock, revoked, revived>>

Use ==
    \E k \in issued, now \in Now :
        /\ LookupLive(k, now)
        /\ used' = [used EXCEPT ![k] = Later(used[k], now)]
        /\ UNCHANGED <<clock, issued, revoked, revived>>

Refuse ==
    \E k \in issued, now \in Now :
        /\ LookupMisses(k) \/ LookupExpired(k, now)
        /\ UNCHANGED <<clock, used, issued, revoked, revived>>

SignOut ==
    \E k \in KeysOf(table) :
        /\ Delete(k)
        /\ revoked' = revoked \cup {k}
        /\ revived' = revived \ {k}
        /\ UNCHANGED <<clock, used, issued>>

SignOutEverywhere ==
    \E owner \in Owners :
        /\ DeleteAdmin(owner)
        /\ revoked' = revoked \cup KeysOf(table \ table')
        /\ revived' = revived \ KeysOf(table \ table')
        /\ UNCHANGED <<clock, used, issued>>

Janitor ==
    /\ Sweep(clock)
    /\ UNCHANGED <<clock, used, issued, revoked, revived>>

Reboot ==
    /\ Restart(clock)
    /\ revived' = IF behind THEN revived \cup KeysOf(table') ELSE revived
    /\ UNCHANGED <<clock, used, issued, revoked>>

Tick ==
    /\ clock < MaxClock
    /\ clock' = clock + 1
    /\ UNCHANGED <<table, disk, used, issued, revoked, behind, revived>>

Next ==
    \/ SignIn \/ Use \/ Refuse \/ SignOut \/ SignOutEverywhere
    \/ Janitor \/ Reboot \/ Tick

Spec == Init /\ [][Next]_vars

------------------------------------------------------------------------------
TypeOK ==
    /\ table \subseteq Record /\ disk \subseteq Record
    /\ clock \in Nat
    /\ used \in [Keys -> Nat]
    /\ issued \subseteq Keys /\ revoked \subseteq issued /\ revived \subseteq issued
    /\ behind \in BOOLEAN

(* A cookie opens at most one session, and no more than MaxSessions are ever
   held, whatever a restart brings back. *)
OnePerKey ==
    /\ \A r, s \in table : r.key = s.key => r = s
    /\ Cardinality(table) <= MaxSessions

(* A session dies Idle after its last use and no later, on disk as in memory,
   whatever order handlers with older clocks get the mutex in. *)
NeverOutlivesIdle ==
    \A r \in table \cup disk : r.expires <= used[r.key] + Idle

(* And no more than Refresh earlier, though most uses are not written down. *)
NoEarlyDeath ==
    \A r \in table : r.key \notin revived => used[r.key] + Idle < r.expires + Refresh

(* A file that is not behind restores exactly the sessions that are live. *)
FileIsFaithful ==
    ~behind => table \subseteq disk /\ \A r \in disk \ table : ~Alive(r, clock)

(* A session that was signed out comes back only if a restart restores a file
   that a failed write left behind. *)
RevokedStaysOut ==
    \A r \in table : r.key \in revoked => r.key \in revived

(* A full table gives up a session that was idle at least as long, to within
   Refresh, as any it keeps. *)
EvictsTheIdlest ==
    [][\A k \in Keys \ issued : k \in issued' =>
           \A o \in table \ table', s \in table \cap table' :
               o.key \notin revived => used[o.key] < used[s.key] + Refresh]_vars
==============================================================================
