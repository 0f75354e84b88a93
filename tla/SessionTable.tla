---------------------------- MODULE SessionTable ----------------------------
(***************************************************************************)
(* internal/session/session.go and internal/store/sessions.go: the table   *)
(* of live sessions and sessions.json, which mirrors it.  Every method     *)
(* holds Table.mu from start to end, its flush included, so every method   *)
(* is one step; `now` is the time its caller read, which may be older than *)
(* the lock.                                                               *)
(*                                                                         *)
(* A record is a member of the table with its key in it.  CreatedAt is     *)
(* left out: nothing reads it.                                             *)
(***************************************************************************)
EXTENDS Integers, FiniteSets

CONSTANTS
    Keys,           \* sha256 of a session id; a random id never comes up twice
    Owners,         \* administrator ids
    Prints,         \* fingerprints of password hashes
    Idle,           \* session.Idle
    Refresh,        \* session.Refresh
    MaxSessions,    \* session.MaxSessions
    StorageFails    \* whether Storage.Save and Storage.Load may fail

ASSUME WindowAssumption ==
    /\ Idle \in Nat /\ Refresh \in Nat \ {0} /\ Refresh <= Idle
    /\ MaxSessions \in Nat \ {0}
    /\ StorageFails \in BOOLEAN

VARIABLES
    table,      \* Table.byID
    disk,       \* the rows of sessions.json
    behind      \* history: the last call to Storage failed; the log says so, no more

Record == [key : Keys, owner : Owners, print : Prints, seen : Int, expires : Int]

KeysOf(t) == {r.key : r \in t}

Alive(r, now) == now < r.expires

(* flushLocked: the file becomes the table, or the failure is logged. *)
Flush ==
    \/ disk' = table' /\ behind' = FALSE
    \/ StorageFails /\ disk' = disk /\ behind' = TRUE

(* Mutants of Issue: the table is full one session later; the one used last goes. *)
IssueOverfull(k, owner, print, now) ==
    LET r == [key |-> k, owner |-> owner, print |-> print, seen |-> now, expires |-> now + Idle] IN
    /\ IF Cardinality(table) > MaxSessions
       THEN \E o \in table :
               /\ \A s \in table : o.seen <= s.seen
               /\ table' = (table \ {o}) \cup {r}
       ELSE table' = table \cup {r}
    /\ Flush

IssueOverNewest(k, owner, print, now) ==
    LET r == [key |-> k, owner |-> owner, print |-> print, seen |-> now, expires |-> now + Idle] IN
    /\ IF Cardinality(table) >= MaxSessions
       THEN \E o \in table :
               /\ \A s \in table : o.seen >= s.seen
               /\ table' = (table \ {o}) \cup {r}
       ELSE table' = table \cup {r}
    /\ Flush

(* Issue: a full table first loses a least recently seen record, the first the
   map's order brings up. *)
Issue(k, owner, print, now) ==
    LET r == [key |-> k, owner |-> owner, print |-> print, seen |-> now, expires |-> now + Idle] IN
    /\ IF Cardinality(table) >= MaxSessions
       THEN \E o \in table :
               /\ \A s \in table : o.seen <= s.seen
               /\ table' = (table \ {o}) \cup {r}
       ELSE table' = table \cup {r}
    /\ Flush

(* Lookup finds nothing under the key. *)
LookupMisses(k) ==
    /\ k \notin KeysOf(table)
    /\ UNCHANGED <<table, disk, behind>>

(* Lookup finds an expired record and drops it. *)
LookupExpired(k, now) ==
    \E r \in table :
        /\ r.key = k
        /\ ~Alive(r, now)
        /\ table' = table \ {r}
        /\ Flush

Slid(r, now) ==
    [key |-> r.key, owner |-> r.owner, print |-> r.print, seen |-> now, expires |-> now + Idle]

(* Mutants of LookupLive: a lookup adds Idle to the expiry; the slide waits too
   long; the slide is not written down. *)
LookupAddsIdle(k, now) ==
    \E r \in table :
        /\ r.key = k
        /\ Alive(r, now)
        /\ IF now - r.seen >= Refresh
           THEN table' = (table \ {r}) \cup {[Slid(r, now) EXCEPT !.expires = r.expires + Idle]} /\ Flush
           ELSE UNCHANGED <<table, disk, behind>>

LookupSlow(k, now) ==
    \E r \in table :
        /\ r.key = k
        /\ Alive(r, now)
        /\ IF now - r.seen > Refresh
           THEN table' = (table \ {r}) \cup {Slid(r, now)} /\ Flush
           ELSE UNCHANGED <<table, disk, behind>>

LookupUnwritten(k, now) ==
    \E r \in table :
        /\ r.key = k
        /\ Alive(r, now)
        /\ table' = IF now - r.seen >= Refresh THEN (table \ {r}) \cup {Slid(r, now)} ELSE table
        /\ UNCHANGED <<disk, behind>>

(* Lookup finds a live record and slides it, at most once per Refresh. *)
LookupLive(k, now) ==
    \E r \in table :
        /\ r.key = k
        /\ Alive(r, now)
        /\ IF now - r.seen >= Refresh
           THEN table' = (table \ {r}) \cup {Slid(r, now)} /\ Flush
           ELSE UNCHANGED <<table, disk, behind>>

(* A set of records goes; the file is written only if there was one. *)
Remove(gone) ==
    /\ table' = table \ gone
    /\ IF gone = {} THEN UNCHANGED <<disk, behind>> ELSE Flush

(* Mutant of Delete: the file keeps the row. *)
DeleteUnflushed(k) == table' = {r \in table : r.key # k} /\ UNCHANGED <<disk, behind>>

Delete(k) == Remove({r \in table : r.key = k})

DeleteAdmin(owner) == Remove({r \in table : r.owner = owner})

Sweep(now) == Remove({r \in table : ~Alive(r, now)})

(* New, after the process ended in whatever way: expired rows are dropped, and
   a file that cannot be read is an empty table. *)
Restart(now) ==
    /\ \/ table' = {r \in disk : Alive(r, now)} /\ behind' = FALSE
       \/ StorageFails /\ table' = {} /\ behind' = TRUE
    /\ UNCHANGED disk
==============================================================================
