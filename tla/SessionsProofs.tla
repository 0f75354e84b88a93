--------------------------- MODULE SessionsProofs ---------------------------
(***************************************************************************)
(* Theorems about Sessions, for any number of sessions, any window and any *)
(* table size, with storage that may fail at every call.                   *)
(***************************************************************************)
EXTENDS Sessions, FiniteSetTheorems, TLAPS

(* A row says when it expires by when it was seen, which is no later than it
   was used. *)
HonestRows(rows, us, iss) ==
    \A r \in rows : r.expires = r.seen + Idle /\ r.seen <= us[r.key] /\ r.key \in iss

(* Rows of one table: one to a key, and not too many of them. *)
Fits(rows) ==
    /\ \A r, s \in rows : r.key = s.key => r = s
    /\ IsFiniteSet(rows) /\ Cardinality(rows) <= MaxSessions

(* Not used more than Refresh after it was last marked as seen. *)
Fresh(rows, us, rev) == \A r \in rows : r.key \notin rev => us[r.key] < r.seen + Refresh

SInv ==
    /\ HonestRows(table, used, issued) /\ HonestRows(disk, used, issued)
    /\ Fits(table) /\ Fits(disk)
    /\ Fresh(table, used, revived)
    /\ FileIsFaithful
    /\ RevokedStaysOut

LEMMA NowIsNat == ASSUME TypeOK, NEW now \in Now PROVE now \in Nat /\ now <= clock
BY DEF TypeOK, Now

(* The two ends of a flush. *)
LEMMA FlushOutcome ==
    ASSUME Flush
    PROVE  (disk' = table' /\ behind' = FALSE) \/ (disk' = disk /\ behind' = TRUE)
BY DEF Flush

LEMMA FitsSubset ==
    ASSUME NEW rows, NEW fewer \in SUBSET rows, Fits(rows)
    PROVE  Fits(fewer)
<1>1. IsFiniteSet(fewer) /\ Cardinality(fewer) <= Cardinality(rows)
  BY FS_Subset DEF Fits
<1>2. Cardinality(fewer) \in Nat /\ Cardinality(rows) \in Nat
  BY <1>1, FS_CardinalityType DEF Fits
<1> QED
  BY <1>1, <1>2, WindowAssumption DEF Fits

(* One row is replaced by another of its key. *)
LEMMA FitsReplace ==
    ASSUME NEW rows, NEW r \in rows, NEW s, s.key = r.key, Fits(rows)
    PROVE  Fits((rows \ {r}) \cup {s})
<1> DEFINE rest == rows \ {r}
<1>1. IsFiniteSet(rest) /\ Cardinality(rest) = Cardinality(rows) - 1
  BY FS_RemoveElement DEF Fits
<1>2. Cardinality(rows) \in Nat /\ Cardinality(rest) \in Nat
  BY <1>1, FS_CardinalityType DEF Fits
<1>3. IsFiniteSet(rest \cup {s}) /\ Cardinality(rest \cup {s}) = Cardinality(rest) + 1
  <2>1. s \notin rest
    BY DEF Fits
  <2> QED
    BY <1>1, <2>1, FS_AddElement
<1>4. Cardinality(rest \cup {s}) <= MaxSessions
  BY <1>1, <1>2, <1>3, FS_CardinalityType, WindowAssumption DEF Fits
<1>5. \A x, y \in rest \cup {s} : x.key = y.key => x = y
  BY DEF Fits
<1> QED
  BY <1>3, <1>4, <1>5 DEF Fits

(* What Issue leaves: the new row and the old ones, but for one that was seen
   no later than any that stays when the table was full. *)
LEMMA IssueOutcome ==
    ASSUME NEW k \in Keys, NEW owner, NEW print, NEW now \in Int,
           Fits(table), k \notin KeysOf(table), Issue(k, owner, print, now)
    PROVE  LET r == [key |-> k, owner |-> owner, print |-> print, seen |-> now, expires |-> now + Idle]
           IN  /\ r \in table' /\ table' \subseteq table \cup {r}
               /\ \A o \in table \ table', s \in table : o.seen <= s.seen
               /\ Fits(table')
               /\ Flush
<1> DEFINE r == [key |-> k, owner |-> owner, print |-> print, seen |-> now, expires |-> now + Idle]
<1>k. r.key = k /\ \A s \in table : s.key # k
  BY DEF KeysOf
<1>c. Cardinality(table) \in Nat /\ IsFiniteSet(table) /\ Cardinality(table) <= MaxSessions
  BY FS_CardinalityType DEF Fits
<1>1. CASE Cardinality(table) >= MaxSessions
  <2>1. PICK o \in table : (\A s \in table : o.seen <= s.seen) /\ table' = (table \ {o}) \cup {r}
    BY <1>1 DEF Issue
  <2>2. IsFiniteSet(table \ {o}) /\ Cardinality(table \ {o}) = Cardinality(table) - 1
    BY <1>c, FS_RemoveElement
  <2>3. r \notin table \ {o}
    BY <1>k
  <2>4. IsFiniteSet(table') /\ Cardinality(table') = Cardinality(table \ {o}) + 1
    BY <2>1, <2>2, <2>3, FS_AddElement
  <2>5. Cardinality(table') <= MaxSessions
    BY <2>2, <2>4, <1>c, WindowAssumption
  <2>6. \A x, y \in table' : x.key = y.key => x = y
    BY <2>1, <1>k DEF Fits
  <2> QED
    BY <2>1, <2>4, <2>5, <2>6 DEF Fits, Issue
<1>2. CASE ~(Cardinality(table) >= MaxSessions)
  <2>1. table' = table \cup {r}
    BY <1>2 DEF Issue
  <2>2. r \notin table
    BY <1>k
  <2>3. IsFiniteSet(table') /\ Cardinality(table') = Cardinality(table) + 1
    BY <2>1, <2>2, <1>c, FS_AddElement
  <2>4. Cardinality(table') <= MaxSessions
    BY <2>3, <1>c, <1>2, WindowAssumption
  <2>5. \A x, y \in table' : x.key = y.key => x = y
    BY <2>1, <1>k DEF Fits
  <2> QED
    BY <2>1, <2>3, <2>4, <2>5 DEF Fits, Issue
<1> QED
  BY <1>1, <1>2

LEMMA SInvInit == Init => TypeOK /\ SInv
<1> SUFFICES ASSUME Init PROVE TypeOK /\ SInv
  OBVIOUS
<1>1. TypeOK
  BY DEF Init, TypeOK
<1>2. Fits({})
  BY FS_EmptySet, WindowAssumption DEF Fits
<1>3. SInv
  BY <1>2 DEF Init, SInv, HonestRows, Fresh, FileIsFaithful, RevokedStaysOut
<1> QED
  BY <1>1, <1>3

(* A step that only takes rows out of the table, and writes it down or fails
   to, or leaves both alone. *)
LEMMA ShrinkStep ==
    ASSUME SInv, table' \subseteq table,
           Flush \/ (UNCHANGED <<table, disk, behind>>),
           UNCHANGED <<clock, used, issued>>,
           \A k \in revoked' \ revived' : k \in revoked \ revived \/ k \notin KeysOf(table'),
           revived \ revived' \subseteq KeysOf(table \ table')
    PROVE  SInv'
<1>1. Fits(table')
  BY FitsSubset DEF SInv
<1>2. disk' = table' \/ disk' = disk
  BY FlushOutcome
<1>3. HonestRows(table', used', issued') /\ HonestRows(disk', used', issued') /\ Fits(disk')
  BY <1>1, <1>2 DEF SInv, HonestRows
<1>u. \A r \in table' : r.key \notin KeysOf(table \ table')
  BY DEF SInv, Fits, KeysOf
<1>4. Fresh(table', used', revived')
  BY <1>u DEF SInv, Fresh
<1>5. FileIsFaithful'
  BY FlushOutcome DEF SInv, FileIsFaithful, Alive
<1>6. RevokedStaysOut'
  BY DEF SInv, RevokedStaysOut, KeysOf
<1> QED
  BY <1>1, <1>3, <1>4, <1>5, <1>6 DEF SInv

LEMMA SignInStep == TypeOK /\ SInv /\ SignIn => TypeOK' /\ SInv'
<1> SUFFICES ASSUME TypeOK, SInv, SignIn PROVE TypeOK' /\ SInv'
  OBVIOUS
<1>1. PICK k \in Keys \ issued, owner \in Owners, print \in Prints, now \in Now :
        /\ Issue(k, owner, print, now)
        /\ used' = [used EXCEPT ![k] = now]
        /\ issued' = issued \cup {k}
        /\ UNCHANGED <<clock, revoked, revived>>
  BY DEF SignIn
<1> DEFINE r == [key |-> k, owner |-> owner, print |-> print, seen |-> now, expires |-> now + Idle]
<1>n. now \in Nat /\ r \in Record
  BY NowIsNat, WindowAssumption DEF Record
<1>k. \A s \in table \cup disk : s.key # k /\ s.key \in Keys
  BY DEF SInv, HonestRows, TypeOK, Record
<1>o. /\ r \in table' /\ table' \subseteq table \cup {r}
      /\ Fits(table') /\ Flush
  BY <1>1, <1>n, <1>k, IssueOutcome DEF SInv, KeysOf
<1>d. disk' = table' \/ disk' = disk
  BY <1>o, FlushOutcome
<1>u. used'[k] = now /\ \A x \in Keys \ {k} : used'[x] = used[x]
  BY <1>1 DEF TypeOK
<1>2. TypeOK'
  BY <1>1, <1>n, <1>o, <1>d, FlushOutcome DEF TypeOK
<1>3. HonestRows(table', used', issued')
  <2> SUFFICES ASSUME NEW s \in table'
               PROVE  s.expires = s.seen + Idle /\ s.seen <= used'[s.key] /\ s.key \in issued'
    BY DEF HonestRows
  <2>1. CASE s = r
    BY <2>1, <1>u, <1>n, <1>1
  <2>2. CASE s \in table
    BY <2>2, <1>u, <1>k, <1>1 DEF SInv, HonestRows
  <2> QED
    BY <2>1, <2>2, <1>o
<1>4. HonestRows(disk', used', issued') /\ Fits(disk')
  <2>1. CASE disk' = table'
    BY <2>1, <1>3, <1>o
  <2>2. CASE disk' = disk
    BY <2>2, <1>u, <1>k, <1>1 DEF SInv, HonestRows
  <2> QED
    BY <2>1, <2>2, <1>d
<1>5. Fresh(table', used', revived')
  <2> SUFFICES ASSUME NEW s \in table', s.key \notin revived' PROVE used'[s.key] < s.seen + Refresh
    BY DEF Fresh
  <2>1. CASE s = r
    BY <2>1, <1>u, <1>n, WindowAssumption
  <2>2. CASE s \in table
    BY <2>2, <1>u, <1>k, <1>1 DEF SInv, Fresh
  <2> QED
    BY <2>1, <2>2, <1>o
<1>6. FileIsFaithful'
  BY <1>o, FlushOutcome DEF FileIsFaithful
<1>7. RevokedStaysOut'
  BY <1>1, <1>o DEF SInv, RevokedStaysOut, TypeOK
<1> QED
  BY <1>2, <1>3, <1>4, <1>5, <1>6, <1>7, <1>o DEF SInv

LEMMA UseStep == TypeOK /\ SInv /\ Use => TypeOK' /\ SInv'
<1> SUFFICES ASSUME TypeOK, SInv, Use PROVE TypeOK' /\ SInv'
  OBVIOUS
<1>1. PICK k \in issued, now \in Now :
        /\ LookupLive(k, now)
        /\ used' = [used EXCEPT ![k] = Later(used[k], now)]
        /\ UNCHANGED <<clock, issued, revoked, revived>>
  BY DEF Use
<1>2. PICK r \in table :
        /\ r.key = k
        /\ IF now - r.seen >= Refresh
           THEN table' = (table \ {r}) \cup {Slid(r, now)} /\ Flush
           ELSE UNCHANGED <<table, disk, behind>>
  BY <1>1 DEF LookupLive
<1>n. now \in Nat /\ k \in Keys /\ r \in Record /\ used[k] \in Nat
  BY NowIsNat DEF TypeOK
<1>s. /\ Slid(r, now) \in Record /\ Slid(r, now).key = k
      /\ Slid(r, now).seen = now /\ Slid(r, now).expires = now + Idle
  BY <1>2, <1>n, WindowAssumption DEF Slid, Record
<1>l. Later(used[k], now) \in Nat /\ used[k] <= Later(used[k], now) /\ now <= Later(used[k], now)
  BY <1>n DEF Later
<1>u. used'[k] = Later(used[k], now) /\ \A x \in Keys \ {k} : used'[x] = used[x]
  BY <1>1, <1>n DEF TypeOK
<1>g. \A x \in Keys : used[x] \in Nat /\ used'[x] \in Nat /\ used[x] <= used'[x]
  BY <1>u, <1>l DEF TypeOK
<1>k. \A s \in table \cup disk : s.key \in Keys /\ s.seen \in Int
  BY DEF TypeOK, Record
<1>h. HonestRows(table, used', issued') /\ HonestRows(disk, used', issued')
  BY <1>g, <1>k, <1>1 DEF SInv, HonestRows
<1>o. \A s \in table \ {r} : s.key # k
  BY <1>2 DEF SInv, Fits
<1>3. CASE now - r.seen >= Refresh
  <2>1. table' = (table \ {r}) \cup {Slid(r, now)} /\ Flush
    BY <1>2, <1>3
  <2>2. disk' = table' \/ disk' = disk
    BY <2>1, FlushOutcome
  <2>3. TypeOK'
    BY <1>1, <1>g, <1>l, <1>s, <2>1, <2>2, FlushOutcome DEF TypeOK
  <2>4. HonestRows(table', used', issued')
    BY <1>h, <1>s, <1>u, <1>l, <1>1, <2>1 DEF HonestRows
  <2>5. Fits(table')
    BY <2>1, <1>s, <1>2, FitsReplace DEF SInv
  <2>6. HonestRows(disk', used', issued') /\ Fits(disk')
    BY <2>2, <2>4, <2>5, <1>h DEF SInv
  <2>7. Fresh(table', used', revived')
    <3> SUFFICES ASSUME NEW s \in table', s.key \notin revived' PROVE used'[s.key] < s.seen + Refresh
      BY DEF Fresh
    <3>1. CASE s \in table \ {r}
      BY <3>1, <1>o, <1>u, <1>k, <1>1 DEF SInv, Fresh
    <3>2. CASE s = Slid(r, now)
      <4>1. used[k] < r.seen + Refresh
        BY <3>2, <1>s, <1>1, <1>2 DEF SInv, Fresh
      <4>2. used[k] < now
        BY <4>1, <1>3, <1>n, <1>k, WindowAssumption
      <4>3. used'[k] = now
        BY <4>2, <1>u DEF Later
      <4> QED
        BY <4>3, <3>2, <1>s, <1>n, WindowAssumption
    <3> QED
      BY <3>1, <3>2, <2>1
  <2>8. FileIsFaithful'
    BY <2>1, FlushOutcome DEF FileIsFaithful
  <2>9. RevokedStaysOut'
    BY <1>1, <1>2, <2>1, <1>s DEF SInv, RevokedStaysOut
  <2> QED
    BY <2>3, <2>4, <2>5, <2>6, <2>7, <2>8, <2>9 DEF SInv
<1>4. CASE ~(now - r.seen >= Refresh)
  <2>1. UNCHANGED <<table, disk, behind>>
    BY <1>2, <1>4
  <2>2. TypeOK'
    BY <1>1, <1>g, <1>l, <2>1 DEF TypeOK
  <2>3. Fresh(table', used', revived')
    <3> SUFFICES ASSUME NEW s \in table, s.key \notin revived PROVE used'[s.key] < s.seen + Refresh
      BY <1>1, <2>1 DEF Fresh
    <3>1. used[s.key] < s.seen + Refresh
      BY DEF SInv, Fresh
    <3>2. CASE s = r
      BY <3>1, <3>2, <1>2, <1>4, <1>u, <1>n, <1>k, WindowAssumption DEF Later
    <3>3. CASE s # r
      BY <3>1, <3>3, <1>o, <1>u, <1>k
    <3> QED
      BY <3>2, <3>3
  <2> QED
    BY <1>1, <1>h, <2>1, <2>2, <2>3 DEF SInv, FileIsFaithful, RevokedStaysOut, Alive
<1> QED
  BY <1>3, <1>4

LEMMA RebootStep == TypeOK /\ SInv /\ Reboot => TypeOK' /\ SInv'
<1> SUFFICES ASSUME TypeOK, SInv, Reboot PROVE TypeOK' /\ SInv'
  OBVIOUS
<1>1. /\ \/ table' = {r \in disk : Alive(r, clock)} /\ behind' = FALSE
         \/ table' = {} /\ behind' = TRUE
      /\ UNCHANGED <<disk, clock, used, issued, revoked>>
      /\ revived' = IF behind THEN revived \cup KeysOf(table') ELSE revived
  BY DEF Reboot, Restart
<1>2. table' \subseteq disk
  BY <1>1
<1>3. ~behind => table' \subseteq table
  BY <1>1 DEF SInv, FileIsFaithful
<1>4. KeysOf(table') \subseteq issued
  BY <1>2 DEF KeysOf, SInv, HonestRows
<1>5. TypeOK'
  BY <1>1, <1>2, <1>4 DEF TypeOK
<1>6. Fits(table')
  BY <1>2, FitsSubset DEF SInv
<1>7. Fresh(table', used', revived')
  BY <1>1, <1>3 DEF SInv, Fresh, KeysOf
<1>8. RevokedStaysOut'
  BY <1>1, <1>3 DEF SInv, RevokedStaysOut, KeysOf
<1>9. FileIsFaithful'
  BY <1>1 DEF FileIsFaithful, Alive
<1>10. HonestRows(table', used', issued') /\ HonestRows(disk', used', issued') /\ Fits(disk')
  BY <1>1, <1>2 DEF SInv, HonestRows
<1> QED
  BY <1>5, <1>6, <1>7, <1>8, <1>9, <1>10 DEF SInv

LEMMA SInvStep == TypeOK /\ SInv /\ [Next]_vars => TypeOK' /\ SInv'
<1> SUFFICES ASSUME TypeOK, SInv, [Next]_vars PROVE TypeOK' /\ SInv'
  OBVIOUS
<1>t. ASSUME table' \subseteq table, Flush \/ (UNCHANGED <<table, disk, behind>>),
             UNCHANGED <<clock, used, issued>>,
             revoked' \subseteq issued, revived' \subseteq revived
      PROVE  TypeOK'
  BY <1>t, FlushOutcome DEF TypeOK
<1>i. KeysOf(table) \subseteq issued
  BY DEF KeysOf, SInv, HonestRows
<1>r. ASSUME NEW gone \in SUBSET table, Remove(gone)
      PROVE  table' = table \ gone /\ (Flush \/ UNCHANGED <<table, disk, behind>>)
  BY <1>r DEF Remove
<1>1. CASE SignIn
  BY <1>1, SignInStep
<1>2. CASE Use
  BY <1>2, UseStep
<1>3. CASE Refuse
  <2>1. table' \subseteq table /\ (Flush \/ UNCHANGED <<table, disk, behind>>)
        /\ UNCHANGED <<clock, used, issued, revoked, revived>>
    BY <1>3 DEF Refuse, LookupMisses, LookupExpired
  <2> QED
    BY <2>1, <1>t, ShrinkStep DEF TypeOK
<1>4. CASE SignOut
  <2>1. PICK k \in KeysOf(table) : Delete(k) /\ revoked' = revoked \cup {k} /\ revived' = revived \ {k}
                                  /\ UNCHANGED <<clock, used, issued>>
    BY <1>4 DEF SignOut
  <2>2. table' = table \ {r \in table : r.key = k} /\ (Flush \/ UNCHANGED <<table, disk, behind>>)
    BY <2>1, <1>r DEF Delete
  <2>3. k \notin KeysOf(table') /\ k \in KeysOf(table \ table')
    BY <2>1, <2>2 DEF KeysOf
  <2> QED
    BY <2>1, <2>2, <2>3, <1>i, <1>t, ShrinkStep DEF TypeOK
<1>5. CASE SignOutEverywhere
  <2>1. PICK owner \in Owners :
          /\ DeleteAdmin(owner)
          /\ revoked' = revoked \cup KeysOf(table \ table')
          /\ revived' = revived \ KeysOf(table \ table')
          /\ UNCHANGED <<clock, used, issued>>
    BY <1>5 DEF SignOutEverywhere
  <2>2. table' = table \ {r \in table : r.owner = owner} /\ (Flush \/ UNCHANGED <<table, disk, behind>>)
    BY <2>1, <1>r DEF DeleteAdmin
  <2>3. \A k \in KeysOf(table \ table') : k \in issued /\ k \notin KeysOf(table')
    BY <2>2, <1>i DEF KeysOf, SInv, Fits
  <2> QED
    BY <2>1, <2>2, <2>3, <1>t, ShrinkStep DEF TypeOK
<1>6. CASE Janitor
  <2>1. table' \subseteq table /\ (Flush \/ UNCHANGED <<table, disk, behind>>)
        /\ UNCHANGED <<clock, used, issued, revoked, revived>>
    BY <1>6, <1>r DEF Janitor, Sweep
  <2> QED
    BY <2>1, <1>t, ShrinkStep DEF TypeOK
<1>7. CASE Reboot
  BY <1>7, RebootStep
<1>8. CASE Tick
  <2>1. TypeOK'
    BY <1>8 DEF Tick, TypeOK
  <2>2. \A r \in disk : ~Alive(r, clock) => ~Alive(r, clock')
    BY <1>8 DEF Tick, Alive, TypeOK, Record
  <2>3. FileIsFaithful'
    BY <1>8, <2>2 DEF Tick, SInv, FileIsFaithful
  <2> QED
    BY <1>8, <2>1, <2>3 DEF Tick, SInv, RevokedStaysOut
<1>9. CASE UNCHANGED vars
  BY <1>9 DEF vars, TypeOK, SInv, FileIsFaithful, RevokedStaysOut, Alive
<1> QED
  BY <1>1, <1>2, <1>3, <1>4, <1>5, <1>6, <1>7, <1>8, <1>9 DEF Next

THEOREM SInvCorrect == Spec => [](TypeOK /\ SInv)
BY SInvInit, SInvStep, PTL DEF Spec

(* Every variable keeps its type. *)
THEOREM TypeCorrect == Spec => []TypeOK
BY SInvCorrect, PTL

(* One session to a cookie and never more than MaxSessions, though a restart
   takes in whatever the file holds (session.go Issue, New). *)
THEOREM AlwaysOnePerKey == Spec => []OnePerKey
<1>1. SInv => OnePerKey
  BY DEF SInv, Fits, OnePerKey
<1> QED
  BY <1>1, SInvCorrect, PTL

(* No order of late handlers, restarts and failed writes keeps a session alive
   for longer than Idle after its last use (session.go Lookup). *)
THEOREM IdleSessionsDie == Spec => []NeverOutlivesIdle
<1>1. TypeOK /\ SInv => NeverOutlivesIdle
  <2> SUFFICES ASSUME TypeOK, SInv, NEW r \in table \cup disk
               PROVE  r.expires <= used[r.key] + Idle
    BY DEF NeverOutlivesIdle
  <2>1. r.expires = r.seen + Idle /\ r.seen <= used[r.key]
    BY DEF SInv, HonestRows
  <2>2. r.seen \in Int /\ used[r.key] \in Nat
    BY DEF TypeOK, Record
  <2> QED
    BY <2>1, <2>2, WindowAssumption
<1> QED
  BY <1>1, SInvCorrect, PTL

(* The throttle on writing down uses costs a session less than Refresh of its
   window (session.go Lookup, Refresh). *)
THEOREM UsedSessionsLive == Spec => []NoEarlyDeath
<1>1. TypeOK /\ SInv => NoEarlyDeath
  <2> SUFFICES ASSUME TypeOK, SInv, NEW r \in table, r.key \notin revived
               PROVE  used[r.key] + Idle < r.expires + Refresh
    BY DEF NoEarlyDeath
  <2>1. r.expires = r.seen + Idle /\ used[r.key] < r.seen + Refresh
    BY DEF SInv, HonestRows, Fresh
  <2>2. r.seen \in Int /\ used[r.key] \in Nat
    BY DEF TypeOK, Record
  <2> QED
    BY <2>1, <2>2, WindowAssumption
<1> QED
  BY <1>1, SInvCorrect, PTL

(* As long as the last write succeeded, a restart brings back the sessions that
   are live and no other (session.go flushLocked, New). *)
THEOREM FileAlwaysFaithful == Spec => []FileIsFaithful
<1>1. SInv => FileIsFaithful
  BY DEF SInv
<1> QED
  BY <1>1, SInvCorrect, PTL

(* Only a restart on a file left behind by a failed write brings back a session
   that was signed out (session.go Delete, DeleteAdmin). *)
THEOREM RevokedAlwaysStaysOut == Spec => []RevokedStaysOut
<1>1. SInv => RevokedStaysOut
  BY DEF SInv
<1> QED
  BY <1>1, SInvCorrect, PTL

(* Eviction takes the session idle longest, to within Refresh
   (session.go evictOldestLocked). *)
THEOREM AlwaysEvictsTheIdlest == Spec => EvictsTheIdlest
<1>1. TypeOK /\ SInv /\ [Next]_vars =>
        (\A k \in Keys \ issued : k \in issued' =>
            \A o \in table \ table', s \in table \cap table' :
                o.key \notin revived => used[o.key] < used[s.key] + Refresh)
  <2> SUFFICES ASSUME TypeOK, SInv, [Next]_vars, NEW k \in Keys \ issued, k \in issued',
                      NEW o \in table \ table', NEW s \in table \cap table', o.key \notin revived
               PROVE  used[o.key] < used[s.key] + Refresh
    OBVIOUS
  <2>1. SignIn
    BY DEF Next, vars, Use, Refuse, SignOut, SignOutEverywhere, Janitor, Reboot, Tick
  <2>2. PICK j \in Keys \ issued, owner \in Owners, print \in Prints, now \in Now :
          Issue(j, owner, print, now)
    BY <2>1 DEF SignIn
  <2>3. now \in Int /\ j \notin KeysOf(table)
    BY NowIsNat DEF KeysOf, SInv, HonestRows
  <2>4. o.seen <= s.seen
    BY <2>2, <2>3, IssueOutcome DEF SInv
  <2>5. used[o.key] < o.seen + Refresh /\ s.seen <= used[s.key]
    BY DEF SInv, Fresh, HonestRows
  <2>6. o.seen \in Int /\ s.seen \in Int /\ used[o.key] \in Nat /\ used[s.key] \in Nat
    BY DEF TypeOK, Record
  <2> QED
    BY <2>4, <2>5, <2>6, WindowAssumption
<1> QED
  BY <1>1, SInvCorrect, PTL DEF Spec, EvictsTheIdlest
==============================================================================
