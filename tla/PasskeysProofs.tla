--------------------------- MODULE PasskeysProofs ---------------------------
(***************************************************************************)
(* Theorems about Passkeys, for any number of administrators, devices,     *)
(* handles and credentials, and any number of passkeys each.               *)
(***************************************************************************)
EXTENDS Passkeys, SequenceTheorems, FiniteSetTheorems, WellFoundedInduction, TLAPS

(* A list the next start accepts. *)
Sound(l) ==
    /\ l \in Seq(Owner) /\ IsValid(l)
    /\ \A o \in InList(l) : IsFiniteSet(o.creds)

(* The three maps of a list. *)
AdminIndex(l) == [a \in {o.admin : o \in InList(l)} |-> CHOOSE n \in DOMAIN l : l[n].admin = a]
HandleIndex(l) == [h \in {o.handle : o \in InList(l)} |-> CHOOSE n \in DOMAIN l : l[n].handle = h]
CredIndex(l) == [c \in CredsOf(l) |-> CHOOSE n \in DOMAIN l : c \in l[n].creds]

Indexed ==
    /\ byAdminID = AdminIndex(list) /\ byHandle = HandleIndex(list) /\ byCredID = CredIndex(list)

(* What is stored was made for its owner, under the handle its authenticator
   knows, and was not removed. *)
OwnerOK(o) ==
    /\ o.handle \in handed
    /\ \A c \in o.creds :
          /\ made[c] = o.admin /\ c \notin removed
          /\ \A k \in keys : k.cred = c => k.handle = o.handle

Enrolling(d) == pc[d] \in {"offered", "made"}

(* An enrolment holds one handle, which is nobody else's, and a credential that is
   nowhere yet; a sign-in, one that it knows to be removed if it was. *)
TabOK(d) ==
    /\ Enrolling(d) =>
          /\ tab[d].admin \in Admins /\ tab[d].handle \subseteq handed /\ 0 < MaxPasskeys
          /\ \A g, h \in tab[d].handle : g = h
          /\ \A o \in InList(list) : o.handle \in tab[d].handle => o.admin = tab[d].admin
          /\ \A e \in Devices :
                Enrolling(e) /\ tab[e].handle \cap tab[d].handle # {} => tab[e].admin = tab[d].admin
    /\ pc[d] = "made" =>
          \A c \in tab[d].cred :
             /\ made[c] = tab[d].admin /\ c \notin removed \cup CredsOf(list)
             /\ \A k \in keys, h \in tab[d].handle : k.cred = c => k.handle = h
             /\ \A e \in Devices \ {d} : pc[e] = "made" => c \notin tab[e].cred
    /\ pc[d] \in {"answered", "resolved"} =>
          tab[d].cred # {} /\ (tab[d].late => tab[d].cred \subseteq removed)
    /\ pc[d] = "verified" =>
          /\ tab[d].admin \in Admins /\ ~tab[d].late
          /\ \A c \in tab[d].cred : made[c] = tab[d].admin

PlainTypes ==
    /\ file \subseteq Admins /\ admins \subseteq Admins
    /\ session \in [Devices -> Admins \cup {Nobody}]
    /\ pc \in [Devices -> {"idle", "offered", "made", "answered", "resolved", "verified"}]
    /\ tab \in [Devices -> Tabs]
    /\ keys \subseteq Key /\ handed \subseteq Handles
    /\ made \in [Creds -> Admins \cup {Nobody}]
    /\ removed \subseteq Creds

IInv ==
    /\ PlainTypes
    /\ list = disk /\ Sound(list) /\ Indexed
    /\ file \subseteq admins \/ admins = {}
    /\ \A o \in InList(list) : OwnerOK(o)
    /\ \A c \in removed \cup {k.cred : k \in keys} : made[c] # Nobody
    /\ \A d \in Devices : TabOK(d)

USE PasskeysAssumption

------------------------------------------------------------------------------
(* Numbers: what a set of them has, and how it is counted off. *)
HasSmallest(W) == \E L \in W : \A M \in W : M \subseteq L => M = L

LEMMA Smallest ==
    ASSUME NEW N \in Nat, NEW W \in SUBSET SUBSET (1..N), W # {}
    PROVE  HasSmallest(W)
<1>1. IsFiniteSet(1..N)
  BY FS_Interval
<1>2. \A L \in SUBSET (1..N) : IsFiniteSet(L)
  BY <1>1, FS_Subset
<1>3. W \subseteq FiniteSubsetsOf(1..N)
  BY <1>2 DEF FiniteSubsetsOf
<1>4. PICK L \in W : \A M \in W : ~(<<M, L>> \in StrictSubsetOrdering(1..N))
  BY <1>1, <1>3, FS_StrictSubsetOrderingWellFounded, WFMin, Zenon
<1>5. ASSUME NEW M \in W, M \subseteq L, M # L PROVE FALSE
  <2>1. M \in SUBSET (1..N) /\ L \in SUBSET (1..N)
    OBVIOUS
  <2>2. <<M, L>> \in StrictSubsetOrdering(1..N)
    BY <1>5, <2>1 DEF StrictSubsetOrdering
  <2> QED
    BY <1>4, <2>2
<1> QED
  BY <1>5 DEF HasSmallest

LEMMA Greatest ==
    ASSUME NEW N \in Nat, NEW K \in SUBSET (1..N), K # {}
    PROVE  \E x \in K : \A y \in K : y <= x
<1> DEFINE Above(x) == {y \in K : x < y}
           W == {Above(x) : x \in K}
<1>1. W \in SUBSET SUBSET (1..N) /\ W # {}
  OBVIOUS
<1>2. HasSmallest(W)
  <2> HIDE DEF W
  <2> QED
    BY <1>1, Smallest
<1>0. PICK L \in W : \A M \in W : M \subseteq L => M = L
  BY <1>2 DEF HasSmallest
<1>3. PICK x \in K : L = Above(x)
  BY <1>0
<1>4. ASSUME NEW y \in K PROVE y <= x
  <2>1. x \in Nat /\ y \in Nat /\ \A z \in K : z \in Nat
    OBVIOUS
  <2>2. Above(y) \in W
    OBVIOUS
  <2>3. y \notin Above(y)
    BY <2>1
  <2>4. CASE x < y
    <3>1. Above(y) \subseteq Above(x)
      <4> SUFFICES ASSUME NEW z \in K, y < z PROVE x < z
        OBVIOUS
      <4>1. x \in Nat /\ y \in Nat /\ z \in Nat
        BY <2>1
      <4> QED
        BY <2>4, <4>1
    <3>2. y \in Above(x)
      BY <2>4
    <3> QED
      BY <1>0, <1>3, <2>2, <2>3, <3>1, <3>2
  <2> QED
    BY <2>1, <2>4
<1> QED
  BY <1>4

Increasing(f) == \A i, j \in DOMAIN f : i < j => f[i] < f[j]

Enumerated(K) == \E f \in [1..Cardinality(K) -> K] : Increasing(f)

(* By a smallest set that could not be. *)
LEMMA Enumerable ==
    ASSUME NEW N \in Nat, NEW K \in SUBSET (1..N)
    PROVE  Enumerated(K)
<1> DEFINE Bad == {L \in SUBSET (1..N) : ~Enumerated(L)}
<1>1. SUFFICES ASSUME Bad # {} PROVE FALSE
  OBVIOUS
<1>2. Bad \in SUBSET SUBSET (1..N)
  OBVIOUS
<1>0. HasSmallest(Bad)
  <2> HIDE DEF Bad
  <2> QED
    BY <1>1, <1>2, Smallest
<1>3. PICK L \in Bad : \A M \in Bad : M \subseteq L => M = L
  BY <1>0 DEF HasSmallest
<1>4. L \in SUBSET (1..N) /\ ~Enumerated(L)
  BY <1>3
<1>f. IsFiniteSet(L)
  <2>1. IsFiniteSet(1..N)
    BY FS_Interval
  <2> QED
    BY <1>4, <2>1, FS_Subset
<1>5. CASE L = {}
  <2>1. Cardinality(L) = 0
    BY <1>5, FS_EmptySet
  <2>2. [i \in 1..0 |-> i] \in [1..0 -> L] /\ Increasing([i \in 1..0 |-> i])
    BY DEF Increasing
  <2> QED
    BY <1>4, <2>1, <2>2 DEF Enumerated
<1>6. CASE L # {}
  <2>1. PICK x \in L : \A y \in L : y <= x
    BY <1>4, <1>6, Greatest
  <2> DEFINE n == Cardinality(L)
             R == L \ {x}
  <2>c. n \in Nat /\ n # 0
    BY <1>f, <1>6, FS_CardinalityType, FS_EmptySet
  <2>2. Cardinality(R) = n - 1
    BY <1>f, <2>1, FS_RemoveElement
  <2>r. R \in SUBSET (1..N) /\ R # L
    BY <1>4, <2>1
  <2>3. Enumerated(R)
    BY <1>3, <2>r
  <2>4. PICK f \in [1..(n - 1) -> R] : Increasing(f)
    BY <2>2, <2>3 DEF Enumerated
  <2> HIDE DEF n
  <2> DEFINE g == [i \in 1..n |-> IF i = n THEN x ELSE f[i]]
  <2>5. \A i \in 1..n : i # n => i \in 1..(n - 1)
    BY <2>c
  <2>6. g \in [1..n -> L]
    BY <2>4, <2>5
  <2>7. Increasing(g)
    <3> SUFFICES ASSUME NEW i \in 1..n, NEW j \in 1..n, i < j PROVE g[i] < g[j]
      BY DEF Increasing
    <3>1. i # n /\ i \in 1..(n - 1)
      BY <2>c
    <3>0. f[i] \in R
      BY <2>4, <3>1
    <3>2. CASE j = n
      <4>1. f[i] \in 1..N /\ x \in 1..N
        BY <1>4, <3>0
      <4>2. f[i] <= x /\ f[i] # x
        BY <2>1, <3>0
      <4> QED
        BY <3>1, <3>2, <4>1, <4>2
    <3>3. CASE j # n
      BY <2>4, <2>5, <3>1, <3>3 DEF Increasing
    <3> QED
      BY <3>2, <3>3
  <2> QED
    BY <1>4, <2>6, <2>7 DEF Enumerated, n
<1> QED
  BY <1>5, <1>6

------------------------------------------------------------------------------
(* What the edits make of a list.  Everything is said of positions: each of the
   new list stands where one of the old list stood. *)
LEMMA InListIs ==
    ASSUME NEW l \in Seq(Owner)
    PROVE  /\ DOMAIN l = 1..Len(l) /\ Len(l) \in Nat
           /\ \A n \in DOMAIN l : l[n] \in Owner /\ l[n] \in InList(l)
           /\ \A o \in InList(l) : o \in Owner /\ \E n \in DOMAIN l : o = l[n]
BY LenProperties, ElementOfSeq DEF InList

(* An owner is told by administrator, by handle and by credential. *)
LEMMA OwnersDiffer ==
    ASSUME NEW l, Sound(l), NEW o \in InList(l), NEW p \in InList(l),
           o.admin = p.admin \/ o.handle = p.handle \/ o.creds \cap p.creds # {}
    PROVE  o = p
<1>1. PICK m \in DOMAIN l : o = l[m]
  BY DEF InList
<1>2. PICK n \in DOMAIN l : p = l[n]
  BY DEF InList
<1>3. m = n
  BY <1>1, <1>2 DEF Sound, IsValid
<1> QED
  BY <1>1, <1>2, <1>3

LEMMA SoundFrom ==
    ASSUME NEW l, Sound(l), NEW new \in Seq(Owner),
           NEW from \in [DOMAIN new -> DOMAIN l],
           \A m, n \in DOMAIN new : from[m] = from[n] => m = n,
           \A m \in DOMAIN new :
              /\ new[m].admin = l[from[m]].admin /\ new[m].handle = l[from[m]].handle
              /\ new[m].creds \subseteq l[from[m]].creds
    PROVE  Sound(new)
<1>1. ASSUME NEW m \in DOMAIN new, NEW n \in DOMAIN new, m # n
      PROVE  new[m].admin # new[n].admin /\ new[m].handle # new[n].handle /\ new[m].creds \cap new[n].creds = {}
  <2>1. from[m] # from[n] /\ from[m] \in DOMAIN l /\ from[n] \in DOMAIN l
    BY <1>1
  <2>2. /\ l[from[m]].admin # l[from[n]].admin /\ l[from[m]].handle # l[from[n]].handle
        /\ l[from[m]].creds \cap l[from[n]].creds = {}
    BY <2>1 DEF Sound, IsValid
  <2> QED
    BY <2>2
<1>2. ASSUME NEW m \in DOMAIN new
      PROVE  IsFiniteSet(new[m].creds) /\ Cardinality(new[m].creds) <= MaxPasskeys
  <2> DEFINE old == l[from[m]].creds
             mine == new[m].creds
  <2>1. IsFiniteSet(old) /\ Cardinality(old) <= MaxPasskeys /\ mine \subseteq old
    BY DEF Sound, IsValid, InList
  <2> HIDE DEF old, mine
  <2>2. IsFiniteSet(mine) /\ Cardinality(mine) <= Cardinality(old)
    BY <2>1, FS_Subset
  <2>3. Cardinality(mine) \in Nat /\ Cardinality(old) \in Nat
    BY <2>1, <2>2, FS_CardinalityType
  <2>4. Cardinality(mine) <= MaxPasskeys
    BY <2>1, <2>2, <2>3
  <2> QED
    BY <2>2, <2>4 DEF mine
<1> QED
  BY <1>1, <1>2 DEF Sound, IsValid, InList

(* What pruning leaves. *)
LEMMA LivingOutcome ==
    ASSUME NEW l, Sound(l), NEW as
    PROVE  Sound(Living(l, as)) /\ InList(Living(l, as)) = {o \in InList(l) : o.admin \in as}
<1> DEFINE kept == {n \in DOMAIN l : l[n].admin \in as}
           N == Cardinality(kept)
           nth == CHOOSE f \in [1..N -> kept] : \A i, j \in DOMAIN f : i < j => f[i] < f[j]
           new == [i \in DOMAIN nth |-> l[nth[i]]]
<1>1. l \in Seq(Owner) /\ DOMAIN l = 1..Len(l) /\ Len(l) \in Nat /\ \A n \in DOMAIN l : l[n] \in Owner
  BY InListIs DEF Sound
<1>2. kept \in SUBSET (1..Len(l))
  BY <1>1
<1>n. N = Cardinality(kept)
  OBVIOUS
<1>3. IsFiniteSet(kept) /\ N \in Nat
  <2>1. IsFiniteSet(1..Len(l))
    BY <1>1, FS_Interval
  <2>2. IsFiniteSet(kept)
    BY <1>2, <2>1, FS_Subset
  <2> QED
    BY <2>2, FS_CardinalityType
<1>4. \E f \in [1..N -> kept] : \A i, j \in DOMAIN f : i < j => f[i] < f[j]
  BY <1>1, <1>2, Enumerable DEF Enumerated, Increasing
<1>5. nth \in [1..N -> kept] /\ \A i, j \in DOMAIN nth : i < j => nth[i] < nth[j]
  BY <1>4
<1>e. Living(l, as) = new
  BY DEF Living
<1> HIDE DEF nth, N
<1>6. new \in Seq(Owner) /\ DOMAIN new = 1..N /\ \A i \in 1..N : new[i] = l[nth[i]]
  <2>1. \A i \in 1..N : l[nth[i]] \in Owner
    BY <1>1, <1>5
  <2> QED
    BY <1>3, <1>5, <2>1
<1> HIDE DEF new
<1>7. \A i, j \in 1..N : nth[i] = nth[j] => i = j
  <2> SUFFICES ASSUME NEW i \in 1..N, NEW j \in 1..N, i # j PROVE nth[i] # nth[j]
    OBVIOUS
  <2>1. nth[i] \in 1..Len(l) /\ nth[j] \in 1..Len(l)
    BY <1>2, <1>5
  <2>2. i < j \/ j < i
    BY <1>3
  <2> QED
    BY <1>1, <1>5, <2>1, <2>2
<1>8. nth \in [DOMAIN new -> DOMAIN l]
  BY <1>5, <1>6
<1>9. Sound(new)
  <2>1. \A m, n \in DOMAIN new : nth[m] = nth[n] => m = n
    BY <1>6, <1>7
  <2>2. \A m \in DOMAIN new : /\ new[m].admin = l[nth[m]].admin /\ new[m].handle = l[nth[m]].handle
                              /\ new[m].creds \subseteq l[nth[m]].creds
    BY <1>6
  <2> QED
    BY <1>6, <1>8, <2>1, <2>2, SoundFrom
<1>10. \A n \in kept : \E i \in 1..N : nth[i] = n
  <2>1. nth \in Injection(1..N, kept)
    BY <1>5, <1>7 DEF Injection, IsInjective
  <2>2. IsFiniteSet(1..N) /\ Cardinality(1..N) = N
    BY <1>3, FS_Interval
  <2>3. nth \in Surjection(1..N, kept)
    BY <1>n, <1>3, <2>1, <2>2, FS_Injection
  <2> QED
    BY <2>3 DEF Surjection
<1>11. InList(new) = {o \in InList(l) : o.admin \in as}
  <2>1. ASSUME NEW i \in 1..N PROVE new[i] \in {o \in InList(l) : o.admin \in as}
    <3>1. nth[i] \in DOMAIN l /\ l[nth[i]].admin \in as
      BY <1>5
    <3> QED
      BY <1>6, <3>1 DEF InList
  <2>2. ASSUME NEW o \in InList(l), o.admin \in as PROVE \E i \in 1..N : o = new[i]
    <3>1. PICK n \in kept : o = l[n]
      BY <2>2 DEF InList
    <3>2. PICK i \in 1..N : nth[i] = n
      BY <1>10
    <3>3. new[i] = l[n]
      BY <1>6, <3>2
    <3> QED
      BY <3>1, <3>3
  <2>3. InList(new) = {new[i] : i \in 1..N}
    BY <1>6 DEF InList
  <2> QED
    BY <2>1, <2>2, <2>3
<1> QED
  BY <1>e, <1>9, <1>11

LEMMA WithoutOutcome ==
    ASSUME NEW l \in Seq(Owner), NEW n \in DOMAIN l
    PROVE  /\ Without(l, n) \in Seq(Owner)
           /\ DOMAIN Without(l, n) = 1..(Len(l) - 1)
           /\ \A m \in 1..(Len(l) - 1) : Without(l, n)[m] = IF m < n THEN l[m] ELSE l[m + 1]
<1> DEFINE a == SubSeq(l, 1, n - 1)
           b == SubSeq(l, n + 1, Len(l))
<1>1. n \in 1..Len(l) /\ Len(l) \in Nat /\ \A m \in 1..Len(l) : l[m] \in Owner
  BY InListIs
<1>2. a \in Seq(Owner) /\ Len(a) = n - 1 /\ \A m \in 1..(n - 1) : a[m] = l[m]
  <2>1. \A m \in 1..(n - 1) : l[m] \in Owner
    BY <1>1
  <2> QED
    BY <1>1, <2>1, SubSeqProperties
<1>3. b \in Seq(Owner) /\ Len(b) = Len(l) - n /\ \A m \in 1..(Len(l) - n) : b[m] = l[n + m]
  <2>1. \A m \in (n + 1)..Len(l) : l[m] \in Owner
    BY <1>1
  <2>2. /\ b \in Seq(Owner)
        /\ Len(b) = IF n + 1 <= Len(l) THEN Len(l) - (n + 1) + 1 ELSE 0
        /\ \A m \in 1 .. Len(l) - (n + 1) + 1 : b[m] = l[(n + 1) + m - 1]
    BY <1>1, <2>1, SubSeqProperties
  <2> QED
    BY <1>1, <2>2
<1> HIDE DEF a, b
<1>4. /\ a \o b \in Seq(Owner) /\ Len(a \o b) = Len(l) - 1
      /\ \A m \in 1..(Len(l) - 1) : (a \o b)[m] = IF m <= n - 1 THEN a[m] ELSE b[m - (n - 1)]
  <2>1. /\ a \o b \in Seq(Owner) /\ Len(a \o b) = Len(a) + Len(b)
        /\ \A m \in 1..(Len(a) + Len(b)) : (a \o b)[m] = IF m <= Len(a) THEN a[m] ELSE b[m - Len(a)]
    BY <1>2, <1>3, ConcatProperties
  <2>2. Len(a) + Len(b) = Len(l) - 1
    BY <1>1, <1>2, <1>3
  <2> QED
    BY <1>2, <2>1, <2>2
<1>5. DOMAIN (a \o b) = 1..(Len(l) - 1)
  BY <1>4, InListIs
<1>6. ASSUME NEW m \in 1..(Len(l) - 1) PROVE (a \o b)[m] = IF m < n THEN l[m] ELSE l[m + 1]
  <2>1. CASE m < n
    <3>1. m \in 1..(n - 1) /\ m <= n - 1
      BY <1>1, <2>1
    <3> QED
      BY <1>2, <1>4, <2>1, <3>1
  <2>2. CASE ~(m < n)
    <3>1. m - (n - 1) \in 1..(Len(l) - n) /\ ~(m <= n - 1) /\ n + (m - (n - 1)) = m + 1
      BY <1>1, <2>2
    <3> QED
      BY <1>3, <1>4, <2>2, <3>1
  <2> QED
    BY <2>1, <2>2
<1> QED
  BY <1>4, <1>5, <1>6 DEF a, b, Without

LEMMA WithoutSound ==
    ASSUME NEW l, Sound(l), NEW n \in DOMAIN l
    PROVE  Sound(Without(l, n)) /\ InList(Without(l, n)) = InList(l) \ {l[n]}
<1> DEFINE new == Without(l, n)
           from == [m \in DOMAIN new |-> IF m < n THEN m ELSE m + 1]
<1>1. l \in Seq(Owner) /\ DOMAIN l = 1..Len(l) /\ Len(l) \in Nat
  BY InListIs DEF Sound
<1>2. /\ new \in Seq(Owner) /\ DOMAIN new = 1..(Len(l) - 1)
      /\ \A m \in 1..(Len(l) - 1) : new[m] = IF m < n THEN l[m] ELSE l[m + 1]
  BY <1>1, WithoutOutcome
<1> HIDE DEF new
<1>3. from \in [DOMAIN new -> DOMAIN l] /\ \A m \in DOMAIN new : new[m] = l[from[m]] /\ from[m] # n
  BY <1>1, <1>2
<1>4. \A m, k \in DOMAIN new : from[m] = from[k] => m = k
  BY <1>1, <1>2
<1>5. ASSUME NEW k \in DOMAIN l, k # n PROVE \E m \in DOMAIN new : new[m] = l[k]
  <2>1. CASE k < n
    <3>1. k \in DOMAIN new
      BY <1>1, <1>2, <2>1
    <3> QED
      BY <1>2, <2>1, <3>1
  <2>2. CASE ~(k < n)
    <3>1. k - 1 \in DOMAIN new /\ ~(k - 1 < n) /\ (k - 1) + 1 = k
      BY <1>1, <1>2, <1>5, <2>2
    <3> QED
      BY <1>2, <3>1
  <2> QED
    BY <2>1, <2>2
<1> HIDE DEF from
<1>6. Sound(new)
  <2>1. \A m \in DOMAIN new : /\ new[m].admin = l[from[m]].admin /\ new[m].handle = l[from[m]].handle
                              /\ new[m].creds \subseteq l[from[m]].creds
    BY <1>3
  <2>2. new \in Seq(Owner) /\ from \in [DOMAIN new -> DOMAIN l]
    BY <1>2, <1>3
  <2> QED
    BY <1>4, <2>1, <2>2, SoundFrom
<1>7. \A k \in DOMAIN l : k # n => l[k] # l[n]
  BY DEF Sound, IsValid
<1>8. InList(new) = InList(l) \ {l[n]}
  BY <1>3, <1>5, <1>7 DEF InList
<1> QED
  BY <1>6, <1>8 DEF new

(* An owner becomes another of the same administrator and handle, whose credentials
   nobody else has. *)
Fits(o, l, n) ==
    /\ Sound(l) /\ n \in DOMAIN l /\ o \in Owner
    /\ o.admin = l[n].admin /\ o.handle = l[n].handle
    /\ IsFiniteSet(o.creds) /\ Cardinality(o.creds) <= MaxPasskeys
    /\ \A p \in InList(l) : p.creds \cap o.creds # {} => p = l[n]

Becomes(new, l, n, o) ==
    /\ new \in Seq(Owner) /\ DOMAIN new = DOMAIN l
    /\ \A m \in DOMAIN l : new[m] = IF m = n THEN o ELSE l[m]

LEMMA ReplaceSound ==
    ASSUME NEW l, NEW n, NEW o, Fits(o, l, n), NEW new, Becomes(new, l, n, o)
    PROVE  Sound(new) /\ InList(new) = (InList(l) \ {l[n]}) \cup {o}
<1>b. /\ new \in Seq(Owner) /\ DOMAIN new = DOMAIN l
      /\ \A m \in DOMAIN l : new[m] = IF m = n THEN o ELSE l[m]
  BY DEF Becomes
<1>0. /\ Sound(l) /\ n \in DOMAIN l /\ o \in Owner
      /\ o.admin = l[n].admin /\ o.handle = l[n].handle
      /\ IsFiniteSet(o.creds) /\ Cardinality(o.creds) <= MaxPasskeys
      /\ \A p \in InList(l) : p.creds \cap o.creds # {} => p = l[n]
  BY DEF Fits
<1>3. \A m \in DOMAIN l : m # n =>
         /\ l[m] \in InList(l) /\ l[m] # l[n]
         /\ l[m].admin # o.admin /\ l[m].handle # o.handle /\ l[m].creds \cap o.creds = {}
  BY <1>b, <1>0 DEF Sound, IsValid, InList
<1>4. ASSUME NEW m \in DOMAIN new, NEW k \in DOMAIN new, m # k
      PROVE  new[m].admin # new[k].admin /\ new[m].handle # new[k].handle /\ new[m].creds \cap new[k].creds = {}
  <2>1. CASE m = n
    <3>1. new[m] = o /\ new[k] = l[k] /\ k \in DOMAIN l /\ k # n
      BY <1>b, <1>4, <2>1
    <3> QED
      BY <1>b, <1>3, <3>1
  <2>2. CASE k = n
    <3>1. new[k] = o /\ new[m] = l[m] /\ m \in DOMAIN l /\ m # n
      BY <1>b, <1>4, <2>2
    <3> QED
      BY <1>b, <1>3, <3>1
  <2>3. CASE m # n /\ k # n
    <3>1. new[m] = l[m] /\ new[k] = l[k] /\ m \in DOMAIN l /\ k \in DOMAIN l
      BY <1>b, <2>3
    <3> QED
      BY <1>b, <1>0, <1>4, <3>1 DEF Sound, IsValid
  <2> QED
    BY <1>b, <2>1, <2>2, <2>3
<1>5. InList(new) = (InList(l) \ {l[n]}) \cup {o}
  BY <1>b, <1>0, <1>3 DEF InList
<1>6. \A p \in InList(new) : IsFiniteSet(p.creds) /\ Cardinality(p.creds) <= MaxPasskeys
  BY <1>b, <1>0, <1>5 DEF Sound, IsValid
<1> QED
  BY <1>b, <1>4, <1>5, <1>6 DEF Sound, IsValid

(* A new owner, of whom the list has nothing yet. *)
LEMMA AppendSound ==
    ASSUME NEW l, Sound(l), NEW o \in Owner,
           IsFiniteSet(o.creds), Cardinality(o.creds) <= MaxPasskeys,
           \A p \in InList(l) : p.admin # o.admin /\ p.handle # o.handle /\ p.creds \cap o.creds = {}
    PROVE  Sound(Append(l, o)) /\ InList(Append(l, o)) = InList(l) \cup {o}
<1> DEFINE new == Append(l, o)
<1>1. l \in Seq(Owner) /\ DOMAIN l = 1..Len(l) /\ Len(l) \in Nat
  BY InListIs DEF Sound
<1>2. /\ new \in Seq(Owner) /\ DOMAIN new = 1..(Len(l) + 1)
      /\ \A m \in DOMAIN l : new[m] = l[m]
      /\ new[Len(l) + 1] = o
  <2>1. new \in Seq(Owner) /\ Len(new) = Len(l) + 1
          /\ (\A m \in 1..Len(l) : new[m] = l[m]) /\ new[Len(l) + 1] = o
    BY <1>1, AppendProperties
  <2> QED
    BY <1>1, <2>1, InListIs
<1> HIDE DEF new
<1>3. \A m \in DOMAIN new : (m \in DOMAIN l /\ new[m] = l[m]) \/ (m = Len(l) + 1 /\ new[m] = o)
  BY <1>1, <1>2
<1>4. \A m \in DOMAIN l : l[m].admin # o.admin /\ l[m].handle # o.handle /\ l[m].creds \cap o.creds = {}
  BY DEF InList
<1>5. InList(new) = InList(l) \cup {o}
  BY <1>1, <1>2, <1>3 DEF InList
<1>6. ASSUME NEW m \in DOMAIN new, NEW k \in DOMAIN new, m # k
      PROVE  new[m].admin # new[k].admin /\ new[m].handle # new[k].handle /\ new[m].creds \cap new[k].creds = {}
  <2>1. CASE m \in DOMAIN l /\ k \in DOMAIN l
    <3>1. new[m] = l[m] /\ new[k] = l[k]
      BY <1>2, <2>1
    <3> QED
      BY <1>6, <2>1, <3>1 DEF Sound, IsValid
  <2>2. CASE m \in DOMAIN l /\ k \notin DOMAIN l
    <3>1. new[m] = l[m] /\ new[k] = o
      BY <1>2, <1>3, <2>2
    <3> QED
      BY <1>4, <2>2, <3>1
  <2>3. CASE m \notin DOMAIN l /\ k \in DOMAIN l
    <3>1. new[k] = l[k] /\ new[m] = o
      BY <1>2, <1>3, <2>3
    <3> QED
      BY <1>4, <2>3, <3>1
  <2> QED
    BY <1>3, <1>6, <2>1, <2>2, <2>3
<1>7. \A p \in InList(new) : IsFiniteSet(p.creds) /\ Cardinality(p.creds) <= MaxPasskeys
  BY <1>5 DEF Sound, IsValid
<1> QED
  BY <1>2, <1>5, <1>6, <1>7 DEF Sound, IsValid, new

------------------------------------------------------------------------------
(* What the maps lead to. *)
LEMMA AdminFinds ==
    ASSUME Sound(list), Indexed
    PROVE  /\ \A o \in InList(list) : o.admin \in DOMAIN byAdminID
           /\ \A a \in DOMAIN byAdminID : byAdminID[a] \in DOMAIN list /\ list[byAdminID[a]].admin = a
<1>1. DOMAIN byAdminID = {o.admin : o \in InList(list)}
  BY DEF Indexed, AdminIndex
<1>2. ASSUME NEW a \in DOMAIN byAdminID PROVE byAdminID[a] \in DOMAIN list /\ list[byAdminID[a]].admin = a
  <2>1. byAdminID[a] = CHOOSE n \in DOMAIN list : list[n].admin = a
    BY <1>1, <1>2 DEF Indexed, AdminIndex
  <2>2. \E n \in DOMAIN list : list[n].admin = a
    BY <1>1, <1>2 DEF InList
  <2> QED
    BY <2>1, <2>2
<1> QED
  BY <1>1, <1>2

LEMMA HandleFinds ==
    ASSUME Sound(list), Indexed, NEW h
    PROVE  ByHandle(h) = {o \in InList(list) : o.handle = h}
<1>1. DOMAIN byHandle = {o.handle : o \in InList(list)}
  BY DEF Indexed, HandleIndex
<1>2. CASE h \in DOMAIN byHandle
  <2>1. byHandle[h] = CHOOSE n \in DOMAIN list : list[n].handle = h
    BY <1>1, <1>2 DEF Indexed, HandleIndex
  <2>2. \E n \in DOMAIN list : list[n].handle = h
    BY <1>1, <1>2 DEF InList
  <2>3. byHandle[h] \in DOMAIN list /\ list[byHandle[h]].handle = h
    BY <2>1, <2>2
  <2>4. ByHandle(h) = {list[byHandle[h]]}
    BY <1>2 DEF ByHandle
  <2>5. list[byHandle[h]] \in InList(list)
    BY <2>3 DEF InList
  <2>6. \A o \in InList(list) : o.handle = h => o = list[byHandle[h]]
    BY <2>3, <2>5, OwnersDiffer
  <2> QED
    BY <2>3, <2>4, <2>5, <2>6
<1>3. CASE h \notin DOMAIN byHandle
  BY <1>1, <1>3 DEF ByHandle
<1> QED
  BY <1>2, <1>3

LEMMA CredsFound ==
    ASSUME Sound(list), Indexed
    PROVE  /\ \A a \in DOMAIN byAdminID : ListOf(a) = list[byAdminID[a]].creds
           /\ \A a : a \notin DOMAIN byAdminID => ListOf(a) = {}
           /\ \A o \in InList(list) : ListOf(o.admin) = o.creds
           /\ \A a : \A c \in ListOf(a) : \E o \in InList(list) : o.admin = a /\ c \in o.creds
           /\ DOMAIN byCredID = CredsOf(list)
<1>1. \A a \in DOMAIN byAdminID : ListOf(a) = list[byAdminID[a]].creds
  BY DEF ListOf
<1>2. \A a : a \notin DOMAIN byAdminID => ListOf(a) = {}
  BY DEF ListOf
<1>3. ASSUME NEW o \in InList(list) PROVE ListOf(o.admin) = o.creds
  <2>1. o.admin \in DOMAIN byAdminID /\ byAdminID[o.admin] \in DOMAIN list
          /\ list[byAdminID[o.admin]].admin = o.admin
    BY AdminFinds
  <2>2. list[byAdminID[o.admin]] \in InList(list)
    BY <2>1 DEF InList
  <2>3. list[byAdminID[o.admin]] = o
    BY <2>1, <2>2, OwnersDiffer
  <2> QED
    BY <1>1, <2>1, <2>3
<1>4. ASSUME NEW a, NEW c \in ListOf(a) PROVE \E o \in InList(list) : o.admin = a /\ c \in o.creds
  <2>1. a \in DOMAIN byAdminID
    BY <1>2, <1>4
  <2>2. byAdminID[a] \in DOMAIN list /\ list[byAdminID[a]].admin = a
    BY <2>1, AdminFinds
  <2> QED
    BY <1>1, <1>4, <2>1, <2>2 DEF InList
<1>5. DOMAIN byCredID = CredsOf(list)
  BY DEF Indexed, CredIndex
<1> QED
  BY <1>1, <1>2, <1>3, <1>4, <1>5

------------------------------------------------------------------------------
LEMMA Initial == Init => IInv
<1> SUFFICES ASSUME Init PROVE IInv
  OBVIOUS
<1>1. list = <<>> /\ disk = <<>> /\ byAdminID = <<>> /\ byHandle = <<>> /\ byCredID = <<>>
  BY DEF Init
<1>2. InList(<<>>) = {} /\ CredsOf(<<>>) = {}
  BY DEF InList, CredsOf
<1>3. Sound(<<>>)
  <2>1. <<>> \in Seq(Owner) /\ DOMAIN <<>> = {}
    OBVIOUS
  <2> QED
    BY <1>2, <2>1 DEF Sound, IsValid
<1>4. Indexed
  BY <1>1, <1>2 DEF Indexed, AdminIndex, HandleIndex, CredIndex
<1>5. NoTab \in Tabs
  BY DEF NoTab, Tabs
<1>6. PlainTypes
  BY <1>5 DEF Init, PlainTypes
<1>7. \A d \in Devices : TabOK(d)
  BY DEF Init, TabOK, Enrolling
<1> QED
  BY <1>1, <1>2, <1>3, <1>4, <1>6, <1>7 DEF Init, IInv

LEMMA Reindexed ==
    ASSUME NEW l, list' = l, Reindex(l)
    PROVE  Indexed'
<1>1. byAdminID' = AdminIndex(l) /\ byHandle' = HandleIndex(l) /\ byCredID' = CredIndex(l)
  BY DEF Reindex, AdminIndex, HandleIndex, CredIndex
<1> QED
  BY <1>1 DEF Indexed, AdminIndex, HandleIndex, CredIndex

(* A save goes through or fails. *)
LEMMA Committed ==
    ASSUME IInv, NEW new, Sound(new), Commit(new)
    PROVE  list' = disk' /\ Sound(list') /\ Indexed' /\ list' \in {new, list}
<1>1. CASE list' = new /\ Reindex(new) /\ disk' = new
  BY <1>1, Reindexed
<1>2. CASE list' = list /\ Reindex(list) /\ disk' = disk
  BY <1>2, Reindexed DEF IInv
<1> QED
  BY <1>1, <1>2 DEF Commit

(* No owner has come, and none has got anything. *)
Fewer(l, new) ==
    \A o \in InList(new) : \E p \in InList(l) :
        o.admin = p.admin /\ o.handle = p.handle /\ o.creds \subseteq p.creds

LEMMA FewerCreds ==
    ASSUME NEW l, NEW new, Fewer(l, new)
    PROVE  CredsOf(new) \subseteq CredsOf(l)
BY DEF Fewer, CredsOf

(* The steps with which nothing is made, stored or learned; what is removed is
   off the list. *)
LEMMA NothingGained ==
    ASSUME IInv, PlainTypes', list' = disk', Sound(list'), Indexed',
           Fewer(list, list'), UNCHANGED <<keys, handed, made>>,
           (file \subseteq admins \/ admins = {})',
           removed \subseteq removed', removed' \subseteq removed \cup CredsOf(list),
           removed' \cap CredsOf(list') = {},
           \A d \in Devices : (pc'[d] = pc[d] /\ tab'[d] = tab[d]) \/ pc'[d] = "idle"
    PROVE  IInv'
<1>1. \A o \in InList(list') : OwnerOK(o)'
  <2> SUFFICES ASSUME NEW o \in InList(list') PROVE OwnerOK(o)'
    OBVIOUS
  <2>1. PICK p \in InList(list) : o.admin = p.admin /\ o.handle = p.handle /\ o.creds \subseteq p.creds
    BY DEF Fewer
  <2>2. OwnerOK(p)
    BY DEF IInv
  <2>3. o.creds \cap removed' = {}
    BY DEF CredsOf
  <2> QED
    BY <2>1, <2>2, <2>3 DEF OwnerOK
<1>2. \A c \in removed' \cup {k.cred : k \in keys'} : made'[c] # Nobody
  <2>1. \A c \in CredsOf(list) : made[c] # Nobody
    <3> SUFFICES ASSUME NEW o \in InList(list), NEW c \in o.creds PROVE made[c] # Nobody
      BY DEF CredsOf
    <3>1. o \in Owner
      BY InListIs DEF IInv, Sound
    <3>2. made[c] = o.admin /\ o.admin \in Admins
      BY <3>1 DEF IInv, Owner, OwnerOK
    <3> QED
      BY <3>2
  <2> QED
    BY <2>1 DEF IInv
<1>3. CredsOf(list') \subseteq CredsOf(list)
  BY FewerCreds
<1>4. ASSUME NEW d \in Devices PROVE TabOK(d)'
  <2>1. CASE pc'[d] = "idle"
    BY <2>1 DEF TabOK, Enrolling
  <2>2. CASE pc'[d] = pc[d] /\ tab'[d] = tab[d]
    <3>1. TabOK(d)
      BY DEF IInv
    <3>2. \A e \in Devices : Enrolling(e)' => Enrolling(e) /\ tab'[e] = tab[e]
      BY DEF Enrolling
    <3>3. \A e \in Devices : pc'[e] = "made" => pc[e] = "made" /\ tab'[e] = tab[e]
      OBVIOUS
    <3>4. Enrolling(d)' =>
             /\ tab'[d].admin \in Admins /\ tab'[d].handle \subseteq handed' /\ 0 < MaxPasskeys
             /\ \A g, h \in tab'[d].handle : g = h
             /\ \A o \in InList(list') : o.handle \in tab'[d].handle => o.admin = tab'[d].admin
             /\ \A e \in Devices :
                  Enrolling(e)' /\ tab'[e].handle \cap tab'[d].handle # {} => tab'[e].admin = tab'[d].admin
      <4> SUFFICES ASSUME Enrolling(d)' 
                   PROVE  /\ tab'[d].admin \in Admins /\ tab'[d].handle \subseteq handed' /\ 0 < MaxPasskeys
                          /\ \A g, h \in tab'[d].handle : g = h
                          /\ \A o \in InList(list') : o.handle \in tab'[d].handle => o.admin = tab'[d].admin
                          /\ \A e \in Devices :
                               Enrolling(e)' /\ tab'[e].handle \cap tab'[d].handle # {}
                                 => tab'[e].admin = tab'[d].admin
        OBVIOUS
      <4>1. Enrolling(d)
        BY <3>2
      <4>2. \A o \in InList(list') : o.handle \in tab[d].handle => o.admin = tab[d].admin
        BY <3>1, <4>1 DEF TabOK, Fewer
      <4> QED
        BY <2>2, <3>1, <3>2, <4>1, <4>2 DEF TabOK
    <3>5. pc'[d] = "made" =>
             \A c \in tab'[d].cred :
                /\ made'[c] = tab'[d].admin /\ c \notin removed' \cup CredsOf(list')
                /\ \A k \in keys', h \in tab'[d].handle : k.cred = c => k.handle = h
                /\ \A e \in Devices \ {d} : pc'[e] = "made" => c \notin tab'[e].cred
      BY <1>3, <2>2, <3>1, <3>3 DEF TabOK
    <3>6. pc'[d] \in {"answered", "resolved"} =>
             tab'[d].cred # {} /\ (tab'[d].late => tab'[d].cred \subseteq removed')
      BY <2>2, <3>1 DEF TabOK
    <3>7. pc'[d] = "verified" =>
             /\ tab'[d].admin \in Admins /\ ~tab'[d].late
             /\ \A c \in tab'[d].cred : made'[c] = tab'[d].admin
      BY <2>2, <3>1 DEF TabOK
    <3> QED
      BY <3>4, <3>5, <3>6, <3>7 DEF TabOK
  <2> QED
    BY <2>1, <2>2
<1> QED
  BY <1>1, <1>2, <1>4 DEF IInv

(* The steps that only concern one device's ceremony. *)
LEMMA OneCeremony ==
    ASSUME IInv, PlainTypes', UNCHANGED <<file, admins, store, keys, made, removed>>,
           handed \subseteq handed',
           NEW d \in Devices,
           \A e \in Devices \ {d} : pc'[e] = pc[e] /\ tab'[e] = tab[e],
           TabOK(d)',
           pc'[d] # "made",
           Enrolling(d)' => \A e \in Devices \ {d} :
              Enrolling(e) /\ tab[e].handle \cap tab'[d].handle # {} => tab[e].admin = tab'[d].admin
    PROVE  IInv'
<1>1. list' = list /\ disk' = disk /\ Indexed' /\ Sound(list')
  BY DEF IInv, store, Indexed, AdminIndex, HandleIndex, CredIndex
<1>2. \A o \in InList(list') : OwnerOK(o)'
  BY <1>1 DEF IInv, OwnerOK
<1>3. ASSUME NEW f \in Devices \ {d} PROVE TabOK(f)'
  <2>1. TabOK(f) /\ pc'[f] = pc[f] /\ tab'[f] = tab[f]
    BY DEF IInv
  <2>2. Enrolling(f)' => Enrolling(f)
    BY <2>1 DEF Enrolling
  <2>3. \A e \in Devices \ {d} : (Enrolling(e)' => Enrolling(e)) /\ tab'[e] = tab[e] /\ pc'[e] = pc[e]
    BY DEF Enrolling
  <2>4. ASSUME Enrolling(f)
        PROVE  \A e \in Devices : Enrolling(e)' /\ tab'[e].handle \cap tab[f].handle # {}
                                     => tab'[e].admin = tab[f].admin
    <3> SUFFICES ASSUME NEW e \in Devices, Enrolling(e)', tab'[e].handle \cap tab[f].handle # {}
                 PROVE  tab'[e].admin = tab[f].admin
      OBVIOUS
    <3>1. CASE e = d
      <4>1. tab[f].handle \cap tab'[d].handle # {}
        BY <3>1
      <4> QED
        BY <2>4, <3>1, <4>1
    <3>2. CASE e # d
      BY <2>1, <2>3, <2>4, <3>2 DEF TabOK
    <3> QED
      BY <3>1, <3>2
  <2>5. Enrolling(f)' =>
          /\ tab'[f].admin \in Admins /\ tab'[f].handle \subseteq handed' /\ 0 < MaxPasskeys
          /\ \A g, h \in tab'[f].handle : g = h
          /\ \A o \in InList(list') : o.handle \in tab'[f].handle => o.admin = tab'[f].admin
          /\ \A e \in Devices :
                Enrolling(e)' /\ tab'[e].handle \cap tab'[f].handle # {} => tab'[e].admin = tab'[f].admin
    <3>1. Enrolling(f) =>
          /\ tab[f].admin \in Admins /\ tab[f].handle \subseteq handed' /\ 0 < MaxPasskeys
          /\ \A g, h \in tab[f].handle : g = h
          /\ \A o \in InList(list') : o.handle \in tab[f].handle => o.admin = tab[f].admin
      BY <1>1, <2>1 DEF TabOK
    <3> QED
      BY <2>1, <2>2, <2>4, <3>1
  <2>6. pc'[f] = "made" =>
             \A c \in tab'[f].cred :
                /\ made'[c] = tab'[f].admin /\ c \notin removed' \cup CredsOf(list')
                /\ \A k \in keys', h \in tab'[f].handle : k.cred = c => k.handle = h
                /\ \A e \in Devices \ {f} : pc'[e] = "made" => c \notin tab'[e].cred
    <3>1. \A e \in Devices : pc'[e] = "made" => pc[e] = "made" /\ tab'[e] = tab[e]
      OBVIOUS
    <3> QED
      BY <1>1, <2>1, <3>1 DEF TabOK
  <2>7. pc'[f] \in {"answered", "resolved"} =>
             tab'[f].cred # {} /\ (tab'[f].late => tab'[f].cred \subseteq removed')
    BY <2>1 DEF TabOK
  <2>8. pc'[f] = "verified" =>
             /\ tab'[f].admin \in Admins /\ ~tab'[f].late
             /\ \A c \in tab'[f].cred : made'[c] = tab'[f].admin
    BY <2>1 DEF TabOK
  <2> QED
    BY <2>5, <2>6, <2>7, <2>8 DEF TabOK
<1>4. \A f \in Devices : TabOK(f)'
  BY <1>3
<1> QED
  BY <1>1, <1>2, <1>4 DEF IInv

------------------------------------------------------------------------------
(* The steps of an enrolment. *)
LEMMA CarryOutcome ==
    ASSUME PlainTypes, NEW d \in Devices, NEW t \in Tabs,
           NEW label \in {"idle", "offered", "made", "answered", "resolved", "verified"},
           Carry(d, t, label)
    PROVE  /\ pc'[d] = label /\ tab'[d] = t
           /\ \A e \in Devices \ {d} : pc'[e] = pc[e] /\ tab'[e] = tab[e]
           /\ tab' \in [Devices -> Tabs]
           /\ pc' \in [Devices -> {"idle", "offered", "made", "answered", "resolved", "verified"}]
BY DEF Carry, PlainTypes

LEMMA DoneOutcome ==
    ASSUME PlainTypes, NEW d \in Devices, Done(d)
    PROVE  /\ pc'[d] = "idle"
           /\ \A e \in Devices \ {d} : pc'[e] = pc[e] /\ tab'[e] = tab[e]
           /\ tab' \in [Devices -> Tabs]
           /\ pc' \in [Devices -> {"idle", "offered", "made", "answered", "resolved", "verified"}]
<1>1. NoTab \in Tabs
  BY DEF NoTab, Tabs
<1> QED
  BY <1>1, CarryOutcome DEF Done

LEMMA ListIs ==
    ASSUME IInv
    PROVE  /\ PlainTypes /\ Sound(list) /\ Indexed /\ list = disk
           /\ \A o \in InList(list) : o \in Owner /\ o.admin \in Admins /\ o.handle \in Handles
                                        /\ o.creds \subseteq Creds /\ OwnerOK(o)
           /\ \A n \in DOMAIN list : list[n] \in InList(list)
<1>1. \A o \in InList(list) : o \in Owner
  BY InListIs DEF IInv, Sound
<1>2. \A o \in InList(list) : o.admin \in Admins /\ o.handle \in Handles /\ o.creds \subseteq Creds
  BY <1>1 DEF Owner
<1>3. \A n \in DOMAIN list : list[n] \in InList(list)
  BY DEF InList
<1> QED
  BY <1>1, <1>2, <1>3 DEF IInv

LEMMA BeginStep == ASSUME IInv, NEW d \in Devices, BeginEnrolment(d) PROVE IInv'
<1> DEFINE a == session[d]
<1>1. /\ pc[d] = "idle" /\ a \in admins /\ Cardinality(ListOf(a)) < MaxPasskeys
      /\ UNCHANGED <<file, admins, store, session, keys, made, removed>>
  BY DEF BeginEnrolment, SignedIn
<1>2. PICK h \in IF a \in DOMAIN byAdminID THEN {list[byAdminID[a]].handle} ELSE Handles \ handed :
         /\ handed' = handed \cup {h}
         /\ Carry(d, [NoTab EXCEPT !.admin = a, !.handle = {h}], "offered")
  BY DEF BeginEnrolment
<1> DEFINE t == [NoTab EXCEPT !.admin = a, !.handle = {h}]
<1>3. PlainTypes /\ Sound(list) /\ Indexed /\ a \in Admins
  BY <1>1, ListIs DEF PlainTypes
<1>6. /\ h \in Handles /\ IsFiniteSet(ListOf(a))
      /\ \A p \in InList(list) : p.handle = h => p.admin = a
      /\ \A e \in Devices : Enrolling(e) /\ h \in tab[e].handle => tab[e].admin = a
  <2>1. CASE a \in DOMAIN byAdminID
    <3> DEFINE o == list[byAdminID[a]]
    <3>1. o \in InList(list) /\ o.admin = a /\ h = o.handle
      BY <1>2, <1>3, <2>1, AdminFinds, ListIs
    <3>2. h \in Handles
      BY <3>1, ListIs
    <3>3. \A p \in InList(list) : p.handle = h => p.admin = a
      BY <1>3, <3>1, OwnersDiffer
    <3>4. \A e \in Devices : Enrolling(e) /\ h \in tab[e].handle => tab[e].admin = a
      BY <3>1 DEF IInv, TabOK
    <3>5. ListOf(a) = o.creds /\ IsFiniteSet(o.creds)
      BY <1>3, <2>1, <3>1, CredsFound DEF Sound
    <3> QED
      BY <3>2, <3>3, <3>4, <3>5
  <2>2. CASE a \notin DOMAIN byAdminID
    <3>1. h \in Handles /\ h \notin handed
      BY <1>2, <2>2
    <3>2. \A p \in InList(list) : p.handle # h
      BY <3>1, ListIs DEF OwnerOK
    <3>3. \A e \in Devices : Enrolling(e) => h \notin tab[e].handle
      BY <3>1 DEF IInv, TabOK
    <3>4. ListOf(a) = {} /\ IsFiniteSet({})
      BY <1>3, <2>2, CredsFound, FS_EmptySet
    <3> QED
      BY <3>1, <3>2, <3>3, <3>4
  <2> QED
    BY <2>1, <2>2
<1>7. 0 < MaxPasskeys
  <2>1. Cardinality(ListOf(a)) \in Nat
    BY <1>6, FS_CardinalityType
  <2> QED
    BY <1>1, <2>1
<1>8. t \in Tabs /\ t.admin = a /\ t.handle = {h}
  BY <1>3, <1>6 DEF NoTab, Tabs
<1> HIDE DEF t
<1>9. /\ pc'[d] = "offered" /\ tab'[d] = t
      /\ \A e \in Devices \ {d} : pc'[e] = pc[e] /\ tab'[e] = tab[e]
      /\ tab' \in [Devices -> Tabs]
      /\ pc' \in [Devices -> {"idle", "offered", "made", "answered", "resolved", "verified"}]
  BY <1>2, <1>3, <1>8, CarryOutcome DEF t
<1>10. PlainTypes'
  BY <1>1, <1>2, <1>3, <1>6, <1>9 DEF PlainTypes
<1>11. list' = list /\ handed' = handed \cup {h}
  BY <1>1, <1>2 DEF store
<1>12. TabOK(d)'
  <2>1. \A e \in Devices : Enrolling(e)' /\ tab'[e].handle \cap tab'[d].handle # {}
                              => tab'[e].admin = tab'[d].admin
    <3> SUFFICES ASSUME NEW e \in Devices, Enrolling(e)', h \in tab'[e].handle, e # d PROVE tab'[e].admin = a
      BY <1>8, <1>9
    <3>1. Enrolling(e) /\ tab'[e] = tab[e]
      BY <1>9 DEF Enrolling
    <3> QED
      BY <1>6, <3>1
  <2>2. \A o \in InList(list') : o.handle \in tab'[d].handle => o.admin = tab'[d].admin
    BY <1>6, <1>8, <1>9, <1>11
  <2> QED
    BY <1>3, <1>7, <1>8, <1>9, <1>11, <2>1, <2>2 DEF TabOK
<1>13. \A e \in Devices \ {d} :
          Enrolling(e) /\ tab[e].handle \cap tab'[d].handle # {} => tab[e].admin = tab'[d].admin
  BY <1>6, <1>8, <1>9
<1>14. handed \subseteq handed' /\ pc'[d] # "made"
  BY <1>9, <1>11
<1> QED
  BY <1>1, <1>9, <1>10, <1>12, <1>13, <1>14, OneCeremony

LEMMA MakeStep == ASSUME IInv, NEW d \in Devices, MakeKey(d) PROVE IInv'
<1>1. pc[d] = "offered" /\ UNCHANGED <<file, admins, store, session, handed, removed>>
  BY DEF MakeKey
<1>2. PICK c \in Creds, h \in tab[d].handle :
        /\ made[c] = Nobody
        /\ made' = [made EXCEPT ![c] = tab[d].admin]
        /\ keys' = {k \in keys : k.device # d \/ k.handle # h}
                     \cup {[device |-> d, handle |-> h, cred |-> c]}
        /\ Carry(d, [tab[d] EXCEPT !.cred = {c}], "made")
  BY DEF MakeKey
<1> DEFINE t == [tab[d] EXCEPT !.cred = {c}]
<1>3. PlainTypes /\ Sound(list) /\ Indexed /\ list = disk
  BY ListIs
<1>4. /\ TabOK(d) /\ Enrolling(d) /\ tab[d] \in Tabs
      /\ tab[d].admin \in Admins /\ tab[d].handle \subseteq handed /\ 0 < MaxPasskeys
      /\ \A g \in tab[d].handle : g = h
  BY <1>1, <1>3 DEF IInv, TabOK, Enrolling, PlainTypes
<1>5. t \in Tabs /\ t.admin = tab[d].admin /\ t.handle = tab[d].handle /\ t.cred = {c}
  BY <1>4 DEF Tabs
<1>c. Carry(d, t, "made")
  BY <1>2
<1> HIDE DEF t
<1>6. /\ pc'[d] = "made" /\ tab'[d] = t
      /\ \A e \in Devices \ {d} : pc'[e] = pc[e] /\ tab'[e] = tab[e]
      /\ tab' \in [Devices -> Tabs]
      /\ pc' \in [Devices -> {"idle", "offered", "made", "answered", "resolved", "verified"}]
  BY <1>c, <1>3, <1>5, CarryOutcome
<1>7. /\ list' = list /\ disk' = disk /\ handed' = handed /\ removed' = removed
      /\ byAdminID' = byAdminID /\ byHandle' = byHandle /\ byCredID' = byCredID
  BY <1>1 DEF store
<1>8. made'[c] = tab[d].admin /\ \A b \in Creds \ {c} : made'[b] = made[b]
  BY <1>2, <1>3 DEF PlainTypes
<1>9. \A k \in keys' : k \in keys \/ (k.cred = c /\ k.handle = h)
  BY <1>2
<1>10. c \notin removed /\ \A k \in keys : k.cred # c
  BY <1>2 DEF IInv
<1>11. \A o \in InList(list) : c \notin o.creds
  BY <1>2, ListIs DEF OwnerOK
<1>12. \A e \in Devices : pc[e] \in {"made", "verified"} => c \notin tab[e].cred
  <2> SUFFICES ASSUME NEW e \in Devices, pc[e] \in {"made", "verified"} PROVE c \notin tab[e].cred
    OBVIOUS
  <2>1. TabOK(e) /\ tab[e].admin \in Admins
    BY DEF IInv, TabOK, Enrolling
  <2> QED
    BY <1>2, <2>1 DEF TabOK
<1>13. PlainTypes'
  <2>1. h \in Handles
    BY <1>3, <1>4 DEF PlainTypes
  <2>2. keys' \subseteq Key
    BY <1>2, <1>3, <2>1 DEF PlainTypes, Key
  <2>3. made' \in [Creds -> Admins \cup {Nobody}]
    BY <1>2, <1>3, <1>4 DEF PlainTypes
  <2> QED
    BY <1>1, <1>3, <1>6, <1>7, <2>2, <2>3 DEF PlainTypes
<1>14. Sound(list') /\ Indexed'
  BY <1>3, <1>7 DEF Indexed, AdminIndex, HandleIndex, CredIndex
<1>15. ASSUME NEW o \in InList(list') PROVE OwnerOK(o)'
  <2>1. o \in InList(list) /\ OwnerOK(o) /\ o.creds \subseteq Creds /\ c \notin o.creds
    BY <1>7, <1>11, ListIs
  <2>2. \A b \in o.creds : made'[b] = made[b] /\ b # c
    BY <1>8, <2>1
  <2> QED
    BY <1>7, <1>9, <2>1, <2>2 DEF OwnerOK
<1>16. \A b \in removed' \cup {k.cred : k \in keys'} : made'[b] # Nobody
  <2>1. \A b \in removed \cup {k.cred : k \in keys} : made[b] # Nobody /\ b \in Creds
    BY <1>3 DEF IInv, PlainTypes, Key
  <2>2. \A b \in removed' \cup {k.cred : k \in keys'} : b = c \/ b \in removed \cup {k.cred : k \in keys}
    BY <1>7, <1>9
  <2> QED
    BY <1>4, <1>8, <2>1, <2>2
<1>17. ASSUME NEW f \in Devices PROVE TabOK(f)'
  <2>0. tab'[f].admin = tab[f].admin /\ tab'[f].handle = tab[f].handle
          /\ (f # d => tab'[f] = tab[f] /\ pc'[f] = pc[f])
    BY <1>5, <1>6
  <2>1. \A e \in Devices : (Enrolling(e)' => Enrolling(e)) /\ tab'[e].admin = tab[e].admin /\ tab'[e].handle = tab[e].handle
    BY <1>4, <1>5, <1>6 DEF Enrolling
  <2>2. Enrolling(f)' =>
          /\ tab'[f].admin \in Admins /\ tab'[f].handle \subseteq handed' /\ 0 < MaxPasskeys
          /\ \A g, i \in tab'[f].handle : g = i
          /\ \A o \in InList(list') : o.handle \in tab'[f].handle => o.admin = tab'[f].admin
          /\ \A e \in Devices :
                Enrolling(e)' /\ tab'[e].handle \cap tab'[f].handle # {} => tab'[e].admin = tab'[f].admin
    <3>1. Enrolling(f) =>
          /\ tab[f].admin \in Admins /\ tab[f].handle \subseteq handed /\ 0 < MaxPasskeys
          /\ \A g, i \in tab[f].handle : g = i
          /\ \A o \in InList(list) : o.handle \in tab[f].handle => o.admin = tab[f].admin
          /\ \A e \in Devices :
                Enrolling(e) /\ tab[e].handle \cap tab[f].handle # {} => tab[e].admin = tab[f].admin
      BY DEF IInv, TabOK
    <3> QED
      BY <1>7, <2>0, <2>1, <3>1
  <2>3. pc'[f] = "made" =>
             \A b \in tab'[f].cred :
                /\ made'[b] = tab'[f].admin /\ b \notin removed' \cup CredsOf(list')
                /\ \A k \in keys', i \in tab'[f].handle : k.cred = b => k.handle = i
                /\ \A e \in Devices \ {f} : pc'[e] = "made" => b \notin tab'[e].cred
    <3>1. CASE f = d
      <4> SUFFICES /\ made'[c] = tab'[d].admin /\ c \notin removed' \cup CredsOf(list')
                   /\ \A k \in keys', i \in tab'[d].handle : k.cred = c => k.handle = i
                   /\ \A e \in Devices \ {d} : pc'[e] = "made" => c \notin tab'[e].cred
        BY <1>5, <1>6, <3>1
      <4>1. c \notin CredsOf(list')
        BY <1>7, <1>11 DEF CredsOf
      <4>2. \A k \in keys', i \in tab'[d].handle : k.cred = c => k.handle = i
        BY <1>4, <1>5, <1>6, <1>9, <1>10
      <4>3. \A e \in Devices \ {d} : pc'[e] = "made" => c \notin tab'[e].cred
        BY <1>6, <1>12
      <4> QED
        BY <1>5, <1>6, <1>7, <1>8, <1>10, <4>1, <4>2, <4>3
    <3>2. CASE f # d
      <4> SUFFICES ASSUME pc[f] = "made", NEW b \in tab[f].cred
                   PROVE  /\ made'[b] = tab[f].admin /\ b \notin removed' \cup CredsOf(list')
                          /\ \A k \in keys', i \in tab[f].handle : k.cred = b => k.handle = i
                          /\ \A e \in Devices \ {f} : pc'[e] = "made" => b \notin tab'[e].cred
        BY <2>0, <3>2
      <4>1. b # c /\ b \in Creds
        BY <1>3, <1>12 DEF PlainTypes, Tabs
      <4>2. /\ made[b] = tab[f].admin /\ b \notin removed \cup CredsOf(list)
            /\ \A k \in keys, i \in tab[f].handle : k.cred = b => k.handle = i
            /\ \A e \in Devices \ {f} : pc[e] = "made" => b \notin tab[e].cred
        BY DEF IInv, TabOK
      <4>3. \A e \in Devices \ {f} : pc'[e] = "made" => b \notin tab'[e].cred
        BY <1>5, <1>6, <4>1, <4>2
      <4> QED
        BY <1>7, <1>8, <1>9, <4>1, <4>2, <4>3
    <3> QED
      BY <3>1, <3>2
  <2>4. pc'[f] \in {"answered", "resolved"} =>
             tab'[f].cred # {} /\ (tab'[f].late => tab'[f].cred \subseteq removed')
    BY <1>6, <1>7, <2>0 DEF IInv, TabOK
  <2>5. pc'[f] = "verified" =>
             /\ tab'[f].admin \in Admins /\ ~tab'[f].late
             /\ \A b \in tab'[f].cred : made'[b] = tab'[f].admin
    <3> SUFFICES ASSUME pc'[f] = "verified"
                 PROVE  /\ tab[f].admin \in Admins /\ ~tab[f].late
                        /\ \A b \in tab[f].cred : made'[b] = tab[f].admin
      BY <1>6
    <3>1. pc[f] = "verified"
      BY <1>6, <2>0
    <3>2. \A b \in tab[f].cred : b # c /\ b \in Creds
      BY <1>3, <1>12, <3>1 DEF PlainTypes, Tabs
    <3> QED
      BY <1>8, <3>1, <3>2 DEF IInv, TabOK
  <2> QED
    BY <2>2, <2>3, <2>4, <2>5 DEF TabOK
<1>18. (file \subseteq admins \/ admins = {})' /\ list' = disk'
  BY <1>1, <1>3, <1>7 DEF IInv
<1> QED
  BY <1>13, <1>14, <1>15, <1>16, <1>17, <1>18 DEF IInv

(* A credential more of one owner, new or not. *)
Gains(a, h, c, l, new) ==
    /\ \A o \in InList(new) :
          \/ o \in InList(l)
          \/ /\ o.admin = a /\ o.handle = h
             /\ \A b \in o.creds :
                   b = c \/ \E p \in InList(l) : p.admin = a /\ p.handle = h /\ b \in p.creds
    /\ CredsOf(l) \subseteq CredsOf(new)

LEMMA AddOutcome ==
    ASSUME IInv, NEW d \in Devices, pc[d] = "made", NEW h \in tab[d].handle, NEW c \in tab[d].cred,
           Add(tab[d].admin, h, c)
    PROVE  /\ list' = disk' /\ Sound(list') /\ Indexed'
           /\ list' = list \/ Gains(tab[d].admin, h, c, list, list')
<1> DEFINE a == tab[d].admin
<1>1. PlainTypes /\ Sound(list) /\ Indexed /\ TabOK(d) /\ Enrolling(d)
  BY ListIs DEF IInv, Enrolling
<1>2. a \in Admins /\ h \in Handles /\ c \in Creds /\ 0 < MaxPasskeys
  BY <1>1 DEF TabOK, PlainTypes, Tabs
<1>3. c \notin CredsOf(list) /\ \A p \in InList(list) : p.handle = h => p.admin = a
  BY <1>1 DEF TabOK
<1>4. \A p \in InList(list) : c \notin p.creds
  BY <1>3 DEF CredsOf
<1>s. /\ a \in DOMAIN byAdminID =>
           /\ list[byAdminID[a]].handle = h
           /\ Cardinality(ListOf(a)) < MaxPasskeys
           /\ Commit([list EXCEPT ![byAdminID[a]].creds = @ \cup {c}])
      /\ a \notin DOMAIN byAdminID => Commit(Append(list, [admin |-> a, handle |-> h, creds |-> {c}]))
  BY DEF Add
<1>5. CASE a \in DOMAIN byAdminID
  <2> DEFINE n == byAdminID[a]
             old == list[n]
             o == [admin |-> old.admin, handle |-> old.handle, creds |-> old.creds \cup {c}]
             new == [list EXCEPT ![n] = o]
  <2>1. /\ n \in DOMAIN list /\ old.admin = a /\ old \in InList(list) /\ ListOf(a) = old.creds
        /\ old.handle = h /\ Cardinality(old.creds) < MaxPasskeys
    BY <1>1, <1>s, <1>5, AdminFinds, ListIs, CredsFound
  <2>2. old \in Owner /\ IsFiniteSet(old.creds) /\ Cardinality(old.creds) \in Nat
    BY <1>1, <2>1, ListIs, FS_CardinalityType DEF Sound
  <2>3. o \in Owner /\ o.admin = old.admin /\ o.handle = old.handle /\ o.creds = old.creds \cup {c}
    BY <1>2, <2>2 DEF Owner
  <2>4. [list EXCEPT ![byAdminID[a]].creds = @ \cup {c}] = new
    <3>1. [old EXCEPT !.creds = old.creds \cup {c}] = o
      BY <2>2 DEF Owner
    <3> QED
      BY <3>1
  <2> HIDE DEF o
  <2>5. IsFiniteSet(o.creds) /\ Cardinality(o.creds) <= MaxPasskeys
    <3>1. c \notin old.creds
      BY <1>4, <2>1
    <3> DEFINE E == old.creds
    <3>2. IsFiniteSet(E) /\ c \notin E /\ Cardinality(E) \in Nat /\ Cardinality(E) < MaxPasskeys
            /\ o.creds = E \cup {c}
      BY <2>1, <2>2, <2>3, <3>1
    <3> HIDE DEF E
    <3>3. IsFiniteSet(E \cup {c}) /\ Cardinality(E \cup {c}) = Cardinality(E) + 1
      BY <3>2, FS_AddElement
    <3>4. Cardinality(E \cup {c}) <= MaxPasskeys
      BY <3>2, <3>3
    <3> QED
      BY <3>2, <3>3, <3>4
  <2>6. ASSUME NEW p \in InList(list), p.creds \cap o.creds # {} PROVE p = old
    <3>0. c \notin p.creds
      BY <1>4
    <3>1. p.creds \cap old.creds # {}
      BY <2>3, <2>6, <3>0
    <3>2. old \in InList(list) /\ Sound(list)
      BY <1>1, <2>1
    <3> HIDE DEF old, n
    <3> QED
      BY <2>6, <3>1, <3>2, OwnersDiffer
  <2>7. Sound(new) /\ InList(new) = (InList(list) \ {old}) \cup {o}
    <3>1. Sound(list) /\ n \in DOMAIN list /\ o \in Owner /\ o.admin = list[n].admin /\ o.handle = list[n].handle
      BY <1>1, <2>1, <2>3
    <3>2. \A p \in InList(list) : p.creds \cap o.creds # {} => p = list[n]
      BY <2>6
    <3>3. Becomes(new, list, n, o)
      <4>1. list \in Seq(Owner)
        BY <1>1 DEF Sound
      <4> HIDE DEF n
      <4> QED
        BY <3>1, <4>1, ExceptSeq DEF Becomes
    <3>4. Fits(o, list, n)
      BY <2>5, <3>1, <3>2 DEF Fits
    <3> HIDE DEF n, new
    <3> QED
      BY <3>3, <3>4, ReplaceSound
  <2>c. Commit(new)
    BY <1>s, <1>5, <2>4
  <2>8. list' = disk' /\ Sound(list') /\ Indexed' /\ list' \in {new, list}
    <3> HIDE DEF new
    <3> QED
      BY <2>7, <2>c, Committed
  <2>9. Gains(a, h, c, list, new)
    <3>1. CredsOf(list) \subseteq CredsOf(new)
      BY <2>3, <2>7 DEF CredsOf
    <3> QED
      BY <2>1, <2>3, <2>7, <3>1 DEF Gains
  <2> QED
    BY <2>8, <2>9
<1>6. CASE a \notin DOMAIN byAdminID
  <2> DEFINE o == [admin |-> a, handle |-> h, creds |-> {c}]
             new == Append(list, o)
  <2>1. o \in Owner /\ o.admin = a /\ o.handle = h /\ o.creds = {c}
    BY <1>2 DEF Owner
  <2>c. Commit(new)
    BY <1>s, <1>6
  <2> HIDE DEF o
  <2>2. IsFiniteSet(o.creds) /\ Cardinality(o.creds) <= MaxPasskeys
    <3>1. IsFiniteSet(o.creds) /\ Cardinality(o.creds) = 1
      BY <2>1, FS_Singleton
    <3> QED
      BY <1>2, <3>1
  <2>3. \A p \in InList(list) : p.admin # o.admin /\ p.handle # o.handle /\ p.creds \cap o.creds = {}
    <3>1. \A p \in InList(list) : p.admin # a
      BY <1>1, <1>6, AdminFinds
    <3> QED
      BY <1>3, <1>4, <2>1, <3>1
  <2>4. Sound(new) /\ InList(new) = InList(list) \cup {o}
    BY <1>1, <2>1, <2>2, <2>3, AppendSound
  <2>5. list' = disk' /\ Sound(list') /\ Indexed' /\ list' \in {new, list}
    <3> HIDE DEF new
    <3> QED
      BY <2>c, <2>4, Committed
  <2>6. Gains(a, h, c, list, new)
    <3>1. CredsOf(list) \subseteq CredsOf(new)
      BY <2>4 DEF CredsOf
    <3> QED
      BY <2>1, <2>4, <3>1 DEF Gains
  <2> QED
    BY <2>5, <2>6
<1> QED
  BY <1>5, <1>6

LEMMA StoredStep ==
    ASSUME IInv, NEW d \in Devices, pc[d] = "made", NEW h \in tab[d].handle, NEW c \in tab[d].cred,
           list' = disk', Sound(list'), Indexed', Gains(tab[d].admin, h, c, list, list'),
           Done(d), UNCHANGED <<file, admins, session, keys, handed, made, removed>>
    PROVE  IInv'
<1> DEFINE a == tab[d].admin
<1>1. PlainTypes /\ TabOK(d) /\ Enrolling(d)
  BY DEF IInv, Enrolling
<1>2. /\ pc'[d] = "idle" /\ \A e \in Devices \ {d} : pc'[e] = pc[e] /\ tab'[e] = tab[e]
      /\ tab' \in [Devices -> Tabs]
      /\ pc' \in [Devices -> {"idle", "offered", "made", "answered", "resolved", "verified"}]
  BY <1>1, DoneOutcome
<1>3. PlainTypes'
  BY <1>1, <1>2 DEF PlainTypes
<1>4. /\ a \in Admins /\ h \in handed /\ made[c] = a /\ c \notin removed
      /\ \A k \in keys : k.cred = c => k.handle = h
      /\ \A e \in Devices \ {d} : pc[e] = "made" => c \notin tab[e].cred
      /\ \A e \in Devices : Enrolling(e) /\ h \in tab[e].handle => tab[e].admin = a
  BY <1>1 DEF TabOK
<1>5. ASSUME NEW o \in InList(list') PROVE OwnerOK(o)'
  <2>1. CASE o \in InList(list)
    BY <2>1 DEF IInv, OwnerOK
  <2>2. CASE /\ o.admin = a /\ o.handle = h
             /\ \A b \in o.creds :
                   b = c \/ \E p \in InList(list) : p.admin = a /\ p.handle = h /\ b \in p.creds
    <3>1. ASSUME NEW b \in o.creds
          PROVE  made[b] = a /\ b \notin removed /\ \A k \in keys : k.cred = b => k.handle = h
      <4>1. CASE b = c
        BY <1>4, <4>1
      <4>2. CASE \E p \in InList(list) : p.admin = a /\ p.handle = h /\ b \in p.creds
        BY <4>2 DEF IInv, OwnerOK
      <4> QED
        BY <2>2, <4>1, <4>2
    <3> QED
      BY <1>4, <2>2, <3>1 DEF OwnerOK
  <2> QED
    BY <2>1, <2>2 DEF Gains
<1>6. ASSUME NEW b \in CredsOf(list') PROVE b = c \/ b \in CredsOf(list)
  BY <1>6 DEF Gains, CredsOf
<1>7. \A e \in Devices : Enrolling(e)' => e # d /\ Enrolling(e) /\ tab'[e] = tab[e]
  BY <1>2 DEF Enrolling
<1>8. \A e \in Devices : pc'[e] = "made" => e # d /\ pc[e] = "made" /\ tab'[e] = tab[e]
  BY <1>2
<1>9. ASSUME NEW f \in Devices PROVE TabOK(f)'
  <2>1. CASE f = d
    BY <1>2, <2>1 DEF TabOK, Enrolling
  <2>2. CASE f # d
    <3>1. pc'[f] = pc[f] /\ tab'[f] = tab[f] /\ TabOK(f)
      BY <1>2, <2>2 DEF IInv
    <3>2. Enrolling(f) =>
            /\ tab[f].admin \in Admins /\ tab[f].handle \subseteq handed /\ 0 < MaxPasskeys
            /\ \A g, i \in tab[f].handle : g = i
            /\ \A o \in InList(list') : o.handle \in tab[f].handle => o.admin = tab[f].admin
            /\ \A e \in Devices :
                  Enrolling(e)' /\ tab'[e].handle \cap tab[f].handle # {} => tab'[e].admin = tab[f].admin
      <4> SUFFICES ASSUME Enrolling(f)
                   PROVE  /\ \A o \in InList(list') : o.handle \in tab[f].handle => o.admin = tab[f].admin
                          /\ \A e \in Devices :
                                Enrolling(e)' /\ tab'[e].handle \cap tab[f].handle # {}
                                   => tab'[e].admin = tab[f].admin
        BY <3>1 DEF TabOK
      <4>1. ASSUME NEW o \in InList(list'), o.handle \in tab[f].handle PROVE o.admin = tab[f].admin
        <5>1. CASE o \in InList(list)
          BY <3>1, <4>1, <5>1 DEF TabOK
        <5>2. CASE o.admin = a /\ o.handle = h
          BY <1>4, <4>1, <5>2
        <5> QED
          BY <5>1, <5>2 DEF Gains
      <4>2. \A e \in Devices :
               Enrolling(e)' /\ tab'[e].handle \cap tab[f].handle # {} => tab'[e].admin = tab[f].admin
        BY <1>7, <3>1 DEF TabOK
      <4> QED
        BY <4>1, <4>2
    <3>3. pc[f] = "made" =>
             \A b \in tab[f].cred :
                /\ made[b] = tab[f].admin /\ b \notin removed \cup CredsOf(list')
                /\ \A k \in keys, i \in tab[f].handle : k.cred = b => k.handle = i
                /\ \A e \in Devices \ {f} : pc'[e] = "made" => b \notin tab'[e].cred
      <4> SUFFICES ASSUME pc[f] = "made", NEW b \in tab[f].cred
                   PROVE  /\ made[b] = tab[f].admin /\ b \notin removed \cup CredsOf(list')
                          /\ \A k \in keys, i \in tab[f].handle : k.cred = b => k.handle = i
                          /\ \A e \in Devices \ {f} : pc'[e] = "made" => b \notin tab'[e].cred
        OBVIOUS
      <4>1. b # c
        BY <1>4, <2>2
      <4>2. b \notin CredsOf(list')
        BY <1>6, <3>1, <4>1 DEF TabOK
      <4> QED
        BY <1>4, <1>8, <3>1, <4>2 DEF TabOK
    <3>4. Enrolling(f)' => Enrolling(f)
      BY <1>7
    <3>5. /\ pc[f] \in {"answered", "resolved"} =>
                tab[f].cred # {} /\ (tab[f].late => tab[f].cred \subseteq removed)
          /\ pc[f] = "verified" =>
                /\ tab[f].admin \in Admins /\ ~tab[f].late
                /\ \A b \in tab[f].cred : made[b] = tab[f].admin
      BY <3>1 DEF TabOK
    <3> QED
      BY <3>1, <3>2, <3>3, <3>4, <3>5 DEF TabOK
  <2> QED
    BY <2>1, <2>2
<1> QED
  BY <1>3, <1>5, <1>9 DEF IInv

(* A step that leaves the store and the rest alone, and at most ends a ceremony. *)
LEMMA Quiet ==
    ASSUME IInv, PlainTypes', UNCHANGED <<store, keys, handed, made, removed>>,
           (file \subseteq admins \/ admins = {})',
           \A d \in Devices : (pc'[d] = pc[d] /\ tab'[d] = tab[d]) \/ pc'[d] = "idle"
    PROVE  IInv'
<1>1. list' = disk' /\ Sound(list') /\ Indexed' /\ list' = list
  BY ListIs DEF store, Indexed, AdminIndex, HandleIndex, CredIndex
<1>2. Fewer(list, list')
  BY <1>1 DEF Fewer
<1>3. removed' \cap CredsOf(list') = {}
  BY <1>1, ListIs DEF CredsOf, OwnerOK
<1> QED
  BY <1>1, <1>2, <1>3, NothingGained

LEMMA FinishStep == ASSUME IInv, NEW d \in Devices, FinishEnrolment(d) PROVE IInv'
<1>1. /\ pc[d] = "made" /\ Done(d)
      /\ UNCHANGED <<file, admins, session, keys, handed, made, removed>>
  BY DEF FinishEnrolment
<1>2. PlainTypes /\ PlainTypes'
      /\ \A e \in Devices : (pc'[e] = pc[e] /\ tab'[e] = tab[e]) \/ pc'[e] = "idle"
  <2>1. PlainTypes
    BY DEF IInv
  <2> QED
    BY <1>1, <2>1, DoneOutcome DEF PlainTypes
<1>3. (file \subseteq admins \/ admins = {})'
  BY <1>1 DEF IInv
<1>4. CASE UNCHANGED store
  BY <1>1, <1>2, <1>3, <1>4, Quiet
<1>5. CASE \E h \in tab[d].handle, c \in tab[d].cred : Add(tab[d].admin, h, c)
  <2>1. PICK h \in tab[d].handle, c \in tab[d].cred : Add(tab[d].admin, h, c)
    BY <1>5
  <2>2. /\ list' = disk' /\ Sound(list') /\ Indexed'
        /\ list' = list \/ Gains(tab[d].admin, h, c, list, list')
    BY <1>1, <2>1, AddOutcome
  <2>3. CASE list' = list
    <3>1. Fewer(list, list') /\ removed' \cap CredsOf(list') = {}
      BY <1>1, <2>3, ListIs DEF Fewer, CredsOf, OwnerOK
    <3> QED
      BY <1>1, <1>2, <1>3, <2>2, <3>1, NothingGained
  <2>4. CASE Gains(tab[d].admin, h, c, list, list')
    BY <1>1, <2>2, <2>4, StoredStep
  <2> QED
    BY <2>2, <2>3, <2>4
<1> QED
  BY <1>4, <1>5 DEF FinishEnrolment


LEMMA AbandonStep == ASSUME IInv, NEW d \in Devices, Abandon(d) PROVE IInv'
<1>1. PlainTypes /\ Done(d) /\ UNCHANGED <<file, admins, store, session, keys, handed, made, removed>>
  BY DEF Abandon, IInv
<1>2. PlainTypes' /\ \A e \in Devices : (pc'[e] = pc[e] /\ tab'[e] = tab[e]) \/ pc'[e] = "idle"
  BY <1>1, DoneOutcome DEF PlainTypes
<1>3. (file \subseteq admins \/ admins = {})'
  BY <1>1 DEF IInv
<1> QED
  BY <1>1, <1>2, <1>3, Quiet

------------------------------------------------------------------------------
(* The steps that take something off the list. *)
LEMMA RemoveOutcome ==
    ASSUME IInv, NEW n \in DOMAIN list, NEW c \in list[n].creds,
           NEW o, o = [admin |-> list[n].admin, handle |-> list[n].handle, creds |-> list[n].creds \ {c}],
           NEW new, (list[n].creds = {c} /\ new = Without(list, n)) \/ Becomes(new, list, n, o)
    PROVE  /\ Sound(new) /\ Fewer(list, new)
           /\ CredsOf(new) = CredsOf(list) \ {c}
<1> DEFINE old == list[n]
<1>1. Sound(list) /\ old \in InList(list) /\ old \in Owner /\ c \in old.creds /\ IsFiniteSet(old.creds)
        /\ Cardinality(old.creds) <= MaxPasskeys
  BY ListIs DEF Sound, IsValid
<1>2. \A p \in InList(list) : c \in p.creds => p = old
  <2> SUFFICES ASSUME NEW p \in InList(list), c \in p.creds PROVE p = old
    OBVIOUS
  <2>1. p.creds \cap old.creds # {}
    BY <1>1
  <2> QED
    BY <1>1, <2>1, OwnersDiffer
<1>3. CASE list[n].creds = {c} /\ new = Without(list, n)
  <2>1. Sound(new) /\ InList(new) = InList(list) \ {old}
    BY <1>1, <1>3, WithoutSound
  <2>2. CredsOf(new) = CredsOf(list) \ {c}
    BY <1>1, <1>2, <1>3, <2>1 DEF CredsOf
  <2> QED
    BY <2>1, <2>2 DEF Fewer
<1>4. CASE Becomes(new, list, n, o)
  <2>1. o \in Owner /\ o.admin = old.admin /\ o.handle = old.handle /\ o.creds = old.creds \ {c}
    BY <1>1 DEF Owner
  <2>4. IsFiniteSet(o.creds) /\ Cardinality(o.creds) <= MaxPasskeys
    <3> DEFINE E == old.creds
    <3>1. IsFiniteSet(E) /\ Cardinality(E) <= MaxPasskeys /\ c \in E /\ o.creds = E \ {c}
      BY <1>1, <2>1
    <3> HIDE DEF E
    <3>2. IsFiniteSet(E \ {c}) /\ Cardinality(E \ {c}) = Cardinality(E) - 1 /\ Cardinality(E) \in Nat
      BY <3>1, FS_RemoveElement, FS_CardinalityType
    <3>3. Cardinality(E \ {c}) <= MaxPasskeys
      BY <3>1, <3>2
    <3> QED
      BY <3>1, <3>2, <3>3
  <2>5. \A p \in InList(list) : p.creds \cap o.creds # {} => p = old
    <3> SUFFICES ASSUME NEW p \in InList(list), p.creds \cap o.creds # {} PROVE p = old
      OBVIOUS
    <3>1. p.creds \cap old.creds # {}
      BY <2>1
    <3> QED
      BY <1>1, <3>1, OwnersDiffer
  <2>6. Fits(o, list, n)
    BY <1>1, <2>1, <2>4, <2>5 DEF Fits
  <2>7. Sound(new) /\ InList(new) = (InList(list) \ {old}) \cup {o}
    BY <1>4, <2>6, ReplaceSound
  <2>8. Fewer(list, new)
    BY <1>1, <2>1, <2>7 DEF Fewer
  <2>9. CredsOf(new) = CredsOf(list) \ {c}
    <3>1. \A b \in CredsOf(new) : b \in CredsOf(list) /\ b # c
      <4> SUFFICES ASSUME NEW p \in InList(new), NEW b \in p.creds PROVE b \in CredsOf(list) /\ b # c
        BY DEF CredsOf
      <4>1. CASE p \in InList(list) /\ p # old
        BY <1>2, <4>1 DEF CredsOf
      <4>2. CASE p = o
        BY <1>1, <2>1, <4>2 DEF CredsOf
      <4> QED
        BY <2>7, <4>1, <4>2
    <3>2. ASSUME NEW b \in CredsOf(list), b # c PROVE b \in CredsOf(new)
      <4>1. PICK p \in InList(list) : b \in p.creds
        BY <3>2 DEF CredsOf
      <4>2. CASE p = old
        BY <2>1, <2>7, <3>2, <4>1, <4>2 DEF CredsOf
      <4>3. CASE p # old
        BY <2>7, <4>1, <4>3 DEF CredsOf
      <4> QED
        BY <4>2, <4>3
    <3> QED
      BY <3>1, <3>2
  <2> QED
    BY <2>7, <2>8, <2>9
<1> QED
  BY <1>3, <1>4

(* What an acknowledged removal, or one that fails, leaves. *)
LEMMA Removal ==
    ASSUME IInv, NEW d \in Devices, Remove(d)
    PROVE  /\ list' = disk' /\ Sound(list') /\ Indexed' /\ Fewer(list, list')
           /\ removed \subseteq removed' /\ removed' \subseteq removed \cup CredsOf(list)
           /\ removed' \cap CredsOf(list') = {}
           /\ CredsOf(list) \ CredsOf(list') \subseteq removed'
<1> DEFINE n == byAdminID[session[d]]
           Left(c) == IF list[n].creds = {c} THEN Without(list, n) ELSE [list EXCEPT ![n].creds = @ \ {c}]
<1>1. PICK c \in ListOf(session[d]) :
         Commit(Left(c)) /\ removed' = IF list' = Left(c) THEN removed \cup {c} ELSE removed
  BY DEF Remove
<1>2. Sound(list) /\ Indexed
  BY ListIs
<1>3. n \in DOMAIN list /\ c \in list[n].creds /\ c \in CredsOf(list)
  <2>1. session[d] \in DOMAIN byAdminID
    BY <1>1, <1>2, CredsFound
  <2>2. n \in DOMAIN list /\ c \in list[n].creds
    BY <1>1, <1>2, <2>1, AdminFinds, CredsFound
  <2> QED
    BY <2>2, ListIs DEF CredsOf
<1> DEFINE new == Left(c)
<1>4. Sound(new) /\ Fewer(list, new) /\ CredsOf(new) = CredsOf(list) \ {c}
  <2> DEFINE o == [admin |-> list[n].admin, handle |-> list[n].handle, creds |-> list[n].creds \ {c}]
  <2>1. list \in Seq(Owner) /\ list[n] \in Owner
    BY <1>2, <1>3, ListIs DEF Sound
  <2>2. CASE list[n].creds = {c}
    <3>1. new = Without(list, n)
      BY <2>2
    <3> HIDE DEF n, new, Left, o
    <3>2. o = [admin |-> list[n].admin, handle |-> list[n].handle, creds |-> list[n].creds \ {c}]
      BY DEF o
    <3> QED
      BY <1>3, <2>2, <3>1, <3>2, RemoveOutcome
  <2>3. CASE list[n].creds # {c}
    <3> DEFINE mine == [list EXCEPT ![n] = o]
    <3>1. new = mine
      <4> DEFINE e == list[n]
      <4>1. e \in Owner
        BY <2>1
      <4>2. [e EXCEPT !.creds = e.creds \ {c}] = [admin |-> e.admin, handle |-> e.handle, creds |-> e.creds \ {c}]
        <5> HIDE DEF e
        <5> QED
          BY <4>1 DEF Owner
      <4> QED
        BY <2>3, <4>2
    <3>2. o \in Owner
      BY <2>1 DEF Owner
    <3>3. Becomes(mine, list, n, o)
      <4> HIDE DEF o, n
      <4> QED
        BY <1>3, <2>1, <3>2, ExceptSeq DEF Becomes
    <3> HIDE DEF n, new, Left, o, mine
    <3>4. o = [admin |-> list[n].admin, handle |-> list[n].handle, creds |-> list[n].creds \ {c}]
      BY DEF o
    <3> QED
      BY <1>3, <3>1, <3>3, <3>4, RemoveOutcome
  <2> QED
    BY <2>2, <2>3
<1>5. Commit(new) /\ removed' = IF list' = new THEN removed \cup {c} ELSE removed
  BY <1>1
<1> HIDE DEF new, Left, n
<1>6. list' = disk' /\ Sound(list') /\ Indexed' /\ list' \in {new, list}
  BY <1>4, <1>5, Committed
<1>7. removed \cap CredsOf(list) = {}
  BY ListIs DEF CredsOf, OwnerOK
<1>8. CASE list' = new
  BY <1>3, <1>4, <1>5, <1>6, <1>7, <1>8
<1>9. CASE list' # new
  <2>1. list' = list /\ removed' = removed
    BY <1>5, <1>6, <1>9
  <2>2. Fewer(list, list')
    BY <2>1 DEF Fewer
  <2> QED
    BY <1>6, <1>7, <2>1, <2>2
<1> QED
  BY <1>8, <1>9

LEMMA RemoveStep == ASSUME IInv, NEW d \in Devices, Remove(d) PROVE IInv'
<1>1. UNCHANGED <<file, admins, session, pc, tab, keys, handed, made>>
  BY DEF Remove
<1>2. /\ list' = disk' /\ Sound(list') /\ Indexed' /\ Fewer(list, list')
      /\ removed \subseteq removed' /\ removed' \subseteq removed \cup CredsOf(list)
      /\ removed' \cap CredsOf(list') = {}
  BY Removal
<1>3. CredsOf(list) \subseteq Creds
  BY ListIs DEF CredsOf
<1>4. PlainTypes'
  BY <1>1, <1>2, <1>3 DEF IInv, PlainTypes
<1>5. (file \subseteq admins \/ admins = {})'
  BY <1>1 DEF IInv
<1> QED
  BY <1>1, <1>2, <1>4, <1>5, NothingGained

(* Pruning. *)
LEMMA Pruned ==
    ASSUME IInv, NEW as, NEW new, new = Living(list, as)
    PROVE  /\ Sound(new) /\ Fewer(list, new) /\ removed \cap CredsOf(new) = {}
           /\ \A o \in InList(list) : o.admin \in as => o.creds \subseteq CredsOf(new)
<1>1. Sound(new) /\ InList(new) = {o \in InList(list) : o.admin \in as}
  BY ListIs, LivingOutcome
<1>2. Fewer(list, new)
  BY <1>1 DEF Fewer
<1>3. ASSUME NEW c \in CredsOf(new) PROVE c \notin removed
  <2>1. PICK o \in InList(new) : c \in o.creds
    BY <1>3 DEF CredsOf
  <2> QED
    BY <1>1, <2>1, ListIs DEF OwnerOK
<1> QED
  BY <1>1, <1>2, <1>3 DEF CredsOf

LEMMA Same ==
    ASSUME IInv
    PROVE  Fewer(list, list) /\ removed \cap CredsOf(list) = {}
BY ListIs DEF Fewer, CredsOf, OwnerOK

LEMMA ListPageStep == ASSUME IInv, NEW d \in Devices, ListPage(d) PROVE IInv'
<1> DEFINE new == Living(list, admins)
<1>1. Commit(new) /\ UNCHANGED <<file, admins, session, pc, tab, keys, handed, made, removed>>
  BY DEF ListPage
<1>2. Sound(new) /\ Fewer(list, new) /\ removed \cap CredsOf(new) = {}
  BY Pruned
<1>3. list' = disk' /\ Sound(list') /\ Indexed' /\ list' \in {new, list}
  BY <1>1, <1>2, Committed
<1>4. Fewer(list, list') /\ removed' \cap CredsOf(list') = {}
  BY <1>1, <1>2, <1>3, Same
<1>5. PlainTypes' /\ (file \subseteq admins \/ admins = {})'
  BY <1>1 DEF IInv, PlainTypes
<1> QED
  BY <1>1, <1>3, <1>4, <1>5, NothingGained

LEMMA RestartStep == ASSUME IInv, RestartPanel PROVE IInv'
<1>1. /\ admins' \in {file, {}} /\ UNCHANGED <<file, session, keys, handed, made, removed>>
      /\ pc' = [d \in Devices |-> "idle"] /\ tab' = [d \in Devices |-> NoTab]
  BY DEF RestartPanel, Loaded
<1>2. PICK kept \in {list, Living(list, admins')} : list' = kept /\ Reindex(kept) /\ disk' = kept
  BY ListIs DEF RestartPanel
<1>3. Sound(kept) /\ Fewer(list, kept) /\ removed \cap CredsOf(kept) = {}
  <2>1. CASE kept = list
    BY <2>1, Same, ListIs
  <2>2. CASE kept = Living(list, admins')
    BY <2>2, Pruned
  <2> QED
    BY <2>1, <2>2
<1>4. Indexed' /\ list' = disk' /\ Sound(list') /\ Fewer(list, list') /\ removed' \cap CredsOf(list') = {}
  BY <1>1, <1>2, <1>3, Reindexed
<1>5. NoTab \in Tabs
  BY DEF NoTab, Tabs
<1>6. PlainTypes' /\ (file \subseteq admins \/ admins = {})'
  BY <1>1, <1>5 DEF IInv, PlainTypes
<1>7. \A d \in Devices : pc'[d] = "idle"
  BY <1>1
<1> QED
  BY <1>1, <1>4, <1>6, <1>7, NothingGained

------------------------------------------------------------------------------
(* The steps of a sign-in. *)
LEMMA AnsweredTab ==
    ASSUME NEW h \in Handles, NEW c \in Creds, NEW b \in BOOLEAN
    PROVE  /\ [NoTab EXCEPT !.handle = {h}, !.cred = {c}, !.late = b] \in Tabs
           /\ [NoTab EXCEPT !.handle = {h}, !.cred = {c}, !.late = b].cred = {c}
           /\ [NoTab EXCEPT !.handle = {h}, !.cred = {c}, !.late = b].late = b
BY DEF NoTab, Tabs

LEMMA AnswerStep == ASSUME IInv, NEW d \in Devices, AnswerLogin(d) PROVE IInv'
<1>1. UNCHANGED <<file, admins, store, session, keys, handed, made, removed>>
  BY DEF AnswerLogin
<1>2. PICK h \in Handles, c \in Creds :
         Carry(d, [NoTab EXCEPT !.handle = {h}, !.cred = {c}, !.late = c \in removed], "answered")
  BY DEF AnswerLogin, IInv, PlainTypes, Key
<1> DEFINE t == [NoTab EXCEPT !.handle = {h}, !.cred = {c}, !.late = c \in removed]
<1>3. PlainTypes
  BY DEF IInv
<1>4. t \in Tabs /\ t.cred = {c} /\ (t.late => c \in removed)
  <2>1. (c \in removed) \in BOOLEAN
    OBVIOUS
  <2>2. t \in Tabs
    BY <2>1, AnsweredTab, Zenon
  <2>3. t.cred = {c}
    BY <2>1, AnsweredTab, Zenon
  <2>4. t.late = (c \in removed)
    BY <2>1, AnsweredTab, Zenon
  <2> HIDE DEF t
  <2> QED
    BY <2>2, <2>3, <2>4
<1>5. Carry(d, t, "answered")
  BY <1>2
<1> HIDE DEF t
<1>6. /\ pc'[d] = "answered" /\ tab'[d] = t
      /\ \A e \in Devices \ {d} : pc'[e] = pc[e] /\ tab'[e] = tab[e]
      /\ tab' \in [Devices -> Tabs]
      /\ pc' \in [Devices -> {"idle", "offered", "made", "answered", "resolved", "verified"}]
  BY <1>3, <1>4, <1>5, CarryOutcome
<1>7. PlainTypes' /\ handed \subseteq handed'
  BY <1>1, <1>3, <1>6 DEF PlainTypes
<1>8. TabOK(d)' /\ ~Enrolling(d)' /\ pc'[d] # "made"
  BY <1>1, <1>4, <1>6 DEF TabOK, Enrolling
<1> QED
  BY <1>1, <1>6, <1>7, <1>8, OneCeremony

LEMMA EndedStep ==
    ASSUME IInv, NEW d \in Devices, Done(d), UNCHANGED <<file, admins, store, session, keys, handed, made, removed>>
    PROVE  IInv'
<1>1. PlainTypes' /\ \A e \in Devices : (pc'[e] = pc[e] /\ tab'[e] = tab[e]) \/ pc'[e] = "idle"
  BY DoneOutcome DEF PlainTypes, IInv
<1>2. (file \subseteq admins \/ admins = {})'
  BY DEF IInv
<1> QED
  BY <1>1, <1>2, Quiet

LEMMA ResolveStep == ASSUME IInv, NEW d \in Devices, ResolveOwner(d) PROVE IInv'
<1>1. pc[d] = "answered" /\ UNCHANGED <<file, admins, store, session, keys, handed, made, removed>>
  BY DEF ResolveOwner
<1>2. CASE Done(d)
  BY <1>1, <1>2, EndedStep
<1>3. CASE \E h \in tab[d].handle : \E o \in ByHandle(h) :
              Carry(d, [tab[d] EXCEPT !.admin = o.admin, !.creds = o.creds], "resolved")
  <2>1. PICK h \in tab[d].handle : \E o \in ByHandle(h) :
              Carry(d, [tab[d] EXCEPT !.admin = o.admin, !.creds = o.creds], "resolved")
    BY <1>3
  <2>2. PICK o \in ByHandle(h) : Carry(d, [tab[d] EXCEPT !.admin = o.admin, !.creds = o.creds], "resolved")
    BY <2>1
  <2> DEFINE t == [tab[d] EXCEPT !.admin = o.admin, !.creds = o.creds]
  <2>3. PlainTypes /\ TabOK(d) /\ o \in InList(list)
    BY ListIs, HandleFinds DEF IInv
  <2>4. tab[d] \in Tabs /\ o.admin \in Admins /\ o.creds \subseteq Creds
    BY <2>3, ListIs DEF PlainTypes
  <2>5. t \in Tabs /\ t.cred = tab[d].cred /\ t.late = tab[d].late
    BY <2>4 DEF Tabs
  <2>6. Carry(d, t, "resolved")
    BY <2>2
  <2> HIDE DEF t
  <2>7. /\ pc'[d] = "resolved" /\ tab'[d] = t
        /\ \A e \in Devices \ {d} : pc'[e] = pc[e] /\ tab'[e] = tab[e]
        /\ tab' \in [Devices -> Tabs]
        /\ pc' \in [Devices -> {"idle", "offered", "made", "answered", "resolved", "verified"}]
    BY <2>3, <2>5, <2>6, CarryOutcome
  <2>8. PlainTypes' /\ handed \subseteq handed'
    BY <1>1, <2>3, <2>7 DEF PlainTypes
  <2>9. TabOK(d)' /\ ~Enrolling(d)' /\ pc'[d] # "made"
    BY <1>1, <2>3, <2>5, <2>7 DEF TabOK, Enrolling
  <2> QED
    BY <1>1, <2>7, <2>8, <2>9, OneCeremony
<1> QED
  BY <1>2, <1>3 DEF ResolveOwner

LEMMA VerifyStep == ASSUME IInv, NEW d \in Devices, Verify(d) PROVE IInv'
<1>1. pc[d] = "resolved" /\ UNCHANGED <<file, admins, store, session, keys, handed, made, removed>>
  BY DEF Verify
<1>2. CASE Done(d)
  BY <1>1, <1>2, EndedStep
<1>3. CASE /\ tab[d].admin \in admins /\ tab[d].cred \subseteq tab[d].creds \cap ListOf(tab[d].admin)
           /\ Carry(d, [tab[d] EXCEPT !.creds = {}, !.handle = {}], "verified")
  <2> DEFINE t == [tab[d] EXCEPT !.creds = {}, !.handle = {}]
             a == tab[d].admin
  <2>1. PlainTypes /\ TabOK(d) /\ tab[d] \in Tabs /\ a \in Admins
    BY <1>3 DEF IInv, PlainTypes
  <2>2. \A c \in tab[d].cred : made[c] = a /\ c \notin removed
    BY <1>3, ListIs, CredsFound DEF OwnerOK
  <2>3. ~tab[d].late
    BY <1>1, <2>1, <2>2 DEF TabOK
  <2>4. t \in Tabs /\ t.admin = a /\ t.cred = tab[d].cred /\ t.late = tab[d].late
    BY <2>1 DEF Tabs
  <2>5. Carry(d, t, "verified")
    BY <1>3
  <2> HIDE DEF t
  <2>6. /\ pc'[d] = "verified" /\ tab'[d] = t
        /\ \A e \in Devices \ {d} : pc'[e] = pc[e] /\ tab'[e] = tab[e]
        /\ tab' \in [Devices -> Tabs]
        /\ pc' \in [Devices -> {"idle", "offered", "made", "answered", "resolved", "verified"}]
    BY <2>1, <2>4, <2>5, CarryOutcome
  <2>7. PlainTypes' /\ handed \subseteq handed'
    BY <1>1, <2>1, <2>6 DEF PlainTypes
  <2>8. TabOK(d)' /\ ~Enrolling(d)' /\ pc'[d] # "made"
    BY <1>1, <2>1, <2>2, <2>3, <2>4, <2>6 DEF TabOK, Enrolling
  <2> QED
    BY <1>1, <2>6, <2>7, <2>8, OneCeremony
<1> QED
  BY <1>2, <1>3 DEF Verify

LEMMA IssueStep == ASSUME IInv, NEW d \in Devices, IssueSession(d) PROVE IInv'
<1>1. /\ pc[d] = "verified" /\ Done(d) /\ session' = [session EXCEPT ![d] = tab[d].admin]
      /\ UNCHANGED <<file, admins, store, keys, handed, made, removed>>
  BY DEF IssueSession
<1>2. PlainTypes /\ tab[d].admin \in Admins
  BY <1>1 DEF IInv, TabOK
<1>3. PlainTypes' /\ \A e \in Devices : (pc'[e] = pc[e] /\ tab'[e] = tab[e]) \/ pc'[e] = "idle"
  BY <1>1, <1>2, DoneOutcome DEF PlainTypes
<1>4. (file \subseteq admins \/ admins = {})'
  BY <1>1 DEF IInv
<1> QED
  BY <1>1, <1>3, <1>4, Quiet

------------------------------------------------------------------------------
(* The rest: passwords, and what the panel and the shell do to the administrators. *)
LEMMA OtherSteps ==
    ASSUME IInv, \/ \E d \in Devices : PasswordLogin(d) \/ AccountPage(d)
                 \/ ReloadAdmins \/ RemoveAdmin
    PROVE  IInv'
<1>1. UNCHANGED <<store, pc, tab, keys, handed, made, removed>>
  BY DEF PasswordLogin, AccountPage, ReloadAdmins, RemoveAdmin
<1>2. PlainTypes
  BY DEF IInv
<1>3. /\ file' \subseteq Admins /\ admins' \subseteq Admins
      /\ session' \in [Devices -> Admins \cup {Nobody}]
      /\ file' \subseteq admins' \/ admins' = {}
  <2>1. ASSUME NEW d \in Devices, PasswordLogin(d)
        PROVE  /\ file' = file /\ admins' = admins /\ session' \in [Devices -> Admins \cup {Nobody}]
    BY <1>2, <2>1 DEF PasswordLogin, PlainTypes
  <2>2. ASSUME NEW d \in Devices, AccountPage(d)
        PROVE  file' = file /\ admins' \in {file, {}} /\ session' = session
    BY <2>2 DEF AccountPage, Loaded
  <2>3. ASSUME ReloadAdmins PROVE file' = file /\ admins' = file /\ session' = session
    BY <2>3 DEF ReloadAdmins
  <2>4. ASSUME RemoveAdmin PROVE file' \subseteq file /\ admins' = admins /\ session' = session
    BY <2>4 DEF RemoveAdmin
  <2>5. file \subseteq admins \/ admins = {}
    BY DEF IInv
  <2> QED
    BY <1>2, <2>1, <2>2, <2>3, <2>4, <2>5 DEF PlainTypes
<1>4. PlainTypes'
  BY <1>1, <1>2, <1>3 DEF PlainTypes
<1> QED
  BY <1>1, <1>3, <1>4, Quiet

LEMMA Stutter == ASSUME IInv, UNCHANGED vars PROVE IInv'
<1>1. UNCHANGED <<file, admins, store, session, pc, tab, keys, handed, made, removed>>
  BY DEF vars
<1>2. PlainTypes' /\ (file \subseteq admins \/ admins = {})'
  BY <1>1 DEF IInv, PlainTypes
<1> QED
  BY <1>1, <1>2, Quiet

LEMMA Preserved == IInv /\ [Next]_vars => IInv'
<1> SUFFICES ASSUME IInv, [Next]_vars PROVE IInv'
  OBVIOUS
<1>1. ASSUME NEW d \in Devices, Enrolment(d) PROVE IInv'
  BY <1>1, BeginStep, MakeStep, FinishStep DEF Enrolment
<1>2. ASSUME NEW d \in Devices, Login(d) PROVE IInv'
  BY <1>2, AnswerStep, ResolveStep, VerifyStep, IssueStep DEF Login
<1>3. ASSUME NEW d \in Devices, Abandon(d) \/ Remove(d) \/ ListPage(d) PROVE IInv'
  BY <1>3, AbandonStep, RemoveStep, ListPageStep
<1>4. ASSUME NEW d \in Devices, PasswordLogin(d) \/ AccountPage(d) PROVE IInv'
  BY <1>4, OtherSteps
<1>5. CASE ReloadAdmins \/ RemoveAdmin
  BY <1>5, OtherSteps
<1>6. CASE RestartPanel
  BY <1>6, RestartStep
<1>7. CASE UNCHANGED vars
  BY <1>7, Stutter
<1> QED
  BY <1>1, <1>2, <1>3, <1>4, <1>5, <1>6, <1>7 DEF Next

------------------------------------------------------------------------------
(* The strengthening the properties below are read off, of any number of
   administrators, devices, handles and credentials. *)
THEOREM IInvCorrect == Spec => []IInv
<1>1. Init => IInv
  BY Initial
<1>2. IInv /\ [Next]_vars => IInv'
  BY Preserved
<1> QED
  BY <1>1, <1>2, PTL DEF Spec

LEMMA TypesHold == IInv => TypeOK
<1> SUFFICES ASSUME IInv PROVE TypeOK
  OBVIOUS
<1>1. PlainTypes /\ list \in Seq(Owner) /\ disk \in Seq(Owner) /\ Indexed
  BY DEF IInv, Sound
<1>2. byAdminID \in [{o.admin : o \in InList(list)} -> DOMAIN list]
  <2> SUFFICES ASSUME NEW a \in {o.admin : o \in InList(list)}
               PROVE  (CHOOSE n \in DOMAIN list : list[n].admin = a) \in DOMAIN list
    BY <1>1 DEF Indexed, AdminIndex
  <2>1. \E n \in DOMAIN list : list[n].admin = a
    BY DEF InList
  <2> QED
    BY <2>1
<1>3. byHandle \in [{o.handle : o \in InList(list)} -> DOMAIN list]
  <2> SUFFICES ASSUME NEW h \in {o.handle : o \in InList(list)}
               PROVE  (CHOOSE n \in DOMAIN list : list[n].handle = h) \in DOMAIN list
    BY <1>1 DEF Indexed, HandleIndex
  <2>1. \E n \in DOMAIN list : list[n].handle = h
    BY DEF InList
  <2> QED
    BY <2>1
<1>4. byCredID \in [CredsOf(list) -> DOMAIN list]
  <2> SUFFICES ASSUME NEW c \in CredsOf(list)
               PROVE  (CHOOSE n \in DOMAIN list : c \in list[n].creds) \in DOMAIN list
    BY <1>1 DEF Indexed, CredIndex
  <2>1. \E n \in DOMAIN list : c \in list[n].creds
    BY DEF CredsOf, InList
  <2> QED
    BY <2>1
<1> QED
  BY <1>1, <1>2, <1>3, <1>4 DEF PlainTypes, TypeOK

(* The three maps, whatever has happened to the list, are total on what it holds
   and lead to places in it (reindexLocked). *)
THEOREM TypeCorrect == Spec => []TypeOK
BY IInvCorrect, TypesHold, PTL

(* passkeys.json is what the panel holds, and the next start accepts it. *)
THEOREM FileAlwaysLoads == Spec => []FileLoads
<1>1. IInv => FileLoads
  BY DEF IInv, Sound, FileLoads
<1> QED
  BY <1>1, IInvCorrect, PTL

(* A credential the panel accepted is found by the handle its authenticator
   stored, and stands among its owner's. *)
THEOREM KeysAlwaysWork == Spec => []EveryKeyWorks
<1>1. IInv => EveryKeyWorks
  <2> SUFFICES ASSUME IInv, NEW k \in keys, NEW o \in InList(list), k.cred \in o.creds
               PROVE  ByHandle(k.handle) = {o} /\ k.cred \in ListOf(o.admin)
    BY DEF EveryKeyWorks
  <2>1. Sound(list) /\ Indexed /\ k.handle = o.handle
    BY ListIs DEF OwnerOK
  <2>2. ByHandle(k.handle) = {p \in InList(list) : p.handle = k.handle}
    BY <2>1, HandleFinds
  <2>3. \A p \in InList(list) : p.handle = k.handle => p = o
    BY <2>1, OwnersDiffer
  <2> QED
    BY <2>1, <2>2, <2>3, CredsFound
<1> QED
  BY <1>1, IInvCorrect, PTL

(* A passkey belongs to, and signs in, whoever began its enrolment. *)
THEOREM KeysStayTheirMakers == Spec => []KeysAreTheirMakers
<1>1. IInv => KeysAreTheirMakers
  BY DEF IInv, OwnerOK, TabOK, KeysAreTheirMakers
<1> QED
  BY <1>1, IInvCorrect, PTL

(* A passkey removed before the browser answered signs nobody in. *)
THEOREM RemovedKeysAlwaysOut == Spec => []RemovedKeysStayOut
<1>1. IInv => RemovedKeysStayOut
  BY DEF IInv, TabOK, RemovedKeysStayOut
<1> QED
  BY <1>1, IInvCorrect, PTL

------------------------------------------------------------------------------
Spares ==
    \A o \in InList(list) : \A c \in o.creds \ CredsOf(list') :
        c \in removed' \/ o.admin \notin file \/ admins' = {}

LEMMA KeptIsSpared == ASSUME CredsOf(list) \subseteq CredsOf(list') PROVE Spares
BY DEF Spares, CredsOf

LEMMA StepSpares == ASSUME IInv, [Next]_vars PROVE Spares
<1>1. ASSUME NEW d \in Devices, FinishEnrolment(d) PROVE Spares
  <2>1. CASE list' = list
    BY <2>1, KeptIsSpared
  <2>2. CASE list' # list
    <3>1. PICK h \in tab[d].handle, c \in tab[d].cred : pc[d] = "made" /\ Add(tab[d].admin, h, c)
      BY <1>1, <2>2 DEF FinishEnrolment, store
    <3>2. Gains(tab[d].admin, h, c, list, list')
      BY <2>2, <3>1, AddOutcome
    <3> QED
      BY <3>2, KeptIsSpared DEF Gains
  <2> QED
    BY <2>1, <2>2
<1>2. ASSUME NEW d \in Devices, Remove(d) PROVE Spares
  <2>1. CredsOf(list) \ CredsOf(list') \subseteq removed'
    BY <1>2, Removal
  <2> QED
    BY <2>1 DEF Spares, CredsOf
<1>3. ASSUME NEW d \in Devices, ListPage(d) PROVE Spares
  <2>1. admins' = admins /\ Commit(Living(list, admins))
    BY <1>3 DEF ListPage
  <2>2. Sound(Living(list, admins))
          /\ \A o \in InList(list) : o.admin \in admins => o.creds \subseteq CredsOf(Living(list, admins))
    BY Pruned
  <2>3. list' = list \/ list' = Living(list, admins)
    BY <2>1, <2>2, Committed
  <2>4. file \subseteq admins \/ admins = {}
    BY DEF IInv
  <2>5. CASE list' = list
    BY <2>5, KeptIsSpared
  <2>6. CASE list' = Living(list, admins)
    BY <2>1, <2>2, <2>4, <2>6 DEF Spares
  <2> QED
    BY <2>3, <2>5, <2>6
<1>4. ASSUME RestartPanel PROVE Spares
  <2>1. admins' \in {file, {}} /\ (list' = list \/ list' = Living(list, admins'))
    BY <1>4, ListIs DEF RestartPanel, Loaded
  <2>2. CASE list' = list
    BY <2>2, KeptIsSpared
  <2>3. CASE list' = Living(list, admins')
    <3>1. \A o \in InList(list) : o.admin \in admins' => o.creds \subseteq CredsOf(Living(list, admins'))
      BY Pruned
    <3> QED
      BY <2>1, <2>3, <3>1 DEF Spares
  <2> QED
    BY <2>1, <2>2, <2>3
<1>5. CASE list' = list
  BY <1>5, KeptIsSpared
<1>6. ASSUME NEW d \in Devices,
             \/ BeginEnrolment(d) \/ MakeKey(d) \/ Login(d) \/ Abandon(d)
             \/ PasswordLogin(d) \/ AccountPage(d)
      PROVE  list' = list
  BY <1>6 DEF BeginEnrolment, MakeKey, Login, AnswerLogin, ResolveOwner, Verify, IssueSession,
              Abandon, PasswordLogin, AccountPage, store
<1>7. CASE ReloadAdmins \/ RemoveAdmin \/ UNCHANGED vars
  BY <1>5, <1>7 DEF ReloadAdmins, RemoveAdmin, vars, store
<1> QED
  BY <1>1, <1>2, <1>3, <1>4, <1>5, <1>6, <1>7 DEF Next, Enrolment

(* Pruning, at the account page and at the start, costs nobody a passkey whom
   admins.json still has - but for the panel that has read a missing admins.json
   as an empty list. *)
THEOREM PruningSparesTheLiving == Spec => PruneSparesTheLiving
<1>1. IInv /\ [Next]_vars =>
        [\A o \in InList(list) : \A c \in o.creds \ CredsOf(list') :
            c \in removed' \/ o.admin \notin file \/ admins' = {}]_vars
  BY StepSpares DEF Spares
<1> QED
  BY <1>1, IInvCorrect, PTL DEF Spec, PruneSparesTheLiving

==============================================================================
