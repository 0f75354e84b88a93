-------------------------- MODULE SubscribersProofs --------------------------
(***************************************************************************)
(* Theorems about Subscribers, for any number of ids, tokens, accounts and *)
(* entries, and any number of hand edits.                                  *)
(***************************************************************************)
EXTENDS Subscribers, SequenceTheorems, FiniteSetTheorems, TLAPS

(* A list the next start accepts, of links that are all among some. *)
Sound(l, links) ==
    /\ l \in Seq(Subscriber) /\ IsValid(l)
    /\ \A s \in InList(l) : IsFiniteSet(s.entries)
    /\ TokensOf(l) \subseteq links

(* The two maps of a list. *)
IDIndex(l) == [i \in IdsOf(l) |-> CHOOSE n \in DOMAIN l : l[n].id = i]
TokenIndex(l) == [k \in TokensOf(l) |-> (CHOOSE s \in InList(l) : s.token = k).id]

Indexed == byID = IDIndex(list) /\ byToken = TokenIndex(list)

(* What the stamp says of the file, wherever the mutator is. *)
StampInv ==
    /\ stamp \in Nat /\ version \in Nat \ {0} /\ stamp <= version
    /\ ~raced =>
          /\ pc = "idle" /\ stamp = version => status = "list" /\ list = file
          /\ pc = "renaming" =>
                /\ status = "missing" \/ stamp = version
                /\ stamp = version => status = "list" /\ undo = file
          /\ pc = "stamping" => status # "bad" /\ list = file

ShutInv ==
    /\ shut \subseteq minted
    /\ shut \cap OpenTokens(list) = {} /\ shut \cap OpenTokens(file) = {}
    /\ pc = "renaming" => shut \cap OpenTokens(undo) = {}

IInv ==
    /\ status \in {"list", "missing", "bad"}
    /\ pc \in {"idle", "renaming", "stamping"}
    /\ raced \in BOOLEAN /\ minted \subseteq Tokens
    /\ \A l \in {list, file, undo} : Sound(l, minted)
    /\ Indexed /\ StampInv /\ ShutInv

USE SubscribersAssumption

LEMMA EmptySound ==
    ASSUME NEW links PROVE Sound(<<>>, links) /\ OpenTokens(<<>>) = {}
<1>1. <<>> \in Seq(Subscriber) /\ DOMAIN <<>> = {}
  OBVIOUS
<1> QED
  BY <1>1 DEF Sound, IsValid, InList, TokensOf, OpenTokens

LEMMA InvInit == Init => IInv
<1> SUFFICES ASSUME Init PROVE IInv
  OBVIOUS
<1>1. DOMAIN <<>> = {}
  OBVIOUS
<1>2. Sound(<<>>, minted)
  BY EmptySound
<1>3. IDIndex(<<>>) = <<>> /\ TokenIndex(<<>>) = <<>>
  BY <1>1 DEF IDIndex, TokenIndex, IdsOf, TokensOf, InList
<1>4. Indexed
  BY <1>3 DEF Init, Indexed
<1>5. \A l \in {list, file, undo} : Sound(l, minted)
  BY <1>2 DEF Init
<1>6. StampInv /\ ShutInv
  BY DEF Init, StampInv, ShutInv
<1> QED
  BY <1>4, <1>5, <1>6 DEF Init, IInv

------------------------------------------------------------------------------
(* What the edits make of a list.  Everything is said of positions: each of the
   new list stands where one of the old list stood. *)
LEMMA InListIs ==
    ASSUME NEW l \in Seq(Subscriber)
    PROVE  /\ DOMAIN l = 1..Len(l) /\ Len(l) \in Nat
           /\ \A n \in DOMAIN l : l[n] \in Subscriber /\ l[n] \in InList(l)
BY LenProperties, ElementOfSeq DEF InList

LEMMA SoundFrom ==
    ASSUME NEW l, NEW links, Sound(l, links), NEW new \in Seq(Subscriber),
           NEW from \in [DOMAIN new -> DOMAIN l],
           \A m, n \in DOMAIN new : from[m] = from[n] => m = n,
           \A m \in DOMAIN new :
              /\ new[m].id = l[from[m]].id /\ new[m].token = l[from[m]].token
              /\ EntriesValid(new[m].entries) /\ IsFiniteSet(new[m].entries)
    PROVE  Sound(new, links)
<1>1. IsValid(new)
  <2>1. ASSUME NEW m \in DOMAIN new, NEW n \in DOMAIN new, new[m].id = new[n].id \/ new[m].token = new[n].token
        PROVE  m = n
    <3>1. l[from[m]].id = l[from[n]].id \/ l[from[m]].token = l[from[n]].token
      BY <2>1
    <3>2. from[m] = from[n]
      BY <3>1 DEF Sound, IsValid
    <3> QED
      BY <3>2
  <2> QED
    BY <2>1 DEF IsValid, InList
<1>2. TokensOf(new) \subseteq links
  BY DEF Sound, TokensOf, InList
<1> QED
  BY <1>1, <1>2 DEF Sound, InList

LEMMA EntriesSound ==
    ASSUME NEW l, NEW links, Sound(l, links), NEW n \in DOMAIN l
    PROVE  EntriesValid(l[n].entries) /\ IsFiniteSet(l[n].entries)
BY DEF Sound, IsValid, InList

LEMMA WithoutOutcome ==
    ASSUME NEW l \in Seq(Subscriber), NEW n \in DOMAIN l
    PROVE  /\ Without(l, n) \in Seq(Subscriber)
           /\ DOMAIN Without(l, n) = 1..(Len(l) - 1)
           /\ \A m \in 1..(Len(l) - 1) : Without(l, n)[m] = IF m < n THEN l[m] ELSE l[m + 1]
<1> DEFINE a == SubSeq(l, 1, n - 1)
           b == SubSeq(l, n + 1, Len(l))
<1>1. n \in 1..Len(l) /\ Len(l) \in Nat /\ \A m \in 1..Len(l) : l[m] \in Subscriber
  BY InListIs
<1>2. a \in Seq(Subscriber) /\ Len(a) = n - 1 /\ \A m \in 1..(n - 1) : a[m] = l[m]
  <2>1. \A m \in 1..(n - 1) : l[m] \in Subscriber
    BY <1>1
  <2> QED
    BY <1>1, <2>1, SubSeqProperties
<1>3. b \in Seq(Subscriber) /\ Len(b) = Len(l) - n /\ \A m \in 1..(Len(l) - n) : b[m] = l[n + m]
  <2>1. \A m \in (n + 1)..Len(l) : l[m] \in Subscriber
    BY <1>1
  <2>2. /\ b \in Seq(Subscriber)
        /\ Len(b) = IF n + 1 <= Len(l) THEN Len(l) - (n + 1) + 1 ELSE 0
        /\ \A m \in 1 .. Len(l) - (n + 1) + 1 : b[m] = l[(n + 1) + m - 1]
    BY <1>1, <2>1, SubSeqProperties
  <2> QED
    BY <1>1, <2>2
<1> HIDE DEF a, b
<1>4. /\ a \o b \in Seq(Subscriber) /\ Len(a \o b) = Len(l) - 1
      /\ \A m \in 1..(Len(l) - 1) : (a \o b)[m] = IF m <= n - 1 THEN a[m] ELSE b[m - (n - 1)]
  <2>1. /\ a \o b \in Seq(Subscriber) /\ Len(a \o b) = Len(a) + Len(b)
        /\ \A m \in 1..(Len(a) + Len(b)) : (a \o b)[m] = IF m <= Len(a) THEN a[m] ELSE b[m - Len(a)]
    BY <1>2, <1>3, ConcatProperties
  <2>2. Len(a) + Len(b) = Len(l) - 1
    BY <1>1, <1>2, <1>3
  <2> QED
    BY <1>2, <2>1, <2>2
<1>5. DOMAIN (a \o b) = 1..(Len(l) - 1)
  BY <1>4, InListIs
<1>6. ASSUME NEW m \in 1..(Len(l) - 1) PROVE (a \o b)[m] = IF m < n THEN l[m] ELSE l[m + 1]
  <2>1. CASE m < n
    <3>1. m \in 1..(n - 1) /\ m <= n - 1
      BY <1>1, <2>1
    <3> QED
      BY <1>2, <1>4, <2>1, <3>1
  <2>2. CASE ~(m < n)
    <3>1. m - (n - 1) \in 1..(Len(l) - n) /\ ~(m <= n - 1) /\ n + (m - (n - 1)) = m + 1
      BY <1>1, <2>2
    <3> QED
      BY <1>3, <1>4, <2>2, <3>1
  <2> QED
    BY <2>1, <2>2
<1> QED
  BY <1>4, <1>5, <1>6 DEF a, b, Without

LEMMA WithoutSound ==
    ASSUME NEW l, NEW links, Sound(l, links), NEW n \in DOMAIN l
    PROVE  Sound(Without(l, n), links) /\ OpenTokens(Without(l, n)) \subseteq OpenTokens(l)
<1> DEFINE new == Without(l, n)
           from == [m \in DOMAIN new |-> IF m < n THEN m ELSE m + 1]
<1>1. l \in Seq(Subscriber) /\ DOMAIN l = 1..Len(l) /\ Len(l) \in Nat
  BY InListIs DEF Sound
<1>2. /\ new \in Seq(Subscriber) /\ DOMAIN new = 1..(Len(l) - 1)
      /\ \A m \in 1..(Len(l) - 1) : new[m] = IF m < n THEN l[m] ELSE l[m + 1]
  BY <1>1, WithoutOutcome
<1> HIDE DEF new
<1>3. from \in [DOMAIN new -> DOMAIN l] /\ \A m \in DOMAIN new : new[m] = l[from[m]]
  BY <1>1, <1>2
<1>4. \A m, k \in DOMAIN new : from[m] = from[k] => m = k
  BY <1>1, <1>2
<1> HIDE DEF from
<1>5. \A m \in DOMAIN new : /\ new[m].id = l[from[m]].id /\ new[m].token = l[from[m]].token
                            /\ EntriesValid(new[m].entries) /\ IsFiniteSet(new[m].entries)
  BY <1>3, EntriesSound
<1>6. Sound(new, links)
  <2>1. new \in Seq(Subscriber) /\ from \in [DOMAIN new -> DOMAIN l]
    BY <1>2, <1>3
  <2> QED
    BY <1>4, <1>5, <2>1, SoundFrom
<1>7. OpenTokens(new) \subseteq OpenTokens(l)
  BY <1>3 DEF OpenTokens, InList
<1> QED
  BY <1>6, <1>7 DEF new

(* A subscriber becomes another with the same id and link. *)
LEMMA ReplaceSound ==
    ASSUME NEW l, NEW links, Sound(l, links), NEW n \in DOMAIN l, NEW s \in Subscriber,
           s.id = l[n].id, s.token = l[n].token, EntriesValid(s.entries), IsFiniteSet(s.entries)
    PROVE  /\ Sound([l EXCEPT ![n] = s], links)
           /\ OpenTokens([l EXCEPT ![n] = s]) \subseteq
                 OpenTokens(l) \cup (IF s.disabled THEN {} ELSE {s.token})
<1> DEFINE new == [l EXCEPT ![n] = s]
           from == [m \in DOMAIN new |-> m]
<1>1. l \in Seq(Subscriber) /\ DOMAIN l = 1..Len(l) /\ Len(l) \in Nat
  BY InListIs DEF Sound
<1>2. /\ new \in Seq(Subscriber) /\ DOMAIN new = DOMAIN l
      /\ \A m \in DOMAIN l : new[m] = IF m = n THEN s ELSE l[m]
  BY <1>1, ExceptSeq
<1> HIDE DEF new
<1>3. from \in [DOMAIN new -> DOMAIN l] /\ \A m \in DOMAIN new : from[m] = m
  BY <1>2
<1> HIDE DEF from
<1>4. \A m \in DOMAIN new : /\ new[m].id = l[from[m]].id /\ new[m].token = l[from[m]].token
                            /\ EntriesValid(new[m].entries) /\ IsFiniteSet(new[m].entries)
  BY <1>2, <1>3, EntriesSound
<1>5. Sound(new, links)
  BY <1>2, <1>3, <1>4, SoundFrom
<1>6. OpenTokens(new) \subseteq OpenTokens(l) \cup (IF s.disabled THEN {} ELSE {s.token})
  BY <1>2 DEF OpenTokens, InList
<1> QED
  BY <1>5, <1>6 DEF new

(* A new subscriber, with an id and a link nobody has. *)
LEMMA AppendSound ==
    ASSUME NEW l, NEW links, Sound(l, links), NEW i \in Ids \ IdsOf(l), NEW k \in Tokens \ links
    PROVE  LET new == Append(l, [id |-> i, token |-> k, disabled |-> FALSE, entries |-> {}])
           IN  Sound(new, links \cup {k}) /\ OpenTokens(new) \subseteq OpenTokens(l) \cup {k}
                 /\ k \in TokensOf(new) /\ TokensOf(new) \subseteq links \cup {k}
<1> DEFINE s == [id |-> i, token |-> k, disabled |-> FALSE, entries |-> {}]
           new == Append(l, s)
<1>1. l \in Seq(Subscriber) /\ DOMAIN l = 1..Len(l) /\ Len(l) \in Nat
  BY InListIs DEF Sound
<1>2. s \in Subscriber /\ s.id = i /\ s.token = k /\ s.entries = {}
  BY DEF Subscriber
<1> HIDE DEF s
<1>3. /\ new \in Seq(Subscriber) /\ DOMAIN new = 1..(Len(l) + 1)
      /\ \A m \in DOMAIN l : new[m] = l[m]
      /\ new[Len(l) + 1] = s
  <2>1. new \in Seq(Subscriber) /\ Len(new) = Len(l) + 1
          /\ (\A m \in 1..Len(l) : new[m] = l[m]) /\ new[Len(l) + 1] = s
    BY <1>1, <1>2, AppendProperties
  <2> QED
    BY <1>1, <2>1, InListIs
<1> HIDE DEF new
<1>4. \A m \in DOMAIN new : (m \in DOMAIN l /\ new[m] = l[m]) \/ (m = Len(l) + 1 /\ new[m] = s)
  BY <1>1, <1>3
<1>5. \A m \in DOMAIN l : l[m].id # i /\ l[m].token # k
  BY DEF Sound, IdsOf, TokensOf, InList
<1>6. EntriesValid({}) /\ IsFiniteSet({})
  BY FS_EmptySet DEF EntriesValid
<1>7. InList(new) = InList(l) \cup {s}
  BY <1>1, <1>3, <1>4 DEF InList
<1>8. \A m, n \in DOMAIN new : (new[m].id = new[n].id \/ new[m].token = new[n].token) => m = n
  BY <1>2, <1>4, <1>5 DEF Sound, IsValid
<1>9. IsValid(new)
  BY <1>2, <1>6, <1>7, <1>8 DEF Sound, IsValid
<1>10. TokensOf(new) = TokensOf(l) \cup {k} /\ OpenTokens(new) \subseteq OpenTokens(l) \cup {k}
  BY <1>2, <1>7 DEF TokensOf, OpenTokens
<1> QED
  BY <1>2, <1>3, <1>6, <1>7, <1>9, <1>10 DEF Sound, new, s

(* One more entry, for an account and with an id none of the others has. *)
LEMMA EntryAdded ==
    ASSUME NEW es, EntriesValid(es), IsFiniteSet(es), Cardinality(es) < MaxEntries, NEW e,
           \A f \in es : f.account # e.account /\ f.id # e.id
    PROVE  EntriesValid(es \cup {e}) /\ IsFiniteSet(es \cup {e})
<1>1. Cardinality(es) \in Nat /\ e \notin es
  BY FS_CardinalityType
<1>2. IsFiniteSet(es \cup {e}) /\ Cardinality(es \cup {e}) = Cardinality(es) + 1
  BY <1>1, FS_AddElement
<1>3. Cardinality(es \cup {e}) <= MaxEntries
  BY <1>1, <1>2
<1> QED
  BY <1>2, <1>3 DEF EntriesValid

LEMMA EntryRemoved ==
    ASSUME NEW es, EntriesValid(es), IsFiniteSet(es), NEW e \in es
    PROVE  /\ EntriesValid(es \ {e}) /\ IsFiniteSet(es \ {e})
           /\ Cardinality(es \ {e}) < MaxEntries
<1>1. IsFiniteSet(es \ {e}) /\ Cardinality(es \ {e}) = Cardinality(es) - 1
  BY FS_RemoveElement
<1>2. Cardinality(es) \in Nat /\ Cardinality(es \ {e}) \in Nat
  BY <1>1, FS_CardinalityType
<1>3. Cardinality(es \ {e}) < MaxEntries
  BY <1>1, <1>2 DEF EntriesValid
<1> QED
  BY <1>1, <1>2, <1>3 DEF EntriesValid

------------------------------------------------------------------------------
(* The maps of a list lead to the subscriber they are asked for. *)
LEMMA IndexFinds ==
    ASSUME NEW l, NEW i \in IdsOf(l)
    PROVE  IDIndex(l)[i] \in DOMAIN l /\ l[IDIndex(l)[i]].id = i
<1>1. \E n \in DOMAIN l : l[n].id = i
  BY DEF IdsOf, InList
<1> QED
  BY <1>1 DEF IDIndex

LEMMA TokenFinds ==
    ASSUME NEW l, NEW links, Sound(l, links), NEW n \in DOMAIN l
    PROVE  l[n].token \in TokensOf(l) /\ TokenIndex(l)[l[n].token] = l[n].id
             /\ l[n].id \in IdsOf(l) /\ IDIndex(l)[l[n].id] = n
<1>1. l[n] \in InList(l) /\ l[n].token \in TokensOf(l) /\ l[n].id \in IdsOf(l)
  BY DEF InList, TokensOf, IdsOf
<1>2. \A s \in InList(l) : s.token = l[n].token => s = l[n]
  BY DEF Sound, IsValid, InList
<1>3. (CHOOSE s \in InList(l) : s.token = l[n].token) = l[n]
  BY <1>1, <1>2
<1>4. TokenIndex(l)[l[n].token] = l[n].id
  BY <1>1, <1>3 DEF TokenIndex
<1>5. IDIndex(l)[l[n].id] \in DOMAIN l /\ l[IDIndex(l)[l[n].id]].id = l[n].id
  BY <1>1, IndexFinds
<1>6. IDIndex(l)[l[n].id] = n
  BY <1>5 DEF Sound, IsValid
<1> QED
  BY <1>1, <1>4, <1>6

(* What a mutator finds under an id. *)
LEMMA MutatorFinds ==
    ASSUME IInv, NEW i \in DOMAIN byID
    PROVE  /\ i \in IdsOf(list) /\ byID[i] \in DOMAIN list /\ list[byID[i]] \in Subscriber
           /\ list[byID[i]].token \in TokensOf(list)
           /\ EntriesValid(list[byID[i]].entries) /\ IsFiniteSet(list[byID[i]].entries)
<1>1. i \in IdsOf(list) /\ byID = IDIndex(list) /\ Sound(list, minted)
  BY DEF IInv, Indexed, IDIndex
<1>2. byID[i] \in DOMAIN list
  BY <1>1, IndexFinds
<1>3. list[byID[i]] \in Subscriber /\ list[byID[i]].token \in TokensOf(list)
  BY <1>1, <1>2, InListIs DEF Sound, TokensOf
<1> QED
  BY <1>1, <1>2, <1>3, EntriesSound

------------------------------------------------------------------------------
LEMMA SoundGrows ==
    ASSUME NEW l, NEW links, NEW more, Sound(l, links), links \subseteq more
    PROVE  Sound(l, more)
BY DEF Sound

(* Whatever a mutator has made of the list, if it is sound and opens no closed
   link, the panel goes on as it should. *)
LEMMA CommitKeeps ==
    ASSUME IInv, NEW new, Commit(new), minted \subseteq minted', minted' \subseteq Tokens,
           list' = new => Sound(new, minted') /\ shut' \cap OpenTokens(new) = {},
           shut' \subseteq shut
    PROVE  IInv'
<1>1. \A l \in {list, file, undo} : Sound(l, minted')
  BY SoundGrows DEF IInv
<1>2. CASE status # "missing" /\ version # stamp
  <2>1. Reindex(list) /\ UNCHANGED <<list, pc, undo, disk, stamp, raced>>
    BY <1>2 DEF Commit
  <2>2. Indexed'
    BY <2>1 DEF Reindex, Indexed, IDIndex, TokenIndex
  <2>3. StampInv' /\ ShutInv'
    BY <2>1 DEF IInv, StampInv, ShutInv, Commit, disk
  <2> QED
    BY <1>1, <2>1, <2>2, <2>3 DEF IInv, disk
<1>3. CASE status = "missing" \/ version = stamp
  <2>1. /\ pc = "idle" /\ pc' = "renaming" /\ undo' = list /\ list' = new /\ Reindex(new)
        /\ UNCHANGED <<disk, stamp, raced>>
    BY <1>3 DEF Commit
  <2>2. Indexed'
    BY <2>1 DEF Reindex, Indexed, IDIndex, TokenIndex
  <2>3. StampInv'
    BY <1>3, <2>1 DEF IInv, StampInv, disk
  <2>4. ShutInv'
    BY <2>1 DEF IInv, ShutInv, disk
  <2>5. Sound(list', minted') /\ Sound(file', minted') /\ Sound(undo', minted')
    BY <1>1, <2>1 DEF disk
  <2> QED
    BY <2>1, <2>2, <2>3, <2>4, <2>5 DEF IInv, disk
<1> QED
  BY <1>2, <1>3

(* A mutator that leaves the subscriber's id, link and switch alone. *)
LEMMA MutateEntriesKeeps ==
    ASSUME IInv, NEW i \in DOMAIN byID, NEW es \in SUBSET Entry,
           EntriesValid(es), IsFiniteSet(es), MutateEntries(i, es)
    PROVE  IInv'
<1> DEFINE n == byID[i]
           s == [list[n] EXCEPT !.entries = es]
<1>1. n \in DOMAIN list /\ list[n] \in Subscriber
  BY MutatorFinds
<1> HIDE DEF n
<1>2. /\ s \in Subscriber /\ s.id = list[n].id /\ s.token = list[n].token
      /\ s.disabled = list[n].disabled /\ s.entries = es
  BY <1>1 DEF Subscriber
<1> HIDE DEF s
<1>3. /\ Sound([list EXCEPT ![n] = s], minted)
      /\ OpenTokens([list EXCEPT ![n] = s]) \subseteq
            OpenTokens(list) \cup (IF s.disabled THEN {} ELSE {s.token})
  BY <1>1, <1>2, ReplaceSound DEF IInv
<1>4. ~s.disabled => s.token \in OpenTokens(list)
  BY <1>1, <1>2 DEF OpenTokens, InList
<1>5. shut \cap OpenTokens([list EXCEPT ![n] = s]) = {}
  BY <1>3, <1>4 DEF IInv, ShutInv
<1>6. Commit([list EXCEPT ![n] = s]) /\ UNCHANGED <<minted, shut>>
  BY DEF MutateEntries, Mutate, n, s
<1> QED
  BY <1>3, <1>5, <1>6, CommitKeeps DEF IInv

LEMMA CreateKeeps == ASSUME IInv, Create PROVE IInv'
<1>1. PICK i \in Ids \ DOMAIN byID, k \in Tokens \ minted :
        /\ Commit(Append(list, [id |-> i, token |-> k, disabled |-> FALSE, entries |-> {}]))
        /\ minted' = minted \cup TokensOf(list')
        /\ UNCHANGED shut
  BY DEF Create
<1> DEFINE new == Append(list, [id |-> i, token |-> k, disabled |-> FALSE, entries |-> {}])
<1>2. i \in Ids \ IdsOf(list)
  BY DEF IInv, Indexed, IDIndex
<1>3. /\ Sound(new, minted \cup {k}) /\ OpenTokens(new) \subseteq OpenTokens(list) \cup {k}
      /\ k \in TokensOf(new) /\ TokensOf(new) \subseteq minted \cup {k}
  BY <1>2, AppendSound DEF IInv
<1>4. Commit(new)
  BY <1>1
<1> HIDE DEF new
<1>5. list' = new \/ list' = list
  BY <1>4 DEF Commit
<1>6. minted \subseteq minted' /\ minted' \subseteq Tokens
  BY <1>1, <1>3, <1>5 DEF IInv, Sound
<1>7. list' = new => minted' = minted \cup {k}
  BY <1>1, <1>3
<1>8. shut' \cap OpenTokens(new) = {}
  BY <1>1, <1>3 DEF IInv, ShutInv
<1> QED
  BY <1>1, <1>3, <1>4, <1>6, <1>7, <1>8, CommitKeeps

LEMMA UpdateKeeps == ASSUME IInv, Update PROVE IInv'
<1>1. PICK i \in DOMAIN byID, off \in BOOLEAN :
        /\ Mutate(i, [list[byID[i]] EXCEPT !.disabled = off])
        /\ shut' = IF off THEN shut ELSE shut \ {list[byID[i]].token}
  BY DEF Update
<1> DEFINE n == byID[i]
           s == [list[n] EXCEPT !.disabled = off]
<1>2. n \in DOMAIN list /\ list[n] \in Subscriber
        /\ EntriesValid(list[n].entries) /\ IsFiniteSet(list[n].entries)
  BY MutatorFinds
<1>c. Commit([list EXCEPT ![n] = s]) /\ minted' = minted
        /\ shut' = IF off THEN shut ELSE shut \ {list[n].token}
  BY <1>1 DEF Mutate
<1> HIDE DEF n
<1>3. /\ s \in Subscriber /\ s.id = list[n].id /\ s.token = list[n].token
      /\ s.disabled = off /\ s.entries = list[n].entries
  BY <1>2 DEF Subscriber
<1> HIDE DEF s
<1>4. /\ Sound([list EXCEPT ![n] = s], minted)
      /\ OpenTokens([list EXCEPT ![n] = s]) \subseteq
            OpenTokens(list) \cup (IF s.disabled THEN {} ELSE {s.token})
  BY <1>2, <1>3, ReplaceSound DEF IInv
<1>5. shut' \cap OpenTokens([list EXCEPT ![n] = s]) = {}
  BY <1>3, <1>4, <1>c DEF IInv, ShutInv
<1> QED
  BY <1>4, <1>5, <1>c, CommitKeeps DEF IInv

LEMMA DeleteKeeps == ASSUME IInv, Delete PROVE IInv'
<1>1. PICK i \in DOMAIN byID : Commit(Without(list, byID[i])) /\ UNCHANGED <<minted, shut>>
  BY DEF Delete
<1>2. byID[i] \in DOMAIN list
  BY MutatorFinds
<1>3. Sound(Without(list, byID[i]), minted) /\ OpenTokens(Without(list, byID[i])) \subseteq OpenTokens(list)
  BY <1>2, WithoutSound DEF IInv
<1> QED
  BY <1>1, <1>3, CommitKeeps DEF IInv, ShutInv

LEMMA EntriesKeep == ASSUME IInv, Attach \/ UpdateEntry \/ Detach PROVE IInv'
<1>1. CASE Attach
  <2>1. PICK i \in DOMAIN byID, e \in Entry :
          /\ Cardinality(list[byID[i]].entries) < MaxEntries
          /\ \A f \in list[byID[i]].entries : f.account # e.account /\ f.id # e.id
          /\ MutateEntries(i, list[byID[i]].entries \cup {e})
    BY <1>1 DEF Attach
  <2>2. list[byID[i]].entries \cup {e} \in SUBSET Entry
    BY MutatorFinds DEF Subscriber
  <2> QED
    BY <2>1, <2>2, MutatorFinds, EntryAdded, MutateEntriesKeeps
<1>2. CASE UpdateEntry
  <2>i. PICK i \in DOMAIN byID, label \in Labels :
          \E e \in list[byID[i]].entries :
             MutateEntries(i, (list[byID[i]].entries \ {e}) \cup {[e EXCEPT !.label = label]})
    BY <1>2 DEF UpdateEntry
  <2>1. PICK e \in list[byID[i]].entries :
          MutateEntries(i, (list[byID[i]].entries \ {e}) \cup {[e EXCEPT !.label = label]})
    BY <2>i
  <2> DEFINE es == list[byID[i]].entries
             f == [e EXCEPT !.label = label]
  <2>2. es \subseteq Entry /\ EntriesValid(es) /\ IsFiniteSet(es)
    BY MutatorFinds DEF Subscriber
  <2>3. f \in Entry /\ f.id = e.id /\ f.account = e.account
    BY <2>2 DEF Entry
  <2>c. MutateEntries(i, (es \ {e}) \cup {f})
    BY <2>1
  <2> HIDE DEF es, f
  <2>e. e \in es
    BY DEF es
  <2>4. \A g \in es \ {e} : g.account # f.account /\ g.id # f.id
    BY <2>2, <2>3, <2>e DEF EntriesValid
  <2>5. EntriesValid(es \ {e}) /\ IsFiniteSet(es \ {e}) /\ Cardinality(es \ {e}) < MaxEntries
    BY <2>2, <2>e, EntryRemoved
  <2>6. EntriesValid((es \ {e}) \cup {f}) /\ IsFiniteSet((es \ {e}) \cup {f})
    BY <2>4, <2>5, EntryAdded
  <2>7. (es \ {e}) \cup {f} \in SUBSET Entry
    BY <2>2, <2>3
  <2> QED
    BY <2>6, <2>7, <2>c, MutateEntriesKeeps
<1>3. CASE Detach
  <2>i. PICK i \in DOMAIN byID :
          \E e \in list[byID[i]].entries : MutateEntries(i, list[byID[i]].entries \ {e})
    BY <1>3 DEF Detach
  <2>1. PICK e \in list[byID[i]].entries : MutateEntries(i, list[byID[i]].entries \ {e})
    BY <2>i
  <2>2. list[byID[i]].entries \ {e} \in SUBSET Entry
    BY MutatorFinds DEF Subscriber
  <2> QED
    BY <2>1, <2>2, MutatorFinds, EntryRemoved, MutateEntriesKeeps
<1> QED
  BY <1>1, <1>2, <1>3

------------------------------------------------------------------------------
(* The rest of a save, and its failure. *)
LEMMA RenameKeeps == ASSUME IInv, Rename PROVE IInv'
<1>1. /\ pc = "renaming" /\ status' = "list" /\ file' = list /\ version' = version + 1
      /\ shut' = shut \cup (TokensOf(undo) \ OpenTokens(list))
      /\ pc' = "stamping" /\ UNCHANGED <<memory, undo, minted, raced>>
  BY DEF Rename, WriteFile
<1>2. TokensOf(undo) \subseteq minted
  BY DEF IInv, Sound
<1>3. ShutInv'
  BY <1>1, <1>2 DEF IInv, ShutInv, memory
<1>4. StampInv'
  BY <1>1 DEF IInv, StampInv, memory
<1>5. Sound(list, minted)' /\ Sound(file, minted)' /\ Sound(undo, minted)'
  BY <1>1 DEF IInv, memory, Sound
<1> QED
  BY <1>1, <1>3, <1>4, <1>5 DEF IInv, Indexed, memory

LEMMA SaveFailsKeeps == ASSUME IInv, SaveFails PROVE IInv'
<1>1. /\ pc = "renaming" /\ list' = undo /\ Reindex(undo) /\ pc' = "idle" /\ undo' = <<>>
      /\ UNCHANGED <<disk, stamp, minted, shut, raced>>
  BY DEF SaveFails
<1>2. Sound(<<>>, minted)
  BY EmptySound
<1>3. Sound(list', minted) /\ Sound(file', minted) /\ Sound(undo', minted)
  BY <1>1, <1>2 DEF IInv, disk
<1>4. StampInv' /\ ShutInv'
  BY <1>1 DEF IInv, StampInv, ShutInv, disk
<1>5. Indexed'
  BY <1>1 DEF Reindex, Indexed, IDIndex, TokenIndex
<1> QED
  BY <1>1, <1>3, <1>4, <1>5 DEF IInv, disk

LEMMA RestampKeeps == ASSUME IInv, Restamp PROVE IInv'
<1>1. /\ pc = "stamping" /\ stamp' = StatNow /\ pc' = "idle" /\ undo' = <<>>
      /\ UNCHANGED <<disk, list, byID, byToken, minted, shut, raced>>
  BY DEF Restamp
<1>2. Sound(<<>>, minted)
  BY EmptySound
<1>3. Sound(list', minted) /\ Sound(file', minted) /\ Sound(undo', minted)
  BY <1>1, <1>2 DEF IInv, disk
<1>4. StampInv' /\ ShutInv'
  BY <1>1 DEF IInv, StampInv, ShutInv, disk, StatNow
<1> QED
  BY <1>1, <1>3, <1>4 DEF IInv, Indexed, disk

LEMMA RestartPanelKeeps == ASSUME IInv, RestartPanel PROVE IInv'
<1>1. /\ status # "bad" /\ list' = file /\ Reindex(file)
      /\ pc' = "stamping" /\ undo' = <<>> /\ raced' = FALSE
      /\ UNCHANGED <<disk, stamp, minted, shut>>
  BY DEF RestartPanel
<1>2. Sound(<<>>, minted)
  BY EmptySound
<1>3. Sound(list', minted) /\ Sound(file', minted) /\ Sound(undo', minted)
  BY <1>1, <1>2 DEF IInv, disk
<1>4. StampInv' /\ ShutInv'
  BY <1>1 DEF IInv, StampInv, ShutInv, disk
<1>5. Indexed'
  BY <1>1 DEF Reindex, Indexed, IDIndex, TokenIndex
<1> QED
  BY <1>1, <1>3, <1>4, <1>5 DEF IInv, disk

(* An operator who only drops people and flips switches leaves a sound file. *)
LEMMA HandEditSound ==
    ASSUME NEW l, NEW links, Sound(l, links), NEW new \in HandEdits(l)
    PROVE  Sound(new, links)
<1>1. ASSUME NEW n \in DOMAIN l, new = [l EXCEPT ![n].disabled = ~@] PROVE Sound(new, links)
  <2> DEFINE s == [l[n] EXCEPT !.disabled = ~l[n].disabled]
  <2>1. l[n] \in Subscriber /\ EntriesValid(l[n].entries) /\ IsFiniteSet(l[n].entries)
    BY InListIs, EntriesSound DEF Sound
  <2>2. s \in Subscriber /\ s.id = l[n].id /\ s.token = l[n].token /\ s.entries = l[n].entries
    BY <2>1 DEF Subscriber
  <2>3. new = [l EXCEPT ![n] = s]
    BY <1>1
  <2> HIDE DEF s
  <2> QED
    BY <2>1, <2>2, <2>3, ReplaceSound
<1> QED
  BY <1>1, WithoutSound DEF HandEdits

LEMMA OutsideKeeps == ASSUME IInv, Outside PROVE IInv'
<1>1. raced' = (raced \/ pc # "idle") /\ UNCHANGED <<memory, pc, undo, minted>>
  BY DEF Outside
<1> DEFINE Soundly == /\ version' = version + 1 /\ status' \in {"list", "missing", "bad"}
                     /\ shut' \subseteq shut /\ Sound(file', minted)
                     /\ shut' \cap OpenTokens(file') = {}
<1>2. Soundly
  <2>1. ASSUME NEW l \in HandEdits(file), WriteFile("list", l), shut' = shut \ OpenTokens(l)
        PROVE  Soundly
    BY <2>1, HandEditSound DEF WriteFile, IInv
  <2>2. CASE WriteFile("bad", file) /\ UNCHANGED shut
    BY <2>2 DEF WriteFile, IInv, ShutInv
  <2>3. CASE WriteFile("missing", <<>>) /\ UNCHANGED shut
    BY <2>3, EmptySound DEF WriteFile
  <2> QED
    BY <2>1, <2>2, <2>3 DEF Outside
<1>3. Sound(list', minted') /\ Sound(file', minted') /\ Sound(undo', minted')
  BY <1>1, <1>2 DEF IInv, memory
<1>4. StampInv'
  <2>1. /\ stamp' = stamp /\ pc' = pc /\ version' = version + 1
        /\ stamp \in Nat /\ version \in Nat \ {0} /\ stamp <= version
    BY <1>1, <1>2 DEF IInv, StampInv, memory
  <2>2. stamp' # version' /\ version' \in Nat \ {0} /\ stamp' <= version'
    BY <2>1
  <2>3. ~raced' => pc' = "idle"
    BY <1>1, <2>1
  <2> QED
    BY <2>1, <2>2, <2>3 DEF StampInv
<1>5. ShutInv'
  BY <1>1, <1>2 DEF IInv, ShutInv, memory
<1> QED
  BY <1>1, <1>2, <1>3, <1>4, <1>5 DEF IInv, Indexed, memory

LEMMA Steps == IInv /\ [Next]_vars => IInv'
<1> SUFFICES ASSUME IInv, [Next]_vars PROVE IInv'
  OBVIOUS
<1>1. CASE UNCHANGED vars
  BY <1>1 DEF vars, disk, memory, IInv, Indexed, StampInv, ShutInv
<1>2. CASE Mutator
  BY <1>1, <1>2, CreateKeeps, UpdateKeeps, DeleteKeeps, EntriesKeep DEF Mutator, Refused
<1> QED
  BY <1>1, <1>2, RenameKeeps, SaveFailsKeeps, RestampKeeps, RestartPanelKeeps, OutsideKeeps DEF Next

------------------------------------------------------------------------------
(* Lists, maps, stamp and closed links agree as the invariant above says. *)
THEOREM IInvCorrect == Spec => []IInv
BY InvInit, Steps, PTL DEF Spec

(* Every variable keeps its type. *)
THEOREM TypeCorrect == Spec => []TypeOK
<1>1. ASSUME IInv PROVE TypeOK
  <2>1. byID \in [IdsOf(list) -> DOMAIN list]
    BY <1>1, IndexFinds DEF IInv, Indexed, IDIndex
  <2>2. byToken \in [TokensOf(list) -> IdsOf(list)]
    <3>1. ASSUME NEW k \in TokensOf(list) PROVE TokenIndex(list)[k] \in IdsOf(list)
      <4>1. PICK n \in DOMAIN list : list[n].token = k
        BY DEF TokensOf, InList
      <4> QED
        BY <1>1, <4>1, TokenFinds DEF IInv
    <3> QED
      BY <1>1, <3>1 DEF IInv, Indexed, TokenIndex
  <2>3. shut \subseteq Tokens /\ stamp \in Nat /\ version \in Nat
    BY <1>1 DEF IInv, ShutInv, StampInv
  <2> QED
    BY <1>1, <2>1, <2>2, <2>3 DEF IInv, Sound, TypeOK
<1> QED
  BY <1>1, IInvCorrect, PTL

(* A share link opens the subscriber it was minted for, and everybody's does
   (subscribers.go GetByToken, reindexLocked). *)
THEOREM LinksAlwaysFind == Spec => []LinkFindsItsOwner
<1>1. ASSUME IInv, NEW k \in Tokens PROVE GetByToken(k) = {s \in InList(list) : s.token = k}
  <2>1. Sound(list, minted) /\ byID = IDIndex(list) /\ byToken = TokenIndex(list)
          /\ DOMAIN byToken = TokensOf(list)
    BY <1>1 DEF IInv, Indexed, TokenIndex
  <2>2. CASE k \notin TokensOf(list)
    BY <2>1, <2>2 DEF GetByToken, TokensOf
  <2>3. ASSUME NEW n \in DOMAIN list, list[n].token = k
        PROVE  GetByToken(k) = {s \in InList(list) : s.token = k}
    <3>1. k \in TokensOf(list) /\ TokenIndex(list)[k] = list[n].id
            /\ list[n].id \in IdsOf(list) /\ IDIndex(list)[list[n].id] = n
      BY <2>1, <2>3, TokenFinds
    <3>2. PositionOf(byToken[k]) = n
      BY <2>1, <3>1 DEF PositionOf, IDIndex
    <3>3. GetByToken(k) = {list[n]}
      BY <2>1, <3>1, <3>2 DEF GetByToken
    <3>4. \A s \in InList(list) : s.token = k => s = list[n]
      BY <2>1, <2>3 DEF Sound, IsValid, InList
    <3>5. list[n] \in InList(list)
      BY DEF InList
    <3> QED
      BY <2>3, <3>3, <3>4, <3>5
  <2> QED
    BY <2>2, <2>3 DEF TokensOf, InList
<1>2. IInv => LinkFindsItsOwner
  BY <1>1 DEF LinkFindsItsOwner
<1> QED
  BY <1>2, IInvCorrect, PTL

(* No save and no hand edit leaves a file the next start refuses (subscribers.go
   load). *)
THEOREM FileAlwaysLoads == Spec => []FileLoads
<1>1. IInv => FileLoads
  BY DEF IInv, Sound, FileLoads
<1> QED
  BY <1>1, IInvCorrect, PTL

(* What the panel answers from is on disk as long as the stamp says so
   (subscribers.go commitLocked, stampLoadedLocked). *)
THEOREM MemoryAlwaysOnDisk == Spec => []MemoryIsOnDisk
<1>1. IInv => MemoryIsOnDisk
  BY DEF IInv, StampInv, MemoryIsOnDisk
<1> QED
  BY <1>1, IInvCorrect, PTL

(* A link that was closed stays closed until somebody opens it (subscribers.go
   Update, Delete and the rollback of commitLocked). *)
THEOREM ShutLinksAlwaysShut == Spec => []ShutLinksStayShut
<1>1. IInv => ShutLinksStayShut
  BY DEF IInv, ShutInv, ShutLinksStayShut
<1> QED
  BY <1>1, IInvCorrect, PTL

(* A save that nobody's edit raced replaces what the panel last read or wrote
   (subscribers.go saveLocked). *)
THEOREM SavesNeverClobber == Spec => NeverClobbers
<1>1. IInv /\ [Next]_vars => [Rename /\ ~raced => status = "missing" \/ (status = "list" /\ file = undo)]_vars
  BY DEF IInv, StampInv, Rename
<1> QED
  BY <1>1, IInvCorrect, PTL DEF Spec, NeverClobbers
==============================================================================
