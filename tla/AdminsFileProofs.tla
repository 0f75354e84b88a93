-------------------------- MODULE AdminsFileProofs --------------------------
(***************************************************************************)
(* Theorems about AdminsFile, for any number of handlers, commands,        *)
(* usernames and file changes.                                             *)
(***************************************************************************)
EXTENDS AdminsFile, TLAPS

LEMMA StoreOfThread ==
    ASSUME NEW t \in Threads
    PROVE  StoreOf(t) \in Stores
BY DEF Threads, Stores, StoreOf

LEMMA TypeInit == Init => TypeOK
<1> SUFFICES ASSUME Init PROVE TypeOK
  OBVIOUS
<1>1. file \in AL!Lists
  BY InitialFilesAssumption DEF Init
<1>2. StatNow \in Nat
  BY DEF Init, StatNow
<1>3. drawn \subseteq Draws
  BY <1>1 DEF Init, AL!Lists, AL!Admin
<1> QED
  BY <1>1, <1>2, <1>3 DEF Init, TypeOK, Labels, AL!Lists

LEMMA TypeStep == TypeOK /\ [Next]_vars => TypeOK'
<1> SUFFICES ASSUME TypeOK, [Next]_vars PROVE TypeOK'
  OBVIOUS
<1> USE DEF TypeOK, Goto, Labels
<1>b. StatNow \in Nat
  BY DEF StatNow
<1>s. ASSUME NEW t \in Threads, NEW new \in AL!Lists, NEW draws \in SUBSET Draws, Save(t, new, draws)
      PROVE  TypeOK'
  BY <1>s, StoreOfThread DEF Save, StoreOf, Threads
<1>w. ASSUME NEW k \in {"list", "missing", "bad"}, NEW l \in AL!Lists, WriteFile(k, l)
      PROVE  status' = k /\ file' = l /\ version' \in Nat \ {0}
  BY <1>w DEF WriteFile
<1>1. ASSUME NEW t \in Threads, SampleStamp(t) PROVE TypeOK'
  BY <1>1 DEF SampleStamp, Stores
<1>2. ASSUME NEW t \in Threads, StatFile(t) PROVE TypeOK'
  BY <1>2 DEF StatFile
<1>3. ASSUME NEW t \in Threads, ReadFile(t) PROVE TypeOK'
  BY <1>3 DEF ReadFile
<1>4. ASSUME NEW t \in Threads, Swap(t) PROVE TypeOK'
  <2>1. {} \in AL!Lists
    BY DEF AL!Lists
  <2> QED
    BY <1>4, <2>1, <1>b, StoreOfThread DEF Swap
<1>5. ASSUME NEW t \in Threads, Create(t) PROVE TypeOK'
  <2>1. PICK n \in Names, d \in Draws \ drawn :
          Save(t, list[t] \cup {[id |-> d, name |-> n, hash |-> d]}, {d})
    BY <1>5 DEF Create
  <2>2. t \in Stores
    BY <1>5 DEF Create, Stores
  <2>3. list[t] \cup {[id |-> d, name |-> n, hash |-> d]} \in AL!Lists
    BY <2>2 DEF AL!Lists, AL!Admin
  <2> QED
    BY <2>1, <2>3, <1>s
<1>6. ASSUME NEW t \in Threads, SetPassword(t) PROVE TypeOK'
  <2>1. PICK a \in list[StoreOf(t)], d \in Draws \ drawn :
          Save(t, (list[StoreOf(t)] \ {a}) \cup {AL!WithHash(a, d)}, {d})
    BY <1>6 DEF SetPassword
  <2>2. (list[StoreOf(t)] \ {a}) \cup {AL!WithHash(a, d)} \in AL!Lists
    BY StoreOfThread DEF AL!Lists, AL!Admin, AL!WithHash, AL!WithName
  <2> QED
    BY <2>1, <2>2, <1>s
<1>7. ASSUME NEW t \in Threads, SetUsername(t) PROVE TypeOK'
  <2>1. PICK a \in list[StoreOf(t)], n \in Names :
          Save(t, (list[StoreOf(t)] \ {a}) \cup {AL!WithName(a, n)}, {})
    BY <1>7 DEF SetUsername
  <2>2. (list[StoreOf(t)] \ {a}) \cup {AL!WithName(a, n)} \in AL!Lists
    BY StoreOfThread DEF AL!Lists, AL!Admin, AL!WithHash, AL!WithName
  <2> QED
    BY <2>1, <2>2, <1>s
<1>8. ASSUME NEW t \in Threads, Delete(t) PROVE TypeOK'
  <2>1. PICK a \in list[t] : Save(t, list[t] \ {a}, {})
    BY <1>8 DEF Delete
  <2>2. t \in Stores
    BY <1>8 DEF Delete, Stores
  <2>3. list[t] \ {a} \in AL!Lists
    BY <2>2 DEF AL!Lists
  <2> QED
    BY <2>1, <2>3, <1>s
<1>9. ASSUME NEW t \in Threads, GiveUp(t) PROVE TypeOK'
  BY <1>9 DEF GiveUp
<1>10. ASSUME NEW t \in Threads, Rename(t) PROVE TypeOK'
  BY <1>10, <1>w, StoreOfThread DEF Rename
<1>11. ASSUME NEW t \in Threads, SaveFails(t) PROVE TypeOK'
  <2>1. {} \in AL!Lists
    BY DEF AL!Lists
  <2> QED
    BY <1>11, <2>1, StoreOfThread DEF SaveFails
<1>12. ASSUME NEW t \in Threads, Restamp(t) PROVE TypeOK'
  <2>1. {} \in AL!Lists
    BY DEF AL!Lists
  <2> QED
    BY <1>12, <2>1, <1>b, StoreOfThread DEF Restamp
<1>13. ASSUME NEW c \in Commands, KillCommand(c) PROVE TypeOK'
  <2>1. {} \in AL!Lists
    BY DEF AL!Lists
  <2> QED
    BY <1>13, <2>1 DEF KillCommand, Stores, Threads
<1>14. CASE RestartPanel
  <2>1. {} \in AL!Lists
    BY DEF AL!Lists
  <2> QED
    BY <1>14, <2>1, <1>b DEF RestartPanel, Stores, Threads
<1>15. CASE Tamper
  <2>1. {} \in AL!Lists
    BY DEF AL!Lists
  <2> QED
    BY <1>15, <2>1, <1>w, ActorsAssumption DEF Tamper
<1>16. CASE UNCHANGED vars
  BY <1>16 DEF vars
<1> QED
  BY <1>1, <1>2, <1>3, <1>4, <1>5, <1>6, <1>7, <1>8, <1>9, <1>10, <1>11, <1>12, <1>13, <1>14,
     <1>15, <1>16 DEF Next, Refresh, Load, EditStep, Finish

(* Every variable keeps its type, in any interleaving (admins.go Admins). *)
THEOREM TypeCorrect == Spec => []TypeOK
BY TypeInit, TypeStep, PTL DEF Spec

------------------------------------------------------------------------------
(* A list whose ids and usernames are keys, and whose ids are among ids: with
   the ids drawn so far, the next draw is none of them. *)
Known(l, ids) == AL!IsValid(l) /\ \A a \in l : a.id \in ids

(* Who is inside a mutex across steps, and at which labels. *)
MutexInv ==
    /\ \A t \in Threads : pc[t] \in {"renaming", "stamping"} => holder[StoreOf(t)] = t
    /\ \A i \in Stores : holder[i] # NoThread =>
           /\ holder[i] \in Threads
           /\ StoreOf(holder[i]) = i
           /\ pc[holder[i]] \in {"renaming", "stamping"}

KnownInv ==
    /\ Known(file, drawn)
    /\ \A i \in Stores : Known(list[i], drawn)
    /\ \A t \in Threads : Known(buffer[t], drawn) /\ Known(before[t], drawn)

(* What is in memory was in the file, except under a save in progress. *)
PastInv ==
    /\ {} \in past
    /\ file \in past
    /\ \A i \in Stores : holder[i] = NoThread => list[i] \in past
    /\ \A t \in Threads : pc[t] \in {"swapping", "opening"} => buffer[t] \in past
    /\ \A t \in Threads : pc[t] = "renaming" => before[t] \in past
    /\ \A t \in Threads : pc[t] = "stamping" => list[StoreOf(t)] \in past

NobodyGone ==
    /\ status = "list" => file # {}
    /\ \A t \in Threads : pc[t] = "renaming" => list[StoreOf(t)] # {}

IInv == MutexInv /\ KnownInv /\ PastInv /\ NobodyGone

(* Each edit keeps ids and usernames keys, the drawn id being new. *)
LEMMA CreateKnown ==
    ASSUME NEW l \in AL!Lists, Known(l, drawn), NEW n \in Names, NEW d \in Draws \ drawn,
           ~AL!Taken(l, n)
    PROVE  LET new == l \cup {[id |-> d, name |-> n, hash |-> d]}
           IN  /\ AL!IsValid(new)
               /\ \A a \in new : a.id \in drawn \cup {d}
               /\ AL!IsEdit(l, new)
               /\ new # {}
<1> DEFINE new == l \cup {[id |-> d, name |-> n, hash |-> d]}
<1>1. \A a \in l : a.id # d /\ a.name # n
  BY DEF Known, AL!Taken
<1>2. AL!IsValid(new)
  BY <1>1 DEF Known, AL!IsValid
<1>3. \A a \in new : a.id \in drawn \cup {d}
  BY DEF Known
<1>4. new \in AL!Creations(l, d)
  BY <1>1 DEF AL!Creations, AL!Taken
<1> QED
  BY <1>2, <1>3, <1>4 DEF AL!IsEdit, AL!Edits

LEMMA SetPasswordKnown ==
    ASSUME NEW l \in AL!Lists, Known(l, drawn), NEW a \in l, NEW d \in Draws
    PROVE  LET new == (l \ {a}) \cup {AL!WithHash(a, d)}
           IN  /\ AL!IsValid(new)
               /\ \A b \in new : b.id \in drawn
               /\ AL!IsEdit(l, new)
               /\ new # {}
<1> DEFINE new == (l \ {a}) \cup {AL!WithHash(a, d)}
<1>1. AL!WithHash(a, d).id = a.id /\ AL!WithHash(a, d).name = a.name
  BY DEF AL!WithHash
<1>2. AL!IsValid(new) /\ \A b \in new : b.id \in drawn
  BY <1>1 DEF Known, AL!IsValid
<1>3. new \in AL!NewPasswords(l, d)
  BY DEF AL!NewPasswords
<1> QED
  BY <1>2, <1>3 DEF AL!IsEdit, AL!Edits

LEMMA SetUsernameKnown ==
    ASSUME NEW l \in AL!Lists, Known(l, drawn), NEW a \in l, NEW n \in Names,
           ~AL!Taken(l \ {a}, n)
    PROVE  LET new == (l \ {a}) \cup {AL!WithName(a, n)}
           IN  /\ AL!IsValid(new)
               /\ \A b \in new : b.id \in drawn
               /\ AL!IsEdit(l, new)
               /\ new # {}
<1> DEFINE new == (l \ {a}) \cup {AL!WithName(a, n)}
<1>1. AL!WithName(a, n).id = a.id /\ AL!WithName(a, n).name = n
  BY DEF AL!WithName
<1>2. \A b \in l \ {a} : b.name # n
  BY DEF AL!Taken
<1>3. AL!IsValid(new) /\ \A b \in new : b.id \in drawn
  BY <1>1, <1>2 DEF Known, AL!IsValid
<1>4. new \in AL!Renamings(l)
  BY DEF AL!Renamings
<1>5. a.id \in Draws
  BY DEF AL!Lists, AL!Admin
<1> QED
  BY <1>3, <1>4, <1>5 DEF AL!IsEdit, AL!Edits

LEMMA DeleteKnown ==
    ASSUME NEW l \in AL!Lists, Known(l, drawn), NEW a \in l, l # {a}
    PROVE  LET new == l \ {a}
           IN  /\ AL!IsValid(new)
               /\ \A b \in new : b.id \in drawn
               /\ AL!IsEdit(l, new)
               /\ new # {}
<1>1. l \ {a} \in AL!Removals(l)
  BY DEF AL!Removals
<1>2. a.id \in Draws
  BY DEF AL!Lists, AL!Admin
<1> QED
  BY <1>1, <1>2 DEF Known, AL!IsValid, AL!IsEdit, AL!Edits

(* Every edit a thread attempts is one edit of its store's list. *)
LEMMA EditIsSave ==
    ASSUME TypeOK, KnownInv, NEW t \in Threads, EditStep(t)
    PROVE  \E new \in AL!Lists, draws \in SUBSET Draws :
              /\ Save(t, new, draws)
              /\ AL!IsValid(new)
              /\ \A a \in new : a.id \in drawn \cup draws
              /\ AL!IsEdit(list[StoreOf(t)], new)
              /\ new # {}
<1> DEFINE l == list[StoreOf(t)]
<1>1. l \in AL!Lists /\ Known(l, drawn)
  BY StoreOfThread DEF TypeOK, KnownInv
<1>2. CASE Create(t)
  <2>1. l = list[t]
    BY <1>2, ActorsAssumption DEF Create, StoreOf
  <2>2. PICK n \in Names, d \in Draws \ drawn :
          ~AL!Taken(l, n) /\ Save(t, l \cup {[id |-> d, name |-> n, hash |-> d]}, {d})
    BY <1>2, <2>1 DEF Create
  <2>3. l \cup {[id |-> d, name |-> n, hash |-> d]} \in AL!Lists
    BY <1>1 DEF AL!Lists, AL!Admin
  <2> QED
    BY <1>1, <2>2, <2>3, CreateKnown
<1>3. CASE SetPassword(t)
  <2>1. PICK a \in l, d \in Draws \ drawn : Save(t, (l \ {a}) \cup {AL!WithHash(a, d)}, {d})
    BY <1>3 DEF SetPassword
  <2>2. (l \ {a}) \cup {AL!WithHash(a, d)} \in AL!Lists
    BY <1>1 DEF AL!Lists, AL!Admin, AL!WithHash
  <2> QED
    BY <1>1, <2>1, <2>2, SetPasswordKnown
<1>4. CASE SetUsername(t)
  <2>1. PICK a \in l, n \in Names :
          ~AL!Taken(l \ {a}, n) /\ Save(t, (l \ {a}) \cup {AL!WithName(a, n)}, {})
    BY <1>4 DEF SetUsername
  <2>2. (l \ {a}) \cup {AL!WithName(a, n)} \in AL!Lists
    BY <1>1 DEF AL!Lists, AL!Admin, AL!WithName
  <2> QED
    BY <1>1, <2>1, <2>2, SetUsernameKnown
<1>5. CASE Delete(t)
  <2>1. l = list[t]
    BY <1>5, ActorsAssumption DEF Delete, StoreOf
  <2>2. PICK a \in l : l # {a} /\ Save(t, l \ {a}, {})
    BY <1>5, <2>1 DEF Delete
  <2>3. l \ {a} \in AL!Lists
    BY <1>1 DEF AL!Lists
  <2> QED
    BY <1>1, <2>2, <2>3, DeleteKnown
<1> QED
  BY <1>2, <1>3, <1>4, <1>5 DEF EditStep

LEMMA IInvInit == Init => IInv
<1> SUFFICES ASSUME Init PROVE IInv
  OBVIOUS
<1>1. AL!IsValid(file) /\ AL!IsValid({})
  BY InitialFilesAssumption DEF Init, AL!IsValid
<1>2. Known({}, drawn) /\ Known(file, drawn)
  BY <1>1 DEF Known, Init
<1>3. MutexInv
  BY DEF Init, MutexInv
<1>4. KnownInv
  BY <1>2 DEF Init, KnownInv
<1>5. PastInv /\ NobodyGone
  BY DEF Init, PastInv, NobodyGone
<1> QED
  BY <1>3, <1>4, <1>5 DEF IInv

(* The two outcomes of Save: refused by the stat, or on to the rename. *)
LEMMA SaveOutcome ==
    ASSUME TypeOK, NEW t \in Threads, NEW new \in AL!Lists, NEW draws, Save(t, new, draws)
    PROVE  LET i == StoreOf(t) IN
           /\ pc[t] = "ready" /\ holder[i] = NoThread
           /\ pc' \in [Threads -> Labels] /\ \A u \in Threads \ {t} : pc'[u] = pc[u]
           /\ drawn' = drawn \cup draws
           /\ UNCHANGED <<status, file, version, stamp, sampled, buffer, past>>
           /\ \/ /\ pc'[t] = "idle"
                 /\ UNCHANGED <<list, holder, before>>
              \/ /\ status = "missing" \/ version = stamp[i]
                 /\ pc'[t] = "renaming"
                 /\ holder'[i] = t /\ \A j \in Stores \ {i} : holder'[j] = holder[j]
                 /\ before'[t] = list[i] /\ \A u \in Threads \ {t} : before'[u] = before[u]
                 /\ list'[i] = new /\ \A j \in Stores \ {i} : list'[j] = list[j]
<1>1. CASE status # "missing" /\ version # stamp[StoreOf(t)]
  BY <1>1, StoreOfThread DEF Save, Goto, Free, TypeOK, Labels
<1>2. CASE ~(status # "missing" /\ version # stamp[StoreOf(t)])
  BY <1>2, StoreOfThread DEF Save, Goto, Free, TypeOK, Labels
<1> QED
  BY <1>1, <1>2

(* Nobody is at a label inside a mutex that is free. *)
LEMMA FreeIsEmpty ==
    ASSUME TypeOK, MutexInv, NEW t \in Threads, Free(t), NEW u \in Threads, StoreOf(u) = StoreOf(t)
    PROVE  pc[u] \notin {"renaming", "stamping"}
BY ActorsAssumption DEF MutexInv, Free, Threads

LEMMA IInvSave ==
    ASSUME TypeOK, IInv, NEW t \in Threads, NEW new \in AL!Lists, NEW draws \in SUBSET Draws,
           Save(t, new, draws), AL!IsValid(new), \A a \in new : a.id \in drawn \cup draws, new # {}
    PROVE  IInv'
<1> DEFINE i == StoreOf(t)
<1>i. i \in Stores
  BY StoreOfThread
<1>n. NoThread # t
  BY ActorsAssumption DEF Threads
<1>f. \A u \in Threads : StoreOf(u) = i => pc[u] \notin {"renaming", "stamping"}
  BY SaveOutcome, FreeIsEmpty DEF IInv, Free
<1>k. Known(new, drawn') /\ \A l : Known(l, drawn) => Known(l, drawn')
  BY SaveOutcome DEF Known
<1>1. CASE pc'[t] = "idle"
  <2>1. /\ UNCHANGED <<list, holder, before, status, file, version, stamp, sampled, buffer, past>>
        /\ \A u \in Threads \ {t} : pc'[u] = pc[u]
    BY <1>1, SaveOutcome
  <2>2. MutexInv'
    BY <1>1, <2>1, SaveOutcome DEF IInv, MutexInv
  <2>3. KnownInv'
    BY <2>1, <1>k DEF IInv, KnownInv
  <2>4. PastInv'
    BY <1>1, <2>1 DEF IInv, PastInv
  <2>5. NobodyGone'
    BY <1>1, <2>1 DEF IInv, NobodyGone
  <2> QED
    BY <2>2, <2>3, <2>4, <2>5 DEF IInv
<1>2. CASE pc'[t] # "idle"
  <2>1. /\ UNCHANGED <<status, file, version, stamp, sampled, buffer, past>>
        /\ pc'[t] = "renaming" /\ \A u \in Threads \ {t} : pc'[u] = pc[u]
        /\ holder'[i] = t /\ \A j \in Stores \ {i} : holder'[j] = holder[j]
        /\ before'[t] = list[i] /\ \A u \in Threads \ {t} : before'[u] = before[u]
        /\ list'[i] = new /\ \A j \in Stores \ {i} : list'[j] = list[j]
    BY <1>2, SaveOutcome
  <2>2. MutexInv'
    <3>1. ASSUME NEW u \in Threads, pc'[u] \in {"renaming", "stamping"}
          PROVE  holder'[StoreOf(u)] = u
      BY <3>1, <2>1, <1>f, StoreOfThread DEF IInv, MutexInv
    <3>2. ASSUME NEW j \in Stores, holder'[j] # NoThread
          PROVE  holder'[j] \in Threads /\ StoreOf(holder'[j]) = j /\ pc'[holder'[j]] \in {"renaming", "stamping"}
      <4>1. CASE j = i
        BY <4>1, <2>1
      <4>2. CASE j # i
        BY <3>2, <4>2, <2>1 DEF IInv, MutexInv
      <4> QED
        BY <4>1, <4>2
    <3> QED
      BY <3>1, <3>2 DEF MutexInv
  <2>3. KnownInv'
    <3>1. Known(file', drawn')
      BY <2>1, <1>k DEF IInv, KnownInv
    <3>2. \A j \in Stores : Known(list'[j], drawn')
      BY <2>1, <1>k DEF IInv, KnownInv
    <3>3. \A u \in Threads : Known(buffer'[u], drawn') /\ Known(before'[u], drawn')
      BY <2>1, <1>k, <1>i DEF IInv, KnownInv
    <3> QED
      BY <3>1, <3>2, <3>3 DEF KnownInv
  <2>4. PastInv'
    <3>1. list[i] \in past
      BY <1>i, SaveOutcome DEF IInv, PastInv
    <3>2. \A u \in Threads : pc'[u] = "stamping" => StoreOf(u) # i
      BY <2>1, <1>f
    <3> QED
      BY <2>1, <3>1, <3>2, <1>n, <1>i, StoreOfThread DEF IInv, PastInv
  <2>5. NobodyGone'
    BY <2>1, <1>f, StoreOfThread DEF IInv, NobodyGone
  <2> QED
    BY <2>2, <2>3, <2>4, <2>5 DEF IInv
<1> QED
  BY <1>1, <1>2

LEMMA IInvStep == TypeOK /\ IInv /\ [Next]_vars => IInv'
<1> SUFFICES ASSUME TypeOK, IInv, [Next]_vars PROVE IInv'
  OBVIOUS
<1> USE StoreOfThread, ActorsAssumption DEF TypeOK, IInv, Goto, Free
<1>e. Known({}, drawn)
  BY DEF Known, AL!IsValid
<1>1. ASSUME NEW t \in Threads, SampleStamp(t) PROVE IInv'
  <2>1. MutexInv'
    BY <1>1 DEF SampleStamp, MutexInv
  <2>2. KnownInv'
    BY <1>1 DEF SampleStamp, KnownInv
  <2>3. PastInv' /\ NobodyGone'
    BY <1>1 DEF SampleStamp, PastInv, NobodyGone
  <2> QED
    BY <2>1, <2>2, <2>3
<1>2. ASSUME NEW t \in Threads, StatFile(t) PROVE IInv'
  <2>1. MutexInv'
    BY <1>2 DEF StatFile, MutexInv
  <2>2. KnownInv'
    BY <1>2 DEF StatFile, KnownInv
  <2>3. PastInv' /\ NobodyGone'
    BY <1>2 DEF StatFile, PastInv, NobodyGone
  <2> QED
    BY <2>1, <2>2, <2>3
<1>3. ASSUME NEW t \in Threads, ReadFile(t) PROVE IInv'
  <2>1. MutexInv'
    BY <1>3 DEF ReadFile, MutexInv
  <2>2. KnownInv'
    BY <1>3, <1>e DEF ReadFile, KnownInv
  <2>3. PastInv' /\ NobodyGone'
    BY <1>3 DEF ReadFile, PastInv, NobodyGone
  <2> QED
    BY <2>1, <2>2, <2>3
<1>4. ASSUME NEW t \in Threads, Swap(t) PROVE IInv'
  <2>f. \A u \in Threads : StoreOf(u) = StoreOf(t) => pc[u] \notin {"renaming", "stamping"}
    BY <1>4, FreeIsEmpty DEF Swap
  <2>1. MutexInv'
    BY <1>4 DEF Swap, MutexInv
  <2>2. KnownInv'
    BY <1>4, <1>e DEF Swap, KnownInv
  <2>3. PastInv'
    BY <1>4, <2>f DEF Swap, PastInv
  <2>4. NobodyGone'
    BY <1>4, <2>f DEF Swap, NobodyGone
  <2> QED
    BY <2>1, <2>2, <2>3, <2>4
<1>5. ASSUME NEW t \in Threads, EditStep(t) PROVE IInv'
  BY <1>5, EditIsSave, IInvSave
<1>6. ASSUME NEW t \in Threads, GiveUp(t) PROVE IInv'
  <2>1. MutexInv'
    BY <1>6 DEF GiveUp, MutexInv
  <2>2. KnownInv'
    BY <1>6 DEF GiveUp, KnownInv
  <2>3. PastInv' /\ NobodyGone'
    BY <1>6 DEF GiveUp, PastInv, NobodyGone
  <2> QED
    BY <2>1, <2>2, <2>3
<1>7. ASSUME NEW t \in Threads, Rename(t) PROVE IInv'
  <2>1. MutexInv'
    BY <1>7 DEF Rename, MutexInv
  <2>2. KnownInv'
    BY <1>7 DEF Rename, WriteFile, KnownInv
  <2>3. PastInv'
    <3>1. file' = list[StoreOf(t)] /\ past' = past \cup {list[StoreOf(t)]} /\ UNCHANGED list
      BY <1>7 DEF Rename, WriteFile
    <3> QED
      BY <1>7, <3>1 DEF Rename, PastInv
  <2>4. NobodyGone'
    BY <1>7 DEF Rename, WriteFile, NobodyGone
  <2> QED
    BY <2>1, <2>2, <2>3, <2>4
<1>8. ASSUME NEW t \in Threads, SaveFails(t) PROVE IInv'
  <2>1. MutexInv'
    BY <1>8 DEF SaveFails, MutexInv
  <2>2. KnownInv'
    BY <1>8, <1>e DEF SaveFails, KnownInv
  <2>f. \A u \in Threads \ {t} : pc[u] \in {"renaming", "stamping"} => StoreOf(u) # StoreOf(t)
    BY <1>8 DEF SaveFails, MutexInv
  <2>3. PastInv'
    BY <1>8, <2>f DEF SaveFails, PastInv
  <2>4. NobodyGone'
    BY <1>8, <2>f DEF SaveFails, NobodyGone
  <2> QED
    BY <2>1, <2>2, <2>3, <2>4
<1>9. ASSUME NEW t \in Threads, Restamp(t) PROVE IInv'
  <2>1. MutexInv'
    BY <1>9 DEF Restamp, MutexInv
  <2>2. KnownInv'
    BY <1>9, <1>e DEF Restamp, KnownInv
  <2>3. PastInv' /\ NobodyGone'
    BY <1>9 DEF Restamp, PastInv, NobodyGone
  <2> QED
    BY <2>1, <2>2, <2>3
<1>10. ASSUME NEW c \in Commands, KillCommand(c) PROVE IInv'
  <2>c. c \in Threads /\ c \in Stores /\ \A t \in Threads : StoreOf(t) = c <=> t = c
    BY DEF Threads, Stores, StoreOf
  <2>1. MutexInv'
    BY <1>10, <2>c DEF KillCommand, MutexInv
  <2>2. KnownInv'
    BY <1>10, <2>c, <1>e DEF KillCommand, KnownInv
  <2>3. PastInv' /\ NobodyGone'
    BY <1>10, <2>c DEF KillCommand, PastInv, NobodyGone
  <2> QED
    BY <2>1, <2>2, <2>3
<1>11. CASE RestartPanel
  <2>c. Panel \in Stores /\ \A t \in Threads : StoreOf(t) = Panel <=> t \in Requests
    BY DEF Threads, Stores, StoreOf
  <2>1. MutexInv'
    BY <1>11, <2>c DEF RestartPanel, MutexInv
  <2>2. KnownInv'
    BY <1>11, <2>c, <1>e DEF RestartPanel, KnownInv
  <2>3. PastInv' /\ NobodyGone'
    BY <1>11, <2>c DEF RestartPanel, PastInv, NobodyGone
  <2> QED
    BY <2>1, <2>2, <2>3
<1>12. CASE Tamper
  <2>1. MutexInv'
    BY <1>12 DEF Tamper, MutexInv
  <2>2. KnownInv'
    BY <1>12, <1>e DEF Tamper, WriteFile, KnownInv
  <2>3. PastInv' /\ NobodyGone'
    BY <1>12 DEF Tamper, WriteFile, PastInv, NobodyGone
  <2> QED
    BY <2>1, <2>2, <2>3
<1>13. CASE UNCHANGED vars
  BY <1>13 DEF vars, MutexInv, KnownInv, PastInv, NobodyGone
<1> QED
  BY <1>1, <1>2, <1>3, <1>4, <1>5, <1>6, <1>7, <1>8, <1>9, <1>10, <1>11, <1>12, <1>13
     DEF Next, Refresh, Load, Finish

THEOREM IInvCorrect == Spec => [](TypeOK /\ IInv)
BY TypeInit, TypeStep, IInvInit, IInvStep, PTL DEF Spec

(* No interleaving of handlers, commands, crashes and failed writes leaves a
   file with two administrators under one id or one username (admins.go load). *)
THEOREM FileAlwaysLoads == Spec => []FileLoads
<1>1. IInv => FileLoads
  BY DEF IInv, KnownInv, Known, FileLoads
<1> QED
  BY <1>1, IInvCorrect, PTL

(* What other handlers see in memory has been in the file: no refused or failed
   save leaves an edit behind (the rollbacks after saveLocked). *)
THEOREM MemoryAlwaysWasOnDisk == Spec => []MemoryWasOnDisk
<1>1. IInv => MemoryWasOnDisk
  BY DEF IInv, PastInv, MemoryWasOnDisk
<1> QED
  BY <1>1, IInvCorrect, PTL

(* Processes that each count their own copy never remove the last administrator
   between them (users.go newUsersRmCmd). *)
THEOREM SomebodyAlwaysLeft == Spec => []SomebodyLeft
<1>1. IInv => SomebodyLeft
  BY DEF IInv, NobodyGone, SomebodyLeft
<1> QED
  BY <1>1, IInvCorrect, PTL

------------------------------------------------------------------------------
(* With no write inside another thread's window. *)

(* A thread in its window still sees what it read or checked. *)
WindowInv ==
    \A t \in Threads :
        /\ pc[t] \in {"swapping", "opening"} => status # "bad" /\ buffer[t] = file
        /\ pc[t] = "renaming" =>
               \/ status = "missing"
               \/ /\ status = "list"
                  /\ before[t] = file
                  /\ stamp[StoreOf(t)] = version
                  /\ AL!IsEdit(file, list[StoreOf(t)])
        /\ pc[t] = "stamping" => status = "list" /\ list[StoreOf(t)] = file

(* Stamps come from the past, and a stamp that matches tells the truth. *)
StampInv ==
    \A i \in Stores :
        /\ stamp[i] <= version
        /\ status # "missing" /\ stamp[i] = version /\ holder[i] = NoThread =>
               status = "list" /\ list[i] = file

QInv == WindowInv /\ StampInv

LEMMA QInvInit == Init => QInv
<1> SUFFICES ASSUME Init PROVE QInv
  OBVIOUS
<1>1. WindowInv
  BY DEF Init, WindowInv
<1>2. StampInv
  BY DEF Init, StampInv, StatNow
<1> QED
  BY <1>1, <1>2 DEF QInv

(* The save that is refused or carried on to the rename, on a quiet file. *)
LEMMA QInvSave ==
    ASSUME TypeOK, IInv, QInv, NEW t \in Threads, NEW new \in AL!Lists, NEW draws,
           Save(t, new, draws), AL!IsEdit(list[StoreOf(t)], new)
    PROVE  QInv'
<1> DEFINE i == StoreOf(t)
<1>i. i \in Stores /\ \A u \in Threads : StoreOf(u) \in Stores
  BY StoreOfThread
<1>f. \A u \in Threads : StoreOf(u) = i => pc[u] \notin {"renaming", "stamping"}
  BY SaveOutcome, FreeIsEmpty DEF IInv, Free
<1>n. NoThread # t
  BY ActorsAssumption DEF Threads
<1>1. CASE pc'[t] = "idle"
  BY <1>1, SaveOutcome DEF QInv, WindowInv, StampInv
<1>2. CASE pc'[t] # "idle"
  <2>1. /\ UNCHANGED <<status, file, version, stamp, buffer>>
        /\ pc'[t] = "renaming" /\ \A u \in Threads \ {t} : pc'[u] = pc[u]
        /\ holder'[i] = t /\ \A j \in Stores \ {i} : holder'[j] = holder[j]
        /\ before'[t] = list[i] /\ \A u \in Threads \ {t} : before'[u] = before[u]
        /\ list'[i] = new /\ \A j \in Stores \ {i} : list'[j] = list[j]
        /\ status = "missing" \/ version = stamp[i]
        /\ holder[i] = NoThread
    BY <1>2, SaveOutcome
  <2>2. status = "missing" \/ (status = "list" /\ list[i] = file)
    BY <2>1, <1>i DEF QInv, StampInv
  <2>3. ASSUME NEW u \in Threads
        PROVE  /\ pc'[u] \in {"swapping", "opening"} => status' # "bad" /\ buffer'[u] = file'
               /\ pc'[u] = "renaming" =>
                      \/ status' = "missing"
                      \/ /\ status' = "list"
                         /\ before'[u] = file'
                         /\ stamp'[StoreOf(u)] = version'
                         /\ AL!IsEdit(file', list'[StoreOf(u)])
               /\ pc'[u] = "stamping" => status' = "list" /\ list'[StoreOf(u)] = file'
    <3>1. CASE u = t
      BY <3>1, <2>1, <2>2
    <3>2. CASE u # t
      <4>1. pc[u] \in {"renaming", "stamping"} => list'[StoreOf(u)] = list[StoreOf(u)]
        BY <2>1, <1>f, <1>i
      <4> QED
        BY <3>2, <4>1, <2>1 DEF QInv, WindowInv
    <3> QED
      BY <3>1, <3>2
  <2>4. WindowInv'
    BY <2>3 DEF WindowInv
  <2>5. StampInv'
    BY <2>1, <1>n, <1>i DEF QInv, StampInv
  <2> QED
    BY <2>4, <2>5 DEF QInv
<1> QED
  BY <1>1, <1>2

(* Two threads inside mutexes at once are inside mutexes of two stores. *)
LEMMA OneInside ==
    ASSUME MutexInv, NEW t \in Threads, NEW u \in Threads, u # t,
           pc[t] \in {"renaming", "stamping"}, pc[u] \in {"renaming", "stamping"}
    PROVE  StoreOf(u) # StoreOf(t)
BY DEF MutexInv

LEMMA QInvStep == TypeOK /\ IInv /\ QInv /\ [QuietNext]_vars => QInv'
<1> SUFFICES ASSUME TypeOK, IInv, QInv, [QuietNext]_vars PROVE QInv'
  OBVIOUS
<1> USE StoreOfThread, ActorsAssumption DEF TypeOK, Goto, Free
<1>m. MutexInv
  BY DEF IInv
<1>1. ASSUME NEW t \in Threads, SampleStamp(t) \/ StatFile(t) \/ GiveUp(t) PROVE QInv'
  <2>1. /\ UNCHANGED <<status, file, version, list, stamp, holder, buffer, before>>
        /\ \A u \in Threads : pc'[u] = pc[u] \/ pc'[u] \in {"sampled", "idle", "stale"}
    BY <1>1 DEF SampleStamp, StatFile, GiveUp
  <2> QED
    BY <2>1 DEF QInv, WindowInv, StampInv
<1>2. ASSUME NEW t \in Threads, ReadFile(t) PROVE QInv'
  <2>1. WindowInv'
    BY <1>2 DEF ReadFile, QInv, WindowInv
  <2>2. StampInv'
    BY <1>2 DEF ReadFile, QInv, StampInv
  <2> QED
    BY <2>1, <2>2 DEF QInv
<1>3. ASSUME NEW t \in Threads, Swap(t) PROVE QInv'
  <2>f. \A u \in Threads : StoreOf(u) = StoreOf(t) => pc[u] \notin {"renaming", "stamping"}
    BY <1>3, <1>m, FreeIsEmpty DEF Swap
  <2>1. WindowInv'
    BY <1>3, <2>f DEF Swap, QInv, WindowInv
  <2>2. StampInv'
    BY <1>3 DEF Swap, StatNow, QInv, WindowInv, StampInv
  <2> QED
    BY <2>1, <2>2 DEF QInv
<1>4. ASSUME NEW t \in Threads, EditStep(t) PROVE QInv'
  BY <1>4, EditIsSave, QInvSave DEF IInv
<1>5. ASSUME NEW t \in Threads, Rename(t), Undisturbed PROVE QInv'
  <2>1. /\ file' = list[StoreOf(t)] /\ status' = "list" /\ version' = version + 1
        /\ UNCHANGED <<list, stamp, holder, buffer, before>>
        /\ pc[t] = "renaming" /\ pc'[t] = "stamping" /\ \A u \in Threads \ {t} : pc'[u] = pc[u]
    BY <1>5 DEF Rename, WriteFile
  <2>2. \A u \in Threads \ {t} : ~InWindow(u)
    BY <2>1, <1>5 DEF Undisturbed
  <2>3. WindowInv'
    BY <2>1, <2>2 DEF WindowInv, InWindow
  <2>4. StampInv'
    BY <2>1 DEF QInv, StampInv
  <2> QED
    BY <2>3, <2>4 DEF QInv
<1>6. ASSUME NEW t \in Threads, SaveFails(t) PROVE QInv'
  <2>f. \A u \in Threads \ {t} : pc[u] \in {"renaming", "stamping"} => StoreOf(u) # StoreOf(t)
    BY <1>6, <1>m, OneInside DEF SaveFails
  <2>1. WindowInv'
    BY <1>6, <2>f DEF SaveFails, QInv, WindowInv
  <2>2. StampInv'
    BY <1>6 DEF SaveFails, QInv, WindowInv, StampInv
  <2> QED
    BY <2>1, <2>2 DEF QInv
<1>7. ASSUME NEW t \in Threads, Restamp(t) PROVE QInv'
  <2>f. \A u \in Threads \ {t} : pc[u] \in {"renaming", "stamping"} => StoreOf(u) # StoreOf(t)
    BY <1>7, <1>m, OneInside DEF Restamp
  <2>1. WindowInv'
    BY <1>7, <2>f DEF Restamp, QInv, WindowInv
  <2>2. StampInv'
    BY <1>7 DEF Restamp, StatNow, QInv, WindowInv, StampInv
  <2> QED
    BY <2>1, <2>2 DEF QInv
<1>8. ASSUME NEW c \in Commands, KillCommand(c) PROVE QInv'
  <2>c. c \in Threads /\ c \in Stores /\ \A t \in Threads : StoreOf(t) = c <=> t = c
    BY DEF Threads, Stores, StoreOf
  <2>1. WindowInv'
    BY <1>8, <2>c DEF KillCommand, QInv, WindowInv
  <2>2. StampInv'
    BY <1>8, <2>c DEF KillCommand, QInv, StampInv
  <2> QED
    BY <2>1, <2>2 DEF QInv
<1>9. CASE RestartPanel
  <2>c. Panel \in Stores /\ \A t \in Threads : StoreOf(t) = Panel <=> t \in Requests
    BY DEF Threads, Stores, StoreOf
  <2>1. WindowInv'
    BY <1>9, <2>c DEF RestartPanel, QInv, WindowInv
  <2>2. StampInv'
    BY <1>9, <2>c DEF RestartPanel, StatNow, QInv, StampInv
  <2> QED
    BY <2>1, <2>2 DEF QInv
<1>10. CASE Tamper /\ Undisturbed
  <2>1. /\ version' = version + 1
        /\ UNCHANGED <<list, stamp, holder, buffer, before, pc>>
    BY <1>10 DEF Tamper, WriteFile
  <2>2. \A u \in Threads : ~InWindow(u)
    BY <2>1, <1>10 DEF Undisturbed
  <2>3. WindowInv'
    BY <2>1, <2>2 DEF WindowInv, InWindow
  <2>4. StampInv'
    BY <2>1 DEF QInv, StampInv
  <2> QED
    BY <2>3, <2>4 DEF QInv
<1>11. CASE UNCHANGED vars
  BY <1>11 DEF vars, QInv, WindowInv, StampInv
<1> QED
  BY <1>1, <1>2, <1>3, <1>4, <1>5, <1>6, <1>7, <1>8, <1>9, <1>10, <1>11
     DEF QuietNext, Next, Refresh, Load, Finish

LEMMA QuietInv == QuietSpec => [](TypeOK /\ IInv /\ QInv)
<1>1. [QuietNext]_vars => [Next]_vars
  BY DEF QuietNext
<1> QED
  BY <1>1, TypeInit, TypeStep, IInvInit, IInvStep, QInvInit, QInvStep, PTL DEF QuietSpec

(* When no write falls in another thread's window, a store whose stamp matches
   the file holds the file's list: a reload skipped by ReloadIfChanged or a save
   let through by saveLocked is never one too many. *)
THEOREM StampsAreHonest == QuietSpec => []HonestStamp
<1>1. QInv => HonestStamp
  BY DEF QInv, StampInv, HonestStamp
<1> QED
  BY <1>1, QuietInv, PTL

(* A rename maps to one edit of the file, or to writing it again after it was
   deleted. *)
LEMMA RenameIsEdit ==
    ASSUME TypeOK, IInv, QInv, NEW t \in Threads, Rename(t)
    PROVE  AL!Edit \/ AL!Recreate
<1>1. /\ file' = list[StoreOf(t)] /\ status' = "list" /\ pc[t] = "renaming"
      /\ list[StoreOf(t)] \in AL!Lists
  BY StoreOfThread DEF Rename, WriteFile, TypeOK
<1>2. CASE status = "missing"
  BY <1>1, <1>2, StoreOfThread DEF AL!Recreate, IInv, KnownInv, Known
<1>3. CASE status = "list"
  BY <1>1, <1>3 DEF AL!Edit, QInv, WindowInv
<1> QED
  BY <1>1, <1>2, <1>3 DEF QInv, WindowInv

(* The detailed protocol implements the atomic list: every rename is one edit
   of what the file held, and nothing else but a hand on the file changes it. *)
THEOREM QuietImplements == QuietSpec => ImplementsAdminList
<1>1. Init => AL!Init
  BY InitialFilesAssumption DEF Init, AL!Init
<1>2. TypeOK /\ IInv /\ QInv /\ [QuietNext]_vars => [AL!Next]_<<status, file>>
  <2> SUFFICES ASSUME TypeOK, IInv, QInv, [QuietNext]_vars
               PROVE  AL!Next \/ UNCHANGED <<status, file>>
    OBVIOUS
  <2>1. ASSUME NEW t \in Threads, Refresh(t) \/ Load(t) \/ GiveUp(t) \/ SaveFails(t) \/ Restamp(t)
        PROVE  UNCHANGED <<status, file>>
    BY <2>1 DEF Refresh, SampleStamp, StatFile, Load, ReadFile, Swap, GiveUp, SaveFails, Restamp
  <2>2. ASSUME NEW t \in Threads, EditStep(t) PROVE UNCHANGED <<status, file>>
    BY <2>2, EditIsSave DEF IInv, Save
  <2>3. ASSUME NEW t \in Threads, Rename(t) PROVE AL!Next
    BY <2>3, RenameIsEdit DEF AL!Next
  <2>4. ASSUME NEW c \in Commands, KillCommand(c) PROVE UNCHANGED <<status, file>>
    BY <2>4 DEF KillCommand
  <2>5. CASE RestartPanel
    BY <2>5 DEF RestartPanel
  <2>6. CASE Tamper
    BY <2>6, ActorsAssumption DEF Tamper, WriteFile, AL!Next, AL!Tamper
  <2>7. CASE UNCHANGED vars
    BY <2>7 DEF vars
  <2> QED
    BY <2>1, <2>2, <2>3, <2>4, <2>5, <2>6, <2>7 DEF QuietNext, Next, Finish
<1> QED
  BY <1>1, <1>2, QuietInv, PTL DEF QuietSpec, ImplementsAdminList, AL!Spec

(* On a quiet file no acknowledged change is lost to another writer. *)
THEOREM QuietWritesAreEdits == QuietSpec => WritesAreEdits
<1>1. TypeOK /\ IInv /\ QInv =>
        ((\E t \in Threads : Rename(t)) => AL!Edit \/ AL!Recreate)
  BY RenameIsEdit
<1> QED
  BY <1>1, QuietInv, PTL DEF QuietSpec, WritesAreEdits
==============================================================================
