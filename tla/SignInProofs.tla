---------------------------- MODULE SignInProofs ----------------------------
(***************************************************************************)
(* Theorems about SignIn, for any number of clients, keys, draws and       *)
(* usernames, any table size, and a sessions.json that may fail to be      *)
(* written at every step.                                                  *)
(***************************************************************************)
EXTENDS SignIn, TLAPS

Rows == table \cup disk

SameRow(r, s) == r.key = s.key /\ r.owner = s.owner /\ r.print = s.print

(* A list has an administrator with this id and password hash. *)
Backed(list, owner, print) == \E a \in list : a.id = owner /\ a.hash = print

(* An id and a hash the panel has seen together: the hash was drawn, so nobody
   gets it again; and as long as the panel has installed no list but the file's,
   the two are still together in its memory if they are in the file. *)
Vouched(owner, print) ==
    print \in drawn /\ (strayed \/ (Backed(file, owner, print) => Backed(admins, owner, print)))

(* The row of a refused key is there because it could not be deleted on disk; and
   its administrator is not in memory, unless the panel has strayed. *)
RowOK(r) ==
    /\ r \in Record /\ r.key \in issued
    /\ Vouched(r.owner, r.print)
    /\ r.key \in refused => r.key \in lingering /\ (strayed \/ ~Backed(admins, r.owner, r.print))
    /\ \A c \in Clients : cookie[c] = r.key => r.print \in knows[c]

(* A handler that will start a session, or refuse one, knows for whom. *)
HandlerOK(c) ==
    /\ cookie[c] \in issued \cup {NoKey}
    /\ pc[c] \in {"verified", "changed", "dropped"} =>
          who[c] \in AL!Admin /\ Vouched(who[c].id, who[c].hash) /\ who[c].hash \in knows[c]
    /\ pc[c] = "checking" =>
          /\ rec[c] \in Record /\ rec[c].key = cookie[c] /\ cookie[c] \in issued
          /\ Vouched(rec[c].owner, rec[c].print)
          /\ \A r \in Rows : r.key = rec[c].key => SameRow(r, rec[c])

IInv ==
    /\ TypeOK
    /\ \A a \in file \cup admins : a.hash \in drawn
    /\ \A c \in Clients : \A a \in buffer[c] : a.hash \in drawn
    /\ stamped /\ ~strayed => admins = file
    /\ refused \subseteq issued
    /\ \A r \in Rows : RowOK(r)
    /\ \A r, s \in Rows : r.key = s.key => SameRow(r, s)
    /\ \A c \in Clients : HandlerOK(c)

USE SignInAssumption

LEMMA InvInit == Init => IInv
<1> SUFFICES ASSUME Init PROVE IInv
  OBVIOUS
<1>1. file \in AL!Lists /\ drawn \subseteq Draws /\ \A a \in file : a.hash \in drawn /\ a.hash \in Draws
  BY DEF Init, AL!Lists, AL!Admin
<1>2. knows \in [Clients -> SUBSET Draws]
  BY <1>1 DEF Init
<1>3. TypeOK
  BY <1>1, <1>2 DEF Init, TypeOK, Labels, AL!Lists
<1>4. \A c \in Clients : HandlerOK(c)
  BY DEF Init, HandlerOK
<1> QED
  BY <1>1, <1>3, <1>4 DEF Init, IInv, Rows

------------------------------------------------------------------------------
(* What a step does to the administrators: nothing that was vouched for stops
   being so, and nobody who was not in the panel's memory with a vouched password
   comes to be. *)
Passes(owner, print) ==
    Vouched(owner, print) =>
        /\ Vouched(owner, print)'
        /\ strayed' \/ (Backed(admins, owner, print)' => Backed(admins, owner, print))

StoreGoesOn ==
    /\ file' \in AL!Lists /\ admins' \in AL!Lists
    /\ missing' \in BOOLEAN /\ stamped' \in BOOLEAN /\ strayed' \in BOOLEAN
    /\ buffer' \in [Clients -> AL!Lists]
    /\ drawn \subseteq drawn' /\ drawn' \subseteq Draws
    /\ \A a \in (file \cup admins)' : a.hash \in drawn'
    /\ \A c \in Clients : \A a \in buffer'[c] : a.hash \in drawn'
    /\ stamped' /\ ~strayed' => admins' = file'
    /\ strayed => strayed'
    /\ \A owner, print \in Draws : Passes(owner, print)

LEMMA StoreStays ==
    ASSUME IInv, UNCHANGED store
    PROVE  StoreGoesOn
BY DEF IInv, TypeOK, store, memory, StoreGoesOn, Passes, Vouched, Backed

(* A list is read, or lost with the process that read it. *)
LEMMA StoreReads ==
    ASSUME IInv, UNCHANGED <<file, missing, drawn, admins, stamped, strayed>>,
           buffer' \in [Clients -> AL!Lists],
           \A c \in Clients : buffer'[c] \subseteq file \/ buffer'[c] = buffer[c]
    PROVE  StoreGoesOn
<1>1. \A c \in Clients : \A a \in buffer'[c] : a.hash \in drawn
  BY DEF IInv
<1> QED
  BY <1>1 DEF IInv, TypeOK, StoreGoesOn, Passes, Vouched, Backed

(* A list other than the file's may be installed; but then the panel has strayed. *)
LEMMA StoreTakes ==
    ASSUME IInv, NEW l \in AL!Lists, \A a \in l : a.hash \in drawn, Takes(l),
           buffer' \in [Clients -> AL!Lists],
           \A c \in Clients : buffer'[c] = {} \/ buffer'[c] = buffer[c]
    PROVE  StoreGoesOn
<1>1. ASSUME NEW owner \in Draws, NEW print \in Draws PROVE Passes(owner, print)
  BY DEF Takes, Passes, Vouched, Backed
<1>2. \A c \in Clients : \A a \in buffer'[c] : a.hash \in drawn
  BY DEF IInv
<1> QED
  BY <1>1, <1>2 DEF Takes, IInv, TypeOK, StoreGoesOn

(* The panel's own edits are written out, so that the file is what the panel has. *)
LEMMA StoreEdited ==
    ASSUME IInv, NEW a \in admins, NEW b \in AL!Admin,
           Saves((admins \ {a}) \cup {b}),
           drawn \subseteq drawn', drawn' \subseteq Draws, b.hash \in drawn',
           b.hash \in drawn => b.id = a.id /\ b.hash = a.hash
    PROVE  StoreGoesOn
<1> USE DEF Saves
<1>1. ASSUME NEW owner \in Draws, NEW print \in Draws PROVE Passes(owner, print)
  BY DEF Passes, Vouched, Backed
<1>2. file' \in AL!Lists /\ admins' \in AL!Lists
  BY DEF IInv, TypeOK, AL!Lists
<1>3. \A x \in (file \cup admins)' : x.hash \in drawn'
  BY DEF IInv
<1>4. \A c \in Clients : \A x \in buffer'[c] : x.hash \in drawn'
  BY DEF IInv
<1> QED
  BY <1>1, <1>2, <1>3, <1>4 DEF StoreGoesOn, IInv, TypeOK

(* What an edit from the shell leaves in the file: what was there, or a hash just
   drawn. *)
LEMMA EditOutcome ==
    ASSUME NEW list \in AL!Lists, NEW d \in Draws, NEW new \in AL!Edits(list, d)
    PROVE  /\ new \in AL!Lists
           /\ \A b \in new : b.hash = d \/ \E a \in list : a.id = b.id /\ a.hash = b.hash
<1> USE DEF AL!Lists, AL!Admin
<1>1. CASE new \in AL!Creations(list, d)
  BY <1>1 DEF AL!Creations
<1>2. CASE new \in AL!NewPasswords(list, d)
  <2>1. PICK a \in list : new = (list \ {a}) \cup {AL!WithHash(a, d)}
    BY <1>2 DEF AL!NewPasswords
  <2> QED
    BY <2>1 DEF AL!WithHash
<1>3. CASE new \in AL!Renamings(list)
  <2> DEFINE To(a) == {(list \ {a}) \cup {AL!WithName(a, n)} :
                         n \in {m \in Names : ~AL!Taken(list \ {a}, m)}}
  <2>0. PICK a \in list : new \in To(a)
    <3>1. new \in UNION {To(a) : a \in list}
      BY <1>3 DEF AL!Renamings
    <3> HIDE DEF To
    <3> QED
      BY <3>1
  <2>1. PICK n \in Names : new = (list \ {a}) \cup {AL!WithName(a, n)}
    BY <2>0
  <2> QED
    BY <2>1 DEF AL!WithName
<1>4. CASE new \in AL!Removals(list)
  BY <1>4 DEF AL!Removals
<1> QED
  BY <1>1, <1>2, <1>3, <1>4 DEF AL!Edits

LEMMA StoreEditedOutside ==
    ASSUME IInv, NEW d \in Draws \ drawn, file' \in AL!Edits(Content, d),
           drawn' = IF \E a \in file' : a.hash = d THEN drawn \cup {d} ELSE drawn,
           missing' = FALSE, stamped' = FALSE, UNCHANGED <<admins, buffer, strayed>>
    PROVE  StoreGoesOn
<1>0. Content \in AL!Lists /\ Content \subseteq file
  BY DEF Content, IInv, TypeOK, AL!Lists
<1>1. /\ file' \in AL!Lists
      /\ \A b \in file' : b.hash = d \/ \E a \in file : a.id = b.id /\ a.hash = b.hash
  BY <1>0, EditOutcome
<1>2. drawn \subseteq drawn' /\ drawn' \subseteq Draws
  BY DEF IInv, TypeOK
<1>3. \A b \in (file \cup admins)' : b.hash \in drawn'
  BY <1>1 DEF IInv
<1>4. \A c \in Clients : \A b \in buffer'[c] : b.hash \in drawn'
  BY <1>2 DEF IInv
<1>5. ASSUME NEW owner \in Draws, NEW print \in Draws PROVE Passes(owner, print)
  BY <1>1, <1>2 DEF Passes, Vouched, Backed
<1> QED
  BY <1>1, <1>2, <1>3, <1>4, <1>5 DEF StoreGoesOn, IInv, TypeOK

(* Where the file is, nobody's memory depends on. *)
LEMMA StoreMoves ==
    ASSUME IInv, missing' = ~missing, UNCHANGED <<file, drawn, memory>>
    PROVE  StoreGoesOn
BY DEF IInv, TypeOK, memory, StoreGoesOn, Passes, Vouched, Backed

------------------------------------------------------------------------------
(* What a step does to the sessions, other than starting one: every row left, in
   memory or on disk, is one that was there, but for the time it was used. *)
RowsFromRows ==
    /\ table' \subseteq Record /\ disk' \subseteq Record /\ behind' \in BOOLEAN
    /\ \A r \in Rows' : \E s \in Rows : SameRow(r, s)

LEMMA FlushType == ASSUME Flush, TypeOK PROVE disk' \in {table', disk} /\ behind' \in BOOLEAN
BY DEF Flush, TypeOK

LEMMA PanelStays ==
    ASSUME TypeOK, UNCHANGED <<table, disk, behind>> PROVE RowsFromRows
BY DEF TypeOK, RowsFromRows, Rows, SameRow

LEMMA RemoveOutcome ==
    ASSUME TypeOK, NEW gone, Remove(gone)
    PROVE  RowsFromRows /\ table' = table \ gone
<1>1. table' = table \ gone /\ disk' \in {table', disk} /\ behind' \in BOOLEAN
  BY FlushType DEF Remove, TypeOK
<1> QED
  BY <1>1 DEF TypeOK, RowsFromRows, Rows, SameRow

LEMMA LookupOutcome ==
    ASSUME TypeOK, NEW k \in Keys, LookupLive(k, 0) PROVE RowsFromRows
<1>1. PICK r \in table :
        /\ r.key = k
        /\ IF 0 - r.seen >= Refresh
           THEN table' = (table \ {r}) \cup {Slid(r, 0)} /\ Flush
           ELSE UNCHANGED <<table, disk, behind>>
  BY DEF LookupLive
<1>2. r \in Record /\ Slid(r, 0) \in Record /\ SameRow(Slid(r, 0), r)
  BY WindowAssumption DEF TypeOK, Record, Slid, SameRow
<1>3. CASE table' = (table \ {r}) \cup {Slid(r, 0)} /\ Flush
  <2>1. disk' \in {table', disk} /\ behind' \in BOOLEAN
    BY <1>3, FlushType
  <2> QED
    BY <1>2, <1>3, <2>1 DEF TypeOK, RowsFromRows, Rows, SameRow
<1> QED
  BY <1>1, <1>3, PanelStays

LEMMA RestartOutcome ==
    ASSUME TypeOK, Restart(0) PROVE RowsFromRows
BY DEF TypeOK, Restart, RowsFromRows, Rows, SameRow

(* The row of a new session, and those that were there. *)
LEMMA IssueOutcome ==
    ASSUME TypeOK, NEW k \in Keys, NEW owner \in Draws, NEW print \in Draws, Issue(k, owner, print, 0)
    PROVE  /\ table' \subseteq Record /\ disk' \subseteq Record /\ behind' \in BOOLEAN
           /\ \E r \in table' : r.key = k /\ r.owner = owner /\ r.print = print
           /\ \A r \in Rows' : (\E s \in Rows : SameRow(r, s))
                                  \/ (r.key = k /\ r.owner = owner /\ r.print = print)
<1> DEFINE new == [key |-> k, owner |-> owner, print |-> print, seen |-> 0, expires |-> 0 + Idle]
<1>1. new \in Record
  BY WindowAssumption DEF Record
<1>2. new \in table' /\ table' \subseteq table \cup {new} /\ Flush
  BY DEF Issue
<1>3. disk' \in {table', disk} /\ behind' \in BOOLEAN
  BY <1>2, FlushType
<1> QED
  BY <1>1, <1>2, <1>3 DEF TypeOK, Rows, SameRow

------------------------------------------------------------------------------
(* Cookies are only given up, and what a client knows it goes on knowing. *)
ClientsGoOn ==
    /\ knows' \in [Clients -> SUBSET Draws]
    /\ cookie' \in [Clients -> Keys \cup {NoKey}]
    /\ \A c \in Clients : knows[c] \subseteq knows'[c] /\ cookie'[c] \in {cookie[c], NoKey}

LEMMA RowsKept ==
    ASSUME IInv, StoreGoesOn, RowsFromRows, ClientsGoOn, UNCHANGED <<issued, refusals>>
    PROVE  /\ \A r \in Rows' : RowOK(r)'
           /\ \A r, s \in Rows' : r.key = s.key => SameRow(r, s)
<1>1. ASSUME NEW r \in Rows' PROVE RowOK(r)'
  <2>1. PICK s \in Rows : SameRow(r, s)
    BY DEF RowsFromRows
  <2>2. r \in Record /\ RowOK(s) /\ s \in Record
    BY DEF RowsFromRows, Rows, IInv, RowOK
  <2>3. r.key \in Keys /\ r.owner \in Draws /\ r.print \in Draws
    BY <2>2 DEF Record
  <2>4. Passes(r.owner, r.print)
    BY <2>3 DEF StoreGoesOn
  <2>5. /\ Vouched(r.owner, r.print)'
        /\ r.key \in refused => r.key \in lingering /\ (strayed' \/ ~Backed(admins, r.owner, r.print)')
    BY <2>1, <2>2, <2>4 DEF Passes, RowOK, SameRow, StoreGoesOn
  <2>6. \A c \in Clients : cookie'[c] = r.key => r.print \in knows'[c]
    BY <2>1, <2>2, <2>3 DEF RowOK, SameRow, ClientsGoOn
  <2> QED
    BY <2>1, <2>2, <2>5, <2>6 DEF RowOK, SameRow, refusals
<1>2. ASSUME NEW r \in Rows', NEW s \in Rows', r.key = s.key PROVE SameRow(r, s)
  <2>1. PICK x \in Rows, y \in Rows : SameRow(r, x) /\ SameRow(s, y)
    BY DEF RowsFromRows
  <2> QED
    BY <1>2, <2>1 DEF IInv, SameRow
<1> QED
  BY <1>1, <1>2

(* A handler that carries an administrator goes on carrying one it may sign in. *)
LEMMA CarriesStill ==
    ASSUME IInv, StoreGoesOn, NEW c \in Clients, who'[c] = who[c], knows[c] \subseteq knows'[c],
           who[c] \in AL!Admin, Vouched(who[c].id, who[c].hash), who[c].hash \in knows[c]
    PROVE  (who[c] \in AL!Admin /\ Vouched(who[c].id, who[c].hash) /\ who[c].hash \in knows[c])'
<1>1. who[c].id \in Draws /\ who[c].hash \in Draws
  BY DEF AL!Admin
<1>2. Vouched(who[c].id, who[c].hash)'
  BY <1>1 DEF StoreGoesOn, Passes, Vouched, Backed
<1> QED
  BY <1>2

(* What a handler looked up stays what every row of its cookie says. *)
LEMMA ChecksStill ==
    ASSUME IInv, StoreGoesOn, RowsFromRows, UNCHANGED issued,
           NEW c \in Clients, cookie'[c] = cookie[c], rec'[c] = rec[c],
           rec[c] \in Record, rec[c].key = cookie[c], cookie[c] \in issued,
           Vouched(rec[c].owner, rec[c].print),
           \A r \in Rows : r.key = rec[c].key => SameRow(r, rec[c])
    PROVE  (/\ rec[c] \in Record /\ rec[c].key = cookie[c] /\ cookie[c] \in issued
            /\ Vouched(rec[c].owner, rec[c].print)
            /\ \A r \in Rows : r.key = rec[c].key => SameRow(r, rec[c]))'
<1>1. rec[c].owner \in Draws /\ rec[c].print \in Draws
  BY DEF Record
<1>2. Vouched(rec[c].owner, rec[c].print)'
  BY <1>1 DEF StoreGoesOn, Passes, Vouched, Backed
<1>3. \A r \in Rows' : r.key = rec[c].key => SameRow(r, rec[c])
  BY DEF RowsFromRows, SameRow
<1> QED
  BY <1>2, <1>3

LEMMA HandlerKept ==
    ASSUME IInv, StoreGoesOn, RowsFromRows, ClientsGoOn, UNCHANGED issued,
           NEW c \in Clients, pc'[c] = pc[c], who'[c] = who[c], rec'[c] = rec[c],
           cookie'[c] = cookie[c]
    PROVE  HandlerOK(c)'
<1>1. knows[c] \subseteq knows'[c] /\ HandlerOK(c)
  BY DEF ClientsGoOn, IInv
<1> QED
  BY <1>1, CarriesStill, ChecksStill DEF HandlerOK

(* A handler that is over, or at a point where it carries nothing. *)
LEMMA HandlerFree ==
    ASSUME IInv, ClientsGoOn, UNCHANGED issued, NEW c \in Clients,
           pc'[c] \notin {"verified", "changed", "dropped", "checking"}
    PROVE  HandlerOK(c)'
BY DEF IInv, HandlerOK, ClientsGoOn

(* The step of a handler that starts no session: what is left to show is what
   becomes of the handler itself. *)
LEMMA HandlerStep ==
    ASSUME IInv, StoreGoesOn, RowsFromRows, UNCHANGED <<issued, refusals>>, ClientsGoOn,
           NEW c \in Clients, NEW label \in Labels,
           pc' = [pc EXCEPT ![c] = label],
           rec' \in [Clients -> Record \cup {Nobody}], who' \in [Clients -> AL!Admin \cup {Nobody}],
           \A b \in Clients \ {c} : rec'[b] = rec[b] /\ who'[b] = who[b] /\ cookie'[b] = cookie[b],
           HandlerOK(c)'
    PROVE  IInv'
<1>1. TypeOK'
  BY DEF IInv, TypeOK, StoreGoesOn, RowsFromRows, ClientsGoOn, refusals
<1>2. \A b \in Clients \ {c} : HandlerOK(b)'
  <2> TAKE b \in Clients \ {c}
  <2>1. pc'[b] = pc[b]
    BY DEF IInv, TypeOK
  <2> QED
    BY <2>1, HandlerKept
<1> QED
  BY <1>1, <1>2, RowsKept DEF IInv, StoreGoesOn, refusals

(* A client keeps its cookie and learns nothing. *)
LEMMA ClientsStay ==
    ASSUME IInv, UNCHANGED <<knows, cookie>> PROVE ClientsGoOn
BY DEF IInv, TypeOK, ClientsGoOn

LEMMA DoneStep ==
    ASSUME IInv, StoreGoesOn, RowsFromRows, UNCHANGED <<issued, refusals>>, ClientsGoOn,
           NEW c \in Clients, Done(c), \A b \in Clients \ {c} : cookie'[b] = cookie[b]
    PROVE  IInv'
<1>1. /\ pc' = [pc EXCEPT ![c] = "idle"]
      /\ rec' \in [Clients -> Record \cup {Nobody}] /\ who' \in [Clients -> AL!Admin \cup {Nobody}]
      /\ \A b \in Clients \ {c} : rec'[b] = rec[b] /\ who'[b] = who[b]
  BY DEF IInv, TypeOK, Done, Goto
<1>2. pc'[c] = "idle"
  BY <1>1 DEF IInv, TypeOK
<1>3. HandlerOK(c)'
  BY <1>2, HandlerFree
<1>4. "idle" \in Labels
  BY DEF Labels
<1> QED
  BY <1>1, <1>3, <1>4, HandlerStep

(* A handler goes on to where it carries nothing new. *)
LEMMA GotoStep ==
    ASSUME IInv, StoreGoesOn, RowsFromRows, UNCHANGED <<issued, refusals, knows, cookie, rec, who>>,
           NEW c \in Clients, NEW label \in Labels \ {"verified", "changed", "dropped", "checking"},
           Goto(c, label)
    PROVE  IInv'
<1>1. pc' = [pc EXCEPT ![c] = label] /\ pc'[c] = label
  BY DEF IInv, TypeOK, Goto
<1>2. ClientsGoOn
  BY ClientsStay
<1>3. HandlerOK(c)'
  BY <1>1, <1>2, HandlerFree
<1> QED
  BY <1>1, <1>2, <1>3, HandlerStep DEF IInv, TypeOK

(* StartSession, and the end of its handler. *)
LEMMA SessionStarts ==
    ASSUME IInv, NEW c \in Clients, pc[c] \in {"verified", "dropped"},
           StartSession(c), Done(c), UNCHANGED <<store, knows, refusals>>
    PROVE  IInv'
<1>s. StoreGoesOn
  BY StoreStays
<1>d. /\ pc' = [pc EXCEPT ![c] = "idle"] /\ pc'[c] = "idle"
      /\ rec' \in [Clients -> Record \cup {Nobody}] /\ who' \in [Clients -> AL!Admin \cup {Nobody}]
      /\ \A b \in Clients \ {c} : rec'[b] = rec[b] /\ who'[b] = who[b] /\ pc'[b] = pc[b]
      /\ pc' \in [Clients -> Labels]
  BY DEF IInv, TypeOK, Done, Goto, Labels
<1>1. CASE UNCHANGED <<panel, issued, cookie>>
  <2>1. RowsFromRows /\ ClientsGoOn
    BY <1>1, PanelStays, ClientsStay DEF IInv, panel
  <2> QED
    BY <1>1, <2>1, <1>s, DoneStep
<1>2. ASSUME NEW k \in Keys \ issued, Issue(k, who[c].id, who[c].hash, 0),
             issued' = issued \cup {k}, cookie' = [cookie EXCEPT ![c] = k]
      PROVE  IInv'
  <2>w. /\ who[c] \in AL!Admin /\ Vouched(who[c].id, who[c].hash) /\ who[c].hash \in knows[c]
        /\ who[c].id \in Draws /\ who[c].hash \in Draws
    BY DEF IInv, HandlerOK, AL!Admin
  <2>i. /\ table' \subseteq Record /\ disk' \subseteq Record /\ behind' \in BOOLEAN
        /\ \A r \in Rows' : (\E s \in Rows : SameRow(r, s))
                               \/ (r.key = k /\ r.owner = who[c].id /\ r.print = who[c].hash)
    BY <1>2, <2>w, IssueOutcome DEF IInv
  <2>c. /\ cookie' \in [Clients -> Keys \cup {NoKey}] /\ cookie'[c] = k
        /\ \A b \in Clients \ {c} : cookie'[b] = cookie[b]
    BY <1>2 DEF IInv, TypeOK
  <2>k. \A b \in Clients : cookie[b] # k
    BY <1>2 DEF IInv, HandlerOK
  <2>1. TypeOK'
    BY <1>2, <1>d, <2>i, <2>c DEF IInv, TypeOK, store, memory, refusals
  <2>2. ASSUME NEW r \in Rows' PROVE RowOK(r)'
    <3>1. r \in Record
      BY <2>i DEF Rows
    <3>2. ASSUME NEW s \in Rows, SameRow(r, s) PROVE RowOK(r)'
      <4>1. RowOK(s) /\ s.key # k
        BY DEF IInv, RowOK
      <4> QED
        BY <1>2, <3>1, <3>2, <4>1, <2>c DEF RowOK, SameRow, Vouched, Backed, store, memory, refusals
    <3>3. CASE r.key = k /\ r.owner = who[c].id /\ r.print = who[c].hash
      <4>1. k \notin refused
        BY DEF IInv
      <4> QED
        BY <1>2, <3>1, <3>3, <4>1, <2>w, <2>c, <2>k DEF RowOK, Vouched, Backed, store, memory, refusals
    <3> QED
      BY <2>i, <3>2, <3>3
  <2>3. ASSUME NEW r \in Rows', NEW s \in Rows', r.key = s.key PROVE SameRow(r, s)
    <3>1. \A x \in Rows : x.key # k
      BY DEF IInv, RowOK
    <3> QED
      BY <2>i, <2>3, <3>1 DEF IInv, SameRow
  <2>4. ASSUME NEW b \in Clients \ {c} PROVE HandlerOK(b)'
    <3>1. HandlerOK(b) /\ pc'[b] = pc[b] /\ who'[b] = who[b] /\ rec'[b] = rec[b]
            /\ cookie'[b] = cookie[b] /\ knows' = knows
      BY <1>d, <2>c DEF IInv
    <3>2. \A o, p : Vouched(o, p)' <=> Vouched(o, p)
      BY DEF Vouched, Backed, store, memory
    <3>3. \A r \in Rows' : cookie[b] \in issued /\ r.key = cookie[b] => \E s \in Rows : SameRow(r, s)
      BY <1>2, <2>i
    <3> QED
      BY <1>2, <3>1, <3>2, <3>3 DEF HandlerOK, SameRow
  <2>5. HandlerOK(c)'
    BY <1>2, <1>d, <2>c DEF HandlerOK
  <2> QED
    BY <1>2, <2>1, <2>2, <2>3, <2>4, <2>5 DEF IInv, store, memory, refusals
<1> QED
  BY <1>1, <1>2 DEF StartSession

------------------------------------------------------------------------------
(* The steps, one by one. *)
LEMMA LoginVerifiesKeeps ==
    ASSUME IInv, NEW c \in Clients, LoginVerifies(c) PROVE IInv'
<1>1. PICK a \in admins : a.hash \in knows[c] /\ who' = [who EXCEPT ![c] = a]
  BY DEF LoginVerifies
<1>2. a \in AL!Admin /\ a.hash \in drawn
  BY DEF IInv, TypeOK, AL!Lists
<1>3. StoreGoesOn /\ RowsFromRows /\ ClientsGoOn
  BY StoreStays, PanelStays, ClientsStay DEF LoginVerifies, panel, IInv
<1>4. pc' = [pc EXCEPT ![c] = "verified"] /\ pc'[c] = "verified" /\ who'[c] = a
  BY <1>1 DEF LoginVerifies, Goto, IInv, TypeOK
<1>5. HandlerOK(c)'
  BY <1>1, <1>2, <1>4 DEF LoginVerifies, HandlerOK, IInv, Vouched, Backed, store, memory
<1>6. "verified" \in Labels /\ who' \in [Clients -> AL!Admin \cup {Nobody}]
  BY <1>1, <1>2 DEF Labels, IInv, TypeOK
<1> QED
  BY <1>1, <1>3, <1>4, <1>5, <1>6, HandlerStep DEF LoginVerifies, IInv, TypeOK

LEMMA LogoutKeeps ==
    ASSUME IInv, NEW c \in Clients, Logout(c) PROVE IInv'
<1>1. StoreGoesOn /\ RowsFromRows
  BY StoreStays, RemoveOutcome DEF Logout, Delete, IInv
<1>2. ClientsGoOn /\ cookie'[c] = NoKey /\ \A b \in Clients \ {c} : cookie'[b] = cookie[b]
  BY DEF Logout, ClientsGoOn, IInv, TypeOK
<1>3. HandlerOK(c)'
  BY <1>2, HandlerFree DEF Logout
<1>4. pc' = [pc EXCEPT ![c] = "idle"] /\ "idle" \in Labels
  BY DEF Logout, IInv, TypeOK, Labels
<1> QED
  BY <1>1, <1>2, <1>3, <1>4, HandlerStep DEF Logout, IInv, TypeOK

LEMMA ReadsKeeps ==
    ASSUME IInv, NEW c \in Clients, Reads(c) PROVE IInv'
<1>1. Content \in AL!Lists /\ Content \subseteq file
  BY DEF Content, IInv, TypeOK, AL!Lists
<1>2. StoreGoesOn /\ RowsFromRows
  BY <1>1, StoreReads, PanelStays DEF Reads, panel, IInv, TypeOK
<1> QED
  BY <1>2, GotoStep DEF Reads, Labels

LEMMA SwapsKeeps ==
    ASSUME IInv, NEW c \in Clients, Swaps(c) PROVE IInv'
<1>1. /\ buffer[c] \in AL!Lists /\ \A a \in buffer[c] : a.hash \in drawn
      /\ buffer' \in [Clients -> AL!Lists]
      /\ \A b \in Clients : buffer'[b] = {} \/ buffer'[b] = buffer[b]
  BY DEF Swaps, IInv, TypeOK, AL!Lists
<1>2. StoreGoesOn /\ RowsFromRows
  BY <1>1, StoreTakes, PanelStays DEF Swaps, panel, IInv
<1> QED
  BY <1>2, GotoStep DEF Swaps, Labels

LEMMA LooksKeeps ==
    ASSUME IInv, NEW c \in Clients, Looks(c) PROVE IInv'
<1>1. StoreGoesOn /\ ClientsGoOn
  BY StoreStays, ClientsStay DEF Looks
<1>2. CASE LookupMisses(cookie[c]) /\ Done(c)
  <2>1. RowsFromRows
    BY <1>2, PanelStays DEF LookupMisses, IInv
  <2> QED
    BY <1>1, <1>2, <2>1, DoneStep DEF Looks
<1>3. ASSUME LookupLive(cookie[c], 0), NEW r \in table, r.key = cookie[c], rec' = [rec EXCEPT ![c] = r],
             Goto(c, "checking"), UNCHANGED who
      PROVE  IInv'
  <2>1. r \in Record /\ cookie[c] \in Keys
    BY <1>3 DEF IInv, TypeOK, Record
  <2>2. RowsFromRows
    BY <1>3, <2>1, LookupOutcome DEF IInv
  <2>3. /\ pc' = [pc EXCEPT ![c] = "checking"] /\ pc'[c] = "checking" /\ rec'[c] = r
        /\ rec' \in [Clients -> Record \cup {Nobody}]
        /\ \A b \in Clients \ {c} : rec'[b] = rec[b]
    BY <1>3, <2>1 DEF Goto, IInv, TypeOK
  <2>4. RowOK(r) /\ r \in Rows /\ \A s \in Rows : s.key = r.key => SameRow(s, r)
    BY DEF IInv, Rows
  <2>5. Vouched(r.owner, r.print)'
    BY <2>4 DEF RowOK, Looks, Vouched, Backed, store, memory
  <2>6. \A s \in Rows' : s.key = r.key => SameRow(s, r)
    BY <2>2, <2>4 DEF RowsFromRows, SameRow
  <2>7. HandlerOK(c)'
    BY <1>3, <2>1, <2>3, <2>4, <2>5, <2>6 DEF HandlerOK, RowOK, Looks
  <2>8. "checking" \in Labels
    BY DEF Labels
  <2> QED
    BY <1>1, <1>3, <2>2, <2>3, <2>7, <2>8, HandlerStep DEF Looks, IInv, TypeOK
<1> QED
  BY <1>2, <1>3 DEF Looks

(* The one step that refuses a key: what the handler looked up has no
   administrator in memory, and every row of the key, on disk as well, says what
   it looked up. *)
LEMMA ChecksKeeps ==
    ASSUME IInv, NEW c \in Clients, Checks(c) PROVE IInv'
<1>1. StoreGoesOn /\ ClientsGoOn /\ UNCHANGED <<store, issued, knows, cookie>>
  BY StoreStays, ClientsStay DEF Checks
<1>2. CASE Backed(admins, rec[c].owner, rec[c].print)
  <2>1. Goto(c, "signed in") /\ UNCHANGED <<panel, rec, who, refusals>>
    BY <1>2 DEF Checks, Backed
  <2>2. RowsFromRows
    BY <2>1, PanelStays DEF panel, IInv
  <2> QED
    BY <1>1, <2>1, <2>2, GotoStep DEF Labels
<1>3. CASE ~Backed(admins, rec[c].owner, rec[c].print)
  <2>1. /\ Delete(cookie[c]) /\ refused' = refused \cup {cookie[c]} /\ Done(c)
        /\ lingering' = lingering \cup ({cookie[c]} \cap KeysOf(disk'))
    BY <1>3 DEF Checks, Backed
  <2>2. RowsFromRows
    BY <2>1, RemoveOutcome DEF Delete, IInv
  <2>g. \A r \in Rows' : r.key = cookie[c] => r.key \in lingering'
    <3>1. \A r \in table' : r.key # cookie[c]
      BY <2>1, RemoveOutcome DEF Delete, IInv
    <3> QED
      BY <2>1, <3>1 DEF Rows, KeysOf
  <2>3. /\ rec[c] \in Record /\ rec[c].key = cookie[c] /\ cookie[c] \in issued
        /\ \A r \in Rows : r.key = rec[c].key => SameRow(r, rec[c])
    BY DEF IInv, HandlerOK, Checks
  <2>4. /\ pc' = [pc EXCEPT ![c] = "idle"] /\ pc'[c] = "idle"
        /\ rec' \in [Clients -> Record \cup {Nobody}] /\ who' \in [Clients -> AL!Admin \cup {Nobody}]
        /\ \A b \in Clients \ {c} : rec'[b] = rec[b] /\ who'[b] = who[b] /\ pc'[b] = pc[b]
        /\ pc' \in [Clients -> Labels]
    BY <2>1 DEF IInv, TypeOK, Done, Goto, Labels
  <2>5. TypeOK'
    BY <1>1, <2>1, <2>2, <2>3, <2>4 DEF IInv, TypeOK, RowsFromRows, store, memory
  <2>6. refused' \subseteq issued'
    BY <1>1, <2>1, <2>3 DEF IInv
  <2>7. ASSUME NEW r \in Rows' PROVE RowOK(r)'
    <3>1. PICK s \in Rows : SameRow(r, s) /\ RowOK(s) /\ r \in Record
      BY <2>2 DEF RowsFromRows, IInv, Rows
    <3>2. r.key = cookie[c] => ~Backed(admins, r.owner, r.print)
      BY <1>3, <2>3, <3>1 DEF SameRow
    <3>3. r.key \in refused' => r.key \in lingering' /\ (strayed \/ ~Backed(admins, r.owner, r.print))
      BY <2>1, <2>g, <3>1, <3>2 DEF RowOK, SameRow
    <3> QED
      BY <1>1, <2>1, <3>1, <3>3 DEF RowOK, SameRow, Vouched, Backed, store, memory
  <2>8. \A r, s \in Rows' : r.key = s.key => SameRow(r, s)
    <3> SUFFICES ASSUME NEW r \in Rows', NEW s \in Rows', r.key = s.key PROVE SameRow(r, s)
      OBVIOUS
    <3>1. PICK x \in Rows, y \in Rows : SameRow(r, x) /\ SameRow(s, y)
      BY <2>2 DEF RowsFromRows
    <3> QED
      BY <3>1 DEF IInv, SameRow
  <2>9. \A b \in Clients : HandlerOK(b)'
    BY <1>1, <2>2, <2>4, HandlerKept, HandlerFree
  <2> QED
    BY <1>1, <2>5, <2>6, <2>7, <2>8, <2>9 DEF IInv, StoreGoesOn
<1> QED
  BY <1>2, <1>3

LEMMA QuietKeeps ==
    ASSUME IInv, NEW c \in Clients, Throttled(c) \/ Reloads(c) \/ Answers(c) PROVE IInv'
<1>1. StoreGoesOn /\ RowsFromRows /\ ClientsGoOn
  BY StoreStays, PanelStays, ClientsStay DEF Throttled, Reloads, Answers, panel, IInv
<1> QED
  BY <1>1, GotoStep, DoneStep DEF Throttled, Reloads, Answers, Labels

LEMMA FindsSelfKeeps ==
    ASSUME IInv, NEW c \in Clients, FindsSelf(c) PROVE IInv'
<1>1. StoreGoesOn /\ RowsFromRows /\ ClientsGoOn
  BY StoreStays, PanelStays, ClientsStay DEF FindsSelf, panel, IInv
<1>2. ASSUME NEW a \in admins, who' = [who EXCEPT ![c] = a], rec' = [rec EXCEPT ![c] = Nobody],
             Goto(c, "found")
      PROVE  IInv'
  <2>1. /\ pc' = [pc EXCEPT ![c] = "found"] /\ pc'[c] = "found" /\ "found" \in Labels
        /\ rec' \in [Clients -> Record \cup {Nobody}] /\ who' \in [Clients -> AL!Admin \cup {Nobody}]
        /\ \A b \in Clients \ {c} : rec'[b] = rec[b] /\ who'[b] = who[b]
    BY <1>2 DEF Goto, IInv, TypeOK, AL!Lists, Labels
  <2>2. HandlerOK(c)'
    BY <1>1, <2>1, HandlerFree DEF FindsSelf
  <2> QED
    BY <1>1, <2>1, <2>2, HandlerStep DEF FindsSelf
<1>3. CASE Done(c)
  BY <1>1, <1>3, DoneStep DEF FindsSelf
<1> QED
  BY <1>2, <1>3 DEF FindsSelf

LEMMA SetsUsernameKeeps ==
    ASSUME IInv, NEW c \in Clients, SetsUsername(c) PROVE IInv'
<1>1. StoreGoesOn
  <2>1. CASE UNCHANGED store
    BY <2>1, StoreStays
  <2>2. ASSUME NEW a \in admins, NEW n \in Names,
               Saves((admins \ {a}) \cup {AL!WithName(a, n)}), UNCHANGED drawn
        PROVE  StoreGoesOn
    <3>1. /\ AL!WithName(a, n) \in AL!Admin
          /\ AL!WithName(a, n).id = a.id /\ AL!WithName(a, n).hash = a.hash
          /\ a.hash \in drawn /\ drawn \subseteq Draws
      BY DEF AL!WithName, AL!Admin, AL!Lists, IInv, TypeOK
    <3> QED
      BY <2>2, <3>1, StoreEdited
  <2> QED
    BY <2>1, <2>2 DEF SetsUsername
<1>2. RowsFromRows /\ ClientsGoOn
  BY PanelStays, ClientsStay DEF SetsUsername, panel, IInv
<1> QED
  BY <1>1, <1>2, DoneStep DEF SetsUsername

LEMMA ReauthenticatesKeeps ==
    ASSUME IInv, NEW c \in Clients, Reauthenticates(c) PROVE IInv'
<1>1. StoreGoesOn /\ RowsFromRows /\ ClientsGoOn
  BY StoreStays, PanelStays, ClientsStay DEF Reauthenticates, panel, IInv
<1>2. CASE Done(c)
  BY <1>1, <1>2, DoneStep DEF Reauthenticates
<1>3. CASE Goto(c, "proven") /\ UNCHANGED <<rec, who>>
  BY <1>1, <1>3, GotoStep DEF Reauthenticates, Labels
<1> QED
  BY <1>2, <1>3 DEF Reauthenticates

LEMMA SetsPasswordKeeps ==
    ASSUME IInv, NEW c \in Clients, SetsPassword(c) PROVE IInv'
<1>1. RowsFromRows
  BY PanelStays DEF SetsPassword, panel, IInv
<1>2. CASE Done(c) /\ UNCHANGED <<store, knows>>
  <2>1. StoreGoesOn /\ ClientsGoOn
    BY <1>2, StoreStays, ClientsStay DEF SetsPassword
  <2> QED
    BY <1>1, <1>2, <2>1, DoneStep DEF SetsPassword
<1>3. ASSUME NEW a \in admins, NEW d \in Draws \ drawn,
             drawn' = drawn \cup {d},
             Saves((admins \ {a}) \cup {AL!WithHash(a, d)}),
             knows' = [knows EXCEPT ![c] = @ \cup {d}],
             who' = [who EXCEPT ![c] = AL!WithHash(a, d)],
             Goto(c, "changed"), UNCHANGED rec
      PROVE  IInv'
  <2>1. AL!WithHash(a, d) \in AL!Admin /\ AL!WithHash(a, d).hash = d
    BY DEF AL!WithHash, AL!Admin, AL!Lists, IInv, TypeOK
  <2>2. StoreGoesOn
    <3>1. drawn \subseteq drawn' /\ drawn' \subseteq Draws
      BY <1>3 DEF IInv, TypeOK
    <3> QED
      BY <1>3, <2>1, <3>1, StoreEdited
  <2>3. ClientsGoOn /\ d \in knows'[c]
    BY <1>3 DEF SetsPassword, ClientsGoOn, IInv, TypeOK
  <2>4. /\ pc' = [pc EXCEPT ![c] = "changed"] /\ pc'[c] = "changed" /\ "changed" \in Labels
        /\ who'[c] = AL!WithHash(a, d) /\ who' \in [Clients -> AL!Admin \cup {Nobody}]
        /\ \A b \in Clients \ {c} : who'[b] = who[b]
    BY <1>3, <2>1 DEF Goto, IInv, TypeOK, Labels
  <2>5. HandlerOK(c)'
    <3>1. Vouched(who[c].id, who[c].hash)'
      BY <1>3, <2>1, <2>4 DEF Saves, Vouched, Backed
    <3>2. cookie'[c] \in issued' \cup {NoKey}
      BY DEF SetsPassword, IInv, HandlerOK
    <3> QED
      BY <2>1, <2>3, <2>4, <3>1, <3>2 DEF HandlerOK
  <2> QED
    BY <1>1, <1>3, <2>2, <2>3, <2>4, <2>5, HandlerStep DEF SetsPassword, IInv, TypeOK
<1> QED
  BY <1>2, <1>3 DEF SetsPassword

LEMMA DropsSessionsKeeps ==
    ASSUME IInv, NEW c \in Clients, DropsSessions(c) PROVE IInv'
<1>1. StoreGoesOn /\ RowsFromRows /\ ClientsGoOn
  BY StoreStays, RemoveOutcome, ClientsStay DEF DropsSessions, DeleteAdmin, IInv
<1>2. pc' = [pc EXCEPT ![c] = "dropped"] /\ pc'[c] = "dropped" /\ "dropped" \in Labels
  BY DEF DropsSessions, Goto, IInv, TypeOK, Labels
<1>3. HandlerOK(c)'
  BY <1>2 DEF DropsSessions, HandlerOK, IInv, Vouched, Backed, store, memory
<1> QED
  BY <1>1, <1>2, <1>3, HandlerStep DEF DropsSessions, IInv, TypeOK

LEMMA ShellKeeps ==
    ASSUME IInv, Shell PROVE IInv'
<1>1. PICK d \in Draws \ drawn, told \in SUBSET Clients :
        /\ file' \in AL!Edits(Content, d)
        /\ missing' = FALSE /\ stamped' = FALSE
        /\ drawn' = IF \E a \in file' : a.hash = d THEN drawn \cup {d} ELSE drawn
        /\ knows' = [c \in Clients |-> knows[c] \cup (IF c \in told THEN drawn' \ drawn ELSE {})]
        /\ UNCHANGED <<panel, admins, buffer, strayed, issued, cookie, pc, rec, who, refusals>>
  BY DEF Shell
<1>2. StoreGoesOn
  BY <1>1, StoreEditedOutside
<1>3. RowsFromRows
  BY <1>1, PanelStays DEF panel, IInv
<1>4. ClientsGoOn
  BY <1>1, <1>2 DEF ClientsGoOn, StoreGoesOn, IInv, TypeOK
<1>5. \A c \in Clients : HandlerOK(c)'
  BY <1>1, <1>2, <1>3, <1>4, HandlerKept
<1>6. TypeOK'
  BY <1>1, <1>2, <1>3, <1>4 DEF IInv, TypeOK, StoreGoesOn, RowsFromRows, ClientsGoOn, refusals
<1> QED
  BY <1>1, <1>2, <1>3, <1>4, <1>5, <1>6, RowsKept DEF IInv, StoreGoesOn, refusals

LEMMA MovesKeeps ==
    ASSUME IInv, Moves PROVE IInv'
<1>1. StoreGoesOn /\ RowsFromRows /\ ClientsGoOn
  BY StoreMoves, PanelStays, ClientsStay DEF Moves, panel, IInv
<1>2. \A c \in Clients : HandlerOK(c)'
  BY <1>1, HandlerKept DEF Moves
<1>3. TypeOK'
  BY <1>1 DEF Moves, IInv, TypeOK, StoreGoesOn, RowsFromRows, ClientsGoOn, refusals
<1> QED
  BY <1>1, <1>2, <1>3, RowsKept DEF Moves, IInv, StoreGoesOn, refusals

LEMMA RestartPanelKeeps ==
    ASSUME IInv, RestartPanel PROVE IInv'
<1>0. /\ Content \in AL!Lists /\ \A a \in Content : a.hash \in drawn
      /\ buffer' \in [Clients -> AL!Lists] /\ \A c \in Clients : buffer'[c] = {}
  BY DEF RestartPanel, Content, IInv, TypeOK, AL!Lists
<1>1. StoreGoesOn /\ RowsFromRows /\ ClientsGoOn
  BY <1>0, StoreTakes, RestartOutcome, ClientsStay DEF RestartPanel, IInv
<1>2. \A c \in Clients : pc'[c] = "idle"
  BY DEF RestartPanel
<1>3. \A c \in Clients : HandlerOK(c)'
  BY <1>1, <1>2, HandlerFree DEF RestartPanel
<1>4. TypeOK'
  BY <1>1 DEF RestartPanel, IInv, TypeOK, StoreGoesOn, RowsFromRows, Labels, refusals
<1> QED
  BY <1>1, <1>3, <1>4, RowsKept DEF RestartPanel, IInv, StoreGoesOn, refusals

LEMMA Steps == IInv /\ [Next]_vars => IInv'
<1> SUFFICES ASSUME IInv, [Next]_vars PROVE IInv'
  OBVIOUS
<1>1. ASSUME NEW c \in Clients, Login(c) PROVE IInv'
  BY <1>1, LoginVerifiesKeeps, SessionStarts DEF Login, LoginIssues
<1>2. ASSUME NEW c \in Clients, Logout(c) PROVE IInv'
  BY <1>2, LogoutKeeps
<1>3. ASSUME NEW c \in Clients, Request(c) PROVE IInv'
  <2>1. CASE SignsBackIn(c)
    BY <2>1, SessionStarts DEF SignsBackIn
  <2> QED
    BY <1>3, <2>1, QuietKeeps, ReadsKeeps, SwapsKeeps, LooksKeeps, ChecksKeeps, FindsSelfKeeps,
       SetsUsernameKeeps, ReauthenticatesKeeps, SetsPasswordKeeps, DropsSessionsKeeps DEF Request
<1>4. CASE UNCHANGED vars
  <2>1. StoreGoesOn /\ RowsFromRows /\ ClientsGoOn
    BY <1>4, StoreStays, PanelStays, ClientsStay DEF vars, panel, IInv
  <2>2. \A c \in Clients : HandlerOK(c)'
    BY <1>4, <2>1, HandlerKept DEF vars
  <2>3. TypeOK'
    BY <1>4 DEF IInv, TypeOK, vars, panel, store, memory, refusals
  <2> QED
    BY <1>4, <2>1, <2>2, <2>3, RowsKept DEF IInv, StoreGoesOn, vars, refusals
<1> QED
  BY <1>1, <1>2, <1>3, <1>4, ShellKeeps, MovesKeeps, RestartPanelKeeps DEF Next

------------------------------------------------------------------------------
(* Every cookie, row and handler of the panel keeps to the invariant above. *)
THEOREM IInvCorrect == Spec => []IInv
BY InvInit, Steps, PTL DEF Spec

(* Every variable keeps its type. *)
THEOREM TypeCorrect == Spec => []TypeOK
<1>1. IInv => TypeOK
  BY DEF IInv
<1> QED
  BY <1>1, IInvCorrect, PTL

(* A cookie opens the panel only as an administrator whose present password its
   holder has known (api.go login, authenticate; account.go changePassword). *)
THEOREM AlwaysNeedsPassword == Spec => []SessionNeedsPassword
<1>1. IInv => SessionNeedsPassword
  BY DEF IInv, RowOK, Rows, SessionNeedsPassword, Opens
<1> QED
  BY <1>1, IInvCorrect, PTL

(* A session that was once refused is refused for good, but for one whose row
   stayed on disk and a panel that has installed a list other than the file's
   (api.go authenticate, admins.go load). *)
THEOREM AlwaysRefused == Spec => []RefusedForGood
<1>1. IInv => RefusedForGood
  BY DEF IInv, RowOK, Rows, RefusedForGood, Opens, Backed
<1> QED
  BY <1>1, IInvCorrect, PTL

------------------------------------------------------------------------------
(* As long as the panel has installed no list but the file's, its saves and the
   shell's commands are what AdminList promises of every writer: one edit of the
   list in the file. *)
FileEdited == ~strayed /\ ~missing /\ ~missing' => AL!Edit

LEMMA FileSteps == IInv /\ [Next]_vars => [FileEdited]_file
<1> SUFFICES ASSUME IInv, [Next]_vars, file' # file, ~strayed, ~missing PROVE AL!Edit
  BY DEF FileEdited
<1>1. ASSUME NEW c \in Clients, SetsUsername(c) PROVE AL!Edit
  <2>1. PICK a \in admins, n \in Names :
          /\ admins = file /\ ~AL!Taken(admins \ {a}, n)
          /\ file' = (admins \ {a}) \cup {AL!WithName(a, n)}
    BY <1>1 DEF SetsUsername, Saves, IInv, store
  <2>2. file' \in AL!Renamings(file)
    <3> DEFINE To(x) == {(file \ {x}) \cup {AL!WithName(x, m)} :
                           m \in {y \in Names : ~AL!Taken(file \ {x}, y)}}
    <3>1. file' \in To(a) /\ a \in file
      BY <2>1
    <3> HIDE DEF To
    <3>2. file' \in UNION {To(x) : x \in file}
      BY <3>1
    <3> QED
      BY <3>2 DEF To, AL!Renamings
  <2>3. a.id \in Draws
    BY DEF IInv, TypeOK, AL!Lists, AL!Admin
  <2>4. AL!IsEdit(file, file')
    BY <2>2, <2>3 DEF AL!IsEdit, AL!Edits
  <2>5. file' \in AL!Lists
    BY <1>1, SetsUsernameKeeps DEF IInv, TypeOK
  <2> QED
    BY <2>4, <2>5 DEF AL!Edit
<1>2. ASSUME NEW c \in Clients, SetsPassword(c) PROVE AL!Edit
  <2>1. PICK a \in admins, d \in Draws \ drawn :
          admins = file /\ file' = (admins \ {a}) \cup {AL!WithHash(a, d)}
    BY <1>2 DEF SetsPassword, Saves, IInv, store
  <2>2. file' \in AL!NewPasswords(file, d)
    BY <2>1 DEF AL!NewPasswords
  <2>3. AL!IsEdit(file, file')
    BY <2>2 DEF AL!IsEdit, AL!Edits
  <2>4. file' \in AL!Lists
    BY <1>2, SetsPasswordKeeps DEF IInv, TypeOK
  <2> QED
    BY <2>3, <2>4 DEF AL!Edit
<1>3. CASE Shell
  <2>1. PICK d \in Draws \ drawn : file' \in AL!Edits(file, d)
    BY <1>3 DEF Shell, Content
  <2>2. file' \in AL!Lists /\ AL!IsEdit(file, file')
    BY <2>1, EditOutcome DEF IInv, TypeOK, AL!IsEdit
  <2> QED
    BY <2>2 DEF AL!Edit
<1>4. ASSUME NEW c \in Clients, Login(c) \/ Logout(c) PROVE FALSE
  BY <1>4 DEF Login, LoginVerifies, LoginIssues, Logout, store
<1>5. ASSUME NEW c \in Clients, Request(c), ~SetsUsername(c), ~SetsPassword(c) PROVE FALSE
  BY <1>5 DEF Request, Throttled, Reloads, Reads, Swaps, Takes, Looks, Checks, Answers, FindsSelf,
       Reauthenticates, DropsSessions, SignsBackIn, store
<1>6. ~RestartPanel /\ ~Moves /\ ~UNCHANGED vars
  BY DEF RestartPanel, Takes, Moves, vars, store
<1> QED
  BY <1>1, <1>2, <1>3, <1>4, <1>5, <1>6 DEF Next

(* Until the panel installs a list that is not the file's, every change made to
   admins.json where it is, by the account page or from the shell, is one edit of
   the list in it: none is lost (account.go, cli/users.go over store/admins.go). *)
THEOREM FileIsAdminList == Spec => [][FileEdited]_file
BY FileSteps, IInvCorrect, PTL DEF Spec
==============================================================================
