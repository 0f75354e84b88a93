----------------------------- MODULE Subscribers -----------------------------
(***************************************************************************)
(* internal/store/subscribers.go: the panel's subscribers, their share     *)
(* tokens and the node accounts attached to them.  The running panel is    *)
(* the only program that writes subscribers.json, and never reads it again *)
(* after it started; an operator with a text editor is the other writer.   *)
(*                                                                         *)
(* A mutator holds the mutex from its edit to the stamp after its save, so *)
(* no handler sees what lies between; the operator's editor and a kill can *)
(* fall in it: between saveLocked's stat and its rename ("renaming"), and  *)
(* between a rename or a load and the stat that follows it ("stamping").   *)
(*                                                                         *)
(* Left out: names, notes and times, and the case of a token.  An account  *)
(* is a node and a user on it.  (size, mtime) is a version, as in          *)
(* AdminsFile.                                                             *)
(***************************************************************************)
EXTENDS Naturals, Sequences, FiniteSets

CONSTANTS
    Ids,            \* subscriber ids: short, so a used one may be drawn again
    Tokens,         \* share tokens: 160 bits, drawn once each
    Accounts,       \* what an entry refers to
    EntryIds, Labels,
    MaxEntries,     \* MaxEntriesPerSubscriber
    MaxVersion      \* bound: how many times the file changes

ASSUME SubscribersAssumption == MaxEntries \in Nat /\ MaxVersion \in Nat

VARIABLES
    status,     \* whether subscribers.json is a list, missing, or bad: load refuses it
    file,       \* the list in it; what a bad file can still be repaired to
    version,    \* its (size, mtime); 0 is the zero stamp
    list, byID, byToken, stamp,
    pc,         \* where the mutator inside the mutex is
    undo,       \* the list it puts back when the save fails
    minted,     \* tokens given to a subscriber so far
    shut,       \* history: links the operator has closed and nobody opened again
    raced       \* history: the file was edited in one of those windows

disk == <<status, file, version>>
memory == <<list, byID, byToken, stamp>>
vars == <<disk, memory, pc, undo, minted, shut, raced>>

Entry == [id : EntryIds, account : Accounts, label : Labels]
Subscriber == [id : Ids, token : Tokens, disabled : BOOLEAN, entries : SUBSET Entry]

InList(l) == {l[n] : n \in DOMAIN l}
IdsOf(l) == {s.id : s \in InList(l)}
TokensOf(l) == {s.token : s \in InList(l)}
OpenTokens(l) == {s.token : s \in {t \in InList(l) : ~t.disabled}}

EntriesValid(es) ==
    /\ Cardinality(es) <= MaxEntries
    /\ \A e, f \in es : (e.id = f.id \/ e.account = f.account) => e = f

(* What load accepts. *)
IsValid(l) ==
    /\ \A m, n \in DOMAIN l : (l[m].id = l[n].id \/ l[m].token = l[n].token) => m = n
    /\ \A s \in InList(l) : EntriesValid(s.entries)

Without(l, n) == SubSeq(l, 1, n - 1) \o SubSeq(l, n + 1, Len(l))

(* Mutant of Reindex: the tokens of those who are gone stay. *)
ReindexGrown(l) ==
    /\ byID' = [i \in IdsOf(l) |-> CHOOSE n \in DOMAIN l : l[n].id = i]
    /\ byToken' = [k \in TokensOf(l) \cup DOMAIN byToken |->
                      IF k \in TokensOf(l) THEN (CHOOSE s \in InList(l) : s.token = k).id
                                           ELSE byToken[k]]

(* reindexLocked: both maps are rebuilt from the list. *)
Reindex(l) ==
    /\ byID' = [i \in IdsOf(l) |-> CHOOSE n \in DOMAIN l : l[n].id = i]
    /\ byToken' = [k \in TokensOf(l) |-> (CHOOSE s \in InList(l) : s.token = k).id]

(* GetByToken: one subscriber, or none.  A token whose id is not in byID would
   lead to the first in the list, as a missing key of a Go map does. *)
PositionOf(i) == IF i \in DOMAIN byID THEN byID[i] ELSE 1

GetByToken(k) ==
    {list[n] : n \in {m \in DOMAIN list : k \in DOMAIN byToken /\ m = PositionOf(byToken[k])}}

StatNow == IF status = "missing" THEN 0 ELSE version

WriteFile(s, l) ==
    /\ version < MaxVersion
    /\ version' = version + 1
    /\ status' = s
    /\ file' = l

Init ==
    /\ status = "missing" /\ file = <<>> /\ version = 1
    /\ list = <<>> /\ byID = <<>> /\ byToken = <<>> /\ stamp = 0
    /\ pc = "idle" /\ undo = <<>>
    /\ minted = {} /\ shut = {} /\ raced = FALSE

------------------------------------------------------------------------------
(* Every mutator ends like this: the edited list goes in, and commitLocked
   reindexes and stats the file.  When it moved, the edit is taken back. *)
Commit(new) ==
    /\ pc = "idle"
    /\ IF status # "missing" /\ version # stamp
       THEN /\ Reindex(list)
            /\ UNCHANGED <<list, pc, undo>>
       ELSE /\ pc' = "renaming" /\ undo' = list /\ list' = new
            /\ Reindex(new)
    /\ UNCHANGED <<disk, stamp, raced>>

Create ==
    \E i \in Ids \ DOMAIN byID, k \in Tokens \ minted :
        /\ Commit(Append(list, [id |-> i, token |-> k, disabled |-> FALSE, entries |-> {}]))
        /\ minted' = minted \cup TokensOf(list')
        /\ UNCHANGED shut

(* mutate: the subscriber under an id becomes another, in place. *)
Mutate(i, s) == Commit([list EXCEPT ![byID[i]] = s]) /\ UNCHANGED minted

(* A patch may set disabled, to what it was as well. *)
Update ==
    \E i \in DOMAIN byID, off \in BOOLEAN :
        /\ Mutate(i, [list[byID[i]] EXCEPT !.disabled = off])
        /\ shut' = IF off THEN shut ELSE shut \ {list[byID[i]].token}

Delete ==
    \E i \in DOMAIN byID : Commit(Without(list, byID[i])) /\ UNCHANGED <<minted, shut>>

MutateEntries(i, es) ==
    Mutate(i, [list[byID[i]] EXCEPT !.entries = es]) /\ UNCHANGED shut

(* Mutants of Attach: the account is not looked for; the record is made anew. *)
AttachUnlooked ==
    \E i \in DOMAIN byID, e \in Entry :
        LET es == list[byID[i]].entries IN
        /\ Cardinality(es) < MaxEntries
        /\ \A f \in es : f.id # e.id
        /\ MutateEntries(i, es \cup {e})

AttachAnew ==
    \E i \in DOMAIN byID, e \in Entry :
        LET es == list[byID[i]].entries IN
        /\ Cardinality(es) < MaxEntries
        /\ \A f \in es : f.account # e.account /\ f.id # e.id
        /\ Mutate(i, [list[byID[i]] EXCEPT !.entries = es \cup {e}, !.disabled = FALSE])
        /\ UNCHANGED shut

Attach ==
    \E i \in DOMAIN byID, e \in Entry :
        LET es == list[byID[i]].entries IN
        /\ Cardinality(es) < MaxEntries
        /\ \A f \in es : f.account # e.account /\ f.id # e.id
        /\ MutateEntries(i, es \cup {e})

UpdateEntry ==
    \E i \in DOMAIN byID, label \in Labels :
        LET es == list[byID[i]].entries IN
        \E e \in es : MutateEntries(i, (es \ {e}) \cup {[e EXCEPT !.label = label]})

Detach ==
    \E i \in DOMAIN byID :
        LET es == list[byID[i]].entries IN
        \E e \in es : MutateEntries(i, es \ {e})

(* A read, or a request that names nothing there is or breaks a rule. *)
Refused ==
    /\ pc = "idle"
    /\ UNCHANGED vars

------------------------------------------------------------------------------
Rename ==
    /\ pc = "renaming"
    /\ WriteFile("list", list)
    /\ shut' = shut \cup (TokensOf(undo) \ OpenTokens(list))
    /\ pc' = "stamping"
    /\ UNCHANGED <<memory, undo, minted, raced>>

(* Mutant of SaveFails: the edit stays. *)
SaveFailsKeepsEdit ==
    /\ pc = "renaming"
    /\ pc' = "idle" /\ undo' = <<>>
    /\ UNCHANGED <<disk, memory, minted, shut, raced>>

(* The write fails before the rename; the mutator restores list and indexes. *)
SaveFails ==
    /\ pc = "renaming"
    /\ list' = undo
    /\ Reindex(undo)
    /\ pc' = "idle" /\ undo' = <<>>
    /\ UNCHANGED <<disk, stamp, minted, shut, raced>>

(* stampLoadedLocked; the mutex is released, the change acknowledged. *)
Restamp ==
    /\ pc = "stamping"
    /\ stamp' = StatNow
    /\ pc' = "idle" /\ undo' = <<>>
    /\ UNCHANGED <<disk, list, byID, byToken, minted, shut, raced>>

(* Mutant of RestartPanel: a bad file is an empty list. *)
RestartPanelLenient ==
    LET found == IF status = "bad" THEN <<>> ELSE file IN
    /\ list' = found /\ Reindex(found)
    /\ pc' = "stamping" /\ undo' = <<>> /\ raced' = FALSE
    /\ UNCHANGED <<disk, stamp, minted, shut>>

(* The panel is killed, whatever it was doing, and starts: OpenSubscribers reads
   the file, and has yet to stamp it. *)
RestartPanel ==
    /\ status # "bad"
    /\ list' = file /\ Reindex(file)
    /\ pc' = "stamping" /\ undo' = <<>> /\ raced' = FALSE
    /\ UNCHANGED <<disk, stamp, minted, shut>>

------------------------------------------------------------------------------
(* An operator edits the file: drops a subscriber, flips its switch, breaks or
   repairs the syntax, or deletes the file. *)
HandEdits(l) ==
    {l} \cup {Without(l, n) : n \in DOMAIN l}
        \cup {[l EXCEPT ![n].disabled = ~@] : n \in DOMAIN l}

Outside ==
    /\ \/ /\ status # "missing"
          /\ \E l \in HandEdits(file) : WriteFile("list", l) /\ shut' = shut \ OpenTokens(l)
       \/ status = "list" /\ WriteFile("bad", file) /\ UNCHANGED shut
       \/ status # "missing" /\ WriteFile("missing", <<>>) /\ UNCHANGED shut
    /\ raced' = (raced \/ pc # "idle")
    /\ UNCHANGED <<memory, pc, undo, minted>>

Mutator == Create \/ Update \/ Delete \/ Attach \/ UpdateEntry \/ Detach \/ Refused

Next == Mutator \/ Rename \/ SaveFails \/ Restamp \/ RestartPanel \/ Outside

Spec == Init /\ [][Next]_vars

------------------------------------------------------------------------------
TypeOK ==
    /\ status \in {"list", "missing", "bad"} /\ version \in Nat
    /\ \A l \in {file, list, undo} : l \in Seq(Subscriber)
    /\ byID \in [IdsOf(list) -> DOMAIN list]
    /\ byToken \in [TokensOf(list) -> IdsOf(list)]
    /\ stamp \in Nat
    /\ pc \in {"idle", "renaming", "stamping"}
    /\ minted \subseteq Tokens /\ shut \subseteq Tokens /\ raced \in BOOLEAN

(* A share link opens the subscriber it was minted for, and every subscriber's
   link opens, after whatever was deleted, rolled back, loaded or given a used
   id: "a partially-updated index here means one person's link resolving to
   another person's accounts". *)
LinkFindsItsOwner ==
    pc = "idle" => \A k \in Tokens : GetByToken(k) = {s \in InList(list) : s.token = k}

(* Neither the panel nor a hand edit of what it wrote leaves a file the next
   start refuses for a shared token, id or account, or for too many entries. *)
FileLoads == IsValid(file)

(* A save replaces what the panel last read or wrote, and never a file that does
   not load, unless somebody edited it in one of the panel's windows (saveLocked:
   "refusing to clobber an edit made underneath us"). *)
NeverClobbers ==
    [][Rename /\ ~raced => status = "missing" \/ (status = "list" /\ file = undo)]_vars

(* What the panel answers from is what is on disk, as long as the file has the
   stamp of its last load or save: a refused or failed save leaves nothing
   behind in memory, an acknowledged one survives a kill. *)
MemoryIsOnDisk ==
    pc = "idle" /\ ~raced /\ status = "list" /\ stamp = version => list = file

(* A link that was deleted or disabled stays shut through failing saves, hand
   edits, a deleted file and restarts, until somebody enables it
   ("Revoking a leaked link means Disabled, or deleting the record"). *)
ShutLinksStayShut ==
    /\ pc = "idle" => shut \cap OpenTokens(list) = {}
    /\ shut \cap OpenTokens(file) = {}
==============================================================================
