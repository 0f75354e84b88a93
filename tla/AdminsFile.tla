----------------------------- MODULE AdminsFile -----------------------------
(***************************************************************************)
(* internal/store/admins.go: the administrator list, held in memory by     *)
(* every process that opened admins.json and written by more than one of   *)
(* them.  The panel's request handlers share one store.Admins guarded by   *)
(* its mutex; each `vlessvmorectl users ...` command is a process with a   *)
(* store.Admins of its own.  Nothing locks the file across processes:      *)
(* saveLocked compares the file's (size, mtime) with the pair stamped at   *)
(* the last load or save and refuses to write when they differ.            *)
(*                                                                         *)
(* A step is what the code does between two points where another process,  *)
(* or another handler that does not need the mutex, can get in:            *)
(*   load            ReadFile, then Swap (list and stamp, under the mutex) *)
(*   ReloadIfChanged SampleStamp, StatFile, then load                      *)
(*   saveLocked      the edit and the stat, then Rename, then Restamp, all *)
(*                   under the mutex                                       *)
(* (size, mtime) is abstracted to a version that no two contents share.    *)
(***************************************************************************)
EXTENDS Naturals

CONSTANTS
    Requests,       \* handlers of the panel, all on the panel's store.Admins
    Commands,       \* users commands, each a process with its own store.Admins
    Panel,          \* names the panel's store.Admins
    Draws, Names,
    InitialFiles,   \* lists admins.json may hold when the panel starts; {} if not there
    Tampers,        \* what somebody with a shell may make of the file
    NoThread,
    MaxVersion      \* bound: how many times the file changes

ASSUME ActorsAssumption ==
    /\ Requests \cap Commands = {}
    /\ Panel \notin Commands
    /\ NoThread \notin Requests \cup Commands
    /\ Tampers \subseteq {"missing", "bad"}
    /\ MaxVersion \in Nat

VARIABLES
    status,     \* whether admins.json holds a list, is missing, or is bad: load refuses it
    file,       \* the list it holds, {} when it holds none
    version,    \* its (size, mtime); never 0, which is the zero stamp
    list,       \* list[i]: Admins.list of store i
    stamp,      \* stamp[i]: Admins.loadedSize and loadedModTime; 0 is the zero stamp
    holder,     \* holder[i]: the thread inside Admins.mu across steps, or NoThread
    pc,         \* where each thread is
    sampled,    \* sampled[t]: the stamp ReloadIfChanged copied before unlocking
    buffer,     \* buffer[t]: what readJSON decoded, not yet swapped in
    before,     \* before[t]: the list to put back when the save fails
    drawn,      \* every id and hash drawn so far
    past        \* every list that has been in the file; nothing reads it

vars == <<status, file, version, list, stamp, holder, pc, sampled, buffer, before, drawn, past>>

Threads == Requests \cup Commands
Stores == Commands \cup {Panel}
StoreOf(t) == IF t \in Requests THEN Panel ELSE t

AL == INSTANCE AdminList

(* What OpenAdmins accepts, the panel being able to start. *)
ASSUME InitialFilesAssumption ==
    InitialFiles \subseteq AL!Lists /\ \A f \in InitialFiles : AL!IsValid(f)

Free(t) == holder[StoreOf(t)] = NoThread

Goto(t, label) == pc' = [pc EXCEPT ![t] = label]

(* "swapping" is the end of a ReloadIfChanged; "opening" that of the Reload or
   Open that comes before a save. *)
Labels == {"idle", "sampled", "stale", "swapping", "opening", "ready", "renaming", "stamping"}

(* What os.Stat says of the file, as stampLoadedLocked records it. *)
StatNow == IF status = "missing" THEN 0 ELSE version

WriteFile(s, l) ==
    /\ version < MaxVersion
    /\ version' = version + 1
    /\ status' = s
    /\ file' = l

Init ==
    /\ file \in InitialFiles
    /\ status = IF file = {} THEN "missing" ELSE "list"
    /\ version = 1
    /\ list = [i \in Stores |-> IF i = Panel THEN file ELSE {}]
    /\ stamp = [i \in Stores |-> IF i = Panel THEN StatNow ELSE 0]
    /\ holder = [i \in Stores |-> NoThread]
    /\ pc = [t \in Threads |-> "idle"]
    /\ sampled = [t \in Threads |-> 0]
    /\ buffer = [t \in Threads |-> {}]
    /\ before = [t \in Threads |-> {}]
    /\ drawn = {a.id : a \in file} \cup {a.hash : a \in file}
    /\ past = {{}, file}

------------------------------------------------------------------------------
(* ReloadIfChanged, called by authenticate on a request with a cookie.  The
   one-second throttle only decides whether a request gets here at all. *)
SampleStamp(t) ==
    /\ t \in Requests
    /\ pc[t] = "idle"
    /\ Free(t)
    /\ sampled' = [sampled EXCEPT ![t] = stamp[Panel]]
    /\ Goto(t, "sampled")
    /\ UNCHANGED <<status, file, version, list, stamp, holder, buffer, before, drawn, past>>

(* Mutant of StatFile: a change too close to the last one goes unnoticed. *)
StatFileCoarse(t) ==
    /\ pc[t] = "sampled"
    /\ sampled' = [sampled EXCEPT ![t] = 0]
    /\ Goto(t, IF status = "missing" \/ version \in {sampled[t], sampled[t] + 1} THEN "idle" ELSE "stale")
    /\ UNCHANGED <<status, file, version, list, stamp, holder, buffer, before, drawn, past>>

(* A file that is gone, or that still has the sampled stamp, is left alone. *)
StatFile(t) ==
    /\ pc[t] = "sampled"
    /\ sampled' = [sampled EXCEPT ![t] = 0]
    /\ Goto(t, IF status = "missing" \/ version = sampled[t] THEN "idle" ELSE "stale")
    /\ UNCHANGED <<status, file, version, list, stamp, holder, buffer, before, drawn, past>>

(* readJSON and validation, outside the mutex.  A handler about to write calls
   Reload and a command calls Open, so both start here; so does ReloadIfChanged
   once it has seen the file move.  A bad file fails the load. *)
ReadFile(t) ==
    /\ pc[t] \in {"idle", "stale"}
    /\ IF status = "bad"
       THEN Goto(t, "idle") /\ UNCHANGED buffer
       ELSE /\ Goto(t, IF pc[t] = "idle" THEN "opening" ELSE "swapping")
            /\ buffer' = [buffer EXCEPT ![t] = file]
    /\ UNCHANGED <<status, file, version, list, stamp, holder, sampled, before, drawn, past>>

(* The end of load: under the mutex, swap the list in and stat the file. *)
Swap(t) ==
    /\ pc[t] \in {"swapping", "opening"}
    /\ Free(t)
    /\ list' = [list EXCEPT ![StoreOf(t)] = buffer[t]]
    /\ stamp' = [stamp EXCEPT ![StoreOf(t)] = StatNow]
    /\ buffer' = [buffer EXCEPT ![t] = {}]
    /\ Goto(t, IF pc[t] = "opening" THEN "ready" ELSE "idle")
    /\ UNCHANGED <<status, file, version, holder, sampled, before, drawn, past>>

------------------------------------------------------------------------------
(* Mutant of Save: no stat before the write. *)
SaveUnchecked(t, new, draws) ==
    LET i == StoreOf(t) IN
    /\ pc[t] = "ready"
    /\ Free(t)
    /\ drawn' = drawn \cup draws
    /\ Goto(t, "renaming")
    /\ holder' = [holder EXCEPT ![i] = t]
    /\ before' = [before EXCEPT ![t] = list[i]]
    /\ list' = [list EXCEPT ![i] = new]
    /\ UNCHANGED <<status, file, version, stamp, sampled, buffer, past>>

(* Lock, edit the list, and stat the file at the top of saveLocked.  When the
   file moved, the edit is rolled back before the mutex is released. *)
Save(t, new, draws) ==
    LET i == StoreOf(t) IN
    /\ pc[t] = "ready"
    /\ Free(t)
    /\ drawn' = drawn \cup draws
    /\ IF status # "missing" /\ version # stamp[i]
       THEN /\ Goto(t, "idle")
            /\ UNCHANGED <<list, holder, before>>
       ELSE /\ Goto(t, "renaming")
            /\ holder' = [holder EXCEPT ![i] = t]
            /\ before' = [before EXCEPT ![t] = list[i]]
            /\ list' = [list EXCEPT ![i] = new]
    /\ UNCHANGED <<status, file, version, stamp, sampled, buffer, past>>

(* `users add`: the username must be free, the id and the hash are drawn. *)
Create(t) ==
    /\ t \in Commands
    /\ \E n \in Names, d \in Draws \ drawn :
        /\ ~AL!Taken(list[t], n)
        /\ Save(t, list[t] \cup {[id |-> d, name |-> n, hash |-> d]}, {d})

(* `users passwd` by name, the account page's change by id. *)
SetPassword(t) ==
    LET l == list[StoreOf(t)] IN
    \E a \in l, d \in Draws \ drawn :
        Save(t, (l \ {a}) \cup {AL!WithHash(a, d)}, {d})

(* Mutant of SetUsername: no conflict check. *)
SetUsernameUnchecked(t) ==
    LET l == list[StoreOf(t)] IN
    \E a \in l, n \in Names : Save(t, (l \ {a}) \cup {AL!WithName(a, n)}, {})

(* `users rename` and the account page: a name held by another record is a
   conflict, one's own name is not. *)
SetUsername(t) ==
    LET l == list[StoreOf(t)] IN
    \E a \in l, n \in Names :
        /\ ~AL!Taken(l \ {a}, n)
        /\ Save(t, (l \ {a}) \cup {AL!WithName(a, n)}, {})

(* Mutant of Delete: nobody counts. *)
DeleteAny(t) ==
    /\ t \in Commands
    /\ \E a \in list[t] : Save(t, list[t] \ {a}, {})

(* `users rm`, without --force: the last administrator stays. *)
Delete(t) ==
    /\ t \in Commands
    /\ \E a \in list[t] : list[t] # {a} /\ Save(t, list[t] \ {a}, {})

(* The operation finds no such admin, a taken name or a wrong password, or the
   operator gives up at the prompt. *)
GiveUp(t) ==
    /\ pc[t] = "ready"
    /\ Goto(t, "idle")
    /\ UNCHANGED <<status, file, version, list, stamp, holder, sampled, buffer, before, drawn, past>>

(* writeJSONAtomic: the rename puts the whole list in place. *)
Rename(t) ==
    /\ pc[t] = "renaming"
    /\ WriteFile("list", list[StoreOf(t)])
    /\ past' = past \cup {list[StoreOf(t)]}
    /\ Goto(t, "stamping")
    /\ UNCHANGED <<list, stamp, holder, sampled, buffer, before, drawn>>

(* Mutant of SaveFails: the edit stays in memory. *)
SaveFailsKeepsEdit(t) ==
    /\ pc[t] = "renaming"
    /\ holder' = [holder EXCEPT ![StoreOf(t)] = NoThread]
    /\ Goto(t, "idle")
    /\ before' = [before EXCEPT ![t] = {}]
    /\ UNCHANGED <<status, file, version, list, stamp, sampled, buffer, drawn, past>>

(* writeJSONAtomic fails before the rename: the caller rolls back, unlocks. *)
SaveFails(t) ==
    LET i == StoreOf(t) IN
    /\ pc[t] = "renaming"
    /\ list' = [list EXCEPT ![i] = before[t]]
    /\ holder' = [holder EXCEPT ![i] = NoThread]
    /\ Goto(t, "idle")
    /\ before' = [before EXCEPT ![t] = {}]
    /\ UNCHANGED <<status, file, version, stamp, sampled, buffer, drawn, past>>

(* stampLoadedLocked after the rename; the mutex is released. *)
Restamp(t) ==
    LET i == StoreOf(t) IN
    /\ pc[t] = "stamping"
    /\ stamp' = [stamp EXCEPT ![i] = StatNow]
    /\ holder' = [holder EXCEPT ![i] = NoThread]
    /\ before' = [before EXCEPT ![t] = {}]
    /\ Goto(t, "idle")
    /\ UNCHANGED <<status, file, version, list, sampled, buffer, drawn, past>>

------------------------------------------------------------------------------
(* A command is killed, or the panel is killed and started again: OpenAdmins
   loads the file before anything is served and refuses to start on a bad one. *)
KillCommand(c) ==
    /\ pc[c] # "idle"
    /\ list' = [list EXCEPT ![c] = {}]
    /\ stamp' = [stamp EXCEPT ![c] = 0]
    /\ holder' = [holder EXCEPT ![c] = NoThread]
    /\ buffer' = [buffer EXCEPT ![c] = {}]
    /\ before' = [before EXCEPT ![c] = {}]
    /\ Goto(c, "idle")
    /\ UNCHANGED <<status, file, version, sampled, drawn, past>>

RestartPanel ==
    /\ status # "bad"
    /\ pc' = [t \in Threads |-> IF t \in Requests THEN "idle" ELSE pc[t]]
    /\ sampled' = [t \in Threads |-> 0]
    /\ buffer' = [t \in Threads |-> IF t \in Requests THEN {} ELSE buffer[t]]
    /\ before' = [t \in Threads |-> IF t \in Requests THEN {} ELSE before[t]]
    /\ holder' = [holder EXCEPT ![Panel] = NoThread]
    /\ list' = [list EXCEPT ![Panel] = file]
    /\ stamp' = [stamp EXCEPT ![Panel] = StatNow]
    /\ UNCHANGED <<status, file, version, drawn, past>>

(* Somebody with a shell deletes the file or leaves one that does not load. *)
Tamper ==
    /\ \E s \in Tampers : s # status /\ WriteFile(s, {})
    /\ UNCHANGED <<list, stamp, holder, pc, sampled, buffer, before, drawn, past>>

Refresh(t) == SampleStamp(t) \/ StatFile(t)

Load(t) == ReadFile(t) \/ Swap(t)

EditStep(t) == Create(t) \/ SetPassword(t) \/ SetUsername(t) \/ Delete(t)

Finish(t) == Rename(t) \/ SaveFails(t) \/ Restamp(t)

Next ==
    \/ \E t \in Threads : Refresh(t) \/ Load(t) \/ EditStep(t) \/ GiveUp(t) \/ Finish(t)
    \/ \E c \in Commands : KillCommand(c)
    \/ RestartPanel
    \/ Tamper

Spec == Init /\ [][Next]_vars

(* The assumption under which the stat check is enough: the file does not
   change between another thread's read and its stamp, nor between another
   thread's stat and its own rename and stamp. *)
InWindow(t) == pc[t] \in {"swapping", "opening", "renaming", "stamping"}

Undisturbed ==
    \A t \in Threads : InWindow(t) /\ pc'[t] = pc[t] => UNCHANGED <<status, file, version>>

QuietNext == Next /\ Undisturbed

QuietSpec == Init /\ [][QuietNext]_vars

(* A handler that started goes on to finish, and requests that carry a cookie
   keep coming: the panel's pages poll.  Nothing is assumed of commands. *)
RequestStep(t) ==
    \/ Refresh(t) \/ Load(t) \/ EditStep(t) \/ GiveUp(t) \/ Finish(t)

FairQuietSpec ==
    QuietSpec /\ \A t \in Requests : WF_vars(RequestStep(t) /\ Undisturbed)

------------------------------------------------------------------------------
(* Every variable has its type. *)
TypeOK ==
    /\ status \in {"list", "missing", "bad"}
    /\ file \in AL!Lists
    /\ version \in Nat \ {0}
    /\ list \in [Stores -> AL!Lists]
    /\ stamp \in [Stores -> Nat]
    /\ holder \in [Stores -> Threads \cup {NoThread}]
    /\ pc \in [Threads -> Labels]
    /\ sampled \in [Threads -> Nat]
    /\ buffer \in [Threads -> AL!Lists]
    /\ before \in [Threads -> AL!Lists]
    /\ drawn \subseteq Draws
    /\ past \subseteq AL!Lists

(* Whatever the interleaving, no panel or command ever leaves a file that the
   next start refuses: two administrators with one id or one username
   (admins.go load, OpenAdmins: "fatal, unlike during a reload"). *)
FileLoads == AL!IsValid(file)

(* Whatever the interleaving, a list that other handlers can see is one the file
   has held: a refused or failed save leaves no edit behind in memory, which
   authenticate, Verify and the next save would go on to use. *)
MemoryWasOnDisk == \A i \in Stores : holder[i] = NoThread => list[i] \in past

(* Whatever the interleaving, removals without --force never leave a file with
   nobody in it, though each process counts its own copy of the list
   (users.go: "refusing to remove the last administrator"). *)
SomebodyLeft == status = "list" => file # {}

(* A store whose stamp matches the file holds what is in the file.  If not, no
   reload ever corrects it and its next save overwrites the difference. *)
HonestStamp ==
    \A i \in Stores :
        holder[i] = NoThread /\ status # "missing" /\ stamp[i] = version => list[i] = file

(* A save replaces the file with one edit of what the file then held, so that no
   acknowledged change is lost (admins.go saveLocked: "refusing to clobber an
   edit made underneath us"). *)
WritesAreEdits ==
    [][(\E t \in Threads : Rename(t)) => AL!Edit \/ AL!Recreate]_vars

(* The protocol implements the atomic list. *)
ImplementsAdminList == AL!Spec

(* A running panel comes to hold the file that was last written, whoever wrote
   it (README: "serve notices an out-of-band change to admins.json"). *)
Converges ==
    <>[](status # "list" \/ (holder[Panel] = NoThread => list[Panel] = file))
==============================================================================
