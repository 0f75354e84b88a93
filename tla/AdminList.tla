------------------------------ MODULE AdminList ------------------------------
(***************************************************************************)
(* What admins.json promises, with every writer reduced to one atomic      *)
(* step: the file holds a list of administrators in which no two share an  *)
(* id or a (case-folded) username, and whoever writes it turns the list    *)
(* that is in the file into that list with one edit made to it.            *)
(*                                                                         *)
(* AdminsFile is the detailed protocol - processes, mutexes, stat and      *)
(* rename - and is shown to implement this module when no write falls in   *)
(* another thread's read-to-stat or stat-to-rename window.                 *)
(***************************************************************************)

CONSTANTS
    Draws,      \* random ids and bcrypt hashes; a draw never comes up twice
    Names       \* usernames after normalizeUsername

Admin == [id : Draws, name : Names, hash : Draws]

(* What load accepts: ids and usernames are both keys of the list. *)
IsValid(list) ==
    \A a, b \in list : (a.id = b.id \/ a.name = b.name) => a = b

Lists == SUBSET Admin

Taken(list, name) == \E a \in list : a.name = name

WithHash(a, d) == [id |-> a.id, name |-> a.name, hash |-> d]

WithName(a, n) == [id |-> a.id, name |-> n, hash |-> a.hash]

(* The lists one edit away from a list, by a process that drew d. *)
Creations(list, d) ==
    {list \cup {[id |-> d, name |-> n, hash |-> d]} :
        n \in {m \in Names : ~Taken(list, m) /\ \A a \in list : a.id # d}}

NewPasswords(list, d) == {(list \ {a}) \cup {WithHash(a, d)} : a \in list}

Renamings(list) ==
    UNION {{(list \ {a}) \cup {WithName(a, n)} : n \in {m \in Names : ~Taken(list \ {a}, m)}} :
        a \in list}

Removals(list) == {list \ {a} : a \in list}

Edits(list, d) ==
    Creations(list, d) \cup NewPasswords(list, d) \cup Renamings(list) \cup Removals(list)

IsEdit(list, new) == \E d \in Draws : new \in Edits(list, d)

------------------------------------------------------------------------------
VARIABLES
    status,     \* whether the file holds a list, is missing, or is bad
    file        \* the list it holds, {} when it holds none

Init ==
    \/ status = "missing" /\ file = {}
    \/ status = "list" /\ file \in Lists /\ IsValid(file)

(* An edit of the list that is in the file. *)
Edit ==
    /\ status = "list" /\ status' = "list"
    /\ file' \in Lists /\ IsEdit(file, file')

(* A process whose file was deleted under it writes out the list it holds. *)
Recreate ==
    /\ status = "missing" /\ status' = "list"
    /\ file' \in Lists /\ IsValid(file')

(* Somebody with a shell deletes the file, or leaves one that does not load. *)
Tamper == status' \in {"missing", "bad"} /\ file' = {}

Next == Tamper \/ Recreate \/ Edit

Spec == Init /\ [][Next]_<<status, file>>
==============================================================================
