----------------------------- MODULE QueryCache -----------------------------
(***************************************************************************)
(* One entry of the browser's query cache, with the operations of TanStack  *)
(* Query that web/src/queries/hooks.ts and client.ts call on it, and the    *)
(* failures of web/src/api/errors.ts that decide what a query does next.    *)
(*                                                                         *)
(* An entry q holds the data on screen, whether it was written to since it  *)
(* was fetched, the fetch under way ("asked", "waits" for a GET of the      *)
(* panel's, "read" once the server has answered), the mutations that wait   *)
(* for it, and the last one's failure.                                     *)
(***************************************************************************)
EXTENDS Naturals

CONSTANT NoData

Empty == [data |-> NoData, fetch |-> "idle", answer |-> NoData, by |-> {},
          error |-> "", touched |-> FALSE]

IsIdle(q) == q.fetch = "idle"

(* cancelQueries: the fetch is aborted, the data stays. *)
Cancel(q) == [q EXCEPT !.fetch = "idle", !.answer = NoData, !.by = {}]

(* A fetch starts.  invalidateQueries cancels the one under way and starts
   another, on behalf of the mutations in by. *)
Refetch(q, by) == [Cancel(q) EXCEPT !.fetch = "asked", !.by = by]

(* setQueryData, by an optimistic change or its rollback: a success, for the cache. *)
SetData(q, rows) == [q EXCEPT !.data = rows, !.touched = TRUE, !.error = ""]

(* The server answers with its rows as of its rev-th change; the reading began when
   the page had been told of changes up to began. *)
Read(q, rows, rev, began) ==
    [q EXCEPT !.fetch = "read", !.answer = [rows |-> rows, rev |-> rev, began |-> began]]

Land(q) == [Cancel(q) EXCEPT !.data = q.answer.rows, !.error = "", !.touched = FALSE]

------------------------------------------------------------------------------
(* classify: what a response that is not 2xx says.  vlessvmore has no 401: a
   plain 404 is its refusal of the panel's token. *)
Classify(response) ==
    CASE response = "proxy error" -> "unreachable"
      [] response = "401"         -> "unauthorized"
      [] response = "403"         -> "forbidden"
      [] response = "404 json"    -> "not-found"
      [] response = "404 text"    -> "refused"
      [] response = "400"         -> "bad-request"
      [] response = "409"         -> "conflict"
      [] OTHER                    -> "server-error"

FailWith(q, failure) == [Cancel(q) EXCEPT !.error = failure]

(* What cannot mend itself. *)
IsTerminal(failure) == failure \in {"refused", "forbidden", "unauthorized"}

(* Mutant of PollsAgain: any failure stops the timer. *)
PollsIfFine(q) == q.error = ""

(* pollWithBackoff: a failing query is polled less and less often, and not at all
   once the failure is terminal. *)
PollsAgain(q) == ~IsTerminal(q.error)
==============================================================================
