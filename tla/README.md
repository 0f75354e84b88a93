# A verification development for vlessvmorectl

TLA+ modules of the program's concurrent and failing parts, TLC configurations
that model-check them on small instances, and TLAPS proofs of the properties
that matter most. Paths below are relative to the repository's root, which the
machine-readable index `PROJECT.json` calls `src/`.

    tlc -workers 2 -config Sessions.cfg MCSessions.tla      # one run
    tlapm SessionsProofs.tla                                # one proof

`PROJECT.json` lists the components, the runs, for every property a small bug in
the model that the run then reports (a *mutant*, next to the definition it
spoils), for every definition the lines it models, the findings, and the hazards
the properties are aimed at.

## 1. The system

vlessvmorectl is a control panel for a set of proxy nodes. One Go process,
`vlessvmorectl serve`, holds all state in memory and mirrors it to a few JSON
files; short-lived commands (`vlessvmorectl users ...`) edit one of those files
from a second process; a separate backup program runs on a timer; a React
application in the browser talks to the panel, and through it to the nodes.

    React panel: query cache, drawers, dialogs, WebAuthn queue;  share page
       |
    browser --HTTP--> api handlers --+--> session.Table ---> sessions.json
                       |             +--> store.Admins ----> admins.json <--- users commands
                       |             +--> store.Subscribers > subscribers.json <- an editor
                       |             +--> store.Passkeys ---> passkeys.json
                       |             +--> loginLimiter, accessLimiter, challengeStore
                       +--> node proxy / share page --HTTP--> the nodes
    backup loop: archive of the data directory --> local directory, remote storage

Handlers run concurrently. Every table has a mutex of its own; only PruneOrphans
holds two (it asks Admins under the lock of Passkeys, and nobody asks the other way
round); and bcrypt, the reading of files and the requests to nodes run outside all
of them. So the panel's consistency rests on what happens *between* acquisitions.

The frontend is concurrent too, without threads: JavaScript runs to its next await,
and between two awaits come clicks, answers in any order, timers, unmounts and the
browser's own prompts. Its state lives in one query cache, in hooks that a component
takes with it when it goes, and in two module-level variables (the pending ceremony
of `webauthn.ts`, the marks of `reloadWatch.ts`). So what the panel shows rests on
what happens *between* awaits.

### 1.1 Inventory

| component (source) | state | operations | what makes it correct |
|---|---|---|---|
| Administrator list (`internal/store/admins.go`, `jsonfile.go`) | list and indexes, `(size, mtime)` stamp, `admins.json` | load, ReloadIfChanged, Reload, Create, SetPassword, SetUsername, Delete, saveLocked | the file always loads; nobody is locked out; a refused save leaves no trace; a save loses nobody's edit; the panel converges on the file |
| `users` commands (`internal/cli/users.go`) | a list per process | add, passwd, rename, rm | as above, across processes; the last administrator stays |
| Session table (`internal/session/session.go`, `internal/store/sessions.go`) | records by key, `sessions.json` | Issue, Lookup, Delete, DeleteAdmin, Sweep, New | sessions live as long as they are used; signed out means out; bounded; the file restores what was live |
| Signing in, account page (`internal/api/api.go`, `account.go`) | cookies; copies of records that handlers hold between locks | login, logout, authenticate, changePassword, changeUsername | a cookie opens the panel only to somebody who knows the present password; revocation takes hold |
| Login and share-link limiters (`internal/api/ratelimit.go`) | fixed windows | allow, allowGlobal, fail, succeed, reap | guesses are bounded |
| Passkey ceremonies (`internal/api/challenges.go`) | pending states | issue, take | a state is used once, by its owner, and no flood evicts it |
| Passkeys (`internal/store/passkeys.go`, `internal/api/passkeys.go`) | credentials, handles, three indexes, `passkeys.json`; authenticators | enrol, sign in, rename, remove, prune | a credential has one owner; a removed administrator's opens nothing |
| Subscribers (`internal/store/subscribers.go`) | list, two indexes, stamp, `subscribers.json` | Create, Update, Delete, Attach, UpdateEntry, Detach, GetByToken | a link finds its owner; closed links stay closed; edits made underneath are kept |
| Share page (`internal/api/access.go`, `web/src/access`) | the request's state; per load the calls, the slots, the budget | accessHandler, collect, fillEntry, nodeGetStatus; AccessPage, entryStatus | no deadlock on the slots; every load ends; a card says only what the node said |
| Node proxy (`internal/api/proxy.go`, `node.go`) | GETs in flight | singleFlightGet, forwarding | whoever asks while an identical GET is under way gets its answer, which began earlier; the leader outlives its caller (modelled as `SharePage` and `PanelLists` live with it) |
| Backups (`backup/`) | archives here and remotely | backup, retention | the newest is kept; retention is stable (not modelled yet) |
| Signing in, in the browser (`web/src/features/passkeys`, `routes/LoginPage.tsx`, `App.tsx`) | `pending`, the form's hooks, the browser's one WebAuthn request, the cache's identity | abortPendingCeremony, exclusive, the autofill effect, submit, add, identityChanged, qc.clear | what is stopped stays stopped; nobody waits for the visitor; the cache is the present identity's |
| Lists and drawers (`web/src/queries`, `UserDrawer.tsx`, `SubscriberDrawer.tsx`) | a cached list with its fetch, changes under way, the reload banner, the open drawer | useReloadAware and the mutations built on it, onMutate, onError, onSettled, pollWithBackoff, ReloadWatch | no older list replaces an answer; optimistic rows end with their change; the banner tells the truth; the page agrees in the end |
| Dialogs that change several things (`CreateUserDialog.tsx`, `AttachEntryDialog.tsx`) | ticks, submissions that outlive the dialog | submit, Cancel, reopen, useCreateUserOnServers | partial failure leaves selected exactly what failed; nobody is enrolled twice |
| Views (`web/src/components`, the rest of `routes` and `features`) | filters, menus, forms | rendering | not modelled beyond the above |
| Configuration, authenticator names, static files | none after startup | parsing, lookup | not modelled |

### 1.2 What is hard

* **Several writers, no lock.** Commands and the panel write `admins.json` with
  nothing but a stat before the rename, and load reads the file outside the mutex
  and stamps it inside.
* **State read before an unlock and used after it.** `login` verifies a copy and
  issues later; `authenticate` reloads, looks up and checks under three
  acquisitions; `changePassword` finds itself, proves, saves, drops and issues
  under five; every handler carries a clock reading older than the lock.
* **Shared GETs** (`proxy.go`): an answer may be older than the question, and neither an
  abort nor a budget ends the request it comes from.
* **Edits made in memory before the save that may refuse them.**
* **Writes whose failure is logged and ignored** (`sessions.json`), and kills
  between any two of them.
* **Throttles**: a reload at most once a second, a session written at most once
  per `Refresh`, fixed windows that meet back to back.
* **Full tables**: sessions and ceremonies evict; who pays?
* **Aborting is not settling** (`webauthn.ts`): the browser refuses a second request
  until the first has let go, and four things want to stop the autofill request.
* **Answers out of order**: a poll that was read before a change lands after it; two
  answers that say opposite things of the same node's reload; a rollback to a snapshot
  that another change has overtaken.
* **Components go, their requests do not**: a drawer, a dialog or a whole subtree is
  unmounted while what it sent is under way, and comes back fresh.
* **Half of it failed**: nodes that took the user and nodes that did not; accounts
  attached one after another while boxes are ticked.
* **A node that accepts connections and never answers**, with eight slots to wait in.

Every item is a hazard of `PROJECT.json` with its line, and each names the
properties that would catch it, or the part of the plan it waits for.

## 2. Modules

| module | what it is | state and actions against the code |
|---|---|---|
| `AdminList` | abstract: `admins.json` under atomic edits | one list with unique ids and names; `Edit`, `Recreate`, `Tamper` |
| `AdminsFile` | the real protocol of `store.Admins`: threads, mutexes, stat, rename | `list[i]`/`stamp[i]` are `Admins.list` and `loadedSize/loadedModTime` of process i, `holder[i]` its mutex; `SampleStamp`, `StatFile`, `ReadFile`, `Swap` are the pieces of ReloadIfChanged/load; `Create`...`Delete` with `Save` are the mutators up to the stat in saveLocked, then `Rename`, `SaveFails`, `Restamp` |
| `SessionTable` | every method of `session.Table` as an operator | `table` is `byID`, `disk` is `sessions.json`, `behind` says the last write or read failed; `Flush` may fail |
| `Sessions` | `SessionTable` under a clock, with histories of use | handlers bring a `now` up to `Lag` old; `Reboot` is `New` after any end |
| `SignIn` | `SessionTable` + `AdminList` + handlers | one action per stretch between two acquisitions of login, logout, authenticate, changePassword, changeUsername; a load is `Reads` and `Swaps`, for the file is read outside the mutex, into `buffer[c]`; `Shell` is one `users` command, `Moves` somebody moving the file aside or back |
| `Subscribers` | `store.Subscribers` and an editor | list positions, `byID`, `byToken` as in the code; `Commit` is commitLocked up to the stat, then `Rename`, `SaveFails`, `Restamp`; `Outside` edits the file at any time |
| `Throttle` | `loginLimiter` and `challengeStore` with the handlers that go through both | `Roll`, `Reap`, `CountRequest`, `Blocked`; `Issue`, `Take`; handlers go on with the clock they read first |
| `Passkeys` | `store.Passkeys`, the enrolment and sign-in handlers, the authenticators | list positions, `byAdminID`, `byHandle`, `byCredID` as in the code, `disk` is `passkeys.json`; `Commit` is commitLocked with its caller's rollback; `tab[d]` is a ceremony, or the copies its handler carries between two acquisitions; `keys` is what the authenticators stored |
| `Ceremonies` | signing in and enrolling, as the browser sees it | `pending` is `webauthn.ts`'s, `awaits[c]` the promise an attempt awaits, `slot` the request the browser works on, `mounted` and `latest` are components and what `mutate` last called; `cache` and `asked` are identities, of the data held and of the queries under way (`Asks`, `Lands`, `Refused` for a 401), `SessionEnds` the server's doing; an action is what runs on one event up to the next await; `Settles` is a promise settling, with everybody who awaited it |
| `QueryCache` | an entry of the query cache as an operator algebra | `Refetch`, `Cancel`, `SetData`, `Read`, `Land`, `FailWith` (external, TanStack Query's); `Classify`, `IsTerminal`, `PollsAgain` are `errors.ts` and `client.ts` |
| `PanelLists` | a node's page or the subscribers page over `QueryCache` | `req[c]` is a mutation from `mutate` to the end of its refetch, `before` its rollback snapshot, `mine` whether its hook is still on screen; `get` is the one GET of a node's list under way in the panel, which requests lead or join (`Arrives`, `NodeReads`, `GetEnds`, `OthersRead`); `problem` is the node's mark in ReloadWatch; `Handles` is the server, `OthersChange` other tabs and quotas |
| `EnrolDialog`, `AttachDialog`, `SharePage` | the two dialogs, and the share page with `collect` behind it | `attempt`/`submission` are the async functions that outlive the dialog; `call`, `slots`, `budget` are the fan-out of one load, `flight` the GETs under way in the panel, led by its calls or by others (`OthersAsk`); the histories `been` and `since` say what an account has been since a load or a GET began |
| `Pages` | puts the three and a node's page (`PanelLists`) on one screen each | a behaviour stays on one of them |
| `MC*` | instances for TLC | initial lists, symmetry |
| `AdminsFileProofs`, `SessionsProofs`, `SignInProofs`, `SubscribersProofs`, `ThrottleProofs`, `PasskeysProofs`, `CeremoniesProofs`, `FrontendProofs` (of `PanelLists` and `Pages`) | theorems | section 5 |

How they compose: `SignIn` INSTANCEs `AdminList` (the promise) and EXTENDS
`SessionTable` (the operators). Of the file protocol it carries the window of a load, in
which the list read may become older than the file before it is installed; a save is one
step there, and `AdminsFile`, which takes it apart, is shown to implement `AdminList`. `Sessions` puts the
same operators under a clock, which `SignIn` leaves still. `Passkeys` takes its
administrators from a memory that may reload, empty and fill again at any time, as
`AdminsFile` has it step by step, and lets a ceremony disappear at any time, as
`Throttle` has it by clock and bound.

The frontend's modules stand beside those of the server: `PanelLists` takes a server
of its own (a list with a number per change, and whether sing-box has been reloaded
since), and `Ceremonies` a cookie, because what the browser must cope with is more
than any one server does: anything may be lost, refused or changed by others.
`PanelLists` EXTENDS `QueryCache`; `Pages` EXTENDS the four screens, whose variables
are disjoint. The specification of `PanelLists` is `ListSpec`, so that one module can
hold the theorems about both.

Abstractions of the frontend: rows carry what the optimistic changes touch (whether
enabled and why not, and the note); a page polls whenever it may, so the 10 to 60
seconds of the backoff are left out and only whether it polls at all is kept; of a
status answer only whether its `last_reload` is later than the mark; initial notes are
empty; one user, one subscriber or one name at a time, their number being a constant.

Abstractions shared by the modules of the server:

* `(size, mtime)` is a *version*, different for different contents. Two writes of
  equal length within one tick of the filesystem's clock defeat the code's check;
  that is a property of a filesystem and not of this source.
* Ids, hashes and tokens are members of small sets, drawn once each (subscriber
  ids, being short, may come up again after a deletion). A bcrypt hash stands for
  its password, and a fingerprint for the hash: equal exactly when those are.
* PruneOrphans asks about one owner after another under the lock of Passkeys; in
  `Passkeys` the answers are of one moment.
* Strings are already normalised and valid; rejecting an invalid one changes
  nothing, which is what `GiveUp` and `Refused` do.

## 3. Runs

| run | instance | what it shows |
|---|---|---|
| `AdminsRaces` | two handlers, one command, two administrators, two names, four draws, three file changes, deletion and corruption | whatever races: the file loads, memory holds only lists that were on disk, `rm` leaves somebody |
| `AdminsQuiet` | the same, with nobody writing in another thread's window | the protocol implements `AdminList`; the panel converges |
| `Sessions` | three keys, two owners, two places, `Idle` 3, `Refresh` 2, clock to 4, clocks one tick stale | lifetimes, bound, faithful file, revocation, fair eviction |
| `SignIn` | two browsers, two keys, two places, two draws, failing storage, restarts, an `admins.json` that is moved aside and put back, loads that install what they read too late | nobody gets in without the present password; refused stays refused, but for one accident upon another |
| `SignInFair` | two browsers, two keys, three places, two draws, two names, a file that stays in its place and is quiet while a load is under way | a revoked session stops opening the panel |
| `Subscribers` | two ids, three tokens, two accounts, two entry ids, two entries each, seven file versions | links, closed links, files that load, no clobbering |
| `Throttle` | two handlers, one name and one enrolling owner, one failure per name, three requests per window of two, ceremonies that live two, clock to 3 | guesses bounded, ceremonies used once by their owner, no eviction of a good one |
| `Passkeys` | two devices, two administrators, two handles, three credentials, two passkeys each | every stored passkey works, for its maker, until removed; prune and failed saves spare the rest |
| `Ceremonies` | three attempts at a time of every kind, two identities, by symmetry | what was stopped signs nobody in; no autofill request without its form; waiting ends; nothing of an identity before ours is held or may land |
| `PanelLists` | one user or subscriber, two changes or GETs by this tab or others, two under way at a time, either page | a stale list after an answer only out of a GET begun before it, the banner stays, optimism ends |
| `Pages` | two nodes and two overlapping attempts; two accounts, two overlapping submissions, one change by others; one entry on one node, its three calls over one slot, two changes of the world or GETs of others; a node's page with two changes, one of this tab under way at a time | partial failures lose and repeat nothing; cards are true; every load ends; the page agrees in the end |

One run, `CeremoniesAutofill`, has TLC refute a sentence of a comment; section 6.

### 3.1 Why the bounds are enough

* `MaxVersion = 3` lets two writes follow the initial file: a lost update, a
  stale reload and a corruption after a save each need two. That every
  safety claim is also proved (section 5) takes the bound away.
* Two handlers and one command are every pair of actors that differ: two threads
  of one mutex, and a thread of another process.
* Sessions: three keys over two places fill the table and evict; `Idle` = 3 >
  `Refresh` = 2 leaves a tick where a use is not written down, and the clock goes
  past an expiry.
* SignIn: two keys are a session that is refused and the one that takes its place, for
  either browser; of the draws one is there to begin with and one is for a password
  change or a new administrator, so that an old list and an old row are of another
  password than the file. Names are two in `SignInFair`, where renaming happens. The
  exception of `RefusedForGood` is reached: without it TLC reports the run, by the file
  that is away and by a list that is installed late.
* Subscribers: two ids with three tokens let an id return with another token;
  two records let positions shift under an index. Versions to 7 admit two
  acknowledged changes, a hand edit in a window, a corruption and its repair.
* Throttle: a ceremony of two ticks overlaps two windows of two, the least where
  both are full; the clock crosses a window's end with handlers under way.
  `GuessesBounded` is tight there: with its bound lowered by one TLC finds a trace.
  In that instance two windows and three take the same number; three take more with
  `PerUser` 2, `Window` 3, `Lag` 2 and a clock to 4, where TLC finds six wrong
  passwords. The run keeps to the smaller one, since the bound is proved for all.
  `FloodNeverEvicts` is tight to within one request, the one that opens the oldest
  window: it fails with five places instead of seven. `ThrottleAssumption` states
  the arithmetic that makes eviction unreachable, and with the code's constants (60
  requests a minute, ceremonies of three minutes, which touch four windows)
  sign-ins take 240 of the 512 places. `LagAssumption` says that a handler goes from
  the limiter's answer to `issue` within a ceremony's life: there is nothing between
  the two that it could wait for, and three minutes to do it in.
* Passkeys: two devices race a first enrolment under two handles; three credentials
  and a cap of two let two enrolments race past the count; two administrators let
  one owner take another's place in the list when it is removed or pruned.
* Ceremonies: three attempts are one the browser works on, one that waits for it and
  one that calls in meanwhile, the case `crowded` stands for. The safety properties
  are proved for any number.
* PanelLists: two changes under way are the least that overtake one another, and the
  least where one's snapshot predates the other. The rows have three states of being on
  or off (by hand, by quota), so that a rollback can overwrite another's change. For
  `AgreesInTheEnd`, in `Pages`, one change of this tab is under way at a time, with
  changes and GETs of others meanwhile, and nothing is noted: a list that is fetched again
  does not depend on what was in it. The safety properties are proved for any number.
* Pages: two nodes and two accounts, so that one fails and one does not; two attempts
  and two submissions, so that one outlives its dialog; one slot for three calls, fewer
  than the code's eight for a page of four entries; two events in the middle of a load, so
  that an account changes while a GET that others lead is under way.
  Every safety property of the run is proved without bounds.

### 3.2 Fairness

* *Handlers go on*: a handler past its first step finishes (weak fairness on its
  steps). The Go scheduler is fair to runnable goroutines and no handler waits for
  anything but a mutex that is released after a bounded stretch.
* *Clients poll*: the panel's pages ask every few seconds as long as they are
  open, so requests with a cookie keep coming and, the throttle being one second,
  some of them get to look at the file: strong fairness on `Reloads`, since the
  throttle and a handler under way disable it again and again, and it is enabled only
  while the file is there and its stamp has moved.
* *A quiet load* (`SignIn`'s `Undisturbed`): the file does not change between the read of a
  load and its installation; otherwise the old list goes in under the new stamp and stays
  (section 6).
* Nothing is assumed of commands, of the operator, of restarts or of storage.
* *The page polls* (`PanelLists`): the timer fires while the query is idle and its
  last failure is not terminal (weak fairness on `Polls`), a request is answered or
  given up, because the browser and the panel's own client have timeouts (weak
  fairness on `Handles` and `HearsAnswer`), and a list that is asked for again and again
  reaches its node, and the answer the page, in the end (strong fairness on `Arrives`,
  and on `NodeReads` and `GetEnds` while the page waits: changes may cancel the fetch
  each time). `AgreesInTheEnd` excepts a node that goes on refusing the panel's token,
  where the code stops polling by design.
* *A load ends* (`SharePage`): its deadline fires, its goroutines run on, the page's
  request is answered or fails, and a GET is answered or ended by the Timeout of the
  panel's http.Client. No fairness of nodes: a silent node stays silent, and the budget
  alone would not end a call that leads its GET (section 6).
* Nothing is assumed of visitors. `Ceremonies` states no liveness: that a prompt ends
  is up to the visitor, and `NobodyWaitsForTheVisitor` says all that can be said.

Deadlock is checked in every run.

## 4. Properties

**admins.json** - `FileLoads`, `MemoryWasOnDisk` and `SomebodyLeft` hold under
every interleaving, although each process checks uniqueness and counts heads in
its own copy: what saves them is that a whole list is written at once, every list
in memory once came from a file, and a list is edited only under its mutex.
`ImplementsAdminList`, and with it `WritesAreEdits` and `HonestStamp`, which are proved
(section 5), say that no change is lost, and hold only on a *quiet* file (`Undisturbed`: the file does not change
between another thread's read and its stamp, nor between another thread's stat and
its rename and stamp). `Converges`: a running panel comes to hold the file.

**Sessions** - `NeverOutlivesIdle` and `NoEarlyDeath` pin the expiry from both
sides to the true last use, `used`, which the table itself does not record;
`OnePerKey`: one row per key and at most `MaxSessions`, whatever a restart loads;
`FileIsFaithful` relates memory and disk; `RevokedStaysOut` says that a
signed-out key comes back only out of a file a failed write left behind;
`EvictsTheIdlest` compares the evicted with the kept by true last use.

**Signing in** - `SessionNeedsPassword` relates what every browser has *known* to
what its cookie opens now, over stale copies, restored files and reused names;
`RefusedForGood`: a key that `authenticate` refused never opens anything again, with one
exception that takes two accidents. The panel must at some time have installed a list that
is not the file's - an empty one, because the account page read a missing `admins.json`,
or one read before another load's or a save's and installed after it - and the refused row
must have stayed in `sessions.json` because the write failed: then a restart with the
right list brings the session back. The model keeps both in histories (`strayed`,
`lingering`). `RevocationTakesHold` holds under fairness.

**Subscribers** - `LinkFindsItsOwner` is checked through the code's two indexes;
`MemoryIsOnDisk`, `ShutLinksStayShut`, `FileLoads` and `NeverClobbers` relate
memory, file and the operator's hands. `MemoryIsOnDisk` and `NeverClobbers` exclude
edits made within the two windows (`raced`), where the code does lose them.

**Throttle** - `GuessesBounded` gives the number the fixed windows really allow:
`Most` = `PerUser + handlers - 1` is what one window takes, since handlers under way
when it is almost full were all let in, and windows may meet back to back, so that a
window's length sees fewer than `2 * Most` wrong passwords for a name; or three
windows, `3 * (Most - 1)`: a window that has been reaped is opened again, in the past,
by a handler that came before, and stops nobody for as long as it should. The second
case was found by the proof: for two windows only, the invariant would not go through,
and TLC had the trace. `FloodNeverEvicts` and `OnceAndOwn` are the ceremonies'.

**Passkeys** - `EveryKeyWorks` relates what authenticators stored to what three
indexes find; `FileLoads` (the rollback puts back list *and* indexes, and what is
written is what load accepts), `KeysAreTheirMakers` and `RemovedKeysStayOut` hold
over handlers that carry copies from lock to lock. `PruneSparesTheLiving` has one
exception, which is the code's: a panel that read a missing `admins.json` as an empty
list (at a start, or from the account page) drops every passkey at the next prune.

**Ceremonies** - `StopStops`: an abort is a request to the browser, so that a ceremony
that is stopped may still be picked; what holds is that none that the browser was
working on ever reaches its finish request. It and `NoGhostRequest` (an autofill
request has its form on screen) except the one case the code does not serialise: a
third caller while a second waits (`crowded`). `NobodyWaitsForTheVisitor` rules out the
deadlock of two attempts waiting for each other, or for a prompt nobody will close.
`CacheIsOurs`: once the page has heard of a sign-in, neither what the cache holds nor what
may still land in it is of an identity before that, over sessions that end while the panel
is on screen, queries asked as somebody else and answered late, several answers to one
sign-in, and a cache that is cleared only by the hook that hears. An accepted sign-in whose
answer is still on its way is the moment before, and not claimed.

**PanelLists** - `NothingStaleUnderWay` compares a list that is about to land with the
latest change the panel has had an answer to: the fetch under way must be cancelled by
every answer, not joined. On the subscribers page this holds without exception. On a
node's page the fetch that follows may join a GET that began before the answer was heard,
and nothing cancels that one; so an older list may land there, and stay until the next
poll. `BannerUnlessOvertaken` relates the mark to the node's last
reload, over answers in any order, others' reloads and a page that is left and entered;
its exception is the code's (section 6). `SettledIsTrue`: what was written optimistically,
or put back by a rollback to an old snapshot, never outlives the changes under way.

**Pages** - `NoSecondEnrolment`: an answer to an earlier opening of the dialog ticks
nothing, and a node that took the user loses its tick. `PicksLandOrStay`: after a
submission every pick is attached or still ticked. `CardsTellTheTruth` compares what a
card says with what the account has been since the load began, or since a GET began that
one of its calls joined, over nodes that are away, refuse the token or change midway.
`PageFillsInTheEnd`: nobody keeps a slot while waiting for another, the budget ends the
waiting for slots, and the client's Timeout the GETs that the budget does not end.
`AgreesInTheEnd` is the liveness that the three properties of `PanelLists` are for.

## 5. Proofs

The proof modules EXTEND the module they are about; theorems hold for every
value of the constants that satisfies the named assumptions.

**`AdminsFileProofs`**, from `ActorsAssumption` (handlers and commands are
different threads; the panel and `NoThread` are neither) and
`InitialFilesAssumption` (the panel could start):

* `TypeCorrect`, and the invariant `IInv`, the conjunction of
  - `MutexInv`: who holds a mutex is exactly who is between stat and stamp, and no
    two of one process are;
  - `KnownInv`: *every* list anywhere - file, stores, buffers, rollback copies - is
    valid and made of ids and hashes that have been drawn. `FileLoads` alone is
    not inductive: a save writes a list from memory, put there by an earlier load
    or an edit, which must have been valid too, and a fresh id is fresh only if
    every id in memory is a drawn one;
  - `PastInv`: every list not under a held mutex, and every buffer and rollback
    copy, has been in the file;
  - `NobodyGone`: neither the file nor a list about to be written is empty.
  From it `FileAlwaysLoads`, `MemoryAlwaysWasOnDisk`, `SomebodyAlwaysLeft`.
* Under `QuietSpec`, `QInv` adds what a thread inside a window knows (`WindowInv`:
  its buffer is the file it read, or the file is what it checked and its list one
  edit of that, or the file is what it wrote) and what stamps mean (`StampInv`: none
  is from the future, and a matching one tells the truth). From it
  `StampsAreHonest`, `QuietImplements` (every step is a step of `AdminList` or a
  stutter) and `QuietWritesAreEdits`: what racing writers break holds as soon as
  nobody writes in somebody else's window.

**`SessionsProofs`**, from `WindowAssumption` (`0 < Refresh <= Idle`,
`0 < MaxSessions`) and `ClockAssumption`: `SInv` is the conjunction of `HonestRows`
(every row, in memory and on disk, expires `Idle` after it was seen, which is no
later than it was used, and its key has been issued), `Fits` (one row per key and
at most `MaxSessions`, on disk too, since a restart loads the disk), `Fresh` (no
row in memory was used `Refresh` or more after it was last marked as seen, unless
revived), `FileIsFaithful` and `RevokedStaysOut`. Every safety property and the
action property of the run `Sessions` follow.

**`SignInProofs`**, from `SignInAssumption` (owners and prints are draws, `Nobody` is no
administrator) and `WindowAssumption`. `SessionNeedsPassword` is not inductive: a login
that verified a password long ago, a restart that loads the disk, a reload that brings
another list, each may make a row open something. `IInv` therefore speaks of every row,
in memory *and* on disk, and of what every handler carries between two acquisitions:

* a row's key has been issued, and its owner and print are `Vouched` for: the hash was
  drawn, so nobody is given it again, and, unless the panel has strayed, if the file still
  has the two together then so has memory. This is the heart of it: the panel may hold an
  older list than the file, never one from which an account is missing that the file has
  and an old row fits, until it installs a list that is not the file's;
* whoever holds a row's key has known its print; a refused key's rows are there because
  they could not be deleted on disk, and fit nobody in memory unless the panel has strayed;
  rows with one key have one owner and print;
* what a handler verified, changed or is checking was `Vouched` when it was copied, and
  that is kept by everything others do.

`AlwaysNeedsPassword` holds whether the panel has strayed or not, because a password that
was replaced is never drawn again. From the invariant also `AlwaysRefused`, which needs
both accidents; and `FileIsAdminList`: as long as the panel has not strayed, every change
of the file in its place, by the account page or a command, is one edit of `AdminList`,
the abstract list that `AdminsFile` is shown to implement, because a matching stamp means
that memory is the file.

**`SubscribersProofs`**, from `SubscribersAssumption`: `IInv` says of the list in memory,
of the file and of the rollback copy that each is `Sound` (what a start accepts, of tokens
that have been minted); that the two maps are *those of the list* (`Indexed`), from which
`LinksAlwaysFind`; that closed links are closed in all three (`ShutInv`), since each may be
the next to be read or restored; and what the stamp says of the file wherever the mutator is
(`StampInv`): at rest a matching stamp means an equal list, before the rename it means that
the rollback copy is the file, after it that the list is. `FileAlwaysLoads`,
`MemoryAlwaysOnDisk`, `ShutLinksAlwaysShut` and `SavesNeverClobber` follow. The positions
that shift when a record is removed are the hard part: lemmas give the ids, tokens and
accounts of a list with one record replaced, removed or appended.

**`ThrottleProofs`**, from `ThrottleAssumption` (limits are positive, handlers and owners
finite, the table has room for what the limiter lets through) and, for the last theorem,
`LagAssumption`. `IInv` is the conjunction of

* `GuessOK`, per name. `Room`: what its window has counted, and the handlers verifying
  that would count in it, are at most `Most` together, since none is let in once the
  window is full. `Phase`, for every time `t` less than a window ago: how many guesses
  made from `t` on have failed, by where the present window begins. If not before `t`,
  then what it has counted and what fits in `Others`, the windows before it; if before
  `t` and still open then, only what it has counted itself; if closed by then, none. In
  the last two cases, if there was a reaping since `t`, what one window more takes, less
  the handlers from before `t`, who may open the next in the past. `Settled`, once a window's length has passed since `t`:
  only who came during it can still add to it. `PhaseSettles` turns the one into the
  other at the tick, and the bound follows from both;
* `Rate`: the sign-ins in the table and on their way to it, begun since `k` windows before
  the present one, are at most `k * GlobalCap` and what the present one has let through;
  `Timely`: none is later than the present window. A request adds to both sides at once,
  and a new window shifts `k` by one;
* `TableInv`: states in the table are different, were begun, and none is spent, because
  what `take` lets through it has removed.

From it `GuessesAlwaysBounded` and `AlwaysOnceAndOwn`. `FloodsNeverEvict` counts: a table
that evicts a ceremony still good holds only good ones, the sign-ins among them are those
of `TTL - 1` units of time, hence of the windows `ThrottleAssumption` names, the enrolments
map one to one to `Owners \X 1..MaxEnrolments`, and the one that is about to be issued is
in neither count yet.

**`PasskeysProofs`**, from `PasskeysAssumption`: besides a sound list that is the one on
disk, and three maps that are those of the list, `IInv` has

* `OwnerOK`: a handle in the list has been handed out, and a stored credential was made by
  its owner, was not removed, and its authenticator knows it under this handle;
* `TabOK`, of handlers between acquisitions: an enrolment holds one handle, which no other
  administrator has, in the list or in an enrolment of theirs, and a credential that is
  nowhere yet; a sign-in whose credential was removed before the browser answered holds
  one that the list no longer has, and is never verified. Without the first, two first enrolments could end in one another's owner;
* `file \subseteq admins \/ admins = {}`: memory misses an administrator only when it
  misses all, which is why `PruningSparesTheLiving` has its exception.

From it `FileAlwaysLoads`, `KeysAlwaysWork`, `KeysStayTheirMakers`, `RemovedKeysAlwaysOut`,
and by the outcome of each way to change the list `PruningSparesTheLiving`. Pruning keeps
the owners' order, which `Living` says by the increasing enumeration of the places kept:
`Enumerable` shows that every set of places has one, and `LivingOutcome` what the pruned
list holds.

**`CeremoniesProofs`**, from `CeremoniesAssumption` (`None` is no attempt). The three
properties of ceremonies follow from one invariant, `CInv`: `Running` (whom `pending`
names is waiting for the browser and has not been told to stop; who was told to stop
has not settled), `Waiting` (who waits does nothing else), `Placed` (autofill belongs to
a form whose effect has run), and, unless callers crowded, `Orderly` (the browser works
on `pending` or on something aborted; one waits at a time, and nothing is pending
meanwhile) and `Attended` (an autofill request that is pending or waits to be has its
form). None of the three is inductive: that a stopped ceremony stays stopped needs to
know that what the browser works on is either pending, hence aborted by whoever stops
it, or was aborted before. `CacheIsOurs` is inductive together with `CInv`,
which keeps an accepted sign-in what it is until the page hears of it. `TypeCorrect` follows
from `CInv` and `PageTyped`, which needs `CInv` where `Settles` chooses who goes on.

**`FrontendProofs`**. Of `PanelLists`: `PInv` adds to `NothingStaleUnderWay` and
`BannerUnlessOvertaken` that no answer under way runs ahead of the server (`Speaks`: its
number is one of the server's, and if it says "live" the server has reloaded since),
`GetIsAsOld` (the GET under way brings all that the panel had been told of when it began),
`KnowsThePast` (the panel was told of nothing that did not happen), `HealedIsLive` (a
reload the banner has heard of was later than its mark) and `TouchedIsAwaited` (a row
written by the panel has an answer to come that will fetch the list again), from which
`SettledIsTrue` follows.

Of `Pages`: `EnrolInv` (one attempt at most is observed, and it covers only what
the visitor wants), `AttachInv` (of the dialog on screen one submission at most runs,
and what is owed is attached, still to come, or among the failed) and `ShareInv` (while
a load is under way the present state of every account is among what it has been,
as is every answer told, and what a GET under way will tell is among what the account
has been since that GET began) give the three safety properties of the run.

Every safety invariant and every action property of a run is proved. Only model-checked
is liveness (`Converges`, `RevocationTakesHold`, `AgreesInTheEnd`, `PageFillsInTheEnd`),
which the prover does not reach. Every `TypeOK` is proved too, each from the inductive
invariant of its module.

## 6. Where the documentation and the code differ

Refuted by a run:

1. **A submitted form does not stop the autofill request** (`CeremoniesAutofill`).
   `useConditionalPasskey.ts:18` names four things that stop it, submitting the form
   among them, lest it race "a password login that may be for a different account".
   While the effect still awaits its options (`:57`) there is nothing to abort and
   nothing is cancelled: the request is made after the password has been sent, and
   stays with the browser.

Noticed while modelling, and not run. On the server:

* A save can lose an edit within one panel. `admins.go:510` and the README promise
  that a save refuses to clobber an edit made underneath it. `load` reads the file
  before taking the mutex (`admins.go:127`) and stamps it after (`:190`); between the
  two another handler's save may land, and an old list goes in under the new stamp.
* A missing file empties a running panel. It does not in `ReloadIfChanged`, as
  `admins.go:239` says, but the account page calls `Reload`, where it does (`SignIn` and
  `Passkeys` have it so). Whoever asks meanwhile is refused and loses their session.
* "The fingerprint just moved, so every session for this admin is already dead as far as
  authenticate is concerned" (`account.go:45`): not if a load that read the file before the
  save installs its list after it, nor for who signs in with a password set since.
* `access.go:18-21` says that the budget is "shorter than config.HTTPTimeout on purpose", so
  that a page does not wait "until the transport gives up on its own". A call that leads
  its GET does so under `context.WithoutCancel` (`proxy.go:308`) and `collect` waits for
  it, so that a silent node holds the page for the client's Timeout, 15 seconds to the
  budget's 10; and a good answer that comes in between still counts.
* "Strictly in-flight only" (`proxy.go`) is not fresh: a node's list that is fetched again
  after an answered change, and an account on a share page, may come out of a GET that
  began before (section 4).
* Signing out can be undone: a failed write of `sessions.json` is logged and ignored,
  and a restart brings the row back, which README:530 denies.
* The first administrator cannot get in: nothing but a request with a cookie reloads
  the file, so on a fresh panel `users add` is not noticed until a restart, whatever
  README:212 says.
* `reauthenticate` verifies and SetPasswordByID replaces under separate acquisitions,
  so a password that arrived by a reload in between is replaced without having been
  proven (account.go:115 says otherwise); the handle, "stable per administrator"
  (api/passkeys.go:304), is drawn anew once the last passkey is removed.
* `ratelimit.go:95`: "A *failed* finish is charged to the per-user bucket". `passkeys.go`
  calls `allowGlobal` and never `fail`. And the current password is asked for "in the same
  bucket as the login endpoint" (README:243, account.go:122), but under the id where login
  has the name: two buckets, so that one password is guessed at in either.
* `access.go:314`: "A 404 that reaches this line is a *JSON* one". Only Go's own
  plain-text 404 is filtered out, so the 404 of a reverse proxy in front of the node is
  told as "removed". In `SharePage` such a node *strays*, and `CardsTellTheTruth`
  excepts it.

In the browser:

* The effect aborts whatever is pending when its options arrive, be it the visitor's own
  prompt; a third caller finds nothing pending while a second waits
  (`webauthn.ts:79`, `crowded`); a request whose effect was cleaned up while it was
  queued starts all the same.
* A form submitted twice before `mutate` is called (`LoginPage.tsx:99`, after an await) signs
  in twice, and only the last answer calls `onSignedIn`: if the first is accepted and the
  second fails, the form stays, which `App.tsx:33-35` says it does not.
* `AccountPage.tsx:12`: "Both forms ask for the current password"; the username form
  does not.
* `ServerPage.tsx:182` passes one server to CreateUserDialog, which then starts with
  none ticked and draws no picker, so that Create stays disabled; and "here every
  node starts ticked" (`CreateUserDialog.tsx:225`) is true of none.
* `AttachEntryDialog.tsx:141,164` promises labels "editable per connection in the
  drawer afterwards"; `useRelabelEntry` (`hooks.ts:609`) is used nowhere.
* The reload banner can be cleared by an older success, or marked by an older failure
  (`reloadWatch.ts:17`, `hooks.ts:256`), and compares the browser's clock with the node's.
* The Details form of a user counts what others changed as changed here, and sends it
  back (`UserDrawer.tsx:200`); that of a subscriber sends its note along with a name.
* A query's failure count starts again with every fetch, so the polls of a failing node
  do not spread out as `client.ts` says; a terminal failure with data on screen offers
  no button to try again.
* `SubscribersPage.tsx:122` promises a question mark where the code draws a dash; the
  rotation notice says "new subscription URL above" though its refetch may have failed;
  a failed deletion brings its drawer back without the error.
* AttachEntryDialog, reopened while a cancelled submission runs, is closed by its end,
  or loses the new ticks to it; an account attached with a lost answer stays ticked and
  disabled, and every retry is a 409.

## 7. Not modelled, and why

* Timestamp granularity, the version 1 migration of `admins.json`, `rm --force`,
  string validation, hashing: data, or one-off.
* A restart's effect on the limiter: it forgets every window, which is what
  process memory does; `Throttle` is about one life of the process.
* An operator who puts an older copy of `admins.json` in place of a newer one: `Moves` puts
  back the file that was moved aside. An old copy makes old passwords valid, and with them
  the sessions of that time that are still in `sessions.json`.
* Expiry in `SignIn` (the clock stands still): it only ends sessions, and
  `Sessions` treats it.
* What Rename and RecordUse write (labels, counters), and the cryptography of
  WebAuthn, which is the library's.
* Configuration, authenticator names, static files, translations: no state after
  startup.
* In the browser: usage charts, filters, sorting, themes, menus, QR codes and copying
  keep no state that outlives a click; the dialog that creates one subscriber is the
  single case of the two that are modelled; ReloadWatch over several nodes is one
  mark per node, independent of each other; the relative times of the backoff.
* The screenshots' tool (`docs/screenshots/shoot.mjs`) and the development server.
* CSRF guard, headers, cookie attributes, URL parsing of the proxy: no state.

## 8. Plan

In this order:

1. `Backups`: runs, failing uploads, retention as pure operators against a
   reference definition (`Keep(Keep(S) \cup {new}) = Keep(S \cup {new})`, at most
   seven, the newest among them), and the bound that fails while the remote does.
2. The share-link limiter in front of `SharePage`.
3. `PanelLists` over two nodes at once (the overview page and its merged users).
