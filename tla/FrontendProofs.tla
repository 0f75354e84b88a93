--------------------------- MODULE FrontendProofs ---------------------------
(***************************************************************************)
(* Theorems about the frontend outside its ceremonies: the four screens of  *)
(* Pages, for any number of nodes, accounts, entries and attempts and any   *)
(* width of the fan-out, and the lists of PanelLists, for any number of     *)
(* users, changes and requests.                                            *)
(***************************************************************************)
EXTENDS Pages, TLAPS

------------------------------------------------------------------------------
(* The dialog that adds a user to several nodes. *)

EnrolRecords == [on : BOOLEAN, ids : SUBSET Nodes, left : SUBSET Nodes,
                 failed : SUBSET Nodes, mine : BOOLEAN]

(* What an attempt the dialog listens to was sent for was ticked since the dialog
   was opened, and no two attempts are listened to. *)
EnrolInv ==
    /\ attempt \in [Attempts -> EnrolRecords]
    /\ picked \in SUBSET Nodes
    /\ \A c \in Attempts :
          /\ attempt[c].left \subseteq attempt[c].ids
          /\ attempt[c].failed \subseteq attempt[c].ids
          /\ attempt[c].mine => attempt[c].ids \subseteq wanted
    /\ \A c, d \in Attempts : attempt[c].mine /\ attempt[d].mine => c = d
    /\ NoSecondEnrolment

LEMMA EnrolStarts == EnrolInit => EnrolInv
BY DEF EnrolInit, EnrolInv, EnrolRecords, Over, NoSecondEnrolment

(* What a node's answer changes of its attempt. *)
LEMMA NodeEndsOutcome ==
    ASSUME EnrolInv, NEW c \in Attempts, NEW n \in Nodes, NodeEnds(c, n)
    PROVE  /\ attempt' \in [Attempts -> EnrolRecords]
           /\ \A d \in Attempts : d # c => attempt'[d] = attempt[d]
           /\ attempt'[c].ids = attempt[c].ids /\ attempt'[c].mine = attempt[c].mine
           /\ attempt'[c].left \subseteq attempt[c].left
           /\ attempt'[c].failed \subseteq attempt[c].failed \cup {n}
           /\ n \in attempt[c].left
<1>1. PICK took \in BOOLEAN, failed \in BOOLEAN :
        attempt' = [attempt EXCEPT ![c].left = @ \ {n},
                                   ![c].failed = IF failed THEN @ \cup {n} ELSE @]
  BY DEF NodeEnds
<1>2. attempt[c] \in EnrolRecords /\ n \in attempt[c].left
  BY DEF EnrolInv, NodeEnds
<1>3. CASE failed
  BY <1>1, <1>2, <1>3 DEF EnrolInv, EnrolRecords
<1>4. CASE ~failed
  BY <1>1, <1>2, <1>4 DEF EnrolInv, EnrolRecords
<1> QED
  BY <1>3, <1>4

(* create.reset lets go of every attempt, and changes nothing else. *)
LEMMA ResetOutcome ==
    ASSUME EnrolInv, Reset
    PROVE  /\ attempt' \in [Attempts -> EnrolRecords]
           /\ \A c \in Attempts : /\ attempt'[c].ids = attempt[c].ids
                                  /\ attempt'[c].left = attempt[c].left
                                  /\ attempt'[c].failed = attempt[c].failed
                                  /\ ~attempt'[c].mine
<1>1. \A c \in Attempts : attempt[c] \in EnrolRecords
  BY DEF EnrolInv
<1>2. \A c \in Attempts : attempt'[c] = [attempt[c] EXCEPT !.mine = FALSE]
  BY DEF Reset
<1>3. \A c \in Attempts : attempt'[c] \in EnrolRecords
  BY <1>1, <1>2 DEF EnrolRecords
<1> QED
  BY <1>1, <1>2, <1>3 DEF Reset, EnrolRecords

LEMMA EnrolSteps == EnrolInv /\ [EnrolNext]_enrolVars => EnrolInv'
<1> SUFFICES ASSUME EnrolInv, [EnrolNext]_enrolVars
             PROVE  EnrolInv'
  OBVIOUS
<1>1. CASE OpensEnrol
  BY <1>1, ResetOutcome DEF OpensEnrol, EnrolInv, NoSecondEnrolment
<1>2. CASE ClosesEnrol
  BY <1>2 DEF ClosesEnrol, EnrolInv, NoSecondEnrolment
<1>3. CASE TicksAll
  BY <1>3 DEF TicksAll, EnrolInv, EnrolRecords, NoSecondEnrolment
<1>4. CASE Creates
  <2>1. PICK c \in Attempts :
          attempt' = [attempt EXCEPT ![c] =
            [on |-> TRUE, ids |-> Targets, left |-> Targets, failed |-> {}, mine |-> TRUE]]
    BY <1>4 DEF Creates
  <2>2. Targets \subseteq picked /\ picked \subseteq wanted
    BY <1>4 DEF Creates, Targets, EnrolInv, NoSecondEnrolment
  <2>3. \A d \in Attempts : ~attempt[d].mine
    BY <1>4 DEF Creates, Observed
  <2> QED
    BY <1>4, <2>1, <2>2, <2>3 DEF Creates, EnrolInv, EnrolRecords, NoSecondEnrolment
<1>5. CASE ListsCatchUp
  BY <1>5 DEF ListsCatchUp, EnrolInv, NoSecondEnrolment
<1>6. ASSUME NEW n \in Nodes, Ticks(n)
      PROVE  EnrolInv'
  BY <1>6 DEF Ticks, EnrolInv, NoSecondEnrolment
<1>7. ASSUME NEW c \in Attempts, Hears(c)
      PROVE  EnrolInv'
  <2>1. attempt' = [attempt EXCEPT ![c] = Over] /\ Over \in EnrolRecords
    BY <1>7 DEF Hears, Over, EnrolRecords
  <2>2. attempt' \in [Attempts -> EnrolRecords]
    BY <2>1 DEF EnrolInv
  <2>3. \A d \in Attempts : d # c => attempt'[d] = attempt[d]
    BY <2>1 DEF EnrolInv
  <2>4. attempt'[c] = Over
    BY <2>1 DEF EnrolInv
  <2>5. CASE ~attempt[c].mine
    <3>1. UNCHANGED <<adding, picked, wanted>>
      BY <1>7, <2>5 DEF Hears
    <3> QED
      BY <2>2, <2>3, <2>4, <3>1 DEF EnrolInv, NoSecondEnrolment, Over
  <2>6. CASE attempt[c].mine
    <3>1. /\ adding' = (adding /\ attempt[c].failed # {})
          /\ picked' = IF attempt[c].failed = {} THEN picked ELSE attempt[c].failed
          /\ wanted' = wanted \ (attempt[c].ids \ attempt[c].failed)
      BY <1>7, <2>6 DEF Hears, StaysTicked
    <3>2. attempt[c].failed \subseteq Nodes /\ attempt[c].failed \subseteq wanted
      BY <2>6 DEF EnrolInv, EnrolRecords
    <3>3. \A d \in Attempts : ~attempt'[d].mine
      BY <2>3, <2>4, <2>6 DEF EnrolInv, Over
    <3>4. picked' \in SUBSET Nodes /\ NoSecondEnrolment'
      <4>1. CASE attempt[c].failed = {}
        BY <3>1, <4>1 DEF EnrolInv, NoSecondEnrolment
      <4>2. CASE attempt[c].failed # {}
        BY <3>1, <3>2, <4>2 DEF NoSecondEnrolment
      <4> QED
        BY <4>1, <4>2
    <3>5. \A d \in Attempts :
            /\ attempt'[d].left \subseteq attempt'[d].ids
            /\ attempt'[d].failed \subseteq attempt'[d].ids
      BY <2>3, <2>4 DEF EnrolInv, Over
    <3> QED
      BY <2>2, <3>3, <3>4, <3>5 DEF EnrolInv
  <2> QED
    BY <2>5, <2>6
<1>8. ASSUME NEW c \in Attempts, NEW n \in Nodes, NodeEnds(c, n)
      PROVE  EnrolInv'
  <2>1. UNCHANGED <<adding, picked, wanted>>
    BY <1>8 DEF NodeEnds
  <2> QED
    BY <1>8, <2>1, NodeEndsOutcome DEF EnrolInv, NoSecondEnrolment
<1>9. CASE UNCHANGED enrolVars
  BY <1>9 DEF enrolVars, EnrolInv, NoSecondEnrolment
<1> QED
  BY <1>1, <1>2, <1>3, <1>4, <1>5, <1>6, <1>7, <1>8, <1>9 DEF EnrolNext

(* In an open dialog only what the visitor ticked is ticked, whatever earlier
   attempts answer, and when. *)
THEOREM NeverEnrolsTwice == Spec => []NoSecondEnrolment
<1>1. Init => EnrolInv
  BY EnrolStarts DEF Init
<1>2. EnrolInv /\ [Next]_vars => EnrolInv'
  <2>1. [Next]_vars => [EnrolNext]_enrolVars
    BY DEF Next, vars
  <2> QED
    BY <2>1, EnrolSteps
<1>3. EnrolInv => NoSecondEnrolment
  BY DEF EnrolInv
<1> QED
  BY <1>1, <1>2, <1>3, PTL DEF Spec

------------------------------------------------------------------------------
(* The dialog that attaches accounts. *)

AttachRecords == [on : BOOLEAN, rest : SUBSET Accounts, failed : SUBSET Accounts,
                  mine : BOOLEAN]

Runs(c) == submission[c].on /\ submission[c].mine

(* While a submission runs, each of its picks is attached, failed or still to come. *)
AttachInv ==
    /\ submission \in [Submissions -> AttachRecords]
    /\ picks \in SUBSET Accounts
    /\ \A c, d \in Submissions : Runs(c) /\ Runs(d) => c = d
    /\ \A c \in Submissions :
          Runs(c) => owed \subseteq attached \cup submission[c].rest \cup submission[c].failed
    /\ PicksLandOrStay

LEMMA AttachStarts == AttachInit => AttachInv
BY DEF AttachInit, AttachInv, AttachRecords, Runs, Done, PicksLandOrStay

(* One account of a submission is over. *)
LEMMA AttachesOneOutcome ==
    ASSUME AttachInv, NEW c \in Submissions, NEW a \in Accounts, AttachesOne(c, a)
    PROVE  /\ submission' \in [Submissions -> AttachRecords]
           /\ \A d \in Submissions : d # c => submission'[d] = submission[d]
           /\ submission'[c].on = submission[c].on
           /\ submission'[c].mine = submission[c].mine
           /\ submission'[c].rest = submission[c].rest \ {a}
           /\ submission[c].failed \subseteq submission'[c].failed
           /\ attached \subseteq attached'
           /\ a \in attached' \cup submission'[c].failed
<1>1. PICK took \in BOOLEAN, failed \in BOOLEAN :
        /\ took \/ failed
        /\ attached' = IF took THEN attached \cup {a} ELSE attached
        /\ submission' = [submission EXCEPT ![c].rest = GoesOn(submission[c], a, failed),
                                            ![c].failed = IF failed THEN @ \cup {a} ELSE @]
  BY DEF AttachesOne
<1>2. submission[c] \in AttachRecords
  BY DEF AttachInv
<1>3. attached \subseteq attached' /\ (took => a \in attached')
  BY <1>1
<1>4. CASE failed
  BY <1>1, <1>2, <1>3, <1>4 DEF AttachInv, AttachRecords, GoesOn
<1>5. CASE ~failed
  BY <1>1, <1>2, <1>3, <1>5 DEF AttachInv, AttachRecords, GoesOn
<1> QED
  BY <1>4, <1>5

LEMMA AttachSteps == AttachInv /\ [AttachNext]_attachVars => AttachInv'
<1> SUFFICES ASSUME AttachInv, [AttachNext]_attachVars
             PROVE  AttachInv'
  OBVIOUS
<1> USE DEF Runs, Busy
<1>1. CASE OpensAttach
  BY <1>1 DEF OpensAttach, AttachInv, PicksLandOrStay
<1>2. CASE ClosesAttach
  BY <1>2 DEF ClosesAttach, AttachInv, PicksLandOrStay
<1>3. CASE LeavesDrawer
  <2>1. \A c \in Submissions : submission[c] \in AttachRecords
    BY DEF AttachInv
  <2>2. \A c \in Submissions : submission'[c] = [submission[c] EXCEPT !.mine = FALSE]
    BY <1>3 DEF LeavesDrawer
  <2>3. \A c \in Submissions : submission'[c] \in AttachRecords /\ ~submission'[c].mine
    BY <2>1, <2>2 DEF AttachRecords
  <2>4. submission' \in [Submissions -> AttachRecords]
    BY <1>3, <2>3 DEF LeavesDrawer
  <2> QED
    BY <1>3, <2>3, <2>4 DEF LeavesDrawer, AttachInv, PicksLandOrStay
<1>4. CASE Submits
  <2>1. PICK c \in Submissions :
          submission' = [submission EXCEPT ![c] =
            [on |-> TRUE, rest |-> picks, failed |-> {}, mine |-> TRUE]]
    BY <1>4 DEF Submits
  <2>2. \A d \in Submissions : ~Runs(d)
    BY <1>4 DEF Submits
  <2> QED
    BY <1>4, <2>1, <2>2 DEF Submits, AttachInv, AttachRecords, PicksLandOrStay
<1>5. CASE ListShows
  BY <1>5 DEF ListShows, AttachInv, PicksLandOrStay
<1>6. ASSUME NEW a \in Accounts, TogglesPick(a)
      PROVE  AttachInv'
  BY <1>6 DEF TogglesPick, AttachInv, PicksLandOrStay
<1>7. ASSUME NEW a \in Accounts, OthersAttach(a)
      PROVE  AttachInv'
  BY <1>7 DEF OthersAttach, AttachInv, PicksLandOrStay
<1>8. ASSUME NEW c \in Submissions, EndsAttach(c)
      PROVE  AttachInv'
  <2>1. submission' = [submission EXCEPT ![c] = Done] /\ Done \in AttachRecords
    BY <1>8 DEF EndsAttach, Done, AttachRecords
  <2>2. /\ submission' \in [Submissions -> AttachRecords] /\ submission'[c] = Done
        /\ \A d \in Submissions : d # c => submission'[d] = submission[d]
    BY <2>1 DEF AttachInv
  <2>3. UNCHANGED <<attached, owed>> /\ submission[c].on /\ submission[c].rest = {}
    BY <1>8 DEF EndsAttach
  <2>4. ~Done.on
    BY DEF Done
  <2>5. CASE submission[c].mine
    <3>1. picks' = submission[c].failed /\ picks' \in SUBSET Accounts
      BY <1>8, <2>5 DEF EndsAttach, AttachInv, AttachRecords
    <3>2. owed \subseteq attached \cup submission[c].failed
      BY <2>3, <2>5 DEF AttachInv
    <3>3. \A d \in Submissions : ~Runs(d)'
      BY <2>2, <2>3, <2>4, <2>5 DEF AttachInv
    <3> QED
      BY <2>2, <2>3, <3>1, <3>2, <3>3 DEF AttachInv, PicksLandOrStay
  <2>6. CASE ~submission[c].mine
    <3>1. UNCHANGED picks
      BY <1>8, <2>6 DEF EndsAttach
    <3>2. \A d \in Submissions : Runs(d)' <=> Runs(d)
      BY <2>2, <2>4, <2>6
    <3> QED
      BY <2>2, <2>3, <2>4, <3>1, <3>2 DEF AttachInv, PicksLandOrStay
  <2> QED
    BY <2>5, <2>6
<1>9. ASSUME NEW c \in Submissions, NEW a \in Accounts, AttachesOne(c, a)
      PROVE  AttachInv'
  <2>1. UNCHANGED <<picks, owed>>
    BY <1>9 DEF AttachesOne
  <2>2. \A d \in Submissions : Runs(d)' <=> Runs(d)
    BY <1>9, AttachesOneOutcome
  <2> QED
    BY <1>9, <2>1, <2>2, AttachesOneOutcome DEF AttachInv, PicksLandOrStay
<1>10. CASE UNCHANGED attachVars
  BY <1>10 DEF attachVars, AttachInv, PicksLandOrStay
<1> QED
  BY <1>1, <1>2, <1>3, <1>4, <1>5, <1>6, <1>7, <1>8, <1>9, <1>10 DEF AttachNext

(* Whatever fails, and whatever is closed and opened meanwhile, a pick is attached or
   still selected once its submission is over. *)
THEOREM NoPickIsLost == Spec => []PicksLandOrStay
<1>1. Init => AttachInv
  BY AttachStarts DEF Init
<1>2. AttachInv /\ [Next]_vars => AttachInv'
  <2>1. [Next]_vars => [AttachNext]_attachVars
    BY DEF Next, vars
  <2> QED
    BY <2>1, AttachSteps
<1>3. AttachInv => PicksLandOrStay
  BY DEF AttachInv
<1> QED
  BY <1>1, <1>2, <1>3, PTL DEF Spec

------------------------------------------------------------------------------
(* The share page. *)

Kept == States \cup {"gone"}
Tellings == {"none", "asked", "failed", "missing", "ok"} \cup States
UserCall(e) == <<"user", e>>

(* What is told of an account, if anything, is among what it has been. *)
Fits(word, seen) ==
    \/ word \in {"none", "asked", "failed"}
    \/ word = "missing" /\ "gone" \in seen
    \/ word \in States \cap seen

(* A GET that the load leads is judged by what was seen since the load began. *)
Judged(e) == IF IsAt(UserCall(e), "leads") THEN been[e] ELSE since[e]

(* The GET for an account knows of nothing but what is noted for it, which is up to
   date; who joins one takes over what is noted for it; and a call has come to
   nothing but what is noted for the load. *)
EntryTold(e) ==
    /\ flight[UserCall(e)] # "none" =>
          /\ Fits(flight[UserCall(e)], Judged(e))
          /\ account[e] \in Judged(e) /\ SaidOf(e, node) \subseteq Judged(e)
    /\ IsAt(UserCall(e), "joins") => flight[UserCall(e)] # "none" /\ since[e] \subseteq been[e]
    /\ UserCall(e) \in DOMAIN call =>
          \/ call[UserCall(e)] \in {"waits", "leads", "joins"}
          \/ call[UserCall(e)] \notin {"none", "asked"} /\ Fits(call[UserCall(e)], been[e])

ShareTyped ==
    /\ account \in [Entries -> Kept] /\ node \in [ShareNodes -> NodeStates]
    /\ been \in [Entries -> SUBSET Kept] /\ since \in [Entries -> SUBSET Kept]
    /\ flight \in [AllCalls -> Tellings]
    /\ where \in [Entries -> ShareNodes \cup {Nowhere}]

(* While a load runs, been is up to date. *)
UpToDate ==
    shared.status \in {"asking", "collecting"} =>
        \A e \in Configured : account[e] \in been[e] /\ SaidOf(e, node) \subseteq been[e]

ShareInv ==
    /\ ShareTyped /\ UpToDate
    /\ shared.status # "collecting" => call = NoCalls
    /\ \A e \in Configured : EntryTold(e)
    /\ CardsTellTheTruth

LEMMA UserCalls == ASSUME NEW e \in Entries PROVE UserCall(e) \in AllCalls
BY DEF UserCall, AllCalls

LEMMA ShareStarts == ShareInit => ShareInv
<1> SUFFICES ASSUME ShareInit
             PROVE  ShareInv
  OBVIOUS
<1>1. shared.status = "new" /\ call = NoCalls /\ DOMAIN call = {}
  BY DEF ShareInit, NoCalls
<1>2. ShareTyped
  BY DEF ShareInit, ShareTyped, Kept, Tellings
<1>3. \A e \in Configured : EntryTold(e)
  BY <1>1, UserCalls DEF ShareInit, EntryTold, IsAt, Configured
<1> QED
  BY <1>1, <1>2, <1>3 DEF ShareInv, UpToDate, CardsTellTheTruth

(* A step on a call other than that for the account of e is no concern of e's. *)
LEMMA OtherCall ==
    ASSUME NEW e \in Configured, EntryTold(e), UNCHANGED <<where, account, node>>,
           flight'[UserCall(e)] = flight[UserCall(e)], since'[e] = since[e], been'[e] = been[e],
           UserCall(e) \in DOMAIN call' <=> UserCall(e) \in DOMAIN call,
           UserCall(e) \in DOMAIN call => call'[UserCall(e)] = call[UserCall(e)]
    PROVE  EntryTold(e)'
BY DEF EntryTold, Judged, IsAt, SaidOf, Fits

(* What the node of e has to say, or what is in front of it, fits what is so. *)
LEMMA NodeFits ==
    ASSUME ShareInv, NEW e \in Configured, NEW seen, account[e] \in seen,
           SaidOf(e, node) \subseteq seen, NodeAnswers(UserCall(e))
    PROVE  Fits(flight'[UserCall(e)], seen)
<1> DEFINE k == UserCall(e)
<1>1. /\ k[1] = "user" /\ k[2] = e /\ NodeOf(k) = where[e]
      /\ k \in DOMAIN flight /\ account[e] \in Kept /\ where[e] # Nowhere
  BY UserCalls DEF UserCall, NodeOf, ShareInv, ShareTyped, Configured
<1>2. CASE flight' = [flight EXCEPT ![k] = NodeSays(k)]
  <2>1. flight'[k] = IF account[e] = "gone" THEN "missing" ELSE account[e]
    BY <1>1, <1>2 DEF NodeSays
  <2> QED
    BY <1>1, <2>1 DEF Fits, Kept
<1>3. CASE flight' = [flight EXCEPT ![k] = TokenRefused(k)]
  BY <1>1, <1>3 DEF TokenRefused, Fits
<1>4. CASE node[NodeOf(k)] = "strays" /\ flight' = [flight EXCEPT ![k] = StrayAnswer(k)]
  <2>1. flight'[k] = "missing"
    BY <1>1, <1>4 DEF StrayAnswer
  <2>2. "gone" \in seen
    BY <1>1, <1>4 DEF SaidOf
  <2> QED
    BY <2>1, <2>2 DEF Fits
<1> QED
  BY <1>2, <1>3, <1>4 DEF NodeAnswers

(* The steps of singleFlightGet and of those who wait for it, for the account of e. *)
CallStep(k) ==
    \/ Acquires(k) \/ GivesUp(k) \/ Abandons(k)
    \/ OthersAsk(k) \/ NodeAnswers(k) \/ FlightEnds(k) \/ TimesOut(k)

LEMMA CallStepTyped ==
    ASSUME ShareInv, NEW k \in AllCalls, CallStep(k)
    PROVE  ShareTyped' /\ DOMAIN call' = DOMAIN call /\ UNCHANGED <<shared, where, account, node>>
<1>1. DOMAIN call' = DOMAIN call /\ UNCHANGED <<shared, where, account, node>>
  BY DEF CallStep, Acquires, GivesUp, Abandons, OthersAsk, NodeAnswers, FlightEnds, TimesOut, Ends,
         world, nodes
<1>2. /\ been' \in [Entries -> SUBSET Kept]
      /\ since' \in [Entries -> SUBSET Kept]
  <2>1. \A e \in Entries : {account[e]} \cup SaidOf(e, node) \subseteq Kept
    BY DEF ShareInv, ShareTyped, SaidOf, Kept
  <2>2. CASE Acquires(k)
    BY <2>2 DEF Acquires, ShareInv, ShareTyped
  <2>3. CASE OthersAsk(k)
    BY <2>1, <2>3 DEF OthersAsk, ShareInv, ShareTyped
  <2>4. CASE FlightEnds(k) \/ TimesOut(k)
    BY <2>4 DEF FlightEnds, TimesOut, Ends, ShareInv, ShareTyped
  <2>5. CASE GivesUp(k) \/ Abandons(k) \/ NodeAnswers(k)
    BY <2>5 DEF GivesUp, Abandons, NodeAnswers, world, ShareInv, ShareTyped
  <2> QED
    BY <2>2, <2>3, <2>4, <2>5 DEF CallStep
<1>3. flight' \in [AllCalls -> Tellings]
  <2>1. \A x \in Tellings : [flight EXCEPT ![k] = x] \in [AllCalls -> Tellings]
    BY DEF ShareInv, ShareTyped
  <2>2. {"none", "asked", TokenRefused(k), StrayAnswer(k)} \subseteq Tellings
    BY DEF Tellings, TokenRefused, StrayAnswer
  <2>3. ASSUME NodeAnswers(k)
        PROVE  NodeSays(k) \in Tellings
    BY DEF NodeSays, Tellings, ShareInv, ShareTyped, Kept, AllCalls
  <2>4. CASE NodeAnswers(k)
    BY <2>1, <2>2, <2>3, <2>4 DEF NodeAnswers
  <2>5. CASE UNCHANGED flight \/ flight' \in {[flight EXCEPT ![k] = x] : x \in {"none", "asked"}}
    BY <2>1, <2>2, <2>5 DEF ShareInv, ShareTyped
  <2> QED
    BY <2>4, <2>5 DEF CallStep, Acquires, GivesUp, Abandons, OthersAsk, FlightEnds, TimesOut, Ends, world
<1> QED
  BY <1>1, <1>2, <1>3 DEF ShareTyped, ShareInv

(* The same step for e, the call being that for its account. *)
LEMMA OwnCall ==
    ASSUME ShareInv, NEW e \in Configured, CallStep(UserCall(e))
    PROVE  EntryTold(e)'
<1> DEFINE k == UserCall(e)
<1>1. /\ k \in AllCalls /\ e \in Entries /\ k = <<"user", e>> /\ EntryTold(e)
      /\ shared.status = "collecting" => account[e] \in been[e] /\ SaidOf(e, node) \subseteq been[e]
      /\ k \in DOMAIN call => shared.status = "collecting"
      /\ k \in DOMAIN flight
  BY UserCalls DEF Configured, ShareInv, UpToDate, NoCalls, ShareTyped, UserCall
<1>2. DOMAIN call' = DOMAIN call /\ UNCHANGED <<where, account, node>> /\ SaidOf(e, node)' = SaidOf(e, node)
  BY <1>1, CallStepTyped DEF SaidOf
<1>3. been \in [Entries -> SUBSET Kept] /\ since \in [Entries -> SUBSET Kept]
  BY DEF ShareInv, ShareTyped
<1> HIDE DEF k
<1>4. CASE Acquires(k)
  <2>1. CASE flight[k] = "none"
    <3>1. /\ flight'[k] = "asked" /\ call'[k] = "leads" /\ been'[e] = been[e] /\ k \in DOMAIN call
      BY <1>1, <1>4, <2>1 DEF Acquires, IsAt
    <3> QED
      BY <1>1, <1>2, <3>1 DEF EntryTold, Judged, IsAt, Fits, k
  <2>2. CASE flight[k] # "none"
    <3>1. /\ flight'[k] = flight[k] /\ call'[k] = "joins" /\ call[k] = "waits" /\ k \in DOMAIN call
          /\ since'[e] = since[e] /\ been'[e] = been[e] \cup since[e]
      BY <1>1, <1>3, <1>4, <2>2 DEF Acquires, IsAt
    <3> QED
      BY <1>1, <1>2, <2>2, <3>1 DEF EntryTold, Judged, IsAt, Fits, k
  <2> QED
    BY <2>1, <2>2
<1>5. CASE GivesUp(k) \/ Abandons(k)
  <2>1. /\ call'[k] = "failed" /\ call[k] \in {"waits", "joins"} /\ k \in DOMAIN call
        /\ UNCHANGED <<flight, since, been>>
    BY <1>5 DEF GivesUp, Abandons, IsAt, world
  <2> QED
    BY <1>1, <1>2, <2>1 DEF EntryTold, Judged, IsAt, Fits, k
<1>6. CASE OthersAsk(k)
  <2>1. /\ flight[k] = "none" /\ flight'[k] = "asked" /\ UNCHANGED <<call, been>>
        /\ since'[e] = {account[e]} \cup SaidOf(e, node)
    BY <1>1, <1>6 DEF OthersAsk
  <2> QED
    BY <1>1, <1>2, <2>1 DEF EntryTold, Judged, IsAt, Fits, k
<1>7. CASE NodeAnswers(k)
  <2>1. flight[k] = "asked" /\ UNCHANGED <<since, been, call>>
    BY <1>7 DEF NodeAnswers
  <2>2. account[e] \in Judged(e) /\ SaidOf(e, node) \subseteq Judged(e)
    BY <1>1, <2>1 DEF EntryTold, k
  <2>3. Fits(flight'[k], Judged(e))
    BY <1>7, <2>2, NodeFits DEF k
  <2>4. Judged(e)' = Judged(e) /\ (IsAt(k, "joins")' <=> IsAt(k, "joins"))
    BY <2>1 DEF Judged, IsAt
  <2>5. IsAt(k, "joins") => flight'[k] # "none"
    BY <1>1, <1>7, ShareAssumption DEF NodeAnswers, NodeSays, TokenRefused, StrayAnswer, ShareInv,
       ShareTyped, Kept, UserStates, Configured, k, UserCall
  <2> QED
    BY <1>1, <1>2, <2>1, <2>2, <2>3, <2>4, <2>5 DEF EntryTold, k
<1>8. CASE FlightEnds(k) \/ TimesOut(k)
  <2>1. PICK word : /\ flight[k] # "none" /\ Ends(k, word)
                    /\ word = "failed" \/ word = flight[k]
                    /\ word \notin {"none", "asked"}
    BY <1>8 DEF FlightEnds, TimesOut
  <2>2. flight'[k] = "none" /\ been'[e] = been[e]
    BY <1>1, <2>1 DEF Ends
  <2>3. CASE IsAt(k, "leads") \/ IsAt(k, "joins")
    <3>1. call'[k] = word
      BY <2>1, <2>3 DEF Ends, IsAt
    <3>2. Fits(word, been[e])
      BY <1>1, <2>1, <2>3 DEF EntryTold, Judged, Fits, k
    <3>3. ~IsAt(k, "joins")'
      BY <3>1, <3>2, ShareAssumption DEF IsAt, Fits, UserStates
    <3> QED
      BY <1>2, <2>1, <2>2, <3>1, <3>2, <3>3 DEF EntryTold, Fits, k
  <2>4. CASE ~(IsAt(k, "leads") \/ IsAt(k, "joins"))
    BY <1>1, <1>2, <2>1, <2>2, <2>4 DEF Ends, EntryTold, IsAt, Fits, k
  <2> QED
    BY <2>3, <2>4
<1> QED
  BY <1>4, <1>5, <1>6, <1>7, <1>8 DEF CallStep, k

(* A card made of what the calls came to tells the truth. *)
LEMMA CollectedIsTrue ==
    ASSUME ShareInv, NEW e \in Configured, Answered(UserCall(e))
    PROVE  EntryStatus(Collected[e]) \in {"nothing"} \cup been[e]
<1> DEFINE user == call[<<"user", e>>]
<1>1. e \in Entries /\ Collected[e] = FilledIn(e)
  BY DEF Collected, Configured
<1>2. user \notin {"waits", "leads", "joins", "none", "asked"} /\ Fits(user, been[e])
  BY DEF Answered, ShareInv, EntryTold, UserCall
<1>3. CASE user = "failed"
  BY <1>1, <1>3 DEF FilledIn, Unavailable, EntryStatus
<1>4. CASE user = "missing"
  <2>1. "gone" \in been[e]
    BY <1>2, <1>4, ShareAssumption DEF Fits, UserStates
  <2> QED
    BY <1>1, <1>4, <2>1 DEF FilledIn, Unavailable, EntryStatus
<1>5. CASE user \in States \cap been[e]
  <2>1. user \in UserStates
    BY <1>5, ShareAssumption
  <2>2. Collected[e].says = user
    BY <1>1, <2>1 DEF FilledIn, UserStates
  <2>3. EntryStatus(Collected[e]) = user
    BY <2>1, <2>2 DEF EntryStatus, UserStates
  <2> QED
    BY <1>5, <2>3
<1> QED
  BY <1>2, <1>3, <1>4, <1>5 DEF Fits

(* Steps of the page, which leave accounts, nodes and GETs alone. *)
PageStep == Loads \/ Reopens \/ Admitted \/ TurnedAway \/ AsksForEntries \/ Served \/ BudgetEnds

LEMMA PageStepKeeps ==
    ASSUME ShareInv, PageStep
    PROVE  ShareInv'
<1>1. /\ UNCHANGED <<where, account, node, flight, since>> /\ Configured' = Configured
      /\ \A e \in Entries : SaidOf(e, node)' = SaidOf(e, node)
  BY DEF PageStep, Loads, Reopens, Admitted, TurnedAway, AsksForEntries, Served, BudgetEnds,
         world, nodes, Configured, SaidOf
<1>2. Loads \/ UNCHANGED been
  BY DEF PageStep, Reopens, Admitted, TurnedAway, AsksForEntries, Served, BudgetEnds, world
<1>3. /\ been' \in [Entries -> SUBSET Kept]
      /\ Loads => \A e \in Entries : been'[e] = {account[e]} \cup SaidOf(e, node)
  <2>1. \A e \in Entries : {account[e]} \cup SaidOf(e, node) \subseteq Kept
    BY DEF ShareInv, ShareTyped, SaidOf, Kept
  <2> QED
    BY <1>2, <2>1 DEF Loads, ShareInv, ShareTyped
<1>4. ShareTyped'
  BY <1>1, <1>3 DEF ShareInv, ShareTyped
<1>5. UpToDate'
  <2>1. CASE Loads
    BY <1>1, <1>3, <2>1 DEF UpToDate, Configured
  <2>2. CASE ~Loads
    <3>1. UNCHANGED been
      BY <1>2, <2>2
    <3>2. shared'.status \in {"asking", "collecting"} => shared.status \in {"asking", "collecting"}
      BY <2>2 DEF PageStep, Reopens, Admitted, TurnedAway, AsksForEntries, Served, BudgetEnds
    <3> QED
      BY <1>1, <3>1, <3>2 DEF UpToDate, ShareInv, Configured
  <2> QED
    BY <2>1, <2>2
<1>6. shared'.status # "collecting" => call' = NoCalls
  <2>1. CASE Loads \/ Reopens \/ TurnedAway
    <3>1. shared.status # "collecting" /\ UNCHANGED call
      BY <2>1 DEF Loads, Reopens, TurnedAway
    <3> QED
      BY <3>1 DEF ShareInv
  <2>2. CASE Admitted \/ AsksForEntries
    <3>1. shared'.status = "collecting"
      BY <2>2 DEF Admitted, AsksForEntries
    <3> QED
      BY <3>1
  <2>3. CASE Served
    BY <2>3 DEF Served
  <2>4. CASE BudgetEnds
    BY <2>4 DEF BudgetEnds, ShareInv
  <2> QED
    BY <2>1, <2>2, <2>3, <2>4 DEF PageStep
(* None of the steps ends, starts or joins the GET for an account. *)
<1>7. \A e \in Configured : /\ IsAt(UserCall(e), "leads")' => IsAt(UserCall(e), "leads")
                            /\ IsAt(UserCall(e), "joins")' => IsAt(UserCall(e), "joins")
  BY DEF PageStep, Loads, Reopens, Admitted, TurnedAway, AsksForEntries, Served, BudgetEnds,
         IsAt, NoCalls, NameCalls, UserCall
<1>8. \A e \in Configured : IsAt(UserCall(e), "leads") => IsAt(UserCall(e), "leads")' /\ ~Loads
  BY DEF PageStep, Loads, Reopens, Admitted, TurnedAway, AsksForEntries, Served, BudgetEnds,
         IsAt, NoCalls, NameCalls, EntryCalls, UserCall, Answered, ShareInv
<1>9. \A e \in Configured : UserCall(e) \in DOMAIN call' =>
          \/ call'[UserCall(e)] = "waits"
          \/ UserCall(e) \in DOMAIN call /\ call'[UserCall(e)] = call[UserCall(e)] /\ ~Loads
  BY DEF PageStep, Loads, Reopens, Admitted, TurnedAway, AsksForEntries, Served, BudgetEnds,
         NoCalls, NameCalls, UserCall, ShareInv
<1>10. \A e \in Configured' : EntryTold(e)'
  <2> SUFFICES ASSUME NEW e \in Configured
               PROVE  EntryTold(e)'
    BY <1>1
  <2>1. EntryTold(e) /\ e \in Entries
    BY DEF ShareInv, Configured
  <2>2. Judged(e)' = Judged(e)
    <3>1. since'[e] = since[e]
      BY <1>1
    <3>2. CASE IsAt(UserCall(e), "leads")
      <4>1. IsAt(UserCall(e), "leads")' /\ been' = been
        BY <1>2, <1>8, <3>2
      <4> QED
        BY <3>2, <4>1 DEF Judged
    <3>3. CASE ~IsAt(UserCall(e), "leads")
      <4>1. IsAt(UserCall(e), "leads")' => IsAt(UserCall(e), "leads")
        BY <1>7
      <4>2. ~(IsAt(UserCall(e), "leads")')
        BY <3>3, <4>1
      <4> QED
        BY <3>1, <3>3, <4>2 DEF Judged
    <3> QED
      BY <3>2, <3>3
  <2>3. IsAt(UserCall(e), "joins")' => ~Loads /\ IsAt(UserCall(e), "joins")
    BY <1>7, <1>9 DEF IsAt
  <2> QED
    BY <1>1, <1>2, <1>9, <2>1, <2>2, <2>3 DEF EntryTold
<1>11. CardsTellTheTruth'
  <2>1. CASE Served
    <3>1. \A e \in Configured : Answered(UserCall(e))
      BY <2>1 DEF Served, EntryCalls, UserCall
    <3>2. UNCHANGED been /\ shared'.cards = Collected
      BY <2>1 DEF Served, world
    <3> QED
      BY <1>1, <3>1, <3>2, CollectedIsTrue DEF CardsTellTheTruth
  <2>2. CASE ~Served
    <3>1. shared'.status # "ok" \/ (UNCHANGED shared /\ UNCHANGED been)
      <4>1. CASE Loads \/ Reopens \/ Admitted \/ TurnedAway
        <5>1. shared'.status # "ok"
          <6>1. CASE Loads
            BY <6>1 DEF Loads
          <6>2. CASE Reopens \/ Admitted
            BY <6>2 DEF Reopens, Admitted
          <6>3. CASE TurnedAway
            BY <6>3 DEF TurnedAway
          <6> QED
            BY <4>1, <6>1, <6>2, <6>3
        <5> QED
          BY <5>1
      <4>2. CASE AsksForEntries \/ BudgetEnds
        BY <4>2 DEF AsksForEntries, BudgetEnds, world
      <4> QED
        BY <2>2, <4>1, <4>2 DEF PageStep
    <3> QED
      BY <1>1, <3>1 DEF CardsTellTheTruth, ShareInv
  <2> QED
    BY <2>1, <2>2
<1> QED
  BY <1>4, <1>5, <1>6, <1>10, <1>11 DEF ShareInv

(* What accounts are, or are said to be, is noted wherever it may be told. *)
LEMMA NotesKeep ==
    ASSUME ShareInv, NEW said \in [Entries -> SUBSET Kept], Noted(said),
           UNCHANGED <<where, flight, shared, call>>,
           account' \in [Entries -> Kept], node' \in [ShareNodes -> NodeStates],
           \A e \in Entries : /\ account'[e] = account[e] \/ account'[e] \in said[e]
                             /\ SaidOf(e, node)' \subseteq SaidOf(e, node) \cup said[e]
    PROVE  ShareInv'
<1>1. /\ \A e \in Entries : been'[e] = been[e] \cup said[e]
      /\ \A e \in Entries : since'[e] = IF since[e] = {} THEN {} ELSE since[e] \cup said[e]
      /\ been' \in [Entries -> SUBSET Kept] /\ since' \in [Entries -> SUBSET Kept]
  BY DEF Noted, ShareInv, ShareTyped
<1>2. Configured' = Configured /\ Configured \subseteq Entries
  BY DEF Configured
<1>3. ShareTyped'
  BY <1>1 DEF ShareInv, ShareTyped
<1>4. UpToDate'
  BY <1>1, <1>2 DEF UpToDate, ShareInv
<1>5. \A e \in Configured : EntryTold(e)'
  <2> SUFFICES ASSUME NEW e \in Configured
               PROVE  EntryTold(e)'
    OBVIOUS
  <2>1. EntryTold(e)
    BY DEF ShareInv
  <2>2. IsAt(UserCall(e), "leads")' = IsAt(UserCall(e), "leads") /\ IsAt(UserCall(e), "joins")' = IsAt(UserCall(e), "joins")
    BY DEF IsAt
  <2>3. Judged(e) # {} => Judged(e)' = Judged(e) \cup said[e]
    BY <1>1, <1>2, <2>2 DEF Judged
  <2>4. flight[UserCall(e)] # "none" =>
            /\ Fits(flight[UserCall(e)], Judged(e)')
            /\ account'[e] \in Judged(e)' /\ SaidOf(e, node)' \subseteq Judged(e)'
    <3> SUFFICES ASSUME flight[UserCall(e)] # "none"
                 PROVE  /\ Fits(flight[UserCall(e)], Judged(e)')
                        /\ account'[e] \in Judged(e)' /\ SaidOf(e, node)' \subseteq Judged(e)'
      OBVIOUS
    <3>1. Fits(flight[UserCall(e)], Judged(e)) /\ account[e] \in Judged(e) /\ SaidOf(e, node) \subseteq Judged(e)
      BY <2>1 DEF EntryTold
    <3>2. Judged(e)' = Judged(e) \cup said[e]
      BY <2>3, <3>1
    <3>3. account'[e] \in Judged(e)' /\ SaidOf(e, node)' \subseteq Judged(e)'
      BY <1>2, <3>1, <3>2
    <3>4. Fits(flight[UserCall(e)], Judged(e)')
      BY <3>1, <3>2 DEF Fits
    <3> QED
      BY <3>3, <3>4
  <2>5. since[e] \subseteq been[e] => since'[e] \subseteq been'[e]
    BY <1>1, <1>2
  <2>6. UserCall(e) \in DOMAIN call =>
            \/ call[UserCall(e)] \in {"waits", "leads", "joins"}
            \/ call[UserCall(e)] \notin {"none", "asked"} /\ Fits(call[UserCall(e)], been'[e])
    BY <1>1, <1>2, <2>1 DEF EntryTold, Fits
  <2> QED
    BY <2>1, <2>2, <2>4, <2>5, <2>6 DEF EntryTold
<1>6. CardsTellTheTruth'
  BY <1>1, <1>2 DEF CardsTellTheTruth, ShareInv
<1> QED
  BY <1>2, <1>3, <1>4, <1>5, <1>6 DEF ShareInv

LEMMA CallStepKeeps ==
    ASSUME ShareInv, NEW k \in AllCalls, CallStep(k)
    PROVE  ShareInv'
<1>1. /\ ShareTyped' /\ DOMAIN call' = DOMAIN call /\ UNCHANGED <<shared, where, account, node>>
      /\ Configured' = Configured /\ Configured \subseteq Entries
      /\ \A e \in Entries : SaidOf(e, node)' = SaidOf(e, node)
  BY CallStepTyped DEF Configured, SaidOf
<1>2. \A e \in Entries : been[e] \subseteq been'[e]
  BY DEF CallStep, Acquires, GivesUp, Abandons, OthersAsk, NodeAnswers, FlightEnds, TimesOut, Ends,
         world, ShareInv, ShareTyped
<1>3. UpToDate'
  BY <1>1, <1>2 DEF UpToDate, ShareInv
<1>4. shared'.status # "collecting" => call' = NoCalls
  <2> SUFFICES ASSUME shared'.status # "collecting"
               PROVE  call' = NoCalls
    OBVIOUS
  <2>1. call = NoCalls /\ \A state : ~IsAt(k, state)
    BY <1>1 DEF ShareInv, NoCalls, IsAt
  <2> QED
    BY <2>1 DEF CallStep, Acquires, GivesUp, Abandons, OthersAsk, NodeAnswers, FlightEnds, TimesOut, Ends
<1>5. ASSUME NEW e \in Configured
      PROVE  EntryTold(e)'
  <2>1. CASE k = UserCall(e)
    BY <2>1, OwnCall
  <2>2. CASE k # UserCall(e)
    <3>1. UserCall(e) \in AllCalls /\ e \in Entries /\ k # <<"user", e>> /\ EntryTold(e)
      BY <1>1, <2>2, UserCalls DEF UserCall, ShareInv
    <3>2. flight'[UserCall(e)] = flight[UserCall(e)]
      BY <2>2, <3>1 DEF CallStep, Acquires, GivesUp, Abandons, OthersAsk, NodeAnswers, FlightEnds,
                        TimesOut, Ends, world, ShareInv, ShareTyped
    <3>3. since'[e] = since[e] /\ been'[e] = been[e]
      BY <3>1 DEF CallStep, Acquires, GivesUp, Abandons, OthersAsk, NodeAnswers, FlightEnds,
                  TimesOut, Ends, world, ShareInv, ShareTyped
    <3>4. UserCall(e) \in DOMAIN call => call'[UserCall(e)] = call[UserCall(e)]
      BY <2>2 DEF CallStep, Acquires, GivesUp, Abandons, OthersAsk, NodeAnswers, FlightEnds,
                  TimesOut, Ends
    <3> QED
      BY <1>1, <3>1, <3>2, <3>3, <3>4, OtherCall
  <2> QED
    BY <2>1, <2>2
<1>6. CardsTellTheTruth'
  BY <1>1, <1>2 DEF CardsTellTheTruth, ShareInv
<1> QED
  BY <1>1, <1>3, <1>4, <1>5, <1>6 DEF ShareInv

LEMMA ShareSteps == ShareInv /\ [ShareNext]_shareVars => ShareInv'
<1> SUFFICES ASSUME ShareInv, [ShareNext]_shareVars
             PROVE  ShareInv'
  OBVIOUS
<1>1. CASE PageStep
  BY <1>1, PageStepKeeps
<1>2. ASSUME NEW k \in AllCalls, CallStep(k)
      PROVE  ShareInv'
  BY <1>2, CallStepKeeps
<1>3. ASSUME NEW e \in Entries, AccountChanges(e)
      PROVE  ShareInv'
  <2> DEFINE said == [d \in Entries |-> IF d = e THEN {account'[e]} ELSE {}]
  <2>1. account' \in [Entries -> Kept] /\ \A d \in Entries : d # e => account'[d] = account[d]
    BY <1>3 DEF AccountChanges, ShareInv, ShareTyped, Kept
  <2>2. Noted(said) /\ UNCHANGED <<where, node, flight, shared, call>>
    BY <1>3 DEF AccountChanges
  <2>3. said \in [Entries -> SUBSET Kept]
    BY <2>1
  <2>4. \A d \in Entries : account'[d] = account[d] \/ account'[d] \in said[d]
    BY <2>1
  <2>5. \A d \in Entries : SaidOf(d, node)' = SaidOf(d, node)
    BY <2>2 DEF SaidOf
  <2>6. node' \in [ShareNodes -> NodeStates]
    BY <2>2 DEF ShareInv, ShareTyped
  <2> HIDE DEF said
  <2> QED
    BY <2>1, <2>2, <2>3, <2>4, <2>5, <2>6, NotesKeep
<1>4. ASSUME NEW n \in ShareNodes, NodeChanges(n)
      PROVE  ShareInv'
  <2> DEFINE said == [e \in Entries |-> SaidOf(e, node')]
  <2>1. node' \in [ShareNodes -> NodeStates]
    BY <1>4 DEF NodeChanges, ShareInv, ShareTyped
  <2>2. Noted(said) /\ UNCHANGED <<where, account, flight, shared, call>>
    BY <1>4 DEF NodeChanges
  <2>3. said \in [Entries -> SUBSET Kept]
    BY DEF SaidOf, Kept
  <2>4. \A e \in Entries : SaidOf(e, node)' = said[e]
    BY <2>2 DEF SaidOf
  <2>5. account' \in [Entries -> Kept]
    BY <2>2 DEF ShareInv, ShareTyped
  <2> HIDE DEF said
  <2> QED
    BY <2>1, <2>2, <2>3, <2>4, <2>5, NotesKeep
<1>5. CASE LinkSwitched \/ UNCHANGED shareVars
  <2>1. /\ UNCHANGED <<where, account, node, flight, since, been, shared, call>>
        /\ Configured' = Configured /\ Configured \subseteq Entries
        /\ \A e \in Entries : SaidOf(e, node)' = SaidOf(e, node)
    BY <1>5 DEF LinkSwitched, shareVars, Configured, SaidOf
  <2>2. \A e \in Configured : EntryTold(e)'
    BY <2>1, OtherCall DEF ShareInv
  <2> QED
    BY <2>1, <2>2 DEF ShareInv, ShareTyped, UpToDate, CardsTellTheTruth
<1> QED
  BY <1>1, <1>2, <1>3, <1>4, <1>5 DEF ShareNext, PageStep, CallStep

(* A card tells of an account what it has been since the load began, or since the GET
   began that the load was joined to, and never calls one removed because its node was
   away or refused the panel, but for what a proxy in the node's place has it say. *)
THEOREM CardsAreTrue == Spec => []CardsTellTheTruth
<1>1. Init => ShareInv
  BY ShareStarts DEF Init
<1>2. ShareInv /\ [Next]_vars => ShareInv'
  <2>1. [Next]_vars => [ShareNext]_shareVars
    BY DEF Next, vars
  <2> QED
    BY <2>1, ShareSteps
<1>3. ShareInv => CardsTellTheTruth
  BY DEF ShareInv
<1> QED
  BY <1>1, <1>2, <1>3, PTL DEF Spec
------------------------------------------------------------------------------
(* What the operations of the cache do to an entry. *)

IsEntry(q) ==
    q \in [data : {q.data}, fetch : {q.fetch}, answer : {q.answer}, by : {q.by},
           error : {q.error}, touched : BOOLEAN]

LEMMA CancelEffect ==
    ASSUME NEW q, IsEntry(q)
    PROVE  /\ IsEntry(Cancel(q)) /\ Cancel(q).fetch = "idle"
           /\ Cancel(q).error = q.error /\ Cancel(q).touched = q.touched
BY DEF IsEntry, Cancel

LEMMA RefetchEffect ==
    ASSUME NEW q, NEW by, IsEntry(q)
    PROVE  IsEntry(Refetch(q, by)) /\ Refetch(q, by).fetch = "asked"
BY DEF IsEntry, Cancel, Refetch

LEMMA SetDataEffect ==
    ASSUME NEW q, NEW rows, IsEntry(q)
    PROVE  IsEntry(SetData(q, rows)) /\ SetData(q, rows).fetch = q.fetch
BY DEF IsEntry, SetData

LEMMA ReadEffect ==
    ASSUME NEW q, NEW rows, NEW rev, NEW began, IsEntry(q)
    PROVE  /\ IsEntry(Read(q, rows, rev, began)) /\ Read(q, rows, rev, began).fetch = "read"
           /\ Read(q, rows, rev, began).answer.rev = rev
           /\ Read(q, rows, rev, began).answer.began = began
BY DEF IsEntry, Read

LEMMA LandEffect ==
    ASSUME NEW q, IsEntry(q)
    PROVE  IsEntry(Land(q)) /\ Land(q).fetch = "idle" /\ ~Land(q).touched
BY DEF IsEntry, Cancel, Land

LEMMA FailWithEffect ==
    ASSUME NEW q, NEW failure, IsEntry(q)
    PROVE  /\ IsEntry(FailWith(q, failure)) /\ FailWith(q, failure).fetch = "idle"
           /\ FailWith(q, failure).error = failure
BY DEF IsEntry, Cancel, FailWith

------------------------------------------------------------------------------
(* Requests. *)

IsRequest(r) ==
    r \in [kind : {r.kind}, user : {r.user}, on : {r.on}, note : {r.note},
           at : {"sent", "answered", "settling"}, before : {r.before},
           ok : BOOLEAN, live : BOOLEAN, rev : {r.rev}, mine : {r.mine}]

(* An answer of a server s does not run ahead of it: what it says is live has been
   reloaded; and the panel's own store has nothing to reload. *)
Speaks(r, s, p) ==
    r.at = "answered" /\ r.ok /\ r.kind # "rotate" =>
        /\ r.rev \in Nat /\ r.rev <= s.rev
        /\ r.live => r.rev <= s.good
        /\ p = "subscribers" => r.live

IsFine(r, s, p) == r = Free \/ (IsRequest(r) /\ Speaks(r, s, p))

(* The answer to r, when it is there, will have the list fetched again. *)
WillRefetch(r) == r # Free /\ r.at \in {"sent", "answered"}

AreFine(reqs, s, p) ==
    /\ reqs = [c \in Requests |-> reqs[c]]
    /\ \A c \in Requests : IsFine(reqs[c], s, p)

IsServer(s) ==
    /\ s = [rows |-> s.rows, rev |-> s.rev, good |-> s.good]
    /\ s.rev \in Nat /\ s.good \in Nat /\ s.good <= s.rev

(* An older server's answers are answers of a newer one. *)
LEMMA ServerGrows ==
    ASSUME NEW reqs, NEW s, NEW t, NEW p, IsServer(s), IsServer(t),
           s.rev <= t.rev, s.good <= t.good, AreFine(reqs, s, p)
    PROVE  AreFine(reqs, t, p)
BY DEF AreFine, IsFine, Speaks, IsServer

LEMMA RequestIsNotFree == ASSUME NEW r, IsRequest(r) PROVE r # Free
BY DEF IsRequest, Free

(* Hooks that go leave their requests as they are otherwise. *)
LEMMA UnhookEffect ==
    ASSUME NEW reqs, NEW s, NEW p, AreFine(reqs, s, p)
    PROVE  /\ AreFine(Unhook(reqs), s, p)
           /\ \A c \in Requests : WillRefetch(reqs[c]) => WillRefetch(Unhook(reqs)[c])
<1> SUFFICES ASSUME NEW c \in Requests
             PROVE  /\ IsFine(Unhook(reqs)[c], s, p)
                    /\ WillRefetch(reqs[c]) => WillRefetch(Unhook(reqs)[c])
  BY DEF AreFine, Unhook
<1>1. CASE reqs[c] = Free
  BY <1>1 DEF Unhook, IsFine, WillRefetch
<1>2. CASE reqs[c] # Free
  <2> DEFINE r == reqs[c]
             mine == r.mine /\ r.kind = "reload"
             u == [r EXCEPT !.mine = mine]
  <2>1. IsRequest(r) /\ Speaks(r, s, p)
    BY <1>2 DEF AreFine, IsFine
  <2>2. Unhook(reqs)[c] = u
    BY <1>2 DEF Unhook
  <2> HIDE DEF mine
  <2>3. /\ IsRequest(u) /\ u.at = r.at /\ u.ok = r.ok /\ u.kind = r.kind
        /\ u.rev = r.rev /\ u.live = r.live
    BY <2>1 DEF IsRequest
  <2>4. Speaks(u, s, p)
    BY <2>1, <2>3 DEF Speaks
  <2> QED
    BY <2>2, <2>3, <2>4, RequestIsNotFree DEF IsFine, WillRefetch
<1> QED
  BY <1>1, <1>2

LEMMA EndedEffect ==
    ASSUME NEW q, NEW s, NEW p, AreFine(req, s, p)
    PROVE  /\ AreFine(Ended(q), s, p)
           /\ \A c \in Requests : WillRefetch(req[c]) => WillRefetch(Ended(q)[c])
BY DEF AreFine, Ended, IsFine, WillRefetch

LEMMA DrawsEffect ==
    ASSUME NEW q, NEW reqs, NEW s, NEW p, AreFine(reqs, s, p), Draws(q, reqs)
    PROVE  /\ query' = q /\ AreFine(req', s, p)
           /\ \A c \in Requests : WillRefetch(reqs[c]) => WillRefetch(req'[c])
BY UnhookEffect DEF Draws

LEMMA RepliesEffect ==
    ASSUME NEW c \in Requests, NEW ok \in BOOLEAN, NEW live \in BOOLEAN, NEW rev, NEW s, NEW p,
           AreFine(req, s, p), req[c] # Free, Replies(c, ok, live, rev),
           ok /\ req[c].kind # "rotate" =>
               /\ rev \in Nat /\ rev <= s.rev
               /\ live => rev <= s.good
               /\ p = "subscribers" => live
    PROVE  /\ AreFine(req', s, p) /\ UNCHANGED <<page, query, get, history>>
           /\ \A d \in Requests : WillRefetch(req[d]) => WillRefetch(req'[d])
<1> DEFINE r == req[c]
           b == IF ok THEN NoData ELSE r.before
           n == [r EXCEPT !.at = "answered", !.on = None, !.note = None,
                          !.before = b, !.ok = ok, !.live = live, !.rev = rev]
<1>1. IsRequest(r)
  BY DEF AreFine, IsFine
<1>2. req'[c] = n /\ \A d \in Requests : d # c => req'[d] = req[d]
  BY DEF Replies, AreFine
<1> HIDE DEF b
<1>3. IsRequest(n) /\ n.at = "answered" /\ n.ok = ok /\ n.live = live /\ n.rev = rev /\ n.kind = r.kind
  BY <1>1 DEF IsRequest
<1>4. Speaks(n, s, p) /\ WillRefetch(n)
  BY <1>3, RequestIsNotFree DEF Speaks, WillRefetch
<1>5. req' = [d \in Requests |-> req'[d]]
  BY DEF Replies, AreFine
<1> QED
  BY <1>2, <1>3, <1>4, <1>5 DEF Replies, AreFine, IsFine

------------------------------------------------------------------------------
(* The inductive invariant. *)

(* The panel has been told of nothing that did not happen; what it knows not to be
   live is what it was told, and the panel's own store is never behind. *)
KnowsThePast ==
    /\ told \in Nat /\ unlive \in Nat /\ unlive <= told /\ told <= server.rev
    /\ page = "subscribers" => unlive = 0

(* A reload that the watch has heard of was later than what it was marked for. *)
HealedIsLive == problem = "healed" => unlive <= server.good

(* What was written into the list stays there without a failure only while some
   answer is still to have it fetched again. *)
TouchedIsAwaited ==
    query.touched /\ query.fetch = "idle" /\ query.error = "" =>
        \E c \in Requests : WillRefetch(req[c])

(* The GET under way for a node's list will bring, or has been answered with, all
   that the panel had been told of when the GET began. *)
GetIsAsOld ==
    /\ get \in [at : {"none", "asked", "read"}, rows : {get.rows}, rev : Nat, began : Nat]
    /\ get # NoGet => page = "node"
    /\ get.began <= told /\ (get.at = "read" => get.began <= get.rev)

PInv ==
    /\ page \in {"node", "subscribers"}
    /\ IsServer(server) /\ IsEntry(query) /\ AreFine(req, server, page)
    /\ KnowsThePast /\ HealedIsLive /\ TouchedIsAwaited /\ GetIsAsOld
    /\ NothingStaleUnderWay /\ BannerUnlessOvertaken

(* No GET, or one that has just begun. *)
LEMMA GetIsNew ==
    ASSUME NEW g, g = NoGet \/ g = Begun, told \in Nat
    PROVE  /\ g \in [at : {"none", "asked", "read"}, rows : {g.rows}, rev : Nat, began : Nat]
           /\ g.began <= told /\ g.at # "read"
BY DEF NoGet, Begun

LEMMA ListStarts == ListInit => PInv
<1> SUFFICES ASSUME ListInit
             PROVE  PInv
  OBVIOUS
<1>1. IsEntry(Empty)
  BY DEF IsEntry, Empty
<1>2. IsEntry(query) /\ query.fetch = "asked"
  BY <1>1, RefetchEffect DEF ListInit
<1>3. IsServer(server) /\ server.rev = 0
  <2> DEFINE rows == [u \in Users |-> [on |-> "on", note |-> None]]
  <2>1. server = [rows |-> rows, rev |-> 0, good |-> 0]
    BY DEF ListInit
  <2> HIDE DEF rows
  <2> QED
    BY <2>1 DEF IsServer
<1>4. AreFine(req, server, page)
  <2>1. req = [c \in Requests |-> Free]
    BY DEF ListInit
  <2> QED
    BY <2>1 DEF AreFine, IsFine
<1>5. page \in {"node", "subscribers"} /\ told = 0 /\ unlive = 0 /\ problem = ""
  BY DEF ListInit
<1>6. KnowsThePast /\ HealedIsLive /\ BannerUnlessOvertaken
  <2>1. server.good \in Nat /\ told = 0 /\ unlive = 0
    BY <1>3, <1>5 DEF IsServer
  <2> QED
    BY <1>3, <2>1 DEF KnowsThePast, HealedIsLive, BannerUnlessOvertaken
<1>7. TouchedIsAwaited /\ NothingStaleUnderWay /\ GetIsAsOld
  <2>1. get = NoGet
    BY DEF ListInit
  <2>2. told \in Nat
    BY <1>5
  <2>3. GetIsAsOld
    BY <2>1, <2>2, GetIsNew DEF GetIsAsOld
  <2> QED
    BY <1>2, <2>3 DEF TouchedIsAwaited, NothingStaleUnderWay
<1> QED
  BY <1>2, <1>3, <1>4, <1>5, <1>6, <1>7 DEF PInv

(* A GET that nothing happens to is as old as before, whatever the panel is told. *)
LEMMA GetStays ==
    ASSUME PInv, UNCHANGED <<page, get>>, told' \in Nat, told <= told'
    PROVE  GetIsAsOld'
BY DEF PInv, GetIsAsOld, KnowsThePast

(* Most steps leave alone the server, the banner and what the panel was told: they
   are about the list and the requests. *)
LEMMA QuietStep ==
    ASSUME PInv, UNCHANGED <<page, server, problem, history>>,
           IsEntry(query'), AreFine(req', server, page),
           TouchedIsAwaited', UNCHANGED get \/ GetIsAsOld',
           query'.fetch = "read" =>
               \/ query.fetch = "read" /\ query'.answer = query.answer
               \/ query'.answer.rev >= told
               \/ page = "node" /\ query'.answer.began < told
    PROVE  PInv'
<1>1. IsMarked' = IsMarked
  BY DEF IsMarked
<1>2. UNCHANGED <<told, unlive>> /\ told \in Nat
  BY DEF history, PInv, KnowsThePast
<1>3. GetIsAsOld'
  BY <1>2, GetStays
<1>4. NothingStaleUnderWay'
  BY <1>2 DEF PInv, NothingStaleUnderWay
<1> QED
  BY <1>1, <1>2, <1>3, <1>4 DEF PInv, KnowsThePast, HealedIsLive, BannerUnlessOvertaken

(* A change is made: a request more, which will have the list fetched. *)
LEMMA MutatesKeeps ==
    ASSUME PInv, NEW kind, NEW on, NEW note, Mutates(kind, on, note)
    PROVE  PInv'
<1> DEFINE r == [kind |-> kind, user |-> drawer, on |-> on, note |-> note, at |-> "sent",
                 before |-> IF Optimistic(kind) THEN query.data ELSE NoData,
                 ok |-> FALSE, live |-> FALSE, rev |-> 0, mine |-> TRUE]
           q == IF Cancels(kind) THEN Cancel(query) ELSE query
           w == IF Optimistic(kind) THEN SetData(q, Foreseen(q.data, r)) ELSE q
           reqs == [Ended(q) EXCEPT ![Slot] = r]
<1>1. Draws(w, reqs) /\ UNCHANGED <<page, server, get, problem, history>>
  BY DEF Mutates
<1>2. Slot \in Requests
  BY DEF Mutates, Slot
<1>3. IsEntry(query) /\ AreFine(req, server, page)
  BY DEF PInv
<1>4. IsRequest(r) /\ r.at = "sent"
  BY DEF IsRequest
<1>5. IsFine(r, server, page) /\ WillRefetch(r)
  BY <1>4, RequestIsNotFree DEF IsFine, Speaks, WillRefetch
<1> HIDE DEF r
<1>6. AreFine(Ended(q), server, page)
  BY <1>3, EndedEffect
<1>7. AreFine(reqs, server, page) /\ WillRefetch(reqs[Slot])
  BY <1>2, <1>5, <1>6 DEF AreFine
<1>8. IsEntry(q) /\ (q.fetch = "read" => q = query) /\ (Cancels(kind) => q.fetch = "idle")
  BY <1>3, CancelEffect
<1>9. IsEntry(w) /\ (w.fetch = "read" => w = query)
  <2>1. CASE Optimistic(kind)
    <3>1. q.fetch = "idle"
      BY <1>8, <2>1 DEF Cancels
    <3> QED
      BY <1>8, <2>1, <3>1, SetDataEffect
  <2>2. CASE ~Optimistic(kind)
    BY <1>8, <2>2
  <2> QED
    BY <2>1, <2>2
<1> HIDE DEF w, reqs
<1>10. query' = w /\ AreFine(req', server, page) /\ WillRefetch(req'[Slot])
  BY <1>1, <1>2, <1>7, DrawsEffect
<1>11. query'.fetch = "read" => query'.answer = query.answer /\ query.fetch = "read"
  BY <1>9, <1>10
<1> QED
  BY <1>1, <1>2, <1>9, <1>10, <1>11, QuietStep DEF TouchedIsAwaited

------------------------------------------------------------------------------
(* ListSteps of the list. *)

LEMMA ListKeeps ==
    ASSUME PInv, Asks \/ Polls \/ Answers \/ Lands \/ Fails \/ GetFails
    PROVE  PInv'
<1>1. IsEntry(query) /\ AreFine(req, server, page)
  BY DEF PInv
<1>2. told <= server.rev
  BY DEF PInv, KnowsThePast
<1>3. CASE Asks \/ Polls
  BY <1>1, <1>3, RefetchEffect, QuietStep DEF Asks, Polls, TouchedIsAwaited
<1>4. CASE Answers
  <2>1. /\ IsEntry(query') /\ query'.fetch = "read"
        /\ query'.answer.rev = server.rev
    BY <1>1, <1>4, ReadEffect DEF Answers
  <2> QED
    BY <1>1, <1>2, <1>4, <2>1, QuietStep DEF Answers, TouchedIsAwaited, PInv, KnowsThePast, IsServer
<1>5. CASE Lands
  <2> DEFINE q == Land(query)
  <2>1. IsEntry(q) /\ q.fetch = "idle" /\ ~q.touched
    BY <1>1, LandEffect
  <2>2. AreFine(Ended(q), server, page)
    BY <1>1, EndedEffect
  <2>3. Draws(q, Ended(q)) /\ UNCHANGED <<page, server, get, problem, left, history>>
    BY <1>5 DEF Lands
  <2> HIDE DEF q
  <2>4. query' = q /\ AreFine(req', server, page)
    BY <2>2, <2>3, DrawsEffect
  <2> QED
    BY <2>1, <2>3, <2>4, QuietStep DEF TouchedIsAwaited
<1>6. CASE Fails \/ GetFails
  <2>1. /\ \/ query' = query
           \/ \E response \in {"proxy error", "404 text"} : query' = FailWith(query, Classify(response))
        /\ get' = get \/ get' = NoGet
        /\ req' = Ended(query') /\ UNCHANGED <<page, server, problem, history>>
    BY <1>6 DEF Fails, GetFails
  <2>2. \A response : Classify(response) # ""
    BY DEF Classify
  <2>3. query' = query \/ (IsEntry(query') /\ query'.fetch = "idle" /\ query'.error # "")
    <3>1. CASE query' # query
      <4>1. PICK response \in {"proxy error", "404 text"} : query' = FailWith(query, Classify(response))
        BY <2>1, <3>1
      <4>2. Classify(response) # ""
        BY <2>2
      <4> QED
        BY <1>1, <4>1, <4>2, FailWithEffect
    <3> QED
      BY <3>1
  <2>4. /\ AreFine(req', server, page)
        /\ \A c \in Requests : WillRefetch(req[c]) => WillRefetch(req'[c])
    BY <1>1, <2>1, EndedEffect
  <2>5. UNCHANGED get \/ GetIsAsOld'
    <3>1. told' = told /\ told \in Nat
      BY <2>1 DEF history, PInv, KnowsThePast
    <3> QED
      BY <2>1, <3>1, GetIsNew DEF GetIsAsOld
  <2>6. TouchedIsAwaited'
    BY <2>3, <2>4 DEF PInv, TouchedIsAwaited
  <2> QED
    BY <1>1, <2>1, <2>3, <2>4, <2>5, <2>6, QuietStep
<1> QED
  BY <1>3, <1>4, <1>5, <1>6

(* ListSteps of the GET for a node's list. *)
LEMMA GetKeeps ==
    ASSUME PInv, Arrives \/ OthersRead \/ NodeReads \/ GetEnds
    PROVE  PInv'
<1>1. /\ IsEntry(query) /\ AreFine(req, server, page) /\ TouchedIsAwaited /\ GetIsAsOld
      /\ told \in Nat /\ told <= server.rev /\ server.rev \in Nat
      /\ page \in {"node", "subscribers"}
  BY DEF PInv, KnowsThePast, IsServer
<1>2. UNCHANGED <<page, server, req, problem, history>> /\ told' = told
  BY DEF Arrives, OthersRead, NodeReads, GetEnds, history
<1>3. get' = Begun /\ page = "node" => GetIsAsOld'
  BY <1>1, <1>2, GetIsNew DEF GetIsAsOld
<1>4. CASE Arrives
  <2>1. query' = [query EXCEPT !.fetch = "waits"] /\ (get' = Begun \/ get' = get) /\ page = "node"
    BY <1>4 DEF Arrives
  <2>2. IsEntry(query') /\ query'.fetch = "waits"
    BY <1>1, <2>1 DEF IsEntry
  <2>3. TouchedIsAwaited'
    BY <2>2 DEF TouchedIsAwaited
  <2> QED
    BY <1>1, <1>2, <1>3, <2>1, <2>2, <2>3, QuietStep
<1>5. CASE OthersRead
  <2>1. get' = Begun /\ page = "node" /\ query' = query
    BY <1>5 DEF OthersRead
  <2> QED
    BY <1>1, <1>2, <1>3, <2>1, QuietStep DEF TouchedIsAwaited
<1>6. CASE NodeReads
  <2>1. /\ query' = query /\ get.at = "asked"
        /\ get' = [get EXCEPT !.at = "read", !.rows = server.rows, !.rev = server.rev]
    BY <1>6 DEF NodeReads
  <2>2. GetIsAsOld'
    <3>1. /\ get \in [at : {"none", "asked", "read"}, rows : {get.rows}, rev : Nat, began : Nat]
          /\ get.began <= told
      BY <1>1 DEF GetIsAsOld
    <3>2. /\ get'.at = "read" /\ get'.rev = server.rev /\ get'.began = get.began
          /\ get' \in [at : {"none", "asked", "read"}, rows : {get'.rows}, rev : Nat, began : Nat]
      BY <1>1, <2>1, <3>1
    <3>3. page' = "node"
      <4>1. get # NoGet
        BY <2>1 DEF NoGet
      <4> QED
        BY <1>1, <1>2, <4>1 DEF GetIsAsOld
    <3>4. get'.began <= told' /\ get'.began <= get'.rev
      BY <1>1, <1>2, <3>1, <3>2
    <3> QED
      BY <3>2, <3>3, <3>4 DEF GetIsAsOld
  <2> QED
    BY <1>1, <1>2, <2>1, <2>2, QuietStep DEF TouchedIsAwaited
<1>7. CASE GetEnds
  <2>1. /\ get.at = "read" /\ get' = NoGet
        /\ query' = query \/ query' = Read(query, get.rows, get.rev, get.began)
    BY <1>7 DEF GetEnds
  <2>2. GetIsAsOld'
    BY <1>1, <1>2, <2>1, GetIsNew DEF GetIsAsOld
  <2>3. page = "node" /\ (get.rev >= told \/ get.began < told)
    <3>1. get # NoGet
      BY <2>1 DEF NoGet
    <3> QED
      BY <1>1, <2>1, <3>1 DEF GetIsAsOld
  <2>4. CASE query' = query
    BY <1>1, <1>2, <2>2, <2>4, QuietStep DEF TouchedIsAwaited
  <2>5. CASE query' = Read(query, get.rows, get.rev, get.began)
    <3>1. /\ IsEntry(query') /\ query'.fetch = "read"
          /\ query'.answer.rev = get.rev /\ query'.answer.began = get.began
      BY <1>1, <2>5, ReadEffect
    <3> QED
      BY <1>1, <1>2, <2>2, <2>3, <3>1, QuietStep DEF TouchedIsAwaited
  <2> QED
    BY <2>1, <2>4, <2>5
<1> QED
  BY <1>4, <1>5, <1>6, <1>7

(* ListSteps of the drawer and of the banner. *)
LEMMA PageKeeps ==
    ASSUME PInv, StatusLands \/ Closes \/ \E u \in Users : Opens(u)
    PROVE  PInv'
<1>1. IsEntry(query) /\ AreFine(req, server, page) /\ TouchedIsAwaited /\ NothingStaleUnderWay
  BY DEF PInv
<1>2. CASE StatusLands
  <2>1. problem = "healed" /\ problem' = "" /\ UNCHANGED <<page, server, query, get, req, history>>
    BY <1>2 DEF StatusLands
  <2>2. unlive <= server.good /\ problem' # "healed"
    BY <2>1 DEF PInv, HealedIsLive
  <2>3. unlive \in Nat /\ server.good \in Nat
    BY DEF PInv, KnowsThePast, IsServer
  <2>4. UNCHANGED <<server, told, unlive>>
    BY <2>1 DEF history
  <2>5. HealedIsLive' /\ BannerUnlessOvertaken'
    BY <2>2, <2>3, <2>4 DEF HealedIsLive, BannerUnlessOvertaken
  <2>6. KnowsThePast' /\ TouchedIsAwaited' /\ NothingStaleUnderWay' /\ GetIsAsOld'
    BY <1>1, <2>1, <2>4 DEF PInv, KnowsThePast, TouchedIsAwaited, NothingStaleUnderWay, GetIsAsOld
  <2> QED
    BY <2>1, <2>4, <2>5, <2>6 DEF PInv
<1>3. CASE Closes
  <2>1. req' = Unhook(req) /\ UNCHANGED <<page, server, query, get, problem, history>>
    BY <1>3 DEF Closes
  <2>2. /\ AreFine(req', server, page)
        /\ \A c \in Requests : WillRefetch(req[c]) => WillRefetch(req'[c])
    BY <1>1, <2>1, UnhookEffect
  <2>3. TouchedIsAwaited'
    BY <1>1, <2>1, <2>2 DEF TouchedIsAwaited
  <2> QED
    BY <1>1, <2>1, <2>2, <2>3, QuietStep
<1>4. ASSUME NEW u \in Users, Opens(u)
      PROVE  PInv'
  <2>1. UNCHANGED <<page, server, query, get, req, problem, history>>
    BY <1>4 DEF Opens
  <2> QED
    BY <1>1, <2>1, QuietStep DEF TouchedIsAwaited
<1> QED
  BY <1>2, <1>3, <1>4

------------------------------------------------------------------------------
(* ListSteps of the server. *)

(* The server makes a change that nobody is told of yet. *)
LEMMA ServerKeeps ==
    ASSUME PInv, UNCHANGED <<page, query, get, history>>,
           IsServer(server'), server.rev <= server'.rev, server.good <= server'.good,
           \/ problem' = problem
           \/ problem' = Reloaded /\ server'.good >= told,
           AreFine(req', server', page),
           \A c \in Requests : WillRefetch(req[c]) => WillRefetch(req'[c])
    PROVE  PInv'
<1>1. /\ told \in Nat /\ unlive \in Nat /\ unlive <= told /\ told <= server.rev
      /\ server.rev \in Nat /\ server.good \in Nat
      /\ server'.rev \in Nat /\ server'.good \in Nat
      /\ told' = told /\ unlive' = unlive
  BY DEF PInv, KnowsThePast, IsServer, history
<1>2. KnowsThePast'
  BY <1>1 DEF PInv, KnowsThePast
<1>3. HealedIsLive' /\ BannerUnlessOvertaken'
  <2>1. CASE problem' = problem
    <3>1. IsMarked' = IsMarked
      BY <2>1 DEF IsMarked
    <3> QED
      BY <1>1, <2>1, <3>1 DEF PInv, HealedIsLive, BannerUnlessOvertaken
  <2>2. CASE server'.good >= told
    BY <1>1, <2>2 DEF HealedIsLive, BannerUnlessOvertaken
  <2> QED
    BY <2>1, <2>2
<1>4. TouchedIsAwaited' /\ NothingStaleUnderWay' /\ GetIsAsOld'
  <2>1. TouchedIsAwaited'
    BY DEF PInv, TouchedIsAwaited
  <2>2. NothingStaleUnderWay'
    BY <1>1 DEF PInv, NothingStaleUnderWay
  <2> QED
    BY <1>1, <2>1, <2>2, GetStays
<1> QED
  BY <1>2, <1>3, <1>4 DEF PInv

LEMMA ChangedEffect ==
    ASSUME NEW rows, NEW live \in BOOLEAN, Changed(rows, live), PInv
    PROVE  /\ IsServer(server')
           /\ server'.rev = server.rev + 1 /\ server.good <= server'.good
           /\ live => server'.good = server.rev + 1
           /\ \/ problem' = problem
              \/ problem' = Reloaded /\ server'.good >= told
<1>1. /\ server.rev \in Nat /\ server.good \in Nat /\ server.good <= server.rev
      /\ told \in Nat /\ told <= server.rev
  BY DEF PInv, IsServer, KnowsThePast
<1>2. CASE live
  <2>1. server' = [rows |-> rows, rev |-> server.rev + 1, good |-> server.rev + 1]
    BY <1>2 DEF Changed
  <2>2. problem' = Reloaded \/ problem' = problem
    BY DEF Changed
  <2> QED
    BY <1>1, <2>1, <2>2 DEF IsServer
<1>3. CASE ~live
  <2>1. server' = [rows |-> rows, rev |-> server.rev + 1, good |-> server.good]
    BY <1>3 DEF Changed
  <2>2. problem' = problem
    BY <1>3 DEF Changed
  <2> QED
    BY <1>1, <1>3, <2>1, <2>2 DEF IsServer
<1> QED
  BY <1>2, <1>3

LEMMA OthersKeep ==
    ASSUME PInv, NEW u \in Users, OthersChange(u)
    PROVE  PInv'
<1>1. \E rows : \E live \in BOOLEAN : Changed(rows, live)
  BY DEF OthersChange
<1>2. UNCHANGED <<page, query, get, req, history>>
  BY DEF OthersChange
<1>3. /\ IsServer(server') /\ server'.rev = server.rev + 1 /\ server.good <= server'.good
      /\ \/ problem' = problem
         \/ problem' = Reloaded /\ server'.good >= told
  BY <1>1, ChangedEffect, Zenon
<1>4. IsServer(server) /\ AreFine(req, server, page) /\ server.rev <= server'.rev
  BY <1>3 DEF PInv, IsServer
<1>5. AreFine(req', server', page)
  BY <1>2, <1>3, <1>4, ServerGrows
<1> QED
  BY <1>2, <1>3, <1>4, <1>5, ServerKeeps

LEMMA HandlesKeeps ==
    ASSUME PInv, NEW c \in Requests, Handles(c)
    PROVE  PInv'
<1>1. /\ IsServer(server) /\ AreFine(req, server, page)
      /\ server.rev \in Nat /\ server.good \in Nat /\ server.good <= server.rev
      /\ told \in Nat /\ told <= server.rev
      /\ page \in {"node", "subscribers"}
  BY DEF PInv, IsServer, KnowsThePast
<1>2. Sent(c) /\ req[c] # Free
  BY DEF Handles, Rejects, Reloads, TakesToken, Takes, Sent
<1>3. CASE Rejects(c)
  <2>1. Replies(c, FALSE, FALSE, 0) /\ UNCHANGED <<server, problem>>
    BY <1>3 DEF Rejects, NoReply
  <2>2. /\ AreFine(req', server, page) /\ UNCHANGED <<page, query, get, history>>
        /\ \A d \in Requests : WillRefetch(req[d]) => WillRefetch(req'[d])
    BY <1>1, <1>2, <2>1, RepliesEffect
  <2> QED
    BY <1>1, <2>1, <2>2, ServerKeeps
<1>4. CASE Reloads(c)
  <2>1. /\ server' = [server EXCEPT !.good = server.rev] /\ problem' = Reloaded
        /\ Replies(c, TRUE, TRUE, server.rev) \/ Replies(c, FALSE, FALSE, 0)
    BY <1>4 DEF Reloads, NoReply
  <2>2. IsServer(server') /\ server'.rev = server.rev /\ server'.good = server.rev
    BY <1>1, <2>1 DEF IsServer
  <2>3. AreFine(req, server', page)
    BY <1>1, <2>2, ServerGrows
  <2>4. /\ AreFine(req', server', page) /\ UNCHANGED <<page, query, get, history>>
        /\ \A d \in Requests : WillRefetch(req[d]) => WillRefetch(req'[d])
    <3>1. server'.rev \in Nat /\ server'.rev <= server'.good
      BY <1>1, <2>2
    <3>2. CASE Replies(c, TRUE, TRUE, server'.rev)
      <4>1. TRUE /\ req[c].kind # "rotate" =>
              /\ server'.rev \in Nat /\ server'.rev <= server'.rev
              /\ TRUE => server'.rev <= server'.good
              /\ page = "subscribers" => TRUE
        BY <3>1
      <4> QED
        BY <1>2, <2>3, <3>2, <4>1, RepliesEffect
    <3>3. CASE Replies(c, FALSE, FALSE, 0)
      BY <1>2, <2>3, <3>3, RepliesEffect
    <3> QED
      BY <2>1, <2>2, <3>2, <3>3
  <2> QED
    BY <1>1, <2>1, <2>2, <2>4, ServerKeeps
<1>5. CASE TakesToken(c)
  <2>1. Replies(c, TRUE, TRUE, 0) /\ UNCHANGED <<server, problem>> /\ req[c].kind = "rotate"
    BY <1>5 DEF TakesToken
  <2>2. /\ AreFine(req', server, page) /\ UNCHANGED <<page, query, get, history>>
        /\ \A d \in Requests : WillRefetch(req[d]) => WillRefetch(req'[d])
    BY <1>1, <1>2, <2>1, RepliesEffect
  <2> QED
    BY <1>1, <2>1, <2>2, ServerKeeps
<1>6. CASE Takes(c)
  <2>1. PICK live \in BOOLEAN :
            /\ Changed(Made(server.rows, req[c]), live)
            /\ Replies(c, TRUE, live, server.rev + 1) \/ Replies(c, FALSE, FALSE, 0)
            /\ page = "subscribers" => live
    BY <1>1, <1>6 DEF Takes, NoReply
  <2>2. /\ IsServer(server') /\ server'.rev = server.rev + 1 /\ server.good <= server'.good
        /\ live => server'.good = server.rev + 1
        /\ \/ problem' = problem
           \/ problem' = Reloaded /\ server'.good >= told
    BY <2>1, ChangedEffect
  <2>3. AreFine(req, server', page) /\ server.rev <= server'.rev
    BY <1>1, <2>2, ServerGrows
  <2>4. /\ AreFine(req', server', page) /\ UNCHANGED <<page, query, get, history>>
        /\ \A d \in Requests : WillRefetch(req[d]) => WillRefetch(req'[d])
    <3>1. server'.rev \in Nat /\ (live => server'.rev <= server'.good)
      BY <1>1, <2>2
    <3>2. CASE Replies(c, TRUE, live, server'.rev)
      <4>1. TRUE /\ req[c].kind # "rotate" =>
              /\ server'.rev \in Nat /\ server'.rev <= server'.rev
              /\ live => server'.rev <= server'.good
              /\ page = "subscribers" => live
        BY <2>1, <3>1
      <4> QED
        BY <1>2, <2>3, <3>2, <4>1, RepliesEffect
    <3>3. CASE Replies(c, FALSE, FALSE, 0)
      BY <1>2, <2>3, <3>3, RepliesEffect
    <3> QED
      BY <2>1, <2>2, <3>2, <3>3
  <2> QED
    BY <2>2, <2>3, <2>4, ServerKeeps
<1> QED
  BY <1>3, <1>4, <1>5, <1>6 DEF Handles

------------------------------------------------------------------------------
(* An answer is dealt with. *)

(* What the answer says of reloads, and what the panel makes of it. *)
LEMMA WatchedIsTrue ==
    ASSUME PInv, NEW c \in Requests, HearsAnswer(c)
    PROVE  KnowsThePast' /\ HealedIsLive' /\ BannerUnlessOvertaken' /\ told <= told'
<1> DEFINE r == req[c]
<1>1. /\ told \in Nat /\ unlive \in Nat /\ unlive <= told /\ told <= server.rev
      /\ page = "subscribers" => unlive = 0
      /\ server.rev \in Nat /\ server.good \in Nat
      /\ page \in {"node", "subscribers"} /\ HealedIsLive /\ BannerUnlessOvertaken
  BY DEF PInv, KnowsThePast, IsServer
<1>2. IsRequest(r) /\ Speaks(r, server, page) /\ r.at = "answered"
  BY DEF HearsAnswer, PInv, AreFine, IsFine
<1>3. r.ok \in BOOLEAN /\ r.live \in BOOLEAN
  BY <1>2 DEF IsRequest
<1>4. UNCHANGED <<page, server>> /\ problem' = Watched(r) /\ Remembers(r)
  BY DEF HearsAnswer
<1>5. CASE ~r.ok \/ r.kind = "rotate"
  <2>1. problem' = problem /\ UNCHANGED <<told, unlive>>
    BY <1>4, <1>5 DEF Watched, Remembers, history
  <2>2. IsMarked' = IsMarked
    BY <2>1 DEF IsMarked
  <2> QED
    BY <1>1, <1>4, <2>1, <2>2 DEF KnowsThePast, HealedIsLive, BannerUnlessOvertaken
<1>6. CASE r.ok /\ r.kind # "rotate"
  <2>1. /\ r.rev \in Nat /\ r.rev <= server.rev
        /\ r.live => r.rev <= server.good
        /\ page = "subscribers" => r.live
    BY <1>2, <1>6 DEF Speaks
  <2>2. /\ told' = IF r.rev > told THEN r.rev ELSE told
        /\ unlive' = CASE ~r.live /\ r.rev > unlive -> r.rev
                       [] r.live /\ r.rev < told -> 0
                       [] OTHER -> unlive
    BY <1>4, <1>6 DEF Remembers
  <2>3. CASE r.live
    <3>1. unlive' = IF r.rev < told THEN 0 ELSE unlive
      BY <2>2, <2>3
    <3>2. unlive' \in Nat /\ unlive' <= server.good /\ unlive' <= told
      BY <1>1, <2>1, <2>3, <3>1
    <3>3. told' \in Nat /\ told <= told' /\ told' <= server.rev
      BY <1>1, <2>1, <2>2
    <3>4. page = "subscribers" => unlive' = 0
      BY <1>1, <3>1
    <3> QED
      BY <1>1, <1>4, <3>2, <3>3, <3>4 DEF KnowsThePast, HealedIsLive, BannerUnlessOvertaken
  <2>4. CASE ~r.live
    <3>1. unlive' = IF r.rev > unlive THEN r.rev ELSE unlive
      BY <1>3, <2>2, <2>4
    <3>2. page = "node"
      BY <1>1, <2>1, <2>4
    <3>3. problem' = "marked"
      BY <1>4, <1>6, <2>4, <3>2 DEF Watched
    <3>4. IsMarked' /\ problem' # "healed" /\ page' # "subscribers"
      BY <1>4, <3>2, <3>3, Zenon DEF IsMarked
    <3>5. /\ told' \in Nat /\ unlive' \in Nat /\ unlive' <= told' /\ told' <= server.rev
          /\ told <= told'
      BY <1>1, <2>1, <2>2, <3>1
    <3> QED
      BY <1>4, <3>4, <3>5 DEF KnowsThePast, HealedIsLive, BannerUnlessOvertaken
  <2> QED
    BY <1>3, <2>3, <2>4
<1> QED
  BY <1>3, <1>5, <1>6

LEMMA AnsweredKeeps ==
    ASSUME PInv, NEW c \in Requests, HearsAnswer(c)
    PROVE  PInv'
<1> DEFINE x == RolledBack(query, req[c])
           q == OnSettled(x, c)
           n == IF c \in q.by THEN Settling(req[c]) ELSE Free
           reqs == [Ended(q) EXCEPT ![c] = n]
<1>1. IsEntry(query) /\ AreFine(req, server, page)
  BY DEF PInv
<1>2. IsEntry(x)
  BY <1>1, SetDataEffect DEF RolledBack
<1> HIDE DEF x
<1>3. IsEntry(q) /\ q.fetch = "asked"
  BY <1>2, RefetchEffect DEF OnSettled
<1>4. Draws(q, reqs) /\ UNCHANGED <<page, server, get>>
  BY DEF HearsAnswer, x
<1> HIDE DEF q
<1>5. IsRequest(Settling(req[c])) /\ Settling(req[c]).at = "settling"
  <2>1. IsRequest(req[c])
    BY <1>1 DEF HearsAnswer, AreFine, IsFine
  <2> QED
    BY <2>1 DEF IsRequest, Settling
<1>6. IsFine(n, server, page)
  BY <1>5 DEF IsFine, Speaks
<1> HIDE DEF n
<1>7. AreFine(reqs, server, page)
  BY <1>1, <1>6, EndedEffect DEF AreFine
<1> HIDE DEF reqs
<1>8. query' = q /\ AreFine(req', server, page)
  BY <1>4, <1>7, DrawsEffect
<1>9. TouchedIsAwaited' /\ NothingStaleUnderWay'
  BY <1>3, <1>8 DEF TouchedIsAwaited, NothingStaleUnderWay
<1>10. KnowsThePast' /\ HealedIsLive' /\ BannerUnlessOvertaken' /\ GetIsAsOld'
  BY <1>4, WatchedIsTrue, GetStays DEF KnowsThePast
<1> QED
  BY <1>3, <1>4, <1>8, <1>9, <1>10 DEF PInv

------------------------------------------------------------------------------
LEMMA ListSteps == PInv /\ [ListNext]_listVars => PInv'
<1> SUFFICES ASSUME PInv, [ListNext]_listVars
             PROVE  PInv'
  OBVIOUS
<1>1. CASE Asks \/ Polls \/ Answers \/ Lands \/ Fails \/ GetFails
  BY <1>1, ListKeeps
<1>2. CASE StatusLands \/ Closes \/ \E u \in Users : Opens(u)
  BY <1>2, PageKeeps
<1>3. CASE TogglesUser \/ SetsExpiry \/ DeletesUser \/ ResetsUsage \/ Rotates
  BY <1>3, MutatesKeeps DEF TogglesUser, SetsExpiry, DeletesUser, ResetsUsage, Rotates
<1>4. CASE SwitchesLink \/ DeletesSubscriber \/ EditsEntries \/ RetriesReload
  BY <1>4, MutatesKeeps DEF SwitchesLink, DeletesSubscriber, EditsEntries, RetriesReload
<1>5. CASE \E n \in Notes \cup {None} : SavesUser(n) \/ SavesSubscriber(n)
  BY <1>5, MutatesKeeps DEF SavesUser, SavesSubscriber
<1>6. CASE \E u \in Users : OthersChange(u)
  BY <1>6, OthersKeep
<1>7. CASE \E c \in Requests : Handles(c) \/ HearsAnswer(c)
  BY <1>7, HandlesKeeps, AnsweredKeeps
<1>8. CASE UNCHANGED listVars
  <2>1. UNCHANGED <<page, server, query, get, req, problem, history>>
    BY <1>8 DEF listVars
  <2>2. TouchedIsAwaited'
    BY <2>1 DEF PInv, TouchedIsAwaited
  <2> QED
    BY <2>1, <2>2, QuietStep DEF PInv
<1>9. CASE Arrives \/ OthersRead \/ NodeReads \/ GetEnds
  BY <1>9, GetKeeps
<1> QED
  BY <1>1, <1>2, <1>3, <1>4, <1>5, <1>6, <1>7, <1>8, <1>9 DEF ListNext

LEMMA ListAlways == ListSpec => []PInv
BY ListStarts, ListSteps, PTL DEF ListSpec

(* Once an answer has been seen, a list that predates it can come to the screen only
   by a GET of a node that began before it was (hooks.ts: onSettled's invalidation
   cancels the fetch under way; proxy.go: who asks again may join its GET). *)
THEOREM AnswersAreNotUndone == ListSpec => []NothingStaleUnderWay
<1>1. PInv => NothingStaleUnderWay
  BY DEF PInv
<1> QED
  BY <1>1, ListAlways, PTL

(* The banner of a node that did not reload stays until it has, as long as no answer
   has overtaken another (reloadWatch.ts). *)
THEOREM BannerStays == ListSpec => []BannerUnlessOvertaken
<1>1. PInv => BannerUnlessOvertaken
  BY DEF PInv
<1> QED
  BY <1>1, ListAlways, PTL

(* Nothing that the panel wrote into the list outlives the changes it was written
   for (hooks.ts: optimistic updates and their rollback). *)
THEOREM OptimismEnds == ListSpec => []SettledIsTrue
<1>1. PInv => SettledIsTrue
  <2> SUFFICES ASSUME PInv, query.touched, query.fetch = "idle", query.error = "",
                      \A c \in Requests : req[c] = Free
               PROVE  FALSE
    BY DEF SettledIsTrue, IsIdle, IsFree
  <2>1. PICK c \in Requests : WillRefetch(req[c])
    BY DEF PInv, TouchedIsAwaited
  <2> QED
    BY <2>1 DEF WillRefetch
<1> QED
  BY <1>1, ListAlways, PTL
==============================================================================
