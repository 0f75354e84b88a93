--------------------------- MODULE ThrottleProofs ---------------------------
(***************************************************************************)
(* Theorems about Throttle, for any number of handlers, names, owners and  *)
(* begun ceremonies, any limits, and clocks that are stale by any Lag.     *)
(***************************************************************************)
EXTENDS Throttle, FiniteSetTheorems, TLAPS

------------------------------------------------------------------------------
(* Guesses: whoever is verifying a password for a name, and of these those who
   would count in the window of the name, those who came before t, and those who
   came in t .. t + Window - 1. *)
Verifying(n) == {h \in Handlers : pc[h] = "verifying" /\ name[h] = n}
Into(n) == {h \in Verifying(n) : now[h] < WindowOf(n).start + Window}
Before(n, t) == {h \in Verifying(n) : now[h] < t}
Among(n, t) == {h \in Verifying(n) : t <= now[h] /\ now[h] < t + Window}

(* What windows other than the one that begins in t .. t + Window - 1 take. *)
Others == IF Most = 1 THEN 0 ELSE 2 * Most - 3

(* A window that is almost full has let in no more than there are handlers. *)
Room(n) == WindowOf(n).count + Cardinality(Into(n)) <= Most

(* While handlers may still come in t .. t + Window - 1: a window that begins in
   that time is there to stay; before it there is one at most that takes guesses
   of that time, and whoever opened it is not one of them; or two, with a reaping
   between them, and then the opener of the second was there during the first. *)
Phase(n, t) ==
    LET w == WindowOf(n) IN
    /\ t <= w.start => WrongWithin(n, t) <= Others + w.count
    /\ w.start < t /\ t < w.start + Window =>
          \/ WrongWithin(n, t) <= w.count - 1
          \/ t < reaped /\ WrongWithin(n, t) <= Most + w.count - 3
    /\ w.start + Window <= t =>
          \/ WrongWithin(n, t) = 0
          \/ t < reaped /\ WrongWithin(n, t) + Cardinality(Before(n, t)) <= Most - 1

(* Afterwards only those who are among them can fail. *)
Settled(n, t) == WrongWithin(n, t) + Cardinality(Among(n, t)) <= Others + Most

GuessOK(n) ==
    /\ Room(n)
    /\ \A t \in Nat : t <= clock /\ clock < t + Window => Phase(n, t)
    /\ \A t \in Nat : t + Window <= clock => Settled(n, t)

------------------------------------------------------------------------------
(* Ceremonies: the sign-ins begun from a on that are in the table, and those that
   the limiter has let through and that are not there yet. *)
Asked(a) == {p \in pending : p.state[1] = Nobody /\ a <= p.expires - TTL}
Asking(a) == {h \in Handlers : pc[h] = "issuing" /\ a <= now[h]}

(* The requests of its window that the global limit has let through. *)
Passed == IF global.count <= GlobalCap THEN global.count ELSE GlobalCap

(* In the present window, and in k windows' time before it. *)
Rate ==
    \A k \in Nat, a \in Int : global.start - k * Window <= a =>
        Cardinality(Asked(a)) + Cardinality(Asking(a)) <= Passed + k * GlobalCap

(* None was let through after the present window. *)
Timely ==
    /\ \A p \in pending : p.state[1] = Nobody => p.expires - TTL < global.start + Window
    /\ \A h \in Handlers : pc[h] = "issuing" => now[h] < global.start + Window

(* Every ceremony has a state of its own, that got nobody through yet. *)
TableInv ==
    /\ IsFiniteSet(pending)
    /\ \A p, q \in pending : p.state = q.state => p = q
    /\ \A p \in pending : p.state[2] \in 1..begun[p.state[1]]
    /\ \A o \in Owners : begun[o] <= MaxEnrolments
    /\ spent = {} /\ misused = FALSE

------------------------------------------------------------------------------
Types ==
    /\ users = [n \in DOMAIN users |-> users[n]] /\ DOMAIN users \subseteq Names
    /\ \A n \in DOMAIN users :
          users[n] \in [count : Nat \ {0}, start : Nat] /\ users[n].start <= clock
    /\ global \in [count : Nat, start : Int] /\ global.start <= clock
    /\ reaped \in Int /\ reaped <= clock
    /\ pending \subseteq Pending
    /\ clock \in Nat
    /\ pc \in [Handlers -> {"idle", "verifying", "issuing", "taking"}]
    /\ now \in [Handlers -> Nat] /\ name \in [Handlers -> Names \cup {Nobody}]
    /\ \A h \in Handlers : now[h] <= clock /\ (pc[h] = "verifying" => name[h] \in Names)
    /\ wrong \in [Names -> SUBSET (Nat \X Nat)]
    /\ \A n \in Names : IsFiniteSet(wrong[n]) /\ \A g \in wrong[n] : g[1] <= clock
    /\ begun \in [Owners \cup {Nobody} -> Nat]

(* Nobody goes on with a clock staler than Lag. *)
Prompt == \A h \in Handlers : pc[h] # "idle" => clock - now[h] <= Lag

IInv ==
    /\ Types /\ Prompt /\ \A n \in Names : GuessOK(n)
    /\ Rate /\ Timely /\ TableInv

USE ThrottleAssumption

LEMMA HandlerSets ==
    /\ Cardinality(Handlers) \in Nat \ {0} /\ Most \in Nat \ {0}
    /\ Cardinality(Handlers) <= Most
    /\ \A T \in SUBSET Handlers :
          /\ IsFiniteSet(T) /\ Cardinality(T) \in Nat /\ Cardinality(T) <= Cardinality(Handlers)
          /\ \A h \in T : Cardinality(T \ {h}) = Cardinality(T) - 1
          /\ \A S \in SUBSET T : Cardinality(S) <= Cardinality(T)
<1>1. Cardinality(Handlers) \in Nat \ {0}
  BY FS_EmptySet, FS_CardinalityType
<1>2. Most \in Nat \ {0} /\ Cardinality(Handlers) <= Most
  BY <1>1 DEF Most
<1>3. ASSUME NEW T \in SUBSET Handlers
      PROVE  /\ IsFiniteSet(T) /\ Cardinality(T) \in Nat /\ Cardinality(T) <= Cardinality(Handlers)
             /\ \A h \in T : Cardinality(T \ {h}) = Cardinality(T) - 1
             /\ \A S \in SUBSET T : Cardinality(S) <= Cardinality(T)
  <2>1. IsFiniteSet(T) /\ Cardinality(T) <= Cardinality(Handlers)
    BY FS_Subset
  <2> QED
    BY <2>1, FS_CardinalityType, FS_RemoveElement, FS_Subset
<1> QED
  BY <1>1, <1>2, <1>3

LEMMA WindowOK ==
    ASSUME Types, NEW n
    PROVE  /\ WindowOf(n) \in [count : Nat, start : Int] /\ WindowOf(n).start <= clock
           /\ n \in DOMAIN users => 1 <= WindowOf(n).count /\ 0 <= WindowOf(n).start
           /\ n \notin DOMAIN users => WindowOf(n).start = 0 - Window
BY DEF Types, WindowOf, Fresh, Never

LEMMA Guesses ==
    ASSUME Types, NEW n \in Names, NEW t \in Nat
    PROVE  /\ WrongWithin(n, t) \in Nat
           /\ clock < t => WrongWithin(n, t) = 0
<1> DEFINE G == {g \in wrong[n] : t <= g[1] /\ g[1] < t + Window}
<1>1. IsFiniteSet(wrong[n]) /\ G \in SUBSET wrong[n]
  BY DEF Types
<1>2. IsFiniteSet(G) /\ Cardinality(G) \in Nat
  BY <1>1, FS_Subset, FS_CardinalityType
<1>3. ASSUME clock < t PROVE G = {}
  <2>1. \A g \in wrong[n] : g \in Nat \X Nat /\ g[1] <= clock
    BY DEF Types
  <2>2. clock \in Nat
    BY DEF Types
  <2> QED
    BY <1>3, <2>1, <2>2
<1> QED
  BY <1>2, <1>3, FS_EmptySet DEF WrongWithin

LEMMA Handled ==
    ASSUME NEW n, NEW t
    PROVE  /\ Into(n) \in SUBSET Verifying(n) /\ Before(n, t) \in SUBSET Verifying(n)
           /\ Among(n, t) \in SUBSET Verifying(n) /\ Verifying(n) \in SUBSET Handlers
           /\ Cardinality(Into(n)) \in 0..Cardinality(Handlers)
           /\ Cardinality(Before(n, t)) \in 0..Cardinality(Handlers)
           /\ Cardinality(Among(n, t)) \in 0..Cardinality(Handlers)
<1>1. /\ Into(n) \in SUBSET Verifying(n) /\ Before(n, t) \in SUBSET Verifying(n)
      /\ Among(n, t) \in SUBSET Verifying(n) /\ Verifying(n) \in SUBSET Handlers
  BY DEF Into, Before, Among, Verifying
<1>2. \A T \in SUBSET Handlers : Cardinality(T) \in 0..Cardinality(Handlers)
  BY HandlerSets
<1> QED
  BY <1>1, <1>2

(* What a phase leaves room for. *)
LEMMA PhaseSettles ==
    ASSUME Types, NEW n \in Names, NEW t \in Nat, Room(n), Phase(n, t)
    PROVE  Settled(n, t)
<1> DEFINE D == WrongWithin(n, t)
           A == Cardinality(Among(n, t))
           I == Cardinality(Into(n))
           B == Cardinality(Before(n, t))
           H == Cardinality(Handlers)
           w == WindowOf(n)
<1>1. D \in Nat /\ A \in 0..H /\ I \in 0..H /\ B \in 0..H
  BY Guesses, Handled
<1>2. Most \in Nat \ {0} /\ H \in Nat \ {0} /\ H <= Most
  BY HandlerSets
<1>3. w.count \in Nat /\ w.start \in Int /\ w.count + I <= Most
  BY WindowOK DEF Room
<1>4. Others \in Nat /\ Most - 1 <= Others /\ (2 <= Most => Others = 2 * Most - 3)
  BY <1>2 DEF Others
<1>5. CASE t <= w.start
  <2>1. \A h \in Among(n, t) : h \in Verifying(n) /\ now[h] < t + Window /\ h \in Handlers
    BY DEF Among, Verifying
  <2>2. \A h \in Handlers : now[h] \in Nat
    BY DEF Types
  <2>3. Among(n, t) \in SUBSET Into(n)
    BY <1>3, <1>5, <2>1, <2>2 DEF Into
  <2>4. Into(n) \in SUBSET Handlers
    BY Handled
  <2>5. A <= I
    BY <2>3, <2>4, HandlerSets
  <2>6. D <= Others + w.count
    BY <1>5 DEF Phase
  <2> HIDE DEF D, A, I, w
  <2>7. D + A <= Others + Most
    BY <1>1, <1>2, <1>3, <1>4, <2>5, <2>6
  <2> QED
    BY <2>7 DEF Settled, D, A
<1>6. CASE w.start < t /\ t < w.start + Window
  <2>1. D <= w.count - 1 \/ D <= Most + w.count - 3
    BY <1>6 DEF Phase
  <2> HIDE DEF D, A, I, w, H
  <2>2. w.count <= Most
    BY <1>1, <1>2, <1>3
  <2>3. D <= Others
    BY <1>1, <1>2, <1>3, <1>4, <2>1, <2>2 DEF Others
  <2>4. D + A <= Others + Most
    BY <1>1, <1>2, <1>4, <2>3
  <2> QED
    BY <2>4 DEF Settled, D, A
<1>7. CASE w.start + Window <= t
  <2>1. D = 0 \/ D + B <= Most - 1
    BY <1>7 DEF Phase
  <2> HIDE DEF D, A, B, I, w, H
  <2>2. D <= Others
    BY <1>1, <1>2, <1>4, <2>1
  <2>4. D + A <= Others + Most
    BY <1>1, <1>2, <1>4, <2>2
  <2> QED
    BY <2>4 DEF Settled, D, A
<1> QED
  BY <1>3, <1>5, <1>6, <1>7

------------------------------------------------------------------------------
(* What a reaping, if it is due, leaves of a window. *)
Reaped(n) ==
    \/ WindowOf(n)' = WindowOf(n) /\ reaped <= reaped'
    \/ /\ WindowOf(n)' = Fresh /\ WindowOf(n).start + Window <= clock
       /\ reaped' = clock /\ reaped + Window <= clock

LEMMA ReapOutcome ==
    ASSUME Types, Reap(clock)
    PROVE  /\ reaped' \in Int /\ reaped' <= clock
           /\ users' = [n \in DOMAIN users' |-> users'[n]] /\ DOMAIN users' \subseteq DOMAIN users
           /\ \A n \in DOMAIN users' : users'[n] = users[n]
           /\ \A n : Reaped(n)
<1>1. reaped \in Int /\ reaped <= clock /\ clock \in Nat
  BY DEF Types
<1>2. CASE clock - reaped < Window
  <2>1. users' = users /\ reaped' = reaped
    BY <1>2 DEF Reap
  <2>2. \A n : WindowOf(n)' = WindowOf(n)
    BY <2>1 DEF WindowOf
  <2> QED
    BY <1>1, <2>1, <2>2 DEF Types, Reaped
<1>3. CASE ~(clock - reaped < Window)
  <2> DEFINE Kept == {n \in DOMAIN users : Within(users[n], clock)}
  <2>1. users' = [n \in Kept |-> users[n]] /\ reaped' = clock
    BY <1>3 DEF Reap, Restrict
  <2>2. reaped + Window <= clock
    BY <1>1, <1>3
  <2>3. ASSUME NEW n PROVE Reaped(n)
    <3>1. CASE n \in Kept
      <4>1. WindowOf(n)' = users'[n]
        BY <2>1, <3>1 DEF WindowOf
      <4>2. users'[n] = users[n]
        BY <2>1, <3>1
      <4>3. WindowOf(n) = users[n]
        BY <3>1 DEF WindowOf
      <4> QED
        BY <1>1, <2>1, <4>1, <4>2, <4>3 DEF Reaped
    <3>2. CASE n \notin Kept
      <4>1. n \notin DOMAIN users'
        BY <2>1, <3>2
      <4>2. WindowOf(n)' = Fresh
        BY <4>1 DEF WindowOf, Fresh
      <4>3. WindowOf(n).start + Window <= clock
        <5>1. CASE n \in DOMAIN users
          <6>1. ~Within(users[n], clock) /\ users[n].start \in Nat
            BY <3>2, <5>1 DEF Types
          <6> QED
            BY <1>1, <5>1, <6>1 DEF WindowOf, Within
        <5>2. CASE n \notin DOMAIN users
          BY <1>1, <5>2, WindowOK
        <5> QED
          BY <5>1, <5>2
      <4> QED
        BY <2>1, <2>2, <4>2, <4>3 DEF Reaped
    <3> QED
      BY <3>1, <3>2
  <2>4. DOMAIN users' = Kept
    BY <2>1
  <2>5. users' = [n \in DOMAIN users' |-> users'[n]]
    BY <2>1
  <2> QED
    BY <1>1, <2>1, <2>3, <2>4, <2>5
<1> QED
  BY <1>2, <1>3

(* Whoever came, and whatever was reaped meanwhile. *)
LEMMA Arrivals ==
    ASSUME IInv, NEW n \in Names, clock' = clock, wrong'[n] = wrong[n], Reaped(n), reaped' \in Int,
           NEW E \in SUBSET Handlers, E # {} => ~Blocked(n, clock),
           Verifying(n)' = Verifying(n) \cup E, now' \in [Handlers -> Nat],
           \A h \in Verifying(n) : now'[h] = now[h], \A h \in E : now'[h] = clock
    PROVE  GuessOK(n)'
<1> DEFINE w == WindowOf(n)
<1>1. Types /\ Room(n) /\ clock \in Nat /\ reaped \in Int
  BY DEF IInv, GuessOK, Types
<1>2. w.count \in Nat /\ w.start \in Int /\ w.start <= clock
  BY <1>1, WindowOK
<1>3. \A h \in Verifying(n) : now[h] \in Nat /\ h \in Handlers
  BY <1>1 DEF Verifying, Types
<1>4. CASE WindowOf(n)' = WindowOf(n)
  <2>1. w.count + Cardinality(Into(n)') <= Most
    <3>1. CASE E = {} \/ ~(clock - w.start < Window)
      <4>1. \A h \in E : ~(clock < w.start + Window)
        BY <1>1, <1>2, <3>1
      <4>2. Into(n)' = {h \in Verifying(n) \cup E : now'[h] < w.start + Window}
        BY <1>4 DEF Into
      <4>3. Into(n)' = Into(n)
        BY <4>1, <4>2 DEF Into
      <4> QED
        BY <1>1, <4>3 DEF Room
    <3>2. CASE E # {} /\ clock - w.start < Window
      <4>1. n \in DOMAIN users
        BY <1>1, <1>2, <3>2, WindowOK
      <4>2. w = users[n] /\ Within(users[n], clock)
        BY <3>2, <4>1 DEF WindowOf, Within
      <4>3. w.count < PerUser
        BY <1>2, <3>2, <4>1, <4>2 DEF Blocked
      <4>4. Into(n)' \in SUBSET Handlers
        BY DEF Into, Verifying
      <4>5. Cardinality(Into(n)') \in Nat /\ Cardinality(Into(n)') <= Cardinality(Handlers)
        BY <4>4, HandlerSets
      <4> QED
        BY <1>2, <4>3, <4>5, HandlerSets DEF Most
    <3> QED
      BY <3>1, <3>2
  <2>2. Room(n)'
    BY <1>4, <2>1 DEF Room
  <2>3. ASSUME NEW t \in Nat, t <= clock PROVE Before(n, t)' = Before(n, t)
    <3>1. Before(n, t)' = {h \in Verifying(n) \cup E : now'[h] < t}
      BY DEF Before
    <3>2. \A h \in E : ~(now'[h] < t)
      BY <1>1, <2>3
    <3> QED
      BY <3>1, <3>2 DEF Before
  <2>4. ASSUME NEW t \in Nat PROVE WrongWithin(n, t)' = WrongWithin(n, t)
    BY DEF WrongWithin
  <2>5. ASSUME NEW t \in Nat, t <= clock, clock < t + Window PROVE Phase(n, t)'
    <3>1. Phase(n, t) /\ Before(n, t)' = Before(n, t) /\ WrongWithin(n, t)' = WrongWithin(n, t)
      BY <2>3, <2>4, <2>5 DEF IInv, GuessOK
    <3>2. t < reaped => t < reaped'
      <4>1. reaped <= reaped'
        BY <1>1, <1>4, <1>2 DEF Reaped
      <4> QED
        BY <1>1, <4>1
    <3> QED
      BY <1>4, <3>1, <3>2 DEF Phase, Others, Most
  <2>6. ASSUME NEW t \in Nat, t + Window <= clock PROVE Settled(n, t)'
    <3>1. Among(n, t)' = {h \in Verifying(n) \cup E : t <= now'[h] /\ now'[h] < t + Window}
      BY DEF Among
    <3>2. \A h \in E : ~(now'[h] < t + Window)
      BY <1>1, <2>6
    <3>3. Among(n, t)' = Among(n, t)
      BY <3>1, <3>2 DEF Among
    <3>4. Settled(n, t)
      BY <2>6 DEF IInv, GuessOK
    <3> QED
      BY <2>4, <3>3, <3>4 DEF Settled, Others, Most
  <2> QED
    BY <2>2, <2>5, <2>6 DEF GuessOK
<1>5. CASE WindowOf(n)' # WindowOf(n)
  <2>1. /\ WindowOf(n)' = Fresh /\ w.start + Window <= clock
        /\ reaped' = clock /\ reaped + Window <= clock
    BY <1>5 DEF Reaped
  <2>2. Fresh.count = 0 /\ Fresh.start + Window = 0
    BY DEF Fresh, Never
  <2>3. Room(n)'
    <3>1. Into(n)' \in SUBSET Handlers
      BY DEF Into, Verifying
    <3> QED
      BY <2>1, <2>2, <3>1, HandlerSets DEF Room, Most
  <2>4. ASSUME NEW t \in Nat, t <= clock, clock < t + Window PROVE Phase(n, t)'
    <3>1. /\ Phase(n, t) /\ WrongWithin(n, t)' = WrongWithin(n, t)
          /\ WrongWithin(n, t) \in Nat
      BY <1>1, <2>4, Guesses DEF IInv, GuessOK, WrongWithin
    <3>2. Before(n, t)' = Before(n, t)
      <4>1. Before(n, t)' = {h \in Verifying(n) \cup E : now'[h] < t}
        BY DEF Before
      <4>2. \A h \in E : ~(now'[h] < t)
        BY <1>1, <2>4
      <4> QED
        BY <4>1, <4>2 DEF Before
    <3>3. ~(t < reaped) /\ ~(t <= w.start)
      BY <1>1, <1>2, <2>1, <2>4
    <3>4. CASE w.start + Window <= t
      <4>1. WrongWithin(n, t) = 0
        BY <3>1, <3>3, <3>4 DEF Phase
      <4> QED
        BY <2>1, <2>2, <2>4, <3>1, <4>1 DEF Phase, Fresh, Never
    <3>5. CASE t < w.start + Window
      <4>1. WrongWithin(n, t) <= w.count - 1
        BY <1>2, <3>1, <3>3, <3>5 DEF Phase
      <4>2. Before(n, t) \in SUBSET Into(n)
        BY <1>2, <1>3, <3>5 DEF Before, Into
      <4>3. Into(n) \in SUBSET Handlers /\ Before(n, t) \in SUBSET Handlers
        BY Handled
      <4>4. /\ Cardinality(Before(n, t)) <= Cardinality(Into(n))
            /\ Cardinality(Into(n)) \in Nat /\ Cardinality(Before(n, t)) \in Nat
        BY <4>2, <4>3, HandlerSets
      <4>5. WrongWithin(n, t) + Cardinality(Before(n, t)) <= Most - 1
        BY <1>1, <1>2, <3>1, <4>1, <4>4, HandlerSets DEF Room
      <4>6. t < reaped'
        BY <1>1, <1>2, <2>1, <3>5
      <4> QED
        BY <2>1, <2>2, <2>4, <3>1, <3>2, <4>5, <4>6 DEF Phase, Fresh, Never, Most
    <3> QED
      BY <1>2, <3>4, <3>5
  <2>5. ASSUME NEW t \in Nat, t + Window <= clock PROVE Settled(n, t)'
    <3>1. Among(n, t)' = {h \in Verifying(n) \cup E : t <= now'[h] /\ now'[h] < t + Window}
      BY DEF Among
    <3>2. \A h \in E : ~(now'[h] < t + Window)
      BY <1>1, <2>5
    <3>3. Among(n, t)' = Among(n, t)
      BY <3>1, <3>2 DEF Among
    <3>4. Settled(n, t) /\ WrongWithin(n, t)' = WrongWithin(n, t)
      BY <2>5 DEF IInv, GuessOK, WrongWithin
    <3> QED
      BY <3>3, <3>4 DEF Settled, Others, Most
  <2> QED
    BY <2>3, <2>4, <2>5 DEF GuessOK
<1> QED
  BY <1>4, <1>5

(* Whom a step leaves alone. *)
LEMMA Bystanders ==
    ASSUME IInv, NEW n \in Names, clock' = clock, wrong'[n] = wrong[n], reaped' = reaped,
           WindowOf(n)' = WindowOf(n), Verifying(n)' = Verifying(n),
           now' \in [Handlers -> Nat], \A h \in Verifying(n) : now'[h] = now[h]
    PROVE  GuessOK(n)'
<1>1. Reaped(n) /\ reaped' \in Int
  BY DEF IInv, Types, Reaped
<1> DEFINE E == {}
<1>2. /\ Verifying(n)' = Verifying(n) \cup E /\ E \in SUBSET Handlers
      /\ E # {} => ~Blocked(n, clock)
      /\ \A h \in E : now'[h] = clock
  OBVIOUS
<1> HIDE DEF E
<1> QED
  BY <1>1, <1>2, Arrivals

(* A handler that is done verifies no more. *)
LEMMA DoneOutcome ==
    ASSUME Types, NEW h \in Handlers, Done(h)
    PROVE  /\ pc' \in [Handlers -> {"idle", "verifying", "issuing", "taking"}]
           /\ now' \in [Handlers -> Nat] /\ name' \in [Handlers -> Names \cup {Nobody}]
           /\ pc'[h] = "idle"
           /\ \A e \in Handlers \ {h} : pc'[e] = pc[e] /\ now'[e] = now[e] /\ name'[e] = name[e]
           /\ \A n : /\ Verifying(n)' = Verifying(n) \ {h}
                     /\ \A e \in Verifying(n)' : now'[e] = now[e]
<1>1. /\ pc' \in [Handlers -> {"idle", "verifying", "issuing", "taking"}]
      /\ now' \in [Handlers -> Nat] /\ name' \in [Handlers -> Names \cup {Nobody}]
      /\ pc'[h] = "idle"
      /\ \A e \in Handlers \ {h} : pc'[e] = pc[e] /\ now'[e] = now[e] /\ name'[e] = name[e]
  BY DEF Types, Done
<1>2. ASSUME NEW n PROVE /\ Verifying(n)' = Verifying(n) \ {h}
                         /\ \A e \in Verifying(n)' : now'[e] = now[e]
  BY <1>1 DEF Verifying
<1> QED
  BY <1>1, <1>2

(* A wrong password: the window of its name takes one more, or starts anew. *)
LEMMA FailCounts ==
    ASSUME Types, NEW h \in Handlers, Fail(h), NEW n, n = name[h]
    PROVE  /\ DOMAIN users' = DOMAIN users \cup {n}
           /\ users' = [m \in DOMAIN users' |-> users'[m]]
           /\ \A m \in DOMAIN users \ {n} : users'[m] = users[m]
           /\ users'[n] = Roll(WindowOf(n), now[h])
           /\ WindowOf(n)' = Roll(WindowOf(n), now[h])
           /\ \A m : m # n => WindowOf(m)' = WindowOf(m)
<1>1. /\ DOMAIN users' = DOMAIN users \cup {n}
      /\ users' = [m \in DOMAIN users' |-> users'[m]]
      /\ \A m \in DOMAIN users \ {n} : users'[m] = users[m]
      /\ users'[n] = Roll(WindowOf(n), now[h])
  BY DEF Fail
<1>2. WindowOf(n)' = Roll(WindowOf(n), now[h])
  <2>1. \A m \in DOMAIN users' : WindowOf(m)' = users'[m]
    BY DEF WindowOf
  <2> QED
    BY <1>1, <2>1
<1>3. ASSUME NEW m, m # n PROVE WindowOf(m)' = WindowOf(m)
  BY <1>1, <1>3 DEF WindowOf, Fresh
<1> QED
  BY <1>1, <1>2, <1>3

LEMMA FailRecords ==
    ASSUME Types, NEW h \in Handlers, Fail(h), NEW n, n = name[h]
    PROVE  /\ n \in Names
           /\ wrong' \in [Names -> SUBSET (Nat \X Nat)]
           /\ \A m \in Names : IsFiniteSet(wrong'[m]) /\ \A g \in wrong'[m] : g[1] <= clock
           /\ \A m \in Names \ {n} : wrong'[m] = wrong[m]
           /\ \A t \in Nat :
                 /\ WrongWithin(n, t)' <= WrongWithin(n, t) + 1
                 /\ WrongWithin(n, t)' \in Nat
                 /\ ~(t <= now[h] /\ now[h] < t + Window) =>
                       WrongWithin(n, t)' = WrongWithin(n, t)
<1>1. n \in Names /\ now[h] \in Nat /\ now[h] <= clock
  BY DEF Fail, Types
<1>2. PICK i \in Nat : wrong' = [wrong EXCEPT ![n] = @ \cup {<<now[h], i>>}]
  <2>1. {g \in wrong[n] : g[1] = now[h]} \in SUBSET wrong[n] /\ IsFiniteSet(wrong[n])
    BY <1>1 DEF Types
  <2>2. IsFiniteSet({g \in wrong[n] : g[1] = now[h]})
    BY <2>1, FS_Subset
  <2>3. Cardinality({g \in wrong[n] : g[1] = now[h]}) + 1 \in Nat
    BY <2>2, FS_CardinalityType
  <2>4. wrong' = [wrong EXCEPT ![n] =
                    @ \cup {<<now[h], Cardinality({g \in wrong[n] : g[1] = now[h]}) + 1>>}]
    BY <1>1 DEF Fail, Types
  <2> QED
    BY <2>3, <2>4
<1> DEFINE x == <<now[h], i>>
<1>3. wrong'[n] = wrong[n] \cup {x} /\ \A m \in Names \ {n} : wrong'[m] = wrong[m]
  BY <1>1, <1>2 DEF Types
<1>4. wrong' \in [Names -> SUBSET (Nat \X Nat)]
  BY <1>1, <1>2 DEF Types
<1>5. \A m \in Names : IsFiniteSet(wrong'[m]) /\ \A g \in wrong'[m] : g[1] <= clock
  <2>1. IsFiniteSet(wrong[n] \cup {x})
    BY <1>1, FS_AddElement DEF Types
  <2>2. \A g \in wrong[n] \cup {x} : g[1] <= clock
    BY <1>1 DEF Types
  <2> QED
    BY <1>1, <1>3, <2>1, <2>2 DEF Types
<1>6. ASSUME NEW t \in Nat
      PROVE  /\ WrongWithin(n, t)' <= WrongWithin(n, t) + 1
             /\ WrongWithin(n, t)' \in Nat
             /\ ~(t <= now[h] /\ now[h] < t + Window) => WrongWithin(n, t)' = WrongWithin(n, t)
  <2> DEFINE G == {g \in wrong[n] : t <= g[1] /\ g[1] < t + Window}
             Then == {g \in wrong[n] \cup {x} : t <= g[1] /\ g[1] < t + Window}
  <2>1. WrongWithin(n, t) = Cardinality(G)
    BY DEF WrongWithin
  <2>2. WrongWithin(n, t)' = Cardinality(Then)
    <3>1. WrongWithin(n, t)' = Cardinality({g \in wrong'[n] : t <= g[1] /\ g[1] < t + Window})
      BY DEF WrongWithin
    <3> QED
      BY <1>3, <3>1
  <2>3. G \in SUBSET wrong[n] /\ IsFiniteSet(wrong[n])
    BY <1>1 DEF Types
  <2>4. IsFiniteSet(G) /\ Cardinality(G) \in Nat
    BY <2>3, FS_Subset, FS_CardinalityType
  <2>5. CASE t <= now[h] /\ now[h] < t + Window
    <3>1. Then = G \cup {x}
      BY <1>1, <2>5
    <3> HIDE DEF G, Then
    <3>2. IsFiniteSet(Then) /\ Cardinality(Then) = (IF x \in G THEN Cardinality(G) ELSE Cardinality(G) + 1)
      BY <2>4, <3>1, FS_AddElement
    <3>3. Cardinality(Then) \in Nat /\ Cardinality(Then) <= Cardinality(G) + 1
      BY <2>4, <3>2
    <3> QED
      BY <2>1, <2>2, <2>5, <3>3
  <2>6. CASE ~(t <= now[h] /\ now[h] < t + Window)
    <3>1. Then = G
      BY <1>1, <2>6
    <3>2. WrongWithin(n, t)' = WrongWithin(n, t) /\ WrongWithin(n, t) \in Nat
      BY <2>1, <2>2, <2>4, <3>1
    <3> QED
      BY <3>2
  <2> QED
    BY <2>5, <2>6
<1> QED
  BY <1>1, <1>3, <1>4, <1>5, <1>6

LEMMA FailKeepsGuesses ==
    ASSUME IInv, NEW h \in Handlers, Fail(h), NEW n \in Names
    PROVE  GuessOK(n)'
<1> DEFINE w == WindowOf(n)
           v == WindowOf(n)'
           H == Cardinality(Handlers)
<1>1. /\ Types /\ Room(n) /\ clock \in Nat /\ reaped \in Int /\ clock' = clock /\ reaped' = reaped
      /\ now[h] \in Nat /\ now[h] <= clock /\ Done(h) /\ pc[h] = "verifying" /\ name[h] \in Names
  BY DEF IInv, GuessOK, Types, Fail
<1>2. w.count \in Nat /\ w.start \in Int /\ w.start <= clock
  BY <1>1, WindowOK
<1>3. /\ Verifying(n)' = Verifying(n) \ {h} /\ \A e \in Verifying(n)' : now'[e] = now[e]
      /\ now' \in [Handlers -> Nat] /\ pc'[h] = "idle"
  BY <1>1, DoneOutcome
<1>4. CASE n # name[h]
  <2>1. PICK m \in Names : m = name[h]
    BY <1>1
  <2>2. WindowOf(n)' = WindowOf(n) /\ wrong'[n] = wrong[n]
    <3>1. \A k : k # m => WindowOf(k)' = WindowOf(k)
      BY <1>1, <2>1, FailCounts
    <3>2. \A k \in Names \ {m} : wrong'[k] = wrong[k]
      BY <1>1, <2>1, FailRecords
    <3> QED
      BY <1>4, <2>1, <3>1, <3>2
  <2>3. h \notin Verifying(n)
    BY <1>4 DEF Verifying
  <2>4. Verifying(n)' = Verifying(n) /\ \A e \in Verifying(n) : now'[e] = now[e]
    BY <1>3, <2>3
  <2> QED
    BY <1>1, <1>3, <2>2, <2>4, Bystanders
<1>5. CASE n = name[h]
  <2>1. v = Roll(w, now[h])
    BY <1>1, <1>5, FailCounts
  <2>2. ASSUME NEW t \in Nat
        PROVE  /\ WrongWithin(n, t)' <= WrongWithin(n, t) + 1
               /\ WrongWithin(n, t)' \in Nat /\ WrongWithin(n, t) \in Nat
               /\ ~(t <= now[h] /\ now[h] < t + Window) => WrongWithin(n, t)' = WrongWithin(n, t)
    BY <1>1, <1>5, FailRecords, Guesses
  <2>3. h \in Verifying(n) /\ Verifying(n) \in SUBSET Handlers
    BY <1>1, <1>5 DEF Verifying
  <2>4. ASSUME NEW t \in Nat
        PROVE  /\ Among(n, t)' = Among(n, t) \ {h} /\ Before(n, t)' = Before(n, t) \ {h}
    BY <1>3 DEF Among, Before
  <2>5. ASSUME NEW t \in Nat, t + Window <= clock PROVE Settled(n, t)'
    <3> DEFINE D == WrongWithin(n, t)
               A == Cardinality(Among(n, t))
    <3>1. D + A <= Others + Most /\ D \in Nat
      BY <2>2, <2>5 DEF IInv, GuessOK, Settled
    <3>2. Among(n, t) \in SUBSET Handlers
      BY <2>3 DEF Among
    <3>3. CASE t <= now[h] /\ now[h] < t + Window
      <4>1. h \in Among(n, t)
        BY <2>3, <3>3 DEF Among
      <4>2. Cardinality(Among(n, t)') = A - 1 /\ A \in Nat
        BY <2>4, <3>2, <4>1, HandlerSets
      <4>3. D' <= D + 1 /\ D' \in Nat
        BY <2>2
      <4> QED
        BY <3>1, <4>2, <4>3, HandlerSets DEF Settled, Others, Most
    <3>4. CASE ~(t <= now[h] /\ now[h] < t + Window)
      <4>1. h \notin Among(n, t)
        BY <3>4 DEF Among
      <4>2. Among(n, t)' = Among(n, t) /\ D' = D
        BY <2>2, <2>4, <3>4, <4>1
      <4> QED
        BY <3>1, <4>2 DEF Settled, Others, Most
    <3> QED
      BY <3>3, <3>4
  <2>6. CASE now[h] - w.start < Window
    <3>1. v.count = w.count + 1 /\ v.start = w.start
      BY <2>1, <2>6 DEF Roll, Within
    <3>2. Room(n)'
      <4>1. h \in Into(n)
        BY <1>1, <1>2, <2>3, <2>6 DEF Into
      <4>2. Into(n)' = Into(n) \ {h}
        BY <1>3, <3>1 DEF Into
      <4>3. Into(n) \in SUBSET Handlers
        BY <2>3 DEF Into
      <4>4. Cardinality(Into(n)') = Cardinality(Into(n)) - 1 /\ Cardinality(Into(n)) \in Nat
        BY <4>1, <4>2, <4>3, HandlerSets
      <4>5. w.count + Cardinality(Into(n)) <= Most
        BY <1>1 DEF Room
      <4>6. v.count + Cardinality(Into(n)') <= Most
        BY <1>2, <3>1, <4>4, <4>5, HandlerSets
      <4> QED
        BY <4>6 DEF Room, Most
    <3>3. ASSUME NEW t \in Nat, t <= clock, clock < t + Window PROVE Phase(n, t)'
      <4>1. Phase(n, t)
        BY <3>3 DEF IInv, GuessOK
      <4>2. CASE t <= w.start
        <5>1. WrongWithin(n, t) <= Others + w.count
          BY <4>1, <4>2 DEF Phase
        <5>2. WrongWithin(n, t)' <= Others + v.count
          BY <1>2, <2>2, <3>1, <5>1, HandlerSets DEF Others
        <5> QED
          BY <1>2, <3>1, <4>2, <5>2 DEF Phase, Others, Most
      <4>3. CASE w.start < t /\ t < w.start + Window
        <5>1. \/ WrongWithin(n, t) <= w.count - 1
              \/ t < reaped /\ WrongWithin(n, t) <= Most + w.count - 3
          BY <4>1, <4>3 DEF Phase
        <5>2. \/ WrongWithin(n, t)' <= v.count - 1
              \/ t < reaped /\ WrongWithin(n, t)' <= Most + v.count - 3
          BY <1>2, <2>2, <3>1, <5>1, HandlerSets
        <5> QED
          BY <1>1, <1>2, <3>1, <4>3, <5>2 DEF Phase, Most
      <4>4. CASE w.start + Window <= t
        <5>1. \/ WrongWithin(n, t) = 0
              \/ t < reaped /\ WrongWithin(n, t) + Cardinality(Before(n, t)) <= Most - 1
          BY <4>1, <4>4 DEF Phase
        <5>2. ~(t <= now[h])
          BY <1>1, <1>2, <2>6, <4>4
        <5>3. WrongWithin(n, t)' = WrongWithin(n, t)
          BY <2>2, <5>2
        <5>4. Before(n, t)' \in SUBSET Before(n, t) /\ Before(n, t) \in SUBSET Handlers
          BY <2>3, <2>4 DEF Before
        <5>5. /\ Cardinality(Before(n, t)') <= Cardinality(Before(n, t))
              /\ Cardinality(Before(n, t)') \in Nat /\ Cardinality(Before(n, t)) \in Nat
          BY <5>4, HandlerSets
        <5>6. \/ WrongWithin(n, t)' = 0
              \/ t < reaped /\ WrongWithin(n, t)' + Cardinality(Before(n, t)') <= Most - 1
          BY <2>2, <5>1, <5>3, <5>5, HandlerSets
        <5> QED
          BY <1>1, <1>2, <3>1, <4>4, <5>6 DEF Phase, Most
      <4> QED
        BY <1>2, <4>2, <4>3, <4>4
    <3> QED
      BY <1>1, <2>5, <3>2, <3>3 DEF GuessOK
  <2>7. CASE ~(now[h] - w.start < Window)
    <3>1. v.count = 1 /\ v.start = now[h]
      BY <2>1, <2>7 DEF Roll, Within
    <3>2. w.start + Window <= now[h]
      BY <1>1, <1>2, <2>7
    <3>3. Room(n)'
      <4>1. Into(n)' \in SUBSET (Handlers \ {h})
        BY <1>3, <2>3 DEF Into
      <4>2. Cardinality(Handlers \ {h}) = H - 1 /\ H - 1 \in Nat
        BY HandlerSets
      <4>3. Into(n)' \in SUBSET Handlers
        BY <4>1
      <4>4. /\ Cardinality(Into(n)') \in Nat
            /\ Cardinality(Into(n)') <= Cardinality(Handlers \ {h})
        BY <4>1, <4>3, HandlerSets
      <4>5. v.count + Cardinality(Into(n)') <= Most
        BY <3>1, <4>2, <4>4, HandlerSets
      <4> QED
        BY <4>5 DEF Room, Most
    <3>4. ASSUME NEW t \in Nat, t <= clock, clock < t + Window PROVE Phase(n, t)'
      <4> DEFINE D == WrongWithin(n, t)
      <4>1. Phase(n, t) /\ D \in Nat /\ D' \in Nat /\ D' <= D + 1
        BY <2>2, <3>4 DEF IInv, GuessOK
      <4>2. ~(t <= w.start) /\ w.start < t
        BY <1>1, <1>2, <3>2, <3>4
      <4>3. Others \in Nat /\ Most - 1 <= Others /\ Most \in Nat \ {0}
        <5>1. Most \in Nat \ {0}
          BY HandlerSets
        <5> QED
          BY <5>1 DEF Others
      <4>4. w.count <= Most
        <5>1. Cardinality(Into(n)) \in Nat /\ w.count + Cardinality(Into(n)) <= Most
          BY <1>1, Handled, HandlerSets DEF Room
        <5> QED
          BY <1>2, <4>3, <5>1
      <4>5. D <= Others
        <5>1. CASE t < w.start + Window
          <6>1. D <= w.count - 1 \/ D <= Most + w.count - 3
            BY <4>1, <4>2, <5>1 DEF Phase
          <6> HIDE DEF D, w
          <6> QED
            BY <1>2, <4>1, <4>3, <4>4, <6>1 DEF Others
        <5>2. CASE w.start + Window <= t
          <6>1. D = 0 \/ D + Cardinality(Before(n, t)) <= Most - 1
            BY <4>1, <5>2 DEF Phase
          <6>2. Cardinality(Before(n, t)) \in Nat
            BY Handled, HandlerSets
          <6> QED
            BY <4>1, <4>3, <6>1, <6>2
        <5> QED
          BY <1>2, <5>1, <5>2
      <4>6. CASE t <= now[h]
        <5>1. D' <= Others + v.count
          BY <3>1, <4>1, <4>3, <4>5
        <5> QED
          BY <1>1, <3>1, <4>3, <4>6, <5>1 DEF Phase
      <4>7. CASE now[h] < t
        <5>1. w.start + Window <= t /\ D' = D
          BY <1>1, <1>2, <2>2, <3>2, <4>7
        <5>2. D = 0 \/ (t < reaped /\ D + Cardinality(Before(n, t)) <= Most - 1)
          BY <4>1, <5>1 DEF Phase
        <5>3. h \in Before(n, t) /\ Before(n, t) \in SUBSET Handlers
          BY <2>3, <4>7 DEF Before
        <5>4. Cardinality(Before(n, t)') = Cardinality(Before(n, t)) - 1
              /\ Cardinality(Before(n, t)) \in Nat /\ Cardinality(Before(n, t)') \in Nat
          <6>1. Before(n, t)' \in SUBSET Handlers
            BY <2>4, <5>3
          <6> QED
            BY <2>4, <5>3, <6>1, HandlerSets
        <5>5. \/ D' <= v.count - 1
              \/ t < reaped /\ D' <= Most + v.count - 3
          BY <3>1, <4>1, <4>3, <5>1, <5>2, <5>4
        <5>6. \/ D' = 0
              \/ t < reaped /\ D' + Cardinality(Before(n, t)') <= Most - 1
          BY <4>1, <4>3, <5>1, <5>2, <5>4
        <5> QED
          BY <1>1, <3>1, <4>7, <5>5, <5>6 DEF Phase, Most
      <4> QED
        BY <1>1, <4>6, <4>7
    <3> QED
      BY <1>1, <2>5, <3>3, <3>4 DEF GuessOK
  <2> QED
    BY <2>6, <2>7
<1> QED
  BY <1>4, <1>5

(* A right password wipes the window, and what is counted begins again. *)
LEMMA SucceedKeepsGuesses ==
    ASSUME IInv, NEW h \in Handlers, Succeed(h), NEW n \in Names
    PROVE  GuessOK(n)'
<1>1. /\ Types /\ clock \in Nat /\ clock' = clock /\ reaped' = reaped
      /\ Done(h) /\ name[h] \in Names
  BY DEF IInv, Types, Succeed
<1>2. /\ Verifying(n)' = Verifying(n) \ {h} /\ \A e \in Verifying(n)' : now'[e] = now[e]
      /\ now' \in [Handlers -> Nat]
  BY <1>1, DoneOutcome
<1>3. users' = [m \in DOMAIN users \ {name[h]} |-> users[m]]
  BY DEF Succeed, Restrict
<1>4. CASE n # name[h]
  <2>1. WindowOf(n)' = WindowOf(n)
    BY <1>3, <1>4 DEF WindowOf, Fresh
  <2>2. wrong'[n] = wrong[n]
    BY <1>1, <1>4 DEF Succeed, Types
  <2>3. h \notin Verifying(n)
    BY <1>4 DEF Verifying
  <2>4. Verifying(n)' = Verifying(n) /\ \A e \in Verifying(n) : now'[e] = now[e]
    BY <1>2, <2>3
  <2> QED
    BY <1>1, <1>2, <2>1, <2>2, <2>4, Bystanders
<1>5. CASE n = name[h]
  <2>1. n \notin DOMAIN users'
    BY <1>3, <1>5
  <2>2. WindowOf(n)' = Fresh
    BY <2>1 DEF WindowOf, Fresh
  <2>3. wrong'[n] = {}
    BY <1>1, <1>5 DEF Succeed, Types
  <2>4. ASSUME NEW t \in Nat PROVE WrongWithin(n, t)' = 0
    <3>1. {g \in wrong'[n] : t <= g[1] /\ g[1] < t + Window} = {}
      BY <2>3
    <3>2. WrongWithin(n, t)' = Cardinality({})
      BY <3>1 DEF WrongWithin
    <3> QED
      BY <3>2, FS_EmptySet
  <2>5. Room(n)'
    <3>1. Into(n)' \in SUBSET Handlers
      BY DEF Into, Verifying
    <3> QED
      BY <2>2, <3>1, HandlerSets DEF Room, Most, Fresh
  <2>6. ASSUME NEW t \in Nat PROVE Phase(n, t)'
    <3>1. Fresh.start = 0 - Window /\ Fresh.count = 0
      BY DEF Fresh, Never
    <3> QED
      BY <2>2, <2>4, <3>1 DEF Phase
  <2>7. ASSUME NEW t \in Nat, t + Window <= clock PROVE Settled(n, t)'
    <3>1. Settled(n, t) /\ WrongWithin(n, t) \in Nat
      BY <1>1, <2>7, Guesses DEF IInv, GuessOK
    <3>2. Among(n, t)' \in SUBSET Among(n, t) /\ Among(n, t) \in SUBSET Handlers
      BY <1>2 DEF Among, Verifying
    <3>3. /\ Cardinality(Among(n, t)') <= Cardinality(Among(n, t))
          /\ Cardinality(Among(n, t)') \in Nat /\ Cardinality(Among(n, t)) \in Nat
      BY <3>2, HandlerSets
    <3>4. Most \in Nat /\ Others \in Int
      BY HandlerSets DEF Others
    <3> QED
      BY <2>4, <3>1, <3>3, <3>4 DEF Settled, Others, Most
  <2> QED
    BY <1>1, <2>5, <2>6, <2>7 DEF GuessOK
<1> QED
  BY <1>4, <1>5

(* The clock goes on: a time that has passed is settled, a time that begins is
   nobody's yet. *)
LEMMA TickKeepsGuesses ==
    ASSUME IInv, Tick, NEW n \in Names
    PROVE  GuessOK(n)'
<1>1. /\ Types /\ clock \in Nat /\ clock' = clock + 1 /\ reaped \in Int /\ reaped <= clock
      /\ users' = users /\ reaped' = reaped /\ pc' = pc /\ now' = now /\ name' = name /\ wrong' = wrong
  BY DEF IInv, Types, Tick, limiter, handlers
<1>2. WindowOf(n)' = WindowOf(n) /\ Into(n)' = Into(n)
  BY <1>1 DEF WindowOf, Fresh, Into, Verifying
<1>3. ASSUME NEW t \in Nat
      PROVE  /\ WrongWithin(n, t)' = WrongWithin(n, t)
             /\ Among(n, t)' = Among(n, t) /\ Before(n, t)' = Before(n, t)
  BY <1>1 DEF WrongWithin, Among, Before, Verifying
<1>4. Room(n) /\ Room(n)'
  BY <1>2 DEF IInv, GuessOK, Room, Most
<1>5. ASSUME NEW t \in Nat, t <= clock', clock' < t + Window PROVE Phase(n, t)'
  <2>1. CASE t <= clock
    <3>1. Phase(n, t)
      BY <1>1, <1>5, <2>1 DEF IInv, GuessOK
    <3> QED
      BY <1>1, <1>2, <1>3, <3>1 DEF Phase, Others, Most
  <2>2. CASE clock < t
    <3>1. WrongWithin(n, t) = 0
      BY <1>1, <2>2, Guesses
    <3>2. /\ WindowOf(n).start \in Int /\ WindowOf(n).count \in Nat /\ WindowOf(n).start <= clock
          /\ WindowOf(n).count = 0 => WindowOf(n).start + Window = 0
      BY <1>1, WindowOK
    <3>3. t < WindowOf(n).start + Window => WrongWithin(n, t) <= WindowOf(n).count - 1
      BY <3>1, <3>2
    <3>4. ~(t <= WindowOf(n).start)
      BY <1>1, <2>2, <3>2
    <3> QED
      BY <1>2, <1>3, <3>1, <3>3, <3>4 DEF Phase
  <2> QED
    BY <1>1, <2>1, <2>2
<1>6. ASSUME NEW t \in Nat, t + Window <= clock' PROVE Settled(n, t)'
  <2>1. Settled(n, t)
    <3>1. CASE t + Window <= clock
      BY <3>1 DEF IInv, GuessOK
    <3>2. CASE clock < t + Window
      <4>1. t <= clock
        BY <1>1, <1>6
      <4>2. Phase(n, t)
        BY <3>2, <4>1 DEF IInv, GuessOK
      <4> QED
        BY <1>1, <1>4, <4>2, PhaseSettles
    <3> QED
      BY <1>1, <3>1, <3>2
  <2> QED
    BY <1>3, <2>1 DEF Settled, Others, Most
<1> QED
  BY <1>4, <1>5, <1>6 DEF GuessOK

------------------------------------------------------------------------------
(* A request that the limiter has counted. *)
LEMMA CountOutcome ==
    ASSUME Types, CountRequest(clock), clock' = clock
    PROVE  /\ users' = [n \in DOMAIN users' |-> users'[n]] /\ DOMAIN users' \subseteq Names
           /\ \A n \in DOMAIN users' :
                 users'[n] \in [count : Nat \ {0}, start : Nat] /\ users'[n].start <= clock'
           /\ global' \in [count : Nat, start : Int] /\ global'.start <= clock'
           /\ reaped' \in Int /\ reaped' <= clock' /\ \A n : Reaped(n)
           /\ \/ /\ global'.start = global.start /\ clock < global.start + Window
                 /\ global.count <= global'.count
                 /\ UnderCap(clock) => global'.count = global.count + 1 /\ global'.count <= GlobalCap
              \/ /\ global'.start = clock /\ global.start + Window <= clock /\ global'.count = 1
<1>1. clock \in Nat /\ global \in [count : Nat, start : Int] /\ global.start <= clock
  BY DEF Types
<1>2. Reap(clock) /\ GlobalCap \in Nat \ {0}
  BY DEF CountRequest
<1>3. /\ users' = [n \in DOMAIN users' |-> users'[n]] /\ DOMAIN users' \subseteq Names
      /\ \A n \in DOMAIN users' :
            users'[n] \in [count : Nat \ {0}, start : Nat] /\ users'[n].start <= clock'
  <2>1. /\ users' = [n \in DOMAIN users' |-> users'[n]] /\ DOMAIN users' \subseteq DOMAIN users
        /\ \A n \in DOMAIN users' : users'[n] = users[n]
    BY <1>2, ReapOutcome
  <2> QED
    BY <2>1 DEF Types
<1>4. reaped' \in Int /\ reaped' <= clock' /\ \A n : Reaped(n)
  BY <1>2, ReapOutcome
<1>5. CASE clock - global.start < Window
  <2>1. Roll(global, clock) = [count |-> global.count + 1, start |-> global.start]
    BY <1>5 DEF Roll, Within
  <2>2. global' = IF global.count + 1 <= GlobalCap + 1 THEN [count |-> global.count + 1, start |-> global.start]
                  ELSE global
    BY <2>1 DEF CountRequest
  <2>3. UnderCap(clock) => global.count + 1 <= GlobalCap
    BY <2>1 DEF UnderCap
  <2>4. /\ global'.start = global.start /\ clock < global.start + Window
        /\ global.count <= global'.count /\ global' \in [count : Nat, start : Int]
        /\ UnderCap(clock) => global'.count = global.count + 1 /\ global'.count <= GlobalCap
    BY <1>1, <1>2, <1>5, <2>2, <2>3
  <2> QED
    BY <1>1, <1>3, <1>4, <2>4
<1>6. CASE ~(clock - global.start < Window)
  <2>1. Roll(global, clock) = [count |-> 1, start |-> clock]
    BY <1>6 DEF Roll, Within
  <2>2. global' = [count |-> 1, start |-> clock]
    BY <1>2, <2>1 DEF CountRequest
  <2>3. /\ global'.start = clock /\ global.start + Window <= clock /\ global'.count = 1
        /\ global' \in [count : Nat, start : Int]
    BY <1>1, <1>6, <2>2
  <2> QED
    BY <1>1, <1>3, <1>4, <2>3
<1> QED
  BY <1>5, <1>6

LEMMA Tables ==
    ASSUME TableInv, NEW a
    PROVE  /\ IsFiniteSet(Asked(a)) /\ Cardinality(Asked(a)) \in Nat
           /\ Asking(a) \in SUBSET Handlers
           /\ IsFiniteSet(Asking(a)) /\ Cardinality(Asking(a)) \in Nat
<1>1. Asked(a) \in SUBSET pending /\ IsFiniteSet(pending) /\ Asking(a) \in SUBSET Handlers
  BY DEF Asked, Asking, TableInv
<1> QED
  BY <1>1, FS_Subset, FS_CardinalityType

Issuing == {h \in Handlers : pc[h] = "issuing"}

(* What the limiter lets through is what it counts. *)
LEMMA RateKept ==
    ASSUME IInv, CountRequest(clock), clock' = clock, pending' = pending,
           NEW E \in SUBSET Handlers, Issuing' = Issuing \cup E,
           E = {} \/ (UnderCap(clock) /\ \E h \in Handlers : E = {h}),
           now' \in [Handlers -> Nat],
           \A h \in Issuing : now'[h] = now[h], \A h \in E : now'[h] = clock
    PROVE  Rate' /\ Timely'
<1> DEFINE N(a) == Cardinality(Asked(a)) + Cardinality(Asking(a))
<1>1. /\ Types /\ Rate /\ Timely /\ TableInv /\ clock \in Nat
      /\ global \in [count : Nat, start : Int] /\ global.start <= clock
  BY DEF IInv, Types
<1>2. /\ global' \in [count : Nat, start : Int]
      /\ \/ /\ global'.start = global.start /\ clock < global.start + Window
            /\ global.count <= global'.count
            /\ UnderCap(clock) => global'.count = global.count + 1 /\ global'.count <= GlobalCap
         \/ /\ global'.start = clock /\ global.start + Window <= clock /\ global'.count = 1
  BY <1>1, CountOutcome
<1>3. \A h \in Issuing : now[h] \in Nat /\ h \in Handlers
  BY <1>1 DEF Types, Issuing
<1>4. ASSUME NEW a \in Int
      PROVE  /\ N(a) \in Nat /\ Asked(a)' = Asked(a)
             /\ Cardinality(Asking(a)') \in Nat
             /\ Cardinality(Asking(a)') <= Cardinality(Asking(a)) + 1
             /\ E = {} \/ clock < a => Cardinality(Asking(a)') = Cardinality(Asking(a))
  <2>1. /\ Cardinality(Asked(a)) \in Nat /\ Cardinality(Asking(a)) \in Nat
        /\ IsFiniteSet(Asking(a)) /\ Asking(a) \in SUBSET Handlers
    BY <1>1, Tables
  <2>2. Asked(a)' = Asked(a)
    BY DEF Asked
  <2>3. Asking(a) = {h \in Issuing : a <= now[h]}
    BY DEF Asking, Issuing
  <2>4. Asking(a)' = {h \in Issuing \cup E : a <= now'[h]}
    BY DEF Asking, Issuing
  <2>5. CASE E = {} \/ clock < a
    <3>1. \A h \in E : ~(a <= now'[h])
      BY <1>1, <2>5
    <3>2. Asking(a)' = Asking(a)
      BY <2>3, <2>4, <3>1
    <3> QED
      BY <2>1, <2>2, <3>2
  <2>6. CASE E # {} /\ ~(clock < a)
    <3>1. PICK h \in Handlers : E = {h}
      BY <2>6
    <3>2. Asking(a)' = Asking(a) \cup {h}
      BY <1>1, <2>3, <2>4, <2>6, <3>1
    <3>3. Cardinality(Asking(a) \cup {h}) = (IF h \in Asking(a) THEN Cardinality(Asking(a)) ELSE Cardinality(Asking(a)) + 1)
      BY <2>1, FS_AddElement
    <3> QED
      BY <2>1, <2>2, <2>6, <3>2, <3>3
  <2> QED
    BY <2>5, <2>6
<1>5. GlobalCap \in Nat \ {0} /\ Window \in Nat \ {0}
  OBVIOUS
<1>6. Passed \in 0..GlobalCap /\ Passed <= global.count
  BY <1>1, <1>5 DEF Passed
<1>7. ASSUME NEW k \in Nat, NEW a \in Int, global'.start - k * Window <= a
      PROVE  Cardinality(Asked(a)') + Cardinality(Asking(a)') <= Passed' + k * GlobalCap
  <2>1. /\ N(a) \in Nat /\ Asked(a)' = Asked(a)
        /\ Cardinality(Asking(a)') \in Nat
        /\ Cardinality(Asking(a)') <= Cardinality(Asking(a)) + 1
        /\ E = {} => Cardinality(Asking(a)') = Cardinality(Asking(a))
    BY <1>4
  <2>2. k * GlobalCap \in Nat /\ k * Window \in Nat
    BY <1>5
  <2>3. Cardinality(Asked(a)) \in Nat /\ Cardinality(Asking(a)) \in Nat
    BY <1>1, Tables
  <2>4. CASE global'.start = global.start /\ clock < global.start + Window
    <3>1. N(a) <= Passed + k * GlobalCap
      BY <1>1, <1>7, <2>4 DEF Rate
    <3>2. Passed <= Passed' /\ Passed' \in Nat /\ (E # {} => Passed' = Passed + 1)
      <4>1. /\ global.count <= global'.count
            /\ UnderCap(clock) => global'.count = global.count + 1 /\ global'.count <= GlobalCap
        BY <1>1, <1>2, <1>5, <2>4
      <4> QED
        BY <1>1, <1>2, <1>5, <4>1 DEF Passed
    <3> QED
      BY <1>6, <2>1, <2>2, <2>3, <3>1, <3>2
  <2>5. CASE global'.start = clock /\ global.start + Window <= clock /\ global'.count = 1
    <3>1. Passed' = 1
      BY <1>5, <2>5 DEF Passed
    <3>2. CASE k = 0
      <4>1. clock <= a
        BY <1>1, <1>7, <2>5, <3>2
      <4>2. Asked(a) = {}
        <5>1. \A q \in pending : q.state[1] = Nobody => ~(a <= q.expires - TTL)
          <6>1. \A q \in pending : q.expires \in Nat
            BY <1>1 DEF Types, Pending
          <6> QED
            BY <1>1, <2>5, <4>1, <6>1 DEF Timely
        <5> QED
          BY <5>1 DEF Asked
      <4>3. Asking(a) = {}
        BY <1>1, <1>3, <2>5, <4>1 DEF Asking, Timely, Issuing
      <4>4. N(a) = 0
        BY <4>2, <4>3, FS_EmptySet
      <4> QED
        BY <2>1, <2>2, <2>3, <3>1, <3>2, <4>4
    <3>3. CASE k # 0
      <4>1. k - 1 \in Nat /\ (k - 1) * Window = k * Window - Window /\ (k - 1) * GlobalCap = k * GlobalCap - GlobalCap
        BY <1>5, <3>3
      <4>2. global.start - (k - 1) * Window <= a
        BY <1>1, <1>7, <2>2, <2>5, <4>1
      <4>3. N(a) <= Passed + (k - 1) * GlobalCap
        BY <1>1, <4>1, <4>2 DEF Rate
      <4>4. N(a) <= k * GlobalCap
        BY <1>5, <1>6, <2>1, <2>2, <4>1, <4>3
      <4> QED
        BY <2>1, <2>2, <2>3, <3>1, <4>4
    <3> QED
      BY <3>2, <3>3
  <2> QED
    BY <1>2, <2>4, <2>5
<1>8. Rate'
  BY <1>7 DEF Rate
<1>9. Timely'
  <2>1. global.start <= global'.start /\ clock < global'.start + Window /\ global'.start \in Int
    BY <1>1, <1>2, <1>5
  <2>2. ASSUME NEW q \in pending, q.state[1] = Nobody PROVE q.expires - TTL < global'.start + Window
    <3>1. q.expires \in Nat /\ q.expires - TTL < global.start + Window /\ TTL \in Nat
      BY <1>1, <2>2 DEF Types, Pending, Timely
    <3> QED
      BY <1>1, <1>5, <2>1, <3>1
  <2>3. ASSUME NEW h \in Handlers, pc'[h] = "issuing" PROVE now'[h] < global'.start + Window
    <3>1. h \in Issuing' /\ Issuing' = Issuing \cup E
      BY <2>3 DEF Issuing
    <3>2. CASE h \in Issuing
      <4>1. now'[h] = now[h] /\ now[h] < global.start + Window /\ now[h] \in Nat
        BY <1>1, <1>3, <3>2 DEF Timely, Issuing
      <4> QED
        BY <1>1, <1>5, <2>1, <4>1
    <3>3. CASE h \in E
      BY <2>1, <3>3
    <3> QED
      BY <3>1, <3>2, <3>3
  <2> QED
    BY <2>2, <2>3 DEF Timely
<1> QED
  BY <1>8, <1>9

(* A handler that goes on from its first call. *)
LEMMA GotoOutcome ==
    ASSUME Types, NEW h \in Handlers, NEW label \in {"verifying", "issuing", "taking"},
           Goto(h, label)
    PROVE  /\ pc' \in [Handlers -> {"idle", "verifying", "issuing", "taking"}]
           /\ now' \in [Handlers -> Nat] /\ pc'[h] = label /\ now'[h] = clock
           /\ \A e \in Handlers \ {h} : pc'[e] = pc[e] /\ now'[e] = now[e]
BY DEF Types, Goto

LEMMA RequestKeepsGuesses ==
    ASSUME IInv, NEW h \in Handlers, Login(h) \/ Refused(h) \/ PasskeyRequest(h), NEW n \in Names
    PROVE  GuessOK(n)'
<1>1. Types /\ CountRequest(clock) /\ clock' = clock /\ wrong'[n] = wrong[n]
  BY DEF IInv, Login, Refused, PasskeyRequest
<1>2. Reaped(n) /\ reaped' \in Int
  BY <1>1, CountOutcome
<1>3. CASE Login(h)
  <2>1. pc[h] = "idle" /\ Goto(h, "verifying")
    BY <1>3 DEF Login
  <2>2. PICK m \in Names : ~Blocked(m, clock) /\ name' = [name EXCEPT ![h] = m]
    BY <1>3 DEF Login
  <2> DEFINE E == IF m = n THEN {h} ELSE {}
  <2>3. /\ now' \in [Handlers -> Nat] /\ pc'[h] = "verifying" /\ now'[h] = clock
        /\ \A e \in Handlers \ {h} : pc'[e] = pc[e] /\ now'[e] = now[e]
    BY <1>1, <2>1, GotoOutcome
  <2>4. name'[h] = m /\ \A e \in Handlers \ {h} : name'[e] = name[e]
    BY <1>1, <2>2 DEF Types
  <2>5. h \notin Verifying(n)
    BY <2>1 DEF Verifying
  <2>6. Verifying(n)' = Verifying(n) \cup E
    BY <2>3, <2>4, <2>5 DEF Verifying
  <2>7. \A e \in Verifying(n) : now'[e] = now[e]
    BY <2>3, <2>5 DEF Verifying
  <2>8. /\ E \in SUBSET Handlers
        /\ E # {} => ~Blocked(n, clock)
        /\ \A e \in E : now'[e] = clock
    BY <2>2, <2>3
  <2> HIDE DEF E
  <2> QED
    BY <1>1, <1>2, <2>3, <2>6, <2>7, <2>8, Arrivals
<1>4. CASE Refused(h)
  <2>1. pc' = pc /\ now' = now /\ name' = name
    BY <1>4 DEF Refused, handlers
  <2> DEFINE E == {}
  <2>2. /\ E \in SUBSET Handlers
        /\ E # {} => ~Blocked(n, clock)
        /\ \A e \in E : now'[e] = clock
        /\ Verifying(n)' = Verifying(n) \cup E
        /\ \A e \in Verifying(n) : now'[e] = now[e]
    BY <2>1 DEF Verifying
  <2>3. now' \in [Handlers -> Nat]
    BY <1>1, <2>1 DEF Types
  <2> HIDE DEF E
  <2> QED
    BY <1>1, <1>2, <2>2, <2>3, Arrivals
<1>5. CASE PasskeyRequest(h)
  <2>1. PICK label \in {"issuing", "taking"} : Goto(h, label)
    BY <1>5 DEF PasskeyRequest
  <2>2. pc[h] = "idle" /\ name' = name
    BY <1>5 DEF PasskeyRequest
  <2>3. /\ now' \in [Handlers -> Nat] /\ pc'[h] = label
        /\ \A e \in Handlers \ {h} : pc'[e] = pc[e] /\ now'[e] = now[e]
    BY <1>1, <2>1, GotoOutcome
  <2> DEFINE E == {}
  <2>4. /\ E \in SUBSET Handlers
        /\ E # {} => ~Blocked(n, clock)
        /\ \A e \in E : now'[e] = clock
        /\ Verifying(n)' = Verifying(n) \cup E
        /\ \A e \in Verifying(n) : now'[e] = now[e]
    BY <2>2, <2>3 DEF Verifying
  <2> HIDE DEF E
  <2> QED
    BY <1>1, <1>2, <2>3, <2>4, Arrivals
<1> QED
  BY <1>3, <1>4, <1>5

LEMMA CeremonyKeepsGuesses ==
    ASSUME IInv, NEW n \in Names,
           \/ \E h \in Handlers : BeginLogin(h) \/ FinishLogin(h)
           \/ BeginEnrolment \/ FinishEnrolment
    PROVE  GuessOK(n)'
<1>1. Types /\ clock' = clock /\ wrong'[n] = wrong[n] /\ users' = users /\ reaped' = reaped
  BY DEF IInv, BeginLogin, FinishLogin, BeginEnrolment, FinishEnrolment, limiter
<1>2. WindowOf(n)' = WindowOf(n)
  BY <1>1 DEF WindowOf, Fresh
<1>3. CASE \E h \in Handlers : BeginLogin(h) \/ FinishLogin(h)
  <2>1. PICK h \in Handlers : BeginLogin(h) \/ FinishLogin(h)
    BY <1>3
  <2>2. Done(h) /\ pc[h] # "verifying"
    BY <2>1 DEF BeginLogin, FinishLogin
  <2>3. /\ now' \in [Handlers -> Nat] /\ Verifying(n)' = Verifying(n) \ {h}
        /\ \A e \in Verifying(n)' : now'[e] = now[e]
    BY <1>1, <2>2, DoneOutcome
  <2>4. h \notin Verifying(n)
    BY <2>2 DEF Verifying
  <2> QED
    BY <1>1, <1>2, <2>3, <2>4, Bystanders
<1>4. CASE BeginEnrolment \/ FinishEnrolment
  <2>1. pc' = pc /\ now' = now /\ name' = name
    BY <1>4 DEF BeginEnrolment, FinishEnrolment, handlers
  <2>2. now' \in [Handlers -> Nat] /\ Verifying(n)' = Verifying(n)
    BY <1>1, <2>1 DEF Types, Verifying
  <2> QED
    BY <1>1, <1>2, <2>1, <2>2, Bystanders
<1> QED
  BY <1>3, <1>4

LEMMA GuessesKept ==
    ASSUME IInv, Next, NEW n \in Names
    PROVE  GuessOK(n)'
<1>1. CASE \E h \in Handlers : Login(h) \/ Refused(h) \/ PasskeyRequest(h)
  BY <1>1, RequestKeepsGuesses
<1>2. CASE \E h \in Handlers : Fail(h)
  BY <1>2, FailKeepsGuesses
<1>3. CASE \E h \in Handlers : Succeed(h)
  BY <1>3, SucceedKeepsGuesses
<1>4. CASE \/ \E h \in Handlers : BeginLogin(h) \/ FinishLogin(h)
           \/ BeginEnrolment \/ FinishEnrolment
  BY <1>4, CeremonyKeepsGuesses
<1>5. CASE Tick
  BY <1>5, TickKeepsGuesses
<1> QED
  BY <1>1, <1>2, <1>3, <1>4, <1>5 DEF Next
------------------------------------------------------------------------------
(* What issue puts in the table, and what may go for it. *)
LEMMA IssueOutcome ==
    ASSUME Types, TableInv, NEW owner \in Owners \cup {Nobody}, NEW t \in Nat, Issue(owner, t)
    PROVE  \E new \in Pending :
              /\ new.state = <<owner, begun[owner] + 1>> /\ new.expires = t + TTL
              /\ new.expires \in Nat /\ new.expires - TTL = t
              /\ pending' \in SUBSET (pending \cup {new})
<1> DEFINE live == {p \in pending : t < p.expires}
           new == [state |-> <<owner, begun[owner] + 1>>, expires |-> t + TTL]
<1>1. begun[owner] \in Nat
  BY DEF Types
<1>2. /\ new \in Pending /\ new.state = <<owner, begun[owner] + 1>> /\ new.expires = t + TTL
      /\ new.expires \in Nat /\ new.expires - TTL = t
  BY <1>1 DEF Pending
<1>3. \/ pending' = live \cup {new}
      \/ \E o \in live : pending' = (live \ {o}) \cup {new}
  BY DEF Issue
<1>4. pending' \in SUBSET (pending \cup {new})
  BY <1>3
<1> QED
  BY <1>2, <1>4

LEMMA IssueKeepsTable ==
    ASSUME Types, TableInv, NEW owner \in Owners \cup {Nobody}, NEW t \in Nat, Issue(owner, t),
           owner \in Owners => begun[owner] < MaxEnrolments
    PROVE  /\ TableInv' /\ pending' \subseteq Pending
           /\ begun' \in [Owners \cup {Nobody} -> Nat]
<1>1. PICK new \in Pending :
          /\ new.state = <<owner, begun[owner] + 1>> /\ new.expires = t + TTL
          /\ pending' \in SUBSET (pending \cup {new})
  BY IssueOutcome
<1>2. begun' = [begun EXCEPT ![owner] = @ + 1] /\ spent' = spent /\ misused' = misused
  BY DEF Issue
<1>3. /\ begun \in [Owners \cup {Nobody} -> Nat] /\ pending \subseteq Pending
      /\ begun' \in [Owners \cup {Nobody} -> Nat]
  BY <1>2 DEF Types
<1>4. /\ begun'[owner] = begun[owner] + 1 /\ begun[owner] \in Nat
      /\ \A o \in (Owners \cup {Nobody}) \ {owner} : begun'[o] = begun[o]
  BY <1>2, <1>3
<1>5. IsFiniteSet(pending')
  BY <1>1, FS_AddElement, FS_Subset DEF TableInv
<1>6. \A p \in pending : /\ p.state[1] \in Owners \cup {Nobody} /\ p.state[2] \in 1..begun[p.state[1]]
                         /\ begun[p.state[1]] \in Nat
  BY <1>3 DEF Pending, TableInv
<1>7. \A p \in pending : p.state # new.state
  <2> SUFFICES ASSUME NEW p \in pending, p.state = new.state PROVE FALSE
    OBVIOUS
  <2>1. p.state[1] = owner /\ p.state[2] = begun[owner] + 1
    BY <1>1
  <2> QED
    BY <1>4, <1>6, <2>1
<1>8. \A p, q \in pending' : p.state = q.state => p = q
  <2>1. \A p, q \in pending \cup {new} : p.state = q.state => p = q
    BY <1>7 DEF TableInv
  <2> QED
    BY <1>1, <2>1
<1>9. \A p \in pending' : p.state[2] \in 1..begun'[p.state[1]]
  <2> SUFFICES ASSUME NEW p \in pending' PROVE p.state[2] \in 1..begun'[p.state[1]]
    OBVIOUS
  <2>1. CASE p \in pending
    <3>1. CASE p.state[1] = owner
      BY <1>4, <1>6, <2>1, <3>1
    <3>2. CASE p.state[1] # owner
      <4>1. begun'[p.state[1]] = begun[p.state[1]]
        BY <1>4, <1>6, <2>1, <3>2
      <4> QED
        BY <1>6, <2>1, <4>1
    <3> QED
      BY <3>1, <3>2
  <2>2. CASE p = new
    BY <1>1, <1>4, <2>2
  <2> QED
    BY <1>1, <2>1, <2>2
<1>10. \A o \in Owners : begun'[o] <= MaxEnrolments
  <2> SUFFICES ASSUME NEW o \in Owners PROVE begun'[o] <= MaxEnrolments
    OBVIOUS
  <2>1. CASE o = owner
    BY <1>4, <2>1
  <2>2. CASE o # owner
    BY <1>4, <2>2 DEF TableInv
  <2> QED
    BY <2>1, <2>2
<1>11. pending' \subseteq Pending
  BY <1>1, <1>3
<1> QED
  BY <1>2, <1>3, <1>5, <1>8, <1>9, <1>10, <1>11 DEF TableInv

(* take: the state goes, so that it is never in the table and spent. *)
LEMMA TakeKeepsTable ==
    ASSUME Types, TableInv, NEW owner, NEW t, Take(owner, t), begun' = begun
    PROVE  TableInv' /\ pending' \in SUBSET pending
<1>1. PICK p \in pending : 
          /\ pending' = pending \ {p}
          /\ IF t < p.expires /\ p.state[1] = owner
             THEN Through(p, owner)
             ELSE UNCHANGED <<spent, misused>>
  BY DEF Take
<1>2. p.state \notin {q.state : q \in pending'}
  BY <1>1 DEF TableInv
<1>3. spent' = {} /\ misused' = FALSE
  <2>1. CASE t < p.expires /\ p.state[1] = owner
    BY <1>1, <1>2, <2>1 DEF Through, TableInv
  <2>2. CASE ~(t < p.expires /\ p.state[1] = owner)
    BY <1>1, <2>2 DEF TableInv
  <2> QED
    BY <2>1, <2>2
<1>4. pending' \in SUBSET pending /\ IsFiniteSet(pending')
  BY <1>1, FS_Subset DEF TableInv
<1> QED
  BY <1>3, <1>4 DEF TableInv
------------------------------------------------------------------------------
(* A step that lets nobody through. *)
LEMMA RateStays ==
    ASSUME IInv, global' = global, now' \in [Handlers -> Nat],
           \A a \in Int : Cardinality(Asked(a)') + Cardinality(Asking(a)')
                             <= Cardinality(Asked(a)) + Cardinality(Asking(a)),
           \A a \in Int : Cardinality(Asked(a)') + Cardinality(Asking(a)') \in Nat,
           \A h \in Handlers : pc'[h] = "issuing" => pc[h] = "issuing" /\ now'[h] = now[h],
           \A p \in pending' : p.state[1] = Nobody =>
              \/ p \in pending
              \/ \E h \in Handlers : pc[h] = "issuing" /\ p.expires - TTL = now[h]
    PROVE  Rate' /\ Timely'
<1>1. /\ Types /\ Rate /\ Timely /\ TableInv
      /\ global \in [count : Nat, start : Int]
  BY DEF IInv, Types
<1>2. Passed' = Passed /\ Passed \in Nat /\ GlobalCap \in Nat
  BY <1>1 DEF Passed
<1>3. Rate'
  <2> SUFFICES ASSUME NEW k \in Nat, NEW a \in Int, global.start - k * Window <= a
               PROVE  Cardinality(Asked(a)') + Cardinality(Asking(a)') <= Passed' + k * GlobalCap
    BY DEF Rate
  <2>1. Cardinality(Asked(a)) + Cardinality(Asking(a)) <= Passed + k * GlobalCap
    BY <1>1 DEF Rate
  <2>2. Cardinality(Asked(a)) \in Nat /\ Cardinality(Asking(a)) \in Nat
    BY <1>1, Tables
  <2>3. k * GlobalCap \in Nat
    BY <1>2
  <2>4. /\ Cardinality(Asked(a)') + Cardinality(Asking(a)')
               <= Cardinality(Asked(a)) + Cardinality(Asking(a))
        /\ Cardinality(Asked(a)') + Cardinality(Asking(a)') \in Nat
    OBVIOUS
  <2> QED
    BY <1>2, <2>1, <2>2, <2>3, <2>4
<1>4. Timely'
  BY <1>1 DEF Timely
<1> QED
  BY <1>3, <1>4

(* A passkey handler that is done: it has taken nothing, or issued one. *)
LEMMA RateHandedOn ==
    ASSUME IInv, global' = global, NEW h \in Handlers, Done(h),
           \/ pending' \in SUBSET pending
           \/ /\ pc[h] = "issuing"
              /\ \E new : /\ new.expires - TTL = now[h]
                          /\ pending' \in SUBSET (pending \cup {new})
    PROVE  Rate' /\ Timely'
<1>1. Types /\ TableInv /\ now[h] \in Nat
  BY DEF IInv, Types
<1>2. /\ now' \in [Handlers -> Nat] /\ pc'[h] = "idle"
      /\ \A e \in Handlers \ {h} : pc'[e] = pc[e] /\ now'[e] = now[e]
  BY <1>1, DoneOutcome
<1>3. ASSUME NEW a \in Int
      PROVE  /\ Cardinality(Asked(a)') + Cardinality(Asking(a)')
                   <= Cardinality(Asked(a)) + Cardinality(Asking(a))
             /\ Cardinality(Asked(a)') + Cardinality(Asking(a)') \in Nat
  <2>1. /\ IsFiniteSet(Asked(a)) /\ Cardinality(Asked(a)) \in Nat
        /\ Asking(a) \in SUBSET Handlers
        /\ IsFiniteSet(Asking(a)) /\ Cardinality(Asking(a)) \in Nat
    BY <1>1, Tables
  <2>2. Asking(a)' = Asking(a) \ {h}
    BY <1>2 DEF Asking
  <2>3. /\ Cardinality(Asking(a)') = (IF h \in Asking(a) THEN Cardinality(Asking(a)) - 1
                                                        ELSE Cardinality(Asking(a)))
        /\ Cardinality(Asking(a)') \in Nat
    <3>1. IsFiniteSet(Asking(a)')
      BY <2>1, <2>2, FS_RemoveElement
    <3> QED
      BY <2>1, <2>2, <3>1, FS_RemoveElement, FS_CardinalityType
  <2>4. CASE Asked(a)' \in SUBSET Asked(a)
    <3>1. IsFiniteSet(Asked(a)') /\ Cardinality(Asked(a)') <= Cardinality(Asked(a))
      BY <2>1, <2>4, FS_Subset
    <3>2. Cardinality(Asked(a)') \in Nat
      BY <3>1, FS_CardinalityType
    <3> QED
      BY <2>1, <2>3, <3>1, <3>2
  <2>5. CASE \E new : Asked(a)' \in SUBSET (Asked(a) \cup {new}) /\ h \in Asking(a)
    <3>1. PICK new : Asked(a)' \in SUBSET (Asked(a) \cup {new}) /\ h \in Asking(a)
      BY <2>5
    <3>2. /\ IsFiniteSet(Asked(a) \cup {new})
          /\ Cardinality(Asked(a) \cup {new}) = (IF new \in Asked(a) THEN Cardinality(Asked(a))
                                                                    ELSE Cardinality(Asked(a)) + 1)
      BY <2>1, FS_AddElement
    <3>3. IsFiniteSet(Asked(a)') /\ Cardinality(Asked(a)') <= Cardinality(Asked(a) \cup {new})
      BY <3>1, <3>2, FS_Subset
    <3>4. Cardinality(Asked(a)') \in Nat
      BY <3>3, FS_CardinalityType
    <3> QED
      BY <2>1, <2>3, <3>1, <3>2, <3>3, <3>4
  <2>6. \/ Asked(a)' \in SUBSET Asked(a)
        \/ \E new : Asked(a)' \in SUBSET (Asked(a) \cup {new}) /\ h \in Asking(a)
    <3>1. CASE pending' \in SUBSET pending
      BY <3>1 DEF Asked
    <3>2. CASE pc[h] = "issuing" /\ \E new : /\ new.expires - TTL = now[h]
                                            /\ pending' \in SUBSET (pending \cup {new})
      <4>1. PICK new : new.expires - TTL = now[h] /\ pending' \in SUBSET (pending \cup {new})
        BY <3>2
      <4>2. Asked(a)' \in SUBSET (Asked(a) \cup {new})
        BY <4>1 DEF Asked
      <4>3. CASE a <= now[h]
        <5>1. h \in Asking(a)
          BY <3>2, <4>3 DEF Asking
        <5> QED
          BY <4>2, <5>1
      <4>4. CASE ~(a <= now[h])
        <5>1. new \notin Asked(a)'
          BY <4>1, <4>4 DEF Asked
        <5> QED
          BY <4>2, <5>1
      <4> QED
        BY <4>3, <4>4
    <3> QED
      BY <3>1, <3>2
  <2> QED
    BY <2>4, <2>5, <2>6
<1>4. \A e \in Handlers : pc'[e] = "issuing" => pc[e] = "issuing" /\ now'[e] = now[e]
  BY <1>2
<1>5. \A p \in pending' : p.state[1] = Nobody =>
         \/ p \in pending
         \/ \E e \in Handlers : pc[e] = "issuing" /\ p.expires - TTL = now[e]
  OBVIOUS
<1>6. \A a \in Int : Cardinality(Asked(a)') + Cardinality(Asking(a)')
                        <= Cardinality(Asked(a)) + Cardinality(Asking(a))
  BY <1>3
<1>7. \A a \in Int : Cardinality(Asked(a)') + Cardinality(Asking(a)') \in Nat
  BY <1>3
<1> QED
  BY <1>2, <1>4, <1>5, <1>6, <1>7, RateStays

(* An enrolment: nobody's ceremony, and no handler's. *)
LEMMA RateElsewhere ==
    ASSUME IInv, global' = global, now' = now, \A h \in Handlers : pc'[h] = "issuing" <=> pc[h] = "issuing",
           \A p \in pending' : p \in pending \/ p.state[1] # Nobody
    PROVE  Rate' /\ Timely'
<1>1. Types /\ TableInv /\ now \in [Handlers -> Nat]
  BY DEF IInv, Types
<1>2. ASSUME NEW a \in Int
      PROVE  /\ Cardinality(Asked(a)') + Cardinality(Asking(a)')
                   <= Cardinality(Asked(a)) + Cardinality(Asking(a))
             /\ Cardinality(Asked(a)') + Cardinality(Asking(a)') \in Nat
  <2>1. /\ IsFiniteSet(Asked(a)) /\ Cardinality(Asked(a)) \in Nat
        /\ Cardinality(Asking(a)) \in Nat
    BY <1>1, Tables
  <2>2. Asking(a)' = Asking(a) /\ Asked(a)' \in SUBSET Asked(a)
    BY DEF Asking, Asked
  <2>3. IsFiniteSet(Asked(a)') /\ Cardinality(Asked(a)') <= Cardinality(Asked(a))
    BY <2>1, <2>2, FS_Subset
  <2>4. Cardinality(Asked(a)') \in Nat
    BY <2>3, FS_CardinalityType
  <2> QED
    BY <2>1, <2>2, <2>3, <2>4
<1>3. \A h \in Handlers : pc'[h] = "issuing" => pc[h] = "issuing" /\ now'[h] = now[h]
  OBVIOUS
<1>4. \A p \in pending' : p.state[1] = Nobody =>
         \/ p \in pending
         \/ \E h \in Handlers : pc[h] = "issuing" /\ p.expires - TTL = now[h]
  OBVIOUS
<1>5. \A a \in Int : Cardinality(Asked(a)') + Cardinality(Asking(a)')
                        <= Cardinality(Asked(a)) + Cardinality(Asking(a))
  BY <1>2
<1>6. \A a \in Int : Cardinality(Asked(a)') + Cardinality(Asking(a)') \in Nat
  BY <1>2
<1> QED
  BY <1>1, <1>3, <1>4, <1>5, <1>6, RateStays
LEMMA TableKept ==
    ASSUME IInv, Next
    PROVE  /\ Rate' /\ Timely' /\ TableInv'
           /\ pending' \subseteq Pending /\ begun' \in [Owners \cup {Nobody} -> Nat]
<1>1. Types /\ TableInv /\ clock \in Nat /\ pc \in [Handlers -> {"idle", "verifying", "issuing", "taking"}]
  BY DEF IInv, Types
<1>2. now \in [Handlers -> Nat] /\ pending \subseteq Pending /\ begun \in [Owners \cup {Nobody} -> Nat]
  BY <1>1 DEF Types
<1>3. ASSUME UNCHANGED ceremonies
      PROVE  /\ TableInv' /\ pending' = pending
             /\ pending' \subseteq Pending /\ begun' \in [Owners \cup {Nobody} -> Nat]
  BY <1>1, <1>2, <1>3 DEF TableInv, ceremonies
<1>4. ASSUME NEW h \in Handlers, Login(h) \/ Refused(h)
      PROVE  Rate' /\ Timely' /\ UNCHANGED ceremonies
  <2>1. CountRequest(clock) /\ clock' = clock /\ UNCHANGED ceremonies /\ pending' = pending
    BY <1>4 DEF Login, Refused, ceremonies
  <2>2. /\ now' \in [Handlers -> Nat] /\ Issuing' = Issuing
        /\ \A e \in Issuing : now'[e] = now[e]
    <3>1. CASE Login(h)
      <4>1. pc[h] = "idle" /\ Goto(h, "verifying")
        BY <3>1 DEF Login
      <4>2. /\ now' \in [Handlers -> Nat] /\ pc'[h] = "verifying"
            /\ \A e \in Handlers \ {h} : pc'[e] = pc[e] /\ now'[e] = now[e]
        BY <1>1, <4>1, GotoOutcome
      <4> QED
        BY <4>1, <4>2 DEF Issuing
    <3>2. CASE Refused(h)
      <4>1. pc' = pc /\ now' = now
        BY <3>2 DEF Refused, handlers
      <4> QED
        BY <1>2, <4>1 DEF Issuing
    <3> QED
      BY <1>4, <3>1, <3>2
  <2> DEFINE E == {}
  <2>3. /\ E \in SUBSET Handlers /\ Issuing' = Issuing \cup E /\ \A e \in E : now'[e] = clock
        /\ E = {} \/ (UnderCap(clock) /\ \E e \in Handlers : E = {e})
    BY <2>2
  <2> HIDE DEF E
  <2> QED
    BY <2>1, <2>2, <2>3, RateKept
<1>5. ASSUME NEW h \in Handlers, PasskeyRequest(h)
      PROVE  Rate' /\ Timely' /\ UNCHANGED ceremonies
  <2>1. /\ CountRequest(clock) /\ clock' = clock /\ UNCHANGED ceremonies /\ pending' = pending
        /\ UnderCap(clock) /\ pc[h] = "idle"
    BY <1>5 DEF PasskeyRequest, ceremonies
  <2>2. PICK label \in {"issuing", "taking"} : Goto(h, label)
    BY <1>5 DEF PasskeyRequest
  <2> DEFINE E == IF label = "issuing" THEN {h} ELSE {}
  <2>3. /\ now' \in [Handlers -> Nat] /\ pc'[h] = label /\ now'[h] = clock
        /\ \A e \in Handlers \ {h} : pc'[e] = pc[e] /\ now'[e] = now[e]
    BY <1>1, <2>2, GotoOutcome
  <2>4. /\ Issuing' = Issuing \cup E /\ \A e \in Issuing : now'[e] = now[e]
    BY <2>1, <2>3 DEF Issuing
  <2>5. /\ E \in SUBSET Handlers /\ \A e \in E : now'[e] = clock
        /\ E = {} \/ (UnderCap(clock) /\ \E e \in Handlers : E = {e})
    BY <2>1, <2>3
  <2> HIDE DEF E
  <2> QED
    BY <2>1, <2>3, <2>4, <2>5, RateKept
<1>6. ASSUME NEW h \in Handlers, Fail(h) \/ Succeed(h)
      PROVE  Rate' /\ Timely' /\ UNCHANGED ceremonies
  <2>1. global' = global /\ Done(h) /\ UNCHANGED ceremonies /\ pending' \in SUBSET pending
    BY <1>6 DEF Fail, Succeed, ceremonies
  <2> QED
    BY <2>1, RateHandedOn
<1>7. ASSUME NEW h \in Handlers, BeginLogin(h)
      PROVE  /\ Rate' /\ Timely' /\ TableInv'
             /\ pending' \subseteq Pending /\ begun' \in [Owners \cup {Nobody} -> Nat]
  <2>1. global' = global /\ Done(h) /\ pc[h] = "issuing" /\ now[h] \in Nat
    BY <1>2, <1>7 DEF BeginLogin, limiter
  <2>2. CASE Issue(Nobody, now[h])
    <3>1. PICK t \in Nat : t = now[h]
      BY <2>1
    <3>2. Issue(Nobody, t)
      BY <2>2, <3>1
    <3>3. Nobody \in Owners \cup {Nobody} /\ Nobody \notin Owners
      OBVIOUS
    <3>4. \E new \in Pending : new.expires - TTL = t /\ pending' \in SUBSET (pending \cup {new})
      BY <1>1, <3>2, <3>3, IssueOutcome
    <3>5. /\ TableInv' /\ pending' \subseteq Pending
          /\ begun' \in [Owners \cup {Nobody} -> Nat]
      BY <1>1, <3>2, <3>3, IssueKeepsTable
    <3>6. Rate' /\ Timely'
      BY <2>1, <3>1, <3>4, RateHandedOn
    <3> QED
      BY <3>5, <3>6
  <2>3. CASE UNCHANGED ceremonies
    <3>1. pending' \in SUBSET pending
      BY <2>3 DEF ceremonies
    <3>2. Rate' /\ Timely'
      BY <2>1, <3>1, RateHandedOn
    <3> QED
      BY <1>3, <2>3, <3>2
  <2> QED
    BY <1>7, <2>2, <2>3 DEF BeginLogin
<1>8. ASSUME NEW h \in Handlers, FinishLogin(h)
      PROVE  /\ Rate' /\ Timely' /\ TableInv'
             /\ pending' \subseteq Pending /\ begun' \in [Owners \cup {Nobody} -> Nat]
  <2>1. global' = global /\ Done(h)
    BY <1>8 DEF FinishLogin, limiter
  <2>2. /\ TableInv' /\ pending' \in SUBSET pending /\ begun' = begun
    <3>1. CASE Take(Nobody, now[h]) /\ UNCHANGED begun
      BY <1>1, <3>1, TakeKeepsTable
    <3>2. CASE UNCHANGED ceremonies
      BY <1>3, <3>2 DEF ceremonies
    <3> QED
      BY <1>8, <3>1, <3>2 DEF FinishLogin
  <2>3. Rate' /\ Timely'
    BY <2>1, <2>2, RateHandedOn
  <2> QED
    BY <1>2, <2>2, <2>3
<1>9. ASSUME BeginEnrolment
      PROVE  /\ Rate' /\ Timely' /\ TableInv'
             /\ pending' \subseteq Pending /\ begun' \in [Owners \cup {Nobody} -> Nat]
  <2>1. global' = global /\ now' = now /\ pc' = pc
    BY <1>9 DEF BeginEnrolment, limiter, handlers
  <2>2. PICK o \in Owners : begun[o] < MaxEnrolments /\ Issue(o, clock)
    BY <1>9 DEF BeginEnrolment
  <2>3. PICK new \in Pending : /\ new.state = <<o, begun[o] + 1>>
                               /\ pending' \in SUBSET (pending \cup {new})
    BY <1>1, <2>2, IssueOutcome
  <2>4. \A p \in pending' : p \in pending \/ p.state[1] # Nobody
    BY <2>3
  <2>5. Rate' /\ Timely'
    BY <2>1, <2>4, RateElsewhere
  <2>6. /\ TableInv' /\ pending' \subseteq Pending
        /\ begun' \in [Owners \cup {Nobody} -> Nat]
    BY <1>1, <2>2, IssueKeepsTable
  <2> QED
    BY <2>5, <2>6
<1>10. ASSUME FinishEnrolment
       PROVE  /\ Rate' /\ Timely' /\ TableInv'
              /\ pending' \subseteq Pending /\ begun' \in [Owners \cup {Nobody} -> Nat]
  <2>1. global' = global /\ now' = now /\ pc' = pc /\ begun' = begun
    BY <1>10 DEF FinishEnrolment, limiter, handlers
  <2>2. TableInv' /\ pending' \in SUBSET pending
    BY <1>1, <1>10, <2>1, TakeKeepsTable DEF FinishEnrolment
  <2>3. \A p \in pending' : p \in pending \/ p.state[1] # Nobody
    BY <2>2
  <2>4. Rate' /\ Timely'
    BY <2>1, <2>3, RateElsewhere
  <2> QED
    BY <1>2, <2>1, <2>2, <2>4
<1>11. ASSUME Tick
       PROVE  Rate' /\ Timely' /\ UNCHANGED ceremonies
  <2>1. global' = global /\ now' = now /\ pc' = pc /\ pending' = pending /\ UNCHANGED ceremonies
    BY <1>11 DEF Tick, limiter, handlers, ceremonies
  <2>2. \A p \in pending' : p \in pending \/ p.state[1] # Nobody
    BY <2>1
  <2> QED
    BY <2>1, <2>2, RateElsewhere
<1> QED
  BY <1>3, <1>4, <1>5, <1>6, <1>7, <1>8, <1>9, <1>10, <1>11 DEF Next
------------------------------------------------------------------------------
(* The parts of Types that the two tables do not share. *)
LimiterTypes ==
    /\ users = [n \in DOMAIN users |-> users[n]] /\ DOMAIN users \subseteq Names
    /\ \A n \in DOMAIN users :
          users[n] \in [count : Nat \ {0}, start : Nat] /\ users[n].start <= clock
    /\ global \in [count : Nat, start : Int] /\ global.start <= clock
    /\ reaped \in Int /\ reaped <= clock

HandlerTypes ==
    /\ pc \in [Handlers -> {"idle", "verifying", "issuing", "taking"}]
    /\ now \in [Handlers -> Nat] /\ name \in [Handlers -> Names \cup {Nobody}]
    /\ \A h \in Handlers : /\ now[h] <= clock /\ (pc[h] = "verifying" => name[h] \in Names)
                           /\ pc[h] # "idle" => clock - now[h] <= Lag

GuessTypes ==
    /\ wrong \in [Names -> SUBSET (Nat \X Nat)]
    /\ \A n \in Names : IsFiniteSet(wrong[n]) /\ \A g \in wrong[n] : g[1] <= clock

LEMMA TypeParts ==
    Types /\ Prompt <=>
        /\ LimiterTypes /\ HandlerTypes /\ GuessTypes
        /\ pending \subseteq Pending /\ clock \in Nat /\ begun \in [Owners \cup {Nobody} -> Nat]
BY DEF Types, Prompt, LimiterTypes, HandlerTypes, GuessTypes

LEMMA ArrivalTypes ==
    ASSUME IInv, NEW h \in Handlers, NEW label \in {"verifying", "issuing", "taking"},
           Goto(h, label), clock' = clock, NEW n \in Names \cup {Nobody},
           label = "verifying" => n \in Names,
           name' = [name EXCEPT ![h] = n]
    PROVE  HandlerTypes'
<1>1. Types /\ HandlerTypes /\ clock \in Nat /\ Lag \in Nat
  BY TypeParts DEF IInv, Types
<1>2. /\ pc' \in [Handlers -> {"idle", "verifying", "issuing", "taking"}]
      /\ now' \in [Handlers -> Nat] /\ pc'[h] = label /\ now'[h] = clock
      /\ \A e \in Handlers \ {h} : pc'[e] = pc[e] /\ now'[e] = now[e]
  BY <1>1, GotoOutcome
<1>3. /\ name' \in [Handlers -> Names \cup {Nobody}] /\ name'[h] = n
      /\ \A e \in Handlers \ {h} : name'[e] = name[e]
  BY <1>1 DEF HandlerTypes
<1>4. ASSUME NEW e \in Handlers
      PROVE  /\ now'[e] <= clock' /\ (pc'[e] = "verifying" => name'[e] \in Names)
             /\ pc'[e] # "idle" => clock' - now'[e] <= Lag
  <2>1. CASE e = h
    BY <1>1, <1>2, <1>3, <2>1
  <2>2. CASE e # h
    BY <1>1, <1>2, <1>3, <2>2 DEF HandlerTypes
  <2> QED
    BY <2>1, <2>2
<1> QED
  BY <1>2, <1>3, <1>4 DEF HandlerTypes

LEMMA DoneTypes ==
    ASSUME IInv, NEW h \in Handlers, Done(h), clock' = clock
    PROVE  HandlerTypes'
<1>1. Types /\ HandlerTypes /\ clock \in Nat
  BY TypeParts DEF IInv, Types
<1>2. /\ pc' \in [Handlers -> {"idle", "verifying", "issuing", "taking"}]
      /\ now' \in [Handlers -> Nat] /\ name' \in [Handlers -> Names \cup {Nobody}]
      /\ pc'[h] = "idle"
      /\ \A e \in Handlers \ {h} : pc'[e] = pc[e] /\ now'[e] = now[e] /\ name'[e] = name[e]
  BY <1>1, DoneOutcome
<1>3. now'[h] = 0
  BY <1>1 DEF Done, HandlerTypes
<1>4. ASSUME NEW e \in Handlers
      PROVE  /\ now'[e] <= clock' /\ (pc'[e] = "verifying" => name'[e] \in Names)
             /\ pc'[e] # "idle" => clock' - now'[e] <= Lag
  <2>1. CASE e = h
    BY <1>1, <1>2, <1>3, <2>1
  <2>2. CASE e # h
    BY <1>1, <1>2, <2>2 DEF HandlerTypes
  <2> QED
    BY <2>1, <2>2
<1> QED
  BY <1>2, <1>4 DEF HandlerTypes

LEMMA TypesKept ==
    ASSUME IInv, Next
    PROVE  Types' /\ Prompt'
<1>1. /\ Types /\ LimiterTypes /\ HandlerTypes /\ GuessTypes /\ clock \in Nat
  BY TypeParts DEF IInv, Types
<1>2. pending' \subseteq Pending /\ begun' \in [Owners \cup {Nobody} -> Nat]
  BY TableKept
<1>3. ASSUME LimiterTypes', HandlerTypes', GuessTypes', clock' \in Nat
      PROVE  Types' /\ Prompt'
  BY <1>2, <1>3 DEF Types, Prompt, LimiterTypes, HandlerTypes, GuessTypes
<1>4. ASSUME NEW h \in Handlers, Login(h) \/ Refused(h) \/ PasskeyRequest(h)
      PROVE  Types' /\ Prompt'
  <2>1. CountRequest(clock) /\ clock' = clock /\ wrong' = wrong
    BY <1>4 DEF Login, Refused, PasskeyRequest
  <2>2. LimiterTypes' /\ GuessTypes'
    <3>1. LimiterTypes'
      BY <1>1, <2>1, CountOutcome DEF LimiterTypes
    <3> QED
      BY <1>1, <2>1, <3>1 DEF GuessTypes
  <2>3. HandlerTypes'
    <3>1. CASE Login(h)
      <4>1. PICK n \in Names : name' = [name EXCEPT ![h] = n]
        BY <3>1 DEF Login
      <4>2. Goto(h, "verifying")
        BY <3>1 DEF Login
      <4> QED
        BY <2>1, <4>1, <4>2, ArrivalTypes
    <3>2. CASE Refused(h)
      BY <1>1, <2>1, <3>2 DEF Refused, handlers, HandlerTypes
    <3>3. CASE PasskeyRequest(h)
      <4>1. PICK label \in {"issuing", "taking"} : Goto(h, label)
        BY <3>3 DEF PasskeyRequest
      <4>2. name' = [name EXCEPT ![h] = name[h]] /\ name[h] \in Names \cup {Nobody}
        BY <1>1, <3>3 DEF PasskeyRequest, HandlerTypes
      <4>3. PICK n \in Names \cup {Nobody} : n = name[h]
        BY <4>2
      <4> QED
        BY <2>1, <4>1, <4>2, <4>3, ArrivalTypes
    <3> QED
      BY <1>4, <3>1, <3>2, <3>3
  <2> QED
    BY <1>1, <1>3, <2>1, <2>2, <2>3
<1>5. ASSUME NEW h \in Handlers, Fail(h)
      PROVE  Types' /\ Prompt'
  <2>1. Done(h) /\ clock' = clock /\ global' = global /\ reaped' = reaped /\ name[h] \in Names
    BY <1>1, <1>5 DEF Fail, HandlerTypes
  <2>2. PICK n \in Names : n = name[h]
    BY <2>1
  <2>3. /\ DOMAIN users' = DOMAIN users \cup {n}
        /\ users' = [m \in DOMAIN users' |-> users'[m]]
        /\ \A m \in DOMAIN users \ {n} : users'[m] = users[m]
        /\ users'[n] = Roll(WindowOf(n), now[h])
    BY <1>1, <1>5, <2>2, FailCounts
  <2>4. users'[n] \in [count : Nat \ {0}, start : Nat] /\ users'[n].start <= clock
    <3>1. /\ WindowOf(n) \in [count : Nat, start : Int] /\ WindowOf(n).start <= clock
          /\ n \in DOMAIN users => 0 <= WindowOf(n).start
          /\ n \notin DOMAIN users => WindowOf(n).start = 0 - Window
      BY <1>1, WindowOK
    <3>2. now[h] \in Nat /\ now[h] <= clock
      BY <1>1 DEF HandlerTypes
    <3>3. CASE Within(WindowOf(n), now[h])
      <4>1. users'[n] = [count |-> WindowOf(n).count + 1, start |-> WindowOf(n).start]
        BY <2>3, <3>3 DEF Roll
      <4>2. n \in DOMAIN users
        BY <3>1, <3>2, <3>3 DEF Within
      <4> QED
        BY <3>1, <4>1, <4>2
    <3>4. CASE ~Within(WindowOf(n), now[h])
      BY <2>3, <3>2, <3>4 DEF Roll
    <3> QED
      BY <3>3, <3>4
  <2>5. LimiterTypes'
    <3>1. DOMAIN users' \subseteq Names
      BY <1>1, <2>3 DEF LimiterTypes
    <3>2. \A m \in DOMAIN users' :
              users'[m] \in [count : Nat \ {0}, start : Nat] /\ users'[m].start <= clock'
      BY <1>1, <2>1, <2>3, <2>4 DEF LimiterTypes
    <3> QED
      BY <1>1, <2>1, <2>3, <3>1, <3>2 DEF LimiterTypes
  <2>6. HandlerTypes'
    BY <2>1, DoneTypes
  <2>7. GuessTypes'
    BY <1>1, <1>5, <2>1, <2>2, FailRecords DEF GuessTypes
  <2> QED
    BY <1>1, <1>3, <2>1, <2>5, <2>6, <2>7
<1>6. ASSUME NEW h \in Handlers, Succeed(h)
      PROVE  Types' /\ Prompt'
  <2>1. Done(h) /\ clock' = clock /\ global' = global /\ reaped' = reaped
    BY <1>6 DEF Succeed
  <2>2. LimiterTypes'
    <3>1. users' = [n \in DOMAIN users \ {name[h]} |-> users[n]]
      BY <1>6 DEF Succeed, Restrict
    <3> QED
      BY <1>1, <2>1, <3>1 DEF LimiterTypes
  <2>3. HandlerTypes'
    BY <2>1, DoneTypes
  <2>4. GuessTypes'
    <3>1. wrong' = [wrong EXCEPT ![name[h]] = {}]
      BY <1>6 DEF Succeed
    <3> QED
      BY <1>1, <2>1, <3>1, FS_EmptySet DEF GuessTypes
  <2> QED
    BY <1>1, <1>3, <2>1, <2>2, <2>3, <2>4
<1>7. ASSUME NEW h \in Handlers, BeginLogin(h) \/ FinishLogin(h)
      PROVE  Types' /\ Prompt'
  <2>1. Done(h) /\ UNCHANGED <<users, global, reaped, clock, wrong>>
    BY <1>7 DEF BeginLogin, FinishLogin, limiter
  <2>2. HandlerTypes'
    BY <2>1, DoneTypes
  <2>3. LimiterTypes' /\ GuessTypes'
    BY <1>1, <2>1 DEF LimiterTypes, GuessTypes
  <2> QED
    BY <1>1, <1>3, <2>1, <2>2, <2>3
<1>8. ASSUME BeginEnrolment \/ FinishEnrolment
      PROVE  Types' /\ Prompt'
  <2>1. UNCHANGED <<users, global, reaped, clock, wrong, pc, now, name>>
    BY <1>8 DEF BeginEnrolment, FinishEnrolment, limiter, handlers
  <2>2. LimiterTypes' /\ GuessTypes' /\ HandlerTypes'
    BY <1>1, <2>1 DEF LimiterTypes, GuessTypes, HandlerTypes
  <2> QED
    BY <1>1, <1>3, <2>1, <2>2
<1>9. ASSUME Tick
      PROVE  Types' /\ Prompt'
  <2>1. /\ UNCHANGED <<users, global, reaped, wrong, pc, now, name>> /\ clock' = clock + 1
        /\ \A h \in Handlers : pc[h] # "idle" => clock - now[h] < Lag
    BY <1>9 DEF Tick, limiter, handlers
  <2>2. LimiterTypes'
    BY <1>1, <2>1 DEF LimiterTypes
  <2>3. GuessTypes'
    <3>1. \A n \in Names : \A g \in wrong[n] : g[1] \in Nat /\ g[1] <= clock
      BY <1>1 DEF GuessTypes
    <3> QED
      BY <1>1, <2>1, <3>1 DEF GuessTypes
  <2>4. HandlerTypes'
    <3>1. Lag \in Nat
      OBVIOUS
    <3> QED
      BY <1>1, <2>1, <3>1 DEF HandlerTypes
  <2> QED
    BY <1>1, <1>3, <2>1, <2>2, <2>3, <2>4
<1> QED
  BY <1>4, <1>5, <1>6, <1>7, <1>8, <1>9 DEF Next
LEMMA InvInit == Init => IInv
<1> SUFFICES ASSUME Init PROVE IInv
  OBVIOUS
<1>1. Types /\ Prompt
  <2>1. Window \in Nat \ {0} /\ Never \in Int /\ Never <= 0 /\ Lag \in Nat
    BY DEF Never
  <2>2. \A n \in Names : IsFiniteSet(wrong[n]) /\ wrong[n] = {}
    BY FS_EmptySet DEF Init
  <2> QED
    BY <2>1, <2>2 DEF Types, Prompt, Init, Fresh
<1>2. ASSUME NEW n \in Names PROVE GuessOK(n)
  <2>1. Verifying(n) = {} /\ Into(n) = {}
    BY DEF Init, Verifying, Into
  <2>2. Room(n)
    BY <2>1, HandlerSets, FS_EmptySet DEF Room, Init, WindowOf, Fresh
  <2>3. ASSUME NEW t \in Nat PROVE WrongWithin(n, t) = 0
    <3>1. {g \in wrong[n] : t <= g[1] /\ g[1] < t + Window} = {}
      BY DEF Init
    <3> QED
      BY <3>1, FS_EmptySet DEF WrongWithin
  <2>4. WindowOf(n).start + Window = 0
    BY DEF Init, WindowOf, Fresh, Never
  <2>5. ASSUME NEW t \in Nat PROVE Phase(n, t)
    <3>1. WindowOf(n).start = 0 - Window
      BY DEF Init, WindowOf, Fresh, Never
    <3> QED
      BY <2>3, <2>5, <3>1 DEF Phase
  <2>6. clock = 0
    BY DEF Init
  <2> QED
    BY <2>2, <2>5, <2>6 DEF GuessOK
<1>3. Rate
  <2>1. \A a \in Int : Asked(a) = {} /\ Asking(a) = {}
    BY DEF Init, Asked, Asking
  <2>2. global.count = 0 /\ Passed = 0
    BY DEF Init, Fresh, Passed
  <2>3. \A k \in Nat : k * GlobalCap \in Nat
    OBVIOUS
  <2>4. \A a \in Int : Cardinality(Asked(a)) = 0 /\ Cardinality(Asking(a)) = 0
    BY <2>1, FS_EmptySet
  <2> QED
    BY <2>2, <2>3, <2>4 DEF Rate
<1>4. Timely
  BY DEF Init, Timely
<1>5. TableInv
  BY FS_EmptySet DEF Init, TableInv
<1> QED
  BY <1>1, <1>2, <1>3, <1>4, <1>5 DEF IInv

LEMMA Steps == IInv /\ [Next]_vars => IInv'
<1> SUFFICES ASSUME IInv, [Next]_vars PROVE IInv'
  OBVIOUS
<1>1. CASE Next
  BY <1>1, GuessesKept, TableKept, TypesKept DEF IInv
<1>2. CASE UNCHANGED vars
  <2>1. /\ UNCHANGED <<users, global, reaped>> /\ UNCHANGED <<pending, begun, spent, misused>>
        /\ UNCHANGED <<clock, pc, now, name, wrong>>
    BY <1>2 DEF vars, limiter, ceremonies, handlers
  <2>2. Types' /\ Prompt'
    BY <2>1 DEF IInv, Types, Prompt
  <2>3. ASSUME NEW n \in Names PROVE GuessOK(n)'
    <3>1. WindowOf(n)' = WindowOf(n) /\ Verifying(n)' = Verifying(n)
      BY <2>1 DEF WindowOf, Fresh, Verifying
    <3>2. /\ clock' = clock /\ wrong'[n] = wrong[n] /\ reaped' = reaped /\ now' \in [Handlers -> Nat]
          /\ \A h \in Verifying(n) : now'[h] = now[h]
      BY <2>1 DEF IInv, Types
    <3> QED
      BY <3>1, <3>2, Bystanders
  <2>4. Rate' /\ Timely' /\ TableInv'
    BY <2>1 DEF IInv, Rate, Asked, Asking, Passed, Timely, TableInv
  <2> QED
    BY <2>2, <2>3, <2>4 DEF IInv
<1> QED
  BY <1>1, <1>2

------------------------------------------------------------------------------
(* The inductive invariant: what each window has taken and what has been counted of
   it, the rate at which ceremonies come, and the states in their table. *)
THEOREM IInvCorrect == Spec => []IInv
BY InvInit, Steps, PTL DEF Spec

(* Every variable keeps its type, and no spent state is anywhere but in the table. *)
THEOREM TypeCorrect == Spec => []TypeOK
<1>1. IInv => TypeOK
  <2> SUFFICES ASSUME IInv PROVE TypeOK
    OBVIOUS
  <2>1. Range(users) \subseteq [count : Nat \ {0}, start : Nat]
    BY DEF IInv, Types, Range
  <2> QED
    BY <2>1 DEF IInv, Types, TableInv, TypeOK
<1> QED
  BY <1>1, IInvCorrect, PTL

(* Nobody gets more wrong guesses at a name, in a window's time, than two windows
   back to back take, or three with a reaping between them (ratelimit.go allow,
   fail, succeed, reapLocked). *)
THEOREM GuessesAlwaysBounded == Spec => []GuessesBounded
<1>1. ASSUME IInv, NEW n \in Names, NEW t \in Nat
      PROVE  WrongWithin(n, t) < 2 * Most \/ WrongWithin(n, t) <= 3 * (Most - 1)
  <2>1. Types /\ clock \in Nat /\ Most \in Nat \ {0} /\ GuessOK(n)
    BY <1>1, HandlerSets DEF IInv, Types
  <2>2. WrongWithin(n, t) \in Nat
    BY <2>1, Guesses
  <2>3. CASE clock < t
    BY <2>1, <2>3, Guesses
  <2>4. CASE t <= clock
    <3>1. Settled(n, t)
      <4>1. CASE clock < t + Window
        <5>1. Room(n) /\ Phase(n, t)
          BY <2>1, <2>4, <4>1 DEF GuessOK
        <5> QED
          BY <2>1, <5>1, PhaseSettles
      <4>2. CASE t + Window <= clock
        BY <2>1, <4>2 DEF GuessOK
      <4> QED
        BY <2>1, <4>1, <4>2
    <3>2. Cardinality(Among(n, t)) \in Nat
      BY Handled, HandlerSets
    <3>3. WrongWithin(n, t) <= Others + Most
      BY <2>1, <2>2, <3>1, <3>2 DEF Settled, Others
    <3> QED
      BY <2>1, <2>2, <3>3 DEF Others
  <2> QED
    BY <2>1, <2>3, <2>4
<1>2. IInv => GuessesBounded
  <2>1. 0..MaxClock \subseteq Nat
    OBVIOUS
  <2> QED
    BY <1>1, <2>1 DEF GuessesBounded
<1> QED
  BY <1>2, IInvCorrect, PTL

(* A state gets its owner through take, and once only (challenges.go take,
   passkeys.go). *)
THEOREM AlwaysOnceAndOwn == Spec => []OnceAndOwn
<1>1. IInv => OnceAndOwn
  BY DEF IInv, TableInv, OnceAndOwn
<1> QED
  BY <1>1, IInvCorrect, PTL
------------------------------------------------------------------------------
(* The ceremonies that are good by the clock, and those of them that enrol. *)
Good == {p \in pending : clock < p.expires}
Enrolling == {p \in Good : p.state[1] \in Owners}

(* What issue evicts, if it is good, is the oldest of a full table of good ones. *)
LEMMA EvictionOfGood ==
    ASSUME Types, TableInv, NEW owner, NEW t \in Nat, t <= clock, Issue(owner, t),
           NEW p \in pending \ pending', clock < p.expires
    PROVE  MaxChallenges <= Cardinality(Good)
<1> DEFINE live == {q \in pending : t < q.expires}
<1>1. clock \in Nat /\ \A q \in pending : q.expires \in Nat
  BY DEF Types, Pending
<1>2. p \in live
  BY <1>1
<1>3. PICK o \in live : /\ Cardinality(live) >= MaxChallenges
                        /\ \A q \in live : o.expires <= q.expires
                        /\ \E new : pending' = (live \ {o}) \cup {new}
  BY <1>2 DEF Issue
<1>4. p = o
  BY <1>2, <1>3
<1>5. live \in SUBSET Good
  BY <1>1, <1>3, <1>4 DEF Good
<1>6. IsFiniteSet(Good)
  BY FS_Subset DEF Good, TableInv
<1>7. IsFiniteSet(live) /\ Cardinality(live) <= Cardinality(Good)
  BY <1>5, <1>6, FS_Subset
<1>8. Cardinality(live) \in Nat /\ Cardinality(Good) \in Nat
  BY <1>6, <1>7, FS_CardinalityType
<1> QED
  BY <1>3, <1>7, <1>8

(* The sign-ins among them are those of TTL - 1 units of time. *)
LEMMA GoodAreFew ==
    ASSUME IInv
    PROVE  /\ Cardinality(Good) + Cardinality(Asking(clock + 1 - TTL))
                <= GlobalCap * ((TTL - 2) \div Window + 2) + Cardinality(Enrolling)
           /\ Cardinality(Good) \in Nat /\ Cardinality(Asking(clock + 1 - TTL)) \in Nat
           /\ IsFiniteSet(Enrolling) /\ Cardinality(Enrolling) \in Nat
<1> DEFINE a == clock + 1 - TTL
           k == (TTL - 2) \div Window + 1
<1>1. /\ Types /\ TableInv /\ Rate /\ clock \in Nat
      /\ global \in [count : Nat, start : Int] /\ global.start <= clock
  BY DEF IInv, Types
<1>2. a \in Int /\ TTL \in Nat \ {0} /\ Window \in Nat \ {0} /\ GlobalCap \in Nat \ {0}
  BY <1>1
<1>3. k \in Nat /\ TTL - 1 <= k * Window
  <2>1. \A x \in Int, y \in Nat \ {0} : /\ x \div y \in Int /\ x < y * (x \div y) + y
                                       /\ y * (x \div y) <= x
    OBVIOUS
  <2> DEFINE d == (TTL - 2) \div Window
  <2>2. d \in Int /\ TTL - 2 < Window * d + Window
    BY <1>2, <2>1
  <2> HIDE DEF d
  <2>3. -1 <= d
    <3>1. -1 <= TTL - 2
      BY <1>2
    <3>2. d <= -2 => Window * d <= -2 * Window
      BY <1>2, <2>2
    <3>3. Window * d \in Int
      BY <1>2, <2>2
    <3> QED
      BY <1>2, <2>2, <3>1, <3>2, <3>3
  <2>4. (d + 1) * Window = Window * d + Window /\ Window * d \in Int
    BY <1>2, <2>2
  <2>5. d + 1 \in Nat /\ TTL - 1 <= (d + 1) * Window
    BY <1>2, <2>2, <2>3, <2>4
  <2> QED
    BY <2>5 DEF d
<1>4. GlobalCap * ((TTL - 2) \div Window + 2) = k * GlobalCap + GlobalCap
  <2> DEFINE d == (TTL - 2) \div Window
  <2>1. d \in Int
    BY <1>2
  <2> HIDE DEF d
  <2>2. GlobalCap * (d + 2) = (d + 1) * GlobalCap + GlobalCap
    BY <1>2, <2>1
  <2> QED
    BY <2>2 DEF d
<1> HIDE DEF k, a
<1>5. Cardinality(Asked(a)) + Cardinality(Asking(a)) <= k * GlobalCap + GlobalCap
  <2>1. k * Window \in Nat /\ k * GlobalCap \in Nat
    BY <1>2, <1>3
  <2>2. global.start - k * Window <= a
    BY <1>1, <1>2, <1>3, <2>1 DEF a
  <2>3. Cardinality(Asked(a)) + Cardinality(Asking(a)) <= Passed + k * GlobalCap
    BY <1>1, <1>2, <1>3, <2>2 DEF Rate
  <2>4. Passed \in Nat /\ Passed <= GlobalCap
    BY <1>1, <1>2 DEF Passed
  <2>5. Cardinality(Asked(a)) \in Nat /\ Cardinality(Asking(a)) \in Nat
    BY <1>1, Tables
  <2> QED
    BY <1>2, <2>1, <2>3, <2>4, <2>5
<1>6. /\ IsFiniteSet(Good) /\ Cardinality(Good) \in Nat
      /\ IsFiniteSet(Enrolling) /\ Cardinality(Enrolling) \in Nat
  <2>1. Good \in SUBSET pending /\ Enrolling \in SUBSET pending /\ IsFiniteSet(pending)
    BY DEF Good, Enrolling, TableInv, IInv
  <2> QED
    BY <2>1, FS_Subset, FS_CardinalityType
<1>7. Good \in SUBSET (Asked(a) \cup Enrolling)
  <2> SUFFICES ASSUME NEW p \in Good, p \notin Enrolling PROVE p \in Asked(a)
    OBVIOUS
  <2>1. p \in Pending /\ p \in pending /\ clock < p.expires
    BY <1>1 DEF Good, Types
  <2>2. p.state[1] = Nobody /\ p.expires \in Nat
    BY <2>1 DEF Enrolling, Pending
  <2>3. a <= p.expires - TTL
    BY <1>1, <1>2, <2>1, <2>2 DEF a
  <2> QED
    BY <2>1, <2>2, <2>3 DEF Asked
<1>8. Cardinality(Good) <= Cardinality(Asked(a)) + Cardinality(Enrolling)
  <2>1. IsFiniteSet(Asked(a)) /\ Cardinality(Asked(a)) \in Nat
    BY <1>1, Tables
  <2>2. /\ IsFiniteSet(Asked(a) \cup Enrolling)
        /\ Cardinality(Asked(a) \cup Enrolling) =
              Cardinality(Asked(a)) + Cardinality(Enrolling) - Cardinality(Asked(a) \cap Enrolling)
    BY <1>6, <2>1, FS_Union
  <2>3. Cardinality(Asked(a) \cap Enrolling) \in Nat
    <3>1. Asked(a) \cap Enrolling \in SUBSET Enrolling
      OBVIOUS
    <3> QED
      BY <1>6, <3>1, FS_Subset, FS_CardinalityType
  <2>4. Cardinality(Good) <= Cardinality(Asked(a) \cup Enrolling)
    BY <1>7, <2>2, FS_Subset
  <2> QED
    BY <1>6, <2>1, <2>2, <2>3, <2>4
<1>9. Cardinality(Asking(a)) \in Nat /\ Cardinality(Asked(a)) \in Nat /\ k * GlobalCap \in Nat
  BY <1>1, <1>2, <1>3, Tables
<1>10. Cardinality(Good) + Cardinality(Asking(a)) <= k * GlobalCap + GlobalCap + Cardinality(Enrolling)
  BY <1>2, <1>5, <1>6, <1>8, <1>9
<1> QED
  BY <1>4, <1>6, <1>9, <1>10 DEF a

(* An administrator's ceremonies are at most those begun: one fewer, at least, while
   another may begin. *)
LEMMA EnrolmentsAreFew ==
    ASSUME IInv
    PROVE  /\ Cardinality(Enrolling) <= Cardinality(Owners) * MaxEnrolments
           /\ (\E o \in Owners : begun[o] < MaxEnrolments) =>
                 Cardinality(Enrolling) < Cardinality(Owners) * MaxEnrolments
           /\ Cardinality(Owners) * MaxEnrolments \in Nat
<1> DEFINE T == Owners \X (1..MaxEnrolments)
           f == [p \in Enrolling |-> p.state]
<1>1. Types /\ TableInv /\ MaxEnrolments \in Nat /\ IsFiniteSet(Owners)
  BY DEF IInv
<1>2. \A o \in Owners : begun[o] \in Nat /\ begun[o] <= MaxEnrolments
  BY <1>1 DEF Types, TableInv
<1>3. ASSUME NEW p \in Enrolling
      PROVE  /\ p.state = <<p.state[1], p.state[2]>> /\ p.state[1] \in Owners
             /\ p.state[2] \in 1..begun[p.state[1]]
             /\ p.state \in T
  <2>1. p \in Pending /\ p \in pending /\ p.state[1] \in Owners
    BY <1>1 DEF Enrolling, Good, Types
  <2>2. p.state \in (Owners \cup {Nobody}) \X Nat /\ p.state[2] \in 1..begun[p.state[1]]
    BY <1>1, <2>1 DEF Pending, TableInv
  <2>3. p.state[2] \in 1..MaxEnrolments
    BY <1>1, <1>2, <2>1, <2>2
  <2> QED
    BY <2>1, <2>2, <2>3
<1>4. f \in Injection(Enrolling, T)
  <2>1. f \in [Enrolling -> T]
    BY <1>3
  <2>2. \A p, q \in Enrolling : p.state = q.state => p = q
    BY <1>1 DEF Enrolling, Good, TableInv
  <2> QED
    BY <2>1, <2>2 DEF Injection, IsInjective
<1>5. /\ IsFiniteSet(T)
      /\ Cardinality(T) = Cardinality(Owners) * MaxEnrolments /\ Cardinality(T) \in Nat
  <2>1. IsFiniteSet(1..MaxEnrolments) /\ Cardinality(1..MaxEnrolments) = MaxEnrolments
    <3>1. /\ IsFiniteSet(1..MaxEnrolments)
          /\ Cardinality(1..MaxEnrolments) = (IF 1 > MaxEnrolments THEN 0 ELSE MaxEnrolments - 1 + 1)
      <4>1. 1 \in Int /\ MaxEnrolments \in Int
        BY <1>1
      <4> QED
        BY <4>1, FS_Interval
    <3> QED
      BY <1>1, <3>1
  <2>2. IsFiniteSet(T) /\ Cardinality(T) = Cardinality(Owners) * Cardinality(1..MaxEnrolments)
    BY <1>1, <2>1, FS_Product
  <2>3. Cardinality(T) \in Nat
    BY <2>2, FS_CardinalityType
  <2> QED
    BY <2>1, <2>2, <2>3
<1> HIDE DEF T, f
<1>6. /\ Cardinality(Enrolling) <= Cardinality(T)
      /\ Cardinality(Enrolling) = Cardinality(T) <=> f \in Surjection(Enrolling, T)
  BY <1>4, <1>5, FS_Injection
<1>7. ASSUME NEW o \in Owners, begun[o] < MaxEnrolments PROVE f \notin Surjection(Enrolling, T)
  <2>1. <<o, begun[o] + 1>> \in T
    BY <1>1, <1>2, <1>7 DEF T
  <2>2. \A p \in Enrolling : f[p] # <<o, begun[o] + 1>>
    <3> SUFFICES ASSUME NEW p \in Enrolling, p.state = <<o, begun[o] + 1>> PROVE FALSE
      BY DEF f
    <3>1. p.state[2] \in 1..begun[o]
      BY <1>3
    <3> QED
      BY <1>2, <3>1
  <2> QED
    BY <2>1, <2>2 DEF Surjection
<1>8. Cardinality(Enrolling) \in Nat
  BY GoodAreFew
<1> QED
  BY <1>5, <1>6, <1>7, <1>8

(* A flood of sign-ins takes what the limiter lets through in the time a ceremony
   lives, and the one about to begin is counted already: a full table holds one that
   has expired (challenges.go issue, reapLocked; ratelimit.go allowGlobal). *)
THEOREM FloodsNeverEvict == Spec => FloodNeverEvicts
<1>1. ASSUME IInv, [Next]_vars, begun' # begun, NEW p \in pending \ pending', clock < p.expires
      PROVE  FALSE
  <2>1. Types /\ TableInv /\ Prompt /\ clock \in Nat /\ MaxChallenges \in Nat
    BY <1>1 DEF IInv, Types
  <2> DEFINE C == GlobalCap * ((TTL - 2) \div Window + 2)
             F == Cardinality(Owners) * MaxEnrolments
             A == Asking(clock + 1 - TTL)
  <2>2. /\ Cardinality(Good) + Cardinality(A) <= C + Cardinality(Enrolling)
        /\ Cardinality(Good) \in Nat /\ Cardinality(A) \in Nat /\ Cardinality(Enrolling) \in Nat
    BY <1>1, GoodAreFew
  <2>3. /\ Cardinality(Enrolling) <= F /\ F \in Nat
        /\ (\E o \in Owners : begun[o] < MaxEnrolments) => Cardinality(Enrolling) < F
    BY <1>1, EnrolmentsAreFew
  <2>4. C + F <= MaxChallenges /\ C \in Int
    OBVIOUS
  <2>5. \/ \E h \in Handlers : BeginLogin(h) /\ Issue(Nobody, now[h])
        \/ BeginEnrolment
    <3>1. \A h \in Handlers : Login(h) \/ Refused(h) \/ Fail(h) \/ Succeed(h) \/ PasskeyRequest(h)
             => begun' = begun
      BY DEF Login, Refused, Fail, Succeed, PasskeyRequest, ceremonies
    <3>2. FinishEnrolment \/ Tick \/ UNCHANGED vars => begun' = begun
      BY DEF FinishEnrolment, Tick, ceremonies, vars
    <3>3. \A h \in Handlers : FinishLogin(h) => begun' = begun
      BY DEF FinishLogin, ceremonies
    <3>4. \A h \in Handlers : BeginLogin(h) => Issue(Nobody, now[h]) \/ begun' = begun
      BY DEF BeginLogin, ceremonies
    <3> QED
      BY <1>1, <3>1, <3>2, <3>3, <3>4 DEF Next
  <2> HIDE DEF C, F, A
  <2>6. CASE \E h \in Handlers : BeginLogin(h) /\ Issue(Nobody, now[h])
    <3>1. PICK h \in Handlers : BeginLogin(h) /\ Issue(Nobody, now[h])
      BY <2>6
    <3>2. pc[h] = "issuing" /\ now[h] \in Nat /\ now[h] <= clock /\ clock - now[h] <= Lag
      BY <2>1, <3>1 DEF BeginLogin, Types, Prompt
    <3>3. PICK t \in Nat : t = now[h]
      BY <3>2
    <3>4. Issue(Nobody, t) /\ t <= clock
      BY <3>1, <3>2, <3>3
    <3>5. MaxChallenges <= Cardinality(Good)
      BY <1>1, <2>1, <3>4, EvictionOfGood
    <3>6. h \in A /\ IsFiniteSet(A)
      <4>1. clock + 1 - TTL <= now[h]
        BY <2>1, <3>2, LagAssumption
      <4> QED
        BY <2>1, <3>2, <4>1, Tables DEF A, Asking
    <3>7. Cardinality(A) # 0
      BY <3>6, FS_EmptySet
    <3>8. 1 <= Cardinality(A) /\ Cardinality(Enrolling) <= F
      BY <2>2, <2>3, <3>7
    <3>9. Cardinality(Good) + 1 <= C + F
      BY <2>2, <2>3, <2>4, <3>8
    <3> QED
      BY <2>1, <2>2, <2>3, <2>4, <3>5, <3>9
  <2>7. CASE BeginEnrolment
    <3>1. PICK o \in Owners : begun[o] < MaxEnrolments /\ Issue(o, clock)
      BY <2>7 DEF BeginEnrolment
    <3>2. MaxChallenges <= Cardinality(Good)
      BY <1>1, <2>1, <3>1, EvictionOfGood
    <3>3. Cardinality(Enrolling) < F
      BY <2>3, <3>1
    <3> QED
      BY <2>1, <2>2, <2>3, <2>4, <3>2, <3>3
  <2> QED
    BY <2>5, <2>6, <2>7
<1>2. IInv /\ [Next]_vars =>
        (begun' # begun => \A p \in pending \ pending' : p.expires <= clock)
  <2> SUFFICES ASSUME IInv, [Next]_vars, begun' # begun, NEW p \in pending \ pending'
               PROVE  p.expires <= clock
    OBVIOUS
  <2>1. clock \in Nat /\ p.expires \in Nat
    BY DEF IInv, Types, Pending
  <2> QED
    BY <1>1, <2>1
<1> QED
  BY <1>2, IInvCorrect, PTL DEF Spec, FloodNeverEvicts
==============================================================================
