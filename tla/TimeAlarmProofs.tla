-------------------------- MODULE TimeAlarmProofs --------------------------
(***************************************************************************)
(* Proofs about TimeAlarm, for every width of its integers, every set of   *)
(* policy delays and every longest alarm.                                  *)
(*                                                                         *)
(* Each operation on one timer is treated once, by a lemma about its       *)
(* result; a step of the service then changes a timer by such an operation *)
(* or leaves it as it is.                                                  *)
(***************************************************************************)
EXTENDS TimeAlarm, TLAPS

\* One timer's part of StateMatchesSource.
Sound(r) ==
    /\ r \in Timer
    /\ r.state = "PowerSource" => ~r.active
    /\ r.state = "PolicyDelay" => r.active
    /\ (r.left = None) <=> (r.state = "Clear")

Running(r) == r.state \in {"Armed", "PolicyDelay"}

\* The task is told of the timer, and no later than the timer is due.
Rung(r) ==
    Running(r) => /\ r.signal \in 0 .. Never
                  /\ r.state = "Armed" => r.signal <= r.left

\* What an operation q may have made of a timer r: it has told the task, or
\* there is nothing new to tell.
Told(q, r) ==
    \/ Rung(q)
    \/ q.state = r.state /\ q.left = r.left /\ q.signal = r.signal

\* An operation keeps the timer sound, tells the task, and awakes no orphan.
Fine(q, r) ==
    /\ Sound(q) /\ Told(q, r)
    /\ r.state = "Orphaned" => q.state = "Orphaned"

-----------------------------------------------------------------------------
(* The operations on one timer.                                             *)

LEMMA NeverNat ==
    /\ Never \in Nat \ {0} /\ 2^Width = Never + 1
    /\ MaxLeft \in Nat /\ MaxLeft < Never /\ Delays \subseteq 0 .. Never
    /\ None \notin Int /\ Empty \notin Int /\ Stop \notin Int
<1>1. 2^Width \in Nat
    BY TimeAlarmAssumption DEF Never
<1>2. Never \in Int /\ 2^Width = Never + 1
    BY <1>1 DEF Never
<1>3. MaxLeft \in 0 .. Never - 1 /\ Delays \subseteq 0 .. Never - 1
    BY TimeAlarmAssumption
<1>4. None \notin Int /\ Empty \notin Int /\ Stop \notin Int
    BY TimeAlarmAssumption
<1> QED BY <1>2, <1>3, <1>4

\* The values a timer's fields may be given.
LEMMA Values ==
    /\ Never \in 0 .. Never /\ 0 \in 0 .. Never
    /\ (0 .. MaxLeft) \subseteq (0 .. Never) /\ (0 .. Never) \subseteq Signals
    /\ Stop \in Signals /\ Empty \in Signals
    /\ Delays \cup {Never} \subseteq 0 .. Never
    /\ None \notin 0 .. Never
BY NeverNat DEF Signals

LEMMA SetExpirationTimeFacts ==
    ASSUME NEW r \in Timer, NEW secs \in (0 .. MaxLeft) \cup {None}
    PROVE  LET q == SetExpirationTime(r, secs) IN
           /\ q \in Timer /\ Rung(q) /\ q.active = r.active
           /\ q.state = IF secs = None THEN "Clear" ELSE "Armed"
           /\ q.left = secs
<1>1. CASE secs = None
  <2>1. SetExpirationTime(r, secs) = [r EXCEPT !.expired = FALSE, !.woke = FALSE,
                                       !.left = None, !.state = "Clear", !.signal = Stop]
    BY <1>1 DEF SetExpirationTime, ClearExpirationTime, ResetStatus, Timer
  <2> QED BY <1>1, <2>1, Values DEF Timer, WakeStates, Rung, Running
<1>2. CASE secs # None
  <2>1. SetExpirationTime(r, secs) = [r EXCEPT !.expired = FALSE, !.woke = FALSE,
                                       !.left = secs, !.state = "Armed", !.signal = secs]
    BY <1>2 DEF SetExpirationTime, ResetStatus, Timer
  <2>2. secs \in 0 .. MaxLeft /\ secs \in 0 .. Never /\ secs \in Signals /\ secs <= secs
    BY <1>2, Values, NeverNat
  <2> QED BY <1>2, <2>1, <2>2 DEF Timer, WakeStates, Rung, Running
<1> QED BY <1>1, <1>2

LEMMA ResetStatusFacts ==
    ASSUME NEW r, Sound(r)
    PROVE  Fine(ResetStatus(r), r)
BY DEF ResetStatus, Fine, Sound, Told, Timer, WakeStates, Signals

LEMMA SetTimerWakePolicyFacts ==
    ASSUME NEW r, Sound(r), NEW p \in Delays \cup {Never}
    PROVE  Fine(SetTimerWakePolicy(r, p), r)
<1>1. CASE r.state = "PolicyDelay"
  <2>1. SetTimerWakePolicy(r, p) = [r EXCEPT !.policy = p, !.since = 0, !.elapsed = 0, !.signal = p]
    BY <1>1 DEF SetTimerWakePolicy
  <2>2. p \in 0 .. Never /\ p \in Signals /\ 0 \in 0 .. Never
    BY Values
  <2> QED BY <1>1, <2>1, <2>2 DEF Fine, Sound, Told, Rung, Running, Timer, WakeStates
<1>2. CASE r.state # "PolicyDelay"
    BY <1>2 DEF SetTimerWakePolicy, Fine, Sound, Told, Timer
<1> QED BY <1>1, <1>2

LEMMA SetActiveFacts ==
    ASSUME NEW r, Sound(r), NEW active \in BOOLEAN, NEW ok \in BOOLEAN
    PROVE  Fine(SetActive(r, active, ok), r)
<1>1. CASE r.active = active
    BY <1>1 DEF SetActive, Fine, Told
<1>2. CASE r.active # active /\ active
  <2>1. CASE r.state # "PowerSource"
    <3>1. SetActive(r, active, ok) = [r EXCEPT !.active = active]
      BY <1>2, <2>1 DEF SetActive, Activated
    <3> QED BY <1>2, <2>1, <3>1 DEF Fine, Sound, Told, Timer
  <2>2. CASE r.state = "PowerSource" /\ ok
    <3> DEFINE s == SaturatingSub(r.policy, r.elapsed)
    <3>1. SetActive(r, active, ok) = [r EXCEPT !.state = "PolicyDelay", !.since = 0,
                                               !.signal = s, !.active = active]
      BY <1>2, <2>2 DEF SetActive, Activated, Sound, Timer
    <3>2. r.policy \in 0 .. Never /\ r.elapsed \in 0 .. Never
      BY Values DEF Sound, Timer
    <3>3. s \in 0 .. Never /\ s \in Signals /\ 0 \in 0 .. Never
      BY <3>2, Values, NeverNat DEF SaturatingSub
    <3> HIDE DEF s
    <3> QED BY <1>2, <2>2, <3>1, <3>3 DEF Fine, Sound, Told, Rung, Running, Timer, WakeStates
  <2>3. CASE r.state = "PowerSource" /\ ~ok
    <3>1. SetActive(r, active, ok) = [r EXCEPT !.state = "Armed", !.signal = 0, !.active = active]
      BY <1>2, <2>3 DEF SetActive, Activated, Sound, Timer
    <3>2. 0 \in 0 .. Never /\ 0 \in Signals
      BY Values
    <3>3. 0 <= r.left
      BY <2>3, NeverNat DEF Sound, Timer
    <3> QED BY <1>2, <2>3, <3>1, <3>2, <3>3 DEF Fine, Sound, Told, Rung, Running, Timer, WakeStates
  <2> QED BY <2>1, <2>2, <2>3
<1>3. CASE r.active # active /\ ~active
  <2>1. CASE r.state # "PolicyDelay"
    <3>1. SetActive(r, active, ok) = [r EXCEPT !.active = active]
      BY <1>3, <2>1 DEF SetActive, Deactivated
    <3> QED BY <1>3, <2>1, <3>1 DEF Fine, Sound, Told, Timer
  <2>2. CASE r.state = "PolicyDelay"
    <3> DEFINE e == IF ok THEN (r.elapsed + r.since) % 2^Width ELSE Never
    <3>1. SetActive(r, active, ok) = [r EXCEPT !.state = "PowerSource", !.signal = Stop,
                                               !.elapsed = e, !.active = active]
      BY <1>3, <2>2 DEF SetActive, Deactivated, Sound, Timer
    <3>2. r.elapsed \in Nat /\ r.since \in Nat
      BY NeverNat DEF Sound, Timer
    <3>3. (r.elapsed + r.since) % 2^Width \in 0 .. Never
      BY <3>2, NeverNat
    <3>4. e \in 0 .. Never /\ Stop \in Signals
      BY <3>3, Values
    <3> HIDE DEF e
    <3> QED BY <1>3, <2>2, <3>1, <3>4 DEF Fine, Sound, Told, Rung, Running, Timer, WakeStates
  <2> QED BY <2>1, <2>2
<1> QED BY <1>1, <1>2, <1>3

\* A timer that has expired is not left running, unless it is not due yet and
\* its task is told so.
LEMMA ProcessExpiredFacts ==
    ASSUME NEW r, Sound(r), NEW ok \in BOOLEAN
    PROVE  LET q == ProcessExpired(r, ok) IN
           /\ Fine(q, r) /\ Rung(q)
           /\ Triggers(r) /\ ~NotYet(r, ok) /\ ~r.active /\ r.policy = Never
                => q.state = "Orphaned"
<1> DEFINE q == ProcessExpired(r, ok)
<1>1. CASE ~Triggers(r)
  <2>1. q = r
    BY <1>1 DEF ProcessExpired, NotYet, Wakes
  <2> QED BY <1>1, <2>1 DEF Triggers, Fine, Sound, Told, Rung, Running
<1>2. CASE NotYet(r, ok)
  <2>1. Triggers(r) /\ r.left # None /\ r.left \in 0 .. MaxLeft
    BY <1>2 DEF NotYet, Triggers, Sound, Timer
  <2>2. q = [r EXCEPT !.state = "Armed", !.signal = r.left]
    BY <1>2, <2>1 DEF ProcessExpired, Wakes
  <2>3. r.left \in 0 .. Never /\ r.left \in Signals /\ r.left <= r.left
    BY <2>1, Values, NeverNat
  <2> QED BY <1>2, <2>1, <2>2, <2>3 DEF Triggers, Fine, Sound, Told, Rung, Running, Timer, WakeStates
<1>3. CASE Wakes(r, ok)
  <2>1. q = [r EXCEPT !.expired = TRUE, !.woke = TRUE, !.policy = Never,
                      !.left = None, !.state = "Clear", !.signal = Stop]
    BY <1>3 DEF ProcessExpired, Wakes, ClearExpirationTime, Sound, Timer
  <2> QED BY <1>3, <2>1, Values DEF Wakes, Triggers, Fine, Sound, Told, Rung, Running, Timer, WakeStates
<1>4. CASE Triggers(r) /\ ~NotYet(r, ok) /\ ~Wakes(r, ok)
  <2> DEFINE s == IF r.policy = Never THEN "Orphaned" ELSE "PowerSource"
             e == IF r.policy # Never /\ r.state = "PolicyDelay" THEN r.policy ELSE 0
  <2>1. q = [r EXCEPT !.expired = TRUE, !.state = s, !.elapsed = e]
    BY <1>4 DEF ProcessExpired
  <2>2. e \in 0 .. Never
    BY Values DEF Sound, Timer
  <2>3. s \in WakeStates /\ s \in {"Orphaned", "PowerSource"} /\ (r.policy = Never => s = "Orphaned")
    BY DEF WakeStates
  <2>4. ~r.active /\ r.state \in {"Armed", "PolicyDelay"} /\ r.left # None
    BY <1>4 DEF Wakes, Triggers
  <2> HIDE DEF s, e
  <2> QED BY <2>1, <2>2, <2>3, <2>4 DEF Fine, Sound, Told, Rung, Running, Timer
<1> QED BY <1>1, <1>2, <1>3, <1>4

\* Whatever NVRAM holds, a timer starts sound, and told to its task if it is set.
LEMMA StartFacts ==
    ASSUME NEW left \in (0 .. MaxLeft) \cup {None}, NEW policy \in Delays \cup {Never},
           NEW active \in BOOLEAN
    PROVE  LET q == Start(left, policy, active) IN Sound(q) /\ Rung(q)
<1> DEFINE n == SetTimerWakePolicy(NewTimer(left, policy), policy)
           s == SetExpirationTime(n, left)
<1>1. n \in Timer /\ n.active = FALSE
  <2>1. n = [NewTimer(left, policy) EXCEPT !.policy = policy]
    BY DEF SetTimerWakePolicy, NewTimer
  <2>2. NewTimer(left, policy) \in Timer
    BY Values DEF NewTimer, Timer, WakeStates
  <2> QED BY <2>1, <2>2 DEF NewTimer, Timer
<1>2. /\ s \in Timer /\ Rung(s) /\ s.active = FALSE
      /\ s.state = (IF left = None THEN "Clear" ELSE "Armed") /\ s.left = left
    BY <1>1, SetExpirationTimeFacts
<1> HIDE DEF s
<1>3. Start(left, policy, active) = SetActive(s, active, TRUE)
    BY DEF Start, s
<1>4. SetActive(s, active, TRUE) = [s EXCEPT !.active = active]
    BY <1>2 DEF SetActive, Activated, Timer
<1> QED BY <1>2, <1>3, <1>4 DEF Sound, Rung, Running, Timer

\* A second less, or the clock set by a second.
LEMMA ShiftedFacts ==
    ASSUME NEW r, Sound(r), r.since < Never, NEW d \in {-1, 1}
    PROVE  LET q == Shifted(r, d) IN
           Sound(q) /\ q.state = r.state /\ q.signal = r.signal
<1> DEFINE l == IF r.left = None THEN None ELSE IF r.left + d > MaxLeft THEN MaxLeft
                ELSE SaturatingSub(r.left + d, 0)
           s == IF d < 0 THEN r.since + 1 ELSE SaturatingSub(r.since, d)
<1>1. Shifted(r, d) = [r EXCEPT !.left = l, !.since = s]
    BY DEF Shifted
<1>2. s \in 0 .. Never
    BY NeverNat DEF Sound, Timer, SaturatingSub
<1>3. l \in (0 .. MaxLeft) \cup {None} /\ (l = None <=> r.left = None)
    BY NeverNat DEF Sound, Timer, SaturatingSub
<1> HIDE DEF l, s
<1> QED BY <1>1, <1>2, <1>3 DEF Sound, Timer

-----------------------------------------------------------------------------
(* The inductive invariant.                                                 *)

\* A running timer has told its task, which has not looked yet, or the task
\* sleeps; a signal or a sleep for an armed timer is over when the timer is due.
Waited(t) ==
    LET r == timer[t] IN
    Running(r) =>
        \/ /\ r.signal \in 0 .. Never
           /\ r.state = "Armed" /\ ~clockSet => r.signal <= r.left
        \/ /\ r.signal = Empty /\ task[t].at = "Sleep"
           /\ r.state = "Armed" /\ ~clockSet => task[t].rest <= r.left

Good(t) ==
    /\ Sound(timer[t]) /\ Waited(t)
    /\ task[t] \in Task /\ orphan[t] \in BOOLEAN
    /\ orphan[t] => timer[t].state = "Orphaned"

\* NeverLate is not inductive: a task that takes a signal sleeps that long, so
\* the signal of an armed timer must not be late either.  NeverIsNever rests on
\* an orphan staying Orphaned until it is set again.
AlarmInv ==
    /\ timer \in [Timers -> Timer] /\ task \in [Timers -> Task]
    /\ orphan \in [Timers -> BOOLEAN] /\ clockSet \in BOOLEAN
    /\ source \in Timers \cup {None} /\ switching \in Timers \cup {None}
    /\ \A t \in Timers : Good(t)
    /\ ~undead

LEMMA AlarmInvImplies == AlarmInv => StateMatchesSource /\ AlarmsKept
BY DEF AlarmInv, Good, Sound, Waited, Running, StateMatchesSource, TypeOK, AlarmsKept,
       NeverLate, NeverIsNever

LEMMA AlarmInit == Init => AlarmInv
<1> SUFFICES ASSUME Init PROVE AlarmInv
    OBVIOUS
<1>1. \A t \in Timers : Sound(timer[t]) /\ Rung(timer[t])
  <2> SUFFICES ASSUME NEW t \in Timers PROVE Sound(timer[t]) /\ Rung(timer[t])
    OBVIOUS
  <2>1. timer[t] = Start(None, Never, t = "AC")
    BY DEF Init
  <2> QED BY <2>1, StartFacts
<1>2. \A t \in Timers : task[t] \in Task
    BY Values DEF Init, IdleTask, Task
<1>3. \A t \in Timers : Good(t)
    BY <1>1, <1>2 DEF Init, Good, Rung, Waited
<1>4. timer \in [Timers -> Timer] /\ task \in [Timers -> Task]
    BY <1>1, <1>2 DEF Init, Sound
<1> QED BY <1>3, <1>4 DEF AlarmInv, Init

\* An operation on one timer by the service or the host.
LEMMA OperationKeeps ==
    ASSUME AlarmInv, NEW t \in Timers, NEW q, Fine(q, timer[t]),
           timer' = [timer EXCEPT ![t] = q],
           UNCHANGED <<task, orphan, undead, clockSet>>,
           source' \in Timers \cup {None}, switching' \in Timers \cup {None}
    PROVE  AlarmInv'
<1>1. timer' \in [Timers -> Timer] /\ timer'[t] = q
    BY DEF AlarmInv, Fine, Sound
<1>2. Good(t)'
  <2>1. Good(t) /\ Sound(q) /\ Told(q, timer[t])
    BY DEF AlarmInv, Fine
  <2>2. Waited(t)'
    BY <1>1, <2>1 DEF Good, Waited, Told, Rung, Running
  <2> QED BY <1>1, <2>1, <2>2 DEF Good, Fine
<1>3. ASSUME NEW u \in Timers, u # t PROVE Good(u)'
  <2>1. timer'[u] = timer[u] /\ Good(u)
    BY <1>3 DEF AlarmInv
  <2> QED BY <2>1 DEF Good, Waited
<1>4. \A u \in Timers : Good(u)'
    BY <1>2, <1>3
<1> QED BY <1>1, <1>4 DEF AlarmInv

\* A timer and the task of its own that a step leaves alone stay good.
LEMMA UntouchedKeeps ==
    ASSUME AlarmInv, NEW u \in Timers, timer'[u] = timer[u], task'[u] = task[u],
           orphan'[u] = orphan[u], clockSet' = clockSet
    PROVE  Good(u)'
<1>1. Good(u)
    BY DEF AlarmInv
<1> QED BY <1>1 DEF Good, Waited

LEMMA SetTimerValueKeeps ==
    ASSUME AlarmInv, NEW t \in Timers, NEW secs \in (0 .. MaxLeft) \cup {None},
           SetTimerValue(t, secs)
    PROVE  AlarmInv'
<1>1. PICK ok \in BOOLEAN :
          /\ timer' = [timer EXCEPT ![t] = IF ok THEN SetExpirationTime(@, secs)
                                           ELSE ResetStatus(@)]
          /\ orphan' = [orphan EXCEPT ![t] = @ /\ ~ok]
    BY DEF SetTimerValue
<1>2. UNCHANGED <<task, source, switching, undead, clockSet>>
    BY DEF SetTimerValue
<1>3. Good(t) /\ timer[t] \in Timer
    BY DEF AlarmInv
<1>4. CASE ok
  <2> DEFINE q == SetExpirationTime(timer[t], secs)
  <2>1. timer' = [timer EXCEPT ![t] = q] /\ orphan' = [orphan EXCEPT ![t] = FALSE]
    BY <1>1, <1>4
  <2>2. Sound(q) /\ Rung(q)
    BY <1>3, SetExpirationTimeFacts DEF Sound
  <2> HIDE DEF q
  <2>3. timer' \in [Timers -> Timer] /\ timer'[t] = q
    BY <2>1, <2>2 DEF AlarmInv, Sound
  <2>4. orphan' \in [Timers -> BOOLEAN] /\ orphan'[t] = FALSE
    BY <2>1 DEF AlarmInv
  <2>5. Good(t)'
    BY <1>2, <1>3, <2>2, <2>3, <2>4 DEF Good, Waited, Rung
  <2>6. ASSUME NEW u \in Timers, u # t PROVE Good(u)'
    <3>1. timer'[u] = timer[u] /\ orphan'[u] = orphan[u]
      BY <2>1, <2>6 DEF AlarmInv
    <3> QED BY <3>1, <1>2, UntouchedKeeps
  <2>7. \A u \in Timers : Good(u)'
    BY <2>5, <2>6
  <2> QED BY <1>2, <2>3, <2>4, <2>7 DEF AlarmInv
<1>5. CASE ~ok
  <2>1. timer' = [timer EXCEPT ![t] = ResetStatus(timer[t])] /\ orphan' = orphan
    BY <1>1, <1>5 DEF AlarmInv
  <2>2. Fine(ResetStatus(timer[t]), timer[t])
    BY <1>3, ResetStatusFacts DEF Good
  <2>3. source' \in Timers \cup {None} /\ switching' \in Timers \cup {None}
    BY <1>2 DEF AlarmInv
  <2> QED BY <1>2, <2>1, <2>2, <2>3, OperationKeeps
<1> QED BY <1>4, <1>5

LEMMA SetRealTimeKeeps ==
    ASSUME AlarmInv, NEW d \in {-1, 1}, SetRealTime(d)
    PROVE  AlarmInv'
<1>1. /\ timer' = [t \in Timers |-> Shifted(timer[t], d)] /\ clockSet' = TRUE
      /\ UNCHANGED <<task, source, switching, orphan, undead>>
      /\ \A t \in Timers : timer[t].since < Never
    BY DEF SetRealTime
<1>2. ASSUME NEW t \in Timers PROVE Sound(timer'[t]) /\ Good(t)'
  <2>1. Good(t) /\ Sound(timer[t])
    BY DEF AlarmInv, Good
  <2>2. timer'[t] = Shifted(timer[t], d)
    BY <1>1
  <2>3. Sound(timer'[t]) /\ timer'[t].state = timer[t].state /\ timer'[t].signal = timer[t].signal
    BY <1>1, <2>1, <2>2, ShiftedFacts
  <2> QED BY <1>1, <2>1, <2>3 DEF Good, Waited, Running
<1>3. timer' \in [Timers -> Timer]
    BY <1>1, <1>2 DEF Sound
<1> QED BY <1>1, <1>2, <1>3 DEF AlarmInv

LEMMA PowerSourceKeeps ==
    ASSUME AlarmInv, LeaveSource \/ EnterSource
    PROVE  AlarmInv'
<1>1. CASE LeaveSource
  <2>1. source \in Timers /\ Other(source) \in Timers
    BY <1>1 DEF LeaveSource, AlarmInv, Other, Timers
  <2>2. PICK ok \in BOOLEAN :
            timer' = [timer EXCEPT ![Other(source)] = SetActive(timer[Other(source)], FALSE, ok)]
    BY <1>1 DEF LeaveSource
  <2>3. Sound(timer[Other(source)])
    BY <2>1 DEF AlarmInv, Good
  <2>4. Fine(SetActive(timer[Other(source)], FALSE, ok), timer[Other(source)])
    BY <2>3, SetActiveFacts
  <2>5. /\ UNCHANGED <<task, orphan, undead, clockSet>>
        /\ source' \in Timers \cup {None} /\ switching' \in Timers \cup {None}
    BY <1>1, <2>1 DEF LeaveSource, history
  <2> QED BY <2>1, <2>2, <2>4, <2>5, OperationKeeps
<1>2. CASE EnterSource
  <2>1. switching \in Timers
    BY <1>2 DEF EnterSource, AlarmInv
  <2>2. PICK ok \in BOOLEAN :
            timer' = [timer EXCEPT ![switching] = SetActive(timer[switching], TRUE, ok)]
    BY <1>2 DEF EnterSource
  <2>3. Sound(timer[switching])
    BY <2>1 DEF AlarmInv, Good
  <2>4. Fine(SetActive(timer[switching], TRUE, ok), timer[switching])
    BY <2>3, SetActiveFacts
  <2>5. /\ UNCHANGED <<task, orphan, undead, clockSet>>
        /\ source' \in Timers \cup {None} /\ switching' \in Timers \cup {None}
    BY <1>2 DEF EnterSource, history, AlarmInv
  <2> QED BY <2>1, <2>2, <2>4, <2>5, OperationKeeps
<1> QED BY <1>1, <1>2

LEMMA TakeSignalKeeps ==
    ASSUME AlarmInv, NEW t \in Timers, TakeSignal(t)
    PROVE  AlarmInv'
<1> DEFINE s == timer[t].signal
           k == IF s = Stop THEN IdleTask ELSE SleepFor(s)
<1>1. /\ s # Empty
      /\ timer' = [timer EXCEPT ![t].signal = Empty] /\ task' = [task EXCEPT ![t] = k]
      /\ UNCHANGED <<source, switching, orphan, undead, clockSet>>
    BY DEF TakeSignal, history
<1>2. Good(t) /\ timer[t] \in Timer /\ s \in Signals
    BY DEF AlarmInv, Timer
<1>3. k \in Task
  <2>1. s # Stop => s \in 0 .. Never
    BY <1>1, <1>2 DEF Signals
  <2> QED BY <2>1, Values DEF IdleTask, SleepFor, Task
<1>4. /\ timer' \in [Timers -> Timer] /\ task' \in [Timers -> Task]
      /\ timer'[t] = [timer[t] EXCEPT !.signal = Empty] /\ task'[t] = k
    BY <1>1, <1>2, <1>3, Values DEF AlarmInv, Timer
<1>5. Sound(timer'[t]) /\ timer'[t].state = timer[t].state /\ timer'[t].signal = Empty
      /\ timer'[t].left = timer[t].left
    BY <1>2, <1>4 DEF Good, Sound, Timer
<1>6. Running(timer[t]) => s # Stop
    BY <1>1, <1>2, NeverNat DEF Good, Waited
<1>7. Waited(t)'
  <2>1. s # Stop => k.at = "Sleep" /\ k.rest = s
    BY DEF SleepFor
  <2> QED BY <1>1, <1>2, <1>4, <1>5, <1>6, <2>1 DEF Good, Waited, Running
<1>8. Good(t)'
    BY <1>1, <1>2, <1>3, <1>4, <1>5, <1>7 DEF Good
<1>9. ASSUME NEW u \in Timers, u # t PROVE Good(u)'
  <2>1. timer'[u] = timer[u] /\ task'[u] = task[u]
    BY <1>1, <1>9 DEF AlarmInv
  <2> QED BY <1>1, <2>1, UntouchedKeeps
<1> QED BY <1>1, <1>4, <1>8, <1>9 DEF AlarmInv

LEMMA SleepOverKeeps ==
    ASSUME AlarmInv, NEW t \in Timers, SleepOver(t)
    PROVE  AlarmInv'
<1> DEFINE r == timer[t]
<1>1. Good(t) /\ Sound(r)
    BY DEF AlarmInv, Good
<1>2. PICK ok \in BOOLEAN :
       /\ timer' = [timer EXCEPT ![t] = ProcessExpired(r, ok)]
       /\ task' = [task EXCEPT ![t] = IF Wakes(r, ok) THEN [IdleTask EXCEPT !.at = "Woke"]
                                      ELSE SleepFor(@.duration)]
       /\ orphan' = [orphan EXCEPT ![t] = @ \/ (/\ Triggers(r) /\ ~NotYet(r, ok)
                                               /\ ~r.active /\ r.policy = Never)]
       /\ undead' = (undead \/ (Wakes(r, ok) /\ orphan[t]))
    BY DEF SleepOver
<1>3. UNCHANGED <<source, switching, clockSet>>
    BY DEF SleepOver
<1> DEFINE q == ProcessExpired(r, ok)
           k == IF Wakes(r, ok) THEN [IdleTask EXCEPT !.at = "Woke"]
                ELSE SleepFor(task[t].duration)
           o == orphan[t] \/ (/\ Triggers(r) /\ ~NotYet(r, ok)
                              /\ ~r.active /\ r.policy = Never)
<1>4. Fine(q, r) /\ Rung(q) /\ (o => q.state = "Orphaned")
    BY <1>1, ProcessExpiredFacts DEF Good, Fine
<1>5. k \in Task
    BY <1>1, Values DEF Good, IdleTask, SleepFor, Task
<1>6. ~undead'
    BY <1>1, <1>2 DEF Good, AlarmInv, Wakes, Triggers
<1>7. o \in BOOLEAN
    OBVIOUS
<1>8. /\ timer' = [timer EXCEPT ![t] = q] /\ task' = [task EXCEPT ![t] = k]
      /\ orphan' = [orphan EXCEPT ![t] = o]
    BY <1>2
<1> HIDE DEF q, k, o
<1>9. /\ timer' \in [Timers -> Timer] /\ task' \in [Timers -> Task]
      /\ orphan' \in [Timers -> BOOLEAN]
      /\ timer'[t] = q /\ task'[t] = k /\ orphan'[t] = o
    BY <1>4, <1>5, <1>7, <1>8 DEF AlarmInv, Fine, Sound
<1>10. Good(t)'
    BY <1>3, <1>4, <1>5, <1>7, <1>9 DEF Good, Fine, Rung, Waited
<1>11. ASSUME NEW u \in Timers, u # t PROVE Good(u)'
  <2>1. timer'[u] = timer[u] /\ task'[u] = task[u] /\ orphan'[u] = orphan[u]
    BY <1>8, <1>11 DEF AlarmInv
  <2> QED BY <1>3, <2>1, UntouchedKeeps
<1> QED BY <1>3, <1>6, <1>9, <1>10, <1>11 DEF AlarmInv

\* The other timer is changed like by the host; the task of this one, which
\* has woken up, has nothing to wait for.
LEMMA AfterWakeKeeps ==
    ASSUME AlarmInv, NEW t \in Timers, AfterWake(t)
    PROVE  AlarmInv'
<1> DEFINE v == Other(t)
<1>1. v \in Timers /\ v # t /\ \A u \in Timers : u = t \/ u = v
    BY DEF Other, Timers
<1>2. PICK ok \in BOOLEAN :
          timer' = [timer EXCEPT ![v] = IF ok THEN SetTimerWakePolicy(@, Never) ELSE @]
    BY DEF AfterWake
<1>3. /\ task' = [task EXCEPT ![t] = IdleTask] /\ task[t].at = "Woke"
      /\ UNCHANGED <<source, switching, orphan, undead, clockSet>>
    BY DEF AfterWake, history
<1>4. Good(t) /\ Good(v)
    BY <1>1 DEF AlarmInv
<1> DEFINE q == IF ok THEN SetTimerWakePolicy(timer[v], Never) ELSE timer[v]
<1>5. Fine(q, timer[v])
  <2>1. CASE ok
    BY <1>4, <2>1, SetTimerWakePolicyFacts DEF Good
  <2>2. CASE ~ok
    BY <1>4, <2>2 DEF Good, Fine, Told
  <2> QED BY <2>1, <2>2
<1>6. timer' = [timer EXCEPT ![v] = q]
    BY <1>2
<1> HIDE DEF q, v
<1>7. IdleTask \in Task
    BY Values DEF IdleTask, Task
<1>8. /\ timer' \in [Timers -> Timer] /\ task' \in [Timers -> Task]
      /\ timer'[v] = q /\ timer'[t] = timer[t]
      /\ task'[v] = task[v] /\ task'[t] = IdleTask
    BY <1>1, <1>3, <1>5, <1>6, <1>7 DEF AlarmInv, Fine, Sound
<1>9. Good(t)'
    BY <1>3, <1>4, <1>7, <1>8 DEF Good, Waited
<1>10. Good(v)'
  <2>1. Waited(v)'
    BY <1>3, <1>4, <1>5, <1>8 DEF Good, Fine, Waited, Told, Rung, Running
  <2> QED BY <1>3, <1>4, <1>5, <1>8, <2>1 DEF Good, Fine
<1> QED BY <1>1, <1>3, <1>8, <1>9, <1>10 DEF AlarmInv

LEMMA TickKeeps ==
    ASSUME AlarmInv, Tick
    PROVE  AlarmInv'
<1>1. /\ \A t \in Timers : timer[t].signal = Empty
      /\ UNCHANGED <<source, switching, orphan, undead, clockSet>>
    BY DEF Tick, history
<1>2. ASSUME NEW t \in Timers PROVE Good(t)'
  <2> DEFINE l == IF timer[t].left = None THEN None ELSE SaturatingSub(timer[t].left, 1)
             s == IF timer[t].state = "PolicyDelay" /\ timer[t].since < MaxLeft
                  THEN timer[t].since + 1 ELSE timer[t].since
             e == Elapses(task[t].rest)
  <2>1. timer'[t] = [timer[t] EXCEPT !.left = l, !.since = s]
        /\ task'[t] = [task[t] EXCEPT !.rest = e]
    BY DEF Tick
  <2>2. Good(t) /\ timer[t] \in Timer /\ task[t] \in Task
    BY DEF AlarmInv
  <2>3. l \in (0 .. MaxLeft) \cup {None} /\ (l = None <=> timer[t].left = None)
    BY <2>2, NeverNat DEF SaturatingSub, Timer
  <2>4. s \in 0 .. Never
    BY <2>2, NeverNat DEF Timer
  <2>5. e \in 0 .. Never
    BY <2>2, NeverNat DEF Elapses, Task
  <2>6. timer[t].left # None /\ task[t].rest <= timer[t].left => e <= l
    BY <2>2, NeverNat DEF Elapses, SaturatingSub, Timer, Task
  <2> HIDE DEF l, s, e
  <2>7. /\ timer'[t].state = timer[t].state /\ timer'[t].left = l
        /\ timer'[t].signal = timer[t].signal /\ Sound(timer'[t])
    BY <2>1, <2>2, <2>3, <2>4 DEF Good, Sound, Timer
  <2>8. task'[t] \in Task /\ task'[t].at = task[t].at /\ task'[t].rest = e
    BY <2>1, <2>2, <2>5 DEF Task
  <2>9. Waited(t)'
    <3>1. Running(timer[t]) => timer[t].left # None
      BY <2>2 DEF Running, Good, Sound
    <3>2. timer[t].signal = Empty /\ Empty \notin 0 .. Never
      BY <1>1, NeverNat
    <3> QED BY <1>1, <2>2, <2>6, <2>7, <2>8, <3>1, <3>2 DEF Good, Waited, Running
  <2> QED BY <1>1, <2>2, <2>7, <2>8, <2>9 DEF Good
<1>3. timer' \in [Timers -> Timer] /\ task' \in [Timers -> Task]
  <2>1. \A t \in Timers : timer'[t] \in Timer /\ task'[t] \in Task
    BY <1>2 DEF Good, Sound
  <2> QED BY <2>1 DEF Tick
<1> QED BY <1>1, <1>2, <1>3 DEF AlarmInv

LEMMA RestartKeeps ==
    ASSUME AlarmInv, Restart
    PROVE  AlarmInv'
<1>1. /\ timer' = [t \in Timers |-> Start(timer[t].left, timer[t].policy, t = "AC")]
      /\ task' = [t \in Timers |-> IdleTask] /\ orphan' = [t \in Timers |-> FALSE]
      /\ source' = None /\ switching' = None /\ UNCHANGED <<undead, clockSet>>
    BY DEF Restart
<1>2. IdleTask \in Task
    BY Values DEF IdleTask, Task
<1>3. ASSUME NEW t \in Timers PROVE Sound(timer'[t]) /\ Good(t)'
  <2>1. timer[t].left \in (0 .. MaxLeft) \cup {None} /\ timer[t].policy \in Delays \cup {Never}
    BY DEF AlarmInv, Timer
  <2>2. timer'[t] = Start(timer[t].left, timer[t].policy, t = "AC")
    BY <1>1
  <2>3. Sound(timer'[t]) /\ Rung(timer'[t])
    BY <2>1, <2>2, StartFacts
  <2> QED BY <1>1, <1>2, <2>3 DEF Good, Waited, Rung
<1>4. timer' \in [Timers -> Timer] /\ task' \in [Timers -> Task]
    BY <1>1, <1>2, <1>3 DEF Sound
<1> QED BY <1>1, <1>3, <1>4 DEF AlarmInv

LEMMA AlarmStep == AlarmInv /\ [Next]_vars => AlarmInv'
<1> SUFFICES ASSUME AlarmInv, [Next]_vars PROVE AlarmInv'
    OBVIOUS
<1>1. ASSUME NEW t \in Timers, NEW secs \in (0 .. MaxLeft) \cup {None}, SetTimerValue(t, secs)
      PROVE  AlarmInv'
    BY <1>1, SetTimerValueKeeps
<1>2. ASSUME NEW t \in Timers, NEW p \in Delays \cup {Never}, SetExpiredTimerPolicy(t, p)
      PROVE  AlarmInv'
  <2>1. /\ timer' = [timer EXCEPT ![t] = SetTimerWakePolicy(timer[t], p)]
        /\ UNCHANGED <<task, orphan, undead, clockSet>>
        /\ source' \in Timers \cup {None} /\ switching' \in Timers \cup {None}
    BY <1>2 DEF SetExpiredTimerPolicy, history, AlarmInv
  <2>2. Fine(SetTimerWakePolicy(timer[t], p), timer[t])
    BY SetTimerWakePolicyFacts DEF AlarmInv, Good
  <2> QED BY <2>1, <2>2, OperationKeeps
<1>3. ASSUME NEW t \in Timers, ClearWakeStatus(t) PROVE AlarmInv'
  <2>1. /\ timer' = [timer EXCEPT ![t] = ResetStatus(timer[t])]
        /\ UNCHANGED <<task, orphan, undead, clockSet>>
        /\ source' \in Timers \cup {None} /\ switching' \in Timers \cup {None}
    BY <1>3 DEF ClearWakeStatus, history, AlarmInv
  <2>2. Fine(ResetStatus(timer[t]), timer[t])
    BY ResetStatusFacts DEF AlarmInv, Good
  <2> QED BY <2>1, <2>2, OperationKeeps
<1>4. ASSUME NEW t \in Timers, PowerSourceChanges(t) PROVE AlarmInv'
  <2>1. UNCHANGED <<timer, task, switching, orphan, undead, clockSet>> /\ source' = t
    BY <1>4 DEF PowerSourceChanges, history
  <2>2. \A u \in Timers : Good(u)'
    BY <2>1, UntouchedKeeps
  <2> QED BY <2>1, <2>2 DEF AlarmInv
<1>5. ASSUME NEW t \in Timers, TaskStep(t) PROVE AlarmInv'
    BY <1>5, TakeSignalKeeps, SleepOverKeeps, AfterWakeKeeps DEF TaskStep
<1>6. ASSUME NEW d \in {-1, 1}, SetRealTime(d) PROVE AlarmInv'
    BY <1>6, SetRealTimeKeeps
<1>7. CASE LeaveSource \/ EnterSource
    BY <1>7, PowerSourceKeeps
<1>8. CASE Tick
    BY <1>8, TickKeeps
<1>9. CASE Restart
    BY <1>9, RestartKeeps
<1>10. CASE UNCHANGED vars
  <2>1. UNCHANGED <<timer, task, source, switching, orphan, undead, clockSet>>
    BY <1>10 DEF vars, history
  <2>2. \A u \in Timers : Good(u)'
    BY <2>1, UntouchedKeeps
  <2> QED BY <2>1, <2>2 DEF AlarmInv
<1> QED BY <1>1, <1>2, <1>3, <1>4, <1>5, <1>6, <1>7, <1>8, <1>9, <1>10 DEF Next

LEMMA AlarmInvariant == Spec => []AlarmInv
<1> QED BY AlarmInit, AlarmStep, PTL DEF Spec

\* Whatever the host, the power source, the clock and a restart do, and in
\* whatever order, a timer waits for its power source only while it is off it,
\* runs down its policy delay (WakeState::ExpiredWaitingForPolicyDelay) only
\* while it is on it, and has an expiration time exactly until it is cleared.
THEOREM StateMatchesSourceHolds == Spec => []StateMatchesSource
BY AlarmInvariant, AlarmInvImplies, PTL

\* No overwritten Signal and no race of a timer's task with a call loses an
\* alarm or makes it late, and a timer that expires on the wrong power source
\* under AlarmExpiredWakePolicy::NEVER stays silent until it is set again.
THEOREM AlarmsKeptHolds == Spec => []AlarmsKept
BY AlarmInvariant, AlarmInvImplies, PTL
=============================================================================
