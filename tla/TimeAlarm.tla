----------------------------- MODULE TimeAlarm -----------------------------
(***************************************************************************)
(* The time-alarm service (time-alarm-service/src/timer.rs and lib.rs): an *)
(* AC and a DC wake timer, each with a task that sleeps until the timer    *)
(* expires, and calls of the host in between.                              *)
(*                                                                         *)
(* A timer that expires while the system runs on the other power source    *)
(* waits for its own source and then for the policy delay.  The task is    *)
(* driven by a Signal, which keeps only the last value given to it.        *)
(*                                                                         *)
(* Times are relative: `left` is the time to the expiration time in        *)
(* storage, by the real-time clock; `since` is the time since the policy   *)
(* delay started to run.  The task sleeps by another clock, which the host *)
(* cannot set.  Expiration time and policy are in NVRAM and survive a      *)
(* restart; the rest does not.  Integers are u32, here of Width bits.      *)
(***************************************************************************)
EXTENDS Integers

CONSTANTS
    None, Empty, Stop,
    Width,                     \* bits of an u32
    MaxLeft,                   \* the longest alarm the host sets
    Delays,                    \* the policy delays it sets, besides NEVER
    Kinds,                     \* the calls and events a run explores
    MaxCalls, MaxFaults        \* bounds

\* AlarmExpiredWakePolicy::NEVER, AlarmTimerSeconds::DISABLED
Never == 2^Width - 1

ASSUME TimeAlarmAssumption ==
    /\ Width \in Nat \ {0} /\ MaxLeft \in 0 .. Never - 1 /\ Delays \subseteq 0 .. Never - 1
    /\ {None, Empty, Stop} \cap Int = {} /\ MaxCalls \in Nat /\ MaxFaults \in Nat

Timers == {"AC", "DC"}
Other(t) == IF t = "AC" THEN "DC" ELSE "AC"

\* The value in a timer's Signal: nothing (Empty), None (Stop) or Some(seconds).
Signals == {Empty, Stop} \cup (0 .. Never)
WakeStates == {"Clear", "Armed", "PolicyDelay", "PowerSource", "Orphaned"}
Timer == [left : (0 .. MaxLeft) \cup {None}, policy : Delays \cup {Never},
          state : WakeStates, since : 0 .. Never, elapsed : 0 .. Never,
          expired : BOOLEAN, woke : BOOLEAN, active : BOOLEAN, signal : Signals]
Task == [at : {"Idle", "Sleep", "Woke"}, duration : 0 .. Never, rest : 0 .. Never]

VARIABLES
    timer, task,
    source, switching,   \* power_source_signal, and the source being switched to
    orphan,              \* history: expired on the wrong source with policy NEVER
    undead,              \* history: woke as an orphan
    clockSet,            \* history: the real-time clock was set
    calls, faults

history == <<orphan, undead, clockSet>>
vars == <<timer, task, source, switching, history, calls, faults>>

-----------------------------------------------------------------------------
(* Operations on one timer.                                                 *)

ClearExpirationTime(r) == [r EXCEPT !.left = None, !.state = "Clear", !.signal = Stop]

\* The status is reset first, even if reading the clock then fails.
ResetStatus(r) == [r EXCEPT !.expired = FALSE, !.woke = FALSE]

\* Mutant of SetExpirationTime: the task is not told.
SetExpirationTimeSilent(r, secs) ==
    IF secs = None THEN ClearExpirationTime(ResetStatus(r))
    ELSE [ResetStatus(r) EXCEPT !.left = secs, !.state = "Armed"]

SetExpirationTime(r, secs) ==
    IF secs = None THEN ClearExpirationTime(ResetStatus(r))
    ELSE [ResetStatus(r) EXCEPT !.left = secs, !.state = "Armed", !.signal = secs]

\* A running policy delay starts again.
SetTimerWakePolicy(r, p) ==
    IF r.state = "PolicyDelay"
    THEN [r EXCEPT !.policy = p, !.since = 0, !.elapsed = 0, !.signal = p]
    ELSE [r EXCEPT !.policy = p]

SaturatingSub(a, b) == IF a > b THEN a - b ELSE 0

\* now() fails in none or all of the clock reads of one call (ok).
Activated(r, ok) ==
    IF r.state # "PowerSource" THEN r
    ELSE IF ok THEN [r EXCEPT !.state = "PolicyDelay", !.since = 0,
                              !.signal = SaturatingSub(r.policy, r.elapsed)]
    ELSE [r EXCEPT !.state = "Armed", !.signal = 0]

Deactivated(r, ok) ==
    IF r.state # "PolicyDelay" THEN r
    ELSE [r EXCEPT !.state = "PowerSource", !.signal = Stop,
                   !.elapsed = IF ok THEN (@ + r.since) % 2^Width ELSE Never]

\* Mutant: a timer that runs down its policy delay is left running.
SetActiveNoStop(r, active, ok) ==
    IF r.active = active THEN r
    ELSE [(IF active THEN Activated(r, ok) ELSE r) EXCEPT !.active = active]

SetActive(r, active, ok) ==
    IF r.active = active THEN r
    ELSE [(IF active THEN Activated(r, ok) ELSE Deactivated(r, ok)) EXCEPT !.active = active]

\* process_expired_timer.
Triggers(r) == r.state \in {"Armed", "PolicyDelay"} /\ r.left # None
NotYet(r, ok) == Triggers(r) /\ ok /\ r.left > 0
Wakes(r, ok) == Triggers(r) /\ ~NotYet(r, ok) /\ r.active
\* Mutant: policy NEVER is not looked at when the timer expires.
ProcessExpiredAnyPolicy(r, ok) ==
    CASE ~Triggers(r) -> r
      [] NotYet(r, ok) -> [r EXCEPT !.state = "Armed", !.signal = r.left]
      [] Wakes(r, ok) ->
           ClearExpirationTime([r EXCEPT !.expired = TRUE, !.woke = TRUE, !.policy = Never])
      [] OTHER -> [r EXCEPT !.expired = TRUE, !.state = "PowerSource", !.elapsed = 0]

ProcessExpired(r, ok) ==
    CASE ~Triggers(r) -> r
      [] NotYet(r, ok) -> [r EXCEPT !.state = "Armed", !.signal = r.left]
      [] Wakes(r, ok) ->
           ClearExpirationTime([r EXCEPT !.expired = TRUE, !.woke = TRUE, !.policy = Never])
      [] OTHER ->
           [r EXCEPT !.expired = TRUE,
                     !.state = IF r.policy = Never THEN "Orphaned" ELSE "PowerSource",
                     !.elapsed = IF r.policy # Never /\ r.state = "PolicyDelay"
                                 THEN r.policy ELSE 0]

\* Timer::new followed by Timer::start, from what NVRAM holds.
NewTimer(left, policy) ==
    [left |-> left, policy |-> policy, state |-> "Clear", since |-> 0, elapsed |-> 0,
     expired |-> FALSE, woke |-> FALSE, active |-> FALSE, signal |-> Empty]
Start(left, policy, active) ==
    SetActive(SetExpirationTime(SetTimerWakePolicy(NewTimer(left, policy), policy), left),
              active, TRUE)

IdleTask == [at |-> "Idle", duration |-> 0, rest |-> 0]
SleepFor(n) == [at |-> "Sleep", duration |-> n, rest |-> n]

-----------------------------------------------------------------------------
(* The service.                                                             *)

Init ==
    /\ timer = [t \in Timers |-> Start(None, Never, t = "AC")]
    /\ task = [t \in Timers |-> IdleTask]
    /\ source = None /\ switching = None
    /\ orphan = [t \in Timers |-> FALSE] /\ undead = FALSE
    /\ clockSet = FALSE /\ calls = 0 /\ faults = 0

Call(kind) == kind \in Kinds /\ calls < MaxCalls /\ calls' = calls + 1
Ok(ok) == IF ok THEN UNCHANGED faults ELSE faults < MaxFaults /\ faults' = faults + 1

\* _STV; None stands for DISABLED.  The second read of the clock may fail.
SetTimerValue(t, secs) ==
    /\ Call("timer")
    /\ \E ok \in BOOLEAN :
          /\ Ok(ok) /\ (secs = None => ok)
          /\ timer' = [timer EXCEPT ![t] = IF ok THEN SetExpirationTime(@, secs)
                                           ELSE ResetStatus(@)]
          /\ orphan' = [orphan EXCEPT ![t] = @ /\ ~ok]
    /\ UNCHANGED <<task, source, switching, undead, clockSet>>

\* _STP; a failing clock leaves the policy as it is.
SetExpiredTimerPolicy(t, p) ==
    /\ Call("policy")
    /\ timer' = [timer EXCEPT ![t] = SetTimerWakePolicy(@, p)]
    /\ UNCHANGED <<task, source, switching, history, faults>>

\* _CWS
ClearWakeStatus(t) ==
    /\ Call("status")
    /\ timer' = [timer EXCEPT ![t] = ResetStatus(@)]
    /\ UNCHANGED <<task, source, switching, history, faults>>

Shifted(r, d) ==
    [r EXCEPT !.left = IF @ = None THEN None ELSE IF @ + d > MaxLeft THEN MaxLeft
                       ELSE SaturatingSub(@ + d, 0),
              !.since = IF d < 0 THEN @ + 1 ELSE SaturatingSub(@, d)]

\* _SRT: the clock is set forward (d < 0 is less time left) or back.
SetRealTime(d) ==
    /\ Call("clock")
    /\ \A t \in Timers : timer[t].since < Never
    /\ timer' = [t \in Timers |-> Shifted(timer[t], d)]
    /\ clockSet' = TRUE
    /\ UNCHANGED <<task, source, switching, orphan, undead, faults>>

\* The power source changes (external); the signal keeps the last one.
PowerSourceChanges(t) ==
    /\ Call("power")
    /\ source' = t
    /\ UNCHANGED <<timer, task, switching, history, faults>>

\* handle_power_source_updates, one timer after the other.
LeaveSource ==
    /\ source # None /\ switching = None
    /\ \E ok \in BOOLEAN :
          /\ Ok(ok)
          /\ timer' = [timer EXCEPT ![Other(source)] = SetActive(@, FALSE, ok)]
    /\ switching' = source /\ source' = None
    /\ UNCHANGED <<task, history, calls>>

EnterSource ==
    /\ switching # None
    /\ \E ok \in BOOLEAN :
          /\ Ok(ok)
          /\ timer' = [timer EXCEPT ![switching] = SetActive(@, TRUE, ok)]
    /\ switching' = None
    /\ UNCHANGED <<task, source, history, calls>>

\* wait_until_wake: a new duration, or None, from the signal.
TakeSignal(t) ==
    /\ task[t].at \in {"Idle", "Sleep"} /\ timer[t].signal # Empty
    /\ timer' = [timer EXCEPT ![t].signal = Empty]
    /\ task' = [task EXCEPT ![t] = IF timer[t].signal = Stop THEN IdleTask
                                   ELSE SleepFor(timer[t].signal)]
    /\ UNCHANGED <<source, switching, history, calls, faults>>

\* The sleep is over.  Unless the timer wakes the host, the task sleeps again.
SleepOver(t) ==
    /\ task[t].at = "Sleep" /\ task[t].rest = 0
    /\ LET r == timer[t] IN \E ok \in BOOLEAN :
       /\ Ok(ok)
       /\ timer' = [timer EXCEPT ![t] = ProcessExpired(r, ok)]
       /\ task' = [task EXCEPT ![t] = IF Wakes(r, ok) THEN [IdleTask EXCEPT !.at = "Woke"]
                                      ELSE SleepFor(@.duration)]
       /\ orphan' = [orphan EXCEPT ![t] = @ \/ (/\ Triggers(r) /\ ~NotYet(r, ok)
                                               /\ ~r.active /\ r.policy = Never)]
       /\ undead' = (undead \/ (Wakes(r, ok) /\ orphan[t]))
    /\ UNCHANGED <<source, switching, clockSet, calls>>

\* handle_timer after a wake: the other timer's policy becomes NEVER, unless
\* its policy delay runs and the clock fails.
AfterWake(t) ==
    /\ task[t].at = "Woke"
    /\ \E ok \in BOOLEAN :
          /\ Ok(ok) /\ (timer[Other(t)].state # "PolicyDelay" => ok)
          /\ timer' = [timer EXCEPT ![Other(t)] = IF ok THEN SetTimerWakePolicy(@, Never) ELSE @]
    /\ task' = [task EXCEPT ![t] = IdleTask]
    /\ UNCHANGED <<source, switching, history, calls>>

Elapses(n) == IF n \in {0, Never} THEN n ELSE n - 1

\* A second goes by, long enough for a task to take its signal first.  Durations
\* of NEVER do not end.
Tick ==
    /\ \A t \in Timers : timer[t].signal = Empty
    /\ timer' = [t \in Timers |->
                   [timer[t] EXCEPT !.left = IF @ = None THEN None ELSE SaturatingSub(@, 1),
                                    !.since = IF timer[t].state = "PolicyDelay" /\ @ < MaxLeft
                                              THEN @ + 1 ELSE @]]
    /\ task' = [t \in Timers |-> [task[t] EXCEPT !.rest = Elapses(@)]]
    /\ UNCHANGED <<source, switching, history, calls, faults>>

\* The controller restarts: AC is assumed, and everything but NVRAM is lost.
Restart ==
    /\ Call("restart")
    /\ timer' = [t \in Timers |-> Start(timer[t].left, timer[t].policy, t = "AC")]
    /\ task' = [t \in Timers |-> IdleTask]
    /\ source' = None /\ switching' = None
    /\ orphan' = [t \in Timers |-> FALSE]
    /\ UNCHANGED <<undead, clockSet, faults>>

TaskStep(t) == TakeSignal(t) \/ SleepOver(t) \/ AfterWake(t)

Next ==
    \/ \E t \in Timers :
          \/ \E secs \in (0 .. MaxLeft) \cup {None} : SetTimerValue(t, secs)
          \/ \E p \in Delays \cup {Never} : SetExpiredTimerPolicy(t, p)
          \/ ClearWakeStatus(t) \/ PowerSourceChanges(t)
          \/ TaskStep(t)
    \/ \E d \in {-1, 1} : SetRealTime(d)
    \/ LeaveSource \/ EnterSource \/ Tick \/ Restart

Spec == Init /\ [][Next]_vars

\* Time goes on, and the executor runs the service's tasks.
FairSpec ==
    /\ Spec
    /\ WF_vars(Tick) /\ WF_vars(LeaveSource) /\ WF_vars(EnterSource)
    /\ \A t \in Timers : WF_vars(TaskStep(t))

-----------------------------------------------------------------------------
(* Properties.                                                              *)

\* Types of the timers, their tasks and the power source.
TypeOK ==
    /\ timer \in [Timers -> Timer] /\ task \in [Timers -> Task]
    /\ source \in Timers \cup {None} /\ switching \in Timers \cup {None}

\* A timer waits for its power source only while it is off it and runs down its
\* policy delay only while it is on it, and it keeps its expiration time until
\* it is cleared or wakes the host (the states of timer.rs:11).
StateMatchesSource ==
    TypeOK /\ \A t \in Timers : LET r == timer[t] IN
        /\ r.state = "PowerSource" => ~r.active
        /\ r.state = "PolicyDelay" => r.active
        /\ (r.left = None) <=> (r.state = "Clear")

\* A timer that is still to expire is always being waited for, and as long as
\* nobody sets the clock its task wakes up no later than the timer is due:
\* overwriting a Signal never loses an alarm.
NeverLate ==
    \A t \in Timers : LET r == timer[t] IN
        r.state \in {"Armed", "PolicyDelay"} =>
            \/ r.signal \in 0 .. Never
            \/ /\ r.signal = Empty /\ task[t].at = "Sleep"
               /\ r.state = "Armed" /\ ~clockSet => task[t].rest <= r.left

\* "The timer will never trigger a wake event if it expires on the wrong power
\* source, even if it later switches to the correct power source" with policy
\* NEVER, until the host sets it again (time-alarm-service-interface lib.rs:35) or
\* the controller restarts, which arms every stored timer again.
NeverIsNever == ~undead

\* The alarm goes off neither late nor, with policy NEVER, at all.
AlarmsKept == NeverLate /\ NeverIsNever

\* A timer on its power source goes off, unless it is cleared, the power source
\* changes or its policy is NEVER.
AlarmGoesOff ==
    \A t \in Timers :
        []<>(\/ timer[t].state \notin {"Armed", "PolicyDelay"}
             \/ ~timer[t].active
             \/ timer[t].policy = Never)
=============================================================================
