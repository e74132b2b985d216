----------------------------- MODULE ThermalFan -----------------------------
(***************************************************************************)
(* The fan of thermal-service: auto control follows the temperature of a   *)
(* sensor, sampling reads the speed, and the host sets a speed or switches *)
(* auto control on.  All three share the driver behind a mutex: a call     *)
(* takes the lock, awaits the driver, and goes on without a further await  *)
(* that could suspend.                                                     *)
(***************************************************************************)
EXTENDS Integers, Sequences

CONSTANTS
    None,
    Temps,              \* temperatures, of the sensor and in Config
    Hysteresis,         \* Config::hysteresis
    MinRpm, MaxRpm,     \* the driver's min_start_rpm and max_rpm
    InitialConfig,      \* min_temp, ramp_temp and max_temp at the start
    HostRpms,           \* speeds the host sets; 0 is stop
    MaxChanges          \* bound on temperature changes, host calls and failures

OnState == {"Min", "Ramping", "Max"}
State == {"Off"} \cup OnState

VARIABLES
    temp,       \* SensorService::temperature
    cfg,        \* min_temp, ramp_temp and max_temp of Config
    auto,       \* Config::auto_control
    state,      \* the fan's State
    speed,      \* the speed of the fan
    signal,     \* en_signal
    driver,     \* who holds the lock of the driver
    pc, plan,   \* auto control, and the call of the driver it decided on
    call,       \* the call the host waits for
    manual,     \* history: the speed of the host's last call, None under auto control
    disturbed,  \* history: a call failed, or auto control had a plan when the host's call ended
    changes

driverVars == <<speed, driver>>
worldVars == <<temp, cfg, changes>>
fanVars == <<worldVars, auto, state, driverVars, signal, pc, plan, call, manual, disturbed>>

Init ==
    /\ temp \in Temps /\ cfg = InitialConfig
    /\ auto \in BOOLEAN /\ state = "Off" /\ speed = 0
    /\ signal = FALSE /\ driver = None
    /\ pc = "top" /\ plan = None /\ call = None
    /\ manual = None /\ disturbed = FALSE
    /\ changes = 0

Change == changes < MaxChanges /\ changes' = changes + 1

-----------------------------------------------------------------------------
(* What auto control decides.                                              *)

\* Runner::ramp_response.
Ramp(t) ==
    IF t <= cfg["Ramping"] THEN MinRpm
    ELSE IF t >= cfg["Max"] THEN MaxRpm
    ELSE MinRpm + ((t - cfg["Ramping"]) * (MaxRpm - MinRpm)) \div (cfg["Max"] - cfg["Ramping"])

\* The call of the driver by which change_state enters a state.
Enter(s) ==
    [to |-> s,
     rpm |-> CASE s = "Off" -> 0 [] s = "Min" -> MinRpm [] s = "Ramping" -> None [] s = "Max" -> MaxRpm]

\* handle_fan_state, and the handlers of the four states.
Decide(t) ==
    CASE state = "Off" /\ t >= cfg["Min"] -> Enter("Min")
      [] state = "Min" /\ t < cfg["Min"] - Hysteresis -> Enter("Off")
      [] state = "Min" /\ t >= cfg["Ramping"] /\ t >= cfg["Min"] - Hysteresis -> Enter("Ramping")
      [] state = "Ramping" /\ t < cfg["Ramping"] - Hysteresis -> Enter("Min")
      [] state = "Ramping" /\ t >= cfg["Max"] /\ t >= cfg["Ramping"] - Hysteresis -> Enter("Max")
      [] state = "Ramping" /\ t < cfg["Max"] /\ t >= cfg["Ramping"] - Hysteresis -> [to |-> None, rpm |-> Ramp(t)]
      [] state = "Max" /\ t < cfg["Max"] - Hysteresis -> Enter("Ramping")
      [] OTHER -> None

-----------------------------------------------------------------------------
(* Auto control: handle_auto_control.                                      *)

Top ==
    /\ pc = "top"
    /\ plan' = IF auto THEN Decide(temp) ELSE None
    /\ pc' = IF ~auto THEN "off" ELSE IF Decide(temp) = None THEN "sleep" ELSE "lock"
    /\ UNCHANGED <<worldVars, auto, state, driverVars, signal, call, manual, disturbed>>

Lock ==
    /\ pc = "lock" /\ driver = None
    /\ driver' = "auto" /\ pc' = "drive"
    /\ UNCHANGED <<worldVars, auto, state, speed, signal, plan, call, manual, disturbed>>

\* The driver has done it; the state follows.
Drive ==
    /\ pc = "drive"
    /\ driver' = None
    /\ speed' = IF plan.rpm = None THEN speed ELSE plan.rpm
    /\ state' = IF plan.to = None THEN state ELSE plan.to
    /\ pc' = "sleep" /\ plan' = None
    /\ UNCHANGED <<worldVars, auto, signal, call, manual, disturbed>>

\* The driver fails: auto control is switched off and a Failure event sent.
DriveFailed ==
    /\ pc = "drive" /\ plan.rpm # None
    /\ Change
    /\ driver' = None
    /\ speed' \in {speed, plan.rpm}
    /\ auto' = FALSE /\ manual' = None /\ disturbed' = TRUE
    /\ pc' = "sleep" /\ plan' = None
    /\ UNCHANGED <<temp, cfg, state, signal, call>>

SleepOver ==
    /\ pc = "sleep"
    /\ pc' = "top"
    /\ UNCHANGED <<worldVars, auto, state, driverVars, signal, plan, call, manual, disturbed>>

\* en_signal.wait() returns.
Enabled ==
    /\ pc = "off" /\ signal
    /\ signal' = FALSE /\ pc' = "top"
    /\ UNCHANGED <<worldVars, auto, state, driverVars, plan, call, manual, disturbed>>

-----------------------------------------------------------------------------
(* Sampling: handle_sampling.                                              *)

SampleLock ==
    /\ driver = None
    /\ driver' = "sampling"
    /\ UNCHANGED <<worldVars, auto, state, speed, signal, pc, plan, call, manual, disturbed>>

\* The sample is kept for the host to read, or there is an error; nothing else
\* depends on it.
SampleDone ==
    /\ driver = "sampling"
    /\ driver' = None
    /\ UNCHANGED <<worldVars, auto, state, speed, signal, pc, plan, call, manual, disturbed>>

-----------------------------------------------------------------------------
(* The host.                                                               *)

\* set_rpm, set_duty_percent and stop; and enable_auto_control, which stops too.
Calls == [op : {"set"}, rpm : HostRpms] \cup [op : {"auto"}, rpm : {0}]

Call(c) ==
    /\ Change
    /\ call = None
    /\ call' = c
    /\ UNCHANGED <<temp, cfg, auto, state, driverVars, signal, pc, plan, manual, disturbed>>

CallLock ==
    /\ call # None /\ driver = None
    /\ driver' = "host"
    /\ UNCHANGED <<worldVars, auto, state, speed, signal, pc, plan, call, manual, disturbed>>

\* Mutant of SetSpeed: auto control stays on.
SetSpeedAuto ==
    /\ driver = "host" /\ call.op = "set"
    /\ driver' = None /\ speed' = call.rpm /\ call' = None
    /\ manual' = call.rpm /\ disturbed' = (plan # None)
    /\ UNCHANGED <<worldVars, auto, state, signal, pc, plan>>

SetSpeed ==
    /\ driver = "host" /\ call.op = "set"
    /\ driver' = None /\ speed' = call.rpm /\ call' = None
    /\ auto' = FALSE
    /\ manual' = call.rpm /\ disturbed' = (plan # None)
    /\ UNCHANGED <<worldVars, state, signal, pc, plan>>

\* change_state(Off), then the configuration and the signal.
EnableAutoControl ==
    /\ driver = "host" /\ call.op = "auto"
    /\ driver' = None /\ speed' = call.rpm /\ state' = "Off" /\ call' = None
    /\ auto' = TRUE /\ signal' = TRUE
    /\ manual' = None /\ disturbed' = (plan # None)
    /\ UNCHANGED <<worldVars, pc, plan>>

CallFailed ==
    /\ driver = "host"
    /\ Change
    /\ driver' = None /\ call' = None
    /\ speed' \in {speed, call.rpm}
    /\ disturbed' = TRUE
    /\ UNCHANGED <<temp, cfg, auto, state, signal, pc, plan, manual>>

SetStateTemp(s, t) ==
    /\ Change
    /\ cfg' = [cfg EXCEPT ![s] = t]
    /\ UNCHANGED <<temp, auto, state, driverVars, signal, pc, plan, call, manual, disturbed>>

Heat(t) ==
    /\ Change
    /\ temp' = t /\ t # temp
    /\ UNCHANGED <<cfg, auto, state, driverVars, signal, pc, plan, call, manual, disturbed>>

-----------------------------------------------------------------------------
AutoControl == Top \/ Lock \/ Drive \/ SleepOver \/ Enabled
Host == CallLock \/ SetSpeed \/ EnableAutoControl

Next ==
    \/ AutoControl \/ DriveFailed
    \/ SampleLock \/ SampleDone
    \/ Host \/ CallFailed
    \/ \E c \in Calls : Call(c)
    \/ \E s \in OnState, t \in Temps : SetStateTemp(s, t)
    \/ \E t \in Temps : Heat(t)

\* Tasks run and driver calls end; the mutex, which the others
\* hold for one driver call at a time, lets auto control in now and then.
Fairness ==
    /\ SF_fanVars(Lock)
    /\ WF_fanVars(Top \/ Drive \/ SleepOver \/ Enabled)
    /\ WF_fanVars(SetSpeed \/ EnableAutoControl) /\ WF_fanVars(SampleDone)

Spec == Init /\ [][Next]_fanVars /\ Fairness

-----------------------------------------------------------------------------
(* Properties.                                                             *)

TypeOK ==
    /\ temp \in Temps /\ cfg \in [OnState -> Temps]
    /\ auto \in BOOLEAN /\ signal \in BOOLEAN /\ disturbed \in BOOLEAN
    /\ state \in State /\ speed \in 0 .. MaxRpm
    /\ driver \in {None, "auto", "sampling", "host"}
    /\ pc \in {"top", "lock", "drive", "sleep", "off"}

\* The fan runs at the speed the host set last, or at one that belongs to the
\* state of auto control.  Left out: a call that failed, and a host call that
\* ended while auto control waited for the driver with its decision made.
SpeedObeys ==
    ~disturbed =>
        /\ manual # None => speed = manual /\ ~auto
        /\ manual = None => CASE state = "Off" -> speed = 0
                              [] state = "Min" -> speed = MinRpm
                              [] state = "Ramping" -> speed \in MinRpm .. MaxRpm
                              [] state = "Max" -> speed = MaxRpm

\* A state of auto control that a temperature leaves as it is.
Settled ==
    CASE state = "Off" -> temp < cfg["Min"]
      [] state = "Min" -> temp >= cfg["Min"] - Hysteresis /\ temp < cfg["Ramping"]
      [] state = "Ramping" -> /\ temp >= cfg["Ramping"] - Hysteresis /\ temp < cfg["Max"]
                              /\ speed = Ramp(temp)
      [] state = "Max" -> temp >= cfg["Max"] - Hysteresis

\* Under auto control the fan ends up in a state that fits the temperature, and
\* in the ramp at the speed for it, whatever the thresholds are set to.
FanSettles == <>[](auto => Settled)
=============================================================================
