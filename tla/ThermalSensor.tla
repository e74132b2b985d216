--------------------------- MODULE ThermalSensor ---------------------------
(***************************************************************************)
(* The temperature sensor of thermal-service: a task samples the driver    *)
(* with retries, keeps the last samples and reports thresholds that are    *)
(* exceeded and cleared, while the host sets thresholds and switches        *)
(* sampling on and off.  Between two bus accesses the task runs to its next *)
(* await; sample periods are abstract.                                      *)
(***************************************************************************)
EXTENDS Integers, Sequences

CONSTANTS
    Temps,          \* temperatures and threshold values
    InitialConfig,  \* the thresholds in use and their values at the start
    Offset,         \* Config::offset
    Hysteresis,     \* Config::hysteresis
    Retries,        \* Config::retry_attempts
    SampleBufLen,   \* SAMPLE_BUF_LEN
    EventRoom,      \* room in the channel of the listener
    MaxChanges      \* bound on temperature changes, host calls and bus errors

Thresholds == DOMAIN InitialConfig
Event == {"ThresholdExceeded", "ThresholdCleared"} \X Thresholds \cup {<<"Failure", "RetryExhausted">>}

VARIABLES
    heat,       \* the temperature the driver measures
    enabled,    \* Config::sampling_enabled
    threshold,  \* the thresholds of Config
    signal,     \* en_signal
    samples,    \* SampleBuf, the newest sample first
    exceeded,   \* runner State: the thresholds of its is_... flags that are set
    pc,         \* where the runner is
    tries,      \* retry_attempts left
    channel,    \* events on their way to the listener
    told,       \* history: thresholds the listener was told are exceeded
    missed,     \* history: thresholds whose last event found the channel full
    moved,      \* history: thresholds set since the last sample
    owed,       \* history: the host switched sampling on and heard of no failure since
    changes

config == <<enabled, threshold, signal>>
listener == <<told, missed, owed>>
sensorVars == <<heat, config, samples, exceeded, pc, tries, channel, listener, moved, changes>>

Init ==
    /\ heat \in Temps
    /\ enabled \in BOOLEAN /\ signal = FALSE
    /\ threshold = InitialConfig
    /\ samples = << >> /\ exceeded = {}
    /\ pc = "top" /\ tries = 0
    /\ channel = << >> /\ told = {} /\ missed = {}
    /\ moved = {} /\ owed = enabled
    /\ changes = 0

Change == changes < MaxChanges /\ changes' = changes + 1

-----------------------------------------------------------------------------
(* The host, and the world.                                                *)

Heat(h) ==
    /\ Change
    /\ heat' = h /\ h \in {heat - 1, heat + 1}
    /\ UNCHANGED <<config, samples, exceeded, pc, tries, channel, listener, moved>>

SetThreshold(t, v) ==
    /\ Change
    /\ threshold' = [threshold EXCEPT ![t] = v]
    /\ moved' = moved \cup {t}
    /\ UNCHANGED <<heat, enabled, signal, samples, exceeded, pc, tries, channel, listener>>

EnableSampling ==
    /\ Change
    /\ enabled' = TRUE /\ signal' = TRUE /\ owed' = TRUE
    /\ UNCHANGED <<heat, threshold, samples, exceeded, pc, tries, channel, told, missed, moved>>

DisableSampling ==
    /\ Change
    /\ enabled' = FALSE /\ owed' = FALSE
    /\ UNCHANGED <<heat, threshold, signal, samples, exceeded, pc, tries, channel, told, missed, moved>>

\* The listener takes an event.
Listen ==
    /\ channel # << >>
    /\ channel' = Tail(channel)
    /\ LET e == Head(channel)
       IN  /\ told' = CASE e[1] = "ThresholdExceeded" -> told \cup {e[2]}
                        [] e[1] = "ThresholdCleared" -> told \ {e[2]}
                        [] OTHER -> told
           /\ owed' = (owed /\ e[1] # "Failure")
    /\ UNCHANGED <<heat, config, samples, exceeded, pc, tries, missed, moved, changes>>

-----------------------------------------------------------------------------
(* The runner.                                                             *)

\* SampleBuf::push.
Push(buf, x) == SubSeq(<<x>> \o buf, 1, IF Len(buf) < SampleBufLen THEN Len(buf) + 1 ELSE SampleBufLen)

\* broadcast_event for each event in turn: one that does not fit is dropped.
Broadcast(events) ==
    LET room == EventRoom - Len(channel)
        kept == IF Len(events) < room THEN Len(events) ELSE room
    IN  /\ channel' = channel \o SubSeq(events, 1, kept)
        /\ missed' = (missed \ {events[i][2] : i \in 1 .. kept})
                       \cup {events[i][2] : i \in kept + 1 .. Len(events)}

IsExceeded(t, temp) == IF t = "WarnLow" THEN temp <= threshold[t] ELSE temp >= threshold[t]

\* Mutant of IsCleared: no hysteresis above the low threshold.
IsClearedAtOnce(t, temp) ==
    IF t = "WarnLow" THEN temp > threshold[t] - Hysteresis ELSE temp < threshold[t] - Hysteresis

IsCleared(t, temp) ==
    IF t = "WarnLow" THEN temp > threshold[t] + Hysteresis ELSE temp < threshold[t] - Hysteresis

\* The event check_thresholds raises for one threshold in use, if any.
ThresholdEvent(t, temp) ==
    IF t \notin Thresholds THEN << >>
    ELSE IF t \notin exceeded /\ IsExceeded(t, temp) THEN << <<"ThresholdExceeded", t>> >>
    ELSE IF t \in exceeded /\ IsCleared(t, temp) THEN << <<"ThresholdCleared", t>> >>
    ELSE << >>

CheckThresholds(temp) ==
    /\ Broadcast(ThresholdEvent("WarnHigh", temp) \o ThresholdEvent("WarnLow", temp)
                    \o ThresholdEvent("Prochot", temp) \o ThresholdEvent("Critical", temp))
    /\ exceeded' = {t \in Thresholds :
                       IF t \in exceeded THEN ~IsCleared(t, temp) ELSE IsExceeded(t, temp)}

\* The top of the loop: sampling starts, or the runner waits to be enabled.
Top ==
    /\ pc = "top"
    /\ pc' = IF enabled THEN "bus" ELSE "off"
    /\ tries' = IF enabled THEN Retries ELSE tries
    /\ UNCHANGED <<heat, config, samples, exceeded, channel, listener, moved, changes>>

\* The driver answers in time.
Sample ==
    /\ pc = "bus" /\ tries > 0
    /\ LET temp == heat + Offset
       IN  samples' = Push(samples, temp) /\ CheckThresholds(temp)
    /\ moved' = {}
    /\ pc' = "sleep"
    /\ UNCHANGED <<heat, config, tries, told, owed, changes>>

\* The driver fails, or BUS_TIMEOUT passes.
BusError ==
    /\ pc = "bus" /\ tries > 0
    /\ Change
    /\ tries' = tries - 1
    /\ UNCHANGED <<heat, config, samples, exceeded, pc, channel, listener, moved>>

\* The last retry failed: sampling is switched off, whatever the host set since.
RetryExhausted ==
    /\ pc = "bus" /\ tries = 0
    /\ enabled' = FALSE
    /\ Broadcast(<< <<"Failure", "RetryExhausted">> >>)
    /\ pc' = "top"
    /\ UNCHANGED <<heat, threshold, signal, samples, exceeded, tries, told, moved, owed, changes>>

SleepOver ==
    /\ pc = "sleep"
    /\ pc' = "top"
    /\ UNCHANGED <<heat, config, samples, exceeded, tries, channel, listener, moved, changes>>

\* en_signal.wait() returns.
Enabled ==
    /\ pc = "off" /\ signal
    /\ signal' = FALSE
    /\ pc' = "top"
    /\ UNCHANGED <<heat, enabled, threshold, samples, exceeded, tries, channel, listener, moved, changes>>

Runner == Top \/ Sample \/ RetryExhausted \/ SleepOver \/ Enabled

Next ==
    \/ \E h \in Temps : Heat(h)
    \/ \E t \in Thresholds, v \in Temps : SetThreshold(t, v)
    \/ EnableSampling \/ DisableSampling \/ Listen
    \/ Runner \/ BusError

\* The executor polls the runner, a driver call ends and so does a sleep.
Fairness == WF_sensorVars(Runner) /\ WF_sensorVars(Listen)

Spec == Init /\ [][Next]_sensorVars /\ Fairness

-----------------------------------------------------------------------------
(* Properties.                                                             *)

TypeOK ==
    /\ heat \in Temps /\ threshold \in [Thresholds -> Temps]
    /\ enabled \in BOOLEAN /\ signal \in BOOLEAN /\ owed \in BOOLEAN
    /\ samples \in Seq(Int) /\ Len(samples) <= SampleBufLen
    /\ exceeded \subseteq Thresholds /\ told \subseteq Thresholds /\ moved \subseteq Thresholds
    /\ pc \in {"top", "bus", "sleep", "off"} /\ tries \in 0 .. Retries
    /\ channel \in Seq(Event) /\ Len(channel) <= EventRoom

\* After a sample, a listener that took its events knows of each threshold that
\* was not moved meanwhile, and whose last event was not dropped, whether the
\* newest sample exceeds it: it was told if the sample does, and if it was told
\* the sample has not yet left the hysteresis band (check_thresholds).
HeatKnown ==
    (pc = "sleep" /\ channel = << >>) =>
        \A t \in Thresholds \ (moved \cup missed) :
            /\ IsExceeded(t, samples[1]) => t \in told
            /\ t \in told => \/ t = "WarnLow" /\ samples[1] <= threshold[t] + Hysteresis
                             \/ t # "WarnLow" /\ samples[1] >= threshold[t] - Hysteresis

\* When sampling that the host switched on is off, the host is told of a failure
\* it has not heard of, however its call interleaves with the retries and unless
\* the channel is full (Runner::run).
OffIsReported ==
    (owed /\ ~enabled) => \/ "RetryExhausted" \in missed
                          \/ \E i \in DOMAIN channel : channel[i][1] = "Failure"

\* Sampling that is enabled goes on: the runner samples again, or switches it off.
SamplingResumes == []<>(pc = "sleep" \/ ~enabled)
=============================================================================
