----------------------------- MODULE MCDevices ------------------------------
(***************************************************************************)
(* The services that look after one device each, side by side: a           *)
(* temperature sensor, a fan, the power button, the keyboard and a fuel    *)
(* gauge.  They share no state: `unit` says, for a whole behaviour, which  *)
(* of them runs.  Devices.cfg makes them small for TLC.                    *)
(***************************************************************************)
EXTENDS Naturals

CONSTANTS
    None,
    Celsius, Hysteresis,                                     \* the sensor and the fan
    SensorConfig, Offset, SampleBufLen, EventRoom, MaxSensorChanges,
    FanConfig, MinRpm, MaxRpm, HostRpms, MaxFanChanges,
    Threshold, ShortPress, Timeout,                          \* the button
    Cols, Rows, Deghost, Bounces, QueueDepth, RollOver, Undefined, MaxKeyChanges,
    Batteries, Retries, FailureLimit, Asked, MaxBatteryChanges   \* the fuel gauge

\* Thresholds for five temperatures.
SmallSensor == [WarnLow |-> 1, WarnHigh |-> 3]
SmallFan == [Min |-> 1, Ramping |-> 2, Max |-> 4]

VARIABLE unit
VARIABLES
    sHeat, sEnabled, sThreshold, sSignal, sSamples, sExceeded, sPc, sTries,
    sChannel, sTold, sMissed, sMoved, sOwed, sChanges
VARIABLES
    fTemp, fCfg, fAuto, fState, fSpeed, fSignal, fDriver, fPc, fPlan, fCall,
    fManual, fDisturbed, fChanges
VARIABLES
    active, integrator, pressed, sleeping, timing, elapsed, message, ons, offs, real
VARIABLES
    keys, kPc, power, powerChanged, debounced, candidate, since, report, queue,
    pending, last, leds, hostKeys, held, dropped, kChanges
VARIABLES
    hw, bState, static, dynamic, bDriver, read, query, torn, swapped, bChanges

sVars == <<sHeat, sEnabled, sThreshold, sSignal, sSamples, sExceeded, sPc, sTries,
           sChannel, sTold, sMissed, sMoved, sOwed, sChanges>>
fVars == <<fTemp, fCfg, fAuto, fState, fSpeed, fSignal, fDriver, fPc, fPlan, fCall,
           fManual, fDisturbed, fChanges>>
pVars == <<active, integrator, pressed, sleeping, timing, elapsed, message, ons, offs, real>>
kVars == <<keys, kPc, power, powerChanged, debounced, candidate, since, report, queue,
           pending, last, leds, hostKeys, held, dropped, kChanges>>
bVars == <<hw, bState, static, dynamic, bDriver, read, query, torn, swapped, bChanges>>
allVars == <<sVars, fVars, pVars, kVars, bVars, unit>>

Sensor == INSTANCE ThermalSensor WITH
    Temps <- Celsius, InitialConfig <- SensorConfig, MaxChanges <- MaxSensorChanges,
    heat <- sHeat, enabled <- sEnabled, threshold <- sThreshold, signal <- sSignal,
    samples <- sSamples, exceeded <- sExceeded, pc <- sPc, tries <- sTries,
    channel <- sChannel, told <- sTold, missed <- sMissed, moved <- sMoved,
    owed <- sOwed, changes <- sChanges

Fan == INSTANCE ThermalFan WITH
    Temps <- Celsius, InitialConfig <- FanConfig, MaxChanges <- MaxFanChanges,
    temp <- fTemp, cfg <- fCfg, auto <- fAuto, state <- fState, speed <- fSpeed,
    signal <- fSignal, driver <- fDriver, pc <- fPc, plan <- fPlan, call <- fCall,
    manual <- fManual, disturbed <- fDisturbed, changes <- fChanges

Button == INSTANCE PowerButton

Keys == INSTANCE Keyboard WITH MaxChanges <- MaxKeyChanges, pc <- kPc, changes <- kChanges

Gauge == INSTANCE Battery WITH
    MaxChanges <- MaxBatteryChanges, state <- bState, driver <- bDriver, changes <- bChanges

Units == {"sensor", "fan", "button", "keyboard", "battery"}

\* What a unit may start from is chosen only where it runs.
SuiteInit ==
    /\ unit \in Units
    /\ Button!Init /\ Keys!Init
    /\ Sensor!Init /\ (unit = "sensor" \/ (sHeat = 0 /\ ~sEnabled))
    /\ Fan!Init /\ (unit = "fan" \/ (fTemp = 0 /\ ~fAuto))
    /\ Gauge!Init /\ (unit = "battery" \/ (hw.unit = "mA" /\ hw.battery = 1))

SuiteNext ==
    \/ unit = "sensor" /\ Sensor!Next /\ UNCHANGED <<fVars, pVars, kVars, bVars, unit>>
    \/ unit = "fan" /\ Fan!Next /\ UNCHANGED <<sVars, pVars, kVars, bVars, unit>>
    \/ unit = "button" /\ Button!Next /\ UNCHANGED <<sVars, fVars, kVars, bVars, unit>>
    \/ unit = "keyboard" /\ Keys!Next /\ UNCHANGED <<sVars, fVars, pVars, bVars, unit>>
    \/ unit = "battery" /\ Gauge!Next /\ UNCHANGED <<sVars, fVars, pVars, kVars, unit>>

\* The fairness of each unit, in the behaviours in which it runs.
SuiteFairness ==
    /\ WF_sVars(unit = "sensor" /\ Sensor!Runner)
    /\ WF_sVars(unit = "sensor" /\ Sensor!Listen)
    /\ SF_fVars(unit = "fan" /\ Fan!Lock)
    /\ WF_fVars(unit = "fan" /\ (Fan!Top \/ Fan!Drive \/ Fan!SleepOver \/ Fan!Enabled))
    /\ WF_fVars(unit = "fan" /\ (Fan!SetSpeed \/ Fan!EnableAutoControl))
    /\ WF_fVars(unit = "fan" /\ Fan!SampleDone)
    /\ WF_pVars(unit = "button" /\ Button!Sample)
    /\ WF_pVars(unit = "button" /\ Button!TimedOut)
    /\ WF_pVars(unit = "button" /\ Button!Tick)
    /\ WF_kVars(unit = "keyboard" /\ Keys!Runner)
    /\ WF_kVars(unit = "keyboard" /\ Keys!ProcessNextInputReport)
    /\ WF_bVars(unit = "battery" /\ Gauge!Drive)
    /\ SF_bVars(unit = "battery" /\ Gauge!Answer)

SuiteSpec == SuiteInit /\ [][SuiteNext]_allVars /\ SuiteFairness

-----------------------------------------------------------------------------
\* The sensor's listener knows which thresholds the temperature is beyond, and
\* sampling is never off without the host having switched it off or been told.
SensorHonest == Sensor!TypeOK /\ Sensor!HeatKnown /\ Sensor!OffIsReported

\* The fan runs at the speed the host set last, or at one that belongs to the
\* state of auto control.
SpeedObeys == Fan!TypeOK /\ Fan!SpeedObeys

\* One press of the power button makes one message, bouncing or held for long.
ButtonHonest == Button!ButtonHonest

\* No report of the keyboard is lost, doubled or overtaken on its way to the
\* host, and with deghost no key is reported that no finger holds.
KeyboardHonest == Keys!KeyboardHonest

\* A fuel gauge that is polled has the static data of the battery that is in, but
\* for an exchange nobody noticed; _BST is of one moment, but for changes while it
\* was read; and _BIX is of the one battery that was brought up.
BatteryHonest == Gauge!BatteryHonest

\* Sampling that is enabled goes on or is switched off; the fan settles in a state
\* that fits the temperature; a press of the button is timed and its release
\* seen; a keyboard that is on tells of the keys that are held; and every query
\* about the battery is answered.
DevicesSettle ==
    /\ Sensor!SamplingResumes
    /\ Fan!FanSettles
    /\ Button!ButtonReported
    /\ Keys!KeysReported
    /\ Gauge!QueriesAnswered
=============================================================================
