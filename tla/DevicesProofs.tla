---------------------------- MODULE DevicesProofs ---------------------------
(***************************************************************************)
(* Proofs about the services that look after one device: the fan and the   *)
(* temperature sensor of thermal-service, the power button, the keyboard   *)
(* and the fuel gauge of battery-service, each for every configuration.    *)
(***************************************************************************)
EXTENDS MCDevices, Integers, Sequences, FiniteSetTheorems, TLAPS

-----------------------------------------------------------------------------
(* The fan.                                                                 *)

\* What the configuration of a fan is made of.
FanParams ==
    /\ Celsius \subseteq Int /\ Hysteresis \in Int
    /\ MinRpm \in Nat /\ MaxRpm \in Nat /\ MinRpm <= MaxRpm /\ HostRpms \subseteq Nat
    /\ FanConfig \in [Fan!OnState -> Celsius]

\* The calls of the driver that auto control decides on.
Plan == [to : Fan!State \cup {None}, rpm : 0 .. MaxRpm \cup {None}]

\* None is different from all that it stands in for.
FanNone == None \notin Int \cup Fan!State \cup {"host"} \cup Plan \cup Fan!Calls

\* The speed belongs to a state of auto control.
Fits(s, rpm) ==
    CASE s = "Off" -> rpm = 0
      [] s = "Min" -> rpm = MinRpm
      [] s = "Ramping" -> rpm \in MinRpm .. MaxRpm
      [] s = "Max" -> rpm = MaxRpm

\* Carrying out a plan leaves the fan in a state that its speed belongs to.
PlanFits(p) ==
    Fits(IF p.to = None THEN fState ELSE p.to, IF p.rpm = None THEN fSpeed ELSE p.rpm)

\* SpeedObeys alone is not inductive: a plan that waits for the driver was made
\* under auto control, and no call of the host has ended since.
FanInv ==
    /\ fTemp \in Celsius /\ fCfg \in [Fan!OnState -> Celsius] /\ fState \in Fan!State
    /\ fCall \in Fan!Calls \cup {None} /\ (fDriver = "host" => fCall # None)
    /\ fPlan \in Plan \cup {None} /\ (fPlan # None <=> fPc \in {"lock", "drive"})
    /\ ~fDisturbed =>
          /\ fManual # None => fSpeed = fManual /\ ~fAuto
          /\ fManual = None => Fits(fState, fSpeed)
          /\ fPlan # None => fManual = None /\ PlanFits(fPlan)

LEMMA Quotient ==
    ASSUME NEW x \in Nat, NEW y \in Nat \ {0}, NEW d \in Nat, x <= y * d
    PROVE  x \div y \in 0 .. d
<1> DEFINE q == x \div y
           r == x % y
<1>1. q \in Int /\ r \in 0 .. y - 1 /\ x = q * y + r
    OBVIOUS
<1> HIDE DEF q, r
<1>2. q >= 0
  <2>1. CASE q < 0
    <3>1. q + 1 <= 0 /\ (q + 1) * y <= 0 /\ (q + 1) * y = q * y + y
      BY <1>1, <2>1
    <3> QED BY <1>1, <3>1
  <2> QED BY <1>1, <2>1
<1>3. q <= d
  <2>1. CASE q > d
    <3>1. d + 1 <= q /\ (d + 1) * y <= q * y /\ (d + 1) * y = y * d + y
      BY <1>1, <2>1
    <3> QED BY <1>1, <3>1
  <2> QED BY <1>1, <2>1
<1> QED BY <1>1, <1>2, <1>3 DEF q

\* Runner::ramp_response stays between the two speeds, for every temperature.
LEMMA RampBounded ==
    ASSUME FanParams, fCfg \in [Fan!OnState -> Celsius], NEW t \in Celsius
    PROVE  Fan!Ramp(t) \in MinRpm .. MaxRpm
<1> DEFINE lo == fCfg["Ramping"]
           hi == fCfg["Max"]
           range == MaxRpm - MinRpm
<1>1. t \in Int /\ lo \in Int /\ hi \in Int /\ range \in Nat
  <2>1. Celsius \subseteq Int /\ range \in Nat
    BY DEF FanParams
  <2>2. "Ramping" \in Fan!OnState /\ "Max" \in Fan!OnState
    BY DEF Fan!OnState
  <2>3. lo \in Celsius /\ hi \in Celsius
    BY <2>2
  <2> QED BY <2>1, <2>3
<1>2. CASE t <= lo \/ t >= hi
    BY <1>1, <1>2 DEF Fan!Ramp, FanParams
<1>3. CASE ~(t <= lo \/ t >= hi)
  <2>1. Fan!Ramp(t) = MinRpm + ((t - lo) * range) \div (hi - lo)
    BY <1>3 DEF Fan!Ramp
  <2> HIDE DEF lo, hi, range
  <2>2. t - lo \in Nat /\ hi - lo \in Nat \ {0} /\ t - lo <= hi - lo
    BY <1>1, <1>3
  <2>3. (t - lo) * range \in Nat /\ (t - lo) * range <= (hi - lo) * range
    BY <1>1, <2>2
  <2>4. ((t - lo) * range) \div (hi - lo) \in 0 .. range
    BY <1>1, <2>2, <2>3, Quotient
  <2> QED BY <2>1, <2>4 DEF FanParams, range
<1> QED BY <1>2, <1>3

\* What handle_fan_state decides takes a fan at a speed of its state to a speed
\* of the next.
LEMMA DecideFits ==
    ASSUME FanParams, FanNone, fCfg \in [Fan!OnState -> Celsius], fState \in Fan!State, NEW t \in Celsius,
           Fan!Decide(t) # None
    PROVE  Fan!Decide(t) \in Plan /\ (Fits(fState, fSpeed) => PlanFits(Fan!Decide(t)))
<1> DEFINE p == Fan!Decide(t)
           ramp == [to |-> None, rpm |-> Fan!Ramp(t)]
<1>1. fState \in {"Off", "Min", "Ramping", "Max"}
    BY DEF Fan!State, Fan!OnState
<1>2. \/ fState = "Off" /\ p = Fan!Enter("Min")
      \/ fState = "Min" /\ p \in {Fan!Enter("Off"), Fan!Enter("Ramping")}
      \/ fState = "Ramping" /\ p \in {Fan!Enter("Min"), Fan!Enter("Max"), ramp}
      \/ fState = "Max" /\ p = Fan!Enter("Ramping")
    BY <1>1 DEF Fan!Decide
<1>3. /\ Fan!Enter("Off") = [to |-> "Off", rpm |-> 0]
      /\ Fan!Enter("Min") = [to |-> "Min", rpm |-> MinRpm]
      /\ Fan!Enter("Ramping") = [to |-> "Ramping", rpm |-> None]
      /\ Fan!Enter("Max") = [to |-> "Max", rpm |-> MaxRpm]
    BY DEF Fan!Enter
<1>4. Fan!Ramp(t) \in MinRpm .. MaxRpm
    BY RampBounded
<1>5. /\ MinRpm \in Nat /\ MaxRpm \in Nat /\ MinRpm <= MaxRpm /\ MinRpm \in MinRpm .. MaxRpm
      /\ MaxRpm \in MinRpm .. MaxRpm
    BY DEF FanParams
<1>6. None \notin Int /\ None # "Off" /\ None # "Min" /\ None # "Ramping" /\ None # "Max"
    BY DEF FanNone, Fan!State, Fan!OnState
<1>7. p \in Plan
  <2>1. Fan!Ramp(t) \in 0 .. MaxRpm /\ MinRpm \in 0 .. MaxRpm /\ MaxRpm \in 0 .. MaxRpm
        /\ 0 \in 0 .. MaxRpm
    BY <1>4, <1>5
  <2> HIDE DEF p
  <2> QED BY <1>2, <1>3, <1>5, <2>1 DEF Plan, Fan!State, Fan!OnState
<1>8. ASSUME Fits(fState, fSpeed) PROVE PlanFits(p)
  <2> HIDE DEF p
  <2>1. CASE p = ramp
    <3>1. p.to = None /\ p.rpm = Fan!Ramp(t) /\ fState = "Ramping"
      BY <1>2, <1>3, <1>6, <2>1
    <3>2. Fan!Ramp(t) # None
      BY <1>4, <1>5, <1>6
    <3> QED BY <1>4, <3>1, <3>2 DEF PlanFits, Fits
  <2>2. CASE p = Fan!Enter("Off")
    <3>1. p.to = "Off" /\ p.rpm = 0 /\ p.to # None /\ p.rpm # None
      BY <1>3, <1>6, <2>2
    <3> QED BY <3>1 DEF PlanFits, Fits
  <2>3. CASE p = Fan!Enter("Min")
    <3>1. p.to = "Min" /\ p.rpm = MinRpm /\ p.to # None /\ p.rpm # None
      BY <1>3, <1>5, <1>6, <2>3
    <3> QED BY <3>1 DEF PlanFits, Fits
  <2>4. CASE p = Fan!Enter("Max")
    <3>1. p.to = "Max" /\ p.rpm = MaxRpm /\ p.to # None /\ p.rpm # None
      BY <1>3, <1>5, <1>6, <2>4
    <3> QED BY <3>1 DEF PlanFits, Fits
  <2>5. CASE p = Fan!Enter("Ramping") /\ fState \in {"Min", "Max"}
    <3>1. fSpeed \in MinRpm .. MaxRpm
      BY <1>5, <1>8, <2>5 DEF Fits
    <3>2. p.to = "Ramping" /\ p.rpm = None /\ p.to # None
      BY <1>3, <1>6, <2>5
    <3> QED BY <3>1, <3>2 DEF PlanFits, Fits
  <2> QED BY <1>2, <2>1, <2>2, <2>3, <2>4, <2>5
<1> QED BY <1>7, <1>8

LEMMA FanInit ==
    ASSUME FanParams, FanNone, Fan!Init
    PROVE  FanInv
<1>1. fState = "Off" /\ fSpeed = 0 /\ fPlan = None /\ fCall = None /\ fDriver = None /\ fPc = "top"
      /\ fManual = None /\ fTemp \in Celsius /\ fCfg \in [Fan!OnState -> Celsius]
    BY DEF FanParams, Fan!Init
<1>2. None # "host" /\ fState \in Fan!State
    BY <1>1 DEF FanNone, Fan!State
<1>3. Fits(fState, fSpeed)
    BY <1>1 DEF Fits
<1> QED BY <1>1, <1>2, <1>3 DEF FanInv

\* A step that neither drives the fan nor ends a call keeps what it leaves alone.
LEMMA FanTopKeeps ==
    ASSUME FanParams, FanNone, FanInv, Fan!Top
    PROVE  FanInv'
<1>1. /\ fPc = "top" /\ fPlan' = (IF fAuto THEN Fan!Decide(fTemp) ELSE None)
      /\ fPc' = (IF ~fAuto THEN "off" ELSE IF Fan!Decide(fTemp) = None THEN "sleep" ELSE "lock")
      /\ UNCHANGED <<fTemp, fCfg, fChanges, fAuto, fState, fSpeed, fDriver, fSignal, fCall, fManual, fDisturbed>>
    BY DEF Fan!Top, Fan!worldVars, Fan!driverVars
<1>2. fPlan' # None <=> fPc' \in {"lock", "drive"}
    BY <1>1
<1>3. fPlan' # None => fAuto /\ fPlan' \in Plan /\ (Fits(fState, fSpeed) => PlanFits(fPlan'))
  <2> SUFFICES ASSUME fPlan' # None
               PROVE  fAuto /\ fPlan' \in Plan /\ (Fits(fState, fSpeed) => PlanFits(fPlan'))
    OBVIOUS
  <2>1. fAuto /\ fPlan' = Fan!Decide(fTemp) /\ Fan!Decide(fTemp) # None
    BY <1>1
  <2> QED BY <2>1, DecideFits DEF FanInv
<1>4. PlanFits(fPlan)' <=> PlanFits(fPlan')
    BY <1>1 DEF PlanFits
<1> QED BY <1>1, <1>2, <1>3, <1>4 DEF FanInv

LEMMA FanDriveKeeps ==
    ASSUME FanParams, FanNone, FanInv, Fan!Drive
    PROVE  FanInv'
<1>1. /\ fPc = "drive" /\ fDriver' = None
      /\ fSpeed' = (IF fPlan.rpm = None THEN fSpeed ELSE fPlan.rpm)
      /\ fState' = (IF fPlan.to = None THEN fState ELSE fPlan.to)
      /\ fPc' = "sleep" /\ fPlan' = None
      /\ UNCHANGED <<fTemp, fCfg, fChanges, fAuto, fSignal, fCall, fManual, fDisturbed>>
    BY DEF Fan!Drive, Fan!worldVars
<1>2. fPlan \in Plan /\ fPlan # None
    BY <1>1 DEF FanInv
<1>3. fState' \in Fan!State /\ None # "host"
    BY <1>1, <1>2 DEF FanInv, Plan, FanNone
<1>4. ~fDisturbed => fManual = None /\ Fits(fState', fSpeed')
    BY <1>1, <1>2 DEF FanInv, PlanFits
<1> QED BY <1>1, <1>3, <1>4 DEF FanInv

LEMMA FanHostKeeps ==
    ASSUME FanParams, FanNone, FanInv, Fan!SetSpeed \/ Fan!EnableAutoControl
    PROVE  FanInv'
<1>1. /\ fDriver = "host" /\ fDriver' = None /\ fSpeed' = fCall.rpm /\ fCall' = None
      /\ fDisturbed' = (fPlan # None)
      /\ UNCHANGED <<fTemp, fCfg, fChanges, fPc, fPlan>>
    BY DEF Fan!SetSpeed, Fan!EnableAutoControl, Fan!worldVars
<1>2. fCall \in Fan!Calls /\ None # "host"
    BY <1>1 DEF FanInv, FanNone
<1>3. ~fDisturbed' => fPlan' = None
    BY <1>1
<1>4. CASE Fan!SetSpeed
  <2>1. fManual' = fCall.rpm /\ fAuto' = FALSE /\ fState' = fState
    BY <1>4 DEF Fan!SetSpeed
  <2>2. fCall.rpm # None
    <3>1. fCall.rpm \in HostRpms \cup {0}
      BY <1>2 DEF Fan!Calls
    <3>2. HostRpms \cup {0} \subseteq Int
      BY DEF FanParams
    <3> QED BY <3>1, <3>2 DEF FanNone
  <2> QED BY <1>1, <1>2, <1>3, <2>1, <2>2 DEF FanInv
<1>5. CASE Fan!EnableAutoControl
  <2>1. fManual' = None /\ fAuto' = TRUE /\ fState' = "Off" /\ fCall.op = "auto"
    BY <1>5 DEF Fan!EnableAutoControl
  <2>2. fCall.rpm = 0 /\ fState' \in Fan!State
    BY <1>2, <2>1 DEF Fan!Calls, Fan!State
  <2>3. Fits(fState', fSpeed')
    BY <1>1, <2>1, <2>2 DEF Fits
  <2> QED BY <1>1, <1>2, <1>3, <2>1, <2>2, <2>3 DEF FanInv
<1> QED BY <1>4, <1>5

LEMMA FanStep == FanParams /\ FanNone /\ FanInv /\ [Fan!Next]_(Fan!fanVars) => FanInv'
<1> SUFFICES ASSUME FanParams, FanNone, FanInv, [Fan!Next]_(Fan!fanVars) PROVE FanInv'
    OBVIOUS
<1> USE DEF Fan!worldVars, Fan!driverVars
<1>n. None # "host" /\ None \notin Fan!Calls
    BY DEF FanNone
\* Nothing but who holds the driver, what the host waits for and how far
\* auto control has come.
<1>1. ASSUME UNCHANGED <<fTemp, fCfg, fAuto, fState, fSpeed, fPlan, fManual, fDisturbed>>,
             fPlan' # None <=> fPc' \in {"lock", "drive"},
             fCall' \in Fan!Calls \cup {None}, fDriver' = "host" => fCall' # None
      PROVE  FanInv'
  <2>1. PlanFits(fPlan)' <=> PlanFits(fPlan)
    BY <1>1 DEF PlanFits
  <2> QED BY <1>1, <2>1 DEF FanInv
<1>2. CASE Fan!Lock \/ Fan!SleepOver \/ Fan!Enabled
    BY <1>1, <1>2, <1>n DEF FanInv, Fan!Lock, Fan!SleepOver, Fan!Enabled
<1>3. CASE Fan!SampleLock \/ Fan!SampleDone \/ Fan!CallLock
    BY <1>1, <1>3, <1>n DEF FanInv, Fan!SampleLock, Fan!SampleDone, Fan!CallLock
<1>4. CASE \E c \in Fan!Calls : Fan!Call(c)
    BY <1>1, <1>4, <1>n DEF FanInv, Fan!Call
<1>5. CASE UNCHANGED Fan!fanVars
    BY <1>1, <1>5 DEF FanInv, Fan!fanVars
\* A failed call excuses what follows until the next one.
<1>6. CASE Fan!DriveFailed
  <2>1. /\ fDisturbed' /\ fPlan' = None /\ fPc' = "sleep" /\ fDriver' = None
        /\ UNCHANGED <<fTemp, fCfg, fState, fCall>>
    BY <1>6 DEF Fan!DriveFailed
  <2> QED BY <2>1, <1>n DEF FanInv
<1>7. CASE Fan!CallFailed
  <2>1. fDisturbed' /\ fDriver' = None /\ fCall' = None /\ UNCHANGED <<fTemp, fCfg, fState, fPc, fPlan>>
    BY <1>7 DEF Fan!CallFailed
  <2> QED BY <2>1, <1>n DEF FanInv
\* A plan outlives the temperature and the thresholds it was made for.
<1>8. ASSUME fTemp' \in Celsius, fCfg' \in [Fan!OnState -> Celsius],
             UNCHANGED <<fAuto, fState, fSpeed, fDriver, fPc, fPlan, fCall, fManual, fDisturbed>>
      PROVE  FanInv'
  <2>1. PlanFits(fPlan)' <=> PlanFits(fPlan)
    BY <1>8 DEF PlanFits
  <2> QED BY <1>8, <2>1 DEF FanInv
<1>9. CASE \E s \in Fan!OnState, t \in Celsius : Fan!SetStateTemp(s, t)
    BY <1>8, <1>9 DEF FanInv, Fan!SetStateTemp
<1>10. CASE \E t \in Celsius : Fan!Heat(t)
    BY <1>8, <1>10 DEF FanInv, Fan!Heat
<1> QED BY <1>2, <1>3, <1>4, <1>5, <1>6, <1>7, <1>9, <1>10, FanTopKeeps, FanDriveKeeps, FanHostKeeps
        DEF Fan!Next, Fan!AutoControl, Fan!Host

\* Unless a call failed or overtook a decision that waited for the driver, the
\* fan runs at the speed the host set last, with auto control off, or at one
\* that belongs to the state of auto control (fan.rs), for every set of
\* temperatures, thresholds and speeds, thresholds in any order included.
THEOREM FanObeysAnySpeed ==
    ASSUME FanParams, FanNone
    PROVE  Fan!Spec => []Fan!SpeedObeys
<1>1. Fan!Init => FanInv
    BY FanInit
<1>2. FanInv /\ [Fan!Next]_(Fan!fanVars) => FanInv'
    BY FanStep
<1>3. FanInv => Fan!SpeedObeys
    BY DEF FanInv, Fits, Fan!SpeedObeys
<1> QED BY <1>1, <1>2, <1>3, PTL DEF Fan!Spec

LEMMA FanTypeStep ==
    FanParams /\ FanNone /\ HostRpms \subseteq 0 .. MaxRpm /\ FanInv /\ Fan!TypeOK
    /\ [Fan!Next]_(Fan!fanVars) => Fan!TypeOK'
<1> SUFFICES ASSUME FanParams, FanNone, HostRpms \subseteq 0 .. MaxRpm, FanInv, Fan!TypeOK,
                    [Fan!Next]_(Fan!fanVars)
             PROVE  Fan!TypeOK'
    OBVIOUS
<1> USE DEF Fan!worldVars, Fan!driverVars
<1>1. FanInv'
    BY FanStep
<1>2. fTemp' \in Celsius /\ fCfg' \in [Fan!OnState -> Celsius] /\ fState' \in Fan!State
    BY <1>1 DEF FanInv
<1>3. fSpeed' \in 0 .. MaxRpm
  <2>1. fPc = "drive" => fPlan.rpm \in 0 .. MaxRpm \cup {None}
    BY DEF FanInv, Plan
  <2>2. fDriver = "host" => fCall.rpm \in 0 .. MaxRpm
    <3> SUFFICES ASSUME fDriver = "host" PROVE fCall.rpm \in 0 .. MaxRpm
      OBVIOUS
    <3>1. fCall \in Fan!Calls /\ MaxRpm \in Nat
      BY DEF FanInv, FanParams
    <3>2. fCall.rpm \in HostRpms \cup {0}
      BY <3>1 DEF Fan!Calls
    <3>3. HostRpms \cup {0} \subseteq 0 .. MaxRpm
      BY <3>1
    <3> QED BY <3>2, <3>3
  <2>3. \/ fSpeed' = fSpeed
        \/ fPc = "drive" /\ fSpeed' = fPlan.rpm /\ fPlan.rpm # None
        \/ fDriver = "host" /\ fSpeed' = fCall.rpm
    BY DEF Fan!Next, Fan!AutoControl, Fan!Host, Fan!Top, Fan!Lock, Fan!Drive, Fan!SleepOver,
           Fan!Enabled, Fan!DriveFailed, Fan!SampleLock, Fan!SampleDone, Fan!CallLock, Fan!SetSpeed,
           Fan!EnableAutoControl, Fan!CallFailed, Fan!Call, Fan!SetStateTemp, Fan!Heat, Fan!fanVars
  <2> QED BY <2>1, <2>2, <2>3 DEF Fan!TypeOK
<1>4. /\ fAuto' \in BOOLEAN /\ fSignal' \in BOOLEAN /\ fDisturbed' \in BOOLEAN
      /\ fDriver' \in {None, "auto", "sampling", "host"}
      /\ fPc' \in {"top", "lock", "drive", "sleep", "off"}
    BY DEF Fan!TypeOK, Fan!Next, Fan!AutoControl, Fan!Host, Fan!Top, Fan!Lock, Fan!Drive,
           Fan!SleepOver, Fan!Enabled, Fan!DriveFailed, Fan!SampleLock, Fan!SampleDone, Fan!CallLock,
           Fan!SetSpeed, Fan!EnableAutoControl, Fan!CallFailed, Fan!Call, Fan!SetStateTemp, Fan!Heat,
           Fan!fanVars
<1> QED BY <1>2, <1>3, <1>4 DEF Fan!TypeOK

\* A fan whose host asks for no more than its highest speed does not run faster
\* either, at any point of the ramp, and every variable keeps its type.
THEOREM SpeedObeysHolds ==
    ASSUME FanParams, FanNone, HostRpms \subseteq 0 .. MaxRpm
    PROVE  Fan!Spec => []SpeedObeys
<1>1. Fan!Init => FanInv /\ Fan!TypeOK
  <2> SUFFICES ASSUME Fan!Init PROVE FanInv /\ Fan!TypeOK
    OBVIOUS
  <2>1. 0 \in 0 .. MaxRpm
    BY DEF FanParams
  <2> QED BY <2>1, FanInit DEF FanInv, Fan!Init, Fan!TypeOK
<1>2. FanInv /\ Fan!TypeOK /\ [Fan!Next]_(Fan!fanVars) => FanInv' /\ Fan!TypeOK'
    BY FanStep, FanTypeStep
<1>3. FanInv /\ Fan!TypeOK => SpeedObeys
    BY DEF FanInv, Fits, Fan!SpeedObeys, SpeedObeys
<1> QED BY <1>1, <1>2, <1>3, PTL DEF Fan!Spec

-----------------------------------------------------------------------------
(* The power button.                                                        *)

\* The thresholds of the debouncer and of the timer.
ButtonParams == Threshold \in Nat /\ Timeout \in Nat /\ ShortPress \in Nat

\* The integrator never runs ahead of the samples that were really taken: up
\* to a press it counts no more than the active ones, and on the way down it
\* loses no more than the inactive ones.
ButtonInv ==
    /\ Button!TypeOK /\ real
    /\ ~pressed => integrator <= ons /\ offs = Threshold
    /\ pressed => integrator + offs >= Threshold

LEMMA ButtonSampleKeeps ==
    ASSUME ButtonParams, ButtonInv, NEW sample \in BOOLEAN,
           integrator' = Button!Integrate(sample), UNCHANGED active,
           LET next == Button!Integrate(sample)
               seen == Button!Count(sample)
           IN  \/ /\ next >= Threshold /\ ~pressed /\ Button!PressSeen
                  /\ real' = (seen.on = Threshold /\ seen.off = Threshold)
                  /\ ons' = 0 /\ offs' = 0
               \/ /\ next = 0 /\ pressed /\ Button!ReleaseSeen
                  /\ ons' = 0 /\ offs' = seen.off /\ UNCHANGED real
               \/ /\ IF pressed THEN next > 0 ELSE next < Threshold
                  /\ sleeping' = TRUE /\ ons' = seen.on /\ offs' = seen.off
                  /\ UNCHANGED <<pressed, timing, elapsed, message, real>>
    PROVE  ButtonInv'
<1> DEFINE next == Button!Integrate(sample)
           on == Button!Count(sample).on
           off == Button!Count(sample).off
<1>1. /\ Threshold \in Nat /\ Timeout \in Nat /\ integrator \in 0 .. Threshold
      /\ ons \in 0 .. Threshold /\ offs \in 0 .. Threshold /\ elapsed \in 0 .. Timeout
    BY DEF ButtonParams, ButtonInv, Button!TypeOK
<1>2. /\ next \in 0 .. Threshold /\ on \in 0 .. Threshold /\ off \in 0 .. Threshold
      /\ integrator <= ons => next <= on
      /\ integrator + offs >= Threshold => next + off >= Threshold
      /\ offs = Threshold => off = Threshold
  <2>1. CASE sample
    <3>1. next = Button!Lesser(integrator + 1, Threshold)
          /\ on = Button!Lesser(ons + 1, Threshold) /\ off = Button!Lesser(offs + 0, Threshold)
      BY <2>1 DEF Button!Integrate, Button!Count
    <3> HIDE DEF next, on, off
    <3> QED BY <1>1, <3>1 DEF Button!Lesser
  <2>2. CASE ~sample
    <3>1. next = (IF integrator > 0 THEN integrator - 1 ELSE 0)
          /\ on = Button!Lesser(ons + 0, Threshold) /\ off = Button!Lesser(offs + 1, Threshold)
      BY <2>2 DEF Button!Integrate, Button!Count
    <3> HIDE DEF next, on, off
    <3> QED BY <1>1, <3>1 DEF Button!Lesser
  <2> QED BY <2>1, <2>2
<1>3. \/ /\ next >= Threshold /\ ~pressed /\ Button!PressSeen
         /\ real' = (on = Threshold /\ off = Threshold)
         /\ ons' = 0 /\ offs' = 0
      \/ /\ next = 0 /\ pressed /\ Button!ReleaseSeen
         /\ ons' = 0 /\ offs' = off /\ UNCHANGED real
      \/ /\ IF pressed THEN next > 0 ELSE next < Threshold
         /\ sleeping' = TRUE /\ ons' = on /\ offs' = off
         /\ UNCHANGED <<pressed, timing, elapsed, message, real>>
    OBVIOUS
<1>4. integrator' = next /\ active' = active
    OBVIOUS
<1> HIDE DEF next, on, off
<1>5. CASE /\ next >= Threshold /\ ~pressed /\ Button!PressSeen
           /\ real' = (on = Threshold /\ off = Threshold)
           /\ ons' = 0 /\ offs' = 0
  <2>1. /\ pressed' = TRUE /\ timing' = TRUE /\ elapsed' = 0
        /\ UNCHANGED <<message, sleeping>>
    BY <1>5 DEF Button!PressSeen
  <2>2. next = Threshold /\ on = Threshold /\ off = Threshold
    BY <1>1, <1>2, <1>5 DEF ButtonInv
  <2>3. real' = TRUE
    BY <1>5, <2>2
  <2> QED BY <1>1, <1>4, <1>5, <2>1, <2>2, <2>3 DEF ButtonInv, Button!TypeOK
<1>6. CASE /\ next = 0 /\ pressed /\ Button!ReleaseSeen
           /\ ons' = 0 /\ offs' = off /\ UNCHANGED real
  <2>1. /\ pressed' = FALSE /\ timing' = FALSE /\ message' \in Button!Messages
        /\ UNCHANGED <<elapsed, sleeping>>
    BY <1>6 DEF Button!ReleaseSeen, Button!Send, Button!Interpret, Button!Messages, ButtonInv, Button!TypeOK
  <2>2. off = Threshold
    BY <1>1, <1>2, <1>6 DEF ButtonInv
  <2>3. integrator' = 0 /\ ons' = 0 /\ offs' = Threshold /\ real' = real /\ 0 \in 0 .. Threshold
        /\ Threshold \in 0 .. Threshold /\ 0 <= 0
    BY <1>1, <1>4, <1>6, <2>2
  <2>4. Button!TypeOK'
    BY <1>4, <2>1, <2>3 DEF ButtonInv, Button!TypeOK
  <2> QED BY <2>1, <2>3, <2>4 DEF ButtonInv
<1>7. CASE /\ IF pressed THEN next > 0 ELSE next < Threshold
           /\ sleeping' = TRUE /\ ons' = on /\ offs' = off
           /\ UNCHANGED <<pressed, timing, elapsed, message, real>>
    BY <1>1, <1>2, <1>4, <1>7 DEF ButtonInv, Button!TypeOK
<1> QED BY <1>3, <1>5, <1>6, <1>7

LEMMA ButtonStep == ButtonParams /\ ButtonInv /\ [Button!Next]_(Button!buttonVars) => ButtonInv'
<1> SUFFICES ASSUME ButtonParams, ButtonInv, [Button!Next]_(Button!buttonVars) PROVE ButtonInv'
    OBVIOUS
<1>1. CASE Button!Sample
  <2>1. PICK sample \in IF active THEN BOOLEAN ELSE {FALSE} :
          LET next == Button!Integrate(sample)
              seen == Button!Count(sample)
          IN  /\ ~sleeping
              /\ integrator' = next
              /\ UNCHANGED active
              /\ \/ /\ next >= Threshold
                    /\ ~pressed
                    /\ Button!PressSeen
                    /\ real' = (seen.on = Threshold /\ seen.off = Threshold)
                    /\ ons' = 0
                    /\ offs' = 0
                 \/ /\ next = 0
                    /\ pressed
                    /\ Button!ReleaseSeen
                    /\ ons' = 0
                    /\ offs' = seen.off
                    /\ UNCHANGED real
                 \/ /\ IF pressed THEN next > 0 ELSE next < Threshold
                    /\ sleeping' = TRUE
                    /\ ons' = seen.on
                    /\ offs' = seen.off
                    /\ UNCHANGED <<pressed, timing, elapsed, message, real>>
    BY <1>1 DEF Button!Sample
  <2>2. sample \in BOOLEAN
    OBVIOUS
  <2> QED BY <2>1, <2>2, ButtonSampleKeeps
<1>2. CASE Button!TimedOut
  <2>1. /\ message' \in Button!Messages /\ timing' = FALSE /\ sleeping' = FALSE
        /\ UNCHANGED <<active, integrator, pressed, elapsed, ons, offs, real>>
    BY <1>2 DEF Button!TimedOut, Button!Send, Button!Interpret, Button!Messages
  <2> QED BY <2>1 DEF ButtonInv, Button!TypeOK
<1>3. CASE Button!Tick
  <2>1. /\ elapsed' = (IF timing THEN elapsed + 1 ELSE 0) /\ ~(timing /\ elapsed >= Timeout)
        /\ sleeping' = FALSE /\ active' \in BOOLEAN
        /\ UNCHANGED <<integrator, pressed, timing, message, ons, offs, real>>
    BY <1>3 DEF Button!Tick
  <2>2. elapsed' \in 0 .. Timeout
    BY <2>1 DEF ButtonParams, ButtonInv, Button!TypeOK
  <2> QED BY <2>1, <2>2 DEF ButtonInv, Button!TypeOK
<1>4. CASE UNCHANGED Button!buttonVars
    BY <1>4 DEF Button!buttonVars, ButtonInv, Button!TypeOK
<1> QED BY <1>1, <1>2, <1>3, <1>4 DEF Button!Next

\* A press is seen only after as many active samples as the debouncer's
\* threshold asks for, and only once as many inactive ones have followed the
\* press before: neither bouncing nor a press held past its timeout makes two
\* messages of one press, for every threshold, interval and timeout.
THEOREM ButtonHonestHolds ==
    ASSUME ButtonParams
    PROVE  Button!Spec => []ButtonHonest
<1>1. Button!Init => ButtonInv
  <2> SUFFICES ASSUME Button!Init PROVE ButtonInv
    OBVIOUS
  <2>1. 0 \in 0 .. Threshold /\ Threshold \in 0 .. Threshold /\ 0 \in 0 .. Timeout /\ 0 <= 0
    BY DEF ButtonParams
  <2>2. Button!TypeOK
    BY <2>1 DEF Button!Init, Button!TypeOK, Button!Messages
  <2> QED BY <2>1, <2>2 DEF Button!Init, ButtonInv
<1>2. ButtonInv /\ [Button!Next]_(Button!buttonVars) => ButtonInv'
    BY ButtonStep
<1>3. ButtonInv => ButtonHonest
    BY DEF ButtonInv, Button!ButtonHonest, ButtonHonest
<1> QED BY <1>1, <1>2, <1>3, PTL DEF Button!Spec

-----------------------------------------------------------------------------
(* The fuel gauge.                                                         *)

GaugeParams == Retries \in Nat \ {0} /\ Asked \subseteq Gauge!Queries

Places == {"init", "static", "dynamic", "wait", "ping", "dead"}
Loop == [at : Places, up : BOOLEAN, holds : BOOLEAN, next : Gauge!Registers \cup {"store"},
         tries : 0 .. Retries, failures : Nat]

\* The loop has an attempt left as long as it goes on, initializes only while it
\* brings the gauge up, and is at a register of the call it makes.
LoopOf(d) ==
    /\ d \in Loop
    /\ d.at # "dead" => d.tries >= 1
    /\ d.at = "init" => d.up /\ d.next \in {"mode", "store"}
    /\ d.at \in {"wait", "ping"} => ~d.up
    /\ d.at = "static" => d.next \in {"design", "mode", "store"}
    /\ d.at = "dynamic" => d.next \in {"status", "current", "full", "remaining", "store"}

LoopInv == LoopOf(bDriver) /\ read = [r \in Gauge!Registers |-> read[r]]

\* What the update that runs has read so far: of the static registers, of those
\* that _BST is made from, and of the battery's own capacities.
StaticRead ==
    /\ bDriver.next \in {"mode", "store"} => read["design"] = Gauge!Capacity(hw.unit, hw.battery)
    /\ bDriver.next = "store" => read["mode"] = hw.unit

MomentRead ==
    /\ bDriver.next \in {"current", "full", "remaining", "store"} => (read["status"] <=> hw.level = 1)
    /\ bDriver.next \in {"full", "remaining", "store"} => read["current"] = hw.level
    /\ bDriver.next = "store" => read["remaining"].n = hw.level

OwnRead ==
    /\ bDriver.next \in {"remaining", "store"} => read["full"] = Gauge!Capacity(hw.unit, hw.battery)
    /\ bDriver.next = "store" => read["remaining"].unit = hw.unit

\* It is what the hardware says, unless that has changed: the battery, or for
\* _BST anything.
ReadInv ==
    /\ (bDriver.at = "static" /\ (swapped = "no" \/ (Gauge!IsOperational /\ swapped # "unnoticed")))
          => StaticRead
    /\ (bDriver.at = "dynamic" /\ ~torn) => MomentRead
    /\ (bDriver.at = "dynamic" /\ swapped = "no") => OwnRead

\* The caches: _BST's values are of one moment, and both are of the battery that
\* was initialized, from the moment on that bring-up has stored them.
MomentCache ==
    ~dynamic.torn => /\ dynamic.remaining.n = dynamic.rate
                     /\ dynamic.discharging <=> dynamic.rate = 1

OwnCaches ==
    /\ swapped = "no" => hw.unit = "mA"
    /\ (swapped = "no" /\ (~bDriver.up \/ bDriver.at = "dynamic"))
          => static = [design |-> Gauge!Capacity("mA", hw.battery), mode |-> "mA"]
    /\ (swapped = "no" /\ ~bDriver.up)
          => dynamic.full = Gauge!Capacity("mA", hw.battery) /\ dynamic.remaining.unit = "mA"

CacheInv == MomentCache /\ OwnCaches

StateInv ==
    /\ hw \in Gauge!Hardware
    /\ bState \in Gauge!States
    /\ swapped \in {"no", "noticed", "unnoticed"}
    /\ query \in Gauge!Queries \cup {None}

GaugeInv ==
    /\ StateInv
    /\ Gauge!PollingKnowsBattery
    /\ LoopInv
    /\ ReadInv
    /\ CacheInv

\* Where a step may lead the loop.
LEMMA GotoFacts ==
    ASSUME LoopOf(bDriver), bDriver.at # "dead", NEW at \in Places \ {"init"},
           at \in {"wait", "ping"} => ~bDriver.up
    PROVE  /\ LoopOf(Gauge!Goto(at)) /\ LoopOf(Gauge!Give(at))
           /\ Gauge!Goto(at).at = at /\ Gauge!Give(at).at = at
           /\ Gauge!Goto(at).up = bDriver.up /\ Gauge!Give(at).up = bDriver.up
           /\ Gauge!Goto(at).next = Gauge!FirstOf(at) /\ Gauge!Give(at).next = Gauge!FirstOf(at)
<1>1. bDriver \in Loop /\ bDriver.tries >= 1
    BY DEF LoopOf
<1>2. Gauge!FirstOf(at) \in Gauge!Registers \cup {"store"}
    BY DEF Gauge!FirstOf, Gauge!Registers, Places
<1>3. /\ at = "static" => Gauge!FirstOf(at) = "design"
      /\ at = "dynamic" => Gauge!FirstOf(at) = "status"
    BY DEF Gauge!FirstOf
<1>4. at \in Places /\ at # "init" /\ FALSE \in BOOLEAN
    OBVIOUS
<1> QED BY <1>1, <1>2, <1>3, <1>4 DEF Gauge!Goto, Gauge!Give, LoopOf, Loop

\* A call that fails uses up an attempt; the loop ends with the last.
LEMMA RetryFacts ==
    ASSUME GaugeParams, LoopOf(bDriver), bDriver.at # "dead",
           NEW from \in {"init", "ping"}, from = "init" <=> bDriver.up
    PROVE  /\ LoopOf(Gauge!Retry(from)) /\ Gauge!Retry(from).up = bDriver.up
           /\ Gauge!Retry(from).at \notin {"static", "dynamic"}
<1>1. bDriver \in Loop /\ bDriver.tries \in 1 .. Retries /\ bDriver.tries - 1 \in 0 .. Retries
    BY DEF LoopOf, Loop, GaugeParams
<1> DEFINE at == IF bDriver.tries = 1 THEN "dead" ELSE from
<1>2. at \in {"init", "ping", "dead"} /\ (at # "dead" => bDriver.tries - 1 >= 1) /\ (at = "init" => bDriver.up)
         /\ (at = "ping" => ~bDriver.up)
    BY <1>1
<1>3. Gauge!FirstOf(at) \in Gauge!Registers \cup {"store"} /\ (at = "init" => Gauge!FirstOf(at) = "mode")
    BY <1>2 DEF Gauge!FirstOf, Gauge!Registers
<1>4. Gauge!Retry(from) = [bDriver EXCEPT !.at = at, !.next = Gauge!FirstOf(at), !.holds = FALSE,
                                          !.tries = bDriver.tries - 1]
    BY <1>1 DEF Gauge!Retry, Gauge!Give, Loop
<1> HIDE DEF at
<1>5. at \in Places /\ at \notin {"static", "dynamic"}
    BY <1>2 DEF Places
<1> QED BY <1>1, <1>2, <1>3, <1>4, <1>5 DEF LoopOf, Loop

LEMMA GaugeInit == GaugeParams /\ Gauge!Init => GaugeInv
<1> SUFFICES ASSUME GaugeParams, Gauge!Init PROVE GaugeInv
    OBVIOUS
<1> USE DEF GaugeParams, Gauge!Init
<1>1. LoopOf(bDriver)
    BY DEF LoopOf, Loop, Places, Gauge!Registers
<1>2. read = [r \in Gauge!Registers |-> read[r]]
    BY DEF Gauge!NothingRead
<1>3. CacheInv /\ ReadInv
    BY DEF CacheInv, MomentCache, OwnCaches, ReadInv, Gauge!DynamicDefault, Gauge!Capacity
<1>4. hw \in Gauge!Hardware
  <2>1. hw \in [answers : {TRUE}, battery : Batteries, unit : {"mA", "cW"}, level : {1}]
    OBVIOUS
  <2>2. hw = [answers |-> hw.answers, battery |-> hw.battery, unit |-> hw.unit, level |-> hw.level]
        /\ hw.battery \in Batteries /\ hw.unit \in {"mA", "cW"} /\ hw.level = 1
    BY ONLY <2>1
  <2>3. hw.answers = TRUE
    BY ONLY <2>1, Zenon
  <2>4. hw.answers \in BOOLEAN
    BY ONLY <2>3, Zenon
  <2>5. hw.level \in 1 .. 2
    BY ONLY <2>2
  <2> QED BY ONLY <2>2, <2>4, <2>5, Zenon DEF Gauge!Hardware
<1>5. StateInv /\ Gauge!PollingKnowsBattery
    BY <1>4 DEF StateInv, Gauge!States, Gauge!PollingKnowsBattery
<1> QED BY <1>1, <1>2, <1>3, <1>5 DEF GaugeInv, LoopInv

\* A step that leaves the hardware and the caches alone and reads nothing: the
\* loop stays where it is or goes to the start of a call.
LEMMA LoopMoves ==
    ASSUME GaugeInv, LoopInv', bDriver'.up = bDriver.up,
           \/ bDriver'.at = bDriver.at /\ bDriver'.next = bDriver.next /\ UNCHANGED read
           \/ bDriver'.at \notin {"static", "dynamic"}
           \/ bDriver'.at = "static" /\ bDriver'.next = "design"
           \/ bDriver'.at = "dynamic" /\ bDriver'.next = "status" /\ ~bDriver.up,
           bState' \in {bState, "NotOperational"},
           UNCHANGED <<hw, static, dynamic, query, torn, swapped>>
    PROVE  GaugeInv'
<1>1. ReadInv'
  <2>1. CASE bDriver'.at = bDriver.at /\ bDriver'.next = bDriver.next /\ UNCHANGED read
    BY <2>1 DEF GaugeInv, ReadInv, StaticRead, MomentRead, OwnRead, Gauge!IsOperational
  <2>2. CASE bDriver'.at \notin {"static", "dynamic"}
    BY <2>2 DEF ReadInv
  <2>3. CASE bDriver'.at = "static" /\ bDriver'.next = "design"
    BY <2>3 DEF ReadInv, StaticRead
  <2>4. CASE bDriver'.at = "dynamic" /\ bDriver'.next = "status"
    BY <2>4 DEF ReadInv, MomentRead, OwnRead
  <2> QED BY <2>1, <2>2, <2>3, <2>4
<1>2. CacheInv'
    BY DEF GaugeInv, CacheInv, MomentCache, OwnCaches
<1>3. StateInv' /\ Gauge!PollingKnowsBattery'
    BY DEF GaugeInv, StateInv, Gauge!States, Gauge!PollingKnowsBattery
<1> QED BY <1>1, <1>2, <1>3 DEF GaugeInv

LEMMA LockKeeps == GaugeInv /\ Gauge!Lock => GaugeInv'
<1> SUFFICES ASSUME GaugeInv, Gauge!Lock PROVE GaugeInv'
    OBVIOUS
<1>1. /\ bDriver' = [bDriver EXCEPT !.holds = TRUE]
      /\ UNCHANGED <<hw, bState, static, dynamic, read, query, torn, swapped>>
    BY DEF Gauge!Lock
<1>2. LoopOf(bDriver) /\ read = [r \in Gauge!Registers |-> read[r]]
    BY DEF GaugeInv, LoopInv
<1>3. LoopOf(bDriver') /\ bDriver'.up = bDriver.up /\ bDriver'.at = bDriver.at /\ bDriver'.next = bDriver.next
    BY <1>1, <1>2 DEF LoopOf, Loop
<1>4. LoopInv'
    BY <1>1, <1>2, <1>3 DEF LoopInv
<1> QED BY <1>1, <1>3, <1>4, LoopMoves

LEMMA InitializeKeeps == GaugeInv /\ Gauge!Initialize => GaugeInv'
<1> SUFFICES ASSUME GaugeInv, Gauge!Initialize PROVE GaugeInv'
    OBVIOUS
<1>1. /\ bDriver.at = "init" /\ hw' = [hw EXCEPT !.unit = "mA"] /\ bState' = "Init" /\ swapped' = "no"
      /\ bDriver' = Gauge!Goto("static") /\ read' = Gauge!NothingRead
      /\ UNCHANGED <<static, dynamic, query, torn>>
    BY DEF Gauge!Initialize, Gauge!OnInitialized
<1>2. LoopOf(bDriver) /\ bDriver.up
    BY <1>1 DEF GaugeInv, LoopInv, LoopOf
<1>3. /\ LoopOf(bDriver') /\ bDriver'.at = "static" /\ bDriver'.up = bDriver.up
      /\ bDriver'.next = Gauge!FirstOf("static")
    BY <1>1, <1>2, GotoFacts DEF Places
<1>4. bDriver'.next = "design"
    BY <1>3 DEF Gauge!FirstOf
<1>5. LoopInv'
    BY <1>1, <1>3 DEF LoopInv, Gauge!NothingRead
<1>6. ReadInv'
    BY <1>3, <1>4 DEF ReadInv, StaticRead
<1>7. hw'.unit = "mA" /\ hw' \in Gauge!Hardware
    BY <1>1 DEF GaugeInv, StateInv, Gauge!Hardware
<1>8. CacheInv'
    BY <1>1, <1>2, <1>3, <1>7 DEF GaugeInv, CacheInv, MomentCache, OwnCaches
<1>9. StateInv' /\ Gauge!PollingKnowsBattery'
    BY <1>1, <1>7 DEF GaugeInv, StateInv, Gauge!States, Gauge!PollingKnowsBattery
<1> QED BY <1>5, <1>6, <1>8, <1>9 DEF GaugeInv

LEMMA PingKeeps == GaugeParams /\ GaugeInv /\ Gauge!Ping => GaugeInv'
<1> SUFFICES ASSUME GaugeParams, GaugeInv, Gauge!Ping PROVE GaugeInv'
    OBVIOUS
<1>1. LoopOf(bDriver) /\ bDriver.at = "ping" /\ ~bDriver.up /\ read = [r \in Gauge!Registers |-> read[r]]
    BY DEF Gauge!Ping, GaugeInv, LoopInv, LoopOf
<1>2. UNCHANGED <<hw, static, dynamic, read, query, torn>>
    BY DEF Gauge!Ping
<1>3. CASE bDriver' = Gauge!Retry("ping") /\ UNCHANGED <<bState, swapped>>
  <2>1. LoopOf(bDriver') /\ bDriver'.up = bDriver.up /\ bDriver'.at \notin {"static", "dynamic"}
    BY <1>1, <1>3, RetryFacts
  <2>2. LoopInv'
    BY <1>1, <1>2, <2>1 DEF LoopInv
  <2> QED BY <1>2, <1>3, <2>1, <2>2, LoopMoves
<1>4. CASE Gauge!OnRecovered /\ bDriver' = Gauge!Give("wait")
  <2>1. LoopOf(bDriver') /\ bDriver'.at = "wait" /\ bDriver'.up = bDriver.up
    BY <1>1, <1>4, GotoFacts DEF Places
  <2>2. LoopInv'
    BY <1>1, <1>2, <2>1 DEF LoopInv
  <2>3. ReadInv'
    BY <2>1 DEF ReadInv
  <2>4. CacheInv'
    BY <1>1, <1>2, <1>4, <2>1 DEF GaugeInv, StateInv, CacheInv, MomentCache, OwnCaches, Gauge!OnRecovered
  <2>5. StateInv' /\ Gauge!PollingKnowsBattery'
    BY <1>2, <1>4 DEF GaugeInv, StateInv, Gauge!States, Gauge!PollingKnowsBattery, Gauge!OnRecovered
  <2> QED BY <2>2, <2>3, <2>4, <2>5 DEF GaugeInv
<1> QED BY <1>3, <1>4 DEF Gauge!Ping

\* A register that is read says what it says at that moment; the others that have
\* been read are not touched.
LEMMA RegisterFacts ==
    ASSUME GaugeInv, Gauge!ReadRegister
    PROVE  /\ read' = [r \in Gauge!Registers |-> read'[r]]
           /\ read'[bDriver.next] = Gauge!Value(bDriver.next)
           /\ \A r \in Gauge!Registers : r # bDriver.next => read'[r] = read[r]
<1>1. read = [r \in Gauge!Registers |-> read[r]] /\ bDriver.next \in Gauge!Registers
    BY DEF Gauge!ReadRegister, GaugeInv, LoopInv, LoopOf, Loop
<1>2. read' = [read EXCEPT ![bDriver.next] = Gauge!Value(bDriver.next)]
    BY DEF Gauge!ReadRegister
<1> QED BY <1>1, <1>2

LEMMA ReadRegisterKeeps == GaugeInv /\ Gauge!ReadRegister => GaugeInv'
<1> SUFFICES ASSUME GaugeInv, Gauge!ReadRegister PROVE GaugeInv'
    OBVIOUS
<1> DEFINE next == bDriver.next
<1>1. /\ bDriver' = [bDriver EXCEPT !.next = Gauge!Follows(bDriver.at, next)] /\ next # "store"
      /\ torn' = (torn /\ next # Gauge!FirstOf(bDriver.at))
      /\ UNCHANGED <<hw, bState, static, dynamic, query, swapped>>
    BY DEF Gauge!ReadRegister
<1>2. LoopOf(bDriver) /\ bDriver \in Loop
    BY DEF GaugeInv, LoopInv, LoopOf
<1>3. bDriver'.at = bDriver.at /\ bDriver'.up = bDriver.up /\ bDriver'.next = Gauge!Follows(bDriver.at, next)
    BY <1>1, <1>2 DEF Loop
<1>4. /\ bDriver.at = "init" => Gauge!Follows(bDriver.at, next) = "store"
      /\ bDriver.at = "static" => \/ next = "design" /\ Gauge!Follows(bDriver.at, next) = "mode"
                                  \/ next = "mode" /\ Gauge!Follows(bDriver.at, next) = "store"
      /\ bDriver.at = "dynamic" => \/ next = "status" /\ Gauge!Follows(bDriver.at, next) = "current"
                                   \/ next = "current" /\ Gauge!Follows(bDriver.at, next) = "full"
                                   \/ next = "full" /\ Gauge!Follows(bDriver.at, next) = "remaining"
                                   \/ next = "remaining" /\ Gauge!Follows(bDriver.at, next) = "store"
    BY <1>1, <1>2 DEF LoopOf, Gauge!Follows
<1>5. LoopOf(bDriver')
  <2>1. Gauge!Follows(bDriver.at, next) \in Gauge!Registers \cup {"store"}
    BY DEF Gauge!Follows, Gauge!Registers
  <2> QED BY <1>1, <1>2, <1>4, <2>1 DEF LoopOf, Loop
<1>6. LoopInv'
    BY <1>5, RegisterFacts DEF LoopInv
<1>7. \A r \in {"design", "mode", "status", "current", "full", "remaining"} :
         (r # next => read'[r] = read[r]) /\ (r = next => read'[r] = Gauge!Value(r))
    BY RegisterFacts DEF Gauge!Registers
<1>8. (bDriver.at = "static" /\ (swapped = "no" \/ (Gauge!IsOperational /\ swapped # "unnoticed"))) => StaticRead'
  <2> SUFFICES ASSUME bDriver.at = "static", StaticRead PROVE StaticRead'
    BY DEF GaugeInv, ReadInv, StaticRead
  <2>1. Gauge!Value("design") = Gauge!Capacity(hw.unit, hw.battery) /\ Gauge!Value("mode") = hw.unit
    BY DEF Gauge!Value
  <2>2. /\ next \in {"mode", "store"} => read["design"] = Gauge!Capacity(hw.unit, hw.battery)
        /\ Gauge!Capacity(hw.unit, hw.battery)' = Gauge!Capacity(hw.unit, hw.battery)
    BY <1>1 DEF StaticRead, Gauge!Capacity
  <2>3. CASE next = "design" /\ bDriver'.next = "mode"
    BY <1>1, <1>7, <2>1, <2>2, <2>3 DEF StaticRead
  <2>4. CASE next = "mode" /\ bDriver'.next = "store"
    BY <1>1, <1>7, <2>1, <2>2, <2>4 DEF StaticRead
  <2> QED BY <1>3, <1>4, <2>3, <2>4
<1>9. (bDriver.at = "dynamic" /\ ~torn') => MomentRead'
  <2> SUFFICES ASSUME bDriver.at = "dynamic", ~torn' PROVE MomentRead'
    OBVIOUS
  <2>1. /\ Gauge!Value("status") = (hw.level = 1) /\ Gauge!Value("current") = hw.level
        /\ Gauge!Value("remaining").n = hw.level
    BY DEF Gauge!Value, Gauge!Capacity
  <2>2. next # "status" => MomentRead
    BY <1>1 DEF GaugeInv, ReadInv, Gauge!FirstOf
  <2>3. CASE next = "status" /\ bDriver'.next = "current"
    BY <1>1, <1>7, <2>1, <2>3 DEF MomentRead
  <2>4. CASE next = "current" /\ bDriver'.next = "full"
    BY <1>1, <1>7, <2>1, <2>2, <2>4 DEF MomentRead
  <2>5. CASE next = "full" /\ bDriver'.next = "remaining"
    BY <1>1, <1>7, <2>2, <2>5 DEF MomentRead
  <2>6. CASE next = "remaining" /\ bDriver'.next = "store"
    BY <1>1, <1>7, <2>1, <2>2, <2>6 DEF MomentRead
  <2> QED BY <1>3, <1>4, <2>3, <2>4, <2>5, <2>6
<1>10. (bDriver.at = "dynamic" /\ swapped = "no") => OwnRead'
  <2> SUFFICES ASSUME bDriver.at = "dynamic", OwnRead PROVE OwnRead'
    BY DEF GaugeInv, ReadInv
  <2>1. /\ Gauge!Value("full") = Gauge!Capacity(hw.unit, hw.battery) /\ Gauge!Value("remaining").unit = hw.unit
        /\ Gauge!Capacity(hw.unit, hw.battery)' = Gauge!Capacity(hw.unit, hw.battery)
    BY <1>1 DEF Gauge!Value, Gauge!Capacity
  <2>2. CASE bDriver'.next \in {"current", "full"}
    BY <2>2 DEF OwnRead
  <2>3. CASE next = "full" /\ bDriver'.next = "remaining"
    BY <1>1, <1>7, <2>1, <2>3 DEF OwnRead
  <2>4. CASE next = "remaining" /\ bDriver'.next = "store"
    BY <1>1, <1>7, <2>1, <2>4 DEF OwnRead
  <2> QED BY <1>3, <1>4, <2>2, <2>3, <2>4
<1>11. ReadInv'
    BY <1>1, <1>3, <1>8, <1>9, <1>10 DEF ReadInv, Gauge!IsOperational
<1>12. CacheInv' /\ StateInv' /\ Gauge!PollingKnowsBattery'
    BY <1>1, <1>3 DEF GaugeInv, CacheInv, MomentCache, OwnCaches, StateInv, Gauge!PollingKnowsBattery
<1> QED BY <1>6, <1>11, <1>12 DEF GaugeInv

LEMMA UpdateStaticDataKeeps == GaugeInv /\ Gauge!UpdateStaticData => GaugeInv'
<1> SUFFICES ASSUME GaugeInv, Gauge!UpdateStaticData PROVE GaugeInv'
    OBVIOUS
<1>1. /\ bDriver.at = "static" /\ bDriver.next = "store" /\ read' = Gauge!NothingRead
      /\ static' = [design |-> read["design"], mode |-> read["mode"]]
      /\ bState' = (IF Gauge!IsOperational THEN "Polling" ELSE bState)
      /\ bDriver' = Gauge!Goto("dynamic") \/ (~bDriver.up /\ bDriver' = Gauge!Give("dynamic"))
      /\ UNCHANGED <<hw, dynamic, query, torn, swapped>>
    BY DEF Gauge!UpdateStaticData, Gauge!OnStaticData
<1>2. LoopOf(bDriver) /\ Gauge!FirstOf("dynamic") = "status"
    BY DEF GaugeInv, LoopInv, Gauge!FirstOf
<1>3. LoopOf(bDriver') /\ bDriver'.at = "dynamic" /\ bDriver'.up = bDriver.up /\ bDriver'.next = "status"
    BY <1>1, <1>2, GotoFacts DEF Places
<1>4. LoopInv'
    BY <1>1, <1>3 DEF LoopInv, Gauge!NothingRead
<1>5. ReadInv'
    BY <1>3 DEF ReadInv, MomentRead, OwnRead
<1>6. (swapped = "no" \/ (Gauge!IsOperational /\ swapped # "unnoticed"))
         => static' = [design |-> Gauge!Capacity(hw.unit, hw.battery), mode |-> hw.unit]
    BY <1>1 DEF GaugeInv, ReadInv, StaticRead
<1>7. CacheInv'
    BY <1>1, <1>3, <1>6 DEF GaugeInv, CacheInv, MomentCache, OwnCaches
<1>8. Gauge!PollingKnowsBattery'
    BY <1>1, <1>6 DEF GaugeInv, Gauge!PollingKnowsBattery, Gauge!IsOperational, Gauge!Capacity
<1>9. StateInv'
    BY <1>1 DEF GaugeInv, StateInv, Gauge!States
<1> QED BY <1>4, <1>5, <1>7, <1>8, <1>9 DEF GaugeInv

LEMMA UpdateDynamicDataKeeps == GaugeInv /\ Gauge!UpdateDynamicData => GaugeInv'
<1> SUFFICES ASSUME GaugeInv, Gauge!UpdateDynamicData PROVE GaugeInv'
    OBVIOUS
<1>1. /\ bDriver.at = "dynamic" /\ bDriver.next = "store" /\ read' = Gauge!NothingRead
      /\ dynamic' = [discharging |-> read["status"], rate |-> read["current"], full |-> read["full"],
                     remaining |-> read["remaining"], power |-> 100, torn |-> torn]
      /\ bDriver' = [Gauge!Give("wait") EXCEPT !.up = FALSE]
      /\ UNCHANGED <<hw, bState, static, query, torn, swapped>>
    BY DEF Gauge!UpdateDynamicData, Gauge!OnDynamicData
<1>2. LoopOf(bDriver) /\ Gauge!FirstOf("wait") = "store"
    BY DEF GaugeInv, LoopInv, Gauge!FirstOf
<1>3. bDriver' = [bDriver EXCEPT !.at = "wait", !.next = "store", !.holds = FALSE, !.up = FALSE]
    BY <1>1, <1>2 DEF Gauge!Give
<1>4. LoopOf(bDriver') /\ bDriver'.at = "wait"
    BY <1>1, <1>2, <1>3 DEF LoopOf, Loop, Places
<1>5. LoopInv' /\ ReadInv'
    BY <1>1, <1>4 DEF LoopInv, Gauge!NothingRead, ReadInv
<1>6. /\ dynamic'.torn = torn /\ dynamic'.full = read["full"] /\ dynamic'.remaining = read["remaining"]
      /\ dynamic'.rate = read["current"] /\ dynamic'.discharging = read["status"]
    BY <1>1
<1>7. MomentCache'
  <2> SUFFICES ASSUME ~torn PROVE MomentCache'
    BY <1>6 DEF MomentCache
  <2>1. (read["status"] <=> hw.level = 1) /\ read["current"] = hw.level /\ read["remaining"].n = hw.level
    BY <1>1 DEF GaugeInv, ReadInv, MomentRead
  <2> QED BY <1>6, <2>1 DEF MomentCache
<1>8. OwnCaches'
  <2> SUFFICES ASSUME swapped = "no" PROVE OwnCaches'
    BY <1>1 DEF OwnCaches
  <2>1. read["full"] = Gauge!Capacity(hw.unit, hw.battery) /\ read["remaining"].unit = hw.unit
    BY <1>1 DEF GaugeInv, ReadInv, OwnRead
  <2>2. hw.unit = "mA" /\ static = [design |-> Gauge!Capacity("mA", hw.battery), mode |-> "mA"]
    BY <1>1 DEF GaugeInv, CacheInv, OwnCaches
  <2> QED BY <1>1, <1>6, <2>1, <2>2 DEF OwnCaches
<1>9. StateInv' /\ Gauge!PollingKnowsBattery'
    BY <1>1 DEF GaugeInv, StateInv, Gauge!PollingKnowsBattery
<1> QED BY <1>5, <1>7, <1>8, <1>9 DEF GaugeInv, CacheInv

LEMMA TransferFailsKeeps ==
    ASSUME GaugeParams, GaugeInv, NEW timeout \in BOOLEAN, Gauge!TransferFails(timeout)
    PROVE  GaugeInv'
<1>1. /\ bDriver.at \in {"init", "static", "dynamic"} /\ bState' \in {bState, "NotOperational"}
      /\ \/ bDriver.up /\ bDriver' = Gauge!Retry("init")
         \/ /\ ~bDriver.up
            /\ bDriver' = [Gauge!Give(IF bDriver.at = "static" THEN "dynamic" ELSE "wait") EXCEPT !.failures = @ + 1]
      /\ read' = Gauge!NothingRead
      /\ UNCHANGED <<hw, static, dynamic, query, torn, swapped>>
    BY DEF Gauge!TransferFails, Gauge!OnTimeout
<1>2. LoopOf(bDriver)
    BY DEF GaugeInv, LoopInv
<1>3. CASE bDriver.up /\ bDriver' = Gauge!Retry("init")
  <2>1. LoopOf(bDriver') /\ bDriver'.up = bDriver.up /\ bDriver'.at \notin {"static", "dynamic"}
    BY <1>1, <1>2, <1>3, RetryFacts
  <2>2. LoopInv'
    BY <1>1, <2>1 DEF LoopInv, Gauge!NothingRead
  <2> QED BY <1>1, <2>1, <2>2, LoopMoves
<1>4. ASSUME NEW at \in {"dynamic", "wait"}, ~bDriver.up, bDriver' = [Gauge!Give(at) EXCEPT !.failures = @ + 1]
      PROVE  GaugeInv'
  <2>1. LoopOf(Gauge!Give(at)) /\ Gauge!Give(at).at = at /\ ~Gauge!Give(at).up
        /\ Gauge!Give(at).next = Gauge!FirstOf(at) /\ (at = "dynamic" => Gauge!FirstOf(at) = "status")
    BY <1>1, <1>2, <1>4, GotoFacts DEF Places, Gauge!FirstOf
  <2>2. LoopOf(bDriver') /\ bDriver'.at = at /\ ~bDriver'.up /\ bDriver'.next = Gauge!FirstOf(at)
    <3> DEFINE g == Gauge!Give(at)
    <3>1. bDriver' = [g EXCEPT !.failures = @ + 1]
      BY <1>4
    <3>2. LoopOf(g) /\ g.at = at /\ ~g.up /\ g.next = Gauge!FirstOf(at)
      BY <2>1
    <3> HIDE DEF g
    <3> QED BY <3>1, <3>2 DEF LoopOf, Loop
  <2>3. LoopInv'
    BY <1>1, <2>2 DEF LoopInv, Gauge!NothingRead
  <2>4. bDriver'.up = bDriver.up
    BY <1>2, <1>4, <2>2 DEF LoopOf, Loop
  <2> QED BY <1>1, <1>4, <2>1, <2>2, <2>3, <2>4, LoopMoves
<1> QED BY <1>1, <1>3, <1>4

LEMMA WakeKeeps ==
    ASSUME GaugeParams, GaugeInv, NEW at \in {"static", "dynamic"}, Gauge!Wake(at)
    PROVE  GaugeInv'
<1>1. /\ bDriver.at = "wait"
      /\ \/ bDriver' = [Gauge!Goto("ping") EXCEPT !.failures = 0, !.tries = Retries]
         \/ bDriver' = Gauge!Goto(at)
      /\ UNCHANGED <<hw, bState, static, dynamic, read, query, torn, swapped>>
    BY DEF Gauge!Wake
<1>2. LoopOf(bDriver) /\ ~bDriver.up /\ read = [r \in Gauge!Registers |-> read[r]]
    BY <1>1 DEF GaugeInv, LoopInv, LoopOf
<1>3. CASE bDriver' = [Gauge!Goto("ping") EXCEPT !.failures = 0, !.tries = Retries]
  <2> DEFINE g == Gauge!Goto("ping")
  <2>1. LoopOf(g) /\ g.at = "ping" /\ g.up = bDriver.up
    BY <1>1, <1>2, GotoFacts DEF Places
  <2>2. bDriver' = [g EXCEPT !.failures = 0, !.tries = Retries] /\ Retries \in 0 .. Retries /\ Retries >= 1
    BY <1>3 DEF GaugeParams
  <2> HIDE DEF g
  <2>3. LoopOf(bDriver') /\ bDriver'.at = "ping" /\ bDriver'.up = bDriver.up
    BY <2>1, <2>2 DEF LoopOf, Loop
  <2>4. LoopInv'
    BY <1>1, <1>2, <2>3 DEF LoopInv
  <2> QED BY <1>1, <2>3, <2>4, LoopMoves
<1>4. CASE bDriver' = Gauge!Goto(at)
  <2>1. LoopOf(bDriver') /\ bDriver'.at = at /\ bDriver'.up = bDriver.up /\ bDriver'.next = Gauge!FirstOf(at)
    BY <1>1, <1>2, <1>4, GotoFacts DEF Places
  <2>2. (at = "static" => Gauge!FirstOf(at) = "design") /\ (at = "dynamic" => Gauge!FirstOf(at) = "status")
    BY DEF Gauge!FirstOf
  <2>3. LoopInv'
    BY <1>1, <1>2, <2>1 DEF LoopInv
  <2> QED BY <1>1, <1>2, <2>1, <2>2, <2>3, LoopMoves
<1> QED BY <1>1, <1>3, <1>4

LEMMA QueryKeeps ==
    ASSUME GaugeParams, GaugeInv,
           Gauge!Answer \/ (\E kind \in Asked, id \in 0 .. 1 : Gauge!Ask(kind, id))
    PROVE  GaugeInv'
<1>1. UNCHANGED <<hw, bState, static, dynamic, bDriver, read, torn, swapped>> /\ query' \in Asked \cup {None}
    BY DEF Gauge!Answer, Gauge!Ask
<1>2. LoopInv' /\ ReadInv'
    BY <1>1 DEF GaugeInv, LoopInv, ReadInv, StaticRead, MomentRead, OwnRead, Gauge!IsOperational
<1>3. CacheInv' /\ StateInv' /\ Gauge!PollingKnowsBattery'
    BY <1>1 DEF GaugeParams, GaugeInv, CacheInv, MomentCache, OwnCaches, StateInv, Gauge!PollingKnowsBattery
<1> QED BY <1>2, <1>3 DEF GaugeInv

\* The hardware may change at any moment: the update that runs is torn, and an
\* exchange makes the battery another than the one that was initialized.
LEMMA HwChangeKeeps ==
    ASSUME GaugeInv, NEW h \in Gauge!Hardware, Gauge!HwChange(h)
    PROVE  GaugeInv'
<1>1. /\ hw' = h /\ torn' /\ UNCHANGED <<bState, static, dynamic, bDriver, read, query>>
      /\ \/ h.battery = hw.battery /\ h.unit = hw.unit /\ swapped' = swapped
         \/ swapped' \in {"noticed", "unnoticed"} /\ (Gauge!IsOperational => swapped' = "unnoticed")
    BY DEF Gauge!HwChange
<1>2. LoopInv' /\ StateInv'
    BY <1>1 DEF GaugeInv, LoopInv, StateInv
<1>3. CacheInv' /\ Gauge!PollingKnowsBattery'
    BY <1>1 DEF GaugeInv, CacheInv, MomentCache, OwnCaches, Gauge!PollingKnowsBattery, Gauge!IsOperational
<1>4. ReadInv'
    BY <1>1 DEF GaugeInv, ReadInv, StaticRead, OwnRead, Gauge!IsOperational
<1> QED BY <1>2, <1>3, <1>4 DEF GaugeInv

LEMMA GaugeStep == GaugeParams /\ GaugeInv /\ [Gauge!Next]_(Gauge!batteryVars) => GaugeInv'
<1> SUFFICES ASSUME GaugeParams, GaugeInv, [Gauge!Next]_(Gauge!batteryVars) PROVE GaugeInv'
    OBVIOUS
<1>1. CASE UNCHANGED Gauge!batteryVars
  <2>1. UNCHANGED <<hw, bState, static, dynamic, bDriver, read, query, torn, swapped>>
    BY <1>1 DEF Gauge!batteryVars
  <2>2. LoopInv' /\ ReadInv'
    BY <2>1 DEF GaugeInv, LoopInv, ReadInv, StaticRead, MomentRead, OwnRead, Gauge!IsOperational
  <2> QED BY <2>1, <2>2 DEF GaugeInv, CacheInv, MomentCache, OwnCaches, StateInv, Gauge!PollingKnowsBattery
<1> QED BY <1>1, LockKeeps, InitializeKeeps, PingKeeps, ReadRegisterKeeps, UpdateStaticDataKeeps,
           UpdateDynamicDataKeeps, TransferFailsKeeps, WakeKeeps, QueryKeeps, HwChangeKeeps DEF Gauge!Next

LEMMA GaugeImplies == GaugeInv => BatteryHonest
<1> SUFFICES ASSUME GaugeInv PROVE BatteryHonest
    OBVIOUS
<1>1. Gauge!TypeOK
    BY DEF GaugeInv, StateInv, LoopInv, LoopOf, Loop, Places, Gauge!TypeOK
<1>2. ~dynamic.torn => /\ Gauge!Compute("bst").remaining = Gauge!Compute("bst").rate
                       /\ Gauge!Compute("bst").state =
                             IF Gauge!Compute("bst").rate = 1 THEN "DISCHARGING" ELSE "CHARGING"
  <2>1. Gauge!Compute("bst") = Gauge!ComputeBst(dynamic)
    BY DEF Gauge!Compute
  <2>2. /\ Gauge!ComputeBst(dynamic).remaining = dynamic.remaining.n
        /\ Gauge!ComputeBst(dynamic).rate = dynamic.rate
        /\ Gauge!ComputeBst(dynamic).state = IF dynamic.discharging THEN "DISCHARGING" ELSE "CHARGING"
    BY DEF Gauge!ComputeBst, Gauge!CapacityRaw
  <2> QED BY <2>1, <2>2 DEF GaugeInv, CacheInv, MomentCache
<1>3. (swapped = "no" /\ ~bDriver.up) =>
         /\ Gauge!Compute("bix").design = hw.battery /\ Gauge!Compute("bix").full = hw.battery
         /\ \A c \in {static.design, dynamic.full, dynamic.remaining} : c.unit = Gauge!Compute("bix").unit
  <2> SUFFICES ASSUME swapped = "no", ~bDriver.up
               PROVE  /\ Gauge!Compute("bix").design = hw.battery /\ Gauge!Compute("bix").full = hw.battery
                      /\ \A c \in {static.design, dynamic.full, dynamic.remaining} :
                            c.unit = Gauge!Compute("bix").unit
    OBVIOUS
  <2>1. Gauge!Compute("bix") = Gauge!ComputeBix(static, dynamic)
    BY DEF Gauge!Compute
  <2>2. /\ Gauge!ComputeBix(static, dynamic).design = static.design.n
        /\ Gauge!ComputeBix(static, dynamic).full = dynamic.full.n
        /\ Gauge!ComputeBix(static, dynamic).unit = IF static.mode = "cW" THEN "mW" ELSE "mA"
    BY DEF Gauge!ComputeBix, Gauge!CapacityRaw
  <2>3. /\ static.design = Gauge!Capacity("mA", hw.battery) /\ static.mode = "mA"
        /\ dynamic.full = Gauge!Capacity("mA", hw.battery) /\ dynamic.remaining.unit = "mA"
    BY DEF GaugeInv, CacheInv, OwnCaches
  <2> QED BY <2>1, <2>2, <2>3 DEF Gauge!Capacity
<1>4. Gauge!AnswersWhole
    BY <1>2, <1>3 DEF Gauge!AnswersWhole
<1> QED BY <1>1, <1>4 DEF GaugeInv, Gauge!BatteryHonest, BatteryHonest

\* A gauge that is polled knows the battery that is in, unless it was exchanged
\* while the gauge was taken to be operational; what _BST tells of the battery is of
\* one moment, unless it changed while it was read; and _BIX puts together two
\* caches of the battery that was brought up, as long as that one is in.  All of it
\* for any number of attempts, failures, queries and batteries.
THEOREM BatteryHonestHolds ==
    ASSUME GaugeParams
    PROVE  Gauge!Spec => []BatteryHonest
<1>1. Gauge!Init => GaugeInv
    BY GaugeInit
<1>2. GaugeInv /\ [Gauge!Next]_(Gauge!batteryVars) => GaugeInv'
    BY GaugeStep
<1> QED BY <1>1, <1>2, GaugeImplies, PTL DEF Gauge!Spec
-----------------------------------------------------------------------------
(* The keyboard.                                                            *)

\* A matrix is finite, and error reports are neither None nor sets of keys.
KeyParams ==
    /\ IsFiniteSet(Cols) /\ IsFiniteSet(Rows)
    /\ Bounces \in Nat /\ QueueDepth \in Nat /\ MaxKeyChanges \in Nat
    /\ Keys!Errors \cap SUBSET Keys!Cells = {}
    /\ None \notin Keys!Errors \cup SUBSET Keys!Cells

LEMMA KeysCardinality == \A S : Keys!Cardinality(S) = Cardinality(S)
BY Zenon DEF Keys!Cardinality, Cardinality

\* Two different elements make a set of two or more, three a set of three or more.
LEMMA AtLeast ==
    ASSUME NEW S, IsFiniteSet(S)
    PROVE  /\ Cardinality(S) \in Nat
           /\ \A a, b \in S : a # b => Cardinality(S) >= 2
           /\ \A a, b, c \in S : a # b /\ a # c /\ b # c => Cardinality(S) >= 3
<1>1. Cardinality(S) \in Nat
  BY FS_CardinalityType
<1>2. ASSUME NEW a \in S, NEW b \in S, a # b
      PROVE  IsFiniteSet({a, b}) /\ Cardinality({a, b}) = 2 /\ Cardinality(S) >= 2
  <2>1. IsFiniteSet({a}) /\ Cardinality({a}) = 1 /\ b \notin {a} /\ {a} \cup {b} = {a, b}
    BY <1>2, FS_Singleton
  <2>2. IsFiniteSet({a, b}) /\ Cardinality({a, b}) = 1 + 1
    BY <2>1, FS_AddElement
  <2>3. Cardinality({a, b}) <= Cardinality(S)
    BY FS_Subset, {a, b} \in SUBSET S
  <2> QED  BY <1>1, <2>2, <2>3
<1>3. ASSUME NEW a \in S, NEW b \in S, NEW c \in S, a # b, a # c, b # c
      PROVE  Cardinality(S) >= 3
  <2>1. IsFiniteSet({a, b}) /\ Cardinality({a, b}) = 2
    BY <1>2, <1>3
  <2>2. c \notin {a, b} /\ {a, b} \cup {c} = {a, b, c}
    BY <1>3
  <2>3. IsFiniteSet({a, b, c}) /\ Cardinality({a, b, c}) = 2 + 1
    BY <2>1, <2>2, FS_AddElement
  <2>4. Cardinality({a, b, c}) <= Cardinality(S)
    BY FS_Subset, {a, b, c} \in SUBSET S
  <2> QED  BY <1>1, <2>3, <2>4
<1> QED  BY <1>1, <1>2, <1>3

\* What is held is read, and so is what it grows to.
LEMMA ReadingGrows ==
    ASSUME NEW S \in SUBSET Keys!Cells
    PROVE  /\ Keys!Reading(S) \in SUBSET Keys!Cells
           /\ Keys!Grown(S) \subseteq Keys!Reading(S)
           /\ S \subseteq Keys!Grown(S)
           /\ Keys!Grown(S) \subseteq S => Keys!Reading(S) = S
<1>1. S \subseteq Keys!Grown(S) /\ Keys!Grown(S) \subseteq Keys!Cells
  BY DEF Keys!Grown
<1>2. ASSUME NEW R \in SUBSET Keys!Cells, S \subseteq R
      PROVE  Keys!Grown(S) \subseteq Keys!Grown(R)
  BY <1>2 DEF Keys!Grown, Keys!RowsOf
<1>3. Keys!Grown(S) \subseteq Keys!Reading(S)
  BY <1>1, <1>2 DEF Keys!Reading
<1>4. Keys!Grown(S) \subseteq S => Keys!Reading(S) \subseteq S
  BY DEF Keys!Reading
<1>5. Keys!Reading(S) \in SUBSET Keys!Cells
  BY DEF Keys!Reading
<1> QED  BY <1>1, <1>3, <1>4, <1>5

\* A reading that has_ghost lets pass shows what is held and nothing else: a key
\* that only seems pressed is a corner of a rectangle, and its column shares two
\* rows with another one.
LEMMA NoGhostReads ==
    ASSUME KeyParams, NEW S \in SUBSET Keys!Cells, ~Keys!HasGhost(Keys!Reading(S))
    PROVE  Keys!Reading(S) = S
<1> DEFINE R == Keys!Reading(S)
<1>1. R \in SUBSET Keys!Cells /\ Keys!Grown(S) \subseteq R /\ S \subseteq R
  BY ReadingGrows
<1>2. SUFFICES ASSUME NEW k \in Keys!Grown(S), k \notin S
               PROVE  FALSE
  BY ReadingGrows
<1>3. k \in Keys!Cells /\ \E c2 \in Cols : /\ <<c2, k[2]>> \in S
                                         /\ Keys!RowsOf(S, k[1]) \cap Keys!RowsOf(S, c2) # {}
  BY <1>2 DEF Keys!Grown
<1>4. PICK c2 \in Cols : <<c2, k[2]>> \in S /\ Keys!RowsOf(S, k[1]) \cap Keys!RowsOf(S, c2) # {}
  BY <1>3
<1>5. PICK r \in Rows : <<k[1], r>> \in S /\ <<c2, r>> \in S
  BY <1>4 DEF Keys!RowsOf
<1> DEFINE c1 == k[1]
           q == k[2]
<1>6. c1 \in Cols /\ q \in Rows /\ k = <<c1, q>>
  BY <1>3 DEF Keys!Cells
<1>7. r # q /\ c1 # c2
  BY <1>2, <1>4, <1>5, <1>6
<1>8. <<c1, r>> \in R /\ <<c2, r>> \in R /\ <<c2, q>> \in R /\ <<c1, q>> \in R
  BY <1>1, <1>2, <1>4, <1>5, <1>6
<1> HIDE DEF R, c1, q
<1>9. IsFiniteSet(R)
  <2>1. IsFiniteSet(Keys!Cells)
    BY FS_Product DEF KeyParams, Keys!Cells
  <2> QED  BY <1>1, <2>1, FS_Subset
<1>10. Cardinality(R) >= 3
  <2>1. <<c1, r>> # <<c2, r>> /\ <<c1, r>> # <<c2, q>> /\ <<c2, r>> # <<c2, q>>
    BY <1>7
  <2> QED  BY <1>8, <1>9, <2>1, AtLeast
<1>11. Cardinality(Keys!RowsOf(R, c1) \cap Keys!RowsOf(R, c2)) >= 2
  <2> DEFINE B == Keys!RowsOf(R, c1) \cap Keys!RowsOf(R, c2)
  <2>1. r \in B /\ q \in B /\ B \in SUBSET Rows
    BY <1>6, <1>8 DEF Keys!RowsOf
  <2>2. IsFiniteSet(B)
    BY <2>1, FS_Subset DEF KeyParams
  <2> HIDE DEF B
  <2>3. Cardinality(B) >= 2
    BY <1>7, <2>1, <2>2, AtLeast
  <2> QED  BY <2>3 DEF B
<1>12. Cardinality(R) > 2
  BY <1>9, <1>10, AtLeast
<1>13. Keys!HasGhost(R)
  BY <1>6, <1>7, <1>11, <1>12, KeysCardinality DEF Keys!HasGhost
<1> QED  BY <1>13 DEF R

Reports == Keys!Errors \cup SUBSET Keys!Cells

\* HostFollows, of any reports w on their way, known keys h, state d and reset x.
Follows(w, h, d, x) ==
    \/ /\ \A i \in DOMAIN w : w[i] \in Keys!Errors
       /\ h = d \/ x
    \/ \E i \in DOMAIN w :
          /\ w[i] = d
          /\ \A j \in DOMAIN w : j > i => w[j] \in Keys!Errors

LEMMA FollowsFacts ==
    ASSUME KeyParams, NEW w \in Seq(Reports), NEW h, NEW d \in SUBSET Keys!Cells, NEW x \in BOOLEAN
    PROVE  /\ \A e \in Keys!Errors : Follows(w, h, d, x) => Follows(Append(w, e), h, d, x)
           /\ Follows(Append(w, d), h, d, x)
           /\ (w # <<>> /\ Follows(w, h, d, x)) =>
                 Follows(Tail(w), IF Head(w) \in Keys!Errors THEN h ELSE Head(w), d,
                         x /\ Head(w) \in Keys!Errors)
<1>1. /\ Len(w) \in Nat /\ DOMAIN w = 1..Len(w) /\ Keys!Errors \subseteq Reports
      /\ d \notin Keys!Errors /\ d \in Reports
  BY DEF Reports, KeyParams
<1>2. ASSUME NEW e \in Reports
      PROVE  /\ DOMAIN Append(w, e) = 1..(Len(w) + 1) /\ Append(w, e)[Len(w) + 1] = e
             /\ \A i \in 1..Len(w) : Append(w, e)[i] = w[i]
  BY <1>1
<1>3. ASSUME NEW e \in Keys!Errors, Follows(w, h, d, x)
      PROVE  Follows(Append(w, e), h, d, x)
  <2> DEFINE v == Append(w, e)
  <2>1. /\ DOMAIN v = 1..(Len(w) + 1) /\ v[Len(w) + 1] \in Keys!Errors
        /\ \A i \in 1..Len(w) : v[i] = w[i]
    BY <1>1, <1>2
  <2> HIDE DEF v
  <2>2. CASE \E i \in DOMAIN w : w[i] = d /\ \A j \in DOMAIN w : j > i => w[j] \in Keys!Errors
    <3>1. PICK i \in DOMAIN w : w[i] = d /\ \A j \in DOMAIN w : j > i => w[j] \in Keys!Errors
      BY <2>2
    <3>2. i \in DOMAIN v /\ v[i] = d
      BY <1>1, <2>1, <3>1
    <3>3. \A j \in DOMAIN v : j > i => v[j] \in Keys!Errors
      BY <1>1, <2>1, <3>1
    <3>4. Follows(v, h, d, x)
      BY <3>2, <3>3 DEF Follows
    <3> QED  BY <3>4 DEF v
  <2>3. CASE (\A i \in DOMAIN w : w[i] \in Keys!Errors) /\ (h = d \/ x)
    <3>1. \A i \in DOMAIN v : v[i] \in Keys!Errors
      BY <1>1, <2>1, <2>3
    <3>2. Follows(v, h, d, x)
      BY <2>3, <3>1 DEF Follows
    <3> QED  BY <3>2 DEF v
  <2> QED  BY <1>3, <2>2, <2>3 DEF Follows
<1>4. Follows(Append(w, d), h, d, x)
  <2> DEFINE v == Append(w, d)
  <2>1. Len(w) + 1 \in DOMAIN v /\ v[Len(w) + 1] = d /\ \A j \in DOMAIN v : ~(j > Len(w) + 1)
    BY <1>1, <1>2
  <2> HIDE DEF v
  <2>2. Follows(v, h, d, x)
    BY <2>1 DEF Follows
  <2> QED  BY <2>2 DEF v
<1>5. ASSUME w # <<>>, Follows(w, h, d, x)
      PROVE  Follows(Tail(w), IF Head(w) \in Keys!Errors THEN h ELSE Head(w), d,
                     x /\ Head(w) \in Keys!Errors)
  <2> DEFINE v == Tail(w)
             g == IF Head(w) \in Keys!Errors THEN h ELSE Head(w)
  <2>1. /\ Len(w) >= 1 /\ DOMAIN v = 1..(Len(w) - 1) /\ Head(w) = w[1]
        /\ \A i \in DOMAIN v : v[i] = w[i + 1] /\ i + 1 \in DOMAIN w
        /\ \A i \in DOMAIN w : i = 1 \/ (i - 1 \in DOMAIN v /\ v[i - 1] = w[i])
    BY <1>1, <1>5
  <2> HIDE DEF v
  <2>2. CASE (\A i \in DOMAIN w : w[i] \in Keys!Errors) /\ (h = d \/ x)
    <3>1. Head(w) \in Keys!Errors /\ \A i \in DOMAIN v : v[i] \in Keys!Errors
      BY <1>1, <2>1, <2>2
    <3>2. Follows(v, g, d, x /\ Head(w) \in Keys!Errors)
      BY <2>2, <3>1 DEF Follows
    <3> QED  BY <3>2 DEF v
  <2>3. CASE \E i \in DOMAIN w : w[i] = d /\ \A j \in DOMAIN w : j > i => w[j] \in Keys!Errors
    <3>1. PICK i \in DOMAIN w : w[i] = d /\ \A j \in DOMAIN w : j > i => w[j] \in Keys!Errors
      BY <2>3
    <3>2. CASE i = 1
      <4>1. g = d /\ \A j \in DOMAIN v : v[j] \in Keys!Errors
        BY <1>1, <2>1, <3>1, <3>2
      <4>2. Follows(v, g, d, x /\ Head(w) \in Keys!Errors)
        BY <4>1 DEF Follows
      <4> QED  BY <4>2 DEF v
    <3>3. CASE i # 1
      <4>1. i - 1 \in DOMAIN v /\ v[i - 1] = d
        BY <2>1, <3>1, <3>3
      <4>2. \A j \in DOMAIN v : j > i - 1 => v[j] \in Keys!Errors
        BY <1>1, <2>1, <3>1
      <4>3. Follows(v, g, d, x /\ Head(w) \in Keys!Errors)
        BY <4>1, <4>2 DEF Follows
      <4> QED  BY <4>3 DEF v
    <3> QED  BY <3>2, <3>3
  <2> QED  BY <1>5, <2>2, <2>3 DEF Follows
<1> QED  BY <1>3, <1>4, <1>5

LEMMA FollowsLast ==
    ASSUME NEW w \in Seq(Reports), NEW h, NEW d, NEW x, w # <<>>, Follows(w, h, d, x)
    PROVE  w[Len(w)] \in Keys!Errors \cup {d}
<1>1. Len(w) \in DOMAIN w /\ DOMAIN w = 1..Len(w)
  OBVIOUS
<1> QED  BY <1>1 DEF Follows

\* The reports on their way, from the three places they may be in.
Maybe(r) == IF r = None THEN <<>> ELSE <<r>>
Way(p, q, r) == Maybe(p) \o q \o Maybe(r)

LEMMA InFlightIs == Keys!InFlight = Way(pending, queue, report)
BY DEF Keys!InFlight, Maybe, Way

LEMMA WayFacts ==
    ASSUME KeyParams, NEW p \in Reports \cup {None}, NEW q \in Seq(Reports), NEW r \in Reports
    PROVE  /\ Way(p, q, None) \in Seq(Reports)
           /\ Way(p, q, r) \in Seq(Reports)
           /\ Way(p, q, r) = Append(Way(p, q, None), r)
           /\ Way(p, Append(q, r), None) = Way(p, q, r)
<1>1. None \notin Reports
  BY DEF KeyParams, Reports
<1>2. Maybe(p) \in Seq(Reports) /\ Maybe(None) = <<>> /\ Maybe(r) = <<r>>
  BY <1>1 DEF Maybe
<1> DEFINE s == Maybe(p) \o q
<1>3. s \in Seq(Reports)
  BY <1>2
<1>4. Maybe(p) \o Append(q, r) = Append(s, r)
  BY <1>2
<1> HIDE DEF s
<1>5. s \o <<>> = s /\ s \o <<r>> = Append(s, r) /\ Append(s, r) \o <<>> = Append(s, r)
      /\ Append(s, r) \in Seq(Reports)
  BY <1>3
<1> QED  BY <1>2, <1>3, <1>4, <1>5 DEF s, Way

LEMMA TakeFacts ==
    ASSUME KeyParams, NEW q \in Seq(Reports), NEW p \in Reports, NEW r \in Reports \cup {None}
    PROVE  /\ Head(Way(p, q, r)) = p
           /\ Tail(Way(p, q, r)) = Way(None, q, r)
           /\ Way(p, q, r) # <<>>
           /\ q # <<>> => /\ Way(None, q, r) = Way(Head(q), Tail(q), r)
                          /\ Head(q) \in Reports /\ Tail(q) \in Seq(Reports)
<1>1. None \notin Reports
  BY DEF KeyParams, Reports
<1>2. Maybe(p) = <<p>> /\ Maybe(None) = <<>> /\ Maybe(r) \in Seq(Reports)
  BY <1>1 DEF Maybe
<1>3. ASSUME NEW s \in Seq(Reports), NEW t \in Seq(Reports), NEW a \in Reports
      PROVE  /\ <<>> \o s = s
             /\ (<<a>> \o s) \o t = <<a>> \o (s \o t)
             /\ Head(<<a>> \o s) = a /\ Tail(<<a>> \o s) = s /\ <<a>> \o s # <<>>
  OBVIOUS
<1>4. q \o Maybe(r) \in Seq(Reports)
  BY <1>2
<1>5. q # <<>> => q = <<Head(q)>> \o Tail(q) /\ Head(q) \in Reports /\ Tail(q) \in Seq(Reports)
  OBVIOUS
<1>6. q # <<>> => Maybe(Head(q)) = <<Head(q)>>
  BY <1>1, <1>5 DEF Maybe
<1>7. Way(p, q, r) = <<p>> \o (q \o Maybe(r))
  BY <1>2, <1>3 DEF Way
<1>8. Way(None, q, r) = q \o Maybe(r)
  BY <1>2, <1>3 DEF Way
<1>9. q # <<>> => Way(Head(q), Tail(q), r) = q \o Maybe(r)
  BY <1>5, <1>6, Zenon DEF Way
<1>10. Head(Way(p, q, r)) = p /\ Way(p, q, r) # <<>>
  BY <1>3, <1>4, <1>7
<1>11. Tail(Way(p, q, r)) = q \o Maybe(r)
  BY <1>3, <1>4, <1>7
<1> QED  BY <1>5, <1>8, <1>9, <1>10, <1>11

\* The reports in each place and the runner's place in its loop: it holds a report
\* only while it publishes.
KeyInv ==
    /\ Keys!KeyboardHonest
    /\ queue \in Seq(Reports)
    /\ pending \in Reports \cup {None}
    /\ report \in Reports \cup {None}
    /\ kPc = "publish" <=> report # None
    /\ dropped \in BOOLEAN

LEMMA FollowsIs == Keys!HostFollows <=> Follows(Way(pending, queue, report), hostKeys, debounced, dropped)
BY InFlightIs DEF Keys!HostFollows, Follows

LEMMA KeyInit == KeyParams /\ Keys!Init => KeyInv
<1> SUFFICES ASSUME KeyParams, Keys!Init PROVE KeyInv
  OBVIOUS
<1>1. Keys!TypeOK
  <2>1. powerChanged \in BOOLEAN
    BY Zenon DEF Keys!Init
  <2>2. Len(queue) = 0 /\ since \in 0 .. Bounces /\ kChanges \in 0 .. MaxKeyChanges
    BY DEF KeyParams, Keys!Init
  <2> QED  BY <2>1, <2>2 DEF KeyParams, Keys!Init, Keys!TypeOK, Keys!PowerState
<1>2. Keys!InFlight = <<>>
  BY DEF Keys!Init, Keys!InFlight
<1>3. Keys!HostFollows
  BY <1>2 DEF Keys!Init, Keys!HostFollows
<1>4. dropped \in BOOLEAN /\ Keys!NoGhostKeys
  BY Zenon DEF Keys!Init, Keys!NoGhostKeys
<1>5. /\ queue \in Seq(Reports) /\ pending \in Reports \cup {None} /\ report \in Reports \cup {None}
      /\ kPc = "gate" /\ report = None
  BY DEF Keys!Init
<1> QED  BY <1>1, <1>3, <1>4, <1>5 DEF KeyInv, Keys!KeyboardHonest

\* Steps that leave the reports on their way, and what they show, alone.
LEMMA KeysKept ==
    ASSUME KeyParams, KeyInv, Keys!TypeOK', kPc' = "publish" <=> kPc = "publish",
           UNCHANGED <<report, queue, pending, hostKeys, held, debounced, dropped>>
    PROVE  KeyInv'
<1>1. Keys!HostFollows'
  BY DEF KeyInv, Keys!KeyboardHonest, Keys!HostFollows, Keys!InFlight
<1>2. Keys!NoGhostKeys'
  BY DEF KeyInv, Keys!KeyboardHonest, Keys!NoGhostKeys
<1> QED  BY <1>1, <1>2 DEF KeyInv, Keys!KeyboardHonest

\* The runner makes a report: an error, or the state it debounced.
LEMMA ReportMade ==
    ASSUME KeyParams, KeyInv, Keys!TypeOK', kPc # "publish", kPc' = "publish",
           UNCHANGED <<queue, pending, hostKeys, dropped>>,
           \/ report' \in Keys!Errors /\ UNCHANGED <<held, debounced>>
           \/ report' = debounced' /\ (Deghost => debounced' = held')
    PROVE  KeyInv'
<1>1. /\ report = None /\ queue \in Seq(Reports) /\ pending \in Reports \cup {None}
      /\ dropped \in BOOLEAN /\ Keys!NoGhostKeys
      /\ Follows(Way(pending, queue, None), hostKeys, debounced, dropped)
      /\ debounced \in SUBSET Keys!Cells
  BY FollowsIs DEF KeyInv, Keys!KeyboardHonest, Keys!TypeOK
<1>2. debounced' \in SUBSET Keys!Cells /\ report' \in Reports /\ report' # None
  BY DEF Keys!TypeOK, Reports, KeyParams
<1> DEFINE w == Way(pending, queue, None)
<1>3. w \in Seq(Reports) /\ Way(pending, queue, report') = Append(w, report')
  BY <1>1, <1>2, WayFacts
<1> HIDE DEF w
<1>4. Follows(Append(w, report'), hostKeys, debounced', dropped)
  <2>1. CASE report' \in Keys!Errors /\ debounced' = debounced
    BY <1>1, <1>3, <2>1, FollowsFacts DEF w
  <2>2. CASE report' = debounced'
    BY <1>1, <1>2, <1>3, <2>2, FollowsFacts
  <2> QED  BY <2>1, <2>2
<1>5. Keys!HostFollows'
  <2>1. Keys!InFlight' = Append(w, report')
    BY <1>2, <1>3 DEF Keys!InFlight, Maybe, Way
  <2> QED  BY <1>4, <2>1 DEF Follows, Keys!HostFollows
<1>6. Keys!NoGhostKeys'
  BY <1>1 DEF Keys!NoGhostKeys
<1> QED  BY <1>1, <1>2, <1>5, <1>6 DEF KeyInv, Keys!KeyboardHonest

LEMMA RunnerKeeps ==
    ASSUME KeyParams, KeyInv, Keys!Runner
    PROVE  KeyInv'
<1> USE DEF Keys!relayVars, Keys!scanVars
<1>0. Keys!TypeOK
  BY DEF KeyInv, Keys!KeyboardHonest
<1>1. CASE Keys!PassGate \/ Keys!GateCloses \/ Keys!ScanUnpowered \/ Keys!Poll \/ Keys!BackOff
  <2>1. /\ kPc # "publish" /\ kPc' # "publish" /\ kPc' \in {"gate", "waiting", "scan"}
        /\ UNCHANGED <<keys, power, powerChanged, report, queue, pending, last, leds, hostKeys, held,
                       debounced, candidate, since, dropped, kChanges>>
    BY <1>1 DEF Keys!PassGate, Keys!GateCloses, Keys!ScanUnpowered, Keys!Poll, Keys!BackOff
  <2>2. Keys!TypeOK'
    BY <1>0, <2>1 DEF Keys!TypeOK
  <2> QED  BY <2>1, <2>2, KeysKept
<1>2. CASE Keys!GateWakes
  <2>1. /\ kPc # "publish" /\ kPc' = "gate" /\ powerChanged' = FALSE
        /\ UNCHANGED <<keys, power, report, queue, pending, last, leds, hostKeys, held,
                       debounced, candidate, since, dropped, kChanges>>
    BY <1>2 DEF Keys!GateWakes
  <2>2. Keys!TypeOK'
    BY <1>0, <2>1 DEF Keys!TypeOK
  <2> QED  BY <2>1, <2>2, KeysKept
<1>3. CASE Keys!ScanQuiet
  <2> DEFINE seen == Keys!Reading(keys)
  <2>1. /\ kPc = "scan" /\ kPc' = "poll" /\ ~Keys!Settles(seen)
        /\ candidate' = (IF seen = debounced THEN candidate ELSE seen)
        /\ since' = (CASE seen = debounced -> 0
                       [] seen # debounced /\ seen = candidate -> since + 1
                       [] seen # debounced /\ seen # candidate -> 1)
        /\ UNCHANGED <<keys, power, powerChanged, report, queue, pending, last, leds, hostKeys, held,
                       debounced, dropped, kChanges>>
    BY <1>3 DEF Keys!ScanQuiet
  <2>2. seen \in SUBSET Keys!Cells
    BY <1>0, ReadingGrows DEF Keys!TypeOK
  <2> HIDE DEF seen
  <2>3. candidate' \in SUBSET Keys!Cells /\ since' \in 0 .. Bounces
    <3>1. since \in 0 .. Bounces /\ Bounces \in Nat
      BY <1>0 DEF Keys!TypeOK, KeyParams
    <3>2. since' = 0 \/ (since' = since + 1 /\ ~(since + 1 > Bounces)) \/ (since' = 1 /\ ~(1 > Bounces))
      BY <2>1 DEF Keys!Settles
    <3>3. candidate' \in SUBSET Keys!Cells
      BY <1>0, <2>1, <2>2 DEF Keys!TypeOK
    <3> QED  BY <3>1, <3>2, <3>3
  <2>4. Keys!TypeOK'
    BY <1>0, <2>1, <2>3 DEF Keys!TypeOK
  <2> QED  BY <2>1, <2>4, KeysKept
<1>4. CASE Keys!ScanChanged
  <2> DEFINE seen == Keys!Reading(keys)
  <2>1. /\ kPc = "scan" /\ kPc' = "publish" /\ ~(Deghost /\ Keys!HasGhost(seen))
        /\ debounced' = seen /\ held' = keys /\ candidate' = debounced /\ since' = 0
        /\ report' = seen
        /\ UNCHANGED <<keys, power, powerChanged, queue, pending, last, leds, hostKeys, dropped, kChanges>>
    BY <1>4 DEF Keys!ScanChanged
  <2>2. keys \in SUBSET Keys!Cells /\ seen \in SUBSET Keys!Cells
    BY <1>0, ReadingGrows DEF Keys!TypeOK
  <2>3. Deghost => seen = keys
    BY <2>1, <2>2, NoGhostReads
  <2> HIDE DEF seen
  <2>4. Keys!TypeOK'
    BY <1>0, <2>1, <2>2 DEF Keys!TypeOK, KeyParams
  <2> QED  BY <2>1, <2>3, <2>4, ReportMade
<1>5. CASE Keys!ScanFailed
  <2>1. /\ kPc = "scan" /\ kPc' = "publish" /\ report' \in Keys!Errors
        /\ kChanges' = kChanges \/ (kChanges < MaxKeyChanges /\ kChanges' = kChanges + 1)
        /\ UNCHANGED <<keys, power, powerChanged, queue, pending, last, leds, hostKeys, dropped,
                       debounced, candidate, since, held>>
    BY <1>5 DEF Keys!ScanFailed, Keys!Change, Keys!Errors
  <2>2. kChanges' \in 0 .. MaxKeyChanges
    BY <1>0, <2>1 DEF Keys!TypeOK, KeyParams
  <2>3. Keys!TypeOK'
    BY <1>0, <2>1, <2>2 DEF Keys!TypeOK
  <2> QED  BY <2>1, <2>3, ReportMade
<1>6. CASE Keys!Publish
  <2>1. /\ kPc = "publish" /\ Len(queue) < QueueDepth /\ queue' = Append(queue, report)
        /\ report' = None /\ kPc' \in {"backoff", "gate"}
        /\ UNCHANGED <<keys, power, powerChanged, pending, last, leds, hostKeys, dropped,
                       debounced, candidate, since, held, kChanges>>
    BY <1>6 DEF Keys!Publish
  <2>2. report \in Reports /\ queue \in Seq(Reports) /\ pending \in Reports \cup {None}
    BY <2>1 DEF KeyInv
  <2>3. queue' \in Seq(Reports) /\ Len(queue') <= QueueDepth
    BY <2>1, <2>2 DEF KeyParams
  <2>4. Keys!TypeOK'
    BY <1>0, <2>1, <2>3 DEF Keys!TypeOK
  <2>5. Keys!InFlight' = Keys!InFlight
    <3>1. Keys!InFlight' = Way(pending, Append(queue, report), None)
      BY <2>1 DEF Keys!InFlight, Maybe, Way
    <3> QED  BY <2>2, <3>1, InFlightIs, WayFacts
  <2>6. Keys!HostFollows' /\ Keys!NoGhostKeys'
    BY <2>1, <2>5 DEF KeyInv, Keys!KeyboardHonest, Keys!HostFollows, Keys!NoGhostKeys
  <2> QED  BY <2>1, <2>2, <2>3, <2>4, <2>6 DEF KeyInv, Keys!KeyboardHonest
<1> QED  BY <1>1, <1>2, <1>3, <1>4, <1>5, <1>6 DEF Keys!Runner

LEMMA RelayKeeps ==
    ASSUME KeyParams, KeyInv,
           Keys!WaitForInputReport \/ Keys!ProcessNextInputReport \/ Keys!Reset
    PROVE  KeyInv'
<1> USE DEF Keys!relayVars, Keys!scanVars
<1>0. Keys!TypeOK /\ Keys!HostFollows /\ Keys!NoGhostKeys
  BY DEF KeyInv, Keys!KeyboardHonest
<1>1. /\ queue \in Seq(Reports) /\ pending \in Reports \cup {None} /\ report \in Reports \cup {None}
      /\ dropped \in BOOLEAN /\ None \notin Reports /\ debounced \in SUBSET Keys!Cells
      /\ QueueDepth \in Nat /\ Len(queue) <= QueueDepth /\ hostKeys \in SUBSET Keys!Cells
  BY <1>0 DEF KeyInv, KeyParams, Reports, Keys!TypeOK
<1> DEFINE way == Way(pending, queue, report)
<1>2. way \in Seq(Reports) /\ Follows(way, hostKeys, debounced, dropped)
  <2>1. way \in Seq(Reports)
    <3>1. {} \in Reports
      BY DEF Reports
    <3>2. CASE report = None
      BY <1>1, <3>1, <3>2, WayFacts
    <3>3. CASE report # None
      BY <1>1, <3>3, WayFacts
    <3> QED  BY <3>2, <3>3
  <2> QED  BY <1>0, <2>1, FollowsIs
<1>3. CASE Keys!WaitForInputReport
  <2>1. /\ pending = None /\ queue # <<>> /\ pending' = Head(queue) /\ queue' = Tail(queue)
        /\ UNCHANGED <<keys, kPc, power, powerChanged, report, last, leds, hostKeys, dropped,
                       debounced, candidate, since, held, kChanges>>
    BY <1>3 DEF Keys!WaitForInputReport
  <2>2. /\ Head(queue) \in Reports /\ Tail(queue) \in Seq(Reports) /\ Len(Tail(queue)) <= QueueDepth
    BY <1>1, <2>1
  <2>3. Keys!TypeOK'
    BY <1>0, <2>1, <2>2 DEF Keys!TypeOK
  <2>4. Keys!InFlight' = Keys!InFlight
    <3>1. Keys!InFlight' = Way(Head(queue), Tail(queue), report)
      BY <2>1 DEF Keys!InFlight, Maybe, Way
    <3> QED  BY <1>1, <2>1, <2>2, <3>1, InFlightIs, TakeFacts
  <2>5. Keys!HostFollows' /\ Keys!NoGhostKeys'
    BY <1>0, <2>1, <2>4 DEF Keys!HostFollows, Keys!NoGhostKeys
  <2> QED  BY <2>1, <2>2, <2>3, <2>5 DEF KeyInv, Keys!KeyboardHonest
<1>4. CASE Keys!ProcessNextInputReport
  <2> DEFINE next == IF pending # None THEN pending ELSE Head(queue)
             left == IF pending # None THEN queue ELSE Tail(queue)
  <2>1. /\ pending # None \/ queue # <<>>
        /\ pending' = None /\ queue' = left
        /\ hostKeys' = (IF next \in Keys!Errors THEN hostKeys ELSE next)
        /\ dropped' = (dropped /\ next \in Keys!Errors)
        /\ UNCHANGED <<keys, kPc, power, powerChanged, report, leds, kChanges,
                       debounced, candidate, since, held>>
    BY <1>4 DEF Keys!ProcessNextInputReport
  <2>2. next \in Reports /\ left \in Seq(Reports) /\ Len(left) <= QueueDepth
    BY <1>1, <2>1
  <2>3. /\ Head(way) = next /\ way # <<>>
        /\ Tail(way) = Way(None, left, report)
    <3>1. CASE pending # None
      <4>1. next = pending /\ left = queue /\ pending \in Reports
        BY <1>1, <3>1
      <4> HIDE DEF next, left
      <4> QED  BY <1>1, <4>1, TakeFacts
    <3>2. CASE pending = None
      <4>1. /\ queue # <<>> /\ next = Head(queue) /\ left = Tail(queue)
            /\ way = Way(None, queue, report)
        BY <2>1, <3>2
      <4>2. {} \in Reports
        BY DEF Reports
      <4>3. way = Way(next, left, report)
        BY <1>1, <4>1, <4>2, TakeFacts
      <4> HIDE DEF way, next, left
      <4> QED  BY <1>1, <2>2, <4>3, TakeFacts
    <3> QED  BY <3>1, <3>2
  <2> HIDE DEF next, left, way
  <2>4. Follows(Tail(way), hostKeys', debounced, dropped')
    BY <1>1, <1>2, <2>1, <2>3, FollowsFacts
  <2>5. hostKeys' \in SUBSET Keys!Cells /\ dropped' \in BOOLEAN
    BY <1>1, <2>1, <2>2 DEF Reports
  <2>6. Keys!TypeOK'
    BY <1>0, <2>1, <2>2, <2>5 DEF Keys!TypeOK
  <2>7. Keys!InFlight' = Tail(way)
    BY <2>1, <2>3 DEF Keys!InFlight, Maybe, Way
  <2>8. Keys!HostFollows'
    BY <2>1, <2>4, <2>7 DEF Follows, Keys!HostFollows
  <2>9. Keys!NoGhostKeys'
    BY <1>0, <2>1 DEF Keys!NoGhostKeys
  <2> QED  BY <2>1, <2>2, <2>5, <2>6, <2>8, <2>9 DEF KeyInv, Keys!KeyboardHonest
<1>5. CASE Keys!Reset
  <2>1. /\ kChanges < MaxKeyChanges /\ kChanges' = kChanges + 1
        /\ pending' = None /\ queue' = <<>> /\ hostKeys' = {} /\ dropped' = TRUE
        /\ UNCHANGED <<keys, kPc, power, powerChanged, report, leds,
                       debounced, candidate, since, held>>
    BY <1>5 DEF Keys!Reset, Keys!Change
  <2>2. kChanges' \in 0 .. MaxKeyChanges
    BY <1>0, <2>1 DEF Keys!TypeOK, KeyParams
  <2>3. Keys!TypeOK'
    BY <1>0, <1>1, <2>1, <2>2 DEF Keys!TypeOK
  <2>4. Keys!InFlight' = Maybe(report)
    <3>1. Keys!InFlight' = <<>> \o <<>> \o Maybe(report)
      BY <2>1 DEF Keys!InFlight, Maybe, Way
    <3>2. Maybe(report) \in Seq(Reports)
      BY <1>1 DEF Maybe
    <3> QED  BY <3>1, <3>2
  <2>5. Keys!HostFollows'
    <3>1. CASE report = None
      <4>1. Keys!InFlight' = <<>>
        BY <2>4, <3>1 DEF Maybe
      <4> QED  BY <2>1, <4>1 DEF Keys!HostFollows
    <3>2. CASE report # None
      <4> DEFINE v == Way(pending, queue, None)
      <4>1. v \in Seq(Reports) /\ way = Append(v, report)
        BY <1>1, <3>2, WayFacts
      <4> HIDE DEF v, way
      <4>2. way # <<>> /\ way[Len(way)] = report
        BY <1>1, <3>2, <4>1
      <4>3. report \in Keys!Errors \cup {debounced}
        <5>1. way[Len(way)] \in Keys!Errors \cup {debounced}
          BY <1>2, <4>2, FollowsLast, Zenon
        <5> QED  BY <4>2, <5>1
      <4>4. Keys!InFlight' = <<report>>
        BY <2>4, <3>2 DEF Maybe
      <4>5. DOMAIN Keys!InFlight' = {1} /\ Keys!InFlight'[1] = report
        BY <4>4
      <4> QED  BY <2>1, <4>3, <4>5 DEF Keys!HostFollows
    <3> QED  BY <3>1, <3>2
  <2>6. Keys!NoGhostKeys'
    BY <1>0, <2>1 DEF Keys!NoGhostKeys
  <2> QED  BY <1>1, <2>1, <2>3, <2>5, <2>6 DEF KeyInv, Keys!KeyboardHonest
<1> QED  BY <1>3, <1>4, <1>5

LEMMA KeyStep == KeyParams /\ KeyInv /\ [Keys!Next]_(Keys!kbVars) => KeyInv'
<1> SUFFICES ASSUME KeyParams, KeyInv, [Keys!Next]_(Keys!kbVars) PROVE KeyInv'
  OBVIOUS
<1> USE DEF Keys!relayVars, Keys!scanVars
<1>0. Keys!TypeOK
  BY DEF KeyInv, Keys!KeyboardHonest
<1>1. CASE \/ \E p \in Keys!PowerState : Keys!SetPowerState(p)
           \/ Keys!SetLeds({"CapsLock"})
           \/ \E k \in Keys!Cells : Keys!MoveKey(k)
  <2>1. /\ kChanges < MaxKeyChanges /\ kChanges' = kChanges + 1
        /\ UNCHANGED <<kPc, report, queue, pending, hostKeys, held, debounced, candidate, since, dropped>>
    BY <1>1 DEF Keys!SetPowerState, Keys!SetLeds, Keys!MoveKey, Keys!Change
  <2>2. kChanges' \in 0 .. MaxKeyChanges
    BY <1>0, <2>1 DEF Keys!TypeOK, KeyParams
  <2>3. power' \in Keys!PowerState
    BY <1>0, <1>1 DEF Keys!TypeOK, Keys!SetPowerState, Keys!SetLeds, Keys!MoveKey
  <2>4. powerChanged' \in BOOLEAN
    BY <1>0, <1>1, Zenon DEF Keys!TypeOK, Keys!SetPowerState, Keys!SetLeds, Keys!MoveKey
  <2>5. leds' \subseteq Keys!LedFlags
    BY <1>0, <1>1 DEF Keys!TypeOK, Keys!SetPowerState, Keys!SetLeds, Keys!MoveKey, Keys!LedFlags
  <2>6. keys' \subseteq Keys!Cells
    BY <1>0, <1>1 DEF Keys!TypeOK, Keys!SetPowerState, Keys!SetLeds, Keys!MoveKey
  <2>7. Keys!TypeOK'
    BY <1>0, <2>1, <2>2, <2>3, <2>4, <2>5, <2>6 DEF Keys!TypeOK
  <2> QED  BY <2>1, <2>7, KeysKept
<1>2. CASE UNCHANGED Keys!kbVars
  <2>1. UNCHANGED <<keys, kPc, power, powerChanged, debounced, candidate, since, report, queue, pending,
                    leds, hostKeys, held, dropped, kChanges>>
    BY <1>2 DEF Keys!kbVars
  <2>2. Keys!TypeOK'
    BY <1>0, <2>1 DEF Keys!TypeOK
  <2> QED  BY <2>1, <2>2, KeysKept
<1> QED  BY <1>1, <1>2, RunnerKeeps, RelayKeeps DEF Keys!Next

\* Between the debouncer and the host no report is lost, doubled or overtaken
\* unless a reset throws it away, and with deghost every key that is debounced is
\* one that a finger holds, for every finite matrix, depth of the channel and
\* number of bounces.
THEOREM KeyboardHonestHolds ==
    ASSUME KeyParams
    PROVE  Keys!Spec => []KeyboardHonest
<1>1. Keys!Init => KeyInv
  BY KeyInit
<1>2. KeyInv /\ [Keys!Next]_(Keys!kbVars) => KeyInv'
  BY KeyStep
<1>3. KeyInv => KeyboardHonest
  BY DEF KeyInv, KeyboardHonest
<1> QED  BY <1>1, <1>2, <1>3, PTL DEF Keys!Spec
-----------------------------------------------------------------------------
(* The temperature sensor.                                                  *)

Names == {"WarnHigh", "WarnLow", "Prochot", "Critical"}

\* What the configuration of a sensor is made of.
SensorParams ==
    /\ Celsius \subseteq Int /\ Offset \in Int /\ Hysteresis \in Nat
    /\ Retries \in Nat /\ SampleBufLen \in Nat \ {0} /\ EventRoom \in Nat
    /\ DOMAIN SensorConfig \subseteq Names
    /\ SensorConfig \in [DOMAIN SensorConfig -> Celsius]

\* The event that tells whether threshold t is among the exceeded ones, n.
Tells(t, n) == <<IF t \in n THEN "ThresholdExceeded" ELSE "ThresholdCleared", t>>

\* A listener that takes the events of c knows whether t is among n.
WillKnow(c, told, t, n) ==
    \/ /\ \A i \in DOMAIN c : c[i][2] # t
       /\ (t \in told) <=> (t \in n)
    \/ \E i \in DOMAIN c :
          /\ c[i] = Tells(t, n)
          /\ \A j \in DOMAIN c : j > i => c[j][2] # t

\* What HeatKnown says holds of the runner's flags and the newest sample, and the
\* flags are what the listener will know.
SensorInv ==
    /\ Sensor!TypeOK /\ Sensor!OffIsReported
    /\ \A t \in Sensor!Thresholds \ sMissed : WillKnow(sChannel, sTold, t, sExceeded)
    /\ sPc = "sleep" => sSamples[1] \in Int
    /\ sPc = "sleep" =>
          \A t \in Sensor!Thresholds \ sMoved :
             /\ Sensor!IsExceeded(t, sSamples[1]) => t \in sExceeded
             /\ t \in sExceeded => ~Sensor!IsCleared(t, sSamples[1])

\* An event is about a threshold, or the failure.
LEMMA EventFacts ==
    ASSUME SensorParams
    PROVE  /\ "RetryExhausted" \notin Sensor!Thresholds
           /\ \A t \in Sensor!Thresholds : \A n :
                 Tells(t, n) \in Sensor!Event /\ Tells(t, n)[2] = t /\ Tells(t, n)[1] # "Failure"
           /\ <<"Failure", "RetryExhausted">> \in Sensor!Event
           /\ \A e \in Sensor!Event :
                 \/ e = <<"Failure", "RetryExhausted">>
                 \/ e[2] \in Sensor!Thresholds /\ (e = Tells(e[2], {e[2]}) \/ e = Tells(e[2], {}))
<1>1. "RetryExhausted" \notin Sensor!Thresholds
  BY DEF SensorParams, Names, Sensor!Thresholds
<1>2. ASSUME NEW t \in Sensor!Thresholds, NEW n
      PROVE  Tells(t, n) \in Sensor!Event /\ Tells(t, n)[2] = t /\ Tells(t, n)[1] # "Failure"
  BY DEF Tells, Sensor!Event
<1>3. <<"Failure", "RetryExhausted">> \in Sensor!Event
  BY DEF Sensor!Event
<1>4. ASSUME NEW e \in Sensor!Event
      PROVE  \/ e = <<"Failure", "RetryExhausted">>
             \/ e[2] \in Sensor!Thresholds /\ (e = Tells(e[2], {e[2]}) \/ e = Tells(e[2], {}))
  BY DEF Tells, Sensor!Event
<1> QED  BY <1>1, <1>2, <1>3, <1>4

LEMMA SensorInit == SensorParams /\ Sensor!Init => SensorInv
<1> SUFFICES ASSUME SensorParams, Sensor!Init PROVE SensorInv
  OBVIOUS
<1>1. /\ sEnabled \in BOOLEAN /\ sSignal \in BOOLEAN /\ sOwed \in BOOLEAN /\ sOwed = sEnabled
  BY Zenon DEF Sensor!Init
<1>2. /\ sHeat \in Celsius /\ sThreshold \in [Sensor!Thresholds -> Celsius]
      /\ sSamples = <<>> /\ sExceeded = {} /\ sPc = "top" /\ sTries = 0
      /\ sChannel = <<>> /\ sTold = {} /\ sMissed = {} /\ sMoved = {}
  BY DEF Sensor!Init, SensorParams, Sensor!Thresholds
<1>3. sSamples \in Seq(Int) /\ sChannel \in Seq(Sensor!Event) /\ Len(sSamples) = 0 /\ Len(sChannel) = 0
  BY <1>2
<1>4. Sensor!TypeOK
  BY <1>1, <1>2, <1>3 DEF Sensor!TypeOK, SensorParams
<1>5. Sensor!OffIsReported
  BY <1>1 DEF Sensor!OffIsReported
<1>6. ASSUME NEW t \in Sensor!Thresholds
      PROVE  WillKnow(sChannel, sTold, t, sExceeded)
  BY <1>2 DEF WillKnow
<1> QED  BY <1>2, <1>4, <1>5, <1>6 DEF SensorInv

\* The channel after the first k events of e were added to it.
Plus(c, e, k) == c \o SubSeq(e, 1, k)

LEMMA Joined ==
    ASSUME NEW S, NEW c \in Seq(S), NEW s \in Seq(S)
    PROVE  /\ c \o s \in Seq(S) /\ Len(c \o s) = Len(c) + Len(s)
           /\ DOMAIN (c \o s) = 1..(Len(c) + Len(s))
           /\ DOMAIN c = 1..Len(c) /\ Len(c) \in Nat
           /\ \A i \in 1..Len(c) : (c \o s)[i] = c[i]
           /\ \A i \in 1..Len(s) : (c \o s)[Len(c) + i] = s[i]
OBVIOUS

LEMMA Added ==
    ASSUME NEW c \in Seq(Sensor!Event), NEW e \in Seq(Sensor!Event), NEW k \in 0..Len(e)
    PROVE  /\ Plus(c, e, k) \in Seq(Sensor!Event) /\ Len(Plus(c, e, k)) = Len(c) + k
           /\ DOMAIN Plus(c, e, k) = 1..(Len(c) + k)
           /\ DOMAIN c = 1..Len(c) /\ Len(c) \in Nat
           /\ \A i \in 1..Len(c) : Plus(c, e, k)[i] = c[i]
           /\ \A i \in 1..k : Plus(c, e, k)[Len(c) + i] = e[i]
<1> DEFINE s == SubSeq(e, 1, k)
<1>1. s \in Seq(Sensor!Event) /\ Len(s) = k /\ \A i \in 1..k : s[i] = e[i]
  OBVIOUS
<1> HIDE DEF s
<1>2. Plus(c, e, k) = c \o s
  BY DEF s, Plus
<1>3. /\ c \o s \in Seq(Sensor!Event) /\ Len(c \o s) = Len(c) + Len(s)
      /\ DOMAIN (c \o s) = 1..(Len(c) + Len(s))
      /\ DOMAIN c = 1..Len(c) /\ Len(c) \in Nat
      /\ \A i \in 1..Len(c) : (c \o s)[i] = c[i]
      /\ \A i \in 1..Len(s) : (c \o s)[Len(c) + i] = s[i]
  BY <1>1, Joined
<1> QED  BY <1>1, <1>2, <1>3, Zenon

\* What a listener will know of t is not changed by events about others, and is
\* what the one event about t says.
LEMMA KnowsMore ==
    ASSUME NEW c \in Seq(Sensor!Event), NEW e \in Seq(Sensor!Event), NEW k \in 0..Len(e),
           NEW told, NEW t, NEW n
    PROVE  /\ (/\ WillKnow(c, told, t, n)
               /\ \A i \in 1..k : e[i][2] # t) => WillKnow(Plus(c, e, k), told, t, n)
           /\ (\E i \in 1..k : e[i] = Tells(t, n) /\ \A j \in 1..k : j # i => e[j][2] # t)
                 => WillKnow(Plus(c, e, k), told, t, n)
<1> DEFINE d == Plus(c, e, k)
<1>1. /\ DOMAIN d = 1..(Len(c) + k) /\ DOMAIN c = 1..Len(c) /\ Len(c) \in Nat
      /\ \A i \in 1..Len(c) : d[i] = c[i]
      /\ \A i \in 1..k : d[Len(c) + i] = e[i]
  BY Added, Zenon
<1> k \in Nat
  OBVIOUS
<1> HIDE DEF d
<1>2. \A i \in DOMAIN d : i \in 1..Len(c) \/ (i - Len(c) \in 1..k /\ d[i] = e[i - Len(c)])
  <2> SUFFICES ASSUME NEW i \in DOMAIN d, i \notin 1..Len(c)
               PROVE  i - Len(c) \in 1..k /\ d[i] = e[i - Len(c)]
    OBVIOUS
  <2>1. i - Len(c) \in 1..k /\ Len(c) + (i - Len(c)) = i
    BY <1>1
  <2> QED  BY <1>1, <2>1
<1>3. ASSUME WillKnow(c, told, t, n), \A i \in 1..k : e[i][2] # t
      PROVE  WillKnow(d, told, t, n)
  <2>1. CASE (\A i \in DOMAIN c : c[i][2] # t) /\ ((t \in told) <=> (t \in n))
    <3>1. \A i \in DOMAIN d : d[i][2] # t
      BY <1>1, <1>2, <1>3, <2>1
    <3> QED  BY <2>1, <3>1 DEF WillKnow
  <2>2. CASE \E i \in DOMAIN c : c[i] = Tells(t, n) /\ \A j \in DOMAIN c : j > i => c[j][2] # t
    <3>1. PICK i \in DOMAIN c : c[i] = Tells(t, n) /\ \A j \in DOMAIN c : j > i => c[j][2] # t
      BY <2>2
    <3>2. i \in DOMAIN d /\ d[i] = Tells(t, n)
      BY <1>1, <3>1
    <3>3. \A j \in DOMAIN d : j > i => d[j][2] # t
      BY <1>1, <1>2, <1>3, <3>1
    <3> QED  BY <3>2, <3>3 DEF WillKnow
  <2> QED  BY <1>3, <2>1, <2>2 DEF WillKnow
<1>4. ASSUME NEW i \in 1..k, e[i] = Tells(t, n), \A j \in 1..k : j # i => e[j][2] # t
      PROVE  WillKnow(d, told, t, n)
  <2> DEFINE m == Len(c) + i
  <2>1. m \in DOMAIN d /\ d[m] = Tells(t, n)
    BY <1>1, <1>4
  <2>2. ASSUME NEW j \in DOMAIN d, j > m
        PROVE  d[j][2] # t
    <3>1. j \notin 1..Len(c) /\ j - Len(c) # i
      BY <1>1, <2>2
    <3> QED  BY <1>2, <1>4, <3>1
  <2> HIDE DEF m
  <2> QED  BY <2>1, <2>2 DEF WillKnow
<1> QED  BY <1>3, <1>4 DEF d

\* A failure is on its way to the host, or was dropped.
FailureSent(c, missed) == "RetryExhausted" \in missed \/ \E i \in DOMAIN c : c[i][1] = "Failure"

\* Events e, at most one of each threshold, that say what the flags n say.
EventsOf(e, n) ==
    /\ e \in Seq(Sensor!Event)
    /\ \A i, j \in 1..Len(e) : i # j => e[i][2] # e[j][2]
    /\ \A i \in 1..Len(e) : e[i][2] \in Sensor!Thresholds => e[i] = Tells(e[i][2], n)
    /\ \A t \in Sensor!Thresholds :
          (\A i \in 1..Len(e) : e[i][2] # t) => ((t \in n) <=> (t \in sExceeded))

\* broadcast_event of them: what is dropped is remembered in missed, and the
\* listener will know of all others.
LEMMA BroadcastKeeps ==
    ASSUME SensorParams, SensorInv, NEW e, NEW n, EventsOf(e, n), Sensor!Broadcast(e)
    PROVE  /\ sChannel' \in Seq(Sensor!Event) /\ Len(sChannel') <= EventRoom
           /\ \A t \in Sensor!Thresholds \ sMissed' : WillKnow(sChannel', sTold, t, n)
           /\ (FailureSent(sChannel, sMissed) /\ \A i \in 1..Len(e) : e[i][2] # "RetryExhausted")
                 => FailureSent(sChannel', sMissed')
           /\ (\E i \in 1..Len(e) : e[i] = <<"Failure", "RetryExhausted">>)
                 => FailureSent(sChannel', sMissed')
<1> DEFINE room == EventRoom - Len(sChannel)
           k == IF Len(e) < room THEN Len(e) ELSE room
<1>1. /\ sChannel \in Seq(Sensor!Event) /\ Len(sChannel) <= EventRoom /\ Len(sChannel) \in Nat
      /\ EventRoom \in Nat /\ e \in Seq(Sensor!Event) /\ Len(e) \in Nat
  BY DEF SensorInv, Sensor!TypeOK, SensorParams, EventsOf
<1>2. k \in 0..Len(e) /\ Len(sChannel) + k <= EventRoom
  BY <1>1
<1>3. /\ sChannel' = Plus(sChannel, e, k)
      /\ sMissed' = (sMissed \ {e[i][2] : i \in 1..k}) \cup {e[i][2] : i \in (k + 1)..Len(e)}
  BY DEF Sensor!Broadcast, Plus
<1> HIDE DEF k
<1>4. /\ sChannel' \in Seq(Sensor!Event) /\ Len(sChannel') = Len(sChannel) + k
      /\ DOMAIN sChannel' = 1..(Len(sChannel) + k) /\ DOMAIN sChannel = 1..Len(sChannel)
      /\ \A i \in 1..Len(sChannel) : sChannel'[i] = sChannel[i]
      /\ \A i \in 1..k : sChannel'[Len(sChannel) + i] = e[i]
  BY <1>1, <1>2, <1>3, Added
<1>5. ASSUME NEW i \in 1..Len(e)
      PROVE  i \in 1..k \/ e[i][2] \in sMissed'
  <2>1. i \in 1..k \/ i \in (k + 1)..Len(e)
    BY <1>1, <1>2
  <2> QED  BY <1>3, <2>1
<1>6. ASSUME NEW t \in Sensor!Thresholds \ sMissed'
      PROVE  WillKnow(sChannel', sTold, t, n)
  <2>1. CASE \E i \in 1..Len(e) : e[i][2] = t
    <3>1. PICK i \in 1..Len(e) : e[i][2] = t
      BY <2>1
    <3>2. i \in 1..k /\ e[i] = Tells(t, n)
      BY <1>5, <1>6, <3>1 DEF EventsOf
    <3>3. \A j \in 1..k : j \in 1..Len(e) /\ (j # i => e[j][2] # t)
      BY <1>1, <1>2, <3>1 DEF EventsOf
    <3> QED  BY <1>1, <1>2, <1>3, <3>2, <3>3, KnowsMore
  <2>2. CASE \A i \in 1..Len(e) : e[i][2] # t
    <3>1. t \notin sMissed
      BY <1>1, <1>2, <1>3, <1>6, <2>2
    <3>2. (t \in n) <=> (t \in sExceeded)
      BY <1>6, <2>2 DEF EventsOf
    <3>3. WillKnow(sChannel, sTold, t, n)
      <4>1. WillKnow(sChannel, sTold, t, sExceeded)
        BY <1>6, <3>1 DEF SensorInv
      <4> QED  BY <3>2, <4>1 DEF WillKnow, Tells
    <3>4. \A i \in 1..k : e[i][2] # t
      BY <1>1, <1>2, <2>2
    <3> QED  BY <1>1, <1>2, <1>3, <3>3, <3>4, KnowsMore
  <2> QED  BY <2>1, <2>2
<1>7. ASSUME FailureSent(sChannel, sMissed), \A i \in 1..Len(e) : e[i][2] # "RetryExhausted"
      PROVE  FailureSent(sChannel', sMissed')
  <2>1. CASE "RetryExhausted" \in sMissed
    <3>1. \A i \in 1..k : e[i][2] # "RetryExhausted"
      BY <1>1, <1>2, <1>7
    <3> QED  BY <1>3, <2>1, <3>1 DEF FailureSent
  <2>2. CASE \E i \in DOMAIN sChannel : sChannel[i][1] = "Failure"
    <3>1. PICK i \in DOMAIN sChannel : sChannel[i][1] = "Failure"
      BY <2>2
    <3>2. i \in DOMAIN sChannel' /\ sChannel'[i][1] = "Failure"
      BY <1>1, <1>2, <1>4, <3>1
    <3> QED  BY <3>2 DEF FailureSent
  <2> QED  BY <1>7, <2>1, <2>2 DEF FailureSent
<1>8. ASSUME NEW i \in 1..Len(e), e[i] = <<"Failure", "RetryExhausted">>
      PROVE  FailureSent(sChannel', sMissed')
  <2>1. CASE i \in 1..k
    <3>1. Len(sChannel) + i \in DOMAIN sChannel' /\ sChannel'[Len(sChannel) + i][1] = "Failure"
      BY <1>1, <1>2, <1>4, <1>8, <2>1
    <3> QED  BY <3>1 DEF FailureSent
  <2>2. CASE e[i][2] \in sMissed'
    <3>1. e[i][2] = "RetryExhausted"
      BY <1>8
    <3> QED  BY <2>2, <3>1 DEF FailureSent
  <2> QED  BY <1>5, <2>1, <2>2
<1> QED  BY <1>1, <1>2, <1>4, <1>6, <1>7, <1>8

\* The events of the thresholds of S, for the flags n after them.
EventsFor(e, n, S) ==
    /\ e \in Seq(Sensor!Event)
    /\ \A i, j \in 1..Len(e) : i # j => e[i][2] # e[j][2]
    /\ \A i \in 1..Len(e) : e[i][2] \in S \cap Sensor!Thresholds /\ e[i] = Tells(e[i][2], n)
    /\ \A t \in S \cap Sensor!Thresholds :
          (\A i \in 1..Len(e) : e[i][2] # t) => ((t \in n) <=> (t \in sExceeded))

\* check_thresholds goes on to the next threshold.
LEMMA NextThreshold ==
    ASSUME SensorParams, NEW temp \in Int, NEW n,
           n = {t \in Sensor!Thresholds :
                  IF t \in sExceeded THEN ~Sensor!IsCleared(t, temp) ELSE Sensor!IsExceeded(t, temp)},
           NEW S, NEW e, EventsFor(e, n, S), NEW t, t \notin S
    PROVE  EventsFor(e \o Sensor!ThresholdEvent(t, temp), n, S \cup {t})
<1> DEFINE x == Sensor!ThresholdEvent(t, temp)
           f == e \o x
<1>1. \/ x = <<>> /\ (t \in Sensor!Thresholds => ((t \in n) <=> (t \in sExceeded)))
      \/ t \in Sensor!Thresholds /\ x = <<Tells(t, n)>>
  BY DEF Sensor!ThresholdEvent, Tells
<1>2. e \in Seq(Sensor!Event) /\ Len(e) \in Nat
  BY DEF EventsFor
<1> HIDE DEF x
<1>3. CASE x = <<>> /\ (t \in Sensor!Thresholds => ((t \in n) <=> (t \in sExceeded)))
  <2>1. e \o x = e
    BY <1>2, <1>3
  <2>2. EventsFor(e, n, S \cup {t})
    BY <1>3 DEF EventsFor
  <2> QED  BY <2>1, <2>2 DEF x
<1>4. CASE t \in Sensor!Thresholds /\ x = <<Tells(t, n)>>
  <2>1. Tells(t, n) \in Sensor!Event /\ Tells(t, n)[2] = t
    BY <1>4, EventFacts
  <2>2. /\ f \in Seq(Sensor!Event) /\ Len(f) = Len(e) + 1
        /\ f[Len(e) + 1] = Tells(t, n)
        /\ \A i \in 1..Len(e) : f[i] = e[i]
    BY <1>2, <1>4, <2>1
  <2> HIDE DEF f
  <2>3. \A i \in 1..Len(f) : i \in 1..Len(e) \/ i = Len(e) + 1
    BY <1>2, <2>2
  <2>4. /\ \A i, j \in 1..Len(e) : i # j => e[i][2] # e[j][2]
        /\ \A i \in 1..Len(e) : /\ e[i][2] \in S \cap Sensor!Thresholds
                                /\ e[i] = Tells(e[i][2], n)
        /\ \A u \in S \cap Sensor!Thresholds :
              (\A i \in 1..Len(e) : e[i][2] # u) => ((u \in n) <=> (u \in sExceeded))
    BY DEF EventsFor
  <2>5. \A i, j \in 1..Len(f) : i # j => f[i][2] # f[j][2]
    <3>1. ASSUME NEW i \in 1..Len(e)
          PROVE  f[i][2] # t
      BY <2>2, <2>4
    <3>2. f[Len(e) + 1][2] = t
      BY <2>1, <2>2
    <3>3. \A i, j \in 1..Len(e) : i # j => f[i][2] # f[j][2]
      BY <2>2, <2>4
    <3> QED  BY <2>3, <3>1, <3>2, <3>3
  <2>6. \A i \in 1..Len(f) : /\ f[i][2] \in (S \cup {t}) \cap Sensor!Thresholds
                             /\ f[i] = Tells(f[i][2], n)
    BY <1>4, <2>1, <2>2, <2>3, <2>4
  <2>7. ASSUME NEW u \in (S \cup {t}) \cap Sensor!Thresholds, \A i \in 1..Len(f) : f[i][2] # u
        PROVE  (u \in n) <=> (u \in sExceeded)
    <3>1. Len(e) + 1 \in 1..Len(f) /\ \A i \in 1..Len(e) : i \in 1..Len(f)
      BY <1>2, <2>2
    <3>2. u # t
      BY <2>1, <2>2, <2>7, <3>1
    <3> QED  BY <2>2, <2>4, <2>7, <3>1, <3>2
  <2>8. EventsFor(f, n, S \cup {t})
    BY <2>2, <2>5, <2>6, <2>7 DEF EventsFor
  <2> QED  BY <2>8 DEF f, x
<1> QED  BY <1>1, <1>3, <1>4

\* The events of one check_thresholds.
LEMMA CheckedEvents ==
    ASSUME SensorParams, NEW temp \in Int, NEW n,
           n = {t \in Sensor!Thresholds :
                  IF t \in sExceeded THEN ~Sensor!IsCleared(t, temp) ELSE Sensor!IsExceeded(t, temp)}
    PROVE  LET e == Sensor!ThresholdEvent("WarnHigh", temp) \o Sensor!ThresholdEvent("WarnLow", temp)
                      \o Sensor!ThresholdEvent("Prochot", temp) \o Sensor!ThresholdEvent("Critical", temp)
           IN  EventsOf(e, n) /\ \A i \in 1..Len(e) : e[i][2] # "RetryExhausted"
<1> DEFINE e1 == Sensor!ThresholdEvent("WarnHigh", temp)
           e2 == e1 \o Sensor!ThresholdEvent("WarnLow", temp)
           e3 == e2 \o Sensor!ThresholdEvent("Prochot", temp)
           e4 == e3 \o Sensor!ThresholdEvent("Critical", temp)
<1>1. EventsFor(<<>>, n, {})
  <2>1. 1..Len(<<>>) = {} /\ <<>> \in Seq(Sensor!Event)
    OBVIOUS
  <2> QED  BY <2>1 DEF EventsFor
<1>2. EventsFor(e1, n, {} \cup {"WarnHigh"})
  <2>1. EventsFor(<<>> \o e1, n, {} \cup {"WarnHigh"})
    BY <1>1, NextThreshold
  <2>2. <<>> \o e1 = e1
    <3>1. e1 = <<>> \/ \E x : e1 = <<x>>
      BY DEF Sensor!ThresholdEvent
    <3> HIDE DEF e1
    <3> QED  BY <3>1
  <2> QED  BY <2>1, <2>2
<1> HIDE DEF e1
<1>3. EventsFor(e2, n, {} \cup {"WarnHigh"} \cup {"WarnLow"})
  BY <1>2, NextThreshold
<1> HIDE DEF e2
<1>4. EventsFor(e3, n, {} \cup {"WarnHigh"} \cup {"WarnLow"} \cup {"Prochot"})
  BY <1>3, NextThreshold
<1> HIDE DEF e3
<1>5. EventsFor(e4, n, {} \cup {"WarnHigh"} \cup {"WarnLow"} \cup {"Prochot"} \cup {"Critical"})
  BY <1>4, NextThreshold
<1> HIDE DEF e4
<1>6. {} \cup {"WarnHigh"} \cup {"WarnLow"} \cup {"Prochot"} \cup {"Critical"} = Names
  BY DEF Names
<1>7. Names \cap Sensor!Thresholds = Sensor!Thresholds
  BY DEF SensorParams, Sensor!Thresholds
<1>8. EventsOf(e4, n) /\ \A i \in 1..Len(e4) : e4[i][2] # "RetryExhausted"
  BY <1>5, <1>6, <1>7, EventFacts DEF EventsFor, EventsOf
<1> QED  BY <1>8 DEF e1, e2, e3, e4

\* A step that leaves the flags, the samples and the events alone.
LEMMA SensorKept ==
    ASSUME SensorInv, Sensor!TypeOK', Sensor!OffIsReported',
           UNCHANGED <<sChannel, sTold, sMissed, sExceeded, sSamples>>,
           sPc' = "sleep" => sPc = "sleep",
           \A t \in Sensor!Thresholds \ sMoved' : t \notin sMoved /\ sThreshold'[t] = sThreshold[t]
    PROVE  SensorInv'
<1>1. ASSUME NEW t \in Sensor!Thresholds \ sMissed'
      PROVE  WillKnow(sChannel', sTold', t, sExceeded')
  BY DEF SensorInv
<1>2. ASSUME sPc' = "sleep", NEW t \in Sensor!Thresholds \ sMoved'
      PROVE  /\ Sensor!IsExceeded(t, sSamples[1])' => t \in sExceeded'
             /\ t \in sExceeded' => ~Sensor!IsCleared(t, sSamples[1])'
  <2>1. /\ Sensor!IsExceeded(t, sSamples[1]) => t \in sExceeded
        /\ t \in sExceeded => ~Sensor!IsCleared(t, sSamples[1])
    BY <1>2 DEF SensorInv
  <2> QED  BY <1>2, <2>1 DEF Sensor!IsExceeded, Sensor!IsCleared
<1>3. sPc' = "sleep" => sSamples'[1] \in Int
  BY DEF SensorInv
<1> QED  BY <1>1, <1>2, <1>3 DEF SensorInv, Sensor!Thresholds

\* The listener takes an event: what it will know stays what it will know.
LEMMA ListenKnows ==
    ASSUME NEW c \in Seq(Sensor!Event), c # <<>>, NEW told, NEW tnew, NEW t \in Sensor!Thresholds, NEW n,
           tnew = CASE c[1][1] = "ThresholdExceeded" -> told \cup {c[1][2]}
                    [] c[1][1] = "ThresholdCleared" -> told \ {c[1][2]}
                    [] OTHER -> told,
           SensorParams, WillKnow(c, told, t, n)
    PROVE  WillKnow(Tail(c), tnew, t, n)
<1> DEFINE d == Tail(c)
<1>1. /\ Len(c) \in Nat \ {0} /\ DOMAIN c = 1..Len(c) /\ DOMAIN d = 1..(Len(c) - 1)
      /\ \A i \in 1..(Len(c) - 1) : d[i] = c[i + 1]
  OBVIOUS
<1> HIDE DEF d
<1>2. c[1] \in Sensor!Event
  BY <1>1
<1>3. CASE (\A i \in DOMAIN c : c[i][2] # t) /\ ((t \in told) <=> (t \in n))
  <2>1. \A i \in DOMAIN d : d[i][2] # t
    BY <1>1, <1>3
  <2>2. c[1][2] # t
    BY <1>1, <1>3
  <2>3. (t \in tnew) <=> (t \in told)
    BY <2>2
  <2> QED  BY <1>3, <2>1, <2>3 DEF WillKnow, d
<1>4. ASSUME NEW i \in DOMAIN c, c[i] = Tells(t, n), \A j \in DOMAIN c : j > i => c[j][2] # t
      PROVE  WillKnow(d, tnew, t, n)
  <2>1. CASE i = 1
    <3>1. \A j \in DOMAIN d : d[j][2] # t
      BY <1>1, <1>4, <2>1
    <3>2. c[1] = Tells(t, n)
      BY <1>4, <2>1
    <3>3. (t \in tnew) <=> (t \in n)
      BY <3>2 DEF Tells
    <3> QED  BY <3>1, <3>3 DEF WillKnow
  <2>2. CASE i # 1
    <3> DEFINE m == i - 1
    <3>1. m \in DOMAIN d /\ d[m] = Tells(t, n)
      BY <1>1, <1>4, <2>2
    <3>2. \A j \in DOMAIN d : j > m => d[j][2] # t
      BY <1>1, <1>4, <2>2
    <3> HIDE DEF m
    <3> QED  BY <3>1, <3>2 DEF WillKnow
  <2> QED  BY <2>1, <2>2
<1> QED  BY <1>3, <1>4 DEF WillKnow, d

LEMMA ListenKeeps == SensorParams /\ SensorInv /\ Sensor!Listen => SensorInv'
<1> SUFFICES ASSUME SensorParams, SensorInv, Sensor!Listen PROVE SensorInv'
  OBVIOUS
<1> DEFINE e == Head(sChannel)
<1>0. Sensor!TypeOK
  BY DEF SensorInv
<1>1. /\ sChannel # <<>> /\ sChannel' = Tail(sChannel)
      /\ sTold' = CASE e[1] = "ThresholdExceeded" -> sTold \cup {e[2]}
                    [] e[1] = "ThresholdCleared" -> sTold \ {e[2]}
                    [] OTHER -> sTold
      /\ UNCHANGED <<sHeat, sEnabled, sThreshold, sSignal, sSamples, sExceeded, sPc, sTries, sMissed, sMoved>>
  BY DEF Sensor!Listen, Sensor!config
<1>2. sOwed' = (sOwed /\ e[1] # "Failure")
  BY DEF Sensor!Listen
<1>3. /\ sChannel \in Seq(Sensor!Event) /\ Len(sChannel) \in Nat \ {0} /\ e = sChannel[1]
      /\ sChannel' \in Seq(Sensor!Event) /\ Len(sChannel') = Len(sChannel) - 1
      /\ \A i \in 1..(Len(sChannel) - 1) : sChannel'[i] = sChannel[i + 1]
      /\ DOMAIN sChannel = 1..Len(sChannel) /\ DOMAIN sChannel' = 1..(Len(sChannel) - 1)
  BY <1>0, <1>1 DEF Sensor!TypeOK
<1> HIDE DEF e
<1>4. e \in Sensor!Event
  BY <1>3
<1>5. sTold' \subseteq Sensor!Thresholds
  <2>1. sTold \subseteq Sensor!Thresholds
    BY <1>0 DEF Sensor!TypeOK
  <2>2. e[1] = "ThresholdExceeded" => e[2] \in Sensor!Thresholds
    BY <1>4 DEF Sensor!Event
  <2> QED  BY <1>1, <2>1, <2>2
<1>6. sOwed' \in BOOLEAN
  BY <1>2, Zenon
<1>7. Sensor!TypeOK'
  <2>1. Len(sChannel') <= EventRoom
    BY <1>0, <1>3 DEF Sensor!TypeOK, SensorParams
  <2> QED  BY <1>0, <1>1, <1>3, <1>5, <1>6, <2>1 DEF Sensor!TypeOK, Sensor!Thresholds, Sensor!Event
<1>8. Sensor!OffIsReported'
  <2> SUFFICES ASSUME sOwed', ~sEnabled'
               PROVE  "RetryExhausted" \in sMissed' \/ \E i \in DOMAIN sChannel' : sChannel'[i][1] = "Failure"
    BY DEF Sensor!OffIsReported
  <2>1. sOwed /\ e[1] # "Failure" /\ ~sEnabled
    BY <1>1, <1>2
  <2>2. CASE "RetryExhausted" \in sMissed
    BY <1>1, <2>2
  <2>3. CASE \E i \in DOMAIN sChannel : sChannel[i][1] = "Failure"
    <3>1. PICK i \in DOMAIN sChannel : sChannel[i][1] = "Failure"
      BY <2>3
    <3>2. i # 1
      BY <1>3, <2>1, <3>1
    <3> DEFINE m == i - 1
    <3>3. m \in DOMAIN sChannel' /\ sChannel'[m][1] = "Failure"
      BY <1>3, <3>1, <3>2
    <3> HIDE DEF m
    <3> QED  BY <3>3
  <2> QED  BY <2>1, <2>2, <2>3 DEF SensorInv, Sensor!OffIsReported
<1>9. ASSUME NEW t \in Sensor!Thresholds \ sMissed'
      PROVE  WillKnow(sChannel', sTold', t, sExceeded')
  <2>1. WillKnow(sChannel, sTold, t, sExceeded)
    BY <1>1, <1>9 DEF SensorInv
  <2>2. WillKnow(Tail(sChannel), sTold', t, sExceeded)
    BY <1>1, <1>3, <1>9, <2>1, ListenKnows
  <2> QED  BY <1>1, <2>2
<1>10. ASSUME sPc' = "sleep", NEW t \in Sensor!Thresholds \ sMoved'
       PROVE  /\ Sensor!IsExceeded(t, sSamples[1])' => t \in sExceeded'
              /\ t \in sExceeded' => ~Sensor!IsCleared(t, sSamples[1])'
  <2>1. /\ Sensor!IsExceeded(t, sSamples[1]) => t \in sExceeded
        /\ t \in sExceeded => ~Sensor!IsCleared(t, sSamples[1])
    BY <1>1, <1>10 DEF SensorInv
  <2> QED  BY <1>1, <2>1 DEF Sensor!IsExceeded, Sensor!IsCleared
<1>11. sPc' = "sleep" => sSamples'[1] \in Int
  BY <1>1 DEF SensorInv
<1> QED  BY <1>7, <1>8, <1>9, <1>10, <1>11 DEF SensorInv, Sensor!Thresholds

LEMMA SampleKeeps == SensorParams /\ SensorInv /\ Sensor!Sample => SensorInv'
<1> SUFFICES ASSUME SensorParams, SensorInv, Sensor!Sample PROVE SensorInv'
  OBVIOUS
<1> DEFINE temp == sHeat + Offset
           n == {t \in Sensor!Thresholds :
                   IF t \in sExceeded THEN ~Sensor!IsCleared(t, temp) ELSE Sensor!IsExceeded(t, temp)}
           e == Sensor!ThresholdEvent("WarnHigh", temp) \o Sensor!ThresholdEvent("WarnLow", temp)
                  \o Sensor!ThresholdEvent("Prochot", temp) \o Sensor!ThresholdEvent("Critical", temp)
<1>0. Sensor!TypeOK
  BY DEF SensorInv
<1>1. /\ sSamples' = Sensor!Push(sSamples, temp) /\ Sensor!Broadcast(e) /\ sExceeded' = n
      /\ sMoved' = {} /\ sPc' = "sleep"
      /\ UNCHANGED <<sHeat, sEnabled, sThreshold, sSignal, sTries, sTold, sOwed>>
  BY DEF Sensor!Sample, Sensor!CheckThresholds, Sensor!config
<1>2. temp \in Int
  BY <1>0 DEF Sensor!TypeOK, SensorParams
<1> HIDE DEF temp
<1>3. EventsOf(e, n) /\ \A i \in 1..Len(e) : e[i][2] # "RetryExhausted"
  BY <1>2, CheckedEvents, Zenon
<1>4. n \subseteq Sensor!Thresholds
  OBVIOUS
<1>5. ASSUME NEW t \in Sensor!Thresholds
      PROVE  /\ Sensor!IsExceeded(t, temp) => t \in n
             /\ t \in n => ~Sensor!IsCleared(t, temp)
  <2>1. sThreshold[t] \in Int /\ Hysteresis \in Nat
    BY <1>0 DEF Sensor!TypeOK, SensorParams
  <2>2. ~(Sensor!IsExceeded(t, temp) /\ Sensor!IsCleared(t, temp))
    BY <1>2, <2>1 DEF Sensor!IsExceeded, Sensor!IsCleared
  <2> QED  BY <2>2
<1> HIDE DEF e, n
<1>6. /\ sChannel' \in Seq(Sensor!Event) /\ Len(sChannel') <= EventRoom
      /\ \A t \in Sensor!Thresholds \ sMissed' : WillKnow(sChannel', sTold, t, n)
      /\ FailureSent(sChannel, sMissed) => FailureSent(sChannel', sMissed')
  BY <1>1, <1>3, BroadcastKeeps
<1>7. sSamples' \in Seq(Int) /\ Len(sSamples') <= SampleBufLen /\ sSamples'[1] = temp
  <2> DEFINE b == <<temp>> \o sSamples
             k == IF Len(sSamples) < SampleBufLen THEN Len(sSamples) + 1 ELSE SampleBufLen
  <2>1. sSamples \in Seq(Int) /\ Len(sSamples) <= SampleBufLen /\ SampleBufLen \in Nat \ {0}
    BY <1>0 DEF Sensor!TypeOK, SensorParams
  <2>2. b \in Seq(Int) /\ Len(b) = Len(sSamples) + 1 /\ b[1] = temp
    BY <1>2, <2>1
  <2>3. k \in 1..Len(b) /\ k <= SampleBufLen
    BY <2>1, <2>2
  <2>4. sSamples' = SubSeq(b, 1, k)
    BY <1>1 DEF Sensor!Push
  <2> HIDE DEF b, k
  <2> QED  BY <2>1, <2>2, <2>3, <2>4
<1>8. Sensor!TypeOK'
  <2>1. sEnabled' \in BOOLEAN /\ sSignal' \in BOOLEAN /\ sOwed' \in BOOLEAN
    BY <1>0, <1>1, Zenon DEF Sensor!TypeOK
  <2> QED  BY <1>0, <1>1, <1>4, <1>6, <1>7, <2>1 DEF Sensor!TypeOK, Sensor!Thresholds, Sensor!Event
<1>9. Sensor!OffIsReported'
  <2>1. (sOwed /\ ~sEnabled) => FailureSent(sChannel, sMissed)
    BY DEF SensorInv, Sensor!OffIsReported, FailureSent
  <2> QED  BY <1>1, <1>6, <2>1 DEF Sensor!OffIsReported, FailureSent
<1>10. ASSUME NEW t \in Sensor!Thresholds
       PROVE  /\ Sensor!IsExceeded(t, sSamples[1])' => t \in sExceeded'
              /\ t \in sExceeded' => ~Sensor!IsCleared(t, sSamples[1])'
  BY <1>1, <1>5, <1>7 DEF Sensor!IsExceeded, Sensor!IsCleared
<1>11. \A t \in Sensor!Thresholds \ sMissed' : WillKnow(sChannel', sTold', t, sExceeded')
  BY <1>1, <1>6
<1> QED  BY <1>2, <1>7, <1>8, <1>9, <1>10, <1>11 DEF SensorInv, Sensor!Thresholds

LEMMA ExhaustedKeeps == SensorParams /\ SensorInv /\ Sensor!RetryExhausted => SensorInv'
<1> SUFFICES ASSUME SensorParams, SensorInv, Sensor!RetryExhausted PROVE SensorInv'
  OBVIOUS
<1> DEFINE x == <<"Failure", "RetryExhausted">>
           e == <<x>>
<1>0. Sensor!TypeOK
  BY DEF SensorInv
<1>1. /\ sEnabled' = FALSE /\ Sensor!Broadcast(e) /\ sPc' = "top"
      /\ UNCHANGED <<sHeat, sThreshold, sSignal, sSamples, sExceeded, sTries, sTold, sMoved, sOwed>>
  BY DEF Sensor!RetryExhausted
<1>2. x \in Sensor!Event /\ x[2] = "RetryExhausted" /\ "RetryExhausted" \notin Sensor!Thresholds
  BY EventFacts
<1> HIDE DEF x
<1>3. e \in Seq(Sensor!Event) /\ Len(e) = 1 /\ e[1] = x /\ 1..Len(e) = {1}
  BY <1>2
<1> HIDE DEF e
<1>4. EventsOf(e, sExceeded)
  BY <1>2, <1>3 DEF EventsOf
<1>5. \E i \in 1..Len(e) : e[i] = <<"Failure", "RetryExhausted">>
  BY <1>3 DEF x
<1>6. /\ sChannel' \in Seq(Sensor!Event) /\ Len(sChannel') <= EventRoom
      /\ \A t \in Sensor!Thresholds \ sMissed' : WillKnow(sChannel', sTold, t, sExceeded)
      /\ FailureSent(sChannel', sMissed')
  BY <1>1, <1>4, <1>5, BroadcastKeeps
<1>7. Sensor!TypeOK'
  <2>1. sEnabled' \in BOOLEAN /\ sSignal' \in BOOLEAN /\ sOwed' \in BOOLEAN
    BY <1>0, <1>1, Zenon DEF Sensor!TypeOK
  <2> QED  BY <1>0, <1>1, <1>6, <2>1 DEF Sensor!TypeOK, Sensor!Thresholds, Sensor!Event
<1>8. Sensor!OffIsReported'
  BY <1>6 DEF Sensor!OffIsReported, FailureSent
<1> QED  BY <1>1, <1>6, <1>7, <1>8 DEF SensorInv, Sensor!Thresholds

LEMMA SensorStep == SensorParams /\ SensorInv /\ [Sensor!Next]_(Sensor!sensorVars) => SensorInv'
<1> SUFFICES ASSUME SensorParams, SensorInv, [Sensor!Next]_(Sensor!sensorVars) PROVE SensorInv'
  OBVIOUS
<1>0. Sensor!TypeOK
  BY DEF SensorInv
<1>a. sOwed /\ ~sEnabled => FailureSent(sChannel, sMissed)
  BY DEF SensorInv, Sensor!OffIsReported, FailureSent
<1>1. ASSUME NEW h \in Celsius, Sensor!Heat(h) PROVE SensorInv'
  <2>1. /\ sHeat' = h
        /\ UNCHANGED <<sEnabled, sThreshold, sSignal, sSamples, sExceeded, sPc, sTries, sChannel, sTold,
                       sMissed, sOwed, sMoved>>
    BY <1>1 DEF Sensor!Heat, Sensor!config, Sensor!listener
  <2>2. Sensor!TypeOK'
    BY <1>0, <2>1 DEF Sensor!TypeOK, Sensor!Thresholds, Sensor!Event
  <2>3. Sensor!OffIsReported'
    BY <1>a, <2>1 DEF Sensor!OffIsReported, FailureSent
  <2> QED  BY <2>1, <2>2, <2>3, SensorKept
<1>2. ASSUME NEW t \in Sensor!Thresholds, NEW v \in Celsius, Sensor!SetThreshold(t, v) PROVE SensorInv'
  <2>1. /\ sThreshold' = [sThreshold EXCEPT ![t] = v] /\ sMoved' = sMoved \cup {t}
        /\ UNCHANGED <<sHeat, sEnabled, sSignal, sSamples, sExceeded, sPc, sTries, sChannel, sTold,
                       sMissed, sOwed>>
    BY <1>2 DEF Sensor!SetThreshold, Sensor!listener
  <2>2. sThreshold \in [Sensor!Thresholds -> Celsius]
    BY <1>0 DEF Sensor!TypeOK
  <2>3. sThreshold' \in [Sensor!Thresholds -> Celsius] /\ sMoved' \subseteq Sensor!Thresholds
    BY <1>0, <1>2, <2>1, <2>2 DEF Sensor!TypeOK
  <2>4. Sensor!TypeOK'
    BY <1>0, <2>1, <2>3 DEF Sensor!TypeOK, Sensor!Thresholds, Sensor!Event
  <2>5. Sensor!OffIsReported'
    BY <1>a, <2>1 DEF Sensor!OffIsReported, FailureSent
  <2>6. \A u \in Sensor!Thresholds \ sMoved' : u \notin sMoved /\ sThreshold'[u] = sThreshold[u]
    BY <2>1, <2>2
  <2> QED  BY <2>1, <2>4, <2>5, <2>6, SensorKept
<1>3. CASE Sensor!EnableSampling \/ Sensor!DisableSampling
  <2>1. /\ sEnabled' \/ ~sOwed'
        /\ UNCHANGED <<sHeat, sThreshold, sSamples, sExceeded, sPc, sTries, sChannel, sTold, sMissed, sMoved>>
    BY <1>3 DEF Sensor!EnableSampling, Sensor!DisableSampling
  <2>2. sEnabled' \in BOOLEAN /\ sSignal' \in BOOLEAN /\ sOwed' \in BOOLEAN
    BY <1>0, <1>3, Zenon DEF Sensor!TypeOK, Sensor!EnableSampling, Sensor!DisableSampling
  <2>3. Sensor!TypeOK'
    BY <1>0, <2>1, <2>2 DEF Sensor!TypeOK, Sensor!Thresholds, Sensor!Event
  <2>4. Sensor!OffIsReported'
    BY <2>1 DEF Sensor!OffIsReported
  <2> QED  BY <2>1, <2>3, <2>4, SensorKept
<1>4. CASE Sensor!Top \/ Sensor!BusError \/ Sensor!SleepOver \/ Sensor!Enabled
  <2>1. UNCHANGED <<sHeat, sEnabled, sThreshold, sSamples, sExceeded, sChannel, sTold, sMissed, sMoved, sOwed>>
    BY <1>4 DEF Sensor!Top, Sensor!BusError, Sensor!SleepOver, Sensor!Enabled, Sensor!config, Sensor!listener
  <2>2. sEnabled' \in BOOLEAN /\ sSignal' \in BOOLEAN /\ sOwed' \in BOOLEAN
    BY <1>0, <1>4, Zenon DEF Sensor!TypeOK, Sensor!Top, Sensor!BusError, Sensor!SleepOver, Sensor!Enabled,
       Sensor!config, Sensor!listener
  <2>3. sPc' \in {"top", "bus", "off"} /\ sTries' \in 0..Retries
    BY <1>0, <1>4 DEF Sensor!TypeOK, Sensor!Top, Sensor!BusError, Sensor!SleepOver, Sensor!Enabled, SensorParams
  <2>4. Sensor!TypeOK'
    BY <1>0, <2>1, <2>2, <2>3 DEF Sensor!TypeOK, Sensor!Thresholds, Sensor!Event
  <2>5. Sensor!OffIsReported'
    BY <1>a, <2>1 DEF Sensor!OffIsReported, FailureSent
  <2> QED  BY <2>1, <2>3, <2>4, <2>5, SensorKept
<1>5. CASE UNCHANGED Sensor!sensorVars
  <2>1. UNCHANGED <<sHeat, sEnabled, sThreshold, sSignal, sSamples, sExceeded, sPc, sTries, sChannel, sTold,
                    sMissed, sOwed, sMoved>>
    BY <1>5 DEF Sensor!sensorVars, Sensor!config, Sensor!listener
  <2>2. Sensor!TypeOK'
    BY <1>0, <2>1 DEF Sensor!TypeOK, Sensor!Thresholds, Sensor!Event
  <2>3. Sensor!OffIsReported'
    BY <1>a, <2>1 DEF Sensor!OffIsReported, FailureSent
  <2> QED  BY <2>1, <2>2, <2>3, SensorKept
<1> QED  BY <1>1, <1>2, <1>3, <1>4, <1>5, ListenKeeps, SampleKeeps, ExhaustedKeeps
         DEF Sensor!Next, Sensor!Runner

\* After a sample a listener that took its events knows which thresholds the
\* newest sample exceeds, and sampling that went off by itself was reported, for
\* every configuration of the sensor, depth of the channel and number of retries.
THEOREM SensorHonestHolds ==
    ASSUME SensorParams
    PROVE  Sensor!Spec => []SensorHonest
<1>1. Sensor!Init => SensorInv
  BY SensorInit
<1>2. SensorInv /\ [Sensor!Next]_(Sensor!sensorVars) => SensorInv'
  BY SensorStep
<1>3. SensorInv => SensorHonest
  <2> SUFFICES ASSUME SensorInv PROVE Sensor!TypeOK /\ Sensor!OffIsReported /\ Sensor!HeatKnown
    BY DEF SensorHonest
  <2>1. Sensor!TypeOK /\ Sensor!OffIsReported
    BY DEF SensorInv
  <2>2. ASSUME sPc = "sleep", sChannel = <<>>, NEW t \in Sensor!Thresholds \ (sMoved \cup sMissed)
        PROVE  /\ Sensor!IsExceeded(t, sSamples[1]) => t \in sTold
               /\ t \in sTold => \/ t = "WarnLow" /\ sSamples[1] <= sThreshold[t] + Hysteresis
                                 \/ t # "WarnLow" /\ sSamples[1] >= sThreshold[t] - Hysteresis
    <3>1. /\ Sensor!IsExceeded(t, sSamples[1]) => t \in sExceeded
          /\ t \in sExceeded => ~Sensor!IsCleared(t, sSamples[1])
      BY <2>2 DEF SensorInv
    <3>2. (t \in sTold) <=> (t \in sExceeded)
      BY <2>2 DEF SensorInv, WillKnow
    <3>3. sSamples[1] \in Int /\ sThreshold[t] \in Int /\ Hysteresis \in Int
      BY <2>1, <2>2 DEF SensorInv, Sensor!TypeOK, SensorParams
    <3> QED  BY <3>1, <3>2, <3>3 DEF Sensor!IsCleared
  <2> QED  BY <2>1, <2>2 DEF Sensor!HeatKnown
<1> QED  BY <1>1, <1>2, <1>3, PTL DEF Sensor!Spec
=============================================================================
