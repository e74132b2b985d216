---------------------------- MODULE PowerButton ----------------------------
(***************************************************************************)
(* The power button service: the task that calls check_button_press in a   *)
(* loop, the press timer of button.rs and the integrating debouncer of     *)
(* debounce.rs.  Time is counted in sample intervals; the pin may change   *)
(* between any two samples, and a read that fails counts as inactive.      *)
(***************************************************************************)
EXTENDS Naturals

CONSTANTS
    Threshold,       \* samples the integrator needs (debounce.rs threshold)
    ShortPress,      \* short_press_threshold, in sample intervals
    Timeout          \* timeout of a press, in sample intervals; more than ShortPress

VARIABLES
    active,          \* the level of the pin, TRUE for the active one
    integrator,      \* Debouncer::integrator
    pressed,         \* Debouncer::pressed
    sleeping,        \* the debouncer waits for the next sample interval
    timing,          \* get_press_duration waits for the release
    elapsed,         \* sample intervals since the start of the press
    message,         \* the last message of check_button_press
    ons,             \* history: active samples since the last release seen
    offs,            \* history: inactive samples since the last press seen
    real             \* history: what the last press seen was made of

buttonVars == <<active, integrator, pressed, sleeping, timing, elapsed,
                message, ons, offs, real>>

Messages == {"none", "ShortPress", "LongPress", "PressAndHold"}

Lesser(a, b) == IF a < b THEN a ELSE b

Init ==
    /\ active = FALSE
    /\ integrator = 0
    /\ pressed = FALSE
    /\ sleeping = FALSE
    /\ timing = FALSE
    /\ elapsed = 0
    /\ message = "none"
    /\ ons = 0
    /\ offs = Threshold
    /\ real = TRUE

\* The integrator after a sample: it moves by one within 0 .. Threshold.
Integrate(sample) ==
    IF sample THEN Lesser(integrator + 1, Threshold)
    ELSE IF integrator > 0 THEN integrator - 1 ELSE 0

\* check_button_press: the message for a press of d sample intervals.
Interpret(d) ==
    IF d >= Timeout THEN "PressAndHold"
    ELSE IF d >= ShortPress THEN "LongPress"
    ELSE "ShortPress"

Send(d) ==
    /\ message' = Interpret(d)
    /\ timing' = FALSE

\* The debouncer reports a press.  get_press_duration notes the start and
\* calls the debouncer again at once, inside the release future.
PressSeen ==
    /\ pressed' = TRUE
    /\ timing' = TRUE
    /\ elapsed' = 0
    /\ UNCHANGED <<message, sleeping>>

\* The debouncer reports a release: of a press being timed, which ends it,
\* or of one that had timed out, which check_button_press ignores.
ReleaseSeen ==
    /\ pressed' = FALSE
    /\ IF timing THEN Send(elapsed) ELSE UNCHANGED <<message, timing>>
    /\ UNCHANGED <<elapsed, sleeping>>

\* The samples of each level, for the history variables.
Count(sample) ==
    [on  |-> Lesser(ons + (IF sample THEN 1 ELSE 0), Threshold),
     off |-> Lesser(offs + (IF sample THEN 0 ELSE 1), Threshold)]

\* debounce: take a sample; return when the debounced state changes, else
\* sleep until the next sample interval.
Sample ==
    \E sample \in IF active THEN BOOLEAN ELSE {FALSE} :
        LET next == Integrate(sample)
            seen == Count(sample)
        IN  /\ ~sleeping
            /\ integrator' = next
            /\ UNCHANGED active
            /\ \/ /\ next >= Threshold
                  /\ ~pressed
                  /\ PressSeen
                  /\ real' = (seen.on = Threshold /\ seen.off = Threshold)
                  /\ ons' = 0
                  /\ offs' = 0
               \/ /\ next = 0
                  /\ pressed
                  /\ ReleaseSeen
                  /\ ons' = 0
                  /\ offs' = seen.off
                  /\ UNCHANGED real
               \/ /\ IF pressed THEN next > 0 ELSE next < Threshold
                  /\ sleeping' = TRUE
                  /\ ons' = seen.on
                  /\ offs' = seen.off
                  /\ UNCHANGED <<pressed, timing, elapsed, message, real>>

\* Mutant of TimedOut: the debouncer goes with the future that is dropped.
TimedOutForget ==
    /\ timing
    /\ sleeping
    /\ elapsed >= Timeout
    /\ Send(elapsed)
    /\ sleeping' = FALSE
    /\ integrator' = 0
    /\ pressed' = FALSE
    /\ UNCHANGED <<active, elapsed, ons, offs, real>>

\* with_timeout polls the release future first; when that still waits and the
\* time is up, it is dropped and the press is reported as held.  The
\* debouncer keeps its state.
TimedOut ==
    /\ timing
    /\ sleeping
    /\ elapsed >= Timeout
    /\ Send(elapsed)
    /\ sleeping' = FALSE
    /\ UNCHANGED <<active, integrator, pressed, elapsed, ons, offs, real>>

\* A sample interval passes.
Tick ==
    /\ sleeping
    /\ ~(timing /\ elapsed >= Timeout)
    /\ sleeping' = FALSE
    /\ elapsed' = IF timing THEN elapsed + 1 ELSE 0
    /\ active' \in BOOLEAN
    /\ UNCHANGED <<integrator, pressed, timing, message, ons, offs, real>>

Next == Sample \/ TimedOut \/ Tick

Fairness == WF_buttonVars(Sample) /\ WF_buttonVars(TimedOut) /\ WF_buttonVars(Tick)

Spec == Init /\ [][Next]_buttonVars /\ Fairness

-----------------------------------------------------------------------------

\* Every variable has its type; a press is timed while the debouncer holds it.
TypeOK ==
    /\ active \in BOOLEAN
    /\ integrator \in 0 .. Threshold
    /\ pressed \in BOOLEAN
    /\ sleeping \in BOOLEAN
    /\ timing \in BOOLEAN
    /\ elapsed \in 0 .. Timeout
    /\ message \in Messages
    /\ ons \in 0 .. Threshold
    /\ offs \in 0 .. Threshold
    /\ real \in BOOLEAN
    /\ timing => pressed

\* A press is recognised only from Threshold active samples since the last
\* release, and only after Threshold inactive ones since the last press:
\* bouncing, a failed read or a press held past its timeout never makes two
\* messages of one press (debounce.rs, button.rs).
ButtonHonest == TypeOK /\ real

\* A button pressed for good is reported as held, and released for good is seen
\* released: the task does not lose count of its two timers.
ButtonReported ==
    /\ []<>~timing
    /\ <>[](~active) => []<>~pressed

=============================================================================
