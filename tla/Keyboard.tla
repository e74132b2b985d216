------------------------------ MODULE Keyboard ------------------------------
(***************************************************************************)
(* The GPIO matrix keyboard: the runner of gpio_kb.rs that scans, filters  *)
(* and publishes, the power state the host gates it with, and the relay of *)
(* relay.rs that hands its reports to a HID transport.  A scan is one      *)
(* snapshot of the matrix; the debouncer, the layout and the PubSub        *)
(* channel are external.  A report is the set of keys it carries, or the   *)
(* error code it is filled with.                                           *)
(***************************************************************************)
EXTENDS Naturals, Sequences, FiniteSets

CONSTANTS
    Cols, Rows,       \* the matrix
    Deghost,          \* KeyboardConfig::deghost
    Bounces,          \* KeyboardConfig::nb_bounce
    QueueDepth,       \* REPORT_QUEUE_DEPTH
    None,             \* no report
    RollOver, Undefined, \* the reports of ScanError
    MaxChanges        \* bound: what the fingers and the host do

VARIABLES
    keys,             \* the cells whose key is held down
    pc,               \* where the runner is
    power,            \* Shared::power_state
    powerChanged,     \* Shared::power_changed
    debounced,        \* the debouncer's current state, as the layout has it
    candidate,        \* the debouncer's next state
    since,            \* for how many scans it has been seen
    report,           \* the report the runner publishes
    queue,            \* Shared::reports
    pending,          \* KeyboardHidRelay::pending_input_report
    last,             \* KeyboardHidRelay::last_report
    leds,             \* the lit LEDs
    hostKeys,         \* history: the keys of the last report the host read
    held,             \* history: the keys down when debounced was taken over
    dropped,          \* history: a reset has thrown reports away since
    changes           \* what the fingers and the host have done

kbVars == <<keys, pc, power, powerChanged, debounced, candidate, since, report,
            queue, pending, last, leds, hostKeys, held, dropped, changes>>

relayVars == <<pending, last, leds, hostKeys, dropped>>
scanVars  == <<debounced, candidate, since, held>>

Cells == Cols \X Rows

PowerState == {"On", "Sleep", "Off"}

Errors == {RollOver, Undefined}

LedFlags == {"NumLock", "CapsLock", "ScrollLock"}

Init ==
    /\ keys = {}
    /\ pc = "gate"
    /\ power = "Sleep"
    /\ powerChanged = FALSE
    /\ debounced = {}
    /\ candidate = {}
    /\ since = 0
    /\ report = None
    /\ queue = <<>>
    /\ pending = None
    /\ last = {}
    /\ leds = {}
    /\ hostKeys = {}
    /\ held = {}
    /\ dropped = FALSE
    /\ changes = 0

Change ==
    /\ changes < MaxChanges
    /\ changes' = changes + 1

IsPoweredOn == power = "On"

-----------------------------------------------------------------------------
\* The matrix

\* The rows of a column that read as pressed.
RowsOf(cells, col) == {r \in Rows : <<col, r>> \in cells}

\* What the matrix without diodes reads when S is held down: current that
\* enters a column through one key reaches every column that shares a row.
Grown(S) ==
    S \cup {k \in Cells :
              \E c2 \in Cols : /\ <<c2, k[2]>> \in S
                               /\ RowsOf(S, k[1]) \cap RowsOf(S, c2) # {}}

\* Every current path: the least set that holds S and grows no further.
Reading(S) ==
    {k \in Cells : \A R \in SUBSET Cells :
                       (S \subseteq R /\ Grown(R) \subseteq R) => k \in R}

\* Mutant of HasGhost: only whole identical columns are compared.
HasGhostEqual(pressed) ==
    /\ Cardinality(pressed) > 2
    /\ \E c1, c2 \in Cols :
          /\ c1 # c2
          /\ Cardinality(RowsOf(pressed, c1)) >= 3
          /\ RowsOf(pressed, c1) = RowsOf(pressed, c2)

\* has_ghost: more than two keys, and two columns that share two rows.
HasGhost(pressed) ==
    /\ Cardinality(pressed) > 2
    /\ \E c1, c2 \in Cols :
          /\ c1 # c2
          /\ Cardinality(RowsOf(pressed, c1) \cap RowsOf(pressed, c2)) >= 2

\* keyberon's debouncer: a state is taken over when it has been seen in more
\* than nb_bounce scans in a row.
Settles(pressed) ==
    /\ pressed # debounced
    /\ IF pressed = candidate THEN since + 1 > Bounces ELSE 1 > Bounces

-----------------------------------------------------------------------------
\* The runner

\* run: while the host has not powered the keyboard on, wait for a change.
PassGate ==
    /\ pc = "gate"
    /\ IsPoweredOn
    /\ pc' = "scan"
    /\ UNCHANGED <<keys, power, powerChanged, report, queue, changes, relayVars, scanVars>>

GateCloses ==
    /\ pc = "gate"
    /\ ~IsPoweredOn
    /\ pc' = "waiting"
    /\ UNCHANGED <<keys, power, powerChanged, report, queue, changes, relayVars, scanVars>>

GateWakes ==
    /\ pc = "waiting"
    /\ powerChanged
    /\ powerChanged' = FALSE
    /\ pc' = "gate"
    /\ UNCHANGED <<keys, power, report, queue, changes, relayVars, scanVars>>

\* scan_cycle: powered off meanwhile.
ScanUnpowered ==
    /\ pc = "scan"
    /\ ~IsPoweredOn
    /\ pc' = "gate"
    /\ UNCHANGED <<keys, power, powerChanged, report, queue, changes, relayVars, scanVars>>

\* The scan fails, or shows a ghost: an error is reported, and the debouncer
\* does not see the scan.
ScanFailed ==
    /\ pc = "scan"
    /\ IsPoweredOn
    /\ \/ /\ Deghost
          /\ HasGhost(Reading(keys))
          /\ report' = RollOver
          /\ UNCHANGED changes
       \/ /\ Change
          /\ report' = Undefined
    /\ pc' = "publish"
    /\ UNCHANGED <<keys, power, powerChanged, queue, relayVars, scanVars>>

\* The scan goes through the debouncer, and each changed key through the
\* layout; the report is made once all have.
ScanChanged ==
    LET pressed == Reading(keys) IN
    /\ pc = "scan"
    /\ IsPoweredOn
    /\ ~(Deghost /\ HasGhost(pressed))
    /\ Settles(pressed)
    /\ debounced' = pressed
    /\ held' = keys
    /\ candidate' = debounced
    /\ since' = 0
    /\ report' = pressed
    /\ pc' = "publish"
    /\ UNCHANGED <<keys, power, powerChanged, queue, changes, relayVars>>

\* Nothing new: sleep, then scan again.
ScanQuiet ==
    LET pressed == Reading(keys) IN
    /\ pc = "scan"
    /\ IsPoweredOn
    /\ ~(Deghost /\ HasGhost(pressed))
    /\ ~Settles(pressed)
    /\ candidate' = IF pressed = debounced THEN candidate ELSE pressed
    /\ since' = CASE pressed = debounced -> 0
                  [] pressed # debounced /\ pressed = candidate -> since + 1
                  [] pressed # debounced /\ pressed # candidate -> 1
    /\ pc' = "poll"
    /\ UNCHANGED <<keys, power, powerChanged, debounced, held, report, queue, changes,
                   relayVars>>

Poll ==
    /\ pc = "poll"
    /\ pc' = "scan"
    /\ UNCHANGED <<keys, power, powerChanged, report, queue, changes, relayVars, scanVars>>

\* publisher.publish: waits while the channel is full.
Publish ==
    /\ pc = "publish"
    /\ Len(queue) < QueueDepth
    /\ queue' = Append(queue, report)
    /\ report' = None
    /\ pc' = IF report \in Errors THEN "backoff" ELSE "gate"
    /\ UNCHANGED <<keys, power, powerChanged, changes, relayVars, scanVars>>

BackOff ==
    /\ pc = "backoff"
    /\ pc' = "gate"
    /\ UNCHANGED <<keys, power, powerChanged, report, queue, changes, relayVars, scanVars>>

-----------------------------------------------------------------------------
\* The relay, called by the HID transport

\* Mutant of SetPowerState: the gate is not told.
SetPowerStateSilent(p) ==
    /\ Change
    /\ power' = p
    /\ UNCHANGED <<keys, pc, powerChanged, report, queue, relayVars, scanVars>>

\* set_power_state: the state, then the signal the gate waits for.
SetPowerState(p) ==
    /\ Change
    /\ power' = p
    /\ powerChanged' = TRUE
    /\ UNCHANGED <<keys, pc, report, queue, relayVars, scanVars>>

\* wait_for_input_report: at most one report is taken out of the channel.
WaitForInputReport ==
    /\ pending = None
    /\ queue # <<>>
    /\ pending' = Head(queue)
    /\ queue' = Tail(queue)
    /\ UNCHANGED <<keys, pc, power, powerChanged, report, last, leds, hostKeys,
                   dropped, changes, scanVars>>

\* process_next_input_report: the pending report, or the next of the channel.
ProcessNextInputReport ==
    LET next == IF pending # None THEN pending ELSE Head(queue) IN
    /\ pending # None \/ queue # <<>>
    /\ pending' = None
    /\ queue' = IF pending # None THEN queue ELSE Tail(queue)
    /\ last' = next
    /\ hostKeys' = IF next \in Errors THEN hostKeys ELSE next
    /\ dropped' = (dropped /\ next \in Errors)
    /\ UNCHANGED <<keys, pc, power, powerChanged, report, leds, changes, scanVars>>

\* reset: what waits is thrown away; the host knows of no key any more.
Reset ==
    /\ Change
    /\ pending' = None
    /\ last' = {}
    /\ queue' = <<>>
    /\ hostKeys' = {}
    /\ dropped' = TRUE
    /\ UNCHANGED <<keys, pc, power, powerChanged, report, leds, scanVars>>

\* apply_leds, in the order NumLock, CapsLock, ScrollLock, up to the first pin
\* that fails; set_report succeeds all the same.
SetLeds(flags) ==
    /\ Change
    /\ \E applied \in {{}, {"NumLock"}, {"NumLock", "CapsLock"}, LedFlags} :
           leds' = (leds \ applied) \cup (flags \cap applied)
    /\ UNCHANGED <<keys, pc, power, powerChanged, report, queue, pending, last,
                   hostKeys, dropped, scanVars>>

\* A key goes down or up.
MoveKey(k) ==
    /\ Change
    /\ keys' = IF k \in keys THEN keys \ {k} ELSE keys \cup {k}
    /\ UNCHANGED <<pc, power, powerChanged, report, queue, relayVars, scanVars>>

-----------------------------------------------------------------------------

Runner ==
    \/ PassGate \/ GateCloses \/ GateWakes \/ ScanUnpowered \/ ScanFailed \/ ScanChanged
    \/ ScanQuiet \/ Poll \/ Publish \/ BackOff

Next ==
    \/ Runner
    \/ WaitForInputReport
    \/ ProcessNextInputReport
    \/ Reset
    \/ \E p \in PowerState : SetPowerState(p)
    \/ SetLeds({"CapsLock"})
    \/ \E k \in Cells : MoveKey(k)

\* The runner's task runs, and the transport reads what is announced.
Fairness == WF_kbVars(Runner) /\ WF_kbVars(ProcessNextInputReport)

Spec == Init /\ [][Next]_kbVars /\ Fairness

-----------------------------------------------------------------------------

TypeOK ==
    /\ keys \subseteq Cells
    /\ pc \in {"gate", "waiting", "scan", "poll", "publish", "backoff"}
    /\ power \in PowerState
    /\ powerChanged \in BOOLEAN
    /\ debounced \subseteq Cells
    /\ candidate \subseteq Cells
    /\ since \in 0 .. Bounces
    /\ report \in Errors \/ report = None \/ report \subseteq Cells
    /\ Len(queue) <= QueueDepth
    /\ leds \subseteq LedFlags
    /\ hostKeys \subseteq Cells
    /\ changes \in 0 .. MaxChanges

\* The reports on their way to the host, the next one first.
InFlight ==
    (IF pending = None THEN <<>> ELSE <<pending>>) \o queue
        \o (IF report = None THEN <<>> ELSE <<report>>)

\* No report is lost, doubled or overtaken between the debouncer and the host:
\* the last report of keys on its way is the debounced state, and when none is,
\* the host knows that state, unless a reset has thrown reports away.
HostFollows ==
    \/ /\ \A i \in DOMAIN InFlight : InFlight[i] \in Errors
       /\ hostKeys = debounced \/ dropped
    \/ \E i \in DOMAIN InFlight :
          /\ InFlight[i] = debounced
          /\ \A j \in DOMAIN InFlight : j > i => InFlight[j] \in Errors

\* With deghost, the debounced state is what fingers really hold: what the
\* matrix only seems to show never reaches the layout or the host.
NoGhostKeys == Deghost => debounced = held

KeyboardHonest == TypeOK /\ HostFollows /\ NoGhostKeys

\* A keyboard that is powered on for good tells the host of the keys that are
\* held for good: no power change is missed at the gate, a full channel or an
\* error report does not stop the scanning.
KeysReported ==
    <>[](IsPoweredOn) =>
        <>[](\/ Deghost /\ HasGhost(Reading(keys))
             \/ debounced = Reading(keys) /\ (hostKeys = debounced \/ dropped))

=============================================================================
