---------------------------- MODULE TypeCService ----------------------------
(***************************************************************************)
(* The Type-C service of type-c-service (service/mod.rs, ucsi.rs, power.rs *)
(* and config.rs): it turns the ports' status events and the power         *)
(* policy's consumer events into UCSI connector changes for the host's OPM *)
(* (OS policy manager), and answers the OPM's commands.                    *)
(*                                                                         *)
(* The service runs under one lock, so a handler or a command is one step; *)
(* the exception is the scan over the connected ports, which locks one     *)
(* port at a time.  External: the ports (TypeCPort models one), the UCSI   *)
(* PPM state machine of embedded_usb_pd, the relay that takes the          *)
(* service's notifications to the OPM, and the OPM.  The OPM modelled here *)
(* acknowledges a connector change only right after it read the status of  *)
(* a connector it was told about, as the repository's tests do.            *)
(***************************************************************************)
EXTENDS Naturals, Sequences, FiniteSets

CONSTANTS
    None,
    NumPorts, MaxPorts,       \* registered ports; MAX_SUPPORTED_PORTS
    Thresholds,               \* UcsiBatteryChargingThresholdConfig
    SinkPowers,               \* the powers of the sink contracts, in mW
    EnableSets,               \* the SET_NOTIFICATION_ENABLE arguments the OPM uses
    QueueSize, NoteSize,      \* channel capacities
    PortKinds,                \* the port activity a run explores
    MaxOps, MaxFaults         \* bounds: port changes, policy events, commands and
                              \* failures together; failures

Ports == 0 .. NumPorts - 1

Above(a, b) == a # None /\ b # None => a < b

\* The first threshold the power is below; one that is None never applies.
Below(mw, threshold) == threshold # None /\ mw < threshold
StatusOf(mw) ==
    IF Below(mw, Thresholds.not) THEN "NotCharging"
    ELSE IF Below(mw, Thresholds.very) THEN "VerySlow"
    ELSE IF Below(mw, Thresholds.slow) THEN "Slow"
    ELSE "Nominal"

\* PortStatus, as far as the service looks at it.
PortStatus == [conn : {"None", "Attached", "Debug"}, sink : BOOLEAN, mw : SinkPowers \cup {0}]
NoStatus == [conn |-> "None", sink |-> TRUE, mw |-> 0]
IsConnected(s) == s.conn # "None"
IsDebug(s) == s.conn = "Debug"

\* PortStatusEventBitfield; "contract" stands for the two contract bits and
\* sink_ready, which the service treats alike, "partner" for a data swap or an
\* entered alternate mode.
EventBits == {"plug", "power_swap", "hard_reset", "partner", "contract"}

\* ConnectorStatusChange bits, which are also what the OPM enables.
UcsiEvent(bits) ==
    (IF "plug" \in bits THEN {"connect"} ELSE {})
    \cup (IF "power_swap" \in bits THEN {"direction"} ELSE {})
    \cup (IF "hard_reset" \in bits THEN {"reset"} ELSE {})
    \cup (IF "partner" \in bits THEN {"partner"} ELSE {})
    \cup (IF "contract" \in bits
          THEN {"level", "op_mode", "supply", "direction", "battery"} ELSE {})
Changes == UNION {UcsiEvent(b) : b \in SUBSET EventBits}

\* Thresholds were accepted by try_new.
ASSUME TypeCServiceAssumption ==
    /\ NumPorts \in Nat /\ MaxPorts \in Nat
    /\ QueueSize \in Nat \ {0} /\ NoteSize \in Nat \ {0}
    /\ SinkPowers \subseteq Nat
    /\ Thresholds \in [not : Nat \cup {None}, very : Nat \cup {None}, slow : Nat \cup {None}]
    /\ Above(Thresholds.not, Thresholds.very) /\ Above(Thresholds.very, Thresholds.slow)
    /\ Above(Thresholds.not, Thresholds.slow)
    /\ None \notin Nat /\ EnableSets \subseteq SUBSET (Changes \cup {"cmd_complete"})
    /\ MaxOps \in Nat /\ MaxFaults \in Nat

VARIABLES
    port, raised,        \* each port's status, and the event bits not yet reported
    cached, queue,       \* the status a port last reported, and its event channel
    policy,              \* queued power policy events: is a consumer connected
    ppm,                 \* the PPM state machine
    enabled, pending, valid, psuConnected,       \* ucsi::State
    scan,                \* next port of pend_ucsi_connected_ports
    notes,               \* UCSI change indicators on their way to the OPM
    debugTold,           \* last debug accessory notification of each port
    told, seen, reading, \* the OPM: connectors to look at, what it read, the one it
                         \* read after being told of it
    raced,               \* history: connectors that changed between the OPM's read
                         \* and its acknowledgement
    overflow, lost, noteLost,    \* history: something was dropped
    ops, faults

ports == <<port, raised, cached>>
ucsi == <<ppm, enabled, pending, valid, psuConnected, scan>>
opm == <<told, seen, reading>>
drops == <<overflow, lost, noteLost>>
bounds == <<ops, faults>>
vars == <<ports, queue, policy, ucsi, notes, debugTold, opm, raced, drops, bounds>>

Init ==
    /\ port = [p \in Ports |-> NoStatus] /\ raised = [p \in Ports |-> {}]
    /\ cached = port /\ queue = [p \in Ports |-> << >>]
    /\ policy = << >>
    /\ ppm = "Disabled" /\ enabled = {} /\ pending = << >> /\ valid = {}
    /\ psuConnected = FALSE /\ scan = NumPorts
    /\ notes = << >> /\ debugTold = [p \in Ports |-> FALSE]
    /\ told = {} /\ seen = [p \in Ports |-> None] /\ reading = None
    /\ raced = {}
    /\ overflow = FALSE /\ lost = FALSE /\ noteLost = FALSE
    /\ ops = 0 /\ faults = 0

Operation == ops + faults < MaxOps /\ ops' = ops + 1
Fault == faults < MaxFaults /\ ops + faults < MaxOps /\ faults' = faults + 1

-----------------------------------------------------------------------------
(* The ports (external): their status changes, and they report it later.    *)

PortChange(p, kind, new, bits) ==
    /\ kind \in PortKinds
    /\ Operation
    /\ port' = [port EXCEPT ![p] = new]
    /\ raised' = [raised EXCEPT ![p] = @ \cup bits]
    /\ UNCHANGED <<cached, queue, policy, ucsi, notes, debugTold, opm, raced, drops, faults>>

Changed(p) ==
    \/ PortChange(p, "plug", IF IsConnected(port[p]) THEN NoStatus
                             ELSE [NoStatus EXCEPT !.conn = "Attached"], {"plug"})
    \/ PortChange(p, "debug", IF IsConnected(port[p]) THEN NoStatus
                              ELSE [NoStatus EXCEPT !.conn = "Debug"], {"plug"})
    \/ /\ port[p].conn = "Attached"
       /\ \/ /\ port[p].sink
             /\ \E mw \in SinkPowers :
                   PortChange(p, "contract", [port[p] EXCEPT !.mw = mw], {"contract"})
          \/ PortChange(p, "swap", [port[p] EXCEPT !.sink = ~@, !.mw = 0], {"power_swap"})
          \/ PortChange(p, "reset", [port[p] EXCEPT !.mw = 0], {"hard_reset"})
          \/ PortChange(p, "partner", port[p], {"partner"})

\* NonBlockingSenderNotifier: a full channel drops the event.
Report(p) ==
    /\ raised[p] # {}
    /\ raised' = [raised EXCEPT ![p] = {}]
    /\ cached' = [cached EXCEPT ![p] = port[p]]
    /\ IF Len(queue[p]) < QueueSize
       THEN /\ queue' = [queue EXCEPT ![p] = Append(@, [bits |-> raised[p], status |-> port[p],
                                                       previous |-> cached[p]])]
            /\ UNCHANGED lost
       ELSE lost' = TRUE /\ UNCHANGED queue
    /\ UNCHANGED <<port, policy, ucsi, notes, debugTold, opm, raced, overflow, noteLost,
                   bounds>>

\* The power policy (external here) connects and disconnects its consumer.
PolicyEvent(connected) ==
    /\ Operation
    /\ connected # (IF policy = << >> THEN psuConnected ELSE policy[Len(policy)])
    /\ policy' = Append(policy, connected)
    /\ UNCHANGED <<ports, queue, ucsi, notes, debugTold, opm, raced, drops, faults>>

-----------------------------------------------------------------------------
(* Pending connector changes.                                               *)

\* One UCSI change indicator for the listeners; a full channel drops it.
Notify(p, opmToo) ==
    IF Len(notes) < NoteSize
    THEN notes' = Append(notes, [port |-> p, opm |-> opmToo]) /\ UNCHANGED noteLost
    ELSE noteLost' = TRUE /\ UNCHANGED notes

IsPending(p) == \E i \in DOMAIN pending : pending[i] = p

\* Mutant of PendUcsiPort: notify_opm computed after the port was pushed.
PendUcsiPortLate(p) ==
    /\ raced' = IF p = reading THEN raced \cup {p} ELSE raced
    /\ IF IsPending(p) \/ Len(pending) >= MaxPorts
       THEN /\ overflow' = (overflow \/ ~IsPending(p))
            /\ UNCHANGED <<pending, notes, noteLost>>
       ELSE /\ pending' = Append(pending, p)
            /\ Notify(p, FALSE)
            /\ UNCHANGED overflow

\* A port that is not pending yet is pushed; only the first one notifies the OPM.
PendUcsiPort(p) ==
    /\ raced' = IF p = reading THEN raced \cup {p} ELSE raced
    /\ IF IsPending(p) \/ Len(pending) >= MaxPorts
       THEN /\ overflow' = (overflow \/ ~IsPending(p))
            /\ UNCHANGED <<pending, notes, noteLost>>
       ELSE /\ pending' = Append(pending, p)
            /\ Notify(p, pending = << >>)
            /\ UNCHANGED overflow

AfterPortEvent(v, p, e) ==
    LET negotiated == IF "contract" \in e.bits THEN v \cup {p} ELSE v
    IN  IF IsConnected(e.status) THEN negotiated ELSE negotiated \ {p}

\* process_port_status_event and handle_ucsi_port_event.
ProcessPortEvent(p) ==
    /\ scan = NumPorts /\ queue[p] # << >>
    /\ LET e == Head(queue[p]) IN
       /\ debugTold' =
            IF /\ IsConnected(e.status) # IsConnected(e.previous)
               /\ IsDebug(e.status) \/ IsDebug(e.previous)
            THEN [debugTold EXCEPT ![p] = IsConnected(e.status)] ELSE debugTold
       /\ valid' = AfterPortEvent(valid, p, e)
       /\ IF UcsiEvent(e.bits) \cap enabled = {}
          THEN UNCHANGED <<pending, notes, raced, overflow, noteLost>>
          ELSE PendUcsiPort(p)
    /\ queue' = [queue EXCEPT ![p] = Tail(@)]
    /\ UNCHANGED <<ports, policy, ppm, enabled, psuConnected, scan, opm, lost, bounds>>

\* Mutant: the OPM is not told that the charging status may have changed.
ProcessPolicyEventSilent ==
    /\ scan = NumPorts /\ policy # << >>
    /\ psuConnected' = Head(policy)
    /\ policy' = Tail(policy)
    /\ UNCHANGED <<ports, queue, ppm, enabled, pending, valid, scan, notes, debugTold, opm, raced,
                   drops, bounds>>

\* process_power_policy_event for a connected or disconnected consumer.
ProcessPolicyEvent ==
    /\ scan = NumPorts /\ policy # << >>
    /\ psuConnected' = Head(policy)
    /\ policy' = Tail(policy)
    /\ scan' = IF "battery" \in enabled THEN 0 ELSE NumPorts
    /\ UNCHANGED <<ports, queue, ppm, enabled, pending, valid, notes, debugTold, opm, raced,
                   drops, bounds>>

\* One port of pend_ucsi_connected_ports; the failing read of a port skips it.
PendConnectedPort ==
    /\ scan \in Ports
    /\ scan' = scan + 1
    /\ \/ /\ IF IsConnected(port[scan]) THEN PendUcsiPort(scan)
             ELSE UNCHANGED <<pending, notes, raced, overflow, noteLost>>
          /\ UNCHANGED <<lost, faults>>
       \/ /\ Fault
          /\ lost' = TRUE
          /\ UNCHANGED <<pending, notes, raced, overflow, noteLost>>
    /\ UNCHANGED <<ports, queue, policy, ppm, enabled, valid, psuConnected, debugTold, opm, ops>>

-----------------------------------------------------------------------------
(* Commands of the OPM.  The PPM state machine is idle with notifications   *)
(* disabled, idle, or waiting for the OPM to acknowledge a completed        *)
(* command; processing a command is not interrupted.                        *)

\* UCSI connector numbers are 1-based, and 0 means no pending change.
ConnectorChange(q) == IF q = << >> THEN 0 ELSE Head(q) + 1

\* The response carries a connector change, which the OPM takes note of.
Respond(connector, known) ==
    told' = known \cup (IF connector = 0 THEN {} ELSE {connector - 1})

OpmIdle == scan = NumPorts

\* PPM_RESET; the OPM forgets everything too.
PpmReset ==
    /\ OpmIdle /\ Operation
    /\ ppm' = "Disabled" /\ enabled' = {} /\ pending' = << >> /\ valid' = {}
    /\ Respond(ConnectorChange(<< >>), {})
    /\ seen' = [p \in Ports |-> None] /\ reading' = None
    /\ raced' = {}
    /\ UNCHANGED <<ports, queue, policy, psuConnected, scan, notes, debugTold, drops, faults>>

\* SET_NOTIFICATION_ENABLE; what the OPM read before counts no more.
SetNotificationEnable(e) ==
    /\ OpmIdle /\ Operation
    /\ ppm \in {"Disabled", "Idle"}
    /\ ppm' = "WaitAck" /\ enabled' = e
    /\ Respond(ConnectorChange(pending), told)
    /\ seen' = [p \in Ports |-> None] /\ reading' = None
    /\ UNCHANGED <<ports, queue, policy, pending, valid, psuConnected, scan, notes, debugTold,
                   raced, drops, faults>>

\* GET_CAPABILITY, the PPM commands without effect, and the LPM commands that
\* the port executes and that change nothing here.
OtherCommand ==
    /\ OpmIdle /\ Operation
    /\ ppm = "Idle" /\ ppm' = "WaitAck"
    /\ Respond(ConnectorChange(pending), told)
    /\ UNCHANGED <<ports, queue, policy, enabled, pending, valid, psuConnected, scan, notes,
                   debugTold, seen, reading, raced, drops, faults>>

\* A command the state machine ignores (notifications disabled) or refuses
\* (the last command is not acknowledged): an error response has no change.
IgnoredCommand ==
    /\ OpmIdle /\ Operation
    /\ \/ ppm = "Disabled" /\ Respond(ConnectorChange(pending), told)
       \/ ppm = "WaitAck" /\ Respond(0, told)
    /\ UNCHANGED <<ports, queue, policy, ucsi, notes, debugTold, seen, reading, raced,
                   drops, faults>>

BatteryChargingStatus(p) ==
    IF ~port[p].sink THEN None
    ELSE IF p \in valid /\ ~psuConnected THEN StatusOf(port[p].mw) ELSE "Nominal"

\* The fields of a GET_CONNECTOR_STATUS response that are about this service.
ConnectorStatus(p) ==
    IF IsConnected(port[p])
    THEN [connected |-> TRUE, mw |-> port[p].mw, battery |-> BatteryChargingStatus(p)]
    ELSE [connected |-> FALSE, mw |-> 0, battery |-> None]

\* GET_CONNECTOR_STATUS; the port's controller may fail either of the two calls.
GetConnectorStatus(p) ==
    /\ OpmIdle /\ ppm = "Idle"
    /\ IF p \in told /\ reading \notin told THEN UNCHANGED ops ELSE Operation
    /\ ppm' = "WaitAck"
    /\ Respond(ConnectorChange(pending), told)
    /\ \/ /\ seen' = [seen EXCEPT ![p] = ConnectorStatus(p)]
          /\ reading' = IF p \in told THEN p ELSE None
          /\ raced' = raced \ {p}
          /\ UNCHANGED faults
       \/ /\ Fault
          /\ reading' = None
          /\ UNCHANGED <<seen, raced>>
    /\ UNCHANGED <<ports, queue, policy, enabled, pending, valid, psuConnected, scan, notes,
                   debugTold, drops>>

\* Mutant: the response does not name the next pending port.
AckConnectorChangeSilent ==
    \/ /\ pending = << >>
       /\ Respond(0, told \ {reading})
       /\ UNCHANGED <<pending, notes, noteLost>>
    \/ /\ pending # << >>
       /\ pending' = Tail(pending)
       /\ Respond(0, told \ {reading})
       /\ IF Len(pending) = 1 THEN UNCHANGED <<notes, noteLost>>
          ELSE Notify(pending[2], FALSE)

\* The connector change the response to an ACK_CC_CI carries: the next pending
\* port, whose indicator does not notify the OPM again.
AckConnectorChange ==
    \/ /\ pending = << >>
       /\ Respond(0, told \ {reading})
       /\ UNCHANGED <<pending, notes, noteLost>>
    \/ /\ pending # << >>
       /\ pending' = Tail(pending)
       /\ Respond(ConnectorChange(Tail(pending)), told \ {reading})
       /\ IF Len(pending) = 1 THEN UNCHANGED <<notes, noteLost>>
          ELSE Notify(pending[2], FALSE)

\* ACK_CC_CI of the completed command, of the connector change, or of both.
AckCcCi(command, connector) ==
    /\ OpmIdle
    /\ command = (ppm = "WaitAck") /\ ppm # "Disabled"
    /\ command \/ connector
    /\ ppm' = IF enabled = {} THEN "Disabled" ELSE "Idle"
    /\ \/ connector /\ reading \in told /\ AckConnectorChange /\ reading' = None
       \/ ~connector /\ Respond(0, told) /\ UNCHANGED <<pending, notes, noteLost, reading>>
    /\ UNCHANGED <<ports, queue, policy, enabled, valid, psuConnected, scan, debugTold, seen,
                   raced, overflow, lost, bounds>>

\* The relay (external) passes on an indicator that notifies the OPM.
TakeNote ==
    /\ notes # << >>
    /\ notes' = Tail(notes)
    /\ told' = IF Head(notes).opm THEN told \cup {Head(notes).port} ELSE told
    /\ UNCHANGED <<ports, queue, policy, ucsi, debugTold, seen, reading, raced,
                   drops, bounds>>

ServiceStep == (\E p \in Ports : ProcessPortEvent(p)) \/ ProcessPolicyEvent \/ PendConnectedPort

\* What the OPM does about a connector it was told about.
OpmServes ==
    \/ reading \notin told /\ \E p \in told : GetConnectorStatus(p)
    \/ AckCcCi(TRUE, TRUE)
    \/ reading \notin told /\ AckCcCi(TRUE, FALSE)
    \/ AckCcCi(FALSE, TRUE)

Next ==
    \/ \E p \in Ports : Changed(p) \/ Report(p) \/ GetConnectorStatus(p)
    \/ \E connected \in BOOLEAN : PolicyEvent(connected)
    \/ ServiceStep \/ TakeNote
    \/ PpmReset \/ OtherCommand \/ IgnoredCommand
    \/ \E e \in EnableSets : SetNotificationEnable(e)
    \/ \E a, b \in BOOLEAN : AckCcCi(a, b)

Spec == Init /\ [][Next]_vars

\* The executor runs the service and the ports, and the OPM follows its
\* notifications up.
FairSpec ==
    /\ Spec
    /\ \A p \in Ports : WF_vars(Report(p)) /\ WF_vars(ProcessPortEvent(p))
    /\ WF_vars(ProcessPolicyEvent \/ PendConnectedPort) /\ WF_vars(TakeNote)
    /\ WF_vars(OpmServes)

-----------------------------------------------------------------------------
(* Properties.                                                              *)

PortEvent == [bits : SUBSET EventBits, status : PortStatus, previous : PortStatus]
OpmView == [connected : BOOLEAN, mw : SinkPowers \cup {0},
            battery : {None, "NotCharging", "VerySlow", "Slow", "Nominal"}]

\* Types of the service's state and of what the OPM reads.
TypeOK ==
    /\ port \in [Ports -> PortStatus] /\ cached \in [Ports -> PortStatus]
    /\ raised \in [Ports -> SUBSET EventBits]
    /\ queue \in [Ports -> Seq(PortEvent)] /\ policy \in Seq(BOOLEAN)
    /\ ppm \in {"Disabled", "Idle", "WaitAck"}
    /\ enabled \subseteq Changes \cup {"cmd_complete"}
    /\ pending \in Seq(Ports) /\ valid \subseteq Ports
    /\ psuConnected \in BOOLEAN /\ scan \in 0 .. NumPorts
    /\ notes \in Seq([port : Ports, opm : BOOLEAN])
    /\ debugTold \in [Ports -> BOOLEAN]
    /\ told \subseteq Ports /\ seen \in [Ports -> OpmView \cup {None}]
    /\ reading \in Ports \cup {None} /\ raced \subseteq Ports
    /\ overflow \in BOOLEAN /\ lost \in BOOLEAN /\ noteLost \in BOOLEAN

\* Whatever the ports, the power policy and an OPM that reads a connector before it
\* acknowledges its change do, a connector change is
\* never dropped for want of a slot (ucsi.rs:379), and the connector at the front
\* of the queue is one the OPM knows of or is being notified of: the changes
\* behind it are never stuck behind one nobody will acknowledge.
PendingAnnounced ==
    /\ TypeOK
    /\ NumPorts <= MaxPorts => ~overflow
    /\ (pending # << >> /\ ~noteLost)
       => \/ Head(pending) \in told
          \/ \E i \in DOMAIN notes : notes[i] = [port |-> Head(pending), opm |-> TRUE]

Quiet ==
    /\ \A p \in Ports : raised[p] = {} /\ queue[p] = << >>
    /\ policy = << >> /\ scan = NumPorts
    /\ notes = << >> /\ pending = << >> /\ told = {}
    /\ enabled = Changes /\ ~lost /\ ~noteLost

\* Once all is quiet, what the OPM read of a connector is what it would read
\* now, unless the connector changed again between the OPM's read and the
\* acknowledgement that follows it.
OnlyRacesLost ==
    Quiet => \A p \in Ports : p \in raced \/ seen[p] \in {None, ConnectorStatus(p)}

\* Every pending connector change is eventually acknowledged.
ChangesServed == \A p \in Ports : IsPending(p) ~> (~IsPending(p) \/ noteLost)
=============================================================================
