----------------------------- MODULE TypeCPort -----------------------------
(***************************************************************************)
(* One USB Type-C port of type-c-service: the Port struct (controller/     *)
(* mod.rs, power.rs, pd.rs, max_sink_voltage.rs), its EventReceiver        *)
(* (controller/event_receiver.rs) and the event streamer of lib.rs.        *)
(*                                                                         *)
(* The PD controller is external.  It keeps the true port status and       *)
(* raises interrupts, whose bits say what changed; the port reads the      *)
(* status only when it comes to handle one, so it may read a later status  *)
(* than the interrupt was about.  Channels are bounded and lossy.          *)
(*                                                                         *)
(* The port's task alternates between wait_event and process_event; other  *)
(* tasks (the power policy, system control) call the port in between,      *)
(* under its lock.  Time is abstract: a pending sink-ready deadline may    *)
(* elapse at any moment.  What the port reports to the power policy is     *)
(* modelled in PowerPolicy.                                                *)
(***************************************************************************)
EXTENDS Psu, Sequences

CONSTANTS
    UnconstrainedSink,   \* config.unconstrained_sink: [mode, mw]
    IrqSize, LoopSize, ServiceSize,    \* channel capacities
    HwKinds, CallKinds,  \* the controller activity and calls a run explores
    MaxOps, MaxFaults    \* bounds: activity, calls and failures together; failures

\* A contract in PortStatus, of which the port derives the power policy's
\* capability: only the unconstrained flag depends on the configuration.
IsUnconstrainedSink(c) ==
    CASE UnconstrainedSink.mode = "Auto" -> c.unconstrained
      [] UnconstrainedSink.mode = "PowerThreshold" -> MaxPowerMw(c) >= UnconstrainedSink.mw
      [] UnconstrainedSink.mode = "Never" -> FALSE

ConsumerCapability(c) ==
    IF c = None THEN None
    ELSE [mv |-> c.mv, ma |-> c.ma, unconstrained |-> IsUnconstrainedSink(c)]

PortStatus ==
    [connected : BOOLEAN, sink : ConsumerCaps \cup {None}, source : ProviderCaps \cup {None}]
NoStatus == [connected |-> FALSE, sink |-> None, source |-> None]

StatusBits == {"plug", "hard_reset", "power_swap", "sink_ready", "new_consumer",
               "new_provider"}
\* Notifications in the order PortNotificationEventBitfield yields them.
NoteOrder == <<"alert", "vdm", "other", "dp">>
NoteBits == {NoteOrder[i] : i \in DOMAIN NoteOrder}
PortEventBitfield == [status : SUBSET StatusBits, notes : SUBSET NoteBits]
Bits(status, notes) == [status |-> status, notes |-> notes]
Invalidated == Bits({}, {})     \* Loopback::SinkReadyDeadlineInvalidated

\* What the receiver hands to process_event, one thing at a time.
Event == [kind : {"status"} \cup NoteBits, bits : SUBSET StatusBits]

ASSUME TypeCPortAssumption ==
    /\ UnconstrainedSink \in [mode : {"Auto", "PowerThreshold", "Never"}, mw : Nat]
    /\ \A c \in ConsumerCaps : ConsumerCapability(c) \in ConsumerCaps
    /\ IrqSize \in Nat \ {0} /\ LoopSize \in Nat \ {0} /\ ServiceSize \in Nat \ {0}
    /\ MaxOps \in Nat /\ MaxFaults \in Nat
    /\ None \notin PortEventBitfield \cup Event

VARIABLES
    hw, owed,        \* the controller's status; it still owes a sink_ready
    irq, loopback,   \* channels to the event receiver
    rx, armed,       \* the receiver's place, and the timeout it waits on
    stream, event,   \* streaming_state, and the event handed to process_event
    deadline,        \* SharedState::sink_ready_deadline is set
    psu, status,     \* psu_state and the cached status
    svc, told,       \* queued for the Type-C service, and the last status sent
    lost, svcLost,   \* an event was dropped
    signals,         \* the controller raises sink_ready for every sink contract
    synced,          \* sync_state was called
    ops, faults

controller == <<hw, owed, signals>>
port == <<psu, status, deadline>>
receiver == <<rx, armed, stream, event>>
channels == <<irq, loopback, lost>>
outputs == <<svc, told, svcLost>>
counters == <<ops, faults>>
vars == <<controller, channels, receiver, port, outputs, synced, counters>>

Init ==
    /\ hw = NoStatus /\ owed = FALSE
    /\ irq = << >> /\ loopback = << >>
    /\ rx = "Top" /\ armed = FALSE /\ stream = None /\ event = None
    /\ deadline = FALSE
    /\ psu = DefaultState /\ status = NoStatus
    /\ svc = 0 /\ told = NoStatus
    /\ lost = FALSE /\ svcLost = FALSE
    /\ signals \in BOOLEAN /\ synced = FALSE
    /\ ops = 0 /\ faults = 0

-----------------------------------------------------------------------------
(* The PD controller (external) and its interrupts.                         *)

\* PortEventSplitter::process_interrupts: dropped when the channel is full.
Interrupt(bits) ==
    /\ irq' = IF Len(irq) < IrqSize THEN Append(irq, bits) ELSE irq
    /\ lost' = (lost \/ Len(irq) >= IrqSize)

Hardware(kind, new, owes, bits) ==
    /\ kind \in HwKinds
    /\ ops < MaxOps /\ ops' = ops + 1
    /\ hw' = new
    /\ owed' = owes
    /\ Interrupt(bits)
    /\ UNCHANGED <<signals, loopback, receiver, port, outputs, synced, faults>>

HwPlug ==
    Hardware("plug", [NoStatus EXCEPT !.connected = ~hw.connected], FALSE,
             Bits({"plug"}, {}))

\* A sink contract, announced together with sink_ready or before it.
HwSinkContract(c) ==
    /\ hw.connected /\ hw.source = None
    /\ \/ /\ signals
          /\ Hardware("sink", [hw EXCEPT !.sink = c], FALSE,
                      Bits({"new_consumer", "sink_ready"}, {}))
       \/ Hardware("sink", [hw EXCEPT !.sink = c], TRUE, Bits({"new_consumer"}, {}))

HwSinkReady ==
    /\ owed /\ signals
    /\ Hardware("sink", hw, FALSE, Bits({"sink_ready"}, {}))

HwSourceContract(c) ==
    /\ hw.connected /\ hw.sink = None
    /\ Hardware("source", [hw EXCEPT !.source = c], FALSE, Bits({"new_provider"}, {}))

HwHardReset ==
    /\ hw.connected
    /\ Hardware("reset", [NoStatus EXCEPT !.connected = TRUE], FALSE,
                Bits({"hard_reset"}, {}))

\* A power role swap, which ends the old contract and negotiates a new one.
HwPowerSwap ==
    \/ /\ hw.sink # None
       /\ \E c \in ProviderCaps :
             Hardware("swap", [connected |-> TRUE, sink |-> None, source |-> c], FALSE,
                      Bits({"power_swap", "new_provider"}, {}))
    \/ /\ hw.source # None
       /\ \E c \in ConsumerCaps :
             Hardware("swap", [connected |-> TRUE, sink |-> c, source |-> None], TRUE,
                      Bits({"power_swap", "new_consumer"}, {}))

HwNotify ==
    Hardware("notify", hw, owed, Bits({}, NoteBits))

ControllerStep ==
    \/ HwPlug \/ HwSinkReady \/ HwHardReset \/ HwPowerSwap \/ HwNotify
    \/ \E c \in ConsumerCaps : HwSinkContract(c)
    \/ \E c \in ProviderCaps : HwSourceContract(c)

-----------------------------------------------------------------------------
(* EventReceiver::wait_event.                                               *)

\* The first pending notification, and those left.
FirstNote(notes) ==
    LET i == CHOOSE k \in DOMAIN NoteOrder :
                /\ NoteOrder[k] \in notes
                /\ \A j \in 1..(k - 1) : NoteOrder[j] \notin notes
    IN  [note |-> NoteOrder[i], rest |-> notes \ {NoteOrder[i]}]

\* With a streaming state, yield and take its next event: the status bits at
\* once, then the notifications one by one.
StreamNext ==
    /\ rx = "Top" /\ stream # None
    /\ \/ /\ stream.status # {}
          /\ event' = [kind |-> "status", bits |-> stream.status]
          /\ stream' = [stream EXCEPT !.status = {}]
          /\ rx' = "Deliver"
       \/ /\ stream.status = {} /\ stream.notes # {}
          /\ LET f == FirstNote(stream.notes) IN
             /\ event' = [kind |-> f.note, bits |-> {}]
             /\ stream' = [stream EXCEPT !.notes = f.rest]
          /\ rx' = "Deliver"
       \/ /\ stream.status = {} /\ stream.notes = {}
          /\ stream' = None
          /\ UNCHANGED <<rx, event>>
    /\ UNCHANGED <<controller, channels, armed, port, outputs, synced, counters>>

\* Read the shared deadline and wait for one of three things.
ReadDeadline ==
    /\ rx = "Top" /\ stream = None
    /\ armed' = deadline
    /\ rx' = "Select"
    /\ UNCHANGED <<controller, channels, stream, event, port, outputs, synced, counters>>

TakeInterrupt ==
    /\ rx = "Select" /\ irq # << >>
    /\ stream' = Head(irq)
    /\ irq' = Tail(irq)
    /\ rx' = "Top"
    /\ UNCHANGED <<controller, loopback, lost, armed, event, port, outputs, synced, counters>>

\* The timer fires: the missing sink_ready is made up.
DeadlineElapsed ==
    /\ rx = "Select" /\ armed
    /\ deadline' = FALSE
    /\ event' = [kind |-> "status", bits |-> {"sink_ready"}]
    /\ rx' = "Deliver"
    /\ UNCHANGED <<controller, channels, armed, stream, psu, status, outputs, synced, counters>>

TakeLoopback ==
    /\ rx = "Select" /\ loopback # << >>
    /\ stream' = IF Head(loopback) = Invalidated THEN None ELSE Head(loopback)
    /\ loopback' = Tail(loopback)
    /\ rx' = "Top"
    /\ UNCHANGED <<controller, irq, lost, armed, event, port, outputs, synced, counters>>

-----------------------------------------------------------------------------
(* Port::process_event.  A handler runs under the port's lock; it is a      *)
(* chain of steps over p = [psu, status, deadline, ok] that stops at the    *)
(* first error.                                                             *)

\* Mutant of PlugEvent: a plug that was not seen removed is an error.
PlugEventStrict(p, new) ==
    IF ~new.connected THEN [p EXCEPT !.psu = Detach(@)]
    ELSE [p EXCEPT !.psu = Attach(@), !.ok = AttachOk(p.psu)]

\* process_plug_event.
PlugEvent(p, new) ==
    IF ~new.connected THEN [p EXCEPT !.psu = Detach(@)]
    ELSE [p EXCEPT !.psu = Attach(IF AttachOk(@) THEN @ ELSE Detach(@))]

InPowerRole(s) == s.state \in {"ConnectedConsumer", "ConnectedProvider"}

\* process_hard_reset.
HardReset(p) ==
    [p EXCEPT !.deadline = FALSE,
              !.status.sink = None,
              !.status.source = None,
              !.psu = IF InPowerRole(@) THEN Disconnect(@, TRUE) ELSE @]

\* process_power_role_swap; `fail`: a consumer's sink path cannot be disabled.
PowerRoleSwap(p, new, fail) ==
    IF ~new.connected \/ ~InPowerRole(p.psu) THEN p
    ELSE IF fail /\ p.psu.state = "ConnectedConsumer" THEN [p EXCEPT !.ok = FALSE]
    ELSE [p EXCEPT !.psu = Disconnect(@, TRUE)]

\* process_new_consumer_contract and process_new_provider_contract.
NewConsumer(p, new) ==
    [p EXCEPT !.psu = UpdateConsumer(@, ConsumerCapability(new.sink)),
              !.ok = UpdateConsumerOk(p.psu)]
NewProvider(p, new) ==
    [p EXCEPT !.psu = UpdateRequested(@, new.source),
              !.ok = UpdateRequestedOk(p.psu, new.source)]

\* check_sink_ready_timeout.
CheckSinkReadyTimeout(p, new, bits) ==
    [p EXCEPT !.deadline =
        \/ /\ "new_consumer" \in bits /\ "sink_ready" \notin bits
           /\ p.status.sink # new.sink
        \/ @ /\ new.connected /\ new.sink # None /\ "sink_ready" \notin bits]

\* The next step of the chain, if the chain got this far and it applies.
Then(p, applies, q) == IF p.ok /\ applies THEN q ELSE p

\* process_port_status_changed up to its last `?`.
AfterStatusChange(p, new, bits, fail) ==
    LET plug     == Then(p, "plug" \in bits, PlugEvent(p, new))
        reset    == Then(plug, "hard_reset" \in bits, HardReset(plug))
        swap     == Then(reset, "power_swap" \in bits, PowerRoleSwap(reset, new, fail))
        consumer == Then(swap, "sink_ready" \in bits, NewConsumer(swap, new))
        provider == Then(consumer,
                         new.connected /\ new.source # consumer.status.source,
                         NewProvider(consumer, new))
    IN  Then(provider, TRUE, CheckSinkReadyTimeout(provider, new, bits))

\* try_send to the Type-C service.
NotifyService(s) ==
    IF svc < ServiceSize
    THEN svc' = svc + 1 /\ told' = s /\ UNCHANGED svcLost
    ELSE svcLost' = TRUE /\ UNCHANGED <<svc, told>>

\* A call to the PD controller fails.
Fault ==
    /\ ops < MaxOps /\ ops' = ops + 1
    /\ faults < MaxFaults /\ faults' = faults + 1

Handled == rx' = "Top" /\ event' = None

ProcessStatusChanged ==
    /\ rx = "Deliver" /\ event.kind = "status"
    /\ Handled
    /\ \E fail \in BOOLEAN :
          LET p == AfterStatusChange([psu |-> psu, status |-> status,
                                      deadline |-> deadline, ok |-> TRUE],
                                     hw, event.bits, fail)
          IN  /\ psu' = p.psu /\ deadline' = p.deadline
              /\ \/ /\ p.ok
                    /\ status' = hw
                    /\ NotifyService(hw)
                 \/ /\ ~p.ok
                    /\ status' = p.status
                    /\ UNCHANGED outputs
              /\ IF fail THEN Fault /\ ~p.ok ELSE UNCHANGED counters
    /\ UNCHANGED <<controller, channels, armed, stream, synced>>

\* The status, or the data of a notification, cannot be read: the event is
\* logged and dropped.
ReadFailed ==
    /\ rx = "Deliver" /\ event.kind # "other"
    /\ Fault
    /\ Handled
    /\ UNCHANGED <<controller, channels, armed, stream, port, outputs, synced>>

\* process_pd_alert, process_vdm_event, process_dp_status_update; the
\* remaining notifications are ignored.
ProcessNotification ==
    /\ rx = "Deliver" /\ event.kind # "status"
    /\ Handled
    /\ \/ event.kind # "other" /\ NotifyService(told)
       \/ event.kind \in {"other", "alert"} /\ UNCHANGED outputs
    /\ UNCHANGED <<controller, channels, armed, stream, port, synced, counters>>

\* The Type-C service takes an event of this port.
ServiceTakes ==
    /\ svc > 0
    /\ svc' = svc - 1
    /\ UNCHANGED <<controller, channels, receiver, port, told, svcLost, synced, counters>>

-----------------------------------------------------------------------------
(* Calls of other tasks, under the port's lock.                             *)

Call(kind) ==
    /\ kind \in CallKinds
    /\ ops < MaxOps /\ ops' = ops + 1
    /\ UNCHANGED <<controller, irq, receiver, outputs, faults>>

\* The Psu trait, called by the power policy.
PolicyCall ==
    /\ Call("policy")
    /\ \/ /\ CanConnectConsumer(psu)
          /\ \E c \in ConsumerCaps : psu' = ConnectConsumer(psu, c)
       \/ /\ CanConnectProvider(psu)
          /\ \E c \in ProviderCaps : psu' = ConnectProvider(psu, c)
       \/ /\ psu.state = "ConnectedConsumer"
          /\ psu' = Disconnect(psu, FALSE)
    /\ UNCHANGED <<status, deadline, loopback, lost, synced>>

\* try_send on the loopback channel.
Loop(bits) ==
    /\ loopback' = IF Len(loopback) < LoopSize THEN Append(loopback, bits) ELSE loopback
    /\ lost' = (lost \/ (Len(loopback) >= LoopSize /\ bits # Invalidated))

\* Mutants of SetMaxSinkVoltage: no deadline is armed for the case that nothing
\* is renegotiated; the receiver is not told of the deadline.
SetMaxSinkVoltageNoDeadline ==
    /\ Call("voltage")
    /\ psu.state = "ConnectedConsumer"
    /\ psu' = Disconnect(psu, TRUE)
    /\ UNCHANGED <<status, deadline, loopback, lost, synced>>

SetMaxSinkVoltageSilent ==
    /\ Call("voltage")
    /\ psu.state = "ConnectedConsumer"
    /\ deadline' = TRUE
    /\ psu' = Disconnect(psu, TRUE)
    /\ UNCHANGED <<status, loopback, lost, synced>>

\* set_max_sink_voltage while consuming at another voltage, or to remove the
\* limit; in every other case the port's state stays as it is.
SetMaxSinkVoltage ==
    /\ Call("voltage")
    /\ psu.state = "ConnectedConsumer"
    /\ deadline' = TRUE
    /\ Loop(Invalidated)
    /\ psu' = Disconnect(psu, TRUE)
    /\ UNCHANGED <<status, synced>>

\* sync_state: the differences between the cached and the true status, as if
\* the controller had raised them.
SyncState ==
    /\ Call("sync")
    /\ LET bits == {b \in {"plug", "new_consumer", "new_provider"} :
                       \/ b = "plug" /\ status.connected # hw.connected
                       \/ b = "new_consumer" /\ status.sink # hw.sink
                       \/ b = "new_provider" /\ status.source # hw.source}
       IN  /\ bits # {}
           /\ Loop(Bits(bits, {}))
    /\ synced' = TRUE
    /\ UNCHANGED port

-----------------------------------------------------------------------------

Receiver == StreamNext \/ ReadDeadline \/ TakeInterrupt \/ DeadlineElapsed \/ TakeLoopback
Process == ProcessStatusChanged \/ ReadFailed \/ ProcessNotification

Next ==
    \/ ControllerStep
    \/ Receiver \/ Process \/ ServiceTakes
    \/ PolicyCall \/ SetMaxSinkVoltage \/ SyncState

Spec == Init /\ [][Next]_vars

\* The executor polls the port's task, and timers fire.
FairSpec == Spec /\ WF_vars(Receiver \/ Process)

-----------------------------------------------------------------------------
(* Properties.                                                              *)

\* Every variable keeps the type its Rust counterpart has.
TypeOK ==
    /\ hw \in PortStatus /\ owed \in BOOLEAN
    /\ irq \in Seq(PortEventBitfield) /\ loopback \in Seq(PortEventBitfield)
    /\ rx \in {"Top", "Select", "Deliver"} /\ armed \in BOOLEAN
    /\ stream \in PortEventBitfield \cup {None}
    /\ event \in Event \cup {None}
    /\ psu \in State /\ status \in PortStatus /\ deadline \in BOOLEAN
    /\ svc \in 0..ServiceSize /\ told \in PortStatus
    /\ lost \in BOOLEAN /\ svcLost \in BOOLEAN
    /\ signals \in BOOLEAN /\ synced \in BOOLEAN
    /\ ops \in 0..MaxOps /\ faults \in 0..MaxFaults

\* The port has nothing left to do and nothing went wrong on the way.
Quiescent ==
    /\ irq = << >> /\ loopback = << >> /\ stream = None /\ rx = "Select"
    /\ ~deadline /\ ~lost /\ faults = 0

\* Once the interrupts are handled, the cached status is the controller's, and
\* so is the last one the Type-C service was sent, although a handler that
\* fails on the way leaves the cache as it was.
StatusConverged ==
    TypeOK /\ (Quiescent => status = hw /\ (svcLost \/ told = hw))

\* Every sink contract of a controller that signals sink_ready is offered to
\* the power policy as the configuration says, whatever order plugs, resets,
\* swaps, policy calls and voltage limits came in.  A sync_state that overlaps
\* the interrupts of a plug-in may cost the contract, so it is left out.
ContractOffered ==
    (Quiescent /\ signals /\ ~owed /\ ~synced /\ hw.sink # None)
    => psu.consumer = ConsumerCapability(hw.sink)

\* power.rs, check_sink_ready_timeout: the timeout is there to handle sink
\* contracts "even for controllers that might not always broadcast sink ready
\* events", so that these are offered as well.
ContractOfferedAnyController ==
    (Quiescent /\ ~signals /\ ~synced /\ hw.sink # None)
    => psu.consumer = ConsumerCapability(hw.sink)

\* An offered contract does not wait for ever: a pending deadline is
\* eventually dealt with, even one that set_max_sink_voltage arms while the
\* receiver sleeps without a timeout and whose loopback event was dropped.
DeadlineSettles == []<>~deadline
=============================================================================
