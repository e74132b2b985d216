---------------------------- MODULE PowerPolicy ----------------------------
(***************************************************************************)
(* The power policy service (power-policy-service/src/service) together    *)
(* with the PSU drivers and chargers it talks to.                          *)
(*                                                                         *)
(* Processes and what they share:                                          *)
(*  - every PSU driver runs its own task.  It changes its psu::State under *)
(*    the PSU's lock and reports with try_send on a small channel of its   *)
(*    own, so an event is lost when the channel is full;                   *)
(*  - the policy task takes one event at a time and runs its handler to    *)
(*    the end.  A handler locks one PSU after the other, so drivers move   *)
(*    between any two of its steps, except a driver whose lock is `held`;  *)
(*  - a charger driver changes its charger under the charger's lock.       *)
(*                                                                         *)
(* A step of the handler is what happens under one lock.  Calls into a     *)
(* driver that can fail (enabling or disabling a sink path, talking to a   *)
(* charger) fail nondeterministically, at most MaxFaults times.            *)
(***************************************************************************)
EXTENDS Charger, Sequences, FiniteSets

CONSTANTS
    NumPsus,          \* registered PSUs, scanned in registration order
    NumChargers,      \* registered chargers, visited in registration order
    ChannelSize,      \* capacity of a PSU's event channel
    MaxProviders,     \* MAX_CONNECTED_PROVIDERS
    MinConsumerMw,    \* config.min_consumer_threshold_mw (0 for None)
    LimitedMw,        \* config.limited_power_threshold_mw
    ProviderUnlimited, ProviderLimited,
    DriverOps,        \* the kinds of driver activity a run explores
    MaxOps,           \* bound: driver operations in a behaviour
    MaxFaults         \* bound: failed driver calls in a behaviour

Psus == 1..NumPsus
Chargers == 1..NumChargers
AvailableConsumer == [psu : Psus, cap : ConsumerCaps]
DisconnectReason ==
    {"Detached", "Switching", "AutoRenegotiation", "ManualRenegotiation", "RoleSwap",
     "Reset"}
EventKind ==
    {"Attached", "Detached", "UpdatedConsumerCapability",
     "RequestedProviderCapability", "Disconnected"}
\* psu::event::EventData.  The capabilities an event carries are only logged:
\* a handler reads them from the PSU instead.
EventData == [kind : EventKind, reason : DisconnectReason \cup {None}]

AllDriverOps ==
    {"attach", "detach", "recover", "consumer", "withdraw", "unplugged",
     "provider", "teardown", "charger"}

ASSUME PowerPolicyAssumption ==
    /\ NumPsus \in Nat /\ NumChargers \in Nat
    /\ ChannelSize \in Nat \ {0}
    /\ MaxProviders \in Nat
    /\ MinConsumerMw \in Nat /\ LimitedMw \in Nat
    /\ ProviderUnlimited \in ProviderCaps /\ ProviderLimited \in ProviderCaps
    /\ DriverOps \subseteq AllDriverOps
    /\ MaxOps \in Nat /\ MaxFaults \in Nat
    /\ None \notin Psus
    /\ None \notin AvailableConsumer

VARIABLES
    psu,            \* psu[p]: psu::State of PSU p
    queue,          \* queue[p]: the channel from p's driver to the policy
    charger,        \* charger[c]: charger::State
    \* InternalState of the service
    current,        \* current_consumer_state
    providerState,  \* current_provider_state
    connected,      \* connected_providers
    unconstrained,  \* unconstrained: [unconstrained, available]
    \* the handler's control point and local variables
    pc, dev, reason, idx, best, prev, request, total, held,
    \* what listeners were last told, and history used by properties only
    told,           \* the consumer of the last ConsumerConnected not yet undone
    toldProviders,  \* PSUs with a ProviderConnected not yet undone
    note,           \* the last ConsumerDisconnected: [psu, reason]
    seen,           \* seen[p]: the consumer capability last read by a selection
    missed,         \* p's consumer capability changed and no event says so
    lost,           \* p's driver failed to report something
    settled,        \* the last selection ran to its end without an error
    orphan,         \* PSUs left consuming when the policy forgot them
    ops, faults     \* driver operations and failed calls so far

service == <<current, providerState, connected, unconstrained>>
locals == <<dev, reason, idx, best, prev, request, total, held>>
listeners == <<told, toldProviders, note>>
history == <<seen, missed, lost, settled, orphan>>
bounds == <<ops, faults>>
vars == <<psu, queue, charger, service, pc, locals, listeners, history, bounds>>

PcLabel ==
    {"WaitEvent", "ProviderRemoved", "FindBest", "Select", "DropCurrent",
     "DetachChargers", "NotifyDisconnected", "ConnectNew", "AttachChargers",
     "NotifyConnected", "Unconstrained",
     "ReadRequest", "TotalPower", "ConnectProvider"}

Init ==
    /\ psu = [p \in Psus |-> DefaultState]
    /\ queue = [p \in Psus |-> << >>]
    /\ charger = [c \in Chargers |-> DefaultCharger]
    /\ current = None
    /\ providerState = "Unlimited"
    /\ connected = {}
    /\ unconstrained = [unconstrained |-> FALSE, available |-> 0]
    /\ pc = "WaitEvent"
    /\ dev = None /\ reason = None /\ idx = 1 /\ best = None /\ prev = None
    /\ request = None /\ total = 0 /\ held = None
    /\ told = None /\ toldProviders = {} /\ note = None
    /\ seen = [p \in Psus |-> None]
    /\ missed = [p \in Psus |-> FALSE]
    /\ lost = [p \in Psus |-> FALSE]
    /\ settled = TRUE
    /\ orphan = {}
    /\ ops = 0 /\ faults = 0

-----------------------------------------------------------------------------
(* PSU drivers.  The operations are those of the Type-C port               *)
(* (type-c-service/src/controller), each under the PSU's lock.             *)

Room(p) == Len(queue[p]) < ChannelSize

Event(kind, why) == [kind |-> kind, reason |-> why]

\* Events that make the policy select a consumer again.
Selecting(e) ==
    e.kind \in {"Detached", "UpdatedConsumerCapability", "Disconnected"}

\* NonBlockingSenderNotifier: the event is dropped when the channel is full.
TrySend(p, e) ==
    queue' = IF Room(p) THEN [queue EXCEPT ![p] = Append(@, e)] ELSE queue

\* One driver operation on PSU p: it moves the PSU to state s and sends e.
Drive(p, s, e) ==
    /\ held # p
    /\ ops < MaxOps
    /\ ops' = ops + 1
    /\ psu' = [psu EXCEPT ![p] = s]
    /\ TrySend(p, e)
    /\ lost' = [lost EXCEPT ![p] = @ \/ ~Room(p)
                                     \/ (e.kind = "Attached" /\ ~AttachOk(psu[p]))]
    /\ missed' = [missed EXCEPT
           ![p] = @ \/ (s.consumer # psu[p].consumer
                        /\ ~(Room(p) /\ Selecting(e)))]
    /\ orphan' = IF s.state = "ConnectedConsumer" THEN orphan ELSE orphan \ {p}
    /\ UNCHANGED <<charger, service, pc, locals, listeners, seen, settled, faults>>

\* process_plug_event with the port connected.
PlugInserted(p) ==
    /\ "attach" \in DriverOps
    /\ AttachOk(psu[p])
    /\ Drive(p, Attach(psu[p]), Event("Attached", None))

\* The same, when the removal was never seen: the driver detaches the PSU
\* itself before attaching it, and reports the attach only.
PlugRecovered(p) ==
    /\ "recover" \in DriverOps
    /\ ~AttachOk(psu[p])
    /\ Drive(p, Attach(Detach(psu[p])), Event("Attached", None))

\* process_plug_event with the port no longer connected.
PlugRemoved(p) ==
    /\ "detach" \in DriverOps
    /\ Drive(p, Detach(psu[p]), Event("Detached", None))

\* process_new_consumer_contract on an attached PSU.
NewConsumerContract(p, c) ==
    /\ "consumer" \in DriverOps
    /\ c = None => "withdraw" \in DriverOps
    /\ UpdateConsumerOk(psu[p])
    /\ Drive(p, UpdateConsumer(psu[p], c), Event("UpdatedConsumerCapability", None))

\* Either contract on a Detached PSU: the capability is stored all the same,
\* and the error returns before the policy is notified.
ContractWhileDetached(p, s) ==
    /\ "unplugged" \in DriverOps
    /\ held # p
    /\ ops < MaxOps /\ ops' = ops + 1
    /\ psu' = [psu EXCEPT ![p] = s]
    /\ lost' = [lost EXCEPT ![p] = TRUE]
    /\ missed' = [missed EXCEPT ![p] = @ \/ s.consumer # psu[p].consumer]
    /\ UNCHANGED <<queue, charger, service, pc, locals, listeners, seen, settled,
                   orphan, faults>>

\* process_new_provider_contract.
NewProviderContract(p, c) ==
    /\ "provider" \in DriverOps
    /\ UpdateRequestedOk(psu[p], c)
    /\ Drive(p, UpdateRequested(psu[p], c), Event("RequestedProviderCapability", None))

\* process_power_role_swap, process_hard_reset and set_max_sink_voltage: they
\* act only on a PSU that is providing or consuming, the last one only on a
\* consumer.
TearDown(p, why) ==
    /\ "teardown" \in DriverOps
    /\ \/ psu[p].state = "ConnectedConsumer"
       \/ psu[p].state = "ConnectedProvider" /\ why # "ManualRenegotiation"
    /\ Drive(p, Disconnect(psu[p], TRUE), Event("Disconnected", why))

Driver(p) ==
    \/ PlugInserted(p)
    \/ PlugRecovered(p)
    \/ PlugRemoved(p)
    \/ \E c \in ConsumerCaps \cup {None} : NewConsumerContract(p, c)
    \/ \E c \in ConsumerCaps :
          /\ ~UpdateConsumerOk(psu[p])
          /\ ContractWhileDetached(p, UpdateConsumer(psu[p], c))
    \/ \E c \in ProviderCaps :
          /\ ~UpdateRequestedOk(psu[p], c)
          /\ ContractWhileDetached(p, UpdateRequested(psu[p], c))
    \/ \E c \in ProviderCaps \cup {None} : NewProviderContract(p, c)
    \/ \E why \in {"RoleSwap", "Reset", "ManualRenegotiation"} : TearDown(p, why)

-----------------------------------------------------------------------------
(* Charger drivers.  A charger is busy while the policy holds its lock, but *)
(* the policy finishes with a charger in one step of this model.            *)

DriveCharger(c, s) ==
    /\ "charger" \in DriverOps
    /\ ops < MaxOps /\ ops' = ops + 1
    /\ s # charger[c]
    /\ charger' = [charger EXCEPT ![c] = s]
    /\ UNCHANGED <<psu, queue, service, pc, locals, listeners, history, faults>>

ChargerDriver(c) ==
    \/ DriveCharger(c, OnTimeout(charger[c]))
    \/ DriveCharger(c, OnReadySuccess(charger[c]))
    \/ DriveCharger(c, OnReadyFailure(charger[c]))
    \/ \E ps \in ChargerPsuState :
          \/ DriveCharger(c, OnInitialized(charger[c], ps))
          \/ DriveCharger(c, OnPsuStateChange(charger[c], ps))

-----------------------------------------------------------------------------
(* The policy task.                                                         *)

\* A handler returns: the task logs an error, if any, and waits again.
Return(ok) ==
    /\ pc' = "WaitEvent"
    /\ dev' = None /\ reason' = None /\ idx' = 1 /\ best' = None
    /\ prev' = None /\ request' = None /\ total' = 0 /\ held' = None
    /\ settled' = ok

\* A call into a driver fails.
Fault == faults < MaxFaults /\ faults' = faults + 1

\* PsuEventReceivers::wait_event takes the oldest event of p's channel.
Received(p) == Tail(queue[p])

\* Mutant of WithoutProvider: the PSU stays tracked.
WithoutProviderKept(p) == connected

WithoutProvider(p) == connected \ {p}

\* psu_task and process_psu_event: the next event of any channel.  Attached
\* changes nothing; Detached and Disconnected run post_provider_removed first.
ProcessPsuEvent(p) ==
    /\ pc = "WaitEvent"
    /\ queue[p] # << >>
    /\ queue' = [queue EXCEPT ![p] = Received(p)]
    /\ LET e == Head(queue[p]) IN
       \/ /\ e.kind = "Attached"
          /\ UNCHANGED <<pc, dev, reason, connected>>
       \/ /\ e.kind = "UpdatedConsumerCapability"
          /\ pc' = "FindBest" /\ dev' = p /\ reason' = None
          /\ UNCHANGED connected
       \/ /\ e.kind \in {"Detached", "Disconnected"}
          /\ pc' = IF p \in connected THEN "ProviderRemoved" ELSE "FindBest"
          /\ dev' = p
          /\ reason' = IF e.kind = "Detached" THEN "Detached" ELSE e.reason
          /\ connected' = WithoutProvider(p)
       \/ /\ e.kind = "RequestedProviderCapability"
          /\ pc' = "ReadRequest" /\ dev' = p /\ reason' = None
          /\ UNCHANGED connected
    /\ UNCHANGED <<psu, charger, current, providerState, unconstrained, idx, best,
                   prev, request, total, held, listeners, history, bounds>>

NewProviderState(mw) == IF mw > LimitedMw THEN "Limited" ELSE "Unlimited"

\* post_provider_removed: the remaining draw, one PSU at a time, then the
\* power state and the notification.
ProviderRemoved ==
    /\ pc = "ProviderRemoved"
    /\ \/ /\ idx \in Psus
          /\ total' = total + ConnectedProviderMw(psu[idx])
          /\ idx' = idx + 1
          /\ UNCHANGED <<pc, providerState, toldProviders>>
       \/ /\ idx \notin Psus
          /\ providerState' = NewProviderState(total)
          /\ toldProviders' = toldProviders \ {dev}
          /\ pc' = "FindBest" /\ idx' = 1 /\ total' = 0
    /\ UNCHANGED <<psu, queue, charger, current, connected, unconstrained, dev,
                   reason, best, prev, request, held, told, note, history, bounds>>

\* A capability find_best_consumer_default considers at all.
Eligible(c) == c # None /\ MaxPowerMw(c) >= MinConsumerMw

IsCurrent(p) == current # None /\ current.psu = p

\* Mutants of Better: arguments swapped; no preference for the current
\* consumer among equals.
BetterSwapped(c, p, than) == MaxPowerMw(c) < MaxPowerMw(than.cap)
BetterNotSticky(c, p, than) == MaxPowerMw(c) >= MaxPowerMw(than.cap)

\* cmp_consumer_capability_default(..) == Greater: by power, and between
\* equals the current consumer wins.
Better(c, p, than) ==
    \/ MaxPowerMw(c) > MaxPowerMw(than.cap)
    \/ /\ MaxPowerMw(c) = MaxPowerMw(than.cap)
       /\ IsCurrent(p) /\ ~IsCurrent(than.psu)

\* find_best_consumer_default, the iteration for PSU idx.
FindBest ==
    /\ pc = "FindBest"
    /\ \/ /\ idx \in Psus
          /\ LET c == psu[idx].consumer IN
             /\ best' = IF Eligible(c) /\ (best = None \/ Better(c, idx, best))
                        THEN [psu |-> idx, cap |-> c] ELSE best
             /\ seen' = [seen EXCEPT ![idx] = c]
          /\ missed' = [missed EXCEPT ![idx] = FALSE]
          /\ idx' = idx + 1
          /\ UNCHANGED pc
       \/ /\ idx \notin Psus
          /\ pc' = "Select" /\ idx' = 1
          /\ UNCHANGED <<best, seen, missed>>
    /\ UNCHANGED <<psu, queue, charger, service, dev, reason, prev, request, total,
                   held, listeners, lost, settled, orphan, bounds>>

\* update_current_consumer and connect_new_consumer, up to the first lock:
\* keep the consumer, switch, connect the first one, or give up the last one.
Select ==
    /\ pc = "Select"
    /\ \/ /\ best # None /\ best = current
          /\ pc' = "Unconstrained"
          /\ UNCHANGED <<current, prev>>
       \/ /\ best # None /\ best # current /\ current # None
          /\ pc' = "DropCurrent"
          /\ prev' = current
          /\ current' = None
       \/ /\ best # None /\ current = None
          /\ pc' = "ConnectNew"
          /\ UNCHANGED <<current, prev>>
       \/ /\ best = None
          /\ pc' = IF current = None THEN "Unconstrained" ELSE "DetachChargers"
          /\ prev' = current
          /\ UNCHANGED current
    /\ UNCHANGED <<psu, queue, charger, providerState, connected, unconstrained, dev,
                   reason, idx, best, request, total, held, listeners, history, bounds>>

\* connect_new_consumer: lock the current consumer's PSU and disconnect it.
DropCurrent ==
    /\ pc = "DropCurrent"
    /\ LET p == prev.psu IN
       \/ /\ psu[p].state = "ConnectedConsumer"
          /\ psu' = [psu EXCEPT ![p] = Disconnect(@, FALSE)]
          /\ pc' = "DetachChargers" /\ held' = p
          /\ UNCHANGED <<dev, reason, idx, best, prev, request, total, settled,
                         orphan, faults>>
       \/ /\ psu[p].state = "ConnectedConsumer"
          /\ Fault
          /\ Return(FALSE)
          /\ orphan' = orphan \cup {p}
          /\ UNCHANGED psu
       \/ /\ psu[p].state # "ConnectedConsumer"
          /\ pc' = "DetachChargers" /\ held' = p
          /\ UNCHANGED <<psu, dev, reason, idx, best, prev, request, total, settled,
                         orphan, faults>>
    /\ UNCHANGED <<queue, charger, service, listeners, seen, missed, lost, ops>>

\* disconnect_chargers: one charger after the other, unpowered ones skipped.
DetachChargers ==
    /\ pc = "DetachChargers"
    /\ \/ /\ idx \in Chargers
          /\ charger' = IF IsUnpowered(charger[idx]) THEN charger
                        ELSE [charger EXCEPT ![idx] = OnPolicyDetach(@)]
          /\ idx' = idx + 1
          /\ UNCHANGED <<pc, dev, reason, best, prev, request, total, held, settled,
                         faults>>
       \/ /\ idx \in Chargers /\ ~IsUnpowered(charger[idx])
          /\ Fault
          /\ Return(FALSE)
          /\ UNCHANGED charger
       \/ /\ idx \notin Chargers
          /\ pc' = "NotifyDisconnected" /\ idx' = 1
          /\ UNCHANGED <<charger, dev, reason, best, prev, request, total, held,
                         settled, faults>>
    /\ UNCHANGED <<psu, queue, service, listeners, seen, missed, lost, orphan, ops>>

\* The reason given with ConsumerDisconnected.
NotifiedReason ==
    IF best = None THEN reason
    ELSE IF best.psu = prev.psu THEN "AutoRenegotiation"
    ELSE IF reason # None THEN reason
    ELSE "Switching"

\* notify_consumer_disconnected, and what follows it: the PSU's lock is
\* released on a switch; without a successor the policy forgets the consumer,
\* whose PSU it never disconnected.
NotifyDisconnected ==
    /\ pc = "NotifyDisconnected"
    /\ note' = [psu |-> prev.psu, reason |-> NotifiedReason]
    /\ told' = IF told # None /\ told.psu = prev.psu THEN None ELSE told
    /\ held' = None
    /\ \/ /\ best # None
          /\ pc' = "ConnectNew"
          /\ UNCHANGED <<current, orphan>>
       \/ /\ best = None
          /\ pc' = "Unconstrained"
          /\ current' = None
          /\ orphan' = IF psu[prev.psu].state = "ConnectedConsumer"
                       THEN orphan \cup {prev.psu} ELSE orphan
    /\ UNCHANGED <<psu, queue, charger, providerState, connected, unconstrained, dev,
                   reason, idx, best, prev, request, total, toldProviders, seen,
                   missed, lost, settled, bounds>>

\* connect_new_consumer: lock the new PSU and connect it; the lock is held
\* until post_consumer_connected is done.
ConnectNew ==
    /\ pc = "ConnectNew"
    /\ LET p == best.psu IN
       \/ /\ CanConnectConsumer(psu[p])
          /\ psu' = [psu EXCEPT ![p] = ConnectConsumer(@, best.cap)]
          /\ current' = best
          /\ pc' = "AttachChargers" /\ held' = p
          /\ orphan' = orphan \ {p}
          /\ UNCHANGED <<dev, reason, idx, best, prev, request, total, settled, faults>>
       \/ /\ CanConnectConsumer(psu[p])
          /\ Fault
          /\ Return(FALSE)
          /\ UNCHANGED <<psu, current, orphan>>
       \/ /\ ~CanConnectConsumer(psu[p])
          /\ Return(FALSE)
          /\ UNCHANGED <<psu, current, orphan, faults>>
    /\ UNCHANGED <<queue, charger, providerState, connected, unconstrained, listeners,
                   seen, missed, lost, ops>>

\* post_consumer_connected, after its delay: bring up an unpowered charger
\* (is_ready, init_charger), then attach_handler.  Any of the three may fail,
\* leaving the charger where it got to and the remaining ones alone.
AttachChargers ==
    /\ pc = "AttachChargers"
    /\ \/ /\ idx \in Chargers
          /\ \E ps \in ChargerPsuState :
                LET ready == IF IsUnpowered(charger[idx])
                             THEN OnInitialized(OnReadySuccess(charger[idx]), ps)
                             ELSE charger[idx]
                IN  charger' = [charger EXCEPT ![idx] = OnPolicyAttach(ready, best.cap)]
          /\ idx' = idx + 1
          /\ UNCHANGED <<pc, dev, reason, best, prev, request, total, held, settled,
                         faults>>
       \/ /\ idx \in Chargers
          /\ Fault
          /\ Return(FALSE)
          /\ \/ UNCHANGED charger    \* is_ready or attach_handler failed
             \/ /\ IsUnpowered(charger[idx])
                /\ \/ charger' = [charger EXCEPT ![idx] = OnReadySuccess(@)]
                   \/ \E ps \in ChargerPsuState : charger' = [charger EXCEPT
                         ![idx] = OnInitialized(OnReadySuccess(@), ps)]
       \/ /\ idx \notin Chargers
          /\ pc' = "NotifyConnected" /\ idx' = 1
          /\ UNCHANGED <<charger, dev, reason, best, prev, request, total, held,
                         settled, faults>>
    /\ UNCHANGED <<psu, queue, service, listeners, seen, missed, lost, orphan, ops>>

\* Mutant of NotifyConnected: listeners are not told.
NotifyConnectedSilent ==
    /\ pc = "NotifyConnected"
    /\ held' = None
    /\ pc' = "Unconstrained"
    /\ UNCHANGED <<psu, queue, charger, service, dev, reason, idx, best, prev, request,
                   total, listeners, history, bounds>>

\* notify_consumer_connected, then the PSU's lock is released.
NotifyConnected ==
    /\ pc = "NotifyConnected"
    /\ told' = best
    /\ held' = None
    /\ pc' = "Unconstrained"
    /\ UNCHANGED <<psu, queue, charger, service, dev, reason, idx, best, prev, request,
                   total, toldProviders, note, history, bounds>>

UnconstrainedState(n) ==
    [unconstrained |-> current # None /\ current.cap.unconstrained, available |-> n]

\* update_unconstrained_state: count the unconstrained sources, one lock each,
\* then publish the new state.  `total` holds the count.
UpdateUnconstrained ==
    /\ pc = "Unconstrained"
    /\ \/ /\ idx \in Psus
          /\ total' = IF psu[idx].consumer # None /\ psu[idx].consumer.unconstrained
                      THEN total + 1 ELSE total
          /\ idx' = idx + 1
          /\ UNCHANGED <<pc, unconstrained, dev, reason, best, prev, request, held,
                         settled>>
       \/ /\ idx \notin Psus
          /\ unconstrained' = UnconstrainedState(total)
          /\ Return(TRUE)
    /\ UNCHANGED <<psu, queue, charger, current, providerState, connected, listeners,
                   seen, missed, lost, orphan, bounds>>

\* Mutant of ReadRequest: a withdrawn request is waited for.
ReadRequestWaits ==
    /\ pc = "ReadRequest"
    /\ psu[dev].requested # None
    /\ request' = psu[dev].requested
    /\ pc' = "TotalPower"
    /\ UNCHANGED <<psu, queue, charger, service, dev, reason, idx, best, prev, total,
                   held, listeners, history, bounds>>

\* connect_provider: what the requester asks for now, if it still does.
ReadRequest ==
    /\ pc = "ReadRequest"
    /\ \/ /\ psu[dev].requested = None
          /\ Return(settled)
       \/ /\ psu[dev].requested # None
          /\ request' = psu[dev].requested
          /\ pc' = "TotalPower"
          /\ UNCHANGED <<dev, reason, idx, best, prev, total, held, settled>>
    /\ UNCHANGED <<psu, queue, charger, service, listeners, seen, missed, lost, orphan,
                   bounds>>

\* connect_provider: the draw of the others and the requested one.
TotalPower ==
    /\ pc = "TotalPower"
    /\ \/ /\ idx \in Psus
          /\ total' = total + IF idx = dev THEN MaxPowerMw(request)
                              ELSE ConnectedProviderMw(psu[idx])
          /\ idx' = idx + 1
          /\ UNCHANGED <<pc, providerState>>
       \/ /\ idx \notin Psus
          /\ providerState' = NewProviderState(total)
          /\ pc' = "ConnectProvider"
          /\ UNCHANGED <<idx, total>>
    /\ UNCHANGED <<psu, queue, charger, current, connected, unconstrained, dev, reason,
                   best, prev, request, held, listeners, history, bounds>>

\* Mutant of TargetPower: the limited state is ignored.
TargetPowerUnlimited ==
    IF MaxPowerMw(request) < MaxPowerMw(ProviderUnlimited) THEN request
    ELSE ProviderUnlimited

\* The capability granted: never more than asked for while power is unlimited.
TargetPower ==
    IF providerState = "Limited" THEN ProviderLimited
    ELSE IF MaxPowerMw(request) < MaxPowerMw(ProviderUnlimited) THEN request
    ELSE ProviderUnlimited

\* connect_provider's last lock and post_provider_connected: a full set of
\* tracked providers is only logged.
ConnectProviderPsu ==
    /\ pc = "ConnectProvider"
    /\ \/ /\ CanConnectProvider(psu[dev])
          /\ psu' = [psu EXCEPT ![dev] = ConnectProvider(@, TargetPower)]
          /\ connected' = IF Cardinality(connected) < MaxProviders
                          THEN connected \cup {dev} ELSE connected
          /\ toldProviders' = toldProviders \cup {dev}
          /\ UNCHANGED faults
       \/ /\ CanConnectProvider(psu[dev])
          /\ Fault
          /\ UNCHANGED <<psu, connected, toldProviders>>
       \/ /\ ~CanConnectProvider(psu[dev])
          /\ UNCHANGED <<psu, connected, toldProviders, faults>>
    /\ Return(settled)
    /\ UNCHANGED <<queue, charger, current, providerState, unconstrained, told, note,
                   seen, missed, lost, orphan, ops>>

Policy ==
    \/ \E p \in Psus : ProcessPsuEvent(p)
    \/ ProviderRemoved \/ FindBest \/ Select \/ DropCurrent \/ DetachChargers
    \/ NotifyDisconnected \/ ConnectNew \/ AttachChargers \/ NotifyConnected
    \/ UpdateUnconstrained \/ ReadRequest \/ TotalPower \/ ConnectProviderPsu

Next ==
    \/ \E p \in Psus : Driver(p)
    \/ \E c \in Chargers : ChargerDriver(c)
    \/ Policy

Spec == Init /\ [][Next]_vars

\* The executor keeps polling the policy task, and drivers release their locks.
FairSpec == Spec /\ WF_vars(Policy)

-----------------------------------------------------------------------------
(* Properties.                                                              *)

\* Every variable keeps the type its Rust counterpart has.
TypeOK ==
    /\ psu \in [Psus -> State]
    /\ queue \in [Psus -> Seq(EventData)]
    /\ charger \in [Chargers -> ChargerState]
    /\ current \in AvailableConsumer \cup {None}
    /\ providerState \in {"Unlimited", "Limited"}
    /\ connected \subseteq Psus
    /\ unconstrained \in [unconstrained : BOOLEAN, available : Nat]
    /\ pc \in PcLabel
    /\ dev \in Psus \cup {None}
    /\ reason \in DisconnectReason \cup {None}
    /\ idx \in Nat \ {0}
    /\ best \in AvailableConsumer \cup {None}
    /\ prev \in AvailableConsumer \cup {None}
    /\ request \in ProviderCaps \cup {None}
    /\ total \in Nat
    /\ held \in Psus \cup {None}
    /\ told \in AvailableConsumer \cup {None}
    /\ toldProviders \subseteq Psus
    /\ note \in [psu : Psus, reason : DisconnectReason \cup {None}]
                \cup {None}
    /\ seen \in [Psus -> ConsumerCaps \cup {None}]
    /\ missed \in [Psus -> BOOLEAN]
    /\ lost \in [Psus -> BOOLEAN]
    /\ settled \in BOOLEAN
    /\ orphan \subseteq Psus
    /\ ops \in 0..MaxOps /\ faults \in 0..MaxFaults

Consuming(p) == psu[p].state = "ConnectedConsumer"

\* At most one PSU has its sink path enabled, whatever the drivers do and
\* however their reports interleave with a switch.  The only exceptions are
\* PSUs the policy itself left consuming (orphan): one whose disconnect()
\* failed in connect_new_consumer, and one whose capability went away while
\* it was connected, which update_current_consumer forgets without a call to
\* disconnect().
SingleConsumer ==
    \A p, q \in Psus :
        (Consuming(p) /\ Consuming(q) /\ p \notin orphan /\ q \notin orphan) => p = q

\* Between events, listeners of ConsumerConnected and ConsumerDisconnected
\* have been told exactly what current_consumer_state says, as long as no
\* driver call has failed.
ListenersAgree == (pc = "WaitEvent" /\ faults = 0) => told = current

\* No event that makes the policy select again is queued for p.
NothingQueued(p) == \A i \in 1..Len(queue[p]) : ~Selecting(queue[p][i])

\* The capabilities a selection acted on: the current consumer offers the
\* most power of all that reach the minimum, and is absent only when none does.
BestOf(offer, cur) ==
    IF cur = None THEN \A p \in Psus : ~Eligible(offer[p])
    ELSE /\ offer[cur.psu] = cur.cap
         /\ Eligible(cur.cap)
         /\ \A p \in Psus : Eligible(offer[p]) => MaxPowerMw(offer[p]) <= MaxPowerMw(cur.cap)

\* Once the policy has drained the channels, current_consumer_state is the
\* best consumer of what the PSUs offer now, and the published unconstrained
\* state is that of the PSUs and of the current consumer, although a selection
\* reads the PSUs one lock at a time while their drivers keep changing them.  A
\* loss is forgiven by the next selection that reads the PSU; an error (settled)
\* is forgiven by the next selection that succeeds.
SelectionConverged ==
    (/\ pc = "WaitEvent" /\ settled
     /\ \A p \in Psus : NothingQueued(p) /\ ~missed[p])
    => /\ BestOf([p \in Psus |-> psu[p].consumer], current)
       /\ unconstrained =
             [unconstrained |-> current # None /\ current.cap.unconstrained,
              available |-> Cardinality({p \in Psus :
                  psu[p].consumer # None /\ psu[p].consumer.unconstrained})]

\* Between events and without a failed call, a powered charger is programmed
\* for the current consumer or not at all: never for one that is gone, even
\* when it loses power or comes back by itself in the middle of a switch.
ChargersFollow ==
    (pc = "WaitEvent" /\ faults = 0) =>
        \A c \in Chargers :
            \/ IsUnpowered(charger[c])
            \/ charger[c].cap = None
            \/ current # None /\ charger[c].cap = current.cap

Providing == {p \in Psus : psu[p].state = "ConnectedProvider"}

\* With the channels drained and nothing lost, connected_providers names only
\* PSUs that are providing: a PSU torn down or unplugged during its own
\* connection, or asking again before the teardown is handled, is not left in
\* the set.
TrackedProvide ==
    (pc = "WaitEvent" /\ \A p \in Psus : queue[p] = << >> /\ ~lost[p])
    => connected \subseteq Providing

\* What the first n PSUs draw together, for every n.
RunningSum(draw) ==
    LET sum[n \in 0..NumPsus] == IF n = 0 THEN 0 ELSE sum[n - 1] + draw[n]
    IN  sum
Draw == [p \in Psus |-> ConnectedProviderMw(psu[p])]
TotalProvidedMw == RunningSum(Draw)[NumPsus]

\* The system never provides more than the threshold plus one limited contract
\* for every provider but one, although a request is granted from a total that
\* was added up one lock at a time.
ProviderPowerBounded ==
    LET limited == MaxPowerMw(ProviderLimited) IN
    TotalProvidedMw <= (IF LimitedMw > limited THEN LimitedMw ELSE limited)
                       + (NumPsus - 1) * limited

\* Until a driver call fails, the service implements ConsumerSelection:
\* listeners see one consumer at a time, each announced while it was the best
\* offer known and withdrawn only once it no longer was.
Selection == INSTANCE ConsumerSelection WITH
    Sources <- Psus, MinMw <- MinConsumerMw, active <- told, offer <- seen
SelectionSpec == Selection!Init /\ [][faults' = 0 => Selection!Next]_<<told, seen>>

(* What a comment says of the service, and the code does not do. *)

\* consumer.rs on keeping a consumer: "the same device, capability, and is
\* still available, we don't need to do anything".  Nothing failed, nothing
\* was lost and nothing is pending: the kept consumer must be consuming.
KeptConsumerConsumes ==
    (/\ pc = "WaitEvent" /\ settled /\ faults = 0 /\ current # None
     /\ \A p \in Psus : queue[p] = << >> /\ ~lost[p])
    => Consuming(current.psu)

\* Every reported change is eventually taken into account: once the drivers
\* stop, the channels drain, and the handler of the last event returns.  No step
\* of a handler can be blocked for good by a driver or by a charger.
EventsDrain == <>[](pc = "WaitEvent" /\ \A p \in Psus : queue[p] = << >>)
=============================================================================
