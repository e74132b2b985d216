--------------------------- MODULE TypeCPortProofs ---------------------------
(***************************************************************************)
(* Proofs about a Type-C port, for all capabilities, every configuration   *)
(* of the unconstrained sink and every capacity of the channels            *)
(* (TypeCPort), and about the flags that tell the ports whether they may   *)
(* call the system unconstrained, for any number of them (Unconstrained).  *)
(***************************************************************************)
EXTENDS MCTypeCPort, FiniteSetTheorems, TLAPS

-----------------------------------------------------------------------------
(* Channels.                                                                *)

LEMMA AppendFacts ==
    ASSUME NEW S, NEW s \in Seq(S), NEW e \in S
    PROVE  /\ Append(s, e) \in Seq(S)
           /\ Len(s) \in Nat /\ DOMAIN s = 1 .. Len(s) /\ DOMAIN Append(s, e) = 1 .. Len(s) + 1
           /\ \A i \in 1 .. Len(s) : Append(s, e)[i] = s[i]
           /\ Append(s, e)[Len(s) + 1] = e
OBVIOUS

LEMMA TailFacts ==
    ASSUME NEW S, NEW s \in Seq(S), s # << >>
    PROVE  /\ Tail(s) \in Seq(S) /\ Head(s) \in S /\ Head(s) = s[1]
           /\ Len(s) \in Nat \ {0} /\ DOMAIN s = 1 .. Len(s) /\ DOMAIN Tail(s) = 1 .. Len(s) - 1
           /\ \A i \in 1 .. Len(s) - 1 : Tail(s)[i] = s[i + 1]
OBVIOUS

-----------------------------------------------------------------------------
(* Types.                                                                   *)

LEMMA PsuTypes ==
    ASSUME NEW s \in State
    PROVE  /\ Attach(s) \in State /\ Detach(s) \in State /\ DefaultState \in State
           /\ \A clear \in BOOLEAN : Disconnect(s, clear) \in State
           /\ \A c \in ConsumerCaps \cup {None} : UpdateConsumer(s, c) \in State
           /\ \A c \in ProviderCaps \cup {None} : UpdateRequested(s, c) \in State
           /\ \A c \in ConsumerCaps : ConnectConsumer(s, c) \in State
           /\ \A c \in ProviderCaps : ConnectProvider(s, c) \in State
BY DEF State, StateKind, DefaultState, Attach, Detach, Disconnect, UpdateConsumer,
       UpdateRequested, ConnectConsumer, ConnectProvider

LEMMA CapabilityType ==
    ASSUME NEW c \in ConsumerCaps \cup {None}
    PROVE  ConsumerCapability(c) \in ConsumerCaps \cup {None}
BY TypeCPortAssumption DEF ConsumerCapability

LEMMA NoStatusType == NoStatus \in PortStatus
BY DEF NoStatus, PortStatus

\* What a handler works on.
Work == [psu : State, status : PortStatus, deadline : BOOLEAN, ok : BOOLEAN]

LEMMA PlugEventType ==
    ASSUME NEW p \in Work, NEW new \in PortStatus
    PROVE  PlugEvent(p, new) \in Work
<1>1. p.psu \in State
    BY DEF Work
<1>2. Detach(p.psu) \in State /\ Attach(p.psu) \in State /\ Attach(Detach(p.psu)) \in State
    BY <1>1, PsuTypes
<1> QED BY <1>2 DEF PlugEvent, Work

LEMMA HardResetType ==
    ASSUME NEW p \in Work
    PROVE  HardReset(p) \in Work
<1>1. p.psu \in State /\ p.status \in PortStatus
    BY DEF Work
<1>2. Disconnect(p.psu, TRUE) \in State
    BY <1>1, PsuTypes
<1>3. [p.status EXCEPT !.sink = None, !.source = None] \in PortStatus
    BY <1>1 DEF PortStatus
<1>4. HardReset(p) = [p EXCEPT !.deadline = FALSE,
                               !.status = [p.status EXCEPT !.sink = None, !.source = None],
                               !.psu = IF InPowerRole(p.psu) THEN Disconnect(p.psu, TRUE) ELSE p.psu]
    BY <1>1 DEF HardReset, Work, PortStatus
<1> QED BY <1>1, <1>2, <1>3, <1>4 DEF Work

LEMMA PowerRoleSwapType ==
    ASSUME NEW p \in Work, NEW new \in PortStatus, NEW fail \in BOOLEAN
    PROVE  PowerRoleSwap(p, new, fail) \in Work
<1>1. p.psu \in State /\ Disconnect(p.psu, TRUE) \in State
    BY PsuTypes DEF Work
<1> QED BY <1>1 DEF PowerRoleSwap, Work

LEMMA ContractTypes ==
    ASSUME NEW p \in Work, NEW new \in PortStatus
    PROVE  NewConsumer(p, new) \in Work /\ NewProvider(p, new) \in Work
<1>1. p.psu \in State /\ new.sink \in ConsumerCaps \cup {None} /\ new.source \in ProviderCaps \cup {None}
    BY DEF Work, PortStatus
<1>2. ConsumerCapability(new.sink) \in ConsumerCaps \cup {None}
    BY <1>1, CapabilityType
<1>3. /\ UpdateConsumer(p.psu, ConsumerCapability(new.sink)) \in State
      /\ UpdateRequested(p.psu, new.source) \in State
    BY <1>1, <1>2, PsuTypes
<1>4. UpdateConsumerOk(p.psu) \in BOOLEAN /\ UpdateRequestedOk(p.psu, new.source) \in BOOLEAN
    BY DEF UpdateConsumerOk, UpdateRequestedOk
<1> QED BY <1>3, <1>4 DEF NewConsumer, NewProvider, Work

LEMMA TimeoutType ==
    ASSUME NEW p \in Work, NEW new \in PortStatus, NEW bits
    PROVE  CheckSinkReadyTimeout(p, new, bits) \in Work
<1>1. p.deadline \in BOOLEAN /\ new.connected \in BOOLEAN
    BY DEF Work, PortStatus
<1> QED BY <1>1 DEF CheckSinkReadyTimeout, Work

-----------------------------------------------------------------------------
(* process_port_status_changed.                                             *)

\* A plug, a hard reset or a swap ends the contracts; the controller never
\* signals it together with sink_ready.
Disturbs(bits) == bits \cap {"plug", "hard_reset", "power_swap"} # {}
Proper(bits) == Disturbs(bits) => "sink_ready" \notin bits

LEMMA ChainTypes ==
    ASSUME NEW p \in Work, NEW new \in PortStatus, NEW bits \in SUBSET StatusBits,
           NEW fail \in BOOLEAN
    PROVE  AfterStatusChange(p, new, bits, fail) \in Work
<1> DEFINE plug     == Then(p, "plug" \in bits, PlugEvent(p, new))
           reset    == Then(plug, "hard_reset" \in bits, HardReset(plug))
           swap     == Then(reset, "power_swap" \in bits, PowerRoleSwap(reset, new, fail))
           consumer == Then(swap, "sink_ready" \in bits, NewConsumer(swap, new))
           provider == Then(consumer,
                            new.connected /\ new.source # consumer.status.source,
                            NewProvider(consumer, new))
<1>1. plug \in Work
    BY PlugEventType DEF Then
<1> HIDE DEF plug
<1>2. reset \in Work
    BY <1>1, HardResetType DEF Then
<1> HIDE DEF reset
<1>3. swap \in Work
    BY <1>2, PowerRoleSwapType DEF Then
<1> HIDE DEF swap
<1>4. consumer \in Work
    BY <1>3, ContractTypes DEF Then
<1> HIDE DEF consumer
<1>5. provider \in Work
    BY <1>4, ContractTypes DEF Then
<1> HIDE DEF provider
<1>6. AfterStatusChange(p, new, bits, fail)
          = Then(provider, TRUE, CheckSinkReadyTimeout(provider, new, bits))
    BY DEF AfterStatusChange, plug, reset, swap, consumer, provider
<1> QED BY <1>5, <1>6, TimeoutType DEF Then

Detached(p) == p.psu.state = "Detached"

\* When no call to the controller fails, the handler fails only for a PSU that
\* is detached without a plug event; an undisturbed sink_ready offers the
\* contract, and anything else undisturbed keeps the offer and the deadline.
LEMMA ChainFacts ==
    ASSUME NEW p \in Work, p.ok, NEW new \in PortStatus, NEW bits \in SUBSET StatusBits,
           Proper(bits)
    PROVE  LET q == AfterStatusChange(p, new, bits, FALSE) IN
           /\ Detached(q) <=> (IF "plug" \in bits THEN ~new.connected ELSE Detached(p))
           /\ ~q.ok => "plug" \notin bits /\ Detached(p)
           /\ q.status \in {p.status, [p.status EXCEPT !.sink = None, !.source = None]}
           /\ ~Disturbs(bits) /\ "sink_ready" \in bits /\ ~Detached(p)
                => q.psu.consumer = ConsumerCapability(new.sink)
           /\ ~Disturbs(bits) /\ "sink_ready" \notin bits
                => /\ q.psu.consumer = p.psu.consumer
                   /\ p.deadline /\ new.connected /\ new.sink # None => q.deadline
<1> DEFINE plug     == Then(p, "plug" \in bits, PlugEvent(p, new))
           reset    == Then(plug, "hard_reset" \in bits, HardReset(plug))
           swap     == Then(reset, "power_swap" \in bits, PowerRoleSwap(reset, new, FALSE))
           consumer == Then(swap, "sink_ready" \in bits, NewConsumer(swap, new))
           provider == Then(consumer,
                            new.connected /\ new.source # consumer.status.source,
                            NewProvider(consumer, new))
           q == AfterStatusChange(p, new, bits, FALSE)
<1>1. /\ plug \in Work /\ plug.ok /\ plug.status = p.status /\ plug.deadline = p.deadline
      /\ Detached(plug) <=> (IF "plug" \in bits THEN ~new.connected ELSE Detached(p))
      /\ "plug" \notin bits => plug = p
  <2>1. plug \in Work
    BY PlugEventType DEF Then
  <2>2. CASE "plug" \notin bits
    BY <2>1, <2>2 DEF Then
  <2>3. CASE "plug" \in bits /\ new.connected
    <3>1. plug = [p EXCEPT !.psu = Attach(IF AttachOk(p.psu) THEN p.psu ELSE Detach(p.psu))]
      BY <2>3 DEF Then, PlugEvent
    <3> QED BY <2>1, <2>3, <3>1 DEF Attach, Detached, Work
  <2>4. CASE "plug" \in bits /\ ~new.connected
    <3>1. plug = [p EXCEPT !.psu = DefaultState]
      BY <2>4 DEF Then, PlugEvent, Detach
    <3> QED BY <2>1, <2>4, <3>1 DEF DefaultState, Detached, Work
  <2> QED BY <2>2, <2>3, <2>4
<1> HIDE DEF plug
<1>2. /\ reset \in Work /\ reset.ok /\ (Detached(reset) <=> Detached(plug))
      /\ reset.status \in {p.status, [p.status EXCEPT !.sink = None, !.source = None]}
      /\ "hard_reset" \notin bits => reset = plug
  <2>1. reset \in Work
    BY <1>1, HardResetType DEF Then
  <2>2. CASE "hard_reset" \notin bits
    BY <1>1, <2>1, <2>2 DEF Then
  <2>3. CASE "hard_reset" \in bits
    <3>1. reset = [plug EXCEPT !.deadline = FALSE,
                     !.status = [plug.status EXCEPT !.sink = None, !.source = None],
                     !.psu = IF InPowerRole(plug.psu) THEN Disconnect(plug.psu, TRUE) ELSE plug.psu]
      BY <1>1, <2>3 DEF Then, HardReset, Work, PortStatus
    <3>2. /\ reset.ok = plug.ok
          /\ reset.status = [plug.status EXCEPT !.sink = None, !.source = None]
          /\ reset.psu = IF InPowerRole(plug.psu) THEN Disconnect(plug.psu, TRUE) ELSE plug.psu
      BY <1>1, <3>1 DEF Work
    <3>3. Detached(reset) <=> Detached(plug)
      BY <3>2 DEF Detached, InPowerRole, Disconnect
    <3> QED BY <1>1, <2>1, <2>3, <3>2, <3>3
  <2> QED BY <2>2, <2>3
<1> HIDE DEF reset
<1>3. /\ swap \in Work /\ swap.ok /\ (Detached(swap) <=> Detached(reset))
      /\ swap.status = reset.status
      /\ "power_swap" \notin bits => swap = reset
  <2>1. swap \in Work
    BY <1>2, PowerRoleSwapType DEF Then
  <2>2. CASE swap = reset
    BY <1>2, <2>2
  <2>3. CASE swap # reset
    <3>1. swap = [reset EXCEPT !.psu = Disconnect(reset.psu, TRUE)] /\ InPowerRole(reset.psu)
          /\ "power_swap" \in bits
      BY <2>3 DEF Then, PowerRoleSwap
    <3>2. swap.ok = reset.ok /\ swap.status = reset.status /\ swap.psu = Disconnect(reset.psu, TRUE)
      BY <1>2, <3>1 DEF Work
    <3> HIDE DEF swap
    <3>3. ~Detached(swap) /\ ~Detached(reset)
      BY <3>1, <3>2 DEF Detached, InPowerRole, Disconnect
    <3> QED BY <1>2, <2>1, <3>1, <3>2, <3>3
  <2> QED BY <2>2, <2>3
<1> HIDE DEF swap
<1>4. /\ consumer \in Work /\ (Detached(consumer) <=> Detached(swap))
      /\ consumer.ok <=> "sink_ready" \notin bits \/ ~Detached(swap)
      /\ consumer.status = swap.status /\ consumer.deadline = swap.deadline
      /\ consumer.psu.consumer = IF "sink_ready" \in bits THEN ConsumerCapability(new.sink)
                                 ELSE swap.psu.consumer
  <2>1. consumer \in Work
    BY <1>3, ContractTypes DEF Then
  <2>2. CASE "sink_ready" \notin bits
    BY <1>3, <2>1, <2>2 DEF Then
  <2>3. CASE "sink_ready" \in bits
    <3>1. consumer = [swap EXCEPT !.psu = UpdateConsumer(swap.psu, ConsumerCapability(new.sink)),
                                  !.ok = UpdateConsumerOk(swap.psu)]
      BY <1>3, <2>3 DEF Then, NewConsumer
    <3>2. /\ consumer.ok = UpdateConsumerOk(swap.psu) /\ consumer.status = swap.status
          /\ consumer.deadline = swap.deadline
          /\ consumer.psu = [swap.psu EXCEPT !.consumer = ConsumerCapability(new.sink)]
      BY <1>3, <3>1 DEF Work, UpdateConsumer
    <3>3. /\ consumer.psu.state = swap.psu.state
          /\ consumer.psu.consumer = ConsumerCapability(new.sink)
      BY <1>3, <3>2 DEF Work, State
    <3> QED BY <2>1, <2>3, <3>2, <3>3 DEF Detached, UpdateConsumerOk
  <2> QED BY <2>2, <2>3
<1> HIDE DEF consumer
<1>5. /\ provider \in Work /\ (Detached(provider) <=> Detached(consumer))
      /\ ~provider.ok => ~consumer.ok \/ (new.connected /\ Detached(consumer))
      /\ provider.status = consumer.status /\ provider.deadline = consumer.deadline
      /\ provider.psu.consumer = consumer.psu.consumer
  <2>1. provider \in Work
    BY <1>4, ContractTypes DEF Then
  <2>2. CASE provider = consumer
    BY <1>4, <2>2
  <2>3. CASE provider # consumer
    <3>1. /\ provider = [consumer EXCEPT !.psu = UpdateRequested(consumer.psu, new.source),
                                         !.ok = UpdateRequestedOk(consumer.psu, new.source)]
          /\ new.connected
      BY <2>3 DEF Then, NewProvider
    <3>2. /\ provider.ok = UpdateRequestedOk(consumer.psu, new.source)
          /\ provider.status = consumer.status /\ provider.deadline = consumer.deadline
          /\ provider.psu = [consumer.psu EXCEPT !.requested = new.source]
      BY <1>4, <3>1 DEF Work, UpdateRequested
    <3>3. /\ provider.psu.state = consumer.psu.state
          /\ provider.psu.consumer = consumer.psu.consumer
      BY <1>4, <3>2 DEF Work, State
    <3> QED BY <2>1, <3>1, <3>2, <3>3 DEF Detached, UpdateRequestedOk
  <2> QED BY <2>2, <2>3
<1> HIDE DEF provider
<1>6. q = Then(provider, TRUE, CheckSinkReadyTimeout(provider, new, bits))
    BY DEF AfterStatusChange, plug, reset, swap, consumer, provider
<1>7. /\ q.psu = provider.psu /\ q.status = provider.status /\ q.ok = provider.ok
      /\ provider.deadline /\ new.connected /\ new.sink # None /\ "sink_ready" \notin bits => q.deadline
    BY <1>5, <1>6 DEF Then, CheckSinkReadyTimeout, Work
<1>8. Detached(q) <=> (IF "plug" \in bits THEN ~new.connected ELSE Detached(p))
    BY <1>1, <1>2, <1>3, <1>4, <1>5, <1>7 DEF Detached
<1>9. ~q.ok => "plug" \notin bits /\ Detached(p)
  <2>1. "plug" \in bits => "sink_ready" \notin bits
    BY DEF Proper, Disturbs
  <2> QED BY <1>1, <1>2, <1>3, <1>4, <1>5, <1>7, <2>1
<1>10. q.status \in {p.status, [p.status EXCEPT !.sink = None, !.source = None]}
    BY <1>2, <1>3, <1>4, <1>5, <1>7
<1>11. ~Disturbs(bits) => swap = p
    BY <1>1, <1>2, <1>3 DEF Disturbs
<1> QED BY <1>4, <1>5, <1>7, <1>8, <1>9, <1>10, <1>11

-----------------------------------------------------------------------------
(* The inductive invariant.                                                 *)

\* Nothing was dropped and no call to the controller failed.
Clean == ~lost /\ faults = 0

EventBits == IF event = None THEN {} ELSE event.bits
StreamBits == IF stream = None THEN {} ELSE stream.status

\* A plug, or any change of the status, is still to be processed.
PlugPending ==
    \/ "plug" \in EventBits \/ "plug" \in StreamBits
    \/ \E i \in DOMAIN irq : "plug" \in irq[i].status
    \/ \E i \in DOMAIN loopback : "plug" \in loopback[i].status
StatusPending ==
    \/ event # None /\ event.kind = "status"
    \/ StreamBits # {}
    \/ \E i \in DOMAIN irq : irq[i].status # {}
    \/ \E i \in DOMAIN loopback : loopback[i].status # {}

\* The cached status and the one the Type-C service was sent are s.
Current(s) == status = s /\ (svcLost \/ told = s)

\* The receiver's place fits what it holds, and the interrupts are proper.
ShapeInv ==
    /\ ~hw.connected => hw = NoStatus
    /\ event # None <=> rx = "Deliver"
    /\ rx = "Select" => stream = None
    /\ event # None /\ event.kind # "status" => event.bits = {}
    /\ Proper(EventBits) /\ Proper(StreamBits)
    /\ \A i \in DOMAIN irq : Proper(irq[i].status)
    /\ \A i \in DOMAIN loopback : Proper(loopback[i].status)
    /\ ~synced => \A i \in DOMAIN loopback : loopback[i] = Invalidated

\* A detached PSU is up to date, or a plug is on its way: the handlers that
\* fail because the PSU is detached lose nothing.
DetachedInv ==
    Clean /\ psu.state = "Detached" /\ ~PlugPending => hw = NoStatus /\ Current(hw)

ConvergedInv == Clean => Current(hw) \/ StatusPending

\* A sink_ready waits behind the i-th interrupt.
ReadyBehind(i) == \E j \in DOMAIN irq : j > i /\ "sink_ready" \in irq[j].status

Owing == Clean /\ signals /\ ~owed /\ ~synced /\ hw.sink # None

\* Whatever ends a contract and is still to be processed has the sink_ready of
\* the current contract behind it.  Without such an event the contract is
\* offered, or a deadline or a sink_ready will see to it.
ReadyInv ==
    Owing =>
        /\ \A i \in DOMAIN irq : Disturbs(irq[i].status) => ReadyBehind(i)
        /\ Disturbs(StreamBits) => ReadyBehind(0)
        /\ Disturbs(EventBits) => "sink_ready" \in StreamBits \/ ReadyBehind(0)
        /\ \/ psu.consumer = ConsumerCapability(hw.sink) \/ deadline
           \/ "sink_ready" \in EventBits \/ "sink_ready" \in StreamBits \/ ReadyBehind(0)

PortInv == TypeOK /\ ShapeInv /\ DetachedInv /\ ConvergedInv /\ ReadyInv

LEMMA PortInvImplies == PortInv => StatusConverged /\ ContractOffered
<1> SUFFICES ASSUME PortInv PROVE StatusConverged /\ ContractOffered
    OBVIOUS
<1>1. Quiescent => event = None /\ StreamBits = {} /\ Clean
    BY DEF Quiescent, PortInv, ShapeInv, StreamBits, Clean
<1>2. Quiescent => DOMAIN irq = {} /\ DOMAIN loopback = {}
    BY DEF Quiescent
<1>3. StatusConverged
    BY <1>1, <1>2 DEF StatusConverged, PortInv, ConvergedInv, StatusPending, Current
<1>4. ContractOffered
    BY <1>1, <1>2 DEF ContractOffered, Quiescent, PortInv, ReadyInv, Owing, EventBits, ReadyBehind
<1> QED BY <1>3, <1>4

LEMMA PortInit == Init => PortInv
<1> SUFFICES ASSUME Init PROVE PortInv
    OBVIOUS
<1>1. << >> \in Seq(PortEventBitfield) /\ DOMAIN << >> = {}
    OBVIOUS
<1>2. 0 \in 0 .. ServiceSize /\ 0 \in 0 .. MaxOps /\ 0 \in 0 .. MaxFaults
    BY TypeCPortAssumption
<1>3. DefaultState \in State
    BY DEF DefaultState, State, StateKind
<1>4. TypeOK
    BY <1>1, <1>2, <1>3, NoStatusType DEF Init, TypeOK
<1>5. EventBits = {} /\ StreamBits = {} /\ hw.sink = None /\ hw = NoStatus
    BY DEF Init, EventBits, StreamBits, NoStatus
<1>6. ShapeInv
  <2>1. DOMAIN irq = {} /\ DOMAIN loopback = {} /\ event = None /\ rx = "Top"
    BY <1>1 DEF Init
  <2> QED BY <1>5, <2>1 DEF ShapeInv, Proper, Disturbs
<1>7. DetachedInv /\ ConvergedInv
    BY <1>5 DEF Init, DetachedInv, ConvergedInv, Current
<1>8. ReadyInv
    BY <1>5 DEF ReadyInv, Owing
<1> QED BY <1>4, <1>6, <1>7, <1>8 DEF PortInv

-----------------------------------------------------------------------------
(* The PD controller.                                                       *)

LEMMA InterruptFacts ==
    ASSUME TypeOK, NEW bits \in PortEventBitfield, Interrupt(bits)
    PROVE  /\ irq' \in Seq(PortEventBitfield) /\ lost' \in BOOLEAN /\ (lost => lost')
           /\ DOMAIN irq = 1 .. Len(irq) /\ Len(irq) \in Nat
           /\ \A i \in DOMAIN irq : i \in DOMAIN irq' /\ irq'[i] = irq[i]
           /\ \A i \in DOMAIN irq' : i \in DOMAIN irq \/ (i = Len(irq) + 1 /\ irq'[i] = bits)
           /\ ~lost' => Len(irq) + 1 \in DOMAIN irq' /\ irq'[Len(irq) + 1] = bits
<1>1. irq \in Seq(PortEventBitfield) /\ lost \in BOOLEAN /\ IrqSize \in Nat
    BY TypeCPortAssumption DEF TypeOK
<1>2. CASE Len(irq) < IrqSize
  <2>1. irq' = Append(irq, bits) /\ (lost' <=> lost)
    BY <1>1, <1>2 DEF Interrupt
  <2> QED BY <1>1, <2>1, AppendFacts DEF Interrupt
<1>3. CASE ~(Len(irq) < IrqSize)
  <2>1. irq' = irq /\ lost' = (lost \/ Len(irq) >= IrqSize)
    BY <1>3 DEF Interrupt
  <2>2. Len(irq) >= IrqSize
    BY <1>1, <1>3
  <2>3. lost' = TRUE
    BY <2>1, <2>2, Zenon
  <2> QED BY <1>1, <2>1, <2>3
<1> QED BY <1>2, <1>3

\* Whatever changes in the controller is announced, a connection with a plug,
\* and a sink contract with sink_ready or a promise of it.
LEMMA HardwareKeeps ==
    ASSUME PortInv, NEW kind, NEW new \in PortStatus, NEW owes \in BOOLEAN,
           NEW bits \in PortEventBitfield, Hardware(kind, new, owes, bits),
           ~new.connected => new = NoStatus,
           Proper(bits.status), new # hw => bits.status # {},
           new.connected /\ ~hw.connected => "plug" \in bits.status,
           new.sink # None /\ ~owes /\ signals
               => \/ "sink_ready" \in bits.status
                  \/ new = hw /\ owes = owed /\ ~Disturbs(bits.status)
    PROVE  PortInv'
<1>1. /\ hw' = new /\ owed' = owes /\ ops \in Nat /\ ops < MaxOps /\ ops' = ops + 1
      /\ Interrupt(bits)
      /\ UNCHANGED <<signals, loopback, rx, armed, stream, event, psu, status, deadline, svc,
                     told, svcLost, synced, faults>>
    BY DEF Hardware, receiver, port, outputs, PortInv, TypeOK
<1>2. /\ irq' \in Seq(PortEventBitfield) /\ lost' \in BOOLEAN /\ (lost => lost')
      /\ DOMAIN irq = 1 .. Len(irq) /\ Len(irq) \in Nat
      /\ \A i \in DOMAIN irq : i \in DOMAIN irq' /\ irq'[i] = irq[i]
      /\ \A i \in DOMAIN irq' : i \in DOMAIN irq \/ (i = Len(irq) + 1 /\ irq'[i] = bits)
      /\ ~lost' => Len(irq) + 1 \in DOMAIN irq' /\ irq'[Len(irq) + 1] = bits
    BY <1>1, InterruptFacts DEF PortInv
<1>3. TypeOK'
  <2>1. ops' \in 0 .. MaxOps
    BY <1>1, TypeCPortAssumption
  <2> QED BY <1>1, <1>2, <2>1 DEF PortInv, TypeOK
<1>4. EventBits' = EventBits /\ StreamBits' = StreamBits /\ (Clean' => Clean)
    BY <1>1, <1>2 DEF EventBits, StreamBits, Clean
<1>5. ShapeInv'
  <2>1. \A i \in DOMAIN irq' : Proper(irq'[i].status)
    BY <1>2 DEF PortInv, ShapeInv
  <2> QED BY <1>1, <1>4, <2>1 DEF PortInv, ShapeInv
<1>6. DetachedInv'
  <2> SUFFICES ASSUME Clean', psu'.state = "Detached", ~PlugPending'
               PROVE  hw' = NoStatus /\ Current(hw)'
    BY DEF DetachedInv
  <2>1. ~PlugPending
    BY <1>1, <1>2, <1>4 DEF PlugPending
  <2>2. hw = NoStatus /\ Current(hw)
    BY <1>1, <1>4, <2>1 DEF PortInv, DetachedInv
  <2>3. "plug" \notin bits.status
    BY <1>2 DEF PlugPending, Clean
  <2>4. ~hw.connected
    BY <2>2 DEF NoStatus
  <2>5. new = NoStatus
    BY <2>3, <2>4
  <2> QED BY <1>1, <2>2, <2>5 DEF Current
<1>7. ConvergedInv'
  <2> SUFFICES ASSUME Clean' PROVE Current(hw)' \/ StatusPending'
    BY DEF ConvergedInv
  <2>1. CASE bits.status # {}
    BY <1>2, <2>1 DEF StatusPending, Clean
  <2>2. CASE bits.status = {}
    <3>1. hw' = hw
      BY <1>1, <2>2
    <3>2. Current(hw) \/ StatusPending
      BY <1>4 DEF PortInv, ConvergedInv
    <3>3. StatusPending => StatusPending'
      BY <1>1, <1>2, <1>4 DEF StatusPending
    <3> QED BY <1>1, <3>1, <3>2, <3>3 DEF Current
  <2> QED BY <2>1, <2>2
<1>8. ReadyInv'
  <2> SUFFICES ASSUME Owing'
               PROVE  /\ \A i \in DOMAIN irq' : Disturbs(irq'[i].status) => ReadyBehind(i)'
                      /\ Disturbs(StreamBits') => ReadyBehind(0)'
                      /\ Disturbs(EventBits') => "sink_ready" \in StreamBits' \/ ReadyBehind(0)'
                      /\ \/ psu'.consumer = ConsumerCapability(hw'.sink) \/ deadline'
                         \/ "sink_ready" \in EventBits' \/ "sink_ready" \in StreamBits'
                         \/ ReadyBehind(0)'
    BY DEF ReadyInv
  <2>1. ~lost' /\ new.sink # None /\ ~owes /\ signals
    BY <1>1 DEF Owing, Clean
  <2>2. CASE "sink_ready" \in bits.status
    <3>1. ~Disturbs(bits.status)
      BY <2>2 DEF Proper
    <3>2. ReadyBehind(0)' /\ \A i \in DOMAIN irq : ReadyBehind(i)'
      BY <1>2, <2>1, <2>2 DEF ReadyBehind
    <3> QED BY <1>2, <3>1, <3>2
  <2>3. CASE new = hw /\ owes = owed /\ ~Disturbs(bits.status)
    <3>1. Owing
      BY <1>1, <1>4, <2>3 DEF Owing
    <3>2. \A i : ReadyBehind(i) => ReadyBehind(i)'
      BY <1>2 DEF ReadyBehind
    <3>3. \A i \in DOMAIN irq' : Disturbs(irq'[i].status) => i \in DOMAIN irq /\ Disturbs(irq[i].status)
      BY <1>2, <2>3
    <3> QED BY <1>1, <1>4, <2>3, <3>1, <3>2, <3>3 DEF PortInv, ReadyInv
  <2> QED BY <2>1, <2>2, <2>3
<1> QED BY <1>3, <1>5, <1>6, <1>7, <1>8 DEF PortInv

LEMMA BitsType ==
    /\ \A s \in SUBSET StatusBits, n \in SUBSET NoteBits :
          Bits(s, n) \in PortEventBitfield /\ Bits(s, n).status = s
    /\ Invalidated \in PortEventBitfield /\ Invalidated.status = {}
BY DEF Bits, PortEventBitfield, Invalidated

LEMMA ControllerKeeps ==
    ASSUME PortInv, ControllerStep
    PROVE  PortInv'
<1>1. hw \in PortStatus /\ (~hw.connected => hw = NoStatus) /\ owed \in BOOLEAN
    BY DEF PortInv, TypeOK, ShapeInv
<1>2. /\ "plug" \in StatusBits /\ "hard_reset" \in StatusBits /\ "power_swap" \in StatusBits
      /\ "sink_ready" \in StatusBits /\ "new_consumer" \in StatusBits
      /\ "new_provider" \in StatusBits
    BY DEF StatusBits
<1>3. CASE HwPlug
  <2> DEFINE new == [NoStatus EXCEPT !.connected = ~hw.connected]
  <2>1. Bits({"plug"}, {}) \in PortEventBitfield /\ Bits({"plug"}, {}).status = {"plug"}
    BY <1>2, BitsType
  <2>2. new \in PortStatus /\ new.connected = ~hw.connected /\ new.sink = None
    BY <1>1 DEF NoStatus, PortStatus
  <2>3. ~new.connected => new = NoStatus
    <3>1. [NoStatus EXCEPT !.connected = FALSE] = NoStatus
      <4> DEFINE r == [NoStatus EXCEPT !.connected = FALSE]
      <4>1. r \in PortStatus /\ r.connected = FALSE /\ r.sink = None /\ r.source = None
        BY DEF NoStatus, PortStatus
      <4> HIDE DEF r
      <4>2. r = [connected |-> r.connected, sink |-> r.sink, source |-> r.source]
        BY <4>1 DEF PortStatus
      <4> QED BY <4>1, <4>2 DEF NoStatus, r
    <3>2. hw.connected = TRUE \/ hw.connected = FALSE
      BY <1>1 DEF PortStatus
    <3>3. ~new.connected => hw.connected = TRUE
      BY <2>2, <3>2
    <3>4. hw.connected = TRUE => new = [NoStatus EXCEPT !.connected = FALSE]
      OBVIOUS
    <3> QED BY <3>1, <3>3, <3>4
  <2>4. Proper({"plug"})
    BY DEF Proper
  <2>5. Hardware("plug", new, FALSE, Bits({"plug"}, {}))
    BY <1>3 DEF HwPlug
  <2> HIDE DEF new
  <2> QED BY <2>1, <2>2, <2>3, <2>4, <2>5, HardwareKeeps
<1>4. ASSUME NEW c \in ConsumerCaps, HwSinkContract(c) PROVE PortInv'
  <2> DEFINE new == [hw EXCEPT !.sink = c]
             both == {"new_consumer", "sink_ready"}
             one == {"new_consumer"}
  <2>1. /\ Bits(both, {}) \in PortEventBitfield /\ Bits(both, {}).status = both
        /\ Bits(one, {}) \in PortEventBitfield /\ Bits(one, {}).status = one
    BY <1>2, BitsType
  <2>2. hw.connected /\ new \in PortStatus /\ new.connected
    BY <1>1, <1>4 DEF HwSinkContract, PortStatus
  <2>3. Proper(both) /\ Proper(one) /\ "sink_ready" \in both /\ both # {} /\ one # {}
    BY DEF Proper, Disturbs
  <2>4. \/ Hardware("sink", new, FALSE, Bits(both, {}))
        \/ Hardware("sink", new, TRUE, Bits(one, {}))
    BY <1>4 DEF HwSinkContract
  <2> HIDE DEF new, both, one
  <2> QED BY <2>1, <2>2, <2>3, <2>4, HardwareKeeps
<1>5. CASE HwSinkReady
  <2> DEFINE b == {"sink_ready"}
  <2>1. Bits(b, {}) \in PortEventBitfield /\ Bits(b, {}).status = b
    BY <1>2, BitsType
  <2>2. Proper(b) /\ "sink_ready" \in b /\ Hardware("sink", hw, FALSE, Bits(b, {}))
    BY <1>5 DEF Proper, Disturbs, HwSinkReady
  <2> HIDE DEF b
  <2> QED BY <1>1, <2>1, <2>2, HardwareKeeps
<1>6. ASSUME NEW c \in ProviderCaps, HwSourceContract(c) PROVE PortInv'
  <2> DEFINE new == [hw EXCEPT !.source = c]
             b == {"new_provider"}
  <2>1. Bits(b, {}) \in PortEventBitfield /\ Bits(b, {}).status = b
    BY <1>2, BitsType
  <2>2. hw.connected /\ new \in PortStatus /\ new.connected /\ new.sink = None
    BY <1>1, <1>6 DEF HwSourceContract, PortStatus
  <2>3. Proper(b) /\ b # {} /\ Hardware("source", new, FALSE, Bits(b, {}))
    BY <1>6 DEF Proper, Disturbs, HwSourceContract
  <2> HIDE DEF new, b
  <2> QED BY <2>1, <2>2, <2>3, HardwareKeeps
<1>7. CASE HwHardReset
  <2> DEFINE new == [NoStatus EXCEPT !.connected = TRUE]
             b == {"hard_reset"}
  <2>1. Bits(b, {}) \in PortEventBitfield /\ Bits(b, {}).status = b
    BY <1>2, BitsType
  <2>2. hw.connected /\ new \in PortStatus /\ new.connected /\ new.sink = None
    BY <1>7 DEF HwHardReset, NoStatus, PortStatus
  <2>3. Proper(b) /\ b # {} /\ Hardware("reset", new, FALSE, Bits(b, {}))
    BY <1>7 DEF Proper, HwHardReset
  <2> HIDE DEF new, b
  <2> QED BY <2>1, <2>2, <2>3, HardwareKeeps
<1>8. ASSUME NEW c \in ProviderCaps, hw.sink # None,
             Hardware("swap", [connected |-> TRUE, sink |-> None, source |-> c], FALSE,
                      Bits({"power_swap", "new_provider"}, {}))
      PROVE  PortInv'
  <2> DEFINE new == [connected |-> TRUE, sink |-> None, source |-> c]
             b == {"power_swap", "new_provider"}
  <2>1. Bits(b, {}) \in PortEventBitfield /\ Bits(b, {}).status = b
    BY <1>2, BitsType
  <2>2. hw.connected /\ new \in PortStatus /\ new.connected /\ new.sink = None
    BY <1>1, <1>8 DEF NoStatus, PortStatus
  <2>3. Proper(b) /\ b # {} /\ Hardware("swap", new, FALSE, Bits(b, {}))
    BY <1>8 DEF Proper
  <2> HIDE DEF new, b
  <2> QED BY <2>1, <2>2, <2>3, HardwareKeeps
<1>9. ASSUME NEW c \in ConsumerCaps, hw.source # None,
             Hardware("swap", [connected |-> TRUE, sink |-> c, source |-> None], TRUE,
                      Bits({"power_swap", "new_consumer"}, {}))
      PROVE  PortInv'
  <2> DEFINE new == [connected |-> TRUE, sink |-> c, source |-> None]
             b == {"power_swap", "new_consumer"}
  <2>1. Bits(b, {}) \in PortEventBitfield /\ Bits(b, {}).status = b
    BY <1>2, BitsType
  <2>2. hw.connected /\ new \in PortStatus /\ new.connected
    BY <1>1, <1>9 DEF NoStatus, PortStatus
  <2>3. Proper(b) /\ b # {} /\ Hardware("swap", new, TRUE, Bits(b, {}))
    BY <1>9 DEF Proper
  <2> HIDE DEF new, b
  <2> QED BY <2>1, <2>2, <2>3, HardwareKeeps
<1>10. CASE HwNotify
  <2>1. Bits({}, NoteBits) \in PortEventBitfield /\ Bits({}, NoteBits).status = {}
    BY BitsType
  <2>2. Proper({}) /\ ~Disturbs({}) /\ Hardware("notify", hw, owed, Bits({}, NoteBits))
    BY <1>10 DEF Proper, Disturbs, HwNotify
  <2> QED BY <1>1, <2>1, <2>2, HardwareKeeps
<1> QED BY <1>3, <1>4, <1>5, <1>6, <1>7, <1>8, <1>9, <1>10 DEF ControllerStep, HwPowerSwap

-----------------------------------------------------------------------------
(* The event receiver.                                                      *)

\* A step that only passes events on.
LEMMA PassedOn ==
    ASSUME PortInv, UNCHANGED <<hw, psu, status, told, svcLost, lost, faults>>,
           PlugPending => PlugPending', StatusPending => StatusPending'
    PROVE  DetachedInv' /\ ConvergedInv'
BY DEF PortInv, DetachedInv, ConvergedInv, Clean, Current

LEMMA EventTypes ==
    /\ \A bits \in SUBSET StatusBits :
          LET e == [kind |-> "status", bits |-> bits] IN e \in Event /\ e # None
    /\ \A note \in NoteBits :
          LET e == [kind |-> note, bits |-> {}] IN e \in Event /\ e # None
    /\ "status" \notin NoteBits
<1>1. NoteBits = {"alert", "vdm", "other", "dp"}
    BY DEF NoteBits, NoteOrder
<1> QED BY <1>1, TypeCPortAssumption DEF Event

LEMMA FirstNoteFacts ==
    ASSUME NEW notes \in SUBSET NoteBits, notes # {}
    PROVE  FirstNote(notes).note \in NoteBits /\ FirstNote(notes).rest \in SUBSET NoteBits
<1> DEFINE First(k) == /\ NoteOrder[k] \in notes
                       /\ \A j \in 1 .. (k - 1) : NoteOrder[j] \notin notes
<1>1. /\ DOMAIN NoteOrder = 1 .. 4 /\ NoteOrder[1] = "alert" /\ NoteOrder[2] = "vdm"
      /\ NoteOrder[3] = "other" /\ NoteOrder[4] = "dp"
    BY DEF NoteOrder
<1>2. \E k \in DOMAIN NoteOrder : NoteOrder[k] \in notes
    BY DEF NoteBits
<1>3. \E k \in DOMAIN NoteOrder : First(k)
  <2>1. CASE NoteOrder[1] \in notes
    BY <1>1, <2>1
  <2>2. CASE NoteOrder[1] \notin notes /\ NoteOrder[2] \in notes
    BY <1>1, <2>2
  <2>3. CASE NoteOrder[1] \notin notes /\ NoteOrder[2] \notin notes /\ NoteOrder[3] \in notes
    BY <1>1, <2>3
  <2>4. CASE NoteOrder[1] \notin notes /\ NoteOrder[2] \notin notes /\ NoteOrder[3] \notin notes
    <3>1. NoteOrder[4] \in notes
      BY <1>1, <1>2, <2>4
    <3> QED BY <1>1, <2>4, <3>1
  <2> QED BY <2>1, <2>2, <2>3, <2>4
<1> DEFINE i == CHOOSE k \in DOMAIN NoteOrder : First(k)
<1>4. i \in DOMAIN NoteOrder
    BY <1>3
<1>5. FirstNote(notes) = [note |-> NoteOrder[i], rest |-> notes \ {NoteOrder[i]}]
    BY DEF FirstNote
<1> HIDE DEF i
<1> QED BY <1>4, <1>5 DEF NoteBits

LEMMA StreamNextKeeps ==
    ASSUME PortInv, StreamNext
    PROVE  PortInv'
<1>1. /\ rx = "Top" /\ stream # None
      /\ UNCHANGED <<hw, owed, signals, irq, loopback, lost, armed, psu, status, deadline, svc,
                     told, svcLost, synced, ops, faults>>
    BY DEF StreamNext, controller, channels, port, outputs, counters
<1>2. event = None /\ stream \in PortEventBitfield /\ EventBits = {} /\ StreamBits = stream.status
    BY <1>1 DEF PortInv, ShapeInv, TypeOK, EventBits, StreamBits
<1>3. stream.status \in SUBSET StatusBits /\ stream.notes \in SUBSET NoteBits
    BY <1>2 DEF PortEventBitfield
<1>4. PortEventBitfield \cap {None} = {}
    BY TypeCPortAssumption
<1>5. \/ /\ event' \in Event /\ event' # None /\ event'.kind = "status" /\ rx' = "Deliver"
         /\ event'.bits = stream.status
         /\ stream' \in PortEventBitfield /\ StreamBits' = {}
      \/ /\ event' \in Event /\ event' # None /\ event'.kind # "status" /\ rx' = "Deliver"
         /\ event'.bits = {} /\ stream.status = {}
         /\ stream' \in PortEventBitfield /\ StreamBits' = {}
      \/ event' = None /\ rx' = "Top" /\ stream.status = {} /\ stream' = None
  <2>1. CASE stream.status # {}
    <3>1. /\ event' = [kind |-> "status", bits |-> stream.status] /\ rx' = "Deliver"
          /\ stream' = [stream EXCEPT !.status = {}]
      BY <2>1 DEF StreamNext
    <3>2. stream' \in PortEventBitfield /\ stream'.status = {}
      BY <1>2, <3>1 DEF PortEventBitfield
    <3>3. event' \in Event /\ event' # None
      BY <1>3, <3>1, EventTypes
    <3> QED BY <3>1, <3>2, <3>3 DEF StreamBits
  <2>2. CASE stream.status = {} /\ stream.notes # {}
    <3> DEFINE f == FirstNote(stream.notes)
    <3>1. event' = [kind |-> f.note, bits |-> {}] /\ stream' = [stream EXCEPT !.notes = f.rest]
          /\ rx' = "Deliver"
      BY <2>2 DEF StreamNext
    <3>2. f.note \in NoteBits /\ f.rest \in SUBSET NoteBits
      BY <1>3, <2>2, FirstNoteFacts
    <3> HIDE DEF f
    <3>3. stream' \in PortEventBitfield /\ stream'.status = {}
      BY <1>2, <2>2, <3>1, <3>2 DEF PortEventBitfield
    <3>4. event' \in Event /\ event' # None /\ event'.kind # "status" /\ event'.bits = {}
      BY <3>1, <3>2, EventTypes
    <3> QED BY <2>2, <3>1, <3>3, <3>4 DEF StreamBits
  <2>3. CASE stream.status = {} /\ stream.notes = {}
    BY <1>1, <1>2, <2>3 DEF StreamNext
  <2> QED BY <2>1, <2>2, <2>3
<1>6. EventBits' = StreamBits /\ StreamBits' = {}
    BY <1>2, <1>5 DEF EventBits, StreamBits
<1>7. TypeOK'
    BY <1>1, <1>5 DEF PortInv, TypeOK
<1>8. ShapeInv'
  <2>1. Proper({})
    BY DEF Proper, Disturbs
  <2>2. (event' # None <=> rx' = "Deliver") /\ (rx' # "Select")
        /\ (event' # None /\ event'.kind # "status" => event'.bits = {})
    BY <1>5
  <2> QED BY <1>1, <1>6, <2>1, <2>2 DEF PortInv, ShapeInv
<1>9. (PlugPending => PlugPending') /\ (StatusPending => StatusPending')
  <2>1. PlugPending => PlugPending'
    BY <1>1, <1>2, <1>6 DEF PlugPending
  <2>2. StreamBits # {} => event' # None /\ event'.kind = "status"
    BY <1>2, <1>5
  <2>3. StatusPending => StatusPending'
    BY <1>1, <1>2, <2>2 DEF StatusPending
  <2> QED BY <2>1, <2>3
<1>10. DetachedInv' /\ ConvergedInv'
    BY <1>1, <1>9, PassedOn
<1>11. ReadyInv'
  <2>1. Owing' => Owing
    BY <1>1 DEF Owing, Clean
  <2>2. \A i : ReadyBehind(i)' <=> ReadyBehind(i)
    BY <1>1 DEF ReadyBehind
  <2> QED BY <1>1, <1>2, <1>6, <2>1, <2>2 DEF PortInv, ReadyInv, Disturbs
<1> QED BY <1>7, <1>8, <1>10, <1>11 DEF PortInv

LEMMA ReadDeadlineKeeps ==
    ASSUME PortInv, ReadDeadline
    PROVE  PortInv'
<1>1. /\ rx = "Top" /\ stream = None /\ rx' = "Select" /\ armed' = deadline
      /\ UNCHANGED <<hw, owed, signals, irq, loopback, lost, stream, event, psu, status, deadline,
                     svc, told, svcLost, synced, ops, faults>>
    BY DEF ReadDeadline, controller, channels, port, outputs, counters
<1>2. EventBits' = EventBits /\ StreamBits' = StreamBits
    BY <1>1 DEF EventBits, StreamBits
<1>3. TypeOK' /\ ShapeInv'
    BY <1>1, <1>2 DEF PortInv, TypeOK, ShapeInv
<1>4. (PlugPending => PlugPending') /\ (StatusPending => StatusPending')
    BY <1>1, <1>2 DEF PlugPending, StatusPending
<1>5. ReadyInv'
    BY <1>1, <1>2 DEF PortInv, ReadyInv, Owing, Clean, ReadyBehind
<1> QED BY <1>1, <1>3, <1>4, <1>5, PassedOn DEF PortInv

LEMMA TakeInterruptKeeps ==
    ASSUME PortInv, TakeInterrupt
    PROVE  PortInv'
<1>1. /\ rx = "Select" /\ irq # << >> /\ stream' = Head(irq) /\ irq' = Tail(irq) /\ rx' = "Top"
      /\ UNCHANGED <<hw, owed, signals, loopback, lost, armed, event, psu, status, deadline,
                     svc, told, svcLost, synced, ops, faults>>
    BY DEF TakeInterrupt, controller, port, outputs, counters
<1>2. event = None /\ stream = None /\ EventBits = {} /\ StreamBits = {} /\ EventBits' = {}
    BY <1>1 DEF PortInv, ShapeInv, EventBits, StreamBits
<1>3. /\ irq \in Seq(PortEventBitfield) /\ irq' \in Seq(PortEventBitfield)
      /\ stream' \in PortEventBitfield /\ stream' = irq[1] /\ Len(irq) \in Nat \ {0}
      /\ DOMAIN irq = 1 .. Len(irq) /\ DOMAIN irq' = 1 .. Len(irq) - 1
      /\ \A i \in 1 .. Len(irq) - 1 : irq'[i] = irq[i + 1]
    BY <1>1, TailFacts DEF PortInv, TypeOK
<1>4. StreamBits' = irq[1].status
    BY <1>3, TypeCPortAssumption DEF StreamBits
<1>5. \A i \in DOMAIN irq : i = 1 \/ (i - 1 \in DOMAIN irq' /\ irq[i] = irq'[i - 1])
    BY <1>3
<1>6. \A i \in DOMAIN irq' : i + 1 \in DOMAIN irq /\ irq'[i] = irq[i + 1]
    BY <1>3
<1>7. TypeOK'
    BY <1>1, <1>3 DEF PortInv, TypeOK
<1>8. ShapeInv'
  <2>1. 1 \in DOMAIN irq
    BY <1>3
  <2>2. Proper(StreamBits') /\ \A i \in DOMAIN irq' : Proper(irq'[i].status)
    BY <1>4, <1>6, <2>1 DEF PortInv, ShapeInv
  <2> QED BY <1>1, <1>2, <2>2 DEF PortInv, ShapeInv, Proper, Disturbs
<1>9. (PlugPending => PlugPending') /\ (StatusPending => StatusPending')
  <2>1. ASSUME NEW i \in DOMAIN irq, irq[i].status # {}
        PROVE  StreamBits' = irq[i].status \/ \E j \in DOMAIN irq' : irq'[j] = irq[i]
    BY <1>4, <1>5
  <2>2. PlugPending => PlugPending'
    BY <1>1, <1>2, <2>1 DEF PlugPending
  <2>3. StatusPending => StatusPending'
    BY <1>1, <1>2, <2>1 DEF StatusPending
  <2> QED BY <2>2, <2>3
<1>10. DetachedInv' /\ ConvergedInv'
    BY <1>1, <1>9, PassedOn
<1>11. ReadyInv'
  <2> SUFFICES ASSUME Owing'
               PROVE  /\ \A i \in DOMAIN irq' : Disturbs(irq'[i].status) => ReadyBehind(i)'
                      /\ Disturbs(StreamBits') => ReadyBehind(0)'
                      /\ \/ psu'.consumer = ConsumerCapability(hw'.sink) \/ deadline'
                         \/ "sink_ready" \in StreamBits' \/ ReadyBehind(0)'
    BY <1>2 DEF ReadyInv, Disturbs
  <2>1. Owing
    BY <1>1 DEF Owing, Clean
  <2>2. \A i \in Nat : ReadyBehind(i + 1) => ReadyBehind(i)'
    <3> SUFFICES ASSUME NEW i \in Nat, NEW j \in DOMAIN irq, j > i + 1,
                        "sink_ready" \in irq[j].status
                 PROVE  ReadyBehind(i)'
      BY DEF ReadyBehind
    <3>1. j \in Nat /\ j - 1 \in DOMAIN irq' /\ irq'[j - 1] = irq[j] /\ j - 1 > i
      BY <1>3
    <3> QED BY <3>1 DEF ReadyBehind
  <2>3. ReadyBehind(0) => "sink_ready" \in StreamBits' \/ ReadyBehind(0)'
    <3> SUFFICES ASSUME NEW j \in DOMAIN irq, "sink_ready" \in irq[j].status
                 PROVE  "sink_ready" \in StreamBits' \/ ReadyBehind(0)'
      BY DEF ReadyBehind
    <3>1. CASE j = 1
      BY <1>4, <3>1
    <3>2. CASE j # 1
      <4>1. j - 1 \in DOMAIN irq' /\ irq'[j - 1] = irq[j] /\ j - 1 > 0
        BY <1>3, <3>2
      <4> QED BY <4>1 DEF ReadyBehind
    <3> QED BY <3>1, <3>2
  <2>4. ASSUME NEW i \in DOMAIN irq', Disturbs(irq'[i].status) PROVE ReadyBehind(i)'
    <3>1. i \in Nat /\ i + 1 \in DOMAIN irq /\ Disturbs(irq[i + 1].status)
      BY <1>3, <2>4
    <3>2. ReadyBehind(i + 1)
      BY <2>1, <3>1 DEF PortInv, ReadyInv
    <3> QED BY <2>2, <3>1, <3>2
  <2>5. ASSUME Disturbs(StreamBits') PROVE ReadyBehind(0)'
    <3>1. 1 \in DOMAIN irq /\ Disturbs(irq[1].status) /\ 1 = 0 + 1
      BY <1>3, <1>4, <2>5
    <3>2. ReadyBehind(0 + 1)
      BY <2>1, <3>1 DEF PortInv, ReadyInv
    <3> QED BY <2>2, <3>2
  <2> QED BY <1>1, <1>2, <2>1, <2>3, <2>4, <2>5 DEF PortInv, ReadyInv
<1> QED BY <1>7, <1>8, <1>10, <1>11 DEF PortInv

\* The made-up sink_ready stands in for the deadline.
LEMMA DeadlineElapsedKeeps ==
    ASSUME PortInv, DeadlineElapsed
    PROVE  PortInv'
<1> DEFINE e == [kind |-> "status", bits |-> {"sink_ready"}]
<1>1. /\ rx = "Select" /\ deadline' = FALSE /\ event' = e /\ rx' = "Deliver"
      /\ UNCHANGED <<hw, owed, signals, irq, loopback, lost, armed, stream, psu, status, svc,
                     told, svcLost, synced, ops, faults>>
    BY DEF DeadlineElapsed, controller, channels, outputs, counters
<1>2. e \in Event /\ e # None /\ e.kind = "status" /\ e.bits = {"sink_ready"}
  <2>1. {"sink_ready"} \in SUBSET StatusBits
    BY DEF StatusBits
  <2> QED BY <2>1, EventTypes
<1> HIDE DEF e
<1>3. event = None /\ EventBits = {} /\ EventBits' = {"sink_ready"} /\ StreamBits' = StreamBits
    BY <1>1, <1>2 DEF PortInv, ShapeInv, EventBits, StreamBits
<1>4. TypeOK'
    BY <1>1, <1>2 DEF PortInv, TypeOK
<1>5. ~Disturbs(EventBits')
    BY <1>3 DEF Disturbs
<1>6. ShapeInv'
    BY <1>1, <1>2, <1>3, <1>5 DEF PortInv, ShapeInv, Proper
<1>7. (PlugPending => PlugPending') /\ StatusPending'
    BY <1>1, <1>2, <1>3 DEF PlugPending, StatusPending
<1>8. DetachedInv' /\ ConvergedInv'
    BY <1>1, <1>7, PassedOn
<1>9. ReadyInv'
  <2>1. (Owing' => Owing) /\ \A i : ReadyBehind(i)' <=> ReadyBehind(i)
    BY <1>1 DEF Owing, Clean, ReadyBehind
  <2> QED BY <1>1, <1>3, <1>5, <2>1 DEF PortInv, ReadyInv
<1> QED BY <1>4, <1>6, <1>8, <1>9 DEF PortInv

LEMMA TakeLoopbackKeeps ==
    ASSUME PortInv, TakeLoopback
    PROVE  PortInv'
<1>1. /\ rx = "Select" /\ loopback # << >> /\ loopback' = Tail(loopback) /\ rx' = "Top"
      /\ stream' = IF Head(loopback) = Invalidated THEN None ELSE Head(loopback)
      /\ UNCHANGED <<hw, owed, signals, irq, lost, armed, event, psu, status, deadline,
                     svc, told, svcLost, synced, ops, faults>>
    BY DEF TakeLoopback, controller, port, outputs, counters
<1>2. event = None /\ stream = None /\ EventBits = {} /\ StreamBits = {} /\ EventBits' = {}
    BY <1>1 DEF PortInv, ShapeInv, EventBits, StreamBits
<1>3. /\ loopback \in Seq(PortEventBitfield) /\ loopback' \in Seq(PortEventBitfield)
      /\ Head(loopback) \in PortEventBitfield /\ Head(loopback) = loopback[1]
      /\ Len(loopback) \in Nat \ {0}
      /\ DOMAIN loopback = 1 .. Len(loopback) /\ DOMAIN loopback' = 1 .. Len(loopback) - 1
      /\ \A i \in 1 .. Len(loopback) - 1 : loopback'[i] = loopback[i + 1]
    BY <1>1, TailFacts DEF PortInv, TypeOK
<1>4. StreamBits' = loopback[1].status
    BY <1>1, <1>3, BitsType, TypeCPortAssumption DEF StreamBits
<1>5. \A i \in DOMAIN loopback : i = 1 \/ (i - 1 \in DOMAIN loopback' /\ loopback[i] = loopback'[i - 1])
    BY <1>3
<1>6. 1 \in DOMAIN loopback
      /\ \A i \in DOMAIN loopback' : i + 1 \in DOMAIN loopback /\ loopback'[i] = loopback[i + 1]
    BY <1>3
<1>7. TypeOK'
    BY <1>1, <1>3 DEF PortInv, TypeOK
<1>8. ShapeInv'
  <2>1. Proper(StreamBits') /\ \A i \in DOMAIN loopback' : Proper(loopback'[i].status)
    BY <1>4, <1>6 DEF PortInv, ShapeInv
  <2>2. ~synced' => \A i \in DOMAIN loopback' : loopback'[i] = Invalidated
    BY <1>1, <1>6 DEF PortInv, ShapeInv
  <2> QED BY <1>1, <1>2, <2>1, <2>2 DEF PortInv, ShapeInv, Proper, Disturbs
<1>9. (PlugPending => PlugPending') /\ (StatusPending => StatusPending')
  <2>1. ASSUME NEW i \in DOMAIN loopback
        PROVE  StreamBits' = loopback[i].status \/ \E j \in DOMAIN loopback' : loopback'[j] = loopback[i]
    BY <1>4, <1>5
  <2>2. PlugPending => PlugPending'
    BY <1>1, <1>2, <2>1 DEF PlugPending
  <2>3. StatusPending => StatusPending'
    BY <1>1, <1>2, <2>1 DEF StatusPending
  <2> QED BY <2>2, <2>3
<1>10. DetachedInv' /\ ConvergedInv'
    BY <1>1, <1>9, PassedOn
<1>11. ReadyInv'
  <2>1. (Owing' => Owing) /\ \A i : ReadyBehind(i)' <=> ReadyBehind(i)
    BY <1>1 DEF Owing, Clean, ReadyBehind
  <2>2. Owing => StreamBits' = {}
    BY <1>4, <1>6, BitsType DEF Owing, PortInv, ShapeInv
  <2> QED BY <1>1, <1>2, <2>1, <2>2 DEF PortInv, ReadyInv, Disturbs
<1> QED BY <1>7, <1>8, <1>10, <1>11 DEF PortInv

-----------------------------------------------------------------------------
(* process_event.                                                           *)

LEMMA NotifyServiceFacts ==
    ASSUME TypeOK, NEW s \in PortStatus, NotifyService(s)
    PROVE  /\ svc' \in 0 .. ServiceSize /\ told' \in PortStatus /\ svcLost' \in BOOLEAN
           /\ svcLost' \/ told' = s
           /\ (svcLost => svcLost') /\ told' \in {told, s}
<1>1. svc \in 0 .. ServiceSize /\ told \in PortStatus /\ svcLost \in BOOLEAN /\ ServiceSize \in Nat
    BY TypeCPortAssumption DEF TypeOK
<1>2. CASE svc < ServiceSize
    BY <1>1, <1>2 DEF NotifyService
<1>3. CASE ~(svc < ServiceSize)
    BY <1>1, <1>3 DEF NotifyService
<1> QED BY <1>2, <1>3

LEMMA NoStatusReset == [NoStatus EXCEPT !.sink = None, !.source = None] = NoStatus
<1> DEFINE r == [NoStatus EXCEPT !.sink = None, !.source = None]
<1>1. r \in PortStatus /\ r.connected = FALSE /\ r.sink = None /\ r.source = None
    BY DEF NoStatus, PortStatus
<1> HIDE DEF r
<1>2. r = [connected |-> r.connected, sink |-> r.sink, source |-> r.source]
    BY <1>1 DEF PortStatus
<1> QED BY <1>1, <1>2 DEF NoStatus, r

\* An event is done with: the receiver holds it no more.
LEMMA HandledFacts ==
    ASSUME PortInv, rx = "Deliver", Handled, UNCHANGED <<stream, irq, loopback, hw, synced>>
    PROVE  /\ ShapeInv' /\ EventBits' = {} /\ StreamBits' = StreamBits
           /\ PlugPending' => StatusPending'
           /\ PlugPending => "plug" \in EventBits \/ PlugPending'
           /\ \A i : ReadyBehind(i)' <=> ReadyBehind(i)
<1>1. rx' = "Top" /\ event' = None
    BY DEF Handled
<1>2. EventBits' = {} /\ StreamBits' = StreamBits
    BY <1>1 DEF EventBits, StreamBits
<1>3. ShapeInv'
    BY <1>1, <1>2 DEF PortInv, ShapeInv, Proper, Disturbs
<1>4. /\ PlugPending' => StatusPending'
      /\ PlugPending => "plug" \in EventBits \/ PlugPending'
    BY <1>2 DEF PlugPending, StatusPending
<1> QED BY <1>2, <1>3, <1>4 DEF ReadyBehind

LEMMA FaultFacts ==
    ASSUME TypeOK, Fault
    PROVE  ops' \in 0 .. MaxOps /\ faults' \in 0 .. MaxFaults /\ faults' # 0
BY TypeCPortAssumption DEF TypeOK, Fault

LEMMA ProcessStatusChangedKeeps ==
    ASSUME PortInv, ProcessStatusChanged
    PROVE  PortInv'
<1> DEFINE p == [psu |-> psu, status |-> status, deadline |-> deadline, ok |-> TRUE]
           bits == event.bits
           q(fail) == AfterStatusChange(p, hw, bits, fail)
<1>1. rx = "Deliver" /\ event.kind = "status" /\ Handled
      /\ UNCHANGED <<hw, owed, signals, irq, loopback, lost, armed, stream, synced>>
    BY DEF ProcessStatusChanged, controller, channels
<1>2. PICK fail \in BOOLEAN :
          /\ psu' = q(fail).psu /\ deadline' = q(fail).deadline
          /\ \/ q(fail).ok /\ status' = hw /\ NotifyService(hw)
             \/ ~q(fail).ok /\ status' = q(fail).status /\ UNCHANGED outputs
          /\ IF fail THEN Fault /\ ~q(fail).ok ELSE UNCHANGED counters
    BY DEF ProcessStatusChanged
<1>3. /\ psu \in State /\ status \in PortStatus /\ deadline \in BOOLEAN /\ hw \in PortStatus
      /\ event \in Event /\ event # None /\ EventBits = bits
    BY <1>1 DEF PortInv, TypeOK, ShapeInv, EventBits
<1>4. p \in Work /\ p.ok /\ bits \in SUBSET StatusBits /\ Proper(bits)
    BY <1>3 DEF Work, Event, PortInv, ShapeInv
<1>5. q(fail) \in Work
    BY <1>3, <1>4, ChainTypes
<1>6. /\ psu' \in State /\ deadline' \in BOOLEAN /\ status' \in PortStatus
      /\ q(fail).ok => Current(hw)'
      /\ svc' \in 0 .. ServiceSize /\ told' \in PortStatus /\ svcLost' \in BOOLEAN
  <2>1. q(fail).psu \in State /\ q(fail).deadline \in BOOLEAN /\ q(fail).status \in PortStatus
    BY <1>5 DEF Work
  <2>2. TypeOK
    BY DEF PortInv
  <2>3. CASE q(fail).ok
    BY <1>1, <1>2, <1>3, <2>1, <2>2, <2>3, NotifyServiceFacts DEF Current
  <2>4. CASE ~q(fail).ok
    BY <1>2, <2>1, <2>2, <2>4 DEF outputs, TypeOK
  <2> QED BY <2>3, <2>4
<1>7. ops' \in 0 .. MaxOps /\ faults' \in 0 .. MaxFaults
    BY <1>2, FaultFacts DEF PortInv, TypeOK, counters
<1>8. TypeOK'
  <2>1. rx' = "Top" /\ event' = None
    BY <1>1 DEF Handled
  <2> QED BY <1>1, <1>6, <1>7, <2>1 DEF PortInv, TypeOK
<1>9. /\ ShapeInv' /\ EventBits' = {} /\ StreamBits' = StreamBits
      /\ PlugPending' => StatusPending'
      /\ PlugPending => "plug" \in EventBits \/ PlugPending'
      /\ \A i : ReadyBehind(i)' <=> ReadyBehind(i)
    BY <1>1, HandledFacts
<1>10. CASE fail
  <2>1. ~Clean'
    BY <1>2, <1>10, FaultFacts DEF Clean, PortInv
  <2> QED BY <1>8, <1>9, <2>1 DEF PortInv, DetachedInv, ConvergedInv, ReadyInv, Owing
<1>11. CASE ~fail
  <2> DEFINE r == AfterStatusChange(p, hw, bits, FALSE)
  <2>1. /\ Detached(r) <=> (IF "plug" \in bits THEN ~hw.connected ELSE Detached(p))
        /\ ~r.ok => "plug" \notin bits /\ Detached(p)
        /\ r.status \in {p.status, [p.status EXCEPT !.sink = None, !.source = None]}
        /\ ~Disturbs(bits) /\ "sink_ready" \in bits /\ ~Detached(p)
             => r.psu.consumer = ConsumerCapability(hw.sink)
        /\ ~Disturbs(bits) /\ "sink_ready" \notin bits
             => /\ r.psu.consumer = p.psu.consumer
                /\ p.deadline /\ hw.connected /\ hw.sink # None => r.deadline
    <3> HIDE DEF p, bits
    <3> QED BY <1>3, <1>4, ChainFacts
  <2>2. /\ psu' = r.psu /\ deadline' = r.deadline /\ (Clean' <=> Clean)
        /\ r.ok => Current(hw)'
        /\ ~r.ok => status' = r.status /\ told' = told /\ svcLost' = svcLost
    <3>1. fail = FALSE
      BY <1>11
    <3>2. q(fail) = r
      BY <3>1
    <3>3. faults' = faults
      BY <1>2, <3>1 DEF counters
    <3> QED BY <1>1, <1>2, <1>6, <3>2, <3>3 DEF outputs, Clean
  <2>3. p.psu = psu /\ p.status = status /\ p.deadline = deadline
    OBVIOUS
  <2> HIDE DEF r, p, q
  <2>4. Clean => (psu.state = "Detached" /\ ~PlugPending => hw = NoStatus /\ Current(hw))
    BY DEF PortInv, DetachedInv
  <2>5. DetachedInv'
    <3> SUFFICES ASSUME Clean', psu'.state = "Detached", ~PlugPending'
                 PROVE  hw' = NoStatus /\ Current(hw)'
      BY DEF DetachedInv
    <3>1. Detached(r)
      BY <2>2 DEF Detached
    <3>2. CASE "plug" \in bits
      <4>1. r.ok /\ ~hw.connected
        BY <2>1, <3>1, <3>2
      <4> QED BY <1>1, <2>2, <4>1 DEF PortInv, ShapeInv
    <3>3. CASE "plug" \notin bits
      <4>1. Clean /\ psu.state = "Detached" /\ ~PlugPending
        BY <1>3, <1>9, <2>1, <2>2, <2>3, <3>1, <3>3 DEF Detached
      <4>2. hw = NoStatus /\ Current(hw)
        BY <2>4, <4>1
      <4>3. CASE r.ok
        BY <1>1, <2>2, <4>2, <4>3
      <4>4. CASE ~r.ok
        <5>1. status' = NoStatus
          BY <2>1, <2>2, <2>3, <4>2, <4>4, NoStatusReset DEF Current
        <5> QED BY <1>1, <2>2, <4>2, <4>4, <5>1 DEF Current
      <4> QED BY <4>3, <4>4
    <3> QED BY <3>2, <3>3
  <2>6. ConvergedInv'
    <3> SUFFICES ASSUME Clean', ~r.ok, ~PlugPending' PROVE Current(hw)'
      BY <1>9, <2>2 DEF ConvergedInv
    <3>1. psu'.state = "Detached"
      BY <2>1, <2>2 DEF Detached
    <3> QED BY <2>5, <3>1 DEF DetachedInv
  <2>7. ReadyInv'
    <3> SUFFICES ASSUME Owing'
                 PROVE  \/ psu'.consumer = ConsumerCapability(hw'.sink) \/ deadline'
                        \/ "sink_ready" \in StreamBits' \/ ReadyBehind(0)'
      <4>1. Owing' => Owing
        BY <1>1, <2>2 DEF Owing
      <4> QED BY <1>1, <1>9, <4>1 DEF PortInv, ReadyInv, Disturbs
    <3>1. Owing /\ Clean /\ ~synced /\ hw.sink # None
      BY <1>1, <2>2 DEF Owing
    <3>2. hw.connected /\ hw # NoStatus
      BY <3>1 DEF PortInv, ShapeInv, NoStatus
    <3>3. CASE Disturbs(bits)
      BY <1>3, <1>9, <3>1, <3>3 DEF PortInv, ReadyInv
    <3>4. CASE ~Disturbs(bits) /\ "sink_ready" \in bits /\ ~Detached(p)
      BY <1>1, <2>1, <2>2, <3>4
    <3>5. CASE ~Disturbs(bits) /\ "sink_ready" \in bits /\ Detached(p)
      <4>1. PlugPending
        BY <2>3, <2>4, <3>1, <3>2, <3>5 DEF Detached
      <4>2. "plug" \notin EventBits
        BY <1>3, <3>5 DEF Disturbs
      <4>3. \A i \in DOMAIN loopback : "plug" \notin loopback[i].status
        BY <3>1, BitsType DEF PortInv, ShapeInv
      <4>4. CASE "plug" \in StreamBits
        <5>1. Disturbs(StreamBits)
          BY <4>4 DEF Disturbs
        <5> QED BY <1>9, <3>1, <5>1 DEF PortInv, ReadyInv
      <4>5. CASE \E i \in DOMAIN irq : "plug" \in irq[i].status
        <5>1. PICK i \in DOMAIN irq : "plug" \in irq[i].status
          BY <4>5
        <5>2. Disturbs(irq[i].status)
          BY <5>1 DEF Disturbs
        <5>3. ReadyBehind(i)
          BY <3>1, <5>2 DEF PortInv, ReadyInv
        <5>4. DOMAIN irq \subseteq Nat \ {0}
          BY DEF PortInv, TypeOK
        <5>5. ReadyBehind(0)
          BY <5>3, <5>4 DEF ReadyBehind
        <5> QED BY <1>9, <5>5
      <4> QED BY <4>1, <4>2, <4>3, <4>4, <4>5 DEF PlugPending
    <3>6. CASE ~Disturbs(bits) /\ "sink_ready" \notin bits
      BY <1>1, <1>3, <1>9, <2>1, <2>2, <2>3, <3>1, <3>2, <3>6 DEF PortInv, ReadyInv
    <3> QED BY <3>3, <3>4, <3>5, <3>6
  <2> QED BY <1>8, <1>9, <2>5, <2>6, <2>7 DEF PortInv
<1> QED BY <1>10, <1>11

LEMMA ReadFailedKeeps ==
    ASSUME PortInv, ReadFailed
    PROVE  PortInv'
<1>1. rx = "Deliver" /\ Fault /\ Handled
      /\ UNCHANGED <<hw, owed, signals, irq, loopback, lost, armed, stream, psu, status, deadline,
                     svc, told, svcLost, synced>>
    BY DEF ReadFailed, controller, channels, port, outputs
<1>2. ops' \in 0 .. MaxOps /\ faults' \in 0 .. MaxFaults /\ ~Clean'
    BY <1>1, FaultFacts DEF PortInv, Clean
<1>3. rx' = "Top" /\ event' = None
    BY <1>1 DEF Handled
<1>4. TypeOK'
    BY <1>1, <1>2, <1>3 DEF PortInv, TypeOK
<1>5. ShapeInv'
    BY <1>1, HandledFacts
<1> QED BY <1>2, <1>4, <1>5 DEF PortInv, DetachedInv, ConvergedInv, ReadyInv, Owing

LEMMA ProcessNotificationKeeps ==
    ASSUME PortInv, ProcessNotification
    PROVE  PortInv'
<1>1. rx = "Deliver" /\ event.kind # "status" /\ Handled
      /\ (NotifyService(told) \/ UNCHANGED <<svc, told, svcLost>>)
      /\ UNCHANGED <<hw, owed, signals, irq, loopback, lost, armed, stream, psu, status, deadline,
                     synced, ops, faults>>
    BY DEF ProcessNotification, controller, channels, port, outputs, counters
<1>2. svc' \in 0 .. ServiceSize /\ told' = told /\ svcLost' \in BOOLEAN /\ (svcLost => svcLost')
  <2>1. TypeOK /\ told \in PortStatus
    BY DEF PortInv, TypeOK
  <2>2. CASE NotifyService(told)
    BY <2>1, <2>2, NotifyServiceFacts
  <2>3. CASE UNCHANGED <<svc, told, svcLost>>
    BY <2>1, <2>3 DEF TypeOK
  <2> QED BY <1>1, <2>2, <2>3
<1>3. rx' = "Top" /\ event' = None
    BY <1>1 DEF Handled
<1>4. TypeOK'
    BY <1>1, <1>2, <1>3 DEF PortInv, TypeOK
<1>5. EventBits = {}
    BY <1>1 DEF PortInv, ShapeInv, EventBits
<1>6. /\ ShapeInv' /\ EventBits' = {} /\ StreamBits' = StreamBits
      /\ PlugPending => "plug" \in EventBits \/ PlugPending'
      /\ \A i : ReadyBehind(i)' <=> ReadyBehind(i)
    BY <1>1, HandledFacts
<1>7. StatusPending => StatusPending'
    BY <1>1, <1>6 DEF StatusPending
<1>8. Current(hw) => Current(hw)'
    BY <1>1, <1>2 DEF Current
<1>9. DetachedInv' /\ ConvergedInv'
    BY <1>1, <1>5, <1>6, <1>7, <1>8 DEF PortInv, DetachedInv, ConvergedInv, Clean
<1>10. ReadyInv'
  <2>1. Owing' => Owing
    BY <1>1 DEF Owing, Clean
  <2> QED BY <1>1, <1>5, <1>6, <2>1 DEF PortInv, ReadyInv
<1> QED BY <1>4, <1>6, <1>9, <1>10 DEF PortInv

LEMMA ServiceTakesKeeps ==
    ASSUME PortInv, ServiceTakes
    PROVE  PortInv'
<1>1. svc > 0 /\ svc' = svc - 1
      /\ UNCHANGED <<hw, owed, signals, irq, loopback, lost, rx, armed, stream, event, psu, status,
                     deadline, told, svcLost, synced, ops, faults>>
    BY DEF ServiceTakes, controller, channels, receiver, port, counters
<1>2. svc' \in 0 .. ServiceSize
    BY <1>1, TypeCPortAssumption DEF PortInv, TypeOK
<1>3. TypeOK'
    BY <1>1, <1>2 DEF PortInv, TypeOK
<1>4. EventBits' = EventBits /\ StreamBits' = StreamBits
    BY <1>1 DEF EventBits, StreamBits
<1>5. ShapeInv'
    BY <1>1, <1>4 DEF PortInv, ShapeInv
<1>6. (PlugPending => PlugPending') /\ (StatusPending => StatusPending')
    BY <1>1, <1>4 DEF PlugPending, StatusPending
<1>7. DetachedInv' /\ ConvergedInv'
    BY <1>1, <1>6, PassedOn
<1>8. ReadyInv'
  <2>1. (Owing' => Owing) /\ \A i : ReadyBehind(i)' <=> ReadyBehind(i)
    BY <1>1 DEF Owing, Clean, ReadyBehind
  <2> QED BY <1>1, <1>4, <2>1 DEF PortInv, ReadyInv
<1> QED BY <1>3, <1>5, <1>7, <1>8 DEF PortInv

-----------------------------------------------------------------------------
(* Calls of other tasks.                                                    *)

LEMMA CallFacts ==
    ASSUME PortInv, NEW kind, Call(kind)
    PROVE  /\ UNCHANGED <<hw, owed, signals, irq, rx, armed, stream, event, svc, told, svcLost, faults>>
           /\ ops' \in 0 .. MaxOps
           /\ EventBits' = EventBits /\ StreamBits' = StreamBits
           /\ \A i : ReadyBehind(i)' <=> ReadyBehind(i)
<1>1. ops \in 0 .. MaxOps /\ ops < MaxOps /\ ops' = ops + 1
      /\ UNCHANGED <<hw, owed, signals, irq, rx, armed, stream, event, svc, told, svcLost, faults>>
    BY DEF Call, controller, receiver, outputs, PortInv, TypeOK
<1>2. ops' \in 0 .. MaxOps
    BY <1>1, TypeCPortAssumption
<1> QED BY <1>1, <1>2 DEF EventBits, StreamBits, ReadyBehind

\* The power policy connects and disconnects only a PSU that is attached, and
\* leaves its offer alone.
LEMMA PolicyCallKeeps ==
    ASSUME PortInv, PolicyCall
    PROVE  PortInv'
<1>1. Call("policy") /\ UNCHANGED <<status, deadline, loopback, lost, synced>>
    BY DEF PolicyCall
<1>2. /\ UNCHANGED <<hw, owed, signals, irq, rx, armed, stream, event, svc, told, svcLost, faults>>
      /\ ops' \in 0 .. MaxOps
      /\ EventBits' = EventBits /\ StreamBits' = StreamBits
      /\ \A i : ReadyBehind(i)' <=> ReadyBehind(i)
    BY <1>1, CallFacts
<1>3. psu' \in State /\ psu'.state # "Detached" /\ psu'.consumer = psu.consumer
  <2>1. psu \in State
    BY DEF PortInv, TypeOK
  <2>2. ASSUME NEW c \in ConsumerCaps, psu' = ConnectConsumer(psu, c)
        PROVE  psu' \in State /\ psu'.state # "Detached" /\ psu'.consumer = psu.consumer
    BY <2>1, <2>2 DEF ConnectConsumer, State, StateKind
  <2>3. ASSUME NEW c \in ProviderCaps, psu' = ConnectProvider(psu, c)
        PROVE  psu' \in State /\ psu'.state # "Detached" /\ psu'.consumer = psu.consumer
    BY <2>1, <2>3 DEF ConnectProvider, State, StateKind
  <2>4. ASSUME psu' = Disconnect(psu, FALSE)
        PROVE  psu' \in State /\ psu'.state # "Detached" /\ psu'.consumer = psu.consumer
    BY <2>1, <2>4 DEF Disconnect, State, StateKind
  <2> QED BY <2>2, <2>3, <2>4 DEF PolicyCall
<1>4. TypeOK'
    BY <1>1, <1>2, <1>3 DEF PortInv, TypeOK
<1>5. ShapeInv'
    BY <1>1, <1>2 DEF PortInv, ShapeInv
<1>6. DetachedInv'
    BY <1>3 DEF DetachedInv
<1>7. ConvergedInv'
  <2>1. StatusPending => StatusPending'
    BY <1>1, <1>2 DEF StatusPending
  <2> QED BY <1>1, <1>2, <2>1 DEF PortInv, ConvergedInv, Clean, Current
<1>8. ReadyInv'
  <2>1. Owing' => Owing
    BY <1>1, <1>2 DEF Owing, Clean
  <2> QED BY <1>1, <1>2, <1>3, <2>1 DEF PortInv, ReadyInv
<1> QED BY <1>4, <1>5, <1>6, <1>7, <1>8 DEF PortInv

LEMMA LoopFacts ==
    ASSUME TypeOK, NEW bits \in PortEventBitfield, Loop(bits)
    PROVE  /\ loopback' \in Seq(PortEventBitfield) /\ lost' \in BOOLEAN /\ (lost => lost')
           /\ \A i \in DOMAIN loopback : i \in DOMAIN loopback' /\ loopback'[i] = loopback[i]
           /\ \A i \in DOMAIN loopback' : i \in DOMAIN loopback \/ loopback'[i] = bits
<1>1. loopback \in Seq(PortEventBitfield) /\ lost \in BOOLEAN /\ LoopSize \in Nat
    BY TypeCPortAssumption DEF TypeOK
<1>2. lost' \in BOOLEAN /\ (lost => lost')
    BY <1>1 DEF Loop
<1>3. CASE Len(loopback) < LoopSize
  <2>1. loopback' = Append(loopback, bits)
    BY <1>3 DEF Loop
  <2> QED BY <1>1, <1>2, <2>1, AppendFacts
<1>4. CASE ~(Len(loopback) < LoopSize)
  <2>1. loopback' = loopback
    BY <1>4 DEF Loop
  <2> QED BY <1>1, <1>2, <2>1
<1> QED BY <1>3, <1>4

\* What a call adds to the loopback channel takes nothing from it.
LEMMA LoopedOn ==
    ASSUME PortInv, NEW kind, Call(kind), NEW bits \in PortEventBitfield, Loop(bits),
           Proper(bits.status), synced' \in BOOLEAN, synced => synced',
           ~synced' => bits = Invalidated,
           UNCHANGED status
    PROVE  /\ loopback' \in Seq(PortEventBitfield) /\ lost' \in BOOLEAN /\ (lost => lost')
           /\ ShapeInv' /\ ConvergedInv'
           /\ PlugPending => PlugPending'
<1>1. /\ UNCHANGED <<hw, owed, signals, irq, rx, armed, stream, event, svc, told, svcLost, faults>>
      /\ EventBits' = EventBits /\ StreamBits' = StreamBits
    BY CallFacts
<1>2. /\ loopback' \in Seq(PortEventBitfield) /\ lost' \in BOOLEAN /\ (lost => lost')
      /\ \A i \in DOMAIN loopback : i \in DOMAIN loopback' /\ loopback'[i] = loopback[i]
      /\ \A i \in DOMAIN loopback' : i \in DOMAIN loopback \/ loopback'[i] = bits
    BY LoopFacts DEF PortInv
<1>3. /\ \A i \in DOMAIN loopback' : Proper(loopback'[i].status)
      /\ ~synced' => \A i \in DOMAIN loopback' : loopback'[i] = Invalidated
    BY <1>2 DEF PortInv, ShapeInv
<1>4. ShapeInv'
    BY <1>1, <1>3 DEF PortInv, ShapeInv
<1>5. (PlugPending => PlugPending') /\ (StatusPending => StatusPending')
    BY <1>1, <1>2 DEF PlugPending, StatusPending
<1>6. ConvergedInv'
    BY <1>1, <1>2, <1>5 DEF PortInv, ConvergedInv, Clean, Current
<1> QED BY <1>2, <1>4, <1>5, <1>6

LEMMA SetMaxSinkVoltageKeeps ==
    ASSUME PortInv, SetMaxSinkVoltage
    PROVE  PortInv'
<1>1. Call("voltage") /\ deadline' = TRUE /\ Loop(Invalidated) /\ psu' = Disconnect(psu, TRUE)
      /\ UNCHANGED <<status, synced>>
    BY DEF SetMaxSinkVoltage
<1>2. /\ UNCHANGED <<hw, owed, signals, irq, rx, armed, stream, event, svc, told, svcLost, faults>>
      /\ ops' \in 0 .. MaxOps
      /\ EventBits' = EventBits /\ StreamBits' = StreamBits
      /\ \A i : ReadyBehind(i)' <=> ReadyBehind(i)
    BY <1>1, CallFacts
<1>3. psu' \in State /\ psu'.state # "Detached"
    BY <1>1 DEF PortInv, TypeOK, Disconnect, State, StateKind
<1>4. /\ loopback' \in Seq(PortEventBitfield) /\ lost' \in BOOLEAN /\ (lost => lost')
      /\ ShapeInv' /\ ConvergedInv'
  <2>1. Invalidated \in PortEventBitfield /\ Proper(Invalidated.status)
    BY BitsType DEF Proper, Disturbs
  <2>2. synced' \in BOOLEAN
    BY <1>1 DEF PortInv, TypeOK
  <2> QED BY <1>1, <2>1, <2>2, LoopedOn
<1>5. TypeOK'
    BY <1>1, <1>2, <1>3, <1>4 DEF PortInv, TypeOK
<1>6. DetachedInv'
    BY <1>3 DEF DetachedInv
<1>7. ReadyInv'
  <2>1. Owing' => Owing
    BY <1>1, <1>2, <1>4 DEF Owing, Clean
  <2> QED BY <1>1, <1>2, <2>1 DEF PortInv, ReadyInv
<1> QED BY <1>4, <1>5, <1>6, <1>7 DEF PortInv

LEMMA SyncStateKeeps ==
    ASSUME PortInv, SyncState
    PROVE  PortInv'
<1>1. PICK s \in SUBSET {"plug", "new_consumer", "new_provider"} :
          Call("sync") /\ Loop(Bits(s, {})) /\ synced' = TRUE /\ UNCHANGED <<psu, status, deadline>>
    BY DEF SyncState, port
<1>2. /\ UNCHANGED <<hw, owed, signals, irq, rx, armed, stream, event, svc, told, svcLost, faults>>
      /\ ops' \in 0 .. MaxOps
    BY <1>1, CallFacts
<1>3. Bits(s, {}) \in PortEventBitfield /\ Bits(s, {}).status = s /\ Proper(s)
  <2>1. s \in SUBSET StatusBits /\ {} \in SUBSET NoteBits
    BY DEF StatusBits
  <2> QED BY <2>1, BitsType DEF Proper
<1>4. /\ loopback' \in Seq(PortEventBitfield) /\ lost' \in BOOLEAN /\ (lost => lost')
      /\ ShapeInv' /\ ConvergedInv' /\ (PlugPending => PlugPending')
    BY <1>1, <1>3, LoopedOn
<1>5. TypeOK'
    BY <1>1, <1>2, <1>4 DEF PortInv, TypeOK
<1>6. DetachedInv'
    BY <1>1, <1>2, <1>4 DEF PortInv, DetachedInv, Clean, Current
<1>7. ReadyInv'
    BY <1>1 DEF ReadyInv, Owing
<1> QED BY <1>4, <1>5, <1>6, <1>7 DEF PortInv

-----------------------------------------------------------------------------
(* The theorems.                                                            *)

LEMMA PortStep == PortInv /\ [Next]_vars => PortInv'
<1> SUFFICES ASSUME PortInv, [Next]_vars PROVE PortInv'
    OBVIOUS
<1>1. CASE Next
  <2>1. CASE Receiver
    BY <2>1, StreamNextKeeps, ReadDeadlineKeeps, TakeInterruptKeeps, DeadlineElapsedKeeps,
       TakeLoopbackKeeps DEF Receiver
  <2>2. CASE Process
    BY <2>2, ProcessStatusChangedKeeps, ReadFailedKeeps, ProcessNotificationKeeps DEF Process
  <2> QED BY <1>1, <2>1, <2>2, ControllerKeeps, ServiceTakesKeeps, PolicyCallKeeps,
             SetMaxSinkVoltageKeeps, SyncStateKeeps DEF Next
<1>2. CASE UNCHANGED vars
  <2>1. UNCHANGED <<hw, owed, signals, irq, loopback, lost, rx, armed, stream, event, psu, status,
                    deadline, svc, told, svcLost, synced, ops, faults>>
    BY <1>2 DEF vars, controller, channels, receiver, port, outputs, counters
  <2>2. EventBits' = EventBits /\ StreamBits' = StreamBits /\ (Clean' <=> Clean)
        /\ (Current(hw)' <=> Current(hw)) /\ \A i : ReadyBehind(i)' <=> ReadyBehind(i)
    BY <2>1 DEF EventBits, StreamBits, Clean, Current, ReadyBehind
  <2>3. TypeOK' /\ ShapeInv'
    BY <2>1, <2>2 DEF PortInv, TypeOK, ShapeInv
  <2>4. (PlugPending => PlugPending') /\ (StatusPending => StatusPending')
    BY <2>1, <2>2 DEF PlugPending, StatusPending
  <2>5. DetachedInv' /\ ConvergedInv'
    BY <2>1, <2>4, PassedOn
  <2>6. ReadyInv'
    BY <2>1, <2>2 DEF PortInv, ReadyInv, Owing
  <2> QED BY <2>3, <2>5, <2>6 DEF PortInv
<1> QED BY <1>1, <1>2

\* Once the port has dealt with every interrupt, loopback event and deadline,
\* and nothing was dropped and no read failed, its cached status is the PD
\* controller's, and so is the last status that Port::process_event sent to
\* the Type-C service, unless that channel was full.
THEOREM StatusConvergedHolds == Spec => []StatusConverged
BY PortInit, PortStep, PortInvImplies, PTL DEF Spec

\* Every sink contract of a controller that signals sink_ready is then offered
\* to the power policy as the configuration says: a plug, reset or swap that
\* process_port_status_changed still has to handle cannot take back an offer,
\* because the sink_ready of the current contract is always behind it.
THEOREM ContractOfferedHolds == Spec => []ContractOffered
BY PortInit, PortStep, PortInvImplies, PTL DEF Spec

-----------------------------------------------------------------------------
(* The unconstrained flags of the ports.                                    *)

\* Finitely many sources; None is no source and no capability.
FlagParams ==
    /\ NumPorts \in Nat /\ IsFiniteSet(Barrels) /\ QueueSize \in Nat
    /\ Capabilities \subseteq [power : Int, unconstrained : BOOLEAN]
    /\ None \notin Flags!Sources \cup Capabilities

\* What the policy knows once it has read every source.
Known == ~unread /\ current # None => current.cap = offer[current.psu]

\* With every change handled, the policy's state is that of the sources.
Counted ==
    ~unread /\ policy = "Wait" => unconstrained =
        [unconstrained |-> current # None /\ current.cap.unconstrained,
         available |-> Cardinality(Flags!Supplies)]

\* The event sent or taken last carries the policy's state.
Latest == ~dropped => (IF queue = << >> THEN published ELSE queue[Len(queue)]) = unconstrained

\* A steady state was published with the statuses right.
SteadyTrue == steady => Flags!StatusTrue

Alone == published.unconstrained /\ published.available <= 1

\* How far the two loops of the handler have come.
Progress ==
    /\ pc = "Find" => Alone /\ sole = None
    /\ pc # "Find" => Alone \/ sole = None
    /\ pc = "Set" => \A p \in 1 .. idx - 1 : flag[p] = Flags!FlagOf(p)
    /\ pc = "Wait" /\ ~failed => \A p \in Flags!Ports : flag[p] = Flags!FlagOf(p)

\* unconstrained_port is the port that the loop looks for.
SoleRight ==
    /\ sole = None => \A p \in Flags!Ports : ~cached[p]
    /\ sole # None => cached[sole]

\* The service works on the last event and nothing has changed since: what it has
\* read is still so.
Search ==
    queue = << >> /\ ~dropped /\ steady =>
        /\ pc = "Find" => \A p \in 1 .. idx - 1 : ~cached[p]
        /\ pc # "Find" /\ Alone => SoleRight

FlagsInv == Flags!TypeOK /\ Known /\ Counted /\ Latest /\ SteadyTrue /\ Progress /\ Search

LEMMA FlagsCardinality == \A S : Flags!Cardinality(S) = Cardinality(S)
    BY Zenon DEF Flags!Cardinality, Cardinality

LEMMA SourcesFinite ==
    ASSUME FlagParams
    PROVE  /\ IsFiniteSet(Flags!Sources) /\ Cardinality(Flags!Sources) \in Nat
           /\ IsFiniteSet(Flags!Supplies)
           /\ Cardinality(Flags!Supplies) \in 0 .. Cardinality(Flags!Sources)
<1>1. IsFiniteSet(Flags!Ports)
  <2>1. 1 \in Int /\ NumPorts \in Int
    BY DEF FlagParams
  <2>2. IsFiniteSet(1 .. NumPorts)
    BY <2>1, FS_Interval, Zenon
  <2> QED BY <2>2 DEF Flags!Ports
<1>2. IsFiniteSet(Flags!Sources)
    BY <1>1, FS_Union DEF FlagParams, Flags!Sources
<1>3. Flags!Supplies \subseteq Flags!Sources
    BY DEF Flags!Supplies
<1>4. IsFiniteSet(Flags!Supplies) /\ Cardinality(Flags!Supplies) <= Cardinality(Flags!Sources)
    BY <1>2, <1>3, FS_Subset, Zenon
<1>5. Cardinality(Flags!Supplies) \in Nat /\ Cardinality(Flags!Sources) \in Nat
    BY <1>2, <1>4, FS_CardinalityType
<1> QED BY <1>2, <1>4, <1>5

\* One supply at most is one.
LEMMA AtMostOne ==
    ASSUME FlagParams, Cardinality(Flags!Supplies) = 1,
           NEW s \in Flags!Supplies, NEW t \in Flags!Supplies
    PROVE  s = t
<1> SUFFICES ASSUME s # t PROVE FALSE
    OBVIOUS
<1>1. IsFiniteSet(Flags!Supplies)
    BY SourcesFinite
<1>2. IsFiniteSet(Flags!Supplies \ {s}) /\ Cardinality(Flags!Supplies \ {s}) = Cardinality(Flags!Supplies) - 1
    BY <1>1, FS_RemoveElement
<1>3. Cardinality(Flags!Supplies \ {s}) = 0
    BY <1>2
<1>4. Flags!Supplies \ {s} = {}
    BY <1>2, <1>3, FS_EmptySet
<1> QED BY <1>4

\* The conjuncts of the type invariant, one by one.
LEMMA FlagTypes ==
    ASSUME FlagParams, Flags!TypeOK
    PROVE  /\ offer \in [Flags!Sources -> Capabilities \cup {None}]
           /\ cached \in [Flags!Ports -> BOOLEAN] /\ flag \in [Flags!Ports -> BOOLEAN]
           /\ Flags!Ports = 1 .. NumPorts /\ NumPorts \in Nat
           /\ Flags!Ports \subseteq Flags!Sources /\ None \notin Flags!Ports
           /\ idx \in 1 .. NumPorts + 1
    BY DEF FlagParams, Flags!TypeOK, Flags!Ports, Flags!Sources

LEMMA FlagsInit == FlagParams /\ Flags!Init => FlagsInv
<1> SUFFICES ASSUME FlagParams, Flags!Init PROVE FlagsInv
    OBVIOUS
<1> USE DEF FlagParams
<1>1. /\ offer = [s \in Flags!Sources |-> None] /\ cached = [p \in Flags!Ports |-> FALSE]
      /\ policy = "Wait" /\ current = None
      /\ unconstrained = [unconstrained |-> FALSE, available |-> 0] /\ published = unconstrained
      /\ queue = << >> /\ pc = "Wait" /\ idx = 1 /\ sole = None
      /\ flag = [p \in Flags!Ports |-> FALSE]
    BY DEF Flags!Init, Flags!Constrained
<1>2. unread = FALSE /\ dropped = FALSE /\ failed = FALSE /\ steady = TRUE
    BY DEF Flags!Init
<1>3. Flags!Supplies = {}
    BY <1>1 DEF Flags!Supplies, Flags!IsUnconstrained
<1>4. Cardinality(Flags!Supplies) = 0
    BY <1>3, FS_EmptySet
<1>5. Flags!TypeOK
  <2>1. unconstrained \in Flags!UnconstrainedState
    BY <1>1, SourcesFinite, FlagsCardinality DEF Flags!UnconstrainedState
  <2>2. /\ unread \in BOOLEAN /\ dropped \in BOOLEAN /\ failed \in BOOLEAN /\ steady \in BOOLEAN
        /\ flag \in [Flags!Ports -> BOOLEAN] /\ cached \in [Flags!Ports -> BOOLEAN]
    BY <1>1, <1>2, Zenon
  <2>3. offer \in [Flags!Sources -> Capabilities \cup {None}]
    BY <1>1
  <2>4. idx \in 1 .. NumPorts + 1
    BY <1>1
  <2>5. queue \in Seq(Flags!UnconstrainedState) /\ published \in Flags!UnconstrainedState
    BY <1>1, <2>1
  <2>6. /\ policy \in {"Wait", "Count"}
        /\ current \in [psu : Flags!Sources, cap : Capabilities] \cup {None}
        /\ pc \in {"Wait", "Find", "Set"} /\ sole \in Flags!Ports \cup {None}
    BY <1>1
  <2> QED BY <2>1, <2>2, <2>3, <2>4, <2>5, <2>6 DEF Flags!TypeOK
<1>6. Known /\ Latest
    BY <1>1 DEF Known, Latest
<1>7. Counted
    BY <1>1, <1>4 DEF Counted
<1>8. SteadyTrue
  <2>1. \A p \in Flags!Ports : cached[p] <=> Flags!IsUnconstrained(offer[p])
    BY <1>1 DEF Flags!IsUnconstrained, Flags!Sources
  <2> QED BY <2>1 DEF SteadyTrue, Flags!StatusTrue
<1>9. Progress
    BY <1>1 DEF Progress, Flags!FlagOf
<1>10. Search
    BY <1>1 DEF Search, Alone
<1> QED BY <1>5, <1>6, <1>7, <1>8, <1>9, <1>10 DEF FlagsInv

\* A source that changes leaves the policy with something to read, and keeps the
\* state steady only if nobody is unconstrained that was not, and reports it.
LEMMA OffersKeeps ==
    ASSUME FlagParams, FlagsInv, NEW s \in Flags!Sources, NEW cap \in Capabilities \cup {None},
           cached' \in [Flags!Ports -> BOOLEAN], Flags!Offers(s, cap)
    PROVE  FlagsInv'
<1>1. /\ offer' = [offer EXCEPT ![s] = cap] /\ unread' = (unread \/ cap # offer[s])
      /\ steady' = (steady /\ cached' = cached /\ Flags!Supplies' = Flags!Supplies)
      /\ UNCHANGED <<policy, current, unconstrained, queue, pc, idx, sole, published, flag, dropped, failed>>
    BY DEF Flags!Offers, Flags!selection, Flags!service
<1>2. Flags!TypeOK
    BY DEF FlagsInv
<1>3. offer \in [Flags!Sources -> Capabilities \cup {None}]
    BY <1>2, FlagTypes
<1>4. offer' \in [Flags!Sources -> Capabilities \cup {None}]
    BY <1>1, <1>3
<1>5. Flags!TypeOK'
  <2>1. unread' \in BOOLEAN /\ steady' \in BOOLEAN
    BY <1>1, <1>2, Zenon DEF Flags!TypeOK
  <2> QED BY <1>1, <1>2, <1>4, <2>1 DEF Flags!TypeOK
<1>6. ~unread' => ~unread /\ offer' = offer
  <2> SUFFICES ASSUME ~unread' PROVE ~unread /\ offer' = offer
    OBVIOUS
  <2>1. ~unread /\ cap = offer[s]
    BY <1>1, Zenon
  <2> QED BY <1>1, <1>3, <2>1
<1>7. Known'
    BY <1>1, <1>6 DEF FlagsInv, Known
<1>8. Counted'
  <2> SUFFICES ASSUME ~unread' /\ policy' = "Wait"
               PROVE  unconstrained' = [unconstrained |-> current' # None /\ current'.cap.unconstrained,
                                        available |-> Cardinality(Flags!Supplies')]
    BY DEF Counted
  <2>1. Flags!Supplies' = Flags!Supplies
    BY <1>6 DEF Flags!Supplies
  <2>2. ~unread /\ policy = "Wait"
    BY <1>1, <1>6
  <2>3. unconstrained = [unconstrained |-> current # None /\ current.cap.unconstrained,
                         available |-> Cardinality(Flags!Supplies)]
    BY <2>2 DEF FlagsInv, Counted
  <2> QED BY <1>1, <2>1, <2>3
<1>9. Latest'
    BY <1>1 DEF FlagsInv, Latest
<1>10. steady' => steady /\ cached' = cached /\ Flags!Supplies' = Flags!Supplies
    BY <1>1, Zenon
<1>11. SteadyTrue'
  <2> SUFFICES ASSUME steady', NEW p \in Flags!Ports
               PROVE  cached'[p] <=> Flags!IsUnconstrained(offer'[p])
    BY DEF SteadyTrue, Flags!StatusTrue
  <2>1. p \in Flags!Sources
    BY <1>2, FlagTypes
  <2>2. cached[p] <=> Flags!IsUnconstrained(offer[p])
    BY <1>10 DEF FlagsInv, SteadyTrue, Flags!StatusTrue
  <2>3. /\ Flags!IsUnconstrained(offer[p]) <=> p \in Flags!Supplies
        /\ Flags!IsUnconstrained(offer'[p]) <=> p \in Flags!Supplies'
    BY <2>1 DEF Flags!Supplies
  <2>4. cached' = cached /\ Flags!Supplies' = Flags!Supplies
    BY <1>10
  <2> QED BY <2>2, <2>3, <2>4, Zenon
<1>12. (Alone' <=> Alone) /\ (\A p : Flags!FlagOf(p)' = Flags!FlagOf(p))
    BY <1>1 DEF Alone, Flags!FlagOf
<1>13. Progress'
    BY <1>1, <1>12 DEF FlagsInv, Progress, Flags!FlagOf
<1>14. Search'
    BY <1>1, <1>10, <1>12 DEF FlagsInv, Search, SoleRight
<1> QED BY <1>5, <1>7, <1>8, <1>9, <1>11, <1>13, <1>14 DEF FlagsInv

LEMMA BarrelChangesKeeps ==
    ASSUME FlagParams, FlagsInv, NEW b \in Barrels, NEW cap \in Capabilities \cup {None},
           Flags!BarrelChanges(b, cap)
    PROVE  FlagsInv'
<1>1. b \in Flags!Sources /\ Flags!Offers(b, cap) /\ cached' = cached
    BY DEF Flags!BarrelChanges, Flags!Sources
<1>2. cached' \in [Flags!Ports -> BOOLEAN]
    BY <1>1, FlagTypes DEF FlagsInv
<1> QED BY <1>1, <1>2, OffersKeeps

LEMMA PortChangesKeeps ==
    ASSUME FlagParams, FlagsInv, NEW p \in Flags!Ports, NEW contract \in Capabilities \cup {None},
           Flags!PortChanges(p, contract)
    PROVE  FlagsInv'
<1>1. PICK cap \in {offer[p], contract, None}, reported \in {cached[p], Flags!IsUnconstrained(contract)} :
          cached' = [cached EXCEPT ![p] = reported] /\ Flags!Offers(p, cap)
    BY DEF Flags!PortChanges
<1>2. /\ offer \in [Flags!Sources -> Capabilities \cup {None}] /\ p \in Flags!Sources
      /\ cached \in [Flags!Ports -> BOOLEAN]
    BY FlagTypes DEF FlagsInv
<1>3. cap \in Capabilities \cup {None}
    BY <1>2
<1>4. Flags!IsUnconstrained(contract) \in BOOLEAN
    BY DEF Flags!IsUnconstrained, FlagParams
<1>5. reported \in BOOLEAN
    BY <1>2, <1>4
<1>6. cached' \in [Flags!Ports -> BOOLEAN]
    BY <1>1, <1>2, <1>5
<1> QED BY <1>1, <1>2, <1>3, <1>6, OffersKeeps

LEMMA UpdateCurrentKeeps ==
    ASSUME FlagParams, FlagsInv, Flags!UpdateCurrentConsumer
    PROVE  FlagsInv'
<1>1. /\ policy' = "Count" /\ unread' = FALSE
      /\ \/ current' = None
         \/ \E s \in Flags!Best : current' = [psu |-> s, cap |-> offer[s]]
      /\ UNCHANGED <<offer, cached, unconstrained, queue, pc, idx, sole, published, flag, dropped, failed, steady>>
  <2>1. (IF current # None /\ current.psu \in Flags!Best THEN {current.psu} ELSE Flags!Best) \subseteq Flags!Best
    OBVIOUS
  <2> QED BY <2>1 DEF Flags!UpdateCurrentConsumer, Flags!service
<1>2. Flags!TypeOK
    BY DEF FlagsInv
<1>3. offer \in [Flags!Sources -> Capabilities \cup {None}]
    BY <1>2, FlagTypes
<1>4. /\ current' \in [psu : Flags!Sources, cap : Capabilities] \cup {None}
      /\ current' # None => current'.cap = offer[current'.psu]
  <2>1. CASE current' = None
    BY <2>1
  <2>2. ASSUME NEW s \in Flags!Best, current' = [psu |-> s, cap |-> offer[s]]
        PROVE  /\ current' \in [psu : Flags!Sources, cap : Capabilities]
               /\ current'.cap = offer[current'.psu]
    <3>1. s \in Flags!Sources /\ offer[s] # None
      BY DEF Flags!Best, Flags!Acceptable
    <3>2. offer[s] \in Capabilities
      BY <1>3, <3>1
    <3> QED BY <2>2, <3>1, <3>2
  <2> QED BY <1>1, <2>1, <2>2
<1>5. Flags!TypeOK'
  <2>1. unread' \in BOOLEAN
    BY <1>1, Zenon
  <2> QED BY <1>1, <1>2, <1>4, <2>1 DEF Flags!TypeOK
<1>6. Known' /\ Counted' /\ Latest'
    BY <1>1, <1>4 DEF FlagsInv, Known, Counted, Latest
<1>7. SteadyTrue'
    BY <1>1 DEF FlagsInv, SteadyTrue, Flags!StatusTrue
<1>8. Progress' /\ Search'
    BY <1>1 DEF FlagsInv, Progress, Search, SoleRight, Alone, Flags!FlagOf
<1> QED BY <1>5, <1>6, <1>7, <1>8 DEF FlagsInv

LEMMA UpdateUnconstrainedKeeps ==
    ASSUME FlagParams, FlagsInv, Flags!UpdateUnconstrainedState
    PROVE  FlagsInv'
<1> USE DEF FlagParams
<1>1. /\ policy' = "Wait"
      /\ unconstrained' = [unconstrained |-> current # None /\ current.cap.unconstrained,
                           available |-> Cardinality(Flags!Supplies)]
      /\ \/ unconstrained' = unconstrained /\ UNCHANGED <<queue, dropped, steady>>
         \/ /\ queue' = Append(queue, unconstrained') /\ UNCHANGED dropped
            /\ steady' = Flags!StatusTrue
         \/ dropped' = TRUE /\ UNCHANGED queue /\ steady' = Flags!StatusTrue
      /\ UNCHANGED <<offer, cached, unread, current, pc, idx, sole, published, flag, failed>>
  <2>1. Flags!Cardinality(Flags!Supplies) = Cardinality(Flags!Supplies)
    BY FlagsCardinality
  <2> QED BY <2>1 DEF Flags!UpdateUnconstrainedState, Flags!service, Flags!sources
<1>2. Flags!Supplies' = Flags!Supplies /\ (Flags!StatusTrue' <=> Flags!StatusTrue)
    BY <1>1 DEF Flags!Supplies, Flags!StatusTrue
<1>3. Flags!TypeOK
    BY DEF FlagsInv
<1>4. unconstrained' \in Flags!UnconstrainedState
  <2>1. (current # None /\ current.cap.unconstrained) \in BOOLEAN
    BY <1>3 DEF Flags!TypeOK, FlagParams
  <2>2. Cardinality(Flags!Supplies) \in 0 .. Flags!Cardinality(Flags!Sources)
    BY SourcesFinite, FlagsCardinality
  <2> QED BY <1>1, <2>1, <2>2 DEF Flags!UnconstrainedState
<1>5. queue \in Seq(Flags!UnconstrainedState) /\ queue' \in Seq(Flags!UnconstrainedState)
  <2>1. queue \in Seq(Flags!UnconstrainedState)
    BY <1>3 DEF Flags!TypeOK
  <2>2. queue' = queue \/ queue' = Append(queue, unconstrained')
    BY <1>1
  <2> HIDE DEF FlagParams
  <2> QED BY <1>4, <2>1, <2>2
<1>6. Flags!TypeOK'
  <2>1. Flags!StatusTrue \in BOOLEAN
    BY DEF Flags!StatusTrue
  <2>2. dropped \in BOOLEAN /\ steady \in BOOLEAN
    BY <1>3 DEF Flags!TypeOK
  <2>3. dropped' \in BOOLEAN /\ steady' \in BOOLEAN
    <3>1. (dropped' = dropped \/ dropped' = TRUE) /\ (steady' = steady \/ steady' = Flags!StatusTrue)
      BY <1>1
    <3> QED BY <2>1, <2>2, <3>1, Zenon
  <2> QED BY <1>1, <1>3, <1>4, <1>5, <2>3 DEF Flags!TypeOK
<1>7. Known' /\ Counted'
    BY <1>1, <1>2 DEF FlagsInv, Known, Counted
<1>8. SteadyTrue'
  <2>1. steady' => steady \/ Flags!StatusTrue
    BY <1>1
  <2> QED BY <1>2, <2>1 DEF FlagsInv, SteadyTrue
<1>9. Progress'
    BY <1>1 DEF FlagsInv, Progress, Alone, Flags!FlagOf
<1>10. Latest' /\ Search'
  <2>1. CASE unconstrained' = unconstrained /\ UNCHANGED <<queue, dropped, steady>>
    BY <1>1, <2>1 DEF FlagsInv, Latest, Search, SoleRight, Alone
  <2>2. CASE queue' = Append(queue, unconstrained')
    <3>1. queue' # << >> /\ queue'[Len(queue')] = unconstrained'
      BY <1>4, <1>5, <2>2, AppendFacts
    <3> QED BY <3>1 DEF Latest, Search
  <2>3. CASE dropped' = TRUE
    BY <2>3 DEF Latest, Search
  <2> QED BY <1>1, <2>1, <2>2, <2>3
<1> QED BY <1>6, <1>7, <1>8, <1>9, <1>10 DEF FlagsInv

LEMMA TakeEventKeeps ==
    ASSUME FlagParams, FlagsInv, Flags!TakeEvent
    PROVE  FlagsInv'
<1>1. /\ queue # << >> /\ published' = Head(queue) /\ queue' = Tail(queue) /\ idx' = 1 /\ sole' = None
      /\ pc' = (IF published'.unconstrained /\ published'.available <= 1 THEN "Find" ELSE "Set")
      /\ UNCHANGED <<offer, cached, unread, policy, current, unconstrained, flag, dropped, failed, steady>>
    BY DEF Flags!TakeEvent, Flags!sources, Flags!selection
<1>2. queue \in Seq(Flags!UnconstrainedState)
    BY DEF FlagsInv, Flags!TypeOK
<1>3. /\ published' \in Flags!UnconstrainedState /\ queue' \in Seq(Flags!UnconstrainedState)
      /\ published' = queue[1] /\ Len(queue) \in Nat \ {0} /\ Len(queue') = Len(queue) - 1
      /\ \A i \in 1 .. Len(queue) - 1 : queue'[i] = queue[i + 1]
    BY <1>1, <1>2, TailFacts
<1>4. Flags!TypeOK'
    BY <1>1, <1>3 DEF FlagsInv, Flags!TypeOK, FlagParams
<1>5. Flags!Supplies' = Flags!Supplies /\ (Flags!StatusTrue' <=> Flags!StatusTrue)
    BY <1>1 DEF Flags!Supplies, Flags!StatusTrue
<1>6. Known' /\ Counted' /\ SteadyTrue'
    BY <1>1, <1>5 DEF FlagsInv, Known, Counted, SteadyTrue
<1>7. Latest'
  <2> SUFFICES ASSUME ~dropped
               PROVE  (IF queue' = << >> THEN published' ELSE queue'[Len(queue')]) = unconstrained
    BY <1>1 DEF Latest
  <2>1. queue[Len(queue)] = unconstrained
    BY <1>1 DEF FlagsInv, Latest
  <2>2. CASE queue' = << >>
    <3>1. Len(queue') = 0
      BY <2>2
    <3>2. Len(queue) = 1
      BY <1>3, <3>1
    <3> QED BY <1>3, <2>1, <2>2, <3>2
  <2>3. CASE queue' # << >>
    <3>1. Len(queue') \in Nat \ {0}
      BY <1>3, <2>3, TailFacts
    <3>2. Len(queue') \in 1 .. Len(queue) - 1 /\ Len(queue') + 1 = Len(queue)
      BY <1>3, <3>1
    <3>3. queue'[Len(queue')] = queue[Len(queue)]
      BY <1>3, <3>2
    <3> QED BY <2>1, <2>3, <3>3
  <2> QED BY <2>2, <2>3
<1>8. Progress' /\ Search'
    BY <1>1 DEF Progress, Search, Alone
<1> QED BY <1>4, <1>6, <1>7, <1>8 DEF FlagsInv

LEMMA FindPortKeeps ==
    ASSUME FlagParams, FlagsInv, Flags!FindPort
    PROVE  FlagsInv'
<1>1. /\ pc = "Find"
      /\ UNCHANGED <<offer, cached, unread, policy, current, unconstrained, queue, published, flag, dropped,
                     failed, steady>>
      /\ \/ idx \in Flags!Ports /\ ~cached[idx] /\ idx' = idx + 1 /\ UNCHANGED <<pc, sole>>
         \/ /\ ~(idx \in Flags!Ports /\ ~cached[idx])
            /\ sole' = (IF idx \in Flags!Ports THEN idx ELSE None) /\ idx' = 1 /\ pc' = "Set"
    BY DEF Flags!FindPort, Flags!sources, Flags!selection
<1>2. /\ NumPorts \in Nat /\ Flags!Ports = 1 .. NumPorts /\ idx \in 1 .. NumPorts + 1
      /\ None \notin Flags!Ports
    BY FlagTypes DEF FlagsInv
<1>3. Flags!TypeOK'
    BY <1>1, <1>2 DEF FlagsInv, Flags!TypeOK
<1>4. Flags!Supplies' = Flags!Supplies /\ (Flags!StatusTrue' <=> Flags!StatusTrue)
    BY <1>1 DEF Flags!Supplies, Flags!StatusTrue
<1>5. Known' /\ Counted' /\ Latest' /\ SteadyTrue'
    BY <1>1, <1>4 DEF FlagsInv, Known, Counted, Latest, SteadyTrue
<1>6. Alone' /\ Alone /\ sole = None
    BY <1>1 DEF FlagsInv, Progress, Alone
<1>7. Progress'
  <2>1. CASE idx' = idx + 1 /\ pc' = pc /\ sole' = sole
    BY <1>1, <1>6, <2>1 DEF Progress
  <2>2. CASE pc' = "Set" /\ idx' = 1
    BY <1>6, <2>2 DEF Progress
  <2> QED BY <1>1, <2>1, <2>2
<1>8. Search'
  <2> SUFFICES ASSUME queue = << >> /\ ~dropped /\ steady
               PROVE  /\ pc' = "Find" => \A p \in 1 .. idx' - 1 : ~cached[p]
                      /\ pc' # "Find" => SoleRight'
    BY <1>1 DEF Search
  <2>1. \A p \in 1 .. idx - 1 : ~cached[p]
    BY <1>1 DEF FlagsInv, Search
  <2>2. CASE idx \in Flags!Ports /\ ~cached[idx] /\ idx' = idx + 1 /\ pc' = pc
    <3>1. ASSUME NEW p \in 1 .. idx' - 1 PROVE ~cached[p]
      <4>1. p = idx \/ p \in 1 .. idx - 1
        BY <1>2, <2>2
      <4> QED BY <2>1, <2>2, <4>1
    <3> QED BY <1>1, <2>2, <3>1
  <2>3. CASE /\ ~(idx \in Flags!Ports /\ ~cached[idx]) /\ pc' = "Set"
             /\ sole' = IF idx \in Flags!Ports THEN idx ELSE None
    <3>1. CASE idx \in Flags!Ports
      BY <1>1, <1>2, <2>3, <3>1 DEF SoleRight
    <3>2. CASE idx \notin Flags!Ports
      <4>1. idx = NumPorts + 1 /\ sole' = None
        BY <1>2, <2>3, <3>2
      <4>2. \A p \in Flags!Ports : ~cached[p]
        BY <1>2, <2>1, <4>1
      <4> QED BY <1>1, <2>3, <4>1, <4>2 DEF SoleRight
    <3> QED BY <3>1, <3>2, <2>3
  <2> QED BY <1>1, <2>2, <2>3
<1> QED BY <1>3, <1>5, <1>7, <1>8 DEF FlagsInv

LEMMA SetPortKeeps ==
    ASSUME FlagParams, FlagsInv, Flags!SetPort
    PROVE  FlagsInv'
<1>1. /\ pc = "Set"
      /\ UNCHANGED <<offer, cached, unread, policy, current, unconstrained, queue, sole, published, dropped, steady>>
      /\ \/ /\ idx \in Flags!Ports /\ flag' = [flag EXCEPT ![idx] = Flags!FlagOf(idx)] /\ idx' = idx + 1
            /\ UNCHANGED <<pc, failed>>
         \/ failed' = TRUE /\ pc' = "Wait" /\ UNCHANGED <<flag, idx>>
         \/ idx \notin Flags!Ports /\ pc' = "Wait" /\ UNCHANGED <<flag, idx, failed>>
    BY DEF Flags!SetPort, Flags!sources, Flags!selection
<1>2. /\ NumPorts \in Nat /\ Flags!Ports = 1 .. NumPorts /\ idx \in 1 .. NumPorts + 1
      /\ flag \in [Flags!Ports -> BOOLEAN]
    BY FlagTypes DEF FlagsInv
<1>3. \A p : Flags!FlagOf(p) \in BOOLEAN
  <2>1. published \in Flags!UnconstrainedState
    BY DEF FlagsInv, Flags!TypeOK
  <2> QED BY <2>1 DEF Flags!FlagOf, Flags!UnconstrainedState
<1>4. Flags!TypeOK'
  <2>1. flag' \in [Flags!Ports -> BOOLEAN]
    BY <1>1, <1>2, <1>3
  <2>2. failed \in BOOLEAN /\ Flags!TypeOK
    BY DEF FlagsInv, Flags!TypeOK
  <2>3. failed' \in BOOLEAN
    <3>1. failed' = failed \/ failed' = TRUE
      BY <1>1
    <3> QED BY <2>2, <3>1, Zenon
  <2>4. pc' \in {"Wait", "Find", "Set"}
    BY <1>1
  <2>5. idx' \in 1 .. NumPorts + 1
    BY <1>1, <1>2
  <2> QED BY <1>1, <2>1, <2>2, <2>3, <2>4, <2>5 DEF Flags!TypeOK
<1>5. Flags!Supplies' = Flags!Supplies /\ (Flags!StatusTrue' <=> Flags!StatusTrue)
    BY <1>1 DEF Flags!Supplies, Flags!StatusTrue
<1>6. Known' /\ Counted' /\ Latest' /\ SteadyTrue'
    BY <1>1, <1>5 DEF FlagsInv, Known, Counted, Latest, SteadyTrue
<1>7. /\ Alone' <=> Alone
      /\ \A p : Flags!FlagOf(p)' = Flags!FlagOf(p)
      /\ pc' \in {"Set", "Wait"}
    BY <1>1 DEF Alone, Flags!FlagOf
<1>8. Search'
    BY <1>1, <1>7 DEF FlagsInv, Search, SoleRight
<1>9. Progress'
  <2>1. (Alone \/ sole = None) /\ \A p \in 1 .. idx - 1 : flag[p] = Flags!FlagOf(p)
    BY <1>1 DEF FlagsInv, Progress
  <2>2. CASE idx \in Flags!Ports /\ flag' = [flag EXCEPT ![idx] = Flags!FlagOf(idx)] /\ idx' = idx + 1 /\ pc' = pc
    <3>1. ASSUME NEW p \in 1 .. idx' - 1 PROVE flag'[p] = Flags!FlagOf(p)
      <4>1. p \in Flags!Ports /\ (p = idx \/ p \in 1 .. idx - 1)
        BY <1>2, <2>2
      <4> QED BY <1>2, <2>1, <2>2, <4>1
    <3> QED BY <1>1, <1>7, <2>1, <2>2, <3>1 DEF Progress, Flags!FlagOf
  <2>3. CASE failed' = TRUE /\ pc' = "Wait"
    BY <1>1, <1>7, <2>1, <2>3 DEF Progress
  <2>4. CASE idx \notin Flags!Ports /\ pc' = "Wait" /\ flag' = flag
    <3>1. idx = NumPorts + 1
      BY <1>2, <2>4
    <3>2. ASSUME NEW p \in Flags!Ports PROVE flag'[p] = Flags!FlagOf(p)
      <4>1. p \in 1 .. idx - 1
        BY <1>2, <3>1
      <4> QED BY <2>1, <2>4, <4>1
    <3> QED BY <1>1, <1>7, <2>1, <2>4, <3>2 DEF Progress, Flags!FlagOf
  <2> QED BY <1>1, <2>2, <2>3, <2>4
<1> QED BY <1>4, <1>6, <1>8, <1>9 DEF FlagsInv

LEMMA FlagsStep == FlagParams /\ FlagsInv /\ [Flags!Next]_(Flags!vars) => FlagsInv'
<1> SUFFICES ASSUME FlagParams, FlagsInv, [Flags!Next]_(Flags!vars) PROVE FlagsInv'
    OBVIOUS
<1>1. CASE UNCHANGED Flags!vars
  <2>1. UNCHANGED <<offer, cached, unread, policy, current, unconstrained, queue, pc, idx, sole, published, flag,
                    dropped, failed, steady>>
    BY <1>1 DEF Flags!vars, Flags!service, Flags!sources, Flags!selection
  <2>2. /\ Flags!Supplies' = Flags!Supplies /\ (Flags!StatusTrue' <=> Flags!StatusTrue)
        /\ (Alone' <=> Alone) /\ (SoleRight' <=> SoleRight)
    BY <2>1 DEF Flags!Supplies, Flags!StatusTrue, Alone, SoleRight
  <2>3. Flags!TypeOK' /\ Known' /\ Counted' /\ Latest' /\ SteadyTrue'
    BY <2>1, <2>2 DEF FlagsInv, Flags!TypeOK, Known, Counted, Latest, SteadyTrue
  <2>4. Progress' /\ Search'
    BY <2>1, <2>2 DEF FlagsInv, Progress, Search, Flags!FlagOf
  <2> QED BY <2>3, <2>4 DEF FlagsInv
<1>2. CASE Flags!Next
    BY <1>2, BarrelChangesKeeps, PortChangesKeeps, UpdateCurrentKeeps, UpdateUnconstrainedKeeps, TakeEventKeeps,
       FindPortKeeps, SetPortKeeps DEF Flags!Next
<1> QED BY <1>1, <1>2

LEMMA FlagsInvImplies == FlagParams /\ FlagsInv => Flags!FlagsFollowSources
<1> SUFFICES ASSUME FlagParams, FlagsInv, Flags!Settled
             PROVE  /\ ~Flags!Drawing => Flags!Spared = Flags!Ports
                    /\ Flags!Drawing /\ Cardinality(Flags!Supplies) > 1 => Flags!Spared = {}
                    /\ Flags!Drawing => \A p, q \in Flags!Spared : p = q
                    /\ Flags!Drawing /\ Cardinality(Flags!Supplies) = 1 /\ steady =>
                           Flags!Spared = Flags!Supplies \cap Flags!Ports
    BY FlagsCardinality DEF Flags!FlagsFollowSources
<1>1. /\ published.unconstrained <=> Flags!Drawing
      /\ published.available = Cardinality(Flags!Supplies) /\ pc = "Wait" /\ queue = << >> /\ ~dropped
  <2>1. ~unread /\ policy = "Wait" /\ queue = << >> /\ pc = "Wait" /\ ~dropped
    BY DEF Flags!Settled
  <2>2. published = unconstrained
    BY <2>1 DEF FlagsInv, Latest
  <2>3. unconstrained = [unconstrained |-> current # None /\ current.cap.unconstrained,
                         available |-> Cardinality(Flags!Supplies)]
    BY <2>1 DEF FlagsInv, Counted
  <2>4. current # None => current.cap = offer[current.psu]
    BY <2>1 DEF FlagsInv, Known
  <2>5. current # None => current.cap \in Capabilities /\ current.cap # None
    BY DEF FlagParams, FlagsInv, Flags!TypeOK
  <2>6. Flags!Drawing <=> (current # None /\ current.cap.unconstrained)
    BY <2>4, <2>5 DEF Flags!Drawing, Flags!IsUnconstrained
  <2> QED BY <2>1, <2>2, <2>3, <2>6
<1>2. /\ Cardinality(Flags!Supplies) \in Nat /\ None \notin Flags!Ports
      /\ Flags!Ports \subseteq Flags!Sources /\ sole \in Flags!Ports \cup {None}
  <2>1. Cardinality(Flags!Supplies) \in Nat
    BY SourcesFinite
  <2> QED BY <2>1, FlagTypes DEF FlagsInv, Flags!TypeOK
<1>3. \A p \in Flags!Ports : p \in Flags!Spared <=> ~(Flags!Drawing /\ p # sole)
    BY <1>1 DEF FlagsInv, Progress, Flags!Settled, Flags!FlagOf, Flags!Spared
<1>4. Flags!Spared \subseteq Flags!Ports
    BY DEF Flags!Spared
<1>5. Alone \/ sole = None
    BY <1>1 DEF FlagsInv, Progress
<1>6. ~Flags!Drawing => Flags!Spared = Flags!Ports
    BY <1>3, <1>4
<1>7. Flags!Drawing /\ Cardinality(Flags!Supplies) > 1 => Flags!Spared = {}
  <2> SUFFICES ASSUME Flags!Drawing, Cardinality(Flags!Supplies) > 1 PROVE Flags!Spared = {}
    OBVIOUS
  <2>1. ~Alone
    BY <1>1, <1>2 DEF Alone
  <2> QED BY <1>2, <1>3, <1>4, <1>5, <2>1
<1>8. Flags!Drawing => \A p, q \in Flags!Spared : p = q
    BY <1>3, <1>4
<1>9. ASSUME Flags!Drawing, Cardinality(Flags!Supplies) = 1, steady
      PROVE  Flags!Spared = Flags!Supplies \cap Flags!Ports
  <2>1. SoleRight
    BY <1>1, <1>9 DEF FlagsInv, Search, Alone
  <2>2. \A p \in Flags!Ports : cached[p] <=> p \in Flags!Supplies
    BY <1>2, <1>9 DEF FlagsInv, SteadyTrue, Flags!StatusTrue, Flags!Supplies
  <2>3. ASSUME NEW p \in Flags!Ports PROVE p \in Flags!Spared <=> p \in Flags!Supplies
    <3>1. p \in Flags!Spared <=> p = sole
      BY <1>3, <1>9
    <3>2. p = sole => p \in Flags!Supplies
      BY <1>2, <2>1, <2>2 DEF SoleRight
    <3>3. ASSUME p \in Flags!Supplies PROVE p = sole
      <4>1. sole # None
        BY <2>1, <2>2, <3>3 DEF SoleRight
      <4>2. sole \in Flags!Supplies
        BY <1>2, <2>1, <2>2, <4>1 DEF SoleRight
      <4> QED BY <1>9, <3>3, <4>2, AtMostOne
    <3> QED BY <3>1, <3>2, <3>3
  <2> QED BY <1>4, <2>3
<1> QED BY <1>6, <1>7, <1>8, <1>9

\* Once everything is handled, no port calls the system unconstrained while it is
\* not, every port does while several sources are unconstrained, and with one
\* source at most one port is left out: that source, unless who is unconstrained,
\* or a port's cached status of it, changed since the policy last published.  All
\* this though sources change at any time, in the middle of the policy's handler
\* and of the service's loops, for any number of ports, sources and powers.
THEOREM FlagsFollowSourcesHolds ==
    ASSUME FlagParams
    PROVE  Flags!Spec => []FlagsFollowSources
<1>1. Flags!Init => FlagsInv
    BY FlagsInit
<1>2. FlagsInv /\ [Flags!Next]_(Flags!vars) => FlagsInv'
    BY FlagsStep
<1>3. FlagsInv => FlagsFollowSources
    BY FlagsInvImplies DEF FlagsInv, FlagsFollowSources
<1> QED BY <1>1, <1>2, <1>3, PTL DEF Flags!Spec
==============================================================================
