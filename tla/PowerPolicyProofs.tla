------------------------- MODULE PowerPolicyProofs -------------------------
(***************************************************************************)
(* Theorems about PowerPolicy, for any number of PSUs and chargers, any    *)
(* channel size and any capabilities.                                      *)
(***************************************************************************)
EXTENDS PowerPolicy, FiniteSetTheorems, NaturalsInduction, WellFoundedInduction, TLAPS

\* What the handler's local variables hold at each of its control points.
ControlInv ==
    /\ pc # "WaitEvent" => dev # None
    /\ pc \in {"WaitEvent", "Select", "DropCurrent", "NotifyDisconnected", "ConnectNew",
              "NotifyConnected", "ReadRequest"} => idx = 1
    /\ pc \notin {"ProviderRemoved", "Unconstrained", "TotalPower", "ConnectProvider"}
          => total = 0
    /\ pc \in {"WaitEvent", "ProviderRemoved", "ReadRequest"} => best = None
    /\ pc \in {"DropCurrent", "DetachChargers", "NotifyDisconnected"} =>
          /\ prev # None
          /\ current = IF best = None THEN prev ELSE None
    /\ pc \in {"DropCurrent", "ConnectNew"} => best # None /\ current = None
    /\ pc \in {"AttachChargers", "NotifyConnected"} => best # None /\ current = best
    /\ pc \in {"TotalPower", "ConnectProvider"} => request # None

-----------------------------------------------------------------------------
(* Drivers: what any of their operations may do, whichever it is.           *)

\* Events that take a PSU out of the tracked providers.
Ending(e) == e.kind \in {"Detached", "Disconnected"}

\* The facts about a driver step that the invariants rest on.
DriverEffect ==
    /\ psu' \in [Psus -> State]
    /\ queue' \in [Psus -> Seq(EventData)]
    /\ missed' \in [Psus -> BOOLEAN]
    /\ lost' \in [Psus -> BOOLEAN]
    /\ orphan' \subseteq orphan
    /\ ops' \in 0..MaxOps
    /\ \A q \in Psus :
          /\ psu'[q].state = "ConnectedConsumer" =>
                psu[q].state = "ConnectedConsumer" /\ (q \in orphan => q \in orphan')
          /\ missed[q] => missed'[q]
          /\ (\E i \in 1..Len(queue[q]) : Selecting(queue[q][i]))
                => \E i \in 1..Len(queue'[q]) : Selecting(queue'[q][i])
          /\ psu'[q].consumer # psu[q].consumer =>
                \/ missed'[q]
                \/ \E i \in 1..Len(queue'[q]) : Selecting(queue'[q][i])
          /\ lost[q] => lost'[q]
          /\ (\E i \in 1..Len(queue[q]) : Ending(queue[q][i]))
                => \E i \in 1..Len(queue'[q]) : Ending(queue'[q][i])
          /\ (psu[q].state = "ConnectedProvider" /\ psu'[q].state # "ConnectedProvider") =>
                \/ lost'[q]
                \/ \E i \in 1..Len(queue'[q]) : Ending(queue'[q][i])
    /\ UNCHANGED <<charger, service, pc, locals, listeners, seen, settled, faults>>

\* TrySend on PSU p, seen from any channel: what is queued stays, and the event
\* is queued if there is room.
LEMMA TrySendFacts ==
    ASSUME queue \in [Psus -> Seq(EventData)], NEW p \in Psus, NEW e \in EventData,
           TrySend(p, e)
    PROVE  /\ queue' \in [Psus -> Seq(EventData)]
           /\ \A q \in Psus : \A i \in 1..Len(queue[q]) :
                 i \in 1..Len(queue'[q]) /\ queue'[q][i] = queue[q][i]
           /\ Room(p) => \E i \in 1..Len(queue'[p]) : queue'[p][i] = e
<1>1. CASE ~Room(p)
  BY <1>1 DEF TrySend
<1>2. CASE Room(p)
  <2>1. queue' = [queue EXCEPT ![p] = Append(queue[p], e)]
    BY <1>2 DEF TrySend
  <2>2. queue[p] \in Seq(EventData)
    OBVIOUS
  <2>3. /\ Append(queue[p], e) \in Seq(EventData)
        /\ Len(Append(queue[p], e)) = Len(queue[p]) + 1
        /\ Len(queue[p]) \in Nat
        /\ \A i \in 1..Len(queue[p]) : Append(queue[p], e)[i] = queue[p][i]
        /\ Append(queue[p], e)[Len(queue[p]) + 1] = e
    BY <2>2
  <2>4. queue' \in [Psus -> Seq(EventData)]
    BY <2>1, <2>3
  <2>5. ASSUME NEW q \in Psus, NEW i \in 1..Len(queue[q])
        PROVE  i \in 1..Len(queue'[q]) /\ queue'[q][i] = queue[q][i]
    <3>1. CASE q = p
      <4>1. queue'[q] = Append(queue[p], e)
        BY <2>1, <3>1
      <4> QED  BY <4>1, <2>3, <3>1
    <3>2. CASE q # p
      BY <2>1, <2>5, <3>2
    <3> QED  BY <3>1, <3>2
  <2>6. \E i \in 1..Len(queue'[p]) : queue'[p][i] = e
    <3>1. queue'[p] = Append(queue[p], e)
      BY <2>1
    <3>2. Len(queue[p]) + 1 \in 1..Len(queue'[p])
          /\ queue'[p][Len(queue[p]) + 1] = e
      BY <3>1, <2>3
    <3> QED  BY <3>2
  <2> QED  BY <2>4, <2>5, <2>6
<1> QED  BY <1>1, <1>2

\* The transition functions of psu::State keep a State well typed.
LEMMA PsuStateFacts ==
    ASSUME NEW s \in State, NEW c \in ConsumerCaps \cup {None},
           NEW d \in ProviderCaps \cup {None}, NEW b \in BOOLEAN
    PROVE  /\ DefaultState \in State
           /\ Attach(s) \in State /\ Attach(s).state = "Idle"
           /\ Detach(s) \in State /\ Detach(s).state = "Detached"
           /\ Disconnect(s, b) \in State /\ Disconnect(s, b).state = "Idle"
           /\ UpdateConsumer(s, c) \in State
           /\ UpdateConsumer(s, c).state = s.state
           /\ UpdateRequested(s, d) \in State
           /\ UpdateRequested(s, d).state = s.state
           /\ UpdateRequested(s, d).consumer = s.consumer
           /\ Disconnect(s, FALSE).consumer = s.consumer
           /\ Attach(s).consumer = s.consumer
BY DEF State, StateKind, DefaultState, Attach, Detach, Disconnect, UpdateConsumer,
       UpdateRequested

\* An operation made of one Drive has the effect above, if it makes no PSU
\* consume and tells of every provider that it ends.
LEMMA DriveFacts ==
    ASSUME TypeOK, NEW p \in Psus, NEW s \in State, NEW e \in EventData,
           s.state = "ConnectedConsumer" => psu[p].state = "ConnectedConsumer",
           (psu[p].state = "ConnectedProvider" /\ s.state # "ConnectedProvider")
              => Ending(e) \/ (e.kind = "Attached" /\ ~AttachOk(psu[p])),
           Drive(p, s, e)
    PROVE  DriverEffect
<1>1. /\ queue' \in [Psus -> Seq(EventData)]
      /\ \A q \in Psus : \A i \in 1..Len(queue[q]) :
            i \in 1..Len(queue'[q]) /\ queue'[q][i] = queue[q][i]
      /\ Room(p) => \E i \in 1..Len(queue'[p]) : queue'[p][i] = e
  BY TrySendFacts DEF Drive, TypeOK
<1>2. psu' = [psu EXCEPT ![p] = s] /\ psu \in [Psus -> State]
  BY DEF Drive, TypeOK
<1>3. psu' \in [Psus -> State]
  BY <1>2
<1>4. missed' \in [Psus -> BOOLEAN] /\ lost' \in [Psus -> BOOLEAN]
  BY DEF Drive, TypeOK
<1>5. ops' \in 0..MaxOps
  BY PowerPolicyAssumption DEF Drive, TypeOK
<1>6. orphan' \subseteq orphan
  BY DEF Drive
<1>7. ASSUME NEW q \in Psus
      PROVE  /\ psu'[q].state = "ConnectedConsumer" =>
                   psu[q].state = "ConnectedConsumer" /\ (q \in orphan => q \in orphan')
             /\ missed[q] => missed'[q]
             /\ psu'[q].consumer # psu[q].consumer =>
                   missed'[q] \/ (q = p /\ Room(p) /\ Selecting(e))
  <2>1. CASE q = p
    BY <1>2, <2>1 DEF Drive, TypeOK
  <2>2. CASE q # p
    BY <1>2, <2>2 DEF Drive, TypeOK
  <2> QED  BY <2>1, <2>2
<1>8. ASSUME NEW q \in Psus
      PROVE  /\ lost[q] => lost'[q]
             /\ (psu[q].state = "ConnectedProvider" /\ psu'[q].state # "ConnectedProvider")
                   => lost'[q] \/ (q = p /\ Room(p) /\ Ending(e))
  <2>1. CASE q = p
    BY <1>2, <2>1 DEF Drive, TypeOK
  <2>2. CASE q # p
    BY <1>2, <2>2 DEF Drive, TypeOK
  <2> QED  BY <2>1, <2>2
<1>9. UNCHANGED <<charger, service, pc, locals, listeners, seen, settled, faults>>
  BY DEF Drive
<1>10. ASSUME NEW q \in Psus
       PROVE  /\ (\E i \in 1..Len(queue[q]) : Selecting(queue[q][i]))
                    => \E i \in 1..Len(queue'[q]) : Selecting(queue'[q][i])
              /\ (\E i \in 1..Len(queue[q]) : Ending(queue[q][i]))
                    => \E i \in 1..Len(queue'[q]) : Ending(queue'[q][i])
  BY <1>1, <1>10
<1>11. /\ (Room(p) /\ Selecting(e)) => \E i \in 1..Len(queue'[p]) : Selecting(queue'[p][i])
       /\ (Room(p) /\ Ending(e)) => \E i \in 1..Len(queue'[p]) : Ending(queue'[p][i])
  BY <1>1
<1> QED
  BY <1>1, <1>3, <1>4, <1>5, <1>6, <1>7, <1>8, <1>9, <1>10, <1>11 DEF DriverEffect

\* Every operation of a PSU driver has the effect above.
LEMMA DriverFacts ==
    ASSUME TypeOK, NEW p \in Psus, Driver(p)
    PROVE  DriverEffect
<1> DEFINE Caps == ConsumerCaps \cup {None}
           Reqs == ProviderCaps \cup {None}
<1>1. psu[p] \in State
  BY DEF TypeOK
<1>2. ASSUME NEW k \in EventKind, NEW w \in DisconnectReason \cup {None}
      PROVE  Event(k, w) \in EventData
  BY DEF Event, EventData
<1>3. /\ "Attached" \in EventKind /\ "Detached" \in EventKind
      /\ "UpdatedConsumerCapability" \in EventKind
      /\ "RequestedProviderCapability" \in EventKind
      /\ "Disconnected" \in EventKind
      /\ "RoleSwap" \in DisconnectReason /\ "Reset" \in DisconnectReason
      /\ "ManualRenegotiation" \in DisconnectReason
  BY DEF EventKind, DisconnectReason
<1>4. CASE PlugInserted(p)
  BY <1>1, <1>2, <1>3, <1>4, PsuStateFacts, DriveFacts DEF PlugInserted, AttachOk
<1>5. CASE PlugRecovered(p)
  <2>1. Detach(psu[p]) \in State
    BY <1>1, PsuStateFacts
  <2>2. /\ Attach(Detach(psu[p])) \in State
        /\ Attach(Detach(psu[p])).state = "Idle"
    BY <2>1, PsuStateFacts
  <2> QED  BY <1>2, <1>3, <1>5, <2>2, DriveFacts DEF PlugRecovered, Event
<1>6. CASE PlugRemoved(p)
  BY <1>1, <1>2, <1>3, <1>6, PsuStateFacts, DriveFacts DEF PlugRemoved, Event, Ending
<1>7. ASSUME NEW c \in Caps, NewConsumerContract(p, c)
      PROVE  DriverEffect
  BY <1>1, <1>2, <1>3, <1>7, PsuStateFacts, DriveFacts DEF NewConsumerContract
<1>8. ASSUME NEW c \in Reqs, NewProviderContract(p, c)
      PROVE  DriverEffect
  BY <1>1, <1>2, <1>3, <1>8, PsuStateFacts, DriveFacts DEF NewProviderContract
<1>9. ASSUME NEW why \in {"RoleSwap", "Reset", "ManualRenegotiation"}, TearDown(p, why)
      PROVE  DriverEffect
  <2>1. Event("Disconnected", why) \in EventData
    BY <1>2, <1>3, <1>9
  <2>2. /\ Disconnect(psu[p], TRUE) \in State
        /\ Disconnect(psu[p], TRUE).state = "Idle"
    BY <1>1 DEF State, StateKind, Disconnect
  <2>3. Drive(p, Disconnect(psu[p], TRUE), Event("Disconnected", why))
    BY <1>9 DEF TearDown
  <2>4. Ending(Event("Disconnected", why))
    BY DEF Ending, Event
  <2> QED  BY <2>1, <2>2, <2>3, <2>4, DriveFacts
<1>10. ASSUME NEW s \in State, s.state = psu[p].state, ContractWhileDetached(p, s)
       PROVE  DriverEffect
  <2>1. psu' = [psu EXCEPT ![p] = s] /\ psu \in [Psus -> State]
    BY <1>10 DEF ContractWhileDetached, TypeOK
  <2>2. psu' \in [Psus -> State]
    BY <2>1
  <2>3. missed' \in [Psus -> BOOLEAN] /\ lost' \in [Psus -> BOOLEAN]
    BY <1>10 DEF ContractWhileDetached, TypeOK
  <2>4. ops' \in 0..MaxOps
    BY <1>10, PowerPolicyAssumption DEF ContractWhileDetached, TypeOK
  <2>5. ASSUME NEW q \in Psus
        PROVE  /\ psu'[q].state = "ConnectedConsumer" =>
                     psu[q].state = "ConnectedConsumer"
               /\ missed[q] => missed'[q]
               /\ psu'[q].consumer # psu[q].consumer => missed'[q]
               /\ lost[q] => lost'[q]
               /\ psu'[q].state = psu[q].state
    <3>1. CASE q = p
      BY <1>10, <2>1, <3>1 DEF ContractWhileDetached, TypeOK
    <3>2. CASE q # p
      BY <1>10, <2>1, <3>2 DEF ContractWhileDetached, TypeOK
    <3> QED  BY <3>1, <3>2
  <2>6. /\ queue' \in [Psus -> Seq(EventData)] /\ queue' = queue /\ orphan' = orphan
        /\ UNCHANGED <<charger, service, pc, locals, listeners, seen, settled, faults>>
    BY <1>10 DEF ContractWhileDetached, TypeOK
  <2> QED  BY <2>2, <2>3, <2>4, <2>5, <2>6 DEF DriverEffect
<1>11. ASSUME NEW c \in ConsumerCaps, ContractWhileDetached(p, UpdateConsumer(psu[p], c))
       PROVE  DriverEffect
  <2>1. /\ UpdateConsumer(psu[p], c) \in State
        /\ UpdateConsumer(psu[p], c).state = psu[p].state
    BY <1>1 DEF State, UpdateConsumer
  <2> QED  BY <1>10, <1>11, <2>1
<1>12. ASSUME NEW c \in ProviderCaps, ContractWhileDetached(p, UpdateRequested(psu[p], c))
       PROVE  DriverEffect
  <2>1. /\ UpdateRequested(psu[p], c) \in State
        /\ UpdateRequested(psu[p], c).state = psu[p].state
    BY <1>1 DEF State, UpdateRequested
  <2> QED  BY <1>10, <1>12, <2>1
<1> QED
  BY <1>4, <1>5, <1>6, <1>7, <1>8, <1>9, <1>11, <1>12 DEF Driver

-----------------------------------------------------------------------------
(* Types and control.                                                       *)

LEMMA ChargerFacts ==
    ASSUME NEW s \in ChargerState, NEW ps \in ChargerPsuState, NEW c \in ConsumerCaps
    PROVE  /\ DefaultCharger \in ChargerState
           /\ OnInitialized(s, ps) \in ChargerState
           /\ OnPsuStateChange(s, ps) \in ChargerState
           /\ OnTimeout(s) \in ChargerState
           /\ OnReadySuccess(s) \in ChargerState
           /\ OnReadyFailure(s) \in ChargerState
           /\ OnPolicyAttach(s, c) \in ChargerState
           /\ OnPolicyDetach(s) \in ChargerState
BY DEF ChargerState, InternalState, DefaultCharger, OnInitialized, OnPsuStateChange,
       OnTimeout, OnReadySuccess, OnReadyFailure, OnPolicyAttach, OnPolicyDetach,
       AfterPsuState, IsUnpowered

LEMMA PowerFacts ==
    /\ \A c \in ConsumerCaps : MaxPowerMw(c) \in Nat
    /\ \A c \in ProviderCaps : MaxPowerMw(c) \in Nat
<1>1. ASSUME NEW m \in Nat, NEW n \in Nat
      PROVE  (m * n) \div 1000 \in Nat
  <2>1. m * n \in Nat
    OBVIOUS
  <2> QED  BY <2>1
<1> QED  BY <1>1, CapsAssumption DEF MaxPowerMw

\* An action leaves every variable but those it names with their types.
LEMMA PolicyTypes ==
    ASSUME TypeOK, ControlInv, Policy
    PROVE  TypeOK' /\ ControlInv'
<1> USE DEF service, locals, listeners, history, bounds
<1>1. ASSUME NEW p \in Psus, ProcessPsuEvent(p)
      PROVE  TypeOK' /\ ControlInv'
  <2>1. /\ queue[p] \in Seq(EventData) /\ queue[p] # << >>
        /\ Head(queue[p]) \in EventData /\ Tail(queue[p]) \in Seq(EventData)
    BY <1>1 DEF ProcessPsuEvent, TypeOK
  <2>2. queue' \in [Psus -> Seq(EventData)]
    BY <1>1, <2>1 DEF ProcessPsuEvent, TypeOK, Received
  <2>3. /\ connected' \subseteq Psus /\ pc' \in PcLabel
        /\ dev' \in Psus \cup {None} /\ reason' \in DisconnectReason \cup {None}
    BY <1>1, <2>1 DEF ProcessPsuEvent, TypeOK, PcLabel, EventData, DisconnectReason,
                      WithoutProvider
  <2>4. TypeOK'
    BY <1>1, <2>2, <2>3 DEF ProcessPsuEvent, TypeOK
  <2>5. ControlInv'
    BY <1>1, PowerPolicyAssumption DEF ProcessPsuEvent, ControlInv, TypeOK
  <2> QED  BY <2>4, <2>5
<1>2. ASSUME NEW q \in Psus PROVE ConnectedProviderMw(psu[q]) \in Nat
  BY PowerFacts DEF TypeOK, State, ConnectedProviderMw
<1>3. CASE ProviderRemoved
  <2>1. /\ total' \in Nat /\ idx' \in Nat \ {0} /\ pc' \in PcLabel
        /\ providerState' \in {"Unlimited", "Limited"} /\ toldProviders' \subseteq Psus
    BY <1>2, <1>3 DEF ProviderRemoved, TypeOK, PcLabel, NewProviderState
  <2>2. TypeOK'
    BY <1>3, <2>1 DEF ProviderRemoved, TypeOK
  <2>3. ControlInv'
    BY <1>3 DEF ProviderRemoved, ControlInv
  <2> QED  BY <2>2, <2>3
<1>4. CASE FindBest
  <2>1. best' \in AvailableConsumer \cup {None}
    BY <1>4 DEF FindBest, TypeOK, AvailableConsumer, Eligible, State
  <2>2. seen' \in [Psus -> ConsumerCaps \cup {None}] /\ missed' \in [Psus -> BOOLEAN]
    BY <1>4 DEF FindBest, TypeOK, State
  <2>3. idx' \in Nat \ {0} /\ pc' \in PcLabel
    BY <1>4 DEF FindBest, TypeOK, PcLabel
  <2>4. TypeOK'
    BY <1>4, <2>1, <2>2, <2>3 DEF FindBest, TypeOK
  <2>5. ControlInv'
    BY <1>4 DEF FindBest, ControlInv
  <2> QED  BY <2>4, <2>5
<1>5. CASE Select
  <2>1. TypeOK'
    BY <1>5 DEF Select, TypeOK, PcLabel
  <2>2. ControlInv'
    BY <1>5 DEF Select, ControlInv
  <2> QED  BY <2>1, <2>2
<1>6. ASSUME NEW ok \in BOOLEAN, Return(ok)
      PROVE  /\ pc' \in PcLabel /\ dev' \in Psus \cup {None}
             /\ reason' \in DisconnectReason \cup {None}
             /\ idx' \in Nat \ {0} /\ best' \in AvailableConsumer \cup {None}
             /\ prev' \in AvailableConsumer \cup {None}
             /\ request' \in ProviderCaps \cup {None}
             /\ total' \in Nat /\ held' \in Psus \cup {None}
             /\ settled' \in BOOLEAN
             /\ ControlInv'
  BY <1>6 DEF Return, PcLabel, ControlInv
<1>7. Fault => faults' \in 0..MaxFaults
  BY PowerPolicyAssumption DEF Fault, TypeOK
<1>8. CASE DropCurrent
  <2> DEFINE p == prev.psu
  <2>1. prev \in AvailableConsumer /\ p \in Psus
    BY <1>8 DEF DropCurrent, TypeOK, ControlInv, AvailableConsumer
  <2>2. psu' \in [Psus -> State]
    <3>1. Disconnect(psu[p], FALSE) \in State
      BY <2>1 DEF TypeOK, State, StateKind, Disconnect
    <3> QED  BY <1>8, <2>1, <3>1 DEF DropCurrent, TypeOK
  <2>3. /\ faults' \in 0..MaxFaults /\ orphan' \subseteq Psus
        /\ UNCHANGED <<queue, charger, service, listeners, seen, missed, lost, ops>>
    BY <1>7, <1>8, <2>1 DEF DropCurrent, TypeOK
  <2>4. CASE Return(FALSE)
    BY <1>6, <2>2, <2>3, <2>4 DEF TypeOK
  <2>5. CASE /\ pc' = "DetachChargers" /\ held' = p
             /\ UNCHANGED <<dev, reason, idx, best, prev, request, total, settled>>
    <3>1. TypeOK'
      BY <2>1, <2>2, <2>3, <2>5 DEF TypeOK, PcLabel
    <3>2. ControlInv'
      BY <1>8, <2>3, <2>5 DEF DropCurrent, ControlInv
    <3> QED  BY <3>1, <3>2
  <2> QED  BY <1>8, <2>4, <2>5 DEF DropCurrent
<1>9. CASE DetachChargers
  <2>1. charger' \in [Chargers -> ChargerState]
    <3>1. ASSUME NEW c \in Chargers PROVE OnPolicyDetach(charger[c]) \in ChargerState
      BY DEF TypeOK, ChargerState, OnPolicyDetach
    <3> QED  BY <1>9, <3>1 DEF DetachChargers, TypeOK
  <2>2. /\ faults' \in 0..MaxFaults
        /\ UNCHANGED <<psu, queue, service, listeners, seen, missed, lost, orphan, ops>>
    BY <1>7, <1>9 DEF DetachChargers, TypeOK
  <2>3. CASE Return(FALSE)
    BY <1>6, <2>1, <2>2, <2>3 DEF TypeOK
  <2>4. CASE /\ pc' \in {"DetachChargers", "NotifyDisconnected"}
             /\ idx' \in {1, idx + 1}
             /\ pc' = "NotifyDisconnected" => idx' = 1
             /\ UNCHANGED <<dev, reason, best, prev, request, total, held, settled>>
    <3>1. idx' \in Nat \ {0}
      BY <2>4 DEF TypeOK
    <3>3. TypeOK'
      BY <2>1, <2>2, <2>4, <3>1 DEF TypeOK, PcLabel
    <3>2. ControlInv'
      BY <1>9, <2>2, <2>4 DEF DetachChargers, ControlInv
    <3> QED  BY <3>3, <3>2
  <2>5. \/ Return(FALSE)
        \/ /\ pc' \in {"DetachChargers", "NotifyDisconnected"}
           /\ idx' \in {1, idx + 1}
           /\ pc' = "NotifyDisconnected" => idx' = 1
           /\ UNCHANGED <<dev, reason, best, prev, request, total, held, settled>>
    BY <1>9 DEF DetachChargers
  <2> QED  BY <2>3, <2>4, <2>5
<1>10. CASE NotifyDisconnected
  <2>1. /\ prev \in AvailableConsumer /\ prev.psu \in Psus /\ dev \in Psus
        /\ current = IF best = None THEN prev ELSE None
    BY <1>10 DEF NotifyDisconnected, TypeOK, ControlInv, AvailableConsumer
  <2>2. NotifiedReason \in DisconnectReason \cup {None}
    BY DEF NotifiedReason, TypeOK, DisconnectReason
  <2>3. note' \in [psu : Psus, reason : DisconnectReason \cup {None}]
                  \cup {None}
    BY <1>10, <2>1, <2>2 DEF NotifyDisconnected
  <2>4. /\ told' \in AvailableConsumer \cup {None} /\ held' = None
        /\ pc' \in PcLabel /\ current' \in AvailableConsumer \cup {None}
        /\ orphan' \subseteq Psus
    BY <1>10, <2>1 DEF NotifyDisconnected, TypeOK, PcLabel
  <2>5. TypeOK'
    BY <1>10, <2>3, <2>4 DEF NotifyDisconnected, TypeOK
  <2>6. ControlInv'
    BY <1>10, <2>1 DEF NotifyDisconnected, ControlInv
  <2> QED  BY <2>5, <2>6
<1>11. CASE ConnectNew
  <2> DEFINE p == best.psu
  <2>1. best \in AvailableConsumer /\ p \in Psus /\ best.cap \in ConsumerCaps
    BY <1>11 DEF ConnectNew, TypeOK, ControlInv, AvailableConsumer
  <2>2. ConnectConsumer(psu[p], best.cap) \in State
    BY <2>1 DEF TypeOK, State, StateKind, ConnectConsumer
  <2>3. /\ psu' \in [Psus -> State] /\ orphan' \subseteq Psus
        /\ current' \in AvailableConsumer \cup {None} /\ faults' \in 0..MaxFaults
        /\ UNCHANGED <<queue, charger, providerState, connected, unconstrained,
                       listeners, seen, missed, lost, ops>>
    <3>1. psu' \in [Psus -> State]
      BY <1>11, <2>1, <2>2 DEF ConnectNew, TypeOK
    <3>2. orphan' \subseteq Psus /\ current' \in AvailableConsumer \cup {None}
      BY <1>11, <2>1 DEF ConnectNew, TypeOK
    <3>3. faults' \in 0..MaxFaults
      BY <1>7, <1>11 DEF ConnectNew, TypeOK
    <3> QED  BY <1>11, <3>1, <3>2, <3>3 DEF ConnectNew
  <2>4. CASE Return(FALSE)
    BY <1>6, <2>3, <2>4 DEF TypeOK
  <2>5. CASE /\ pc' = "AttachChargers" /\ held' = p /\ current' = best
             /\ UNCHANGED <<dev, reason, idx, best, prev, request, total, settled>>
    <3>1. TypeOK'
      BY <2>1, <2>3, <2>5 DEF TypeOK, PcLabel
    <3>2. ControlInv'
      BY <1>11, <2>5 DEF ConnectNew, ControlInv
    <3> QED  BY <3>1, <3>2
  <2> QED  BY <1>11, <2>4, <2>5 DEF ConnectNew
<1>12. CASE AttachChargers
  <2>1. best \in AvailableConsumer /\ best.cap \in ConsumerCaps
    BY <1>12 DEF AttachChargers, TypeOK, ControlInv, AvailableConsumer
  <2>2. ASSUME NEW c \in Chargers, NEW ps \in ChargerPsuState
        PROVE  /\ OnReadySuccess(charger[c]) \in ChargerState
               /\ OnInitialized(OnReadySuccess(charger[c]), ps) \in ChargerState
               /\ OnPolicyAttach(charger[c], best.cap) \in ChargerState
               /\ OnPolicyAttach(OnInitialized(OnReadySuccess(charger[c]), ps), best.cap)
                    \in ChargerState
    <3>1. charger[c] \in ChargerState
      BY DEF TypeOK
    <3>2. OnReadySuccess(charger[c]) \in ChargerState
      BY <2>1, <3>1, ChargerFacts
    <3>3. OnInitialized(OnReadySuccess(charger[c]), ps) \in ChargerState
      BY <2>1, <3>2, ChargerFacts
    <3> QED  BY <2>1, <3>1, <3>2, <3>3, ChargerFacts
  <2>3. charger' \in [Chargers -> ChargerState]
    <3>1. charger \in [Chargers -> ChargerState]
      BY DEF TypeOK
    <3>2. ASSUME NEW s \in ChargerState, idx \in Chargers,
                 charger' = [charger EXCEPT ![idx] = s]
          PROVE  charger' \in [Chargers -> ChargerState]
      BY <3>1, <3>2
    <3>3. ASSUME idx \in Chargers, NEW ps \in ChargerPsuState,
                 charger' = [charger EXCEPT ![idx] = OnPolicyAttach(
                     IF IsUnpowered(charger[idx])
                     THEN OnInitialized(OnReadySuccess(charger[idx]), ps)
                     ELSE charger[idx], best.cap)]
          PROVE  charger' \in [Chargers -> ChargerState]
      BY <2>2, <3>2, <3>3
    <3>4. ASSUME idx \in Chargers, NEW ps \in ChargerPsuState,
                 \/ charger' = [charger EXCEPT ![idx] = OnReadySuccess(charger[idx])]
                 \/ charger' = [charger EXCEPT
                       ![idx] = OnInitialized(OnReadySuccess(charger[idx]), ps)]
          PROVE  charger' \in [Chargers -> ChargerState]
      BY <2>2, <3>2, <3>4
    <3>5. "Attached" \in ChargerPsuState
      BY DEF ChargerPsuState
    <3>6. CASE charger' = charger
      BY <3>1, <3>6
    <3> QED  BY <1>12, <3>3, <3>4, <3>5, <3>6 DEF AttachChargers
  <2>4. /\ faults' \in 0..MaxFaults
        /\ UNCHANGED <<psu, queue, service, listeners, seen, missed, lost, orphan, ops>>
    BY <1>7, <1>12 DEF AttachChargers, TypeOK
  <2>5. CASE Return(FALSE)
    BY <1>6, <2>3, <2>4, <2>5 DEF TypeOK
  <2>6. CASE /\ pc' \in {"AttachChargers", "NotifyConnected"}
             /\ idx' \in {1, idx + 1}
             /\ pc' = "NotifyConnected" => idx' = 1
             /\ UNCHANGED <<dev, reason, best, prev, request, total, held, settled>>
    <3>1. idx' \in Nat \ {0}
      BY <2>6 DEF TypeOK
    <3>2. TypeOK'
      BY <2>3, <2>4, <2>6, <3>1 DEF TypeOK, PcLabel
    <3>3. ControlInv'
      BY <1>12, <2>4, <2>6 DEF AttachChargers, ControlInv
    <3> QED  BY <3>2, <3>3
  <2>7. \/ Return(FALSE)
        \/ /\ pc' \in {"AttachChargers", "NotifyConnected"}
           /\ idx' \in {1, idx + 1}
           /\ pc' = "NotifyConnected" => idx' = 1
           /\ UNCHANGED <<dev, reason, best, prev, request, total, held, settled>>
    BY <1>12 DEF AttachChargers
  <2> QED  BY <2>5, <2>6, <2>7
<1>13. CASE NotifyConnected
  <2>1. TypeOK'
    BY <1>13 DEF NotifyConnected, TypeOK, PcLabel
  <2>2. ControlInv'
    BY <1>13 DEF NotifyConnected, ControlInv
  <2> QED  BY <2>1, <2>2
<1>14. CASE UpdateUnconstrained
  <2>1. /\ unconstrained' \in [unconstrained : BOOLEAN, available : Nat]
        /\ UNCHANGED <<psu, queue, charger, current, providerState, connected,
                       listeners, seen, missed, lost, orphan, bounds>>
    <3>1. UnconstrainedState(total) \in [unconstrained : BOOLEAN, available : Nat]
      BY DEF UnconstrainedState, TypeOK
    <3> QED  BY <1>14, <3>1 DEF UpdateUnconstrained, TypeOK
  <2>2. CASE Return(TRUE)
    BY <1>6, <2>1, <2>2 DEF TypeOK
  <2>3. CASE /\ total' \in {total, total + 1} /\ idx' = idx + 1
             /\ UNCHANGED <<pc, dev, reason, best, prev, request, held, settled>>
    <3>1. total' \in Nat /\ idx' \in Nat \ {0}
      BY <2>3 DEF TypeOK
    <3>2. TypeOK'
      BY <2>1, <2>3, <3>1 DEF TypeOK
    <3>3. ControlInv'
      BY <1>14, <2>1, <2>3 DEF UpdateUnconstrained, ControlInv
    <3> QED  BY <3>2, <3>3
  <2>4. \/ Return(TRUE)
        \/ /\ total' \in {total, total + 1} /\ idx' = idx + 1
           /\ UNCHANGED <<pc, dev, reason, best, prev, request, held, settled>>
    BY <1>14, Zenon DEF UpdateUnconstrained
  <2> QED  BY <2>2, <2>3, <2>4
<1>15. CASE ReadRequest
  <2>1. UNCHANGED <<psu, queue, charger, service, listeners, seen, missed, lost, orphan,
                    bounds>>
    BY <1>15 DEF ReadRequest
  <2>2. CASE Return(settled)
    <3>1. settled \in BOOLEAN
      BY DEF TypeOK
    <3> QED  BY <1>6, <2>1, <2>2, <3>1 DEF TypeOK
  <2>3. CASE /\ psu[dev].requested # None /\ request' = psu[dev].requested
             /\ pc' = "TotalPower"
             /\ UNCHANGED <<dev, reason, idx, best, prev, total, held, settled>>
    <3>1. dev \in Psus
      BY <1>15 DEF ReadRequest, ControlInv, TypeOK
    <3>2. request' \in ProviderCaps
      BY <2>3, <3>1 DEF TypeOK, State
    <3>3. TypeOK'
      BY <2>1, <2>3, <3>2 DEF TypeOK, PcLabel
    <3>4. ControlInv'
      BY <1>15, <2>1, <2>3 DEF ReadRequest, ControlInv
    <3> QED  BY <3>3, <3>4
  <2> QED  BY <1>15, <2>2, <2>3 DEF ReadRequest
<1>16. CASE TotalPower
  <2>1. request \in ProviderCaps
    BY <1>16 DEF TotalPower, ControlInv, TypeOK
  <2>2. /\ total' \in Nat /\ idx' \in Nat \ {0} /\ pc' \in PcLabel
        /\ providerState' \in {"Unlimited", "Limited"}
    BY <1>2, <1>16, <2>1, PowerFacts DEF TotalPower, TypeOK, PcLabel, NewProviderState
  <2>3. TypeOK'
    BY <1>16, <2>2 DEF TotalPower, TypeOK
  <2>4. ControlInv'
    BY <1>16 DEF TotalPower, ControlInv
  <2> QED  BY <2>3, <2>4
<1>17. CASE ConnectProviderPsu
  <2>1. dev \in Psus /\ request \in ProviderCaps
    BY <1>17 DEF ConnectProviderPsu, ControlInv, TypeOK
  <2>2. TargetPower \in ProviderCaps
    BY <2>1, PowerPolicyAssumption DEF TargetPower
  <2>3. ConnectProvider(psu[dev], TargetPower) \in State
    BY <2>1, <2>2 DEF TypeOK, State, StateKind, ConnectProvider
  <2>4. /\ psu' \in [Psus -> State] /\ connected' \subseteq Psus
        /\ toldProviders' \subseteq Psus /\ faults' \in 0..MaxFaults
        /\ UNCHANGED <<queue, charger, current, providerState, unconstrained, told,
                       note, seen, missed, lost, orphan, ops>>
    <3>1. psu' \in [Psus -> State]
      BY <1>17, <2>1, <2>3 DEF ConnectProviderPsu, TypeOK
    <3>2. connected' \subseteq Psus /\ toldProviders' \subseteq Psus
      BY <1>17, <2>1 DEF ConnectProviderPsu, TypeOK
    <3>3. faults' \in 0..MaxFaults
      BY <1>7, <1>17 DEF ConnectProviderPsu, TypeOK
    <3> QED  BY <1>17, <3>1, <3>2, <3>3 DEF ConnectProviderPsu
  <2>5. Return(settled) /\ settled \in BOOLEAN
    BY <1>17 DEF ConnectProviderPsu, TypeOK
  <2> QED  BY <1>6, <2>4, <2>5 DEF TypeOK
<1> QED
  BY <1>1, <1>3, <1>4, <1>5, <1>8, <1>9, <1>10, <1>11, <1>12, <1>13, <1>14, <1>15,
     <1>16, <1>17 DEF Policy

\* A charger driver touches its charger only.
LEMMA ChargerDriverFacts ==
    ASSUME TypeOK, NEW c \in Chargers, ChargerDriver(c)
    PROVE  /\ charger' \in [Chargers -> ChargerState] /\ ops' \in 0..MaxOps
           /\ UNCHANGED <<psu, queue, service, pc, locals, listeners, history, faults>>
<1>1. charger[c] \in ChargerState
  BY DEF TypeOK
<1>2. PICK s \in ChargerState : DriveCharger(c, s)
  <2>1. \A ps \in ChargerPsuState :
           /\ OnTimeout(charger[c]) \in ChargerState
           /\ OnReadySuccess(charger[c]) \in ChargerState
           /\ OnReadyFailure(charger[c]) \in ChargerState
           /\ OnInitialized(charger[c], ps) \in ChargerState
           /\ OnPsuStateChange(charger[c], ps) \in ChargerState
    BY <1>1 DEF ChargerState, InternalState, DefaultCharger, OnInitialized,
       OnPsuStateChange, OnTimeout, OnReadySuccess, OnReadyFailure, AfterPsuState,
       IsUnpowered
  <2>2. "Attached" \in ChargerPsuState
    BY DEF ChargerPsuState
  <2> QED  BY <2>1, <2>2 DEF ChargerDriver
<1> QED
  BY <1>2, PowerPolicyAssumption DEF DriveCharger, TypeOK

\* TypeOK and ControlInv are preserved together: a handler's next step is well
\* typed because its locals are what its control point promises.
LEMMA TypeStep ==
    ASSUME TypeOK, ControlInv, [Next]_vars
    PROVE  TypeOK' /\ ControlInv'
<1> USE DEF service, locals, listeners, history, bounds
<1>1. ASSUME NEW p \in Psus, Driver(p)
      PROVE  TypeOK' /\ ControlInv'
  <2>1. DriverEffect
    BY <1>1, DriverFacts
  <2>2. TypeOK'
    BY <2>1 DEF DriverEffect, TypeOK
  <2>3. ControlInv'
    BY <2>1 DEF DriverEffect, ControlInv
  <2> QED  BY <2>2, <2>3
<1>2. ASSUME NEW c \in Chargers, ChargerDriver(c)
      PROVE  TypeOK' /\ ControlInv'
  <2>1. /\ charger' \in [Chargers -> ChargerState] /\ ops' \in 0..MaxOps
        /\ UNCHANGED <<psu, queue, service, pc, locals, listeners, history, faults>>
    BY <1>2, ChargerDriverFacts
  <2>2. TypeOK'
    BY <2>1 DEF TypeOK
  <2>3. ControlInv'
    BY <2>1 DEF ControlInv
  <2> QED  BY <2>2, <2>3
<1>3. CASE Policy
  BY <1>3, PolicyTypes
<1>4. CASE UNCHANGED vars
  <2>1. TypeOK'
    BY <1>4 DEF vars, TypeOK
  <2>2. ControlInv'
    BY <1>4 DEF vars, ControlInv
  <2> QED  BY <2>1, <2>2
<1> QED  BY <1>1, <1>2, <1>3, <1>4 DEF Next

\* The service starts well typed, waiting for an event.
LEMMA TypeInit == Init => TypeOK /\ ControlInv
<1> SUFFICES ASSUME Init PROVE TypeOK /\ ControlInv
  OBVIOUS
<1>1. DefaultState \in State /\ DefaultCharger \in ChargerState
  BY DEF DefaultState, State, StateKind, DefaultCharger, ChargerState, InternalState
<1>2. << >> \in Seq(EventData)
  OBVIOUS
<1>3. TypeOK
  BY <1>1, <1>2, PowerPolicyAssumption DEF Init, TypeOK, PcLabel
<1>4. ControlInv
  BY DEF Init, ControlInv
<1> QED  BY <1>3, <1>4

\* Every variable of the service, of its handlers and of the drivers keeps its
\* type in every behaviour, for any number of PSUs and chargers.
THEOREM TypeCorrect == Spec => []TypeOK
<1>1. TypeOK /\ ControlInv /\ [Next]_vars => TypeOK' /\ ControlInv'
  BY TypeStep
<1> QED  BY <1>1, TypeInit, PTL DEF Spec

-----------------------------------------------------------------------------
(* One consumer at a time.                                                  *)

\* A PSU that consumes is the current consumer, or the one being dropped, or
\* one the policy has forgotten.
ConsumerInv ==
    \A p \in Psus :
        (Consuming(p) /\ p \notin orphan) =>
            \/ current # None /\ current.psu = p
            \/ pc = "DropCurrent" /\ prev.psu = p

\* No step makes a second PSU consume: a driver can only take a PSU out of
\* ConnectedConsumer, and the policy enters it for `best` after `current` is gone.
LEMMA ConsumerStep ==
    ASSUME TypeOK, ControlInv, ConsumerInv, [Next]_vars
    PROVE  ConsumerInv'
<1> USE DEF service, locals, listeners, history, bounds
<1>1. ASSUME NEW p \in Psus, Driver(p)
      PROVE  ConsumerInv'
  <2>1. DriverEffect
    BY <1>1, DriverFacts
  <2> QED  BY <2>1 DEF DriverEffect, ConsumerInv, Consuming
<1>2. ASSUME NEW c \in Chargers, ChargerDriver(c)
      PROVE  ConsumerInv'
  BY <1>2, ChargerDriverFacts DEF ConsumerInv, Consuming
<1>3. CASE UNCHANGED <<psu, orphan, current>> /\ pc # "DropCurrent" /\ pc' # "DropCurrent"
  BY <1>3 DEF ConsumerInv, Consuming
<1>4. CASE Select
  BY <1>4 DEF Select, ConsumerInv, Consuming
<1>5. CASE DropCurrent
  <2>1. prev \in AvailableConsumer /\ prev.psu \in Psus /\ current = None
    BY <1>5 DEF DropCurrent, TypeOK, ControlInv, AvailableConsumer
  <2>2. ASSUME NEW p \in Psus, Consuming(p)', p \notin orphan'
        PROVE  FALSE
    <3>1. CASE psu' = [psu EXCEPT ![prev.psu] = Disconnect(@, FALSE)] /\ orphan' = orphan
      BY <1>5, <2>1, <2>2, <3>1 DEF DropCurrent, ConsumerInv, Consuming, TypeOK, Disconnect
    <3>2. CASE psu' = psu /\ orphan' = orphan \cup {prev.psu}
      BY <1>5, <2>1, <2>2, <3>2 DEF ConsumerInv, Consuming
    <3>3. CASE /\ psu' = psu /\ orphan' = orphan
               /\ psu[prev.psu].state # "ConnectedConsumer"
      BY <1>5, <2>1, <2>2, <3>3 DEF ConsumerInv, Consuming
    <3> QED  BY <1>5, <3>1, <3>2, <3>3 DEF DropCurrent
  <2> QED  BY <2>2 DEF ConsumerInv
<1>6. CASE NotifyDisconnected
  <2>1. prev \in AvailableConsumer /\ (best = None => current = prev)
    BY <1>6 DEF NotifyDisconnected, TypeOK, ControlInv
  <2> QED  BY <1>6, <2>1 DEF NotifyDisconnected, ConsumerInv, Consuming
<1>7. CASE ConnectNew
  <2>1. best \in AvailableConsumer /\ best.psu \in Psus /\ best # None /\ current = None
    BY <1>7, PowerPolicyAssumption
    DEF ConnectNew, TypeOK, ControlInv, AvailableConsumer
  <2>2. CASE /\ psu' = [psu EXCEPT ![best.psu] = ConnectConsumer(@, best.cap)]
             /\ current' = best /\ orphan' = orphan \ {best.psu}
    BY <1>7, <2>1, <2>2 DEF ConnectNew, ConsumerInv, Consuming, TypeOK
  <2>3. CASE UNCHANGED <<psu, orphan, current>>
    BY <1>7, <2>3 DEF ConnectNew, ConsumerInv, Consuming, Return
  <2> QED  BY <1>7, <2>2, <2>3 DEF ConnectNew
<1>8. CASE ConnectProviderPsu
  <2>1. dev \in Psus
    BY <1>8 DEF ConnectProviderPsu, ControlInv, TypeOK
  <2>2. ASSUME NEW p \in Psus, Consuming(p)'
        PROVE  Consuming(p)
    <3>1. psu \in [Psus -> State]
      BY DEF TypeOK
    <3>2. CASE psu' = psu
      BY <2>2, <3>2 DEF Consuming
    <3>3. CASE psu' = [psu EXCEPT ![dev] = ConnectProvider(psu[dev], TargetPower)]
      <4>1. ConnectProvider(psu[dev], TargetPower).state = "ConnectedProvider"
        BY DEF ConnectProvider
      <4>2. p # dev
        BY <2>1, <2>2, <3>1, <3>3, <4>1 DEF Consuming
      <4> QED  BY <2>2, <3>1, <3>3, <4>2 DEF Consuming
    <3> QED  BY <1>8, <3>2, <3>3 DEF ConnectProviderPsu
  <2> QED
    BY <1>8, <2>2 DEF ConnectProviderPsu, ConsumerInv, Return
<1>9. CASE UNCHANGED vars
  BY <1>9 DEF vars, ConsumerInv, Consuming
<1>10. ASSUME NEW p \in Psus, ProcessPsuEvent(p)
       PROVE  ConsumerInv'
  BY <1>3, <1>10 DEF ProcessPsuEvent
<1>11. CASE \/ ProviderRemoved \/ FindBest \/ DetachChargers \/ AttachChargers
            \/ NotifyConnected \/ UpdateUnconstrained \/ ReadRequest \/ TotalPower
  BY <1>3, <1>11 DEF ProviderRemoved, FindBest, DetachChargers, AttachChargers,
     NotifyConnected, UpdateUnconstrained, ReadRequest, TotalPower, Return
<1> QED
  BY <1>1, <1>2, <1>4, <1>5, <1>6, <1>7, <1>8, <1>9, <1>10, <1>11 DEF Next, Policy

\* At most one PSU has its sink path enabled, apart from those the policy left
\* consuming, for any number of PSUs, any interleaving of drivers and handlers
\* and any failing call.
THEOREM SingleConsumerHolds == Spec => []SingleConsumer
<1>1. Init => ConsumerInv
  BY DEF Init, ConsumerInv, Consuming, DefaultState
<1>2. TypeOK /\ ControlInv /\ ConsumerInv /\ [Next]_vars
      => TypeOK' /\ ControlInv' /\ ConsumerInv'
  BY TypeStep, ConsumerStep
<1>3. ControlInv /\ ConsumerInv => SingleConsumer
  BY DEF ControlInv, ConsumerInv, SingleConsumer
<1> QED  BY <1>1, <1>2, <1>3, TypeInit, PTL DEF Spec

-----------------------------------------------------------------------------
(* Listeners agree with the service.                                        *)

\* While no call has failed, listeners know of the current consumer except in
\* the middle of a switch, where they know of the one being dropped and then
\* of none.
Dropping == {"DropCurrent", "DetachChargers", "NotifyDisconnected"}
Connecting == {"ConnectNew", "AttachChargers", "NotifyConnected"}
ListenerInv ==
    faults = 0 =>
        /\ pc \in Dropping => told = prev
        /\ pc \in Connecting => told = None
        /\ pc \notin Dropping \cup Connecting => told = current

\* Only NotifyDisconnected and NotifyConnected tell listeners anything, and
\* every way out of a switch without a failed call passes through them.
LEMMA ListenerStep ==
    ASSUME TypeOK, ControlInv, ListenerInv, [Next]_vars
    PROVE  ListenerInv'
<1> USE DEF service, locals, listeners, history, bounds
<1>1. faults' \in {faults, faults + 1} => (faults' = 0 => faults = 0)
  BY DEF TypeOK
<1>2. ASSUME NEW p \in Psus, Driver(p)
      PROVE  ListenerInv'
  <2>1. DriverEffect
    BY <1>2, DriverFacts
  <2> QED  BY <2>1 DEF DriverEffect, ListenerInv
<1>3. ASSUME NEW c \in Chargers, ChargerDriver(c)
      PROVE  ListenerInv'
  BY <1>3, ChargerDriverFacts DEF ListenerInv
<1>4. CASE /\ UNCHANGED <<told, current, faults>>
           /\ pc \notin Dropping \cup Connecting
           /\ pc' \notin Dropping \cup Connecting
  BY <1>4 DEF ListenerInv
<1>5. CASE faults' = faults + 1
  BY <1>1, <1>5 DEF ListenerInv, TypeOK
<1>6. CASE Select
  BY <1>6 DEF Select, ListenerInv, ControlInv, Dropping, Connecting
<1>7. CASE DropCurrent
  BY <1>5, <1>7 DEF DropCurrent, ListenerInv, Dropping, Connecting, Fault
<1>8. CASE DetachChargers
  BY <1>5, <1>8 DEF DetachChargers, ListenerInv, Dropping, Connecting, Fault
<1>9. CASE NotifyDisconnected
  <2>1. prev # None /\ (best # None => current = None)
    BY <1>9 DEF NotifyDisconnected, ControlInv
  <2>2. faults = 0 => told' = None
    BY <1>9, <2>1 DEF NotifyDisconnected, ListenerInv, Dropping
  <2>3. faults' = faults /\ pc' \in {"ConnectNew", "Unconstrained"}
        /\ (pc' = "Unconstrained" => current' = None)
    BY <1>9 DEF NotifyDisconnected
  <2> QED  BY <2>2, <2>3 DEF ListenerInv, Dropping, Connecting
<1>10. CASE ConnectNew
  <2>1. current = None
    BY <1>10 DEF ConnectNew, ControlInv
  <2> QED
    BY <1>5, <1>10, <2>1
    DEF ConnectNew, ListenerInv, Dropping, Connecting, Fault, Return
<1>11. CASE AttachChargers
  BY <1>5, <1>11 DEF AttachChargers, ListenerInv, Dropping, Connecting, Fault
<1>12. CASE NotifyConnected
  BY <1>12 DEF NotifyConnected, ListenerInv, ControlInv, Dropping, Connecting
<1>13. ASSUME NEW p \in Psus, ProcessPsuEvent(p)
       PROVE  ListenerInv'
  BY <1>4, <1>13 DEF ProcessPsuEvent, Dropping, Connecting
<1>14. CASE ProviderRemoved \/ FindBest \/ UpdateUnconstrained \/ ReadRequest \/ TotalPower
  BY <1>4, <1>14 DEF ProviderRemoved, FindBest, UpdateUnconstrained, ReadRequest,
     TotalPower, Return, Dropping, Connecting
<1>15. CASE ConnectProviderPsu
  BY <1>4, <1>5, <1>15 DEF ConnectProviderPsu, Return, Fault, Dropping, Connecting
<1>16. CASE UNCHANGED vars
  BY <1>16 DEF vars, ListenerInv
<1> QED
  BY <1>2, <1>3, <1>6, <1>7, <1>8, <1>9, <1>10, <1>11, <1>12, <1>13, <1>14, <1>15, <1>16
  DEF Next, Policy

\* Between events, listeners of the consumer notifications have been told
\* exactly what current_consumer_state says, as long as no driver call failed.
THEOREM ListenersAgreeHolds == Spec => []ListenersAgree
<1>1. Init => ListenerInv
  BY DEF Init, ListenerInv, Dropping, Connecting
<1>2. TypeOK /\ ControlInv /\ ListenerInv /\ [Next]_vars
      => TypeOK' /\ ControlInv' /\ ListenerInv'
  BY TypeStep, ListenerStep
<1>3. ListenerInv => ListenersAgree
  BY DEF ListenerInv, ListenersAgree, Dropping, Connecting
<1> QED  BY <1>1, <1>2, <1>3, TypeInit, PTL DEF Spec
-----------------------------------------------------------------------------
(* Tracked providers provide.                                               *)

\* A tracked provider provides, or the report of its end is queued or lost.
TrackedInv ==
    \A p \in connected :
        \/ p \in Providing
        \/ lost[p]
        \/ \E i \in 1..Len(queue[p]) : Ending(queue[p][i])

\* A provider ends by its driver, which reports it; the policy tracks a PSU as
\* it connects it and forgets it with the report.  Connecting or disconnecting a
\* consumer never takes a provider away.
LEMMA TrackedStep ==
    ASSUME TypeOK, ControlInv, TrackedInv, [Next]_vars
    PROVE  TrackedInv'
<1> USE DEF service, locals, listeners, history, bounds
<1>1. connected \subseteq Psus /\ psu \in [Psus -> State] /\ queue \in [Psus -> Seq(EventData)]
  BY DEF TypeOK
<1>2. ASSUME NEW p \in Psus, Driver(p)
      PROVE  TrackedInv'
  <2>1. DriverEffect
    BY <1>2, DriverFacts
  <2> QED  BY <1>1, <2>1 DEF DriverEffect, TrackedInv, Providing
<1>3. ASSUME NEW c \in Chargers, ChargerDriver(c)
      PROVE  TrackedInv'
  BY <1>3, ChargerDriverFacts DEF TrackedInv, Providing
<1>4. CASE UNCHANGED <<psu, connected, lost, queue>>
  BY <1>4 DEF TrackedInv, Providing
<1>5. ASSUME NEW p \in Psus, ProcessPsuEvent(p)
      PROVE  TrackedInv'
  <2>1. /\ queue[p] \in Seq(EventData) /\ queue[p] # << >>
        /\ queue' = [queue EXCEPT ![p] = Tail(queue[p])]
        /\ psu' = psu /\ lost' = lost
        /\ connected' \subseteq connected
        /\ Ending(Head(queue[p])) => p \notin connected'
    BY <1>1, <1>5 DEF ProcessPsuEvent, Received, WithoutProvider, Ending
  <2>2. ASSUME NEW i \in 1..Len(queue[p]), Ending(queue[p][i]), p \in connected'
        PROVE  \E j \in 1..Len(Tail(queue[p])) : Ending(Tail(queue[p])[j])
    <3>1. Head(queue[p]) = queue[p][1]
      BY <2>1
    <3>2. i # 1
      BY <2>1, <2>2, <3>1
    <3>3. i - 1 \in 1..Len(Tail(queue[p])) /\ Tail(queue[p])[i - 1] = queue[p][i]
      BY <2>1, <3>2
    <3> QED  BY <2>2, <3>3
  <2>3. ASSUME NEW q \in connected'
        PROVE  q \in Providing \/ lost[q] \/ \E i \in 1..Len(queue'[q]) : Ending(queue'[q][i])
    <3>1. q \in Psus /\ q \in connected
      BY <1>1, <2>1
    <3>2. CASE q = p
      BY <1>1, <2>1, <2>2, <2>3, <3>1, <3>2 DEF TrackedInv
    <3>3. CASE q # p
      BY <1>1, <2>1, <3>1, <3>3 DEF TrackedInv
    <3> QED  BY <3>2, <3>3
  <2> QED  BY <2>1, <2>3 DEF TrackedInv, Providing
<1>6. CASE /\ UNCHANGED <<connected, lost, queue>>
           /\ \A p \in Psus : psu[p].state = "ConnectedProvider" => psu'[p].state = "ConnectedProvider"
  BY <1>1, <1>6 DEF TrackedInv, Providing
<1>7. CASE DropCurrent
  <2>1. prev \in AvailableConsumer /\ prev.psu \in Psus
    BY <1>7 DEF DropCurrent, TypeOK, ControlInv, AvailableConsumer
  <2>2. \A p \in Psus : psu[p].state = "ConnectedProvider" => psu'[p].state = "ConnectedProvider"
    BY <1>1, <1>7, <2>1 DEF DropCurrent
  <2> QED  BY <1>6, <1>7, <2>2 DEF DropCurrent
<1>8. CASE ConnectNew
  <2>1. best \in AvailableConsumer /\ best.psu \in Psus
    BY <1>8 DEF ConnectNew, TypeOK, ControlInv, AvailableConsumer
  <2>2. \A p \in Psus : psu[p].state = "ConnectedProvider" => psu'[p].state = "ConnectedProvider"
    BY <1>1, <1>8, <2>1 DEF ConnectNew, CanConnectConsumer
  <2> QED  BY <1>6, <1>8, <2>2 DEF ConnectNew
<1>9. CASE ConnectProviderPsu
  <2>1. dev \in Psus
    BY <1>9 DEF ConnectProviderPsu, ControlInv, TypeOK
  <2>2. CASE /\ psu' = [psu EXCEPT ![dev] = ConnectProvider(psu[dev], TargetPower)]
             /\ connected' \subseteq connected \cup {dev}
    <3>1. psu'[dev].state = "ConnectedProvider"
          /\ \A p \in Psus \ {dev} : psu'[p] = psu[p]
      BY <1>1, <2>1, <2>2 DEF ConnectProvider
    <3> QED  BY <1>1, <1>9, <2>1, <2>2, <3>1 DEF ConnectProviderPsu, TrackedInv, Providing
  <2>3. CASE psu' = psu /\ connected' = connected
    BY <1>4, <1>9, <2>3 DEF ConnectProviderPsu
  <2> QED  BY <1>9, <2>2, <2>3 DEF ConnectProviderPsu
<1>10. CASE \/ ProviderRemoved \/ FindBest \/ Select \/ DetachChargers \/ AttachChargers
            \/ NotifyDisconnected \/ NotifyConnected \/ UpdateUnconstrained \/ ReadRequest
            \/ TotalPower
  BY <1>4, <1>10 DEF ProviderRemoved, FindBest, Select, DetachChargers, AttachChargers,
     NotifyDisconnected, NotifyConnected, UpdateUnconstrained, ReadRequest, TotalPower
<1>11. CASE UNCHANGED vars
  BY <1>4, <1>11 DEF vars
<1> QED
  BY <1>2, <1>3, <1>5, <1>7, <1>8, <1>9, <1>10, <1>11 DEF Next, Policy

\* With the channels drained and nothing lost, connected_providers names only PSUs
\* that are providing, for any number of PSUs, channel size and interleaving of a
\* teardown with the connection it ends.
THEOREM TrackedProvideHolds == Spec => []TrackedProvide
<1>1. Init => TrackedInv
  BY DEF Init, TrackedInv
<1>2. TypeOK /\ ControlInv /\ TrackedInv /\ [Next]_vars
      => TypeOK' /\ ControlInv' /\ TrackedInv'
  BY TypeStep, TrackedStep
<1>3. TypeOK /\ TrackedInv => TrackedProvide
  <2> SUFFICES ASSUME TypeOK, TrackedInv, NEW p \in connected, queue[p] = << >>, ~lost[p]
               PROVE  p \in Providing
    BY DEF TrackedProvide, TypeOK
  <2>1. 1..Len(queue[p]) = {}
    OBVIOUS
  <2> QED  BY <2>1 DEF TrackedInv
<1> QED  BY <1>1, <1>2, <1>3, TypeInit, PTL DEF Spec
-----------------------------------------------------------------------------
(* Chargers follow the consumer.                                            *)

\* A charger is powered and programmed for another consumer than a.
Strays(s, a) ==
    /\ ~IsUnpowered(s)
    /\ s.cap # None
    /\ a # None => s.cap # a.cap

\* While no call has failed, chargers are programmed for the current consumer;
\* during a switch for the one being dropped, those that the switch has gone
\* through for none, and then for the new one.
ChargerInv ==
    faults = 0 =>
        \A c \in Chargers :
            /\ pc \notin Dropping \cup Connecting => ~Strays(charger[c], current)
            /\ pc \in Dropping => ~Strays(charger[c], prev)
            /\ (pc = "DetachChargers" /\ c < idx) => ~Strays(charger[c], None)
            /\ pc \in {"NotifyDisconnected", "ConnectNew"} => ~Strays(charger[c], None)
            /\ pc \in {"AttachChargers", "NotifyConnected"} => ~Strays(charger[c], best)

\* Whatever its driver does, a charger that is not programmed for a stranger is
\* not afterwards: it loses its capability when it is powered again.
LEMMA ChargerDriverStrays ==
    ASSUME TypeOK, NEW c \in Chargers, ChargerDriver(c)
    PROVE  \A d \in Chargers : \A a : Strays(charger'[d], a) => Strays(charger[d], a)
<1>1. charger \in [Chargers -> ChargerState]
  BY DEF TypeOK
<1>2. ASSUME NEW s, DriveCharger(c, s), \A a : Strays(s, a) => Strays(charger[c], a)
      PROVE  \A d \in Chargers : \A a : Strays(charger'[d], a) => Strays(charger[d], a)
  BY <1>1, <1>2 DEF DriveCharger
<1>3. ASSUME NEW a, NEW ps \in ChargerPsuState
      PROVE  /\ ~Strays(OnTimeout(charger[c]), a)
             /\ Strays(OnReadySuccess(charger[c]), a) => Strays(charger[c], a)
             /\ ~Strays(OnReadyFailure(charger[c]), a)
             /\ Strays(OnInitialized(charger[c], ps), a) => Strays(charger[c], a)
             /\ Strays(OnPsuStateChange(charger[c], ps), a) => Strays(charger[c], a)
  BY <1>1 DEF ChargerState, InternalState, DefaultCharger, OnInitialized, OnPsuStateChange,
     OnTimeout, OnReadySuccess, OnReadyFailure, AfterPsuState, IsUnpowered, Strays
<1>4. "Attached" \in ChargerPsuState
  BY DEF ChargerPsuState
<1> QED  BY <1>2, <1>3, <1>4 DEF ChargerDriver

\* A switch detaches every charger that is powered before it attaches any.
LEMMA ChargerStep ==
    ASSUME TypeOK, ControlInv, ChargerInv, [Next]_vars
    PROVE  ChargerInv'
<1> USE DEF service, locals, listeners, history, bounds
<1>1. charger \in [Chargers -> ChargerState] /\ faults \in Nat /\ idx \in Nat
  BY PowerPolicyAssumption DEF TypeOK
<1>2. ASSUME NEW p \in Psus, Driver(p)
      PROVE  ChargerInv'
  <2>1. DriverEffect
    BY <1>2, DriverFacts
  <2> QED  BY <2>1 DEF DriverEffect, ChargerInv
<1>3. ASSUME NEW c \in Chargers, ChargerDriver(c)
      PROVE  ChargerInv'
  <2>1. UNCHANGED <<psu, queue, service, pc, locals, listeners, history, faults>>
    BY <1>3, ChargerDriverFacts
  <2>2. \A d \in Chargers : \A a : Strays(charger'[d], a) => Strays(charger[d], a)
    BY <1>3, ChargerDriverStrays
  <2> QED  BY <2>1, <2>2 DEF ChargerInv
<1>4. CASE /\ UNCHANGED <<charger, current, faults>>
           /\ pc \notin Dropping \cup Connecting
           /\ pc' \notin Dropping \cup Connecting
  BY <1>4 DEF ChargerInv, Dropping, Connecting
<1>5. CASE faults' = faults + 1
  BY <1>1, <1>5 DEF ChargerInv
<1>6. CASE Select
  <2>1. /\ idx = 1 /\ pc = "Select" /\ UNCHANGED <<charger, idx, best, faults>>
        /\ \A c \in Chargers : ~(c < idx)
    BY <1>6 DEF Select, ControlInv, Chargers
  <2>2. \/ pc' = "Unconstrained" /\ current' = current
        \/ pc' \in {"DropCurrent", "DetachChargers"} /\ prev' = current
        \/ pc' = "ConnectNew" /\ current = None
    BY <1>6 DEF Select
  <2> QED  BY <2>1, <2>2 DEF ChargerInv, Dropping, Connecting
<1>7. CASE DropCurrent
  <2>1. CASE faults' = faults /\ pc' = "DetachChargers" /\ UNCHANGED <<charger, prev, idx>>
    <3>1. idx = 1 /\ \A c \in Chargers : ~(c < idx)
      BY <1>7 DEF DropCurrent, ControlInv, Chargers
    <3> QED  BY <1>7, <2>1, <3>1 DEF DropCurrent, ChargerInv, Dropping, Connecting
  <2> QED  BY <1>5, <1>7, <2>1 DEF DropCurrent, Fault
<1>8. CASE DetachChargers
  <2>1. CASE /\ idx \in Chargers
             /\ charger' = IF IsUnpowered(charger[idx]) THEN charger
                           ELSE [charger EXCEPT ![idx] = OnPolicyDetach(@)]
             /\ idx' = idx + 1
             /\ UNCHANGED <<pc, prev, faults>>
    <3>1. ~Strays(charger'[idx], None) /\ ~Strays(charger'[idx], prev)
      BY <1>1, <2>1 DEF Strays, OnPolicyDetach, ChargerState
    <3>2. \A c \in Chargers \ {idx} : charger'[c] = charger[c]
      BY <1>1, <2>1
    <3>3. \A c \in Chargers : c < idx' => c < idx \/ c = idx
      BY <1>1, <2>1 DEF Chargers
    <3> QED  BY <1>8, <2>1, <3>1, <3>2, <3>3 DEF DetachChargers, ChargerInv, Dropping, Connecting
  <2>2. CASE /\ idx \notin Chargers /\ pc' = "NotifyDisconnected"
             /\ UNCHANGED <<charger, prev, faults>>
    <3>1. \A c \in Chargers : c < idx
      BY <2>2, PowerPolicyAssumption DEF Chargers, TypeOK
    <3> QED  BY <1>8, <2>2, <3>1 DEF DetachChargers, ChargerInv, Dropping, Connecting
  <2> QED  BY <1>5, <1>8, <2>1, <2>2 DEF DetachChargers, Fault
<1>9. CASE NotifyDisconnected
  <2>1. pc' \in {"ConnectNew", "Unconstrained"} /\ UNCHANGED <<charger, faults>>
        /\ (pc' = "Unconstrained" => current' = None)
    BY <1>9 DEF NotifyDisconnected
  <2> QED  BY <1>9, <2>1 DEF NotifyDisconnected, ChargerInv, Dropping, Connecting
<1>10. CASE ConnectNew
  <2>1. CASE pc' = "AttachChargers" /\ UNCHANGED <<charger, best, faults>>
    BY <1>10, <2>1 DEF ConnectNew, ChargerInv, Strays, Dropping, Connecting
  <2>2. CASE pc' = "WaitEvent" /\ UNCHANGED <<charger, current, faults>>
    BY <1>10, <2>2 DEF ConnectNew, ChargerInv, Strays, Dropping, Connecting
  <2> QED  BY <1>5, <1>10, <2>1, <2>2 DEF ConnectNew, Fault, Return
<1>11. CASE AttachChargers
  <2>1. best # None
    BY <1>11 DEF AttachChargers, ControlInv
  <2>2. ASSUME idx \in Chargers, NEW s \in ChargerState,
               charger' = [charger EXCEPT ![idx] = OnPolicyAttach(s, best.cap)],
               UNCHANGED <<pc, best, faults>>
        PROVE  ChargerInv'
    <3>1. charger'[idx].cap = best.cap
      BY <1>1, <2>2 DEF OnPolicyAttach, ChargerState
    <3>2. ~Strays(charger'[idx], best)
      BY <2>1, <3>1 DEF Strays
    <3>3. \A c \in Chargers \ {idx} : charger'[c] = charger[c]
      BY <1>1, <2>2
    <3> QED  BY <1>11, <2>2, <3>2, <3>3 DEF AttachChargers, ChargerInv, Dropping, Connecting
  <2>3. CASE /\ idx \in Chargers /\ UNCHANGED <<pc, best, faults>>
             /\ \E ps \in ChargerPsuState :
                   charger' = [charger EXCEPT ![idx] = OnPolicyAttach(
                       IF IsUnpowered(charger[idx])
                       THEN OnInitialized(OnReadySuccess(charger[idx]), ps)
                       ELSE charger[idx], best.cap)]
    <3>1. ASSUME NEW ps \in ChargerPsuState
          PROVE  (IF IsUnpowered(charger[idx])
                  THEN OnInitialized(OnReadySuccess(charger[idx]), ps)
                  ELSE charger[idx]) \in ChargerState
      BY <1>1, <2>3 DEF ChargerState, InternalState, OnInitialized, OnReadySuccess,
         AfterPsuState, IsUnpowered
    <3> QED  BY <2>2, <2>3, <3>1
  <2>4. CASE pc' = "NotifyConnected" /\ UNCHANGED <<charger, best, faults>>
    BY <1>11, <2>4 DEF AttachChargers, ChargerInv, Dropping, Connecting
  <2> QED  BY <1>5, <1>11, <2>3, <2>4 DEF AttachChargers, Fault
<1>12. CASE NotifyConnected
  <2>1. current = best
    BY <1>12 DEF NotifyConnected, ControlInv
  <2> QED  BY <1>12, <2>1 DEF NotifyConnected, ChargerInv, Dropping, Connecting
<1>13. ASSUME NEW p \in Psus, ProcessPsuEvent(p)
       PROVE  ChargerInv'
  BY <1>4, <1>13 DEF ProcessPsuEvent, Dropping, Connecting
<1>14. CASE ProviderRemoved \/ FindBest \/ UpdateUnconstrained \/ ReadRequest \/ TotalPower
  BY <1>4, <1>14 DEF ProviderRemoved, FindBest, UpdateUnconstrained, ReadRequest,
     TotalPower, Return, Dropping, Connecting
<1>15. CASE ConnectProviderPsu
  BY <1>4, <1>5, <1>15 DEF ConnectProviderPsu, Return, Fault, Dropping, Connecting
<1>16. CASE UNCHANGED vars
  BY <1>16 DEF vars, ChargerInv
<1> QED
  BY <1>2, <1>3, <1>6, <1>7, <1>8, <1>9, <1>10, <1>11, <1>12, <1>13, <1>14, <1>15, <1>16
  DEF Next, Policy

\* Between events and without a failed call, a powered charger is programmed for
\* the current consumer or not at all, for any number of chargers and whatever
\* they do by themselves in the middle of a switch.
THEOREM ChargersFollowHolds == Spec => []ChargersFollow
<1>1. Init => ChargerInv
  BY DEF Init, ChargerInv, Strays, Dropping, Connecting, DefaultCharger, IsUnpowered
<1>2. TypeOK /\ ControlInv /\ ChargerInv /\ [Next]_vars
      => TypeOK' /\ ControlInv' /\ ChargerInv'
  BY TypeStep, ChargerStep
<1>3. ChargerInv => ChargersFollow
  BY DEF ChargerInv, ChargersFollow, Strays, Dropping, Connecting
<1> QED  BY <1>1, <1>2, <1>3, TypeInit, PTL DEF Spec
-----------------------------------------------------------------------------
(* A selection finds the best offer.                                        *)

\* `best` is the best offer of the PSUs below n.
BestBelow(n) ==
    IF best = None THEN \A p \in Psus : p < n => ~Eligible(seen[p])
    ELSE /\ best.psu < n
         /\ seen[best.psu] = best.cap
         /\ Eligible(best.cap)
         /\ \A p \in Psus : (p < n /\ Eligible(seen[p]))
                            => MaxPowerMw(seen[p]) <= MaxPowerMw(best.cap)

\* Among equals below n, `best` is the current consumer's PSU.
StickyBelow(n) ==
    \A p \in Psus :
        (/\ p < n /\ IsCurrent(p) /\ best # None
         /\ Eligible(seen[p]) /\ MaxPowerMw(seen[p]) = MaxPowerMw(best.cap))
        => best.psu = p

\* a is the best of the offers read.
BestSeen(a) ==
    /\ seen[a.psu] = a.cap
    /\ Eligible(a.cap)
    /\ \A p \in Psus : Eligible(seen[p]) => MaxPowerMw(seen[p]) <= MaxPowerMw(a.cap)

\* A selection goes through the PSUs and ends with the best offer; a consumer
\* that is dropped no longer is the best.
BestInv ==
    /\ pc = "FindBest" => BestBelow(idx) /\ StickyBelow(idx)
    /\ pc = "Select" => BestBelow(NumPsus + 1) /\ StickyBelow(NumPsus + 1)
    /\ pc \in Dropping \cup Connecting => BestBelow(NumPsus + 1)
    /\ pc \in Dropping => ~BestSeen(prev)

\* Nothing but a selection reads the PSUs' capabilities, and only drivers change
\* them.
LEMMA PolicyKeeps ==
    ASSUME TypeOK, ControlInv, Policy
    PROVE  /\ pc # "FindBest" => UNCHANGED <<missed, seen>>
           /\ pc # "WaitEvent" => UNCHANGED queue
           /\ \A p \in Psus : psu'[p].consumer = psu[p].consumer
<1> USE DEF service, locals, listeners, history, bounds
<1>1. psu \in [Psus -> State]
  BY DEF TypeOK
<1>2. CASE DropCurrent
  <2>1. prev.psu \in Psus
    BY <1>2 DEF DropCurrent, TypeOK, ControlInv, AvailableConsumer
  <2>2. Disconnect(psu[prev.psu], FALSE).consumer = psu[prev.psu].consumer
    BY DEF Disconnect
  <2> QED  BY <1>1, <1>2, <2>1, <2>2 DEF DropCurrent
<1>3. CASE ConnectNew
  <2>1. best.psu \in Psus
    BY <1>3 DEF ConnectNew, TypeOK, ControlInv, AvailableConsumer
  <2>2. ConnectConsumer(psu[best.psu], best.cap).consumer = psu[best.psu].consumer
    BY DEF ConnectConsumer
  <2> QED  BY <1>1, <1>3, <2>1, <2>2 DEF ConnectNew
<1>4. CASE ConnectProviderPsu
  <2>1. dev \in Psus
    BY <1>4 DEF ConnectProviderPsu, ControlInv, TypeOK
  <2>2. ConnectProvider(psu[dev], TargetPower).consumer = psu[dev].consumer
    BY DEF ConnectProvider
  <2> QED  BY <1>1, <1>4, <2>1, <2>2 DEF ConnectProviderPsu
<1>5. CASE \/ \E p \in Psus : ProcessPsuEvent(p)
           \/ ProviderRemoved \/ FindBest \/ Select \/ DetachChargers
           \/ NotifyDisconnected \/ AttachChargers \/ NotifyConnected
           \/ UpdateUnconstrained \/ ReadRequest \/ TotalPower
  BY <1>5 DEF ProcessPsuEvent, ProviderRemoved, FindBest, Select, DetachChargers,
     NotifyDisconnected, AttachChargers, NotifyConnected, UpdateUnconstrained,
     ReadRequest, TotalPower
<1> QED  BY <1>2, <1>3, <1>4, <1>5 DEF Policy

\* One iteration of find_best_consumer_default.
LEMMA FindBestIteration ==
    ASSUME TypeOK, pc = "FindBest", idx \in Psus, BestBelow(idx), StickyBelow(idx), FindBest
    PROVE  /\ pc' = "FindBest" /\ idx' = idx + 1
           /\ BestBelow(idx)' /\ StickyBelow(idx)'
<1> DEFINE c == psu[idx].consumer
<1>1. /\ pc' = pc /\ idx' = idx + 1 /\ current' = current
      /\ seen' = [seen EXCEPT ![idx] = c]
      /\ best' = IF Eligible(c) /\ (best = None \/ Better(c, idx, best))
                 THEN [psu |-> idx, cap |-> c] ELSE best
  BY DEF FindBest, service
<1>2. /\ seen \in [Psus -> ConsumerCaps \cup {None}] /\ c \in ConsumerCaps \cup {None}
      /\ best \in AvailableConsumer \cup {None} /\ idx \in Nat
      /\ current \in AvailableConsumer \cup {None}
  BY DEF TypeOK, State
<1>3. /\ \A p \in Psus : Eligible(seen[p]) => MaxPowerMw(seen[p]) \in Nat
      /\ Eligible(c) => MaxPowerMw(c) \in Nat
      /\ best # None => MaxPowerMw(best.cap) \in Nat /\ best.psu \in Psus
  BY <1>2, PowerFacts DEF Eligible, AvailableConsumer
<1>4. /\ seen'[idx] = c
      /\ \A p \in Psus : p < idx => seen'[p] = seen[p]
      /\ \A p \in Psus : p < idx + 1 => p < idx \/ p = idx
  BY <1>1, <1>2 DEF Psus
<1>5. CASE Eligible(c) /\ (best = None \/ Better(c, idx, best))
  <2>1. best' = [psu |-> idx, cap |-> c] /\ best' # None /\ best'.psu = idx /\ best'.cap = c
    <3>1. [psu |-> idx, cap |-> c] \in AvailableConsumer
      BY <1>2, <1>5 DEF AvailableConsumer, Eligible
    <3> QED  BY <1>1, <1>5, <3>1, PowerPolicyAssumption
  <2>2. ASSUME NEW p \in Psus, p < idx, Eligible(seen[p])
        PROVE  /\ MaxPowerMw(seen[p]) <= MaxPowerMw(c)
               /\ IsCurrent(p) => MaxPowerMw(seen[p]) # MaxPowerMw(c)
    <3>1. best # None /\ MaxPowerMw(seen[p]) <= MaxPowerMw(best.cap) /\ Better(c, idx, best)
      BY <1>5, <2>2 DEF BestBelow
    <3>2. MaxPowerMw(seen[p]) \in Nat /\ MaxPowerMw(best.cap) \in Nat /\ MaxPowerMw(c) \in Nat
      BY <1>3, <1>5, <2>2, <3>1
    <3>3. CASE MaxPowerMw(c) > MaxPowerMw(best.cap)
      BY <3>1, <3>2, <3>3
    <3>4. CASE MaxPowerMw(c) = MaxPowerMw(best.cap) /\ IsCurrent(idx)
      <4>1. ~IsCurrent(p)
        BY <1>2, <2>2, <3>4 DEF IsCurrent, Psus
      <4> QED  BY <3>1, <3>2, <3>4, <4>1
    <3> QED  BY <3>1, <3>3, <3>4 DEF Better
  <2>3. idx < idx + 1 /\ MaxPowerMw(c) <= MaxPowerMw(c)
    BY <1>2, <1>3, <1>5
  <2>4. BestBelow(idx)'
    BY <1>1, <1>4, <1>5, <2>1, <2>2, <2>3 DEF BestBelow, Eligible
  <2>5. StickyBelow(idx)'
    BY <1>1, <1>4, <2>1, <2>2 DEF StickyBelow, IsCurrent, Eligible
  <2> QED  BY <1>1, <2>4, <2>5
<1>6. CASE ~(Eligible(c) /\ (best = None \/ Better(c, idx, best)))
  <2>1. best' = best
    BY <1>1, <1>6
  <2>2. CASE best = None
    BY <1>1, <1>4, <1>6, <2>1, <2>2 DEF BestBelow, StickyBelow, Eligible
  <2>3. CASE best # None
    <3>1. /\ best.psu < idx /\ seen[best.psu] = best.cap /\ Eligible(best.cap)
          /\ best.psu \in Psus /\ best.psu < idx + 1 /\ seen'[best.psu] = best.cap
      BY <1>2, <1>3, <1>4, <2>3 DEF BestBelow, Psus
    <3>2. Eligible(c) => /\ MaxPowerMw(c) <= MaxPowerMw(best.cap)
                         /\ (MaxPowerMw(c) = MaxPowerMw(best.cap) /\ IsCurrent(idx))
                               => IsCurrent(best.psu)
      BY <1>3, <1>6, <2>3 DEF Better
    <3>3. BestBelow(idx)'
      BY <1>1, <1>4, <2>1, <2>3, <3>1, <3>2 DEF BestBelow, Eligible
    <3>4. StickyBelow(idx)'
      BY <1>1, <1>4, <2>1, <2>3, <3>2 DEF StickyBelow, IsCurrent, Eligible
    <3> QED  BY <1>1, <3>3, <3>4
  <2> QED  BY <2>2, <2>3
<1> QED  BY <1>5, <1>6

\* The consumer that Select drops is not the best: it would have been kept.
LEMMA DroppedIsBeaten ==
    ASSUME TypeOK, BestBelow(NumPsus + 1), StickyBelow(NumPsus + 1),
           current # None, best # current
    PROVE  ~BestSeen(current)
<1> SUFFICES ASSUME BestSeen(current) PROVE FALSE
  OBVIOUS
<1>1. /\ current \in AvailableConsumer /\ current.psu \in Psus
      /\ best \in AvailableConsumer \cup {None}
      /\ seen \in [Psus -> ConsumerCaps \cup {None}]
  BY DEF TypeOK, AvailableConsumer
<1>2. \A p \in Psus : p < NumPsus + 1
  BY PowerPolicyAssumption DEF Psus
<1>3. seen[current.psu] = current.cap /\ Eligible(current.cap)
  BY DEF BestSeen
<1>4. best # None
  BY <1>1, <1>2, <1>3 DEF BestBelow
<1>5. best \in AvailableConsumer /\ best.psu \in Psus
      /\ seen[best.psu] = best.cap /\ Eligible(best.cap)
  BY <1>1, <1>4 DEF BestBelow, AvailableConsumer
<1>6. /\ MaxPowerMw(best.cap) \in Nat /\ MaxPowerMw(current.cap) \in Nat
  BY <1>1, <1>5, PowerFacts DEF AvailableConsumer
<1>7. MaxPowerMw(best.cap) = MaxPowerMw(current.cap)
  <2>1. MaxPowerMw(current.cap) <= MaxPowerMw(best.cap)
    BY <1>1, <1>2, <1>3, <1>4 DEF BestBelow
  <2>2. MaxPowerMw(best.cap) <= MaxPowerMw(current.cap)
    BY <1>5 DEF BestSeen
  <2> QED  BY <1>6, <2>1, <2>2
<1>8. best.psu = current.psu
  BY <1>1, <1>2, <1>3, <1>4, <1>7 DEF StickyBelow, IsCurrent
<1>9. best = current
  BY <1>1, <1>3, <1>5, <1>8 DEF AvailableConsumer
<1> QED  BY <1>9

LEMMA BestStep ==
    ASSUME TypeOK, ControlInv, BestInv, [Next]_vars
    PROVE  BestInv'
<1> USE DEF service, locals, listeners, history, bounds
<1>1. CASE UNCHANGED <<pc, idx, best, prev, current, seen>>
  BY <1>1 DEF BestInv, BestBelow, StickyBelow, BestSeen, IsCurrent
<1>2. ASSUME NEW p \in Psus, Driver(p)
      PROVE  BestInv'
  BY <1>1, <1>2, DriverFacts DEF DriverEffect
<1>3. ASSUME NEW c \in Chargers, ChargerDriver(c)
      PROVE  BestInv'
  BY <1>1, <1>3, ChargerDriverFacts
<1>4. CASE pc' \notin {"FindBest", "Select"} \cup Dropping \cup Connecting
  BY <1>4 DEF BestInv, Dropping
<1>5. CASE pc' = "FindBest" /\ idx' = 1 /\ best' = None
  BY <1>5 DEF BestInv, BestBelow, StickyBelow, Dropping, Connecting, Psus
<1>6. ASSUME NEW p \in Psus, ProcessPsuEvent(p)
      PROVE  BestInv'
  <2>1. idx' = 1 /\ best' = None
    BY <1>6 DEF ProcessPsuEvent, ControlInv
  <2>2. pc' = "FindBest" \/ pc' \in {"WaitEvent", "ProviderRemoved", "ReadRequest"}
    BY <1>6 DEF ProcessPsuEvent
  <2> QED  BY <1>4, <1>5, <2>1, <2>2 DEF Dropping, Connecting
<1>7. CASE ProviderRemoved
  <2>1. best' = None
    BY <1>7 DEF ProviderRemoved, ControlInv
  <2>2. pc' = "ProviderRemoved" \/ (pc' = "FindBest" /\ idx' = 1)
    BY <1>7 DEF ProviderRemoved
  <2> QED  BY <1>4, <1>5, <2>1, <2>2 DEF Dropping, Connecting
<1>8. CASE FindBest
  <2>1. pc = "FindBest" /\ BestBelow(idx) /\ StickyBelow(idx)
    BY <1>8 DEF FindBest, BestInv
  <2>2. CASE idx \in Psus
    <3>1. pc' = "FindBest" /\ idx' = idx + 1 /\ BestBelow(idx)' /\ StickyBelow(idx)'
      BY <1>8, <2>1, <2>2, FindBestIteration
    <3> QED  BY <3>1 DEF BestInv, Dropping, Connecting
  <2>3. CASE idx \notin Psus
    <3>1. pc' = "Select" /\ UNCHANGED <<best, seen, current>>
      BY <1>8, <2>3 DEF FindBest
    <3>2. /\ \A p \in Psus : p < idx /\ p < NumPsus + 1
          /\ best # None => best.psu \in Psus
      BY <2>3, PowerPolicyAssumption DEF Psus, TypeOK, AvailableConsumer
    <3>3. BestBelow(NumPsus + 1)' /\ StickyBelow(NumPsus + 1)'
      BY <2>1, <3>1, <3>2 DEF BestBelow, StickyBelow, IsCurrent, Eligible
    <3> QED  BY <3>1, <3>3 DEF BestInv, Dropping, Connecting
  <2> QED  BY <2>2, <2>3
<1>9. CASE Select
  <2>1. BestBelow(NumPsus + 1) /\ StickyBelow(NumPsus + 1) /\ UNCHANGED <<best, seen>>
    BY <1>9 DEF Select, BestInv
  <2>2. BestBelow(NumPsus + 1)'
    BY <2>1 DEF BestBelow
  <2>3. ASSUME pc' \in Dropping
        PROVE  ~BestSeen(prev)'
    <3>1. current # None /\ best # current /\ prev' = current
      BY <1>9, <2>3 DEF Select, Dropping
    <3>2. ~BestSeen(current)
      BY <2>1, <3>1, DroppedIsBeaten
    <3> QED  BY <2>1, <3>1, <3>2 DEF BestSeen
  <2>4. pc' \notin {"FindBest", "Select"}
    BY <1>9 DEF Select
  <2> QED  BY <2>2, <2>3, <2>4 DEF BestInv
<1>10. CASE /\ pc \in Dropping \cup Connecting /\ pc' \in Dropping \cup Connecting
            /\ pc' \in Dropping => pc \in Dropping
            /\ UNCHANGED <<best, prev, seen>>
  BY <1>10 DEF BestInv, BestBelow, BestSeen, Dropping, Connecting
<1>11. CASE DropCurrent \/ DetachChargers \/ NotifyDisconnected
  BY <1>4, <1>10, <1>11
  DEF DropCurrent, DetachChargers, NotifyDisconnected, Return, Dropping, Connecting
<1>12. CASE ConnectNew \/ AttachChargers \/ NotifyConnected
  BY <1>4, <1>10, <1>12
  DEF ConnectNew, AttachChargers, NotifyConnected, Return, Dropping, Connecting
<1>13. CASE UpdateUnconstrained \/ ReadRequest \/ TotalPower \/ ConnectProviderPsu
  BY <1>4, <1>13
  DEF UpdateUnconstrained, ReadRequest, TotalPower, ConnectProviderPsu, Return, Dropping,
      Connecting
<1>14. CASE UNCHANGED vars
  BY <1>1, <1>14 DEF vars
<1> QED
  BY <1>2, <1>3, <1>6, <1>7, <1>8, <1>9, <1>11, <1>12, <1>13, <1>14 DEF Next, Policy
\* While no call has failed, a step that listeners or the offers read show is one
\* of ConsumerSelection: FindBest learns an offer, NotifyConnected starts on the
\* best one, NotifyDisconnected stops one that is no longer the best.
LEMMA SelectionStep ==
    ASSUME TypeOK, ControlInv, ListenerInv, BestInv, [Next]_vars
    PROVE  [faults' = 0 => Selection!Next]_<<told, seen>>
<1> USE DEF service, locals, listeners, history, bounds
<1>1. ASSUME NEW a \in AvailableConsumer
      PROVE  Selection!Justified(a) <=> BestSeen(a)
  BY DEF Selection!Justified, Selection!Acceptable, Selection!Unbeaten,
     Selection!MaxPowerMw, BestSeen, Eligible, MaxPowerMw
<1>2. CASE UNCHANGED <<told, seen>>
  BY <1>2
<1>3. ASSUME NEW p \in Psus, Driver(p)
      PROVE  UNCHANGED <<told, seen>>
  BY <1>3, DriverFacts DEF DriverEffect
<1>4. ASSUME NEW c \in Chargers, ChargerDriver(c)
      PROVE  UNCHANGED <<told, seen>>
  BY <1>4, ChargerDriverFacts
<1>5. CASE FindBest
  <2>1. CASE idx \in Psus
    <3>1. /\ told' = told /\ seen' = [seen EXCEPT ![idx] = psu[idx].consumer]
          /\ psu[idx].consumer \in ConsumerCaps \cup {None}
      BY <1>5, <2>1 DEF FindBest, TypeOK, State
    <3> QED  BY <2>1, <3>1 DEF Selection!Next, Selection!Learn
  <2>2. CASE idx \notin Psus
    BY <1>2, <1>5, <2>2 DEF FindBest
  <2> QED  BY <2>1, <2>2
<1>6. CASE NotifyConnected
  <2>1. /\ best \in AvailableConsumer /\ best # None /\ BestBelow(NumPsus + 1)
        /\ told' = best /\ seen' = seen /\ faults' = faults
    BY <1>6 DEF NotifyConnected, ControlInv, TypeOK, BestInv, Connecting
  <2>2. faults' = 0 => told = None
    BY <1>6, <2>1 DEF NotifyConnected, ListenerInv, Connecting
  <2>3. best.psu \in Psus /\ BestSeen(best)
    BY <2>1, PowerPolicyAssumption DEF BestBelow, BestSeen, AvailableConsumer, Psus
  <2>4. best = [psu |-> best.psu, cap |-> seen[best.psu]]
    BY <2>1, <2>3 DEF BestSeen, AvailableConsumer
  <2>5. Selection!Justified([psu |-> best.psu, cap |-> seen[best.psu]])
    BY <1>1, <2>1, <2>3, <2>4
  <2>6. faults' = 0 => Selection!Start(best.psu)
    BY <2>1, <2>2, <2>4, <2>5 DEF Selection!Start
  <2> QED  BY <2>3, <2>6 DEF Selection!Next
<1>7. CASE NotifyDisconnected
  <2>1. /\ prev \in AvailableConsumer /\ prev # None /\ ~BestSeen(prev)
        /\ seen' = seen /\ faults' = faults
        /\ told' = IF told # None /\ told.psu = prev.psu THEN None ELSE told
    BY <1>7 DEF NotifyDisconnected, ControlInv, TypeOK, BestInv, Dropping
  <2>2. faults' = 0 => told = prev
    BY <1>7, <2>1 DEF NotifyDisconnected, ListenerInv, Dropping
  <2>3. faults' = 0 => Selection!Stop
    BY <1>1, <2>1, <2>2 DEF Selection!Stop
  <2> QED  BY <2>3 DEF Selection!Next
<1>8. ASSUME NEW p \in Psus, ProcessPsuEvent(p)
      PROVE  UNCHANGED <<told, seen>>
  BY <1>8 DEF ProcessPsuEvent
<1>9. CASE \/ ProviderRemoved \/ Select \/ DropCurrent \/ DetachChargers \/ ConnectNew
           \/ AttachChargers \/ UpdateUnconstrained \/ ReadRequest \/ TotalPower
           \/ ConnectProviderPsu
  BY <1>2, <1>9 DEF ProviderRemoved, Select, DropCurrent, DetachChargers, ConnectNew,
     AttachChargers, UpdateUnconstrained, ReadRequest, TotalPower, ConnectProviderPsu
<1>10. CASE UNCHANGED vars
  BY <1>2, <1>10 DEF vars
<1> QED
  BY <1>2, <1>3, <1>4, <1>5, <1>6, <1>7, <1>8, <1>9, <1>10 DEF Next, Policy

\* PowerPolicy implements ConsumerSelection until a driver call fails: one consumer
\* at a time is announced, each when it was the best offer read, and withdrawn
\* only when it no longer was, for any number of PSUs that change their offers in
\* the middle of a selection.
THEOREM PolicyImplementsSelection == Spec => SelectionSpec
<1>1. Init => Selection!Init
  BY DEF Init, Selection!Init
<1>2. Init => ListenerInv /\ BestInv
  BY DEF Init, ListenerInv, BestInv, Dropping, Connecting
<1>3. TypeOK /\ ControlInv /\ ListenerInv /\ BestInv /\ [Next]_vars
      => /\ TypeOK' /\ ControlInv' /\ ListenerInv' /\ BestInv'
         /\ [faults' = 0 => Selection!Next]_<<told, seen>>
  BY TypeStep, ListenerStep, BestStep, SelectionStep
<1> QED  BY <1>1, <1>2, <1>3, TypeInit, PTL DEF Spec, SelectionSpec

-----------------------------------------------------------------------------
(* The selection converges.                                                 *)

\* No change of p's consumer capability is unreported or still queued.
Fresh(p) == NothingQueued(p) /\ ~missed[p]

\* The last selection, or the one that is running, has read p.
HasRead(p) == pc # "ProviderRemoved" /\ (pc = "FindBest" => p < idx)

\* What a selection read of a PSU is what the PSU offers now, unless a change
\* is still queued or was missed.
SeenInv == \A p \in Psus : (HasRead(p) /\ Fresh(p)) => seen[p] = psu[p].consumer

\* A PSU that is fresh after a driver's step was fresh before it, and offers the
\* same.
LEMMA DriverFresh ==
    ASSUME DriverEffect, NEW q \in Psus, Fresh(q)'
    PROVE  Fresh(q) /\ psu'[q].consumer = psu[q].consumer
BY DEF DriverEffect, Fresh, NothingQueued

\* So is one that is fresh after an event that selects nothing is taken.
LEMMA EventFresh ==
    ASSUME TypeOK, NEW p \in Psus, ProcessPsuEvent(p), pc' \notin {"ProviderRemoved", "FindBest"},
           NEW q \in Psus, Fresh(q)'
    PROVE  Fresh(q)
<1>1. /\ queue \in [Psus -> Seq(EventData)] /\ queue[p] # << >>
      /\ queue' = [queue EXCEPT ![p] = Tail(queue[p])] /\ missed' = missed
      /\ ~Selecting(Head(queue[p]))
  BY DEF TypeOK, ProcessPsuEvent, Received, Selecting, history
<1>2. CASE q # p
  BY <1>1, <1>2 DEF Fresh, NothingQueued
<1>3. CASE q = p
  <2>1. ASSUME NEW i \in 1..Len(queue[p])
        PROVE  ~Selecting(queue[p][i])
    <3>1. CASE i = 1
      BY <1>1, <3>1
    <3>2. CASE i # 1
      <4>1. i - 1 \in 1..Len(Tail(queue[p])) /\ Tail(queue[p])[i - 1] = queue[p][i]
        BY <1>1, <3>2
      <4>2. ~Selecting(Tail(queue[p])[i - 1])
        BY <1>1, <1>3, <4>1 DEF Fresh, NothingQueued
      <4> QED  BY <4>1, <4>2
    <3> QED  BY <3>1, <3>2
  <2> QED  BY <1>1, <1>3, <2>1 DEF Fresh, NothingQueued
<1> QED  BY <1>2, <1>3

LEMMA SeenStep ==
    ASSUME TypeOK, ControlInv, SeenInv, [Next]_vars
    PROVE  SeenInv'
<1> USE DEF service, locals, listeners, history, bounds
<1>1. ASSUME NEW p \in Psus, Driver(p)
      PROVE  SeenInv'
  <2>1. DriverEffect
    BY <1>1, DriverFacts
  <2>2. UNCHANGED <<pc, idx, seen>>
    BY <2>1 DEF DriverEffect
  <2> QED  BY <2>1, <2>2, DriverFresh DEF SeenInv, HasRead
<1>2. ASSUME NEW c \in Chargers, ChargerDriver(c)
      PROVE  SeenInv'
  BY <1>2, ChargerDriverFacts DEF SeenInv, HasRead, Fresh, NothingQueued
<1>3. ASSUME NEW p \in Psus, ProcessPsuEvent(p)
      PROVE  SeenInv'
  <2>1. pc = "WaitEvent" /\ UNCHANGED <<psu, seen>> /\ idx' = 1
    BY <1>3 DEF ProcessPsuEvent, ControlInv
  <2>2. CASE pc' \in {"ProviderRemoved", "FindBest"}
    BY <2>1, <2>2 DEF SeenInv, HasRead, Psus
  <2>3. CASE pc' \notin {"ProviderRemoved", "FindBest"}
    BY <1>3, <2>1, <2>3, EventFresh DEF SeenInv, HasRead
  <2> QED  BY <2>2, <2>3
<1>4. CASE FindBest
  <2>1. /\ psu' = psu /\ queue' = queue /\ pc = "FindBest"
        /\ seen \in [Psus -> ConsumerCaps \cup {None}] /\ missed \in [Psus -> BOOLEAN]
    BY <1>4 DEF FindBest, TypeOK
  <2>2. CASE idx \in Psus
    <3>1. /\ seen' = [seen EXCEPT ![idx] = psu[idx].consumer]
          /\ missed' = [missed EXCEPT ![idx] = FALSE]
          /\ idx' = idx + 1 /\ pc' = pc
      BY <1>4, <2>2 DEF FindBest
    <3>2. \A p \in Psus : p < idx + 1 => p < idx \/ p = idx
      BY <2>2 DEF Psus
    <3>3. ASSUME NEW p \in Psus, HasRead(p)', Fresh(p)'
          PROVE  seen'[p] = psu'[p].consumer
      <4>1. p < idx \/ p = idx
        BY <2>1, <3>1, <3>2, <3>3 DEF HasRead
      <4>2. CASE p = idx
        BY <2>1, <2>2, <3>1, <4>2
      <4>3. CASE p # idx
        <5>1. seen'[p] = seen[p] /\ missed'[p] = missed[p]
          BY <2>1, <3>1, <4>3
        <5>2. HasRead(p) /\ Fresh(p)
          BY <2>1, <3>3, <4>1, <4>3, <5>1 DEF HasRead, Fresh, NothingQueued
        <5> QED  BY <2>1, <5>1, <5>2 DEF SeenInv
      <4> QED  BY <4>2, <4>3
    <3> QED  BY <3>3 DEF SeenInv
  <2>3. CASE idx \notin Psus
    <3>1. \A p \in Psus : p < idx
      BY <2>3, PowerPolicyAssumption DEF Psus, TypeOK
    <3> QED  BY <1>4, <2>1, <2>3, <3>1 DEF FindBest, SeenInv, HasRead, Fresh, NothingQueued
  <2> QED  BY <2>2, <2>3
<1>5. CASE ProviderRemoved
  BY <1>5 DEF ProviderRemoved, SeenInv, HasRead, Psus
<1>6. CASE /\ Policy /\ pc \notin {"WaitEvent", "FindBest", "ProviderRemoved"}
           /\ pc' \notin {"FindBest", "ProviderRemoved"}
  <2>1. UNCHANGED <<missed, seen, queue>> /\ \A p \in Psus : psu'[p].consumer = psu[p].consumer
    BY <1>6, PolicyKeeps
  <2> QED  BY <1>6, <2>1 DEF SeenInv, HasRead, Fresh, NothingQueued
<1>7. CASE \/ Select \/ DropCurrent \/ DetachChargers \/ NotifyDisconnected \/ ConnectNew
           \/ AttachChargers \/ NotifyConnected \/ UpdateUnconstrained \/ ReadRequest
           \/ TotalPower \/ ConnectProviderPsu
  <2>1. Policy
    BY <1>7 DEF Policy
  <2>2. pc \notin {"WaitEvent", "FindBest", "ProviderRemoved"} /\ pc' \notin {"FindBest", "ProviderRemoved"}
    BY <1>7 DEF Select, DropCurrent, DetachChargers, NotifyDisconnected, ConnectNew,
       AttachChargers, NotifyConnected, UpdateUnconstrained, ReadRequest, TotalPower,
       ConnectProviderPsu, Return
  <2> QED  BY <1>6, <2>1, <2>2
<1>8. CASE UNCHANGED vars
  BY <1>8 DEF vars, SeenInv, HasRead, Fresh, NothingQueued
<1> QED
  BY <1>1, <1>2, <1>3, <1>4, <1>5, <1>7, <1>8 DEF Next, Policy
\* The control points between two selections.
Between == {"WaitEvent", "ReadRequest", "TotalPower", "ConnectProvider"}

\* Sources of unconstrained power below n, and the state published for them all.
UnconstrainedBelow(n) ==
    {p \in Psus : p < n /\ psu[p].consumer # None /\ psu[p].consumer.unconstrained}
Published ==
    unconstrained = UnconstrainedState(Cardinality(UnconstrainedBelow(NumPsus + 1)))

\* The count of the unconstrained sources is right as far as it went, unless a
\* source that was counted has changed since, which it then reports.
CountInv ==
    (pc = "Unconstrained" /\ \A p \in Psus : p < idx => Fresh(p))
    => total = Cardinality(UnconstrainedBelow(idx))

\* After a selection that succeeded, the current consumer is the best that was
\* read, and the published state is right unless a change is still to come.
ConvergedInv ==
    /\ pc = "Unconstrained" => BestOf(seen, current)
    /\ (pc \in Between /\ settled) =>
          /\ BestOf(seen, current)
          /\ (\A p \in Psus : Fresh(p)) => Published

\* The steps of counting.
LEMMA CountFacts ==
    ASSUME TypeOK
    PROVE  /\ Cardinality(UnconstrainedBelow(1)) = 0
           /\ idx \in Psus =>
                 Cardinality(UnconstrainedBelow(idx + 1)) =
                 IF psu[idx].consumer # None /\ psu[idx].consumer.unconstrained
                 THEN Cardinality(UnconstrainedBelow(idx)) + 1
                 ELSE Cardinality(UnconstrainedBelow(idx))
           /\ idx \notin Psus => UnconstrainedBelow(idx) = UnconstrainedBelow(NumPsus + 1)
<1>1. UnconstrainedBelow(1) = {}
  BY DEF UnconstrainedBelow, Psus
<1>2. ASSUME idx \in Psus
      PROVE  Cardinality(UnconstrainedBelow(idx + 1)) =
             IF psu[idx].consumer # None /\ psu[idx].consumer.unconstrained
             THEN Cardinality(UnconstrainedBelow(idx)) + 1
             ELSE Cardinality(UnconstrainedBelow(idx))
  <2>1. \A p \in Psus : p < idx + 1 <=> p < idx \/ p = idx
    BY <1>2 DEF Psus
  <2>2. idx \notin UnconstrainedBelow(idx)
    BY <1>2 DEF UnconstrainedBelow, Psus
  <2>3. IsFiniteSet(UnconstrainedBelow(idx))
    <3>1. IsFiniteSet(Psus)
      BY FS_Interval, PowerPolicyAssumption DEF Psus
    <3>2. UnconstrainedBelow(idx) \subseteq Psus
      BY DEF UnconstrainedBelow
    <3> QED  BY <3>1, <3>2, FS_Subset
  <2>4. CASE psu[idx].consumer # None /\ psu[idx].consumer.unconstrained
    <3>1. UnconstrainedBelow(idx + 1) = UnconstrainedBelow(idx) \cup {idx}
      BY <1>2, <2>1, <2>4 DEF UnconstrainedBelow
    <3> QED  BY <2>2, <2>3, <2>4, <3>1, FS_AddElement
  <2>5. CASE ~(psu[idx].consumer # None /\ psu[idx].consumer.unconstrained)
    <3>1. UnconstrainedBelow(idx + 1) = UnconstrainedBelow(idx)
      BY <1>2, <2>1, <2>5 DEF UnconstrainedBelow
    <3> QED  BY <2>5, <3>1
  <2> QED  BY <2>4, <2>5
<1>3. idx \notin Psus => UnconstrainedBelow(idx) = UnconstrainedBelow(NumPsus + 1)
  <2>1. idx \notin Psus => \A p \in Psus : p < idx /\ p < NumPsus + 1
    BY PowerPolicyAssumption DEF Psus, TypeOK
  <2> QED  BY <2>1 DEF UnconstrainedBelow
<1> QED  BY <1>1, <1>2, <1>3, FS_EmptySet

LEMMA CountStep ==
    ASSUME TypeOK, ControlInv, CountInv, [Next]_vars
    PROVE  CountInv'
<1> USE DEF service, locals, listeners, history, bounds
<1>1. ASSUME NEW p \in Psus, Driver(p)
      PROVE  CountInv'
  <2>1. DriverEffect
    BY <1>1, DriverFacts
  <2>2. UNCHANGED <<pc, idx, total>>
    BY <2>1 DEF DriverEffect
  <2>3. ASSUME pc = "Unconstrained", \A q \in Psus : q < idx => Fresh(q)'
        PROVE  total = Cardinality(UnconstrainedBelow(idx)')
    <3>1. \A q \in Psus : q < idx => Fresh(q) /\ psu'[q].consumer = psu[q].consumer
      BY <2>1, <2>3, DriverFresh
    <3>2. UnconstrainedBelow(idx)' = UnconstrainedBelow(idx)
      BY <2>2, <3>1 DEF UnconstrainedBelow
    <3> QED  BY <2>3, <3>1, <3>2 DEF CountInv
  <2> QED  BY <2>2, <2>3 DEF CountInv
<1>2. ASSUME NEW c \in Chargers, ChargerDriver(c)
      PROVE  CountInv'
  BY <1>2, ChargerDriverFacts DEF CountInv, Fresh, NothingQueued, UnconstrainedBelow
<1>3. CASE pc' # "Unconstrained"
  BY <1>3 DEF CountInv
<1>4. CASE idx' = 1 /\ total' = 0
  <2>1. UnconstrainedBelow(idx)' = {}
    BY <1>4 DEF UnconstrainedBelow, Psus
  <2> QED  BY <1>4, <2>1, FS_EmptySet DEF CountInv
<1>5. CASE Select \/ NotifyDisconnected \/ NotifyConnected
  BY <1>4, <1>5 DEF Select, NotifyDisconnected, NotifyConnected, ControlInv
<1>6. CASE UpdateUnconstrained
  <2>1. CASE idx \in Psus
    <3>1. /\ total' = IF psu[idx].consumer # None /\ psu[idx].consumer.unconstrained
                      THEN total + 1 ELSE total
          /\ idx' = idx + 1 /\ pc = "Unconstrained" /\ UNCHANGED <<psu, queue, missed>>
      BY <1>6, <2>1 DEF UpdateUnconstrained
    <3>2. \A p \in Psus : p < idx => p < idx + 1
      BY <2>1 DEF Psus
    <3>3. UnconstrainedBelow(idx)' = UnconstrainedBelow(idx + 1)
      BY <3>1 DEF UnconstrainedBelow
    <3>4. (\A p \in Psus : p < idx' => Fresh(p)') => \A p \in Psus : p < idx => Fresh(p)
      BY <3>1, <3>2 DEF Fresh, NothingQueued
    <3> QED  BY <2>1, <3>1, <3>3, <3>4, CountFacts DEF CountInv
  <2>2. CASE idx \notin Psus
    BY <1>3, <1>6, <2>2 DEF UpdateUnconstrained, Return
  <2> QED  BY <2>1, <2>2
<1>7. ASSUME NEW p \in Psus, ProcessPsuEvent(p)
      PROVE  CountInv'
  BY <1>3, <1>7 DEF ProcessPsuEvent
<1>8. CASE \/ ProviderRemoved \/ FindBest \/ DropCurrent \/ DetachChargers \/ ConnectNew
           \/ AttachChargers \/ ReadRequest \/ TotalPower \/ ConnectProviderPsu
  BY <1>3, <1>8 DEF ProviderRemoved, FindBest, DropCurrent, DetachChargers, ConnectNew,
     AttachChargers, ReadRequest, TotalPower, ConnectProviderPsu, Return
<1>9. CASE UNCHANGED vars
  BY <1>9 DEF vars, CountInv, Fresh, NothingQueued, UnconstrainedBelow
<1> QED
  BY <1>1, <1>2, <1>5, <1>6, <1>7, <1>8, <1>9 DEF Next, Policy

\* What Select, NotifyDisconnected and NotifyConnected leave is the best offer.
LEMMA ConvergedStep ==
    ASSUME TypeOK, ControlInv, BestInv, CountInv, ConvergedInv, [Next]_vars
    PROVE  ConvergedInv'
<1> USE DEF service, locals, listeners, history, bounds
<1>1. ASSUME UNCHANGED <<seen, current, unconstrained, settled>>,
             pc' = pc \/ (pc \in Between /\ pc' \in Between),
             pc \in Between => \A p \in Psus : Fresh(p)' =>
                 Fresh(p) /\ psu'[p].consumer = psu[p].consumer
      PROVE  ConvergedInv'
  <2>1. BestOf(seen, current)' <=> BestOf(seen, current)
    BY <1>1 DEF BestOf, Eligible
  <2>2. ASSUME pc \in Between, \A p \in Psus : Fresh(p)', Published
        PROVE  Published'
    <3>1. UnconstrainedBelow(NumPsus + 1)' = UnconstrainedBelow(NumPsus + 1)
      BY <1>1, <2>2 DEF UnconstrainedBelow
    <3> QED  BY <1>1, <2>2, <3>1 DEF Published, UnconstrainedState
  <2> QED  BY <1>1, <2>1, <2>2 DEF ConvergedInv, Between
<1>2. ASSUME NEW p \in Psus, Driver(p)
      PROVE  ConvergedInv'
  <2>1. DriverEffect
    BY <1>2, DriverFacts
  <2>2. UNCHANGED <<seen, current, unconstrained, settled, pc>>
    BY <2>1 DEF DriverEffect
  <2> QED  BY <1>1, <2>1, <2>2, DriverFresh
<1>3. ASSUME NEW c \in Chargers, ChargerDriver(c)
      PROVE  ConvergedInv'
  BY <1>1, <1>3, ChargerDriverFacts DEF Fresh, NothingQueued
<1>4. CASE pc' \notin Between \cup {"Unconstrained"}
  BY <1>4 DEF ConvergedInv
<1>5. CASE pc' = "WaitEvent" /\ ~settled'
  BY <1>5 DEF ConvergedInv
<1>6. ASSUME NEW p \in Psus, ProcessPsuEvent(p)
      PROVE  ConvergedInv'
  <2>1. CASE pc' \in {"ProviderRemoved", "FindBest"}
    BY <1>4, <2>1 DEF Between
  <2>2. CASE pc' \notin {"ProviderRemoved", "FindBest"}
    <3>1. /\ UNCHANGED <<seen, current, unconstrained, settled, psu>>
          /\ pc = "WaitEvent" /\ pc' \in {"WaitEvent", "ReadRequest"}
      BY <1>6, <2>2 DEF ProcessPsuEvent
    <3> QED  BY <1>1, <1>6, <2>2, <3>1, EventFresh DEF Between
  <2> QED  BY <2>1, <2>2
<1>7. \A p \in Psus : p < NumPsus + 1
  BY PowerPolicyAssumption DEF Psus
<1>8. ASSUME pc' = "Unconstrained", BestOf(seen, current)'
      PROVE  ConvergedInv'
  BY <1>8 DEF ConvergedInv, Between
<1>9. ASSUME BestBelow(NumPsus + 1)
      PROVE  BestOf(seen, best)
  BY <1>7, <1>9 DEF BestBelow, BestOf
<1>10. CASE Select
  <2>1. BestOf(seen, best) /\ UNCHANGED <<best, seen>>
    BY <1>9, <1>10 DEF Select, BestInv
  <2>2. CASE pc' = "Unconstrained"
    <3>1. current' = best
      BY <1>10, <2>2 DEF Select
    <3>2. BestOf(seen, current)'
      BY <2>1, <3>1 DEF BestOf, Eligible
    <3> QED  BY <1>8, <2>2, <3>2
  <2>3. CASE pc' # "Unconstrained"
    BY <1>4, <1>10, <2>3 DEF Select, Between
  <2> QED  BY <2>2, <2>3
<1>11. CASE NotifyDisconnected
  <2>1. BestOf(seen, best) /\ UNCHANGED <<best, seen>>
    BY <1>9, <1>11 DEF NotifyDisconnected, BestInv, Dropping
  <2>2. CASE pc' = "Unconstrained"
    <3>1. current' = best
      BY <1>11, <2>2 DEF NotifyDisconnected
    <3>2. BestOf(seen, current)'
      BY <2>1, <3>1 DEF BestOf, Eligible
    <3> QED  BY <1>8, <2>2, <3>2
  <2>3. CASE pc' # "Unconstrained"
    BY <1>4, <1>11, <2>3 DEF NotifyDisconnected, Between
  <2> QED  BY <2>2, <2>3
<1>12. CASE NotifyConnected
  <2>1. BestOf(seen, best) /\ current' = best /\ pc' = "Unconstrained" /\ UNCHANGED seen
    BY <1>9, <1>12 DEF NotifyConnected, BestInv, Connecting, ControlInv
  <2>2. BestOf(seen, current)'
    BY <2>1 DEF BestOf, Eligible
  <2> QED  BY <1>8, <2>1, <2>2
<1>13. CASE UpdateUnconstrained
  <2>1. CASE idx \in Psus
    BY <1>1, <1>13, <2>1 DEF UpdateUnconstrained, Between
  <2>2. CASE idx \notin Psus
    <3>1. /\ pc = "Unconstrained" /\ pc' = "WaitEvent"
          /\ unconstrained' = UnconstrainedState(total)
          /\ UNCHANGED <<psu, queue, missed, seen, current>>
      BY <1>13, <2>2 DEF UpdateUnconstrained, Return
    <3>2. BestOf(seen, current)'
      BY <3>1 DEF ConvergedInv, BestOf, Eligible
    <3>3. ASSUME \A p \in Psus : Fresh(p)'
          PROVE  Published'
      <4>1. \A p \in Psus : Fresh(p)
        BY <3>1, <3>3 DEF Fresh, NothingQueued
      <4>2. total = Cardinality(UnconstrainedBelow(NumPsus + 1))
        BY <2>2, <3>1, <4>1, CountFacts DEF CountInv
      <4>3. UnconstrainedBelow(NumPsus + 1)' = UnconstrainedBelow(NumPsus + 1)
        BY <3>1 DEF UnconstrainedBelow
      <4> QED  BY <3>1, <4>2, <4>3 DEF Published, UnconstrainedState
    <3> QED  BY <3>1, <3>2, <3>3 DEF ConvergedInv, Between
  <2> QED  BY <2>1, <2>2
<1>14. CASE DropCurrent \/ DetachChargers \/ ConnectNew \/ AttachChargers
  BY <1>4, <1>5, <1>14
  DEF DropCurrent, DetachChargers, ConnectNew, AttachChargers, Return, Between
<1>15. CASE ProviderRemoved \/ FindBest
  BY <1>4, <1>15 DEF ProviderRemoved, FindBest, Between
<1>16. CASE ReadRequest \/ TotalPower \/ ConnectProviderPsu
  <2>1. UNCHANGED <<seen, current, unconstrained, settled>> /\ pc \in Between /\ pc' \in Between
    BY <1>16 DEF ReadRequest, TotalPower, ConnectProviderPsu, Return, Between
  <2>2. /\ UNCHANGED <<queue, missed>>
        /\ \A p \in Psus : psu'[p].consumer = psu[p].consumer
    <3>1. Policy /\ pc \notin {"FindBest", "WaitEvent"}
      BY <1>16 DEF Policy, ReadRequest, TotalPower, ConnectProviderPsu
    <3> QED  BY <3>1, PolicyKeeps
  <2> QED  BY <1>1, <2>1, <2>2 DEF Fresh, NothingQueued
<1>17. CASE UNCHANGED vars
  BY <1>1, <1>17 DEF vars, Fresh, NothingQueued
<1> QED
  BY <1>2, <1>3, <1>6, <1>10, <1>11, <1>12, <1>13, <1>14, <1>15, <1>16, <1>17
  DEF Next, Policy

\* Once the policy has drained the channels, the current consumer is the best of
\* what the PSUs offer now, and the published unconstrained state counts the
\* sources as they are now, for any number of PSUs that change one lock at a time
\* while a selection and the count read them.
THEOREM SelectionConvergedHolds == Spec => []SelectionConverged
<1>1. Init => BestInv /\ SeenInv /\ CountInv /\ ConvergedInv
  <2> SUFFICES ASSUME Init PROVE BestInv /\ SeenInv /\ CountInv /\ ConvergedInv
    OBVIOUS
  <2>1. BestInv /\ SeenInv /\ CountInv
    BY DEF Init, BestInv, SeenInv, CountInv, Dropping, Connecting, DefaultState
  <2>2. BestOf(seen, current)
    BY DEF Init, BestOf, Eligible
  <2>3. UnconstrainedBelow(NumPsus + 1) = {}
    BY DEF Init, UnconstrainedBelow, DefaultState
  <2>4. Published
    BY <2>3, FS_EmptySet DEF Init, Published, UnconstrainedState
  <2> QED  BY <2>1, <2>2, <2>4 DEF ConvergedInv, Init
<1>2. TypeOK /\ ControlInv /\ BestInv /\ SeenInv /\ CountInv /\ ConvergedInv /\ [Next]_vars
      => TypeOK' /\ ControlInv' /\ BestInv' /\ SeenInv' /\ CountInv' /\ ConvergedInv'
  BY TypeStep, BestStep, SeenStep, CountStep, ConvergedStep
<1>3. TypeOK /\ SeenInv /\ ConvergedInv => SelectionConverged
  <2> SUFFICES ASSUME TypeOK, SeenInv, ConvergedInv, pc = "WaitEvent", settled,
                      \A p \in Psus : NothingQueued(p) /\ ~missed[p]
               PROVE  /\ BestOf([p \in Psus |-> psu[p].consumer], current)
                      /\ unconstrained =
                            [unconstrained |-> current # None /\ current.cap.unconstrained,
                             available |-> Cardinality({p \in Psus :
                                psu[p].consumer # None /\ psu[p].consumer.unconstrained})]
    BY DEF SelectionConverged
  <2>1. \A p \in Psus : Fresh(p) /\ seen[p] = psu[p].consumer
    BY DEF SeenInv, HasRead, Fresh
  <2>2. BestOf(seen, current) /\ Published
    BY <2>1 DEF ConvergedInv, Between
  <2>3. seen = [p \in Psus |-> psu[p].consumer]
    BY <2>1 DEF TypeOK
  <2>4. UnconstrainedBelow(NumPsus + 1) =
            {p \in Psus : psu[p].consumer # None /\ psu[p].consumer.unconstrained}
    BY PowerPolicyAssumption DEF UnconstrainedBelow, Psus
  <2> QED  BY <2>2, <2>3, <2>4 DEF Published, UnconstrainedState
<1> QED  BY <1>1, <1>2, <1>3, TypeInit, PTL DEF Spec
-----------------------------------------------------------------------------
(* Sums over the PSUs, by induction on how many are added up.               *)

\* A set of natural numbers has a least element.
LEMMA Least ==
    ASSUME NEW T \in SUBSET Nat, T # {}
    PROVE  \E x \in T : \A y \in T : x <= y
<1> DEFINE R == {ss \in Nat \X Nat : ss[1] < ss[2]}
<1>1. IsWellFoundedOn(R, Nat)
  BY NatLessThanWellFounded DEF OpToRel
<1>2. \A x, y \in T : <<y, x>> \in R <=> y < x
  OBVIOUS
<1> HIDE DEF R
<1>3. \E x \in T : \A y \in T : ~ (<<y, x>> \in R)
  BY <1>1, WFMin
<1>4. PICK x \in T : \A y \in T : ~ (y < x)
  BY <1>2, <1>3
<1>5. \A y \in T : x <= y
  BY <1>4
<1> QED BY <1>5

\* Induction: what holds for 0 and for the successor of each n < NumPsus
\* for which it holds, holds up to NumPsus.
LEMMA UpTo ==
    ASSUME NEW T, 0 \in T, \A n \in 1..NumPsus : n - 1 \in T => n \in T
    PROVE  \A n \in 0..NumPsus : n \in T
<1> SUFFICES ASSUME NEW m \in 0..NumPsus, m \notin T PROVE FALSE
  OBVIOUS
<1> DEFINE Out == {n \in 0..NumPsus : n \notin T}
<1>1. Out \in SUBSET Nat /\ Out # {}
  BY PowerPolicyAssumption
<1>2. PICK x \in Out : \A y \in Out : x <= y
  BY <1>1, Least
<1>3. x # 0 /\ x \in 1..NumPsus
  BY <1>2, PowerPolicyAssumption
<1>4. x - 1 \in 0..NumPsus /\ ~ (x <= x - 1)
  BY <1>3, PowerPolicyAssumption
<1>5. x - 1 \in T
  BY <1>2, <1>4
<1> QED BY <1>2, <1>3, <1>5

\* The running sum exists: it is what its definition says, step by step.
LEMMA SumFacts ==
    ASSUME NEW d \in [Psus -> Nat]
    PROVE  /\ RunningSum(d) \in [0..NumPsus -> Nat]
           /\ RunningSum(d)[0] = 0
           /\ \A n \in Psus : RunningSum(d)[n] = RunningSum(d)[n - 1] + d[n]
<1> DEFINE Sums(n, f) == f \in [0..n -> Nat] /\ f[0] = 0 /\ \A i \in 1..n : f[i] = f[i - 1] + d[i]
<1> DEFINE T == {n \in 0..NumPsus : \E f : Sums(n, f)}
<1>1. 0 \in T
  <2>1. Sums(0, [i \in 0..0 |-> 0])
    OBVIOUS
  <2> HIDE DEF Sums
  <2>2. \E f : Sums(0, f)
    BY <2>1, Zenon
  <2> QED BY <2>2, PowerPolicyAssumption
<1>2. ASSUME NEW n \in 1..NumPsus, n - 1 \in T PROVE n \in T
  <2>1. PICK f : Sums(n - 1, f)
    BY <1>2
  <2>2. d[n] \in Nat /\ f[n - 1] \in Nat
    BY <2>1 DEF Psus
  <2> DEFINE g == [i \in 0..n |-> IF i = n THEN f[n - 1] + d[n] ELSE f[i]]
  <2>3. g \in [0..n -> Nat]
    BY <2>1, <2>2
  <2>4. g[0] = 0
    BY <2>1
  <2>5. ASSUME NEW i \in 1..n PROVE g[i] = g[i - 1] + d[i]
    <3>1. CASE i = n
      BY <3>1, <2>2
    <3>2. CASE i # n
      BY <3>2, <2>1
    <3> QED BY <3>1, <3>2
  <2>6. Sums(n, g)
    BY <2>3, <2>4, <2>5
  <2> HIDE DEF g, Sums
  <2>7. \E h : Sums(n, h)
    BY <2>6
  <2> QED BY <2>7
<1>3. NumPsus \in T
  <2> HIDE DEF T
  <2> QED BY <1>1, <1>2, UpTo, PowerPolicyAssumption
<1>4. PICK f : Sums(NumPsus, f)
  BY <1>3
<1>5. f = [n \in 0..NumPsus |-> IF n = 0 THEN 0 ELSE f[n - 1] + d[n]]
  BY <1>4
<1>6. RunningSum(d) = [n \in 0..NumPsus |-> IF n = 0 THEN 0 ELSE RunningSum(d)[n - 1] + d[n]]
  BY <1>5, Zenon DEF RunningSum
<1> DEFINE s == RunningSum(d)
<1> HIDE DEF s
<1>7. s[0] = 0 /\ \A n \in Psus : s[n] = s[n - 1] + d[n]
  BY <1>6, PowerPolicyAssumption DEF Psus, s
<1>8. \A n \in 0..NumPsus : n \in {i \in 0..NumPsus : s[i] \in Nat}
  <2> DEFINE U == {i \in 0..NumPsus : s[i] \in Nat}
  <2>1. 0 \in U
    BY <1>7, PowerPolicyAssumption
  <2>2. \A n \in 1..NumPsus : n - 1 \in U => n \in U
    BY <1>7, PowerPolicyAssumption DEF Psus
  <2> HIDE DEF U
  <2>3. \A n \in 0..NumPsus : n \in U
    BY <2>1, <2>2, UpTo
  <2> QED BY <2>3 DEF U
<1>9. s = [n \in 0..NumPsus |-> s[n]]
  BY <1>6 DEF s
<1>10. s \in [0..NumPsus -> Nat]
  BY <1>8, <1>9
<1> QED BY <1>7, <1>10 DEF s

\* The sum grows with what it sums.
LEMMA SumMonotone ==
    ASSUME NEW d \in [Psus -> Nat], NEW e \in [Psus -> Nat], \A p \in Psus : d[p] <= e[p],
           NEW n \in 0..NumPsus
    PROVE  RunningSum(d)[n] <= RunningSum(e)[n]
<1> DEFINE s == RunningSum(d)
           t == RunningSum(e)
           T == {i \in 0..NumPsus : s[i] <= t[i]}
<1>1. /\ s \in [0..NumPsus -> Nat] /\ s[0] = 0 /\ \A i \in Psus : s[i] = s[i - 1] + d[i]
      /\ t \in [0..NumPsus -> Nat] /\ t[0] = 0 /\ \A i \in Psus : t[i] = t[i - 1] + e[i]
  BY SumFacts
<1> HIDE DEF s, t
<1>2. 0 \in T
  BY <1>1, PowerPolicyAssumption
<1>3. ASSUME NEW i \in 1..NumPsus, i - 1 \in T PROVE i \in T
  <2>1. /\ s[i] = s[i - 1] + d[i] /\ t[i] = t[i - 1] + e[i] /\ s[i - 1] <= t[i - 1]
        /\ s[i - 1] \in Nat /\ t[i - 1] \in Nat /\ d[i] \in Nat /\ e[i] \in Nat /\ d[i] <= e[i]
    BY <1>1, <1>3 DEF Psus
  <2> QED BY <2>1
<1> HIDE DEF T
<1>4. n \in T
  BY <1>2, <1>3, UpTo
<1> QED BY <1>4 DEF T, s, t

\* The draws above m alone.
Above(d, m) == [p \in Psus |-> IF d[p] > m THEN d[p] ELSE 0]

\* A sum is bounded by what exceeds m and m for each of the others, of which
\* there are fewer when something exceeds m.
LEMMA SumSplit ==
    ASSUME NEW d \in [Psus -> Nat], NEW m \in Nat, NEW n \in Nat, n <= NumPsus
    PROVE  LET s == RunningSum(d)
               b == RunningSum(Above(d, m))
           IN  s[n] <= n * m \/ s[n] <= b[n] + (n - 1) * m
<1> DEFINE a == Above(d, m)
           s == RunningSum(d)
           b == RunningSum(a)
           T == {i \in 0..NumPsus : (s[i] <= i * m /\ b[i] = 0) \/ (i >= 1 /\ s[i] <= b[i] + (i - 1) * m)}
<1>1. a \in [Psus -> Nat] /\ \A p \in Psus : a[p] = IF d[p] > m THEN d[p] ELSE 0
  BY DEF Above
<1> HIDE DEF a
<1>2. /\ s \in [0..NumPsus -> Nat] /\ s[0] = 0 /\ \A i \in Psus : s[i] = s[i - 1] + d[i]
      /\ b \in [0..NumPsus -> Nat] /\ b[0] = 0 /\ \A i \in Psus : b[i] = b[i - 1] + a[i]
  BY <1>1, SumFacts
<1> HIDE DEF s, b
<1>3. 0 \in T
  BY <1>2, PowerPolicyAssumption
<1>4. ASSUME NEW i \in 1..NumPsus, i - 1 \in T PROVE i \in T
  <2>1. /\ s[i] = s[i - 1] + d[i] /\ b[i] = b[i - 1] + a[i]
        /\ s[i - 1] \in Nat /\ b[i - 1] \in Nat /\ d[i] \in Nat
        /\ a[i] = IF d[i] > m THEN d[i] ELSE 0
    BY <1>1, <1>2, <1>4 DEF Psus
  <2>2. /\ i * m = (i - 1) * m + m /\ (i - 1) * m \in Nat /\ i * m \in Nat
        /\ i - 1 >= 1 => (i - 1) * m = (i - 1 - 1) * m + m
    OBVIOUS
  <2>3. i \in 0..NumPsus /\ i >= 1
    BY PowerPolicyAssumption
  <2> DEFINE x == (i - 1) * m
             y == i * m
             z == (i - 1 - 1) * m
  <2>4. z \in Int
    OBVIOUS
  <2>5. \/ s[i - 1] <= x /\ b[i - 1] = 0
        \/ i - 1 >= 1 /\ s[i - 1] <= b[i - 1] + z
    BY <1>4
  <2>6. (s[i] <= y /\ b[i] = 0) \/ s[i] <= b[i] + x
    <3> HIDE DEF x, y, z
    <3>1. y = x + m /\ x \in Nat /\ (i - 1 >= 1 => x = z + m)
      BY <2>2 DEF x, y, z
    <3> QED BY <2>1, <2>4, <2>5, <3>1
  <2> QED BY <2>3, <2>6
<1> HIDE DEF T
<1>5. n \in T
  BY <1>3, <1>4, UpTo
<1>6. \/ s[n] <= n * m
      \/ s[n] <= b[n] + (n - 1) * m
  BY <1>5 DEF T
<1> QED BY <1>6 DEF s, b, a

-----------------------------------------------------------------------------
(* The power provided.                                                      *)

\* What the requester and the other PSUs would draw if the request was granted.
Claimed ==
    [p \in Psus |-> IF p = dev THEN MaxPowerMw(request) ELSE ConnectedProviderMw(psu[p])]

\* The draws above a limited contract were granted from one total below the
\* threshold, and since then they only went away.  While connect_provider adds up,
\* its total covers what the PSUs it has passed draw now.
GrantInv ==
    /\ RunningSum(Above(Draw, MaxPowerMw(ProviderLimited)))[NumPsus] <= LimitedMw
    /\ pc = "TotalPower" =>
          /\ idx \in 1..NumPsus + 1
          /\ RunningSum(Claimed)[idx - 1] <= total
    /\ pc = "ConnectProvider" =>
          /\ RunningSum(Claimed)[NumPsus] <= total
          /\ providerState = "Unlimited" => total <= LimitedMw

LEMMA DrawFacts == \A s \in State : ConnectedProviderMw(s) \in Nat
<1>1. \A s \in State : s.state = "ConnectedProvider" => s.cap \in ProviderCaps
  BY DEF State
<1> QED  BY <1>1, PowerFacts DEF ConnectedProviderMw

\* A driver can end a provider's contract; only the policy makes or changes one.
LEMMA DriverDraws ==
    ASSUME TypeOK, NEW p \in Psus, Driver(p), NEW q \in Psus
    PROVE  psu'[q].state = "ConnectedProvider" =>
               psu[q].state = "ConnectedProvider" /\ psu'[q].cap = psu[q].cap
<1>1. psu \in [Psus -> State]
  BY DEF TypeOK
<1>2. ASSUME NEW s, psu' = [psu EXCEPT ![p] = s],
             s.state = "ConnectedProvider" => s.state = psu[p].state /\ s.cap = psu[p].cap
      PROVE  psu'[q].state = "ConnectedProvider" =>
               psu[q].state = "ConnectedProvider" /\ psu'[q].cap = psu[q].cap
  BY <1>1, <1>2
<1>3. \A s : Attach(s).state = "Idle" /\ Detach(s).state = "Detached"
             /\ Disconnect(s, TRUE).state = "Idle"
  BY DEF Attach, Detach, Disconnect, DefaultState
<1>4. ASSUME NEW c
      PROVE  /\ UpdateConsumer(psu[p], c).state = psu[p].state
             /\ UpdateConsumer(psu[p], c).cap = psu[p].cap
             /\ UpdateRequested(psu[p], c).state = psu[p].state
             /\ UpdateRequested(psu[p], c).cap = psu[p].cap
  BY <1>1 DEF UpdateConsumer, UpdateRequested, State
<1>5. CASE PlugInserted(p) \/ PlugRecovered(p) \/ PlugRemoved(p)
  BY <1>2, <1>3, <1>5 DEF PlugInserted, PlugRecovered, PlugRemoved, Drive
<1>6. CASE \E c \in ConsumerCaps \cup {None} : NewConsumerContract(p, c)
  BY <1>2, <1>4, <1>6 DEF NewConsumerContract, Drive
<1>7. CASE \E c \in ProviderCaps \cup {None} : NewProviderContract(p, c)
  BY <1>2, <1>4, <1>7 DEF NewProviderContract, Drive
<1>8. CASE \E why \in {"RoleSwap", "Reset", "ManualRenegotiation"} : TearDown(p, why)
  BY <1>2, <1>3, <1>8 DEF TearDown, Drive
<1>9. CASE \/ \E c \in ConsumerCaps : ContractWhileDetached(p, UpdateConsumer(psu[p], c))
           \/ \E c \in ProviderCaps : ContractWhileDetached(p, UpdateRequested(psu[p], c))
  BY <1>2, <1>4, <1>9 DEF ContractWhileDetached
<1> QED  BY <1>5, <1>6, <1>7, <1>8, <1>9 DEF Driver

\* A step that gives no PSU more than it draws and leaves the handler where it is.
LEMMA DrawsShrink ==
    ASSUME TypeOK, TypeOK', GrantInv,
           \A q \in Psus : psu'[q].state = "ConnectedProvider" =>
               psu[q].state = "ConnectedProvider" /\ psu'[q].cap = psu[q].cap
    PROVE  /\ RunningSum(Above(Draw, MaxPowerMw(ProviderLimited)))'[NumPsus] <= LimitedMw
           /\ \A q \in Psus : ConnectedProviderMw(psu'[q]) <= ConnectedProviderMw(psu[q])
<1> DEFINE m == MaxPowerMw(ProviderLimited)
           a == Above(Draw, m)
           b == Above(Draw', m)
<1>1. m \in Nat
  BY PowerFacts, PowerPolicyAssumption
<1>2. Draw \in [Psus -> Nat] /\ Draw' \in [Psus -> Nat]
  BY DrawFacts DEF Draw, TypeOK
<1>3. \A q \in Psus : ConnectedProviderMw(psu'[q]) <= ConnectedProviderMw(psu[q])
  <2>1. \A q \in Psus : ConnectedProviderMw(psu[q]) \in Nat
    BY DrawFacts DEF TypeOK
  <2> QED  BY <2>1 DEF ConnectedProviderMw
<1>4. \A q \in Psus : Draw'[q] <= Draw[q]
  BY <1>3 DEF Draw
<1> HIDE DEF m
<1>5. /\ a \in [Psus -> Nat] /\ b \in [Psus -> Nat]
      /\ \A q \in Psus : b[q] <= a[q]
  BY <1>1, <1>2, <1>4 DEF Above
<1>6. NumPsus \in 0..NumPsus
  BY PowerPolicyAssumption
<1> HIDE DEF a, b
<1>7. /\ RunningSum(b)[NumPsus] <= RunningSum(a)[NumPsus]
      /\ RunningSum(b)[NumPsus] \in Nat /\ RunningSum(a)[NumPsus] \in Nat
  BY <1>5, <1>6, SumMonotone, SumFacts
<1>8. RunningSum(b)[NumPsus] <= LimitedMw
  BY <1>7, PowerPolicyAssumption DEF GrantInv, a, m
<1> QED  BY <1>3, <1>8 DEF b, m

\* Granting a request keeps the draws above a limited contract below the
\* threshold: a limited contract is none of them, and a full one was part of the
\* total that connect_provider compared with it.
LEMMA GrantBounded ==
    ASSUME TypeOK, TypeOK', ControlInv, GrantInv, pc = "ConnectProvider",
           psu' = [psu EXCEPT ![dev] = ConnectProvider(psu[dev], TargetPower)]
    PROVE  RunningSum(Above(Draw, MaxPowerMw(ProviderLimited)))'[NumPsus] <= LimitedMw
<1> DEFINE m == MaxPowerMw(ProviderLimited)
           a == Above(Draw, m)
           b == Above(Draw', m)
           c == Claimed
<1>1. m \in Nat
  BY PowerFacts, PowerPolicyAssumption
<1>2. Draw \in [Psus -> Nat] /\ Draw' \in [Psus -> Nat]
  BY DrawFacts DEF Draw, TypeOK
<1>3. dev \in Psus /\ request \in ProviderCaps
  BY DEF ControlInv, TypeOK
<1>4. /\ Draw'[dev] = MaxPowerMw(TargetPower)
      /\ \A q \in Psus \ {dev} : Draw'[q] = Draw[q]
  BY <1>3 DEF Draw, TypeOK, ConnectProvider, ConnectedProviderMw
<1>5. MaxPowerMw(request) \in Nat /\ MaxPowerMw(ProviderUnlimited) \in Nat
  BY <1>3, PowerFacts, PowerPolicyAssumption
<1>6. c \in [Psus -> Nat] /\ c[dev] = MaxPowerMw(request)
      /\ \A q \in Psus \ {dev} : c[q] = Draw[q]
  BY <1>2, <1>3, <1>5 DEF Claimed, Draw
<1>7. NumPsus \in 0..NumPsus
  BY PowerPolicyAssumption
<1> HIDE DEF m, c
<1>8. b \in [Psus -> Nat] /\ a \in [Psus -> Nat]
  BY <1>1, <1>2 DEF Above
<1>9. CASE providerState = "Limited"
  <2>1. Draw'[dev] = m
    BY <1>4, <1>9 DEF TargetPower, m
  <2>2. \A q \in Psus : b[q] <= a[q]
    BY <1>1, <1>2, <1>4, <2>1 DEF Above
  <2> HIDE DEF a, b
  <2>3. /\ RunningSum(b)[NumPsus] <= RunningSum(a)[NumPsus]
        /\ RunningSum(b)[NumPsus] \in Nat /\ RunningSum(a)[NumPsus] \in Nat
    BY <1>7, <1>8, <2>2, SumMonotone, SumFacts
  <2>4. RunningSum(b)[NumPsus] <= LimitedMw
    BY <2>3, PowerPolicyAssumption DEF GrantInv, a, m
  <2> QED  BY <2>4 DEF b, m
<1>10. CASE providerState # "Limited"
  <2>1. providerState = "Unlimited" /\ total \in Nat
    BY <1>10 DEF TypeOK
  <2>2. MaxPowerMw(TargetPower) <= MaxPowerMw(request)
    BY <1>5, <2>1 DEF TargetPower
  <2>3. \A q \in Psus : b[q] <= c[q]
    BY <1>1, <1>2, <1>4, <1>5, <1>6, <2>2 DEF Above
  <2> HIDE DEF a, b
  <2>4. /\ RunningSum(b)[NumPsus] <= RunningSum(c)[NumPsus]
        /\ RunningSum(b)[NumPsus] \in Nat /\ RunningSum(c)[NumPsus] \in Nat
    BY <1>6, <1>7, <1>8, <2>3, SumMonotone, SumFacts
  <2>5. RunningSum(c)[NumPsus] <= total /\ total <= LimitedMw
    BY <2>1 DEF GrantInv, c
  <2>6. RunningSum(b)[NumPsus] <= LimitedMw
    BY <2>1, <2>4, <2>5, PowerPolicyAssumption
  <2> QED  BY <2>6 DEF b, m
<1> QED  BY <1>9, <1>10

LEMMA ClaimedFacts ==
    ASSUME TypeOK, ControlInv, pc \in {"TotalPower", "ConnectProvider"}
    PROVE  /\ Claimed \in [Psus -> Nat]
           /\ \A q \in Psus : Claimed[q] =
                 IF q = dev THEN MaxPowerMw(request) ELSE ConnectedProviderMw(psu[q])
<1>1. request \in ProviderCaps /\ MaxPowerMw(request) \in Nat
  BY PowerFacts DEF TypeOK, ControlInv
<1> QED  BY <1>1, DrawFacts DEF Claimed, TypeOK

\* While the handler waits for a lock, what it has added up still covers the PSUs.
LEMMA ClaimsShrink ==
    ASSUME TypeOK, TypeOK', ControlInv, ControlInv', GrantInv,
           UNCHANGED <<pc, idx, total, dev, request, providerState>>,
           \A q \in Psus : ConnectedProviderMw(psu'[q]) <= ConnectedProviderMw(psu[q])
    PROVE  /\ pc = "TotalPower" => RunningSum(Claimed)'[idx - 1] <= total
           /\ pc = "ConnectProvider" => RunningSum(Claimed)'[NumPsus] <= total
<1> SUFFICES ASSUME pc \in {"TotalPower", "ConnectProvider"}
             PROVE  /\ pc = "TotalPower" => RunningSum(Claimed')[idx - 1] <= total
                    /\ pc = "ConnectProvider" => RunningSum(Claimed')[NumPsus] <= total
  OBVIOUS
<1> DEFINE c == Claimed
           d == Claimed'
<1>1. request \in ProviderCaps /\ MaxPowerMw(request) \in Nat
  BY PowerFacts DEF TypeOK, ControlInv
<1>2. /\ c \in [Psus -> Nat] /\ d \in [Psus -> Nat]
      /\ \A q \in Psus : d[q] <= c[q]
  <2>1. \A q \in Psus : ConnectedProviderMw(psu[q]) \in Nat /\ ConnectedProviderMw(psu'[q]) \in Nat
    BY DrawFacts DEF TypeOK
  <2>2. d = [p \in Psus |-> IF p = dev THEN MaxPowerMw(request) ELSE ConnectedProviderMw(psu'[p])]
    BY DEF Claimed
  <2>3. c = [p \in Psus |-> IF p = dev THEN MaxPowerMw(request) ELSE ConnectedProviderMw(psu[p])]
    BY DEF Claimed
  <2> HIDE DEF c, d
  <2> QED  BY <1>1, <2>1, <2>2, <2>3
<1> HIDE DEF c, d
<1>3. ASSUME NEW n \in 0..NumPsus, RunningSum(c)[n] <= total
      PROVE  RunningSum(d)[n] <= total
  <2>1. /\ RunningSum(d)[n] <= RunningSum(c)[n]
        /\ RunningSum(d)[n] \in Nat /\ RunningSum(c)[n] \in Nat
    BY <1>2, SumMonotone, SumFacts
  <2>2. total \in Nat
    BY DEF TypeOK
  <2> QED  BY <1>3, <2>1, <2>2
<1>4. CASE pc = "TotalPower"
  <2>1. idx - 1 \in 0..NumPsus /\ RunningSum(c)[idx - 1] <= total
    BY <1>4, PowerPolicyAssumption DEF GrantInv, c
  <2> QED  BY <1>3, <1>4, <2>1 DEF d
<1>5. CASE pc = "ConnectProvider"
  <2>1. NumPsus \in 0..NumPsus /\ RunningSum(c)[NumPsus] <= total
    BY <1>5, PowerPolicyAssumption DEF GrantInv, c
  <2> QED  BY <1>3, <1>5, <2>1 DEF d
<1> QED  BY <1>4, <1>5

LEMMA GrantStep ==
    ASSUME TypeOK, ControlInv, GrantInv, [Next]_vars
    PROVE  GrantInv'
<1> USE DEF service, locals, listeners, history, bounds
<1> DEFINE Adding == {"TotalPower", "ConnectProvider"}
<1>1. TypeOK' /\ ControlInv'
  BY TypeStep
<1>2. psu \in [Psus -> State]
  BY DEF TypeOK
<1>3. ASSUME \A q \in Psus : psu'[q].state = "ConnectedProvider" =>
                 psu[q].state = "ConnectedProvider" /\ psu'[q].cap = psu[q].cap,
             \/ pc' \notin Adding
             \/ UNCHANGED <<pc, idx, total, dev, request, providerState>>
      PROVE  GrantInv'
  <2>1. /\ RunningSum(Above(Draw, MaxPowerMw(ProviderLimited)))'[NumPsus] <= LimitedMw
        /\ \A q \in Psus : ConnectedProviderMw(psu'[q]) <= ConnectedProviderMw(psu[q])
    BY <1>1, <1>3, DrawsShrink
  <2>2. CASE pc' \notin Adding
    BY <2>1, <2>2 DEF GrantInv
  <2>3. CASE UNCHANGED <<pc, idx, total, dev, request, providerState>>
    <3>1. /\ pc = "TotalPower" => RunningSum(Claimed)'[idx - 1] <= total
          /\ pc = "ConnectProvider" => RunningSum(Claimed)'[NumPsus] <= total
      BY <1>1, <2>1, <2>3, ClaimsShrink
    <3> QED  BY <2>1, <2>3, <3>1 DEF GrantInv
  <2> QED  BY <1>3, <2>2, <2>3
<1>4. ASSUME NEW p \in Psus, Driver(p)
      PROVE  GrantInv'
  <2>1. UNCHANGED <<pc, idx, total, dev, request, providerState>>
    BY <1>4, DriverFacts DEF DriverEffect
  <2> QED  BY <1>3, <1>4, <2>1, DriverDraws
<1>5. ASSUME NEW c \in Chargers, ChargerDriver(c)
      PROVE  GrantInv'
  BY <1>3, <1>5, ChargerDriverFacts
<1>6. CASE DropCurrent
  <2>1. prev.psu \in Psus
    BY <1>6 DEF DropCurrent, TypeOK, ControlInv, AvailableConsumer
  <2>2. pc' \notin Adding
    BY <1>6 DEF DropCurrent, Return
  <2>3. \/ psu' = psu
        \/ psu' = [psu EXCEPT ![prev.psu] = Disconnect(psu[prev.psu], FALSE)]
    BY <1>6 DEF DropCurrent
  <2>4. Disconnect(psu[prev.psu], FALSE).state = "Idle"
    BY DEF Disconnect
  <2> QED  BY <1>2, <1>3, <2>1, <2>2, <2>3, <2>4
<1>7. CASE ConnectNew
  <2>1. best.psu \in Psus
    BY <1>7 DEF ConnectNew, TypeOK, ControlInv, AvailableConsumer
  <2>2. pc' \notin Adding
    BY <1>7 DEF ConnectNew, Return
  <2>3. \/ psu' = psu
        \/ psu' = [psu EXCEPT ![best.psu] = ConnectConsumer(psu[best.psu], best.cap)]
    BY <1>7 DEF ConnectNew
  <2>4. ConnectConsumer(psu[best.psu], best.cap).state = "ConnectedConsumer"
    BY DEF ConnectConsumer
  <2> QED  BY <1>2, <1>3, <2>1, <2>2, <2>3, <2>4
<1>8. CASE ConnectProviderPsu
  <2>1. /\ pc = "ConnectProvider" /\ pc' \notin Adding
        /\ \/ psu' = psu
           \/ psu' = [psu EXCEPT ![dev] = ConnectProvider(psu[dev], TargetPower)]
    BY <1>8 DEF ConnectProviderPsu, Return
  <2>2. CASE psu' = psu
    BY <1>3, <2>1, <2>2
  <2>3. CASE psu' = [psu EXCEPT ![dev] = ConnectProvider(psu[dev], TargetPower)]
    <3>1. RunningSum(Above(Draw, MaxPowerMw(ProviderLimited)))'[NumPsus] <= LimitedMw
      BY <1>1, <2>1, <2>3, GrantBounded
    <3> QED  BY <2>1, <3>1 DEF GrantInv
  <2> QED  BY <2>1, <2>2, <2>3
<1>9. CASE ReadRequest
  <2>1. CASE pc' \notin Adding
    BY <1>3, <1>9, <2>1 DEF ReadRequest
  <2>2. CASE pc' \in Adding
    <3>1. pc' = "TotalPower" /\ idx' = 1 /\ total' = 0 /\ psu' = psu
      BY <1>9, <2>2 DEF ReadRequest, Return, ControlInv
    <3>2. RunningSum(Above(Draw, MaxPowerMw(ProviderLimited)))'[NumPsus] <= LimitedMw
      BY <1>1, <3>1, DrawsShrink
    <3>3. (Claimed \in [Psus -> Nat])'
      <4>1. /\ request' \in ProviderCaps /\ MaxPowerMw(request') \in Nat
        BY <1>1, <3>1, PowerFacts DEF TypeOK, ControlInv
      <4>2. \A q \in Psus : ConnectedProviderMw(psu'[q]) \in Nat
        BY <1>1, DrawFacts DEF TypeOK
      <4> QED  BY <4>1, <4>2 DEF Claimed
    <3>4. RunningSum(Claimed')[0] = 0
      BY <3>3, SumFacts
    <3>5. idx' \in 1..NumPsus + 1 /\ idx' - 1 = 0
      BY <3>1, PowerPolicyAssumption
    <3> QED  BY <3>1, <3>2, <3>4, <3>5 DEF GrantInv
  <2> QED  BY <2>1, <2>2
<1>10. CASE TotalPower
  <2>1. /\ pc = "TotalPower" /\ UNCHANGED <<psu, dev, request>>
    BY <1>10 DEF TotalPower
  <2>2. RunningSum(Above(Draw, MaxPowerMw(ProviderLimited)))'[NumPsus] <= LimitedMw
    BY <1>1, <2>1, DrawsShrink
  <2>3. /\ Claimed' = Claimed
        /\ Claimed \in [Psus -> Nat]
        /\ \A q \in Psus : Claimed[q] =
              IF q = dev THEN MaxPowerMw(request) ELSE ConnectedProviderMw(psu[q])
    BY <2>1, ClaimedFacts DEF Claimed
  <2>4. /\ idx \in 1..NumPsus + 1 /\ RunningSum(Claimed)[idx - 1] <= total /\ total \in Nat
    BY <2>1 DEF GrantInv, TypeOK
  <2> DEFINE s == RunningSum(Claimed)
  <2>5. /\ s \in [0..NumPsus -> Nat]
        /\ \A n \in Psus : s[n] = s[n - 1] + Claimed[n]
    BY <2>3, SumFacts
  <2>6. RunningSum(Claimed') = s
    BY <2>3
  <2> HIDE DEF s
  <2>7. CASE idx \in Psus
    <3>1. /\ pc' = "TotalPower" /\ idx' = idx + 1 /\ total' = total + Claimed[idx]
      BY <1>10, <2>1, <2>3, <2>7 DEF TotalPower
    <3>2. s[idx] = s[idx - 1] + Claimed[idx] /\ s[idx - 1] \in Nat /\ Claimed[idx] \in Nat
      <4>1. idx - 1 \in 0..NumPsus
        BY <2>7, PowerPolicyAssumption DEF Psus
      <4> QED  BY <2>3, <2>5, <2>7, <4>1
    <3>3. s[idx] <= total + Claimed[idx]
      BY <2>4, <3>2 DEF s
    <3>4. idx' \in 1..NumPsus + 1 /\ idx' - 1 = idx
      BY <2>7, <3>1, PowerPolicyAssumption DEF Psus
    <3> QED  BY <2>2, <2>6, <3>1, <3>3, <3>4 DEF GrantInv
  <2>8. CASE idx \notin Psus
    <3>1. /\ pc' = "ConnectProvider" /\ total' = total
          /\ providerState' = NewProviderState(total)
      BY <1>10, <2>8 DEF TotalPower
    <3>2. idx - 1 = NumPsus
      BY <2>4, <2>8, PowerPolicyAssumption DEF Psus
    <3>3. s[NumPsus] <= total
      BY <2>4, <3>2 DEF s
    <3>4. providerState' = "Unlimited" => total <= LimitedMw
      BY <2>4, <3>1, PowerPolicyAssumption DEF NewProviderState
    <3> QED  BY <2>2, <2>6, <3>1, <3>3, <3>4 DEF GrantInv
  <2> QED  BY <2>7, <2>8
<1>11. CASE \/ \E p \in Psus : ProcessPsuEvent(p)
            \/ ProviderRemoved \/ FindBest \/ Select \/ DetachChargers \/ AttachChargers
            \/ NotifyDisconnected \/ NotifyConnected \/ UpdateUnconstrained
  <2>1. psu' = psu
    BY <1>11 DEF ProcessPsuEvent, ProviderRemoved, FindBest, Select, DetachChargers,
       AttachChargers, NotifyDisconnected, NotifyConnected, UpdateUnconstrained
  <2>2. pc' \notin Adding
    BY <1>11 DEF ProcessPsuEvent, ProviderRemoved, FindBest, Select, DetachChargers,
       AttachChargers, NotifyDisconnected, NotifyConnected, UpdateUnconstrained, Return
  <2> QED  BY <1>3, <2>1, <2>2
<1>12. CASE UNCHANGED vars
  BY <1>3, <1>12 DEF vars
<1> QED
  BY <1>4, <1>5, <1>6, <1>7, <1>8, <1>9, <1>10, <1>11, <1>12 DEF Next, Policy

\* The power provided stays within the threshold and one limited contract for
\* every provider but one, for any number of PSUs, any capabilities and any
\* threshold, although the total a request is granted from is added up one lock
\* at a time while drivers end contracts.
THEOREM ProviderPowerBoundedHolds == Spec => []ProviderPowerBounded
<1> DEFINE m == MaxPowerMw(ProviderLimited)
<1>1. m \in Nat /\ NumPsus \in Nat /\ LimitedMw \in Nat
  BY PowerFacts, PowerPolicyAssumption
<1>2. Init => GrantInv
  <2> SUFFICES ASSUME Init PROVE GrantInv
    OBVIOUS
  <2> DEFINE a == Above(Draw, m)
             zero == [p \in Psus |-> 0]
  <2>1. pc = "WaitEvent" /\ Draw = zero
    BY DEF Init, Draw, DefaultState, ConnectedProviderMw
  <2> HIDE DEF m
  <2>2. a = zero
    BY <1>1, <2>1 DEF Above
  <2>3. zero \in [Psus -> Nat] /\ \A p \in Psus : zero[p] = 0
    OBVIOUS
  <2> DEFINE s == RunningSum(zero)
             T == {n \in 0..NumPsus : s[n] = 0}
  <2> HIDE DEF zero
  <2>4. s[0] = 0 /\ \A n \in Psus : s[n] = s[n - 1] + 0
    BY <2>3, SumFacts
  <2> HIDE DEF s
  <2>5. 0 \in T
    BY <1>1, <2>4
  <2>6. \A n \in 1..NumPsus : n - 1 \in T => n \in T
    BY <1>1, <2>4 DEF Psus
  <2> HIDE DEF T
  <2>7. NumPsus \in T
    BY <1>1, <2>5, <2>6, UpTo
  <2>8. s[NumPsus] <= LimitedMw
    BY <1>1, <2>7 DEF T
  <2> HIDE DEF a
  <2> QED  BY <2>1, <2>2, <2>8 DEF GrantInv, m, s, a
<1>3. TypeOK /\ ControlInv /\ GrantInv /\ [Next]_vars => TypeOK' /\ ControlInv' /\ GrantInv'
  BY TypeStep, GrantStep
<1>4. TypeOK /\ GrantInv => ProviderPowerBounded
  <2> SUFFICES ASSUME TypeOK, GrantInv PROVE ProviderPowerBounded
    OBVIOUS
  <2> DEFINE s == RunningSum(Draw)
             b == RunningSum(Above(Draw, m))
  <2> HIDE DEF m
  <2>1. Draw \in [Psus -> Nat]
    BY DrawFacts DEF Draw, TypeOK
  <2>2. Above(Draw, m) \in [Psus -> Nat]
    BY <1>1, <2>1 DEF Above
  <2>3. s \in [0..NumPsus -> Nat] /\ b \in [0..NumPsus -> Nat]
    BY <2>1, <2>2, SumFacts
  <2>4. \/ s[NumPsus] <= NumPsus * m
        \/ s[NumPsus] <= b[NumPsus] + (NumPsus - 1) * m
    BY <1>1, <2>1, SumSplit
  <2>5. b[NumPsus] <= LimitedMw
    BY DEF GrantInv, m
  <2> HIDE DEF s, b
  <2>6. s[NumPsus] \in Nat /\ b[NumPsus] \in Nat
    BY <1>1, <2>3
  <2> DEFINE k == (NumPsus - 1) * m
  <2>7. NumPsus * m = k + m /\ k \in Int
    BY <1>1
  <2> HIDE DEF k
  <2>8. s[NumPsus] <= (IF LimitedMw > m THEN LimitedMw ELSE m) + k
    BY <1>1, <2>4, <2>5, <2>6, <2>7 DEF k
  <2> QED  BY <2>8 DEF ProviderPowerBounded, TotalProvidedMw, m, s, k
<1> QED  BY <1>2, <1>3, <1>4, TypeInit, PTL DEF Spec
=============================================================================
