--------------------------- MODULE Unconstrained ---------------------------
(***************************************************************************)
(* How the power policy's unconstrained state reaches the Type-C ports     *)
(* (power-policy-service consumer.rs, type-c-service service/power.rs).    *)
(*                                                                         *)
(* The power policy selects the best offer, counts the sources that offer  *)
(* unconstrained power and publishes the count, and whether its current    *)
(* consumer is one of them, when either changed.  The Type-C service then  *)
(* tells each port whether it may call the system unconstrained: every     *)
(* port, except the one the system itself depends on.  It finds that one   *)
(* by the status each port has cached, which may run ahead of the          *)
(* capability the port has offered to the policy, and it reads and sets    *)
(* one port at a time, each under the port's lock.  Sources change between *)
(* any two of these steps.                                                 *)
(*                                                                         *)
(* Reading all sources is one step of the policy, counting them another    *)
(* (PowerPolicy has the steps in between, and the calls that fail); which  *)
(* of several best offers it takes first is left open.                     *)
(***************************************************************************)
EXTENDS Naturals, Sequences, FiniteSets

CONSTANTS
    None,
    NumPorts,          \* Type-C ports, 1 .. NumPorts in the service's order
    Barrels,           \* sources that are not Type-C ports
    Capabilities,      \* what a source may offer: [power, unconstrained]
    MinPower,          \* config.min_consumer_threshold_mw
    QueueSize,         \* channel from the power policy to the Type-C service
    MaxChanges         \* bound: changes of offers and failed handlers

Ports == 1 .. NumPorts
Sources == Ports \cup Barrels

VARIABLES
    offer,             \* each source's consumer capability
    status,            \* whether a port's cached sink contract is unconstrained
    unread,            \* a source changed since the policy last read them
    policy, current,   \* the policy's place in its handler, and its consumer
    unconstrained,     \* the policy's unconstrained state
    queue,             \* unconstrained events for the Type-C service
    pc, idx, sole,     \* the service's place in its loops, and unconstrained_port
    event,             \* the event being processed
    flag,              \* set_unconstrained_power of each port
    lost, failed,      \* history: an event was dropped; a handler gave up
    steady,            \* history: who is unconstrained is as it was when last published
    changes

sources == <<offer, status, unread>>
selection == <<policy, current, unconstrained>>
service == <<pc, idx, sole, event>>
vars == <<sources, selection, queue, service, flag, lost, failed, steady, changes>>

UnconstrainedState == [unconstrained : BOOLEAN, available : 0 .. Cardinality(Sources)]
Constrained == [unconstrained |-> FALSE, available |-> 0]

IsUnconstrained(cap) == cap # None /\ cap.unconstrained
Supplies == {s \in Sources : IsUnconstrained(offer[s])}

\* What every port's status says is what it offers.
StatusTrue == \A p \in Ports : status[p] <=> IsUnconstrained(offer[p])

Init ==
    /\ offer = [s \in Sources |-> None] /\ status = [p \in Ports |-> FALSE] /\ unread = FALSE
    /\ policy = "Wait" /\ current = None /\ unconstrained = Constrained
    /\ queue = << >>
    /\ pc = "Wait" /\ idx = 1 /\ sole = None /\ event = Constrained
    /\ flag = [p \in Ports |-> FALSE]
    /\ lost = FALSE /\ failed = FALSE /\ steady = TRUE /\ changes = 0

-----------------------------------------------------------------------------
\* A source offers something else, or nothing.
Offers(s, cap) ==
    /\ changes < MaxChanges /\ changes' = changes + 1
    /\ offer' = [offer EXCEPT ![s] = cap]
    /\ unread' = (unread \/ cap # offer[s])
    /\ steady' = (steady /\ status' = status /\ Supplies' = Supplies)
    /\ UNCHANGED <<selection, queue, service, flag, lost, failed>>

\* A barrel jack.
BarrelChanges(b, cap) == UNCHANGED status /\ Offers(b, cap)

\* A port handles an interrupt under its lock (TypeCPort): the sink contract
\* becomes its offer once the sink is ready, a plug, reset or swap takes the
\* offer back, and the status is cached in any case, unless the handler fails.
PortChanges(p, contract) ==
    \E cap \in {offer[p], contract, None}, reported \in {status[p], IsUnconstrained(contract)} :
        /\ status' = [status EXCEPT ![p] = reported]
        /\ Offers(p, cap)

-----------------------------------------------------------------------------
Acceptable(s) == offer[s] # None /\ offer[s].power >= MinPower
Best == {s \in Sources : /\ Acceptable(s)
                         /\ \A t \in Sources : Acceptable(t) => offer[t].power <= offer[s].power}

\* The policy handles an event: it reads every source and goes to the best one,
\* or stays with its consumer when that is one of the best.
UpdateCurrentConsumer ==
    /\ policy = "Wait" /\ policy' = "Count"
    /\ unread' = FALSE
    /\ \/ Best = {} /\ current' = None
       \/ \E s \in IF current # None /\ current.psu \in Best THEN {current.psu} ELSE Best :
              current' = [psu |-> s, cap |-> offer[s]]
    /\ UNCHANGED <<offer, status, unconstrained, queue, service, flag, lost, failed, steady,
                   changes>>

\* Then it counts the unconstrained sources, and publishes what changed.
UpdateUnconstrainedState ==
    /\ policy = "Count" /\ policy' = "Wait"
    /\ unconstrained' = [unconstrained |-> current # None /\ current.cap.unconstrained,
                         available |-> Cardinality(Supplies)]
    /\ IF unconstrained' = unconstrained THEN UNCHANGED <<queue, lost, steady>>
       ELSE /\ steady' = StatusTrue
            /\ IF Len(queue) < QueueSize
               THEN queue' = Append(queue, unconstrained') /\ UNCHANGED lost
               ELSE lost' = TRUE /\ UNCHANGED queue
    /\ UNCHANGED <<sources, current, service, flag, failed, changes>>

-----------------------------------------------------------------------------
\* Mutant: one unconstrained source is taken for several.
TakeEventOffByOne ==
    /\ pc = "Wait" /\ queue # << >>
    /\ event' = Head(queue) /\ queue' = Tail(queue)
    /\ idx' = 1 /\ sole' = None
    /\ pc' = IF event'.unconstrained /\ event'.available < 1 THEN "Find" ELSE "Set"
    /\ UNCHANGED <<sources, selection, flag, lost, failed, steady, changes>>

\* process_unconstrained_state_change up to its first loop.
TakeEvent ==
    /\ pc = "Wait" /\ queue # << >>
    /\ event' = Head(queue) /\ queue' = Tail(queue)
    /\ idx' = 1 /\ sole' = None
    /\ pc' = IF event'.unconstrained /\ event'.available <= 1 THEN "Find" ELSE "Set"
    /\ UNCHANGED <<sources, selection, flag, lost, failed, steady, changes>>

\* Look for the first port that reports unconstrained power.
FindPort ==
    /\ pc = "Find"
    /\ IF idx \in Ports /\ ~status[idx]
       THEN idx' = idx + 1 /\ UNCHANGED <<pc, sole>>
       ELSE /\ sole' = IF idx \in Ports THEN idx ELSE None
            /\ idx' = 1 /\ pc' = "Set"
    /\ UNCHANGED <<sources, selection, queue, event, flag, lost, failed, steady, changes>>

\* The value for a port: all constrained, or all but the only source.
FlagOf(p) == event.unconstrained /\ p # sole

\* Set one port; a port that fails ends the handler with an error.
SetPort ==
    /\ pc = "Set"
    /\ \/ /\ idx \in Ports
          /\ flag' = [flag EXCEPT ![idx] = FlagOf(idx)]
          /\ idx' = idx + 1
          /\ UNCHANGED <<pc, failed, changes>>
       \/ /\ idx \in Ports /\ changes < MaxChanges
          /\ changes' = changes + 1 /\ failed' = TRUE
          /\ pc' = "Wait"
          /\ UNCHANGED <<flag, idx>>
       \/ /\ idx \notin Ports
          /\ pc' = "Wait"
          /\ UNCHANGED <<flag, idx, failed, changes>>
    /\ UNCHANGED <<sources, selection, queue, sole, event, lost, steady>>

Next ==
    \/ \E b \in Barrels, cap \in Capabilities \cup {None} : BarrelChanges(b, cap)
    \/ \E p \in Ports, contract \in Capabilities \cup {None} : PortChanges(p, contract)
    \/ UpdateCurrentConsumer \/ UpdateUnconstrainedState
    \/ TakeEvent \/ FindPort \/ SetPort

Spec == Init /\ [][Next]_vars

-----------------------------------------------------------------------------
(* Properties.                                                              *)

\* Types of the policy's and the service's state.
TypeOK ==
    /\ offer \in [Sources -> Capabilities \cup {None}] /\ status \in [Ports -> BOOLEAN]
    /\ policy \in {"Wait", "Count"}
    /\ current \in [psu : Sources, cap : Capabilities] \cup {None}
    /\ unconstrained \in UnconstrainedState /\ event \in UnconstrainedState
    /\ queue \in Seq(UnconstrainedState)
    /\ pc \in {"Wait", "Find", "Set"} /\ idx \in 1 .. NumPorts + 1
    /\ sole \in Ports \cup {None} /\ flag \in [Ports -> BOOLEAN]
    /\ unread \in BOOLEAN /\ lost \in BOOLEAN /\ failed \in BOOLEAN /\ steady \in BOOLEAN

Settled == ~unread /\ policy = "Wait" /\ queue = << >> /\ pc = "Wait" /\ ~lost /\ ~failed

\* The system draws from an unconstrained source.
Drawing == current # None /\ IsUnconstrained(offer[current.psu])

\* The ports that may not call the system unconstrained.
Spared == {p \in Ports : ~flag[p]}

\* With everything handled: no port calls the system unconstrained while it is
\* not; every port does while several sources are unconstrained; and with only
\* one, a single port may be left out: "If it switches to sourcing then the
\* system will no longer be unconstrained. So set that port to constrained and
\* unconstrain all others" (service/power.rs:44).  The port left out is that one,
\* if the sources are still unconstrained, and the ports' statuses still say so,
\* as when the policy last published.  Otherwise the policy may find as many as
\* before and tell nobody that it is another port now.
FlagsFollowSources ==
    Settled =>
        /\ ~Drawing => Spared = Ports
        /\ Drawing /\ Cardinality(Supplies) > 1 => Spared = {}
        /\ Drawing => \A p, q \in Spared : p = q
        /\ Drawing /\ Cardinality(Supplies) = 1 /\ steady => Spared = Supplies \cap Ports
=============================================================================
