-------------------------------- MODULE Psu --------------------------------
(***************************************************************************)
(* The power-supply state machine shared by every PSU driver and by the    *)
(* power policy: power-policy-interface/src/psu/mod.rs and the             *)
(* capabilities of power-policy-interface/src/capability.rs.               *)
(*                                                                         *)
(* A transition function of `psu::State` always enters the state it is     *)
(* asked for and only reports, in its result, that the previous state was  *)
(* unexpected.  The operators below return the new state; the result is a  *)
(* separate predicate where a caller looks at it.                          *)
(***************************************************************************)
EXTENDS Integers

CONSTANTS
    None,           \* Rust's Option::None
    ConsumerCaps,   \* ConsumerPowerCapability values: [mv, ma, unconstrained]
    ProviderCaps    \* ProviderPowerCapability values: [mv, ma]

ASSUME CapsAssumption ==
    /\ ConsumerCaps \subseteq [mv : Nat, ma : Nat, unconstrained : BOOLEAN]
    /\ ProviderCaps \subseteq [mv : Nat, ma : Nat]
    /\ None \notin ConsumerCaps
    /\ None \notin ProviderCaps

\* PowerCapability::max_power_mw.  u16 * u16 / 1000 in u32: it cannot wrap.
MaxPowerMw(c) == (c.mv * c.ma) \div 1000

StateKind == {"Detached", "Idle", "ConnectedProvider", "ConnectedConsumer"}

\* psu::State: `state` is the kind of psu_state and `cap` the capability that
\* variant of the enum carries (None in Detached and Idle).
State ==
    {s \in [state     : StateKind,
            cap       : ConsumerCaps \cup ProviderCaps \cup {None},
            consumer  : ConsumerCaps \cup {None},
            requested : ProviderCaps \cup {None}] :
        /\ s.state = "ConnectedConsumer" => s.cap \in ConsumerCaps
        /\ s.state = "ConnectedProvider" => s.cap \in ProviderCaps
        /\ s.state \in {"Detached", "Idle"} => s.cap = None}

DefaultState ==
    [state |-> "Detached", cap |-> None, consumer |-> None, requested |-> None]

\* State::attach: Idle from any state; an error unless it was Detached.
Attach(s) ==
    [state |-> "Idle", cap |-> None, consumer |-> s.consumer, requested |-> s.requested]
AttachOk(s) == s.state = "Detached"

\* State::detach: always valid, forgets both capabilities.
Detach(s) == DefaultState

\* Mutant of Disconnect: the state is reset only together with the capabilities.
DisconnectKeepsRole(s, clearCaps) == IF clearCaps THEN Attach(DefaultState) ELSE s

\* State::disconnect(clear_caps): Idle from any state.
Disconnect(s, clearCaps) ==
    [state     |-> "Idle",
     cap       |-> None,
     consumer  |-> IF clearCaps THEN None ELSE s.consumer,
     requested |-> IF clearCaps THEN None ELSE s.requested]

\* Mutant of UpdateConsumer: the capability goes into the provider's field.
UpdateConsumerWrongField(s, c) == [s EXCEPT !.requested = c]

\* State::update_consumer_power_capability.
UpdateConsumer(s, c) == [s EXCEPT !.consumer = c]

\* State::update_requested_provider_power_capability.
UpdateRequested(s, c) == [s EXCEPT !.requested = c]

\* Both updates are errors on a Detached device, except that asking for the
\* provider capability already requested returns early with success.
UpdateConsumerOk(s) == s.state # "Detached"
UpdateRequestedOk(s, c) == s.requested = c \/ s.state # "Detached"

CanConnectConsumer(s) == s.state \in {"Idle", "ConnectedConsumer"}
ConnectConsumer(s, c) ==
    [state |-> "ConnectedConsumer", cap |-> c,
     consumer |-> s.consumer, requested |-> s.requested]

CanConnectProvider(s) == s.state \in {"Idle", "ConnectedProvider"}
ConnectProvider(s, c) ==
    [state |-> "ConnectedProvider", cap |-> c,
     consumer |-> s.consumer, requested |-> s.requested]

\* State::connected_provider_capability, as the power it stands for.
ConnectedProviderMw(s) ==
    IF s.state = "ConnectedProvider" THEN MaxPowerMw(s.cap) ELSE 0
=============================================================================
