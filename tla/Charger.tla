------------------------------ MODULE Charger ------------------------------
(***************************************************************************)
(* The battery-charger state machine of power-policy-interface/src/        *)
(* charger/mod.rs, as operators on a charger::State record.  The policy    *)
(* never calls a transition itself: the driver does, from inside the trait *)
(* methods the policy invokes (ExampleCharger in examples/std/src/bin/     *)
(* power_policy.rs) or from its own interrupt handling.                    *)
(***************************************************************************)
EXTENDS Psu

ChargerPsuState == {"Attached", "Detached"}

\* InternalState with PoweredSubstate flattened into it.
InternalState == {"Unpowered", "Init", "PsuAttached", "PsuDetached"}

ChargerState == [state : InternalState, cap : ConsumerCaps \cup {None}]

DefaultCharger == [state |-> "Unpowered", cap |-> None]

IsUnpowered(c) == c.state = "Unpowered"

AfterPsuState(ps) == IF ps = "Attached" THEN "PsuAttached" ELSE "PsuDetached"

\* on_initialized and on_psu_state_change leave the state alone on error.
OnInitialized(c, ps) ==
    IF c.state = "Init" THEN [c EXCEPT !.state = AfterPsuState(ps)] ELSE c
OnPsuStateChange(c, ps) ==
    IF c.state \in {"PsuAttached", "PsuDetached"}
    THEN [c EXCEPT !.state = AfterPsuState(ps)]
    ELSE c

OnTimeout(c) == DefaultCharger

\* The cached capability is cleared on power-up and kept on a failed check.
OnReadySuccess(c) ==
    IF IsUnpowered(c) THEN [state |-> "Init", cap |-> None] ELSE c
OnReadyFailure(c) == [c EXCEPT !.state = "Unpowered"]

OnPolicyAttach(c, cap) == [c EXCEPT !.cap = cap]

\* Mutant of OnPolicyDetach: the capability stays cached.
OnPolicyDetachKeeps(c) == c
OnPolicyDetach(c) == [c EXCEPT !.cap = None]
=============================================================================
