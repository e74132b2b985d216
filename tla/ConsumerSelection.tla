------------------------- MODULE ConsumerSelection -------------------------
(***************************************************************************)
(* What the power policy promises about external power, seen by a listener *)
(* of its notifications: one consumer at a time, started only when nothing *)
(* is active and only on the best offer known, and stopped only when it is *)
(* no longer the best offer known.  PowerPolicy implements it, with the    *)
(* consumer last announced as `active` and the capabilities last read      *)
(* under the PSUs' locks as `offer`.                                       *)
(***************************************************************************)
EXTENDS Psu

CONSTANTS Sources, MinMw

VARIABLES
    active,    \* the announced consumer, [psu, cap] or None
    offer      \* offer[p]: what source p is known to offer

Acceptable(c) == c # None /\ MaxPowerMw(c) >= MinMw

\* No acceptable offer is worth more than c.
Unbeaten(c) ==
    \A q \in Sources : Acceptable(offer[q]) => MaxPowerMw(offer[q]) <= MaxPowerMw(c)

Justified(a) == offer[a.psu] = a.cap /\ Acceptable(a.cap) /\ Unbeaten(a.cap)

Init ==
    /\ active = None
    /\ offer = [p \in Sources |-> None]

Learn(p, c) ==
    /\ offer' = [offer EXCEPT ![p] = c]
    /\ UNCHANGED active

Start(p) ==
    /\ active = None
    /\ Justified([psu |-> p, cap |-> offer[p]])
    /\ active' = [psu |-> p, cap |-> offer[p]]
    /\ UNCHANGED offer

Stop ==
    /\ active # None
    /\ ~Justified(active)
    /\ active' = None
    /\ UNCHANGED offer

Next ==
    \/ \E p \in Sources, c \in ConsumerCaps \cup {None} : Learn(p, c)
    \/ \E p \in Sources : Start(p)
    \/ Stop

Spec == Init /\ [][Next]_<<active, offer>>
=============================================================================
