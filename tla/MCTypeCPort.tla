---------------------------- MODULE MCTypeCPort ----------------------------
(***************************************************************************)
(* Two things a Type-C port takes part in: its own event handling          *)
(* (TypeCPort), and the flags that tell it whether it may call the system  *)
(* unconstrained (Unconstrained).  The two share no state: `unit` says,    *)
(* for a whole behaviour, which of them runs.  TypeCPort.cfg makes them    *)
(* small for TLC, with two ports and a barrel jack for the flags.          *)
(***************************************************************************)
EXTENDS TypeCPort

CONSTANTS NumPorts, Barrels, Capabilities, MinPower, QueueSize, MaxChanges

\* A contract that counts as unconstrained above 15 W.
OneContract == {[mv |-> 9000, ma |-> 3000, unconstrained |-> TRUE]}
OneSource == {[mv |-> 5000, ma |-> 3000]}
\* Too little power, little that is unconstrained, and more that is not.
ThreeOffers == {[power |-> 0, unconstrained |-> TRUE], [power |-> 1, unconstrained |-> TRUE],
                [power |-> 2, unconstrained |-> FALSE]}
Above15W == [mode |-> "PowerThreshold", mw |-> 15000]

VARIABLES unit, offer, cached, unread, policy, current, unconstrained, queue, pc, idx, sole,
          published, flag, dropped, failed, steady, changes

Flags == INSTANCE Unconstrained WITH
            status <- cached, event <- published, lost <- dropped

flagVars == <<offer, cached, unread, policy, current, unconstrained, queue, pc, idx, sole,
              published, flag, dropped, failed, steady, changes>>
allVars == <<vars, flagVars, unit>>

SuiteInit ==
    /\ unit \in {"port", "flags"}
    /\ Init /\ (unit = "flags" => signals)
    /\ Flags!Init

SuiteNext ==
    \/ unit = "port" /\ Next /\ UNCHANGED <<flagVars, unit>>
    \/ unit = "flags" /\ Flags!Next /\ UNCHANGED <<vars, unit>>

\* The fairness of TypeCPort!FairSpec.
SuiteSpec ==
    /\ SuiteInit /\ [][SuiteNext]_allVars
    /\ WF_vars(unit = "port" /\ (Receiver \/ Process))

\* With everything handled, no port calls the system unconstrained while it is
\* not, every port does while several sources are unconstrained, and with one
\* only a port that is that source may be left out.
FlagsFollowSources == Flags!TypeOK /\ Flags!FlagsFollowSources
=============================================================================
