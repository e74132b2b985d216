----------------------------- MODULE RemoteCall -----------------------------
(***************************************************************************)
(* What a channel for deferred commands promises: a caller invokes a       *)
(* command, a handler carries out each invocation at most once, and the    *)
(* caller either gives up or returns with the result of its own            *)
(* invocation, which has been carried out by then.  Invocations are        *)
(* numbered.                                                               *)
(***************************************************************************)
EXTENDS Naturals

CONSTANTS Callers, None

VARIABLES
    open,      \* per caller, its open invocation or None
    invoked,   \* the number of invocations so far
    done,      \* the invocations carried out
    result     \* per caller, the invocation whose result it returned with last, or None

abstractVars == <<open, invoked, done, result>>

RCInit ==
    /\ open = [c \in Callers |-> None]
    /\ invoked = 0
    /\ done = {}
    /\ result = [c \in Callers |-> None]

Invoke(c) ==
    /\ open[c] = None
    /\ open' = [open EXCEPT ![c] = invoked]
    /\ invoked' = invoked + 1
    /\ UNCHANGED <<done, result>>

CarryOut(i) ==
    /\ i < invoked
    /\ i \notin done
    /\ done' = done \cup {i}
    /\ UNCHANGED <<open, invoked, result>>

GiveUp(c) ==
    /\ open[c] # None
    /\ open' = [open EXCEPT ![c] = None]
    /\ UNCHANGED <<invoked, done, result>>

Return(c) ==
    /\ open[c] \in done
    /\ result' = [result EXCEPT ![c] = open[c]]
    /\ open' = [open EXCEPT ![c] = None]
    /\ UNCHANGED <<invoked, done>>

RCNext ==
    \/ \E c \in Callers : Invoke(c) \/ GiveUp(c) \/ Return(c)
    \/ \E i \in 0..(invoked - 1) : CarryOut(i)

RCSpec == RCInit /\ [][RCNext]_abstractVars
=============================================================================
