-------------------------- MODULE DeferredChannel ---------------------------
(***************************************************************************)
(* The channel for deferred commands (embedded-service/src/ipc/            *)
(* deferred.rs).  Callers run Channel::execute; a future that is dropped,  *)
(* for instance by a timeout, gives up at either of its awaits.  Receivers *)
(* loop over Channel::receive and Request::respond.  A Signal holds one    *)
(* value; signalling again replaces it, waiting takes it.                  *)
(*                                                                         *)
(* Invocations are numbered by the order in which they get their id; the   *)
(* id is that number at the width of usize.  A command and a response      *)
(* carry the number of their invocation, which the code does not see.      *)
(***************************************************************************)
EXTENDS Naturals

CONSTANTS
    Callers,
    Receivers,
    IdCount,       \* the number of values of usize
    MaxInvocations,\* bound: invocations
    None

ASSUME IdCountAssumption == IdCount \in Nat \ {0}
ASSUME InvocationsAssumption == MaxInvocations \in 0..IdCount   \* no id comes round again
ASSUME NoneAssumption == None \notin Nat \cup Callers

VARIABLES
    pc,        \* per caller: "idle", "lock" or "wait"
    mine,      \* per caller, its invocation, or None
    lock,      \* request_lock: the caller that holds it, or None
    next,      \* the number of invocations, next_request_id before the wrap
    command,   \* the command signal: an invocation, or None
    response,  \* the response signal: an invocation, or None
    job,       \* per receiver, the invocation of its Request, or None
    done,      \* the invocations responded to
    result     \* per caller, the invocation whose response execute returned last

vars == <<pc, mine, lock, next, command, response, job, done, result>>

(* RequestId. *)
Id(i) == i % IdCount

TypeOK ==
    /\ pc \in [Callers -> {"idle", "lock", "wait"}]
    /\ mine \in [Callers -> Nat \cup {None}]
    /\ lock \in Callers \cup {None}
    /\ next \in Nat
    /\ command \in Nat \cup {None}
    /\ response \in Nat \cup {None}
    /\ job \in [Receivers -> Nat \cup {None}]
    /\ done \in SUBSET Nat
    /\ result \in [Callers -> Nat \cup {None}]

Init ==
    /\ pc = [c \in Callers |-> "idle"]
    /\ mine = [c \in Callers |-> None]
    /\ lock = None
    /\ next = 0
    /\ command = None
    /\ response = None
    /\ job = [r \in Receivers |-> None]
    /\ done = {}
    /\ result = [c \in Callers |-> None]

-----------------------------------------------------------------------------
(* Channel::execute. *)

Execute(c) ==
    /\ pc[c] = "idle"
    /\ pc' = [pc EXCEPT ![c] = "lock"]
    /\ UNCHANGED <<mine, lock, next, command, response, job, done, result>>

(* With the lock: get_next_request_id and the signal, without an await. *)
SendCommand(c) ==
    /\ pc[c] = "lock"
    /\ lock = None
    /\ next < MaxInvocations
    /\ lock' = c
    /\ mine' = [mine EXCEPT ![c] = next]
    /\ next' = next + 1
    /\ command' = next
    /\ pc' = [pc EXCEPT ![c] = "wait"]
    /\ UNCHANGED <<response, job, done, result>>

\* Mutant of TakeResponse: the id is not compared.
TakeResponseUnchecked(c) ==
    /\ pc[c] = "wait"
    /\ response # None
    /\ response' = None
    /\ result' = [result EXCEPT ![c] = response]
    /\ pc' = [pc EXCEPT ![c] = "idle"]
    /\ mine' = [mine EXCEPT ![c] = None]
    /\ lock' = None
    /\ UNCHANGED <<next, command, job, done>>

(* The loop: a response with another id is dropped. *)
TakeResponse(c) ==
    /\ pc[c] = "wait"
    /\ response # None
    /\ response' = None
    /\ IF Id(response) = Id(mine[c])
       THEN /\ result' = [result EXCEPT ![c] = response]
            /\ pc' = [pc EXCEPT ![c] = "idle"]
            /\ mine' = [mine EXCEPT ![c] = None]
            /\ lock' = None
       ELSE UNCHANGED <<result, pc, mine, lock>>
    /\ UNCHANGED <<next, command, job, done>>

(* The future is dropped: the guard releases the lock. *)
Drop(c) ==
    /\ pc[c] # "idle"
    /\ pc' = [pc EXCEPT ![c] = "idle"]
    /\ mine' = [mine EXCEPT ![c] = None]
    /\ lock' = IF lock = c THEN None ELSE lock
    /\ UNCHANGED <<next, command, response, job, done, result>>

-----------------------------------------------------------------------------
(* Channel::receive and Request::respond, which consumes the request. *)

Receive(r) ==
    /\ job[r] = None
    /\ command # None
    /\ job' = [job EXCEPT ![r] = command]
    /\ command' = None
    /\ UNCHANGED <<pc, mine, lock, next, response, done, result>>

Respond(r) ==
    /\ job[r] # None
    /\ response' = job[r]
    /\ done' = done \cup {job[r]}
    /\ job' = [job EXCEPT ![r] = None]
    /\ UNCHANGED <<pc, mine, lock, next, command, result>>

Next ==
    \/ \E c \in Callers : Execute(c) \/ SendCommand(c) \/ TakeResponse(c) \/ Drop(c)
    \/ \E r \in Receivers : Receive(r) \/ Respond(r)

Spec == Init /\ [][Next]_vars

-----------------------------------------------------------------------------
(* "This locks to ensure that commands are executed atomically": a caller  *)
(* that waits holds the lock, the lock is held by nobody else, and the     *)
(* invocation waited for is the latest one.                                *)
LockInv ==
    /\ \A c \in Callers : pc[c] = "wait" <=> lock = c
    /\ \A c \in Callers : pc[c] = "wait" <=> mine[c] # None
    /\ \A c \in Callers : pc[c] = "wait" => mine[c] = next - 1

(* "Consuming the command ensures each command may only be responded to    *)
(* once": no invocation is at two places at once, or at a receiver after   *)
(* it was responded to, and only the latest one is still to be received.   *)
OnceInv ==
    /\ command # None => command = next - 1 /\ command \notin done
    /\ \A r \in Receivers : job[r] # None => job[r] < next /\ job[r] \notin done /\ job[r] # command
    /\ \A r, s \in Receivers : r # s /\ job[r] # None => job[r] # job[s]
    /\ response # None => response \in done
    /\ \A i \in done : i < next

(* "ensures that responses are sent back to the correct sender": the       *)
(* channel implements RemoteCall, however callers give up and responses    *)
(* come late.                                                              *)
RC == INSTANCE RemoteCall WITH open <- mine, invoked <- next
ResponsesMatch == RC!RCSpec
=============================================================================
