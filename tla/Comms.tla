-------------------------------- MODULE Comms -------------------------------
(***************************************************************************)
(* The comms service: endpoints register in intrusive lists, one list per  *)
(* kind of endpoint id, and a message is routed to every endpoint of its   *)
(* list with the id it is sent to (embedded-service/src/comms.rs and       *)
(* intrusive_list.rs).  Nothing is ever removed from a list.               *)
(*                                                                         *)
(* The steps of a push and of a walk along a list are the accesses to      *)
(* shared cells; on one executor a push and a walk run without             *)
(* interruption, on preemptive threads or two cores they do not.           *)
(***************************************************************************)
EXTENDS Naturals, FiniteSets

CONSTANTS
    Endpoints,
    Registrars,  \* calls of register_endpoint
    Senders,
    Plans,       \* what a behaviour may be about: [preemptive, target]
    IdOf,        \* IdOf[e] is the id of endpoint e
    ListOf,      \* ListOf[i] is the list of id i: OEM ids share one
    None

Ids == {IdOf[e] : e \in Endpoints}
Lists == {ListOf[i] : i \in Ids}

VARIABLES
    plan,       \* preemptive or not, and the endpoint each registrar registers
    ready,      \* the lists are initialized
    head,       \* per list, its first endpoint or None
    node,       \* per endpoint, its IntrusiveNode
    delegator,  \* per endpoint, the registrar whose delegate receives, or None
    rpc,        \* per registrar, where its call is
    spc,        \* per sender, where its call is
    to,         \* per sender, the id it sends to
    at,         \* per sender, the node its walk is at, or None
    got,        \* per sender and endpoint, how often the message was received, up to 2
    expected    \* per sender, the endpoints that were registered when the walk began

vars == <<plan, ready, head, node, delegator, rpc, spc, to, at, got, expected>>
registry == <<plan, ready, head, node, delegator, rpc>>
routing == <<spc, to, at, got, expected>>

TypeOK ==
    /\ plan \in Plans
    /\ ready \in BOOLEAN
    /\ head \in [Lists -> Endpoints \cup {None}]
    /\ node \in [Endpoints -> [next : Endpoints \cup {None}, valid : BOOLEAN]]
    /\ delegator \in [Endpoints -> Registrars \cup {None}]
    /\ rpc \in [Registrars -> {"start", "await", "checked", "set", "done", "refused"}]
    /\ spc \in [Senders -> {"idle", "await", "route"}]
    /\ to \in [Senders -> Ids]
    /\ at \in [Senders -> Endpoints \cup {None}]
    /\ got \in [Senders -> [Endpoints -> 0..2]]
    /\ expected \in [Senders -> SUBSET Endpoints]

(* Node::uninit and Endpoint::uninit. *)
Init ==
    /\ plan \in Plans
    /\ ready = FALSE
    /\ head = [l \in Lists |-> None]
    /\ node = [e \in Endpoints |-> [next |-> None, valid |-> FALSE]]
    /\ delegator = [e \in Endpoints |-> None]
    /\ rpc = [r \in Registrars |-> "start"]
    /\ spc = [s \in Senders |-> "idle"]
    /\ to \in [Senders -> Ids]
    /\ at = [s \in Senders |-> None]
    /\ got = [s \in Senders |-> [e \in Endpoints |-> 0]]
    /\ expected = [s \in Senders |-> {}]

-----------------------------------------------------------------------------
Target(r) == plan.target[r]

(* comms::init: registrations and messages wait for it. *)
InitLists ==
    /\ ~ready
    /\ ready' = TRUE
    /\ UNCHANGED <<plan, head, node, delegator, rpc, routing>>

(* Without preemption, no push or walk is left half done. *)
Runs(x) ==
    \/ plan.preemptive
    \/ /\ \A r \in Registrars \ {x} : rpc[r] \notin {"checked", "set"}
       /\ \A s \in Senders \ {x} : spc[s] # "route"

(* register_endpoint up to the wait for the list. *)
Register(r) ==
    /\ rpc[r] = "start"
    /\ Runs(r)
    /\ delegator' = [delegator EXCEPT ![Target(r)] = r]
    /\ rpc' = [rpc EXCEPT ![r] = "await"]
    /\ UNCHANGED <<plan, ready, head, node, routing>>

(* IntrusiveList::push: the test of the valid flag. *)
Push(r) ==
    /\ rpc[r] = "await"
    /\ Runs(r)
    /\ ready
    /\ rpc' = [rpc EXCEPT ![r] = IF node[Target(r)].valid THEN "refused" ELSE "checked"]
    /\ UNCHANGED <<plan, ready, head, node, delegator, routing>>

(* The new node is written. *)
PushNode(r) ==
    /\ rpc[r] = "checked"
    /\ node' = [node EXCEPT ![Target(r)] = [next |-> None, valid |-> TRUE]]
    /\ rpc' = [rpc EXCEPT ![r] = "set"]
    /\ UNCHANGED <<plan, ready, head, delegator, routing>>

\* Mutant of PushFront: the node is not linked to the old head.
PushFrontUnlinked(r) ==
    LET e == Target(r)
    IN  /\ rpc[r] = "set"
        /\ head' = [head EXCEPT ![ListOf[IdOf[e]]] = e]
        /\ rpc' = [rpc EXCEPT ![r] = "done"]
        /\ UNCHANGED <<plan, ready, node, delegator, routing>>

(* push_front, in a critical section. *)
PushFront(r) ==
    LET e == Target(r)
        l == ListOf[IdOf[e]]
    IN  /\ rpc[r] = "set"
        /\ node' = IF head[l] # None THEN [node EXCEPT ![e].next = head[l]] ELSE node
        /\ head' = [head EXCEPT ![l] = e]
        /\ rpc' = [rpc EXCEPT ![r] = "done"]
        /\ UNCHANGED <<plan, ready, delegator, routing>>

-----------------------------------------------------------------------------
Registered == {Target(r) : r \in {q \in Registrars : rpc[q] = "done"}}

(* send. *)
Send(s, i) ==
    /\ spc[s] = "idle"
    /\ to' = [to EXCEPT ![s] = i]
    /\ spc' = [spc EXCEPT ![s] = "await"]
    /\ got' = [got EXCEPT ![s] = [e \in Endpoints |-> 0]]
    /\ expected' = [expected EXCEPT ![s] = {}]
    /\ UNCHANGED <<at, registry>>

(* route, once the list is initialized. *)
Route(s) ==
    /\ spc[s] = "await"
    /\ Runs(s)
    /\ ready
    /\ at' = [at EXCEPT ![s] = head[ListOf[to[s]]]]
    /\ expected' = [expected EXCEPT ![s] = {e \in Registered : IdOf[e] = to[s]}]
    /\ spc' = [spc EXCEPT ![s] = "route"]
    /\ UNCHANGED <<to, got, registry>>

(* An endpoint on the list is valid, and has a delegator to receive for it. *)
Receives(e) == node[e].valid /\ delegator[e] # None

(* One turn of the loop in route, with Endpoint::process. *)
RouteStep(s) ==
    /\ spc[s] = "route"
    /\ at[s] # None
    /\ got' = IF Receives(at[s]) /\ IdOf[at[s]] = to[s] /\ got[s][at[s]] < 2
              THEN [got EXCEPT ![s][at[s]] = @ + 1] ELSE got
    /\ at' = [at EXCEPT ![s] = node[at[s]].next]
    /\ UNCHANGED <<spc, to, expected, registry>>

RouteEnd(s) ==
    /\ spc[s] = "route"
    /\ at[s] = None
    /\ spc' = [spc EXCEPT ![s] = "idle"]
    /\ UNCHANGED <<to, at, got, expected, registry>>

Next ==
    \/ InitLists
    \/ \E r \in Registrars : Register(r) \/ Push(r) \/ PushNode(r) \/ PushFront(r)
    \/ \E s \in Senders :
          (\E i \in Ids : Send(s, i)) \/ Route(s) \/ RouteStep(s) \/ RouteEnd(s)

Spec == Init /\ [][Next]_vars

-----------------------------------------------------------------------------
(* The i-th node of a list. *)
Walk(l) ==
    LET f[i \in 0..Cardinality(Endpoints)] ==
            IF i = 0 THEN head[l]
            ELSE IF f[i - 1] = None THEN None ELSE node[f[i - 1]].next
    IN  f

(* A list ends, and holds every endpoint whose registration succeeded: a   *)
(* push that comes between the steps of another loses no node (push,       *)
(* push_front).                                                            *)
ListIntact ==
    /\ \A l \in Lists : Walk(l)[Cardinality(Endpoints)] = None
    /\ \A e \in Registered : \E i \in DOMAIN Walk(ListOf[IdOf[e]]) : Walk(ListOf[IdOf[e]])[i] = e

(* "cannot push a node to any list if it's already in one": of two         *)
(* registrations of an endpoint one at most succeeds.                      *)
RegisteredOnce ==
    \A q, r \in Registrars :
        q # r /\ Target(q) = Target(r) => rpc[q] # "done" \/ rpc[r] # "done"

(* "route a message to any valid receiver nodes": at the end of a walk     *)
(* every endpoint with the right id that was registered when it began has  *)
(* received the message once, no endpoint has received it twice, and none  *)
(* with another id has received it at all.                                 *)
DeliveredOnce ==
    \A s \in Senders :
        spc[s] = "route" /\ at[s] = None =>
            /\ \A e \in expected[s] : got[s][e] = 1
            /\ \A e \in Endpoints : got[s][e] <= (IF IdOf[e] = to[s] THEN 1 ELSE 0)

(* Every send ends, once the lists are initialized: no walk goes round in  *)
(* a circle (route).                                                       *)
Quiet == \A s \in Senders : spc[s] = "idle"
SendsEnd == []<>Quiet
=============================================================================
