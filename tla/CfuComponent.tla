---------------------------- MODULE CfuComponent ----------------------------
(***************************************************************************)
(* The default CFU component (CfuComponentDefault in cfu-service/src/      *)
(* component.rs) and the routing of requests between components            *)
(* (ClientContext in lib.rs).  Clients and primary components call         *)
(* route_request; each registered component runs a task that loops over    *)
(* process_request.  The writer and the storage hooks of the component     *)
(* never fail: their errors end a request the way a missing answer does.   *)
(***************************************************************************)
EXTENDS Cfu

CONSTANTS
    Ids,          \* the registered components
    Default,      \* ComponentId::default(), the id an empty slot stands for
    Subs,         \* Subs[i]: the slots of component i, ids or None; <<>> unless it is primary
    Clients,      \* the tasks that call CfuClient::route_request
    Targets,      \* the components they call
    Kinds,        \* the requests they make
    MaxCalls,     \* bound: calls of each client
    None

Callers == Clients \cup Ids

VARIABLES
    call,    \* per caller, its route_request: where it is and what it asked for
    count,   \* per client, the calls made
    answer,  \* per client, the kind of the last answer, or "error" for an unknown component
    req,     \* per component, its request channel
    resp,    \* per component, its response channel
    cur,     \* per component, the kind of the request it processes, or None
    slot,    \* per component, the slot it asks next for a version
    info     \* per component, whether each slot asked so far gave a version

vars == <<call, count, answer, req, resp, cur, slot, info>>

NoCall == [at |-> "none", to |-> None, kind |-> None]

TypeOK ==
    /\ \A x \in Callers : call[x].at \in {"none", "send", "wait"}
    /\ count \in [Clients -> 0..MaxCalls]
    /\ answer \in [Clients -> ResponseKind \cup {"none", "error"}]
    /\ \A i \in Ids : req[i] \in Seq(RequestKind) /\ Len(req[i]) <= DEVICE_CHANNEL_SIZE
    /\ \A i \in Ids : resp[i] \in Seq(ResponseKind) /\ Len(resp[i]) <= DEVICE_CHANNEL_SIZE
    /\ cur \in [Ids -> RequestKind \cup {None}]
    /\ \A i \in Ids : slot[i] \in 0..Len(Subs[i]) + 1
    /\ \A i \in Ids : info[i] \in Seq(BOOLEAN) /\ Len(info[i]) <= Len(Subs[i])

Init ==
    /\ call = [x \in Callers |-> NoCall]
    /\ count = [c \in Clients |-> 0]
    /\ answer = [c \in Clients |-> "none"]
    /\ req = [i \in Ids |-> <<>>]
    /\ resp = [i \in Ids |-> <<>>]
    /\ cur = [i \in Ids |-> None]
    /\ slot = [i \in Ids |-> 0]
    /\ info = [i \in Ids |-> <<>>]

-----------------------------------------------------------------------------
(* ClientContext::route_request, by a client or by a primary component.    *)

Call(c, to, kind) ==
    /\ call[c].at = "none"
    /\ count[c] < MaxCalls
    /\ count' = [count EXCEPT ![c] = @ + 1]
    /\ IF to \in Ids
       THEN /\ call' = [call EXCEPT ![c] = [at |-> "send", to |-> to, kind |-> kind]]
            /\ answer' = [answer EXCEPT ![c] = "none"]
       ELSE /\ answer' = [answer EXCEPT ![c] = "error"]
            /\ UNCHANGED call
    /\ UNCHANGED <<req, resp, cur, slot, info>>

(* CfuDevice::send_request waits for room. *)
Send(x) ==
    /\ call[x].at = "send"
    /\ HasRoom(req[call[x].to])
    /\ req' = [req EXCEPT ![call[x].to] = Append(@, call[x].kind)]
    /\ call' = [call EXCEPT ![x].at = "wait"]
    /\ UNCHANGED <<count, answer, resp, cur, slot, info>>

(* CfuDevice::wait_response takes whichever response is there. *)
Answered(x) ==
    /\ call[x].at = "wait"
    /\ HasMessage(resp[call[x].to])
    /\ resp' = [resp EXCEPT ![call[x].to] = Tail(@)]
    /\ call' = [call EXCEPT ![x] = NoCall]

ClientAnswered(c) ==
    /\ Answered(c)
    /\ answer' = [answer EXCEPT ![c] = Head(resp[call[c].to])]
    /\ UNCHANGED <<count, req, cur, slot, info>>

-----------------------------------------------------------------------------
(* CfuComponentDefault::process_request. *)

IsPrimary(i) == Subs[i] # <<>> /\ Subs[i][1] # None

(* An empty slot is unwrapped to the default component id. *)
SlotId(i, k) == IF Subs[i][k] = None THEN Default ELSE Subs[i][k]

Idle(i) == cur[i] = None /\ HasMessage(req[i])

TakeVersionRequest(i) ==
    /\ Idle(i)
    /\ Head(req[i]) = "FwVersionRequest"
    /\ req' = [req EXCEPT ![i] = Tail(@)]
    /\ cur' = [cur EXCEPT ![i] = "FwVersionRequest"]
    /\ slot' = [slot EXCEPT ![i] = IF IsPrimary(i) THEN 1 ELSE Len(Subs[i]) + 1]
    /\ info' = [info EXCEPT ![i] = <<>>]
    /\ UNCHANGED <<call, count, answer, resp>>

(* An unknown sub-component ends the request with an error and no answer.  *)
AskSub(i) ==
    /\ cur[i] = "FwVersionRequest"
    /\ slot[i] <= Len(Subs[i])
    /\ call[i].at = "none"
    /\ Len(info[i]) < slot[i]
    /\ IF SlotId(i, slot[i]) \in Ids
       THEN /\ call' = [call EXCEPT ![i] = [at |-> "send", to |-> SlotId(i, slot[i]), kind |-> "FwVersionRequest"]]
            /\ UNCHANGED cur
       ELSE /\ cur' = [cur EXCEPT ![i] = None]
            /\ UNCHANGED call
    /\ UNCHANGED <<count, answer, req, resp, slot, info>>

(* Any other answer than a version puts dummy information in the list. *)
SubAnswered(i) ==
    /\ Answered(i)
    /\ info' = [info EXCEPT ![i] = Append(@, Head(resp[call[i].to]) = "FwVersionResponse")]
    /\ slot' = [slot EXCEPT ![i] = @ + 1]
    /\ UNCHANGED <<count, answer, req, cur>>

SendVersions(i) ==
    /\ cur[i] = "FwVersionRequest"
    /\ slot[i] > Len(Subs[i])
    /\ HasRoom(resp[i])
    /\ resp' = [resp EXCEPT ![i] = Append(@, "FwVersionResponse")]
    /\ cur' = [cur EXCEPT ![i] = None]
    /\ UNCHANGED <<call, count, answer, req, slot, info>>

(* The offers are answered at once; route_request addresses a component by *)
(* the id in the offer, so the id always matches.                          *)
ProcessOffer(i) ==
    /\ Idle(i)
    /\ Head(req[i]) \in {"GiveOffer", "GiveOfferExtended", "GiveOfferInformation"}
    /\ HasRoom(resp[i])
    /\ req' = [req EXCEPT ![i] = Tail(@)]
    /\ resp' = [resp EXCEPT ![i] = Append(@, "OfferResponse")]
    /\ UNCHANGED <<call, count, answer, cur, slot, info>>

(* Content is written; prepare, abort and finalize do nothing more; none   *)
(* of them is answered.                                                    *)
ProcessSilently(i) ==
    /\ Idle(i)
    /\ Head(req[i]) \in {"GiveContent", "PrepareComponentForUpdate", "AbortUpdate", "FinalizeUpdate"}
    /\ req' = [req EXCEPT ![i] = Tail(@)]
    /\ UNCHANGED <<call, count, answer, resp, cur, slot, info>>

ClientTask(c) == Send(c) \/ ClientAnswered(c)

ComponentTask(i) ==
    \/ TakeVersionRequest(i) \/ AskSub(i) \/ Send(i) \/ SubAnswered(i) \/ SendVersions(i)
    \/ ProcessOffer(i) \/ ProcessSilently(i)

Next ==
    \/ \E c \in Clients, to \in Targets, kind \in Kinds : Call(c, to, kind)
    \/ \E c \in Clients : ClientTask(c)
    \/ \E i \in Ids : ComponentTask(i)

Spec == Init /\ [][Next]_vars

(* The executor runs every ready task. *)
Fairness ==
    /\ \A c \in Clients : WF_vars(ClientTask(c))
    /\ \A i \in Ids : WF_vars(ComponentTask(i))

-----------------------------------------------------------------------------
(* Every version request and offer of a client returns.  The requests that *)
(* the component does not answer never do.                                 *)
CallsReturn ==
    \A c \in Clients :
        (call[c].at # "none" /\ call[c].kind \in {"FwVersionRequest", "GiveOffer", "GiveOfferExtended"})
        ~> call[c].at = "none"
=============================================================================
