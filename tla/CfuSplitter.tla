---------------------------- MODULE CfuSplitter -----------------------------
(***************************************************************************)
(* The CFU splitter (cfu-service/src/splitter.rs): a task that passes each *)
(* request of its own CfuDevice on to several devices at once, joins their *)
(* answers and resolves them into one.  The join polls one route_request   *)
(* per device; each of them sends and then waits on its own.               *)
(*                                                                         *)
(* The customization is the one of the splitter example: the first         *)
(* rejection wins.  Devices are external: they answer in kind, with        *)
(* success or without, or with ComponentBusy as the basic updater may.     *)
(***************************************************************************)
EXTENDS Cfu, FiniteSets

CONSTANTS
    Devices,      \* the component ids behind the splitter, at most MAX_SUPPORTED_DEVICES
    MaxRequests,  \* bound: requests the host sends
    None

VARIABLES
    host,      \* the request the host waits on, or None
    n,         \* the number of requests sent
    sreq,      \* request channel of the splitter's device
    sresp,     \* its response channel
    cur,       \* the request the splitter works on, or None
    fut,       \* per device, where its route_request is, or what it returned
    dreq,      \* per device, its request channel
    dresp,     \* per device, its response channel
    work,      \* per device, the request it works on, or None
    registered, \* the devices that are registered with the CFU client
    took       \* per device, the requests it has carried out with success

hostVars == <<host, n>>
deviceVars == <<dreq, dresp, work, took, registered>>
vars == <<hostVars, sreq, sresp, cur, fut, deviceVars>>

Request == [kind : RequestKind, id : 1..MaxRequests]
Answer == [kind : ResponseKind, ok : BOOLEAN]
At(place) == [at |-> place, ok |-> FALSE]
Broadcast == {"FwVersionRequest", "GiveOffer", "GiveContent"}

TypeOK ==
    /\ host \in Request \cup {None}
    /\ n \in 0..MaxRequests
    /\ sreq \in Seq(Request) /\ sresp \in Seq(Answer) /\ Len(sresp) <= DEVICE_CHANNEL_SIZE
    /\ cur \in Request \cup {None}
    /\ fut \in [Devices -> [at : {"none", "send", "wait", "failed", "answered"}, ok : BOOLEAN]]
    /\ dreq \in [Devices -> Seq(Request)] /\ dresp \in [Devices -> Seq(Answer)]
    /\ \A d \in Devices : Len(dreq[d]) <= DEVICE_CHANNEL_SIZE /\ Len(dresp[d]) <= DEVICE_CHANNEL_SIZE
    /\ work \in [Devices -> Request \cup {None}]
    /\ took \in [Devices -> SUBSET (1..MaxRequests)]
    /\ registered \subseteq Devices

Init ==
    /\ host = None /\ n = 0
    /\ sreq = <<>> /\ sresp = <<>> /\ cur = None
    /\ fut = [d \in Devices |-> At("none")]
    /\ dreq = [d \in Devices |-> <<>>] /\ dresp = [d \in Devices |-> <<>>]
    /\ work = [d \in Devices |-> None]
    /\ took = [d \in Devices |-> {}]
    /\ registered \in SUBSET Devices

-----------------------------------------------------------------------------
SendRequest(kind) ==
    /\ host = None
    /\ n < MaxRequests
    /\ n' = n + 1
    /\ host' = [kind |-> kind, id |-> n + 1]
    /\ sreq' = Append(sreq, host')
    /\ UNCHANGED <<sresp, cur, fut, deviceVars>>

ReceiveResponse ==
    /\ host # None
    /\ HasMessage(sresp)
    /\ sresp' = Tail(sresp)
    /\ host' = None
    /\ UNCHANGED <<n, sreq, cur, fut, deviceVars>>

-----------------------------------------------------------------------------
(* Splitter::wait_request and process_request. *)

(* What process_request answers without asking the devices. *)
Local(kind) ==
    IF kind \in {"GiveOfferExtended", "GiveOfferInformation"}
    THEN [kind |-> "OfferResponse", ok |-> FALSE]
    ELSE [kind |-> "ComponentPrepared", ok |-> TRUE]

ProcessLocally ==
    /\ cur = None
    /\ HasMessage(sreq)
    /\ Head(sreq).kind \notin Broadcast
    /\ HasRoom(sresp)
    /\ sreq' = Tail(sreq)
    /\ sresp' = Append(sresp, Local(Head(sreq).kind))
    /\ UNCHANGED <<hostVars, cur, fut, deviceVars>>

(* map_slice_join: with at most four devices there is a single join. *)
StartJoin ==
    /\ cur = None
    /\ HasMessage(sreq)
    /\ Head(sreq).kind \in Broadcast
    /\ cur' = Head(sreq)
    /\ sreq' = Tail(sreq)
    /\ fut' = [d \in Devices |-> At(IF d \in registered THEN "send" ELSE "failed")]
    /\ UNCHANGED <<hostVars, sresp, deviceVars>>

RouteSend(d) ==
    /\ fut[d].at = "send"
    /\ HasRoom(dreq[d])
    /\ dreq' = [dreq EXCEPT ![d] = Append(@, cur)]
    /\ fut' = [fut EXCEPT ![d].at = "wait"]
    /\ UNCHANGED <<hostVars, sreq, sresp, cur, dresp, work, took, registered>>

(* The closure keeps an answer of the right kind and fails otherwise. *)
RouteAnswered(d) ==
    /\ fut[d].at = "wait"
    /\ HasMessage(dresp[d])
    /\ dresp' = [dresp EXCEPT ![d] = Tail(@)]
    /\ fut' = [fut EXCEPT ![d] = [at |-> IF Head(dresp[d]).kind \in Answers(cur.kind) THEN "answered" ELSE "failed",
                                    ok |-> Head(dresp[d]).ok]]
    /\ UNCHANGED <<hostVars, sreq, sresp, cur, dreq, work, took, registered>>

(* The join ends when every future has returned; it succeeds when none     *)
(* failed.                                                                 *)
JoinDone == \A d \in Devices : fut[d].at \notin {"send", "wait"}

\* Mutant of AllAnswered: one success is enough.
SomeAnswered == \E d \in Devices : fut[d].at # "failed"

AllAnswered == \A d \in Devices : fut[d].at # "failed"

(* Customization::resolve_*: success if every answer is one. *)
ResolvedOk == \A d \in Devices : fut[d].at = "answered" => fut[d].ok

(* What each handler makes of the joined answers; a failed offer is        *)
(* answered like a failed version request.                                 *)
Resolved ==
    IF AllAnswered THEN [kind |-> CHOOSE k \in Answers(cur.kind) : TRUE, ok |-> ResolvedOk]
    ELSE [kind |-> IF cur.kind = "GiveContent" THEN "ContentResponse" ELSE "FwVersionResponse", ok |-> FALSE]

FinishJoin ==
    /\ cur # None
    /\ JoinDone
    /\ HasRoom(sresp)
    /\ sresp' = Append(sresp, Resolved)
    /\ cur' = None
    /\ fut' = [d \in Devices |-> At("none")]
    /\ UNCHANGED <<hostVars, sreq, deviceVars>>

-----------------------------------------------------------------------------
(* The devices. *)

DeviceTakes(d) ==
    /\ work[d] = None
    /\ HasMessage(dreq[d])
    /\ work' = [work EXCEPT ![d] = Head(dreq[d])]
    /\ dreq' = [dreq EXCEPT ![d] = Tail(@)]
    /\ UNCHANGED <<hostVars, sreq, sresp, cur, fut, dresp, took, registered>>

DeviceAnswers(d, a) ==
    /\ work[d] # None
    /\ HasRoom(dresp[d])
    /\ a.kind \in Answers(work[d].kind) \cup {"ComponentBusy"}
    /\ a.ok => a.kind # "ComponentBusy"
    /\ dresp' = [dresp EXCEPT ![d] = Append(@, a)]
    /\ took' = [took EXCEPT ![d] = IF a.ok THEN @ \cup {work[d].id} ELSE @]
    /\ work' = [work EXCEPT ![d] = None]
    /\ UNCHANGED <<hostVars, sreq, sresp, cur, fut, dreq, registered>>

SplitterTask ==
    \/ ProcessLocally
    \/ StartJoin
    \/ \E d \in Devices : RouteSend(d) \/ RouteAnswered(d)
    \/ FinishJoin

DeviceTask(d) == DeviceTakes(d) \/ \E a \in Answer : DeviceAnswers(d, a)

Next ==
    \/ \E kind \in RequestKind : SendRequest(kind)
    \/ ReceiveResponse
    \/ SplitterTask
    \/ \E d \in Devices : DeviceTask(d)

Spec == Init /\ [][Next]_vars

(* The executor runs every ready task; devices answer. *)
Fairness ==
    /\ WF_vars(SplitterTask)
    /\ WF_vars(ReceiveResponse)
    /\ \A d \in Devices : WF_vars(DeviceTask(d))

-----------------------------------------------------------------------------
(* Between two requests no device still owes the splitter an answer: a     *)
(* device that fails early does not make the join drop the others, whose   *)
(* late answers would be taken for those to the next request.              *)
NoLeftover ==
    cur = None => \A d \in Devices : dreq[d] = <<>> /\ dresp[d] = <<>> /\ work[d] = None

(* A host that is told of success has every device with it: no device      *)
(* failed, was busy or is missing.                                         *)
SuccessMeansAll ==
    (HasMessage(sresp) /\ host.kind \in Broadcast /\ Head(sresp).ok) => \A d \in Devices : host.id \in took[d]

(* Both, and the types of the channels and the futures. *)
SplitterHonest == TypeOK /\ NoLeftover /\ SuccessMeansAll

(* Every request of the host is answered, however the devices interleave.  *)
HostAnswered == host # None ~> host = None
=============================================================================
