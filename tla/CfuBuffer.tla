----------------------------- MODULE CfuBuffer ------------------------------
(***************************************************************************)
(* The CFU content buffer (cfu-service/src/buffer.rs).  Three tasks: the   *)
(* host, which sends one request at a time to the external CfuDevice; the  *)
(* buffer task, which loops over Buffer::wait_event, Buffer::process and   *)
(* Buffer::send_response; and the buffered component behind the inner      *)
(* CfuDevice.  Every await of the buffer task is a step of its own.        *)
(*                                                                         *)
(* A content block is known by its number, its update by the number of     *)
(* first blocks sent so far; a response carries the block or request it    *)
(* really answers, which the code does not see.  Both devices stay         *)
(* registered, so get_device finds them.                                   *)
(***************************************************************************)
EXTENDS Cfu, SequencesExt

CONSTANTS
    Kinds,        \* what the host sends, a subset of RequestKind
    BufferSize,   \* capacity of the channel behind buffer_sender and buffer_receiver
    MaxBlocks,    \* bound: content blocks the host sends
    MaxOthers,    \* bound: other requests the host sends
    None

VARIABLES
    host,      \* the request the host waits on, or None
    sent,      \* the blocks the host has sent, in order
    others,    \* other requests the host has sent
    update,    \* the number of the running update
    hreq,      \* request channel of the external device
    hresp,     \* response channel of the external device
    pc,        \* where the buffer task is
    cur,       \* the request or the block it is processing
    busy,      \* State::component_busy
    pending,   \* State::pending_response
    buf,       \* the buffered blocks
    creq,      \* request channel of the inner device
    cresp,     \* response channel of the inner device
    comp,      \* the request the component is working on, or None
    got        \* the blocks the component has received, in order

hostVars == <<host, sent, others, update>>
compVars == <<comp, got>>
vars == <<hostVars, hreq, hresp, pc, cur, busy, pending, buf, creq, cresp, compVars>>

Request == [kind : RequestKind, block : 0..MaxBlocks, update : 0..MaxBlocks, first : BOOLEAN]
Response == [kind : ResponseKind, of : Request]

Pcs == {"wait", "sendContent", "buffer", "await", "sendBuffered", "route", "routed", "reply"}

TypeOK ==
    /\ host \in Request \cup {None}
    /\ sent \in Seq(1..MaxBlocks)
    /\ others \in 0..MaxOthers
    /\ update \in 0..MaxBlocks
    /\ hreq \in Seq(Request) /\ Len(hreq) <= DEVICE_CHANNEL_SIZE
    /\ hresp \in Seq(Response) /\ Len(hresp) <= DEVICE_CHANNEL_SIZE
    /\ pc \in Pcs
    /\ cur \in Request \cup Response \cup {None}
    /\ busy \in BOOLEAN
    /\ pending \in Response \cup {None}
    /\ buf \in Seq(Request) /\ Len(buf) <= BufferSize
    /\ creq \in Seq(Request) /\ Len(creq) <= DEVICE_CHANNEL_SIZE
    /\ cresp \in Seq(Response) /\ Len(cresp) <= DEVICE_CHANNEL_SIZE
    /\ comp \in Request \cup {None}
    /\ got \in Seq(1..MaxBlocks)

Init ==
    /\ host = None /\ sent = <<>> /\ others = 0 /\ update = 0
    /\ hreq = <<>> /\ hresp = <<>>
    /\ pc = "wait" /\ cur = None
    /\ busy = FALSE /\ pending = None /\ buf = <<>>
    /\ creq = <<>> /\ cresp = <<>>
    /\ comp = None /\ got = <<>>

-----------------------------------------------------------------------------
(* The host: route_request to the external device.                         *)

SendContent(first) ==
    /\ "GiveContent" \in Kinds
    /\ host = None
    /\ Len(sent) < MaxBlocks
    /\ first \/ update > 0
    /\ update' = IF first THEN update + 1 ELSE update
    /\ host' = [kind |-> "GiveContent", block |-> Len(sent) + 1, update |-> update', first |-> first]
    /\ hreq' = Append(hreq, host')
    /\ sent' = Append(sent, Len(sent) + 1)
    /\ UNCHANGED <<others, hresp, pc, cur, busy, pending, buf, creq, cresp, compVars>>

SendOther(kind) ==
    /\ kind \in Kinds \ {"GiveContent"}
    /\ host = None
    /\ others < MaxOthers
    /\ others' = others + 1
    /\ host' = [kind |-> kind, block |-> 0, update |-> update, first |-> FALSE]
    /\ hreq' = Append(hreq, host')
    /\ UNCHANGED <<sent, update, hresp, pc, cur, busy, pending, buf, creq, cresp, compVars>>

ReceiveResponse ==
    /\ host # None
    /\ HasMessage(hresp)
    /\ hresp' = Tail(hresp)
    /\ host' = None
    /\ UNCHANGED <<sent, others, update, hreq, pc, cur, busy, pending, buf, creq, cresp, compVars>>

-----------------------------------------------------------------------------
(* Buffer::wait_event.  The select polls the buffered content first, then  *)
(* the host's requests, then the component's responses.                    *)

ContentReady == ~busy /\ buf # <<>>

WaitBufferedContent ==
    /\ pc = "wait"
    /\ ContentReady
    /\ cur' = Head(buf)
    /\ buf' = Tail(buf)
    /\ pc' = "sendBuffered"
    /\ UNCHANGED <<hostVars, hreq, hresp, busy, pending, creq, cresp, compVars>>

(* Buffer::process_request: the first step of each handler. *)
Handler(r) ==
    CASE r.kind = "GiveContent" -> IF busy THEN "buffer" ELSE "sendContent"
      [] r.kind \in {"FwVersionRequest", "GiveOffer", "AbortUpdate"} -> "route"
      [] OTHER -> "reply"

(* The requests that are answered without asking the component. *)
Local(r) ==
    [kind |-> IF r.kind \in {"FinalizeUpdate", "PrepareComponentForUpdate"}
              THEN "ComponentPrepared" ELSE "OfferResponse",
     of |-> r]

\* Mutant of WaitRequest: a request may overtake buffered content.
WaitRequestFirst ==
    /\ pc = "wait"
    /\ HasMessage(hreq)
    /\ hreq' = Tail(hreq)
    /\ LET r == Head(hreq)
       IN  /\ pc' = Handler(r)
           /\ cur' = IF Handler(r) = "reply" THEN Local(r) ELSE r
           /\ pending' = IF r.kind = "GiveContent" /\ r.first THEN None ELSE pending
    /\ UNCHANGED <<hostVars, hresp, busy, buf, creq, cresp, compVars>>

(* A host request; a first block clears the pending response. *)
WaitRequest ==
    /\ pc = "wait"
    /\ ~ContentReady
    /\ HasMessage(hreq)
    /\ hreq' = Tail(hreq)
    /\ LET r == Head(hreq)
       IN  /\ pc' = Handler(r)
           /\ cur' = IF Handler(r) = "reply" THEN Local(r) ELSE r
           /\ pending' = IF r.kind = "GiveContent" /\ r.first THEN None ELSE pending
    /\ UNCHANGED <<hostVars, hresp, busy, buf, creq, cresp, compVars>>

WaitDeviceResponse ==
    /\ pc = "wait"
    /\ ~ContentReady
    /\ ~HasMessage(hreq)
    /\ HasMessage(cresp)
    /\ cresp' = Tail(cresp)
    /\ pending' = Head(cresp)
    /\ busy' = FALSE
    /\ UNCHANGED <<hostVars, hreq, hresp, pc, cur, buf, creq, compVars>>

-----------------------------------------------------------------------------
(* Buffer::process. *)

(* Event::BufferedContent: send_device_request waits for room. *)
SendBuffered ==
    /\ pc = "sendBuffered"
    /\ HasRoom(creq)
    /\ creq' = Append(creq, cur)
    /\ busy' = TRUE
    /\ pc' = "wait"
    /\ cur' = None
    /\ UNCHANGED <<hostVars, hreq, hresp, pending, buf, cresp, compVars>>

(* process_give_content: the content is sent, or buffered when the         *)
(* component is busy; both wait for room.                                  *)
GiveContent ==
    /\ pc = "sendContent"
    /\ HasRoom(creq)
    /\ creq' = Append(creq, cur)
    /\ pc' = "await"
    /\ UNCHANGED <<hostVars, hreq, hresp, cur, busy, pending, buf, cresp, compVars>>

BufferContent ==
    /\ pc = "buffer"
    /\ Len(buf) < BufferSize
    /\ buf' = Append(buf, cur)
    /\ pc' = "await"
    /\ UNCHANGED <<hostVars, hreq, hresp, cur, busy, pending, creq, cresp, compVars>>

(* with_timeout: a response in time becomes the answer to this content,    *)
(* whichever request it really belongs to.                                 *)
ContentAnswered ==
    /\ pc = "await"
    /\ HasMessage(cresp)
    /\ cresp' = Tail(cresp)
    /\ busy' = FALSE
    /\ cur' = Head(cresp)
    /\ pc' = "reply"
    /\ UNCHANGED <<hostVars, hreq, hresp, pending, buf, creq, compVars>>

(* The timeout: the pending response is used up, or the content accepted.  *)
ContentTimedOut ==
    /\ pc = "await"
    /\ ~HasMessage(cresp)
    /\ busy' = TRUE
    /\ cur' = IF pending # None THEN pending ELSE [kind |-> "ContentResponse", of |-> cur]
    /\ pending' = None
    /\ pc' = "reply"
    /\ UNCHANGED <<hostVars, hreq, hresp, buf, creq, cresp, compVars>>

\* Mutant of Route: a request waits for a component that is not busy.
RouteWhenIdle ==
    /\ pc = "route"
    /\ ~busy
    /\ HasRoom(creq)
    /\ creq' = Append(creq, cur)
    /\ pc' = "routed"
    /\ UNCHANGED <<hostVars, hreq, hresp, cur, busy, pending, buf, cresp, compVars>>

(* process_get_fw_version, process_give_offer, process_abort_update: the   *)
(* request is routed to the component, and its answer awaited.             *)
Route ==
    /\ pc = "route"
    /\ HasRoom(creq)
    /\ creq' = Append(creq, cur)
    /\ pc' = "routed"
    /\ UNCHANGED <<hostVars, hreq, hresp, cur, busy, pending, buf, cresp, compVars>>

(* An answer of the wrong kind makes an invalid version or a rejected      *)
(* offer; process_abort_update passes on whatever it gets.                 *)
Routed ==
    /\ pc = "routed"
    /\ HasMessage(cresp)
    /\ cresp' = Tail(cresp)
    /\ cur' = IF cur.kind = "AbortUpdate" \/ Head(cresp).kind \in Answers(cur.kind)
              THEN Head(cresp)
              ELSE [kind |-> IF cur.kind = "GiveOffer" THEN "OfferResponse" ELSE "FwVersionResponse", of |-> cur]
    /\ pc' = "reply"
    /\ UNCHANGED <<hostVars, hreq, hresp, busy, pending, buf, creq, compVars>>

SendResponse ==
    /\ pc = "reply"
    /\ HasRoom(hresp)
    /\ hresp' = Append(hresp, cur)
    /\ pc' = "wait"
    /\ cur' = None
    /\ UNCHANGED <<hostVars, hreq, busy, pending, buf, creq, cresp, compVars>>

-----------------------------------------------------------------------------
(* The component behind the buffer: it takes its requests one by one and   *)
(* answers each of them, in its own time and in kind.                      *)

ComponentTakes ==
    /\ comp = None
    /\ HasMessage(creq)
    /\ comp' = Head(creq)
    /\ creq' = Tail(creq)
    /\ got' = IF comp'.kind = "GiveContent" THEN Append(got, comp'.block) ELSE got
    /\ UNCHANGED <<hostVars, hreq, hresp, pc, cur, busy, pending, buf, cresp>>

ComponentResponds ==
    /\ comp # None
    /\ HasRoom(cresp)
    /\ \E k \in Answers(comp.kind) : cresp' = Append(cresp, [kind |-> k, of |-> comp])
    /\ comp' = None
    /\ UNCHANGED <<hostVars, hreq, hresp, pc, cur, busy, pending, buf, creq, got>>

BufferTask ==
    \/ WaitBufferedContent \/ WaitRequest \/ WaitDeviceResponse
    \/ SendBuffered \/ GiveContent \/ BufferContent
    \/ ContentAnswered \/ ContentTimedOut
    \/ Route \/ Routed \/ SendResponse

Component == ComponentTakes \/ ComponentResponds

Next ==
    \/ \E first \in BOOLEAN : SendContent(first)
    \/ \E kind \in Kinds : SendOther(kind)
    \/ ReceiveResponse
    \/ BufferTask
    \/ Component

Spec == Init /\ [][Next]_vars

(* The executor runs every ready task, and the component answers. *)
Fairness == WF_vars(BufferTask) /\ WF_vars(Component) /\ WF_vars(ReceiveResponse)

FairSpec == Spec /\ Fairness

-----------------------------------------------------------------------------
(* The requests and responses of the component that the buffer task has    *)
(* not yet consumed.                                                       *)
Outstanding == Len(creq) + Len(cresp) + (IF comp = None THEN 0 ELSE 1)

(* component_busy is true exactly when an answer of the component is still *)
(* to come, however requests that are routed past the buffer get their     *)
(* answers mixed up with those of the content.                             *)
BusyMeansOutstanding == pc = "wait" => Outstanding = IF busy THEN 1 ELSE 0

(* The component receives every block once and in the order the host sent  *)
(* them, though blocks may go through the buffer or straight to it.        *)
ContentInOrder == IsPrefix(got, sent)

(* The content blocks in a channel of a CfuDevice, which holds one message. *)
Contents(channel) == IF HasMessage(channel) /\ Head(channel).kind = "GiveContent" THEN 1 ELSE 0

(* A block is in one place: received, on its way, or in the buffer; none   *)
(* is lost when the component is slow.                                     *)
NothingLost ==
    pc = "wait" => Len(sent) = Len(got) + Len(buf) + Contents(creq) + Contents(hreq)

(* component_busy tells of an answer still to come, and the component gets *)
(* every block once and in order (State, Buffer::process_give_content).    *)
BufferHonest == TypeOK /\ BusyMeansOutstanding /\ ContentInOrder /\ NothingLost

(* Every request of the host is answered, unless it is a block that finds  *)
(* the buffer full.                                                        *)
AnsweredUnlessFull ==
    host # None ~> (host = None \/ (pc = "buffer" /\ Len(buf) = BufferSize))

(* "If the buffer is full, this will block until space is available": the  *)
(* host is answered even then.                                             *)
HostAnswered == host # None ~> host = None
=============================================================================
