------------------------------ MODULE HostLink ------------------------------
(***************************************************************************)
(* The transports that carry the host's requests to a relay handler and    *)
(* its results back: uart-service, which reads a request and then answers  *)
(* it, and espi-service, which selects between events of the bus and       *)
(* queued results, and handles one event of the bus after every packet it  *)
(* writes.  A frame holds one request; how packets and messages are coded  *)
(* is in Mctp and RelayMessages.                                           *)
(***************************************************************************)
EXTENDS RelayMessages, FiniteSets

CONSTANTS
    QueueSize,       \* HOST_TX_QUEUE_SIZE
    Calls,           \* the [service, cmd] a host may request
    MaxRequests,     \* bound: frames sent by the host
    MaxFaults        \* bound: other events while sending, and failed writes

VARIABLES
    transport,       \* "uart" or "espi"
    inbox,           \* frames that the service has not read
    pc,              \* "idle", "process", "respond", "send" or "event"
    job,             \* the frame whose request is processed, or None
    queue,           \* host_tx_queue
    sending,         \* the result whose packets are written, or None
    owed,            \* packets whose completion the eSPI HAL has yet to report
    heard,           \* history: the packets written
    outcome,         \* history: what became of each frame
    eager,           \* history: the host sent before its last frame was settled
    faults

linkVars == <<transport, inbox, pc, job, queue, sending, owed, heard, outcome, eager, faults>>

\* A frame: a request, one that cannot be parsed, or part of a message.
Kinds == {"request", "malformed", "partial"}

Open == {"sent", "queued"}

Init ==
    /\ transport \in {"uart", "espi"}
    /\ inbox = <<>>
    /\ pc = "idle"
    /\ job = None
    /\ queue = <<>>
    /\ sending = None
    /\ owed = 0
    /\ heard = <<>>
    /\ outcome = <<>>
    /\ eager = FALSE
    /\ faults = 0

\* The packets of a result: the type byte, the header and the body, cut up by
\* the medium and, on the UART, by what is left of the assembly buffer.
PacketsOf(s, result) ==
    LET size == 5 + (IF result.error THEN 0 ELSE Width(AnswerPut(s, result.name)))
        room == IF transport = "espi" THEN 28
                ELSE (IF 249 - size < 251 THEN 249 - size ELSE 251) - 4
    IN  (size + room - 1) \div room

HostSend(kind, call) ==
    /\ Len(outcome) < MaxRequests
    /\ inbox' = Append(inbox, [id |-> Len(outcome) + 1, kind |-> kind, call |-> call])
    /\ outcome' = Append(outcome, "sent")
    /\ eager' = (eager \/ \E i \in 1 .. Len(outcome) : outcome[i] \in Open)
    /\ UNCHANGED <<transport, pc, job, queue, sending, owed, heard, faults>>

-----------------------------------------------------------------------------
\* What an error in an event does: it is logged, and the result that was being
\* sent, whose loop the error leaves, is given up.
Abort ==
    [pc |-> "idle", sending |-> None, cut |-> IF sending = None THEN {} ELSE {sending.of}]

Mark(ids, what) == [i \in DOMAIN outcome |-> IF i \in ids THEN what ELSE outcome[i]]

\* The frames after the first that a read takes in with it: on the UART all of
\* some of them and part of the next one, which leaves that one malformed.
Overread(n, torn) ==
    LET rest == SubSeq(inbox, n + 2, Len(inbox))
    IN  /\ n + 1 <= Len(inbox)
        /\ (n > 0 \/ torn) => transport = "uart"
        /\ torn => rest # <<>>
        /\ inbox' = IF torn THEN [rest EXCEPT ![1].kind = "malformed"] ELSE rest

\* wait_for_request up to process_request; process_controller_event with an OOB
\* event of the host, from the select or after a packet.
TakeFrame(n, torn) ==
    LET f     == inbox[1]
        swept == {inbox[i].id : i \in 2 .. n + 1}
    IN  /\ inbox # <<>>
        /\ pc = "idle" \/ pc = "event"
        /\ Overread(n, torn)
        /\ \/ /\ f.kind = "request"
              /\ pc' = "process"
              /\ job' = f
              /\ outcome' = Mark(swept, "swept")
              /\ UNCHANGED sending
           \/ /\ f.kind # "request"
              /\ pc' = Abort.pc
              /\ sending' = Abort.sending
              /\ outcome' = [i \in DOMAIN outcome |->
                                CASE i = f.id -> "bad"
                                  [] i \in Abort.cut -> "cut"
                                  [] i \in swept -> "swept"
                                  [] OTHER -> outcome[i]]
              /\ UNCHANGED job
        /\ UNCHANGED <<transport, queue, owed, heard, eager, faults>>

\* process_request and try_send: a full queue is an error.
Process(result) ==
    /\ pc = "process"
    /\ job' = None
    /\ IF Len(queue) < QueueSize
       THEN /\ queue' = Append(queue, [of |-> job.id, service |-> job.call.service,
                                       result |-> result])
            /\ outcome' = [outcome EXCEPT ![job.id] = "queued"]
            /\ pc' = CASE transport = "uart" -> "respond"
                       [] sending # None -> "send"
                       [] OTHER -> "idle"
            /\ UNCHANGED sending
       ELSE /\ pc' = Abort.pc
            /\ sending' = Abort.sending
            /\ outcome' = [Mark(Abort.cut, "cut") EXCEPT ![job.id] = "refused"]
            /\ UNCHANGED queue
    /\ UNCHANGED <<transport, inbox, owed, heard, eager, faults>>

\* wait_for_response; the second arm of the select, which the first one, an
\* event that is there, goes before.
TakeResponse ==
    /\ queue # <<>>
    /\ \/ pc = "respond"
       \/ transport = "espi" /\ pc = "idle" /\ inbox = <<>> /\ owed = 0
    /\ LET r == queue[1]
       IN  sending' = [of |-> r.of, service |-> r.service, result |-> r.result, k |-> 0]
    /\ queue' = Tail(queue)
    /\ pc' = "send"
    /\ UNCHANGED <<transport, inbox, job, owed, heard, outcome, eager, faults>>

-----------------------------------------------------------------------------
\* process_response, serialize_packet_from_subsystem: packet after packet

SendPacket ==
    /\ pc = "send"
    /\ sending.k < PacketsOf(sending.service, sending.result)
    /\ heard' = Append(heard, [of |-> sending.of, k |-> sending.k + 1])
    /\ sending' = [sending EXCEPT !.k = @ + 1]
    /\ IF transport = "espi" THEN pc' = "event" /\ owed' = owed + 1
       ELSE UNCHANGED <<pc, owed>>
    /\ UNCHANGED <<transport, inbox, job, queue, outcome, eager, faults>>

SendDone ==
    /\ pc = "send"
    /\ sending.k = PacketsOf(sending.service, sending.result)
    /\ pc' = "idle"
    /\ sending' = None
    /\ outcome' = [outcome EXCEPT ![sending.of] = "answered"]
    /\ UNCHANGED <<transport, inbox, job, queue, owed, heard, eager, faults>>

\* A write fails, which ends the result; on eSPI it may whenever the packet
\* before is still on its way.
SendFails ==
    /\ pc = "send"
    /\ sending.k < PacketsOf(sending.service, sending.result)
    /\ \/ owed > 0 /\ UNCHANGED faults
       \/ owed = 0 /\ faults < MaxFaults /\ faults' = faults + 1
    /\ pc' = "idle"
    /\ sending' = None
    /\ outcome' = [outcome EXCEPT ![sending.of] = "failed"]
    /\ UNCHANGED <<transport, inbox, job, queue, owed, heard, eager>>

\* An OOB event of the other direction: a packet has been sent.
Completion ==
    /\ owed > 0
    /\ pc \in {"idle", "event"}
    /\ owed' = owed - 1
    /\ pc' = IF pc = "event" THEN "send" ELSE "idle"
    /\ UNCHANGED <<transport, inbox, job, queue, sending, heard, outcome, eager, faults>>

\* Port80, WireChange, a peripheral event or an error of the HAL.
OtherEvent ==
    /\ pc = "event"
    /\ faults < MaxFaults
    /\ faults' = faults + 1
    /\ pc' = "send"
    /\ UNCHANGED <<transport, inbox, job, queue, sending, owed, heard, outcome, eager>>

Serve ==
    \/ TakeFrame(0, FALSE)
    \/ pc = "process" /\ \E r \in Results(job.call.service, job.call.cmd) : Process(r)
    \/ TakeResponse
    \/ SendPacket
    \/ SendDone
    \/ Completion

Next ==
    \/ \E k \in Kinds, c \in Calls : HostSend(k, c)
    \/ \E n \in 0 .. MaxRequests, torn \in BOOLEAN : TakeFrame(n, torn)
    \/ pc = "process" /\ \E r \in Results(job.call.service, job.call.cmd) : Process(r)
    \/ TakeResponse
    \/ SendPacket
    \/ SendDone
    \/ SendFails
    \/ Completion
    \/ OtherEvent

\* The executor polls the service, its handler answers every request and the
\* HAL reports every packet.
Fairness == WF_linkVars(Serve)

Spec == Init /\ [][Next]_linkVars /\ Fairness

-----------------------------------------------------------------------------
TypeOK ==
    /\ pc \in {"idle", "process", "respond", "send", "event"}
    /\ Len(queue) <= QueueSize
    /\ pc \in {"send", "event"} => sending # None
    /\ sending # None => pc \in {"send", "event", "process"}
    /\ job # None <=> pc = "process"

Numbers(n) == [i \in 1 .. n |-> i]

\* A reader gets back what the writer of the message wrote, from no fewer bytes,
\* and the body fits the buffer beside its header.
RoundTrip(put, get) ==
    LET bytes == Serialize(put, Numbers(Len(put)), 251)
    IN  /\ bytes # None
        /\ Deserialize(get, bytes) = Numbers(Len(put))
        /\ bytes # <<>> => Deserialize(get, SubSeq(bytes, 1, Len(bytes) - 1)) = None

RequestReadBack(s, n) ==
    LET put   == RequestPut(s, n)
        bytes == Serialize(put, Numbers(Len(put)), 251)
    IN  /\ bytes # None
        /\ RequestRead(s, n, bytes) = Numbers(Len(put))
        /\ bytes # <<>> => RequestRead(s, n, SubSeq(bytes, 1, Len(bytes) - 1)) = None

\* Every request and every answer is read back, and so is every error a request
\* can get, save that of the debug service, which no reader takes.
CodecsAgree ==
    \A s \in Services :
        /\ \A n \in DOMAIN Requests(s) :
              /\ RequestReadBack(s, n)
              /\ NameOf(Requests(s), Requests(s)[n]) = n
              /\ \A r \in Results(s, n) :
                    IF r.error THEN s # "Debug" => ErrorRead(s, Errors(s)[r.name]) = r.name
                    ELSE NameOf(Answers(s), Answers(s)[r.name]) = r.name
        /\ \A n \in DOMAIN Answers(s) : RoundTrip(AnswerPut(s, n), AnswerGet(s, n))

\* A result carries no number of its request, so a host can only tell results by
\* their order: they start in the order of the requests, and no packet comes
\* between two packets of one result.
InOrder ==
    \A i \in 2 .. Len(heard) :
        IF heard[i].k = 1 THEN heard[i].of > heard[i - 1].of
        ELSE heard[i] = [of |-> heard[i - 1].of, k |-> heard[i - 1].k + 1]

\* A host that sends a frame only when the one before is settled gets the whole
\* result of every request, unless a write fails; over the UART any host gets it
\* for every request that is read.
PatientAnswered ==
    (\A i \in DOMAIN outcome : outcome[i] \notin {"refused", "cut"})
        \/ (eager /\ transport = "espi")

\* What the transports promise the host.  A message other than a debug error
\* is read back as it was written (the serialize and deserialize of the relays);
\* results come whole, in the order of the requests; only a host that sends on eSPI before its last
\* request is answered has a result cut off by the next event, or a request
\* refused by a full queue.
RelayHonest ==
    /\ TypeOK
    /\ outcome = <<>> => CodecsAgree
    /\ InOrder
    /\ PatientAnswered

LinkQuiet == \A i \in DOMAIN outcome : outcome[i] \notin Open

\* Every frame of the host is settled: answered, or given up for a reason.
RelayServed == []<>LinkQuiet
=============================================================================
