------------------------------ MODULE DebugLog ------------------------------
(***************************************************************************)
(* debug-service: log events are cut into frames in a ring, a task stages  *)
(* one frame at a time, and the relay handler that a host polls is handed  *)
(* the staged frame, or told that there is none, through three signals.    *)
(* A byte of a log event is the number of the event; 0 is a cleared byte.  *)
(***************************************************************************)
EXTENDS Naturals, Sequences

CONSTANTS
    None,
    FrameSize,        \* DEFMT_MAX_BYTES: the largest frame, and the staging buffer
    RingFrames,       \* bound: frames in the ring
    LogSizes,         \* the bytes of a log event
    MaxLogs,          \* bound: log events
    MaxRequests       \* bound: requests of the host

VARIABLES
    ring,             \* DEFMT_BUFFER: the frames committed and not yet read
    pc,               \* defmt_to_host_task: "read" or "staged"
    staged, copied,   \* defmt_acpi_buf, and copy_len
    available,        \* frame_available of the service that the task knows
    shared,           \* whether the relay was given that service or one of its own
    notify, noAvail,  \* RESP_NOTIFY and NO_AVAIL_NOTIFY
    answer,           \* FRAME_READY
    waiting,          \* whether the relay handler waits for it
    committed, heard, \* history: the frames logged, and those the host was given
    logs, requests

logVars == <<ring, pc, staged, copied, available, shared, notify, noAvail, answer, waiting,
             committed, heard, logs, requests>>

Zeros == [i \in 1 .. FrameSize |-> 0]

\* A frame at the start of the staging buffer.
Over(frame, buffer) ==
    [i \in 1 .. FrameSize |-> IF i <= Len(frame) THEN frame[i] ELSE buffer[i]]

Init ==
    /\ ring = <<>> /\ pc = "read"
    /\ staged = Zeros /\ copied = 0
    /\ available = FALSE /\ shared \in BOOLEAN
    /\ notify = FALSE /\ noAvail = FALSE /\ answer = None
    /\ waiting = FALSE
    /\ committed = <<>> /\ heard = <<>>
    /\ logs = 0 /\ requests = 0

-----------------------------------------------------------------------------
\* The frames of a log event: full ones, and the rest.
FrameCount(size) == (size + FrameSize - 1) \div FrameSize

FrameOf(size, k) ==
    LET left == size - (k - 1) * FrameSize
    IN  [i \in 1 .. (IF left < FrameSize THEN left ELSE FrameSize) |-> logs + 1]

\* acquire, write and release, in a critical section: frames are written and
\* committed until the ring refuses a grant, and the rest of the event is dropped.
Log(size, granted) ==
    LET frames == [k \in 1 .. granted |-> FrameOf(size, k)]
    IN  /\ logs < MaxLogs
        /\ granted <= FrameCount(size)
        /\ Len(ring) + granted <= RingFrames
        /\ ring' = ring \o frames
        /\ committed' = committed \o frames
        /\ logs' = logs + 1
        /\ UNCHANGED <<pc, staged, copied, available, shared, notify, noAvail, answer,
                       waiting, heard, requests>>

\* defmt_to_host_task up to its wait for the host.
Stage ==
    /\ pc = "read"
    /\ ring # <<>>
    /\ staged' = Over(Head(ring), staged)
    /\ copied' = Len(Head(ring))
    /\ ring' = Tail(ring)
    /\ available' = TRUE
    /\ pc' = "staged"
    /\ UNCHANGED <<shared, notify, noAvail, answer, waiting, committed, heard, logs, requests>>

\* The host asked: the whole buffer is its answer, and what was staged is cleared.
SendStaged ==
    /\ pc = "staged"
    /\ notify
    /\ notify' = FALSE
    /\ available' = FALSE
    /\ answer' = [ok |-> TRUE, bytes |-> staged]
    /\ staged' = [i \in 1 .. FrameSize |-> IF i <= copied THEN 0 ELSE staged[i]]
    /\ pc' = "read"
    /\ UNCHANGED <<ring, copied, shared, noAvail, waiting, committed, heard, logs, requests>>

\* no_avail_to_host_task.
SendNoFrame ==
    /\ noAvail
    /\ noAvail' = FALSE
    /\ answer' = [ok |-> FALSE, bytes |-> Zeros]
    /\ UNCHANGED <<ring, pc, staged, copied, available, shared, notify, waiting, committed,
                   heard, logs, requests>>

\* Service::process_request, up to its wait.  A transport has one request at a time.
ProcessRequest ==
    /\ ~waiting
    /\ requests < MaxRequests
    /\ IF shared /\ available THEN notify' = TRUE /\ UNCHANGED noAvail
       ELSE noAvail' = TRUE /\ UNCHANGED notify
    /\ waiting' = TRUE
    /\ requests' = requests + 1
    /\ UNCHANGED <<ring, pc, staged, copied, available, shared, answer, committed, heard, logs>>

TakeAnswer ==
    /\ waiting
    /\ answer # None
    /\ heard' = IF answer.ok THEN Append(heard, answer.bytes) ELSE heard
    /\ answer' = None
    /\ waiting' = FALSE
    /\ UNCHANGED <<ring, pc, staged, copied, available, shared, notify, noAvail, committed,
                   logs, requests>>

Tasks == Stage \/ SendStaged \/ SendNoFrame \/ TakeAnswer

Next ==
    \/ \E size \in LogSizes, granted \in 0 .. RingFrames : Log(size, granted)
    \/ Stage
    \/ SendStaged
    \/ SendNoFrame
    \/ ProcessRequest
    \/ TakeAnswer

-----------------------------------------------------------------------------
\* Every frame that was committed is with the host, on its way to it, staged or in
\* the ring, in this order and once, and no byte of another frame is with it.
FramesKept ==
    LET onItsWay == IF answer # None /\ answer.ok THEN <<answer.bytes>> ELSE <<>>
        waitsFor == IF pc = "staged" THEN <<staged>> ELSE <<>>
        Padded(frames) == [i \in 1 .. Len(frames) |-> Over(frames[i], Zeros)]
    IN  heard \o onItsWay \o waitsFor \o Padded(ring) = Padded(committed)

\* A request is with one of the tasks, or answered, and no signal is left over for
\* the next request.
OneAnswer ==
    LET signals == {s \in {"notify", "noAvail", "answer"} :
                      CASE s = "notify" -> notify [] s = "noAvail" -> noAvail
                        [] OTHER -> answer # None}
    IN  IF waiting THEN \E s \in {"notify", "noAvail", "answer"} : signals = {s}
        ELSE signals = {}

DebugHonest == FramesKept /\ OneAnswer

DebugQuiet == ~waiting
=============================================================================
