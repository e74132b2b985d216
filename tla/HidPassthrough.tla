--------------------------- MODULE HidPassthrough ---------------------------
(***************************************************************************)
(* The HID passthrough of hid-service: the host task that is an I2C target *)
(* for the host, the device tasks that are controllers of the real         *)
(* devices, the comms messages between them, and the interrupt task.  The  *)
(* two buses are external: every transfer may fail or time out.            *)
(***************************************************************************)
EXTENDS HidCommand

CONSTANTS
    Devices,         \* the registered devices; the host is for one of them
    Served,          \* Host::id
    HostBuffer,      \* the bytes of Host::buffer
    Messages,        \* the commands a host may send, as fields after the register
    MaxRequests,     \* bound: requests of the host
    MaxFaults        \* bound: transfers that fail

VARIABLES
    hostPc,          \* what the host task is doing
    asked,           \* history: the message the host sent last
    request,         \* per device: the signal Device::request
    response,        \* the signal Host::response
    devPc,           \* per device: what its task is doing
    working,         \* per device: the request it works on
    descriptor,      \* per device: the descriptor has been read (Device::descriptor)
    written,         \* per device: the last command written to it
    answer,          \* the response the host task sends
    told,            \* history: the kind of the last response sent to the host
    interrupt,       \* the device's interrupt line, TRUE when it asks
    intPc,           \* what the interrupt task is doing
    intOut,          \* the line to the host, TRUE when it is asserted
    requests, faults

ptVars == <<hostPc, asked, request, response, devPc, working, descriptor, written,
            answer, told, interrupt, intPc, intOut, requests, faults>>

hostVars == <<hostPc, asked, answer, told>>
devVars  == <<devPc, working, descriptor, written>>
intVars  == <<interrupt, intPc, intOut>>

NoRequest == [kind |-> "None", command |-> Refused]

Init ==
    /\ hostPc = "listen"
    /\ asked = NoRequest
    /\ request = [d \in Devices |-> NoRequest]
    /\ response = None
    /\ devPc = [d \in Devices |-> "wait"]
    /\ working = [d \in Devices |-> NoRequest]
    /\ descriptor = [d \in Devices |-> FALSE]
    /\ written = [d \in Devices |-> <<>>]
    /\ answer = None
    /\ told = None
    /\ interrupt = FALSE
    /\ intPc = "wait"
    /\ intOut = FALSE
    /\ requests = 0
    /\ faults = 0

Fault ==
    /\ faults < MaxFaults
    /\ faults' = faults + 1

-----------------------------------------------------------------------------
\* The host task (define_i2c_passthrough_host_task and host.rs)

\* wait_request: the host reads or writes.  The task then calls
\* int_signal.deassert() and drops the future that would do it.
Listen(access) ==
    /\ hostPc = "listen"
    /\ requests < MaxRequests
    /\ requests' = requests + 1
    /\ hostPc' = IF access = "Read" THEN "send" ELSE "register"
    /\ asked' = IF access = "Read" THEN [kind |-> "InputReport", command |-> Refused]
                ELSE NoRequest
    /\ UNCHANGED <<request, response, answer, told, interrupt, intPc, intOut, faults, devVars>>

\* process_register_access: the register says what is asked for.
Register(kind) ==
    /\ hostPc = "register"
    /\ asked' = [kind |-> kind, command |-> Refused]
    /\ hostPc' = "send"
    /\ UNCHANGED <<request, response, answer, told, requests, faults, devVars, intVars>>

CommandRegister(m) ==
    /\ hostPc = "register"
    /\ Decode(m) # Refused
    /\ asked' = [kind |-> "Command", command |-> Decode(m)]
    /\ hostPc' = "send"
    /\ UNCHANGED <<request, response, answer, told, requests, faults, devVars, intVars>>

\* process_output_report: a length that counts itself, the id, then the data; of
\* a length that leaves no id, the id is the byte the buffer held before.
OutputRegister(length) ==
    /\ hostPc = "register"
    /\ length \in 2 .. HostBuffer
    /\ asked' = [kind |-> "OutputReport", command |-> Refused]
    /\ hostPc' = "send"
    /\ UNCHANGED <<request, response, answer, told, requests, faults, devVars, intVars>>

\* A message that is refused or a transfer that fails: the task logs it, drops
\* the future of int_signal.reset() and listens again.
HostFails ==
    /\ hostPc \in {"register", "listenRead", "write"}
    /\ Fault
    /\ hostPc' = "listen"
    /\ answer' = None
    /\ UNCHANGED <<asked, request, response, told, requests, devVars, intVars>>

\* Device::receive: every registered device takes the request, whatever its id.
Deliver(r) == request' = [d \in Devices |-> r]

\* Host::receive: the signal holds one response, the last.
Receive(r) == response' = r

SendRequest ==
    /\ hostPc = "send"
    /\ Deliver(asked)
    /\ hostPc' = "response"
    /\ UNCHANGED <<asked, response, answer, told, requests, faults, devVars, intVars>>

\* Mutant of TakeResponse: the response is left in the signal.
TakeResponseKeep ==
    /\ hostPc = "response"
    /\ response # None
    /\ hostPc' = CASE response = "Nothing" -> "listen"
                   [] response = "InputReport" -> "write"
                   [] OTHER -> "listenRead"
    /\ answer' = IF response = "Nothing" THEN None ELSE response
    /\ UNCHANGED <<asked, request, response, told, requests, faults, devVars, intVars>>

\* send_response: wait for the device, then, for all but an input report, for
\* the host's read.  There is no timeout on the device.
TakeResponse ==
    /\ hostPc = "response"
    /\ response # None
    /\ response' = None
    /\ hostPc' = CASE response = "Nothing" -> "listen"
                   [] response = "InputReport" -> "write"
                   [] OTHER -> "listenRead"
    /\ answer' = IF response = "Nothing" THEN None ELSE response
    /\ UNCHANGED <<asked, request, told, requests, faults, devVars, intVars>>

ReadFollows ==
    /\ hostPc = "listenRead"
    /\ hostPc' = "write"
    /\ UNCHANGED <<asked, request, response, answer, told, requests, faults, devVars, intVars>>

WriteResponse ==
    /\ hostPc = "write"
    /\ told' = [kind |-> answer, to |-> asked]
    /\ answer' = None
    /\ hostPc' = "listen"
    /\ UNCHANGED <<asked, request, response, requests, faults, devVars, intVars>>

-----------------------------------------------------------------------------
\* A device task (define_i2c_passthrough_device_task and device.rs)

WaitRequest(d) ==
    /\ devPc[d] = "wait"
    /\ request[d] # NoRequest
    /\ working' = [working EXCEPT ![d] = request[d]]
    /\ request' = [request EXCEPT ![d] = NoRequest]
    /\ devPc' = [devPc EXCEPT ![d] = IF request[d].kind = "OutputReport" THEN "respond"
                                     ELSE IF descriptor[d] THEN "transfer"
                                     ELSE "descriptor"]
    /\ UNCHANGED <<response, descriptor, written, requests, faults, hostVars, intVars>>

\* get_hid_descriptor: read once, then kept.
ReadDescriptor(d) ==
    /\ devPc[d] = "descriptor"
    /\ descriptor' = [descriptor EXCEPT ![d] = TRUE]
    /\ devPc' = [devPc EXCEPT ![d] = "transfer"]
    /\ UNCHANGED <<request, response, working, written, requests, faults, hostVars, intVars>>

\* The transfer itself: a descriptor or a report is read, a command written.
Transfer(d) ==
    LET r == working[d] IN
    /\ devPc[d] = "transfer"
    /\ written' = IF r.kind = "Command"
                  THEN [written EXCEPT ![d] = EncodeForDevice(r.command)]
                  ELSE written
    /\ devPc' = [devPc EXCEPT ![d] = "respond"]
    /\ UNCHANGED <<request, response, working, descriptor, requests, faults, hostVars, intVars>>

\* A transfer that fails or times out is logged and not answered.
DeviceFails(d) ==
    /\ devPc[d] \in {"descriptor", "transfer"}
    /\ Fault
    /\ devPc' = [devPc EXCEPT ![d] = "wait"]
    /\ working' = [working EXCEPT ![d] = NoRequest]
    /\ UNCHANGED <<request, response, descriptor, written, requests, hostVars, intVars>>

ResponseTo(r) ==
    CASE r.kind = "OutputReport" -> "Nothing"
      [] r.kind = "Command" ->
           IF HasResponse(r.command.op) THEN "FeatureReport" ELSE "Nothing"
      [] OTHER -> r.kind

SendResponse(d) ==
    /\ devPc[d] = "respond"
    /\ Receive(ResponseTo(working[d]))
    /\ working' = [working EXCEPT ![d] = NoRequest]
    /\ devPc' = [devPc EXCEPT ![d] = "wait"]
    /\ UNCHANGED <<request, descriptor, written, requests, faults, hostVars, intVars>>

-----------------------------------------------------------------------------
\* The interrupt task (interrupt.rs): the device's interrupt is passed on, and
\* the task waits for a signal that only deassert, release and reset give.

DeviceInterrupts ==
    /\ ~interrupt
    /\ intPc = "wait"
    /\ interrupt' = TRUE
    /\ UNCHANGED <<request, response, intPc, intOut, requests, faults, hostVars, devVars>>

PassInterrupt ==
    /\ intPc = "wait"
    /\ interrupt
    /\ intOut' = TRUE
    /\ intPc' = "signal"
    /\ UNCHANGED <<request, response, interrupt, requests, faults, hostVars, devVars>>

-----------------------------------------------------------------------------

HostStep ==
    \/ SendRequest \/ TakeResponse \/ ReadFollows \/ WriteResponse

DeviceStep ==
    \E d \in Devices :
        WaitRequest(d) \/ ReadDescriptor(d) \/ Transfer(d) \/ SendResponse(d)

Next ==
    \/ \E a \in {"Read", "Write"} : Listen(a)
    \/ \E k \in {"Descriptor", "ReportDescriptor", "InputReport"} : Register(k)
    \/ \E n \in {1, 2, HostBuffer} : OutputRegister(n)
    \/ \E m \in Messages : CommandRegister(m)
    \/ HostFails
    \/ HostStep
    \/ DeviceStep
    \/ \E d \in Devices : DeviceFails(d)
    \/ DeviceInterrupts
    \/ PassInterrupt

\* Both tasks and the interrupt task run; a register access is followed by its
\* data, or fails.
Fairness ==
    /\ WF_ptVars(HostStep)
    /\ WF_ptVars(DeviceStep)
    /\ WF_ptVars(PassInterrupt)
    /\ WF_ptVars(\/ HostFails \/ Register("Descriptor"))

Spec == Init /\ [][Next]_ptVars /\ Fairness

-----------------------------------------------------------------------------

TypeOK ==
    /\ hostPc \in {"listen", "register", "send", "response", "listenRead", "write"}
    /\ devPc \in [Devices -> {"wait", "descriptor", "transfer", "respond"}]
    /\ \A d \in Devices : (devPc[d] # "wait") = (working[d] # NoRequest)
    /\ requests \in 0 .. MaxRequests
    /\ faults \in 0 .. MaxFaults

\* The host is told what it asked for: no response is left over from an earlier
\* request, a failed transfer or a dropped answer.
ToldWhatAsked == told # None => told.kind = ResponseTo(told.to)

\* One request at a time: the device works, or a response waits, only while the
\* host task waits for it.
OneAtATime ==
    \A d \in Devices :
        (request[d] # NoRequest \/ working[d] # NoRequest \/ response # None)
            => hostPc = "response"

\* The commands whose every part is in the message the host sends.
WholeCommands == {"Reset", "GetReport", "SetReport", "GetIdle", "GetProtocol", "SetPower"}

\* A command reaches the device as the host sent it.
PassedUnchanged ==
    \A d \in Devices : devPc[d] = "respond" /\ working[d].kind = "Command" =>
        \/ working[d].command.op \notin WholeCommands
        \/ /\ \E m \in Messages : written[d] = <<Word(CommandReg)>> \o m
           /\ Decode(Tail(written[d])) = working[d].command

\* A command with a response is written from a buffer of seven bytes.
FitsScratch ==
    \A d \in Devices : devPc[d] = "respond" /\ working[d].kind = "Command"
        /\ HasResponse(working[d].command.op) => WidthOf(written[d]) <= 7

PassthroughHonest ==
    TypeOK /\ ToldWhatAsked /\ OneAtATime /\ PassedUnchanged /\ FitsScratch

\* The host task listens, or waits for a device whose transfer failed.
PassthroughQuiet == hostPc = "listen" \/ (faults > 0 /\ hostPc = "response")

\* As long as no transfer of a device fails, every request is answered and the
\* host task listens again.  (A device that fails does not answer, and the host
\* task has no timeout for it.)
PassthroughServed == []<>PassthroughQuiet

=============================================================================
