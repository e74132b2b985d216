------------------------------- MODULE MCIpc --------------------------------
(***************************************************************************)
(* Small instances, for TLC, of the ways in which the services exchange    *)
(* data, among themselves and with the host: deferred commands, borrowed   *)
(* buffers, messages to endpoints, the HID I2C target, HID devices behind  *)
(* one transport, the HID passthrough, MCTP packets, the UART and eSPI     *)
(* transports with the relays behind them, the debug log, and partitions   *)
(* of one storage device.  They share no state: `unit` says, for a whole   *)
(* behaviour, which of them runs.  The channel for commands runs with all  *)
(* its receivers ("channel") or with only one of them ("single").          *)
(***************************************************************************)
EXTENDS DeferredChannel, Sequences

CONSTANTS
    Units,                                       \* the units that run
    only,                                        \* the single receiver
    Users, BufferLen,                                 \* the buffer
    Endpoints, Registrars, Senders, IdOf, ListOf, Plans,     \* the endpoints
    e1, e2, e3, e4, oem0, oem1, power, oemList, powerList, g1, g2, g3, g4,
    Implicit, MaxOutput, Frames, MaxReports, MaxResets,      \* the HID target
    HidDevices, Descriptors, ReportCount, StackDepth, MaxBits,      \* the aggregate
    CommandReg, DataReg, Served, PassDevices, HostBuffer, Messages, \* the passthrough
    Script,                                      \* MCTP
    Invalid, QueueSize, Calls, MaxFrames,        \* the transports
    FrameSize, RingFrames, LogSizes, MaxLogs, MaxPolls,      \* the debug log
    AddressSpace, BlockSize, Manifests, Arguments,           \* the partitions
    \* bounds: requests to a HID device and to the aggregate, failures of a bus
    MaxAccesses, MaxSteps, MaxFailures

\* A frame the HID host writes has a number of bytes and a length field.
ASSUME FramesAssumption == \A f \in Frames : f.size \in Nat /\ f.len \in Nat

\* Log events have a number of bytes, and no answer is None.
ASSUME DebugAssumption ==
    /\ FrameSize \in Nat \ {0} /\ RingFrames \in Nat /\ LogSizes \subseteq Nat
    /\ None \notin [ok : BOOLEAN, bytes : [1 .. FrameSize -> Nat]]

\* Three endpoints on one list, as OEM endpoints are, two of them with the same
\* id, and a fourth on its own.
SmallIdOf == [e \in {e1, e2, e3, e4} |->
            CASE e \in {e1, e2} -> oem0 [] e = e3 -> oem1 [] OTHER -> power]
SmallListOf == [i \in {oem0, oem1, power} |-> IF i = power THEN powerList ELSE oemList]

\* On preemptive threads every endpoint is registered once; on one executor one
\* of them twice.
SmallPlans == {[preemptive |-> TRUE,
                target |-> [g \in {g1, g2, g3, g4} |->
                              CASE g = g1 -> e1 [] g = g2 -> e2 [] g = g3 -> e3 [] OTHER -> e4]],
               [preemptive |-> FALSE,
                target |-> [g \in {g1, g2, g3, g4} |->
                              CASE g \in {g1, g2} -> e1 [] g = g3 -> e2 [] OTHER -> e3]]}

\* What a host writes to the HID target: every register, and reports and
\* commands of every length around what they should be.
Frame == [register |-> "Output", size |-> 0, len |-> 0, opcode |-> "None",
          type |-> "Output", id |-> 1, dataRegister |-> TRUE, power |-> "On"]
HidFrames ==
    {[Frame EXCEPT !.register = r] : r \in {"DeviceDescriptor", "Input"}}
    \cup {[Frame EXCEPT !.size = s, !.len = l] : s \in 0 .. 6, l \in 0 .. 6}
    \cup {[Frame EXCEPT !.register = "Command", !.size = 2, !.opcode = o, !.power = p] :
             o \in {"Reset", "SetPower"}, p \in {"On", "Sleep", "Bad"}}
    \cup {[Frame EXCEPT !.register = "Command", !.size = s, !.len = l, !.opcode = o,
                        !.type = t, !.id = i] :
             s \in 4 .. 10, l \in 0 .. 5, o \in {"GetReport", "SetReport"},
             t \in {"Input", "Output", "Feature", "Bad"}, i \in {1, 15}}

\* Descriptors with and without ids, that share a size between reports, save and
\* restore it, leave the state under an id again, or end too early.
Item(t, v, b) == [tag |-> t, value |-> v, bytes |-> b]
Sizes(size, count) == <<Item("ReportSize", size, 2), Item("ReportCount", count, 2)>>
Collection == Sizes(8, 1) \o <<Item("Collection", 0, 2)>>
Plain == Sizes(9, 1) \o <<Item("Input", 0, 2)>>
First == <<Item("ReportId", 1, 2)>> \o Sizes(8, 2) \o <<Item("Input", 0, 2)>>
Second == <<Item("ReportId", 2, 2), Item("Input", 0, 2), Item("Output", 0, 2)>>
Saved == <<Item("Push", 0, 1), Item("ReportCount", 3, 2), Item("Feature", 0, 2),
           Item("Pop", 0, 1), Item("Feature", 0, 2)>>
Restored == Sizes(8, 1) \o <<Item("Push", 0, 1), Item("ReportId", 1, 2), Item("Input", 0, 2),
                             Item("Pop", 0, 1), Item("Input", 0, 2)>>
SmallDescriptors ==
    {Collection \o d : d \in {Plain, First, First \o Second, First \o First,
                             Second \o Saved, Plain \o Saved, <<Item("Long", 0, 5)>> \o Plain}}
    \cup {First \o Second, <<Item("Pop", 0, 1)>>, <<Item("Truncated", 0, 1)>>,
          <<Item("ReportId", 3, 3)>>, Restored}

\* The commands a host sends through the passthrough, at the ids around the
\* extended form, and three messages that are none.
Cmd == INSTANCE HidCommand
Ids == {0, 14, 15, 255}
Commands ==
    {Cmd!Command(o, None, None, None, None) : o \in {"Reset", "GetProtocol", "Vendor"}}
    \cup {Cmd!Command("SetPower", None, None, None, v) : v \in {0, 1}}
    \cup {Cmd!Command("GetReport", t, i, None, None) : t \in {"Input", "Feature"}, i \in Ids}
    \cup {Cmd!Command("SetReport", "Output", i, [width |-> w, value |-> 7], None) :
              i \in Ids, w \in {0, 3}}
    \cup {Cmd!Command("GetIdle", None, i, None, None) : i \in Ids}
    \cup {Cmd!Command("SetIdle", None, i, None, 9) : i \in {1, 15}}
    \cup {Cmd!Command("SetProtocol", None, None, None, 1)}
HidMessages ==
    {Cmd!Encode(c, None, DataReg) : c \in Commands}
    \cup {<<Cmd!Word(15 * 256)>>, <<Cmd!Byte(3)>>, <<Cmd!Word(770), Cmd!Word(1)>>}

Control(r, c, k, b) ==
    [type |-> "Control", request |-> r, datagram |-> 1, instance |-> 31, command |-> c,
     completion |-> k, body |-> b]
Vendor(b) == [type |-> "Vendor", vendor |-> 32381, body |-> b]
Odp(r, b) ==
    [type |-> "Odp", request |-> r, service |-> 9, error |-> 1 - r, id |-> 12345, body |-> b]

\* Messages of one and two packets, with bytes that have to be escaped.
ShortScript ==
    <<<<[tag |-> 1, message |-> Vendor(<<126, 1, 125, 94, 126, 7>>)],
        [tag |-> 6, message |-> Odp(1, <<>>)],
        [tag |-> 0, message |-> Odp(0, <<125, 2, 3, 4, 126, 126, 9, 10>>)]>>,
      <<[tag |-> 3, message |-> Control(1, 1, 0, <<8, 126>>)],
        [tag |-> 5, message |-> Control(0, 2, 128, <<1, 2, 3>>)]>>>>

\* One message of three packets.
ManyScript ==
    <<<<[tag |-> 1, message |-> Vendor([i \in 1 .. 12 |-> i])]>>, <<>>>>

HostCalls == {[service |-> "Battery", cmd |-> "GetPif"],
              [service |-> "TimeAlarm", cmd |-> "GetCapabilities"]}

\* Two partitions: apart, overlapping, unaligned, empty, at the last address and
\* beyond it; and every way of giving access to the first of them.
Pair(o, s, p, t, a) ==
    [boot |-> [offset |-> o, size |-> s, access |-> a],
     data |-> [offset |-> p, size |-> t, access |-> <<>>]]
Mixed == [any |-> "RO", v |-> "RW"]
Layouts == {Pair(0, 2, 2, 2, Mixed), Pair(0, 4, 2, 2, Mixed), Pair(0, 3, 2, 2, Mixed),
            Pair(1, 3, 4, 2, Mixed),
            Pair(2, 2, 4, 4, Mixed), Pair(5, 4, 0, 2, Mixed), Pair(0, 4, 2, 0, Mixed),
            Pair(2, 4, 0, 2, Mixed), Pair(4, 6, 5, 2, Mixed)}
DiskManifests ==
    {[manifest |-> [variants |-> {"v"}, size |-> z, alignment |-> l, partitions |-> p],
      variant |-> "v"] : z \in {None, 6}, l \in {None, 2}, p \in Layouts}
    \cup {[manifest |-> [variants |-> {"v"}, size |-> 6, alignment |-> 2,
                         partitions |-> Pair(0, 2, 2, 2, a)], variant |-> x] :
             a \in {<<>>, [any |-> "RO"], [v |-> "RW"], Mixed}, x \in {None, "v", "w"}}

VARIABLE unit
VARIABLES status, ref, holds, access
VARIABLES plan, ready, head, node, delegator, rpc, spc, to, at, got, expected
VARIABLES
    tPc, attn, pendingReset, resetSignal, reports, tSending, powered, tDelivered,
    produced, tRequests, resets, answers, lost
VARIABLES descs, map, aPending, aPower, reached, aAsked, received, resetting, steps
VARIABLES
    hostPc, asked, request, pResponse, devPc, working, descriptor, written, answer,
    told, interrupt, intPc, intOut, requests, pFaults
VARIABLES medium, assembly, tx, turn, wire, sent, delivered, long, faults, corrupted
VARIABLES
    transport, inbox, lPc, lJob, queue, sending, owed, heard, outcome, eager, lFaults
VARIABLES
    ring, dPc, staged, copied, available, shared, notify, noAvail, dAnswer, waiting,
    committed, dHeard, logs, dRequests
VARIABLES manifest, variant, wraps, built, partitions, guard, sAccess

bufferVars == <<status, ref, holds, access>>
commsVars == <<plan, ready, head, node, delegator, rpc, spc, to, at, got, expected>>
tVars == <<tPc, attn, pendingReset, resetSignal, reports, tSending, powered, tDelivered,
           produced, tRequests, resets, answers, lost>>
aVars == <<descs, map, aPending, aPower, reached, aAsked, received, resetting, steps>>
pVars == <<hostPc, asked, request, pResponse, devPc, working, descriptor, written, answer,
           told, interrupt, intPc, intOut, requests, pFaults>>
mVars == <<medium, assembly, tx, turn, wire, sent, delivered, long, faults, corrupted>>
lVars == <<transport, inbox, lPc, lJob, queue, sending, owed, heard, outcome, eager, lFaults>>
dVars == <<ring, dPc, staged, copied, available, shared, notify, noAvail, dAnswer, waiting,
           committed, dHeard, logs, dRequests>>
sVars == <<manifest, variant, wraps, built, partitions, guard, sAccess>>
allVars == <<vars, bufferVars, commsVars, tVars, aVars, pVars, mVars, lVars, dVars, sVars, unit>>

Buffer == INSTANCE SharedBuffer WITH Size <- BufferLen
Endpoint == INSTANCE Comms

Target == INSTANCE HidTarget WITH
    MaxRequests <- MaxAccesses, pc <- tPc, sending <- tSending, delivered <- tDelivered,
    requests <- tRequests

Aggregate == INSTANCE HidAggregate WITH
    Devices <- HidDevices, pending <- aPending, power <- aPower, asked <- aAsked

Passthrough == INSTANCE HidPassthrough WITH
    Devices <- PassDevices, MaxRequests <- MaxAccesses, MaxFaults <- MaxFailures,
    response <- pResponse, faults <- pFaults

Packets == INSTANCE Mctp WITH
    Mtu <- [Serial |-> 251, SmbusEspi |-> 32], AssemblySize <- 30, Services <- {9, 11},
    Endpoints <- {1, 2}, CorruptAt <- {2, 6, 9}, MaxFaults <- 1

Relay == INSTANCE HostLink WITH
    MaxRequests <- MaxFrames, MaxFaults <- MaxFailures,
    pc <- lPc, job <- lJob, faults <- lFaults

Debug == INSTANCE DebugLog WITH
    MaxRequests <- MaxPolls,
    pc <- dPc, answer <- dAnswer, heard <- dHeard, requests <- dRequests

Storage == INSTANCE PartitionManager WITH access <- sAccess

\* An aggregate has a device; descriptors are items with a tag, a value and the
\* bytes they take.
ASSUME AggregateAssumption ==
    /\ HidDevices \in Nat \ {0} /\ ReportCount \in Nat /\ StackDepth \in Nat
    /\ MaxBits \in Nat /\ MaxSteps \in Nat
    /\ Descriptors \subseteq Seq([tag : Aggregate!Tags, value : Nat, bytes : Nat])

\* The commands of the HID over I2C specification, with data from D and idle rates
\* from V.
HostCommands(D, V) ==
    {Passthrough!Command(o, None, None, None, None) : o \in {"Reset", "GetProtocol", "Vendor"}}
    \cup {Passthrough!Command("GetReport", t, i, None, None) : t \in {"Input", "Feature"}, i \in 0 .. 255}
    \cup {Passthrough!Command("SetReport", t, i, d, None) :
              t \in {"Output", "Feature"}, i \in 0 .. 255, d \in D}
    \cup {Passthrough!Command("GetIdle", None, i, None, None) : i \in 0 .. 255}
    \cup {Passthrough!Command("SetIdle", None, i, None, v) : i \in 0 .. 255, v \in V}
    \cup {Passthrough!Command(o, None, None, None, v) :
              o \in {"SetPower", "SetProtocol"}, v \in Passthrough!PowerValues}

\* The host sends the passthrough commands as they are laid out, or what is
\* refused; a single device is registered, since each would answer.
ASSUME PassthroughAssumption ==
    /\ \E d \in PassDevices : PassDevices = {d}
    /\ MaxAccesses \in Nat /\ MaxFailures \in Nat
    /\ None \notin DOMAIN Passthrough!Opcode \cup DOMAIN Passthrough!ReportType
    /\ CommandReg # None /\ DataReg # None
    /\ \A m \in Messages :
          /\ \A i \in DOMAIN m : m[i] # None /\ m[i].width \in Nat
          /\ \/ Passthrough!Decode(m) = Passthrough!Refused
             \/ \E c \in HostCommands({m[i] : i \in DOMAIN m}, {m[i].value : i \in DOMAIN m}) :
                   m = Passthrough!Encode(c, None, DataReg)

\* No message is None, and no value of a field is Invalid.
ASSUME CodecAssumption ==
    /\ Invalid \notin Nat
    /\ \A n \in 0 .. 251 : None \notin [1 .. n -> (Nat \cup {None}) \X Nat]

\* Partitions are where numbers say, and no error is None.
ASSUME StorageAssumption ==
    /\ BlockSize \in Nat \ {0} /\ AddressSpace \in Nat \ {0} /\ Arguments \subseteq Nat
    /\ None \notin {"OutOfBounds", "NotAligned", "ReadOnly"}
    /\ \A c \in Manifests :
          /\ c.manifest.size = None \/ c.manifest.size \in Nat
          /\ Storage!IsFiniteSet(DOMAIN c.manifest.partitions)
          /\ \A n \in DOMAIN c.manifest.partitions :
                /\ c.manifest.partitions[n].offset \in Nat
                /\ c.manifest.partitions[n].size \in Nat

\* A queue holds something, and no frame or result is None.
ASSUME LinkAssumption ==
    LET services == {c.service : c \in Calls}
        results  == UNION {Relay!Results(c.service, c.cmd) : c \in Calls}
    IN  /\ QueueSize \in Nat \ {0}
        /\ None \notin [id : Nat, kind : Relay!Kinds, call : Calls]
        /\ None \notin [of : Nat, service : services, result : results, k : Nat]

\* What a unit may start from is chosen only where it runs.
SuiteInit ==
    /\ unit \in Units
    /\ Init /\ Buffer!Init /\ Endpoint!Init
    /\ unit = "comms" \/ (plan.preemptive /\ \A s \in Senders : to[s] = power)
    /\ Target!Init /\ Passthrough!Init
    /\ Packets!Init /\ (unit = "mctp" \/ medium = "Serial")
    /\ Relay!Init /\ (unit = "relay" \/ transport = "uart")
    /\ Debug!Init /\ (unit = "debug" \/ shared)
    /\ IF unit = "storage" THEN Storage!Init
       ELSE /\ manifest = None /\ variant = None /\ wraps = FALSE /\ built = "no"
            /\ partitions = <<>> /\ guard = None /\ sAccess = None
    /\ IF unit = "aggregate" THEN Aggregate!Init
       ELSE /\ descs = None /\ map = None /\ aPending = None /\ aPower = None /\ reached = None
            /\ aAsked = None /\ received = None /\ resetting = None /\ steps = None

SuiteNext ==
    \/ /\ \/ unit = "channel" /\ Next
          \/ unit = "single" /\ Next /\ \A r \in Receivers \ {only} : job'[r] = None
       /\ UNCHANGED <<bufferVars, commsVars, tVars, aVars, pVars, mVars, lVars, dVars, sVars, unit>>
    \/ /\ unit = "buffer" /\ Buffer!Next
       /\ UNCHANGED <<vars, commsVars, tVars, aVars, pVars, mVars, lVars, dVars, sVars, unit>>
    \/ /\ unit = "comms" /\ Endpoint!Next
       /\ UNCHANGED <<vars, bufferVars, tVars, aVars, pVars, mVars, lVars, dVars, sVars, unit>>
    \/ /\ unit = "target" /\ Target!Next
       /\ UNCHANGED <<vars, bufferVars, commsVars, aVars, pVars, mVars, lVars, dVars, sVars, unit>>
    \/ /\ unit = "aggregate" /\ Aggregate!Next
       /\ UNCHANGED <<vars, bufferVars, commsVars, tVars, pVars, mVars, lVars, dVars, sVars, unit>>
    \/ /\ unit = "passthrough" /\ Passthrough!Next
       /\ UNCHANGED <<vars, bufferVars, commsVars, tVars, aVars, mVars, lVars, dVars, sVars, unit>>
    \/ /\ unit = "mctp" /\ Packets!Next
       /\ UNCHANGED <<vars, bufferVars, commsVars, tVars, aVars, pVars, lVars, dVars, sVars, unit>>
    \/ /\ unit = "relay" /\ Relay!Next
       /\ UNCHANGED <<vars, bufferVars, commsVars, tVars, aVars, pVars, mVars, dVars, sVars, unit>>
    \/ /\ unit = "debug" /\ Debug!Next
       /\ UNCHANGED <<vars, bufferVars, commsVars, tVars, aVars, pVars, mVars, lVars, sVars, unit>>
    \/ /\ unit = "storage" /\ Storage!Next
       /\ UNCHANGED <<vars, bufferVars, commsVars, tVars, aVars, pVars, mVars, lVars, dVars, unit>>

\* The receiver answers what it receives and callers poll the signal they wait
\* for, though nothing forces a caller to give up; the program calls comms::init,
\* and the executor polls every registration and message that can go on.  For the
\* rest see the module of the unit.
Fairness ==
    /\ \A c \in Callers : WF_vars(unit = "single" /\ TakeResponse(c))
    /\ WF_vars(unit = "single" /\ (Receive(only) \/ Respond(only)))
    /\ WF_commsVars(unit = "comms" /\ Endpoint!InitLists)
    /\ \A g \in Registrars :
          WF_commsVars(unit = "comms"
                       /\ (Endpoint!Push(g) \/ Endpoint!PushNode(g) \/ Endpoint!PushFront(g)))
    /\ \A s \in Senders :
          WF_commsVars(unit = "comms" /\ (Endpoint!RouteStep(s) \/ Endpoint!RouteEnd(s)))
    /\ SF_<<commsVars, tVars>>(
          \/ unit = "comms" /\ (\E s \in Senders : Endpoint!Route(s)) /\ UNCHANGED tVars
          \/ unit = "target" /\ Target!ResetSignalled /\ UNCHANGED commsVars)
    /\ WF_tVars(unit = "target" /\ Target!InputReportReady)
    /\ WF_tVars(unit = "target" /\ Target!RegisterAccessFails)
    /\ WF_tVars(unit = "target" /\ Target!ResponseFails)
    /\ WF_tVars(unit = "target" /\ (Target!Completes \/ Target!WriteFails \/ Target!ReportRefused))
    /\ SF_tVars(unit = "target" /\ Target!HostServes)
    /\ SF_tVars(unit = "target" /\ Target!Completes)
    /\ WF_pVars(unit = "passthrough" /\ Passthrough!HostStep)
    /\ WF_pVars(unit = "passthrough" /\ Passthrough!DeviceStep)
    /\ WF_pVars(unit = "passthrough" /\ Passthrough!PassInterrupt)
    /\ WF_pVars(unit = "passthrough"
                /\ (Passthrough!HostFails \/ Passthrough!Register("Descriptor")))
    /\ WF_lVars(unit = "relay" /\ Relay!Serve)
    /\ WF_dVars(unit = "debug" /\ Debug!Tasks)

SuiteSpec == SuiteInit /\ [][SuiteNext]_allVars /\ Fairness

-----------------------------------------------------------------------------
\* A user with mutable access to a buffer is alone, the status tells exactly which
\* guards there are and is never poisoned, a slice of a slice stays inside the
\* range it was taken from, and indexing with the range of a guard never panics.
\* A request to a partition reaches the bytes asked for and no other partition.
BorrowsExact ==
    /\ []Buffer!BorrowsHonest
    /\ [](unit = "storage" => Storage!PartitionsApart)
    /\ Buffer!SliceInside

\* A list of endpoints ends, and holds every endpoint whose registration
\* succeeded; of two registrations of an endpoint one at most succeeds; and a
\* message reaches every registered endpoint of its id once, and no other.
EndpointsReached ==
    Endpoint!TypeOK /\ Endpoint!ListIntact /\ Endpoint!RegisteredOnce /\ Endpoint!DeliveredOnce

\* Input reports reach the HID host in order and at most once, a reset is announced
\* until it is acknowledged and comes before any report, and what the device is
\* handed lies within what the host wrote.
HidHonest == unit = "target" => Target!HidHonest

\* The merged descriptor and the two maps of report ids agree with the devices'
\* descriptors, and gets, sets and input reports go by them.
AggregateHonest == unit = "aggregate" => Aggregate!AggregateHonest

\* The host of the passthrough is told what it asked for, and a command reaches
\* the device as the host sent it.
PassthroughHonest == unit = "passthrough" => Passthrough!PassthroughHonest

\* Whatever the link loses, repeats or corrupts, a message that is assembled is one
\* the peer sent, and a link without faults delivers every message of one or two
\* packets, in order.
MctpHonest == unit = "mctp" => Packets!MctpHonest

\* A relayed message is read back as it was written, and results come whole and in
\* the order of the requests; log frames reach the host once, whole and in order.
RelayHonest ==
    /\ unit = "relay" => Relay!RelayHonest
    /\ unit = "debug" => Debug!DebugHonest

\* A caller that does not give up gets its response from a single receiver: no
\* late response to an abandoned command takes its place in the signal.  Every
\* send along a list of endpoints ends once the lists are initialized.  The HID
\* target serves every report and reset, the passthrough every request whose
\* transfers succeed, a transport settles every frame, and the debug service
\* answers every poll.
CallsEnd ==
    []<>(/\ unit = "channel" \/ \A c \in Callers : pc[c] # "wait"
         /\ Endpoint!Quiet
         /\ Target!HidQuiet
         /\ Passthrough!PassthroughQuiet
         /\ Relay!LinkQuiet
         /\ Debug!DebugQuiet)

\* "Context for serializing and deserializing an MCTP message, which may be split
\* among multiple packets": mctp_packet_context.rs.
MultiplePackets == Packets!MultiplePackets
=============================================================================
