----------------------------- MODULE HidTarget -----------------------------
(***************************************************************************)
(* The HID-over-I2C target: the runner of hidi2c-target-service that waits *)
(* for a bus request, an input report or a reset, and serves one at a      *)
(* time.  The bus and the host behind it are external: a request may be    *)
(* followed by the transfer it announces, by another one, or by none until *)
(* the timeout.  The device is any HidDevice: a queue of input reports     *)
(* that a reset empties (as in keyboard-service's relay).  What a host     *)
(* writes is a frame: the fields that are parsed and how many bytes came.  *)
(***************************************************************************)
EXTENDS Naturals, Sequences, Functions

CONSTANTS
    Implicit,        \* report_ids_implicit of the device's descriptor
    MaxOutput,       \* max(FeatureReportMaxSize, OutputReportMaxSize)
    Frames,          \* what the host may write
    None,            \* no report
    MaxReports,      \* bound: input reports of the device
    MaxRequests,     \* bound: requests of the host
    MaxResets        \* bound: resets the service's owner asks for

VARIABLES
    pc,              \* what the runner is doing
    attn,            \* AttnPinHandler::asserted
    pendingReset,    \* Runner::pending_reset
    resetSignal,     \* InnerResources::reset_signal
    reports,         \* the device's input reports, by number
    sending,         \* the report taken for the host
    powered,         \* the power state the device was told
    delivered,       \* length of the last report handed to the device
    produced, requests, resets,   \* bounds
    answers,         \* history: the input reports the host has read
    lost             \* history: reports a failed transfer or a reset took away

hidVars == <<pc, attn, pendingReset, resetSignal, reports, sending, powered,
             delivered, produced, requests, resets, answers, lost>>

deviceVars == <<powered, delivered>>
boundVars == <<produced, requests, resets>>

Init ==
    /\ pc = "select"
    /\ attn = FALSE
    /\ pendingReset = FALSE
    /\ resetSignal = FALSE
    /\ reports = <<>>
    /\ sending = None
    /\ powered = "On"
    /\ delivered = None
    /\ produced = 0
    /\ requests = 0
    /\ resets = 0
    /\ answers = <<>>
    /\ lost = {}

-----------------------------------------------------------------------------
\* What a frame means.  size is the number of bytes after the register; a field
\* past it was not sent.

\* The write buffer holds the register and nine bytes more than the largest
\* report, the register among them.
FitsBuffer(f) == f.size + 2 <= MaxOutput + 9

HeaderSize == IF Implicit THEN 2 ELSE 3

\* The output register: length, report id unless implicit, data.
OutputOk(f) ==
    /\ f.size >= HeaderSize
    /\ f.len >= HeaderSize
    /\ f.len - HeaderSize <= f.size - HeaderSize

\* get_io_command_report_header: the report id may extend the command, then
\* comes the address of the data register.
CommandHeader(f) == 4 + (IF f.id = 15 THEN 1 ELSE 0)

HeaderOk(f) ==
    /\ f.type \in {"Input", "Output", "Feature"}
    /\ f.size >= CommandHeader(f)
    /\ f.dataRegister

IdSize == IF Implicit THEN 0 ELSE 1

\* Opcode::SetReport: a length that counts itself, then the report.
SetReportOk(f) ==
    /\ HeaderOk(f)
    /\ f.size >= CommandHeader(f) + 2
    /\ f.len >= 2
    /\ IdSize + f.len - 2 <= f.size - CommandHeader(f) - 2
    /\ f.type # "Input"

-----------------------------------------------------------------------------
\* The runner

AssertInterrupt == attn' = TRUE
ClearInterrupt  == attn' = FALSE

Device == <<reports, sending, powered, delivered, lost>>

\* reset: the device's, then the flag, then the interrupt.
DoReset ==
    /\ reports' = <<>>
    /\ lost' = lost \cup Range(reports)
    /\ pendingReset' = TRUE
    /\ AssertInterrupt
    /\ pc' = "select"

\* reply_with_input_report up to its first await.
StartReply ==
    \/ /\ pendingReset
       /\ pc' = "ack"
       /\ UNCHANGED <<reports, sending>>
    \/ /\ ~pendingReset
       /\ reports = <<>>
       /\ pc' = "empty"
       /\ UNCHANGED <<reports, sending>>
    \/ /\ ~pendingReset
       /\ reports # <<>>
       /\ pc' = "sending"
       /\ sending' = Head(reports)
       /\ reports' = Tail(reports)

\* select3, the bus: a request comes in.
ReadRequest ==
    /\ pc = "select"
    /\ requests < MaxRequests
    /\ requests' = requests + 1
    /\ StartReply
    /\ UNCHANGED <<attn, pendingReset, resetSignal, produced, resets, answers,
                   lost, deviceVars>>

WriteRequest ==
    /\ pc = "select"
    /\ requests < MaxRequests
    /\ requests' = requests + 1
    /\ pc' = "register"
    /\ UNCHANGED <<attn, pendingReset, resetSignal, produced, resets, answers, Device>>

\* Mutant of InputReportReady: the interrupt is asserted for new reports only.
InputReportReadyOnce ==
    /\ pc = "select"
    /\ ~attn
    /\ reports # <<>>
    /\ reports[Len(reports)] = produced
    /\ Len(reports) = 1
    /\ AssertInterrupt
    /\ UNCHANGED <<pc, pendingReset, resetSignal, boundVars, answers, Device>>

\* select3, the device: not waited for while the interrupt is asserted.
InputReportReady ==
    /\ pc = "select"
    /\ ~attn
    /\ reports # <<>>
    /\ AssertInterrupt
    /\ UNCHANGED <<pc, pendingReset, resetSignal, boundVars, answers, Device>>

\* select3, the reset signal.
ResetSignalled ==
    /\ pc = "select"
    /\ resetSignal
    /\ resetSignal' = FALSE
    /\ DoReset
    /\ UNCHANGED <<boundVars, answers, sending, deviceVars>>

\* process_command.  A device that fails a set asks for a reset.
CommandAccess(f) ==
    \/ /\ \/ f.opcode = "Reset"
          \/ f.opcode = "SetPower" /\ f.power \in {"On", "Sleep"}
          \/ f.opcode = "SetReport" /\ SetReportOk(f)
       /\ DoReset
       /\ UNCHANGED <<sending, deviceVars>>
    \/ /\ f.opcode = "SetPower"
       /\ f.power \in {"On", "Sleep"}
       /\ powered' = f.power
       /\ pc' = "select"
       /\ UNCHANGED <<attn, pendingReset, reports, sending, delivered, lost>>
    \/ /\ f.opcode = "GetReport"
       /\ HeaderOk(f)
       /\ pc' = IF f.type = "Output" THEN "getOutput" ELSE "getReport"
       /\ UNCHANGED <<attn, pendingReset, Device>>
    \/ /\ f.opcode = "SetReport"
       /\ SetReportOk(f)
       /\ delivered' = f.len - 2
       /\ pc' = "select"
       /\ UNCHANGED <<attn, pendingReset, reports, sending, powered, lost>>

\* process_register_access: the frame is read whole and its register looked up.
\* Registers that are read back wait for the host's read request.
RegisterAccess(f) ==
    /\ pc = "register"
    /\ FitsBuffer(f)
    /\ \/ /\ f.register \in {"DeviceDescriptor", "ReportDescriptor"}
          /\ pc' = "descriptor"
          /\ UNCHANGED <<attn, pendingReset, Device>>
       \/ /\ f.register = "Input"
          /\ pc' = "input"
          /\ UNCHANGED <<attn, pendingReset, Device>>
       \/ /\ f.register = "Output"
          /\ OutputOk(f)
          /\ delivered' = f.len - HeaderSize
          /\ pc' = "select"
          /\ UNCHANGED <<attn, pendingReset, reports, sending, powered, lost>>
       \/ /\ f.register = "Output"
          /\ OutputOk(f)
          /\ DoReset
          /\ UNCHANGED <<sending, deviceVars>>
       \/ /\ f.register = "Command"
          /\ f.size >= 2
          /\ CommandAccess(f)
    /\ UNCHANGED <<resetSignal, boundVars, answers>>

\* The frame does not parse, does not fit the buffer, or does not come before
\* the timeout: logged, and nothing else.
RegisterAccessFails ==
    /\ pc = "register"
    /\ pc' = "select"
    /\ UNCHANGED <<attn, pendingReset, resetSignal, boundVars, answers, Device>>

\* listen_for_response: the read request that has to follow.
ResponseRequested ==
    /\ \/ /\ pc = "descriptor"
          /\ pc' = "descriptorReply"
          /\ UNCHANGED <<attn, pendingReset, Device>>
       \/ /\ pc = "input"
          /\ StartReply
          /\ UNCHANGED <<attn, pendingReset, lost, deviceVars>>
       \/ \* process_get_report: the device answers or asks for a reset
          /\ pc = "getReport"
          /\ \/ /\ pc' = "reportReply"
                /\ UNCHANGED <<attn, pendingReset, Device>>
             \/ /\ DoReset
                /\ UNCHANGED <<sending, deviceVars>>
       \/ \* an output report cannot be got: refused once the read has begun
          /\ pc = "getOutput"
          /\ pc' = "select"
          /\ UNCHANGED <<attn, pendingReset, Device>>
    /\ UNCHANGED <<resetSignal, boundVars, answers>>

\* Another request came, or none before the timeout.
ResponseFails ==
    /\ pc \in {"descriptor", "input", "getReport", "getOutput"}
    /\ pc' = "select"
    /\ UNCHANGED <<attn, pendingReset, resetSignal, boundVars, answers, Device>>

\* Mutant of AckSent: the flag is left for the next read.
AckSentTwice ==
    /\ pc = "ack"
    /\ ClearInterrupt
    /\ pc' = "select"
    /\ UNCHANGED <<pendingReset, resetSignal, boundVars, answers, Device>>

\* reply_with_input_report: the reset has been acknowledged.
AckSent ==
    /\ pc = "ack"
    /\ pendingReset' = FALSE
    /\ ClearInterrupt
    /\ pc' = "select"
    /\ UNCHANGED <<resetSignal, boundVars, answers, Device>>

\* A host that polls without a report gets one of length zero.
EmptySent ==
    /\ pc = "empty"
    /\ ClearInterrupt
    /\ pc' = "select"
    /\ UNCHANGED <<pendingReset, resetSignal, boundVars, answers, Device>>

\* The report has gone out; the interrupt stays while another one waits.
ReportSent ==
    /\ pc = "sending"
    /\ answers' = Append(answers, sending)
    /\ sending' = None
    /\ attn' = (attn /\ reports # <<>>)
    /\ pc' = "select"
    /\ UNCHANGED <<pendingReset, resetSignal, reports, lost, boundVars, deviceVars>>

\* process_next_input_report fails: the device asks for a reset instead.
ReportRefused ==
    /\ pc = "sending"
    /\ reports' = <<>>
    /\ lost' = lost \cup Range(reports) \cup {sending}
    /\ sending' = None
    /\ pendingReset' = TRUE
    /\ AssertInterrupt
    /\ pc' = "select"
    /\ UNCHANGED <<resetSignal, boundVars, answers, deviceVars>>

OtherSent ==
    /\ pc \in {"descriptorReply", "reportReply"}
    /\ pc' = "select"
    /\ UNCHANGED <<attn, pendingReset, resetSignal, boundVars, answers, Device>>

\* write: the host stops clocking and the timeout recovers the bus, or the bus
\* fails.  A report that was being sent is gone; the flag of a reset is not.
WriteFails ==
    /\ pc \in {"ack", "empty", "sending", "descriptorReply", "reportReply"}
    /\ pc' = "select"
    /\ sending' = None
    /\ lost' = IF pc = "sending" THEN lost \cup {sending} ELSE lost
    /\ UNCHANGED <<attn, pendingReset, resetSignal, reports, boundVars, answers, deviceVars>>

-----------------------------------------------------------------------------
\* The rest of the system

\* The device has another input report, at any time.
DeviceReports ==
    /\ produced < MaxReports
    /\ produced' = produced + 1
    /\ reports' = Append(reports, produced + 1)
    /\ UNCHANGED <<pc, attn, pendingReset, resetSignal, sending, requests, resets,
                   answers, lost, deviceVars>>

\* Service::reset
ServiceReset ==
    /\ resets < MaxResets
    /\ resets' = resets + 1
    /\ resetSignal' = TRUE
    /\ UNCHANGED <<pc, attn, pendingReset, produced, requests, answers, Device>>

\* The host answers the interrupt with a read, at the bound of its requests too.
HostServes ==
    /\ attn
    /\ pc = "select"
    /\ StartReply
    /\ UNCHANGED <<attn, pendingReset, resetSignal, boundVars, answers, lost, deviceVars>>

Completes == AckSent \/ EmptySent \/ ReportSent \/ OtherSent

Next ==
    \/ ReadRequest \/ WriteRequest \/ InputReportReady \/ ResetSignalled
    \/ \E f \in Frames : RegisterAccess(f)
    \/ RegisterAccessFails \/ ResponseRequested \/ ResponseFails
    \/ Completes \/ WriteFails \/ ReportRefused
    \/ DeviceReports \/ ServiceReset \/ HostServes

\* The runner goes on: every wait but the select has a timeout.  A host that
\* sees the interrupt reads, and not every one of its reads fails.
Fairness ==
    /\ WF_hidVars(InputReportReady)
    /\ SF_hidVars(ResetSignalled)
    /\ WF_hidVars(RegisterAccessFails)
    /\ WF_hidVars(ResponseFails)
    /\ WF_hidVars(Completes \/ WriteFails \/ ReportRefused)
    /\ SF_hidVars(HostServes)
    /\ SF_hidVars(Completes)

Spec == Init /\ [][Next]_hidVars /\ Fairness

-----------------------------------------------------------------------------

TypeOK ==
    /\ attn \in BOOLEAN /\ pendingReset \in BOOLEAN /\ resetSignal \in BOOLEAN
    /\ \A i \in 1 .. Len(reports) : reports[i] \in 1 .. produced
    /\ lost \subseteq 1 .. produced
    /\ (sending # None) = (pc = "sending")

\* Reports reach the host in the order the device made them, each at most once,
\* and one that does not was in a failed transfer or before a reset.
ReportsInOrder ==
    /\ \A i, j \in 1 .. Len(answers) : i < j => answers[i] < answers[j]
    /\ \A n \in 1 .. produced :
          \/ n \in lost
          \/ n \in Range(answers)
          \/ n \in Range(reports)
          \/ n = sending

\* A reset is announced until it is acknowledged: no answer, timeout or new
\* report withdraws the interrupt meanwhile, so the host cannot miss it.
ResetAnnounced == pendingReset => attn

\* No report of before a reset is read after its acknowledgement has been asked
\* for: while the acknowledgement is due, nothing is being sent.
ResetFirst == pendingReset => pc # "sending"

\* What the device is handed lies within what the host wrote.
WithinFrame ==
    \A f \in Frames : FitsBuffer(f) =>
        /\ f.register = "Output" /\ OutputOk(f) =>
              HeaderSize + (f.len - HeaderSize) <= f.size
        /\ f.register = "Command" /\ f.opcode = "SetReport" /\ SetReportOk(f) =>
              CommandHeader(f) + 2 + IdSize + (f.len - 2) <= f.size

HidHonest ==
    TypeOK /\ ReportsInOrder /\ ResetAnnounced /\ ResetFirst /\ WithinFrame

\* Nothing is left for the host: no reset, no report and no interrupt.
HidQuiet == ~resetSignal /\ ~pendingReset /\ reports = <<>> /\ ~attn

\* With a host that serves the interrupt, every reset is acknowledged, every
\* report leaves the device, and the interrupt goes away when nothing is left:
\* a transfer that times out half-way neither wedges the runner nor leaves the
\* host with an interrupt for ever.
HidServed == []<>HidQuiet
=============================================================================
