----------------------------- MODULE CfuUpdater -----------------------------
(***************************************************************************)
(* The basic CFU updater (cfu-service/src/basic): one task loops over      *)
(* EventReceiver::wait_next, Updater::process_event and                    *)
(* EventReceiver::finalize, bridging the requests of a CfuDevice to a      *)
(* FwUpdate device.  A handler is one step: only this task touches the     *)
(* shared state, so nothing but time can come between its awaits.          *)
(*                                                                         *)
(* Time is discrete; tick holds how long is left until next_recovery_tick. *)
(* The firmware device is external: every operation of the FwUpdate trait  *)
(* may fail, and a failed one may leave the device in an unknown state.    *)
(***************************************************************************)
EXTENDS Cfu

CONSTANTS
    Interval,      \* config.recovery.tick_interval
    TimeoutTicks,  \* config.recovery.update_timeout_ticks
    MaxRequests,   \* bound: requests the host sends
    Never,         \* Instant::MAX
    None

ASSUME IntervalAssumption == Interval \in Nat \ {0}
ASSUME TimeoutAssumption == TimeoutTicks \in Nat \ {0}
ASSUME NeverAssumption == Never \notin Nat

VARIABLES
    request,   \* CfuDevice::request
    response,  \* CfuDevice::response
    host,      \* the kind of the request the host waits on in execute_device_request, or None
    sent,      \* requests sent so far
    fw,        \* SharedState::fw_update_state
    tick,      \* SharedState::next_recovery_tick, as the time left until it
    dev,       \* the firmware device: "normal", "updating" or "unknown"
    since      \* time since the first block of the running update, up to the timeout

vars == <<request, response, host, sent, fw, tick, dev, since>>

Block == {"first", "middle", "last", "only"}
First(b) == b \in {"first", "only"}
Last(b) == b \in {"last", "only"}

Requests == {[kind |-> k, block |-> None] : k \in RequestKind \ {"GiveContent"}}
            \cup {[kind |-> "GiveContent", block |-> b] : b \in Block}

Timeout == TimeoutTicks * Interval

Idle == [kind |-> "Idle", ticks |-> 0]
InProgress(n) == [kind |-> "InProgress", ticks |-> n]
Recovery == [kind |-> "Recovery", ticks |-> 0]

TypeOK ==
    /\ request \in Seq(Requests)
    /\ response \in Seq(ResponseKind)
    /\ host \in RequestKind \cup {None}
    /\ sent \in Nat
    /\ fw \in {Idle, Recovery} \cup {InProgress(n) : n \in 0..(TimeoutTicks - 1)}
    /\ tick \in 0..Interval \cup {Never}
    /\ dev \in {"normal", "updating", "unknown"}
    /\ since \in 0..Timeout

Init ==
    /\ request = <<>>
    /\ response = <<>>
    /\ host = None
    /\ sent = 0
    /\ fw = Idle
    /\ tick = Never
    /\ dev = "normal"
    /\ since = 0

-----------------------------------------------------------------------------
(* The host side of CfuDevice::execute_device_request: one request at a    *)
(* time, and no timeout on its response.                                   *)

SendRequest(r) ==
    /\ host = None
    /\ sent < MaxRequests
    /\ HasRoom(request)
    /\ request' = Append(request, r)
    /\ host' = r.kind
    /\ sent' = sent + 1
    /\ UNCHANGED <<response, fw, tick, dev, since>>

ReceiveResponse ==
    /\ host # None
    /\ HasMessage(response)
    /\ response' = Tail(response)
    /\ host' = None
    /\ UNCHANGED <<request, sent, fw, tick, dev, since>>

-----------------------------------------------------------------------------
(* SharedState. *)

EnterIdle ==
    /\ fw' = Idle
    /\ tick' = Never

\* Mutant of EnterInProgress: the ticks of the last update count on.
EnterInProgressKeepTicks ==
    /\ fw' = InProgress(fw.ticks)
    /\ tick' = Interval

EnterInProgress ==
    /\ fw' = InProgress(0)
    /\ tick' = Interval

EnterRecovery ==
    /\ fw' = Recovery
    /\ tick' = IF tick = Never THEN 0 ELSE tick

(* What a failed operation leaves behind. *)
FailedDevice == {dev, "unknown"}

-----------------------------------------------------------------------------
(* Updater::process_cfu_command and its handlers.                          *)

(* wait_next hands a request over unless the updater is in recovery; the   *)
(* check for recovery that process_cfu_command makes comes on top.         *)
Take(kind) ==
    /\ HasMessage(request)
    /\ Head(request).kind = kind
    /\ fw.kind # "Recovery"
    /\ HasRoom(response)
    /\ request' = Tail(request)
    /\ UNCHANGED <<host, sent>>

Respond(r) == response' = Append(response, r)

(* get_active_fw_version may fail: the answer is then an invalid version   *)
(* or a rejected offer, of the same kind.                                  *)
ProcessGetFwVersion ==
    /\ Take("FwVersionRequest")
    /\ Respond("FwVersionResponse")
    /\ UNCHANGED <<fw, tick, dev, since>>

ProcessGiveOffer ==
    /\ \E k \in {"GiveOffer", "GiveOfferExtended", "GiveOfferInformation"} : Take(k)
    /\ Respond("OfferResponse")
    /\ UNCHANGED <<fw, tick, dev, since>>

ProcessPrepareOrFinalize ==
    /\ \E k \in {"PrepareComponentForUpdate", "FinalizeUpdate"} : Take(k)
    /\ Respond("ComponentPrepared")
    /\ UNCHANGED <<fw, tick, dev, since>>

\* Mutant of ProcessAbortUpdate: Idle is entered even if the device failed.
ProcessAbortUpdateTrusting ==
    /\ Take("AbortUpdate")
    /\ Respond("ComponentPrepared")
    /\ UNCHANGED since
    /\ dev' \in {"normal"} \cup FailedDevice
    /\ EnterIdle

ProcessAbortUpdate ==
    /\ Take("AbortUpdate")
    /\ Respond("ComponentPrepared")
    /\ UNCHANGED since
    /\ \/ dev' = "normal" /\ EnterIdle
       \/ dev' \in FailedDevice /\ EnterRecovery

(* finalize_fw_update. *)
FinalizeContent ==
    \/ dev' = "normal" /\ EnterIdle
    \/ dev' \in {"updating", "unknown"} /\ EnterRecovery

(* A block that is not the first: the device takes it only during an       *)
(* update (Error::NeedsActiveUpdate).                                      *)
WriteBlock(b) ==
    /\ UNCHANGED since
    /\ \/ /\ dev = "updating"
          /\ IF Last(b) THEN FinalizeContent ELSE UNCHANGED <<dev, fw, tick>>
       \/ /\ dev' \in IF dev = "updating" THEN FailedDevice ELSE {dev}
          /\ UNCHANGED <<fw, tick>>

(* start_fw_update, enter_in_progress, then the write of the same block.   *)
StartAndWriteBlock(b) ==
    \/ /\ dev' \in FailedDevice
       /\ EnterRecovery
       /\ UNCHANGED since
    \/ /\ since' = 0
       /\ \/ IF Last(b) THEN \/ dev' = "normal" /\ EnterIdle
                             \/ dev' \in {"updating", "unknown"} /\ fw' = Recovery /\ tick' = Interval
                        ELSE dev' = "updating" /\ EnterInProgress
          \/ dev' \in {"updating", "unknown"} /\ EnterInProgress

(* A block whose data_length exceeds its data is refused before anything   *)
(* else happens.                                                           *)
ProcessGiveContent ==
    /\ Take("GiveContent")
    /\ Respond("ContentResponse")
    /\ LET b == Head(request).block
       IN  \/ UNCHANGED <<fw, tick, dev, since>>
           \/ First(b) /\ StartAndWriteBlock(b)
           \/ ~First(b) /\ WriteBlock(b)

-----------------------------------------------------------------------------
(* EventReceiver::wait_next and Updater::process_recovery_tick.            *)

(* wait_next in progress: the select polls the request first, so the timer *)
(* fires only while no request is waiting.                                 *)
TickFires ==
    /\ fw.kind = "InProgress"
    /\ ~HasMessage(request)
    /\ tick = 0

NotTimedOut == fw.ticks + 1 < TimeoutTicks

CountTick ==
    /\ TickFires
    /\ NotTimedOut
    /\ fw' = InProgress(fw.ticks + 1)
    /\ tick' = Interval
    /\ UNCHANGED <<request, response, host, sent, dev, since>>

(* The abort that ends every recovery tick; the state is Recovery already, *)
(* and next_recovery_tick is armed.                                        *)
AbortOk ==
    /\ dev' = "normal"
    /\ EnterIdle

\* Mutant of AbortFailed: the tick is not armed again.
AbortFailedOnce ==
    /\ dev' \in FailedDevice
    /\ fw' = Recovery
    /\ tick' = Never

AbortFailed ==
    /\ dev' \in FailedDevice
    /\ fw' = Recovery
    /\ tick' = Interval

TimeOut ==
    /\ TickFires
    /\ ~NotTimedOut
    /\ AbortOk \/ AbortFailed
    /\ UNCHANGED <<request, response, host, sent, since>>

RecoveryTick(Outcome) ==
    /\ fw.kind = "Recovery"
    /\ tick = 0
    /\ Outcome
    /\ UNCHANGED <<request, response, host, sent, since>>

RecoveryTickOk == RecoveryTick(AbortOk)
RecoveryTickFailed == RecoveryTick(AbortFailed)

(* Time passes whatever the task is doing. *)
Elapse ==
    /\ tick \notin {0, Never}
    /\ tick' = tick - 1
    /\ since' = IF since < Timeout THEN since + 1 ELSE since
    /\ UNCHANGED <<request, response, host, sent, fw, dev>>

Task ==
    \/ ProcessGetFwVersion
    \/ ProcessGiveOffer
    \/ ProcessPrepareOrFinalize
    \/ ProcessAbortUpdate
    \/ ProcessGiveContent
    \/ CountTick
    \/ TimeOut
    \/ RecoveryTickOk
    \/ RecoveryTickFailed

Next ==
    \/ \E r \in Requests : SendRequest(r)
    \/ ReceiveResponse
    \/ Task
    \/ Elapse

Spec == Init /\ [][Next]_vars

(* Timers expire, the executor runs the task whenever it is ready, the     *)
(* host polls the response it waits for, and a device whose update is      *)
(* aborted again and again gives way at last.                              *)
Fairness ==
    /\ WF_vars(Elapse) /\ WF_vars(Task) /\ WF_vars(ReceiveResponse)
    /\ SF_vars(RecoveryTickOk)

FairSpec == Spec /\ Fairness

-----------------------------------------------------------------------------
(* Outside an update the firmware device runs its normal firmware: every   *)
(* failure of start, finalize or abort, with or without an update running, *)
(* sends the updater to Recovery and only a successful finalize or abort   *)
(* brings it back to Idle (state.rs, "None in progress").                  *)
IdleIsNormal == fw.kind = "Idle" => dev = "normal"

(* Recovery and a running update always have a tick to wake wait_next:     *)
(* enter_recovery arms one when it is entered from Idle.                   *)
TickArmed == fw.kind # "Idle" <=> tick # Never

(* An update is given up no earlier than update_timeout_ticks intervals    *)
(* after its first block, however the blocks, ticks and restarts of        *)
(* updates interleave.                                                     *)
NoEarlyTimeout == [][TimeOut => since >= Timeout]_vars

(* Every update, completed, failed or abandoned by the host, ends with the *)
(* updater idle again.                                                     *)
UpdateEnds == fw.kind # "Idle" ~> fw.kind = "Idle"

(* Every request of the host is answered. *)
RequestsAnswered == host # None ~> host = None
=============================================================================
