--------------------------- MODULE RelayMessages ----------------------------
(***************************************************************************)
(* The messages the relays carry between the host and the battery, the     *)
(* thermal, the time alarm and the debug service: where each writer        *)
(* (serialize) puts a field and where each reader (deserialize) takes it   *)
(* from, the discriminants, and which result each request gets             *)
(* (process_request).  A byte on the wire is a value and its place in that *)
(* value, so a reader gets a value back only from the bytes that were      *)
(* written for it.                                                         *)
(***************************************************************************)
EXTENDS Naturals, Sequences

CONSTANTS
    None,            \* a Result that is an Err
    Invalid          \* a value an enumeration or a set of flags does not have

\* A field: its first byte, its width and whether its reader checks its value.
Field(at, width) == [at |-> at, width |-> width, checked |-> FALSE]
U8(at)       == Field(at, 1)
U16(at)      == Field(at, 2)
Dword(at)    == Field(at, 4)
Checked(f)   == [f EXCEPT !.checked = TRUE]
Dwords(n)    == [i \in 1 .. n |-> Dword(4 * (i - 1))]

Width(layout) ==
    LET Sum[n \in 0 .. Len(layout)] == IF n = 0 THEN 0 ELSE Sum[n - 1] + layout[n].width
    IN  Sum[Len(layout)]

Unwritten == <<None, 0>>

\* The writers: a field beyond the buffer is an error; the bytes sent are as
\* many as the widths of the fields add up to.
Serialize(layout, values, size) ==
    IF \E i \in 1 .. Len(layout) : layout[i].at + layout[i].width > size THEN None
    ELSE LET Holds(b) == {i \in 1 .. Len(layout) :
                             b - 1 \in layout[i].at .. layout[i].at + layout[i].width - 1}
         IN  [b \in 1 .. Width(layout) |->
                 IF Holds(b) = {} THEN Unwritten
                 ELSE LET i == CHOOSE j \in Holds(b) : \A k \in Holds(b) : k <= j
                      IN  <<values[i], b - 1 - layout[i].at>>]

\* The readers: a field beyond the buffer, or a checked field with a value its
\* type does not have, is an error.
Read(f, bytes) ==
    IF \A k \in 0 .. f.width - 1 :
           bytes[f.at + k + 1] = <<bytes[f.at + 1][1], k>>
    THEN bytes[f.at + 1][1] ELSE Invalid

Deserialize(layout, bytes) ==
    IF \E i \in 1 .. Len(layout) :
           \/ layout[i].at + layout[i].width > Len(bytes)
           \/ layout[i].checked /\ Read(layout[i], bytes) = Invalid
    THEN None
    ELSE [i \in 1 .. Len(layout) |-> Read(layout[i], bytes)]

-----------------------------------------------------------------------------
\* battery-service-relay

BatteryCmd ==
    [GetBix |-> 1, GetBst |-> 2, GetPsr |-> 3, GetPif |-> 4, GetBps |-> 5, SetBtp |-> 6,
     SetBpt |-> 7, GetBpc |-> 8, SetBmc |-> 9, GetBmd |-> 10, GetBct |-> 11, GetBtm |-> 12,
     SetBms |-> 13, SetBma |-> 14, GetSta |-> 15]

BatteryQueries == {"GetBix", "GetBst", "GetPsr", "GetPif", "GetBps", "GetBpc", "GetBmd", "GetSta"}

BatteryRequestPut(cmd) ==
    CASE cmd \in BatteryQueries -> <<U8(0)>>
      [] cmd = "SetBpt" -> <<U8(0), Dword(1), Dword(5), Dword(9)>>
      [] OTHER -> <<U8(0), Dword(1)>>

BatteryRequestGet(cmd) ==
    CASE cmd \in BatteryQueries -> <<U8(0)>>
      [] cmd = "SetBpt" -> <<U8(0), Dword(1), Checked(Dword(5)), Dword(9)>>
      [] OTHER -> <<U8(0), Dword(1)>>

\* Mutant of BixPut: the swapping capability is put where the OEM info starts.
BixPutOverlap ==
    Dwords(16) \o <<Field(64, 8), Field(72, 8), Field(80, 8), Field(88, 8), Dword(88)>>

\* bix_to_bytes and bix_from_bytes: sixteen dwords, four strings, a dword.
BixPut ==
    Dwords(16) \o <<Field(64, 8), Field(72, 8), Field(80, 8), Field(88, 8), Dword(96)>>

BixGet ==
    [i \in 1 .. 16 |-> IF i \in {2, 5} THEN Checked(Dword(4 * (i - 1))) ELSE Dword(4 * (i - 1))]
    \o <<Field(64, 8), Field(72, 8), Field(80, 8), Field(88, 8), Checked(Dword(96))>>

PifPut == Dwords(3) \o <<Field(12, 8), Field(20, 8), Field(28, 8)>>

PifGet == <<Checked(Dword(0)), Dword(4), Dword(8), Field(12, 8), Field(20, 8), Field(28, 8)>>

BatteryResponsePut(cmd) ==
    CASE cmd = "GetBix" -> BixPut
      [] cmd = "GetPif" -> PifPut
      [] cmd \in {"GetBst", "GetBpc"} -> Dwords(4)
      [] cmd \in {"GetBps", "GetBmd"} -> Dwords(5)
      [] cmd \in {"SetBtp", "SetBpt", "SetBmc"} -> <<>>
      [] OTHER -> Dwords(1)

BatteryResponseGet(cmd) ==
    CASE cmd = "GetBix" -> BixGet
      [] cmd = "GetPif" -> PifGet
      [] cmd = "GetBst" -> <<Checked(Dword(0)), Dword(4), Dword(8), Dword(12)>>
      [] cmd = "GetBpc" -> <<Dword(0), Checked(Dword(4)), Dword(8), Dword(12)>>
      [] cmd = "GetBps" -> Dwords(5)
      [] cmd = "GetBmd" ->
           <<Checked(Dword(0)), Checked(Dword(4)), Dword(8), Dword(12), Dword(16)>>
      [] cmd \in {"SetBtp", "SetBpt", "SetBmc"} -> <<>>
      [] cmd \in {"GetPsr", "GetSta"} -> <<Checked(Dword(0))>>
      [] OTHER -> Dwords(1)

BatteryError == [UnknownDeviceId |-> 1, UnspecifiedFailure |-> 2]

\* process_request: the response has the name of the request.
BatteryResponses(cmd) == {cmd}
BatteryErrors(cmd)    == DOMAIN BatteryError

-----------------------------------------------------------------------------
\* thermal-service-relay

ThermalCmd ==
    [GetTmp |-> 1, SetThrs |-> 2, GetThrs |-> 3, SetScp |-> 4, GetVar |-> 5, SetVar |-> 6]

ThermalRequestPut(cmd) ==
    CASE cmd \in {"GetTmp", "GetThrs"} -> <<U8(0)>>
      [] cmd \in {"SetThrs", "SetScp"} -> <<U8(0), Dword(1), Dword(5), Dword(9)>>
      [] cmd = "GetVar" -> <<U8(0), U16(1), Field(3, 16)>>
      [] cmd = "SetVar" -> <<U8(0), U16(1), Field(3, 16), Dword(19)>>

ThermalRequestGet(cmd) ==
    CASE cmd \in {"GetTmp", "GetThrs"} -> <<U8(0)>>
      [] cmd \in {"SetThrs", "SetScp"} -> <<U8(0), Dword(1), Dword(5), Dword(9)>>
      [] cmd = "GetVar" -> <<U8(0), U16(1), Field(3, 16)>>
      [] cmd = "SetVar" -> <<U8(0), U16(1), Field(3, 16), Dword(19)>>

ThermalResponsePut(cmd) ==
    CASE cmd \in {"GetTmp", "GetVar"} -> Dwords(1)
      [] cmd = "GetThrs" -> Dwords(3)
      [] OTHER -> <<>>

ThermalResponseGet(cmd) ==
    CASE cmd \in {"GetTmp", "GetVar"} -> <<Dword(0)>>
      [] cmd = "GetThrs" -> <<Dword(0), Dword(4), Dword(8)>>
      [] OTHER -> <<>>

ThermalError == [InvalidParameter |-> 1, UnsupportedRevision |-> 2, HardwareError |-> 3]

\* process_request: an instance or a variable that is not there is an invalid
\* parameter, and so is every SetScp; only setting a speed can fail.
ThermalResponses(cmd) == IF cmd = "SetScp" THEN {} ELSE {cmd}
ThermalErrors(cmd)    ==
    IF cmd = "SetVar" THEN {"InvalidParameter", "HardwareError"} ELSE {"InvalidParameter"}

-----------------------------------------------------------------------------
\* time-alarm-service-relay

TimeAlarmCmd ==
    [GetCapabilities |-> 1, GetRealTime |-> 2, SetRealTime |-> 3, GetWakeStatus |-> 4,
     ClearWakeStatus |-> 5, SetTimerValue |-> 6, GetTimerValue |-> 7,
     SetExpiredTimerPolicy |-> 8, GetExpiredTimerPolicy |-> 9]

TimeAlarmAnswer ==
    [Capabilities |-> 1, RealTime |-> 2, TimerStatus |-> 3, WakePolicy |-> 4,
     TimerSeconds |-> 5, OkNoData |-> 6]

\* RawAcpiTimestamp: year, month, day, hour, minute, second, the valid byte,
\* milliseconds, time zone, daylight and padding.
TimestampPut ==
    <<U16(0), U8(2), U8(3), U8(4), U8(5), U8(6), U8(7), U16(8), U16(10), U8(12), Field(13, 3)>>

\* try_from_bytes: all but the valid byte and the padding must make a time.
TimestampGet ==
    [i \in 1 .. 11 |-> IF i \in {7, 11} THEN TimestampPut[i] ELSE Checked(TimestampPut[i])]

TimeAlarmRequestPut(cmd) ==
    CASE cmd \in {"GetCapabilities", "GetRealTime"} -> <<>>
      [] cmd = "SetRealTime" -> TimestampPut
      [] cmd \in {"SetTimerValue", "SetExpiredTimerPolicy"} -> Dwords(2)
      [] OTHER -> Dwords(1)

TimeAlarmRequestGet(cmd) ==
    CASE cmd \in {"GetCapabilities", "GetRealTime"} -> <<>>
      [] cmd = "SetRealTime" -> TimestampGet
      [] cmd \in {"SetTimerValue", "SetExpiredTimerPolicy"} -> <<Checked(Dword(0)), Dword(4)>>
      [] OTHER -> <<Checked(Dword(0))>>

TimeAlarmResponsePut(answer) ==
    CASE answer = "RealTime" -> TimestampPut
      [] answer = "OkNoData" -> <<>>
      [] OTHER -> Dwords(1)

TimeAlarmResponseGet(answer) ==
    CASE answer = "RealTime" -> TimestampGet
      [] answer = "OkNoData" -> <<>>
      [] OTHER -> Dwords(1)

TimeAlarmError == [UnspecifiedFailure |-> 1]

TimeAlarmResponses(cmd) ==
    CASE cmd = "GetCapabilities" -> {"Capabilities"}
      [] cmd = "GetRealTime" -> {"RealTime"}
      [] cmd = "GetWakeStatus" -> {"TimerStatus"}
      [] cmd = "GetExpiredTimerPolicy" -> {"WakePolicy"}
      [] cmd = "GetTimerValue" -> {"TimerSeconds"}
      [] OTHER -> {"OkNoData"}

TimeAlarmErrors(cmd) ==
    IF cmd \in {"GetCapabilities", "GetWakeStatus", "ClearWakeStatus", "GetExpiredTimerPolicy"}
    THEN {} ELSE {"UnspecifiedFailure"}

-----------------------------------------------------------------------------
\* debug-service-messages

DebugCmd == [GetMsgs |-> 1]

DebugRequestPut(cmd)  == <<>>
DebugRequestGet(cmd)  == <<>>
DebugResponsePut(cmd) == <<Field(0, 128)>>
DebugResponseGet(cmd) == <<Field(0, 128)>>

DebugError == [UnspecifiedFailure |-> 1]

-----------------------------------------------------------------------------
\* Which codec a message of a service is written and read with

Services == {"Battery", "Thermal", "TimeAlarm", "Debug"}

Requests(s) ==
    CASE s = "Battery" -> BatteryCmd [] s = "Thermal" -> ThermalCmd
      [] s = "TimeAlarm" -> TimeAlarmCmd [] s = "Debug" -> DebugCmd

Answers(s) == IF s = "TimeAlarm" THEN TimeAlarmAnswer ELSE Requests(s)

Errors(s) ==
    CASE s = "Battery" -> BatteryError [] s = "Thermal" -> ThermalError
      [] s = "TimeAlarm" -> TimeAlarmError [] s = "Debug" -> DebugError

RequestPut(s, name) ==
    CASE s = "Battery" -> BatteryRequestPut(name) [] s = "Thermal" -> ThermalRequestPut(name)
      [] s = "TimeAlarm" -> TimeAlarmRequestPut(name) [] s = "Debug" -> DebugRequestPut(name)

RequestGet(s, name) ==
    CASE s = "Battery" -> BatteryRequestGet(name) [] s = "Thermal" -> ThermalRequestGet(name)
      [] s = "TimeAlarm" -> TimeAlarmRequestGet(name) [] s = "Debug" -> DebugRequestGet(name)

AnswerPut(s, name) ==
    CASE s = "Battery" -> BatteryResponsePut(name) [] s = "Thermal" -> ThermalResponsePut(name)
      [] s = "TimeAlarm" -> TimeAlarmResponsePut(name) [] s = "Debug" -> DebugResponsePut(name)

AnswerGet(s, name) ==
    CASE s = "Battery" -> BatteryResponseGet(name) [] s = "Thermal" -> ThermalResponseGet(name)
      [] s = "TimeAlarm" -> TimeAlarmResponseGet(name) [] s = "Debug" -> DebugResponseGet(name)

\* The name a reader gives a discriminant, None when it has none for it.
NameOf(table, d) ==
    LET names == {n \in DOMAIN table : table[n] = d}
    IN  IF names = {} THEN None ELSE CHOOSE n \in names : TRUE

\* deserialize of an error: the debug service does not implement it, a response
\* is not read on its side.
ErrorRead(s, d) == IF s = "Debug" THEN None ELSE NameOf(Errors(s), d)

\* deserialize of a request: what a timer is set to is the rest of the buffer
\* after the timer's id, four bytes and no more.
RequestRead(s, name, bytes) ==
    IF s = "TimeAlarm" /\ name \in {"SetTimerValue", "SetExpiredTimerPolicy"} /\ Len(bytes) # 8
    THEN None
    ELSE Deserialize(RequestGet(s, name), bytes)

\* The results of a request: [error, name].
Results(s, cmd) ==
    LET ok(S)  == {[error |-> FALSE, name |-> n] : n \in S}
        err(S) == {[error |-> TRUE, name |-> n] : n \in S}
    IN  CASE s = "Battery"   -> ok(BatteryResponses(cmd)) \cup err(BatteryErrors(cmd))
          [] s = "Thermal"   -> ok(ThermalResponses(cmd)) \cup err(ThermalErrors(cmd))
          [] s = "TimeAlarm" -> ok(TimeAlarmResponses(cmd)) \cup err(TimeAlarmErrors(cmd))
          [] s = "Debug"     -> ok(DOMAIN DebugCmd) \cup err(DOMAIN DebugError)

=============================================================================
