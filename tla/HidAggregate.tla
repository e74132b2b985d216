---------------------------- MODULE HidAggregate ----------------------------
(***************************************************************************)
(* Several HID devices behind one transport (embedded-service relay/hid):  *)
(* the analysis of a report descriptor, the merging of the devices'        *)
(* descriptors with new report ids, the map between host and native ids,   *)
(* and the aggregate device of impl_hid_aggregate_device that routes by    *)
(* it.  A descriptor is a sequence of items; an item has its tag, its      *)
(* value and the bytes it takes.                                           *)
(***************************************************************************)
EXTENDS Naturals, Sequences

CONSTANTS
    Devices,         \* the number of devices
    Descriptors,     \* the descriptors a device may have
    ReportCount,     \* REPORT_COUNT: the host ids there is room for
    StackDepth,      \* MAX_PUSH_POP_STACK_DEPTH
    MaxBits,         \* u32::MAX: where sizes saturate
    None,            \* no id, no device
    MaxSteps         \* bound: operations on the aggregate

Owners == 1 .. Devices

Tags == {"ReportSize", "ReportCount", "ReportId", "Push", "Pop", "Input",
         "Output", "Feature", "Collection", "Other", "Long", "Truncated"}

Kinds == {"Input", "Output", "Feature"}

Smaller(a, b) == IF a < b THEN a ELSE b
Greater(a, b) == IF a > b THEN a ELSE b

-----------------------------------------------------------------------------
\* The analysis of a descriptor

Global0 == [size |-> 0, count |-> 0, id |-> 0]

Analysis0 ==
    [state |-> Global0, stack |-> <<>>, implicit |-> TRUE, error |-> "None",
     bits |-> [k \in Kinds |-> [i \in {} |-> 0]]]

\* The bits of one report of a kind so far.
BitsOf(bits, kind, id) ==
    IF id \in DOMAIN bits[kind] THEN bits[kind][id] ELSE 0

\* HidReportDescriptor::new, one item: global items change the state, which
\* push and pop save and restore; main items add a field to a report.
AnalyseItem(a, item) ==
    IF a.error # "None" THEN a ELSE
    CASE item.tag = "Truncated" -> [a EXCEPT !.error = "TruncatedItem"]
      [] item.tag = "ReportSize"  -> [a EXCEPT !.state.size = item.value]
      [] item.tag = "ReportCount" -> [a EXCEPT !.state.count = item.value]
      [] item.tag = "ReportId" ->
           IF item.bytes # 2 THEN [a EXCEPT !.error = "UnsupportedReportId"]
           ELSE [a EXCEPT !.state.id = item.value, !.implicit = FALSE]
      [] item.tag = "Push" ->
           IF Len(a.stack) = StackDepth
           THEN [a EXCEPT !.error = "PushPopStackOverflow"]
           ELSE [a EXCEPT !.stack = Append(@, a.state)]
      [] item.tag = "Pop" ->
           IF a.stack = <<>> THEN [a EXCEPT !.error = "UnbalancedPop"]
           ELSE [a EXCEPT !.stack = SubSeq(@, 1, Len(@) - 1), !.state = a.stack[Len(a.stack)]]
      [] item.tag \in Kinds ->
           [a EXCEPT !.bits[item.tag] =
              [i \in DOMAIN @ \cup {a.state.id} |->
                 IF i = a.state.id
                 THEN Smaller(MaxBits, BitsOf(a.bits, item.tag, i)
                                         + Smaller(MaxBits, a.state.size * a.state.count))
                 ELSE @[i]]]
      [] OTHER -> a

\* The analysis after each item, and after all of them.
Analyses(items) ==
    LET after[n \in 0 .. Len(items)] ==
            IF n = 0 THEN Analysis0 ELSE AnalyseItem(after[n - 1], items[n])
    IN  after
Analyse(items) == Analyses(items)[Len(items)]

\* max_report_sizes: the largest report of a kind, in whole bytes.
MaxReportBytes(a, kind) ==
    LET sizes == {BitsOf(a.bits, kind, i) : i \in DOMAIN a.bits[kind]} \cup {0}
    IN  ((CHOOSE n \in sizes : \A m \in sizes : m <= n) + 7) \div 8

BytesUpto(items) ==
    LET upto[n \in 0 .. Len(items)] == IF n = 0 THEN 0 ELSE upto[n - 1] + items[n].bytes
    IN  upto
Bytes(items) == BytesUpto(items)[Len(items)]

-----------------------------------------------------------------------------
\* Merging descriptors: ReportIdMapBuilder and ReportIdMap::combine

IdItem(id) == [tag |-> "ReportId", value |-> id, bytes |-> 2]
PushItem   == [tag |-> "Push", value |-> 0, bytes |-> 1]
PopItem    == [tag |-> "Pop", value |-> 0, bytes |-> 1]

\* remaps[h] is the native id behind host id h; starts[o] is the number of host
\* ids before those of device o.
Merge0 ==
    [remaps |-> <<>>, starts |-> <<>>, items |-> <<>>, inserted |-> FALSE,
     error |-> "None"]

\* The host id this device's native id has been given, or None.
Assigned(m, native) ==
    LET found == {h \in m.starts[Len(m.starts)] + 1 .. Len(m.remaps) : m.remaps[h] = native}
    IN  IF found = {} THEN None ELSE CHOOSE h \in found : \A g \in found : h <= g

\* Mutant of Assign: an id another device has used is taken for this one's.
AssignShared(m, native) ==
    LET found == {h \in 1 .. Len(m.remaps) : m.remaps[h] = native}
    IN  IF found # {} THEN [m EXCEPT !.items = Append(@, IdItem(CHOOSE h \in found : TRUE))]
        ELSE [m EXCEPT !.remaps = Append(@, native),
                       !.items = Append(@, IdItem(Len(m.remaps) + 1))]

\* assign and record: the id the device has, or the next free one.
Assign(m, native) ==
    LET id == Assigned(m, native)
    IN  IF id # None THEN [m EXCEPT !.items = Append(@, IdItem(id))]
        ELSE IF Len(m.remaps) = ReportCount
        THEN [m EXCEPT !.error = "TooManyReportIds"]
        ELSE [m EXCEPT !.remaps = Append(@, native),
                       !.items = Append(@, IdItem(Len(m.remaps) + 1))]

\* combine, one item of a device: report ids are replaced, the rest is copied;
\* a device without ids is given one after its first collection.
CopyItem(m, item, implicit) ==
    LET copied == [m EXCEPT !.items = Append(@, item)]
    IN  IF m.error # "None" THEN m ELSE
        CASE item.tag = "ReportId" -> Assign(m, item.value)
          [] item.tag = "Collection" /\ implicit /\ ~m.inserted ->
               LET with == IF Len(m.remaps) = ReportCount
                           THEN [copied EXCEPT !.error = "TooManyReportIds"]
                           ELSE [copied EXCEPT !.remaps = Append(@, 0),
                                               !.items = Append(@, IdItem(Len(m.remaps) + 1))]
               IN  [with EXCEPT !.inserted = TRUE]
          [] OTHER -> copied

\* combine, one device: framed by a push and a pop of the global state.
Begun(m) == [m EXCEPT !.starts = Append(@, Len(m.remaps)),
                      !.items = Append(@, PushItem),
                      !.inserted = FALSE]

Copies(m, d) ==
    LET after[n \in 0 .. Len(d)] ==
            IF n = 0 THEN Begun(m) ELSE CopyItem(after[n - 1], d[n], Analyse(d).implicit)
    IN  after

MergeDevice(m, d) == [Copies(m, d)[Len(d)] EXCEPT !.items = Append(@, PopItem)]

\* The bytes combine asks for before it starts: four more than each device has.
ExpectedUpto(ds) ==
    LET upto[o \in 0 .. Devices] == IF o = 0 THEN 0 ELSE upto[o - 1] + Bytes(ds[o]) + 4
    IN  upto
Expected(ds) == ExpectedUpto(ds)[Devices]

Combined(ds) ==
    LET after[o \in 0 .. Devices] ==
            IF o = 0 THEN Merge0 ELSE MergeDevice(after[o - 1], ds[o])
    IN  after
Combine(ds) == Combined(ds)[Devices]

-----------------------------------------------------------------------------
\* Routing: BlockBoundaries and ReportIdMap

\* owner_of: the last device whose block starts at or before the index.
OwnerOf(m, index) ==
    CHOOSE o \in Owners :
        /\ m.starts[o] <= index
        /\ \A p \in Owners : p > o => m.starts[p] > index

\* route: a host id to a device and its own id.
Route(m, host) ==
    IF host \in 1 .. Len(m.remaps)
    THEN [owner |-> OwnerOf(m, host - 1), native |-> m.remaps[host]]
    ELSE [owner |-> None, native |-> None]

\* host_id: back again, within the device's block.
HostId(m, owner, native) ==
    LET end   == IF owner = Devices THEN Len(m.remaps) ELSE m.starts[owner + 1]
        found == {h \in m.starts[owner] + 1 .. end : m.remaps[h] = native}
    IN  IF found = {} THEN None ELSE CHOOSE h \in found : \A g \in found : h <= g

-----------------------------------------------------------------------------
\* The aggregate device

VARIABLES
    descs,           \* the devices' descriptors
    map,             \* ReportIdMap and the merged descriptor
    pending,         \* per device: its input reports, by native id
    power,           \* per device: the power state it was told
    reached,         \* the device and id the last get or set was for
    asked,           \* the host id it was asked with
    received,        \* history: the host's reports, as host id and true device
    resetting,       \* the aggregate asks its transport for a reset
    steps

aggVars == <<descs, map, pending, power, reached, asked, received, resetting, steps>>

\* The ids a device declares: the ones its reports carry.
NativeIds(d) ==
    IF Analyse(d).implicit THEN {0}
    ELSE {d[i].value : i \in {j \in 1 .. Len(d) : d[j].tag = "ReportId"}}

Nowhere == [owner |-> None, native |-> None]

Init ==
    /\ descs \in [Owners -> {d \in Descriptors : Analyse(d).error = "None"}]
    /\ map = Combine(descs)
    /\ pending = [o \in Owners |-> <<>>]
    /\ power = [o \in Owners |-> "On"]
    /\ reached = Nowhere
    /\ asked = None
    /\ received = <<>>
    /\ resetting = FALSE
    /\ steps = 0

\* The aggregate exists only if the merge and its own analysis succeed.
Built == map.error = "None" /\ Analyse(map.items).error = "None"

Step ==
    /\ Built
    /\ steps < MaxSteps
    /\ steps' = steps + 1

\* process_get_report, set_report: routed to the device, under its own id; an
\* id no device has asks for a reset.
Access(host) ==
    /\ Step
    /\ asked' = host
    /\ reached' = Route(map, host)
    /\ resetting' = (Route(map, host) = Nowhere)
    /\ UNCHANGED <<descs, map, pending, power, received>>

\* A device has an input report with one of its ids.
DeviceReports(o, id) ==
    /\ Step
    /\ pending' = [pending EXCEPT ![o] = Append(@, id)]
    /\ UNCHANGED <<descs, map, power, reached, asked, received, resetting>>

HasPending(o) == pending[o] # <<>>

\* process_next_input_report: the first device that has one; the report goes out
\* under the host's id.
ProcessNext ==
    \E o \in Owners :
        LET native == Head(pending[o])
            host   == HostId(map, o, native)
        IN  /\ HasPending(o)
            /\ \A p \in Owners : p < o => ~HasPending(p)
            /\ pending' = [pending EXCEPT ![o] = Tail(@)]
            /\ received' = Append(received,
                  [id |-> IF host = None THEN native ELSE host,
                   owner |-> o, native |-> native])
            /\ UNCHANGED <<descs, map, power, reached, asked, resetting, steps>>

\* set_power_state: in order, up to the first device that fails.
SetPowerState(p, last) ==
    /\ Step
    /\ power' = [o \in Owners |-> IF o <= last THEN p ELSE power[o]]
    /\ UNCHANGED <<descs, map, pending, reached, asked, received, resetting>>

Reset ==
    /\ Step
    /\ pending' = [o \in Owners |-> <<>>]
    /\ resetting' = FALSE
    /\ UNCHANGED <<descs, map, power, reached, asked, received>>

Next ==
    \/ \E h \in 0 .. ReportCount + 1 : Access(h)
    \/ \E o \in Owners : \E id \in NativeIds(descs[o]) : DeviceReports(o, id)
    \/ ProcessNext
    \/ \E l \in Owners : SetPowerState("Sleep", l)
    \/ Reset

Spec == Init /\ [][Next]_aggVars /\ WF_aggVars(ProcessNext)

-----------------------------------------------------------------------------

TypeOK ==
    /\ Len(map.remaps) <= ReportCount
    /\ steps \in 0 .. MaxSteps
    /\ resetting \in BOOLEAN

\* A device the host can address: it declares ids, or has a collection for the id it
\* is given.
Addressed(d) == Analyse(d).implicit => \E i \in 1 .. Len(d) : d[i].tag = "Collection"

\* A descriptor a merge can take apart: pushes and pops balance, and every field
\* comes under an id, or after a first collection outside of any push.
WellFormed(d) ==
    /\ Analyse(d).stack = <<>>
    /\ IF Analyse(d).implicit
       THEN \E j \in 1 .. Len(d) :
               /\ d[j].tag = "Collection" /\ Analyses(d)[j - 1].stack = <<>>
               /\ \A i \in 1 .. j - 1 : d[i].tag \notin Kinds \cup {"Collection"}
       ELSE \A i \in 1 .. Len(d) : d[i].tag \in Kinds => Analyses(d)[i - 1].state.id # 0

\* The two maps are inverse: a host id leads to one device and one of its ids,
\* and that id of that device leads back; every id a device declares has one.
RoutesInverse ==
    /\ \A h \in 1 .. Len(map.remaps) :
          LET r == Route(map, h) IN HostId(map, r.owner, r.native) = h
    /\ \A o \in Owners : Addressed(descs[o]) =>
          \A id \in NativeIds(descs[o]) :
              Route(map, HostId(map, o, id)) = [owner |-> o, native |-> id]

\* Merging keeps the reports: the merged descriptor's largest report of each
\* kind is the largest of the devices', so buffers sized by the devices fit.
SizesKept ==
    (\A o \in Owners : WellFormed(descs[o])) =>
        \A k \in Kinds :
            LET sizes == {MaxReportBytes(Analyse(descs[o]), k) : o \in Owners}
            IN  /\ \A n \in sizes : n <= MaxReportBytes(Analyse(map.items), k)
                /\ MaxReportBytes(Analyse(map.items), k) \in sizes

\* The buffer combine asks for is enough for what it writes.
FitsExpected == Bytes(map.items) <= Expected(descs)

\* The host can tell from the id whose report it got.
Attributed ==
    \A i \in 1 .. Len(received) : Addressed(descs[received[i].owner]) =>
        Route(map, received[i].id)
            = [owner |-> received[i].owner, native |-> received[i].native]

\* A get or a set reaches the device the id was given to, or asks for a reset.
AccessesRight ==
    asked # None =>
        IF reached = Nowhere THEN asked \notin 1 .. Len(map.remaps)
        ELSE HostId(map, reached.owner, reached.native) = asked

\* The map does not change once it is built: what is said of it alone is
\* checked before the first operation.
AggregateHonest ==
    /\ TypeOK
    /\ Built /\ steps = 0 => RoutesInverse /\ SizesKept /\ FitsExpected
    /\ Built => Attributed /\ AccessesRight

=============================================================================
