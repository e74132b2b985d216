------------------------------ MODULE Battery -------------------------------
(***************************************************************************)
(* The battery service: a fuel gauge behind a lock, driven by a loop that  *)
(* initializes it, reads its static and dynamic data into two caches and   *)
(* recovers it, and ACPI queries that are answered from the caches.  The   *)
(* loop reads register after register, and between any two of them the     *)
(* battery may charge or discharge, go away, and come back as another one  *)
(* or in another capacity mode.  There is one registered gauge, battery 0. *)
(***************************************************************************)
EXTENDS Naturals

CONSTANTS
    None,
    Batteries,       \* the batteries that may be put in, by serial number
    Retries,         \* attempts at initialization and at recovery
    FailureLimit,    \* failed reads before the loop recovers the gauge
    Asked,           \* the queries a host makes
    MaxChanges       \* bound: changes of the hardware

VARIABLES
    hw,              \* the gauge: whether it answers, its battery, unit and level
    state,           \* InternalState
    static,          \* the static cache
    dynamic,         \* the dynamic cache
    driver,          \* the loop: where it is, the register it is at, its counters
    read,            \* the locals of the update that runs: what it has read
    query,           \* the query that waits for the lock, or None
    torn,            \* history: the hardware changed while the update read it
    swapped,         \* history: whether the battery is the one initialized
    changes

batteryVars == <<hw, state, static, dynamic, driver, read, query, torn, swapped, changes>>

States == {"NotPresent", "NotOperational", "Init", "Polling"}

\* Capacities come in the unit of the gauge's capacity mode: mA or centiwatts.
Capacity(unit, n) == [unit |-> unit, n |-> n]

\* StaticBatteryMsgs and DynamicBatteryMsgs, with the registers that answers are
\* made from; the design capacity and the full one tell which battery it is.  What
\* is not read yet is zero.
StaticDefault  == [design |-> Capacity("mA", 0), mode |-> "mA"]
DynamicDefault == [discharging |-> FALSE, rate |-> 0, full |-> Capacity("mA", 0),
                   remaining |-> Capacity("mA", 0), power |-> 0, torn |-> FALSE]

\* The registers, each of which is a transfer of its own, in the order in which a
\* call reads them; "store" is past the last.
Registers == {"design", "mode", "status", "current", "full", "remaining"}

FirstOf(at) ==
    CASE at = "init" -> "mode"
      [] at = "static" -> "design"
      [] at = "dynamic" -> "status"
      [] OTHER -> "store"

Follows(at, r) ==
    CASE at = "static" /\ r = "design" -> "mode"
      [] r = "status" -> "current"
      [] r = "current" -> "full"
      [] r = "full" -> "remaining"
      [] OTHER -> "store"

\* What a register says at this moment.
Value(r) ==
    CASE r = "design" -> Capacity(hw.unit, hw.battery)
      [] r = "mode" -> hw.unit
      [] r = "status" -> hw.level = 1
      [] r = "current" -> hw.level
      [] r = "full" -> Capacity(hw.unit, hw.battery)
      [] OTHER -> Capacity(hw.unit, hw.level)

NothingRead == [r \in Registers |-> None]

Registered(id) == id = 0

Queries == {"bct", "bix", "bma", "bmc", "bmd", "bms", "bpc", "bps", "bpt", "bst", "btm",
            "btp", "psr", "pif", "sta"}

Init ==
    /\ hw \in [answers : {TRUE}, battery : Batteries, unit : {"mA", "cW"}, level : {1}]
    /\ state = "NotPresent"
    /\ static = StaticDefault
    /\ dynamic = DynamicDefault
    /\ driver = [at |-> "init", up |-> TRUE, holds |-> FALSE, next |-> "mode",
                 tries |-> Retries, failures |-> 0]
    /\ read = NothingRead
    /\ query = None
    /\ torn = FALSE
    /\ swapped = "noticed"
    /\ changes = 0

-----------------------------------------------------------------------------
\* The transitions of State

IsPresent     == state # "NotPresent"
IsOperational == state \in {"Init", "Polling"}

OnInitialized == state' = "Init" /\ swapped' = "no"

OnStaticData(s) == /\ static' = s
                   /\ state' = IF IsOperational THEN "Polling" ELSE state

OnDynamicData(d) == dynamic' = d

OnTimeout == state' = IF IsPresent THEN "NotOperational" ELSE state

\* A gauge that was lost may be another one, so its static data is read again.
OnRecovered ==
    /\ state' = IF state = "NotOperational" THEN "Init" ELSE state
    /\ swapped' = IF state = "NotOperational" /\ swapped = "unnoticed" THEN "noticed" ELSE swapped

-----------------------------------------------------------------------------
\* The loop: run_app with init_state_machine and recover_state_machine

\* Bring-up holds the lock for all three steps, every other call for itself.
Lock ==
    /\ driver.at \in {"init", "static", "dynamic", "ping"}
    /\ ~driver.holds
    /\ driver' = [driver EXCEPT !.holds = TRUE]
    /\ UNCHANGED <<hw, state, static, dynamic, read, query, torn, swapped, changes>>

Goto(at) == [driver EXCEPT !.at = at, !.next = FirstOf(at)]
Give(at) == [driver EXCEPT !.at = at, !.next = FirstOf(at), !.holds = FALSE]

\* Another attempt from the start, or the loop ends.
Retry(from) == [Give(IF driver.tries = 1 THEN "dead" ELSE from) EXCEPT !.tries = @ - 1]

\* initialize, once it has read the mode: the capacity mode becomes milliamps.
Initialize ==
    /\ driver.holds /\ driver.at = "init" /\ driver.next = "store"
    /\ hw.answers
    /\ hw' = [hw EXCEPT !.unit = "mA"]
    /\ OnInitialized
    /\ driver' = Goto("static")
    /\ read' = NothingRead
    /\ UNCHANGED <<static, dynamic, query, torn, changes>>

\* ping
Ping ==
    /\ driver.holds /\ driver.at = "ping"
    /\ IF hw.answers THEN OnRecovered /\ driver' = Give("wait")
       ELSE driver' = Retry("ping") /\ UNCHANGED <<state, swapped>>
    /\ UNCHANGED <<hw, static, dynamic, read, query, torn, changes>>

\* One register of initialize, update_static_data or update_dynamic_data.
ReadRegister ==
    /\ driver.holds /\ driver.next # "store"
    /\ hw.answers
    /\ read' = [read EXCEPT ![driver.next] = Value(driver.next)]
    /\ torn' = (torn /\ driver.next # FirstOf(driver.at))
    /\ driver' = [driver EXCEPT !.next = Follows(driver.at, driver.next)]
    /\ UNCHANGED <<hw, state, static, dynamic, query, swapped, changes>>

\* update_static_data and update_dynamic_data, once all registers have been read.
UpdateStaticData ==
    /\ driver.holds /\ driver.at = "static" /\ driver.next = "store"
    /\ OnStaticData([design |-> read["design"], mode |-> read["mode"]])
    /\ driver' = IF driver.up THEN Goto("dynamic") ELSE Give("dynamic")
    /\ read' = NothingRead
    /\ UNCHANGED <<hw, dynamic, query, torn, swapped, changes>>

\* Mutant of UpdateDynamicData: the first two registers are stored under the
\* others of the last update.
UpdateDynamicDataHalf ==
    /\ driver.holds /\ driver.at = "dynamic" /\ driver.next = "full"
    /\ OnDynamicData([dynamic EXCEPT !.discharging = read["status"], !.rate = read["current"],
                                     !.torn = torn])
    /\ driver' = [Give("wait") EXCEPT !.up = FALSE]
    /\ read' = NothingRead
    /\ UNCHANGED <<hw, state, static, query, torn, swapped, changes>>

UpdateDynamicData ==
    /\ driver.holds /\ driver.at = "dynamic" /\ driver.next = "store"
    /\ OnDynamicData([discharging |-> read["status"], rate |-> read["current"],
                      full |-> read["full"], remaining |-> read["remaining"],
                      power |-> 100, torn |-> torn])
    /\ driver' = [Give("wait") EXCEPT !.up = FALSE]
    /\ read' = NothingRead
    /\ UNCHANGED <<hw, state, static, query, torn, swapped, changes>>

\* A transfer fails: the call returns, the caches stay as they are, and the driver
\* may take it for a timeout.
TransferFails(timeout) ==
    /\ driver.holds /\ driver.at \in {"init", "static", "dynamic"}
    /\ driver.next # "store" \/ driver.at = "init"
    /\ ~hw.answers
    /\ IF timeout THEN OnTimeout ELSE UNCHANGED state
    /\ driver' = IF driver.up THEN Retry("init")
                 ELSE [Give(IF driver.at = "static" THEN "dynamic" ELSE "wait")
                          EXCEPT !.failures = @ + 1]
    /\ read' = NothingRead
    /\ UNCHANGED <<hw, static, dynamic, query, torn, swapped, changes>>

\* A second later: recovery after too many failures, else static data, which is
\* read now and then, and dynamic data.
Wake(at) ==
    /\ driver.at = "wait"
    /\ IF driver.failures > FailureLimit
       THEN driver' = [Goto("ping") EXCEPT !.failures = 0, !.tries = Retries]
       ELSE driver' = Goto(at)
    /\ UNCHANGED <<hw, state, static, dynamic, read, query, torn, swapped, changes>>

-----------------------------------------------------------------------------
\* The queries

CapacityRaw(c) == c.n

ComputeBst(d) ==
    [state |-> IF d.discharging THEN "DISCHARGING" ELSE "CHARGING",
     remaining |-> CapacityRaw(d.remaining), rate |-> d.rate]

\* The strings keep one byte for the terminator, whatever their own length.
FixedString(len, size) == IF len < size THEN len - 1 ELSE size - 1

ComputeBix(s, d) ==
    [unit |-> IF s.mode = "cW" THEN "mW" ELSE "mA", design |-> CapacityRaw(s.design),
     full |-> CapacityRaw(d.full),
     model |-> FixedString(21, 8), serial |-> FixedString(4, 8), type |-> FixedString(5, 8),
     oem |-> FixedString(21, 8)]

\* What these tell of the battery are constants with this driver.
ComputeBps(d)    == [power |-> d.power]
ComputeBpc(s)    == [support |-> {}]
ComputeBmd(s, d) == [status |-> {}, capability |-> {}]

\* _BCT and _BTM echo what they are asked, _STA and the supply are constants,
\* and the others are accepted and forgotten.
Compute(kind) ==
    CASE kind = "bst" -> ComputeBst(dynamic)
      [] kind = "bix" -> ComputeBix(static, dynamic)
      [] kind = "bps" -> ComputeBps(dynamic)
      [] kind = "bpc" -> ComputeBpc(static)
      [] kind = "bmd" -> ComputeBmd(static, dynamic)
      [] kind \in {"bct", "btm"} -> [echo |-> 0]
      [] kind = "psr" -> [source |-> "Offline"]
      [] kind = "pif" -> [power |-> 0]
      [] kind = "sta" -> [flags |-> "all"]
      [] OTHER -> [ok |-> TRUE]

\* An id that is not registered is refused at once, and nothing changes; else the
\* query takes the lock, is answered with Compute(query) and gives it back.
Ask(kind, id) ==
    /\ Registered(id)
    /\ query = None
    /\ query' = kind
    /\ UNCHANGED <<hw, state, static, dynamic, driver, read, torn, swapped, changes>>

Answer ==
    /\ query # None
    /\ ~driver.holds
    /\ query' = None
    /\ UNCHANGED <<hw, state, static, dynamic, driver, read, torn, swapped, changes>>

\* The hardware (external): the battery charges or discharges, stops answering
\* or answers again; while it does not answer it may be exchanged, or lose its
\* capacity mode.
HwChange(h) ==
    /\ changes < MaxChanges
    /\ changes' = changes + 1
    /\ hw' = h
    /\ h # hw
    /\ LET other == h.battery # hw.battery \/ h.unit # hw.unit
       IN  /\ other => ~hw.answers
           /\ swapped' = IF ~other THEN swapped
                         ELSE IF IsOperational \/ swapped = "unnoticed" THEN "unnoticed"
                         ELSE "noticed"
    /\ torn' = TRUE
    /\ UNCHANGED <<state, static, dynamic, driver, read, query>>

Hardware == [answers : BOOLEAN, battery : Batteries, unit : {"mA", "cW"}, level : 1 .. 2]

Drive ==
    \/ Lock \/ Initialize \/ Ping \/ ReadRegister \/ UpdateStaticData \/ UpdateDynamicData
    \/ TransferFails(FALSE)
    \/ Wake("dynamic")

Next ==
    \/ Lock \/ Initialize \/ Ping \/ ReadRegister \/ UpdateStaticData \/ UpdateDynamicData
    \/ \E timeout \in BOOLEAN : TransferFails(timeout)
    \/ \E at \in {"static", "dynamic"} : Wake(at)
    \/ \E kind \in Asked, id \in 0 .. 1 : Ask(kind, id)
    \/ Answer
    \/ \E h \in Hardware : HwChange(h)

\* The loop goes on, and sleeps between its calls, so a query that waits for the
\* lock finds it free again and again.
Fairness ==
    /\ WF_batteryVars(Drive)
    /\ SF_batteryVars(Answer)

Spec == Init /\ [][Next]_batteryVars /\ Fairness

-----------------------------------------------------------------------------
TypeOK ==
    /\ state \in States
    /\ driver.at \in {"init", "static", "dynamic", "wait", "ping", "dead"}
    /\ driver.tries \in 0 .. Retries
    /\ driver.next \in Registers \cup {"store"}
    /\ swapped \in {"no", "noticed", "unnoticed"}
    /\ query \in Queries \cup {None}

\* The static cache of a gauge that is polled is that of the battery that is in,
\* in the unit it measures in, unless the battery was exchanged while the gauge
\* was taken to be operational, that is without a timeout in between.
PollingKnowsBattery ==
    (state = "Polling" /\ swapped # "unnoticed")
        => static = [design |-> Capacity(hw.unit, hw.battery), mode |-> hw.unit]

\* What a host is told at this moment.  The state, the rate and the capacity of
\* _BST are what the battery was at one moment, unless it changed while the
\* registers were read: an update that fails half-way, or that the query finds
\* going on, leaves no trace.  And as long as the battery is the one that was
\* brought up, _BIX is made of two caches of that battery, whose capacities are
\* all in the unit it names.
AnswersWhole ==
    ~driver.holds =>
        /\ LET bst == Compute("bst")
           IN  ~dynamic.torn =>
                  /\ bst.remaining = bst.rate
                  /\ bst.state = IF bst.rate = 1 THEN "DISCHARGING" ELSE "CHARGING"
        /\ LET bix == Compute("bix")
           IN  (swapped = "no" /\ ~driver.up) =>
                  /\ bix.design = hw.battery /\ bix.full = hw.battery
                  /\ \A c \in {static.design, dynamic.full, dynamic.remaining} : c.unit = bix.unit

\* The fuel gauge's states and caches (State::on_*) and what the service tells
\* the host of them agree, whatever fails while the gauge is read.
BatteryHonest ==
    /\ TypeOK
    /\ PollingKnowsBattery
    /\ AnswersWhole

\* Every query is answered, though it shares the gauge's lock with the loop.
QueriesAnswered == []<>(query = None)

=============================================================================
