# Verification of embedded-services

TLA+ models of the services in this repository (`no_std` Rust services for an
embedded controller: power policy, USB Type-C, time and alarm, firmware update,
thermal, battery, keyboard and power button, HID and MCTP towards the host, storage
partitions, and the IPC primitives underneath), checked with TLC on small instances, and
theorems about them proved with TLAPS for every value of the constants.

All services run as async tasks. On a Cortex-M target there is one executor:
tasks interleave at `.await` points. Most hazards of this code are therefore not
data races but *stale reads across an await*: state read under one lock and used
under the next, events sent with `try_send` on channels that may be full, signals
that hold one value, timers that race with the answer they guard against, and
errors returned with `?` half-way through an operation. The models keep the
locks, channels, early returns and error paths, and the awaits at which another
task can change what the handler uses; awaits between which nothing of that kind
can happen are one step (section 2), and section 6 lists where a model is coarser
than that. They abstract the data: a power contract is a record of three
numbers, a firmware block a number, a port status the few fields the code compares.

Run from this directory:

    tlc -workers 2 -config PowerPolicyConsumers.cfg MCPowerPolicy
    tlapm PowerPolicyProofs.tla

`PROJECT.json` lists the components, the runs, the source lines of every
definition (`map`), the mutants that show that every property can fail, the
hazards the properties are aimed at, and the theorems.

## 1. Inventory

### Power policy (`power-policy-service`, `power-policy-interface`)

*State.* Per power supply unit (PSU, for example a Type-C port or a barrel jack)
a `psu::State` (Detached, Idle, ConnectedConsumer, ConnectedProvider, with the
consumer capability it offers and the provider capability it asks for) behind
its own mutex; per charger a `charger::State` behind its own mutex; in the
service the current consumer, the connected providers, the provider power state
(Unlimited or Limited) and the unconstrained state.

*Operations.* Drivers attach, detach, disconnect and update a PSU and send an
event with `try_send`. `psu_task` takes one event at a time and runs
`process_psu_event` to its end: select the best consumer, disconnect the current
one, detach the chargers, announce, connect the new one, attach the chargers,
announce, update the unconstrained state; or remove a provider; or sum the power
of all providers and grant a provider request.

*Hard.* The handler locks one PSU after the other while drivers go on changing
them; events are lost when a channel is full; every call into a driver can fail
and return early.

*Correct means.* At most one PSU consumes. Listeners know what the service
believes. When everything is handled, the consumer is the best offer. Equal
offers do not make it flap. A charger is never programmed for a consumer that is
gone. The power granted is bounded. Handlers return.

### Type-C (`type-c-service`, `type-c-interface`)

*Port* (`controller/`). State: the cached port status, the PSU state the policy
sees, the sink-ready deadline (shared with the event receiver), the event being
streamed. The PD controller raises interrupts; `EventReceiver::wait_event` selects
between interrupts, the deadline and a loopback channel; `process_port_event`
reads the controller's status, compares it with the cached one and handles plug,
contract, sink-ready, role-swap and reset bits. The power policy and
`set_max_sink_voltage` call the port between two events. *Hard:* interrupts are
handled late, so the status read is often newer than the interrupt; the deadline
may be armed while the receiver sleeps without one. *Correct means:* every
negotiated sink contract is offered to the policy, the cached status converges,
no deadline is missed.

*Service* (`service/`). State: the UCSI PPM (a library state machine), the
notifications enabled by the OS (OPM), the queue of ports with a pending
connector change, the ports whose charging status is valid. Operations: port
events, power policy events, and the UCSI commands of the OPM. *Hard:* only the
first pending port is announced; the others depend on the chain of
acknowledgements; commands and port events interleave freely. *Correct means:*
no connector change is dropped, stuck or left unread.

*Unconstrained power.* The policy goes to the best source, counts the
unconstrained ones and broadcasts the result when it changed; the Type-C service
derives from it and from the ports' cached statuses, port by port, which port may
claim to be unconstrained. Sources change between any two of these steps.

### Time and alarm (`time-alarm-service`)

Two ACPI wake timers (AC and DC), each with a wake state (Clear, Armed,
PowerSource, PolicyDelay, Orphaned), a stored expiration time and policy (in
NVRAM), and a one-value `Signal` to the task that sleeps for it. Host calls, power
source changes, clock changes and restarts interleave with the sleep. *Correct means:* the right timer is active, no alarm is late or lost
because a signal was overwritten, policy NEVER is honoured, and an alarm goes off.

### Firmware update (`cfu-service`)

*Updater* (`basic/`): Idle, InProgress and Recovery, with a recovery tick; the
device may fail at every operation. *Buffer* (`buffer.rs`): queues content blocks
for a component that is slow, with a timeout on each block and a busy flag.
*Splitter* (`splitter.rs`): passes a request on to several devices at once and
joins the answers. *Components* (`component.rs`, `lib.rs`): the default component
and the routing of requests through two plain channels per device.
*Correct means:* an idle updater has a device that runs its normal firmware; a
stalled update ends; blocks arrive once and in order; success means success
everywhere; every request is answered.

### IPC (`embedded-service`)

*Deferred channel* (`ipc/deferred.rs`): a request/response channel out of a mutex,
two signals and an invocation id. *Shared buffers* (`buffer.rs`): dynamic borrow
checking. *Comms* (`comms.rs`, `intrusive_list.rs`): endpoints on intrusive lists
and messages routed along them. *Correct means:* a caller gets the response to its
own invocation, which was carried out once; mutable access is exclusive and in
bounds; lists stay intact and a message reaches each registered endpoint once.

### Devices (`thermal-service`, `battery-service`, `keyboard-service`, `power-button-service`)

*Sensor.* A task samples a temperature with retries, keeps a ring of samples and reports
exceeded and cleared thresholds on a lossy channel; the host moves thresholds and
switches sampling on and off in between. *Fan.* Auto control, the sampling of the speed
and the host's commands share the driver behind a mutex; a state (Off, Min, Ramping, Max)
with hysteresis decides the speed. *Battery.* A loop initializes the gauge, reads static
and dynamic data register by register into caches, and recovers it, while the battery
charges, goes away or is exchanged; ACPI queries are
answered from the caches under the same lock. *Keyboard.* A runner scans the matrix,
drops scans that show a ghost, debounces, and publishes reports to a HID transport; the
host gates it with a power state. *Power button.* An integrating debouncer inside a press
timer with a timeout. *Correct means:* the listener knows on which side of a threshold
the temperature is; sampling is never off without a word; the fan settles at a speed
that fits; an answer about the battery is of one moment and of one battery; no keystroke is lost,
doubled or invented; one press makes one message.

### Host communication (`hidi2c-target-service`, `hid-service`, `relay`, `mctp-rs`, `espi-service`, `uart-service`, `debug-service`)

*HID target.* A runner selects between bus requests, input reports of the device and a
reset, and parses what the host writes; every transfer may time out half-way. *Aggregate.*
The report descriptors of several devices are merged with new report ids. *Passthrough.*
A host task and device tasks exchange requests and responses by signals; an interrupt task
passes the device's line on. *MCTP.* Messages are cut into packets with a sequence number,
tag and check, for a serial line with byte stuffing or for SMBus over eSPI, and assembled by
a context that accepts one message at a time. *Relays and transports.* A request is read,
parsed, dispatched to a service, and its result queued and sent packet by packet; on eSPI the
bus raises events between two packets. *Debug.* Log events become frames in a ring; a task
stages one, and a host that polls gets it through a pair of signals. *Correct means:* reports in order,
once, after the reset that precedes them; ids map both ways; the host is told what it
asked; an assembled message is one that was sent; results come whole and in order.

### Storage (`partition-manager`)

A manifest is checked when the program is compiled, and becomes a map of partitions that
share one device behind a mutex. *Correct means:* a request reaches the bytes asked for,
inside its partition and in no other.

### Interactions

    PD controller --interrupts--> Type-C port --psu events--> power policy --> chargers
                                   |   ^   ^                       |
                         port events   |   +-- connect/disconnect -+
                                   v   |                           | broadcasts
                              Type-C service <---------------------+
                                   |  UCSI
                                   v
                                  OPM (host)

The Type-C port appears twice: as itself (`TypeCPort`), and as the driver of a PSU
in `PowerPolicy`, where only its effect on `psu::State` and its events remain. The
two are joined at `psu::State` (module `Psu`), which both extend.

The device services are reached from the host through the relays, which a transport feeds:

    host --I2C--> HID target --> aggregate --> keyboard
    host --UART or eSPI--> transport --MCTP--> relay --> battery, thermal, time alarm, debug

### Not modelled

- `platform-service`, `odp-service-common`, `examples`: register access of one chip family,
  a trait that spawns services, and demonstrations. (Drivers that only an example
  implements are modelled from it and mapped to it: the charger, the battery loop, the CFU devices.)
- `broadcaster`, `event`, `activity`, `sync`, `named`, `init`, `fmt`, `lib` of
  `embedded-service`: traits, constructors and one-line wrappers. Their lossy channels are
  part of the models that use them.
- `cfu-service/src/host.rs` and `task.rs` (stubs that return Ok), all mocks, the parsing of
  macro input and manifests, and code generated at compile time.
- In modelled components: the bytes of the HID device descriptor, key codes, defmt and RTT,
  vendor and alternate-mode commands of the Type-C controller, dates of the time alarm,
  an attention pin that fails, and fields of messages that nothing depends on.

## 2. Modules

| Module | Code | What it holds |
|---|---|---|
| `Psu` | `power-policy-interface/src/psu` | `psu::State` and its transitions, as operators |
| `Charger` | `power-policy-interface/src/charger` | `charger::State` and its transitions |
| `PowerPolicy` | `power-policy-service/src/service` | drivers, channels, chargers, and the policy task step by step |
| `ConsumerSelection` | - | abstract specification: one announced consumer at a time, started while unbeaten, stopped when not |
| `PowerPolicyProofs` | - | all safety properties of the policy, and that it implements `ConsumerSelection` |
| `TypeCPort`, `TypeCPortProofs` | `type-c-service/src/controller`, `lib.rs` | a port, its event receiver and streamer |
| `TypeCService`, `TypeCServiceProofs` | `type-c-service/src/service` | port events, UCSI commands and notifications |
| `Unconstrained` | `consumer.rs`, `service/power.rs` | policy and Type-C service agreeing on the flags (proofs in `TypeCPortProofs`) |
| `TimeAlarm`, `TimeAlarmProofs` | `time-alarm-service/src` | both timers, their tasks, power source, restarts |
| `Cfu` | `cfu-service/src/component.rs` | request and response kinds, device channels |
| `CfuUpdater` | `cfu-service/src/basic` | the updater with its recovery tick |
| `CfuBuffer` | `cfu-service/src/buffer.rs` | host, buffer and component |
| `CfuSplitter` | `cfu-service/src/splitter.rs` | host, splitter and devices |
| `CfuProofs` | - | proofs about the updater, the buffer and the splitter |
| `CfuComponent` | `cfu-service/src/component.rs`, `lib.rs` | clients, a primary component and its sub-components |
| `RemoteCall` | - | abstract specification of a call: invoked, carried out once, returned or given up |
| `DeferredChannel` | `embedded-service/src/ipc/deferred.rs` | callers and receivers of a deferred channel |
| `SharedBuffer` | `embedded-service/src/buffer.rs` | borrows, slices and guards |
| `IpcProofs` | - | proofs about the deferred channel, shared buffers, comms, the HID passthrough and partitions |
| `Comms` | `embedded-service/src/comms.rs`, `intrusive_list.rs` | registration and routing |
| `ThermalSensor`, `ThermalFan` | `thermal-service/src` | sampling and thresholds; auto control against the host |
| `PowerButton` | `power-button-service/src` | debouncer and press timer |
| `Keyboard` | `keyboard-service/src` | scan, ghosts, channel, power gate, LEDs |
| `Battery` | `battery-service*/src`, the loop of the examples | gauge states, caches, ACPI answers |
| `DevicesProofs` | - | proofs about the sensor, the fan, the button, the keyboard and the gauge |
| `HidTarget` | `hidi2c-target-service/src` | the runner, its host and its device |
| `HidAggregate` | `embedded-service/src/relay/hid.rs` | descriptors, id maps, routing |
| `HidCommand`, `HidPassthrough` | `embedded-service/src/hid`, `hid-service/src` | command coding; host, device and interrupt tasks |
| `MctpWire`, `Mctp` | `mctp-rs/src` | bytes on the wire; two endpoints and a faulty link |
| `RelayMessages` | `relay/mctp.rs`, the `-relay` crates, `debug-service-messages` | headers and layouts of relayed messages |
| `HostLink` | `espi-service/src`, `uart-service/src` | requests and results over a transport |
| `DebugLog` | `debug-service/src` | ring, staging buffer and signals |
| `HostProofs` | - | proofs about the HID target, the debug log, transports, relay messages and the HID aggregate |
| `PartitionManager` | `partition-manager` | manifest checks and accesses |
| `MC...` | - | what a run checks together; the `.cfg` gives the constants their values |

A step of a model is what the code does between two points where another task
can run: under one lock, or up to the next `.await` that can suspend. In
`PowerPolicy` the control point is `pc` and the handler's locals are `dev`,
`reason`, `idx`, `best`, `prev`, `request`, `total` and `held` (the PSU whose lock
guard is still alive). In `TypeCPort` it is `rx`; in the CFU modules `pc`, `cur` and
`fut`; in `TimeAlarm` the `at` field of a task. Where a handler is a single step
(CFU updater, Type-C service, port events) the handler runs under the lock of its
component and no other task reads or writes that state while it is held.

Variables that only properties read are history: in `PowerPolicy` `told`,
`toldProviders` and `note` (what listeners heard), `seen`, `missed`, `lost`,
`settled` and `orphan`; in `TypeCService` `seen`, `reading`, `raced` and the overflow
flags; in `TimeAlarm` `orphan`, `undead` and `clockSet`. The newer modules mark theirs
`history` where they are declared.

Bytes appear only where a property is about them. `MctpWire` keeps them (stuffing, checks
and lengths are what it is for); `HidCommand` and `RelayMessages` keep fields with their width
and place, so that an overlap, a wrong width or a wrong bound shows, and not the bytes in them.

`MCTypeCPort`, `MCCfu`, `MCIpc` and `MCDevices` check several modules in one run. These share no
state; a variable `unit`, chosen in the initial state and never changed, says which
of them runs, so that the states explored are the sum, not the product, of the
parts. The properties of a module that is not selected hold in its initial state.

## 3. Runs

Deadlock is checked in `alarm`. The other runs end when their bounds are
used up, which is not a deadlock of the system, so they set `CHECK_DEADLOCK FALSE`;
what must not stop is stated as a liveness property instead.

| Run | Shows | Bounds |
|---|---|---|
| `policy_consumers` | one consumer at a time; listeners agree; the best offer and the right unconstrained state once drained; chargers follow; the service implements `ConsumerSelection`, so it does not flap between equal offers | 2 PSUs, 1 charger, channels of 2, three contracts two of which have the same power, 5 driver operations, 1 failing call |
| `policy_providers` | providers tracked, granted power bounded, every handler returns and the channels drain | 2 PSUs in both roles, 1 charger, 3 provider contracts, 5 operations, 1 failure |
| `port` | sink contracts offered, cached status converges, a pending deadline settled; flags follow the sources | 1 port, 5 of controller activity, calls and failures together, loopback and service channels of 1; 2 ports and a barrel jack, 3 offers (too little power, some that is unconstrained, more that is not), 3 changes and failures together |
| `ucsi` | pending ports announced and served, the queue never too short; only racing changes lost | 2 ports, an OPM that may send any command, but acknowledges a connector change only right after it read a connector it was told of, 5 of changes, policy events and failures together |
| `alarm` | states match the source, never late, NEVER is never, alarms go off | 2 timers, times 0..2, clock width 4, 5 calls, 1 clock failure |
| `cfu` | idle is normal, no early timeout, updates end; blocks in order, none lost; joins leave nothing behind; answers in kind; every request answered | 6 requests; 4 blocks and 2 others into a buffer of 2; 3 devices, 2 requests; 3 components, 2 clients, 2 calls each |
| `devices` | sensor, fan, button, keyboard and battery, each on its own: see `DevicesSettle` and the five `...Honest` properties | 5 temperatures, 3 host changes for the sensor and 2 for the fan, 2 retries; debounce of 3 samples, timeout of 8; 2x2 keys, 4 changes, reports channel of 2; gauge with 2 batteries, 2 retries, recovery after the first failed read, 3 changes of the hardware |
| `ipc` | the deferred channel implements `RemoteCall`; borrows and partitions exclusive and in bounds; endpoint lists intact; HID target, aggregate and passthrough; MCTP; relays and transports; debug log | 3 callers, 2 receivers, 4 invocations; 3 users of a buffer of 3; 4 endpoints on 2 lists, 1 message; 2 reports, 2 requests of 500 shapes, 1 reset; 2 HID devices of 12 descriptors each; 2 passthrough requests, 1 fault; 5 MCTP messages of 1 or 2 packets, 1 fault; 3 frames, queue of 2, 1 fault; 3 log events, 3 polls; 48 manifests, 8 addresses |

Why these are enough: the interesting cases need two supplies (a current one and
a better, equal or vanishing one), a channel that can overflow (two events), one
failure at every place, and enough operations to attach, offer, disturb and offer
again (5). Two ports are enough for a queue of pending ports to have a second
element. Six requests cover offer, first, middle and last block, an abort and the
next update. Three frames let a second request arrive between the packets of a response and
a third find the queue full. One fault on an MCTP link is enough to lose, repeat or corrupt
any packet of a two-packet message; eight addresses let every sum of a partition's offset and size wrap. Every bound is the largest with which the run still ends in two to
three minutes on two cores. What the proofs cover (section 5) does not depend on them.

Four runs expect a violation; each finding in `PROJECT.json` quotes the comment
that the code contradicts:

- `policy_kept_consumer`: a PSU that is torn down by a role swap or hard reset and
  negotiates the same contract again before the policy handles the event stays
  Idle. The recorded consumer is compared by device and capability only.
- `port_no_ready`: with a controller that does not raise sink-ready, a contract
  that an earlier event (such as the plug event) already cached never starts the
  timeout and is never offered.
- `cfu_buffer_full`: a full content buffer blocks the only task that could empty it.
- `mctp_many_packets`: a message of three packets over a perfect link is refused. The
  sequence number is compared with that of the first packet, which assembly never advances.

## 4. Fairness

- `PowerPolicy`: weak fairness of the policy task. The executor polls a task
  whenever it is woken, and a lock is free again after a driver's step.
- `TypeCPort`: weak fairness of the receiver and the handler of the port; a timer
  that is due fires. The controller and the callers are not fair.
- `TypeCService`: weak fairness of the service's tasks, of the ports' reports, and of
  an OPM that follows its notifications up (reads the connector and acknowledges
  it); it may still reset the PPM or issue any other command at any time.
- `TimeAlarm`: time goes on, and the service's tasks run. A tick waits until signals
  have been taken: the executor runs a woken task long before a second is over.
- `CfuUpdater`: the task, the host and the tick. Strong fairness of a successful
  abort: a device that is aborted again and again gives way once. Without it
  recovery goes on for ever, which is what the code intends.
- `CfuBuffer`, `CfuSplitter`, `CfuComponent`: all tasks, and a component or device that
  answers what it took. A device that is not registered answers nothing.
- `DeferredChannel`: one receiver that answers what it received, and callers that poll.
  Nothing forces a caller to give up.
- `ThermalSensor`, `ThermalFan`, `PowerButton`, `Keyboard`, `Battery`: the service's tasks run and the
  host side takes what it is sent. Strong fairness where a mutex is taken in turns: of auto
  control's lock of the fan driver and of a battery query, since embassy's mutex wakes its
  waiters and no holder takes it twice without an await in between.
- `HidTarget`: the runner goes on; a host whose interrupt is asserted again and again reads some time,
  and a transfer that is tried again and again completes some time (strong). Everything else of
  the host is unfair: it may stall, reset and write malformed requests.
- `HidPassthrough`: host, device and interrupt tasks. A transfer that fails stays failed.
- `HostLink`, `DebugLog`: the transport, the relay handler and the tasks behind it.
- `Comms`: `init` is called, registrations and walks go on. Strong fairness of the start
  of a message, which waits for `init`.

## 5. What is proved

The proofs hold for every value of the constants that the named assumptions allow:
any number of PSUs, chargers, ports, devices, callers and receivers, any capacities,
contracts, temperatures, thresholds and timeouts, and any interleaving and failure. Each
rests on an inductive invariant, stronger than the property; what it adds, and why, is said
with the theorem. Every safety property of the runs is proved except one of `MCIpc`, named
at the end.

**`PowerPolicyProofs`** (from `PowerPolicyAssumption`)

- `TypeCorrect`: `Spec => []TypeOK`. TypeOK alone is not inductive: a step such as
  `DropCurrent` uses `prev.psu`, which exists only because of where the handler is.
  `ControlInv` says what the locals are at each control point: when `best`,
  `prev`, `dev` and `request` are set, and which PSU is `held`. All that follow use it.
- `SingleConsumerHolds`, from `ConsumerInv`: a PSU that
  consumes and is not an orphan is the current consumer, or the one being dropped
  while its step has not yet run. A new consumer is connected only when no other is
  left.
- `ListenersAgreeHolds`, from `ListenerInv`: for each
  control point, what listeners have been told relative to `current`, `prev` and
  `best` as long as no call has failed.
- `TrackedProvideHolds`, from `TrackedInv`: a tracked provider that no longer provides
  has an event on its way, or the handler is at a step that takes it off the list.
- `ChargersFollowHolds`, from `ChargerInv`: for each control point, which chargers may
  still be programmed, and for whom; those not yet reached by a loop are told apart from
  those behind it.
- `PolicyImplementsSelection`: the refinement of `ConsumerSelection`, from `ListenerInv` and
  `BestInv`. `BestInv` says what `best` is half-way through the loop over the PSUs: the best of
  the offers read so far, as they were when read.
- `SelectionConvergedHolds`, from `BestInv`, `SeenInv`, `CountInv` and `ConvergedInv`: a PSU that
  changed after it was read has an event on its way, so an offer for which there is none was read as it is
  now (`SeenInv`); the count of unconstrained sources likewise.
- `ProviderPowerBoundedHolds`, from `GrantInv`: while `total` is being added up it is at least what
  the PSUs behind the loop draw and the request was checked against it, so that at most one provider
  at a time exceeds the limited contract. The total is a sum over all PSUs. What a sum does when one
  element grows or shrinks (`SumFacts`, `SumMonotone`, `SumSplit`) is proved from the least
  number for which it fails (`Least`), which takes the place of an induction over the PSUs.

**`TypeCPortProofs`**

- `StatusConvergedHolds`, `ContractOfferedHolds` from `PortInv`: as long as nothing was dropped or failed,
  a cached status that differs from the controller's has a status change still to be handled
  (in the interrupts, the stream or the event), and a contract not yet offered has a sink-ready behind
  every plug, reset or swap that could withdraw it.
- `FlagsFollowSourcesHolds` from `FlagsInv` (`FlagParams`: finitely many sources). It says which ports' flags a
  pass of the service over the ports has set already, that the pass knows the last broadcast or another one is in
  the channel, and that the policy has still to read or to count wherever its state is not that of the sources. While who is
  unconstrained is as it was when last published (`steady`) the port found by a pass is the one that is.

**`TypeCServiceProofs`**

- `PendingAnnouncedHolds` and, with as many slots as ports (`NumPorts <= MaxPorts`, which is what
  `MAX_SUPPORTED_PORTS` is for), `OnlyRacesLostHolds`. `ServiceInv` relates the queue of pending ports, the
  notification in flight and the state of the PPM; `RaceInv` follows one connector from its
  change over the OPM's read to the acknowledgement.

**`TimeAlarmProofs`**

- `StateMatchesSourceHolds`, `AlarmsKeptHolds` from `AlarmInv`, which relates the wake state of each
  timer to what its task sleeps for and to the value in its signal: the task is awake for the time that is
  stored, or a signal that says so is still to be taken.

**`CfuProofs`** (from the assumption on interval and timeout, and `BufferParams`)

- `IdleIsNormalHolds` and `TickArmedHolds`, from `UpdaterInv`: in each state of the
  updater, which device modes are possible, and whether a tick is armed.
- `NoEarlyTimeoutHolds`, an action property, from `ClockInv`: the time since the first block is at
  least the ticks counted and the part of the interval that has passed.
- `SplitterHonestHolds` (`MaxSplit` a number, `None` no request), from `SplitterInv`: for each device, where the request
  and its answer are relative to the splitter's join.
- `BufferHonestHolds`, from `BufferInv`: the blocks the component got, those in its
  channel, in the task's hand, in the buffer and in the host's channel are, in this order, the
  blocks the host sent; and the busy flag says whether an answer is outstanding.

**`IpcProofs`**

- `LockHolds`, `OnceHolds`: a waiting caller holds the lock and waits for the latest
  invocation; an invocation is received and responded to at most once.
- `ChannelImplementsRemoteCall`: the channel refines `RemoteCall`, from `ChannelInv`,
  which relates the command, the jobs of the receivers, the response signal and the
  invocations done. The refinement assumes that no request id comes round again
  (`IdCount` exceeds the number of invocations): with 2^32 ids this takes 2^32 calls
  while one receiver is still working.
- `BorrowsHonestHolds`, `SliceInsideHolds` (a size in Nat, finitely many users), from `BorrowInv`, which adds that
  every reference lies within the buffer.
- `EndpointsReachedHolds` (`CommsParams`: finitely many endpoints, and different ones for
  registrations that may interrupt each other), from `CommsInv`: there is a rank for every endpoint, higher
  the later it was registered, such that each list runs through its endpoints in falling order of rank. A walk has
  then met the endpoints above the one it is at, and those that are pushed while it is under way are above it too. That such a
  list ends, and meets each endpoint, is shown by counting: as many endpoints rank above the i-th as come before it (`WalkCounts`).

- `PassthroughHonestHolds` (`PassthroughAssumption`: one device is registered, since every device takes every
  request, and the host's messages are laid out as commands or are refused), from `PassInv`: the request is in the
  device's signal, in its hands or answered, in one of these places only; an answer is always the answer to what
  the host asked last; and a command in any of these places was read from a message. That a
  command is written to the device as it was read is a fact about its layout, proved for every
  opcode, report id and width of data.
- `BorrowsExactHolds` (a size in Nat, finitely many users, `StorageAssumption`), from `BorrowInv` and, for the partitions, `StorageInv`: once a
  consistent manifest is built, the partitions are the manifest's, and an access in hand ends as the partition with
  the held lock decides. What each kind of access then touches follows from the arithmetic of blocks and
  of the address space, lemma by lemma.

**`HostProofs`** (each proof about a unit of `MCIpc`)

- `HidHonestHolds` (`FramesAssumption`), from `TargetInv`: the reports the host has, the one being sent and those
  of the device follow each other in the order they were made (`TargetOrder`), each report made is in one of these
  places or was lost (`TargetKept`), and while a reset is to be acknowledged the pin is asserted
  and nothing is being sent that would release it (`ResetDue`).
- `RelayHonestHolds` (`LinkAssumption`, `CodecAssumption`, `DebugAssumption`), from `LinkInv` and `DebugInv`. `LinkInv`: the result
  being sent, the request in hand, the queued results and the frames of the host are in rising order of
  their requests, and none of them is settled. `DebugInv`: the frames heard, answered, staged and in the
  ring are together the frames committed, and a waiting request stands in exactly one of three signals; without
  the second a late wake-up could answer twice.
- `CodecsAgreeHolds`: a reader gets back what the writer wrote, for each request and answer of the relays, and the number of
  each error stands for that error. The debug service's errors are exempt: `DebugError::deserialize` is not implemented
  and refuses every one (`debug-service-messages/src/lib.rs:116`).
- `AggregateHonestHolds` (`AggregateAssumption`: at least one device; ids, depths and sizes in Nat). The map does not change, so most of
  it is about `Combine`: the merged descriptor is analysed side by side with the devices' own.
  At item n of device o (`MidOK`) the host ids are laid out in one block per device with each native id once
  (`LaidOut`), all ids met so far have a host id, the bytes written stay within the sum so far, and the merged analysis
  has the bits of the devices' analyses under the host ids (`Agree`), their state but for the id, and their
  stack on top of the state before them (`Stacked`); `DoneOK` is what remains between two devices. Each
  item keeps this (`MidStep`), a push begins it and a pop ends it. `AggInv` then follows pending and delivered reports.

Recursive functions (`Analyses`, `Copies`, `Combined`, `BytesUpto`, a walk along a list, a sum over PSUs) are reasoned about without
an induction rule: `LeastOf` says that a set of numbers has a least one, and `Upwards`, that what holds at 0 and is kept
by each step holds up to n. That such a function exists at all, so that its defining equation may be
used, is shown by `RunExists`.

**`DevicesProofs`**

- `SensorHonestHolds` (`SensorParams`: a hysteresis that is not negative and room for a sample), from `SensorInv`: the
  last event on its way about a threshold, or what the listener was told if there is none, says what the
  runner's flag says, unless an event about it was dropped; and the flag fits the newest sample.
- `FanObeysAnySpeed` and `SpeedObeysHolds` (the second for a host that asks for no more than the highest
  speed, which the code does not check), from `FanInv`: what the decision that waits for the driver will set.
- `ButtonHonestHolds`, from `ButtonInv`, which relates the debouncer's counter to the samples counted.
- `KeyboardHonestHolds` (`KeyParams`: a finite matrix, errors that are no key sets), from `KeyInv`: the reports
  between debouncer and host, in whichever of publisher, channel and transport they are, are the ones the host
  has not seen, in order. That deghosting is right needs a lemma about matrices: where
  `has_ghost` finds nothing, current flows through no key that is not pressed.
- `BatteryHonestHolds` (`GaugeParams`: at least one attempt), from `GaugeInv`: for each place of the loop, what
  its counters and locals may be (`LoopInv`), what the registers read so far say of the hardware (`ReadInv`) and what the caches do
  (`CacheInv`). That a polled gauge has the static data of its battery rests on these: the state becomes Polling with the
  last register, which must be of the same battery as the first.

*Only model-checked.* Liveness, which is out of the reach of the prover, and of the safety
properties `MctpHonest` (`Mctp`, `MctpWire`): it is a statement about the messages of the script and the places at which
the link corrupts a byte. For all messages and all corruptions it is false, since an 8 or 16 bit checksum cannot
notice every change, so that there is no theorem to prove without naming the bytes. `CfuComponent` has liveness properties only.

## 6. Limits of the models, and observations

*Abstractions a reader should know of.*

- `PowerPolicy`: every driver operation is a step of its own and drivers may do them in
  any order, which is a superset of what a Type-C port does. `SingleConsumer` exempts
  PSUs the policy itself left consuming (`orphan`): one whose `disconnect` failed, and
  the last consumer, which `update_current_consumer` forgets without disconnecting it.
  Enabling a sink path is modelled by its outcome only. The delay before
  chargers are attached only lets other tasks run.
- `TypeCPort`: whether the controller raises sink-ready is chosen in the initial state
  (`signals`). `ContractOffered` leaves out behaviours in which `sync_state` was called.
  Time is abstract: a deadline may elapse at any moment after it was armed.
- `TypeCService`: the PPM state machine, the OPM and the relay to it are external.
- `Unconstrained`: the policy reads the sources in one step and counts the unconstrained ones in another, and its
  calls do not fail (`PowerPolicy` has the steps between and the failures). Which of several best offers it takes
  first is open. A port's cached status may run ahead of what it has offered.
- `TimeAlarm`: times are relative and small. A restart clears the history behind
  `NeverIsNever`, since it re-arms every stored timer. The clock is a counter of
  `Width` values.
- `CfuUpdater`: the handler of a request is a step, because only the updater's task
  touches the state it changes. `CfuBuffer`: the select is biased, as in the
  code: buffered content first, then requests, then responses. Devices stay registered.
  `AnsweredInKind` is checked with one client.
- `SharedBuffer`: one executor, so a borrow is atomic; ranges that end before they
  start are not passed to `SharedRef::new`, which takes them (a borrow of such a range panics when it is used). `Comms`: either preemptive
  threads that register distinct endpoints, or one executor on which an endpoint is
  registered twice.

- `ThermalSensor`, `ThermalFan`: periods are abstract; a sleep ends at any time. `SpeedObeys` leaves out
  a driver call that failed and a host call that ends while auto control waits for the driver.
- `PowerButton`: time is counted in samples. `Keyboard`: a scan is one snapshot of the matrix, and the debouncer
  and the channel are external.
- `Battery`: one gauge; its driver (`mock.rs`) and loop are those of the example. The registers belong to hardware
  of their own, which may change between any two reads; capacity, full capacity and design capacity stand
  for the battery they are of. `BatteryHonest` leaves out batteries that were exchanged and answers whose registers changed
  while they were read; what happens then is below.
- `HidTarget`: the device empties its reports on reset, as the keyboard's relay does. `HidAggregate`: what
  `SizesKept` says is claimed for descriptors a merge can take apart (`WellFormed`), see the observation below. `HidPassthrough`: one host. Futures that the macro drops (see below) are not run in the model either.
- `Mctp`: the two ends share no clock and the link keeps order. `HostLink`: a frame is a whole message; the
  wire is in `Mctp`.
- `DebugLog`: one request at a time, as a transport has. The ring may refuse a grant at any time.
- `PartitionManager`: both builds of the generator, with and without overflow checks; the disjointness of
  partitions is not claimed where the second one wrapped a sum.

*Observations made while modelling.* The models were also explored with these
questions, and TLC gave a behaviour for each; they have no run of their own.

- Power policy: when no PSU qualifies any more, listeners hear that the consumer was
  disconnected although its PSU was not (`consumer.rs:281`). The detach of one PSU can
  be announced as the reason why another was dropped (`consumer.rs:228`). A charger
  that fails in `post_consumer_connected` leaves the later ones unprogrammed and the
  consumer unannounced until it changes (`consumer.rs:165`). Entering the limited state
  does not reduce providers already connected (`provider.rs:72`). A PSU replugged
  while its own request is being granted can be left providing and not tracked
  (`provider.rs:91`), and one whose missed unplug is recovered by a plug event can be
  current consumer and provider at once (`controller/mod.rs:180`).
- Type-C port: a `sync_state` that overlaps the interrupts of a plug-in can lose the
  contract (`controller/mod.rs:229`). A role swap of a PSU that was not selected leaves
  its old contract on offer (`controller/power.rs:112`). A quick replug with the same
  source contract leaves the request unset (`controller/mod.rs:144`).
- Type-C service: a connector that changes between the OPM's read and its
  acknowledgement is not reported again (`ucsi.rs:367`; `OnlyRacesLost` says that this is
  the only case). An acknowledgement of a command only answers with a connector change
  of 0 although a port is pending (`ucsi.rs:254`). A quick replug keeps the charging status valid
  before the new contract (`ucsi.rs:331`), and a debug accessory replaced between
  two reads is not announced as gone (`service/mod.rs:111`). When the only unconstrained
  source is replaced by another within one pass of the policy nothing is broadcast
  (`consumer.rs:132`), and the port that is left out is the wrong one.
- Time alarm: after a restart an AC timer that expired on DC under policy NEVER can wake
  the host (`timer.rs:128`); a sleep that ends just as the policy delay starts wakes
  it without the delay (`timer.rs:290`).
- CFU: requests are not read in Recovery, so they are not rejected either
  (`basic/event_receiver.rs:78`). An offer routed while a block is outstanding takes the
  block's answer, and a late answer of an old update is taken for the first block of
  the new one (`buffer.rs`). The splitter answers a failed offer with a version response
  and does not pass an abort on (`splitter.rs`). Two callers of a component can take each other's
  answers; an empty slot of a primary component stops its answer; content, prepare,
  abort and finalize are not answered by the default component (`component.rs`).
- IPC: with two receivers the late response to an abandoned command can replace the
  one a caller waits for (`deferred.rs:99`). On preemptive threads a borrow can be granted
  twice (`buffer.rs:84`), and two registrations of the same endpoint can both pass the
  check (`intrusive_list.rs:119`).

- Thermal: the host's `set_rpm` is overridden when auto control already waits for the driver
  (`fan.rs:350`). Sampling that the host has just enabled is switched off by retries exhausted earlier (`sensor.rs:275`).
- Battery: `capacity_raw` drops the unit, so centiwatts are reported as milliwatts (`acpi.rs:29`);
  the last byte of the serial number is dropped; `_STA` reports everything present; nothing outside tests
  calls `on_timeout`. A battery exchanged without a timeout is polled with the static data of the one before it until the
  loop's long interval is over. After a recovery the example counts from 0 and reads static data only once that
  interval has passed, and the service answers whatever the gauge's state, so `_BIX` joins the old static to the
  new dynamic data; even when it is polled again, its dynamic cache may still be in the unit of the old battery until the next
  update, while `_BIX` names the new one, although `acpi.rs:29` relies on `_BIX` to convey the unit.
- HID target: a `GetReport` of an output report, and a device that asks for a reset, leave the read the host was
  promised unanswered (`service.rs:615`). The size of the write buffer is computed with 9 bytes of header, one less than
  an explicit-id `SetReport` takes (`constrained_hid_device.rs:45`, `service.rs:650`). The length of a `SetReport` excludes the id that
  that of an output report includes.
- HID aggregate: an input report whose id is not in the map keeps its native id (`hid.rs:1309`), and
  `set_power_state` stops at the first device that fails. A descriptor may declare an id under a push, and have fields
  again after the pop that takes the id away: they have no id in the merged descriptor either, and those of
  several devices add up to one report with id 0, larger than any of theirs. The same goes for a device without ids whose
  first collection is under a push. An aggregate's buffers are sized by its devices, so such devices must not be put
  behind one. (The proof of `SizesKept` found this; `Restored` is such a descriptor.)
- HID passthrough: `deassert`, `reset` and `release` of the interrupt signal are async, and the macro drops their futures
  (`passthrough/mod.rs:68`, `76`, `81`, `87`, `92`), although `interrupt.rs:8` says that the interrupt is deasserted on a request
  of the host. A device takes every request, whatever its id (`hid/mod.rs:243`). A device whose transfer fails never
  answers, and the host waits without a timeout (`host.rs:311`). An output report whose length
  leaves no room for an id takes for its id what the buffer held before (`host.rs:116`). Values of `SetIdle` and `SetProtocol` are taken from the command
  word, and `SetProtocol` is always refused (`command.rs:342`).
- MCTP: after a lost packet the context stays in its message and refuses new ones. The PEC of an SMBus packet is kept
  and not compared. `frame_complete` of the serial medium takes a byte count of 0x7E for the end of the frame. A
  header of the relay does not compare the message type.
- Transports: the reply of the UART service is addressed to the EC's own endpoint id. A request between two packets of
  an eSPI response that is malformed, or finds the queue full, ends that response (`espi_service.rs:239`).
- Relay messages: an error of the debug service cannot be read back by the crate that defines it (see section 5). The reader of
  `SetTimerValue` and `SetExpiredTimerPolicy` takes exactly 8 bytes and calls a longer message too small; the other
  readers ignore what follows their fields.
- Debug: the tasks write the flag of a private static service (`debug_service.rs:57`); a relay can only be given a service of its own,
  which finds no frame available, so that its host is always told that there is none. With two transports both could take the
  same flag for theirs, and one answer would be missing. `defmt_to_host_task` panics if it stages before `debug_service` ran.
  An event that does not fit loses its end, and the next one follows without a delimiter.
- Partitions: in a build without overflow checks a partition whose end wraps round passes the checks of size and
  overlap, and may share bytes with another (`generation/src/lib.rs:79`), although the README says that partitions
  "do not overlap between eachother". A partition that ends at the last address, 2^32, counts as overflowing too.

## 7. Plan

Done: every service with a state of its own, the wire formats towards the host, and the
IPC underneath. All safety properties are proved but `MctpHonest`.

Next: `MctpHonest` without corruption, that is, for any script over links that only lose and repeat whole packets;
the bodies of MCTP control messages; and the settings and alarms of the time alarm as its relay sees them.
