# A TLA+ model of ros2_peripherals

`ros2_peripherals` is a set of ROS 2 nodes, one per kind of peripheral, each a
single C++ class around a C driver library.  This directory models the nodes'
own logic: what they remember between callbacks, what their threads do to that
memory, and what they tell their drivers and subscribers.

Run a model with `tlc -config <X>.cfg <module>`, for the files of section 3;
check the proofs with `tlapm <module>` for `MotorNodeProofs`,
`MotorStartupProofs`, `KeyNodeProofs`, `LedNodeProofs`, `MiscIoNodeProofs`,
`RadioNodesProofs`, `LidarImuProofs` and `SensorNodesProofs`.

## 1. The system

Every node is constructed in `main`, runs its callbacks in **one executor
thread**, and is destroyed when the context is shut down.  Nodes do not talk to
each other; a node talks to its driver library (calls, and callbacks from the
library's own threads), to subscribers (topics, some with retained samples) and
to service clients.  The IMU's package does not use ROS: it writes to a DDS
topic itself, and offers two wrappers for publishing and subscribing.

| component | state it keeps | operations | what is hard |
|---|---|---|---|
| `motor_node` | `enabled_`, `last_cmds_`, one `last_cmd_time_`, limits, timeout and per-motor gains | `on_cmd`, `on_enable`, `on_set_parameters`, `publish_state` (with the watchdog), register services | time: watchdog against commands; drivers that take a write for some motors only; parameters changed under way |
| `motor_node`, construction | devices, the wait for ready drives, automatic enable | constructor, `wait_for_motors_ready`, destructor | stale readings, a bounded wait, exceptions, signals |
| `key_node` | `event_queue_`, keys, contexts, the drain timer | service thread: `on_key_event`, `enqueue_event`; timer: `drain_events`; `cleanup_resources` | two threads, a mutex, lifetime of contexts, shutdown |
| `led_node` | devices, a mirror of each LED's effect | constructor, `on_command`, `on_tick_timer`, `publish_all_states`, `cleanup_resources` | 8- and 16-bit arithmetic of time and brightness, retained topic, allocation that fails half way |
| `misc_io_node` | `event_queue_`, ios, contexts | monitor threads: `on_input_event`; `on_command`, `on_timer`; `cleanup_resources` | events racing with sampled states, failing reads and writes, shutdown |
| `nfc_node` | `last_tag_info_`, `has_last_tag_` | constructor, `poll_once`, `on_poll`, `on_read`, `on_write`, destructor | two pollers that share the suppression of duplicates |
| `lidar_2d_node` | the device, the publisher | constructor; driver thread: frames into `publish_scan`; `start_motor`, `stop_motor`; destructor | frames before the publisher exists and while the node goes; the bin of a point at every edge |
| `modem_5g_node` | `active_cid_`, flight flag, cached information, the retained status | status timer, nine services | services that overwrite each other's state; a snapshot that is not taken at once; failing calls |
| `wifi_node` | the library, the retained status and the retained scan | status and scan timers, `connect`, `disconnect`, `scan` | a status from two readings of a link that moves; limits of a scan; steps of a request that fail half way |
| `pm_node` | the device, the retained power status | timer: one reading and its conversion; `set_power_switch`; cleanup | readings out of range, failing readings, construction that fails half way |
| `light_sensor_node` | the device | timer: one poll | a poll without a new sample must not publish an old one |
| `imu_uart_node`, `ImuPublisher`, `ImuSubscriber`, `MyImuPublisher`, `MyImuSubscriber` | the serial device, DDS entities, the callback | `main` with a signal handler, `init`, `publish`, the reader's listener, `set_callback` | a signal at any time; an `init` that fails half way; messages that get lost; a callback assigned while data arrives |

What makes each of them correct:

* **motor**: no driver ever holds a mode its bus does not support; while
  disabled, the drivers idle; a silent controller makes the motors stop, never
  early, and a refused stop is repeated; what changes is within the limits.
* **motor construction**: it always ends, and leaves a state the running node
  may start from.
* **key, misc_io**: events are neither lost, doubled nor reordered between the
  library's threads and the topic; no callback after its context is freed;
  shutting down never blocks.  For misc_io also: a state on the topic is never
  older than an event on the topic, and every io's state gets there.
* **led**: the published state is consistent through all effects, counted blinks
  lose no time, late subscribers get every LED's state some time; every callback
  finds its LED's device.
* **nfc**: the topic tells the current card, repeats no reading and hides no card.
* **modem**: the retained status follows the node's memory and, where it calls
  itself ok, the modem's power and data state; context and address, if there,
  are those of the context it names; failing or rejected requests move nothing;
  the device is given back on every way out.
* **wifi**: every part of the retained status was true in the time in which it
  was collected, and the details are never those of a link that is not shown; a
  lost link is shown as lost; a client gets the scan that everyone gets.
* **pm, light sensor**: what is retained is the last successful reading, within
  the documented ranges, and what changes gets on the topic.
* **lidar**: each bin holds the nearest of its points; frames use nothing that is
  not there yet or not there any more.
* **imu**: what the subscriber is given was read from the device, once and in
  order; a signal ends the node, and all entities are deleted.

## 2. Modules

| module | models | main correspondences |
|---|---|---|
| `MotorNode`, `MCMotor` | the running motor_node, callback by callback | `on_cmd`, `enable`/`disable` (the branches of `on_enable`), `on_set_parameters`, `publish_state`; `Tick` is time |
| `MotorStartup`, `MCMotorStartup` | constructor, `wait_for_motors_ready`, destructor | `AllocMotor`, `Throw`, `InitMotors`, `WaitIterates`, `WaitSucceeds`, `WaitTimesOut`, `Interrupt`, `Destroy` |
| `EventStream` | abstract: what a node that forwards events promises | `Produce`, `Deliver`, `Close` |
| `KeyNode` | key_node: its thread, the key service's thread, `event_mutex_` | one action per step between two synchronizations |
| `LedNode`, `MCLed` | led_node | `register_led`, `Throw`, `Constructed`, `on_command`, `on_tick_timer`, `publish_all_states`, `Destroy`; `blink_tick` and `breath_tick` are the branches of `mirror_tick_state` |
| `NfcNode`, `MCNfc` | nfc_node | `construct`, `poll_once`, `on_poll`, `publish_detected_tag`, `clear_last_tag`, `destroy` |
| `Modem5gNode` | modem_5g_node and the modem beside it | `alloc`, `startup`, the handlers, `collect_basic` and `collect_data` (the two halves of the snapshot), `destroy`; `modem_changes` is the modem |
| `WifiNode` | wifi_node and the radio beside it | `init_library`, `startup`, `startup_scan`, `on_connect`, `on_disconnect`, `on_scan`, `publish_periodic_scan`, `read_state` and `read_info` (the two readings of `build_status_msg_locked`), `destroy`; `radio_changes` is the radio |
| `MiscIoNode` | misc_io_node: its thread and one monitor thread per input | `register_io`, `drain_events`, `publish_event`, `publish_states`, `on_command`, `cleanup_io`, `free_ios`, `on_input_event`, `enqueue_event` |
| `PmNode` | pm_node | `alloc_device`, `setup`, `poll` (reading, conversion, publication), `on_set_power_switch`, `destroy` |
| `LightSensorNode` | light_sensor_node | `alloc`, `init`, `create`, `tick`, `destroy` |
| `Lidar2DNode` | lidar_2d_node: its thread and the driver's | the steps of the constructor in their order, `report_frame`, `sort_point` (one turn of the loop of `publish_scan`) with `add_point`, `publish_scan` (its end), the motor services, the destructor's steps |
| `ImuLink` | imu_uart_node, publisher, subscriber, wrappers, the DDS topic between them | `init_device`, `init_publisher`, `read_and_write`, `read_failure`, `signalHandler`, creation and deletion of the entities, `take_next_sample` |
| `SensorNodes`, `MCSensors` | `NfcNode`, `PmNode`, `LightSensorNode`, `Lidar2DNode`, `ImuLink` side by side | one of them runs in each behaviour |
| `RadioNodes`, `MCRadios` | `Modem5gNode`, `WifiNode` side by side | one of them runs in each behaviour |
| `...Proofs` | the theorems about the module of that name; `LidarImuProofs` holds the lemmas about lidar and IMU that `SensorNodesProofs` puts together with the others | - |

`MotorStartup` instantiates `MotorNode`, and its invariant `HandsOverInit` says
that the constructor's result is an initial state of `MotorNode`; so the two
together are the life of the node.  `KeyNode` instantiates `EventStream` and
implements it, liveness included (`StreamSpec`).

`SensorNodes` and `RadioNodes` put nodes side by side that are processes of
their own and share no state, topic or device.  The variable `chosen` says which
of them runs; the others stay in one initial state, in which none of their fair
actions is enabled.  A behaviour of one node needs none of the others, so that
this leaves out interleavings only of steps that commute, and each property
speaks of one node or is a conjunction over them.  `MCSensors` and `MCRadios` only
give the constants values, so that what the runs check is what the proofs are
about.

Conventions.  A callback that the single executor thread runs to its end is one
action.  Where a second thread exists, an action ends where that thread can
come in between: `KeyNode` models the mutex, and splits the push into taking it
and writing; `MiscIoNode`, whose queue is the same, takes a critical section as
one step.  `Modem5gNode` and `WifiNode` split their snapshot between two
readings, because modem and radio may change there.  `Lidar2DNode` splits
construction and destruction at every step a frame can fall between, and
`publish_scan` into its turns, each of which sorts one point.  The environment (drivers, library threads, cards, lines, batteries, radios) chooses
freely among what the code handles: a write is taken for any subset of the
motors, a read fails, an allocation returns null, a signal arrives.  A comment
`Mutant:` marks a variant of the definition below it, with a bug that a change
to the code might bring in; the properties were checked to fail with it.

What is abstracted: demands, gains and times are integers; motors, keys, LEDs
and ios are their indices (ids are taken to be distinct); an LED's colour is
black or not; a tag's uid, type and ats are one value; of the modem's status
only the fields that the properties compare are kept, of a network its name and
address, of a scan its filter and its length.  Angles and ranges of the lidar
are integers of some unit, so that the rounding of floats at the border of two
bins is not seen; a float of pm_node is an integer or `NaN`, which stands for
everything that is not finite.  `motor_node`'s clock `age` saturates at
`TimeCap`; handlers take no time, so that time passes only between callbacks;
`due` makes the state timer run at least once per `Period`.  `ToInt` keeps the
narrowing of `cmd_timeout_ms` to an int and `int32` that of the IMU's seconds,
with `IntHalf` in the place of 2^31 (so that small numbers wrap), and `uint8`,
`uint16` the casts of led_node.  A PDP context and an address in the modem's
status are the context that they were read for, or 0 when they are empty.
`MiscIoNode` has no `api_mutex_`: the command callback, the state timer and the
destructor take it, none of which runs beside another, and no monitor thread.

## 3. Runs

Runs that pass:

| run | bounds | properties | shows |
|---|---|---|---|
| `motor_can` (`MCMotor`, `MCMotor_can.cfg`) | 2 CAN motors, 4 arrays, 2 parameter lists, timeouts 0, 2 and 3, `Period` 1, `TimeCap` 5 | `OnlySupportedModes`, `DisabledMotorsIdle`, `SentIsStored`, `WatchdogStops`, `NeverStopsEarly`, `ChangesWithinLimits` | safety under every interleaving and every pattern of failing writes |
| `motor_ecat` (`MCMotor`, `MCMotor_ecat.cfg`) | 2 EtherCAT motors, every state the constructor leaves, parameter lists of all sizes, a timeout beyond an int, `TimeCap` 3 | `TypeOK`, `StopIsRetried` | partial parameter lists keep the vectors in shape, and the timeout an int; refused stops are repeated |
| `motor_startup` (`MCMotorStartup`, `MCMotorStartup_ecat.cfg`) | 2 drives, timeout of 4 iterations, 3 stable ones needed | `HandsOverInit`, `AnchoredMeansStable`, `ConstructorEnds` | drives may come and go and readings fail for longer than the wait lasts |
| `key_queue` (`KeyNode`, `KeyNode.cfg`) | 2 keys, 4 events, one event kind that is mapped and one that is not | `NoCallbackAfterFree`, `CleanupEnds`, `StreamSpec` | two keys and four events make every overlap of push, swap and shutdown, also after a failed registration |
| `led_effects` (`MCLed`, `MCLed_effects.cfg`) | 2 LEDs, the default tick of 50 ms, periods 1, 3, 75, 100, 175 ms, counts 0, 2, 3, 255 | `MirrorConsistent`, `BlinkKeepsTime`, `EveryLedIsRetained` | every sequence of effects, with rests of a cycle and counts at the limit of a byte |
| `misc_io` (`MiscIoNode`, `MiscIoNode.cfg`) | an input with 3 edges, an output | `EventsAlternate`, `StatesFollowEvents`, `NoCallbackAfterFree`, `StatesCatchUp` | edges against timer runs, failing devices, shutdown at any moment |
| `sensors` (`MCSensors`, `MCSensors.cfg`) | nfc: 2 cards, 3 signal strengths; pm: 7 parameter sets of all three drivers, 4 readings in and out of range, 3 switch channels of which one has no name; light: 4 parameter sets, 3 levels; lidar: 4, 3, 0 and -1 bins, sectors that are reversed or have no width, 4 frames, both flags free; imu: 3 samples, 2 on their way, equal and different topic names, times that fit the seconds of a stamp (`IntHalf` 4) and one that does not | `SensorTypes`, `DevicesGivenBack`, `TopicIsCurrent`, `ReportsAreTrue`, `ScanIsNearest`, `DeliveredIsRead`, `NoRepeats`, `NewStayIsPublished`, `FramesAreSafe`, `ChangesAreShown`, `SignalEnds` | each node through its whole life, every call of the driver failing or not |
| `radios` (`MCRadios`, `MCRadios.cfg`) | modem: requests for contexts 0 (the default, 1), 20 and 21, two power and two data states; wifi: 4 states of the radio with two networks, limits of 0, 1 and 257, scans that find 0 or 300; each of the six readings of a modem status fails or not | `RadioTypes`, `DeviceLifetime`, `HonestStatus`, `DialledCidShown`, `StatusWasTrue`, `AnswerIsPublished`, `InfoStays`, `LinkLossIsShown` | any service after any other, every call and reading failing or not, the device changing inside a snapshot |

The bounds are the smallest at which every branch is taken and the actors can
get in each other's way: two of each thing that can be confused with another
one, an event more than the two a queue needs to be reordered, a timeout longer
than the period, `TimeCap` beyond timeout and period, a frame with points at
and beyond both ends of the sector and with several points in one bin.  Where a
cfg sets `CHECK_DEADLOCK FALSE` nodes are destroyed and stop.

Runs that end in a counterexample.  Each checks one sentence of the
documentation or of a comment against the code.

| run | property | what happens |
|---|---|---|
| `motor_autoenable` (`MCMotorStartup`, `MCMotorStartup_autoenable.cfg`) | `AutoEnabledWhenReady` | the wait for the drives times out, and the node still enables itself (`motor_node.cpp:209`) |
| `led_retained` (`MCLed`, `MCLed_retained.cfg`) | `SubscriberSeesEveryLed` | the topic retains as many samples as there are LEDs, and a command for one LED displaces the sample of another (`led_node.cpp:91`); `misc_io_node.cpp:100` is alike |
| `led_breath` (`MCLed`, `MCLed_breath.cfg`) | `BreathPeakIsOn` | at the peak of a breath with an odd period the brightness wraps around; with 511 ms it becomes 0 and the LED "off" (`led_node.cpp:479`) |
| `nfc_held` (`MCNfc`, `MCNfc_held.cfg`) | `HeldCardPublishedOnce` | a card that stays is published again when its signal strength changes (`nfc_node.cpp:207`) |

More facts that came up on the way:

* one `last_cmd_time_` serves all motors, so that arrays which name other
  motors, or nothing acceptable, keep the watchdog from stopping a motor that
  nobody commands (`motor_node.cpp:593`); a disable that a driver refuses is not
  repeated, so `DisabledMotorsIdle` speaks only of the motors that took the
  write; a limit lowered at run time applies only to what is commanded
  afterwards, so `ChangesWithinLimits` speaks of changes;
* an exception in a constructor skips the destructor: the motors, a lidar, an
  nfc reader or a light sensor that was allocated, and the wifi library once it
  is initialized, are not given back then; pm, led, key, misc_io and the modem
  catch it and clean up;
* the modem's status does not note failed readings of the context and of the
  address (`modem_5g_node.cpp:518` and `:525`): a status that calls itself ok may
  lack them, which `HonestStatus` allows;
* asking modem_5g_node for a context makes it the active one (so that a client
  that only asks moves the context that the status shows, also away from one
  that is connected; `DialledCidShown` ends there), and a `data_start`
  that fails is answered with the state CONNECTED beside `success = false`;
* wifi_node calls a link connected while it is still obtaining an address
  (`wifi_node.cpp:56`);
* `MyImuPublisher` drops the result of `init` and writes through a null writer
  after a failed one, and `ImuSubscriber` calls `callback_` without the mutex
  under which it is assigned; both are crashes in the model, confined by
  `SensorTypes`;
* `flip_x_axis` with an odd number of bins maps two bins onto one
  (`lidar_2d_node.cpp:203`), which `ScanIsNearest` spells out (`Directions`); a
  sector without a width makes the bin a quotient 0 / 0, of which the model takes
  any, and a negative `scan_bins` makes the first frame throw in the driver's
  thread (`lidar_2d_node.cpp:176`); frames may use the publisher before it exists
  (`lidar_2d_node.cpp:61`): `FramesAreSafe` confines this crash to the last step
  of construction and to a node whose construction failed after `lidar_start`;
* the seconds of an IMU's stamp are cast to 32 bits (`imu_uart_node.cpp:48`) and
  wrap in January 2038, for devices that count from 1970; `DeliveredIsRead` asks
  for the device's time only before that;
* `on_tick_timer` casts `tick_period_ms` to 16 bits, and no code keeps it below
  65536: both the driver and the node's mirror then go by a time that lags behind
  the real one (`led_node.cpp:326`).  `BlinkKeepsTime` counts the time that the
  driver is told.

## 4. Fairness

* `MotorNode`: time goes on, `executor.spin_some` in the loop of `main` keeps
  running the timer, and a driver that is asked to stop over and over takes the
  command on all motors some time (strong fairness; without it nothing the node
  does could stop a motor).
* `MotorStartup`: the constructor's thread goes on; `WallRate::sleep` returns.
  Nobody has to send a signal or destroy the node.
* `KeyNode`: the node's thread and a callback under way go on.  No fairness for
  key presses or for the shutdown.
* `LedNode`: both wall timers keep firing while the node runs.
* `NfcNode`: the polling timer keeps firing, and a tag that stays on the reader
  answers some of the polls (strong fairness).
* `Modem5gNode`: the timer keeps firing, driver calls return, and reading the
  basic information works some of the times (strong fairness).
* `WifiNode`: the status timer keeps firing, driver calls return, and the link's
  state can be read some of the times (strong fairness).
* `PmNode`, `LightSensorNode`: the timer keeps firing and some of the readings
  succeed (strong fairness of a successful poll).
* `ImuLink`: the serial reader's thread goes on; reads, writes and sleeps return.
  No fairness for the delivery of messages, so nothing is promised of it.
* `MiscIoNode`: the timer, the cleanup and the monitor threads go on, and
  reading any one io works some of the time (strong fairness per io).
* `Lidar2DNode`: none; its properties are safety properties.

In all of them the executor's thread is what serves the timers, and a reading
that never succeeds leaves nothing a node could show; that is where weak and
strong fairness come from.  Requests, cards, edges, signals and shutdowns are
never fair.

## 5. What is proved

Every invariant and every action property that a passing run checks is also a
theorem, for every value of the constants.  Each has the same form: an
inductive invariant (`IInv`, or `...Inv` per node) that holds initially and is
kept by every action, one lemma per callback or group of steps; `Invariance`
(`RadiosInvariance`, `SensorsInvariance`) is `Spec => []Inv`, and the other
theorems follow from it.  The assumptions are the ones named at the head of the
models: the constants have their types, parameters in a list have the types ROS
gives them, `TimeCap` is larger than `Period`, there is at least one motor or
LED.

| module | theorems | for every |
|---|---|---|
| `MotorNodeProofs` | `TypeCorrect`, `ModesSupported`, `StoredIsSent`, `DisablingIdles`, `WatchdogWorks`, `WatchdogNotEarly`, `LimitsHold` | number of motors, bus type, set of arrays and parameter lists, period and time cap |
| `MotorStartupProofs` | `TypeCorrect`, `HandsOver`, `AnchoredIsStable` | number of motors, bus type, timeout and number of stable readings |
| `KeyNodeProofs` | `TypeCorrect`, `EventsAreKept`, `CallbacksAreSafe`, `Implements` | number of keys and events |
| `LedNodeProofs` | `TypeCorrect`, `MirrorIsConsistent`, `DevicesAreLive`, `BlinkTakesItsTime` | number of LEDs, set of commands, tick period |
| `MiscIoNodeProofs` | `TypeCorrect`, `CallbacksAreSafe`, `EventsAreInOrder`, `StatesAreCurrent` | number of inputs, outputs and edges |
| `RadioNodesProofs`, the modem | `TypesAreKept`, `DeviceIsGivenBack`, `StatusIsHonest`, `DialledContextIsShown` | configuration, requests, states of the modem |
| `RadioNodesProofs`, wifi | `TypesAreKept`, `RetainedStatusWasTrue`, `AnswersArePublished` | configuration, requests, states of the radio, sizes of a scan |
| `SensorNodesProofs`, nfc | `TypesAreKept`, `DevicesAreGivenBack`, `NothingHidden`, `NothingRepeated` | parameters, cards, signal strengths |
| `SensorNodesProofs`, pm and light sensor | `TypesAreKept`, `DevicesAreGivenBack`, `ReportsAreHonest` | parameters, switch channels, batteries, levels of light |
| `SensorNodesProofs`, lidar | `TypesAreKept`, `DevicesAreGivenBack`, `BinsHoldTheNearest`, `FramesMeetTheirPublisher` | sector (reversed and, but for `BinsHoldTheNearest`, without a width), limits of the range, number of bins (even, odd, 0 or below), set of frames of any length |
| `SensorNodesProofs`, imu | `TypesAreKept`, `DevicesAreGivenBack`, `DeliveryIsFaithful` | time stamps, topic names, rates, bounds on samples and messages |

Where the properties are not inductive as they stand, the invariants add what
the code relies on without saying so:

* **MotorNode.**  Only `TypeOK` and `SentIsStored` are inductive.  `ModesInv`:
  the *stored* commands have supported modes too, for they are sent again to
  motors that an array does not name.  `DisabledInv`: while disabled, all stored
  commands are IDLE, so `safe_stop` and a later enable cannot bring motion back.
  `WatchdogInv`: while anything moves, `last_cmd_time_` is the time of the last
  array and, once the timer has run since the timeout was last set, no further
  back than the timeout and the time since the timer ran; the watchdog refreshes
  `last_cmd_time_` when it stops the motors, so that `age` alone says nothing of
  the silence.
* **MotorStartup.**  In the wait `stable_counts` is the number of good iterations
  in a row (`streak`), and nothing has been stored; a running node is enabled
  exactly when its parameters make it wait, and a node that did not wait has
  sent nothing.  That is what `MotorNode!Init` asks for.
* **KeyNode.**  `LockInv`: who holds the mutex, and that the queue the service's
  thread read is still the queue when it writes it back.  `BatchInv`: there is a
  drained batch just while it is published.  `LifeInv`: a callback runs only
  while the service does, for a key whose context exists, and the service has
  ended before the members go.  `NothingLost` says that what was published,
  drained and queued is what was enqueued, and so implies each step of the
  refinement.
* **LedNode.**  `Sound`: besides the three parts of `MirrorConsistent`, a dark
  static LED has brightness 0 (the static tick looks at the colour), and an
  effect has a period (the ticks divide by it).  The widths come from the casts
  alone: no bound on the time that passes is assumed.  `BlinkKeepsTime` is then
  inductive: with `blink_done` cycles and a rest of `blink_elapsed_ms` gone, a
  tick of any length adds its quotient by the period to the cycles and leaves
  its remainder, and the sum is below `count` periods exactly if the cycles are
  below `count` (`CyclesAdd`, `CyclesOrder`).
* **MiscIoNode.**  `OrderInv` speaks of published, drained and queued events as
  one sequence: the events of an input alternate in it, and its last one tells
  what the monitor thread reported last, or, while a callback is under way, an
  older level that differs.  `EdgeInv`: no event is ahead of its input's line.
  Together with `BatchInv` (the states are read when nothing drained is left)
  this gives `StatesFollowEvents`.
* **Modem5gNode.**  `SnapshotInv`: the history of a snapshot under way holds the
  modem's present state and what the snapshot has read; only an answer of the
  modem is cached.  The second half of a snapshot fills in context and address
  for the active context, whose number stands for itself (`ActiveCid`).  `ContextInv`: a context that was dialled and not left is the
  active one.  `StartInv`: nothing is published or requested in construction.
* **WifiNode.**  `WifiSnapshotInv`: the half of a status that waits for its
  details shows a moment with a link, in the time of this snapshot.
  `WifiStartInv`: nothing runs with parameters that `validate_config` rejects.
* **NfcNode.**  `MemoryInv`: what the node remembers is what the last poll
  reported, whichever poller it was, and the last message is the last tag that
  any poll detected.
* **PmNode.**  `ReadingInv`: the topic holds `to_ros_msg` of the last successful
  reading, of which `MsgIsTrue` shows that it is within the documented ranges,
  whatever the driver reports, a `NaN` included.  `CheckedInv`: the node runs
  with parameters that `validate_config` accepted; from it `Thresholds` follows,
  the order of the voltages that `PmNode`'s `TypeOK` asserts.
* **LightSensorNode.**  The same: what runs was validated, and a device exists
  only from `alloc` on.
* **Lidar2DNode.**  `ScanInv` is the invariant of the loop of `publish_scan`:
  after `i` turns, each bin of the scan holds the nearest of the first `i` points
  of its directions, with its intensity.  That a turn keeps it is `AddPoint`; it
  rests on `BinOf`, that the index the code computes (a quotient, then the halves
  exchanged) is bin `b` exactly for the points of the parts that `b` stands for,
  and that on `Quotient`, `Index` and `Flipped`, for an even and an odd number of
  bins alike.  `ThreadInv`: frames come only between `lidar_start`
  and `lidar_free`, and there is a publisher all that time but in the last step
  of construction.
* **ImuLink.**  `MessageInv`: what was delivered and what is on its way are, in
  this order, messages of samples that were read, with rising numbers and the
  stamps made from them (`InOrder`).  Sending, losing and taking a message keep it
  (`Sampled`, `Delivery`); that a stamp is the device's time, unless the cast
  wraps it, is `StampIsTrue` with `Cast`.  `EntityInv`: at each side there are the entities that
  `init` created, a prefix of the order of creation, for which `AllDeleted` shows
  that the destructor's order deletes them all, however far `init` came.
  `DeviceInv`: who owns the serial device, and where.

**Nodes side by side.**  `RadiosNext` and `SensorsNext` are disjunctions with one
node moving and the others unchanged; so a step of the whole is, for every node,
one of its own steps or a stutter (lemma `Each`).  The invariant of the whole is
the conjunction of those of the nodes, and each of them is kept by its node's
lemma alone (`NfcStep`, `PmStep`, ...), which knows nothing of the others.

**What is assumed of the lidar's parameters.**  `lidar_2d_node` validates none of
`angle_min`, `angle_max` and `scan_bins`, and `LidarAssumption` gives them their
types only.  `ScanIsNearest` says nothing of a sector without a width, where the
conversion of 0 / 0 to an int is undefined; a reversed one keeps no point.  With
fewer than 0 bins there is no scan, and `FramesAreSafe` lists that crash.

Model-checked only: everything about liveness (`StopIsRetried`,
`ConstructorEnds`, `CleanupEnds`, `EveryLedIsRetained`, `NewStayIsPublished`,
`ChangesAreShown`, `SignalEnds`, `StatesCatchUp`, `InfoStays`, `LinkLossIsShown`),
and `StreamSpec`'s fairness with it: the prover has no rule for `ENABLED` here.
The four properties that fail are shown by their counterexamples.

## 6. What is not modelled, and what comes next

Not modelled on purpose:

* which parameters are rejected, where rejecting only throws (one failing branch
  of construction; pm, light sensor, nfc and wifi, whose checks have an order or
  a gap worth checking, keep them);
* log output, time stamps (except the IMU's, which the code converts), the
  layout of messages;
* the serialization code in `imu/src/impl` (`Imu`, `Header`, `Quaternion`,
  `Vector3`, `Time` and their type supports): generated accessors and CDR
  encoding, without state of their own;
* `ImuPublisher::run` and `ImuSubscriber::run`, which nothing calls, and the
  counters of matched endpoints;
* launch files, parameter files, build files, test fakes;
* the block services of nfc_node and the register services of motor_node, which
  hand a value through and keep nothing;
* the rounding of floating-point angles in lidar_2d_node.

What remains to be done: `MotorNode` with the published state, so that failing
readings are visible to subscribers; and a proof that the history variables
(`since`, `during`, `source`, `read`) change nothing of what they observe, which
is plain from the text of the actions and not stated.
