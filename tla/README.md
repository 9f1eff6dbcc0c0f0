# A TLA+ model of the DAFT actuator firmware

DAFT drives one stepper motor from an ESP32-C6: the firmware core
(`firmware/src`), the board layer under it (`firmware/platforms/esp32_arduino`)
and a Python host (`python/`) that talks to it over a framed serial protocol.
This directory models what the firmware decides (states, faults, the power
stage, the configuration and its storage, the serial protocol and the loop
around it) and what the host's programs do with it.  The modules are checked
with TLC, and theorems about them are proved with TLAPS.

Paths below are relative to the repository, line numbers refer to its source.

## Inventory

| component | state it keeps | operations | what is hard |
|---|---|---|---|
| Actuator core, `firmware/src/actuator.cpp` | state, control mode, faults, `driver_enabled_`, active and staged configuration, generation, time of the last packet, last request and responses | `begin`, `handle_packet` (24 messages), `update`, `record_frame_error`, telemetry | every order of packets, broken frames, ends of motions and timeouts; backend calls that fail halfway |
| Duplicate detection, `actuator.cpp:204-215, 933-954` | one remembered request, up to four responses | replay, mismatch, remember | lost, late and repeated packets; hosts that start their numbers over |
| Configuration storage, `firmware/src/config_store.cpp` | two NVS slots: marker, header, payload | load, save, clear | power failures between key writes, rot, the wrap of the generation |
| Configuration rules, `firmware/src/config_validation.cpp` | none | validate, stage a field, serialise, deserialise | fields that constrain one another; blobs from other versions |
| Packet codec, `protocol_v2.cpp`, `cobs.cpp`, `crc.cpp`; `codec.py` | the decoder's frame buffer | encode, decode, consume a byte | resynchronisation, a full buffer, runs of 254 bytes |
| Board layer, `main.cpp` | NVS keys, the pulse generator, the TMC2209 | backend callbacks, `setup`, `loop` | results nobody looks at; the generator runs by itself |
| Host client, `client.py`; transport, `transport_serial.py` | next number, receive buffer, events, telemetry | request, ping, open, read, write | timeouts racing late answers |
| Command line and bench, `cli.py` | files, a client | one request per call; the bench | clean-up after a failure in the middle |
| Commissioning GUI, `dpg_commissioning_gui.py` | a worker with a polling thread and a lock | connect, disconnect, call | two polling threads after a quick reconnect |

How they interact: `loop()` drains the serial port into the decoder, hands each
packet to `handle_packet` and each broken frame to `record_frame_error`, then
calls `update`, then sends telemetry when it is due.  All of it is one thread,
so a handler is one atomic step of the models.  Beside it run the pulse
generator (the FastAccelStepper library, an interrupt), the clock, the host and
the line; those move between any two steps.  The core reaches the hardware only
through the callbacks of `MotionBackend` (`platform.hpp:19-39`).

What makes each component correct:

- Core: the reported state agrees with the motor; no motion on a dead power
  stage; the power stage goes on only over a configured chip; configuration
  changes neither tear nor happen under a motion; the event stream tells the
  whole story; a stop completes; a silent host stops a velocity run.
- Storage: one register, whatever happens to the power; two usable copies after
  two good saves; generations stay comparable across the wrap.
- Requests: at most once and in order; an answer belongs to its request; no
  request is refused as a duplicate of another.
- Rules and codec: no edit makes a configuration invalid or leads into a dead
  end; a blob and a frame come back as they went in; damage on the line is local
  and is noticed.
- Board layer: the wrap of the clock is invisible; the watchdog trips.
- Bench: a report that says ok leaves the actuator as it was found; a clean-up
  after a failure leaves it safe.
- GUI: a pressed button comes to its turn; every polling thread ends.

`PROJECT.json` lists the hazards, each at its line, with the properties that
would show it going wrong; a few have none and say why.

## Modules

| module | models |
|---|---|
| `MotorContract` | the abstract promise about the power stage and the motor |
| `Actuator` | `actuator.cpp` over the callbacks of `main.cpp` |
| `MCActuator` | instances of it |
| `ActuatorProofs` | theorems about it: invariants, the contract, what no step does |
| `ConfigRegister` | the abstract promise of the storage: one register |
| `ConfigStore`, `MCConfigStore`, `ConfigStoreProofs` | `config_store.cpp` over the NVS keys of `main.cpp`; instances; theorems |
| `ConfigFields` | validating, staging and querying field by field |
| `ConfigBlob` | the stored layout of a configuration |
| `MCConfigFields`, `ConfigFieldsProofs` | instances of both; theorems about both |
| `RequestLink`, `MCRequestLink`, `RequestLinkProofs` | `DaftClient.request` and `ping`, a lossy line, the duplicate detection; instances; theorems |
| `SoftLimits`, `MCSoftLimits`, `SoftLimitsProofs` | the numbers of motion commands: direction, soft limits, the range of an integer; instances; theorems |
| `SerialLine` | bytes on a line that loses, changes and adds some, and what a receiver promises |
| `DeviceDecoder` | `FramingDecoder` over `SerialLine` |
| `HostReceiver` | the receive buffer of `transport_serial.py` over `SerialLine` |
| `Cobs` | `cobs_encode` and `cobs_decode` |
| `Framing` | both receivers side by side, with their properties |
| `MCFraming` | `Framing` and the byte stuffing; the properties of the stuffing |
| `FramingProofs` | theorems about the receivers and the stuffing |
| `BoardLoop`, `BoardLoopProofs` | `loop` with the port and the clock: the velocity watchdog, the telemetry interval; a theorem |
| `Bench`, `MCBench`, `BenchProofs` | `run_bench` of `cli.py` over `Actuator`; an instance; theorems |
| `GuiWorker` | the threads, the lock and the port of the GUI's `Worker` |

An operator that states a mistake (`MotionAllowedUnpowered`, `RebootRemembering`,
...) stands before the definition it would replace and is used by nothing else.
Each is a bug the code could have; putting it in place makes TLC refute the
property `PROJECT.json` names beside it ("mutants").

### Actuator

The variables are the fields of the class (`actuator.hpp:62-80`): `state`,
`controlMode`, `faults` (a set of flags), `driverEnabled`, `active`, `staged`,
`configStaged`, `generation`; `hostAge` is `now - last_host_ms_`.  The plant
beside it is `outputs` (power stage on), `motion` (still, position, velocity,
stopping) and `chip` (the settings the TMC2209 runs with, or `Unconfigured`
after a configure that got no answer); `stored` is what a load would find.
`announcedState` and `announcedFaults` are what the EVENT packets so far add up
to, for a host that read the status once after the boot.

There is one action per message that changes state, one for each way it fails
with an effect of its own, and `AnswerOnly` for queries, rejections and
duplicates, which only restart the host clock.  `MotionFinished`,
`HostTimeoutRamp` and `HostTimeoutDisable` are the branches of `update`;
`RecordFrameError` is `record_frame_error`; `Reboot` is `setup` with `begin`, for
a REBOOT message as for any reset.  `Raise` and `Transition` are `set_fault` and
`transition_to`; `heard` says whether the caller passes an event writer.

Abstractions:

- A configuration is five fields: the settings that `apply_staged_config`
  compares for the chip (as one value), the telemetry interval, the host timeout
  and its action, the inversion of the direction.  `ValidConfigs` is whatever
  `validate_config` accepts.
- A motion command is in range, beyond a soft limit, or rejected.  A move
  accepted by the generator may end at any later moment.
- `MayFail` says which callbacks may report failure.  On this board `ramp_stop`,
  `enable` and `run_velocity` fail only when the stepper could not be attached
  or the generator refuses; the fakes of the tests let all of them fail.
- The storage is two records here, `stored` (what a load would find) and `older`
  (the one in the other slot), each with its generation.  A save that succeeds
  writes over the older one.  A save that reports failure may have changed
  nothing, may have cost the older record, or may have been carried out: the
  write of the marker can be reported failed and be there all the same
  (`main.cpp:88-93`, `ConfigStore.WriteKey`).  A factory reset that fails has
  erased either record, both, or none.  Steps in the middle of a save, power
  failures there, slots that cannot be read and rot are `ConfigStore`'s; a load
  at boot reads both slots.
- The boot event, telemetry packets and the counters are left out: nothing
  reads them back.  The telemetry interval and the wrap of the clock are in
  `BoardLoop`.  A reset is one step: nothing moves the motor during it.
- `INVALID_CONFIG` branches are in the model, and shown to be out of reach.

### ConfigStore

`nvs` holds the three keys of each slot.  A save scans (`StartSave`), then takes
the marker away, writes payload, header and marker (`main.cpp:88-91`), one step
each; a write may fail, and may have been carried out all the same.  A clear
erases keys in any order.  The power may fail between any two steps, and a
payload may rot.  A header carries the payload its checksum was taken of, so
two different payloads never have the same checksum.  `ConfigRegister` is the
promise, with `saved` refined by `Load`: a save changes what a load returns at
one moment, when the marker is written.  `promise` says how much of it still
holds: taking the marker away may silently fail (`main.cpp:88`), and over a
rotted slot the payload then makes the old header valid again, for a moment and
under its old number ("contents": what is loaded is still what was asked for); a
save that could not read a slot may overwrite the better one ("nothing").

### ConfigFields, ConfigBlob

A configuration is a function from the members of `ActuatorConfig` to numbers;
a member a host can name has the name of its `ConfigField`.  `Valid` is
`validate_config` rule by rule, `InRange` with `Stored` is `stage_config_field`,
`Accepts` puts both together, `FieldValue` is what CONFIG_QUERY answers, the
cast to `int32_t` included.  The ranges of the types, the supported microsteps
and the bounds of the timeout are constants.  `ConfigBlob` reads and writes the
members in the order of the code, `ByteValues` values to a byte; `Offset` is the
`offset` both functions count up, and `Fits` says what the type of a member
holds.  Two things it makes plain: `axis_name` is not stored, and the blob has
104 bytes while the first check lets 96 pass (the reads behind it refuse them).

### RequestLink

The client, two lossy queues in order, and the device's one remembered request
with its answers.  `request` takes the first answer with its number; `ping`
passes over others, needs the PONG and remembers the ACK (`client.py:80-102`).
The session of a request is there to tell requests apart and is visible to
neither side.  `NewSession` is another client object on the port: numbers start
over and the input buffer is emptied (`transport_serial.py:70-83`).  `Resends`
gives the host the retry the firmware is built for; the Python client has none.

### SoftLimits

`position` and `target` are what the generator holds; the host sees them through
`FromBackend`.  The handlers of MOVE_ABS, MOVE_REL and RUN_VEL do their
arithmetic as in the code, in a range of 2 * `Half` integers.  The generator
steps in an interrupt, so `MoveRel` lets it take up to `MaxDrift` steps between
the position that is read and the move that is handed over.  `main.cpp:163` calls
`move()` of FastAccelStepper, which adds the delta to the target of the move
under way, and to the position if the generator rests (`BasesAt`); for one that
turns without a target the models allow either.  The fake of the tests adds to the
position always (`test_core.cpp:77`), so no test can see the difference.  Ramps are
left out: a generator that is told to stop has stopped stepping when the state
says so, and one that is told to turn the other way does so at once, where the
real one first slows down in the old direction.  The driver
is enabled, no latching fault is set and velocity and acceleration are in range:
`Actuator` has what happens otherwise.  `asked` is what the last command wanted,
for the properties.

### SerialLine, DeviceDecoder, HostReceiver, Framing

A byte is named by the packet and the place it comes from; the line may lose,
change or add one at any place.  `Receive` is `decode_packet` as far as framing
goes: exactly what was encoded passes, a checksum that matches by accident is
left out.  `DeviceDecoder` takes one byte per step (`service_serial` with
`consume`), with the buffer of `MaxFrame`.  `HostReceiver` reads chunks, cuts
frames at the first delimiter, and throws its buffer away when it has grown
beyond `MaxRx` without one.  `Framing` puts the two behind one set of variables;
a behaviour is about one of them, which `side` names, and the properties are
stated once for both.  The packets are independent of what the receiver
does with them, so neither is composed with `Actuator` or `RequestLink`, which
take a frame error and a lost packet as given.

### Cobs

`Walk` takes `EncodeByte` from byte to byte, as the loop of `cobs_encode` does, with
the place of the open block's code, and `Encode` adds the capacity; `Rest` is what
`cobs_decode` makes of the frame from each place on, a recursive function over
the places where a block begins.  `Block` is 0xFF in the code.  The Python twin
(`codec.py:37-80`) does the same without a capacity.

### BoardLoop

`phase` is where `loop` is: `service_serial` reads byte by byte until the port is
empty, then `update`, then telemetry.  Bytes arrive and milliseconds pass between
any two of these.  `now` wraps at `Wrap`; `silence` and `gap` are the true times,
for the properties.  A byte may complete a packet, which may start or stop a
velocity run, or a broken frame; the rest of a packet is `Actuator`'s.

### Bench

The program of `run_bench` is data: parts, each a sequence of lines, one per
request; first the parts of the script, then those of the `finally` block, each
with its own `try`.  `part` and `step` walk over it.  A line's effect on the device is an action of `Actuator`
(`Acked`, `Refused`); the request may also be lost before or after it takes
effect, the operator may interrupt, the port may not come back after a reboot,
and all of these end the script or one part of the clean-up (`Raised`).  Between
two requests `Actuator`'s clock, generator and `update` go on, a frame may
break, and the device may reset itself, with or without its port
(`ResetsItself`).  The bench starts at a device that has just booted with nothing stored, as
`Init` has it, so on the factory defaults.

### GuiWorker

`at` is where each thread is; the buttons are one thread, each connect starts
another that polls.  `call` holds the lock for a whole request; `disconnect` does
not take it, waits half a second for the poller, and closes the port under it if
need be (`JoinAndClose` may come at any time).  `onPort` are the threads whose
request still has its port.  `chatter` says whether packets nobody asked for
come within every packet timeout: the deadline in `transport_serial.py:118` is
per packet, so `request` goes on waiting for as long as they do.

## Runs

`tlc -config <run>.cfg <module>`; the module is `MCActuator` (the three
`actuator_` runs), `MCConfigStore`, `MCConfigFields`, `MCRequestLink` (both
`link_` runs), `MCSoftLimits`, `MCFraming`, `MCBench`, `GuiWorker` or `BoardLoop`.

| run | question | result |
|---|---|---|
| `actuator_motion` | Do the reported state, the events and the motor contract hold through refused motions, failed enables, soft limits, broken frames and both timeout actions?  Does a stop complete, and does a velocity run whose host falls silent stop or leave a fault? | holds |
| `actuator_config` | Do the copies of the configuration and the chip stay in step when the chip stops answering and the storage fails? | holds |
| `store` | Is the storage a register, with comparable generations and two copies, through power failures, failed writes, rot, slots that cannot be read and markers that cannot be taken away? | holds, as far as `promise` says |
| `config_fields` | Does every order of edits keep the configuration valid, can every valid one be reached field by field, and does a blob come back, at its full length only? | holds |
| `link_session` | Is a request carried out at most once, in order, between two boots, with two clients, and does a client ever take the answer to another of its requests? | holds |
| `soft_limits` | Does a move go where it was asked to, in the right direction, and is a MOVE_REL on top of a running generator the only way to aim outside the limits? | holds |
| `framing` | Do damaged bytes cost no more than two packets each at either end, never let a wrong packet through and never pass unnoticed, at a full buffer too?  Do stuffed data come back? | holds |
| `board_loop` | Do the watchdog and telemetry keep their time across the wrap of the clock, and does the watchdog trip? | holds, if the port runs empty |
| `bench` | What does the bench leave behind, with two failures anywhere, resets of the device included?  Does the number of the configuration fall behind the storage by anything but a save that failed and was carried out? | holds, with exceptions below |
| `gui` | Does a press come to its turn, and does every polling thread end, whatever connects and disconnects come in between? | holds, if the device pauses |
| `actuator_watchdog` | Does the velocity watchdog survive a broken frame? | violated |
| `link_duplicate` | Is a host that repeats nothing ever refused as a duplicate? | violated |

### What the violated runs show

- `actuator_watchdog`: RUN_VEL is accepted, one frame arrives broken,
  `record_frame_error` moves the state to FAULTED, and the timeout of `update`
  (`actuator.cpp:147`) only looks at RUNNING_VELOCITY.  The motor turns until
  somebody sends a stop.  README.md:190 has "velocity mode trips host timeout".
  The same holds of the other faults that latch: an unsupported command, a
  failed save or UART check (`RunawayOnlyByFault` says that there is no further
  way).
- `link_duplicate`: two CLI calls of one kind both have number 1; the device
  refuses the second (`actuator.cpp:205`, `client.py:42`), unless opening the
  port resets the board.  README.md:146-147 has exactly two such calls.  With
  equal payloads the second call is not carried out but answered from the cache.

### What the properties except

Some properties name a case the code does not keep; each is worth knowing.

- `EventsReported`: `record_frame_error` is the one caller of `set_fault` without
  a writer (`actuator.cpp:192-201`), so a host that follows the EVENT packets does
  not learn of the fault or of FAULTED (README.md:184 lists both).
- `RunawayOnlyByFault`: CLEAR_FAULTS sets IDLE or DISABLED whatever the motor does
  (`actuator.cpp:402-407`); the bench takes IDLE for settled (`cli.py:76`).
- `BeyondLimitsOnlyStacked`: excepts the MOVE_REL on top of a running generator.  With
  limits of 100 on both sides, MOVE_ABS 90 and at once MOVE_REL 90: both are
  accepted, since a move under way does not refuse another (`actuator.cpp:555`)
  and the second is checked from the position, still near 0
  (`actuator.cpp:563-573`).  The generator adds the 90 to the target it has, and
  goes to 180; every further MOVE_REL adds to that.  README.md:190 has "soft limits
  fault before issuing out-of-range motion".  TLC refutes the invariant `AimsInside`
  in these two steps.
- It excepts one step, too: `INT32_MIN` at the generator reads as `INT32_MAX` when
  the direction is inverted, so a relative move from there is checked one step off.
  A MOVE_REL to `INT32_MIN` with an inverted direction is accepted, while MOVE_ABS
  refuses it, and wraps.
- `BehindOnlyByFailedSave`: a save that failed and was carried out leaves a record
  in the storage with a higher number than the firmware answers
  (`actuator.cpp:450-457`), and the next load brings it in.  The number of a later
  save may then be one the host has seen before, for other contents.
- Velocity runs are not held to the soft limits at all (`actuator.cpp:595-630`);
  README.md:190 is true of moves at most.
- `AnswerIsMine`: the number is all a client goes by, so a client can take the
  late answer to a request of the client before it under the same number.
- `ping` reports a device that answered as dead when only the ACK is lost
  (`client.py:102`), and repeats of answers can make it wait out its timeout.  No
  property forbids either.
- The cache of four responses just fits the longest answer, that of
  GET_DRIVER_STATUS with its events; a fifth would be dropped in the replay.
- `WatchdogTrips` assumes that the port runs empty again and again: a host that
  sends broken bytes without a pause keeps `loop` in `service_serial`, and
  `update` never runs (`main.cpp:293`).
- `PressServed` assumes that the device is silent between its packets from some
  time on.  With telemetry or events always within the packet timeout one lost
  answer keeps a request, and with it the lock, waiting for good; the emergency
  stop of the GUI waits for the same lock.
- `CleanupRestores` excepts an edit that was staged when the script broke off:
  the clean-up compares the active values only (`cli.py:361-390`), and its apply
  brings the forgotten edit in.  It excepts a device that resets itself during the
  clean-up, too: between the apply and the save of a repair the old value is
  forgotten, and the tried one is saved again.  It promises nothing of flash either: if the
  script breaks off between apply and save, or the clean-up does, flash may keep
  the tried value while the active one is the old one.
- `PassedMeansRestored` is about the host timeout and the direction.  The
  telemetry rate is never put back and is saved with the rest, and the report can
  say ok over a chip that answers but is unconfigured.
- `CleanupLeavesSafe` allows "stopping": CLEAR_FAULTS takes a ramp that is under
  way for settled, and the disable then switches off under it.  It says nothing
  of a clean-up whose requests are lost: without the ramp stop, clear and disable
  leave the generator pulsing a dead power stage.

### Bounds

- `AgeCap` 2 with a timeout of 1: ages before, at and beyond the timeout.  The
  firmware only compares, so larger ages add nothing.
- `MaxGeneration`, the highest number a record gets: 1 in `actuator_config` and
  `actuator_motion`, where a first save is all that is tried until a factory reset;
  8 in `bench`, where saves, failed saves, reboots and resets of the device follow one
  another.  The bench has no factory reset, which takes records away and gives
  none a higher number; the theorem has both.
- `actuator_motion` has one driver setting and both timeout actions;
  `actuator_config` has two settings and two intervals and one action: staging
  two fields and losing one of them needs two fields with two values.
- `actuator_config` allows no frame errors, no host mistakes and no ramp stop that
  fails, and `actuator_motion` no configure or storage failures: the faults they would set
  change the state in the same way, and the proofs cover all of them together.
- `store`: two configurations, so that old and new differ; generations modulo 8
  wrap within a run and keep the signed comparison meaningful (half of 8 is more
  than the distance 1 that occurs); two rotted payloads cover the loss of both
  slots.
- `config_fields`: numbers of a few values, on both sides of every rule and of
  every range; a byte has sixteen values, so that members take several bytes; the
  wanted configurations are all combinations within a group of fields that some
  rule ties together, since no rule ties two groups.
- `link_*`: two frames in each direction let a late answer and its repetition
  overtake a new request; three numbers in each of two sessions let a number meet
  itself and its neighbours (two in `link_duplicate`).  The 16-bit number does not wrap
  in the runs.  `executed` starts over at a boot: the device remembers nothing
  across one, so a repeated request may take effect again after it.  Two stage
  requests that differ and a ping: a pair that the device takes for a duplicate,
  and an answer of two packets.
- `soft_limits`: twelve values, `MaxDrift` two; limits in the middle, with room for
  the drift, and at the lower end, where negation and sums meet the end of the
  range.
- `framing`: three packets, so that one stands between two; two failures, which
  make two delimiters go and three frames run together; sizes 3 and 4 with a
  buffer of 4, so that a frame fills it and two overrun it.  A chunk of 3 cuts
  frames at every place.  Stuffed blocks of three data bytes and six bytes
  (`MaxLength`): two full blocks, and a full block at the end, before a 0 and
  before another byte.
- `board_loop`: a clock of eight milliseconds wraps many times; the timeout is 3 and the
  interval 2; two bytes in the port are enough for one to arrive while another
  is read.  `Tick` lets no velocity run go unattended for a whole turn of the
  clock, which takes 49 days.
- `bench`: two failures (`MaxFailures`; a reset is one), so that one can break the script off and
  one the clean-up; ages up to 3 with timeouts 1 and 2; `MaxGeneration` 8 is
  more than the saves a whole run makes.
- `gui`: three polling threads: one that a join gave up on, its successor, and one
  more.  A connect waits in the model while all three are alive.

Deadlock is checked where the system cannot stop: in all runs but two.  The line
of `framing` runs empty after `MaxSent` packets and its inputs stop at their
length, and `bench` comes to its end.

### Fairness

`FairSpec` of `Actuator` assumes that `update` keeps being called (`loop` has
nothing that waits, `main.cpp:338-343`), that a move or a stop of the generator
ends, and that time passes.  It assumes nothing of the host or the line.  Two
things it takes for granted: a velocity run never ends by itself, and the serial
port runs empty often enough for `loop` to reach `update`; `BoardLoop` has the
latter as the premise of `WatchdogTrips`, and assumes only that `loop` goes on
and that time passes.

`GuiWorker` assumes that each thread runs on and that a request on a silent or
closed port comes to its end (weak fairness), and that a thread gets the lock if
it is free again and again (strong fairness): a poller sleeps for a quarter of a
second after giving it back, so a waiting thread finds it free.  Nobody has to
press a button, and no answer has to come.

## Theorems

`tlapm ActuatorProofs.tla` proves, for every set of configurations, every set of
failing callbacks and every kind of frame error, from the assumptions `Actuator`
states on its constants:

- `TypeCorrect`.  It is inductive as it stands, and carries the one fact the
  others need of data: what is active, staged or stored is valid.
- `OutputsAgree`: `driverEnabled = outputs`, inductive.
- `MotionFaithful`: not inductive alone; a motion is admitted by
  `driver_enabled_`, so the step of `Move` and `RunVelocity` needs
  `OutputsTracked`.  The inductive invariant is the conjunction.
- `ConfigInSync`: with `TypeOK`, which rules out the branches for invalid
  configurations.
- `BehindByFailedSave`: with `TypeOK`, whose part about the storage (the other record
  is the older one) says what each of the ways a save or a reset may break off
  leaves to be loaded.
- `KeepsMotorPromise`: `Actuator` implements `MotorContract`, step by step,
  from the three invariants.
- `EventsOnlyMissFrames`, `RunawayNeedsFault`, `EnableNeedsConfigure`,
  `ChipFollowsConfig`, `ConfigFrozen`, `StagedEditsBuild`: the action
  properties.  `RunawayNeedsFault` assumes a `ramp_stop` that does not fail,
  since `update` ignores its result (`actuator.cpp:167`).

`SoftLimitsProofs` has, for integers of every width and every pair of limits:
`TypeCorrect`; `AbsoluteMovesExact`, inductive with it, since the configuration
is frozen in a motion state; `LimitsHold`, that only a MOVE_REL on top of a running
generator aims outside the limits, whose step for a MOVE_REL from rest rests on a
lemma that follows the goal through the inversion and the wrap;
`RunsTheRightWay`, from the invariant `RunsAsAsked`: a velocity run turns the
generator as the inverted velocity asks, and keeps both until it ends.

`ConfigFieldsProofs` has, for every table of inputs and every width: `TypeCorrect`,
that is, no order of edits leaves an invalid or out-of-range configuration; and
`AlwaysRestorable`: between two valid configurations there is always an accepted
edit that brings the first nearer to the second.  The argument takes the groups
of fields that a rule ties together one by one; within a group a ceiling
goes first when it rises and last when it falls, a switch is turned off first and
on last.

`WrittenIsRead` and `BlobsComeBack` are about the stored bytes: every valid
configuration is read back as it was written, and nothing shorter than the whole
is taken, for every even number of values of a byte.  Three things make it up.
No byte is of two members (`OwnerOfByte`): the offsets are sums of widths, and
grow.  The bytes of a number, with their weights, add up to it but for a multiple
of what they have room for (`BytesSum`), by quotients and remainders of numbers
of either sign; what is left is the number again if the type holds it (`Room`).
And every member holds a number of its type (`MembersFit`), which is what the
range checks of `stage_config_field` and the rules of `validate_config` come to:
a width chosen too small for a field would break there.

### The storage

`ConfigStoreProofs` is about any set of configurations, any even number of
generations from four on, any set of slots that can fail to be read, and any
number of power failures, failed writes and rotted payloads.  `TypeCorrect` comes
first.  None of the properties is inductive: each speaks of what a load returns,
and a save passes through states in which the slots look like anything.
`StoreInv` adds what a save knows at each of its steps:

- `SparesSlotInUse`: the slot being written is not the one a load returns, its
  generation is the next after the other's, and until its payload is written it
  counts for nothing, or for what is loaded anyway;
- `WrittenSoFar`: what each step has left in the slot;
- `Neighbours`: two loadable slots are one generation apart;
- `StreakKept`: what good saves in a row leave behind them.

From it follow `AdjacentGenerations`, `CopiesKept` and `DoneIsWritten`, and
`StoreImplementsRegister`, that `ConfigStore` refines `ConfigRegister`.  There
the step that matters is the marker: `WriteCommits` shows that writing it changes
what a load returns from the old configuration to the new one, since the signed
comparison (`NeighboursOrdered`) prefers the successor of every generation, the
one that wraps to 0 included.

### Requests

`RequestLinkProofs` is about any set of commands, any number of clients and
requests, any capacity of the line, with and without repeated requests.
`TypeCorrect` comes first.  `AtMostOnceInOrder` rests on one order: requests are
sent in increasing order of client and number, and the line keeps it.
`EffectOnceInOrder` alone is not inductive, since a request still on the line
could be older than the last one executed; the invariant says that none is
(`LineInOrder`), that nothing executed is later than the request remembered
(`LastIsExecuted`), and that whatever is anywhere was sent and is not later than
the one being waited for.  `AnswersBelong` adds that an answer carries the number
of its request, and that a number was given out once in a session.

### Framing

`FramingProofs` is about any number of packets of any sizes that fit the buffers,
any number of failures of the line, any chunks, and both receivers.  `BoundedBuffers`
is the type correctness of each.  The others are invariants of one sequence, the
`stream`: the bytes in the buffer followed by those on the line.  Seen this way
the two receivers do the same (`Judged`): a step leaves the stream as it is, or
takes bytes off its front and passes a verdict, which is a delimiter skipped, a
whole packet delivered, or bytes that are no whole packet given up with an
error.  So each argument is made once, with one case
per kind of step (`StepOnStream`): a packet sent, a byte lost, changed or added
(`Hit`), and a verdict.

- `PacketsInOrder`: the places of packets stand in order on the stream, and behind
  what has been delivered (`OrderInv`).
- `ErrorsTrue`: as long as nothing has failed the stream is whole encodings, cut
  only at its front (`CleanInv`); and as long as no error was counted, a packet
  that was not delivered lacks no more bytes than the line has failed times
  (`LossInv`).
- `DamageStaysLocal`: a packet stands if it is whole on the stream, behind a
  delimiter or at the front; a receiver takes nothing off it but all of it, by
  delivering it (`StandsOrOut`).  The packets that neither stand nor were
  delivered are the ones that are lost or may be.  One failure touches at most
  two packets, a delimiter's loss being the worst; but a failure behind the last
  delimiter touches the packet before and, later, the next one sent.  `LocalInv`
  charges that next packet in advance: the number of packets gone, and one if
  the stream does not end in a delimiter, is at most twice the failures.

### Byte stuffing

The second half of `FramingProofs` is about `Cobs`, for data of every length and
content and every block size: `StuffingReadsBack`, `StuffingFits` and
`StuffingIsUnique`, and from them `StuffingAlwaysFaithful`, the property of the
run.  `Walk` and `Rest` recur over the data.  A statement about every place is
proved by looking at the first place where it fails (`LeastPlace`, from the
library's well-founded orders): it is not the first of all, it holds at the place
before, and a step does not break it.  That the recursion has a value at all
(`WalkStep`, `RestStep`) is shown in the same way.

- Reading back: the output of `Walk` is blocks that are closed and one that is
  open (the invariant of the walk).  From the last block backwards, `Rest` makes
  of the blocks from any of them on just the data that went into them.
- Length: every closed block but a full one has a 0 of the data to pay for its
  code; a full one has `Block - 1` bytes.  The length never shrinks, so a check
  before each byte fails exactly if the whole does not fit.
- Uniqueness: a frame that `cobs_decode` accepts lies block by block on the
  encoding of what was read, to the end, where a last empty block may be missing
  behind a full one.

### The loop

`BoardLoopProofs` has `NothingEarly`, for a clock of any width and any timeout and
interval that fit it.  The invariant says that the difference modulo `Wrap` of
the clock and each stamp is the true time, as long as that is less than a turn.

### The bench

`BenchProofs` is about every set of configurations the firmware accepts, every
timeout and interval the bench tries, every set of failing callbacks but a ramp
stop that fails, any frame errors, and any number of failures.
`BenchDrivesTheDevice` says that every step of the bench is a step of `Actuator`
or leaves the device alone, so that `TypeCorrect` holds of the device here as
well.  It comes along with `PlaceOK`, that the program is never between two
lines, because that a line asks for a mode the firmware knows is a fact of the
lines there are.

The three properties speak of the end of the program; none is inductive.
`Promises` says what each place in it may rely on, and the proof goes through the
program as it stands, with a lemma of its own for a reset of the device
(`ResetKeeps`), which leaves it at rest, with nothing staged and with what is in
flash:

- `CleanupIsSafe` rests on `StopsInOrder`.  The order of the clean-up is the
  argument: the switch-off is refused in a motion state, so faults (and with them
  the state) are cleared before it, and the motor is stopped before that, since
  clearing takes the state away from a motor that turns.
- `CleanupPutsBack` rests on `AppliedNext` (in the script whatever is staged is
  applied next, so that only an exception between the two leaves an edit staged)
  and `RepairsInOrder` (a repair stages its one value and nothing else, and the
  second repair does not undo the first).  It needs `StopsInOrder` too: an apply
  is refused in a motion state, and a refusal is an answer.
- `PassedIsRestored` rests on `SavedInOrder`, from the save of the restored timeout
  to the verdict; on `RestsSinceReboot`, since nothing after that reboot powers the
  driver; on `Noted`, that both values were noted before anything was changed;
  and on `NothingToRepair`, that the clean-up of a bench that passed, whatever is
  lost of it, edits nothing any more.

### Assumptions

The proofs use nothing of the constants but the named assumptions of the
modules.  Most are ranges.  `NoneAssumption`, `NothingAssumption` and
`BytesAssumption` say that a value that stands for nothing is none of the things
it is told apart from.  `FrameAssumption` and `RxAssumption` say that a frame
fits the buffer, as `MAX_FRAME_SIZE` and `RX_BUFFER_LIMIT` see to.
`StoreAssumption` has an even number of generations, as 2^32 is; an odd
one would make `config_store_generation_newer` lopsided.
`LayoutAssumption` and `LengthsAssumption` say that `default_config()` holds
numbers of its types, that the bounds of the checks are those of two and four
bytes, and that the blob is as long as the accepted lengths allow, as 104
bytes between 96 and `CONFIG_BLOB_MAX_SIZE` are; TLC evaluates them in `config_fields`.
`FailureAssumption` tells a failed encoding from every sequence of bytes.

`MotionStateFaithful` excepts STOPPING where `ramp_stop` may fail, as
`RunawayNeedsFault` does.
`OutputsAgree` is no property of a run by itself but a part of the other
invariants' induction.

### What is only model-checked

- Liveness: `StopCompletes`, `SilentHostStopsOrFaults`, `WatchdogTrips`,
  `PressServed`, `PollersEnd`.  Fairness and ENABLED are out of the prover's reach.

Every other property of a passing run is stated by a theorem.

## Not modelled, and why

- The CRC polynomial, the layouts of payloads and the tables of names: they hold
  no state that another step could meet, and golden tests pin them.
- The statistics counters, the boot event, the lists of events and telemetry the
  client collects: nothing reads them back into a decision.
- Argument parsing, the report's texts, files, the window of the GUI: presentation.
  The commands of the CLI other than the bench are one client call each.
- The pins, the registers of the TMC2209 and the planner of FastAccelStepper are
  outside the repository; the models take what the callbacks promise.
- Undefined timing below a step: every backend call is a moment, except for the
  relative moves of `SoftLimits`.

## Plan

1. Done: `MotorContract`, `Actuator`; `ConfigStore` over `ConfigRegister`;
   `RequestLink`; `SoftLimits`; `SerialLine` with `DeviceDecoder` and
   `HostReceiver`; `Cobs`; their first theorems.
2. Done: `ConfigFields` and `ConfigBlob`, with theorems; `BoardLoop`; `Bench` over
   `Actuator`; `GuiWorker`; pings in `RequestLink`; `promise` in `ConfigStore`.
3. Left: `System`, `Actuator` over `ConfigStore` instead of `stored` and `older`, with
   resets in the middle of a save.
4. Done: theorems about `ConfigStore` with the refinement of `ConfigRegister`,
   `RequestLink`, both receivers, `BoardLoop`, and the direction in `SoftLimits`.
5. Done: theorems about `Bench`, from an invariant that says at each place of the
   program what is already safe.
6. Done: theorems about the byte stuffing and the stored layout, over recursive
   functions instead of folds.
