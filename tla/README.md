# Verification of the UGV on-board daemon

TLA+ models of the Raspberry Pi daemon of this repository, the configurations
that model-check them with TLC, and theorems about them whose proofs TLAPS
checks. `PROJECT.json` lists the runs, the mutants, the source lines each
definition stands for, the hazards and the theorems. Paths below are relative to
the root of the repository.

To repeat a run: `tlc -config SafetyNode.cfg MCSafetyNode`. To repeat a proof:
`tlapm SafetyNode_proofs.tla`.

## 1. The system

One process (`main.py`) registers six nodes with a `Launcher` and waits for a
signal. The nodes talk through `MessageBus`, which has no thread of its own:
`publish` calls the subscribers one after the other in the thread of the
publisher. Nearly every hard behaviour follows from that. A joystick command, a
heartbeat, a camera command and a link change all run to completion in a paho
network thread, in competition with the loops the nodes run in threads of their
own.

| Component | State | Operations | Threads |
|---|---|---|---|
| `SafetyNode` (`safety/watchdog_node.py`) | E-stop pin, `ARMED`/`ESTOP_ACTIVE`, age of the last heartbeat, `_running` | configure, activate, heartbeat callback, watchdog iteration, shutdown | main, one paho thread per link, watchdog |
| `DriveNode` (`drive/drive_node.py`, `mixer.py`) | latest joystick, `_armed`, current speeds, backend | two bus callbacks, control iteration (snapshot, mix, ramp, drive), shutdown | paho threads, watchdog (via the bus), control |
| Motor backends (`drive/backends/`) | duty cycles, I2C or serial port | `set_speeds`, `stop`, `cleanup` | control, main |
| `DualClient`, `MqttBridgeNode` (`mqtt/`) | snapshot of two links, last seq per topic, paho clients | start with retries, subscribe, publish, on_connect / on_disconnect / on_message, stop | main, one paho thread per client |
| `MessageBus`, `StateManager` (`core/`) | listeners; last value per topic | publish, subscribe; handlers | the publisher's |
| `main`, `Launcher`, `BaseNode` | lifecycle state per node, stop event, signal handlers | start_all, shutdown_all in reverse, exit | main; systemd around it |
| `CameraNode` (`camera/camera_node.py`) | peer connection, track, MJPEG encoder | camera command, answer, clean-up as asyncio tasks | asyncio loop, paho threads, main |
| `MjpegServer` (`camera/mjpeg_server.py`) | client count, one queue | stream handler, encoder attach / detach | asyncio loop, encoder |
| `PiCameraTrack` | Picamera2 instance | start, stop, `recv` | asyncio loop, executor |
| `SensorNode`, `GpsReader`, ADC readers (`sensors/`) | serial buffer, last readings | polls with individual periods | sensor |
| `TelemetryNode` | last safety status, link snapshot, readings | callbacks, publish loop | telemetry, publishers' |
| `monitor.py` (a second program) | `_state`, one bounded queue per browser, `_ping_times` | MQTT callbacks of two clients, `/events` handler | two paho threads, one HTTP thread per browser |
| configuration loader, mDNS, logging, timing, shell scripts | none that runs | | |

What makes each component correct, and the behaviours that are hard to test:

* **SafetyNode.** The relay is never left released longer than the time-out plus
  a known lateness; relay, state machine and published status agree; a node
  that timed out re-arms; shutdown ends. Hard: two heartbeat callbacks and the
  watchdog interleave, the watchdog is late, and `on_shutdown` does not take the
  lock.
* **DriveNode.** A disarming brings the motors to a stop in bounded time however
  the loop is interrupted, a motor never jumps, nothing moves after shutdown.
  Hard: `_armed` is copied and used later, `dt` is measured, the loop dies on an
  exception, or goes on because the driver has swallowed it.
* **DualClient.** Link state agrees with the connections, every link is
  subscribed, `stop` leaves no thread, each command is delivered once and the
  newest is never held back. Hard: two networks that lose and reorder, delivery
  outside the lock, a console that starts counting again.
* **Lifecycle.** Nothing is left running, the safety node goes last, the relay is
  not left released on any way out. Hard: any node may raise, the safety node
  included, a signal may come at any time, the process may be killed.
* **Safety and drive together.** When the operator is lost the motors are off, or
  without power, in bounded time, and an operator who stays connected drives.
  Hard: a status is published, copied and used by three threads, and the control
  loop may die.
* **Telemetry.** What the console shows in the end is the status of the vehicle,
  over two links that come and go. Hard: the status is published on changes only,
  older payloads wait in a link that is down, the telemetry thread can outlive
  the join that waits for it.
* **Camera.** One owner of the camera, which the node can stop; what is sent is
  what the camera is; no command waits forever; an encoder runs exactly while
  somebody watches, no stale frame. Hard: tasks interleave at every `await`,
  frames are fetched in another thread, calls of picamera2 raise.
* **SensorNode, GpsReader.** A sensor that works is published in time whatever the
  others do; every sentence that arrives whole is reported once and in order; no
  poll touches a port that is closed. Hard: one thread for all sensors, reads cut
  the stream anywhere, the port overruns.
* **Monitor.** What a browser shows is what the monitor has. Hard: state and
  event travel under two different locks.

## 2. Modules

| Module | Models | Composed with |
|---|---|---|
| `UgvStop` | `SafetyNode` and `DriveNode` in one process, with the bus between them and the launcher's order | instances of both and of `Backends`; implements `HaltingVehicle` |
| `HaltingVehicle` | what the safety chain promises of the whole vehicle | |
| `SafetyNode` | the node with its three kinds of threads | implements `DeadManSwitch` |
| `DeadManSwitch` | what the E-stop promises: released only by a recent heartbeat, or by the start of a switch that arms itself; engaged within a bound | |
| `DriveNode` | callbacks, control loop, ramp, shutdown, failing mixes, drivers that raise and drivers that swallow | its constant `Mix` is computed by `Mixer` in `MCDriveNode` |
| `Mixer` | `arcade_mix`, `tank_mix`, `_compute_mix` with inversion, scaling and missing axes, on integers | |
| `Backends` | the duty cycles of `gpio_pwm` and the pulses of `pca9685` for a speed | |
| `DualClient` | start, retries, connections, subscriptions, link snapshot, publish targets, stop | |
| `Telemetry` | `TelemetryNode` over the bridge, the network and the console | extends `DualClient` |
| `JoystickPath` | `on_message` with its dedup, `_on_dual_message`, `publish`, `StateManager`, `DriveNode._on_joystick` | implements `LatestCommand` |
| `LatestCommand` | a register that only ever takes a later command | |
| `Lifecycle` | `main`, `Launcher`, `BaseNode`, signals, systemd's restart, the relay pin | |
| `CameraNode` | the WebRTC session on the asyncio loop with its FIFO of ready tasks | with `PiCameraTrack` for its tracks |
| `PiCameraTrack` | a Picamera2 per track over one camera, `recv` in the executor, calls that raise | |
| `MjpegServer` | server start and stop, stream handlers, encoder, output queue, the camera underneath | |
| `GpsReader` | the receiver, the serial port and `read` | |
| `SensorNode` | the poll loop with a timer per sensor, start, stop and the close of the port | extends `GpsReader` |
| `Monitor` | both MQTT clients, `_push`, the `/events` handlers, the page's display | |
| `SafetyNode_proofs`, `DriveNode_proofs` (with `Mixer` and `Backends`), `UgvStop_proofs`, `Console_proofs` (`DualClient`, `Telemetry`, `Monitor`), `JoystickPath_proofs`, `Lifecycle_proofs`, `SensorNode_proofs`, `Camera_proofs` (`CameraNode`, `MjpegServer`) | theorems | |

`MC*` modules give the constants that a `.cfg` cannot write. Definitions marked
"Faulty variant" are the mutated forms that `PROJECT.json` substitutes to see
that each property can fail; no specification uses them. Each module's `TypeOK` says
what its variables hold. It is part of the inductive invariants the proofs use
and no property of a run: the runs are for what could be wrong.

**How state and actions correspond to the code.** Variables carry the names of
the attributes where TLA+ allows (`watchdogState` is `_watchdog_state`,
`armedSnap` is the local `armed` of the loop). An action is what a thread does
between two points at which another thread can run: a lock taken or released, a
sleep, an `await`, a bus callback into another component.

* `SafetyNode`: a heartbeat is `HeartbeatRefresh` or `HeartbeatArm` (lock taken,
  state changed), `HeartbeatRelease` (the pin), `HeartbeatPublish` (status, lock
  released). A watchdog iteration is `WatchdogTest`, one of
  `WatchdogExpire` / `WatchdogResume` / `WatchdogNothing` under the lock,
  `WatchdogSetEstop`, `WatchdogPublish`, `WatchdogWake`. `on_shutdown` is
  `ClearRunning`, `ShutdownEngage`, `JoinAndCleanup`, none under the lock.
  `StopMqtt` ends the heartbeats first, as `Launcher` shuts MQTT down before
  safety.
* `DriveNode`: `LoopTest`, `LoopSnapshot` (the copies under `_joy_lock`),
  `LoopDrive` (mix, ramp, `set_speeds`), `LoopWake`. `current` is what the loop
  believes (`_current_left`, `_current_right`), `motors` what the hardware was last
  told, `lost` the channels that the last write did not reach. `MixDies` and
  `BackendDies` (`gpio_pwm`) are the exceptions that end the thread, the latter
  possibly between two channels; `BackendSwallows` (`pca9685`, `serial_plc`) is the
  error that is logged while the loop goes on.
* `UgvStop`: a publication of the safety node is one step with
  `DriveNode._on_safety`, which the bus calls in the publisher's thread under the
  safety node's lock (`PublishStatus`). `StartUp` and `ShutDown` are main in the
  launcher's order; both nodes share one clock. The driver is `gpio_pwm`, the
  default.
* `Telemetry`: `Assemble` copies the cached status under the lock, `Publish` chooses
  the clients one step later, and `Send` hands it to one of them at a time;
  `ClearAndJoin` leaves the thread wherever it is, since the join gives up after
  2 s. `wire` is what a client has not had acknowledged (QoS 1), so
  `DeliverUnacked` repeats a payload.
* `DualClient`: `_update_link_state` is two steps, because the copy goes to the
  bus after the lock is released (`UpdateLinkState`, then the thread's
  notification). A slot ("local", "vps") is an attribute of `DualClient`, a name
  the endpoint's; with only the VPS configured they differ, as in the code.
* `JoystickPath`: `Accept` or `Discard` under `_lock`, then `Route`,
  `OnJoystickState`, `OnJoystickDrive` one subscriber at a time.
* `Lifecycle`: `on_activate` of the MQTT node has a beginning and an end, since
  heartbeats can arrive in between; `Terminate` is a signal, with its default
  effect before main installs the handlers. The pin is "engaged", "released" or,
  after `GPIO.cleanup` and before `GPIO.setup`, an "input" that nobody drives.
* `CameraNode`: a task runs from one `await` to the next; `ready` is the loop's
  FIFO, `closers` the tasks inside `close()` of one connection.
* `PiCameraTrack`: `StartedCamera` and `StoppedCamera` are operators on the record
  `device` (what each track believes, which Picamera2 has the camera), with which
  the tasks of `CameraNode` act; `RecvCaptures` and `CaptureEnds` are the two ends
  of `run_in_executor`, between which the loop goes on. Any call may raise
  (`Raised`).
* `MjpegServer`: neither encoder hook suspends, so a handler's critical section
  is one step; `puts` are the `call_soon_threadsafe` calls on their way. `stop`
  is `ServerStop` up to its await and `ServerStopped` after it; a start of the
  encoder that raises is `ConnectRefused`. `StopAbandoned` is `on_shutdown` that
  has waited its 3 s for the stop and ends the loop under it.
* `GpsReader`: a sentence is two pieces, so that a read can cut it.
* `SensorNode`: an iteration polls the sensors in their order (`PollStep` for the
  others, `PollGps`), each when its own interval has passed; `Tick` may pass
  while a poll runs, up to `Late` ticks per iteration and per wake-up.
* `Monitor`: a callback changes `_state` in one step and pushes its event in
  another.

## 3. Runs

Every run completes; states are distinct states.

| Run | States | Question |
|---|---|---|
| `ugv_stop` | 830 900 | Are the motors off, or powerless, in bounded time after the operator is lost, does the drive node follow the relay, and does an operator who stays drive? |
| `safety_node` | 3 000 | Is the relay a dead man's switch with a bound, in agreement with the status, and does it re-arm and shut down? |
| `drive_node` | 89 500 | Does a live loop ramp down in time, only slow down when disarmed, never jump, stay quiet after shutdown, reach a command that is held and come to rest, also with a driver that swallows errors? |
| `telemetry` | 375 500 | Does the console show the status in the end, do link state and subscriptions follow the connections, does the console hear nothing once stop has ended, and does stop end? |
| `dual_client_resubscribe` | violation | Is every active link subscribed? |
| `joystick_path` | 63 400 | Is each command delivered once, the newest never held back, and is one link a latest-value register? |
| `lifecycle` | 2 400 | Is everything shut down in order, is the relay not left released by a process that ends by itself, and engaged again after a crash? |
| `lifecycle_stop` | violation | Does a stop at any time leave the relay other than released? |
| `camera_node` | 586 100 | Does the node know the one track that has the camera, is the picture sent the picture it has, and does every command end? |
| `mjpeg_server` | 100 600 | Is the encoder attached exactly while somebody watches, detached once the stop of the server is over, and are the frames fresh? |
| `sensor_node` | 380 700 | Is a working sensor published in time, every intact sentence reported once and in order, and the port unread once closed? |
| `monitor` | 862 700 | Does a browser that is fed show the monitor's status? |

**Bounds, and why they are enough.**

* `safety_node`: two links; time-outs below the floor (0) and above it (4
  against a floor of 3), a poll of 2 ticks, lateness 1. The age counts to 9,
  which `SafetyAssumption` requires to exceed every bound under test, so nothing
  is cut off. The theorems remove these bounds.
* `drive_node`: full speed is 3 and a ramp step 1, so a ramp takes several
  iterations; the safety ramp (3) differs from the operator's; a turn on the spot,
  with one wheel forwards and one backwards, and a malformed command; one driver
  that raises and one that swallows, each on any set of channels in any
  iteration; `sinceDisarm` counts to 5, as `DriveAssumption` requires. A change of
  direction under way is in the theorems only, which remove these bounds.
* `ugv_stop`: one link (two are in `safety_node`), a configured time-out of 1
  under the floor of 2, a joystick command that turns the two wheels against
  each other and a malformed one, full speed 3 in steps of 1, a safety ramp
  three times as steep (the mutant that ramps down as slowly as the operator's
  ramp breaks the bound), a backend that may fail between the channels; ages to
  9. The bounds of `MotorsOffAfterLoss` and of `HaltingVehicle` are sums of the
  parts, not claimed to be the smallest. The theorems remove these bounds.
* `telemetry`: dual, local-only and VPS-only; one inbound topic and one retry; one
  message per client in flight, of which only `armed` is kept: older and newer
  payloads, repetitions and a message that waits in a link that is down all
  occur, and so does a publication under way when the join gives up and the
  clients are stopped. Connections are lost and made again without bound.
* `dual_client_resubscribe`: `DualClient` alone, with two topics and two retries.
* `joystick_path`: four commands over two links, or over one, with losses on
  each, one command without seq, one that has a seq but does not deserialize, one
  restart of the console at any point.
* `lifecycle`: the six nodes of `main.py`; the safety, MQTT and drive nodes may
  raise when starting, safety, sensors and drive when shutting down, the safety
  node before or after it has moved the pin; two crashes. In `lifecycle_stop` no
  node raises and nothing crashes, so that only the stop itself can be to blame.
* `camera_node`: three commands are enough for one task to wait in the close
  that another began while a third runs; one call of picamera2 raises, at any
  point. The theorems remove these bounds.
* `mjpeg_server`: two viewers, three cameras, three attachments, four frames: a
  frame of the first attachment can be in flight during the second.
* `sensor_node`: a sensor that may raise polled every tick and the GPS every two,
  lateness 1, so that a poll is late because of the other sensor; ages to 6
  against a bound of 5. Three sentences of every kind, room for three pieces, so
  that a sentence and a half can wait and the port can overrun. The theorems
  remove the bounds on sensors, intervals and lateness.
* `monitor`: one or two clients, two browsers, queues of 2 in place of 64, two
  messages and one ping: enough for a queue to fill while a handler is slow.

Deadlock is checked in every run except `joystick_path`, where the operator may
simply stop sending. The other modules state their stopped states explicitly
(`Terminated`, `Stopped`, `Gone`).

**Fairness.** Threads that can run do run: weak fairness on each thread's next
step. Nothing external is fair: no heartbeat, connection, signal, viewer or
command has to come. These points need an argument.

* `SafetyNode` has strong fairness on the watchdog's acquisition of the lock: it
  asks ten times per second for a lock others hold for a few instructions.
* `Lifecycle` has weak fairness on `Restart`, which is `Restart=always` of
  `ugv.service`; after a requested stop systemd restarts nothing, and the model
  says so. It has strong fairness on `Configure`: a `GPIO.setup` that may raise
  does not raise in every process that systemd ever starts.
* `DriveNode` has no fairness on the hardware: `ReachesCommand` and
  `DisarmedComesToRest` have as a premise that it takes a whole write again and
  again (`WritesArrive`).
* `CameraNode` assumes that aiortc ends what it has begun (`Gathered`,
  `CloseDone`); without that a task would wait in the library.
* `SensorNode` has strong fairness on the poll of the GPS although it may raise:
  the loop goes on after an error, and the port does not fail on every poll from
  some point on.
* `Telemetry` has strong fairness on `Deliver`: a client that is connected again
  and again gets what it holds acknowledged in the end, as QoS 1 promises.

Time is discrete in `SafetyNode`, `DriveNode`, `UgvStop` and `SensorNode`: `Tick`
cannot pass the latest moment at which an iteration is due. That is an assumption
about the operating system's lateness (`Jitter`, `LoopJitter`, `Late`), and the
bounds proved are expressed in these constants.

## 4. Findings

Two disagreements with the repository's own words have a run:

* `dual_client_resubscribe`: topics are subscribed once, at activation, with a
  clean session; a link that is lost and made again is up and deaf
  (`dual_client.py:149` against `mqtt_bridge.py:121`).
* `lifecycle_stop`: the signal handlers are installed after `start_all`
  (`main.py:82`); a stop before that, after a first heartbeat, leaves the relay
  released, against "On shutdown, the E-stop always engages"
  (`README.md:118`).

Four more sentences of the repository are not what the code does. No run is
about them; the models contain the behaviour, and the properties are stated so
that they do not hide it:

* `README.md:115`, "if the Pi loses power or crashes, GPIO goes LOW and the E-stop
  engages": a daemon that is killed while armed leaves the pin HIGH (`Crash` in
  `Lifecycle`). The relay is engaged again when systemd has started the unit,
  which is what `CrashRecovers` says, and never if the unit is being stopped.
* `README.md:117`, "On startup, motors are locked until the first heartbeat": with
  `safety.startup_armed` `on_activate` releases the relay and publishes an armed
  status with nobody heard from (`watchdog_node.py:93-97`). `DeadManSwitch` has
  this as the one exception (`Start`), and `HaltingVehicle` as `SetOut`; both hold
  to the sentence when the setting is off.
* `README.md:119`, "If the operator connection is lost, motors ramp to zero within
  the configured timeout": the node waits for the whole time-out before it
  disarms, and ramps after that. What holds, and is proved, is the longer bound of
  `MotorsOffAfterLoss`: time-out, the watchdog's lateness, two iterations and the
  ramp.
* `drive_node.py:27`, the node "outputs zero when not armed": an exception in the
  control loop ends it (`drive_node.py:120`), and no later disarming reaches the
  motors; and `pca9685.py:80`, `serial_plc.py:61` swallow an error of the hardware,
  so that the ramp goes on and the motors do not. `RampsDownAfterDisarm`,
  `NoSpeedJump` and `DisarmedOnlySlows` therefore promise the ramp for what the
  loop holds, and for every motor that has had its last write; a write that gets
  through after lost ones may jump, and may raise a motor from rest to where the
  ramp is by then. `DisarmedComesToRest` is what remains: rest for good, if the
  hardware takes a whole write again and again.

And of `README.md:118` again: the safety node drives the pin LOW and then gives it
back (`GPIO.cleanup`, `watchdog_node.py:116-117`), so that after the exit it is an
input that nobody drives; and if its `on_shutdown` raises before that, the relay
stays released. `NeverExitsReleased` is stated up to the second.

Other known divergences that the models contain, found with TLC and not among
the runs:

* `watchdog_node.py:119`: a heartbeat releases the relay again also while the
  motors ramp down, or after the control loop has died. `HaltingVehicle` promises
  speed only while a loop runs, and power always.
* `drive_node.py:98`: the last joystick command survives a loss of the operator,
  and the vehicle drives on with it when the first heartbeat returns.
* `watchdog_node.py:112`: an iteration of the watchdog that passed the running
  test can release the relay after `on_shutdown` has engaged it, until the pin
  is cleaned up.
* `telemetry_node.py:67`: the join gives up after 2 s, in a sleep or in a
  publication, which then goes on into clients that are being stopped;
  `SilentOnceStopped` says that nothing of it arrives.
* `telemetry_node.py:133`: `hb_age` is the age when the status was last published,
  on a change: it stays as it is between two changes.
* `dual_client.py:88`: telemetry carries no number, so that with two links the
  console may see an older payload after a newer one (`ConsoleLearns` speaks of
  the end only).
* `dual_client.py:200`: two threads' copies of the link snapshot can overtake
  each other, and telemetry keeps the older (`OneLinkViewCurrent` holds with one
  link).
* `dual_client.py:93`: with only a VPS endpoint nothing is ever published, as the
  client sits in the local slot and reports as "vps" (`ConsoleLearns` excludes
  that mode).
* `dual_client.py:73`: a VPS that cannot be reached stops the daemon, although
  the link is described as best-effort.
* `dual_client.py:180`: with two links a thread that accepted the older command
  can deliver it last. `ImplementsLatestCommand` and `ConsumersAgree` are
  therefore stated for one link.
* `dual_client.py:177`: after the console restarts, its commands are dropped
  until its counter passes the old one.
* `camera_node.py:375`, `:323`, `:207`: of two overlapping starts one connection
  is never closed; a task that waited for the close of an older connection clears
  a newer session without closing it, and its sender goes on with the test
  pattern; a stop can overtake an earlier start; a start after the clean-up of
  `on_shutdown` opens the camera again.
* `pi_camera_track.py:213`, `:257`: a start that raises half way, or a `stop()` that
  raises, leaves the camera to a Picamera2 that nobody can close (`CameraOwned`
  is stated up to that); a capture may run while its camera is being closed.
* `camera_node.py:199`: `on_shutdown` waits 3 s for the stop of the MJPEG server and
  then ends the loop all the same; with a viewer still streaming the encoder is
  never detached. `StopDetaches` speaks of a stop that got to its end.
* `mjpeg_server.py:86`: an attach that raises leaves the client count one too
  high until the server stops. `EncoderIffViewers` is stated until that happens.
* `gps.py:74`: `read` reports the oldest waiting sentence; when the receiver is
  ahead of the polls the position falls behind. `gps.py:79`: a poll
  that finds no sentence reports position 0, 0 without a fix, and telemetry sends
  it in place of the last position.
* `monitor.py:70`, `:97`, `:118`: a browser whose queue was full once is never
  fed again; the loss or refusal of the second client marks the first as
  disconnected; the two threads share `_ping_times` without a lock.
  `monitor.py:128`: a ping or pong that is JSON but no object, or whose seq is
  null, ends the paho thread with a TypeError.

## 5. Proofs

The theorems hold for all values of the constants that satisfy the named
assumptions (`SafetyAssumption`, `DriveAssumption`, `UgvAssumption`,
`DualAssumption`, `JoystickAssumption`, `LifecycleAssumption`, `GpsAssumption`,
`SensorAssumption`, `CameraAssumption`, `MjpegAssumption`, `MonitorAssumption`),
which TLC evaluates in the runs. Every safety property of a passing run, state
invariant or action property, is a theorem; liveness is not (see the end of this
section). TLC finds each inductive invariant true on the instances of the runs.

**SafetyNode_proofs.** `TypeCorrect`, `EstopBound`, `RelayAgreement` and
`Refinement` (the node implements `DeadManSwitch`), for every set of links,
time-out, poll period and lateness. `EstopWithinBound` is not inductive: whether
the relay may still be released depends on where the watchdog is, on how long it
has to sleep and on who holds the lock. `IInv` is the conjunction of

* `TypeOK`;
* `LockInv`: the lock is held exactly by the thread that is in its critical
  section;
* `PhaseInv`: which threads exist in which phase of the node's life;
* `ReleaseInv`: whoever is about to release the relay does so on a heartbeat
  that is recent, with the ages each point of the code allows;
* `HighInv`: while the relay is released, the age of the heartbeat is bounded by
  the time-out plus what the iteration under way may still take;
* `RelayInv`: what relay, state and status owe each other inside the critical
  sections.

`Invariance` proves `Spec => []IInv` from one lemma per conjunct, each with one
step per action; the theorems follow from `IInv`. `SwitchStep` maps each step of
a thread to a step of the switch or to a stutter; `on_activate` alone maps to its
`Start`.

**DriveNode_proofs.** `TypeCorrect`, `RampDown` (for every ramp, period, mixer,
malformed command and failing driver), `Quiet`, `NoJump` and `OnlySlows`.
`RampsDownAfterDisarm` needs to know when the iteration that last set the speeds
began and whether its copy of `_armed` is older than the disarming: that is
`RampInv`, about the speeds the loop holds. `PhaseInv` ties a motor to them as long
as its last write arrived, and says that a live loop misses writes only with a
driver that swallows errors. `RampedWritten` is what the three steps that write
have in common. `RampFacts` and `RampToZero` say what the ramp does to one channel,
`ProductMono`, `ProductNotPositive`, `ProductDifference` and `SameSign` are the
nonlinear facts the solver is given by name.

The same module has what is true of the values, for every scale, message,
calibration and configuration. Of the mixer: `ArcadeInRange`,
`ArcadePreservesRatio` (saturation does not bend the curve, up to one unit of
rounding per output), `SteeringMirrors`, `TankInversionNegates`; they rest on
`QuotientFacts` (the division is odd and off by less than one), `QuotientInRange`,
`ClampFacts`, `ScaleFacts`, `Cancellation`. Of the backends: `DutyIsPercentage`,
`PulseFollowsSpeed`, `PulseInRange`, `StopIsRest`. `Mixer` and `Backends` have no
state, so no run checks these; the runs evaluate them.

**UgvStop_proofs.** `MotorsOff`, `FollowsRelay` and `Refinement` (the chain
implements `HaltingVehicle`), for every set of links and wheels, time-out, ramp,
period and lateness. `ChainInv` is the two nodes' own invariants, which a step
of the other node leaves alone, and `CoupleInv`: the drive node's flag is the
last status published, the nodes are in compatible phases, while that status is
armed the heartbeat is as young as the watchdog's timer makes it, and once it is
not the drive node was disarmed as long ago as the heartbeat exceeds
`ArmedBound`. `MotorsOff` then adds the two nodes' bounds. The refinement needs
in addition `SnapInv`, how old the copy of the flag is that the loop works with;
the steps are mapped one thread at a time.

**Console_proofs.** First the bridge under its caller, for every set of
configurations, list of topics and number of retries. `BridgeInPipeline` says that
`Telemetry` only constrains `DualClient`, so that what is proved of the bridge
alone holds in the pipeline. Its invariant `BridgeInv` is about who may still act:

* `JoinInv`: a client that does not exist, has not started or has been joined
  holds nothing for the bus, and main holds a snapshot only while it notifies for
  a client it has joined;
* `UpInv`: a link is recorded as UP only while its client is connected;
* `NewestInv`: with one client whatever is on its way to the bus is the newest
  snapshot, since main and the client's thread never hold one at a time;
* `TopicInv`: a client whose first connection lasts has the topics up to the one
  main is at.

`Subscribed`, `ViewCurrent`, `UpIsConnected` and `StoppedIsQuiet` (the safety
half of `StopEnds`) follow; `NothingLate` does too: when `stop` has ended no
client has a connection, so that whatever the telemetry thread still sends stays
where it is.

Then the monitor, for any browsers and any size of their queues. `StatusShown` is
not inductive: what a browser will display depends on what its queue holds, on
which event the paho thread is about to push, and on whether the handler has
sent its first status. `ToldInv` says that the last status in each registered
queue is the monitor's, that a browser whose queue has none displays it already,
and that all this is suspended while a status is on its way (`Telling`). A queue
that is full leaves the list, which is what keeps the others complete.
`AppendTells` and `TailTells` say what a push and
a write do to one queue.

**JoystickPath_proofs.** `NoDuplicates`, `Agreement` and `LatestCommandImplemented`,
for any number of links, commands and restarts. A duplicate is excluded by
`DedupInv`: the copies of a command agree in their seq (`Copies`), and once a
command has been let through, every copy still in a queue has a seq of at most
`last` (`Once`), so that `Accept` cannot take it. `OrderInv` says for a single link
that what it carries is newer than what its thread holds, which is newer than
what DriveNode has.

**Lifecycle_proofs.** `ShutDownWhole`, `FirstToStartLastToStop` and
`ExitIsSafe`, for every sequence of nodes without repetition that begins with
the safety node, whichever of them raise, the safety node included. `StartInv`
says which nodes are configured when the launcher is at a given one, `StopInv`
which are over, `PinInv` that the pin is an input once the safety node is shut
down; one that raises is not. The first attempt at this proof failed on a state
in which `on_activate` ended without having begun; the model lets it end now
only while the call is under way.

**SensorNode_proofs.** `Fresh` (the bound of each sensor is its interval and
three times the lateness), `Unread` and `InOrder`. `SinceInv` relates the age of
a sensor's last poll to the place of the thread in its round and to the clock.
`OrderInv` gives each piece of a sentence a rank: ranks rise along what `read`
kept and what waits in the port, and everything reported is below them, whatever
the port drops.

**Camera_proofs.** `OneOwner`, `TruePicture` and `NoneForgotten`, for any number
of commands and of failing calls. `IInv` says that the track the node knows is
the only one that is on (`Known`), that a task that has not come past its
clean-up has no camera yet (`Fresh`), and which tracks a capture can be waiting
for (`Fetching`). Where the tasks wait does not matter: whatever a task finds
when `close()` returns, it stops the camera of the track the node has then,
before another is started.

Where the tasks are is the subject of `NoneForgotten`, the safety half of
`CommandsEnd`: a task that has not come past its clean-up is in the loop's queue,
exactly once, or waits for a `close()` that is still under way or whose first
waiter is in the queue, so that nothing but the library can keep it. `LoopInv` is
its invariant: `ReadyInv` and `CloseInv` say who is in which queue, `WaitInv` what
the state of a connection means for those who wait for its close, `SessionInv` that
the node's connection is never one that is already closed.

For the MJPEG server, with any set of viewers and any number of cameras and
frames: `AttachedWhileWatched`, `StopDetachesAll` and `OnlyFreshFrames`. `Counted`
says that the count is the number of streaming handlers and of attachments that
raised; `Growing` that frame numbers rise from the viewers through the queue and
the pending `call_soon_threadsafe` calls to the encoder; `SinceAttached` that
whatever bears the number of the present encoder is newer than its attachment.

**Only model-checked.** Liveness: `ShutdownCompletes`, `RearmsOnHeartbeat`,
`OperatorDrives`, `ReachesCommand`, `DisarmedComesToRest`, `ConsoleLearns`,
`StopEnds`, `NewestGetsThrough`, `StopCompletes`, `CrashRecovers`, `CommandsEnd`
and `GoodSentencesReported`. It is out of the prover's reach, with its fairness
and ENABLED, as is induction over data.

## 6. What is not modelled, and why

* Motor drivers beyond the values they are given for a speed and the writes that
  the hardware refuses: I2C registers and the PLC protocol are hardware I/O. The
  two writes of a `gpio_pwm` channel, direction and duty, count as one; the two of
  `pca9685`, which clears a channel before it sets it, count as one that leaves
  the speed as it was. The hardware is present when the
  driver starts: `pca9685` and `serial_plc` log an error of that and from then on do
  nothing, and one that `gpio_pwm` raises is a drive node that raises on start in
  `Lifecycle`. In `UgvStop` the
  driver is `gpio_pwm`: a chain with a driver that swallows has only what
  `DriveNode` promises for it.
* A backend call that blocks longer than the 2 s join of `DriveNode.on_shutdown`,
  and a sensor read that blocks longer than that of `SensorNode.on_shutdown`: an
  iteration is taken to be shorter, so that the guards of `DriveNode!Join` and
  `SensorNode!JoinAndCleanup` wait for its end. `QuietAfterShutdown` and
  `ClosedUnread` rest on this assumption; the join of the telemetry thread does
  not (see `ClearAndJoin`).
* Floating-point rounding: `Mixer` and `DriveNode` compute on integers.
* The sensor readings and the link names inside a telemetry payload, which are
  copied like the status; the pixels and time stamps of `PiCameraTrack`; the ping
  echo, which keeps no state, and the camera-signalling routes of
  `MqttBridgeNode`, which follow the joystick's without a seq; ICE candidates.
* The configuration loader (runs once, before any thread), mDNS (not used by
  main), logging, timing, TLS, the monitor's page beyond what it shows of two
  events, and the shell scripts.
* `unsubscribe` of the bus: nothing outside the tests calls it.

## 7. Plan

The order in which the modules were and will be written, the most important
behaviour first.

1. Done: safety chain (`SafetyNode`, `DriveNode`, `Mixer`), transport
   (`DualClient`, `JoystickPath`), process (`Lifecycle`), camera, GPS, monitor.
2. Done: `UgvStop` with `HaltingVehicle`, with a bound for what `README.md:119` says
   of a lost operator and the refinement as theorems; `Telemetry` over
   `DualClient`; `SensorNode` over `GpsReader`; `PiCameraTrack` under `CameraNode`;
   start and stop of `MjpegServer`; `Backends`; the proofs of the dedup and the
   order of commands. Open: the sentence itself, "within the configured timeout",
   is not what the code does (section 4), and has no run that refutes it.
3. Done: a theorem for every safety property of the runs; `Console_proofs`,
   `Lifecycle_proofs`, `Camera_proofs`, the order of the sentences.
4. The rest of the bridge: camera signalling from the console through the bus to
   `CameraNode`, over two links without dedup.
5. The rest of the monitor: latency from `_ping_times`, the connection indicator
   with two clients.
6. A serial write that outlasts the join of the drive node; the configuration
   merge as a function checked against a reference definition.
