# Verification of the dual-mode sensor terminal

This directory holds TLA+ models of the sensor-hub kernel driver (`src/kernel/sensor_hub`) and of the
user-space daemon (`src/user/daemon`), the TLC runs that check them on small instances, and TLAPS proofs
of what matters most for instances of any size.

## 1. The system

A ROCK 3A board runs a platform driver that gathers a PIR motion sensor, an SHT20 temperature and
humidity sensor and a PWM buzzer behind one device file, `/dev/sensor_hub`. A daemon reads events and
snapshots from it, drives the camera, and serves a web page. The daemon is in one of two modes:
`monitor` streams the camera as MJPEG; `trigger` waits for motion, sounds the buzzer, takes a picture
and appends a line to `events.log`.

| Component | State | Operations | Makes it correct |
|---|---|---|---|
| event queue (`sensor_hub_core.c`) | ring of `SH_EVT_Q_SIZE`, `head`, `tail`, `count`, `dropped`, `event_seq`, wait queue | `sh_push_event`, `sh_q_pop`, `sh_read`, `sh_poll`, `SH_IOC_CLR_EVENTS` | oldest event gives way, nothing lost uncounted, order, no lost wake-up |
| endpoints (`sensor_hub_core.c`, `_pir.c`, `_sht20.c`) | `cfg` and `value` of each, `snapshot_seq`, `hub->lock` | interrupt, refresh, `SET_SENSOR_CFG`, `GET_SNAPSHOT` | snapshots are states, events follow updates, flags follow configurations, readings move forward |
| SHT20 | `priv->work`, `io_lock`, the sensor on I2C | work item, refresh, apply_cfg | sampled exactly while enabled, answers belong to commands |
| buzzer | PWM, `priv->active`, `stop_work` | ALERT, PULSE, STOP, apply_cfg, stop work | every tone ends, flags and events tell the truth |
| probe/remove | endpoint table, misc device, I2C adapter and client, interrupt, memory of devres | `sh_probe` and its error paths, `sh_remove`, unload and unbind, open and release | nothing used before it is ready or after it is gone, all given back once |
| `app_state` | mode, last snapshot, last capture, a mutex | set/get/copy | each access is whole |
| HTTP server | `g_http_running`, MJPEG cache with mutex and condition | accept loop, a detached thread per client | streams get new frames, end when they should |
| main loop | `active_mode`, camera context, `g_monitor` | mode switch, rollback, trigger, shutdown | one mode at a time, camera never closed under a user |
| trigger pipeline (`main.c`) | the batch read, the capture paths, `events.log` | the trigger half of the loop in `main`, `handle_trigger`, `append_event_log` | each motion event has one fate, its picture and its values are not older than it |
| monitor worker | `running`, `stop`, the frame in hand | dequeue, encode, publish, requeue | ends when told, publishes nothing after |
| camera (`camera_v4l2.c`) | descriptor, buffers, streaming | init, start, dequeue, queue, stop, deinit | every descriptor and buffer accounted for |
| `sensor_client`, `hub_test`, web page | none of their own | thin wrappers, printing, presentation | - |

They interact in four ways. The kernel contexts (interrupt thread, work items, any number of processes
in a system call) share the hub under two locks and, in the buzzer, under none. The driver and its
readers share the wait queue. The daemon's threads share `app_state`, the MJPEG cache and `g_monitor`.
The main thread and the worker hand the camera to each other by `pthread_create` and `pthread_join`.

What is hard: a full queue, and readers racing for it; locks dropped between a read and the write that
depends on it; delayed work that re-arms itself while it is cancelled; a PWM, a camera or an I2C
transfer failing half-way; a mode request that arrives during a switch, a retry or a rollback; clients
that wait on a condition while mode, frames and server come and go. `PROJECT.json` lists each hazard at
its line, with the property that covers it or the reason why none does yet.

## 2. Modules

| Module | Models | Steps |
|---|---|---|
| `EventStream` | what the queue promises: a bounded FIFO of numbered events | abstract operations |
| `EventQueue` | the ring and everything that touches it | a section under `q.lock` is one step; wake-up, copy to user space, and the two tests of `wait_event` are steps of their own |
| `EventQueueProofs`, `SensorHubProofs`, `Sht20Proofs`, `BuzzerProofs`, `LifecycleProofs`, `DaemonProofs`, `TriggerProofs` | theorems on the module of that name | - |
| `SensorHub` (`MCSensorHub`) | PIR interrupt, refresh, apply_cfg, snapshot over `hub->lock` | lock, unlock, and every access outside the lock, but the fields of one value or one configuration are copied or tested together |
| `Lifecycle` | `sh_probe`, its error paths, `sh_remove`, devres; interrupt, works and calls as users of what they make and free | every call of the probe and the tear-down that makes or frees something; `cancel_delayed_work_sync` in two |
| `Sht20` | delayed work, apply_cfg, refresh, the I2C exchange under `io_lock` | as above; `cancel_delayed_work_sync` is two steps (claim the work; wait for it) |
| `Buzzer` | actions, apply_cfg, stop work, PWM failures | every access of unlocked state is a step |
| `MjpegServer` | cache, clients, mode, stop | a section under `g_mjpeg.lock` is one step |
| `Daemon` | EXTENDS `MjpegServer`; main loop, worker, the stages of opening the camera, signal, broken connections | every call of the main loop that another thread can see, or that can fail |
| `Trigger` | INSTANCE `EventStream`; driver events, `hub_test`, camera buffers, the loop's poll, read and filter, `handle_trigger`, the log and the status | every call of `handle_trigger` that reads or changes something others change |
| `Convert` | the arithmetic: SHT20 conversion, PWM period and duty, places of the pixels in `nv12_to_i420`, with theorems | functions |

How state corresponds. Variables keep the names of the code where it has them (`head`, `event_seq`,
`snapshot_seq`, `active`, `seq`, `running`, ...). `pc`, `ppc`, `cpc`, `mpc`, `wpc` say where a context is;
its local variables are in `op`, `held`, `room`, `job`, `arg`, `want`, `copy`. A timer is `idle`,
`pending` or `canceling`, as the kernel's workqueue has it: `schedule_delayed_work` acts only on an idle
one. An event in `EventQueue` is its number; a reading in `SensorHub` is a level and the moment it was sensed (`born`, the
number of changes of the world so far); a frame in
`MjpegServer` is its number. Variables marked *history* in their comments exist for the properties and
for the bounds only. The camera in `Daemon` is `closed`, `open` (a descriptor, no buffers), `buffers`
(after `VIDIOC_REQBUFS`) or `streaming`; a lost descriptor that owns buffers makes the device `busy`,
because V4L2 lets only the owner of the queue set a format. `OpenDevice`, `SetFormat`, `MapBuffers` and
`StartStream` are the stages of `camera_open_for_mode`; each may fail, and only the last is followed by
`camera_deinit`.

In `Lifecycle` the probe walks through `Probing`, the calls of the three register functions in order;
`phase` and `step` are its place, or that of the tear-down, which `unwind` (the labels `err_*` of
`sh_probe`) and `remove` share. A process in a call holds the endpoint it was given (`target`); what the
call then uses is memory (`alive`), the I2C client (`held`) or a work item (`timer`, `raw` before
`INIT_DELAYED_WORK`). A call that runs into something freed or raw goes to `lost`: what the kernel does
then is undefined. Unloading the module waits for open files (`.owner = THIS_MODULE`); unbinding and a
failed probe do not, and `exposed` remembers that somebody had the file open.

In `Trigger` the driver's queue is what `EventStream` promises, and run `queue` shows that the driver
keeps the promise; the switch of modes, in detail in `Daemon`, is one step. A snapshot is the number of
PIR updates so far (`snap`, `shown`), a frame is the trigger that `handle_trigger` was called for last
when its exposure began, and a file is named by its second. `handle_trigger` is spread over `mpc`:
`alert` (buzzer, refresh), `snapshot` (values and file names), `capture` (one step per `VIDIOC_DQBUF`
and the `VIDIOC_QBUF` that follows), `convert` (ffmpeg), `log` (status, then the line).

Definitions called *Mutant* in their comments are not part of any specification. Each is a plausible bug
in the definition that follows; with it in place of the original, the property named for it in
`PROJECT.json` fails. This is how we know that the properties look at the code.

## 3. Runs

| Run | Bounds | Shows |
|---|---|---|
| `queue` | 2 slots, 2 producers, 1 blocking and 1 non-blocking reader, buffers of 1 or 2 events, 4 pushes | ring, accounting, order, wake-ups, service, and that the ring implements `EventStream` |
| `hub` | PIR and SHT20, 2 processes, 2 calls, 2 changes of input | snapshots, events, flags, disabling |
| `hub_latest` | same | **violated**: a reading is overwritten by an older one |
| `lifecycle` | 3 endpoints, 2 processes, 3 calls, any step of the probe may fail | nothing outlives what it uses (if the file was closed), everything is given back once, the tear-down ends |
| `lifecycle_early` | 1 process, 1 call | **violated**: a call is given an endpoint that is not initialised |
| `buzzer` | 1 process, 5 calls, PWM may fail | every tone ends; flags, last event and configuration agree with the PWM |
| `buzzer_two_callers` | 2 processes, 3 calls, PWM never fails | **violated**: a tone with no end |
| `sht20` | 2 processes, unbounded | sampling goes on while enabled and comes to rest while disabled |
| `daemon` | 1 browser, 2 requests, 2 frames, 3 failures | camera, switch and rollback, streams, shutdown |
| `daemon_leak` | 1 request, 1 failure | **violated**: a descriptor is lost |
| `daemon_stream` | 1 browser, 2 requests | **violated**: a stream that never closes |
| `trigger` | 2 slots, batches of 2, 2 buffers, 2 frames skipped, 2 PIR updates, 1 request, 1 failure, 1 event read by `hub_test`, 2 seconds | the fate of every motion event, fresh pictures, the log, answers, the status page |

Why the bounds are enough. Two slots make the ring full after two pushes, and four pushes wrap both
indices while it is full; the theorems then remove the bound. Two callers are what the system has
(`sensor_hub_daemon` and `hub_test`), and each race needs two. Two calls overlap in every way two calls
can, with the interrupt as a third context; five calls let the buzzer sound, be cut short by another
sound, be disabled, enabled and stopped. Three failures are what it takes for all three attempts of
`camera_reopen_with_retry` to fail and for the rollback then to succeed; two requests let one arrive
during a switch or a rollback. `Sht20` needs no bound.
In `Lifecycle` there is one binding, as there is one board; three calls let both processes be inside the
driver while a third call starts, and each of them can hold a work item against the tear-down.
In `Trigger` each alert and each end of a tone is an event too, so two motion events make up to six and
overflow two slots; what matters of the camera is that it skips at least as many frames (5) as it has
buffers (4), as it does with 2 and 2, and the theorem removes the numbers (4 is what the code asks for;
`VIDIOC_REQBUFS` may grant another number, which `camera_init` takes, and more than 5 would break
`CameraAssumption`); one failure can hit every
call, and the second motion event shows what it leaves behind; two seconds are enough for two pictures
to share a name or not. `CHECK_DEADLOCK FALSE` is set where the model
really may stop: calls are bounded in `SensorHub` and `Buzzer`, the daemon exits, and the driver is gone.
It is checked in the other three runs. In `sht20` it means that nobody can be left who moves: callers, work
and timer cannot wait for each other in a circle. In `trigger` it finds a capture that waits for a frame
when the camera has no buffer left. In `queue` it says nothing, because the queue can be cleared at any
time; that no reader is left asleep is what `NoLostWakeup` and `NonemptyQueueServes` are for.

### Fairness

Only what the scheduler or the kernel guarantees is fair: code that can run runs on (weak fairness per
context), a pending timer expires, and a mutex that hands over to an old waiter is eventually given to
everyone who waits for it (strong fairness on taking `io_lock` in `Sht20`). Calls, requests, signals,
triggers, connections, failures, timeouts, opening and closing of files, unload and unbind are never fair. A browser may stop reading for ever. In `Trigger`
the status is refreshed on passes that come a second after the last refresh; as the clock goes on there
are ever new ones, which is strong fairness on `StatusPass`.
In `Lifecycle` `IrqEnter` is not fair, and while interrupts keep coming `free_irq` still gets its turn
because it first lets no new handler start.
One assumption goes beyond the scheduler: in trigger mode a capture that has begun ends, that is, the
camera delivers frames or reports an error. `camera_capture_one` has no other way out and does not look
at `g_running`, so without it a silent camera blocks the main loop and the shutdown. (In
`Trigger` the same assumption is that the camera fills the buffers it has, and that fewer
`VIDIOC_QBUF` fail than there are buffers.)

## 4. Where the code departs from its documents

1. **A reading can go back** (`hub_latest`). Sensing and storing are not one step, and nothing orders
   the contexts between them: a FORCE_REFRESH can store after an interrupt that sensed later, two
   refreshes of the SHT20 can store in the opposite order, and `apply_cfg` copies `endpoint->value` with
   no lock and writes the copy back over whatever came in between.
2. **A tone can stay on** (`buzzer_two_callers`). `struct sh_buzzer_priv` has no lock. A STOP that is
   delayed between switching the PWM off and clearing `active`, an ALERT, and a configuration call are
   enough. One process can do it too, with no race, when the PWM refuses a state: ALERT cancels
   `stop_work` (line 221) before it tries the new tone, and returns if that is refused (line 225), as it is
   for a frequency above 2 GHz, whose period is rounded to 0; the old tone then goes on and nothing will
   stop it. `ToneWillEnd` fails in two calls when the `PwmMayFail` of `Buzzer.cfg` is kept. With one process
   this and a stop that the PWM refuses, which is not tried again either, are the only ways (`EndCorrect`);
   the properties name both (`refused`).
3. **A descriptor can be lost** (`daemon_leak`). A failed `camera_init` leaves its descriptor open and
   the retry forgets it. If it owned the buffers, the retry and the rollback cannot succeed, and the
   daemon exits.
4. **A stream can stay open** (`daemon_stream`). `handle_mode` does not signal the condition its
   clients wait on.
5. **An endpoint can be found before it is whole** (`lifecycle_early`). The device file exists before
   the endpoints are registered, and `sh_register_endpoint` comes before `priv->endpoint` and, for the
   SHT20, before `INIT_DELAYED_WORK`. The lock that the header names for the registry is not taken.
   (The model lets each store be seen when it is made; on the board's weakly ordered processor the
   unlocked registry may show them in other orders too.)

Also met, and not stated as properties (no document promises otherwise, except where one is named):

- a browser that closes its connection while it is written to kills the daemon: `write` raises SIGPIPE,
  which nothing handles (`BrokenPipe` in `Daemon`);
- with the file open, an unbind or a failed probe frees the hub under the process; its next call uses
  freed memory, and a call still in the driver can arm work again that `remove` has cancelled;
- `endpoint_count` never decreases, so within one binding `GET_INFO` would count endpoints that are gone;
- a line of the log shows the values after the alert and the refresh, and after all earlier triggers of
  the batch, not those of the moment of the event as `docs/01-project-overview.md` has it (they are never
  those of an earlier moment, `LogNotOlder`), and events queued in monitor mode are handled after its end;
- the ENABLED flag of a value can disagree with the configuration after overlapping calls, but only
  then (`FlagSaysConfig`);
- a worker that dies leaves monitor mode without frames and unnoticed;
- a rollback overwrites a request posted while it ran;
- client threads are detached, and one may look at `app_state` just as main destroys it;
- two triggers in one second write the same picture, and if the later conversion fails it may leave the
  picture of the earlier line broken (`ffmpeg -y` has begun to write; `LogNamesPictures` allows both);
- an event whose copy to user space fails has left the queue and is lost to everyone, though it counts as
  taken and not as dropped (`CopyFault`; `EveryEventAccounted` and the stream permit it);
- every failure of `VIDIOC_QBUF` costs a buffer, until a capture has none and waits for ever;
- `GET /api/logs` returns the first 8 KiB of the log, so the newest lines of a long one are not seen.

## 5. Proofs

Every invariant and every action property of the passing runs is a theorem, for every value of the
constants that the assumptions of its module allow, and so is the refinement of `EventStream`. The runs
show them, and the liveness properties, on small instances.

The assumptions say what the code fixes: sizes are positive (`QSizeAssumption`, `SizeAssumption`), the
interrupt, the work item, the probe and the processes are different contexts (`ThreadAssumption`), the
table of endpoints has no duplicates (`EndpointAssumption`; the board lists three), configurations are
configurations (`CfgAssumption`), `camera_capture_one` skips at least as many frames as there are buffers
(`CameraAssumption`: 5 and 4), and the bounds of the runs are natural numbers. There is one assumption
more, in the statement of five theorems about the buzzer: that one process uses it; and one of them,
`ToneCorrect`, assumes that the PWM refuses nothing.

`TypeCorrect` of each module is proved first and used by the rest. It is inductive as it stands but in
`Daemon`, where the number of attempts stays below 3 only because an attempt is made while some are left
(`TriesLeft`). In two modules the type invariant also says which context may be where: in `Buzzer` that
the call a context is in has the step it is at, so that the stop work never comes to wait for itself
(`PlacesOK`), and in `Sht20` that whoever holds `io_lock` is in the exchange, so that no error path keeps it.

### Event queue (`EventQueueProofs`)

`RingCorrect`, `AccountCorrect`, `WakeupCorrect`, `DeliveryCorrect` state `NewestEventsQueued` (with
`HeadAgrees`), `EveryEventAccounted`, `NoLostWakeup` and `OrderedDelivery`. `NewestEventsQueued` talks
about `events[(tail + i) % QSize]` and is not inductive alone: a push writes at `head`, so one has to
know that `head` is `count` slots after `tail` (`HeadAgrees`), and that no other queued event is in that
slot. That is a fact about arithmetic modulo `QSize`, which the SMT solver does not find; so the slot is
named `Turn`, and the lemmas `NextSlotWraps`, `TurnWraps` and `RingInTurns` say once what the modulus
does: different turns below `QSize` are different slots, and moving `tail` by one shifts every turn by
one. `DeliveryCorrect` uses `NewestEventsQueued`: the popped event is number `event_seq - count + 1`, so
it is newer than all that were ever handed out and older than all that are queued. `WakeupCorrect` is
inductive with `TypeOK`: only a push makes the queue nonempty, and it leaves its producer at the wake-up.

`StreamCorrect` proves `Spec => ImplementsStream`. The sequence of the abstract stream is read off the
ring, from `tail` in turns; a push is the stream's push, with or without loss of the oldest, a pop its
pop, a clear its clear, and every other step leaves the stream alone. The same facts about turns make a
pop the tail of the sequence and a push an append.

### Endpoints (`SensorHubProofs`)

- `SnapshotCorrect` (`SnapshotIsAState`). The history of states ends with the current values, and
  `snapshot_seq` is one behind it exactly while a context is between the store and the increment
  (`HistoryIsCurrent`, `SeqLags`), which is inside `hub->lock` (`LockHeld`); a snapshot being filled
  shows the current values as far as it goes (`FillIsCurrent`), because nobody else has the lock.
- `EventsCorrect` (`EventFollowsUpdate`). A context about to emit reports a value that is in the history
  at the update it remembers (`ReportIsStored`), because it stored it itself (`StoredIsValue`).
- `DisableCorrect` (`DisableStopsTriggers`). The late report is the handler's last step: when one late
  report is counted and the PIR is still disabled, the interrupt thread is idle (`LateInv`).
- `FlagCorrect` (`FlagSaysConfig`). While nobody has crossed another on an endpoint, its user is alone
  (`SoleUser`), and what he has read and copied is current (`UserKnows`).

### SHT20 (`Sht20Proofs`)

- `AnswerCorrect` (`AnswerMatchesCommand`) rests on `ExchangeIsLocked`: only the holder of `io_lock` is
  between a command and its answer.
- `ArmedCorrect` (`EnabledMeansArmed`). With calls under way the property must be weakened to: an enabled
  sensor has its work in the timer, the work or the first sample running, or a call that will still read
  the configuration or schedule the work (`Served`). A work that finds the timer closed does not re-arm
  itself; then some call is at the flush that closed it (`ClosedByFlush`), and will look at `enabled`.

### Buzzer (`BuzzerProofs`)

`StateCorrect`, `LastEventCorrect`, `DisabledCorrect`, `EndCorrect` and `ToneCorrect` hold when `Callers` is
one process, and are stated so: the driver has no lock, the daemon calls it from its main thread only, and
run `buzzer_two_callers` shows what a second process (`hub_test`) can do. The first three hold whatever the
PWM refuses. Of the end of a tone there are two theorems: `EndCorrect` allows for a PWM that may refuse
(`EndUnlessRefused`: the end is in sight unless the last state asked for was refused, be it a stop or
a tone), and `ToneCorrect` is `ToneWillEnd` for a PWM that refuses nothing; section 4 says why it needs
that. The argument is that with one
process a call that has waited for the work is alone with the PWM until it schedules the work again
(`Alone`). So every context knows at each of its places what the PWM does (`Knows`), and whoever is told
of it is told before its context rests (`Truth`); a disabled buzzer that still sounds is being silenced
by the call that disabled it (`Silencing`); a tone has its end pending, or the worker or the call on its
way (`Ending`).

### Life of the driver (`LifecycleProofs`)

- `GiveBackCorrect` (`GivenBackOnce`). What is held is a function of the place: during the probe of the
  position (adapter from step 5, client from step 6), afterwards of the registration of the SHT20 and of
  the step of the tear-down (`HeldCounts`, `Registry`); likewise the node and the interrupt (`NodeGone`,
  `IrqGone`). The lemma `ProbeOrder` reads the positions off the order of calls, and `ProbeSteps` says
  once what a step forward and a step back change (`Forward`, `Backward`).
- `LifetimeCorrect` (`NothingOutlivesItsMemory`). If nobody has the file open when the tear-down begins,
  nobody is in a call from then on (`CallsInFile`, `ExposedMeansOpen`), so the work of an endpoint rests
  from the moment its cancellation is over (`CancelKeeps`, `RestsUnlisted`), and memory goes last
  (`MemoryGone`).

### Daemon (`DaemonProofs`)

- `CameraCorrect` (`CameraHeldOpen`) and `LoopCorrect` (`LoopInOnePiece`) have one inductive invariant:
  where main may be while the worker lives (`WorkerPlace`), what a camera being opened is opened for
  (`OpensTarget`), what is true when main reaches the loop (`LoopOpen`, `RunPlace`), and that no frame is
  on offer while the mode changes (`NoStale`).
- `FramesCorrect` (`FramesInOrder`, an action property): the frame on offer is newer than every browser's
  unless the browser has it and knows (`CopyBehind`), so whoever takes one takes a newer one.
- `WakeCorrect` (`NobodySleepsOnNews`) is inductive: whatever makes news wakes the sleepers in the same
  section of `g_mjpeg.lock`.

### Trigger pipeline (`TriggerProofs`)

- `FreshCorrect` (`PicturesAreFresh`). The camera fills its buffers whether anyone looks or not, so when
  `handle_trigger` starts there may be `Bufs` frames, ready or being exposed, that are older than the
  event. The invariant counts frames from the call: a ready frame is fresh when the frames seen and those
  before it already make `Bufs` (`LateFramesAreFresh`), and so is the one being exposed when it comes
  after those (`ExposureIsFresh`). That no more than `Bufs` frames and free buffers exist
  (`BuffersBounded`) starts the induction, and `Skip >= Bufs` ends it. A failed `VIDIOC_QBUF` loses a
  buffer and breaks nothing of this.
- `FateCorrect` (`EveryTriggerHasOneFate`). The events handled, the one in hand, the batch and the queue
  are four sets, each pushed before the next (`InOrder`): an event moves from one to the next and never
  back, so it is in one only; and none leaves them but to be lost or stolen (`NoneForgotten`).
- `LogCorrect` (`LogNotOlder`). An event reports an update that was made before it was pushed
  (`ReportsPast`), and the snapshot is taken when it has been read (`SnapNotOlder`).
- `LogNamesCorrect` (`LogNamesPictures`). No picture and no line is of an event not yet handled, and while
  one is handled it has no line yet (`PicturesNotAhead`, `LinesNotAhead`), so a conversion, finished or
  broken off, overwrites pictures of earlier lines only; the line is written when its own picture is whole
  (`PictureAtLog`), and the status is taken back by every failure (`LastHasPicture`).

### Arithmetic (`Convert`)

`Convert` proves, for all values the types of the code allow:

- `SampleInRange`, `SampleKeepsOrder`: the SHT20 conversion stays in the sensor's range, although its
  product needs more than 32 bits, and is strictly increasing, so the division loses nothing;
- `PwmStateAccepted`, `NegativeParameterRefused`, `ToneIsHeard`: up to 2 GHz the PWM is asked for a
  period and a duty within it; a negative parameter becomes a frequency whose period is 0, which the PWM
  refuses; and up to 500 MHz no duty is rounded to silence;
- `PlanesFillBuffer`: the three planes of a picture with even sides (all that NV12 has) follow each
  other in the buffer, and by `CellsOfPlane` no two pixels share a byte.

The argument is that of rounded division (`RoundedDivision`: the quotient is within half a divisor) and
of row-major order. Products of 34 bits are out of TLC's reach, so these functions have no run.

### What stays with TLC

The liveness properties (`NonemptyQueueServes`, `EveryToneEnds`, `SamplingGoesOn`, `DisabledComesToRest`,
`RequestSettles`, `ShutdownCompletes`, `TriggersAnswered`, `StatusCatchesUp`, `TearDownEnds`): the prover
has no rule for fairness. That the model of the timer as `idle`, `pending` and `canceling` is the kernel's
workqueue is not a theorem but what the code relies on. The properties of the five runs that expect a
violation are false, and have their counterexamples; `ToneCorrect` proves one of them, `ToneWillEnd`, where
neither of its two reasons applies.

## 6. What is not modelled, and the plan

Not modelled: formatting, JSON, files and the web page; the routing of requests that only read;
timestamps and units; which bytes of a frame a picture file gets; the kernel's workqueue, mutex,
wait-queue and devres code and V4L2, which appear as what the code relies on; the memory order of the
processor (each module lets contexts interleave, and sees stores in the order of the program).

Simplified, on purpose: a value or a configuration of a sensor is read in one step even where no lock is
held (`CopyValue`, `HandlerWanted`), so no torn copy is seen; in `Daemon` the mode may also be looked at
between two triggers of one batch, which the code does not do and which only adds behaviours;
`start_monitor_worker`'s early return for a running worker is left out because `main` never calls it then;
a client whose header cannot be sent never counts as connected; and a SIGINT during ffmpeg, which
`system()` makes `main` ignore, is no signal at all, so `ShutdownCompletes` says nothing of it.

Written first, because the rest relies on them: the event queue, the endpoints, the two devices with
timers, the daemon's threads, and the trigger pipeline that composes them; then the life of the driver,
the stages of the camera, and the arithmetic. What is left to model is small: in `Daemon`, detached
clients that still run when main destroys `app_state`; the planes of a buffer in `camera_init` and
`camera_deinit`.

Theorems left: that every lookup after the probe returns a whole endpoint (the part of `FoundIsWhole` that is
true); that without failing calls no descriptor is lost (the part of `NoDescriptorLost` that is true); an
abstract specification of the mode switch, as the web page sees it, that `Daemon` implements.
