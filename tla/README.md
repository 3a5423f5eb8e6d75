# A verification project for hysim

hysim is the control system of a rocket's ground test stand: a *pad server* (on a NuttX board, or on a
desktop with dummy actuators) drives valves and the igniter, a *control client* (a box with switches)
commands it over TCP, and *telemetry clients* listen to a UDP multicast of sensor readings and of the
state of the pad. This directory holds TLA+ models of its logic, TLC configurations that check them on
small instances, and TLAPS proofs of their main properties for every size.

Contents: [inventory](#1-inventory) - [modules](#2-modules) - [runs](#3-runs) -
[fairness](#4-fairness) - [proofs](#5-proofs) - [what the code does not keep](#6-what-the-code-does-not-keep) -
[limits](#7-what-is-not-modelled) - [plan](#8-plan)

## 1. Inventory

| component | source | state | operations |
|---|---|---|---|
| arming and actuation rules | `pad_server/src/state.c` (`padstate_change_level`, `pad_actuate`), `actuator.h`, `packets/packet.h` | arming level, connection status, recorded state of 15 actuators | arming request, actuation request |
| controller thread | `controller.c`, `state.c` | the client socket, the request in hand | accept, receive, check, drive, change the level, signal, acknowledge, lose the client |
| pad-state telemetry thread | `telemetry.c` 604-713 | `err`, the messages being built | timed wait on `update_cond`, read the pad state, publish, clear `update_recorded` |
| telemetry thread | `telemetry.c` 109-597 | socket, data file | sensor, random or mock measurements; spawns, cancels and joins the pad-state thread |
| process | `pad_server_main.c` | three threads, the SIGINT handler | start-up, SIGINT, exit |
| actuator drivers | `actuator.c`, `gpio_actuator.c`, `pwm_actuator.c` | pins, the PWM device, open descriptors, `actuator_t.state` | `actuator_set` as open / ioctl / close |
| control client, connection | `control_client/src/{control_client_main,pad,switch}.c` | the socket, what is under way on it | connect, send a request, receive and verify the acknowledgement, reconnect |
| control client, switches | `control_client_main.c` 280-440, `switch.c` | recorded state of every switch, the interrupt signal, position of the scan | signal, scan (20 rounds), privilege guard, `switch_callback`, keyboard of the desktop build |
| telemetry client | `telem_client/src/*.c` | a UDP socket | peek a header, receive a message, print it |
| sensors | `sensors.c`, `telemetry.c` 236-532 | open ADC devices, what each ADC converted last, tare of the load cell, the packet being built | calibrate, trigger, read back, fetch, publish |
| packets | `packets/packet.{h,c}` | none | enumerations, layouts, initialisers |

How they interact. The controller is the only writer of the pad state (`padstate_t`); the pad-state thread
reads it. Each single field is protected by a read/write lock; an update is announced by
`padstate_signal_update`, which sets `update_recorded` under `update_mut` and signals `update_cond`. The
pad-state thread holds `update_mut` from the end of its wait until after `sendmsg`. The telemetry thread's
clean-up handlers cancel and join the pad-state thread, then close the socket; `int_handler` cancels and
joins the telemetry thread, then the controller. Client and server exchange one request and one
acknowledgement at a time over TCP. Datagrams may be lost.

What makes each part correct, and what makes it hard:

* *Rules*: no way to a firing level, or to the fire valve and the igniter, that avoids a lower level;
  level changes that accompany an actuation are not refused. Hard because they follow two paths (arming
  requests, actuations), any number of times.
* *The two threads*: no update and no wake-up lost, no torn snapshot although its fields are read under
  separate locks, no starvation. Hard because every interleaving matters.
* *Process*: no thread outlives what it uses, shutdown ends. Hard because cancellation strikes with locks held.
* *Drivers*: an answer "ok" means the actuator moved; descriptors come back. Hard because every system
  call may fail on its own, and because of the errors' conventions.
* *Control connection*: every answer is that of the request it is taken for; nothing is executed twice or
  out of order; both sides find together again. Hard because of time-outs, broken connections, reconnection.
* *Telemetry client*: it receives the message it peeked at, and what it shows converges.
* *Switches*: the pad is armed by nothing but the key, and follows the switches. Hard because
  `switch_callback` records a position before it sends the request, and the scan, a signal that may be
  missed, time-outs, broken connections and restarts of the client come in any order.
* *Byte stream*: what is executed was sent, wherever TCP cuts the stream and whenever a client goes away.
* *Sensors*: a reading goes out under the name of the sensor it was taken at; the packet's arrays of 32
  never overflow; the tare is true. Hard because every call of a driver may fail on its own, in two loops
  that have to agree with each other.

## 2. Modules

    PadRules            the rules, as pure operators
      PadCommands       abstract specification: requests executed one at a time, at one instant
        PadLadder       PadCommands + the levels visited since ARMED_PAD
      PadServer         controller thread x pad-state thread; implements PadCommands
        PadLifecycle    PadServer + main, telemetry thread, clean-up handlers, int_handler
      SwitchBox         switches, scan and privilege guard of the control client x PadCommands
    ControlLink         control client x controller, over TCP, request by request
    ControlStream       the bytes of TCP x controller_run's receives
    ActuatorDriver      actuator_set and the two drivers, one action per system call
    Sensors             calibration and the rounds of sensor_telemetry
    TelemClient         datagrams, a socket buffer and the telemetry client

`*_proofs` modules hold theorems, `MC*` modules the values for TLC. `PROJECT.json` maps each definition
to the lines it stands for. A definition introduced by the comment "Faulty variant" is no part of a
specification: it is a plausible mistake, put in the place of the definition after it to see that a
property notices.

**PadRules.** `ChangeAllowed` and `ArmStatus` are `padstate_change_level`; `Commandable`, `ActStatus` and
`FollowUp` are the three parts of `pad_actuate`: checks, permission by level (the dump valve jumps over
it), and the level change that goes with the quick disconnect and the igniter. Ids are constants, the
assumptions say only that the special ones differ.

**PadCommands** is what the controller promises. `Arm`, `Actuate` and `Refuse` execute a request at once
and leave an answer owed; `SendAnswer` pays it. A driver error changes nothing and owes no answer.

**PadServer** has a program counter per thread. For the controller: `recv`, `check` (`C_Arm`,
`C_CheckActuation`), `drive` (`actuator_set`), `followup`, `lock` and `signal` (the two halves of
`padstate_signal_update`, with `ret` as its return address, since it is called from four places), `reply`.
For the pad-state thread: `lock`, `wait`, `relock` (woken, and waiting for the mutex), the reads of level,
connection and each actuator, `publish`, `unlock`. Every access to one field under the read/write lock is
one atomic step. `heard` is what the listeners saw last, `window` a history of the pad states since the
snapshot was begun.

**PadLifecycle** reuses PadServer's actions unchanged. `Do(A)` runs one while the process lives; an action
that starts with a cancellation point is blocked once its thread's cancellation is pending, and
`ControllerDies` / `PadstateDies` take its place. `pthread_mutex_lock` is no cancellation point;
`pthread_cond_timedwait` acquires the mutex before the thread dies. Output is allowed to be a cancellation
point, which POSIX leaves open. `SecondJoinReturns` covers the join, from the signal handler, of a thread
that `main` is already joining: undefined in POSIX; some C libraries return `EINVAL`, others wait.

**ActuatorDriver** has one action per system call and its failure. `fds` counts open descriptors: the GPIO
driver closes its own (though not after a failed ioctl), the PWM driver none.

**ControlLink** models the two directions of each TCP connection as sequences, `up` of requests, `down` of
tagged acknowledgement bytes (two for an actuation, one for an arming request), because the client
decides by its latest request how many bytes to read. `Break` may lose any tail of what is under way. The
server's verdict on a request is any status. `AcceptFails` is `controller_run` after an error of `controller_accept`
that comes after its `accept`: the connection is closed with what was sent on it, and the next one awaited. The id of the requested actuator reads like a status, as the
real ids 0 to 3 do. Uninitialized bytes are any value.

**SwitchBox** has the client's side of the arming protocol on top of the abstract pad, so that its actions
`Arm`, `Actuate` and `Refuse` execute what `switch_callback` sent. `Flip` changes a pin and raises the
signal, which is lost if main is not in `sigwaitinfo` (it is neither blocked nor handled: both outcomes are
allowed). `Skip` and `Notice` are one look of the scan, with the guard `HeldBack` of
`control_client_main.c:391`; `Callback` records first, then sends. `GivesUp` (time-out), `Break`, `Error` and
`Restart` may come at any moment; a switch is `unmet` when its last
request was lost, or asked for an actuator that did not move.
`build` chooses the board or the desktop, whose keyboard toggles recorded states directly. The scan's
number of rounds is a constant.

**ControlStream** refines what ControlLink takes as whole messages: the client sends the bytes of a request,
`Received(n)` is any piece TCP may deliver, the stream ends after any byte. The header is assembled piece by
piece (`ReceiveHeader`); the body is taken by one `recv` (`ReceiveBody`), and what that does not fill is
uninitialized: any byte of `Garbage`. Headers that are no request are passed over.

**Sensors** follows `sensor_telemetry`: the flush and tare loops of `sensor_mass_calibrate`, then column by
column over the ADCs, all triggered before all are read. `converted` is what each ADC would return now.
A message is a pair: the sensor it names and the one that was measured, so that a mix-up is visible. A
failed trigger may or may not have begun the conversion.

**TelemClient** puts datagrams of several messages into a bounded buffer that drops what does not fit.
`Peek` looks at the first header, `Receive` takes the first message and with it the whole datagram. The
receive call's effect on the rest of a datagram is that of UDP sockets; the client's own comment
(`telem_client_main.c:83`) says so too.

## 3. Runs

| run | checks | bounds |
|---|---|---|
| `ladder` | `NoRungSkipped`, `NoShortcutToFire`, `ActuationAdvances` | one actuator of each kind; ids and levels outside the range; states 0 to 2. The rules distinguish nothing else |
| `server` | `NoLostUpdate`, `NoLostWakeup`, `SnapshotReal`, `IndInv`, `ImplementsPadCommands` | igniter, quick disconnect and dump valve: two actuators to tear, both that move the level twice within one command, all five levels. No datagram loss: no safety property reads `heard` |
| `lifecycle` | `SocketOutlivesItsUser`, `ExitAfterCleanup`, `TelemetryStops`, `AvailableWhileTelemetryLives`, `AgreementWhileTelemetryLives` | the dump valve, which any level commands, and datagrams lost at will: what matters is who holds the mutex when a thread dies, and that what changes is heard |
| `lost_mutex` | violates `SignalUpdateReturns` | the same, no datagram lost |
| `drivers` | `GpioAnswerMeansDriven`, `GpioGivesBack`, `OtherChannelKept`, `DriverInv` | one GPIO actuator, both PWM channels, three descriptors, every call may fail |
| `pwm_ok` | violates `OkMeansDriven` | the same without any device fault |
| `link` | `ExecutedInOrder`, `AnswerBelongs`, `VerdictTrueInTime`, `ClientServed`, `ClientReturns` | 3 requests, 3 connections, both kinds of request; time-outs, driver errors, breaks, accepts that fail and the end of the server together. Three requests: one late, one mistaken, one more |
| `stream` | `ExecutedAsSent`, `NothingLeftBehind`, `ServerReturns` | 2 connections of 2 requests: a message cut anywhere, one after it, and a client after a client that left in the middle; bodies and garbage made of bytes that are header bytes too |
| `switch_box` | `FollowInv`, `Interlock`, `PadFollowsBox`, `NoEscalation` | key, ignition switch and quick disconnect, which moves the level itself; two of the switches may fail to be read; 2 requests under way, so that a late one is followed by the opposite one, or by another switch's, before it is executed; scans of 1 round, since a signal starts the next at once |
| `switch_live` | `SwitchNoticed` | the same switches; scans of 2 rounds (a flip behind the first look is seen by the second); 1 request under way while the client goes on after a time-out, to keep the temporal check small |
| `sensors` | `SensorInv`, `LabelTrue`, `OneReadingEach`, `TareNear`, `TelemetryFlows` | ADCs with 3 and with 1 channel (a column that only one of them has), 2 thermocouples, 3 readings of -3 or 5 (fractions cut in both directions) |
| `telem_client` | `TelemInv`, `PeekHolds`, `LevelShown` | 2 actuators, 2 levels, one other measurement, 3 datagrams in the buffer, so that any two kinds are queued in any order and the buffer overflows |

Type invariants: `TypeOK` of PadServer is a part of `IndInv`, `DriverTypeOK` of `DriverInv`, `TelemTypeOK` of
`TelemInv`, `BoxTypeOK` of `FollowInv`, `SensorTypeOK` of `SensorInv`. `TypeOK` of PadCommands, `LinkTypeOK` and
the inductive invariants of section 5 that no run names, `AnswerInv`, `LifeInv` (with `LifeTypeOK`) and `StreamInv`
(with `StreamTypeOK`), hold too and can be checked by naming them in the configuration. They ask no question of their own;
each was found to hold on the bounds of its run before it was proved.

Deadlock is checked where the system never rests. It is off for PadLifecycle (the process exits),
ControlLink (no more requests, the server gone) and ControlStream (no more requests). `MaxSends`, `MaxSent`,
`MaxConns`, `MaxFlight`, `BufferSize` and `MaxFds` are the bounds in guards; the last two stand for limits the
systems really have.

What the properties say, in short:

* `NoRungSkipped`: every level below the current one was visited since the pad was last disarmed.
  `NoShortcutToFire`: the fire valve opens only after all five levels, the igniter fires only after the
  four below its own. `ActuationAdvances`: the level changes whose result `pad_actuate` ignores are not
  refused on the way up.
* `NoLostUpdate`: when nothing is owed, recorded or being built, the last snapshot sent is the pad's state.
  `NoLostWakeup`: the pad-state thread never sleeps on a recorded update. `SnapshotReal`: a snapshot read
  in pieces is a state the pad was in meanwhile. `ImplementsPadCommands`: refinement of the atomic specification.
* `SocketOutlivesItsUser`, `ExitAfterCleanup`, `TelemetryStops`: the orderly part of shutdown. `ExitAfterCleanup`
  asks only that the controller has been told to die: `int_handler` may exit under it (section 6).
  `AvailableWhileTelemetryLives`, `AgreementWhileTelemetryLives`: until the telemetry thread ends, no request
  hangs, and listeners come to show the state the pad settles in.
* `GpioAnswerMeansDriven`, `GpioGivesBack`, `OtherChannelKept`: answers of GPIO actuators are true, their
  descriptors come back, the two PWM channels do not disturb each other.
* `ExecutedInOrder`, `AnswerBelongs`, `VerdictTrueInTime`, `ClientServed`, `ClientReturns`: what holds on
  the control connection whatever fails, with the exceptions named: a receive that timed out on this
  connection (`AnswerBelongs`, `VerdictTrueInTime`), a connection the server has closed, because it ended or could
  not set the options of the new socket (`VerdictTrueInTime`, `ClientServed`), a connection that broke
  (`ClientServed`), a driver error, which is met with silence (`ClientReturns`).
* `NoEscalation`: the pad leaves `ARMED_PAD` only by a request sent with the key recorded as in. `Interlock`:
  once nothing is under way, the level is not above what key and ignition switch permit, except after a lost
  request of these two or a restart. `PadFollowsBox`: so are the actuators where their switches are recorded; of
  several requests for one under way the last decides.
  `SwitchNoticed`: a flip before the scan's last look is recorded in the end.
* `ExecutedAsSent`, `NothingLeftBehind`, `ServerReturns`: the byte stream, except after a body that came short.
* `LabelTrue`, `OneReadingEach`, `TareNear`, `TelemetryFlows`: readings are those of the sensor named, except
  after a trigger that failed in the same round; the packet fits; the zero point is off by less than one per
  reading; rounds do not stop unless the load cell delivers nothing while it is calibrated.
* `PeekHolds`, `LevelShown`: the client reads the message it peeked at; the arming level it shows
  converges although datagrams are dropped.

## 4. Fairness

* PadServer itself has no fairness: its liveness is checked in PadLifecycle, where its threads may also die.
  There both threads take their own steps (`WF`): nothing else in them blocks. A thread that waits
  for `update_mut` gets it in the end (`SF` of `C_Lock`, `T_Lock`): between two uses each of them gives
  the mutex up, to wait up to a second or for a request. `SF` of `T_Timeout`: the deadline of
  `pthread_cond_timedwait` is absolute, so no number of wake-ups postpones it. `SF` of a `T_Publish` that arrives: of
  endlessly many datagrams some arrive. Clients need not send anything.
* `main`, the handler and a pending cancellation proceed. SIGINT need not come, and
  the data file need not be bad (`MockReturns` has no fairness).
* ControlLink: `Connect`, receiving and the server's steps are weakly fair; keep-alive makes the server
  notice a dead connection. Switches need not be flipped, and a time-out need not happen: no property is
  made true by one.
* SwitchBox: client and pad together do not stop while one of them can go on (`Works`): receives time out,
  and the pad takes and answers requests, which is `AvailableWhileTelemetryLives`. Nobody has to flip a switch,
  reconnect, or lose a connection.
* ControlStream: the controller thread goes on while bytes, a connection or its end are there.
* Sensors: the telemetry thread goes on; every call of a driver answers or fails.
* TelemClient: the client runs, and of the endless heartbeats that find room some arrive.

## 5. Proofs

The proofs rest on the named assumptions on the constants only: `ActuatorAssumption`, `RequestAssumption`,
`NetworkAssumption`, `DriverAssumption`, `LinkAssumption`, `ErrorAssumption`, `StreamAssumption`,
`TelemAssumption`, `BoxAssumption`, `SensorAssumption`. Three deserve a word. `BoxAssumption`:
no two switches ask for the same, there is one key, and no switch that can be read from a pin arms for
`ARMED_DISCONNECTED`; the table at `control_client_main.c:49` is such. `ErrorAssumption`: what a broken connection
shows is no errno that `switch.c` makes of a status. `StreamAssumption`: bodies have one byte (arming) or two
(actuation), as `packet.h` lays them out.

Every safety invariant and every action property the runs check is a theorem.

* `PadLadder_proofs`: `NoRungSkipped`, `NoShortcutToFire` and `ActuationAdvances`, for any ids and requests. The
  invariant adds to `NoRungSkipped` the types of level and history. The step lemma says that a level changes
  by one step up or falls to `ARMED_VALVES` or `ARMED_PAD`; an actuation that leads further up than one rung
  would break it, and is excluded by what `Commandable` requires at each level. `ActuationAdvances` needs the same
  exclusion from the other side: where the quick disconnect or the igniter may be commanded, the level
  it asks for is the next one, or is reached already.
* `PadServer_proofs`, first part: `IndInv` and from it `TypeOK`, `NoLostUpdate`, `NoLostWakeup` and
  `SnapshotReal`, for any number of actuators. None of these is inductive alone. What makes them so is
  `Mixed`, the pad state about to be reported: what has been read taken from `snap`, the rest from the pad
  as it is. `WindowInv` says `Mixed` was true since the snapshot was begun; `FreshInv` that it equals the
  pad's state unless the controller owes a signal. Reading a field does not change `Mixed`. The controller
  changes the pad at most twice while a snapshot is built, since it must pass `update_mut` in between, and
  only as *actuator, then level*: as the level is read before the actuators, a snapshot that misses
  the second change has either both old values or just the first change. `MutexInv` provides the exclusion.
* `PadServer_proofs`, second part: `SocketOutlivesItsUser` and `ExitAfterCleanup` of PadLifecycle, for any number of
  actuators. Neither mentions who starts and joins whom, which is why they hold: `PadstateTended` places the
  pad-state thread between the `pthread_create` and the `pthread_join` of the telemetry thread, `SocketTended` the
  open socket between its initialisation and the last clean-up handler, `HandlerInOrder` the joins of
  `int_handler` in their order. `MutexInherited` adds what a cancelled pad-state thread leaves locked; from it
  follows `ControllerStuck`, the reason why the run `lost_mutex` is violated: a controller that wants the mutex
  after that never gets on.
* `PadServer_proofs`, third part: PadServer implements PadCommands. The mapping is `AbsLevel` (from the moment
  an actuator is driven the abstract level is the one its follow-up will set) and `Decided` (the answer is
  owed once the outcome is certain). `Actuate` is `C_Drive`; locking, signalling and all of telemetry
  stutter. It relies on `IndInv` for the request in hand.
* `ActuatorDriver_proofs`: `DriverInv` (what each label says of command, descriptor and pin) and from it
  `GpioAnswerMeansDriven`, `GpioGivesBack`, `OtherChannelKept`, for any actuators and descriptor limit.
* `ControlLink_proofs`: `ExecutedInOrder`, `AnswerBelongs`, `VerdictTrueInTime` and the types, for any number of
  requests, connections and faults. `OrderInv` puts all requests in one line - executed, on the connection
  being served, on the one waiting to be accepted - and says that the line only increases; `EndsInv` says
  which connections may still carry anything. `AnswerInv` adds `Quiet`, about the client's own connection as
  long as no receive timed out on it: nothing is left on it while the client is idle; when it waits, the server can
  hold no request but that one, and what can be read is the *whole* answer to it. This is what a
  connection that breaks must not violate, since a break loses a tail at a segment's boundary (`Boundaries`).
* `ControlStream_proofs`: `ExecutedAsSent` and `NothingLeftBehind`, for any bodies and any number of clients and
  requests. That the bytes of a request are where the server looks for them is a fact about the
  concatenation of all requests, and looks like an induction over them, which the provers cannot do. `InStep`
  does without: it only says that offsets *exist*, one for each request still to be executed, that grow
  by the length of the request and at which its bytes are found. `Send` extends the offsets by one,
  `Received` shifts all of them, executing a request drops the first. A stream that was cut has offsets
  beyond its end, by `lost` bytes; only then may a connection be left with requests not executed.
* `SwitchBox_proofs`: `NoEscalation`, `Interlock` and `PadFollowsBox`, for any table of switches and any number of
  requests under way. `KeyInv`, about all requests under way, is needed because a request outlives the scan
  that sent it, the connection and even the client: when the pad executes it, the key may be out again. The
  guard at `control_client_main.c:391` is what makes it inductive; the wrap of the level below `ARMED_PAD` to
  255 is covered by the byte. `FollowInv` follows the latest request of each switch: it carries what is
  recorded and nothing of the same switch is behind it (`LatestInv`); what was sent after the key's was sent
  with the key as it is recorded (`KeyKnown`); once a switch has no request under way and none lost, the actuator is
  where it is recorded (`ActuatorsFollow`) and the level is as low as the key demands
  whatever the ignition switch has asked for since, and the other way round (`LevelFollows`).
* `Sensors_proofs`: `SensorInv`, `LabelTrue`, `OneReadingEach` and `TareNear`, for any ADCs, topics, forces and
  number of readings. `ColumnInv` says what every ADC holds between its trigger and its read; `OrderInv` that a
  message is in the packet only if its turn has come, hence at most once, hence (by an injection into the
  sensors) at most 32. `TareInv` bounds the error by the readings so far; the step needs only that
  a division toward 0 cuts off less than one.
* `TelemClient_proofs`: `TelemInv` and `PeekHolds`, for any number of actuators and any buffer.

Only model-checked: every liveness property (`TelemetryStops`, `AvailableWhileTelemetryLives`,
`AgreementWhileTelemetryLives`, `ClientServed`, `ClientReturns`, `SwitchNoticed`, `ServerReturns`, `TelemetryFlows`,
`LevelShown`), since fairness and ENABLED are outside the prover. `UndoMovesBack`, `OkMeansDriven`, `VerdictTrue` and
`ActuatorsShown` are violated (section 6). The proofs of PadServer are about the server while its threads live: that its
snapshots are real up to the moment a thread is cancelled is not proved of PadLifecycle.

## 6. What the code does not keep

Each of these is a run that TLC finds violated:

* `lost_mutex`: the pad-state thread is cancelled while it holds `update_mut`, which stays locked. If the
  telemetry thread ends for a data file it cannot open, the controller blocks at its next state change.
* `pwm_ok`: the PWM driver opens a descriptor per command, closes none, and returns a positive errno where
  `actuator_on` and `actuator_off` expect -1. Once descriptors run out, the dump valve and the quick disconnect are recorded and
  acknowledged as driven, and are not.

Three more have a configuration, though no run of their own (`tlc -config X.cfg M` shows the violation):

* `MCPadLadderUndo.cfg`, `UndoMovesBack`: `pad_actuate` means to step the level back when the igniter or the
  quick disconnect is turned off (comments at `state.c:325` and `state.c:339`), but asks for a level
  `padstate_change_level` refuses from there, and ignores the refusal.
* `MCControlLinkLate.cfg`, `VerdictTrue`: an acknowledgement that comes after the client's time-out is taken
  for that of the next request, even if of the other kind.
* `MCTelemClientActuators.cfg`, `ActuatorsShown`: the pad state travels as one datagram of several messages; the
  telemetry client receives the first and so discards the rest, and never logs an actuator.

Seen in the same models, and visible in them as exceptions or guards:

* an arming request alone reaches `ARMED_DISCONNECTED` and `ARMED_LAUNCH` (`ChangeAllowed`), where
  `packet.h:76` and `packet.h:77` describe them as the quick disconnect disconnected, the ignitor ignited;
* the dump valve takes any state (`ActStatus`), where `state.c:235` promises `ACT_INV`;
* a command waits for the telemetry thread, which holds `update_mut` across `sendmsg`
  (`pad_server_main.c:141`: telemetry "should not take processing time away");
* after SIGINT the same lost mutex keeps the controller in `pthread_mutex_lock`; depending on the C
  library the handler's join waits for it for ever, or returns at once and the process exits under the
  running controller (`JoinController`);
* at the end of the stream `recv` returns 0 and the client evaluates an uninitialized acknowledgement
  (`ReceiveEof`; hence `closed["server"]` in `VerdictTrueInTime`). The server closes a live connection when it
  ends, and when `setsock_keepalive` fails on a connection it has just accepted (`AcceptFails`,
  `controller.c:193`);
* a driver error is not answered, and a client without a receive time-out waits for ever (`PassedOver`);
* a switch whose request was lost or refused is recorded as done and not asked for again until it is flipped
  (`Callback`, `switch.c:83`; hence `unmet`);
* a switch flipped behind the scan's last look, while `main` does not wait for the signal, is seen at the next
  flip only (`WillBeSeen`);
* a body that comes in two pieces is executed with uninitialized bytes, and its rest is taken for a header
  (`ReceiveBody`, `controller.c:357`; hence `short`);
* an ADC channel whose trigger fails is read all the same, and another channel's conversion is published under
  its name (`TriggerFails`, `telemetry.c:383`; hence `failed`);
* a load cell that delivers nothing keeps `sensor_mass_calibrate`, and so all telemetry of sensors, in its loop
  (`FetchFails`, `sensors.c:124`);
* the comment at `control_client_main.c:344` speaks of checking switches twice, the loop at line 346 makes
  as many rounds as there are switches; line 427 tests `ENOTCONN` twice.

## 7. What is not modelled

* Messages of other types are passed over in ControlStream; PadServer and ControlLink do not have them. What a
  request made of short or misaligned bytes does is that of the request it happens to be (PadCommands).
* The conversion formulas from voltages and forces to measurements, in floating point (`telemetry.c:478`, whose
  slope divides by the difference of calibration mass and tare; `sensors.c:183`, which also fixes the polarity
  of the continuity reading): real arithmetic is outside TLC. That an ADC returns the conversion triggered
  last, finished, is assumed of the hardware.
* The contents of the mock data file and of the random telemetry of the desktop build; how the mock thread
  ends is in PadLifecycle.
* The desktop client's privilege guard (it has none) and the end of its standard input, at which its loop
  (`control_client_main.c:308`) spins; the start-up options of the clients and the ways in which the telemetry
  client exits.
* `SIGPIPE`, which on the desktop ends a server that answers a client that has gone (`controller.c:414`): in the
  models a server may stop at any moment.
* The read/write lock as such: its critical sections are single reads and writes, hence atomic.
* Scheduling priorities, clock values, and the duration of time-outs.
* Dummy actuators (the drivers without faults), logging, option parsing, board bring-up, build files:
  output, straight-line calls before any thread starts, or no program logic.

## 8. Plan

Done: 1 PadRules, PadCommands, PadLadder and their proofs; 2 PadServer, its invariant and refinement
proofs; 3 PadLifecycle; 4 ActuatorDriver and proofs; 5 ControlLink; 6 TelemClient; 7 SwitchBox, ControlStream
and Sensors; 8 proofs of every safety invariant and action property of these modules.

Left, in this order:

1. `SnapshotReal` for PadLifecycle, where cancellation may end a thread at any point:
   `IndInv` with a dead pad-state thread in it.
2. ControlStream and ControlLink as one refinement: a stream that is never cut within a body implements the
   queue of whole requests. `InStep` is the mapping's invariant.
3. PadServer with ActuatorDriver in place of `C_Drive` / `C_DriveFails`: descriptors that run out under a
   sequence of requests, seen from the client.
