# A TLA+ model of the sled server

The sled server moves a linear sled: clients send commands over TCP, the server
turns them into CANopen traffic to a servo drive (DS402), and streams the measured
position back. `libsled` is its core: five state machines that bring the drive from
"unknown" to "ready to move", and a table of motion profiles that is written to the
drive one SDO at a time. `librtc3d` cuts the byte streams of the clients into packets,
and the command server executes them. This directory holds TLA+ modules that model all
three, TLC configurations that check them on small instances, and TLAPS proofs of the
invariants of all three, and of a refinement, for every instance.

## The system

| part | state it keeps | operations | what makes it hard |
|---|---|---|---|
| CAN interface, `libsled/interface.cc` | CAN handle, read event, callbacks of the last SDO request | open, close, send request / NMT command, dispatch what is read | full transmit buffer, failing read or close, answers that come after their request is forgotten |
| SDO machine, `mch_sdo.cc` | queue, active SDO, state | queue read / write, completion callbacks, enable / disable | one request at a time, no timeout, callbacks that queue more, queue dropped on reconnection |
| Network machine, `mch_net.cc` | NMT state | reaction to NMT reports, watchdog, upload complete | reports at any phase of the configuration upload |
| DS402 machine, `mch_ds.cc` | rung of the DS402 ladder | reaction to status word and voltage | faults and voltage losses at any rung |
| Motion machine, `mch_mp.cc` | mode switch, homing, setpoint handshake | reaction to mode and status bit 12, client setpoints | shares the control word and the queue with the DS402 machine |
| Interface machine, `mch_intf.cc` | closed, opening, opened, closing | open, close | failures of the device |
| Facade, `sled.cc` | last position, time of the last NMT message | TPDO and NMT handlers, watchdog, client calls | position asked for before one was measured |
| Profiles, `sled_profile.cc` | parameters and per-field write states of 99 profiles, profile in register 0 | create, destroy, set, execute, write pending changes | edits while writes are under way, drive restarts in the middle of a batch |
| Sinusoids, `sled.cc` | four built-in profiles that name each other as next | start, stop, and both with a ramp | the drive runs the loop by itself; a stop rewrites a link of a running loop |
| TCP server, `librtc3d/server.cc` | connections, bytes waiting to be written | accept, read, write, disconnect | reads of any size, clients that close or reset at any moment, writes after that |
| RTC3D, `librtc3d/rtc3d.cc` | packet under assembly per connection | frame the stream, dispatch | header and payload cut anywhere, one-byte counter, disconnection inside a handler |
| Command server, `src/server.cc`, parser | streaming clients, profile numbers | one-line commands, periodic frames | one table of profiles for all clients, commands that fail half-way, pointers to connections that end in three ways |

The program is one thread around a libevent loop. A callback (a readable CAN device,
the watchdog timer, a client command) runs to completion, and inside it the machines
call each other synchronously: the interface machine tells the network machine, which
enables the SDO machine and the DS402 machine, which tells the motion machine; all of
them push SDOs, and the answer to an SDO may in turn call the network machine. So there
are no races between threads. What is hard is the order in which callbacks arrive
(reports, answers, losses, commands) and the re-entrancy inside one of them: an event
that is raised in a state that ignores it is lost for good.

### What each part should guarantee

* SDO machine: never sleeps on work, never sends what was queued before the link was
  lost, matches answers with requests, reports every dropped item to its owner.
* Network machine: starts the drive only after the whole configuration was confirmed.
* All machines: a lost link, device, voltage or a fault reaches every machine above it.
* Motion machine: `new_setpoint` rises only from a word in which it is low and the
  operation enabled; no motion before homing; every handshake ends.
* Profiles: the task the drive holds is the profile the client asked for, once the
  fields are reported written.
* Sinusoids: a loop is started only when it is complete in the drive, and a stop ends it.
* RTC3D: the reader knows which byte of which packet comes next, however reads are cut.
* Command server: every packet is dealt with; frames go to connections that exist; the
  numbers of clients stand for different profiles, which are as they were last set.
* Whole: after any upset the sled becomes ready again without manual help.

## Modules

The machines are operators on one process record, `host`, rather than variables of
separate components: a callback changes several machines in a fixed nesting, and a nest
of operators is exactly that. An operator `XHandle(h, e)` is `mch_x_handle_event`: it
computes the next state, and if it differs runs the exit action, changes the state and
runs the entry action (`machines/machine_body.h`). Each layer only calls the layers
below it.

    MchSdo <- MchMp <- MchDs <- MchNet <- MchIntf <- Sled <- SledDrive
                                                      |  \
                                                 Supervisor  SledProofs <- SledUpload <- SledSetpoint
    SledDrive, SledSetpoint <- SledDriveProofs
    SledProfile <- SledSinusoid
         ^-------- SledProfileProofs <- SledTask
    SledSinusoid, SledTask <- SledSinusoidProofs
    NetServer <- Rtc3d <- SledServer <- SledServerProofs

* **MchSdo**: `mch_sdo.cc` and the request side of `interface.cc`. Objects of the
  dictionary are strings; the two callback pointers of an item become its owner
  (`cb`): configuration, last write of the configuration, profile, or none. Every abort
  callback of the program ends in `exit(1)`; this is `status = "exited"`. A failed
  assertion is `status = "aborted"`: the build does not define `NDEBUG`.
* **MchMp, MchDs, MchNet, MchIntf**: the transition functions, entry and exit actions
  of the four other machines. MchNet also holds the completion callbacks of an SDO,
  because the last configuration write calls back into the network machine, and the SDO
  part of `intf_dispatch_msg`. The motion machine is the build without
  `DIRTY_SINUSOID`.
* **Sled**: everything the event loop can deliver, one action each: NMT report, TPDO 1
  (status word, voltage, mode, bit 12), TPDO 2, SDO answer, read error, watchdog, and the
  client calls execute, write pending changes, light. The drive and the bus are
  unconstrained. `Settle` ends the callback early when the process exits in it.
* **Supervisor**: the abstract specification. One variable, `phase`, climbed one step
  at a time: offline, configuring, starting, enabling, homing, ready, moving.
* **SledDrive**: the same handlers in closed loop with a drive that behaves (external:
  modelled from how `libsled` uses it), for liveness. The drive loses its voltage,
  faults and restarts at any moment, refuses any request; the bus falls silent, loses
  requests, answers and NMT commands, and may deliver a heartbeat before the answer to a
  request sent earlier. Clients start motions, and stop them with or without a link. (The
  light, one more write without callbacks, is only in Sled.)
* **SledProfile**: the profile table with its field states, the chain of writes through
  register 0, and the part of the drive that stores motion tasks. The SDO machine is the
  queue of MchSdo seen at the grain of profile writes; the network is three states of
  it. `nm` to `um` division and the halving of the time are modelled by what they do.
  `WriteIfChanged` is the macro of that name, and `WriteChain` the recursion of
  `sled_profile_write_pending_changes`, as a function on the number of calls.
* **SledSinusoid**: the sinusoid commands of `sled.cc` on top of SledProfile: the
  profiles `sled_create` makes, their edits and the order in which they are written.
* **NetServer**: `librtc3d/server.cc` and the clients. The kernel and libevent are
  modelled from how the server uses them. The events are declared `EV_ET`, but
  `main.cc:267` asks libevent for a backend with `EV_FEATURE_FDS`, which on Linux is poll
  and never epoll; poll does not know `EV_ET`, so a handler that reads once per event is
  called again while there is something left. A write to a client that answered an earlier one
  with a reset raises SIGPIPE, which nothing handles.
* **Rtc3d**: packet framing. A packet is a record with the number of its bytes (`size`)
  and the length its first four bytes say (`length`), which nothing compares; a read
  takes any part of the stream, and `read_handler` works on it in steps of as many bytes
  as fall in the same branch of its loop, with no other handler in between. `data_left`
  counts modulo 256. A length of four more than a multiple of 256 leaves no data to wait
  for and a connection that is deaf from then on (`Ignore`); one below four makes `size`
  wrap around, and the data is written outside the buffer, of which the process may die
  (`Overrun`); a wrong one makes the reader take data for a length, which may then be any
  of `Lengths`. What is in a buffer that was not filled by the packet may be any command
  or none (`Said`).
* **SledServer**: `packet_handler`, one action or disjunct per command, the parser as far
  as its result can differ from the text, `tlate_profile_id`, streaming (of
  the list `stream_clients`, how often each connection is in it: the order decides only
  the order of the frames), and the
  `bye` that frees the connection `read_handler` is still using: the process goes on or
  dies. In the first case the rest of the read is lost; that a command in it is executed
  out of freed memory is not among the outcomes. Of the grammar's `error` production only
  a `setinternalstatus` without an argument comes back as a success (`Parsed`); with a
  wrong one it is a syntax error like any other.
* **MCSled, MCSledDrive, MCSledProfile, MCSledSinusoid, MCSledServer**: the instances TLC
  checks.
* **SledProofs, SledUpload, SledSetpoint, SledDriveProofs, SledProfileProofs, SledTask,
  SledSinusoidProofs, SledServerProofs**: the theorems.

History variables, which no handler reads: `ses` (parity of the SDO session), `acked`
(confirmed configuration writes), `cw` (last control word sent), `badStart`, `leaked`
in `host`; `hurt` (what happened that the program has no answer to) in SledDrive; `tainted` and `owner` in
SledProfile; `wish` (last sinusoid command) in SledSinusoid; `blame`, `unfit`
(clients that sent a packet the reader cannot follow) and `asked` (what was last set) in
the server modules. Definitions whose comment starts with
"Fault:" are plausible programming errors, kept beside the operator they would replace;
no specification uses them. Each shows that some property would notice the error
(`mutants` in `PROJECT.json`).

## Runs

| run | result | what it shows |
|---|---|---|
| `machines` (MCSled) | passes | the machines against an arbitrary drive and a lossy bus |
| `closed_loop` (MCSledDrive) | passes | after up to four upsets and stops readiness returns, the sled is in one of three known waits, or the process has ended for a known reason |
| `profiles` (MCSledProfile) | passes | two profiles edited, chained and executed while writes are under way |
| `sinusoids` (MCSledSinusoid) | passes | starts and stops of both kinds, given while earlier ones are being written |
| `server` (MCSledServer) | passes | two clients that send, leave and are served in any order |
| `bounds` | violated | a position that the check calls out of bounds is set all the same |
| `silent_drop` | violated | an SDO active when the link is lost is overwritten unheard |
| `late_answer` | violated | an answer that outlives its session ends the process in an assertion |
| `unmeasured_position` | violated | a position is returned before one was received |
| `lost_update` | violated | a field edited during its own write counts as written |
| `next_left_behind` | violated | changes to a following profile are not written |
| `ramp_goes_on` | violated | `current_profile` is not what register 0 holds, and a ramp down is stored with the link of another profile: the sled oscillates on after a stop |

`machines` checks the type invariant and

* `Cascade`: network, DS402, motion, SDO and interface machine agree with each other
  after every callback, including the ones in which opening or closing the device fails;
* `NoLostWakeup`, `NoStaleCommand`: see the theorems below;
* `ConfiguredBeforeStart`: the drive is started only when every write of the current
  upload was confirmed. The configuration writes its first object twice, so counting
  confirmations is not the same as matching the last one;
* `SetpointEdge`, `SetpointOnItsWay`: the discipline of the control word that three
  writers share, and that the handshake does not wait for a word that was never queued
  (in the SDO machine's ERROR state the word stays in the queue, and is never sent: ERROR
  has no way out while the network is operational);
* `ImplementsSupervisor`: every callback is at most one step of Supervisor. Within one
  callback a machine may climb several transitions; the phase climbs at most one.

`closed_loop` checks

* `AlwaysReadyAgain`: the sled becomes ready again after voltage losses, faults, a silent
  bus and restarts of an operational drive, as long as nothing happens that the program has
  no answer to (`hurt` stays empty);
* `OnlyKnownStalls`: with those too (lost frames, refusals, restarts before the network is
  operational, a fault while one is cleared) the only places to get stuck are an SDO
  machine waiting for an answer that cannot come or in ERROR, an NMT command that is sent
  once, and a fault nobody is going to clear, unless the process has ended. Each is a
  listed hazard;
* `StaysUp`: what ends the process. It exits only if writes with callbacks (of the
  configuration or of a profile) waited in the queue while SDOs were disabled or in error
  (`"writes"` in `hurt`: a link lost in front of them, a stop command without a link, a
  refusal before them), or if the drive refused such a write (`"refused"`). An assertion
  fails only if an SDO session was opened with a request of an earlier one still
  unanswered (`"late"`, what `late_answer` shows). All three happen in the run; no other
  silence, restart, lost frame, refusal, fault or stop ends the process;
* `ReadyIsTrue`: server and drive agree on mode, homing and pending setpoint once nothing
  is in flight, also after late answers.

`profiles` checks `WritingIsUnderWay` and `TaskIsProfile`; the latter leaves out profiles
that met the disagreements of `lost_update` and `next_left_behind`, or were merged with
another profile in register 0 (as in `ramp_goes_on`), which `tainted` records.

`sinusoids` checks `TaskIsProfile` for the built-in profiles, `StopEnds` (once the writes
of a stop are through, the loop in the drive has an end, also after a stop during a
start, a refused start, or the other kind of stop), `StopTakesEffect` (they do get
through) and `LoopIsClosed` (no start of a loop that is not linked both ways). Of a stop
with a ramp, `StopEnds` says that the way there leads to the ramp down, and that the ramp
has an end unless it is tainted. `RStopEnds` says so of a tainted ramp as well, and is
what `ramp_goes_on` finds violated.

`server` checks

* `InStep`: the reader's counters are right for every position in the stream, whatever
  others send. Clients that sent a packet that does not fit are left out (`unfit`):
  its length is not the number of its bytes, or it has no byte or more than 255 after its
  length. `read_handler` checks none of this, and is deaf or out of step afterwards, which
  the run contains;
* `StreamsAreConnected`: the list of streaming clients holds no connection that was freed,
  and none twice, whether it ended by `bye`, end of stream or failed write;
* `ProfilesApart`, `SetIsWhole`: no two numbers share a profile; a profile is entirely as
  the last `profile set` answered with ok says. A set that fails for want of a next profile
  is answered with an error and has changed the position by then (`server.cc:162`); the
  property says that it has changed nothing else;
* `Served`: what a client sends is read to the end, or the process is gone.

The seven violated runs each state what a comment or an assertion of the source says;
`findings` in `PROJECT.json` quotes the line.

### Bounds

* `MaxQueue = 1` (4 in the closed loop): no new work is accepted while more SDOs wait.
  It bounds what a client or a report adds; a batch (the configuration of four
  writes, a profile, two words of one report) is queued as a whole on top of it, so
  queues longer than a batch, and batches behind a batch, occur. The handlers only
  look at whether the queue is empty and at its head.
* `MaxTx = 2`: unanswered requests on the wire. One is left from the session before,
  one is of this session; the third is dropped, as by a full controller.
* `Config` of four writes with a repeated object, of the 24 in the code: first,
  middle, repeated and last are the cases the callbacks tell apart.
* `ProfileFields`: one field with callbacks is enough for the queue; SledProfile has
  all eight.
* `MaxUpsets = 4` upsets and stop commands: a stop, a loss and two more upsets, or one kind
  four times. Every way to end the process that `StaysUp` names takes at most two.
  673,204 states.
* `NProfiles = 2`: a profile and its successor, a cycle, a profile that follows itself.
  One value besides the default for each parameter: the code only asks whether a
  value changed. `MaxCalls = 6` lets a client create two
  profiles, set and chain them, execute, and edit or execute once more;
  `MaxLosses = 1` covers a restart at every point of a batch.
* `sinusoids`: four calls are a start, a stop, and one more start and stop of either kind;
  one lost link; `MaxQueue = 2` lets a command come with the writes of the one before
  still queued. One amplitude, period and position: the properties are about links.
  `current_profile`, which `sled_create` leaves uninitialised, is any handle or none.
  `ramp_goes_on` takes six commands, too many to try every order of: `RampSpec` has them
  in the one order that matters, with the drive's answers anywhere between them.
* `server`: two clients and two connections in all, so that a client may come back or two
  are there together. Two packets in all, of nine kinds, cover a definition that
  replaces another, one that fails half-way, a full table (two profiles for three
  numbers), a command behind a `bye` in the same read, and streaming by both clients. `Cuts`
  ends reads inside the length and inside the payload, of the packet at hand and of the
  next. One command is padded to 260 bytes, the least that `data_left` cannot count; one
  packet is four bytes that say 0. `Lengths`, what bytes say that are taken for a length,
  is a length with less than a type behind it.
  `BufferSize` and `Backlog` are the code's. `MaxOut = 1`: writes after the end of a
  client, the dangerous ones, need a second answer or frame, which may follow a flush.
* Deadlock is not checked: the process really ends when it exits, aborts or is killed,
  nothing happens after the device is closed, and the bounds on calls, upsets and packets
  end in states with nothing left to do.

### Fairness

* Closed loop: weak fairness of the drive's answers, of its obeying NMT commands, its
  heartbeat and status reports, the end of homing, and the return of the voltage. The code
  relies on the drive for these (it has no retry and no SDO timeout), and libevent serves
  every readable descriptor. Three of the six conjuncts are written out with the enabling
  condition in place of `ENABLED`, because TLC cannot evaluate `ENABLED` of those nests of
  handlers in reasonable time. Upsets and client calls have none. Nothing says in which
  order an answer and a heartbeat arrive; where that matters, `hurt` records it.
* Sinusoids: weak fairness of the drive's confirmations only.
* Server: weak fairness of `Serve(c)` for each client: poll reports a descriptor as long
  as it is ready, and a handler comes to its end. Nobody has to send, read or leave,
  and no answer has to be written.

## Proofs

The invariants of the five passing runs, and the refinement, are also proved, with two
conditions: `TaskIsProfile` is proved in full of SledProfile, and of SledSinusoid as long as
no writes were on their way when the sled became operational; `ReadyIsTrue` is proved as
long as no answer outlived its SDO session. Without the conditions these two are only
model-checked. The theorems hold for every configuration, every list of profile fields, any clients and profiles, every set of
parameters, and whatever the bounds on queues, buffers, calls, losses and upsets are:

| theorem | statement | module |
|---|---|---|
| `TypeCorrect` | `Spec => []TypeOK` | SledProofs |
| `CascadeHolds` | `Spec => []Cascade` | SledProofs |
| `NoLostWakeupHolds` | `Spec => []NoLostWakeup` | SledProofs |
| `NoStaleCommandHolds` | `Spec => []NoStaleCommand` | SledProofs |
| `BatchIsIterated` | queueing a batch at once equals queueing it item by item | SledProofs |
| `SupervisorImplemented` | `Spec => ImplementsSupervisor` | SledProofs |
| `ConfiguredBeforeStartHolds` | `Spec => []ConfiguredBeforeStart` | SledUpload |
| `SetpointEdgeHolds` | `Spec => []SetpointEdge` | SledSetpoint |
| `SetpointOnItsWayHolds` | `Spec => []SetpointOnItsWay` | SledSetpoint |
| `StaysUpHolds` | `LoopSpec => []StaysUp` | SledDriveProofs |
| `ReadyIsTrueHolds` | `LoopSpec => []("late" \notin hurt => ReadyIsTrue)` | SledDriveProofs |
| `ProfilesTypeCorrect` | `Spec => []ProfilesTypeOK` | SledProfileProofs |
| `WritingIsUnderWayHolds` | `Spec => []WritingIsUnderWay` | SledProfileProofs |
| `TaskIsProfileHolds` | `Spec => []TaskIsProfile` | SledTask |
| `StopEndsHolds` | `SinusoidSpec => []StopEnds` | SledSinusoidProofs |
| `LoopIsClosedHolds` | `SinusoidSpec => []LoopIsClosed` | SledSinusoidProofs |
| `SinusoidTasksHold` | `SinusoidSpec => [](wish # "cut" => TaskIsProfile)` | SledSinusoidProofs |
| `InStepHolds` | `Spec => []InStep` | SledServerProofs |
| `ProfilesApartHolds` | `Spec => []ProfilesApart` | SledServerProofs |
| `SetIsWholeHolds` | `Spec => []SetIsWhole` | SledServerProofs |
| `StreamsAreConnectedHolds` | `Spec => []StreamsAreConnected` | SledServerProofs |
| `ServerTypeCorrect` | `Spec => []ServerTypeOK` | SledServerProofs |

(`Spec` is that of the component: Sled, SledProfile or SledServer; `LoopSpec` is that of
SledDrive and `SinusoidSpec` that of SledSinusoid, with their fairness. The counters that stop
a TLC run, such as `MaxCalls`, are arbitrary natural numbers in the theorems.)

### The machines

The first four follow from `Invariance`: `Spec => []IInv`, where `IInv` says of the
record that it is well typed, that the SDO machine is in order (`SdoOK`: waiting only on
an empty queue, sending only with an active item, all of this session) and that the
machines are linked (`Linked`). None of the three is inductive alone: an SDO machine that
waited on a full queue would, when an answer arrives, send an item of an older session;
without the type, a handler's result is not a process record; and enabling SDOs in the
middle of an upload is only harmless because the links say in which network states they
can be enabled already.

The argument follows the layers. A callback passes through states in which the machines
do not agree, so `IInv` cannot be carried through handlers as it is: instead a lemma per
handler (`ItemAvailable`, `QueueOK`, `EnableOK`, `DisableOK`, `FinishOK`, `MpHandleOK`,
`DsHandleOK`, `NetHandleOK`) says what the handler keeps and which fields it leaves
alone under what holds where it is called, and the `Good...` lemmas put them together
for whole callbacks. `Inductive` has one step per action. `BatchIsIterated` is stated
for a batch with one more item at its end, the inductive step of the fact that
justifies `SdoQueueAll`. The rest of the module and the next two go through the same
layers for more:

* **Refinement.** The phase depends on the network and the motion machine. A lemma per
  kind of callback (`NetSteps`, `Tpdo1Steps`, `ExecuteSteps`, `DispatchSteps`,
  `CloseSteps`) shows that it moves by at most one step of Supervisor, given `IInv`. The
  one with work in it is `Tpdo1Steps`: a status report raises four events, and what the
  first two do to the DS402 machine restricts what the last two can do to the motion
  machine.
* **Upload.** Counting confirmations says nothing unless what is confirmed is known, and
  the answer to a write does not name it. `UploadOK` therefore gives the callback of every
  item in the queue by its position: while the configuration is uploaded the active item
  is write `acked + 1` and the queue holds the rest in order, behind which anything without
  the callbacks of the upload may be queued; once the drive is being started none of the
  upload is left.
* **Setpoint.** `badStart` is decided when a word is sent, so the invariant (`Handshake`)
  is about the words still queued: each `NewSetpoint` among the last word sent and the
  queue comes after a word that allows it (`Clean`), the last of them allows a setpoint in
  the states of the motion machine from which one can be raised and whenever the operation
  is being enabled (`Allows`), and is the setpoint while its acknowledgement is awaited
  (`Raised`). The proof showed that `SetpointOnItsWay` holds in the ERROR state too,
  which an earlier version of the property left out.

### The closed loop

SledDriveProofs puts the same handlers against the drive of SledDrive. The drive lags
behind the server by the request on the wire and by the queue, so `LInv` speaks of the
drive as it will be when it has taken that request (`Taken`), and of the mode it ends up in
when it has taken the queue too (`EndsPP`). It does so only while the answer can still come
(`Alive`): when it was lost or refused the SDO machine rests until the link is set up again,
and nothing is claimed about it. On top of the invariants of the machines (`Sound`) it has

* `ModeOK`: after homing the drive is in, or on its way to, profile-position mode;
* `HomedOK`: and a drive that is operational is homed. A restart makes it unhomed and
  pre-operational at once; `NmtOK` says that it is not started again behind the server's
  back, because a start command is on the bus only while the network machine waits for it;
* `AckOK`: a setpoint is pending in the drive only while the last word sent has the bit.
  It is true of a DS402 machine that has seen the drive's state and not before: a server
  that starts over meets a drive that may still acknowledge an old setpoint, and is cured of
  that because UNKNOWN is left only on the report of a state other than
  OPERATION_ENABLED, and in these no setpoint is pending (`Acks`);
* `WireOK`: what is on the wire is the active item, with its callbacks registered. This is
  why no assertion in the completion callbacks fails. It is lost when a session is opened
  with a request of the one before unanswered, and then `LInv` says nothing more of the
  drive.

`LInv` has a part that holds throughout and one that holds until an answer is late. The
first is about the process alone (`Alone`): `Sound`, and that writes with callbacks which
wait while SDOs are disabled or in error are noted in `hurt` (`Known`). An exit is either
the end of such writes, when SDOs are enabled again (`NetExits`), or the refusal of one
(`DispatchExits`). The second is `Loop`, with `NmtOK` and the parts above; SDOs are
enabled where a heartbeat makes the network machine enter a state that needs them
(`NetOpens`), and there an answer can become late.
`AloneStep` and `LoopKept` have one step per action for each part.

An earlier version had a drive that answers before its next heartbeat and refuses no write
with callbacks, and a loop without stop commands. The exceptions in `StaysUp` are what the
proof needed once these were gone. A wording by the kind of upset, such as a bus that falls
silent, is not inductive: what ends the process is not the silence but the writes that wait
meanwhile, whatever made them wait.

### The profiles

`PInv` adds to `WritingIsUnderWay` the types, that the SDO machine does not rest on a
queue, and that what is queued can be sent: without it, a write pushed to a resting
machine would overtake the queue, and the last write of a field would not be the one with
its value. `MarksChanges` says what the setters have in common, that a field keeps its
state only if its value is the same (`TableMarks`, `TargetMarks`, `NextMarks`), and
`Written` what a chain of `WriteOne` has done at each call (`ChainWritten`, by induction
on the number of calls).

For `TaskIsProfile` the drive lags behind the server by what is in flight. `TInv` speaks
of the drive as it will be when all of that is executed (`Runs`): it has every field of an
untainted profile that is not marked as changed, and register 0 still holds the profile
written last (`Fits`). A confirmation leaves that future drive as it is; only
`sled_profile_execute` changes it, by whole profiles (`WriteOneLands`: the register is
loaded first, or still holds the profile, or every field is written; what is left is what
`tainted` records). `NoneChanged`, that no write of a field changed since is in flight, is
needed because a confirmation marks a field as written whatever happened to it in
between. A settled profile has nothing in flight, so its task is in the drive already.

### The sinusoids

`StopEnds` and `LoopIsClosed` do not follow from `TaskIsProfile`. The first speaks of tainted
profiles too, the second of a drive in the middle of its queue. `SInv` has the future drive
of SledTask (`LiveFit`, `LiveNone`), with two additions: the future drive obeys the last
command (`Obeys`), whatever is tainted, because a stop always writes the link of the way
there (`Told`: the link leads away from the oscillation only if that was the last
command, and then it was written); and on every run of the drive through what is in flight,
the oscillation is complete at each start of a motion (`LiveRuns`). The latter needs
`Closable`: a start writes the link of the way back only if there is a change in the way
there, so whenever that one was written the other was too. Nothing is claimed out of touch
with the drive (`Live`); `Fresh` says that it begins with every field to be written, after
a reset of all field states.

`StopEnds` was once stated without the exception for a tainted ramp. The proof failed
because a ramped start writes the last profile, the ramp down, in part and on the word of
`current_profile`; the state it failed in is reached by the six commands of
`ramp_goes_on`.

### The server

Four invariants, one per question, each inductive with the type of what it speaks of.
`ReaderInv`: the position in the first packet of the stream determines `size_left` and
`data_left`, the packets of a client outside `unfit` fit, and what the
read at hand still holds was sent. It needs the bytes of a stream as a sum over its packets
(`Bytes`, a fold): `FoldExists` and `BytesTail` derive what the sum is from the fold's
definition. `ProfilesInv` has the table of numbers and profiles (no two numbers have a
profile in common, a profile is followed by one that has a number) and the profile as it
was last asked for, carried through the steps of a command by `Extends`. `ConnectedInv` is
`StreamsAreConnected` with the type of the list; it leans on `ReaderInv`, by which the
connection whose packet asks for a stream is open. `OutTypeOK` has the rest of the types.

### Assumptions and limits

The assumptions are those of the modules, named where the constants are declared;
`ControlAssumption` (MchSdo) says that neither the configuration nor a profile writes the
control word itself, which the lists in `mch_net.cc` and `sled_profile.cc` do not;
`ByteAssumption` and `NetAssumption` that buffers and byte counters are not empty;
`ServerAssumption` that a packet has at least one byte and says some length, which need not
be its own; `LengthAssumption` that bytes taken for a length say one.

Induction theorems that take an operator are beyond the installed provers. Where a proof
needs induction over data (the chain of profiles, a run of the drive, a fold) it is
induction on a set, `NatInductionOnSet` and `SetInduction`, which follow from the
well-foundedness of `<`.

Only model-checked: liveness under fairness (`AlwaysReadyAgain`, `OnlyKnownStalls`,
`StopTakesEffect`, `Served`), which is out of the prover's reach, and the two conditions
named above.

## Not modelled, and why

* Byte layout of CAN frames and data frames, logging, texts of error codes: no state. What
  a streamed frame carries is left out too: with `#define SAWTOOTH` (`src/server.cc:22`)
  it is a sawtooth of the time, although the README of the repository (line 70) speaks of
  the position of the sled.
* CAN status frames: `interface.cc:482` compares before it masks, so such frames are
  dispatched like any other; the branch is dead.
* The scanner's tables and tokens (generated); of the grammar, the fields it leaves
  uninitialised and the error it takes back are modelled.
* Option parsing, daemonising and scheduling in the main program (operating system
  calls); teardown functions, which run only after an event loop that never ends; the
  byte order of a connection, which is stored and never used; tools and tests.
* Memory and descriptors: a packet buffer that is not freed with its connection
  (`rtc3d.cc:87`) and an `accept` that fails (`server.cc:107`) are listed as hazards.
* The build with `DIRTY_SINUSOID`.

## What is left

Every operation of libsled, librtc3d and the command server that changes state is in a
module. `TaskIsProfile` with the sinusoid commands and `ReadyIsTrue` are proved with a
condition each; the other safety properties of the passing runs are proved as they are
checked. One composition is not made:
SledServer leaves open whether the sled takes a motion, and SledProfile takes its calls from
an arbitrary client. Nothing in one depends on the other beyond that answer, so the
composition would show little that the parts do not.
