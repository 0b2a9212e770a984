# TLA+ models of p4-cases

The repository holds fourteen P4 cases. Each one compiles a P4 program, starts
BMv2 switches in a Mininet network, configures them with a Go controller over
P4Runtime and probes the result with packets; `common/` holds the machinery all
cases share. This directory models the parts of it whose correctness depends on
the order of events, and proves about them what can be proved for every size.

## The system

| Component | State | Operations | What is hard |
| --- | --- | --- | --- |
| Run of a case: `common/run_helpers.sh`, `NetworkRuntime`, `P4RuntimeSwitch` | the job's PID, signal dispositions, `_handlers`, `_controllers`, `_closed`, `proc` of every switch | start, fail, interrupt, tear down, exit | signals at any step, failures half-way, two processes that both get a Ctrl-C |
| Output of a controller: class `Controller` | bounded deque, `_overflow`, `_error`, `_eof`, a condition | reader thread; `readline`, `lines_for`, `wait_ready` | two threads, deadlines, end of stream, overflow |
| Learning switch (case 05) | tables `smac`, `dmac`, `broadcast`, multicast groups, digest lists; `learned`, the pending channel | lookups of a frame, digests, acks, table writes, retries | writes between lookups, lost answers, full queue, stale lists, partial failure |
| In-band telemetry (case 06) | `ipv4_lpm`, `int_table` of three switches; the option in a packet | route, push a record | three controllers at their own pace, routing loops, width of the length fields |
| Static switches (01-04), ECMP and LPM (09, 14), firewall (10), VXLAN (11) | match tables | install, look up | packets between two installs, longest prefix, priorities, 16-bit lengths |
| Meter (07), counters (08), flow counter (12) | meters, counters, a register | count, read, dump | order of installs, a late reply, wrap-around, hash collisions |
| Clone to CPU (13) | clone session in the switch, packet-in handler in the controller | clone, packet-in | the banner must come after both; the handler ends with its process |
| Packet tests (`topology.py`, `packets.py` of every case) | the driver's position, processes, ready files, temporary directory, captures | start, wait, send, confirm, collect, judge, clean up | deadlines, a probe or a controller that dies, a frame that is lost, doubled or late, false success |

They interact as follows. `run.sh` starts `topology.py` as a background job and
waits for it; `topology.py` runs inside a `NetworkRuntime`, which starts the
switches and the controllers and stops both; it learns that a controller is
ready from a line of its output, through `Controller`. A Go controller writes
tables over P4Runtime while the switch forwards packets, and in case 05 gets
digests, in case 13 packets back. With `--run-test`, `topology.py` starts one
receiver and one sender per host, which talk to it through ready files, manifests
and their output, and judges the switch by what the receivers captured. Nothing is
persisted: a crash ends a run.

## Modules

| Module | Models | Source |
| --- | --- | --- |
| `LearningSwitch` | case 05: pipeline, digest stream, controller | `05_l2_learning_switch/main_digest.p4`, `controller/main.go` |
| `MacLearning` | what a learning switch promises (abstract) | the same, and the README of the case |
| `LearningSwitchProofs` | theorems about `LearningSwitch` | |
| `ControllerOutput` | class `Controller`: reader thread and reads | `common/runtime.py` |
| `LineStream` | what the output promises to a driver (abstract) | |
| `ControllerOutputProofs` | theorems about `ControllerOutput` | |
| `RunLifecycle` | a run from `run.sh` to its end | `common/runtime.py`, `p4switch.py`, `run_helpers.sh` |
| `RunLifecycleProofs` | theorems about `RunLifecycle` | |
| `IntTelemetry` | case 06: three pipelines, three controllers, a packet | `06_int/main.p4`, `controller/main.go`, `topology.py`, `packets.py` |
| `IntTelemetryProofs` | theorems about `IntTelemetry`: the form of a packet | |
| `IntTelemetryPathProofs` | theorems about `IntTelemetry`: its way and its trace | |
| `ProbeDriver` | the packet tests: driver, receivers, senders, links, faults | `topology.py`, `packets.py` of the cases |
| `ProbePrograms` | the fourteen tests as sequences of the driver's steps, with their batches | the same |
| `ProbeDriverProofs` | theorems about `ProbeDriver` | |
| `TableSwitch` | a table-driven case: a controller that writes and prints packet-ins, frames that are looked up | `main.p4`, `controller/main.go` of cases 01-04, 07-11, 13, 14 |
| `CasePipelines` | parser, lookups, actions and entries of each of these cases | the same |
| `CaseFrames` | the frames of their tests, with the copies each test demands | `packets.py` of the cases |
| `TableSwitchProofs` | theorems about `TableSwitch`, for any pipelines and for those of `CasePipelines` | |
| `FlowCounter` | case 12: switch, register, the test's dumps and seeds | `12_register_flow_counter/main.p4`, `topology.py` |
| `FlowCounterProofs` | theorems about `FlowCounter` | |
| `MCLearningSwitch`, `MCRunLifecycle`, `MCIntTelemetry`, `MCProbeDriver`, `MCTableSwitch`, `MCFlowCounter` | instances for TLC | |

`LearningSwitch` is compared with `MacLearning` and `ControllerOutput` with
`LineStream` by instantiating the abstract module with a refinement mapping
(`RefinesMacLearning`, `RefinesLineStream`). `RunLifecycle` composes run.sh, the
topology program, its child processes and the signals between them;
`LearningSwitch` composes switch, stream and controller; `IntTelemetry` composes
three switches with their controllers; `ProbeDriver` composes the driver with its
probe processes, the links and the controller's life. `TableSwitch` and
`ProbeDriver` take the cases as constants: the instances fill them in from
`CasePipelines`, `CaseFrames` and `ProbePrograms`, which hold data only, and the
proofs hold for whatever else meets the assumptions. `FlowCounter` takes parser and
hash from `CasePipelines`.

Operators named "Seeded fault" in a comment are not part of a model. Each one is a
wrong version of the definition after it, kept to show that a property notices.

### `LearningSwitch`

| State | Code |
| --- | --- |
| `groups`, `broadcast`, `dmac`, `smac` | multicast groups and tables of the switch |
| `frame` | the frame between two lookups of `MyIngress` |
| `digestOn`, `unacked`, `wire` | the digest entry, samples whose list waits for an ack, lists on the stream |
| `pc`, `next`, `step`, `cur`, `late` | where `main`, `enableDigest` and `installLearned` are, and whether `learnCtx` has expired |
| `subscribed`, `pending`, `cancelled`, `learned` | `OnDigest`, the channel, the signal context, `macLearner.learned` |
| `seen` | history: which source was seen on which port |

`Arrive` is the `smac` lookup of a frame and its digest; `Pipeline` is one later
lookup (`dmac`, `broadcast`) or the frame leaving. `Boot` is one write of
`setupBroadcast`, `OnDigest` or `enableDigest`. `Deliver` is the callback and its
non-blocking send to `pending`. `Learning` is one step of the main loop: take a
list, one write of `upsertEntry` with each of its outcomes (applied and answered,
applied and unanswered, refused, ALREADY_EXISTS), the expiry of `learnCtx`, the
ack. `AckTimeout` is the switch forgetting an unacknowledged list. `Cancel`,
`Shutdown` are the signal and the way out.

### `ControllerOutput`

One action per critical section of `_condition`: `ReadOutput`, `ReadFails`,
`ReaderEnds` are the reader thread; `Begin`, `Check`, `Between` are a call of
`readline` or `wait_ready`, one turn of its loop each; `Expire` is the passing of
the deadline. `_error` is set without the lock and notifies nobody, as in the code:
the `finally` clause that follows does.

### `RunLifecycle`

`pc` names the next step of the topology program, with a step of its own wherever a
signal handler can run between two effects: between `Popen` and the assignment of its
result, between `signal.signal` and the store into `_handlers`, between `_closed =
True` and each `SIG_IGN`, and around the SIGTERM in the `stop()` of a switch that
failed to start (`StopFailedSwitch` before it, `ReapFailedSwitch` the wait after it).
`Unwind` is what the `finally` clauses on the way do to a signal's exception: `stop()`
forgets its process, `stop_process` kills it. `Catch` says which `except`, `__exit__`
or `finally` an exception raised at a step reaches. `sh` is the same for `run.sh`.
`SignalPoints` and `ShellPoints` name the steps a signal may land on. `Windows` are the
steps at which the code is not prepared for one: a process that nothing refers to yet
(`SpawnWindow`), a `stop()` that has not signalled its process and forgets it all the
same (`StopWindow`), a handler not yet in `_handlers` (`RecordWindow`), the beginning
of `close()` (`CloseWindow`).

### `IntTelemetry`

`written[s]` counts the writes controller `s` has done: the pipeline, its routes in
order, the defaults of `ipv4_lpm` and `int_table`. `pkt` is the packet, with its
INT header as numbers of their width (`Fields`), its stack of records, and `wire`,
the bytes actually there. `Ingress` is parser, checksum verification and
`MyIngress`; `Egress` is `MyEgress`, checksum computation and deparser; `Send` and
`Receive` are the hosts; `Write` a controller. Packets do not act on one another,
so one at a time is no loss; the next one starts when the last has gone, with the
tables as they are then.

### `ProbeDriver`, `ProbePrograms`

A test is a program: a sequence of steps `[op, on]` in the order the case's `main`
and `run_test` take them. `pc` is the driver's position in it, `raised` an exception
on its way out, `verdict` what `main` ends with.

| State | Code |
| --- | --- |
| `batch`, `dir` | the batch of probes in hand, its `TemporaryDirectory` |
| `rx`, `tx`, `ready` | receiver and sender of each host (`packets.py receive`, `send`), ready files |
| `sent`, `wire`, `heard` | probes sent, copies under way and captured, counted by probe and host |
| `collected` | hosts whose capture the driver has read |
| `ctrlUp` | the controller lives (case 06: all three) |
| `faults` | faults so far |
| `unseen`, `wrong`, `blind` | history for the three properties of the same concern |

Every `op` is an action of the driver with its ways to raise; `Unwind` takes an
exception past all steps but `leave` (the `with` of the directory) and `finally`
(`stop_probe` of every process) to the `except` of `run_test`. `BindSocket`,
`Announce` and `CloseWindow` are a receiver, `SendFrame` a sender, `Arrive` a link.
What the switch does to a probe is what the case expects (`Carried`: a metered burst
passes its committed part), or, with a fault, one copy more or less or at a wrong
host (`Miscarried`). Row 0 of `wire` and `heard` holds frames of earlier batches: a
batch with a marker of its own does not capture them, another one does. The
fourteen programs differ in what is checked inside the temporary directory and what
after it, in the nesting of `finally` and `with`, in senders side by side or in
turn, and in when they ask for the controller's life.

### `TableSwitch`, `CasePipelines`, `CaseFrames`

`written` counts the controller's writes, in the order of `main.go`; `ctrl` says
whether it writes, has printed its banner, was stopped or failed (`log.Fatalf`).
`handler` says whether the packet-in handler of case 13 is registered (`OnPacketIn`); it
is the controller's, not the switch's, so `Stop` ends it while the tables stay. A
frame is a stage: the table it is looked up in next, what the lookups read, the
egress port so far, the copies that leave. `Enter` is parser and the code before the
first lookup, `Step` one `table.apply()` under what is written at that moment,
`Leave` the copies reaching their receivers, kept in `seen` until the next frame: the
hosts always, the copy at the CPU port only through the handler (`Received`). Writes
fall between any two of them. Multicast groups, the clone session and a meter's
configuration are tables too, because what is not there when a frame asks for it is a
miss like any other.
An entry's rank is its prefix length or its priority.

`CasePipelines` has `Arrive..`, `Apply..` and `Writes..` for each case;
`CaseFrames` the frames of `make_probes` and `test_vectors`, by the header fields
the programs tell apart, with `to`, the copies the test demands. The labels come
from the tests and the behaviour from the programs, so that `ReadyIsPolicy`
compares two independent translations.

### `FlowCounter`

`register` is `flow_counter`; `batch`, `pc` and `before` are the test with its last
dump; `inq` and `outq` the queues before ingress and egress; `captured` what the
receivers have. Frames travel as tags `<<batch, place>>`, so that two equal frames of a
round, or of two rounds, are still two frames; `Frame` looks a tag up. The test
compares captures as multisets of bytes, which `Copies` counts. `LabelsAssumption` says
that the labels `allowed` and `counted` of the test's frames are what the parser and
the checksum make of them; TLC evaluates it for the frames of `CaseFrames`, whose labels
come from `make_probes` and not from the program. Seeding is two steps, as in the code
(a dump, then a write and a dump in one Thrift session). The second dump is taken as
soon as the receivers have the frames they wait for, so that frames to be dropped may
still be in the switch.

## What the runs check

| Run | Configuration | Distinct states | Shows |
| --- | --- | --- | --- |
| `learning_safety` | `LearningSwitch.cfg` | 2,333,375 | no silenced source without forwarding; controller and switch agree; no invented or moved binding; flooding is complete or none; implements `MacLearning` |
| `learning_live` | `LearningSwitchLive.cfg` | 48,499 | a host that keeps sending is learned |
| `controller_output` | `ControllerOutput.cfg` | 45,333 | no lost wake-up, `wait_ready` is truthful, lines in order and without gap, calls return; implements `LineStream` |
| `lifecycle` | `RunLifecycle.cfg` | 14,097 | teardown is complete, ordered and reported truthfully, for failures and up to three signals outside the four windows |
| `lifecycle_spawn` | `RunLifecycleSpawn.cfg` | violation | a signal between start and record of a process leaves it running |
| `lifecycle_stop` | `RunLifecycleStop.cfg` | violation | a signal in the `stop()` of a switch that failed to start leaves it running |
| `lifecycle_close` | `RunLifecycleClose.cfg` | violation | a second signal at the start of `close()` skips the teardown |
| `int_format` | `IntTelemetry.cfg` | 15,366 | well-formed output, right traces, nothing lost, everything leaves |
| `int_boot` | `IntTelemetryBoot.cfg` | 94,450 | no wrong delivery and no loop while tables fill up |
| `probe_driver` | `ProbeDriver.cfg` | 220,703 | in all fourteen tests SUCCESS is never false, no frame passes unseen, nothing is left behind, the test ends, and without a fault it succeeds |
| `table_switch` | `TableSwitch.cfg` | 38,280 | in twelve pipelines the complete tables do what the tests demand, before and after the controller's end, packet-ins are printed while it lives, decided frames meet the final policy at once, and careful orders of writes send nothing astray |
| `flow_counter` | `FlowCounter.cfg` | 7,091 | the dumps of case 12 differ by exactly the counted frames, under collisions, wraparound, two senders and late frames |

### Bounds, and why they are enough

- `LearningSwitch`: two host ports, because bindings and floods need a second port
  and nothing distinguishes a third; one unicast and one other address (the
  addresses meet only in a full table and in the queue, which the other address
  fills too); `TableSize = 1` makes the table full after one entry, `QueueCap = 1`
  the channel after one list, so that both limits are reached; `WireBound = 1`
  bounds the lists on the stream at once, and a list may then wait there for any
  number of other steps. The theorems hold without these bounds.
- `ControllerOutput`: a deque of two lines and five lines of output, which is twice
  its length and one more: it can fill, overflow and overflow again. `MaxLines` is
  the only bound of the module (`ReadOutput`). The theorems hold for every deque.
- `RunLifecycle`: two switches and two controllers, the least for a start that
  fails half-way and for an order of stopping; up to three signals (`MaxSignals`),
  of which two are enough for the deepest counterexample known.
- `IntTelemetry`: `MaxHeaders = 9` as in the program. Hosts send headers with 0, 1,
  7, 8 and 9 records and total lengths around 65,531, where pushing has to stop,
  and headers that each `verify` refuses. A packet with TTL 14 that loops fills an empty
  stack and goes on after that.
- `ProbeDriver`: `MaxProbes = 4` frames in a batch, which is enough for a frame that
  must arrive, one that must not, one of each of two senders, and a burst with a
  committed part; `MaxCopies = 2` tells one copy from a doubled one. `MaxFaults` is
  two, and one for cases 03, 04, 05, 06, 09 and 14, whose three or four hosts make the
  runs large. Batches are small instances of those `packets.py` makes. The safety
  theorems hold for every program of the tests' shape and without these bounds.
- `TableSwitch`: three hosts in cases 03 and 04 (`--hosts`), enough for a flood with
  two copies; all entries of the controllers; one frame in ingress at a time, which
  is no loss because no frame changes a table. The frames are the tests' kinds, with
  one or two values of each field the programs do not tell apart. `Crc16` is a fixed
  short function of the fields BMv2's CRC reads: the labels of the tests are computed
  by the same function, there and here. Case 11's sizes meet the limit from both
  sides (65,499 and 65,500 bytes).
- `FlowCounter`: four slots for 1024, so that flows share one; values modulo 8 for
  2^32, so that the seeded slot wraps; five rounds as in the test, with fewer frames.

### Fairness

- `LearningSwitch`: pipeline, stream and each part of the controller run on threads
  or processes of their own and are scheduled (weak fairness). `Arrive` and the
  answers of writes are strongly fair: `EventuallyLearned` speaks of a host that
  keeps sending, and of a switch that answers a write at last when it is tried
  again and again. Nothing is assumed about the ack itself, a skip on a full queue
  or a lost answer: these may happen each time they can, short of always.
- `ControllerOutput`: a call in progress is scheduled, and time passes. The process
  may stay silent for ever.
- `RunLifecycle`: the program and the shell are scheduled. `EndBody` is not fair: a
  CLI waits for its user. Every blocking call of the teardown has a time-out
  (`stop_process` kills after three seconds).
- `IntTelemetry`: a packet moves on. A controller has no fairness: `log.Fatalf`
  ends it at any write.
- `ProbeDriver`: the driver's thread, each host's processes and the links are
  scheduled (weak fairness); a capture window is only obliged to end after its batch
  is through. No fault is obliged to happen, and none prevented within the bound:
  each blocking call of a driver has a deadline, and passing it is a fault.
- `TableSwitch` and `FlowCounter` have no fairness and no liveness property.
  `FlowCounter` is checked for deadlock: its test never waits for a frame that does
  not come.

### Three disagreements between the code and its documentation

1. `runtime.py:182`: `close()` sets `_closed` and then ignores the signals one by
   one. A signal that lands before it is ignored raises `SystemExit` out of
   `close()` before anything is stopped; a later `close()` returns at once because
   `_closed` is set. The comment at line 183 says that a second signal must not
   interrupt the teardown. Ctrl-C makes it likely to have two signals: the terminal
   sends SIGINT to shell and program, and the EXIT trap of the shell adds SIGTERM.
2. `p4switch.py:136` (and `runtime.py:53`, `175-176`): a signal between the start
   of a process and the assignment that keeps it leaves a BMv2 or a controller,
   which lead sessions of their own, without anybody who knows it. `README.md:145`
   says that signals clean up all processes of a run.

3. `p4switch.py:157`: when a switch fails to start, `start()` calls `stop()`, whose
   `finally` clause sets `self.proc = None`. A signal that lands there before the
   process group gets its SIGTERM (at the `info()` call, or in `stop_process` before
   `runtime.py:20`) raises `SystemExit`; the clause then forgets a BMv2 that runs, and
   `net.stop()` skips it. A signal in the wait that follows does no harm:
   `stop_process` kills on its way out. The same sentences of the documentation promise
   otherwise.

Three more observations, listed under the hazards or in the modules:

- The test of case 05 never asks whether its controller lives after the banner, unlike
  the thirteen others. `SuccessIsTrue` therefore promises less of it (`Watched`).
- In case 04 a frame that misses `dmac` before its entry is written can find the
  flooding group that is written after it, and is then flooded although its
  destination is known. The order of writes is therefore not in `Careful`; neither
  are those of cases 07, 10 and 14, where a later entry restricts an earlier one.
- A fourth window, between `signal.signal` and the store into `_handlers`
  (`runtime.py:166`), leaves a handler in place; the program ends right after.

## What is proved

All theorems hold for every value of the constants that meets the named
assumptions of the modules. The assumptions say that sizes are positive, host ports are
wired and headers have their widths; those of `ProbeDriver`, `TableSwitch` and
`FlowCounter` also describe the programs and frames these modules are given, as said
below, and TLC evaluates them for the ones of the code.

- `LearningSwitchProofs`. `TypeInv` adds to `TypeOK` that the controller works on a
  list whenever it writes. `LearnInv` strengthens `ForwardBeforeSuppress`,
  `LearnedIsInstalled` and `ForwardsWhereSeen`, none of which is inductive: one has
  to know that lists in `wire`, `pending` and `cur` were seen, that a list being
  worked on is for a MAC not yet learned, and what has been written when
  `installLearned` is at its second table. `ImplementsMacLearning` and
  `LearnedPortIsFinal` follow from one case analysis over the steps, with
  `LearnInv` as context. `CallbackFirst` needs the order of the boot phases,
  `FloodIsComplete` an invariant on how far groups and entries are installed.
- `ControllerOutputProofs`. The invariant says that the queue is the tail of
  `produced` after `consumed` unless the deque overflowed, that it never exceeds
  its bound, and that a waiting call has nothing to be told. From it:
  `OutputTypeCorrect`, `WaitsOnlyForNews`, `ImplementsLineStream`. A second
  invariant, `BannerInv`, says that what was read is a prefix of what was written,
  that a search has met no banner yet, and that an end of stream is final; from it
  `NotReadyIsJustified` (`NotReadyIsTrue`) and `ReadyExactlyOnBanner`
  (`ReadyOnBanner`).
- `IntTelemetryProofs`. `EmitsWellFormed` is not inductive: between ingress and
  egress the checksum is wrong, and the stack must agree with the count in every
  state. `OnItsWay` says so. `StampKeepsForm` is the arithmetic of the pushed
  record: a header that parsed has IHL = 6 + count, so with count below nine and a
  total length of at most 65,531 no field wraps. From it: `IntTypeCorrect` and
  `NextParserAccepts`, for every trace capacity up to nine, every set of headers
  hosts send and every interleaving with the controllers.
- `IntTelemetryPathProofs`, under the same assumptions. The reason for everything is
  `RouteIsFinal`: routes are installed from the most specific one on, so the first
  route a switch has for a host is the one it keeps, and the number of hops alone says
  where on its path of `packets.py` a packet is (`Follows`), whatever has been
  written. From it `OwnersOnly` (`OnlyToOwner`) and `NoDetour` (`NoTransientLoop`).
  `Traced` adds what the header and the stack hold after so many hops, as far as there
  was room; `TakeNext` shows that the condition of `MyEgress` is the room the test
  counts with. From it `TraceIsComplete` (`TraceIsPath`) and `ReadyNetworkDelivers`
  (`NothingLostWhenReady`).
- `RunLifecycleProofs`. Under `NoSignalInWindows` (no signal lands in one of the
  four `Windows`; of three of them the runs above show that the assumption is needed),
  for every number of switches, controllers and signals:
  `LifecycleTypeCorrect`, `CleanEnd` (`NothingLeftBehind`),
  `NetworkOutlivesControllers` (`ControllersStopFirst`) and `HandlersComeBack`
  (`HandlersRestored`). The invariant `Inv` has two halves. `ProcessInv`: a running
  process is recorded or is the one the current step starts, and nothing runs
  before the handlers are in place. `SignalInv`: a signal ends the program on the
  spot only while there is nothing to stop, raises only while `close()` would
  ignore it, and raises no more during the teardown. Each half needs the other: the
  default action would leave processes behind unless it is gone before the first
  of them, and the teardown would be left half-way if a signal could still raise.
  `SuccessIsTrue` (`SuccessIsReal`) needs no such assumption: it holds with signals
  at every step.
- `ProbeDriverProofs`, for every set of tests that meets `ShapeAssumption` (processes
  are started where a `finally` stops them, receivers come before the wait and senders
  after it, a batch ends with a check, and so on: TLC checks it of the fourteen
  programs), for every number of hosts, probes, copies and faults. `TypeCorrect` needs
  to know that no cell holds more copies than the network made. `NothingIsLeft`
  (`NoProbeLeft`): `CleanInv` says that whatever runs has its `finally` ahead in its
  own batch, which an exception cannot jump over. `NothingPassesUnseen`
  (`NothingUnseen`): `OpenInv` says that a ready file comes from an open socket and
  that traffic comes behind the wait for all of them. `SuccessIsRight`
  (`SuccessIsTrue`): `CaptureInv` follows what was collected from the receivers to the
  check, `BlindInv` a controller's death to the question that meets it.
- `TableSwitchProofs`, first for every program of at most three lookups and every list
  of ranked entries. `TypeCorrect`. `GovernedFramesAreFinal` (`GovernedIsFinal`): a
  settled lookup finds the same under any later set of writes, so a governed frame
  stays on the path of the complete tables (`OnPath`). `ReadyMeetsPolicy`
  (`ReadyIsPolicy`) takes as its hypothesis `TablesMeetLabels`, that the complete
  tables meet the labels of the tests, and shows that no frame's timing changes it
  (`ReadyOnPath`): hosts receive what the labels say, whether or not the controller
  still runs, and the packet-in is printed while it does, because its handler is there
  before the banner and ends only with it (`HeardAlways`). That the twelve cases meet
  the hypothesis is what `table_switch` checks, frame by frame. `CarefulNeverElsewhere`
  (`NeverElsewhere`) rests on `CarefulOrder`: the winner of a lookup is written before
  what it outranks, and a miss opens no way the complete tables would not. Then the
  first entry that matches is the last word (`FirstMatchWins`), and the ways left to a
  frame only shrink (`NoDetour`).
- The same module, then for the programs and entries of `CasePipelines` and any frames
  (`TheCases`, which is how `MCTableSwitch` instantiates the module). `Reach` is the least
  set closed under lookups (`ReachLeast`), and the entries of each case are worked out
  once (`Entries03` to `Entries14`). `CasesNeverElsewhere` discharges `CarefulOrder` for
  cases 01 to 03, 08, 09, 11 and 13. `CasesMeetPolicy` compares the lookups with
  `Policy`, a function of the frame in which no table occurs: every frame leaves by it
  from the banner on, and before that once its own entries are in (`Governed`). Of case
  13 this is what the switch sends, to the CPU port too (`LeavesByPolicy`); what is
  received of it is a claim of its own: hosts always, the packet-in while the
  controller lives (`ReceivedByPolicy`). The theorem
  covers frames no test sends: all lengths up to 65,499 bytes in case 11, all flows of
  case 09, all header values the rules of case 10 do not look at. `NumberedFrames`, its
  only hypothesis about frames, says that lengths and hashes are numbers. That `Policy`
  agrees with the labels of the tests follows from `ReadyIsPolicy` of the run.
- `FlowCounterProofs`, for every size of the register, every range of its values and
  every list of rounds in which fewer frames are counted than a slot has values (with
  more, two equal dumps could hide a full turn). `CountsAreTracked` is the inductive
  invariant: a tag is in one place at most (`Apart`); between two rounds ingress holds
  nothing but frames it will drop, and egress nothing at all (`Quiet`), which is why the
  test may dump and seed while the switch still has frames; within a round what is past
  ingress is valid and of this round (`Underway`), and each slot has moved by the
  counted frames ingress has had, modulo its range (`Deltas`). When the receivers have as many
  frames as are allowed, these are the allowed ones (`CaptureIsAllowed`), so ingress has
  had every counted one, and the comparison succeeds: `DeltasHold` (`DeltasAreExact`).

Every safety invariant and every action property that a run checks is thereby stated by
a theorem. Only model-checked: all liveness (`EventuallyLearned`, `CallsReturn`,
`InterruptEnds`, `NothingOutlivesShell`, `PacketsLeave`, `Returns`,
`FaultFreeSucceeds`), because the prover does not reason about fairness; that the
labels of case 12's frames and of the table-driven cases' tests are what the programs
do (`LabelsAssumption`, `TablesMeetLabels`), which is a fact about the tests' data; and
the three runs that expect a violation.

## What is not modelled

- The P4Runtime SDK, BMv2, Mininet, bash: not in the repository. Modules assume of
  them what the code relies on: atomic writes, digest lists repeated after the ack
  time-out, one frame at a time per switch, a job that ignores SIGINT.
- `LearningSwitch`: a write the switch applies after its deadline *and* after a
  later write of the same entry; digest members that do not decode; a stream that
  breaks and reconnects.
- `ControllerOutput`: `send`, and the text of lines beyond "holds the banner".
- `RunLifecycle`: errors of `net.stop()` itself, the PID window of `run.sh` between
  the job's start and `TOPOLOGY_PID=$!` (the step exists, signals there are left
  out), other jobs of the shell.
- `IntTelemetry`: packets that are not IPv4 (dropped at once), queue depths, source
  MAC addresses, the bytes of a packet.
- `ProbeDriver`: the bytes of frames and the comparison of their contents (a capture is
  a number of copies; a malformed reply is a fault that makes `CheckDelivery`, or
  `ObserveCpu` for a packet-in line, raise), the clock of case 07 (a burst that took
  longer than its budget, or passed more than its time allows, is such a fault too),
  command-line arguments, the interactive CLI, signals (they are in `RunLifecycle`),
  counter and register values (in `FlowCounter`).
- `TableSwitch`: what the programs write into a frame they forward (MAC addresses, TTL
  and hop limit, recomputed checksums, the constant fields of the outer headers of
  case 11); the token bucket of case 07, which is BMv2's, so that a frame brings its
  colour; the counts of case 08, which are BMv2's too, and whose dump is one request
  with one answer on a quiet network; connection and arbitration of the controllers;
  a packet-in whose payload `decodePacketIn` refuses (the switch sends none).
- `direct_meter.p4` (07) and `main_cpu.p4` (05): examples without a controller or a
  test.
- The regression tests under `src/tests` and the CI workflow: read for what they
  promise, not modelled. Port allocation and command lines in `p4switch.py`.

## How the project was built, and what could follow

The order was: the learning switch (the one controller that reacts to its switch),
the output reader all cases depend on, the lifecycle of a run, the telemetry network,
then the packet tests, the table-driven cases and the flow counter; each first as a
module with a run, then with the theorems whose case analysis stays readable.

What remains would be worth less than what is there: the rewritten header fields
of the table-driven cases (each is one assignment, compared byte by byte by the
tests themselves), the meter's bucket and the counters (BMv2's).
