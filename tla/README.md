# Verification of the MSFC queue disc and of the programs around it

The repository holds MSFC, *Multilevel Stochastic Fairness CoDel*, a queueing
discipline written for the ns-3 simulator (release 3.28), the benchmark that
compares it with other disciplines, the thesis that defines it and the data the
benchmark produced, all inside a distribution of ns-3 with its Python tools. This
directory holds TLA+ models of MSFC, of two disciplines it is compared with, of the way
a packet takes to the wire, and of the two concurrent Python programs of the distribution (the
test runner and the visualizer); the runs of the TLC model checker on small instances;
and proofs, checked by TLAPS, that hold for every instance. Paths below are relative to
`src/ns-allinone-3.28/ns-3.28/` unless they start with `thesis/`.

## The system

| component | state | operations | hard behaviour |
|---|---|---|---|
| MSFC queue disc, `src/traffic-control/model/msfc-queue-disc.cc` | active classes, active flows per class, deficits, active flags, one CoDel child per flow | `DoEnqueue`, `DoDequeue`, `DoPeek`, `MsfcDrop`, `InitializeParams` | two nested round robins whose loops end only if deficits behave; flows emptied behind the scheduler's back; an uninitialised deficit; width of the quanta |
| `QueueDisc`, `queue-disc.cc` | counters, the requeued packet, `m_running` | `Enqueue`, `Dequeue`, `Peek`, `Run`, `Restart`, `Transmit`, `Requeue` | counters kept by trace callbacks of the children; a quota; re-entry; a packet that is neither queued nor sent |
| CoDel, `codel-queue-disc.cc` | internal queue, drop state | `DoEnqueue`, `DoDequeue`, `DoPeek` | drops while dequeuing; times modulo 2^32 |
| FqCoDel, `fq-codel-queue-disc.cc` | lists of new and old flows, status and deficit of each | the same interface | which list a flow is in is kept twice, in the list and in the status; new flows have priority |
| TBF, `tbf-queue-disc.cc` | tokens of two buckets, watchdog event, child | dequeue with peek of the child | a blocked packet must have an event to come; rounding; signed differences narrowed to 32 bits |
| SFQ, PfifoFast, Fifo | internal queues, allotments | the same interface | SFQ has the same kind of list and flag protocol |
| RED, PIE, MQ | averages, probabilities | the same interface | floating-point control laws |
| traffic-control layer, `traffic-control-layer.cc` | root queue disc of each device, queue discs to wake | `Send`, installation | queue discs installed or replaced while packets flow |
| device queue interface and point-to-point device, `src/network/utils/net-device-queue-interface.cc`, `src/point-to-point/model/point-to-point-net-device.cc` | stopped flags, transmit queue, transmitter state | `Stop`, `Wake`, `Send`, `TransmitComplete` | a wake-up lost between a stop and a requeue |
| benchmark, `scratch/msfc-benchmark/` | hosts, types, statistics | topology, assignment of applications, output | set-up code |
| test runner, `test.py` | queues of jobs between a main thread and workers, results | dispatch, run, collect, interrupt | the interrupt at any moment; a worker that dies; return codes that mean two things |
| visualizer, `src/visualizer/visualizer/core.py` | the simulation thread, a lock, the `go` event, a timer | play, pause, update, query, quit | callbacks nested in a main loop that runs while waiting for the lock; callbacks that read the simulator without it; an update that raises; lost wake-ups; a join that blocks |

A packet goes from the traffic-control layer to `QueueDisc::Enqueue` of the
root and on to `DoEnqueue` of MSFC, which hands it to the CoDel child of its
flow. After each enqueue, and whenever the device wakes its queue, `QueueDisc::Run`
asks for packets with `Dequeue` until the device queue stops. The simulator
runs one event at a time, so no two of these calls run at once; what can go
wrong are loops that do not end and states that a long sequence of calls, with
drops in the middle of them, leads to.

The test runner and the visualizer start simulations from Python and have real threads: there, any
two steps may come in either order.

What makes each component correct: MSFC must keep packets reachable, stay
within its limit, end its loops, be fair as the thesis defines it, and keep the
counters that its parent and the device act on. `QueueDisc::Run` must not leave
a packet behind with an idle device. FqCoDel must keep lists and status
together and starve nobody. TBF must send no more than its tokens allow and must not lose its
watchdog. The test runner must neither lose a job nor call a run successful that was not, and
must end. The visualizer must keep those that take its lock apart from a simulator that runs (not all that
read the simulator take it, see below), must lose no message and no go signal, and must close.

## The modules

| module | models |
|---|---|
| `Lists` | the lists all models use: elements, distinctness, rotation, sums |
| `FlowFifos` | the contract of a classful, work-conserving queue disc: one FIFO per flow, head drops allowed, `Dequeue` empty-handed only if nothing is there |
| `Msfc` | `MsfcQueueDisc` with what it uses of `QueueDisc` and of its CoDel children |
| `MsfcProperties`, `MsfcFairness` | its properties and the refinement of `FlowFifos`; two history variables that compare what two classes, or two flows, were served |
| `FqCoDel`, `FqCoDelProperties` | `FqCoDelQueueDisc`, its properties and the refinement of `FlowFifos` |
| `TxPath`, `TxPathProperties` | `TrafficControlLayer::Send`, `QueueDisc::Run` with `Restart`, `DequeuePacket`, `Requeue` and `Transmit`, the device queue and its waking, the point-to-point device; over any queue disc that keeps the contract of `FlowFifos` |
| `Tbf`, `TbfProperties` | `TbfQueueDisc` over its FIFO child, with `Run` and a clock |
| `TestRunner`, `TestRunnerProperties` | the parallel part of `test.py` |
| `Visualizer`, `VisualizerProperties` | the threads and callbacks of PyViz |
| `ListProofs`, `MsfcProofs`, `MsfcFairnessProofs`, `FqCoDelProofs`, `TxPathProofs`, `TbfProofs`, `TestRunnerProofs`, `VisualizerProofs` | lemmas on lists and sums; the theorems about each model |
| `MCMsfc`, `MCMsfcFairness`, `MCFqCoDel`, `MCTxPath`, `MCTbf` | values of the constants for TLC |

`FlowFifos` joins the queue discs and the way to the wire: `Msfc` and `FqCoDel` are shown to implement it, and `TxPath`
is built on it (`Qdisc == INSTANCE FlowFifos`), so that what `TxPath` shows holds for
either of them as the root queue disc without exploring the states of both at once. Of the two ways to stay within a limit
it has both: a packet is refused, or it is accepted and heads are dropped before `Enqueue` returns, as these two do. `TBF` is not
work-conserving and does not refine it.

### How Msfc corresponds to the code

`prioClasses` and `flows` are the lists `m_prioClasses` and `m_flows`, in order.
`classActive`, `classDeficit`, `flowActive`, `flowDeficit` are the fields of
`MsfcPrioClass` and `MsfcFlow`. `discClasses` is the list of children of the
queue disc, in the order of creation, which `MsfcDrop` scans; a class exists
once one of its flows is in it. `queue`, `bytes` and `requeued` belong to the
CoDel child of a flow; `nPackets` is the counter of MSFC itself. A packet is its
size: the flow it is in is where it is, and its order is its place.

`Enqueue` is one step up to the comparison with the limit; `MsfcDrop` and one
`DropHead` per iteration follow it. A `Dequeue` call is a sequence of steps, one
per iteration of its loops, with `pc` the place: `class` in the loop over
classes, `flow` in the loop over flows. Splitting the loops is what makes their
termination a question. `Peek` is enabled only under a parent that peeks
(`Peekable`): the root queue disc is never peeked, a child of TBF is.

What is abstracted: CoDel's control law. A CoDel child may drop its head in any
dequeue, any number of times, as long as `MinBytes` are left behind it, which
is the one condition of `OkToDrop` that does not depend on time. Every schedule
of drops that the law allows is among those. Names, logging, statistics other
than the counters, and CheckConfig are left out.

`ClassQuantum` computes the quantum as the code does, `m_quantum_multiplier / 1000`
being a division of integers and the product being narrowed to 32 bits and
read as a signed number. Beyond 64 bits, or for a build other than x86-64, the
C++ conversion is undefined; the low bits are what the common build keeps.
`GarbageDeficit` is the set of values the uninitialised deficit of a new class
may have.

### How TxPath corresponds to the code

`fifo` and `dequeuing` are the queue disc, seen through its contract; `requeued` is
`m_requeued`, `item` and `quota` are locals of `Restart` and `Run`, and `pc` is the place in
`Send`, whose `Enqueue` comes first, and in `Run`: `enqueue` while the queue disc drops what it has to,
`restart` before `DequeuePacket` has decided, `dequeue` during
`Dequeue`, `transmit` at the start of `Transmit`. `pc` in one of the last three is `m_running`. `stopped` is
`m_stoppedByDevice` of each `NetDeviceQueue`, `devQueue` the `Queue` of the device, `current`
the packet on the wire (`m_txMachineState` is `READY` while there is none), `wakeEvents`
counts the calls of the wake callback that `Wake` has scheduled.

`DevSend` is all of `PointToPointNetDevice::Send`: the header is added, the packet is
enqueued (or refused, which stops the queue), the trace of the enqueue compares the room and may
stop the queue, and an idle transmitter takes the packet out again, whose trace may wake
the queue. All of it happens within `Transmit`, with `Run` still on the stack, which is why the wake-up is
an event and not a call. `TransmitComplete` takes the next packet and lets the
dequeue trace wake the queue. A transmission takes time and a wake-up is due at once, so
`TransmitComplete` waits until `wakeEvents` is 0. Arrivals may come between any two events.

With more than one queue the device stands for the multi-queue devices of ns-3
(Wi-Fi): every queue is stopped and woken as the one of the
point-to-point device, and one transmitter serves them in any order. The
assignment of packets to queues is a constant, since it is made by the priority of a flow.

A packet may be refused by the queue disc at any time, since a child may be full when the root is not. If it
is accepted, or not, the queue disc may drop heads of any flow (`QdiscDrop`, the batch of `MsfcDrop` and
`FqCoDelDrop` seen through the contract), and `Enqueue` returns (`Enqueued`) when it is within its limit.

`Header` and `Mtu` are sizes like any other, so that the relation of a full-sized
packet to the room the queue tests for is a matter of the constants. `Quota` is at least 1: an
unsigned 0 would mean no limit.

### How FqCoDel corresponds to the code

`newFlows`, `oldFlows`, `status`, `deficit` are `m_newFlows`, `m_oldFlows`, `m_status`,
`m_deficit`; `created` is the list of children that `FqCoDelDrop` scans. `DoDequeue` is split like
the one of MSFC: `new` and `old` are its two loops, `serveNew` and `serveOld` the child's
`Dequeue` after either. `Enqueue` of a packet that no filter matches does nothing and is left out. The
branch at line 274 asks whether the list of new flows is empty, not where the flow came from; the
model follows `pc`, which is the same because the first loop leaves no new flow behind when the second
is entered, as `FqTypeOK` says.

### How Tbf corresponds to the code

`btokens`, `ptokens`, `watchdog` are `m_btokens`, `m_ptokens`, `m_id`; `since` is the time since
`m_timeCheckPoint`. A `Tick` is the resolution of the clock; it waits for an event that is due, so that
events take no time. `Earned` rounds as `round` does, `TxTime` truncates to a tick, narrows its argument modulo `Word`
(2^32 in the code) and gives `NanDelay` for 0 bytes at rate 0: the default `PeakRate` of 0 makes 0/0,
which becomes some fixed delay, and `std::max` keeps the larger one. `Run` is the loop of `QueueDisc::Run`; the device may
stop its queue with any packet and wakes it some time later. `blevel` and `plevel` are history variables: an exact
bucket, filled at every tick and forgiven half a byte (the rounding of the tokens) for each packet.

### How TestRunner corresponds to the code

`inputQ` and `outputQ` are the two `queue.Queue`s, `threadExit` is the variable that the signal handler sets,
`workerPc` and `workerJob` are the place and the local variable `job` of each worker, `mainPc` the place in `run_tests`.
`returncode` starts as 0, since `Job` sets `False` there. A process ends with any exit code, with a results file that is
whole, cut off or missing, and with output that can be decoded or not (`Ends`). A worker may die in `Popen`. The main thread
may raise when it opens a results file that is not there.

### How Visualizer corresponds to the code

`simPc` is the place in `SimulationThread.run`, `lock`, `go`, `quit`, `pauseMessages`, `targetTime` its attributes. The view thread
is a `stack` of callbacks: `update_view_timeout` runs the main loop while it waits for the lock (`pump`), which calls
further callbacks, each until it returns. A callback that acquires the lock without a main loop blocks the
thread (`acquire`). A callback that reads the simulator without the lock (`peek`) is `autoscale_view`, which a timer calls once, the menu of a node, and `set_show_transmissions_mode`,
which counts the nodes and then takes the lock; the model lets them come at any time. `UpdateRaises` is an exception in `update_view`: the lock is released, the messages taken are gone, and GLib drops the
timer of a callback that returns nothing, while `_update_timeout_id` and the play button stay as they were. `timers` are the sources GLib has, and `timerId` is the one the program remembers in `_update_timeout_id`. `made`, `shown` and `lost` are history variables of pause messages, `failed` of the timers whose update raised.
A run of the simulator may make several pauses. A pause requested while it does not run is cleared when the next run starts (`pyviz.cc:288`) and is not modelled.
Frames, messages and timers are told apart by number; what is drawn is left out.

## The runs

| run | module, cfg | shows |
|---|---|---|
| `core` | `MCMsfc`, `MsfcCore.cfg` | two flows beside one, garbage deficits of -5, 0 and 9: lists agree with flags, no packet is stranded, credits and debts are bounded, no flow starves, `FlowFifos` is refined |
| `overlimit` | `MCMsfc`, `MsfcOverlimit.cfg` | counters match queues in the middle of a batch too, one batch restores the limit, no null packet; all this, and the end of `DoDequeue`, also while children hold peeked packets; one class, two flows, three hashes |
| `fair_shares` | `MCMsfcFairness`, `FairShares.cfg` | a class of two flows and a class of one share in the ratio of their quanta, and the two flows share equally |
| `tx_multi` | `MCTxPath`, `TxMulti.cfg` | two queues limited in bytes, two flows, a queue disc that overflows, packets the device discards: requeued packets keep their place, none is lost uncounted or doubled, none waits without a reason, all leave |
| `fq_codel` | `MCFqCoDel`, `FqCoDel.cfg` | three flows and four hashes: status agrees with lists, nothing stranded, deficits bounded, limit kept, no flow starves, `FlowFifos` is refined |
| `tbf` | `MCTbf`, `Tbf.cfg` | one bucket and two, rates that divide evenly and that do not: no interval exceeds the rate, a waiting packet has an event to come, all packets pass |
| `test_runner` | `TestRunnerProperties`, `TestRunner.cfg` | two workers; a suite, a skipped suite and an example: no job lost or handed back twice, no worker leaves early, exit code 0 is true, nothing runs that waited when the interrupt came, everything ends |
| `visualizer` | `VisualizerProperties`, `Visualizer.cfg` | two units of time, three timers, two pauses, callbacks with and without the lock, updates that raise: a callback with the lock never reads a running simulator, no message is lost, a timer while playing, playing goes on, closing ends both threads |

Runs that must find a violation, each of a statement of the documentation:

| run | the code | the documentation |
|---|---|---|
| `expedited` | the quantum of DSCP 46 is 0, `DoDequeue` never returns | DSCP is the priority, `thesis/chap02.tex:98`; `DoDequeue` extracts a packet |
| `fair_garbage` | a new class may start with any debt | bandwidth in the ratio of the quanta, `thesis/chap02.tex:26` |
| `tbf_watchdog` | when one bucket has tokens and the other has not, the surplus, negated and narrowed to 32 bits, counts as a need: the watchdog is due when 4 GB would have been sent | `tbf-queue-disc.cc:276`: "schedule the waking of queue when enough tokens are available" |
| `tx_discard` | `PacketEnqueued` (`net-device-queue-interface.h:376`) stops a queue that has no room for one MTU, but a packet enters the queue with a PPP header of 2 bytes on top: a queue that is not stopped discards a full-size packet | `net-device-queue-interface.h:423`: "This should not happen if the device correctly stops the queue"; `queue-discs.rst:300-302`: devices stop a queue so as to avoid it |

### Divergences that need no run

Most are a line or two, read off the code while it was modelled; the models have them as they are.

* `m_quantum_multiplier / 1000` (`msfc-queue-disc.cc:273`) divides integers: a multiplier of 1500 gives all
  classes the same quantum, while `thesis/chap02.tex:20` lets quanta rise by the ratio.
* `InitializeParams` (line 469) overwrites `Backlog`, "the maximum number of bytes in a single
  CoDel flow" (line 171), whenever `Quantum` was not set. `MaxSize` is 0 packets by default.
* `DoPeek` of MSFC (line 429) makes the child dequeue a packet that `DoDequeue` never asks for again: it is neither the copy of the next
  packet that `queue-disc.h:382` promises nor the next one. `overlimit` runs with peeked packets.
* `PacketDequeued` (`net-device-queue-interface.h:406`) never wakes a queue limited to fewer bytes than the MTU, which
  its first packet stopped; the benchmark sizes its device queues as 1.25 ms of the rate
  (`msfc-benchmark.cc:261`), which is less than 1500 bytes below 9.6 Mb/s.
* `Run` that used up its quota schedules nothing (`queue-disc.cc:923` has a todo). Over a device with several queues a wake-up may find room for more packets than the quota, and what is
  left waits for the next arrival. `NothingWaitsForNothing` shows that over one queue limited in packets it cannot happen, `QuotaLeavesNothing` that over several it
  cannot if the quota covers their places. With the defaults (a quota of 64, queues of 100 packets) and several queues it is not covered.
* `TbfQueueDisc` never sends a packet larger than the burst, nor, with a peak rate, one larger than the MTU, and blocks everything
  behind it; beyond 8 Gbit/s a missing byte takes less than the nanosecond the clock resolves, so that the watchdog fires again and again at one time. `Tbf.cfg` has neither.
* `run_job_synchronously` (`test.py:771`) turns any exit code into 1 if the output cannot be decoded, that of a crash too, and the cut-off results file is merged into the report, which lines 1728-1730 mean to avoid. The
  overall verdict stays right (`SuccessIsReal`).
* `update_view_timeout` (`core.py:1394`) stops its own timer when paused and forgets the id it remembers: if it was called by an older timer, nested in another update, the
  newer one goes on while paused, and updates a view of a simulation that does not move. `PlayHasTimer` shows that the opposite, playing without a timer, cannot happen.
* An exception in `update_view` (`core.py:1379`) is such an opposite after all: the pause messages that were taken are lost, and the play button stays pressed without a timer until the user
  changes the speed or presses it twice. The properties name this as their only exception.
* `core.py:1430` says that ns-3 "is not thread safe, so it could cause serious problems", and callbacks take the lock for that reason. Some do not:
  `autoscale_view`, started by a timer 200 ms after the start (line 1484), reads node list and mobility models through `_update_node_positions` (line 1175), while `update_view` calls it with the lock;
  `set_show_transmissions_mode` (line 753) reads the number of nodes before `set_nodes_of_interest` takes it; `olsr.py:118` reads the node list when the menu of a node opens (line 1576), and `show_last_packets.py:113` when its window does. These run
  from the main loop, or nested in the one of `update_view_timeout`, while the simulation thread may be inside `SimulatorRunUntil`. What they read is then a data race; no property here promises otherwise.
* `_monkey_patch_ipython` would make the commands of the interactive shell take the lock, but `start` calls it only if the name `__IPYTHON__` exists at that moment (lines 1487-1492), which it normally does not: the shell is
  another reader without the lock.

### Bounds, and why they are enough

`Msfc` and `FqCoDel`: `MaxSize` is the only bound the state space needs: it is the limit in packets the
code itself enforces, and every deficit stays within a quantum and a packet, which TLC finds by itself. Two or three
packets of two sizes from 1 to 3 with quanta of 1, 2 and 4 give every relation that the code
distinguishes: a packet smaller than, equal to and larger than a quantum, a
deficit of exactly 0, a class that needs several rounds for one packet, a batch
that ends by count and one that ends by bytes. Two classes are needed for the
outer round robin and two flows for the inner one; `core` and `fair_shares` have both at once. `FqCoDel` has three flows, so that a new flow, an
old one and one that is moved can differ. Packets of a flow that differ only in identity
are not told apart: FIFO order is a matter of places. In `expedited` the
constants are those of the program, except that the width is 30 bits and not 32,
since TLC computes with 32-bit integers; 1500 * 2^46 is 0 modulo either.

`TxPath` is bounded by `MaxPackets`, the number of packets that arrive; TLC does not check for
deadlock there, as the system stops when all have left. In `tx_multi` five packets of 1 and 3 bytes with a header of 1, a queue disc of
one packet, and two device queues of 5 bytes with an MTU of 3, which does not count the header, as in the code. Within these the queue disc overflows, packets of both sizes fit or do not, the device
stops and wakes its queues several times, it discards a packet of 3 bytes that a queue not stopped has no room for, and a requeued packet waits behind a stopped queue while the
other drains. The quota of 4 covers what one wake-up finds, so that the room and not the quota ends `Run`; that of the code, 64 packets, mostly does, and where it does not packets are left waiting (see above). A byte
limit below the MTU, with which the code deadlocks, is excluded too. That `DequeuePacket` finds the only queue of a device stopped needs one queue and happens in `tx_discard`, which has four packets and otherwise the same constants.

`Tbf`: a second has two ticks and a byte takes one or two, so that rounding to a byte and truncation to a tick both happen; packets of 1 and 2 bytes
against bursts of 2 and 3 need up to two seconds of tokens. `Horizon` stops the age of the checkpoint at 8 ticks, when every bucket
of these sizes is full. `Word` is 8 for 2^32: larger than every true need of the instance, so that only a wrapped surplus reaches it. `MaxSize` is below the quota of `Run`, which therefore plays no part.

`TestRunner`: two workers and three jobs make one job of each kind, a worker that is idle while the other runs, and an interrupt before, between
and after; the program stops, so deadlock is not checked. `Visualizer`: three timers are needed for a timer replaced within the callback of another; `MaxTime`, `MaxTimers` and `MaxPauses`
count things that a user or a simulation may do any number of times, and the program stops when the window is closed.

### Fairness

In `TxPath`, `FairSpec` assumes that a call goes on and that every scheduled event
happens (`RunStep`, `WakeUp`, `TransmitComplete`): the simulator runs its queue of events to the end. Nothing
is assumed of arrivals. In `Msfc`, `FairSpec` assumes weak fairness of the steps of a running call: the thread that
runs it goes on. `ServingSpec` (also in `FqCoDel`) adds strong fairness of `Dequeue`: the device
asks for another packet again and again. The device does so after each transmission as
long as packets are left, and enqueues, however many, come in between and do not
prevent it; as an enqueue that overflows the queue disc disables `Dequeue` until
its drops are done, weak fairness would not say this. Nothing is assumed of
`Enqueue` or `Peek`.

In `Tbf`, time goes on only towards a watchdog that is set (`watchdog # NoEvent /\ Tick`), the device wakes a queue it
stopped, and due events happen; they are strong since arrivals in between disable them for a moment, and only finitely many
packets arrive at one time. That nothing else lets time pass is the point: a lost watchdog must show.

In `TestRunner` the operating system runs every thread that can go on, and a process ends some day. In `Visualizer` both threads run. `SimAcquire` is strong: the lock of Python is
not fair by itself, but the view thread sleeps in its main loop with the lock free. `NoMoreEvents` and `TimerFires` are strong: a burst
of events ends, and GLib dispatches a timer that is due although other callbacks come in between. Nothing is assumed of the user.

## The proofs

Each theorem holds for all values of the constants that satisfy the named assumptions of its module.

`ListProofs` has what the others rest on. A principle that takes an operator as its parameter (induction over numbers or sequences) cannot be cited
here, but one over *sets* can: a set of numbers that holds 0 and the successor of each of its members holds all of them. `SetInduction` and `IntervalInduction` say so, and applied to the
set of indexes where a claim is true they give what `Sum` computes when a sequence grows, loses its head or has an element replaced. On these facts rest the counters, the limits in bytes and the batches of drops below.

`MsfcProofs` (`ConstantsAssumption`; that the quanta are integers, whatever the width `Word`, is the lemma `QuantaTypes`):

* `TypeCorrect`: `TypeOK` says more than types: a call that
  is in the loop over flows has a class at the head of the list, and a call that
  peeks has a flow there. It is inductive as it stands.
* `ListsAlwaysMatchFlags`, `NothingStranded`: the two invariants need each other
  (`ListInv`): that an enqueue may rely on the flag of a class needs the list to
  agree with the flag, and that `ClassEmpty` may remove a class needs that no
  active flow is left in it, which is the agreement of flows and flags. The
  lemmas on sequences in `ListProofs`
  say what appending, popping and rotating do to the elements and to their
  distinctness; `NextListInv` has one step per action.
* `DeficitsStayBounded`: credits are bounded by a quantum since a quantum is
  only granted at a deficit of at most 0 and since activation clamps; a flow's
  debt is smaller than a packet since only a flow with credit is served.
* `ClassDebtStaysBounded` assumes that no class quantum is negative, which the narrowing to 32 bits does not guarantee: with one, debts do add up.
* `LimitIsKept`: in the middle of a call there is at most one packet too many (`LimitInv`), and a batch takes at least one.
* `CountersAlwaysMatch`: `CounterInv` adds that every flow with packets has its child in the list and that no child is in it twice, or the sum over the children would miss packets or count them twice.
* `DropNeverCrashes`: what was dropped and what is left add up to at least twice the threshold of the batch (`DropInv`), so that the fat flow
  is never empty before the batch ends; over the limit some flow has packets, hence the fattest one has.
* `KeepsTheContract`: every step of `Msfc` is a step of `FlowFifos` or a stutter (`Fifos!SafeSpec`, its safety part); it uses `NothingStranded`, since
  `NoClass` returns nothing only because a packet in the queue disc would be in an active class.

`MsfcFairnessProofs` (also `LargestPacketAssumption`: the size of a packet is limited): `FlowsAlwaysShareEqually`, `ClassesAlwaysShareByQuantum`. The difference of what two members of a round robin were served
is not inductive. The invariants (`FlowShareInv`, `ClassShareInv`) bound the *lead* of one, what it was served more plus the credit it has more: serving leaves a lead as it
is, a grant raises it by a quantum. The bound depends on which of the two is met first in the list, and each rotation moves the lead by a round and exchanges the two cases. For classes both are weighted by
the quantum of the other, and `SaneClasses` excludes what the code does not: quanta that overflow into a negative number, and garbage that is a
debt of a packet or more. Run `fair_garbage` shows that without it the statement is false.

`FqCoDelProofs` (`FqCoDelAssumption`) has the same arguments for FqCoDel: `FqTypeCorrect`, `StatusAlwaysMatches`, `FqNeverStrands` (from `FqListInv`), `FqDeficitsStayBounded`,
`FqKeepsTheContract`, and `FqLimitIsKept` with the counting of `DropNeverCrashes` (`FqDropInv`).

`TxPathProofs` (`TxConstantsAssumption`):

* `TxTypeCorrect`: inductive as it stands.
* `NeverRequeuesOverOneQueue`: what `queue-discs.rst:309` says of devices with one
  queue. No run repeats it, as it needs a device with one queue. Its strengthening `SingleInv` adds that no queue is stopped between `DequeuePacket` and `Transmit`, the
  two places that look at the flag.
* `StopsExactlyWhenFull` and, from it, `DeviceTakesEveryPacket`: a packet is handed over only to a queue that is not stopped, which then has room for it. For queues limited in
  packets this needs nothing more; for a limit in bytes, that the MTU counts the header and that an empty queue has room (`MtuCountsHeader`). The first is
  what the code forgets: for the default MTU of 1500 and a header of 2 bytes the hypothesis is false, and `tx_discard` shows the discard. The default limit is in packets. That flags and room agree is proved only, no run repeats it.
* `NothingWaitsForNothing`, for one queue limited in packets and any quota: whenever a packet waits in an idle queue disc the device queue is at most one
  short of full (`WaitInv`), because a wake-up only comes when one place became free, and `Run` fills that place first. Hence even a quota of 1 leaves nothing behind.
* `QuotaLeavesNothing`, for any number of queues limited in packets, if the quota is at least the number of places of the device: a `Run` that finds packets waiting finds the device
  transmitting, so that each packet takes a place, and the places left never exceed the quota left (`QuotaInv`). When the quota is used up, every queue is full and stopped. 
* `FlowsStayInOrder` and `NoPacketVanishes`, for any number of queues and either limit, are one induction (`WayInv`). Every step moves a packet within `Way(f)`, takes one out or puts one at the end; what this
  does to the packets of one flow among those of others is stated once for sequences (`TakeOut`, `AppendBehind`, `HeadBefore`). It needs `PlacesInv`: a queue holds only its own packets, an idle transmitter
  has none behind it, and `Dequeue` is never called while a requeued packet waits, which would let a later one overtake it.

`TbfProofs` (`TbfAssumption`): `TbfTypeCorrect`; `NeverExceedsTheRate`, from the invariant that the exact bucket is full or holds at least `btokens` and what was earned, unrounded, since the checkpoint
(`BLevel`, `PLevel`): the half byte it is forgiven for a packet makes up for the rounding when that packet passes; `WatchdogIsSet`, by the case that ends each `Run`.

`TestRunnerProofs` (`TestRunnerAssumption`): `RunnerTypeCorrect`; `WorkersLeaveLast`, with the break jobs behind all others in the queue (`BreaksLast`); `NoJobIsLost`, with the places of a job stated by membership and distinctness (`Places`) instead of counts; `SuccessIsAlwaysReal`, by counting: the jobs reported as passed or skipped are distinct (`Truthful` and `Tally`), so that as many of them as there are jobs means all jobs; `InterruptStopsWork`, in two parts: no process has ended for a job that waits (`Fresh`), and after
the interrupt a job that no worker runs stays so (`Idle`), whoever takes it from the queue.

`VisualizerProofs` (`VisualizerAssumption`): all four theorems from `Flags`, the values of the Boolean variables, and `ViewInv`: only the last callback is not in its main loop (`StackOK`), the lock belongs to who is between acquire and release (`LockOwner`), and the remembered timer
exists while the button is pressed, or its update raised (`TimerKnown`). `LockedReadsNeverShared` speaks of callbacks that take the lock, beside any number of others that do not.

The type invariants other than `TypeOK` of `Msfc` are proved and not repeated in a run.

Every invariant and action property that a run checks is proved, under the hypotheses named above. Only model-checked is what is out of the prover's reach, liveness under fairness and `ENABLED`: `DequeueReturns`, `NoFlowStarves`, `FqNoFlowStarves`, `EveryPacketLeaves`, `EveryPacketPasses`, `EveryThreadEnds`,
`PlayingAdvances`, `QuitEnds`, and the liveness part of the two refinements, `RefinesFlowFifos` and `FqRefinesFlowFifos`, whose safety part is `KeepsTheContract` and `FqKeepsTheContract`. Of what the theorems have
hypotheses for, TLC checks an instance within them (`fair_shares`); `tx_discard` is one outside of those of `DeviceTakesEveryPacket`. `WaitingHasReason` is proved for queues limited in packets and checked in `tx_multi` for queues limited in bytes, where a wake-up may find room for several small packets.

## Not modelled

* SFQ, PfifoFast and Fifo: upstream disciplines that MSFC is compared with. The first has a simpler form of the list protocol of MSFC and FqCoDel, the others pass packets to internal queues in order.
* CoDel's control law. It computes with times modulo 2^32 and fixed-point square roots, so a small instance would not be this law; both parents are checked and proved with the decision to drop left open, hence for every law.
* RED, PIE and MQ: floating-point control laws, and the benchmark does not compare MSFC with them.
* Of the path to the wire: the queue limits (BQL, null by default), `Send` without a queue disc, reception, the link state, error models, and the installation of queue discs.
* Of TBF: its own `DoPeek`, children other than the FIFO it creates, attributes set while it runs.
* Of the test runner: which suites and examples are run (discovery, options, conditions), and the format of the reports.
* Of the visualizer: drawing, layout, the windows of the plugins, pauses requested outside a run, and the interactive shell.
* The benchmark: topology and the assignment of applications are set up once before the simulation starts.
* Bake (`../bake`), which resolves the dependencies of modules and then runs one build command after the other, is an unmodified tool of the distribution with no state shared with the simulator. The rest of ns-3, netanim and pybindgen are unmodified upstream code; the Python bindings (`src/*/bindings/`) are generated tables of declarations without behaviour. The thesis and the results are text and data.
