# micro-ROS-demos: verification project

TLA+ models of the programs of this repository, TLC configurations that check
them on small instances, and proofs, checked by TLAPS, of what holds for every
instance.  Everything is modelled from the C sources; line numbers are in
`PROJECT.json` under `map`.

## The system

The repository holds some thirty small micro-ROS clients written against the
`rclc` library, and one larger system, `rclc/ping_pong_sel4`, which brings a
client and its agent together on seL4.

| part | state | operations | interacts with |
|---|---|---|---|
| SPSC ring (`util/spsc_queue.h`) | two shared indices, two private copies of both, blocks | `spsc_init`, `spsc_new_block`, `spsc_push`, `spsc_empty`, `spsc_front_block`, `spsc_pop` | two protection domains, by shared memory and without locks |
| ping_pong domain, PP (`ping_pong_component.c`) | ring pointers, publishers, subscribers, executor | `notified` (ready, pingpong), `transport_init`, transport write and read, `send_impl` | VMM by two rings and two notification channels; the micro-ROS client library |
| virtual machine monitor, VMM (`vmm/src/vmm.c`) | ring pointers, `ready_signal_sent`, virtIO queues | `init`, `notified`, `fault` with `ready_signal_handler` and `process_tx_pending` | PP; the Linux guest by faults and virtIO |
| readiness probe (`is_port_open.c`, `S60microros_agent`) | none | polls for the agent's UDP port, then writes to a page VMM traps | the agent, VMM |
| packets (`util/networking.h`) | none | build and take apart Ethernet, IP and UDP headers | PP |
| stubs (`stubs/*.c`) | a clock counter, a heap break, a thread-local block | `clock_gettime`, `_sbrk`, `__emutls_get_address` | the C library under PP |
| Fibonacci action server and client | goals, cancellation flags, one worker thread for each goal | goal, cancel, feedback, result | each other through the agent |
| ping_pong demo | sequence number, device id, pong count | timer, ping and pong callbacks | any number of copies of itself |
| multithread publisher and subscriber | exit flag, publishers, threads, what is on `main`'s stack | create, spin, publish, join, destroy | three publisher threads and `main` |
| parameter server | two parameters, the publish flag, the period of the timer | change callback, timer | parameter clients, through `rclc_parameter` |
| graph visualizer | the guard condition, lists of topics, services and nodes | wait, query, print | nodes that come and go |
| agent ping | connection state | ping until answered, set up, ping from a timer | an agent that stops and starts |
| custom UDP transport | a socket | open, close, write, read | the client library, which makes a session |
| life cycle of a demo (25 programs: int32, string, timer, fragmented and complex messages, static types, services, discovery, graph counts, epoch, and the `main` of the ones above) | node, publishers, subscriptions, timers, executor, buffers | create, add, spin, finalise | the client library, which calls back |

### What is hard, and where

* **Interleavings.**  The ring is lock-free; PP initialises rings that VMM has
  initialised already and may be using; the guest, VMM and PP run in any order.
* **Ordering.**  Notifications are one bit for each channel and coalesce; the
  pingpong channel may be notified before the ready channel.
* **Waiting.**  `spsc_new_block`, `spsc_front_block` and the transport's read
  wait without a bound, the last one in spite of its timeout parameter.
* **Failure.**  virtIO may drop a packet, library calls may fail (`RCCHECK`
  ends PP), the guest may be stopped.  The demos fail in three ways (return, stop for
  ever, go on), and one that goes on uses what was never made.
* **Shutdown.**  `main` of the multithread demo takes down publishers that threads
  publish on, and its `RCCHECK`s may leave it in the middle of that.
* **Stale answers.**  The graph may change between two queries of one picture; an
  agent may stop and start again between two pings.
* **Boundaries.**  Indices wrap at 2^64, and the capacity is computed from the
  size of the region.

`PROJECT.json` lists each of these under `hazards` with its line and the
properties that cover it.

## Modules

```
Bits <-- Arithmetic (lemmas of the proofs: remainders, induction, recursion, bits)
  ^          ^
  |          +------- SpscQueueProof, SpscInitProof, FibonacciProof, DemosProof
  +-- SpscInit (feeds Capacity and WordSize), ParameterServer

BoundedFifo <-- SpscQueue <-- SpscQueueProof        SpscInit <-- SpscInitProof
                    ^
                    | two instances
               PingPongSel4 <-- PingPongSel4Proof <-- PingPongTokenProof

ActionGoals <-- FibonacciAction <-- FibonacciProof

AppLifecycle <-- DemoPrograms (scripts)
        ^            ^
        +---- Demos -+--> Multithread, ParameterServer, GraphVisualizer,
                ^         PingAgent, CustomTransport, PingPongDemo
                |                                        ^
            DemosProof ----------> PingPongDemoProof ----+
```

The two domains' proofs use `SpscQueueProof` through an instance for each ring, as
`PingPongSel4` uses `SpscQueue`.

**`BoundedFifo`** is what a ring promises: a first-in first-out channel of
bounded length, with `Put` and `Get`.

**`SpscQueue`** is the ring at the granularity of single memory accesses.  `q`
holds the six indices of `spsc_queue_t`, `block` the blocks, `prod` and `cons`
where each side is in its turn and what it holds in registers.
`spsc_new_block` is `NewBlock` (the first test) and `ReloadFront` (a round of the
spin loop); the caller's copy is `FillBlock`; `spsc_push` is `Push` and
`PublishBack`, because the increment and the release store are two accesses.
`spsc_empty` is `Empty`, `spsc_front_block` is `FrontBlock` and `ReloadBack`, the
caller's copy `ReadBlock`, `spsc_pop` is `Pop`: its increment is of a field that
no other thread reads, so it is one step.  Memory is sequentially consistent,
which the acquire and release annotations of the source justify for this ring:
every index that one side reads from the other is stored with release and
followed by an acquire load or fence before any block is touched.

**`SpscInit`** computes blocks and capacity from the size of a region, as
`spsc_init` does, over bytes.  It justifies what `SpscQueue` takes for granted: the
blocks lie inside the region, the capacity divides the word and is less than it, and
masking an index is the remainder by the capacity.  It also shows that the capacity in
the built system is **1**.

**`Bits`** has what the programs do with the bits of a number: a shift, the builtin that
counts trailing zeros, a mask, each a recursive function on the naturals.

**`PingPongSel4`** composes PP, VMM and the guest over two instances of
`SpscQueue`.  A domain that is inside a ring operation takes the ring's own
steps, so every interleaving of memory accesses remains.  `pp.pc` follows the
code: `wait`/`dispatch` is Microkit's event loop, `check` the CHAN_PINGPONG
case, `initTx`/`initRx`/`transport`/`setup` are `transport_init`, `publish` is
`send_impl`, `write`/`notify` and `read` the custom transport.  `vmm.pc` is
`drain`/`send` in `notified` and `tx`/`notify` in `process_tx_pending`.

Three parts are external and modelled from how the code uses them:

* *Microkit*: a notification to a waiting domain is delivered at once; otherwise
  it sets a bit, and the domain serves all bits it finds, lowest channel first.
* *the client library*: each set-up call sends one request and reads until its
  answer comes; a spin reads one packet and may call one callback.  An answer that is
  late or comes twice counts as that of the call that reads it.
* *the guest*: it may transmit packets of its own (`foreign`: not addressed to
  PP; `oversize`: longer than the buffer PP reads into), and its agent answers
  requests and hands what is published back to the subscriber.  It hands
  packets to VMM in kicks of up to `KickBurst`.

The transport's write returns early for more than 1500 bytes; no message here is that
long, and the branch is left out.  `init` of VMM is modelled as having succeeded: after
each of its failures no guest runs.

**`ActionGoals`** is what an action server promises of each goal: it is rejected
or executed, ends at most once, and is canceled only after a cancel request.

**`FibonacciAction`** composes the action server with clients that have one goal
each.  The executor thread (`HandleGoal`, `HandleCancel`, `TakeResultRequest`) and
one worker thread for each accepted goal share a goal handle; `worker.pc` follows
`fibonacci_worker`: `start` is the test of the order, `loop` the condition with the
first read of `goal_cancelled`, `body` one number, `decide` the second read, `send`
the retry loop around `rclc_action_send_result`, `free` the release of the
feedback.  Sending the result gives the handle back to the pool, from which the
executor may take it for another goal.  A client is `init`, `send`, `loop`
(while `goal_completed` is false) and `exited`.  External are the pool of handles
and the messages of an action: the result of an accepted goal is asked for by
the client library, and a result can be sent only after that.  The pointer that
the worker of an order below 2 frees was never set: it is any member of `Garbage`,
and freeing a wild one ends the process.  `handle_goal` looks neither at its `malloc`,
whose failure ends the process, as that of a worker's does, nor at `pthread_create`: a
goal whose thread was not created is accepted, is `lost`, and keeps its handle for ever.
A client does not look at `rclc_executor_init` and goes on without an executor, hearing
nothing.  Feedback, which clients print, and `cancel_request_callback`, which nothing
calls, are left out; so are failures of the two `malloc`s in the client's `main`.

**`PingPongDemo`** is any number of copies of `rclc/ping_pong`.  `seqNo` and
`pongCount` are the variables of the program (the sequence number stands for
which ping it was; the numbers are random), `pings` and `pongs` the copies of
messages on their way, one for each subscriber.  They arrive in any order, and
one that never arrives is a lost one.  `FrameId` is what the program compares: two
numbers drawn by `rand()`, which nobody seeds, so that all boards with the same C
library draw the same ones.  `board` says which devices are of one kind; every
assignment of `Boards` to `Devices` is an initial state.  The module is checked on its
own for the two findings, and inside `Demos` for what holds.

**`AppLifecycle`** is what `main` of a demo does: a sequence of steps that make,
use, add to an executor, spin or finalise.  It says what each kind of step does when it
succeeds and when it fails, and what a use of something that does not exist leads
to: anything (`Crash`).  `missed` are the failures nobody looked at, `misused` what
was used without existing.  A callback runs in any round of an executor that holds
its handle (`Serve`).

**`DemoPrograms`** has the script of each of 25 programs, the calls of its `main` in
their order with what each one needs, how its failure is met, the room of the
executor, and what the callbacks use.  The programs that go on after a failed call
are in `CarelessPrograms`.

A script is *well made* (`WellMade`, in `AppLifecycle`) when, read as a text, each
step needs only what an earlier step has made and none since finalised, the executors have
room for what is added to them, whatever has a callback is added before the
executor spins, and the end leaves no more than `LeftToExit`.  `TypeOK` of `Demos` has
TLC check it of every script; the proofs say what follows of runs, in which calls fail.

**`Multithread`** has `main` of the multithread demo as a program counter (`main`, with
`index` for its loops) beside the threads (`thread[i]`): `test` is `while (!exit_flag)`,
`publish` and `sleep` the body.  `support` is on `main`'s stack and goes when `main`
returns, while the threads run on to the end of the process (`ProcessExit`).  A
`pthread_create` that fails is not noticed, and the join of such a thread may do
anything.  `early` records that `main` has returned out of an `RCCHECK` while threads ran.

**`ParameterServer`** is `on_parameter_changed`, the four unchecked calls of `main`
and the timer.  External: `rclc_parameter`, which calls back for a local set as for a
remote one, refuses what is unknown or of another type by itself, and asks about a
deletion with no new parameter.  That `rcl_timer_exchange_period` refuses a negative
period (`Exchange`) is external too.  `MsToNs` multiplies in the width of an int64.
`stored` are the parameters that were given a value: each of the four calls may fail
unnoticed, and until a parameter has been set what a node reads is its default.

**`GraphVisualizer`** asks for topics, services, nodes and the publishers of each
node one after the other; the graph may change before each.  External is the guard
condition: every change triggers it, the nodes that are there at the start are a change
as well, and a wait hands the trigger over.  The result of `rcl_wait` is ignored; when it
fails it leaves the guard condition in the wait set, and the program draws (`WaitFails`).
A topic and a service stand for each node.

**`PingAgent`** has the basic and the interactive program.  The agent is a number,
which start of it is running (0 for none), so that a session can be compared with the
agent that answers.

**`CustomTransport`** has open, write, read and close, and the library around them as
far as the creation of the session: it writes a request, reads, tries again, closes.
Open reports success whatever happened, as the code's `return` of a function's
address does.

**`Demos`** starts one executable, named by `program`, and runs the instance
that models it: its states are the sum of the modules', not their product.
`parameter_server`, `ping_pong` and others of which more is modelled than their script
have a second name (`on_parameter_changed`, `ping_timer_callback`) for the rest.

Definitions named `Bug...` are no part of a specification.  Each is the
definition after it with a plausible mistake; `PROJECT.json` pairs it with
the property that notices.

## Runs

| run | checks | shows |
|---|---|---|
| `SpscQueue.cfg` | `TypeOK`, `NoOverrun`, `BlockExclusion`, `ReadsOldest`, `ImplementsFifo`, `FullProducerProceeds` | the ring is a FIFO, its sides never share a block, a producer on a full ring proceeds |
| `SpscInit.cfg` | `BlocksInRegion`, `IndicesGoRound` | the assumptions of `SpscQueue` about regions and masks |
| `SpscInitRegion.cfg` | `CapacityUsesRegion` **violated** | 511 blocks give a ring of 1 |
| `PingPongRally.cfg` | `NeverStuckTogether`, `RingsFollowProtocol`, `PingsKeepComing` | the exchange goes on for ever if nothing fails and the guest is quiet until PP has its rings |
| `PingPongBoot.cfg` | `TypeOK`, `NoLostWakeup`, `AgentListens`, `OneMessageInFlight` | safety when the guest transmits from its boot and calls fail |
| | `NullRingOnlyByNoise`, `PublishersBeforePings` | a null ring is followed only after an early packet of the guest; no ping without publishers, even when `transport_init` has given up |
| `PingPongEarlyNoise.cfg` | `FirstPingSent` **violated** | a packet before readiness makes PP follow a null pointer |
| `PingPongBursts.cfg` | `FirstPingSent` **violated** | PP and VMM wait for each other |
| `FibonacciAction.cfg` | `TypeOK`, `WorkersOwnHandle`, `SuccessIsComplete`, `SuccessIsFibonacci`, `CompletedMeansEnded`, `ImplementsActionGoals`, `ClientsEnd` | goals end as an action's do, whatever the order of workers, cancel requests and responses, and clients get to their end unless the server is gone or goals without a worker are in the way |
| `FibonacciOverflow.cfg` | `SuccessIsFibonacci` **violated** | an order of 48 is accepted and its last number overflows |
| `PingPongDemoOwn.cfg` | `NeverPongsOwn` **violated** | a late ping is answered by its own sender |
| `PingPongDemoTwins.cfg` | `PongsOthers` **violated** | boards of one kind leave each other's pings unanswered |
| `Demos.cfg` | `TypeOK`, `UsesWhatExists`, `ExecutorsFit`, `NothingLeft` | no script uses what does not exist, except what it failed to notice; executors fit; nothing stays on the agent |
| | `PublishesOnWhatExists`, `ShutdownCompletes` | threads publish on what exists unless `main` fled, and shutdown ends |
| | `ParametersObeyed` | the flag and the timer are as the parameters say, for rates in range |
| | `NothingMissed`, `PictureCatchesUp` | the last picture is the graph, however it changed meanwhile |
| | `SaysUpOnlyIfHeard`, `LostAgentEndsIt`, `StartsWhenAgentStays` | the program believes in and waits for an agent as it should, and gives up one that stays down |
| | `SessionNeedsConnection`, `FailedOpenFoundOut` | the false success of open is found out before a session, if the program does not crash or hang before |
| | `PongsAddUp`, `PongsOtherBoards` | pings of boards of other kinds are answered, and pong counts are exact up to what is late or lost |

### Bounds, and why they are enough

* `SpscQueue`: two blocks let a side be ahead of, behind and level with the
  other; indices that wrap at 8 go round the ring four times between two wraps, so
  a wrap meets every position and every staleness of the caches.  Two packets
  tell an old block from a new one.  The proofs remove these bounds.
* `SpscInit`: blocks of 1 to 8 bytes, every region of up to 130 bytes and a word of 8
  bits, so numbers of blocks that are powers of two and not; `SpscInitRegion` has the
  one region of the system, in bytes.  The proofs remove these bounds.
* `PingPongSel4`: `Capacity = 1` is what the built system has.  The set-up calls
  (about ten in the code, with a request each) are two, so that an answer to an
  earlier request can meet a later one.  `ReplyBurst`, `KickBurst` and `MaxNoise`
  of two or three let a ring fill up in the middle of a burst.  `ReadyWrites = 2`
  is one write more than `is_port_open` makes.
* `FibonacciAction`: two goals and one handle, so that a goal waits for the handle
  that another one's worker is about to give back.  Orders: one aborted at once,
  two that run for one and two rounds, so that a cancel request meets every point
  of a round, and one that is rejected.  `FibonacciOverflow` has the smallest
  order that overflows an int32 in full width.
* `PingPongDemo`: two devices and two pings each let every message be late by a
  ping, which is all that the program can tell; up to two messages may be on their way
  when a ping is sent (`MaxLate`).  Two kinds of board make every mix of two devices,
  alike or not.  `PongsOtherBoards` and `PongsAddUp` are about devices of different
  kinds; of alike ones the former is false (`PingPongDemoTwins.cfg`), and they may count
  the pongs for each other's pings.
* `Demos`: the scripts are finite and have no bound.  `PublisherNumber = 3` and
  `BasicAttempts = 5` are the program's.  `Width = 8` and `NsPerMs = 10` stand for 64 and
  10^6; the rates are negative, zero, in range, one that overflows to a negative
  period and one that overflows to a period in range.  Two other nodes and four
  changes let a node come and go, and another change fall, within one picture.  The
  agent is started up to three times, once before, during and after the session.
  The library tries three times for a session: a first, a middle and a last one.

A capacity of 1 hides something.  PP serves one packet for each notification
it receives, and notifications coalesce; with one block VMM cannot
push a second packet before PP has popped the first, so each packet gets its
wake-up.  With `Capacity = 2` `NoLostWakeup` fails.  Repairing
`spsc_init` alone would therefore expose a lost wake-up.

### Fairness, and why the code justifies it

PP, VMM and the guest have the same priority (`ping_pong_sel4.system`) and share
a core by round robin, and both spin loops yield; so weak fairness of
each domain.  The client decides when to begin a turn with the ring, so
`NewBlock` is not fair in `SpscQueue`.  The guest is fair in binding the agent's
port, in its first write to the readiness page, and in sending what the agent
has to send.  Noise, a second readiness write and failures need never happen.

The action server and its clients are POSIX processes whose main loops spin for
ever: each thread runs, and a request that waits is taken in some round (the
executor looks at every handle of a round).  Cancel requests are not fair.
`ClientsEnd` is of the clients that have an executor.  It excuses a server that has left
its `main` or crashed, as by the free of an uninitialised pointer, and the goals that a
failed `pthread_create` leaves without a worker: such a goal never ends, nor does one that
waits while each handle is held by one of them or of a client that hears nothing
(`AllHandlesStuck`).

In `Demos` fairness is that of the program that was started.  Threads are scheduled
and `usleep` ends, but the executor need never fail.  The visualizer runs, the graph
need not change.  The ping timer fires; a ping to an agent that is down is given up,
and one of those to an agent that stays up is answered, while nothing is assumed of
the agent itself.  The scripted programs and the parameter server have no liveness
property and no fairness.

### Findings

Six runs show disagreements between the code and what it says of itself.

* The capacity of the ring: `log2Capacity` holds the trailing zeros.
* Two ways to miss the "first ping" that PP announces: the null ring before
  readiness, and the mutual wait.  There is a third one, for which there is no
  run: `transport_init` initialises `vmm2pp`, which VMM has initialised before
  and may be using.  `FirstPingSent` fails of it with `NoiseFrom = "ready"`,
  `SetupCalls`, `KickBurst`, `MaxNoise`, `ReadyWrites` and `ReplyBurst` 1 and the rest as
  in `PingPongEarlyNoise.cfg`; so `RingsFollowProtocol` is checked where the guest
  is quiet until PP has its rings.  The reset of the indices may be seen in any
  order, since they are plain stores; the failure exists in source order too.
* "Too big, rejecting" begins at 201, the overflow at 48.
* "Dont pong my own pings" does not hold of a ping that comes back after the next.
* The pings of a board of the same kind are taken for own ones and not ponged, because
  `rand()` is never seeded.

Other observations, of which the models show the consequence but no run is about:

* `ping_uros_agent` exits when a ping is not answered; an agent that has
  stopped *and started again* answers, does not know the session, and the program goes
  on publishing to nobody.  So `LostAgentEndsIt` has the case `agent # 0`.
* A negative publish rate, or one that overflows, is accepted and stored by the
  parameter server and printed as the new rate, while the timer keeps its period or
  takes a wrapped one.  `ParametersObeyed` is for rates in range.
* `RCCHECK` of `addtwoints_server` prints "Aborting." and goes on, so it is among the
  `CarelessPrograms`.
* `custom_transport_open` returns the address of `rcutils_vsnprintf`, which is true,
  and frees the result of `getaddrinfo` when there is none.
* `parameter_server` finalises its node and never the parameter server on it.
* An `RCCHECK` of the multithread demo after the threads have started returns from
  `main`, and the threads publish over its dead stack (`early`).
* A failed `pthread_create` in the action server leaves an accepted goal without a worker
  and its handle taken for ever; ten of them and no goal is answered any more.
* A parameter whose set in `main` of `parameter_server` fails is read as its default, while
  the program publishes at its initial rate.  `ParametersObeyed` begins when it is set.

## Proofs

### The ring

`SpscQueueProof` proves, for every `Capacity`, every `WordSize` that is a larger
multiple of it, and every set of packets:

| theorem | statement |
|---|---|
| `TypeCorrect` | `Spec => []TypeOK` |
| `NeverOverrun` | `Spec => []NoOverrun` |
| `BlocksExclusive` | `Spec => []BlockExclusion` |
| `OldestIsRead` | `Spec => []ReadsOldest` |
| `RingIsFifo` | `Spec => ImplementsFifo`, the refinement of `BoundedFifo` |

None of the safety properties is inductive: they speak of the shared
indices, and the code decides on cached ones.  The inductive invariant `IInv`
relates all six.  `Beyond(i)` is the distance of an index from the producer's
copy of front, the oldest index anyone remembers; seen from there the order is

    producerCachedFront <= front <= consumerCachedBack <= back <= Capacity beyond

whatever has wrapped (`OrderInv`).  `BackInv` says that the producer's own back
is ahead of the published one only inside `spsc_push`, and `BlockInv` what each
side knows of its block between two calls.  The order is preserved by
`ReloadFront`, which moves the origin, by a lemma on distances (`DistBetween`).
Two indices less than a ring apart are different blocks because the capacity
divides the word (`SlotApart`, from `ModApart` of `Arithmetic`).  For the refinement,
`PublishPuts` and `PopGets` show that the two release stores append and remove
one packet; every other step leaves `Contents` alone.

The assumptions are the `ASSUME`s of `SpscQueue`, checked by TLC on its
instance, and sequential consistency, which is built into the model.

### What a ring is made of

`SpscInitProof` proves of `spsc_init`, for every region shorter than a word, every
block size and every width of the word:

| theorem | statement |
|---|---|
| `BlocksAreInRegion` | `Spec => []BlocksInRegion` |
| `IndicesAlwaysGoRound` | `Spec => []IndicesGoRound` |

`IndicesGoRound` is what `SpscQueue` assumes of its ring, so the assumption holds of
every ring the code sets up.  The argument is about numbers, and `Arithmetic` has it:
the capacity divides the number of blocks and is no more than it (`TrailingZeros`), a
power of two divides every larger one (`ShiftedDivides`), and `i & (2^k - 1)` is the
remainder of `i` by `2^k` (`Mask`).

These speak of recursive definitions, and the library's induction theorems take a
predicate, which no prover here can instantiate.  `Arithmetic` therefore states
induction about a *set* of numbers (`Induction`, `StrongInduction`, from the
well-foundedness of `<`), and a proof names the set of the numbers for which its claim
holds.  A recursive function is `CHOOSE`n, so that its equation is only as good as the
existence of a function that satisfies it: `Recursion` shows that one exists whenever
each value depends on smaller arguments alone.  From it follow `ShiftedIs`,
`CountTrailingZerosIs` and `BitAndIs`, the equations of `Bits`.

### The composed system on seL4

`PingPongSel4Proof` and `PingPongTokenProof` prove, for every `Capacity`,
`WordSize`, number of set-up calls, burst, amount of noise and number of writes to
the readiness page:

| theorem | statement | hypotheses |
|---|---|---|
| `TypesKept` | `Spec => []TypeOK` | |
| `AgentAlwaysListens` | `Spec => []AgentListens` | |
| `TxFollowsProtocol` | `Spec => P2V!Spec` | |
| `TxIsFifo` | `Spec => Tx!ImplementsFifo` | |
| `OnlyNoiseFollowsNull` | `Spec => []NullRingOnlyByNoise` | |
| `PublishersAlwaysBeforePings` | `Spec => []PublishersBeforePings` | |
| `RingsAlwaysFollowProtocol` | `Spec => RingsFollowProtocol` | quiet guest |
| `RxIsFifo` | `Spec => Rx!ImplementsFifo` | quiet guest |
| `OneMessageAlwaysInFlight` | `Spec => []OneMessageInFlight` | quiet guest or `Capacity = 1` |
| `NeverEverStuckTogether` | `Spec => []NeverStuckTogether` | quiet guest or `Capacity = 1`; `ReplyBurst = 1` |
| `NoWakeupLost` | `Spec => []NoLostWakeup` | `Capacity = 1` |

The *quiet guest* is `NoiseFrom = "rings"`: it transmits nothing of its own until
PP has its rings.  None of the hypotheses is for convenience.  With an earlier
packet PP follows a null pointer (`PingPongEarlyNoise`), which is the only thing that
leads it there (`OnlyNoiseFollowsNull`), or initialises the ring
under the feet of VMM, and `RingsFollowProtocol` is false; with
bursts of answers the domains do wait for each other (`PingPongBursts`); with
two blocks a wake-up is lost (above).  The last three hold of a guest that transmits
from its boot with one block, which is what the system has; with two and such a guest
TLC finds each of them violated.

The argument has four layers.

1. *Until PP has the rings.*  `ReadyInv` follows the readiness signal, which is in one
   place until PP takes it and in none afterwards: VMM sends it only after the
   agent has bound its port, and never twice, however often the guest writes to its
   page.  So `transport_init` runs once, when both rings are still as VMM left
   them (`QuietInv`, and `CalmInv` for the ring that a guest could have written to).
   What a guest puts into `vmm2pp` before that is its own (`GuestOnly`): the agent has been
   asked nothing.  `NullInv` adds that PP comes to look only when there is something.
2. *The rings.*  A ring's proof needs of its users only that each side takes the
   steps of `SpscQueue`, one side at a time: `UserInv` in `SpscQueueProof` is what
   that gives them in return, with a lemma for every step saying what it does to
   `Contents`.  `RoleInv` says which domain is inside which operation, and
   initialising a ring that holds nothing is no step at all.  That the set-up
   initialises `vmm2pp` again is harmless for that reason alone.
3. *What is on its way.*  `Part` names six places a packet can be: PP's hand, `pp2vmm`,
   the agent's inbox and outbox, VMM's packets to send, `vmm2pp`.  Every step moves
   a packet from one place to the next, or none (`Moved`); so there is one token
   (`Single`), and none is left while PP decides what to send (`TokenInv`).  What PP
   does next is the matter of `ControlInv`, and that there is no ping and no pong before
   it has its publishers that of `NoBalls`, which is `PublishersBeforePings`.
   With one token of the exchange in all, PP holds it when it writes, so `pp2vmm` is
   empty and PP does not wait; hence never both do.  `WakeInv` adds that what a ring of one
   block holds is announced by a notification that is pending or was just taken.
   Of `vmm2pp` these arguments need little: that nothing comes out of it that was not
   in it (`Delivers`), and that a step that puts something into it is followed by a
   notification (`Announces`).
4. *A ring that is initialised in use.*  A guest that transmits from its boot has VMM push to
   `vmm2pp` before PP initialises it, so the proof of the ring says nothing of it.
   With one block there are three eras (`EraInv`).  In the first PP has read nothing (`Unread`).
   Then it has read one packet while VMM begins from zero again (`Skewed`); VMM
   can push the same index once more, which PP takes for what it has read already.
   When VMM has counted that packet too (`Level`) the ring is as `SpscQueueProof`
   assumes (`RxInv`), and stays so.  In each of them `Delivers` and `Announces` hold.  Until
   the third a packet may be in the block while the indices say there is none: `Early`
   says where packets are then, and `EraToken` that there is one token all the while.

### The Fibonacci action

`FibonacciProof` proves, for every set of goals, orders and handles, every
`MaxOrder` and every width of integers:

| theorem | statement |
|---|---|
| `Typed` | `Spec => []TypeOK` |
| `OwnHandle` | `Spec => []WorkersOwnHandle` |
| `Complete` | `Spec => []SuccessIsComplete` |
| `Completed` | `Spec => []CompletedMeansEnded` |
| `Refinement` | `Spec => ImplementsActionGoals` |

and, under a hypothesis on integers each,

| theorem | statement | hypotheses |
|---|---|---|
| `FibonacciNumbers` | `Spec => []SuccessIsFibonacci` | `OrdersFit` |
| `Int32Fits` | an order fits exactly when it is at most 47 | `IntMax` is 2^31 - 1 |
| `Int32Numbers` | `Spec => []SuccessIsFibonacci` | `IntMax` is 2^31 - 1, no order of 48 or more is accepted |

Its inductive invariant has three parts.  `WorkerInv` says what a worker has
computed at each place: at `decide` the list is complete *or* the goal was
canceled, and since nobody takes a cancel back while the worker holds the
handle, the second read of `goal_cancelled` can only err towards canceled.
`HandleInv` pairs handles with the workers that may still follow them, both
ways; it is what keeps the handle's flag the flag of this goal.  `MessageInv`
says where a goal is by the messages about it: a request not yet answered means
that nothing has begun, so that no goal is answered twice, and a result on its
way means that the worker has sent it.  For every action one lemma says what it
changes (`...Effect`) and one that it preserves the invariant (`...Keeps`).  In the
refinement every step changes the status of at most one goal, by a transition
that `ActionGoals` allows (`Moves`), or of none (`Stutters`).  The assumptions are
the `ASSUME`s of `FibonacciAction`.

`OrdersFit` says that the numbers of every order that the server accepts fit its integers.
In an int32 this is so of the client's order 10 and of all orders up to 47, and of none above
(`Int32Fits`): the code's limit of 200 is 153 orders too high, as `FibonacciOverflow` shows of
the first of them.  The numbers are those of any sequence that begins with 0 and 1 and in
which each is the sum of the two before; there is one, it grows, and the worker's is it
(`SequenceExists`, `SequenceGrows`, `SequenceUnique`, by the induction and recursion of
`Arithmetic`).  `NumbersInv` follows the numbers
from the worker's list into its result message: those computed so far are the first of
the sequence, and a result that says succeeded has the whole list.

### The ping_pong demo

`PingPongDemoProof` proves, for every set of devices, every mix of boards, alike or not,
and every number of pings:

| theorem | statement | hypotheses |
|---|---|---|
| `DemoTypes` | `Spec => []TypeOK` | |
| `OthersArePonged` | `Spec => PongsOtherBoards` | |
| `PongsAlwaysAddUp` | `Spec => []PongsAddUp` | `Devices` finite |

`MessagesInv` orders messages by the pings they are about: none is from the future, and
nobody has answered a ping whose copy is still on its way to it.  `AddsUp` counts, for
the last ping of each device, those that are yet to answer, the answers on
their way and those received; every step takes one element from one of these sets
and puts it into the next, and leaves those of the other devices alone.  Both
properties are of devices of different kinds, whose frame ids differ, while others may be
alike: a device may count the pongs for a twin's ping as well, so that where there are
twins its count is a lower bound, and it is exact where all boards differ.

### The demos

`DemosProof` proves, for every value of the constants of `Demos`:

| theorem | statement | hypotheses |
|---|---|---|
| `AlwaysUsesWhatExists` | `Spec => []UsesWhatExists` | `ScriptsWellMade` |
| `NeverLeavesAnything` | `Spec => []NothingLeft` | `ScriptsWellMade` |
| `ExecutorsAlwaysFit` | `Spec => []ExecutorsFit` | `ScriptsWellMade` |
| `AlwaysPublishesOnWhatExists` | `Spec => []PublishesOnWhatExists` | |
| `ParametersAlwaysObeyed` | `Spec => []ParametersObeyed` | |
| `NothingEverMissed` | `Spec => []NothingMissed` | |
| `OnlyHeardIsUp` | `Spec => []SaysUpOnlyIfHeard` | |
| `SessionsAlwaysNeedConnection` | `Spec => []SessionNeedsConnection` | |
| `DemoPongsOthers` | `Spec => PongsOtherBoards` | |
| `DemoPongsAddUp` | `Spec => []PongsAddUp` | `Devices` finite |
| `DemosTypesKept` | `Spec => []TypeOK` | `ScriptsWellMade` |

`ScriptsWellMade` says that every script is well made, which TLC finds true
of the 25 scripts; expanding them is nothing for a prover.  The theorems then hold of any
scripts for which it is true, as of one more program of this kind.  `ScriptInv`
relates the text of a script with a run of it: at step `n` what exists is what the script has
made before `n` (`Made`), up to what failed unnoticed, and the executors hold what it
has added (`Added`), up to the same.  A failure that is noticed ends the run; one that is
not adds to `missed`, which only careless programs let happen to something another
step needs.

The invariants of the others are the properties with what the program knows between
its calls: of the graph (`GraphInv`), which parts of a picture are drawn already
and agree with it unless the guard condition is set again; of the parameters
(`ParamInv`), what is declared after which call of `main`; of the transport
(`TransportInv`), that bytes are received over a connected socket only.  Those of the
ping_pong demo are the ones of `PingPongDemoProof`.
That of the threads says what `main` knows at each place: which threads have ended
(`ThreadsInv`: those below `index`, that of `index` once joined, all of them at the
node) and what still stands (`EntitiesInv`: the publishers from `index` up, the node
and support); it promises nothing once `main` has fled.

The assumptions are those of `DemosAssumption`.  That `2^(w-1)` is positive and `2^w`
twice that, on which the range of the timer's period rests, is proved (`Words`).

### What is only model-checked

* Liveness, which the prover does not do: `FullProducerProceeds`, `PingsKeepComing`,
  `ClientsEnd`, and the five of `Demos`.
* That the scripts are well made, as said above.

## Not modelled

* The contents of messages on seL4: sequence numbers, `frame_id`, headers, checksums.
* The virtIO device and the sDDF queues, beyond what passes through them.
* The failure paths of `init` in VMM, after which no guest runs.
* Image building, message definitions and CI.
* The stubs, which serve the C library alone, and the guest's echo program.
* The contents and sizes of messages in the demos; the int64 milliseconds that
  `epoch_synchronization` publishes in an int32, and the counters of the publishers,
  which overflow after 2^31 publications.
* Traffic over the custom transport once there is a session.
* The data race on `goal_cancelled` beyond reading its old or its new value.
* Printing, in every program.

## Plan

Every part of the system with state of its own has its module, and every safety
property that the runs check is proved, with the hypotheses named above.  What is left is
liveness, which is out of the prover's reach.
