# Verification of the MeqTrees kernel

MeqTrees evaluates trees of nodes ("forests") over requests.  This directory
holds TLA+ modules that model its kernel, TLC configurations that check them on
small instances, and TLAPS proofs about them.  `PROJECT.json` lists components,
runs, mutants, hazards, findings, theorems and, for every definition, the
source lines it stands for.

## 1. The system

| Component | State it keeps | Operations | Interacts with |
|---|---|---|---|
| MEQ thread pool, `MTPool` | LIFO queue of work orders, count of orders in execution per tree depth, count of idle workers, one condition variable | `join`, `awakenWorker`, `getWorkOrder`, `finishWithWorkOrder`, `clearQueue` | nurseries place orders and take them back; orders call nodes |
| MEQ nursery, `NodeNursery` | per poll: counts of children and results, cumulative code, `polling_`, `abandon_` | `syncPoll`, `backgroundPoll`, `startAsyncPoll`/`awaitChildResult`, `finishPoll`, `abortPoll`, delivery callbacks | pool below, node above |
| MEQ node, `Node` | `executing_`, cached result, current request, state record | `execute`, cache handling, breakpoints | nurseries of children and stepchildren, forest |
| MEQ forest | registry of nodes, abort flag, stop flag, breakpoints | create, find, remove, raise and clear flags | all nodes read the flags |
| MEQ data types, parameter tables | arrays, domains, funklets; tables on disk | pure functions and file access | nodes |
| MeqNodes | some 120 `getResult()` implementations; `Solver` and `ReqSeq` have control flow of their own | `getResult`, `pollChildren` | node |
| MeqServer | execution queue, running flag, state; visibility streams; Python interpreter | commands, execution thread, `VisDataMux` tiles to spigots and sinks | forest, pool, control channel |
| MeqMPI | the same forest distributed over processes | remote execute and state messages | pool, nodes |
| AppAgent | event channels; `MTQueueChannel` with two bounded queues, an error queue, an event flag | `postEvent`, `getEvent`, `close`, worker loop | MeqServer on one side, OCTOPUSSY or a file channel on the other |
| OCTOPUSSY | dispatcher tables, per process a priority queue, worker threads, subscriptions, gateways | send, enqueue, deliver, repoll, timeouts | AppAgent, other processes |
| DMI | counted references, records, containers | copy, transfer, copy on write | everything |
| TimBase | mutexes, condition variables, sockets, debug streams | wrappers of POSIX calls | everything |
| VisCube, OCTOPython, PyApps, PyParmDB, Tools, build files | data containers, user interface, scripts | | |

What is hard here is the kernel's parallel evaluation.  Orders are executed by
workers and by the threads that wait for them; a waiting thread takes orders of
other polls; a result is delivered under a different lock than the one the
queue is under; nodes shared by two parents exclude each other; a poll may be
abandoned or aborted while its orders are queued or running, and the nursery's
fields are then used again by the next request.  The `hazards` of
`PROJECT.json` say where each of these bites.

## 2. Modules

### `Brigade`: the thread pool

Each critical section under `cond()` is one action.  `queue`, `nthr` and
`nidle` are `wo_queue_`, `nthr_` and `nidle_`; `wstate` is `WorkerData::state`;
`asleep` are the threads in `cond().wait()`; `holder` says who owns an order
after `getWorkOrder`, which is a C++ pointer on a stack.  `AwakenWorker` is
written as a step on the state its caller has reached, because the code calls
it at the end of `getWorkOrder`: its three outcomes are doing nothing,
spawning a thread and signalling.  A signal wakes any sleeper, and is lost if
there is none; a woken worker looks at the queue again, as `getWorkOrder` does.
`TakeHead` is the successful exit of `getWorkOrder`, shared by workers
(`WorkerTakes`) and by polling threads (`PlaceAndTake`, `PollerTakes`).

Clients may place any batch of orders that are not in use (`Fresh`), a thread
may poll below the orders it holds (`PollsAt`) and finishes first what it took
last.  These are the obligations of the nurseries; `NurseryPoll` shows that they
are met.

### `NurseryPoll`: evaluation of a tree

`NurseryPoll` has the pool's variables and a stack of frames per thread, one
frame per call of `Node::execute`, with a program counter for the places
between critical sections.  It uses the operators of `Brigade` through
`INSTANCE`, without `Fresh` and `PollsAt`, so that `PoolBehaviour`, that is
`Brigade`'s specification with the pool's variables, is a genuine refinement.

| In the code | In the module |
|---|---|
| `Node::execute`, wait for `executing_`, abort test | `Enter` |
| `syncPoll`, several children and threads | `SyncPoll`, `HelpYourself`, `CheckPoll` |
| `syncPoll`, single thread | `SyncPollSerially`, `ReturnToPoll` |
| `pollChildren` | `Polled` |
| `backgroundPoll` | `BackgroundPoll`, `BackgroundPollSerially`, `ReturnToBackgroundPoll` |
| rest of `execute` | `Evaluate`, `EvaluateAborted` |
| `exitAbort`, `abortPoll` | `AbortChildren`, `AbortStepChildren` |
| `exitExecute`, `mt_waitForEndOfPoll` | `WaitForEndOfPoll`, `ReturnToOrder`, `Answer` |
| `mt_receiveSyncChildResult` | `SyncResultDropped`, `ReceiveSyncResult`, `ClearAbandoned` |
| `mt_receiveBackgroundResult` | `LookAtBackgroundPoll`, `ReceiveBackgroundResult` |
| `finishWithWorkOrder` | `FinishOrder` |
| execution thread, abort command | `Join`, `NextRequest`, `RaiseAbort` |

Abstractions: a result is its failure flags and the request it is for; what
`getResult()` returns is the constant `Verdicts`, chosen per node and request
at the start; the cache is off (policy `CACHE_NEVER`); all children are
enabled and polled in their own order; the abort tests after the poll and after
`getResult()` are one; condition variables have no spurious wakeups, so that a
liveness property does not hold by their grace.  An order is identified by
nursery, child, depth, request and address: the address tells apart orders that
two polls of a shared node at the same depth have made alike, as the pointer
does in the code.  `Address` is a bound on how many may be in use at a time.

### `QueueChannel`: an event channel in a thread of its own

`MTQueueChannel` runs a remote channel (a file or a measurement set) in a worker
thread.  Variables carry the names of the fields; `cstate` is `state()` of the
channel itself, `rstate` that of the remote together with the reason why it is
CLOSED, `apc` and `wpc` say where the two threads are, `asleep` who is in
`condVar().wait()`.  The mutex needs no variable: the application's critical
sections are single actions, so it is taken exactly while the worker is inside
its loop (`MutexFree`).  The worker's loop is one action per reading of
`state()`, because `close()` and `abort()` write it without the mutex.

| In the code | In the module |
|---|---|
| `init` | `InitChannel`, `WorkerInit` |
| `postEvent` | `PostEvent`, `PostWakes`; parts `ThrowErrors`, `WaitForRoom`, `PushPost`, `CloseAfterRemote` |
| `getEvent`, empty mask | `GetEvent`, `GetWakes`; parts `TakeEvent`, `WaitForEvent` |
| `flush` | `Flush`, and `CloseFlush` inside `close` |
| `abort` | `Abort`, which sets `aborted_`, then as `close` |
| `close` | `Close`, which sets the state, then `CloseFlush`, `CloseClear`, `CloseWait`, `Join` |
| `runWorker` | `WorkerLoop`, `WorkerErrors`, `WorkerPosts`, `RemotePost`, `WorkerRoom`, `WorkerDrain`, `WorkerGet`, `WorkerGot`, `WorkerResumes` |
| the remote | an event, an exception, the end or nothing in `WorkerGet`; acceptance, an exception or a footer in `RemotePost` |

Abstractions: events are their numbers, the error list is its length, a channel
is opened once, and the remotes are the synchronous ones `VisDataMux` installs,
which raise no flag of their own.  `Init` is the constructor that takes a
reference, the one `VisDataMux` uses; the one from a pointer
(`MTQueueChannel.cc:49`) leaves `aborted_` uninitialised, but has no caller.
`Calls` and `Waits` say how the application uses the channel; the module itself
allows any use.

### `RequestId` and `NodeCache`: the result cache of a node

`RequestId` translates the functions on the fields of a request identifier.  An
identifier is a sequence of numbers, a mask the set of its raised bits.
`NodeCache` models what `Node::execute` does with them.  Where `NurseryPoll`
has the threads of the evaluation and no cache, `NodeCache` has the cache and
abstracts the threads: a node that misses its cache has its children `pending`,
and they are executed in any order and at the same time, each for one caller at
a time (`executing_`).  Beside the requests come the commands, at any moment.

A result is the set of evaluations that went into it, its `parts`: the node,
the version of the node's state, and the values of the request's fields it
used.  This says, without any numbers, what an answer was computed from, and
so what it means that a cache has served the right one.

| In the code | In the module |
|---|---|
| `cache_`, `has_state_dep_`, `current_reqid_`, `pcparents_` | `cache`, `stateDep`, `lastId`, `hints` |
| `cache_.ignore_parent_releases_` | `ignoring` |
| `execute`, abort test on entry | `EnterAborted` |
| `getCachedResult`: hit; update that does not concern us; miss | `EnterHit`; `EnterIgnoringUpdate`; `Misses` |
| the rest of a new request: rider, start of the poll | `EnterMiss`, `EnterRiderFails` |
| the end of `execute` | `FinishUncached`, `FinishAsChild`, `FinishComputed` |
| `cacheResult`, `holdChildCaches`, `holdCache` | `CacheResult`, with `ShouldCache`, `Hinted`, `Releases` |
| `setState`, `propagateStateDependency` | `SetState`, `Marked` |
| `Clear.Cache`, recursive or not | `ClearCommand`, then `ClearCache` of each node |
| Solver and request sequencer above the forest | `Issue` |

Abstractions: a node passes a request on unchanged; a recursive `Clear.Cache`
takes the nodes in any order; the policies are the four that the code tells
apart; which fields a node depends on is a constant, and the ones only
`getResult` reports are missing where it is not called (`OwnDeps`).

### `MessageQueue` and `GatewayWP`: a work process of OCTOPUSSY

`MessageQueue` has the two ways into the queue of a process as operators:
`enqueue` with its shortcuts (empty queue, back, front, scan) and
`enqueueFront` for a message that a handler holds.  `GatewayWP` is a process
with several worker threads, `WPInterface` with `MTGatewayWP` as the process:
the workers empty the queue into the socket of a peer, and hold letters back
until a reader thread has opened the link.

| In the code | In the module |
|---|---|
| `queue_`, `needrepoll_`, `running`, `peerState()`, `shutting_down` | `queue`, `needRepoll`, `running`, `gate`, `shutting` |
| `Dispatcher::send`, `checkEvents` | `Send`, `Timer`; both `Enqueue` |
| `do_init`, `do_start`, `do_stop` | `DoInit`, `DoStart`, `StopRunning`, `StopWakes`, `StopJoins` |
| `runWorker`, `mtWakeup` | `Sleep`, `Wake`, `Continue`, `Leave` |
| `deliver` before the handler | `Take` |
| the handler: `receive`, `timeout`, `transmitMessage` | `ReceiveLetter`, `ReceiveBeat`, `ReceiveInitTimeout`, `ReceiveBye`, `Transmit`, `TransmitFails`, `TransmitThrows` |
| `deliver` after the handler | `PutBack`, `Return` |
| reader threads | `ReaderRuns`, `Open`, `Announce`, `ReaderFails` |

Abstractions: a message is its name and its priority, events have the highest;
what the peer does is whether the link opens, a write succeeds, fails or
throws; the reader threads are one; a heartbeat is outstanding or not.  `fate`
and `wire` are history: what became of a message and what was written.

### `ServerLoop`: the command loop of MeqServer and its debugger

The main thread takes commands from the control channel.  Synchronous ones go
to a queue for the execution thread; the debugging commands it executes itself,
while the execution thread and the helpers of the brigade evaluate nodes.
`NurseryPoll` has the evaluation in detail and no debugger; `ServerLoop` has the
debugger and only the outline of an evaluation: the execution thread
evaluates the root and each helper a child of it, every node goes through its
execution states one after the other, and each time it calls `setExecState`.

| In the code | In the module |
|---|---|
| `running_`, `exec_queue_`, `clear_stop_flag_`, `forest_breakpoint_`, `debug_next_node`, `debug_bp_node` | `running`, `queue`, `clearStop`, `forestBreakpoint`, `debugNext`, `debugNode` |
| `stop_flag_`, `abort_flag_`, `breakpoints`, `breakpoints_ss` of the forest | `stopFlag`, `abortFlag`, `breakpoints`, `breakpointsSS` |
| `stopFlagCond()` while a reply is posted | `stopLock` |
| `executeCommand` | `Push`; `Take`, `TakeUntil`, then `Test`, `Edit`, `Mark` |
| end of `execCommandEntry`, in either thread | `MainEnds`, `MainClears`, `MainReplies`; `ExecMustClear`, `ExecClears`, `ExecReplies`, `ExecAnswers` |
| `setForestBreakpoint`, `clearForestBreakpoint` | `SetForestBreakpoint`, `ClearForestBreakpoint` |
| `halt`, end of `run` | `Halt`, `Signal`, `Exit` |
| `runExecutionThread`, `nodeExecute` | `Look`, `Start`, `Pop` |
| a poll, and its early end under an abort | `EndPoll`, `AbandonPoll`, `HelperStarts` |
| `setExecState` | `SeeAbort`, `MeetForestShot`, `Shoot`, `MeetBreakpoint`, `MeetNone`, `Late`, `LateStop` |
| `processBreakpoint`, `waitOnStopFlag` | `Stop`, `SkipStop`, `Resume` |

Each reading of a field that another thread writes is a step of its own.
Abstractions: the two calls by which a command clears breakpoints are one step;
the contents of replies are left out; a node has one single-shot breakpoint,
for all its states, as `debugUntilNode` sets it.

## 3. Runs

| Run | Instance | Shows |
|---|---|---|
| `brigade` | execution thread, two workers and one to be spawned, six orders in three batches at two depths, limit 2 | the pool's counters, exclusive orders, bounds on parallelism and nesting, no stranded orders |
| `nursery_poll` | three threads, a tree with multithreaded, serial and background polls, shared leaves and a shared inner node whose two polls have like orders, failing nodes, all fail policies that poll every child | serial answers, exclusive execution, complete polls, nothing outlives its poll, refinement of `Brigade`, every request answered |
| `nursery_abort` | three threads, five nodes, children and stepchildren polled by the brigade, abort at any moment | the request is answered nevertheless, no orphan orders |
| `nursery_abandon` | a root with three leaves under `AbandonPropagate` | finding: the parent is not woken up |
| `queue_input` | an input channel: queue of two, four events and the end of the stream, one exception, close or abort at any moment | types, bounded queues, order of events, no lost wakeup, the remote ended as asked, operations return |
| `queue_output` | an output channel: queue of two, three events and a footer, two exceptions, flush, close (with or without a flush before it) or abort at any moment | order of events, no lost wakeup, no mutual wait, a close that follows a flush drops nothing, operations return |
| `node_cache` | a root, two nodes and the parameter they share; three requests with riders and iterations, one change of state, an abort, a wait, a cleared cache | answers are those of a forest without caches, riders are processed once and reach the parameter, the shared node computes once |
| `node_cache_race` | the same, two requests, the state is set during a request | finding: the parent's cache keeps the old state |
| `gateway` | two workers, two letters of rising priority, a heartbeat, the connection timeout, one worker lost to an exception, detach and stop at any moment | the queue keeps its order, no message is lost or doubled, no wakeup is lost, stop joins its workers, every letter leaves |
| `gateway_order` | two workers, two letters of one priority | finding: they are written in the wrong order |
| `server` | a root and one child, two execution states, two commands (so that a child of an abandoned execution meets the flags of the next), every sequence of debugging commands | the stop flag is raised only while a thread stands at it, a halt ends the server, every command is answered while the user keeps aborting |
| `server_reply` | the same with two commands | finding: a thread stops again before the reply to the command that freed it |

The bounds are the smallest in which the interesting cases meet.  Three threads
are a poller, a helper and one more, with which the limit 2 is reached and a
thread may be spawned (`brigade`) or sleep.  Two depths are what nested helping
needs.  Two requests are needed only for state left over by an abort; runs
without abort have one, since every poll starts from fresh fields then.  So
`ResultsOfThisPoll` and `NoOrderOutlivesItsPoll` are not checked of a poll that
follows an aborted one, where they fail (observation 5).
Deadlock is checked in `brigade` and in the runs of `NurseryPoll`: a finished
instance stutters in `NoMoreRequests` only when every request is answered and
all stacks are empty.
A queue of two with three or four events is filled, emptied and filled again,
and leaves a thread asleep at each end.  The runs of `QueueChannel` do not check
deadlock, because the system stops there once the channel is closed; what a
deadlock check would find is the subject of `WakeupKept` (a sleeper's condition
is false while the other thread sleeps or is gone), `NeverBothAsleep` and
`CallsReturn`.  `CallsReturn` excepts two cases in which the code does not
return, a wait for an event that does not come and a close over an exception
(observations 2 and 3 below).
The runs use a channel in one direction, as `VisDataMux` does; with both, TLC
finds a deadlock at `MTQueueChannel.cc:174`: the remote ends with events in the input
queue, the worker waits for them to be taken and the application, which posts,
for room.
The runs of `NodeCache`, `GatewayWP` and `ServerLoop` do not check deadlock
either: the client has no more requests, a stopped gateway has no more
messages, and a server exits or, halted while a thread stands at a breakpoint,
waits for it for ever.  What must not be left undone is in
`UpdatesReachParameters`, `LettersLeave`, `HaltEnds` and `CommandsAnswered`.
The three requests of `node_cache` bear up to two updates, so that the last
update of a solve comes after one with derivatives, and their answers meet in the
caches.  An update alone is only sent after a request for derivatives that was not
aborted, as `Solver::getResult` does; two of them in a row, with a cache cleared
during the first, would leave a parameter's result without its dependency on the
iteration, and the second ignored.
In `gateway` two letters of rising priority and events above both reach every
shortcut of `enqueue` and a hold between two messages.  `server` has one helper
and two commands: the second is queued behind the first, and is taken after an
execution that was aborted with a child at a breakpoint, whose flags it then
meets; `server_reply` has two because the finding needs them.

Fairness is `WF_vars(ThreadStep(t))` for every thread: the operating system
runs a thread that can run, and a thread inside a node is never kept waiting by
choice.  In `QueueChannel` the worker and an operation that has begun go on;
which operation is called, and whether one is, is left to the application.
No fairness is assumed of the abort command there.
A worker of a gateway works on, the dispatcher's timers and the threads that
start, stop and open it go on; strong fairness of `TakeLetter` says that the
heartbeat, which comes every five seconds, does not starve the letters.  In
`ServerLoop` the threads go on; what the user does is open, but for
`SF_vars(Take("Abort"))`: a user who gets no answer aborts again.  No fairness is
assumed of `AbandonPoll`, since the polling thread may sleep instead.  The scheduler's choice of
the sleeper a signal wakes is left open.

## 4. Proofs

`BrigadeProofs` proves, for every set of threads and orders, every set of
batches and every limit, that `Inv` is an invariant of `Brigade`:

    Inv == TypeOK, ExclusiveOrders, SleepersAreIdle, HoldersAreBusy,
           IdleAccounting, BusyAccounting, DepthLimit, DeeperOnly

None of the counting properties is inductive alone.  The idle count changes by
the state of the thread that takes an order, so that sleepers must be idle
(`SleepersAreIdle`) and a thread that holds an order must not be
(`HoldersAreBusy`); the busy count is lowered per order, so orders must be
exclusive; and `DepthLimit` is read off the busy count.  The argument runs over
`TakeHeadInv`, the one lemma about taking the head of a queue whose orders
nobody holds, which the three ways of taking an order all use.  The assumptions
are the named `ASSUME`s of `Brigade`: finite sets of threads and orders, and
batches of distinct orders at one depth.

`NoneStranded` proves `NoStrandedOrders` under `EnoughWorkers`: there are
workers, orders are for children (`enableMultiThreaded` and the nurseries see to
that), and `MaxBusy` exceeds the number of threads that have joined.  The last
is needed: at a limit of 1 the execution thread alone reaches it, and its orders
wake nobody.  `Attended`, a non-empty queue has a worker that is awake, is
inductive with two facts about who can be asleep.  An order is placed with a
call to `awakenWorker`, which wakes or spawns a worker or finds the limit
reached; then more orders are in execution at the depth of the queue's head
than threads have joined, no thread holds two of them (`DeeperOnly`), and so, by
the pigeonhole principle (`BusyWorker`), one is held by a worker, which will
look at the queue when it is done.

`NurseryProofs` proves of `NurseryPoll`, for every forest without cycles, every
number of threads, requests and policies, with aborts at any moment, that

    Inv == BP!Inv, Shape, QueueFits, Running, Typed

is an invariant.  `BP!Inv` is `Brigade`'s invariant of the pool, carried over by
instantiating its proofs.  `Shape` is about the stacks: a frame is called from
where its caller waits (`Fits`), frames go down the forest and the depths
(`Deepens`), a frame with an order is at the node and depth of the order and the
pool's `holder` is the thread (`OrdersMatch`, `Holding`), a node that a frame has
entered is entered by no other and is in `executing` (`Exclusive`, `Marked`).
None of these is inductive without the others: that a returning frame leaves
exactly one node free needs `Exclusive`; that a thread may start a child at all
needs the child's order to be one level deeper than everything on its stack,
which is `Deepens` and the order of the queue; and `Holding` is what makes a
finished order the deepest one its thread holds.  `NodesAreExecutedOnce` follows
from `Marked` and `Exclusive`.  `NurseriesDriveTheBrigade` is the refinement: each
step of `NurseryPoll` is one of `Brigade`'s, with its guards `Fresh` and
`PollsAt`, or leaves the pool alone.  What is proved of `Brigade!Spec` therefore
holds of the pool that the nurseries drive.  The assumptions are the named ones
of `NurseryPoll`: finite sets, one server thread, and a height that decreases from
node to child (`ForestAssumption`).

`NurseryOrders` adds the orders.  `Accounts` says of each nursery (`Polls`) that
the results received and the orders outstanding add up to the number of
children, no two of them for one child; of each frame (`Stage`) which of its two
nurseries has nothing outstanding at which place of `execute`; and that an abort
is for good.  The outstanding orders are those on the queue or on some stack
before their result is dropped off (`Pending`), so that the sum is kept by a
step that moves an order from the one to the other.  From it follow
`NoOrphanOrders` and `NoOrderOutlivesItsPoll`, under `Undisturbed`: no child's
code abandons a poll, and no request comes after an aborted one.  Both
hypotheses are needed because of what the code does: finding 1 for the first,
observation 5 for the second.

`NurseryAnswers` follows the results through the accounts, under the same
hypothesis, and proves `ResultsOfThisPoll` and `AnswersAreSerial`.  It first shows
that the codes of a serial evaluation, which `SerialCodes` defines by an equation
over the forest, exist (`CodesExist`): otherwise the provers would know nothing of
them, and there is no induction to cite.  Were there none, some least height
would have no solution below it, which `OneHigher` contradicts.  The invariant is

    Answering == Gathers, SerialCalls, Asked, AnswersAreSerial

`Gathers` says of every frame what it has of the serial evaluation at its place in
`execute`: a frame that polls has the results of its own request and the union
of the serial codes of the children it is done with; one that has polled has what
its policies leave of them; one that leaves has the serial code of its node, or is
aborted.  "Done with" is read off the accounts: the child has no order
outstanding.  A result that arrives is added to the right sum because there is
one order for each child at most, and it is a result of this request because the
orders outstanding are those of the frame that polls.  Which thread carries the
order out, and when, appears nowhere in the statement, and that is the point.
`SerialCalls` and `Asked` are the same for calls without orders: the child
that a serial poll calls, and the root.

`QueueChannelProofs` proves of `QueueChannel`, for every queue size, number of
events, number of exceptions, behaviour of the remote and use of the operations,

    Inv == Control, QueueLimits, RoomSeen, Input, Output

`Control` is the types and where the two threads can be together: in particular
a channel is OPEN while the application is in a call, nothing moves before the
remote is initialised, and a remote that was closed though the channel was
aborted is found only where the worker spins over an exception (`EndKnown`).
`QueueLimits` needs `RoomSeen`, since the worker tests for room and pushes in
different steps.  `Input` and `Output` state the order of events element by
element (`From`), which is what the provers can carry over an `Append` and a
`Tail`; `FromIsPrefix` and `FromIsUpto` turn them into `InputInOrder` and
`OutputInOrder`.  `EndsAsAsked` follows from `EndKnown` alone.  The assumptions
are that `QueueSize` is positive and the bounds are natural numbers.

Two properties are theorems of certain uses only.  `NoLostWakeup` and
`NoMutualWait` assume `OneWay`, that the application posts or the remote has
input but not both, which is how `VisDataMux` uses a channel: with both, the two
threads deadlock at `MTQueueChannel.cc:174`.  The invariant is `Sleeping`: what
each thread sleeps for is still missing or the other is awake and on its way to
it, for each of the places where one sleeps, with `PostsDone`, `Cleared` and
`Drained` for the ways in which the worker leaves the queues behind when it
ends.  The application's condition alone is not inductive, since the worker
signals after the step in which it takes an event.  `ClosedAfterFlush` has its
condition in the property, that the application called `flush()` and posted nothing
since: a `close()` on its own may drop the queue (observation 4).  Its invariant
`Flushed` counts what was handed over against what was posted from the flush on.

`NodeCacheProofs` begins with what the cache needs of the identifiers: which fields
`setSubId`, `incrSubId` and `maskSubId` change, that an incremented identifier
differs from the old one in exactly the masked fields, and that the code's two
comparisons agree.

It then proves, for every acyclic forest, every policy, dependency
and outcome, with aborts, failures and cleared caches at any moment, that the
answers the client gets are fresh (`NoStaleAnswers`).  The one hypothesis is
`~CommandsRace`: a state is set between requests.  `node_cache_race` shows that
the hypothesis is needed.  Freshness of a cache is not inductive: a cache may
hold old evaluations as long as the next request misses it.  `IInv` therefore
says of every valid cache that each of its parts is of the node's present state
*or* the cache carries the state dependency and an older state id, that its
dependencies cover the fields its parts have seen, and that whatever a parent
has cached is marked when anything under it is (the marks are closed upwards,
which is what lets `propagateStateDependency` stop early).  For parameters the
iteration takes the place of the state id.  Answers on their way to a parent
satisfy the same of the present request.

`SharedNodesComputeOnce` proves `SharedNodeComputesOnce` under `Steadfast`: shared
nodes keep results, no result is a wait, and only leaves have their caches
cleared.  States may be set at any moment.  The invariant `DoneWith` says of a
node that has come to its result that its cache is kept for this request or
every parent has the answer already (`Over`), and that it has had no more hints
than parents that have come to their own results; so when the hints reach the
number of parents, all of them have.  That a parent gives one hint only is the
same statement of the parent, whence it is proved of all nodes at once.  Each
hypothesis is there because a node gives its hint whenever it comes to a result:
a shared parent with `CACHE_NEVER`, one that is polled again because a sibling's
result was a wait, or one whose cache was cleared meanwhile does so twice
(observation 9).

`UpdatesAreNotKeptBack` proves `UpdatesReachParameters` under `OneRoot`: requests
come to one root.  An update passes by a node that serves it from the cache or
ignores it (`Node.cc:538`), so every cache must be known to have either the
iteration among its dependencies or no parameter under it.  `Heeding` says so of
caches and answers, with a failed rider behind them as the exception; but it can
be said only of those made for values or derivatives.  In an update alone, a
parameter that its second parent asks reports no dependency on the iteration
(`OwnDeps`), the parent keeps a result without it, and would ignore the next
update.  `Exposing` is why none is there by then: a cache that an update alone has
left is reached from the root through nodes without a result or with one of the
same kind (`Exposed`, the least set closed under `Leads`), so that the next
request for derivatives, which such a cache never answers, replaces it before it
closes the root.  `Reaching` then follows the update upwards: whatever has been
answered or cached in its iteration has every parameter under it updated, unless
an answer on its way to the root is bad (`SpoiltFor`).  `NoneAssumption` lets the
provers tell an issued request from none.  The hypothesis is needed, since the
client of the model, unlike a solver, may send the update to another root than
the request for derivatives before it.  With the roots `left`, `right` and `top`
of the diamond, a parameter that keeps no result and a `left` that always does,
TLC finds derivatives for `left`, an update through `top` in which `right` reaches
the parameter first, derivatives for `right`, and an update that `left` ignores.

`GatewayProofs` begins with lemmas about the operators of `MessageQueue`: both put
one message in, lose none and keep the order of priorities.  It proves, for any
number of workers, letters and crashes,

    IInv == TypeOK, PriorityOrder, OnePlace, Stages, Hands, ByeOnce, Wakeful

`PriorityOrder` is what the shortcuts of `enqueue` rely on, so it is needed to
know that the message is put in at all.  `OnePlace` follows each message through
queue and hands; `Hands` says that a worker that has put a message back knows it
by its mark.  `Wakeful` is the reason for `NoStrandedHead`: a head that is news is
seen by a worker that has not gone back to sleep, or the flag is raised *and* a
woken worker will find it.  Either alone is not inductive, since any worker may
reset the flag.  `Stages` says which threads exist when, and gives
`NoneSleepsAtJoin`.  The assumptions are distinct messages and at least one
worker.

`ServerLoopProofs` proves type correctness of `ServerLoop` and `SomebodyStands`,
for any number of helpers, execution states, commands and masks, with `EntryStays`
as the strengthening: the execution thread answers the head of a queue, which
must not be empty, from four places.  `SomebodyStands` is inductive with the
types: the flag is raised by a thread that stays, and a thread leaves only when it
is cleared.

Only model-checked: liveness (`EveryRequestAnswered`, `CallsReturn`,
`LettersLeave`, `HaltEnds`, `CommandsAnswered`), which is outside the provers'
reach.  Every other property of a passing run is a theorem.  What the folds and
`CHOOSE`s of these modules compute is proved only where a lemma says so.

## 5. Findings

Shown by a run that expects a violation:

1. `NodeNursery.cc:461` (`nursery_abandon`) wakes the owner of an abandoned poll
   only if the count of results is complete.  Abandoning drops results, so it
   never is.
2. `Node.cc:612` (`node_cache_race`): `cacheResult` clears the mark that
   `setState` has put on the parent since the child answered; the parent's
   cache then serves the old state.
3. `MTGatewayWP2.cc:367` (`gateway_order`): the locks that keep writers from
   overtaking each other are taken after the queue's lock is released, so that
   letters of one priority may be written in the wrong order.
4. `MeqServer.cc:1142` (`server_reply`): `clear_stop_flag_` belongs to no command.
   The execution thread, ending an aborted execution, may clear the stop flag
   for the main thread, which then replies without the lock; a thread may stop
   again before that reply, which the comment there says the lock prevents.

Observed while modelling, without a run of their own:

1. `MTPool.cc:258` lets a busy thread through at `max_busy_` (comment: at most
   `max_busy_`); `DepthLimit` states the limit that holds.
2. `MTQueueChannel.cc:271` waits for an event after the remote has closed.
3. `MTQueueChannel.cc:121` repeats the loop it was meant to leave, holding the
   mutex.
4. `MTQueueChannel.cc:317`: `close()` drops queued output.  The header says that
   it "flushes output events" (`MTQueueChannel.h:74`), and so does the comment at
   line 321, but the state is CLOSED before `flush()` is called at line 323, and a
   worker that finds it so closes the remote and clears the queue (lines 128-132);
   the flush then ends on an empty queue.  `queue_output` has such closes, and with
   `flushed` left out of `CloseAfterFlush` TLC finds the dropped event in it.  A
   `flush()` before the `close()` is enough, and `VisDataMux.cc:788` has one; line
   149, which closes a channel that is replaced, has none.
5. `NodeNursery.cc:436` cannot tell a late result of an aborted poll from one of
   the next poll of the nursery, and `NodeNursery.cc:630` does not reset
   `abandon_`, so that a background poll after an aborted one is not waited for.
   The passing runs have one request where there is an abort.
6. `MTGatewayWP.cc:455` says that the workers can receive messages once the link
   is open; the repoll that tells them may be consumed by a worker that finds
   the queue empty while another holds a letter.  The heartbeat makes up for it
   (`LettersLeave`).
7. `Node.cc:1291`: a thread looks at the stop flag only if it has seen the abort
   flag.  The comments there ("do check if forest is stopped at a breakpoint in
   another thread") and at `Forest.h:175` say that the other threads stop too.
   `MeetNone` follows the code.
8. `MeqServer.cc:1009`: the status in a reply is computed before the reply is
   posted, without a lock, and may be older than an event posted meanwhile.
9. `Node.cc:741` counts hints, not parents: a parent that is executed twice in a
   request gives two, and the cache may go while another parent has yet to ask.
   The result is computed again; no answer is wrong (`NoStaleAnswers`).
10. `Node.cc:1184`: the fail cached for a rider that throws depends on the type
   alone, so that the node answers every later iteration of the solver from it,
   and ignores the last update (`Node.cc:538`) with the return code 0, as do the
   parents that failed with it.  `Solver.cc:1036` skips a child that fails and goes
   on, so that such an update is sent when other children gave equations.
   `UpdatesReachParameters` excepts answers with a failed rider behind them,
   those of ignored updates among them (`lost`).

## 6. Plan

Done: `Brigade`, `NurseryPoll`, `QueueChannel`, `RequestId`, `NodeCache`,
`MessageQueue`, `GatewayWP`, `ServerLoop`, with the proofs of section 4.  What
would come next:

1. The asynchronous poll of the Solver in `NurseryPoll`.
2. OCTOPUSSY: processes that the dispatcher polls, its own loop, the routing
   tables of gateways with their two locks.
3. A second opening of a channel, masks, and the two channels of `VisDataMux`.
4. Counted references (`CountedRefBase`), whose moves read a target before they
   lock it.

### Not modelled

Numerical content (data types, most nodes), files and sockets (parameter
tables, streams), scripts and user interface, generated tables, MPI.
`PROJECT.json` has a note for each component.  Of the modelled components:
`NodeCache` leaves out `RES_IGNORE_TYPE`, the discovery of spids, inactive
nodes, disabled children, nodes whose `pollChildren` changes the request, and
publishing; `GatewayWP` leaves out `REQUEUE`, which no threaded process returns,
`dequeue`, subscriptions, the framing of blocks and the first message of a link;
`ServerLoop` leaves out commands that change the forest, the wait for the queue
by calls from Python, and the threads' own children.
