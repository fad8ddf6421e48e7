------------------------------- MODULE Brigade -------------------------------
(***************************************************************************)
(* The thread pool of the MEQ kernel: class Meq::MTPool::Brigade           *)
(* (MEQ/src/MTPool.h, MEQ/src/MTPool.cc).                                  *)
(*                                                                         *)
(* A brigade owns one LIFO queue of work orders, a vector counting how     *)
(* many orders are being executed at each tree depth, a counter of idle    *)
(* workers, and a condition variable.  Its mutex is held over each of the  *)
(* critical sections below, so each of them is one action.  The threads    *)
(* of the pool take orders in workerLoop; a thread that is executing a     *)
(* node and polls its children places orders and then helps itself to the  *)
(* queue through getWorkOrder(false,mindepth).                             *)
(*                                                                         *)
(* What the orders are for is left to the clients (module NurseryPoll);    *)
(* here a client may place, help itself, finish and clear in any order the *)
(* locking allows, which is more than the real clients do.                 *)
(***************************************************************************)
EXTENDS Integers, Sequences, FiniteSets

CONSTANTS
  Thread,     \* threads that may ever belong to the brigade (bounds spawning)
  Crew,       \* the workers started by the constructor (nwork of them)
  Joiner,     \* threads that call join(BUSY,0): the execution thread
  NoThread,   \* "no thread"
  Order,      \* identities of work order objects; a deleted one is reused
  Client,     \* the nurseries that place orders
  DepthOf,    \* AbstractWorkOrder::depth_
  ClientOf,   \* WorkOrder::clientref
  Batch,      \* order sequences a client puts on the queue in one go
  MaxDepth,   \* deepest tree level (bound; the code grows nthr_ as needed)
  MaxBusy     \* max_busy_

Depth == 0..MaxDepth

ASSUME ThreadAssumption ==
  /\ IsFiniteSet(Thread)
  /\ NoThread \notin Thread
  /\ Crew \subseteq Thread
  /\ Joiner \subseteq Thread
  /\ Crew \cap Joiner = {}

ASSUME OrderAssumption ==
  /\ IsFiniteSet(Order)
  /\ DepthOf \in [Order -> Depth]
  /\ ClientOf \in [Order -> Client]

\* A batch is what one poll places: distinct orders, all at the same depth.
ASSUME BatchAssumption ==
  /\ Batch \subseteq Seq(Order)
  /\ \A os \in Batch :
        /\ os # <<>>
        /\ \A i, j \in 1..Len(os) : i # j => os[i] # os[j]
        /\ \A i \in 1..Len(os) : DepthOf[os[i]] = DepthOf[os[1]]

ASSUME LimitAssumption == MaxDepth \in Nat /\ MaxBusy \in Nat \ {0}

VARIABLES
  queue,      \* wo_queue_, front first
  nthr,       \* nthr_: orders in execution, by depth
  nidle,      \* nidle_
  wstate,     \* WorkerData::state; "none" before the thread joins or is spawned
  asleep,     \* threads blocked in cond().wait()
  holder      \* which thread owns (executes) an order, NoThread if none does

vars == <<queue, nthr, nidle, wstate, asleep, holder>>

ThreadState == {"none", "IDLE", "BUSY"}

TypeOK ==
  /\ queue \in Seq(Order)
  /\ nthr \in [Depth -> Nat]
  /\ nidle \in Nat
  /\ wstate \in [Thread -> ThreadState]
  /\ asleep \subseteq Thread
  /\ holder \in [Order -> Thread \cup {NoThread}]

-----------------------------------------------------------------------------
Queued(o) == \E i \in 1..Len(queue) : queue[i] = o

HeldBy(t) == {o \in Order : holder[o] = t}

\* The thread runs no node that is at depth m or deeper, so that it may poll
\* at depth m: nodes poll their children one level below their own.
PollsAt(t, m) == /\ wstate[t] = "BUSY"
                 /\ t \in Joiner \/ HeldBy(t) # {}
                 /\ \A o \in HeldBy(t) : DepthOf[o] < m

Init ==
  /\ queue = <<>>
  /\ nthr = [d \in Depth |-> 0]
  /\ nidle = Cardinality(Crew)
  /\ wstate = [t \in Thread |-> IF t \in Crew THEN "IDLE" ELSE "none"]
  /\ asleep = {}
  /\ holder = [o \in Order |-> NoThread]

-----------------------------------------------------------------------------
(* Brigade::awakenWorker, called with the pool in the state given by the    *)
(* arguments.  A signal wakes one sleeper, and is lost when nobody sleeps.  *)
(* A new thread starts IDLE, and is counted idle before it runs.            *)
MayAwaken(q, n) == q # <<>> /\ n[DepthOf[Head(q)]] < MaxBusy

AwakenNobody(q, n, i, ws, sl) ==
  /\ ~ MayAwaken(q, n)
  /\ nidle' = i /\ wstate' = ws /\ asleep' = sl

AwakenNewWorker(q, n, i, ws, sl) ==
  /\ MayAwaken(q, n)
  /\ i = 0
  /\ LET unborn == {t \in Thread \ Joiner : ws[t] = "none"} IN
       IF unborn = {}                    \* the model's bound on threads
       THEN nidle' = i /\ wstate' = ws
       ELSE \E t \in unborn :
              nidle' = i + 1 /\ wstate' = [ws EXCEPT ![t] = "IDLE"]
  /\ asleep' = sl

AwakenSleeper(q, n, i, ws, sl) ==
  /\ MayAwaken(q, n)
  /\ i # 0
  /\ nidle' = i /\ wstate' = ws
  /\ IF sl = {} THEN asleep' = sl ELSE \E t \in sl : asleep' = sl \ {t}

AwakenWorker(q, n, i, ws, sl) ==
  \/ AwakenNobody(q, n, i, ws, sl)
  \/ AwakenNewWorker(q, n, i, ws, sl)
  \/ AwakenSleeper(q, n, i, ws, sl)

\* Mutants: no limit on a thread that is busy already; mindepth not looked at.
UnlimitedBusy(t, d) == wstate[t] = "IDLE" /\ nthr[d] >= MaxBusy

(* The tests of getWorkOrder at the head of queue q: an idle worker is held *)
(* back from MaxBusy on, a busy thread only above MaxBusy.                  *)
TooManyBusy(t, d) ==
  IF wstate[t] = "IDLE" THEN nthr[d] >= MaxBusy ELSE nthr[d] > MaxBusy

AvailableAnyDepth(t, q, mindepth) ==
  q # <<>> /\ ~ TooManyBusy(t, DepthOf[Head(q)])

Available(t, q, mindepth) ==
  /\ q # <<>>
  /\ DepthOf[Head(q)] >= mindepth
  /\ ~ TooManyBusy(t, DepthOf[Head(q)])

\* Mutants: the order stays on the queue; the head of a longer queue is taken
\* without waking anybody; every taker counts itself out of the idle ones.
TakeHeadWithoutPop(t, q) ==
  LET n1 == [nthr EXCEPT ![DepthOf[Head(q)]] = @ + 1] IN
  /\ queue' = q
  /\ nthr' = n1
  /\ holder' = [holder EXCEPT ![Head(q)] = t]
  /\ nidle' = IF wstate[t] = "IDLE" THEN nidle - 1 ELSE nidle
  /\ wstate' = [wstate EXCEPT ![t] = "BUSY"]
  /\ UNCHANGED asleep

TakeHeadQuietly(t, q) ==
  /\ queue' = Tail(q)
  /\ nthr' = [nthr EXCEPT ![DepthOf[Head(q)]] = @ + 1]
  /\ holder' = [holder EXCEPT ![Head(q)] = t]
  /\ nidle' = IF wstate[t] = "IDLE" THEN nidle - 1 ELSE nidle
  /\ wstate' = [wstate EXCEPT ![t] = "BUSY"]
  /\ UNCHANGED asleep

TakeHeadUncounting(t, q) ==
  /\ queue' = Tail(q)
  /\ nthr' = [nthr EXCEPT ![DepthOf[Head(q)]] = @ + 1]
  /\ holder' = [holder EXCEPT ![Head(q)] = t]
  /\ nidle' = nidle - 1
  /\ wstate' = [wstate EXCEPT ![t] = "BUSY"]
  /\ UNCHANGED asleep

(* The successful exit of getWorkOrder: the caller stops being idle, pops   *)
(* the head of q, is counted at its depth, and wakes up another worker.     *)
TakeHead(t, q) ==
  LET o  == Head(q)
      n1 == [nthr EXCEPT ![DepthOf[o]] = @ + 1]
      i1 == IF wstate[t] = "IDLE" /\ nidle > 0 THEN nidle - 1 ELSE nidle
  IN /\ queue' = Tail(q)
     /\ nthr' = n1
     /\ holder' = [holder EXCEPT ![o] = t]
     /\ AwakenWorker(Tail(q), n1, i1, [wstate EXCEPT ![t] = "BUSY"], asleep)

-----------------------------------------------------------------------------
(* Brigade::join(BUSY,0).                                                   *)
Join(t) ==
  /\ t \in Joiner /\ wstate[t] = "none"
  /\ wstate' = [wstate EXCEPT ![t] = "BUSY"]
  /\ nthr' = [nthr EXCEPT ![0] = @ + 1]
  /\ UNCHANGED <<queue, nidle, asleep, holder>>

(* A worker between two orders, in workerLoop: getWorkOrder(true).          *)
InWorkerLoop(t) ==
  /\ t \notin Joiner /\ wstate[t] # "none" /\ t \notin asleep
  /\ HeldBy(t) = {}

WorkerTakes(t) ==
  /\ InWorkerLoop(t)
  /\ Available(t, queue, 0)
  /\ TakeHead(t, queue)

\* Mutant: a worker that goes back to sleep is counted idle again.
WorkerSleepsCounting(t) ==
  /\ InWorkerLoop(t)
  /\ ~ Available(t, queue, 0)
  /\ nidle' = nidle + 1
  /\ wstate' = [wstate EXCEPT ![t] = "IDLE"]
  /\ asleep' = asleep \cup {t}
  /\ UNCHANGED <<queue, nthr, holder>>

(* Nothing to take: the worker marks itself idle, unless it is, and sleeps. *)
WorkerSleeps(t) ==
  /\ InWorkerLoop(t)
  /\ ~ Available(t, queue, 0)
  /\ nidle' = IF wstate[t] = "IDLE" THEN nidle ELSE nidle + 1
  /\ wstate' = [wstate EXCEPT ![t] = "IDLE"]
  /\ asleep' = asleep \cup {t}
  /\ UNCHANGED <<queue, nthr, holder>>

(* placeWorkOrder pushes on the front.  A batch is given first order first, *)
(* as it will stand on the queue.                                           *)
Placed(os) == os \o queue

Fresh(os) == \A i \in 1..Len(os) : ~ Queued(os[i]) /\ holder[os[i]] = NoThread

(* An asynchronous or background poll, or an execute request from another   *)
(* MPI process: place the orders, wake one worker.                          *)
PushAndAwaken(os) ==
  /\ queue' = Placed(os)
  /\ AwakenWorker(Placed(os), nthr, nidle, wstate, asleep)
  /\ UNCHANGED <<nthr, holder>>

PlaceAndAwaken(os) == PushAndAwaken(os) /\ Fresh(os)

(* A synchronous poll: place the orders and take one, in one critical       *)
(* section, or find too many threads busy at that depth.                    *)
PushAndTake(t, os) ==
  \/ /\ Available(t, Placed(os), DepthOf[os[1]])
     /\ TakeHead(t, Placed(os))
  \/ /\ ~ Available(t, Placed(os), DepthOf[os[1]])
     /\ queue' = Placed(os)
     /\ UNCHANGED <<nthr, nidle, wstate, asleep, holder>>

PlaceAndTake(t, os) ==
  PushAndTake(t, os) /\ Fresh(os) /\ PollsAt(t, DepthOf[os[1]])

(* getWorkOrder(false,mindepth) by a thread that polls; when it returns 0   *)
(* nothing changes.                                                         *)
PollerTakes(t, mindepth) ==
  /\ PollsAt(t, mindepth)
  /\ Available(t, queue, mindepth)
  /\ TakeHead(t, queue)

\* Mutant: the count of busy threads is not lowered.
FinishUncounted(o) ==
  /\ holder' = [holder EXCEPT ![o] = NoThread]
  /\ UNCHANGED <<queue, nthr, nidle, wstate, asleep>>

(* finishWithWorkOrder.  Nobody is woken up.                                *)
FinishWithWorkOrder(o) ==
  /\ nthr' = [nthr EXCEPT ![DepthOf[o]] = IF @ > 0 THEN @ - 1 ELSE @]
  /\ holder' = [holder EXCEPT ![o] = NoThread]
  /\ UNCHANGED <<queue, nidle, wstate, asleep>>

(* A thread finishes what it took last.                                     *)
Finish(t, o) ==
  /\ o \in HeldBy(t)
  /\ \A p \in HeldBy(t) : DepthOf[p] <= DepthOf[o]
  /\ FinishWithWorkOrder(o)

(* clearQueue: drop the orders of client c, keep the rest in their order.   *)
ClearQueue(c) ==
  LET keep == {i \in 1..Len(queue) : ClientOf[queue[i]] # c} IN
  /\ \E pos \in [1..Cardinality(keep) -> keep] :
        /\ \A i, j \in 1..Cardinality(keep) : i < j => pos[i] < pos[j]
        /\ queue' = [i \in 1..Cardinality(keep) |-> queue[pos[i]]]
  /\ UNCHANGED <<nthr, nidle, wstate, asleep, holder>>

Next ==
  \/ \E t \in Thread : Join(t) \/ WorkerTakes(t) \/ WorkerSleeps(t)
  \/ \E os \in Batch : PlaceAndAwaken(os)
  \/ \E t \in Thread, os \in Batch : PlaceAndTake(t, os)
  \/ \E t \in Thread, m \in Depth : PollerTakes(t, m)
  \/ \E t \in Thread, o \in Order : Finish(t, o)
  \/ \E c \in Client : ClearQueue(c)

Spec == Init /\ [][Next]_vars

-----------------------------------------------------------------------------
(* Properties.                                                              *)

AtDepth(d) == {o \in Order : holder[o] # NoThread /\ DepthOf[o] = d}

Joined == {t \in Joiner : wstate[t] # "none"}

\* nthr_[d] counts the orders being executed at depth d, plus the threads that
\* joined at depth 0.  The counter is raised in getWorkOrder and lowered in
\* finishWithWorkOrder, by different critical sections.
BusyAccounting ==
  \A d \in Depth :
    nthr[d] = Cardinality(AtDepth(d)) + IF d = 0 THEN Cardinality(Joined) ELSE 0

\* nidle_ counts the workers in state IDLE, asleep or on their way to or from
\* sleep: awakenWorker decides from it whether to signal or to spawn.
IdleAccounting == nidle = Cardinality({t \in Thread : wstate[t] = "IDLE"})

\* At no depth are more than max_busy_+1 orders in execution, whatever the
\* clients place and clear: one above the limit awakenWorker applies, because
\* getWorkOrder lets a busy thread through at max_busy_ itself.
DepthLimit == \A d \in Depth : Cardinality(AtDepth(d)) <= MaxBusy + 1

\* An order is never on the queue twice, nor on the queue while a thread
\* executes it: otherwise finishWithWorkOrder would delete it under a user.
ExclusiveOrders ==
  /\ \A i, j \in 1..Len(queue) : queue[i] = queue[j] => i = j
  /\ \A i \in 1..Len(queue) : holder[queue[i]] = NoThread

\* A thread that helps itself while it polls only ever goes deeper, so that its
\* nested executions are at distinct depths and its call stack is bounded by
\* the depth of the tree.
DeeperOnly ==
  \A t \in Thread : \A o, p \in HeldBy(t) : DepthOf[o] = DepthOf[p] => o = p

\* No lost wakeup inside the pool, when max_busy_ is at least 2: once the orders
\* in execution are finished, a non-empty queue has a worker on its way to it.
NoStrandedOrders ==
  queue # <<>> /\ (\A o \in Order : holder[o] = NoThread)
    => \E t \in Thread : InWorkerLoop(t)
=============================================================================
