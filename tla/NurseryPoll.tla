----------------------------- MODULE NurseryPoll -----------------------------
(***************************************************************************)
(* Evaluation of a tree of nodes by the threads of a brigade: class        *)
(* Meq::NodeNursery (MEQ/src/NodeNursery.cc), the polling part of          *)
(* Meq::Node::execute (MEQ/src/Node.cc) and WorkOrder::execute             *)
(* (MEQ/src/MTPool.cc), on top of module Brigade.                          *)
(*                                                                         *)
(* The execution thread executes the root node once per request.  A node   *)
(* polls its children with syncPoll and its stepchildren with              *)
(* backgroundPoll.  When a nursery has two children or more the poll is    *)
(* multithreaded: one work order per child goes on the brigade's queue,    *)
(* workers and the polling thread itself execute the orders, and each      *)
(* result is dropped off in the nursery under child_poll_cond_.            *)
(*                                                                         *)
(* Every thread has a stack of frames, one per Node::execute() call it is  *)
(* inside of; a step of a thread is one critical section of its top frame. *)
(* Values are left out: a result is its set of failure flags.              *)
(***************************************************************************)
EXTENDS Integers, Sequences, FiniteSets, SequencesExt

CONSTANTS
  Thread, Crew, Joiner, NoThread, MaxDepth, MaxBusy,   \* see Brigade
  Node,
  Root,
  Kids,          \* children of a node, in polling order
  StepKids,      \* stepchildren of a node
  MtNode,        \* nodes with multithreaded polling enabled
  FailPolicy,    \* fail_policy_ of a node's children
  MissingPolicy, \* missing_data_policy_ of a node's children
  Verdicts,      \* what the nodes' getResult() may come up with, by request
  Rounds,        \* bound: number of requests given to the root
  MayAbort,      \* whether the abort flag of the forest may be raised
  Address,       \* addresses of the orders in use that are alike in all else (bound)
  NoOrder        \* "no order": a call made directly by the parent

Policy == {"CollectPropagate", "AbandonPropagate", "Ignore"}
Flag == {"FAIL", "MISSING", "ABORT"}   \* RES_FAIL, RES_MISSING, RES_ABORT

Nursery == Node \X {"children", "stepchildren"}

Members(nu) == IF nu[2] = "children" THEN Kids[nu[1]] ELSE StepKids[nu[1]]

Request == 1..Rounds

\* mt_checkBrigadeAvailability: only these nurseries place orders.
Multithreaded(nu) == nu[1] \in MtNode /\ Len(Members(nu)) > 1

Brigaded == {nu \in Nursery : Multithreaded(nu)}

Order == UNION {[nursery : {nu}, ichild : 1..Len(Members(nu)), depth : 1..MaxDepth,
                 req : Request, at : Address] : nu \in Brigaded}

DepthOf == [o \in Order |-> o.depth]
ClientOf == [o \in Order |-> o.nursery]

\* The orders a poll of nursery nu at depth d places: one per child, in polling
\* order.  (The code pushes them last child first, on the front.)
OrdersOf(nu, d, r, a) ==
  [i \in 1..Len(Members(nu)) |->
     [nursery |-> nu, ichild |-> i, depth |-> d, req |-> r, at |-> a]]

Batch == {OrdersOf(nu, d, r, a) : nu \in Brigaded, d \in 1..MaxDepth,
                                  r \in Request, a \in Address}

ASSUME NodeAssumption ==
  /\ Root \in Node
  /\ Kids \in [Node -> Seq(Node)] /\ StepKids \in [Node -> Seq(Node)]
  /\ MtNode \subseteq Node
  /\ FailPolicy \in [Node -> Policy] /\ MissingPolicy \in [Node -> Policy]
  /\ Verdicts \subseteq [Node -> [Request -> SUBSET {"FAIL", "MISSING"}]]
  /\ Rounds \in Nat \ {0} /\ MayAbort \in BOOLEAN
  /\ IsFiniteSet(Node) /\ IsFiniteSet(Address) /\ NoOrder \notin Order

\* The forest has no cycles, and no path down from a node is longer than the
\* depths the model has room for.
ASSUME ForestAssumption ==
  \E height \in [Node -> 0..MaxDepth] : \A nu \in Nursery :
    \A i \in 1..Len(Members(nu)) : height[Members(nu)[i]] < height[nu[1]]

\* MeqServer has one execution thread.
ASSUME ServerAssumption == \A t, u \in Joiner : t = u

VARIABLES
  queue, nthr, nidle, wstate, asleep, holder,   \* the brigade
  stack,      \* frames of every thread, innermost last
  executing,  \* nodes with executing_ set
  poll,       \* the mt. members of every nursery
  results,    \* childres of a node's poll: flags and request, by child
  verdict,    \* flags getResult() of a node returns for a request; never changes
  abortFlag,  \* the forest's abort flag
  round,      \* requests started
  answers     \* the flags returned for each request finished

pool == <<queue, nthr, nidle, wstate, asleep, holder>>
vars == <<pool, stack, executing, poll, results, verdict,
          abortFlag, round, answers>>

B == INSTANCE Brigade WITH Client <- Nursery

\* The pool's own assumptions; those on orders and batches follow from the above.
ASSUME PoolAssumption == B!ThreadAssumption /\ B!LimitAssumption

\* Where a thread stands in Node::execute and in the work order around it.
PC == {"enter", "poll", "serial", "help", "check", "asleep", "polled",
       "step", "stepserial", "evaluate", "wait", "waiting", "abort",
       "abortstep", "exit", "deliver", "dropoff", "clear", "finish"}

Frame == [node : Node, depth : 0..MaxDepth, order : Order \cup {NoOrder},
          req : Request, pc : PC, index : Nat, flags : SUBSET Flag]

NoResult == [flags |-> {}, req |-> 0]

Result == [flags : SUBSET Flag, req : 0..Rounds]

PollState == [mt : BOOLEAN, on : BOOLEAN, abandon : BOOLEAN,
              num : Nat, count : Nat, cumul : SUBSET Flag]

TypeOK ==
  /\ B!TypeOK
  /\ stack \in [Thread -> Seq(Frame)]
  /\ executing \subseteq Node
  /\ poll \in [Nursery -> PollState]
  /\ \A n \in Node : results[n] \in [1..Len(Kids[n]) -> Result]
  /\ verdict \in Verdicts
  /\ abortFlag \in BOOLEAN
  /\ round \in 0..Rounds
  /\ answers \in Seq(SUBSET Flag)

IdlePoll == [mt |-> FALSE, on |-> FALSE, abandon |-> FALSE,
             num |-> 0, count |-> 0, cumul |-> {}]

Init ==
  /\ B!Init
  /\ stack = [t \in Thread |-> <<>>]
  /\ executing = {}
  /\ poll = [nu \in Nursery |-> IdlePoll]
  /\ results = [n \in Node |-> [i \in 1..Len(Kids[n]) |-> NoResult]]
  /\ verdict \in Verdicts
  /\ abortFlag = FALSE
  /\ round = 0
  /\ answers = <<>>

-----------------------------------------------------------------------------
(* A new order gets an address that no order in use has.                    *)
Free(nu, d, r) == {a \in Address : B!Fresh(OrdersOf(nu, d, r, a))}

NewOrders(nu, d, r) == OrdersOf(nu, d, r, CHOOSE a \in Free(nu, d, r) : TRUE)

(* Frames.                                                                  *)
Call(n, d, o, r) == [node |-> n, depth |-> d, order |-> o, req |-> r,
                     pc |-> "enter", index |-> 1, flags |-> {}]

\* WorkOrder::execute calls execute() of the child the order is for.
OrderCall(o) == Call(Members(o.nursery)[o.ichild], o.depth, o, o.req)

\* A serial poll calls execute() of the i-th child.
ChildCall(f, nu, i) == Call(Members(nu)[i], f.depth + 1, NoOrder, f.req)

Top(t) == Last(stack[t])

At(t, pc) == stack[t] # <<>> /\ Top(t).pc = pc

WithTop(st, f) == Append(Front(st), f)

Goto(t, pc) == stack' = [stack EXCEPT ![t] = WithTop(@, [Top(t) EXCEPT !.pc = pc])]

GotoAndCall(t, pc, call) ==
  stack' = [stack EXCEPT
              ![t] = Append(WithTop(@, [Top(t) EXCEPT !.pc = pc]), call)]

Children(n) == <<n, "children">>
StepChildren(n) == <<n, "stepchildren">>

\* Mutant: off by one.
PollAlmostDone(nu) == poll[nu].count + 1 >= poll[nu].num \/ poll[nu].abandon

PollDone(nu) == poll[nu].count >= poll[nu].num \/ poll[nu].abandon

control == <<verdict, abortFlag, round, answers>>

-----------------------------------------------------------------------------
(* The execution thread: MeqServer::nodeExecute calls execute() of the root *)
(* at depth 0.  The abort flag is raised by the thread that takes commands. *)
Join(t) == B!Join(t) /\ UNCHANGED <<stack, executing, poll, results, control>>

NextRequest(t) ==
  /\ t \in Joiner /\ wstate[t] = "BUSY" /\ stack[t] = <<>>
  /\ round < Rounds
  /\ round' = round + 1
  /\ abortFlag' = FALSE
  /\ stack' = [stack EXCEPT ![t] = <<Call(Root, 0, NoOrder, round + 1)>>]
  /\ UNCHANGED <<pool, executing, poll, results, verdict, answers>>

RaiseAbort ==
  /\ MayAbort /\ ~ abortFlag /\ Len(answers) < round
  /\ abortFlag' = TRUE
  /\ UNCHANGED <<pool, stack, executing, poll, results, verdict, round, answers>>

(* A worker between two orders.                                             *)
WorkerTakes(t) ==
  /\ stack[t] = <<>> /\ B!WorkerTakes(t)
  /\ stack' = [stack EXCEPT ![t] = <<OrderCall(Head(queue))>>]
  /\ UNCHANGED <<executing, poll, results, control>>

WorkerSleeps(t) ==
  /\ stack[t] = <<>> /\ B!WorkerSleeps(t)
  /\ UNCHANGED <<stack, executing, poll, results, control>>

-----------------------------------------------------------------------------
\* Mutant: nobody waits.
EnterAtOnce(t) ==
  /\ At(t, "enter")
  /\ executing' = executing \cup {Top(t).node}
  /\ Goto(t, IF abortFlag THEN "abort" ELSE "poll")
  /\ UNCHANGED <<pool, poll, results, control>>

(* Node::execute: wait until no other thread executes the node, then look   *)
(* at the abort flag.  (Node caches are off: cache_policy is CACHE_NEVER.)  *)
Enter(t) ==
  /\ At(t, "enter") /\ Top(t).node \notin executing
  /\ executing' = executing \cup {Top(t).node}
  /\ Goto(t, IF abortFlag THEN "abort" ELSE "poll")
  /\ UNCHANGED <<pool, poll, results, control>>

(* syncPoll in a single thread, as when there are fewer than two children.  *)
SyncPollSerially(t) ==
  LET f == Top(t)  nu == Children(f.node) IN
  /\ At(t, "poll") /\ ~ Multithreaded(nu)
  /\ poll' = [poll EXCEPT ![nu].mt = FALSE, ![nu].cumul = {}]
  /\ IF Members(nu) = <<>> THEN Goto(t, "polled")
                           ELSE GotoAndCall(t, "serial", ChildCall(f, nu, 1))
  /\ UNCHANGED <<pool, executing, results, control>>

\* Mutant: the poller's own child is left out of the count of results.
FreshPollFromBelow(nu) ==
  [mt |-> TRUE, on |-> TRUE, abandon |-> FALSE, num |-> Len(Members(nu)),
   count |-> -1, cumul |-> {}]

FreshPoll(nu) ==
  [mt |-> TRUE, on |-> TRUE, abandon |-> FALSE, num |-> Len(Members(nu)),
   count |-> 0, cumul |-> {}]

(* syncPoll with a brigade: place an order per child and take one back.     *)
SyncPoll(t) ==
  LET f == Top(t)  nu == Children(f.node)
      os == NewOrders(nu, f.depth + 1, f.req)
  IN /\ At(t, "poll") /\ Multithreaded(nu)
     /\ Free(nu, f.depth + 1, f.req) # {}
     /\ poll' = [poll EXCEPT ![nu] = FreshPoll(nu)]
     /\ B!PushAndTake(t, os)
     /\ IF B!Available(t, B!Placed(os), f.depth + 1)
        THEN GotoAndCall(t, "help", OrderCall(os[1]))
        ELSE Goto(t, "check")
     /\ UNCHANGED <<executing, results, control>>

\* Mutant: the thread takes orders of any depth.
HelpAnybody(t) ==
  LET d == 0 IN
  /\ At(t, "help")
  /\ \/ /\ B!Available(t, queue, d) /\ B!TakeHead(t, queue)
        /\ GotoAndCall(t, "help", OrderCall(Head(queue)))
     \/ ~ B!Available(t, queue, d) /\ Goto(t, "check") /\ UNCHANGED pool
  /\ UNCHANGED <<executing, poll, results, control>>

(* The loop of syncPoll: take another order, or else look whether all have  *)
(* returned and sleep on child_poll_cond_ if they have not.                 *)
HelpYourself(t) ==
  LET d == Top(t).depth + 1 IN
  /\ At(t, "help")
  /\ \/ /\ B!Available(t, queue, d) /\ B!TakeHead(t, queue)
        /\ GotoAndCall(t, "help", OrderCall(Head(queue)))
     \/ ~ B!Available(t, queue, d) /\ Goto(t, "check") /\ UNCHANGED pool
  /\ UNCHANGED <<executing, poll, results, control>>

CheckPoll(t) ==
  /\ At(t, "check")
  /\ Goto(t, IF PollDone(Children(Top(t).node)) THEN "polled" ELSE "asleep")
  /\ UNCHANGED <<pool, executing, poll, results, control>>

Ignored(n) == (IF FailPolicy[n] = "Ignore" THEN {"FAIL"} ELSE {}) \cup
              (IF MissingPolicy[n] = "Ignore" THEN {"MISSING"} ELSE {})

(* The end of syncPoll, and the decision of pollChildren not to go on to    *)
(* the stepchildren.  (It asks failPolicy about missing data, too.)         *)
Polled(t) ==
  LET n == Top(t).node
      flags == IF abortFlag THEN {"ABORT"}
                            ELSE poll[Children(n)].cumul \ Ignored(n)
      stop == \/ "ABORT" \in flags
              \/ /\ flags \cap {"FAIL", "MISSING"} # {}
                 /\ FailPolicy[n] = "AbandonPropagate"
  IN /\ At(t, "polled")
     /\ stack' = [stack EXCEPT ![t] = WithTop(@,
          [Top(t) EXCEPT !.flags = flags,
                         !.pc = IF stop THEN "evaluate" ELSE "step"])]
     /\ UNCHANGED <<pool, executing, poll, results, control>>

(* backgroundPoll.  It does not reset abandon_.                             *)
BackgroundPollSerially(t) ==
  LET f == Top(t)  nu == StepChildren(f.node) IN
  /\ At(t, "step") /\ ~ Multithreaded(nu)
  /\ poll' = [poll EXCEPT ![nu].mt = FALSE]
  /\ IF Members(nu) = <<>> THEN Goto(t, "evaluate")
                           ELSE GotoAndCall(t, "stepserial", ChildCall(f, nu, 1))
  /\ UNCHANGED <<pool, executing, results, control>>

BackgroundPoll(t) ==
  LET f == Top(t)  nu == StepChildren(f.node) IN
  /\ At(t, "step") /\ Multithreaded(nu)
  /\ Free(nu, f.depth + 1, f.req) # {}
  /\ poll' = [poll EXCEPT ![nu] = [@ EXCEPT !.mt = TRUE, !.on = TRUE,
                                           !.num = Len(Members(nu)), !.count = 0]]
  /\ B!PushAndAwaken(NewOrders(nu, f.depth + 1, f.req))
  /\ Goto(t, "evaluate")
  /\ UNCHANGED <<executing, results, control>>

(* The rest of execute(): abort, pass on the failure of a child, or call    *)
(* getResult(); cacheResult() drops the results of the children.            *)
Evaluate(t) ==
  LET f == Top(t)
      flags == IF f.flags \cap {"FAIL", "MISSING"} # {} THEN f.flags
               ELSE f.flags \cup verdict[f.node][f.req]
  IN /\ At(t, "evaluate") /\ ~ abortFlag
     /\ stack' = [stack EXCEPT ![t] = WithTop(@, [f EXCEPT !.flags = flags,
                                                          !.pc = "wait"])]
     /\ results' = [results EXCEPT ![f.node] = [i \in DOMAIN @ |-> NoResult]]
     /\ UNCHANGED <<pool, executing, poll, control>>

EvaluateAborted(t) ==
  /\ At(t, "evaluate") /\ abortFlag
  /\ Goto(t, "abort")
  /\ UNCHANGED <<pool, executing, poll, results, control>>

\* Mutant: the queue is not cleared.
AbortPollOnly(t, nu, next) ==
  /\ IF poll[nu].mt
     THEN /\ poll' = [poll EXCEPT ![nu].abandon = TRUE, ![nu].on = FALSE]
          /\ UNCHANGED pool
     ELSE UNCHANGED <<poll, pool>>
  /\ stack' = [stack EXCEPT ![t] = WithTop(@, [Top(t) EXCEPT !.flags = {"ABORT"},
                                                             !.pc = next])]
  /\ UNCHANGED <<executing, results, control>>

(* exitAbort: abortPoll of both nurseries.                                  *)
AbortPoll(t, nu, next) ==
  /\ IF poll[nu].mt
     THEN /\ poll' = [poll EXCEPT ![nu].abandon = TRUE, ![nu].on = FALSE]
          /\ B!ClearQueue(nu)
     ELSE UNCHANGED <<poll, pool>>
  /\ stack' = [stack EXCEPT ![t] = WithTop(@, [Top(t) EXCEPT !.flags = {"ABORT"},
                                                             !.pc = next])]
  /\ UNCHANGED <<executing, results, control>>

AbortChildren(t) ==
  At(t, "abort") /\ AbortPoll(t, Children(Top(t).node), "abortstep")

AbortStepChildren(t) ==
  At(t, "abortstep") /\ AbortPoll(t, StepChildren(Top(t).node), "wait")

\* Mutant: finishPoll does not wait.
LeaveWithoutWaiting(t) ==
  /\ At(t, "wait") /\ Goto(t, "exit")
  /\ UNCHANGED <<pool, executing, poll, results, control>>

(* exitExecute: finishPoll waits for the background poll to end, helping    *)
(* itself to orders meanwhile.  (The children's own poll is over by now.)   *)
WaitForEndOfPoll(t) ==
  LET f == Top(t)  nu == StepChildren(f.node) IN
  /\ At(t, "wait")
  /\ \/ /\ ~ poll[nu].mt \/ PollDone(nu)
        /\ Goto(t, "exit") /\ UNCHANGED pool
     \/ /\ poll[nu].mt /\ ~ PollDone(nu)
        /\ \/ /\ B!Available(t, queue, f.depth + 1) /\ B!TakeHead(t, queue)
              /\ GotoAndCall(t, "wait", OrderCall(Head(queue)))
           \/ /\ ~ B!Available(t, queue, f.depth + 1)
              /\ Goto(t, "waiting") /\ UNCHANGED pool
  /\ UNCHANGED <<executing, poll, results, control>>

(* The end of exitExecute.  A call made by a work order goes on to deliver  *)
(* the result; a call made by a serial poll returns to it; the root's       *)
(* returns to the server.                                                   *)
ResultOf(f) == [flags |-> f.flags, req |-> f.req]

\* Whether a child's return code ends a poll: a multithreaded one is abandoned, a
\* serial one goes no further.
EndsPoll(nu, flags) ==
  \/ "FAIL" \in flags /\ FailPolicy[nu[1]] = "AbandonPropagate"
  \/ /\ "MISSING" \in flags /\ "FAIL" \notin flags
     /\ MissingPolicy[nu[1]] = "AbandonPropagate"
  \/ flags = {"ABORT"}

ReturnToOrder(t) ==
  /\ At(t, "exit") /\ Top(t).order # NoOrder
  /\ executing' = executing \ {Top(t).node}
  /\ Goto(t, "deliver")
  /\ UNCHANGED <<pool, poll, results, control>>

\* The caller's frame once its i-th child has returned: on to the next child,
\* or to pc.
AfterChild(caller, nu, stop, pc) ==
  IF stop \/ caller.index = Len(Members(nu))
  THEN <<[caller EXCEPT !.pc = pc, !.index = 1]>>
  ELSE <<[caller EXCEPT !.index = @ + 1], ChildCall(caller, nu, caller.index + 1)>>

ReturnToPoll(t) ==
  LET f      == Top(t)
      below  == Front(stack[t])
      caller == Last(below)
      nu     == Children(caller.node)
  IN /\ At(t, "exit") /\ f.order = NoOrder
     /\ below # <<>> /\ caller.pc = "serial"
     /\ executing' = executing \ {f.node}
     /\ results' = [results EXCEPT ![caller.node][caller.index] = ResultOf(f)]
     /\ poll' = [poll EXCEPT ![nu].cumul = @ \cup f.flags]
     /\ stack' = [stack EXCEPT ![t] = Front(below) \o
                    AfterChild(caller, nu, "ABORT" \in f.flags \/ EndsPoll(nu, f.flags),
                               "polled")]
     /\ UNCHANGED <<pool, control>>

ReturnToBackgroundPoll(t) ==
  LET f      == Top(t)
      below  == Front(stack[t])
      caller == Last(below)
      nu     == StepChildren(caller.node)
  IN /\ At(t, "exit") /\ f.order = NoOrder
     /\ below # <<>> /\ caller.pc = "stepserial"
     /\ executing' = executing \ {f.node}
     /\ stack' = [stack EXCEPT ![t] = Front(below) \o
                    AfterChild(caller, nu, "ABORT" \in f.flags, "evaluate")]
     /\ UNCHANGED <<pool, poll, results, control>>

Answer(t) ==
  /\ At(t, "exit") /\ Top(t).order = NoOrder /\ Len(stack[t]) = 1
  /\ executing' = executing \ {Top(t).node}
  /\ stack' = [stack EXCEPT ![t] = <<>>]
  /\ answers' = Append(answers, Top(t).flags)
  /\ UNCHANGED <<pool, poll, results, verdict, abortFlag, round>>

-----------------------------------------------------------------------------
(* Dropping off the result of an order in the nursery that placed it.       *)

\* The stacks after thread t goes to pc and, if wake holds, the thread asleep
\* on the child_poll_cond_ of nu wakes up.
Delivered(t, nu, wake, pc) ==
  [u \in Thread |->
     IF u = t THEN WithTop(stack[u], [Top(u) EXCEPT !.pc = pc])
     ELSE IF wake /\ stack[u] # <<>> /\ Top(u).node = nu[1] THEN
       CASE Top(u).pc = "asleep"  /\ nu[2] = "children" ->
              WithTop(stack[u], [Top(u) EXCEPT !.pc = "help"])
         [] Top(u).pc = "waiting" /\ nu[2] = "stepchildren" ->
              WithTop(stack[u], [Top(u) EXCEPT !.pc = "wait"])
         [] OTHER -> stack[u]
     ELSE stack[u]]

\* mt_receiveSyncChildResult: a result that comes after the poll is finished or
\* abandoned is dropped.
SyncResultDropped(t) ==
  LET nu == Top(t).order.nursery IN
  /\ At(t, "deliver") /\ nu[2] = "children"
  /\ ~ poll[nu].on \/ poll[nu].abandon
  /\ Goto(t, "finish")
  /\ UNCHANGED <<pool, executing, poll, results, control>>

\* Mutants: the owner is not woken up; only the last code is kept.
ReceiveSyncResultSilently(t) ==
  LET f == Top(t)  nu == f.order.nursery
      stop == EndsPoll(nu, f.flags)
  IN /\ At(t, "deliver") /\ nu[2] = "children"
     /\ poll[nu].on /\ ~ poll[nu].abandon
     /\ results' = [results EXCEPT ![nu[1]][f.order.ichild] = ResultOf(f)]
     /\ poll' = [poll EXCEPT ![nu].cumul = @ \cup f.flags,
                             ![nu].abandon = stop,
                             ![nu].count = @ + 1]
     /\ stack' = Delivered(t, nu, FALSE, IF stop THEN "clear" ELSE "finish")
     /\ UNCHANGED <<pool, executing, control>>

KeepLastCode(codes, flags) == flags

Accumulated(codes, flags) == codes \cup flags

\* Otherwise it is stored.  The owner is woken up by the last one only.
ReceiveSyncResult(t) ==
  LET f == Top(t)  nu == f.order.nursery
      stop == EndsPoll(nu, f.flags)
      last == poll[nu].count + 1 >= poll[nu].num
  IN /\ At(t, "deliver") /\ nu[2] = "children"
     /\ poll[nu].on /\ ~ poll[nu].abandon
     /\ results' = [results EXCEPT ![nu[1]][f.order.ichild] = ResultOf(f)]
     /\ poll' = [poll EXCEPT ![nu].cumul = Accumulated(@, f.flags),
                             ![nu].abandon = stop,
                             ![nu].count = @ + 1]
     /\ stack' = Delivered(t, nu, last, IF stop THEN "clear" ELSE "finish")
     /\ UNCHANGED <<pool, executing, control>>

ClearAbandoned(t) ==
  /\ At(t, "clear")
  /\ B!ClearQueue(Top(t).order.nursery)
  /\ Goto(t, "finish")
  /\ UNCHANGED <<executing, poll, results, control>>

\* mt_receiveBackgroundResult: polling_ is read before the lock is taken.
LookAtBackgroundPoll(t) ==
  LET nu == Top(t).order.nursery IN
  /\ At(t, "deliver") /\ nu[2] = "stepchildren"
  /\ Goto(t, IF poll[nu].on THEN "dropoff" ELSE "finish")
  /\ UNCHANGED <<pool, executing, poll, results, control>>

ReceiveBackgroundResult(t) ==
  LET nu == Top(t).order.nursery IN
  /\ At(t, "dropoff")
  /\ poll' = [poll EXCEPT ![nu].count = @ + 1]
  /\ stack' = Delivered(t, nu, poll[nu].count + 1 >= poll[nu].num, "finish")
  /\ UNCHANGED <<pool, executing, results, control>>

FinishOrder(t) ==
  /\ At(t, "finish")
  /\ B!FinishWithWorkOrder(Top(t).order)
  /\ stack' = [stack EXCEPT ![t] = Front(@)]
  /\ UNCHANGED <<executing, poll, results, control>>

-----------------------------------------------------------------------------
\* A step of a thread that is inside of some node.
ExecStep(t) ==
  \/ Enter(t)
  \/ SyncPoll(t) \/ SyncPollSerially(t) \/ HelpYourself(t) \/ CheckPoll(t)
  \/ Polled(t) \/ BackgroundPoll(t) \/ BackgroundPollSerially(t)
  \/ Evaluate(t) \/ EvaluateAborted(t) \/ AbortChildren(t) \/ AbortStepChildren(t)
  \/ WaitForEndOfPoll(t)
  \/ ReturnToOrder(t) \/ ReturnToPoll(t) \/ ReturnToBackgroundPoll(t) \/ Answer(t)
  \/ SyncResultDropped(t) \/ ReceiveSyncResult(t) \/ ClearAbandoned(t)
  \/ LookAtBackgroundPoll(t) \/ ReceiveBackgroundResult(t) \/ FinishOrder(t)

ThreadStep(t) ==
  Join(t) \/ NextRequest(t) \/ WorkerTakes(t) \/ WorkerSleeps(t) \/ ExecStep(t)

\* All requests the model gives out are answered: the server waits for commands.
NoMoreRequests ==
  /\ Len(answers) = Rounds
  /\ \A t \in Thread : stack[t] = <<>>
  /\ UNCHANGED vars

Next == (\E t \in Thread : ThreadStep(t)) \/ RaiseAbort \/ NoMoreRequests

Spec == Init /\ [][Next]_vars

\* The operating system runs every thread that can run, and the server comes to
\* the requests it is given.
FairSpec == Spec /\ \A t \in Thread : WF_vars(ThreadStep(t))

-----------------------------------------------------------------------------
(* Properties.                                                              *)

\* The brigade as the nurseries drive it does what module Brigade says: in
\* particular whatever is proved of Brigade!Spec holds here.
PoolBehaviour == B!Spec

Frames == UNION {{<<t, i>> : i \in 1..Len(stack[t])} : t \in Thread}
FrameAt(x) == stack[x[1]][x[2]]

Entered(f) == f.pc \notin {"enter", "deliver", "dropoff", "clear", "finish"}

\* No node is executed by two threads at once, or twice by one thread, and
\* executing_ is set exactly while a node is executed.
OneExecutionPerNode ==
  /\ \A x, y \in Frames :
       (Entered(FrameAt(x)) /\ Entered(FrameAt(y))
          /\ FrameAt(x).node = FrameAt(y).node) => x = y
  /\ executing = {FrameAt(x).node : x \in {y \in Frames : Entered(FrameAt(y))}}

\* When syncPoll ends without having been abandoned or aborted, every child has
\* dropped off the result of this very request (NodeNursery.h:187-192).
ResultsOfThisPoll ==
  \A t \in Thread :
    At(t, "polled") /\ ~ abortFlag /\ ~ poll[Children(Top(t).node)].abandon =>
      \A i \in 1..Len(Kids[Top(t).node]) :
        results[Top(t).node][i].req = Top(t).req

\* The codes that the nodes return to request r, given the verdicts v, in a
\* kernel with one thread that is not aborted: a node passes on what its
\* children's codes leave after its policies, or else has its own say.
SerialCodes(v, r) ==
  LET code[n \in Node] ==
        LET below == (UNION {code[Kids[n][i]] : i \in 1..Len(Kids[n])}) \ Ignored(n)
        IN  IF below = {} THEN v[n][r] ELSE below
  IN  code

SerialAnswer(r) == SerialCodes(verdict, r)[Root]

\* However the orders are distributed over the threads, the root returns the
\* codes a serial evaluation returns, or is aborted.  (For the policies that
\* poll all children.)
AnswersAreSerial ==
  \A r \in 1..Len(answers) :
    answers[r] = SerialAnswer(r) \/ (MayAbort /\ "ABORT" \in answers[r])

\* finishPoll waits (NodeNursery.h:273-275): when a node that is not aborted
\* leaves execute(), every order it placed for its children and stepchildren has
\* been carried out and its result dropped off.
NoOrderOutlivesItsPoll ==
  \A t \in Thread :
    At(t, "exit") /\ "ABORT" \notin Top(t).flags =>
      LET Ours(o) == o.nursery[1] = Top(t).node /\ o.req = Top(t).req IN
      /\ \A i \in 1..Len(queue) : ~ Ours(queue[i])
      /\ \A x \in Frames :
           FrameAt(x).order # NoOrder /\ FrameAt(x).pc \notin {"clear", "finish"}
             => ~ Ours(FrameAt(x).order)

\* An order refers to the nursery that placed it: it never stays on the queue
\* after the node has returned from execute(), aborted or not.
NoOrphanOrders == \A i \in 1..Len(queue) : queue[i].nursery[1] \in executing

\* Every request is answered: no wakeup of a polling thread is lost and no
\* thread waits for a node for ever.
EveryRequestAnswered == \A r \in Request : round >= r ~> Len(answers) >= r
=============================================================================
