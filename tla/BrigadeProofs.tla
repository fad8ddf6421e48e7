---------------------------- MODULE BrigadeProofs ----------------------------
(***************************************************************************)
(* What the thread pool guarantees for every number of threads, orders and *)
(* levels, proved from the assumptions of module Brigade.                  *)
(*                                                                         *)
(* The safety properties of Brigade hold one another up: an order is       *)
(* counted right only if nobody else holds it, which follows from the      *)
(* queue having no duplicates; the idle count is right only if no thread   *)
(* that holds an order goes idle.  Their conjunction, with these two facts *)
(* about threads, is inductive.                                            *)
(***************************************************************************)
EXTENDS Brigade, TLAPS, FiniteSetTheorems, SequenceTheorems

SleepersAreIdle == \A t \in asleep : wstate[t] = "IDLE"

HoldersAreBusy == \A o \in Order : holder[o] # NoThread => wstate[holder[o]] = "BUSY"

Inv ==
  /\ TypeOK
  /\ ExclusiveOrders
  /\ SleepersAreIdle
  /\ HoldersAreBusy
  /\ IdleAccounting
  /\ BusyAccounting
  /\ DepthLimit
  /\ DeeperOnly

-----------------------------------------------------------------------------
IdleIn(ws) == {t \in Thread : ws[t] = "IDLE"}

\* A set of threads is finite: it can be counted.
LEMMA FiniteThreads ==
  ASSUME NEW S, S \subseteq Thread
  PROVE  IsFiniteSet(S) /\ Cardinality(S) \in Nat
BY ThreadAssumption, FS_Subset, FS_CardinalityType

\* ... and so is a set of orders.
LEMMA FiniteOrders ==
  ASSUME NEW S, S \subseteq Order
  PROVE  IsFiniteSet(S) /\ Cardinality(S) \in Nat
BY OrderAssumption, FS_Subset, FS_CardinalityType

\* awakenWorker keeps the idle count right, wakes up only sleepers, and changes
\* no thread but one that did not exist.
LEMMA AwakenWorkerCounts ==
  ASSUME NEW q, NEW n, NEW i \in Nat,
         NEW ws \in [Thread -> ThreadState],
         NEW sl \in SUBSET Thread,
         i = Cardinality(IdleIn(ws)),
         AwakenWorker(q, n, i, ws, sl)
  PROVE  /\ nidle' \in Nat /\ nidle' = Cardinality(IdleIn(wstate'))
         /\ wstate' \in [Thread -> ThreadState]
         /\ asleep' \subseteq sl
         /\ \A t \in Thread :
              \/ wstate'[t] = ws[t]
              \/ ws[t] = "none" /\ wstate'[t] = "IDLE" /\ t \notin Joiner
<1>1. CASE AwakenNobody(q, n, i, ws, sl)
  BY <1>1 DEF AwakenNobody
<1>2. CASE AwakenNewWorker(q, n, i, ws, sl)
  <2> DEFINE unborn == {t \in Thread \ Joiner : ws[t] = "none"}
  <2>1. CASE unborn = {}
    BY <1>2, <2>1 DEF AwakenNewWorker
  <2>2. CASE unborn # {}
    <3>1. PICK t \in unborn : nidle' = i + 1 /\ wstate' = [ws EXCEPT ![t] = "IDLE"]
      BY <1>2, <2>2 DEF AwakenNewWorker
    <3>2. IdleIn(wstate') = IdleIn(ws) \cup {t} /\ t \notin IdleIn(ws)
      BY <3>1 DEF IdleIn, ThreadState
    <3>3. Cardinality(IdleIn(wstate')) = i + 1
      BY <3>2, FS_AddElement, FiniteThreads, IdleIn(ws) \subseteq Thread DEF IdleIn
    <3>4. asleep' = sl
      BY <1>2 DEF AwakenNewWorker
    <3>5. wstate' \in [Thread -> ThreadState]
      BY <3>1 DEF ThreadState
    <3> QED BY <3>1, <3>3, <3>4, <3>5
  <2> QED BY <2>1, <2>2
<1>3. CASE AwakenSleeper(q, n, i, ws, sl)
  BY <1>3 DEF AwakenSleeper
<1> QED BY <1>1, <1>2, <1>3 DEF AwakenWorker

-----------------------------------------------------------------------------
\* The constructor establishes the invariant: nwork idle threads, empty queue.
THEOREM InitInv == Init => Inv
<1> SUFFICES ASSUME Init PROVE Inv
  OBVIOUS
<1> USE DEF Init
<1>1. TypeOK
  <2>1. nidle \in Nat
    BY FiniteThreads, ThreadAssumption
  <2> QED BY <2>1 DEF TypeOK, ThreadState
<1>2. \A t \in Thread : HeldBy(t) = {}
  BY ThreadAssumption DEF HeldBy
<1>3. IdleAccounting
  <2>1. {t \in Thread : wstate[t] = "IDLE"} = Crew
    BY ThreadAssumption
  <2> QED BY <2>1 DEF IdleAccounting
<1>4. \A d \in Depth : AtDepth(d) = {}
  BY DEF AtDepth
<1>5. Joined = {}
  BY ThreadAssumption DEF Joined
<1>e. Cardinality({}) = 0
  BY FS_EmptySet
<1>6. BusyAccounting
  <2> SUFFICES ASSUME NEW d \in Depth
      PROVE  nthr[d] = Cardinality(AtDepth(d))
                         + IF d = 0 THEN Cardinality(Joined) ELSE 0
    BY DEF BusyAccounting
  <2>1. Cardinality(AtDepth(d)) = 0 /\ Cardinality(Joined) = 0
    BY <1>e, <1>4, <1>5
  <2> QED BY <2>1
<1>7. DepthLimit
  <2> SUFFICES ASSUME NEW d \in Depth PROVE Cardinality(AtDepth(d)) <= MaxBusy + 1
    BY DEF DepthLimit
  <2>1. Cardinality(AtDepth(d)) = 0
    BY <1>e, <1>4
  <2> QED BY <2>1, LimitAssumption
<1>8. ExclusiveOrders /\ SleepersAreIdle /\ HoldersAreBusy /\ DeeperOnly
  BY <1>2 DEF ExclusiveOrders, SleepersAreIdle, HoldersAreBusy, DeeperOnly
<1> QED BY <1>1, <1>3, <1>6, <1>7, <1>8 DEF Inv

-----------------------------------------------------------------------------
\* Queues from which an order may be taken: no duplicates, nothing in execution.
Unheld(q) ==
  /\ q \in Seq(Order)
  /\ \A i, j \in 1..Len(q) : q[i] = q[j] => i = j
  /\ \A i \in 1..Len(q) : holder[q[i]] = NoThread

\* Taking the front order off such a queue leaves such a queue without it.
LEMMA HeadAndTail ==
  ASSUME NEW q, Unheld(q), q # <<>>
  PROVE  /\ Head(q) \in Order /\ holder[Head(q)] = NoThread
         /\ Tail(q) \in Seq(Order)
         /\ \A i, j \in 1..Len(Tail(q)) : Tail(q)[i] = Tail(q)[j] => i = j
         /\ \A i \in 1..Len(Tail(q)) :
              Tail(q)[i] # Head(q) /\ holder[Tail(q)[i]] = NoThread
<1>1. q \in Seq(Order) /\ Len(q) \in Nat /\ Len(q) >= 1 /\ Head(q) = q[1]
  BY DEF Unheld
<1>2. /\ Tail(q) \in Seq(Order) /\ Len(Tail(q)) = Len(q) - 1
      /\ \A i \in 1..Len(Tail(q)) : Tail(q)[i] = q[i + 1]
  BY <1>1, HeadTailProperties
<1>3. Head(q) \in Order
  BY <1>1, HeadTailProperties
<1>4. holder[Head(q)] = NoThread
  BY <1>1 DEF Unheld
<1>5. ASSUME NEW i \in 1..Len(Tail(q))
      PROVE  /\ i + 1 \in 1..Len(q) /\ Tail(q)[i] = q[i + 1]
             /\ Tail(q)[i] # Head(q) /\ holder[Tail(q)[i]] = NoThread
  <2>1. i + 1 \in 1..Len(q) /\ 1 \in 1..Len(q) /\ i + 1 # 1
    BY <1>1, <1>2
  <2> QED BY <1>1, <1>2, <2>1 DEF Unheld
<1>6. ASSUME NEW i \in 1..Len(Tail(q)), NEW j \in 1..Len(Tail(q)),
             Tail(q)[i] = Tail(q)[j]
      PROVE  i = j
  <2>1. q[i + 1] = q[j + 1]
    BY <1>5, <1>6
  <2>2. i + 1 = j + 1
    BY <1>5, <2>1 DEF Unheld
  <2>3. i \in Nat /\ j \in Nat
    BY <1>1, <1>2
  <2> QED BY <2>2, <2>3
<1> QED BY <1>2, <1>3, <1>4, <1>5, <1>6

\* The order taken is added to those at its depth, one more than were counted.
LEMMA OneMoreAtDepth ==
  ASSUME Inv, NEW t \in Thread, NEW o \in Order, holder[o] = NoThread,
         holder' = [holder EXCEPT ![o] = t],
         nthr' = [nthr EXCEPT ![DepthOf[o]] = @ + 1],
         Joined' = Joined, nthr[DepthOf[o]] <= MaxBusy
  PROVE  BusyAccounting' /\ DepthLimit'
<1> USE OrderAssumption, LimitAssumption
<1>0. /\ holder \in [Order -> Thread \cup {NoThread}] /\ nthr \in [Depth -> Nat]
      /\ DepthOf[o] \in Depth /\ t # NoThread
  BY ThreadAssumption DEF Inv, TypeOK
<1>1. ASSUME NEW d \in Depth
      PROVE  /\ nthr'[d] = Cardinality(AtDepth(d)')
                            + IF d = 0 THEN Cardinality(Joined') ELSE 0
             /\ Cardinality(AtDepth(d)') <= MaxBusy + 1
  <2>1. IsFiniteSet(AtDepth(d)) /\ Cardinality(AtDepth(d)) \in Nat
    BY FiniteOrders, AtDepth(d) \subseteq Order DEF AtDepth
  <2>2. Cardinality(Joined) \in Nat
    BY FiniteThreads, ThreadAssumption, Joined \subseteq Thread DEF Joined
  <2>3. /\ nthr[d] = Cardinality(AtDepth(d)) + IF d = 0 THEN Cardinality(Joined) ELSE 0
        /\ Cardinality(AtDepth(d)) <= MaxBusy + 1
    BY DEF Inv, BusyAccounting, DepthLimit
  <2>4. CASE d = DepthOf[o]
    <3>1. AtDepth(d)' = AtDepth(d) \cup {o} /\ o \notin AtDepth(d)
      BY <1>0, <2>4 DEF AtDepth
    <3>2. Cardinality(AtDepth(d)') = Cardinality(AtDepth(d)) + 1
      BY <2>1, <3>1, FS_AddElement
    <3>3. nthr'[d] = nthr[d] + 1 /\ nthr[d] <= MaxBusy /\ nthr[d] \in Nat
      BY <1>0, <2>4
    <3>4. Cardinality(AtDepth(d)) <= MaxBusy
      BY <2>1, <2>2, <2>3, <3>3
    <3> QED BY <2>1, <2>2, <2>3, <3>2, <3>3, <3>4
  <2>5. CASE d # DepthOf[o]
    <3>1. AtDepth(d)' = AtDepth(d)
      BY <1>0, <2>5 DEF AtDepth
    <3>2. nthr'[d] = nthr[d]
      BY <1>0, <2>5
    <3> QED BY <2>3, <3>1, <3>2
  <2> QED BY <2>4, <2>5
<1> QED BY <1>1 DEF BusyAccounting, DepthLimit

\* Taking the head of a queue, by a thread whose orders are all less deep.
LEMMA TakeHeadInv ==
  ASSUME Inv, NEW t \in Thread, NEW q, Unheld(q), q # <<>>,
         ~ TooManyBusy(t, DepthOf[Head(q)]),
         \A p \in HeldBy(t) : DepthOf[p] < DepthOf[Head(q)],
         wstate[t] = "BUSY" \/ (wstate[t] = "IDLE" /\ t \notin Joiner),
         t \notin asleep,
         TakeHead(t, q)
  PROVE  Inv'
<1> DEFINE o   == Head(q)
           n1  == [nthr EXCEPT ![DepthOf[o]] = @ + 1]
           i1  == IF wstate[t] = "IDLE" /\ nidle > 0 THEN nidle - 1 ELSE nidle
           ws1 == [wstate EXCEPT ![t] = "BUSY"]
<1>0. TypeOK /\ o \in Order /\ DepthOf[o] \in Depth /\ t # NoThread
  BY HeadAndTail, OrderAssumption, ThreadAssumption DEF Inv
<1>1. /\ queue' = Tail(q) /\ nthr' = n1 /\ holder' = [holder EXCEPT ![o] = t]
      /\ AwakenWorker(Tail(q), n1, i1, ws1, asleep)
  BY DEF TakeHead
<1>2. ws1 \in [Thread -> ThreadState] /\ asleep \in SUBSET Thread
  BY <1>0 DEF TypeOK, ThreadState
<1>3. i1 \in Nat /\ i1 = Cardinality(IdleIn(ws1))
  <2>1. nidle = Cardinality(IdleIn(wstate)) /\ nidle \in Nat
    BY DEF Inv, IdleAccounting, IdleIn, TypeOK
  <2>2. IsFiniteSet(IdleIn(wstate))
    BY FiniteThreads, IdleIn(wstate) \subseteq Thread DEF IdleIn
  <2>3. CASE wstate[t] = "IDLE"
    <3>1. IdleIn(ws1) = IdleIn(wstate) \ {t} /\ t \in IdleIn(wstate)
      BY <1>0, <2>3 DEF IdleIn, TypeOK
    <3>2. Cardinality(IdleIn(ws1)) = nidle - 1
      BY <2>1, <2>2, <3>1, FS_RemoveElement
    <3>3. IsFiniteSet(IdleIn(ws1)) /\ Cardinality(IdleIn(ws1)) \in Nat
      BY FiniteThreads, IdleIn(ws1) \subseteq Thread DEF IdleIn
    <3>4. nidle > 0
      BY <2>1, <3>2, <3>3
    <3> QED BY <2>1, <2>3, <3>2, <3>3, <3>4
  <2>4. CASE wstate[t] = "BUSY"
    <3>1. IdleIn(ws1) = IdleIn(wstate)
      BY <1>0, <2>4 DEF IdleIn, TypeOK
    <3> QED BY <2>1, <2>4, <3>1
  <2> QED BY <2>3, <2>4
<1>4. /\ nidle' \in Nat /\ nidle' = Cardinality(IdleIn(wstate'))
      /\ wstate' \in [Thread -> ThreadState]
      /\ asleep' \subseteq asleep
      /\ \A u \in Thread :
           \/ wstate'[u] = ws1[u]
           \/ ws1[u] = "none" /\ wstate'[u] = "IDLE" /\ u \notin Joiner
  <2>1. PICK n, i, ws : /\ i = i1 /\ ws = ws1
                        /\ AwakenWorker(Tail(q), n, i, ws, asleep)
    BY <1>1, Zenon
  <2>a. AwakenWorker(Tail(q), n, i, ws, asleep) /\ asleep \in SUBSET Thread
    BY <1>2, <2>1
  <2>2. i \in Nat /\ i = Cardinality(IdleIn(ws)) /\ ws \in [Thread -> ThreadState]
    BY <1>2, <1>3, <2>1
  <2>3. /\ nidle' \in Nat /\ nidle' = Cardinality(IdleIn(wstate'))
        /\ wstate' \in [Thread -> ThreadState]
        /\ asleep' \subseteq asleep
        /\ \A u \in Thread :
             \/ wstate'[u] = ws[u]
             \/ ws[u] = "none" /\ wstate'[u] = "IDLE" /\ u \notin Joiner
    BY ONLY <2>a, <2>2, AwakenWorkerCounts
  <2> QED BY <2>1, <2>3
<1>5. TypeOK'
  <2>1. Tail(q) \in Seq(Order)
    BY HeadAndTail
  <2>2. nthr' \in [Depth -> Nat]
    BY <1>0, <1>1 DEF TypeOK
  <2>3. holder' \in [Order -> Thread \cup {NoThread}]
    BY <1>0, <1>1 DEF TypeOK
  <2> QED BY <1>1, <1>2, <1>4, <2>1, <2>2, <2>3 DEF TypeOK
<1>6. ExclusiveOrders'
  <2>1. \A i \in 1..Len(Tail(q)) : holder'[Tail(q)[i]] = NoThread
    BY <1>0, <1>1, HeadAndTail DEF TypeOK
  <2> QED BY ZenonT(40), <1>1, <2>1, HeadAndTail DEF ExclusiveOrders
<1>7. SleepersAreIdle'
  BY <1>0, <1>4 DEF Inv, SleepersAreIdle, TypeOK
<1>8. HoldersAreBusy'
  <2> SUFFICES ASSUME NEW p \in Order, holder'[p] # NoThread
      PROVE  wstate'[holder'[p]] = "BUSY"
    BY DEF HoldersAreBusy
  <2>1. CASE p = o
    BY <1>0, <1>1, <1>4, <2>1 DEF TypeOK
  <2>2. CASE p # o
    BY <1>0, <1>1, <1>4, <2>2 DEF TypeOK, Inv, HoldersAreBusy
  <2> QED BY <2>1, <2>2
<1>9. IdleAccounting'
  BY <1>4 DEF IdleAccounting, IdleIn
<1>10. Joined' = Joined
  BY <1>0, <1>4, ThreadAssumption DEF Joined, TypeOK
<1>11. nthr[DepthOf[o]] <= MaxBusy
  BY <1>0, LimitAssumption DEF TooManyBusy, TypeOK
<1>12. BusyAccounting' /\ DepthLimit'
  BY <1>0, <1>1, <1>10, <1>11, HeadAndTail, OneMoreAtDepth
<1>13. DeeperOnly'
  <2> SUFFICES ASSUME NEW u \in Thread, NEW p1 \in HeldBy(u)', NEW p2 \in HeldBy(u)',
                      DepthOf[p1] = DepthOf[p2]
      PROVE  p1 = p2
    BY DEF DeeperOnly
  <2>1. HeldBy(u)' = IF u = t THEN HeldBy(t) \cup {o} ELSE HeldBy(u)
    BY <1>0, <1>1, HeadAndTail, ThreadAssumption DEF HeldBy, TypeOK
  <2>2. \A p \in HeldBy(t) : DepthOf[p] < DepthOf[o] /\ DepthOf[p] \in Int
    BY OrderAssumption, LimitAssumption DEF HeldBy, Depth
  <2>3. DepthOf[o] \in Int
    BY <1>0, LimitAssumption DEF Depth
  <2>4. \A p, r \in HeldBy(u) : DepthOf[p] = DepthOf[r] => p = r
    BY DEF Inv, DeeperOnly
  <2> QED BY <2>1, <2>2, <2>3, <2>4
<1> QED
  BY <1>5, <1>6, <1>7, <1>8, <1>9, <1>12, <1>13 DEF Inv

-----------------------------------------------------------------------------
\* The queue itself may be taken from.
LEMMA QueueUnheld == Inv => Unheld(queue)
BY DEF Inv, TypeOK, ExclusiveOrders, Unheld

\* So may the queue with a batch of new orders pushed on its front.
LEMMA PlacedUnheld ==
  ASSUME Inv, NEW os \in Batch, Fresh(os)
  PROVE  /\ Unheld(Placed(os)) /\ Placed(os) # <<>>
         /\ Head(Placed(os)) = os[1] /\ os[1] \in Order
<1>1. /\ os \in Seq(Order) /\ queue \in Seq(Order)
      /\ Len(os) \in Nat /\ Len(queue) \in Nat /\ Len(os) >= 1
  BY BatchAssumption DEF Inv, TypeOK
<1> DEFINE q == os \o queue
<1>2. /\ q \in Seq(Order) /\ Len(q) = Len(os) + Len(queue)
      /\ \A i \in 1..Len(q) : q[i] = IF i <= Len(os) THEN os[i] ELSE queue[i - Len(os)]
  BY <1>1, ConcatProperties
<1>3. \A i \in 1..Len(q) : i > Len(os) => i - Len(os) \in 1..Len(queue)
  BY <1>1, <1>2
<1>4. \A i \in 1..Len(os) : holder[os[i]] = NoThread /\
                             \A j \in 1..Len(queue) : queue[j] # os[i]
  BY DEF Fresh, Queued
<1>5. \A i \in 1..Len(q) : holder[q[i]] = NoThread
  BY <1>1, <1>2, <1>3, <1>4 DEF Inv, ExclusiveOrders
<1>6. ASSUME NEW i \in 1..Len(q), NEW j \in 1..Len(q), q[i] = q[j]
      PROVE  i = j
  <2>1. CASE i <= Len(os) /\ j <= Len(os)
    BY <1>1, <1>2, <1>6, <2>1, BatchAssumption
  <2>2. CASE i > Len(os) /\ j > Len(os)
    <3>1. queue[i - Len(os)] = queue[j - Len(os)]
      BY <1>1, <1>2, <1>6, <2>2
    <3>2. i - Len(os) = j - Len(os)
      BY <1>3, <2>2, <3>1 DEF Inv, ExclusiveOrders
    <3> QED BY <1>1, <1>2, <3>2
  <2>3. CASE i <= Len(os) /\ j > Len(os)
    BY <1>1, <1>2, <1>3, <1>4, <1>6, <2>3
  <2>4. CASE i > Len(os) /\ j <= Len(os)
    BY <1>1, <1>2, <1>3, <1>4, <1>6, <2>4
  <2> QED BY <1>1, <1>2, <2>1, <2>2, <2>3, <2>4
<1>7. q # <<>> /\ Head(q) = q[1] /\ q[1] = os[1] /\ os[1] \in Order
  BY <1>1, <1>2
<1> QED BY <1>2, <1>5, <1>6, <1>7 DEF Placed, Unheld

\* A step that leaves the threads and the counters alone, and leaves on the queue
\* only orders that nobody holds, each once.
LEMMA QueueChangeInv ==
  ASSUME Inv, Unheld(queue'), UNCHANGED <<nthr, nidle, wstate, asleep, holder>>
  PROVE  Inv'
<1>1. TypeOK' /\ ExclusiveOrders'
  BY DEF Inv, TypeOK, Unheld, ExclusiveOrders
<1>2. SleepersAreIdle' /\ HoldersAreBusy'
  BY DEF Inv, SleepersAreIdle, HoldersAreBusy
<1>3. IdleAccounting'
  BY DEF Inv, IdleAccounting
<1>4. BusyAccounting' /\ DepthLimit'
  BY DEF Inv, BusyAccounting, DepthLimit, AtDepth, Joined
<1>5. DeeperOnly'
  BY DEF Inv, DeeperOnly, HeldBy
<1> QED BY <1>1, <1>2, <1>3, <1>4, <1>5 DEF Inv

-----------------------------------------------------------------------------
(* One lemma for each action.                                               *)

\* join(BUSY,0) adds the execution thread to the count at depth 0.
LEMMA JoinInv ==
  ASSUME Inv, NEW t \in Thread, Join(t)
  PROVE  Inv'
<1> USE DEF Join
<1>0. TypeOK /\ 0 \in Depth /\ t \in Joiner
  BY LimitAssumption DEF Inv, Depth
<1>1. TypeOK'
  BY <1>0 DEF TypeOK, ThreadState
<1>2. ExclusiveOrders' /\ DeeperOnly'
  BY DEF Inv, ExclusiveOrders, DeeperOnly, HeldBy
<1>3. SleepersAreIdle' /\ HoldersAreBusy'
  BY <1>0 DEF Inv, SleepersAreIdle, HoldersAreBusy, TypeOK
<1>4. IdleAccounting'
  <2>1. {u \in Thread : wstate'[u] = "IDLE"} = {u \in Thread : wstate[u] = "IDLE"}
    BY <1>0 DEF TypeOK
  <2> QED BY <2>1 DEF Inv, IdleAccounting
<1>5. DepthLimit' /\ \A d \in Depth : AtDepth(d)' = AtDepth(d)
  BY DEF Inv, DepthLimit, AtDepth
<1>6. Cardinality(Joined') = Cardinality(Joined) + 1 /\ Cardinality(Joined) \in Nat
  <2>1. Joined' = Joined \cup {t} /\ t \notin Joined
    BY <1>0, ThreadAssumption DEF Joined, TypeOK
  <2>2. IsFiniteSet(Joined) /\ Cardinality(Joined) \in Nat
    BY FiniteThreads, ThreadAssumption, Joined \subseteq Thread DEF Joined
  <2> QED BY <2>1, <2>2, FS_AddElement
<1>7. BusyAccounting'
  <2> SUFFICES ASSUME NEW d \in Depth
      PROVE  nthr'[d] = Cardinality(AtDepth(d)')
                          + IF d = 0 THEN Cardinality(Joined') ELSE 0
    BY DEF BusyAccounting
  <2>1. nthr[d] = Cardinality(AtDepth(d)) + IF d = 0 THEN Cardinality(Joined) ELSE 0
    BY DEF Inv, BusyAccounting
  <2>2. Cardinality(AtDepth(d)) \in Nat
    BY FiniteOrders, AtDepth(d) \subseteq Order DEF AtDepth
  <2>3. nthr'[d] = IF d = 0 THEN nthr[d] + 1 ELSE nthr[d]
    BY <1>0 DEF TypeOK
  <2>4. AtDepth(d)' = AtDepth(d)
    BY <1>5
  <2> QED BY <1>6, <2>1, <2>2, <2>3, <2>4
<1> QED BY <1>1, <1>2, <1>3, <1>4, <1>5, <1>7 DEF Inv

\* A worker takes an order in workerLoop, holding no other.
LEMMA WorkerTakesInv ==
  ASSUME Inv, NEW t \in Thread, WorkerTakes(t)
  PROVE  Inv'
<1>1. /\ queue # <<>> /\ ~ TooManyBusy(t, DepthOf[Head(queue)])
      /\ TakeHead(t, queue) /\ HeldBy(t) = {} /\ t \notin asleep
      /\ t \notin Joiner /\ wstate[t] # "none"
  BY DEF WorkerTakes, InWorkerLoop, Available
<1>2. wstate[t] = "BUSY" \/ (wstate[t] = "IDLE" /\ t \notin Joiner)
  BY <1>1 DEF Inv, TypeOK, ThreadState
<1> QED BY <1>1, <1>2, QueueUnheld, TakeHeadInv

\* A worker that goes to sleep is counted idle once.
LEMMA WorkerSleepsInv ==
  ASSUME Inv, NEW t \in Thread, WorkerSleeps(t)
  PROVE  Inv'
<1> USE DEF WorkerSleeps
<1>0. /\ TypeOK /\ t \notin Joiner /\ wstate[t] \in {"IDLE", "BUSY"} /\ HeldBy(t) = {}
  BY DEF Inv, TypeOK, InWorkerLoop, ThreadState
<1>1. IdleAccounting' /\ nidle' \in Nat
  <2>1. nidle = Cardinality(IdleIn(wstate)) /\ nidle \in Nat /\ IsFiniteSet(IdleIn(wstate))
    BY FiniteThreads, IdleIn(wstate) \subseteq Thread
       DEF Inv, IdleAccounting, IdleIn, TypeOK
  <2>2. IdleIn(wstate') = IdleIn(wstate) \cup {t}
    BY <1>0 DEF IdleIn, TypeOK
  <2>3. t \in IdleIn(wstate) <=> wstate[t] = "IDLE"
    BY DEF IdleIn
  <2>4. nidle' = Cardinality(IdleIn(wstate'))
    BY <2>1, <2>2, <2>3, FS_AddElement
  <2> QED BY <2>1, <2>4 DEF IdleAccounting, IdleIn
<1>2. TypeOK'
  BY <1>0, <1>1 DEF TypeOK, ThreadState
<1>3. ExclusiveOrders' /\ DeeperOnly'
  BY DEF Inv, ExclusiveOrders, DeeperOnly, HeldBy
<1>4. SleepersAreIdle' /\ HoldersAreBusy'
  BY <1>0 DEF Inv, SleepersAreIdle, HoldersAreBusy, TypeOK, HeldBy
<1>5. Joined' = Joined
  BY <1>0, ThreadAssumption DEF Joined, TypeOK
<1>6. BusyAccounting' /\ DepthLimit'
  BY <1>5 DEF Inv, BusyAccounting, DepthLimit, AtDepth
<1> QED BY <1>1, <1>2, <1>3, <1>4, <1>6 DEF Inv

\* A background poll puts new orders on the queue and wakes or spawns a worker.
LEMMA PlaceAndAwakenInv ==
  ASSUME Inv, NEW os \in Batch, PlaceAndAwaken(os)
  PROVE  Inv'
<1>0. /\ Fresh(os) /\ queue' = Placed(os) /\ UNCHANGED <<nthr, holder>>
      /\ AwakenWorker(Placed(os), nthr, nidle, wstate, asleep)
  BY DEF PlaceAndAwaken, PushAndAwaken
<1>1. TypeOK /\ Unheld(Placed(os))
  BY <1>0, PlacedUnheld DEF Inv
<1>2. /\ nidle \in Nat /\ nidle = Cardinality(IdleIn(wstate))
      /\ wstate \in [Thread -> ThreadState] /\ asleep \in SUBSET Thread
  BY <1>1 DEF Inv, TypeOK, IdleAccounting, IdleIn
<1>3. /\ nidle' \in Nat /\ nidle' = Cardinality(IdleIn(wstate'))
      /\ wstate' \in [Thread -> ThreadState]
      /\ asleep' \subseteq asleep
      /\ \A u \in Thread :
           \/ wstate'[u] = wstate[u]
           \/ wstate[u] = "none" /\ wstate'[u] = "IDLE" /\ u \notin Joiner
  BY ONLY <1>0, <1>2, AwakenWorkerCounts
<1>4. TypeOK' /\ ExclusiveOrders'
  BY <1>0, <1>1, <1>2, <1>3 DEF TypeOK, Unheld, ExclusiveOrders
<1>5. SleepersAreIdle'
  BY <1>2, <1>3 DEF Inv, SleepersAreIdle
<1>6. HoldersAreBusy'
  BY <1>0, <1>1, <1>3 DEF Inv, HoldersAreBusy, TypeOK
<1>7. IdleAccounting'
  BY <1>3 DEF IdleAccounting, IdleIn
<1>8. Joined' = Joined
  BY <1>3, ThreadAssumption DEF Joined
<1>9. BusyAccounting' /\ DepthLimit'
  BY <1>0, <1>8 DEF Inv, BusyAccounting, DepthLimit, AtDepth
<1>10. DeeperOnly'
  BY <1>0 DEF Inv, DeeperOnly, HeldBy
<1> QED BY <1>4, <1>5, <1>6, <1>7, <1>9, <1>10 DEF Inv

\* A synchronous poll puts new orders on the queue and takes the first.
LEMMA PlaceAndTakeInv ==
  ASSUME Inv, NEW t \in Thread, NEW os \in Batch, PlaceAndTake(t, os)
  PROVE  Inv'
<1>1. /\ Unheld(Placed(os)) /\ Placed(os) # <<>> /\ Head(Placed(os)) = os[1]
  BY PlacedUnheld DEF PlaceAndTake
<1>2. /\ wstate[t] = "BUSY" /\ t \notin asleep
      /\ \A p \in HeldBy(t) : DepthOf[p] < DepthOf[os[1]]
  BY DEF PlaceAndTake, PollsAt, Inv, SleepersAreIdle
<1>3. CASE Available(t, Placed(os), DepthOf[os[1]]) /\ TakeHead(t, Placed(os))
  <2>1. ~ TooManyBusy(t, DepthOf[Head(Placed(os))])
    BY <1>3 DEF Available
  <2> QED BY <1>1, <1>2, <1>3, <2>1, TakeHeadInv
<1>4. CASE queue' = Placed(os) /\ UNCHANGED <<nthr, nidle, wstate, asleep, holder>>
  <2>1. Unheld(queue')
    BY <1>1, <1>4
  <2> QED BY <1>4, <2>1, QueueChangeInv
<1> QED BY <1>3, <1>4 DEF PlaceAndTake, PushAndTake

\* A polling thread takes an order deeper than any it holds.
LEMMA PollerTakesInv ==
  ASSUME Inv, NEW t \in Thread, NEW m \in Depth, PollerTakes(t, m)
  PROVE  Inv'
<1>1. /\ wstate[t] = "BUSY" /\ t \notin asleep
      /\ queue # <<>> /\ DepthOf[Head(queue)] >= m
      /\ ~ TooManyBusy(t, DepthOf[Head(queue)])
      /\ TakeHead(t, queue)
      /\ \A p \in HeldBy(t) : DepthOf[p] < m
  BY DEF PollerTakes, PollsAt, Available, Inv, SleepersAreIdle
<1>2. \A p \in Order : DepthOf[p] \in Int
  BY OrderAssumption, LimitAssumption DEF Depth
<1>3. Head(queue) \in Order /\ m \in Int
  BY <1>1, QueueUnheld, HeadAndTail, LimitAssumption DEF Depth
<1>4. \A p \in HeldBy(t) : DepthOf[p] < DepthOf[Head(queue)]
  BY <1>1, <1>2, <1>3 DEF HeldBy
<1> QED BY <1>1, <1>4, QueueUnheld, TakeHeadInv

\* finishWithWorkOrder finds the count at the order's depth positive.
LEMMA FinishInv ==
  ASSUME Inv, NEW t \in Thread, NEW o \in Order, Finish(t, o)
  PROVE  Inv'
<1> USE OrderAssumption
<1>0. /\ TypeOK /\ holder[o] = t /\ t # NoThread /\ DepthOf[o] \in Depth
      /\ nthr' = [nthr EXCEPT ![DepthOf[o]] = IF @ > 0 THEN @ - 1 ELSE @]
      /\ holder' = [holder EXCEPT ![o] = NoThread]
      /\ UNCHANGED <<queue, nidle, wstate, asleep>>
  BY ThreadAssumption DEF Finish, FinishWithWorkOrder, HeldBy, Inv
<1>1. TypeOK'
  BY <1>0 DEF TypeOK
<1>2. ExclusiveOrders'
  BY <1>0 DEF Inv, ExclusiveOrders, TypeOK
<1>3. SleepersAreIdle' /\ HoldersAreBusy'
  BY <1>0 DEF Inv, SleepersAreIdle, HoldersAreBusy, TypeOK
<1>4. IdleAccounting' /\ Joined' = Joined
  BY <1>0 DEF Inv, IdleAccounting, Joined
<1>5. ASSUME NEW d \in Depth
      PROVE  /\ nthr'[d] = Cardinality(AtDepth(d)')
                            + IF d = 0 THEN Cardinality(Joined') ELSE 0
             /\ Cardinality(AtDepth(d)') <= MaxBusy + 1
  <2>1. IsFiniteSet(AtDepth(d)) /\ Cardinality(AtDepth(d)) \in Nat
    BY FiniteOrders, AtDepth(d) \subseteq Order DEF AtDepth
  <2>2. Cardinality(Joined) \in Nat
    BY FiniteThreads, ThreadAssumption, Joined \subseteq Thread DEF Joined
  <2>3. /\ nthr[d] = Cardinality(AtDepth(d)) + IF d = 0 THEN Cardinality(Joined) ELSE 0
        /\ Cardinality(AtDepth(d)) <= MaxBusy + 1
    BY DEF Inv, BusyAccounting, DepthLimit
  <2>4. CASE d = DepthOf[o]
    <3>1. AtDepth(d)' = AtDepth(d) \ {o} /\ o \in AtDepth(d)
      BY <1>0, <2>4 DEF AtDepth, TypeOK
    <3>2. Cardinality(AtDepth(d)') = Cardinality(AtDepth(d)) - 1
      BY <2>1, <3>1, FS_RemoveElement
    <3>3. Cardinality(AtDepth(d)') \in Nat
      BY FiniteOrders, AtDepth(d)' \subseteq Order, <3>1 DEF AtDepth
    <3>4. nthr[d] > 0 /\ nthr'[d] = nthr[d] - 1
      BY <1>0, <2>1, <2>2, <2>3, <2>4, <3>2, <3>3 DEF TypeOK
    <3> QED BY <1>4, <2>1, <2>2, <2>3, <3>2, <3>4, LimitAssumption
  <2>5. CASE d # DepthOf[o]
    <3>1. AtDepth(d)' = AtDepth(d)
      BY <1>0, <2>5 DEF AtDepth, TypeOK
    <3>2. nthr'[d] = nthr[d]
      BY <1>0, <2>5 DEF TypeOK
    <3> QED BY <1>4, <2>3, <3>1, <3>2
  <2> QED BY <2>4, <2>5
<1>6. BusyAccounting' /\ DepthLimit'
  BY <1>5 DEF BusyAccounting, DepthLimit
<1>7. DeeperOnly'
  BY <1>0, ThreadAssumption DEF Inv, DeeperOnly, HeldBy, TypeOK
<1> QED BY <1>1, <1>2, <1>3, <1>4, <1>6, <1>7 DEF Inv

\* clearQueue leaves a subsequence of the queue.
LEMMA ClearQueueInv ==
  ASSUME Inv, NEW c \in Client, ClearQueue(c)
  PROVE  Inv'
<1> DEFINE keep == {i \in 1..Len(queue) : ClientOf[queue[i]] # c}
           k == Cardinality(keep)
<1>1. queue \in Seq(Order) /\ Len(queue) \in Nat
  BY DEF Inv, TypeOK
<1>2. k \in Nat
  <2>1. IsFiniteSet(1..Len(queue))
    BY <1>1, FS_Interval
  <2>2. keep \in SUBSET (1..Len(queue))
    OBVIOUS
  <2> QED BY <2>1, <2>2, FS_Subset, FS_CardinalityType
<1>3. PICK pos \in [1..k -> keep] :
        /\ \A i, j \in 1..k : i < j => pos[i] < pos[j]
        /\ queue' = [i \in 1..k |-> queue[pos[i]]]
  BY DEF ClearQueue
<1> HIDE DEF k
<1>4. \A i \in 1..k : pos[i] \in 1..Len(queue)
  BY <1>3
<1>5. queue' \in [1..k -> Order]
  BY <1>1, <1>3, <1>4
<1>6. queue' \in Seq(Order) /\ Len(queue') = k
  BY <1>2, <1>5
<1>7. ASSUME NEW i \in 1..k, NEW j \in 1..k, queue'[i] = queue'[j]
      PROVE  i = j
  <2>1. queue[pos[i]] = queue[pos[j]]
    BY <1>3, <1>7
  <2>2. pos[i] = pos[j]
    BY <1>4, <2>1 DEF Inv, ExclusiveOrders
  <2>3. pos[i] \in Nat /\ ~ (i < j) /\ ~ (j < i)
    BY <1>1, <1>3, <1>4, <2>2
  <2> QED BY <1>2, <2>3
<1>8. \A i \in 1..k : holder[queue'[i]] = NoThread
  BY <1>3, <1>4 DEF Inv, ExclusiveOrders
<1>9. UNCHANGED <<nthr, nidle, wstate, asleep, holder>>
  BY DEF ClearQueue
<1>10. Unheld(queue')
  BY <1>6, <1>7, <1>8 DEF Unheld
<1> QED BY <1>9, <1>10, QueueChangeInv

\* Every critical section of the brigade keeps the invariant.
THEOREM NextInv == Inv /\ [Next]_vars => Inv'
<1> SUFFICES ASSUME Inv, [Next]_vars PROVE Inv'
  OBVIOUS
<1>1. ASSUME NEW t \in Thread, Join(t) \/ WorkerTakes(t) \/ WorkerSleeps(t)
      PROVE  Inv'
  BY <1>1, JoinInv, WorkerTakesInv, WorkerSleepsInv
<1>2. ASSUME NEW os \in Batch, PlaceAndAwaken(os)
      PROVE  Inv'
  BY <1>2, PlaceAndAwakenInv
<1>3. ASSUME NEW t \in Thread, NEW os \in Batch, PlaceAndTake(t, os)
      PROVE  Inv'
  BY <1>3, PlaceAndTakeInv
<1>4. ASSUME NEW t \in Thread, NEW m \in Depth, PollerTakes(t, m)
      PROVE  Inv'
  BY <1>4, PollerTakesInv
<1>5. ASSUME NEW t \in Thread, NEW o \in Order, Finish(t, o)
      PROVE  Inv'
  BY <1>5, FinishInv
<1>6. ASSUME NEW c \in Client, ClearQueue(c)
      PROVE  Inv'
  BY <1>6, ClearQueueInv
<1>7. CASE UNCHANGED vars
  <2>1. Unheld(queue')
    BY <1>7, QueueUnheld DEF vars
  <2> QED BY <1>7, <2>1, QueueChangeInv DEF vars
<1> QED BY <1>1, <1>2, <1>3, <1>4, <1>5, <1>6, <1>7 DEF Next

\* The invariant holds of the pool whatever its clients do.
THEOREM InvHolds == Spec => []Inv
<1> QED BY InitInv, NextInv, PTL DEF Spec

-----------------------------------------------------------------------------
(* What the runs check on a small pool.                                     *)

\* The state of a brigade has the types of MTPool.h:195-240; in particular
\* neither nidle_ nor a count in nthr_ ever becomes negative.
THEOREM TypeCorrect == Spec => []TypeOK
<1> QED BY InvHolds, PTL DEF Inv

\* Whatever its clients do, a brigade counts the orders in execution right
\* (++nthr_ in getWorkOrder, --nthr_ in finishWithWorkOrder).
THEOREM BusyCountRight == Spec => []BusyAccounting
<1> QED BY InvHolds, PTL DEF Inv

\* ... and its idle workers, though a worker leaves workerLoop's sleep, is
\* spawned, and goes idle in different critical sections.
THEOREM IdleCountRight == Spec => []IdleAccounting
<1> QED BY InvHolds, PTL DEF Inv

\* At most max_busy_+1 orders are in execution at a depth, for every number of
\* threads and every max_busy_: the bound getWorkOrder really enforces.
THEOREM BoundedParallelism == Spec => []DepthLimit
<1> QED BY InvHolds, PTL DEF Inv

\* No order is queued twice, or queued while a thread executes it, so that
\* finishWithWorkOrder deletes nothing that is still in use.
THEOREM OrdersExclusive == Spec => []ExclusiveOrders
<1> QED BY InvHolds, PTL DEF Inv

\* A thread that helps itself to orders while it polls executes at most one at
\* each depth: its recursion is bounded by the depth of the tree.
THEOREM RecursionBounded == Spec => []DeeperOnly
<1> QED BY InvHolds, PTL DEF Inv

-----------------------------------------------------------------------------
(* Stranded orders.                                                         *)

\* There are workers, more of them may be busy at one depth than there are threads
\* that join, and every order is for a child of some node.
EnoughWorkers ==
  /\ Crew # {} /\ MaxBusy > Cardinality(Joiner)
  /\ \A o \in Order : DepthOf[o] # 0

\* The constructor's workers have started, and only workers are idle.
Started ==
  /\ \A t \in Crew : wstate[t] # "none"
  /\ \A t \in Joiner : wstate[t] # "IDLE"

WorkerAwake == \E t \in Thread \ Joiner : wstate[t] # "none" /\ t \notin asleep

Attended == queue # <<>> => WorkerAwake

\* When more orders are in execution at one depth than threads have joined, some
\* worker executes one: a thread executes at most one there.
LEMMA BusyWorker ==
  ASSUME EnoughWorkers, NEW d, NEW h \in [Order -> Thread \cup {NoThread}],
         NEW ws, NEW sl,
         Cardinality({o \in Order : h[o] # NoThread /\ DepthOf[o] = d}) >= MaxBusy,
         \A o, p \in Order : h[o] = h[p] /\ h[o] # NoThread /\ DepthOf[o] = DepthOf[p] => o = p,
         \A o \in Order : h[o] # NoThread => ws[h[o]] = "BUSY",
         \A t \in sl : ws[t] = "IDLE"
  PROVE  \E t \in Thread \ Joiner : ws[t] # "none" /\ t \notin sl
<1> DEFINE S == {o \in Order : h[o] # NoThread /\ DepthOf[o] = d}
<1>1. IsFiniteSet(Joiner) /\ Cardinality(Joiner) \in Nat
  BY FiniteThreads, ThreadAssumption
<1>2. IsFiniteSet(S) /\ Cardinality(S) \in Nat
  BY FiniteOrders, S \subseteq Order
<1>3. Cardinality(Joiner) < Cardinality(S)
  BY <1>1, <1>2, LimitAssumption DEF EnoughWorkers
<1>4. \A o \in S : o \in Order /\ h[o] \in Thread /\ h[o] # NoThread /\ DepthOf[o] = d
                   /\ ws[h[o]] = "BUSY"
  OBVIOUS
<1>5. ASSUME \A o \in S : h[o] \in Joiner
      PROVE  FALSE
  <2> DEFINE f == [o \in S |-> h[o]]
  <2>1. f \in [S -> Joiner] /\ \A o \in S : f[o] = h[o]
    BY <1>5
  <2> HIDE DEF f, S
  <2>2. \E o, p \in S : o # p /\ f[o] = f[p]
    BY <1>1, <1>2, <1>3, <2>1, FS_PigeonHole
  <2>3. PICK o \in S, p \in S : o # p /\ h[o] = h[p]
    BY <2>1, <2>2
  <2> QED BY <1>4, <2>3
<1>6. PICK o \in S : h[o] \notin Joiner
  BY <1>5
<1> QED BY <1>4, <1>6

\* So it is after a step, where the count has reached the limit.
LEMMA LimitReached ==
  ASSUME EnoughWorkers, Inv', NEW o \in Order, nthr'[DepthOf[o]] >= MaxBusy
  PROVE  WorkerAwake'
<1> DEFINE d == DepthOf[o]
<1>1. d \in Depth /\ d # 0
  BY OrderAssumption DEF EnoughWorkers
<1>2. nthr'[d] = Cardinality(AtDepth(d)') + 0
  BY <1>1 DEF Inv, BusyAccounting
<1>3. Cardinality(AtDepth(d)') \in Nat
  BY FiniteOrders, AtDepth(d)' \subseteq Order DEF AtDepth
<1>4. Cardinality({p \in Order : holder'[p] # NoThread /\ DepthOf[p] = d}) >= MaxBusy
  BY <1>2, <1>3 DEF AtDepth
<1>5. holder' \in [Order -> Thread \cup {NoThread}]
  BY DEF Inv, TypeOK
<1>6. \A p, r \in Order :
        holder'[p] = holder'[r] /\ holder'[p] # NoThread /\ DepthOf[p] = DepthOf[r] => p = r
  BY <1>5 DEF Inv, DeeperOnly, HeldBy
<1>7. /\ \A p \in Order : holder'[p] # NoThread => wstate'[holder'[p]] = "BUSY"
      /\ \A t \in asleep' : wstate'[t] = "IDLE"
  BY DEF Inv, HoldersAreBusy, SleepersAreIdle
<1> HIDE DEF d
<1>8. \E t \in Thread \ Joiner : wstate'[t] # "none" /\ t \notin asleep'
  BY <1>4, <1>5, <1>6, <1>7, BusyWorker
<1> QED BY <1>8 DEF WorkerAwake

\* awakenWorker leaves a worker awake, if there is an order that it may take.
LEMMA AwakenWorkerAttends ==
  ASSUME EnoughWorkers, NEW q, NEW n, NEW i \in Nat,
         NEW ws \in [Thread -> ThreadState], NEW sl \in SUBSET Thread,
         i = Cardinality(IdleIn(ws)),
         \A t \in sl : ws[t] = "IDLE",
         \A t \in Crew : ws[t] # "none", \A t \in Joiner : ws[t] # "IDLE",
         MayAwaken(q, n), AwakenWorker(q, n, i, ws, sl)
  PROVE  WorkerAwake'
<1>1. CASE AwakenNewWorker(q, n, i, ws, sl)
  <2> DEFINE unborn == {t \in Thread \ Joiner : ws[t] = "none"}
  <2>1. asleep' = sl /\ i = 0
    BY <1>1 DEF AwakenNewWorker
  <2>2. CASE unborn = {}
    <3>1. PICK t \in Crew : t \in Thread \ Joiner
      BY ThreadAssumption DEF EnoughWorkers
    <3>2. wstate' = ws
      BY <1>1, <2>2 DEF AwakenNewWorker
    <3>3. IdleIn(ws) = {}
      BY <2>1, FiniteThreads, FS_EmptySet, IdleIn(ws) \subseteq Thread DEF IdleIn
    <3>4. ws[t] # "none" /\ ws[t] # "IDLE"
      BY <3>1, <3>3 DEF IdleIn
    <3> QED BY <2>1, <3>1, <3>2, <3>4 DEF WorkerAwake
  <2>3. CASE unborn # {}
    <3>1. PICK t \in unborn : wstate' = [ws EXCEPT ![t] = "IDLE"]
      BY <1>1, <2>3 DEF AwakenNewWorker
    <3>2. wstate'[t] = "IDLE" /\ t \notin sl
      BY <3>1
    <3> QED BY <2>1, <3>1, <3>2 DEF WorkerAwake
  <2> QED BY <2>2, <2>3
<1>2. CASE AwakenSleeper(q, n, i, ws, sl)
  <2>1. wstate' = ws /\ i # 0
    BY <1>2 DEF AwakenSleeper
  <2>2. CASE sl = {}
    <3>1. IdleIn(ws) # {}
      BY <2>1, FS_EmptySet
    <3>2. PICK t \in Thread : ws[t] = "IDLE"
      BY <3>1 DEF IdleIn
    <3>3. asleep' = {} /\ t \notin Joiner
      BY <1>2, <2>2, <3>2 DEF AwakenSleeper
    <3> QED BY <2>1, <3>2, <3>3 DEF WorkerAwake
  <2>3. CASE sl # {}
    <3>1. PICK t \in sl : asleep' = sl \ {t}
      BY <1>2, <2>3 DEF AwakenSleeper
    <3>2. t \in Thread \ Joiner /\ ws[t] = "IDLE"
      BY <3>1
    <3> QED BY <2>1, <3>1, <3>2 DEF WorkerAwake
  <2> QED BY <2>2, <2>3
<1> QED BY <1>1, <1>2 DEF AwakenWorker, AwakenNobody

\* A thread that takes the head of a queue leaves it attended.
LEMMA TakeHeadAttends ==
  ASSUME EnoughWorkers, Inv, Started, Inv', NEW t \in Thread,
         t \in Joiner => wstate[t] = "BUSY", wstate[t] # "none", t \notin asleep,
         NEW q, Unheld(q), q # <<>>, TakeHead(t, q)
  PROVE  Started' /\ Attended'
<1> DEFINE o   == Head(q)
           n1  == [nthr EXCEPT ![DepthOf[o]] = @ + 1]
           i1  == IF wstate[t] = "IDLE" /\ nidle > 0 THEN nidle - 1 ELSE nidle
           ws1 == [wstate EXCEPT ![t] = "BUSY"]
<1>0. TypeOK /\ TypeOK'
  BY DEF Inv
<1>1. /\ queue' = Tail(q) /\ nthr' = n1
      /\ AwakenWorker(Tail(q), n1, i1, ws1, asleep)
  BY DEF TakeHead
<1>2. wstate \in [Thread -> ThreadState] /\ ws1 \in [Thread -> ThreadState] /\ asleep \in SUBSET Thread
  BY <1>0 DEF TypeOK, ThreadState
<1>3. i1 \in Nat /\ i1 = Cardinality(IdleIn(ws1))
  <2>1. /\ nidle = Cardinality(IdleIn(wstate)) /\ nidle \in Nat /\ IsFiniteSet(IdleIn(wstate))
    BY FiniteThreads, IdleIn(wstate) \subseteq Thread DEF Inv, IdleAccounting, IdleIn, TypeOK
  <2>2. CASE wstate[t] = "IDLE"
    <3>1. IdleIn(ws1) = IdleIn(wstate) \ {t} /\ t \in IdleIn(wstate)
      BY <1>2, <2>2 DEF IdleIn
    <3>2. Cardinality(IdleIn(ws1)) = nidle - 1
      BY <2>1, <3>1, FS_RemoveElement
    <3>3. IsFiniteSet(IdleIn(ws1)) /\ Cardinality(IdleIn(ws1)) \in Nat
      BY FiniteThreads, IdleIn(ws1) \subseteq Thread DEF IdleIn
    <3> QED BY <2>1, <2>2, <3>2, <3>3
  <2>3. CASE wstate[t] # "IDLE"
    <3>1. IdleIn(ws1) = IdleIn(wstate)
      BY <1>2, <2>3 DEF IdleIn
    <3> QED BY <2>1, <2>3, <3>1
  <2> QED BY <2>2, <2>3
<1>4. /\ \A u \in asleep : ws1[u] = "IDLE"
      /\ \A u \in Crew : ws1[u] # "none"
      /\ \A u \in Joiner : ws1[u] # "IDLE"
  BY <1>2, ThreadAssumption DEF Inv, SleepersAreIdle, Started
<1> HIDE DEF n1, i1, ws1
<1>5. Started'
  <2>1. \A u \in Thread :
           \/ wstate'[u] = ws1[u]
           \/ ws1[u] = "none" /\ wstate'[u] = "IDLE" /\ u \notin Joiner
    BY <1>1, <1>2, <1>3, AwakenWorkerCounts
  <2> QED BY <1>4, <2>1, ThreadAssumption DEF Started
<1>6. CASE Tail(q) = <<>>
  BY <1>1, <1>5, <1>6 DEF Attended
<1>7. CASE MayAwaken(Tail(q), n1)
  <2>1. WorkerAwake'
    BY <1>1, <1>2, <1>3, <1>4, <1>7, AwakenWorkerAttends
  <2> QED BY <1>5, <2>1 DEF Attended
<1>8. CASE Tail(q) # <<>> /\ ~ MayAwaken(Tail(q), n1)
  <2> DEFINE p == Head(Tail(q))
  <2>1. p \in Order /\ nthr'[DepthOf[p]] >= MaxBusy
    <3>1. Tail(q) \in Seq(Order) /\ p \in Order
      BY <1>8, HeadAndTail
    <3>2. ~ (nthr'[DepthOf[p]] < MaxBusy)
      BY <1>1, <1>8 DEF MayAwaken
    <3>3. nthr'[DepthOf[p]] \in Nat /\ MaxBusy \in Nat
      BY <1>0, <3>1, OrderAssumption, LimitAssumption DEF TypeOK
    <3> HIDE DEF p
    <3> QED BY <3>1, <3>2, <3>3
  <2> HIDE DEF p
  <2>2. WorkerAwake'
    BY <2>1, LimitReached
  <2> QED BY <1>5, <2>2 DEF Attended
<1> QED BY <1>6, <1>7, <1>8

\* Every critical section leaves the queue attended.
LEMMA NextAttends ==
  ASSUME EnoughWorkers, Inv, Started, Attended, Inv', [Next]_vars
  PROVE  Started' /\ Attended'
<1>0. TypeOK /\ TypeOK' /\ queue \in Seq(Order)
  BY DEF Inv, TypeOK
<1>1. ASSUME NEW t \in Thread, Join(t)
      PROVE  Started' /\ Attended'
  <2>1. /\ t \in Joiner /\ wstate' = [wstate EXCEPT ![t] = "BUSY"]
        /\ UNCHANGED <<queue, asleep>>
    BY <1>1 DEF Join
  <2>2. wstate \in [Thread -> ThreadState]
    BY <1>0 DEF TypeOK
  <2> QED BY <2>1, <2>2, ThreadAssumption DEF Started, Attended, WorkerAwake
<1>2. ASSUME NEW t \in Thread, WorkerTakes(t)
      PROVE  Started' /\ Attended'
  <2>1. /\ queue # <<>> /\ TakeHead(t, queue) /\ t \notin asleep
        /\ t \notin Joiner /\ wstate[t] # "none"
    BY <1>2 DEF WorkerTakes, InWorkerLoop, Available
  <2> QED BY <2>1, QueueUnheld, TakeHeadAttends
<1>3. ASSUME NEW t \in Thread, WorkerSleeps(t)
      PROVE  Started' /\ Attended'
  <2>1. /\ t \notin Joiner /\ ~ Available(t, queue, 0)
        /\ wstate' = [wstate EXCEPT ![t] = "IDLE"] /\ UNCHANGED <<queue, nthr>>
    BY <1>3 DEF WorkerSleeps, InWorkerLoop
  <2>2. wstate \in [Thread -> ThreadState]
    BY <1>0 DEF TypeOK
  <2>3. Started'
    BY <2>1, <2>2, ThreadAssumption DEF Started
  <2>4. CASE queue = <<>>
    BY <2>1, <2>3, <2>4 DEF Attended
  <2>5. CASE queue # <<>>
    <3> DEFINE o == Head(queue)
    <3>1. o \in Order /\ DepthOf[o] \in Depth /\ DepthOf[o] >= 0
      BY <1>0, <2>5, OrderAssumption, LimitAssumption DEF Depth
    <3>2. TooManyBusy(t, DepthOf[o])
      BY <2>1, <2>5, <3>1 DEF Available
    <3>3. nthr[DepthOf[o]] \in Nat
      BY <1>0, <3>1 DEF TypeOK
    <3>4. nthr'[DepthOf[o]] >= MaxBusy
      BY <2>1, <3>2, <3>3, LimitAssumption DEF TooManyBusy
    <3> HIDE DEF o
    <3>5. WorkerAwake'
      BY <3>1, <3>4, LimitReached
    <3> QED BY <2>3, <3>5 DEF Attended
  <2> QED BY <2>4, <2>5
<1>4. ASSUME NEW os \in Batch, PlaceAndAwaken(os)
      PROVE  Started' /\ Attended'
  <2> DEFINE q == Placed(os)
  <2>1. /\ Fresh(os) /\ queue' = q /\ UNCHANGED <<nthr, holder>>
        /\ AwakenWorker(q, nthr, nidle, wstate, asleep)
    BY <1>4 DEF PlaceAndAwaken, PushAndAwaken
  <2>2. q # <<>> /\ Head(q) \in Order
    BY <2>1, PlacedUnheld
  <2>3. /\ nidle \in Nat /\ nidle = Cardinality(IdleIn(wstate))
        /\ wstate \in [Thread -> ThreadState] /\ asleep \in SUBSET Thread
    BY <1>0 DEF Inv, TypeOK, IdleAccounting, IdleIn
  <2> HIDE DEF q
  <2>4. \A u \in Thread :
           \/ wstate'[u] = wstate[u]
           \/ wstate[u] = "none" /\ wstate'[u] = "IDLE" /\ u \notin Joiner
    BY <2>1, <2>3, AwakenWorkerCounts
  <2>5. Started'
    BY <2>4, ThreadAssumption DEF Started
  <2>6. CASE MayAwaken(q, nthr)
    <3>1. \A t \in asleep : wstate[t] = "IDLE"
      BY DEF Inv, SleepersAreIdle
    <3>2. WorkerAwake'
      BY <2>1, <2>3, <2>6, <3>1, AwakenWorkerAttends DEF Started
    <3> QED BY <2>5, <3>2 DEF Attended
  <2>7. CASE ~ MayAwaken(q, nthr)
    <3>1. ~ (nthr'[DepthOf[Head(q)]] < MaxBusy)
      BY <2>1, <2>2, <2>7 DEF MayAwaken
    <3>2. nthr'[DepthOf[Head(q)]] \in Nat /\ MaxBusy \in Nat
      BY <1>0, <2>2, OrderAssumption, LimitAssumption DEF TypeOK
    <3>3. nthr'[DepthOf[Head(q)]] >= MaxBusy
      BY <3>1, <3>2
    <3>4. WorkerAwake'
      BY <2>2, <3>3, LimitReached
    <3> QED BY <2>5, <3>4 DEF Attended
  <2> QED BY <2>6, <2>7
<1>5. ASSUME NEW t \in Thread, NEW os \in Batch, PlaceAndTake(t, os)
      PROVE  Started' /\ Attended'
  <2> DEFINE q == Placed(os)
  <2>1. /\ PushAndTake(t, os) /\ Fresh(os) /\ wstate[t] = "BUSY"
    BY <1>5 DEF PlaceAndTake, PollsAt
  <2>2. Unheld(q) /\ q # <<>> /\ Head(q) = os[1] /\ os[1] \in Order
    BY <2>1, PlacedUnheld
  <2>3. t \notin asleep
    BY <2>1 DEF Inv, SleepersAreIdle
  <2>4. CASE TakeHead(t, q)
    BY <2>1, <2>2, <2>3, <2>4, TakeHeadAttends
  <2>5. CASE ~ Available(t, q, DepthOf[os[1]]) /\ UNCHANGED <<nthr, nidle, wstate, asleep, holder>>
    <3>1. DepthOf[os[1]] \in Depth /\ DepthOf[os[1]] >= DepthOf[os[1]]
      BY <2>2, OrderAssumption, LimitAssumption DEF Depth
    <3>2. nthr[DepthOf[os[1]]] > MaxBusy
      BY <2>1, <2>2, <2>5, <3>1 DEF Available, TooManyBusy
    <3>3. nthr[DepthOf[os[1]]] \in Nat
      BY <1>0, <3>1 DEF TypeOK
    <3>4. nthr'[DepthOf[os[1]]] >= MaxBusy
      BY <2>5, <3>2, <3>3, LimitAssumption
    <3>5. WorkerAwake'
      BY <2>2, <3>4, LimitReached
    <3> QED BY <2>5, <3>5 DEF Started, Attended
  <2> QED BY <2>1, <2>4, <2>5 DEF PushAndTake
<1>6. ASSUME NEW t \in Thread, NEW m \in Depth, PollerTakes(t, m)
      PROVE  Started' /\ Attended'
  <2>1. wstate[t] = "BUSY" /\ queue # <<>> /\ TakeHead(t, queue)
    BY <1>6 DEF PollerTakes, PollsAt, Available
  <2>2. t \notin asleep
    BY <2>1 DEF Inv, SleepersAreIdle
  <2> QED BY <2>1, <2>2, QueueUnheld, TakeHeadAttends
<1>7. ASSUME NEW t \in Thread, NEW o \in Order, Finish(t, o)
      PROVE  Started' /\ Attended'
  BY <1>7 DEF Finish, FinishWithWorkOrder, Started, Attended, WorkerAwake
<1>8. ASSUME NEW c \in Client, ClearQueue(c)
      PROVE  Started' /\ Attended'
  <2>1. UNCHANGED <<wstate, asleep>> /\ (queue = <<>> => queue' = <<>>)
    <3> DEFINE keep == {i \in 1..Len(queue) : ClientOf[queue[i]] # c}
    <3>1. queue' = [i \in 1..Cardinality(keep) |-> queue'[i]] /\ UNCHANGED <<wstate, asleep>>
      BY <1>8 DEF ClearQueue
    <3>2. queue = <<>> => Cardinality(keep) = 0
      BY FS_EmptySet
    <3> HIDE DEF keep
    <3>3. queue = <<>> => DOMAIN queue' = {}
      BY <3>1, <3>2
    <3>4. queue' \in Seq(Order)
      BY <1>0 DEF TypeOK
    <3> QED BY <3>1, <3>3, <3>4
  <2> QED BY <2>1 DEF Started, Attended, WorkerAwake
<1>9. CASE UNCHANGED vars
  BY <1>9 DEF vars, Started, Attended, WorkerAwake
<1> QED BY <1>1, <1>2, <1>3, <1>4, <1>5, <1>6, <1>7, <1>8, <1>9 DEF Next

\* No wakeup is lost inside the pool, though a signal with no sleeper is lost and
\* nobody is woken when an order is finished: an order that nobody executes and
\* nobody helps with has a worker on its way to it (workerLoop, awakenWorker).
THEOREM NoneStranded == EnoughWorkers => (Spec => []NoStrandedOrders)
<1> SUFFICES ASSUME EnoughWorkers
    PROVE  Spec => []NoStrandedOrders
  OBVIOUS
<1>1. Init => Started /\ Attended
  BY ThreadAssumption DEF Init, Started, Attended
<1>2. Inv /\ Inv' /\ Started /\ Attended /\ [Next]_vars => Started' /\ Attended'
  BY NextAttends
<1>3. Inv /\ Attended => NoStrandedOrders
  <2> SUFFICES ASSUME Inv, Attended, queue # <<>>, \A o \in Order : holder[o] = NoThread
      PROVE  \E t \in Thread : InWorkerLoop(t)
    BY DEF NoStrandedOrders
  <2>1. PICK t \in Thread \ Joiner : wstate[t] # "none" /\ t \notin asleep
    BY DEF Attended, WorkerAwake
  <2>2. HeldBy(t) = {}
    BY ThreadAssumption DEF HeldBy
  <2> QED BY <2>1, <2>2 DEF InWorkerLoop
<1> QED BY <1>1, <1>2, <1>3, InvHolds, PTL DEF Spec
=============================================================================
