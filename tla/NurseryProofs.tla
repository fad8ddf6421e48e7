---------------------------- MODULE NurseryProofs ----------------------------
(***************************************************************************)
(* What the nurseries guarantee for every forest, every number of threads  *)
(* and every number of requests, proved from the assumptions of module     *)
(* NurseryPoll.                                                            *)
(***************************************************************************)
EXTENDS NurseryPoll, TLAPS, FiniteSetTheorems, SequenceTheorems

BP == INSTANCE BrigadeProofs WITH Client <- Nursery

\* The longest path down from a node, or more.
Height == CHOOSE height \in [Node -> 0..MaxDepth] : \A nu \in Nursery :
            \A i \in 1..Len(Members(nu)) : height[Members(nu)[i]] < height[nu[1]]

NodeOf(o) == Members(o.nursery)[o.ichild]

-----------------------------------------------------------------------------
(* The forest and its orders.                                               *)

\* The members of a nursery are nodes.
LEMMA MembersAreNodes ==
  ASSUME NEW nu \in Nursery
  PROVE  /\ Members(nu) \in Seq(Node) /\ Len(Members(nu)) \in Nat /\ nu[1] \in Node
         /\ \A i \in 1..Len(Members(nu)) : Members(nu)[i] \in Node
<1>1. nu[1] \in Node /\ Members(nu) \in Seq(Node)
  BY NodeAssumption DEF Members, Nursery
<1> QED BY <1>1

\* Children are less high than their parents.
LEMMA HeightDecreases ==
  /\ Height \in [Node -> 0..MaxDepth]
  /\ \A nu \in Nursery : \A i \in 1..Len(Members(nu)) :
       Height[Members(nu)[i]] < Height[nu[1]]
BY ForestAssumption DEF Height

\* The nurseries of a node.
LEMMA NurseriesOf ==
  ASSUME NEW n \in Node
  PROVE  /\ Children(n) \in Nursery /\ StepChildren(n) \in Nursery
         /\ Children(n)[1] = n /\ StepChildren(n)[1] = n
         /\ Children(n)[2] = "children" /\ StepChildren(n)[2] = "stepchildren"
         /\ Members(Children(n)) = Kids[n] /\ Members(StepChildren(n)) = StepKids[n]
BY DEF Children, StepChildren, Nursery, Members

\* What an order is.
LEMMA OrderFacts ==
  ASSUME NEW o \in Order
  PROVE  /\ o.nursery \in Nursery /\ Multithreaded(o.nursery)
         /\ o.ichild \in 1..Len(Members(o.nursery))
         /\ o.depth \in 1..MaxDepth /\ o.req \in Request /\ o.at \in Address
         /\ NodeOf(o) \in Node /\ DepthOf[o] = o.depth /\ ClientOf[o] = o.nursery
         /\ o # NoOrder
<1>1. PICK nu \in Brigaded : o \in [nursery : {nu}, ichild : 1..Len(Members(nu)),
                                     depth : 1..MaxDepth, req : Request, at : Address]
  BY DEF Order
<1>2. nu \in Nursery /\ Multithreaded(nu)
  BY DEF Brigaded
<1> QED BY <1>1, <1>2, MembersAreNodes, NodeAssumption DEF NodeOf, DepthOf, ClientOf

\* The orders of a poll are orders, one for each child.
LEMMA OrdersOfFacts ==
  ASSUME NEW nu \in Nursery, Multithreaded(nu), NEW d \in 1..MaxDepth, NEW r \in Request,
         NEW a \in Address
  PROVE  LET os == OrdersOf(nu, d, r, a) IN
         /\ os \in Seq(Order) /\ os \in Batch /\ os # <<>>
         /\ Len(os) = Len(Members(nu))
         /\ \A i \in 1..Len(os) :
              os[i] = [nursery |-> nu, ichild |-> i, depth |-> d, req |-> r, at |-> a]
<1> DEFINE os == OrdersOf(nu, d, r, a)
           L == Len(Members(nu))
<1>1. L \in Nat /\ L > 1 /\ nu \in Brigaded
  BY MembersAreNodes DEF Multithreaded, Brigaded
<1>2. \A i \in 1..L :
        [nursery |-> nu, ichild |-> i, depth |-> d, req |-> r, at |-> a] \in Order
  BY <1>1 DEF Order
<1>3. os \in [1..L -> Order]
  BY <1>2 DEF OrdersOf
<1>4. os \in Seq(Order) /\ Len(os) = L
  BY <1>1, <1>3
<1>5. os \in Batch
  BY <1>1 DEF Batch
<1> QED BY <1>1, <1>4, <1>5 DEF OrdersOf

\* There are finitely many orders.
LEMMA OrdersFinite == IsFiniteSet(Order)
<1> DEFINE R(nu) == [nursery : {nu}, ichild : 1..Len(Members(nu)),
                     depth : 1..MaxDepth, req : Request, at : Address]
<1>1. IsFiniteSet(Brigaded)
  <2>1. IsFiniteSet({"children", "stepchildren"})
    <3>1. IsFiniteSet({"children"})
      BY FS_Singleton
    <3>2. IsFiniteSet({"children"} \cup {"stepchildren"})
      BY <3>1, FS_AddElement
    <3> QED BY <3>2, {"children", "stepchildren"} = {"children"} \cup {"stepchildren"}
  <2>2. IsFiniteSet(Nursery)
    BY <2>1, NodeAssumption, FS_Product DEF Nursery
  <2> QED BY <2>2, FS_Subset, Brigaded \subseteq Nursery DEF Brigaded
<1>2. ASSUME NEW nu \in Brigaded
      PROVE  IsFiniteSet(R(nu))
  <2> DEFINE L == 1..Len(Members(nu))
             D == 1..MaxDepth
             P == (L \X D) \X (Request \X Address)
             f == [x \in P |-> [nursery |-> nu, ichild |-> x[1][1], depth |-> x[1][2],
                                req |-> x[2][1], at |-> x[2][2]]]
  <2>1. Len(Members(nu)) \in Nat /\ MaxDepth \in Nat /\ Rounds \in Nat
    BY MembersAreNodes, PoolAssumption, NodeAssumption DEF B!LimitAssumption, Brigaded
  <2>2. IsFiniteSet(L) /\ IsFiniteSet(D) /\ IsFiniteSet(Request) /\ IsFiniteSet(Address)
    <3>1. \A n \in Nat : IsFiniteSet(1..n)
      BY FS_Interval
    <3> QED BY <2>1, <3>1, NodeAssumption DEF Request
  <2>3. IsFiniteSet(L \X D) /\ IsFiniteSet(Request \X Address)
    BY <2>2, FS_Product
  <2>4. IsFiniteSet(P)
    BY <2>3, FS_Product
  <2>5. ASSUME NEW o \in R(nu)
        PROVE  \E x \in P : f[x] = o
    <3>1. <<<<o.ichild, o.depth>>, <<o.req, o.at>>>> \in P
      OBVIOUS
    <3>2. f[<<<<o.ichild, o.depth>>, <<o.req, o.at>>>>] = o
      BY <3>1
    <3> QED BY <3>1, <3>2
  <2>6. f \in Surjection(P, R(nu))
    <3>1. f \in [P -> R(nu)]
      OBVIOUS
    <3> HIDE DEF f, P
    <3> QED BY <2>5, <3>1 DEF Surjection
  <2> QED BY <2>4, <2>6, FS_Surjection
<1> DEFINE RR == {R(nu) : nu \in Brigaded}
           g  == [nu \in Brigaded |-> R(nu)]
<1>3. IsFiniteSet(RR)
  <2>1. g \in Surjection(Brigaded, RR)
    <3>1. g \in [Brigaded -> RR] /\ \A S \in RR : \E nu \in Brigaded : g[nu] = S
      OBVIOUS
    <3> HIDE DEF g, RR
    <3> QED BY <3>1 DEF Surjection
  <2> QED BY <1>1, <2>1, FS_Surjection
<1>4. \A S \in RR : IsFiniteSet(S)
  BY <1>2
<1> HIDE DEF RR
<1>5. IsFiniteSet(UNION RR)
  BY <1>3, <1>4, FS_UNION
<1> QED BY <1>5 DEF RR, Order

-----------------------------------------------------------------------------
(* The pool of module Brigade, and what is proved of it.                    *)

\* Finite sets are the same in the modules' instances.
LEMMA SameFiniteSets ==
  /\ \A S : IsFiniteSet(S) <=> BP!IsFiniteSet(S)
  /\ \A S : Cardinality(S) = B!Cardinality(S)
  /\ \A S : Cardinality(S) = BP!Cardinality(S)
  /\ \A S : IsFiniteSet(S) <=> B!IsFiniteSet(S)
<1>1. \A S : IsFiniteSet(S) <=> BP!IsFiniteSet(S)
  BY DEF IsFiniteSet, BP!IsFiniteSet
<1>2. \A S : IsFiniteSet(S) <=> B!IsFiniteSet(S)
  BY DEF IsFiniteSet, B!IsFiniteSet
<1>3. \A S : Cardinality(S) = B!Cardinality(S)
  BY DEF Cardinality, B!Cardinality
<1>4. \A S : Cardinality(S) = BP!Cardinality(S)
  BY DEF Cardinality, BP!Cardinality
<1> QED BY <1>1, <1>2, <1>3, <1>4

\* The nurseries' orders are what module Brigade assumes of orders.
LEMMA PoolAssumptions ==
  BP!ThreadAssumption /\ BP!OrderAssumption /\ BP!BatchAssumption /\ BP!LimitAssumption
<1>1. BP!ThreadAssumption /\ BP!LimitAssumption
  BY PoolAssumption, SameFiniteSets
     DEF B!ThreadAssumption, B!LimitAssumption, BP!ThreadAssumption, BP!LimitAssumption
<1>2. BP!OrderAssumption
  <2>1. DepthOf \in [Order -> 0..MaxDepth] /\ ClientOf \in [Order -> Nursery]
    <3>1. MaxDepth \in Nat
      BY <1>1 DEF BP!LimitAssumption
    <3> QED BY <3>1, OrderFacts DEF DepthOf, ClientOf
  <2> QED BY <2>1, OrdersFinite, SameFiniteSets DEF BP!OrderAssumption, BP!Depth
<1>3. BP!BatchAssumption
  <2>1. ASSUME NEW os \in Batch
        PROVE  /\ os \in Seq(Order) /\ os # <<>>
               /\ \A i, j \in 1..Len(os) : i # j => os[i] # os[j]
               /\ \A i \in 1..Len(os) : DepthOf[os[i]] = DepthOf[os[1]]
    <3>1. PICK nu \in Brigaded, d \in 1..MaxDepth, r \in Request, a \in Address :
            os = OrdersOf(nu, d, r, a)
      BY DEF Batch
    <3>2. nu \in Nursery /\ Multithreaded(nu)
      BY DEF Brigaded
    <3>3. /\ os \in Seq(Order) /\ os # <<>>
          /\ \A i \in 1..Len(os) :
               os[i] = [nursery |-> nu, ichild |-> i, depth |-> d, req |-> r, at |-> a]
      BY <3>1, <3>2, OrdersOfFacts
    <3>4. ASSUME NEW i \in 1..Len(os)
          PROVE  os[i] \in Order /\ os[i].ichild = i /\ os[i].depth = d
      <4>1. os[i] = [nursery |-> nu, ichild |-> i, depth |-> d, req |-> r, at |-> a]
        BY <3>3
      <4>2. os[i] \in Order
        BY <3>3
      <4> QED BY <4>1, <4>2
    <3>5. \A i \in 1..Len(os) : DepthOf[os[i]] = d
      BY <3>4, OrderFacts
    <3>6. 1 \in 1..Len(os)
      BY <3>3
    <3> QED BY <3>3, <3>4, <3>5, <3>6
  <2> QED BY <2>1 DEF BP!BatchAssumption
<1> QED BY <1>1, <1>2, <1>3

\* Module BrigadeProofs is about the very brigade the nurseries drive.
LEMMA SameBrigade ==
  /\ B!Init <=> BP!Init
  /\ [B!Next]_pool <=> [BP!Next]_BP!vars
  /\ B!TypeOK <=> BP!TypeOK
<1>1. B!Init <=> BP!Init
  BY SameFiniteSets DEF B!Init, BP!Init, B!Depth, BP!Depth
<1>2. B!TypeOK <=> BP!TypeOK
  BY DEF B!TypeOK, BP!TypeOK, B!Depth, BP!Depth, B!ThreadState, BP!ThreadState
<1>3. \A t \in Thread : B!HeldBy(t) = BP!HeldBy(t)
  BY DEF B!HeldBy, BP!HeldBy
<1>4. ASSUME NEW t \in Thread, NEW q, NEW d
      PROVE  B!Available(t, q, d) <=> BP!Available(t, q, d)
  BY DEF B!Available, BP!Available, B!TooManyBusy, BP!TooManyBusy
<1>5. ASSUME NEW q, NEW n, NEW i, NEW ws, NEW sl
      PROVE  B!AwakenWorker(q, n, i, ws, sl) <=> BP!AwakenWorker(q, n, i, ws, sl)
  BY DEF B!AwakenWorker, BP!AwakenWorker, B!AwakenNobody, BP!AwakenNobody,
         B!AwakenNewWorker, BP!AwakenNewWorker, B!AwakenSleeper, BP!AwakenSleeper,
         B!MayAwaken, BP!MayAwaken
<1>6. ASSUME NEW t \in Thread, NEW q
      PROVE  B!TakeHead(t, q) <=> BP!TakeHead(t, q)
  BY <1>5 DEF B!TakeHead, BP!TakeHead
<1>7. \A os : (B!Fresh(os) <=> BP!Fresh(os)) /\ B!Placed(os) = BP!Placed(os)
  BY DEF B!Fresh, BP!Fresh, B!Queued, BP!Queued, B!Placed, BP!Placed
<1>8. \A t \in Thread : \A m : B!PollsAt(t, m) <=> BP!PollsAt(t, m)
  BY <1>3 DEF B!PollsAt, BP!PollsAt
<1>9. ASSUME NEW t \in Thread
      PROVE  /\ B!Join(t) <=> BP!Join(t)
             /\ B!WorkerTakes(t) <=> BP!WorkerTakes(t)
             /\ B!WorkerSleeps(t) <=> BP!WorkerSleeps(t)
  BY <1>3, <1>4, <1>6 DEF B!Join, BP!Join, B!WorkerTakes, BP!WorkerTakes,
     B!WorkerSleeps, BP!WorkerSleeps, B!InWorkerLoop, BP!InWorkerLoop
<1>10. ASSUME NEW os
       PROVE  B!PlaceAndAwaken(os) <=> BP!PlaceAndAwaken(os)
  BY <1>5, <1>7 DEF B!PlaceAndAwaken, BP!PlaceAndAwaken, B!PushAndAwaken, BP!PushAndAwaken
<1>11. ASSUME NEW t \in Thread, NEW os
       PROVE  B!PlaceAndTake(t, os) <=> BP!PlaceAndTake(t, os)
  BY <1>4, <1>6, <1>7, <1>8
     DEF B!PlaceAndTake, BP!PlaceAndTake, B!PushAndTake, BP!PushAndTake
<1>12. ASSUME NEW t \in Thread, NEW m
       PROVE  B!PollerTakes(t, m) <=> BP!PollerTakes(t, m)
  BY <1>4, <1>6, <1>8 DEF B!PollerTakes, BP!PollerTakes
<1>13. ASSUME NEW t \in Thread, NEW o
       PROVE  B!Finish(t, o) <=> BP!Finish(t, o)
  BY <1>3 DEF B!Finish, BP!Finish, B!FinishWithWorkOrder, BP!FinishWithWorkOrder
<1>14. ASSUME NEW c
       PROVE  B!ClearQueue(c) <=> BP!ClearQueue(c)
  BY ONLY TRUE DEF B!ClearQueue, BP!ClearQueue, B!Cardinality, BP!Cardinality
<1>15. B!Next <=> BP!Next
  BY <1>9, <1>10, <1>11, <1>12, <1>13, <1>14 DEF B!Next, BP!Next, B!Depth, BP!Depth
<1>16. pool = BP!vars /\ pool' = BP!vars'
  BY DEF pool, BP!vars
<1>17. [B!Next]_pool <=> [BP!Next]_BP!vars
  BY <1>15, <1>16
<1> QED BY <1>1, <1>2, <1>17

\* The pool's own invariant is kept by every step of the pool.
LEMMA PoolInvInit == B!Init => BP!Inv
<1>1. BP!Init => BP!Inv
  BY PoolAssumptions, BP!InitInv
<1> QED BY <1>1, SameBrigade

LEMMA PoolInvNext == BP!Inv /\ [B!Next]_pool => BP!Inv'
<1>1. BP!Inv /\ [BP!Next]_BP!vars => BP!Inv'
  BY PoolAssumptions, BP!NextInv
<1> QED BY <1>1, SameBrigade

-----------------------------------------------------------------------------
(* What holds of the stacks, the holders of the orders and executing_.      *)

\* The program counters a frame has while another frame is above it.
Calling == {"serial", "stepserial", "help", "wait"}

\* A subtree fits below each frame.
Fits(st) == \A t \in Thread : \A i \in 1..Len(st[t]) :
  st[t][i].depth + Height[st[t][i].node] <= MaxDepth

\* Every call is deeper than its caller, whether a call to a child or help to others.
Deepens(st) == \A t \in Thread : \A i, j \in 1..Len(st[t]) :
  i < j => st[t][i].depth < st[t][j].depth

\* A frame called by a work order executes the node the order is for.
OrdersMatch(st) == \A t \in Thread : \A i \in 1..Len(st[t]) :
  LET f == st[t][i] IN
  f.order # NoOrder =>
    f.depth = f.order.depth /\ f.node = NodeOf(f.order) /\ f.req = f.order.req

\* A thread holds the orders that are on its stack.
Holding(st, h) == \A t \in Thread, o \in Order :
  h[o] = t <=> \E i \in 1..Len(st[t]) : st[t][i].order = o

\* A worker has frames for the sake of an order only.
Started(st) == \A t \in Thread :
  st[t] # <<>> => t \in Joiner \/ st[t][1].order # NoOrder

\* What a frame says by itself.
FrameOK(f) ==
  /\ f.pc \notin {"serial", "stepserial"} => f.index = 1
  /\ f.pc = "serial" => f.index \in 1..Len(Kids[f.node])
  /\ f.pc = "stepserial" => f.index \in 1..Len(StepKids[f.node])
  /\ f.pc \in {"deliver", "dropoff", "clear", "finish"} => f.order # NoOrder
  /\ f.pc = "dropoff" => f.order.nursery[2] = "stepchildren"
  /\ f.pc = "clear" => f.order.nursery[2] = "children"
  /\ f.pc \in {"help", "check", "asleep"} => Multithreaded(Children(f.node))

FramesOK(st) == \A t \in Thread : \A i \in 1..Len(st[t]) :
  FrameOK(st[t][i]) /\ (i < Len(st[t]) => st[t][i].pc \in Calling)

\* A node is executed by one frame at most,
Exclusive(st) == \A t, u \in Thread : \A i \in 1..Len(st[t]), j \in 1..Len(st[u]) :
  Entered(st[t][i]) /\ Entered(st[u][j]) /\ st[t][i].node = st[u][j].node
    => t = u /\ i = j

\* and executing_ is set while there is one.
Marked(st, ex) == \A n \in Node :
  n \in ex <=> \E t \in Thread : \E i \in 1..Len(st[t]) :
                 Entered(st[t][i]) /\ st[t][i].node = n

Shape(st, h, ex) ==
  /\ st \in [Thread -> Seq(Frame)] /\ ex \subseteq Node
  /\ h \in [Order -> Thread \cup {NoThread}]
  /\ Fits(st) /\ Deepens(st) /\ OrdersMatch(st) /\ Holding(st, h) /\ Started(st)
  /\ FramesOK(st) /\ Exclusive(st) /\ Marked(st, ex)

\* Stacks that differ only in program counters, indices and flags.
SameCalls(st, st2) ==
  /\ st2 \in [Thread -> Seq(Frame)]
  /\ \A t \in Thread : Len(st2[t]) = Len(st[t])
  /\ \A t \in Thread : \A i \in 1..Len(st[t]) :
       /\ st2[t][i].node = st[t][i].node /\ st2[t][i].depth = st[t][i].depth
       /\ st2[t][i].order = st[t][i].order /\ st2[t][i].req = st[t][i].req

-----------------------------------------------------------------------------
(* The stacks change by returns, calls, and changes of the top frame.       *)

Changed(st, t, f) == [st EXCEPT ![t] = WithTop(@, f)]

Called(st, t, c) == [st EXCEPT ![t] = Append(@, c)]

Returned(st, t) == [st EXCEPT ![t] = Front(@)]

\* A call by a work order makes the thread hold the order, and its return lets go.
Took(h, t, c) == IF c.order = NoOrder THEN h ELSE [h EXCEPT ![c.order] = t]

LetGo(h, c) == IF c.order = NoOrder THEN h ELSE [h EXCEPT ![c.order] = NoThread]

Left(ex, c) == IF Entered(c) THEN ex \ {c.node} ELSE ex

\* Depths are integers, those of frames included.
LEMMA FrameDepths == \A f \in Frame : f.depth \in 0..MaxDepth /\ f.depth \in Int
<1>1. MaxDepth \in Nat
  BY PoolAssumption DEF B!LimitAssumption
<1>2. ASSUME NEW f \in Frame
      PROVE  f.depth \in 0..MaxDepth
  BY DEF Frame
<1> QED BY <1>1, <1>2

LEMMA FrontFacts ==
  ASSUME NEW s \in Seq(Frame), s # <<>>
  PROVE  /\ Front(s) \in Seq(Frame) /\ Len(Front(s)) = Len(s) - 1
         /\ \A i \in 1..(Len(s) - 1) : Front(s)[i] = s[i]
<1> DEFINE n == Len(s) - 1
<1>1. n \in Int /\ n \in Nat /\ \A i \in 1..n : i \in 1..Len(s) /\ s[i] \in Frame
  OBVIOUS
<1>2. /\ SubSeq(s, 1, n) \in Seq(Frame)
      /\ Len(SubSeq(s, 1, n)) = IF 1 <= n THEN n - 1 + 1 ELSE 0
      /\ \A i \in 1..(n - 1 + 1) : SubSeq(s, 1, n)[i] = s[1 + i - 1]
  <2> HIDE DEF n
  <2> QED BY <1>1, SubSeqProperties
<1>3. n - 1 + 1 = n /\ (n = 0 \/ 1 <= n) /\ \A i \in 1..n : 1 + i - 1 = i
  <2> HIDE DEF n
  <2>1. n \in Nat
    BY <1>1
  <2> QED BY <2>1
<1> QED BY <1>1, <1>2, <1>3 DEF Front

\* The top frame changed,
LEMMA TopChanged ==
  ASSUME NEW s \in Seq(Frame), s # <<>>, NEW f \in Frame
  PROVE  /\ WithTop(s, f) \in Seq(Frame) /\ Len(WithTop(s, f)) = Len(s)
         /\ Len(s) \in Nat /\ Len(s) >= 1
         /\ \A i \in 1..Len(s) : WithTop(s, f)[i] = IF i = Len(s) THEN f ELSE s[i]
<1>1. Len(s) \in Nat /\ Len(s) >= 1
  OBVIOUS
<1>2. /\ Front(s) \in Seq(Frame) /\ Len(Front(s)) = Len(s) - 1
      /\ \A i \in 1..(Len(s) - 1) : Front(s)[i] = s[i]
  BY FrontFacts
<1>3. /\ Append(Front(s), f) \in Seq(Frame)
      /\ Len(Append(Front(s), f)) = Len(Front(s)) + 1
      /\ \A i \in 1..Len(Front(s)) : Append(Front(s), f)[i] = Front(s)[i]
      /\ Append(Front(s), f)[Len(Front(s)) + 1] = f
  BY <1>2, AppendProperties
<1>4. \A i \in 1..Len(s) : i # Len(s) => i \in 1..(Len(s) - 1)
  BY <1>1
<1>5. Len(Front(s)) + 1 = Len(s)
  BY <1>1, <1>2
<1>6. \A i \in 1..Len(s) :
        Append(Front(s), f)[i] = IF i = Len(s) THEN f ELSE s[i]
  BY <1>2, <1>3, <1>4, <1>5
<1> QED BY <1>1, <1>3, <1>5, <1>6 DEF WithTop

\* The new top is the top.
LEMMA LastChanged ==
  ASSUME NEW st \in [Thread -> Seq(Frame)], NEW t \in Thread, st[t] # <<>>, NEW f \in Frame
  PROVE  /\ Changed(st, t, f) \in [Thread -> Seq(Frame)]
         /\ Changed(st, t, f)[t] # <<>> /\ Last(Changed(st, t, f)[t]) = f
<1>1. Changed(st, t, f)[t] = WithTop(st[t], f)
  BY DEF Changed
<1>2. /\ WithTop(st[t], f) \in Seq(Frame) /\ Len(WithTop(st[t], f)) = Len(st[t])
      /\ Len(st[t]) \in Nat /\ Len(st[t]) >= 1
      /\ \A i \in 1..Len(st[t]) : WithTop(st[t], f)[i] = IF i = Len(st[t]) THEN f ELSE st[t][i]
  BY TopChanged
<1>3. Len(st[t]) \in 1..Len(st[t])
  BY <1>2
<1>4. WithTop(st[t], f)[Len(st[t])] = f
  BY <1>2, <1>3
<1>5. WithTop(st[t], f) # <<>>
  BY <1>2
<1>6. Changed(st, t, f) \in [Thread -> Seq(Frame)]
  BY <1>2 DEF Changed
<1> QED BY <1>1, <1>2, <1>4, <1>5, <1>6 DEF Last

\* popped,
LEMMA Popped ==
  ASSUME NEW s \in Seq(Frame), s # <<>>
  PROVE  /\ Front(s) \in Seq(Frame) /\ Len(Front(s)) = Len(s) - 1
         /\ Len(s) \in Nat /\ Len(s) >= 1
         /\ \A i \in 1..Len(Front(s)) : i \in 1..Len(s) /\ Front(s)[i] = s[i]
         /\ Last(s) = s[Len(s)] /\ Last(s) \in Frame /\ Len(s) \in 1..Len(s)
         /\ \A i \in 1..Len(s) : i = Len(s) \/ i \in 1..Len(Front(s))
<1>1. Len(s) \in Nat /\ Len(s) >= 1
  OBVIOUS
<1>2. /\ Front(s) \in Seq(Frame) /\ Len(Front(s)) = Len(s) - 1
      /\ \A i \in 1..(Len(s) - 1) : Front(s)[i] = s[i]
  BY FrontFacts
<1>3. Last(s) = s[Len(s)] /\ s[Len(s)] \in Frame /\ Len(s) \in 1..Len(s)
  BY <1>1 DEF Last
<1>4. \A i \in 1..Len(s) : i = Len(s) \/ i \in 1..(Len(s) - 1)
  BY <1>1
<1>5. \A i \in 1..(Len(s) - 1) : i \in 1..Len(s)
  BY <1>1
<1> QED BY <1>1, <1>2, <1>3, <1>4, <1>5

\* and pushed.
LEMMA Pushed ==
  ASSUME NEW s \in Seq(Frame), NEW f \in Frame
  PROVE  /\ Append(s, f) \in Seq(Frame) /\ Len(Append(s, f)) = Len(s) + 1
         /\ Len(s) \in Nat
         /\ \A i \in 1..Len(s) : i \in 1..(Len(s) + 1) /\ Append(s, f)[i] = s[i]
         /\ Append(s, f)[Len(s) + 1] = f
         /\ \A i \in 1..(Len(s) + 1) : i = Len(s) + 1 \/ i \in 1..Len(s)
<1>1. Len(s) \in Nat
  OBVIOUS
<1> QED BY <1>1, AppendProperties

\* What is said of calls alone is kept by a change of anything else.
LEMMA SameCallsKeep ==
  ASSUME NEW st \in [Thread -> Seq(Frame)], NEW h, NEW st2, SameCalls(st, st2)
  PROVE  /\ Fits(st) => Fits(st2)
         /\ Deepens(st) => Deepens(st2)
         /\ OrdersMatch(st) => OrdersMatch(st2)
         /\ Holding(st, h) => Holding(st2, h)
         /\ Started(st) => Started(st2)
<1> USE DEF SameCalls
<1>1. Fits(st) => Fits(st2)
  BY DEF Fits
<1>2. Deepens(st) => Deepens(st2)
  BY DEF Deepens
<1>3. OrdersMatch(st) => OrdersMatch(st2)
  BY DEF OrdersMatch
<1>4. Holding(st, h) => Holding(st2, h)
  <2>1. ASSUME NEW t \in Thread, NEW o
        PROVE  (\E i \in 1..Len(st[t]) : st[t][i].order = o) <=>
               (\E i \in 1..Len(st2[t]) : st2[t][i].order = o)
    OBVIOUS
  <2>2. SUFFICES ASSUME Holding(st, h), NEW t \in Thread, NEW o \in Order
        PROVE  h[o] = t <=> \E i \in 1..Len(st2[t]) : st2[t][i].order = o
    BY DEF Holding
  <2>3. h[o] = t <=> \E i \in 1..Len(st[t]) : st[t][i].order = o
    BY SMTT(20), <2>2 DEF Holding
  <2> QED BY ZenonT(40), <2>1, <2>3
<1>5. Started(st) => Started(st2)
  <2>1. ASSUME NEW t \in Thread, st2[t] # <<>>
        PROVE  st[t] # <<>> /\ 1 \in 1..Len(st[t])
    BY <2>1
  <2> QED BY <2>1 DEF Started
<1> QED BY <1>1, <1>2, <1>3, <1>4, <1>5

\* Frames that go on without entering or leaving a node keep the shape.
LEMMA ShapeGoesOn ==
  ASSUME NEW st, NEW h, NEW ex, Shape(st, h, ex), NEW st2, SameCalls(st, st2),
         \A t \in Thread : \A i \in 1..Len(st[t]) :
            /\ Entered(st2[t][i]) <=> Entered(st[t][i])
            /\ FrameOK(st2[t][i]) /\ (i < Len(st[t]) => st2[t][i].pc \in Calling)
  PROVE  Shape(st2, h, ex)
<1>1. FramesOK(st2)
  BY DEF FramesOK, SameCalls
<1>2. Exclusive(st2)
  BY DEF Exclusive, SameCalls, Shape
<1>3. Marked(st2, ex)
  BY DEF Marked, SameCalls, Shape
<1>4. st \in [Thread -> Seq(Frame)]
  BY DEF Shape
<1> QED BY <1>1, <1>2, <1>3, <1>4, SameCallsKeep DEF Shape, SameCalls

\* The top frame goes on in the same node.
LEMMA ShapeTopGoesOn ==
  ASSUME NEW st, NEW h, NEW ex, Shape(st, h, ex), NEW t \in Thread, st[t] # <<>>,
         NEW f \in Frame, FrameOK(f), Entered(f) <=> Entered(Last(st[t])),
         f.node = Last(st[t]).node, f.depth = Last(st[t]).depth,
         f.order = Last(st[t]).order, f.req = Last(st[t]).req
  PROVE  Shape(Changed(st, t, f), h, ex)
<1> SUFFICES ASSUME NEW st2, st2 = Changed(st, t, f)
    PROVE  Shape(st2, h, ex)
  OBVIOUS
<1> USE DEF Changed
<1>1. st \in [Thread -> Seq(Frame)]
  BY DEF Shape
<1>2. /\ st2[t] = WithTop(st[t], f) /\ st2 \in [Thread -> Seq(Frame)]
      /\ Len(st2[t]) = Len(st[t]) /\ Len(st[t]) \in Nat
      /\ \A i \in 1..Len(st[t]) : st2[t][i] = IF i = Len(st[t]) THEN f ELSE st[t][i]
      /\ \A u \in Thread \ {t} : st2[u] = st[u]
      /\ Last(st[t]) = st[t][Len(st[t])]
  BY <1>1, TopChanged, Popped
<1>3. SameCalls(st, st2)
  BY <1>2 DEF SameCalls
<1>4. ASSUME NEW u \in Thread, NEW i \in 1..Len(st[u])
      PROVE  /\ Entered(st2[u][i]) <=> Entered(st[u][i])
             /\ FrameOK(st2[u][i]) /\ (i < Len(st[u]) => st2[u][i].pc \in Calling)
  BY <1>2 DEF Shape, FramesOK
<1> QED BY <1>3, <1>4, ShapeGoesOn

\* It enters its node, or leaves it.
LEMMA ShapeEnters ==
  ASSUME NEW st, NEW h, NEW ex, Shape(st, h, ex), NEW t \in Thread, st[t] # <<>>,
         NEW f \in Frame, FrameOK(f),
         f.node = Last(st[t]).node, f.depth = Last(st[t]).depth,
         f.order = Last(st[t]).order, f.req = Last(st[t]).req,
         ~ Entered(Last(st[t])), Entered(f), f.node \notin ex
  PROVE  Shape(Changed(st, t, f), h, ex \cup {f.node})
<1> SUFFICES ASSUME NEW st2, st2 = Changed(st, t, f)
    PROVE  Shape(st2, h, ex \cup {f.node})
  OBVIOUS
<1> USE DEF Changed
<1>1. st \in [Thread -> Seq(Frame)]
  BY DEF Shape
<1> DEFINE L == Len(st[t])
<1>2. /\ st2[t] = WithTop(st[t], f) /\ st2 \in [Thread -> Seq(Frame)]
      /\ Len(st2[t]) = Len(st[t]) /\ L \in Nat /\ L \in 1..L
      /\ \A i \in 1..L : st2[t][i] = IF i = L THEN f ELSE st[t][i]
      /\ \A u \in Thread \ {t} : st2[u] = st[u]
      /\ Last(st[t]) = st[t][L]
  BY <1>1, TopChanged, Popped
<1>3. SameCalls(st, st2)
  BY <1>2 DEF SameCalls
<1>4. FramesOK(st2)
  BY <1>2 DEF Shape, FramesOK
<1>5. ASSUME NEW u \in Thread, NEW i \in 1..Len(st2[u])
      PROVE  /\ i \in 1..Len(st[u])
             /\ (u = t /\ i = L) => st2[u][i] = f
             /\ ~ (u = t /\ i = L) => st2[u][i] = st[u][i]
             /\ ~ (u = t /\ i = L) /\ Entered(st2[u][i]) => st2[u][i].node # f.node
  <2>1. /\ i \in 1..Len(st[u]) /\ (u = t /\ i = L) => st2[u][i] = f
        /\ ~ (u = t /\ i = L) => st2[u][i] = st[u][i]
    BY <1>2
  <2>2. st[u][i] \in Frame
    BY <1>1, <1>2
  <2>3. st[u][i].node \in Node
    BY <2>2 DEF Frame
  <2> QED BY <1>2, <2>1, <2>3 DEF Shape, Marked
<1>6. Exclusive(st2)
  BY <1>5 DEF Exclusive, Shape
<1>7. Marked(st2, ex \cup {f.node})
  <2> SUFFICES ASSUME NEW n \in Node
      PROVE  n \in ex \cup {f.node} <=>
               \E u \in Thread : \E i \in 1..Len(st2[u]) :
                 Entered(st2[u][i]) /\ st2[u][i].node = n
    BY DEF Marked
  <2>1. CASE n = f.node
    <3>1. t \in Thread /\ L \in 1..Len(st2[t]) /\ st2[t][L] = f
      BY <1>2
    <3> QED BY <2>1, <3>1
  <2>2. CASE n # f.node
    <3>1. n \in ex <=> \E u \in Thread : \E i \in 1..Len(st[u]) :
                 Entered(st[u][i]) /\ st[u][i].node = n
      BY DEF Shape, Marked
    <3>2. ASSUME NEW u \in Thread, NEW i \in 1..Len(st[u])
          PROVE  /\ i \in 1..Len(st2[u])
                 /\ Entered(st2[u][i]) /\ st2[u][i].node = n <=>
                    Entered(st[u][i]) /\ st[u][i].node = n
      BY <1>2, <2>2
    <3>3. \A u \in Thread : Len(st2[u]) = Len(st[u])
      BY <1>2
    <3> QED BY <2>2, <3>1, <3>2, <3>3
  <2> QED BY <2>1, <2>2
<1>8. f.node \in Node
  BY DEF Frame
<1>9. Fits(st2) /\ Deepens(st2) /\ OrdersMatch(st2) /\ Holding(st2, h) /\ Started(st2)
  <2>1. Fits(st) /\ Deepens(st) /\ OrdersMatch(st) /\ Holding(st, h) /\ Started(st)
    BY DEF Shape
  <2> QED BY ONLY <1>1, <1>3, <2>1, SameCallsKeep
<1>10. h \in [Order -> Thread \cup {NoThread}] /\ ex \cup {f.node} \subseteq Node
  BY <1>8 DEF Shape
<1> HIDE DEF Changed
<1> QED BY ONLY <1>2, <1>4, <1>6, <1>7, <1>9, <1>10 DEF Shape

LEMMA ShapeLeaves ==
  ASSUME NEW st, NEW h, NEW ex, Shape(st, h, ex), NEW t \in Thread, st[t] # <<>>,
         NEW f \in Frame, FrameOK(f),
         f.node = Last(st[t]).node, f.depth = Last(st[t]).depth,
         f.order = Last(st[t]).order, f.req = Last(st[t]).req,
         Entered(Last(st[t])), ~ Entered(f)
  PROVE  Shape(Changed(st, t, f), h, ex \ {f.node})
<1> SUFFICES ASSUME NEW st2, st2 = Changed(st, t, f)
    PROVE  Shape(st2, h, ex \ {f.node})
  OBVIOUS
<1> USE DEF Changed
<1>1. st \in [Thread -> Seq(Frame)]
  BY DEF Shape
<1> DEFINE L == Len(st[t])
<1>2. /\ st2[t] = WithTop(st[t], f) /\ st2 \in [Thread -> Seq(Frame)]
      /\ Len(st2[t]) = Len(st[t]) /\ L \in Nat /\ L \in 1..L
      /\ \A i \in 1..L : st2[t][i] = IF i = L THEN f ELSE st[t][i]
      /\ \A u \in Thread \ {t} : st2[u] = st[u]
      /\ Last(st[t]) = st[t][L]
  BY <1>1, TopChanged, Popped
<1>3. SameCalls(st, st2)
  BY <1>2 DEF SameCalls
<1>4. FramesOK(st2)
  BY <1>2 DEF Shape, FramesOK
<1>5. \A u \in Thread : \A i \in 1..Len(st2[u]) :
        i \in 1..Len(st[u]) /\
        Entered(st2[u][i]) => ~ (u = t /\ i = L) /\ st2[u][i] = st[u][i]
  BY <1>2
<1>5a. \A u \in Thread : Len(st2[u]) = Len(st[u])
  BY <1>2
<1>6. Exclusive(st2)
  BY <1>5, <1>5a DEF Exclusive, Shape
<1>7. Marked(st2, ex \ {f.node})
  <2> SUFFICES ASSUME NEW n \in Node
      PROVE  n \in ex \ {f.node} <=>
               \E u \in Thread : \E i \in 1..Len(st2[u]) :
                 Entered(st2[u][i]) /\ st2[u][i].node = n
    BY DEF Marked
  <2>1. CASE n = f.node
    <3>1. ASSUME NEW u \in Thread, NEW i \in 1..Len(st2[u]),
                 Entered(st2[u][i]), st2[u][i].node = n
          PROVE  FALSE
      <4>1. i \in 1..Len(st[u]) /\ ~ (u = t /\ i = L) /\ st2[u][i] = st[u][i]
        BY <1>5, <1>5a, <3>1
      <4> QED BY SMTT(20), <1>2, <2>1, <3>1, <4>1 DEF Shape, Exclusive
    <3> QED BY <2>1, <3>1
  <2>2. CASE n # f.node
    <3>1. n \in ex <=> \E u \in Thread : \E i \in 1..Len(st[u]) :
                 Entered(st[u][i]) /\ st[u][i].node = n
      BY DEF Shape, Marked
    <3>2. ASSUME NEW u \in Thread, NEW i \in 1..Len(st[u])
          PROVE  /\ i \in 1..Len(st2[u])
                 /\ Entered(st2[u][i]) /\ st2[u][i].node = n <=>
                    Entered(st[u][i]) /\ st[u][i].node = n
      BY <1>2, <2>2
    <3>3. \A u \in Thread : Len(st2[u]) = Len(st[u])
      BY <1>2
    <3> QED BY <2>2, <3>1, <3>2, <3>3
  <2> QED BY <2>1, <2>2
<1> QED BY <1>1, <1>2, <1>3, <1>4, <1>6, <1>7, SameCallsKeep DEF Shape

\* A thread calls a deeper node, having taken the order for it if it is one's.
LEMMA ShapeCalls ==
  ASSUME NEW st, NEW h, NEW ex, Shape(st, h, ex), NEW t \in Thread,
         NEW c \in Frame, c.pc = "enter", c.index = 1, c.depth + Height[c.node] <= MaxDepth,
         st[t] # <<>> => Last(st[t]).pc \in Calling /\ Last(st[t]).depth < c.depth,
         c.order # NoOrder =>
            /\ c.depth = c.order.depth /\ c.node = NodeOf(c.order)
            /\ c.req = c.order.req /\ h[c.order] = NoThread,
         st[t] = <<>> => t \in Joiner \/ c.order # NoOrder
  PROVE  Shape(Called(st, t, c), Took(h, t, c), ex)
<1> SUFFICES ASSUME NEW st2, st2 = Called(st, t, c), NEW h2, h2 = Took(h, t, c)
    PROVE  Shape(st2, h2, ex)
  OBVIOUS
<1> USE DEF Called, Took
<1> DEFINE L == Len(st[t])
<1>1. /\ st \in [Thread -> Seq(Frame)] /\ h \in [Order -> Thread \cup {NoThread}]
      /\ t # NoThread
  BY PoolAssumption DEF Shape, B!ThreadAssumption
<1>2. /\ st2 \in [Thread -> Seq(Frame)] /\ st2[t] = Append(st[t], c)
      /\ Len(st2[t]) = L + 1 /\ L \in Nat /\ L + 1 \in 1..Len(st2[t]) /\ st2[t][L + 1] = c
      /\ \A i \in 1..L : i \in 1..Len(st2[t]) /\ st2[t][i] = st[t][i]
      /\ \A u \in Thread \ {t} : st2[u] = st[u]
  <2>1. st2 \in [Thread -> Seq(Frame)] /\ st2[t] = Append(st[t], c)
    BY <1>1, Pushed
  <2>2. L \in Nat /\ Len(st2[t]) = L + 1
    BY <1>1, <2>1, Pushed
  <2> QED BY <1>1, <2>1, <2>2, Pushed
<1>3. ASSUME NEW u \in Thread, NEW i \in 1..Len(st2[u])
      PROVE  \/ u = t /\ i = L + 1 /\ st2[u][i] = c
             \/ i \in 1..Len(st[u]) /\ st2[u][i] = st[u][i]
  BY <1>2
<1>4. ASSUME NEW u \in Thread, NEW i \in 1..Len(st[u])
      PROVE  i \in 1..Len(st2[u]) /\ st2[u][i] = st[u][i] /\ ~ (u = t /\ i = L + 1)
  BY <1>2
<1>5. Fits(st2)
  BY <1>3 DEF Shape, Fits
<1>6. Deepens(st2)
  <2> SUFFICES ASSUME NEW u \in Thread, NEW i \in 1..Len(st2[u]), NEW j \in 1..Len(st2[u]),
                      i < j
      PROVE  st2[u][i].depth < st2[u][j].depth
    BY DEF Deepens
  <2>1. CASE u = t /\ j = L + 1
    <3>1. i \in 1..L /\ st2[u][i] = st[t][i] /\ st2[u][j] = c
      BY <1>2, <2>1
    <3>2. st[t] # <<>> /\ Last(st[t]) = st[t][L] /\ L \in 1..L
      <4>1. st[t] # <<>>
        BY <1>1, <3>1
      <4> QED BY <1>1, <4>1, Popped
    <3>3. st[t][i] \in Frame /\ st[t][L] \in Frame
      BY <1>1, <3>1, <3>2
    <3>5. st[t][i].depth \in Int /\ st[t][L].depth \in Int /\ c.depth \in Int
      BY <3>3, FrameDepths
    <3>4. st[t][i].depth <= st[t][L].depth
      <4>1. Deepens(st)
        BY DEF Shape
      <4>2. i < L => st[t][i].depth < st[t][L].depth
        BY <3>1, <3>2, <4>1 DEF Deepens
      <4>3. i = L \/ i < L
        BY <3>1
      <4> QED BY <3>5, <4>2, <4>3
    <3>6. st[t][L].depth < c.depth
      BY <3>2
    <3>7. st[t][i].depth < c.depth
      BY <3>4, <3>5, <3>6
    <3> QED BY <3>1, <3>7
  <2>2. CASE ~ (u = t /\ j = L + 1)
    <3>1. /\ i \in 1..Len(st[u]) /\ st2[u][i] = st[u][i]
          /\ j \in 1..Len(st[u]) /\ st2[u][j] = st[u][j]
      BY <1>2, <1>3, <2>2
    <3> QED BY <3>1 DEF Shape, Deepens
  <2> QED BY <2>1, <2>2
<1>7. OrdersMatch(st2)
  BY <1>3 DEF Shape, OrdersMatch
<1>8. c.order \in Order \cup {NoOrder}
  BY DEF Frame
<1>9. Holding(st2, h2) /\ h2 \in [Order -> Thread \cup {NoThread}]
  <2>1. ASSUME NEW u \in Thread, NEW o \in Order
        PROVE  h2[o] = u <=> \E i \in 1..Len(st2[u]) : st2[u][i].order = o
    <3>1. h[o] = u <=> \E i \in 1..Len(st[u]) : st[u][i].order = o
      BY DEF Shape, Holding
    <3>2. o # NoOrder
      BY OrderFacts
    <3>3. CASE c.order = o
      <4>1. h2[o] = t /\ h[o] = NoThread
        BY <1>1, <1>8, <3>2, <3>3
      <4>2. CASE u = t
        BY <1>2, <3>3, <4>1, <4>2
      <4>3. CASE u # t
        <5>1. st2[u] = st[u] /\ h[o] # u
          BY <1>2, <4>1, <4>3, PoolAssumption DEF B!ThreadAssumption
        <5> QED BY <3>1, <4>1, <4>3, <5>1
      <4> QED BY <4>2, <4>3
    <3>4. CASE c.order # o
      <4>1. h2[o] = h[o]
        BY <1>1, <3>4
      <4> QED BY <1>3, <1>4, <3>1, <3>4, <4>1
    <3> QED BY <3>3, <3>4
  <2> QED BY <1>1, <1>8, <2>1 DEF Holding
<1>10. FramesOK(st2)
  <2> SUFFICES ASSUME NEW u \in Thread, NEW i \in 1..Len(st2[u])
      PROVE  FrameOK(st2[u][i]) /\ (i < Len(st2[u]) => st2[u][i].pc \in Calling)
    BY DEF FramesOK
  <2>1. CASE u = t /\ i = L + 1
    BY <1>2, <2>1 DEF FrameOK
  <2>2. CASE ~ (u = t /\ i = L + 1)
    <3>1. i \in 1..Len(st[u]) /\ st2[u][i] = st[u][i]
      BY <1>3, <2>2
    <3>2. FrameOK(st[u][i]) /\ (i < Len(st[u]) => st[u][i].pc \in Calling)
      BY <3>1 DEF Shape, FramesOK
    <3>3. CASE u = t /\ i = L
      <4>1. st[t] # <<>> /\ Last(st[t]) = st[t][L]
        <5>1. st[t] # <<>>
          BY <1>1, <3>1, <3>3
        <5> QED BY <1>1, <5>1, Popped
      <4> QED BY <3>1, <3>2, <3>3, <4>1
    <3>4. CASE ~ (u = t /\ i = L)
      BY <1>2, <3>1, <3>2, <3>4
    <3> QED BY <3>3, <3>4
  <2> QED BY <2>1, <2>2
<1>11. ~ Entered(c)
  BY DEF Entered
<1>12. Exclusive(st2)
  <2> SUFFICES ASSUME NEW u \in Thread, NEW v \in Thread,
                      NEW i \in 1..Len(st2[u]), NEW j \in 1..Len(st2[v]),
                      Entered(st2[u][i]), Entered(st2[v][j]),
                      st2[u][i].node = st2[v][j].node
      PROVE  u = v /\ i = j
    BY DEF Exclusive
  <2>1. /\ i \in 1..Len(st[u]) /\ st2[u][i] = st[u][i]
        /\ j \in 1..Len(st[v]) /\ st2[v][j] = st[v][j]
    BY <1>3, <1>11
  <2>2. Exclusive(st)
    BY DEF Shape
  <2> QED BY ONLY <2>1, <2>2, Entered(st2[u][i]), Entered(st2[v][j]),
             st2[u][i].node = st2[v][j].node, u \in Thread, v \in Thread DEF Exclusive
<1>13. Marked(st2, ex)
  <2> SUFFICES ASSUME NEW n \in Node
      PROVE  n \in ex <=> \E u \in Thread : \E i \in 1..Len(st2[u]) :
                            Entered(st2[u][i]) /\ st2[u][i].node = n
    BY DEF Marked
  <2>1. n \in ex <=> \E u \in Thread : \E i \in 1..Len(st[u]) :
                       Entered(st[u][i]) /\ st[u][i].node = n
    BY DEF Shape, Marked
  <2> QED BY <1>3, <1>4, <1>11, <2>1
<1>14. Started(st2)
  <2>1. CASE st[t] = <<>>
    <3>1. st2[t][1] = c
      BY <1>2, <2>1
    <3> QED BY <1>2, <2>1, <3>1 DEF Shape, Started
  <2>2. CASE st[t] # <<>>
    <3>1. 1 \in 1..L
      BY <1>1, <1>2, <2>2
    <3>2. st2[t][1] = st[t][1]
      BY <1>2, <3>1
    <3> QED BY <1>2, <2>2, <3>2 DEF Shape, Started
  <2> QED BY <2>1, <2>2
<1> QED BY <1>2, <1>5, <1>6, <1>7, <1>9, <1>10, <1>12, <1>13, <1>14 DEF Shape

\* A call returns, and its order, if it was one's, is finished with.
LEMMA ShapeReturns ==
  ASSUME NEW st, NEW h, NEW ex, Shape(st, h, ex), NEW t \in Thread, st[t] # <<>>
  PROVE  Shape(Returned(st, t), LetGo(h, Last(st[t])), Left(ex, Last(st[t])))
<1> SUFFICES ASSUME NEW c, c = Last(st[t]), NEW st2, st2 = Returned(st, t),
                    NEW h2, h2 = LetGo(h, c), NEW ex2, ex2 = Left(ex, c)
    PROVE  Shape(st2, h2, ex2)
  OBVIOUS
<1> USE DEF Returned, LetGo, Left
<1> DEFINE L == Len(st[t])
<1>1. /\ st \in [Thread -> Seq(Frame)] /\ h \in [Order -> Thread \cup {NoThread}]
      /\ t # NoThread /\ ex \subseteq Node
  BY PoolAssumption DEF Shape, B!ThreadAssumption
<1>2. /\ st2 \in [Thread -> Seq(Frame)] /\ Len(st2[t]) = L - 1 /\ L \in Nat
      /\ L \in 1..L /\ st[t][L] = c /\ c \in Frame
      /\ \A i \in 1..Len(st2[t]) : i \in 1..L /\ i # L /\ st2[t][i] = st[t][i]
      /\ \A i \in 1..L : i = L \/ i \in 1..Len(st2[t])
      /\ \A u \in Thread \ {t} : st2[u] = st[u]
  <2>1. st2 \in [Thread -> Seq(Frame)] /\ st2[t] = Front(st[t])
    BY <1>1, Popped
  <2>2. L \in Nat /\ Len(st2[t]) = L - 1 /\ L \in 1..L /\ st[t][L] = c /\ c \in Frame
    BY <1>1, <2>1, Popped
  <2>3. /\ \A i \in 1..Len(st2[t]) : i \in 1..L /\ st2[t][i] = st[t][i]
        /\ \A i \in 1..L : i = L \/ i \in 1..Len(st2[t])
    BY <1>1, <2>1, Popped
  <2> QED BY <1>1, <2>1, <2>2, <2>3
<1>3. ASSUME NEW u \in Thread, NEW i \in 1..Len(st2[u])
      PROVE  i \in 1..Len(st[u]) /\ st2[u][i] = st[u][i] /\ ~ (u = t /\ i = L)
  BY <1>2
<1>4. ASSUME NEW u \in Thread, NEW i \in 1..Len(st[u]), ~ (u = t /\ i = L)
      PROVE  i \in 1..Len(st2[u]) /\ st2[u][i] = st[u][i]
  BY <1>2, <1>4
<1>5. Fits(st2) /\ Deepens(st2) /\ OrdersMatch(st2)
  <2>1. Fits(st2)
    BY <1>3 DEF Shape, Fits
  <2>2. Deepens(st2)
    BY <1>3 DEF Shape, Deepens
  <2>3. OrdersMatch(st2)
    <3>1. OrdersMatch(st)
      BY DEF Shape
    <3> QED BY ONLY SMTT(20), <1>3, <3>1 DEF OrdersMatch
  <2> QED BY <2>1, <2>2, <2>3
<1>6. c.order \in Order \cup {NoOrder} /\ c.node \in Node
  BY <1>2 DEF Frame
<1>7. ASSUME NEW i \in 1..Len(st2[t]), c.order # NoOrder
      PROVE  st2[t][i].order # c.order
  <2>1. /\ i \in 1..L /\ i # L /\ st2[t][i] = st[t][i] /\ st[t][i] \in Frame /\ i < L
    BY <1>1, <1>2
  <2>2. st[t][i].depth < c.depth
    BY SMTT(20), <1>2, <2>1 DEF Shape, Deepens
  <2>3. c.depth = c.order.depth
    BY <1>2, <1>7 DEF Shape, OrdersMatch
  <2>4. st[t][i].order = c.order => st[t][i].depth = c.order.depth
    BY <2>1, <1>7 DEF Shape, OrdersMatch
  <2>5. c.depth \in Int
    BY <1>2, FrameDepths
  <2> QED BY <2>1, <2>2, <2>3, <2>4, <2>5
<1>8. Holding(st2, h2) /\ h2 \in [Order -> Thread \cup {NoThread}]
  <2>1. ASSUME NEW u \in Thread, NEW o \in Order
        PROVE  h2[o] = u <=> \E i \in 1..Len(st2[u]) : st2[u][i].order = o
    <3>1. h[o] = u <=> \E i \in 1..Len(st[u]) : st[u][i].order = o
      BY DEF Shape, Holding
    <3>2. o # NoOrder /\ u # NoThread
      BY OrderFacts, PoolAssumption DEF B!ThreadAssumption
    <3>3. CASE c.order = o
      <4>1. h2[o] = NoThread /\ h[o] = t
        <5>1. h[o] = t <=> \E i \in 1..Len(st[t]) : st[t][i].order = o
          BY DEF Shape, Holding
        <5> QED BY <1>1, <1>2, <1>6, <3>2, <3>3, <5>1
      <4>2. CASE u = t
        BY <1>7, <3>2, <3>3, <4>1, <4>2
      <4>3. CASE u # t
        BY <1>2, <3>1, <3>2, <4>1, <4>3
      <4> QED BY <4>2, <4>3
    <3>4. CASE c.order # o
      <4>1. h2[o] = h[o]
        BY <1>1, <3>4
      <4> QED BY <1>2, <1>3, <1>4, <3>1, <3>4, <4>1
    <3> QED BY <3>3, <3>4
  <2> QED BY <1>1, <1>6, <2>1 DEF Holding
<1>9. FramesOK(st2)
  <2> SUFFICES ASSUME NEW u \in Thread, NEW i \in 1..Len(st2[u])
      PROVE  FrameOK(st2[u][i]) /\ (i < Len(st2[u]) => st2[u][i].pc \in Calling)
    BY DEF FramesOK
  <2>1. i \in 1..Len(st[u]) /\ st2[u][i] = st[u][i]
    BY <1>3
  <2>2. FrameOK(st[u][i]) /\ (i < Len(st[u]) => st[u][i].pc \in Calling)
    BY <2>1 DEF Shape, FramesOK
  <2>3. i < Len(st2[u]) => i < Len(st[u])
    BY <1>2, <2>1
  <2> QED BY <2>1, <2>2, <2>3
<1>10. Exclusive(st2)
  BY <1>3 DEF Shape, Exclusive
<1>11. Marked(st2, ex2)
  <2> SUFFICES ASSUME NEW n \in Node
      PROVE  n \in ex2 <=> \E u \in Thread : \E i \in 1..Len(st2[u]) :
                             Entered(st2[u][i]) /\ st2[u][i].node = n
    BY DEF Marked
  <2>1. n \in ex <=> \E u \in Thread : \E i \in 1..Len(st[u]) :
                       Entered(st[u][i]) /\ st[u][i].node = n
    BY DEF Shape, Marked
  <2>2. CASE Entered(c) /\ n = c.node
    <3>1. ASSUME NEW u \in Thread, NEW i \in 1..Len(st2[u]),
                 Entered(st2[u][i]), st2[u][i].node = n
          PROVE  FALSE
      <4>1. i \in 1..Len(st[u]) /\ ~ (u = t /\ i = L) /\ st2[u][i] = st[u][i]
        BY <1>3
      <4> QED BY <1>2, <2>2, <3>1, <4>1 DEF Shape, Exclusive
    <3> QED BY <2>2, <3>1
  <2>3. CASE ~ (Entered(c) /\ n = c.node)
    <3>1. n \in ex2 <=> n \in ex
      BY <2>3
    <3> QED BY <1>2, <1>3, <1>4, <2>1, <2>3, <3>1
  <2> QED BY <2>2, <2>3
<1>12. Started(st2)
  <2>1. ASSUME st2[t] # <<>>
        PROVE  1 \in 1..Len(st2[t])
    BY <1>2, <2>1
  <2>2. st2[t] # <<>> => st[t] # <<>> /\ st2[t][1] = st[t][1]
    BY <1>2, <2>1
  <2> QED BY <1>2, <2>2 DEF Shape, Started
<1> QED BY <1>1, <1>2, <1>5, <1>8, <1>9, <1>10, <1>11, <1>12 DEF Shape

\* A frame calls a deeper node and goes on to wait for it.
LEMMA ShapeCallsFrom ==
  ASSUME NEW st, NEW h, NEW ex, Shape(st, h, ex), NEW t \in Thread, st[t] # <<>>,
         NEW f \in Frame, FrameOK(f), Entered(f) <=> Entered(Last(st[t])),
         f.node = Last(st[t]).node, f.depth = Last(st[t]).depth,
         f.order = Last(st[t]).order, f.req = Last(st[t]).req, f.pc \in Calling,
         NEW c \in Frame, c.pc = "enter", c.index = 1, c.depth + Height[c.node] <= MaxDepth,
         f.depth < c.depth,
         c.order # NoOrder =>
            /\ c.depth = c.order.depth /\ c.node = NodeOf(c.order)
            /\ c.req = c.order.req /\ h[c.order] = NoThread
  PROVE  Shape(Called(Changed(st, t, f), t, c), Took(h, t, c), ex)
<1> DEFINE st1 == Changed(st, t, f)
<1>0. st \in [Thread -> Seq(Frame)]
  BY DEF Shape
<1>1. Shape(st1, h, ex)
  BY ShapeTopGoesOn
<1>2. st1[t] # <<>> => Last(st1[t]).pc \in Calling /\ Last(st1[t]).depth < c.depth
  BY <1>0, LastChanged
<1>3. st1[t] # <<>>
  BY <1>0, LastChanged
<1> QED BY <1>1, <1>2, <1>3, ShapeCalls

-----------------------------------------------------------------------------
(* The invariant.                                                           *)

\* Every order on the queue has room below it.
QueueFits == \A i \in 1..Len(queue) :
  queue[i].depth + Height[NodeOf(queue[i])] <= MaxDepth

\* A thread with frames is busy.
Running == \A t \in Thread : stack[t] # <<>> => wstate[t] = "BUSY"

\* The types of what is not the pool's, the stacks or executing_.
Typed ==
  /\ poll \in [Nursery -> PollState]
  /\ DOMAIN results = Node
  /\ \A n \in Node : results[n] \in [1..Len(Kids[n]) -> Result]
  /\ verdict \in Verdicts
  /\ abortFlag \in BOOLEAN
  /\ round \in 0..Rounds
  /\ answers \in Seq(SUBSET Flag)

Inv ==
  /\ BP!Inv /\ Shape(stack, holder, executing)
  /\ QueueFits /\ Running /\ Typed

\* The facts about the pool that are used of it.
LEMMA PoolFacts ==
  ASSUME Inv
  PROVE  /\ queue \in Seq(Order) /\ wstate \in [Thread -> {"none", "IDLE", "BUSY"}]
         /\ holder \in [Order -> Thread \cup {NoThread}]
         /\ \A i \in 1..Len(queue) : holder[queue[i]] = NoThread
         /\ NoThread \notin Thread /\ Joiner \subseteq Thread /\ MaxDepth \in Nat
BY PoolAssumptions DEF Inv, BP!Inv, BP!TypeOK, BP!ThreadState, BP!ExclusiveOrders,
   BP!ThreadAssumption, BP!LimitAssumption

\* The frame a thread is in.
LEMMA TopFacts ==
  ASSUME Inv, NEW t \in Thread, stack[t] # <<>>
  PROVE  /\ stack[t] \in Seq(Frame) /\ Len(stack[t]) \in 1..Len(stack[t])
         /\ Len(stack[t]) \in Nat
         /\ Top(t) = stack[t][Len(stack[t])] /\ Top(t) = Last(stack[t]) /\ Top(t) \in Frame
         /\ Top(t).node \in Node /\ Top(t).depth \in Nat /\ Top(t).req \in Request
         /\ Top(t).order \in Order \cup {NoOrder} /\ Top(t).flags \in SUBSET Flag
         /\ Top(t).index \in Nat
         /\ Top(t).depth + Height[Top(t).node] <= MaxDepth
         /\ FrameOK(Top(t)) /\ wstate[t] = "BUSY"
<1>1. stack \in [Thread -> Seq(Frame)]
  BY DEF Inv, Shape
<1>2. /\ stack[t] \in Seq(Frame) /\ Len(stack[t]) \in 1..Len(stack[t])
      /\ Len(stack[t]) \in Nat
      /\ Top(t) = stack[t][Len(stack[t])] /\ Top(t) = Last(stack[t]) /\ Top(t) \in Frame
  BY <1>1, Popped DEF Top
<1>3. FrameOK(Top(t)) /\ Top(t).depth + Height[Top(t).node] <= MaxDepth
  BY <1>2 DEF Inv, Shape, FramesOK, Fits
<1>4. /\ Top(t).node \in Node /\ Top(t).depth \in Nat /\ Top(t).req \in Request
      /\ Top(t).order \in Order \cup {NoOrder} /\ Top(t).flags \in SUBSET Flag
      /\ Top(t).index \in Nat
  BY <1>2, PoolFacts DEF Frame
<1> QED BY <1>2, <1>3, <1>4 DEF Inv, Running

\* A thread polls below all the orders it holds.
LEMMA MayPoll ==
  ASSUME Inv, NEW t \in Thread, stack[t] # <<>>, NEW m \in Nat, Top(t).depth < m
  PROVE  B!PollsAt(t, m)
<1> DEFINE L == Len(stack[t])
<1>1. ASSUME NEW o \in Order, holder[o] = t
      PROVE  DepthOf[o] < m
  <2>1. PICK i \in 1..L : stack[t][i].order = o
    BY <1>1 DEF Inv, Shape, Holding
  <2>2. stack[t][i] \in Frame /\ stack[t][i].depth = o.depth /\ DepthOf[o] = o.depth
    BY SMTT(20), <2>1, TopFacts, OrderFacts DEF Inv, Shape, OrdersMatch
  <2>3. stack[t][i].depth <= Top(t).depth
    <3>1. L \in Nat /\ L \in 1..L /\ Top(t) = stack[t][L]
      BY TopFacts
    <3>2. i < L => stack[t][i].depth < stack[t][L].depth
      BY <3>1 DEF Inv, Shape, Deepens
    <3>3. stack[t][i].depth \in Int /\ stack[t][L].depth \in Int
      <4>1. stack[t][L] \in Frame
        BY <3>1, TopFacts
      <4> QED BY <2>2, <4>1, FrameDepths
    <3>4. i < L \/ i = L
      BY <3>1
    <3> QED BY <3>1, <3>2, <3>3, <3>4
  <2>4. stack[t][i].depth \in Int
    BY <2>2, FrameDepths
  <2> QED BY <2>2, <2>3, <2>4, TopFacts
<1>2. t \in Joiner \/ B!HeldBy(t) # {}
  <2> SUFFICES ASSUME t \notin Joiner
      PROVE  B!HeldBy(t) # {}
    OBVIOUS
  <2>1. 1 \in 1..L /\ stack[t][1].order # NoOrder /\ stack[t][1] \in Frame
    <3>1. L \in Nat /\ L >= 1 /\ stack[t] \in Seq(Frame)
      BY TopFacts
    <3> QED BY <3>1 DEF Inv, Shape, Started
  <2>2. stack[t][1].order \in Order
    BY <2>1 DEF Frame
  <2>3. holder[stack[t][1].order] = t
    BY <2>1, <2>2 DEF Inv, Shape, Holding
  <2> QED BY <2>2, <2>3 DEF B!HeldBy
<1> QED BY <1>1, <1>2, TopFacts DEF B!PollsAt, B!HeldBy

\* Nobody stops being busy because a worker is awakened,
LEMMA AwakenStates ==
  ASSUME NEW q, NEW n, NEW i, NEW ws \in [Thread -> {"none", "IDLE", "BUSY"}], NEW sl,
         B!AwakenWorker(q, n, i, ws, sl)
  PROVE  \A u \in Thread : ws[u] = "BUSY" => wstate'[u] = "BUSY"
<1>1. CASE B!AwakenNobody(q, n, i, ws, sl)
  BY <1>1 DEF B!AwakenNobody
<1>2. CASE B!AwakenNewWorker(q, n, i, ws, sl)
  BY <1>2 DEF B!AwakenNewWorker
<1>3. CASE B!AwakenSleeper(q, n, i, ws, sl)
  BY <1>3 DEF B!AwakenSleeper
<1> QED BY <1>1, <1>2, <1>3 DEF B!AwakenWorker

\* or because an order is taken.
LEMMA TakeHeadStates ==
  ASSUME Inv, NEW t \in Thread, NEW q, B!TakeHead(t, q)
  PROVE  /\ queue' = Tail(q) /\ holder' = [holder EXCEPT ![Head(q)] = t]
         /\ wstate'[t] = "BUSY"
         /\ \A u \in Thread : wstate[u] = "BUSY" => wstate'[u] = "BUSY"
<1> DEFINE ws == [wstate EXCEPT ![t] = "BUSY"]
           n1 == [nthr EXCEPT ![DepthOf[Head(q)]] = @ + 1]
           i1 == IF wstate[t] = "IDLE" /\ nidle > 0 THEN nidle - 1 ELSE nidle
<1>1. ws \in [Thread -> {"none", "IDLE", "BUSY"}]
  BY PoolFacts
<1>2. /\ queue' = Tail(q) /\ holder' = [holder EXCEPT ![Head(q)] = t]
      /\ B!AwakenWorker(Tail(q), n1, i1, ws, asleep)
  BY DEF B!TakeHead
<1>3. ws[t] = "BUSY" /\ \A u \in Thread : wstate[u] = "BUSY" => ws[u] = "BUSY"
  BY PoolFacts
<1>4. \A u \in Thread : ws[u] = "BUSY" => wstate'[u] = "BUSY"
  <2> HIDE DEF ws, n1, i1
  <2> QED BY <1>1, <1>2, AwakenStates
<1> QED BY <1>2, <1>3, <1>4

-----------------------------------------------------------------------------
(* What a step does to the invariant, by the way it changes the stack.      *)

\* Types are kept where nothing changes.
LEMMA TypedKept ==
  ASSUME Inv, UNCHANGED <<poll, results, control>>
  PROVE  Typed'
BY DEF Inv, Typed, control

\* A step of a thread that has frames leaves the others' alone.
LEMMA RunningKept ==
  ASSUME Inv, NEW t \in Thread, stack[t] # <<>>, NEW e, stack' = [stack EXCEPT ![t] = e],
         \A u \in Thread : wstate[u] = "BUSY" => wstate'[u] = "BUSY"
  PROVE  Running'
<1>1. stack \in [Thread -> Seq(Frame)]
  BY DEF Inv, Shape
<1>2. \A u \in Thread : stack'[u] # <<>> => stack[u] # <<>>
  BY <1>1
<1> QED BY <1>2 DEF Inv, Running

\* The thread goes on in its top frame.
LEMMA GoesOn ==
  ASSUME Inv, NEW t \in Thread, stack[t] # <<>>,
         NEW f \in Frame, FrameOK(f), Entered(f) <=> Entered(Top(t)),
         f.node = Top(t).node, f.depth = Top(t).depth,
         f.order = Top(t).order, f.req = Top(t).req,
         stack' = [stack EXCEPT ![t] = WithTop(@, f)],
         UNCHANGED <<holder, executing, wstate>>, BP!Inv', QueueFits', Typed'
  PROVE  Inv'
<1>1. stack' = Changed(stack, t, f)
  BY DEF Changed
<1>2. Shape(stack, holder, executing) /\ Top(t) = Last(stack[t])
  BY TopFacts DEF Inv
<1>3. Shape(Changed(stack, t, f), holder, executing)
  BY <1>2, ShapeTopGoesOn
<1>4. Running'
  BY RunningKept
<1> QED BY <1>1, <1>3, <1>4 DEF Inv

\* The same, when only the program counter changes.
LEMMA GoesTo ==
  ASSUME Inv, NEW t \in Thread, stack[t] # <<>>, NEW pc \in PC, Goto(t, pc),
         FrameOK([Top(t) EXCEPT !.pc = pc]),
         Entered([Top(t) EXCEPT !.pc = pc]) <=> Entered(Top(t)),
         UNCHANGED <<pool, executing>>, Typed'
  PROVE  Inv'
<1> DEFINE f == [Top(t) EXCEPT !.pc = pc]
<1>1. Top(t) \in Frame
  BY TopFacts
<1>2. /\ f \in Frame /\ f.node = Top(t).node /\ f.depth = Top(t).depth
      /\ f.order = Top(t).order /\ f.req = Top(t).req
  BY <1>1 DEF Frame
<1>3. stack' = [stack EXCEPT ![t] = WithTop(@, f)]
  BY DEF Goto
<1>4. BP!Inv' /\ QueueFits' /\ UNCHANGED <<holder, executing, wstate>>
  <2>1. BP!Inv'
    BY PoolInvNext DEF Inv
  <2> QED BY <2>1 DEF Inv, QueueFits, pool
<1> QED BY <1>2, <1>3, <1>4, GoesOn

\* The thread calls a child of its top frame's node.
LEMMA CallsChild ==
  ASSUME Inv, NEW t \in Thread, stack[t] # <<>>, NEW pc \in Calling,
         NEW nu \in Nursery, nu[1] = Top(t).node, NEW i \in 1..Len(Members(nu)),
         GotoAndCall(t, pc, ChildCall(Top(t), nu, i)),
         FrameOK([Top(t) EXCEPT !.pc = pc]), Entered(Top(t)),
         UNCHANGED <<pool, executing>>, Typed'
  PROVE  Inv'
<1> DEFINE f == [Top(t) EXCEPT !.pc = pc]
           c == ChildCall(Top(t), nu, i)
<1>1. /\ Top(t) \in Frame /\ Top(t).depth \in Nat /\ Top(t).req \in Request
      /\ Top(t).depth + Height[Top(t).node] <= MaxDepth /\ MaxDepth \in Nat
  BY TopFacts, PoolFacts
<1>2. /\ f \in Frame /\ f.node = Top(t).node /\ f.depth = Top(t).depth
      /\ f.order = Top(t).order /\ f.req = Top(t).req /\ f.pc = pc
  BY <1>1 DEF Frame, Calling, PC
<1>3. Entered(f)
  BY <1>2 DEF Entered, Calling
<1>4. /\ Members(nu)[i] \in Node /\ Height[Members(nu)[i]] \in Nat
      /\ Height[nu[1]] \in Nat /\ Height[Members(nu)[i]] < Height[nu[1]]
  <2>1. Members(nu)[i] \in Node /\ nu[1] \in Node
    BY MembersAreNodes
  <2>2. \A n \in Node : Height[n] \in Nat
    BY HeightDecreases, PoolFacts
  <2> QED BY <2>1, <2>2, HeightDecreases
<1>5. /\ c.pc = "enter" /\ c.index = 1 /\ c.order = NoOrder /\ c.depth = Top(t).depth + 1
      /\ c.node = Members(nu)[i] /\ c.req = Top(t).req
  BY DEF ChildCall, Call
<1>6. c.depth + Height[c.node] <= MaxDepth /\ c.depth \in 0..MaxDepth /\ f.depth < c.depth
  BY <1>1, <1>2, <1>4, <1>5
<1>7. c \in Frame
  BY <1>1, <1>4, <1>5, <1>6 DEF Frame, ChildCall, Call, PC
<1>8. stack' = Called(Changed(stack, t, f), t, c) /\ Took(holder, t, c) = holder
  <2>1. stack \in [Thread -> Seq(Frame)]
    BY DEF Inv, Shape
  <2>2. stack' = [stack EXCEPT ![t] = Append(WithTop(@, f), c)]
    BY DEF GotoAndCall
  <2>3. Took(holder, t, c) = holder
    BY <1>5 DEF Took
  <2> HIDE DEF f, c
  <2> QED BY <2>1, <2>2, <2>3 DEF Called, Changed
<1>9. Shape(stack', holder, executing)
  <2>1. Shape(stack, holder, executing) /\ Top(t) = Last(stack[t])
    BY TopFacts DEF Inv
  <2>2. FrameOK(f) /\ f.pc \in Calling /\ (Entered(f) <=> Entered(Last(stack[t])))
    BY <1>2, <1>3, <2>1
  <2>3. /\ f.node = Last(stack[t]).node /\ f.depth = Last(stack[t]).depth
        /\ f.order = Last(stack[t]).order /\ f.req = Last(stack[t]).req
    BY <1>2, <2>1
  <2> HIDE DEF f, c
  <2>4. Shape(Called(Changed(stack, t, f), t, c), Took(holder, t, c), executing)
    BY <1>2, <1>5, <1>6, <1>7, <2>1, <2>2, <2>3, ShapeCallsFrom
  <2> QED BY <1>8, <2>4
<1>10. Running'
  BY RunningKept DEF GotoAndCall, pool
<1>11. BP!Inv' /\ QueueFits' /\ holder' = holder
  <2>1. BP!Inv'
    BY PoolInvNext DEF Inv
  <2> QED BY <2>1 DEF Inv, QueueFits, pool
<1> QED BY <1>9, <1>10, <1>11 DEF Inv

\* The frame a work order starts.
LEMMA OrderCallFacts ==
  ASSUME NEW o \in Order, o.depth + Height[NodeOf(o)] <= MaxDepth
  PROVE  LET c == OrderCall(o) IN
         /\ c \in Frame /\ c.pc = "enter" /\ c.index = 1 /\ c.order = o /\ c.depth = o.depth
         /\ c.node = NodeOf(o) /\ c.req = o.req /\ c.order # NoOrder
         /\ c.depth + Height[c.node] <= MaxDepth
<1>1. o.depth \in 0..MaxDepth /\ o.req \in Request /\ NodeOf(o) \in Node /\ o # NoOrder
  BY OrderFacts, PoolAssumption DEF B!LimitAssumption
<1>2. OrderCall(o) = [node |-> NodeOf(o), depth |-> o.depth, order |-> o, req |-> o.req,
                      pc |-> "enter", index |-> 1, flags |-> {}]
  BY DEF OrderCall, Call, NodeOf
<1> QED BY <1>1, <1>2 DEF Frame, PC

\* The thread helps itself to an order that is deeper than its top frame.
LEMMA TakesOrder ==
  ASSUME Inv, NEW t \in Thread, stack[t] # <<>>, NEW pc \in {"help", "wait"},
         NEW q \in Seq(Order), q # <<>>, holder[Head(q)] = NoThread,
         \A i \in 1..Len(q) : q[i].depth + Height[NodeOf(q[i])] <= MaxDepth,
         Top(t).depth < Head(q).depth, B!TakeHead(t, q),
         GotoAndCall(t, pc, OrderCall(Head(q))),
         FrameOK([Top(t) EXCEPT !.pc = pc]), Entered(Top(t)),
         executing' = executing, BP!Inv', Typed'
  PROVE  Inv'
<1> DEFINE f == [Top(t) EXCEPT !.pc = pc]
           o == Head(q)
           c == OrderCall(o)
<1>0. /\ o \in Order /\ o = q[1] /\ 1 \in 1..Len(q)
      /\ o.depth + Height[NodeOf(o)] <= MaxDepth
  OBVIOUS
<1>1. Top(t) \in Frame
  BY TopFacts
<1>2. /\ f \in Frame /\ f.node = Top(t).node /\ f.depth = Top(t).depth
      /\ f.order = Top(t).order /\ f.req = Top(t).req /\ f.pc = pc
  BY <1>1 DEF Frame, PC
<1>3. Entered(f) /\ f.pc \in Calling
  BY <1>2 DEF Entered, Calling
<1>4. /\ c \in Frame /\ c.pc = "enter" /\ c.index = 1 /\ c.order = o /\ c.depth = o.depth
      /\ c.node = NodeOf(o) /\ c.req = o.req /\ c.order # NoOrder
      /\ c.depth + Height[c.node] <= MaxDepth
  BY <1>0, OrderCallFacts
<1>5. /\ queue' = Tail(q) /\ holder' = [holder EXCEPT ![o] = t]
      /\ \A u \in Thread : wstate[u] = "BUSY" => wstate'[u] = "BUSY"
  BY TakeHeadStates
<1>6. stack' = Called(Changed(stack, t, f), t, c) /\ Took(holder, t, c) = holder'
  <2>1. stack \in [Thread -> Seq(Frame)]
    BY DEF Inv, Shape
  <2>2. stack' = [stack EXCEPT ![t] = Append(WithTop(@, f), c)]
    BY DEF GotoAndCall
  <2>3. Took(holder, t, c) = holder'
    BY <1>4, <1>5 DEF Took
  <2> HIDE DEF f, c
  <2> QED BY <2>1, <2>2, <2>3 DEF Called, Changed
<1>7. Shape(stack', holder', executing)
  <2>1. Shape(stack, holder, executing) /\ Top(t) = Last(stack[t])
    BY TopFacts DEF Inv
  <2>2. FrameOK(f) /\ f.depth < c.depth /\ (Entered(f) <=> Entered(Last(stack[t])))
    BY <1>2, <1>3, <1>4, <2>1
  <2>3. /\ f.node = Last(stack[t]).node /\ f.depth = Last(stack[t]).depth
        /\ f.order = Last(stack[t]).order /\ f.req = Last(stack[t]).req
    BY <1>2, <2>1
  <2>4. /\ c.depth = c.order.depth /\ c.node = NodeOf(c.order)
        /\ c.req = c.order.req /\ holder[c.order] = NoThread
    BY <1>4
  <2> HIDE DEF f, c, o
  <2>5. Shape(Called(Changed(stack, t, f), t, c), Took(holder, t, c), executing)
    BY <1>2, <1>3, <1>4, <2>1, <2>2, <2>3, <2>4, ShapeCallsFrom
  <2> QED BY <1>6, <2>5
<1>8. Running'
  BY <1>5, RunningKept DEF GotoAndCall
<1>9. QueueFits'
  <2>1. /\ Tail(q) \in Seq(Order) /\ Len(Tail(q)) = Len(q) - 1 /\ Len(q) \in Nat
        /\ \A i \in 1..Len(Tail(q)) : Tail(q)[i] = q[i + 1]
    BY HeadTailProperties
  <2>2. \A i \in 1..Len(Tail(q)) : i + 1 \in 1..Len(q)
    BY <2>1
  <2> QED BY <1>5, <2>1, <2>2 DEF QueueFits
<1> QED BY <1>7, <1>8, <1>9 DEF Inv

-----------------------------------------------------------------------------
(* One lemma for each action: it keeps the invariant, and is a step of the  *)
(* pool or leaves the pool alone.                                           *)

LEMMA JoinInv ==
  ASSUME Inv, NEW t \in Thread, Join(t)
  PROVE  Inv' /\ [B!Next]_pool
<1>1. /\ B!Join(t) /\ UNCHANGED <<stack, executing, poll, results, control>>
      /\ wstate' = [wstate EXCEPT ![t] = "BUSY"] /\ UNCHANGED <<queue, holder>>
  BY DEF Join, B!Join
<1>2. [B!Next]_pool
  BY <1>1 DEF B!Next
<1>3. BP!Inv'
  BY <1>2, PoolInvNext DEF Inv
<1>4. QueueFits' /\ Shape(stack', holder', executing')
  BY <1>1 DEF Inv, QueueFits
<1>5. Running'
  BY <1>1, PoolFacts DEF Inv, Running
<1> QED BY <1>1, <1>2, <1>3, <1>4, <1>5, TypedKept DEF Inv

LEMMA WorkerSleepsInv ==
  ASSUME Inv, NEW t \in Thread, WorkerSleeps(t)
  PROVE  Inv' /\ [B!Next]_pool
<1>1. /\ stack[t] = <<>> /\ B!WorkerSleeps(t)
      /\ UNCHANGED <<stack, executing, poll, results, control>>
      /\ wstate' = [wstate EXCEPT ![t] = "IDLE"] /\ UNCHANGED <<queue, holder>>
  BY DEF WorkerSleeps, B!WorkerSleeps
<1>2. [B!Next]_pool
  BY <1>1 DEF B!Next
<1>3. BP!Inv'
  BY <1>2, PoolInvNext DEF Inv
<1>4. QueueFits' /\ Shape(stack', holder', executing')
  BY <1>1 DEF Inv, QueueFits
<1>5. Running'
  BY <1>1, PoolFacts DEF Inv, Running
<1> QED BY <1>1, <1>2, <1>3, <1>4, <1>5, TypedKept DEF Inv

\* A thread that is in no frame is in one after a call.
LEMMA FirstCall ==
  ASSUME Inv, NEW t \in Thread, stack[t] = <<>>, NEW c
  PROVE  [stack EXCEPT ![t] = <<c>>] = Called(stack, t, c)
<1>1. Append(<<>>, c) = <<c>>
  OBVIOUS
<1> QED BY <1>1 DEF Called, Inv, Shape

LEMMA NextRequestInv ==
  ASSUME Inv, NEW t \in Thread, NextRequest(t)
  PROVE  Inv' /\ [B!Next]_pool
<1> DEFINE c == Call(Root, 0, NoOrder, round + 1)
<1>1. /\ t \in Joiner /\ wstate[t] = "BUSY" /\ stack[t] = <<>> /\ round < Rounds
      /\ round' = round + 1 /\ abortFlag' = FALSE
      /\ stack' = [stack EXCEPT ![t] = <<c>>]
      /\ UNCHANGED <<pool, executing, poll, results, verdict, answers>>
  BY DEF NextRequest
<1>2. round \in 0..Rounds /\ Rounds \in Nat /\ Root \in Node /\ MaxDepth \in Nat
  BY NodeAssumption, PoolFacts DEF Inv, Typed
<1>3. round + 1 \in Request
  BY <1>1, <1>2 DEF Request
<1>4. /\ c.pc = "enter" /\ c.index = 1 /\ c.order = NoOrder /\ c.depth = 0 /\ c.node = Root
      /\ c = [node |-> Root, depth |-> 0, order |-> NoOrder, req |-> round + 1,
              pc |-> "enter", index |-> 1, flags |-> {}]
  BY DEF Call
<1>5. c \in Frame
  BY <1>2, <1>3, <1>4 DEF Frame, PC
<1>6. c.depth + Height[c.node] <= MaxDepth
  <2>1. Height[Root] \in 0..MaxDepth
    BY <1>2, HeightDecreases
  <2> QED BY <1>2, <1>4, <2>1
<1>7. stack' = Called(stack, t, c) /\ Took(holder, t, c) = holder
  BY <1>1, <1>4, FirstCall DEF Took
<1>8. Shape(stack', holder, executing)
  <2>1. Shape(stack, holder, executing)
    BY DEF Inv
  <2> HIDE DEF c
  <2>2. Shape(Called(stack, t, c), Took(holder, t, c), executing)
    BY <1>1, <1>4, <1>5, <1>6, <2>1, ShapeCalls
  <2> QED BY <1>7, <2>2
<1>9. Running'
  <2>1. stack \in [Thread -> Seq(Frame)]
    BY DEF Inv, Shape
  <2> HIDE DEF c
  <2> QED BY <1>1, <2>1 DEF Inv, Running, pool
<1>10. Typed'
  <2>1. round' \in 0..Rounds
    BY <1>1, <1>2
  <2>2. abortFlag' \in BOOLEAN
    BY <1>1
  <2> QED BY <1>1, <2>1, <2>2 DEF Inv, Typed
<1>11. BP!Inv' /\ QueueFits' /\ [B!Next]_pool
  <2>1. BP!Inv'
    BY <1>1, PoolInvNext DEF Inv
  <2> QED BY <1>1, <2>1 DEF Inv, QueueFits, pool
<1> QED BY <1>1, <1>8, <1>9, <1>10, <1>11 DEF Inv, pool

LEMMA WorkerTakesInv ==
  ASSUME Inv, NEW t \in Thread, WorkerTakes(t)
  PROVE  Inv' /\ [B!Next]_pool
<1> DEFINE o == Head(queue)
           c == OrderCall(o)
<1>1. /\ stack[t] = <<>> /\ B!WorkerTakes(t) /\ B!TakeHead(t, queue) /\ queue # <<>>
      /\ stack' = [stack EXCEPT ![t] = <<c>>]
      /\ UNCHANGED <<executing, poll, results, control>>
  BY DEF WorkerTakes, B!WorkerTakes, B!Available
<1>2. [B!Next]_pool
  BY <1>1 DEF B!Next
<1>3. BP!Inv'
  BY <1>2, PoolInvNext DEF Inv
<1>4. /\ queue \in Seq(Order) /\ o \in Order /\ o = queue[1] /\ 1 \in 1..Len(queue)
      /\ holder[o] = NoThread /\ o.depth + Height[NodeOf(o)] <= MaxDepth
  BY <1>1, PoolFacts DEF Inv, QueueFits
<1>5. /\ queue' = Tail(queue) /\ holder' = [holder EXCEPT ![o] = t] /\ wstate'[t] = "BUSY"
      /\ \A u \in Thread : wstate[u] = "BUSY" => wstate'[u] = "BUSY"
  BY <1>1, TakeHeadStates
<1>6. /\ c \in Frame /\ c.pc = "enter" /\ c.index = 1 /\ c.order = o /\ c.depth = o.depth
      /\ c.node = NodeOf(o) /\ c.req = o.req /\ c.order # NoOrder
      /\ c.depth + Height[c.node] <= MaxDepth
  BY <1>4, OrderCallFacts
<1>7. stack' = Called(stack, t, c) /\ Took(holder, t, c) = holder'
  BY <1>1, <1>5, <1>6, FirstCall DEF Took
<1>8. Shape(stack', holder', executing')
  <2>1. Shape(stack, holder, executing)
    BY DEF Inv
  <2> HIDE DEF c, o
  <2>2. Shape(Called(stack, t, c), Took(holder, t, c), executing)
    BY <1>1, <1>4, <1>6, <2>1, ShapeCalls
  <2> QED BY <1>1, <1>7, <2>2
<1>9. Running'
  <2>1. stack \in [Thread -> Seq(Frame)]
    BY DEF Inv, Shape
  <2> HIDE DEF c
  <2> QED BY <1>1, <1>5, <2>1 DEF Inv, Running
<1>10. QueueFits'
  <2>1. /\ Tail(queue) \in Seq(Order) /\ Len(Tail(queue)) = Len(queue) - 1
        /\ Len(queue) \in Nat
        /\ \A i \in 1..Len(Tail(queue)) : Tail(queue)[i] = queue[i + 1]
    BY <1>1, <1>4, HeadTailProperties
  <2>2. \A i \in 1..Len(Tail(queue)) : i + 1 \in 1..Len(queue)
    BY <2>1
  <2> QED BY <1>5, <2>1, <2>2 DEF QueueFits, Inv
<1> QED BY <1>1, <1>2, <1>3, <1>8, <1>9, <1>10, TypedKept DEF Inv

LEMMA EnterInv ==
  ASSUME Inv, NEW t \in Thread, Enter(t)
  PROVE  Inv' /\ [B!Next]_pool
<1> DEFINE f == [Top(t) EXCEPT !.pc = IF abortFlag THEN "abort" ELSE "poll"]
<1>1. /\ stack[t] # <<>> /\ Top(t).pc = "enter" /\ Top(t).node \notin executing
      /\ executing' = executing \cup {Top(t).node}
      /\ stack' = Changed(stack, t, f)
      /\ stack' = [stack EXCEPT ![t] = WithTop(@, f)]
      /\ UNCHANGED <<pool, poll, results, control>>
  BY DEF Enter, At, Goto, Changed
<1>2. Top(t) \in Frame /\ Top(t) = Last(stack[t])
  BY <1>1, TopFacts
<1>3. /\ f \in Frame /\ f.node = Top(t).node /\ f.depth = Top(t).depth
      /\ f.order = Top(t).order /\ f.req = Top(t).req /\ f.pc \in {"abort", "poll"}
      /\ f.index = Top(t).index
  BY <1>2 DEF Frame, PC
<1>4. Entered(f) /\ ~ Entered(Top(t)) /\ FrameOK(f)
  BY <1>1, <1>3, TopFacts DEF Entered, FrameOK
<1>5. Shape(stack', holder, executing')
  <2>1. Shape(stack, holder, executing)
    BY DEF Inv
  <2> HIDE DEF f
  <2>2. Shape(Changed(stack, t, f), holder, executing \cup {f.node})
    BY <1>1, <1>2, <1>3, <1>4, <2>1, ShapeEnters
  <2> QED BY <1>1, <1>3, <2>2
<1>6. Running'
  BY <1>1, RunningKept DEF pool
<1>7. BP!Inv' /\ QueueFits' /\ holder' = holder
  <2>1. BP!Inv'
    BY <1>1, PoolInvNext DEF Inv
  <2> QED BY <1>1, <2>1 DEF Inv, QueueFits, pool
<1> QED BY <1>1, <1>5, <1>6, <1>7, TypedKept DEF Inv, pool

\* A step that leaves the pool alone.
LEMMA PoolAlone ==
  ASSUME Inv, UNCHANGED pool
  PROVE  /\ BP!Inv' /\ QueueFits' /\ [B!Next]_pool
         /\ UNCHANGED <<holder, wstate>>
         /\ \A u \in Thread : wstate[u] = "BUSY" => wstate'[u] = "BUSY"
<1>1. BP!Inv'
  BY PoolInvNext DEF Inv
<1> QED BY <1>1 DEF Inv, QueueFits, pool

\* A thread in a node is above the depth of the node's children.
LEMMA ChildDepth ==
  ASSUME Inv, NEW t \in Thread, stack[t] # <<>>,
         NEW nu \in Nursery, nu[1] = Top(t).node, Members(nu) # <<>>
  PROVE  /\ Top(t).depth + 1 \in 1..MaxDepth /\ Top(t).depth + 1 \in Nat
         /\ \A i \in 1..Len(Members(nu)) :
              /\ Members(nu)[i] \in Node
              /\ Top(t).depth + 1 + Height[Members(nu)[i]] <= MaxDepth
<1>1. /\ Top(t).depth \in Nat /\ MaxDepth \in Nat /\ nu[1] \in Node
      /\ Top(t).depth + Height[nu[1]] <= MaxDepth
  BY TopFacts, PoolFacts
<1>2. \A n \in Node : Height[n] \in Nat
  BY <1>1, HeightDecreases
<1>3. /\ 1 \in 1..Len(Members(nu))
      /\ \A i \in 1..Len(Members(nu)) :
           Members(nu)[i] \in Node /\ Height[Members(nu)[i]] < Height[nu[1]]
  <2>1. Members(nu) \in Seq(Node) /\ Len(Members(nu)) \in Nat
    BY MembersAreNodes
  <2>2. Len(Members(nu)) >= 1
    BY <2>1
  <2> QED BY <2>1, <2>2, MembersAreNodes, HeightDecreases
<1>4. \A i \in 1..Len(Members(nu)) :
         /\ Members(nu)[i] \in Node
         /\ Top(t).depth + 1 + Height[Members(nu)[i]] <= MaxDepth
  BY <1>1, <1>2, <1>3
<1>5. Top(t).depth + 1 <= MaxDepth
  BY <1>1, <1>2, <1>3
<1> QED BY <1>1, <1>4, <1>5

LEMMA SyncPollSeriallyInv ==
  ASSUME Inv, NEW t \in Thread, SyncPollSerially(t)
  PROVE  Inv' /\ [B!Next]_pool
<1> DEFINE f == Top(t)
           nu == Children(f.node)
<1>1. /\ stack[t] # <<>> /\ f.pc = "poll"
      /\ poll' = [poll EXCEPT ![nu].mt = FALSE, ![nu].cumul = {}]
      /\ IF Members(nu) = <<>> THEN Goto(t, "polled")
                               ELSE GotoAndCall(t, "serial", ChildCall(f, nu, 1))
      /\ UNCHANGED <<pool, executing, results, control>>
  BY DEF SyncPollSerially, At
<1>2. f \in Frame /\ f.node \in Node /\ nu \in Nursery /\ nu[1] = f.node
      /\ Members(nu) = Kids[f.node]
  BY <1>1, TopFacts, NurseriesOf
<1>3. Typed'
  <2>1. poll' \in [Nursery -> PollState]
    BY ZenonT(40), <1>1, <1>2 DEF Inv, Typed, PollState
  <2> QED BY <1>1, <2>1 DEF Inv, Typed, control
<1>4. CASE Members(nu) = <<>>
  <2>1. Goto(t, "polled") /\ "polled" \in PC
    BY <1>1, <1>4 DEF PC
  <2>2. /\ [f EXCEPT !.pc = "polled"].pc = "polled"
        /\ [f EXCEPT !.pc = "polled"].index = f.index
    BY <1>2 DEF Frame
  <2>3. /\ FrameOK([f EXCEPT !.pc = "polled"])
        /\ Entered([f EXCEPT !.pc = "polled"]) <=> Entered(f)
    BY <1>1, <2>2, TopFacts DEF FrameOK, Entered
  <2> QED BY <1>1, <1>3, <2>1, <2>3, GoesTo, PoolAlone
<1>5. CASE Members(nu) # <<>>
  <2>1. GotoAndCall(t, "serial", ChildCall(f, nu, 1)) /\ "serial" \in Calling
    BY <1>1, <1>5 DEF Calling
  <2>2. 1 \in 1..Len(Members(nu)) /\ Kids[f.node] = Members(nu)
    <3>1. Members(nu) \in Seq(Node) /\ Len(Members(nu)) \in Nat
      BY <1>2, MembersAreNodes
    <3> QED BY <1>2, <1>5, <3>1
  <2>3. Entered(f)
    BY <1>1 DEF Entered
  <2>4. FrameOK([f EXCEPT !.pc = "serial"])
    <3>1. f.index = 1
      BY <1>1, TopFacts DEF FrameOK
    <3>2. /\ [f EXCEPT !.pc = "serial"].pc = "serial"
          /\ [f EXCEPT !.pc = "serial"].index = 1
          /\ [f EXCEPT !.pc = "serial"].node = f.node
      BY <1>2, <3>1 DEF Frame
    <3> QED BY <2>2, <3>2 DEF FrameOK
  <2> QED BY <1>1, <1>2, <1>3, <2>1, <2>2, <2>3, <2>4, CallsChild, PoolAlone
<1> QED BY <1>4, <1>5

\* Program counters between which a frame goes with no further condition.
Plain == {"polled", "step", "evaluate", "wait", "waiting", "abort", "abortstep", "exit"}

LEMMA GoesPlainlyTo ==
  ASSUME Inv, NEW t \in Thread, stack[t] # <<>>, Entered(Top(t)),
         Top(t).pc \notin {"serial", "stepserial"},
         NEW pc \in Plain, Goto(t, pc), UNCHANGED <<pool, executing>>, Typed'
  PROVE  Inv' /\ [B!Next]_pool
<1> DEFINE f == [Top(t) EXCEPT !.pc = pc]
<1>1. Top(t) \in Frame /\ Top(t).index = 1
  BY TopFacts DEF FrameOK
<1>2. f.pc = pc /\ f.index = 1 /\ pc \in PC
  BY <1>1 DEF Frame, Plain, PC
<1>3. FrameOK(f) /\ Entered(f)
  BY <1>2 DEF FrameOK, Entered, Plain
<1> QED BY <1>2, <1>3, GoesTo, PoolAlone

LEMMA GoesOnPlainly ==
  ASSUME Inv, NEW t \in Thread, stack[t] # <<>>, Entered(Top(t)),
         Top(t).pc \notin {"serial", "stepserial"},
         NEW pc \in Plain, NEW flags \in SUBSET Flag,
         NEW f, f = [Top(t) EXCEPT !.flags = flags, !.pc = pc],
         stack' = [stack EXCEPT ![t] = WithTop(@, f)],
         UNCHANGED <<holder, executing, wstate>>, BP!Inv', QueueFits', Typed'
  PROVE  Inv'
<1>1. Top(t) \in Frame /\ Top(t).index = 1
  BY TopFacts DEF FrameOK
<1>2. /\ f.pc = pc /\ f.index = 1 /\ f \in Frame /\ f.node = Top(t).node
      /\ f.depth = Top(t).depth /\ f.order = Top(t).order /\ f.req = Top(t).req
  BY <1>1 DEF Frame, Plain, PC
<1>3. FrameOK(f) /\ Entered(f)
  BY <1>2 DEF FrameOK, Entered, Plain
<1> QED BY <1>2, <1>3, GoesOn

\* The orders of a new poll.
LEMMA NewOrdersFacts ==
  ASSUME NEW nu \in Nursery, Multithreaded(nu), NEW d \in 1..MaxDepth, NEW r \in Request,
         Free(nu, d, r) # {}
  PROVE  LET os == NewOrders(nu, d, r) IN
         /\ os \in Seq(Order) /\ os \in Batch /\ os # <<>> /\ B!Fresh(os)
         /\ Len(os) = Len(Members(nu)) /\ Len(os) \in Nat /\ 1 \in 1..Len(os)
         /\ \A i \in 1..Len(os) :
              /\ os[i] \in Order /\ os[i].nursery = nu /\ os[i].ichild = i
              /\ os[i].depth = d /\ os[i].req = r /\ DepthOf[os[i]] = d
              /\ NodeOf(os[i]) = Members(nu)[i]
<1>1. PICK a \in Address : B!Fresh(OrdersOf(nu, d, r, a)) /\ NewOrders(nu, d, r) = OrdersOf(nu, d, r, a)
  BY DEF Free, NewOrders
<1> DEFINE os == OrdersOf(nu, d, r, a)
<1>2. /\ os \in Seq(Order) /\ os \in Batch /\ os # <<>>
      /\ Len(os) = Len(Members(nu)) /\ Len(os) \in Nat
      /\ \A i \in 1..Len(os) :
           os[i] = [nursery |-> nu, ichild |-> i, depth |-> d, req |-> r, at |-> a]
  BY OrdersOfFacts, MembersAreNodes
<1> HIDE DEF os
<1>3. 1 \in 1..Len(os)
  BY <1>2
<1>4. ASSUME NEW i \in 1..Len(os)
      PROVE  /\ os[i] \in Order /\ os[i].nursery = nu /\ os[i].ichild = i
             /\ os[i].depth = d /\ os[i].req = r /\ DepthOf[os[i]] = d
             /\ NodeOf(os[i]) = Members(nu)[i]
  <2>1. os[i] = [nursery |-> nu, ichild |-> i, depth |-> d, req |-> r, at |-> a]
    BY <1>2
  <2>2. os[i] \in Order
    BY <1>2
  <2>3. DepthOf[os[i]] = os[i].depth
    BY <2>2, OrderFacts
  <2> QED BY <2>1, <2>2, <2>3 DEF NodeOf
<1> QED BY <1>1, <1>2, <1>3, <1>4 DEF os

\* A queue with new orders on its front.
LEMMA PlacedFacts ==
  ASSUME Inv, NEW os \in Seq(Order), os # <<>>,
         \A i \in 1..Len(os) : os[i].depth + Height[NodeOf(os[i])] <= MaxDepth
  PROVE  LET q == B!Placed(os) IN
         /\ q \in Seq(Order) /\ q # <<>> /\ Head(q) = os[1]
         /\ \A i \in 1..Len(q) : q[i].depth + Height[NodeOf(q[i])] <= MaxDepth
         /\ Len(q) = Len(os) + Len(queue)
         /\ \A i \in 1..Len(os) : i \in 1..Len(q) /\ q[i] = os[i]
         /\ \A i \in 1..Len(queue) : Len(os) + i \in 1..Len(q) /\ q[Len(os) + i] = queue[i]
         /\ \A i \in 1..Len(q) :
              \/ i \in 1..Len(os) /\ q[i] = os[i]
              \/ i - Len(os) \in 1..Len(queue) /\ q[i] = queue[i - Len(os)]
<1> DEFINE q == os \o queue
<1>1. queue \in Seq(Order) /\ Len(os) \in Nat /\ Len(os) >= 1 /\ Len(queue) \in Nat
  BY PoolFacts
<1>2. /\ q \in Seq(Order) /\ Len(q) = Len(os) + Len(queue)
      /\ \A i \in 1..Len(q) : q[i] = IF i <= Len(os) THEN os[i] ELSE queue[i - Len(os)]
  BY <1>1, ConcatProperties
<1> HIDE DEF q
<1>3. /\ \A i \in 1..Len(os) : i \in 1..Len(q) /\ q[i] = os[i]
      /\ \A i \in 1..Len(q) :
           \/ i \in 1..Len(os) /\ q[i] = os[i]
           \/ i - Len(os) \in 1..Len(queue) /\ q[i] = queue[i - Len(os)]
  BY <1>1, <1>2
<1>4. ASSUME NEW i \in 1..Len(queue)
      PROVE  Len(os) + i \in 1..Len(q) /\ q[Len(os) + i] = queue[i]
  <2>1. /\ Len(os) + i \in 1..Len(q) /\ ~ (Len(os) + i <= Len(os))
        /\ (Len(os) + i) - Len(os) = i
    BY <1>1, <1>2
  <2> QED BY <1>2, <2>1
<1>5. q # <<>> /\ Head(q) = os[1]
  BY <1>1, <1>2, <1>3
<1>6. \A i \in 1..Len(q) : q[i].depth + Height[NodeOf(q[i])] <= MaxDepth
  BY <1>3 DEF Inv, QueueFits
<1> QED BY <1>2, <1>3, <1>4, <1>5, <1>6 DEF B!Placed, q

LEMMA SyncPollInv ==
  ASSUME Inv, NEW t \in Thread, SyncPoll(t)
  PROVE  Inv' /\ [B!Next]_pool
<1> DEFINE f == Top(t)
           nu == Children(f.node)
           d == f.depth + 1
           os == NewOrders(nu, d, f.req)
           q == B!Placed(os)
<1>1. /\ stack[t] # <<>> /\ f.pc = "poll" /\ Multithreaded(nu) /\ Free(nu, d, f.req) # {}
      /\ poll' = [poll EXCEPT ![nu] = FreshPoll(nu)]
      /\ B!PushAndTake(t, os)
      /\ IF B!Available(t, q, d) THEN GotoAndCall(t, "help", OrderCall(os[1]))
                                 ELSE Goto(t, "check")
      /\ UNCHANGED <<executing, results, control>>
  BY DEF SyncPoll, At
<1>2. f \in Frame /\ f.node \in Node /\ nu \in Nursery /\ nu[1] = f.node
      /\ f.depth \in Nat /\ f.req \in Request /\ f.index = 1
  BY <1>1, TopFacts, NurseriesOf DEF FrameOK
<1>3. Members(nu) # <<>> /\ Len(Members(nu)) \in Nat
  BY <1>1, <1>2, MembersAreNodes DEF Multithreaded
<1>4. /\ d \in 1..MaxDepth /\ d \in Nat /\ f.depth < d
      /\ \A i \in 1..Len(Members(nu)) :
           Members(nu)[i] \in Node /\ d + Height[Members(nu)[i]] <= MaxDepth
  BY <1>1, <1>2, <1>3, ChildDepth
<1> HIDE DEF d
<1>5. /\ os \in Seq(Order) /\ os \in Batch /\ os # <<>> /\ B!Fresh(os)
      /\ Len(os) = Len(Members(nu)) /\ 1 \in 1..Len(os)
      /\ \A i \in 1..Len(os) :
           /\ os[i] \in Order /\ os[i].depth = d /\ DepthOf[os[i]] = d
           /\ NodeOf(os[i]) = Members(nu)[i]
  BY <1>1, <1>2, <1>4, NewOrdersFacts
<1> HIDE DEF os
<1>6. \A i \in 1..Len(os) : os[i].depth + Height[NodeOf(os[i])] <= MaxDepth
  BY <1>4, <1>5
<1>7. /\ q \in Seq(Order) /\ q # <<>> /\ Head(q) = os[1]
      /\ \A i \in 1..Len(q) : q[i].depth + Height[NodeOf(q[i])] <= MaxDepth
  BY <1>5, <1>6, PlacedFacts
<1>8. [B!Next]_pool
  <2>1. B!PollsAt(t, d)
    BY <1>1, <1>4, MayPoll
  <2>2. B!PlaceAndTake(t, os)
    BY <1>1, <1>5, <2>1 DEF B!PlaceAndTake
  <2> QED BY <1>5, <2>2 DEF B!Next
<1>9. BP!Inv'
  BY <1>8, PoolInvNext DEF Inv
<1>10. Typed'
  <2>1. FreshPoll(nu) \in PollState
    BY <1>3 DEF FreshPoll, PollState
  <2>2. poll' \in [Nursery -> PollState]
    BY <1>1, <2>1 DEF Inv, Typed
  <2> QED BY <1>1, <2>2 DEF Inv, Typed, control
<1>11. DepthOf[os[1]] = d
  BY <1>5
<1>12. Entered(f)
  BY <1>1 DEF Entered
<1>13. \A pc \in {"help", "check"} : FrameOK([f EXCEPT !.pc = pc])
  BY <1>1, <1>2 DEF FrameOK, Frame
<1> HIDE DEF q
<1>14. CASE B!Available(t, q, d) /\ B!TakeHead(t, q)
  <2>1. GotoAndCall(t, "help", OrderCall(Head(q)))
    BY <1>1, <1>7, <1>14
  <2>2. holder[Head(q)] = NoThread /\ f.depth < Head(q).depth
    BY <1>4, <1>5, <1>7 DEF B!Fresh
  <2> QED BY <1>1, <1>7, <1>8, <1>9, <1>10, <1>12, <1>13, <1>14, <2>1, <2>2, TakesOrder
<1>15. CASE /\ ~ B!Available(t, q, d) /\ queue' = q
            /\ UNCHANGED <<nthr, nidle, wstate, asleep, holder>>
  <2>1. Goto(t, "check")
    BY <1>1, <1>15
  <2>2. QueueFits'
    BY <1>7, <1>15 DEF QueueFits
  <2> DEFINE g == [f EXCEPT !.pc = "check"]
  <2>3. /\ g \in Frame /\ g.node = f.node /\ g.depth = f.depth
        /\ g.order = f.order /\ g.req = f.req /\ g.pc = "check"
    BY <1>2 DEF Frame, PC
  <2>4. FrameOK(g) /\ Entered(g)
    BY <1>13, <2>3 DEF Entered
  <2>5. stack' = [stack EXCEPT ![t] = WithTop(@, g)]
    BY <2>1 DEF Goto
  <2> QED BY <1>1, <1>8, <1>9, <1>10, <1>12, <1>15, <2>2, <2>3, <2>4, <2>5, GoesOn
<1> QED BY <1>1, <1>11, <1>14, <1>15 DEF B!PushAndTake, q

\* A polling thread takes an order from the queue as it is.
LEMMA TakesFromQueue ==
  ASSUME Inv, NEW t \in Thread, stack[t] # <<>>, NEW pc \in {"help", "wait"},
         B!Available(t, queue, Top(t).depth + 1), B!TakeHead(t, queue),
         GotoAndCall(t, pc, OrderCall(Head(queue))), Top(t).pc = pc,
         UNCHANGED <<executing, poll, results, control>>
  PROVE  Inv' /\ [B!Next]_pool
<1> DEFINE f == Top(t)
           m == f.depth + 1
<1>1. f \in Frame /\ FrameOK(f) /\ f.depth \in Nat /\ MaxDepth \in Nat
  BY TopFacts, PoolFacts
<1>2. /\ queue \in Seq(Order) /\ queue # <<>> /\ Head(queue) = queue[1]
      /\ 1 \in 1..Len(queue) /\ Head(queue) \in Order /\ DepthOf[Head(queue)] >= m
  BY PoolFacts DEF B!Available
<1>3. DepthOf[Head(queue)] = Head(queue).depth /\ Head(queue).depth \in 1..MaxDepth
  BY <1>2, OrderFacts
<1>4. m \in B!Depth /\ m \in Nat /\ f.depth < m /\ f.depth < Head(queue).depth
  BY <1>1, <1>2, <1>3 DEF B!Depth
<1>5. [B!Next]_pool
  <2>1. B!PollerTakes(t, m)
    BY <1>4, MayPoll DEF B!PollerTakes
  <2> QED BY <1>4, <2>1 DEF B!Next
<1>6. BP!Inv'
  BY <1>5, PoolInvNext DEF Inv
<1>7. /\ holder[Head(queue)] = NoThread
      /\ \A i \in 1..Len(queue) : queue[i].depth + Height[NodeOf(queue[i])] <= MaxDepth
  BY <1>2, PoolFacts DEF Inv, QueueFits
<1>8. [f EXCEPT !.pc = pc] = f /\ Entered(f)
  BY <1>1 DEF Frame, Entered
<1> QED BY <1>1, <1>2, <1>4, <1>5, <1>6, <1>7, <1>8, TypedKept, TakesOrder

LEMMA HelpYourselfInv ==
  ASSUME Inv, NEW t \in Thread, HelpYourself(t)
  PROVE  Inv' /\ [B!Next]_pool
<1>1. /\ stack[t] # <<>> /\ Top(t).pc = "help"
      /\ UNCHANGED <<executing, poll, results, control>>
  BY DEF HelpYourself, At
<1>2. CASE /\ B!Available(t, queue, Top(t).depth + 1) /\ B!TakeHead(t, queue)
           /\ GotoAndCall(t, "help", OrderCall(Head(queue)))
  BY <1>1, <1>2, TakesFromQueue
<1>3. CASE Goto(t, "check") /\ UNCHANGED pool
  <2> DEFINE g == [Top(t) EXCEPT !.pc = "check"]
  <2>1. Top(t) \in Frame /\ FrameOK(Top(t))
    BY <1>1, TopFacts
  <2>2. g.pc = "check" /\ g.index = Top(t).index /\ g.node = Top(t).node
    BY <2>1 DEF Frame
  <2>3. FrameOK(g) /\ (Entered(g) <=> Entered(Top(t))) /\ "check" \in PC
    BY <1>1, <2>1, <2>2 DEF FrameOK, Entered, PC
  <2> QED BY <1>1, <1>3, <2>3, GoesTo, TypedKept, PoolAlone
<1> QED BY <1>2, <1>3 DEF HelpYourself

LEMMA CheckPollInv ==
  ASSUME Inv, NEW t \in Thread, CheckPoll(t)
  PROVE  Inv' /\ [B!Next]_pool
<1>1. /\ stack[t] # <<>> /\ Top(t).pc = "check"
      /\ UNCHANGED <<pool, executing, poll, results, control>>
  BY DEF CheckPoll, At
<1>2. Entered(Top(t)) /\ Typed'
  BY <1>1, TypedKept DEF Entered
<1>3. CASE Goto(t, "polled")
  BY <1>1, <1>2, <1>3, GoesPlainlyTo DEF Plain
<1>4. CASE Goto(t, "asleep")
  <2> DEFINE g == [Top(t) EXCEPT !.pc = "asleep"]
  <2>1. Top(t) \in Frame /\ FrameOK(Top(t))
    BY <1>1, TopFacts
  <2>2. g.pc = "asleep" /\ g.index = Top(t).index /\ g.node = Top(t).node
    BY <2>1 DEF Frame
  <2>3. FrameOK(g) /\ (Entered(g) <=> Entered(Top(t))) /\ "asleep" \in PC
    BY <1>1, <2>1, <2>2 DEF FrameOK, Entered, PC
  <2> QED BY <1>1, <1>2, <1>4, <2>3, GoesTo, PoolAlone
<1> QED BY <1>3, <1>4 DEF CheckPoll

LEMMA PolledInv ==
  ASSUME Inv, NEW t \in Thread, Polled(t)
  PROVE  Inv' /\ [B!Next]_pool
<1> DEFINE n == Top(t).node
           flags == IF abortFlag THEN {"ABORT"} ELSE poll[Children(n)].cumul \ Ignored(n)
<1>1. /\ stack[t] # <<>> /\ Top(t).pc = "polled"
      /\ \E pc \in {"evaluate", "step"} :
           stack' = [stack EXCEPT ![t] =
                       WithTop(@, [Top(t) EXCEPT !.flags = flags, !.pc = pc])]
      /\ UNCHANGED <<pool, executing, poll, results, control>>
  BY DEF Polled, At
<1>2. PICK pc \in {"evaluate", "step"} :
        stack' = [stack EXCEPT ![t] =
                    WithTop(@, [Top(t) EXCEPT !.flags = flags, !.pc = pc])]
  BY <1>1
<1>3. flags \in SUBSET Flag
  <2>1. Children(n) \in Nursery
    BY <1>1, TopFacts, NurseriesOf
  <2>2. poll[Children(n)].cumul \in SUBSET Flag
    BY <2>1 DEF Inv, Typed, PollState
  <2> QED BY <2>2 DEF Flag
<1>4. Entered(Top(t)) /\ Typed' /\ pc \in Plain
  BY <1>1, TypedKept DEF Entered, Plain
<1> HIDE DEF flags
<1>5. /\ BP!Inv' /\ QueueFits' /\ [B!Next]_pool /\ UNCHANGED <<holder, wstate, executing>>
  BY <1>1, PoolAlone
<1>6. Inv'
  BY <1>1, <1>2, <1>3, <1>4, <1>5, GoesOnPlainly
<1> QED BY <1>5, <1>6

LEMMA BackgroundPollSeriallyInv ==
  ASSUME Inv, NEW t \in Thread, BackgroundPollSerially(t)
  PROVE  Inv' /\ [B!Next]_pool
<1> DEFINE f == Top(t)
           nu == StepChildren(f.node)
<1>1. /\ stack[t] # <<>> /\ f.pc = "step"
      /\ poll' = [poll EXCEPT ![nu].mt = FALSE]
      /\ IF Members(nu) = <<>> THEN Goto(t, "evaluate")
                               ELSE GotoAndCall(t, "stepserial", ChildCall(f, nu, 1))
      /\ UNCHANGED <<pool, executing, results, control>>
  BY DEF BackgroundPollSerially, At
<1>2. f \in Frame /\ f.node \in Node /\ nu \in Nursery /\ nu[1] = f.node
      /\ Members(nu) = StepKids[f.node]
  BY <1>1, TopFacts, NurseriesOf
<1>3. Typed'
  <2>1. poll' \in [Nursery -> PollState]
    BY ZenonT(40), <1>1, <1>2 DEF Inv, Typed, PollState
  <2> QED BY <1>1, <2>1 DEF Inv, Typed, control
<1>4. Entered(f)
  BY <1>1 DEF Entered
<1>5. CASE Members(nu) = <<>>
  BY <1>1, <1>3, <1>4, <1>5, GoesPlainlyTo DEF Plain
<1>6. CASE Members(nu) # <<>>
  <2>1. GotoAndCall(t, "stepserial", ChildCall(f, nu, 1)) /\ "stepserial" \in Calling
    BY <1>1, <1>6 DEF Calling
  <2>2. 1 \in 1..Len(Members(nu))
    <3>1. Members(nu) \in Seq(Node) /\ Len(Members(nu)) \in Nat
      BY <1>2, MembersAreNodes
    <3> QED BY <1>6, <3>1
  <2>3. FrameOK([f EXCEPT !.pc = "stepserial"])
    <3>1. f.index = 1
      BY <1>1, TopFacts DEF FrameOK
    <3>2. /\ [f EXCEPT !.pc = "stepserial"].pc = "stepserial"
          /\ [f EXCEPT !.pc = "stepserial"].index = 1
          /\ [f EXCEPT !.pc = "stepserial"].node = f.node
      BY <1>2, <3>1 DEF Frame
    <3> QED BY <1>2, <2>2, <3>2 DEF FrameOK
  <2> QED BY <1>1, <1>2, <1>3, <1>4, <2>1, <2>2, <2>3, CallsChild, PoolAlone
<1> QED BY <1>5, <1>6

LEMMA BackgroundPollInv ==
  ASSUME Inv, NEW t \in Thread, BackgroundPoll(t)
  PROVE  Inv' /\ [B!Next]_pool
<1> DEFINE f == Top(t)
           nu == StepChildren(f.node)
           d == f.depth + 1
           os == NewOrders(nu, d, f.req)
<1>1. /\ stack[t] # <<>> /\ f.pc = "step" /\ Multithreaded(nu) /\ Free(nu, d, f.req) # {}
      /\ poll' = [poll EXCEPT ![nu] = [@ EXCEPT !.mt = TRUE, !.on = TRUE,
                                               !.num = Len(Members(nu)), !.count = 0]]
      /\ B!PushAndAwaken(os) /\ Goto(t, "evaluate")
      /\ UNCHANGED <<executing, results, control>>
  BY DEF BackgroundPoll, At
<1>2. f \in Frame /\ f.node \in Node /\ nu \in Nursery /\ nu[1] = f.node
      /\ f.depth \in Nat /\ f.req \in Request /\ f.flags \in SUBSET Flag
  BY <1>1, TopFacts, NurseriesOf
<1>3. Members(nu) # <<>> /\ Len(Members(nu)) \in Nat
  BY <1>1, <1>2, MembersAreNodes DEF Multithreaded
<1>4. /\ d \in 1..MaxDepth
      /\ \A i \in 1..Len(Members(nu)) :
           Members(nu)[i] \in Node /\ d + Height[Members(nu)[i]] <= MaxDepth
  BY <1>1, <1>2, <1>3, ChildDepth
<1> HIDE DEF d
<1>5. /\ os \in Seq(Order) /\ os \in Batch /\ os # <<>> /\ B!Fresh(os)
      /\ Len(os) = Len(Members(nu))
      /\ \A i \in 1..Len(os) : os[i].depth = d /\ NodeOf(os[i]) = Members(nu)[i]
  BY <1>1, <1>2, <1>4, NewOrdersFacts
<1> HIDE DEF os
<1>6. \A i \in 1..Len(os) : os[i].depth + Height[NodeOf(os[i])] <= MaxDepth
  BY <1>4, <1>5
<1>7. \A i \in 1..Len(B!Placed(os)) :
        B!Placed(os)[i].depth + Height[NodeOf(B!Placed(os)[i])] <= MaxDepth
  BY <1>5, <1>6, PlacedFacts
<1>8. [B!Next]_pool
  BY <1>1, <1>5 DEF B!PlaceAndAwaken, B!Next
<1>9. BP!Inv'
  BY <1>8, PoolInvNext DEF Inv
<1>10. Typed'
  <2>1. poll' \in [Nursery -> PollState]
    BY ZenonT(40), <1>1, <1>2, <1>3 DEF Inv, Typed, PollState
  <2> QED BY <1>1, <2>1 DEF Inv, Typed, control
<1>11. /\ queue' = B!Placed(os) /\ holder' = holder
       /\ B!AwakenWorker(B!Placed(os), nthr, nidle, wstate, asleep)
  BY <1>1 DEF B!PushAndAwaken
<1>12. QueueFits'
  BY <1>7, <1>11 DEF QueueFits
<1>13. \A u \in Thread : wstate[u] = "BUSY" => wstate'[u] = "BUSY"
  BY <1>11, AwakenStates, PoolFacts
<1>14. Running'
  BY <1>1, <1>13, RunningKept DEF Goto
<1> DEFINE g == [f EXCEPT !.pc = "evaluate"]
<1>15. /\ g \in Frame /\ g.node = f.node /\ g.depth = f.depth /\ g.index = f.index
       /\ g.order = f.order /\ g.req = f.req /\ g.pc = "evaluate"
  BY <1>2 DEF Frame, PC
<1>16. FrameOK(g) /\ (Entered(g) <=> Entered(f))
  BY <1>1, <1>15, TopFacts DEF FrameOK, Entered
<1>17. Shape(stack', holder', executing')
  <2>1. Shape(stack, holder, executing) /\ f = Last(stack[t])
    BY <1>1, TopFacts DEF Inv
  <2>2. stack' = Changed(stack, t, g)
    BY <1>1 DEF Goto, Changed
  <2> HIDE DEF g
  <2>3. Shape(Changed(stack, t, g), holder, executing)
    BY <1>1, <1>15, <1>16, <2>1, ShapeTopGoesOn
  <2> QED BY <1>1, <1>11, <2>2, <2>3
<1> QED BY <1>8, <1>9, <1>10, <1>12, <1>14, <1>17 DEF Inv

LEMMA EvaluateInv ==
  ASSUME Inv, NEW t \in Thread, Evaluate(t)
  PROVE  Inv' /\ [B!Next]_pool
<1> DEFINE f == Top(t)
           flags == IF f.flags \cap {"FAIL", "MISSING"} # {} THEN f.flags
                    ELSE f.flags \cup verdict[f.node][f.req]
           g == [f EXCEPT !.flags = flags, !.pc = "wait"]
<1>1. /\ stack[t] # <<>> /\ f.pc = "evaluate"
      /\ stack' = [stack EXCEPT ![t] = WithTop(@, g)]
      /\ results' = [results EXCEPT ![f.node] = [i \in DOMAIN @ |-> NoResult]]
      /\ UNCHANGED <<pool, executing, poll, control>>
  BY DEF Evaluate, At
<1>2. f \in Frame /\ f.node \in Node /\ f.req \in Request /\ f.flags \in SUBSET Flag
  BY <1>1, TopFacts
<1>3. flags \in SUBSET Flag
  <2>1. verdict[f.node][f.req] \in SUBSET Flag
    BY <1>2, NodeAssumption DEF Inv, Typed, Flag
  <2> QED BY <1>2, <2>1
<1>4. Typed'
  <2>1. NoResult \in Result
    BY NodeAssumption DEF NoResult, Result
  <2>2. DOMAIN results[f.node] = 1..Len(Kids[f.node])
    BY <1>2 DEF Inv, Typed
  <2>3. DOMAIN results' = Node /\ \A n \in Node : results'[n] \in [1..Len(Kids[n]) -> Result]
    BY <1>1, <1>2, <2>1, <2>2 DEF Inv, Typed
  <2> QED BY <1>1, <2>3 DEF Inv, Typed, control
<1>5. Entered(f)
  BY <1>1 DEF Entered
<1>6. /\ BP!Inv' /\ QueueFits' /\ [B!Next]_pool /\ UNCHANGED <<holder, wstate, executing>>
  BY <1>1, PoolAlone
<1>7. g = [f EXCEPT !.flags = flags, !.pc = "wait"]
  OBVIOUS
<1> HIDE DEF flags, g
<1>8. Inv'
  BY <1>1, <1>3, <1>4, <1>5, <1>6, <1>7, GoesOnPlainly DEF Plain
<1> QED BY <1>6, <1>8

LEMMA EvaluateAbortedInv ==
  ASSUME Inv, NEW t \in Thread, EvaluateAborted(t)
  PROVE  Inv' /\ [B!Next]_pool
<1>1. /\ stack[t] # <<>> /\ Top(t).pc = "evaluate" /\ Goto(t, "abort")
      /\ UNCHANGED <<pool, executing, poll, results, control>>
  BY DEF EvaluateAborted, At
<1>2. Entered(Top(t))
  BY <1>1 DEF Entered
<1> QED BY <1>1, <1>2, TypedKept, GoesPlainlyTo DEF Plain

\* clearQueue keeps the orders of the others, and only them.
LEMMA ClearedFacts ==
  ASSUME Inv, NEW nu \in Nursery, B!ClearQueue(nu)
  PROVE  /\ queue' \in Seq(Order)
         /\ \A i \in 1..Len(queue') :
              \E j \in 1..Len(queue) : queue'[i] = queue[j] /\ queue[j].nursery # nu
         /\ \A j \in 1..Len(queue) : queue[j].nursery # nu =>
              \E i \in 1..Len(queue') : queue'[i] = queue[j]
         /\ UNCHANGED <<nthr, nidle, wstate, asleep, holder>>
<1> DEFINE keep == {i \in 1..Len(queue) : ClientOf[queue[i]] # nu}
           k == B!Cardinality(keep)
<1>1. queue \in Seq(Order) /\ Len(queue) \in Nat
  BY PoolFacts
<1>2. IsFiniteSet(keep) /\ k = Cardinality(keep) /\ k \in Nat
  <2>1. IsFiniteSet(1..Len(queue))
    BY <1>1, FS_Interval
  <2>2. keep \in SUBSET (1..Len(queue))
    OBVIOUS
  <2>3. k = Cardinality(keep)
    BY SameFiniteSets
  <2> QED BY <2>1, <2>2, <2>3, FS_Subset, FS_CardinalityType
<1>3. \A i \in 1..Len(queue) : i \in keep <=> queue[i].nursery # nu
  BY <1>1, OrderFacts
<1>4. PICK pos \in [1..k -> keep] :
        /\ \A i, j \in 1..k : i < j => pos[i] < pos[j]
        /\ queue' = [i \in 1..k |-> queue[pos[i]]]
  BY DEF B!ClearQueue
<1> HIDE DEF k
<1>5. \A i \in 1..k : pos[i] \in keep /\ pos[i] \in 1..Len(queue) /\ pos[i] \in Nat
  BY <1>1, <1>4
<1>6. queue' \in [1..k -> Order]
  BY <1>1, <1>4, <1>5
<1>7. queue' \in Seq(Order) /\ Len(queue') = k
  <2>1. k \in Nat
    BY <1>2
  <2> QED BY ONLY <1>6, <2>1
<1>8. \A i, j \in 1..k : pos[i] = pos[j] => i = j
  <2> SUFFICES ASSUME NEW i \in 1..k, NEW j \in 1..k, pos[i] = pos[j]
      PROVE  i = j
    OBVIOUS
  <2>1. ~ (i < j) /\ ~ (j < i)
    BY <1>4, <1>5
  <2> QED BY <1>2, <2>1
<1>9. \A j \in keep : \E i \in 1..k : pos[i] = j
  <2>1. IsFiniteSet(1..k) /\ Cardinality(1..k) = k
    <3>1. \A n \in Nat : IsFiniteSet(1..n) /\ Cardinality(1..n) = n
      <4> SUFFICES ASSUME NEW n \in Nat PROVE IsFiniteSet(1..n) /\ Cardinality(1..n) = n
        OBVIOUS
      <4>1. IsFiniteSet(1..n) /\ Cardinality(1..n) = IF 1 > n THEN 0 ELSE n - 1 + 1
        BY FS_Interval
      <4> QED BY <4>1
    <3> QED BY <1>2, <3>1
  <2>2. pos \in Injection(1..k, keep)
    <3> HIDE DEF keep
    <3> QED BY <1>4, <1>8 DEF Injection, IsInjective
  <2>3. pos \in Surjection(1..k, keep)
    BY <1>2, <2>1, <2>2, FS_Injection
  <2> QED BY <2>3 DEF Surjection
<1> HIDE DEF keep
<1>10. ASSUME NEW i \in 1..Len(queue')
       PROVE  \E j \in 1..Len(queue) : queue'[i] = queue[j] /\ queue[j].nursery # nu
  BY <1>3, <1>4, <1>5, <1>7
<1>11. ASSUME NEW j \in 1..Len(queue), queue[j].nursery # nu
       PROVE  \E i \in 1..Len(queue') : queue'[i] = queue[j]
  BY <1>3, <1>4, <1>7, <1>9, <1>11
<1> QED BY <1>7, <1>10, <1>11 DEF B!ClearQueue

\* What clearing the queue does to the pool.
LEMMA Clears ==
  ASSUME Inv, NEW nu \in Nursery, B!ClearQueue(nu)
  PROVE  BP!Inv' /\ QueueFits' /\ [B!Next]_pool /\ UNCHANGED <<holder, wstate>>
<1>1. [B!Next]_pool
  BY DEF B!Next
<1>2. BP!Inv'
  BY <1>1, PoolInvNext DEF Inv
<1>3. QueueFits'
  BY ClearedFacts DEF Inv, QueueFits
<1> QED BY <1>1, <1>2, <1>3, ClearedFacts

LEMMA AbortPollInv ==
  ASSUME Inv, NEW t \in Thread, stack[t] # <<>>, Top(t).pc \in {"abort", "abortstep"},
         NEW nu \in Nursery, NEW next \in {"abortstep", "wait"}, AbortPoll(t, nu, next)
  PROVE  Inv' /\ [B!Next]_pool
<1> DEFINE g == [Top(t) EXCEPT !.flags = {"ABORT"}, !.pc = next]
<1>1. /\ stack' = [stack EXCEPT ![t] = WithTop(@, g)]
      /\ UNCHANGED <<executing, results, control>>
  BY DEF AbortPoll
<1>2. /\ BP!Inv' /\ QueueFits' /\ [B!Next]_pool /\ UNCHANGED <<holder, wstate>>
      /\ poll' \in [Nursery -> PollState]
  <2>1. CASE poll[nu].mt
    <3>1. /\ poll' = [poll EXCEPT ![nu].abandon = TRUE, ![nu].on = FALSE]
          /\ B!ClearQueue(nu)
      BY <2>1 DEF AbortPoll
    <3>2. poll' \in [Nursery -> PollState]
      BY ZenonT(40), <3>1 DEF Inv, Typed, PollState
    <3> QED BY <3>1, <3>2, Clears
  <2>2. CASE ~ poll[nu].mt
    <3>1. UNCHANGED <<poll, pool>>
      BY <2>2 DEF AbortPoll
    <3> QED BY <3>1, PoolAlone DEF Inv, Typed
  <2> QED BY <2>1, <2>2
<1>3. Typed'
  BY <1>1, <1>2 DEF Inv, Typed, control
<1>4. Entered(Top(t)) /\ next \in Plain /\ {"ABORT"} \in SUBSET Flag
  BY DEF Entered, Plain, Flag
<1>5. g = [Top(t) EXCEPT !.flags = {"ABORT"}, !.pc = next]
  OBVIOUS
<1> HIDE DEF g
<1>6. Inv'
  BY <1>1, <1>2, <1>3, <1>4, <1>5, GoesOnPlainly
<1> QED BY <1>2, <1>6

LEMMA WaitForEndOfPollInv ==
  ASSUME Inv, NEW t \in Thread, WaitForEndOfPoll(t)
  PROVE  Inv' /\ [B!Next]_pool
<1>1. /\ stack[t] # <<>> /\ Top(t).pc = "wait"
      /\ UNCHANGED <<executing, poll, results, control>>
  BY DEF WaitForEndOfPoll, At
<1>2. Entered(Top(t)) /\ Typed'
  BY <1>1, TypedKept DEF Entered
<1>3. CASE UNCHANGED pool /\ \E pc \in {"exit", "waiting"} : Goto(t, pc)
  BY <1>1, <1>2, <1>3, GoesPlainlyTo DEF Plain
<1>4. CASE /\ B!Available(t, queue, Top(t).depth + 1) /\ B!TakeHead(t, queue)
           /\ GotoAndCall(t, "wait", OrderCall(Head(queue)))
  BY <1>1, <1>4, TakesFromQueue
<1> QED BY <1>3, <1>4 DEF WaitForEndOfPoll

LEMMA ReturnToOrderInv ==
  ASSUME Inv, NEW t \in Thread, ReturnToOrder(t)
  PROVE  Inv' /\ [B!Next]_pool
<1> DEFINE f == [Top(t) EXCEPT !.pc = "deliver"]
<1>1. /\ stack[t] # <<>> /\ Top(t).pc = "exit" /\ Top(t).order # NoOrder
      /\ executing' = executing \ {Top(t).node}
      /\ stack' = Changed(stack, t, f)
      /\ stack' = [stack EXCEPT ![t] = WithTop(@, f)]
      /\ UNCHANGED <<pool, poll, results, control>>
  BY DEF ReturnToOrder, At, Goto, Changed
<1>2. Top(t) \in Frame /\ Top(t) = Last(stack[t])
  BY <1>1, TopFacts
<1>3. /\ f \in Frame /\ f.node = Top(t).node /\ f.depth = Top(t).depth
      /\ f.order = Top(t).order /\ f.req = Top(t).req /\ f.pc = "deliver"
      /\ f.index = Top(t).index
  BY <1>2 DEF Frame, PC
<1>4. ~ Entered(f) /\ Entered(Top(t)) /\ FrameOK(f)
  BY <1>1, <1>3, TopFacts DEF Entered, FrameOK
<1>5. Shape(stack', holder, executing')
  <2>1. Shape(stack, holder, executing)
    BY DEF Inv
  <2> HIDE DEF f
  <2>2. Shape(Changed(stack, t, f), holder, executing \ {f.node})
    BY <1>1, <1>2, <1>3, <1>4, <2>1, ShapeLeaves
  <2> QED BY <1>1, <1>3, <2>2
<1>6. Running'
  BY <1>1, RunningKept DEF pool
<1> QED BY <1>1, <1>5, <1>6, PoolAlone, TypedKept DEF Inv

\* A call made by a serial poll returns: the frame below goes on as caller, and
\* may call the next child of nursery nu at once.
LEMMA ReturnsToCaller ==
  ASSUME Inv, NEW t \in Thread, stack[t] # <<>>, Front(stack[t]) # <<>>,
         Top(t).pc = "exit", Top(t).order = NoOrder,
         NEW nu \in Nursery, nu[1] = Last(Front(stack[t])).node,
         Last(Front(stack[t])).pc \in {"serial", "stepserial"},
         nu[2] = IF Last(Front(stack[t])).pc = "serial" THEN "children" ELSE "stepchildren",
         NEW stop \in BOOLEAN, NEW pc \in {"polled", "evaluate"},
         stack' = [stack EXCEPT ![t] =
           Front(Front(stack[t])) \o AfterChild(Last(Front(stack[t])), nu, stop, pc)],
         executing' = executing \ {Top(t).node}, UNCHANGED pool, Typed'
  PROVE  Inv' /\ [B!Next]_pool
<1> DEFINE f == Top(t)
           st1 == Returned(stack, t)
           caller == Last(Front(stack[t]))
           m == IF stop \/ caller.index = Len(Members(nu))
                THEN [caller EXCEPT !.pc = pc, !.index = 1]
                ELSE [caller EXCEPT !.index = @ + 1]
           c == ChildCall(caller, nu, caller.index + 1)
<1>1. stack \in [Thread -> Seq(Frame)] /\ Shape(stack, holder, executing) /\ f = Last(stack[t])
  BY TopFacts DEF Inv, Shape
<1>2. /\ Front(stack[t]) \in Seq(Frame) /\ st1[t] = Front(stack[t])
      /\ st1[t] # <<>> /\ caller = Last(st1[t]) /\ caller \in Frame
  <2>1. Front(stack[t]) \in Seq(Frame)
    BY <1>1, Popped
  <2>2. caller \in Frame
    BY <2>1, Popped
  <2> QED BY <1>1, <2>1, <2>2 DEF Returned
<1>3. Entered(f)
  BY DEF Entered
<1>4. Shape(st1, holder, executing')
  <2>1. Shape(Returned(stack, t), LetGo(holder, Last(stack[t])), Left(executing, Last(stack[t])))
    BY <1>1, ShapeReturns
  <2> QED BY <1>1, <1>3, <2>1 DEF LetGo, Left
<1>5. /\ FrameOK(caller) /\ caller.depth + Height[caller.node] <= MaxDepth
      /\ st1 \in [Thread -> Seq(Frame)]
  <2>1. st1 \in [Thread -> Seq(Frame)]
    BY <1>4 DEF Shape
  <2>2. Len(st1[t]) \in 1..Len(st1[t]) /\ caller = st1[t][Len(st1[t])]
    BY <1>2, Popped
  <2> QED BY <1>4, <2>1, <2>2 DEF Shape, FramesOK, Fits
<1>6. /\ Members(nu) = (IF caller.pc = "serial" THEN Kids ELSE StepKids)[caller.node]
      /\ caller.index \in 1..Len(Members(nu)) /\ Len(Members(nu)) \in Nat
  <2>1. Members(nu) = (IF caller.pc = "serial" THEN Kids ELSE StepKids)[caller.node]
    BY DEF Members
  <2>2. caller.index \in 1..Len(Members(nu))
    BY <1>5, <2>1 DEF FrameOK
  <2> QED BY <2>1, <2>2, MembersAreNodes
<1>7. /\ m \in Frame /\ m.node = caller.node /\ m.depth = caller.depth
      /\ m.order = caller.order /\ m.req = caller.req
      /\ m.pc \in {"polled", "evaluate"} => m.index = 1
      /\ m.pc \in {"serial", "stepserial"} => m.pc = caller.pc /\ m.index = caller.index + 1
      /\ m.pc \in {"polled", "evaluate", "serial", "stepserial"}
      /\ m.pc \in {"serial", "stepserial"} <=> ~ (stop \/ caller.index = Len(Members(nu)))
  <2>1. /\ caller \in Frame /\ caller.pc \in {"serial", "stepserial"} /\ pc \in PC
        /\ caller.index \in Nat
    BY <1>2, <1>6 DEF PC, Frame
  <2>2. CASE stop \/ caller.index = Len(Members(nu))
    <3>1. m = [caller EXCEPT !.pc = pc, !.index = 1]
      BY <2>2
    <3> HIDE DEF m, caller
    <3> QED BY <2>1, <2>2, <3>1 DEF Frame
  <2>3. CASE ~ (stop \/ caller.index = Len(Members(nu)))
    <3>1. m = [caller EXCEPT !.index = @ + 1]
      BY <2>3
    <3> HIDE DEF m, caller
    <3> QED BY <2>1, <2>3, <3>1 DEF Frame
  <2> QED BY <2>2, <2>3
<1>8. FrameOK(m) /\ Entered(m) /\ Entered(caller)
  <2> HIDE DEF m
  <2>1. Entered(m)
    BY <1>7 DEF Entered
  <2>2. Entered(caller)
    BY <1>2 DEF Entered
  <2>3. ASSUME m.pc \in {"polled", "evaluate"}
        PROVE  FrameOK(m)
    BY <1>7, <2>3 DEF FrameOK
  <2>4. ASSUME m.pc \in {"serial", "stepserial"}
        PROVE  FrameOK(m)
    <3>1. m.index \in 1..Len(Members(nu)) /\ m.pc = caller.pc /\ m.node = caller.node
      <4>1. caller.index # Len(Members(nu)) /\ m.index = caller.index + 1 /\ m.pc = caller.pc
        BY <1>7, <2>4
      <4> QED BY <1>6, <1>7, <4>1
    <3>2. Members(nu) = (IF m.pc = "serial" THEN Kids ELSE StepKids)[m.node]
      BY <1>6, <3>1
    <3> HIDE DEF caller
    <3> QED BY <2>4, <3>1, <3>2 DEF FrameOK
  <2> QED BY <1>7, <2>1, <2>2, <2>3, <2>4
<1>9. Shape(Changed(st1, t, m), holder, executing')
  <2> HIDE DEF m, st1, caller
  <2> QED BY <1>2, <1>4, <1>7, <1>8, ShapeTopGoesOn
<1>10. Running'
  BY RunningKept, PoolAlone
<1>11. CASE stop \/ caller.index = Len(Members(nu))
  <2>1. AfterChild(caller, nu, stop, pc) = <<m>>
    BY <1>11 DEF AfterChild
  <2>2. Front(Front(stack[t])) \o <<m>> = WithTop(Front(stack[t]), m)
    <3>1. Front(Front(stack[t])) \in Seq(Frame) /\ m \in Frame
      BY <1>2, <1>7, Popped
    <3> HIDE DEF m
    <3> QED BY <3>1 DEF WithTop
  <2>3. stack' = Changed(st1, t, m)
    <3>1. stack' = [stack EXCEPT ![t] = WithTop(Front(stack[t]), m)]
      BY <2>1, <2>2
    <3> HIDE DEF m, caller
    <3> QED BY <1>1, <3>1 DEF Changed, Returned
  <2> QED BY <1>9, <1>10, <2>3, PoolAlone DEF Inv
<1>12. CASE ~ (stop \/ caller.index = Len(Members(nu)))
  <2>1. AfterChild(caller, nu, stop, pc) = <<m, c>>
    BY <1>12 DEF AfterChild
  <2>2. caller.index + 1 \in 1..Len(Members(nu)) /\ m.pc \in {"serial", "stepserial"}
    BY <1>6, <1>7, <1>12
  <2>3. /\ c.pc = "enter" /\ c.index = 1 /\ c.order = NoOrder
        /\ c.depth = caller.depth + 1 /\ c.node = Members(nu)[caller.index + 1]
        /\ c.req = caller.req
    BY DEF ChildCall, Call
  <2>4. c.node \in Node /\ Height[c.node] < Height[caller.node]
    BY <2>2, <2>3, MembersAreNodes, HeightDecreases
  <2>5. /\ caller.depth \in Nat /\ MaxDepth \in Nat /\ caller.node \in Node
        /\ caller.req \in Request
    BY <1>2, PoolFacts DEF Frame
  <2>6. Height[c.node] \in Nat /\ Height[caller.node] \in Nat
    BY <2>4, <2>5, HeightDecreases
  <2>7. /\ c.depth + Height[c.node] <= MaxDepth /\ c.depth \in 0..MaxDepth
        /\ caller.depth < c.depth
    BY SMTT(20), <1>5, <2>3, <2>4, <2>5, <2>6
  <2>8. c \in Frame
    <3>1. c = [node |-> c.node, depth |-> c.depth, order |-> NoOrder, req |-> c.req,
               pc |-> "enter", index |-> 1, flags |-> {}]
      BY DEF ChildCall, Call
    <3>2. /\ c.node \in Node /\ c.depth \in 0..MaxDepth /\ c.req \in Request
          /\ "enter" \in PC /\ 1 \in Nat
      BY <2>3, <2>4, <2>5, <2>7 DEF PC
    <3> HIDE DEF c
    <3> QED BY <3>1, <3>2 DEF Frame
  <2>9. Front(Front(stack[t])) \o <<m, c>> = Append(WithTop(Front(stack[t]), m), c)
    <3>1. Front(Front(stack[t])) \in Seq(Frame) /\ m \in Frame
      BY <1>2, <1>7, Popped
    <3> HIDE DEF m, c
    <3> QED BY <2>8, <3>1 DEF WithTop
  <2>10. stack' = Called(Changed(st1, t, m), t, c)
    <3>1. stack' = [stack EXCEPT ![t] = Append(WithTop(Front(stack[t]), m), c)]
      BY <2>1, <2>9
    <3> HIDE DEF m, c, caller
    <3> QED BY <1>1, <3>1 DEF Called, Changed, Returned
  <2>11. /\ Changed(st1, t, m)[t] # <<>> /\ Last(Changed(st1, t, m)[t]) = m
    <3> HIDE DEF m, st1
    <3> QED BY <1>2, <1>5, <1>7, LastChanged
  <2>12. m.pc \in Calling /\ m.depth < c.depth /\ Took(holder, t, c) = holder
    BY <1>7, <2>2, <2>3, <2>7 DEF Calling, Took
  <2>13. Shape(stack', holder, executing')
    <3> HIDE DEF m, c, st1
    <3>1. Shape(Called(Changed(st1, t, m), t, c), Took(holder, t, c), executing')
      BY <1>9, <2>3, <2>7, <2>8, <2>11, <2>12, ShapeCalls
    <3> QED BY <2>10, <2>12, <3>1
  <2> QED BY <1>10, <2>13, PoolAlone DEF Inv
<1> QED BY <1>11, <1>12

\* The frame below a finished one that no work order called.
LEMMA CallerFacts ==
  ASSUME Inv, NEW t \in Thread, stack[t] # <<>>, Front(stack[t]) # <<>>
  PROVE  LET caller == Last(Front(stack[t])) IN
         /\ caller \in Frame /\ caller.node \in Node /\ caller.index \in Nat
         /\ caller.pc = "serial" => caller.index \in 1..Len(Kids[caller.node])
         /\ caller.pc = "stepserial" => caller.index \in 1..Len(StepKids[caller.node])
<1> DEFINE s == Front(stack[t])
           n == Len(s)
<1>1. stack[t] \in Seq(Frame) /\ Shape(stack, holder, executing)
  BY TopFacts DEF Inv
<1>2. s \in Seq(Frame) /\ \A i \in 1..Len(s) : i \in 1..Len(stack[t]) /\ s[i] = stack[t][i]
  BY <1>1, Popped
<1>3. Last(s) = s[n] /\ Last(s) \in Frame /\ n \in 1..n
  BY <1>2, Popped
<1>4. FrameOK(Last(s))
  BY <1>1, <1>2, <1>3 DEF Shape, FramesOK
<1> QED BY <1>3, <1>4 DEF FrameOK, Frame

LEMMA ReturnToPollInv ==
  ASSUME Inv, NEW t \in Thread, ReturnToPoll(t)
  PROVE  Inv' /\ [B!Next]_pool
<1> DEFINE f == Top(t)
           below == Front(stack[t])
           caller == Last(below)
           n == caller.node
           nu == Children(n)
           k == caller.index
<1>1. /\ stack[t] # <<>> /\ f.pc = "exit" /\ f.order = NoOrder
      /\ below # <<>> /\ caller.pc = "serial"
      /\ executing' = executing \ {f.node}
      /\ results' = [results EXCEPT ![n][k] = ResultOf(f)]
      /\ poll' = [poll EXCEPT ![nu].cumul = @ \cup f.flags]
      /\ stack' = [stack EXCEPT ![t] = Front(below) \o
                    AfterChild(caller, nu, "ABORT" \in f.flags \/ EndsPoll(nu, f.flags),
                               "polled")]
      /\ UNCHANGED <<pool, control>>
  BY DEF ReturnToPoll, At
<1>2. n \in Node /\ k \in 1..Len(Kids[n])
  BY <1>1, CallerFacts
<1>3. nu \in Nursery /\ nu[1] = n /\ nu[2] = "children"
  BY <1>2, NurseriesOf
<1>4. f.flags \in SUBSET Flag /\ ResultOf(f) \in Result
  <2>1. f.flags \in SUBSET Flag /\ f.req \in Request
    BY <1>1, TopFacts
  <2> QED BY <2>1, NodeAssumption DEF ResultOf, Result, Request
<1>5. Typed'
  <2>1. Typed
    BY DEF Inv
  <2> HIDE DEF f, n, nu, k
  <2>2. poll' \in [Nursery -> PollState]
    BY <1>1, <1>3, <1>4, <2>1 DEF Typed, PollState
  <2>3. /\ DOMAIN results' = Node
        /\ \A m \in Node : results'[m] \in [1..Len(Kids[m]) -> Result]
    BY <1>1, <1>2, <1>4, <2>1 DEF Typed
  <2> QED BY <1>1, <2>1, <2>2, <2>3 DEF Typed, control
<1> DEFINE stop == ("ABORT" \in f.flags \/ EndsPoll(nu, f.flags))
<1>6. stop \in BOOLEAN
  BY DEF EndsPoll
<1>7. stack' = [stack EXCEPT ![t] = Front(below) \o AfterChild(caller, nu, stop, "polled")]
  BY <1>1
<1> HIDE DEF stop
<1> QED BY <1>1, <1>3, <1>5, <1>6, <1>7, ReturnsToCaller

LEMMA ReturnToBackgroundPollInv ==
  ASSUME Inv, NEW t \in Thread, ReturnToBackgroundPoll(t)
  PROVE  Inv' /\ [B!Next]_pool
<1> DEFINE f == Top(t)
           below == Front(stack[t])
           caller == Last(below)
           nu == StepChildren(caller.node)
           stop == "ABORT" \in f.flags
<1>1. /\ stack[t] # <<>> /\ f.pc = "exit" /\ f.order = NoOrder
      /\ below # <<>> /\ caller.pc = "stepserial"
      /\ executing' = executing \ {f.node}
      /\ stack' = [stack EXCEPT ![t] = Front(below) \o
                    AfterChild(caller, nu, stop, "evaluate")]
      /\ UNCHANGED <<pool, poll, results, control>>
  BY DEF ReturnToBackgroundPoll, At
<1>2. caller.node \in Node
  BY <1>1, CallerFacts
<1>3. nu \in Nursery /\ nu[1] = caller.node /\ nu[2] = "stepchildren"
  BY <1>2, NurseriesOf
<1>4. stop \in BOOLEAN /\ Typed'
  BY <1>1, TypedKept
<1> HIDE DEF stop
<1> QED BY <1>1, <1>3, <1>4, ReturnsToCaller

LEMMA AnswerInv ==
  ASSUME Inv, NEW t \in Thread, Answer(t)
  PROVE  Inv' /\ [B!Next]_pool
<1>1. /\ stack[t] # <<>> /\ Top(t).pc = "exit" /\ Top(t).order = NoOrder
      /\ Len(stack[t]) = 1
      /\ executing' = executing \ {Top(t).node}
      /\ stack' = [stack EXCEPT ![t] = <<>>]
      /\ answers' = Append(answers, Top(t).flags)
      /\ UNCHANGED <<pool, poll, results, verdict, abortFlag, round>>
  BY DEF Answer, At
<1>2. Top(t).flags \in SUBSET Flag /\ Top(t) = Last(stack[t]) /\ stack[t] \in Seq(Frame)
  BY <1>1, TopFacts
<1>3. Typed'
  BY <1>1, <1>2 DEF Inv, Typed
<1>4. stack' = Returned(stack, t)
  <2>1. Front(stack[t]) \in Seq(Frame) /\ Len(Front(stack[t])) = 0
    BY <1>1, <1>2, Popped
  <2>2. Front(stack[t]) = <<>>
    BY <2>1
  <2> QED BY <1>1, <2>2 DEF Returned
<1>5. Shape(stack', holder, executing')
  <2>1. Shape(Returned(stack, t), LetGo(holder, Top(t)), Left(executing, Top(t)))
    BY <1>1, <1>2, ShapeReturns DEF Inv
  <2>2. LetGo(holder, Top(t)) = holder /\ Left(executing, Top(t)) = executing'
    BY <1>1 DEF LetGo, Left, Entered
  <2> QED BY <1>4, <2>1, <2>2
<1>6. Running'
  BY <1>1, RunningKept, PoolAlone
<1> QED BY <1>1, <1>3, <1>5, <1>6, PoolAlone DEF Inv

LEMMA SyncResultDroppedInv ==
  ASSUME Inv, NEW t \in Thread, SyncResultDropped(t)
  PROVE  Inv' /\ [B!Next]_pool
<1>1. /\ stack[t] # <<>> /\ Top(t).pc = "deliver" /\ Goto(t, "finish")
      /\ UNCHANGED <<pool, executing, poll, results, control>>
  BY DEF SyncResultDropped, At
<1>2. Top(t) \in Frame /\ FrameOK(Top(t)) /\ Typed'
  BY <1>1, TopFacts, TypedKept
<1>3. /\ FrameOK([Top(t) EXCEPT !.pc = "finish"]) /\ "finish" \in PC
      /\ Entered([Top(t) EXCEPT !.pc = "finish"]) <=> Entered(Top(t))
  BY <1>1, <1>2 DEF FrameOK, Entered, Frame, PC
<1> QED BY <1>1, <1>2, <1>3, GoesTo, PoolAlone

LEMMA LookAtBackgroundPollInv ==
  ASSUME Inv, NEW t \in Thread, LookAtBackgroundPoll(t)
  PROVE  Inv' /\ [B!Next]_pool
<1>1. PICK pc \in {"dropoff", "finish"} :
        /\ stack[t] # <<>> /\ Top(t).pc = "deliver" /\ Goto(t, pc)
        /\ Top(t).order.nursery[2] = "stepchildren"
        /\ UNCHANGED <<pool, executing, poll, results, control>>
  <2> DEFINE pc == IF poll[Top(t).order.nursery].on THEN "dropoff" ELSE "finish"
  <2>1. pc \in {"dropoff", "finish"}
    OBVIOUS
  <2>2. /\ stack[t] # <<>> /\ Top(t).pc = "deliver" /\ Goto(t, pc)
        /\ Top(t).order.nursery[2] = "stepchildren"
        /\ UNCHANGED <<pool, executing, poll, results, control>>
    BY DEF LookAtBackgroundPoll, At
  <2> HIDE DEF pc
  <2> QED BY <2>1, <2>2
<1>2. Top(t) \in Frame /\ FrameOK(Top(t)) /\ Typed'
  BY <1>1, TopFacts, TypedKept
<1>3. /\ FrameOK([Top(t) EXCEPT !.pc = pc]) /\ pc \in PC
      /\ Entered([Top(t) EXCEPT !.pc = pc]) <=> Entered(Top(t))
  <2>1. CASE pc = "dropoff"
    BY <1>1, <1>2, <2>1 DEF FrameOK, Entered, Frame, PC
  <2>2. CASE pc = "finish"
    BY <1>1, <1>2, <2>2 DEF FrameOK, Entered, Frame, PC
  <2> QED BY <2>1, <2>2
<1> QED BY <1>1, <1>2, <1>3, GoesTo, PoolAlone

LEMMA ClearAbandonedInv ==
  ASSUME Inv, NEW t \in Thread, ClearAbandoned(t)
  PROVE  Inv' /\ [B!Next]_pool
<1> DEFINE f == [Top(t) EXCEPT !.pc = "finish"]
<1>1. /\ stack[t] # <<>> /\ Top(t).pc = "clear" /\ stack' = [stack EXCEPT ![t] = WithTop(@, f)]
      /\ B!ClearQueue(Top(t).order.nursery)
      /\ UNCHANGED <<executing, poll, results, control>>
  BY DEF ClearAbandoned, At, Goto
<1>2. /\ Top(t) \in Frame /\ FrameOK(Top(t)) /\ Typed'
      /\ Top(t).order \in Order \cup {NoOrder}
  BY <1>1, TopFacts, TypedKept
<1>3. /\ FrameOK(f) /\ f \in Frame /\ f.node = Top(t).node /\ f.depth = Top(t).depth
      /\ f.order = Top(t).order /\ f.req = Top(t).req
      /\ Entered(f) <=> Entered(Top(t))
      /\ Top(t).order # NoOrder
  BY <1>1, <1>2 DEF FrameOK, Entered, Frame, PC
<1>4. Top(t).order.nursery \in Nursery
  BY <1>2, <1>3, OrderFacts
<1>5. BP!Inv' /\ QueueFits' /\ [B!Next]_pool /\ UNCHANGED <<holder, wstate>>
  BY <1>1, <1>4, Clears
<1> HIDE DEF f
<1> QED BY <1>1, <1>2, <1>3, <1>5, GoesOn

\* Frame g is what a thread's top frame f may become without a call or a return.
Continues(f, g) ==
  /\ g \in Frame /\ FrameOK(g) /\ (Entered(g) <=> Entered(f))
  /\ g.node = f.node /\ g.depth = f.depth /\ g.order = f.order /\ g.req = f.req

\* The top frames of several threads go on at once.
LEMMA ShapeTopsGoOn ==
  ASSUME NEW st, NEW h, NEW ex, Shape(st, h, ex), NEW st2,
         st2 = [u \in Thread |-> st2[u]],
         \A u \in Thread : \/ st2[u] = st[u]
                           \/ /\ st[u] # <<>>
                              /\ \E g : Continues(Last(st[u]), g) /\ st2[u] = WithTop(st[u], g)
  PROVE  Shape(st2, h, ex) /\ \A u \in Thread : st2[u] # <<>> => st[u] # <<>>
<1>1. st \in [Thread -> Seq(Frame)]
  BY DEF Shape
<1>2. ASSUME NEW u \in Thread
      PROVE  /\ st2[u] \in Seq(Frame) /\ Len(st2[u]) = Len(st[u])
             /\ st2[u] # <<>> => st[u] # <<>>
             /\ \A i \in 1..Len(st[u]) :
                  /\ st2[u][i].node = st[u][i].node /\ st2[u][i].depth = st[u][i].depth
                  /\ st2[u][i].order = st[u][i].order /\ st2[u][i].req = st[u][i].req
                  /\ Entered(st2[u][i]) <=> Entered(st[u][i])
                  /\ FrameOK(st2[u][i])
                  /\ i < Len(st[u]) => st2[u][i].pc \in Calling
  <2>1. \A i \in 1..Len(st[u]) : FrameOK(st[u][i]) /\ (i < Len(st[u]) => st[u][i].pc \in Calling)
    BY DEF Shape, FramesOK
  <2>2. CASE st2[u] = st[u]
    BY <1>1, <2>1, <2>2
  <2>3. CASE st[u] # <<>> /\ \E g : Continues(Last(st[u]), g) /\ st2[u] = WithTop(st[u], g)
    <3>1. PICK g : Continues(Last(st[u]), g) /\ st2[u] = WithTop(st[u], g)
      BY <2>3
    <3>2. g \in Frame /\ st[u] \in Seq(Frame)
      BY <1>1, <3>1 DEF Continues
    <3>3. /\ st2[u] \in Seq(Frame) /\ Len(st2[u]) = Len(st[u])
          /\ Len(st[u]) \in Nat /\ Len(st[u]) >= 1
          /\ \A i \in 1..Len(st[u]) : st2[u][i] = IF i = Len(st[u]) THEN g ELSE st[u][i]
          /\ Last(st[u]) = st[u][Len(st[u])]
      <4>1. st2[u] = WithTop(st[u], g) /\ st[u] # <<>>
        BY <2>3, <3>1
      <4>2. Last(st[u]) = st[u][Len(st[u])]
        BY <3>2, <4>1, Popped
      <4>3. /\ WithTop(st[u], g) \in Seq(Frame) /\ Len(WithTop(st[u], g)) = Len(st[u])
            /\ Len(st[u]) \in Nat /\ Len(st[u]) >= 1
            /\ \A i \in 1..Len(st[u]) :
                 WithTop(st[u], g)[i] = IF i = Len(st[u]) THEN g ELSE st[u][i]
        BY ONLY <3>2, <4>1, TopChanged
      <4> QED BY ONLY <4>1, <4>2, <4>3
    <3>4. ASSUME NEW i \in 1..Len(st[u])
          PROVE  /\ st2[u][i].node = st[u][i].node /\ st2[u][i].depth = st[u][i].depth
                 /\ st2[u][i].order = st[u][i].order /\ st2[u][i].req = st[u][i].req
                 /\ Entered(st2[u][i]) <=> Entered(st[u][i])
                 /\ FrameOK(st2[u][i])
                 /\ i < Len(st[u]) => st2[u][i].pc \in Calling
      <4>1. CASE i = Len(st[u])
        BY <3>1, <3>3, <4>1 DEF Continues
      <4>2. CASE i # Len(st[u])
        BY <2>1, <3>3, <4>2
      <4> QED BY <4>1, <4>2
    <3> QED BY <2>3, <3>3, <3>4
  <2> QED BY <2>2, <2>3
<1>3. st2 \in [Thread -> Seq(Frame)]
  BY <1>2
<1>4. SameCalls(st, st2)
  BY <1>2, <1>3 DEF SameCalls
<1> QED BY <1>2, <1>4, ShapeGoesOn

\* A result is dropped off, and the thread that waits for it may wake up.
LEMMA DeliveredInv ==
  ASSUME Inv, NEW t \in Thread, stack[t] # <<>>, Top(t).pc \in {"deliver", "dropoff"},
         NEW nu \in Nursery, NEW wake \in BOOLEAN, NEW pc \in {"clear", "finish"},
         pc = "clear" => Top(t).order.nursery[2] = "children",
         stack' = Delivered(t, nu, wake, pc), UNCHANGED <<pool, executing>>, Typed'
  PROVE  Inv' /\ [B!Next]_pool
<1> DEFINE S(u) == stack'[u] = stack[u]
           W(u) == /\ stack[u] # <<>>
                   /\ \E g : Continues(Last(stack[u]), g) /\ stack'[u] = WithTop(stack[u], g)
<1>1. ASSUME NEW u \in Thread
      PROVE  S(u) \/ W(u)
  <2> DEFINE To(p) == [Top(u) EXCEPT !.pc = p]
  <2>1. stack[u] # <<>> => Top(u) = Last(stack[u]) /\ Top(u) \in Frame /\ FrameOK(Top(u))
    BY TopFacts
  <2>2. CASE u = t
    <3>1. Continues(Top(u), To(pc))
      <4>1. To(pc) \in Frame
        BY <2>1, <2>2 DEF Frame, PC
      <4>2. FrameOK(To(pc)) /\ (Entered(To(pc)) <=> Entered(Top(u)))
        BY <2>1, <2>2 DEF Frame, FrameOK, Entered
      <4> QED BY <2>1, <2>2, <4>1, <4>2 DEF Frame, Continues
    <3>2. stack'[u] = WithTop(stack[u], To(pc))
      BY <2>2 DEF Delivered
    <3> QED BY <2>1, <2>2, <3>1, <3>2
  <2>3. CASE u # t /\ wake /\ stack[u] # <<>> /\ Top(u).node = nu[1]
             /\ Top(u).pc = "asleep"  /\ nu[2] = "children"
    <3>1. Continues(Top(u), To("help"))
      <4>1. To("help") \in Frame
        BY <2>1, <2>3 DEF Frame, PC
      <4>2. FrameOK(To("help")) /\ (Entered(To("help")) <=> Entered(Top(u)))
        BY <2>1, <2>3 DEF Frame, FrameOK, Entered
      <4> QED BY <2>1, <2>3, <4>1, <4>2 DEF Frame, Continues
    <3>2. stack'[u] = WithTop(stack[u], To("help"))
      BY <2>3 DEF Delivered
    <3> QED BY <2>1, <2>3, <3>1, <3>2
  <2>4. CASE u # t /\ wake /\ stack[u] # <<>> /\ Top(u).node = nu[1]
             /\ Top(u).pc = "waiting"  /\ nu[2] = "stepchildren"
    <3>1. Continues(Top(u), To("wait"))
      <4>1. To("wait") \in Frame
        BY <2>1, <2>4 DEF Frame, PC
      <4>2. FrameOK(To("wait")) /\ (Entered(To("wait")) <=> Entered(Top(u)))
        BY <2>1, <2>4 DEF Frame, FrameOK, Entered
      <4> QED BY <2>1, <2>4, <4>1, <4>2 DEF Frame, Continues
    <3>2. stack'[u] = WithTop(stack[u], To("wait"))
      BY <2>4 DEF Delivered
    <3> QED BY <2>1, <2>4, <3>1, <3>2
  <2>5. CASE /\ u # t
             /\ ~ (/\ wake /\ stack[u] # <<>> /\ Top(u).node = nu[1]
                   /\ Top(u).pc = "asleep"  /\ nu[2] = "children")
             /\ ~ (/\ wake /\ stack[u] # <<>> /\ Top(u).node = nu[1]
                   /\ Top(u).pc = "waiting"  /\ nu[2] = "stepchildren")
    BY <2>5 DEF Delivered
  <2> QED BY <2>2, <2>3, <2>4, <2>5
<1>2. stack' = [u \in Thread |-> stack'[u]]
  BY DEF Delivered
<1>3. Shape(stack', holder, executing) /\ \A u \in Thread : stack'[u] # <<>> => stack[u] # <<>>
  BY <1>1, <1>2, ShapeTopsGoOn DEF Inv
<1>4. Running'
  BY <1>3, PoolAlone DEF Inv, Running
<1> QED BY <1>3, <1>4, PoolAlone DEF Inv

\* A thread that has a result to drop off knows the order and its nursery.
LEMMA DeliversFor ==
  ASSUME Inv, NEW t \in Thread, stack[t] # <<>>,
         Top(t).pc \in {"deliver", "dropoff", "clear", "finish"}
  PROVE  /\ Top(t).order \in Order /\ Top(t).order # NoOrder
         /\ Top(t).order.nursery \in Nursery
         /\ Top(t).order.ichild \in 1..Len(Members(Top(t).order.nursery))
<1>1. Top(t).order \in Order \cup {NoOrder} /\ FrameOK(Top(t))
  BY TopFacts
<1>2. Top(t).order # NoOrder
  BY <1>1 DEF FrameOK
<1> QED BY <1>1, <1>2, OrderFacts

LEMMA ReceiveSyncResultInv ==
  ASSUME Inv, NEW t \in Thread, ReceiveSyncResult(t)
  PROVE  Inv' /\ [B!Next]_pool
<1> DEFINE f == Top(t)
           nu == f.order.nursery
           n == nu[1]
           k == f.order.ichild
           stop == EndsPoll(nu, f.flags)
           last == poll[nu].count + 1 >= poll[nu].num
           pc == IF stop THEN "clear" ELSE "finish"
<1>1. /\ stack[t] # <<>> /\ f.pc = "deliver" /\ nu[2] = "children"
      /\ results' = [results EXCEPT ![n][k] = ResultOf(f)]
      /\ poll' = [poll EXCEPT ![nu].cumul = Accumulated(@, f.flags),
                              ![nu].abandon = stop,
                              ![nu].count = @ + 1]
      /\ stack' = Delivered(t, nu, last, pc)
      /\ UNCHANGED <<pool, executing, control>>
  BY DEF ReceiveSyncResult, At
<1>2. nu \in Nursery /\ k \in 1..Len(Members(nu))
  BY <1>1, DeliversFor
<1>3. n \in Node /\ k \in 1..Len(Kids[n])
  BY <1>1, <1>2, MembersAreNodes DEF Members
<1>4. f.flags \in SUBSET Flag /\ ResultOf(f) \in Result
  <2>1. f.flags \in SUBSET Flag /\ f.req \in Request
    BY <1>1, TopFacts
  <2> QED BY <2>1, NodeAssumption DEF ResultOf, Result, Request
<1>5. stop \in BOOLEAN /\ last \in BOOLEAN /\ pc \in {"clear", "finish"}
  BY DEF EndsPoll
<1>6. Typed'
  <2>1. Typed
    BY DEF Inv
  <2> HIDE DEF f, n, nu, k, stop
  <2>2. poll' \in [Nursery -> PollState]
    BY <1>1, <1>2, <1>4, <1>5, <2>1 DEF Typed, PollState, Accumulated
  <2>3. /\ DOMAIN results' = Node
        /\ \A m \in Node : results'[m] \in [1..Len(Kids[m]) -> Result]
    BY <1>1, <1>3, <1>4, <2>1 DEF Typed
  <2> QED BY <1>1, <2>1, <2>2, <2>3 DEF Typed, control
<1> HIDE DEF stop, last, pc
<1> QED BY <1>1, <1>2, <1>5, <1>6, DeliveredInv

LEMMA ReceiveBackgroundResultInv ==
  ASSUME Inv, NEW t \in Thread, ReceiveBackgroundResult(t)
  PROVE  Inv' /\ [B!Next]_pool
<1> DEFINE nu == Top(t).order.nursery
           wake == poll[nu].count + 1 >= poll[nu].num
<1>1. /\ stack[t] # <<>> /\ Top(t).pc = "dropoff"
      /\ poll' = [poll EXCEPT ![nu].count = @ + 1]
      /\ stack' = Delivered(t, nu, wake, "finish")
      /\ UNCHANGED <<pool, executing, results, control>>
  BY DEF ReceiveBackgroundResult, At
<1>2. nu \in Nursery /\ wake \in BOOLEAN
  BY <1>1, DeliversFor
<1>3. Typed'
  <2>1. Typed
    BY DEF Inv
  <2> HIDE DEF nu
  <2>2. poll' \in [Nursery -> PollState]
    <3>1. poll \in [Nursery -> PollState] /\ nu \in Nursery
      BY <1>2, <2>1 DEF Typed
    <3> DEFINE p == [poll[nu] EXCEPT !.count = poll[nu].count + 1]
    <3>2. p \in PollState
      BY <3>1 DEF PollState
    <3>3. poll' = [poll EXCEPT ![nu] = p]
      BY <1>1, <3>1 DEF PollState
    <3> HIDE DEF p
    <3> QED BY ONLY <3>1, <3>2, <3>3
  <2>3. UNCHANGED <<results, verdict, abortFlag, round, answers>>
    BY <1>1 DEF control
  <2> QED BY ONLY <2>1, <2>2, <2>3 DEF Typed
<1> HIDE DEF wake
<1> QED BY <1>1, <1>2, <1>3, DeliveredInv

\* A thread finishes the order it took last.
LEMMA FinishOrderInv ==
  ASSUME Inv, NEW t \in Thread, FinishOrder(t)
  PROVE  Inv' /\ [B!Next]_pool
<1> DEFINE f == Top(t)
           o == f.order
<1>1. /\ stack[t] # <<>> /\ f.pc = "finish" /\ B!FinishWithWorkOrder(o)
      /\ stack' = [stack EXCEPT ![t] = Front(@)]
      /\ UNCHANGED <<executing, poll, results, control>>
  BY DEF FinishOrder, At
<1>2. o \in Order /\ o # NoOrder
  BY <1>1, DeliversFor
<1>3. /\ stack[t] \in Seq(Frame) /\ Len(stack[t]) \in 1..Len(stack[t])
      /\ f = stack[t][Len(stack[t])] /\ f = Last(stack[t])
  BY <1>1, TopFacts
<1>4. holder[o] = t
  BY ZenonT(40), <1>2, <1>3 DEF Inv, Shape, Holding
<1>5. f.depth = o.depth /\ DepthOf[o] = o.depth /\ f.depth \in Nat
  BY SMTT(20), <1>1, <1>2, <1>3, OrderFacts, TopFacts DEF Inv, Shape, OrdersMatch
<1>6. ASSUME NEW p \in Order, holder[p] = t
      PROVE  DepthOf[p] <= DepthOf[o]
  <2>1. DepthOf[o] < DepthOf[o] + 1 /\ DepthOf[o] + 1 \in Nat
    BY <1>5
  <2>2. B!PollsAt(t, DepthOf[o] + 1)
    BY <1>1, <1>5, <2>1, MayPoll
  <2>3. DepthOf[p] < DepthOf[o] + 1
    BY <1>6, <2>2 DEF B!PollsAt, B!HeldBy
  <2>4. DepthOf[p] \in Nat
    BY OrderFacts
  <2> QED BY <1>5, <2>3, <2>4
<1>7. [B!Next]_pool
  <2>1. B!Finish(t, o)
    BY <1>1, <1>2, <1>4, <1>6 DEF B!Finish, B!HeldBy
  <2> QED BY <1>2, <2>1 DEF B!Next
<1>8. BP!Inv'
  BY <1>7, PoolInvNext DEF Inv
<1>9. /\ holder' = [holder EXCEPT ![o] = NoThread]
      /\ queue' = queue /\ wstate' = wstate
  BY <1>1 DEF B!FinishWithWorkOrder
<1>10. Shape(stack', holder', executing')
  <2>1. Shape(Returned(stack, t), LetGo(holder, f), Left(executing, f))
    BY <1>1, <1>3, ShapeReturns DEF Inv
  <2>2. stack' = Returned(stack, t)
    BY <1>1 DEF Returned
  <2>3. LetGo(holder, f) = holder' /\ Left(executing, f) = executing'
    BY <1>1, <1>2, <1>9 DEF LetGo, Left, Entered
  <2> QED BY <2>1, <2>2, <2>3
<1>11. QueueFits'
  BY <1>9 DEF Inv, QueueFits
<1>12. Running'
  BY <1>1, <1>9, RunningKept
<1> QED BY <1>1, <1>7, <1>8, <1>10, <1>11, <1>12, TypedKept DEF Inv

LEMMA RaiseAbortInv ==
  ASSUME Inv, RaiseAbort
  PROVE  Inv' /\ [B!Next]_pool
<1>1. /\ abortFlag' = TRUE
      /\ UNCHANGED <<pool, stack, executing, poll, results, verdict, round, answers>>
  BY DEF RaiseAbort
<1>2. Typed' /\ Running'
  BY <1>1 DEF Inv, Typed, Running, pool
<1> QED BY <1>1, <1>2, PoolAlone DEF Inv

-----------------------------------------------------------------------------
(* Together.                                                                *)

LEMMA InitInv == Init => Inv
<1> SUFFICES ASSUME Init
    PROVE  Inv
  OBVIOUS
<1>1. BP!Inv
  BY PoolInvInit DEF Init
<1>2. /\ stack = [t \in Thread |-> <<>>] /\ executing = {}
      /\ holder = [o \in Order |-> NoThread] /\ queue = <<>>
  BY DEF Init, B!Init
<1>3. \A t \in Thread : stack[t] = <<>> /\ Len(stack[t]) = 0
  BY <1>2
<1>4. Shape(stack, holder, executing)
  <2>1. stack \in [Thread -> Seq(Frame)] /\ executing \subseteq Node
    BY <1>2
  <2>2. NoThread \notin Thread
    BY PoolAssumption DEF B!ThreadAssumption
  <2>3. holder \in [Order -> Thread \cup {NoThread}] /\ Holding(stack, holder)
    BY <1>2, <1>3, <2>2 DEF Holding
  <2>4. Fits(stack) /\ Deepens(stack) /\ OrdersMatch(stack) /\ Started(stack)
    BY <1>3 DEF Fits, Deepens, OrdersMatch, Started
  <2>5. FramesOK(stack) /\ Exclusive(stack) /\ Marked(stack, executing)
    BY <1>2, <1>3 DEF FramesOK, Exclusive, Marked
  <2> QED BY <2>1, <2>3, <2>4, <2>5 DEF Shape
<1>5. QueueFits /\ Running
  BY <1>2, <1>3 DEF QueueFits, Running
<1>6. Typed
  <2>1. poll \in [Nursery -> PollState]
    BY DEF Init, PollState, IdlePoll
  <2>2. /\ DOMAIN results = Node
        /\ \A n \in Node : results[n] \in [1..Len(Kids[n]) -> Result]
    BY NodeAssumption DEF Init, NoResult, Result
  <2>3. round \in 0..Rounds /\ answers \in Seq(SUBSET Flag)
    BY NodeAssumption DEF Init
  <2>4. verdict \in Verdicts /\ abortFlag \in BOOLEAN
    BY DEF Init
  <2> QED BY <2>1, <2>2, <2>3, <2>4 DEF Typed
<1> QED BY <1>1, <1>4, <1>5, <1>6 DEF Inv

LEMMA ThreadInv ==
  ASSUME Inv, NEW t \in Thread, ThreadStep(t)
  PROVE  Inv' /\ [B!Next]_pool
<1>1. CASE Join(t)
  BY <1>1, JoinInv
<1>2. CASE NextRequest(t)
  BY <1>2, NextRequestInv
<1>3. CASE WorkerTakes(t)
  BY <1>3, WorkerTakesInv
<1>4. CASE WorkerSleeps(t)
  BY <1>4, WorkerSleepsInv
<1>5. CASE Enter(t)
  BY <1>5, EnterInv
<1>6. CASE SyncPoll(t)
  BY <1>6, SyncPollInv
<1>7. CASE SyncPollSerially(t)
  BY <1>7, SyncPollSeriallyInv
<1>8. CASE HelpYourself(t)
  BY <1>8, HelpYourselfInv
<1>9. CASE CheckPoll(t)
  BY <1>9, CheckPollInv
<1>10. CASE Polled(t)
  BY <1>10, PolledInv
<1>11. CASE BackgroundPoll(t)
  BY <1>11, BackgroundPollInv
<1>12. CASE BackgroundPollSerially(t)
  BY <1>12, BackgroundPollSeriallyInv
<1>13. CASE Evaluate(t)
  BY <1>13, EvaluateInv
<1>14. CASE EvaluateAborted(t)
  BY <1>14, EvaluateAbortedInv
<1>15. CASE AbortChildren(t)
  <2>1. stack[t] # <<>> /\ Top(t).pc = "abort"
    BY <1>15 DEF AbortChildren, At
  <2>2. Children(Top(t).node) \in Nursery
    BY <2>1, TopFacts, NurseriesOf
  <2> QED BY <1>15, <2>1, <2>2, AbortPollInv DEF AbortChildren
<1>16. CASE AbortStepChildren(t)
  <2>1. stack[t] # <<>> /\ Top(t).pc = "abortstep"
    BY <1>16 DEF AbortStepChildren, At
  <2>2. StepChildren(Top(t).node) \in Nursery
    BY <2>1, TopFacts, NurseriesOf
  <2> QED BY <1>16, <2>1, <2>2, AbortPollInv DEF AbortStepChildren
<1>17. CASE WaitForEndOfPoll(t)
  BY <1>17, WaitForEndOfPollInv
<1>18. CASE ReturnToOrder(t)
  BY <1>18, ReturnToOrderInv
<1>19. CASE ReturnToPoll(t)
  BY <1>19, ReturnToPollInv
<1>20. CASE ReturnToBackgroundPoll(t)
  BY <1>20, ReturnToBackgroundPollInv
<1>21. CASE Answer(t)
  BY <1>21, AnswerInv
<1>22. CASE SyncResultDropped(t)
  BY <1>22, SyncResultDroppedInv
<1>23. CASE ReceiveSyncResult(t)
  BY <1>23, ReceiveSyncResultInv
<1>24. CASE ClearAbandoned(t)
  BY <1>24, ClearAbandonedInv
<1>25. CASE LookAtBackgroundPoll(t)
  BY <1>25, LookAtBackgroundPollInv
<1>26. CASE ReceiveBackgroundResult(t)
  BY <1>26, ReceiveBackgroundResultInv
<1>27. CASE FinishOrder(t)
  BY <1>27, FinishOrderInv
<1> QED BY <1>1, <1>2, <1>3, <1>4, <1>5, <1>6, <1>7, <1>8, <1>9, <1>10, <1>11, <1>12,
           <1>13, <1>14, <1>15, <1>16, <1>17, <1>18, <1>19, <1>20, <1>21, <1>22, <1>23,
           <1>24, <1>25, <1>26, <1>27 DEF ThreadStep, ExecStep

LEMMA NextInv == Inv /\ [Next]_vars => Inv' /\ [B!Next]_pool
<1> SUFFICES ASSUME Inv, [Next]_vars
    PROVE  Inv' /\ [B!Next]_pool
  OBVIOUS
<1>1. CASE \E t \in Thread : ThreadStep(t)
  BY <1>1, ThreadInv
<1>2. CASE RaiseAbort
  BY <1>2, RaiseAbortInv
<1>3. CASE UNCHANGED vars
  <2>1. UNCHANGED <<pool, stack, executing, poll, results, control>>
    BY <1>3 DEF vars, control
  <2>2. Typed' /\ Running'
    BY <2>1, TypedKept DEF Inv, Running, pool
  <2> QED BY <2>1, <2>2, PoolAlone DEF Inv
<1>4. CASE NoMoreRequests
  BY <1>3, <1>4 DEF NoMoreRequests
<1> QED BY <1>1, <1>2, <1>3, <1>4 DEF Next

\* The invariant holds, and every step of the nurseries is one of the pool.
LEMMA InvHolds == Spec => []Inv /\ [][B!Next]_pool
<1>1. Init => Inv
  BY InitInv
<1>2. Inv /\ [Next]_vars => Inv'
  BY NextInv
<1>3. Inv /\ [Next]_vars => [B!Next]_pool
  BY NextInv
<1> QED BY <1>1, <1>2, <1>3, PTL DEF Spec

-----------------------------------------------------------------------------
\* Every variable keeps its type, and every order on the queue, on a stack or
\* held by a thread is one of the model: in particular no call is deeper than
\* the forest is high, and the count of results never leaves the naturals.
THEOREM TypeCorrect == Spec => []TypeOK
<1>1. Inv => TypeOK
  <2>1. BP!Inv => B!TypeOK
    BY SameBrigade DEF BP!Inv
  <2> QED BY <2>1 DEF Inv, Typed, Shape, TypeOK
<1> QED BY <1>1, InvHolds, PTL

\* Node::execute's wait for executing_ does what it is for (Node.cc): no node is
\* executed by two threads at once, nor again by the thread that is inside of it,
\* and executing_ is set exactly while a node is executed.
THEOREM NodesAreExecutedOnce == Spec => []OneExecutionPerNode
<1>1. ASSUME Inv
      PROVE  OneExecutionPerNode
  <2>1. Exclusive(stack) /\ Marked(stack, executing) /\ executing \subseteq Node
        /\ stack \in [Thread -> Seq(Frame)]
    BY <1>1 DEF Inv, Shape
  <2>2. ASSUME NEW x \in Frames
        PROVE  /\ x[1] \in Thread /\ x[2] \in 1..Len(stack[x[1]]) /\ x = <<x[1], x[2]>>
               /\ FrameAt(x) = stack[x[1]][x[2]] /\ FrameAt(x).node \in Node
    <3>1. PICK t \in Thread : \E i \in 1..Len(stack[t]) : x = <<t, i>>
      BY DEF Frames
    <3>2. PICK i \in 1..Len(stack[t]) : x = <<t, i>>
      BY <3>1
    <3>3. stack[t][i] \in Frame
      BY <2>1
    <3> QED BY <3>2, <3>3 DEF Frame, FrameAt
  <2>3. ASSUME NEW x \in Frames, NEW y \in Frames,
               Entered(FrameAt(x)), Entered(FrameAt(y)),
               FrameAt(x).node = FrameAt(y).node
        PROVE  x = y
    <3> DEFINE t == x[1]  i == x[2]  u == y[1]  j == y[2]
    <3>1. /\ t \in Thread /\ i \in 1..Len(stack[t]) /\ FrameAt(x) = stack[t][i]
          /\ u \in Thread /\ j \in 1..Len(stack[u]) /\ FrameAt(y) = stack[u][j]
      BY <2>2
    <3>2. /\ Entered(stack[t][i]) /\ Entered(stack[u][j])
          /\ stack[t][i].node = stack[u][j].node
      BY <2>3, <3>1
    <3> HIDE DEF t, i, u, j
    <3>3. t = u /\ i = j
      BY <2>1, <3>1, <3>2 DEF Exclusive
    <3> QED BY <2>2, <3>3 DEF t, i, u, j
  <2>4. ASSUME NEW n
        PROVE  n \in executing <=>
                 n \in {FrameAt(x).node : x \in {y \in Frames : Entered(FrameAt(y))}}
    <3>1. ASSUME n \in executing
          PROVE  \E x \in Frames : Entered(FrameAt(x)) /\ FrameAt(x).node = n
      <4>1. PICK t \in Thread : \E i \in 1..Len(stack[t]) :
              Entered(stack[t][i]) /\ stack[t][i].node = n
        BY <2>1, <3>1 DEF Marked
      <4>2. PICK i \in 1..Len(stack[t]) : Entered(stack[t][i]) /\ stack[t][i].node = n
        BY <4>1
      <4>3. <<t, i>> \in Frames /\ FrameAt(<<t, i>>) = stack[t][i]
        BY DEF Frames, FrameAt
      <4> QED BY <4>2, <4>3
    <3>2. ASSUME NEW x \in Frames, Entered(FrameAt(x)), FrameAt(x).node = n
          PROVE  n \in executing
      BY <2>1, <2>2, <3>2 DEF Marked
    <3> QED BY <3>1, <3>2
  <2> QED BY <2>3, <2>4 DEF OneExecutionPerNode
<1> QED BY <1>1, InvHolds, PTL

\* The nurseries use the brigade as module Brigade has it used: a thread polls
\* below what it executes only, it finishes the deepest order it holds, and new
\* orders are new.  What is proved of Brigade!Spec thus holds of the pool here.
THEOREM NurseriesDriveTheBrigade == Spec => PoolBehaviour
<1>1. Init => B!Init
  BY DEF Init
<1>2. Inv /\ [Next]_vars => [B!Next]_B!vars
  BY NextInv DEF B!vars, pool
<1> QED BY <1>1, <1>2, InvHolds, PTL DEF Spec, PoolBehaviour, B!Spec
=============================================================================
