---------------------------- MODULE NurseryOrders ----------------------------
(***************************************************************************)
(* What becomes of the orders of a poll, proved from the invariant of      *)
(* NurseryProofs: the results and the orders that are outstanding add up   *)
(* to the number of children, so that nothing outlives its poll.           *)
(***************************************************************************)
EXTENDS NurseryProofs

-----------------------------------------------------------------------------
(* The orders of a poll and the count of its results.                       *)

\* No child's code abandons a poll, and no request comes after an aborted one.
\* Without the first, a poll may end before its queue is cleared; without the
\* second, abandon_ is still set in the next request's background poll.
Undisturbed ==
  /\ \A n \in Node : FailPolicy[n] # "AbandonPropagate" /\ MissingPolicy[n] # "AbandonPropagate"
  /\ MayAbort => Rounds = 1

Queued(q, o) == \E i \in 1..Len(q) : q[i] = o

NoneQueued(q, nu) == \A i \in 1..Len(q) : q[i].nursery # nu

\* The frame has the order's result yet to drop off.
Carries(f, o) == f.order = o /\ f.pc \notin {"clear", "finish"}

Carried(st, o) == \E t \in Thread : \E i \in 1..Len(st[t]) : Carries(st[t][i], o)

\* The orders of each nursery whose results are outstanding.
Pending == [nu \in Nursery |->
  {o \in Order : o.nursery = nu /\ (Queued(queue, o) \/ Carried(stack, o))}]

Aborted(f) == "ABORT" \in f.flags

\* What holds of a nursery: results and outstanding orders add up to the number
\* of children, no child has two orders, and no order is left once the node has
\* returned.
Polls(nu, pl, pd, q, ex, ab) ==
  /\ pl[nu].abandon => ab
  /\ "ABORT" \in pl[nu].cumul => ab
  /\ pd[nu] # {} => pl[nu].mt
  /\ pl[nu].mt /\ ~ pl[nu].abandon =>
       pl[nu].on /\ pl[nu].count + Cardinality(pd[nu]) = pl[nu].num
  /\ ~ pl[nu].abandon => \A o, p \in pd[nu] : o.ichild = p.ichild => o = p
  /\ nu[1] \notin ex => NoneQueued(q, nu) /\ (~ ab => pd[nu] = {})

\* What holds of the nurseries of a node where its execution stands.
BeforeStep == {"poll", "serial", "help", "check", "asleep", "polled", "step", "stepserial"}

AfterPoll == {"step", "stepserial", "evaluate", "wait", "waiting", "exit"}

Leaving == {"wait", "waiting", "exit"}

Stage(f, pl, pd, q, ab) ==
  LET kn == Children(f.node)  sn == StepChildren(f.node) IN
  /\ f.pc \in {"poll", "serial"} => pd[kn] = {}
  /\ f.pc = "poll" => ~ pl[kn].abandon
  /\ f.pc \in BeforeStep => pd[sn] = {}
  /\ f.pc \in BeforeStep \cup {"evaluate"} => ~ pl[sn].abandon
  /\ f.pc \in Leaving /\ ~ Aborted(f) => ~ pl[sn].abandon
  /\ f.pc \in AfterPoll /\ ~ Aborted(f) => pd[kn] = {}
  /\ f.pc = "polled" /\ ~ ab => pd[kn] = {}
  /\ f.pc = "exit" /\ ~ Aborted(f) => pd[sn] = {}
  /\ f.pc \in Leaving \cup {"abortstep"} /\ Aborted(f) => NoneQueued(q, kn)
  /\ f.pc \in Leaving /\ Aborted(f) => NoneQueued(q, sn)
  /\ f.pc \in {"abort", "abortstep"} => ab
  /\ f.pc = "abortstep" => Aborted(f)
  /\ \A o \in pd[kn] \cup pd[sn] : o.req = f.req

Stands(f, pl, pd, q, ab) ==
  /\ Entered(f) => Stage(f, pl, pd, q, ab)
  /\ f.pc = "clear" => pl[f.order.nursery].abandon
  /\ Aborted(f) => ab

Accounts ==
  /\ \A nu \in Nursery : Polls(nu, poll, Pending, queue, executing, abortFlag)
  /\ \A t \in Thread : \A i \in 1..Len(stack[t]) :
       Stands(stack[t][i], poll, Pending, queue, abortFlag)
  /\ abortFlag => MayAbort /\ round = Rounds

\* The outstanding orders of a nursery are finitely many.
LEMMA PendingFacts ==
  ASSUME NEW nu \in Nursery
  PROVE  /\ Pending[nu] \subseteq Order /\ IsFiniteSet(Pending[nu])
         /\ Cardinality(Pending[nu]) \in Nat
         /\ Cardinality(Pending[nu]) = 0 <=> Pending[nu] = {}
         /\ \A o \in Pending[nu] : o \in Order /\ o.nursery = nu
<1>1. Pending[nu] \subseteq Order /\ \A o \in Pending[nu] : o \in Order /\ o.nursery = nu
  BY DEF Pending
<1>2. IsFiniteSet(Pending[nu])
  BY <1>1, OrdersFinite, FS_Subset
<1> QED BY <1>1, <1>2, FS_CardinalityType, FS_EmptySet

\* When the results are complete no order is outstanding.
LEMMA AllAnswered ==
  ASSUME Inv, Accounts, NEW nu \in Nursery, PollDone(nu), ~ poll[nu].abandon
  PROVE  Pending[nu] = {}
<1> SUFFICES ASSUME Pending[nu] # {}
    PROVE  FALSE
  OBVIOUS
<1>1. Polls(nu, poll, Pending, queue, executing, abortFlag)
  BY DEF Accounts
<1>2. poll[nu].count + Cardinality(Pending[nu]) = poll[nu].num
  BY <1>1 DEF Polls
<1>3. poll[nu].count \in Nat /\ poll[nu].num \in Nat
  BY DEF Inv, Typed, PollState
<1>4. poll[nu].count >= poll[nu].num
  BY DEF PollDone
<1>5. Cardinality(Pending[nu]) \in Nat /\ Cardinality(Pending[nu]) # 0
  BY PendingFacts
<1> QED BY <1>2, <1>3, <1>4, <1>5

\* An order that is neither queued nor carried is not outstanding, and so on.
LEMMA NothingQueued ==
  ASSUME Inv, NEW nu \in Nursery, Pending[nu] = {}
  PROVE  NoneQueued(queue, nu)
<1>1. queue \in Seq(Order)
  BY PoolFacts
<1>2. \A i \in 1..Len(queue) : queue[i] \in Order /\ Queued(queue, queue[i])
  BY <1>1 DEF Queued
<1> QED BY <1>2 DEF Pending, NoneQueued

\* No two frames are there for the sake of one order, and it is not queued.
LEMMA CarriedOnce ==
  ASSUME Inv, NEW o \in Order, NEW t \in Thread, NEW i \in 1..Len(stack[t]),
         stack[t][i].order = o
  PROVE  /\ \A u \in Thread : \A j \in 1..Len(stack[u]) :
              stack[u][j].order = o => u = t /\ j = i
         /\ ~ Queued(queue, o)
<1>1. holder[o] = t
  BY DEF Inv, Shape, Holding
<1>2. ASSUME NEW u \in Thread, NEW j \in 1..Len(stack[u]), stack[u][j].order = o
      PROVE  u = t /\ j = i
  <2>1. u = t
    BY <1>1, <1>2 DEF Inv, Shape, Holding
  <2>2. o # NoOrder
    BY OrderFacts
  <2>3. stack[t][i].depth = o.depth /\ stack[t][j].depth = o.depth /\ o.depth \in Nat
    BY SMTT(20), <1>2, <2>1, <2>2, OrderFacts DEF Inv, Shape, OrdersMatch
  <2>4. ~ (i < j) /\ ~ (j < i)
    BY <1>2, <2>1, <2>3 DEF Inv, Shape, Deepens
  <2> QED BY <2>1, <2>4
<1>3. ~ Queued(queue, o)
  BY <1>1, PoolFacts DEF Queued
<1> QED BY <1>2, <1>3

\* The frames after a change of the top one, a call and a return.
LEMMA ChangedFrames ==
  ASSUME NEW st \in [Thread -> Seq(Frame)], NEW t \in Thread, st[t] # <<>>, NEW f \in Frame
  PROVE  LET st2 == Changed(st, t, f) IN
         /\ st2 \in [Thread -> Seq(Frame)]
         /\ \A u \in Thread : Len(st2[u]) = Len(st[u])
         /\ st2[t][Len(st[t])] = f
         /\ \A u \in Thread : \A j \in 1..Len(st[u]) :
              ~ (u = t /\ j = Len(st[t])) => st2[u][j] = st[u][j]
         /\ Len(st[t]) \in 1..Len(st[t]) /\ Last(st[t]) = st[t][Len(st[t])]
<1>1. st[t] \in Seq(Frame)
  OBVIOUS
<1>2. /\ WithTop(st[t], f) \in Seq(Frame) /\ Len(WithTop(st[t], f)) = Len(st[t])
      /\ \A i \in 1..Len(st[t]) : WithTop(st[t], f)[i] = IF i = Len(st[t]) THEN f ELSE st[t][i]
  BY <1>1, TopChanged
<1>3. Len(st[t]) \in 1..Len(st[t]) /\ Last(st[t]) = st[t][Len(st[t])]
  BY <1>1, Popped
<1> QED BY <1>2, <1>3 DEF Changed

LEMMA CalledFrames ==
  ASSUME NEW st \in [Thread -> Seq(Frame)], NEW t \in Thread, NEW c \in Frame
  PROVE  LET st2 == Called(st, t, c) IN
         /\ st2 \in [Thread -> Seq(Frame)]
         /\ \A u \in Thread : \A j \in 1..Len(st[u]) :
              j \in 1..Len(st2[u]) /\ st2[u][j] = st[u][j]
         /\ \A u \in Thread : \A j \in 1..Len(st2[u]) :
              j \in 1..Len(st[u]) \/ (u = t /\ j = Len(st[t]) + 1)
         /\ Len(st[t]) + 1 \in 1..Len(st2[t]) /\ st2[t][Len(st[t]) + 1] = c
<1>1. st[t] \in Seq(Frame) /\ Len(st[t]) \in Nat
  OBVIOUS
<1>2. /\ Append(st[t], c) \in Seq(Frame) /\ Len(Append(st[t], c)) = Len(st[t]) + 1
      /\ \A i \in 1..Len(st[t]) : i \in 1..(Len(st[t]) + 1) /\ Append(st[t], c)[i] = st[t][i]
      /\ Append(st[t], c)[Len(st[t]) + 1] = c
      /\ \A i \in 1..(Len(st[t]) + 1) : i = Len(st[t]) + 1 \/ i \in 1..Len(st[t])
  BY <1>1, Pushed
<1> DEFINE st2 == Called(st, t, c)
<1>3. /\ st2 \in [Thread -> Seq(Frame)] /\ st2[t] = Append(st[t], c)
      /\ \A u \in Thread : u # t => st2[u] = st[u]
  BY <1>2 DEF Called
<1> HIDE DEF st2
<1>4. ASSUME NEW u \in Thread, NEW j \in 1..Len(st[u])
      PROVE  j \in 1..Len(st2[u]) /\ st2[u][j] = st[u][j]
  BY <1>2, <1>3
<1>5. ASSUME NEW u \in Thread, NEW j \in 1..Len(st2[u])
      PROVE  j \in 1..Len(st[u]) \/ (u = t /\ j = Len(st[t]) + 1)
  BY <1>2, <1>3
<1>6. Len(st[t]) + 1 \in 1..Len(st2[t]) /\ st2[t][Len(st[t]) + 1] = c
  BY <1>1, <1>2, <1>3
<1> QED BY <1>3, <1>4, <1>5, <1>6 DEF st2

(* The same of a name s2 for the new stacks, where Called is not expanded. *)
LEMMA CalledApart ==
  ASSUME NEW st \in [Thread -> Seq(Frame)], NEW t \in Thread, NEW c \in Frame,
         NEW s2, s2 = Called(st, t, c)
  PROVE  /\ \A u \in Thread : \A j \in 1..Len(st[u]) :
              j \in 1..Len(s2[u]) /\ s2[u][j] = st[u][j]
         /\ \A u \in Thread : \A j \in 1..Len(s2[u]) :
              j \in 1..Len(st[u]) \/ (u = t /\ j = Len(st[t]) + 1)
         /\ s2[t][Len(st[t]) + 1] = c
<1>1. /\ \A u \in Thread : \A j \in 1..Len(st[u]) :
           j \in 1..Len(Called(st, t, c)[u]) /\ Called(st, t, c)[u][j] = st[u][j]
      /\ \A u \in Thread : \A j \in 1..Len(Called(st, t, c)[u]) :
           j \in 1..Len(st[u]) \/ (u = t /\ j = Len(st[t]) + 1)
      /\ Called(st, t, c)[t][Len(st[t]) + 1] = c
  BY ONLY st \in [Thread -> Seq(Frame)], t \in Thread, c \in Frame, CalledFrames
<1> QED BY <1>1

LEMMA ReturnedFrames ==
  ASSUME NEW st \in [Thread -> Seq(Frame)], NEW t \in Thread, st[t] # <<>>
  PROVE  LET st2 == Returned(st, t) IN
         /\ st2 \in [Thread -> Seq(Frame)]
         /\ \A u \in Thread : \A j \in 1..Len(st2[u]) :
              j \in 1..Len(st[u]) /\ st2[u][j] = st[u][j]
         /\ \A u \in Thread : \A j \in 1..Len(st[u]) :
              j \in 1..Len(st2[u]) \/ (u = t /\ j = Len(st[t]))
         /\ Len(st[t]) \in 1..Len(st[t]) /\ Last(st[t]) = st[t][Len(st[t])]
<1>1. st[t] \in Seq(Frame)
  OBVIOUS
<1>2. /\ Front(st[t]) \in Seq(Frame)
      /\ \A i \in 1..Len(Front(st[t])) : i \in 1..Len(st[t]) /\ Front(st[t])[i] = st[t][i]
      /\ \A i \in 1..Len(st[t]) : i = Len(st[t]) \/ i \in 1..Len(Front(st[t]))
      /\ Len(st[t]) \in 1..Len(st[t]) /\ Last(st[t]) = st[t][Len(st[t])]
  BY <1>1, Popped
<1> DEFINE st2 == Returned(st, t)
<1>3. /\ st2 \in [Thread -> Seq(Frame)] /\ st2[t] = Front(st[t])
      /\ \A u \in Thread : u # t => st2[u] = st[u]
  BY <1>2 DEF Returned
<1> HIDE DEF st2
<1>4. ASSUME NEW u \in Thread, NEW j \in 1..Len(st2[u])
      PROVE  j \in 1..Len(st[u]) /\ st2[u][j] = st[u][j]
  BY <1>2, <1>3
<1>5. ASSUME NEW u \in Thread, NEW j \in 1..Len(st[u])
      PROVE  j \in 1..Len(st2[u]) \/ (u = t /\ j = Len(st[t]))
  BY <1>2, <1>3
<1> QED BY <1>2, <1>3, <1>4, <1>5 DEF st2

\* What they carry.
LEMMA ChangedCarries ==
  ASSUME NEW st \in [Thread -> Seq(Frame)], NEW t \in Thread, st[t] # <<>>, NEW f \in Frame,
         NEW o
  PROVE  /\ Carried(Changed(st, t, f), o) => Carried(st, o) \/ Carries(f, o)
         /\ Carried(st, o) => Carried(Changed(st, t, f), o) \/ Carries(Last(st[t]), o)
         /\ Carries(f, o) => Carried(Changed(st, t, f), o)
         /\ Carries(Last(st[t]), o) => Carried(st, o)
<1> DEFINE st2 == Changed(st, t, f)
           L == Len(st[t])
<1>1. /\ \A u \in Thread : Len(st2[u]) = Len(st[u])
      /\ st2[t][L] = f
      /\ \A u \in Thread : \A j \in 1..Len(st[u]) :
              ~ (u = t /\ j = L) => st2[u][j] = st[u][j]
      /\ L \in 1..L /\ Last(st[t]) = st[t][L]
  <2>1. \A u \in Thread : Len(st2[u]) = Len(st[u])
    BY ChangedFrames
  <2>2. st2[t][L] = f
    BY ChangedFrames
  <2>3. \A u \in Thread : \A j \in 1..Len(st[u]) :
          ~ (u = t /\ j = L) => st2[u][j] = st[u][j]
    BY SMTT(20), ChangedFrames
  <2>4. L \in 1..L /\ Last(st[t]) = st[t][L]
    BY ChangedFrames
  <2> QED BY <2>1, <2>2, <2>3, <2>4
<1> HIDE DEF st2
<1>2. ASSUME Carried(st2, o)
      PROVE  Carried(st, o) \/ Carries(f, o)
  BY <1>1, <1>2 DEF Carried
<1>3. ASSUME Carried(st, o)
      PROVE  Carried(st2, o) \/ Carries(Last(st[t]), o)
  <2>1. PICK u \in Thread : \E j \in 1..Len(st[u]) : Carries(st[u][j], o)
    BY <1>3 DEF Carried
  <2>2. PICK j \in 1..Len(st[u]) : Carries(st[u][j], o)
    BY <2>1
  <2>3. CASE u = t /\ j = L
    BY <1>1, <2>2, <2>3
  <2>4. CASE ~ (u = t /\ j = L)
    BY <1>1, <2>2, <2>4 DEF Carried
  <2> QED BY <2>3, <2>4
<1>4. Carries(f, o) => Carried(st2, o)
  <2>1. L \in 1..Len(st2[t]) /\ st2[t][L] = f
    BY <1>1
  <2> QED BY <2>1 DEF Carried
<1>5. Carries(Last(st[t]), o) => Carried(st, o)
  BY <1>1 DEF Carried
<1> QED BY <1>2, <1>3, <1>4, <1>5 DEF st2

LEMMA CalledCarries ==
  ASSUME NEW st \in [Thread -> Seq(Frame)], NEW t \in Thread, NEW c \in Frame, NEW o
  PROVE  Carried(Called(st, t, c), o) <=> Carried(st, o) \/ Carries(c, o)
<1> DEFINE st2 == Called(st, t, c)
           L == Len(st[t]) + 1
<1>1. /\ \A u \in Thread : \A j \in 1..Len(st[u]) :
              j \in 1..Len(st2[u]) /\ st2[u][j] = st[u][j]
      /\ \A u \in Thread : \A j \in 1..Len(st2[u]) : j \in 1..Len(st[u]) \/ (u = t /\ j = L)
      /\ L \in 1..Len(st2[t]) /\ st2[t][L] = c
  BY CalledFrames
<1> HIDE DEF st2, L
<1>2. ASSUME Carried(st2, o)
      PROVE  Carried(st, o) \/ Carries(c, o)
  BY <1>1, <1>2 DEF Carried
<1>3. ASSUME Carried(st, o)
      PROVE  Carried(st2, o)
  BY <1>1, <1>3 DEF Carried
<1>4. Carries(c, o) => Carried(st2, o)
  BY <1>1 DEF Carried
<1> QED BY <1>2, <1>3, <1>4 DEF st2

LEMMA ReturnedCarries ==
  ASSUME NEW st \in [Thread -> Seq(Frame)], NEW t \in Thread, st[t] # <<>>, NEW o
  PROVE  Carried(st, o) <=> Carried(Returned(st, t), o) \/ Carries(Last(st[t]), o)
<1> DEFINE st2 == Returned(st, t)
           L == Len(st[t])
<1>1. /\ \A u \in Thread : \A j \in 1..Len(st2[u]) :
              j \in 1..Len(st[u]) /\ st2[u][j] = st[u][j]
      /\ \A u \in Thread : \A j \in 1..Len(st[u]) : j \in 1..Len(st2[u]) \/ (u = t /\ j = L)
      /\ L \in 1..L /\ Last(st[t]) = st[t][L]
  BY ReturnedFrames
<1> HIDE DEF st2
<1>2. ASSUME Carried(st, o)
      PROVE  Carried(st2, o) \/ Carries(Last(st[t]), o)
  BY <1>1, <1>2 DEF Carried
<1>3. ASSUME Carried(st2, o)
      PROVE  Carried(st, o)
  BY <1>1, <1>3 DEF Carried
<1>4. Carries(Last(st[t]), o) => Carried(st, o)
  BY <1>1 DEF Carried
<1> QED BY <1>2, <1>3, <1>4 DEF st2

-----------------------------------------------------------------------------
(* How the accounts are kept: a step changes the nurseries of one node, or   *)
(* makes those of others milder.                                             *)

Begins(c) == c.pc = "enter" /\ c.flags = {}

\* Every frame after the step was there before, is the acting one's new frame g,
\* or begins; no other frame executes a node of N.
Acts(st, st2, N, g) ==
  \A u \in Thread : \A j \in 1..Len(st2[u]) :
    \/ /\ j \in 1..Len(st[u]) /\ st2[u][j] = st[u][j]
       /\ Entered(st[u][j]) => st[u][j].node \notin N
    \/ st2[u][j] = g
    \/ Begins(st2[u][j])

\* Orders of the nursery get fewer, and it is abandoned with orders outstanding only.
Milder(nu) ==
  /\ Pending'[nu] \subseteq Pending[nu]
  /\ NoneQueued(queue, nu) => NoneQueued(queue', nu)
  /\ poll'[nu].abandon => poll[nu].abandon \/ (nu[2] = "children" /\ Pending[nu] # {})

\* Flags go up only.
Monotone ==
  /\ abortFlag => abortFlag'
  /\ \A nu \in Nursery : poll[nu].abandon => poll'[nu].abandon
  /\ abortFlag' => MayAbort /\ round' = Rounds

LEMMA FrameFacts ==
  ASSUME Inv, NEW u \in Thread, NEW j \in 1..Len(stack[u])
  PROVE  /\ stack[u][j] \in Frame /\ stack[u][j].node \in Node /\ FrameOK(stack[u][j])
         /\ stack[u][j].order \in Order \cup {NoOrder}
         /\ stack[u][j].flags \in SUBSET Flag /\ stack[u][j].req \in Request
<1>1. stack \in [Thread -> Seq(Frame)] /\ FramesOK(stack)
  BY DEF Inv, Shape
<1>2. stack[u][j] \in Frame
  BY <1>1
<1>3. FrameOK(stack[u][j])
  BY <1>1 DEF FramesOK
<1> QED BY <1>2, <1>3 DEF Frame

LEMMA StandsKept ==
  ASSUME Inv, NEW f \in Frame, Stands(f, poll, Pending, queue, abortFlag), Monotone,
         Entered(f) => Milder(Children(f.node)) /\ Milder(StepChildren(f.node)),
         f.pc = "clear" => f.order.nursery \in Nursery
  PROVE  Stands(f, poll', Pending', queue', abortFlag')
<1>1. f.node \in Node
  BY DEF Frame
<1>2. ASSUME Entered(f)
      PROVE  Stage(f, poll', Pending', queue', abortFlag')
  <2> DEFINE kn == Children(f.node)  sn == StepChildren(f.node)
  <2>1. /\ Stage(f, poll, Pending, queue, abortFlag) /\ Milder(kn) /\ Milder(sn)
        /\ sn[2] # "children" /\ (abortFlag => abortFlag')
    BY <1>1, <1>2, NurseriesOf DEF Stands, Monotone
  <2>2. /\ f.pc \in {"poll", "serial"} => Pending'[kn] = {}
        /\ f.pc = "poll" => ~ poll'[kn].abandon
    BY <2>1 DEF Stage, Milder
  <2>3. /\ f.pc \in BeforeStep => Pending'[sn] = {}
        /\ f.pc \in BeforeStep \cup {"evaluate"} => ~ poll'[sn].abandon
        /\ f.pc \in Leaving /\ ~ Aborted(f) => ~ poll'[sn].abandon
        /\ f.pc = "exit" /\ ~ Aborted(f) => Pending'[sn] = {}
    BY <2>1 DEF Stage, Milder
  <2>4. /\ f.pc \in AfterPoll /\ ~ Aborted(f) => Pending'[kn] = {}
        /\ f.pc = "polled" /\ ~ abortFlag' => Pending'[kn] = {}
    BY <2>1 DEF Stage, Milder
  <2>5. /\ f.pc \in Leaving \cup {"abortstep"} /\ Aborted(f) => NoneQueued(queue', kn)
        /\ f.pc \in Leaving /\ Aborted(f) => NoneQueued(queue', sn)
    BY <2>1 DEF Stage, Milder
  <2>6. /\ f.pc \in {"abort", "abortstep"} => abortFlag'
        /\ f.pc = "abortstep" => Aborted(f)
        /\ \A o \in Pending'[kn] \cup Pending'[sn] : o.req = f.req
    BY <2>1 DEF Stage, Milder
  <2> QED BY <2>2, <2>3, <2>4, <2>5, <2>6 DEF Stage
<1>3. f.pc = "clear" => poll'[f.order.nursery].abandon
  BY DEF Stands, Monotone
<1>4. Aborted(f) => abortFlag'
  BY DEF Stands, Monotone
<1> QED BY <1>2, <1>3, <1>4 DEF Stands

LEMMA BeginsStands ==
  ASSUME NEW c, Begins(c), NEW pl, NEW pd, NEW q, NEW ab
  PROVE  Stands(c, pl, pd, q, ab)
BY DEF Begins, Stands, Entered, Aborted

LEMMA AccountsKept ==
  ASSUME Inv, Accounts, Inv', Monotone, NEW N, NEW g, Acts(stack, stack', N, g),
         \A nu \in Nursery : nu[1] \notin N => Milder(nu),
         \A nu \in Nursery : Polls(nu, poll', Pending', queue', executing', abortFlag'),
         Stands(g, poll', Pending', queue', abortFlag')
  PROVE  Accounts'
<1>1. ASSUME NEW u \in Thread, NEW j \in 1..Len(stack'[u])
      PROVE  Stands(stack'[u][j], poll', Pending', queue', abortFlag')
  <2>1. CASE stack'[u][j] = g
    BY <2>1
  <2>2. CASE Begins(stack'[u][j])
    BY <2>2, BeginsStands
  <2>3. CASE /\ j \in 1..Len(stack[u]) /\ stack'[u][j] = stack[u][j]
             /\ Entered(stack[u][j]) => stack[u][j].node \notin N
    <3> DEFINE f == stack[u][j]
    <3>1. /\ f \in Frame /\ f.node \in Node /\ FrameOK(f)
          /\ f.order \in Order \cup {NoOrder}
      BY <2>3, FrameFacts
    <3>2. Entered(f) => Milder(Children(f.node)) /\ Milder(StepChildren(f.node))
      BY <2>3, <3>1, NurseriesOf
    <3>3. Stands(f, poll, Pending, queue, abortFlag)
      BY <2>3 DEF Accounts
    <3>4. f.pc = "clear" => f.order.nursery \in Nursery
      BY <3>1, OrderFacts DEF FrameOK
    <3>5. Stands(f, poll', Pending', queue', abortFlag')
      <4> HIDE DEF f
      <4> QED BY <3>1, <3>2, <3>3, <3>4, StandsKept
    <3> QED BY <2>3, <3>5
  <2> QED BY <2>1, <2>2, <2>3 DEF Acts
<1>2. abortFlag' => MayAbort /\ round' = Rounds
  BY DEF Monotone
<1> QED BY <1>1, <1>2 DEF Accounts

LEMMA PollsKept ==
  ASSUME NEW nu \in Nursery, Polls(nu, poll, Pending, queue, executing, abortFlag),
         Pending'[nu] = Pending[nu], poll'[nu] = poll[nu], abortFlag => abortFlag',
         NoneQueued(queue, nu) => NoneQueued(queue', nu),
         nu[1] \notin executing' =>
           \/ nu[1] \notin executing
           \/ NoneQueued(queue, nu) /\ (~ abortFlag => Pending[nu] = {})
  PROVE  Polls(nu, poll', Pending', queue', executing', abortFlag')
BY DEF Polls

\* Outstanding orders stay the same, or one is not outstanding any more.
LEMMA PendingSame ==
  ASSUME \A o \in Order : Queued(queue, o) \/ Carried(stack, o) <=>
                            Queued(queue', o) \/ Carried(stack', o)
  PROVE  Pending' = Pending
BY DEF Pending

LEMMA PendingLess ==
  ASSUME NEW o,
         \A p \in Order : Queued(queue', p) \/ Carried(stack', p) <=>
                            (Queued(queue, p) \/ Carried(stack, p)) /\ p # o
  PROVE  \A nu \in Nursery : Pending'[nu] = Pending[nu] \ {o}
BY DEF Pending

\* Only the top changes.
LEMMA ChangedBelow ==
  ASSUME NEW st \in [Thread -> Seq(Frame)], NEW t \in Thread, st[t] # <<>>, NEW f \in Frame,
         NEW u \in Thread, NEW j \in 1..Len(st[u]), ~ (u = t /\ j = Len(st[t]))
  PROVE  Changed(st, t, f)[u][j] = st[u][j]
BY SMTT(20), ChangedFrames

\* How the frames act.
LEMMA ChangedActs ==
  ASSUME Inv, NEW t \in Thread, stack[t] # <<>>, NEW g \in Frame,
         stack' = Changed(stack, t, g)
  PROVE  Acts(stack, stack', IF Entered(Top(t)) THEN {Top(t).node} ELSE {}, g)
<1> DEFINE L == Len(stack[t])
<1>1. stack \in [Thread -> Seq(Frame)] /\ Exclusive(stack)
  BY DEF Inv, Shape
<1>2. /\ \A u \in Thread : Len(stack'[u]) = Len(stack[u])
      /\ stack'[t][L] = g
      /\ \A u \in Thread : \A j \in 1..Len(stack[u]) :
              ~ (u = t /\ j = L) => stack'[u][j] = stack[u][j]
      /\ L \in 1..L /\ Top(t) = stack[t][L]
  <2> DEFINE st2 == Changed(stack, t, g)
  <2>1. \A u \in Thread : Len(st2[u]) = Len(stack[u])
    BY <1>1, ChangedFrames
  <2>2. st2[t][L] = g
    BY <1>1, ChangedFrames
  <2>3. ASSUME NEW u \in Thread, NEW j \in 1..Len(stack[u]), ~ (u = t /\ j = L)
        PROVE  st2[u][j] = stack[u][j]
    BY <1>1, <2>3, ChangedBelow
  <2>4. L \in 1..L /\ Last(stack[t]) = stack[t][L]
    <3>1. stack[t] \in Seq(Frame)
      BY <1>1
    <3> QED BY <3>1, Popped
  <2>5. stack' = st2
    OBVIOUS
  <2> HIDE DEF st2, L
  <2> QED BY ONLY <2>1, <2>2, <2>3, <2>4, <2>5 DEF Top
<1>3. ASSUME NEW u \in Thread, NEW j \in 1..Len(stack'[u]), stack'[u][j] # g
      PROVE  /\ j \in 1..Len(stack[u]) /\ stack'[u][j] = stack[u][j]
             /\ Entered(stack[u][j]) =>
                  stack[u][j].node \notin (IF Entered(Top(t)) THEN {Top(t).node} ELSE {})
  <2>1. j \in 1..Len(stack[u]) /\ stack'[u][j] = stack[u][j] /\ ~ (u = t /\ j = L)
    BY <1>2, <1>3
  <2>2. Entered(stack[u][j]) /\ Entered(Top(t)) => stack[u][j].node # Top(t).node
    BY <1>1, <1>2, <2>1 DEF Exclusive
  <2> QED BY <2>1, <2>2
<1> QED BY <1>3 DEF Acts

LEMMA CalledActs ==
  ASSUME Inv, NEW t \in Thread, stack[t] # <<>>, Entered(Top(t)), NEW g \in Frame,
         NEW c \in Frame, Begins(c), stack' = Called(Changed(stack, t, g), t, c)
  PROVE  Acts(stack, stack', {Top(t).node}, g)
<1> DEFINE L == Len(stack[t])
           st1 == Changed(stack, t, g)
<1>1. stack \in [Thread -> Seq(Frame)] /\ Exclusive(stack)
  BY DEF Inv, Shape
<1>2. /\ st1 \in [Thread -> Seq(Frame)]
      /\ \A u \in Thread : Len(st1[u]) = Len(stack[u])
      /\ st1[t][L] = g
      /\ \A u \in Thread : \A j \in 1..Len(stack[u]) :
              ~ (u = t /\ j = L) => st1[u][j] = stack[u][j]
      /\ L \in 1..L /\ Top(t) = stack[t][L]
  <2> DEFINE st2 == Changed(stack, t, g)
  <2>1. st2 \in [Thread -> Seq(Frame)]
    BY <1>1, ChangedFrames
  <2>5. \A u \in Thread : Len(st2[u]) = Len(stack[u])
    BY <1>1, ChangedFrames
  <2>2. st2[t][L] = g
    BY <1>1, ChangedFrames
  <2>3. ASSUME NEW u \in Thread, NEW j \in 1..Len(stack[u]), ~ (u = t /\ j = L)
        PROVE  st2[u][j] = stack[u][j]
    BY <1>1, <2>3, ChangedBelow
  <2>4. L \in 1..L /\ Last(stack[t]) = stack[t][L]
    <3>1. stack[t] \in Seq(Frame)
      BY <1>1
    <3> QED BY <3>1, Popped
  <2> HIDE DEF st2, L
  <2> QED BY <2>1, <2>2, <2>3, <2>4, <2>5 DEF Top, st2
<1> HIDE DEF st1
<1>3. /\ \A u \in Thread : \A j \in 1..Len(st1[u]) :
           j \in 1..Len(stack'[u]) /\ stack'[u][j] = st1[u][j]
      /\ \A u \in Thread : \A j \in 1..Len(stack'[u]) :
           j \in 1..Len(st1[u]) \/ (u = t /\ j = Len(st1[t]) + 1)
      /\ stack'[t][Len(st1[t]) + 1] = c
  <2> DEFINE st2 == Called(st1, t, c)
  <2>1. /\ st2 \in [Thread -> Seq(Frame)]
        /\ \A u \in Thread : \A j \in 1..Len(st1[u]) :
             j \in 1..Len(st2[u]) /\ st2[u][j] = st1[u][j]
        /\ \A u \in Thread : \A j \in 1..Len(st2[u]) :
             j \in 1..Len(st1[u]) \/ (u = t /\ j = Len(st1[t]) + 1)
        /\ Len(st1[t]) + 1 \in 1..Len(st2[t]) /\ st2[t][Len(st1[t]) + 1] = c
    <3>1. st1 \in [Thread -> Seq(Frame)]
      BY <1>2
    <3> QED BY ONLY SMTT(20), <3>1, t \in Thread, c \in Frame, CalledFrames
  <2>2. stack' = st2
    BY DEF st1
  <2> HIDE DEF st2
  <2> QED BY ONLY <2>1, <2>2
<1>4. ASSUME NEW u \in Thread, NEW j \in 1..Len(stack'[u]), stack'[u][j] # g,
             stack'[u][j] # c
      PROVE  /\ j \in 1..Len(stack[u]) /\ stack'[u][j] = stack[u][j]
             /\ Entered(stack[u][j]) => stack[u][j].node \notin {Top(t).node}
  <2>1. j \in 1..Len(st1[u]) /\ stack'[u][j] = st1[u][j]
    BY <1>3, <1>4
  <2>2. j \in 1..Len(stack[u]) /\ stack'[u][j] = stack[u][j] /\ ~ (u = t /\ j = L)
    BY <1>2, <1>4, <2>1
  <2>3. Entered(stack[u][j]) => stack[u][j].node # Top(t).node
    BY <1>1, <1>2, <2>2 DEF Exclusive
  <2> QED BY <2>2, <2>3
<1> QED BY <1>4 DEF Acts

LEMMA CallActs ==
  ASSUME Inv, NEW t \in Thread, NEW c \in Frame, Begins(c), stack' = Called(stack, t, c)
  PROVE  Acts(stack, stack', {}, c)
<1>1. stack \in [Thread -> Seq(Frame)]
  BY DEF Inv, Shape
<1>2. /\ \A u \in Thread : \A j \in 1..Len(stack[u]) :
           j \in 1..Len(stack'[u]) /\ stack'[u][j] = stack[u][j]
      /\ \A u \in Thread : \A j \in 1..Len(stack'[u]) :
           j \in 1..Len(stack[u]) \/ (u = t /\ j = Len(stack[t]) + 1)
      /\ stack'[t][Len(stack[t]) + 1] = c
  <2> DEFINE st2 == Called(stack, t, c)
  <2>1. /\ \A u \in Thread : \A j \in 1..Len(stack[u]) :
             j \in 1..Len(st2[u]) /\ st2[u][j] = stack[u][j]
        /\ \A u \in Thread : \A j \in 1..Len(st2[u]) :
             j \in 1..Len(stack[u]) \/ (u = t /\ j = Len(stack[t]) + 1)
        /\ st2[t][Len(stack[t]) + 1] = c
    BY ONLY <1>1, t \in Thread, c \in Frame, CalledFrames
  <2>2. stack' = st2
    OBVIOUS
  <2> HIDE DEF st2
  <2> QED BY ONLY <2>1, <2>2
<1> QED BY <1>2 DEF Acts

LEMMA ReturnActs ==
  ASSUME Inv, NEW t \in Thread, stack[t] # <<>>, stack' = Returned(stack, t), NEW g
  PROVE  Acts(stack, stack', {}, g)
<1>1. stack \in [Thread -> Seq(Frame)]
  BY DEF Inv, Shape
<1>2. \A u \in Thread : \A j \in 1..Len(stack'[u]) :
        j \in 1..Len(stack[u]) /\ stack'[u][j] = stack[u][j]
  BY <1>1, ReturnedFrames
<1> QED BY <1>2 DEF Acts

\* A step that places, clears and delivers no order and leaves the nurseries alone.
LEMMA StepAccounts ==
  ASSUME Inv, Accounts, Inv', NEW N, NEW g \in Frame, g.pc # "clear",
         Acts(stack, stack', N, g), Pending' = Pending,
         \A nu \in Nursery : NoneQueued(queue, nu) => NoneQueued(queue', nu),
         UNCHANGED <<poll, abortFlag>>, round' = round \/ ~ abortFlag,
         \A nu \in Nursery : nu[1] \notin executing' =>
           \/ nu[1] \notin executing
           \/ NoneQueued(queue, nu) /\ (~ abortFlag => Pending[nu] = {}),
         Stands(g, poll, Pending, queue, abortFlag)
  PROVE  Accounts'
<1>1. \A nu \in Nursery : Polls(nu, poll, Pending, queue, executing, abortFlag)
  BY DEF Accounts
<1>2. ASSUME NEW nu \in Nursery
      PROVE  Polls(nu, poll', Pending', queue', executing', abortFlag')
  BY <1>1, PollsKept
<1>3. \A nu \in Nursery : Milder(nu)
  BY DEF Milder
<1>4. Monotone
  BY DEF Monotone, Accounts
<1>5. Stands(g, poll', Pending', queue', abortFlag')
  <2>1. g.node \in Node
    BY DEF Frame
  <2>2. Milder(Children(g.node)) /\ Milder(StepChildren(g.node))
    BY <1>3, <2>1, NurseriesOf
  <2> QED BY <1>4, <2>2, StandsKept
<1> QED BY <1>2, <1>3, <1>4, <1>5, AccountsKept

-----------------------------------------------------------------------------
(* Which orders are outstanding after a step.                               *)

Outstanding(q, st, o) == Queued(q, o) \/ Carried(st, o)

\* A frame that goes on with its order carries the same.
LEMMA SameCarried ==
  ASSUME Inv, NEW t \in Thread, stack[t] # <<>>, NEW g \in Frame,
         g.order = Top(t).order,
         g.pc \notin {"clear", "finish"} <=> Top(t).pc \notin {"clear", "finish"}
  PROVE  /\ \A o : Carried(Changed(stack, t, g), o) <=> Carried(stack, o)
         /\ Changed(stack, t, g) \in [Thread -> Seq(Frame)]
<1>1. stack \in [Thread -> Seq(Frame)] /\ Top(t) = Last(stack[t])
  BY TopFacts DEF Inv, Shape
<1>2. \A o : Carries(g, o) <=> Carries(Last(stack[t]), o)
  BY <1>1 DEF Carries
<1>3. ASSUME NEW o
      PROVE  Carried(Changed(stack, t, g), o) <=> Carried(stack, o)
  BY <1>1, <1>2, ChangedCarries
<1>4. Changed(stack, t, g) \in [Thread -> Seq(Frame)]
  BY <1>1, ChangedFrames
<1> QED BY <1>3, <1>4

\* An order taken from the queue is carried by the frame it starts.
LEMMA TakenOutstanding ==
  ASSUME NEW st \in [Thread -> Seq(Frame)], NEW t \in Thread, NEW c \in Frame, c.pc = "enter",
         NEW q \in Seq(Order), q # <<>>, c.order = Head(q), NEW o \in Order
  PROVE  Outstanding(Tail(q), Called(st, t, c), o) <=> Outstanding(q, st, o)
<1>1. Carried(Called(st, t, c), o) <=> Carried(st, o) \/ o = Head(q)
  <2>1. Carries(c, o) <=> o = Head(q)
    BY DEF Carries
  <2> QED BY <2>1, CalledCarries
<1>2. Queued(q, o) <=> Queued(Tail(q), o) \/ o = Head(q)
  <2>1. /\ Head(q) = q[1] /\ Len(Tail(q)) = Len(q) - 1 /\ Len(q) \in Nat /\ 1 \in 1..Len(q)
        /\ \A i \in 1..Len(Tail(q)) : Tail(q)[i] = q[i + 1]
    BY HeadTailProperties
  <2>2. ASSUME Queued(Tail(q), o)
        PROVE  Queued(q, o)
    <3>1. PICK i \in 1..Len(Tail(q)) : Tail(q)[i] = o
      BY <2>2 DEF Queued
    <3>2. i + 1 \in 1..Len(q) /\ q[i + 1] = o
      BY <2>1, <3>1
    <3> QED BY <3>2 DEF Queued
  <2>3. ASSUME Queued(q, o)
        PROVE  Queued(Tail(q), o) \/ o = Head(q)
    <3>1. PICK i \in 1..Len(q) : q[i] = o
      BY <2>3 DEF Queued
    <3>2. CASE i = 1
      BY <2>1, <3>1, <3>2
    <3>3. CASE i # 1
      <4>1. i - 1 \in 1..Len(Tail(q)) /\ i - 1 + 1 = i
        BY <2>1, <3>3
      <4>2. Tail(q)[i - 1] = o
        BY <2>1, <3>1, <4>1
      <4> QED BY <4>1, <4>2 DEF Queued
    <3> QED BY <3>2, <3>3
  <2>4. o = Head(q) => Queued(q, o)
    BY <2>1 DEF Queued
  <2> QED BY <2>2, <2>3, <2>4
<1> QED BY <1>1, <1>2 DEF Outstanding

LEMMA TakenQueue ==
  ASSUME NEW q \in Seq(Order), q # <<>>, NEW nu, NoneQueued(q, nu)
  PROVE  NoneQueued(Tail(q), nu)
<1>1. /\ Len(Tail(q)) = Len(q) - 1 /\ Len(q) \in Nat
      /\ \A i \in 1..Len(Tail(q)) : Tail(q)[i] = q[i + 1]
  BY HeadTailProperties
<1>2. \A i \in 1..Len(Tail(q)) : i + 1 \in 1..Len(q)
  BY <1>1
<1> QED BY <1>1, <1>2 DEF NoneQueued

-----------------------------------------------------------------------------
(* The steps that place, clear and deliver no order.                        *)

\* The thread goes on in its top frame.
LEMMA GoesOnAccounts ==
  ASSUME Inv, Accounts, Inv', NEW t \in Thread, stack[t] # <<>>, NEW g \in Frame,
         stack' = Changed(stack, t, g), g.order = Top(t).order,
         g.pc \notin {"clear", "finish"}, Top(t).pc \notin {"clear", "finish"},
         UNCHANGED <<pool, poll, abortFlag, round>>,
         \A nu \in Nursery : nu[1] \notin executing' =>
           \/ nu[1] \notin executing
           \/ NoneQueued(queue, nu) /\ (~ abortFlag => Pending[nu] = {}),
         Stands(g, poll, Pending, queue, abortFlag)
  PROVE  Accounts'
<1>1. queue' = queue
  BY DEF pool
<1>2. \A o \in Order : Queued(queue, o) \/ Carried(stack, o) <=>
                         Queued(queue', o) \/ Carried(stack', o)
  BY <1>1, SameCarried
<1>3. Pending' = Pending
  BY <1>2, PendingSame
<1>4. PICK N : Acts(stack, stack', N, g)
  BY ChangedActs
<1> QED BY <1>1, <1>3, <1>4, StepAccounts

\* The thread calls a node, directly or for an order it takes from the queue.
LEMMA CallsAccounts ==
  ASSUME Inv, Accounts, Inv', NEW t \in Thread, stack[t] # <<>>, Entered(Top(t)),
         NEW g \in Frame, NEW c \in Frame, Begins(c),
         stack' = Called(Changed(stack, t, g), t, c), g.order = Top(t).order,
         Entered(g),
         \/ queue' = queue /\ c.order = NoOrder
         \/ queue # <<>> /\ queue' = Tail(queue) /\ c.order = Head(queue),
         UNCHANGED <<executing, poll, abortFlag, round>>,
         Stands(g, poll, Pending, queue, abortFlag)
  PROVE  Accounts'
<1> DEFINE st1 == Changed(stack, t, g)
<1>1. /\ \A o : Carried(st1, o) <=> Carried(stack, o)
      /\ st1 \in [Thread -> Seq(Frame)]
  BY SameCarried DEF Entered
<1>2. stack' = Called(st1, t, c) /\ queue \in Seq(Order)
  BY PoolFacts
<1> HIDE DEF st1
<1>3. ASSUME NEW o \in Order
      PROVE  Outstanding(queue', stack', o) <=> Outstanding(queue, stack, o)
  <2>1. CASE queue' = queue /\ c.order = NoOrder
    <3>1. ~ Carries(c, o)
      BY <2>1, OrderFacts DEF Carries
    <3> QED BY <1>1, <1>2, <2>1, <3>1, CalledCarries DEF Outstanding
  <2>2. CASE queue # <<>> /\ queue' = Tail(queue) /\ c.order = Head(queue)
    <3>1. Outstanding(Tail(queue), Called(st1, t, c), o) <=> Outstanding(queue, st1, o)
      BY <1>1, <1>2, <2>2, TakenOutstanding DEF Begins
    <3> QED BY <1>1, <1>2, <2>2, <3>1 DEF Outstanding
  <2> QED BY <2>1, <2>2
<1>4. Pending' = Pending
  BY <1>3, PendingSame DEF Outstanding
<1>5. \A nu \in Nursery : NoneQueued(queue, nu) => NoneQueued(queue', nu)
  BY <1>2, TakenQueue
<1>6. Acts(stack, stack', {Top(t).node}, g)
  BY CalledActs
<1>7. g.pc # "clear"
  BY DEF Entered
<1> QED BY <1>4, <1>5, <1>6, <1>7, StepAccounts

LEMMA TopStands ==
  ASSUME Inv, Accounts, NEW t \in Thread, stack[t] # <<>>
  PROVE  /\ Stands(Top(t), poll, Pending, queue, abortFlag)
         /\ Entered(Top(t)) => Stage(Top(t), poll, Pending, queue, abortFlag)
         /\ Aborted(Top(t)) => abortFlag
<1>1. Len(stack[t]) \in 1..Len(stack[t]) /\ Top(t) = stack[t][Len(stack[t])]
  BY TopFacts
<1>2. Stands(Top(t), poll, Pending, queue, abortFlag)
  BY <1>1 DEF Accounts
<1> QED BY <1>2 DEF Stands

LEMMA PollsHold ==
  ASSUME Accounts, NEW nu \in Nursery
  PROVE  Polls(nu, poll, Pending, queue, executing, abortFlag)
BY DEF Accounts

\* A node has two nurseries.
LEMMA NurseryIs ==
  ASSUME NEW nu \in Nursery
  PROVE  nu = Children(nu[1]) \/ nu = StepChildren(nu[1])
BY DEF Nursery, Children, StepChildren

\* Once the abort flag is up there is one request.
LEMMA OneRequest ==
  ASSUME Undisturbed, Accounts, abortFlag
  PROVE  \A r, s \in Request : r = s
<1>1. Rounds = 1
  BY DEF Undisturbed, Accounts
<1> QED BY <1>1 DEF Request

\* Nothing changes that the accounts are about.
LEMMA SameAccounts ==
  ASSUME Accounts, UNCHANGED <<queue, stack, executing, poll, abortFlag, round>>
  PROVE  Accounts'
<1>1. Pending' = Pending
  BY DEF Pending
<1> QED BY <1>1 DEF Accounts

LEMMA JoinAccounts ==
  ASSUME Accounts, NEW t \in Thread, Join(t) \/ WorkerSleeps(t)
  PROVE  Accounts'
BY SameAccounts DEF Join, WorkerSleeps, B!Join, B!WorkerSleeps, control

LEMMA EnterAccounts ==
  ASSUME Undisturbed, Inv, Accounts, Inv', NEW t \in Thread, Enter(t)
  PROVE  Accounts'
<1> DEFINE f == Top(t)
           g == [f EXCEPT !.pc = IF abortFlag THEN "abort" ELSE "poll"]
           kn == Children(f.node)
           sn == StepChildren(f.node)
<1>1. /\ stack[t] # <<>> /\ f.pc = "enter" /\ f.node \notin executing
      /\ executing' = executing \cup {f.node} /\ stack' = Changed(stack, t, g)
      /\ UNCHANGED <<pool, poll, results, control>>
  BY DEF Enter, At, Goto, Changed
<1>2. /\ f \in Frame /\ f.node \in Node /\ f.req \in Request
      /\ kn \in Nursery /\ sn \in Nursery /\ kn[1] = f.node /\ sn[1] = f.node
  BY <1>1, TopFacts, NurseriesOf
<1>3. /\ g \in Frame /\ g.order = f.order /\ g.node = f.node /\ g.req = f.req
      /\ g.flags = f.flags /\ g.pc = IF abortFlag THEN "abort" ELSE "poll"
  BY <1>2 DEF Frame, PC
<1>4. /\ ~ abortFlag => Pending[kn] = {} /\ Pending[sn] = {}
      /\ ~ abortFlag => ~ poll[kn].abandon /\ ~ poll[sn].abandon
  BY <1>1, <1>2, PollsHold DEF Polls
<1>5. \A o \in Pending[kn] \cup Pending[sn] : o.req = f.req
  <2>1. CASE ~ abortFlag
    BY <1>4, <2>1
  <2>2. CASE abortFlag
    <3>1. \A o \in Pending[kn] \cup Pending[sn] : o \in Order
      BY <1>2, PendingFacts
    <3> QED BY <1>2, <2>2, <3>1, OrderFacts, OneRequest
  <2> QED BY <2>1, <2>2
<1>6. Stage(g, poll, Pending, queue, abortFlag)
  <2> HIDE DEF g
  <2> QED BY <1>3, <1>4, <1>5 DEF Stage, BeforeStep, AfterPoll, Leaving
<1>7. Stands(g, poll, Pending, queue, abortFlag)
  <2>1. Aborted(f) => abortFlag
    BY <1>1, TopStands
  <2> HIDE DEF g
  <2> QED BY <1>3, <1>6, <2>1 DEF Stands, Aborted
<1> HIDE DEF g
<1> QED BY <1>1, <1>3, <1>7, GoesOnAccounts DEF control

LEMMA CheckPollAccounts ==
  ASSUME Inv, Accounts, Inv', NEW t \in Thread, CheckPoll(t)
  PROVE  Accounts'
<1> DEFINE f == Top(t)
           kn == Children(f.node)
           g == [f EXCEPT !.pc = IF PollDone(kn) THEN "polled" ELSE "asleep"]
<1>1. /\ stack[t] # <<>> /\ f.pc = "check" /\ stack' = Changed(stack, t, g)
      /\ UNCHANGED <<pool, executing, poll, results, control>>
  BY DEF CheckPoll, At, Goto, Changed
<1>2. f \in Frame /\ f.node \in Node /\ kn \in Nursery
  BY <1>1, TopFacts, NurseriesOf
<1>3. /\ g \in Frame /\ g.order = f.order /\ g.node = f.node /\ g.req = f.req
      /\ g.flags = f.flags /\ g.pc = IF PollDone(kn) THEN "polled" ELSE "asleep"
  BY <1>2 DEF Frame, PC
<1>4. Stage(f, poll, Pending, queue, abortFlag) /\ (Aborted(f) => abortFlag)
  BY <1>1, TopStands DEF Entered
<1>5. PollDone(kn) /\ ~ abortFlag => Pending[kn] = {}
  BY <1>2, PollsHold, AllAnswered DEF Polls
<1>6. Stands(g, poll, Pending, queue, abortFlag)
  <2> HIDE DEF g
  <2> QED BY <1>1, <1>3, <1>4, <1>5 DEF Stands, Stage, Aborted, BeforeStep, AfterPoll, Leaving
<1> HIDE DEF g
<1> QED BY <1>1, <1>3, <1>6, GoesOnAccounts DEF control

LEMMA PolledAccounts ==
  ASSUME Inv, Accounts, Inv', NEW t \in Thread, Polled(t)
  PROVE  Accounts'
<1> DEFINE f == Top(t)
           kn == Children(f.node)
           flags == IF abortFlag THEN {"ABORT"} ELSE poll[kn].cumul \ Ignored(f.node)
<1>1. /\ stack[t] # <<>> /\ f.pc = "polled"
      /\ \E pc \in {"evaluate", "step"} :
           stack' = Changed(stack, t, [f EXCEPT !.flags = flags, !.pc = pc])
      /\ UNCHANGED <<pool, executing, poll, results, control>>
  BY DEF Polled, At, Changed
<1>2. PICK pc \in {"evaluate", "step"} :
        stack' = Changed(stack, t, [f EXCEPT !.flags = flags, !.pc = pc])
  BY <1>1
<1> DEFINE g == [f EXCEPT !.flags = flags, !.pc = pc]
<1>3. f \in Frame /\ f.node \in Node /\ kn \in Nursery
  BY <1>1, TopFacts, NurseriesOf
<1>4. flags \in SUBSET Flag
  <2>1. poll[kn].cumul \in SUBSET Flag
    BY <1>3 DEF Inv, Typed, PollState
  <2> QED BY <2>1 DEF Flag
<1>5. "ABORT" \in flags <=> abortFlag
  BY <1>3, PollsHold DEF Polls
<1>6. Stage(f, poll, Pending, queue, abortFlag)
  BY <1>1, TopStands DEF Entered
<1> HIDE DEF flags
<1>7. /\ g \in Frame /\ g.order = f.order /\ g.node = f.node /\ g.req = f.req
      /\ g.flags = flags /\ g.pc \in {"evaluate", "step"}
  BY <1>3, <1>4 DEF Frame, PC
<1> HIDE DEF g
<1>8. Stands(g, poll, Pending, queue, abortFlag)
  BY <1>1, <1>5, <1>6, <1>7 DEF Stands, Stage, Aborted, BeforeStep, AfterPoll, Leaving
<1> QED BY <1>1, <1>2, <1>7, <1>8, GoesOnAccounts DEF control, g

LEMMA EvaluateAccounts ==
  ASSUME Inv, Accounts, Inv', NEW t \in Thread, Evaluate(t)
  PROVE  Accounts'
<1> DEFINE f == Top(t)
           flags == IF f.flags \cap {"FAIL", "MISSING"} # {} THEN f.flags
                    ELSE f.flags \cup verdict[f.node][f.req]
           g == [f EXCEPT !.flags = flags, !.pc = "wait"]
<1>1. /\ stack[t] # <<>> /\ f.pc = "evaluate" /\ ~ abortFlag
      /\ stack' = Changed(stack, t, g)
      /\ UNCHANGED <<pool, executing, poll, control>>
  BY DEF Evaluate, At, Changed
<1>2. f \in Frame /\ f.node \in Node /\ f.req \in Request /\ f.flags \in SUBSET Flag
  BY <1>1, TopFacts
<1>3. verdict[f.node][f.req] \in SUBSET {"FAIL", "MISSING"}
  BY <1>2, NodeAssumption DEF Inv, Typed
<1>4. Stage(f, poll, Pending, queue, abortFlag) /\ ~ Aborted(f)
  BY <1>1, TopStands DEF Entered
<1>5. flags \in SUBSET Flag /\ "ABORT" \notin flags
  BY <1>2, <1>3, <1>4 DEF Aborted, Flag
<1> HIDE DEF flags
<1>6. /\ g \in Frame /\ g.order = f.order /\ g.node = f.node /\ g.req = f.req
      /\ g.flags = flags /\ g.pc = "wait"
  BY <1>2, <1>5 DEF Frame, PC
<1> HIDE DEF g
<1>7. Stands(g, poll, Pending, queue, abortFlag)
  BY <1>1, <1>4, <1>5, <1>6 DEF Stands, Stage, Aborted, BeforeStep, AfterPoll, Leaving
<1> QED BY <1>1, <1>6, <1>7, GoesOnAccounts DEF control

LEMMA EvaluateAbortedAccounts ==
  ASSUME Inv, Accounts, Inv', NEW t \in Thread, EvaluateAborted(t)
  PROVE  Accounts'
<1> DEFINE f == Top(t)
           g == [f EXCEPT !.pc = "abort"]
<1>1. /\ stack[t] # <<>> /\ f.pc = "evaluate" /\ abortFlag /\ stack' = Changed(stack, t, g)
      /\ UNCHANGED <<pool, executing, poll, results, control>>
  BY DEF EvaluateAborted, At, Goto, Changed
<1>2. f \in Frame
  BY <1>1, TopFacts
<1>3. /\ g \in Frame /\ g.order = f.order /\ g.node = f.node /\ g.req = f.req
      /\ g.flags = f.flags /\ g.pc = "abort"
  BY <1>2 DEF Frame, PC
<1>4. Stage(f, poll, Pending, queue, abortFlag)
  BY <1>1, TopStands DEF Entered
<1> HIDE DEF g
<1>5. Stands(g, poll, Pending, queue, abortFlag)
  BY <1>1, <1>3, <1>4 DEF Stands, Stage, Aborted, BeforeStep, AfterPoll, Leaving
<1> QED BY <1>1, <1>3, <1>5, GoesOnAccounts DEF control

\* A call in terms of what it does to the stacks.
LEMMA CallIs ==
  ASSUME Inv, NEW t \in Thread, NEW pc, NEW c, GotoAndCall(t, pc, c)
  PROVE  stack' = Called(Changed(stack, t, [Top(t) EXCEPT !.pc = pc]), t, c)
<1> DEFINE f == [Top(t) EXCEPT !.pc = pc]
<1>1. stack' = [stack EXCEPT ![t] = Append(WithTop(@, f), c)]
  BY DEF GotoAndCall
<1>2. stack \in [Thread -> Seq(Frame)]
  BY DEF Inv, Shape
<1> HIDE DEF f
<1>3. stack' = Called(Changed(stack, t, f), t, c)
  BY <1>1, <1>2 DEF Called, Changed
<1> QED BY <1>3 DEF f

\* A polling thread takes an order from the queue as it is.
LEMMA TakesAccounts ==
  ASSUME Inv, Accounts, Inv', NEW t \in Thread, stack[t] # <<>>, NEW pc \in {"help", "wait"},
         B!Available(t, queue, Top(t).depth + 1), B!TakeHead(t, queue),
         GotoAndCall(t, pc, OrderCall(Head(queue))), Top(t).pc = pc,
         UNCHANGED <<executing, poll, results, control>>
  PROVE  Accounts'
<1> DEFINE f == Top(t)
           o == Head(queue)
           c == OrderCall(o)
<1>1. f \in Frame /\ [f EXCEPT !.pc = pc] = f /\ Entered(f)
  BY TopFacts DEF Frame, Entered
<1>2. /\ queue \in Seq(Order) /\ queue # <<>> /\ o \in Order /\ queue' = Tail(queue)
      /\ o.depth + Height[NodeOf(o)] <= MaxDepth
  <2>1. /\ queue \in Seq(Order) /\ queue # <<>> /\ o = queue[1] /\ 1 \in 1..Len(queue)
        /\ o \in Order
    BY PoolFacts DEF B!Available
  <2> QED BY <2>1, TakeHeadStates DEF Inv, QueueFits
<1>3. c \in Frame /\ c.pc = "enter" /\ c.order = o
  BY <1>2, OrderCallFacts
<1>4. Begins(c)
  BY <1>3 DEF Begins, OrderCall, Call
<1>5. stack' = Called(Changed(stack, t, f), t, c)
  BY <1>1, CallIs
<1>6. Stands(f, poll, Pending, queue, abortFlag)
  BY TopStands
<1> HIDE DEF c, o, f
<1> QED BY <1>1, <1>2, <1>3, <1>4, <1>5, <1>6, CallsAccounts DEF control, f, o

LEMMA HelpYourselfAccounts ==
  ASSUME Inv, Accounts, Inv', NEW t \in Thread, HelpYourself(t)
  PROVE  Accounts'
<1> DEFINE f == Top(t)
           g == [f EXCEPT !.pc = "check"]
<1>1. stack[t] # <<>> /\ f.pc = "help" /\ UNCHANGED <<executing, poll, results, control>>
  BY DEF HelpYourself, At
<1>2. CASE /\ B!Available(t, queue, f.depth + 1) /\ B!TakeHead(t, queue)
           /\ GotoAndCall(t, "help", OrderCall(Head(queue)))
  BY <1>1, <1>2, TakesAccounts
<1>3. CASE Goto(t, "check") /\ UNCHANGED pool
  <2>1. f \in Frame
    BY <1>1, TopFacts
  <2>2. /\ g \in Frame /\ g.order = f.order /\ g.node = f.node /\ g.req = f.req
        /\ g.flags = f.flags /\ g.pc = "check"
    BY <2>1 DEF Frame, PC
  <2>3. Stage(f, poll, Pending, queue, abortFlag) /\ (Aborted(f) => abortFlag)
    BY <1>1, TopStands DEF Entered
  <2>4. stack' = Changed(stack, t, g)
    BY <1>3 DEF Goto, Changed
  <2> HIDE DEF g
  <2>5. Stands(g, poll, Pending, queue, abortFlag)
    BY <1>1, <2>2, <2>3 DEF Stands, Stage, Aborted, BeforeStep, AfterPoll, Leaving
  <2> QED BY <1>1, <1>3, <2>2, <2>4, <2>5, GoesOnAccounts DEF control
<1> QED BY <1>2, <1>3 DEF HelpYourself

LEMMA WaitForEndOfPollAccounts ==
  ASSUME Inv, Accounts, Inv', NEW t \in Thread, WaitForEndOfPoll(t)
  PROVE  Accounts'
<1> DEFINE f == Top(t)
           sn == StepChildren(f.node)
           To(pc) == [f EXCEPT !.pc = pc]
<1>1. stack[t] # <<>> /\ f.pc = "wait" /\ UNCHANGED <<executing, poll, results, control>>
  BY DEF WaitForEndOfPoll, At
<1>2. f \in Frame /\ f.node \in Node /\ sn \in Nursery
  BY <1>1, TopFacts, NurseriesOf
<1>3. Stage(f, poll, Pending, queue, abortFlag) /\ (Aborted(f) => abortFlag)
  BY <1>1, TopStands DEF Entered
<1>4. ASSUME NEW pc \in {"exit", "waiting"}, Goto(t, pc), UNCHANGED pool,
             pc = "exit" => ~ poll[sn].mt \/ PollDone(sn)
      PROVE  Accounts'
  <2> DEFINE g == To(pc)
  <2>1. /\ g \in Frame /\ g.order = f.order /\ g.node = f.node /\ g.req = f.req
        /\ g.flags = f.flags /\ g.pc = pc
    BY <1>2 DEF Frame, PC
  <2>2. stack' = Changed(stack, t, g)
    BY <1>4 DEF Goto, Changed
  <2>3. pc = "exit" /\ ~ Aborted(f) => Pending[sn] = {}
    <3> SUFFICES ASSUME pc = "exit", ~ Aborted(f)
        PROVE  Pending[sn] = {}
      OBVIOUS
    <3>1. ~ poll[sn].abandon
      BY <1>1, <1>3 DEF Stage, Leaving
    <3>2. CASE ~ poll[sn].mt
      BY <1>2, <3>2, PollsHold DEF Polls
    <3>3. CASE PollDone(sn)
      BY <1>2, <3>1, <3>3, AllAnswered
    <3> QED BY <1>4, <3>2, <3>3
  <2> HIDE DEF g
  <2>4. Stands(g, poll, Pending, queue, abortFlag)
    BY <1>1, <1>3, <2>1, <2>3 DEF Stands, Stage, Aborted, BeforeStep, AfterPoll, Leaving
  <2> QED BY <1>1, <1>4, <2>1, <2>2, <2>4, GoesOnAccounts DEF control
<1>5. CASE /\ B!Available(t, queue, f.depth + 1) /\ B!TakeHead(t, queue)
           /\ GotoAndCall(t, "wait", OrderCall(Head(queue)))
  BY <1>1, <1>5, TakesAccounts
<1>6. CASE (~ poll[sn].mt \/ PollDone(sn)) /\ Goto(t, "exit") /\ UNCHANGED pool
  BY <1>4, <1>6
<1>7. CASE Goto(t, "waiting") /\ UNCHANGED pool
  BY <1>4, <1>7
<1> QED BY <1>5, <1>6, <1>7 DEF WaitForEndOfPoll

\* A node that returns leaves no order on the queue, and if it is not aborted,
\* none outstanding.
LEMMA LeavesNothing ==
  ASSUME Inv, Accounts, NEW t \in Thread, stack[t] # <<>>, Top(t).pc = "exit",
         NEW nu \in Nursery, nu[1] = Top(t).node
  PROVE  NoneQueued(queue, nu) /\ (~ abortFlag => Pending[nu] = {})
<1> DEFINE f == Top(t)
<1>1. Stage(f, poll, Pending, queue, abortFlag) /\ (Aborted(f) => abortFlag)
  BY TopStands DEF Entered
<1>2. nu = Children(f.node) \/ nu = StepChildren(f.node)
  BY NurseryIs
<1>3. CASE Aborted(f)
  BY <1>1, <1>2, <1>3 DEF Stage, Leaving
<1>4. CASE ~ Aborted(f)
  <2>1. Pending[nu] = {}
    BY <1>1, <1>2, <1>4 DEF Stage, AfterPoll
  <2> QED BY <2>1, NothingQueued
<1> QED BY <1>3, <1>4

LEMMA ReturnToOrderAccounts ==
  ASSUME Inv, Accounts, Inv', NEW t \in Thread, ReturnToOrder(t)
  PROVE  Accounts'
<1> DEFINE f == Top(t)
           g == [f EXCEPT !.pc = "deliver"]
<1>1. /\ stack[t] # <<>> /\ f.pc = "exit" /\ executing' = executing \ {f.node}
      /\ stack' = Changed(stack, t, g)
      /\ UNCHANGED <<pool, poll, results, control>>
  BY DEF ReturnToOrder, At, Goto, Changed
<1>2. f \in Frame
  BY <1>1, TopFacts
<1>3. /\ g \in Frame /\ g.order = f.order /\ g.flags = f.flags /\ g.pc = "deliver"
  BY <1>2 DEF Frame, PC
<1>4. \A nu \in Nursery : nu[1] \notin executing' =>
        \/ nu[1] \notin executing
        \/ NoneQueued(queue, nu) /\ (~ abortFlag => Pending[nu] = {})
  BY <1>1, LeavesNothing
<1>5. Stands(g, poll, Pending, queue, abortFlag)
  <2>1. Aborted(f) => abortFlag
    BY <1>1, TopStands
  <2> HIDE DEF g
  <2> QED BY <1>3, <2>1 DEF Stands, Entered, Aborted
<1> HIDE DEF g
<1> QED BY <1>1, <1>3, <1>4, <1>5, GoesOnAccounts DEF control

LEMMA AnswerAccounts ==
  ASSUME Inv, Accounts, Inv', NEW t \in Thread, Answer(t)
  PROVE  Accounts'
<1> DEFINE f == Top(t)
<1>1. /\ stack[t] # <<>> /\ f.pc = "exit" /\ f.order = NoOrder /\ Len(stack[t]) = 1
      /\ executing' = executing \ {f.node}
      /\ stack' = [stack EXCEPT ![t] = <<>>]
      /\ UNCHANGED <<pool, poll, results, verdict, abortFlag, round>>
  BY DEF Answer, At
<1>2. f \in Frame /\ f = Last(stack[t]) /\ stack[t] \in Seq(Frame)
      /\ stack \in [Thread -> Seq(Frame)]
  BY <1>1, TopFacts DEF Inv, Shape
<1>3. stack' = Returned(stack, t)
  <2>1. Front(stack[t]) \in Seq(Frame) /\ Len(Front(stack[t])) = 0
    BY <1>1, <1>2, Popped
  <2>2. Front(stack[t]) = <<>>
    BY <2>1
  <2> QED BY <1>1, <2>2 DEF Returned
<1>4. \A nu \in Nursery : nu[1] \notin executing' =>
        \/ nu[1] \notin executing
        \/ NoneQueued(queue, nu) /\ (~ abortFlag => Pending[nu] = {})
  BY <1>1, LeavesNothing
<1>5. ASSUME NEW o \in Order
      PROVE  Carried(stack, o) <=> Carried(stack', o)
  <2>1. ~ Carries(Last(stack[t]), o)
    BY <1>1, <1>2, OrderFacts DEF Carries
  <2> QED BY ZenonT(40), <1>1, <1>2, <1>3, <2>1, ReturnedCarries
<1>6. Pending' = Pending /\ queue' = queue
  BY <1>1, <1>5, PendingSame DEF pool
<1>7. Acts(stack, stack', {}, f)
  BY <1>1, <1>3, ReturnActs
<1>8. Stands(f, poll, Pending, queue, abortFlag)
  BY <1>1, TopStands
<1> HIDE DEF f
<1> QED BY <1>1, <1>2, <1>4, <1>6, <1>7, <1>8, StepAccounts

\* A thread that is in no node starts with one.
LEMMA StartsAccounts ==
  ASSUME Inv, Accounts, Inv', NEW t \in Thread, stack[t] = <<>>,
         NEW c \in Frame, Begins(c), stack' = Called(stack, t, c),
         \/ queue' = queue /\ c.order = NoOrder
         \/ queue # <<>> /\ queue' = Tail(queue) /\ c.order = Head(queue),
         UNCHANGED <<executing, poll, abortFlag>>, round' = round \/ ~ abortFlag
  PROVE  Accounts'
<1>1. stack \in [Thread -> Seq(Frame)] /\ queue \in Seq(Order)
  BY PoolFacts DEF Inv, Shape
<1>2. ASSUME NEW o \in Order
      PROVE  Outstanding(queue', stack', o) <=> Outstanding(queue, stack, o)
  <2>1. CASE queue' = queue /\ c.order = NoOrder
    <3>1. ~ Carries(c, o)
      BY <2>1, OrderFacts DEF Carries
    <3> QED BY <1>1, <2>1, <3>1, CalledCarries DEF Outstanding
  <2>2. CASE queue # <<>> /\ queue' = Tail(queue) /\ c.order = Head(queue)
    <3>1. Outstanding(Tail(queue), Called(stack, t, c), o) <=> Outstanding(queue, stack, o)
      BY <1>1, <2>2, TakenOutstanding DEF Begins
    <3> QED BY <1>1, <2>2, <3>1
  <2> QED BY <2>1, <2>2
<1>3. Pending' = Pending
  BY <1>2, PendingSame DEF Outstanding
<1>4. \A nu \in Nursery : NoneQueued(queue, nu) => NoneQueued(queue', nu)
  BY <1>1, TakenQueue
<1>5. Acts(stack, stack', {}, c)
  BY CallActs
<1>6. Stands(c, poll, Pending, queue, abortFlag) /\ c.pc # "clear"
  BY BeginsStands DEF Begins
<1> QED BY <1>3, <1>4, <1>5, <1>6, StepAccounts

LEMMA WorkerTakesAccounts ==
  ASSUME Inv, Accounts, Inv', NEW t \in Thread, WorkerTakes(t)
  PROVE  Accounts'
<1> DEFINE o == Head(queue)
           c == OrderCall(o)
<1>1. /\ stack[t] = <<>> /\ B!TakeHead(t, queue) /\ queue # <<>>
      /\ stack' = [stack EXCEPT ![t] = <<c>>]
      /\ UNCHANGED <<executing, poll, results, control>>
  BY DEF WorkerTakes, B!WorkerTakes, B!Available
<1>2. /\ o \in Order /\ o.depth + Height[NodeOf(o)] <= MaxDepth
      /\ queue' = Tail(queue)
  <2>1. queue \in Seq(Order) /\ o = queue[1] /\ 1 \in 1..Len(queue) /\ o \in Order
    BY <1>1, PoolFacts
  <2> QED BY <1>1, <2>1, TakeHeadStates DEF Inv, QueueFits
<1>3. c \in Frame /\ c.pc = "enter" /\ c.order = o
  BY <1>2, OrderCallFacts
<1>4. Begins(c)
  BY <1>3 DEF Begins, OrderCall, Call
<1>5. stack' = Called(stack, t, c)
  BY <1>1, FirstCall
<1> HIDE DEF c, o
<1> QED BY <1>1, <1>2, <1>3, <1>4, <1>5, StartsAccounts DEF control, o

LEMMA NextRequestAccounts ==
  ASSUME Inv, Accounts, Inv', NEW t \in Thread, NextRequest(t)
  PROVE  Accounts'
<1> DEFINE c == Call(Root, 0, NoOrder, round + 1)
<1>1. /\ stack[t] = <<>> /\ round < Rounds /\ abortFlag' = FALSE
      /\ stack' = [stack EXCEPT ![t] = <<c>>]
      /\ UNCHANGED <<pool, executing, poll>>
  BY DEF NextRequest
<1>2. round \in 0..Rounds /\ Rounds \in Nat /\ Root \in Node /\ MaxDepth \in Nat
  BY NodeAssumption, PoolFacts DEF Inv, Typed
<1>3. ~ abortFlag /\ abortFlag \in BOOLEAN
  BY <1>1, <1>2 DEF Accounts, Inv, Typed
<1>4. c = [node |-> Root, depth |-> 0, order |-> NoOrder, req |-> round + 1,
           pc |-> "enter", index |-> 1, flags |-> {}]
  BY DEF Call
<1>5. c \in Frame /\ Begins(c) /\ c.order = NoOrder
  <2>1. round + 1 \in Request
    BY <1>1, <1>2 DEF Request
  <2> QED BY <1>2, <1>4, <2>1 DEF Frame, PC, Begins
<1>6. stack' = Called(stack, t, c)
  BY <1>1, FirstCall
<1>7. queue' = queue /\ abortFlag' = abortFlag
  BY <1>1, <1>3 DEF pool
<1> HIDE DEF c
<1> QED BY <1>1, <1>3, <1>5, <1>6, <1>7, StartsAccounts

LEMMA RaiseAbortAccounts ==
  ASSUME Undisturbed, Inv, Accounts, Inv', RaiseAbort
  PROVE  Accounts'
<1> DEFINE c == Call(Root, 0, NoOrder, 1)
<1>1. /\ MayAbort /\ Len(answers) < round /\ abortFlag' = TRUE
      /\ UNCHANGED <<pool, stack, executing, poll, round>>
  BY DEF RaiseAbort
<1>2. queue' = queue /\ Pending' = Pending
  BY <1>1 DEF pool, Pending
<1>3. round = Rounds
  <2>1. Rounds = 1
    BY <1>1 DEF Undisturbed
  <2>2. round \in 0..Rounds /\ answers \in Seq(SUBSET Flag)
    BY DEF Inv, Typed
  <2>3. Len(answers) \in Nat
    BY <2>2
  <2> QED BY <1>1, <2>1, <2>2, <2>3
<1>4. Monotone
  BY <1>1, <1>3 DEF Monotone
<1>5. \A nu \in Nursery : Milder(nu)
  BY <1>1, <1>2 DEF Milder
<1>6. ASSUME NEW nu \in Nursery
      PROVE  Polls(nu, poll', Pending', queue', executing', abortFlag')
  BY <1>1, <1>2, PollsHold DEF Polls
<1>7. Begins(c)
  BY DEF Begins, Call
<1> HIDE DEF c
<1>8. Acts(stack, stack', {}, c)
  BY <1>1 DEF Acts
<1>9. Stands(c, poll', Pending', queue', abortFlag')
  BY <1>7, BeginsStands
<1> QED BY <1>4, <1>5, <1>6, <1>8, <1>9, AccountsKept

-----------------------------------------------------------------------------
(* The steps of a node on its own nurseries.                                *)

LEMMA OwnAccounts ==
  ASSUME Inv, Accounts, Inv', NEW n, NEW g, Acts(stack, stack', {n}, g),
         UNCHANGED <<abortFlag, round>>,
         \A nu \in Nursery : nu[1] # n =>
           /\ Pending'[nu] = Pending[nu] /\ poll'[nu] = poll[nu]
           /\ NoneQueued(queue, nu) => NoneQueued(queue', nu)
           /\ nu[1] \notin executing' =>
                \/ nu[1] \notin executing
                \/ NoneQueued(queue, nu) /\ (~ abortFlag => Pending[nu] = {}),
         \A nu \in Nursery : nu[1] = n =>
           /\ Polls(nu, poll', Pending', queue', executing', abortFlag')
           /\ poll[nu].abandon => poll'[nu].abandon,
         Stands(g, poll', Pending', queue', abortFlag')
  PROVE  Accounts'
<1>1. ASSUME NEW nu \in Nursery
      PROVE  Polls(nu, poll', Pending', queue', executing', abortFlag')
  <2>1. CASE nu[1] = n
    BY <2>1
  <2>2. CASE nu[1] # n
    BY <2>2, PollsHold, PollsKept
  <2> QED BY <2>1, <2>2
<1>2. Monotone
  <2>1. ASSUME NEW nu \in Nursery, poll[nu].abandon
        PROVE  poll'[nu].abandon
    <3>1. nu[1] # n => poll'[nu] = poll[nu]
      OBVIOUS
    <3> QED BY <2>1, <3>1
  <2> QED BY <2>1 DEF Monotone, Accounts
<1>3. ASSUME NEW nu \in Nursery, nu[1] \notin {n}
      PROVE  Milder(nu)
  BY <1>3 DEF Milder
<1> QED BY <1>1, <1>2, <1>3, AccountsKept

\* A node is marked while a frame is inside of it.
LEMMA InsideIsMarked ==
  ASSUME Inv, NEW t \in Thread, stack[t] # <<>>, Entered(Top(t))
  PROVE  Top(t).node \in executing
BY TopFacts DEF Inv, Shape, Marked

\* The call of a child by a node that polls it itself.
LEMMA ChildCallFacts ==
  ASSUME Inv, NEW t \in Thread, stack[t] # <<>>, NEW nu \in Nursery, nu[1] = Top(t).node,
         NEW i \in 1..Len(Members(nu))
  PROVE  LET c == ChildCall(Top(t), nu, i) IN
         c \in Frame /\ Begins(c) /\ c.order = NoOrder
<1> DEFINE f == Top(t)
           c == ChildCall(f, nu, i)
<1>1. Members(nu) # <<>> /\ Members(nu)[i] \in Node
  BY MembersAreNodes
<1>2. f.depth + 1 \in 1..MaxDepth
  BY <1>1, ChildDepth
<1>3. f.depth + 1 \in 0..MaxDepth /\ f.req \in Request
  BY <1>2, PoolFacts, TopFacts
<1>4. c = [node |-> Members(nu)[i], depth |-> f.depth + 1, order |-> NoOrder,
           req |-> f.req, pc |-> "enter", index |-> 1, flags |-> {}]
  BY DEF ChildCall, Call
<1> QED BY <1>1, <1>3, <1>4 DEF Frame, PC, Begins

\* The thread goes on,
LEMMA ChangedPending ==
  ASSUME Inv, NEW t \in Thread, stack[t] # <<>>, Entered(Top(t)), NEW g \in Frame,
         g.order = Top(t).order, Entered(g), queue' = queue,
         stack' = Changed(stack, t, g)
  PROVE  Pending' = Pending /\ Acts(stack, stack', {Top(t).node}, g)
<1>1. \A o : Carried(stack', o) <=> Carried(stack, o)
  BY SameCarried DEF Entered
<1>2. \A o \in Order : Queued(queue, o) \/ Carried(stack, o) <=>
                         Queued(queue', o) \/ Carried(stack', o)
  BY <1>1
<1>3. Acts(stack, stack', {Top(t).node}, g)
  BY ChangedActs
<1> QED BY <1>2, <1>3, PendingSame

\* and may call a child.
LEMMA CalledPending ==
  ASSUME Inv, NEW t \in Thread, stack[t] # <<>>, Entered(Top(t)), NEW g \in Frame,
         g.order = Top(t).order, Entered(g), queue' = queue,
         NEW c \in Frame, Begins(c), c.order = NoOrder,
         stack' = Called(Changed(stack, t, g), t, c)
  PROVE  Pending' = Pending /\ Acts(stack, stack', {Top(t).node}, g)
<1> DEFINE st1 == Changed(stack, t, g)
<1>1. (\A o : Carried(st1, o) <=> Carried(stack, o)) /\ st1 \in [Thread -> Seq(Frame)]
  BY SameCarried DEF Entered
<1>2. Acts(stack, stack', {Top(t).node}, g)
  BY CalledActs
<1> HIDE DEF st1
<1>3. ASSUME NEW o \in Order
      PROVE  Carried(stack', o) <=> Carried(stack, o)
  <2>1. ~ Carries(c, o)
    BY OrderFacts DEF Carries
  <2>2. stack' = Called(st1, t, c)
    BY DEF st1
  <2> QED BY <1>1, <2>1, <2>2, CalledCarries
<1> QED BY <1>2, <1>3, PendingSame

LEMMA SyncPollSeriallyAccounts ==
  ASSUME Inv, Accounts, Inv', NEW t \in Thread, SyncPollSerially(t)
  PROVE  Accounts'
<1> DEFINE f == Top(t)
           kn == Children(f.node)
           sn == StepChildren(f.node)
           pc == IF Members(kn) = <<>> THEN "polled" ELSE "serial"
           g == [f EXCEPT !.pc = pc]
           c == ChildCall(f, kn, 1)
<1>1. /\ stack[t] # <<>> /\ f.pc = "poll"
      /\ poll' = [poll EXCEPT ![kn].mt = FALSE, ![kn].cumul = {}]
      /\ UNCHANGED <<pool, executing, results, control>>
  BY DEF SyncPollSerially, At
<1>2. /\ f \in Frame /\ f.node \in Node /\ kn \in Nursery /\ sn \in Nursery /\ kn # sn
      /\ Entered(f)
  BY <1>1, TopFacts, NurseriesOf DEF Entered, Children, StepChildren
<1>3. /\ poll \in [Nursery -> PollState]
      /\ \A nu \in Nursery : nu # kn => poll'[nu] = poll[nu]
      /\ ~ poll'[kn].mt /\ poll'[kn].cumul = {} /\ poll'[kn].abandon = poll[kn].abandon
  BY <1>1, <1>2 DEF Inv, Typed, PollState
<1>4. Stage(f, poll, Pending, queue, abortFlag) /\ (Aborted(f) => abortFlag)
  BY <1>1, <1>2, TopStands
<1>5. Pending[kn] = {} /\ f.node \in executing
  BY <1>1, <1>2, <1>4, InsideIsMarked DEF Stage
<1>6. queue' = queue /\ UNCHANGED <<abortFlag, round>>
  BY <1>1 DEF pool, control
<1>7. /\ g \in Frame /\ g.order = f.order /\ g.node = f.node /\ g.req = f.req
      /\ g.flags = f.flags /\ g.pc = pc /\ pc \in {"polled", "serial"} /\ Entered(g)
  BY <1>2 DEF Frame, PC, Entered
<1>8. Pending' = Pending /\ Acts(stack, stack', {f.node}, g)
  <2>1. CASE Members(kn) = <<>>
    <3>1. stack' = Changed(stack, t, g)
      BY <2>1 DEF SyncPollSerially, Goto, Changed
    <3> HIDE DEF g
    <3> QED BY <1>1, <1>2, <1>6, <1>7, <3>1, ChangedPending
  <2>2. CASE Members(kn) # <<>>
    <3>1. stack' = Called(Changed(stack, t, g), t, c)
      BY <2>2, CallIs DEF SyncPollSerially
    <3>2. 1 \in 1..Len(Members(kn))
      <4>1. Members(kn) \in Seq(Node) /\ Len(Members(kn)) \in Nat
        BY <1>2, MembersAreNodes
      <4> QED BY <2>2, <4>1
    <3>3. c \in Frame /\ Begins(c) /\ c.order = NoOrder
      BY <1>1, <1>2, <3>2, NurseriesOf, ChildCallFacts
    <3> HIDE DEF g, c
    <3> QED BY <1>1, <1>2, <1>6, <1>7, <3>1, <3>3, CalledPending
  <2> QED BY <2>1, <2>2
<1>9. ASSUME NEW nu \in Nursery, nu[1] = f.node
      PROVE  /\ Polls(nu, poll', Pending', queue', executing', abortFlag')
             /\ poll[nu].abandon => poll'[nu].abandon
  <2>1. CASE nu = kn
    <3> HIDE DEF f, kn
    <3> QED BY <1>1, <1>3, <1>5, <1>6, <1>8, <1>9, <2>1, PollsHold DEF Polls
  <2>2. CASE nu # kn
    <3>1. poll'[nu] = poll[nu]
      BY <1>3, <2>2
    <3> QED BY <1>1, <1>6, <1>8, <3>1, PollsHold, PollsKept
  <2> QED BY <2>1, <2>2
<1>10. poll'[sn] = poll[sn] /\ \A nu \in Nursery : nu[1] # f.node => poll'[nu] = poll[nu]
  BY <1>2, <1>3, NurseriesOf
<1> HIDE DEF g, pc
<1>11. Stands(g, poll', Pending', queue', abortFlag')
  BY <1>1, <1>3, <1>4, <1>5, <1>6, <1>7, <1>8, <1>10
     DEF Stands, Stage, Aborted, BeforeStep, AfterPoll, Leaving
<1>12. ASSUME NEW nu \in Nursery, nu[1] # f.node
       PROVE  /\ Pending'[nu] = Pending[nu] /\ poll'[nu] = poll[nu]
              /\ NoneQueued(queue, nu) => NoneQueued(queue', nu)
              /\ nu[1] \notin executing' => nu[1] \notin executing
  BY <1>1, <1>6, <1>8, <1>10, <1>12
<1> HIDE DEF f
<1> QED BY ZenonT(40), <1>6, <1>8, <1>9, <1>11, <1>12, OwnAccounts

LEMMA BackgroundPollSeriallyAccounts ==
  ASSUME Inv, Accounts, Inv', NEW t \in Thread, BackgroundPollSerially(t)
  PROVE  Accounts'
<1> DEFINE f == Top(t)
           kn == Children(f.node)
           sn == StepChildren(f.node)
           pc == IF Members(sn) = <<>> THEN "evaluate" ELSE "stepserial"
           g == [f EXCEPT !.pc = pc]
           c == ChildCall(f, sn, 1)
<1>1. /\ stack[t] # <<>> /\ f.pc = "step"
      /\ poll' = [poll EXCEPT ![sn].mt = FALSE]
      /\ UNCHANGED <<pool, executing, results, control>>
  BY DEF BackgroundPollSerially, At
<1>2. /\ f \in Frame /\ f.node \in Node /\ kn \in Nursery /\ sn \in Nursery /\ kn # sn
      /\ Entered(f)
  BY <1>1, TopFacts, NurseriesOf DEF Entered, Children, StepChildren
<1>3. /\ poll \in [Nursery -> PollState]
      /\ \A nu \in Nursery : nu # sn => poll'[nu] = poll[nu]
      /\ ~ poll'[sn].mt /\ poll'[sn].cumul = poll[sn].cumul
      /\ poll'[sn].abandon = poll[sn].abandon
  BY <1>1, <1>2 DEF Inv, Typed, PollState
<1>4. Stage(f, poll, Pending, queue, abortFlag) /\ (Aborted(f) => abortFlag)
  BY <1>1, <1>2, TopStands
<1>5. Pending[sn] = {} /\ f.node \in executing
  BY <1>1, <1>2, <1>4, InsideIsMarked DEF Stage, BeforeStep
<1>6. queue' = queue /\ UNCHANGED <<abortFlag, round>>
  BY <1>1 DEF pool, control
<1>7. /\ g \in Frame /\ g.order = f.order /\ g.node = f.node /\ g.req = f.req
      /\ g.flags = f.flags /\ g.pc = pc /\ pc \in {"evaluate", "stepserial"} /\ Entered(g)
  BY <1>2 DEF Frame, PC, Entered
<1>8. Pending' = Pending /\ Acts(stack, stack', {f.node}, g)
  <2>1. CASE Members(sn) = <<>>
    <3>1. stack' = Changed(stack, t, g)
      BY <2>1 DEF BackgroundPollSerially, Goto, Changed
    <3> HIDE DEF g
    <3> QED BY <1>1, <1>2, <1>6, <1>7, <3>1, ChangedPending
  <2>2. CASE Members(sn) # <<>>
    <3>1. stack' = Called(Changed(stack, t, g), t, c)
      BY <2>2, CallIs DEF BackgroundPollSerially
    <3>2. 1 \in 1..Len(Members(sn))
      <4>1. Members(sn) \in Seq(Node) /\ Len(Members(sn)) \in Nat
        BY <1>2, MembersAreNodes
      <4> QED BY <2>2, <4>1
    <3>3. c \in Frame /\ Begins(c) /\ c.order = NoOrder
      BY <1>1, <1>2, <3>2, NurseriesOf, ChildCallFacts
    <3> HIDE DEF g, c
    <3> QED BY <1>1, <1>2, <1>6, <1>7, <3>1, <3>3, CalledPending
  <2> QED BY <2>1, <2>2
<1>9. ASSUME NEW nu \in Nursery, nu[1] = f.node
      PROVE  /\ Polls(nu, poll', Pending', queue', executing', abortFlag')
             /\ poll[nu].abandon => poll'[nu].abandon
  <2>1. CASE nu = sn
    <3> HIDE DEF f, sn
    <3> QED BY <1>1, <1>3, <1>5, <1>6, <1>8, <1>9, <2>1, PollsHold DEF Polls
  <2>2. CASE nu # sn
    <3>1. poll'[nu] = poll[nu]
      BY <1>3, <2>2
    <3> QED BY <1>1, <1>6, <1>8, <3>1, PollsHold, PollsKept
  <2> QED BY <2>1, <2>2
<1>10. poll'[kn] = poll[kn] /\ \A nu \in Nursery : nu[1] # f.node => poll'[nu] = poll[nu]
  BY <1>2, <1>3, NurseriesOf
<1> HIDE DEF g, pc
<1>11. Stands(g, poll', Pending', queue', abortFlag')
  BY <1>1, <1>3, <1>4, <1>5, <1>6, <1>7, <1>8, <1>10
     DEF Stands, Stage, Aborted, BeforeStep, AfterPoll, Leaving
<1>12. ASSUME NEW nu \in Nursery, nu[1] # f.node
       PROVE  /\ Pending'[nu] = Pending[nu] /\ poll'[nu] = poll[nu]
              /\ NoneQueued(queue, nu) => NoneQueued(queue', nu)
              /\ nu[1] \notin executing' => nu[1] \notin executing
  BY <1>1, <1>6, <1>8, <1>10, <1>12
<1> HIDE DEF f
<1> QED BY ZenonT(40), <1>6, <1>8, <1>9, <1>11, <1>12, OwnAccounts

-----------------------------------------------------------------------------
(* The steps that drop off results.                                         *)

\* A result that is dropped off is outstanding until then.
LEMMA OwesResult ==
  ASSUME Inv, NEW t \in Thread, stack[t] # <<>>, Top(t).pc \in {"deliver", "dropoff"}
  PROVE  /\ Carried(stack, Top(t).order) /\ ~ Queued(queue, Top(t).order)
         /\ Top(t).order \in Pending[Top(t).order.nursery]
         /\ Top(t).order \in Order /\ Top(t).order.nursery \in Nursery
<1> DEFINE f == Top(t)
           o == f.order
<1>1. Len(stack[t]) \in 1..Len(stack[t]) /\ f = stack[t][Len(stack[t])]
  BY TopFacts
<1>2. o \in Order /\ o.nursery \in Nursery
  BY DeliversFor
<1>3. Carries(f, o)
  BY DEF Carries
<1>4. Carried(stack, o)
  BY <1>1, <1>3 DEF Carried
<1>5. ~ Queued(queue, o)
  BY <1>1, <1>2, CarriedOnce
<1> QED BY <1>2, <1>4, <1>5 DEF Pending

\* The stacks when it has been.
DropsOff(t, g) ==
  \A u \in Thread :
    /\ Len(stack'[u]) = Len(stack[u])
    /\ \A j \in 1..Len(stack[u]) :
         IF u = t /\ j = Len(stack[t]) THEN stack'[u][j] = g
         ELSE \/ stack'[u][j] = stack[u][j]
              \/ stack[u][j].pc = "asleep" /\ stack'[u][j] = [stack[u][j] EXCEPT !.pc = "help"]
              \/ stack[u][j].pc = "waiting" /\ stack'[u][j] = [stack[u][j] EXCEPT !.pc = "wait"]

LEMMA DropsOffChanged ==
  ASSUME Inv, NEW t \in Thread, stack[t] # <<>>, NEW g \in Frame, stack' = Changed(stack, t, g)
  PROVE  DropsOff(t, g)
<1>1. stack \in [Thread -> Seq(Frame)]
  BY DEF Inv, Shape
<1>2. ASSUME NEW u \in Thread
      PROVE  Len(stack'[u]) = Len(stack[u])
  BY <1>1, ChangedFrames
<1>3. stack'[t][Len(stack[t])] = g
  BY <1>1, ChangedFrames
<1>4. ASSUME NEW u \in Thread, NEW j \in 1..Len(stack[u]), ~ (u = t /\ j = Len(stack[t]))
      PROVE  stack'[u][j] = stack[u][j]
  BY <1>1, <1>4, ChangedBelow
<1> QED BY <1>2, <1>3, <1>4 DEF DropsOff

LEMMA DropsOffDelivered ==
  ASSUME Inv, NEW t \in Thread, stack[t] # <<>>, NEW nu, NEW wake, NEW pc,
         stack' = Delivered(t, nu, wake, pc)
  PROVE  DropsOff(t, [Top(t) EXCEPT !.pc = pc])
<1> DEFINE g == [Top(t) EXCEPT !.pc = pc]
<1>1. stack \in [Thread -> Seq(Frame)]
  BY DEF Inv, Shape
<1> SUFFICES ASSUME NEW u \in Thread
    PROVE  /\ Len(stack'[u]) = Len(stack[u])
           /\ \A j \in 1..Len(stack[u]) :
                IF u = t /\ j = Len(stack[t]) THEN stack'[u][j] = g
                ELSE \/ stack'[u][j] = stack[u][j]
                     \/ stack[u][j].pc = "asleep" /\ stack'[u][j] = [stack[u][j] EXCEPT !.pc = "help"]
                     \/ stack[u][j].pc = "waiting" /\ stack'[u][j] = [stack[u][j] EXCEPT !.pc = "wait"]
  BY DEF DropsOff
<1>2. stack[u] \in Seq(Frame) /\ Len(stack[u]) \in Nat
  BY <1>1
<1>3. ASSUME stack[u] # <<>>, NEW h, stack'[u] = WithTop(stack[u], h)
      PROVE  /\ Len(stack'[u]) = Len(stack[u])
             /\ stack'[u][Len(stack[u])] = h
             /\ \A j \in 1..Len(stack[u]) : j # Len(stack[u]) => stack'[u][j] = stack[u][j]
             /\ Top(u) = stack[u][Len(stack[u])]
  <2>1. Front(stack[u]) \in Seq(Frame) /\ Len(Front(stack[u])) = Len(stack[u]) - 1
        /\ \A i \in 1..(Len(stack[u]) - 1) : Front(stack[u])[i] = stack[u][i]
    BY <1>2, <1>3, FrontFacts
  <2> DEFINE s == Front(stack[u])
  <2> HIDE DEF s
  <2>2. /\ Len(Append(s, h)) = Len(s) + 1 /\ Append(s, h)[Len(s) + 1] = h
        /\ \A i \in 1..Len(s) : Append(s, h)[i] = s[i]
    BY <2>1 DEF s
  <2>3. Len(s) + 1 = Len(stack[u])
    BY <1>2, <2>1 DEF s
  <2>4. stack'[u] = Append(s, h)
    BY <1>3 DEF WithTop, s
  <2>5. \A j \in 1..Len(stack[u]) : j # Len(stack[u]) => j \in 1..Len(s) /\ s[j] = stack[u][j]
    BY <1>2, <2>1, <2>3 DEF s
  <2>6. Top(u) = stack[u][Len(stack[u])]
    BY <1>3, TopFacts
  <2> QED BY <2>2, <2>3, <2>4, <2>5, <2>6
<1>4. CASE u = t
  <2>1. stack'[u] = WithTop(stack[u], g)
    BY <1>4 DEF Delivered
  <2> HIDE DEF g
  <2> QED BY <1>3, <1>4, <2>1
<1>5. CASE u # t /\ stack[u] # <<>> /\ Top(u).pc = "asleep"
           /\ stack'[u] = WithTop(stack[u], [Top(u) EXCEPT !.pc = "help"])
  BY <1>3, <1>5
<1>6. CASE u # t /\ stack[u] # <<>> /\ Top(u).pc = "waiting"
           /\ stack'[u] = WithTop(stack[u], [Top(u) EXCEPT !.pc = "wait"])
  BY <1>3, <1>6
<1>7. CASE u # t /\ stack'[u] = stack[u]
  BY <1>7
<1>8. \/ u = t
      \/ u # t /\ stack[u] # <<>> /\ Top(u).pc = "asleep"
           /\ stack'[u] = WithTop(stack[u], [Top(u) EXCEPT !.pc = "help"])
      \/ u # t /\ stack[u] # <<>> /\ Top(u).pc = "waiting"
           /\ stack'[u] = WithTop(stack[u], [Top(u) EXCEPT !.pc = "wait"])
      \/ u # t /\ stack'[u] = stack[u]
  BY DEF Delivered
<1> QED BY <1>4, <1>5, <1>6, <1>7, <1>8

LEMMA DroppedPending ==
  ASSUME Inv, NEW t \in Thread, stack[t] # <<>>, Top(t).pc \in {"deliver", "dropoff"},
         NEW g, g.pc \in {"clear", "finish"}, DropsOff(t, g), queue' = queue
  PROVE  \A nu \in Nursery : Pending'[nu] = Pending[nu] \ {Top(t).order}
<1> DEFINE f == Top(t)
           o == f.order
           L == Len(stack[t])
<1>1. L \in 1..L /\ f = stack[t][L] /\ o \in Order
  BY TopFacts, OwesResult
<1>2. ~ Queued(queue, o)
  BY OwesResult
<1>3. ASSUME NEW u \in Thread, NEW j \in 1..Len(stack[u]), ~ (u = t /\ j = L), NEW p
      PROVE  Carries(stack'[u][j], p) <=> Carries(stack[u][j], p)
  <2>1. stack[u][j] \in Frame
    BY FrameFacts
  <2>2. CASE stack'[u][j] = stack[u][j]
    BY <2>2
  <2>3. CASE stack[u][j].pc = "asleep" /\ stack'[u][j] = [stack[u][j] EXCEPT !.pc = "help"]
    BY <2>1, <2>3 DEF Frame, Carries
  <2>4. CASE stack[u][j].pc = "waiting" /\ stack'[u][j] = [stack[u][j] EXCEPT !.pc = "wait"]
    BY <2>1, <2>4 DEF Frame, Carries
  <2> QED BY <1>3, <2>2, <2>3, <2>4 DEF DropsOff
<1>4. ASSUME NEW p \in Order
      PROVE  Carried(stack', p) <=> Carried(stack, p) /\ p # o
  <2>1. ASSUME Carried(stack', p)
        PROVE  Carried(stack, p) /\ p # o
    <3>0. PICK u \in Thread : \E j \in 1..Len(stack'[u]) : Carries(stack'[u][j], p)
      BY <2>1 DEF Carried
    <3>1. PICK j \in 1..Len(stack'[u]) : Carries(stack'[u][j], p)
      BY <3>0
    <3>2. j \in 1..Len(stack[u]) /\ ~ (u = t /\ j = L)
      BY <3>1 DEF DropsOff, Carries
    <3>3. Carries(stack[u][j], p)
      BY <1>3, <3>1, <3>2
    <3>4. p # o
      BY <1>1, <3>2, <3>3, CarriedOnce DEF Carries
    <3> QED BY <3>2, <3>3, <3>4 DEF Carried
  <2>2. ASSUME Carried(stack, p), p # o
        PROVE  Carried(stack', p)
    <3>0. PICK u \in Thread : \E j \in 1..Len(stack[u]) : Carries(stack[u][j], p)
      BY <2>2 DEF Carried
    <3>1. PICK j \in 1..Len(stack[u]) : Carries(stack[u][j], p)
      BY <3>0
    <3>2. ~ (u = t /\ j = L)
      BY <1>1, <2>2, <3>1 DEF Carries
    <3>3. Carries(stack'[u][j], p) /\ j \in 1..Len(stack'[u])
      BY <1>3, <3>1, <3>2 DEF DropsOff
    <3> QED BY <3>3 DEF Carried
  <2> QED BY <2>1, <2>2
<1>5. \A p \in Order : Queued(queue', p) \/ Carried(stack', p) <=>
                         (Queued(queue, p) \/ Carried(stack, p)) /\ p # o
  BY <1>2, <1>4
<1> HIDE DEF o
<1> QED BY <1>5, PendingLess DEF o

\* A thread woken up goes on where it stood.
LEMMA WokenStands ==
  ASSUME NEW f \in Frame, NEW h, NEW pl, NEW pd, NEW q, NEW ab, Stands(f, pl, pd, q, ab),
         \/ f.pc = "asleep" /\ h = [f EXCEPT !.pc = "help"]
         \/ f.pc = "waiting" /\ h = [f EXCEPT !.pc = "wait"]
  PROVE  Stands(h, pl, pd, q, ab)
<1>1. /\ h.node = f.node /\ h.flags = f.flags /\ h.req = f.req
      /\ \/ f.pc = "asleep" /\ h.pc = "help"
         \/ f.pc = "waiting" /\ h.pc = "wait"
  BY DEF Frame
<1>2. Stage(f, pl, pd, q, ab) /\ (Aborted(f) => ab)
  BY <1>1 DEF Stands, Entered
<1>3. Stage(h, pl, pd, q, ab)
  BY <1>1, <1>2 DEF Stage, BeforeStep, AfterPoll, Leaving, Aborted
<1> QED BY <1>1, <1>2, <1>3 DEF Stands, Aborted

\* A result arrives, or is dropped: the orders outstanding are one less.
LEMMA DropsOffAccounts ==
  ASSUME Inv, Accounts, Inv', NEW t \in Thread, stack[t] # <<>>,
         Top(t).pc \in {"deliver", "dropoff"},
         NEW g \in Frame, g.pc \in {"clear", "finish"}, g.order = Top(t).order,
         g.flags = Top(t).flags, DropsOff(t, g),
         UNCHANGED <<pool, executing, abortFlag, round>>,
         NEW nu \in Nursery, nu = Top(t).order.nursery,
         \A mu \in Nursery : mu # nu => poll'[mu] = poll[mu],
         poll'[nu].mt = poll[nu].mt /\ poll'[nu].num = poll[nu].num,
         poll[nu].abandon => poll'[nu].abandon,
         poll'[nu].abandon => poll[nu].abandon \/ (nu[2] = "children" /\ abortFlag),
         "ABORT" \in poll'[nu].cumul => abortFlag,
         poll'[nu].abandon \/ (poll'[nu].on /\ poll'[nu].count = poll[nu].count + 1),
         g.pc = "clear" => poll'[nu].abandon
  PROVE  Accounts'
<1> DEFINE o == Top(t).order
<1>1. /\ o \in Pending[nu] /\ queue' = queue
      /\ \A mu \in Nursery : Pending'[mu] = Pending[mu] \ {o}
  BY OwesResult, DroppedPending DEF pool
<1> HIDE DEF o
<1>2. ASSUME NEW mu \in Nursery
      PROVE  Milder(mu)
  <2>1. poll'[mu].abandon => poll[mu].abandon \/ (mu[2] = "children" /\ Pending[mu] # {})
    <3>1. CASE mu = nu
      BY <1>1, <3>1
    <3>2. CASE mu # nu
      BY <3>2
    <3> QED BY <3>1, <3>2
  <2> QED BY <1>1, <2>1 DEF Milder
<1>3. Monotone
  <2>1. ASSUME NEW mu \in Nursery, poll[mu].abandon
        PROVE  poll'[mu].abandon
    <3>1. mu # nu => poll'[mu] = poll[mu]
      OBVIOUS
    <3> QED BY <2>1, <3>1
  <2> QED BY <2>1 DEF Monotone, Accounts
<1>4. ASSUME NEW mu \in Nursery, mu # nu
      PROVE  Polls(mu, poll', Pending', queue', executing', abortFlag')
  <2>1. Pending'[mu] = Pending[mu]
    <3>1. o \notin Pending[mu]
      BY <1>1, <1>4, PendingFacts
    <3>2. Pending'[mu] = Pending[mu] \ {o}
      BY <1>1
    <3> QED BY ONLY <3>1, <3>2
  <2>2. poll'[mu] = poll[mu]
    BY <1>4
  <2> QED BY <1>1, <2>1, <2>2, PollsHold, PollsKept
<1>5. Polls(nu, poll', Pending', queue', executing', abortFlag')
  <2>1. Polls(nu, poll, Pending, queue, executing, abortFlag)
    BY PollsHold
  <2>2. Cardinality(Pending'[nu]) = Cardinality(Pending[nu]) - 1
    <3>1. Cardinality(Pending[nu] \ {o}) = Cardinality(Pending[nu]) - 1
      BY <1>1, PendingFacts, FS_RemoveElement
    <3> QED BY <1>1, <3>1
  <2>3. /\ poll'[nu].abandon => abortFlag'
        /\ "ABORT" \in poll'[nu].cumul => abortFlag'
        /\ Pending'[nu] # {} => poll'[nu].mt
    BY <1>1, <2>1 DEF Polls
  <2>4. poll'[nu].mt /\ ~ poll'[nu].abandon =>
          poll'[nu].on /\ poll'[nu].count + Cardinality(Pending'[nu]) = poll'[nu].num
    <3> SUFFICES ASSUME poll'[nu].mt, ~ poll'[nu].abandon
        PROVE  poll'[nu].on /\ poll'[nu].count + Cardinality(Pending'[nu]) = poll'[nu].num
      OBVIOUS
    <3>1. poll[nu].count + Cardinality(Pending[nu]) = poll[nu].num
      BY <2>1 DEF Polls
    <3>2. poll[nu].count \in Nat /\ Cardinality(Pending[nu]) \in Nat
      BY PendingFacts DEF Inv, Typed, PollState
    <3> QED BY <2>2, <3>1, <3>2
  <2>5. ~ poll'[nu].abandon => \A a, p \in Pending'[nu] : a.ichild = p.ichild => a = p
    BY <1>1, <2>1 DEF Polls
  <2>6. nu[1] \notin executing' =>
          NoneQueued(queue', nu) /\ (~ abortFlag' => Pending'[nu] = {})
    BY <1>1, <2>1 DEF Polls
  <2> QED BY <2>3, <2>4, <2>5, <2>6 DEF Polls
<1>6. ASSUME NEW u \in Thread, NEW j \in 1..Len(stack[u])
      PROVE  Stands(stack[u][j], poll', Pending', queue', abortFlag')
  <2> DEFINE f == stack[u][j]
  <2>1. /\ f \in Frame /\ f.node \in Node /\ FrameOK(f)
        /\ f.order \in Order \cup {NoOrder}
    BY FrameFacts
  <2>2. Milder(Children(f.node)) /\ Milder(StepChildren(f.node))
    BY <1>2, <2>1, NurseriesOf
  <2>3. Stands(f, poll, Pending, queue, abortFlag)
    BY DEF Accounts
  <2>4. f.pc = "clear" => f.order.nursery \in Nursery
    BY <2>1, OrderFacts DEF FrameOK
  <2> HIDE DEF f
  <2>5. Stands(f, poll', Pending', queue', abortFlag')
    BY <1>3, <2>1, <2>2, <2>3, <2>4, StandsKept
  <2> QED BY <2>5 DEF f
<1>7. Stands(g, poll', Pending', queue', abortFlag')
  <2>1. Aborted(g) => abortFlag'
    BY TopStands DEF Aborted
  <2> QED BY <2>1 DEF Stands, Entered
<1>8. ASSUME NEW u \in Thread, NEW j \in 1..Len(stack'[u])
      PROVE  Stands(stack'[u][j], poll', Pending', queue', abortFlag')
  <2>1. j \in 1..Len(stack[u])
    BY DEF DropsOff
  <2>2. stack[u][j] \in Frame /\ Stands(stack[u][j], poll', Pending', queue', abortFlag')
    BY <1>6, <2>1, FrameFacts
  <2>3. CASE stack'[u][j] = g
    BY <1>7, <2>3
  <2>4. CASE stack'[u][j] = stack[u][j]
    BY <2>2, <2>4
  <2>5. CASE \/ stack[u][j].pc = "asleep" /\ stack'[u][j] = [stack[u][j] EXCEPT !.pc = "help"]
             \/ stack[u][j].pc = "waiting" /\ stack'[u][j] = [stack[u][j] EXCEPT !.pc = "wait"]
    BY <2>2, <2>5, WokenStands
  <2> QED BY <2>1, <2>3, <2>4, <2>5 DEF DropsOff
<1>9. \A mu \in Nursery : Polls(mu, poll', Pending', queue', executing', abortFlag')
  BY <1>4, <1>5
<1>10. abortFlag' => MayAbort /\ round' = Rounds
  BY <1>3 DEF Monotone
<1> QED BY <1>8, <1>9, <1>10 DEF Accounts

LEMMA SyncResultDroppedAccounts ==
  ASSUME Inv, Accounts, Inv', NEW t \in Thread, SyncResultDropped(t)
  PROVE  Accounts'
<1> DEFINE f == Top(t)
           nu == f.order.nursery
           g == [f EXCEPT !.pc = "finish"]
<1>1. /\ stack[t] # <<>> /\ f.pc = "deliver" /\ (~ poll[nu].on \/ poll[nu].abandon)
      /\ stack' = Changed(stack, t, g) /\ UNCHANGED <<pool, executing, poll, results, control>>
  BY DEF SyncResultDropped, At, Goto, Changed
<1>2. f \in Frame /\ nu \in Nursery /\ Pending[nu] # {}
  BY <1>1, TopFacts, OwesResult
<1>3. g \in Frame /\ g.pc = "finish" /\ g.order = f.order /\ g.flags = f.flags
  BY <1>2 DEF Frame, PC
<1>4. poll[nu].abandon /\ ("ABORT" \in poll[nu].cumul => abortFlag)
  BY <1>1, <1>2, PollsHold DEF Polls
<1> HIDE DEF g
<1>5. DropsOff(t, g)
  BY <1>1, <1>3, DropsOffChanged
<1> QED BY <1>1, <1>2, <1>3, <1>4, <1>5, DropsOffAccounts DEF control

LEMMA LookAtBackgroundPollAccounts ==
  ASSUME Inv, Accounts, Inv', NEW t \in Thread, LookAtBackgroundPoll(t)
  PROVE  Accounts'
<1> DEFINE f == Top(t)
           nu == f.order.nursery
           g == [f EXCEPT !.pc = IF poll[nu].on THEN "dropoff" ELSE "finish"]
<1>1. /\ stack[t] # <<>> /\ f.pc = "deliver"
      /\ stack' = Changed(stack, t, g) /\ UNCHANGED <<pool, executing, poll, results, control>>
  BY DEF LookAtBackgroundPoll, At, Goto, Changed
<1>2. f \in Frame /\ nu \in Nursery /\ Pending[nu] # {}
  BY <1>1, TopFacts, OwesResult
<1>3. /\ g \in Frame /\ g.pc = (IF poll[nu].on THEN "dropoff" ELSE "finish")
      /\ g.order = f.order /\ g.flags = f.flags
  BY <1>2 DEF Frame, PC
<1> HIDE DEF g
<1>4. CASE poll[nu].on
  <2>1. Stands(g, poll, Pending, queue, abortFlag)
    BY <1>1, <1>3, <1>4, TopStands DEF Stands, Entered, Aborted
  <2> QED BY <1>1, <1>3, <1>4, <2>1, GoesOnAccounts DEF control
<1>5. CASE ~ poll[nu].on
  <2>1. poll[nu].abandon /\ ("ABORT" \in poll[nu].cumul => abortFlag)
    BY <1>2, <1>5, PollsHold DEF Polls
  <2>2. DropsOff(t, g)
    BY <1>1, <1>3, DropsOffChanged
  <2> QED BY <1>1, <1>2, <1>3, <1>5, <2>1, <2>2, DropsOffAccounts DEF control
<1> QED BY <1>4, <1>5

LEMMA ReceiveSyncResultAccounts ==
  ASSUME Undisturbed, Inv, Accounts, Inv', NEW t \in Thread, ReceiveSyncResult(t)
  PROVE  Accounts'
<1> DEFINE f == Top(t)
           nu == f.order.nursery
           stop == EndsPoll(nu, f.flags)
           wake == poll[nu].count + 1 >= poll[nu].num
           pc == IF stop THEN "clear" ELSE "finish"
           g == [f EXCEPT !.pc = pc]
<1>1. /\ stack[t] # <<>> /\ f.pc = "deliver" /\ nu[2] = "children"
      /\ poll[nu].on /\ ~ poll[nu].abandon
      /\ stack' = Delivered(t, nu, wake, pc)
      /\ UNCHANGED <<pool, executing, control>>
  BY DEF ReceiveSyncResult, At
<1>2. f \in Frame /\ nu \in Nursery /\ nu[1] \in Node
  BY <1>1, TopFacts, OwesResult DEF Nursery
<1>3. g \in Frame /\ g.pc = pc /\ g.order = f.order /\ g.flags = f.flags
  <2>1. pc \in PC
    BY DEF PC
  <2> HIDE DEF pc
  <2> QED BY <1>2, <2>1 DEF Frame
<1>4. stop => abortFlag
  <2>1. stop => f.flags = {"ABORT"}
    BY <1>2 DEF EndsPoll, Undisturbed
  <2>2. f.flags = {"ABORT"} => abortFlag
    BY <1>1, TopStands DEF Aborted
  <2> QED BY <2>1, <2>2
<1>5. /\ \A mu \in Nursery : mu # nu => poll'[mu] = poll[mu]
      /\ poll'[nu].mt = poll[nu].mt /\ poll'[nu].num = poll[nu].num
      /\ poll'[nu].on = poll[nu].on /\ poll'[nu].abandon = stop
      /\ poll'[nu].count = poll[nu].count + 1 /\ poll'[nu].cumul = poll[nu].cumul \cup f.flags
  <2>1. poll \in [Nursery -> PollState]
    BY DEF Inv, Typed
  <2>2. poll' = [poll EXCEPT ![nu].cumul = Accumulated(@, f.flags),
                             ![nu].abandon = stop,
                             ![nu].count = @ + 1]
    BY DEF ReceiveSyncResult
  <2> HIDE DEF f, nu, stop
  <2> QED BY <1>2, <2>1, <2>2 DEF PollState, Accumulated
<1>6. "ABORT" \in poll'[nu].cumul => abortFlag
  <2>1. "ABORT" \in poll[nu].cumul => abortFlag
    BY <1>2, PollsHold DEF Polls
  <2>2. "ABORT" \in f.flags => abortFlag
    BY <1>1, TopStands DEF Aborted
  <2> QED BY <1>5, <2>1, <2>2
<1>7. DropsOff(t, g)
  BY <1>1, DropsOffDelivered
<1>8. pc \in {"clear", "finish"} /\ (pc = "clear" => stop)
  OBVIOUS
<1> HIDE DEF g, pc, stop
<1> QED BY <1>1, <1>2, <1>3, <1>4, <1>5, <1>6, <1>7, <1>8, DropsOffAccounts DEF control

LEMMA ReceiveBackgroundResultAccounts ==
  ASSUME Inv, Accounts, Inv', NEW t \in Thread, ReceiveBackgroundResult(t)
  PROVE  Accounts'
<1> DEFINE f == Top(t)
           nu == f.order.nursery
           g == [f EXCEPT !.pc = "finish"]
           wake == poll[nu].count + 1 >= poll[nu].num
<1>1. /\ stack[t] # <<>> /\ f.pc = "dropoff"
      /\ stack' = Delivered(t, nu, wake, "finish")
      /\ UNCHANGED <<pool, executing, results, control>>
  BY DEF ReceiveBackgroundResult, At
<1>2. f \in Frame /\ nu \in Nursery /\ Pending[nu] # {}
  BY <1>1, TopFacts, OwesResult
<1>3. g \in Frame /\ g.pc = "finish" /\ g.order = f.order /\ g.flags = f.flags
  BY <1>2 DEF Frame, PC
<1>4. /\ \A mu \in Nursery : mu # nu => poll'[mu] = poll[mu]
      /\ poll'[nu].mt = poll[nu].mt /\ poll'[nu].num = poll[nu].num
      /\ poll'[nu].on = poll[nu].on /\ poll'[nu].abandon = poll[nu].abandon
      /\ poll'[nu].count = poll[nu].count + 1 /\ poll'[nu].cumul = poll[nu].cumul
  <2>1. poll \in [Nursery -> PollState]
    BY DEF Inv, Typed
  <2>2. poll' = [poll EXCEPT ![nu].count = @ + 1]
    BY DEF ReceiveBackgroundResult
  <2> HIDE DEF nu
  <2> QED BY <1>2, <2>1, <2>2 DEF PollState
<1>5. poll[nu].abandon \/ poll[nu].on
  BY <1>2, PollsHold DEF Polls
<1>6. "ABORT" \in poll'[nu].cumul => abortFlag
  BY <1>2, <1>4, PollsHold DEF Polls
<1>7. DropsOff(t, g)
  BY <1>1, DropsOffDelivered
<1> HIDE DEF g
<1> QED BY <1>1, <1>2, <1>3, <1>4, <1>5, <1>6, <1>7, DropsOffAccounts DEF control

-----------------------------------------------------------------------------
(* The steps that clear the queue, and the end of an order.                 *)

LEMMA ClearedPending ==
  ASSUME Inv, NEW nu \in Nursery, B!ClearQueue(nu),
         \A o \in Order : Carried(stack', o) <=> Carried(stack, o)
  PROVE  /\ \A mu \in Nursery : mu # nu => Pending'[mu] = Pending[mu]
         /\ Pending'[nu] \subseteq Pending[nu]
         /\ NoneQueued(queue', nu)
         /\ \A mu : NoneQueued(queue, mu) => NoneQueued(queue', mu)
<1>1. /\ \A i \in 1..Len(queue') :
           \E j \in 1..Len(queue) : queue'[i] = queue[j] /\ queue[j].nursery # nu
      /\ \A j \in 1..Len(queue) : queue[j].nursery # nu =>
           \E i \in 1..Len(queue') : queue'[i] = queue[j]
  BY ClearedFacts
<1>2. ASSUME NEW o \in Order, Queued(queue', o)
      PROVE  Queued(queue, o)
  BY <1>1, <1>2 DEF Queued
<1>3. ASSUME NEW o \in Order, Queued(queue, o), o.nursery # nu
      PROVE  Queued(queue', o)
  BY <1>1, <1>3 DEF Queued
<1>4. ASSUME NEW mu \in Nursery
      PROVE  Pending'[mu] \subseteq Pending[mu]
  BY <1>2 DEF Pending
<1>5. ASSUME NEW mu \in Nursery, mu # nu
      PROVE  Pending'[mu] = Pending[mu]
  <2>1. Pending[mu] \subseteq Pending'[mu]
    BY <1>3, <1>5 DEF Pending
  <2> QED BY <1>4, <2>1
<1>6. NoneQueued(queue', nu)
  BY <1>1 DEF NoneQueued
<1>7. ASSUME NEW mu, NoneQueued(queue, mu)
      PROVE  NoneQueued(queue', mu)
  BY <1>1, <1>7 DEF NoneQueued
<1> QED BY <1>4, <1>5, <1>6, <1>7

LEMMA ClearAbandonedAccounts ==
  ASSUME Inv, Accounts, Inv', NEW t \in Thread, ClearAbandoned(t)
  PROVE  Accounts'
<1> DEFINE f == Top(t)
           nu == f.order.nursery
           g == [f EXCEPT !.pc = "finish"]
<1>1. /\ stack[t] # <<>> /\ f.pc = "clear" /\ B!ClearQueue(nu)
      /\ stack' = Changed(stack, t, g) /\ UNCHANGED <<executing, poll, results, control>>
  BY DEF ClearAbandoned, At, Goto, Changed
<1>2. f \in Frame /\ nu \in Nursery
  BY <1>1, TopFacts, DeliversFor
<1>3. g \in Frame /\ g.pc = "finish" /\ g.order = f.order /\ g.flags = f.flags
  BY <1>2 DEF Frame, PC
<1>4. poll[nu].abandon /\ (Aborted(f) => abortFlag)
  BY <1>1, TopStands DEF Stands
<1> HIDE DEF g
<1>5. \A o \in Order : Carried(stack', o) <=> Carried(stack, o)
  <2>1. g.pc \notin {"clear", "finish"} <=> f.pc \notin {"clear", "finish"}
    BY <1>1, <1>3
  <2> QED BY <1>1, <1>3, <2>1, SameCarried
<1>6. /\ \A mu \in Nursery : mu # nu => Pending'[mu] = Pending[mu]
      /\ Pending'[nu] \subseteq Pending[nu]
      /\ NoneQueued(queue', nu)
      /\ \A mu : NoneQueued(queue, mu) => NoneQueued(queue', mu)
  BY <1>1, <1>2, <1>5, ClearedPending
<1>7. UNCHANGED <<poll, executing, abortFlag, round>>
  BY <1>1 DEF control
<1>8. ASSUME NEW mu \in Nursery
      PROVE  Milder(mu)
  BY <1>6, <1>7 DEF Milder
<1>9. Monotone
  BY <1>7 DEF Monotone, Accounts
<1>10. ASSUME NEW mu \in Nursery
       PROVE  Polls(mu, poll', Pending', queue', executing', abortFlag')
  <2>1. CASE mu # nu
    BY <1>6, <1>7, <2>1, PollsHold, PollsKept
  <2>2. CASE mu = nu
    BY <1>4, <1>6, <1>7, <2>2, PollsHold DEF Polls
  <2> QED BY <2>1, <2>2
<1>11. PICK N : Acts(stack, stack', N, g)
  BY <1>1, <1>3, ChangedActs
<1>12. Stands(g, poll', Pending', queue', abortFlag')
  BY <1>3, <1>4, <1>7 DEF Stands, Entered, Aborted
<1> QED BY <1>8, <1>9, <1>10, <1>11, <1>12, AccountsKept

LEMMA FinishOrderAccounts ==
  ASSUME Inv, Accounts, Inv', NEW t \in Thread, FinishOrder(t)
  PROVE  Accounts'
<1> DEFINE f == Top(t)
<1>1. /\ stack[t] # <<>> /\ f.pc = "finish" /\ queue' = queue
      /\ stack' = Returned(stack, t) /\ UNCHANGED <<executing, poll, results, control>>
  BY DEF FinishOrder, At, Returned, B!FinishWithWorkOrder
<1>2. f \in Frame /\ f = Last(stack[t]) /\ stack \in [Thread -> Seq(Frame)]
  BY <1>1, TopFacts DEF Inv, Shape
<1>3. ASSUME NEW o \in Order
      PROVE  Carried(stack, o) <=> Carried(stack', o)
  <2>1. ~ Carries(Last(stack[t]), o)
    BY <1>1, <1>2 DEF Carries
  <2> QED BY <1>1, <1>2, <2>1, ReturnedCarries
<1>4. Pending' = Pending
  BY <1>1, <1>3, PendingSame
<1>5. Acts(stack, stack', {}, f)
  BY <1>1, ReturnActs
<1>6. Stands(f, poll, Pending, queue, abortFlag)
  BY <1>1, TopStands
<1>7. UNCHANGED <<executing, poll, abortFlag, round>>
  BY <1>1 DEF control
<1> HIDE DEF f
<1> QED BY <1>1, <1>2, <1>4, <1>5, <1>6, <1>7, StepAccounts

LEMMA AbortPollAccounts ==
  ASSUME Inv, Accounts, Inv', NEW t \in Thread, stack[t] # <<>>,
         Top(t).pc \in {"abort", "abortstep"}, NEW nu \in Nursery,
         nu = (IF Top(t).pc = "abort" THEN Children(Top(t).node) ELSE StepChildren(Top(t).node)),
         NEW next, next = (IF Top(t).pc = "abort" THEN "abortstep" ELSE "wait"),
         AbortPoll(t, nu, next)
  PROVE  Accounts'
<1> DEFINE f == Top(t)
           n == f.node
           kn == Children(n)
           sn == StepChildren(n)
           g == [f EXCEPT !.flags = {"ABORT"}, !.pc = next]
<1>1. /\ stack' = Changed(stack, t, g) /\ UNCHANGED <<executing, results, control>>
  BY DEF AbortPoll, Changed
<1>2. /\ f \in Frame /\ n \in Node /\ kn \in Nursery /\ sn \in Nursery /\ kn # sn
      /\ nu[1] = n /\ Entered(f) /\ kn[1] = n /\ sn[1] = n
  BY TopFacts, NurseriesOf DEF Entered, Children, StepChildren
<1>3. /\ g \in Frame /\ g.node = n /\ g.order = f.order /\ g.req = f.req
      /\ g.flags = {"ABORT"} /\ g.pc = next
  BY <1>2 DEF Frame, PC, Flag
<1>4. Stage(f, poll, Pending, queue, abortFlag) /\ abortFlag
  <2>1. Stage(f, poll, Pending, queue, abortFlag)
    BY <1>2, TopStands
  <2> QED BY <2>1 DEF Stage
<1> HIDE DEF g
<1>5. \A o \in Order : Carried(stack', o) <=> Carried(stack, o)
  <2>1. g.pc \notin {"clear", "finish"} <=> f.pc \notin {"clear", "finish"}
    BY <1>3
  <2> QED BY <1>1, <1>3, <2>1, SameCarried
<1>6. UNCHANGED <<executing, abortFlag, round>>
  BY <1>1 DEF control
<1>7. /\ \A mu \in Nursery : mu # nu => Pending'[mu] = Pending[mu]
      /\ Pending'[nu] \subseteq Pending[nu]
      /\ NoneQueued(queue', nu)
      /\ \A mu \in Nursery : NoneQueued(queue, mu) => NoneQueued(queue', mu)
  <2>1. CASE poll[nu].mt
    <3>1. B!ClearQueue(nu)
      BY <2>1 DEF AbortPoll
    <3> QED BY <1>5, <3>1, ClearedPending
  <2>2. CASE ~ poll[nu].mt
    <3>1. queue' = queue
      BY <2>2 DEF AbortPoll, pool
    <3>2. Pending' = Pending
      BY <1>5, <3>1, PendingSame
    <3>3. Pending[nu] = {}
      BY <2>2, PollsHold DEF Polls
    <3> QED BY <3>1, <3>2, <3>3, NothingQueued
  <2> QED BY <2>1, <2>2
<1>8. /\ \A mu \in Nursery : mu # nu => poll'[mu] = poll[mu]
      /\ poll'[nu].mt = poll[nu].mt /\ poll'[nu].cumul = poll[nu].cumul
      /\ poll[nu].abandon => poll'[nu].abandon
      /\ poll[nu].mt => poll'[nu].abandon
  <2>1. poll \in [Nursery -> PollState]
    BY DEF Inv, Typed
  <2>2. CASE poll[nu].mt
    <3>1. poll' = [poll EXCEPT ![nu].abandon = TRUE, ![nu].on = FALSE]
      BY <2>2 DEF AbortPoll
    <3> QED BY <2>1, <3>1 DEF PollState
  <2>3. CASE ~ poll[nu].mt
    BY <2>3 DEF AbortPoll
  <2> QED BY <2>2, <2>3
<1>9. n \in executing'
  BY <1>2, <1>6, InsideIsMarked
<1>10. ASSUME NEW mu \in Nursery, mu[1] = n
       PROVE  /\ Polls(mu, poll', Pending', queue', executing', abortFlag')
              /\ poll[mu].abandon => poll'[mu].abandon
  <2>1. CASE mu # nu
    BY <1>6, <1>7, <1>8, <2>1, PollsHold, PollsKept
  <2>2. CASE mu = nu
    <3>1. Polls(nu, poll, Pending, queue, executing, abortFlag)
      BY PollsHold
    <3>2. poll[nu].mt \/ Pending'[nu] = {}
      BY <1>7, <3>1 DEF Polls
    <3>3. /\ poll'[nu].abandon => abortFlag'
          /\ "ABORT" \in poll'[nu].cumul => abortFlag'
          /\ Pending'[nu] # {} => poll'[nu].mt
      BY <1>4, <1>6, <1>8, <3>2
    <3>4. poll'[nu].mt => poll'[nu].abandon
      BY <1>8
    <3>5. ~ poll'[nu].abandon => Pending'[nu] = {}
      BY <1>8, <3>2
    <3>6. Polls(nu, poll', Pending', queue', executing', abortFlag')
      BY <1>2, <1>9, <3>3, <3>4, <3>5 DEF Polls
    <3> QED BY <1>8, <2>2, <3>6
  <2> QED BY <2>1, <2>2
<1>11. ASSUME NEW mu \in Nursery, mu[1] # n
       PROVE  /\ Pending'[mu] = Pending[mu] /\ poll'[mu] = poll[mu]
              /\ NoneQueued(queue, mu) => NoneQueued(queue', mu)
              /\ mu[1] \notin executing' => mu[1] \notin executing
  BY <1>2, <1>6, <1>7, <1>8, <1>11
<1>12. Stands(g, poll', Pending', queue', abortFlag')
  <2>1. \A o \in Pending'[kn] \cup Pending'[sn] : o.req = g.req
    <3>1. Pending'[kn] \subseteq Pending[kn] /\ Pending'[sn] \subseteq Pending[sn]
      BY <1>2, <1>7
    <3> QED BY <1>3, <1>4, <3>1 DEF Stage
  <2>2. NoneQueued(queue', kn)
    <3>1. CASE f.pc = "abort"
      BY <1>7, <3>1
    <3>2. CASE f.pc = "abortstep"
      BY <1>2, <1>4, <1>7, <3>2 DEF Stage
    <3> QED BY <3>1, <3>2
  <2>3. g.pc = "wait" => NoneQueued(queue', sn)
    BY <1>3, <1>7
  <2>4. abortFlag' /\ Aborted(g) /\ g.pc \in {"abortstep", "wait"}
    BY <1>3, <1>4, <1>6 DEF Aborted
  <2>5. Stage(g, poll', Pending', queue', abortFlag')
    BY <1>3, <2>1, <2>2, <2>3, <2>4 DEF Stage, BeforeStep, AfterPoll, Leaving
  <2> QED BY <2>4, <2>5 DEF Stands
<1>13. Acts(stack, stack', {n}, g)
  <2>1. Acts(stack, stack', IF Entered(f) THEN {n} ELSE {}, g)
    BY <1>1, <1>3, ChangedActs
  <2> QED BY <1>2, <2>1
<1>14. \A mu \in Nursery : mu[1] # n =>
         /\ Pending'[mu] = Pending[mu] /\ poll'[mu] = poll[mu]
         /\ NoneQueued(queue, mu) => NoneQueued(queue', mu)
         /\ mu[1] \notin executing' => mu[1] \notin executing
  BY <1>11
<1>15. \A mu \in Nursery : mu[1] = n =>
         /\ Polls(mu, poll', Pending', queue', executing', abortFlag')
         /\ poll[mu].abandon => poll'[mu].abandon
  BY <1>10
<1> HIDE DEF n
<1> QED BY ONLY ZenonT(40), Inv, Accounts, Inv', <1>6, <1>12, <1>13, <1>14, <1>15, OwnAccounts

LEMMA AbortChildrenAccounts ==
  ASSUME Inv, Accounts, Inv', NEW t \in Thread, AbortChildren(t)
  PROVE  Accounts'
<1>1. stack[t] # <<>> /\ Top(t).pc = "abort" /\ AbortPoll(t, Children(Top(t).node), "abortstep")
  BY DEF AbortChildren, At
<1>2. Children(Top(t).node) \in Nursery
  BY <1>1, TopFacts, NurseriesOf
<1> QED BY <1>1, <1>2, AbortPollAccounts

LEMMA AbortStepChildrenAccounts ==
  ASSUME Inv, Accounts, Inv', NEW t \in Thread, AbortStepChildren(t)
  PROVE  Accounts'
<1>1. stack[t] # <<>> /\ Top(t).pc = "abortstep" /\ AbortPoll(t, StepChildren(Top(t).node), "wait")
  BY DEF AbortStepChildren, At
<1>2. StepChildren(Top(t).node) \in Nursery
  BY <1>1, TopFacts, NurseriesOf
<1> QED BY <1>1, <1>2, AbortPollAccounts

-----------------------------------------------------------------------------
(* Returns to a node that polls its children itself.                        *)

\* The caller's frame becomes m: it goes on to pc, or calls the next child.
ReturnsTo(t, nu, stop, pc, m) ==
  LET caller == Last(Front(stack[t])) IN
  /\ m.node = caller.node /\ m.order = caller.order
  /\ m.req = caller.req /\ m.flags = caller.flags
  /\ \/ /\ m.pc = pc /\ (stop \/ caller.index = Len(Members(nu)))
        /\ stack' = Changed(Returned(stack, t), t, m)
     \/ /\ m.pc = caller.pc /\ ~ stop /\ m.index = caller.index + 1
        /\ m.index \in 1..Len(Members(nu))
        /\ \E c \in Frame :
             /\ Begins(c) /\ c.order = NoOrder
             /\ c.node = Members(nu)[m.index] /\ c.req = m.req
             /\ stack' = Called(Changed(Returned(stack, t), t, m), t, c)

LEMMA ReturnedStack ==
  ASSUME Inv, NEW t \in Thread, stack[t] # <<>>, Front(stack[t]) # <<>>,
         NEW nu \in Nursery, nu[1] = Last(Front(stack[t])).node,
         Last(Front(stack[t])).pc \in {"serial", "stepserial"},
         nu[2] = IF Last(Front(stack[t])).pc = "serial" THEN "children" ELSE "stepchildren",
         NEW stop \in BOOLEAN, NEW pc \in {"polled", "evaluate"},
         stack' = [stack EXCEPT ![t] =
           Front(Front(stack[t])) \o AfterChild(Last(Front(stack[t])), nu, stop, pc)]
  PROVE  \E m \in Frame : ReturnsTo(t, nu, stop, pc, m)
<1> DEFINE below == Front(stack[t])
           caller == Last(below)
           c == ChildCall(caller, nu, caller.index + 1)
<1>1. stack \in [Thread -> Seq(Frame)] /\ stack[t] \in Seq(Frame)
  BY TopFacts DEF Inv, Shape
<1>2. /\ below \in Seq(Frame) /\ Front(below) \in Seq(Frame)
      /\ Len(below) \in 1..Len(below) /\ caller = below[Len(below)]
      /\ \A i \in 1..Len(below) : i \in 1..Len(stack[t]) /\ below[i] = stack[t][i]
  <2>1. /\ below \in Seq(Frame)
        /\ \A i \in 1..Len(below) : i \in 1..Len(stack[t]) /\ below[i] = stack[t][i]
    BY <1>1, Popped
  <2> HIDE DEF below
  <2>2. Front(below) \in Seq(Frame) /\ Len(below) \in 1..Len(below) /\ Last(below) = below[Len(below)]
    BY <2>1, Popped DEF below
  <2> QED BY <2>1, <2>2
<1>3. /\ caller \in Frame /\ caller.node \in Node /\ caller.index \in Nat
      /\ caller.depth + Height[caller.node] <= MaxDepth /\ caller.depth \in Nat
      /\ caller.req \in Request
  <2>1. caller \in Frame /\ caller.node \in Node /\ caller.index \in Nat
    BY CallerFacts
  <2>2. Len(below) \in 1..Len(stack[t]) /\ caller = stack[t][Len(below)]
    BY <1>2
  <2>3. caller.depth + Height[caller.node] <= MaxDepth
    BY <2>2 DEF Inv, Shape, Fits
  <2>4. caller.depth \in Nat /\ caller.req \in Request
    BY <2>1, PoolFacts DEF Frame
  <2> QED BY <2>1, <2>3, <2>4
<1>4. caller.index \in 1..Len(Members(nu)) /\ Len(Members(nu)) \in Nat
  <2>1. /\ caller.pc = "serial" => caller.index \in 1..Len(Kids[caller.node])
        /\ caller.pc = "stepserial" => caller.index \in 1..Len(StepKids[caller.node])
    BY CallerFacts
  <2> QED BY <2>1, MembersAreNodes DEF Members
<1>5. ASSUME NEW m \in Frame
      PROVE  /\ Front(below) \o <<m>> = WithTop(below, m)
             /\ Changed(Returned(stack, t), t, m) = [stack EXCEPT ![t] = WithTop(below, m)]
  <2> HIDE DEF caller
  <2>1. Front(below) \o <<m>> = WithTop(below, m)
    BY <1>2 DEF WithTop
  <2>2. Changed(Returned(stack, t), t, m) = [stack EXCEPT ![t] = WithTop(below, m)]
    BY <1>1 DEF Changed, Returned
  <2> QED BY <2>1, <2>2
<1>6. CASE stop \/ caller.index = Len(Members(nu))
  <2> DEFINE m == [caller EXCEPT !.pc = pc, !.index = 1]
  <2>1. AfterChild(caller, nu, stop, pc) = <<m>>
    BY <1>6 DEF AfterChild
  <2>2. /\ m \in Frame /\ m.node = caller.node /\ m.order = caller.order
        /\ m.req = caller.req /\ m.flags = caller.flags /\ m.pc = pc
    <3> HIDE DEF caller
    <3> QED BY <1>3 DEF Frame, PC
  <2>3. stack' = [stack EXCEPT ![t] = Front(below) \o <<m>>]
    BY <2>1
  <2> HIDE DEF m, below
  <2>4. stack' = Changed(Returned(stack, t), t, m)
    BY <1>5, <2>2, <2>3
  <2>5. ReturnsTo(t, nu, stop, pc, m)
    BY <1>6, <2>2, <2>4 DEF ReturnsTo, below
  <2> QED BY <2>2, <2>5
<1>7. CASE ~ (stop \/ caller.index = Len(Members(nu)))
  <2> DEFINE m == [caller EXCEPT !.index = @ + 1]
  <2>1. AfterChild(caller, nu, stop, pc) = <<m, c>>
    BY <1>7 DEF AfterChild
  <2>2. /\ m \in Frame /\ m.node = caller.node /\ m.order = caller.order
        /\ m.req = caller.req /\ m.flags = caller.flags /\ m.pc = caller.pc
        /\ m.index = caller.index + 1
    <3> HIDE DEF caller
    <3> QED BY <1>3 DEF Frame, PC
  <2>3. caller.index + 1 \in 1..Len(Members(nu))
    BY <1>4, <1>7
  <2>4. c = [node |-> Members(nu)[caller.index + 1], depth |-> caller.depth + 1,
             order |-> NoOrder, req |-> caller.req,
             pc |-> "enter", index |-> 1, flags |-> {}]
    BY DEF ChildCall, Call
  <2>5. /\ Members(nu)[caller.index + 1] \in Node
        /\ Height[Members(nu)[caller.index + 1]] < Height[caller.node]
    BY <2>3, MembersAreNodes, HeightDecreases
  <2>6. Height[Members(nu)[caller.index + 1]] \in Nat /\ Height[caller.node] \in Nat
        /\ MaxDepth \in Nat
    BY <1>3, <2>5, HeightDecreases, PoolFacts
  <2>7. caller.depth + 1 \in 0..MaxDepth
    BY <1>3, <2>5, <2>6
  <2>8. /\ c \in Frame /\ Begins(c) /\ c.order = NoOrder
        /\ c.node = Members(nu)[m.index] /\ c.req = m.req
    <3> HIDE DEF c, m
    <3> QED BY <1>3, <2>2, <2>4, <2>5, <2>7 DEF Frame, PC, Begins
  <2>9. stack' = [stack EXCEPT ![t] = Front(below) \o <<m, c>>]
    BY <2>1
  <2> HIDE DEF m, c, below
  <2>10. Front(below) \o <<m, c>> = Append(WithTop(below, m), c)
    BY <1>2, <2>2, <2>8 DEF WithTop
  <2>11. Called(Changed(Returned(stack, t), t, m), t, c)
           = [stack EXCEPT ![t] = Append(WithTop(below, m), c)]
    BY <1>1, <1>5, <2>2 DEF Called
  <2>12. stack' = Called(Changed(Returned(stack, t), t, m), t, c)
    BY <2>9, <2>10, <2>11
  <2>13. \E d \in Frame :
           /\ Begins(d) /\ d.order = NoOrder
           /\ d.node = Members(nu)[m.index] /\ d.req = m.req
           /\ stack' = Called(Changed(Returned(stack, t), t, m), t, d)
    BY <2>8, <2>12
  <2>14. ReturnsTo(t, nu, stop, pc, m)
    BY <1>7, <2>2, <2>3, <2>13 DEF ReturnsTo, below
  <2> QED BY <2>2, <2>14
<1> QED BY <1>6, <1>7

\* The orders outstanding are the same.
LEMMA ReturnedPending ==
  ASSUME Inv, NEW t \in Thread, stack[t] # <<>>, Front(stack[t]) # <<>>,
         Top(t).order = NoOrder, Last(Front(stack[t])).pc \in {"serial", "stepserial"},
         NEW m \in Frame, m.order = Last(Front(stack[t])).order, Entered(m),
         \/ stack' = Changed(Returned(stack, t), t, m)
         \/ \E c \in Frame : /\ Begins(c) /\ c.order = NoOrder
                             /\ stack' = Called(Changed(Returned(stack, t), t, m), t, c),
         queue' = queue
  PROVE  Pending' = Pending
<1> DEFINE st1 == Returned(stack, t)
           st2 == Changed(st1, t, m)
<1>1. stack \in [Thread -> Seq(Frame)] /\ Top(t) = Last(stack[t])
  BY TopFacts DEF Inv, Shape
<1>2. /\ st1 \in [Thread -> Seq(Frame)] /\ st1[t] = Front(stack[t])
  BY <1>1, ReturnedFrames DEF Returned
<1>3. ASSUME NEW o \in Order
      PROVE  Carried(stack, o) <=> Carried(st1, o)
  <2>1. ~ Carries(Last(stack[t]), o)
    BY <1>1, OrderFacts DEF Carries
  <2> QED BY <1>1, <2>1, ReturnedCarries
<1> HIDE DEF st1
<1>4. st1[t] # <<>> /\ Last(st1[t]) = Last(Front(stack[t]))
  BY <1>2
<1>5. ASSUME NEW o \in Order
      PROVE  Carried(st2, o) <=> Carried(st1, o)
  <2>1. Carries(m, o) <=> Carries(Last(st1[t]), o)
    BY <1>4 DEF Carries, Entered
  <2> QED BY <1>2, <1>4, <2>1, ChangedCarries
<1>6. st2 \in [Thread -> Seq(Frame)]
  BY <1>2, <1>4, ChangedFrames
<1> HIDE DEF st2
<1>7. ASSUME NEW o \in Order
      PROVE  Carried(stack', o) <=> Carried(stack, o)
  <2>1. CASE stack' = st2
    BY <1>3, <1>5, <2>1
  <2>2. CASE \E c \in Frame : Begins(c) /\ c.order = NoOrder /\ stack' = Called(st2, t, c)
    <3>1. PICK c \in Frame : Begins(c) /\ c.order = NoOrder /\ stack' = Called(st2, t, c)
      BY <2>2
    <3>2. ~ Carries(c, o)
      BY <3>1, OrderFacts DEF Carries
    <3>3. Carried(Called(st2, t, c), o) <=> Carried(st2, o)
      BY <1>6, <3>2, CalledCarries
    <3> QED BY <1>3, <1>5, <3>1, <3>3
  <2> QED BY <2>1, <2>2 DEF st1, st2
<1> QED BY <1>7, PendingSame

LEMMA ReturnedActs ==
  ASSUME Inv, NEW t \in Thread, stack[t] # <<>>, Front(stack[t]) # <<>>,
         Last(Front(stack[t])).pc \in {"serial", "stepserial"}, NEW m \in Frame,
         \/ stack' = Changed(Returned(stack, t), t, m)
         \/ \E c \in Frame : /\ Begins(c) /\ c.order = NoOrder
                             /\ stack' = Called(Changed(Returned(stack, t), t, m), t, c)
  PROVE  Acts(stack, stack', {Last(Front(stack[t])).node}, m)
<1> DEFINE below == Front(stack[t])
           caller == Last(below)
           K == Len(below)
           st1 == Returned(stack, t)
           st2 == Changed(st1, t, m)
<1>1. stack \in [Thread -> Seq(Frame)] /\ stack[t] \in Seq(Frame) /\ Exclusive(stack)
  BY TopFacts DEF Inv, Shape
<1>2. /\ st1 \in [Thread -> Seq(Frame)] /\ st1[t] = below
      /\ \A u \in Thread : \A j \in 1..Len(st1[u]) :
           j \in 1..Len(stack[u]) /\ st1[u][j] = stack[u][j]
  <2>1. st1 \in [Thread -> Seq(Frame)] /\ st1[t] = below
    BY <1>1, ReturnedFrames DEF Returned
  <2>2. \A u \in Thread : \A j \in 1..Len(st1[u]) :
          j \in 1..Len(stack[u]) /\ st1[u][j] = stack[u][j]
    BY <1>1, ReturnedFrames
  <2> QED BY <2>1, <2>2
<1>3. below \in Seq(Frame) /\ K \in 1..K /\ caller = below[K]
  <2>1. below \in Seq(Frame)
    BY <1>1, Popped
  <2> HIDE DEF below
  <2> QED BY <2>1, Popped DEF below
<1> HIDE DEF st1
<1>4. K \in 1..Len(stack[t]) /\ caller = stack[t][K]
  BY <1>2, <1>3
<1>5. /\ st2 \in [Thread -> Seq(Frame)]
      /\ \A u \in Thread : Len(st2[u]) = Len(st1[u])
      /\ \A u \in Thread : \A j \in 1..Len(st1[u]) :
           st2[u][j] = m \/ (st2[u][j] = st1[u][j] /\ ~ (u = t /\ j = K))
  <2>1. st1[t] # <<>>
    BY <1>2
  <2>2. st2 \in [Thread -> Seq(Frame)]
    BY <1>2, <2>1, ChangedFrames
  <2>3. \A u \in Thread : Len(st2[u]) = Len(st1[u])
    BY SMTT(20), <1>2, <2>1, ChangedFrames
  <2>4. st2[t][Len(st1[t])] = m
    BY <1>2, <2>1, ChangedFrames
  <2>5. ASSUME NEW u \in Thread, NEW j \in 1..Len(st1[u])
        PROVE  st2[u][j] = m \/ (st2[u][j] = st1[u][j] /\ ~ (u = t /\ j = K))
    <3>1. CASE u = t /\ j = K
      BY <1>2, <2>4, <3>1
    <3>2. CASE ~ (u = t /\ j = K)
      <4>1. ~ (u = t /\ j = Len(st1[t]))
        BY <1>2, <3>2
      <4> QED BY <1>2, <2>1, <3>2, <4>1, ChangedBelow
    <3> QED BY <3>1, <3>2
  <2> QED BY <2>2, <2>3, <2>5
<1> HIDE DEF st2
<1>6. ASSUME NEW u \in Thread, NEW j \in 1..Len(stack'[u]), stack'[u][j] # m,
             ~ Begins(stack'[u][j])
      PROVE  j \in 1..Len(st2[u]) /\ stack'[u][j] = st2[u][j]
  <2>1. CASE stack' = st2
    BY <2>1
  <2>2. CASE \E c \in Frame : Begins(c) /\ c.order = NoOrder /\ stack' = Called(st2, t, c)
    <3>1. PICK c \in Frame : Begins(c) /\ stack' = Called(st2, t, c)
      BY <2>2
    <3>2. /\ \A v \in Thread : \A i \in 1..Len(st2[v]) :
               i \in 1..Len(stack'[v]) /\ stack'[v][i] = st2[v][i]
          /\ \A v \in Thread : \A i \in 1..Len(stack'[v]) :
               i \in 1..Len(st2[v]) \/ (v = t /\ i = Len(st2[t]) + 1)
          /\ stack'[t][Len(st2[t]) + 1] = c
      <4> DEFINE st3 == Called(st2, t, c)
      <4>1. /\ \A v \in Thread : \A i \in 1..Len(st2[v]) :
                 i \in 1..Len(st3[v]) /\ st3[v][i] = st2[v][i]
            /\ \A v \in Thread : \A i \in 1..Len(st3[v]) :
                 i \in 1..Len(st2[v]) \/ (v = t /\ i = Len(st2[t]) + 1)
            /\ st3[t][Len(st2[t]) + 1] = c
        <5>1. st2 \in [Thread -> Seq(Frame)]
          BY <1>5
        <5> QED BY <5>1, CalledApart DEF st3
      <4>2. stack' = st3
        BY <3>1
      <4> HIDE DEF st3
      <4> QED BY ONLY <4>1, <4>2
    <3> QED BY <1>6, <3>1, <3>2
  <2> QED BY <2>1, <2>2 DEF st1, st2
<1>7. ASSUME NEW u \in Thread, NEW j \in 1..Len(stack'[u]), stack'[u][j] # m,
             ~ Begins(stack'[u][j])
      PROVE  /\ j \in 1..Len(stack[u]) /\ stack'[u][j] = stack[u][j]
             /\ Entered(stack[u][j]) => stack[u][j].node \notin {caller.node}
  <2>1. j \in 1..Len(st2[u]) /\ stack'[u][j] = st2[u][j]
    BY <1>6, <1>7
  <2>2. j \in 1..Len(st1[u]) /\ stack'[u][j] = st1[u][j] /\ ~ (u = t /\ j = K)
    BY <1>5, <1>7, <2>1
  <2>3. j \in 1..Len(stack[u]) /\ stack'[u][j] = stack[u][j]
    BY <1>2, <2>2
  <2>4. Entered(stack[u][j]) => stack[u][j].node # caller.node
    <3>1. Entered(caller)
      BY DEF Entered
    <3> QED BY <1>1, <1>4, <2>2, <2>3, <3>1 DEF Exclusive
  <2> QED BY <2>3, <2>4
<1> QED BY <1>7 DEF Acts

\* A child returns to the node that called it.
LEMMA ReturnsAccounts ==
  ASSUME Inv, Accounts, Inv', NEW t \in Thread, stack[t] # <<>>, Front(stack[t]) # <<>>,
         Top(t).pc = "exit", Top(t).order = NoOrder,
         NEW nu \in Nursery, nu[1] = Last(Front(stack[t])).node,
         Last(Front(stack[t])).pc \in {"serial", "stepserial"},
         nu[2] = IF Last(Front(stack[t])).pc = "serial" THEN "children" ELSE "stepchildren",
         NEW stop \in BOOLEAN, NEW pc,
         pc = IF Last(Front(stack[t])).pc = "serial" THEN "polled" ELSE "evaluate",
         stack' = [stack EXCEPT ![t] =
           Front(Front(stack[t])) \o AfterChild(Last(Front(stack[t])), nu, stop, pc)],
         executing' = executing \ {Top(t).node}, UNCHANGED <<pool, abortFlag, round>>,
         \A mu \in Nursery : mu # nu => poll'[mu] = poll[mu],
         poll'[nu].mt = poll[nu].mt, poll'[nu].on = poll[nu].on,
         poll'[nu].abandon = poll[nu].abandon, poll'[nu].num = poll[nu].num,
         poll'[nu].count = poll[nu].count, "ABORT" \in poll'[nu].cumul => abortFlag
  PROVE  Accounts'
<1> DEFINE f == Top(t)
           below == Front(stack[t])
           caller == Last(below)
           n == caller.node
           K == Len(below)
<1>1. PICK m \in Frame :
        /\ m.node = n /\ m.order = caller.order /\ m.req = caller.req
        /\ m.flags = caller.flags /\ m.pc \in {pc, caller.pc}
        /\ \/ stack' = Changed(Returned(stack, t), t, m)
           \/ \E c \in Frame : /\ Begins(c) /\ c.order = NoOrder
                               /\ stack' = Called(Changed(Returned(stack, t), t, m), t, c)
  <2>1. pc \in {"polled", "evaluate"}
    OBVIOUS
  <2>2. PICK m \in Frame : ReturnsTo(t, nu, stop, pc, m)
    BY <2>1, ReturnedStack
  <2>3. /\ m.node = n /\ m.order = caller.order /\ m.req = caller.req /\ m.flags = caller.flags
        /\ m.pc \in {pc, caller.pc}
    BY <2>2 DEF ReturnsTo
  <2>4. \/ stack' = Changed(Returned(stack, t), t, m)
        \/ \E c \in Frame : /\ Begins(c) /\ c.order = NoOrder
                            /\ stack' = Called(Changed(Returned(stack, t), t, m), t, c)
    BY <2>2 DEF ReturnsTo
  <2> HIDE DEF caller, n, below
  <2> QED BY <2>3, <2>4
<1>2. Entered(m) /\ Entered(caller)
  BY <1>1 DEF Entered
<1>3. Acts(stack, stack', {n}, m)
  BY <1>1, ReturnedActs
<1>4. queue' = queue /\ Pending' = Pending
  <2>1. queue' = queue
    BY DEF pool
  <2> QED BY <1>1, <1>2, <2>1, ReturnedPending
<1>5. \A mu \in Nursery : mu[1] \notin executing' =>
        \/ mu[1] \notin executing
        \/ NoneQueued(queue, mu) /\ (~ abortFlag => Pending[mu] = {})
  BY LeavesNothing
<1>6. ASSUME NEW mu \in Nursery
      PROVE  /\ Polls(mu, poll', Pending', queue', executing', abortFlag')
             /\ poll[mu].abandon => poll'[mu].abandon
  <2>1. Polls(mu, poll, Pending, queue, executing, abortFlag)
    BY PollsHold
  <2>2. CASE mu # nu
    BY <1>4, <1>5, <2>1, <2>2, PollsKept
  <2>3. CASE mu = nu
    <3> HIDE DEF f
    <3> QED BY <1>4, <1>5, <2>1, <2>3 DEF Polls
  <2> QED BY <2>2, <2>3
<1>7. Stands(caller, poll, Pending, queue, abortFlag)
  <2>1. stack[t] \in Seq(Frame)
    BY TopFacts
  <2>2. /\ below \in Seq(Frame)
        /\ \A i \in 1..Len(below) : i \in 1..Len(stack[t]) /\ below[i] = stack[t][i]
    BY <2>1, Popped
  <2>3. K \in 1..K /\ caller = below[K]
    <3> HIDE DEF below
    <3> QED BY <2>2, Popped DEF below
  <2>4. K \in 1..Len(stack[t]) /\ caller = stack[t][K]
    BY <2>2, <2>3
  <2> QED BY <2>4 DEF Accounts
<1>8. Stage(caller, poll, Pending, queue, abortFlag) /\ (Aborted(caller) => abortFlag)
  BY <1>2, <1>7 DEF Stands
<1>9. \A mu \in Nursery : poll'[mu].abandon = poll[mu].abandon
  <2>1. ASSUME NEW mu \in Nursery
        PROVE  poll'[mu].abandon = poll[mu].abandon
    <3>1. mu # nu => poll'[mu] = poll[mu]
      OBVIOUS
    <3> QED BY <3>1
  <2> QED BY <2>1
<1>10. n \in Node /\ Children(n) \in Nursery /\ StepChildren(n) \in Nursery
  BY CallerFacts, NurseriesOf
<1>11. Stands(m, poll', Pending', queue', abortFlag')
  <2> HIDE DEF caller
  <2>1. Stage(m, poll', Pending', queue', abortFlag')
    <3> DEFINE kn == Children(n)
               sn == StepChildren(n)
    <3> HIDE DEF kn, sn
    <3>1. CASE caller.pc = "serial"
      <4>1. m.pc \in {"polled", "serial"}
        BY <1>1, <3>1 DEF caller
      <4>2. /\ poll'[kn].abandon = poll[kn].abandon /\ poll'[sn].abandon = poll[sn].abandon
            /\ Pending' = Pending /\ queue' = queue
        BY <1>4, <1>9, <1>10 DEF kn, sn
      <4>3. m.node = caller.node /\ m.req = caller.req /\ m.flags = caller.flags
        BY <1>1
      <4> HIDE DEF n
      <4>4. Stage(caller, poll, Pending, queue, abortFlag)
        BY <1>8
      <4> QED BY <3>1, <4>1, <4>2, <4>3, <4>4
              DEF Stage, BeforeStep, AfterPoll, Leaving, Aborted, kn, sn, n
    <3>2. CASE caller.pc = "stepserial"
      <4>1. m.pc \in {"evaluate", "stepserial"}
        BY <1>1, <3>2 DEF caller
      <4>2. /\ poll'[kn].abandon = poll[kn].abandon /\ poll'[sn].abandon = poll[sn].abandon
            /\ Pending' = Pending /\ queue' = queue
        BY <1>4, <1>9, <1>10 DEF kn, sn
      <4>3. m.node = caller.node /\ m.req = caller.req /\ m.flags = caller.flags
        BY <1>1
      <4> HIDE DEF n
      <4>4. Stage(caller, poll, Pending, queue, abortFlag)
        BY <1>8
      <4> QED BY <3>2, <4>1, <4>2, <4>3, <4>4
              DEF Stage, BeforeStep, AfterPoll, Leaving, Aborted, kn, sn, n
    <3> QED BY <3>1, <3>2 DEF caller
  <2>2. m.pc # "clear"
    BY <1>2 DEF Entered
  <2> QED BY <1>1, <1>8, <2>1, <2>2 DEF Stands, Aborted
<1>12. ASSUME NEW mu \in Nursery, mu[1] # n
       PROVE  /\ Pending'[mu] = Pending[mu] /\ poll'[mu] = poll[mu]
              /\ NoneQueued(queue, mu) => NoneQueued(queue', mu)
              /\ mu[1] \notin executing' =>
                   \/ mu[1] \notin executing
                   \/ NoneQueued(queue, mu) /\ (~ abortFlag => Pending[mu] = {})
  BY <1>4, <1>5, <1>12
<1>13. UNCHANGED <<abortFlag, round>>
  OBVIOUS
<1> HIDE DEF n, f, below
<1> QED BY ONLY Inv, Accounts, Inv', <1>3, <1>6, <1>11, <1>12, <1>13, OwnAccounts

LEMMA ReturnToPollAccounts ==
  ASSUME Inv, Accounts, Inv', NEW t \in Thread, ReturnToPoll(t)
  PROVE  Accounts'
<1> DEFINE f == Top(t)
           below == Front(stack[t])
           caller == Last(below)
           nu == Children(caller.node)
           stop == ("ABORT" \in f.flags \/ EndsPoll(nu, f.flags))
<1>1. /\ stack[t] # <<>> /\ f.pc = "exit" /\ f.order = NoOrder
      /\ below # <<>> /\ caller.pc = "serial"
      /\ executing' = executing \ {f.node}
      /\ poll' = [poll EXCEPT ![nu].cumul = @ \cup f.flags]
      /\ stack' = [stack EXCEPT ![t] = Front(below) \o AfterChild(caller, nu, stop, "polled")]
      /\ UNCHANGED <<pool, control>>
  BY DEF ReturnToPoll, At
<1>2. nu \in Nursery /\ nu[1] = caller.node /\ nu[2] = "children"
  BY <1>1, CallerFacts, NurseriesOf
<1>3. stop \in BOOLEAN
  BY DEF EndsPoll
<1>4. /\ \A mu \in Nursery : mu # nu => poll'[mu] = poll[mu]
      /\ poll'[nu].mt = poll[nu].mt /\ poll'[nu].on = poll[nu].on
      /\ poll'[nu].abandon = poll[nu].abandon /\ poll'[nu].num = poll[nu].num
      /\ poll'[nu].count = poll[nu].count /\ poll'[nu].cumul = poll[nu].cumul \cup f.flags
  <2>1. poll \in [Nursery -> PollState]
    BY DEF Inv, Typed
  <2> HIDE DEF f, nu
  <2> QED BY <1>1, <1>2, <2>1 DEF PollState
<1>5. "ABORT" \in poll'[nu].cumul => abortFlag
  <2>1. "ABORT" \in poll[nu].cumul => abortFlag
    BY <1>2, PollsHold DEF Polls
  <2>2. "ABORT" \in f.flags => abortFlag
    BY <1>1, TopStands DEF Aborted
  <2> QED BY <1>4, <2>1, <2>2
<1>6. UNCHANGED <<pool, abortFlag, round>>
  BY <1>1 DEF control
<1> HIDE DEF stop
<1> QED BY <1>1, <1>2, <1>3, <1>4, <1>5, <1>6, ReturnsAccounts

LEMMA ReturnToBackgroundPollAccounts ==
  ASSUME Inv, Accounts, Inv', NEW t \in Thread, ReturnToBackgroundPoll(t)
  PROVE  Accounts'
<1> DEFINE f == Top(t)
           below == Front(stack[t])
           caller == Last(below)
           nu == StepChildren(caller.node)
           stop == "ABORT" \in f.flags
<1>1. /\ stack[t] # <<>> /\ f.pc = "exit" /\ f.order = NoOrder
      /\ below # <<>> /\ caller.pc = "stepserial"
      /\ executing' = executing \ {f.node}
      /\ stack' = [stack EXCEPT ![t] = Front(below) \o AfterChild(caller, nu, stop, "evaluate")]
      /\ UNCHANGED <<pool, poll, control>>
  BY DEF ReturnToBackgroundPoll, At
<1>2. nu \in Nursery /\ nu[1] = caller.node /\ nu[2] = "stepchildren"
  BY <1>1, CallerFacts, NurseriesOf
<1>3. stop \in BOOLEAN
  OBVIOUS
<1>4. "ABORT" \in poll'[nu].cumul => abortFlag
  BY <1>1, <1>2, PollsHold DEF Polls
<1>5. UNCHANGED <<pool, abortFlag, round>>
  BY <1>1 DEF control
<1> HIDE DEF stop
<1> QED BY <1>1, <1>2, <1>3, <1>4, <1>5, ReturnsAccounts

-----------------------------------------------------------------------------
(* The steps that place orders.                                             *)

\* The orders of a poll of nursery nu for request r.
Places(os, nu, r) ==
  /\ os \in Seq(Order) /\ os # <<>> /\ Len(os) = Len(Members(nu))
  /\ \A i \in 1..Len(os) : os[i].nursery = nu /\ os[i].ichild = i /\ os[i].req = r

LEMMA PlacedOutstanding ==
  ASSUME Inv, NEW os \in Seq(Order), os # <<>>,
         \A i \in 1..Len(os) : os[i].depth + Height[NodeOf(os[i])] <= MaxDepth
  PROVE  /\ \A o : Queued(B!Placed(os), o) <=> Queued(os, o) \/ Queued(queue, o)
         /\ \A nu : /\ \A i \in 1..Len(os) : os[i].nursery # nu
                    /\ NoneQueued(queue, nu)
                    => NoneQueued(B!Placed(os), nu)
<1> DEFINE q == B!Placed(os)
<1>1. /\ \A i \in 1..Len(os) : i \in 1..Len(q) /\ q[i] = os[i]
      /\ \A i \in 1..Len(queue) : Len(os) + i \in 1..Len(q) /\ q[Len(os) + i] = queue[i]
      /\ \A i \in 1..Len(q) :
           \/ i \in 1..Len(os) /\ q[i] = os[i]
           \/ i - Len(os) \in 1..Len(queue) /\ q[i] = queue[i - Len(os)]
  BY PlacedFacts
<1> HIDE DEF q
<1>2. ASSUME NEW o, Queued(q, o)
      PROVE  Queued(os, o) \/ Queued(queue, o)
  BY <1>1, <1>2 DEF Queued
<1>3. ASSUME NEW o, Queued(os, o)
      PROVE  Queued(q, o)
  BY <1>1, <1>3 DEF Queued
<1>4. ASSUME NEW o, Queued(queue, o)
      PROVE  Queued(q, o)
  BY <1>1, <1>4 DEF Queued
<1>5. ASSUME NEW nu, \A i \in 1..Len(os) : os[i].nursery # nu, NoneQueued(queue, nu)
      PROVE  NoneQueued(q, nu)
  BY <1>1, <1>5 DEF NoneQueued
<1> QED BY <1>2, <1>3, <1>4, <1>5 DEF q

\* They are as many as the nursery has children.
LEMMA PlacedCount ==
  ASSUME NEW nu \in Nursery, NEW r, NEW os, Places(os, nu, r)
  PROVE  LET S == {o \in Order : Queued(os, o)} IN
         /\ Cardinality(S) = Len(Members(nu)) /\ S # {}
         /\ \A o \in S : o.nursery = nu /\ o.req = r
         /\ \A o, p \in S : o.ichild = p.ichild => o = p
<1> DEFINE S == {o \in Order : Queued(os, o)}
           k == Len(os)
<1>1. /\ os \in Seq(Order) /\ k \in Nat /\ k >= 1 /\ k = Len(Members(nu))
      /\ \A i \in 1..k : os[i] \in Order /\ os[i].nursery = nu /\ os[i].ichild = i /\ os[i].req = r
  BY DEF Places
<1>2. \A o \in S : \E i \in 1..k : os[i] = o
  BY DEF Queued
<1>3. \A i \in 1..k : os[i] \in S
  BY <1>1 DEF Queued
<1> HIDE DEF S, k
<1>4. \A o, p \in S : o.ichild = p.ichild => o = p
  BY <1>1, <1>2
<1>5. Cardinality(S) = k
  <2> DEFINE b == [i \in 1..k |-> os[i]]
  <2>1. b \in [1..k -> S]
    BY <1>3
  <2>2. \A i, j \in 1..k : b[i] = b[j] => i = j
    BY <1>1
  <2>3. \A o \in S : \E i \in 1..k : b[i] = o
    BY <1>2
  <2> HIDE DEF b
  <2>4. b \in Bijection(1..k, S)
    BY <2>1, <2>2, <2>3 DEF Bijection, Injection, Surjection, IsInjective
  <2>5. ExistsBijection(1..k, S)
    BY <2>4 DEF ExistsBijection
  <2> QED BY <1>1, <2>5, FS_CountingElements
<1>6. \A o \in S : o.nursery = nu /\ o.req = r
  BY <1>1, <1>2
<1>7. S # {}
  BY <1>1, <1>3
<1> QED BY <1>1, <1>4, <1>5, <1>6, <1>7 DEF S

LEMMA NewPending ==
  ASSUME NEW nu \in Nursery, NEW r, NEW os, Places(os, nu, r), Pending[nu] = {},
         \A o \in Order : Outstanding(queue', stack', o) <=>
                            Queued(os, o) \/ Outstanding(queue, stack, o)
  PROVE  /\ Cardinality(Pending'[nu]) = Len(Members(nu))
         /\ \A o \in Pending'[nu] : o.req = r
         /\ \A o, p \in Pending'[nu] : o.ichild = p.ichild => o = p
         /\ \A mu \in Nursery : mu # nu => Pending'[mu] = Pending[mu]
<1> DEFINE S == {o \in Order : Queued(os, o)}
<1>1. /\ Cardinality(S) = Len(Members(nu)) /\ S # {}
      /\ \A o \in S : o.nursery = nu /\ o.req = r
      /\ \A o, p \in S : o.ichild = p.ichild => o = p
  BY PlacedCount
<1>2. \A o : o \in S <=> o \in Order /\ Queued(os, o)
  OBVIOUS
<1> HIDE DEF S
<1>3. \A mu \in Nursery : \A o :
        /\ o \in Pending[mu] <=> o \in Order /\ o.nursery = mu /\ Outstanding(queue, stack, o)
        /\ o \in Pending'[mu] <=> o \in Order /\ o.nursery = mu /\ Outstanding(queue', stack', o)
  BY DEF Pending, Outstanding
<1>4. ASSUME NEW mu \in Nursery, mu # nu
      PROVE  Pending'[mu] = Pending[mu]
  <2>1. ASSUME NEW o
        PROVE  o \in Pending'[mu] <=> o \in Pending[mu]
    BY <1>1, <1>2, <1>3, <1>4
  <2>2. Pending'[mu] \subseteq Order /\ Pending[mu] \subseteq Order
    BY <1>3
  <2> QED BY <2>1, <2>2
<1>5. Pending'[nu] = S
  <2>1. ASSUME NEW o
        PROVE  o \in Pending'[nu] <=> o \in S
    BY <1>1, <1>2, <1>3
  <2> QED BY <2>1
<1> QED BY <1>1, <1>4, <1>5

\* A node places the orders of its nursery nu and goes on in frame g.
LEMMA NewPollAccounts ==
  ASSUME Inv, Accounts, Inv', NEW t \in Thread, stack[t] # <<>>, Entered(Top(t)),
         NEW nu \in Nursery, nu[1] = Top(t).node, NEW g \in Frame,
         Acts(stack, stack', {Top(t).node}, g),
         NEW r, NEW os, Places(os, nu, r), Pending[nu] = {},
         \A o \in Order : Outstanding(queue', stack', o) <=>
                            Queued(os, o) \/ Outstanding(queue, stack, o),
         \A mu \in Nursery : mu # nu /\ NoneQueued(queue, mu) => NoneQueued(queue', mu),
         UNCHANGED <<executing, abortFlag, round>>,
         \A mu \in Nursery : mu # nu => poll'[mu] = poll[mu],
         poll'[nu].mt, poll'[nu].on, ~ poll[nu].abandon, ~ poll'[nu].abandon,
         poll'[nu].num = Len(Members(nu)), poll'[nu].count = 0,
         "ABORT" \in poll'[nu].cumul => abortFlag,
         Stands(g, poll', Pending', queue', abortFlag')
  PROVE  Accounts'
<1> DEFINE n == Top(t).node
<1>1. /\ Cardinality(Pending'[nu]) = Len(Members(nu))
      /\ \A o, p \in Pending'[nu] : o.ichild = p.ichild => o = p
      /\ \A mu \in Nursery : mu # nu => Pending'[mu] = Pending[mu]
  BY NewPending
<1>2. n \in executing'
  BY InsideIsMarked
<1>3. Polls(nu, poll', Pending', queue', executing', abortFlag')
  <2>1. poll'[nu].count + Cardinality(Pending'[nu]) = poll'[nu].num
    BY <1>1, MembersAreNodes
  <2> QED BY <1>1, <1>2, <2>1 DEF Polls
<1>4. ASSUME NEW mu \in Nursery, mu[1] = n
      PROVE  /\ Polls(mu, poll', Pending', queue', executing', abortFlag')
             /\ poll[mu].abandon => poll'[mu].abandon
  <2>1. CASE mu # nu
    <3>1. Pending'[mu] = Pending[mu] /\ poll'[mu] = poll[mu]
          /\ (NoneQueued(queue, mu) => NoneQueued(queue', mu))
      BY <1>1, <2>1
    <3> QED BY <3>1, PollsHold, PollsKept
  <2>2. CASE mu = nu
    BY <1>3, <2>2
  <2> QED BY <2>1, <2>2
<1>5. ASSUME NEW mu \in Nursery, mu[1] # n
      PROVE  /\ Pending'[mu] = Pending[mu] /\ poll'[mu] = poll[mu]
             /\ NoneQueued(queue, mu) => NoneQueued(queue', mu)
             /\ mu[1] \notin executing' => mu[1] \notin executing
  <2>1. mu # nu
    BY <1>5
  <2> QED BY <1>1, <2>1
<1>6. UNCHANGED <<abortFlag, round>> /\ Stands(g, poll', Pending', queue', abortFlag')
  OBVIOUS
<1>7. Acts(stack, stack', {n}, g)
  OBVIOUS
<1> HIDE DEF n
<1> QED BY ONLY ZenonT(40), Inv, Accounts, Inv', <1>4, <1>5, <1>6, <1>7, OwnAccounts

LEMMA NewOrdersPlace ==
  ASSUME Inv, NEW t \in Thread, stack[t] # <<>>, NEW nu \in Nursery, nu[1] = Top(t).node,
         Multithreaded(nu), Free(nu, Top(t).depth + 1, Top(t).req) # {}
  PROVE  LET os == NewOrders(nu, Top(t).depth + 1, Top(t).req) IN
         /\ Places(os, nu, Top(t).req) /\ os \in Seq(Order) /\ os # <<>>
         /\ os[1] \in Order /\ DepthOf[os[1]] = Top(t).depth + 1
         /\ \A i \in 1..Len(os) : os[i].depth + Height[NodeOf(os[i])] <= MaxDepth
         /\ \A i \in 1..Len(os) : os[i].nursery = nu
<1> DEFINE f == Top(t)
           d == f.depth + 1
           os == NewOrders(nu, d, f.req)
<1>1. f \in Frame /\ f.node \in Node /\ f.depth \in Nat /\ f.req \in Request
  BY TopFacts
<1>2. Members(nu) # <<>> /\ Len(Members(nu)) \in Nat
  BY MembersAreNodes DEF Multithreaded
<1>3. /\ d \in 1..MaxDepth
      /\ \A i \in 1..Len(Members(nu)) :
           Members(nu)[i] \in Node /\ d + Height[Members(nu)[i]] <= MaxDepth
  BY <1>1, <1>2, ChildDepth
<1> HIDE DEF d
<1>4. /\ os \in Seq(Order) /\ os # <<>>
      /\ Len(os) = Len(Members(nu)) /\ 1 \in 1..Len(os)
      /\ \A i \in 1..Len(os) :
           /\ os[i] \in Order /\ os[i].nursery = nu /\ os[i].ichild = i
           /\ os[i].depth = d /\ os[i].req = f.req /\ DepthOf[os[i]] = d
           /\ NodeOf(os[i]) = Members(nu)[i]
  BY <1>1, <1>3, NewOrdersFacts DEF d
<1> HIDE DEF os
<1>5. Places(os, nu, f.req)
  BY <1>4 DEF Places
<1>6. \A i \in 1..Len(os) : os[i].depth + Height[NodeOf(os[i])] <= MaxDepth
  BY <1>3, <1>4
<1> QED BY <1>4, <1>5, <1>6 DEF os, d

\* syncPoll queues the orders, and may go on to execute the first of them.
LEMMA SyncPollPlaces ==
  ASSUME Inv, NEW t \in Thread, SyncPoll(t)
  PROVE  LET kn == Children(Top(t).node)
             os == NewOrders(kn, Top(t).depth + 1, Top(t).req)
         IN  \E pc \in {"help", "check"} :
               LET g == [Top(t) EXCEPT !.pc = pc] IN
               /\ \/ stack' = Changed(stack, t, g)
                  \/ \E c \in Frame : Begins(c) /\ stack' = Called(Changed(stack, t, g), t, c)
               /\ \A o \in Order : Outstanding(queue', stack', o) <=>
                                     Queued(os, o) \/ Outstanding(queue, stack, o)
               /\ \A mu \in Nursery : mu # kn /\ NoneQueued(queue, mu) => NoneQueued(queue', mu)
<1> DEFINE f == Top(t)
           n == f.node
           kn == Children(n)
           d == f.depth + 1
           os == NewOrders(kn, d, f.req)
           q == B!Placed(os)
           To(pc) == [f EXCEPT !.pc = pc]
           c == OrderCall(os[1])
<1>1. /\ stack[t] # <<>> /\ f.pc = "poll" /\ Multithreaded(kn) /\ Free(kn, d, f.req) # {}
      /\ B!PushAndTake(t, os)
      /\ IF B!Available(t, q, d) THEN GotoAndCall(t, "help", c) ELSE Goto(t, "check")
  BY DEF SyncPoll, At
<1>2. f \in Frame /\ n \in Node /\ kn \in Nursery /\ kn[1] = n
  BY <1>1, TopFacts, NurseriesOf
<1>3. /\ os \in Seq(Order) /\ os # <<>> /\ os[1] \in Order /\ DepthOf[os[1]] = d
      /\ \A i \in 1..Len(os) : os[i].depth + Height[NodeOf(os[i])] <= MaxDepth
      /\ \A i \in 1..Len(os) : os[i].nursery = kn
  BY <1>1, <1>2, NewOrdersPlace
<1> HIDE DEF os
<1>4. /\ q \in Seq(Order) /\ q # <<>> /\ Head(q) = os[1]
      /\ \A o : Queued(q, o) <=> Queued(os, o) \/ Queued(queue, o)
      /\ \A mu \in Nursery : mu # kn /\ NoneQueued(queue, mu) => NoneQueued(q, mu)
  <2>1. q \in Seq(Order) /\ q # <<>> /\ Head(q) = os[1]
    BY <1>3, PlacedFacts
  <2>2. \A o : Queued(q, o) <=> Queued(os, o) \/ Queued(queue, o)
    BY <1>3, PlacedOutstanding
  <2>3. ASSUME NEW mu \in Nursery, mu # kn, NoneQueued(queue, mu)
        PROVE  NoneQueued(q, mu)
    BY <1>3, <2>3, PlacedOutstanding
  <2> QED BY <2>1, <2>2, <2>3
<1> HIDE DEF q
<1>5. \A pc \in {"help", "check"} :
        To(pc) \in Frame /\ To(pc).order = f.order /\ To(pc).pc = pc
  BY <1>2 DEF Frame, PC
<1>6. CASE B!Available(t, q, d) /\ B!TakeHead(t, q)
  <2> DEFINE g == To("help")
             st1 == Changed(stack, t, g)
  <2>1. g \in Frame /\ g.order = f.order /\ g.pc = "help"
    BY <1>5
  <2>2. stack' = Called(st1, t, c)
    <3>1. GotoAndCall(t, "help", c)
      BY <1>1, <1>6
    <3> QED BY <3>1, CallIs
  <2>3. c \in Frame /\ c.pc = "enter" /\ c.order = os[1]
    <3>1. os[1].depth + Height[NodeOf(os[1])] <= MaxDepth
      <4>1. 1 \in 1..Len(os)
        BY <1>3
      <4> QED BY <1>3, <4>1
    <3> QED BY <1>3, <3>1, OrderCallFacts
  <2>4. Begins(c)
    BY <2>3 DEF Begins, OrderCall, Call
  <2> HIDE DEF g, c
  <2>5. queue' = Tail(q)
    BY <1>6, TakeHeadStates
  <2>6. (\A o : Carried(st1, o) <=> Carried(stack, o)) /\ st1 \in [Thread -> Seq(Frame)]
    BY <1>1, <1>2, <2>1, SameCarried
  <2>7. \E c2 \in Frame : Begins(c2) /\ stack' = Called(st1, t, c2)
    BY <2>2, <2>3, <2>4
  <2> HIDE DEF st1
  <2>8. ASSUME NEW o \in Order
        PROVE  Outstanding(queue', stack', o) <=>
                 Queued(os, o) \/ Outstanding(queue, stack, o)
    <3>1. Outstanding(Tail(q), Called(st1, t, c), o) <=> Outstanding(q, st1, o)
      BY <1>4, <2>3, <2>6, TakenOutstanding
    <3>2. Outstanding(q, st1, o) <=> Queued(os, o) \/ Outstanding(queue, stack, o)
      BY <1>4, <2>6 DEF Outstanding
    <3> QED BY <2>2, <2>5, <3>1, <3>2
  <2>9. ASSUME NEW mu \in Nursery, mu # kn, NoneQueued(queue, mu)
        PROVE  NoneQueued(queue', mu)
    BY <1>4, <2>5, <2>9, TakenQueue
  <2> QED BY <2>7, <2>8, <2>9 DEF g, st1, os
<1>7. CASE ~ B!Available(t, q, d) /\ queue' = q
  <2> DEFINE g == To("check")
  <2>1. g \in Frame /\ g.order = f.order /\ g.pc = "check"
    BY <1>5
  <2>2. stack' = Changed(stack, t, g)
    BY <1>1, <1>7 DEF Goto, Changed
  <2> HIDE DEF g
  <2>3. \A o : Carried(stack', o) <=> Carried(stack, o)
    BY <1>1, <2>1, <2>2, SameCarried
  <2>4. \A o \in Order : Outstanding(queue', stack', o) <=>
                           Queued(os, o) \/ Outstanding(queue, stack, o)
    BY <1>4, <1>7, <2>3 DEF Outstanding
  <2>5. \A mu \in Nursery : mu # kn /\ NoneQueued(queue, mu) => NoneQueued(queue', mu)
    BY <1>4, <1>7
  <2> QED BY <2>2, <2>4, <2>5 DEF g, os
<1> QED BY <1>1, <1>3, <1>6, <1>7 DEF B!PushAndTake, q

LEMMA SyncPollAccounts ==
  ASSUME Inv, Accounts, Inv', NEW t \in Thread, SyncPoll(t)
  PROVE  Accounts'
<1> DEFINE f == Top(t)
           n == f.node
           kn == Children(n)
           sn == StepChildren(n)
           d == f.depth + 1
           os == NewOrders(kn, d, f.req)
           To(pc) == [f EXCEPT !.pc = pc]
<1>1. /\ stack[t] # <<>> /\ f.pc = "poll" /\ Multithreaded(kn) /\ Free(kn, d, f.req) # {}
      /\ poll' = [poll EXCEPT ![kn] = FreshPoll(kn)]
      /\ UNCHANGED <<executing, results, control>>
  BY DEF SyncPoll, At
<1>2. /\ f \in Frame /\ n \in Node /\ kn \in Nursery /\ sn \in Nursery /\ kn # sn
      /\ kn[1] = n /\ sn[1] = n /\ Entered(f)
  BY <1>1, TopFacts, NurseriesOf DEF Entered, Children, StepChildren
<1>3. Places(os, kn, f.req)
  BY <1>1, <1>2, NewOrdersPlace
<1>4. \A pc \in {"help", "check"} :
        /\ To(pc) \in Frame /\ To(pc).order = f.order /\ To(pc).node = n
        /\ To(pc).req = f.req /\ To(pc).flags = f.flags /\ To(pc).pc = pc /\ Entered(To(pc))
  BY <1>2 DEF Frame, PC, Entered
<1>5. Stage(f, poll, Pending, queue, abortFlag) /\ (Aborted(f) => abortFlag)
  BY <1>1, <1>2, TopStands
<1>6. Pending[kn] = {} /\ Pending[sn] = {} /\ ~ poll[kn].abandon /\ ~ poll[sn].abandon
  BY <1>1, <1>5 DEF Stage, BeforeStep
<1>7. /\ \A mu \in Nursery : mu # kn => poll'[mu] = poll[mu]
      /\ poll'[kn] = FreshPoll(kn)
  BY <1>1, <1>2 DEF Inv, Typed
<1>8. /\ poll'[kn].mt /\ poll'[kn].on /\ ~ poll'[kn].abandon
      /\ poll'[kn].num = Len(Members(kn)) /\ poll'[kn].count = 0
      /\ ~ ("ABORT" \in poll'[kn].cumul)
  BY <1>7 DEF FreshPoll
<1>9. UNCHANGED <<executing, abortFlag, round>>
  BY <1>1 DEF control
<1>10. PICK pc \in {"help", "check"} :
         /\ \/ stack' = Changed(stack, t, To(pc))
            \/ \E c \in Frame : Begins(c) /\ stack' = Called(Changed(stack, t, To(pc)), t, c)
         /\ \A o \in Order : Outstanding(queue', stack', o) <=>
                               Queued(os, o) \/ Outstanding(queue, stack, o)
         /\ \A mu \in Nursery : mu # kn /\ NoneQueued(queue, mu) => NoneQueued(queue', mu)
  BY SyncPollPlaces
<1> HIDE DEF os
<1>11. /\ \A o \in Pending'[kn] : o.req = f.req
       /\ Pending'[sn] = Pending[sn]
  BY <1>2, <1>3, <1>6, <1>10, NewPending
<1> DEFINE g == To(pc)
<1>12. /\ g \in Frame /\ g.node = n /\ g.req = f.req /\ g.flags = f.flags /\ Entered(g)
       /\ g.pc \in {"help", "check"}
  BY <1>4
<1>13. \/ stack' = Changed(stack, t, g)
       \/ \E c \in Frame : Begins(c) /\ stack' = Called(Changed(stack, t, g), t, c)
  BY <1>10
<1> HIDE DEF g
<1>14. Stands(g, poll', Pending', queue', abortFlag')
  <2>1. poll'[sn] = poll[sn]
    BY <1>2, <1>7
  <2>2. \A o \in Pending'[kn] \cup Pending'[sn] : o.req = g.req
    BY <1>6, <1>11, <1>12
  <2>3. Stage(g, poll', Pending', queue', abortFlag')
    BY <1>6, <1>11, <1>12, <2>1, <2>2 DEF Stage, BeforeStep, AfterPoll, Leaving
  <2> QED BY <1>5, <1>9, <1>12, <2>3 DEF Stands, Aborted
<1>15. Acts(stack, stack', {n}, g)
  <2>1. CASE stack' = Changed(stack, t, g)
    <3>1. Acts(stack, stack', IF Entered(f) THEN {n} ELSE {}, g)
      BY <1>1, <1>12, <2>1, ChangedActs
    <3> QED BY <1>2, <3>1
  <2>2. CASE \E c \in Frame : Begins(c) /\ stack' = Called(Changed(stack, t, g), t, c)
    BY <1>1, <1>2, <1>12, <2>2, CalledActs
  <2> QED BY <1>13, <2>1, <2>2
<1> QED BY <1>1, <1>2, <1>3, <1>6, <1>7, <1>8, <1>9, <1>10, <1>12, <1>14, <1>15, NewPollAccounts

LEMMA BackgroundPollAccounts ==
  ASSUME Inv, Accounts, Inv', NEW t \in Thread, BackgroundPoll(t)
  PROVE  Accounts'
<1> DEFINE f == Top(t)
           n == f.node
           kn == Children(n)
           sn == StepChildren(n)
           d == f.depth + 1
           os == NewOrders(sn, d, f.req)
           q == B!Placed(os)
           g == [f EXCEPT !.pc = "evaluate"]
<1>1. /\ stack[t] # <<>> /\ f.pc = "step" /\ Multithreaded(sn) /\ Free(sn, d, f.req) # {}
      /\ poll' = [poll EXCEPT ![sn] = [@ EXCEPT !.mt = TRUE, !.on = TRUE,
                                               !.num = Len(Members(sn)), !.count = 0]]
      /\ queue' = q /\ stack' = Changed(stack, t, g)
      /\ UNCHANGED <<executing, results, control>>
  BY DEF BackgroundPoll, At, Goto, Changed, B!PushAndAwaken
<1>2. /\ f \in Frame /\ n \in Node /\ kn \in Nursery /\ sn \in Nursery /\ kn # sn
      /\ kn[1] = n /\ sn[1] = n /\ Entered(f)
  BY <1>1, TopFacts, NurseriesOf DEF Entered, Children, StepChildren
<1>3. /\ Places(os, sn, f.req) /\ os \in Seq(Order) /\ os # <<>>
      /\ \A i \in 1..Len(os) : os[i].depth + Height[NodeOf(os[i])] <= MaxDepth
      /\ \A i \in 1..Len(os) : os[i].nursery = sn
  BY <1>1, <1>2, NewOrdersPlace
<1> HIDE DEF os
<1>4. /\ \A o : Queued(q, o) <=> Queued(os, o) \/ Queued(queue, o)
      /\ \A mu \in Nursery : mu # sn /\ NoneQueued(queue, mu) => NoneQueued(q, mu)
  <2>1. \A o : Queued(q, o) <=> Queued(os, o) \/ Queued(queue, o)
    BY <1>3, PlacedOutstanding
  <2>2. ASSUME NEW mu \in Nursery, mu # sn, NoneQueued(queue, mu)
        PROVE  NoneQueued(q, mu)
    BY <1>3, <2>2, PlacedOutstanding
  <2> QED BY <2>1, <2>2
<1> HIDE DEF q
<1>5. /\ g \in Frame /\ g.order = f.order /\ g.node = n /\ g.req = f.req
      /\ g.flags = f.flags /\ g.pc = "evaluate" /\ Entered(g)
  BY <1>2 DEF Frame, PC, Entered
<1>6. Stage(f, poll, Pending, queue, abortFlag) /\ (Aborted(f) => abortFlag)
  BY <1>1, <1>2, TopStands
<1>7. /\ Pending[sn] = {} /\ ~ poll[sn].abandon /\ (~ Aborted(f) => Pending[kn] = {})
      /\ \A o \in Pending[kn] : o.req = f.req
  BY <1>1, <1>6 DEF Stage, BeforeStep, AfterPoll
<1>8. /\ \A mu \in Nursery : mu # sn => poll'[mu] = poll[mu]
      /\ poll'[sn].mt /\ poll'[sn].on /\ poll'[sn].abandon = poll[sn].abandon
      /\ poll'[sn].num = Len(Members(sn)) /\ poll'[sn].count = 0
      /\ poll'[sn].cumul = poll[sn].cumul
  <2>1. poll \in [Nursery -> PollState]
    BY DEF Inv, Typed
  <2> HIDE DEF sn
  <2> QED BY <1>1, <1>2, <2>1 DEF PollState
<1>9. "ABORT" \in poll'[sn].cumul => abortFlag
  BY <1>2, <1>8, PollsHold DEF Polls
<1>10. UNCHANGED <<executing, abortFlag, round>>
  BY <1>1 DEF control
<1> HIDE DEF g
<1>11. Acts(stack, stack', {n}, g)
  <2>1. Acts(stack, stack', IF Entered(f) THEN {n} ELSE {}, g)
    BY <1>1, <1>5, ChangedActs
  <2> QED BY <1>2, <2>1
<1>12. \A o : Carried(stack', o) <=> Carried(stack, o)
  <2>1. g.pc \notin {"clear", "finish"} <=> f.pc \notin {"clear", "finish"}
    BY <1>1, <1>5
  <2> QED BY <1>1, <1>5, <2>1, SameCarried
<1>13. \A o \in Order : Outstanding(queue', stack', o) <=>
                          Queued(os, o) \/ Outstanding(queue, stack, o)
  BY <1>1, <1>4, <1>12 DEF Outstanding
<1>14. /\ \A o \in Pending'[sn] : o.req = f.req
       /\ Pending'[kn] = Pending[kn]
  BY <1>2, <1>3, <1>7, <1>13, NewPending
<1>15. Stands(g, poll', Pending', queue', abortFlag')
  <2>1. \A o \in Pending'[kn] \cup Pending'[sn] : o.req = g.req
    BY <1>5, <1>7, <1>14
  <2>2. ~ poll'[sn].abandon /\ (~ Aborted(g) => Pending'[kn] = {})
    BY <1>5, <1>7, <1>8, <1>14 DEF Aborted
  <2>3. Stage(g, poll', Pending', queue', abortFlag')
    BY <1>5, <2>1, <2>2 DEF Stage, BeforeStep, AfterPoll, Leaving
  <2> QED BY <1>5, <1>6, <1>10, <2>3 DEF Stands, Aborted
<1>16. \A mu \in Nursery : mu # sn /\ NoneQueued(queue, mu) => NoneQueued(queue', mu)
  BY <1>1, <1>4
<1> QED BY <1>1, <1>2, <1>3, <1>5, <1>7, <1>8, <1>9, <1>10, <1>11, <1>13, <1>15, <1>16, NewPollAccounts

-----------------------------------------------------------------------------
(* Together.                                                                *)

LEMMA InitAccounts == Init => Accounts
<1> SUFFICES ASSUME Init
    PROVE  Accounts
  OBVIOUS
<1>1. /\ queue = <<>> /\ stack = [t \in Thread |-> <<>>] /\ executing = {}
      /\ poll = [nu \in Nursery |-> IdlePoll] /\ abortFlag = FALSE
  BY DEF Init, B!Init
<1>2. \A t \in Thread : stack[t] = <<>> /\ Len(stack[t]) = 0
  BY <1>1
<1>3. \A o : ~ Queued(queue, o) /\ ~ Carried(stack, o)
  BY <1>1, <1>2 DEF Queued, Carried
<1>4. \A nu \in Nursery : Pending[nu] = {}
  BY <1>3 DEF Pending
<1>5. \A nu \in Nursery : poll[nu].mt = FALSE /\ poll[nu].abandon = FALSE /\ poll[nu].cumul = {}
  BY <1>1 DEF IdlePoll
<1>6. \A nu \in Nursery : NoneQueued(queue, nu)
  BY <1>1 DEF NoneQueued
<1>7. ASSUME NEW nu \in Nursery
      PROVE  Polls(nu, poll, Pending, queue, executing, abortFlag)
  BY <1>4, <1>5, <1>6 DEF Polls
<1>8. \A t \in Thread : \A i \in 1..Len(stack[t]) :
        Stands(stack[t][i], poll, Pending, queue, abortFlag)
  BY <1>2
<1> QED BY <1>1, <1>7, <1>8 DEF Accounts

LEMMA ThreadAccounts ==
  ASSUME Undisturbed, Inv, Accounts, Inv', NEW t \in Thread, ThreadStep(t)
  PROVE  Accounts'
<1>1. CASE Join(t) \/ WorkerSleeps(t)
  BY <1>1, JoinAccounts
<1>2. CASE WorkerTakes(t)
  BY <1>2, WorkerTakesAccounts
<1>3. CASE NextRequest(t)
  BY <1>3, NextRequestAccounts
<1>4. CASE Enter(t)
  BY <1>4, EnterAccounts
<1>5. CASE SyncPoll(t)
  BY <1>5, SyncPollAccounts
<1>6. CASE SyncPollSerially(t)
  BY <1>6, SyncPollSeriallyAccounts
<1>7. CASE HelpYourself(t)
  BY <1>7, HelpYourselfAccounts
<1>8. CASE CheckPoll(t)
  BY <1>8, CheckPollAccounts
<1>9. CASE Polled(t)
  BY <1>9, PolledAccounts
<1>10. CASE BackgroundPoll(t)
  BY <1>10, BackgroundPollAccounts
<1>11. CASE BackgroundPollSerially(t)
  BY <1>11, BackgroundPollSeriallyAccounts
<1>12. CASE Evaluate(t)
  BY <1>12, EvaluateAccounts
<1>13. CASE EvaluateAborted(t)
  BY <1>13, EvaluateAbortedAccounts
<1>14. CASE AbortChildren(t)
  BY <1>14, AbortChildrenAccounts
<1>15. CASE AbortStepChildren(t)
  BY <1>15, AbortStepChildrenAccounts
<1>16. CASE WaitForEndOfPoll(t)
  BY <1>16, WaitForEndOfPollAccounts
<1>17. CASE ReturnToOrder(t)
  BY <1>17, ReturnToOrderAccounts
<1>18. CASE ReturnToPoll(t)
  BY <1>18, ReturnToPollAccounts
<1>19. CASE ReturnToBackgroundPoll(t)
  BY <1>19, ReturnToBackgroundPollAccounts
<1>20. CASE Answer(t)
  BY <1>20, AnswerAccounts
<1>21. CASE SyncResultDropped(t)
  BY <1>21, SyncResultDroppedAccounts
<1>22. CASE ReceiveSyncResult(t)
  BY <1>22, ReceiveSyncResultAccounts
<1>23. CASE ClearAbandoned(t)
  BY <1>23, ClearAbandonedAccounts
<1>24. CASE LookAtBackgroundPoll(t)
  BY <1>24, LookAtBackgroundPollAccounts
<1>25. CASE ReceiveBackgroundResult(t)
  BY <1>25, ReceiveBackgroundResultAccounts
<1>26. CASE FinishOrder(t)
  BY <1>26, FinishOrderAccounts
<1> QED BY <1>1, <1>2, <1>3, <1>4, <1>5, <1>6, <1>7, <1>8, <1>9, <1>10, <1>11, <1>12,
           <1>13, <1>14, <1>15, <1>16, <1>17, <1>18, <1>19, <1>20, <1>21, <1>22,
           <1>23, <1>24, <1>25, <1>26 DEF ThreadStep, ExecStep

LEMMA NextAccounts == Undisturbed /\ Inv /\ Accounts /\ [Next]_vars => Accounts'
<1> SUFFICES ASSUME Undisturbed, Inv, Accounts, [Next]_vars
    PROVE  Accounts'
  OBVIOUS
<1>1. Inv'
  BY NextInv
<1>2. CASE \E t \in Thread : ThreadStep(t)
  BY <1>1, <1>2, ThreadAccounts
<1>3. CASE RaiseAbort
  BY <1>1, <1>3, RaiseAbortAccounts
<1>4. CASE UNCHANGED vars
  BY <1>4, SameAccounts DEF vars, pool
<1>5. CASE NoMoreRequests
  BY <1>4, <1>5 DEF NoMoreRequests
<1> QED BY <1>2, <1>3, <1>4, <1>5 DEF Next

LEMMA AccountsHold == Undisturbed => (Spec => []Inv /\ []Accounts)
<1> SUFFICES ASSUME Undisturbed
    PROVE  Spec => []Inv /\ []Accounts
  OBVIOUS
<1>1. Init => Inv /\ Accounts
  BY InitInv, InitAccounts
<1>2. Inv /\ Accounts /\ [Next]_vars => Inv' /\ Accounts'
  BY NextInv, NextAccounts
<1> QED BY <1>1, <1>2, PTL DEF Spec

-----------------------------------------------------------------------------
\* An order on the queue belongs to a node that has not left execute() yet: when a
\* node returns, its orders have been taken, or exitAbort() has cleared them from
\* the queue, so no thread takes an order of a poll that is over.
THEOREM OrdersBelongToANode == Undisturbed => (Spec => []NoOrphanOrders)
<1> SUFFICES ASSUME Undisturbed
    PROVE  Spec => []NoOrphanOrders
  OBVIOUS
<1>1. ASSUME Inv, Accounts
      PROVE  NoOrphanOrders
  <2> SUFFICES ASSUME NEW i \in 1..Len(queue), queue[i].nursery[1] \notin executing
      PROVE  FALSE
    BY DEF NoOrphanOrders
  <2>1. queue[i] \in Order
    BY <1>1, PoolFacts
  <2>2. queue[i].nursery \in Nursery
    BY <2>1, OrderFacts
  <2>3. NoneQueued(queue, queue[i].nursery)
    BY <1>1, <2>2, PollsHold DEF Polls
  <2> QED BY <2>3 DEF NoneQueued
<1> QED BY <1>1, AccountsHold, PTL

\* finishPoll() waits for what it says (NodeNursery.h): a node that is not aborted
\* leaves execute() when every order it placed has been executed and its result
\* dropped off; none is on the queue and no thread is still inside of one.
THEOREM NodesWaitForTheirOrders == Undisturbed => (Spec => []NoOrderOutlivesItsPoll)
<1> SUFFICES ASSUME Undisturbed
    PROVE  Spec => []NoOrderOutlivesItsPoll
  OBVIOUS
<1>1. ASSUME Inv, Accounts
      PROVE  NoOrderOutlivesItsPoll
  <2> SUFFICES ASSUME NEW t \in Thread, At(t, "exit"), "ABORT" \notin Top(t).flags
      PROVE  /\ \A i \in 1..Len(queue) : queue[i].nursery[1] # Top(t).node
             /\ \A x \in Frames :
                  FrameAt(x).order # NoOrder /\ FrameAt(x).pc \notin {"clear", "finish"}
                    => FrameAt(x).order.nursery[1] # Top(t).node
    BY DEF NoOrderOutlivesItsPoll
  <2>1. stack[t] # <<>> /\ Top(t).pc = "exit" /\ ~ Aborted(Top(t)) /\ Entered(Top(t))
    BY DEF At, Aborted, Entered
  <2>2. Stage(Top(t), poll, Pending, queue, abortFlag)
    BY <1>1, <2>1, TopStands
  <2>3. Pending[Children(Top(t).node)] = {} /\ Pending[StepChildren(Top(t).node)] = {}
    BY <2>1, <2>2 DEF Stage, AfterPoll
  <2>4. ASSUME NEW o \in Order, Queued(queue, o) \/ Carried(stack, o)
        PROVE  o.nursery[1] # Top(t).node
    <3>1. o.nursery \in Nursery
      BY OrderFacts
    <3>2. o \in Pending[o.nursery]
      BY <2>4, <3>1 DEF Pending
    <3> QED BY <2>3, <3>1, <3>2, NurseryIs
  <2>5. ASSUME NEW i \in 1..Len(queue)
        PROVE  queue[i].nursery[1] # Top(t).node
    <3>1. queue[i] \in Order /\ Queued(queue, queue[i])
      BY <1>1, PoolFacts DEF Queued
    <3> QED BY <2>4, <3>1
  <2>6. ASSUME NEW x \in Frames, FrameAt(x).order # NoOrder,
               FrameAt(x).pc \notin {"clear", "finish"}
        PROVE  FrameAt(x).order.nursery[1] # Top(t).node
    <3>1. PICK u \in Thread : \E j \in 1..Len(stack[u]) : x = <<u, j>>
      BY DEF Frames
    <3>2. PICK j \in 1..Len(stack[u]) : x = <<u, j>>
      BY <3>1
    <3>3. FrameAt(x) = stack[u][j]
      BY <3>2 DEF FrameAt
    <3>4. stack[u][j].order \in Order
      BY <1>1, <2>6, <3>3, FrameFacts
    <3>5. Carries(stack[u][j], stack[u][j].order)
      BY <2>6, <3>3 DEF Carries
    <3>6. Carried(stack, stack[u][j].order)
      BY <3>5 DEF Carried
    <3> QED BY <2>4, <3>3, <3>4, <3>6
  <2> QED BY <2>5, <2>6
<1> QED BY <1>1, AccountsHold, PTL
=============================================================================
