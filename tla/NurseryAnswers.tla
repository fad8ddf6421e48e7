--------------------------- MODULE NurseryAnswers ---------------------------
(***************************************************************************)
(* What the nodes answer, proved from the accounts of NurseryOrders: a     *)
(* poll collects the results of its own request, and whatever thread runs  *)
(* whatever node, the root's code is the one of a serial evaluation.       *)
(***************************************************************************)
EXTENDS NurseryOrders, WellFoundedInduction

-----------------------------------------------------------------------------
(* The codes of a serial evaluation: SerialCodes is defined by recursion    *)
(* over the forest, and the forest has no cycles, so that the equation it   *)
(* is defined by has a solution.                                            *)

Code(v, n, r) == SerialCodes(v, r)[n]

\* What the children's codes leave of a node's own, before getResult.
Below(v, n, r) == (UNION {Code(v, Kids[n][i], r) : i \in 1..Len(Kids[n])}) \ Ignored(n)

\* One application of the equation to the codes c.
Step(c, v, r, n) ==
  LET below == (UNION {c[Kids[n][i]] : i \in 1..Len(Kids[n])}) \ Ignored(n)
  IN  IF below = {} THEN v[n][r] ELSE below

AreCodes(c, v, r) == c = [n \in Node |-> Step(c, v, r, n)]

\* The codes c are right for the nodes of less than height h.
RightBelow(c, v, r, h) == \A n \in Node : Height[n] < h => c[n] = Step(c, v, r, n)

LEMMA Least ==
  ASSUME NEW S \in SUBSET Nat, S # {}
  PROVE  \E x \in S : \A y \in S : x <= y
<1> DEFINE R == {ss \in Nat \X Nat : ss[1] < ss[2]}
<1>1. IsWellFoundedOn(R, Nat)
  BY NatLessThanWellFounded DEF OpToRel
<1> HIDE DEF R
<1>2. PICK x \in S : \A y \in S : ~ (<<y, x>> \in R)
  BY <1>1, WFMin
<1>3. ASSUME NEW y \in S
      PROVE  x <= y
  <2>1. <<y, x>> \notin R
    BY <1>2
  <2>2. x \in Nat /\ y \in Nat
    OBVIOUS
  <2> QED BY <2>1, <2>2 DEF R
<1> QED BY <1>3

\* Codes that are right below h are made right at h.
LEMMA OneHigher ==
  ASSUME NEW v, NEW r, NEW h \in Nat, NEW c, RightBelow(c, v, r, h)
  PROVE  RightBelow([n \in Node |-> Step(c, v, r, n)], v, r, h + 1)
<1> DEFINE c2 == [n \in Node |-> Step(c, v, r, n)]
<1>1. ASSUME NEW n \in Node, Height[n] < h + 1
      PROVE  c2[n] = Step(c2, v, r, n)
  <2>1. ASSUME NEW i \in 1..Len(Kids[n])
        PROVE  c2[Kids[n][i]] = c[Kids[n][i]]
    <3>1. Kids[n][i] \in Node /\ Height[Kids[n][i]] < Height[n]
      <4>1. /\ Children(n) \in Nursery /\ Children(n)[1] = n /\ Members(Children(n)) = Kids[n]
        BY NurseriesOf
      <4>2. Members(Children(n))[i] \in Node
        BY <4>1, MembersAreNodes
      <4> QED BY <4>1, <4>2, HeightDecreases
    <3>2. Height[Kids[n][i]] \in Nat /\ Height[n] \in Nat
      BY <3>1, HeightDecreases
    <3>3. Height[Kids[n][i]] < h
      BY <1>1, <3>1, <3>2
    <3>4. c[Kids[n][i]] = Step(c, v, r, Kids[n][i])
      BY <3>1, <3>3 DEF RightBelow
    <3> QED BY <3>1, <3>4
  <2>2. {c2[Kids[n][i]] : i \in 1..Len(Kids[n])} = {c[Kids[n][i]] : i \in 1..Len(Kids[n])}
    BY ZenonT(40), <2>1
  <2>3. Step(c2, v, r, n) = Step(c, v, r, n)
    <3> HIDE DEF c2
    <3> QED BY <2>2 DEF Step
  <2>4. c2[n] = Step(c, v, r, n)
    OBVIOUS
  <2> QED BY <2>3, <2>4
<1> HIDE DEF c2
<1>2. RightBelow(c2, v, r, h + 1)
  BY <1>1 DEF RightBelow
<1> QED BY <1>2 DEF c2

\* There are codes that are right for all nodes,
LEMMA CodesExist ==
  ASSUME NEW v, NEW r
  PROVE  \E c : AreCodes(c, v, r)
<1> DEFINE Wrong == {h \in Nat : ~ \E c : RightBelow(c, v, r, h)}
<1>1. Wrong = {}
  <2> SUFFICES ASSUME Wrong # {}
      PROVE  FALSE
    OBVIOUS
  <2>1. PICK h \in Wrong : \A k \in Wrong : h <= k
    <3>1. Wrong \in SUBSET Nat
      OBVIOUS
    <3> HIDE DEF Wrong
    <3> QED BY <3>1, Least
  <2>2. h # 0
    <3>1. RightBelow([n \in Node |-> {}], v, r, 0)
      <4>1. \A n \in Node : Height[n] \in Nat
        BY HeightDecreases
      <4> QED BY <4>1 DEF RightBelow
    <3> QED BY <3>1
  <2>3. h - 1 \in Nat /\ h - 1 \notin Wrong
    <3>1. h \in Nat
      OBVIOUS
    <3>2. ~ (h <= h - 1)
      BY <3>1
    <3> QED BY <2>1, <2>2, <3>1, <3>2
  <2>4. PICK c : RightBelow(c, v, r, h - 1)
    BY <2>3
  <2>5. RightBelow([n \in Node |-> Step(c, v, r, n)], v, r, h - 1 + 1)
    BY <2>3, <2>4, OneHigher
  <2>6. h - 1 + 1 = h
    OBVIOUS
  <2> QED BY <2>5, <2>6
<1>2. MaxDepth \in Nat /\ MaxDepth + 1 \in Nat
  BY PoolAssumption DEF B!LimitAssumption
<1>3. PICK c : RightBelow(c, v, r, MaxDepth + 1)
  BY <1>1, <1>2
<1>4. \A n \in Node : Height[n] < MaxDepth + 1
  <2>1. \A n \in Node : Height[n] \in 0..MaxDepth
    BY HeightDecreases
  <2> QED BY <1>2, <2>1
<1>5. \A n \in Node : c[n] = Step(c, v, r, n)
  BY <1>3, <1>4 DEF RightBelow
<1> DEFINE c2 == [n \in Node |-> Step(c, v, r, n)]
<1>6. ASSUME NEW n \in Node
      PROVE  Step(c2, v, r, n) = Step(c, v, r, n)
  <2>1. \A i \in 1..Len(Kids[n]) : Kids[n][i] \in Node
    BY NurseriesOf, MembersAreNodes
  <2>2. \A m \in Node : c2[m] = c[m]
    BY <1>5
  <2> HIDE DEF c2
  <2>3. {c2[Kids[n][i]] : i \in 1..Len(Kids[n])} = {c[Kids[n][i]] : i \in 1..Len(Kids[n])}
    BY <2>1, <2>2
  <2> QED BY <2>3 DEF Step
<1>7. c2 = [n \in Node |-> Step(c2, v, r, n)]
  BY <1>6
<1> HIDE DEF c2
<1>8. AreCodes(c2, v, r)
  BY <1>7 DEF AreCodes
<1> QED BY <1>8

\* and SerialCodes are.
LEMMA CodesAre ==
  ASSUME NEW v, NEW r
  PROVE  AreCodes(SerialCodes(v, r), v, r)
<1>1. \E c : AreCodes(c, v, r)
  BY CodesExist
<1>2. AreCodes(CHOOSE c : AreCodes(c, v, r), v, r)
  BY <1>1
<1>3. SerialCodes(v, r) = CHOOSE c : AreCodes(c, v, r)
  BY DEF SerialCodes, Step, AreCodes
<1> QED BY <1>2, <1>3

\* The code of a node in terms of its children's.
LEMMA CodeIs ==
  ASSUME NEW v, NEW r, NEW n \in Node
  PROVE  Code(v, n, r) = IF Below(v, n, r) = {} THEN v[n][r] ELSE Below(v, n, r)
<1> DEFINE c == SerialCodes(v, r)
<1>1. c = [m \in Node |-> Step(c, v, r, m)]
  BY CodesAre DEF AreCodes
<1> HIDE DEF c
<1>2. c[n] = Step(c, v, r, n)
  BY <1>1
<1>3. Step(c, v, r, n) =
        LET below == (UNION {c[Kids[n][i]] : i \in 1..Len(Kids[n])}) \ Ignored(n)
        IN  IF below = {} THEN v[n][r] ELSE below
  BY DEF Step
<1> QED BY <1>2, <1>3 DEF Code, Below, c

-----------------------------------------------------------------------------
(* The invariant.                                                           *)

Collecting == {"serial", "help", "check", "asleep", "polled"}

\* The children whose results the poll of frame f has,
Done(f, pd) ==
  IF f.pc = "serial" THEN 1..(f.index - 1)
  ELSE {i \in 1..Len(Kids[f.node]) : \A o \in pd[Children(f.node)] : o.ichild # i}

\* and what it has from the children D: results of its request, and their codes.
Collected(f, D, res, pl, v) ==
  /\ \A i \in D : res[f.node][i].req = f.req
  /\ pl[Children(f.node)].cumul = UNION {Code(v, Kids[f.node][i], f.req) : i \in D}

\* What a frame has of the serial evaluation, where its node's execution stands.
Gathered(f, res, pl, pd, v, ab) ==
  /\ f.pc \in Collecting /\ ~ ab => Collected(f, Done(f, pd), res, pl, v)
  /\ f.pc \in {"step", "stepserial", "evaluate"} /\ ~ ab => f.flags = Below(v, f.node, f.req)
  /\ f.pc \in Leaving \cup {"deliver", "dropoff"} =>
       Aborted(f) \/ f.flags = Code(v, f.node, f.req)

Gathers == \A t \in Thread : \A i \in 1..Len(stack[t]) :
  Gathered(stack[t][i], results, poll, Pending, verdict, abortFlag)

\* A serial poll calls the child whose turn it is for its own request,
CallsItsChild(f, c) ==
  f.pc = "serial" => c.node = Kids[f.node][f.index] /\ c.req = f.req

SerialCalls(st) == \A t \in Thread : \A i, j \in 1..Len(st[t]) :
  j = i + 1 => CallsItsChild(st[t][i], st[t][j])

\* and the execution thread executes the root for the last request.
Asked(st, ans, rd) == \A t \in Joiner :
  IF st[t] = <<>> THEN Len(ans) = rd
  ELSE /\ Len(ans) + 1 = rd
       /\ st[t][1].node = Root /\ st[t][1].req = rd /\ st[t][1].order = NoOrder

Answering ==
  Gathers /\ SerialCalls(stack) /\ Asked(stack, answers, round) /\ AnswersAreSerial

-----------------------------------------------------------------------------
(* How the parts of the invariant are kept.                                 *)

\* What the poll of a node has collected is as before, or does not matter any more.
Untouched(n) ==
  \/ abortFlag'
  \/ /\ results'[n] = results[n]
     /\ poll'[Children(n)].cumul = poll[Children(n)].cumul
     /\ Pending'[Children(n)] = Pending[Children(n)]

LEMMA GatheredKept ==
  ASSUME NEW f, Gathered(f, results, poll, Pending, verdict, abortFlag),
         abortFlag => abortFlag', verdict' = verdict,
         f.pc \in Collecting => Untouched(f.node)
  PROVE  Gathered(f, results', poll', Pending', verdict', abortFlag')
<1>1. ASSUME f.pc \in Collecting, ~ abortFlag'
      PROVE  Collected(f, Done(f, Pending'), results', poll', verdict')
  <2>1. Collected(f, Done(f, Pending), results, poll, verdict)
    BY <1>1 DEF Gathered
  <2>2. Done(f, Pending') = Done(f, Pending)
    BY <1>1 DEF Done, Untouched
  <2> QED BY <1>1, <2>1, <2>2 DEF Collected, Untouched
<1> QED BY <1>1 DEF Gathered

LEMMA GathersKept ==
  ASSUME Inv, Gathers, NEW N, NEW g, Acts(stack, stack', N, g),
         abortFlag => abortFlag', verdict' = verdict,
         \A n \in Node : n \in N \/ Untouched(n),
         Gathered(g, results', poll', Pending', verdict', abortFlag')
  PROVE  Gathers'
<1>1. ASSUME NEW u \in Thread, NEW j \in 1..Len(stack'[u])
      PROVE  Gathered(stack'[u][j], results', poll', Pending', verdict', abortFlag')
  <2>1. CASE /\ j \in 1..Len(stack[u]) /\ stack'[u][j] = stack[u][j]
             /\ Entered(stack[u][j]) => stack[u][j].node \notin N
    <3>1. Gathered(stack[u][j], results, poll, Pending, verdict, abortFlag)
      BY <2>1 DEF Gathers
    <3>2. stack[u][j].pc \in Collecting => Untouched(stack[u][j].node)
      BY <2>1, FrameFacts DEF Collecting, Entered
    <3> QED BY <2>1, <3>1, <3>2, GatheredKept
  <2>2. CASE stack'[u][j] = g
    BY <2>2
  <2>3. CASE Begins(stack'[u][j])
    BY <2>3 DEF Begins, Gathered, Collecting, Leaving
  <2> QED BY <2>1, <2>2, <2>3 DEF Acts
<1> QED BY <1>1 DEF Gathers

\* The frame goes on with the same call.
SameCall(f, g) == g.node = f.node /\ g.req = f.req /\ g.order = f.order

LEMMA LinksKept ==
  ASSUME NEW st \in [Thread -> Seq(Frame)], NEW s2 \in [Thread -> Seq(Frame)],
         \A u \in Thread : Len(s2[u]) = Len(st[u]),
         \A u \in Thread : \A j \in 1..Len(st[u]) :
           /\ SameCall(st[u][j], s2[u][j])
           /\ j < Len(st[u]) /\ s2[u][j].pc = "serial" =>
                st[u][j].pc = "serial" /\ s2[u][j].index = st[u][j].index
  PROVE  /\ SerialCalls(st) => SerialCalls(s2)
         /\ Joiner \subseteq Thread => \A ans, rd : Asked(st, ans, rd) => Asked(s2, ans, rd)
<1>1. ASSUME SerialCalls(st), NEW u \in Thread, NEW i \in 1..Len(s2[u]), NEW j \in 1..Len(s2[u]),
             j = i + 1, s2[u][i].pc = "serial"
      PROVE  s2[u][j].node = Kids[s2[u][i].node][s2[u][i].index] /\ s2[u][j].req = s2[u][i].req
  <2>1. i \in 1..Len(st[u]) /\ j \in 1..Len(st[u]) /\ Len(st[u]) \in Nat
    <3>1. st[u] \in Seq(Frame)
      OBVIOUS
    <3> QED BY <3>1
  <2>2. i < Len(st[u])
    BY <1>1, <2>1
  <2>3. SameCall(st[u][i], s2[u][i]) /\ SameCall(st[u][j], s2[u][j])
        /\ st[u][i].pc = "serial" /\ s2[u][i].index = st[u][i].index
    BY <1>1, <2>1, <2>2
  <2>4. CallsItsChild(st[u][i], st[u][j])
    BY <1>1, <2>1 DEF SerialCalls
  <2> QED BY <2>3, <2>4 DEF SameCall, CallsItsChild
<1>2. ASSUME Joiner \subseteq Thread, NEW ans, NEW rd, Asked(st, ans, rd), NEW t \in Joiner
      PROVE  IF s2[t] = <<>> THEN Len(ans) = rd
             ELSE /\ Len(ans) + 1 = rd
                  /\ s2[t][1].node = Root /\ s2[t][1].req = rd /\ s2[t][1].order = NoOrder
  <2>1. st[t] \in Seq(Frame) /\ s2[t] \in Seq(Frame) /\ Len(s2[t]) = Len(st[t])
    BY <1>2
  <2>2. CASE st[t] = <<>>
    BY <1>2, <2>1, <2>2 DEF Asked
  <2>3. CASE st[t] # <<>>
    <3>1. s2[t] # <<>> /\ 1 \in 1..Len(st[t])
      BY <2>1, <2>3
    <3>2. SameCall(st[t][1], s2[t][1])
      BY <1>2, <3>1
    <3> QED BY <1>2, <2>3, <3>1, <3>2 DEF Asked, SameCall
  <2> QED BY <2>2, <2>3
<1>3. SerialCalls(st) => SerialCalls(s2)
  BY <1>1 DEF SerialCalls, CallsItsChild
<1>4. Joiner \subseteq Thread => \A ans, rd : Asked(st, ans, rd) => Asked(s2, ans, rd)
  BY <1>2 DEF Asked
<1> QED BY <1>3, <1>4

LEMMA ChangedLinks ==
  ASSUME NEW st \in [Thread -> Seq(Frame)], NEW t \in Thread, st[t] # <<>>, NEW f \in Frame,
         SameCall(Last(st[t]), f)
  PROVE  LET s2 == Changed(st, t, f) IN
         /\ SerialCalls(st) => SerialCalls(s2)
         /\ Joiner \subseteq Thread => \A ans, rd : Asked(st, ans, rd) => Asked(s2, ans, rd)
<1> DEFINE s2 == Changed(st, t, f)
<1>1. /\ s2 \in [Thread -> Seq(Frame)]
      /\ \A u \in Thread : Len(s2[u]) = Len(st[u])
      /\ s2[t][Len(st[t])] = f
      /\ \A u \in Thread : \A j \in 1..Len(st[u]) :
           ~ (u = t /\ j = Len(st[t])) => s2[u][j] = st[u][j]
      /\ Len(st[t]) \in 1..Len(st[t]) /\ Last(st[t]) = st[t][Len(st[t])]
  BY ChangedFrames
<1> HIDE DEF s2
<1>2. ASSUME NEW u \in Thread, NEW j \in 1..Len(st[u])
      PROVE  /\ SameCall(st[u][j], s2[u][j])
             /\ j < Len(st[u]) /\ s2[u][j].pc = "serial" =>
                  st[u][j].pc = "serial" /\ s2[u][j].index = st[u][j].index
  <2>1. CASE u = t /\ j = Len(st[t])
    <3>1. SameCall(st[u][j], s2[u][j])
      BY <1>1, <2>1
    <3>2. ~ (j < Len(st[u]))
      BY <1>1, <2>1
    <3> QED BY <3>1, <3>2
  <2>2. CASE ~ (u = t /\ j = Len(st[t]))
    BY <1>1, <2>2 DEF SameCall
  <2> QED BY <2>1, <2>2
<1>3. /\ SerialCalls(st) => SerialCalls(s2)
      /\ Joiner \subseteq Thread => \A ans, rd : Asked(st, ans, rd) => Asked(s2, ans, rd)
  BY <1>1, <1>2, LinksKept
<1> QED BY <1>3 DEF s2

LEMMA CalledLinks ==
  ASSUME NEW st \in [Thread -> Seq(Frame)], NEW t \in Thread, NEW c \in Frame,
         st[t] # <<>> => CallsItsChild(Last(st[t]), c)
  PROVE  LET s2 == Called(st, t, c) IN
         /\ SerialCalls(st) => SerialCalls(s2)
         /\ st[t] # <<>> \/ t \notin Joiner =>
              \A ans, rd : Asked(st, ans, rd) => Asked(s2, ans, rd)
<1> DEFINE s2 == Called(st, t, c)
<1>1. s2[t] = Append(st[t], c) /\ st[t] \in Seq(Frame) /\ \A u : u # t => s2[u] = st[u]
  BY DEF Called
<1>2. /\ s2[t] \in Seq(Frame) /\ Len(s2[t]) = Len(st[t]) + 1 /\ Len(st[t]) \in Nat
      /\ \A i \in 1..Len(st[t]) : s2[t][i] = st[t][i]
      /\ s2[t][Len(st[t]) + 1] = c
  BY <1>1, Pushed
<1> HIDE DEF s2
<1>3. ASSUME SerialCalls(st), NEW u \in Thread, NEW i \in 1..Len(s2[u]), NEW j \in 1..Len(s2[u]),
             j = i + 1
      PROVE  CallsItsChild(s2[u][i], s2[u][j])
  <2>1. CASE u # t
    BY <1>1, <1>3, <2>1 DEF SerialCalls
  <2>2. CASE u = t /\ j = Len(st[t]) + 1
    <3>1. i = Len(st[t]) /\ i \in 1..Len(st[t])
      BY <1>2, <1>3, <2>2
    <3>2. st[t] # <<>> /\ Last(st[t]) = st[t][i]
      BY <1>1, <3>1, Popped
    <3> QED BY <1>2, <2>2, <3>1, <3>2
  <2>3. CASE u = t /\ j # Len(st[t]) + 1
    <3>1. i \in 1..Len(st[t]) /\ j \in 1..Len(st[t])
      BY <1>2, <1>3, <2>3
    <3> QED BY <1>2, <1>3, <2>3, <3>1 DEF SerialCalls
  <2> QED BY <2>1, <2>2, <2>3
<1>4. ASSUME st[t] # <<>> \/ t \notin Joiner, NEW ans, NEW rd, Asked(st, ans, rd), NEW u \in Joiner
      PROVE  IF s2[u] = <<>> THEN Len(ans) = rd
             ELSE /\ Len(ans) + 1 = rd
                  /\ s2[u][1].node = Root /\ s2[u][1].req = rd /\ s2[u][1].order = NoOrder
  <2>1. CASE u # t
    BY <1>1, <1>4, <2>1 DEF Asked
  <2>2. CASE u = t
    <3>1. 1 \in 1..Len(st[t])
      BY <1>1, <1>4, <2>2
    <3>2. s2[t] # <<>> /\ s2[t][1] = st[t][1]
      BY <1>2, <3>1
    <3> QED BY <1>1, <1>4, <2>2, <3>1, <3>2 DEF Asked
  <2> QED BY <2>1, <2>2
<1>5. SerialCalls(st) => SerialCalls(s2)
  BY <1>3 DEF SerialCalls
<1>6. st[t] # <<>> \/ t \notin Joiner =>
        \A ans, rd : Asked(st, ans, rd) => Asked(s2, ans, rd)
  BY <1>4 DEF Asked
<1> QED BY <1>5, <1>6 DEF s2

LEMMA ReturnedLinks ==
  ASSUME NEW st \in [Thread -> Seq(Frame)], NEW t \in Thread, st[t] # <<>>
  PROVE  LET s2 == Returned(st, t) IN
         /\ SerialCalls(st) => SerialCalls(s2)
         /\ Len(st[t]) > 1 \/ t \notin Joiner =>
              \A ans, rd : Asked(st, ans, rd) => Asked(s2, ans, rd)
<1> DEFINE s2 == Returned(st, t)
<1>1. s2[t] = Front(st[t]) /\ st[t] \in Seq(Frame) /\ \A u : u # t => s2[u] = st[u]
  BY DEF Returned
<1>2. /\ s2[t] \in Seq(Frame) /\ Len(s2[t]) = Len(st[t]) - 1 /\ Len(st[t]) \in Nat
      /\ \A i \in 1..Len(s2[t]) : i \in 1..Len(st[t]) /\ s2[t][i] = st[t][i]
  BY <1>1, Popped
<1> HIDE DEF s2
<1>3. ASSUME SerialCalls(st), NEW u \in Thread, NEW i \in 1..Len(s2[u]), NEW j \in 1..Len(s2[u]),
             j = i + 1
      PROVE  CallsItsChild(s2[u][i], s2[u][j])
  <2>1. CASE u # t
    BY <1>1, <1>3, <2>1 DEF SerialCalls
  <2>2. CASE u = t
    BY <1>2, <1>3, <2>2 DEF SerialCalls
  <2> QED BY <2>1, <2>2
<1>4. ASSUME Len(st[t]) > 1 \/ t \notin Joiner,
             NEW ans, NEW rd, Asked(st, ans, rd), NEW u \in Joiner
      PROVE  IF s2[u] = <<>> THEN Len(ans) = rd
             ELSE /\ Len(ans) + 1 = rd
                  /\ s2[u][1].node = Root /\ s2[u][1].req = rd /\ s2[u][1].order = NoOrder
  <2>1. CASE u # t
    BY <1>1, <1>4, <2>1 DEF Asked
  <2>2. CASE u = t
    <3>1. 1 \in 1..Len(s2[t]) /\ s2[t] # <<>>
      BY <1>2, <1>4, <2>2
    <3>2. s2[t][1] = st[t][1]
      BY <1>2, <3>1
    <3> QED BY <1>4, <2>2, <3>1, <3>2 DEF Asked
  <2> QED BY <2>1, <2>2
<1>5. SerialCalls(st) => SerialCalls(s2)
  BY <1>3 DEF SerialCalls
<1>6. Len(st[t]) > 1 \/ t \notin Joiner =>
        \A ans, rd : Asked(st, ans, rd) => Asked(s2, ans, rd)
  BY <1>4 DEF Asked
<1> QED BY <1>5, <1>6 DEF s2

LEMMA SerialKept ==
  ASSUME AnswersAreSerial, UNCHANGED <<verdict, answers>>
  PROVE  AnswersAreSerial'
BY DEF AnswersAreSerial, SerialAnswer

LEMMA StackFacts ==
  ASSUME Inv
  PROVE  stack \in [Thread -> Seq(Frame)] /\ Joiner \subseteq Thread
BY PoolFacts DEF Inv, Shape

-----------------------------------------------------------------------------
(* The kinds of steps.                                                      *)

\* The top frame goes on.
LEMMA ChangedAnswers ==
  ASSUME Inv, Answering, NEW t \in Thread, stack[t] # <<>>, NEW g \in Frame,
         SameCall(Top(t), g), stack' = Changed(stack, t, g),
         abortFlag => abortFlag', UNCHANGED <<verdict, answers, round>>,
         \A n \in Node : (n = Top(t).node /\ Entered(Top(t))) \/ Untouched(n),
         Gathered(g, results', poll', Pending', verdict', abortFlag')
  PROVE  Answering'
<1> DEFINE N == IF Entered(Top(t)) THEN {Top(t).node} ELSE {}
<1>1. Acts(stack, stack', N, g)
  BY ChangedActs
<1>2. \A n \in Node : n \in N \/ Untouched(n)
  OBVIOUS
<1> HIDE DEF N
<1>3. Gathers'
  BY <1>1, <1>2, GathersKept DEF Answering
<1>4. Top(t) = Last(stack[t])
  BY TopFacts
<1>5. SerialCalls(stack') /\ Asked(stack', answers, round)
  BY <1>4, StackFacts, ChangedLinks DEF Answering
<1>6. AnswersAreSerial'
  BY SerialKept DEF Answering
<1> QED BY <1>3, <1>5, <1>6 DEF Answering

\* The top frame calls c.
LEMMA CalledAnswers ==
  ASSUME Inv, Answering, NEW t \in Thread, stack[t] # <<>>, Entered(Top(t)),
         NEW g \in Frame, SameCall(Top(t), g), NEW c \in Frame, Begins(c), CallsItsChild(g, c),
         stack' = Called(Changed(stack, t, g), t, c),
         abortFlag => abortFlag', UNCHANGED <<verdict, answers, round>>,
         \A n \in Node : n = Top(t).node \/ Untouched(n),
         Gathered(g, results', poll', Pending', verdict', abortFlag')
  PROVE  Answering'
<1> DEFINE st1 == Changed(stack, t, g)
<1>1. Acts(stack, stack', {Top(t).node}, g)
  BY CalledActs
<1>2. \A n \in Node : n \in {Top(t).node} \/ Untouched(n)
  OBVIOUS
<1>3. Gathers'
  BY <1>1, <1>2, GathersKept DEF Answering
<1>4. Top(t) = Last(stack[t])
  BY TopFacts
<1>5. SerialCalls(st1) /\ Asked(st1, answers, round)
  BY <1>4, StackFacts, ChangedLinks DEF Answering
<1>6. st1 \in [Thread -> Seq(Frame)] /\ st1[t] # <<>> /\ Last(st1[t]) = g
  BY StackFacts, LastChanged
<1> HIDE DEF st1
<1>7. SerialCalls(stack') /\ Asked(stack', answers, round)
  BY <1>5, <1>6, CalledLinks DEF st1
<1>8. AnswersAreSerial'
  BY SerialKept DEF Answering
<1> QED BY <1>3, <1>7, <1>8 DEF Answering

\* The orders outstanding are the same when a frame goes on with its own.
LEMMA GoesOnPending ==
  ASSUME Inv, NEW t \in Thread, stack[t] # <<>>, NEW g \in Frame, g.order = Top(t).order,
         g.pc \notin {"clear", "finish"} <=> Top(t).pc \notin {"clear", "finish"},
         stack' = Changed(stack, t, g), queue' = queue
  PROVE  Pending' = Pending
<1>1. \A o \in Order : Queued(queue, o) \/ Carried(stack, o) <=>
                         Queued(queue', o) \/ Carried(stack', o)
  BY SameCarried
<1> QED BY <1>1, PendingSame

\* The top frame goes on by itself, and its node's data are all that changes.
LEMMA GoesOnAnswers ==
  ASSUME Inv, Answering, NEW t \in Thread, stack[t] # <<>>, NEW g \in Frame,
         SameCall(Top(t), g), stack' = Changed(stack, t, g),
         g.pc \notin {"clear", "finish"}, Top(t).pc \notin {"clear", "finish"},
         queue' = queue, UNCHANGED <<verdict, abortFlag, answers, round>>,
         \A n \in Node : \/ n = Top(t).node /\ Entered(Top(t))
                         \/ /\ results'[n] = results[n]
                            /\ poll'[Children(n)].cumul = poll[Children(n)].cumul,
         Gathered(g, results', poll', Pending, verdict, abortFlag)
  PROVE  Answering'
<1>1. Pending' = Pending
  BY GoesOnPending DEF SameCall
<1>2. \A n \in Node : (n = Top(t).node /\ Entered(Top(t))) \/ Untouched(n)
  BY <1>1 DEF Untouched
<1> QED BY <1>1, <1>2, ChangedAnswers

-----------------------------------------------------------------------------
(* The threads between two requests or orders.                              *)

\* The stacks and the polls are as before.
LEMMA SameAnswers ==
  ASSUME Inv, Answering, UNCHANGED <<queue, stack, poll, results, verdict, answers, round>>,
         abortFlag => abortFlag'
  PROVE  Answering'
<1>1. Pending' = Pending
  BY DEF Pending
<1>2. ASSUME NEW u \in Thread, NEW j \in 1..Len(stack'[u])
      PROVE  Gathered(stack'[u][j], results', poll', Pending', verdict', abortFlag')
  <2>1. Gathered(stack[u][j], results, poll, Pending, verdict, abortFlag)
    BY <1>2 DEF Answering, Gathers
  <2>2. Untouched(stack[u][j].node)
    BY <1>1 DEF Untouched
  <2>3. Gathered(stack[u][j], results', poll', Pending', verdict', abortFlag')
    BY <2>1, <2>2, GatheredKept
  <2> QED BY <2>3
<1>3. Gathers'
  BY <1>2 DEF Gathers
<1>4. SerialCalls(stack') /\ Asked(stack', answers, round)
  BY DEF Answering
<1> QED BY <1>3, <1>4, SerialKept DEF Answering

LEMMA JoinAnswers ==
  ASSUME Inv, Answering, NEW t \in Thread, Join(t) \/ WorkerSleeps(t)
  PROVE  Answering'
BY SameAnswers DEF Join, WorkerSleeps, B!Join, B!WorkerSleeps, control

LEMMA RaiseAbortAnswers ==
  ASSUME Inv, Answering, RaiseAbort
  PROVE  Answering'
BY SameAnswers DEF RaiseAbort, pool

\* The root is called for the next request when the last one is answered.
LEMMA NextRequestAnswers ==
  ASSUME Inv, Accounts, Answering, NEW t \in Thread, NextRequest(t)
  PROVE  Answering'
<1> DEFINE c == Call(Root, 0, NoOrder, round + 1)
<1>1. /\ t \in Joiner /\ stack[t] = <<>> /\ round < Rounds /\ abortFlag' = FALSE
      /\ stack' = [stack EXCEPT ![t] = <<c>>] /\ round' = round + 1
      /\ UNCHANGED <<pool, poll, results, verdict, answers>>
  BY DEF NextRequest
<1>2. round \in 0..Rounds /\ Rounds \in Nat /\ Root \in Node /\ MaxDepth \in Nat
  BY NodeAssumption, PoolFacts DEF Inv, Typed
<1>3. ~ abortFlag
  BY <1>1, <1>2 DEF Accounts
<1>4. c = [node |-> Root, depth |-> 0, order |-> NoOrder, req |-> round + 1,
           pc |-> "enter", index |-> 1, flags |-> {}]
  BY DEF Call
<1>5. c \in Frame /\ Begins(c) /\ c.order = NoOrder
  <2>1. round + 1 \in Request
    BY <1>1, <1>2 DEF Request
  <2> QED BY <1>2, <1>4, <2>1 DEF Frame, PC, Begins
<1>6. stack' = Called(stack, t, c)
  BY <1>1, FirstCall
<1>7. c.node = Root /\ c.req = round + 1
  BY <1>4
<1> HIDE DEF c
<1>8. Pending' = Pending
  <2>1. ASSUME NEW o \in Order
        PROVE  Carried(stack', o) <=> Carried(stack, o)
    <3>1. ~ Carries(c, o)
      BY <1>5, OrderFacts DEF Carries
    <3> QED BY <1>5, <1>6, <3>1, StackFacts, CalledCarries
  <2>2. queue' = queue
    BY <1>1 DEF pool
  <2> QED BY <2>1, <2>2, PendingSame
<1>9. Gathers'
  <2>1. Acts(stack, stack', {}, c)
    BY <1>5, <1>6, CallActs
  <2>2. Gathered(c, results', poll', Pending', verdict', abortFlag')
    BY <1>5 DEF Begins, Gathered, Collecting, Leaving
  <2>3. \A n \in Node : Untouched(n)
    BY <1>1, <1>8 DEF Untouched
  <2> QED BY <1>1, <1>3, <2>1, <2>2, <2>3, GathersKept DEF Answering
<1>10. SerialCalls(stack')
  BY <1>1, <1>5, <1>6, StackFacts, CalledLinks DEF Answering
<1>11. Asked(stack', answers', round')
  <2>1. ASSUME NEW u \in Joiner
        PROVE  /\ stack'[u] # <<>> /\ stack'[u][1] = c
               /\ Len(answers) = round
    <3>1. u = t
      BY <1>1, ServerAssumption
    <3>2. stack'[t] = <<c>>
      BY <1>1, StackFacts
    <3>3. Len(answers) = round
      BY <1>1 DEF Answering, Asked
    <3> QED BY <3>1, <3>2, <3>3
  <2> QED BY <1>1, <1>5, <1>7, <2>1 DEF Asked
<1>12. AnswersAreSerial'
  BY <1>1, SerialKept DEF Answering
<1> QED BY <1>9, <1>10, <1>11, <1>12 DEF Answering

LEMMA WorkerTakesAnswers ==
  ASSUME Inv, Answering, NEW t \in Thread, WorkerTakes(t)
  PROVE  Answering'
<1> DEFINE o == Head(queue)
           c == OrderCall(o)
<1>1. /\ t \notin Joiner /\ stack[t] = <<>> /\ B!TakeHead(t, queue) /\ queue # <<>>
      /\ stack' = [stack EXCEPT ![t] = <<c>>]
      /\ UNCHANGED <<executing, poll, results, control>>
  BY DEF WorkerTakes, B!WorkerTakes, B!InWorkerLoop, B!Available
<1>2. /\ o \in Order /\ o.depth + Height[NodeOf(o)] <= MaxDepth
      /\ queue' = Tail(queue) /\ queue \in Seq(Order)
  <2>1. queue \in Seq(Order) /\ o = queue[1] /\ 1 \in 1..Len(queue) /\ o \in Order
    BY <1>1, PoolFacts
  <2> QED BY <1>1, <2>1, TakeHeadStates DEF Inv, QueueFits
<1>3. c \in Frame /\ c.pc = "enter" /\ c.order = o
  BY <1>2, OrderCallFacts
<1>4. Begins(c)
  BY <1>3 DEF Begins, OrderCall, Call
<1>5. stack' = Called(stack, t, c)
  BY <1>1, FirstCall
<1> HIDE DEF c
<1>6. Pending' = Pending
  <2>1. ASSUME NEW p \in Order
        PROVE  Outstanding(queue', stack', p) <=> Outstanding(queue, stack, p)
    <3>1. Outstanding(Tail(queue), Called(stack, t, c), p) <=> Outstanding(queue, stack, p)
      BY <1>1, <1>2, <1>3, StackFacts, TakenOutstanding
    <3> QED BY <1>2, <1>5, <3>1
  <2> QED BY <2>1, PendingSame DEF Outstanding
<1>7. Gathers'
  <2>1. Acts(stack, stack', {}, c)
    BY <1>3, <1>4, <1>5, CallActs
  <2>2. Gathered(c, results', poll', Pending', verdict', abortFlag')
    BY <1>3 DEF Gathered, Collecting, Leaving
  <2>3. \A n \in Node : Untouched(n)
    BY <1>1, <1>6 DEF Untouched
  <2> QED BY <1>1, <2>1, <2>2, <2>3, GathersKept DEF Answering, control
<1>8. SerialCalls(stack') /\ Asked(stack', answers, round)
  <2>1. SerialCalls(stack) /\ Asked(stack, answers, round)
    BY DEF Answering
  <2>2. t \notin Joiner /\ ~ (stack[t] # <<>>) /\ c \in Frame
    BY <1>1, <1>3
  <2>3. SerialCalls(Called(stack, t, c)) /\ Asked(Called(stack, t, c), answers, round)
    BY ONLY Inv, t \in Thread, <2>1, <2>2, StackFacts, CalledLinks
  <2> QED BY <1>5, <2>3
<1>9. UNCHANGED <<verdict, answers, round>>
  BY <1>1 DEF control
<1>10. AnswersAreSerial'
  BY <1>9, SerialKept DEF Answering
<1> QED BY <1>7, <1>8, <1>9, <1>10 DEF Answering

-----------------------------------------------------------------------------
(* The top frame goes on by itself.                                         *)

LEMMA EnterAnswers ==
  ASSUME Inv, Answering, NEW t \in Thread, Enter(t)
  PROVE  Answering'
<1> DEFINE f == Top(t)
           g == [f EXCEPT !.pc = IF abortFlag THEN "abort" ELSE "poll"]
<1>1. /\ stack[t] # <<>> /\ f.pc = "enter" /\ stack' = Changed(stack, t, g)
      /\ UNCHANGED <<pool, poll, results, control>>
  BY DEF Enter, At, Goto, Changed
<1>2. f \in Frame
  BY <1>1, TopFacts
<1>3. g \in Frame /\ SameCall(f, g) /\ g.pc \in {"abort", "poll"}
  BY <1>2 DEF Frame, PC, SameCall
<1> HIDE DEF g
<1>4. Gathered(g, results', poll', Pending, verdict, abortFlag)
  BY <1>3 DEF Gathered, Collecting, Leaving
<1> QED BY <1>1, <1>3, <1>4, GoesOnAnswers DEF control, pool

\* What the top frame has of the serial evaluation.
LEMMA TopGathered ==
  ASSUME Inv, Answering, NEW t \in Thread, stack[t] # <<>>
  PROVE  Gathered(Top(t), results, poll, Pending, verdict, abortFlag)
BY TopFacts DEF Answering, Gathers

LEMMA CheckPollAnswers ==
  ASSUME Inv, Answering, NEW t \in Thread, CheckPoll(t)
  PROVE  Answering'
<1> DEFINE f == Top(t)
           g == [f EXCEPT !.pc = IF PollDone(Children(f.node)) THEN "polled" ELSE "asleep"]
<1>1. /\ stack[t] # <<>> /\ f.pc = "check" /\ stack' = Changed(stack, t, g)
      /\ UNCHANGED <<pool, poll, results, control>>
  BY DEF CheckPoll, At, Goto, Changed
<1>2. f \in Frame
  BY <1>1, TopFacts
<1>3. g \in Frame /\ SameCall(f, g) /\ g.pc \in {"polled", "asleep"}
  BY <1>2 DEF Frame, PC, SameCall
<1> HIDE DEF g
<1>4. Gathered(g, results, poll, Pending, verdict, abortFlag)
  <2>1. Gathered(f, results, poll, Pending, verdict, abortFlag)
    BY <1>1, TopGathered
  <2>2. Done(g, Pending) = Done(f, Pending)
    BY <1>1, <1>3 DEF Done, SameCall
  <2>3. \A D : Collected(f, D, results, poll, verdict) => Collected(g, D, results, poll, verdict)
    BY <1>3 DEF Collected, SameCall
  <2> QED BY <1>1, <1>3, <2>1, <2>2, <2>3 DEF Gathered, Collecting, Leaving
<1> QED BY <1>1, <1>3, <1>4, GoesOnAnswers DEF control, pool

\* A poll that is over and not aborted has the results of all children.
LEMMA PollIsComplete ==
  ASSUME Inv, Accounts, Answering, NEW t \in Thread, stack[t] # <<>>, Top(t).pc = "polled",
         ~ abortFlag
  PROVE  Collected(Top(t), 1..Len(Kids[Top(t).node]), results, poll, verdict)
<1>1. Gathered(Top(t), results, poll, Pending, verdict, abortFlag)
  BY TopGathered
<1>2. Pending[Children(Top(t).node)] = {}
  BY TopStands DEF Stage, Entered
<1>3. Done(Top(t), Pending) = 1..Len(Kids[Top(t).node])
  BY <1>2 DEF Done
<1> QED BY <1>1, <1>3 DEF Gathered, Collecting

LEMMA PolledAnswers ==
  ASSUME Inv, Accounts, Answering, NEW t \in Thread, Polled(t)
  PROVE  Answering'
<1> DEFINE f == Top(t)
           kn == Children(f.node)
           flags == IF abortFlag THEN {"ABORT"} ELSE poll[kn].cumul \ Ignored(f.node)
<1>1. /\ stack[t] # <<>> /\ f.pc = "polled"
      /\ \E pc \in {"evaluate", "step"} :
           stack' = Changed(stack, t, [f EXCEPT !.flags = flags, !.pc = pc])
      /\ UNCHANGED <<pool, executing, poll, results, control>>
  BY DEF Polled, At, Changed
<1>2. PICK pc \in {"evaluate", "step"} :
        stack' = Changed(stack, t, [f EXCEPT !.flags = flags, !.pc = pc])
  BY <1>1
<1> DEFINE g == [f EXCEPT !.flags = flags, !.pc = pc]
<1>3. f \in Frame /\ f.node \in Node /\ kn \in Nursery
  BY <1>1, TopFacts, NurseriesOf
<1>4. flags \in SUBSET Flag
  <2>1. poll[kn].cumul \in SUBSET Flag
    BY <1>3 DEF Inv, Typed, PollState
  <2> QED BY <2>1 DEF Flag
<1>5. ASSUME ~ abortFlag
      PROVE  flags = Below(verdict, f.node, f.req)
  <2>1. Collected(f, 1..Len(Kids[f.node]), results, poll, verdict)
    BY <1>1, <1>5, PollIsComplete
  <2>2. poll[kn].cumul = UNION {Code(verdict, Kids[f.node][i], f.req) : i \in 1..Len(Kids[f.node])}
    BY <2>1 DEF Collected
  <2>3. Below(verdict, f.node, f.req) = poll[kn].cumul \ Ignored(f.node)
    BY <2>2 DEF Below
  <2> QED BY <1>5, <2>3
<1> HIDE DEF flags
<1>6. /\ g \in Frame /\ SameCall(f, g) /\ g.flags = flags /\ g.pc \in {"evaluate", "step"}
  BY <1>3, <1>4 DEF Frame, PC, SameCall
<1> HIDE DEF g
<1>7. Gathered(g, results, poll, Pending, verdict, abortFlag)
  BY <1>5, <1>6 DEF Gathered, Collecting, Leaving, SameCall
<1> QED BY <1>1, <1>2, <1>6, <1>7, GoesOnAnswers DEF control, pool, g

LEMMA EvaluateAnswers ==
  ASSUME Inv, Accounts, Answering, NEW t \in Thread, Evaluate(t)
  PROVE  Answering'
<1> DEFINE f == Top(t)
           flags == IF f.flags \cap {"FAIL", "MISSING"} # {} THEN f.flags
                    ELSE f.flags \cup verdict[f.node][f.req]
           g == [f EXCEPT !.flags = flags, !.pc = "wait"]
<1>1. /\ stack[t] # <<>> /\ f.pc = "evaluate" /\ ~ abortFlag
      /\ stack' = Changed(stack, t, g)
      /\ results' = [results EXCEPT ![f.node] = [i \in DOMAIN @ |-> NoResult]]
      /\ UNCHANGED <<pool, executing, poll, control>>
  BY DEF Evaluate, At, Changed
<1>2. /\ f \in Frame /\ f.node \in Node /\ f.req \in Request /\ f.flags \in SUBSET Flag
      /\ Entered(f)
  BY <1>1, TopFacts DEF Entered
<1>3. verdict[f.node][f.req] \in SUBSET {"FAIL", "MISSING"}
  BY <1>2, NodeAssumption DEF Inv, Typed
<1>4. f.flags = Below(verdict, f.node, f.req) /\ "ABORT" \notin f.flags
  BY <1>1, TopGathered, TopStands DEF Gathered, Aborted
<1>5. flags = Code(verdict, f.node, f.req)
  <2>1. f.flags \cap {"FAIL", "MISSING"} = {} <=> f.flags = {}
    BY <1>2, <1>4 DEF Flag
  <2>2. Code(verdict, f.node, f.req) =
          IF f.flags = {} THEN verdict[f.node][f.req] ELSE f.flags
    BY <1>2, <1>4, CodeIs
  <2> HIDE DEF f
  <2> QED BY <2>1, <2>2
<1>6. flags \in SUBSET Flag
  BY <1>2, <1>3 DEF Flag
<1> HIDE DEF flags
<1>7. g \in Frame /\ SameCall(f, g) /\ g.flags = flags /\ g.pc = "wait"
  BY <1>2, <1>6 DEF Frame, PC, SameCall
<1> HIDE DEF g
<1>8. Gathered(g, results', poll', Pending, verdict, abortFlag)
  BY <1>5, <1>7 DEF Gathered, Collecting, Leaving, SameCall
<1>9. \A n \in Node : n # f.node => results'[n] = results[n]
  BY <1>1 DEF Inv, Typed
<1> QED BY <1>1, <1>2, <1>7, <1>8, <1>9, GoesOnAnswers DEF control, pool

LEMMA EvaluateAbortedAnswers ==
  ASSUME Inv, Answering, NEW t \in Thread, EvaluateAborted(t)
  PROVE  Answering'
<1> DEFINE f == Top(t)
           g == [f EXCEPT !.pc = "abort"]
<1>1. /\ stack[t] # <<>> /\ f.pc = "evaluate" /\ stack' = Changed(stack, t, g)
      /\ UNCHANGED <<pool, poll, results, control>>
  BY DEF EvaluateAborted, At, Goto, Changed
<1>2. f \in Frame
  BY <1>1, TopFacts
<1>3. g \in Frame /\ SameCall(f, g) /\ g.pc = "abort"
  BY <1>2 DEF Frame, PC, SameCall
<1> HIDE DEF g
<1>4. Gathered(g, results', poll', Pending, verdict, abortFlag)
  BY <1>3 DEF Gathered, Collecting, Leaving
<1> QED BY <1>1, <1>3, <1>4, GoesOnAnswers DEF control, pool

LEMMA ReturnToOrderAnswers ==
  ASSUME Inv, Answering, NEW t \in Thread, ReturnToOrder(t)
  PROVE  Answering'
<1> DEFINE f == Top(t)
           g == [f EXCEPT !.pc = "deliver"]
<1>1. /\ stack[t] # <<>> /\ f.pc = "exit" /\ stack' = Changed(stack, t, g)
      /\ UNCHANGED <<pool, poll, results, control>>
  BY DEF ReturnToOrder, At, Goto, Changed
<1>2. f \in Frame
  BY <1>1, TopFacts
<1>3. g \in Frame /\ SameCall(f, g) /\ g.pc = "deliver" /\ g.flags = f.flags
  BY <1>2 DEF Frame, PC, SameCall
<1> HIDE DEF g
<1>4. Gathered(g, results', poll', Pending, verdict, abortFlag)
  <2>1. Aborted(f) \/ f.flags = Code(verdict, f.node, f.req)
    BY <1>1, TopGathered DEF Gathered, Leaving
  <2> QED BY <1>3, <2>1 DEF Gathered, Collecting, Leaving, SameCall, Aborted
<1> QED BY <1>1, <1>3, <1>4, GoesOnAnswers DEF control, pool

-----------------------------------------------------------------------------
(* The top frame helps itself to an order, or polls by itself.              *)

LEMMA TakesAnswers ==
  ASSUME Inv, Answering, NEW t \in Thread, stack[t] # <<>>, NEW pc \in {"help", "wait"},
         B!Available(t, queue, Top(t).depth + 1), B!TakeHead(t, queue),
         GotoAndCall(t, pc, OrderCall(Head(queue))), Top(t).pc = pc,
         UNCHANGED <<executing, poll, results, control>>
  PROVE  Answering'
<1> DEFINE f == Top(t)
           o == Head(queue)
           c == OrderCall(o)
<1>1. f \in Frame /\ [f EXCEPT !.pc = pc] = f /\ Entered(f) /\ SameCall(f, f)
  BY TopFacts DEF Frame, Entered, SameCall
<1>2. /\ queue \in Seq(Order) /\ queue # <<>> /\ o \in Order /\ queue' = Tail(queue)
      /\ o.depth + Height[NodeOf(o)] <= MaxDepth
  <2>1. /\ queue \in Seq(Order) /\ queue # <<>> /\ o = queue[1] /\ 1 \in 1..Len(queue)
        /\ o \in Order
    BY PoolFacts DEF B!Available
  <2> QED BY <2>1, TakeHeadStates DEF Inv, QueueFits
<1>3. c \in Frame /\ c.pc = "enter" /\ c.order = o
  BY <1>2, OrderCallFacts
<1>4. Begins(c)
  BY <1>3 DEF Begins, OrderCall, Call
<1>5. stack' = Called(Changed(stack, t, f), t, c)
  BY <1>1, CallIs
<1> HIDE DEF c, o
<1>6. Pending' = Pending
  <2> DEFINE st1 == Changed(stack, t, f)
  <2>1. /\ \A p : Carried(st1, p) <=> Carried(stack, p)
        /\ st1 \in [Thread -> Seq(Frame)]
    BY <1>1, SameCarried
  <2>2. stack' = Called(st1, t, c)
    BY <1>5
  <2> HIDE DEF st1
  <2>3. ASSUME NEW p \in Order
        PROVE  Outstanding(queue', stack', p) <=> Outstanding(queue, stack, p)
    <3>1. Outstanding(Tail(queue), Called(st1, t, c), p) <=> Outstanding(queue, st1, p)
      BY <1>2, <1>3, <2>1, TakenOutstanding DEF o
    <3> QED BY <1>2, <2>1, <2>2, <3>1 DEF Outstanding
  <2> QED BY <2>3, PendingSame DEF Outstanding
<1>7. Gathered(f, results', poll', Pending', verdict', abortFlag')
  BY <1>6, TopGathered DEF control
<1>8. \A n \in Node : Untouched(n)
  BY <1>6 DEF Untouched
<1>9. CallsItsChild(f, c)
  BY DEF CallsItsChild
<1>10. (abortFlag => abortFlag') /\ UNCHANGED <<verdict, answers, round>>
  BY DEF control
<1> HIDE DEF f
<1> QED BY <1>1, <1>3, <1>4, <1>5, <1>7, <1>8, <1>9, <1>10, CalledAnswers DEF f

LEMMA HelpYourselfAnswers ==
  ASSUME Inv, Answering, NEW t \in Thread, HelpYourself(t)
  PROVE  Answering'
<1> DEFINE f == Top(t)
           d == f.depth + 1
           g == [f EXCEPT !.pc = "check"]
<1>1. stack[t] # <<>> /\ f.pc = "help" /\ UNCHANGED <<executing, poll, results, control>>
  BY DEF HelpYourself, At
<1>2. CASE B!Available(t, queue, d) /\ B!TakeHead(t, queue)
           /\ GotoAndCall(t, "help", OrderCall(Head(queue)))
  BY <1>1, <1>2, TakesAnswers
<1>3. CASE Goto(t, "check") /\ UNCHANGED pool
  <2>1. f \in Frame /\ stack' = Changed(stack, t, g)
    BY <1>1, <1>3, TopFacts DEF Goto, Changed
  <2>2. g \in Frame /\ SameCall(f, g) /\ g.pc = "check"
    BY <2>1 DEF Frame, PC, SameCall
  <2> HIDE DEF g
  <2>3. Gathered(g, results, poll, Pending, verdict, abortFlag)
    <3>1. Gathered(f, results, poll, Pending, verdict, abortFlag)
      BY <1>1, TopGathered
    <3>2. Done(g, Pending) = Done(f, Pending)
      BY <1>1, <2>2 DEF Done, SameCall
    <3>3. \A D : Collected(f, D, results, poll, verdict) => Collected(g, D, results, poll, verdict)
      BY <2>2 DEF Collected, SameCall
    <3> QED BY <1>1, <2>2, <3>1, <3>2, <3>3 DEF Gathered, Collecting, Leaving
  <2> QED BY <1>1, <1>3, <2>1, <2>2, <2>3, GoesOnAnswers DEF control, pool
<1> QED BY <1>2, <1>3 DEF HelpYourself

LEMMA WaitForEndOfPollAnswers ==
  ASSUME Inv, Answering, NEW t \in Thread, WaitForEndOfPoll(t)
  PROVE  Answering'
<1> DEFINE f == Top(t)
           To(pc) == [f EXCEPT !.pc = pc]
<1>1. stack[t] # <<>> /\ f.pc = "wait" /\ UNCHANGED <<executing, poll, results, control>>
  BY DEF WaitForEndOfPoll, At
<1>2. CASE B!Available(t, queue, f.depth + 1) /\ B!TakeHead(t, queue)
           /\ GotoAndCall(t, "wait", OrderCall(Head(queue)))
  BY <1>1, <1>2, TakesAnswers
<1>3. ASSUME NEW pc \in {"exit", "waiting"}, Goto(t, pc), UNCHANGED pool
      PROVE  Answering'
  <2> DEFINE g == To(pc)
  <2>1. f \in Frame /\ stack' = Changed(stack, t, g)
    BY <1>1, <1>3, TopFacts DEF Goto, Changed
  <2>2. g \in Frame /\ SameCall(f, g) /\ g.pc = pc /\ g.flags = f.flags
    BY <2>1 DEF Frame, PC, SameCall
  <2> HIDE DEF g
  <2>3. Gathered(g, results, poll, Pending, verdict, abortFlag)
    <3>1. Aborted(f) \/ f.flags = Code(verdict, f.node, f.req)
      BY <1>1, TopGathered DEF Gathered, Leaving
    <3> QED BY <2>2, <3>1 DEF Gathered, Collecting, Leaving, SameCall, Aborted
  <2> QED BY <1>1, <1>3, <2>1, <2>2, <2>3, GoesOnAnswers DEF control, pool
<1> QED BY <1>2, <1>3 DEF WaitForEndOfPoll

\* What the other nodes' polls have collected is as before.
LEMMA OtherPolls ==
  ASSUME NEW nu \in Nursery, \A mu \in Nursery : mu # nu => poll'[mu] = poll[mu], NEW n \in Node
  PROVE  \/ n = nu[1] /\ nu = Children(n)
         \/ poll'[Children(n)].cumul = poll[Children(n)].cumul
<1>1. Children(n) \in Nursery /\ Children(n)[1] = n
  BY NurseriesOf
<1>2. CASE Children(n) = nu
  BY <1>1, <1>2
<1>3. CASE Children(n) # nu
  <2>1. poll'[Children(n)] = poll[Children(n)]
    BY <1>1, <1>3
  <2> QED BY <2>1
<1> QED BY <1>2, <1>3

LEMMA SyncPollSeriallyAnswers ==
  ASSUME Inv, Accounts, Answering, NEW t \in Thread, SyncPollSerially(t)
  PROVE  Answering'
<1> DEFINE f == Top(t)
           kn == Children(f.node)
           pc == IF Members(kn) = <<>> THEN "polled" ELSE "serial"
           g == [f EXCEPT !.pc = pc]
           c == ChildCall(f, kn, 1)
<1>1. /\ stack[t] # <<>> /\ f.pc = "poll"
      /\ poll' = [poll EXCEPT ![kn].mt = FALSE, ![kn].cumul = {}]
      /\ UNCHANGED <<pool, executing, results, control>>
  BY DEF SyncPollSerially, At
<1>2. /\ f \in Frame /\ f.node \in Node /\ kn \in Nursery /\ Entered(f) /\ f.index = 1
      /\ Members(kn) = Kids[f.node] /\ Kids[f.node] \in Seq(Node)
  BY SMTT(20), <1>1, TopFacts, NurseriesOf, MembersAreNodes DEF Entered, FrameOK
<1>3. /\ poll \in [Nursery -> PollState]
      /\ \A nu \in Nursery : nu # kn => poll'[nu] = poll[nu]
      /\ poll'[kn].cumul = {}
  BY <1>1, <1>2 DEF Inv, Typed, PollState
<1>4. queue' = queue /\ UNCHANGED <<verdict, abortFlag, answers, round>>
  BY <1>1 DEF pool, control
<1>5. /\ g \in Frame /\ SameCall(f, g) /\ g.order = f.order /\ g.node = f.node /\ g.index = 1
      /\ g.pc = pc /\ pc \in {"polled", "serial"} /\ Entered(g)
  BY <1>2 DEF Frame, PC, Entered, SameCall
<1>6. \A n \in Node : n = f.node \/ poll'[Children(n)].cumul = poll[Children(n)].cumul
  <2>1. kn[1] = f.node
    BY <1>2, NurseriesOf
  <2> HIDE DEF f, kn
  <2> QED BY <1>2, <1>3, <2>1, OtherPolls
<1> HIDE DEF g
<1>7. ASSUME NEW pd
      PROVE  Gathered(g, results, poll', pd, verdict, abortFlag)
  <2>1. Done(g, pd) = {}
    <3>1. CASE Members(kn) = <<>>
      <4>1. Len(Kids[f.node]) = 0 /\ g.pc = "polled"
        BY <1>2, <1>5, <3>1
      <4> QED BY <1>5, <4>1 DEF Done
    <3>2. CASE Members(kn) # <<>>
      <4>1. g.pc = "serial"
        BY <1>5, <3>2
      <4> QED BY <1>5, <4>1 DEF Done
    <3> QED BY <3>1, <3>2
  <2>2. Collected(g, {}, results, poll', verdict)
    BY <1>3, <1>5 DEF Collected
  <2> QED BY <1>5, <2>1, <2>2 DEF Gathered, Leaving
<1>8. CASE Members(kn) = <<>>
  <2>1. stack' = Changed(stack, t, g)
    BY <1>8 DEF SyncPollSerially, Goto, Changed, g
  <2>2. Gathered(g, results', poll', Pending, verdict, abortFlag)
    BY <1>1, <1>7
  <2>3. g.pc \notin {"clear", "finish"}
    BY <1>5
  <2> QED BY <1>1, <1>2, <1>4, <1>5, <1>6, <2>1, <2>2, <2>3, GoesOnAnswers
<1>9. CASE Members(kn) # <<>>
  <2>1. stack' = Called(Changed(stack, t, g), t, c)
    BY <1>9, CallIs DEF SyncPollSerially, g
  <2>2. 1 \in 1..Len(Members(kn))
    BY <1>2, <1>9
  <2>3. c \in Frame /\ Begins(c) /\ c.order = NoOrder
    BY <1>1, <1>2, <2>2, NurseriesOf, ChildCallFacts
  <2>4. CallsItsChild(g, c)
    BY <1>2, <1>5 DEF CallsItsChild, ChildCall, Call, SameCall
  <2> HIDE DEF c
  <2>5. Pending' = Pending
    BY <1>1, <1>2, <1>4, <1>5, <2>1, <2>3, CalledPending
  <2>6. Gathered(g, results', poll', Pending', verdict', abortFlag')
    BY <1>1, <1>4, <1>7, <2>5
  <2>7. \A n \in Node : n = f.node \/ Untouched(n)
    BY <1>1, <1>6, <2>5 DEF Untouched
  <2> HIDE DEF f
  <2> QED BY <1>1, <1>2, <1>4, <1>5, <2>1, <2>3, <2>4, <2>6, <2>7, CalledAnswers DEF f
<1> QED BY <1>8, <1>9

LEMMA SyncPollAnswers ==
  ASSUME Inv, Accounts, Answering, NEW t \in Thread, SyncPoll(t)
  PROVE  Answering'
<1> DEFINE f == Top(t)
           kn == Children(f.node)
           os == NewOrders(kn, f.depth + 1, f.req)
           To(pc) == [f EXCEPT !.pc = pc]
<1>1. /\ stack[t] # <<>> /\ f.pc = "poll" /\ Multithreaded(kn)
      /\ Free(kn, f.depth + 1, f.req) # {}
      /\ poll' = [poll EXCEPT ![kn] = FreshPoll(kn)]
      /\ UNCHANGED <<executing, results, control>>
  BY DEF SyncPoll, At
<1>2. /\ f \in Frame /\ f.node \in Node /\ kn \in Nursery /\ kn[1] = f.node /\ Entered(f)
      /\ Members(kn) = Kids[f.node]
  BY <1>1, TopFacts, NurseriesOf DEF Entered
<1>3. Places(os, kn, f.req)
  BY <1>1, <1>2, NewOrdersPlace
<1>4. PICK pc \in {"help", "check"} :
         /\ \/ stack' = Changed(stack, t, To(pc))
            \/ \E c \in Frame : Begins(c) /\ stack' = Called(Changed(stack, t, To(pc)), t, c)
         /\ \A o \in Order : Outstanding(queue', stack', o) <=>
                               Queued(os, o) \/ Outstanding(queue, stack, o)
  BY SyncPollPlaces
<1> HIDE DEF os
<1>5. Pending[kn] = {}
  BY <1>1, <1>2, TopStands DEF Stage
<1>6. \A mu \in Nursery : mu # kn => Pending'[mu] = Pending[mu] /\ poll'[mu] = poll[mu]
  <2>1. \A mu \in Nursery : mu # kn => Pending'[mu] = Pending[mu]
    BY <1>2, <1>3, <1>4, <1>5, NewPending
  <2>2. \A mu \in Nursery : mu # kn => poll'[mu] = poll[mu]
    BY <1>1, <1>2 DEF Inv, Typed
  <2> QED BY <2>1, <2>2
<1>7. poll'[kn].cumul = {}
  BY <1>1, <1>2 DEF Inv, Typed, FreshPoll
<1> DEFINE g == To(pc)
<1>8. g \in Frame /\ SameCall(f, g) /\ g.pc \in {"help", "check"}
  BY <1>2 DEF Frame, PC, SameCall
<1>9. \/ stack' = Changed(stack, t, g)
      \/ \E c \in Frame : Begins(c) /\ stack' = Called(Changed(stack, t, g), t, c)
  BY <1>4
<1> HIDE DEF g
<1>10. Done(g, Pending') = {}
  <2>1. ASSUME NEW i \in 1..Len(Kids[f.node])
        PROVE  \E o \in Pending'[kn] : o.ichild = i
    <3>1. i \in 1..Len(os) /\ os[i] \in Order /\ os[i].nursery = kn /\ os[i].ichild = i
      BY <1>2, <1>3 DEF Places
    <3>2. Outstanding(queue', stack', os[i])
      BY <1>4, <3>1 DEF Queued
    <3>3. os[i] \in Pending'[kn]
      BY <1>2, <3>1, <3>2 DEF Pending, Outstanding
    <3> QED BY <3>1, <3>3
  <2> QED BY <1>8, <2>1 DEF Done, SameCall
<1>11. Gathered(g, results', poll', Pending', verdict', abortFlag')
  <2>1. Collected(g, {}, results', poll', verdict')
    BY <1>7, <1>8 DEF Collected, SameCall
  <2> QED BY <1>8, <1>10, <2>1 DEF Gathered, Collecting, Leaving
<1>12. \A n \in Node : n = f.node \/ Untouched(n)
  <2>1. ASSUME NEW n \in Node, n # f.node
        PROVE  Untouched(n)
    <3>1. Children(n) \in Nursery /\ Children(n) # kn
      BY <1>2, <2>1, NurseriesOf
    <3> QED BY <1>1, <1>6, <3>1 DEF Untouched
  <2> QED BY <2>1
<1>13. (abortFlag => abortFlag') /\ UNCHANGED <<verdict, answers, round>>
  BY <1>1 DEF control
<1>14. CASE stack' = Changed(stack, t, g)
  BY <1>1, <1>2, <1>8, <1>11, <1>12, <1>13, <1>14, ChangedAnswers
<1>15. CASE \E c \in Frame : Begins(c) /\ stack' = Called(Changed(stack, t, g), t, c)
  <2>1. \A c : CallsItsChild(g, c)
    BY <1>8 DEF CallsItsChild
  <2> HIDE DEF f
  <2> QED BY <1>1, <1>2, <1>8, <1>11, <1>12, <1>13, <1>15, <2>1, CalledAnswers DEF f
<1> QED BY <1>9, <1>14, <1>15

LEMMA BackgroundPollSeriallyAnswers ==
  ASSUME Inv, Answering, NEW t \in Thread, BackgroundPollSerially(t)
  PROVE  Answering'
<1> DEFINE f == Top(t)
           sn == StepChildren(f.node)
           pc == IF Members(sn) = <<>> THEN "evaluate" ELSE "stepserial"
           g == [f EXCEPT !.pc = pc]
           c == ChildCall(f, sn, 1)
<1>1. /\ stack[t] # <<>> /\ f.pc = "step"
      /\ poll' = [poll EXCEPT ![sn].mt = FALSE]
      /\ UNCHANGED <<pool, executing, results, control>>
  BY DEF BackgroundPollSerially, At
<1>2. /\ f \in Frame /\ f.node \in Node /\ sn \in Nursery /\ sn[1] = f.node /\ Entered(f)
  BY <1>1, TopFacts, NurseriesOf DEF Entered
<1>3. \A n \in Node : poll'[Children(n)].cumul = poll[Children(n)].cumul
  <2>1. poll \in [Nursery -> PollState]
    BY DEF Inv, Typed
  <2>2. \A n \in Node : Children(n) \in Nursery /\ Children(n) # sn
    BY NurseriesOf DEF Children, StepChildren
  <2> HIDE DEF sn
  <2> QED BY <1>1, <2>1, <2>2
<1>4. queue' = queue /\ UNCHANGED <<verdict, abortFlag, answers, round>>
  BY <1>1 DEF pool, control
<1>5. /\ g \in Frame /\ SameCall(f, g) /\ g.flags = f.flags
      /\ g.pc \in {"evaluate", "stepserial"} /\ Entered(g)
  BY <1>2 DEF Frame, PC, Entered, SameCall
<1> HIDE DEF g
<1>6. ASSUME NEW pd
      PROVE  Gathered(g, results, poll', pd, verdict, abortFlag)
  <2>1. Gathered(f, results, poll, Pending, verdict, abortFlag)
    BY <1>1, TopGathered
  <2> QED BY <1>1, <1>5, <2>1 DEF Gathered, Collecting, Leaving, SameCall
<1>7. CASE Members(sn) = <<>>
  <2>1. stack' = Changed(stack, t, g)
    BY <1>7 DEF BackgroundPollSerially, Goto, Changed, g
  <2>2. Gathered(g, results', poll', Pending, verdict, abortFlag)
    BY <1>1, <1>6
  <2>3. \A n \in Node : /\ results'[n] = results[n]
                        /\ poll'[Children(n)].cumul = poll[Children(n)].cumul
    BY <1>1, <1>3
  <2>4. g.pc \notin {"clear", "finish"} /\ f.pc \notin {"clear", "finish"}
    BY <1>1, <1>5
  <2> QED BY <1>1, <1>4, <1>5, <2>1, <2>2, <2>3, <2>4, GoesOnAnswers
<1>8. CASE Members(sn) # <<>>
  <2>1. stack' = Called(Changed(stack, t, g), t, c)
    BY <1>8, CallIs DEF BackgroundPollSerially, g
  <2>2. 1 \in 1..Len(Members(sn))
    <3>1. Members(sn) \in Seq(Node) /\ Len(Members(sn)) \in Nat
      BY <1>2, MembersAreNodes
    <3> QED BY <1>8, <3>1
  <2>3. c \in Frame /\ Begins(c) /\ c.order = NoOrder
    BY <1>1, <1>2, <2>2, ChildCallFacts
  <2>4. CallsItsChild(g, c)
    BY <1>5 DEF CallsItsChild
  <2> HIDE DEF c
  <2>5. Pending' = Pending
    BY <1>1, <1>2, <1>4, <1>5, <2>1, <2>3, CalledPending DEF SameCall
  <2>6. Gathered(g, results', poll', Pending', verdict', abortFlag')
    BY <1>1, <1>4, <1>6, <2>5
  <2>7. \A n \in Node : Untouched(n)
    BY <1>1, <1>3, <2>5 DEF Untouched
  <2> HIDE DEF f
  <2> QED BY <1>1, <1>2, <1>4, <1>5, <2>1, <2>3, <2>4, <2>6, <2>7, CalledAnswers DEF f
<1> QED BY <1>7, <1>8

LEMMA BackgroundPollAnswers ==
  ASSUME Inv, Accounts, Answering, NEW t \in Thread, BackgroundPoll(t)
  PROVE  Answering'
<1> DEFINE f == Top(t)
           sn == StepChildren(f.node)
           d == f.depth + 1
           os == NewOrders(sn, d, f.req)
           q == B!Placed(os)
           g == [f EXCEPT !.pc = "evaluate"]
<1>1. /\ stack[t] # <<>> /\ f.pc = "step" /\ Multithreaded(sn) /\ Free(sn, d, f.req) # {}
      /\ poll' = [poll EXCEPT ![sn] = [@ EXCEPT !.mt = TRUE, !.on = TRUE,
                                               !.num = Len(Members(sn)), !.count = 0]]
      /\ queue' = q /\ stack' = Changed(stack, t, g)
      /\ UNCHANGED <<executing, results, control>>
  BY DEF BackgroundPoll, At, Goto, Changed, B!PushAndAwaken
<1>2. /\ f \in Frame /\ f.node \in Node /\ sn \in Nursery /\ sn[1] = f.node /\ Entered(f)
      /\ \A n \in Node : Children(n) \in Nursery /\ Children(n) # sn
  BY <1>1, TopFacts, NurseriesOf DEF Entered, Children, StepChildren
<1>3. /\ Places(os, sn, f.req) /\ os \in Seq(Order) /\ os # <<>>
      /\ \A i \in 1..Len(os) : os[i].depth + Height[NodeOf(os[i])] <= MaxDepth
  BY <1>1, <1>2, NewOrdersPlace
<1> HIDE DEF os
<1>4. \A o : Queued(q, o) <=> Queued(os, o) \/ Queued(queue, o)
  BY <1>3, PlacedOutstanding
<1> HIDE DEF q
<1>5. g \in Frame /\ SameCall(f, g) /\ g.flags = f.flags /\ g.pc = "evaluate"
  BY <1>2 DEF Frame, PC, SameCall
<1> HIDE DEF g
<1>6. Pending[sn] = {}
  BY <1>1, <1>2, TopStands DEF Stage, BeforeStep
<1>7. \A o \in Order : Outstanding(queue', stack', o) <=>
                         Queued(os, o) \/ Outstanding(queue, stack, o)
  <2>1. g.pc \notin {"clear", "finish"} <=> f.pc \notin {"clear", "finish"}
    BY <1>1, <1>5
  <2>2. \A o : Carried(stack', o) <=> Carried(stack, o)
    BY <1>1, <1>5, <2>1, SameCarried DEF SameCall
  <2> QED BY <1>1, <1>4, <2>2 DEF Outstanding
<1>8. \A mu \in Nursery : mu # sn => Pending'[mu] = Pending[mu] /\ poll'[mu] = poll[mu]
  <2>1. \A mu \in Nursery : mu # sn => Pending'[mu] = Pending[mu]
    BY <1>2, <1>3, <1>6, <1>7, NewPending
  <2>2. \A mu \in Nursery : mu # sn => poll'[mu] = poll[mu]
    BY <1>1, <1>2 DEF Inv, Typed
  <2> QED BY <2>1, <2>2
<1>9. \A n \in Node : Untouched(n)
  BY <1>1, <1>2, <1>8 DEF Untouched
<1>10. (abortFlag => abortFlag') /\ UNCHANGED <<verdict, abortFlag, answers, round>>
  BY <1>1 DEF control
<1>11. Gathered(g, results', poll', Pending', verdict', abortFlag')
  <2>1. Gathered(f, results, poll, Pending, verdict, abortFlag)
    BY <1>1, TopGathered
  <2> QED BY <1>1, <1>5, <1>10, <2>1 DEF Gathered, Collecting, Leaving, SameCall
<1> QED BY <1>1, <1>5, <1>9, <1>10, <1>11, ChangedAnswers

-----------------------------------------------------------------------------
(* The steps of an aborted evaluation, from which nothing is required.      *)

LEMMA AbortPollAnswers ==
  ASSUME Inv, Accounts, Answering, NEW t \in Thread, stack[t] # <<>>,
         Top(t).pc \in {"abort", "abortstep"}, NEW nu, NEW next \in {"abortstep", "wait"},
         AbortPoll(t, nu, next)
  PROVE  Answering'
<1> DEFINE f == Top(t)
           g == [f EXCEPT !.flags = {"ABORT"}, !.pc = next]
<1>1. stack' = Changed(stack, t, g) /\ UNCHANGED <<executing, results, control>>
  BY DEF AbortPoll, Changed
<1>2. f \in Frame /\ Entered(f)
  BY TopFacts DEF Entered
<1>3. /\ g \in Frame /\ SameCall(f, g) /\ g.flags = {"ABORT"} /\ g.pc \in {"abortstep", "wait"}
  BY <1>2 DEF Frame, PC, Flag, SameCall
<1> HIDE DEF g
<1>4. abortFlag
  BY <1>2, TopStands DEF Stage
<1>5. abortFlag' /\ UNCHANGED <<verdict, answers, round>>
  BY <1>1, <1>4 DEF control
<1>6. \A n \in Node : Untouched(n)
  BY <1>5 DEF Untouched
<1>7. Gathered(g, results', poll', Pending', verdict', abortFlag')
  BY <1>3 DEF Gathered, Collecting, Leaving, Aborted
<1> QED BY <1>1, <1>3, <1>5, <1>6, <1>7, ChangedAnswers

LEMMA AbortChildrenAnswers ==
  ASSUME Inv, Accounts, Answering, NEW t \in Thread, AbortChildren(t) \/ AbortStepChildren(t)
  PROVE  Answering'
BY AbortPollAnswers DEF AbortChildren, AbortStepChildren, At

LEMMA SyncResultDroppedAnswers ==
  ASSUME Inv, Accounts, Answering, NEW t \in Thread, SyncResultDropped(t)
  PROVE  Answering'
<1> DEFINE f == Top(t)
           nu == f.order.nursery
           g == [f EXCEPT !.pc = "finish"]
<1>1. /\ stack[t] # <<>> /\ f.pc = "deliver" /\ (~ poll[nu].on \/ poll[nu].abandon)
      /\ stack' = Changed(stack, t, g) /\ UNCHANGED <<pool, executing, poll, results, control>>
  BY DEF SyncResultDropped, At, Goto, Changed
<1>2. f \in Frame /\ nu \in Nursery /\ Pending[nu] # {}
  BY <1>1, TopFacts, OwesResult
<1>3. g \in Frame /\ SameCall(f, g) /\ g.pc = "finish"
  BY <1>2 DEF Frame, PC, SameCall
<1> HIDE DEF g
<1>4. abortFlag
  BY <1>1, <1>2, PollsHold DEF Polls
<1>5. abortFlag' /\ UNCHANGED <<verdict, answers, round>>
  BY <1>1, <1>4 DEF control
<1>6. \A n \in Node : Untouched(n)
  BY <1>5 DEF Untouched
<1>7. Gathered(g, results', poll', Pending', verdict', abortFlag')
  BY <1>3 DEF Gathered, Collecting, Leaving
<1> QED BY <1>1, <1>3, <1>5, <1>6, <1>7, ChangedAnswers

LEMMA ClearAbandonedAnswers ==
  ASSUME Inv, Accounts, Answering, NEW t \in Thread, ClearAbandoned(t)
  PROVE  Answering'
<1> DEFINE f == Top(t)
           nu == f.order.nursery
           g == [f EXCEPT !.pc = "finish"]
<1>1. /\ stack[t] # <<>> /\ f.pc = "clear"
      /\ stack' = Changed(stack, t, g) /\ UNCHANGED <<executing, poll, results, control>>
  BY DEF ClearAbandoned, At, Goto, Changed
<1>2. f \in Frame /\ nu \in Nursery
  BY <1>1, TopFacts, DeliversFor
<1>3. g \in Frame /\ SameCall(f, g) /\ g.pc = "finish"
  BY <1>2 DEF Frame, PC, SameCall
<1> HIDE DEF g
<1>4. abortFlag
  <2>1. poll[nu].abandon
    BY <1>1, TopStands DEF Stands
  <2> QED BY <1>2, <2>1, PollsHold DEF Polls
<1>5. abortFlag' /\ UNCHANGED <<verdict, answers, round>>
  BY <1>1, <1>4 DEF control
<1>6. \A n \in Node : Untouched(n)
  BY <1>5 DEF Untouched
<1>7. Gathered(g, results', poll', Pending', verdict', abortFlag')
  BY <1>3 DEF Gathered, Collecting, Leaving
<1> QED BY <1>1, <1>3, <1>5, <1>6, <1>7, ChangedAnswers

-----------------------------------------------------------------------------
(* The steps that drop off results.                                         *)

\* Where no evaluation is aborted, the polls have collected what they have to.
Collects(f) ==
  f.pc \in Collecting /\ ~ abortFlag =>
    Collected(f, Done(f, Pending'), results', poll', verdict)

\* A frame that is not done collecting may be woken up.
LEMMA WokenGathered ==
  ASSUME NEW f \in Frame, NEW h, Gathered(f, results, poll, Pending, verdict, abortFlag),
         Collects(f), UNCHANGED <<verdict, abortFlag>>,
         \/ h = f
         \/ f.pc = "asleep" /\ h = [f EXCEPT !.pc = "help"]
         \/ f.pc = "waiting" /\ h = [f EXCEPT !.pc = "wait"]
  PROVE  Gathered(h, results', poll', Pending', verdict', abortFlag')
<1>1. CASE h = f
  BY <1>1 DEF Gathered, Collects
<1>2. CASE f.pc = "asleep" /\ h = [f EXCEPT !.pc = "help"]
  <2>1. h.node = f.node /\ h.req = f.req /\ h.pc = "help"
    BY <1>2 DEF Frame
  <2>2. ~ abortFlag => Collected(f, Done(f, Pending'), results', poll', verdict)
    BY <1>2 DEF Collects, Collecting
  <2>3. Done(h, Pending') = Done(f, Pending')
    BY <1>2, <2>1 DEF Done
  <2>4. ~ abortFlag => Collected(h, Done(h, Pending'), results', poll', verdict)
    BY <2>1, <2>2, <2>3 DEF Collected
  <2> QED BY <2>1, <2>4 DEF Gathered, Collecting, Leaving
<1>3. CASE f.pc = "waiting" /\ h = [f EXCEPT !.pc = "wait"]
  <2>1. h.node = f.node /\ h.req = f.req /\ h.flags = f.flags /\ h.pc = "wait"
    BY <1>3 DEF Frame
  <2>2. Aborted(f) \/ f.flags = Code(verdict, f.node, f.req)
    BY <1>3 DEF Gathered, Leaving
  <2> QED BY <2>1, <2>2 DEF Gathered, Collecting, Leaving, Aborted
<1> QED BY <1>1, <1>2, <1>3

LEMMA DropsOffAnswers ==
  ASSUME Inv, Answering, Inv', NEW t \in Thread, stack[t] # <<>>, NEW g \in Frame,
         SameCall(Top(t), g), g.pc \in {"clear", "finish"}, DropsOff(t, g),
         UNCHANGED <<verdict, abortFlag, answers, round>>,
         \A u \in Thread : \A j \in 1..Len(stack[u]) : Collects(stack[u][j])
  PROVE  Answering'
<1> DEFINE L == Len(stack[t])
<1>1. ASSUME NEW u \in Thread, NEW j \in 1..Len(stack'[u])
      PROVE  Gathered(stack'[u][j], results', poll', Pending', verdict', abortFlag')
  <2>1. j \in 1..Len(stack[u])
    BY DEF DropsOff
  <2>2. CASE u = t /\ j = L
    <3>1. stack'[u][j] = g
      BY <2>1, <2>2 DEF DropsOff
    <3> QED BY <3>1 DEF Gathered, Collecting, Leaving
  <2>3. CASE ~ (u = t /\ j = L)
    <3> DEFINE f == stack[u][j]
               h == stack'[u][j]
    <3>1. /\ f \in Frame /\ Collects(f)
          /\ Gathered(f, results, poll, Pending, verdict, abortFlag)
      BY <2>1, FrameFacts DEF Answering, Gathers
    <3>2. \/ h = f
          \/ f.pc = "asleep" /\ h = [f EXCEPT !.pc = "help"]
          \/ f.pc = "waiting" /\ h = [f EXCEPT !.pc = "wait"]
      BY <2>1, <2>3 DEF DropsOff
    <3> HIDE DEF f, h
    <3>3. Gathered(h, results', poll', Pending', verdict', abortFlag')
      BY <3>1, <3>2, WokenGathered
    <3> QED BY <3>3 DEF h
  <2> QED BY <2>2, <2>3
<1>2. ASSUME NEW u \in Thread, NEW j \in 1..Len(stack[u])
      PROVE  SameCall(stack[u][j], stack'[u][j])
             /\ (j < Len(stack[u]) /\ stack'[u][j].pc = "serial" =>
                  stack[u][j].pc = "serial" /\ stack'[u][j].index = stack[u][j].index)
  <2>1. stack[u][j] \in Frame /\ Top(t) = stack[t][L]
    BY FrameFacts, TopFacts
  <2>2. CASE u = t /\ j = L
    BY <2>1, <2>2 DEF DropsOff
  <2>3. CASE stack'[u][j] = stack[u][j]
    BY <2>3 DEF SameCall
  <2>4. CASE \/ stack'[u][j] = [stack[u][j] EXCEPT !.pc = "help"]
             \/ stack'[u][j] = [stack[u][j] EXCEPT !.pc = "wait"]
    BY <2>1, <2>4 DEF SameCall, Frame
  <2> QED BY <2>2, <2>3, <2>4 DEF DropsOff
<1>3. SerialCalls(stack') /\ Asked(stack', answers, round)
  <2>1. /\ stack \in [Thread -> Seq(Frame)] /\ stack' \in [Thread -> Seq(Frame)]
        /\ Joiner \subseteq Thread
    BY StackFacts DEF Inv, Shape
  <2>2. \A u \in Thread : Len(stack'[u]) = Len(stack[u])
    BY DEF DropsOff
  <2>3. /\ SerialCalls(stack) => SerialCalls(stack')
        /\ \A ans, rd : Asked(stack, ans, rd) => Asked(stack', ans, rd)
    BY <1>2, <2>1, <2>2, LinksKept
  <2> QED BY <2>3 DEF Answering
<1>4. AnswersAreSerial'
  BY SerialKept DEF Answering
<1> QED BY <1>1, <1>3, <1>4 DEF Answering, Gathers

\* The polls of the children are as they were.
LEMMA StillCollects ==
  ASSUME Inv, Answering, NEW u \in Thread, NEW j \in 1..Len(stack[u]),
         Untouched(stack[u][j].node), UNCHANGED <<verdict, abortFlag>>
  PROVE  Collects(stack[u][j])
<1> DEFINE f == stack[u][j]
<1>1. Gathered(f, results, poll, Pending, verdict, abortFlag)
  BY DEF Answering, Gathers
<1>2. Gathered(f, results', poll', Pending', verdict', abortFlag')
  BY <1>1, GatheredKept
<1> QED BY <1>2 DEF Gathered, Collects

LEMMA LookAtBackgroundPollAnswers ==
  ASSUME Inv, Accounts, Answering, Inv', NEW t \in Thread, LookAtBackgroundPoll(t)
  PROVE  Answering'
<1> DEFINE f == Top(t)
           nu == f.order.nursery
           g == [f EXCEPT !.pc = IF poll[nu].on THEN "dropoff" ELSE "finish"]
<1>1. /\ stack[t] # <<>> /\ f.pc = "deliver" /\ nu[2] = "stepchildren"
      /\ stack' = Changed(stack, t, g) /\ UNCHANGED <<pool, executing, poll, results, control>>
  BY DEF LookAtBackgroundPoll, At, Goto, Changed
<1>2. f \in Frame /\ nu \in Nursery /\ f.order \in Order
  BY <1>1, TopFacts, OwesResult
<1>3. /\ g \in Frame /\ g.pc = (IF poll[nu].on THEN "dropoff" ELSE "finish")
      /\ SameCall(f, g) /\ g.flags = f.flags
  BY <1>2 DEF Frame, PC, SameCall
<1> HIDE DEF g
<1>4. CASE poll[nu].on
  <2>1. Gathered(f, results, poll, Pending, verdict, abortFlag)
    BY <1>1, TopGathered
  <2>2. Gathered(g, results', poll', Pending, verdict, abortFlag)
    BY <1>1, <1>3, <1>4, <2>1 DEF Gathered, Collecting, Leaving, SameCall, Aborted
  <2> QED BY <1>1, <1>3, <1>4, <2>2, GoesOnAnswers DEF control, pool
<1>5. CASE ~ poll[nu].on
  <2>1. DropsOff(t, g) /\ queue' = queue /\ g.pc = "finish"
    BY <1>1, <1>3, <1>5, DropsOffChanged DEF pool
  <2>2. \A mu \in Nursery : Pending'[mu] = Pending[mu] \ {f.order}
    BY <1>1, <2>1, DroppedPending
  <2>3. \A n \in Node : Untouched(n)
    <3>1. ASSUME NEW n \in Node
          PROVE  Pending'[Children(n)] = Pending[Children(n)]
      <4>1. Children(n) \in Nursery /\ Children(n) # nu
        BY <1>1, NurseriesOf
      <4>2. f.order \notin Pending[Children(n)]
        BY <4>1, PendingFacts
      <4> QED BY <2>2, <4>1, <4>2
    <3> QED BY <1>1, <3>1 DEF Untouched
  <2>4. UNCHANGED <<verdict, abortFlag, answers, round>>
    BY <1>1 DEF control
  <2>5. \A u \in Thread : \A j \in 1..Len(stack[u]) : Collects(stack[u][j])
    BY <2>3, <2>4, FrameFacts, StillCollects
  <2> QED BY <1>1, <1>3, <2>1, <2>4, <2>5, DropsOffAnswers
<1> QED BY <1>4, <1>5

LEMMA ReceiveBackgroundResultAnswers ==
  ASSUME Inv, Answering, Inv', NEW t \in Thread, ReceiveBackgroundResult(t)
  PROVE  Answering'
<1> DEFINE f == Top(t)
           nu == f.order.nursery
           g == [f EXCEPT !.pc = "finish"]
           wake == poll[nu].count + 1 >= poll[nu].num
<1>1. /\ stack[t] # <<>> /\ f.pc = "dropoff"
      /\ stack' = Delivered(t, nu, wake, "finish")
      /\ poll' = [poll EXCEPT ![nu].count = @ + 1]
      /\ UNCHANGED <<pool, executing, results, control>>
  BY DEF ReceiveBackgroundResult, At
<1>2. /\ f \in Frame /\ nu \in Nursery /\ f.order \in Order /\ nu[2] = "stepchildren"
  BY <1>1, TopFacts, OwesResult DEF FrameOK
<1>3. g \in Frame /\ g.pc = "finish" /\ SameCall(f, g)
  BY <1>2 DEF Frame, PC, SameCall
<1>4. DropsOff(t, g) /\ queue' = queue
  BY <1>1, DropsOffDelivered DEF pool
<1> HIDE DEF g
<1>5. \A mu \in Nursery : Pending'[mu] = Pending[mu] \ {f.order}
  BY <1>1, <1>3, <1>4, DroppedPending
<1>6. ASSUME NEW n \in Node
      PROVE  Untouched(n)
  <2>1. Children(n) \in Nursery /\ Children(n) # nu
    BY <1>2, NurseriesOf
  <2>2. f.order \notin Pending[Children(n)]
    BY <2>1, PendingFacts
  <2>3. Pending'[Children(n)] = Pending[Children(n)]
    BY <1>5, <2>1, <2>2
  <2>4. poll'[Children(n)] = poll[Children(n)]
    BY <1>1, <2>1 DEF Inv, Typed
  <2> QED BY <1>1, <2>3, <2>4 DEF Untouched
<1>7. UNCHANGED <<verdict, abortFlag, answers, round>>
  BY <1>1 DEF control
<1>8. \A u \in Thread : \A j \in 1..Len(stack[u]) : Collects(stack[u][j])
  BY <1>6, <1>7, FrameFacts, StillCollects
<1> QED BY <1>1, <1>3, <1>4, <1>7, <1>8, DropsOffAnswers

\* A result comes in: the poll of its nursery has one child more.
LEMMA DoneGrows ==
  ASSUME Accounts, NEW f, f.node \in Node, f.pc # "serial",
         ~ poll[Children(f.node)].abandon, NEW o \in Pending[Children(f.node)],
         Pending'[Children(f.node)] = Pending[Children(f.node)] \ {o}
  PROVE  Done(f, Pending') = Done(f, Pending) \cup {o.ichild}
<1> DEFINE kn == Children(f.node)
<1>1. kn \in Nursery /\ Members(kn) = Kids[f.node]
  BY NurseriesOf
<1>2. o.ichild \in 1..Len(Kids[f.node])
  <2>1. o \in Order /\ o.nursery = kn
    BY <1>1, PendingFacts
  <2> QED BY <1>1, <2>1, OrderFacts
<1>3. \A p \in Pending[kn] : p.ichild = o.ichild => p = o
  BY <1>1, PollsHold DEF Polls
<1> HIDE DEF kn
<1>4. /\ Done(f, Pending) = {i \in 1..Len(Kids[f.node]) : \A p \in Pending[kn] : p.ichild # i}
      /\ Done(f, Pending') = {i \in 1..Len(Kids[f.node]) : \A p \in Pending'[kn] : p.ichild # i}
  BY DEF Done, kn
<1>5. Pending'[kn] = Pending[kn] \ {o}
  BY DEF kn
<1> QED BY <1>2, <1>3, <1>4, <1>5

LEMMA ReceiveSyncResultAnswers ==
  ASSUME Inv, Accounts, Answering, Inv', NEW t \in Thread, ReceiveSyncResult(t)
  PROVE  Answering'
<1> DEFINE f == Top(t)
           o == f.order
           nu == o.nursery
           n == nu[1]
           stop == EndsPoll(nu, f.flags)
           wake == poll[nu].count + 1 >= poll[nu].num
           pc == IF stop THEN "clear" ELSE "finish"
           g == [f EXCEPT !.pc = pc]
<1>1. /\ stack[t] # <<>> /\ f.pc = "deliver" /\ nu[2] = "children"
      /\ poll[nu].on /\ ~ poll[nu].abandon
      /\ results' = [results EXCEPT ![n][o.ichild] = ResultOf(f)]
      /\ stack' = Delivered(t, nu, wake, pc)
      /\ UNCHANGED <<pool, executing, control>>
  BY DEF ReceiveSyncResult, At
<1>2. /\ f \in Frame /\ nu \in Nursery /\ n \in Node /\ o \in Order /\ o \in Pending[nu]
      /\ nu = Children(n) /\ Members(nu) = Kids[n] /\ o.ichild \in 1..Len(Kids[n])
  <2>1. f \in Frame /\ nu \in Nursery /\ n \in Node /\ o \in Order /\ o \in Pending[nu]
    BY <1>1, TopFacts, OwesResult DEF Nursery
  <2>2. nu = Children(n)
    BY <1>1, <2>1, NurseryIs DEF StepChildren
  <2>3. Members(nu) = Kids[n]
    BY <1>1 DEF Members
  <2> QED BY <1>1, <2>1, <2>2, <2>3, DeliversFor
<1>3. g \in Frame /\ g.pc \in {"clear", "finish"} /\ SameCall(f, g)
  <2>1. pc \in PC /\ pc \in {"clear", "finish"}
    BY DEF PC
  <2> HIDE DEF pc
  <2> QED BY <1>2, <2>1 DEF Frame, SameCall
<1>4. /\ \A mu \in Nursery : mu # nu => poll'[mu] = poll[mu]
      /\ poll'[nu].cumul = poll[nu].cumul \cup f.flags
  <2>1. poll \in [Nursery -> PollState]
    BY DEF Inv, Typed
  <2>2. poll' = [poll EXCEPT ![nu].cumul = Accumulated(@, f.flags),
                             ![nu].abandon = stop,
                             ![nu].count = @ + 1]
    BY DEF ReceiveSyncResult
  <2> HIDE DEF f, nu, stop
  <2> QED BY <1>2, <2>1, <2>2 DEF PollState, Accumulated
<1>5. /\ \A m \in Node : m # n => results'[m] = results[m]
      /\ results'[n][o.ichild] = ResultOf(f)
      /\ \A i \in 1..Len(Kids[n]) : i # o.ichild => results'[n][i] = results[n][i]
  <2>1. DOMAIN results = Node /\ results[n] \in [1..Len(Kids[n]) -> Result]
    <3> HIDE DEF n
    <3> QED BY <1>2 DEF Inv, Typed
  <2> HIDE DEF f, n, o
  <2> QED BY <1>1, <1>2, <2>1
<1>6. DropsOff(t, g) /\ queue' = queue
  BY <1>1, DropsOffDelivered DEF pool
<1> HIDE DEF g, pc, stop, wake
<1>7. \A mu \in Nursery : Pending'[mu] = Pending[mu] \ {o}
  BY <1>1, <1>3, <1>6, DroppedPending
<1>8. UNCHANGED <<verdict, abortFlag, answers, round>>
  BY <1>1 DEF control
<1>9. f.node = Kids[n][o.ichild] /\ f.req = o.req
  <2>1. f.node = NodeOf(o) /\ f.req = o.req
    <3>1. Len(stack[t]) \in 1..Len(stack[t]) /\ f = stack[t][Len(stack[t])] /\ o # NoOrder
      BY <1>1, <1>2, TopFacts, OrderFacts
    <3> HIDE DEF f
    <3> QED BY <3>1 DEF Inv, Shape, OrdersMatch
  <2> QED BY <1>2, <2>1 DEF NodeOf
<1>10. ~ abortFlag => f.flags = Code(verdict, f.node, f.req)
  BY <1>1, TopGathered, TopStands DEF Gathered
<1>11. ASSUME NEW u \in Thread, NEW j \in 1..Len(stack[u])
       PROVE  Collects(stack[u][j])
  <2> DEFINE k == stack[u][j]
  <2>1. k.node \in Node /\ Stands(k, poll, Pending, queue, abortFlag)
        /\ Gathered(k, results, poll, Pending, verdict, abortFlag)
    BY FrameFacts DEF Accounts, Answering, Gathers
  <2>2. ASSUME k.node # n
        PROVE  Collects(k)
    <3>1. Children(k.node) \in Nursery /\ Children(k.node) # nu
      BY <2>1, <2>2, NurseriesOf
    <3>2. o \notin Pending[Children(k.node)]
      BY <3>1, PendingFacts
    <3>3. Untouched(k.node)
      <4> HIDE DEF k, o, n, nu
      <4>1. Pending'[Children(k.node)] = Pending[Children(k.node)]
        BY <1>7, <3>1, <3>2
      <4> QED BY <1>4, <1>5, <2>1, <2>2, <3>1, <4>1 DEF Untouched
    <3> QED BY <1>8, <3>3, StillCollects
  <2> HIDE DEF k
  <2>3. ASSUME k.node = n, k.pc \in Collecting, ~ abortFlag
        PROVE  Collects(k)
    <3>1. Entered(k) /\ Children(k.node) = nu
      BY <1>2, <2>3 DEF Collecting, Entered
    <3>2. Stage(k, poll, Pending, queue, abortFlag)
      BY <2>1, <3>1 DEF Stands
    <3>3. k.pc # "serial" /\ o.req = k.req
      BY <1>2, <3>1, <3>2 DEF Stage
    <3>4. Done(k, Pending') = Done(k, Pending) \cup {o.ichild}
      BY <1>1, <1>2, <1>7, <2>3, <3>1, <3>3, DoneGrows
    <3>5. Collected(k, Done(k, Pending), results, poll, verdict)
      BY <2>1, <2>3 DEF Gathered
    <3>6. Done(k, Pending) \subseteq 1..Len(Kids[n])
      BY <2>3, <3>3 DEF Done
    <3>7. \A i \in Done(k, Pending') : results'[k.node][i].req = k.req
      <4>1. ResultOf(f).req = k.req
        BY <1>9, <3>3 DEF ResultOf
      <4>2. ASSUME NEW i \in Done(k, Pending), i # o.ichild
            PROVE  results'[n][i].req = k.req
        BY <1>5, <2>3, <3>5, <3>6, <4>2 DEF Collected
      <4> QED BY <1>5, <2>3, <3>4, <4>1, <4>2
    <3>8. poll'[nu].cumul = UNION {Code(verdict, Kids[k.node][i], k.req) : i \in Done(k, Pending')}
      <4>1. f.flags = Code(verdict, Kids[k.node][o.ichild], k.req)
        BY <1>9, <1>10, <2>3, <3>3
      <4>2. poll[nu].cumul = UNION {Code(verdict, Kids[k.node][i], k.req) : i \in Done(k, Pending)}
        BY <3>1, <3>5 DEF Collected
      <4> DEFINE C(i) == Code(verdict, Kids[k.node][i], k.req)
                 D == Done(k, Pending)
      <4>3. UNION {C(i) : i \in D \cup {o.ichild}} = (UNION {C(i) : i \in D}) \cup C(o.ichild)
        <5> HIDE DEF C, D
        <5> QED OBVIOUS
      <4> QED BY <1>4, <3>4, <4>1, <4>2, <4>3
    <3> QED BY <1>8, <3>1, <3>7, <3>8 DEF Collects, Collected
  <2>4. Collects(k)
    BY <2>2, <2>3 DEF Collects
  <2> QED BY <2>4 DEF k
<1> QED BY <1>1, <1>3, <1>6, <1>8, <1>11, DropsOffAnswers

-----------------------------------------------------------------------------
(* The steps that return.                                                   *)

\* The frame that is returned to is right below the top.
LEMMA CallerBelow ==
  ASSUME Inv, NEW t \in Thread, stack[t] # <<>>, Front(stack[t]) # <<>>
  PROVE  \E i \in 1..Len(stack[t]) :
           /\ i + 1 \in 1..Len(stack[t]) /\ Len(stack[t]) > 1
           /\ Last(Front(stack[t])) = stack[t][i] /\ Top(t) = stack[t][i + 1]
<1> DEFINE s == stack[t]
           b == Front(s)
<1>1. s \in Seq(Frame) /\ s # <<>> /\ Top(t) = s[Len(s)]
  BY TopFacts
<1>2. /\ b \in Seq(Frame) /\ b # <<>> /\ Len(b) = Len(s) - 1 /\ Len(s) \in Nat
      /\ \A i \in 1..Len(b) : i \in 1..Len(s) /\ b[i] = s[i]
  <2> HIDE DEF s
  <2> QED BY <1>1, Popped DEF s
<1> HIDE DEF b
<1>3. Last(b) = b[Len(b)] /\ Len(b) \in 1..Len(b)
  BY <1>2, Popped
<1>4. Len(b) \in 1..Len(s) /\ Len(b) + 1 = Len(s) /\ Last(b) = s[Len(b)]
  BY <1>2, <1>3
<1>5. Len(b) + 1 \in 1..Len(s) /\ Len(s) > 1
  <2> HIDE DEF s
  <2> QED BY <1>2, <1>3
<1> QED BY <1>1, <1>4, <1>5 DEF b

LEMMA ReturnsLinks ==
  ASSUME Inv, NEW t \in Thread, stack[t] # <<>>, Front(stack[t]) # <<>>,
         NEW nu, NEW stop, NEW pc, pc # "serial", NEW m \in Frame, ReturnsTo(t, nu, stop, pc, m),
         m.pc = "serial" => Members(nu) = Kids[m.node]
  PROVE  /\ SerialCalls(stack) => SerialCalls(stack')
         /\ \A ans, rd : Asked(stack, ans, rd) => Asked(stack', ans, rd)
<1> DEFINE st1 == Returned(stack, t)
           st2 == Changed(st1, t, m)
<1>1. stack \in [Thread -> Seq(Frame)] /\ Joiner \subseteq Thread
  BY StackFacts
<1>2. /\ SerialCalls(stack) => SerialCalls(st1)
      /\ \A ans, rd : Asked(stack, ans, rd) => Asked(st1, ans, rd)
  BY <1>1, CallerBelow, ReturnedLinks
<1>3. /\ st1 \in [Thread -> Seq(Frame)] /\ st1[t] # <<>> /\ Last(st1[t]) = Last(Front(stack[t]))
  BY <1>1, ReturnedFrames DEF Returned
<1>4. SameCall(Last(st1[t]), m)
  BY <1>3 DEF SameCall, ReturnsTo
<1> HIDE DEF st1
<1>5. /\ SerialCalls(st1) => SerialCalls(st2)
      /\ \A ans, rd : Asked(st1, ans, rd) => Asked(st2, ans, rd)
  BY <1>1, <1>3, <1>4, ChangedLinks
<1>6. st2 \in [Thread -> Seq(Frame)] /\ st2[t] # <<>> /\ Last(st2[t]) = m
  BY <1>3, LastChanged
<1> HIDE DEF st2
<1>7. CASE stack' = st2
  BY <1>2, <1>5, <1>7
<1>8. ASSUME NEW c \in Frame, c.node = Members(nu)[m.index], c.req = m.req,
             stack' = Called(st2, t, c)
      PROVE  /\ SerialCalls(stack) => SerialCalls(stack')
             /\ \A ans, rd : Asked(stack, ans, rd) => Asked(stack', ans, rd)
  <2>1. CallsItsChild(Last(st2[t]), c)
    BY <1>6, <1>8 DEF CallsItsChild
  <2>2. /\ SerialCalls(st2) => SerialCalls(Called(st2, t, c))
        /\ \A ans, rd : Asked(st2, ans, rd) => Asked(Called(st2, t, c), ans, rd)
    BY <1>6, <2>1, CalledLinks
  <2> QED BY <1>2, <1>5, <1>8, <2>2
<1>9. \/ stack' = st2
      \/ \E c \in Frame : c.node = Members(nu)[m.index] /\ c.req = m.req
                            /\ stack' = Called(st2, t, c)
  BY DEF ReturnsTo, st1, st2
<1> QED BY <1>7, <1>8, <1>9

LEMMA ReturnsAnswers ==
  ASSUME Inv, Answering, NEW t \in Thread, stack[t] # <<>>, Front(stack[t]) # <<>>,
         Top(t).order = NoOrder, Last(Front(stack[t])).pc \in {"serial", "stepserial"},
         NEW nu, NEW stop, NEW pc \in {"polled", "evaluate"}, NEW m \in Frame,
         ReturnsTo(t, nu, stop, pc, m), m.pc = "serial" => Members(nu) = Kids[m.node],
         UNCHANGED <<pool, control>>,
         \A n \in Node : \/ n = Last(Front(stack[t])).node
                         \/ /\ results'[n] = results[n]
                            /\ poll'[Children(n)].cumul = poll[Children(n)].cumul,
         Gathered(m, results', poll', Pending, verdict, abortFlag)
  PROVE  Answering'
<1> DEFINE caller == Last(Front(stack[t]))
<1>1. /\ m.order = caller.order /\ m.pc \in {pc, caller.pc}
      /\ \/ stack' = Changed(Returned(stack, t), t, m)
         \/ \E c \in Frame : /\ Begins(c) /\ c.order = NoOrder
                             /\ stack' = Called(Changed(Returned(stack, t), t, m), t, c)
  BY DEF ReturnsTo
<1>2. Entered(m)
  BY <1>1 DEF Entered
<1>3. UNCHANGED <<queue, verdict, abortFlag, answers, round>>
  BY DEF pool, control
<1>4. Pending' = Pending
  BY <1>1, <1>2, <1>3, ReturnedPending
<1>5. Acts(stack, stack', {caller.node}, m)
  BY <1>1, ReturnedActs
<1>6. \A n \in Node : n \in {caller.node} \/ Untouched(n)
  BY <1>4 DEF Untouched
<1>7. Gathers'
  BY <1>3, <1>4, <1>5, <1>6, GathersKept DEF Answering
<1>8. SerialCalls(stack') /\ Asked(stack', answers, round)
  <2>1. pc # "serial"
    OBVIOUS
  <2>2. SerialCalls(stack) /\ Asked(stack, answers, round)
    BY DEF Answering
  <2> QED BY <2>1, <2>2, ReturnsLinks
<1>9. AnswersAreSerial'
  BY <1>3, SerialKept DEF Answering
<1> QED BY <1>3, <1>7, <1>8, <1>9 DEF Answering

\* A serial poll that is not aborted goes on after every child.
LEMMA CallGoesOn ==
  ASSUME Undisturbed, NEW n \in Node, NEW flags, "ABORT" \notin flags
  PROVE  ~ EndsPoll(Children(n), flags)
<1>1. FailPolicy[n] # "AbandonPropagate" /\ MissingPolicy[n] # "AbandonPropagate"
  BY DEF Undisturbed
<1> QED BY <1>1 DEF EndsPoll, Children

LEMMA ReturnToPollAnswers ==
  ASSUME Undisturbed, Inv, Accounts, Answering, NEW t \in Thread, ReturnToPoll(t)
  PROVE  Answering'
<1> DEFINE f == Top(t)
           below == Front(stack[t])
           caller == Last(below)
           n == caller.node
           x == caller.index
           nu == Children(n)
           stop == ("ABORT" \in f.flags \/ EndsPoll(nu, f.flags))
<1>1. /\ stack[t] # <<>> /\ f.pc = "exit" /\ f.order = NoOrder
      /\ below # <<>> /\ caller.pc = "serial"
      /\ results' = [results EXCEPT ![n][x] = ResultOf(f)]
      /\ poll' = [poll EXCEPT ![nu].cumul = @ \cup f.flags]
      /\ stack' = [stack EXCEPT ![t] = Front(below) \o AfterChild(caller, nu, stop, "polled")]
      /\ UNCHANGED <<pool, control>>
  BY DEF ReturnToPoll, At
<1>2. /\ caller \in Frame /\ n \in Node /\ x \in 1..Len(Kids[n])
      /\ nu \in Nursery /\ nu[1] = n /\ nu[2] = "children" /\ Members(nu) = Kids[n]
  BY <1>1, CallerFacts, NurseriesOf
<1>3. PICK i \in 1..Len(stack[t]) :
        /\ i + 1 \in 1..Len(stack[t]) /\ caller = stack[t][i] /\ f = stack[t][i + 1]
  BY <1>1, CallerBelow
<1> HIDE DEF caller, f
<1>4. f.node = Kids[n][x] /\ f.req = caller.req
  <2>1. CallsItsChild(stack[t][i], stack[t][i + 1])
    BY <1>3 DEF Answering, SerialCalls
  <2> QED BY <1>1, <1>3, <2>1 DEF CallsItsChild
<1>5. /\ Stands(caller, poll, Pending, queue, abortFlag)
      /\ Gathered(caller, results, poll, Pending, verdict, abortFlag)
  BY <1>3 DEF Accounts, Answering, Gathers
<1>6. Pending[nu] = {}
  BY <1>1, <1>5 DEF Stands, Stage, Entered
<1>7. /\ \A mu \in Nursery : mu # nu => poll'[mu].cumul = poll[mu].cumul
      /\ poll'[nu].cumul = poll[nu].cumul \cup f.flags
  <2>1. poll \in [Nursery -> PollState]
    BY DEF Inv, Typed
  <2> HIDE DEF nu
  <2> QED BY <1>1, <1>2, <2>1 DEF PollState
<1>8. /\ \A m \in Node : m # n => results'[m] = results[m]
      /\ results'[n][x] = ResultOf(f)
      /\ \A j \in 1..Len(Kids[n]) : j # x => results'[n][j] = results[n][j]
  <2>1. DOMAIN results = Node /\ results[n] \in [1..Len(Kids[n]) -> Result]
    <3> HIDE DEF n
    <3> QED BY <1>2 DEF Inv, Typed
  <2> HIDE DEF n, x
  <2> QED BY <1>1, <1>2, <2>1
<1>9. stop \in BOOLEAN
  BY DEF EndsPoll
<1>10. ~ abortFlag => ~ stop /\ f.flags = Code(verdict, Kids[n][x], caller.req)
  <2> SUFFICES ASSUME ~ abortFlag
      PROVE  ~ stop /\ f.flags = Code(verdict, Kids[n][x], caller.req)
    OBVIOUS
  <2>1. ~ Aborted(f)
    BY <1>1, TopStands DEF f
  <2>2. Gathered(f, results, poll, Pending, verdict, abortFlag)
    BY <1>1, TopGathered DEF f
  <2>3. f.flags = Code(verdict, Kids[n][x], caller.req)
    BY <1>1, <1>4, <2>1, <2>2 DEF Gathered, Leaving
  <2>4. ~ stop
    BY <1>2, <2>1, CallGoesOn DEF Aborted
  <2> QED BY <2>3, <2>4
<1> HIDE DEF stop
<1>11. PICK m \in Frame : ReturnsTo(t, nu, stop, "polled", m)
  BY <1>1, <1>2, <1>9, ReturnedStack DEF caller
<1>12. /\ m.node = n /\ m.req = caller.req
       /\ \/ m.pc = "polled" /\ (stop \/ x = Len(Kids[n]))
          \/ m.pc = "serial" /\ m.index = x + 1
  BY <1>1, <1>2, <1>11 DEF ReturnsTo, caller
<1>13. ASSUME ~ abortFlag
       PROVE  Done(m, Pending) = 1..x /\ Done(caller, Pending) = 1..(x - 1)
  <2>1. Len(Kids[n]) \in Nat /\ x \in Nat
    BY <1>2, MembersAreNodes
  <2>2. Done(caller, Pending) = 1..(x - 1)
    BY <1>1 DEF Done
  <2>3. CASE m.pc = "polled"
    <3>1. x = Len(Kids[n])
      BY <1>10, <1>12, <1>13, <2>3
    <3>2. Done(m, Pending) = 1..Len(Kids[n])
      BY <1>6, <1>12, <2>3 DEF Done
    <3> QED BY <2>2, <3>1, <3>2
  <2>4. CASE m.pc = "serial"
    <3>1. m.index - 1 = x
      BY <1>12, <2>1, <2>4
    <3> QED BY <2>2, <2>4, <3>1 DEF Done
  <2> QED BY <1>12, <2>3, <2>4
<1>14. Gathered(m, results', poll', Pending, verdict, abortFlag)
  <2>1. ASSUME ~ abortFlag
        PROVE  Collected(m, Done(m, Pending), results', poll', verdict)
    <3> DEFINE C(j) == Code(verdict, Kids[n][j], caller.req)
               D == 1..(x - 1)
    <3>1. /\ \A j \in D : results[n][j].req = caller.req
          /\ poll[nu].cumul = UNION {C(j) : j \in D}
      BY <1>1, <1>5, <1>13, <2>1 DEF Gathered, Collected, Collecting
    <3>2. 1..x = D \cup {x} /\ D \subseteq 1..Len(Kids[n]) /\ x \notin D
      <4>1. x \in Nat /\ Len(Kids[n]) \in Nat /\ 1 <= x /\ x <= Len(Kids[n])
        BY <1>2, MembersAreNodes
      <4> HIDE DEF x
      <4> QED BY <4>1
    <3> HIDE DEF C, D
    <3>3. UNION {C(j) : j \in D \cup {x}} = (UNION {C(j) : j \in D}) \cup C(x)
      OBVIOUS
    <3>4. poll'[nu].cumul = UNION {C(j) : j \in 1..x}
      <4>1. f.flags = C(x)
        BY <1>10, <2>1 DEF C
      <4> QED BY <1>7, <3>1, <3>2, <3>3, <4>1
    <3>5. ASSUME NEW j \in 1..x
          PROVE  results'[n][j].req = caller.req
      <4>1. CASE j = x
        BY <1>4, <1>8, <4>1 DEF ResultOf
      <4>2. CASE j \in D
        BY <1>8, <3>1, <3>2, <4>2
      <4> QED BY <3>2, <4>1, <4>2
    <3> QED BY <1>12, <1>13, <2>1, <3>4, <3>5 DEF Collected, C
  <2> QED BY <1>12, <2>1 DEF Gathered, Leaving
<1>15. m.pc = "serial" => Members(nu) = Kids[m.node]
  BY <1>2, <1>12
<1>16. \A k \in Node : \/ k = n
                       \/ /\ results'[k] = results[k]
                          /\ poll'[Children(k)].cumul = poll[Children(k)].cumul
  <2>1. \A k \in Node : k # n => Children(k) \in Nursery /\ Children(k) # nu
    BY NurseriesOf DEF Children
  <2> QED BY <1>7, <1>8, <2>1
<1> HIDE DEF nu, x
<1> QED BY <1>1, <1>11, <1>14, <1>15, <1>16, ReturnsAnswers DEF f, caller

LEMMA ReturnToBackgroundPollAnswers ==
  ASSUME Inv, Accounts, Answering, NEW t \in Thread, ReturnToBackgroundPoll(t)
  PROVE  Answering'
<1> DEFINE f == Top(t)
           below == Front(stack[t])
           caller == Last(below)
           n == caller.node
           nu == StepChildren(n)
           stop == "ABORT" \in f.flags
<1>1. /\ stack[t] # <<>> /\ f.order = NoOrder
      /\ below # <<>> /\ caller.pc = "stepserial"
      /\ stack' = [stack EXCEPT ![t] = Front(below) \o AfterChild(caller, nu, stop, "evaluate")]
      /\ UNCHANGED <<pool, poll, results, control>>
  BY DEF ReturnToBackgroundPoll, At
<1>2. nu \in Nursery /\ nu[1] = n /\ nu[2] = "stepchildren"
  BY <1>1, CallerFacts, NurseriesOf
<1>3. PICK m \in Frame : ReturnsTo(t, nu, stop, "evaluate", m)
  <2>1. stop \in BOOLEAN
    OBVIOUS
  <2> HIDE DEF nu, stop
  <2> QED BY <1>1, <1>2, <2>1, ReturnedStack
<1>4. /\ m.node = n /\ m.req = caller.req /\ m.flags = caller.flags
      /\ m.pc \in {"evaluate", "stepserial"}
  BY <1>1, <1>3 DEF ReturnsTo
<1>5. Gathered(caller, results, poll, Pending, verdict, abortFlag)
  BY <1>1, CallerBelow DEF Answering, Gathers
<1>6. Gathered(m, results', poll', Pending, verdict, abortFlag)
  <2> HIDE DEF caller
  <2> QED BY <1>1, <1>4, <1>5 DEF Gathered, Collecting, Leaving
<1>7. m.pc # "serial"
  BY <1>4
<1> HIDE DEF nu, stop
<1> QED BY <1>1, <1>3, <1>6, <1>7, ReturnsAnswers

\* A frame is gone and nothing else has changed.
LEMMA GoneAnswers ==
  ASSUME Inv, Answering, NEW t \in Thread, stack[t] # <<>>, stack' = Returned(stack, t),
         \A o \in Order : ~ Carries(Top(t), o),
         UNCHANGED <<queue, poll, results, verdict, abortFlag>>
  PROVE  Gathers' /\ SerialCalls(stack')
<1>1. Top(t) = Last(stack[t]) /\ stack \in [Thread -> Seq(Frame)]
  BY TopFacts, StackFacts
<1>2. \A o \in Order : Carried(stack, o) <=> Carried(stack', o)
  BY <1>1, ReturnedCarries
<1>3. Pending' = Pending
  BY <1>2, PendingSame
<1>4. Acts(stack, stack', {}, Top(t))
  BY ReturnActs
<1>5. \A n \in Node : Untouched(n)
  BY <1>3 DEF Untouched
<1>6. Gathered(Top(t), results', poll', Pending', verdict', abortFlag')
  BY <1>3, TopGathered
<1>7. Gathers'
  BY <1>4, <1>5, <1>6, GathersKept DEF Answering
<1>8. SerialCalls(stack')
  BY <1>1, ReturnedLinks DEF Answering
<1> QED BY <1>7, <1>8

LEMMA AnswerAnswers ==
  ASSUME Inv, Accounts, Answering, NEW t \in Thread, Answer(t)
  PROVE  Answering'
<1> DEFINE f == Top(t)
<1>1. /\ stack[t] # <<>> /\ f.pc = "exit" /\ f.order = NoOrder /\ Len(stack[t]) = 1
      /\ stack' = [stack EXCEPT ![t] = <<>>] /\ answers' = Append(answers, f.flags)
      /\ UNCHANGED <<pool, poll, results, verdict, abortFlag, round>>
  BY DEF Answer, At
<1>2. /\ f = stack[t][1] /\ stack[t] \in Seq(Frame) /\ stack \in [Thread -> Seq(Frame)]
      /\ answers \in Seq(SUBSET Flag) /\ f.flags \in SUBSET Flag
  BY <1>1, TopFacts, StackFacts DEF Inv, Typed
<1>3. t \in Joiner
  BY <1>1, <1>2 DEF Inv, Shape, Started
<1>4. Len(answers) + 1 = round /\ f.node = Root /\ f.req = round
  BY <1>1, <1>2, <1>3 DEF Answering, Asked
<1>5. /\ Len(answers') = round /\ answers'[round] = f.flags
      /\ \A r \in 1..Len(answers') : r = round \/ (r \in 1..Len(answers) /\ answers'[r] = answers[r])
  <2>1. Len(answers) \in Nat
    BY <1>2
  <2> QED BY <1>1, <1>2, <1>4, <2>1
<1>6. stack' = Returned(stack, t)
  <2>1. Front(stack[t]) \in Seq(Frame) /\ Len(Front(stack[t])) = 0
    BY <1>1, <1>2, Popped
  <2>2. Front(stack[t]) = <<>>
    BY <2>1
  <2> QED BY <1>1, <2>2 DEF Returned
<1>7. Gathers' /\ SerialCalls(stack')
  <2>1. \A o \in Order : ~ Carries(f, o)
    BY <1>1, OrderFacts DEF Carries
  <2> HIDE DEF f
  <2> QED BY <1>1, <1>6, <2>1, GoneAnswers DEF pool, f
<1>8. Asked(stack', answers', round')
  <2>1. \A u \in Joiner : stack'[u] = <<>>
    BY <1>1, <1>2, <1>3, ServerAssumption
  <2> QED BY <1>1, <1>5, <2>1 DEF Asked
<1>9. f.flags = SerialAnswer(round) \/ (MayAbort /\ "ABORT" \in f.flags)
  <2>1. Aborted(f) \/ f.flags = Code(verdict, f.node, f.req)
    BY <1>1, TopGathered DEF Gathered, Leaving
  <2>2. Aborted(f) => MayAbort
    BY <1>1, TopStands DEF Accounts
  <2> QED BY <1>4, <2>1, <2>2 DEF Aborted, Code, SerialAnswer
<1>10. AnswersAreSerial'
  <2>1. ASSUME NEW r \in 1..Len(answers')
        PROVE  answers'[r] = SerialCodes(verdict', r)[Root] \/ (MayAbort /\ "ABORT" \in answers'[r])
    <3>1. CASE r = round
      BY <1>1, <1>5, <1>9, <3>1 DEF SerialAnswer
    <3>2. CASE r \in 1..Len(answers) /\ answers'[r] = answers[r]
      BY <1>1, <3>2 DEF Answering, AnswersAreSerial, SerialAnswer
    <3> QED BY <1>5, <3>1, <3>2
  <2> QED BY <2>1 DEF AnswersAreSerial, SerialAnswer
<1> QED BY <1>7, <1>8, <1>10 DEF Answering

LEMMA FinishOrderAnswers ==
  ASSUME Inv, Answering, NEW t \in Thread, FinishOrder(t)
  PROVE  Answering'
<1> DEFINE f == Top(t)
<1>1. /\ stack[t] # <<>> /\ f.pc = "finish" /\ queue' = queue
      /\ stack' = Returned(stack, t) /\ UNCHANGED <<executing, poll, results, control>>
  BY DEF FinishOrder, At, Returned, B!FinishWithWorkOrder
<1>2. f = stack[t][Len(stack[t])] /\ f.order # NoOrder /\ Len(stack[t]) \in 1..Len(stack[t])
  BY <1>1, TopFacts, DeliversFor
<1>3. Gathers' /\ SerialCalls(stack')
  <2>1. \A o \in Order : ~ Carries(f, o)
    BY <1>1 DEF Carries
  <2> HIDE DEF f
  <2> QED BY <1>1, <2>1, GoneAnswers DEF control, f
<1>4. Len(stack[t]) > 1 \/ t \notin Joiner
  <2> SUFFICES ASSUME t \in Joiner, ~ (Len(stack[t]) > 1)
      PROVE  FALSE
    OBVIOUS
  <2>1. Len(stack[t]) = 1
    <3>1. Len(stack[t]) \in Nat /\ Len(stack[t]) >= 1
      BY <1>1, <1>2, TopFacts
    <3>2. \A k \in Nat : k >= 1 /\ ~ (k > 1) => k = 1
      OBVIOUS
    <3> QED BY <3>1, <3>2
  <2>2. stack[t][1].order = NoOrder
    BY <1>1 DEF Answering, Asked
  <2> QED BY <1>2, <2>1, <2>2
<1>5. Asked(stack', answers, round)
  BY <1>1, <1>4, StackFacts, ReturnedLinks DEF Answering
<1>6. UNCHANGED <<verdict, answers, round>>
  BY <1>1 DEF control
<1>7. AnswersAreSerial'
  BY <1>6, SerialKept DEF Answering
<1> QED BY <1>3, <1>5, <1>6, <1>7 DEF Answering

-----------------------------------------------------------------------------
(* Together.                                                                *)

LEMMA InitAnswers == Init => Answering
<1> SUFFICES ASSUME Init
    PROVE  Answering
  OBVIOUS
<1>1. stack = [t \in Thread |-> <<>>] /\ round = 0 /\ answers = <<>>
  BY DEF Init
<1>2. \A t \in Thread : stack[t] = <<>> /\ Len(stack[t]) = 0
  BY <1>1
<1>3. Gathers /\ SerialCalls(stack)
  BY <1>2 DEF Gathers, SerialCalls
<1>4. Asked(stack, answers, round)
  <2>1. Joiner \subseteq Thread
    BY InitInv, StackFacts
  <2> QED BY <1>1, <1>2, <2>1 DEF Asked
<1>5. AnswersAreSerial
  BY <1>1 DEF AnswersAreSerial
<1> QED BY <1>3, <1>4, <1>5 DEF Answering

LEMMA ThreadAnswers ==
  ASSUME Undisturbed, Inv, Accounts, Answering, Inv', NEW t \in Thread, ThreadStep(t)
  PROVE  Answering'
<1>1. CASE Join(t) \/ WorkerSleeps(t)
  BY <1>1, JoinAnswers
<1>2. CASE WorkerTakes(t)
  BY <1>2, WorkerTakesAnswers
<1>3. CASE NextRequest(t)
  BY <1>3, NextRequestAnswers
<1>4. CASE Enter(t)
  BY <1>4, EnterAnswers
<1>5. CASE SyncPoll(t)
  BY <1>5, SyncPollAnswers
<1>6. CASE SyncPollSerially(t)
  BY <1>6, SyncPollSeriallyAnswers
<1>7. CASE HelpYourself(t)
  BY <1>7, HelpYourselfAnswers
<1>8. CASE CheckPoll(t)
  BY <1>8, CheckPollAnswers
<1>9. CASE Polled(t)
  BY <1>9, PolledAnswers
<1>10. CASE BackgroundPoll(t)
  BY <1>10, BackgroundPollAnswers
<1>11. CASE BackgroundPollSerially(t)
  BY <1>11, BackgroundPollSeriallyAnswers
<1>12. CASE Evaluate(t)
  BY <1>12, EvaluateAnswers
<1>13. CASE EvaluateAborted(t)
  BY <1>13, EvaluateAbortedAnswers
<1>14. CASE AbortChildren(t) \/ AbortStepChildren(t)
  BY <1>14, AbortChildrenAnswers
<1>15. CASE WaitForEndOfPoll(t)
  BY <1>15, WaitForEndOfPollAnswers
<1>16. CASE ReturnToOrder(t)
  BY <1>16, ReturnToOrderAnswers
<1>17. CASE ReturnToPoll(t)
  BY <1>17, ReturnToPollAnswers
<1>18. CASE ReturnToBackgroundPoll(t)
  BY <1>18, ReturnToBackgroundPollAnswers
<1>19. CASE Answer(t)
  BY <1>19, AnswerAnswers
<1>20. CASE SyncResultDropped(t)
  BY <1>20, SyncResultDroppedAnswers
<1>21. CASE ReceiveSyncResult(t)
  BY <1>21, ReceiveSyncResultAnswers
<1>22. CASE ClearAbandoned(t)
  BY <1>22, ClearAbandonedAnswers
<1>23. CASE LookAtBackgroundPoll(t)
  BY <1>23, LookAtBackgroundPollAnswers
<1>24. CASE ReceiveBackgroundResult(t)
  BY <1>24, ReceiveBackgroundResultAnswers
<1>25. CASE FinishOrder(t)
  BY <1>25, FinishOrderAnswers
<1> QED BY <1>1, <1>2, <1>3, <1>4, <1>5, <1>6, <1>7, <1>8, <1>9, <1>10, <1>11, <1>12,
           <1>13, <1>14, <1>15, <1>16, <1>17, <1>18, <1>19, <1>20, <1>21, <1>22,
           <1>23, <1>24, <1>25 DEF ThreadStep, ExecStep

LEMMA NextAnswers == Undisturbed /\ Inv /\ Accounts /\ Answering /\ [Next]_vars => Answering'
<1> SUFFICES ASSUME Undisturbed, Inv, Accounts, Answering, [Next]_vars
    PROVE  Answering'
  OBVIOUS
<1>1. Inv'
  BY NextInv
<1>2. CASE \E t \in Thread : ThreadStep(t)
  BY <1>1, <1>2, ThreadAnswers
<1>3. CASE RaiseAbort
  BY <1>3, RaiseAbortAnswers
<1>4. CASE UNCHANGED vars
  BY <1>4, SameAnswers DEF vars, pool
<1>5. CASE NoMoreRequests
  BY <1>4, <1>5 DEF NoMoreRequests
<1> QED BY <1>2, <1>3, <1>4, <1>5 DEF Next

LEMMA AnsweringHolds == Undisturbed => (Spec => []Inv /\ []Accounts /\ []Answering)
<1> SUFFICES ASSUME Undisturbed
    PROVE  Spec => []Inv /\ []Accounts /\ []Answering
  OBVIOUS
<1>1. Init => Inv /\ Accounts /\ Answering
  BY InitInv, InitAccounts, InitAnswers
<1>2. Inv /\ Accounts /\ Answering /\ [Next]_vars => Inv' /\ Accounts' /\ Answering'
  BY NextInv, NextAccounts, NextAnswers
<1> QED BY <1>1, <1>2, PTL DEF Spec

-----------------------------------------------------------------------------
\* What syncPoll() promises (NodeNursery.h): when it returns and was not abandoned
\* or aborted, it has the result of every child, and of this very request; none is
\* a result that was left over from an earlier one or dropped off by a late thread.
THEOREM PollsCollectTheirOwnResults == Undisturbed => (Spec => []ResultsOfThisPoll)
<1> SUFFICES ASSUME Undisturbed
    PROVE  Spec => []ResultsOfThisPoll
  OBVIOUS
<1>1. ASSUME Inv, Accounts, Answering
      PROVE  ResultsOfThisPoll
  <2> SUFFICES ASSUME NEW t \in Thread, At(t, "polled"), ~ abortFlag,
                      NEW i \in 1..Len(Kids[Top(t).node])
      PROVE  results[Top(t).node][i].req = Top(t).req
    BY DEF ResultsOfThisPoll
  <2>1. Collected(Top(t), 1..Len(Kids[Top(t).node]), results, poll, verdict)
    BY <1>1, PollIsComplete DEF At
  <2> QED BY <2>1 DEF Collected
<1> QED BY <1>1, AnsweringHolds, PTL

\* Multithreaded polling changes nothing of what a tree answers: whatever threads
\* execute whatever orders in whatever order, the root's code for a request is the
\* code of a serial evaluation of the forest, or the request is aborted.
THEOREM AnswersOfASerialEvaluation == Undisturbed => (Spec => []AnswersAreSerial)
<1> SUFFICES ASSUME Undisturbed
    PROVE  Spec => []AnswersAreSerial
  OBVIOUS
<1>1. Answering => AnswersAreSerial
  BY DEF Answering
<1> QED BY <1>1, AnsweringHolds, PTL
=============================================================================
