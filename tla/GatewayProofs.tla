---------------------------- MODULE GatewayProofs ----------------------------
(***************************************************************************)
(* Proofs about GatewayWP, for any number of workers and letters: the      *)
(* queue stays in order, no message is lost or doubled between the queue   *)
(* and the workers, and no head of the queue is left to sleeping workers.  *)
(***************************************************************************)
EXTENDS GatewayWP, TLAPS, WellFoundedInduction

-----------------------------------------------------------------------------
(* What enqueue and enqueueFront do to a queue: lemmas about MessageQueue. *)

(* A set of natural numbers that is not empty has a least element: the     *)
(* place where a scan of the queue stops.                                  *)
LEMMA Least ==
    ASSUME NEW S \in SUBSET Nat, S # {}
    PROVE  \E x \in S : \A y \in S : x <= y
<1> DEFINE R == {ss \in Nat \X Nat : ss[1] < ss[2]}
<1>1. IsWellFoundedOn(R, Nat)
  BY NatLessThanWellFounded DEF OpToRel
<1>2. \A y, x \in Nat : <<y, x>> \notin R => ~(y < x)
  OBVIOUS
<1>3. PICK x \in S : \A y \in S : ~(<<y, x>> \in R)
  <2> HIDE DEF R
  <2> QED  BY <1>1, WFMin
<1>4. \A y \in S : x <= y
  <2> TAKE y \in S
  <2>1. <<y, x>> \notin R
    BY <1>3
  <2>2. x \in Nat /\ y \in Nat
    OBVIOUS
  <2> QED  BY <1>2, <2>1, <2>2
<1> QED
  BY <1>4

(* A queue with a message put in at any place is a queue, one longer.      *)
LEMMA InsertedAtQueue ==
    ASSUME NEW q \in Seq(Messages), NEW m \in Messages, NEW k \in 0 .. Len(q)
    PROVE  /\ InsertedAt(q, k, m) \in Seq(Messages)
           /\ Len(InsertedAt(q, k, m)) = Len(q) + 1
           /\ \A i \in 1 .. Len(q) + 1 :
                 InsertedAt(q, k, m)[i] =
                    IF i <= k THEN q[i] ELSE IF i = k + 1 THEN m ELSE q[i - 1]
<1> DEFINE r == InsertedAt(q, k, m)
<1>1. Len(q) \in Nat /\ k \in Nat /\ k <= Len(q)
  OBVIOUS
<1>2. \A i \in 1 .. Len(q) : q[i] \in Messages
  OBVIOUS
<1>3. \A i \in 1 .. Len(q) + 1 :
         (IF i <= k THEN q[i] ELSE IF i = k + 1 THEN m ELSE q[i - 1]) \in Messages
  BY <1>1, <1>2
<1>4. r \in [1 .. Len(q) + 1 -> Messages]
  BY <1>3 DEF InsertedAt
<1>5. r \in Seq(Messages) /\ Len(r) = Len(q) + 1
  BY <1>1, <1>4
<1> QED
  BY <1>5 DEF InsertedAt

(* It holds what it held and the new message, which is at its place.       *)
LEMMA InsertedAtContents ==
    ASSUME NEW q \in Seq(Messages), NEW m \in Messages, NEW k \in 0 .. Len(q)
    PROVE  /\ Contents(InsertedAt(q, k, m)) = Contents(q) \cup {m}
           /\ Once(q) /\ m \notin Contents(q) => Once(InsertedAt(q, k, m))
           /\ k = 0 => Head(InsertedAt(q, k, m)) = m
           /\ k # 0 => q # <<>> /\ Head(InsertedAt(q, k, m)) = Head(q)
           /\ InsertedAt(q, k, m) # <<>>
<1> DEFINE r == InsertedAt(q, k, m)
<1>1. Len(q) \in Nat /\ k \in Nat /\ k <= Len(q)
  OBVIOUS
<1>2. /\ r \in Seq(Messages)
      /\ Len(r) = Len(q) + 1
      /\ \A i \in 1 .. Len(q) + 1 :
            r[i] = IF i <= k THEN q[i] ELSE IF i = k + 1 THEN m ELSE q[i - 1]
  BY InsertedAtQueue
<1> HIDE DEF r
<1>3. \A i \in 1 .. Len(r) : r[i] \in Contents(q) \cup {m}
  <2> TAKE i \in 1 .. Len(r)
  <2>1. CASE i <= k
    BY <1>1, <1>2, <2>1 DEF Contents
  <2>2. CASE i = k + 1
    BY <1>1, <1>2, <2>2
  <2>3. CASE i > k + 1
    <3>1. i - 1 \in 1 .. Len(q) /\ r[i] = q[i - 1]
      BY <1>1, <1>2, <2>3
    <3> QED  BY <3>1 DEF Contents
  <2> QED  BY <1>1, <1>2, <2>1, <2>2, <2>3
<1>4. m \in Contents(r)
  <2>1. k + 1 \in 1 .. Len(r) /\ r[k + 1] = m
    BY <1>1, <1>2
  <2> QED  BY <2>1 DEF Contents
<1>5. ASSUME NEW i \in 1 .. Len(q)  PROVE q[i] \in Contents(r)
  <2>1. CASE i <= k
    <3>1. i \in 1 .. Len(r) /\ r[i] = q[i]
      BY <1>1, <1>2, <2>1
    <3> QED  BY <3>1 DEF Contents
  <2>2. CASE i > k
    <3>1. i + 1 \in 1 .. Len(r) /\ r[i + 1] = q[i]
      BY <1>1, <1>2, <2>2
    <3> QED  BY <3>1 DEF Contents
  <2> QED  BY <1>1, <2>1, <2>2
<1>6. Contents(r) = Contents(q) \cup {m}
  BY <1>3, <1>4, <1>5 DEF Contents
<1>7. ASSUME Once(q), m \notin Contents(q)  PROVE Once(r)
  <2>0. SUFFICES \A i, j \in 1 .. Len(r) : i < j => r[i] # r[j]
    <3>1. ASSUME NEW i \in 1 .. Len(r), NEW j \in 1 .. Len(r), r[i] = r[j],
                 \A a, b \in 1 .. Len(r) : a < b => r[a] # r[b]
          PROVE  i = j
      <4>1. i \in Int /\ j \in Int /\ ~(i < j) /\ ~(j < i)
        BY <3>1
      <4> QED  BY <4>1
    <3> QED  BY <3>1 DEF Once
  <2>1. SUFFICES ASSUME NEW i \in 1 .. Len(r), NEW j \in 1 .. Len(r),
                        r[i] = r[j], i < j
                 PROVE  FALSE
    OBVIOUS
  <2>2. \A l \in 1 .. Len(q) : q[l] # m
    BY <1>7 DEF Contents
  <2>3. CASE i <= k /\ j <= k
    <3>1. r[i] = q[i] /\ r[j] = q[j] /\ i \in 1 .. Len(q) /\ j \in 1 .. Len(q)
      BY <1>1, <1>2, <2>3
    <3>2. i = j
      BY <1>7, <2>1, <3>1 DEF Once
    <3> QED  BY <2>1, <3>2
  <2>4. CASE i <= k /\ j = k + 1
    <3>1. r[i] = q[i] /\ r[j] = m /\ i \in 1 .. Len(q)
      BY <1>1, <1>2, <2>4
    <3> QED  BY <2>1, <2>2, <3>1
  <2>5. CASE i <= k /\ j > k + 1
    <3>1. r[i] = q[i] /\ r[j] = q[j - 1] /\ i \in 1 .. Len(q) /\ j - 1 \in 1 .. Len(q)
      BY <1>1, <1>2, <2>5
    <3>2. i = j - 1
      BY <1>7, <2>1, <3>1 DEF Once
    <3> QED  BY <1>1, <2>5, <3>2
  <2>6. CASE i = k + 1 /\ j > k + 1
    <3>1. r[i] = m /\ r[j] = q[j - 1] /\ j - 1 \in 1 .. Len(q)
      BY <1>1, <1>2, <2>6
    <3> QED  BY <2>1, <2>2, <3>1
  <2>7. CASE i > k + 1 /\ j > k + 1
    <3>1. /\ r[i] = q[i - 1] /\ r[j] = q[j - 1]
          /\ i - 1 \in 1 .. Len(q) /\ j - 1 \in 1 .. Len(q)
      BY <1>1, <1>2, <2>7
    <3>2. i - 1 = j - 1
      BY <1>7, <2>1, <3>1 DEF Once
    <3> QED  BY <2>1, <3>2
  <2> QED  BY <1>1, <1>2, <2>1, <2>3, <2>4, <2>5, <2>6, <2>7
<1>8. k = 0 => Head(r) = m
  BY <1>1, <1>2
<1>9. k # 0 => q # <<>> /\ Head(r) = Head(q)
  BY <1>1, <1>2
<1>10. r # <<>>
  BY <1>1, <1>2
<1> QED
  BY <1>6, <1>7, <1>8, <1>9, <1>10 DEF r

(* A message put between those of higher or equal and those of lower or    *)
(* equal priority leaves the queue in order.                               *)
LEMMA InsertedAtOrder ==
    ASSUME NEW q \in Seq(Messages), NEW m \in Messages, NEW k \in 0 .. Len(q),
           ByPriority(q),
           \A i \in 1 .. k : Pri[q[i]] >= Pri[m],
           \A i \in k + 1 .. Len(q) : Pri[q[i]] <= Pri[m]
    PROVE  ByPriority(InsertedAt(q, k, m))
<1> DEFINE r == InsertedAt(q, k, m)
<1>1. Len(q) \in Nat /\ k \in Nat /\ k <= Len(q)
  OBVIOUS
<1>2. /\ r \in Seq(Messages)
      /\ Len(r) = Len(q) + 1
      /\ \A i \in 1 .. Len(q) + 1 :
            r[i] = IF i <= k THEN q[i] ELSE IF i = k + 1 THEN m ELSE q[i - 1]
  <2> HIDE DEF ByPriority
  <2> QED  BY ONLY q \in Seq(Messages), m \in Messages, k \in 0 .. Len(q),
                   InsertedAtQueue
<1> HIDE DEF r
<1>3. Pri[m] \in Nat
  BY PriAssumption
<1>4. SUFFICES ASSUME NEW i \in 1 .. Len(r), NEW j \in 1 .. Len(r), i < j
               PROVE  Pri[r[i]] >= Pri[r[j]]
  BY DEF ByPriority, r
<1>5. CASE j <= k
  <2>1. r[i] = q[i] /\ r[j] = q[j] /\ i \in 1 .. Len(q) /\ j \in 1 .. Len(q)
    BY <1>1, <1>2, <1>4, <1>5
  <2> QED  BY <1>4, <2>1 DEF ByPriority
<1>6. CASE j = k + 1
  <2>1. r[i] = q[i] /\ r[j] = m /\ i \in 1 .. k
    BY <1>1, <1>2, <1>4, <1>6
  <2> QED  BY <2>1
<1>7. CASE j > k + 1 /\ i <= k
  <2>1. r[i] = q[i] /\ r[j] = q[j - 1] /\ i \in 1 .. Len(q) /\ j - 1 \in 1 .. Len(q)
        /\ i < j - 1
    BY <1>1, <1>2, <1>4, <1>7
  <2> QED  BY <2>1 DEF ByPriority
<1>8. CASE j > k + 1 /\ i = k + 1
  <2>1. r[i] = m /\ r[j] = q[j - 1] /\ j - 1 \in k + 1 .. Len(q)
    BY <1>1, <1>2, <1>4, <1>8
  <2>2. Pri[q[j - 1]] \in Nat
    BY <1>1, <2>1, PriAssumption
  <2> QED  BY <1>3, <2>1, <2>2
<1>9. CASE j > k + 1 /\ i > k + 1
  <2>1. r[i] = q[i - 1] /\ r[j] = q[j - 1] /\ i - 1 \in 1 .. Len(q)
        /\ j - 1 \in 1 .. Len(q) /\ i - 1 < j - 1
    BY <1>1, <1>2, <1>4, <1>9
  <2> QED  BY <2>1 DEF ByPriority
<1> QED
  BY <1>1, <1>2, <1>4, <1>5, <1>6, <1>7, <1>8, <1>9

(* A place between the messages that m does not overtake and those that it *)
(* does or may.                                                            *)
Between(q, k, m) ==
    /\ k \in 0 .. Len(q)
    /\ \A i \in 1 .. k : Pri[q[i]] >= Pri[m]
    /\ \A i \in k + 1 .. Len(q) : Pri[q[i]] <= Pri[m]

(* enqueue finds such a place in an ordered queue, by each of its cases.   *)
LEMMA PlaceRight ==
    ASSUME NEW q \in Seq(Messages), NEW m \in Messages, ByPriority(q)
    PROVE  Between(q, Place(q, m), m)
<1>1. Len(q) \in Nat /\ \A i \in 1 .. Len(q) : q[i] \in Messages
  OBVIOUS
<1>2. Pri[m] \in Nat /\ \A i \in 1 .. Len(q) : Pri[q[i]] \in Nat
  BY <1>1, PriAssumption
<1>3. CASE q = <<>>
  BY <1>3 DEF Place, Between
<1>4. CASE q # <<>> /\ Pri[m] <= Pri[q[Len(q)]]
  <2>1. Place(q, m) = Len(q) /\ Len(q) \in 1 .. Len(q)
    BY <1>1, <1>4 DEF Place
  <2>2. ASSUME NEW i \in 1 .. Len(q)  PROVE Pri[q[i]] >= Pri[q[Len(q)]]
    <3>1. CASE i = Len(q)
      BY <1>2, <2>1, <3>1
    <3>2. CASE i < Len(q)
      BY <2>1, <3>2 DEF ByPriority
    <3> QED  BY <1>1, <3>1, <3>2
  <2>3. \A i \in 1 .. Len(q) : Pri[q[i]] >= Pri[m]
    BY <1>2, <1>4, <2>1, <2>2
  <2> QED  BY <1>1, <2>1, <2>3 DEF Between
<1>5. CASE q # <<>> /\ ~(Pri[m] <= Pri[q[Len(q)]]) /\ Pri[m] > Pri[q[1]]
  <2>1. Place(q, m) = 0 /\ 1 \in 1 .. Len(q)
    BY <1>1, <1>5 DEF Place
  <2>2. ASSUME NEW i \in 1 .. Len(q)  PROVE Pri[q[i]] <= Pri[q[1]]
    <3>1. CASE i = 1
      BY <1>2, <2>1, <3>1
    <3>2. CASE 1 < i
      <4>1. Pri[q[1]] >= Pri[q[i]]
        BY <2>1, <3>2 DEF ByPriority
      <4> QED  BY <1>2, <2>1, <4>1
    <3> QED  BY <3>1, <3>2
  <2>3. \A i \in 1 .. Len(q) : Pri[q[i]] <= Pri[m]
    BY <1>2, <1>5, <2>1, <2>2
  <2> QED  BY <1>1, <2>1, <2>3 DEF Between
<1>6. CASE q # <<>> /\ ~(Pri[m] <= Pri[q[Len(q)]]) /\ ~(Pri[m] > Pri[q[1]])
  <2> DEFINE Stop(k) == /\ \A i \in 1 .. k : Pri[q[i]] >= Pri[m]
                        /\ Pri[q[k + 1]] < Pri[m]
             S == {i \in 1 .. Len(q) : Pri[q[i]] < Pri[m]}
  <2>1. Len(q) \in S
    BY <1>1, <1>2, <1>6
  <2>2. PICK x \in S : \A y \in S : x <= y
    <3>1. S \in SUBSET Nat /\ S # {}
      BY <2>1
    <3> HIDE DEF S
    <3> QED  BY <3>1, Least
  <2>3. Stop(x - 1) /\ x - 1 \in 0 .. Len(q) - 1
    <3>1. ASSUME NEW i \in 1 .. x - 1  PROVE Pri[q[i]] >= Pri[m]
      <4>1. i \in 1 .. Len(q) /\ i < x
        BY <1>1, <2>2
      <4>2. i \notin S
        BY <2>2, <4>1
      <4> QED  BY <1>2, <4>1, <4>2
    <3>2. x \in 1 .. Len(q) /\ Pri[q[x]] < Pri[m] /\ (x - 1) + 1 = x
      BY <2>2
    <3> QED  BY <1>1, <3>1, <3>2
  <2>4. Place(q, m) = CHOOSE k \in 0 .. Len(q) - 1 : Stop(k)
    BY <1>6 DEF Place
  <2>5. Place(q, m) \in 0 .. Len(q) - 1 /\ Stop(Place(q, m))
    <3> HIDE DEF Stop
    <3> QED  BY <2>3, <2>4
  <2> DEFINE k == Place(q, m)
  <2> HIDE DEF k
  <2>6. k \in 0 .. Len(q) - 1 /\ k + 1 \in 1 .. Len(q) /\ Pri[q[k + 1]] < Pri[m]
    BY <1>1, <2>5 DEF k
  <2>7. ASSUME NEW i \in k + 1 .. Len(q)  PROVE Pri[q[i]] <= Pri[m]
    <3>1. i \in 1 .. Len(q) /\ (i = k + 1 \/ k + 1 < i)
      BY <1>1, <2>6
    <3>2. Pri[q[i]] <= Pri[q[k + 1]]
      <4>1. CASE i = k + 1
        BY <1>2, <3>1, <4>1
      <4>2. CASE k + 1 < i
        <5>1. Pri[q[k + 1]] >= Pri[q[i]]
          BY <2>6, <3>1, <4>2 DEF ByPriority
        <5> QED  BY <1>2, <2>6, <3>1, <5>1
      <4> QED  BY <3>1, <4>1, <4>2
    <3> QED  BY <1>2, <2>6, <3>1, <3>2
  <2>8. \A i \in 1 .. k : Pri[q[i]] >= Pri[m]
    BY <2>5 DEF k
  <2>9. k \in 0 .. Len(q)
    BY <1>1, <2>6
  <2>10. Between(q, k, m)
    BY <2>7, <2>8, <2>9 DEF Between
  <2> QED  BY <2>10 DEF k
<1> QED
  BY <1>3, <1>4, <1>5, <1>6

(* enqueueFront finds one too. *)
LEMMA FrontPlaceRight ==
    ASSUME NEW q \in Seq(Messages), NEW m \in Messages, ByPriority(q)
    PROVE  Between(q, FrontPlace(q, m), m)
<1>1. Len(q) \in Nat /\ \A i \in 1 .. Len(q) : q[i] \in Messages
  OBVIOUS
<1>2. Pri[m] \in Nat /\ \A i \in 1 .. Len(q) : Pri[q[i]] \in Nat
  BY <1>1, PriAssumption
<1> DEFINE Stop(k) == /\ \A i \in 1 .. k : Pri[q[i]] > Pri[m]
                      /\ k < Len(q) => Pri[q[k + 1]] <= Pri[m]
           S == {i \in 1 .. Len(q) : Pri[q[i]] <= Pri[m]}
<1>3. \E k \in 0 .. Len(q) : Stop(k)
  <2>1. CASE S = {}
    <3>1. \A i \in 1 .. Len(q) : Pri[q[i]] > Pri[m]
      BY <1>2, <2>1
    <3>2. Stop(Len(q)) /\ Len(q) \in 0 .. Len(q)
      BY <1>1, <3>1
    <3> QED  BY <3>2
  <2>2. CASE S # {}
    <3>1. PICK x \in S : \A y \in S : x <= y
      <4>1. S \in SUBSET Nat
        OBVIOUS
      <4> HIDE DEF S
      <4> QED  BY <2>2, <4>1, Least
    <3>2. ASSUME NEW i \in 1 .. x - 1  PROVE Pri[q[i]] > Pri[m]
      <4>1. i \in 1 .. Len(q) /\ i < x
        BY <1>1, <3>1
      <4>2. i \notin S
        BY <3>1, <4>1
      <4> QED  BY <1>2, <4>1, <4>2
    <3>3. x \in 1 .. Len(q) /\ Pri[q[x]] <= Pri[m] /\ (x - 1) + 1 = x
      BY <3>1
    <3>4. Stop(x - 1) /\ x - 1 \in 0 .. Len(q)
      BY <1>1, <3>2, <3>3
    <3> QED  BY <3>4
  <2> QED  BY <2>1, <2>2
<1> DEFINE k == FrontPlace(q, m)
<1>4. k \in 0 .. Len(q) /\ Stop(k)
  <2>1. k = CHOOSE j \in 0 .. Len(q) : Stop(j)
    BY DEF FrontPlace
  <2> HIDE DEF Stop, k
  <2> QED  BY <1>3, <2>1
<1> HIDE DEF k
<1>5. ASSUME NEW i \in k + 1 .. Len(q)  PROVE Pri[q[i]] <= Pri[m]
  <2>1. i \in 1 .. Len(q) /\ k + 1 \in 1 .. Len(q) /\ (i = k + 1 \/ k + 1 < i)
    BY <1>1, <1>4
  <2>2. Pri[q[k + 1]] <= Pri[m]
    BY <1>1, <1>4, <2>1
  <2>3. CASE i = k + 1
    BY <2>2, <2>3
  <2>4. CASE k + 1 < i
    <3>1. Pri[q[k + 1]] >= Pri[q[i]]
      BY <2>1, <2>4 DEF ByPriority
    <3> QED  BY <1>2, <2>1, <2>2, <3>1
  <2> QED  BY <2>1, <2>3, <2>4
<1>6. \A i \in 1 .. k : Pri[q[i]] >= Pri[m]
  <2> TAKE i \in 1 .. k
  <2>1. i \in 1 .. Len(q) /\ Pri[q[i]] > Pri[m]
    BY <1>1, <1>4
  <2> QED  BY <1>2, <2>1
<1>7. Between(q, k, m)
  BY <1>4, <1>5, <1>6 DEF Between
<1> QED
  BY <1>7 DEF k

(* The queue r is the queue q with the message m put in front of it or     *)
(* behind its head.                                                        *)
Gains(r, q, m) ==
    /\ r \in Seq(Messages) /\ ByPriority(r) /\ r # <<>>
    /\ Contents(r) = Contents(q) \cup {m}
    /\ Once(q) /\ m \notin Contents(q) => Once(r)

LEMMA InsertedGains ==
    ASSUME NEW q \in Seq(Messages), NEW m \in Messages, ByPriority(q)
    PROVE  /\ Gains(Inserted(q, m), q, m)
           /\ Place(q, m) # 0 => q # <<>> /\ Head(Inserted(q, m)) = Head(q)
<1>1. Between(q, Place(q, m), m)
  BY PlaceRight
<1>2. Place(q, m) \in 0 .. Len(q)
  BY <1>1 DEF Between
<1>3. InsertedAt(q, Place(q, m), m) \in Seq(Messages)
  BY <1>2, InsertedAtQueue
<1>4. ByPriority(InsertedAt(q, Place(q, m), m))
  <2>1. /\ \A i \in 1 .. Place(q, m) : Pri[q[i]] >= Pri[m]
        /\ \A i \in Place(q, m) + 1 .. Len(q) : Pri[q[i]] <= Pri[m]
    BY <1>1 DEF Between
  <2> QED  BY <1>2, <2>1, InsertedAtOrder
<1> QED
  BY <1>2, <1>3, <1>4, InsertedAtContents DEF Gains, Inserted

LEMMA InsertedFrontGains ==
    ASSUME NEW q \in Seq(Messages), NEW m \in Messages, ByPriority(q)
    PROVE  Gains(InsertedFront(q, m), q, m)
<1>1. Between(q, FrontPlace(q, m), m)
  BY FrontPlaceRight
<1>2. FrontPlace(q, m) \in 0 .. Len(q)
  BY <1>1 DEF Between
<1>3. InsertedAt(q, FrontPlace(q, m), m) \in Seq(Messages)
  BY <1>2, InsertedAtQueue
<1>4. ByPriority(InsertedAt(q, FrontPlace(q, m), m))
  <2>1. /\ \A i \in 1 .. FrontPlace(q, m) : Pri[q[i]] >= Pri[m]
        /\ \A i \in FrontPlace(q, m) + 1 .. Len(q) : Pri[q[i]] <= Pri[m]
    BY <1>1 DEF Between
  <2> QED  BY <1>2, <2>1, InsertedAtOrder
<1> QED
  BY <1>2, <1>3, <1>4, InsertedAtContents DEF Gains, InsertedFront

(* Taking the head leaves the rest, in order. *)
LEMMA TailLoses ==
    ASSUME NEW q \in Seq(Messages), q # <<>>
    PROVE  /\ Head(q) \in Contents(q) /\ Contents(q) \subseteq Messages
           /\ Tail(q) \in Seq(Messages)
           /\ ByPriority(q) => ByPriority(Tail(q))
           /\ Once(q) => /\ Once(Tail(q))
                        /\ Contents(Tail(q)) = Contents(q) \ {Head(q)}
<1> DEFINE t == Tail(q)
<1>1. Len(q) \in Nat /\ Len(q) > 0 /\ \A i \in 1 .. Len(q) : q[i] \in Messages
  OBVIOUS
<1>2. /\ t \in Seq(Messages) /\ Len(t) = Len(q) - 1
      /\ \A i \in 1 .. Len(q) - 1 : t[i] = q[i + 1]
  BY <1>1
<1>3. Head(q) = q[1] /\ 1 \in 1 .. Len(q)
  BY <1>1
<1> HIDE DEF t
<1>4. Head(q) \in Contents(q) /\ Contents(q) \subseteq Messages
  BY <1>1, <1>3 DEF Contents
<1>5. \A i \in 1 .. Len(t) : t[i] = q[i + 1] /\ i + 1 \in 1 .. Len(q)
  BY <1>1, <1>2
<1>6. ASSUME ByPriority(q)  PROVE ByPriority(t)
  <2>1. ASSUME NEW i \in 1 .. Len(t), NEW j \in 1 .. Len(t), i < j
        PROVE  Pri[t[i]] >= Pri[t[j]]
    <3>1. /\ t[i] = q[i + 1] /\ i + 1 \in 1 .. Len(q)
          /\ t[j] = q[j + 1] /\ j + 1 \in 1 .. Len(q) /\ i + 1 < j + 1
      BY <1>5, <2>1
    <3> QED  BY <1>6, <3>1 DEF ByPriority
  <2> QED  BY <2>1 DEF ByPriority
<1>7. ASSUME Once(q)  PROVE Once(t)
  <2>1. ASSUME NEW i \in 1 .. Len(t), NEW j \in 1 .. Len(t), t[i] = t[j]
        PROVE  i = j
    <3>1. /\ t[i] = q[i + 1] /\ i + 1 \in 1 .. Len(q)
          /\ t[j] = q[j + 1] /\ j + 1 \in 1 .. Len(q)
      BY <1>5
    <3>2. i + 1 = j + 1
      BY <1>7, <2>1, <3>1 DEF Once
    <3> QED  BY <3>2
  <2> QED  BY <2>1 DEF Once
<1>8. ASSUME Once(q)  PROVE Contents(t) = Contents(q) \ {Head(q)}
  <2>1. ASSUME NEW i \in 1 .. Len(t)  PROVE t[i] \in Contents(q) \ {Head(q)}
    <3>1. t[i] = q[i + 1] /\ i + 1 \in 1 .. Len(q) /\ i + 1 # 1
      BY <1>5
    <3>2. q[i + 1] # q[1]
      BY <1>3, <1>8, <3>1 DEF Once
    <3> QED  BY <1>3, <3>1, <3>2 DEF Contents
  <2>2. ASSUME NEW i \in 1 .. Len(q), q[i] # q[1]  PROVE q[i] \in Contents(t)
    <3>1. i - 1 \in 1 .. Len(t) /\ t[i - 1] = q[i]
      BY <1>1, <1>2, <2>2
    <3> QED  BY <3>1 DEF Contents
  <2> QED  BY <1>3, <2>1, <2>2 DEF Contents
<1> QED
  BY <1>2, <1>4, <1>6, <1>7, <1>8 DEF t

-----------------------------------------------------------------------------

(* attach and do_stop: who runs when. *)
Stages ==
    /\ running <=> stage \in {"initialised", "started"}
    /\ \A w \in Workers :
          /\ pc[w] = "unborn" <=> stage \in {"inserted", "initialised"}
          /\ pc[w] = "gone" => ~running
    /\ NoneSleepsAtJoin

(* Only letters are held and written.  A worker that put a letter back     *)
(* finds it marked as held for as long as it is in the queue.              *)
Hands ==
    \A w \in Workers :
        /\ pc[w] \in {"holding", "writing"} => hand[w] \in Letters
        /\ pc[w] = "returning" =>
              \/ hand[w] = NoMessage
              \/ /\ hand[w] \in Letters
                 /\ fate[hand[w]] # "unsent"
                 /\ hand[w] \in Contents(queue) => hand[w] \in held

(* A reader asks for a shutdown once. *)
ByeOnce == ~shutting => fate[Bye] = "unsent"

(* The head of the queue is news to the workers. *)
Owed == queue # <<>> /\ Head(queue) \notin held \cup early

(* A worker that looks at the queue before it sleeps. *)
Active == {w \in Workers : pc[w] \in {"receiving", "writing", "holding", "returning"}}

(* A head that is news is seen: a worker is on its way back to the queue,  *)
(* or has been woken and will find the flag raised.                        *)
Wakeful ==
    /\ stage = "initialised" /\ Owed => needRepoll
    /\ stage = "started" /\ Owed /\ Crashed = {} =>
          \/ Active # {}
          \/ needRepoll /\ \E w \in Workers : pc[w] = "woken"

IInv ==
    /\ TypeOK
    /\ PriorityOrder
    /\ OnePlace
    /\ Stages
    /\ Hands
    /\ ByeOnce
    /\ Wakeful

LEMMA MessageFacts ==
    /\ Letters \subseteq Messages
    /\ Bye \in Messages /\ Beat \in Messages /\ InitTimeout \in Messages
    /\ Bye \notin Letters /\ Beat \notin Letters /\ InitTimeout \notin Letters
    /\ Beat # Bye /\ InitTimeout # Bye
    /\ NoMessage \notin Messages
  BY MessageAssumption DEF Events

(* The initial states satisfy the invariant. *)
LEMMA InitIInv == Init => IInv
<1> SUFFICES ASSUME Init  PROVE IInv
  OBVIOUS
<1> USE DEF Init
<1>1. TypeOK
  <2>1. queue \in Seq(Messages) /\ wire \in Seq(Letters)
    OBVIOUS
  <2>2. pc \in [Workers -> WorkerStates] /\ hand \in [Workers -> Messages \cup {NoMessage}]
    BY DEF WorkerStates
  <2> QED  BY <2>1, <2>2 DEF TypeOK
<1>2. PriorityOrder
  BY DEF PriorityOrder, ByPriority
<1>3. OnePlace
  BY DEF OnePlace, Once, Busy, Contents
<1>4. Stages
  BY DEF Stages, NoneSleepsAtJoin
<1>5. Hands
  BY DEF Hands
<1>6. ByeOnce
  BY MessageFacts DEF ByeOnce
<1>7. Wakeful
  BY DEF Wakeful, Owed
<1> QED
  BY <1>1, <1>2, <1>3, <1>4, <1>5, <1>6, <1>7 DEF IInv

-----------------------------------------------------------------------------
(* A message that was not in the gateway arrives: the parts of the         *)
(* invariant about the queue and the workers are kept.                     *)
LEMMA EnqueueStep ==
    ASSUME IInv, NEW m \in Messages, fate[m] = "unsent", Enqueue(m),
           UNCHANGED <<stage, running, hand, held, early>>
    PROVE  /\ queue' \in Seq(Messages) /\ needRepoll' \in BOOLEAN
           /\ pc' \in [Workers -> WorkerStates]
           /\ fate' \in [Messages -> {"unsent", "inside", "out"}]
           /\ \A n \in Messages \ {m} : fate'[n] = fate[n]
           /\ PriorityOrder' /\ OnePlace' /\ Stages' /\ Hands' /\ Wakeful'
<1> USE DEF IInv
<1>1. /\ queue \in Seq(Messages) /\ ByPriority(queue)
      /\ pc \in [Workers -> WorkerStates]
      /\ fate \in [Messages -> {"unsent", "inside", "out"}]
      /\ needRepoll \in BOOLEAN
  BY DEF TypeOK, PriorityOrder
<1>2. /\ Gains(queue', queue, m)
      /\ Place(queue, m) # 0 => queue # <<>> /\ Head(queue') = Head(queue)
  BY <1>1, InsertedGains DEF Enqueue
<1>3. fate' = [fate EXCEPT ![m] = "inside"]
  BY DEF Enqueue
<1>4. pc' = pc \/ \E w \in Waiting : pc' = [pc EXCEPT ![w] = "woken"]
  BY DEF Enqueue, Signal
<1>5. \A w \in Workers : pc'[w] = pc[w] \/ (pc[w] = "waiting" /\ pc'[w] = "woken")
  BY <1>1, <1>4 DEF Waiting
<1>6. pc' \in [Workers -> WorkerStates]
  BY <1>1, <1>4 DEF WorkerStates, Waiting
<1>7. queue' \in Seq(Messages) /\ PriorityOrder'
  BY <1>2 DEF Gains, PriorityOrder
<1>8. needRepoll' \in BOOLEAN
  BY <1>1 DEF Enqueue
<1>9. Busy' = Busy
  BY <1>5 DEF Busy
<1>10. m \notin Contents(queue) /\ \A w \in Busy : hand[w] # m
  BY DEF OnePlace
<1>11. OnePlace'
  <2>1. Once(queue') /\ Contents(queue') = Contents(queue) \cup {m}
    BY <1>2, <1>10 DEF Gains, OnePlace
  <2>2. \A v, w \in Busy' : hand'[v] = hand'[w] => v = w
    BY <1>9 DEF OnePlace
  <2>3. \A w \in Busy' : hand'[w] \in Messages /\ hand'[w] \notin Contents(queue')
    BY <1>9, <1>10, <2>1 DEF OnePlace
  <2>4. \A n \in Messages :
           fate'[n] = "inside" <=>
               n \in Contents(queue') \/ \E w \in Busy' : hand'[w] = n
    BY <1>1, <1>3, <1>9, <2>1 DEF OnePlace
  <2> QED  BY <2>1, <2>2, <2>3, <2>4 DEF OnePlace
<1>12. Stages'
  BY <1>5 DEF Stages, NoneSleepsAtJoin, Waiting
<1>13. Hands'
  <2> SUFFICES ASSUME NEW w \in Workers
               PROVE  /\ pc'[w] \in {"holding", "writing"} => hand'[w] \in Letters
                      /\ pc'[w] = "returning" =>
                            \/ hand'[w] = NoMessage
                            \/ /\ hand'[w] \in Letters
                               /\ fate'[hand'[w]] # "unsent"
                               /\ hand'[w] \in Contents(queue') => hand'[w] \in held'
    BY DEF Hands
  <2>1. pc'[w] = "returning" => pc[w] = "returning"
    BY <1>5
  <2>2. pc'[w] \in {"holding", "writing"} => pc[w] = pc'[w]
    BY <1>5
  <2>3. Contents(queue') = Contents(queue) \cup {m}
    BY <1>2 DEF Gains
  <2> QED
    BY <1>1, <1>3, <2>1, <2>2, <2>3, MessageFacts DEF Hands
<1>14. Wakeful'
  <2>1. CASE Place(queue, m) = 0
    <3>1. needRepoll' = TRUE
      BY <2>1 DEF Enqueue
    <3>2. ASSUME stage = "started", Crashed' = {}
          PROVE  Active' # {} \/ \E w \in Workers : pc'[w] = "woken"
      <4>1. CASE \E w \in Waiting : pc' = [pc EXCEPT ![w] = "woken"]
        BY <1>1, <4>1 DEF Waiting
      <4>2. CASE pc' = pc /\ Waiting = {}
        <5>1. PICK w \in Workers : TRUE
          BY WorkerAssumption
        <5>2. pc[w] \notin {"unborn", "gone", "crashed", "waiting"}
          BY <3>2, <4>2 DEF Stages, Crashed, Waiting
        <5>3. pc[w] \in {"woken", "receiving", "writing", "holding", "returning"}
          BY <1>1, <5>2 DEF WorkerStates
        <5> QED  BY <4>2, <5>3 DEF Active
      <4>3. (Waiting = {} /\ pc' = pc) \/ \E w \in Waiting : pc' = [pc EXCEPT ![w] = "woken"]
        BY <2>1 DEF Enqueue, Signal
      <4> QED  BY <4>1, <4>2, <4>3
    <3> QED  BY <3>1, <3>2 DEF Wakeful
  <2>2. CASE Place(queue, m) # 0
    <3>1. UNCHANGED <<needRepoll, pc>>
      BY <2>2 DEF Enqueue
    <3>2. Owed' = Owed
      BY <1>2, <2>2 DEF Owed, Gains
    <3> QED  BY <3>1, <3>2 DEF Wakeful, Active, Crashed
  <2> QED  BY <2>1, <2>2
<1> QED
  BY <1>1, <1>3, <1>6, <1>7, <1>8, <1>11, <1>12, <1>13, <1>14

(* A worker that holds the lock leaves, takes the head or sleeps. *)
LEMMA ContinueStep ==
    ASSUME IInv, NEW w \in Workers, NEW flag \in BOOLEAN, Continue(w, flag),
           pc[w] \in {"woken", "returning"},
           stage = "started" /\ Owed /\ Crashed = {} /\ ~flag => Active \ {w} # {},
           UNCHANGED <<stage, running, attached, fate, gate, reader, shutting,
                       wire>>
    PROVE  IInv'
<1> USE DEF IInv
<1>1. /\ queue \in Seq(Messages) /\ ByPriority(queue) /\ Once(queue)
      /\ pc \in [Workers -> WorkerStates]
      /\ hand \in [Workers -> Messages \cup {NoMessage}]
      /\ Contents(queue) \subseteq Messages
  BY DEF TypeOK, PriorityOrder, OnePlace, Contents
<1>2. w \notin Busy
  BY DEF Busy
<1>3. CASE Leave(w) /\ needRepoll' = flag
  <2>1. /\ pc' = [pc EXCEPT ![w] = "gone"] /\ hand' = [hand EXCEPT ![w] = NoMessage]
        /\ UNCHANGED <<queue, held, early>> /\ ~running
    BY <1>3 DEF Leave
  <2>2. TypeOK'
    BY <1>3, <2>1 DEF TypeOK, WorkerStates
  <2>3. Busy' = Busy /\ \A v \in Busy : hand'[v] = hand[v]
    BY <1>1, <1>2, <2>1 DEF Busy
  <2>4. OnePlace'
    BY <2>1, <2>3 DEF OnePlace
  <2>5. Stages'
    BY <1>1, <2>1 DEF Stages, NoneSleepsAtJoin, Waiting
  <2>6. Hands'
    BY <1>1, <2>1 DEF Hands
  <2>7. Wakeful'
    BY <2>1 DEF Wakeful, Stages
  <2>8. PriorityOrder' /\ ByeOnce'
    BY <2>1 DEF PriorityOrder, ByeOnce
  <2> QED  BY <2>2, <2>4, <2>5, <2>6, <2>7, <2>8
<1>4. CASE Take(w, flag)
  <2>1. /\ queue # <<>> /\ running /\ queue' = Tail(queue) /\ needRepoll' = FALSE
        /\ pc' = [pc EXCEPT ![w] = "receiving"]
        /\ hand' = [hand EXCEPT ![w] = Head(queue)]
        /\ held' = held \ {Head(queue)} /\ early' = early \ {Head(queue)}
    BY <1>4 DEF Take
  <2>2. /\ Head(queue) \in Contents(queue)
        /\ queue' \in Seq(Messages) /\ ByPriority(queue') /\ Once(queue')
        /\ Contents(queue') = Contents(queue) \ {Head(queue)}
    BY <1>1, <2>1, TailLoses
  <2>3. TypeOK'
    BY <1>1, <2>1, <2>2 DEF TypeOK, WorkerStates
  <2>4. /\ Busy' = Busy \cup {w} /\ hand'[w] = Head(queue)
        /\ \A v \in Busy : v # w /\ hand'[v] = hand[v]
    BY <1>1, <1>2, <2>1 DEF Busy
  <2>5. OnePlace'
    <3>1. \A u, v \in Busy' : hand'[u] = hand'[v] => u = v
      BY <2>2, <2>4 DEF OnePlace
    <3>2. \A v \in Busy' : hand'[v] \in Messages /\ hand'[v] \notin Contents(queue')
      BY <1>1, <2>2, <2>4 DEF OnePlace
    <3>3. ASSUME NEW n \in Messages
          PROVE  fate[n] = "inside" <=>
                    n \in Contents(queue') \/ \E v \in Busy' : hand'[v] = n
      <4>1. fate[n] = "inside" <=>
               n \in Contents(queue) \/ \E v \in Busy : hand[v] = n
        BY DEF OnePlace
      <4>2. n \in Contents(queue) <=> n \in Contents(queue') \/ n = Head(queue)
        BY <2>2
      <4>3. (\E v \in Busy' : hand'[v] = n) <=>
               n = Head(queue) \/ \E v \in Busy : hand[v] = n
        BY <2>4
      <4> QED  BY <4>1, <4>2, <4>3
    <3> QED  BY <2>2, <3>1, <3>2, <3>3 DEF OnePlace
  <2>6. Stages'
    BY <1>1, <2>1 DEF Stages, NoneSleepsAtJoin, Waiting
  <2>7. Hands'
    BY <1>1, <2>1, <2>2 DEF Hands
  <2>8. Wakeful'
    <3>1. stage' # "initialised"
      BY DEF Stages
    <3>2. w \in Active'
      BY <1>1, <2>1 DEF Active
    <3> QED  BY <3>1, <3>2 DEF Wakeful
  <2>9. PriorityOrder' /\ ByeOnce'
    BY <2>2 DEF PriorityOrder, ByeOnce
  <2> QED  BY <2>3, <2>5, <2>6, <2>7, <2>8, <2>9
<1>5. CASE Sleep(w, flag)
  <2>1. /\ flag => queue = <<>>
        /\ running /\ needRepoll' = FALSE
        /\ pc' = [pc EXCEPT ![w] = "waiting"] /\ hand' = [hand EXCEPT ![w] = NoMessage]
        /\ UNCHANGED <<queue, held, early>>
    BY <1>5 DEF Sleep
  <2>2. TypeOK'
    BY <2>1 DEF TypeOK, WorkerStates
  <2>3. Busy' = Busy /\ \A v \in Busy : hand'[v] = hand[v]
    BY <1>1, <1>2, <2>1 DEF Busy
  <2>4. OnePlace'
    BY <2>1, <2>3 DEF OnePlace
  <2>5. Stages'
    BY <1>1, <2>1 DEF Stages, NoneSleepsAtJoin, Waiting
  <2>6. Hands'
    BY <1>1, <2>1 DEF Hands
  <2>7. Wakeful'
    <3>1. stage # "initialised"
      BY DEF Stages
    <3>2. ASSUME stage = "started", Owed', Crashed' = {}  PROVE Active' # {}
      <4>1. Owed /\ ~flag
        BY <2>1, <3>2 DEF Owed
      <4>2. Crashed = {}
        BY <1>1, <2>1, <3>2 DEF Crashed
      <4>3. PICK v \in Active : v # w
        BY <3>2, <4>1, <4>2
      <4>4. v \in Active'
        BY <1>1, <2>1, <4>3 DEF Active
      <4> QED  BY <4>4
    <3> QED  BY <3>1, <3>2 DEF Wakeful
  <2>8. PriorityOrder' /\ ByeOnce'
    BY <2>1 DEF PriorityOrder, ByeOnce
  <2> QED  BY <2>2, <2>4, <2>5, <2>6, <2>7, <2>8
<1> QED
  BY <1>3, <1>4, <1>5 DEF Continue

(* A worker is done with the message in its hand. *)
LEMMA AcceptedStep ==
    ASSUME IInv, NEW w \in Busy, NEW outcome \in {"unsent", "out"},
           Accepted(w, outcome), outcome = "unsent" => hand[w] \notin Letters \cup {Bye},
           UNCHANGED <<queue, needRepoll, stage, running, held, early>>
    PROVE  /\ pc' \in [Workers -> WorkerStates]
           /\ hand' \in [Workers -> Messages \cup {NoMessage}]
           /\ fate' \in [Messages -> {"unsent", "inside", "out"}]
           /\ fate[Bye] = "unsent" => fate'[Bye] = "unsent"
           /\ PriorityOrder' /\ OnePlace' /\ Stages' /\ Hands' /\ Wakeful'
<1> USE DEF IInv
<1>1. /\ pc \in [Workers -> WorkerStates] /\ w \in Workers
      /\ hand \in [Workers -> Messages \cup {NoMessage}]
      /\ fate \in [Messages -> {"unsent", "inside", "out"}]
      /\ hand[w] \in Messages /\ hand[w] \notin Contents(queue)
  BY DEF TypeOK, OnePlace, Busy
<1>2. /\ pc' = [pc EXCEPT ![w] = "returning"]
      /\ fate' = [fate EXCEPT ![hand[w]] = outcome]
      /\ hand' = [hand EXCEPT ![w] = NoMessage]
  BY DEF Accepted
<1>3. /\ pc' \in [Workers -> WorkerStates]
      /\ hand' \in [Workers -> Messages \cup {NoMessage}]
      /\ fate' \in [Messages -> {"unsent", "inside", "out"}]
  BY <1>1, <1>2 DEF WorkerStates
<1>4. Busy' = Busy \ {w} /\ \A v \in Busy' : hand'[v] = hand[v]
  BY <1>1, <1>2 DEF Busy
<1>5. OnePlace'
  <2>1. ASSUME NEW n \in Messages
        PROVE  fate'[n] = "inside" <=>
                  n \in Contents(queue) \/ \E v \in Busy' : hand'[v] = n
    <3>1. fate[n] = "inside" <=>
             n \in Contents(queue) \/ \E v \in Busy : hand[v] = n
      BY DEF OnePlace
    <3>2. CASE n = hand[w]
      <4>1. fate'[n] # "inside"
        BY <1>1, <1>2, <3>2
      <4>2. \A v \in Busy' : hand'[v] # n
        BY <1>4, <3>2 DEF OnePlace
      <4> QED  BY <1>1, <3>2, <4>1, <4>2
    <3>3. CASE n # hand[w]
      <4>1. fate'[n] = fate[n]
        BY <1>1, <1>2, <3>3
      <4>2. (\E v \in Busy' : hand'[v] = n) <=> \E v \in Busy : hand[v] = n
        BY <1>4, <3>3
      <4> QED  BY <3>1, <4>1, <4>2
    <3> QED  BY <3>2, <3>3
  <2> QED  BY <1>4, <2>1 DEF OnePlace
<1>6. Stages'
  BY <1>1, <1>2 DEF Stages, NoneSleepsAtJoin, Waiting, Busy
<1>7. Hands'
  BY <1>1, <1>2, MessageFacts DEF Hands
<1>8. Wakeful'
  <2>1. stage # "initialised" /\ w \in Active'
    BY <1>1, <1>2 DEF Stages, Busy, Active
  <2> QED  BY <2>1 DEF Wakeful
<1>9. PriorityOrder'
  BY DEF PriorityOrder
<1>10. fate[Bye] = "unsent" => fate'[Bye] = "unsent"
  <2>1. fate[hand[w]] = "inside"
    BY <1>1 DEF OnePlace
  <2> QED  BY <1>1, <1>2, <2>1, MessageFacts
<1> QED
  BY <1>3, <1>5, <1>6, <1>7, <1>8, <1>9, <1>10

-----------------------------------------------------------------------------
(* Each action keeps the invariant. *)
LEMMA WorkStep ==
    ASSUME IInv, NEW w \in Workers, Work(w)
    PROVE  IInv'
<1> USE DEF IInv
<1>1. /\ pc \in [Workers -> WorkerStates]
      /\ hand \in [Workers -> Messages \cup {NoMessage}]
      /\ queue \in Seq(Messages) /\ ByPriority(queue) /\ Once(queue)
      /\ needRepoll \in BOOLEAN
      /\ Contents(queue) \subseteq Messages
  BY DEF TypeOK, PriorityOrder, OnePlace, Contents
<1>2. CASE Wake(w)
  <2>1. stage = "started" /\ Owed /\ Crashed = {} /\ ~needRepoll => Active \ {w} # {}
    BY <1>2 DEF Wake, Wakeful, Active
  <2> QED  BY <1>1, <1>2, <2>1, ContinueStep DEF Wake
<1>3. CASE Return(w)
  <2>1. ~(needRepoll \/ HeadDiffers(w)) => ~Owed
    <3> SUFFICES ASSUME ~HeadDiffers(w), queue # <<>>  PROVE Head(queue) \in held
      BY DEF Owed
    <3>1. Head(queue) = hand[w]
      BY DEF HeadDiffers
    <3>2. Head(queue) \in Contents(queue)
      BY <1>1, TailLoses
    <3>3. hand[w] # NoMessage
      BY <1>1, <3>1, <3>2, MessageFacts
    <3> QED  BY <1>3, <3>1, <3>2, <3>3 DEF Return, Hands
  <2>2. (needRepoll \/ HeadDiffers(w)) \in BOOLEAN
    BY <1>1 DEF HeadDiffers
  <2> QED  BY <1>1, <1>3, <2>1, <2>2, ContinueStep DEF Return
<1>4. CASE ReceiveLetter(w)
  <2>1. /\ pc[w] = "receiving" /\ hand[w] \in Letters /\ w \in Busy
        /\ UNCHANGED <<queue, needRepoll, stage, running, attached, held, early,
                       gate, reader, shutting, wire>>
    BY <1>4 DEF ReceiveLetter, Busy
  <2>2. CASE Accepted(w, "out")
    <3> QED  BY <2>1, <2>2, AcceptedStep DEF TypeOK, ByeOnce
  <2>3. CASE /\ \E s \in {"holding", "writing"} : pc' = [pc EXCEPT ![w] = s]
             /\ UNCHANGED <<hand, fate>>
    <3>1. PICK s \in {"holding", "writing"} : pc' = [pc EXCEPT ![w] = s]
      BY <2>3
    <3>2. TypeOK'
      BY <1>1, <2>1, <2>3, <3>1 DEF TypeOK, WorkerStates
    <3>3. Busy' = Busy
      BY <1>1, <2>1, <3>1 DEF Busy
    <3>4. OnePlace'
      BY <2>1, <2>3, <3>3 DEF OnePlace
    <3>5. Stages'
      BY <1>1, <2>1, <3>1 DEF Stages, NoneSleepsAtJoin, Waiting
    <3>6. Hands'
      BY <1>1, <2>1, <2>3, <3>1 DEF Hands
    <3>7. Wakeful'
      <4>1. stage # "initialised" /\ w \in Active'
        BY <1>1, <2>1, <3>1 DEF Stages, Active
      <4> QED  BY <2>1, <4>1 DEF Wakeful
    <3> QED
      BY <2>1, <2>3, <3>2, <3>4, <3>5, <3>6, <3>7 DEF PriorityOrder, ByeOnce
  <2> QED  BY <1>4, <2>2, <2>3 DEF ReceiveLetter, TypeOK
<1>5. CASE Transmit(w)
  <2>1. w \in Busy /\ hand[w] \in Letters
    BY <1>5 DEF Transmit, Busy, Hands
  <2>2. wire' \in Seq(Letters)
    BY <1>5, <2>1 DEF Transmit, TypeOK
  <2> QED  BY <1>5, <2>1, <2>2, AcceptedStep DEF Transmit, TypeOK, ByeOnce
<1>6. CASE TransmitFails(w)
  <2>1. w \in Busy
    BY <1>6 DEF TransmitFails, Busy
  <2> QED  BY <1>6, <2>1, AcceptedStep DEF TransmitFails, Shutdown, TypeOK, ByeOnce
<1>7. CASE TransmitThrows(w)
  <2>1. /\ pc[w] = "writing" /\ pc' = [pc EXCEPT ![w] = "crashed"]
        /\ fate' = [fate EXCEPT ![hand[w]] = "out"]
        /\ hand' = [hand EXCEPT ![w] = NoMessage]
        /\ UNCHANGED <<queue, needRepoll, stage, running, attached, held, early,
                       gate, reader, shutting, wire>>
    BY <1>7 DEF TransmitThrows
  <2>2. hand[w] \in Letters /\ w \in Busy /\ hand[w] \notin Contents(queue)
    BY <2>1 DEF Hands, Busy, OnePlace
  <2>3. TypeOK'
    BY <2>1 DEF TypeOK, WorkerStates
  <2>4. Busy' = Busy \ {w} /\ \A v \in Busy' : hand'[v] = hand[v]
    BY <1>1, <2>1 DEF Busy
  <2>5. OnePlace'
    <3>1. ASSUME NEW n \in Messages
          PROVE  fate'[n] = "inside" <=>
                    n \in Contents(queue) \/ \E v \in Busy' : hand'[v] = n
      <4>1. fate[n] = "inside" <=>
               n \in Contents(queue) \/ \E v \in Busy : hand[v] = n
        BY DEF OnePlace
      <4>2. CASE n = hand[w]
        <5>1. fate'[n] # "inside"
          BY <2>1, <4>2 DEF TypeOK
        <5>2. \A v \in Busy' : hand'[v] # n
          BY <2>2, <2>4, <4>2 DEF OnePlace
        <5> QED  BY <2>2, <4>2, <5>1, <5>2
      <4>3. CASE n # hand[w]
        <5>1. fate'[n] = fate[n]
          BY <2>1, <4>3 DEF TypeOK
        <5>2. (\E v \in Busy' : hand'[v] = n) <=> \E v \in Busy : hand[v] = n
          BY <2>4, <4>3
        <5> QED  BY <4>1, <5>1, <5>2
      <4> QED  BY <4>2, <4>3
    <3> QED  BY <2>1, <2>4, <3>1 DEF OnePlace
  <2>6. Stages'
    BY <1>1, <2>1 DEF Stages, NoneSleepsAtJoin, Waiting
  <2>7. Hands'
    BY <1>1, <2>1, MessageFacts DEF Hands, TypeOK
  <2>8. Wakeful'
    <3>1. stage # "initialised" /\ w \in Crashed'
      BY <1>1, <2>1 DEF Stages, Crashed
    <3> QED  BY <2>1, <3>1 DEF Wakeful
  <2>9. PriorityOrder' /\ ByeOnce'
    <3>1. fate'[Bye] = fate[Bye]
      BY <2>1, <2>2, MessageFacts DEF TypeOK
    <3> QED  BY <2>1, <3>1 DEF PriorityOrder, ByeOnce
  <2> QED  BY <2>3, <2>5, <2>6, <2>7, <2>8, <2>9
<1>8. CASE ReceiveBeat(w)
  <2>1. /\ w \in Busy /\ hand[w] = Beat /\ Accepted(w, "unsent")
        /\ UNCHANGED <<gate, shutting, attached, reader>> \/ Shutdown
        /\ UNCHANGED <<queue, needRepoll, stage, running, held, early, wire>>
    BY <1>8 DEF ReceiveBeat, Busy
  <2>2. hand[w] \notin Letters \cup {Bye}
    BY <2>1, MessageFacts
  <2>3. /\ pc' \in [Workers -> WorkerStates]
        /\ hand' \in [Workers -> Messages \cup {NoMessage}]
        /\ fate' \in [Messages -> {"unsent", "inside", "out"}]
        /\ fate[Bye] = "unsent" => fate'[Bye] = "unsent"
        /\ PriorityOrder' /\ OnePlace' /\ Stages' /\ Hands' /\ Wakeful'
    BY <2>1, <2>2, AcceptedStep
  <2>4. CASE UNCHANGED <<gate, shutting, attached, reader>>
    BY <2>1, <2>3, <2>4 DEF TypeOK, ByeOnce
  <2>5. CASE Shutdown
    BY <2>1, <2>3, <2>5 DEF Shutdown, TypeOK, ByeOnce
  <2> QED  BY <2>1, <2>4, <2>5
<1>9. CASE ReceiveInitTimeout(w)
  <2>1. /\ w \in Busy /\ Accepted(w, "out")
        /\ UNCHANGED <<gate, shutting, attached, reader>> \/ Shutdown
        /\ UNCHANGED <<queue, needRepoll, stage, running, held, early, wire>>
    BY <1>9 DEF ReceiveInitTimeout, Busy
  <2>2. /\ pc' \in [Workers -> WorkerStates]
        /\ hand' \in [Workers -> Messages \cup {NoMessage}]
        /\ fate' \in [Messages -> {"unsent", "inside", "out"}]
        /\ fate[Bye] = "unsent" => fate'[Bye] = "unsent"
        /\ PriorityOrder' /\ OnePlace' /\ Stages' /\ Hands' /\ Wakeful'
    BY <2>1, AcceptedStep
  <2>3. CASE UNCHANGED <<gate, shutting, attached, reader>>
    BY <2>1, <2>2, <2>3 DEF TypeOK, ByeOnce
  <2>4. CASE Shutdown
    BY <2>1, <2>2, <2>4 DEF Shutdown, TypeOK, ByeOnce
  <2> QED  BY <2>1, <2>3, <2>4
<1>10. CASE ReceiveBye(w)
  <2>1. w \in Busy
    BY <1>10 DEF ReceiveBye, Busy
  <2> QED  BY <1>10, <2>1, AcceptedStep DEF ReceiveBye, Shutdown, TypeOK, ByeOnce
<1>11. CASE PutBack(w)
  <2>1. /\ pc[w] = "holding" /\ queue' = InsertedFront(queue, hand[w])
        /\ held' = held \cup {hand[w]} /\ pc' = [pc EXCEPT ![w] = "returning"]
        /\ UNCHANGED <<needRepoll, stage, running, attached, hand, fate, early,
                       gate, reader, shutting, wire>>
    BY <1>11 DEF PutBack
  <2>2. /\ w \in Busy /\ hand[w] \in Letters /\ hand[w] \in Messages
        /\ hand[w] \notin Contents(queue) /\ fate[hand[w]] = "inside"
    BY <2>1 DEF Hands, Busy, OnePlace
  <2>3. Gains(queue', queue, hand[w])
    BY <1>1, <2>1, <2>2, InsertedFrontGains
  <2>4. /\ queue' \in Seq(Messages) /\ ByPriority(queue') /\ Once(queue')
        /\ Contents(queue') = Contents(queue) \cup {hand[w]}
    BY <1>1, <2>2, <2>3 DEF Gains
  <2>5. TypeOK'
    BY <2>1, <2>2, <2>4 DEF TypeOK, WorkerStates
  <2>6. Busy' = Busy \ {w}
    BY <1>1, <2>1 DEF Busy
  <2>7. OnePlace'
    <3>1. \A v \in Busy' : hand[v] \in Messages /\ hand[v] \notin Contents(queue')
      BY <2>2, <2>4, <2>6 DEF OnePlace
    <3>2. ASSUME NEW n \in Messages
          PROVE  fate[n] = "inside" <=>
                    n \in Contents(queue') \/ \E v \in Busy' : hand[v] = n
      <4>1. fate[n] = "inside" <=>
               n \in Contents(queue) \/ \E v \in Busy : hand[v] = n
        BY DEF OnePlace
      <4>2. (\E v \in Busy : hand[v] = n) <=>
               n = hand[w] \/ \E v \in Busy' : hand[v] = n
        BY <2>2, <2>6
      <4> QED  BY <2>4, <4>1, <4>2
    <3> QED  BY <2>1, <2>4, <2>6, <3>1, <3>2 DEF OnePlace
  <2>8. Stages'
    BY <1>1, <2>1 DEF Stages, NoneSleepsAtJoin, Waiting
  <2>9. Hands'
    BY <1>1, <2>1, <2>2, <2>4 DEF Hands
  <2>10. Wakeful'
    <3>1. stage # "initialised" /\ w \in Active'
      BY <1>1, <2>1 DEF Stages, Active
    <3> QED  BY <2>1, <3>1 DEF Wakeful
  <2>11. PriorityOrder' /\ ByeOnce'
    BY <2>1, <2>4 DEF PriorityOrder, ByeOnce
  <2> QED  BY <2>5, <2>7, <2>8, <2>9, <2>10, <2>11
<1> QED
  BY <1>2, <1>3, <1>4, <1>5, <1>6, <1>7, <1>8, <1>9, <1>10, <1>11 DEF Work

LEMMA NextStep == IInv /\ [Next]_vars => IInv'
<1> SUFFICES ASSUME IInv, [Next]_vars  PROVE IInv'
  OBVIOUS
<1> USE DEF IInv
<1>1. ASSUME NEW w \in Workers, Work(w)  PROVE IInv'
  BY <1>1, WorkStep
<1>2. CASE Send
  <2>1. PICK m \in Letters :
           /\ fate[m] = "unsent" /\ Enqueue(m)
           /\ UNCHANGED <<stage, running, attached, hand, held, early, gate,
                          reader, shutting, wire>>
    BY <1>2 DEF Send
  <2>2. m \in Messages /\ m # Bye
    BY MessageFacts
  <2> QED  BY <2>1, <2>2, EnqueueStep, MessageFacts DEF TypeOK, ByeOnce
<1>3. ASSUME NEW m \in {Beat, InitTimeout}, Timer(m)  PROVE IInv'
  <2>1. m \in Messages /\ m # Bye
    BY MessageFacts
  <2> QED  BY <1>3, <2>1, EnqueueStep, MessageFacts DEF Timer, TypeOK, ByeOnce
<1>4. CASE DoInit
  <2> USE <1>4 DEF DoInit
  <2>1. TypeOK'
    <3>1. Contents(queue) \subseteq Messages
      BY DEF TypeOK, Contents
    <3> QED  BY <3>1 DEF TypeOK
  <2>2. OnePlace'
    BY DEF OnePlace, Busy
  <2>3. Stages'
    BY DEF Stages, NoneSleepsAtJoin
  <2>4. Hands'
    BY DEF Hands
  <2>5. Wakeful'
    <3>1. ASSUME queue # <<>>  PROVE Head(queue) \in early'
      BY <3>1, TailLoses DEF TypeOK
    <3> QED  BY <3>1 DEF Wakeful, Owed
  <2> QED  BY <2>1, <2>2, <2>3, <2>4, <2>5 DEF PriorityOrder, ByeOnce
<1>5. CASE DoStart
  <2> USE <1>5 DEF DoStart
  <2>1. TypeOK'
    BY DEF TypeOK, WorkerStates
  <2>2. Busy = {} /\ Busy' = {}
    BY DEF Busy, Stages
  <2>3. OnePlace'
    BY <2>2 DEF OnePlace
  <2>4. Stages'
    BY DEF Stages, NoneSleepsAtJoin
  <2>5. Hands'
    BY DEF Hands
  <2>6. Wakeful'
    <3>1. \E w \in Workers : pc'[w] = "woken"
      BY WorkerAssumption
    <3> QED  BY <3>1 DEF Wakeful, Owed
  <2> QED  BY <2>1, <2>3, <2>4, <2>5, <2>6 DEF PriorityOrder, ByeOnce
<1>6. CASE StopRunning
  <2> USE <1>6 DEF StopRunning
  <2>1. TypeOK'
    BY DEF TypeOK
  <2>2. OnePlace'
    BY DEF OnePlace, Busy
  <2>3. Stages'
    BY DEF Stages, NoneSleepsAtJoin
  <2>4. Hands'
    BY DEF Hands
  <2> QED  BY <2>1, <2>2, <2>3, <2>4 DEF PriorityOrder, ByeOnce, Wakeful
<1>7. CASE StopWakes
  <2> USE <1>7 DEF StopWakes, Broadcast
  <2>1. TypeOK'
    BY DEF TypeOK, WorkerStates
  <2>2. \A w \in Workers : pc'[w] = pc[w] \/ (pc[w] = "waiting" /\ pc'[w] = "woken")
    BY DEF Waiting
  <2>3. OnePlace'
    <3>1. Busy' = Busy
      BY <2>2 DEF Busy
    <3> QED  BY <3>1 DEF OnePlace
  <2>4. Stages'
    BY DEF Stages, NoneSleepsAtJoin, Waiting
  <2>5. Hands'
    BY <2>2 DEF Hands
  <2> QED  BY <2>1, <2>3, <2>4, <2>5 DEF PriorityOrder, ByeOnce, Wakeful
<1>8. CASE StopJoins
  <2> USE <1>8 DEF StopJoins, Shutdown
  <2>1. TypeOK'
    BY DEF TypeOK
  <2>2. OnePlace'
    BY DEF OnePlace, Busy
  <2>3. Stages'
    BY DEF Stages, NoneSleepsAtJoin, Waiting
  <2>4. Hands'
    BY DEF Hands
  <2> QED  BY <2>1, <2>2, <2>3, <2>4 DEF PriorityOrder, ByeOnce, Wakeful
<1>9. CASE Open
  <2> USE <1>9 DEF Open
  <2>1. TypeOK'
    BY DEF TypeOK
  <2>2. OnePlace' /\ Stages' /\ Hands'
    BY DEF OnePlace, Busy, Stages, NoneSleepsAtJoin, Waiting, Hands
  <2>3. Wakeful'
    BY DEF Wakeful, Owed, Active, Crashed
  <2> QED  BY <2>1, <2>2, <2>3 DEF PriorityOrder, ByeOnce
<1>10. CASE Announce
  <2>1. /\ needRepoll' = TRUE /\ reader' = "reading"
        /\ \/ pc' = pc /\ Waiting = {}
           \/ \E w \in Waiting : pc' = [pc EXCEPT ![w] = "woken"]
        /\ UNCHANGED <<queue, stage, running, attached, hand, fate, held,
                       early, gate, shutting, wire>>
    BY <1>10 DEF Announce, Signal
  <2>2. \A w \in Workers : pc'[w] = pc[w] \/ (pc[w] = "waiting" /\ pc'[w] = "woken")
    BY <2>1 DEF Waiting, TypeOK
  <2>3. TypeOK'
    BY <2>1 DEF TypeOK, WorkerStates, Waiting
  <2>4. OnePlace'
    <3>1. Busy' = Busy
      BY <2>2 DEF Busy
    <3> QED  BY <2>1, <3>1 DEF OnePlace
  <2>5. Stages'
    BY <2>1, <2>2 DEF Stages, NoneSleepsAtJoin, Waiting
  <2>6. Hands'
    BY <2>1, <2>2 DEF Hands
  <2>7. Wakeful'
    <3>1. ASSUME stage = "started", Crashed' = {}
          PROVE  Active' # {} \/ \E w \in Workers : pc'[w] = "woken"
      <4>1. CASE \E w \in Waiting : pc' = [pc EXCEPT ![w] = "woken"]
        BY <4>1 DEF Waiting, TypeOK
      <4>2. CASE pc' = pc /\ Waiting = {}
        <5>1. PICK w \in Workers : TRUE
          BY WorkerAssumption
        <5>2. pc[w] \notin {"unborn", "gone", "crashed", "waiting"}
          BY <3>1, <4>2 DEF Stages, Crashed, Waiting
        <5>3. pc[w] \in {"woken", "receiving", "writing", "holding", "returning"}
          BY <5>2 DEF WorkerStates, TypeOK
        <5> QED  BY <4>2, <5>3 DEF Active
      <4> QED  BY <2>1, <4>1, <4>2
    <3> QED  BY <2>1, <3>1 DEF Wakeful
  <2> QED  BY <2>1, <2>3, <2>4, <2>5, <2>6, <2>7 DEF PriorityOrder, ByeOnce
<1>11. CASE ReaderFails
  <2>1. fate[Bye] = "unsent" /\ Bye \in Messages
    BY <1>11, MessageFacts DEF ReaderFails, ReaderRuns, ByeOnce
  <2>2. /\ Enqueue(Bye) /\ shutting' = TRUE /\ reader' = "done"
        /\ gate' = gate \/ gate' = "closing"
        /\ UNCHANGED <<stage, running, attached, hand, held, early, wire>>
    BY <1>11 DEF ReaderFails
  <2> QED  BY <2>1, <2>2, EnqueueStep DEF TypeOK, ByeOnce
<1>12. CASE UNCHANGED vars
  <2> USE <1>12 DEF vars
  <2>1. TypeOK' /\ PriorityOrder' /\ OnePlace'
    BY DEF TypeOK, PriorityOrder, OnePlace, Busy
  <2>2. Stages' /\ Hands' /\ ByeOnce' /\ Wakeful'
    BY DEF Stages, NoneSleepsAtJoin, Waiting, Hands, ByeOnce, Wakeful, Owed,
           Active, Crashed
  <2> QED  BY <2>1, <2>2
<1> QED
  BY <1>1, <1>2, <1>3, <1>4, <1>5, <1>6, <1>7, <1>8, <1>9, <1>10, <1>11, <1>12
     DEF Next, Stopping

-----------------------------------------------------------------------------
(* The invariant holds in every reachable state.                           *)
THEOREM Invariance == Spec => []IInv
  BY InitIInv, NextStep, PTL DEF Spec

(* Every variable keeps its type. *)
THEOREM TypeCorrect == Spec => []TypeOK
<1>1. IInv => TypeOK
  BY DEF IInv
<1> QED  BY <1>1, Invariance, PTL

(* The queue is ordered by priority, whatever is put back into it while    *)
(* other messages arrive (enqueue and enqueueFront, WPInterface.cc).       *)
THEOREM QueueInOrder == Spec => []PriorityOrder
<1>1. IInv => PriorityOrder
  BY DEF IInv
<1> QED  BY <1>1, Invariance, PTL

(* No message is lost, and none is delivered twice, between the queue and  *)
(* the workers (WPInterface::deliver).                                     *)
THEOREM NothingLostOrDoubled == Spec => []OnePlace
<1>1. IInv => OnePlace
  BY DEF IInv
<1> QED  BY <1>1, Invariance, PTL

(* The workers never all sleep on a head of the queue that is news to them *)
(* (runWorker, deliver, enqueue): for any number of workers.               *)
THEOREM NoHeadIsStranded == Spec => []NoStrandedHead
<1>1. IInv => NoStrandedHead
  <2> SUFFICES ASSUME IInv, running, queue # <<>>,
                      \A w \in Workers : pc[w] = "waiting"
               PROVE  Head(queue) \in held \cup early
    BY DEF NoStrandedHead
  <2>1. PICK w \in Workers : TRUE
    BY WorkerAssumption
  <2>2. stage = "started"
    BY <2>1 DEF IInv, Stages
  <2>3. Crashed = {} /\ Active = {} /\ ~\E v \in Workers : pc[v] = "woken"
    BY DEF Crashed, Active
  <2> QED  BY <2>2, <2>3 DEF IInv, Wakeful, Owed
<1> QED  BY <1>1, Invariance, PTL

(* do_stop joins workers that are awake or gone: its broadcast is missed   *)
(* by none of them.                                                        *)
THEOREM StopMissesNone == Spec => []NoneSleepsAtJoin
<1>1. IInv => NoneSleepsAtJoin
  BY DEF IInv, Stages
<1> QED  BY <1>1, Invariance, PTL
=============================================================================
