---------------------------- MODULE MessageQueue ----------------------------
(***************************************************************************)
(* The message queue of a work process (src/OCTOPUSSY/src/WPInterface.cc): *)
(* a list ordered by descending priority.  A new message goes behind the   *)
(* messages of its own priority (enqueue); a message that a handler holds  *)
(* goes back in front of them (enqueueFront).                              *)
(***************************************************************************)
EXTENDS Naturals, Sequences

CONSTANTS
    Messages,  \* the messages of the system
    Pri        \* Message::priority() of each of them

ASSUME PriAssumption == Pri \in [Messages -> Nat]

(* The message m put behind the first k messages of the queue q. *)
InsertedAt(q, k, m) ==
    [i \in 1 .. Len(q) + 1 |->
        IF i <= k THEN q[i] ELSE IF i = k + 1 THEN m ELSE q[i - 1]]

(* WPInterface::enqueue: the number of messages in front of a new one.  An *)
(* empty queue, the back and the front are tried before the scan (cases A, *)
(* B, C and D of the code).                                                *)
Place(q, m) ==
    IF q = <<>> THEN 0
    ELSE IF Pri[m] <= Pri[q[Len(q)]] THEN Len(q)
    ELSE IF Pri[m] > Pri[q[1]] THEN 0
    ELSE CHOOSE k \in 0 .. Len(q) - 1 :
            /\ \A i \in 1 .. k : Pri[q[i]] >= Pri[m]
            /\ Pri[q[k + 1]] < Pri[m]

Inserted(q, m) == InsertedAt(q, Place(q, m), m)

(* WPInterface::enqueueFront: the number of messages in front of one that  *)
(* was held.                                                               *)
FrontPlaceHead(q, m) == 0

FrontPlace(q, m) ==
    CHOOSE k \in 0 .. Len(q) :
        /\ \A i \in 1 .. k : Pri[q[i]] > Pri[m]
        /\ k < Len(q) => Pri[q[k + 1]] <= Pri[m]

InsertedFront(q, m) == InsertedAt(q, FrontPlace(q, m), m)

(* What a queue holds. *)
Contents(q) == {q[i] : i \in 1 .. Len(q)}

(* No message is in a queue twice. *)
Once(q) == \A i, j \in 1 .. Len(q) : q[i] = q[j] => i = j

(* The order that both keep. *)
ByPriority(q) ==
    \A i, j \in 1 .. Len(q) : i < j => Pri[q[i]] >= Pri[q[j]]
=============================================================================
