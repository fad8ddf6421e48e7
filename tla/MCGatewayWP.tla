----------------------------- MODULE MCGatewayWP -----------------------------
(***************************************************************************)
(* Instances of GatewayWP for TLC.                                         *)
(***************************************************************************)
EXTENDS GatewayWP

CONSTANTS one, two, nothing, beat, expiry, farewell

TwoWorkers == {one, two}

TwoLetters == {1, 2, beat, expiry, farewell}

(* The letters have one priority, PRI_NORMAL; the events have PRI_EVENT. *)
NormalAndEvent == [m \in TwoLetters |-> IF m \in {1, 2} THEN 1 ELSE 2]

(* The second letter overtakes the first one, and the events both. *)
Rising == [m \in TwoLetters |-> IF m \in {1, 2} THEN m ELSE 3]
=============================================================================
