---------------------------- MODULE MCNodeCache ----------------------------
(* A parameter shared by the two children of a root. *)
EXTENDS NodeCache, TLC

CONSTANTS top, left, right, parm

DiamondKids == (top :> {left, right}) @@ (left :> {parm}) @@ (right :> {parm}) @@ (parm :> {})
DiamondBelow == (top :> {top, left, right, parm}) @@ (left :> {left, parm}) @@ (right :> {right, parm}) @@ (parm :> {parm})

\* Fields: 1 type, 2 iteration, 3 state, 5 domain.
DiamondDeps == (top :> {}) @@ (left :> {5}) @@ (right :> {}) @@ (parm :> {2, 5})
DiamondDynDeps == (top :> {}) @@ (left :> {}) @@ (right :> {}) @@ (parm :> {2, 5})
DiamondOutcomes ==
    [n \in Nodes |-> [c \in 1..MaxCalls |-> IF n = parm /\ c = 1 THEN {"ok", "wait"} ELSE {"ok"}]]
DiamondPolicy == (top :> SMART) @@ (left :> SMART) @@ (right :> MINIMAL) @@ (parm :> SMART)
============================================================================
