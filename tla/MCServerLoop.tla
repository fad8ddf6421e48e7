---------------------------- MODULE MCServerLoop ----------------------------
(* One root with one child, evaluated by two threads. *)
EXTENDS ServerLoop

CONSTANTS exec, child, main, nobody

OneHelper == {child}

(* The user's breakpoint: the second execution state of any node. *)
SecondState == {{2}}

=============================================================================
