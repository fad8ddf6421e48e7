----------------------------- MODULE MCBrigade -----------------------------
(* Brigade on a small pool: the execution thread e, two workers started by  *)
(* the constructor, one more that may be spawned, and clients at two depths.*)
EXTENDS Brigade, TLC

CONSTANTS e, w1, w2, w3, a1, a2, a3, a4, b1, b2, A, B

MCDepthOf  == (a1 :> 1) @@ (a2 :> 1) @@ (a3 :> 1) @@ (a4 :> 1) @@ (b1 :> 2) @@ (b2 :> 2)
MCClientOf == (a1 :> A) @@ (a2 :> A) @@ (a3 :> A) @@ (a4 :> A) @@ (b1 :> B) @@ (b2 :> B)
MCBatch    == {<<a1, a2, a3>>, <<a4>>, <<b1, b2>>}

Symmetry == Permutations({w1, w2})
=============================================================================
