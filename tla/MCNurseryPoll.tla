--------------------------- MODULE MCNurseryPoll ---------------------------
(* Small trees for NurseryPoll.  Node r is the root.                        *)
EXTENDS NurseryPoll, TLC

CONSTANTS e, w1, w2, r, a, b, c, x, s

MCThread == {e, w1, w2}

KidsFrom(f)  == [n \in Node |-> IF n \in DOMAIN f THEN f[n] ELSE <<>>]
Collect      == [n \in Node |-> "CollectPropagate"]

(* A tree with a nursery of every kind: r polls with the brigade in the      *)
(* foreground and in the background, a and b poll one child themselves, b a  *)
(* stepchild too, and the child they share polls with the brigade again:     *)
(* twice at the same depth for the same request.                             *)
WideNode     == {r, a, b, c, x, s}
WideKids     == KidsFrom((r :> <<a, b>>) @@ (a :> <<x>>) @@ (b :> <<x>>)
                         @@ (x :> <<c, s>>))
WideStepKids == KidsFrom((r :> <<c, s>>) @@ (b :> <<c>>))
WideFail     == [Collect EXCEPT ![a] = "Ignore"]

\* No node fails, or any set of the given ones does, in one way each.
Failing(F) == {[n \in Node |-> [q \in Request |-> IF n \in F1 THEN {"FAIL"}
                 ELSE IF n \in F2 THEN {"MISSING"} ELSE {}]] :
               F1 \in SUBSET F, F2 \in SUBSET F}
WideVerdicts == {v \in Failing({c, s}) : v[c][1] = {"FAIL"} /\ v[s][1] = {"MISSING"}}

(* A node that polls children and stepchildren with the brigade, below a     *)
(* root that polls it serially.                                             *)
DeepNode     == {r, a, b, c, x}
DeepKids     == KidsFrom((r :> <<a, x>>) @@ (a :> <<b, c>>))
DeepStepKids == KidsFrom(a :> <<b, x>>)
DeepVerdicts == {v \in Failing({b}) : v[b][1] = {"MISSING"}}

(* A root with three leaves.                                                *)
ThreeNode    == {r, a, b, c}
ThreeKids    == KidsFrom(r :> <<a, b, c>>)
NoKids       == KidsFrom(<<>>)
Abandon      == [n \in Node |-> "AbandonPropagate"]
ThreeVerdicts == Failing({b})
=============================================================================
