------------------------------- MODULE MCWsBus -------------------------------
(* WsBus for TLC: ann's two tabs and bob's one.                               *)
EXTENDS WsBus, TLC

CONSTANTS ann, bob, general, a1, a2, b1

TwoAndOne == (a1 :> ann) @@ (a2 :> ann) @@ (b1 :> bob)
OnlyAnn == general :> {ann}
=============================================================================
