-------------------------- MODULE MCSessionOutput --------------------------
(* Instances of SessionOutput for model checking. *)
EXTENDS SessionOutput, TLC

CONSTANTS c1, c2, c3, c4

(* Two calls about one action, one after the other, a call about another *)
(* at the same time, and an embedded one.                                 *)
ThreeActions ==
  (c1 :> "action1") @@ (c2 :> "action1") @@ (c3 :> "action2") @@ (c4 :> "action3")

=============================================================================
