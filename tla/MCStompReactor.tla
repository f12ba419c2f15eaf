----------------------------- MODULE MCStompReactor -----------------------------
(***************************************************************************)
(* An instance of StompReactor for TLC: one client sends a CONNECT and     *)
(* another frame, the other a CONNECT alone; no session ends.              *)
(***************************************************************************)
EXTENDS StompReactor

CONSTANTS c1, c2

Everybody == {c1, c2}
TwoAndOne == c1 :> 2 @@ c2 :> 1
AllAnswered == c1 :> {1, 2} @@ c2 :> {1}
NoFinal == c1 :> {} @@ c2 :> {}

===============================================================================
