------------------------------- MODULE MCReactor -------------------------------
(***************************************************************************)
(* Instances of Reactor for TLC: what the clients send and which of their  *)
(* frames are answered or end the session.                                 *)
(***************************************************************************)
EXTENDS Reactor

CONSTANTS c1, c2

(* One client that sends two frames, both answered; another whose only     *)
(* frame is answered and ends its session.                                 *)
TwoAndFinal  == c1 :> 2 @@ c2 :> 1
BothAnswered == c1 :> {1, 2} @@ c2 :> {1}
FinalOfSecond == c1 :> {} @@ c2 :> {1}

Everybody == {c1, c2}

(* The first client ends its session with its second frame; nobody leaves. *)
FinalOfFirst == c1 :> {2} @@ c2 :> {}
None == {}

===============================================================================
