------------------------------ MODULE ActorQueues ------------------------------
(***************************************************************************)
(* What an actor thread pool promises to those who submit tasks to it: the *)
(* tasks of one actor run one at a time, in the order of their submission, *)
(* each once; and none is forgotten, unless the pool is stopped.           *)
(***************************************************************************)
EXTENDS Naturals

CONSTANT Actors

VARIABLES submitted, \* actor -> tasks handed to the pool so far
          started,   \* actor -> tasks that began to run
          finished,  \* actor -> tasks that ended
          stopped

vars == <<submitted, started, finished, stopped>>

Zero == [a \in Actors |-> 0]

Init == submitted = Zero /\ started = Zero /\ finished = Zero /\ stopped = FALSE

Submit(a) ==
    /\ submitted' = [submitted EXCEPT ![a] = @ + 1]
    /\ UNCHANGED <<started, finished, stopped>>

Start(a) ==
    /\ ~stopped
    /\ finished[a] = started[a] /\ started[a] < submitted[a]
    /\ started' = [started EXCEPT ![a] = @ + 1]
    /\ UNCHANGED <<submitted, finished, stopped>>

Finish(a) ==
    /\ finished[a] < started[a]
    /\ finished' = [finished EXCEPT ![a] = @ + 1]
    /\ UNCHANGED <<submitted, started, stopped>>

Stop ==
    /\ stopped' = TRUE
    /\ UNCHANGED <<submitted, started, finished>>

Next == Stop \/ \E a \in Actors : Submit(a) \/ Start(a) \/ Finish(a)

Spec == Init /\ [][Next]_vars

FairSpec == Spec /\ \A a \in Actors : WF_vars(Start(a)) /\ WF_vars(Finish(a))

===============================================================================
