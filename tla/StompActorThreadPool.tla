------------------------- MODULE StompActorThreadPool -------------------------
(***************************************************************************)
(* The thread pool of the reactor server (StompActorThreadPool.java):      *)
(* tasks are submitted for an actor, the connection handler, and a fixed   *)
(* number of workers runs them.  The pool promises what ActorQueues says.  *)
(*                                                                         *)
(* submit and complete hold the monitor of the actor, and the steps inside *)
(* it are the operations on the collections that threads of other actors   *)
(* use as well: playingNow, the map acts and the executor's queue.  The    *)
(* read-write lock around acts is held for one operation only.             *)
(***************************************************************************)
EXTENDS Integers, Sequences

CONSTANTS Actors, Submitters, Workers,
          MaxTasks, \* bound on the tasks submitted for one actor
          Nobody

Threads == Submitters \cup Workers

ASSUME PoolAssumption ==
    /\ Submitters \cap Workers = {}
    /\ Nobody \notin Threads /\ Nobody \notin Actors
    /\ MaxTasks \in Nat

VARIABLES
  playingNow, \* actors that have a task with the executor
  acts,       \* actor -> its pending tasks, oldest first; empty if not in the map
  threads,    \* the executor's queue
  stopped,    \* shutdownNow was called
  monitor,    \* actor -> the thread in a synchronized block of it, or Nobody
  pc,         \* thread -> its next step
  job,        \* thread -> the task in its hands
  (* history: how many tasks were submitted, and the last that began and ended *)
  submitted, started, finished

vars == <<playingNow, acts, threads, stopped, monitor, pc, job, submitted, started, finished>>

(* A task is its actor and its place in the actor's submissions.           *)
Task == [act : Actors, number : Nat]
NoTask == [act |-> Nobody, number |-> 0]

Init ==
    /\ playingNow = {}
    /\ acts = [a \in Actors |-> <<>>]
    /\ threads = <<>>
    /\ stopped = FALSE
    /\ monitor = [a \in Actors |-> Nobody]
    /\ pc = [w \in Threads |-> "idle"]
    /\ job = [w \in Threads |-> NoTask]
    /\ submitted = [a \in Actors |-> 0]
    /\ started = [a \in Actors |-> 0]
    /\ finished = [a \in Actors |-> 0]

Goto(s, label) == pc' = [pc EXCEPT ![s] = label]

(* Mutant: the block is not synchronized.                                  *)
EnterUnlocked(s, a) == UNCHANGED monitor

Enter(s, a) == monitor[a] = Nobody /\ monitor' = [monitor EXCEPT ![a] = s]

(* The end of a synchronized block, and of the task in the thread's hands. *)
Leave(s) ==
    /\ monitor' = [monitor EXCEPT ![job[s].act] = Nobody]
    /\ job' = [job EXCEPT ![s] = NoTask]
    /\ Goto(s, "idle")

(* threads.execute: a pool that was shut down throws                       *)
(* RejectedExecutionException, which leaves the monitor all the same.      *)
Execute(t) == threads' = IF stopped THEN threads ELSE Append(threads, t)

-----------------------------------------------------------------------------
(* submit(act, r)                                                          *)

SubmitEnter(s) ==
    /\ pc[s] = "idle"
    /\ \E a \in Actors :
         /\ submitted[a] < MaxTasks
         /\ Enter(s, a)
         /\ submitted' = [submitted EXCEPT ![a] = @ + 1]
         /\ job' = [job EXCEPT ![s] = [act |-> a, number |-> submitted[a] + 1]]
    /\ Goto(s, "submit.contains")
    /\ UNCHANGED <<playingNow, acts, threads, stopped, started, finished>>

SubmitContains(s) ==
    /\ pc[s] = "submit.contains"
    /\ Goto(s, IF job[s].act \in playingNow THEN "submit.pend" ELSE "submit.add")
    /\ UNCHANGED <<playingNow, acts, threads, stopped, monitor, job, submitted, started, finished>>

SubmitAdd(s) ==
    /\ pc[s] = "submit.add"
    /\ playingNow' = playingNow \cup {job[s].act}
    /\ Goto(s, "submit.execute")
    /\ UNCHANGED <<acts, threads, stopped, monitor, job, submitted, started, finished>>

SubmitExecute(s) ==
    /\ pc[s] = "submit.execute"
    /\ Execute(job[s])
    /\ Leave(s)
    /\ UNCHANGED <<playingNow, acts, stopped, submitted, started, finished>>

(* Mutant: the newest task is put first.                                   *)
SubmitPendFirst(s) ==
    /\ pc[s] = "submit.pend"
    /\ acts' = [acts EXCEPT ![job[s].act] = <<job[s]>> \o @]
    /\ Leave(s)
    /\ UNCHANGED <<playingNow, threads, stopped, submitted, started, finished>>

SubmitPend(s) ==
    /\ pc[s] = "submit.pend"
    /\ acts' = [acts EXCEPT ![job[s].act] = Append(@, job[s])]
    /\ Leave(s)
    /\ UNCHANGED <<playingNow, threads, stopped, submitted, started, finished>>

-----------------------------------------------------------------------------
(* A worker: it takes the oldest task of the executor's queue, runs it,    *)
(* and completes the actor in the finally block, so whether r.run()        *)
(* returns or throws makes no difference.  (The executor replaces a worker *)
(* that an exception has ended.)                                           *)

Take(w) ==
    /\ pc[w] = "idle" /\ threads # <<>>
    /\ job' = [job EXCEPT ![w] = Head(threads)]
    /\ threads' = Tail(threads)
    /\ started' = [started EXCEPT ![Head(threads).act] = Head(threads).number]
    /\ Goto(w, "run")
    /\ UNCHANGED <<playingNow, acts, stopped, monitor, submitted, finished>>

(* Mutant: complete is not in a finally block.                             *)
RunEndsThrowing(w) ==
    /\ pc[w] = "run"
    /\ finished' = [finished EXCEPT ![job[w].act] = job[w].number]
    /\ \/ Goto(w, "complete") /\ UNCHANGED job
       \/ Goto(w, "idle") /\ job' = [job EXCEPT ![w] = NoTask]
    /\ UNCHANGED <<playingNow, acts, threads, stopped, monitor, submitted, started>>

RunEnds(w) ==
    /\ pc[w] = "run"
    /\ finished' = [finished EXCEPT ![job[w].act] = job[w].number]
    /\ Goto(w, "complete")
    /\ UNCHANGED <<playingNow, acts, threads, stopped, monitor, job, submitted, started>>

(* complete(act)                                                           *)
CompleteEnter(w) ==
    /\ pc[w] = "complete"
    /\ Enter(w, job[w].act)
    /\ Goto(w, "complete.isEmpty")
    /\ UNCHANGED <<playingNow, acts, threads, stopped, job, submitted, started, finished>>

CompleteIsEmpty(w) ==
    /\ pc[w] = "complete.isEmpty"
    /\ Goto(w, IF acts[job[w].act] = <<>> THEN "complete.remove" ELSE "complete.poll")
    /\ UNCHANGED <<playingNow, acts, threads, stopped, monitor, job, submitted, started, finished>>

CompleteRemove(w) ==
    /\ pc[w] = "complete.remove"
    /\ playingNow' = playingNow \ {job[w].act}
    /\ Leave(w)
    /\ UNCHANGED <<acts, threads, stopped, submitted, started, finished>>

CompletePoll(w) ==
    /\ pc[w] = "complete.poll"
    /\ LET a == job[w].act IN
         /\ Execute(Head(acts[a]))
         /\ acts' = [acts EXCEPT ![a] = Tail(@)]
    /\ Leave(w)
    /\ UNCHANGED <<playingNow, stopped, submitted, started, finished>>

-----------------------------------------------------------------------------
(* shutdown(): shutdownNow hands the queued tasks back and nobody runs     *)
(* them.                                                                   *)
Shutdown ==
    /\ ~stopped
    /\ stopped' = TRUE
    /\ threads' = <<>>
    /\ UNCHANGED <<playingNow, acts, monitor, pc, job, submitted, started, finished>>

-----------------------------------------------------------------------------
SubmitStep(s) == SubmitContains(s) \/ SubmitAdd(s) \/ SubmitExecute(s) \/ SubmitPend(s)

WorkerStep(w) ==
    \/ Take(w) \/ RunEnds(w)
    \/ CompleteEnter(w) \/ CompleteIsEmpty(w) \/ CompleteRemove(w) \/ CompletePoll(w)

(* Nothing more to submit, nothing left to run.                            *)
Quiescent ==
    /\ \A a \in Actors : submitted[a] = MaxTasks
    /\ \A w \in Threads : pc[w] = "idle"
    /\ threads = <<>>
    /\ UNCHANGED vars

Next ==
    \/ \E s \in Submitters : SubmitEnter(s) \/ SubmitStep(s)
    \/ \E w \in Workers : WorkerStep(w)
    \/ Shutdown
    \/ Quiescent

(* Every thread that can run does, and every task ends.  The submitters    *)
(* owe nothing; inside submit they go on.                                  *)
Fairness ==
    /\ \A s \in Submitters : WF_vars(SubmitStep(s))
    /\ \A w \in Workers : WF_vars(WorkerStep(w))

Spec == Init /\ [][Next]_vars
FairSpec == Spec /\ Fairness

-----------------------------------------------------------------------------
SubmitLabels == {"submit.contains", "submit.add", "submit.execute", "submit.pend"}
CompleteLabels == {"complete.isEmpty", "complete.remove", "complete.poll"}
WorkLabels == {"run", "complete"} \cup CompleteLabels
InMonitor == SubmitLabels \cup CompleteLabels
Labels == {"idle"} \cup SubmitLabels \cup WorkLabels

(* Type invariant.                                                         *)
TypeOK ==
    /\ playingNow \subseteq Actors
    /\ acts \in [Actors -> Seq(Task)]
    /\ threads \in Seq(Task)
    /\ stopped \in BOOLEAN
    /\ monitor \in [Actors -> Threads \cup {Nobody}]
    /\ pc \in [Threads -> Labels]
    /\ job \in [Threads -> Task \cup {NoTask}]
    /\ submitted \in [Actors -> Nat]
    /\ started \in [Actors -> Nat]
    /\ finished \in [Actors -> Nat]

(* The threads that have a task of an actor in their hands to run it, or   *)
(* to complete the actor after it; and its tasks in the executor's queue.  *)
Submitting == {"submit.contains", "submit.add", "submit.pend"}
Playing(a) == {s \in Threads : job[s].act = a /\ pc[s] \notin Submitting}
Queued(a) == {i \in DOMAIN threads : threads[i].act = a}

AtMostOne(S) == \A x, y \in S : x = y

(* An actor of playingNow has exactly one task with the executor, from     *)
(* submit through every complete; any other actor has none.  So two        *)
(* workers never run tasks of one connection at a time.                    *)
OneAtATime ==
    \A a \in Actors :
        /\ AtMostOne(Playing(a)) /\ AtMostOne(Queued(a))
        /\ Playing(a) = {} \/ Queued(a) = {}
        /\ a \notin playingNow => Playing(a) = {} /\ Queued(a) = {}
        /\ a \in playingNow /\ ~stopped => Playing(a) # {} \/ Queued(a) # {}

(* A task waits in acts only while another one of its actor is on its way, *)
(* whose complete will poll it.                                            *)
NoTaskForgotten ==
    \A a \in Actors : acts[a] # <<>> => a \in playingNow

-----------------------------------------------------------------------------
(* The inductive invariant behind them.                                    *)

(* Who is where, and who holds which monitor.                              *)
MonitorOf(s) ==
    /\ pc[s] \in SubmitLabels => s \in Submitters
    /\ pc[s] \in WorkLabels => s \in Workers
    /\ pc[s] = "idle" <=> job[s] = NoTask
    /\ pc[s] \in InMonitor => monitor[job[s].act] = s
    /\ \A a \in Actors : monitor[a] = s => pc[s] \in InMonitor /\ job[s].act = a

(* What a thread has found out in its synchronized block is still so.      *)
BranchOf(s) ==
    LET a == job[s].act IN
    /\ pc[s] \in {"submit.pend", "submit.execute"} => a \in playingNow
    /\ pc[s] = "submit.add" => a \notin playingNow
    /\ pc[s] = "complete.remove" => acts[a] = <<>>
    /\ pc[s] = "complete.poll" => acts[a] # <<>>
    /\ pc[s] \in Submitting => job[s].number = submitted[a]

(* The number of the next task of an actor: the pending ones are the last  *)
(* submitted, the one with the executor comes before them.                 *)
BeingSubmitted(a) == \E s \in Threads : job[s].act = a /\ pc[s] \in Submitting
Last(a) == IF BeingSubmitted(a) THEN submitted[a] - 1 ELSE submitted[a]
Current(a) == Last(a) - Len(acts[a])

Running(a) == \E s \in Playing(a) : pc[s] = "run"

OrderOf(a) ==
    /\ \A i \in DOMAIN acts[a] : acts[a][i] = [act |-> a, number |-> Current(a) + i]
    /\ a \notin playingNow => started[a] = Current(a)
    /\ \A i \in Queued(a) : threads[i].number = Current(a) /\ started[a] + 1 = Current(a)
    /\ \A s \in Playing(a) :
          /\ job[s].number = Current(a)
          /\ started[a] = IF pc[s] = "submit.execute" THEN Current(a) - 1 ELSE Current(a)
    /\ finished[a] = IF Running(a) THEN started[a] - 1 ELSE started[a]

PoolInv ==
    /\ TypeOK
    /\ stopped => threads = <<>>
    /\ \A s \in Threads : MonitorOf(s) /\ BranchOf(s)
    /\ OneAtATime
    /\ NoTaskForgotten
    /\ \A a \in Actors : OrderOf(a)

-----------------------------------------------------------------------------
Queues == INSTANCE ActorQueues

(* What the workers run are the tasks of each actor in the order of their  *)
(* submission, one at a time, each once.                                   *)
ImplementsActorQueues == Queues!Spec

(* And every task submitted is run, unless the pool is shut down.          *)
ImplementsFairActorQueues == Queues!FairSpec

===============================================================================
