---------------------- MODULE StompActorThreadPool_proofs ----------------------
(***************************************************************************)
(* Proofs that the actor thread pool keeps its invariant and implements    *)
(* ActorQueues, for any number of actors, submitters, workers and tasks.   *)
(*                                                                         *)
(* A step is taken by one thread on behalf of one actor.  The lemmas say   *)
(* what it leaves alone, of the other threads and of the other actors, so  *)
(* that the proof of an action is about its own actor.                     *)
(***************************************************************************)
EXTENDS StompActorThreadPool, TLAPS

(* What the invariant says of one actor.                                   *)
OneOf(a) ==
    /\ AtMostOne(Playing(a)) /\ AtMostOne(Queued(a))
    /\ Playing(a) = {} \/ Queued(a) = {}
    /\ a \notin playingNow => Playing(a) = {} /\ Queued(a) = {}
    /\ a \in playingNow /\ ~stopped => Playing(a) # {} \/ Queued(a) # {}

ActorInv(a) ==
    /\ OneOf(a)
    /\ acts[a] # <<>> => a \in playingNow
    /\ OrderOf(a)

ThreadInv(s) == MonitorOf(s) /\ BranchOf(s)

(* The invariant by threads and actors.                                   *)
LEMMA PoolInvParts ==
    PoolInv <=> /\ TypeOK
                /\ stopped => threads = <<>>
                /\ \A s \in Threads : ThreadInv(s)
                /\ \A a \in Actors : ActorInv(a)
BY DEF PoolInv, OneAtATime, NoTaskForgotten, OneOf, ActorInv, ThreadInv

-----------------------------------------------------------------------------
(* What the threads are at.                                                *)

(* A thread that is not idle has a task of an actor in its hands.          *)
LEMMA JobType ==
    ASSUME TypeOK, NEW s \in Threads, ThreadInv(s), pc[s] # "idle"
    PROVE  job[s] \in Task /\ job[s].act \in Actors /\ job[s].number \in Nat
<1>1. job[s] \in Task \cup {NoTask} /\ job[s] # NoTask
  BY DEF TypeOK, ThreadInv, MonitorOf
<1>. QED
  BY <1>1 DEF Task

(* An idle one has a task of nobody.                                       *)
LEMMA IdleJob ==
    ASSUME TypeOK, NEW s \in Threads, ThreadInv(s), pc[s] = "idle", NEW a \in Actors
    PROVE  job[s].act # a
BY PoolAssumption DEF ThreadInv, MonitorOf, NoTask

(* The monitor of an actor lets one thread in.                             *)
LEMMA Sole ==
    ASSUME NEW s \in Threads, NEW r \in Threads, ThreadInv(s), ThreadInv(r),
           pc[s] \in InMonitor, pc[r] \in InMonitor, job[r].act = job[s].act
    PROVE  r = s
BY DEF ThreadInv, MonitorOf

(* Nobody is in a monitor that is free.                                    *)
LEMMA Free ==
    ASSUME NEW a \in Actors, monitor[a] = Nobody, NEW r \in Threads, ThreadInv(r),
           pc[r] \in InMonitor
    PROVE  job[r].act # a
BY PoolAssumption DEF ThreadInv, MonitorOf

(* A thread that does nothing keeps its part of the invariant, if what it  *)
(* has found out of its actor stays so while it is in the actor's monitor. *)
LEMMA OtherThreads ==
    ASSUME TypeOK, TypeOK', NEW r \in Threads, ThreadInv(r),
           pc'[r] = pc[r], job'[r] = job[r],
           \A a \in Actors : monitor'[a] = r <=> monitor[a] = r,
           pc[r] \in InMonitor =>
              /\ job[r].act \in playingNow' <=> job[r].act \in playingNow
              /\ acts'[job[r].act] = acts[job[r].act]
              /\ submitted'[job[r].act] = submitted[job[r].act]
    PROVE  ThreadInv(r)'
<1>1. pc[r] \in InMonitor => job[r].act \in Actors
  BY JobType DEF InMonitor, SubmitLabels, CompleteLabels
<1>2. MonitorOf(r)'
  BY <1>1 DEF ThreadInv, MonitorOf
<1>3. BranchOf(r)'
  BY DEF ThreadInv, BranchOf, InMonitor, SubmitLabels, CompleteLabels, Submitting
<1>. QED
  BY <1>2, <1>3 DEF ThreadInv

-----------------------------------------------------------------------------
(* What is in the executor's queue.                                        *)

(* A task that is put into it is the last one of its actor there.          *)
LEMMA QueuedAppend ==
    ASSUME TypeOK, NEW t \in Task, threads' = Append(threads, t), NEW a \in Actors
    PROVE  /\ Queued(a)' = IF t.act = a THEN Queued(a) \cup {Len(threads) + 1} ELSE Queued(a)
           /\ \A i \in Queued(a) : threads'[i] = threads[i]
           /\ threads'[Len(threads) + 1] = t
           /\ Len(threads) + 1 \notin Queued(a)
<1>1. threads \in Seq(Task)
  BY DEF TypeOK
<1>2. /\ Len(threads) \in Nat /\ DOMAIN threads = 1 .. Len(threads)
      /\ DOMAIN threads' = 1 .. Len(threads) + 1
      /\ \A i \in 1 .. Len(threads) : threads'[i] = threads[i]
      /\ threads'[Len(threads) + 1] = t
  BY <1>1
<1>. QED
  BY <1>2 DEF Queued

(* Taking the oldest moves the others up.                                  *)
LEMMA QueuedTail ==
    ASSUME TypeOK, threads # <<>>, threads' = Tail(threads), NEW a \in Actors
    PROVE  /\ \A i \in Queued(a)' : i + 1 \in Queued(a) /\ threads'[i] = threads[i + 1]
           /\ \A i \in Queued(a) : i # 1 => i - 1 \in Queued(a)'
           /\ Queued(a) \subseteq Nat
           /\ Head(threads) = threads[1] /\ 1 \in DOMAIN threads /\ threads[1] \in Task
<1>1. threads \in Seq(Task)
  BY DEF TypeOK
<1>2. /\ Len(threads) \in Nat /\ DOMAIN threads = 1 .. Len(threads) /\ Len(threads) >= 1
      /\ DOMAIN threads' = 1 .. Len(threads) - 1
      /\ \A i \in 1 .. Len(threads) - 1 : threads'[i] = threads[i + 1]
      /\ Head(threads) = threads[1] /\ threads[1] \in Task
  BY <1>1
<1>. QED
  BY <1>2 DEF Queued

-----------------------------------------------------------------------------
(* An actor on whose behalf nothing is done keeps its part of the          *)
(* invariant.  Its tasks in the executor's queue may have moved up.        *)
LEMMA OtherActors ==
    ASSUME TypeOK, NEW a \in Actors, ActorInv(a), NEW s \in Threads,
           \A r \in Threads \ {s} : pc'[r] = pc[r] /\ job'[r] = job[r],
           job[s].act # a, job'[s].act # a,
           a \in playingNow' <=> a \in playingNow,
           acts'[a] = acts[a], submitted'[a] = submitted[a],
           started'[a] = started[a], finished'[a] = finished[a],
           stopped => stopped',
           \/ \A i \in Queued(a)' : i + 1 \in Queued(a) /\ threads'[i] = threads[i + 1]
           \/ \A i \in Queued(a)' : i \in Queued(a) /\ threads'[i] = threads[i],
           Queued(a) \subseteq Nat, Queued(a)' \subseteq Nat,
           Queued(a) # {} => Queued(a)' # {}
    PROVE  ActorInv(a)'
<1>1. Playing(a)' = Playing(a) /\ \A r \in Playing(a) : pc'[r] = pc[r] /\ job'[r] = job[r]
  BY DEF Playing
<1>2. BeingSubmitted(a)' <=> BeingSubmitted(a)
  BY DEF BeingSubmitted
<1>3. Current(a)' = Current(a)
  BY <1>2 DEF Current, Last
<1>4. Running(a)' <=> Running(a)
  BY <1>1 DEF Running
<1>5. AtMostOne(Queued(a)) => AtMostOne(Queued(a)')
  BY DEF AtMostOne
<1>6. Queued(a) = {} => Queued(a)' = {}
  OBVIOUS
<1>7. OneOf(a)'
  <2>1. OneOf(a)
    BY DEF ActorInv
  <2>2. AtMostOne(Playing(a)')
    BY <1>1, <2>1 DEF OneOf
  <2>3. AtMostOne(Queued(a)')
    BY <1>5, <2>1 DEF OneOf
  <2>. QED
    BY <1>1, <1>6, <2>1, <2>2, <2>3 DEF OneOf, AtMostOne
<1>8. OrderOf(a)'
  <2>1. OrderOf(a)
    BY DEF ActorInv
  <2>2. \A i \in Queued(a)' : threads'[i].number = Current(a)' /\ started'[a] + 1 = Current(a)'
    BY <1>3, <2>1 DEF OrderOf
  <2>3. \A r \in Playing(a)' :
           /\ job'[r].number = Current(a)'
           /\ started'[a] = IF pc'[r] = "submit.execute" THEN Current(a)' - 1 ELSE Current(a)'
    BY <1>1, <1>3, <2>1 DEF OrderOf
  <2>4. \A i \in DOMAIN acts'[a] : acts'[a][i] = [act |-> a, number |-> Current(a)' + i]
    BY <1>3, <2>1 DEF OrderOf
  <2>5. a \notin playingNow' => started'[a] = Current(a)'
    BY <1>3, <2>1 DEF OrderOf
  <2>6. finished'[a] = IF Running(a)' THEN started'[a] - 1 ELSE started'[a]
    BY <1>4, <2>1 DEF OrderOf
  <2>. QED
    BY <2>2, <2>3, <2>4, <2>5, <2>6 DEF OrderOf
<1>. QED
  BY <1>7, <1>8 DEF ActorInv

-----------------------------------------------------------------------------
(* Types.                                                                  *)

PoolStep(s) ==
    \/ s \in Submitters /\ (SubmitEnter(s) \/ SubmitStep(s))
    \/ s \in Workers /\ WorkerStep(s)

(* Next is a step of a thread, the shutdown, or changes nothing.           *)
LEMMA NextIsPoolStep ==
    [Next]_vars => (\E s \in Threads : PoolStep(s)) \/ Shutdown \/ UNCHANGED vars
BY DEF Next, Quiescent, PoolStep, Threads

(* The initial state has the types.                                        *)
LEMMA TypeInit == Init => TypeOK
<1>1. <<>> \in Seq(Task) /\ "idle" \in Labels
  BY DEF Labels
<1>2. Init => /\ acts \in [Actors -> Seq(Task)]
              /\ threads \in Seq(Task)
              /\ pc \in [Threads -> Labels]
  BY <1>1 DEF Init
<1>3. Init => /\ playingNow \subseteq Actors
              /\ stopped \in BOOLEAN
  BY DEF Init
<1>4. Init => /\ monitor \in [Actors -> Threads \cup {Nobody}]
              /\ job \in [Threads -> Task \cup {NoTask}]
  BY Zenon DEF Init
<1>5. Init => /\ submitted \in [Actors -> Nat]
              /\ started \in [Actors -> Nat]
              /\ finished \in [Actors -> Nat]
  BY DEF Init
<1>. QED
  BY <1>2, <1>3, <1>4, <1>5 DEF TypeOK

(* Every step keeps the types.                                             *)
LEMMA TypeStep ==
    ASSUME TypeOK, NEW s \in Threads, ThreadInv(s), PoolStep(s)
    PROVE  TypeOK'
<1>types. /\ playingNow \subseteq Actors
          /\ acts \in [Actors -> Seq(Task)]
          /\ threads \in Seq(Task)
          /\ stopped \in BOOLEAN
          /\ monitor \in [Actors -> Threads \cup {Nobody}]
          /\ pc \in [Threads -> Labels]
          /\ job \in [Threads -> Task \cup {NoTask}]
          /\ submitted \in [Actors -> Nat]
          /\ started \in [Actors -> Nat]
          /\ finished \in [Actors -> Nat]
  BY DEF TypeOK
<1>job. pc[s] # "idle" => job[s] \in Task /\ job[s].act \in Actors /\ job[s].number \in Nat
  BY JobType
<1>labels. {"idle", "submit.contains", "submit.add", "submit.execute", "submit.pend", "run",
            "complete", "complete.isEmpty", "complete.remove", "complete.poll"} \subseteq Labels
  BY DEF Labels, SubmitLabels, WorkLabels, CompleteLabels
<1>1. CASE SubmitEnter(s)
  <2>1. PICK a \in Actors :
           /\ Enter(s, a)
           /\ submitted' = [submitted EXCEPT ![a] = @ + 1]
           /\ job' = [job EXCEPT ![s] = [act |-> a, number |-> submitted[a] + 1]]
    BY <1>1 DEF SubmitEnter
  <2>2. [act |-> a, number |-> submitted[a] + 1] \in Task
    BY <1>types DEF Task
  <2>3. job' \in [Threads -> Task \cup {NoTask}] /\ submitted' \in [Actors -> Nat]
    BY <1>types, <2>1, <2>2
  <2>4. monitor' \in [Actors -> Threads \cup {Nobody}]
    BY <1>types, <2>1 DEF Enter
  <2>. QED
    BY <1>1, <1>types, <1>labels, <2>3, <2>4 DEF SubmitEnter, TypeOK, Goto
<1>2. CASE SubmitContains(s)
  BY <1>2, <1>types, <1>labels DEF SubmitContains, TypeOK, Goto
<1>3. CASE SubmitAdd(s)
  BY <1>3, <1>types, <1>labels, <1>job DEF SubmitAdd, TypeOK, Goto
<1>4. CASE SubmitExecute(s)
  BY <1>4, <1>types, <1>labels, <1>job DEF SubmitExecute, Execute, Leave, TypeOK, Goto
<1>5. CASE SubmitPend(s)
  <2>1. acts' \in [Actors -> Seq(Task)]
    BY <1>5, <1>types, <1>job DEF SubmitPend
  <2>. QED
    BY <1>5, <1>types, <1>labels, <1>job, <2>1 DEF SubmitPend, Leave, TypeOK, Goto
<1>6. CASE Take(s)
  <2>1. Head(threads) \in Task /\ Tail(threads) \in Seq(Task)
    BY <1>6, <1>types DEF Take
  <2>2. Head(threads).number \in Nat
    BY <2>1 DEF Task
  <2>. QED
    BY <1>6, <1>types, <1>labels, <2>1, <2>2 DEF Take, TypeOK, Goto
<1>7. CASE RunEnds(s)
  BY <1>7, <1>types, <1>labels, <1>job DEF RunEnds, TypeOK, Goto
<1>8. CASE CompleteEnter(s)
  BY <1>8, <1>types, <1>labels DEF CompleteEnter, Enter, TypeOK, Goto
<1>9. CASE CompleteIsEmpty(s)
  BY <1>9, <1>types, <1>labels DEF CompleteIsEmpty, TypeOK, Goto
<1>10. CASE CompleteRemove(s)
  BY <1>10, <1>types, <1>labels DEF CompleteRemove, Leave, TypeOK, Goto
<1>11. CASE CompletePoll(s)
  <2>1. /\ acts[job[s].act] # <<>> /\ job[s].act \in Actors
    BY <1>11, <1>job DEF CompletePoll, ThreadInv, BranchOf
  <2>2. Head(acts[job[s].act]) \in Task /\ Tail(acts[job[s].act]) \in Seq(Task)
    BY <1>types, <2>1
  <2>3. threads' \in Seq(Task) /\ acts' \in [Actors -> Seq(Task)]
    BY <1>11, <1>types, <2>1, <2>2 DEF CompletePoll, Execute
  <2>. QED
    BY <1>11, <1>types, <1>labels, <2>3 DEF CompletePoll, Leave, TypeOK, Goto
<1>. QED
  BY <1>1, <1>2, <1>3, <1>4, <1>5, <1>6, <1>7, <1>8, <1>9, <1>10, <1>11
     DEF PoolStep, SubmitStep, WorkerStep

-----------------------------------------------------------------------------
(* What the actor of a step is like.                                       *)

(* A thread that has an actor's task from the executor, or brings it       *)
(* there, is the only one, and nothing of the actor is queued.             *)
LEMMA PlaysAlone ==
    ASSUME NEW a \in Actors, ActorInv(a), NEW s \in Threads, s \in Playing(a)
    PROVE  /\ Playing(a) = {s} /\ Queued(a) = {} /\ a \in playingNow
           /\ job[s].number = Current(a)
           /\ started[a] = IF pc[s] = "submit.execute" THEN Current(a) - 1 ELSE Current(a)
           /\ finished[a] = IF pc[s] = "run" THEN started[a] - 1 ELSE started[a]
<1>1. OneOf(a) /\ OrderOf(a)
  BY DEF ActorInv
<1>2. Playing(a) = {s} /\ Queued(a) = {}
  BY <1>1 DEF OneOf, AtMostOne
<1>3. a \in playingNow
  BY <1>1 DEF OneOf
<1>4. Running(a) <=> pc[s] = "run"
  BY <1>2 DEF Running
<1>. QED
  BY <1>1, <1>2, <1>3, <1>4 DEF OrderOf

(* The same, from the thread's side.                                       *)
LEMMA PlaysFor ==
    ASSUME TypeOK, NEW s \in Threads, ThreadInv(s), \A a \in Actors : ActorInv(a),
           pc[s] \notin Submitting, pc[s] # "idle"
    PROVE  /\ job[s] \in Task /\ job[s].act \in Actors /\ job[s].number \in Nat
           /\ s \in Playing(job[s].act)
           /\ ActorInv(job[s].act)
<1>1. job[s] \in Task /\ job[s].act \in Actors /\ job[s].number \in Nat
  BY JobType
<1>. QED
  BY <1>1 DEF Playing

(* Nothing but a place in the monitor's blocks has changed: the actor      *)
(* keeps its part of the invariant.                                        *)
LEMMA SameActor ==
    ASSUME NEW a \in Actors, ActorInv(a),
           Playing(a)' = Playing(a), \A r \in Playing(a) : job'[r] = job[r],
           \A r \in Playing(a) : pc'[r] = "submit.execute" <=> pc[r] = "submit.execute",
           Running(a)' <=> Running(a),
           Current(a)' = Current(a),
           UNCHANGED <<playingNow, acts, threads, stopped, started, finished>>
    PROVE  ActorInv(a)'
<1>1. OneOf(a) /\ OrderOf(a)
  BY DEF ActorInv
<1>2. Queued(a)' = Queued(a)
  BY DEF Queued
<1>3. OneOf(a)'
  BY <1>1, <1>2 DEF OneOf, AtMostOne
<1>4. OrderOf(a)'
  BY <1>1, <1>2 DEF OrderOf
<1>. QED
  BY <1>3, <1>4 DEF ActorInv

(* The parts of the invariant after a step give the invariant.             *)
LEMMA PoolInvAfter ==
    ASSUME TypeOK', stopped' => threads' = <<>>,
           \A s \in Threads : ThreadInv(s)', \A a \in Actors : ActorInv(a)'
    PROVE  PoolInv'
BY DEF PoolInv, OneAtATime, NoTaskForgotten, OneOf, ActorInv, ThreadInv

-----------------------------------------------------------------------------
(* The actions, one lemma each: the other threads, the thread itself, the  *)
(* other actors, its actor.                                                *)

(* A task is handed in: its actor has one more, not yet anywhere.          *)
LEMMA SubmitEnterStep ==
    ASSUME PoolInv, TypeOK', NEW s \in Submitters, SubmitEnter(s)
    PROVE  PoolInv'
<1>inv. /\ TypeOK /\ s \in Threads
        /\ stopped => threads = <<>>
        /\ \A r \in Threads : ThreadInv(r)
        /\ \A b \in Actors : ActorInv(b)
  BY PoolInvParts DEF Threads
<1>pick. PICK a \in Actors :
           /\ monitor[a] = Nobody /\ monitor' = [monitor EXCEPT ![a] = s]
           /\ submitted' = [submitted EXCEPT ![a] = @ + 1]
           /\ job' = [job EXCEPT ![s] = [act |-> a, number |-> submitted[a] + 1]]
  BY DEF SubmitEnter, Enter
<1>same. /\ pc[s] = "idle"
         /\ pc' = [pc EXCEPT ![s] = "submit.contains"]
         /\ UNCHANGED <<playingNow, acts, threads, stopped, started, finished>>
  BY DEF SubmitEnter, Goto
<1>types. /\ pc \in [Threads -> Labels] /\ job \in [Threads -> Task \cup {NoTask}]
          /\ monitor \in [Actors -> Threads \cup {Nobody}] /\ submitted \in [Actors -> Nat]
          /\ acts \in [Actors -> Seq(Task)]
  BY <1>inv DEF TypeOK
<1>idle. \A b \in Actors : job[s].act # b
  BY <1>inv, <1>same, IdleJob
<1>free. \A r \in Threads : pc[r] \in InMonitor => job[r].act # a
  BY <1>inv, <1>pick, Free
<1>mine. /\ job'[s] = [act |-> a, number |-> submitted[a] + 1] /\ job'[s].act = a
         /\ pc'[s] = "submit.contains" /\ monitor'[a] = s
         /\ submitted'[a] = submitted[a] + 1 /\ submitted[a] \in Nat
  BY <1>inv, <1>pick, <1>same, <1>types
<1>rest. \A r \in Threads \ {s} : pc'[r] = pc[r] /\ job'[r] = job[r]
  BY <1>pick, <1>same, <1>types
<1>1. ASSUME NEW r \in Threads \ {s}
      PROVE  ThreadInv(r)'
  <2>1. \A b \in Actors : monitor'[b] = r <=> monitor[b] = r
    BY <1>pick, <1>types, PoolAssumption
  <2>2. pc[r] \in InMonitor => submitted'[job[r].act] = submitted[job[r].act]
    BY <1>free, <1>pick
  <2>. QED
    BY <1>inv, <1>rest, <1>same, <2>1, <2>2, OtherThreads
<1>2. ThreadInv(s)'
  <2>1. \A b \in Actors : monitor[b] # s
    BY <1>inv, <1>same DEF ThreadInv, MonitorOf, InMonitor, SubmitLabels, CompleteLabels
  <2>2. \A b \in Actors : monitor'[b] = s <=> b = a
    BY <1>pick, <1>types, <2>1
  <2>3. MonitorOf(s)'
    BY <1>mine, <2>2, PoolAssumption
       DEF MonitorOf, NoTask, InMonitor, SubmitLabels, WorkLabels, CompleteLabels
  <2>4. BranchOf(s)'
    BY <1>mine DEF BranchOf, Submitting
  <2>. QED
    BY <2>3, <2>4 DEF ThreadInv
<1>3. ASSUME NEW b \in Actors, b # a
      PROVE  ActorInv(b)'
  <2>1. Queued(b) \subseteq Nat /\ Queued(b)' = Queued(b)
    BY <1>inv, <1>same DEF Queued, TypeOK
  <2>. QED
    BY <1>inv, <1>3, <1>pick, <1>same, <1>mine, <1>rest, <1>idle, <1>types, <2>1, OtherActors, SMTT(30), ZenonT(30)
<1>4. ActorInv(a)'
  <2>1. Playing(a)' = Playing(a) /\ \A r \in Playing(a) : pc'[r] = pc[r] /\ job'[r] = job[r]
    BY <1>idle, <1>mine, <1>rest DEF Playing, Submitting
  <2>2. Running(a)' <=> Running(a)
    BY <2>1 DEF Running
  <2>3. ~BeingSubmitted(a) /\ BeingSubmitted(a)'
    BY <1>free, <1>mine, <1>inv DEF BeingSubmitted, Submitting, InMonitor, SubmitLabels
  <2>4. Current(a)' = Current(a)
    BY <1>mine, <1>same, <1>types, <2>3 DEF Current, Last
  <2>. QED
    BY <1>inv, <1>same, <2>1, <2>2, <2>4, SameActor
<1>. QED
  BY <1>inv, <1>same, <1>1, <1>2, <1>3, <1>4, PoolInvAfter

(* What holds before a step of thread s, from the invariant.               *)
LEMMA Before ==
    ASSUME PoolInv, NEW s \in Threads
    PROVE  /\ TypeOK
           /\ stopped => threads = <<>>
           /\ \A r \in Threads : ThreadInv(r)
           /\ \A b \in Actors : ActorInv(b)
           /\ pc \in [Threads -> Labels] /\ job \in [Threads -> Task \cup {NoTask}]
           /\ monitor \in [Actors -> Threads \cup {Nobody}] /\ submitted \in [Actors -> Nat]
           /\ acts \in [Actors -> Seq(Task)]
           /\ started \in [Actors -> Nat] /\ finished \in [Actors -> Nat]
           /\ \A b \in Actors : Queued(b) \subseteq Nat
           /\ pc[s] # "idle" => job[s] \in Task /\ job[s].act \in Actors /\ job[s].number \in Nat
<1>1. TypeOK /\ \A r \in Threads : ThreadInv(r)
  BY PoolInvParts
<1>2. pc[s] # "idle" => job[s] \in Task /\ job[s].act \in Actors /\ job[s].number \in Nat
  BY <1>1, JobType
<1>3. \A b \in Actors : Queued(b) \subseteq Nat
  BY <1>1 DEF Queued, TypeOK
<1>. QED
  BY <1>1, <1>2, <1>3, PoolInvParts DEF TypeOK

(* While s is in the monitor of an actor, what it does to that actor, the  *)
(* submissions apart, is no business of the other threads.                 *)
LEMMA HolderOthers ==
    ASSUME PoolInv, TypeOK', NEW s \in Threads, pc[s] \in InMonitor,
           \A r \in Threads \ {s} : pc'[r] = pc[r] /\ job'[r] = job[r],
           \/ monitor' = monitor
           \/ monitor' = [monitor EXCEPT ![job[s].act] = Nobody],
           submitted' = submitted,
           \A b \in Actors : b # job[s].act =>
              (b \in playingNow' <=> b \in playingNow) /\ acts'[b] = acts[b],
           NEW r \in Threads \ {s}
    PROVE  ThreadInv(r)'
<1>inv. /\ TypeOK /\ \A t \in Threads : ThreadInv(t)
        /\ monitor \in [Actors -> Threads \cup {Nobody}]
  BY Before
<1>1. pc[r] # "idle" => job[r].act \in Actors
  BY <1>inv, JobType
<1>2. monitor[job[s].act] = s
  BY <1>inv DEF ThreadInv, MonitorOf
<1>3. \A b \in Actors : monitor'[b] = r <=> monitor[b] = r
  BY <1>inv, <1>2, PoolAssumption
<1>4. pc[r] \in InMonitor => job[r].act # job[s].act
  BY <1>inv, Sole
<1>5. pc[r] \in InMonitor => job[r].act \in Actors
  BY <1>1 DEF InMonitor, SubmitLabels, CompleteLabels
<1>. QED
  BY <1>inv, <1>3, <1>4, <1>5, OtherThreads

(* Who leaves a monitor is idle and holds none.                            *)
LEMMA LeaveInv ==
    ASSUME PoolInv, NEW s \in Threads, pc[s] \in InMonitor, Leave(s)
    PROVE  /\ ThreadInv(s)'
           /\ pc'[s] = "idle" /\ job'[s] = NoTask /\ \A a \in Actors : job'[s].act # a
           /\ \A r \in Threads \ {s} : pc'[r] = pc[r] /\ job'[r] = job[r]
           /\ monitor' = [monitor EXCEPT ![job[s].act] = Nobody]
<1>inv. /\ ThreadInv(s)
        /\ pc \in [Threads -> Labels] /\ job \in [Threads -> Task \cup {NoTask}]
        /\ monitor \in [Actors -> Threads \cup {Nobody}]
  BY Before
<1>1. /\ pc'[s] = "idle" /\ job'[s] = NoTask
      /\ \A r \in Threads \ {s} : pc'[r] = pc[r] /\ job'[r] = job[r]
      /\ monitor' = [monitor EXCEPT ![job[s].act] = Nobody]
  BY <1>inv DEF Leave, Goto
<1>2. \A a \in Actors : job'[s].act # a
  BY <1>1, PoolAssumption DEF NoTask
<1>3. \A b \in Actors : monitor'[b] # s
  BY <1>inv, <1>1, PoolAssumption DEF ThreadInv, MonitorOf
<1>4. MonitorOf(s)'
  BY <1>1, <1>3 DEF MonitorOf, InMonitor, SubmitLabels, WorkLabels, CompleteLabels
<1>5. BranchOf(s)'
  BY <1>1 DEF BranchOf, Submitting
<1>. QED
  BY <1>1, <1>2, <1>4, <1>5 DEF ThreadInv

(* submit looks whether the actor plays; what it finds stays so.           *)
LEMMA SubmitContainsStep ==
    ASSUME PoolInv, TypeOK', NEW s \in Threads, SubmitContains(s)
    PROVE  PoolInv'
<1>. DEFINE a == job[s].act
<1>inv. /\ TypeOK
        /\ stopped => threads = <<>>
        /\ \A r \in Threads : ThreadInv(r)
        /\ \A b \in Actors : ActorInv(b)
        /\ pc \in [Threads -> Labels] /\ submitted \in [Actors -> Nat]
        /\ \A b \in Actors : Queued(b) \subseteq Nat
        /\ pc[s] # "idle" => job[s] \in Task /\ job[s].act \in Actors
  BY Before
<1>same. /\ pc[s] = "submit.contains" /\ pc[s] \in InMonitor
         /\ pc'[s] = IF a \in playingNow THEN "submit.pend" ELSE "submit.add"
         /\ \A r \in Threads \ {s} : pc'[r] = pc[r]
         /\ UNCHANGED <<playingNow, acts, threads, stopped, monitor, job, submitted, started,
                        finished>>
  BY <1>inv DEF SubmitContains, Goto, InMonitor, SubmitLabels
<1>act. a \in Actors
  BY <1>inv, <1>same
<1>1. ASSUME NEW r \in Threads \ {s}
      PROVE  ThreadInv(r)'
  BY <1>same, HolderOthers
<1>2. ThreadInv(s)'
  BY <1>inv, <1>same
     DEF ThreadInv, MonitorOf, BranchOf, InMonitor, SubmitLabels, WorkLabels, CompleteLabels,
         Submitting
<1>3. ASSUME NEW b \in Actors
      PROVE  ActorInv(b)'
  <2>1. Playing(b)' = Playing(b) /\ \A r \in Playing(b) : pc'[r] = pc[r] /\ job'[r] = job[r]
    BY <1>same DEF Playing, Submitting
  <2>2. Running(b)' <=> Running(b)
    BY <2>1 DEF Running
  <2>3. BeingSubmitted(b)' <=> BeingSubmitted(b)
    BY <1>same DEF BeingSubmitted, Submitting
  <2>4. Current(b)' = Current(b)
    BY <1>same, <2>3 DEF Current, Last
  <2>. QED
    BY <1>inv, <1>same, <2>1, <2>2, <2>4, SameActor
<1>. QED
  BY <1>inv, <1>same, <1>1, <1>2, <1>3, PoolInvAfter

(* The actor begins to play, with the task in the submitter's hands.       *)
LEMMA SubmitAddStep ==
    ASSUME PoolInv, TypeOK', NEW s \in Threads, SubmitAdd(s)
    PROVE  PoolInv'
<1>. DEFINE a == job[s].act
<1>inv. /\ TypeOK
        /\ stopped => threads = <<>>
        /\ \A r \in Threads : ThreadInv(r)
        /\ \A b \in Actors : ActorInv(b)
        /\ pc \in [Threads -> Labels] /\ submitted \in [Actors -> Nat]
        /\ acts \in [Actors -> Seq(Task)] /\ started \in [Actors -> Nat]
        /\ \A b \in Actors : Queued(b) \subseteq Nat
        /\ pc[s] # "idle" => job[s] \in Task /\ job[s].act \in Actors
  BY Before
<1>same. /\ pc[s] = "submit.add" /\ pc[s] \in InMonitor /\ pc[s] \in Submitting
         /\ pc'[s] = "submit.execute"
         /\ \A r \in Threads \ {s} : pc'[r] = pc[r]
         /\ playingNow' = playingNow \cup {a}
         /\ UNCHANGED <<acts, threads, stopped, monitor, job, submitted, started, finished>>
  BY <1>inv DEF SubmitAdd, Goto, InMonitor, SubmitLabels, Submitting
<1>act. a \in Actors
  BY <1>inv, <1>same
<1>found. a \notin playingNow /\ job[s].number = submitted[a]
  BY <1>inv, <1>same DEF ThreadInv, BranchOf
<1>1. ASSUME NEW r \in Threads \ {s}
      PROVE  ThreadInv(r)'
  BY <1>same, HolderOthers
<1>2. ThreadInv(s)'
  BY <1>inv, <1>same
     DEF ThreadInv, MonitorOf, BranchOf, InMonitor, SubmitLabels, WorkLabels, CompleteLabels,
         Submitting
<1>3. ASSUME NEW b \in Actors, b # a
      PROVE  ActorInv(b)'
  <2>1. Queued(b)' = Queued(b)
    BY <1>same DEF Queued
  <2>2. /\ job[s].act # b /\ job'[s].act # b
        /\ b \in playingNow' <=> b \in playingNow
    BY <1>3, <1>same
  <2>. QED
    BY <1>inv, <1>same, <2>1, <2>2, OtherActors
<1>4. ActorInv(a)'
  <2>1. OneOf(a) /\ OrderOf(a) /\ acts[a] = <<>>
    BY <1>inv, <1>act, <1>found DEF ActorInv
  <2>2. Playing(a) = {} /\ Queued(a) = {}
    BY <1>found, <2>1 DEF OneOf
  <2>3. Playing(a)' = {s} /\ Queued(a)' = {}
    BY <1>same, <2>2 DEF Playing, Submitting, Queued
  <2>4. BeingSubmitted(a)
    BY <1>same DEF BeingSubmitted
  <2>5. ~BeingSubmitted(a)'
    <3>1. ASSUME NEW r \in Threads, job[r].act = a, pc'[r] \in Submitting
          PROVE  FALSE
      <4>1. r # s /\ pc[r] \in Submitting
        BY <1>same, <3>1 DEF Submitting
      <4>2. pc[r] \in InMonitor
        BY <4>1 DEF InMonitor, SubmitLabels, Submitting
      <4>. QED
        BY <1>inv, <1>same, <3>1, <4>1, <4>2, Sole
    <3>. QED
      BY <1>same, <3>1 DEF BeingSubmitted
  <2>6. Current(a) = submitted[a] - 1 /\ Current(a)' = submitted[a] /\ submitted[a] \in Nat
    BY <1>inv, <1>act, <1>same, <2>1, <2>4, <2>5 DEF Current, Last
  <2>7. ~Running(a) /\ ~Running(a)'
    BY <1>same, <2>2, <2>3 DEF Running
  <2>8. OneOf(a)'
    BY <1>same, <2>3 DEF OneOf, AtMostOne
  <2>9. OrderOf(a)'
    <3>1. started[a] = Current(a) /\ finished[a] = started[a]
      BY <1>found, <2>1, <2>7 DEF OrderOf
    <3>. QED
      BY <1>found, <1>same, <2>1, <2>3, <2>6, <2>7, <3>1 DEF OrderOf
  <2>. QED
    BY <1>same, <2>1, <2>8, <2>9 DEF ActorInv
<1>. QED
  BY <1>inv, <1>same, <1>1, <1>2, <1>3, <1>4, PoolInvAfter

(* That task goes to the executor, or is lost if it was shut down.         *)
LEMMA SubmitExecuteStep ==
    ASSUME PoolInv, TypeOK', NEW s \in Threads, SubmitExecute(s)
    PROVE  PoolInv'
<1>inv. /\ TypeOK
        /\ stopped => threads = <<>>
        /\ \A r \in Threads : ThreadInv(r)
        /\ \A b \in Actors : ActorInv(b)
        /\ submitted \in [Actors -> Nat] /\ acts \in [Actors -> Seq(Task)]
        /\ started \in [Actors -> Nat]
        /\ \A b \in Actors : Queued(b) \subseteq Nat
        /\ pc[s] # "idle" => job[s] \in Task /\ job[s].act \in Actors
  BY Before
<1>same. /\ pc[s] = "submit.execute" /\ pc[s] \in InMonitor /\ pc[s] \notin Submitting
         /\ Leave(s)
         /\ threads' = IF stopped THEN threads ELSE Append(threads, job[s])
         /\ UNCHANGED <<playingNow, acts, stopped, submitted, started, finished>>
  BY DEF SubmitExecute, Execute, InMonitor, SubmitLabels, Submitting
<1>act. PICK a \in Actors : a = job[s].act /\ job[s] \in Task /\ s \in Playing(a)
  BY <1>inv, <1>same DEF Playing
<1>left. /\ pc'[s] = "idle" /\ \A b \in Actors : job'[s].act # b
         /\ \A r \in Threads \ {s} : pc'[r] = pc[r] /\ job'[r] = job[r]
         /\ monitor' = [monitor EXCEPT ![a] = Nobody]
  BY <1>act, <1>same, LeaveInv
<1>1. ASSUME NEW r \in Threads \ {s}
      PROVE  ThreadInv(r)'
  BY <1>act, <1>same, <1>left, HolderOthers
<1>2. ThreadInv(s)'
  BY <1>same, LeaveInv
<1>3. ASSUME NEW b \in Actors, b # a
      PROVE  ActorInv(b)'
  <2>1. Queued(b)' = Queued(b) /\ \A i \in Queued(b) : threads'[i] = threads[i]
    <3>1. CASE stopped
      BY <1>same, <3>1 DEF Queued
    <3>2. CASE ~stopped
      BY <1>inv, <1>3, <1>act, <1>same, <3>2, QueuedAppend
    <3>. QED
      BY <3>1, <3>2
  <2>. QED
    BY <1>inv, <1>3, <1>act, <1>same, <1>left, <2>1, OtherActors
<1>4. ActorInv(a)'
  <2>1. OneOf(a) /\ OrderOf(a) /\ (acts[a] # <<>> => a \in playingNow)
    BY <1>inv, <1>act DEF ActorInv
  <2>2. /\ Playing(a) = {s} /\ Queued(a) = {} /\ a \in playingNow
        /\ job[s].number = Current(a) /\ started[a] = Current(a) - 1
        /\ finished[a] = started[a]
    BY <1>inv, <1>act, <1>same, PlaysAlone
  <2>3. Playing(a)' = {}
    BY <1>act, <1>left, <2>2 DEF Playing
  <2>4. /\ stopped => Queued(a)' = {}
        /\ ~stopped => Queued(a)' = {Len(threads) + 1} /\ threads'[Len(threads) + 1] = job[s]
    <3>1. CASE stopped
      BY <1>same, <2>2, <3>1 DEF Queued
    <3>2. CASE ~stopped
      BY <1>inv, <1>act, <1>same, <2>2, <3>2, QueuedAppend
    <3>. QED
      BY <3>1, <3>2
  <2>5. BeingSubmitted(a)' <=> BeingSubmitted(a)
    BY <1>act, <1>left, <1>same DEF BeingSubmitted, Submitting
  <2>6. Current(a)' = Current(a) /\ Current(a) \in Int
    BY <1>inv, <1>act, <1>same, <2>5 DEF Current, Last
  <2>7. ~Running(a)'
    BY <2>3 DEF Running
  <2>8. OneOf(a)'
    BY <1>same, <2>2, <2>3, <2>4 DEF OneOf, AtMostOne
  <2>9. OrderOf(a)'
    BY <1>inv, <1>act, <1>same, <2>1, <2>2, <2>3, <2>4, <2>6, <2>7 DEF OrderOf
  <2>. QED
    BY <1>same, <2>1, <2>8, <2>9 DEF ActorInv
<1>. QED
  BY <1>inv, <1>same, <1>1, <1>2, <1>3, <1>4, PoolInvAfter

(* A task of an actor that plays becomes the last of its pending ones.     *)
LEMMA SubmitPendStep ==
    ASSUME PoolInv, TypeOK', NEW s \in Threads, SubmitPend(s)
    PROVE  PoolInv'
<1>inv. /\ TypeOK
        /\ stopped => threads = <<>>
        /\ \A r \in Threads : ThreadInv(r)
        /\ \A b \in Actors : ActorInv(b)
        /\ submitted \in [Actors -> Nat] /\ acts \in [Actors -> Seq(Task)]
        /\ \A b \in Actors : Queued(b) \subseteq Nat
        /\ pc[s] # "idle" => job[s] \in Task /\ job[s].act \in Actors
  BY Before
<1>same. /\ pc[s] = "submit.pend" /\ pc[s] \in InMonitor /\ pc[s] \in Submitting
         /\ Leave(s)
         /\ acts' = [acts EXCEPT ![job[s].act] = Append(@, job[s])]
         /\ UNCHANGED <<playingNow, threads, stopped, submitted, started, finished>>
  BY DEF SubmitPend, InMonitor, SubmitLabels, Submitting
<1>act. PICK a \in Actors : a = job[s].act /\ job[s] \in Task
  BY <1>inv, <1>same
<1>found. a \in playingNow /\ job[s] = [act |-> a, number |-> submitted[a]]
  <2>1. a \in playingNow /\ job[s].number = submitted[a]
    BY <1>inv, <1>act, <1>same DEF ThreadInv, BranchOf
  <2>. QED
    BY <1>act, <2>1 DEF Task
<1>left. /\ pc'[s] = "idle" /\ \A b \in Actors : job'[s].act # b
         /\ \A r \in Threads \ {s} : pc'[r] = pc[r] /\ job'[r] = job[r]
         /\ monitor' = [monitor EXCEPT ![a] = Nobody]
  BY <1>act, <1>same, LeaveInv
<1>1. ASSUME NEW r \in Threads \ {s}
      PROVE  ThreadInv(r)'
  BY <1>inv, <1>act, <1>same, <1>left, HolderOthers
<1>2. ThreadInv(s)'
  BY <1>same, LeaveInv
<1>3. ASSUME NEW b \in Actors, b # a
      PROVE  ActorInv(b)'
  <2>1. Queued(b)' = Queued(b) /\ acts'[b] = acts[b]
    BY <1>inv, <1>3, <1>act, <1>same DEF Queued
  <2>. QED
    BY <1>inv, <1>3, <1>act, <1>same, <1>left, <2>1, OtherActors
<1>4. ActorInv(a)'
  <2>1. OneOf(a) /\ OrderOf(a)
    BY <1>inv, <1>act DEF ActorInv
  <2>2. Playing(a)' = Playing(a) /\ \A r \in Playing(a) : pc'[r] = pc[r] /\ job'[r] = job[r]
    BY <1>act, <1>same, <1>left DEF Playing
  <2>3. Queued(a)' = Queued(a) /\ (Running(a)' <=> Running(a))
    BY <1>same, <2>2 DEF Queued, Running
  <2>4. BeingSubmitted(a)
    BY <1>act, <1>same DEF BeingSubmitted
  <2>5. ~BeingSubmitted(a)'
    <3>1. ASSUME NEW r \in Threads, job'[r].act = a, pc'[r] \in Submitting
          PROVE  FALSE
      <4>1. r # s /\ pc[r] \in Submitting /\ job[r].act = a
        BY <1>act, <1>left, <3>1 DEF Submitting
      <4>2. pc[r] \in InMonitor
        BY <4>1 DEF InMonitor, SubmitLabels, Submitting
      <4>. QED
        BY <1>inv, <1>act, <1>same, <4>1, <4>2, Sole
    <3>. QED
      BY <3>1 DEF BeingSubmitted
  <2>6. /\ acts[a] \in Seq(Task) /\ Len(acts[a]) \in Nat
        /\ Len(acts'[a]) = Len(acts[a]) + 1
        /\ DOMAIN acts[a] = 1 .. Len(acts[a]) /\ DOMAIN acts'[a] = 1 .. Len(acts[a]) + 1
        /\ \A i \in 1 .. Len(acts[a]) : acts'[a][i] = acts[a][i]
        /\ acts'[a][Len(acts[a]) + 1] = job[s]
    BY <1>inv, <1>act, <1>same
  <2>7. /\ Current(a)' = Current(a) /\ Current(a) \in Int
        /\ Current(a) + Len(acts[a]) + 1 = submitted[a]
    <3>1. submitted'[a] = submitted[a] /\ submitted[a] \in Nat
      BY <1>inv, <1>same
    <3>. QED
      BY SMTT(30), <2>4, <2>5, <2>6, <3>1 DEF Current, Last
  <2>8. OneOf(a)'
    BY <1>same, <2>1, <2>2, <2>3 DEF OneOf, AtMostOne
  <2>9. ASSUME NEW i \in DOMAIN acts'[a]
        PROVE  acts'[a][i] = [act |-> a, number |-> Current(a)' + i]
    <3>1. CASE i \in 1 .. Len(acts[a])
      BY <2>1, <2>6, <2>7, <3>1 DEF OrderOf
    <3>2. CASE i = Len(acts[a]) + 1
      <4>1. Current(a)' + i = submitted[a]
        BY <2>6, <2>7, <3>2
      <4>. QED
        BY <1>found, <2>6, <3>2, <4>1
    <3>. QED
      BY <2>6, <3>1, <3>2
  <2>10. OrderOf(a)'
    BY <1>found, <1>same, <2>1, <2>2, <2>3, <2>7, <2>9 DEF OrderOf
  <2>. QED
    BY <1>found, <1>same, <2>8, <2>10 DEF ActorInv
<1>. QED
  BY <1>inv, <1>same, <1>1, <1>2, <1>3, <1>4, PoolInvAfter

(* A worker takes the oldest task: its actor has no other one there.       *)
LEMMA TakeStep ==
    ASSUME PoolInv, TypeOK', NEW s \in Threads, s \in Workers, Take(s)
    PROVE  PoolInv'
<1>inv. /\ TypeOK
        /\ stopped => threads = <<>>
        /\ \A r \in Threads : ThreadInv(r)
        /\ \A b \in Actors : ActorInv(b)
        /\ pc \in [Threads -> Labels] /\ job \in [Threads -> Task \cup {NoTask}]
        /\ acts \in [Actors -> Seq(Task)] /\ submitted \in [Actors -> Nat]
        /\ started \in [Actors -> Nat]
        /\ \A b \in Actors : Queued(b) \subseteq Nat
  BY Before
<1>tail. \A b \in Actors :
            /\ \A i \in Queued(b)' : i + 1 \in Queued(b) /\ threads'[i] = threads[i + 1]
            /\ \A i \in Queued(b) : i # 1 => i - 1 \in Queued(b)'
  BY <1>inv, QueuedTail DEF Take
<1>head. Head(threads) = threads[1] /\ 1 \in DOMAIN threads /\ threads[1] \in Task
  BY <1>inv DEF TypeOK, Take
<1>act. PICK a \in Actors : a = threads[1].act /\ 1 \in Queued(a)
  BY <1>head DEF Task, Queued
<1>same. /\ pc[s] = "idle" /\ threads # <<>> /\ ~stopped
         /\ pc'[s] = "run" /\ job'[s] = threads[1] /\ job'[s].act = a
         /\ \A r \in Threads \ {s} : pc'[r] = pc[r] /\ job'[r] = job[r]
         /\ started' = [started EXCEPT ![a] = threads[1].number]
         /\ UNCHANGED <<playingNow, acts, stopped, monitor, submitted, finished>>
  BY <1>inv, <1>head, <1>act DEF Take, Goto
<1>empty. stopped' => threads' = <<>>
  BY <1>same
<1>none. \A b \in Actors : job[s].act # b
  BY <1>inv, <1>same, IdleJob
<1>1. ASSUME NEW r \in Threads \ {s}
      PROVE  ThreadInv(r)'
  BY <1>inv, <1>same, OtherThreads
<1>2. ThreadInv(s)'
  <2>1. \A b \in Actors : monitor[b] # s
    BY <1>inv, <1>same
       DEF ThreadInv, MonitorOf, InMonitor, SubmitLabels, CompleteLabels
  <2>2. job'[s] # NoTask
    BY <1>act, <1>same, PoolAssumption DEF NoTask
  <2>3. MonitorOf(s)'
    BY <1>same, <2>1, <2>2
       DEF MonitorOf, InMonitor, SubmitLabels, WorkLabels, CompleteLabels
  <2>4. BranchOf(s)'
    BY <1>same DEF BranchOf, Submitting
  <2>. QED
    BY <2>3, <2>4 DEF ThreadInv
<1>3. ASSUME NEW b \in Actors, b # a
      PROVE  ActorInv(b)'
  <2>1. Queued(b)' \subseteq Nat
    BY SMTT(30), <1>inv DEF Queued, TypeOK
  <2>2. 1 \notin Queued(b)
    BY <1>3, <1>act DEF Queued
  <2>3. Queued(b) # {} => Queued(b)' # {}
    BY <1>tail, <2>2
  <2>4. /\ job[s].act # b /\ job'[s].act # b
        /\ started'[b] = started[b] /\ acts'[b] = acts[b] /\ submitted'[b] = submitted[b]
        /\ finished'[b] = finished[b]
    BY <1>inv, <1>3, <1>same, <1>none
  <2>5. \A i \in Queued(b)' : i + 1 \in Queued(b) /\ threads'[i] = threads[i + 1]
    BY <1>tail
  <2>. QED
    BY <1>inv, <1>same, <2>1, <2>3, <2>4, <2>5, OtherActors
<1>4. ActorInv(a)'
  <2>1. OneOf(a) /\ OrderOf(a) /\ (acts[a] # <<>> => a \in playingNow)
    BY <1>inv DEF ActorInv
  <2>2. /\ Queued(a) = {1} /\ Playing(a) = {} /\ a \in playingNow
    BY <1>act, <2>1 DEF OneOf, AtMostOne
  <2>3. Queued(a)' = {}
    <3>1. ASSUME NEW i \in Queued(a)'
          PROVE  FALSE
      <4>1. i + 1 = 1 /\ i \in 1 .. Len(threads')
        BY <1>inv, <1>tail, <2>2, <3>1 DEF Queued, TypeOK
      <4>. QED
        BY <4>1
    <3>. QED
      BY <3>1
  <2>4. Playing(a)' = {s}
    BY <1>same, <2>2 DEF Playing, Submitting
  <2>5. threads[1].number = Current(a) /\ started[a] + 1 = Current(a) /\ finished[a] = started[a]
    BY <1>act, <2>1, <2>2 DEF OrderOf, Running
  <2>6. BeingSubmitted(a)' <=> BeingSubmitted(a)
    BY <1>same, <1>none DEF BeingSubmitted, Submitting
  <2>7. Current(a)' = Current(a) /\ started'[a] = Current(a) /\ Current(a) \in Int
        /\ started[a] \in Int
    BY <1>inv, <1>same, <2>5, <2>6 DEF Current, Last
  <2>8. Running(a)'
    BY <1>same, <2>4 DEF Running
  <2>9. OneOf(a)'
    BY <1>same, <2>2, <2>3, <2>4 DEF OneOf, AtMostOne
  <2>10. OrderOf(a)'
    BY <1>same, <2>1, <2>2, <2>3, <2>4, <2>5, <2>7, <2>8 DEF OrderOf
  <2>. QED
    BY <1>same, <2>1, <2>9, <2>10 DEF ActorInv
<1>. QED
  BY <1>inv, <1>empty, <1>1, <1>2, <1>3, <1>4, PoolInvAfter

(* The task has ended; the worker still plays for the actor.               *)
LEMMA RunEndsStep ==
    ASSUME PoolInv, TypeOK', NEW s \in Threads, RunEnds(s)
    PROVE  PoolInv'
<1>inv. /\ TypeOK
        /\ stopped => threads = <<>>
        /\ \A r \in Threads : ThreadInv(r)
        /\ \A b \in Actors : ActorInv(b)
        /\ pc \in [Threads -> Labels] /\ finished \in [Actors -> Nat]
        /\ \A b \in Actors : Queued(b) \subseteq Nat
        /\ pc[s] # "idle" => job[s] \in Task /\ job[s].act \in Actors
  BY Before
<1>same. /\ pc[s] = "run" /\ pc'[s] = "complete"
         /\ pc[s] \notin Submitting /\ pc'[s] \notin Submitting
         /\ \A r \in Threads \ {s} : pc'[r] = pc[r]
         /\ finished' = [finished EXCEPT ![job[s].act] = job[s].number]
         /\ UNCHANGED <<playingNow, acts, threads, stopped, monitor, job, submitted, started>>
  BY <1>inv DEF RunEnds, Goto, Submitting
<1>act. PICK a \in Actors : a = job[s].act /\ s \in Playing(a)
  BY <1>inv, <1>same DEF Playing
<1>1. ASSUME NEW r \in Threads \ {s}
      PROVE  ThreadInv(r)'
  BY <1>inv, <1>same, OtherThreads
<1>2. ThreadInv(s)'
  BY <1>inv, <1>same
     DEF ThreadInv, MonitorOf, BranchOf, InMonitor, SubmitLabels, WorkLabels, CompleteLabels,
         Submitting
<1>3. ASSUME NEW b \in Actors, b # a
      PROVE  ActorInv(b)'
  <2>1. Queued(b)' = Queued(b)
    BY <1>same DEF Queued
  <2>2. /\ job[s].act # b /\ job'[s].act # b /\ finished'[b] = finished[b]
    BY <1>inv, <1>3, <1>act, <1>same
  <2>. QED
    BY <1>inv, <1>same, <2>1, <2>2, OtherActors
<1>4. ActorInv(a)'
  <2>1. OneOf(a) /\ OrderOf(a) /\ (acts[a] # <<>> => a \in playingNow)
    BY <1>inv DEF ActorInv
  <2>2. /\ Playing(a) = {s} /\ Queued(a) = {} /\ a \in playingNow
        /\ job[s].number = Current(a) /\ started[a] = Current(a)
    BY <1>inv, <1>act, <1>same, PlaysAlone
  <2>3. Playing(a)' = {s} /\ Queued(a)' = {}
    BY <1>act, <1>same, <2>2 DEF Playing, Queued
  <2>4. BeingSubmitted(a)' <=> BeingSubmitted(a)
    BY <1>same DEF BeingSubmitted
  <2>5. Current(a)' = Current(a) /\ finished'[a] = Current(a)
    BY <1>inv, <1>act, <1>same, <2>2, <2>4 DEF Current, Last
  <2>6. ~Running(a)'
    BY <1>same, <2>3 DEF Running
  <2>7. OneOf(a)'
    BY <1>same, <2>2, <2>3 DEF OneOf, AtMostOne
  <2>8. OrderOf(a)'
    BY <1>same, <2>1, <2>2, <2>3, <2>5, <2>6 DEF OrderOf
  <2>. QED
    BY <1>same, <2>1, <2>7, <2>8 DEF ActorInv
<1>. QED
  BY <1>inv, <1>same, <1>1, <1>2, <1>3, <1>4, PoolInvAfter

(* complete enters the monitor of the actor.                               *)
LEMMA CompleteEnterStep ==
    ASSUME PoolInv, TypeOK', NEW s \in Threads, s \in Workers, CompleteEnter(s)
    PROVE  PoolInv'
<1>inv. /\ TypeOK
        /\ stopped => threads = <<>>
        /\ \A r \in Threads : ThreadInv(r)
        /\ \A b \in Actors : ActorInv(b)
        /\ pc \in [Threads -> Labels] /\ monitor \in [Actors -> Threads \cup {Nobody}]
        /\ \A b \in Actors : Queued(b) \subseteq Nat
        /\ pc[s] # "idle" => job[s] \in Task /\ job[s].act \in Actors
  BY Before
<1>same. /\ pc[s] = "complete" /\ pc'[s] = "complete.isEmpty"
         /\ \A r \in Threads \ {s} : pc'[r] = pc[r]
         /\ monitor[job[s].act] = Nobody /\ monitor' = [monitor EXCEPT ![job[s].act] = s]
         /\ UNCHANGED <<playingNow, acts, threads, stopped, job, submitted, started, finished>>
  BY <1>inv DEF CompleteEnter, Enter, Goto
<1>act. PICK a \in Actors : a = job[s].act
  BY <1>inv, <1>same
<1>1. ASSUME NEW r \in Threads \ {s}
      PROVE  ThreadInv(r)'
  <2>1. \A b \in Actors : monitor'[b] = r <=> monitor[b] = r
    BY <1>inv, <1>act, <1>same, <1>1, PoolAssumption
  <2>. QED
    BY <1>inv, <1>same, <1>1, <2>1, OtherThreads
<1>2. ThreadInv(s)'
  <2>1. \A b \in Actors : monitor'[b] = s <=> b = a
    BY <1>inv, <1>act, <1>same
       DEF ThreadInv, MonitorOf, InMonitor, SubmitLabels, CompleteLabels
  <2>2. job[s] # NoTask
    BY <1>inv, <1>same DEF ThreadInv, MonitorOf
  <2>3. MonitorOf(s)'
    BY <1>act, <1>same, <2>1, <2>2
       DEF MonitorOf, InMonitor, SubmitLabels, WorkLabels, CompleteLabels
  <2>4. BranchOf(s)'
    BY <1>same DEF BranchOf, Submitting
  <2>. QED
    BY <2>3, <2>4 DEF ThreadInv
<1>3. ASSUME NEW b \in Actors
      PROVE  ActorInv(b)'
  <2>1. Playing(b)' = Playing(b) /\ \A r \in Playing(b) : job'[r] = job[r]
    BY <1>same DEF Playing, Submitting
  <2>2. \A r \in Playing(b) : /\ pc'[r] = "submit.execute" <=> pc[r] = "submit.execute"
                              /\ pc'[r] = "run" <=> pc[r] = "run"
    BY <1>same DEF Playing
  <2>3. Running(b)' <=> Running(b)
    BY <2>1, <2>2 DEF Running
  <2>4. BeingSubmitted(b)' <=> BeingSubmitted(b)
    BY <1>same DEF BeingSubmitted, Submitting
  <2>5. Current(b)' = Current(b)
    BY <1>same, <2>4 DEF Current, Last
  <2>. QED
    BY <1>inv, <1>same, <2>1, <2>2, <2>3, <2>5, SameActor
<1>. QED
  BY <1>inv, <1>same, <1>1, <1>2, <1>3, PoolInvAfter

(* complete looks for pending tasks; what it finds stays so.               *)
LEMMA CompleteIsEmptyStep ==
    ASSUME PoolInv, TypeOK', NEW s \in Threads, CompleteIsEmpty(s)
    PROVE  PoolInv'
<1>inv. /\ TypeOK
        /\ stopped => threads = <<>>
        /\ \A r \in Threads : ThreadInv(r)
        /\ \A b \in Actors : ActorInv(b)
        /\ pc \in [Threads -> Labels]
        /\ pc[s] # "idle" => job[s] \in Task /\ job[s].act \in Actors
  BY Before
<1>same. /\ pc[s] = "complete.isEmpty" /\ pc[s] \in InMonitor
         /\ pc'[s] = IF acts[job[s].act] = <<>> THEN "complete.remove" ELSE "complete.poll"
         /\ \A r \in Threads \ {s} : pc'[r] = pc[r]
         /\ UNCHANGED <<playingNow, acts, threads, stopped, monitor, job, submitted, started,
                        finished>>
  BY <1>inv DEF CompleteIsEmpty, Goto, InMonitor, CompleteLabels
<1>1. ASSUME NEW r \in Threads \ {s}
      PROVE  ThreadInv(r)'
  BY <1>same, HolderOthers
<1>2. ThreadInv(s)'
  BY <1>inv, <1>same
     DEF ThreadInv, MonitorOf, BranchOf, InMonitor, SubmitLabels, WorkLabels, CompleteLabels,
         Submitting
<1>3. ASSUME NEW b \in Actors
      PROVE  ActorInv(b)'
  <2>1. Playing(b)' = Playing(b) /\ \A r \in Playing(b) : job'[r] = job[r]
    BY <1>same DEF Playing, Submitting
  <2>2. \A r \in Playing(b) : /\ pc'[r] = "submit.execute" <=> pc[r] = "submit.execute"
                              /\ pc'[r] = "run" <=> pc[r] = "run"
    BY <1>same DEF Playing
  <2>3. Running(b)' <=> Running(b)
    BY <2>1, <2>2 DEF Running
  <2>4. BeingSubmitted(b)' <=> BeingSubmitted(b)
    BY <1>same DEF BeingSubmitted, Submitting
  <2>5. Current(b)' = Current(b)
    BY <1>same, <2>4 DEF Current, Last
  <2>. QED
    BY <1>inv, <1>same, <2>1, <2>2, <2>3, <2>5, SameActor
<1>. QED
  BY <1>inv, <1>same, <1>1, <1>2, <1>3, PoolInvAfter

(* Nothing was pending: the actor has no task left.                        *)
LEMMA CompleteRemoveStep ==
    ASSUME PoolInv, TypeOK', NEW s \in Threads, CompleteRemove(s)
    PROVE  PoolInv'
<1>inv. /\ TypeOK
        /\ stopped => threads = <<>>
        /\ \A r \in Threads : ThreadInv(r)
        /\ \A b \in Actors : ActorInv(b)
        /\ \A b \in Actors : Queued(b) \subseteq Nat
        /\ pc[s] # "idle" => job[s] \in Task /\ job[s].act \in Actors
  BY Before
<1>same. /\ pc[s] = "complete.remove" /\ pc[s] \in InMonitor /\ pc[s] \notin Submitting
         /\ Leave(s)
         /\ playingNow' = playingNow \ {job[s].act}
         /\ UNCHANGED <<acts, threads, stopped, submitted, started, finished>>
  BY DEF CompleteRemove, InMonitor, CompleteLabels, Submitting
<1>act. PICK a \in Actors : a = job[s].act /\ s \in Playing(a)
  BY <1>inv, <1>same DEF Playing
<1>found. acts[a] = <<>>
  BY <1>inv, <1>act, <1>same DEF ThreadInv, BranchOf
<1>left. /\ pc'[s] = "idle" /\ \A b \in Actors : job'[s].act # b
         /\ \A r \in Threads \ {s} : pc'[r] = pc[r] /\ job'[r] = job[r]
         /\ monitor' = [monitor EXCEPT ![a] = Nobody]
  BY <1>act, <1>same, LeaveInv
<1>1. ASSUME NEW r \in Threads \ {s}
      PROVE  ThreadInv(r)'
  BY <1>act, <1>same, <1>left, HolderOthers
<1>2. ThreadInv(s)'
  BY <1>same, LeaveInv
<1>3. ASSUME NEW b \in Actors, b # a
      PROVE  ActorInv(b)'
  <2>1. Queued(b)' = Queued(b) /\ (b \in playingNow' <=> b \in playingNow)
    BY <1>3, <1>act, <1>same DEF Queued
  <2>. QED
    BY <1>inv, <1>3, <1>act, <1>same, <1>left, <2>1, OtherActors
<1>4. ActorInv(a)'
  <2>1. OrderOf(a)
    BY <1>inv DEF ActorInv
  <2>2. /\ Playing(a) = {s} /\ Queued(a) = {}
        /\ started[a] = Current(a) /\ finished[a] = started[a]
    BY <1>inv, <1>act, <1>same, PlaysAlone
  <2>3. Playing(a)' = {} /\ Queued(a)' = {} /\ a \notin playingNow'
    BY <1>act, <1>same, <1>left, <2>2 DEF Playing, Queued
  <2>4. BeingSubmitted(a)' <=> BeingSubmitted(a)
    BY <1>act, <1>left, <1>same DEF BeingSubmitted, Submitting
  <2>5. Current(a)' = Current(a)
    BY <1>same, <2>4 DEF Current, Last
  <2>6. ~Running(a)'
    BY <2>3 DEF Running
  <2>7. OneOf(a)'
    BY <2>3 DEF OneOf, AtMostOne
  <2>8. OrderOf(a)'
    BY <1>same, <2>1, <2>2, <2>3, <2>5, <2>6 DEF OrderOf
  <2>. QED
    BY <1>found, <1>same, <2>7, <2>8 DEF ActorInv
<1>. QED
  BY <1>inv, <1>same, <1>1, <1>2, <1>3, <1>4, PoolInvAfter

(* The oldest pending task goes to the executor, the next in order.        *)
LEMMA CompletePollStep ==
    ASSUME PoolInv, TypeOK', NEW s \in Threads, CompletePoll(s)
    PROVE  PoolInv'
<1>inv. /\ TypeOK
        /\ stopped => threads = <<>>
        /\ \A r \in Threads : ThreadInv(r)
        /\ \A b \in Actors : ActorInv(b)
        /\ submitted \in [Actors -> Nat] /\ acts \in [Actors -> Seq(Task)]
        /\ started \in [Actors -> Nat]
        /\ \A b \in Actors : Queued(b) \subseteq Nat
        /\ pc[s] # "idle" => job[s] \in Task /\ job[s].act \in Actors
  BY Before
<1>same. /\ pc[s] = "complete.poll" /\ pc[s] \in InMonitor /\ pc[s] \notin Submitting
         /\ Leave(s)
         /\ threads' = IF stopped THEN threads ELSE Append(threads, Head(acts[job[s].act]))
         /\ acts' = [acts EXCEPT ![job[s].act] = Tail(@)]
         /\ UNCHANGED <<playingNow, stopped, submitted, started, finished>>
  BY DEF CompletePoll, Execute, InMonitor, CompleteLabels, Submitting
<1>act. PICK a \in Actors : a = job[s].act /\ s \in Playing(a)
  BY <1>inv, <1>same DEF Playing
<1>found. acts[a] # <<>>
  BY <1>inv, <1>act, <1>same DEF ThreadInv, BranchOf
<1>head. /\ acts[a] \in Seq(Task) /\ Len(acts[a]) \in Nat /\ Len(acts[a]) >= 1
         /\ Head(acts[a]) = acts[a][1] /\ acts[a][1] \in Task
         /\ acts'[a] = Tail(acts[a]) /\ Len(acts'[a]) = Len(acts[a]) - 1
         /\ DOMAIN acts[a] = 1 .. Len(acts[a]) /\ DOMAIN acts'[a] = 1 .. Len(acts[a]) - 1
         /\ \A i \in 1 .. Len(acts[a]) - 1 : acts'[a][i] = acts[a][i + 1]
  BY <1>inv, <1>act, <1>found, <1>same
<1>left. /\ pc'[s] = "idle" /\ \A b \in Actors : job'[s].act # b
         /\ \A r \in Threads \ {s} : pc'[r] = pc[r] /\ job'[r] = job[r]
         /\ monitor' = [monitor EXCEPT ![a] = Nobody]
  BY <1>act, <1>same, LeaveInv
<1>next. acts[a][1] = [act |-> a, number |-> Current(a) + 1]
  BY <1>inv, <1>head DEF ActorInv, OrderOf
<1>put. /\ acts[a][1].act = a
        /\ ~stopped => threads' = Append(threads, acts[a][1])
  BY <1>act, <1>head, <1>next, <1>same
<1>1. ASSUME NEW r \in Threads \ {s}
      PROVE  ThreadInv(r)'
  BY <1>inv, <1>act, <1>same, <1>left, HolderOthers
<1>2. ThreadInv(s)'
  BY <1>same, LeaveInv
<1>3. ASSUME NEW b \in Actors, b # a
      PROVE  ActorInv(b)'
  <2>1. Queued(b)' = Queued(b) /\ \A i \in Queued(b) : threads'[i] = threads[i]
    <3>1. CASE stopped
      BY <1>same, <3>1 DEF Queued
    <3>2. CASE ~stopped
      BY <1>inv, <1>3, <1>head, <1>put, <3>2, QueuedAppend
    <3>. QED
      BY <3>1, <3>2
  <2>2. acts'[b] = acts[b]
    BY <1>inv, <1>3, <1>act, <1>same
  <2>. QED
    BY <1>inv, <1>3, <1>act, <1>same, <1>left, <2>1, <2>2, OtherActors, SMTT(30), ZenonT(30)
<1>4. ActorInv(a)'
  <2>1. OrderOf(a)
    BY <1>inv DEF ActorInv
  <2>2. /\ Playing(a) = {s} /\ Queued(a) = {} /\ a \in playingNow
        /\ started[a] = Current(a) /\ finished[a] = started[a]
    BY <1>inv, <1>act, <1>same, PlaysAlone
  <2>3. Playing(a)' = {}
    BY <1>act, <1>left, <2>2 DEF Playing
  <2>4. /\ stopped => Queued(a)' = {}
        /\ ~stopped => /\ Queued(a)' = {Len(threads) + 1}
                       /\ threads'[Len(threads) + 1] = acts[a][1]
    <3>1. CASE stopped
      BY <1>same, <2>2, <3>1 DEF Queued
    <3>2. CASE ~stopped
      BY <1>inv, <1>head, <1>put, <2>2, <3>2, QueuedAppend
    <3>. QED
      BY <3>1, <3>2
  <2>5. BeingSubmitted(a)' <=> BeingSubmitted(a)
    BY <1>act, <1>left, <1>same DEF BeingSubmitted, Submitting
  <2>6. Current(a)' = Current(a) + 1 /\ Current(a) \in Int
    <3>1. submitted'[a] = submitted[a] /\ submitted[a] \in Nat
      BY <1>inv, <1>same
    <3>. QED
      BY <1>head, <2>5, <3>1 DEF Current, Last
  <2>7. ~Running(a)'
    BY <2>3 DEF Running
  <2>8. OneOf(a)'
    BY <1>same, <2>2, <2>3, <2>4 DEF OneOf, AtMostOne
  <2>9. ASSUME NEW i \in DOMAIN acts'[a]
        PROVE  acts'[a][i] = [act |-> a, number |-> Current(a)' + i]
    <3>1. i + 1 \in DOMAIN acts[a] /\ acts'[a][i] = acts[a][i + 1]
      BY <1>head, <2>9
    <3>2. Current(a)' + i = Current(a) + (i + 1)
      BY <1>head, <2>6, <2>9
    <3>. QED
      BY <2>1, <3>1, <3>2 DEF OrderOf
  <2>10. \A i \in Queued(a)' : threads'[i].number = Current(a)' /\ started'[a] + 1 = Current(a)'
    BY <1>next, <1>same, <2>2, <2>4, <2>6
  <2>11. OrderOf(a)'
    BY <1>same, <2>2, <2>3, <2>7, <2>9, <2>10 DEF OrderOf
  <2>. QED
    BY <1>same, <2>2, <2>8, <2>11 DEF ActorInv
<1>. QED
  BY <1>inv, <1>same, <1>1, <1>2, <1>3, <1>4, PoolInvAfter

(* shutdown empties the executor's queue for good.                         *)
LEMMA ShutdownStep ==
    ASSUME PoolInv, Shutdown
    PROVE  PoolInv'
<1>inv. /\ TypeOK
        /\ \A r \in Threads : ThreadInv(r)
        /\ \A b \in Actors : ActorInv(b)
  BY PoolInvParts
<1>same. /\ stopped' /\ threads' = <<>>
         /\ UNCHANGED <<playingNow, acts, monitor, pc, job, submitted, started, finished>>
  BY DEF Shutdown
<1>1. TypeOK'
  <2>1. threads' \in Seq(Task) /\ stopped' \in BOOLEAN
    BY <1>same DEF Shutdown
  <2>. QED
    BY <1>inv, <1>same, <2>1 DEF TypeOK
<1>2. ASSUME NEW r \in Threads
      PROVE  ThreadInv(r)'
  BY <1>inv, <1>same DEF ThreadInv, MonitorOf, BranchOf
<1>3. ASSUME NEW b \in Actors
      PROVE  ActorInv(b)'
  <2>1. Playing(b)' = Playing(b) /\ Queued(b)' = {} /\ (Running(b)' <=> Running(b))
    BY <1>same DEF Playing, Queued, Running
  <2>2. Current(b)' = Current(b)
    BY <1>same DEF Current, Last, BeingSubmitted
  <2>3. OneOf(b) /\ OrderOf(b)
    BY <1>inv DEF ActorInv
  <2>4. OneOf(b)'
    BY <1>same, <2>1, <2>3 DEF OneOf, AtMostOne
  <2>5. OrderOf(b)'
    BY <1>same, <2>1, <2>2, <2>3 DEF OrderOf
  <2>. QED
    BY <1>inv, <1>same, <2>4, <2>5 DEF ActorInv
<1>. QED
  BY <1>same, <1>1, <1>2, <1>3, PoolInvAfter

-----------------------------------------------------------------------------
(* The invariant and what follows from it.                                 *)

(* Nothing is going on at the start.                                       *)
LEMMA PoolInvInit == Init => PoolInv
<1>. SUFFICES ASSUME Init
              PROVE  PoolInv
  OBVIOUS
<1>1. TypeOK
  BY TypeInit
<1>2. \A s \in Threads : pc[s] = "idle" /\ job[s] = NoTask
  BY DEF Init
<1>3. \A a \in Actors : /\ monitor[a] = Nobody /\ acts[a] = <<>> /\ submitted[a] = 0
                        /\ started[a] = 0 /\ finished[a] = 0
  BY DEF Init
<1>4. playingNow = {} /\ threads = <<>> /\ ~stopped
  BY DEF Init
<1>5. ASSUME NEW s \in Threads
      PROVE  ThreadInv(s)
  BY <1>2, <1>3, PoolAssumption
     DEF ThreadInv, MonitorOf, BranchOf, InMonitor, SubmitLabels, WorkLabels, CompleteLabels,
         Submitting
<1>6. ASSUME NEW a \in Actors
      PROVE  ActorInv(a)
  <2>1. NoTask.act # a
    BY PoolAssumption DEF NoTask
  <2>2. Playing(a) = {} /\ Queued(a) = {} /\ ~BeingSubmitted(a) /\ ~Running(a)
    BY <1>2, <1>4, <2>1 DEF Playing, Queued, BeingSubmitted, Running
  <2>3. Current(a) = 0
    BY <1>3, <2>2 DEF Current, Last
  <2>4. OneOf(a)
    BY <1>4, <2>2 DEF OneOf, AtMostOne
  <2>5. OrderOf(a)
    BY <1>3, <2>2, <2>3 DEF OrderOf
  <2>. QED
    BY <1>3, <2>4, <2>5 DEF ActorInv
<1>. QED
  BY <1>1, <1>4, <1>5, <1>6, PoolInvParts

(* Every step keeps the invariant.                                         *)
LEMMA PoolInvStep == PoolInv /\ [Next]_vars => PoolInv'
<1>. SUFFICES ASSUME PoolInv, [Next]_vars
              PROVE  PoolInv'
  OBVIOUS
<1>1. CASE \E s \in Threads : PoolStep(s)
  <2>1. PICK s \in Threads : PoolStep(s)
    BY <1>1
  <2>2. TypeOK'
    BY <2>1, Before, TypeStep
  <2>3. CASE s \in Submitters /\ (SubmitEnter(s) \/ SubmitStep(s))
    BY <2>2, <2>3, SubmitEnterStep, SubmitContainsStep, SubmitAddStep, SubmitExecuteStep,
       SubmitPendStep DEF SubmitStep
  <2>4. CASE s \in Workers /\ WorkerStep(s)
    BY <2>2, <2>4, TakeStep, RunEndsStep, CompleteEnterStep, CompleteIsEmptyStep,
       CompleteRemoveStep, CompletePollStep DEF WorkerStep
  <2>. QED
    BY <2>1, <2>3, <2>4 DEF PoolStep
<1>2. CASE Shutdown
  BY <1>2, ShutdownStep
<1>3. CASE UNCHANGED vars
  <2>same. UNCHANGED <<playingNow, acts, threads, stopped, monitor, pc, job, submitted, started,
                       finished>>
    BY <1>3 DEF vars
  <2>1. TypeOK'
    BY <2>same, PoolInvParts DEF TypeOK
  <2>2. ASSUME NEW r \in Threads
        PROVE  ThreadInv(r)'
    BY <2>same, PoolInvParts DEF ThreadInv, MonitorOf, BranchOf
  <2>3. ASSUME NEW b \in Actors
        PROVE  ActorInv(b)'
    <3>1. Playing(b)' = Playing(b) /\ (Running(b)' <=> Running(b)) /\ Current(b)' = Current(b)
      BY <2>same DEF Playing, Running, Current, Last, BeingSubmitted
    <3>2. ActorInv(b)
      BY PoolInvParts
    <3>. QED
      BY <2>same, <3>1, <3>2, SameActor
  <2>. QED
    BY <2>same, <2>1, <2>2, <2>3, PoolInvParts, PoolInvAfter
<1>. QED
  BY <1>1, <1>2, <1>3, NextIsPoolStep

(* The monitors, playingNow, the map of pending tasks and the executor's   *)
(* queue agree: the pool's inductive invariant, of submit, complete and    *)
(* shutdown.                                                               *)
THEOREM PoolInvariance == Spec => []PoolInv
BY PoolInvInit, PoolInvStep, PTL DEF Spec

(* An actor has one task with the executor at most, from submit to the end *)
(* of the complete that finds nothing more: two workers never run tasks of *)
(* one connection at a time.                                               *)
THEOREM OneTaskAtATime == Spec => []OneAtATime
<1>1. PoolInv => OneAtATime
  BY DEF PoolInv
<1>. QED
  BY <1>1, PoolInvariance, PTL

(* Where tasks of an actor are pending, a complete of that actor is still  *)
(* to come.                                                                *)
THEOREM NoTaskIsForgotten == Spec => []NoTaskForgotten
<1>1. PoolInv => NoTaskForgotten
  BY DEF PoolInv
<1>. QED
  BY <1>1, PoolInvariance, PTL

-----------------------------------------------------------------------------
(* The refinement.                                                         *)

(* The oldest task of the executor's queue is the next one of its actor,   *)
(* whose tasks before it have ended.                                       *)
LEMMA TakesNext ==
    ASSUME PoolInv, threads # <<>>
    PROVE  \E a \in Actors : /\ Head(threads).act = a /\ ~stopped
                             /\ Head(threads).number = started[a] + 1
                             /\ finished[a] = started[a] /\ started[a] < submitted[a]
<1>inv. /\ stopped => threads = <<>>
        /\ threads \in Seq(Task) /\ acts \in [Actors -> Seq(Task)]
        /\ submitted \in [Actors -> Nat] /\ started \in [Actors -> Nat]
  BY DEF PoolInv, TypeOK
<1>head. Head(threads) = threads[1] /\ 1 \in DOMAIN threads /\ threads[1] \in Task
  BY <1>inv
<1>act. PICK a \in Actors : a = threads[1].act /\ 1 \in Queued(a)
  BY <1>head DEF Task, Queued
<1>1. OneOf(a) /\ OrderOf(a)
  BY PoolInvParts DEF ActorInv
<1>2. Playing(a) = {} /\ ~Running(a)
  BY <1>act, <1>1 DEF OneOf, Running
<1>3. threads[1].number = Current(a) /\ started[a] + 1 = Current(a) /\ finished[a] = started[a]
  BY <1>act, <1>1, <1>2 DEF OrderOf
<1>4. Len(acts[a]) \in Nat /\ submitted[a] \in Nat /\ started[a] \in Nat
  BY <1>inv
<1>5. started[a] < submitted[a]
  BY <1>3, <1>4 DEF Current, Last
<1>. QED
  BY <1>inv, <1>head, <1>act, <1>3, <1>5

(* The task a worker runs is the last that began of its actor, and the     *)
(* ones before it have ended.                                              *)
LEMMA RunsLast ==
    ASSUME PoolInv, NEW s \in Threads, pc[s] = "run"
    PROVE  /\ job[s].act \in Actors /\ job[s].number = started[job[s].act]
           /\ finished[job[s].act] + 1 = started[job[s].act]
           /\ finished[job[s].act] \in Nat
<1>inv. /\ \A b \in Actors : ActorInv(b)
        /\ started \in [Actors -> Nat] /\ finished \in [Actors -> Nat]
        /\ job[s] \in Task /\ job[s].act \in Actors
  BY Before
<1>act. PICK a \in Actors : a = job[s].act /\ s \in Playing(a)
  BY <1>inv DEF Playing, Submitting
<1>1. job[s].number = Current(a) /\ started[a] = Current(a) /\ finished[a] = started[a] - 1
  BY <1>inv, <1>act, PlaysAlone
<1>. QED
  BY <1>inv, <1>act, <1>1

(* submit is Submit, the worker that takes a task is Start, and the end of *)
(* run is Finish; nothing else is seen.                                    *)
LEMMA PoolStepSimulates ==
    ASSUME PoolInv, NEW s \in Threads, PoolStep(s)
    PROVE  [Queues!Next]_Queues!vars
<1>1. CASE SubmitEnter(s)
  BY <1>1 DEF SubmitEnter, Queues!Next, Queues!Submit
<1>2. CASE Take(s)
  <2>1. PICK a \in Actors : /\ Head(threads).act = a /\ ~stopped
                            /\ Head(threads).number = started[a] + 1
                            /\ finished[a] = started[a] /\ started[a] < submitted[a]
    BY <1>2, TakesNext DEF Take
  <2>2. Queues!Start(a)
    BY <1>2, <2>1 DEF Take, Queues!Start
  <2>. QED
    BY <2>2 DEF Queues!Next
<1>3. CASE RunEnds(s)
  <2>1. PICK a \in Actors : /\ job[s].act = a /\ job[s].number = started[a]
                            /\ finished[a] + 1 = started[a] /\ finished[a] \in Nat
    BY <1>3, RunsLast DEF RunEnds
  <2>2. finished[a] < started[a] /\ job[s].number = finished[a] + 1
    BY <2>1
  <2>3. Queues!Finish(a)
    BY <1>3, <2>1, <2>2 DEF RunEnds, Queues!Finish
  <2>. QED
    BY <2>3 DEF Queues!Next
<1>4. CASE \/ SubmitContains(s) \/ SubmitAdd(s) \/ SubmitExecute(s) \/ SubmitPend(s)
           \/ CompleteEnter(s) \/ CompleteIsEmpty(s) \/ CompleteRemove(s) \/ CompletePoll(s)
  BY <1>4 DEF SubmitContains, SubmitAdd, SubmitExecute, SubmitPend, CompleteEnter,
              CompleteIsEmpty, CompleteRemove, CompletePoll, Queues!vars
<1>. QED
  BY <1>1, <1>2, <1>3, <1>4 DEF PoolStep, SubmitStep, WorkerStep

(* The pool implements ActorQueues: what the workers run are the tasks of  *)
(* each actor in the order of their submission, one at a time, each once.  *)
THEOREM PoolImplementsQueues == Spec => ImplementsActorQueues
<1>1. Init => Queues!Init
  BY DEF Init, Queues!Init, Queues!Zero
<1>2. PoolInv /\ [Next]_vars => [Queues!Next]_Queues!vars
  <2>. SUFFICES ASSUME PoolInv, [Next]_vars
                PROVE  [Queues!Next]_Queues!vars
    OBVIOUS
  <2>1. CASE \E s \in Threads : PoolStep(s)
    BY <2>1, PoolStepSimulates
  <2>2. CASE Shutdown
    BY <2>2 DEF Shutdown, Queues!Next, Queues!Stop
  <2>3. CASE UNCHANGED vars
    BY <2>3 DEF vars, Queues!vars
  <2>. QED
    BY <2>1, <2>2, <2>3, NextIsPoolStep
<1>. QED
  BY <1>1, <1>2, PoolInvariance, PTL DEF Spec, ImplementsActorQueues, Queues!Spec

===============================================================================
