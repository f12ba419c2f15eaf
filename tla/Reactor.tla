-------------------------------- MODULE Reactor --------------------------------
(***************************************************************************)
(* The reactor server (Reactor.java, NonBlockingConnectionHandler.java):   *)
(* one selector thread accepts, reads and writes all channels; what it     *)
(* reads is handed to the actor thread pool as a task of the connection,   *)
(* and the task puts the protocol's answers into the connection's          *)
(* writeQueue and asks the selector thread to write.                       *)
(*                                                                         *)
(* The pool is taken by its promise (ActorQueues): tasks[c] are the tasks  *)
(* of connection c, run in order, one at a time; running[c] is what is     *)
(* left of the one that runs.                                              *)
(*                                                                         *)
(* Bytes are counted, not spelled: a frame is FrameLen of them, an answer  *)
(* AnswerLen, each named by the frame it answers.                          *)
(***************************************************************************)
EXTENDS Naturals, Sequences, SequencesExt

CONSTANTS Conns,
          Frames,    \* connection -> how many frames its client sends
          Answered,  \* connection -> frames process returns a response for
          Final,     \* connection -> frames that make shouldTerminate true
          Leavers,   \* connections whose client may close its end
          FrameLen, AnswerLen,
          Segment,   \* bytes of a client that arrive together
          ReadLen,   \* bytes a read buffer holds, BUFFER_ALLOCATION_SIZE
          SockBuf,   \* bytes a socket takes from the server before it is full
          Nobody

ASSUME ReactorAssumption ==
    /\ Frames \in [Conns -> Nat]
    /\ Answered \in [Conns -> SUBSET (Nat \ {0})] /\ Final \in [Conns -> SUBSET (Nat \ {0})]
    /\ {FrameLen, AnswerLen, Segment, ReadLen, SockBuf} \subseteq Nat \ {0}
    /\ Leavers \subseteq Conns
    /\ Nobody \notin Conns

VARIABLES
  (* the selector thread *)
  spc,             \* its next step; "dead" after an exception nobody catches
  current,         \* the connection whose key it handles, or Nobody
  selected,        \* connection -> operations its selected key was ready for
  acceptable,      \* the server channel's key is among the selected keys
  selectorTasks,   \* connections whose interest is to be set to read and write
  wakeup,          \* a wakeup not yet taken by a select
  (* a connection: its channel, key and handler *)
  chan, interestOps, writeQueue, shouldTerminate,
  (* its tasks in the pool *)
  tasks,           \* bytes of each task that waits
  running,         \* bytes the running task has not decoded yet
  pc,              \* the next step of the running task
  decoded,         \* bytes the decoder has been given so far
  (* its client *)
  peer, sent,      \* bytes the client sent,
  taken,           \* bytes of them the server has read
  out, received    \* bytes on the socket, and how many the client has read

selectorVars == <<spc, current, selected, acceptable>>
taskVars == <<tasks, running, pc, decoded>>
clientVars == <<peer, sent, taken, out, received>>
vars == <<selectorVars, selectorTasks, wakeup, chan, interestOps, writeQueue, shouldTerminate,
          taskVars, clientVars>>

Ops == {"read", "write"}

Init ==
    /\ spc = "select" /\ current = Nobody
    /\ selected = [c \in Conns |-> {}] /\ acceptable = FALSE
    /\ selectorTasks = <<>> /\ wakeup = FALSE
    /\ chan = [c \in Conns |-> "none"]
    /\ interestOps = [c \in Conns |-> {}]
    /\ writeQueue = [c \in Conns |-> <<>>]
    /\ shouldTerminate = [c \in Conns |-> FALSE]
    /\ tasks = [c \in Conns |-> <<>>]
    /\ running = [c \in Conns |-> 0]
    /\ pc = [c \in Conns |-> "idle"]
    /\ decoded = [c \in Conns |-> 0]
    /\ peer = [c \in Conns |-> "open"]
    /\ sent = [c \in Conns |-> 0]
    /\ taken = [c \in Conns |-> 0]
    /\ out = [c \in Conns |-> <<>>]
    /\ received = [c \in Conns |-> 0]

Smaller(a, b) == IF a < b THEN a ELSE b

Room(c) == SockBuf - (Len(out[c]) - received[c])

-----------------------------------------------------------------------------
(* serve: select, then the tasks left by other threads, then the keys.     *)

Acceptable == \E c \in Conns : chan[c] = "pending"

(* The interest of a closed channel counts no more: its key is cancelled.  *)
Ready(c) ==
    {op \in interestOps[c] :
        /\ chan[c] = "open"
        /\ \/ op = "read" /\ (taken[c] < sent[c] \/ peer[c] = "closed")
           \/ op = "write" /\ (Room(c) > 0 \/ peer[c] = "closed")}

Select ==
    /\ spc = "select"
    /\ wakeup \/ Acceptable \/ \E c \in Conns : Ready(c) # {}
    /\ selected' = [c \in Conns |-> Ready(c)]
    /\ acceptable' = Acceptable
    /\ wakeup' = FALSE
    /\ spc' = "tasks"
    /\ UNCHANGED <<current, selectorTasks, chan, interestOps, writeQueue, shouldTerminate,
                   taskVars, clientVars>>

(* Mutant: a task asks for reading only.                                   *)
RunTaskReading ==
    /\ spc = "tasks" /\ selectorTasks # <<>>
    /\ LET c == Head(selectorTasks) IN
         \/ /\ chan[c] = "open"
            /\ interestOps' = [interestOps EXCEPT ![c] = {"read"}]
            /\ UNCHANGED spc
         \/ /\ chan[c] = "closed"
            /\ spc' = "dead"
            /\ UNCHANGED interestOps
    /\ selectorTasks' = Tail(selectorTasks)
    /\ UNCHANGED <<current, selected, acceptable, wakeup, chan, writeQueue, shouldTerminate,
                   taskVars, clientVars>>

(* One turn of runSelectionThreadTasks.  A task has fixed its key when it  *)
(* was made; setting the interest of a cancelled key, or of the null that  *)
(* keyFor returns once the key is gone, raises an exception serve does not *)
(* catch.                                                                  *)
RunTask ==
    /\ spc = "tasks" /\ selectorTasks # <<>>
    /\ LET c == Head(selectorTasks) IN
         \/ /\ chan[c] = "open"
            /\ interestOps' = [interestOps EXCEPT ![c] = Ops]
            /\ UNCHANGED spc
         \/ /\ chan[c] = "closed"
            /\ spc' = "dead"
            /\ UNCHANGED interestOps
    /\ selectorTasks' = Tail(selectorTasks)
    /\ UNCHANGED <<current, selected, acceptable, wakeup, chan, writeQueue, shouldTerminate,
                   taskVars, clientVars>>

TasksDone ==
    /\ spc = "tasks" /\ selectorTasks = <<>>
    /\ spc' = "keys"
    /\ UNCHANGED <<current, selected, acceptable, selectorTasks, wakeup, chan, interestOps,
                   writeQueue, shouldTerminate, taskVars, clientVars>>

(* The selected keys come in the order of a hash set.                      *)
NextKey ==
    /\ spc = "keys"
    /\ \E c \in Conns :
         /\ selected[c] # {}
         /\ current' = c
    /\ spc' = "read"
    /\ UNCHANGED <<selected, acceptable, selectorTasks, wakeup, chan, interestOps, writeQueue,
                   shouldTerminate, taskVars, clientVars>>

KeysDone ==
    /\ spc = "keys" /\ ~acceptable /\ \A c \in Conns : selected[c] = {}
    /\ spc' = "select"
    /\ UNCHANGED <<current, selected, acceptable, selectorTasks, wakeup, chan, interestOps,
                   writeQueue, shouldTerminate, taskVars, clientVars>>

HandleAccept ==
    /\ spc = "keys" /\ acceptable
    /\ \E c \in Conns :
         /\ chan[c] = "pending"
         /\ chan' = [chan EXCEPT ![c] = "open"]
         /\ interestOps' = [interestOps EXCEPT ![c] = {"read"}]
    /\ acceptable' = FALSE
    /\ UNCHANGED <<spc, current, selected, selectorTasks, wakeup, writeQueue, shouldTerminate,
                   taskVars, clientVars>>

-----------------------------------------------------------------------------
(* handleReadWrite of the current key.                                     *)

(* continueRead, and the submission of the task it returns: what there is  *)
(* to read, up to the buffer's size; at the end of the stream, or when     *)
(* read() fails, the channel is closed.                                    *)
ContinueRead ==
    /\ spc = "read"
    /\ LET c == current
           n == Smaller(sent[c] - taken[c], ReadLen) IN
         \/ /\ "read" \notin selected[c]
            /\ UNCHANGED <<chan, tasks, taken>>
         \/ /\ "read" \in selected[c] /\ n > 0
            /\ taken' = [taken EXCEPT ![c] = @ + n]
            /\ tasks' = [tasks EXCEPT ![c] = Append(@, n)]
            /\ UNCHANGED chan
         \/ /\ "read" \in selected[c] /\ peer[c] = "closed"
            /\ chan' = [chan EXCEPT ![c] = "closed"]
            /\ UNCHANGED <<tasks, taken>>
    /\ spc' = "isWritable"
    /\ UNCHANGED <<current, selected, acceptable, selectorTasks, wakeup, interestOps, writeQueue,
                   shouldTerminate, running, pc, decoded, peer, sent, out, received>>

(* The end of handleReadWrite.                                             *)
Handled ==
    /\ spc' = "keys"
    /\ current' = Nobody
    /\ selected' = [selected EXCEPT ![current] = {}]

IsWritable ==
    /\ spc = "isWritable"
    /\ IF chan[current] = "open" /\ "write" \in selected[current]
       THEN spc' = "write" /\ UNCHANGED <<current, selected>>
       ELSE Handled
    /\ UNCHANGED <<acceptable, selectorTasks, wakeup, chan, interestOps, writeQueue,
                   shouldTerminate, taskVars, clientVars>>

(* Mutant: an answer written in part is taken for written.                 *)
ContinueWriteOnce ==
    /\ spc = "write" /\ writeQueue[current] # <<>>
    /\ LET c   == current
           top == Head(writeQueue[c])
           n   == Smaller(top.remaining, Room(c)) IN
         \/ /\ chan[c] = "open"
            /\ out' = [out EXCEPT ![c] = @ \o [i \in 1 .. n |-> top.frame]]
            /\ writeQueue' = [writeQueue EXCEPT ![c] = Tail(@)]
            /\ UNCHANGED <<spc, current, selected, chan>>
         \/ /\ "closed" \in {chan[c], peer[c]}
            /\ chan' = [chan EXCEPT ![c] = "closed"]
            /\ UNCHANGED <<spc, current, selected, out, writeQueue>>
    /\ UNCHANGED <<acceptable, selectorTasks, wakeup, interestOps, shouldTerminate, taskVars,
                   peer, sent, taken, received>>

(* Mutant: an answer written whole stays in the queue.                     *)
ContinueWriteKeeping ==
    /\ spc = "write" /\ writeQueue[current] # <<>>
    /\ LET c   == current
           top == Head(writeQueue[c])
           n   == Smaller(top.remaining, Room(c)) IN
         /\ chan[c] = "open"
         /\ out' = [out EXCEPT ![c] = @ \o [i \in 1 .. n |-> top.frame]]
         /\ writeQueue' = [writeQueue EXCEPT ![c][1].remaining = @ - n]
         /\ Handled
         /\ UNCHANGED chan
    /\ UNCHANGED <<acceptable, selectorTasks, wakeup, interestOps, shouldTerminate, taskVars,
                   peer, sent, taken, received>>

(* One turn of the loop of continueWrite: write() takes what the socket    *)
(* has room for.  It fails on a closed channel, and may fail once the      *)
(* client has gone; the loop goes on with the same buffer.                 *)
ContinueWrite ==
    /\ spc = "write" /\ writeQueue[current] # <<>>
    /\ LET c   == current
           top == Head(writeQueue[c])
           n   == Smaller(top.remaining, Room(c)) IN
         \/ /\ chan[c] = "open" /\ n < top.remaining
            /\ out' = [out EXCEPT ![c] = @ \o [i \in 1 .. n |-> top.frame]]
            /\ writeQueue' = [writeQueue EXCEPT ![c][1].remaining = @ - n]
            /\ Handled
            /\ UNCHANGED chan
         \/ /\ chan[c] = "open" /\ n = top.remaining
            /\ out' = [out EXCEPT ![c] = @ \o [i \in 1 .. n |-> top.frame]]
            /\ writeQueue' = [writeQueue EXCEPT ![c] = Tail(@)]
            /\ UNCHANGED <<spc, current, selected, chan>>
         \/ /\ "closed" \in {chan[c], peer[c]}
            /\ chan' = [chan EXCEPT ![c] = "closed"]
            /\ UNCHANGED <<spc, current, selected, out, writeQueue>>
    /\ UNCHANGED <<acceptable, selectorTasks, wakeup, interestOps, shouldTerminate, taskVars,
                   peer, sent, taken, received>>

WriteLoopDone ==
    /\ spc = "write" /\ writeQueue[current] = <<>>
    /\ spc' = "written"
    /\ UNCHANGED <<current, selected, acceptable, selectorTasks, wakeup, chan, interestOps,
                   writeQueue, shouldTerminate, taskVars, clientVars>>

(* The queue is asked once more: an answer added since is left to the next *)
(* select, with the interest in writing still there.                       *)
WrittenIsEmpty ==
    /\ spc = "written"
    /\ IF writeQueue[current] = <<>> THEN spc' = "settle" /\ UNCHANGED <<current, selected>>
                                     ELSE Handled
    /\ UNCHANGED <<acceptable, selectorTasks, wakeup, chan, interestOps, writeQueue,
                   shouldTerminate, taskVars, clientVars>>

(* Mutant: shouldTerminate is not asked, and the channel stays open.       *)
SettleOpen ==
    /\ spc = "settle"
    /\ interestOps' = [interestOps EXCEPT ![current] = {"read"}]
    /\ Handled
    /\ UNCHANGED <<acceptable, selectorTasks, wakeup, chan, writeQueue, shouldTerminate, taskVars,
                   clientVars>>

(* Mutant: a channel with nothing to write is closed.                      *)
SettleClosed ==
    /\ spc = "settle"
    /\ chan' = [chan EXCEPT ![current] = "closed"]
    /\ Handled
    /\ UNCHANGED <<acceptable, selectorTasks, wakeup, interestOps, writeQueue, shouldTerminate,
                   taskVars, clientVars>>

Settle ==
    /\ spc = "settle"
    /\ IF shouldTerminate[current]
       THEN chan' = [chan EXCEPT ![current] = "closed"] /\ UNCHANGED interestOps
       ELSE interestOps' = [interestOps EXCEPT ![current] = {"read"}] /\ UNCHANGED chan
    /\ Handled
    /\ UNCHANGED <<acceptable, selectorTasks, wakeup, writeQueue, shouldTerminate, taskVars,
                   clientVars>>

-----------------------------------------------------------------------------
(* The running task of a connection: decode, process, and for each answer  *)
(* writeQueue.add and updateInterestedOps.                                 *)

TakeTask(c) ==
    /\ pc[c] = "idle" /\ tasks[c] # <<>>
    /\ running' = [running EXCEPT ![c] = Head(tasks[c])]
    /\ tasks' = [tasks EXCEPT ![c] = Tail(@)]
    /\ pc' = [pc EXCEPT ![c] = "decode"]
    /\ UNCHANGED <<selectorVars, selectorTasks, wakeup, chan, interestOps, writeQueue,
                   shouldTerminate, decoded, clientVars>>

FrameOf(c) == decoded[c] \div FrameLen

(* The bytes up to the next end of a frame, or of the buffer.              *)
Decode(c) ==
    /\ pc[c] = "decode"
    /\ LET missing == FrameLen - (decoded[c] % FrameLen)
           n == Smaller(missing, running[c]) IN
         /\ decoded' = [decoded EXCEPT ![c] = @ + n]
         /\ running' = [running EXCEPT ![c] = @ - n]
         /\ pc' = [pc EXCEPT ![c] = IF n = missing THEN "process" ELSE "idle"]
    /\ UNCHANGED <<selectorVars, selectorTasks, wakeup, chan, interestOps, writeQueue,
                   shouldTerminate, tasks, clientVars>>

Continue(c) == IF running'[c] = 0 THEN "idle" ELSE "decode"

Process(c) ==
    /\ pc[c] = "process"
    /\ shouldTerminate' =
         [shouldTerminate EXCEPT ![c] = @ \/ FrameOf(c) \in Final[c]]
    /\ UNCHANGED running
    /\ pc' = [pc EXCEPT ![c] = IF FrameOf(c) \in Answered[c] THEN "answer" ELSE Continue(c)]
    /\ UNCHANGED <<selectorVars, selectorTasks, wakeup, chan, interestOps, writeQueue,
                   tasks, decoded, clientVars>>

Answer(c) ==
    /\ pc[c] = "answer"
    /\ writeQueue' = [writeQueue EXCEPT
           ![c] = Append(@, [frame |-> FrameOf(c), remaining |-> AnswerLen])]
    /\ pc' = [pc EXCEPT ![c] = "addTask"]
    /\ UNCHANGED <<selectorVars, selectorTasks, wakeup, chan, interestOps, shouldTerminate,
                   tasks, running, decoded, clientVars>>

(* Mutant: the pool's thread sets the interest itself.                     *)
UpdateInterestedOpsItself(c) ==
    /\ pc[c] = "addTask"
    /\ interestOps' = [interestOps EXCEPT ![c] = Ops]
    /\ pc' = [pc EXCEPT ![c] = "wakeup"]
    /\ UNCHANGED <<selectorVars, selectorTasks, wakeup, chan, writeQueue, shouldTerminate,
                   tasks, running, decoded, clientVars>>

(* Mutant: the selector is not woken.                                      *)
UpdateInterestedOpsQuietly(c) ==
    /\ pc[c] = "addTask"
    /\ selectorTasks' = Append(selectorTasks, c)
    /\ UNCHANGED running
    /\ pc' = [pc EXCEPT ![c] = Continue(c)]
    /\ UNCHANGED <<selectorVars, wakeup, chan, interestOps, writeQueue, shouldTerminate,
                   tasks, decoded, clientVars>>

UpdateInterestedOps(c) ==
    /\ pc[c] = "addTask"
    /\ selectorTasks' = Append(selectorTasks, c)
    /\ pc' = [pc EXCEPT ![c] = "wakeup"]
    /\ UNCHANGED <<selectorVars, wakeup, chan, interestOps, writeQueue, shouldTerminate,
                   tasks, running, decoded, clientVars>>

Wakeup(c) ==
    /\ pc[c] = "wakeup"
    /\ wakeup' = TRUE
    /\ UNCHANGED running
    /\ pc' = [pc EXCEPT ![c] = Continue(c)]
    /\ UNCHANGED <<selectorVars, selectorTasks, chan, interestOps, writeQueue, shouldTerminate,
                   tasks, decoded, clientVars>>

-----------------------------------------------------------------------------
(* The clients.                                                            *)

Connect(c) ==
    /\ chan[c] = "none" /\ spc # "dead"
    /\ chan' = [chan EXCEPT ![c] = "pending"]
    /\ UNCHANGED <<selectorVars, selectorTasks, wakeup, interestOps, writeQueue,
                   shouldTerminate, taskVars, clientVars>>

ClientSend(c) ==
    /\ chan[c] # "none" /\ peer[c] = "open"
    /\ sent[c] < Frames[c] * FrameLen
    /\ sent' = [sent EXCEPT ![c] = Smaller(@ + Segment, Frames[c] * FrameLen)]
    /\ UNCHANGED <<selectorVars, selectorTasks, wakeup, chan, interestOps, writeQueue,
                   shouldTerminate, taskVars, peer, taken, out, received>>

ClientReceive(c) ==
    /\ peer[c] = "open" /\ Room(c) = 0
    /\ received' = [received EXCEPT ![c] = Len(out[c])]
    /\ UNCHANGED <<selectorVars, selectorTasks, wakeup, chan, interestOps, writeQueue,
                   shouldTerminate, taskVars, peer, sent, taken, out>>

PeerClose(c) ==
    /\ c \in Leavers /\ chan[c] # "none" /\ peer[c] = "open"
    /\ peer' = [peer EXCEPT ![c] = "closed"]
    /\ UNCHANGED <<selectorVars, selectorTasks, wakeup, chan, interestOps, writeQueue,
                   shouldTerminate, taskVars, sent, taken, out, received>>

-----------------------------------------------------------------------------
SelectorStep ==
    \/ Select \/ RunTask \/ TasksDone \/ NextKey \/ KeysDone \/ HandleAccept
    \/ ContinueRead \/ IsWritable \/ ContinueWrite \/ WriteLoopDone \/ WrittenIsEmpty \/ Settle

TaskStep(c) ==
    \/ TakeTask(c) \/ Decode(c) \/ Process(c) \/ Answer(c)
    \/ UpdateInterestedOps(c) \/ Wakeup(c)

ClientStep(c) == Connect(c) \/ ClientSend(c) \/ ClientReceive(c) \/ PeerClose(c)

(* The clients have sent what they had to; the pool has nothing to run and *)
(* the selector waits, or has ended.                                       *)
Quiescent ==
    /\ spc \in {"select", "dead"}
    /\ \A c \in Conns :
         /\ pc[c] = "idle" /\ tasks[c] = <<>>
         /\ chan[c] = "none" \/ peer[c] = "closed" \/ sent[c] = Frames[c] * FrameLen
    /\ UNCHANGED vars

Next ==
    \/ SelectorStep
    \/ \E c \in Conns : TaskStep(c) \/ ClientStep(c)
    \/ Quiescent

(* The selector thread and the pool go on while they can, and clients read *)
(* what they are sent.  Nothing obliges a client to connect, send or close.*)
Fairness ==
    /\ WF_vars(SelectorStep)
    /\ \A c \in Conns : WF_vars(TaskStep(c)) /\ WF_vars(ClientReceive(c))

Spec == Init /\ [][Next]_vars
FairSpec == Spec /\ Fairness

-----------------------------------------------------------------------------
(* Type invariant.                                                         *)
TypeOK ==
    /\ spc \in {"select", "tasks", "keys", "read", "isWritable", "write", "written", "settle",
                "dead"}
    /\ current \in Conns \cup {Nobody}
    /\ selected \in [Conns -> SUBSET Ops]
    /\ acceptable \in BOOLEAN
    /\ selectorTasks \in Seq(Conns)
    /\ wakeup \in BOOLEAN
    /\ chan \in [Conns -> {"none", "pending", "open", "closed"}]
    /\ interestOps \in [Conns -> SUBSET Ops]
    /\ writeQueue \in [Conns -> Seq([frame : Nat, remaining : 1 .. AnswerLen])]
    /\ shouldTerminate \in [Conns -> BOOLEAN]
    /\ tasks \in [Conns -> Seq(1 .. ReadLen)]
    /\ running \in [Conns -> 0 .. ReadLen]
    /\ pc \in [Conns -> {"idle", "decode", "process", "answer", "addTask", "wakeup"}]
    /\ decoded \in [Conns -> Nat]
    /\ peer \in [Conns -> {"open", "closed"}]
    /\ sent \in [Conns -> Nat] /\ taken \in [Conns -> Nat]
    /\ out \in [Conns -> Seq(Nat)]
    /\ received \in [Conns -> Nat]

(* The frames whose answer was put into writeQueue.                        *)
Put(c) ==
    {f \in Answered[c] :
        f < FrameOf(c) \/ (f = FrameOf(c) /\ pc[c] \notin {"process", "answer"})}

BytesOf(answer) == [i \in 1 .. answer.remaining |-> answer.frame]

Unwritten(queue) == FlattenSeq([i \in DOMAIN queue |-> BytesOf(queue[i])])

(* The answers to some frames, in the order of the frames, each whole.     *)
WholeAnswers(bytes, frames) ==
    /\ \A i, j \in DOMAIN bytes : i < j => bytes[i] =< bytes[j]
    /\ Range(bytes) \subseteq frames
    /\ \A f \in frames : \E first \in DOMAIN bytes :
          {i \in DOMAIN bytes : bytes[i] = f} = first .. first + AnswerLen - 1

(* What a client has been sent, followed by what waits in the queue, is    *)
(* the answers to its frames in their order, each whole: partial writes,   *)
(* the two threads at the queue and the chunks the input came in lose,     *)
(* repeat and mix nothing (continueWrite and the task of continueRead).    *)
AnswersWhole ==
    \A c \in Conns : WholeAnswers(out[c] \o Unwritten(writeQueue[c]), Put(c))

(* While answers wait, the selector is going to look for room to write:    *)
(* the interest is set, or the request for it is on its way.  The selector *)
(* that takes the interest back at the same time does not lose it          *)
(* (updateInterestedOps, called by both threads).                          *)
WriteAskedFor ==
    \A c \in Conns :
        chan[c] = "open" /\ writeQueue[c] # <<>> =>
            "write" \in interestOps[c] \/ pc[c] = "addTask" \/ c \in ToSet(selectorTasks)

(* The selector does not go to sleep over a request: who has put a task    *)
(* for it has woken it since, or is about to (updateInterestedOps).        *)
RequestWakes ==
    spc = "select" /\ selectorTasks # <<>> =>
        wakeup \/ \E c \in Conns : pc[c] = "wakeup"

Left == \E c \in Conns : peer[c] = "closed"

(* A session that ends has another answer than the one to its final frame. *)
(* Then the interest one answer asked for may still be set, and the        *)
(* selector, which asks shouldTerminate as soon as the queue is empty, may *)
(* close the channel before the other answer, or its request, is there.    *)
Hasty(c) == \E f \in Final[c] : \E g \in Answered[c] : g # f

ClosedEarly == \E c \in Conns : Hasty(c) /\ chan[c] = "closed"

(* Nothing but a client that leaves, or a session closed early, ends the   *)
(* selector thread: closing a channel whose session is over leaves no      *)
(* request behind for its cancelled key (continueWrite, serve).            *)
ServesOn == spc = "dead" => Left \/ ClosedEarly

-----------------------------------------------------------------------------
(* The inductive invariant.                                                *)

Requests == ToSet(selectorTasks)

(* The selector thread handles keys of accepted channels.                  *)
KeysOK ==
    /\ spc \in {"read", "isWritable", "write", "written", "settle"} => current \in Conns
    /\ \A c \in Conns : selected[c] # {} \/ c = current => chan[c] \in {"open", "closed"}

(* Nothing is done for a channel before it is accepted.  The socket is not *)
(* overfull, and what the running task does is for a frame it has decoded. *)
HandlerOf(c) ==
    /\ chan[c] \in {"none", "pending"} =>
          tasks[c] = <<>> /\ pc[c] = "idle" /\ writeQueue[c] = <<>>
    /\ Room(c) >= 0
    /\ pc[c] \in {"answer", "addTask"} => FrameOf(c) \in Answered[c]
    /\ shouldTerminate[c] => Final[c] # {}

(* An answer that came after the selector saw the queue empty has its      *)
(* request on the way, which will outlive the interest.                    *)
SettledOf(c) ==
    spc = "settle" /\ current = c /\ writeQueue[c] # <<>> =>
        pc[c] = "addTask" \/ c \in Requests

(* Requests that the selector will not see in this turn have woken it.     *)
WokenOK ==
    spc \notin {"tasks", "dead"} /\ selectorTasks # <<>> =>
        wakeup \/ \E c \in Conns : pc[c] = "wakeup"

(* A connection with one answer at most makes one request at most, and     *)
(* the selector writes after it only.                                      *)
OneAnswer(c) == \A f, g \in Answered[c] : f = g

Requested(c) == Put(c) # {} /\ pc[c] # "addTask"

Writes(c) ==
    \/ "write" \in interestOps[c] \/ "write" \in selected[c]
    \/ current = c /\ spc \in {"write", "written", "settle"}

RequestOf(c) ==
    OneAnswer(c) =>
        /\ c \in Requests \/ Writes(c) => Requested(c)
        /\ Writes(c) => c \notin Requests
        /\ \A i, j \in DOMAIN selectorTasks :
              selectorTasks[i] = c /\ selectorTasks[j] = c => i = j

(* A channel is closed after the last request for it.                      *)
ClosedOf(c) ==
    chan[c] = "closed" =>
        Left \/ Hasty(c) \/ (OneAnswer(c) /\ Requested(c) /\ c \notin Requests)

(* The conjunction, with the properties it makes inductive.                *)
ReactorInv ==
    /\ TypeOK
    /\ KeysOK
    /\ \A c \in Conns : HandlerOf(c) /\ SettledOf(c) /\ RequestOf(c) /\ ClosedOf(c)
    /\ WokenOK
    /\ WriteAskedFor
    /\ ServesOn

-----------------------------------------------------------------------------
OnWire(c, f) == Len(SelectSeq(out[c], LAMBDA g : g = f)) = AnswerLen

(* But for these, every answer reaches its socket, the one to a final      *)
(* frame included (continueWrite closes only after it),                    *)
AnswersDelivered ==
    \A c \in Conns : \A f \in Answered[c] :
        FrameOf(c) >= f ~> OnWire(c, f) \/ Left \/ ClosedEarly

(* and a connection whose protocol is to terminate is closed.  The         *)
(* selector asks shouldTerminate after a write, so a session without an    *)
(* answer stays open (continueWrite).                                      *)
TerminatedIsClosed ==
    \A c \in Conns :
        shouldTerminate[c] /\ Put(c) # {} ~> chan[c] = "closed" \/ Left \/ ClosedEarly

(* Server.java:11, "The main loop of the server, Starts listening and      *)
(* handling new clients": who connects is accepted some day.               *)
NewClientsHandled ==
    \A c \in Conns : chan[c] = "pending" ~> chan[c] # "pending"

===============================================================================
