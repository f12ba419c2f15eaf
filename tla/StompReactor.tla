------------------------------ MODULE StompReactor ------------------------------
(***************************************************************************)
(* The reactor of the STOMP server (StompReactor.java,                     *)
(* StompNonBlockingConnectionsHandler.java): Reactor, but that accepting a *)
(* connection also submits a task that registers its handler and starts    *)
(* its protocol, and that process answers through the registry.  The       *)
(* registry, the field connections, is null from the constructor on, so    *)
(* whatever dereferences it throws, and the pool's finally goes on with    *)
(* the connection's next task.                                             *)
(*                                                                         *)
(* Answered[c] are the frames that the STOMP protocol has an answer to:    *)
(* handling one of them means to call connections.  The others, with no    *)
(* known command and no receipt, are passed over.                          *)
(***************************************************************************)
EXTENDS Reactor

(* The task of the protocol's start has no bytes.                          *)
Start == 0

StompHandleAccept ==
    /\ spc = "keys" /\ acceptable
    /\ \E c \in Conns :
         /\ chan[c] = "pending"
         /\ chan' = [chan EXCEPT ![c] = "open"]
         /\ interestOps' = [interestOps EXCEPT ![c] = {"read"}]
         /\ tasks' = [tasks EXCEPT ![c] = Append(@, Start)]
    /\ acceptable' = FALSE
    /\ UNCHANGED <<spc, current, selected, selectorTasks, wakeup, writeQueue, shouldTerminate,
                   running, pc, decoded, clientVars>>

(* connections.getClients() throws, so neither is the handler registered   *)
(* nor the protocol started, and idUser stays.                             *)
RunStart(c) ==
    /\ pc[c] = "idle" /\ tasks[c] # <<>> /\ Head(tasks[c]) = Start
    /\ tasks' = [tasks EXCEPT ![c] = Tail(@)]
    /\ UNCHANGED <<selectorVars, selectorTasks, wakeup, chan, interestOps, writeQueue,
                   shouldTerminate, running, pc, decoded, clientVars>>

RunRead(c) ==
    /\ tasks[c] # <<>> /\ Head(tasks[c]) # Start
    /\ TakeTask(c)

(* process throws before it changes anything; the task ends with it, and   *)
(* the rest of its buffer is lost.                                         *)
ProcessThrows(c) ==
    /\ pc[c] = "process" /\ FrameOf(c) \in Answered[c]
    /\ running' = [running EXCEPT ![c] = 0]
    /\ pc' = [pc EXCEPT ![c] = "idle"]
    /\ UNCHANGED <<selectorVars, selectorTasks, wakeup, chan, interestOps, writeQueue,
                   shouldTerminate, tasks, decoded, clientVars>>

ProcessIgnores(c) ==
    /\ pc[c] = "process" /\ FrameOf(c) \notin Answered[c]
    /\ UNCHANGED running
    /\ pc' = [pc EXCEPT ![c] = Continue(c)]
    /\ UNCHANGED <<selectorVars, selectorTasks, wakeup, chan, interestOps, writeQueue,
                   shouldTerminate, tasks, decoded, clientVars>>

StompSelectorStep ==
    \/ Select \/ RunTask \/ TasksDone \/ NextKey \/ KeysDone \/ StompHandleAccept
    \/ ContinueRead \/ IsWritable \/ ContinueWrite \/ WriteLoopDone \/ WrittenIsEmpty \/ Settle

StompTaskStep(c) ==
    \/ RunStart(c) \/ RunRead(c) \/ Decode(c) \/ ProcessThrows(c) \/ ProcessIgnores(c)
    \/ Answer(c) \/ UpdateInterestedOps(c) \/ Wakeup(c)

StompNext ==
    \/ StompSelectorStep
    \/ \E c \in Conns : StompTaskStep(c) \/ ClientStep(c)
    \/ Quiescent

StompFairSpec ==
    /\ Init /\ [][StompNext]_vars
    /\ WF_vars(StompSelectorStep)
    /\ \A c \in Conns : WF_vars(StompTaskStep(c)) /\ WF_vars(ClientReceive(c))

-----------------------------------------------------------------------------
(* StompProtocol.java:79, "server responds by sending a CONNECTED Message  *)
(* to registered Clients": the first frame of a client, a CONNECT, is      *)
(* answered unless a client leaves before.                                 *)
ConnectAnswered ==
    \A c \in Conns : FrameOf(c) >= 1 ~> OnWire(c, 1) \/ Left

===============================================================================
