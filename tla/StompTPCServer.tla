---------------------------- MODULE StompTPCServer ----------------------------
(***************************************************************************)
(* The thread-per-client STOMP server: the accepting thread of             *)
(* StompTPCServer.serve, the read loop of StompBlockingConnectionHandler,  *)
(* the protocol and the registry they share, and the clients at the other  *)
(* end of the sockets.                                                     *)
(*                                                                         *)
(* A client is any program that writes frames of its script: Script[c] is  *)
(* the set of frames connection c may send, in any order and any number of *)
(* times up to Budget[c].  It may close its end at any moment; frames it   *)
(* had sent by then are still read.                                        *)
(***************************************************************************)
EXTENDS StompProtocol, FiniteSets

CONSTANTS Script, Budget

ASSUME ServerAssumption ==
    /\ Script \in [Conns -> SUBSET ClientFrame]
    /\ Budget \in [Conns -> Nat]

VARIABLES idClient, \* the id the next accepted client gets
          sent      \* connection -> frames its client has sent so far

vars == <<registry, handlers, locals, pc, shouldTerminate, idClient, sent>>

protocolVars == <<registry, locals, shouldTerminate>>

Init ==
    /\ clients = {}
    /\ subscriptions = [t \in Topics |-> NoList]
    /\ lists = [t \in Topics |-> [g \in ListIds |-> <<>>]]
    /\ created = [t \in Topics |-> 0]
    /\ clientsTo_subscriptionsId = [c \in Conns |-> [t \in Topics |-> None]]
    /\ credentials = [l \in Logins |-> None]
    /\ messageIDCounter = 0
    /\ connected = [c \in Conns |-> TRUE]
    /\ sock = [c \in Conns |-> "open"]
    /\ peer = [c \in Conns |-> "open"]
    /\ out = [c \in Conns |-> <<>>]
    /\ received = [c \in Conns |-> 0]
    /\ pc = [c \in Conns |-> "none"]
    /\ frame = [c \in Conns |-> None]
    /\ topic = [c \in Conns |-> None]
    /\ held = [c \in Conns |-> NoList]
    /\ messageId = [c \in Conns |-> 0]
    /\ receivers = [c \in Conns |-> <<>>]
    /\ todo = [c \in Conns |-> {}]
    /\ ret = [c \in Conns |-> None]
    /\ shouldTerminate = [c \in Conns |-> FALSE]
    /\ idClient = 1
    /\ sent = [c \in Conns |-> 0]

-----------------------------------------------------------------------------
(* serve: the handler is put into clients, and only then is the protocol   *)
(* started and the thread launched.                                        *)

(* Mutant: the thread is started for a handler nobody registered.          *)
RegisterNever(c) ==
    /\ idClient = c /\ pc[c] = "none"
    /\ Goto(c, "registered")
    /\ UNCHANGED <<registry, handlers, locals, shouldTerminate, idClient, sent>>

Register(c) ==
    /\ idClient = c /\ pc[c] = "none"
    /\ clients' = clients \cup {c}
    /\ Goto(c, "registered")
    /\ UNCHANGED <<subscriptions, lists, created, clientsTo_subscriptionsId, credentials,
                   messageIDCounter, handlers, locals, shouldTerminate, idClient, sent>>

Execute(c) ==
    /\ idClient = c /\ pc[c] = "registered"
    /\ idClient' = idClient + 1
    /\ Goto(c, "loop")
    /\ UNCHANGED <<protocolVars, handlers, sent>>

-----------------------------------------------------------------------------
(* run                                                                     *)

Loop(c) ==
    /\ pc[c] = "loop"
    /\ Goto(c, IF shouldTerminate[c] \/ ~connected[c] THEN "closing" ELSE "read")
    /\ UNCHANGED <<protocolVars, handlers, idClient, sent>>

(* The bytes of a frame up to its null are one step; each byte but the     *)
(* last only fills the decoder's buffer.                                   *)
ReadFrame(c) ==
    /\ pc[c] = "read" /\ sent[c] < Budget[c]
    /\ \E f \in Script[c] :
         /\ frame' = [frame EXCEPT ![c] = f]
         /\ topic' = [topic EXCEPT ![c] = f.destination]
         /\ Goto(c, Handler(f))
    /\ sent' = [sent EXCEPT ![c] = @ + 1]
    /\ UNCHANGED <<registry, handlers, held, messageId, receivers, todo, ret, shouldTerminate,
                   idClient>>

(* Mutant: the end of the stream does not end the loop.                    *)
ReadEndIgnored(c) ==
    /\ pc[c] = "read"
    /\ peer[c] = "closed" \/ ~connected[c]
    /\ Goto(c, "loop")
    /\ UNCHANGED <<protocolVars, handlers, idClient, sent>>

(* read() returns -1 or raises IOException once the client has gone; the   *)
(* loop's condition is tested again before each byte, so a read also ends  *)
(* the loop when another thread has cleared connected.                     *)
ReadEnd(c) ==
    /\ pc[c] = "read"
    /\ peer[c] = "closed" \/ ~connected[c]
    /\ Goto(c, "closing")
    /\ UNCHANGED <<protocolVars, handlers, idClient, sent>>

(* The finally block, reached by leaving the loop or by an exception: only *)
(* the handler is closed.                                                  *)
Close(c) ==
    /\ pc[c] = "closing"
    /\ connected' = [connected EXCEPT ![c] = FALSE]
    /\ sock' = [sock EXCEPT ![c] = "closed"]
    /\ ResetLocals(c)
    /\ Goto(c, "done")
    /\ UNCHANGED <<registry, peer, out, received, shouldTerminate, idClient, sent>>

-----------------------------------------------------------------------------
(* The client's side of the socket.                                        *)

PeerClose(c) ==
    /\ pc[c] # "none" /\ peer[c] = "open"
    /\ peer' = [peer EXCEPT ![c] = "closed"]
    /\ UNCHANGED <<protocolVars, connected, sock, out, received, pc, idClient, sent>>

(* What a client has read only matters to the server when the socket is    *)
(* full, so a client is made to read only then.                            *)
ClientReceive(c) ==
    /\ peer[c] = "open" /\ ~Room(c)
    /\ received' = [received EXCEPT ![c] = @ + 1]
    /\ UNCHANGED <<protocolVars, connected, sock, peer, out, pc, idClient, sent>>

-----------------------------------------------------------------------------
Acceptor == \E c \in Conns : Register(c) \/ Execute(c)

ThreadStep(c) ==
    \/ ProtocolStep(c) /\ UNCHANGED <<idClient, sent>>
    \/ Loop(c) \/ ReadFrame(c) \/ ReadEnd(c) \/ Close(c)

(* Every client has come and gone; the acceptor waits for ever.            *)
Quiescent == (\A c \in Conns : pc[c] = "done") /\ UNCHANGED vars

Next ==
    \/ Acceptor
    \/ \E c \in Conns : ThreadStep(c) \/ PeerClose(c) \/ ClientReceive(c)
    \/ Quiescent

(* The scheduler runs every thread that can run, and clients read what     *)
(* they are sent.  Nothing obliges a client to close.                      *)
Fairness ==
    /\ WF_vars(Acceptor)
    /\ \A c \in Conns : WF_vars(ThreadStep(c)) /\ WF_vars(ClientReceive(c))

Spec == Init /\ [][Next]_vars
FairSpec == Spec /\ Fairness

-----------------------------------------------------------------------------
(* Type invariant of all the state.                                        *)
TypeOK ==
    /\ clients \subseteq Conns
    /\ subscriptions \in [Topics -> ListIds \cup {NoList}]
    /\ lists \in [Topics -> [ListIds -> Seq(Conns)]]
    /\ created \in [Topics -> 0 .. MaxLists]
    /\ clientsTo_subscriptionsId \in [Conns -> [Topics -> SubIds \cup {None}]]
    /\ credentials \in [Logins -> Passcodes \cup {None}]
    /\ messageIDCounter \in Nat
    /\ connected \in [Conns -> BOOLEAN]
    /\ sock \in [Conns -> {"open", "closed"}]
    /\ peer \in [Conns -> {"open", "closed"}]
    /\ out \in [Conns -> Seq(ServerFrame)]
    /\ received \in [Conns -> Nat]
    /\ pc \in [Conns -> Labels]
    /\ frame \in [Conns -> ClientFrame \cup {None}]
    /\ topic \in [Conns -> Topics \cup {None}]
    /\ held \in [Conns -> ListIds \cup {NoList}]
    /\ messageId \in [Conns -> Nat]
    /\ receivers \in [Conns -> Seq(Conns)]
    /\ todo \in [Conns -> SUBSET Topics]
    /\ ret \in [Conns -> {"connect.version", "receipt", None}]
    /\ shouldTerminate \in [Conns -> BOOLEAN]
    /\ idClient \in 1 .. MaxConns + 1
    /\ sent \in [Conns -> Nat]

(* The connections the map lists for a topic now.                          *)
Subscribers(t) ==
    IF subscriptions[t] = NoList THEN {} ELSE Range(lists[t][subscriptions[t]])

(* subscribe's two writes: the list first, the id second.                  *)
Recorded(c, t) ==
    \/ clientsTo_subscriptionsId[c][t] # None
    \/ pc[c] = "subscribe.put" /\ topic[c] = t

(* No list holds a connection twice, whichever thread kept a reference to  *)
(* it and however subscribe, unsubscribe and disconnect interleave: a      *)
(* message is written once per subscriber, and one remove() is enough.     *)
NoDuplicateSubscriber ==
    \A t \in Topics, g \in ListIds : IsInjective(lists[t][g])

(* handleSend asks one map whether the sender is subscribed and takes its  *)
(* subscription id from another; get(topic).toString() never meets null    *)
(* there, although unsubscribe and disconnect run in between.              *)
NoNullHeader ==
    \A c \in Conns : pc[c] = "send.header" => clientsTo_subscriptionsId[c][topic[c]] # None

(* Once disconnect has gone past a topic, the connection is not listed for *)
(* it, and stays so: no concurrent list creation or removal leaves or      *)
(* brings back the id of a connection that has no handler.                 *)
DisconnectedIsForgotten ==
    \A c \in Conns, t \in Topics :
        c \notin clients /\ t \notin todo[c] => c \notin Subscribers(t)

(* A thread that waits for another frame has its handler registered, so    *)
(* what it answers is written and not dropped by send's lookup.            *)
ReaderIsRegistered ==
    \A c \in Conns : pc[c] = "read" => c \in clients /\ ~shouldTerminate[c]

IsMessage(d, i) == out[d][i].command = "Message"

(* A subscriber gets the messages of one publisher in the order that       *)
(* publisher sent them, each once.                                         *)
PerSenderOrder ==
    \A d \in Conns : \A j \in DOMAIN out[d] : \A i \in 1 .. j - 1 :
        IsMessage(d, i) /\ IsMessage(d, j) /\ out[d][i].from = out[d][j].from
            => out[d][i].messageId < out[d][j].messageId

(* A message id names one publication: whatever two clients receive under  *)
(* the same id is the same message.                                        *)
UniqueMessageIds ==
    \A d, e \in Conns : \A i \in DOMAIN out[d], j \in DOMAIN out[e] :
        IsMessage(d, i) /\ IsMessage(e, j) /\ out[d][i].messageId = out[e][j].messageId
            => out[d][i] = out[e][j]

(* After an ERROR the server says nothing more of its own to the client:   *)
(* handleConnect goes on after rejecting the credentials, but neither a    *)
(* CONNECTED nor a second ERROR reaches the socket.                        *)
ErrorEndsSession ==
    \A d \in Conns : \A j \in DOMAIN out[d] : \A i \in 1 .. j - 1 :
        out[d][i].command = "ERROR" => IsMessage(d, j)

(* A message goes from a connection that had subscribed to the topic to    *)
(* one that had, and carries the id the sender subscribed with.            *)
MembersOnly ==
    \A d \in Conns : \A i \in DOMAIN out[d] :
        IsMessage(d, i) =>
            LET m == out[d][i] IN
            /\ Recorded(d, m.topic)
            /\ m.subscription # None
            /\ m.subscription = clientsTo_subscriptionsId[m.from][m.topic]

NeverUnsubscribes(c) == \A f \in Script[c] : f.command # "UNSUBSCRIBE"

(* A registered connection whose SUBSCRIBE was accepted, and that never    *)
(* sends UNSUBSCRIBE, stays listed for the topic.                          *)
SubscriptionHeld ==
    \A c \in clients, t \in Topics :
        NeverUnsubscribes(c) /\ clientsTo_subscriptionsId[c][t] # None => c \in Subscribers(t)

-----------------------------------------------------------------------------
(* The inductive invariant behind the safety properties above, one part    *)
(* for each thing the code keeps true without saying so.                   *)

ListLabels == {"isSubscribed.contains", "publish.snapshot", "subscribe.add",
               "unsubscribe.remove", "unsubscribe.isEmpty", "unsubscribe.drop"}
TopicLabels == ListLabels \cup
               {"send.header", "publish.get", "publish.lookup", "publish.write",
                "subscribe.list", "subscribe.put", "unsubscribe.get"}
SubscribeLabels == {"subscribe.list", "subscribe.add", "subscribe.put"}
PurgeLabels == {"disconnect.close", "disconnect.purge"}
DisconnectLabels == PurgeLabels \cup {"disconnect.remove"}
AfterLabels == {"connect.version", "receipt", "loop"}
FrameLabels == Labels \ {"none", "registered", "loop", "read", "closing", "done"}
ServedLabels == Labels \ (DisconnectLabels \cup AfterLabels \cup {"none", "closing", "done"})

(* A thread's locals hold what its next step takes from them.              *)
LocalsOf(c) ==
    /\ pc[c] \in FrameLabels => frame[c] \in ClientFrame
    /\ pc[c] \in TopicLabels => topic[c] \in Topics
    /\ pc[c] \in ListLabels => held[c] \in 1 .. created[topic[c]]
    /\ pc[c] \in DisconnectLabels => ret[c] \in {"connect.version", "receipt"}
    /\ pc[c] = "publish.write" => receivers[c] # <<>>
    /\ pc[c] = "subscribe" => topic[c] = frame[c].destination
    /\ pc[c] \in SubscribeLabels => frame[c].id \in SubIds
    /\ pc[c] \notin PurgeLabels => todo[c] = {}

LocalsOK == \A c \in Conns : LocalsOf(c)

(* A list that was not created yet is empty, and not in the map.           *)
ListsOK ==
    \A t \in Topics :
        /\ subscriptions[t] <= created[t]
        /\ \A g \in ListIds : g > created[t] => lists[t][g] = <<>>

(* Between the check of subscribe and its last write the connection has no *)
(* id for the topic; whoever is in a list, one dropped from the map        *)
(* included, has one, or is at that last write.                            *)
RecordsOK ==
    /\ \A c \in Conns :
          pc[c] \in SubscribeLabels => clientsTo_subscriptionsId[c][topic[c]] = None
    /\ \A t \in Topics, g \in ListIds :
          \A c \in Range(lists[t][g]) : Recorded(c, t)

(* The handler is registered from before the thread starts until           *)
(* disconnect, which only happens together with shouldTerminate.           *)
ServedOf(c) ==
    /\ pc[c] = "none" => c \notin clients /\ ~shouldTerminate[c]
    /\ pc[c] \in ServedLabels => c \in clients /\ ~shouldTerminate[c]
    /\ pc[c] \in AfterLabels => (c \in clients <=> ~shouldTerminate[c])
    /\ pc[c] \in DisconnectLabels => shouldTerminate[c]
    /\ pc[c] \in PurgeLabels => c \notin clients

ServedOK == \A c \in Conns : ServedOf(c)

(* The conjunction for the registry, with the properties it makes          *)
(* inductive.                                                              *)
RegistryInv ==
    /\ TypeOK
    /\ LocalsOK
    /\ ListsOK
    /\ RecordsOK
    /\ ServedOK
    /\ NoDuplicateSubscriber
    /\ NoNullHeader
    /\ DisconnectedIsForgotten

(* The streams.  A publication is under way from the message's header to   *)
(* the end of the loop over the receivers.                                 *)
LoopLabels == {"publish.lookup", "publish.write"}
PublishLabels == LoopLabels \cup {"publish.get", "publish.snapshot"}

(* Its id was drawn and is nobody else's, its sender is recorded, and so   *)
(* is every receiver that is left, each of them once.                      *)
PublishingOf(c) ==
    /\ pc[c] \in PublishLabels =>
          /\ messageId[c] \in 1 .. messageIDCounter
          /\ clientsTo_subscriptionsId[c][topic[c]] # None
          /\ \A b \in Conns \ {c} : pc[b] \in PublishLabels => messageId[b] # messageId[c]
    /\ pc[c] \in LoopLabels =>
          /\ IsInjective(receivers[c])
          /\ \A d \in Range(receivers[c]) : Recorded(d, topic[c])

MessagesTo(d) == {m \in Range(out[d]) : m.command = "Message"}

(* A message in a stream was published; the ones of a publication under    *)
(* way are its message, and were written to receivers the loop is through  *)
(* with, after all earlier ones of the sender.                             *)
StreamOf(d) ==
    \A m \in MessagesTo(d) :
        /\ m.from \in Conns /\ m.topic \in Topics
        /\ m.messageId \in 1 .. messageIDCounter
        /\ \A c \in Conns : pc[c] \in PublishLabels =>
              /\ m.from = c => m.messageId <= messageId[c]
              /\ m.messageId = messageId[c] =>
                    /\ m = MessageFrame(c) /\ pc[c] \in LoopLabels
                    /\ d \notin Range(receivers[c])

Failed(c) == \E i \in DOMAIN out[c] : out[c][i].command = "ERROR"

(* Nothing reaches a client before it is accepted, and an ERROR comes with *)
(* shouldTerminate.                                                        *)
SessionOf(c) ==
    /\ pc[c] = "none" => /\ sock[c] = "open" /\ out[c] = <<>>
                         /\ \A t \in Topics : clientsTo_subscriptionsId[c][t] = None
    /\ Failed(c) => shouldTerminate[c]

StreamsInv ==
    /\ \A c \in Conns : PublishingOf(c) /\ StreamOf(c) /\ SessionOf(c)
    /\ MembersOnly
    /\ UniqueMessageIds
    /\ PerSenderOrder
    /\ ErrorEndsSession

IndInv == RegistryInv /\ StreamsInv

-----------------------------------------------------------------------------
(* What the clients see: the sessions of StompSession.                     *)

Phase(c) ==
    CASE pc[c] = "none" -> "absent"
      [] pc[c] # "none" /\ sock[c] = "closed" -> "ended"
      [] pc[c] # "none" /\ sock[c] = "open" /\ Failed(c) -> "failed"
      [] OTHER -> "open"

Seen(f) ==
    IF f.command = "Message" THEN [kind |-> "Message", from |-> f.from, id |-> f.messageId]
                             ELSE [kind |-> f.command]

Session == INSTANCE StompSession WITH
    phase  <- [c \in Conns |-> Phase(c)],
    stream <- [c \in Conns |-> [i \in DOMAIN out[c] |-> Seen(out[c][i])]],
    issued <- messageIDCounter

(* Every step of the server is a step of the sessions or none: a stream    *)
(* only grows, while its session is open, at most by one ERROR, and in     *)
(* each publisher's order.                                                 *)
ImplementsSession == Session!Spec

(* And a session that was sent an ERROR is closed: the thread comes back   *)
(* to close it even if its other peers read slowly.                        *)
ImplementsFairSession == Session!FairSpec

-----------------------------------------------------------------------------
(* Liveness, under FairSpec.                                               *)

(* The handling of every frame comes to an end, whatever the other threads *)
(* do to the lists and sockets it works on: a thread is not held for ever  *)
(* by a subscriber that left or that reads slowly.                         *)
Waiting(c) == pc[c] \in {"none", "read", "done"}
FrameCompletes == \A c \in Conns : ~Waiting(c) ~> Waiting(c)

(* The thread of a client that has gone is given up.                       *)
DeadPeerReleasesThread == \A c \in Conns : peer[c] = "closed" ~> pc[c] = "done"

-----------------------------------------------------------------------------
(* What a comment of the code says, and the code does not do.              *)

(* StompProtocol.java:84, "true:correct credentials/update credentials if  *)
(* the user is new": the passcode of a known login is never replaced.      *)
CredentialsStable ==
    [][\A l \in Logins : credentials[l] # None => credentials'[l] = credentials[l]]_vars

===============================================================================
