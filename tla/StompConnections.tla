--------------------------- MODULE StompConnections ---------------------------
(***************************************************************************)
(* The connection registry the STOMP server shares between its client      *)
(* threads (StompConnections.java), one atomic step per operation on a     *)
(* concurrent collection, and the blocking write of a connection handler.  *)
(*                                                                         *)
(* A connection id stands for the id, the handler object registered under  *)
(* it, the protocol object of that handler and the thread that runs it:    *)
(* the server creates the four together.  pc[c] names the next step of the *)
(* thread of c; the steps of a method are labelled "method.step".          *)
(*                                                                         *)
(* A CopyOnWriteArrayList has an identity, because a thread keeps the      *)
(* reference it read from the map: lists[t][g] is the g-th list ever       *)
(* created for topic t, and subscriptions[t] is the one the map holds now. *)
(***************************************************************************)
EXTENDS Naturals, Sequences, SequencesExt

CONSTANTS MaxConns,    \* how many clients the server accepts
          Topics,      \* destinations a client may name
          SubIds,      \* subscription ids, the "id" header parsed as an int
          Logins, Passcodes,
          MaxLists,    \* bound on the lists created for one topic
          SockBuf,     \* frames a socket holds before a write blocks
          None,        \* null: an absent header or map entry
          NotANumber   \* an "id" header that Integer.parseInt refuses

ASSUME ConnectionsAssumption ==
    /\ MaxConns \in Nat /\ MaxLists \in Nat /\ SockBuf \in Nat \ {0}
    /\ Topics # {} /\ None \notin Topics
    /\ None \notin SubIds /\ NotANumber \notin SubIds
    /\ None \notin Logins /\ None \notin Passcodes

Conns   == 1 .. MaxConns
ListIds == 1 .. MaxLists
NoList  == 0

VARIABLES
  (* fields of the shared StompConnections object *)
  clients,                   \* ids whose handler is in the map
  subscriptions,             \* topic -> list the map holds, or NoList
  lists,                     \* topic -> list id -> contents
  created,                   \* topic -> number of lists created so far
  clientsTo_subscriptionsId, \* id -> topic -> subscription id or None
  credentials,               \* login -> passcode or None
  messageIDCounter,
  (* a connection handler and its socket *)
  connected,                 \* the handler's volatile flag
  sock,                      \* the server's end of the socket
  peer,                      \* the client's end
  out,                       \* frames written to the socket, oldest first
  received,                  \* how many of them the client has taken
  (* a thread: where it is, and the locals of the methods it is in *)
  pc, frame, topic, held, messageId, receivers, todo, ret

registry == <<clients, subscriptions, lists, created,
              clientsTo_subscriptionsId, credentials, messageIDCounter>>
handlers == <<connected, sock, peer, out, received>>
locals   == <<frame, topic, held, messageId, receivers, todo, ret>>

-----------------------------------------------------------------------------
(* Frames the server writes.  text is TRUE for a frame handed over as the  *)
(* String of Message.toString() instead of as a Message.  The body of a    *)
(* message is named by who published it where.                             *)
ServerFrame == [command : {"CONNECTED", "ERROR", "RECEIPT", "Message"},
                text : BOOLEAN, subscription : SubIds \cup {None},
                messageId : Nat, from : Conns \cup {None}, topic : Topics \cup {None}]

Reply(command, text) ==
    [command |-> command, text |-> text, subscription |-> None,
     messageId |-> 0, from |-> None, topic |-> None]

Goto(c, label) == pc' = [pc EXCEPT ![c] = label]

Room(d) == Len(out[d]) - received[d] < SockBuf

(* Mutant: the write succeeds on a handler that was closed.                *)
HandlerSendAfterClose(d, f) ==
    \/ f.text /\ UNCHANGED <<out, connected>>
    \/ /\ ~f.text /\ Room(d)
       /\ out' = [out EXCEPT ![d] = Append(@, f)]
       /\ UNCHANGED connected

(* StompBlockingConnectionHandler.send: the cast to Message fails for a    *)
(* String and is caught; a write blocks while the socket is full; a write  *)
(* to a closed socket, or to one whose client has gone, raises IOException *)
(* and clears connected.  (The first writes to a client that has gone may  *)
(* still be taken by the kernel.)                                          *)
HandlerSend(d, f) ==
    \/ /\ f.text
       /\ UNCHANGED <<out, connected>>
    \/ /\ ~f.text /\ sock[d] = "open" /\ Room(d)
       /\ out' = [out EXCEPT ![d] = Append(@, f)]
       /\ UNCHANGED connected
    \/ /\ ~f.text /\ "closed" \in {sock[d], peer[d]}
       /\ connected' = [connected EXCEPT ![d] = FALSE]
       /\ UNCHANGED out

(* send(connectionId, message) to the thread's own connection.  Only the   *)
(* thread itself removes its id from clients, so the lookup and the write  *)
(* are one step.                                                           *)
SendOwn(c, f) ==
    IF c \in clients THEN HandlerSend(c, f) ELSE UNCHANGED <<out, connected>>

-----------------------------------------------------------------------------
(* send(destination, message)                                              *)

MessageFrame(c) ==
    [command |-> "Message", text |-> FALSE,
     subscription |-> clientsTo_subscriptionsId[c][topic[c]],
     messageId |-> messageId[c], from |-> c, topic |-> topic[c]]

PublishGet(c) ==
    /\ pc[c] = "publish.get"
    /\ IF subscriptions[topic[c]] = NoList
       THEN Goto(c, "receipt") /\ UNCHANGED held
       ELSE /\ held' = [held EXCEPT ![c] = subscriptions[topic[c]]]
            /\ Goto(c, "publish.snapshot")
    /\ UNCHANGED <<registry, handlers, frame, topic, messageId, receivers, todo, ret>>

(* Mutant: send(destination, message) goes to every handler.               *)
SnapshotAll(c) == SetToSeq(clients)

(* The for-each loop iterates over a snapshot of the list.                 *)
Snapshot(c) == lists[topic[c]][held[c]]

PublishSnapshot(c) ==
    /\ pc[c] = "publish.snapshot"
    /\ receivers' = [receivers EXCEPT ![c] = Snapshot(c)]
    /\ Goto(c, "publish.lookup")
    /\ UNCHANGED <<registry, handlers, frame, topic, held, messageId, todo, ret>>

(* Mutant: the loop does not go past a subscriber that has no handler.     *)
PublishLookupStuck(c) ==
    /\ pc[c] = "publish.lookup"
    /\ \/ receivers[c] = <<>> /\ Goto(c, "receipt")
       \/ receivers[c] # <<>> /\ Head(receivers[c]) \in clients /\ Goto(c, "publish.write")
    /\ UNCHANGED <<registry, handlers, locals>>

PublishLookup(c) ==
    /\ pc[c] = "publish.lookup"
    /\ \/ /\ receivers[c] = <<>>
          /\ Goto(c, "receipt")
          /\ UNCHANGED receivers
       \/ /\ receivers[c] # <<>> /\ Head(receivers[c]) \in clients
          /\ Goto(c, "publish.write")
          /\ UNCHANGED receivers
       \/ /\ receivers[c] # <<>> /\ Head(receivers[c]) \notin clients
          /\ receivers' = [receivers EXCEPT ![c] = Tail(@)]
          /\ UNCHANGED pc
    /\ UNCHANGED <<registry, handlers, frame, topic, held, messageId, todo, ret>>

PublishWrite(c) ==
    /\ pc[c] = "publish.write"
    /\ HandlerSend(Head(receivers[c]), MessageFrame(c))
    /\ receivers' = [receivers EXCEPT ![c] = Tail(@)]
    /\ Goto(c, "publish.lookup")
    /\ UNCHANGED <<registry, sock, peer, received, frame, topic, held, messageId, todo, ret>>

-----------------------------------------------------------------------------
(* disconnect(connectionId).  ret[c] is the step of the handler that       *)
(* follows the call.                                                       *)

CallDisconnect(c, return) ==
    /\ ret' = [ret EXCEPT ![c] = return]
    /\ Goto(c, "disconnect.remove")

DisconnectRemove(c) ==
    /\ pc[c] = "disconnect.remove"
    /\ clients' = clients \ {c}
    /\ todo' = [todo EXCEPT ![c] = Topics]
    /\ Goto(c, IF c \in clients THEN "disconnect.close" ELSE "disconnect.purge")
    /\ UNCHANGED <<subscriptions, lists, created, clientsTo_subscriptionsId, credentials,
                   messageIDCounter, handlers, frame, topic, held, messageId, receivers, ret>>

(* Mutant: once the handler is closed, disconnect returns.                 *)
DisconnectCloseReturns(c) ==
    /\ pc[c] = "disconnect.close"
    /\ connected' = [connected EXCEPT ![c] = FALSE]
    /\ sock' = [sock EXCEPT ![c] = "closed"]
    /\ Goto(c, ret[c])
    /\ UNCHANGED <<registry, peer, out, received, locals>>

DisconnectClose(c) ==
    /\ pc[c] = "disconnect.close"
    /\ connected' = [connected EXCEPT ![c] = FALSE]
    /\ sock' = [sock EXCEPT ![c] = "closed"]
    /\ Goto(c, "disconnect.purge")
    /\ UNCHANGED <<registry, peer, out, received, locals>>

(* Mutant: each topic is dropped, not only the connection from its list.   *)
DisconnectPurgeTopic(c) ==
    /\ pc[c] = "disconnect.purge"
    /\ \E t \in todo[c] :
         /\ todo' = [todo EXCEPT ![c] = @ \ {t}]
         /\ subscriptions' = [subscriptions EXCEPT ![t] = NoList]
         /\ Goto(c, IF todo[c] = {t} THEN ret[c] ELSE "disconnect.purge")
    /\ UNCHANGED <<clients, lists, created, clientsTo_subscriptionsId, credentials,
                   messageIDCounter, handlers, frame, topic, held, messageId, receivers, ret>>

(* One turn of the loop over subscriptions.values(), in an order the map   *)
(* chooses; the iterator takes each topic's list when it gets there.       *)
DisconnectPurge(c) ==
    /\ pc[c] = "disconnect.purge"
    /\ \E t \in todo[c] :
         /\ todo' = [todo EXCEPT ![c] = @ \ {t}]
         /\ IF subscriptions[t] = NoList
            THEN UNCHANGED lists
            ELSE lists' = [lists EXCEPT ![t][subscriptions[t]] = RemoveFirst(@, c)]
         /\ Goto(c, IF todo[c] = {t} THEN ret[c] ELSE "disconnect.purge")
    /\ UNCHANGED <<clients, subscriptions, created, clientsTo_subscriptionsId, credentials,
                   messageIDCounter, handlers, frame, topic, held, messageId, receivers, ret>>

-----------------------------------------------------------------------------
(* subscribe(destination, connectionId, subscriptionId).  The inner map of *)
(* a connection is used by its own thread only; an outer entry that is     *)
(* absent and one that is empty are both all None.                         *)

(* Mutant: subscribe does not look for an earlier subscription.            *)
AlreadySubscribedNever(c, t) == FALSE

AlreadySubscribed(c, t) == clientsTo_subscriptionsId[c][t] # None

(* computeIfAbsent(destination, new CopyOnWriteArrayList)                  *)
SubscribeList(c) ==
    /\ pc[c] = "subscribe.list"
    /\ LET t == topic[c] IN
         \/ /\ subscriptions[t] # NoList
            /\ held' = [held EXCEPT ![c] = subscriptions[t]]
            /\ UNCHANGED <<subscriptions, created>>
         \/ /\ subscriptions[t] = NoList
            /\ created[t] < MaxLists
            /\ created' = [created EXCEPT ![t] = @ + 1]
            /\ subscriptions' = [subscriptions EXCEPT ![t] = created[t] + 1]
            /\ held' = [held EXCEPT ![c] = created[t] + 1]
    /\ Goto(c, "subscribe.add")
    /\ UNCHANGED <<clients, lists, clientsTo_subscriptionsId, credentials, messageIDCounter,
                   handlers, frame, topic, messageId, receivers, todo, ret>>

SubscribeAdd(c) ==
    /\ pc[c] = "subscribe.add"
    /\ lists' = [lists EXCEPT ![topic[c]][held[c]] = Append(@, c)]
    /\ Goto(c, "subscribe.put")
    /\ UNCHANGED <<clients, subscriptions, created, clientsTo_subscriptionsId, credentials,
                   messageIDCounter, handlers, locals>>

(* Mutant: subscribe fills the list and does not record the id.            *)
SubscribePutForgotten(c) ==
    /\ pc[c] = "subscribe.put"
    /\ Goto(c, "receipt")
    /\ UNCHANGED <<registry, handlers, locals>>

SubscribePut(c) ==
    /\ pc[c] = "subscribe.put"
    /\ clientsTo_subscriptionsId' =
         [clientsTo_subscriptionsId EXCEPT ![c][topic[c]] = frame[c].id]
    /\ Goto(c, "receipt")
    /\ UNCHANGED <<clients, subscriptions, lists, created, credentials, messageIDCounter,
                   handlers, locals>>

-----------------------------------------------------------------------------
(* unsubscribe(subscriptionId, connectionId)                               *)

TopicsWithId(c, i) == {t \in Topics : clientsTo_subscriptionsId[c][t] = i}

UnsubscribeGet(c) ==
    /\ pc[c] = "unsubscribe.get"
    /\ IF subscriptions[topic[c]] = NoList
       THEN Goto(c, "receipt") /\ UNCHANGED held
       ELSE /\ held' = [held EXCEPT ![c] = subscriptions[topic[c]]]
            /\ Goto(c, "unsubscribe.remove")
    /\ UNCHANGED <<registry, handlers, frame, topic, messageId, receivers, todo, ret>>

UnsubscribeRemove(c) ==
    /\ pc[c] = "unsubscribe.remove"
    /\ lists' = [lists EXCEPT ![topic[c]][held[c]] = RemoveFirst(@, c)]
    /\ Goto(c, "unsubscribe.isEmpty")
    /\ UNCHANGED <<clients, subscriptions, created, clientsTo_subscriptionsId, credentials,
                   messageIDCounter, handlers, locals>>

UnsubscribeIsEmpty(c) ==
    /\ pc[c] = "unsubscribe.isEmpty"
    /\ Goto(c, IF Snapshot(c) = <<>> THEN "unsubscribe.drop" ELSE "receipt")
    /\ UNCHANGED <<registry, handlers, locals>>

UnsubscribeDrop(c) ==
    /\ pc[c] = "unsubscribe.drop"
    /\ subscriptions' = [subscriptions EXCEPT ![topic[c]] = NoList]
    /\ Goto(c, "receipt")
    /\ UNCHANGED <<clients, lists, created, clientsTo_subscriptionsId, credentials,
                   messageIDCounter, handlers, locals>>

-----------------------------------------------------------------------------
(* isSubscribed(connectionId, channel): the map lookup, then contains() on *)
(* the list it returned.  Looking up a null channel raises                 *)
(* NullPointerException, which ends the thread.                            *)

IsSubscribedGet(c) ==
    /\ pc[c] = "isSubscribed.get"
    /\ \/ topic[c] = None /\ Goto(c, "closing") /\ UNCHANGED held
       \/ /\ topic[c] # None /\ subscriptions[topic[c]] = NoList
          /\ Goto(c, "send.reject") /\ UNCHANGED held
       \/ /\ topic[c] # None /\ subscriptions[topic[c]] # NoList
          /\ held' = [held EXCEPT ![c] = subscriptions[topic[c]]]
          /\ Goto(c, "isSubscribed.contains")
    /\ UNCHANGED <<registry, handlers, frame, topic, messageId, receivers, todo, ret>>

IsSubscribedContains(c) ==
    /\ pc[c] = "isSubscribed.contains"
    /\ Goto(c, IF Contains(Snapshot(c), c) THEN "send.header" ELSE "send.reject")
    /\ UNCHANGED <<registry, handlers, locals>>

-----------------------------------------------------------------------------
(* handle_credentials(login, passcode): two reads, or a read and a write,  *)
(* of a ConcurrentHashMap.  A null key or value raises                     *)
(* NullPointerException, which ends the thread.                            *)

CredentialsGet(c) ==
    /\ pc[c] = "credentials.get"
    /\ \/ frame[c].login = None /\ Goto(c, "closing")
       \/ /\ frame[c].login # None
          /\ Goto(c, IF credentials[frame[c].login] # None
                     THEN "credentials.equals" ELSE "credentials.put")
    /\ UNCHANGED <<registry, handlers, locals>>

CredentialsEquals(c) ==
    /\ pc[c] = "credentials.equals"
    /\ Goto(c, IF credentials[frame[c].login] = frame[c].passcode
               THEN "connect.version" ELSE "connect.reject")
    /\ UNCHANGED <<registry, handlers, locals>>

CredentialsPut(c) ==
    /\ pc[c] = "credentials.put"
    /\ \/ /\ frame[c].passcode = None
          /\ Goto(c, "closing")
          /\ UNCHANGED credentials
       \/ /\ frame[c].passcode # None
          /\ credentials' = [credentials EXCEPT ![frame[c].login] = frame[c].passcode]
          /\ Goto(c, "connect.version")
    /\ UNCHANGED <<clients, subscriptions, lists, created, clientsTo_subscriptionsId,
                   messageIDCounter, handlers, locals>>

ConnectionsStep(c) ==
    \/ PublishGet(c) \/ PublishSnapshot(c) \/ PublishLookup(c) \/ PublishWrite(c)
    \/ DisconnectRemove(c) \/ DisconnectClose(c) \/ DisconnectPurge(c)
    \/ SubscribeList(c) \/ SubscribeAdd(c) \/ SubscribePut(c)
    \/ UnsubscribeGet(c) \/ UnsubscribeRemove(c) \/ UnsubscribeIsEmpty(c) \/ UnsubscribeDrop(c)
    \/ IsSubscribedGet(c) \/ IsSubscribedContains(c)
    \/ CredentialsGet(c) \/ CredentialsEquals(c) \/ CredentialsPut(c)

===============================================================================
