----------------------------- MODULE StompProtocol -----------------------------
(***************************************************************************)
(* The STOMP protocol of one connection (StompProtocol.java): what process *)
(* does with a decoded frame, on top of the registry's methods.  A handler *)
(* runs on the connection's own thread; the step after it is "receipt".    *)
(***************************************************************************)
EXTENDS StompConnections

(* shouldTerminate[c] is the protocol's flag.  It is read by its own       *)
(* thread only, between frames, so setting it is part of the step that     *)
(* calls disconnect.                                                       *)
VARIABLE shouldTerminate

(* A frame as StompEncoderDecoder.parseFrame hands it over.  A header that *)
(* is absent is None.  "other" is any command process has no case for, the *)
(* empty one included; "malformed" stands for bytes that parseFrame        *)
(* refuses with IllegalArgumentException.                                  *)
Commands == {"CONNECT", "SEND", "SUBSCRIBE", "UNSUBSCRIBE", "DISCONNECT", "other", "malformed"}

ClientFrame == [command : Commands,
                destination : Topics \cup {None}, id : SubIds \cup {None, NotANumber},
                login : Logins \cup {None}, passcode : Passcodes \cup {None},
                version : {"1.2", "1.1", None}, receipt : BOOLEAN]

(* The switch of process, and the exception of parseFrame that ends run.   *)
Handler(f) ==
    CASE f.command = "CONNECT"     -> "credentials.get"
      [] f.command = "SEND"        -> "isSubscribed.get"
      [] f.command = "SUBSCRIBE"   -> "subscribe"
      [] f.command = "UNSUBSCRIBE" -> "unsubscribe"
      [] f.command = "DISCONNECT"  -> "disconnect"
      [] f.command = "other"       -> "receipt"
      [] f.command = "malformed"   -> "closing"

Labels == {"none", "registered", "loop", "read", "receipt", "closing", "done",
           "credentials.get", "credentials.equals", "credentials.put",
           "connect.reject", "connect.version", "disconnect",
           "isSubscribed.get", "isSubscribed.contains", "send.reject", "send.header",
           "publish.get", "publish.snapshot", "publish.lookup", "publish.write",
           "subscribe", "subscribe.list", "subscribe.add", "subscribe.put",
           "unsubscribe", "unsubscribe.get", "unsubscribe.remove",
           "unsubscribe.isEmpty", "unsubscribe.drop",
           "disconnect.remove", "disconnect.close", "disconnect.purge"}

ResetLocals(c) ==
    /\ frame' = [frame EXCEPT ![c] = None]
    /\ topic' = [topic EXCEPT ![c] = None]
    /\ held' = [held EXCEPT ![c] = NoList]
    /\ messageId' = [messageId EXCEPT ![c] = 0]
    /\ receivers' = [receivers EXCEPT ![c] = <<>>]
    /\ todo' = [todo EXCEPT ![c] = {}]
    /\ ret' = [ret EXCEPT ![c] = None]

(* Mutant: the ERROR is sent, and the client stays connected.              *)
RejectAndStay(c, text, return) ==
    /\ SendOwn(c, Reply("ERROR", text))
    /\ Goto(c, return)
    /\ UNCHANGED <<registry, sock, peer, received, locals, shouldTerminate>>

(* Send an ERROR frame, disconnect, and set shouldTerminate.               *)
Reject(c, text, return) ==
    /\ SendOwn(c, Reply("ERROR", text))
    /\ CallDisconnect(c, return)
    /\ shouldTerminate' = [shouldTerminate EXCEPT ![c] = TRUE]
    /\ UNCHANGED <<registry, sock, peer, received, frame, topic, held, messageId, receivers, todo>>

-----------------------------------------------------------------------------
(* handleConnect.  The credentials come first; rejecting them does not     *)
(* return, so the version is checked on every path.                        *)

ConnectReject(c) ==
    /\ pc[c] = "connect.reject"
    /\ Reject(c, FALSE, "connect.version")

ConnectVersion(c) ==
    /\ pc[c] = "connect.version"
    /\ \/ /\ frame[c].version = None
          /\ Goto(c, "closing")
          /\ UNCHANGED <<registry, handlers, locals, shouldTerminate>>
       \/ /\ frame[c].version = "1.1"
          /\ Reject(c, FALSE, "receipt")
       \/ /\ frame[c].version = "1.2"
          /\ SendOwn(c, Reply("CONNECTED", FALSE))
          /\ Goto(c, "receipt")
          /\ UNCHANGED <<registry, sock, peer, received, locals, shouldTerminate>>

(* handleDisconnect                                                        *)
HandleDisconnect(c) ==
    /\ pc[c] = "disconnect"
    /\ CallDisconnect(c, "receipt")
    /\ shouldTerminate' = [shouldTerminate EXCEPT ![c] = TRUE]
    /\ UNCHANGED <<registry, handlers, frame, topic, held, messageId, receivers, todo>>

-----------------------------------------------------------------------------
(* handleSend, after isSubscribed has answered.                            *)

SendReject(c) ==
    /\ pc[c] = "send.reject"
    /\ Reject(c, FALSE, "receipt")

(* Mutant: the message id is read and not counted up.                      *)
SendHeaderSameId(c) ==
    /\ pc[c] = "send.header"
    /\ clientsTo_subscriptionsId[c][topic[c]] # None
    /\ messageId' = [messageId EXCEPT ![c] = messageIDCounter + 1]
    /\ Goto(c, "publish.get")
    /\ UNCHANGED <<registry, handlers, frame, topic, held, receivers, todo, ret, shouldTerminate>>

(* The headers of the message: the SENDER's subscription id, whose         *)
(* toString() would fail on null, and a fresh message id.                  *)
SendHeader(c) ==
    /\ pc[c] = "send.header"
    /\ \/ /\ clientsTo_subscriptionsId[c][topic[c]] = None
          /\ Goto(c, "closing")
          /\ UNCHANGED <<messageIDCounter, messageId>>
       \/ /\ clientsTo_subscriptionsId[c][topic[c]] # None
          /\ messageIDCounter' = messageIDCounter + 1
          /\ messageId' = [messageId EXCEPT ![c] = messageIDCounter + 1]
          /\ Goto(c, "publish.get")
    /\ UNCHANGED <<clients, subscriptions, lists, created, clientsTo_subscriptionsId, credentials,
                   handlers, frame, topic, held, receivers, todo, ret, shouldTerminate>>

-----------------------------------------------------------------------------
(* handleSubscribe and handleUnsubscribe.  Their ERROR frames are handed   *)
(* to the connection as text.                                              *)

(* Mutant: an id that is not a number is let through.                      *)
ValidIdPresent(f) == f.id # None

ValidId(f) == f.id \notin {None, NotANumber}

HandleSubscribe(c) ==
    /\ pc[c] = "subscribe"
    /\ \/ /\ frame[c].destination = None \/ ~ValidId(frame[c])
          /\ Reject(c, TRUE, "receipt")
       \/ /\ frame[c].destination # None /\ ValidId(frame[c])
          /\ AlreadySubscribed(c, topic[c])
          /\ SendOwn(c, Reply("ERROR", TRUE))
          /\ Goto(c, "receipt")
          /\ UNCHANGED <<registry, sock, peer, received, locals, shouldTerminate>>
       \/ /\ frame[c].destination # None /\ ValidId(frame[c])
          /\ ~AlreadySubscribed(c, topic[c])
          /\ Goto(c, "subscribe.list")
          /\ UNCHANGED <<registry, handlers, locals, shouldTerminate>>

HandleUnsubscribe(c) ==
    /\ pc[c] = "unsubscribe"
    /\ \/ /\ ~ValidId(frame[c])
          /\ Reject(c, TRUE, "receipt")
       \/ /\ ValidId(frame[c]) /\ TopicsWithId(c, frame[c].id) = {}
          /\ SendOwn(c, Reply("ERROR", TRUE))
          /\ Goto(c, "receipt")
          /\ UNCHANGED <<registry, sock, peer, received, locals, shouldTerminate>>
       \/ /\ ValidId(frame[c])
          /\ \E t \in TopicsWithId(c, frame[c].id) : topic' = [topic EXCEPT ![c] = t]
          /\ Goto(c, "unsubscribe.get")
          /\ UNCHANGED <<registry, handlers, frame, held, messageId, receivers, todo, ret,
                         shouldTerminate>>

-----------------------------------------------------------------------------
(* The end of process: a RECEIPT, handed over as text, if the frame asks   *)
(* for one.                                                                *)
Receipt(c) ==
    /\ pc[c] = "receipt"
    /\ IF frame[c].receipt THEN SendOwn(c, Reply("RECEIPT", TRUE))
                           ELSE UNCHANGED <<out, connected>>
    /\ ResetLocals(c)
    /\ Goto(c, "loop")
    /\ UNCHANGED <<registry, sock, peer, received, shouldTerminate>>

ProtocolStep(c) ==
    \/ ConnectionsStep(c) /\ UNCHANGED shouldTerminate
    \/ ConnectReject(c) \/ ConnectVersion(c) \/ HandleDisconnect(c)
    \/ SendReject(c) \/ SendHeader(c)
    \/ HandleSubscribe(c) \/ HandleUnsubscribe(c) \/ Receipt(c)

===============================================================================
