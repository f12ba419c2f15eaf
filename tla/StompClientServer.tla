--------------------------- MODULE StompClientServer ---------------------------
(***************************************************************************)
(* The C++ client against the thread-per-client server.  Connection Client *)
(* belongs to the program of StompClient.  Connection Other came before:   *)
(* it has subscribed to a topic, may have logged in, and goes on as one of *)
(* the scripted clients of StompTPCServer.  What the client writes reaches *)
(* the server through StompFrames' parser, and what the server writes      *)
(* reaches the client as text.                                             *)
(***************************************************************************)
EXTENDS StompTPCServer, StompClient

CONSTANTS OtherTopic, \* the topic the other connection has subscribed to
          OtherId,    \* under which id
          BodySent    \* the body of the messages it SENDs

ASSUME ClientServerAssumption ==
    /\ MaxConns = 2 /\ MaxLists > 0 /\ OtherTopic \in Topics /\ OtherId \in SubIds
    /\ BodySent \in Seq(Range(BodySent))

Other  == 1
Client == 2

serverVars == vars
allVars == <<vars, clientVars>>

(* A state of the server in which Other waits for its next frame, and the  *)
(* passcodes of logins it may know are any.                                *)
ServerInit ==
    /\ clients = {Other}
    /\ subscriptions = [t \in Topics |-> IF t = OtherTopic THEN 1 ELSE NoList]
    /\ lists = [t \in Topics |-> [g \in ListIds |->
                  IF t = OtherTopic /\ g = 1 THEN <<Other>> ELSE <<>>]]
    /\ created = [t \in Topics |-> IF t = OtherTopic THEN 1 ELSE 0]
    /\ clientsTo_subscriptionsId = [c \in Conns |-> [t \in Topics |->
                  IF c = Other /\ t = OtherTopic THEN OtherId ELSE None]]
    /\ credentials \in [Logins -> Passcodes \cup {None}]
    /\ messageIDCounter = 0
    /\ connected = [c \in Conns |-> TRUE]
    /\ sock = [c \in Conns |-> "open"]
    /\ peer = [c \in Conns |-> "open"]
    /\ out = [c \in Conns |-> <<>>]
    /\ received = [c \in Conns |-> 0]
    /\ pc = [c \in Conns |-> IF c = Other THEN "read" ELSE "none"]
    /\ frame = [c \in Conns |-> None]
    /\ topic = [c \in Conns |-> None]
    /\ held = [c \in Conns |-> NoList]
    /\ messageId = [c \in Conns |-> 0]
    /\ receivers = [c \in Conns |-> <<>>]
    /\ todo = [c \in Conns |-> {}]
    /\ ret = [c \in Conns |-> None]
    /\ shouldTerminate = [c \in Conns |-> FALSE]
    /\ idClient = Client
    /\ sent = [c \in Conns |-> 0]

ClientServerInit == ServerInit /\ ClientInit

-----------------------------------------------------------------------------
(* What the protocol's handlers take from a decoded message.               *)
HeaderOf(m, k) == IF k \in DOMAIN m.headers THEN m.headers[k] ELSE None

CommandOf(m) ==
    LET known == {k \in Commands \ {"other", "malformed"} : m.command = <<Word(k)>>}
    IN  IF known = {} THEN "other" ELSE CHOOSE k \in known : TRUE

ToClientFrame(m) ==
    [command |-> CommandOf(m), destination |-> HeaderOf(m, "destination"), id |-> HeaderOf(m, "id"),
     login |-> HeaderOf(m, "login"), passcode |-> HeaderOf(m, "passcode"),
     version |-> HeaderOf(m, "accept-version"), receipt |-> "receipt" \in DOMAIN m.headers]

(* The text of each kind of frame the server writes to the client.  Of an  *)
(* ERROR's body, which repeats the refused frame, its null is kept.        *)
TextOf(command, headers, body) ==
    Encode([command |-> <<Word(command)>>, headers |-> headers, body |-> body],
           SetToSeq(DOMAIN headers))

ServerText ==
    [Message |-> TextOf("Message", [k \in {"subscription:", "message-id: "} |-> "id"], BodySent),
     CONNECTED |-> TextOf("CONNECTED", [k \in {"version"} |-> "1.2"], NoBody),
     ERROR |-> TextOf("ERROR", [k \in {"message:"} |-> "refused"],
                      <<Word("The message"), NL, NUL, NL, Word("reason")>>)]

(* All the text the client was sent.                                       *)
Stream == FlattenSeq([i \in DOMAIN out[Client] |-> ServerText[out[Client][i].command]])

ServerClosed == sock[Client] = "closed"

-----------------------------------------------------------------------------
(* The server's thread of the client reads the text up to the next null.   *)
ReadNext == NUL \in Range(wire) /\ ReadFrame(Client)

ReadTyped ==
    /\ ReadNext
    /\ LET end == Min(Positions(wire, NUL)) IN
         /\ frame'[Client] = ToClientFrame(ParseFrame(SubSeq(wire, 1, end - 1)))
         /\ wire' = SubSeq(wire, end + 1, Len(wire))
    /\ UNCHANGED <<main, keyboard, network, isActive, stdin, typed, userInput, recipt_id,
                   subscriptionId, frames, taken, serverMessage>>

(* Its other steps.                                                        *)
ServerGoesOn ==
    \/ ProtocolStep(Client) /\ UNCHANGED <<idClient, sent>>
    \/ Loop(Client) \/ ReadEnd(Client) \/ Close(Client)

ServerThread == ReadTyped \/ (ServerGoesOn /\ UNCHANGED clientVars)

(* The server meets the client when it has connected.                      *)
Accepting ==
    /\ main \notin {"connect", "refused"}
    /\ Acceptor
    /\ UNCHANGED clientVars

(* Other stays; clients that leave are StompTPCServer's subject.           *)
OtherThread == ThreadStep(Other) /\ UNCHANGED clientVars

Listens == \E stream \in {Stream} : Network(stream, ServerClosed)

ClientThreads ==
    /\ Main \/ Keyboard(ServerClosed) \/ Listens
    /\ UNCHANGED serverVars

ClosesSocket == CloseSocket /\ PeerClose(Client)

ClientServerNext ==
    \/ Accepting \/ ServerThread \/ OtherThread
    \/ ClientThreads \/ ClosesSocket
    \/ User /\ UNCHANGED serverVars

(* Every thread that can run is run; nothing obliges the user to type.     *)
(* (ReadNext is ReadTyped without the text it takes, and can happen        *)
(* whenever that can.)                                                     *)
ClientServerFairness ==
    /\ WF_allVars(Accepting) /\ WF_vars(ReadNext \/ ServerGoesOn)
    /\ WF_allVars(OtherThread)
    /\ WF_allVars(Main /\ UNCHANGED serverVars)
    /\ WF_allVars(ClosesSocket)
    /\ WF_allVars(Keyboard(ServerClosed) /\ UNCHANGED serverVars)
    /\ WF_allVars(Listens /\ UNCHANGED serverVars)

ClientServerSpec == ClientServerInit /\ [][ClientServerNext]_allVars /\ ClientServerFairness

-----------------------------------------------------------------------------
ClientTypeOK ==
    /\ main \in {"connect", "refused", "joinKeyboard", "joinNetwork", "close", "done"}
    /\ keyboard \in {"none", "test", "getline", "write", "delimiter", "done"}
    /\ network \in {"none", "test", "getLine", "handle", "done"}
    /\ isActive \in BOOLEAN
    /\ stdin \in {"open", "eof"} /\ typed \in 0 .. MaxTyped
    /\ recipt_id \in 0 .. MaxTyped /\ subscriptionId \in 1 .. MaxTyped + 1
    /\ Len(frames) <= MaxTyped
    /\ taken \in 0 .. Len(Stream)

IsLogout(text) == text[1] = Word("DISCONNECT")

(* The newline behind each null becomes the first byte of the next frame.  *)
(* Even so the server reads frame after frame as the client wrote them,    *)
(* none split or merged, with all their headers; what is lost is the       *)
(* command of every frame but the first.                                   *)
FramesStayApart ==
    frame[Client] # None =>
        LET intended == ToClientFrame(ParseFrame(frames[sent[Client]]))
        IN  frame[Client] = IF sent[Client] = 1 THEN intended
                                                ELSE [intended EXCEPT !.command = "other"]

(* The client gives up only for a logout, a server that has closed, an     *)
(* ERROR it was sent, or a message whose body names one.                   *)
EndsForAReason ==
    ~isActive =>
        \/ \E i \in DOMAIN frames : IsLogout(frames[i])
        \/ ServerClosed \/ Failed(Client)
        \/ Finds(BodySent, "ERROR") /\ \E i \in DOMAIN out[Client] : IsMessage(Client, i)

(* When the server closes, for whatever reason and whatever it had sent    *)
(* before, the network thread comes to its end.                            *)
CloseIsNoticed == (ServerClosed /\ network # "none") ~> network = "done"

(* And the client ends too, once its user has no more to type: neither     *)
(* join waits for ever.                                                    *)
EndOfInputEnds == (ServerClosed /\ stdin = "eof") ~> main = "done"

(* A logout that is the client's first frame is obeyed: the server closes, *)
(* and the client ends without the user's help.                            *)
FirstLogoutEnds == (frames # <<>> /\ IsLogout(frames[1])) ~> main = "done"

(* README.md:24, "Logout: Gracefully disconnect from the server": a client *)
(* that sent its logout ends.                                              *)
LogoutEnds == (\E i \in DOMAIN frames : IsLogout(frames[i])) ~> main = "done"

-----------------------------------------------------------------------------
(* What keeps those three true, for the proofs.                            *)

Sending == IF keyboard = "write" THEN 1 ELSE 0

(* Each id and each frame comes from a line of its own.                    *)
CountsOK ==
    /\ recipt_id + Sending <= typed
    /\ subscriptionId + Sending <= typed + 1
    /\ Len(frames) + Sending <= typed

(* A frame is written, or its newline, for the line read last.             *)
KeyboardOK ==
    /\ main \in {"connect", "refused"} => keyboard = "none"
    /\ keyboard = "none" => frames = <<>>
    /\ userInput \in TypedLines \cup {<<>>}
    /\ keyboard \in {"write", "delimiter"} =>
          userInput # <<>> /\ userInput[1] \in {"login", "join", "logout"}
    /\ keyboard = "delimiter" =>
          frames # <<>> /\ (userInput[1] = "logout" => IsLogout(frames[Len(frames)]))

(* What the server's next nulls end: the frames it has not read, each but  *)
(* the first behind its predecessor's newline.                             *)
Chunk(k) == (IF k = 1 THEN <<>> ELSE <<NL>>) \o frames[k] \o <<NUL>>
Unread == [i \in 1 .. Len(frames) - sent[Client] |-> Chunk(sent[Client] + i)]

(* Behind them comes the last frame's newline, missing only when it is     *)
(* still to be written, or a send failed and no more frames follow.        *)
WireOK ==
    /\ sent[Client] <= Len(frames)
    /\ frame[Client] # None => sent[Client] # 0
    /\ \E rest \in {<<>>, <<NL>>} :
          /\ wire = FlattenSeq(Unread) \o rest
          /\ rest # <<>> => frames # <<>> /\ keyboard # "delimiter"
          /\ rest = <<>> => \/ frames = <<>> \/ keyboard = "delimiter"
                            \/ ~isActive /\ keyboard \in {"test", "done"}

ErrorSent ==
    \/ Failed(Client)
    \/ Finds(BodySent, "ERROR") /\ \E i \in DOMAIN out[Client] : IsMessage(Client, i)

(* A RECEIPT never reaches the client, and an ERROR it has read was sent.  *)
HeardOK ==
    /\ \A i \in DOMAIN out[Client] : out[Client][i].command # "RECEIPT"
    /\ Finds(serverMessage, "ERROR") => ErrorSent

================================================================================
