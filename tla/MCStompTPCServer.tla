--------------------------- MODULE MCStompTPCServer ---------------------------
(***************************************************************************)
(* Instances of StompTPCServer for TLC: the frames, scripts and budgets    *)
(* its configurations choose from.                                         *)
(***************************************************************************)
EXTENDS StompTPCServer

CONSTANTS t1, t2,  \* topics
          s1, s2,  \* subscription ids
          u1,      \* a login
          p1, p2   \* passcodes

Plain(command) ==
    [command |-> command, destination |-> None, id |-> None, login |-> None, passcode |-> None,
     version |-> None, receipt |-> FALSE]

Subscribe(t, i) == [Plain("SUBSCRIBE") EXCEPT !.destination = t, !.id = i]
Unsubscribe(i)  == [Plain("UNSUBSCRIBE") EXCEPT !.id = i]
Send(t)         == [Plain("SEND") EXCEPT !.destination = t]
Connect(l, p, v) == [Plain("CONNECT") EXCEPT !.login = l, !.passcode = p, !.version = v]
WithReceipt(f)  == [f EXCEPT !.receipt = TRUE]
Disconnect      == Plain("DISCONNECT")

-----------------------------------------------------------------------------
(* Two connections on one topic that do all four operations; one may also  *)
(* lose its thread to a SEND without a destination.                        *)
TopicFrames(i) == {Subscribe(t1, i), Send(t1), Unsubscribe(i), WithReceipt(Disconnect)}
TopicScript == <<TopicFrames(s1) \cup {Send(None)}, TopicFrames(s2)>>
TopicBudget == <<3, 3>>

(* Three connections, nobody unsubscribes: one publishes, one leaves, one  *)
(* listens.                                                                *)
CrowdScript == <<{Subscribe(t1, s1), Send(t1)}, {Subscribe(t1, s2), Disconnect},
                 {Subscribe(t1, s1)}>>
CrowdBudget == <<2, 2, 1>>

(* CONNECT in all its forms: a new and a known login, a wrong passcode, a  *)
(* wrong or missing version, missing headers.                              *)
ConnectFrames ==
    {Connect(u1, p, v) : p \in {p1, p2, None}, v \in {"1.2", "1.1", None}}
        \cup {Connect(None, p1, "1.2")}

(* And every malformed or refused frame of the other commands.             *)
RefusedFrames ==
    {Subscribe(None, s1), Subscribe(t1, None), Subscribe(t1, NotANumber),
     Unsubscribe(None), Unsubscribe(NotANumber), Unsubscribe(s1), Unsubscribe(s2),
     Subscribe(t1, s1), Subscribe(t2, s1), Send(None), Send(t1), Send(t2),
     WithReceipt(Plain("other")), Plain("malformed"), Disconnect}

(* All of them from one connection, beside one that logs in, subscribes    *)
(* and publishes.                                                          *)
SessionScript == <<ConnectFrames \cup RefusedFrames,
                   {Connect(u1, p1, "1.2"), Subscribe(t1, s2), Send(t1)}>>
SessionBudget == <<2, 2>>

(* Sockets that hold one frame, and the operations that can block on one   *)
(* or that end the thread without a disconnect.                            *)
SlowScript == <<{Subscribe(t1, s1), Send(t1), Send(None), Connect(u1, p1, None)},
                {Subscribe(t1, s2), Disconnect}>>
SlowBudget == <<3, 2>>

-----------------------------------------------------------------------------
(* The smallest scripts that show each disagreement with a comment.        *)
LoginScript == <<{Connect(u1, p1, "1.2")}, {Connect(u1, p2, "1.2")}>>
OneBudget == <<1, 1>>
KeeperScript == <<{Subscribe(t1, s1)}, {Subscribe(t1, s2), Unsubscribe(s2)}>>
KeeperBudget == <<1, 2>>

===============================================================================
