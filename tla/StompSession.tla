----------------------------- MODULE StompSession -----------------------------
(***************************************************************************)
(* What a client of the STOMP server may rely on, with no threads, lists   *)
(* or sockets: the stream of frames each connection gets, and when it      *)
(* grows.  StompTPCServer is shown to implement it.                        *)
(***************************************************************************)
EXTENDS Naturals, Sequences

CONSTANT Conns

VARIABLES phase,  \* connection -> where its session is
          stream, \* connection -> frames it was sent, oldest first
          issued  \* how many messages were published

vars == <<phase, stream, issued>>

Message == [kind : {"Message"}, from : Conns, id : Nat]
Reply   == [kind : {"CONNECTED", "ERROR"}]

Init ==
    /\ phase = [c \in Conns |-> "absent"]
    /\ stream = [c \in Conns |-> <<>>]
    /\ issued = 0

Extend(c, f) == stream' = [stream EXCEPT ![c] = Append(@, f)]

Open(c) ==
    /\ phase[c] = "absent"
    /\ phase' = [phase EXCEPT ![c] = "open"]
    /\ UNCHANGED <<stream, issued>>

Accept(c) ==
    /\ phase[c] = "open"
    /\ Extend(c, [kind |-> "CONNECTED"])
    /\ UNCHANGED <<phase, issued>>

(* The one ERROR of a session: the server only closes after it.            *)
Refuse(c) ==
    /\ phase[c] = "open"
    /\ phase' = [phase EXCEPT ![c] = "failed"]
    /\ Extend(c, [kind |-> "ERROR"])
    /\ UNCHANGED issued

Publish ==
    /\ issued' = issued + 1
    /\ UNCHANGED <<phase, stream>>

Messages(c) == {i \in DOMAIN stream[c] : stream[c][i].kind = "Message"}

(* A message reaches an open session after all earlier messages of its     *)
(* publisher, once, and under an id no other publisher's message has.  It  *)
(* may still slip in between the ERROR and the close.                      *)
Deliver(c) ==
    /\ phase[c] \in {"open", "failed"}
    /\ \E m \in [kind : {"Message"}, from : Conns, id : 1 .. issued] :
         /\ \A i \in Messages(c) : stream[c][i].from = m.from => stream[c][i].id < m.id
         /\ \A d \in Conns : \A i \in Messages(d) :
                stream[d][i].id = m.id => stream[d][i] = m
         /\ Extend(c, m)
    /\ UNCHANGED <<phase, issued>>

End(c) ==
    /\ phase[c] \in {"open", "failed"}
    /\ phase' = [phase EXCEPT ![c] = "ended"]
    /\ UNCHANGED <<stream, issued>>

Next ==
    \/ Publish
    \/ \E c \in Conns : Open(c) \/ Accept(c) \/ Refuse(c) \/ Deliver(c) \/ End(c)

Spec == Init /\ [][Next]_vars

(* A session that failed is not left hanging.                              *)
FairSpec == Spec /\ \A c \in Conns : WF_vars(phase[c] = "failed" /\ End(c))

===============================================================================
