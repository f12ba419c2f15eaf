------------------------- MODULE StompTPCServer_proofs -------------------------
(***************************************************************************)
(* Proofs that the thread-per-client server keeps its invariants, for any  *)
(* number of connections, topics, frames and lists and any scripts, and    *)
(* that it implements StompSession.                                        *)
(*                                                                         *)
(* RegistryInv is inductive.  Its parts are shown in the order in which    *)
(* they rest on one another: types and locals, the lists, the records of   *)
(* subscriptions with the lists' freedom from duplicates, the registration *)
(* of the handlers, and the forgetting of disconnected ones.               *)
(*                                                                         *)
(* Then what the clients are sent: messages between members only, in each  *)
(* sender's order, under ids of their own, and nothing of the server's own *)
(* after an ERROR.  A stream grows at its end, by a message that a loop    *)
(* over the receivers writes or by a reply of the connection's own thread. *)
(***************************************************************************)
EXTENDS StompTPCServer, SequenceLemmas, TLAPS

-----------------------------------------------------------------------------
(* What the list operations of the registry do to a subscriber list: the   *)
(* facts about Append (add) and RemoveFirst (remove) that the proofs of    *)
(* the server's invariants rest on.                                        *)

(* remove(Object) of a subscriber list: the result is a list of the same   *)
(* elements without the first e.                                           *)
LEMMA RemoveFirstElements ==
    ASSUME NEW S, NEW s \in Seq(S), NEW e,
           \E i \in 1 .. Len(s) : s[i] = e
    PROVE  \E i \in 1 .. Len(s) :
              /\ s[i] = e
              /\ RemoveFirst(s, e) \in Seq(S)
              /\ Len(RemoveFirst(s, e)) = Len(s) - 1
              /\ \A j \in 1 .. Len(s) - 1 :
                    RemoveFirst(s, e)[j] = IF j < i THEN s[j] ELSE s[j + 1]
<1>. DEFINE I == {i \in 1 .. Len(s) : s[i] = e}
            i == Min(I)
<1>1. i \in I
  <2>1. I \in SUBSET Nat /\ I # {}
    OBVIOUS
  <2>. QED  BY <2>1, MinIsLeast
<1>2. RemoveFirst(s, e) = SubSeq(s, 1, i - 1) \o SubSeq(s, i + 1, Len(s))
  BY DEF RemoveFirst, RemoveAt, SelectInSeq
<1>. HIDE DEF i
<1>. DEFINE a == SubSeq(s, 1, i - 1)
            b == SubSeq(s, i + 1, Len(s))
<1>3. i \in 1 .. Len(s) /\ s[i] = e /\ Len(s) \in Nat
  BY <1>1
<1>4. /\ a \in Seq(S) /\ Len(a) = i - 1
      /\ \A j \in 1 .. i - 1 : a[j] = s[j]
  <2>1. \A j \in 1 .. i - 1 : s[j] \in S
    BY <1>3, ElementOfSeq
  <2>. QED
    BY <1>3, <2>1, SubSeqProperties
<1>5. /\ b \in Seq(S) /\ Len(b) = Len(s) - i
      /\ \A j \in 1 .. Len(s) - i : b[j] = s[i + j]
  <2>1. \A j \in i + 1 .. Len(s) : s[j] \in S
    BY <1>3, ElementOfSeq
  <2>. QED
    BY <1>3, <2>1, SubSeqProperties
<1>. HIDE DEF a, b
<1>6. /\ a \o b \in Seq(S) /\ Len(a \o b) = Len(s) - 1
      /\ \A j \in 1 .. Len(s) - 1 : (a \o b)[j] = IF j < i THEN s[j] ELSE s[j + 1]
  <2>1. /\ a \o b \in Seq(S) /\ Len(a \o b) = Len(a) + Len(b)
        /\ \A j \in 1 .. Len(a) + Len(b) :
              (a \o b)[j] = IF j <= Len(a) THEN a[j] ELSE b[j - Len(a)]
    BY <1>4, <1>5, ConcatProperties
  <2>2. ASSUME NEW j \in 1 .. Len(s) - 1, ~(j < i)
        PROVE  b[j - Len(a)] = s[j + 1]
    <3>1. j - (i - 1) \in 1 .. Len(s) - i /\ i + (j - (i - 1)) = j + 1
      BY <1>3, <2>2
    <3>. QED  BY <1>4, <1>5, <3>1
  <2>. QED
    BY <1>3, <1>4, <1>5, <2>1, <2>2
<1>. QED
  BY <1>2, <1>3, <1>6 DEF a, b

(* For a list without duplicates, remove() leaves no trace of the element, *)
(* adds none, and keeps the list without duplicates.                       *)
LEMMA RemoveFirstFacts ==
    ASSUME NEW S, NEW s \in Seq(S), NEW e
    PROVE  /\ RemoveFirst(s, e) \in Seq(S)
           /\ Range(RemoveFirst(s, e)) \subseteq Range(s)
           /\ IsInjective(s) => /\ IsInjective(RemoveFirst(s, e))
                                /\ e \notin Range(RemoveFirst(s, e))
<1>. DEFINE r == RemoveFirst(s, e)
<1>1. CASE \E i \in 1 .. Len(s) : s[i] = e
  <2>1. PICK i \in 1 .. Len(s) :
              /\ s[i] = e
              /\ r \in Seq(S)
              /\ Len(r) = Len(s) - 1
              /\ \A j \in 1 .. Len(s) - 1 : r[j] = IF j < i THEN s[j] ELSE s[j + 1]
    BY <1>1, RemoveFirstElements
  <2>2. /\ Len(s) \in Nat /\ DOMAIN s = 1 .. Len(s) /\ DOMAIN r = 1 .. Len(s) - 1
    BY <2>1, LenProperties
  <2>. HIDE DEF r
  <2>. DEFINE old(j) == IF j < i THEN j ELSE j + 1
  <2>3. \A j \in DOMAIN r : old(j) \in DOMAIN s /\ r[j] = s[old(j)] /\ old(j) # i
    BY <2>1, <2>2
  <2>4. \A j, k \in DOMAIN r : old(j) = old(k) => j = k
    BY <2>1, <2>2
  <2>. HIDE DEF old
  <2>5. Range(r) \subseteq Range(s)
    BY <2>3 DEF Range
  <2>6. ASSUME IsInjective(s)
        PROVE  IsInjective(r) /\ e \notin Range(r)
    BY <2>1, <2>2, <2>3, <2>4, <2>6 DEF IsInjective, Range
  <2>. QED
    BY <2>1, <2>5, <2>6 DEF r
<1>2. CASE ~ \E i \in 1 .. Len(s) : s[i] = e
  <2>1. r = s
    BY <1>2 DEF RemoveFirst
  <2>2. e \notin Range(s)
    BY <1>2, LenProperties DEF Range
  <2>. QED
    BY <2>1, <2>2
<1>. QED
  BY <1>1, <1>2

(* remove() of one element keeps all the others.                           *)
LEMMA RemoveFirstKeeps ==
    ASSUME NEW S, NEW s \in Seq(S), NEW e, NEW x \in Range(s), x # e
    PROVE  x \in Range(RemoveFirst(s, e))
<1>. DEFINE r == RemoveFirst(s, e)
<1>1. CASE \E i \in 1 .. Len(s) : s[i] = e
  <2>1. PICK i \in 1 .. Len(s) :
              /\ s[i] = e
              /\ r \in Seq(S)
              /\ Len(r) = Len(s) - 1
              /\ \A j \in 1 .. Len(s) - 1 : r[j] = IF j < i THEN s[j] ELSE s[j + 1]
    BY <1>1, RemoveFirstElements
  <2>2. /\ Len(s) \in Nat /\ DOMAIN s = 1 .. Len(s) /\ DOMAIN r = 1 .. Len(s) - 1
    BY <2>1, LenProperties
  <2>. HIDE DEF r
  <2>3. PICK k \in 1 .. Len(s) : s[k] = x /\ k # i
    BY <2>1, <2>2 DEF Range
  <2>4. CASE k < i
    <3>1. k \in 1 .. Len(s) - 1
      BY <2>2, <2>4
    <3>. QED
      BY <2>1, <2>2, <2>3, <2>4, <3>1 DEF Range, r
  <2>5. CASE k > i
    <3>1. k - 1 \in 1 .. Len(s) - 1 /\ ~(k - 1 < i) /\ (k - 1) + 1 = k
      BY <2>2, <2>5
    <3>2. r[k - 1] = x
      BY <2>1, <2>3, <3>1
    <3>. QED
      BY <2>2, <3>1, <3>2 DEF Range, r
  <2>. QED
    BY <2>3, <2>4, <2>5
<1>2. CASE ~ \E i \in 1 .. Len(s) : s[i] = e
  BY <1>2 DEF RemoveFirst
<1>. QED
  BY <1>1, <1>2

(* add() of an element the list does not hold.                             *)
LEMMA AppendFacts ==
    ASSUME NEW S, NEW s \in Seq(S), NEW e \in S
    PROVE  /\ Append(s, e) \in Seq(S)
           /\ Range(Append(s, e)) = Range(s) \cup {e}
           /\ IsInjective(s) /\ e \notin Range(s) => IsInjective(Append(s, e))
<1>. DEFINE r == Append(s, e)
<1>1. /\ r \in Seq(S) /\ Len(s) \in Nat
      /\ DOMAIN s = 1 .. Len(s) /\ DOMAIN r = 1 .. Len(s) + 1
      /\ \A i \in 1 .. Len(s) : r[i] = s[i]
      /\ r[Len(s) + 1] = e
  BY AppendProperties, LenProperties
<1>. HIDE DEF r
<1>2. Range(r) = Range(s) \cup {e}
  BY <1>1 DEF Range
<1>3. ASSUME IsInjective(s), e \notin Range(s)
      PROVE  IsInjective(r)
  BY <1>1, <1>3 DEF IsInjective, Range
<1>. QED
  BY <1>1, <1>2, <1>3 DEF r

-----------------------------------------------------------------------------
(* The frames the server builds, and what writing them leaves.             *)

(* A reply of the server to its own client is a frame.                     *)
LEMMA ReplyType ==
    ASSUME NEW command \in {"CONNECTED", "ERROR", "RECEIPT"}, NEW text \in BOOLEAN
    PROVE  Reply(command, text) \in ServerFrame
BY DEF Reply, ServerFrame

(* Writing to a handler, whatever becomes of the write, keeps the types of *)
(* the streams and of the connected flags.                                 *)
LEMMA HandlerSendType ==
    ASSUME TypeOK, NEW d \in Conns, NEW f \in ServerFrame, HandlerSend(d, f)
    PROVE  /\ connected' \in [Conns -> BOOLEAN]
           /\ out' \in [Conns -> Seq(ServerFrame)]
<1>1. /\ connected \in [Conns -> BOOLEAN]
      /\ out \in [Conns -> Seq(ServerFrame)]
  BY DEF TypeOK
<1>2. Append(out[d], f) \in Seq(ServerFrame)
  BY <1>1
<1>. QED
  BY <1>1, <1>2 DEF HandlerSend

(* So does writing to the thread's own connection.                         *)
LEMMA SendOwnType ==
    ASSUME TypeOK, NEW c \in Conns, NEW f \in ServerFrame, SendOwn(c, f)
    PROVE  /\ connected' \in [Conns -> BOOLEAN]
           /\ out' \in [Conns -> Seq(ServerFrame)]
<1>1. CASE c \in clients
  BY <1>1, HandlerSendType DEF SendOwn
<1>2. CASE c \notin clients
  BY <1>2 DEF SendOwn, TypeOK
<1>. QED
  BY <1>1, <1>2

(* A step that works on a list has one in its hands.                       *)
LEMMA HeldList ==
    ASSUME TypeOK, LocalsOK, NEW c \in Conns, pc[c] \in ListLabels
    PROVE  /\ topic[c] \in Topics
           /\ held[c] \in ListIds
           /\ held[c] =< created[topic[c]]
           /\ lists[topic[c]][held[c]] \in Seq(Conns)
<1>1. topic[c] \in Topics
  BY DEF LocalsOK, LocalsOf, TopicLabels
<1>2. created[topic[c]] \in 0 .. MaxLists /\ held[c] \in 1 .. created[topic[c]]
  BY <1>1 DEF LocalsOK, LocalsOf, TypeOK
<1>3. held[c] \in ListIds /\ held[c] =< created[topic[c]]
  BY <1>2, ConnectionsAssumption DEF ListIds
<1>. QED
  BY <1>1, <1>3 DEF TypeOK

-----------------------------------------------------------------------------
(* Types.                                                                  *)

(* Leaving process, the locals go back to what a thread starts with.       *)
LEMMA ResetLocalsType ==
    ASSUME TypeOK, NEW c \in Conns, ResetLocals(c)
    PROVE  /\ frame' \in [Conns -> ClientFrame \cup {None}]
           /\ topic' \in [Conns -> Topics \cup {None}]
           /\ held' \in [Conns -> ListIds \cup {NoList}]
           /\ messageId' \in [Conns -> Nat]
           /\ receivers' \in [Conns -> Seq(Conns)]
           /\ todo' \in [Conns -> SUBSET Topics]
           /\ ret' \in [Conns -> {"connect.version", "receipt", None}]
BY DEF TypeOK, ResetLocals

(* Refusing a frame (ERROR, disconnect, shouldTerminate) keeps the types.  *)
LEMMA RejectType ==
    ASSUME TypeOK, NEW c \in Conns, NEW text \in BOOLEAN,
           NEW return \in {"connect.version", "receipt"}, Reject(c, text, return),
           UNCHANGED <<idClient, sent>>
    PROVE  TypeOK'
<1>1. connected' \in [Conns -> BOOLEAN] /\ out' \in [Conns -> Seq(ServerFrame)]
  BY ReplyType, SendOwnType DEF Reject
<1>2. pc \in [Conns -> Labels] /\ ret \in [Conns -> {"connect.version", "receipt", None}]
  BY DEF TypeOK
<1>3. pc' \in [Conns -> Labels]
  BY <1>2 DEF Reject, CallDisconnect, Goto, Labels
<1>4. ret' \in [Conns -> {"connect.version", "receipt", None}]
  BY <1>2 DEF Reject, CallDisconnect
<1>5. shouldTerminate' \in [Conns -> BOOLEAN]
  BY DEF Reject, TypeOK
<1>. QED
  BY <1>1, <1>3, <1>4, <1>5 DEF TypeOK, Reject, registry

(* The initial state has the types.                                        *)
LEMMA TypeInit == Init => TypeOK
BY ConnectionsAssumption
   DEF Init, TypeOK, ListIds, NoList, Labels

-----------------------------------------------------------------------------
(* A step of the server on behalf of one connection.                       *)
Step(c) ==
    \/ ThreadStep(c) \/ Register(c) \/ Execute(c) \/ PeerClose(c) \/ ClientReceive(c)

(* Next is a step of one connection, or changes nothing.                   *)
LEMMA NextIsStep == [Next]_vars => (\E c \in Conns : Step(c)) \/ UNCHANGED vars
BY DEF Next, Acceptor, Quiescent, Step

(* What a step on behalf of c leaves alone of another connection's thread. *)
SameThread(d) ==
    UNCHANGED <<pc[d], frame[d], topic[d], held[d], receivers[d], todo[d],
       ret[d],
                shouldTerminate[d]>>

(* Every action of a thread, of the acceptor and of a client keeps the     *)
(* types; one step per action.                                             *)
LEMMA TypeStep ==
    ASSUME TypeOK, LocalsOK, NEW c \in Conns, Step(c)
    PROVE  TypeOK'
<1>clients. clients \in SUBSET Conns
  BY DEF TypeOK
<1>subscriptions. subscriptions \in [Topics -> ListIds \cup {NoList}]
  BY DEF TypeOK
<1>lists. lists \in [Topics -> [ListIds -> Seq(Conns)]]
  BY DEF TypeOK
<1>created. created \in [Topics -> 0 .. MaxLists]
  BY DEF TypeOK
<1>clientsTo_subscriptionsId. clientsTo_subscriptionsId \in [Conns -> [Topics -> SubIds \cup {None}]]
  BY DEF TypeOK
<1>credentials. credentials \in [Logins -> Passcodes \cup {None}]
  BY DEF TypeOK
<1>messageIDCounter. messageIDCounter \in Nat
  BY DEF TypeOK
<1>connected. connected \in [Conns -> BOOLEAN]
  BY DEF TypeOK
<1>sock. sock \in [Conns -> {"open", "closed"}]
  BY DEF TypeOK
<1>peer. peer \in [Conns -> {"open", "closed"}]
  BY DEF TypeOK
<1>out. out \in [Conns -> Seq(ServerFrame)]
  BY DEF TypeOK
<1>received. received \in [Conns -> Nat]
  BY DEF TypeOK
<1>pc. pc \in [Conns -> Labels]
  BY DEF TypeOK
<1>frame. frame \in [Conns -> ClientFrame \cup {None}]
  BY DEF TypeOK
<1>topic. topic \in [Conns -> Topics \cup {None}]
  BY DEF TypeOK
<1>held. held \in [Conns -> ListIds \cup {NoList}]
  BY DEF TypeOK
<1>messageId. messageId \in [Conns -> Nat]
  BY DEF TypeOK
<1>receivers. receivers \in [Conns -> Seq(Conns)]
  BY DEF TypeOK
<1>todo. todo \in [Conns -> SUBSET Topics]
  BY DEF TypeOK
<1>ret. ret \in [Conns -> {"connect.version", "receipt", None}]
  BY DEF TypeOK
<1>shouldTerminate. shouldTerminate \in [Conns -> BOOLEAN]
  BY DEF TypeOK
<1>sent. sent \in [Conns -> Nat]
  BY DEF TypeOK
<1>1. ASSUME PublishGet(c), UNCHANGED <<idClient, sent, shouldTerminate>>
      PROVE  TypeOK'
  <2>1. topic[c] \in Topics
    BY <1>1 DEF PublishGet, LocalsOK, LocalsOf, TopicLabels
  <2>2. held' \in [Conns -> ListIds \cup {NoList}]
    BY <1>held, <1>1, <2>1, <1>subscriptions DEF PublishGet
  <2>3. pc' \in [Conns -> Labels]
    BY <1>pc, <1>1 DEF PublishGet, Goto, Labels
  <2>. QED
    BY <1>1, <2>1, <2>2, <2>3
       DEF TypeOK, PublishGet, registry, handlers, locals, protocolVars
<1>2. ASSUME PublishSnapshot(c), UNCHANGED <<idClient, sent, shouldTerminate>>
      PROVE  TypeOK'
  <2>1. topic[c] \in Topics /\ held[c] \in ListIds /\ lists[topic[c]][held[c]] \in Seq(Conns)
    BY <1>2, HeldList DEF PublishSnapshot, ListLabels
  <2>2. receivers' \in [Conns -> Seq(Conns)]
    BY <1>receivers, <1>2, <2>1 DEF PublishSnapshot, Snapshot
  <2>3. pc' \in [Conns -> Labels]
    BY <1>pc, <1>2 DEF PublishSnapshot, Goto, Labels
  <2>. QED
    BY <1>2, <2>1, <2>2, <2>3
       DEF TypeOK, PublishSnapshot, registry, handlers, locals, protocolVars
<1>3. ASSUME PublishLookup(c), UNCHANGED <<idClient, sent, shouldTerminate>>
      PROVE  TypeOK'
  <2>1. receivers[c] # <<>> => Tail(receivers[c]) \in Seq(Conns)
    BY <1>receivers
  <2>2. receivers' \in [Conns -> Seq(Conns)]
    BY <1>receivers, <1>3, <2>1 DEF PublishLookup
  <2>3. pc' \in [Conns -> Labels]
    BY <1>pc, <1>3 DEF PublishLookup, Goto, Labels
  <2>. QED
    BY <1>3, <2>1, <2>2, <2>3
       DEF TypeOK, PublishLookup, registry, handlers, locals, protocolVars
<1>4. ASSUME PublishWrite(c), UNCHANGED <<idClient, sent, shouldTerminate>>
      PROVE  TypeOK'
  <2>1. topic[c] \in Topics
    BY <1>4 DEF PublishWrite, LocalsOK, LocalsOf, TopicLabels
  <2>2. receivers[c] # <<>> /\ Head(receivers[c]) \in Conns /\ Tail(receivers[c]) \in Seq(Conns)
    BY <1>receivers, <1>4 DEF PublishWrite, LocalsOK, LocalsOf
  <2>3. MessageFrame(c) \in ServerFrame
    BY <2>1, <1>clientsTo_subscriptionsId, <1>messageId
       DEF MessageFrame, ServerFrame
  <2>4. connected' \in [Conns -> BOOLEAN] /\ out' \in [Conns -> Seq(ServerFrame)]
    BY <1>4, <2>2, <2>3, HandlerSendType DEF PublishWrite
  <2>5. receivers' \in [Conns -> Seq(Conns)]
    BY <1>receivers, <1>4, <2>2 DEF PublishWrite
  <2>6. pc' \in [Conns -> Labels]
    BY <1>pc, <1>4 DEF PublishWrite, Goto, Labels
  <2>. QED
    BY <1>4, <2>1, <2>2, <2>3, <2>4, <2>5, <2>6
       DEF TypeOK, PublishWrite, registry, handlers, locals, protocolVars
<1>5. ASSUME DisconnectRemove(c), UNCHANGED <<idClient, sent, shouldTerminate>>
      PROVE  TypeOK'
  <2>1. clients' \in SUBSET Conns
    BY <1>clients, <1>5 DEF DisconnectRemove
  <2>2. todo' \in [Conns -> SUBSET Topics]
    BY <1>todo, <1>5 DEF DisconnectRemove
  <2>3. pc' \in [Conns -> Labels]
    BY <1>pc, <1>5 DEF DisconnectRemove, Goto, Labels
  <2>. QED
    BY <1>5, <2>1, <2>2, <2>3
       DEF TypeOK, DisconnectRemove, registry, handlers, locals, protocolVars
<1>6. ASSUME DisconnectClose(c), UNCHANGED <<idClient, sent, shouldTerminate>>
      PROVE  TypeOK'
  <2>1. connected' \in [Conns -> BOOLEAN]
    BY <1>connected, <1>6 DEF DisconnectClose
  <2>2. sock' \in [Conns -> {"open", "closed"}]
    BY <1>sock, <1>6 DEF DisconnectClose
  <2>3. pc' \in [Conns -> Labels]
    BY <1>pc, <1>6 DEF DisconnectClose, Goto, Labels
  <2>. QED
    BY <1>6, <2>1, <2>2, <2>3
       DEF TypeOK, DisconnectClose, registry, handlers, locals, protocolVars
<1>7. ASSUME DisconnectPurge(c), UNCHANGED <<idClient, sent, shouldTerminate>>
      PROVE  TypeOK'
  <2>1. PICK t \in todo[c] :
             /\ todo' = [todo EXCEPT ![c] = @ \ {t}]
             /\ IF subscriptions[t] = NoList
                THEN UNCHANGED lists
                ELSE lists' = [lists EXCEPT ![t][subscriptions[t]] = RemoveFirst(@, c)]
             /\ Goto(c, IF todo[c] = {t} THEN ret[c] ELSE "disconnect.purge")
    BY <1>7 DEF DisconnectPurge
  <2>2. t \in Topics /\ ret[c] \in {"connect.version", "receipt"}
    BY <1>7, <1>todo
       DEF DisconnectPurge, LocalsOK, LocalsOf, DisconnectLabels, PurgeLabels
  <2>3. pc' \in [Conns -> Labels]
    BY <1>pc, <2>1, <2>2 DEF Goto, Labels
  <2>4. todo' \in [Conns -> SUBSET Topics]
    BY <1>todo, <2>1
  <2>5. subscriptions[t] # NoList => RemoveFirst(lists[t][subscriptions[t]], c) \in Seq(Conns)
    BY <1>subscriptions, <1>lists, <2>2, RemoveFirstFacts
  <2>6. lists' \in [Topics -> [ListIds -> Seq(Conns)]]
    <3>1. CASE subscriptions[t] = NoList
      BY <1>lists, <2>1, <3>1
    <3>2. ASSUME subscriptions[t] # NoList
          PROVE  lists' \in [Topics -> [ListIds -> Seq(Conns)]]
      <4>1. lists' = [lists EXCEPT ![t][subscriptions[t]] = RemoveFirst(@, c)]
        BY <2>1, <3>2
      <4>2. RemoveFirst(lists[t][subscriptions[t]], c) \in Seq(Conns)
        BY <2>5, <3>2
      <4>. QED  BY ONLY <1>lists, <4>1, <4>2
    <3>. QED
      BY <3>1, <3>2
  <2>. QED
    BY <1>7, <2>1, <2>2, <2>3, <2>4, <2>5, <2>6
       DEF TypeOK, DisconnectPurge, registry, handlers, locals, protocolVars
<1>8. ASSUME SubscribeList(c), UNCHANGED <<idClient, sent, shouldTerminate>>
      PROVE  TypeOK'
  <2>1. topic[c] \in Topics
    BY <1>8 DEF SubscribeList, LocalsOK, LocalsOf, TopicLabels
  <2>2. created[topic[c]] \in 0 .. MaxLists
    BY <2>1, <1>created
  <2>3. created[topic[c]] < MaxLists => created[topic[c]] + 1 \in ListIds /\ created[topic[c]] + 1 \in 0 .. MaxLists
    BY <2>2, ConnectionsAssumption DEF ListIds
  <2>4. subscriptions' \in [Topics -> ListIds \cup {NoList}]
    BY <1>subscriptions, <1>8, <2>1, <2>3 DEF SubscribeList
  <2>5. created' \in [Topics -> 0 .. MaxLists]
    BY <1>created, <1>8, <2>1, <2>3 DEF SubscribeList
  <2>6. held' \in [Conns -> ListIds \cup {NoList}]
    BY <1>held, <1>8, <1>subscriptions, <2>1, <2>3 DEF SubscribeList
  <2>7. pc' \in [Conns -> Labels]
    BY <1>pc, <1>8 DEF SubscribeList, Goto, Labels
  <2>. QED
    BY <1>8, <2>1, <2>2, <2>3, <2>4, <2>5, <2>6, <2>7
       DEF TypeOK, SubscribeList, registry, handlers, locals, protocolVars
<1>9. ASSUME SubscribeAdd(c), UNCHANGED <<idClient, sent, shouldTerminate>>
      PROVE  TypeOK'
  <2>1. topic[c] \in Topics /\ held[c] \in ListIds /\ lists[topic[c]][held[c]] \in Seq(Conns)
    BY <1>9, HeldList DEF SubscribeAdd, ListLabels
  <2>2. Append(lists[topic[c]][held[c]], c) \in Seq(Conns)
    BY <2>1
  <2>3. lists' \in [Topics -> [ListIds -> Seq(Conns)]]
    BY <1>lists, <1>9, <2>2 DEF SubscribeAdd
  <2>4. pc' \in [Conns -> Labels]
    BY <1>pc, <1>9 DEF SubscribeAdd, Goto, Labels
  <2>. QED
    BY <1>9, <2>1, <2>2, <2>3, <2>4
       DEF TypeOK, SubscribeAdd, registry, handlers, locals, protocolVars
<1>10. ASSUME SubscribePut(c), UNCHANGED <<idClient, sent, shouldTerminate>>
       PROVE  TypeOK'
  <2>1. frame[c].id \in SubIds
    BY <1>10 DEF SubscribePut, LocalsOK, LocalsOf, SubscribeLabels
  <2>2. clientsTo_subscriptionsId' \in [Conns -> [Topics -> SubIds \cup {None}]]
    BY <1>clientsTo_subscriptionsId, <1>10, <2>1 DEF SubscribePut
  <2>3. pc' \in [Conns -> Labels]
    BY <1>pc, <1>10 DEF SubscribePut, Goto, Labels
  <2>. QED
    BY <1>10, <2>1, <2>2, <2>3
       DEF TypeOK, SubscribePut, registry, handlers, locals, protocolVars
<1>11. ASSUME UnsubscribeGet(c), UNCHANGED <<idClient, sent, shouldTerminate>>
       PROVE  TypeOK'
  <2>1. topic[c] \in Topics
    BY <1>11 DEF UnsubscribeGet, LocalsOK, LocalsOf, TopicLabels
  <2>2. held' \in [Conns -> ListIds \cup {NoList}]
    BY <1>held, <1>11, <2>1, <1>subscriptions DEF UnsubscribeGet
  <2>3. pc' \in [Conns -> Labels]
    BY <1>pc, <1>11 DEF UnsubscribeGet, Goto, Labels
  <2>. QED
    BY <1>11, <2>1, <2>2, <2>3
       DEF TypeOK, UnsubscribeGet, registry, handlers, locals, protocolVars
<1>12. ASSUME UnsubscribeRemove(c), UNCHANGED <<idClient, sent, shouldTerminate>>
       PROVE  TypeOK'
  <2>1. topic[c] \in Topics /\ held[c] \in ListIds /\ lists[topic[c]][held[c]] \in Seq(Conns)
    BY <1>12, HeldList DEF UnsubscribeRemove, ListLabels
  <2>2. RemoveFirst(lists[topic[c]][held[c]], c) \in Seq(Conns)
    BY <2>1, RemoveFirstFacts
  <2>3. lists' \in [Topics -> [ListIds -> Seq(Conns)]]
    BY <1>lists, <1>12, <2>2 DEF UnsubscribeRemove
  <2>4. pc' \in [Conns -> Labels]
    BY <1>pc, <1>12 DEF UnsubscribeRemove, Goto, Labels
  <2>. QED
    BY <1>12, <2>1, <2>2, <2>3, <2>4
       DEF TypeOK, UnsubscribeRemove, registry, handlers, locals, protocolVars
<1>13. ASSUME UnsubscribeIsEmpty(c), UNCHANGED <<idClient, sent, shouldTerminate>>
       PROVE  TypeOK'
  <2>1. pc' \in [Conns -> Labels]
    BY <1>pc, <1>13 DEF UnsubscribeIsEmpty, Goto, Labels
  <2>. QED
    BY <1>13, <2>1
       DEF TypeOK, UnsubscribeIsEmpty, registry, handlers, locals, protocolVars
<1>14. ASSUME UnsubscribeDrop(c), UNCHANGED <<idClient, sent, shouldTerminate>>
       PROVE  TypeOK'
  <2>1. subscriptions' \in [Topics -> ListIds \cup {NoList}]
    BY <1>subscriptions, <1>14 DEF UnsubscribeDrop
  <2>2. pc' \in [Conns -> Labels]
    BY <1>pc, <1>14 DEF UnsubscribeDrop, Goto, Labels
  <2>. QED
    BY <1>14, <2>1, <2>2
       DEF TypeOK, UnsubscribeDrop, registry, handlers, locals, protocolVars
<1>15. ASSUME IsSubscribedGet(c), UNCHANGED <<idClient, sent, shouldTerminate>>
       PROVE  TypeOK'
  <2>1. topic[c] # None => topic[c] \in Topics
    BY <1>topic
  <2>2. held' \in [Conns -> ListIds \cup {NoList}]
    BY <1>held, <1>15, <1>subscriptions, <2>1 DEF IsSubscribedGet
  <2>3. pc' \in [Conns -> Labels]
    BY <1>pc, <1>15 DEF IsSubscribedGet, Goto, Labels
  <2>. QED
    BY <1>15, <2>1, <2>2, <2>3
       DEF TypeOK, IsSubscribedGet, registry, handlers, locals, protocolVars
<1>16. ASSUME IsSubscribedContains(c), UNCHANGED <<idClient, sent, shouldTerminate>>
       PROVE  TypeOK'
  <2>1. pc' \in [Conns -> Labels]
    BY <1>pc, <1>16 DEF IsSubscribedContains, Goto, Labels
  <2>. QED
    BY <1>16, <2>1
       DEF TypeOK, IsSubscribedContains, registry, handlers, locals,
           protocolVars
<1>17. ASSUME CredentialsGet(c), UNCHANGED <<idClient, sent, shouldTerminate>>
       PROVE  TypeOK'
  <2>1. pc' \in [Conns -> Labels]
    BY <1>pc, <1>17 DEF CredentialsGet, Goto, Labels
  <2>. QED
    BY <1>17, <2>1
       DEF TypeOK, CredentialsGet, registry, handlers, locals, protocolVars
<1>18. ASSUME CredentialsEquals(c), UNCHANGED <<idClient, sent, shouldTerminate>>
       PROVE  TypeOK'
  <2>1. pc' \in [Conns -> Labels]
    BY <1>pc, <1>18 DEF CredentialsEquals, Goto, Labels
  <2>. QED
    BY <1>18, <2>1
       DEF TypeOK, CredentialsEquals, registry, handlers, locals, protocolVars
<1>19. ASSUME CredentialsPut(c), UNCHANGED <<idClient, sent, shouldTerminate>>
       PROVE  TypeOK'
  <2>1. frame[c] \in ClientFrame
    BY <1>19 DEF CredentialsPut, LocalsOK, LocalsOf, FrameLabels, Labels
  <2>2. frame[c].passcode # None => frame[c].passcode \in Passcodes
    BY <2>1 DEF ClientFrame
  <2>3. credentials' \in [Logins -> Passcodes \cup {None}]
    BY <1>credentials, <1>19, <2>2 DEF CredentialsPut
  <2>4. pc' \in [Conns -> Labels]
    BY <1>pc, <1>19 DEF CredentialsPut, Goto, Labels
  <2>. QED
    BY <1>19, <2>1, <2>2, <2>3, <2>4
       DEF TypeOK, CredentialsPut, registry, handlers, locals, protocolVars
<1>20. ASSUME ConnectReject(c), UNCHANGED <<idClient, sent>>
       PROVE  TypeOK'
  <2>1. Reject(c, FALSE, "connect.version")
    BY <1>20 DEF ConnectReject
  <2>. QED
    BY <1>20, <2>1, RejectType
<1>21. ASSUME ConnectVersion(c), UNCHANGED <<idClient, sent>>
       PROVE  TypeOK'
  <2>1. CASE Reject(c, FALSE, "receipt")
    BY <1>21, <2>1, RejectType
  <2>2. CASE ~ Reject(c, FALSE, "receipt")
    <3>1. pc' \in [Conns -> Labels]
      BY <1>pc, <1>21, <2>2 DEF ConnectVersion, Goto, Labels
    <3>2. connected' \in [Conns -> BOOLEAN] /\ out' \in [Conns -> Seq(ServerFrame)]
      BY <1>21, <2>2, <1>connected, <1>out, ReplyType, SendOwnType
         DEF ConnectVersion, handlers
    <3>. QED
      BY <1>21, <2>2, <3>1, <3>2
         DEF TypeOK, ConnectVersion, registry, handlers, locals
  <2>. QED
    BY <2>1, <2>2
<1>22. ASSUME HandleDisconnect(c), UNCHANGED <<idClient, sent>>
       PROVE  TypeOK'
  <2>1. ret' \in [Conns -> {"connect.version", "receipt", None}]
    BY <1>ret, <1>22 DEF HandleDisconnect, CallDisconnect
  <2>2. shouldTerminate' \in [Conns -> BOOLEAN]
    BY <1>shouldTerminate, <1>22 DEF HandleDisconnect
  <2>3. pc' \in [Conns -> Labels]
    BY <1>pc, <1>22 DEF HandleDisconnect, Goto, Labels, CallDisconnect
  <2>. QED
    BY <1>22, <2>1, <2>2, <2>3
       DEF TypeOK, HandleDisconnect, registry, handlers, locals, protocolVars
<1>23. ASSUME SendReject(c), UNCHANGED <<idClient, sent>>
       PROVE  TypeOK'
  <2>1. Reject(c, FALSE, "receipt")
    BY <1>23 DEF SendReject
  <2>. QED
    BY <1>23, <2>1, RejectType
<1>24. ASSUME SendHeader(c), UNCHANGED <<idClient, sent>>
       PROVE  TypeOK'
  <2>1. messageIDCounter' \in Nat
    BY <1>messageIDCounter, <1>24 DEF SendHeader
  <2>2. messageId' \in [Conns -> Nat]
    BY <1>messageId, <1>24, <1>messageIDCounter DEF SendHeader
  <2>3. pc' \in [Conns -> Labels]
    BY <1>pc, <1>24 DEF SendHeader, Goto, Labels
  <2>. QED
    BY <1>24, <2>1, <2>2, <2>3
       DEF TypeOK, SendHeader, registry, handlers, locals, protocolVars
<1>25. ASSUME HandleSubscribe(c), UNCHANGED <<idClient, sent>>
       PROVE  TypeOK'
  <2>1. CASE Reject(c, TRUE, "receipt")
    BY <1>25, <2>1, RejectType
  <2>2. CASE ~ Reject(c, TRUE, "receipt")
    <3>1. pc' \in [Conns -> Labels]
      BY <1>pc, <1>25, <2>2 DEF HandleSubscribe, Goto, Labels
    <3>2. connected' \in [Conns -> BOOLEAN] /\ out' \in [Conns -> Seq(ServerFrame)]
      BY <1>25, <2>2, <1>connected, <1>out, ReplyType, SendOwnType
         DEF HandleSubscribe, handlers
    <3>. QED
      BY <1>25, <2>2, <3>1, <3>2
         DEF TypeOK, HandleSubscribe, registry, handlers, locals
  <2>. QED
    BY <2>1, <2>2
<1>26. ASSUME HandleUnsubscribe(c), UNCHANGED <<idClient, sent>>
       PROVE  TypeOK'
  <2>1. CASE Reject(c, TRUE, "receipt")
    BY <1>26, <2>1, RejectType
  <2>2. CASE ~ Reject(c, TRUE, "receipt")
    <3>1. pc' \in [Conns -> Labels]
      BY <1>pc, <1>26, <2>2 DEF HandleUnsubscribe, Goto, Labels
    <3>2. connected' \in [Conns -> BOOLEAN] /\ out' \in [Conns -> Seq(ServerFrame)]
      BY <1>26, <2>2, <1>connected, <1>out, ReplyType, SendOwnType
         DEF HandleUnsubscribe, handlers
    <3>3. topic' \in [Conns -> Topics \cup {None}]
      BY <1>26, <2>2, <1>topic DEF HandleUnsubscribe, locals, TopicsWithId
    <3>. QED
      BY <1>26, <2>2, <3>1, <3>2, <3>3
         DEF TypeOK, HandleUnsubscribe, registry, handlers, locals
  <2>. QED
    BY <2>1, <2>2
<1>27. ASSUME Receipt(c), UNCHANGED <<idClient, sent>>
       PROVE  TypeOK'
  <2>1. connected' \in [Conns -> BOOLEAN] /\ out' \in [Conns -> Seq(ServerFrame)]
    BY <1>27, <1>connected, <1>out, ReplyType, SendOwnType DEF Receipt
  <2>2. ResetLocals(c)
    BY <1>27 DEF Receipt
  <2>3. pc' \in [Conns -> Labels]
    BY <1>pc, <1>27 DEF Receipt, Goto, Labels
  <2>. QED
    BY <1>27, <2>1, <2>2, <2>3, ResetLocalsType DEF TypeOK, Receipt, registry
<1>28. ASSUME Loop(c)
       PROVE  TypeOK'
  <2>1. pc' \in [Conns -> Labels]
    BY <1>pc, <1>28 DEF Loop, Goto, Labels
  <2>. QED
    BY <1>28, <2>1 DEF TypeOK, Loop, registry, handlers, locals, protocolVars
<1>29. ASSUME ReadFrame(c)
       PROVE  TypeOK'
  <2>1. PICK f \in Script[c] :
             /\ frame' = [frame EXCEPT ![c] = f]
             /\ topic' = [topic EXCEPT ![c] = f.destination]
             /\ Goto(c, Handler(f))
    BY <1>29 DEF ReadFrame
  <2>2. f \in ClientFrame
    BY ServerAssumption
  <2>3. f.destination \in Topics \cup {None} /\ f.command \in Commands
    BY <2>2 DEF ClientFrame
  <2>4. Handler(f) \in Labels
    BY <2>3 DEF Handler, Commands, Labels
  <2>5. pc' \in [Conns -> Labels]
    BY <1>pc, <2>1, <2>4 DEF Goto
  <2>6. frame' \in [Conns -> ClientFrame \cup {None}]
    BY <1>frame, <2>1, <2>2
  <2>7. topic' \in [Conns -> Topics \cup {None}]
    BY <1>topic, <2>1, <2>3
  <2>8. sent' \in [Conns -> Nat]
    BY <1>sent, <1>29 DEF ReadFrame
  <2>. QED
    BY <1>29, <2>1, <2>2, <2>3, <2>4, <2>5, <2>6, <2>7, <2>8
       DEF TypeOK, ReadFrame, registry, handlers, locals, protocolVars
<1>30. ASSUME ReadEnd(c)
       PROVE  TypeOK'
  <2>1. pc' \in [Conns -> Labels]
    BY <1>pc, <1>30 DEF ReadEnd, Goto, Labels
  <2>. QED
    BY <1>30, <2>1
       DEF TypeOK, ReadEnd, registry, handlers, locals, protocolVars
<1>31. ASSUME Close(c)
       PROVE  TypeOK'
  <2>1. connected' \in [Conns -> BOOLEAN]
    BY <1>connected, <1>31 DEF Close
  <2>2. sock' \in [Conns -> {"open", "closed"}]
    BY <1>sock, <1>31 DEF Close
  <2>3. ResetLocals(c)
    BY <1>31 DEF Close
  <2>4. pc' \in [Conns -> Labels]
    BY <1>pc, <1>31 DEF Close, Goto, Labels
  <2>. QED
    BY <1>31, <2>1, <2>2, <2>3, <2>4, ResetLocalsType
       DEF TypeOK, Close, registry
<1>32. ASSUME PeerClose(c)
       PROVE  TypeOK'
  <2>1. peer' \in [Conns -> {"open", "closed"}]
    BY <1>peer, <1>32 DEF PeerClose
  <2>. QED
    BY <1>32, <2>1
       DEF TypeOK, PeerClose, registry, handlers, locals, protocolVars
<1>33. ASSUME ClientReceive(c)
       PROVE  TypeOK'
  <2>1. received' \in [Conns -> Nat]
    BY <1>received, <1>33 DEF ClientReceive
  <2>. QED
    BY <1>33, <2>1
       DEF TypeOK, ClientReceive, registry, handlers, locals, protocolVars
<1>34. ASSUME Register(c)
       PROVE  TypeOK'
  <2>1. clients' \in SUBSET Conns
    BY <1>clients, <1>34 DEF Register
  <2>2. pc' \in [Conns -> Labels]
    BY <1>pc, <1>34 DEF Register, Goto, Labels
  <2>. QED
    BY <1>34, <2>1, <2>2
       DEF TypeOK, Register, registry, handlers, locals, protocolVars
<1>35. ASSUME Execute(c)
       PROVE  TypeOK'
  <2>1. idClient' \in 1 .. MaxConns + 1
    BY <1>35, ConnectionsAssumption DEF Execute, Conns
  <2>2. pc' \in [Conns -> Labels]
    BY <1>pc, <1>35 DEF Execute, Goto, Labels
  <2>. QED
    BY <1>35, <2>1, <2>2
       DEF TypeOK, Execute, registry, handlers, locals, protocolVars
<1>. QED
  BY ONLY Step(c), <1>1, <1>2, <1>3, <1>4, <1>5, <1>6, <1>7, <1>8, <1>9, <1>10,
     <1>11, <1>12, <1>13, <1>14, <1>15, <1>16, <1>17, <1>18, <1>19, <1>20,
     <1>21, <1>22, <1>23, <1>24, <1>25, <1>26, <1>27, <1>28, <1>29, <1>30,
     <1>31, <1>32, <1>33, <1>34, <1>35
     DEF Step, ThreadStep, ProtocolStep, ConnectionsStep

-----------------------------------------------------------------------------
(* Locals and lists.                                                       *)

(* A thread works on its own locals.                                       *)
LEMMA OtherThreads ==
    ASSUME TypeOK, NEW c \in Conns, NEW d \in Conns, d # c, Step(c)
    PROVE  SameThread(d)
<1>t. /\ pc \in [Conns -> Labels]
      /\ frame \in [Conns -> ClientFrame \cup {None}]
      /\ topic \in [Conns -> Topics \cup {None}]
      /\ held \in [Conns -> ListIds \cup {NoList}]
      /\ receivers \in [Conns -> Seq(Conns)]
      /\ todo \in [Conns -> SUBSET Topics]
      /\ ret \in [Conns -> {"connect.version", "receipt", None}]
      /\ shouldTerminate \in [Conns -> BOOLEAN]
  BY DEF TypeOK
<1>. USE <1>t DEF SameThread, Goto, locals, protocolVars
<1>1. CASE PublishGet(c) /\ UNCHANGED <<idClient, sent, shouldTerminate>>
  BY <1>1 DEF PublishGet
<1>2. CASE PublishSnapshot(c) /\ UNCHANGED <<idClient, sent, shouldTerminate>>
  BY <1>2 DEF PublishSnapshot
<1>3. CASE PublishLookup(c) /\ UNCHANGED <<idClient, sent, shouldTerminate>>
  BY <1>3 DEF PublishLookup
<1>4. CASE PublishWrite(c) /\ UNCHANGED <<idClient, sent, shouldTerminate>>
  BY <1>4 DEF PublishWrite
<1>5. CASE DisconnectRemove(c) /\ UNCHANGED <<idClient, sent, shouldTerminate>>
  BY <1>5 DEF DisconnectRemove
<1>6. CASE DisconnectClose(c) /\ UNCHANGED <<idClient, sent, shouldTerminate>>
  BY <1>6 DEF DisconnectClose
<1>7. CASE DisconnectPurge(c) /\ UNCHANGED <<idClient, sent, shouldTerminate>>
  BY <1>7 DEF DisconnectPurge
<1>8. CASE SubscribeList(c) /\ UNCHANGED <<idClient, sent, shouldTerminate>>
  BY <1>8 DEF SubscribeList
<1>9. CASE SubscribeAdd(c) /\ UNCHANGED <<idClient, sent, shouldTerminate>>
  BY <1>9 DEF SubscribeAdd
<1>10. CASE SubscribePut(c) /\ UNCHANGED <<idClient, sent, shouldTerminate>>
  BY <1>10 DEF SubscribePut
<1>11. CASE UnsubscribeGet(c) /\ UNCHANGED <<idClient, sent, shouldTerminate>>
  BY <1>11 DEF UnsubscribeGet
<1>12. CASE UnsubscribeRemove(c) /\ UNCHANGED <<idClient, sent, shouldTerminate>>
  BY <1>12 DEF UnsubscribeRemove
<1>13. CASE UnsubscribeIsEmpty(c) /\ UNCHANGED <<idClient, sent, shouldTerminate>>
  BY <1>13 DEF UnsubscribeIsEmpty
<1>14. CASE UnsubscribeDrop(c) /\ UNCHANGED <<idClient, sent, shouldTerminate>>
  BY <1>14 DEF UnsubscribeDrop
<1>15. CASE IsSubscribedGet(c) /\ UNCHANGED <<idClient, sent, shouldTerminate>>
  BY <1>15 DEF IsSubscribedGet
<1>16. CASE IsSubscribedContains(c) /\ UNCHANGED <<idClient, sent, shouldTerminate>>
  BY <1>16 DEF IsSubscribedContains
<1>17. CASE CredentialsGet(c) /\ UNCHANGED <<idClient, sent, shouldTerminate>>
  BY <1>17 DEF CredentialsGet
<1>18. CASE CredentialsEquals(c) /\ UNCHANGED <<idClient, sent, shouldTerminate>>
  BY <1>18 DEF CredentialsEquals
<1>19. CASE CredentialsPut(c) /\ UNCHANGED <<idClient, sent, shouldTerminate>>
  BY <1>19 DEF CredentialsPut
<1>20. CASE ConnectReject(c) /\ UNCHANGED <<idClient, sent>>
  BY <1>20 DEF ConnectReject, CallDisconnect, Reject
<1>21. CASE ConnectVersion(c) /\ UNCHANGED <<idClient, sent>>
  BY <1>21 DEF ConnectVersion, CallDisconnect, Reject
<1>22. CASE HandleDisconnect(c) /\ UNCHANGED <<idClient, sent>>
  BY <1>22 DEF HandleDisconnect, CallDisconnect
<1>23. CASE SendReject(c) /\ UNCHANGED <<idClient, sent>>
  BY <1>23 DEF SendReject, CallDisconnect, Reject
<1>24. CASE SendHeader(c) /\ UNCHANGED <<idClient, sent>>
  BY <1>24 DEF SendHeader
<1>25. CASE HandleSubscribe(c) /\ UNCHANGED <<idClient, sent>>
  BY <1>25 DEF HandleSubscribe, CallDisconnect, Reject
<1>26. CASE HandleUnsubscribe(c) /\ UNCHANGED <<idClient, sent>>
  BY <1>26 DEF HandleUnsubscribe, CallDisconnect, Reject
<1>27. CASE Receipt(c) /\ UNCHANGED <<idClient, sent>>
  BY <1>27 DEF Receipt, ResetLocals
<1>28. CASE Loop(c)
  BY <1>28 DEF Loop
<1>29. CASE ReadFrame(c)
  BY <1>29 DEF ReadFrame
<1>30. CASE ReadEnd(c)
  BY <1>30 DEF ReadEnd
<1>31. CASE Close(c)
  BY <1>31 DEF Close, ResetLocals
<1>32. CASE PeerClose(c)
  BY <1>32 DEF PeerClose
<1>33. CASE ClientReceive(c)
  BY <1>33 DEF ClientReceive
<1>34. CASE Register(c)
  BY <1>34 DEF Register
<1>35. CASE Execute(c)
  BY <1>35 DEF Execute
<1>. QED
  BY ONLY Step(c), <1>1, <1>2, <1>3, <1>4, <1>5, <1>6, <1>7, <1>8, <1>9, <1>10,
     <1>11, <1>12, <1>13, <1>14, <1>15, <1>16, <1>17, <1>18, <1>19, <1>20,
     <1>21, <1>22, <1>23, <1>24, <1>25, <1>26, <1>27, <1>28, <1>29, <1>30,
     <1>31, <1>32, <1>33, <1>34, <1>35
     DEF Step, ThreadStep, ProtocolStep, ConnectionsStep

(* A list the map holds was created.                                       *)
LEMMA MapList ==
    ASSUME TypeOK, ListsOK, NEW t \in Topics, subscriptions[t] # NoList
    PROVE  subscriptions[t] \in 1 .. created[t]
<1>1. subscriptions[t] \in ListIds /\ created[t] \in Nat
  BY ConnectionsAssumption DEF TypeOK
<1>. QED
  BY <1>1 DEF ListsOK, ListIds

(* A thread's own step leaves it the locals its next step needs.           *)
LEMMA OwnLocals ==
    ASSUME TypeOK, LocalsOK, ListsOK, NEW c \in Conns, Step(c)
    PROVE  LocalsOf(c)'
<1>own. LocalsOf(c)
  BY DEF LocalsOK
<1>pc. pc \in [Conns -> Labels]
  BY DEF TypeOK
<1>created. created \in [Topics -> 0 .. MaxLists]
  BY DEF TypeOK
<1>topic. topic \in [Conns -> Topics \cup {None}]
  BY DEF TypeOK
<1>ret. ret \in [Conns -> {"connect.version", "receipt", None}]
  BY DEF TypeOK
<1>held. held \in [Conns -> ListIds \cup {NoList}]
  BY DEF TypeOK
<1>frame. frame \in [Conns -> ClientFrame \cup {None}]
  BY DEF TypeOK
<1>todo. todo \in [Conns -> SUBSET Topics]
  BY DEF TypeOK
<1>receivers. receivers \in [Conns -> Seq(Conns)]
  BY DEF TypeOK
<1>. USE <1>own, <1>pc
     DEF LocalsOf, FrameLabels, TopicLabels, ListLabels, SubscribeLabels,
        DisconnectLabels, PurgeLabels, Labels, Goto, locals, registry, protocolVars
<1>1. CASE PublishGet(c) /\ UNCHANGED <<idClient, sent, shouldTerminate>>
  BY <1>1, MapList, <1>held DEF PublishGet
<1>2. CASE PublishSnapshot(c) /\ UNCHANGED <<idClient, sent, shouldTerminate>>
  BY <1>2 DEF PublishSnapshot
<1>3. CASE PublishLookup(c) /\ UNCHANGED <<idClient, sent, shouldTerminate>>
  BY <1>3 DEF PublishLookup
<1>4. CASE PublishWrite(c) /\ UNCHANGED <<idClient, sent, shouldTerminate>>
  BY <1>4 DEF PublishWrite
<1>5. CASE DisconnectRemove(c) /\ UNCHANGED <<idClient, sent, shouldTerminate>>
  BY <1>5 DEF DisconnectRemove
<1>6. CASE DisconnectClose(c) /\ UNCHANGED <<idClient, sent, shouldTerminate>>
  BY <1>6 DEF DisconnectClose
<1>7. CASE DisconnectPurge(c) /\ UNCHANGED <<idClient, sent, shouldTerminate>>
  BY <1>7, <1>todo, <1>ret DEF DisconnectPurge
<1>8. CASE SubscribeList(c) /\ UNCHANGED <<idClient, sent, shouldTerminate>>
  <2>1. topic[c] \in Topics /\ created[topic[c]] \in Nat
    BY <1>8, <1>created, ConnectionsAssumption DEF SubscribeList
  <2>2. CASE subscriptions[topic[c]] # NoList
    BY <1>8, <1>held, <2>1, <2>2, MapList DEF SubscribeList
  <2>3. CASE subscriptions[topic[c]] = NoList
    BY <1>8, <1>held, <1>created, <2>1, <2>3 DEF SubscribeList
  <2>. QED
    BY <2>2, <2>3
<1>9. CASE SubscribeAdd(c) /\ UNCHANGED <<idClient, sent, shouldTerminate>>
  BY <1>9 DEF SubscribeAdd
<1>10. CASE SubscribePut(c) /\ UNCHANGED <<idClient, sent, shouldTerminate>>
  BY <1>10 DEF SubscribePut
<1>11. CASE UnsubscribeGet(c) /\ UNCHANGED <<idClient, sent, shouldTerminate>>
  BY <1>11, MapList, <1>held DEF UnsubscribeGet
<1>12. CASE UnsubscribeRemove(c) /\ UNCHANGED <<idClient, sent, shouldTerminate>>
  BY <1>12 DEF UnsubscribeRemove
<1>13. CASE UnsubscribeIsEmpty(c) /\ UNCHANGED <<idClient, sent, shouldTerminate>>
  BY <1>13 DEF UnsubscribeIsEmpty
<1>14. CASE UnsubscribeDrop(c) /\ UNCHANGED <<idClient, sent, shouldTerminate>>
  BY <1>14 DEF UnsubscribeDrop
<1>15. CASE IsSubscribedGet(c) /\ UNCHANGED <<idClient, sent, shouldTerminate>>
  BY <1>15, MapList, <1>held, <1>topic DEF IsSubscribedGet
<1>16. CASE IsSubscribedContains(c) /\ UNCHANGED <<idClient, sent, shouldTerminate>>
  BY <1>16 DEF IsSubscribedContains
<1>17. CASE CredentialsGet(c) /\ UNCHANGED <<idClient, sent, shouldTerminate>>
  BY <1>17 DEF CredentialsGet
<1>18. CASE CredentialsEquals(c) /\ UNCHANGED <<idClient, sent, shouldTerminate>>
  BY <1>18 DEF CredentialsEquals
<1>19. CASE CredentialsPut(c) /\ UNCHANGED <<idClient, sent, shouldTerminate>>
  BY <1>19 DEF CredentialsPut
<1>20. CASE ConnectReject(c) /\ UNCHANGED <<idClient, sent>>
  BY <1>20, <1>ret DEF ConnectReject, Reject, CallDisconnect
<1>21. CASE ConnectVersion(c) /\ UNCHANGED <<idClient, sent>>
  <2>0. pc[c] = "connect.version"
    BY <1>21 DEF ConnectVersion
  <2>1. CASE Goto(c, "closing") /\ UNCHANGED <<clients, locals, shouldTerminate>>
    BY <1>ret, <2>0, <2>1
  <2>2. CASE Reject(c, FALSE, "receipt")
    BY <1>ret, <2>0, <2>2 DEF Reject, CallDisconnect
  <2>3. CASE Goto(c, "receipt") /\ UNCHANGED <<clients, locals, shouldTerminate>>
    BY <1>ret, <2>0, <2>3
  <2>. QED
    BY <1>21, <2>1, <2>2, <2>3 DEF ConnectVersion
<1>22. CASE HandleDisconnect(c) /\ UNCHANGED <<idClient, sent>>
  BY <1>22, <1>ret DEF HandleDisconnect, CallDisconnect
<1>23. CASE SendReject(c) /\ UNCHANGED <<idClient, sent>>
  BY <1>23, <1>ret DEF SendReject, Reject, CallDisconnect
<1>24. CASE SendHeader(c) /\ UNCHANGED <<idClient, sent>>
  BY <1>24 DEF SendHeader
<1>25. CASE HandleSubscribe(c) /\ UNCHANGED <<idClient, sent>>
  <2>1. CASE Reject(c, TRUE, "receipt")
    BY <1>25, <1>ret, <2>1 DEF HandleSubscribe, Reject, CallDisconnect
  <2>2. CASE Goto(c, "receipt") /\ UNCHANGED locals
    BY <1>25, <2>2 DEF HandleSubscribe
  <2>3. CASE /\ frame[c].destination # None /\ ValidId(frame[c])
             /\ Goto(c, "subscribe.list") /\ UNCHANGED locals
    BY <1>25, <1>topic, <2>3 DEF HandleSubscribe, ValidId, ClientFrame
  <2>. QED
    BY <1>25, <2>1, <2>2, <2>3 DEF HandleSubscribe
<1>26. CASE HandleUnsubscribe(c) /\ UNCHANGED <<idClient, sent>>
  <2>1. CASE Reject(c, TRUE, "receipt")
    BY <1>26, <1>ret, <2>1 DEF HandleUnsubscribe, Reject, CallDisconnect
  <2>2. CASE Goto(c, "receipt") /\ UNCHANGED locals
    BY <1>26, <2>2 DEF HandleUnsubscribe
  <2>3. CASE /\ \E t \in TopicsWithId(c, frame[c].id) : topic' = [topic EXCEPT ![c] = t]
             /\ Goto(c, "unsubscribe.get")
             /\ UNCHANGED <<frame, held, receivers, todo, ret>>
    BY <1>26, <1>topic, <2>3 DEF HandleUnsubscribe, TopicsWithId
  <2>. QED
    BY <1>26, <2>1, <2>2, <2>3 DEF HandleUnsubscribe
<1>27. CASE Receipt(c) /\ UNCHANGED <<idClient, sent>>
  BY <1>27 DEF Receipt, ResetLocals
<1>28. CASE Loop(c)
  BY <1>28 DEF Loop
<1>29. CASE ReadFrame(c)
  BY <1>29, <1>frame, <1>topic, ServerAssumption
     DEF ReadFrame, Handler, ClientFrame, Commands
<1>30. CASE ReadEnd(c)
  BY <1>30 DEF ReadEnd
<1>31. CASE Close(c)
  BY <1>31 DEF Close, ResetLocals
<1>32. CASE PeerClose(c)
  BY <1>32 DEF PeerClose
<1>33. CASE ClientReceive(c)
  BY <1>33 DEF ClientReceive
<1>34. CASE Register(c)
  BY <1>34 DEF Register
<1>35. CASE Execute(c)
  BY <1>35 DEF Execute
<1>. QED
  BY ONLY Step(c), <1>1, <1>2, <1>3, <1>4, <1>5, <1>6, <1>7, <1>8, <1>9, <1>10,
     <1>11, <1>12, <1>13, <1>14, <1>15, <1>16, <1>17, <1>18, <1>19, <1>20,
     <1>21, <1>22, <1>23, <1>24, <1>25, <1>26, <1>27, <1>28, <1>29, <1>30,
     <1>31, <1>32, <1>33, <1>34, <1>35
     DEF Step, ThreadStep, ProtocolStep, ConnectionsStep

(* Who writes the maps and lists the threads share.                        *)
LEMMA Writers ==
    ASSUME NEW c \in Conns, Step(c)
    PROVE  /\ UNCHANGED clients \/ DisconnectRemove(c) \/ Register(c)
           /\ UNCHANGED subscriptions \/ SubscribeList(c) \/ UnsubscribeDrop(c)
           /\ UNCHANGED created \/ SubscribeList(c)
           /\ \/ UNCHANGED lists
              \/ DisconnectPurge(c) \/ SubscribeAdd(c) \/ UnsubscribeRemove(c)
           /\ UNCHANGED clientsTo_subscriptionsId \/ SubscribePut(c)
<1>1. CASE ConnectionsStep(c)
  BY <1>1
     DEF ConnectionsStep, registry, PublishGet, PublishSnapshot, PublishLookup, PublishWrite,
         DisconnectRemove, DisconnectClose, DisconnectPurge,
         SubscribeList, SubscribeAdd, SubscribePut,
         UnsubscribeGet, UnsubscribeRemove, UnsubscribeIsEmpty, UnsubscribeDrop,
         IsSubscribedGet, IsSubscribedContains,
         CredentialsGet, CredentialsEquals, CredentialsPut
<1>2. CASE \/ ConnectReject(c) \/ ConnectVersion(c) \/ HandleDisconnect(c) \/ SendReject(c)
           \/ SendHeader(c) \/ HandleSubscribe(c) \/ HandleUnsubscribe(c) \/ Receipt(c)
  BY <1>2
     DEF registry, ConnectReject, ConnectVersion, HandleDisconnect, SendReject, SendHeader,
         HandleSubscribe, HandleUnsubscribe, Receipt, Reject
<1>3. CASE \/ Loop(c) \/ ReadFrame(c) \/ ReadEnd(c) \/ Close(c)
           \/ Register(c) \/ Execute(c) \/ PeerClose(c) \/ ClientReceive(c)
  BY <1>3
     DEF registry, protocolVars, Loop, ReadFrame, ReadEnd, Close, Register, Execute,
         PeerClose, ClientReceive
<1>. QED
  BY <1>1, <1>2, <1>3 DEF Step, ThreadStep, ProtocolStep

(* The locals invariant is kept: by the thread that steps, and for the     *)
(* others because lists are never uncreated.                               *)
LEMMA LocalsStep ==
    ASSUME TypeOK, LocalsOK, ListsOK, NEW c \in Conns, Step(c)
    PROVE  LocalsOK'
<1>1. \A t \in Topics : created[t] \in Nat /\ created'[t] \in Nat /\ created[t] =< created'[t]
  <2>1. created \in [Topics -> 0 .. MaxLists] /\ MaxLists \in Nat
    BY ConnectionsAssumption DEF TypeOK
  <2>2. CASE UNCHANGED created
    BY <2>1, <2>2
  <2>3. CASE SubscribeList(c)
    BY <2>1, <2>3 DEF SubscribeList
  <2>. QED
    BY <2>2, <2>3, Writers
<1>2. ASSUME NEW d \in Conns, d # c
      PROVE  LocalsOf(d)'
  <2>1. LocalsOf(d)
    BY DEF LocalsOK
  <2>2. SameThread(d)
    BY <1>2, OtherThreads
  <2>3. pc[d] \in ListLabels => held[d] \in 1 .. created'[topic[d]]
    <3>. SUFFICES ASSUME pc[d] \in ListLabels
                  PROVE  held[d] \in 1 .. created'[topic[d]]
      OBVIOUS
    <3>1. topic[d] \in Topics /\ held[d] \in 1 .. created[topic[d]]
      BY <2>1 DEF LocalsOf, TopicLabels
    <3>. QED
      BY <1>1, <3>1
  <2>. QED
    BY <2>1, <2>2, <2>3 DEF LocalsOf, SameThread
<1>. QED
  BY <1>2, OwnLocals DEF LocalsOK

(* A list that is not created yet stays empty and out of the map: a thread *)
(* only works on lists it found in the map.                                *)
LEMMA ListsStep ==
    ASSUME TypeOK, LocalsOK, ListsOK, NEW c \in Conns, Step(c)
    PROVE  ListsOK'
<1>subscriptions. subscriptions \in [Topics -> ListIds \cup {NoList}]
  BY DEF TypeOK
<1>created. created \in [Topics -> 0 .. MaxLists] /\ MaxLists \in Nat
  BY ConnectionsAssumption DEF TypeOK
<1>lists. lists \in [Topics -> [ListIds -> Seq(Conns)]]
  BY DEF TypeOK
<1>1. CASE SubscribeList(c)
  <2>1. topic[c] \in Topics
    BY <1>1 DEF SubscribeList, LocalsOK, LocalsOf, TopicLabels, SubscribeLabels
  <2>2. /\ \A t \in Topics : created[t] \in Nat /\ created'[t] \in Nat /\ created[t] =< created'[t]
        /\ UNCHANGED lists
    BY <1>1, <1>created, <2>1 DEF SubscribeList
  <2>3. \A t \in Topics : subscriptions'[t] <= created'[t]
    <3>1. CASE subscriptions[topic[c]] # NoList
      BY <1>1, <3>1 DEF SubscribeList, ListsOK
    <3>2. CASE subscriptions[topic[c]] = NoList
      BY <1>1, <1>created, <1>subscriptions, <2>1, <3>2
         DEF SubscribeList, ListsOK
    <3>. QED
      BY <3>1, <3>2
  <2>4. ASSUME NEW t \in Topics, NEW g \in ListIds, g > created'[t]
        PROVE  lists'[t][g] = <<>>
    BY <2>2, <2>4 DEF ListsOK, ListIds
  <2>. QED
    BY <2>3, <2>4 DEF ListsOK
<1>2. CASE UnsubscribeDrop(c)
  BY <1>2, <1>subscriptions, <1>created DEF UnsubscribeDrop, ListsOK, NoList
<1>3. ASSUME NEW t \in Topics, NEW h \in 1 .. created[t], NEW s,
             lists' = [lists EXCEPT ![t][h] = s], UNCHANGED <<subscriptions, created>>
      PROVE  ListsOK'
  BY <1>3, <1>lists, <1>created DEF ListsOK, ListIds
<1>4. CASE DisconnectPurge(c)
  <2>1. PICK t \in todo[c] :
           IF subscriptions[t] = NoList
           THEN UNCHANGED lists
           ELSE lists' = [lists EXCEPT ![t][subscriptions[t]] = RemoveFirst(@, c)]
    BY <1>4 DEF DisconnectPurge
  <2>2. t \in Topics
    BY DEF TypeOK
  <2>3. UNCHANGED <<subscriptions, created>>
    BY <1>4 DEF DisconnectPurge
  <2>4. CASE subscriptions[t] = NoList
    BY <2>1, <2>3, <2>4 DEF ListsOK
  <2>5. CASE subscriptions[t] # NoList
    BY <2>1, <2>2, <2>3, <2>5, <1>3, MapList
  <2>. QED
    BY <2>4, <2>5
<1>5. CASE SubscribeAdd(c) \/ UnsubscribeRemove(c)
  <2>1. topic[c] \in Topics /\ held[c] \in 1 .. created[topic[c]]
    BY <1>5
       DEF SubscribeAdd, UnsubscribeRemove, LocalsOK, LocalsOf, TopicLabels,
           ListLabels
  <2>2. UNCHANGED <<subscriptions, created>>
    BY <1>5 DEF SubscribeAdd, UnsubscribeRemove
  <2>3. CASE SubscribeAdd(c)
    BY <2>1, <2>2, <2>3, <1>3 DEF SubscribeAdd
  <2>4. CASE UnsubscribeRemove(c)
    BY <2>1, <2>2, <2>4, <1>3 DEF UnsubscribeRemove
  <2>. QED
    BY <1>5, <2>3, <2>4
<1>6. CASE UNCHANGED <<subscriptions, created, lists>>
  BY <1>6 DEF ListsOK
<1>. QED
  BY <1>1, <1>2, <1>4, <1>5, <1>6, Writers

-----------------------------------------------------------------------------
(* Records of subscriptions, and lists without duplicates.                 *)

(* What a thread does at the labels these invariants speak of.             *)
LEMMA OwnSteps ==
    ASSUME TypeOK, LocalsOK, NEW c \in Conns, Step(c)
    PROVE  /\ pc[c] = "subscribe.put" => SubscribePut(c) \/ UNCHANGED <<pc, topic>>
           /\ pc'[c] \in SubscribeLabels =>
                 \/ HandleSubscribe(c) /\ ~AlreadySubscribed(c, topic[c])
                 \/ SubscribeList(c) \/ SubscribeAdd(c)
                 \/ UNCHANGED <<pc, topic>>
           /\ pc'[c] = "send.header" => IsSubscribedContains(c) \/ UNCHANGED
              <<pc, topic>>
<1>pc. pc \in [Conns -> Labels]
  BY DEF TypeOK
<1>. USE <1>pc DEF Goto, SubscribeLabels
<1>1. CASE PublishGet(c) \/ PublishSnapshot(c) \/ PublishLookup(c) \/ PublishWrite(c)
  BY <1>1 DEF PublishGet, PublishSnapshot, PublishLookup, PublishWrite
<1>2. CASE DisconnectRemove(c) \/ DisconnectClose(c)
  BY <1>2 DEF DisconnectRemove, DisconnectClose
<1>3. CASE DisconnectPurge(c)
  BY <1>3
     DEF DisconnectPurge, LocalsOK, LocalsOf, DisconnectLabels, PurgeLabels
<1>4. CASE SubscribeList(c) \/ SubscribeAdd(c) \/ SubscribePut(c)
  BY <1>4 DEF SubscribeList, SubscribeAdd, SubscribePut
<1>5. CASE UnsubscribeGet(c) \/ UnsubscribeRemove(c) \/ UnsubscribeIsEmpty(c) \/ UnsubscribeDrop(c)
  BY <1>5
     DEF UnsubscribeGet, UnsubscribeRemove, UnsubscribeIsEmpty, UnsubscribeDrop
<1>6. CASE IsSubscribedGet(c) \/ IsSubscribedContains(c)
  BY <1>6 DEF IsSubscribedGet, IsSubscribedContains
<1>7. CASE CredentialsGet(c) \/ CredentialsEquals(c) \/ CredentialsPut(c)
  BY <1>7 DEF CredentialsGet, CredentialsEquals, CredentialsPut
<1>8. CASE ConnectReject(c) \/ ConnectVersion(c) \/ HandleDisconnect(c) \/ SendReject(c)
  BY <1>8
     DEF ConnectReject, ConnectVersion, HandleDisconnect, SendReject, Reject,
         CallDisconnect
<1>9. CASE SendHeader(c) \/ HandleSubscribe(c) \/ HandleUnsubscribe(c) \/ Receipt(c)
  BY <1>9
     DEF SendHeader, HandleSubscribe, HandleUnsubscribe, Receipt, Reject,
         CallDisconnect, locals
<1>10. CASE Loop(c) \/ ReadEnd(c) \/ Close(c)
  BY <1>10 DEF Loop, ReadEnd, Close
<1>11. CASE ReadFrame(c)
  <2>1. \A f \in Script[c] : f.command \in Commands
    BY ServerAssumption DEF ClientFrame
  <2>2. \A f \in Script[c] :
           Handler(f) \notin SubscribeLabels \cup {"subscribe.put", "send.header"}
    BY <2>1 DEF Handler, Commands
  <2>3. \E f \in Script[c] : pc'[c] = Handler(f)
    BY <1>11 DEF ReadFrame
  <2>. QED
    BY <1>11, <2>2, <2>3 DEF ReadFrame
<1>12. CASE Register(c) \/ Execute(c) \/ PeerClose(c) \/ ClientReceive(c)
  BY <1>12
     DEF Register, Execute, PeerClose, ClientReceive, protocolVars, locals
<1>. QED
  BY <1>1, <1>2, <1>3, <1>4, <1>5, <1>6, <1>7, <1>8, <1>9, <1>10, <1>11,
     <1>12
     DEF Step, ThreadStep, ProtocolStep, ConnectionsStep

(* A record of a subscription is kept: no step takes one away.             *)
LEMMA RecordedStays ==
    ASSUME TypeOK, LocalsOK, NEW c \in Conns, Step(c),
           NEW d \in Conns, NEW t \in Topics, Recorded(d, t)
    PROVE  Recorded(d, t)'
<1>1. clientsTo_subscriptionsId \in [Conns -> [Topics -> SubIds \cup {None}]]
  BY DEF TypeOK
<1>2. CASE SubscribePut(c)
  <2>1. frame[c].id \in SubIds /\ frame[c].id # None
    BY <1>2, ConnectionsAssumption
       DEF SubscribePut, LocalsOK, LocalsOf, SubscribeLabels
  <2>2. clientsTo_subscriptionsId' =
            [clientsTo_subscriptionsId EXCEPT ![c][topic[c]] = frame[c].id]
    BY <1>2 DEF SubscribePut
  <2>3. CASE clientsTo_subscriptionsId[d][t] # None
    BY <1>1, <2>1, <2>2, <2>3 DEF Recorded
  <2>4. CASE pc[d] = "subscribe.put" /\ topic[d] = t /\ d = c
    BY <1>1, <2>1, <2>2, <2>4 DEF Recorded
  <2>5. CASE pc[d] = "subscribe.put" /\ topic[d] = t /\ d # c
    BY <2>5, OtherThreads DEF Recorded, SameThread
  <2>. QED
    BY <2>3, <2>4, <2>5 DEF Recorded
<1>3. CASE UNCHANGED clientsTo_subscriptionsId /\ ~SubscribePut(c)
  <2>1. pc[d] = "subscribe.put" => pc'[d] = "subscribe.put" /\ topic'[d] = topic[d]
    <3>1. CASE d = c
      BY <1>3, <3>1, OwnSteps
    <3>2. CASE d # c
      BY <3>2, OtherThreads DEF SameThread
    <3>. QED
      BY <3>1, <3>2
  <2>. QED
    BY <1>3, <2>1 DEF Recorded
<1>. QED
  BY <1>2, <1>3, Writers

(* How the subscriber lists change: one element appended by subscribe, or  *)
(* one removed.                                                            *)
LEMMA ListChange ==
    ASSUME TypeOK, LocalsOK, ListsOK, NEW c \in Conns, Step(c),
           NEW t \in Topics, NEW g \in ListIds
    PROVE  \/ lists'[t][g] = lists[t][g]
           \/ lists'[t][g] = RemoveFirst(lists[t][g], c)
           \/ /\ SubscribeAdd(c) /\ t = topic[c] /\ g = held[c]
              /\ lists'[t][g] = Append(lists[t][g], c)
<1>1. lists \in [Topics -> [ListIds -> Seq(Conns)]]
  BY DEF TypeOK
<1>2. CASE DisconnectPurge(c)
  <2>1. PICK u \in todo[c] :
           IF subscriptions[u] = NoList
           THEN UNCHANGED lists
           ELSE lists' = [lists EXCEPT ![u][subscriptions[u]] = RemoveFirst(@, c)]
    BY <1>2 DEF DisconnectPurge
  <2>2. CASE subscriptions[u] = NoList
    BY <2>1, <2>2
  <2>3. CASE subscriptions[u] # NoList
    <3>1. lists' = [lists EXCEPT ![u][subscriptions[u]] = RemoveFirst(@, c)]
      BY <2>1, <2>3
    <3>. QED
      BY ONLY <1>1, <3>1, t \in Topics, g \in ListIds
  <2>. QED
    BY <2>2, <2>3
<1>3. CASE SubscribeAdd(c)
  <2>1. lists' = [lists EXCEPT ![topic[c]][held[c]] = Append(@, c)]
    BY <1>3 DEF SubscribeAdd
  <2>. QED
    BY <1>1, <1>3, <2>1
<1>4. CASE UnsubscribeRemove(c)
  <2>1. lists' = [lists EXCEPT ![topic[c]][held[c]] = RemoveFirst(@, c)]
    BY <1>4 DEF UnsubscribeRemove
  <2>. QED
    BY <1>1, <2>1
<1>. QED
  BY <1>2, <1>3, <1>4, Writers

(* The record of a subscription precedes the entry in a list: a list only  *)
(* ever holds connections that have a record or are about to write it.     *)
LEMMA RecordsStep ==
    ASSUME TypeOK, LocalsOK, ListsOK, RecordsOK, NEW c \in Conns, Step(c)
    PROVE  RecordsOK'
<1>1. clientsTo_subscriptionsId \in [Conns -> [Topics -> SubIds \cup {None}]]
  BY DEF TypeOK
<1>2. ASSUME NEW d \in Conns, pc'[d] \in SubscribeLabels
      PROVE  clientsTo_subscriptionsId'[d][topic'[d]] = None
  <2>1. CASE d # c
    <3>1. SameThread(d)
      BY <2>1, OtherThreads
    <3>2. clientsTo_subscriptionsId[d][topic[d]] = None
      BY <1>2, <3>1 DEF RecordsOK, SameThread
    <3>3. clientsTo_subscriptionsId'[d] = clientsTo_subscriptionsId[d]
      BY <1>1, <2>1, Writers DEF SubscribePut
    <3>. QED
      BY <3>1, <3>2, <3>3 DEF SameThread
  <2>2. CASE d = c /\ HandleSubscribe(c) /\ ~AlreadySubscribed(c, topic[c])
    <3>1. UNCHANGED <<clientsTo_subscriptionsId, topic>>
      BY <2>2 DEF HandleSubscribe, Reject, registry, locals
    <3>. QED
      BY <2>2, <3>1 DEF AlreadySubscribed
  <2>3. CASE d = c /\ (SubscribeList(c) \/ SubscribeAdd(c))
    <3>1. UNCHANGED <<clientsTo_subscriptionsId, topic>> /\ pc[c] \in SubscribeLabels
      BY <2>3 DEF SubscribeList, SubscribeAdd, locals, SubscribeLabels
    <3>. QED
      BY <2>3, <3>1 DEF RecordsOK
  <2>4. CASE d = c /\ UNCHANGED <<pc, topic>>
    <3>1. ~SubscribePut(c)
      BY <2>4 DEF SubscribePut, Goto, TypeOK
    <3>. QED
      BY <1>2, <2>4, <3>1, Writers DEF RecordsOK
  <2>. QED
    BY <1>2, <2>1, <2>2, <2>3, <2>4, OwnSteps
<1>3. ASSUME NEW t \in Topics, NEW g \in ListIds, NEW d \in Range(lists'[t][g])
      PROVE  Recorded(d, t)'
  <2>1. lists[t][g] \in Seq(Conns)
    BY DEF TypeOK
  <2>2. \A e \in Range(lists[t][g]) : e \in Conns /\ Recorded(e, t)
    BY <2>1, LenProperties DEF RecordsOK, Range
  <2>3. CASE d \in Range(lists[t][g])
    BY <2>2, <2>3, RecordedStays
  <2>4. CASE d \notin Range(lists[t][g])
    <3>1. /\ Range(RemoveFirst(lists[t][g], c)) \subseteq Range(lists[t][g])
          /\ Range(Append(lists[t][g], c)) = Range(lists[t][g]) \cup {c}
      BY <2>1, RemoveFirstFacts, AppendFacts
    <3>2. \/ lists'[t][g] = lists[t][g]
          \/ lists'[t][g] = RemoveFirst(lists[t][g], c)
          \/ /\ SubscribeAdd(c) /\ t = topic[c]
             /\ lists'[t][g] = Append(lists[t][g], c)
      BY ListChange
    <3>3. SubscribeAdd(c) /\ t = topic[c] /\ d = c
      BY ONLY <1>3, <2>4, <3>1, <3>2
    <3>. QED
      BY <3>3 DEF SubscribeAdd, Recorded, Goto, locals, TypeOK
  <2>. QED
    BY <2>3, <2>4
<1>. QED
  BY <1>2, <1>3 DEF RecordsOK

(* subscribe adds a connection only to a list that does not hold it,       *)
(* because the connection has no record for the topic yet.                 *)
LEMMA NoDuplicateStep ==
    ASSUME TypeOK, LocalsOK, ListsOK, RecordsOK, NoDuplicateSubscriber,
           NEW c \in Conns, Step(c)
    PROVE  NoDuplicateSubscriber'
<1>. SUFFICES ASSUME NEW t \in Topics, NEW g \in ListIds
              PROVE  IsInjective(lists'[t][g])
  BY DEF NoDuplicateSubscriber
<1>1. lists[t][g] \in Seq(Conns) /\ IsInjective(lists[t][g])
  BY DEF TypeOK, NoDuplicateSubscriber
<1>2. CASE SubscribeAdd(c) /\ t = topic[c] /\ lists'[t][g] = Append(lists[t][g], c)
  <2>1. ~Recorded(c, t)
    BY <1>2 DEF SubscribeAdd, RecordsOK, SubscribeLabels, Recorded
  <2>2. c \notin Range(lists[t][g])
    BY <2>1 DEF RecordsOK
  <2>. QED
    BY <1>1, <1>2, <2>2, AppendFacts
<1>3. \/ lists'[t][g] = lists[t][g]
      \/ lists'[t][g] = RemoveFirst(lists[t][g], c)
      \/ /\ SubscribeAdd(c) /\ t = topic[c]
         /\ lists'[t][g] = Append(lists[t][g], c)
  BY ListChange
<1>4. CASE lists'[t][g] = RemoveFirst(lists[t][g], c)
  BY <1>1, <1>4, RemoveFirstFacts
<1>. QED
  BY <1>1, <1>2, <1>3, <1>4

(* handleSend finds an id because it found itself in a list, and a record, *)
(* unlike an entry of a list, never goes away.                             *)
LEMMA NoNullHeaderStep ==
    ASSUME TypeOK, LocalsOK, RecordsOK, NoNullHeader, NEW c \in Conns, Step(c)
    PROVE  NoNullHeader'
<1>. SUFFICES ASSUME NEW d \in Conns, pc'[d] = "send.header"
              PROVE  clientsTo_subscriptionsId'[d][topic'[d]] # None
  BY DEF NoNullHeader
<1>1. CASE d # c \/ UNCHANGED <<pc, topic>>
  <2>1. pc[d] = "send.header" /\ topic'[d] = topic[d]
    BY <1>1, OtherThreads DEF SameThread
  <2>2. topic[d] \in Topics /\ Recorded(d, topic[d])
    BY <2>1 DEF NoNullHeader, Recorded, LocalsOK, LocalsOf, TopicLabels
  <2>3. Recorded(d, topic[d])'
    BY <2>1, <2>2, RecordedStays
  <2>. QED
    BY <2>1, <2>3 DEF Recorded
<1>2. CASE d = c /\ IsSubscribedContains(c)
  <2>1. /\ pc[c] = "isSubscribed.contains"
        /\ UNCHANGED <<clientsTo_subscriptionsId, topic>>
    BY <1>2 DEF IsSubscribedContains, registry, locals
  <2>2. /\ topic[c] \in Topics /\ held[c] \in ListIds
        /\ lists[topic[c]][held[c]] \in Seq(Conns)
    BY <2>1, HeldList DEF ListLabels
  <2>3. Contains(lists[topic[c]][held[c]], c)
    BY <1>2 DEF IsSubscribedContains, Snapshot, Goto, TypeOK
  <2>4. c \in Range(lists[topic[c]][held[c]])
    BY <2>2, <2>3, LenProperties DEF Contains, Range
  <2>5. Recorded(c, topic[c])
    BY <2>2, <2>4 DEF RecordsOK
  <2>. QED
    BY <1>2, <2>1, <2>5 DEF Recorded
<1>. QED
  BY <1>1, <1>2, OwnSteps

-----------------------------------------------------------------------------
(* Registered handlers, and the forgetting of disconnected ones.           *)

(* A thread's own steps: disconnect comes with shouldTerminate, and the    *)
(* loop reads no further frame after it.                                   *)
LEMMA OwnServed ==
    ASSUME TypeOK, LocalsOK, ServedOK, NEW c \in Conns, Step(c)
    PROVE  ServedOf(c)'
<1>own. ServedOf(c) /\ LocalsOf(c)
  BY DEF ServedOK, LocalsOK
<1>pc. pc \in [Conns -> Labels] /\ shouldTerminate \in [Conns -> BOOLEAN]
  BY DEF TypeOK
<1>. USE <1>own, <1>pc
     DEF ServedOf, ServedLabels, AfterLabels, DisconnectLabels, PurgeLabels, Labels, Goto,
         registry, protocolVars, locals
<1>1. CASE PublishGet(c) /\ UNCHANGED <<idClient, sent, shouldTerminate>>
  BY <1>1 DEF PublishGet
<1>2. CASE PublishSnapshot(c) /\ UNCHANGED <<idClient, sent, shouldTerminate>>
  BY <1>2 DEF PublishSnapshot
<1>3. CASE PublishLookup(c) /\ UNCHANGED <<idClient, sent, shouldTerminate>>
  BY <1>3 DEF PublishLookup
<1>4. CASE PublishWrite(c) /\ UNCHANGED <<idClient, sent, shouldTerminate>>
  BY <1>4 DEF PublishWrite
<1>5. CASE DisconnectRemove(c) /\ UNCHANGED <<idClient, sent, shouldTerminate>>
  BY <1>5 DEF DisconnectRemove
<1>6. CASE DisconnectClose(c) /\ UNCHANGED <<idClient, sent, shouldTerminate>>
  BY <1>6 DEF DisconnectClose
<1>7. CASE DisconnectPurge(c) /\ UNCHANGED <<idClient, sent, shouldTerminate>>
  BY <1>7 DEF DisconnectPurge, LocalsOf
<1>8. CASE SubscribeList(c) /\ UNCHANGED <<idClient, sent, shouldTerminate>>
  BY <1>8 DEF SubscribeList
<1>9. CASE SubscribeAdd(c) /\ UNCHANGED <<idClient, sent, shouldTerminate>>
  BY <1>9 DEF SubscribeAdd
<1>10. CASE SubscribePut(c) /\ UNCHANGED <<idClient, sent, shouldTerminate>>
  BY <1>10 DEF SubscribePut
<1>11. CASE UnsubscribeGet(c) /\ UNCHANGED <<idClient, sent, shouldTerminate>>
  BY <1>11 DEF UnsubscribeGet
<1>12. CASE UnsubscribeRemove(c) /\ UNCHANGED <<idClient, sent, shouldTerminate>>
  BY <1>12 DEF UnsubscribeRemove
<1>13. CASE UnsubscribeIsEmpty(c) /\ UNCHANGED <<idClient, sent, shouldTerminate>>
  BY <1>13 DEF UnsubscribeIsEmpty
<1>14. CASE UnsubscribeDrop(c) /\ UNCHANGED <<idClient, sent, shouldTerminate>>
  BY <1>14 DEF UnsubscribeDrop
<1>15. CASE IsSubscribedGet(c) /\ UNCHANGED <<idClient, sent, shouldTerminate>>
  BY <1>15 DEF IsSubscribedGet
<1>16. CASE IsSubscribedContains(c) /\ UNCHANGED <<idClient, sent, shouldTerminate>>
  BY <1>16 DEF IsSubscribedContains
<1>17. CASE CredentialsGet(c) /\ UNCHANGED <<idClient, sent, shouldTerminate>>
  BY <1>17 DEF CredentialsGet
<1>18. CASE CredentialsEquals(c) /\ UNCHANGED <<idClient, sent, shouldTerminate>>
  BY <1>18 DEF CredentialsEquals
<1>19. CASE CredentialsPut(c) /\ UNCHANGED <<idClient, sent, shouldTerminate>>
  BY <1>19 DEF CredentialsPut
<1>20. CASE ConnectReject(c) /\ UNCHANGED <<idClient, sent>>
  BY <1>20 DEF ConnectReject, Reject, CallDisconnect
<1>21. CASE ConnectVersion(c) /\ UNCHANGED <<idClient, sent>>
  <2>0. pc[c] = "connect.version"
    BY <1>21 DEF ConnectVersion
  <2>1. CASE Goto(c, "closing") /\ UNCHANGED <<clients, locals, shouldTerminate>>
    BY <2>0, <2>1
  <2>2. CASE Reject(c, FALSE, "receipt")
    BY <2>0, <2>2 DEF Reject, CallDisconnect
  <2>3. CASE Goto(c, "receipt") /\ UNCHANGED <<clients, locals, shouldTerminate>>
    BY <2>0, <2>3
  <2>. QED
    BY <1>21, <2>1, <2>2, <2>3 DEF ConnectVersion
<1>22. CASE HandleDisconnect(c) /\ UNCHANGED <<idClient, sent>>
  BY <1>22 DEF HandleDisconnect, CallDisconnect
<1>23. CASE SendReject(c) /\ UNCHANGED <<idClient, sent>>
  BY <1>23 DEF SendReject, Reject, CallDisconnect
<1>24. CASE SendHeader(c) /\ UNCHANGED <<idClient, sent>>
  BY <1>24 DEF SendHeader
<1>25. CASE HandleSubscribe(c) /\ UNCHANGED <<idClient, sent>>
  <2>1. CASE Reject(c, TRUE, "receipt")
    BY <1>25, <2>1 DEF HandleSubscribe, Reject, CallDisconnect
  <2>2. CASE Goto(c, "receipt") /\ UNCHANGED <<clients, ret, todo, shouldTerminate>>
    BY <1>25, <2>2 DEF HandleSubscribe
  <2>3. CASE Goto(c, "subscribe.list") /\ UNCHANGED <<clients, ret, todo, shouldTerminate>>
    BY <1>25, <2>3 DEF HandleSubscribe
  <2>. QED
    BY <1>25, <2>1, <2>2, <2>3 DEF HandleSubscribe
<1>26. CASE HandleUnsubscribe(c) /\ UNCHANGED <<idClient, sent>>
  <2>1. CASE Reject(c, TRUE, "receipt")
    BY <1>26, <2>1 DEF HandleUnsubscribe, Reject, CallDisconnect
  <2>2. CASE Goto(c, "receipt") /\ UNCHANGED <<clients, ret, todo, shouldTerminate>>
    BY <1>26, <2>2 DEF HandleUnsubscribe
  <2>3. CASE Goto(c, "unsubscribe.get") /\ UNCHANGED <<clients, ret, todo, shouldTerminate>>
    BY <1>26, <2>3 DEF HandleUnsubscribe
  <2>. QED
    BY <1>26, <2>1, <2>2, <2>3 DEF HandleUnsubscribe
<1>27. CASE Receipt(c) /\ UNCHANGED <<idClient, sent>>
  BY <1>27 DEF Receipt
<1>28. CASE Loop(c)
  BY <1>28 DEF Loop
<1>29. CASE ReadFrame(c)
  <2>1. \A f \in Script[c] : f.command \in Commands
    BY ServerAssumption DEF ClientFrame
  <2>2. \A f \in Script[c] : Handler(f) \in ServedLabels \cup {"receipt", "closing"}
    BY <2>1 DEF Handler, Commands
  <2>3. pc[c] = "read" /\ \E f \in Script[c] : pc'[c] = Handler(f)
    BY <1>29 DEF ReadFrame
  <2>4. UNCHANGED <<clients, shouldTerminate>>
    BY <1>29 DEF ReadFrame
  <2>. QED
    BY <2>2, <2>3, <2>4
<1>30. CASE ReadEnd(c)
  BY <1>30 DEF ReadEnd
<1>31. CASE Close(c)
  BY <1>31 DEF Close
<1>32. CASE PeerClose(c)
  BY <1>32 DEF PeerClose
<1>33. CASE ClientReceive(c)
  BY <1>33 DEF ClientReceive
<1>34. CASE Register(c)
  BY <1>34 DEF Register
<1>35. CASE Execute(c)
  BY <1>35 DEF Execute
<1>. QED
  BY ONLY Step(c), <1>1, <1>2, <1>3, <1>4, <1>5, <1>6, <1>7, <1>8, <1>9, <1>10,
     <1>11, <1>12, <1>13, <1>14, <1>15, <1>16, <1>17, <1>18, <1>19, <1>20,
     <1>21, <1>22, <1>23, <1>24, <1>25, <1>26, <1>27, <1>28, <1>29, <1>30,
     <1>31, <1>32, <1>33, <1>34, <1>35
     DEF Step, ThreadStep, ProtocolStep, ConnectionsStep

(* Nobody else registers or removes a handler.                             *)
LEMMA ServedStep ==
    ASSUME TypeOK, LocalsOK, ServedOK, NEW c \in Conns, Step(c)
    PROVE  ServedOK'
<1>. SUFFICES ASSUME NEW d \in Conns
              PROVE  ServedOf(d)'
  BY DEF ServedOK
<1>1. CASE d = c
  BY <1>1, OwnServed
<1>2. CASE d # c
  <2>1. UNCHANGED <<pc[d], shouldTerminate[d]>>
    BY <1>2, OtherThreads DEF SameThread
  <2>2. d \in clients' <=> d \in clients
    BY <1>2, Writers DEF DisconnectRemove, Register
  <2>3. ServedOf(d)
    BY DEF ServedOK
  <2>. QED
    BY <2>1, <2>2, <2>3 DEF ServedOf
<1>. QED
  BY <1>1, <1>2

(* Only subscribe makes a connection a subscriber: a list that becomes the *)
(* topic's list is a new one, and empty.                                   *)
LEMMA NewSubscriber ==
    ASSUME TypeOK, LocalsOK, ListsOK, NEW c \in Conns, Step(c),
           NEW d \in Conns, NEW t \in Topics, d \notin Subscribers(t),
           ~(SubscribeAdd(c) /\ d = c)
    PROVE  d \notin Subscribers(t)'
<1>1. /\ subscriptions \in [Topics -> ListIds \cup {NoList}]
      /\ lists \in [Topics -> [ListIds -> Seq(Conns)]]
      /\ created \in [Topics -> 0 .. MaxLists]
  BY DEF TypeOK
<1>2. CASE SubscribeList(c)
  <2>1. lists' = lists
    BY <1>2 DEF SubscribeList
  <2>2. CASE subscriptions'[t] = subscriptions[t]
    BY <2>1, <2>2 DEF Subscribers
  <2>3. CASE subscriptions'[t] # subscriptions[t]
    <3>1. /\ subscriptions'[t] = created[t] + 1
          /\ created[t] < MaxLists
      BY <1>1, <1>2, <2>3 DEF SubscribeList
    <3>2. created[t] + 1 \in ListIds /\ created[t] + 1 > created[t]
      BY <1>1, <3>1, ConnectionsAssumption DEF ListIds
    <3>3. lists[t][created[t] + 1] = <<>>
      BY <3>2 DEF ListsOK
    <3>. QED
      BY <2>1, <3>1, <3>3 DEF Subscribers, Range
  <2>. QED
    BY <2>2, <2>3
<1>3. CASE UnsubscribeDrop(c)
  <2>1. lists' = lists /\ subscriptions'[t] \in {subscriptions[t], NoList}
    BY <1>1, <1>3 DEF UnsubscribeDrop
  <2>. QED
    BY <2>1 DEF Subscribers
<1>4. CASE UNCHANGED subscriptions /\ subscriptions[t] # NoList
  <2>. DEFINE g == subscriptions[t]
  <2>1. g \in ListIds /\ lists[t][g] \in Seq(Conns) /\ d \notin Range(lists[t][g])
    BY <1>1, <1>4 DEF Subscribers
  <2>2. /\ Range(RemoveFirst(lists[t][g], c)) \subseteq Range(lists[t][g])
        /\ Range(Append(lists[t][g], c)) = Range(lists[t][g]) \cup {c}
    BY <2>1, RemoveFirstFacts, AppendFacts
  <2>3. \/ lists'[t][g] = lists[t][g]
        \/ lists'[t][g] = RemoveFirst(lists[t][g], c)
        \/ SubscribeAdd(c) /\ lists'[t][g] = Append(lists[t][g], c)
    BY <2>1, ListChange
  <2>4. d \notin Range(lists'[t][g])
    BY <2>1, <2>2, <2>3
  <2>. QED
    BY <1>4, <2>4 DEF Subscribers
<1>5. CASE UNCHANGED subscriptions /\ subscriptions[t] = NoList
  BY <1>5 DEF Subscribers
<1>. QED
  BY <1>2, <1>3, <1>4, <1>5, Writers

(* The topics a disconnecting thread has still to go through only shrink.  *)
LEMMA TodoShrinks ==
    ASSUME TypeOK, LocalsOK, NEW c \in Conns, Step(c),
           ~DisconnectRemove(c), ~DisconnectPurge(c)
    PROVE  todo[c] \subseteq todo'[c]
<1>todo. todo \in [Conns -> SUBSET Topics]
  BY DEF TypeOK
<1>1. CASE ConnectionsStep(c)
  BY <1>1
     DEF ConnectionsStep, locals, PublishGet, PublishSnapshot, PublishLookup, PublishWrite,
         DisconnectClose, SubscribeList, SubscribeAdd, SubscribePut,
         UnsubscribeGet, UnsubscribeRemove, UnsubscribeIsEmpty, UnsubscribeDrop,
         IsSubscribedGet, IsSubscribedContains,
         CredentialsGet, CredentialsEquals, CredentialsPut
<1>2. CASE ConnectReject(c) \/ ConnectVersion(c) \/ HandleDisconnect(c) \/ SendReject(c)
  BY <1>2
     DEF ConnectReject, ConnectVersion, HandleDisconnect, SendReject, Reject,
         locals
<1>3. CASE SendHeader(c) \/ HandleSubscribe(c) \/ HandleUnsubscribe(c)
  BY <1>3 DEF SendHeader, HandleSubscribe, HandleUnsubscribe, Reject, locals
<1>4. CASE Receipt(c) \/ Close(c)
  <2>1. todo[c] = {}
    BY <1>4 DEF Receipt, Close, LocalsOK, LocalsOf, PurgeLabels
  <2>. QED
    BY <2>1
<1>5. CASE Loop(c) \/ ReadFrame(c) \/ ReadEnd(c)
  BY <1>5 DEF Loop, ReadFrame, ReadEnd, protocolVars, locals
<1>6. CASE Register(c) \/ Execute(c) \/ PeerClose(c) \/ ClientReceive(c)
  BY <1>6 DEF Register, Execute, PeerClose, ClientReceive, protocolVars, locals
<1>. QED
  BY <1>1, <1>2, <1>3, <1>4, <1>5, <1>6 DEF Step, ThreadStep, ProtocolStep

(* disconnect takes the connection out of the list each topic has when it  *)
(* gets to it, and no step puts it into a list afterwards: only its own    *)
(* thread could, in subscribe, where the handler is still registered.      *)
LEMMA ForgottenStep ==
    ASSUME TypeOK, LocalsOK, ListsOK, ServedOK, NoDuplicateSubscriber,
           DisconnectedIsForgotten, NEW c \in Conns, Step(c)
    PROVE  DisconnectedIsForgotten'
<1>. SUFFICES ASSUME NEW d \in Conns, NEW t \in Topics, d \notin clients', t \notin todo'[d]
              PROVE  d \notin Subscribers(t)'
  BY DEF DisconnectedIsForgotten
<1>types. /\ todo \in [Conns -> SUBSET Topics]
          /\ subscriptions \in [Topics -> ListIds \cup {NoList}]
          /\ lists \in [Topics -> [ListIds -> Seq(Conns)]]
  BY DEF TypeOK
<1>1. CASE d \notin clients /\ t \notin todo[d]
  <2>1. d \notin Subscribers(t)
    BY <1>1 DEF DisconnectedIsForgotten
  <2>2. SubscribeAdd(c) => c \in clients
    BY
       DEF SubscribeAdd, ServedOK, ServedOf, ServedLabels, Labels,
           DisconnectLabels,
           PurgeLabels, AfterLabels
  <2>. QED
    BY <1>1, <2>1, <2>2, NewSubscriber
<1>2. CASE d \in clients
  <2>1. DisconnectRemove(c) /\ d = c
    BY <1>2, Writers DEF DisconnectRemove, Register
  <2>2. todo'[c] = Topics
    BY <2>1, <1>types DEF DisconnectRemove
  <2>. QED
    BY <2>1, <2>2
<1>3. CASE d \notin clients /\ t \in todo[d]
  <2>1. d = c
    BY <1>3, OtherThreads DEF SameThread
  <2>2. ~DisconnectRemove(c)
    BY <2>1, <1>types DEF DisconnectRemove
  <2>3. DisconnectPurge(c)
    BY <1>3, <2>1, <2>2, TodoShrinks
  <2>4. PICK u \in todo[c] :
             /\ todo' = [todo EXCEPT ![c] = @ \ {u}]
             /\ IF subscriptions[u] = NoList
                THEN UNCHANGED lists
                ELSE lists' = [lists EXCEPT ![u][subscriptions[u]] = RemoveFirst(@, c)]
    BY <2>3 DEF DisconnectPurge
  <2>5. u = t
    BY <1>3, <1>types, <2>1, <2>4
  <2>6. UNCHANGED subscriptions
    BY <2>3 DEF DisconnectPurge
  <2>7. CASE subscriptions[t] = NoList
    BY <2>6, <2>7 DEF Subscribers
  <2>8. CASE subscriptions[t] # NoList
    <3>1. /\ subscriptions[t] \in ListIds
          /\ lists[t][subscriptions[t]] \in Seq(Conns)
          /\ IsInjective(lists[t][subscriptions[t]])
      BY <1>types, <2>8 DEF NoDuplicateSubscriber
    <3>2. lists' = [lists EXCEPT ![t][subscriptions[t]] = RemoveFirst(@, c)]
      BY <2>4, <2>5, <2>8
    <3>3. lists'[t][subscriptions[t]] = RemoveFirst(lists[t][subscriptions[t]], c)
      BY ONLY <1>types, <3>1, <3>2, t \in Topics
    <3>4. c \notin Range(lists'[t][subscriptions[t]])
      BY <3>1, <3>3, RemoveFirstFacts
    <3>. QED
      BY <2>1, <2>6, <2>8, <3>4 DEF Subscribers
  <2>. QED
    BY <2>7, <2>8
<1>. QED
  BY <1>1, <1>2, <1>3

-----------------------------------------------------------------------------
(* The inductive invariant, and what follows from it.                      *)

(* The server starts in a state that satisfies the invariant.              *)
LEMMA RegistryInvInit == Init => RegistryInv
<1>. SUFFICES ASSUME Init PROVE RegistryInv
  OBVIOUS
<1>1. TypeOK
  BY TypeInit
<1>2. LocalsOK
  BY
     DEF Init, LocalsOK, LocalsOf, FrameLabels, TopicLabels, ListLabels,
         SubscribeLabels,
         DisconnectLabels, PurgeLabels, Labels
<1>3. ListsOK
  BY DEF Init, ListsOK, NoList
<1>4. RecordsOK /\ NoDuplicateSubscriber
  BY
     DEF Init, RecordsOK, SubscribeLabels, NoDuplicateSubscriber, IsInjective,
         Range
<1>5. ServedOK
  BY
     DEF Init, ServedOK, ServedOf, ServedLabels, AfterLabels, DisconnectLabels,
         PurgeLabels
<1>6. NoNullHeader /\ DisconnectedIsForgotten
  BY DEF Init, NoNullHeader, DisconnectedIsForgotten, Subscribers
<1>. QED
  BY <1>1, <1>2, <1>3, <1>4, <1>5, <1>6 DEF RegistryInv

(* Every step of the server keeps it.                                      *)
LEMMA RegistryInvStep == RegistryInv /\ [Next]_vars => RegistryInv'
<1>. SUFFICES ASSUME RegistryInv, [Next]_vars PROVE RegistryInv'
  OBVIOUS
<1>1. ASSUME NEW c \in Conns, Step(c)
      PROVE  RegistryInv'
  <2>1. TypeOK' /\ LocalsOK' /\ ListsOK'
    BY <1>1, TypeStep, LocalsStep, ListsStep DEF RegistryInv
  <2>2. RecordsOK' /\ NoDuplicateSubscriber' /\ NoNullHeader'
    BY <1>1, RecordsStep, NoDuplicateStep, NoNullHeaderStep DEF RegistryInv
  <2>3. ServedOK' /\ DisconnectedIsForgotten'
    BY <1>1, ServedStep, ForgottenStep DEF RegistryInv
  <2>. QED
    BY <2>1, <2>2, <2>3 DEF RegistryInv
<1>2. CASE UNCHANGED vars
  <2>. USE <1>2 DEF vars, registry, handlers, locals
  <2>1. TypeOK' /\ LocalsOK' /\ ListsOK'
    BY DEF RegistryInv, TypeOK, LocalsOK, LocalsOf, ListsOK
  <2>2. RecordsOK' /\ NoDuplicateSubscriber' /\ NoNullHeader'
    BY DEF RegistryInv, RecordsOK, Recorded, NoDuplicateSubscriber, NoNullHeader
  <2>3. ServedOK' /\ DisconnectedIsForgotten'
    BY DEF RegistryInv, ServedOK, ServedOf, DisconnectedIsForgotten, Subscribers
  <2>. QED
    BY <2>1, <2>2, <2>3 DEF RegistryInv
<1>. QED
  BY <1>1, <1>2, NextIsStep

(* The inductive invariant holds of every execution of the server.         *)
THEOREM Invariance == Spec => []RegistryInv
  BY RegistryInvInit, RegistryInvStep, PTL DEF Spec

(* Every variable keeps its type, for any scripts of the clients.          *)
THEOREM TypeCorrect == Spec => []TypeOK
<1>1. RegistryInv => TypeOK
  BY DEF RegistryInv
<1>. QED
  BY <1>1, Invariance, PTL

(* subscribe, unsubscribe and disconnect of any number of connections may  *)
(* interleave: no subscriber list ever holds a connection twice.           *)
THEOREM NeverTwiceInAList == Spec => []NoDuplicateSubscriber
<1>1. RegistryInv => NoDuplicateSubscriber
  BY DEF RegistryInv
<1>. QED
  BY <1>1, Invariance, PTL

(* handleSend never takes toString() of a null subscription id.            *)
THEOREM HeaderIsNeverNull == Spec => []NoNullHeader
<1>1. RegistryInv => NoNullHeader
  BY DEF RegistryInv
<1>. QED
  BY <1>1, Invariance, PTL

(* A connection that disconnect has removed is in no topic's list again.   *)
THEOREM DisconnectForgets == Spec => []DisconnectedIsForgotten
<1>1. RegistryInv => DisconnectedIsForgotten
  BY DEF RegistryInv
<1>. QED
  BY <1>1, Invariance, PTL

(* A thread that waits for a frame has its handler in the registry.        *)
THEOREM ReaderStaysRegistered == Spec => []ReaderIsRegistered
<1>1. RegistryInv => ReaderIsRegistered
  BY DEF RegistryInv, ServedOK, ServedOf, ReaderIsRegistered, ServedLabels, Labels,
         DisconnectLabels, PurgeLabels, AfterLabels
<1>. QED
  BY <1>1, Invariance, PTL

-----------------------------------------------------------------------------
-----------------------------------------------------------------------------
(* What a step writes.                                                     *)

(* Ids are drawn by send.header only, sockets are closed by their own      *)
(* thread, and shouldTerminate is never taken back.                        *)
LEMMA StreamWriters ==
    ASSUME NEW c \in Conns, Step(c)
    PROVE  /\ UNCHANGED messageIDCounter \/ SendHeader(c)
           /\ \/ UNCHANGED messageId
              \/ SendHeader(c)
              \/ messageId' = [messageId EXCEPT ![c] = 0] /\ (Goto(c, "loop") \/ Goto(c, "done"))
           /\ \/ UNCHANGED sock
              \/ /\ sock' = [sock EXCEPT ![c] = "closed"]
                 /\ pc[c] \in {"disconnect.close", "closing"} /\ UNCHANGED out
           /\ \/ UNCHANGED shouldTerminate
              \/ shouldTerminate' = [shouldTerminate EXCEPT ![c] = TRUE]
<1>1. CASE ConnectionsStep(c) /\ UNCHANGED shouldTerminate
  BY <1>1
     DEF ConnectionsStep, registry, handlers, locals, PublishGet, PublishSnapshot, PublishLookup,
         PublishWrite, DisconnectRemove, DisconnectClose, DisconnectPurge,
         SubscribeList, SubscribeAdd, SubscribePut,
         UnsubscribeGet, UnsubscribeRemove, UnsubscribeIsEmpty, UnsubscribeDrop,
         IsSubscribedGet, IsSubscribedContains,
         CredentialsGet, CredentialsEquals, CredentialsPut
<1>2. CASE ConnectReject(c) \/ ConnectVersion(c) \/ HandleDisconnect(c) \/ SendReject(c)
  BY <1>2
     DEF registry, handlers, locals, ConnectReject, ConnectVersion, HandleDisconnect, SendReject,
         Reject
<1>3. CASE SendHeader(c)
  BY <1>3 DEF handlers, SendHeader
<1>4. CASE HandleSubscribe(c) \/ HandleUnsubscribe(c)
  BY <1>4 DEF registry, handlers, locals, HandleSubscribe, HandleUnsubscribe, Reject
<1>5. CASE Receipt(c)
  BY <1>5 DEF registry, Receipt, ResetLocals
<1>6. CASE \/ Loop(c) \/ ReadFrame(c) \/ ReadEnd(c) \/ Close(c)
           \/ Register(c) \/ Execute(c) \/ PeerClose(c) \/ ClientReceive(c)
  BY <1>6
     DEF registry, handlers, locals, protocolVars, Loop, ReadFrame, ReadEnd, Close, Register,
         Execute, PeerClose, ClientReceive, ResetLocals
<1>. QED
  BY <1>1, <1>2, <1>3, <1>4, <1>5, <1>6 DEF Step, ThreadStep, ProtocolStep

(* A reply: CONNECTED, or ERROR with shouldTerminate.                      *)
Answers(c) ==
    /\ ~shouldTerminate[c] /\ sock[c] = "open" /\ UNCHANGED <<sock, messageIDCounter>>
    /\ pc[c] \notin PublishLabels \cup {"none"} /\ pc'[c] \notin PublishLabels \cup {"none"}
    /\ \/ out' = [out EXCEPT ![c] = Append(@, Reply("CONNECTED", FALSE))]
       \/ /\ out' = [out EXCEPT ![c] = Append(@, Reply("ERROR", FALSE))]
          /\ shouldTerminate'[c]

(* A message for the next receiver.                                        *)
Delivers(c) ==
    /\ pc[c] = "publish.write" /\ pc' = [pc EXCEPT ![c] = "publish.lookup"]
    /\ receivers' = [receivers EXCEPT ![c] = Tail(@)]
    /\ sock[Head(receivers[c])] = "open"
    /\ out' = [out EXCEPT ![Head(receivers[c])] = Append(@, MessageFrame(c))]
    /\ UNCHANGED <<registry, sock, topic, messageId, shouldTerminate>>

(* What a thread says to its own client is dropped if it is handed over as *)
(* text, or the socket is closed, or the handler no longer registered.     *)
LEMMA OwnWrite ==
    ASSUME NEW c \in Conns, NEW command, NEW text \in BOOLEAN, SendOwn(c, Reply(command, text))
    PROVE  \/ UNCHANGED out
           \/ /\ ~text /\ c \in clients /\ sock[c] = "open"
              /\ out' = [out EXCEPT ![c] = Append(@, Reply(command, text))]
BY DEF SendOwn, HandlerSend, Reply

(* A stream is left alone, or gets a reply or a message at its end.        *)
LEMMA OutChange ==
    ASSUME TypeOK, ServedOK, NEW c \in Conns, Step(c)
    PROVE  UNCHANGED out \/ Answers(c) \/ Delivers(c)
<1>types. pc \in [Conns -> Labels] /\ shouldTerminate \in [Conns -> BOOLEAN]
  BY DEF TypeOK
<1>served. ServedOf(c)
  BY DEF ServedOK
<1>1. CASE ConnectReject(c) \/ SendReject(c)
  <2>1. PICK return \in {"connect.version", "receipt"} : Reject(c, FALSE, return)
    BY <1>1 DEF ConnectReject, SendReject
  <2>2. pc[c] \in {"connect.reject", "send.reject"} /\ pc'[c] = "disconnect.remove"
    BY <1>1, <1>types, <2>1 DEF ConnectReject, SendReject, Reject, CallDisconnect, Goto
  <2>3. ~shouldTerminate[c]
    BY <1>served, <2>2
       DEF ServedOf, ServedLabels, Labels, AfterLabels, DisconnectLabels, PurgeLabels
  <2>4. /\ shouldTerminate'[c] /\ UNCHANGED <<sock, messageIDCounter>>
        /\ SendOwn(c, Reply("ERROR", FALSE))
    BY <1>types, <2>1 DEF Reject, registry
  <2>. QED
    BY <2>2, <2>3, <2>4, OwnWrite DEF Answers, PublishLabels, LoopLabels
<1>2. CASE ConnectVersion(c)
  <2>1. pc[c] = "connect.version"
    BY <1>2 DEF ConnectVersion
  <2>2. c \in clients => ~shouldTerminate[c]
    BY <1>served, <2>1 DEF ServedOf, AfterLabels
  <2>3. CASE Reject(c, FALSE, "receipt")
    <3>1. /\ shouldTerminate'[c] /\ UNCHANGED <<sock, messageIDCounter>>
          /\ SendOwn(c, Reply("ERROR", FALSE)) /\ pc'[c] = "disconnect.remove"
      BY <1>types, <2>3 DEF Reject, registry, CallDisconnect, Goto
    <3>. QED
      BY <2>1, <2>2, <3>1, OwnWrite DEF Answers, PublishLabels, LoopLabels
  <2>4. CASE /\ SendOwn(c, Reply("CONNECTED", FALSE)) /\ Goto(c, "receipt")
             /\ UNCHANGED <<registry, sock>>
    <3>1. pc'[c] = "receipt" /\ UNCHANGED <<sock, messageIDCounter>>
      BY <1>types, <2>4 DEF registry, Goto
    <3>. QED
      BY <2>1, <2>2, <2>4, <3>1, OwnWrite DEF Answers, PublishLabels, LoopLabels
  <2>5. CASE UNCHANGED handlers
    BY <2>5 DEF handlers
  <2>. QED
    BY <1>2, <2>3, <2>4, <2>5 DEF ConnectVersion
<1>3. CASE HandleSubscribe(c) \/ HandleUnsubscribe(c) \/ Receipt(c)
  <2>1. ASSUME NEW command, SendOwn(c, Reply(command, TRUE))
        PROVE  UNCHANGED out
    BY <2>1, OwnWrite
  <2>. QED
    BY <1>3, <2>1 DEF HandleSubscribe, HandleUnsubscribe, Receipt, Reject, handlers
<1>4. CASE PublishWrite(c) /\ UNCHANGED shouldTerminate
  BY <1>4 DEF PublishWrite, HandlerSend, MessageFrame, Delivers, Goto
<1>5. CASE \/ PublishGet(c) \/ PublishSnapshot(c) \/ PublishLookup(c)
           \/ DisconnectRemove(c) \/ DisconnectClose(c) \/ DisconnectPurge(c)
           \/ SubscribeList(c) \/ SubscribeAdd(c) \/ SubscribePut(c)
           \/ UnsubscribeGet(c) \/ UnsubscribeRemove(c)
           \/ UnsubscribeIsEmpty(c) \/ UnsubscribeDrop(c)
           \/ IsSubscribedGet(c) \/ IsSubscribedContains(c)
           \/ CredentialsGet(c) \/ CredentialsEquals(c) \/ CredentialsPut(c)
  BY <1>5
     DEF handlers, PublishGet, PublishSnapshot, PublishLookup,
         DisconnectRemove, DisconnectClose, DisconnectPurge,
         SubscribeList, SubscribeAdd, SubscribePut,
         UnsubscribeGet, UnsubscribeRemove, UnsubscribeIsEmpty, UnsubscribeDrop,
         IsSubscribedGet, IsSubscribedContains,
         CredentialsGet, CredentialsEquals, CredentialsPut
<1>6. CASE \/ HandleDisconnect(c) \/ SendHeader(c)
           \/ Loop(c) \/ ReadFrame(c) \/ ReadEnd(c) \/ Close(c)
           \/ Register(c) \/ Execute(c) \/ PeerClose(c) \/ ClientReceive(c)
  BY <1>6
     DEF handlers, HandleDisconnect, SendHeader, Loop, ReadFrame, ReadEnd, Close, Register,
         Execute, PeerClose, ClientReceive
<1>. QED
  BY <1>1, <1>2, <1>3, <1>4, <1>5, <1>6 DEF Step, ThreadStep, ProtocolStep, ConnectionsStep

-----------------------------------------------------------------------------
(* A publication under way.                                                *)

(* A thread is publishing because it was, or has just drawn an id.         *)
LEMMA OwnPublish ==
    ASSUME TypeOK, LocalsOK, NEW c \in Conns, Step(c), pc'[c] \in PublishLabels
    PROVE  \/ UNCHANGED <<pc, topic, messageId, receivers>>
           \/ SendHeader(c) /\ pc'[c] = "publish.get" /\ messageId'[c] = messageIDCounter + 1
           \/ PublishGet(c) /\ pc'[c] = "publish.snapshot"
           \/ PublishSnapshot(c) \/ PublishLookup(c) \/ PublishWrite(c)
<1>pc. pc \in [Conns -> Labels] /\ messageId \in [Conns -> Nat]
  BY DEF TypeOK
<1>. USE <1>pc DEF Goto, PublishLabels, LoopLabels
<1>1. CASE PublishGet(c)
  BY <1>1 DEF PublishGet
<1>2. CASE DisconnectRemove(c) \/ DisconnectClose(c)
  BY <1>2 DEF DisconnectRemove, DisconnectClose
<1>3. CASE DisconnectPurge(c)
  BY <1>3 DEF DisconnectPurge, LocalsOK, LocalsOf, DisconnectLabels, PurgeLabels
<1>4. CASE SubscribeList(c) \/ SubscribeAdd(c) \/ SubscribePut(c)
  BY <1>4 DEF SubscribeList, SubscribeAdd, SubscribePut
<1>5. CASE UnsubscribeGet(c) \/ UnsubscribeRemove(c) \/ UnsubscribeIsEmpty(c) \/ UnsubscribeDrop(c)
  BY <1>5 DEF UnsubscribeGet, UnsubscribeRemove, UnsubscribeIsEmpty, UnsubscribeDrop
<1>6. CASE IsSubscribedGet(c) \/ IsSubscribedContains(c)
  BY <1>6 DEF IsSubscribedGet, IsSubscribedContains
<1>7. CASE CredentialsGet(c) \/ CredentialsEquals(c) \/ CredentialsPut(c)
  BY <1>7 DEF CredentialsGet, CredentialsEquals, CredentialsPut
<1>8. CASE ConnectReject(c) \/ ConnectVersion(c) \/ HandleDisconnect(c) \/ SendReject(c)
  BY <1>8
     DEF ConnectReject, ConnectVersion, HandleDisconnect, SendReject, Reject, CallDisconnect
<1>9. CASE SendHeader(c)
  BY <1>9 DEF SendHeader
<1>10. CASE HandleSubscribe(c) \/ HandleUnsubscribe(c) \/ Receipt(c)
  BY <1>10 DEF HandleSubscribe, HandleUnsubscribe, Receipt, Reject, CallDisconnect
<1>11. CASE Loop(c) \/ ReadEnd(c) \/ Close(c)
  BY <1>11 DEF Loop, ReadEnd, Close
<1>12. CASE ReadFrame(c)
  <2>1. \A f \in Script[c] : f.command \in Commands
    BY ServerAssumption DEF ClientFrame
  <2>2. \A f \in Script[c] : Handler(f) \notin PublishLabels
    BY <2>1 DEF Handler, Commands
  <2>3. \E f \in Script[c] : pc'[c] = Handler(f)
    BY <1>12 DEF ReadFrame
  <2>. QED
    BY <2>2, <2>3
<1>13. CASE Register(c) \/ Execute(c) \/ PeerClose(c) \/ ClientReceive(c)
  BY <1>13 DEF Register, Execute, PeerClose, ClientReceive, protocolVars, locals
<1>. QED
  BY <1>1, <1>2, <1>3, <1>4, <1>5, <1>6, <1>7, <1>8, <1>9, <1>10, <1>11, <1>12, <1>13
     DEF Step, ThreadStep, ProtocolStep, ConnectionsStep

(* What is left of the receivers after one of them.                        *)
LEMMA TailFacts ==
    ASSUME NEW S, NEW s \in Seq(S), s # <<>>, IsInjective(s)
    PROVE  /\ Head(s) \in Range(s) /\ Head(s) \in S
           /\ IsInjective(Tail(s)) /\ Range(Tail(s)) = Range(s) \ {Head(s)}
<1>1. /\ Len(s) \in Nat /\ Len(s) >= 1 /\ DOMAIN s = 1 .. Len(s) /\ Head(s) = s[1]
      /\ DOMAIN Tail(s) = 1 .. Len(s) - 1
      /\ \A i \in 1 .. Len(s) - 1 : Tail(s)[i] = s[i + 1]
      /\ s[1] \in S
  OBVIOUS
<1>2. \A i, j \in 1 .. Len(s) : s[i] = s[j] => i = j
  BY <1>1 DEF IsInjective
<1>3. IsInjective(Tail(s))
  <2>1. ASSUME NEW i \in 1 .. Len(s) - 1, NEW j \in 1 .. Len(s) - 1, Tail(s)[i] = Tail(s)[j]
        PROVE  i = j
    <3>1. s[i + 1] = s[j + 1] /\ i + 1 \in 1 .. Len(s) /\ j + 1 \in 1 .. Len(s)
      BY <1>1, <2>1
    <3>2. i + 1 = j + 1
      BY <1>2, <3>1
    <3>. QED
      BY <3>2
  <2>. QED
    BY <1>1, <2>1 DEF IsInjective
<1>4. Range(Tail(s)) = Range(s) \ {Head(s)}
  <2>1. ASSUME NEW x \in Range(Tail(s))
        PROVE  x \in Range(s) /\ x # Head(s)
    <3>1. PICK i \in 1 .. Len(s) - 1 : x = s[i + 1]
      BY <1>1 DEF Range
    <3>2. i + 1 \in 1 .. Len(s) /\ i + 1 # 1 /\ 1 \in 1 .. Len(s)
      BY <1>1
    <3>. QED
      BY <1>1, <1>2, <3>1, <3>2 DEF Range
  <2>2. ASSUME NEW x \in Range(s), x # Head(s)
        PROVE  x \in Range(Tail(s))
    <3>1. PICK i \in 1 .. Len(s) : x = s[i]
      BY <1>1 DEF Range
    <3>2. i - 1 \in 1 .. Len(s) - 1 /\ Tail(s)[i - 1] = s[i]
      BY <1>1, <2>2, <3>1
    <3>. QED
      BY <1>1, <3>1, <3>2 DEF Range
  <2>. QED
    BY <2>1, <2>2
<1>5. Head(s) \in Range(s)
  BY <1>1 DEF Range
<1>. QED
  BY <1>1, <1>3, <1>4, <1>5

(* The id a connection subscribed with is never changed.                   *)
LEMMA IdKept ==
    ASSUME TypeOK, RecordsOK, NEW c \in Conns, Step(c), NEW d \in Conns, NEW t \in Topics,
           clientsTo_subscriptionsId[d][t] # None
    PROVE  clientsTo_subscriptionsId'[d][t] = clientsTo_subscriptionsId[d][t]
<1>1. clientsTo_subscriptionsId \in [Conns -> [Topics -> SubIds \cup {None}]]
  BY DEF TypeOK
<1>2. CASE SubscribePut(c)
  <2>1. clientsTo_subscriptionsId' =
            [clientsTo_subscriptionsId EXCEPT ![c][topic[c]] = frame[c].id]
    BY <1>2 DEF SubscribePut
  <2>2. ~(d = c /\ t = topic[c])
    BY <1>2 DEF SubscribePut, RecordsOK, SubscribeLabels
  <2>. QED
    BY <1>1, <2>1, <2>2
<1>. QED
  BY <1>2, Writers

(* d goes on with the message it was publishing.                           *)
Continues(d) ==
    /\ pc[d] \in PublishLabels /\ topic[d] \in Topics
    /\ messageId'[d] = messageId[d] /\ topic'[d] = topic[d]
    /\ MessageFrame(d)' = MessageFrame(d)
    /\ clientsTo_subscriptionsId'[d][topic'[d]] # None
    /\ pc[d] \in LoopLabels =>
          /\ pc'[d] \in LoopLabels
          /\ IsInjective(receivers'[d]) /\ Range(receivers'[d]) \subseteq Range(receivers[d])

(* d begins a publication, under a new id.                                 *)
Starts(d) ==
    /\ pc'[d] = "publish.get" /\ topic'[d] \in Topics
    /\ messageId'[d] = messageIDCounter + 1 /\ messageIDCounter' = messageIDCounter + 1
    /\ clientsTo_subscriptionsId'[d][topic'[d]] # None

(* Who is publishing after a step continues, or is the one that begins.    *)
LEMMA PublishStep ==
    ASSUME RegistryInv, NEW c \in Conns, Step(c), NEW d \in Conns, PublishingOf(d),
           pc'[d] \in PublishLabels
    PROVE  Continues(d) \/ (d = c /\ Starts(d))
<1>inv. TypeOK /\ LocalsOK /\ RecordsOK
  BY DEF RegistryInv
<1>types. /\ messageId \in [Conns -> Nat] /\ messageIDCounter \in Nat
          /\ receivers \in [Conns -> Seq(Conns)] /\ topic \in [Conns -> Topics \cup {None}]
          /\ pc \in [Conns -> Labels]
  BY <1>inv DEF TypeOK
<1>1. ASSUME pc[d] \in PublishLabels, messageId'[d] = messageId[d], topic'[d] = topic[d],
             pc[d] \in LoopLabels =>
                /\ pc'[d] \in LoopLabels
                /\ IsInjective(receivers'[d])
                /\ Range(receivers'[d]) \subseteq Range(receivers[d])
      PROVE  Continues(d)
  <2>1. topic[d] \in Topics
    BY <1>inv, <1>1 DEF LocalsOK, LocalsOf, TopicLabels, ListLabels, PublishLabels, LoopLabels
  <2>2. clientsTo_subscriptionsId[d][topic[d]] # None
    BY <1>1 DEF PublishingOf
  <2>3. clientsTo_subscriptionsId'[d][topic[d]] = clientsTo_subscriptionsId[d][topic[d]]
    BY <1>inv, <2>1, <2>2, IdKept
  <2>. QED
    BY <1>1, <2>1, <2>2, <2>3 DEF Continues, MessageFrame
<1>2. CASE d # c
  <2>1. SameThread(d)
    BY <1>inv, <1>2, OtherThreads
  <2>2. messageId'[d] = messageId[d]
    BY <1>2, <1>types, StreamWriters DEF SendHeader
  <2>. QED
    BY <1>1, <2>1, <2>2 DEF SameThread, PublishingOf
<1>3. CASE d = c
  <2>1. CASE UNCHANGED <<pc, topic, messageId, receivers>>
    BY <1>1, <2>1 DEF PublishingOf
  <2>2. CASE SendHeader(c) /\ pc'[c] = "publish.get" /\ messageId'[c] = messageIDCounter + 1
    <3>1. /\ topic'[c] = topic[c] /\ pc[c] = "send.header"
          /\ UNCHANGED clientsTo_subscriptionsId
      BY <2>2 DEF SendHeader
    <3>2. topic[c] \in Topics
      BY <1>inv, <3>1 DEF LocalsOK, LocalsOf, TopicLabels
    <3>3. /\ clientsTo_subscriptionsId[c][topic[c]] # None
          /\ messageIDCounter' = messageIDCounter + 1
      BY <2>2, <1>types DEF SendHeader, Goto
    <3>. QED
      BY <1>3, <2>2, <3>1, <3>2, <3>3 DEF Starts
  <2>3. CASE PublishGet(c) /\ pc'[c] = "publish.snapshot"
    BY <1>1, <1>3, <2>3 DEF PublishGet, PublishLabels, LoopLabels
  <2>4. CASE PublishSnapshot(c)
    BY <1>1, <1>3, <2>4 DEF PublishSnapshot, PublishLabels, LoopLabels
  <2>5. CASE PublishLookup(c)
    <3>1. /\ pc[c] = "publish.lookup" /\ pc'[c] \in LoopLabels
          /\ \/ receivers'[c] = receivers[c]
             \/ receivers[c] # <<>> /\ receivers'[c] = Tail(receivers[c])
          /\ UNCHANGED <<messageId, topic>>
      BY <1>3, <1>types, <2>5 DEF PublishLookup, Goto, PublishLabels, LoopLabels
    <3>2. IsInjective(receivers[c])
      BY <1>3, <3>1 DEF PublishingOf, LoopLabels
    <3>3. receivers[c] # <<>> => /\ IsInjective(Tail(receivers[c]))
                                 /\ Range(Tail(receivers[c])) \subseteq Range(receivers[c])
      BY <1>types, <3>2, TailFacts
    <3>. QED
      BY <1>1, <1>3, <3>1, <3>2, <3>3 DEF PublishLabels, LoopLabels
  <2>6. CASE PublishWrite(c)
    <3>1. /\ pc[c] = "publish.write" /\ pc'[c] = "publish.lookup"
          /\ receivers'[c] = Tail(receivers[c])
          /\ UNCHANGED <<messageId, topic>>
      BY <1>types, <2>6 DEF PublishWrite, Goto
    <3>2. IsInjective(receivers[c]) /\ receivers[c] # <<>>
      BY <1>3, <1>inv, <3>1 DEF PublishingOf, LoopLabels, LocalsOK, LocalsOf
    <3>3. IsInjective(receivers'[c]) /\ Range(receivers'[c]) \subseteq Range(receivers[c])
      BY <1>types, <3>1, <3>2, TailFacts
    <3>. QED
      BY <1>1, <1>3, <3>1, <3>3 DEF PublishLabels, LoopLabels
  <2>. QED
    BY <1>inv, <1>3, <2>1, <2>2, <2>3, <2>4, <2>5, <2>6, OwnPublish
<1>. QED
  BY <1>2, <1>3

(* Whoever is in the loop after a step was there, or has just looked at    *)
(* the list, in which nobody is twice and everybody recorded.              *)
LEMMA LoopStep ==
    ASSUME RegistryInv, NEW c \in Conns, Step(c), NEW d \in Conns, PublishingOf(d),
           pc'[d] \in LoopLabels
    PROVE  /\ IsInjective(receivers'[d])
           /\ \A e \in Range(receivers'[d]) : e \in Conns /\ Recorded(e, topic[d])'
<1>inv. TypeOK /\ LocalsOK /\ RecordsOK /\ NoDuplicateSubscriber
  BY DEF RegistryInv
<1>types. /\ receivers \in [Conns -> Seq(Conns)] /\ pc \in [Conns -> Labels]
  BY <1>inv DEF TypeOK
<1>1. CASE pc[d] \in LoopLabels
  <2>1. Continues(d)
    BY <1>1, PublishStep DEF Starts, PublishLabels, LoopLabels
  <2>2. PICK t \in Topics : t = topic[d] /\ t = topic'[d]
    BY <2>1 DEF Continues
  <2>3. \A e \in Range(receivers[d]) : e \in Conns /\ Recorded(e, t)
    BY <1>1, <1>types, <2>2 DEF PublishingOf, Range
  <2>4. \A e \in Range(receivers[d]) : Recorded(e, t)'
    BY <1>inv, <2>3, RecordedStays
  <2>5. \A e \in Range(receivers'[d]) : e \in Conns /\ Recorded(e, t)'
    BY <1>1, <2>1, <2>3, <2>4 DEF Continues
  <2>. QED
    BY <1>1, <2>1, <2>2, <2>5 DEF Continues, Recorded
<1>2. CASE pc[d] \notin LoopLabels
  <2>1. d = c
    BY <1>inv, <1>2, OtherThreads DEF SameThread
  <2>2. PublishSnapshot(c)
    BY <1>inv, <1>2, <2>1, OwnPublish
       DEF PublishLabels, LoopLabels, PublishLookup, PublishWrite
  <2>3. /\ receivers'[c] = lists[topic[c]][held[c]] /\ pc[c] = "publish.snapshot"
        /\ topic'[c] = topic[c]
    BY <2>2, <1>types DEF PublishSnapshot, Snapshot
  <2>4. /\ topic[c] \in Topics /\ held[c] \in ListIds
        /\ lists[topic[c]][held[c]] \in Seq(Conns)
    BY <1>inv, <2>3, HeldList DEF ListLabels
  <2>5. PICK t \in Topics : t = topic[c] /\ t = topic'[c]
    BY <2>3, <2>4
  <2>6. \A e \in Range(receivers'[c]) : e \in Conns /\ Recorded(e, t)
    BY <1>inv, <2>3, <2>4, <2>5 DEF RecordsOK, Range
  <2>7. \A e \in Range(receivers'[c]) : e \in Conns /\ Recorded(e, t)'
    BY <1>inv, <2>6, RecordedStays
  <2>. QED
    BY <1>inv, <2>1, <2>3, <2>4, <2>5, <2>7 DEF NoDuplicateSubscriber, Recorded
<1>. QED
  BY <1>1, <1>2

(* The part of the invariant about publications is kept.                   *)
LEMMA PublishingStep ==
    ASSUME RegistryInv, NEW c \in Conns, Step(c), \A e \in Conns : PublishingOf(e),
           NEW d \in Conns
    PROVE  PublishingOf(d)'
<1>types. /\ messageId \in [Conns -> Nat] /\ messageIDCounter \in Nat
  BY DEF RegistryInv, TypeOK
<1>counter. messageIDCounter' \in Nat /\ messageIDCounter =< messageIDCounter'
  BY <1>types, StreamWriters DEF SendHeader
<1>1. ASSUME pc'[d] \in PublishLabels
      PROVE  /\ messageId'[d] \in 1 .. messageIDCounter'
             /\ clientsTo_subscriptionsId'[d][topic'[d]] # None
             /\ \A b \in Conns \ {d} : pc'[b] \in PublishLabels => messageId'[b] # messageId'[d]
  <2>1. ASSUME NEW e \in Conns, pc'[e] \in PublishLabels
        PROVE  Continues(e) \/ (e = c /\ Starts(e))
    BY <2>1, PublishStep
  <2>2. \A e \in Conns : Continues(e) => messageId[e] \in 1 .. messageIDCounter
    BY DEF Continues, PublishingOf
  <2>3. CASE Continues(d)
    <3>1. ASSUME NEW b \in Conns \ {d}, pc'[b] \in PublishLabels
          PROVE  messageId'[b] # messageId'[d]
      <4>1. CASE Continues(b)
        BY <2>3, <4>1 DEF Continues, PublishingOf
      <4>2. CASE Starts(b)
        BY <1>types, <2>2, <2>3, <4>2 DEF Continues, Starts
      <4>. QED
        BY <2>1, <3>1, <4>1, <4>2
    <3>. QED
      BY <1>types, <1>counter, <2>2, <2>3, <3>1 DEF Continues
  <2>4. CASE d = c /\ Starts(d)
    <3>1. ASSUME NEW b \in Conns \ {d}, pc'[b] \in PublishLabels
          PROVE  messageId'[b] # messageId'[d]
      <4>1. Continues(b)
        BY <2>1, <2>4, <3>1
      <4>. QED
        BY <1>types, <2>2, <2>4, <4>1 DEF Continues, Starts
    <3>. QED
      BY <1>types, <2>4, <3>1 DEF Starts
  <2>. QED
    BY <1>1, <2>1, <2>3, <2>4
<1>2. ASSUME pc'[d] \in LoopLabels
      PROVE  /\ IsInjective(receivers'[d])
             /\ \A e \in Range(receivers'[d]) : Recorded(e, topic[d])'
  BY <1>2, LoopStep
<1>. QED
  BY <1>1, <1>2 DEF PublishingOf

-----------------------------------------------------------------------------
(* The streams.                                                            *)

(* A stream that has got a frame at its end.                               *)
LEMMA StreamAppend ==
    ASSUME out \in [Conns -> Seq(ServerFrame)], NEW d \in Conns, NEW f,
           out' = [out EXCEPT ![d] = Append(@, f)], NEW e \in Conns
    PROVE  /\ e # d => out'[e] = out[e]
           /\ Len(out[e]) \in Nat /\ DOMAIN out[e] = 1 .. Len(out[e])
           /\ DOMAIN out'[d] = 1 .. Len(out[d]) + 1
           /\ \A i \in 1 .. Len(out[d]) : out'[d][i] = out[d][i]
           /\ out'[d][Len(out[d]) + 1] = f
           /\ Range(out'[d]) = Range(out[d]) \cup {f}
<1>1. /\ out[e] \in Seq(ServerFrame) /\ out[d] \in Seq(ServerFrame)
      /\ out'[d] = Append(out[d], f) /\ (e # d => out'[e] = out[e])
  OBVIOUS
<1>2. /\ Len(out[d]) \in Nat /\ DOMAIN out[d] = 1 .. Len(out[d])
      /\ DOMAIN out'[d] = 1 .. Len(out[d]) + 1
      /\ \A i \in 1 .. Len(out[d]) : out'[d][i] = out[d][i]
      /\ out'[d][Len(out[d]) + 1] = f
  BY <1>1
<1>3. Range(out'[d]) = Range(out[d]) \cup {f}
  <2>1. ASSUME NEW x \in Range(out'[d])
        PROVE  x \in Range(out[d]) \cup {f}
    <3>1. PICK i \in 1 .. Len(out[d]) + 1 : x = out'[d][i]
      BY <1>2 DEF Range
    <3>2. i \in 1 .. Len(out[d]) \/ i = Len(out[d]) + 1
      BY <1>2
    <3>. QED
      BY <1>2, <3>1, <3>2 DEF Range
  <2>2. ASSUME NEW x \in Range(out[d])
        PROVE  x \in Range(out'[d])
    <3>1. PICK i \in 1 .. Len(out[d]) : x = out[d][i]
      BY <1>2 DEF Range
    <3>2. i \in 1 .. Len(out[d]) + 1
      BY <1>2
    <3>. QED
      BY <1>2, <3>1, <3>2 DEF Range
  <2>3. f \in Range(out'[d])
    <3>1. Len(out[d]) + 1 \in 1 .. Len(out[d]) + 1
      BY <1>2
    <3>. QED
      BY <1>2, <3>1 DEF Range
  <2>. QED
    BY <2>1, <2>2, <2>3
<1>. QED
  BY <1>1, <1>2, <1>3

(* The properties of the streams, message by message.                      *)
LEMMA ByMessage ==
    /\ MembersOnly <=> \A d \in Conns : \A m \in MessagesTo(d) :
          /\ Recorded(d, m.topic) /\ m.subscription # None
          /\ m.subscription = clientsTo_subscriptionsId[m.from][m.topic]
    /\ UniqueMessageIds <=> \A d, e \in Conns : \A m \in MessagesTo(d), n \in MessagesTo(e) :
          m.messageId = n.messageId => m = n
<1>1. MembersOnly <=> \A d \in Conns : \A m \in MessagesTo(d) :
          /\ Recorded(d, m.topic) /\ m.subscription # None
          /\ m.subscription = clientsTo_subscriptionsId[m.from][m.topic]
  BY DEF MembersOnly, MessagesTo, Range, IsMessage
<1>2. UniqueMessageIds <=> \A d, e \in Conns : \A m \in MessagesTo(d), n \in MessagesTo(e) :
          m.messageId = n.messageId => m = n
  BY DEF UniqueMessageIds, MessagesTo, Range, IsMessage
<1>. QED
  BY <1>1, <1>2

(* A message of a client after a step was there, or has just been          *)
(* delivered.                                                              *)
LEMMA MessagesStep ==
    ASSUME RegistryInv, NEW c \in Conns, Step(c), NEW d \in Conns, NEW m \in MessagesTo(d)'
    PROVE  \/ m \in MessagesTo(d)
           \/ Delivers(c) /\ d = Head(receivers[c]) /\ m = MessageFrame(c)
<1>types. /\ out \in [Conns -> Seq(ServerFrame)] /\ receivers \in [Conns -> Seq(Conns)]
          /\ TypeOK /\ ServedOK /\ LocalsOK
  BY DEF RegistryInv, TypeOK
<1>1. CASE UNCHANGED out
  BY <1>1 DEF MessagesTo
<1>2. CASE Answers(c)
  <2>1. PICK f \in {Reply("CONNECTED", FALSE), Reply("ERROR", FALSE)} :
           out' = [out EXCEPT ![c] = Append(@, f)]
    BY <1>2 DEF Answers
  <2>2. f.command # "Message"
    BY DEF Reply
  <2>3. d = c => Range(out'[d]) = Range(out[d]) \cup {f}
    BY <1>types, <2>1, StreamAppend
  <2>4. d # c => out'[d] = out[d]
    BY <1>types, <2>1
  <2>. QED
    BY <2>2, <2>3, <2>4 DEF MessagesTo
<1>3. CASE Delivers(c)
  <2>1. receivers[c] # <<>>
    BY <1>3, <1>types DEF Delivers, LocalsOK, LocalsOf
  <2>2. Head(receivers[c]) \in Conns
    BY <1>types, <2>1
  <2>3. d = Head(receivers[c]) => Range(out'[d]) = Range(out[d]) \cup {MessageFrame(c)}
    BY <1>3, <1>types, StreamAppend DEF Delivers
  <2>4. d # Head(receivers[c]) => out'[d] = out[d]
    BY <1>3, <1>types DEF Delivers
  <2>. QED
    BY <1>3, <2>3, <2>4 DEF MessagesTo
<1>. QED
  BY <1>types, <1>1, <1>2, <1>3, OutChange

(* What is delivered: to somebody recorded, whom the loop has not been at. *)
LEMMA DeliveryFacts ==
    ASSUME RegistryInv, NEW c \in Conns, PublishingOf(c), Delivers(c)
    PROVE  /\ Head(receivers[c]) \in Conns /\ Recorded(Head(receivers[c]), topic[c])
           /\ Head(receivers[c]) \in Range(receivers[c])
           /\ Head(receivers[c]) \notin Range(receivers'[c])
           /\ topic[c] \in Topics /\ messageId[c] \in 1 .. messageIDCounter
           /\ clientsTo_subscriptionsId[c][topic[c]] # None
           /\ MessageFrame(c).command = "Message" /\ MessageFrame(c).from = c
           /\ MessageFrame(c).topic = topic[c] /\ MessageFrame(c).messageId = messageId[c]
           /\ MessageFrame(c).subscription = clientsTo_subscriptionsId[c][topic[c]]
<1>1. /\ pc[c] = "publish.write" /\ receivers \in [Conns -> Seq(Conns)]
      /\ receivers'[c] = Tail(receivers[c])
  BY DEF Delivers, RegistryInv, TypeOK
<1>2. receivers[c] # <<>> /\ topic[c] \in Topics
  BY <1>1 DEF RegistryInv, LocalsOK, LocalsOf, TopicLabels
<1>3. /\ IsInjective(receivers[c]) /\ \A d \in Range(receivers[c]) : Recorded(d, topic[c])
      /\ messageId[c] \in 1 .. messageIDCounter
      /\ clientsTo_subscriptionsId[c][topic[c]] # None
  BY <1>1 DEF PublishingOf, PublishLabels, LoopLabels
<1>4. /\ Head(receivers[c]) \in Range(receivers[c]) /\ Head(receivers[c]) \in Conns
      /\ Head(receivers[c]) \notin Range(receivers'[c])
  BY <1>1, <1>2, <1>3, TailFacts
<1>. QED
  BY <1>2, <1>3, <1>4 DEF MessageFrame

(* The part of the invariant about messages under way is kept.             *)
LEMMA StreamStep ==
    ASSUME RegistryInv, NEW c \in Conns, Step(c),
           \A e \in Conns : PublishingOf(e) /\ StreamOf(e), NEW d \in Conns
    PROVE  StreamOf(d)'
<1>types. /\ messageId \in [Conns -> Nat] /\ messageIDCounter \in Nat
  BY DEF RegistryInv, TypeOK
<1>counter. messageIDCounter' \in Nat /\ messageIDCounter =< messageIDCounter'
  BY <1>types, StreamWriters DEF SendHeader
<1>publish. ASSUME NEW e \in Conns, pc'[e] \in PublishLabels
            PROVE  Continues(e) \/ (e = c /\ Starts(e))
  BY <1>publish, PublishStep
<1>1. ASSUME NEW m \in MessagesTo(d)
      PROVE  /\ m.from \in Conns /\ m.topic \in Topics
             /\ m.messageId \in 1 .. messageIDCounter'
             /\ \A e \in Conns : pc'[e] \in PublishLabels =>
                   /\ m.from = e => m.messageId <= messageId'[e]
                   /\ m.messageId = messageId'[e] =>
                         /\ m = MessageFrame(e)' /\ pc'[e] \in LoopLabels
                         /\ d \notin Range(receivers'[e])
  <2>1. /\ m.from \in Conns /\ m.topic \in Topics /\ m.messageId \in 1 .. messageIDCounter
    BY DEF StreamOf
  <2>2. ASSUME NEW e \in Conns, Continues(e)
        PROVE  /\ m.from = e => m.messageId <= messageId'[e]
               /\ m.messageId = messageId'[e] =>
                     /\ m = MessageFrame(e)' /\ pc'[e] \in LoopLabels
                     /\ d \notin Range(receivers'[e])
    BY <2>2 DEF Continues, StreamOf
  <2>3. ASSUME NEW e \in Conns, Starts(e)
        PROVE  m.messageId < messageId'[e]
    BY <1>types, <2>1, <2>3 DEF Starts
  <2>4. m.messageId \in 1 .. messageIDCounter'
    BY <1>types, <1>counter, <2>1
  <2>5. ASSUME NEW e \in Conns, pc'[e] \in PublishLabels
        PROVE  /\ m.from = e => m.messageId <= messageId'[e]
               /\ m.messageId = messageId'[e] =>
                     /\ m = MessageFrame(e)' /\ pc'[e] \in LoopLabels
                     /\ d \notin Range(receivers'[e])
    <3>1. CASE Continues(e)
      BY <2>2, <3>1
    <3>2. CASE Starts(e)
      <4>1. m.messageId < messageId'[e] /\ messageId'[e] \in Nat /\ m.messageId \in Nat
        BY <1>types, <2>1, <2>3, <3>2 DEF Starts
      <4>. QED
        BY <4>1
    <3>. QED
      BY <1>publish, <2>5, <3>1, <3>2
  <2>. QED
    BY <2>1, <2>4, <2>5
<1>2. ASSUME Delivers(c), d = Head(receivers[c]), NEW m, m = MessageFrame(c)
      PROVE  /\ m.from \in Conns /\ m.topic \in Topics
             /\ m.messageId \in 1 .. messageIDCounter'
             /\ \A e \in Conns : pc'[e] \in PublishLabels =>
                   /\ m.from = e => m.messageId <= messageId'[e]
                   /\ m.messageId = messageId'[e] =>
                         /\ m = MessageFrame(e)' /\ pc'[e] \in LoopLabels
                         /\ d \notin Range(receivers'[e])
  <2>1. /\ m.from = c /\ m.topic \in Topics /\ m.messageId = messageId[c]
        /\ messageId[c] \in 1 .. messageIDCounter /\ d \notin Range(receivers'[c])
    BY <1>2, DeliveryFacts
  <2>2. /\ pc[c] = "publish.write" /\ pc'[c] = "publish.lookup" /\ messageId'[c] = messageId[c]
        /\ m = MessageFrame(c)'
    BY <1>2 DEF Delivers, MessageFrame, RegistryInv, TypeOK, registry
  <2>3. \A e \in Conns : pc'[e] \in PublishLabels => Continues(e)
    BY <1>2, <1>types, <1>publish, <2>2 DEF Starts
  <2>4. ASSUME NEW e \in Conns, pc'[e] \in PublishLabels, e # c
        PROVE  messageId'[e] # messageId[c]
    <3>1. Continues(e)
      BY <2>3, <2>4
    <3>. QED
      BY <2>2, <2>4, <3>1 DEF Continues, PublishingOf, PublishLabels, LoopLabels
  <2>5. messageId[c] =< messageId[c] /\ m.messageId \in 1 .. messageIDCounter'
    BY <1>types, <1>counter, <2>1
  <2>. QED
    BY <2>1, <2>2, <2>4, <2>5 DEF LoopLabels
<1>. QED
  BY <1>1, <1>2, MessagesStep DEF StreamOf

(* Messages still go between members, under the sender's subscription id.  *)
LEMMA MembersStep ==
    ASSUME RegistryInv, NEW c \in Conns, Step(c),
           \A e \in Conns : PublishingOf(e) /\ StreamOf(e), MembersOnly
    PROVE  MembersOnly'
<1>inv. TypeOK /\ LocalsOK /\ RecordsOK
  BY DEF RegistryInv
<1>1. ASSUME NEW d \in Conns, NEW m \in MessagesTo(d)'
      PROVE  /\ Recorded(d, m.topic)' /\ m.subscription # None
             /\ m.subscription = clientsTo_subscriptionsId'[m.from][m.topic]
  <2>1. CASE m \in MessagesTo(d)
    <3>1. PICK t \in Topics, e \in Conns : t = m.topic /\ e = m.from
      BY <2>1 DEF StreamOf
    <3>2. /\ Recorded(d, t) /\ m.subscription # None
          /\ m.subscription = clientsTo_subscriptionsId[e][t]
      BY <2>1, <3>1, ByMessage
    <3>3. Recorded(d, t)'
      BY <1>inv, <3>2, RecordedStays
    <3>4. clientsTo_subscriptionsId'[e][t] = clientsTo_subscriptionsId[e][t]
      BY <1>inv, <3>2, IdKept
    <3>. QED
      BY <3>1, <3>2, <3>3, <3>4 DEF Recorded
  <2>2. CASE Delivers(c) /\ d = Head(receivers[c]) /\ m = MessageFrame(c)
    <3>1. PICK t \in Topics : t = topic[c]
      BY <2>2, DeliveryFacts
    <3>2. /\ m.from = c /\ m.topic = t /\ m.subscription = clientsTo_subscriptionsId[c][t]
          /\ Recorded(d, t) /\ m.subscription # None
      BY <2>2, <3>1, DeliveryFacts
    <3>3. Recorded(d, t)'
      BY <1>inv, <3>2, RecordedStays
    <3>4. clientsTo_subscriptionsId'[c][t] = clientsTo_subscriptionsId[c][t]
      BY <1>inv, <3>2, IdKept
    <3>. QED
      BY <3>2, <3>3, <3>4 DEF Recorded
  <2>. QED
    BY <2>1, <2>2, MessagesStep
<1>2. ASSUME NEW d \in Conns, NEW i \in DOMAIN out'[d], out'[d][i].command = "Message"
      PROVE  out'[d][i] \in MessagesTo(d)'
  BY <1>2 DEF MessagesTo, Range
<1>. QED
  BY <1>1, <1>2 DEF MembersOnly, IsMessage, Recorded

(* An id still names one message: what has the id of a publication under   *)
(* way is its message.                                                     *)
LEMMA UniqueStep ==
    ASSUME RegistryInv, NEW c \in Conns, Step(c),
           \A e \in Conns : PublishingOf(e) /\ StreamOf(e), UniqueMessageIds
    PROVE  UniqueMessageIds'
<1>1. ASSUME NEW d \in Conns, NEW m \in MessagesTo(d), Delivers(c),
             m.messageId = MessageFrame(c).messageId
      PROVE  m = MessageFrame(c)
  <2>1. pc[c] \in PublishLabels /\ m.messageId = messageId[c]
    BY <1>1, DeliveryFacts DEF Delivers, PublishLabels, LoopLabels
  <2>. QED
    BY <2>1 DEF StreamOf
<1>2. ASSUME NEW d \in Conns, NEW e \in Conns, NEW m \in MessagesTo(d)', NEW n \in MessagesTo(e)',
             m.messageId = n.messageId
      PROVE  m = n
  BY <1>1, <1>2, MessagesStep, ByMessage
<1>3. ASSUME NEW d \in Conns, NEW i \in DOMAIN out'[d], out'[d][i].command = "Message"
      PROVE  out'[d][i] \in MessagesTo(d)'
  BY <1>3 DEF MessagesTo, Range
<1>. QED
  BY <1>2, <1>3 DEF UniqueMessageIds, IsMessage

(* A sender's messages still come in its order: the loop writes to nobody  *)
(* twice, and the sender's earlier messages have smaller ids.              *)
LEMMA OrderStep ==
    ASSUME RegistryInv, NEW c \in Conns, Step(c),
           \A e \in Conns : PublishingOf(e) /\ StreamOf(e), PerSenderOrder
    PROVE  PerSenderOrder'
<1>types. /\ out \in [Conns -> Seq(ServerFrame)] /\ TypeOK /\ ServedOK
          /\ messageId \in [Conns -> Nat]
  BY DEF RegistryInv, TypeOK
<1>. SUFFICES ASSUME NEW d \in Conns, NEW j \in DOMAIN out'[d], NEW i \in 1 .. j - 1,
                     out'[d][i].command = "Message", out'[d][j].command = "Message",
                     out'[d][i].from = out'[d][j].from
              PROVE  out'[d][i].messageId < out'[d][j].messageId
  BY DEF PerSenderOrder, IsMessage
<1>1. CASE out'[d] = out[d]
  BY <1>1 DEF PerSenderOrder, IsMessage
<1>2. ASSUME NEW f, out' = [out EXCEPT ![d] = Append(@, f)],
             f.command = "Message" =>
                \A m \in MessagesTo(d) : m.from = f.from => m.messageId < f.messageId
      PROVE  out'[d][i].messageId < out'[d][j].messageId
  <2>1. /\ Len(out[d]) \in Nat /\ DOMAIN out[d] = 1 .. Len(out[d])
        /\ DOMAIN out'[d] = 1 .. Len(out[d]) + 1
        /\ \A k \in 1 .. Len(out[d]) : out'[d][k] = out[d][k]
        /\ out'[d][Len(out[d]) + 1] = f
    BY <1>types, <1>2, StreamAppend
  <2>2. i \in 1 .. Len(out[d]) /\ (j \in 1 .. Len(out[d]) \/ j = Len(out[d]) + 1)
    BY <2>1
  <2>3. CASE j = Len(out[d]) + 1
    <3>1. out[d][i] \in MessagesTo(d)
      BY <2>1, <2>2 DEF MessagesTo, Range
    <3>. QED
      BY <1>2, <2>1, <2>2, <2>3, <3>1
  <2>. QED
    BY <2>1, <2>2, <2>3 DEF PerSenderOrder, IsMessage
<1>3. CASE Answers(c)
  <2>1. PICK f \in {Reply("CONNECTED", FALSE), Reply("ERROR", FALSE)} :
           out' = [out EXCEPT ![c] = Append(@, f)]
    BY <1>3 DEF Answers
  <2>2. f.command # "Message"
    BY DEF Reply
  <2>3. d # c => out'[d] = out[d]
    BY <1>types, <2>1
  <2>. QED
    BY <1>1, <1>2, <2>1, <2>2, <2>3
<1>4. CASE Delivers(c)
  <2>1. out' = [out EXCEPT ![Head(receivers[c])] = Append(@, MessageFrame(c))]
    BY <1>4 DEF Delivers
  <2>2. d # Head(receivers[c]) => out'[d] = out[d]
    BY <1>types, <2>1
  <2>3. ASSUME NEW m \in MessagesTo(d), m.from = c, d = Head(receivers[c])
        PROVE  m.messageId < MessageFrame(c).messageId
    <3>1. /\ d \in Range(receivers[c]) /\ MessageFrame(c).messageId = messageId[c]
          /\ messageId[c] \in Nat
      BY <1>4, <1>types, <2>3, DeliveryFacts
    <3>2. pc[c] \in PublishLabels
      BY <1>4 DEF Delivers, PublishLabels, LoopLabels
    <3>3. m.messageId <= messageId[c] /\ m.messageId # messageId[c]
          /\ m.messageId \in 1 .. messageIDCounter
      BY <2>3, <3>1, <3>2 DEF StreamOf
    <3>. QED
      BY <3>1, <3>3
  <2>4. MessageFrame(c).from = c
    BY <1>4, DeliveryFacts
  <2>. QED
    BY <1>1, <1>2, <2>1, <2>2, <2>3, <2>4
<1>. QED
  BY <1>types, <1>1, <1>3, <1>4, OutChange

(* An ERROR, and every other reply, is said with shouldTerminate not yet   *)
(* set, hence by a thread that has not said ERROR before.                  *)
LEMMA ErrorStep ==
    ASSUME RegistryInv, NEW c \in Conns, Step(c), \A e \in Conns : SessionOf(e) /\ PublishingOf(e),
           ErrorEndsSession
    PROVE  ErrorEndsSession' /\ \A d \in Conns : Failed(d)' => shouldTerminate'[d]
<1>types. /\ out \in [Conns -> Seq(ServerFrame)] /\ TypeOK /\ ServedOK
          /\ shouldTerminate \in [Conns -> BOOLEAN]
  BY DEF RegistryInv, TypeOK
<1>set. \A d \in Conns : shouldTerminate[d] => shouldTerminate'[d]
  BY <1>types, StreamWriters
<1>failed. \A d \in Conns : Failed(d) => shouldTerminate[d]
  BY DEF SessionOf
<1>. SUFFICES ASSUME NEW d \in Conns
              PROVE  /\ Failed(d)' => shouldTerminate'[d]
                     /\ \A j \in DOMAIN out'[d] : \A i \in 1 .. j - 1 :
                           out'[d][i].command = "ERROR" => out'[d][j].command = "Message"
  BY DEF ErrorEndsSession, IsMessage
<1>1. CASE out'[d] = out[d]
  BY <1>1, <1>set, <1>failed DEF ErrorEndsSession, IsMessage, Failed
<1>2. ASSUME NEW f, out' = [out EXCEPT ![d] = Append(@, f)],
             f.command = "ERROR" => shouldTerminate'[d],
             f.command # "Message" => ~Failed(d)
      PROVE  /\ Failed(d)' => shouldTerminate'[d]
             /\ \A j \in DOMAIN out'[d] : \A i \in 1 .. j - 1 :
                   out'[d][i].command = "ERROR" => out'[d][j].command = "Message"
  <2>1. /\ Len(out[d]) \in Nat /\ DOMAIN out[d] = 1 .. Len(out[d])
        /\ DOMAIN out'[d] = 1 .. Len(out[d]) + 1
        /\ \A k \in 1 .. Len(out[d]) : out'[d][k] = out[d][k]
        /\ out'[d][Len(out[d]) + 1] = f
    BY <1>types, <1>2, StreamAppend
  <2>2. Failed(d)' => Failed(d) \/ f.command = "ERROR"
    <3>1. \A i \in DOMAIN out'[d] : i \in DOMAIN out[d] \/ i = Len(out[d]) + 1
      BY <2>1
    <3>. QED
      BY <2>1, <3>1 DEF Failed
  <2>3. ASSUME NEW j \in DOMAIN out'[d], NEW i \in 1 .. j - 1, out'[d][i].command = "ERROR"
        PROVE  out'[d][j].command = "Message"
    <3>1. i \in 1 .. Len(out[d]) /\ (j \in 1 .. Len(out[d]) \/ j = Len(out[d]) + 1)
      BY <2>1
    <3>2. Failed(d)
      BY <2>1, <2>3, <3>1 DEF Failed
    <3>. QED
      BY <1>2, <2>1, <2>3, <3>1, <3>2 DEF ErrorEndsSession, IsMessage
  <2>. QED
    BY <1>2, <1>set, <1>failed, <2>2, <2>3
<1>3. CASE Answers(c)
  <2>1. ~shouldTerminate[c]
    BY <1>3 DEF Answers
  <2>2. d # c => out'[d] = out[d]
    BY <1>3, <1>types DEF Answers
  <2>3. CASE out' = [out EXCEPT ![c] = Append(@, Reply("CONNECTED", FALSE))]
    <3>1. Reply("CONNECTED", FALSE).command # "ERROR"
      BY DEF Reply
    <3>. QED
      BY <1>1, <1>2, <1>failed, <2>1, <2>2, <2>3, <3>1
  <2>4. CASE /\ out' = [out EXCEPT ![c] = Append(@, Reply("ERROR", FALSE))]
             /\ shouldTerminate'[c]
    BY <1>1, <1>2, <1>failed, <2>1, <2>2, <2>4
  <2>. QED
    BY <1>3, <2>3, <2>4 DEF Answers
<1>4. CASE Delivers(c)
  <2>1. d # Head(receivers[c]) => out'[d] = out[d]
    BY <1>4, <1>types DEF Delivers
  <2>2. MessageFrame(c).command = "Message"
    BY DEF MessageFrame
  <2>. QED
    BY <1>1, <1>2, <1>4, <2>1, <2>2 DEF Delivers
<1>. QED
  BY <1>types, <1>1, <1>3, <1>4, OutChange

(* A thread is not started twice, and it starts by being registered.       *)
LEMMA NoneStep ==
    ASSUME TypeOK, LocalsOK, NEW c \in Conns, Step(c)
    PROVE  /\ pc'[c] = "none" => pc[c] = "none"
           /\ pc[c] = "none" => pc'[c] = "none" \/ (Register(c) /\ pc'[c] # "none")
<1>pc. pc \in [Conns -> Labels]
  BY DEF TypeOK
<1>. USE <1>pc DEF Goto
<1>1. CASE PublishGet(c) \/ PublishSnapshot(c) \/ PublishLookup(c) \/ PublishWrite(c)
  BY <1>1 DEF PublishGet, PublishSnapshot, PublishLookup, PublishWrite
<1>2. CASE DisconnectRemove(c) \/ DisconnectClose(c)
  BY <1>2 DEF DisconnectRemove, DisconnectClose
<1>3. CASE DisconnectPurge(c)
  BY <1>3 DEF DisconnectPurge, LocalsOK, LocalsOf, DisconnectLabels, PurgeLabels
<1>4. CASE SubscribeList(c) \/ SubscribeAdd(c) \/ SubscribePut(c)
  BY <1>4 DEF SubscribeList, SubscribeAdd, SubscribePut
<1>5. CASE UnsubscribeGet(c) \/ UnsubscribeRemove(c) \/ UnsubscribeIsEmpty(c) \/ UnsubscribeDrop(c)
  BY <1>5 DEF UnsubscribeGet, UnsubscribeRemove, UnsubscribeIsEmpty, UnsubscribeDrop
<1>6. CASE IsSubscribedGet(c) \/ IsSubscribedContains(c)
  BY <1>6 DEF IsSubscribedGet, IsSubscribedContains
<1>7. CASE CredentialsGet(c) \/ CredentialsEquals(c) \/ CredentialsPut(c)
  BY <1>7 DEF CredentialsGet, CredentialsEquals, CredentialsPut
<1>8. CASE ConnectReject(c) \/ ConnectVersion(c) \/ HandleDisconnect(c) \/ SendReject(c)
  BY <1>8
     DEF ConnectReject, ConnectVersion, HandleDisconnect, SendReject, Reject, CallDisconnect
<1>9. CASE SendHeader(c)
  BY <1>9 DEF SendHeader
<1>10. CASE HandleSubscribe(c) \/ HandleUnsubscribe(c) \/ Receipt(c)
  BY <1>10 DEF HandleSubscribe, HandleUnsubscribe, Receipt, Reject, CallDisconnect
<1>11. CASE Loop(c) \/ ReadEnd(c) \/ Close(c)
  BY <1>11 DEF Loop, ReadEnd, Close
<1>12. CASE ReadFrame(c)
  <2>1. \A f \in Script[c] : f.command \in Commands
    BY ServerAssumption DEF ClientFrame
  <2>2. \A f \in Script[c] : Handler(f) # "none"
    BY <2>1 DEF Handler, Commands
  <2>3. pc[c] = "read" /\ \E f \in Script[c] : pc'[c] = Handler(f)
    BY <1>12 DEF ReadFrame
  <2>. QED
    BY <2>2, <2>3
<1>13. CASE Register(c) \/ Execute(c) \/ PeerClose(c) \/ ClientReceive(c)
  BY <1>13 DEF Register, Execute, PeerClose, ClientReceive
<1>. QED
  BY <1>1, <1>2, <1>3, <1>4, <1>5, <1>6, <1>7, <1>8, <1>9, <1>10, <1>11, <1>12, <1>13
     DEF Step, ThreadStep, ProtocolStep, ConnectionsStep

(* Before it is registered, a connection is sent nothing: it is recorded   *)
(* for no topic.                                                           *)
LEMMA SessionStep ==
    ASSUME RegistryInv, NEW c \in Conns, Step(c), \A e \in Conns : SessionOf(e) /\ PublishingOf(e),
           ErrorEndsSession, NEW d \in Conns
    PROVE  SessionOf(d)'
<1>types. /\ out \in [Conns -> Seq(ServerFrame)] /\ TypeOK /\ ServedOK /\ LocalsOK
          /\ sock \in [Conns -> {"open", "closed"}]
          /\ clientsTo_subscriptionsId \in [Conns -> [Topics -> SubIds \cup {None}]]
  BY DEF RegistryInv, TypeOK
<1>1. ASSUME pc'[d] = "none"
      PROVE  /\ sock'[d] = "open" /\ out'[d] = <<>>
             /\ \A t \in Topics : clientsTo_subscriptionsId'[d][t] = None
  <2>1. pc[d] = "none"
    BY <1>types, <1>1, NoneStep, OtherThreads DEF SameThread
  <2>2. /\ sock[d] = "open" /\ out[d] = <<>>
        /\ \A t \in Topics : clientsTo_subscriptionsId[d][t] = None
    BY <2>1 DEF SessionOf
  <2>3. sock'[d] = sock[d]
    BY <1>types, <2>1, StreamWriters
  <2>4. out'[d] = out[d]
    <3>1. CASE Answers(c)
      BY <1>types, <2>1, <3>1 DEF Answers
    <3>2. CASE Delivers(c)
      <4>1. PICK t \in Topics : t = topic[c] /\ Recorded(Head(receivers[c]), t)
        BY <3>2, DeliveryFacts
      <4>2. d # Head(receivers[c])
        BY <2>1, <2>2, <4>1 DEF Recorded
      <4>. QED
        BY <1>types, <3>2, <4>2 DEF Delivers
    <3>. QED
      BY <1>types, <3>1, <3>2, OutChange
  <2>5. clientsTo_subscriptionsId'[d] = clientsTo_subscriptionsId[d]
    BY <1>types, <2>1, Writers DEF SubscribePut
  <2>. QED
    BY <2>2, <2>3, <2>4, <2>5
<1>. QED
  BY <1>1, ErrorStep DEF SessionOf

-----------------------------------------------------------------------------
(* The inductive invariant, and what follows from it.                      *)

(* No stream and no publication at the start.                              *)
LEMMA StreamsInit == Init => StreamsInv
<1>. SUFFICES ASSUME Init
              PROVE  StreamsInv
  OBVIOUS
<1>1. \A d \in Conns : MessagesTo(d) = {} /\ out[d] = <<>>
  BY DEF Init, MessagesTo, Range
<1>2. \A c \in Conns : PublishingOf(c)
  BY DEF Init, PublishingOf, PublishLabels, LoopLabels
<1>3. \A d \in Conns : StreamOf(d)
  BY <1>1 DEF StreamOf
<1>4. \A c \in Conns : SessionOf(c)
  BY <1>1 DEF Init, SessionOf, Failed
<1>5. MembersOnly /\ UniqueMessageIds
  BY <1>1, ByMessage
<1>6. PerSenderOrder /\ ErrorEndsSession
  BY <1>1 DEF PerSenderOrder, ErrorEndsSession
<1>. QED
  BY <1>2, <1>3, <1>4, <1>5, <1>6 DEF StreamsInv

(* Every step keeps the invariant of the streams.                          *)
LEMMA StreamsStep == RegistryInv /\ StreamsInv /\ [Next]_vars => StreamsInv'
<1>. SUFFICES ASSUME RegistryInv, StreamsInv, [Next]_vars
              PROVE  StreamsInv'
  OBVIOUS
<1>inv. /\ \A c \in Conns : PublishingOf(c) /\ StreamOf(c) /\ SessionOf(c)
        /\ MembersOnly /\ UniqueMessageIds /\ PerSenderOrder /\ ErrorEndsSession
  BY DEF StreamsInv
<1>1. ASSUME NEW c \in Conns, Step(c)
      PROVE  StreamsInv'
  <2>1. \A d \in Conns : PublishingOf(d)'
    BY <1>inv, <1>1, PublishingStep
  <2>2. \A d \in Conns : StreamOf(d)'
    BY <1>inv, <1>1, StreamStep
  <2>3. \A d \in Conns : SessionOf(d)'
    BY <1>inv, <1>1, SessionStep
  <2>4. MembersOnly' /\ UniqueMessageIds'
    BY <1>inv, <1>1, MembersStep, UniqueStep
  <2>5. PerSenderOrder' /\ ErrorEndsSession'
    BY <1>inv, <1>1, OrderStep, ErrorStep
  <2>. QED
    BY <2>1, <2>2, <2>3, <2>4, <2>5 DEF StreamsInv
<1>2. CASE UNCHANGED vars
  <2>. USE <1>2 DEF vars, registry, handlers, locals
  <2>1. \A c \in Conns : PublishingOf(c)' /\ SessionOf(c)'
    BY <1>inv DEF PublishingOf, SessionOf, Recorded, Failed
  <2>2. \A c \in Conns : StreamOf(c)'
    BY <1>inv DEF StreamOf, MessagesTo, MessageFrame
  <2>3. MembersOnly' /\ UniqueMessageIds'
    BY <1>inv DEF MembersOnly, UniqueMessageIds, Recorded, IsMessage
  <2>4. PerSenderOrder' /\ ErrorEndsSession'
    BY <1>inv DEF PerSenderOrder, ErrorEndsSession, IsMessage
  <2>. QED
    BY <2>1, <2>2, <2>3, <2>4 DEF StreamsInv
<1>. QED
  BY <1>1, <1>2, NextIsStep

(* The registry's invariant and the one of the streams hold of every       *)
(* execution of the server.                                                *)
THEOREM StreamsInvariance == Spec => []IndInv
<1>1. Init => IndInv
  BY RegistryInvInit, StreamsInit DEF IndInv
<1>2. IndInv /\ [Next]_vars => IndInv'
  BY RegistryInvStep, StreamsStep DEF IndInv
<1>. QED
  BY <1>1, <1>2, PTL DEF Spec

(* A message goes from a member of the topic to members, and carries the   *)
(* id the sender subscribed with.                                          *)
THEOREM OnlyMembers == Spec => []MembersOnly
<1>1. IndInv => MembersOnly
  BY DEF IndInv, StreamsInv
<1>. QED
  BY <1>1, StreamsInvariance, PTL

(* Two clients never get different messages under one id.                  *)
THEOREM IdsNameMessages == Spec => []UniqueMessageIds
<1>1. IndInv => UniqueMessageIds
  BY DEF IndInv, StreamsInv
<1>. QED
  BY <1>1, StreamsInvariance, PTL

(* A client gets the messages of one sender in their order, each once.     *)
THEOREM SendersOrder == Spec => []PerSenderOrder
<1>1. IndInv => PerSenderOrder
  BY DEF IndInv, StreamsInv
<1>. QED
  BY <1>1, StreamsInvariance, PTL

(* After an ERROR a client gets no CONNECTED and no second ERROR.          *)
THEOREM ErrorIsLast == Spec => []ErrorEndsSession
<1>1. IndInv => ErrorEndsSession
  BY DEF IndInv, StreamsInv
<1>. QED
  BY <1>1, StreamsInvariance, PTL

-----------------------------------------------------------------------------
(* Subscriptions are held, as long as nobody gives one up.                 *)

UnsubscribeLabels ==
    {"unsubscribe", "unsubscribe.get", "unsubscribe.remove", "unsubscribe.isEmpty",
     "unsubscribe.drop"}

(* The list a SUBSCRIBE works on is the map's, from computeIfAbsent to the *)
(* last write, and stays so: only unsubscribe takes a list out of the map. *)
HeldOf(c) ==
    /\ pc[c] \notin UnsubscribeLabels
    /\ pc[c] = "subscribe.add" =>
          subscriptions[topic[c]] # NoList /\ held[c] = subscriptions[topic[c]]
    /\ c \in clients => \A t \in Topics : Recorded(c, t) => c \in Subscribers(t)

NobodyUnsubscribes == \A c \in Conns : NeverUnsubscribes(c)

(* What a thread does at the labels this invariant speaks of.              *)
LEMMA HeldSteps ==
    ASSUME TypeOK, LocalsOK, NEW c \in Conns, Step(c), NeverUnsubscribes(c),
           pc[c] \notin UnsubscribeLabels
    PROVE  /\ pc'[c] \notin UnsubscribeLabels
           /\ pc'[c] = "subscribe.add" => SubscribeList(c) \/ UNCHANGED <<pc, topic, held>>
           /\ pc'[c] = "subscribe.put" => SubscribeAdd(c) \/ UNCHANGED <<pc, topic>>
<1>pc. pc \in [Conns -> Labels]
  BY DEF TypeOK
<1>. USE <1>pc DEF Goto, UnsubscribeLabels
<1>1. CASE PublishGet(c) \/ PublishSnapshot(c) \/ PublishLookup(c) \/ PublishWrite(c)
  BY <1>1 DEF PublishGet, PublishSnapshot, PublishLookup, PublishWrite
<1>2. CASE DisconnectRemove(c) \/ DisconnectClose(c)
  BY <1>2 DEF DisconnectRemove, DisconnectClose
<1>3. CASE DisconnectPurge(c)
  BY <1>3 DEF DisconnectPurge, LocalsOK, LocalsOf, DisconnectLabels, PurgeLabels
<1>4. CASE SubscribeList(c) \/ SubscribeAdd(c) \/ SubscribePut(c)
  BY <1>4 DEF SubscribeList, SubscribeAdd, SubscribePut
<1>5. CASE UnsubscribeGet(c) \/ UnsubscribeRemove(c) \/ UnsubscribeIsEmpty(c) \/ UnsubscribeDrop(c)
  BY <1>5 DEF UnsubscribeGet, UnsubscribeRemove, UnsubscribeIsEmpty, UnsubscribeDrop
<1>6. CASE IsSubscribedGet(c) \/ IsSubscribedContains(c)
  BY <1>6 DEF IsSubscribedGet, IsSubscribedContains
<1>7. CASE CredentialsGet(c) \/ CredentialsEquals(c) \/ CredentialsPut(c)
  BY <1>7 DEF CredentialsGet, CredentialsEquals, CredentialsPut
<1>8. CASE ConnectReject(c) \/ ConnectVersion(c) \/ HandleDisconnect(c) \/ SendReject(c)
  BY <1>8
     DEF ConnectReject, ConnectVersion, HandleDisconnect, SendReject, Reject, CallDisconnect
<1>9. CASE SendHeader(c)
  BY <1>9 DEF SendHeader
<1>10. CASE HandleSubscribe(c) \/ HandleUnsubscribe(c) \/ Receipt(c)
  BY <1>10 DEF HandleSubscribe, HandleUnsubscribe, Receipt, Reject, CallDisconnect
<1>11. CASE Loop(c) \/ ReadEnd(c) \/ Close(c)
  BY <1>11 DEF Loop, ReadEnd, Close
<1>12. CASE ReadFrame(c)
  <2>1. \A f \in Script[c] : f.command \in Commands \ {"UNSUBSCRIBE"}
    BY ServerAssumption DEF ClientFrame, NeverUnsubscribes
  <2>2. \A f \in Script[c] :
           Handler(f) \notin UnsubscribeLabels \cup {"subscribe.add", "subscribe.put"}
    BY <2>1 DEF Handler, Commands
  <2>3. pc[c] = "read" /\ \E f \in Script[c] : pc'[c] = Handler(f)
    BY <1>12 DEF ReadFrame
  <2>. QED
    BY <2>2, <2>3
<1>13. CASE Register(c) \/ Execute(c) \/ PeerClose(c) \/ ClientReceive(c)
  BY <1>13 DEF Register, Execute, PeerClose, ClientReceive, protocolVars, locals
<1>. QED
  BY <1>1, <1>2, <1>3, <1>4, <1>5, <1>6, <1>7, <1>8, <1>9, <1>10, <1>11, <1>12, <1>13
     DEF Step, ThreadStep, ProtocolStep, ConnectionsStep

(* Only its own disconnect takes a connection out of the list the map has. *)
LEMMA SubscriberStays ==
    ASSUME TypeOK, LocalsOK, ListsOK, NEW c \in Conns, Step(c), pc[c] \notin UnsubscribeLabels,
           NEW d \in Conns, NEW t \in Topics, d \in Subscribers(t), d # c \/ ~DisconnectPurge(c)
    PROVE  d \in Subscribers(t)'
<1>. DEFINE g == subscriptions[t]
<1>1. g # NoList /\ g \in ListIds /\ d \in Range(lists[t][g]) /\ lists[t][g] \in Seq(Conns)
  BY DEF Subscribers, TypeOK
<1>2. ~UnsubscribeDrop(c) /\ ~UnsubscribeRemove(c)
  BY DEF UnsubscribeLabels, UnsubscribeDrop, UnsubscribeRemove
<1>3. subscriptions'[t] = g
  <2>1. CASE SubscribeList(c)
    BY <1>1, <2>1 DEF SubscribeList, TypeOK
  <2>. QED
    BY <1>2, <2>1, Writers
<1>4. d \in Range(lists'[t][g])
  <2>1. CASE d # c
    <3>1. Range(Append(lists[t][g], c)) = Range(lists[t][g]) \cup {c}
      BY <1>1, AppendFacts
    <3>2. d \in Range(RemoveFirst(lists[t][g], c))
      BY <1>1, <2>1, RemoveFirstKeeps
    <3>3. \/ lists'[t][g] = lists[t][g]
          \/ lists'[t][g] = RemoveFirst(lists[t][g], c)
          \/ lists'[t][g] = Append(lists[t][g], c)
      BY <1>1, ListChange
    <3>. QED
      BY <1>1, <3>1, <3>2, <3>3
  <2>2. CASE UNCHANGED lists
    BY <1>1, <2>2
  <2>3. CASE SubscribeAdd(c)
    <3>1. \/ lists'[t][g] = lists[t][g]
          \/ lists'[t][g] = Append(lists[t][g], c)
      <4>1. lists \in [Topics -> [ListIds -> Seq(Conns)]]
        BY DEF TypeOK
      <4>2. lists' = [lists EXCEPT ![topic[c]][held[c]] = Append(@, c)]
        BY <2>3 DEF SubscribeAdd
      <4>. QED
        BY ONLY <1>1, <4>1, <4>2, t \in Topics
    <3>2. Range(Append(lists[t][g], c)) = Range(lists[t][g]) \cup {c}
      BY <1>1, AppendFacts
    <3>. QED
      BY <1>1, <3>1, <3>2
  <2>. QED
    BY <1>2, <2>1, <2>2, <2>3, Writers
<1>. QED
  BY <1>1, <1>3, <1>4 DEF Subscribers

(* A record that a step makes is made by the SUBSCRIBE that has put the    *)
(* connection into the list before.                                        *)
LEMMA RecordedBefore ==
    ASSUME TypeOK, LocalsOK, NEW c \in Conns, Step(c), NeverUnsubscribes(c),
           pc[c] \notin UnsubscribeLabels, NEW d \in Conns, NEW t \in Topics, Recorded(d, t)'
    PROVE  Recorded(d, t) \/ (d = c /\ SubscribeAdd(c) /\ topic[c] = t)
<1>types. clientsTo_subscriptionsId \in [Conns -> [Topics -> SubIds \cup {None}]]
  BY DEF TypeOK
<1>1. CASE clientsTo_subscriptionsId'[d][t] # None
  <2>1. CASE SubscribePut(c)
    <3>1. \/ clientsTo_subscriptionsId'[d][t] = clientsTo_subscriptionsId[d][t]
          \/ d = c /\ t = topic[c]
      BY <1>types, <2>1 DEF SubscribePut
    <3>2. pc[c] = "subscribe.put"
      BY <2>1 DEF SubscribePut
    <3>. QED
      BY <1>1, <3>1, <3>2 DEF Recorded
  <2>. QED
    BY <1>1, <2>1, Writers DEF Recorded
<1>2. CASE pc'[d] = "subscribe.put" /\ topic'[d] = t
  <2>1. CASE d # c
    BY <1>2, <2>1, OtherThreads DEF SameThread, Recorded
  <2>2. CASE d = c /\ SubscribeAdd(c)
    BY <1>2, <2>2 DEF SubscribeAdd, locals
  <2>3. CASE d = c /\ UNCHANGED <<pc, topic>>
    BY <1>2, <2>3 DEF Recorded
  <2>. QED
    BY <1>2, <2>1, <2>2, <2>3, HeldSteps
<1>. QED
  BY <1>1, <1>2 DEF Recorded

LEMMA HeldStep ==
    ASSUME IndInv, NobodyUnsubscribes, \A e \in Conns : HeldOf(e), NEW c \in Conns, Step(c),
           NEW d \in Conns
    PROVE  HeldOf(d)'
<1>inv. /\ TypeOK /\ LocalsOK /\ ListsOK /\ ServedOK
        /\ pc[c] \notin UnsubscribeLabels /\ NeverUnsubscribes(c)
  BY DEF IndInv, RegistryInv, NobodyUnsubscribes, HeldOf
<1>types. /\ subscriptions \in [Topics -> ListIds \cup {NoList}]
          /\ held \in [Conns -> ListIds \cup {NoList}]
          /\ created \in [Topics -> 0 .. MaxLists]
          /\ clients \subseteq Conns
          /\ lists \in [Topics -> [ListIds -> Seq(Conns)]]
  BY <1>inv DEF TypeOK
<1>1. pc'[d] \notin UnsubscribeLabels
  <2>1. CASE d = c
    BY <1>inv, <2>1, HeldSteps
  <2>2. CASE d # c
    BY <1>inv, <2>2, OtherThreads DEF SameThread, HeldOf
  <2>. QED
    BY <2>1, <2>2
<1>2. ASSUME pc'[d] = "subscribe.add"
      PROVE  subscriptions'[topic'[d]] # NoList /\ held'[d] = subscriptions'[topic'[d]]
  <2>1. CASE d = c /\ SubscribeList(c)
    <3>1. topic[c] \in Topics /\ created[topic[c]] \in Nat /\ topic' = topic
      BY <1>inv, <1>types, <2>1, ConnectionsAssumption
         DEF SubscribeList, LocalsOK, LocalsOf, TopicLabels
    <3>. QED
      BY <1>types, <2>1, <3>1 DEF SubscribeList, NoList
  <2>2. CASE pc[d] = "subscribe.add" /\ UNCHANGED <<topic[d], held[d]>>
    <3>1. topic[d] \in Topics
      BY <1>inv, <2>2 DEF LocalsOK, LocalsOf, TopicLabels, ListLabels
    <3>2. subscriptions[topic[d]] # NoList /\ held[d] = subscriptions[topic[d]]
      BY <2>2 DEF HeldOf
    <3>3. subscriptions'[topic[d]] = subscriptions[topic[d]]
      <4>1. CASE SubscribeList(c)
        BY <1>types, <3>1, <3>2, <4>1 DEF SubscribeList
      <4>2. ~UnsubscribeDrop(c)
        BY <1>inv DEF UnsubscribeDrop, UnsubscribeLabels
      <4>. QED
        BY <4>1, <4>2, Writers
    <3>. QED
      BY <2>2, <3>2, <3>3
  <2>3. CASE d # c
    BY <1>inv, <1>2, <2>2, <2>3, OtherThreads DEF SameThread
  <2>4. CASE d = c /\ UNCHANGED <<pc, topic, held>>
    BY <1>2, <2>2, <2>4
  <2>. QED
    BY <1>inv, <1>2, <2>1, <2>3, <2>4, HeldSteps
<1>3. ASSUME d \in clients', NEW t \in Topics, Recorded(d, t)'
      PROVE  d \in Subscribers(t)'
  <2>1. CASE d \in clients /\ Recorded(d, t)
    <3>1. d \in Subscribers(t)
      BY <2>1 DEF HeldOf
    <3>2. DisconnectPurge(c) => c \notin clients
      BY <1>inv DEF ServedOK, ServedOf, DisconnectPurge, PurgeLabels
    <3>. QED
      BY <1>inv, <2>1, <3>1, <3>2, SubscriberStays
  <2>2. CASE d = c /\ SubscribeAdd(c) /\ topic[c] = t
    <3>1. pc[c] = "subscribe.add"
      BY <2>2 DEF SubscribeAdd
    <3>2. subscriptions[t] # NoList /\ held[c] = subscriptions[t]
      BY <2>2, <3>1 DEF HeldOf
    <3>3. held[c] \in ListIds /\ lists[t][held[c]] \in Seq(Conns)
      BY <1>types, <3>2
    <3>4. lists'[t][held[c]] = Append(lists[t][held[c]], c)
      <4>1. lists' = [lists EXCEPT ![topic[c]][held[c]] = Append(@, c)]
        BY <2>2 DEF SubscribeAdd
      <4>. QED
        BY <1>types, <2>2, <3>3, <4>1
    <3>5. c \in Range(lists'[t][held[c]])
      BY <3>3, <3>4, AppendFacts
    <3>6. subscriptions' = subscriptions
      BY <2>2 DEF SubscribeAdd
    <3>. QED
      BY <2>2, <3>2, <3>5, <3>6 DEF Subscribers
  <2>3. CASE d \notin clients /\ Recorded(d, t)
    <3>1. Register(c) /\ d = c
      BY <1>3, <2>3, Writers DEF Register, DisconnectRemove
    <3>2. pc[c] = "none" /\ clientsTo_subscriptionsId[c][t] = None
      BY <3>1 DEF Register, IndInv, StreamsInv, SessionOf
    <3>. QED
      BY <2>3, <3>1, <3>2 DEF Recorded
  <2>. QED
    BY <1>inv, <1>3, <2>1, <2>2, <2>3, RecordedBefore
<1>. QED
  BY <1>1, <1>2, <1>3 DEF HeldOf

(* Unless somebody sends an UNSUBSCRIBE, no interleaving of subscribe,     *)
(* publish and disconnect loses a subscription: a registered connection    *)
(* with a record of one is in the list the map has for the topic.  (With   *)
(* one it can be lost; that is what the run of SubscriptionHeld with an    *)
(* UNSUBSCRIBE in its scripts shows.)                                      *)
THEOREM SubscriptionsAreHeld ==
    ASSUME NobodyUnsubscribes
    PROVE  Spec => []SubscriptionHeld
<1>. DEFINE Held == \A c \in Conns : HeldOf(c)
<1>1. Init => Held
  BY DEF Init, HeldOf, UnsubscribeLabels
<1>2. IndInv /\ Held /\ [Next]_vars => Held'
  <2>. SUFFICES ASSUME IndInv, Held, [Next]_vars
                PROVE  \A d \in Conns : HeldOf(d)'
    OBVIOUS
  <2>1. CASE UNCHANGED vars
    BY <2>1 DEF HeldOf, Recorded, Subscribers, vars, registry, handlers, locals
  <2>2. ASSUME NEW c \in Conns, Step(c) PROVE \A d \in Conns : HeldOf(d)'
    BY <2>2, HeldStep
  <2>. QED
    BY <2>1, <2>2, NextIsStep
<1>3. IndInv /\ Held => SubscriptionHeld
  BY DEF HeldOf, SubscriptionHeld, Recorded, IndInv, RegistryInv, TypeOK
<1>. QED
  BY <1>1, <1>2, <1>3, StreamsInvariance, PTL DEF Spec

-----------------------------------------------------------------------------
(* The refinement of StompSession.                                         *)

PhaseBar == [c \in Conns |-> Phase(c)]
StreamBar == [c \in Conns |-> [i \in DOMAIN out[c] |-> Seen(out[c][i])]]

(* What is seen of a stream grows with it.                                 *)
LEMMA SeenAppend ==
    ASSUME out \in [Conns -> Seq(ServerFrame)], NEW d \in Conns, NEW f,
           out' = [out EXCEPT ![d] = Append(@, f)]
    PROVE  StreamBar' = [StreamBar EXCEPT ![d] = Append(@, Seen(f))]
<1>. DEFINE n == Len(out[d])
            s == [i \in DOMAIN out[d] |-> Seen(out[d][i])]
<1>1. /\ n \in Nat /\ DOMAIN out[d] = 1 .. n /\ DOMAIN out'[d] = 1 .. n + 1
      /\ \A i \in 1 .. n : out'[d][i] = out[d][i]
      /\ out'[d][n + 1] = f
      /\ \A e \in Conns : e # d => out'[e] = out[e]
  BY StreamAppend
<1>2. s \in Seq({Seen(out[d][i]) : i \in 1 .. n}) /\ Len(s) = n
  BY <1>1
<1>3. [i \in DOMAIN out'[d] |-> Seen(out'[d][i])] = Append(s, Seen(f))
  <2>1. /\ DOMAIN Append(s, Seen(f)) = 1 .. n + 1
        /\ \A i \in 1 .. n : Append(s, Seen(f))[i] = s[i]
        /\ Append(s, Seen(f))[n + 1] = Seen(f)
        /\ Append(s, Seen(f)) = [i \in 1 .. n + 1 |-> Append(s, Seen(f))[i]]
    BY <1>1, <1>2
  <2>2. \A i \in 1 .. n + 1 : Seen(out'[d][i]) = Append(s, Seen(f))[i]
    <3>1. ASSUME NEW i \in 1 .. n
          PROVE  Seen(out'[d][i]) = Append(s, Seen(f))[i]
      BY <1>1, <2>1
    <3>2. Seen(out'[d][n + 1]) = Append(s, Seen(f))[n + 1]
      BY <1>1, <2>1
    <3>3. \A i \in 1 .. n + 1 : i \in 1 .. n \/ i = n + 1
      BY <1>1
    <3>. QED
      BY <3>1, <3>2, <3>3
  <2>. QED
    BY <1>1, <2>1, <2>2
<1>. QED
  BY <1>1, <1>3 DEF StreamBar

(* The kind of what is seen is the command of the frame.                   *)
LEMMA SeenFacts ==
    ASSUME NEW f
    PROVE  /\ Seen(f).kind = "Message" <=> f.command = "Message"
           /\ f.command = "Message" =>
                Seen(f) = [kind |-> "Message", from |-> f.from, id |-> f.messageId]
           /\ f.command # "Message" => Seen(f) = [kind |-> f.command]
BY DEF Seen

(* A phase changes with the socket, the registration or an ERROR only.     *)
LEMMA PhaseSame ==
    ASSUME NEW d \in Conns, pc'[d] = "none" <=> pc[d] = "none", sock'[d] = sock[d],
           Failed(d)' <=> Failed(d)
    PROVE  Phase(d)' = Phase(d)
BY DEF Phase

(* What is said to a client is said in its open or failed session.         *)
LEMMA PhaseFacts ==
    ASSUME NEW d \in Conns, sock[d] \in {"open", "closed"}
    PROVE  /\ pc[d] = "none" => Phase(d) = "absent"
           /\ pc[d] # "none" /\ sock[d] = "closed" => Phase(d) = "ended"
           /\ pc[d] # "none" /\ sock[d] = "open" /\ Failed(d) => Phase(d) = "failed"
           /\ pc[d] # "none" /\ sock[d] = "open" /\ ~Failed(d) => Phase(d) = "open"
BY DEF Phase

(* An ERROR is in a stream that has grown if it was, or is the new frame.  *)
LEMMA FailedAppend ==
    ASSUME out \in [Conns -> Seq(ServerFrame)], NEW d \in Conns, NEW f,
           out' = [out EXCEPT ![d] = Append(@, f)]
    PROVE  /\ Failed(d)' <=> Failed(d) \/ f.command = "ERROR"
           /\ \A e \in Conns : e # d => (Failed(e)' <=> Failed(e))
<1>1. /\ Len(out[d]) \in Nat /\ DOMAIN out[d] = 1 .. Len(out[d])
      /\ DOMAIN out'[d] = 1 .. Len(out[d]) + 1
      /\ \A k \in 1 .. Len(out[d]) : out'[d][k] = out[d][k]
      /\ out'[d][Len(out[d]) + 1] = f
      /\ \A e \in Conns : e # d => out'[e] = out[e]
  BY StreamAppend
<1>2. \A i \in DOMAIN out'[d] : i \in DOMAIN out[d] \/ i = Len(out[d]) + 1
  BY <1>1
<1>3. DOMAIN out[d] \subseteq DOMAIN out'[d] /\ Len(out[d]) + 1 \in DOMAIN out'[d]
  BY <1>1
<1>4. Failed(d)' <=> Failed(d) \/ f.command = "ERROR"
  BY <1>1, <1>2, <1>3 DEF Failed
<1>. QED
  BY <1>1, <1>4 DEF Failed

(* A reply: Accept or Refuse.                                              *)
LEMMA AnswersSimulates ==
    ASSUME IndInv, NEW c \in Conns, Step(c), Answers(c)
    PROVE  Session!Accept(c) \/ Session!Refuse(c)
<1>types. /\ out \in [Conns -> Seq(ServerFrame)] /\ sock \in [Conns -> {"open", "closed"}]
          /\ TypeOK /\ LocalsOK
  BY DEF IndInv, RegistryInv, TypeOK
<1>same. \A d \in Conns : (pc'[d] = "none" <=> pc[d] = "none") /\ sock'[d] = sock[d]
  BY <1>types, OtherThreads DEF Answers, SameThread, PublishLabels
<1>before. ~Failed(c) /\ Phase(c) = "open"
  BY <1>types, PhaseFacts DEF Answers, IndInv, StreamsInv, SessionOf, PublishLabels
<1>1. CASE out' = [out EXCEPT ![c] = Append(@, Reply("CONNECTED", FALSE))]
  <2>0. Reply("CONNECTED", FALSE).command # "ERROR"
    BY DEF Reply
  <2>a. /\ Failed(c)' <=> Failed(c)
        /\ \A e \in Conns : e # c => (Failed(e)' <=> Failed(e))
    <3>. DEFINE g == Reply("CONNECTED", FALSE)
    <3>1. out' = [out EXCEPT ![c] = Append(@, g)] /\ g.command # "ERROR"
      BY <1>1, <2>0
    <3>. HIDE DEF g
    <3>. QED
      BY <1>types, <3>1, FailedAppend
  <2>1. \A d \in Conns : Failed(d)' <=> Failed(d)
    BY <2>a
  <2>2. PhaseBar' = PhaseBar
    BY <1>same, <2>1, PhaseSame DEF PhaseBar
  <2>3. StreamBar' = [StreamBar EXCEPT ![c] = Append(@, [kind |-> "CONNECTED"])]
    BY <1>types, <1>1, SeenAppend DEF Reply, Seen
  <2>. QED
    BY <1>before, <2>2, <2>3 DEF Session!Accept, Session!Extend, PhaseBar, StreamBar, Answers
<1>2. CASE out' = [out EXCEPT ![c] = Append(@, Reply("ERROR", FALSE))]
  <2>0. Reply("ERROR", FALSE).command = "ERROR"
    BY DEF Reply
  <2>a. /\ Failed(c)' <=> Failed(c) \/ TRUE
        /\ \A e \in Conns : e # c => (Failed(e)' <=> Failed(e))
    <3>. DEFINE g == Reply("ERROR", FALSE)
    <3>1. out' = [out EXCEPT ![c] = Append(@, g)] /\ g.command = "ERROR"
      BY <1>2, <2>0
    <3>. HIDE DEF g
    <3>. QED
      BY <1>types, <3>1, FailedAppend
  <2>1. Failed(c)' /\ \A d \in Conns \ {c} : Failed(d)' <=> Failed(d)
    BY <2>a
  <2>2. Phase(c)' = "failed"
    BY <1>types, <1>same, <2>1 DEF Answers, Phase
  <2>3. PhaseBar' = [PhaseBar EXCEPT ![c] = "failed"]
    BY <1>same, <2>1, <2>2, PhaseSame DEF PhaseBar
  <2>4. StreamBar' = [StreamBar EXCEPT ![c] = Append(@, [kind |-> "ERROR"])]
    BY <1>types, <1>2, SeenAppend DEF Reply, Seen
  <2>. QED
    BY <1>before, <2>3, <2>4 DEF Session!Refuse, Session!Extend, PhaseBar, StreamBar, Answers
<1>. QED
  BY <1>1, <1>2 DEF Answers

(* A message written to a receiver: Deliver.                               *)
LEMMA DeliversSimulates ==
    ASSUME IndInv, NEW c \in Conns, Step(c), Delivers(c)
    PROVE  \E d \in Conns : Session!Deliver(d)
<1>types. /\ out \in [Conns -> Seq(ServerFrame)] /\ sock \in [Conns -> {"open", "closed"}]
          /\ TypeOK /\ LocalsOK /\ RegistryInv
          /\ messageIDCounter \in Nat
  BY DEF IndInv, RegistryInv, TypeOK
<1>inv. \A e \in Conns : PublishingOf(e) /\ StreamOf(e) /\ SessionOf(e)
  BY DEF IndInv, StreamsInv
<1>. DEFINE f == MessageFrame(c)
<1>1. PICK d \in Conns, t \in Topics :
         /\ d = Head(receivers[c]) /\ d \in Range(receivers[c])
         /\ t = topic[c] /\ Recorded(d, t)
  BY <1>types, <1>inv, DeliveryFacts
<1>2. /\ f.command = "Message" /\ f.from = c /\ f.messageId = messageId[c]
      /\ messageId[c] \in 1 .. messageIDCounter
  BY <1>types, <1>inv, DeliveryFacts
<1>3. out' = [out EXCEPT ![d] = Append(@, f)] /\ sock[d] = "open"
      /\ UNCHANGED <<sock, messageIDCounter>>
  BY <1>1 DEF Delivers, registry
<1>4. pc[d] # "none"
  BY <1>1, <1>inv DEF SessionOf, Recorded
<1>5. Phase(d) \in {"open", "failed"}
  BY <1>3, <1>4, PhaseFacts
<1>6. PhaseBar' = PhaseBar
  <2>1. \A e \in Conns : Failed(e)' <=> Failed(e)
    BY <1>types, <1>2, <1>3, FailedAppend
  <2>2. \A e \in Conns : pc'[e] = "none" <=> pc[e] = "none"
    BY <1>types DEF Delivers, TypeOK
  <2>. QED
    BY <1>3, <2>1, <2>2, PhaseSame DEF PhaseBar
<1>. DEFINE m == [kind |-> "Message", from |-> c, id |-> messageId[c]]
<1>7. Seen(f) = m /\ m \in [kind : {"Message"}, from : Conns, id : 1 .. messageIDCounter]
  BY <1>2, SeenFacts
<1>8. StreamBar' = [StreamBar EXCEPT ![d] = Append(@, m)]
  BY <1>types, <1>3, <1>7, SeenAppend
<1>9. ASSUME NEW e \in Conns, NEW i \in DOMAIN out[e], Seen(out[e][i]).kind = "Message"
      PROVE  /\ Seen(out[e][i]) = [kind |-> "Message", from |-> out[e][i].from,
                                   id |-> out[e][i].messageId]
             /\ e = d /\ out[e][i].from = c => out[e][i].messageId < messageId[c]
             /\ out[e][i].messageId = messageId[c] => out[e][i] = f
  <2>1. out[e][i].command = "Message"
    BY <1>9, SeenFacts
  <2>2. out[e][i] \in MessagesTo(e)
    BY <2>1 DEF MessagesTo, Range
  <2>3. pc[c] \in PublishLabels
    BY DEF Delivers, PublishLabels, LoopLabels
  <2>4. /\ out[e][i].from = c => out[e][i].messageId <= messageId[c]
        /\ out[e][i].messageId = messageId[c] => out[e][i] = f /\ e \notin Range(receivers[c])
        /\ out[e][i].messageId \in 1 .. messageIDCounter
    BY <1>inv, <2>2, <2>3 DEF StreamOf
  <2>5. e = d /\ out[e][i].from = c => out[e][i].messageId < messageId[c]
    BY <1>1, <1>2, <2>4
  <2>. QED
    BY <2>1, <2>4, <2>5, SeenFacts
<1>10. ASSUME NEW i \in DOMAIN StreamBar[d], StreamBar[d][i].kind = "Message",
              StreamBar[d][i].from = c
       PROVE  StreamBar[d][i].id < messageId[c]
  <2>1. i \in DOMAIN out[d] /\ StreamBar[d][i] = Seen(out[d][i])
    BY <1>10 DEF StreamBar
  <2>2. Seen(out[d][i]).kind = "Message" /\ Seen(out[d][i]).from = c
    BY <1>10, <2>1
  <2>3. /\ Seen(out[d][i]) = [kind |-> "Message", from |-> out[d][i].from,
                               id |-> out[d][i].messageId]
        /\ out[d][i].from = c => out[d][i].messageId < messageId[c]
    BY <1>9, <2>1, <2>2
  <2>4. Seen(out[d][i]).from = out[d][i].from /\ Seen(out[d][i]).id = out[d][i].messageId
    BY <2>3
  <2>. QED
    BY <2>1, <2>2, <2>3, <2>4
<1>11. ASSUME NEW e \in Conns, NEW i \in DOMAIN StreamBar[e], StreamBar[e][i].kind = "Message",
              StreamBar[e][i].id = messageId[c]
       PROVE  StreamBar[e][i] = m
  <2>1. i \in DOMAIN out[e] /\ StreamBar[e][i] = Seen(out[e][i])
    BY <1>11 DEF StreamBar
  <2>a. Seen(out[e][i]).kind = "Message" /\ Seen(out[e][i]).id = messageId[c]
    BY <1>11, <2>1
  <2>b. /\ Seen(out[e][i]) = [kind |-> "Message", from |-> out[e][i].from,
                               id |-> out[e][i].messageId]
        /\ out[e][i].messageId = messageId[c] => out[e][i] = f
    BY <1>9, <2>1, <2>a
  <2>2. out[e][i] = f
    BY <2>a, <2>b
  <2>. QED
    BY <1>7, <2>1, <2>2
<1>12. Session!Deliver(d)
  <2>1. /\ PhaseBar[d] \in {"open", "failed"} /\ m.from = c /\ m.id = messageId[c]
    BY <1>5 DEF PhaseBar
  <2>2. \A i \in Session!Messages(d) : StreamBar[d][i].from = m.from => StreamBar[d][i].id < m.id
    BY <1>10, <2>1 DEF Session!Messages, StreamBar
  <2>3. \A e \in Conns : \A i \in Session!Messages(e) :
           StreamBar[e][i].id = m.id => StreamBar[e][i] = m
    BY <1>11, <2>1 DEF Session!Messages, StreamBar
  <2>. QED
    BY <1>3, <1>6, <1>7, <1>8, <2>1, <2>2, <2>3
       DEF Session!Deliver, Session!Extend, PhaseBar, StreamBar
<1>. QED
  BY <1>12

(* A step that writes nothing opens or ends a session, draws an id, or is  *)
(* not seen.                                                               *)
LEMMA SilentSimulates ==
    ASSUME IndInv, NEW c \in Conns, Step(c), UNCHANGED out
    PROVE  [Session!Next]_Session!vars
<1>types. /\ sock \in [Conns -> {"open", "closed"}]
          /\ TypeOK /\ LocalsOK /\ pc \in [Conns -> Labels]
  BY DEF IndInv, RegistryInv, TypeOK
<1>stream. StreamBar' = StreamBar /\ \A d \in Conns : Failed(d)' <=> Failed(d)
  BY DEF StreamBar, Failed
<1>others. \A d \in Conns \ {c} : pc'[d] = pc[d]
  BY <1>types, OtherThreads DEF SameThread
<1>1. CASE Register(c)
  <2>1. pc[c] = "none" /\ pc'[c] # "none" /\ UNCHANGED <<sock, messageIDCounter>>
    BY <1>1, <1>types DEF Register, Goto, handlers
  <2>2. sock[c] = "open" /\ ~Failed(c)
    BY <2>1 DEF IndInv, StreamsInv, SessionOf, Failed
  <2>3. Phase(c) = "absent" /\ Phase(c)' = "open"
    BY <1>stream, <2>1, <2>2 DEF Phase
  <2>4. PhaseBar' = [PhaseBar EXCEPT ![c] = "open"]
    BY <1>stream, <1>others, <2>1, <2>3, PhaseSame DEF PhaseBar
  <2>5. Session!Open(c)
    BY <1>stream, <2>1, <2>3, <2>4 DEF Session!Open, PhaseBar, StreamBar
  <2>. QED
    BY <2>5 DEF Session!Next
<1>2. CASE ~Register(c) /\ UNCHANGED sock
  <2>1. \A d \in Conns : pc'[d] = "none" <=> pc[d] = "none"
    BY <1>2, <1>types, <1>others, NoneStep
  <2>2. PhaseBar' = PhaseBar
    BY <1>2, <1>stream, <2>1, PhaseSame DEF PhaseBar
  <2>3. messageIDCounter' = messageIDCounter \/ messageIDCounter' = messageIDCounter + 1
    BY StreamWriters DEF SendHeader
  <2>. QED
    BY <1>stream, <2>2, <2>3 DEF Session!Next, Session!Publish, Session!vars, PhaseBar, StreamBar
<1>3. CASE /\ ~Register(c)
           /\ sock' = [sock EXCEPT ![c] = "closed"]
           /\ pc[c] \in {"disconnect.close", "closing"}
  <2>1. \A d \in Conns : pc'[d] = "none" <=> pc[d] = "none"
    BY <1>3, <1>types, <1>others, NoneStep
  <2>2. UNCHANGED messageIDCounter
    BY <1>3, StreamWriters DEF SendHeader
  <2>3. \A d \in Conns \ {c} : Phase(d)' = Phase(d)
    BY <1>3, <1>types, <1>stream, <2>1, PhaseSame
  <2>4. CASE sock[c] = "closed"
    <3>1. PhaseBar' = PhaseBar
      BY <1>3, <1>types, <1>stream, <2>1, <2>3, <2>4, PhaseSame DEF PhaseBar
    <3>. QED
      BY <1>stream, <2>2, <3>1 DEF Session!vars, PhaseBar, StreamBar
  <2>5. CASE sock[c] = "open"
    <3>1. Phase(c) \in {"open", "failed"} /\ Phase(c)' = "ended"
      BY <1>3, <1>types, <2>1, <2>5 DEF Phase
    <3>2. PhaseBar' = [PhaseBar EXCEPT ![c] = "ended"]
      BY <2>3, <3>1 DEF PhaseBar
    <3>3. Session!End(c)
      BY <1>stream, <2>2, <3>1, <3>2 DEF Session!End, PhaseBar, StreamBar
    <3>. QED
      BY <3>3 DEF Session!Next
  <2>. QED
    BY <1>types, <2>4, <2>5
<1>. QED
  BY <1>1, <1>2, <1>3, StreamWriters

(* The server implements the sessions: a stream only grows, while its      *)
(* session is open or failed, by at most one ERROR, and by messages in     *)
(* their senders' order and under ids of their own.                        *)
THEOREM ServerImplementsSession == Spec => ImplementsSession
<1>1. Init => Session!Init
  <2>. SUFFICES ASSUME Init
                PROVE  Session!Init
    OBVIOUS
  <2>1. \A c \in Conns : Phase(c) = "absent"
    BY DEF Init, Phase
  <2>2. \A c \in Conns : [i \in DOMAIN out[c] |-> Seen(out[c][i])] = <<>>
    BY DEF Init
  <2>. QED
    BY <2>1, <2>2 DEF Init, Session!Init
<1>2. IndInv /\ [Next]_vars => [Session!Next]_Session!vars
  <2>. SUFFICES ASSUME IndInv, [Next]_vars
                PROVE  [Session!Next]_Session!vars
    OBVIOUS
  <2>1. ASSUME NEW c \in Conns, Step(c)
        PROVE  [Session!Next]_Session!vars
    <3>1. UNCHANGED out \/ Answers(c) \/ Delivers(c)
      BY <2>1, OutChange DEF IndInv, RegistryInv
    <3>2. CASE Answers(c)
      BY <2>1, <3>2, AnswersSimulates DEF Session!Next
    <3>3. CASE Delivers(c)
      BY <2>1, <3>3, DeliversSimulates DEF Session!Next
    <3>. QED
      BY <2>1, <3>1, <3>2, <3>3, SilentSimulates
  <2>2. CASE UNCHANGED vars
    BY <2>2 DEF vars, registry, handlers, locals, Session!vars, Phase, Failed
  <2>. QED
    BY <2>1, <2>2, NextIsStep
<1>. QED
  BY <1>1, <1>2, StreamsInvariance, PTL DEF Spec, ImplementsSession, Session!Spec

===============================================================================
