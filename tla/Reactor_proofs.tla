----------------------------- MODULE Reactor_proofs -----------------------------
(***************************************************************************)
(* Proofs about the reactor: requests for the selector thread are not lost *)
(* and not slept over, and nothing but a client that leaves, or a session  *)
(* closed early, ends the selector thread.                                 *)
(***************************************************************************)
EXTENDS Reactor, SequenceLemmas, TLAPS

-----------------------------------------------------------------------------
(* Frames and bytes.                                                       *)

(* How many frames some bytes complete, and what is left.                  *)
LEMMA FrameNumber ==
    ASSUME NEW L \in Nat \ {0}, NEW d \in Nat
    PROVE  d \div L \in Nat /\ d % L \in 0 .. L - 1
OBVIOUS

(* Decoding what a frame misses completes it, decoding less does not.      *)
LEMMA FrameCount ==
    ASSUME NEW L \in Nat \ {0}, NEW d \in Nat, NEW n \in Nat, n <= L - (d % L)
    PROVE  /\ d \div L \in Nat /\ d % L \in 0 .. L - 1
           /\ n = L - (d % L) => (d + n) \div L = (d \div L) + 1
           /\ n # L - (d % L) => (d + n) \div L = d \div L
<1>1. \A x \in Nat : /\ x \div L \in Nat /\ x % L \in 0 .. L - 1
                     /\ x = L * (x \div L) + (x % L)
  OBVIOUS
<1>2. \A a, b \in Nat : a < b => L * a + L <= L * b
  <2>. TAKE a, b \in Nat
  <2>. HAVE a < b
  <2>1. PICK k \in Nat : b = a + 1 + k
    <3>. b - a - 1 \in Nat /\ b = a + 1 + (b - a - 1)
      OBVIOUS
    <3>. QED
      OBVIOUS
  <2>2. L * b = L * a + L + L * k /\ L * k \in Nat /\ L * a \in Nat
    BY <2>1
  <2>. QED
    BY <2>2
<1>3. \A q, r \in Nat, p, s \in Nat :
         r < L /\ s < L /\ L * q + r = L * p + s => q = p
  <2>. SUFFICES ASSUME NEW q \in Nat, NEW r \in Nat, NEW p \in Nat, NEW s \in Nat,
                       r < L, s < L, L * q + r = L * p + s
                PROVE  ~(q < p) /\ ~(p < q)
    OBVIOUS
  <2>1. L * q \in Nat /\ L * p \in Nat
    OBVIOUS
  <2>2. ASSUME q < p PROVE FALSE
    <3>1. L * q + L <= L * p
      BY <1>2, <2>2
    <3>. QED
      BY <2>1, <3>1
  <2>3. ASSUME p < q PROVE FALSE
    <3>1. L * p + L <= L * q
      BY <1>2, <2>3
    <3>. QED
      BY <2>1, <3>1
  <2>. QED
    BY <2>2, <2>3
<1>. DEFINE q == d \div L  r == d % L  p == (d + n) \div L  s == (d + n) % L
<1>4. /\ q \in Nat /\ r \in 0 .. L - 1 /\ d = L * q + r
      /\ p \in Nat /\ s \in 0 .. L - 1 /\ d + n = L * p + s
  <2>1. d + n \in Nat
    OBVIOUS
  <2>. QED
    BY <1>1, <2>1
<1>. HIDE DEF q, r, p, s
<1>5. ASSUME n = L - r PROVE p = q + 1
  <2>1. L * (q + 1) = L * q + L /\ L * q \in Nat
    BY <1>4
  <2>2. L * p + s = L * (q + 1) + 0
    BY <1>4, <1>5, <2>1
  <2>. QED
    BY <1>3, <1>4, <2>2
<1>6. ASSUME n # L - r, n <= L - r PROVE p = q
  <2>1. L * q \in Nat /\ L * p \in Nat
    BY <1>4
  <2>2. r + n \in Nat /\ r + n < L /\ L * p + s = L * q + (r + n)
    BY <1>4, <1>6, <2>1
  <2>. QED
    BY <1>3, <1>4, <2>2
<1>. QED
  BY <1>4, <1>5, <1>6 DEF q, r, p, s

(* A sequence of numbers followed by another.                              *)
LEMMA NumbersConcatenated ==
    ASSUME NEW a \in Seq(Nat), NEW b \in Seq(Nat)
    PROVE  a \o b \in Seq(Nat) /\ Len(a \o b) = Len(a) + Len(b)
OBVIOUS

(* What a sequence holds, with one element more or less.                   *)
LEMMA AppendedSet ==
    ASSUME NEW S, NEW q \in Seq(S), NEW x \in S
    PROVE  /\ ToSet(Append(q, x)) = ToSet(q) \cup {x}
           /\ Append(q, x) \in Seq(S) /\ Append(q, x) # <<>>
           /\ \A i \in DOMAIN Append(q, x) :
                 \/ i \in DOMAIN q /\ Append(q, x)[i] = q[i]
                 \/ i = Len(q) + 1 /\ Append(q, x)[i] = x
<1>1. /\ Append(q, x) \in Seq(S) /\ Len(q) \in Nat /\ Append(q, x) # <<>>
      /\ DOMAIN q = 1 .. Len(q) /\ DOMAIN Append(q, x) = 1 .. Len(q) + 1
      /\ \A i \in 1 .. Len(q) : Append(q, x)[i] = q[i]
      /\ Append(q, x)[Len(q) + 1] = x
  OBVIOUS
<1>2. \A i \in DOMAIN Append(q, x) : \/ i \in DOMAIN q /\ Append(q, x)[i] = q[i]
                                     \/ i = Len(q) + 1 /\ Append(q, x)[i] = x
  BY <1>1
<1>3. DOMAIN q \subseteq DOMAIN Append(q, x) /\ Len(q) + 1 \in DOMAIN Append(q, x)
  BY <1>1
<1>4. ToSet(Append(q, x)) \subseteq ToSet(q) \cup {x}
  BY <1>2 DEF ToSet
<1>5. ToSet(q) \cup {x} \subseteq ToSet(Append(q, x))
  BY <1>1, <1>3 DEF ToSet
<1>. QED
  BY <1>1, <1>2, <1>4, <1>5

LEMMA TailSet ==
    ASSUME NEW S, NEW q \in Seq(S), q # <<>>
    PROVE  /\ Head(q) \in S /\ Head(q) = q[1] /\ Tail(q) \in Seq(S)
           /\ ToSet(q) = ToSet(Tail(q)) \cup {Head(q)}
           /\ \A i \in DOMAIN Tail(q) : i + 1 \in DOMAIN q /\ Tail(q)[i] = q[i + 1]
           /\ 1 \in DOMAIN q
<1>1. /\ Head(q) \in S /\ Head(q) = q[1] /\ Tail(q) \in Seq(S)
      /\ Len(q) \in Nat \ {0} /\ DOMAIN q = 1 .. Len(q) /\ DOMAIN Tail(q) = 1 .. Len(q) - 1
      /\ \A i \in 1 .. Len(q) - 1 : Tail(q)[i] = q[i + 1]
  OBVIOUS
<1>2. /\ 1 \in DOMAIN q
      /\ \A i \in DOMAIN Tail(q) : i + 1 \in DOMAIN q /\ Tail(q)[i] = q[i + 1]
  BY <1>1
<1>3. \A i \in DOMAIN q : i = 1 \/ (i - 1 \in DOMAIN Tail(q) /\ Tail(q)[i - 1] = q[i])
  BY <1>1
<1>4. ASSUME NEW x \in ToSet(q) PROVE x \in ToSet(Tail(q)) \cup {Head(q)}
  <2>1. PICK i \in DOMAIN q : q[i] = x
    BY DEF ToSet
  <2>2. CASE i = 1
    BY <1>1, <2>1, <2>2
  <2>3. CASE i - 1 \in DOMAIN Tail(q) /\ Tail(q)[i - 1] = q[i]
    BY <2>1, <2>3 DEF ToSet
  <2>. QED
    BY <1>3, <2>2, <2>3
<1>5. ToSet(Tail(q)) \cup {Head(q)} \subseteq ToSet(q)
  BY <1>1, <1>2 DEF ToSet
<1>. QED
  BY <1>1, <1>2, <1>4, <1>5

-----------------------------------------------------------------------------
(* Who changes what.                                                       *)

(* The interest of a key, its channel and the requests are the selector    *)
(* thread's, but for adding a request and connecting.                      *)
LEMMA SelectorWriters ==
    ASSUME Next
    PROVE  /\ \/ UNCHANGED selectorTasks
              \/ RunTask
              \/ \E c \in Conns : UpdateInterestedOps(c)
           /\ UNCHANGED interestOps \/ RunTask \/ HandleAccept \/ Settle
           /\ \/ UNCHANGED chan
              \/ HandleAccept \/ ContinueRead \/ ContinueWrite \/ Settle
              \/ \E c \in Conns : Connect(c)
           /\ UNCHANGED <<selected, current>> \/ Select \/ NextKey \/ Handled
           /\ UNCHANGED wakeup \/ Select \/ wakeup'
<1>1. CASE SelectorStep
  BY <1>1 DEF SelectorStep, Select, RunTask, TasksDone, NextKey, KeysDone, HandleAccept,
         ContinueRead, IsWritable, ContinueWrite, WriteLoopDone, WrittenIsEmpty, Settle,
         taskVars, clientVars
<1>2. CASE \E c \in Conns : TaskStep(c)
  BY <1>2 DEF TaskStep, TakeTask, Decode, Process, Answer, UpdateInterestedOps, Wakeup,
         selectorVars, clientVars
<1>3. CASE \E c \in Conns : ClientStep(c)
  BY <1>3 DEF ClientStep, Connect, ClientSend, ClientReceive, PeerClose, selectorVars, taskVars
<1>4. CASE Quiescent
  BY <1>4 DEF Quiescent, vars, selectorVars
<1>. QED
  BY <1>1, <1>2, <1>3, <1>4 DEF Next

(* What a connection's task does is the pool's, one step of one task.      *)
LEMMA TaskWriters ==
    ASSUME Next
    PROVE  /\ \/ UNCHANGED <<pc, decoded, running, shouldTerminate>>
              \/ \E c \in Conns : TaskStep(c)
           /\ UNCHANGED tasks \/ ContinueRead \/ \E c \in Conns : TakeTask(c)
           /\ UNCHANGED shouldTerminate \/ \E c \in Conns : Process(c)
           /\ UNCHANGED writeQueue \/ ContinueWrite \/ \E c \in Conns : Answer(c)
           /\ UNCHANGED peer \/ \E c \in Conns : PeerClose(c)
           /\ \/ UNCHANGED <<out, received>> \/ ContinueWrite
              \/ \E c \in Conns : ClientReceive(c)
<1>1. CASE SelectorStep
  BY <1>1 DEF SelectorStep, Select, RunTask, TasksDone, NextKey, KeysDone, HandleAccept,
         ContinueRead, IsWritable, ContinueWrite, WriteLoopDone, WrittenIsEmpty, Settle,
         taskVars, clientVars
<1>2. CASE \E c \in Conns : TaskStep(c)
  BY <1>2 DEF TaskStep, TakeTask, Decode, Process, Answer, UpdateInterestedOps, Wakeup,
         selectorVars, clientVars
<1>3. CASE \E c \in Conns : ClientStep(c)
  BY <1>3 DEF ClientStep, Connect, ClientSend, ClientReceive, PeerClose, taskVars, clientVars
<1>4. CASE Quiescent
  BY <1>4 DEF Quiescent, vars, taskVars, clientVars
<1>. QED
  BY <1>1, <1>2, <1>3, <1>4 DEF Next

-----------------------------------------------------------------------------
(* Types.                                                                  *)

(* Bytes written go to the end of the stream, and what a partial write     *)
(* leaves of an answer is an answer still.                                 *)
LEMMA WriteTypes ==
    ASSUME TypeOK, KeysOK, \A c \in Conns : Room(c) >= 0, ContinueWrite
    PROVE  /\ out' \in [Conns -> Seq(Nat)]
           /\ writeQueue' \in [Conns -> Seq([frame : Nat, remaining : 1 .. AnswerLen])]
           /\ chan' \in [Conns -> {"none", "pending", "open", "closed"}]
           /\ \A c \in Conns : /\ Room(c)' >= 0
                               /\ writeQueue'[c] # <<>> => writeQueue[c] # <<>>
<1>. DEFINE Item == [frame : Nat, remaining : 1 .. AnswerLen]
<1>types. /\ out \in [Conns -> Seq(Nat)] /\ writeQueue \in [Conns -> Seq(Item)]
          /\ received \in [Conns -> Nat]
          /\ chan \in [Conns -> {"none", "pending", "open", "closed"}]
          /\ AnswerLen \in Nat /\ SockBuf \in Nat
  BY ReactorAssumption DEF TypeOK
<1>1. PICK k \in Conns : k = current /\ writeQueue[k] # <<>>
  BY DEF KeysOK, ContinueWrite
<1>. DEFINE top == Head(writeQueue[k])
            n == Smaller(top.remaining, Room(k))
            bytes == [i \in 1 .. n |-> top.frame]
<1>2. top \in Item /\ top = writeQueue[k][1]
  BY <1>types, <1>1, TailSet
<1>3. n \in Nat /\ n <= top.remaining /\ n <= Room(k)
  <2>1. Room(k) \in Int /\ Room(k) >= 0
    BY <1>types, <1>1 DEF Room
  <2>. QED
    BY <1>2, <2>1, <1>types DEF Smaller
<1>4. bytes \in Seq(Nat) /\ Len(bytes) = n
  BY <1>2, <1>3
<1>. HIDE DEF top, bytes, n
<1>5. ASSUME out' = [out EXCEPT ![k] = @ \o bytes], UNCHANGED received
      PROVE  out' \in [Conns -> Seq(Nat)] /\ \A c \in Conns : Room(c)' >= 0
  <2>1. out[k] \o bytes \in Seq(Nat) /\ Len(out[k] \o bytes) = Len(out[k]) + n
    <3>1. out[k] \in Seq(Nat)
      BY <1>types, <1>1
    <3>2. bytes \in Seq(Nat) /\ Len(bytes) = n
      BY <1>4
    <3>3. /\ out[k] \o bytes \in Seq(Nat)
          /\ Len(out[k] \o bytes) = Len(out[k]) + Len(bytes)
      BY <3>1, <3>2, NumbersConcatenated
    <3>. QED
      BY <3>2, <3>3
  <2>2. out' \in [Conns -> Seq(Nat)]
    BY <1>types, <1>5, <2>1, Zenon
  <2>3. out'[k] = out[k] \o bytes /\ \A c \in Conns \ {k} : out'[c] = out[c]
    BY <1>types, <1>1, <1>5
  <2>4. Room(k)' >= 0
    <3>1. Len(out'[k]) = Len(out[k]) + n
      BY <2>1, <2>3
    <3>2. out[k] \in Seq(Nat) /\ received[k] \in Nat
      BY <1>types, <1>1
    <3>3. Len(out[k]) \in Nat
      BY <3>2
    <3>4. n <= SockBuf - (Len(out[k]) - received[k])
      BY <1>3 DEF Room
    <3>5. SockBuf - (Len(out[k]) + n - received[k]) >= 0
      BY <1>types, <1>3, <3>2, <3>3, <3>4
    <3>6. SockBuf - (Len(out'[k]) - received'[k]) >= 0
      <4>. DEFINE len == Len(out[k])  len2 == Len(out'[k])  r == received[k]
      <4>1. len2 = len + n /\ r = received'[k] /\ SockBuf - (len + n - r) >= 0
        BY <1>5, <3>1, <3>5
      <4>2. len \in Nat /\ r \in Nat /\ n \in Nat /\ SockBuf \in Nat
        BY <1>types, <1>3, <3>2, <3>3
      <4>. HIDE DEF len, len2, r
      <4>. QED
        BY <4>1, <4>2 DEF len2
    <3>. QED
      BY <3>6 DEF Room
  <2>5. \A c \in Conns \ {k} : Room(c)' = Room(c)
    BY <1>5, <2>3 DEF Room
  <2>6. ASSUME NEW c \in Conns PROVE Room(c)' >= 0
    BY <2>4, <2>5
  <2>. QED
    BY <2>2, <2>6
<1>6. CASE /\ chan[k] = "open" /\ n < top.remaining
           /\ out' = [out EXCEPT ![k] = @ \o bytes]
           /\ writeQueue' = [writeQueue EXCEPT ![k][1].remaining = @ - n]
           /\ UNCHANGED <<chan, received>>
  <2>. DEFINE rest == [top EXCEPT !.remaining = @ - n]
  <2>1. rest \in Item
    <3>1. top.remaining - n \in 1 .. AnswerLen
      BY <1>types, <1>2, <1>3, <1>6
    <3>. QED
      BY <1>2, <3>1
  <2>2. writeQueue' = [writeQueue EXCEPT ![k] = [@ EXCEPT ![1] = rest]]
    BY <1>2, <1>6
  <2>. HIDE DEF rest, Item
  <2>3. [writeQueue[k] EXCEPT ![1] = rest] \in Seq(Item)
    BY <1>types, <1>1, <2>1
  <2>4. /\ writeQueue' \in [Conns -> Seq(Item)]
        /\ \A c \in Conns : c # k => writeQueue'[c] = writeQueue[c]
    BY <1>types, <1>1, <2>2, <2>3, Zenon
  <2>. QED
    BY <1>types, <1>1, <1>5, <1>6, <2>4 DEF Item
<1>7. CASE /\ chan[k] = "open" /\ n = top.remaining
           /\ out' = [out EXCEPT ![k] = @ \o bytes]
           /\ writeQueue' = [writeQueue EXCEPT ![k] = Tail(@)]
           /\ UNCHANGED <<chan, received>>
  <2>. HIDE DEF Item
  <2>1. Tail(writeQueue[k]) \in Seq(Item)
    BY <1>types, <1>1
  <2>2. /\ writeQueue' \in [Conns -> Seq(Item)]
        /\ \A c \in Conns : c # k => writeQueue'[c] = writeQueue[c]
    BY <1>types, <1>1, <1>7, <2>1, Zenon
  <2>. QED
    BY <1>types, <1>1, <1>5, <1>7, <2>2 DEF Item
<1>8. CASE chan' = [chan EXCEPT ![k] = "closed"] /\ UNCHANGED <<out, writeQueue, received>>
  <2>1. \A c \in Conns : Room(c)' = Room(c)
    BY <1>8 DEF Room
  <2>. QED
    BY <1>types, <1>8, <2>1
<1>. QED
  BY <1>1, <1>6, <1>7, <1>8 DEF ContinueWrite, top, bytes, n

(* The tasks of a connection, and what the running one goes through.       *)
LEMMA TaskTypes ==
    ASSUME TypeOK, NEW c \in Conns, TaskStep(c)
    PROVE  /\ tasks' \in [Conns -> Seq(1 .. ReadLen)]
           /\ running' \in [Conns -> 0 .. ReadLen]
           /\ pc' \in [Conns -> {"idle", "decode", "process", "answer", "addTask", "wakeup"}]
           /\ decoded' \in [Conns -> Nat]
           /\ writeQueue' \in [Conns -> Seq([frame : Nat, remaining : 1 .. AnswerLen])]
           /\ \A d \in Conns : FrameOf(d) \in Nat
<1>. DEFINE Item == [frame : Nat, remaining : 1 .. AnswerLen]
<1>types. /\ tasks \in [Conns -> Seq(1 .. ReadLen)] /\ running \in [Conns -> 0 .. ReadLen]
          /\ pc \in [Conns -> {"idle", "decode", "process", "answer", "addTask", "wakeup"}]
          /\ decoded \in [Conns -> Nat] /\ writeQueue \in [Conns -> Seq(Item)]
          /\ FrameLen \in Nat \ {0} /\ AnswerLen \in Nat \ {0} /\ ReadLen \in Nat \ {0}
  BY ReactorAssumption DEF TypeOK
<1>frames. \A d \in Conns : FrameOf(d) \in Nat
  BY <1>types, FrameNumber DEF FrameOf
<1>1. CASE TakeTask(c)
  <2>1. Head(tasks[c]) \in 1 .. ReadLen /\ Tail(tasks[c]) \in Seq(1 .. ReadLen)
    BY <1>types, <1>1, TailSet DEF TakeTask
  <2>2. tasks' \in [Conns -> Seq(1 .. ReadLen)]
    BY <1>types, <1>1, <2>1, Zenon DEF TakeTask
  <2>3. running' \in [Conns -> 0 .. ReadLen]
    BY <1>types, <1>1, <2>1 DEF TakeTask
  <2>. QED
    BY <1>types, <1>frames, <1>1, <2>2, <2>3 DEF TakeTask
<1>2. CASE Decode(c)
  <2>. DEFINE missing == FrameLen - (decoded[c] % FrameLen)
              n == Smaller(missing, running[c])
  <2>1. missing \in Nat
    <3>1. decoded[c] % FrameLen \in 0 .. FrameLen - 1
      BY <1>types, FrameNumber
    <3>. QED
      BY <1>types, <3>1
  <2>2. n \in 0 .. running[c]
    BY <1>types, <2>1 DEF Smaller
  <2>. HIDE DEF n
  <2>3. decoded[c] + n \in Nat /\ running[c] - n \in 0 .. ReadLen
    BY <1>types, <2>2
  <2>4. /\ decoded' = [decoded EXCEPT ![c] = @ + n] /\ running' = [running EXCEPT ![c] = @ - n]
        /\ pc' = [pc EXCEPT ![c] = IF n = missing THEN "process" ELSE "idle"]
        /\ UNCHANGED <<tasks, writeQueue>>
    BY <1>2 DEF Decode, n
  <2>. QED
    BY <1>types, <1>frames, <2>3, <2>4
<1>3. CASE Process(c)
  BY <1>types, <1>frames, <1>3 DEF Process, Continue
<1>4. CASE Answer(c)
  <2>. DEFINE item == [frame |-> FrameOf(c), remaining |-> AnswerLen]
  <2>1. item \in Item
    BY <1>types, <1>frames
  <2>. HIDE DEF item, Item
  <2>2. Append(writeQueue[c], item) \in Seq(Item)
    BY <1>types, <2>1, AppendedSet
  <2>3. writeQueue' = [writeQueue EXCEPT ![c] = Append(@, item)]
    BY <1>4 DEF Answer, item
  <2>4. writeQueue' \in [Conns -> Seq(Item)]
    BY <1>types, <2>2, <2>3, Zenon
  <2>. QED
    BY <1>types, <1>frames, <1>4, <2>4 DEF Answer, Item
<1>5. CASE UpdateInterestedOps(c) \/ Wakeup(c)
  BY <1>types, <1>frames, <1>5 DEF UpdateInterestedOps, Wakeup, Continue
<1>. QED
  BY <1>1, <1>2, <1>3, <1>4, <1>5 DEF TaskStep

(* The initial state.                                                      *)
LEMMA TypesInit == Init => TypeOK
<1>. SUFFICES ASSUME Init PROVE TypeOK
  OBVIOUS
<1>1. \A c \in Conns : /\ writeQueue[c] \in Seq([frame : Nat, remaining : 1 .. AnswerLen])
                       /\ tasks[c] \in Seq(1 .. ReadLen) /\ out[c] \in Seq(Nat)
  BY DEF Init
<1>2. /\ writeQueue \in [Conns -> Seq([frame : Nat, remaining : 1 .. AnswerLen])]
      /\ tasks \in [Conns -> Seq(1 .. ReadLen)] /\ out \in [Conns -> Seq(Nat)]
  BY <1>1, Zenon DEF Init
<1>3. /\ selected \in [Conns -> SUBSET Ops] /\ interestOps \in [Conns -> SUBSET Ops]
      /\ chan \in [Conns -> {"none", "pending", "open", "closed"}]
      /\ pc \in [Conns -> {"idle", "decode", "process", "answer", "addTask", "wakeup"}]
      /\ shouldTerminate \in [Conns -> BOOLEAN] /\ peer \in [Conns -> {"open", "closed"}]
      /\ selectorTasks \in Seq(Conns)
  BY DEF Init
<1>4. /\ running \in [Conns -> 0 .. ReadLen] /\ decoded \in [Conns -> Nat]
      /\ sent \in [Conns -> Nat] /\ taken \in [Conns -> Nat] /\ received \in [Conns -> Nat]
  <2>1. 0 \in 0 .. ReadLen
    BY ReactorAssumption
  <2>. QED
    BY <2>1 DEF Init
<1>. QED
  BY <1>2, <1>3, <1>4 DEF Init, TypeOK

(* Reading and handing over.                                               *)
LEMMA ReadTypes ==
    ASSUME TypeOK, KeysOK, ContinueRead
    PROVE  /\ tasks' \in [Conns -> Seq(1 .. ReadLen)]
           /\ taken' \in [Conns -> Nat]
           /\ chan' \in [Conns -> {"none", "pending", "open", "closed"}]
<1>types. /\ tasks \in [Conns -> Seq(1 .. ReadLen)]
          /\ taken \in [Conns -> Nat] /\ sent \in [Conns -> Nat]
          /\ chan \in [Conns -> {"none", "pending", "open", "closed"}]
          /\ ReadLen \in Nat \ {0}
  BY ReactorAssumption DEF TypeOK
<1>1. PICK c \in Conns : c = current
  BY DEF KeysOK, ContinueRead
<1>. DEFINE n == Smaller(sent[c] - taken[c], ReadLen)
<1>2. CASE UNCHANGED <<chan, tasks, taken>>
  BY <1>types, <1>2
<1>3. CASE /\ n > 0 /\ UNCHANGED chan
           /\ taken' = [taken EXCEPT ![c] = @ + n]
           /\ tasks' = [tasks EXCEPT ![c] = Append(@, n)]
  <2>1. n \in 1 .. ReadLen
    BY <1>types, <1>3 DEF Smaller
  <2>. HIDE DEF n
  <2>2. Append(tasks[c], n) \in Seq(1 .. ReadLen)
    BY <1>types, <2>1, AppendedSet
  <2>3. tasks' \in [Conns -> Seq(1 .. ReadLen)]
    BY <1>types, <1>3, <2>2, Zenon
  <2>. QED
    BY <1>types, <1>3, <2>1, <2>3
<1>4. CASE chan' = [chan EXCEPT ![c] = "closed"] /\ UNCHANGED <<tasks, taken>>
  BY <1>types, <1>4
<1>. QED
  BY <1>1, <1>2, <1>3, <1>4 DEF ContinueRead

(* Every step keeps the types.                                             *)
LEMMA TypesStep ==
    ASSUME TypeOK, KeysOK, \A c \in Conns : Room(c) >= 0, [Next]_vars
    PROVE  TypeOK'
<1>1. CASE Select \/ TasksDone \/ NextKey \/ KeysDone \/ IsWritable \/ WriteLoopDone
           \/ WrittenIsEmpty
  <2>1. selected' \in [Conns -> SUBSET Ops] /\ current' \in Conns \cup {Nobody}
    <3>1. CASE Select
      <4>1. \A c \in Conns : Ready(c) \in SUBSET Ops
        BY DEF TypeOK, Ready
      <4>. QED
        BY <3>1, <4>1 DEF TypeOK, Select
    <3>2. CASE Handled
      <4>1. {} \in SUBSET Ops /\ selected \in [Conns -> SUBSET Ops]
        BY DEF TypeOK
      <4>2. selected' = [selected EXCEPT ![current] = {}] /\ current' = Nobody
        BY <3>2 DEF Handled
      <4>. QED
        BY <4>1, <4>2
    <3>3. CASE UNCHANGED <<selected, current>> \/ NextKey
      BY <3>3 DEF TypeOK, NextKey
    <3>. QED
      BY <1>1, <3>1, <3>2, <3>3 DEF TasksDone, KeysDone, IsWritable, WriteLoopDone, WrittenIsEmpty
  <2>. QED
    BY <1>1, <2>1 DEF TypeOK, Select, Acceptable, TasksDone, NextKey, KeysDone, IsWritable,
           WriteLoopDone, WrittenIsEmpty, Handled, taskVars, clientVars
<1>2. CASE RunTask
  <2>1. Head(selectorTasks) \in Conns /\ Tail(selectorTasks) \in Seq(Conns)
    BY <1>2, TailSet DEF RunTask, TypeOK
  <2>2. interestOps' \in [Conns -> SUBSET Ops] /\ spc' \in {"tasks", "dead"}
    <3>1. Ops \in SUBSET Ops /\ interestOps \in [Conns -> SUBSET Ops]
      BY DEF TypeOK
    <3>. QED
      BY <1>2, <3>1 DEF RunTask
  <2>. QED
    BY <1>2, <2>1, <2>2 DEF TypeOK, RunTask, taskVars, clientVars
<1>3. CASE HandleAccept \/ Settle
  <2>1. /\ {"read"} \in SUBSET Ops /\ {} \in SUBSET Ops
        /\ interestOps \in [Conns -> SUBSET Ops] /\ selected \in [Conns -> SUBSET Ops]
        /\ chan \in [Conns -> {"none", "pending", "open", "closed"}]
    BY DEF TypeOK, Ops
  <2>2. /\ interestOps' \in [Conns -> SUBSET Ops] /\ selected' \in [Conns -> SUBSET Ops]
        /\ chan' \in [Conns -> {"none", "pending", "open", "closed"}]
    BY <1>3, <2>1 DEF HandleAccept, Settle, Handled
  <2>. QED
    BY <1>3, <2>2 DEF TypeOK, HandleAccept, Settle, Handled, taskVars, clientVars
<1>4. CASE ContinueRead
  BY <1>4, ReadTypes DEF TypeOK, ContinueRead
<1>5. CASE ContinueWrite
  <2>1. /\ spc' \in {"write", "keys"} /\ current' \in Conns \cup {Nobody}
        /\ selected' \in [Conns -> SUBSET Ops]
        /\ UNCHANGED <<acceptable, selectorTasks, wakeup, interestOps, shouldTerminate,
                       taskVars, peer, sent, taken, received>>
    BY <1>5 DEF TypeOK, ContinueWrite, Handled
  <2>. QED
    BY <1>5, <2>1, WriteTypes DEF TypeOK, taskVars
<1>6. ASSUME NEW c \in Conns, TaskStep(c) PROVE TypeOK'
  <2>1. /\ UNCHANGED <<selectorVars, chan, interestOps, clientVars>>
        /\ wakeup' \in BOOLEAN /\ shouldTerminate' \in [Conns -> BOOLEAN]
    BY <1>6 DEF TypeOK, TaskStep, TakeTask, Decode, Process, Answer, UpdateInterestedOps, Wakeup
  <2>2. selectorTasks' \in Seq(Conns)
    <3>1. selectorTasks \in Seq(Conns) /\ Append(selectorTasks, c) \in Seq(Conns)
      BY AppendedSet DEF TypeOK
    <3>. QED
      BY <1>6, <3>1 DEF TaskStep, TakeTask, Decode, Process, Answer, UpdateInterestedOps, Wakeup
  <2>. QED
    BY <1>6, <2>1, <2>2, TaskTypes DEF TypeOK, selectorVars, clientVars
<1>7. ASSUME NEW c \in Conns, ClientStep(c) PROVE TypeOK'
  <2>1. sent' \in [Conns -> Nat]
    <3>1. Segment \in Nat /\ FrameLen \in Nat /\ Frames \in [Conns -> Nat]
      BY ReactorAssumption
    <3>2. Frames[c] * FrameLen \in Nat
      BY <3>1
    <3>3. Smaller(sent[c] + Segment, Frames[c] * FrameLen) \in Nat
      BY <3>1, <3>2, SMTT(30), ZenonT(30) DEF TypeOK, Smaller
    <3>. QED
      BY <1>7, <3>3 DEF TypeOK, ClientStep, Connect, ClientSend, ClientReceive, PeerClose,
             clientVars
  <2>2. received' \in [Conns -> Nat]
    <3>1. Len(out[c]) \in Nat
      BY DEF TypeOK
    <3>. QED
      BY <1>7, <3>1 DEF TypeOK, ClientStep, Connect, ClientSend, ClientReceive, PeerClose,
             clientVars
  <2>. QED
    BY <1>7, <2>1, <2>2, SMTT(30), ZenonT(30) DEF TypeOK, ClientStep, Connect, ClientSend, ClientReceive, PeerClose,
           selectorVars, taskVars, clientVars
<1>8. CASE UNCHANGED vars
  BY <1>8 DEF TypeOK, vars, selectorVars, taskVars, clientVars
<1>. QED
  BY <1>1, <1>2, <1>3, <1>4, <1>5, <1>6, <1>7, <1>8 DEF Next, SelectorStep, Quiescent

-----------------------------------------------------------------------------
(* What a step does to one connection.                                     *)

(* A channel is accepted, then closed, because the client has left or the  *)
(* session is over, and never comes back.                                  *)
LEMMA ChannelStep ==
    ASSUME TypeOK, KeysOK, [Next]_vars, NEW c \in Conns
    PROVE  /\ chan[c] \in {"open", "closed"} => chan'[c] \in {"open", "closed"}
           /\ chan[c] = "closed" => chan'[c] = "closed"
           /\ chan'[c] = "open" =>
                 chan[c] = "open" \/ (chan[c] = "pending" /\ interestOps'[c] = {"read"})
           /\ chan'[c] = "closed" =>
                 \/ chan[c] = "closed" \/ \E d \in Conns : peer[d] = "closed"
                 \/ spc = "settle" /\ c = current /\ shouldTerminate[c]
<1>types. /\ chan \in [Conns -> {"none", "pending", "open", "closed"}]
          /\ interestOps \in [Conns -> SUBSET Ops]
          /\ spc \in {"read", "isWritable", "write", "written", "settle"} => current \in Conns
          /\ \A d \in Conns : d = current => chan[d] \in {"open", "closed"}
  BY DEF TypeOK, KeysOK
<1>1. CASE UNCHANGED chan
  BY <1>1
<1>2. CASE HandleAccept
  BY <1>types, <1>2 DEF HandleAccept
<1>3. CASE ContinueRead
  BY <1>types, <1>3 DEF ContinueRead
<1>4. CASE ContinueWrite
  <2>1. PICK k \in Conns : k = current
    BY <1>types, <1>4 DEF ContinueWrite
  <2>2. \/ UNCHANGED chan
        \/ /\ "closed" \in {chan[k], peer[k]}
           /\ chan' = [chan EXCEPT ![k] = "closed"]
    BY <1>4, <2>1 DEF ContinueWrite
  <2>. QED
    BY <1>types, <2>1, <2>2
<1>5. CASE Settle
  BY <1>types, <1>5 DEF Settle
<1>6. ASSUME NEW d \in Conns, Connect(d)
      PROVE  /\ chan[c] \in {"open", "closed"} => chan'[c] = chan[c]
             /\ chan[c] \notin {"open", "closed"} => chan'[c] \notin {"open", "closed"}
  BY <1>types, <1>6 DEF Connect
<1>7. CASE \E d \in Conns : Connect(d)
  BY <1>types, <1>6, <1>7
<1>8. UNCHANGED vars => UNCHANGED chan
  BY DEF vars
<1>9. \/ UNCHANGED chan
      \/ HandleAccept \/ ContinueRead \/ ContinueWrite \/ Settle \/ \E d \in Conns : Connect(d)
  BY <1>8, SelectorWriters
<1>. QED
  BY <1>1, <1>2, <1>3, <1>4, <1>5, <1>7, <1>9

(* A step of another thread does not move a connection's task.             *)
LEMMA TaskStays ==
    ASSUME TypeOK, [Next]_vars, NEW c \in Conns, ~TaskStep(c)
    PROVE  /\ pc'[c] = pc[c] /\ decoded'[c] = decoded[c] /\ shouldTerminate'[c] = shouldTerminate[c]
           /\ FrameOf(c)' = FrameOf(c) /\ Put(c)' = Put(c)
<1>types. /\ pc \in [Conns -> {"idle", "decode", "process", "answer", "addTask", "wakeup"}]
          /\ decoded \in [Conns -> Nat] /\ shouldTerminate \in [Conns -> BOOLEAN]
  BY DEF TypeOK
<1>1. pc'[c] = pc[c] /\ decoded'[c] = decoded[c] /\ shouldTerminate'[c] = shouldTerminate[c]
  <2>1. CASE UNCHANGED <<pc, decoded, shouldTerminate>>
    BY <2>1
  <2>2. ASSUME NEW d \in Conns, d # c, TaskStep(d)
        PROVE  /\ pc'[c] = pc[c] /\ decoded'[c] = decoded[c]
               /\ shouldTerminate'[c] = shouldTerminate[c]
    BY <1>types, <2>2 DEF TaskStep, TakeTask, Decode, Process, Answer, UpdateInterestedOps, Wakeup
  <2>. QED
    BY <2>1, <2>2, TaskWriters DEF vars, taskVars
<1>2. FrameOf(c)' = FrameOf(c)
  BY <1>1 DEF FrameOf
<1>. QED
  BY <1>1, <1>2 DEF Put

(* A task goes through answer and addTask for a frame it has decoded, and  *)
(* an answer that was put was put for good.                                *)
LEMMA TaskMoves ==
    ASSUME TypeOK, [Next]_vars, NEW c \in Conns, HandlerOf(c)
    PROVE  /\ pc'[c] \in {"answer", "addTask"} => FrameOf(c)' \in Answered[c]
           /\ pc'[c] = "addTask" => pc[c] \in {"answer", "addTask"}
           /\ pc[c] = "addTask" =>
                 pc'[c] = "addTask" \/ selectorTasks' = Append(selectorTasks, c)
           /\ pc[c] = "wakeup" => pc'[c] = "wakeup" \/ wakeup'
           /\ Put(c) \subseteq Put(c)'
           /\ shouldTerminate'[c] => Final[c] # {}
<1>types. /\ pc \in [Conns -> {"idle", "decode", "process", "answer", "addTask", "wakeup"}]
          /\ decoded \in [Conns -> Nat] /\ running \in [Conns -> 0 .. ReadLen]
          /\ shouldTerminate \in [Conns -> BOOLEAN]
          /\ FrameLen \in Nat \ {0} /\ ReadLen \in Nat
          /\ pc[c] \in {"answer", "addTask"} => FrameOf(c) \in Answered[c]
          /\ shouldTerminate[c] => Final[c] # {}
          /\ Answered[c] \subseteq Nat
  BY ReactorAssumption DEF TypeOK, HandlerOf
<1>1. CASE ~TaskStep(c)
  BY <1>types, <1>1, TaskStays
<1>2. CASE Decode(c)
  <2>. DEFINE missing == FrameLen - (decoded[c] % FrameLen)
              n == Smaller(missing, running[c])
  <2>1. missing \in Nat
    <3>1. decoded[c] % FrameLen \in 0 .. FrameLen - 1
      BY <1>types, FrameNumber
    <3>. QED
      BY <1>types, <3>1
  <2>2. n \in Nat /\ n <= missing
    BY <1>types, <2>1 DEF Smaller
  <2>. HIDE DEF n
  <2>3. /\ decoded'[c] = decoded[c] + n /\ UNCHANGED shouldTerminate
        /\ pc[c] = "decode" /\ pc'[c] = IF n = missing THEN "process" ELSE "idle"
    BY <1>types, <1>2 DEF Decode, n
  <2>4. /\ FrameOf(c) \in Nat
        /\ FrameOf(c)' = IF n = missing THEN FrameOf(c) + 1 ELSE FrameOf(c)
    <3>1. /\ decoded[c] \div FrameLen \in Nat
          /\ n = missing => (decoded[c] + n) \div FrameLen = (decoded[c] \div FrameLen) + 1
          /\ n # missing => (decoded[c] + n) \div FrameLen = decoded[c] \div FrameLen
      BY <1>types, <2>2, FrameCount
    <3>. QED
      BY <2>3, <3>1 DEF FrameOf
  <2>5. ASSUME NEW f \in Put(c) PROVE f \in Put(c)'
    <3>1. f \in Answered[c] /\ f \in Nat /\ (f < FrameOf(c) \/ f = FrameOf(c))
      BY <1>types, <2>5 DEF Put
    <3>2. f < FrameOf(c)' \/ (f = FrameOf(c)' /\ pc'[c] \notin {"process", "answer"})
      BY <2>3, <2>4, <3>1
    <3>. QED
      BY <3>1, <3>2 DEF Put
  <2>. QED
    BY <1>types, <2>3, <2>5
<1>3. ASSUME TaskStep(c), ~Decode(c)
      PROVE  /\ UNCHANGED decoded
             /\ pc'[c] \in {"process", "answer"} => pc[c] \in {"process", "answer"}
  BY <1>types, <1>3 DEF TaskStep, TakeTask, Process, Answer, UpdateInterestedOps, Wakeup, Continue
<1>4. ASSUME TaskStep(c), ~Decode(c) PROVE Put(c) \subseteq Put(c)' /\ FrameOf(c)' = FrameOf(c)
  BY <1>3, <1>4 DEF Put, FrameOf
<1>5. CASE TakeTask(c) \/ Answer(c) \/ UpdateInterestedOps(c) \/ Wakeup(c)
  <2>1. ~Decode(c) /\ TaskStep(c)
    BY <1>types, <1>5 DEF TaskStep, TakeTask, Decode, Answer, UpdateInterestedOps, Wakeup
  <2>2. Put(c) \subseteq Put(c)' /\ FrameOf(c)' = FrameOf(c)
    BY <1>4, <2>1
  <2>. QED
    BY <1>types, <1>5, <2>2 DEF TakeTask, Answer, UpdateInterestedOps, Wakeup, Continue
<1>6. CASE Process(c)
  <2>1. ~Decode(c) /\ TaskStep(c)
    BY <1>types, <1>6 DEF TaskStep, Decode, Process
  <2>2. Put(c) \subseteq Put(c)' /\ FrameOf(c)' = FrameOf(c)
    BY <1>4, <2>1
  <2>. QED
    BY <1>types, <1>6, <2>2 DEF Process, Continue
<1>. QED
  BY <1>1, <1>2, <1>5, <1>6 DEF TaskStep

(* Requests come from updateInterestedOps and go to the selector thread.   *)
LEMMA RequestMoves ==
    ASSUME TypeOK, [Next]_vars, NEW c \in Conns
    PROVE  /\ c \in Requests' =>
                 c \in Requests \/ (pc[c] = "addTask" /\ pc'[c] = "wakeup")
           /\ c \in Requests =>
                 \/ c \in Requests'
                 \/ /\ spc = "tasks" /\ c = Head(selectorTasks)
                    /\ (chan[c] = "open" /\ interestOps'[c] = Ops) \/ chan[c] = "closed"
           /\ selectorTasks' = Append(selectorTasks, c) => c \in Requests'
<1>types. selectorTasks \in Seq(Conns) /\ interestOps \in [Conns -> SUBSET Ops]
  BY DEF TypeOK
<1>pc. pc \in [Conns -> {"idle", "decode", "process", "answer", "addTask", "wakeup"}]
  BY DEF TypeOK
<1>0. selectorTasks' = Append(selectorTasks, c) => c \in Requests'
  BY <1>types, AppendedSet DEF Requests
<1>1. CASE UNCHANGED selectorTasks
  <2>1. Requests' = Requests
    BY <1>1 DEF Requests
  <2>. QED
    BY <1>0, <2>1
<1>2. CASE RunTask
  <2>1. PICK d \in Conns : d = Head(selectorTasks)
    BY <1>types, <1>2, TailSet DEF RunTask
  <2>2. Requests = Requests' \cup {d}
    BY <1>types, <1>2, <2>1, TailSet DEF Requests, RunTask
  <2>3. /\ spc = "tasks"
        /\ (chan[d] = "open" /\ interestOps'[d] = Ops) \/ chan[d] = "closed"
    BY <1>types, <1>2, <2>1 DEF RunTask
  <2>. QED
    BY <1>0, <2>1, <2>2, <2>3
<1>3. ASSUME NEW d \in Conns, UpdateInterestedOps(d)
      PROVE  Requests' = Requests \cup {d} /\ pc[d] = "addTask" /\ pc'[d] = "wakeup"
  <2>1. selectorTasks' = Append(selectorTasks, d) /\ pc[d] = "addTask" /\ pc'[d] = "wakeup"
    BY <1>3, <1>pc DEF UpdateInterestedOps
  <2>. QED
    BY <1>types, <2>1, AppendedSet DEF Requests
<1>4. CASE \E d \in Conns : UpdateInterestedOps(d)
  BY <1>0, <1>3, <1>4
<1>5. UNCHANGED vars => UNCHANGED selectorTasks
  BY DEF vars
<1>6. UNCHANGED selectorTasks \/ RunTask \/ \E d \in Conns : UpdateInterestedOps(d)
  BY <1>5, SelectorWriters
<1>. QED
  BY <1>1, <1>2, <1>4, <1>6

-----------------------------------------------------------------------------
(* The conjuncts of the invariant, one step.                               *)

(* The keys the selector thread handles are those of accepted channels.    *)
LEMMA KeysStep ==
    ASSUME TypeOK, KeysOK, [Next]_vars
    PROVE  KeysOK'
<1>types. /\ current \in Conns \cup {Nobody} /\ Nobody \notin Conns
          /\ selected \in [Conns -> SUBSET Ops]
          /\ spc \in {"read", "isWritable", "write", "written", "settle"} => current \in Conns
          /\ \A c \in Conns : selected[c] # {} \/ c = current => chan[c] \in {"open", "closed"}
  BY ReactorAssumption DEF TypeOK, KeysOK
<1>chan. \A c \in Conns : chan[c] \in {"open", "closed"} => chan'[c] \in {"open", "closed"}
  BY ChannelStep
<1>1. CASE UNCHANGED <<selected, current>>
  <2>1. spc' \in {"read", "isWritable", "write", "written", "settle"} => current \in Conns
    <3>1. CASE UNCHANGED spc
      BY <1>types, <3>1
    <3>2. CASE SelectorStep
      BY <1>types, <1>1, <3>2 DEF SelectorStep, Select, RunTask, TasksDone, NextKey, KeysDone,
             HandleAccept, ContinueRead, IsWritable, ContinueWrite, WriteLoopDone,
             WrittenIsEmpty, Settle, Handled
    <3>3. SelectorStep \/ UNCHANGED spc
      BY DEF Next, TaskStep, TakeTask, Decode, Process, Answer, UpdateInterestedOps, Wakeup,
             ClientStep, Connect, ClientSend, ClientReceive, PeerClose, Quiescent, selectorVars,
             vars
    <3>. QED
      BY <3>1, <3>2, <3>3
  <2>. QED
    BY <1>types, <1>chan, <1>1, <2>1 DEF KeysOK
<1>2. CASE Select
  <2>1. \A c \in Conns : selected'[c] # {} => chan[c] = "open"
    BY <1>2 DEF Select, Ready
  <2>2. UNCHANGED current /\ spc' = "tasks"
    BY <1>2 DEF Select
  <2>. QED
    BY <1>types, <1>chan, <2>1, <2>2 DEF KeysOK
<1>3. CASE NextKey
  BY <1>types, <1>chan, <1>3 DEF KeysOK, NextKey
<1>4. CASE Handled
  <2>1. \A c \in Conns : selected'[c] # {} => selected[c] # {}
    BY <1>types, <1>4 DEF Handled
  <2>2. spc' = "keys" /\ current' = Nobody
    BY <1>4 DEF Handled
  <2>. QED
    BY <1>types, <1>chan, <2>1, <2>2 DEF KeysOK
<1>5. UNCHANGED vars => UNCHANGED <<selected, current>>
  BY DEF vars, selectorVars
<1>. QED
  BY <1>1, <1>2, <1>3, <1>4, <1>5, SelectorWriters

(* Nothing is done for a channel before it is accepted, nor written that   *)
(* the socket does not take.                                               *)
LEMMA HandlerStep ==
    ASSUME TypeOK, KeysOK, \A c \in Conns : HandlerOf(c), [Next]_vars, NEW c \in Conns
    PROVE  HandlerOf(c)'
<1>types. /\ chan \in [Conns -> {"none", "pending", "open", "closed"}]
          /\ chan' \in [Conns -> {"none", "pending", "open", "closed"}]
          /\ tasks \in [Conns -> Seq(1 .. ReadLen)]
          /\ pc \in [Conns -> {"idle", "decode", "process", "answer", "addTask", "wakeup"}]
          /\ \A d \in Conns : d = current => chan[d] \in {"open", "closed"}
          /\ spc \in {"read", "isWritable", "write", "written", "settle"} => current \in Conns
          /\ out \in [Conns -> Seq(Nat)] /\ received \in [Conns -> Nat]
          /\ SockBuf \in Nat
  <2>1. TypeOK'
    BY TypesStep DEF HandlerOf
  <2>. QED
    BY <2>1, ReactorAssumption DEF TypeOK, KeysOK
<1>before. /\ chan[c] \in {"none", "pending"} =>
                tasks[c] = <<>> /\ pc[c] = "idle" /\ writeQueue[c] = <<>>
           /\ \A d \in Conns : Room(d) >= 0
           /\ shouldTerminate[c] => Final[c] # {}
  BY DEF HandlerOf
<1>1. ASSUME chan'[c] \in {"none", "pending"}
      PROVE  tasks'[c] = <<>> /\ pc'[c] = "idle" /\ writeQueue'[c] = <<>>
  <2>1. chan[c] \in {"none", "pending"}
    BY <1>1, <1>types, ChannelStep
  <2>2. ~TaskStep(c)
    BY <1>before, <2>1 DEF TaskStep, TakeTask, Decode, Process, Answer, UpdateInterestedOps, Wakeup
  <2>3. pc'[c] = "idle"
    BY <1>before, <2>1, <2>2, TaskStays
  <2>4. tasks'[c] = tasks[c]
    <3>1. CASE ContinueRead
      <4>1. PICK k \in Conns : k = current /\ k # c
        BY <1>types, <2>1, <3>1 DEF ContinueRead
      <4>. QED
        BY <1>types, <3>1, <4>1 DEF ContinueRead
    <3>2. ASSUME NEW d \in Conns, TakeTask(d) PROVE tasks'[c] = tasks[c]
      <4>1. d # c
        BY <2>2, <3>2 DEF TaskStep
      <4>. QED
        BY <1>types, <3>2, <4>1 DEF TakeTask
    <3>. QED
      BY <3>1, <3>2, TaskWriters DEF vars, taskVars
  <2>5. writeQueue'[c] = writeQueue[c]
    <3>1. CASE ContinueWrite
      <4>1. PICK k \in Conns : k = current /\ k # c
        BY <1>types, <2>1, <3>1 DEF ContinueWrite
      <4>2. /\ DOMAIN writeQueue = Conns
            /\ \/ UNCHANGED writeQueue
               \/ \E q : writeQueue' = [writeQueue EXCEPT ![k] = q]
        BY <3>1, <4>1 DEF ContinueWrite, TypeOK
      <4>. QED
        BY <4>1, <4>2
    <3>2. ASSUME NEW d \in Conns, Answer(d) PROVE writeQueue'[c] = writeQueue[c]
      <4>1. d # c
        BY <2>2, <3>2 DEF TaskStep
      <4>. QED
        BY <3>2, <4>1 DEF Answer, TypeOK
    <3>. QED
      BY <3>1, <3>2, TaskWriters DEF vars
  <2>. QED
    BY <1>before, <2>1, <2>3, <2>4, <2>5
<1>2. Room(c)' >= 0
  <2>1. CASE UNCHANGED <<out, received>>
    BY <1>before, <2>1 DEF Room
  <2>2. CASE ContinueWrite
    BY <1>before, <2>2, WriteTypes
  <2>3. ASSUME NEW d \in Conns, ClientReceive(d) PROVE Room(c)' >= 0
    <3>1. Len(out[d]) \in Nat /\ Len(out[c]) \in Nat
      BY <1>types
    <3>2. out' = out /\ received' = [received EXCEPT ![d] = Len(out[d])]
      BY <2>3 DEF ClientReceive
    <3>3. CASE d = c
      BY <1>types, <3>1, <3>2, <3>3 DEF Room
    <3>4. CASE d # c
      BY <1>types, <1>before, <3>2, <3>4 DEF Room
    <3>. QED
      BY <3>3, <3>4
  <2>. QED
    BY <2>1, <2>2, <2>3, TaskWriters DEF vars, clientVars
<1>3. /\ pc'[c] \in {"answer", "addTask"} => FrameOf(c)' \in Answered[c]
      /\ shouldTerminate'[c] => Final[c] # {}
  BY TaskMoves
<1>. QED
  BY <1>1, <1>2, <1>3 DEF HandlerOf

(* The queue gets an answer from a task only, which then makes a request.  *)
LEMMA QueueMoves ==
    ASSUME TypeOK, KeysOK, \A c \in Conns : HandlerOf(c), [Next]_vars, NEW c \in Conns,
           writeQueue'[c] # <<>>
    PROVE  writeQueue[c] # <<>> \/ (pc[c] = "answer" /\ pc'[c] = "addTask")
<1>1. CASE UNCHANGED writeQueue
  BY <1>1
<1>2. CASE ContinueWrite
  <2>1. writeQueue[c] # <<>>
    BY <1>2, WriteTypes DEF HandlerOf
  <2>. QED
    BY <2>1
<1>3. ASSUME NEW d \in Conns, Answer(d)
      PROVE  writeQueue[c] # <<>> \/ (pc[c] = "answer" /\ pc'[c] = "addTask")
  BY <1>3 DEF Answer, TypeOK
<1>. QED
  BY <1>1, <1>2, <1>3, TaskWriters DEF vars

(* Once the selector thread has seen the queue empty.                      *)
LEMMA SettledStep ==
    ASSUME TypeOK, KeysOK, \A c \in Conns : HandlerOf(c) /\ SettledOf(c), [Next]_vars,
           NEW c \in Conns
    PROVE  SettledOf(c)'
<1>. SUFFICES ASSUME spc' = "settle", current' = c, writeQueue'[c] # <<>>
              PROVE  pc'[c] = "addTask" \/ c \in Requests'
  BY DEF SettledOf
<1>1. CASE WrittenIsEmpty
  <2>1. writeQueue[c] = <<>>
    BY <1>1 DEF WrittenIsEmpty, Handled
  <2>. QED
    BY <2>1, QueueMoves
<1>2. CASE spc = "settle" /\ current = c
  <2>1. CASE writeQueue[c] = <<>>
    BY <2>1, QueueMoves
  <2>2. CASE pc[c] = "addTask"
    <3>1. pc'[c] = "addTask" \/ selectorTasks' = Append(selectorTasks, c)
      BY <2>2, TaskMoves
    <3>. QED
      BY <3>1, RequestMoves
  <2>3. CASE c \in Requests
    BY <1>2, <2>3, RequestMoves
  <2>. QED
    BY <1>2, <2>1, <2>2, <2>3 DEF SettledOf
<1>3. WrittenIsEmpty \/ UNCHANGED <<spc, current>>
  <2>1. CASE SelectorStep
    BY <2>1 DEF SelectorStep, Select, RunTask, TasksDone, NextKey, KeysDone, HandleAccept,
           ContinueRead, IsWritable, ContinueWrite, WriteLoopDone, Settle, Handled
  <2>2. CASE ~SelectorStep
    BY <2>2 DEF Next, TaskStep, TakeTask, Decode, Process, Answer, UpdateInterestedOps, Wakeup,
           ClientStep, Connect, ClientSend, ClientReceive, PeerClose, Quiescent, selectorVars,
           vars
  <2>. QED
    BY <2>1, <2>2
<1>. QED
  BY <1>1, <1>2, <1>3

(* Who makes a request wakes the selector.                                 *)
LEMMA WokenStep ==
    ASSUME TypeOK, \A c \in Conns : HandlerOf(c), WokenOK, [Next]_vars
    PROVE  WokenOK'
<1>. SUFFICES ASSUME spc' \notin {"tasks", "dead"}, selectorTasks' # <<>>
              PROVE  wakeup' \/ \E c \in Conns : pc'[c] = "wakeup"
  BY DEF WokenOK
<1>pc. pc \in [Conns -> {"idle", "decode", "process", "answer", "addTask", "wakeup"}]
  BY DEF TypeOK
<1>1. CASE Select \/ RunTask \/ TasksDone
  BY <1>1 DEF Select, RunTask, TasksDone
<1>2. ASSUME NEW d \in Conns, UpdateInterestedOps(d) PROVE pc'[d] = "wakeup"
  BY <1>pc, <1>2 DEF UpdateInterestedOps
<1>3. ASSUME ~(Select \/ RunTask \/ TasksDone), ~ \E d \in Conns : UpdateInterestedOps(d)
      PROVE  wakeup' \/ \E c \in Conns : pc'[c] = "wakeup"
  <2>1. UNCHANGED selectorTasks /\ (wakeup => wakeup')
    BY <1>3, SelectorWriters DEF vars
  <2>2. spc \notin {"tasks", "dead"}
    BY <1>3 DEF Next, SelectorStep, Select, RunTask, TasksDone, NextKey, KeysDone, HandleAccept,
           ContinueRead, IsWritable, ContinueWrite, WriteLoopDone, WrittenIsEmpty, Settle,
           TaskStep, TakeTask, Decode, Process, Answer, UpdateInterestedOps, Wakeup,
           ClientStep, Connect, ClientSend, ClientReceive, PeerClose, Quiescent, selectorVars,
           vars
  <2>3. CASE wakeup
    BY <2>1, <2>3
  <2>4. ASSUME NEW c \in Conns, pc[c] = "wakeup"
        PROVE  wakeup' \/ pc'[c] = "wakeup"
    BY <2>4, TaskMoves
  <2>. QED
    BY <2>1, <2>2, <2>3, <2>4 DEF WokenOK
<1>. QED
  BY <1>1, <1>2, <1>3

(* Answers that wait are asked to be written.                              *)
LEMMA AskedStep ==
    ASSUME TypeOK, KeysOK, \A c \in Conns : HandlerOf(c) /\ SettledOf(c), WriteAskedFor,
           [Next]_vars
    PROVE  WriteAskedFor'
<1>. SUFFICES ASSUME NEW c \in Conns, chan'[c] = "open", writeQueue'[c] # <<>>
              PROVE  "write" \in interestOps'[c] \/ pc'[c] = "addTask" \/ c \in Requests'
  BY DEF WriteAskedFor, Requests
<1>types. interestOps \in [Conns -> SUBSET Ops]
  BY DEF TypeOK
<1>1. CASE writeQueue[c] = <<>>
  BY <1>1, QueueMoves
<1>2. CASE pc[c] = "addTask"
  <2>1. pc'[c] = "addTask" \/ selectorTasks' = Append(selectorTasks, c)
    BY <1>2, TaskMoves
  <2>. QED
    BY <2>1, RequestMoves
<1>3. chan[c] = "open" \/ writeQueue[c] = <<>>
  BY ChannelStep DEF HandlerOf
<1>4. CASE c \in Requests
  <2>1. c \in Requests' \/ interestOps'[c] = Ops \/ chan[c] = "closed"
    BY <1>4, RequestMoves
  <2>. QED
    BY <1>1, <1>3, <2>1 DEF Ops
<1>5. CASE chan[c] = "open" /\ "write" \in interestOps[c]
  <2>1. CASE UNCHANGED interestOps
    BY <1>5, <2>1
  <2>2. CASE RunTask
    BY <1>types, <1>5, <2>2 DEF RunTask, Ops
  <2>3. CASE HandleAccept
    BY <1>types, <1>5, <2>3 DEF HandleAccept
  <2>4. CASE Settle
    <3>1. CASE current = c
      BY <1>1, <1>2, <1>4, <2>4, <3>1 DEF Settle, SettledOf
    <3>2. CASE current # c
      BY <1>types, <1>5, <2>4, <3>2 DEF Settle
    <3>. QED
      BY <3>1, <3>2
  <2>. QED
    BY <2>1, <2>2, <2>3, <2>4, SelectorWriters DEF vars
<1>. QED
  BY <1>1, <1>2, <1>3, <1>4, <1>5 DEF WriteAskedFor, Requests

(* The selector thread gets to write for a connection by its request only. *)
LEMMA WritesFrom ==
    ASSUME TypeOK, KeysOK, [Next]_vars, NEW c \in Conns, Writes(c)'
    PROVE  Writes(c) \/ (c \in Requests /\ RunTask /\ c = Head(selectorTasks))
<1>types. /\ interestOps \in [Conns -> SUBSET Ops] /\ selected \in [Conns -> SUBSET Ops]
          /\ selectorTasks \in Seq(Conns) /\ current \in Conns \cup {Nobody}
  BY DEF TypeOK
<1>1. ASSUME "write" \in interestOps'[c]
      PROVE  Writes(c) \/ (c \in Requests /\ RunTask /\ c = Head(selectorTasks))
  <2>1. CASE UNCHANGED interestOps
    BY <1>1, <2>1 DEF Writes
  <2>2. CASE RunTask
    <3>1. PICK d \in Conns : d = Head(selectorTasks) /\ d \in Requests
      BY <1>types, <2>2, TailSet DEF RunTask, Requests
    <3>2. d = c \/ interestOps'[c] = interestOps[c]
      BY <1>types, <2>2, <3>1 DEF RunTask
    <3>. QED
      BY <1>1, <2>2, <3>1, <3>2 DEF Writes
  <2>3. CASE HandleAccept \/ Settle
    <3>1. interestOps'[c] = interestOps[c] \/ interestOps'[c] = {"read"}
      BY <1>types, <2>3 DEF HandleAccept, Settle
    <3>. QED
      BY <1>1, <3>1 DEF Writes
  <2>. QED
    BY <2>1, <2>2, <2>3, SelectorWriters DEF vars
<1>2. ASSUME "write" \in selected'[c] PROVE Writes(c)
  <2>1. CASE UNCHANGED <<selected, current>> \/ NextKey
    BY <1>2, <2>1 DEF Writes, NextKey
  <2>2. CASE Select
    BY <1>2, <2>2 DEF Writes, Select, Ready
  <2>3. CASE Handled
    BY <1>types, <1>2, <2>3 DEF Writes, Handled
  <2>. QED
    BY <2>1, <2>2, <2>3, SelectorWriters DEF vars, selectorVars
<1>3. ASSUME current' = c, spc' \in {"write", "written", "settle"} PROVE Writes(c)
  <2>1. CASE IsWritable
    BY <1>3, <2>1 DEF IsWritable, Handled, Writes
  <2>2. CASE spc \in {"write", "written", "settle"} /\ UNCHANGED current
    BY <1>3, <2>2 DEF Writes
  <2>3. CASE SelectorStep
    BY <1>3, <2>1, <2>2, <2>3 DEF SelectorStep, Select, RunTask, TasksDone, NextKey, KeysDone,
           HandleAccept, ContinueRead, ContinueWrite, WriteLoopDone, WrittenIsEmpty,
           Settle, Handled
  <2>4. CASE UNCHANGED <<spc, current>>
    BY <1>3, <2>2, <2>4
  <2>5. SelectorStep \/ UNCHANGED <<spc, current>>
    BY SMTT(30), ZenonT(30) DEF Next, TaskStep, TakeTask, Decode, Process, Answer, UpdateInterestedOps, Wakeup,
           ClientStep, Connect, ClientSend, ClientReceive, PeerClose, Quiescent, selectorVars,
           vars
  <2>. QED
    BY <2>3, <2>4, <2>5
<1>. QED
  BY <1>1, <1>2, <1>3 DEF Writes

(* The only answer of a connection is put once: after it no other one.     *)
LEMMA RequestedStays ==
    ASSUME TypeOK, [Next]_vars, NEW c \in Conns, HandlerOf(c), OneAnswer(c), Put(c) # {}
    PROVE  /\ Put(c)' # {} /\ pc[c] # "answer"
           /\ pc[c] # "addTask" => pc'[c] # "addTask"
<1>1. pc[c] # "answer"
  <2>. SUFFICES ASSUME pc[c] = "answer" PROVE FALSE
    OBVIOUS
  <2>1. FrameOf(c) \in Answered[c]
    BY DEF HandlerOf
  <2>2. PICK f \in Answered[c] : f < FrameOf(c)
    BY DEF Put
  <2>3. f = FrameOf(c)
    BY <2>1 DEF OneAnswer
  <2>4. f \in Nat
    BY ReactorAssumption
  <2>. QED
    BY <2>2, <2>3, <2>4
<1>. QED
  BY <1>1, TaskMoves

(* One answer makes one request.                                           *)
LEMMA RequestStep ==
    ASSUME TypeOK, KeysOK, \A c \in Conns : HandlerOf(c) /\ RequestOf(c), [Next]_vars,
           NEW c \in Conns
    PROVE  RequestOf(c)'
<1>. SUFFICES ASSUME OneAnswer(c)
              PROVE  /\ c \in Requests' \/ Writes(c)' => Requested(c)'
                     /\ Writes(c)' => c \notin Requests'
                     /\ \A i, j \in DOMAIN selectorTasks' :
                           selectorTasks'[i] = c /\ selectorTasks'[j] = c => i = j
  BY DEF RequestOf, OneAnswer
<1>types. selectorTasks \in Seq(Conns)
  BY DEF TypeOK
<1>before. /\ c \in Requests \/ Writes(c) => Requested(c)
           /\ Writes(c) => c \notin Requests
           /\ \A i, j \in DOMAIN selectorTasks :
                 selectorTasks[i] = c /\ selectorTasks[j] = c => i = j
  BY DEF RequestOf
<1>1. Requested(c) => Requested(c)'
  BY RequestedStays DEF Requested
<1>2. ASSUME pc[c] = "addTask", pc'[c] = "wakeup" PROVE Requested(c)'
  <2>1. Put(c) # {}
    BY <1>2 DEF HandlerOf, Put
  <2>. QED
    BY <1>2, <2>1, RequestedStays DEF Requested
<1>3. c \in Requests' \/ Writes(c)' => Requested(c)'
  BY <1>before, <1>1, <1>2, RequestMoves, WritesFrom
<1>4. ASSUME Writes(c)' PROVE c \notin Requests'
  <2>1. CASE Writes(c)
    BY <1>before, <2>1, RequestMoves DEF Requested
  <2>2. CASE RunTask /\ c = Head(selectorTasks)
    <3>1. /\ c = selectorTasks[1] /\ 1 \in DOMAIN selectorTasks
          /\ \A i \in DOMAIN selectorTasks' :
                i + 1 \in DOMAIN selectorTasks /\ selectorTasks'[i] = selectorTasks[i + 1]
      BY <1>types, <2>2, TailSet DEF RunTask
    <3>2. \A i \in DOMAIN selectorTasks' : i \in Nat \ {0}
      BY <1>types, <2>2 DEF RunTask
    <3>3. \A i \in DOMAIN selectorTasks' : selectorTasks'[i] # c
      BY <1>before, <3>1, <3>2
    <3>. QED
      BY <3>3 DEF Requests, ToSet
  <2>. QED
    BY <1>4, <2>1, <2>2, WritesFrom
<1>5. ASSUME NEW i \in DOMAIN selectorTasks', NEW j \in DOMAIN selectorTasks',
             selectorTasks'[i] = c, selectorTasks'[j] = c
      PROVE  i = j
  <2>1. CASE UNCHANGED selectorTasks
    BY <1>before, <1>5, <2>1
  <2>2. CASE RunTask
    <3>1. \A k \in DOMAIN selectorTasks' :
             /\ k + 1 \in DOMAIN selectorTasks /\ selectorTasks'[k] = selectorTasks[k + 1]
             /\ k \in Nat
      BY <1>types, <2>2, TailSet DEF RunTask
    <3>2. i + 1 = j + 1
      BY <1>before, <1>5, <3>1
    <3>. QED
      BY <3>1, <3>2
  <2>3. ASSUME NEW d \in Conns, UpdateInterestedOps(d) PROVE i = j
    <3>1. /\ \A k \in DOMAIN selectorTasks' :
                \/ k \in DOMAIN selectorTasks /\ selectorTasks'[k] = selectorTasks[k]
                \/ k = Len(selectorTasks) + 1 /\ selectorTasks'[k] = d
          /\ pc[d] = "addTask"
      BY <1>types, <2>3, AppendedSet DEF UpdateInterestedOps
    <3>2. CASE d = c
      <4>1. c \notin Requests
        BY <1>before, <3>1, <3>2 DEF Requested
      <4>2. \A k \in DOMAIN selectorTasks : selectorTasks[k] # c
        BY <4>1 DEF Requests, ToSet
      <4>. QED
        BY <1>5, <3>1, <4>2
    <3>3. CASE d # c
      BY <1>before, <1>5, <3>1, <3>3
    <3>. QED
      BY <3>2, <3>3
  <2>. QED
    BY <2>1, <2>2, <2>3, SelectorWriters DEF vars
<1>. QED
  BY <1>3, <1>4, <1>5

(* A channel is closed after the last request for it, ...                  *)
LEMMA ClosedStep ==
    ASSUME TypeOK, KeysOK, [Next]_vars, NEW c \in Conns, HandlerOf(c), RequestOf(c), ClosedOf(c)
    PROVE  ClosedOf(c)'
<1>. SUFFICES ASSUME chan'[c] = "closed", ~Left', ~Hasty(c)
              PROVE  OneAnswer(c) /\ Requested(c)' /\ c \notin Requests'
  BY DEF ClosedOf, Hasty, OneAnswer
<1>1. ~Left
  <2>1. CASE UNCHANGED peer
    BY <2>1 DEF Left
  <2>2. ASSUME NEW d \in Conns, PeerClose(d) PROVE FALSE
    BY <2>2 DEF PeerClose, Left, TypeOK
  <2>. QED
    BY <2>1, <2>2, TaskWriters DEF vars, clientVars
<1>2. OneAnswer(c) /\ Requested(c) /\ c \notin Requests
  <2>1. CASE chan[c] = "closed"
    BY <1>1, <2>1 DEF ClosedOf
  <2>2. CASE spc = "settle" /\ c = current /\ shouldTerminate[c]
    <3>1. Writes(c)
      BY <2>2 DEF Writes
    <3>2. PICK f \in Final[c] : TRUE
      BY <2>2 DEF HandlerOf
    <3>3. OneAnswer(c)
      BY <3>2 DEF Hasty, OneAnswer
    <3>. QED
      BY <3>1, <3>3 DEF RequestOf
  <2>. QED
    BY <1>1, <2>1, <2>2, ChannelStep DEF Left
<1>3. Requested(c)'
  BY <1>2, RequestedStays DEF Requested
<1>4. c \notin Requests'
  BY <1>2, RequestMoves DEF Requested
<1>. QED
  BY <1>2, <1>3, <1>4

(* ... so that the selector thread does not die of it.                     *)
LEMMA ServesStep ==
    ASSUME TypeOK, KeysOK, \A c \in Conns : ClosedOf(c), ServesOn, [Next]_vars
    PROVE  ServesOn'
<1>. SUFFICES ASSUME spc' = "dead" PROVE Left' \/ ClosedEarly'
  BY DEF ServesOn
<1>1. Left => Left'
  <2>1. CASE UNCHANGED peer
    BY <2>1 DEF Left
  <2>2. ASSUME NEW d \in Conns, PeerClose(d) PROVE Left'
    BY <2>2 DEF PeerClose, Left, TypeOK
  <2>. QED
    BY <2>1, <2>2, TaskWriters DEF vars, clientVars
<1>2. ClosedEarly => ClosedEarly'
  BY ChannelStep DEF ClosedEarly, Hasty
<1>3. CASE spc = "dead"
  BY <1>1, <1>2, <1>3 DEF ServesOn
<1>4. CASE spc # "dead"
  <2>1. RunTask
    BY <1>4 DEF Next, SelectorStep, Select, RunTask, TasksDone, NextKey, KeysDone, HandleAccept,
           ContinueRead, IsWritable, ContinueWrite, WriteLoopDone, WrittenIsEmpty, Settle,
           Handled, TaskStep, TakeTask, Decode, Process, Answer, UpdateInterestedOps, Wakeup,
           ClientStep, Connect, ClientSend, ClientReceive, PeerClose, Quiescent, selectorVars,
           vars
  <2>2. PICK c \in Conns : c = Head(selectorTasks) /\ c \in Requests
    <3>1. selectorTasks \in Seq(Conns) /\ selectorTasks # <<>>
      BY <2>1 DEF RunTask, TypeOK
    <3>. QED
      BY <3>1, TailSet DEF Requests
  <2>3. chan[c] = "closed"
    BY <1>4, <2>1, <2>2 DEF RunTask
  <2>4. Left \/ Hasty(c)
    BY <2>2, <2>3 DEF ClosedOf
  <2>. QED
    BY <1>1, <1>2, <2>3, <2>4 DEF ClosedEarly
<1>. QED
  BY <1>3, <1>4

-----------------------------------------------------------------------------
(* The answers are whole.                                                  *)

Item == [frame : Nat, remaining : 1 .. AnswerLen]

LEMMA BytesType ==
    ASSUME NEW f \in Nat, NEW n \in Nat
    PROVE  /\ [i \in 1 .. n |-> f] \in Seq(Nat)
           /\ Len([i \in 1 .. n |-> f]) = n
           /\ \A i \in 1 .. n : [j \in 1 .. n |-> f][i] = f
OBVIOUS

LEMMA BytesJoin ==
    ASSUME NEW f \in Nat, NEW n \in Nat, NEW r \in Nat, n <= r
    PROVE  [i \in 1 .. n |-> f] \o [i \in 1 .. r - n |-> f] = [i \in 1 .. r |-> f]
<1>. DEFINE a == [i \in 1 .. n |-> f]  b == [i \in 1 .. r - n |-> f]  c == a \o b
<1>1. r - n \in Nat
  OBVIOUS
<1>2. /\ a \in Seq(Nat) /\ Len(a) = n /\ \A i \in 1 .. n : a[i] = f
      /\ b \in Seq(Nat) /\ Len(b) = r - n /\ \A i \in 1 .. r - n : b[i] = f
  BY <1>1, BytesType
<1>. HIDE DEF a, b
<1>3. c \in Seq(Nat) /\ Len(c) = r
  BY <1>2
<1>4. \A i \in 1 .. r : c[i] = f
  <2>. TAKE i \in 1 .. r
  <2>1. c[i] = IF i <= n THEN a[i] ELSE b[i - n]
    BY <1>1, <1>2
  <2>2. i <= n => i \in 1 .. n
    OBVIOUS
  <2>3. ~(i <= n) => i - n \in 1 .. r - n
    OBVIOUS
  <2>. QED
    BY <1>2, <2>1, <2>2, <2>3
<1>. HIDE DEF c
<1>5. c = [i \in 1 .. r |-> c[i]]
  BY <1>3, AsFunction
<1>6. c = [i \in 1 .. r |-> f]
  BY <1>4, <1>5
<1>. QED
  BY <1>6 DEF a, b, c

LEMMA HeadReplaced ==
    ASSUME NEW S, NEW q \in Seq(S), q # <<>>, NEW x \in S
    PROVE  /\ [q EXCEPT ![1] = x] \in Seq(S) /\ [q EXCEPT ![1] = x] # <<>>
           /\ Head([q EXCEPT ![1] = x]) = x /\ Tail([q EXCEPT ![1] = x]) = Tail(q)
<1>. DEFINE r == [q EXCEPT ![1] = x]
<1>1. r \in Seq(S) /\ Len(r) = Len(q) /\ r # <<>> /\ r[1] = x
      /\ \A i \in 2 .. Len(q) : r[i] = q[i]
  OBVIOUS
<1>. HIDE DEF r
<1>2. /\ Head(r) = r[1] /\ Tail(r) \in Seq(S) /\ Len(Tail(r)) = Len(r) - 1
      /\ \A i \in 1 .. Len(r) - 1 : Tail(r)[i] = r[i + 1]
  BY <1>1, Shortened
<1>3. /\ Tail(q) \in Seq(S) /\ Len(Tail(q)) = Len(q) - 1 /\ Len(q) \in Nat
      /\ \A i \in 1 .. Len(q) - 1 : Tail(q)[i] = q[i + 1]
  BY Shortened
<1>4. /\ Tail(r) = [i \in 1 .. Len(q) - 1 |-> Tail(r)[i]]
      /\ Tail(q) = [i \in 1 .. Len(q) - 1 |-> Tail(q)[i]]
  BY <1>1, <1>2, <1>3, AsFunction
<1>5. \A i \in 1 .. Len(q) - 1 : Tail(r)[i] = Tail(q)[i]
  BY <1>1, <1>2, <1>3
<1>. QED
  BY <1>1, <1>2, <1>4, <1>5 DEF r

(* What a queue holds, from either end.                                    *)
LEMMA UnwrittenParts ==
    ASSUME NEW q \in Seq(Item)
    PROVE  /\ Unwritten(q) \in Seq(Nat)
           /\ \A x \in Item : Unwritten(Append(q, x)) = Unwritten(q) \o BytesOf(x)
           /\ q # <<>> => Unwritten(q) = BytesOf(Head(q)) \o Unwritten(Tail(q))
<1>. DEFINE Pieces(r) == [i \in DOMAIN r |-> BytesOf(r[i])]
<1>bytes. \A x \in Item : BytesOf(x) \in Seq(Nat)
  <2>. TAKE x \in Item
  <2>1. x.frame \in Nat /\ x.remaining \in Nat
    BY ReactorAssumption DEF Item
  <2>. QED
    BY <2>1, BytesType DEF BytesOf
<1>1. \A r \in Seq(Item) : Pieces(r) \in Seq(Seq(Nat)) /\ Len(Pieces(r)) = Len(r)
  <2>. TAKE r \in Seq(Item)
  <2>1. DOMAIN r = 1 .. Len(r) /\ Len(r) \in Nat /\ \A i \in 1 .. Len(r) : r[i] \in Item
    OBVIOUS
  <2>2. \A i \in 1 .. Len(r) : BytesOf(r[i]) \in Seq(Nat)
    BY <1>bytes, <2>1
  <2>. QED
    BY <2>1, <2>2
<1>2. Unwritten(q) \in Seq(Nat)
  <2>. HIDE DEF Pieces
  <2>1. FlattenSeq(Pieces(q)) \in Seq(Nat)
    BY <1>1, FlattenType
  <2>. QED
    BY <2>1 DEF Unwritten, Pieces
<1>3. ASSUME NEW x \in Item
      PROVE  Unwritten(Append(q, x)) = Unwritten(q) \o BytesOf(x)
  <2>1. Pieces(Append(q, x)) = Append(Pieces(q), BytesOf(x))
    <3>1. /\ Append(q, x) \in Seq(Item) /\ Len(Append(q, x)) = Len(q) + 1 /\ Len(q) \in Nat
          /\ Append(q, x)[Len(q) + 1] = x
          /\ \A i \in 1 .. Len(q) : Append(q, x)[i] = q[i]
          /\ DOMAIN q = 1 .. Len(q) /\ DOMAIN Append(q, x) = 1 .. Len(q) + 1
      BY Appended
    <3>2. Pieces(q) \in Seq(Seq(Nat)) /\ Len(Pieces(q)) = Len(q) /\ BytesOf(x) \in Seq(Nat)
      BY <1>1, <1>bytes
    <3>3. \A i \in 1 .. Len(q) : Pieces(q)[i] = BytesOf(q[i])
      BY <3>1
    <3>. HIDE DEF Pieces
    <3>4. /\ Append(Pieces(q), BytesOf(x)) \in Seq(Seq(Nat))
          /\ Len(Append(Pieces(q), BytesOf(x))) = Len(q) + 1
          /\ Append(Pieces(q), BytesOf(x))[Len(q) + 1] = BytesOf(x)
          /\ \A i \in 1 .. Len(q) : Append(Pieces(q), BytesOf(x))[i] = BytesOf(q[i])
      BY <3>2, <3>3, Appended
    <3>. DEFINE a == Append(Pieces(q), BytesOf(x))
    <3>. HIDE DEF a
    <3>5. a = [i \in 1 .. Len(q) + 1 |-> a[i]]
      <4>1. a \in Seq(Seq(Nat)) /\ Len(a) = Len(q) + 1
        BY <3>4 DEF a
      <4>. QED
        BY <4>1, AsFunction
    <3>6. \A i \in 1 .. Len(q) + 1 : a[i] = BytesOf(Append(q, x)[i])
      <4>. TAKE i \in 1 .. Len(q) + 1
      <4>1. i = Len(q) + 1 \/ i \in 1 .. Len(q)
        BY <3>1
      <4>. QED
        BY <3>1, <3>4, <4>1 DEF a
    <3>7. a = [i \in 1 .. Len(q) + 1 |-> BytesOf(Append(q, x)[i])]
      BY <3>5, <3>6
    <3>. QED
      BY <3>1, <3>7 DEF a, Pieces
  <2>2. FlattenSeq(Append(Pieces(q), BytesOf(x))) = FlattenSeq(Pieces(q)) \o BytesOf(x)
    <3>1. Pieces(q) \in Seq(Seq(Nat)) /\ BytesOf(x) \in Seq(Nat)
      BY <1>1, <1>bytes
    <3>. HIDE DEF Pieces
    <3>. QED
      BY <3>1, FlattenAppend
  <2>. QED
    BY <2>1, <2>2 DEF Unwritten
<1>4. ASSUME q # <<>>
      PROVE  Unwritten(q) = BytesOf(Head(q)) \o Unwritten(Tail(q))
  <2>1. /\ Head(q) = q[1] /\ Tail(q) \in Seq(Item) /\ Len(Tail(q)) = Len(q) - 1
        /\ Len(q) \in Nat /\ Len(q) - 1 \in Nat /\ Len(q) # 0
        /\ \A i \in 1 .. Len(q) - 1 : Tail(q)[i] = q[i + 1]
    BY <1>4, Shortened
  <2>2. /\ DOMAIN q = 1 .. Len(q) /\ DOMAIN Tail(q) = 1 .. Len(q) - 1
    BY <2>1
  <2>3. Pieces(q) \in Seq(Seq(Nat)) /\ Len(Pieces(q)) = Len(q)
    BY <1>1
  <2>4. \A i \in 1 .. Len(q) : Pieces(q)[i] = BytesOf(q[i])
    BY <2>2
  <2>5. Head(Pieces(q)) = BytesOf(Head(q)) /\ Pieces(q) # <<>>
    <3>. HIDE DEF Pieces
    <3>1. Pieces(q) # <<>>
      BY <2>1, <2>3
    <3>2. Head(Pieces(q)) = Pieces(q)[1]
      BY <2>3, <3>1, Shortened
    <3>. QED
      BY <2>1, <2>4, <3>1, <3>2
  <2>6. Tail(Pieces(q)) = Pieces(Tail(q))
    <3>. DEFINE t == Tail(Pieces(q))
    <3>1. t \in Seq(Seq(Nat)) /\ Len(t) = Len(q) - 1
          /\ \A i \in 1 .. Len(q) - 1 : t[i] = Pieces(q)[i + 1]
      <4>. HIDE DEF Pieces
      <4>. QED
        BY <2>3, <2>5, Shortened
    <3>. HIDE DEF t
    <3>2. t = [i \in 1 .. Len(q) - 1 |-> t[i]]
      BY <3>1, AsFunction
    <3>3. \A i \in 1 .. Len(q) - 1 : t[i] = BytesOf(Tail(q)[i])
      <4>. TAKE i \in 1 .. Len(q) - 1
      <4>1. i + 1 \in 1 .. Len(q)
        BY <2>1
      <4>. HIDE DEF Pieces
      <4>. QED
        BY <2>1, <2>4, <3>1, <4>1
    <3>4. t = [i \in 1 .. Len(q) - 1 |-> BytesOf(Tail(q)[i])]
      BY <3>2, <3>3
    <3>. QED
      BY <2>2, <3>4 DEF t, Pieces
  <2>. HIDE DEF Pieces
  <2>7. FlattenSeq(Pieces(q)) = BytesOf(Head(q)) \o FlattenSeq(Pieces(Tail(q)))
    BY <2>3, <2>5, <2>6, FlattenHead
  <2>. QED
    BY <2>7 DEF Unwritten, Pieces
<1>. QED
  BY <1>2, <1>3, <1>4

(* An answer to a later frame, whole, at the end of whole answers.         *)
LEMMA WholeAppend ==
    ASSUME NEW bytes \in Seq(Nat), NEW frames \in SUBSET Nat, WholeAnswers(bytes, frames),
           NEW f \in Nat, \A g \in frames : g < f
    PROVE  WholeAnswers(bytes \o [i \in 1 .. AnswerLen |-> f], frames \cup {f})
<1>. DEFINE n == Len(bytes)
            answer == [i \in 1 .. AnswerLen |-> f]
            all == bytes \o answer
<1>1. AnswerLen \in Nat /\ AnswerLen # 0 /\ n \in Nat
  BY ReactorAssumption
<1>2. /\ answer \in Seq(Nat) /\ Len(answer) = AnswerLen
      /\ \A i \in 1 .. AnswerLen : answer[i] = f
  BY <1>1, BytesType
<1>. HIDE DEF answer
<1>3. /\ DOMAIN all = 1 .. n + AnswerLen /\ DOMAIN bytes = 1 .. n
      /\ \A i \in 1 .. n : all[i] = bytes[i]
      /\ \A i \in n + 1 .. n + AnswerLen : all[i] = answer[i - n]
  <2>1. /\ all \in Seq(Nat) /\ Len(all) = n + Len(answer)
        /\ \A i \in 1 .. n + Len(answer) : all[i] = IF i <= n THEN bytes[i] ELSE answer[i - n]
    <3>1. bytes \in Seq(Nat) /\ answer \in Seq(Nat)
      BY <1>2
    <3>. QED
      BY <3>1, ConcatProperties
  <2>. HIDE DEF all
  <2>2. DOMAIN all = 1 .. Len(all) /\ DOMAIN bytes = 1 .. n
    BY <2>1
  <2>. HIDE DEF n
  <2>. QED
    BY <1>1, <1>2, <2>1, <2>2
<1>. HIDE DEF all, n
<1>4. \A i \in n + 1 .. n + AnswerLen : all[i] = f
  <2>. TAKE i \in n + 1 .. n + AnswerLen
  <2>1. i - n \in 1 .. AnswerLen
    BY <1>1
  <2>. QED
    BY <1>2, <1>3, <2>1
<1>5. \A i \in 1 .. n : all[i] \in frames /\ all[i] < f /\ all[i] \in Nat
  BY <1>3 DEF WholeAnswers, Range
<1>6. \A i \in DOMAIN all : i \in 1 .. n \/ i \in n + 1 .. n + AnswerLen
  BY <1>1, <1>3
<1>7. ASSUME NEW i \in DOMAIN all, NEW j \in DOMAIN all, i < j
      PROVE  all[i] =< all[j]
  <2>1. CASE j \in 1 .. n
    <3>1. i \in 1 .. n
      BY <1>1, <1>3, <1>7, <2>1
    <3>. QED
      BY <1>3, <1>7, <2>1, <3>1 DEF WholeAnswers
  <2>2. CASE j \in n + 1 .. n + AnswerLen
    BY <1>4, <1>5, <1>6, <2>2
  <2>. QED
    BY <1>6, <2>1, <2>2
<1>8. Range(all) \subseteq frames \cup {f}
  BY <1>4, <1>5, <1>6 DEF Range
<1>9. ASSUME NEW g \in frames \cup {f}
      PROVE  \E first \in DOMAIN all :
                {i \in DOMAIN all : all[i] = g} = first .. first + AnswerLen - 1
  <2>1. CASE g = f
    <3>1. n + 1 \in DOMAIN all
      BY <1>1, <1>3
    <3>2. \A i \in DOMAIN all : all[i] = f <=> i \in n + 1 .. n + AnswerLen
      BY <1>4, <1>5, <1>6
    <3>3. n + 1 .. n + AnswerLen \subseteq DOMAIN all
      BY <1>1, <1>3
    <3>4. {i \in DOMAIN all : all[i] = g} = n + 1 .. n + AnswerLen
      BY <2>1, <3>2, <3>3
    <3>5. n + AnswerLen = (n + 1) + AnswerLen - 1
      BY <1>1
    <3>. QED
      BY <3>1, <3>4, <3>5
  <2>2. CASE g # f
    <3>1. PICK first \in DOMAIN bytes :
             {i \in DOMAIN bytes : bytes[i] = g} = first .. first + AnswerLen - 1
      BY <2>2 DEF WholeAnswers
    <3>2. \A i \in DOMAIN all : all[i] = g <=> i \in DOMAIN bytes /\ bytes[i] = g
      BY <1>3, <1>4, <1>6, <2>2
    <3>3. DOMAIN bytes \subseteq DOMAIN all
      BY <1>1, <1>3
    <3>4. {i \in DOMAIN all : all[i] = g} = {i \in DOMAIN bytes : bytes[i] = g}
      BY <3>2, <3>3
    <3>. QED
      BY <3>1, <3>3, <3>4
  <2>. QED
    BY <2>1, <2>2
<1>. QED
  BY <1>7, <1>8, <1>9 DEF WholeAnswers, all, answer

(* Bytes that are joined may be grouped in any way.                        *)
LEMMA BytesAssociate ==
    \A a, b, c \in Seq(Nat) : (a \o b) \o c = a \o (b \o c)
BY Associates, SMTT(30), ZenonT(30)

LEMMA BytesRegroup ==
    \A a, b, c, d \in Seq(Nat) : (a \o b) \o (c \o d) = a \o ((b \o c) \o d)
<1>. TAKE a, b, c, d \in Seq(Nat)
<1>1. c \o d \in Seq(Nat)
  BY NumbersConcatenated
<1>2. (a \o b) \o (c \o d) = a \o (b \o (c \o d))
  BY <1>1, BytesAssociate, ZenonT(60)
<1>3. b \o (c \o d) = (b \o c) \o d
  BY BytesAssociate, ZenonT(60)
<1>. QED
  BY <1>2, <1>3

(* Writing takes from the queue what it adds to the socket.                *)
LEMMA WriteMoves ==
    ASSUME TypeOK, KeysOK, \A c \in Conns : Room(c) >= 0, ContinueWrite, NEW c \in Conns
    PROVE  out'[c] \o Unwritten(writeQueue'[c]) = out[c] \o Unwritten(writeQueue[c])
<1>types. /\ out \in [Conns -> Seq(Nat)] /\ writeQueue \in [Conns -> Seq(Item)]
          /\ received \in [Conns -> Nat] /\ AnswerLen \in Nat /\ SockBuf \in Nat
  BY ReactorAssumption DEF TypeOK, Item
<1>1. PICK k \in Conns : k = current /\ writeQueue[k] # <<>>
  BY DEF KeysOK, ContinueWrite
<1>. DEFINE q == writeQueue[k]
            top == Head(q)
            n == Smaller(top.remaining, Room(k))
            bytes == [i \in 1 .. n |-> top.frame]
<1>2. q \in Seq(Item) /\ q # <<>> /\ top \in Item /\ top = q[1] /\ Tail(q) \in Seq(Item)
  <2>1. q \in Seq(Item) /\ q # <<>>
    BY <1>types, <1>1
  <2>. QED
    BY <2>1, Shortened
<1>3. n \in Nat /\ n <= top.remaining /\ top.frame \in Nat /\ top.remaining \in 1 .. AnswerLen
  <2>1. Room(k) \in Int /\ Room(k) >= 0
    BY <1>types, <1>1 DEF Room
  <2>2. top.remaining \in 1 .. AnswerLen /\ top.frame \in Nat
    BY <1>2 DEF Item
  <2>. HIDE DEF top
  <2>. QED
    BY <1>types, <2>1, <2>2 DEF Smaller
<1>4. bytes \in Seq(Nat) /\ Len(bytes) = n /\ \A i \in 1 .. n : bytes[i] = top.frame
  <2>. HIDE DEF n, top
  <2>. QED
    BY <1>3, BytesType
<1>5. Unwritten(q) = BytesOf(top) \o Unwritten(Tail(q)) /\ Unwritten(Tail(q)) \in Seq(Nat)
  <2>. HIDE DEF q
  <2>. QED
    BY <1>2, UnwrittenParts
<1>6. CASE UNCHANGED <<out, writeQueue>>
  BY <1>6
<1>7. CASE c # k
  <2>1. out'[c] = out[c] /\ writeQueue'[c] = writeQueue[c]
    BY <1>types, <1>1, <1>7 DEF ContinueWrite
  <2>. QED
    BY <2>1
<1>8. CASE c = k /\ n < top.remaining /\ out' = [out EXCEPT ![k] = @ \o bytes]
                 /\ writeQueue' = [writeQueue EXCEPT ![k][1].remaining = @ - n]
  <2>. DEFINE rest == [top EXCEPT !.remaining = @ - n]
              left == [q EXCEPT ![1] = rest]
  <2>1. out'[k] = out[k] \o bytes /\ writeQueue'[k] = left
    <3>. HIDE DEF bytes, n
    <3>. QED
      BY <1>types, <1>1, <1>2, <1>8
  <2>2. rest \in Item /\ rest.frame = top.frame /\ rest.remaining = top.remaining - n
    <3>. HIDE DEF n
    <3>1. top.remaining - n \in 1 .. AnswerLen
      <4>. DEFINE r == top.remaining
      <4>1. n < r /\ n \in Nat /\ r \in 1 .. AnswerLen
        BY <1>3, <1>8
      <4>. HIDE DEF r
      <4>2. r - n \in 1 .. AnswerLen
        BY <1>types, <4>1
      <4>. QED
        BY <4>2 DEF r
    <3>2. top = [frame |-> top.frame, remaining |-> top.remaining]
      BY <1>2 DEF Item
    <3>. HIDE DEF top
    <3>3. rest = [frame |-> top.frame, remaining |-> top.remaining - n]
      BY <3>2
    <3>. QED
      BY <1>3, <3>1, <3>3 DEF Item
  <2>. HIDE DEF rest
  <2>3. left \in Seq(Item) /\ left # <<>> /\ Head(left) = rest /\ Tail(left) = Tail(q)
    <3>. HIDE DEF q
    <3>. QED
      BY <1>2, <2>2, HeadReplaced
  <2>4. Unwritten(left) = BytesOf(rest) \o Unwritten(Tail(q))
    <3>. HIDE DEF left, q
    <3>. QED
      BY <2>3, UnwrittenParts
  <2>5. bytes \o BytesOf(rest) = BytesOf(top) /\ BytesOf(rest) \in Seq(Nat)
    <3>. DEFINE f == top.frame  r == top.remaining
    <3>1. f \in Nat /\ r \in Nat /\ n \in Nat /\ n <= r
      BY <1>3
    <3>2. BytesOf(rest) = [i \in 1 .. r - n |-> f] /\ BytesOf(top) = [i \in 1 .. r |-> f]
      BY <2>2 DEF BytesOf
    <3>. HIDE DEF f, r, n
    <3>3. [i \in 1 .. n |-> f] \o [i \in 1 .. r - n |-> f] = [i \in 1 .. r |-> f]
      BY <3>1, BytesJoin
    <3>4. [i \in 1 .. r - n |-> f] \in Seq(Nat)
      BY <3>1, BytesType
    <3>. QED
      BY <3>2, <3>3, <3>4 DEF f
  <2>. DEFINE a == out[k]  d == BytesOf(rest)  e == Unwritten(Tail(q))
  <2>6. a \in Seq(Nat) /\ bytes \in Seq(Nat) /\ d \in Seq(Nat) /\ e \in Seq(Nat)
    BY <1>types, <1>1, <1>4, <1>5, <2>5
  <2>7. (a \o bytes) \o (d \o e) = a \o ((bytes \o d) \o e)
    <3>. HIDE DEF a, bytes, d, e
    <3>1. a \in Seq(Nat) /\ bytes \in Seq(Nat) /\ d \in Seq(Nat) /\ e \in Seq(Nat)
      BY <2>6
    <3>2. \A v, w, x \in Seq(Nat) : (a \o v) \o (w \o x) = a \o ((v \o w) \o x)
      BY <3>1, BytesRegroup, Zenon
    <3>3. \A w, x \in Seq(Nat) : (a \o bytes) \o (w \o x) = a \o ((bytes \o w) \o x)
      BY <3>1, <3>2, Zenon
    <3>. QED
      BY <3>1, <3>3, Zenon
  <2>8. /\ out'[c] \o Unwritten(writeQueue'[c]) = (a \o bytes) \o (d \o e)
        /\ out[c] \o Unwritten(writeQueue[c]) = a \o (BytesOf(top) \o e)
    BY <1>5, <1>8, <2>1, <2>4
  <2>. QED
    BY <2>5, <2>7, <2>8
<1>9. CASE c = k /\ n = top.remaining /\ out' = [out EXCEPT ![k] = @ \o bytes]
                 /\ writeQueue' = [writeQueue EXCEPT ![k] = Tail(@)]
  <2>1. out'[k] = out[k] \o bytes /\ writeQueue'[k] = Tail(q)
    <3>. HIDE DEF bytes, n
    <3>. QED
      BY <1>types, <1>1, <1>9
  <2>2. bytes = BytesOf(top)
    BY <1>9 DEF BytesOf
  <2>. DEFINE a == out[k]  e == Unwritten(Tail(q))
  <2>3. a \in Seq(Nat) /\ bytes \in Seq(Nat) /\ e \in Seq(Nat)
    BY <1>types, <1>1, <1>4, <1>5
  <2>4. (a \o bytes) \o e = a \o (bytes \o e)
    <3>. HIDE DEF a, bytes, e
    <3>1. a \in Seq(Nat) /\ bytes \in Seq(Nat) /\ e \in Seq(Nat)
      BY <2>3
    <3>. QED
      BY <3>1, BytesAssociate, Zenon
  <2>. QED
    BY <1>5, <1>9, <2>1, <2>2, <2>4
<1>10. \/ UNCHANGED <<out, writeQueue>>
       \/ /\ n < top.remaining /\ out' = [out EXCEPT ![k] = @ \o bytes]
          /\ writeQueue' = [writeQueue EXCEPT ![k][1].remaining = @ - n]
       \/ /\ n = top.remaining /\ out' = [out EXCEPT ![k] = @ \o bytes]
          /\ writeQueue' = [writeQueue EXCEPT ![k] = Tail(@)]
  BY <1>1 DEF ContinueWrite
<1>. QED
  BY <1>6, <1>7, <1>8, <1>9, <1>10

(* Only writeQueue.add puts an answer, one to a frame after those that     *)
(* have theirs.                                                            *)
LEMMA PutMoves ==
    ASSUME TypeOK, [Next]_vars, NEW c \in Conns, HandlerOf(c)
    PROVE  /\ ~Answer(c) => Put(c)' = Put(c)
           /\ Answer(c) => /\ Put(c)' = Put(c) \cup {FrameOf(c)}
                           /\ FrameOf(c) \in Nat /\ \A g \in Put(c) : g < FrameOf(c)
<1>types. /\ pc \in [Conns -> {"idle", "decode", "process", "answer", "addTask", "wakeup"}]
          /\ decoded \in [Conns -> Nat] /\ running \in [Conns -> 0 .. ReadLen]
          /\ FrameLen \in Nat \ {0} /\ ReadLen \in Nat
          /\ Answered[c] \subseteq Nat /\ Put(c) \subseteq Put(c)'
  BY TaskMoves, ReactorAssumption DEF TypeOK
<1>frame. FrameOf(c) \in Nat
  BY <1>types, FrameNumber DEF FrameOf
<1>1. CASE ~TaskStep(c)
  BY <1>1, TaskStays DEF TaskStep
<1>2. CASE Decode(c)
  <2>1. Put(c)' \subseteq Put(c)
    <3>. DEFINE missing == FrameLen - (decoded[c] % FrameLen)
                n == Smaller(missing, running[c])
    <3>1. n \in Nat /\ n <= missing
      <4>1. decoded[c] % FrameLen \in 0 .. FrameLen - 1
        BY <1>types, FrameNumber
      <4>. QED
        BY <1>types, <4>1 DEF Smaller
    <3>. HIDE DEF n
    <3>2. decoded'[c] = decoded[c] + n /\ pc'[c] = IF n = missing THEN "process" ELSE "idle"
      BY <1>types, <1>2 DEF Decode, n
    <3>3. FrameOf(c)' = IF n = missing THEN FrameOf(c) + 1 ELSE FrameOf(c)
      <4>1. /\ n = missing => (decoded[c] + n) \div FrameLen = (decoded[c] \div FrameLen) + 1
            /\ n # missing => (decoded[c] + n) \div FrameLen = decoded[c] \div FrameLen
        BY <1>types, <3>1, FrameCount
      <4>. QED
        BY <3>2, <4>1 DEF FrameOf
    <3>4. ASSUME NEW f \in Put(c)' PROVE f \in Put(c)
      <4>1. f \in Answered[c] /\ f \in Nat /\ f <= FrameOf(c)' 
            /\ (f = FrameOf(c)' => pc'[c] # "process")
        BY <1>types, <1>frame, <3>3, <3>4 DEF Put
      <4>2. pc[c] = "decode" /\ f <= FrameOf(c)
        BY <1>2, <1>frame, <3>2, <3>3, <4>1 DEF Decode
      <4>. QED
        BY <1>frame, <4>1, <4>2 DEF Put
    <3>. QED
      BY <3>4
  <2>2. ~Answer(c)
    BY <1>2 DEF Decode, Answer
  <2>. QED
    BY <1>types, <2>1, <2>2
<1>3. CASE Answer(c)
  <2>1. /\ pc[c] = "answer" /\ pc'[c] = "addTask" /\ FrameOf(c)' = FrameOf(c)
        /\ FrameOf(c) \in Answered[c]
    BY <1>types, <1>3 DEF Answer, FrameOf, HandlerOf
  <2>2. \A f \in Put(c) : f < FrameOf(c)
    BY <2>1 DEF Put
  <2>3. Put(c)' = Put(c) \cup {FrameOf(c)}
    BY <2>1 DEF Put
  <2>. QED
    BY <1>3, <1>frame, <2>2, <2>3
<1>4. CASE TakeTask(c) \/ Process(c) \/ UpdateInterestedOps(c) \/ Wakeup(c)
  <2>1. FrameOf(c)' = FrameOf(c) /\ ~Answer(c)
    BY <1>4 DEF TakeTask, Process, Answer, UpdateInterestedOps, Wakeup, FrameOf
  <2>2. \/ pc[c] \notin {"process", "answer"}
        \/ FrameOf(c) \notin Answered[c]
        \/ pc'[c] = "answer"
    BY <1>types, <1>4 DEF TakeTask, Process, UpdateInterestedOps, Wakeup
  <2>. QED
    BY <1>types, <2>1, <2>2 DEF Put
<1>. QED
  BY <1>1, <1>2, <1>3, <1>4 DEF TaskStep

(* Every step keeps the answers whole.                                     *)
LEMMA WholeStep ==
    ASSUME ReactorInv, AnswersWhole, [Next]_vars
    PROVE  AnswersWhole'
<1>. SUFFICES ASSUME NEW c \in Conns
              PROVE  WholeAnswers(out'[c] \o Unwritten(writeQueue'[c]), Put(c)')
  BY DEF AnswersWhole, WholeAnswers
<1>inv. TypeOK /\ KeysOK /\ HandlerOf(c) /\ \A d \in Conns : Room(d) >= 0
  BY DEF ReactorInv, HandlerOf
<1>types. /\ out \in [Conns -> Seq(Nat)] /\ writeQueue \in [Conns -> Seq(Item)]
          /\ AnswerLen \in Nat \ {0}
  BY <1>inv, ReactorAssumption DEF TypeOK, Item
<1>. DEFINE bytes == out[c] \o Unwritten(writeQueue[c])
<1>whole. WholeAnswers(bytes, Put(c))
  BY DEF AnswersWhole
<1>1. ASSUME out'[c] \o Unwritten(writeQueue'[c]) = bytes, ~Answer(c)
      PROVE  WholeAnswers(out'[c] \o Unwritten(writeQueue'[c]), Put(c)')
  <2>1. Put(c)' = Put(c)
    BY <1>inv, <1>1, PutMoves
  <2>. QED
    BY <1>whole, <1>1, <2>1
<1>2. CASE ContinueWrite
  <2>1. ~Answer(c)
    <3>1. CASE UNCHANGED pc
      BY <1>inv, <3>1 DEF Answer, TypeOK
    <3>. QED
      BY <1>2, <3>1 DEF ContinueWrite, taskVars
  <2>. QED
    BY <1>inv, <1>1, <1>2, <2>1, WriteMoves
<1>3. CASE Answer(c)
  <2>. DEFINE f == FrameOf(c)
              item == [frame |-> f, remaining |-> AnswerLen]
              a == out[c]
              q == writeQueue[c]
  <2>1. /\ f \in Nat /\ \A g \in Put(c) : g < f
        /\ Put(c)' = Put(c) \cup {f}
    <3>. HIDE DEF item, a, q
    <3>. QED
      BY <1>inv, <1>3, PutMoves, Zenon
  <2>2. out'[c] = a /\ writeQueue'[c] = Append(q, item)
    <3>1. /\ out' = out
          /\ writeQueue' = [writeQueue EXCEPT ![c] = Append(@, item)]
      BY <1>3 DEF Answer, clientVars
    <3>. HIDE DEF item
    <3>. QED
      BY <1>types, <3>1
  <2>. HIDE DEF f
  <2>3. item \in Item /\ a \in Seq(Nat) /\ q \in Seq(Item)
    <3>1. f \in Nat /\ AnswerLen \in 1 .. AnswerLen
      BY <1>types, <2>1
    <3>2. item \in Item
      BY <3>1 DEF Item
    <3>. QED
      BY <1>types, <3>2
  <2>4. BytesOf(item) = [i \in 1 .. AnswerLen |-> f]
    BY DEF BytesOf
  <2>. HIDE DEF item, a, q
  <2>5. /\ Unwritten(Append(q, item)) = Unwritten(q) \o BytesOf(item)
        /\ Unwritten(q) \in Seq(Nat)
    BY <2>3, UnwrittenParts
  <2>6. BytesOf(item) \in Seq(Nat)
    BY <1>types, <2>1, <2>4, BytesType
  <2>7. (a \o Unwritten(q)) \o BytesOf(item) = a \o (Unwritten(q) \o BytesOf(item))
    BY <2>3, <2>5, <2>6, BytesAssociate, Zenon
  <2>8. a \o Unwritten(q) \in Seq(Nat) /\ Put(c) \in SUBSET Nat
    <3>1. a \o Unwritten(q) \in Seq(Nat)
      BY <2>3, <2>5, NumbersConcatenated
    <3>2. Answered[c] \subseteq Nat
      BY ReactorAssumption
    <3>. QED
      BY <3>1, <3>2 DEF Put
  <2>9. WholeAnswers((a \o Unwritten(q)) \o [i \in 1 .. AnswerLen |-> f], Put(c) \cup {f})
    BY <1>whole, <2>1, <2>8, WholeAppend DEF a, q
  <2>10. out'[c] \o Unwritten(writeQueue'[c]) = (a \o Unwritten(q)) \o [i \in 1 .. AnswerLen |-> f]
    BY <2>2, <2>4, <2>5, <2>7
  <2>. QED
    BY <2>1, <2>9, <2>10
<1>4. ASSUME NEW d \in Conns, d # c, Answer(d)
      PROVE  WholeAnswers(out'[c] \o Unwritten(writeQueue'[c]), Put(c)')
  <2>1. out'[c] = out[c] /\ writeQueue'[c] = writeQueue[c]
    BY <1>types, <1>4 DEF Answer, clientVars
  <2>2. ~Answer(c)
    BY <1>inv, <1>4 DEF Answer, TypeOK
  <2>. QED
    BY <1>1, <2>1, <2>2
<1>5. CASE UNCHANGED <<out, writeQueue>> /\ ~Answer(c)
  BY <1>1, <1>5
<1>6. CASE \E d \in Conns : ClientReceive(d)
  <2>1. UNCHANGED <<out, writeQueue, pc>>
    BY <1>6 DEF ClientReceive, taskVars
  <2>2. ~Answer(c)
    BY <1>inv, <2>1 DEF Answer, TypeOK
  <2>. QED
    BY <1>1, <2>1, <2>2
<1>. QED
  BY <1>2, <1>3, <1>4, <1>5, <1>6, TaskWriters DEF vars, clientVars

-----------------------------------------------------------------------------
(* The theorems.                                                           *)

(* The initial state has the invariant.                                    *)
LEMMA ReactorInvInit == Init => ReactorInv
<1>. SUFFICES ASSUME Init PROVE ReactorInv
  OBVIOUS
<1>1. TypeOK
  BY TypesInit
<1>2. KeysOK
  BY ReactorAssumption DEF Init, KeysOK
<1>3. ASSUME NEW c \in Conns
      PROVE  HandlerOf(c) /\ SettledOf(c) /\ RequestOf(c) /\ ClosedOf(c)
  <2>1. HandlerOf(c)
    <3>1. Room(c) >= 0
      <4>1. out[c] = <<>> /\ received[c] = 0 /\ SockBuf \in Nat /\ Len(<< >>) = 0
        BY ReactorAssumption DEF Init
      <4>. QED
        BY <4>1 DEF Room
    <3>. QED
      BY <3>1 DEF Init, HandlerOf
  <2>2. SettledOf(c) /\ ClosedOf(c)
    BY DEF Init, SettledOf, ClosedOf
  <2>3. RequestOf(c)
    <3>1. selectorTasks = <<>> /\ DOMAIN selectorTasks = {}
      BY DEF Init
    <3>2. c \notin Requests
      BY <3>1 DEF Requests, ToSet
    <3>3. ~Writes(c)
      BY DEF Init, Writes
    <3>. QED
      BY <3>1, <3>2, <3>3 DEF RequestOf
  <2>. QED
    BY <2>1, <2>2, <2>3
<1>4. WokenOK /\ WriteAskedFor /\ ServesOn
  BY DEF Init, WokenOK, WriteAskedFor, ServesOn
<1>. QED
  BY <1>1, <1>2, <1>3, <1>4 DEF ReactorInv

(* Every step keeps it.                                                    *)
LEMMA ReactorInvStep == ReactorInv /\ [Next]_vars => ReactorInv'
<1>. SUFFICES ASSUME ReactorInv, [Next]_vars PROVE ReactorInv'
  OBVIOUS
<1>1. /\ TypeOK /\ KeysOK /\ WokenOK /\ WriteAskedFor /\ ServesOn
      /\ \A c \in Conns : HandlerOf(c) /\ SettledOf(c) /\ RequestOf(c) /\ ClosedOf(c)
  BY DEF ReactorInv
<1>2. \A c \in Conns : Room(c) >= 0
  BY <1>1 DEF HandlerOf
<1>3. TypeOK' /\ KeysOK'
  BY <1>1, <1>2, TypesStep, KeysStep
<1>4. \A c \in Conns : HandlerOf(c)' /\ SettledOf(c)' /\ RequestOf(c)' /\ ClosedOf(c)'
  BY <1>1, HandlerStep, SettledStep, RequestStep, ClosedStep
<1>5. WokenOK' /\ WriteAskedFor' /\ ServesOn'
  BY <1>1, WokenStep, AskedStep, ServesStep
<1>. QED
  BY <1>3, <1>4, <1>5 DEF ReactorInv

(* The invariant of the reactor holds of every execution.                  *)
THEOREM ReactorInvariance == Spec => []ReactorInv
BY ReactorInvInit, ReactorInvStep, PTL DEF Spec

(* While answers wait on an open channel, the selector is going to look    *)
(* for room to write them: no order of the two threads loses the interest. *)
THEOREM AnswersAreAskedFor == Spec => []WriteAskedFor
<1>1. ReactorInv => WriteAskedFor
  BY DEF ReactorInv
<1>. QED
  BY <1>1, ReactorInvariance, PTL

(* The selector never waits over a request nobody wakes it for.            *)
THEOREM NoRequestSleeps == Spec => []RequestWakes
<1>1. ReactorInv => RequestWakes
  BY DEF ReactorInv, WokenOK, RequestWakes
<1>. QED
  BY <1>1, ReactorInvariance, PTL

(* Without a client that leaves and a session closed early, the selector   *)
(* thread never dies of a request for a closed channel.                    *)
THEOREM SelectorServesOn == Spec => []ServesOn
<1>1. ReactorInv => ServesOn
  BY DEF ReactorInv
<1>. QED
  BY <1>1, ReactorInvariance, PTL

(* No partial write, no chunking of the input and no order of the two      *)
(* threads at writeQueue loses, repeats or mixes a byte of an answer: what *)
(* a client has been sent and what waits for it are the answers to its     *)
(* frames, in their order, each whole.                                     *)
THEOREM AnswersAreWhole == Spec => []AnswersWhole
<1>1. Init => AnswersWhole
  <2>. SUFFICES ASSUME Init, NEW c \in Conns
                PROVE  WholeAnswers(out[c] \o Unwritten(writeQueue[c]), Put(c))
    BY DEF AnswersWhole
  <2>1. out[c] = <<>> /\ writeQueue[c] = <<>> /\ decoded[c] = 0 /\ pc[c] = "idle"
    BY DEF Init
  <2>2. Unwritten(<<>>) = <<>>
    <3>1. [i \in DOMAIN <<>> |-> BytesOf(<<>>[i])] = <<>>
      OBVIOUS
    <3>. QED
      BY <3>1, FlattenNone DEF Unwritten
  <2>3. out[c] \o Unwritten(writeQueue[c]) = <<>>
    BY <2>1, <2>2
  <2>4. Put(c) = {}
    <3>1. FrameOf(c) = 0
      BY <2>1, ReactorAssumption DEF FrameOf
    <3>2. Answered[c] \subseteq Nat \ {0}
      BY ReactorAssumption
    <3>. QED
      BY <3>1, <3>2 DEF Put
  <2>5. WholeAnswers(<<>>, {})
    BY DEF WholeAnswers, Range
  <2>. QED
    BY <2>3, <2>4, <2>5
<1>2. ReactorInv /\ AnswersWhole /\ [Next]_vars => AnswersWhole'
  BY WholeStep
<1>. QED
  BY <1>1, <1>2, ReactorInvariance, PTL DEF Spec

===============================================================================
