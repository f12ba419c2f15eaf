------------------------ MODULE StompClientServer_proofs ------------------------
(***************************************************************************)
(* What every run of the client against the server keeps true, proved for  *)
(* any topics, ids, passcodes, typed lines and bounds.                     *)
(*                                                                         *)
(* The server's part of the state moves by StompTPCServer's steps, so its  *)
(* inductive invariant IndInv holds here too (ServerKeepsInvariants).      *)
(* The client's invariant ClientInv adds what relates the two programs:    *)
(* what is on the wire is, null by null, the frames the server has not     *)
(* read, each behind its predecessor's newline (WireOK).  From it follows  *)
(* what the server reads next (WireReads), and from the shape of the       *)
(* client's frames (FrameIs) that the newline costs a frame its command    *)
(* and nothing else (ReadLater).                                           *)
(***************************************************************************)
EXTENDS StompClientServer, StompTPCServer_proofs, FiniteSetTheorems

-----------------------------------------------------------------------------
(* Texts.                                                                  *)

(* Its first null is the one it is cut at.                                 *)
EndsInNull(S, a, b, t) ==
    /\ a \in Seq(S) /\ b \in Seq(S) /\ NUL \in S /\ t = (a \o <<NUL>>) \o b
    /\ \A i \in 1 .. Len(a) : a[i] # NUL

CutAtNull(a, b, t) ==
    /\ Min(Positions(t, NUL)) = Len(a) + 1
    /\ SubSeq(t, 1, Min(Positions(t, NUL)) - 1) = a
    /\ SubSeq(t, Min(Positions(t, NUL)) + 1, Len(t)) = b

LEMMA FirstNull ==
    ASSUME NEW S, NEW a, NEW b, NEW t, EndsInNull(S, a, b, t)
    PROVE  CutAtNull(a, b, t)
<1>0. /\ a \in Seq(S) /\ b \in Seq(S) /\ NUL \in S /\ t = (a \o <<NUL>>) \o b
      /\ \A i \in 1 .. Len(a) : a[i] # NUL
  BY DEF EndsInNull
<1>1. /\ t \in Seq(S) /\ Len(a) \in Nat /\ Len(b) \in Nat /\ Len(t) = Len(a) + 1 + Len(b)
      /\ t[Len(a) + 1] = NUL /\ \A i \in 1 .. Len(a) : t[i] # NUL
      /\ SubSeq(t, 1, Len(a)) = a /\ SubSeq(t, Len(a) + 2, Len(t)) = b
  BY <1>0, Between
<1>. DEFINE P == Positions(t, NUL)
<1>2. DOMAIN t = 1 .. Len(t)
  BY <1>1
<1>3. P \in SUBSET Nat /\ Len(a) + 1 \in P
  BY <1>0, <1>1, <1>2 DEF Positions
<1>4. Min(P) \in P /\ \A y \in P : Min(P) =< y
  BY <1>3, MinIsLeast
<1>5. \A i \in P : i \in 1 .. Len(t) /\ t[i] = NUL
  BY <1>2 DEF Positions
<1>6. Min(P) = Len(a) + 1
  <2>. DEFINE m == Min(P)
  <2>1. m =< Len(a) + 1 /\ m \in 1 .. Len(t) /\ t[m] = NUL
    BY <1>3, <1>4, <1>5
  <2>. HIDE DEF m
  <2>2. m \notin 1 .. Len(a)
    BY <1>0, <1>1, <2>1
  <2>3. m = Len(a) + 1
    BY <1>1, <2>1, <2>2
  <2>. QED
    BY <2>3 DEF m
<1>7. Min(P) - 1 = Len(a) /\ Min(P) + 1 = Len(a) + 2
  BY <1>1, <1>6
<1>8. SubSeq(t, 1, Min(P) - 1) = a /\ SubSeq(t, Min(P) + 1, Len(t)) = b
  BY <1>1, <1>7
<1>. HIDE DEF P
<1>9. Positions(t, NUL) = P
  BY DEF P
<1>. QED
  BY <1>6, <1>8, <1>9 DEF CutAtNull

-----------------------------------------------------------------------------
(* The client's frames.  What a user typed behind the command, or nothing, *)
(* goes into them.                                                         *)
ArgumentOf(line, i) == IF i <= Len(line) THEN line[i] ELSE ""
Arguments == UNION {{ArgumentOf(line, i) : i \in 2 .. 4} : line \in TypedLines}
Numbers   == {ToString(n) : n \in Nat}

Keys   == {"accept-version", "host", "login", "passcode", "destination", "id", "receipt"}
Values == {"1.2", "stomp.cs.bgu.ac.il"} \cup Arguments \cup {"/" \o a : a \in Arguments} \cup Numbers
Inside == {Word(w) : w \in {"CONNECT", "SUBSCRIBE", "DISCONNECT"} \cup Numbers}
          \cup {Pair(k, v) : k \in Keys, v \in Values}
Tokens == {NL, NUL} \cup Inside

(* Lines of one token each, a word first: a frame without its null.        *)
IsFrame(t) ==
    /\ t \in Seq(Tokens) /\ Len(t) > 1 /\ t[1].kind = "word" /\ t[2] = NL /\ t[Len(t)] = NL
    /\ \A i \in 1 .. Len(t) : t[i] # NUL
    /\ \A i \in 1 .. Len(t) - 1 : t[i] = NL => t[i + 1] # NL

LEMMA Kinds ==
    /\ NL # NUL /\ NL \in Tokens /\ NUL \in Tokens
    /\ \A x \in Inside : x \in Tokens /\ x # NL /\ x # NUL
    /\ \A w : Word(w).kind = "word" /\ Word(w) # NL /\ Word(w) # NUL
    /\ \A k, v : Pair(k, v).kind = "pair"
    /\ NL.kind # "pair"
<1>1. NL.kind = "newline" /\ NUL.kind = "null"
  BY DEF NL, NUL
<1>2. \A w : Word(w).kind = "word"
  BY DEF Word
<1>3. \A k, v : Pair(k, v).kind = "pair"
  BY DEF Pair
<1>4. \A x \in Inside : x.kind \in {"word", "pair"}
  BY <1>2, <1>3 DEF Inside
<1>. QED
  BY <1>1, <1>2, <1>3, <1>4, Zenon DEF Tokens

LEMMA FrameStarts ==
    ASSUME NEW w, Word(w) \in Inside
    PROVE  IsFrame(<<Word(w), NL>>)
<1>. DEFINE t == <<Word(w), NL>>
<1>1. t \in Seq(Tokens) /\ Len(t) = 2 /\ t[1] = Word(w) /\ t[2] = NL
  BY Kinds
<1>. HIDE DEF t
<1>2. IsFrame(t)
  BY <1>1, Kinds DEF IsFrame
<1>. QED
  BY <1>2 DEF t

LEMMA FrameGrows ==
    ASSUME NEW t, IsFrame(t), NEW x \in Inside
    PROVE  IsFrame(t \o <<x, NL>>)
<1>. DEFINE l == <<x, NL>>
            u == t \o l
<1>1. l \in Seq(Tokens) /\ Len(l) = 2 /\ l[1] = x /\ l[2] = NL
  BY Kinds
<1>2. t \in Seq(Tokens) /\ Len(t) \in Nat /\ Len(t) > 1
  BY DEF IsFrame
<1>. HIDE DEF l
<1>3. /\ u \in Seq(Tokens) /\ Len(u) = Len(t) + 2
      /\ \A i \in 1 .. Len(t) : u[i] = t[i]
      /\ u[Len(t) + 1] = x /\ u[Len(t) + 2] = NL
  <2>1. /\ u \in Seq(Tokens) /\ Len(u) = Len(t) + Len(l)
        /\ \A i \in 1 .. Len(t) : u[i] = t[i]
        /\ \A i \in 1 .. Len(l) : u[Len(t) + i] = l[i]
    <3>1. t \in Seq(Tokens) /\ l \in Seq(Tokens)
      BY <1>1, <1>2
    <3>2. Joined(Tokens, t, l, u)
      BY <3>1, Concatenated
    <3>. HIDE DEF u
    <3>. QED
      BY <3>2 DEF Joined
  <2>2. u[Len(t) + 1] = l[1] /\ u[Len(t) + 2] = l[2]
    <3>1. 1 \in 1 .. Len(l) /\ 2 \in 1 .. Len(l)
      BY <1>1
    <3>. HIDE DEF u
    <3>. QED
      BY <2>1, <3>1
  <2>. HIDE DEF u
  <2>. QED
    BY <1>1, <2>1, <2>2
<1>. HIDE DEF u
<1>4. \A i \in 1 .. Len(u) : i \in 1 .. Len(t) \/ i = Len(t) + 1 \/ i = Len(t) + 2
  BY <1>2, <1>3
<1>5. x # NL /\ x # NUL /\ NL # NUL
  BY Kinds
<1>6. \A i \in 1 .. Len(u) : u[i] # NUL
  BY <1>3, <1>4, <1>5 DEF IsFrame
<1>7. ASSUME NEW i \in 1 .. Len(u) - 1, u[i] = NL
      PROVE  u[i + 1] # NL
  <2>1. CASE i < Len(t)
    <3>1. i \in 1 .. Len(t) - 1 /\ i \in 1 .. Len(t) /\ i + 1 \in 1 .. Len(t)
      BY <1>2, <1>3, <2>1
    <3>. QED
      BY <1>3, <1>7, <3>1 DEF IsFrame
  <2>2. CASE i = Len(t)
    BY <1>3, <1>5, <2>2
  <2>3. CASE i = Len(t) + 1
    BY <1>3, <1>5, <1>7, <2>3
  <2>. QED
    BY <1>2, <1>3, <2>1, <2>2, <2>3
<1>8. u[1] = t[1] /\ u[2] = t[2] /\ Len(u) > 1 /\ u[Len(u)] = NL
  BY <1>2, <1>3
<1>9. IsFrame(u)
  BY <1>3, <1>6, <1>7, <1>8 DEF IsFrame
<1>. QED
  BY <1>9 DEF u, l

LEMMA WithoutNull ==
    ASSUME NEW t, IsFrame(t)
    PROVE  Front(t \o <<NUL>>) = t
<1>1. t \in Seq(Tokens) /\ <<>> \in Seq(Tokens) /\ NUL \in Tokens
  BY Kinds DEF IsFrame
<1>. DEFINE u == t \o <<NUL>>
<1>2. u = (t \o <<NUL>>) \o <<>> /\ Len(u) = Len(t) + 1 /\ Len(t) \in Nat
  BY <1>1
<1>3. SubSeq(u, 1, Len(t)) = t
  BY <1>1, <1>2, Between
<1>4. Len(u) - 1 = Len(t)
  BY <1>2
<1>. HIDE DEF u
<1>5. Front(u) = t
  BY <1>3, <1>4 DEF Front
<1>. QED
  BY <1>5 DEF u

LEMMA FiveTokens ==
    ASSUME NEW S, NEW a \in S, NEW b \in S, NEW c \in S, NEW d \in S, NEW e \in S
    PROVE  <<a, b, c, d, e>> = (<<a, b>> \o <<c, d>>) \o <<e>>
<1>. DEFINE p == <<a, b>>
            q == <<c, d>>
            r == <<e>>
            l == p \o q
            m == l \o r
            n == <<a, b, c, d, e>>
<1>1. /\ p \in Seq(S) /\ Len(p) = 2 /\ p[1] = a /\ p[2] = b
      /\ q \in Seq(S) /\ Len(q) = 2 /\ q[1] = c /\ q[2] = d
      /\ r \in Seq(S) /\ Len(r) = 1 /\ r[1] = e
  OBVIOUS
<1>2. /\ n \in Seq(S) /\ Len(n) = 5
      /\ n[1] = a /\ n[2] = b /\ n[3] = c /\ n[4] = d /\ n[5] = e
  OBVIOUS
<1>. HIDE DEF p, q, r, n
<1>3. Joined(S, p, q, l)
  BY <1>1, Concatenated
<1>. HIDE DEF l
<1>4. l \in Seq(S) /\ Len(l) = 4 /\ l[1] = a /\ l[2] = b /\ l[3] = c /\ l[4] = d
  <2>1. 1 \in 1 .. Len(p) /\ 2 \in 1 .. Len(p) /\ 1 \in 1 .. Len(q) /\ 2 \in 1 .. Len(q)
    BY <1>1
  <2>. QED
    BY <1>1, <1>3, <2>1 DEF Joined
<1>5. Joined(S, l, r, m)
  BY <1>1, <1>4, Concatenated
<1>. HIDE DEF m
<1>6. m[1] = a /\ m[2] = b /\ m[3] = c /\ m[4] = d /\ m[5] = e
  <2>1. \A i \in 1 .. 4 : m[i] = l[i]
    BY <1>4, <1>5 DEF Joined
  <2>2. m[4 + 1] = r[1]
    BY <1>1, <1>4, <1>5 DEF Joined
  <2>. QED
    BY <1>1, <1>4, <2>1, <2>2
<1>7. \A i \in 1 .. 5 : i = 1 \/ i = 2 \/ i = 3 \/ i = 4 \/ i = 5
  OBVIOUS
<1>8. \A i \in 1 .. Len(n) : n[i] = m[i]
  BY <1>2, <1>6, <1>7
<1>9. n = m
  <2>1. m \in Seq(S) /\ Len(m) = Len(n)
    BY <1>1, <1>2, <1>4, <1>5 DEF Joined
  <2>. QED
    BY <1>2, <1>8, <2>1, SeqEqual
<1>. QED
  BY <1>9 DEF n, m, l, p, q, r

(* What sendLine writes is a frame and its null.                           *)
LEMMA FrameIs ==
    ASSUME userInput \in TypedLines \cup {<<>>}, userInput # <<>>,
           userInput[1] \in {"login", "join", "logout"},
           recipt_id \in Nat, subscriptionId \in Nat
    PROVE  \E t : /\ IsFrame(t) /\ Frame = t \o <<NUL>>
                  /\ userInput[1] = "logout" => IsLogout(t)
<1>. USE Kinds
<1>1. \A i \in 2 .. 4 : Argument(i) \in Arguments
  <2>. TAKE i \in 2 .. 4
  <2>1. userInput \in TypedLines
    OBVIOUS
  <2>2. Argument(i) = ArgumentOf(userInput, i)
    BY DEF Argument, ArgumentOf
  <2>. QED
    BY <2>1, <2>2 DEF Arguments
<1>2. /\ Argument(2) \in Arguments /\ Argument(3) \in Arguments /\ Argument(4) \in Arguments
      /\ ToString(recipt_id) \in Numbers /\ ToString(subscriptionId) \in Numbers
  BY <1>1 DEF Numbers
<1>3. \A k \in Keys, v \in Values : Pair(k, v) \in Inside
  BY DEF Inside
<1>4. \A w \in {"CONNECT", "SUBSCRIBE", "DISCONNECT"} \cup Numbers : Word(w) \in Inside
  BY DEF Inside
<1>5. \A t : IsFrame(t) => \A k \in Keys, v \in Values : IsFrame(t \o Header(k, v))
  BY <1>3, FrameGrows DEF Header
<1>6. CASE userInput[1] = "login"
  <2>. DEFINE t0 == <<Word("CONNECT"), NL>>
              t1 == t0 \o Header("accept-version", "1.2")
              t2 == t1 \o Header("host", "stomp.cs.bgu.ac.il")
              t3 == t2 \o Header("login", Argument(3))
              t4 == t3 \o Header("passcode", Argument(4))
  <2>1. Frame = t4 \o <<NUL>>
    BY <1>6 DEF Frame
  <2>2. IsFrame(t0)
    BY <1>4, FrameStarts
  <2>3. /\ "1.2" \in Values /\ "stomp.cs.bgu.ac.il" \in Values
        /\ Argument(3) \in Values /\ Argument(4) \in Values
        /\ {"accept-version", "host", "login", "passcode"} \subseteq Keys
    BY <1>2 DEF Values, Keys
  <2>. HIDE DEF t0
  <2>4. IsFrame(t1)
    BY <1>5, <2>2, <2>3
  <2>. HIDE DEF t1
  <2>5. IsFrame(t2)
    BY <1>5, <2>3, <2>4
  <2>. HIDE DEF t2
  <2>6. IsFrame(t3)
    BY <1>5, <2>3, <2>5
  <2>. HIDE DEF t3
  <2>7. IsFrame(t4)
    BY <1>5, <2>3, <2>6
  <2>. QED
    BY <1>6, <2>1, <2>7
<1>7. CASE userInput[1] = "join"
  <2>. DEFINE t0 == <<Word("SUBSCRIBE"), NL>>
              t1 == t0 \o Header("destination", "/" \o Argument(2))
              t2 == t1 \o Header("id", ToString(subscriptionId))
              t3 == t2 \o Header("receipt", ToString(recipt_id))
  <2>1. Frame = t3 \o <<NUL>>
    BY <1>7 DEF Frame
  <2>2. IsFrame(t0)
    BY <1>4, FrameStarts
  <2>3. /\ "/" \o Argument(2) \in Values
        /\ ToString(subscriptionId) \in Values /\ ToString(recipt_id) \in Values
        /\ {"destination", "id", "receipt"} \subseteq Keys
    BY <1>2 DEF Values, Keys
  <2>. HIDE DEF t0
  <2>4. IsFrame(t1)
    BY <1>5, <2>2, <2>3
  <2>. HIDE DEF t1
  <2>5. IsFrame(t2)
    BY <1>5, <2>3, <2>4
  <2>. HIDE DEF t2
  <2>6. IsFrame(t3)
    BY <1>5, <2>3, <2>5
  <2>. QED
    BY <1>7, <2>1, <2>6
<1>8. CASE userInput[1] = "logout"
  <2>. DEFINE w == Word("DISCONNECT")
              n == Word(ToString(recipt_id))
              t0 == <<w, NL>>
              t1 == t0 \o <<n, NL>>
  <2>1. Frame = <<w, NL, n, NL, NUL>>
    BY <1>8 DEF Frame
  <2>2. IsFrame(t0) /\ n \in Inside
    BY <1>2, <1>4, FrameStarts
  <2>3. IsFrame(t1)
    BY <2>2, FrameGrows
  <2>4. w \in Tokens /\ n \in Tokens /\ NL \in Tokens /\ NUL \in Tokens
    BY <1>4, <2>2
  <2>. HIDE DEF w, n, t1
  <2>5. <<w, NL, n, NL, NUL>> = t1 \o <<NUL>>
    BY <2>4, FiveTokens, SMTT(60) DEF t1
  <2>6. t1[1] = w
    <3>1. t0 \in Seq(Tokens) /\ <<n, NL>> \in Seq(Tokens) /\ t0[1] = w /\ Len(t0) = 2
      BY <2>4
    <3>2. Joined(Tokens, t0, <<n, NL>>, t1)
      BY <3>1, Concatenated DEF t1
    <3>. QED
      BY <3>1, <3>2 DEF Joined
  <2>7. IsLogout(t1)
    BY <2>6 DEF IsLogout, w
  <2>. QED
    BY <2>1, <2>3, <2>5, <2>7
<1>. QED
  BY <1>6, <1>7, <1>8

-----------------------------------------------------------------------------
(* How such a frame is parsed: where its first newline is, and that no     *)
(* empty line follows.                                                     *)
LEMMA ParseIs ==
    ASSUME NEW S, NEW t \in Seq(S), NEW first \in 1 .. Len(t), t[first] = NL,
           \A i \in 1 .. Len(t) : t[i] = NL => first =< i,
           \A i \in first + 1 .. Len(t) - 1 : t[i] = NL => t[i + 1] # NL
    PROVE  /\ ParseFrame(t).command = SubSeq(t, 1, first - 1)
           /\ ParseFrame(t).headers = Headers(SubSeq(t, first + 1, Len(t)))
<1>1. Len(t) \in Nat /\ DOMAIN t = 1 .. Len(t)
  OBVIOUS
<1>2. NL \in Range(t)
  BY <1>1 DEF Range
<1>. DEFINE P == Positions(t, NL)
            blank == {i \in Min(P) + 1 .. Len(t) - 1 : t[i] = NL /\ t[i + 1] = NL}
<1>3. Min(P) = first
  <2>1. P \in SUBSET Nat /\ first \in P /\ \A i \in P : first =< i
    BY <1>1 DEF Positions
  <2>2. Min(P) \in P /\ Min(P) =< first
    BY <2>1, MinIsLeast
  <2>. QED
    BY <2>1, <2>2
<1>4. blank = {}
  BY <1>3
<1>. DEFINE end == IF blank = {} THEN Len(t) + 1 ELSE Min(blank)
            m == [kind    |-> "message",
                  command |-> SubSeq(t, 1, Min(P) - 1),
                  headers |-> Headers(SubSeq(t, Min(P) + 1, end - 1)),
                  body    |-> IF blank = {} THEN NoBody ELSE SubSeq(t, end + 2, Len(t))]
<1>5. ParseFrame(t) = m
  BY <1>2 DEF ParseFrame
<1>6. end - 1 = Len(t)
  BY <1>1, <1>4
<1>7. m.command = SubSeq(t, 1, Min(P) - 1) /\ m.headers = Headers(SubSeq(t, Min(P) + 1, end - 1))
  <2>. HIDE DEF P, blank, end
  <2>. QED
    OBVIOUS
<1>. HIDE DEF m, end, P
<1>. QED
  BY <1>3, <1>5, <1>6, <1>7

LEMMA ParseFirst ==
    ASSUME NEW t, IsFrame(t)
    PROVE  ParseFrame(t).headers = Headers(SubSeq(t, 3, Len(t)))
<1>1. t \in Seq(Tokens) /\ Len(t) \in Nat /\ Len(t) > 1 /\ 2 \in 1 .. Len(t) /\ t[2] = NL
  BY DEF IsFrame
<1>2. t[1] # NL
  BY DEF IsFrame, NL
<1>3. \A i \in 1 .. Len(t) : t[i] = NL => 2 =< i
  BY <1>2
<1>4. \A i \in 2 + 1 .. Len(t) - 1 : t[i] = NL => t[i + 1] # NL
  BY <1>1 DEF IsFrame
<1>5. ParseFrame(t).headers = Headers(SubSeq(t, 2 + 1, Len(t)))
  BY <1>1, <1>3, <1>4, ParseIs
<1>. QED
  BY <1>5

LEMMA ParseLater ==
    ASSUME NEW t, IsFrame(t)
    PROVE  /\ ParseFrame(<<NL>> \o t).command = <<>>
           /\ ParseFrame(<<NL>> \o t).headers = Headers(t)
<1>. DEFINE u == <<NL>> \o t
<1>1. t \in Seq(Tokens) /\ Len(t) \in Nat /\ Len(t) > 1 /\ NL \in Tokens
  BY Kinds DEF IsFrame
<1>2. <<>> \in Seq(Tokens) /\ Len(<<>>) = 0 /\ u = (<<>> \o <<NL>>) \o t
  BY <1>1
<1>3. /\ u \in Seq(Tokens) /\ Len(u) = Len(t) + 1 /\ u[1] = NL
      /\ SubSeq(u, 2, Len(u)) = t /\ SubSeq(u, 1, 0) = <<>>
  <2>1. /\ u \in Seq(Tokens) /\ Len(u) = Len(<<>>) + 1 + Len(t) /\ u[Len(<<>>) + 1] = NL
        /\ SubSeq(u, Len(<<>>) + 2, Len(u)) = t /\ SubSeq(u, 1, Len(<<>>)) = <<>>
    BY <1>1, <1>2, Between
  <2>2. Len(<<>>) = 0 /\ Len(<<>>) + 1 = 1 /\ Len(<<>>) + 2 = 2
    OBVIOUS
  <2>. HIDE DEF u
  <2>. QED
    BY <1>1, <2>1, <2>2
<1>4. \A i \in 1 .. Len(t) : u[i + 1] = t[i]
  <2>1. <<NL>> \in Seq(Tokens) /\ Len(<<NL>>) = 1
    BY <1>1
  <2>2. Joined(Tokens, <<NL>>, t, u)
    BY <1>1, <2>1, Concatenated
  <2>. HIDE DEF u
  <2>. QED
    BY <1>1, <2>1, <2>2 DEF Joined
<1>. HIDE DEF u
<1>5. ASSUME NEW i \in 1 + 1 .. Len(u) - 1, u[i] = NL
      PROVE  u[i + 1] # NL
  <2>1. i - 1 \in 1 .. Len(t) - 1 /\ i - 1 \in 1 .. Len(t) /\ i \in 1 .. Len(t) /\ i - 1 + 1 = i
    BY <1>1, <1>3
  <2>2. u[i] = t[i - 1] /\ u[i + 1] = t[i]
    BY <1>4, <2>1
  <2>. QED
    BY <1>5, <2>1, <2>2 DEF IsFrame
<1>6. 1 \in 1 .. Len(u) /\ \A i \in 1 .. Len(u) : u[i] = NL => 1 =< i
  BY <1>1, <1>3
<1>7. /\ ParseFrame(u).command = SubSeq(u, 1, 0)
      /\ ParseFrame(u).headers = Headers(SubSeq(u, 2, Len(u)))
  <2>1. /\ ParseFrame(u).command = SubSeq(u, 1, 1 - 1)
        /\ ParseFrame(u).headers = Headers(SubSeq(u, 1 + 1, Len(u)))
    BY <1>3, <1>5, <1>6, ParseIs
  <2>2. 1 - 1 = 0 /\ 1 + 1 = 2
    OBVIOUS
  <2>. QED
    BY <2>1, <2>2
<1>8. ParseFrame(u).command = <<>> /\ ParseFrame(u).headers = Headers(t)
  BY <1>3, <1>7
<1>. QED
  BY <1>8 DEF u

(* The command's line holds no header.                                     *)
LEMMA HeadersSame ==
    ASSUME NEW t, IsFrame(t)
    PROVE  Headers(t) = Headers(SubSeq(t, 3, Len(t)))
<1>. DEFINE r == SubSeq(t, 3, Len(t))
            Keyed(s) == {p.key : p \in {x \in Range(s) : x.kind = "pair"}}
            At(s, k) == {i \in DOMAIN s : s[i].kind = "pair" /\ s[i].key = k}
<1>1. t \in Seq(Tokens) /\ Len(t) \in Nat /\ Len(t) > 1 /\ DOMAIN t = 1 .. Len(t)
  BY DEF IsFrame
<1>2. /\ r \in Seq(Tokens) /\ Len(r) = Len(t) - 2 /\ DOMAIN r = 1 .. Len(r)
      /\ \A i \in 1 .. Len(r) : r[i] = t[i + 2]
  BY <1>1
<1>. HIDE DEF r
<1>3. t[1].kind # "pair" /\ t[2].kind # "pair"
  BY Kinds DEF IsFrame
<1>4. \A i \in 1 .. Len(t) : t[i].kind = "pair" => i - 2 \in 1 .. Len(r) /\ t[i] = r[i - 2]
  <2>. SUFFICES ASSUME NEW i \in 1 .. Len(t), t[i].kind = "pair"
                PROVE  i - 2 \in 1 .. Len(r) /\ t[i] = r[i - 2]
    OBVIOUS
  <2>1. i # 1 /\ i # 2
    BY <1>3
  <2>2. i - 2 \in 1 .. Len(r) /\ i - 2 + 2 = i
    BY <1>1, <1>2, <2>1
  <2>. QED
    BY <1>2, <2>2
<1>5. \A i \in 1 .. Len(r) : i + 2 \in 1 .. Len(t) /\ r[i] = t[i + 2]
  BY <1>1, <1>2
<1>6. Keyed(t) = Keyed(r)
  <2>1. {x \in Range(t) : x.kind = "pair"} = {x \in Range(r) : x.kind = "pair"}
    BY <1>1, <1>2, <1>4, <1>5 DEF Range
  <2>. QED
    BY <2>1
<1>7. ASSUME NEW k \in Keyed(t)
      PROVE  t[Max(At(t, k))] = r[Max(At(r, k))]
  <2>. DEFINE A == At(t, k)
              B == At(r, k)
  <2>1. A \in SUBSET Nat /\ B \in SUBSET Nat /\ (\A y \in A : y =< Len(t)) /\ (\A y \in B : y =< Len(r))
    BY <1>1, <1>2
  <2>2. A # {}
    <3>1. \E x \in Range(t) : x.kind = "pair" /\ x.key = k
      BY <1>7
    <3>. QED
      BY <1>1, <3>1 DEF Range
  <2>3. \A y \in A : y - 2 \in B /\ t[y] = r[y - 2]
    BY <1>1, <1>2, <1>4
  <2>4. \A y \in B : y + 2 \in A
    BY <1>1, <1>2, <1>5
  <2>5. B # {} /\ Len(r) \in Nat
    BY <1>1, <1>2, <2>2, <2>3
  <2>. HIDE DEF A, B
  <2>6. Max(A) \in A /\ \A y \in A : y =< Max(A)
    BY <1>1, <2>1, <2>2, MaxIsGreatest
  <2>7. Max(B) \in B /\ \A y \in B : y =< Max(B)
    BY <2>1, <2>5, MaxIsGreatest
  <2>8. Max(B) = Max(A) - 2
    <3>1. Max(A) - 2 =< Max(B)
      BY <2>3, <2>6, <2>7
    <3>2. Max(B) + 2 =< Max(A)
      BY <2>4, <2>6, <2>7
    <3>3. Max(A) \in Nat /\ Max(B) \in Nat
      BY <2>1, <2>6, <2>7
    <3>. QED
      BY <3>1, <3>2, <3>3
  <2>9. t[Max(A)] = r[Max(B)]
    BY <2>3, <2>6, <2>8
  <2>. QED
    BY <2>9 DEF A, B
<1>8. Headers(t) = [k \in Keyed(t) |-> t[Max(At(t, k))].value]
  BY DEF Headers
<1>9. Headers(r) = [k \in Keyed(r) |-> r[Max(At(r, k))].value]
  BY DEF Headers
<1>. HIDE DEF Keyed, At
<1>10. Headers(t) = Headers(r)
  BY <1>6, <1>7, <1>8, <1>9
<1>. QED
  BY <1>10 DEF r

(* Whatever comes behind a newline is read with its headers, and without   *)
(* its command.                                                            *)
LEMMA ReadLater ==
    ASSUME NEW t, IsFrame(t)
    PROVE  ToClientFrame(ParseFrame(<<NL>> \o t))
               = [ToClientFrame(ParseFrame(t)) EXCEPT !.command = "other"]
<1>. DEFINE m == ParseFrame(t)
            n == ParseFrame(<<NL>> \o t)
<1>1. n.command = <<>> /\ n.headers = m.headers
  BY ParseFirst, ParseLater, HeadersSame
<1>. HIDE DEF m, n
<1>2. CommandOf(n) = "other"
  <2>1. \A k : <<>> # <<Word(k)>>
    OBVIOUS
  <2>. QED
    BY <1>1, <2>1 DEF CommandOf
<1>3. \A k \in {"destination", "id", "login", "passcode", "accept-version"} :
         HeaderOf(n, k) = HeaderOf(m, k)
  BY <1>1 DEF HeaderOf
<1>4. ToClientFrame(n) = [ToClientFrame(m) EXCEPT !.command = "other"]
  BY <1>1, <1>2, <1>3 DEF ToClientFrame
<1>. QED
  BY <1>4 DEF m, n

-----------------------------------------------------------------------------
(* The server's side of the two programs is StompTPCServer's, from a state *)
(* of its own: its invariants hold here too.                               *)
LEMMA ServerInitOK == ServerInit => IndInv
<1>. SUFFICES ASSUME ServerInit
              PROVE  IndInv
  OBVIOUS
<1>. USE ClientServerAssumption, ConnectionsAssumption DEF Conns, ListIds, NoList, Other, Client
<1>0. /\ Other \in Conns /\ Client \in Conns /\ 1 \in ListIds /\ OtherId # None
      /\ \A t \in Topics, g \in ListIds : lists[t][g] \in {<<>>, <<Other>>}
      /\ \A t \in Topics, g \in ListIds : lists[t][g] = <<Other>> => t = OtherTopic /\ g = 1
  BY DEF ServerInit
<1>1. TypeOK
  <2>1. <<Other>> \in Seq(Conns) /\ <<>> \in Seq(Conns)
    BY <1>0
  <2>2. lists \in [Topics -> [ListIds -> Seq(Conns)]]
    BY <2>1 DEF ServerInit
  <2>3. clientsTo_subscriptionsId \in [Conns -> [Topics -> SubIds \cup {None}]]
    BY DEF ServerInit
  <2>4. /\ clients \subseteq Conns /\ idClient \in 1 .. MaxConns + 1
        /\ subscriptions \in [Topics -> ListIds \cup {NoList}]
        /\ created \in [Topics -> 0 .. MaxLists]
    BY DEF ServerInit
  <2>5. pc \in [Conns -> Labels]
    BY DEF ServerInit, Labels
  <2>6. /\ credentials \in [Logins -> Passcodes \cup {None}]
        /\ messageIDCounter \in Nat /\ connected \in [Conns -> BOOLEAN]
        /\ sock \in [Conns -> {"open", "closed"}] /\ peer \in [Conns -> {"open", "closed"}]
        /\ out \in [Conns -> Seq(ServerFrame)] /\ received \in [Conns -> Nat]
    BY DEF ServerInit
  <2>7. /\ frame \in [Conns -> ClientFrame \cup {None}] /\ topic \in [Conns -> Topics \cup {None}]
        /\ held \in [Conns -> ListIds \cup {NoList}] /\ messageId \in [Conns -> Nat]
        /\ receivers \in [Conns -> Seq(Conns)] /\ todo \in [Conns -> SUBSET Topics]
        /\ ret \in [Conns -> {"connect.version", "receipt", None}]
        /\ shouldTerminate \in [Conns -> BOOLEAN] /\ sent \in [Conns -> Nat]
    BY DEF ServerInit
  <2>. QED
    BY <2>2, <2>3, <2>4, <2>5, <2>6, <2>7 DEF TypeOK
<1>pc. \A c \in Conns : pc[c] = IF c = Other THEN "read" ELSE "none"
  BY DEF ServerInit
<1>2. LocalsOK
  BY <1>pc
     DEF ServerInit, LocalsOK, LocalsOf, FrameLabels, TopicLabels, ListLabels,
         SubscribeLabels, DisconnectLabels, PurgeLabels, Labels
<1>3. ListsOK
  BY DEF ServerInit, ListsOK
<1>4. RecordsOK
  <2>1. \A c \in Conns : pc[c] \notin SubscribeLabels
    BY <1>pc DEF SubscribeLabels
  <2>2. Recorded(Other, OtherTopic)
    BY <1>0 DEF ServerInit, Recorded
  <2>3. ASSUME NEW t \in Topics, NEW g \in ListIds, NEW c \in Range(lists[t][g])
        PROVE  Recorded(c, t)
    <3>1. Range(<<>>) = {} /\ Range(<<Other>>) = {Other}
      BY DEF Range
    <3>2. c = Other /\ t = OtherTopic
      BY <1>0, <2>3, <3>1
    <3>. QED
      BY <2>2, <3>2
  <2>. QED
    BY <2>1, <2>3 DEF RecordsOK
<1>5. NoDuplicateSubscriber
  <2>1. IsInjective(<<>>) /\ IsInjective(<<Other>>)
    BY DEF IsInjective
  <2>. QED
    BY <1>0, <2>1 DEF NoDuplicateSubscriber
<1>6. ServedOK
  BY <1>pc
     DEF ServerInit, ServedOK, ServedOf, ServedLabels, AfterLabels, DisconnectLabels, PurgeLabels,
         Labels
<1>7. NoNullHeader
  BY <1>pc DEF NoNullHeader
<1>8. DisconnectedIsForgotten
  <2>. SUFFICES ASSUME NEW c \in Conns, NEW t \in Topics, c \notin clients
                PROVE  c \notin Subscribers(t)
    BY DEF DisconnectedIsForgotten
  <2>1. c # Other
    BY DEF ServerInit
  <2>2. Subscribers(t) \subseteq {Other}
    <3>1. Range(<<>>) = {} /\ Range(<<Other>>) = {Other}
      BY DEF Range
    <3>2. CASE subscriptions[t] = NoList
      BY <3>2 DEF Subscribers
    <3>3. CASE subscriptions[t] # NoList
      <4>1. subscriptions[t] \in ListIds
        BY <3>3 DEF ServerInit
      <4>. QED
        BY <1>0, <3>1, <3>3, <4>1 DEF Subscribers
    <3>. QED
      BY <3>2, <3>3
  <2>. QED
    BY <2>1, <2>2
<1>9. RegistryInv
  BY <1>1, <1>2, <1>3, <1>4, <1>5, <1>6, <1>7, <1>8 DEF RegistryInv
<1>10. StreamsInv
  <2>1. \A d \in Conns : MessagesTo(d) = {} /\ out[d] = <<>>
    BY DEF ServerInit, MessagesTo, Range
  <2>2. \A c \in Conns : PublishingOf(c)
    BY <1>pc DEF PublishingOf, PublishLabels, LoopLabels
  <2>3. \A d \in Conns : StreamOf(d)
    BY <2>1 DEF StreamOf
  <2>4. \A c \in Conns : SessionOf(c)
    BY <1>pc, <2>1 DEF ServerInit, SessionOf, Failed
  <2>5. MembersOnly /\ UniqueMessageIds
    BY <2>1, ByMessage
  <2>6. PerSenderOrder /\ ErrorEndsSession
    BY <2>1 DEF PerSenderOrder, ErrorEndsSession
  <2>. QED
    BY <2>2, <2>3, <2>4, <2>5, <2>6 DEF StreamsInv
<1>. QED
  BY <1>9, <1>10 DEF IndInv

LEMMA TwoConns == Other \in Conns /\ Client \in Conns
BY ClientServerAssumption DEF Other, Client, Conns

LEMMA ServerSteps == [ClientServerNext]_allVars => [Next]_vars
<1>. SUFFICES ASSUME [ClientServerNext]_allVars
              PROVE  [Next]_vars
  OBVIOUS
<1>. USE TwoConns
<1>1. CASE Accepting
  BY <1>1 DEF Accepting, Next
<1>2. CASE ReadTyped
  BY <1>2 DEF ReadTyped, ReadNext, ThreadStep, Next
<1>3. CASE ServerGoesOn
  BY <1>3 DEF ServerGoesOn, ThreadStep, Next
<1>4. CASE OtherThread
  BY <1>4 DEF OtherThread, Next
<1>5. CASE ClosesSocket
  BY <1>5 DEF ClosesSocket, Next
<1>6. CASE UNCHANGED vars
  BY <1>6
<1>. QED
  BY <1>1, <1>2, <1>3, <1>4, <1>5, <1>6
     DEF ClientServerNext, ServerThread, ClientThreads, serverVars, allVars

(* The server's inductive invariant holds of every run of the two, so all  *)
(* that follows from it does: StompTPCServer's properties and those of its *)
(* streams.                                                                *)
THEOREM ServerKeepsInvariants == ClientServerSpec => []IndInv
<1>1. ClientServerInit => IndInv
  BY ServerInitOK DEF ClientServerInit
<1>2. IndInv /\ [ClientServerNext]_allVars => IndInv'
  BY ServerSteps, RegistryInvStep, StreamsStep DEF IndInv
<1>. QED
  BY <1>1, <1>2, PTL DEF ClientServerSpec

-----------------------------------------------------------------------------
(* The text the server writes to the client.                               *)

LEMMA SetToSeqType ==
    ASSUME NEW K, IsFiniteSet(K)
    PROVE  SetToSeq(K) \in Seq(K)
<1>1. Cardinality(K) \in Nat /\ ExistsBijection(1 .. Cardinality(K), K)
  BY FS_CardinalityType
<1>2. PICK f \in [1 .. Cardinality(K) -> K] : IsInjective(f)
  BY <1>1 DEF ExistsBijection, Bijection, Injection, IsInjective
<1>3. SetToSeq(K) \in [1 .. Cardinality(K) -> K]
  BY <1>2 DEF SetToSeq
<1>. QED
  BY <1>1, <1>3

(* A frame consists of its command, its header lines and its body.         *)
LEMMA TextType ==
    ASSUME NEW S, NL \in S, NUL \in S, NEW command, Word(command) \in S,
           NEW headers, IsFiniteSet(DOMAIN headers),
           \A k \in DOMAIN headers : AsWritten(k, headers[k]) \in S,
           NEW body, body = NoBody \/ body \in Seq(S)
    PROVE  TextOf(command, headers, body) \in Seq(S)
<1>. DEFINE keys == SetToSeq(DOMAIN headers)
            lines == [i \in DOMAIN keys |-> <<AsWritten(keys[i], headers[keys[i]]), NL>>]
            last == IF body = NoBody THEN <<>> ELSE body
            m == [command |-> <<Word(command)>>, headers |-> headers, body |-> body]
<1>1. keys \in Seq(DOMAIN headers)
  BY SetToSeqType
<1>2. lines \in Seq(Seq(S))
  <2>. HIDE DEF keys
  <2>1. \A i \in DOMAIN keys : <<AsWritten(keys[i], headers[keys[i]]), NL>> \in Seq(S)
    <3>. TAKE i \in DOMAIN keys
    <3>1. keys[i] \in DOMAIN headers
      BY <1>1
    <3>2. AsWritten(keys[i], headers[keys[i]]) \in S
      BY <3>1
    <3>. QED
      BY <3>2
  <2>2. DOMAIN keys = 1 .. Len(keys) /\ Len(keys) \in Nat
    BY <1>1
  <2>. QED
    BY <2>1, <2>2
<1>3. FlattenSeq(lines) \in Seq(S)
  BY <1>2, FlattenType
<1>4. last \in Seq(S)
  OBVIOUS
<1>5. TextOf(command, headers, body)
          = <<Word(command)>> \o <<NL>> \o FlattenSeq(lines) \o <<NL>> \o last \o <<NUL>>
  <2>1. m.command = <<Word(command)>> /\ m.headers = headers /\ m.body = body
    OBVIOUS
  <2>2. Encode(m, keys) = <<Word(command)>> \o <<NL>> \o FlattenSeq(lines) \o <<NL>> \o last \o <<NUL>>
    <3>. HIDE DEF m, keys
    <3>. QED
      BY <2>1 DEF Encode
  <2>. QED
    BY <2>2 DEF TextOf
<1>. HIDE DEF lines, last
<1>6. <<Word(command)>> \in Seq(S) /\ <<NL>> \in Seq(S) /\ <<NUL>> \in Seq(S)
  OBVIOUS
<1>7. \A a, b \in Seq(S) : a \o b \in Seq(S)
  OBVIOUS
<1>. QED
  BY <1>3, <1>4, <1>5, <1>6, <1>7

(* What the server's texts are made of.                                    *)
HeaderKeys == {"subscription:", "message-id: ", "version", "message:"}
HeaderValues == {"id", "1.2", "refused"}
HeaderLines == {AsWritten(k, v) : k \in HeaderKeys, v \in HeaderValues}
StreamTokens ==
    {NL, NUL} \cup Range(BodySent)
      \cup {Word(w) : w \in {"Message", "CONNECTED", "ERROR", "The message", "reason"}}
      \cup HeaderLines

LEMMA ServerTexts ==
    /\ ServerText.Message \in Seq(StreamTokens)
    /\ ServerText.ERROR \in Seq(StreamTokens)
    /\ ServerText.CONNECTED \in Seq(StreamTokens \ {Word("ERROR")})
    /\ ~Finds(BodySent, "ERROR") => ServerText.Message \in Seq(StreamTokens \ {Word("ERROR")})
<1>. DEFINE S == StreamTokens
            T == StreamTokens \ {Word("ERROR")}
<1>1. NL # Word("ERROR") /\ NUL # Word("ERROR")
  BY Kinds
<1>2. \A w : w # "ERROR" => Word(w) # Word("ERROR")
  BY DEF Word
<1>3. \A k, v : AsWritten(k, v) # Word("ERROR")
  BY DEF AsWritten, Pair, Word
<1>4. NL \in T /\ NUL \in T /\ NL \in S /\ NUL \in S
  BY <1>1 DEF StreamTokens
<1>5. /\ Word("Message") \in T /\ Word("CONNECTED") \in T /\ Word("Message") \in S
      /\ \A w \in {"ERROR", "The message", "reason"} : Word(w) \in S
  BY <1>2 DEF StreamTokens
<1>6. \A k \in HeaderKeys, v \in HeaderValues : AsWritten(k, v) \in S /\ AsWritten(k, v) \in T
  <2>1. \A k \in HeaderKeys, v \in HeaderValues : AsWritten(k, v) \in S
    <3>1. HeaderLines \subseteq S
      BY DEF StreamTokens
    <3>2. \A k \in HeaderKeys, v \in HeaderValues : AsWritten(k, v) \in HeaderLines
      BY DEF HeaderLines
    <3>. QED
      BY <3>1, <3>2
  <2>. QED
    BY <1>3, <2>1
<1>7. BodySent \in Seq(S) /\ (~Finds(BodySent, "ERROR") => BodySent \in Seq(T))
  <2>1. /\ BodySent \in Seq(Range(BodySent)) /\ Range(BodySent) \subseteq S
        /\ ~Finds(BodySent, "ERROR") => Range(BodySent) \subseteq T
    <3>1. Range(BodySent) \subseteq S
      BY DEF StreamTokens
    <3>2. ~Finds(BodySent, "ERROR") => Word("ERROR") \notin Range(BodySent)
      BY Zenon DEF Finds
    <3>3. BodySent \in Seq(Range(BodySent))
      BY ClientServerAssumption
    <3>4. ~Finds(BodySent, "ERROR") => Range(BodySent) \subseteq T
      BY <3>1, <3>2
    <3>. QED
      BY <3>1, <3>3, <3>4, Zenon
  <2>2. \A R \in SUBSET S : \A s \in Seq(R) : s \in Seq(S)
    OBVIOUS
  <2>3. \A R \in SUBSET T : \A s \in Seq(R) : s \in Seq(T)
    OBVIOUS
  <2>. HIDE DEF S, T
  <2>. QED
    BY <2>1, <2>2, <2>3
<1>8. /\ IsFiniteSet({"subscription:", "message-id: "})
      /\ IsFiniteSet({"version"}) /\ IsFiniteSet({"message:"})
  <2>1. IsFiniteSet({"subscription:"} \cup {"message-id: "})
    BY FS_Singleton, FS_AddElement
  <2>2. {"subscription:"} \cup {"message-id: "} = {"subscription:", "message-id: "}
    OBVIOUS
  <2>. QED
    BY <2>1, <2>2, FS_Singleton
<1>. HIDE DEF S, T
<1>. DEFINE hm == [k \in {"subscription:", "message-id: "} |-> "id"]
            hc == [k \in {"version"} |-> "1.2"]
            he == [k \in {"message:"} |-> "refused"]
            be == <<Word("The message"), NL, NUL, NL, Word("reason")>>
<1>9. /\ DOMAIN hm = {"subscription:", "message-id: "} /\ \A k \in DOMAIN hm : hm[k] = "id"
      /\ DOMAIN hc = {"version"} /\ \A k \in DOMAIN hc : hc[k] = "1.2"
      /\ DOMAIN he = {"message:"} /\ \A k \in DOMAIN he : he[k] = "refused"
      /\ DOMAIN hm \subseteq HeaderKeys /\ DOMAIN hc \subseteq HeaderKeys
      /\ DOMAIN he \subseteq HeaderKeys
      /\ "id" \in HeaderValues /\ "1.2" \in HeaderValues /\ "refused" \in HeaderValues
  BY DEF HeaderKeys, HeaderValues
<1>10. be \in Seq(S)
  <2>1. \A a, b, c, d, e \in S : <<a, b, c, d, e>> \in Seq(S)
    OBVIOUS
  <2>2. Word("The message") \in S /\ Word("reason") \in S
    BY <1>5
  <2>. QED
    BY <1>4, <2>1, <2>2
<1>. DEFINE tm == TextOf("Message", hm, BodySent)
            tc == TextOf("CONNECTED", hc, NoBody)
            te == TextOf("ERROR", he, be)
<1>11. ServerText.Message = tm /\ ServerText.CONNECTED = tc /\ ServerText.ERROR = te
  <2>1. ServerText = [Message |-> tm, CONNECTED |-> tc, ERROR |-> te]
    BY Zenon DEF ServerText
  <2>. HIDE DEF tm, tc, te
  <2>. QED
    BY <2>1
<1>. HIDE DEF hm, hc, he, be
<1>12. TextOf("Message", hm, BodySent) \in Seq(S)
  BY <1>4, <1>5, <1>6, <1>7, <1>8, <1>9, TextType
<1>13. ~Finds(BodySent, "ERROR") => TextOf("Message", hm, BodySent) \in Seq(T)
  BY <1>4, <1>5, <1>6, <1>7, <1>8, <1>9, TextType
<1>14. TextOf("ERROR", he, be) \in Seq(S)
  BY <1>4, <1>5, <1>6, <1>8, <1>9, <1>10, TextType
<1>15. TextOf("CONNECTED", hc, NoBody) \in Seq(T)
  BY <1>4, <1>5, <1>6, <1>8, <1>9, TextType
<1>. QED
  BY <1>11, <1>12, <1>13, <1>14, <1>15 DEF S, T

-----------------------------------------------------------------------------
Texts == [i \in DOMAIN out[Client] |-> ServerText[out[Client][i].command]]

NoReceipt == \A i \in DOMAIN out[Client] : out[Client][i].command # "RECEIPT"

LEMMA ClientFrames ==
    ASSUME TypeOK, NoReceipt
    PROVE  /\ out[Client] \in Seq(ServerFrame) /\ DOMAIN out[Client] = 1 .. Len(out[Client])
           /\ Len(out[Client]) \in Nat
           /\ \A i \in DOMAIN out[Client] : out[Client][i].command \in {"Message", "CONNECTED", "ERROR"}
<1>1. out[Client] \in Seq(ServerFrame)
  BY TwoConns DEF TypeOK
<1>2. DOMAIN out[Client] = 1 .. Len(out[Client]) /\ Len(out[Client]) \in Nat
  BY <1>1
<1>3. \A f \in ServerFrame : f.command \in {"CONNECTED", "ERROR", "RECEIPT", "Message"}
  BY DEF ServerFrame
<1>4. \A i \in DOMAIN out[Client] : out[Client][i] \in ServerFrame
  BY <1>1, <1>2
<1>. QED
  BY <1>1, <1>2, <1>3, <1>4 DEF NoReceipt

(* The stream consists of the texts, and names an ERROR only if one was    *)
(* sent, as a frame or in a message.                                       *)
StreamOK ==
    /\ Texts \in Seq(Seq(StreamTokens)) /\ Stream = FlattenSeq(Texts)
    /\ Stream \in Seq(StreamTokens)
    /\ ~ErrorSent => Stream \in Seq(StreamTokens \ {Word("ERROR")})

LEMMA StreamType == TypeOK /\ NoReceipt => StreamOK
<1>. SUFFICES ASSUME TypeOK, NoReceipt
              PROVE  StreamOK
  OBVIOUS
<1>. DEFINE o == out[Client]
            S == StreamTokens
            T == StreamTokens \ {Word("ERROR")}
<1>1. /\ DOMAIN o = 1 .. Len(o) /\ Len(o) \in Nat
      /\ \A i \in DOMAIN o : o[i].command \in {"Message", "CONNECTED", "ERROR"}
  BY ClientFrames
<1>2. \A s : s \in Seq(T) => s \in Seq(S)
  OBVIOUS
<1>3. /\ ServerText["Message"] \in Seq(S) /\ ServerText["ERROR"] \in Seq(S)
      /\ ServerText["CONNECTED"] \in Seq(S) /\ ServerText["CONNECTED"] \in Seq(T)
      /\ ~Finds(BodySent, "ERROR") => ServerText["Message"] \in Seq(T)
  BY <1>2, ServerTexts
<1>4. Texts \in Seq(Seq(S))
  <2>1. \A i \in DOMAIN o : ServerText[o[i].command] \in Seq(S)
    BY <1>1, <1>3
  <2>. HIDE DEF S
  <2>. QED
    BY <1>1, <2>1 DEF Texts
<1>5. ~ErrorSent => Texts \in Seq(Seq(T))
  <2>. SUFFICES ASSUME ~ErrorSent
                PROVE  Texts \in Seq(Seq(T))
    OBVIOUS
  <2>1. \A i \in DOMAIN o : o[i].command # "ERROR"
    BY DEF ErrorSent, Failed
  <2>2. \A i \in DOMAIN o : o[i].command = "Message" => ~Finds(BodySent, "ERROR")
    BY DEF ErrorSent, IsMessage
  <2>3. \A i \in DOMAIN o : ServerText[o[i].command] \in Seq(T)
    BY <1>1, <1>3, <2>1, <2>2
  <2>. HIDE DEF T
  <2>. QED
    BY <1>1, <2>3 DEF Texts
<1>6. Stream = FlattenSeq(Texts)
  BY DEF Stream, Texts
<1>. HIDE DEF S, T
<1>7. Stream \in Seq(S) /\ (~ErrorSent => Stream \in Seq(T))
  BY <1>4, <1>5, <1>6, FlattenType
<1>. QED
  BY <1>4, <1>6, <1>7 DEF S, T, StreamOK

LEMMA StreamTypeNext == TypeOK' /\ NoReceipt' => StreamOK'
BY StreamType, PTL

(* It grows at its end.                                                    *)
OutGrows ==
    \/ out'[Client] = out[Client]
    \/ \E f \in ServerFrame : f.command # "RECEIPT" /\ out'[Client] = Append(out[Client], f)

LEMMA OutOnlyGrows ==
    ASSUME IndInv, [Next]_vars
    PROVE  OutGrows
<1>1. TypeOK /\ ServedOK /\ out \in [Conns -> Seq(ServerFrame)] /\ Client \in Conns
  BY TwoConns DEF IndInv, RegistryInv, TypeOK
<1>2. ASSUME NEW c \in Conns, Step(c)
      PROVE  OutGrows
  <2>1. UNCHANGED out \/ Answers(c) \/ Delivers(c)
    BY <1>1, <1>2, OutChange
  <2>2. CASE UNCHANGED out
    BY <2>2 DEF OutGrows
  <2>3. CASE Answers(c)
    <3>1. \E f \in {Reply("CONNECTED", FALSE), Reply("ERROR", FALSE)} :
             out' = [out EXCEPT ![c] = Append(@, f)]
      BY <2>3 DEF Answers
    <3>2. \A f \in {Reply("CONNECTED", FALSE), Reply("ERROR", FALSE)} :
             f \in ServerFrame /\ f.command # "RECEIPT"
      <4>1. Reply("CONNECTED", FALSE) \in ServerFrame /\ Reply("ERROR", FALSE) \in ServerFrame
        BY ReplyType
      <4>2. Reply("CONNECTED", FALSE).command = "CONNECTED" /\ Reply("ERROR", FALSE).command = "ERROR"
        BY DEF Reply
      <4>. QED
        BY <4>1, <4>2
    <3>. QED
      BY <1>1, <3>1, <3>2 DEF OutGrows
  <2>4. CASE Delivers(c)
    <3>. DEFINE d == Head(receivers[c])
                f == MessageFrame(c)
    <3>1. out' = [out EXCEPT ![d] = Append(@, f)]
      BY <2>4 DEF Delivers
    <3>2. f.command # "RECEIPT"
      BY DEF MessageFrame
    <3>3. f \in ServerFrame
      <4>1. /\ clientsTo_subscriptionsId \in [Conns -> [Topics -> SubIds \cup {None}]]
            /\ messageId[c] \in Nat /\ topic[c] \in Topics
        <5>1. pc[c] = "publish.write"
          BY <2>4 DEF Delivers
        <5>2. LocalsOf(c)
          BY DEF IndInv, RegistryInv, LocalsOK
        <5>. QED
          BY <1>1, <5>1, <5>2 DEF TypeOK, LocalsOf, TopicLabels
      <4>2. clientsTo_subscriptionsId[c][topic[c]] \in SubIds \cup {None}
        BY <4>1
      <4>. QED
        BY <4>1, <4>2 DEF MessageFrame, ServerFrame
    <3>. HIDE DEF d, f
    <3>. QED
      BY <1>1, <3>1, <3>2, <3>3 DEF OutGrows
  <2>. QED
    BY <2>1, <2>2, <2>3, <2>4
<1>3. CASE UNCHANGED vars
  BY <1>3 DEF vars, handlers, OutGrows
<1>. QED
  BY <1>2, <1>3, NextIsStep

LEMMA StreamGrows ==
    ASSUME TypeOK, TypeOK', NoReceipt, OutGrows
    PROVE  /\ NoReceipt' /\ (ErrorSent => ErrorSent')
           /\ (\E i \in DOMAIN out[Client] : IsMessage(Client, i)) =>
                 (\E i \in DOMAIN out'[Client] : IsMessage(Client, i)')
           /\ Failed(Client) => Failed(Client)'
           /\ Len(Stream) \in Nat /\ Len(Stream') \in Nat /\ Len(Stream) =< Len(Stream')
<1>. DEFINE o == out[Client]
            S == StreamTokens
<1>1. /\ o \in Seq(ServerFrame) /\ DOMAIN o = 1 .. Len(o) /\ Len(o) \in Nat
      /\ Texts \in Seq(Seq(S)) /\ Stream = FlattenSeq(Texts) /\ Stream \in Seq(S)
      /\ Len(Stream) \in Nat
  <2>1. StreamOK
    BY StreamType
  <2>2. /\ Texts \in Seq(Seq(S)) /\ Stream = FlattenSeq(Texts) /\ Stream \in Seq(S)
    BY <2>1 DEF StreamOK
  <2>. QED
    BY <2>2, ClientFrames
<1>2. ASSUME out'[Client] = out[Client]
      PROVE  /\ NoReceipt'
             /\ (\E i \in DOMAIN out[Client] : IsMessage(Client, i)) =>
                   (\E i \in DOMAIN out'[Client] : IsMessage(Client, i)')
             /\ Failed(Client) => Failed(Client)'
             /\ Stream' \in Seq(S) /\ Len(Stream) =< Len(Stream')
  <2>1. Stream' = Stream /\ NoReceipt' /\ Failed(Client)' = Failed(Client)
    BY <1>2 DEF Stream, NoReceipt, Failed
  <2>2. (\E i \in DOMAIN out[Client] : IsMessage(Client, i)) =>
           (\E i \in DOMAIN out'[Client] : IsMessage(Client, i)')
    BY <1>2 DEF IsMessage
  <2>3. Stream' \in Seq(S) /\ Len(Stream) =< Len(Stream')
    BY <1>1, <2>1
  <2>. QED
    BY <2>1, <2>2, <2>3
<1>3. ASSUME NEW f \in ServerFrame, f.command # "RECEIPT", out'[Client] = Append(o, f)
      PROVE  /\ NoReceipt'
             /\ (\E i \in DOMAIN out[Client] : IsMessage(Client, i)) =>
                   (\E i \in DOMAIN out'[Client] : IsMessage(Client, i)')
             /\ Failed(Client) => Failed(Client)'
             /\ Stream' \in Seq(S) /\ Len(Stream) =< Len(Stream')
  <2>. DEFINE p == out'[Client]
  <2>1. /\ p \in Seq(ServerFrame) /\ DOMAIN p = 1 .. Len(o) + 1 /\ Len(p) = Len(o) + 1
        /\ p[Len(o) + 1] = f /\ \A i \in DOMAIN o : i \in DOMAIN p /\ p[i] = o[i]
    BY <1>1, <1>3
  <2>2. NoReceipt'
    <3>1. \A i \in DOMAIN p : i \in DOMAIN o \/ i = Len(o) + 1
      BY <1>1, <2>1
    <3>. QED
      BY <1>3, <2>1, <3>1 DEF NoReceipt
  <2>3. (\E i \in DOMAIN out[Client] : IsMessage(Client, i)) =>
           (\E i \in DOMAIN out'[Client] : IsMessage(Client, i)')
    BY <2>1 DEF IsMessage
  <2>4. Failed(Client) => Failed(Client)'
    BY <2>1 DEF Failed
  <2>5. Stream' \in Seq(S) /\ Stream' = FlattenSeq(Texts')
    BY <2>2, StreamTypeNext DEF StreamOK
  <2>6. Texts' = Append(Texts, ServerText[f.command]) /\ ServerText[f.command] \in Seq(S)
    <3>. DEFINE x == ServerText[f.command]
    <3>1. x \in Seq(S)
      <4>1. f.command \in {"Message", "CONNECTED", "ERROR"}
        BY <1>3 DEF ServerFrame
      <4>2. \A s : s \in Seq(S \ {Word("ERROR")}) => s \in Seq(S)
        OBVIOUS
      <4>. HIDE DEF S
      <4>3. S = StreamTokens
        BY DEF S
      <4>. QED
        BY <4>1, <4>2, <4>3, ServerTexts
    <3>2. Texts' \in Seq(Seq(S)) /\ Len(Texts') = Len(o) + 1 /\ Len(Texts) = Len(o)
      <4>1. /\ Texts = [i \in 1 .. Len(o) |-> ServerText[o[i].command]]
            /\ Texts' = [i \in 1 .. Len(o) + 1 |-> ServerText[p[i].command]]
        BY <1>1, <2>1 DEF Texts
      <4>2. Texts' \in Seq(Seq(S))
        BY <2>2, StreamTypeNext DEF StreamOK
      <4>. QED
        BY <1>1, <4>1, <4>2
    <3>3. \A i \in 1 .. Len(o) + 1 : Texts'[i] = IF i = Len(o) + 1 THEN x ELSE Texts[i]
      <4>1. \A i \in DOMAIN p : Texts'[i] = ServerText[p[i].command]
        BY DEF Texts
      <4>2. \A i \in DOMAIN o : Texts[i] = ServerText[o[i].command]
        BY DEF Texts
      <4>3. \A i \in 1 .. Len(o) + 1 : i \in DOMAIN p /\ (i # Len(o) + 1 => i \in DOMAIN o)
        BY <1>1, <2>1
      <4>. QED
        BY <2>1, <4>1, <4>2, <4>3
    <3>. HIDE DEF x, S, o
    <3>4. /\ Append(Texts, x) \in Seq(Seq(S)) /\ Len(Append(Texts, x)) = Len(Texts) + 1
          /\ Append(Texts, x)[Len(Texts) + 1] = x
          /\ \A i \in 1 .. Len(Texts) : Append(Texts, x)[i] = Texts[i]
      BY <1>1, <3>1, Appended
    <3>5. \A i \in 1 .. Len(Texts') : Texts'[i] = Append(Texts, x)[i]
      BY <1>1, <3>2, <3>3, <3>4
    <3>6. Texts' = Append(Texts, x)
      BY <3>2, <3>4, <3>5, SeqEqual
    <3>. QED
      BY <3>1, <3>6 DEF x
  <2>7. Stream' = Stream \o ServerText[f.command]
    BY <1>1, <2>5, <2>6, FlattenAppend
  <2>8. Len(Stream) =< Len(Stream')
    BY <1>1, <2>6, <2>7
  <2>. QED
    BY <2>2, <2>3, <2>4, <2>5, <2>8
<1>4. /\ NoReceipt'
      /\ (\E i \in DOMAIN out[Client] : IsMessage(Client, i)) =>
            (\E i \in DOMAIN out'[Client] : IsMessage(Client, i)')
      /\ Failed(Client) => Failed(Client)'
      /\ Stream' \in Seq(S) /\ Len(Stream) =< Len(Stream')
  <2>. HIDE DEF S, o
  <2>1. CASE \E f \in ServerFrame : f.command # "RECEIPT" /\ out'[Client] = Append(out[Client], f)
    <3>1. PICK f \in ServerFrame : f.command # "RECEIPT" /\ out'[Client] = Append(o, f)
      BY <2>1 DEF o
    <3>. QED
      BY <1>3, <3>1
  <2>. QED
    BY <1>1, <1>2, <2>1 DEF OutGrows
<1>5. ErrorSent => ErrorSent'
  BY <1>4 DEF ErrorSent
<1>. QED
  BY <1>1, <1>4, <1>5

-----------------------------------------------------------------------------
FramesOK ==
    /\ frames \in Seq(Seq(Tokens))
    /\ \A i \in 1 .. Len(frames) : IsFrame(frames[i])

ClientInv ==
    /\ ClientTypeOK /\ CountsOK /\ KeyboardOK /\ FramesOK
    /\ WireOK /\ FramesStayApart
    /\ HeardOK /\ EndsForAReason

-----------------------------------------------------------------------------
(* Who moves.                                                              *)

(* The server works, at most giving up the frame the client's thread has.  *)
ServerAlone ==
    /\ UNCHANGED clientVars /\ sent'[Client] = sent[Client]
    /\ frame'[Client] \in {frame[Client], None}

(* Or a thread of the client, or its user.                                 *)
ClientAlone ==
    /\ UNCHANGED <<frame, sent>>
    /\ \/ Main \/ CloseSocket
       \/ Keyboard(ServerClosed) \/ User
       \/ Network(Stream, ServerClosed)

LEMMA WhoMoves ==
    ASSUME IndInv, [ClientServerNext]_allVars
    PROVE  ServerAlone \/ ReadTyped \/ ClientAlone
<1>. USE TwoConns
<1>1. /\ TypeOK /\ sent \in [Conns -> Nat] /\ frame \in [Conns -> ClientFrame \cup {None}]
  BY DEF IndInv, RegistryInv, TypeOK
<1>2. CASE Accepting
  <2>1. PICK c \in Conns : Register(c) \/ Execute(c)
    BY <1>2 DEF Accepting, Acceptor
  <2>2. UNCHANGED <<frame, sent>>
    BY <2>1 DEF Register, Execute, protocolVars, locals
  <2>. QED
    BY <1>2, <2>2 DEF Accepting, ServerAlone
<1>3. CASE OtherThread
  <2>1. ThreadStep(Other) /\ Step(Other) /\ UNCHANGED clientVars /\ Client # Other
    BY <1>3 DEF OtherThread, Step, Other, Client
  <2>2. frame'[Client] = frame[Client]
    BY <1>1, <2>1, OtherThreads DEF SameThread
  <2>3. UNCHANGED sent \/ sent' = [sent EXCEPT ![Other] = @ + 1]
    BY <2>1 DEF ThreadStep, Loop, ReadFrame, ReadEnd, Close
  <2>. QED
    BY <1>1, <2>1, <2>2, <2>3 DEF ServerAlone
<1>4. CASE ServerGoesOn /\ UNCHANGED clientVars
  <2>1. UNCHANGED frame \/ frame' = [frame EXCEPT ![Client] = None]
    <3>1. CASE ConnectionsStep(Client)
      BY <3>1
         DEF ConnectionsStep, registry, handlers, locals, PublishGet, PublishSnapshot, PublishLookup,
             PublishWrite, DisconnectRemove, DisconnectClose, DisconnectPurge,
             SubscribeList, SubscribeAdd, SubscribePut,
             UnsubscribeGet, UnsubscribeRemove, UnsubscribeIsEmpty, UnsubscribeDrop,
             IsSubscribedGet, IsSubscribedContains,
             CredentialsGet, CredentialsEquals, CredentialsPut
    <3>2. CASE \/ ConnectReject(Client) \/ ConnectVersion(Client) \/ HandleDisconnect(Client)
               \/ SendReject(Client) \/ SendHeader(Client)
               \/ HandleSubscribe(Client) \/ HandleUnsubscribe(Client)
      BY <3>2
         DEF locals, ConnectReject, ConnectVersion, HandleDisconnect, SendReject, SendHeader, Reject,
             HandleSubscribe, HandleUnsubscribe
    <3>3. CASE Receipt(Client) \/ Close(Client)
      BY <3>3 DEF Receipt, Close, ResetLocals
    <3>4. CASE Loop(Client) \/ ReadEnd(Client)
      BY <3>4 DEF Loop, ReadEnd, protocolVars, locals
    <3>. QED
      BY <1>4, <3>1, <3>2, <3>3, <3>4 DEF ServerGoesOn, ProtocolStep
  <2>2. UNCHANGED sent
    BY <1>4 DEF ServerGoesOn, Loop, ReadEnd, Close
  <2>. QED
    BY <1>1, <1>4, <2>1, <2>2 DEF ServerAlone
<1>5. CASE ClientThreads
  <2>1. UNCHANGED <<frame, sent>>
    BY <1>5 DEF ClientThreads, serverVars, vars, locals
  <2>. QED
    BY <1>5, <2>1 DEF ClientThreads, Listens, ClientAlone
<1>6. CASE ClosesSocket
  <2>1. UNCHANGED <<frame, sent>>
    BY <1>6 DEF ClosesSocket, PeerClose, protocolVars, locals
  <2>. QED
    BY <1>6, <2>1 DEF ClosesSocket, ClientAlone
<1>7. CASE User /\ UNCHANGED serverVars
  BY <1>7 DEF serverVars, vars, locals, ClientAlone
<1>8. CASE UNCHANGED allVars
  BY <1>8 DEF allVars, vars, locals, ServerAlone
<1>. QED
  BY <1>2, <1>3, <1>4, <1>5, <1>6, <1>7, <1>8 DEF ClientServerNext, ServerThread

(* A socket that is closed stays so.                                       *)
LEMMA ClosedStays ==
    ASSUME IndInv, [ClientServerNext]_allVars
    PROVE  ServerClosed => ServerClosed'
<1>1. sock \in [Conns -> {"open", "closed"}] /\ Client \in Conns
  BY TwoConns DEF IndInv, RegistryInv, TypeOK
<1>2. [Next]_vars
  BY ServerSteps
<1>3. ASSUME NEW c \in Conns, Step(c)
      PROVE  ServerClosed => ServerClosed'
  <2>1. UNCHANGED sock \/ sock' = [sock EXCEPT ![c] = "closed"]
    BY <1>3, StreamWriters
  <2>. QED
    BY <1>1, <2>1 DEF ServerClosed
<1>4. CASE UNCHANGED vars
  BY <1>4 DEF vars, handlers, ServerClosed
<1>. QED
  BY <1>2, <1>3, <1>4, NextIsStep

-----------------------------------------------------------------------------
(* Counts and types.                                                       *)

LEMMA ClientInit0 == ClientServerInit => ClientInv
<1>. SUFFICES ASSUME ClientServerInit
              PROVE  ClientInv
  OBVIOUS
<1>. USE ClientAssumption, TwoConns DEF ClientServerInit, ClientInit
<1>1. /\ out[Client] = <<>> /\ frame[Client] = None /\ sent[Client] = 0
  BY DEF ServerInit
<1>2. Stream = <<>> /\ Len(Stream) = 0
  <2>1. Stream = FlattenSeq(<<>>)
    BY <1>1 DEF Stream
  <2>. QED
    BY <2>1, FlattenNone
<1>3. ClientTypeOK
  BY <1>2 DEF ClientTypeOK
<1>4. CountsOK /\ KeyboardOK
  BY DEF CountsOK, KeyboardOK, Sending
<1>5. FramesOK
  BY DEF FramesOK
<1>6. WireOK
  <2>1. Unread = <<>>
    BY <1>1 DEF Unread
  <2>2. wire = FlattenSeq(Unread) \o <<>>
    BY <2>1, FlattenNone
  <2>. QED
    BY <1>1, <2>2 DEF WireOK
<1>7. FramesStayApart /\ EndsForAReason
  BY <1>1 DEF FramesStayApart, EndsForAReason
<1>8. HeardOK
  BY <1>1 DEF HeardOK, Finds, Range
<1>. QED
  BY <1>3, <1>4, <1>5, <1>6, <1>7, <1>8 DEF ClientInv

(* What sendLine's first write sends.                                      *)
LEMMA FrameSent ==
    ASSUME ClientInv, keyboard = "write", SendFrame
    PROVE  \E t : /\ IsFrame(t) /\ t \in Seq(Tokens)
                  /\ frames' = Append(frames, t) /\ wire' = wire \o (t \o <<NUL>>)
                  /\ userInput[1] = "logout" => IsLogout(t)
<1>1. /\ userInput \in TypedLines \cup {<<>>} /\ userInput # <<>>
      /\ userInput[1] \in {"login", "join", "logout"}
      /\ recipt_id \in Nat /\ subscriptionId \in Nat
  BY DEF ClientInv, KeyboardOK, ClientTypeOK
<1>2. PICK t : /\ IsFrame(t) /\ Frame = t \o <<NUL>>
               /\ userInput[1] = "logout" => IsLogout(t)
  BY <1>1, FrameIs
<1>3. Front(Frame) = t /\ t \in Seq(Tokens)
  BY <1>2, WithoutNull DEF IsFrame
<1>. QED
  BY <1>2, <1>3 DEF SendFrame

(* A line's count, taken when its frame is written.                        *)
LEMMA Counted ==
    /\ \A a, b \in Nat, s \in {0, 1} : a + s <= b => a =< b
    /\ \A a, b, c \in Nat, s, z \in {0, 1} :
          a + s <= b /\ s = 1 /\ z = 0 /\ c \in {a, a + 1} => c + z <= b
    /\ \A a \in Nat : a + 1 \in Nat
    /\ \A a, b, m \in Nat : 1 =< a /\ a =< b + 1 /\ b =< m => a \in 1 .. m + 1
OBVIOUS

(* A line counts one id and one frame at most.                             *)
LEMMA CountsStep ==
    ASSUME ClientInv, ClientAlone
    PROVE  CountsOK' /\ KeyboardOK' /\ typed' \in 0 .. MaxTyped
           /\ recipt_id' \in Nat /\ subscriptionId' \in Nat /\ subscriptionId' >= 1
<1>. USE ClientAssumption
<1>1. /\ typed \in 0 .. MaxTyped /\ recipt_id \in Nat /\ subscriptionId \in Nat
      /\ subscriptionId >= 1 /\ Len(frames) \in Nat /\ frames \in Seq(Seq(Tokens))
      /\ CountsOK /\ KeyboardOK
  BY DEF ClientInv, ClientTypeOK, FramesOK
<1>2. CASE Main \/ CloseSocket \/ Network(Stream, ServerClosed)
  <2>1. /\ UNCHANGED <<stdin, typed, userInput, recipt_id, subscriptionId, frames>>
        /\ \/ keyboard' = keyboard /\ (main' = main \/ main' \notin {"connect"})
           \/ keyboard' = "test" /\ main = "connect" /\ main' = "joinKeyboard"
        /\ main' = "refused" => main \in {"connect", "refused"}
    BY <1>2 DEF Main, Connect, JoinKeyboard, JoinNetwork, CloseSocket, Network, keyboardVars
  <2>2. CountsOK'
    BY <1>1, <2>1 DEF CountsOK, Sending
  <2>3. KeyboardOK'
    BY <1>1, <2>1 DEF KeyboardOK
  <2>. QED
    BY <1>1, <2>1, <2>2, <2>3
<1>3. CASE KeyboardTest /\ main' = main
  BY <1>1, <1>3 DEF KeyboardTest, CountsOK, KeyboardOK, Sending
<1>4. CASE (GetlineAtEnd \/ Type) /\ main' = main
  BY <1>1, <1>4 DEF GetlineAtEnd, Type, Obey, CountsOK, KeyboardOK, Sending
<1>5. CASE EndInput /\ main' = main
  BY <1>1, <1>5 DEF EndInput, CountsOK, KeyboardOK, Sending
<1>6. CASE Write(ServerClosed) /\ main' = main
  <2>1. /\ keyboard = "write" /\ UNCHANGED <<typed, userInput>>
        /\ recipt_id' \in {recipt_id, recipt_id + 1}
        /\ subscriptionId' \in {subscriptionId, subscriptionId + 1}
        /\ keyboard' \in {"delimiter", "test"}
        /\ SendFrame \/ (UNCHANGED frames /\ keyboard' = "test")
    BY <1>6 DEF Write
  <2>m. main' = main /\ main \notin {"connect", "refused"}
    BY <1>1, <1>6, <2>1 DEF KeyboardOK
  <2>2. Sending = 1 /\ Sending' = 0
    BY <2>1 DEF Sending
  <2>5. ASSUME Len(frames') \in Nat, Len(frames') \in {Len(frames), Len(frames) + 1}
        PROVE  CountsOK'
    <3>1. /\ recipt_id' \in Nat /\ subscriptionId' \in Nat /\ typed' \in Nat /\ typed' + 1 \in Nat
          /\ typed' = typed /\ Sending \in {0, 1} /\ Sending' \in {0, 1}
      BY <1>1, <2>1, <2>2
    <3>2. /\ recipt_id + Sending <= typed' /\ subscriptionId + Sending <= typed' + 1
          /\ Len(frames) + Sending <= typed'
      BY <1>1, <3>1, Zenon DEF CountsOK
    <3>3. recipt_id' + Sending' <= typed'
      BY <1>1, <2>1, <2>2, <3>1, <3>2, Counted, Zenon
    <3>4. subscriptionId' + Sending' <= typed' + 1
      BY <1>1, <2>1, <2>2, <3>1, <3>2, Counted, Zenon
    <3>5. Len(frames') + Sending' <= typed'
      BY <1>1, <2>2, <2>5, <3>1, <3>2, Counted, Zenon
    <3>. QED
      BY <3>3, <3>4, <3>5 DEF CountsOK
  <2>3. CASE SendFrame
    <3>1. PICK t : /\ t \in Seq(Tokens) /\ frames' = Append(frames, t)
                   /\ userInput[1] = "logout" => IsLogout(t)
      BY <2>1, <2>3, FrameSent
    <3>2. Len(frames') = Len(frames) + 1 /\ frames' # <<>> /\ frames'[Len(frames')] = t
      BY <1>1, <3>1
    <3>3. CountsOK'
      <4>1. Len(frames') \in Nat /\ Len(frames') \in {Len(frames), Len(frames) + 1}
        BY <1>1, <3>2
      <4>. QED
        BY <2>5, <4>1
    <3>4. userInput' \in TypedLines \cup {<<>>}
      BY <1>1, <2>1 DEF KeyboardOK
    <3>5. userInput' # <<>> /\ userInput'[1] \in {"login", "join", "logout"}
      BY <1>1, <2>1 DEF KeyboardOK
    <3>6. userInput'[1] = "logout" => IsLogout(frames'[Len(frames')])
      BY <2>1, <3>1, <3>2
    <3>7. KeyboardOK'
      BY <2>1, <2>m, <3>2, <3>4, <3>5, <3>6 DEF KeyboardOK
    <3>. QED
      BY <1>1, <2>1, <3>3, <3>7
  <2>4. CASE UNCHANGED frames /\ keyboard' = "test"
    <3>1. Len(frames') \in Nat /\ Len(frames') \in {Len(frames), Len(frames) + 1}
      BY <1>1, <2>4
    <3>2. CountsOK'
      BY <2>5, <3>1
    <3>3. KeyboardOK'
      BY <1>1, <2>1, <2>m, <2>4 DEF KeyboardOK
    <3>. QED
      BY <1>1, <2>1, <3>2, <3>3
  <2>. QED
    BY <2>1, <2>3, <2>4
<1>7. CASE WriteDelimiter(ServerClosed) /\ main' = main
  BY <1>1, <1>7 DEF WriteDelimiter, CountsOK, KeyboardOK, Sending
<1>. QED
  BY <1>2, <1>3, <1>4, <1>5, <1>6, <1>7 DEF ClientAlone, Keyboard, User, networkVars

(* The frames stay as they were written.                                   *)
LEMMA FramesStep ==
    ASSUME ClientInv, ClientAlone
    PROVE  /\ FramesOK' /\ Len(frames) =< Len(frames')
           /\ \A i \in 1 .. Len(frames) : frames'[i] = frames[i]
<1>1. frames \in Seq(Seq(Tokens)) /\ FramesOK
  BY DEF ClientInv, FramesOK
<1>2. CASE UNCHANGED frames
  BY <1>1, <1>2 DEF FramesOK
<1>3. CASE keyboard = "write" /\ SendFrame
  <2>1. PICK t : IsFrame(t) /\ t \in Seq(Tokens) /\ frames' = Append(frames, t)
    BY <1>3, FrameSent
  <2>2. /\ frames' \in Seq(Seq(Tokens)) /\ Len(frames') = Len(frames) + 1 /\ Len(frames) \in Nat
        /\ frames'[Len(frames) + 1] = t /\ \A i \in 1 .. Len(frames) : frames'[i] = frames[i]
    BY <1>1, <2>1, Appended
  <2>3. \A i \in 1 .. Len(frames') : i \in 1 .. Len(frames) \/ i = Len(frames) + 1
    BY <2>2
  <2>. QED
    BY <1>1, <2>1, <2>2, <2>3 DEF FramesOK
<1>. QED
  BY <1>2, <1>3
     DEF ClientAlone, Main, Connect, JoinKeyboard, JoinNetwork, CloseSocket, Network, Keyboard,
         KeyboardTest, GetlineAtEnd, Write, WriteDelimiter, User, Type, EndInput, keyboardVars

LEMMA TypeStepClient ==
    ASSUME ClientInv, IndInv, IndInv', OutGrows,
           ClientAlone \/ UNCHANGED clientVars \/ ReadTyped,
           CountsOK', typed' \in 0 .. MaxTyped, FramesOK',
           recipt_id' \in Nat, subscriptionId' \in Nat, subscriptionId' >= 1
    PROVE  ClientTypeOK' /\ HeardOK'
<1>t. ClientTypeOK /\ HeardOK /\ TypeOK /\ TypeOK' /\ NoReceipt
  BY DEF ClientInv, HeardOK, NoReceipt, IndInv, RegistryInv
<1>1. /\ NoReceipt' /\ (ErrorSent => ErrorSent')
      /\ Len(Stream) \in Nat /\ Len(Stream') \in Nat /\ Len(Stream) =< Len(Stream')
  BY <1>t, StreamGrows
<1>2. \/ UNCHANGED <<taken, serverMessage>>
      \/ GetLine(Stream)
  BY DEF ClientAlone, Main, Connect, JoinKeyboard, JoinNetwork, CloseSocket, Network, Keyboard,
         User, networkVars, NetworkTest, GetLineFails, HandleLine, clientVars, ReadTyped
<1>3. taken' \in 0 .. Len(Stream')
  <2>1. CASE UNCHANGED taken
    BY <1>t, <1>1, <2>1 DEF ClientTypeOK
  <2>2. CASE GetLine(Stream)
    BY <1>t, <1>1, <2>2, SMTT(20) DEF GetLine, ClientTypeOK
  <2>. QED
    BY <1>2, <2>1, <2>2
<1>4. Finds(serverMessage, "ERROR")' => ErrorSent'
  <2>1. CASE UNCHANGED serverMessage
    <3>1. Finds(serverMessage, "ERROR")' = Finds(serverMessage, "ERROR")
      BY <2>1 DEF Finds
    <3>. QED
      BY <1>t, <1>1, <3>1 DEF HeardOK
  <2>2. CASE GetLine(Stream) /\ ~ErrorSent
    <3>. DEFINE T == StreamTokens \ {Word("ERROR")}
    <3>1. Stream \in Seq(T) /\ taken \in Nat
      BY <1>t, <2>2, StreamType DEF StreamOK, ClientTypeOK
    <3>. HIDE DEF T
    <3>2. PICK end \in taken + 1 .. Len(Stream) :
             serverMessage' = WithoutNulls(SubSeq(Stream, taken + 1, end - 1))
      BY <2>2 DEF GetLine
    <3>. DEFINE text == SubSeq(Stream, taken + 1, end - 1)
    <3>3. text \in Seq(T)
      <4>1. taken + 1 \in Nat /\ taken + 1 >= 1 /\ end - 1 \in Nat /\ end - 1 =< Len(Stream)
        BY <1>1, <3>1
      <4>. QED
        BY <3>1, <4>1
    <3>. HIDE DEF text
    <3>4. WithoutNulls(text) \in Seq(T)
      <4>. DEFINE parts == [i \in DOMAIN text |-> IF text[i] = NUL THEN <<>> ELSE <<text[i]>>]
      <4>1. /\ DOMAIN text = 1 .. Len(text) /\ Len(text) \in Nat
            /\ \A i \in 1 .. Len(text) : text[i] \in T
        BY <3>3
      <4>2. parts = [i \in 1 .. Len(text) |-> IF text[i] = NUL THEN <<>> ELSE <<text[i]>>]
        BY <4>1
      <4>3. \A x \in T : <<x>> \in Seq(T)
        OBVIOUS
      <4>4. \A i \in 1 .. Len(text) : (IF text[i] = NUL THEN <<>> ELSE <<text[i]>>) \in Seq(T)
        BY <4>1, <4>3
      <4>5. parts \in Seq(Seq(T))
        BY <4>1, <4>2, <4>4
      <4>. HIDE DEF parts
      <4>6. FlattenSeq(parts) \in Seq(T)
        BY <4>5, FlattenType
      <4>. QED
        BY <4>6 DEF WithoutNulls, parts
    <3>5. serverMessage' \in Seq(T) /\ Word("ERROR") \notin T
      BY <3>2, <3>4 DEF text, T
    <3>6. Word("ERROR") \notin Range(serverMessage')
      BY <3>5 DEF Range
    <3>. QED
      BY <3>6 DEF Finds
  <2>. QED
    BY <1>1, <1>2, <2>1, <2>2
<1>5. HeardOK'
  BY <1>1, <1>4 DEF HeardOK, NoReceipt
<1>6. /\ main' \in {"connect", "refused", "joinKeyboard", "joinNetwork", "close", "done"}
      /\ keyboard' \in {"none", "test", "getline", "write", "delimiter", "done"}
      /\ network' \in {"none", "test", "getLine", "handle", "done"}
      /\ isActive' \in BOOLEAN /\ stdin' \in {"open", "eof"}
  <2>1. CASE UNCHANGED clientVars \/ ReadTyped
    BY <1>t, <2>1 DEF ClientTypeOK, clientVars, ReadTyped
  <2>2. CASE Main \/ CloseSocket
    BY <1>t, <2>2
       DEF ClientTypeOK, Main, Connect, JoinKeyboard, JoinNetwork, CloseSocket, keyboardVars,
           networkVars
  <2>3. CASE Keyboard(ServerClosed)
    BY <1>t, <2>3
       DEF ClientTypeOK, Keyboard, KeyboardTest, GetlineAtEnd, Obey, Write, WriteDelimiter,
           networkVars
  <2>4. CASE User
    BY <1>t, <2>4 DEF ClientTypeOK, User, Type, EndInput, Obey, networkVars
  <2>5. CASE Network(Stream, ServerClosed)
    BY <1>t, <2>5
       DEF ClientTypeOK, Network, NetworkTest, GetLine, GetLineFails, HandleLine, keyboardVars
  <2>. QED
    BY <2>1, <2>2, <2>3, <2>4, <2>5 DEF ClientAlone
<1>7. Sending' \in {0, 1} /\ Len(frames') \in Nat
  BY DEF Sending, FramesOK
<1>8. recipt_id' \in 0 .. MaxTyped /\ subscriptionId' \in 1 .. MaxTyped + 1 /\ Len(frames') <= MaxTyped
  <2>1. /\ recipt_id' + Sending' <= typed' /\ subscriptionId' + Sending' <= typed' + 1
        /\ Len(frames') + Sending' <= typed'
    BY Zenon DEF CountsOK
  <2>a. /\ MaxTyped \in Nat /\ typed' \in Nat /\ typed' =< MaxTyped
        /\ recipt_id' \in Nat /\ subscriptionId' \in Nat /\ 1 =< subscriptionId'
    BY ClientAssumption
  <2>2. typed' + 1 \in Nat
    BY <2>a, Counted, Zenon
  <2>3. recipt_id' =< typed'
    BY <1>7, <2>1, <2>a, <2>2, Counted, Zenon
  <2>4. subscriptionId' =< typed' + 1
    BY <1>7, <2>1, <2>a, <2>2, Counted, Zenon
  <2>5. Len(frames') =< typed'
    BY <1>7, <2>1, <2>a, <2>2, Counted, Zenon
  <2>6. recipt_id' \in 0 .. MaxTyped
    BY <2>a, <2>3
  <2>7. subscriptionId' \in 1 .. MaxTyped + 1
    BY <2>a, <2>4, Counted, Zenon
  <2>8. Len(frames') <= MaxTyped
    BY <1>7, <2>a, <2>5
  <2>. QED
    BY <2>6, <2>7, <2>8
<1>. QED
  BY <1>3, <1>5, <1>6, <1>8 DEF ClientTypeOK

-----------------------------------------------------------------------------
(* What is on its way to the server, as a function of the frames and of    *)
(* how many of them were read.                                             *)
Newline(k)     == IF k = 1 THEN <<>> ELSE <<NL>>
ChunkOf(fs, k) == Newline(k) \o fs[k] \o <<NUL>>
UnreadOf(fs, n) == [i \in 1 .. Len(fs) - n |-> ChunkOf(fs, n + i)]

LEMMA UnreadIs == Unread = UnreadOf(frames, sent[Client])
BY DEF Unread, UnreadOf, Chunk, ChunkOf, Newline

LEMMA UnreadNext == Unread' = UnreadOf(frames', sent'[Client])
BY DEF Unread, UnreadOf, Chunk, ChunkOf, Newline, Client

LEMMA ChunkType ==
    ASSUME NEW fs \in Seq(Seq(Tokens)), NEW k \in 1 .. Len(fs)
    PROVE  /\ ChunkOf(fs, k) \in Seq(Tokens) /\ Newline(k) \in Seq(Tokens)
           /\ Newline(k) \o fs[k] \in Seq(Tokens) /\ <<NUL>> \in Seq(Tokens)
<1>1. NL \in Tokens /\ NUL \in Tokens
  BY Kinds
<1>2. Newline(k) \in Seq(Tokens) /\ <<NUL>> \in Seq(Tokens) /\ fs[k] \in Seq(Tokens)
  BY <1>1 DEF Newline
<1>3. Newline(k) \o fs[k] \in Seq(Tokens)
  BY <1>2
<1>4. (Newline(k) \o fs[k]) \o <<NUL>> \in Seq(Tokens)
  BY <1>2, <1>3
<1>. QED
  BY <1>2, <1>3, <1>4 DEF ChunkOf

LEMMA UnreadType ==
    ASSUME NEW fs \in Seq(Seq(Tokens)), NEW n \in 0 .. Len(fs)
    PROVE  UnreadOf(fs, n) \in Seq(Seq(Tokens)) /\ Len(UnreadOf(fs, n)) = Len(fs) - n
<1>1. Len(fs) - n \in Nat
  OBVIOUS
<1>2. \A i \in 1 .. Len(fs) - n : n + i \in 1 .. Len(fs)
  OBVIOUS
<1>3. \A i \in 1 .. Len(fs) - n : ChunkOf(fs, n + i) \in Seq(Tokens)
  BY <1>2, ChunkType
<1>. QED
  BY <1>1, <1>3 DEF UnreadOf

(* A frame more is a chunk more,                                           *)
LEMMA UnreadGrows ==
    ASSUME NEW fs \in Seq(Seq(Tokens)), NEW n \in 0 .. Len(fs), NEW t \in Seq(Tokens)
    PROVE  UnreadOf(Append(fs, t), n)
               = Append(UnreadOf(fs, n), (Newline(Len(fs) + 1) \o t) \o <<NUL>>)
<1>. DEFINE gs == Append(fs, t)
            x == (Newline(Len(fs) + 1) \o t) \o <<NUL>>
            u == UnreadOf(fs, n)
            v == UnreadOf(gs, n)
<1>1. /\ gs \in Seq(Seq(Tokens)) /\ Len(gs) = Len(fs) + 1 /\ Len(fs) \in Nat
      /\ gs[Len(fs) + 1] = t /\ \A i \in 1 .. Len(fs) : gs[i] = fs[i]
  BY Appended
<1>. HIDE DEF gs
<1>2. u \in Seq(Seq(Tokens)) /\ Len(u) = Len(fs) - n
  BY UnreadType
<1>3. v \in Seq(Seq(Tokens)) /\ Len(v) = Len(fs) + 1 - n
  <2>1. n \in 0 .. Len(gs)
    BY <1>1
  <2>. QED
    BY <1>1, <2>1, UnreadType, SMTT(20)
<1>4. x = ChunkOf(gs, Len(fs) + 1) /\ x \in Seq(Tokens)
  <2>1. x = ChunkOf(gs, Len(fs) + 1)
    BY <1>1 DEF ChunkOf
  <2>2. Len(fs) + 1 \in 1 .. Len(gs)
    BY <1>1
  <2>3. ChunkOf(gs, Len(fs) + 1) \in Seq(Tokens)
    BY <1>1, <2>2, ChunkType
  <2>. QED
    BY <2>1, <2>3
<1>5. \A i \in 1 .. Len(fs) - n : ChunkOf(gs, n + i) = ChunkOf(fs, n + i)
  <2>1. \A i \in 1 .. Len(fs) - n : gs[n + i] = fs[n + i]
    BY <1>1
  <2>. QED
    BY <2>1 DEF ChunkOf
<1>6. \A i \in 1 .. Len(u) : v[i] = u[i]
  <2>1. \A i \in 1 .. Len(fs) - n : u[i] = ChunkOf(fs, n + i)
    BY DEF UnreadOf
  <2>2. \A i \in 1 .. Len(fs) + 1 - n : v[i] = ChunkOf(gs, n + i)
    BY <1>1 DEF UnreadOf
  <2>. QED
    BY <1>1, <1>2, <1>5, <2>1, <2>2
<1>7. v[Len(u) + 1] = x
  <2>1. \A i \in 1 .. Len(fs) + 1 - n : v[i] = ChunkOf(gs, n + i)
    BY <1>1 DEF UnreadOf
  <2>2. Len(u) + 1 \in 1 .. Len(fs) + 1 - n /\ n + (Len(u) + 1) = Len(fs) + 1
    BY <1>1, <1>2
  <2>. QED
    BY <1>4, <2>1, <2>2
<1>. HIDE DEF u, v, x
<1>8. v = Append(u, x)
  <2>1. /\ Append(u, x) \in Seq(Seq(Tokens)) /\ Len(Append(u, x)) = Len(u) + 1 /\ Len(u) \in Nat
        /\ Append(u, x)[Len(u) + 1] = x
        /\ \A i \in 1 .. Len(u) : Append(u, x)[i] = u[i]
    BY <1>2, <1>4, Appended
  <2>2. Len(v) = Len(Append(u, x))
    BY <1>1, <1>2, <1>3, <2>1
  <2>3. \A i \in 1 .. Len(v) : i \in 1 .. Len(u) \/ i = Len(u) + 1
    BY <2>1, <2>2
  <2>4. \A i \in 1 .. Len(v) : v[i] = Append(u, x)[i]
    BY <1>6, <1>7, <2>1, <2>3
  <2>. QED
    BY <1>3, <2>1, <2>2, <2>4, SeqEqual
<1>. QED
  BY <1>8 DEF u, v, x, gs

(* and reading one takes the first.                                        *)
LEMMA UnreadTaken ==
    ASSUME NEW fs \in Seq(Seq(Tokens)), NEW n \in 0 .. Len(fs), n # Len(fs)
    PROVE  /\ UnreadOf(fs, n) # <<>> /\ n + 1 \in 1 .. Len(fs)
           /\ Head(UnreadOf(fs, n)) = ChunkOf(fs, n + 1)
           /\ Tail(UnreadOf(fs, n)) = UnreadOf(fs, n + 1)
<1>. DEFINE u == UnreadOf(fs, n)
            v == UnreadOf(fs, n + 1)
<1>1. Len(fs) \in Nat /\ n + 1 \in 1 .. Len(fs) /\ n + 1 \in 0 .. Len(fs)
  OBVIOUS
<1>2. u \in Seq(Seq(Tokens)) /\ Len(u) = Len(fs) - n
  BY UnreadType
<1>3. v \in Seq(Seq(Tokens)) /\ Len(v) = Len(fs) - (n + 1)
  BY <1>1, UnreadType
<1>4. \A i \in 1 .. Len(fs) - n : u[i] = ChunkOf(fs, n + i)
  BY DEF UnreadOf
<1>5. \A i \in 1 .. Len(fs) - (n + 1) : v[i] = ChunkOf(fs, n + 1 + i)
  BY DEF UnreadOf
<1>. HIDE DEF u, v
<1>6. u # <<>>
  BY <1>1, <1>2
<1>7. /\ Head(u) = u[1] /\ Tail(u) \in Seq(Seq(Tokens)) /\ Len(Tail(u)) = Len(u) - 1
      /\ \A i \in 1 .. Len(u) - 1 : Tail(u)[i] = u[i + 1]
  BY <1>2, <1>6, Shortened
<1>8. Head(u) = ChunkOf(fs, n + 1)
  BY <1>1, <1>4, <1>7
<1>9. Tail(u) = v
  <2>1. Len(Tail(u)) = Len(v)
    BY <1>1, <1>2, <1>3, <1>7
  <2>2. ASSUME NEW i \in 1 .. Len(v)
        PROVE  Tail(u)[i] = v[i]
    <3>1. i \in 1 .. Len(u) - 1 /\ i + 1 \in 1 .. Len(fs) - n /\ i \in 1 .. Len(fs) - (n + 1)
          /\ n + (i + 1) = n + 1 + i
      BY <1>1, <1>2, <1>3
    <3>. QED
      BY <1>4, <1>5, <1>7, <3>1
  <2>. QED
    BY <1>3, <1>7, <2>1, <2>2, SeqEqual
<1>. QED
  BY <1>1, <1>6, <1>8, <1>9 DEF u, v

(* Of four parts, the first can be joined to the other three.              *)
InParts(S, a, b, c, d) ==
    /\ a \in Seq(S) /\ b \in Seq(S) /\ c \in Seq(S) /\ d \in Seq(S)
    /\ (a \o b) \o (c \o d) = a \o (b \o (c \o d))

LEMMA FourParts ==
    ASSUME NEW S, NEW a \in Seq(S), NEW b \in Seq(S), NEW c \in Seq(S), NEW d \in Seq(S)
    PROVE  InParts(S, a, b, c, d)
<1>. DEFINE g == c \o d
<1>1. g \in Seq(S)
  OBVIOUS
<1>. HIDE DEF g
<1>2. (a \o b) \o g = a \o (b \o g)
  BY <1>1, SMTT(30), ZenonT(30)
<1>. QED
  BY <1>2, Zenon DEF g, InParts

(* The bytes on the wire: when a frame is written behind them,             *)
LEMMA WireWritten ==
    ASSUME NEW fs \in Seq(Seq(Tokens)), NEW n \in 0 .. Len(fs), NEW t \in Seq(Tokens),
           NEW w, w = FlattenSeq(UnreadOf(fs, n)) \o Newline(Len(fs) + 1)
    PROVE  w \o (t \o <<NUL>>) = FlattenSeq(UnreadOf(Append(fs, t), n)) \o <<>>
<1>. DEFINE u == UnreadOf(fs, n)
            F == FlattenSeq(u)
            l == Newline(Len(fs) + 1)
            z == <<NUL>>
<1>1. u \in Seq(Seq(Tokens)) /\ F \in Seq(Tokens)
  BY UnreadType, FlattenType
<1>2. l \in Seq(Tokens) /\ z \in Seq(Tokens)
  BY Kinds DEF Newline
<1>. HIDE DEF l, z, F
<1>3. UnreadOf(Append(fs, t), n) = Append(u, (l \o t) \o z)
  BY UnreadGrows DEF l, z
<1>. HIDE DEF u
<1>4. l \o t \in Seq(Tokens) /\ t \o z \in Seq(Tokens)
  BY <1>2
<1>5. (l \o t) \o z \in Seq(Tokens) /\ (l \o t) \o z = l \o (t \o z)
  <2>1. (l \o t) \o z = l \o (t \o z)
    BY <1>2, Associates, SMTT(30), ZenonT(30)
  <2>. QED
    BY <1>2, <1>4, <2>1
<1>6. FlattenSeq(Append(u, (l \o t) \o z)) = F \o ((l \o t) \o z)
  BY <1>1, <1>5, FlattenAppend DEF F
<1>7. (F \o l) \o (t \o z) = F \o (l \o (t \o z))
  <2>1. F \in Seq(Tokens) /\ l \in Seq(Tokens) /\ z \in Seq(Tokens)
    BY <1>1, <1>2
  <2>2. InParts(Tokens, F, l, t, z)
    BY <2>1, FourParts
  <2>. QED
    BY <2>2, Zenon DEF InParts
<1>8. F \o ((l \o t) \o z) \in Seq(Tokens)
  BY <1>1, <1>5
<1>9. \A v \in Seq(Tokens) : v \o <<>> = v
  OBVIOUS
<1>10. w \o (t \o z) = F \o ((l \o t) \o z)
  BY <1>5, <1>7, Zenon DEF F, u, l
<1>11. FlattenSeq(UnreadOf(Append(fs, t), n)) \o <<>> = F \o ((l \o t) \o z)
  BY <1>3, <1>6, <1>8, <1>9
<1>. QED
  BY <1>10, <1>11 DEF z

(* when its newline is,                                                    *)
LEMMA WireEnded ==
    ASSUME NEW fs \in Seq(Seq(Tokens)), NEW n \in 0 .. Len(fs),
           NEW w, w = FlattenSeq(UnreadOf(fs, n)) \o <<>>
    PROVE  Append(w, NL) = FlattenSeq(UnreadOf(fs, n)) \o <<NL>>
<1>. DEFINE F == FlattenSeq(UnreadOf(fs, n))
<1>1. F \in Seq(Tokens) /\ NL \in Tokens
  BY UnreadType, FlattenType, Kinds
<1>. HIDE DEF F
<1>2. F \o <<>> = F
  BY <1>1
<1>3. Append(F, NL) = F \o <<NL>>
  BY <1>1
<1>. QED
  BY <1>2, <1>3 DEF F

(* and when the server reads up to their first null.                       *)
LEMMA WireRead ==
    ASSUME NEW fs \in Seq(Seq(Tokens)), NEW n \in 0 .. Len(fs),
           \A i \in 1 .. Len(fs) : IsFrame(fs[i]),
           NEW rest \in {<<>>, <<NL>>},
           NEW w, w = FlattenSeq(UnreadOf(fs, n)) \o rest, NUL \in Range(w)
    PROVE  /\ n # Len(fs)
           /\ SubSeq(w, 1, Min(Positions(w, NUL)) - 1) = Newline(n + 1) \o fs[n + 1]
           /\ SubSeq(w, Min(Positions(w, NUL)) + 1, Len(w))
                 = FlattenSeq(UnreadOf(fs, n + 1)) \o rest
<1>. DEFINE u == UnreadOf(fs, n)
            v == UnreadOf(fs, n + 1)
            F == FlattenSeq(v)
            a == Newline(n + 1) \o fs[n + 1]
<1>1. u \in Seq(Seq(Tokens)) /\ Len(u) = Len(fs) - n /\ Len(fs) \in Nat /\ n \in Nat
  BY UnreadType
<1>2. rest \in Seq(Tokens) /\ NUL \notin Range(rest) /\ NUL \in Tokens
  <2>1. NL \in Tokens /\ NUL \in Tokens /\ NL # NUL
    BY Kinds
  <2>2. CASE rest = <<>>
    BY <2>1, <2>2 DEF Range
  <2>3. CASE rest = <<NL>>
    BY <2>1, <2>3 DEF Range
  <2>. QED
    BY <2>1, <2>2, <2>3
<1>3. n # Len(fs)
  <2>. SUFFICES ASSUME n = Len(fs)
                PROVE  FALSE
    OBVIOUS
  <2>1. u = <<>>
    BY <1>1
  <2>2. FlattenSeq(u) = <<>>
    BY <2>1, FlattenNone
  <2>3. w = rest
    BY <1>2, <2>2
  <2>. QED
    BY <1>2, <2>3
<1>4. /\ u # <<>> /\ n + 1 \in 1 .. Len(fs) /\ n + 1 \in 0 .. Len(fs)
      /\ Head(u) = a \o <<NUL>> /\ Tail(u) = v
  <2>1. /\ UnreadOf(fs, n) # <<>> /\ n + 1 \in 1 .. Len(fs)
        /\ Head(UnreadOf(fs, n)) = ChunkOf(fs, n + 1)
        /\ Tail(UnreadOf(fs, n)) = UnreadOf(fs, n + 1)
    BY <1>3, UnreadTaken
  <2>2. n + 1 \in 0 .. Len(fs)
    BY <2>1
  <2>3. ChunkOf(fs, n + 1) = a \o <<NUL>>
    BY Zenon DEF ChunkOf
  <2>. QED
    BY <2>1, <2>2, <2>3
<1>5. a \in Seq(Tokens) /\ <<NUL>> \in Seq(Tokens)
  BY <1>4, ChunkType
<1>6. v \in Seq(Seq(Tokens)) /\ F \in Seq(Tokens)
  BY <1>4, UnreadType, FlattenType
<1>. HIDE DEF F, v
<1>7. FlattenSeq(u) = (a \o <<NUL>>) \o F
  BY <1>1, <1>4, FlattenHead DEF F
<1>8. \A i \in 1 .. Len(a) : a[i] # NUL
  <2>. DEFINE b == Newline(n + 1)
              c == fs[n + 1]
  <2>1. b \in Seq(Tokens) /\ c \in Seq(Tokens)
    BY <1>4, ChunkType
  <2>2. Joined(Tokens, b, c, a)
    BY <2>1, Concatenated
  <2>3. \A i \in 1 .. Len(c) : c[i] # NUL
    BY <1>4 DEF IsFrame
  <2>4. \A i \in 1 .. Len(b) : b[i] # NUL
    BY Kinds DEF Newline
  <2>. HIDE DEF a, b, c
  <2>5. ASSUME NEW i \in 1 .. Len(a)
        PROVE  a[i] # NUL
    <3>1. CASE i \in 1 .. Len(b)
      BY <2>2, <2>4, <3>1 DEF Joined
    <3>2. CASE i \notin 1 .. Len(b)
      <4>1. i - Len(b) \in 1 .. Len(c) /\ Len(b) + (i - Len(b)) = i
        BY <2>2, <3>2 DEF Joined
      <4>2. a[Len(b) + (i - Len(b))] = c[i - Len(b)]
        BY <2>2, <4>1 DEF Joined
      <4>. QED
        BY <2>3, <4>1, <4>2
    <3>. QED
      BY <3>1, <3>2
  <2>. QED
    BY <2>5
<1>. HIDE DEF a, u
<1>9. w = (a \o <<NUL>>) \o (F \o rest)
  <2>1. a \o <<NUL>> \in Seq(Tokens)
    BY <1>5
  <2>2. ((a \o <<NUL>>) \o F) \o rest = (a \o <<NUL>>) \o (F \o rest)
    <3>1. \A x, y, q \in Seq(Tokens) : (x \o y) \o q = x \o (y \o q)
      BY Associates, SMTT(30), ZenonT(30)
    <3>. QED
      BY <1>2, <1>6, <2>1, <3>1, Zenon
  <2>. QED
    BY <1>7, <2>2 DEF u
<1>10. F \o rest \in Seq(Tokens)
  BY <1>2, <1>6
<1>11. /\ SubSeq(w, 1, Min(Positions(w, NUL)) - 1) = a
       /\ SubSeq(w, Min(Positions(w, NUL)) + 1, Len(w)) = F \o rest
  <2>. DEFINE b == F \o rest
  <2>1. b \in Seq(Tokens) /\ w = (a \o <<NUL>>) \o b
    BY <1>9, <1>10
  <2>. HIDE DEF b
  <2>2. EndsInNull(Tokens, a, b, w)
    BY <1>2, <1>5, <1>8, <2>1 DEF EndsInNull
  <2>3. CutAtNull(a, b, w)
    BY <2>2, FirstNull
  <2>. QED
    BY <2>3 DEF b, CutAtNull
<1>. QED
  BY <1>3, <1>11 DEF F, a, v

-----------------------------------------------------------------------------
(* What every step keeps.                                                  *)

(* What ends the wire behind the unread frames.                            *)
WireEnd(rest) ==
    /\ rest \in {<<>>, <<NL>>}
    /\ wire = FlattenSeq(UnreadOf(frames, sent[Client])) \o rest
    /\ rest # <<>> => frames # <<>> /\ keyboard # "delimiter"
    /\ rest = <<>> => \/ frames = <<>> \/ keyboard = "delimiter"
                      \/ ~isActive /\ keyboard \in {"test", "done"}

LEMMA WireEnds == WireOK <=> /\ sent[Client] <= Len(frames)
                             /\ frame[Client] # None => sent[Client] # 0
                             /\ \E rest : WireEnd(rest)
BY UnreadIs DEF WireOK, WireEnd

LEMMA WireEndsNext == WireOK' <=> /\ sent'[Client] <= Len(frames')
                                  /\ frame'[Client] # None => sent'[Client] # 0
                                  /\ \E rest : WireEnd(rest)'
<1>1. Client' = Client
  BY DEF Client
<1>. QED
  BY <1>1, UnreadNext DEF WireOK, WireEnd

(* The steps that leave wire and frames alone.                             *)
LEMMA WireKept ==
    ASSUME WireOK, UNCHANGED <<wire, frames>>, sent'[Client] = sent[Client],
           frame'[Client] \in {frame[Client], None},
           isActive' => isActive,
           keyboard' = "delimiter" => keyboard = "delimiter",
           keyboard = "delimiter" => keyboard' = "delimiter" \/ (keyboard' = "test" /\ ~isActive'),
           keyboard \in {"test", "done"} =>
              keyboard' \in {"test", "done"} \/ (keyboard' = "getline" /\ isActive)
              \/ keyboard' = keyboard
    PROVE  WireOK'
<1>1. PICK rest : WireEnd(rest)
  BY WireEnds
<1>2. UnreadOf(frames', sent'[Client]) = UnreadOf(frames, sent[Client])
  BY Zenon
<1>3. WireEnd(rest)'
  <2>1. wire' = FlattenSeq(UnreadOf(frames', sent'[Client])) \o rest
    BY <1>1, <1>2, Zenon DEF WireEnd
  <2>2. rest # <<>> => frames' # <<>> /\ keyboard' # "delimiter"
    BY <1>1 DEF WireEnd
  <2>3. rest = <<>> => \/ frames' = <<>> \/ keyboard' = "delimiter"
                       \/ ~isActive' /\ keyboard' \in {"test", "done"}
    BY <1>1 DEF WireEnd
  <2>4. Client' = Client
    BY DEF Client
  <2>. QED
    BY <1>1, <2>1, <2>2, <2>3, <2>4 DEF WireEnd
<1>4. sent'[Client] <= Len(frames') /\ (frame'[Client] # None => sent'[Client] # 0)
  BY WireEnds
<1>. QED
  BY <1>3, <1>4, WireEndsNext

LEMMA WireWrites ==
    ASSUME ClientInv, sent \in [Conns -> Nat], UNCHANGED <<frame, sent>>,
           keyboard = "write", SendFrame, keyboard' = "delimiter"
    PROVE  WireOK'
<1>. DEFINE n == sent[Client]
<1>1. PICK t : /\ IsFrame(t) /\ t \in Seq(Tokens)
               /\ frames' = Append(frames, t) /\ wire' = wire \o (t \o <<NUL>>)
  BY FrameSent
<1>2. /\ frames \in Seq(Seq(Tokens)) /\ Len(frames) \in Nat /\ n \in 0 .. Len(frames)
      /\ frame[Client] # None => n # 0
  <2>1. frames \in Seq(Seq(Tokens)) /\ Len(frames) \in Nat
    BY DEF ClientInv, FramesOK
  <2>2. n =< Len(frames) /\ n \in Nat /\ (frame[Client] # None => n # 0)
    BY TwoConns, WireEnds DEF ClientInv
  <2>. QED
    BY <2>1, <2>2
<1>3. PICK rest : WireEnd(rest)
  BY WireEnds DEF ClientInv
<1>4. rest = Newline(Len(frames) + 1)
  <2>1. rest = <<>> <=> frames = <<>>
    BY <1>3 DEF WireEnd
  <2>2. frames = <<>> <=> Len(frames) + 1 = 1
    BY <1>2
  <2>. QED
    BY <1>3, <2>1, <2>2 DEF WireEnd, Newline
<1>5. wire = FlattenSeq(UnreadOf(frames, n)) \o Newline(Len(frames) + 1)
  BY <1>3, <1>4 DEF WireEnd
<1>6. wire' = FlattenSeq(UnreadOf(frames', sent'[Client])) \o <<>>
  <2>1. wire \o (t \o <<NUL>>) = FlattenSeq(UnreadOf(Append(frames, t), n)) \o <<>>
    BY <1>1, <1>2, <1>5, WireWritten
  <2>. QED
    BY <1>1, <2>1, Zenon
<1>7. WireEnd(<<>>)'
  BY <1>6 DEF WireEnd, Client
<1>8. Len(frames') = Len(frames) + 1
  BY <1>1, <1>2
<1>9. sent'[Client] <= Len(frames') /\ (frame'[Client] # None => sent'[Client] # 0)
  BY <1>2, <1>8
<1>. QED
  BY <1>7, <1>9, WireEndsNext

LEMMA WireDelimits ==
    ASSUME ClientInv, sent \in [Conns -> Nat], UNCHANGED <<frame, sent, frames>>,
           keyboard = "delimiter", wire' = Append(wire, NL), keyboard' = "test"
    PROVE  WireOK'
<1>. DEFINE n == sent[Client]
<1>1. /\ frames \in Seq(Seq(Tokens)) /\ Len(frames) \in Nat /\ n \in 0 .. Len(frames)
      /\ frame[Client] # None => n # 0
  <2>1. frames \in Seq(Seq(Tokens)) /\ Len(frames) \in Nat
    BY DEF ClientInv, FramesOK
  <2>2. n =< Len(frames) /\ n \in Nat /\ (frame[Client] # None => n # 0)
    BY TwoConns, WireEnds DEF ClientInv
  <2>. QED
    BY <2>1, <2>2
<1>2. frames # <<>>
  BY DEF ClientInv, KeyboardOK
<1>3. PICK rest : WireEnd(rest)
  BY WireEnds DEF ClientInv
<1>4. wire = FlattenSeq(UnreadOf(frames, n)) \o <<>>
  <2>1. rest = <<>>
    BY <1>3 DEF WireEnd
  <2>. QED
    BY <1>3, <2>1 DEF WireEnd
<1>5. Append(wire, NL) = FlattenSeq(UnreadOf(frames, n)) \o <<NL>>
  BY <1>1, <1>4, WireEnded
<1>6. wire' = FlattenSeq(UnreadOf(frames', sent'[Client])) \o <<NL>>
  BY <1>5, Zenon
<1>7. WireEnd(<<NL>>)'
  <2>1. <<NL>> # <<>>
    OBVIOUS
  <2>. QED
    BY <1>2, <1>6, <2>1 DEF WireEnd, Client
<1>8. sent'[Client] <= Len(frames') /\ (frame'[Client] # None => sent'[Client] # 0)
  BY <1>1
<1>. QED
  BY <1>7, <1>8, WireEndsNext

(* What the server reads is the next frame, behind its predecessor's       *)
(* newline.                                                                *)
LEMMA WireReads ==
    ASSUME ClientInv, sent \in [Conns -> Nat], ReadTyped
    PROVE  /\ WireOK' /\ sent'[Client] = sent[Client] + 1
           /\ sent[Client] + 1 \in 1 .. Len(frames)
           /\ frame'[Client]
                 = ToClientFrame(ParseFrame(Newline(sent[Client] + 1) \o frames[sent[Client] + 1]))
<1>. DEFINE n == sent[Client]
            end == Min(Positions(wire, NUL))
<1>1. /\ frames \in Seq(Seq(Tokens)) /\ Len(frames) \in Nat /\ n \in Nat /\ n \in 0 .. Len(frames)
      /\ \A i \in 1 .. Len(frames) : IsFrame(frames[i])
  <2>1. /\ frames \in Seq(Seq(Tokens)) /\ Len(frames) \in Nat
        /\ \A i \in 1 .. Len(frames) : IsFrame(frames[i])
    BY DEF ClientInv, FramesOK
  <2>2. n =< Len(frames) /\ n \in Nat
    BY TwoConns, WireEnds DEF ClientInv
  <2>. QED
    BY <2>1, <2>2
<1>2. /\ NUL \in Range(wire) /\ sent' = [sent EXCEPT ![Client] = @ + 1]
      /\ frame'[Client] = ToClientFrame(ParseFrame(SubSeq(wire, 1, end - 1)))
      /\ wire' = SubSeq(wire, end + 1, Len(wire))
      /\ UNCHANGED <<keyboard, isActive, frames>>
  BY DEF ReadTyped, ReadNext, ReadFrame
<1>3. PICK rest : WireEnd(rest)
  BY WireEnds DEF ClientInv
<1>4. rest \in {<<>>, <<NL>>} /\ wire = FlattenSeq(UnreadOf(frames, n)) \o rest
  BY <1>3 DEF WireEnd
<1>5. /\ n # Len(frames)
      /\ SubSeq(wire, 1, Min(Positions(wire, NUL)) - 1) = Newline(n + 1) \o frames[n + 1]
      /\ SubSeq(wire, Min(Positions(wire, NUL)) + 1, Len(wire))
            = FlattenSeq(UnreadOf(frames, n + 1)) \o rest
  BY <1>1, <1>2, <1>4, WireRead, ZenonT(40)
<1>6. sent'[Client] = n + 1 /\ n + 1 \in 1 .. Len(frames)
  BY <1>1, <1>2, <1>5, TwoConns
<1>7. wire' = FlattenSeq(UnreadOf(frames', sent'[Client])) \o rest
  BY <1>2, <1>5, <1>6, Zenon
<1>8. WireEnd(rest)'
  <2>1. rest # <<>> => frames' # <<>> /\ keyboard' # "delimiter"
    BY <1>2, <1>3 DEF WireEnd
  <2>2. rest = <<>> => \/ frames' = <<>> \/ keyboard' = "delimiter"
                       \/ ~isActive' /\ keyboard' \in {"test", "done"}
    BY <1>2, <1>3 DEF WireEnd
  <2>. QED
    BY <1>4, <1>7, <2>1, <2>2 DEF WireEnd, Client
<1>9. sent'[Client] <= Len(frames') /\ (frame'[Client] # None => sent'[Client] # 0)
  BY <1>1, <1>2, <1>6
<1>10. frame'[Client] = ToClientFrame(ParseFrame(Newline(n + 1) \o frames[n + 1]))
  BY <1>2, <1>5
<1>. QED
  BY <1>6, <1>8, <1>9, <1>10, WireEndsNext

LEMMA WireStep ==
    ASSUME ClientInv, sent \in [Conns -> Nat], ServerAlone \/ ReadTyped \/ ClientAlone
    PROVE  WireOK'
<1>w. WireOK /\ KeyboardOK /\ isActive \in BOOLEAN
  BY DEF ClientInv, ClientTypeOK
<1>1. CASE ServerAlone
  <2>1. /\ UNCHANGED <<wire, frames, keyboard, isActive>> /\ sent'[Client] = sent[Client]
        /\ frame'[Client] \in {frame[Client], None}
    BY <1>1 DEF ServerAlone, clientVars
  <2>. QED
    BY <1>w, <2>1, WireKept
<1>2. CASE ReadTyped
  BY <1>2, WireReads
<1>3. ASSUME ClientAlone,
             UNCHANGED <<wire, frames>>, isActive' => isActive,
             keyboard' = "delimiter" => keyboard = "delimiter",
             keyboard = "delimiter" => keyboard' = "delimiter" \/ (keyboard' = "test" /\ ~isActive'),
             keyboard \in {"test", "done"} =>
                keyboard' \in {"test", "done"} \/ (keyboard' = "getline" /\ isActive)
                \/ keyboard' = keyboard
      PROVE  WireOK'
  BY <1>w, <1>3, WireKept DEF ClientAlone
<1>4. CASE ClientAlone /\ (Main \/ CloseSocket)
  <2>1. /\ UNCHANGED <<wire, frames, isActive>>
        /\ keyboard' = keyboard \/ (keyboard' = "test" /\ main = "connect")
    BY <1>4 DEF Main, Connect, JoinKeyboard, JoinNetwork, CloseSocket, keyboardVars
  <2>2. main = "connect" => keyboard = "none"
    BY <1>w DEF KeyboardOK
  <2>. QED
    BY <1>3, <1>4, <2>1, <2>2
<1>5. CASE ClientAlone /\ Network(Stream, ServerClosed)
  <2>1. UNCHANGED <<wire, frames, keyboard>>
    BY <1>5 DEF Network, keyboardVars
  <2>2. isActive' => isActive
    BY <1>5, Zenon DEF Network, NetworkTest, GetLine, GetLineFails, HandleLine
  <2>. QED
    BY <1>3, <1>5, <2>1, <2>2
<1>6. CASE ClientAlone /\ User
  <2>1. UNCHANGED <<wire, frames, isActive>> /\ keyboard = "getline"
        /\ keyboard' \in {"write", "test", "getline"}
    BY <1>6 DEF User, Type, EndInput, Obey
  <2>. QED
    BY <1>3, <1>6, <2>1
<1>7. CASE ClientAlone /\ Keyboard(ServerClosed)
  <2>1. CASE (KeyboardTest \/ GetlineAtEnd) /\ UNCHANGED isActive
    <3>1. UNCHANGED <<wire, frames>> /\ (isActive' => isActive)
      BY <2>1 DEF KeyboardTest, GetlineAtEnd
    <3>2. CASE KeyboardTest /\ isActive
      BY <1>3, <1>7, <3>1, <3>2 DEF KeyboardTest
    <3>3. CASE KeyboardTest /\ ~isActive
      <4>1. keyboard = "test" /\ keyboard' = "done"
        BY <3>3, Zenon DEF KeyboardTest
      <4>2. /\ keyboard' = "delimiter" => keyboard = "delimiter"
            /\ keyboard = "delimiter" => keyboard' = "delimiter" \/ (keyboard' = "test" /\ ~isActive')
            /\ keyboard \in {"test", "done"} =>
                  keyboard' \in {"test", "done"} \/ (keyboard' = "getline" /\ isActive)
                  \/ keyboard' = keyboard
        BY <4>1
      <4>3. ClientAlone /\ UNCHANGED <<wire, frames>> /\ (isActive' => isActive)
        BY <1>7, <3>1, Zenon
      <4>. QED
        BY <1>3, <4>2, <4>3, Zenon
    <3>4. CASE GetlineAtEnd
      BY <1>3, <1>7, <3>1, <3>4 DEF GetlineAtEnd, Obey
    <3>. QED
      BY <2>1, <3>2, <3>3, <3>4
  <2>2. CASE Write(ServerClosed)
    <3>1. CASE SendFrame /\ keyboard' = "delimiter"
      BY <1>7, <2>2, <3>1, WireWrites DEF ClientAlone, Write
    <3>2. CASE ~isActive' /\ keyboard' = "test" /\ UNCHANGED <<wire, frames>>
      BY <1>3, <1>7, <2>2, <3>2 DEF Write
    <3>. QED
      BY <2>2, <3>1, <3>2 DEF Write
  <2>3. CASE WriteDelimiter(ServerClosed)
    <3>1. keyboard = "delimiter" /\ keyboard' = "test" /\ UNCHANGED frames
      BY <2>3 DEF WriteDelimiter
    <3>2. CASE wire' = Append(wire, NL)
      BY <1>7, <3>1, <3>2, WireDelimits DEF ClientAlone
    <3>3. CASE ~isActive' /\ UNCHANGED wire
      BY <1>3, <1>7, <3>1, <3>3
    <3>. QED
      BY <2>3, <3>2, <3>3 DEF WriteDelimiter
  <2>. QED
    BY <1>7, <2>1, <2>2, <2>3 DEF Keyboard
<1>. QED
  BY <1>1, <1>2, <1>4, <1>5, <1>6, <1>7 DEF ClientAlone

(* What the server holds of the client is the frame it read last.          *)
LEMMA ApartStep ==
    ASSUME ClientInv, sent \in [Conns -> Nat], frame \in [Conns -> ClientFrame \cup {None}],
           ServerAlone \/ ReadTyped \/ ClientAlone
    PROVE  FramesStayApart'
<1>. DEFINE n == sent[Client]
            intended(fs, k) == ToClientFrame(ParseFrame(fs[k]))
            expected(fs, k) == IF k = 1 THEN intended(fs, k)
                                        ELSE [intended(fs, k) EXCEPT !.command = "other"]
<1>1. /\ Len(frames) \in Nat /\ n \in Nat /\ n =< Len(frames)
      /\ frame[Client] # None => n # 0
      /\ \A i \in 1 .. Len(frames) : IsFrame(frames[i])
  <2>1. Len(frames) \in Nat /\ \A i \in 1 .. Len(frames) : IsFrame(frames[i])
    BY DEF ClientInv, FramesOK
  <2>2. n =< Len(frames) /\ n \in Nat /\ (frame[Client] # None => n # 0)
    BY TwoConns, WireEnds DEF ClientInv
  <2>. QED
    BY <2>1, <2>2
<1>2. frame[Client] # None => frame[Client] = expected(frames, n)
  BY Zenon DEF ClientInv, FramesStayApart
<1>3. ASSUME frame'[Client] # None => frame'[Client] = expected(frames', sent'[Client])
      PROVE  FramesStayApart'
  BY <1>3, Zenon DEF FramesStayApart, Client
<1>4. CASE ServerAlone
  <2>1. UNCHANGED frames /\ sent'[Client] = n /\ frame'[Client] \in {frame[Client], None}
    BY <1>4 DEF ServerAlone, clientVars
  <2>. QED
    BY <1>2, <1>3, <2>1
<1>5. CASE ClientAlone
  <2>1. frame' = frame /\ sent' = sent
    BY <1>5 DEF ClientAlone
  <2>2. \A i \in 1 .. Len(frames) : frames'[i] = frames[i]
    BY <1>5, FramesStep
  <2>3. frame[Client] # None => n \in 1 .. Len(frames)
    BY <1>1
  <2>4. frame[Client] # None => frames'[n] = frames[n]
    BY <2>2, <2>3
  <2>. QED
    BY <1>2, <1>3, <2>1, <2>4
<1>6. CASE ReadTyped
  <2>. DEFINE k == n + 1
  <2>1. /\ sent'[Client] = k /\ k \in 1 .. Len(frames) /\ frames' = frames
        /\ frame'[Client] = ToClientFrame(ParseFrame(Newline(k) \o frames[k]))
    BY <1>6, WireReads DEF ReadTyped
  <2>2. IsFrame(frames[k])
    BY <1>1, <2>1
  <2>. HIDE DEF k
  <2>3. CASE k = 1
    <3>1. Newline(k) \o frames[k] = frames[k]
      BY <2>2, <2>3 DEF Newline, IsFrame
    <3>. QED
      BY <1>3, <2>1, <2>3, <3>1
  <2>4. CASE k # 1
    <3>1. Newline(k) = <<NL>>
      BY <2>4 DEF Newline
    <3>2. ToClientFrame(ParseFrame(<<NL>> \o frames[k]))
             = [intended(frames, k) EXCEPT !.command = "other"]
      BY <2>2, ReadLater
    <3>. QED
      BY <1>3, <2>1, <2>4, <3>1, <3>2
  <2>. QED
    BY <2>3, <2>4
<1>. QED
  BY <1>4, <1>5, <1>6

(* What makes an end lasts: the logout sent, the server closed, the ERROR  *)
(* sent.                                                                   *)
LEMMA EndsStep ==
    ASSUME ClientInv, IndInv, IndInv', OutGrows, ServerClosed => ServerClosed',
           ServerAlone \/ ReadTyped \/ ClientAlone
    PROVE  EndsForAReason'
<1>. DEFINE LogoutSent == \E i \in DOMAIN frames : IsLogout(frames[i])
<1>t. /\ isActive \in BOOLEAN /\ TypeOK /\ TypeOK' /\ NoReceipt /\ EndsForAReason
      /\ KeyboardOK /\ HeardOK /\ frames \in Seq(Seq(Tokens))
  BY DEF ClientInv, ClientTypeOK, HeardOK, NoReceipt, IndInv, RegistryInv, FramesOK
<1>1. ErrorSent => ErrorSent'
  BY <1>t, StreamGrows
<1>2. /\ frames' \in Seq(Seq(Tokens)) /\ Len(frames) =< Len(frames')
      /\ \A i \in 1 .. Len(frames) : frames'[i] = frames[i]
  <2>1. CASE ClientAlone
    BY <2>1, FramesStep DEF FramesOK
  <2>2. CASE frames' = frames
    BY <1>t, <2>2
  <2>. QED
    BY <2>1, <2>2 DEF ServerAlone, ReadTyped, clientVars
<1>3. LogoutSent => LogoutSent'
  <2>1. \A i \in DOMAIN frames : i \in DOMAIN frames' /\ frames'[i] = frames[i]
    <3>1. DOMAIN frames = 1 .. Len(frames) /\ Len(frames) \in Nat
      BY <1>t, AsFunction
    <3>2. DOMAIN frames' = 1 .. Len(frames') /\ Len(frames') \in Nat
      BY <1>2, AsFunction
    <3>. QED
      BY <1>2, <3>1, <3>2
  <2>. QED
    BY <2>1
<1>. HIDE DEF LogoutSent
<1>4. EndsForAReason <=> (~isActive => LogoutSent \/ ServerClosed \/ ErrorSent)
  BY DEF EndsForAReason, ErrorSent, LogoutSent
<1>5. EndsForAReason' <=> (~isActive' => LogoutSent' \/ ServerClosed' \/ ErrorSent')
  BY DEF EndsForAReason, ErrorSent, LogoutSent
<1>6. CASE isActive' = isActive
  BY <1>t, <1>1, <1>3, <1>4, <1>5, <1>6
<1>7. CASE ServerClosed
  BY <1>5, <1>7
<1>8. CASE ErrorSent
  BY <1>1, <1>5, <1>8
<1>9. CASE LogoutSent
  BY <1>3, <1>5, <1>9
<1>10. \/ isActive' = isActive \/ ServerClosed
       \/ WriteDelimiter(ServerClosed) /\ keyboard = "delimiter" /\ userInput[1] = "logout"
       \/ Finds(serverMessage, "ERROR")
  <2>1. CASE ServerAlone \/ ReadTyped
    BY <2>1 DEF ServerAlone, ReadTyped, clientVars
  <2>2. CASE Main \/ CloseSocket
    BY <2>2 DEF Main, Connect, JoinKeyboard, JoinNetwork, CloseSocket
  <2>3. CASE User
    BY <2>3 DEF User
  <2>4. CASE Keyboard(ServerClosed)
    <3>1. CASE UNCHANGED isActive
      BY <3>1
    <3>2. CASE Write(ServerClosed)
      BY <3>2 DEF Write
    <3>3. CASE WriteDelimiter(ServerClosed)
      <4>1. /\ keyboard = "delimiter"
            /\ isActive' = (isActive /\ userInput[1] # "logout") \/ ServerClosed
        BY <3>3, Zenon DEF WriteDelimiter
      <4>2. CASE userInput[1] # "logout" /\ isActive' = (isActive /\ userInput[1] # "logout")
        BY <1>t, <4>2
      <4>. QED
        BY <3>3, <4>1, <4>2
    <3>. QED
      BY <2>4, <3>1, <3>2, <3>3 DEF Keyboard
  <2>5. CASE Network(Stream, ServerClosed)
    <3>1. CASE UNCHANGED isActive
      BY <3>1
    <3>2. CASE GetLineFails(ServerClosed)
      BY <3>2 DEF GetLineFails
    <3>3. CASE HandleLine /\ ~Finds(serverMessage, "ERROR")
      <4>1. isActive' = (isActive /\ ~(/\ ~Finds(serverMessage, "RECEIPT")
                                      /\ ~Finds(serverMessage, "MESSAGE")
                                      /\ Finds(serverMessage, "ERROR")))
        BY <3>3, Zenon DEF HandleLine
      <4>2. isActive' <=> isActive
        BY <3>3, <4>1
      <4>3. isActive' \in BOOLEAN
        BY <4>1
      <4>. QED
        BY <1>t, <4>2, <4>3
    <3>. QED
      BY <2>5, <3>1, <3>2, <3>3, Zenon DEF Network, NetworkTest, GetLine
  <2>. QED
    BY <2>1, <2>2, <2>3, <2>4, <2>5 DEF ClientAlone
<1>11. (keyboard = "delimiter" /\ userInput[1] = "logout") => LogoutSent
  <2>. SUFFICES ASSUME keyboard = "delimiter", userInput[1] = "logout"
                PROVE  LogoutSent
    OBVIOUS
  <2>1. frames # <<>> /\ IsLogout(frames[Len(frames)])
    BY <1>t DEF KeyboardOK
  <2>2. Len(frames) \in DOMAIN frames
    BY <1>t, <2>1
  <2>. QED
    BY <2>1, <2>2 DEF LogoutSent
<1>12. Finds(serverMessage, "ERROR") => ErrorSent
  BY <1>t DEF HeardOK
<1>. QED
  BY <1>6, <1>7, <1>8, <1>9, <1>10, <1>11, <1>12

LEMMA ClientInvStep ==
    ASSUME IndInv, IndInv', ClientInv, [ClientServerNext]_allVars
    PROVE  ClientInv'
<1>1. ServerAlone \/ ReadTyped \/ ClientAlone
  BY WhoMoves
<1>2. OutGrows
  BY ServerSteps, OutOnlyGrows
<1>3. ServerClosed => ServerClosed'
  BY ClosedStays
<1>4. sent \in [Conns -> Nat] /\ frame \in [Conns -> ClientFrame \cup {None}]
  BY DEF IndInv, RegistryInv, TypeOK
<1>5. WireOK'
  BY <1>1, <1>4, WireStep
<1>6. FramesStayApart'
  BY <1>1, <1>4, ApartStep
<1>7. EndsForAReason'
  BY <1>1, <1>2, <1>3, EndsStep
<1>8. /\ CountsOK' /\ KeyboardOK' /\ typed' \in 0 .. MaxTyped /\ FramesOK'
      /\ recipt_id' \in Nat /\ subscriptionId' \in Nat /\ subscriptionId' >= 1
  <2>1. CASE ClientAlone
    BY <2>1, CountsStep, FramesStep
  <2>2. CASE ServerAlone \/ ReadTyped
    <3>1. UNCHANGED <<main, keyboard, typed, userInput, recipt_id, subscriptionId, frames>>
      BY <2>2 DEF ServerAlone, ReadTyped, clientVars
    <3>2. /\ CountsOK /\ KeyboardOK /\ FramesOK /\ typed \in 0 .. MaxTyped
          /\ recipt_id \in Nat /\ subscriptionId \in Nat /\ subscriptionId >= 1
      BY ClientAssumption DEF ClientInv, ClientTypeOK
    <3>3. CountsOK'
      BY <3>1, <3>2, Zenon DEF CountsOK, Sending
    <3>4. KeyboardOK'
      BY <3>1, <3>2, Zenon DEF KeyboardOK
    <3>5. FramesOK'
      BY <3>1, <3>2, Zenon DEF FramesOK
    <3>. QED
      BY <3>1, <3>2, <3>3, <3>4, <3>5
  <2>. QED
    BY <1>1, <2>1, <2>2
<1>9. ClientTypeOK' /\ HeardOK'
  BY <1>1, <1>2, <1>8, TypeStepClient DEF ServerAlone
<1>. QED
  BY <1>5, <1>6, <1>7, <1>8, <1>9 DEF ClientInv

LEMMA ClientKeepsInvariants == ClientServerSpec => [](IndInv /\ ClientInv)
<1>1. ClientServerSpec => []IndInv
  BY ServerKeepsInvariants
<1>2. ClientServerInit => ClientInv
  BY ClientInit0
<1>3. IndInv /\ IndInv' /\ ClientInv /\ [ClientServerNext]_allVars => ClientInv'
  BY ClientInvStep
<1>. QED
  BY <1>1, <1>2, <1>3, PTL DEF ClientServerSpec

(* The state of the client's three threads is of its type, its counters    *)
(* within the lines typed, whatever the threads and the server do.         *)
THEOREM ClientTypeCorrect == ClientServerSpec => []ClientTypeOK
<1>1. ClientInv => ClientTypeOK
  BY DEF ClientInv
<1>. QED
  BY <1>1, ClientKeepsInvariants, PTL

(* The server reads the client's frames one by one, none split or merged,  *)
(* each with all its headers, though all but the first without a command:  *)
(* sendLine's newline is what the next frame begins with.                  *)
THEOREM FramesAreKeptApart == ClientServerSpec => []FramesStayApart
<1>1. ClientInv => FramesStayApart
  BY DEF ClientInv
<1>. QED
  BY <1>1, ClientKeepsInvariants, PTL

(* The client clears isActive only for a logout it sent, a server that has *)
(* closed, an ERROR, or a message that names one.                          *)
THEOREM ClientEndsForAReason == ClientServerSpec => []EndsForAReason
<1>1. ClientInv => EndsForAReason
  BY DEF ClientInv
<1>. QED
  BY <1>1, ClientKeepsInvariants, PTL

================================================================================
