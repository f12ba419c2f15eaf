----------------------------- MODULE Texts_proofs -----------------------------
(***************************************************************************)
(* What readers of text return, for every text: the frames that the        *)
(* server's decoder makes of what a client's encoder wrote, the Event that *)
(* the client makes of the body of a message, and the events it makes of a *)
(* file.                                                                   *)
(*                                                                         *)
(* A reader's invariant says what the part that was read so far amounts    *)
(* to, in the terms in which the result is specified for the whole.        *)
(***************************************************************************)
EXTENDS StompEncoderDecoder, Event, EventsFile, SequenceLemmas, FiniteSetTheorems

-----------------------------------------------------------------------------
(* The frame codec.                                                        *)

(* Texts over some words, keys and values, and messages of them: of a      *)
(* command without a colon, headers whose names differ up to their first   *)
(* colon, and a body without a null.                                       *)
Tokens(W, K, V) ==
    {NL, NUL} \cup {Word(w) : w \in W} \cup {Pair(k, v) : k \in K, v \in V}
        \cup {AsWritten(k, v) : k \in K, v \in V}

NameOf(k) == IF k \in DOMAIN KeyOf THEN KeyOf[k] ELSE k

MessagesOf(W, K, V) ==
    {m \in [kind    : {"message"},
            command : Seq({Word(w) : w \in W}),
            headers : UNION {[ks -> V] : ks \in SUBSET K},
            body    : {NoBody} \cup Seq(Tokens(W, K, V) \ {NUL})] :
        /\ IsFiniteSet(DOMAIN m.headers)
        /\ \A k, l \in DOMAIN m.headers : NameOf(k) = NameOf(l) => k = l}

(* The kinds of the tokens tell them apart.                                *)
LEMMA TokenKinds ==
    /\ NL.kind = "newline" /\ NUL.kind = "null" /\ NL # NUL
    /\ \A w : Word(w).kind = "word" /\ Word(w) # NL /\ Word(w) # NUL
    /\ \A k, v : AsWritten(k, v).kind = "pair" /\ AsWritten(k, v) # NL /\ AsWritten(k, v) # NUL
    /\ \A k, v : AsWritten(k, v).key = NameOf(k)
<1>1. NL.kind = "newline" /\ NUL.kind = "null"
  BY DEF NL, NUL
<1>2. \A w : Word(w).kind = "word"
  BY DEF Word
<1>3. \A k, v : Pair(k, v).kind = "pair" /\ Pair(k, v).key = k
  BY DEF Pair
<1>4. \A k, v : AsWritten(k, v).kind = "pair" /\ AsWritten(k, v).key = NameOf(k)
  BY <1>3, Zenon DEF AsWritten, NameOf
<1>5. "newline" # "null" /\ "newline" # "word" /\ "null" # "word" /\ "newline" # "pair" /\ "null" # "pair"
  OBVIOUS
<1>. QED
  BY <1>1, <1>2, <1>4, <1>5, Zenon

LEMMA NotMalformed ==
    ASSUME NEW c, NEW h, NEW b
    PROVE  [kind |-> "message", command |-> c, headers |-> h, body |-> b] # Malformed
<1>. DEFINE r == [kind |-> "message", command |-> c, headers |-> h, body |-> b]
<1>1. r.kind = "message" /\ Malformed.kind = "IllegalArgumentException"
  BY DEF Malformed
<1>. QED
  BY <1>1

(* parseFrame: the command ends at the first newline.                      *)
LEMMA ParseCommand ==
    ASSUME NEW Tok, NEW t \in Seq(Tok), NEW f \in 1 .. Len(t), t[f] = NL,
           \A i \in 1 .. f - 1 : t[i] # NL
    PROVE  /\ NL \in Range(t) /\ Min(Positions(t, NL)) = f
           /\ ParseFrame(t) # Malformed /\ ParseFrame(t).command = SubSeq(t, 1, f - 1)
<1>. DEFINE P == Positions(t, NL)
<1>1. DOMAIN t = 1 .. Len(t) /\ Len(t) \in Nat /\ f \in Nat
  OBVIOUS
<1>2. f \in P /\ P \in SUBSET Nat /\ \A i \in P : i \in 1 .. Len(t) /\ t[i] = NL
  BY <1>1 DEF Positions
<1>3. NL \in Range(t)
  BY <1>1 DEF Range
<1>4. Min(P) = f
  <2>. HIDE DEF P
  <2>1. Min(P) \in P /\ Min(P) =< f
    BY <1>2, MinIsLeast
  <2>2. Min(P) \in 1 .. Len(t) /\ t[Min(P)] = NL
    BY <1>2, <2>1
  <2>3. Min(P) \notin 1 .. f - 1
    BY <2>2
  <2>. QED
    BY <1>1, <2>1, <2>2, <2>3
<1>5. \E h, b : ParseFrame(t) = [kind |-> "message", command |-> SubSeq(t, 1, f - 1), headers |-> h, body |-> b]
  BY <1>3, <1>4, Zenon DEF ParseFrame
<1>6. PICK h, b : ParseFrame(t) = [kind |-> "message", command |-> SubSeq(t, 1, f - 1), headers |-> h, body |-> b]
  BY <1>5
<1>. QED
  BY <1>3, <1>4, <1>6, NotMalformed

(* and the headers at the first empty line behind it.                      *)
FirstLineAndBlank(t, f, e) ==
    /\ f \in 1 .. Len(t) /\ t[f] = NL /\ \A i \in 1 .. f - 1 : t[i] # NL
    /\ e \in Nat /\ f < e /\ e + 1 =< Len(t) /\ t[e] = NL /\ t[e + 1] = NL
    /\ \A i \in f + 1 .. e - 1 : ~(t[i] = NL /\ t[i + 1] = NL)

LEMMA ParseHeaders ==
    ASSUME NEW Tok, NEW t \in Seq(Tok), NEW f, NEW e, FirstLineAndBlank(t, f, e)
    PROVE  ParseFrame(t) = [kind    |-> "message",
                            command |-> SubSeq(t, 1, f - 1),
                            headers |-> Headers(SubSeq(t, f + 1, e - 1)),
                            body    |-> SubSeq(t, e + 2, Len(t))]
<1>. DEFINE B == {i \in f + 1 .. Len(t) - 1 : t[i] = NL /\ t[i + 1] = NL}
<1>0. /\ f \in 1 .. Len(t) /\ t[f] = NL /\ \A i \in 1 .. f - 1 : t[i] # NL
      /\ e \in Nat /\ f < e /\ e + 1 =< Len(t) /\ t[e] = NL /\ t[e + 1] = NL
      /\ \A i \in f + 1 .. e - 1 : ~(t[i] = NL /\ t[i + 1] = NL)
  BY DEF FirstLineAndBlank
<1>1. Len(t) \in Nat /\ f \in Nat
  BY <1>0
<1>2. NL \in Range(t) /\ Min(Positions(t, NL)) = f
  BY <1>0, ParseCommand
<1>3. e \in B /\ B \in SUBSET Nat /\ \A i \in B : i \notin f + 1 .. e - 1 /\ i >= f + 1
  BY <1>0, <1>1
<1>4. Min(B) = e /\ B # {}
  <2>. HIDE DEF B
  <2>1. Min(B) \in B /\ Min(B) =< e /\ Min(B) \in Nat
    BY <1>3, MinIsLeast
  <2>. QED
    BY <1>0, <1>1, <1>3, <2>1
<1>. QED
  BY <1>2, <1>4, Zenon DEF ParseFrame

(* The HashMap has one entry for each header when their names differ.      *)
Names(hs) == {AsWritten(k, hs[k]).key : k \in DOMAIN hs}
Named(hs, name) == CHOOSE k \in DOMAIN hs : AsWritten(k, hs[k]).key = name
RereadHeaders(hs) ==
    [name \in Names(hs) |-> AsWritten(Named(hs, name), hs[Named(hs, name)]).value]

HeadersWritten(head, n, hs) ==
    /\ n \in Nat /\ DOMAIN head = 1 .. n
    /\ \A k, l \in DOMAIN hs : NameOf(k) = NameOf(l) => k = l
    /\ \A i \in 1 .. n : head[i].kind = "pair" =>
           \E k \in DOMAIN hs : head[i] = AsWritten(k, hs[k])
    /\ \A k \in DOMAIN hs : \E i \in 1 .. n : head[i] = AsWritten(k, hs[k])

LEMMA HeadersAre ==
    ASSUME NEW head, NEW n, NEW hs, HeadersWritten(head, n, hs)
    PROVE  Headers(head) = RereadHeaders(hs)
<1>. DEFINE Rows(k) == {i \in DOMAIN head : head[i].kind = "pair" /\ head[i].key = k}
            D == {p.key : p \in {x \in Range(head) : x.kind = "pair"}}
            E == {AsWritten(k, hs[k]).key : k \in DOMAIN hs}
            The(name) == CHOOSE k \in DOMAIN hs : AsWritten(k, hs[k]).key = name
<1>a. /\ n \in Nat /\ DOMAIN head = 1 .. n
      /\ \A k, l \in DOMAIN hs : NameOf(k) = NameOf(l) => k = l
      /\ \A i \in 1 .. n : head[i].kind = "pair" =>
             \E k \in DOMAIN hs : head[i] = AsWritten(k, hs[k])
      /\ \A k \in DOMAIN hs : \E i \in 1 .. n : head[i] = AsWritten(k, hs[k])
  BY Zenon DEF HeadersWritten
<1>1. \A k \in DOMAIN hs : AsWritten(k, hs[k]).kind = "pair" /\ AsWritten(k, hs[k]).key = NameOf(k)
  BY TokenKinds
<1>0. \A k, l \in DOMAIN hs : AsWritten(k, hs[k]).key = AsWritten(l, hs[l]).key => k = l
  <2>. TAKE k, l \in DOMAIN hs
  <2>1. AsWritten(k, hs[k]).key = NameOf(k) /\ AsWritten(l, hs[l]).key = NameOf(l)
    BY <1>1, Zenon
  <2>2. NameOf(k) = NameOf(l) => k = l
    BY <1>a
  <2>. QED
    BY <2>1, <2>2, Zenon
<1>2. D = E
  <2>1. \A x \in D : x \in E
    <3>. TAKE x \in D
    <3>1. PICK p \in Range(head) : p.kind = "pair" /\ x = p.key
      OBVIOUS
    <3>2. PICK i \in 1 .. n : p = head[i]
      BY <1>a, <3>1 DEF Range
    <3>. QED
      BY <1>a, <3>1, <3>2, Zenon
  <2>2. \A x \in E : x \in D
    <3>. TAKE x \in E
    <3>1. PICK k \in DOMAIN hs : x = AsWritten(k, hs[k]).key
      OBVIOUS
    <3>2. PICK i \in 1 .. n : head[i] = AsWritten(k, hs[k])
      BY <1>a
    <3>3. head[i] \in Range(head)
      BY <1>a DEF Range
    <3>. QED
      BY <1>1, <3>1, <3>2, <3>3, Zenon
  <2>. QED
    BY <2>1, <2>2
<1>3. ASSUME NEW name \in E
      PROVE  head[Max(Rows(name))].value = AsWritten(The(name), hs[The(name)]).value
  <2>1. PICK k \in DOMAIN hs : AsWritten(k, hs[k]).key = name
    OBVIOUS
  <2>2. The(name) = k
    <3>1. The(name) \in DOMAIN hs /\ AsWritten(The(name), hs[The(name)]).key = name
      <4>1. \E l : l \in DOMAIN hs /\ AsWritten(l, hs[l]).key = name
        BY <2>1
      <4>. QED
        BY <4>1
    <3>. HIDE DEF The
    <3>. QED
      BY <1>0, <2>1, <3>1, Zenon
  <2>3. PICK i \in 1 .. n : head[i] = AsWritten(k, hs[k])
    BY <1>a
  <2>4. i \in Rows(name)
    BY <1>a, <1>1, <2>1, <2>3, Zenon
  <2>5. Rows(name) \in SUBSET Nat /\ \A y \in Rows(name) : y =< n
    <3>1. Rows(name) \subseteq 1 .. n
      BY <1>a
    <3>. HIDE DEF Rows
    <3>. QED
      BY <3>1
  <2>6. Max(Rows(name)) \in Rows(name)
    <3>. HIDE DEF Rows
    <3>. QED
      BY <1>a, <2>4, <2>5, MaxIsGreatest
  <2>7. \A j \in Rows(name) : head[j] = AsWritten(k, hs[k])
    <3>. TAKE j \in Rows(name)
    <3>1. j \in 1 .. n /\ head[j].kind = "pair" /\ head[j].key = name
      BY <1>a, Zenon
    <3>2. PICK l \in DOMAIN hs : head[j] = AsWritten(l, hs[l])
      BY <1>a, <3>1, Zenon
    <3>3. l = k
      BY <1>0, <2>1, <3>1, <3>2, Zenon
    <3>. QED
      BY <3>2, <3>3
  <2>. HIDE DEF Rows, The
  <2>. QED
    BY <2>2, <2>6, <2>7, Zenon
<1>4. Headers(head) = [k \in D |-> head[Max(Rows(k))].value]
  BY Zenon DEF Headers
<1>. HIDE DEF Rows, D
<1>5. Headers(head) = [k \in E |-> AsWritten(The(k), hs[The(k)]).value]
  <2>. HIDE DEF E, The
  <2>1. Headers(head) = [k \in E |-> head[Max(Rows(k))].value]
    BY <1>2, <1>4, Zenon
  <2>2. \A k \in E : head[Max(Rows(k))].value = AsWritten(The(k), hs[The(k)]).value
    BY <1>3, Zenon
  <2>. QED
    BY <2>1, <2>2, Zenon
<1>. QED
  BY <1>5, Zenon DEF RereadHeaders, Names, Named

(* Lines of two tokens each, one after the other.                          *)
InTwos(s, t, n) ==
    /\ Len(t) = 2 * n
    /\ \A j \in 1 .. n : t[2 * j - 1] = s[j][1] /\ t[2 * j] = s[j][2]

LEMMA TwosGrow ==
    ASSUME NEW S, NEW s, NEW n \in Nat, NEW t \in Seq(S), InTwos(s, t, n),
           s[n + 1] \in Seq(S), Len(s[n + 1]) = 2
    PROVE  InTwos(s, t \o s[n + 1], n + 1)
<1>. DEFINE l == s[n + 1]
            u == t \o l
<1>1. Joined(S, t, l, u)
  BY Concatenated
<1>2. l[1] = s[n + 1][1] /\ l[2] = s[n + 1][2] /\ l \in Seq(S) /\ Len(l) = 2
  OBVIOUS
<1>. HIDE DEF u, l
<1>3. Len(t) = 2 * n /\ \A j \in 1 .. n : t[2 * j - 1] = s[j][1] /\ t[2 * j] = s[j][2]
  BY DEF InTwos
<1>4. /\ Len(u) = Len(t) + 2 /\ \A i \in 1 .. Len(t) : u[i] = t[i]
      /\ \A i \in 1 .. 2 : u[Len(t) + i] = l[i]
  BY <1>1, <1>2 DEF Joined
<1>5. u[2 * n + 1] = l[1] /\ u[2 * n + 2] = l[2]
  BY <1>3, <1>4
<1>6. ASSUME NEW j \in 1 .. n + 1
      PROVE  u[2 * j - 1] = s[j][1] /\ u[2 * j] = s[j][2]
  <2>1. CASE j = n + 1
    <3>1. 2 * j - 1 = 2 * n + 1 /\ 2 * j = 2 * n + 2
      BY <2>1
    <3>. QED
      BY <1>2, <1>5, <2>1, <3>1
  <2>2. CASE j # n + 1
    <3>1. j \in 1 .. n /\ 2 * j - 1 \in 1 .. Len(t) /\ 2 * j \in 1 .. Len(t)
      BY <1>3, <2>2
    <3>. QED
      BY <1>3, <1>4, <3>1
  <2>. QED
    BY <2>1, <2>2
<1>7. InTwos(s, u, n + 1)
  <2>1. Len(u) = 2 * (n + 1)
    BY <1>3, <1>4
  <2>. QED
    BY <1>6, <2>1, Zenon DEF InTwos
<1>. QED
  BY <1>7 DEF u, l

LEMMA FlattenTwos ==
    ASSUME NEW S, NEW s \in Seq(Seq(S)), \A i \in 1 .. Len(s) : Len(s[i]) = 2
    PROVE  FlattenSeq(s) \in Seq(S) /\ InTwos(s, FlattenSeq(s), Len(s))
<1>1. Len(s) \in Nat /\ \A i \in 1 .. Len(s) : s[i] \in Seq(S)
  OBVIOUS
<1>2. CASE s = <<>>
  <2>1. FlattenSeq(s) = <<>> /\ Len(s) = 0 /\ <<>> \in Seq(S) /\ Len(<<>>) = 2 * 0
    BY <1>2, FlattenNone
  <2>. QED
    BY <2>1 DEF InTwos
<1>3. CASE s # <<>>
  <2>1. PICK f : /\ Flattening(s, f) /\ FlattenSeq(s) = f[Len(s)]
                 /\ \A i \in 1 .. Len(s) : f[i] \in Seq(S)
    BY <1>3, FlattenIs
  <2>. DEFINE Good == {n \in Nat : n \in 1 .. Len(s) => InTwos(s, f[n], n)}
  <2>2. 0 \in Good
    OBVIOUS
  <2>3. ASSUME NEW n \in Nat, n \in Good
        PROVE  n + 1 \in Good
    <3>. SUFFICES ASSUME n + 1 \in 1 .. Len(s)
                  PROVE  InTwos(s, f[n + 1], n + 1)
      OBVIOUS
    <3>1. f[n + 1] = IF n + 1 = 1 THEN s[n + 1] ELSE f[n + 1 - 1] \o s[n + 1]
      BY <2>1, FlatteningAt
    <3>2. s[n + 1] \in Seq(S) /\ Len(s[n + 1]) = 2
      BY <1>1
    <3>3. CASE n = 0
      <4>1. f[1] = s[1] /\ s[1] \in Seq(S) /\ Len(s[1]) = 2
        BY <3>1, <3>2, <3>3
      <4>2. \A j \in 1 .. 1 : j = 1
        OBVIOUS
      <4>3. InTwos(s, f[1], 1)
        BY <4>1, <4>2 DEF InTwos
      <4>. QED
        BY <3>3, <4>3
    <3>4. CASE n # 0
      <4>1. n \in 1 .. Len(s) /\ n + 1 - 1 = n /\ n + 1 # 1
        BY <1>1, <3>4
      <4>2. f[n] \in Seq(S) /\ InTwos(s, f[n], n)
        BY <2>1, <2>3, <4>1
      <4>3. f[n + 1] = f[n] \o s[n + 1]
        BY <3>1, <4>1
      <4>. QED
        BY <3>2, <4>2, <4>3, TwosGrow
    <3>. QED
      BY <3>3, <3>4
  <2>4. \A n \in Nat : n \in Good
    <3>. HIDE DEF Good
    <3>. QED
      BY <2>2, <2>3, Induction
  <2>5. Len(s) \in 1 .. Len(s)
    BY <1>1, <1>3
  <2>. QED
    BY <1>1, <2>1, <2>4, <2>5
<1>. QED
  BY <1>2, <1>3

(* An encoding without its null: the command's line, n lines of headers,   *)
(* an empty line and the body.                                             *)
Encoding(S, m, n, t) ==
    LET c == Len(m.command)
        b == IF m.body = NoBody THEN <<>> ELSE m.body
    IN  /\ t \in Seq(S) /\ c \in Nat /\ n \in Nat /\ Len(b) \in Nat
        /\ Len(t) = c + 2 * n + 2 + Len(b)
        /\ \A i \in 1 .. c : t[i] = m.command[i]
        /\ t[c + 1] = NL
        /\ \A j \in 1 .. n : /\ t[c + 1 + 2 * j] = NL
                             /\ \E k \in DOMAIN m.headers :
                                   t[c + 2 * j] = AsWritten(k, m.headers[k])
        /\ \A k \in DOMAIN m.headers : \E j \in 1 .. n : t[c + 2 * j] = AsWritten(k, m.headers[k])
        /\ t[c + 2 * n + 2] = NL
        /\ \A i \in 1 .. Len(b) : t[c + 2 * n + 2 + i] = b[i]

Encoded(S, m, e) == \E n, t : Encoding(S, m, n, t) /\ e = t \o <<NUL>>

(* What a message is encoded with is in its alphabet.                      *)
LEMMA InTokens ==
    \A W, K, V : /\ NL \in Tokens(W, K, V) /\ NUL \in Tokens(W, K, V)
                 /\ \A w \in W : Word(w) \in Tokens(W, K, V)
                 /\ \A k \in K, v \in V : AsWritten(k, v) \in Tokens(W, K, V)
<1>. TAKE W, K, V
<1>1. NL \in Tokens(W, K, V) /\ NUL \in Tokens(W, K, V)
  BY DEF Tokens
<1>2. ASSUME NEW w \in W
      PROVE  Word(w) \in Tokens(W, K, V)
  <2>1. Word(w) \in {Word(x) : x \in W}
    OBVIOUS
  <2>. QED
    BY <2>1 DEF Tokens
<1>3. ASSUME NEW k \in K, NEW v \in V
      PROVE  AsWritten(k, v) \in Tokens(W, K, V)
  <2>1. AsWritten(k, v) \in {AsWritten(x, y) : x \in K, y \in V}
    OBVIOUS
  <2>. QED
    BY <2>1 DEF Tokens
<1>. QED
  BY <1>1, <1>2, <1>3

(* What is known of a message.                                             *)
LEMMA MessageIs ==
    ASSUME NEW W, NEW K, NEW V, NEW m \in MessagesOf(W, K, V)
    PROVE  /\ m = [kind |-> "message", command |-> m.command, headers |-> m.headers, body |-> m.body]
           /\ m.command \in Seq({Word(w) : w \in W}) /\ m.command \in Seq(Tokens(W, K, V))
           /\ \A i \in 1 .. Len(m.command) : m.command[i].kind = "word"
           /\ m.body = NoBody \/ m.body \in Seq(Tokens(W, K, V) \ {NUL})
           /\ IsFiniteSet(DOMAIN m.headers)
           /\ \A k, l \in DOMAIN m.headers : NameOf(k) = NameOf(l) => k = l
           /\ \A k \in DOMAIN m.headers : AsWritten(k, m.headers[k]) \in Tokens(W, K, V)
<1>. DEFINE Hs == UNION {[ks -> V] : ks \in SUBSET K}
            Bs == {NoBody} \cup Seq(Tokens(W, K, V) \ {NUL})
            Cs == Seq({Word(w) : w \in W})
<1>1. /\ m \in [kind : {"message"}, command : Cs, headers : Hs, body : Bs]
      /\ IsFiniteSet(DOMAIN m.headers)
      /\ \A k, l \in DOMAIN m.headers : NameOf(k) = NameOf(l) => k = l
  BY DEF MessagesOf
<1>2. /\ m = [kind |-> m.kind, command |-> m.command, headers |-> m.headers, body |-> m.body]
      /\ m.kind = "message" /\ m.command \in Cs /\ m.headers \in Hs /\ m.body \in Bs
  <2>. HIDE DEF Cs, Hs, Bs
  <2>. QED
    BY <1>1
<1>3. m.command \in Seq(Tokens(W, K, V)) /\ \A i \in 1 .. Len(m.command) : m.command[i].kind = "word"
  <2>1. \A x \in {Word(w) : w \in W} : x \in Tokens(W, K, V) /\ x.kind = "word"
    BY InTokens, TokenKinds
  <2>. DEFINE Ws == {Word(w) : w \in W}
  <2>. HIDE DEF Ws
  <2>2. m.command \in Seq(Ws) /\ \A x \in Ws : x \in Tokens(W, K, V) /\ x.kind = "word"
    BY <1>2, <2>1 DEF Ws
  <2>. QED
    BY <2>2
<1>4. \A k \in DOMAIN m.headers : k \in K /\ m.headers[k] \in V
  <2>1. PICK ks \in SUBSET K : m.headers \in [ks -> V]
    BY <1>2
  <2>. QED
    BY <2>1
<1>5. \A k \in DOMAIN m.headers : AsWritten(k, m.headers[k]) \in Tokens(W, K, V)
  BY <1>4, InTokens, Zenon
<1>. QED
  BY <1>1, <1>2, <1>3, <1>5, Zenon

LEMMA CommandWords ==
    ASSUME NEW W, NEW K, NEW V, NEW m \in MessagesOf(W, K, V)
    PROVE  \A i \in 1 .. Len(m.command) : m.command[i].kind = "word"
<1>. DEFINE c == m.command
            Ws == {Word(w) : w \in W}
<1>1. c \in Seq(Ws) /\ \A x \in Ws : x.kind = "word"
  BY MessageIs, TokenKinds
<1>. HIDE DEF c, Ws
<1>2. \A i \in 1 .. Len(c) : c[i].kind = "word"
  BY <1>1
<1>. QED
  BY <1>2 DEF c

LEMMA RecordOf ==
    ASSUME NEW W, NEW K, NEW V, NEW m \in MessagesOf(W, K, V)
    PROVE  m = [kind |-> "message", command |-> m.command, headers |-> m.headers, body |-> m.body]
<1>. DEFINE Hs == UNION {[ks -> V] : ks \in SUBSET K}
            Bs == {NoBody} \cup Seq(Tokens(W, K, V) \ {NUL})
            Cs == Seq({Word(w) : w \in W})
<1>1. m \in [kind : {"message"}, command : Cs, headers : Hs, body : Bs]
  BY DEF MessagesOf
<1>. HIDE DEF Cs, Hs, Bs
<1>. QED
  BY <1>1

LEMMA NamesDiffer ==
    ASSUME NEW W, NEW K, NEW V, NEW m \in MessagesOf(W, K, V)
    PROVE  \A k, l \in DOMAIN m.headers : NameOf(k) = NameOf(l) => k = l
BY Zenon DEF MessagesOf

(* The keys in some order are each there.                                  *)
LEMMA AllKeys ==
    ASSUME NEW D, IsFiniteSet(D), NEW keys \in SetToSeqs(D)
    PROVE  /\ Cardinality(D) \in Nat /\ keys \in [1 .. Cardinality(D) -> D]
           /\ \A k \in D : \E i \in 1 .. Cardinality(D) : keys[i] = k
<1>. DEFINE n == Cardinality(D)
<1>1. n \in Nat
  BY FS_CardinalityType
<1>2. keys \in [1 .. n -> D] /\ \A i, j \in 1 .. n : i # j => keys[i] # keys[j]
  BY Zenon DEF SetToSeqs
<1>3. keys \in Injection(1 .. n, D)
  BY <1>2 DEF Injection, IsInjective
<1>4. Cardinality(1 .. n) = n
  BY <1>1, FS_Interval
<1>5. keys \in Surjection(1 .. n, D)
  BY <1>3, <1>4, FS_Injection
<1>. QED
  BY <1>1, <1>2, <1>5 DEF Surjection

(* encode writes an encoding and a null, in whatever order the headers go. *)
LEMMA EncodeIs ==
    ASSUME NEW W, NEW K, NEW V, NEW m \in MessagesOf(W, K, V),
           NEW keys \in SetToSeqs(DOMAIN m.headers)
    PROVE  Encoded(Tokens(W, K, V), m, Encode(m, keys))
<1>. DEFINE S == Tokens(W, K, V)
            D == DOMAIN m.headers
            n == Cardinality(D)
            Line(i) == <<AsWritten(keys[i], m.headers[keys[i]]), NL>>
            s == [i \in DOMAIN keys |-> Line(i)]
            H == FlattenSeq(s)
            b == IF m.body = NoBody THEN <<>> ELSE m.body
            c == Len(m.command)
            t1 == m.command \o <<NL>>
            t2 == t1 \o H
            t3 == t2 \o <<NL>>
            t4 == t3 \o b
<1>1. /\ n \in Nat /\ keys \in [1 .. n -> D]
      /\ \A k \in D : \E i \in 1 .. n : keys[i] = k
  <2>1. IsFiniteSet(D)
    BY MessageIs
  <2>. HIDE DEF D
  <2>2. keys \in SetToSeqs(D)
    BY DEF D
  <2>. QED
    BY <2>1, <2>2, AllKeys
<1>2. /\ NL \in S /\ \A k \in D : AsWritten(k, m.headers[k]) \in S
      /\ m.command \in Seq(S) /\ c \in Nat
  <2>1. NL \in S
    BY InTokens
  <2>. HIDE DEF S
  <2>2. m.command \in Seq(S)
    BY MessageIs DEF S
  <2>3. \A k \in D : AsWritten(k, m.headers[k]) \in S
    BY MessageIs, Zenon DEF S
  <2>. QED
    BY <2>1, <2>2, <2>3
<1>3. b \in Seq(S) /\ Len(b) \in Nat
  <2>1. m.body = NoBody \/ m.body \in Seq(S \ {NUL})
    BY MessageIs
  <2>. HIDE DEF S
  <2>. QED
    BY <2>1
<1>. HIDE DEF S, n, D, b
<1>4. /\ DOMAIN s = 1 .. n /\ s \in Seq(Seq(S)) /\ Len(s) = n
      /\ \A i \in 1 .. n : /\ Len(s[i]) = 2 /\ s[i][2] = NL
                           /\ s[i][1] = AsWritten(keys[i], m.headers[keys[i]])
  <2>1. ASSUME NEW i \in 1 .. n
        PROVE  /\ Line(i) \in Seq(S) /\ Len(Line(i)) = 2 /\ Line(i)[2] = NL
               /\ Line(i)[1] = AsWritten(keys[i], m.headers[keys[i]])
    <3>1. AsWritten(keys[i], m.headers[keys[i]]) \in S
      BY <1>1, <1>2
    <3>. QED
      BY <1>2, <3>1
  <2>. HIDE DEF Line
  <2>2. s = [i \in 1 .. n |-> Line(i)]
    BY <1>1
  <2>. HIDE DEF s
  <2>3. s \in Seq(Seq(S)) /\ Len(s) = n /\ DOMAIN s = 1 .. n
    BY <1>1, <2>1, <2>2
  <2>. QED
    BY <2>1, <2>2, <2>3
<1>. HIDE DEF s, Line, c
<1>5. /\ H \in Seq(S) /\ Len(H) = 2 * n
      /\ \A j \in 1 .. n : /\ H[2 * j - 1] = AsWritten(keys[j], m.headers[keys[j]])
                           /\ H[2 * j] = NL
  <2>1. H \in Seq(S) /\ InTwos(s, H, n)
    BY <1>4, FlattenTwos
  <2>. HIDE DEF H
  <2>. QED
    BY <1>4, <2>1, Zenon DEF InTwos
<1>6. <<NL>> \in Seq(S) /\ Len(<<NL>>) = 1 /\ <<NL>>[1] = NL
  BY <1>2, OneElement
<1>. HIDE DEF H
<1>7. t1 \in Seq(S) /\ Joined(S, m.command, <<NL>>, t1)
  BY <1>2, <1>6, JoinedText, Zenon
<1>. HIDE DEF t1
<1>8. t2 \in Seq(S) /\ Joined(S, t1, H, t2)
  BY <1>5, <1>7, JoinedText, Zenon
<1>. HIDE DEF t2
<1>9. t3 \in Seq(S) /\ Joined(S, t2, <<NL>>, t3)
  BY <1>6, <1>8, JoinedText, Zenon
<1>. HIDE DEF t3
<1>10. t4 \in Seq(S) /\ Joined(S, t3, b, t4)
  BY <1>3, <1>9, JoinedText, Zenon
<1>. HIDE DEF t4
<1>11. /\ Len(t1) = c + 1 /\ (\A i \in 1 .. c : t1[i] = m.command[i]) /\ t1[c + 1] = NL
  BY <1>2, <1>6, <1>7 DEF Joined, c
<1>12. /\ Len(t2) = c + 1 + 2 * n
       /\ \A i \in 1 .. c + 1 : t2[i] = t1[i]
       /\ \A i \in 1 .. 2 * n : t2[c + 1 + i] = H[i]
  BY <1>5, <1>8, <1>11 DEF Joined
<1>13. /\ Len(t3) = c + 2 * n + 2
       /\ (\A i \in 1 .. c + 1 + 2 * n : t3[i] = t2[i]) /\ t3[c + 2 * n + 2] = NL
  <2>1. c + 1 + 2 * n + 1 = c + 2 * n + 2 /\ 1 \in 1 .. 1
    BY <1>1, <1>2
  <2>2. t3[c + 1 + 2 * n + 1] = <<NL>>[1]
    BY <1>6, <1>9, <1>12, <2>1 DEF Joined
  <2>3. Len(t3) = c + 1 + 2 * n + 1
    BY <1>6, <1>9, <1>12 DEF Joined
  <2>4. \A i \in 1 .. c + 1 + 2 * n : t3[i] = t2[i]
    BY <1>9, <1>12 DEF Joined
  <2>. QED
    BY <1>6, <2>1, <2>2, <2>3, <2>4
<1>14. /\ Len(t4) = c + 2 * n + 2 + Len(b)
       /\ \A i \in 1 .. c + 2 * n + 2 : t4[i] = t3[i]
       /\ \A i \in 1 .. Len(b) : t4[c + 2 * n + 2 + i] = b[i]
  BY <1>10, <1>13 DEF Joined
<1>15. \A i \in 1 .. c + 1 : t4[i] = t1[i]
  BY <1>1, <1>2, <1>12, <1>13, <1>14
<1>16. (\A i \in 1 .. c : t4[i] = m.command[i]) /\ t4[c + 1] = NL /\ t4[c + 2 * n + 2] = NL
  <2>1. c + 1 \in 1 .. c + 1 /\ (\A i \in 1 .. c : i \in 1 .. c + 1)
        /\ c + 2 * n + 2 \in 1 .. c + 2 * n + 2
    BY <1>1, <1>2
  <2>. QED
    BY <1>11, <1>13, <1>14, <1>15, <2>1, Zenon
<1>17. ASSUME NEW j \in 1 .. n
       PROVE  t4[c + 2 * j] = AsWritten(keys[j], m.headers[keys[j]]) /\ t4[c + 1 + 2 * j] = NL
  <2>1. /\ 2 * j - 1 \in 1 .. 2 * n /\ 2 * j \in 1 .. 2 * n
        /\ c + 1 + (2 * j - 1) = c + 2 * j
        /\ c + 2 * j \in 1 .. c + 1 + 2 * n /\ c + 1 + 2 * j \in 1 .. c + 1 + 2 * n
        /\ c + 2 * j \in 1 .. c + 2 * n + 2 /\ c + 1 + 2 * j \in 1 .. c + 2 * n + 2
    BY <1>1, <1>2
  <2>2. t2[c + 2 * j] = H[2 * j - 1] /\ t2[c + 1 + 2 * j] = H[2 * j]
    BY <1>12, <2>1
  <2>3. t4[c + 2 * j] = t2[c + 2 * j] /\ t4[c + 1 + 2 * j] = t2[c + 1 + 2 * j]
    BY <1>13, <1>14, <2>1, Zenon
  <2>. QED
    BY <1>5, <2>2, <2>3, Zenon
<1>18. /\ \A j \in 1 .. n : /\ t4[c + 1 + 2 * j] = NL
                            /\ \E k \in D : t4[c + 2 * j] = AsWritten(k, m.headers[k])
       /\ \A k \in D : \E j \in 1 .. n : t4[c + 2 * j] = AsWritten(k, m.headers[k])
  <2>1. \A j \in 1 .. n : keys[j] \in D
    BY <1>1
  <2>. QED
    BY <1>1, <1>17, <2>1, Zenon
<1>19. Encoding(S, m, n, t4)
  BY <1>1, <1>2, <1>3, <1>10, <1>14, <1>16, <1>18, Zenon DEF Encoding, c, b, D
<1>20. Encode(m, keys) = t4 \o <<NUL>>
  BY Zenon DEF Encode, t4, t3, t2, t1, H, s, Line, b
<1>. QED
  BY <1>19, <1>20, Zenon DEF Encoded, S

(* A place in lines of two tokens is the first or the second of one.       *)
LEMMA EvenOrOdd ==
    ASSUME NEW n \in Nat, NEW i \in 1 .. 2 * n
    PROVE  \E j \in 1 .. n : i = 2 * j \/ i = 2 * j - 1
<1>1. i % 2 = 0 \/ i % 2 = 1
  OBVIOUS
<1>2. i = 2 * (i \div 2) + (i % 2) /\ i \div 2 \in Nat
  OBVIOUS
<1>3. CASE i % 2 = 0
  <2>1. i \div 2 \in 1 .. n /\ i = 2 * (i \div 2)
    BY <1>2, <1>3
  <2>. QED
    BY <2>1
<1>4. CASE i % 2 = 1
  <2>1. i \div 2 + 1 \in 1 .. n /\ i = 2 * (i \div 2 + 1) - 1
    BY <1>2, <1>4
  <2>. QED
    BY <2>1
<1>. QED
  BY <1>1, <1>3, <1>4

(* Before the empty line no two newlines follow each other, and the pairs  *)
(* are the headers.                                                        *)
LEMMA BeforeBlank ==
    ASSUME NEW W, NEW K, NEW V, NEW m \in MessagesOf(W, K, V), NEW n, NEW t,
           Encoding(Tokens(W, K, V), m, n, t), NEW q \in 1 .. Len(m.command) + 2 * n
    PROVE  /\ ~(t[q] = NL /\ t[q + 1] = NL) /\ t[q] # NUL
           /\ t[q].kind = "pair" => \E k \in DOMAIN m.headers : t[q] = AsWritten(k, m.headers[k])
<1>. DEFINE c == Len(m.command)
            D == DOMAIN m.headers
<1>1. /\ c \in Nat /\ n \in Nat
      /\ \A i \in 1 .. c : t[i] = m.command[i]
      /\ t[c + 1] = NL
      /\ \A j \in 1 .. n : /\ t[c + 1 + 2 * j] = NL
                           /\ \E k \in D : t[c + 2 * j] = AsWritten(k, m.headers[k])
  BY Zenon DEF Encoding
<1>2. \A i \in 1 .. Len(m.command) : m.command[i].kind = "word"
  BY CommandWords
<1>q. q \in 1 .. c + 2 * n
  OBVIOUS
<1>. HIDE DEF c, D
<1>3. CASE q \in 1 .. c
  <2>1. t[q].kind = "word"
    BY <1>1, <1>2, <1>3, Zenon DEF c
  <2>. QED
    BY <2>1, TokenKinds
<1>4. CASE q \notin 1 .. c
  <2>1. q - c \in 1 .. 2 * n /\ q \in Nat
    BY <1>1, <1>4, <1>q
  <2>2. PICK j \in 1 .. n : q - c = 2 * j \/ q - c = 2 * j - 1
    BY <1>1, <2>1, EvenOrOdd
  <2>3. CASE q - c = 2 * j
    <3>1. q = c + 2 * j
      BY <1>1, <2>1, <2>3
    <3>2. PICK k \in D : t[q] = AsWritten(k, m.headers[k])
      BY <1>1, <3>1
    <3>. QED
      BY <3>2, TokenKinds DEF D
  <2>4. CASE q - c = 2 * j - 1
    <3>1. q + 1 = c + 2 * j
      BY <1>1, <2>1, <2>4
    <3>2. PICK k \in D : t[q + 1] = AsWritten(k, m.headers[k])
      BY <1>1, <3>1
    <3>3. t[q] = NL
      <4>1. CASE j = 1
        BY <1>1, <2>1, <2>4, <4>1
      <4>2. CASE j # 1
        <5>1. j - 1 \in 1 .. n /\ q = c + 1 + 2 * (j - 1)
          BY <1>1, <2>1, <2>4, <4>2
        <5>. QED
          BY <1>1, <5>1
      <4>. QED
        BY <4>1, <4>2
    <3>. QED
      BY <3>2, <3>3, TokenKinds
  <2>. QED
    BY <2>2, <2>3, <2>4
<1>. QED
  BY <1>3, <1>4

(* u is t, or t behind a newline.                                          *)
Behind(S, o, t, u) ==
    /\ o \in {0, 1} /\ u \in Seq(S) /\ t \in Seq(S) /\ Len(u) = Len(t) + o
    /\ \A i \in 1 .. Len(t) : u[i + o] = t[i]
    /\ o = 1 => u[1] = NL

(* The first newline of either is the one of the command's line.           *)
FirstLineOf(m, o) == IF o = 0 THEN Len(m.command) + 1 ELSE 1

LEMMA CommandEnds ==
    ASSUME NEW W, NEW K, NEW V, NEW m \in MessagesOf(W, K, V), NEW n, NEW t,
           Encoding(Tokens(W, K, V), m, n, t), NEW o, NEW u,
           Behind(Tokens(W, K, V), o, t, u), NEW f, f = FirstLineOf(m, o)
    PROVE  /\ f \in 1 .. Len(u) /\ u[f] = NL /\ \A i \in 1 .. f - 1 : u[i] # NL
           /\ SubSeq(u, 1, f - 1) = IF o = 0 THEN m.command ELSE <<>>
<1>. DEFINE S == Tokens(W, K, V)
            c == Len(m.command)
            b == IF m.body = NoBody THEN <<>> ELSE m.body
<1>1. /\ c \in Nat /\ n \in Nat /\ Len(b) \in Nat /\ t \in Seq(S)
      /\ Len(t) = c + 2 * n + 2 + Len(b)
      /\ \A i \in 1 .. c : t[i] = m.command[i]
      /\ t[c + 1] = NL
  BY Zenon DEF Encoding
<1>2. /\ o \in {0, 1} /\ u \in Seq(S) /\ Len(u) = Len(t) + o
      /\ \A i \in 1 .. Len(t) : u[i + o] = t[i]
      /\ o = 1 => u[1] = NL
  BY Zenon DEF Behind
<1>3. m.command \in Seq(S) /\ \A i \in 1 .. c : m.command[i].kind = "word"
  <2>1. m.command \in Seq(S)
    BY MessageIs
  <2>2. \A i \in 1 .. c : m.command[i].kind = "word"
    BY CommandWords
  <2>. QED
    BY <2>1, <2>2
<1>. HIDE DEF S, c, b
<1>6. f \in Nat /\ f \in 1 .. Len(u) /\ f = IF o = 0 THEN c + 1 ELSE 1
  <2>1. f = IF o = 0 THEN c + 1 ELSE 1
    BY Zenon DEF FirstLineOf, c
  <2>2. Len(u) \in Nat /\ c + 1 =< Len(u) /\ 1 =< Len(u)
    BY <1>1, <1>2, SMTT(30), ZenonT(30)
  <2>3. f = c + 1 \/ f = 1
    BY <2>1, Zenon
  <2>. QED
    BY <1>1, <2>1, <2>2, <2>3
<1>7. u[f] = NL /\ \A i \in 1 .. f - 1 : u[i] # NL
  <2>1. CASE o = 0
    <3>1. f = c + 1 /\ c + 1 \in 1 .. Len(t) /\ c + 1 + o = c + 1
      BY <1>1, <1>6, <2>1
    <3>2. u[c + 1] = t[c + 1]
      BY <1>2, <3>1
    <3>3. ASSUME NEW i \in 1 .. f - 1
          PROVE  u[i] # NL
      <4>1. i \in 1 .. c /\ i \in 1 .. Len(t) /\ i + o = i
        BY <1>1, <2>1, <3>1, SMTT(30), ZenonT(30)
      <4>2. u[i] = m.command[i]
        BY <1>1, <1>2, <4>1
      <4>. QED
        BY <1>3, <4>1, <4>2, TokenKinds
    <3>. QED
      BY <1>1, <3>1, <3>2, <3>3
  <2>2. CASE o = 1
    BY <1>2, <1>6, <2>2
  <2>. QED
    BY <1>2, <2>1, <2>2
<1>12. SubSeq(u, 1, f - 1) = IF o = 0 THEN m.command ELSE <<>>
  <2>1. CASE o = 0
    <3>. DEFINE v == SubSeq(u, 1, f - 1)
    <3>1. /\ f - 1 = c /\ f - 1 \in Nat /\ 1 \in Nat /\ f - 1 =< Len(u) /\ 1 =< f - 1 + 1
          /\ f - 1 - 1 + 1 = c /\ \A i \in 1 .. c : 1 + i - 1 = i
      BY <1>1, <1>6, <2>1
    <3>2. v \in Seq(S) /\ Len(v) = c /\ \A i \in 1 .. c : v[i] = u[i]
      <4>1. /\ v \in Seq(S) /\ Len(v) = f - 1 - 1 + 1
            /\ \A i \in 1 .. f - 1 - 1 + 1 : v[i] = u[1 + i - 1]
        BY <1>2, <3>1, Part
      <4>. HIDE DEF v
      <4>. QED
        BY <3>1, <4>1
    <3>. HIDE DEF v
    <3>3. \A i \in 1 .. c : i \in 1 .. Len(t) /\ i + o = i
      BY <1>1, <2>1
    <3>4. \A i \in 1 .. Len(v) : v[i] = m.command[i]
      BY <1>1, <1>2, <3>2, <3>3
    <3>5. v = m.command
      BY <1>3, <3>2, <3>4, SeqEqual DEF c
    <3>. QED
      BY <2>1, <3>5 DEF v
  <2>2. CASE o = 1
    <3>1. f - 1 = 0
      BY <1>6, <2>2
    <3>. QED
      BY <1>2, <2>2, <3>1
  <2>. QED
    BY <1>2, <2>1, <2>2
<1>. QED
  BY <1>6, <1>7, <1>12

(* With headers, all of it is read back, from behind a newline too.        *)
LEMMA ReadEncoding ==
    ASSUME NEW W, NEW K, NEW V, NEW m \in MessagesOf(W, K, V), NEW n, NEW t,
           Encoding(Tokens(W, K, V), m, n, t), NEW o, NEW u,
           Behind(Tokens(W, K, V), o, t, u), DOMAIN m.headers # {}
    PROVE  ParseFrame(u) = [kind    |-> "message",
                            command |-> IF o = 0 THEN m.command ELSE <<>>,
                            headers |-> RereadHeaders(m.headers),
                            body    |-> IF m.body = NoBody THEN <<>> ELSE m.body]
<1>. DEFINE S == Tokens(W, K, V)
            c == Len(m.command)
            b == IF m.body = NoBody THEN <<>> ELSE m.body
            D == DOMAIN m.headers
            f == FirstLineOf(m, o)
            e == c + 2 * n + 1 + o
            head == SubSeq(u, f + 1, e - 1)
<1>1. /\ c \in Nat /\ n \in Nat /\ Len(b) \in Nat /\ t \in Seq(S)
      /\ Len(t) = c + 2 * n + 2 + Len(b)
      /\ \A i \in 1 .. c : t[i] = m.command[i]
      /\ t[c + 1] = NL
      /\ \A j \in 1 .. n : t[c + 1 + 2 * j] = NL
      /\ \A k \in D : \E j \in 1 .. n : t[c + 2 * j] = AsWritten(k, m.headers[k])
      /\ t[c + 2 * n + 2] = NL
      /\ \A i \in 1 .. Len(b) : t[c + 2 * n + 2 + i] = b[i]
  BY Zenon DEF Encoding
<1>2. /\ o \in {0, 1} /\ u \in Seq(S) /\ Len(u) = Len(t) + o
      /\ \A i \in 1 .. Len(t) : u[i + o] = t[i]
      /\ o = 1 => u[1] = NL
  BY Zenon DEF Behind
<1>3. /\ m.command \in Seq(S) /\ b \in Seq(S)
      /\ \A i \in 1 .. c : m.command[i].kind = "word"
      /\ \A k, l \in D : NameOf(k) = NameOf(l) => k = l
  <2>1. m.body = NoBody \/ m.body \in Seq(S \ {NUL})
    BY MessageIs
  <2>2. b \in Seq(S)
    <3>. HIDE DEF S
    <3>. QED
      BY <2>1
  <2>3. m.command \in Seq(S)
    BY MessageIs
  <2>4. \A i \in 1 .. c : m.command[i].kind = "word"
    BY CommandWords
  <2>5. \A k, l \in D : NameOf(k) = NameOf(l) => k = l
    BY NamesDiffer
  <2>. QED
    BY <2>2, <2>3, <2>4, <2>5
<1>4. \A q \in 1 .. c + 2 * n :
         /\ ~(t[q] = NL /\ t[q + 1] = NL)
         /\ t[q].kind = "pair" => \E k \in D : t[q] = AsWritten(k, m.headers[k])
  BY BeforeBlank
<1>5. n # 0
  <2>1. PICK k : k \in D
    OBVIOUS
  <2>2. \E j \in 1 .. n : TRUE
    BY <1>1, <2>1
  <2>. QED
    BY <1>1, <2>2
<1>. HIDE DEF S, c, b, D
<1>6. /\ f \in Nat /\ e \in Nat /\ f \in 1 .. Len(u) /\ f < e /\ e + 1 =< Len(u) /\ Len(u) \in Nat
      /\ e + 2 = c + 2 * n + 3 + o
      /\ f = IF o = 0 THEN c + 1 ELSE 1
      /\ e = c + 2 * n + 1 + o
  <2>1. f = IF o = 0 THEN c + 1 ELSE 1
    BY Zenon DEF FirstLineOf, c
  <2>. HIDE DEF f
  <2>. QED
    BY <1>1, <1>2, <1>5, <2>1
<1>. HIDE DEF f, e
<1>7. u[f] = NL /\ \A i \in 1 .. f - 1 : u[i] # NL
  BY CommandEnds DEF f
<1>8. u[e] = NL /\ u[e + 1] = NL
  <2>1. /\ c + 1 + 2 * n \in 1 .. Len(t) /\ c + 2 * n + 2 \in 1 .. Len(t) /\ n \in 1 .. n
        /\ e = c + 1 + 2 * n + o /\ e + 1 = c + 2 * n + 2 + o
    BY <1>1, <1>2, <1>5, <1>6
  <2>2. u[e] = t[c + 1 + 2 * n] /\ u[e + 1] = t[c + 2 * n + 2]
    BY <1>2, <2>1
  <2>. QED
    BY <1>1, <2>1, <2>2
<1>9. ASSUME NEW i \in f + 1 .. e - 1
      PROVE  /\ i - o \in 1 .. c + 2 * n /\ i - o + 1 \in 1 .. Len(t)
             /\ u[i] = t[i - o] /\ u[i + 1] = t[i - o + 1]
  <2>1. /\ i - o \in 1 .. c + 2 * n /\ i - o \in 1 .. Len(t) /\ i - o + 1 \in 1 .. Len(t)
        /\ (i - o) + o = i /\ (i - o + 1) + o = i + 1
    BY <1>1, <1>2, <1>6
  <2>2. u[(i - o) + o] = t[i - o] /\ u[(i - o + 1) + o] = t[i - o + 1]
    BY <1>2, <2>1
  <2>. QED
    BY <2>1, <2>2
<1>10. \A i \in f + 1 .. e - 1 : ~(u[i] = NL /\ u[i + 1] = NL)
  BY <1>4, <1>9
<1>11. ParseFrame(u) = [kind    |-> "message",
                        command |-> SubSeq(u, 1, f - 1),
                        headers |-> Headers(head),
                        body    |-> SubSeq(u, e + 2, Len(u))]
  <2>1. FirstLineAndBlank(u, f, e)
    BY <1>6, <1>7, <1>8, <1>10 DEF FirstLineAndBlank
  <2>. QED
    BY <1>2, <2>1, ParseHeaders, Zenon
<1>12. SubSeq(u, 1, f - 1) = IF o = 0 THEN m.command ELSE <<>>
  BY CommandEnds DEF f
<1>13. SubSeq(u, e + 2, Len(u)) = b
  <2>. DEFINE v == SubSeq(u, e + 2, Len(u))
  <2>1. Len(u) - (e + 2) + 1 = Len(b) /\ e + 2 =< Len(u) + 1 /\ e + 2 >= 1
    BY <1>1, <1>2, <1>6
  <2>2. v \in Seq(S) /\ Len(v) = Len(b) /\ \A i \in 1 .. Len(b) : v[i] = u[e + 1 + i]
    <3>1. e + 2 \in Nat /\ 1 =< e + 2 /\ Len(u) =< Len(u)
      BY <1>6
    <3>2. /\ v \in Seq(S) /\ Len(v) = Len(u) - (e + 2) + 1
          /\ \A i \in 1 .. Len(u) - (e + 2) + 1 : v[i] = u[e + 2 + i - 1]
      <4>. DEFINE a == e + 2
                  z == Len(u)
      <4>1. a \in Nat /\ z \in Nat /\ 1 =< a /\ a =< z + 1 /\ z =< Len(u)
        BY <1>6, <2>1, <3>1
      <4>2. u \in Seq(S)
        BY <1>2
      <4>. HIDE DEF a, z
      <4>3. /\ SubSeq(u, a, z) \in Seq(S) /\ Len(SubSeq(u, a, z)) = z - a + 1
            /\ \A i \in 1 .. z - a + 1 : SubSeq(u, a, z)[i] = u[a + i - 1]
        BY <4>1, <4>2, Part
      <4>. QED
        BY <4>3 DEF a, z
    <3>3. \A i \in 1 .. Len(b) : e + 2 + i - 1 = e + 1 + i
      BY <1>6
    <3>. HIDE DEF v
    <3>. QED
      BY <2>1, <3>2, <3>3
  <2>. HIDE DEF v
  <2>3. ASSUME NEW i \in 1 .. Len(b)
        PROVE  v[i] = b[i]
    <3>1. c + 2 * n + 2 + i \in 1 .. Len(t) /\ e + 1 + i = c + 2 * n + 2 + i + o
      BY <1>1, <1>2, <1>6
    <3>2. u[e + 1 + i] = t[c + 2 * n + 2 + i]
      BY <1>2, <3>1
    <3>. QED
      BY <1>1, <2>2, <3>2
  <2>4. v = b
    BY <1>3, <2>2, <2>3, SeqEqual
  <2>. QED
    BY <2>4 DEF v
<1>14. Headers(head) = RereadHeaders(m.headers)
  <2>. DEFINE p == e - 1 - f
  <2>1. /\ p \in Nat /\ f + 1 \in Nat /\ e - 1 \in Nat /\ 1 =< f + 1 /\ e - 1 =< Len(u)
        /\ f + 1 =< e - 1 + 1 /\ e - 1 - (f + 1) + 1 = p /\ \A i \in 1 .. p : f + 1 + i - 1 = f + i
    <3>1. f \in Nat /\ e \in Nat /\ Len(u) \in Nat /\ f < e /\ e < Len(u)
      BY <1>6
    <3>. HIDE DEF head
    <3>2. p \in Nat /\ e - 1 - (f + 1) + 1 = p
      BY <3>1
    <3>3. f + 1 \in Nat /\ e - 1 \in Nat /\ 1 =< f + 1 /\ e - 1 =< Len(u) /\ f + 1 =< e - 1 + 1
      BY <3>1
    <3>. HIDE DEF p
    <3>4. \A i \in 1 .. p : f + 1 + i - 1 = f + i
      BY <3>1, <3>2
    <3>. QED
      BY <3>2, <3>3, <3>4
  <2>. HIDE DEF p
  <2>2. DOMAIN head = 1 .. p /\ \A i \in 1 .. p : head[i] = u[f + i]
    <3>1. /\ head \in Seq(S) /\ Len(head) = e - 1 - (f + 1) + 1
          /\ \A i \in 1 .. e - 1 - (f + 1) + 1 : head[i] = u[f + 1 + i - 1]
      BY <1>2, <2>1, Part, SMTT(20)
    <3>. HIDE DEF head
    <3>. QED
      BY <2>1, <3>1
  <2>. HIDE DEF head
  <2>3. \A i \in 1 .. p : f + i \in f + 1 .. e - 1
    BY <1>6 DEF p
  <2>4. \A i \in 1 .. p : head[i].kind = "pair" =>
           \E k \in D : head[i] = AsWritten(k, m.headers[k])
    BY <1>4, <1>9, <2>2, <2>3
  <2>5. ASSUME NEW k \in D
        PROVE  \E i \in 1 .. p : head[i] = AsWritten(k, m.headers[k])
    <3>1. PICK j \in 1 .. n : t[c + 2 * j] = AsWritten(k, m.headers[k])
      BY <1>1
    <3>. DEFINE i == c + 2 * j + o - f
    <3>2. i \in 1 .. p /\ f + i = c + 2 * j + o /\ c + 2 * j \in 1 .. Len(t)
      BY <1>1, <1>2, <1>6 DEF p
    <3>. HIDE DEF i
    <3>3. u[f + i] = t[c + 2 * j]
      BY <1>2, <3>2
    <3>. QED
      BY <2>2, <3>1, <3>2, <3>3
  <2>6. HeadersWritten(head, p, m.headers)
    BY <1>3, <2>1, <2>2, <2>4, <2>5, Zenon DEF HeadersWritten, D
  <2>. QED
    BY <2>6, HeadersAre, Zenon
<1>. QED
  BY <1>11, <1>12, <1>13, <1>14, Zenon DEF b

(* The message that must be read back, as a record.                        *)
LEMMA RereadIs ==
    ASSUME NEW c, NEW h, NEW b, NEW m,
           m = [kind |-> "message", command |-> c, headers |-> h, body |-> b]
    PROVE  Reread(m) = [kind    |-> "message",
                        command |-> c,
                        headers |-> RereadHeaders(h),
                        body    |-> IF b = NoBody THEN <<>> ELSE b]
<1>. DEFINE Header(k) == AsWritten(k, m.headers[k])
            keys == DOMAIN m.headers
            H == [name \in {Header(k).key : k \in keys} |->
                    Header(CHOOSE k \in keys : Header(k).key = name).value]
<1>1. m.headers = h
  OBVIOUS
<1>2. H = RereadHeaders(h)
  <2>1. H = RereadHeaders(m.headers)
    BY Zenon DEF RereadHeaders, Names, Named
  <2>. QED
    BY <1>1, <2>1, Zenon
<1>3. Reread(m) = [m EXCEPT !.headers = H, !.body = IF @ = NoBody THEN <<>> ELSE @]
  BY Zenon DEF Reread
<1>. HIDE DEF H
<1>. QED
  BY <1>2, <1>3

(* An encoding is read back; behind a newline, without its command.        *)
LEMMA EncodingReadAs ==
    ASSUME NEW W, NEW K, NEW V, NEW m \in MessagesOf(W, K, V), NEW n, NEW t,
           Encoding(Tokens(W, K, V), m, n, t), NEW o, NEW u,
           Behind(Tokens(W, K, V), o, t, u)
    PROVE  /\ ParseFrame(u) # Malformed
           /\ ReadAs(IF o = 0 THEN m ELSE [m EXCEPT !.command = <<>>], ParseFrame(u))
<1>. DEFINE c == IF o = 0 THEN m.command ELSE <<>>
            r == IF o = 0 THEN m ELSE [m EXCEPT !.command = <<>>]
            f == FirstLineOf(m, o)
<1>1. r = [kind |-> "message", command |-> c, headers |-> m.headers, body |-> m.body]
  <2>1. m = [kind |-> "message", command |-> m.command, headers |-> m.headers, body |-> m.body]
    BY RecordOf
  <2>. QED
    BY <2>1
<1>2. ParseFrame(u) # Malformed /\ ParseFrame(u).command = c
  <2>1. /\ f \in 1 .. Len(u) /\ u[f] = NL /\ \A i \in 1 .. f - 1 : u[i] # NL
        /\ SubSeq(u, 1, f - 1) = c
    BY CommandEnds
  <2>2. u \in Seq(Tokens(W, K, V))
    BY DEF Behind
  <2>. HIDE DEF f, c
  <2>. QED
    BY <2>1, <2>2, ParseCommand
<1>3. r.command = c /\ r.headers = m.headers
  BY <1>1
<1>4. DOMAIN m.headers # {} => ParseFrame(u) = Reread(r)
  <2>. SUFFICES ASSUME DOMAIN m.headers # {}
                PROVE  ParseFrame(u) = Reread(r)
    OBVIOUS
  <2>1. ParseFrame(u) = [kind    |-> "message",
                         command |-> c,
                         headers |-> RereadHeaders(m.headers),
                         body    |-> IF m.body = NoBody THEN <<>> ELSE m.body]
    BY ReadEncoding
  <2>2. Reread(r) = [kind    |-> "message",
                     command |-> c,
                     headers |-> RereadHeaders(m.headers),
                     body    |-> IF m.body = NoBody THEN <<>> ELSE m.body]
    <3>. HIDE DEF r, c
    <3>. QED
      BY <1>1, RereadIs
  <2>. QED
    BY <2>1, <2>2, Zenon
<1>. HIDE DEF r, c
<1>5. ReadAs(r, ParseFrame(u))
  BY <1>2, <1>3, <1>4, Zenon DEF ReadAs
<1>. QED
  BY <1>2, <1>5 DEF r

(* No null stands before the one that ends the frame.                      *)
LEMMA NoNulls ==
    ASSUME NEW W, NEW K, NEW V, NEW m \in MessagesOf(W, K, V), NEW n, NEW t,
           Encoding(Tokens(W, K, V), m, n, t), NEW i \in 1 .. Len(t)
    PROVE  t[i] # NUL
<1>. DEFINE c == Len(m.command)
            b == IF m.body = NoBody THEN <<>> ELSE m.body
            S == Tokens(W, K, V) \ {NUL}
<1>1. /\ c \in Nat /\ n \in Nat /\ Len(b) \in Nat
      /\ Len(t) = c + 2 * n + 2 + Len(b)
      /\ t[c + 2 * n + 2] = NL
      /\ \A j \in 1 .. Len(b) : t[c + 2 * n + 2 + j] = b[j]
  BY Zenon DEF Encoding
<1>2. b \in Seq(S)
  <2>1. m.body = NoBody \/ m.body \in Seq(S)
    BY MessageIs
  <2>. HIDE DEF S
  <2>. QED
    BY <2>1
<1>3. CASE i \in 1 .. c + 2 * n
  BY <1>3, BeforeBlank
<1>4. i \in Nat
  OBVIOUS
<1>. HIDE DEF b, c
<1>6. CASE c + 2 * n + 2 < i
  <2>. DEFINE j == i - (c + 2 * n + 2)
  <2>1. j \in 1 .. Len(b) /\ i = c + 2 * n + 2 + j
    BY <1>1, <1>4, <1>6
  <2>. HIDE DEF j
  <2>2. t[i] = b[j] /\ b[j] \in S
    BY <1>1, <1>2, <2>1
  <2>. QED
    BY <2>2
<1>7. CASE i = c + 2 * n + 2
  BY <1>1, <1>7, TokenKinds
<1>8. CASE i = c + 2 * n + 1
  <2>1. CASE n = 0
    <3>1. t[c + 1] = NL /\ c + 2 * n + 1 = c + 1
      BY <1>1, <2>1 DEF Encoding, c
    <3>. QED
      BY <1>8, <3>1, TokenKinds
  <2>2. CASE n # 0
    <3>1. n \in 1 .. n /\ c + 2 * n + 1 = c + 1 + 2 * n
      BY <1>1, <2>2
    <3>2. t[c + 1 + 2 * n] = NL
      BY <3>1, Zenon DEF Encoding, c
    <3>. QED
      BY <1>8, <3>1, <3>2, TokenKinds
  <2>. QED
    BY <2>1, <2>2
<1>9. i \in 1 .. c + 2 * n \/ i = c + 2 * n + 1 \/ i = c + 2 * n + 2 \/ c + 2 * n + 2 < i
  BY <1>1, <1>4
<1>. QED
  BY <1>3, <1>6, <1>7, <1>8, <1>9 DEF c

-----------------------------------------------------------------------------
(* Two messages, and nothing, a newline, or a frame without a newline      *)
(* between them.                                                           *)
ExchangesOf(W, K, V) ==
    [first   : MessagesOf(W, K, V),
     between : {<<>>, <<NL>>} \cup {w \o <<NUL>> : w \in Seq(Tokens(W, K, V) \ {NL, NUL})},
     second  : MessagesOf(W, K, V)]

(* What is written: a text, a null, what is between, a text and a null.    *)
LaidOut(S, x, t, b, u) ==
    /\ x \in Seq(S) /\ Len(t) \in Nat /\ Len(b) \in Nat /\ Len(u) \in Nat
    /\ Len(x) = Len(t) + 1 + Len(b) + Len(u) + 1
    /\ \A i \in 1 .. Len(t) : x[i] = t[i]
    /\ x[Len(t) + 1] = NUL
    /\ \A i \in 1 .. Len(b) : x[Len(t) + 1 + i] = b[i]
    /\ \A i \in 1 .. Len(u) : x[Len(t) + 1 + Len(b) + i] = u[i]
    /\ x[Len(x)] = NUL

(* That is where they stand.                                               *)
LEMMA LaysOut ==
    ASSUME NEW S, NUL \in S, NEW t \in Seq(S), NEW b \in Seq(S), NEW u \in Seq(S), NEW x,
           x = ((t \o <<NUL>>) \o b) \o (u \o <<NUL>>)
    PROVE  LaidOut(S, x, t, b, u)
<1>. DEFINE t1 == t \o <<NUL>>
            u1 == u \o <<NUL>>
            g == t1 \o b
<1>1. <<NUL>> \in Seq(S) /\ Len(<<NUL>>) = 1 /\ <<NUL>>[1] = NUL
  BY OneElement
<1>2. t1 \in Seq(S) /\ Joined(S, t, <<NUL>>, t1)
  BY <1>1, JoinedText, Zenon
<1>3. u1 \in Seq(S) /\ Joined(S, u, <<NUL>>, u1)
  BY <1>1, JoinedText, Zenon
<1>. HIDE DEF t1, u1
<1>4. g \in Seq(S) /\ Joined(S, t1, b, g)
  BY <1>2, JoinedText, Zenon
<1>. HIDE DEF g
<1>5. x = g \o u1
  BY Zenon DEF g, t1, u1
<1>6. x \in Seq(S) /\ Joined(S, g, u1, x)
  <2>1. g \o u1 \in Seq(S) /\ Joined(S, g, u1, g \o u1)
    BY <1>3, <1>4, JoinedText, Zenon
  <2>. QED
    BY <1>5, <2>1, Zenon
<1>7. /\ Len(t) \in Nat /\ Len(t1) = Len(t) + 1 /\ t1[Len(t) + 1] = NUL
      /\ \A i \in 1 .. Len(t) : t1[i] = t[i]
  BY <1>1, <1>2 DEF Joined
<1>8. /\ Len(u) \in Nat /\ Len(u1) = Len(u) + 1 /\ u1[Len(u) + 1] = NUL
      /\ \A i \in 1 .. Len(u) : u1[i] = u[i]
  BY <1>1, <1>3 DEF Joined
<1>9. /\ Len(b) \in Nat /\ Len(g) = Len(t) + 1 + Len(b)
      /\ \A i \in 1 .. Len(t) + 1 : g[i] = t1[i]
      /\ \A i \in 1 .. Len(b) : g[Len(t) + 1 + i] = b[i]
  BY <1>4, <1>7 DEF Joined
<1>10. /\ Len(x) = Len(t) + 1 + Len(b) + Len(u) + 1
       /\ \A i \in 1 .. Len(t) + 1 + Len(b) : x[i] = g[i]
       /\ \A i \in 1 .. Len(u) + 1 : x[Len(t) + 1 + Len(b) + i] = u1[i]
  BY <1>6, <1>8, <1>9, SMTT(20) DEF Joined
<1>11. ASSUME NEW i \in 1 .. Len(t)
       PROVE  x[i] = t[i]
  <2>1. i \in 1 .. Len(t) + 1 /\ i \in 1 .. Len(t) + 1 + Len(b)
    BY <1>7, <1>9
  <2>. QED
    BY <1>7, <1>9, <1>10, <2>1, Zenon
<1>12. x[Len(t) + 1] = NUL
  <2>1. Len(t) + 1 \in 1 .. Len(t) + 1 /\ Len(t) + 1 \in 1 .. Len(t) + 1 + Len(b)
    BY <1>7, <1>9
  <2>. QED
    BY <1>7, <1>9, <1>10, <2>1, Zenon
<1>13. ASSUME NEW i \in 1 .. Len(b)
       PROVE  x[Len(t) + 1 + i] = b[i]
  <2>1. Len(t) + 1 + i \in 1 .. Len(t) + 1 + Len(b)
    BY <1>7, <1>9
  <2>. QED
    BY <1>9, <1>10, <2>1, Zenon
<1>14. ASSUME NEW i \in 1 .. Len(u)
       PROVE  x[Len(t) + 1 + Len(b) + i] = u[i]
  <2>1. i \in 1 .. Len(u) + 1
    BY <1>8
  <2>. QED
    BY <1>8, <1>10, <2>1, Zenon
<1>15. x[Len(x)] = NUL
  <2>1. Len(u) + 1 \in 1 .. Len(u) + 1 /\ Len(x) = Len(t) + 1 + Len(b) + (Len(u) + 1)
    BY <1>7, <1>8, <1>9, <1>10
  <2>. QED
    BY <1>8, <1>10, <2>1, Zenon
<1>. QED
  BY <1>6, <1>7, <1>8, <1>9, <1>10, <1>11, <1>12, <1>13, <1>14, <1>15, Zenon DEF LaidOut

(* The first two nulls of what is written, and what the parser must make   *)
(* of the frames that end there.                                           *)
Nulls(S, x, p, q) ==
    /\ x \in Seq(S) /\ p \in Nat /\ q \in Nat
    /\ 1 =< p /\ p < q /\ q =< Len(x) /\ x[p] = NUL /\ x[q] = NUL
    /\ \A i \in 1 .. q - 1 : x[i] = NUL => i = p

FirstRead(x, p)     == ParseFrame(SubSeq(x, 1, p - 1))
SecondRead(x, p, q) == ParseFrame(SubSeq(x, p + 1, q - 1))

SecondAs(b, m)      == IF b = <<NL>> THEN [m EXCEPT !.command = <<>>] ELSE m

Means(x, p, q, w) ==
    /\ FirstRead(x, p) # Malformed /\ ReadAs(w.first, FirstRead(x, p))
    /\ SecondRead(x, p, q) = Malformed => w.between \notin {<<>>, <<NL>>}
    /\ SecondRead(x, p, q) # Malformed =>
          /\ q = Len(x) /\ w.between \in {<<>>, <<NL>>}
          /\ ReadAs(SecondAs(w.between, w.second), SecondRead(x, p, q))

(* The first frame is the first message.                                   *)
LEMMA FirstIsRead ==
    ASSUME NEW W, NEW K, NEW V, NEW m \in MessagesOf(W, K, V), NEW n, NEW t,
           Encoding(Tokens(W, K, V), m, n, t), NEW b, NEW u,
           NEW x, LaidOut(Tokens(W, K, V), x, t, b, u), NEW p, p = Len(t) + 1
    PROVE  FirstRead(x, p) # Malformed /\ ReadAs(m, FirstRead(x, p))
<1>. DEFINE S == Tokens(W, K, V)
            v == SubSeq(x, 1, p - 1)
<1>1. /\ x \in Seq(S) /\ Len(t) \in Nat /\ Len(t) =< Len(x)
      /\ \A i \in 1 .. Len(t) : x[i] = t[i]
  BY DEF LaidOut
<1>2. t \in Seq(S)
  BY Zenon DEF Encoding
<1>. HIDE DEF S
<1>3. v = t
  <2>1. /\ p - 1 = Len(t) /\ 1 \in Nat /\ 1 =< Len(t) + 1 /\ Len(t) - 1 + 1 = Len(t)
        /\ \A i \in 1 .. Len(t) : 1 + i - 1 = i
    BY <1>1
  <2>2. /\ v \in Seq(S) /\ Len(v) = Len(t) - 1 + 1
        /\ \A i \in 1 .. Len(t) - 1 + 1 : v[i] = x[1 + i - 1]
    BY <1>1, <2>1, Part
  <2>. HIDE DEF v
  <2>3. Len(v) = Len(t) /\ \A i \in 1 .. Len(t) : v[i] = t[i]
    BY <1>1, <2>1, <2>2
  <2>. QED
    BY <1>2, <2>2, <2>3, SeqEqual
<1>4. Behind(S, 0, t, t)
  <2>1. \A i \in 1 .. Len(t) : i + 0 = i
    BY <1>1
  <2>2. Len(t) = Len(t) + 0
    BY <1>1
  <2>. QED
    BY <1>2, <2>1, <2>2 DEF Behind
<1>. HIDE DEF v
<1>5. ParseFrame(t) # Malformed /\ ReadAs(m, ParseFrame(t))
  BY <1>4, EncodingReadAs DEF S
<1>. QED
  BY <1>3, <1>5, Zenon DEF FirstRead, v

(* After nothing or a newline, the second is the second message.           *)
LEMMA SecondIsRead ==
    ASSUME NEW W, NEW K, NEW V, NEW m \in MessagesOf(W, K, V), NEW n, NEW u,
           Encoding(Tokens(W, K, V), m, n, u), NEW t, NEW b \in {<<>>, <<NL>>},
           NEW x, LaidOut(Tokens(W, K, V), x, t, b, u),
           NEW p, p = Len(t) + 1, NEW q, q = Len(x)
    PROVE  /\ SecondRead(x, p, q) # Malformed
           /\ ReadAs(SecondAs(b, m), SecondRead(x, p, q))
<1>. DEFINE S == Tokens(W, K, V)
            v == SubSeq(x, p + 1, q - 1)
            o == Len(b)
<1>1. /\ x \in Seq(S) /\ Len(t) \in Nat /\ o \in Nat /\ Len(u) \in Nat
      /\ Len(x) = Len(t) + 1 + o + Len(u) + 1
      /\ \A i \in 1 .. o : x[Len(t) + 1 + i] = b[i]
      /\ \A i \in 1 .. Len(u) : x[Len(t) + 1 + o + i] = u[i]
  BY Zenon DEF LaidOut
<1>2. u \in Seq(S)
  BY Zenon DEF Encoding
<1>3. o \in {0, 1} /\ (o = 0 <=> b # <<NL>>) /\ (o = 1 => b[1] = NL)
  OBVIOUS
<1>. HIDE DEF S, o
<1>4. v \in Seq(S) /\ Len(v) = o + Len(u) /\ \A i \in 1 .. o + Len(u) : v[i] = x[Len(t) + 1 + i]
  <2>. DEFINE a == p + 1
              z == q - 1
  <2>1. /\ a \in Nat /\ z \in Nat /\ 1 =< a /\ a =< z + 1 /\ z =< Len(x)
        /\ z - a + 1 = o + Len(u) /\ \A i \in 1 .. o + Len(u) : a + i - 1 = Len(t) + 1 + i
    BY <1>1
  <2>. HIDE DEF a, z
  <2>2. /\ SubSeq(x, a, z) \in Seq(S) /\ Len(SubSeq(x, a, z)) = z - a + 1
        /\ \A i \in 1 .. z - a + 1 : SubSeq(x, a, z)[i] = x[a + i - 1]
    BY <1>1, <2>1, Part, SMTT(30), ZenonT(30)
  <2>3. v = SubSeq(x, a, z)
    BY DEF a, z
  <2>. HIDE DEF v
  <2>. QED
    BY <2>1, <2>2, <2>3
<1>. HIDE DEF v
<1>5. \A i \in 1 .. Len(u) : v[i + o] = u[i]
  <2>. TAKE i \in 1 .. Len(u)
  <2>1. i + o \in 1 .. o + Len(u) /\ Len(t) + 1 + (i + o) = Len(t) + 1 + o + i
    BY <1>1
  <2>2. v[i + o] = x[Len(t) + 1 + (i + o)]
    BY <1>4, <2>1, Zenon
  <2>. QED
    BY <1>1, <2>1, <2>2
<1>6. o = 1 => v[1] = NL
  <2>. SUFFICES ASSUME o = 1
                PROVE  v[1] = NL
    OBVIOUS
  <2>1. 1 \in 1 .. o /\ 1 \in 1 .. o + Len(u)
    BY <1>1
  <2>. QED
    BY <1>1, <1>3, <1>4, <2>1, Zenon
<1>7. Behind(S, o, u, v)
  <2>1. Len(v) = Len(u) + o
    BY <1>1, <1>4
  <2>. QED
    BY <1>2, <1>3, <1>4, <1>5, <1>6, <2>1, Zenon DEF Behind
<1>8. /\ ParseFrame(v) # Malformed
      /\ ReadAs(IF o = 0 THEN m ELSE [m EXCEPT !.command = <<>>], ParseFrame(v))
  BY <1>7, EncodingReadAs DEF S
<1>. QED
  BY <1>3, <1>8, Zenon DEF SecondRead, SecondAs, v

LEMMA EncodingOf ==
    ASSUME NEW W, NEW K, NEW V, NEW m \in MessagesOf(W, K, V), NEW one \in EncodingsOf(m)
    PROVE  Encoded(Tokens(W, K, V), m, one)
<1>1. PICK keys \in SetToSeqs(DOMAIN m.headers) : one = Encode(m, keys)
  BY Zenon DEF EncodingsOf
<1>2. Encoded(Tokens(W, K, V), m, Encode(m, keys))
  BY EncodeIs
<1>. QED
  BY <1>1, <1>2, Zenon

(* Every exchange is written as two such frames.                           *)
LEMMA SentMeans ==
    ASSUME NEW W, NEW K, NEW V, NEW w \in ExchangesOf(W, K, V),
           NEW one \in EncodingsOf(w.first), NEW two \in EncodingsOf(w.second),
           NEW x, x = one \o w.between \o two
    PROVE  \E p, q : Nulls(Tokens(W, K, V), x, p, q) /\ Means(x, p, q, w)
<1>. DEFINE S == Tokens(W, K, V)
            N == {v \o <<NUL>> : v \in Seq(S \ {NL, NUL})}
            b == w.between
<1>1. /\ w.first \in MessagesOf(W, K, V) /\ w.second \in MessagesOf(W, K, V)
      /\ b \in {<<>>, <<NL>>} \cup N
  <2>. DEFINE M == MessagesOf(W, K, V)
              B == {<<>>, <<NL>>} \cup N
  <2>1. w \in [first : M, between : B, second : M]
    BY Zenon DEF ExchangesOf
  <2>. HIDE DEF M, B
  <2>2. w.first \in M /\ w.second \in M /\ w.between \in B
    BY <2>1
  <2>. QED
    BY <2>2 DEF M, B
<1>2. PICK n, t : Encoding(S, w.first, n, t) /\ one = t \o <<NUL>>
  <2>1. Encoded(S, w.first, one)
    BY <1>1, EncodingOf
  <2>. QED
    BY <2>1, Zenon DEF Encoded
<1>3. PICK k, u : Encoding(S, w.second, k, u) /\ two = u \o <<NUL>>
  <2>1. Encoded(S, w.second, two)
    BY <1>1, EncodingOf
  <2>. QED
    BY <2>1, Zenon DEF Encoded
<1>4. NL \in S /\ NUL \in S
  BY InTokens
<1>5. t \in Seq(S) /\ u \in Seq(S)
  BY <1>2, <1>3, Zenon DEF Encoding
<1>6. /\ \A i \in 1 .. Len(t) : t[i] # NUL
      /\ \A i \in 1 .. Len(u) : u[i] # NUL
  BY <1>1, <1>2, <1>3, NoNulls
<1>7. b \in Seq(S)
  <2>1. CASE b \in N
    <3>1. PICK v \in Seq(S \ {NL, NUL}) : b = v \o <<NUL>>
      BY <2>1
    <3>. HIDE DEF S
    <3>. QED
      BY <1>4, <3>1
  <2>2. CASE b \in {<<>>, <<NL>>}
    <3>. HIDE DEF S, b
    <3>1. <<>> \in Seq(S) /\ <<NL>> \in Seq(S)
      BY <1>4
    <3>. QED
      BY <2>2, <3>1
  <2>. QED
    BY <1>1, <2>1, <2>2
<1>. HIDE DEF S, b
<1>8. LaidOut(S, x, t, b, u)
  <2>1. x = ((t \o <<NUL>>) \o b) \o (u \o <<NUL>>)
    BY <1>2, <1>3, Zenon DEF b
  <2>. QED
    BY <1>4, <1>5, <1>7, <2>1, LaysOut
<1>9. /\ x \in Seq(S) /\ Len(t) \in Nat /\ Len(b) \in Nat /\ Len(u) \in Nat
      /\ Len(x) = Len(t) + 1 + Len(b) + Len(u) + 1
      /\ \A i \in 1 .. Len(t) : x[i] = t[i]
      /\ x[Len(t) + 1] = NUL
      /\ \A i \in 1 .. Len(b) : x[Len(t) + 1 + i] = b[i]
      /\ \A i \in 1 .. Len(u) : x[Len(t) + 1 + Len(b) + i] = u[i]
      /\ x[Len(x)] = NUL
  BY <1>8, Zenon DEF LaidOut
<1>. DEFINE p == Len(t) + 1
<1>10. FirstRead(x, p) # Malformed /\ ReadAs(w.first, FirstRead(x, p))
  BY <1>1, <1>2, <1>8, FirstIsRead DEF S
<1>11. CASE b \in {<<>>, <<NL>>}
  <2>. DEFINE q == Len(x)
  <2>1. /\ SecondRead(x, p, q) # Malformed
        /\ ReadAs(SecondAs(b, w.second), SecondRead(x, p, q))
    <3>1. p = Len(t) + 1 /\ q = Len(x)
      OBVIOUS
    <3>2. /\ Encoding(Tokens(W, K, V), w.second, k, u)
          /\ LaidOut(Tokens(W, K, V), x, t, b, u)
      BY <1>3, <1>8 DEF S
    <3>. HIDE DEF p, q
    <3>. QED
      BY <1>1, <1>11, <3>1, <3>2, SecondIsRead, ZenonT(40)
  <2>2. Nulls(S, x, p, q)
    <3>1. /\ p \in Nat /\ q \in Nat /\ 1 =< p /\ p < q /\ q =< Len(x)
          /\ x[p] = NUL /\ x[q] = NUL
      BY <1>9
    <3>2. ASSUME NEW i \in 1 .. q - 1, i # p
          PROVE  x[i] # NUL
      <4>1. CASE i < p
        <5>1. i \in 1 .. Len(t)
          BY <1>9, <4>1
        <5>. QED
          BY <1>6, <1>9, <5>1
      <4>2. CASE p < i /\ i =< p + Len(b)
        <5>. DEFINE j == i - p
        <5>1. j \in 1 .. Len(b) /\ i = Len(t) + 1 + j
          BY <1>9, <4>2
        <5>. HIDE DEF j
        <5>2. x[i] = b[j]
          BY <1>9, <5>1
        <5>3. b[j] = NL
          BY <1>11, <5>1
        <5>. QED
          BY <5>2, <5>3, TokenKinds
      <4>3. CASE p + Len(b) < i
        <5>. DEFINE j == i - (p + Len(b))
        <5>1. j \in 1 .. Len(u) /\ i = Len(t) + 1 + Len(b) + j
          BY <1>9, <4>3
        <5>. HIDE DEF j
        <5>2. x[i] = u[j]
          BY <1>9, <5>1
        <5>. QED
          BY <1>6, <5>1, <5>2
      <4>4. i < p \/ (p < i /\ i =< p + Len(b)) \/ p + Len(b) < i
        BY <1>9, <3>2
      <4>. QED
        BY <4>1, <4>2, <4>3, <4>4
    <3>. HIDE DEF p, q
    <3>. QED
      BY <1>9, <3>1, <3>2, Zenon DEF Nulls
  <2>3. Means(x, p, q, w)
    BY <1>10, <1>11, <2>1, Zenon DEF Means, b
  <2>. QED
    BY <2>2, <2>3 DEF S
<1>12. CASE b \in N
  <2>1. PICK v \in Seq(S \ {NL, NUL}) : b = v \o <<NUL>>
    BY <1>12
  <2>2. /\ Len(v) \in Nat /\ Len(b) = Len(v) + 1 /\ b[Len(v) + 1] = NUL
        /\ \A i \in 1 .. Len(v) : b[i] = v[i] /\ v[i] # NL /\ v[i] # NUL
    <3>1. /\ v \in Seq(S) /\ <<NUL>> \in Seq(S) /\ Len(<<NUL>>) = 1 /\ <<NUL>>[1] = NUL
          /\ Len(v) \in Nat /\ \A i \in 1 .. Len(v) : v[i] # NL /\ v[i] # NUL
      BY <1>4
    <3>2. Joined(S, v, <<NUL>>, b)
      BY <2>1, <3>1, JoinedText, Zenon
    <3>. QED
      BY <3>1, <3>2 DEF Joined
  <2>. DEFINE q == p + Len(v) + 1
              s == SubSeq(x, p + 1, q - 1)
  <2>3. \A i \in 1 .. Len(v) : x[p + i] # NL /\ x[p + i] # NUL
    <3>. TAKE i \in 1 .. Len(v)
    <3>1. i \in 1 .. Len(b) /\ p + i = Len(t) + 1 + i
      BY <2>2
    <3>2. x[p + i] = b[i]
      BY <1>9, <3>1
    <3>. QED
      BY <2>2, <3>2
  <2>4. Nulls(S, x, p, q)
    <3>1. /\ p \in Nat /\ q \in Nat /\ 1 =< p /\ p < q /\ q =< Len(x) /\ x[p] = NUL
      BY <1>9, <2>2
    <3>2. x[q] = NUL
      <4>1. Len(v) + 1 \in 1 .. Len(b) /\ q = Len(t) + 1 + (Len(v) + 1)
        BY <1>9, <2>2
      <4>2. x[Len(t) + 1 + (Len(v) + 1)] = b[Len(v) + 1]
        BY <1>9, <4>1, Zenon
      <4>. QED
        BY <2>2, <4>1, <4>2
    <3>3. ASSUME NEW i \in 1 .. q - 1, i # p
          PROVE  x[i] # NUL
      <4>1. CASE i < p
        <5>1. i \in 1 .. Len(t)
          BY <1>9, <4>1
        <5>. QED
          BY <1>6, <1>9, <5>1
      <4>2. CASE p < i
        <5>. DEFINE j == i - p
        <5>1. j \in 1 .. Len(v) /\ i = p + j
          BY <1>9, <2>2, <4>2
        <5>. HIDE DEF j
        <5>. QED
          BY <2>3, <5>1
      <4>. QED
        <5>1. i \in Nat /\ p \in Nat
          BY <1>9, <2>2
        <5>2. i < p \/ p < i
          BY <3>3, <5>1
        <5>. QED
          BY <4>1, <4>2, <5>2
    <3>. HIDE DEF p, q
    <3>. QED
      BY <1>9, <3>1, <3>2, <3>3, Zenon DEF Nulls
  <2>5. SecondRead(x, p, q) = Malformed
    <3>. DEFINE a == p + 1
                z == q - 1
    <3>1. /\ a \in Nat /\ z \in Nat /\ 1 =< a /\ a =< z + 1 /\ z =< Len(x)
          /\ z - a + 1 = Len(v) /\ \A i \in 1 .. Len(v) : a + i - 1 = p + i
      BY <1>9, <2>2
    <3>. HIDE DEF a, z, p
    <3>2. /\ SubSeq(x, a, z) \in Seq(S) /\ Len(SubSeq(x, a, z)) = z - a + 1
          /\ \A i \in 1 .. z - a + 1 : SubSeq(x, a, z)[i] = x[a + i - 1]
      <4>1. x \in Seq(S)
        BY <1>9
      <4>. QED
        BY <3>1, <4>1, Part, ZenonT(80)
    <3>3. s = SubSeq(x, a, z)
      BY DEF a, z
    <3>. HIDE DEF s
    <3>4. s \in Seq(S) /\ Len(s) = Len(v) /\ \A i \in 1 .. Len(v) : s[i] = x[p + i]
      BY <3>1, <3>2, <3>3
    <3>5. NL \notin Range(s)
      <4>. SUFFICES ASSUME NEW i \in DOMAIN s
                    PROVE  s[i] # NL
        BY DEF Range
      <4>1. i \in 1 .. Len(v)
        BY <3>4
      <4>. QED
        BY <2>3, <3>4, <4>1, Zenon
    <3>6. ParseFrame(s) = Malformed
      BY <3>5, Zenon DEF ParseFrame
    <3>. QED
      BY <3>6, Zenon DEF SecondRead, s
  <2>6. b \notin {<<>>, <<NL>>}
    BY <2>2, TokenKinds
  <2>. HIDE DEF q, p
  <2>7. Means(x, p, q, w)
    BY <1>10, <2>5, <2>6, Zenon DEF Means, b
  <2>. QED
    BY <2>4, <2>7 DEF S
<1>. QED
  BY <1>1, <1>11, <1>12 DEF S

(* The buffer holds what was read behind a place of the input.             *)
Buffer(S, x, base, n, bs, l) ==
    /\ bs \in Seq(S) /\ Len(bs) >= 1 /\ l \in Nat /\ l =< Len(bs) /\ n = base + l
    /\ \A i \in 1 .. l : bs[i] = x[base + i]

(* An array that is enlarged when it is full takes one byte more.          *)
LEMMA Pushed ==
    ASSUME NEW S, NUL \in S, NEW x \in Seq(S), NEW base \in Nat, NEW n \in Nat, n < Len(x),
           NEW bs, NEW l, Buffer(S, x, base, n, bs, l), NEW more,
           more = [IF l < Len(bs) THEN bs ELSE bs \o Zeros(Len(bs)) EXCEPT ![l + 1] = x[n + 1]]
    PROVE  Buffer(S, x, base, n + 1, more, l + 1)
<1>. DEFINE room == IF l < Len(bs) THEN bs ELSE bs \o Zeros(Len(bs))
            z == Zeros(Len(bs))
<1>1. /\ bs \in Seq(S) /\ Len(bs) \in Nat /\ Len(bs) >= 1 /\ l \in Nat /\ l =< Len(bs)
      /\ n = base + l /\ \A i \in 1 .. l : bs[i] = x[base + i]
  BY DEF Buffer
<1>2. z \in Seq(S) /\ Len(z) = Len(bs)
  <2>1. z = [i \in 1 .. Len(bs) |-> NUL]
    BY Zenon DEF Zeros
  <2>. HIDE DEF z
  <2>. QED
    BY <1>1, <2>1
<1>. HIDE DEF z
<1>3. /\ room \in Seq(S) /\ Len(room) \in Nat /\ Len(room) >= 1 /\ l + 1 =< Len(room)
      /\ \A i \in 1 .. l : room[i] = bs[i]
  <2>1. CASE l < Len(bs)
    <3>1. room = bs
      BY <2>1, Zenon
    <3>. HIDE DEF room
    <3>. QED
      BY <1>1, <2>1, <3>1
  <2>2. CASE ~(l < Len(bs))
    <3>1. room = bs \o z
      BY <2>2, Zenon DEF z
    <3>. HIDE DEF room
    <3>2. Joined(S, bs, z, bs \o z)
      BY <1>1, <1>2, JoinedText
    <3>3. Joined(S, bs, z, room)
      BY <3>1, <3>2, Zenon
    <3>4. /\ room \in Seq(S) /\ Len(room) = Len(bs) + Len(z)
          /\ \A i \in 1 .. Len(bs) : room[i] = bs[i]
      BY <3>3, Zenon DEF Joined
    <3>. QED
      BY <1>1, <1>2, <3>4
  <2>. QED
    BY <2>1, <2>2
<1>4. more = [room EXCEPT ![l + 1] = x[n + 1]]
  BY Zenon DEF z
<1>. HIDE DEF room
<1>5. /\ more \in Seq(S) /\ Len(more) = Len(room) /\ more[l + 1] = x[n + 1]
      /\ \A i \in 1 .. l : more[i] = room[i]
  <2>1. x[n + 1] \in S
    <3>1. n + 1 \in 1 .. Len(x)
      OBVIOUS
    <3>. QED
      BY <3>1
  <2>. DEFINE y == x[n + 1]
              k == l + 1
  <2>2. y \in S /\ k \in 1 .. Len(room) /\ \A i \in 1 .. l : i # k
    BY <1>1, <1>3, <2>1
  <2>. HIDE DEF y, k
  <2>0. more = [room EXCEPT ![k] = y]
    BY <1>4, Zenon DEF y, k
  <2>3. /\ more \in Seq(S) /\ Len(more) = Len(room) /\ more[k] = y
        /\ \A i \in 1 .. Len(room) : i # k => more[i] = room[i]
    <3>1. room \in Seq(S)
      BY <1>3
    <3>. DEFINE e == [room EXCEPT ![k] = y]
    <3>2. /\ e \in Seq(S) /\ Len(e) = Len(room)
          /\ \A i \in 1 .. Len(room) : e[i] = IF i = k THEN y ELSE room[i]
      BY <2>2, <3>1, ExceptSeq
    <3>. HIDE DEF e
    <3>3. e = more
      BY <2>0, Zenon DEF e
    <3>. QED
      BY <2>2, <3>2, <3>3
  <2>4. \A i \in 1 .. l : i \in 1 .. Len(room)
    BY <1>1, <1>3
  <2>5. \A i \in 1 .. l : more[i] = room[i]
    BY <2>2, <2>3, <2>4, Zenon
  <2>. QED
    BY <2>3, <2>5 DEF y, k
<1>6. ASSUME NEW i \in 1 .. l + 1
      PROVE  more[i] = x[base + i]
  <2>1. CASE i = l + 1
    <3>1. base + i = n + 1
      BY <1>1, <2>1
    <3>. QED
      BY <1>5, <2>1, <3>1
  <2>2. CASE i # l + 1
    <3>1. i \in 1 .. l
      BY <1>1, <2>2
    <3>. QED
      BY <1>1, <1>3, <1>5, <3>1
  <2>. QED
    BY <2>1, <2>2
<1>7. n + 1 = base + (l + 1)
  BY <1>1
<1>. QED
  BY <1>1, <1>3, <1>5, <1>6, <1>7 DEF Buffer

(* Its string is the part of the input from there.                         *)
IsPart(bs, l, x, a, n) == SubSeq(bs, 1, l) = SubSeq(x, a, n)

LEMMA Held ==
    ASSUME NEW S, NEW x \in Seq(S), NEW base \in Nat, NEW n \in Nat, n =< Len(x),
           NEW bs, NEW l, Buffer(S, x, base, n, bs, l), NEW a, a = base + 1
    PROVE  IsPart(bs, l, x, a, n)
<1>1. /\ bs \in Seq(S) /\ Len(bs) \in Nat /\ l \in Nat /\ l =< Len(bs)
      /\ n = base + l /\ \A i \in 1 .. l : bs[i] = x[base + i]
  BY DEF Buffer
<1>. DEFINE u == SubSeq(bs, 1, l)
            v == SubSeq(x, a, n)
<1>2. u \in Seq(S) /\ Len(u) = l /\ \A i \in 1 .. l : u[i] = bs[i]
  BY <1>1
<1>. HIDE DEF u
<1>3. a \in Nat /\ 1 =< a /\ a =< n + 1 /\ n - a + 1 = l /\ \A i \in 1 .. l : a + i - 1 = base + i
  BY <1>1
<1>4. v \in Seq(S) /\ Len(v) = n - a + 1 /\ \A i \in 1 .. n - a + 1 : v[i] = x[a + i - 1]
  BY <1>3, Part
<1>. HIDE DEF v
<1>5. Len(v) = l /\ \A i \in 1 .. l : v[i] = x[base + i]
  BY <1>3, <1>4
<1>6. u = v
  BY <1>1, <1>2, <1>4, <1>5, SeqEqual
<1>. QED
  BY <1>6, Zenon DEF IsPart, u, v

(* The decoder after n bytes: in the first frame, in the second, or done.  *)
Decoded(S, x, p, q, n, bs, l, ms, rf) ==
    LET one == FirstRead(x, p)
        two == SecondRead(x, p, q)
    IN  \/ n < p /\ Buffer(S, x, 0, n, bs, l) /\ ms = <<>> /\ ~rf
        \/ p =< n /\ n < q /\ Buffer(S, x, p, n, bs, l) /\ ms = <<one>> /\ ~rf
        \/ /\ n = q
           /\ rf <=> two = Malformed
           /\ ms = IF two = Malformed THEN <<one>> ELSE <<one, two>>

Remaining(x, n, rest) == n \in Nat /\ n =< Len(x) /\ rest = SubSeq(x, n + 1, Len(x))

CodecInv(W, K, V) ==
    \E x, p, q, n :
        /\ Nulls(Tokens(W, K, V), x, p, q) /\ Means(x, p, q, written)
        /\ Remaining(x, n, toRead)
        /\ Decoded(Tokens(W, K, V), x, p, q, n, bytes, len, messages, refused)

(* The socket delivers the next byte of the input.                         *)
LEMMA NextByte ==
    ASSUME NEW S, NEW x \in Seq(S), NEW n, NEW rest, Remaining(x, n, rest), rest # <<>>
    PROVE  n < Len(x) /\ Head(rest) = x[n + 1] /\ Remaining(x, n + 1, Tail(rest))
<1>1. n \in Nat /\ n =< Len(x) /\ rest = SubSeq(x, n + 1, Len(x)) /\ Len(x) \in Nat
  BY DEF Remaining
<1>2. n < Len(x)
  BY <1>1
<1>3. Head(rest) = x[n + 1]
  BY <1>1, <1>2
<1>4. Tail(rest) = SubSeq(x, n + 1 + 1, Len(x))
  <2>. DEFINE u == Tail(rest)
              m == n + 1
              v == SubSeq(x, m + 1, Len(x))
  <2>1. rest \in Seq(S) /\ Len(rest) = Len(x) - n /\ \A i \in 1 .. Len(x) - n : rest[i] = x[n + i]
    BY <1>1
  <2>2. /\ u \in Seq(S) /\ Len(u) = Len(x) - n - 1
        /\ \A i \in 1 .. Len(x) - n - 1 : u[i] = rest[i + 1]
    BY <1>1, <1>2, <2>1
  <2>3. m \in Nat /\ m =< Len(x)
    BY <1>1, <1>2
  <2>. HIDE DEF m, u
  <2>4. v \in Seq(S) /\ Len(v) = Len(x) - m /\ \A i \in 1 .. Len(x) - m : v[i] = x[m + i]
    BY <1>1, <2>3
  <2>. HIDE DEF v
  <2>5. Len(u) = Len(v)
    BY <1>1, <2>2, <2>4 DEF m
  <2>6. ASSUME NEW i \in 1 .. Len(u)
        PROVE  u[i] = v[i]
    <3>1. i \in 1 .. Len(x) - n - 1 /\ i \in 1 .. Len(x) - m /\ i + 1 \in 1 .. Len(x) - n
          /\ n + (i + 1) = m + i
      BY <1>1, <1>2, <2>2 DEF m
    <3>. QED
      BY <2>1, <2>2, <2>4, <3>1, Zenon
  <2>7. u = v
    BY <2>2, <2>4, <2>5, <2>6, SeqEqual
  <2>. QED
    BY <2>7 DEF u, v, m
<1>5. n + 1 \in Nat /\ n + 1 =< Len(x)
  BY <1>1, <1>2
<1>. QED
  BY <1>2, <1>3, <1>4, <1>5 DEF Remaining

(* Nothing is read at first,                                               *)
LEMMA CodecStarts ==
    ASSUME NEW W, NEW K, NEW V, NEW w \in ExchangesOf(W, K, V), CodecStart(w)
    PROVE  CodecInv(W, K, V)
<1>. DEFINE S == Tokens(W, K, V)
<1>1. /\ written = w /\ bytes = Zeros(Size) /\ len = 0 /\ messages = <<>> /\ ~refused
      /\ \E one \in EncodingsOf(w.first), two \in EncodingsOf(w.second) :
             toRead = one \o w.between \o two
  BY DEF CodecStart
<1>2. PICK one \in EncodingsOf(w.first), two \in EncodingsOf(w.second) :
         toRead = one \o w.between \o two
  BY <1>1, Zenon
<1>3. PICK p, q : Nulls(S, toRead, p, q) /\ Means(toRead, p, q, w)
  BY <1>2, SentMeans
<1>4. NUL \in S
  BY InTokens
<1>. HIDE DEF S
<1>5. toRead \in Seq(S) /\ p \in Nat /\ 1 =< p
  BY <1>3 DEF Nulls
<1>6. Remaining(toRead, 0, toRead)
  <2>1. toRead = SubSeq(toRead, 1, Len(toRead)) /\ Len(toRead) \in Nat /\ 0 + 1 = 1
    BY <1>5
  <2>. QED
    BY <2>1 DEF Remaining
<1>7. Buffer(S, toRead, 0, 0, bytes, len)
  <2>1. bytes = [i \in 1 .. Size |-> NUL] /\ Size \in Nat /\ Size >= 1
    BY <1>1, CodecAssumption DEF Zeros
  <2>2. bytes \in Seq(S) /\ Len(bytes) = Size
    BY <1>4, <2>1
  <2>. QED
    BY <1>1, <2>1, <2>2 DEF Buffer
<1>8. Decoded(S, toRead, p, q, 0, bytes, len, messages, refused)
  <2>1. 0 < p
    BY <1>5
  <2>. QED
    BY <1>1, <1>7, <2>1, Zenon DEF Decoded
<1>. QED
  BY <1>1, <1>3, <1>6, <1>8, Zenon DEF CodecInv, S

(* each byte is kept in the buffer or ends one of the frames,              *)
LEMMA CodecSteps ==
    ASSUME NEW W, NEW K, NEW V
    PROVE  CodecInv(W, K, V) /\ [DecodeNextByte]_codecVars => CodecInv(W, K, V)'
<1>. SUFFICES ASSUME CodecInv(W, K, V), [DecodeNextByte]_codecVars
              PROVE  CodecInv(W, K, V)'
  OBVIOUS
<1>. DEFINE S == Tokens(W, K, V)
<1>1. PICK x, p, q, n :
         /\ Nulls(S, x, p, q) /\ Means(x, p, q, written)
         /\ Remaining(x, n, toRead)
         /\ Decoded(S, x, p, q, n, bytes, len, messages, refused)
  BY Zenon DEF CodecInv
<1>2. CASE UNCHANGED codecVars
  <2>1. /\ written' = written /\ toRead' = toRead /\ bytes' = bytes /\ len' = len
        /\ messages' = messages /\ refused' = refused
    BY <1>2 DEF codecVars
  <2>2. /\ Nulls(S, x, p, q) /\ Means(x, p, q, written')
        /\ Remaining(x, n, toRead')
        /\ Decoded(S, x, p, q, n, bytes', len', messages', refused')
    BY <1>1, <2>1
  <2>. QED
    BY <2>2, Zenon DEF CodecInv
<1>3. CASE DecodeNextByte
  <2>. DEFINE one == FirstRead(x, p)
              two == SecondRead(x, p, q)
  <2>1. /\ toRead # <<>> /\ ~refused /\ toRead' = Tail(toRead) /\ written' = written
        /\ \/ Head(toRead) # NUL /\ PushByte(Head(toRead)) /\ UNCHANGED <<messages, refused>>
           \/ /\ Head(toRead) = NUL
              /\ LET m == ParseFrame(SubSeq(bytes, 1, len)) IN
                   /\ refused' = (m = Malformed)
                   /\ messages' = IF m = Malformed THEN messages ELSE Append(messages, m)
    BY <1>3, Zenon DEF DecodeNextByte
  <2>2. /\ x \in Seq(S) /\ p \in Nat /\ q \in Nat
        /\ 1 =< p /\ p < q /\ q =< Len(x) /\ x[p] = NUL /\ x[q] = NUL
        /\ \A i \in 1 .. q - 1 : x[i] = NUL => i = p
    BY <1>1 DEF Nulls
  <2>3. NUL \in S
    BY InTokens
  <2>. HIDE DEF S
  <2>4. n < Len(x) /\ Head(toRead) = x[n + 1] /\ Remaining(x, n + 1, toRead') /\ n \in Nat
    <3>1. n \in Nat
      BY <1>1 DEF Remaining
    <3>. QED
      BY <1>1, <2>1, <2>2, <3>1, NextByte
  <2>5. \/ n < p /\ Buffer(S, x, 0, n, bytes, len) /\ messages = <<>>
        \/ p =< n /\ n < q /\ Buffer(S, x, p, n, bytes, len) /\ messages = <<one>>
    <3>1. CASE n = q
      <4>1. CASE two = Malformed
        <5>1. refused
          BY <1>1, <2>2, <2>4, <3>1, <4>1 DEF Decoded
        <5>. QED
          BY <2>1, <5>1
      <4>2. CASE two # Malformed
        <5>1. q = Len(x)
          BY <1>1, <4>2, Zenon DEF Means
        <5>. QED
          BY <2>2, <2>4, <3>1, <5>1
      <4>. QED
        BY <4>1, <4>2
    <3>2. CASE n # q
      BY <1>1, <3>2, Zenon DEF Decoded
    <3>. QED
      BY <3>1, <3>2
  <2>6. n < q
    BY <2>2, <2>4, <2>5
  <2>7. n + 1 \in Nat /\ 0 \in Nat /\ n =< Len(x)
    BY <2>2, <2>4
  <2>8. Decoded(S, x, p, q, n + 1, bytes', len', messages', refused')
    <3>1. CASE Head(toRead) # NUL
      <4>1. PushByte(Head(toRead)) /\ messages' = messages /\ refused' = refused
        BY <2>1, <3>1
      <4>2. /\ len' = len + 1
            /\ bytes' = [IF len < Len(bytes) THEN bytes ELSE bytes \o Zeros(Len(bytes))
                            EXCEPT ![len + 1] = x[n + 1]]
        BY <2>4, <4>1, Zenon DEF PushByte
      <4>3. x[n + 1] # NUL
        BY <2>4, <3>1
      <4>4. n + 1 # p /\ n + 1 # q
        BY <2>2, <4>3
      <4>5. CASE n < p /\ Buffer(S, x, 0, n, bytes, len) /\ messages = <<>>
        <5>1. Buffer(S, x, 0, n + 1, bytes', len + 1)
          BY <2>2, <2>3, <2>4, <2>7, <4>2, <4>5, Pushed
        <5>2. n + 1 < p
          BY <2>2, <2>4, <4>4, <4>5
        <5>. QED
          BY <2>1, <4>1, <4>2, <4>5, <5>1, <5>2, Zenon DEF Decoded
      <4>6. CASE p =< n /\ n < q /\ Buffer(S, x, p, n, bytes, len) /\ messages = <<one>>
        <5>1. Buffer(S, x, p, n + 1, bytes', len + 1)
          BY <2>2, <2>3, <2>4, <2>7, <4>2, <4>6, Pushed
        <5>2. p =< n + 1 /\ n + 1 < q
          BY <2>2, <2>4, <4>4, <4>6
        <5>. QED
          BY <2>1, <4>1, <4>2, <4>6, <5>1, <5>2, Zenon DEF Decoded
      <4>. QED
        BY <2>5, <4>5, <4>6
    <3>2. CASE Head(toRead) = NUL
      <4>. DEFINE m == ParseFrame(SubSeq(bytes, 1, len))
      <4>1. /\ refused' = (m = Malformed)
            /\ messages' = IF m = Malformed THEN messages ELSE Append(messages, m)
            /\ len' = 0 /\ bytes' = bytes
        BY <1>3, <3>2, Zenon DEF DecodeNextByte, PopString
      <4>2. n + 1 = p \/ n + 1 = q
        <5>1. CASE n + 1 < q
          <6>1. n + 1 \in 1 .. q - 1
            BY <2>2, <2>4, <5>1
          <6>2. x[n + 1] = NUL
            BY <2>4, <3>2
          <6>. QED
            BY <2>2, <6>1, <6>2, Zenon
        <5>2. CASE ~(n + 1 < q)
          BY <2>2, <2>4, <2>6, <5>2
        <5>. QED
          BY <5>1, <5>2
      <4>3. CASE n + 1 = p
        <5>1. n < p /\ ~(p =< n) /\ n = p - 1 /\ 0 + 1 = 1
          BY <2>2, <2>4, <4>3
        <5>2. Buffer(S, x, 0, n, bytes, len) /\ messages = <<>>
          BY <2>5, <5>1
        <5>3. SubSeq(bytes, 1, len) = SubSeq(x, 1, p - 1)
          <6>1. Buffer(S, x, 0, n, bytes, len) /\ x \in Seq(S) /\ n \in Nat /\ n =< Len(x) /\ 1 = 0 + 1
            BY <2>2, <2>4, <2>7, <5>2
          <6>2. IsPart(bytes, len, x, 1, n)
            BY <6>1, Held
          <6>. QED
            BY <5>1, <6>2 DEF IsPart
        <5>4. m = one
          BY <5>3, Zenon DEF FirstRead
        <5>5. one # Malformed
          BY <1>1, Zenon DEF Means
        <5>. HIDE DEF m, one
        <5>6. messages' = <<one>> /\ ~refused'
          <6>1. Append(<<>>, one) = <<one>>
            BY AppendedTwo
          <6>. QED
            BY <4>1, <5>2, <5>4, <5>5, <6>1, Zenon
        <5>7. Buffer(S, x, p, p, bytes, 0)
          BY <2>2, <5>2 DEF Buffer
        <5>8. p =< p /\ p < q
          BY <2>2
        <5>. QED
          BY <4>1, <4>3, <5>6, <5>7, <5>8, Zenon DEF Decoded, one
      <4>4. CASE n + 1 = q
        <5>1. n = q - 1 /\ ~(n < p) /\ p =< n
          BY <2>2, <2>4, <4>4
        <5>2. Buffer(S, x, p, n, bytes, len) /\ messages = <<one>>
          BY <2>5, <5>1
        <5>3. SubSeq(bytes, 1, len) = SubSeq(x, p + 1, q - 1)
          <6>1. /\ Buffer(S, x, p, n, bytes, len) /\ x \in Seq(S) /\ n \in Nat /\ n =< Len(x)
                /\ p \in Nat
            BY <2>2, <2>4, <2>7, <5>2
          <6>2. IsPart(bytes, len, x, p + 1, n)
            BY <6>1, Held
          <6>. QED
            BY <5>1, <6>2 DEF IsPart
        <5>4. m = two
          BY <5>3, Zenon DEF SecondRead
        <5>. HIDE DEF m, one, two
        <5>5. (refused' <=> two = Malformed) /\ messages' = IF two = Malformed THEN <<one>> ELSE <<one, two>>
          <6>1. Append(<<one>>, two) = <<one, two>>
            BY AppendedTwo
          <6>. QED
            BY <4>1, <5>2, <5>4, <6>1, Zenon
        <5>. QED
          BY <4>4, <5>5, Zenon DEF Decoded, one, two
      <4>. QED
        BY <4>2, <4>3, <4>4
    <3>. QED
      BY <3>1, <3>2
  <2>9. Means(x, p, q, written')
    BY <1>1, <2>1
  <2>. QED
    BY <1>1, <2>4, <2>8, <2>9, Zenon DEF CodecInv, S
<1>. QED
  BY <1>2, <1>3

(* and what has been read when the input or the connection ends is it.     *)
LEMMA CodecReads ==
    ASSUME NEW W, NEW K, NEW V, CodecInv(W, K, V)
    PROVE  ReadBack
<1>. DEFINE S == Tokens(W, K, V)
<1>1. PICK x, p, q, n :
         /\ Nulls(S, x, p, q) /\ Means(x, p, q, written)
         /\ Remaining(x, n, toRead)
         /\ Decoded(S, x, p, q, n, bytes, len, messages, refused)
  BY Zenon DEF CodecInv
<1>. HIDE DEF S
<1>. DEFINE one == FirstRead(x, p)
            two == SecondRead(x, p, q)
            second == SecondAs(written.between, written.second)
<1>2. ReadAs(written.first, one)
  BY <1>1, Zenon DEF Means
<1>3. /\ two = Malformed => written.between \notin {<<>>, <<NL>>}
      /\ two # Malformed => /\ q = Len(x) /\ written.between \in {<<>>, <<NL>>}
                            /\ ReadAs(second, two)
  BY <1>1, Zenon DEF Means
<1>4. \/ n < p /\ ~refused
      \/ p =< n /\ n < q /\ ~refused
      \/ /\ n = q
         /\ refused <=> two = Malformed
         /\ messages = IF two = Malformed THEN <<one>> ELSE <<one, two>>
  BY <1>1, Zenon DEF Decoded
<1>5. x \in Seq(S) /\ p \in Nat /\ q \in Nat /\ p < q /\ q =< Len(x) /\ n \in Nat
      /\ n =< Len(x) /\ toRead = SubSeq(x, n + 1, Len(x))
  BY <1>1 DEF Nulls, Remaining
<1>. HIDE DEF one, two, second
<1>6. ASSUME refused
      PROVE  /\ written.between \notin {<<>>, <<NL>>} /\ Len(messages) = 1
             /\ ReadAs(written.first, messages[1])
  <2>1. two = Malformed /\ messages = <<one>>
    BY <1>4, <1>6
  <2>2. Len(messages) = 1 /\ messages[1] = one
    BY <2>1
  <2>. QED
    BY <1>2, <1>3, <2>1, <2>2, Zenon
<1>7. ASSUME toRead = <<>>, ~refused
      PROVE  /\ written.between \in {<<>>, <<NL>>} /\ Len(messages) = 2
             /\ ReadAs(written.first, messages[1]) /\ ReadAs(second, messages[2])
  <2>1. ~(n < Len(x))
    <3>. SUFFICES ASSUME n < Len(x)
                  PROVE  FALSE
      OBVIOUS
    <3>1. Len(SubSeq(x, n + 1, Len(x))) = Len(x) - n
      BY <1>5
    <3>2. SubSeq(x, n + 1, Len(x)) = <<>> /\ Len(<<>>) = 0
      BY <1>5, <1>7
    <3>3. Len(x) - n = 0
      BY <3>1, <3>2
    <3>. QED
      BY <1>5, <3>3
  <2>2. ~(n < p) /\ ~(n < q)
    BY <1>5, <2>1
  <2>3. two # Malformed /\ messages = <<one, two>>
    BY <1>4, <1>7, <2>2
  <2>4. Len(messages) = 2 /\ messages[1] = one /\ messages[2] = two
    BY <2>3
  <2>. QED
    BY <1>2, <1>3, <2>3, <2>4, Zenon
<1>. QED
  BY <1>6, <1>7, Zenon DEF ReadBack, SecondAs, second

(* The decoder of one connection, fed with what some exchange writes.      *)
CodecSpec(W, K, V) ==
    (\E w \in ExchangesOf(W, K, V) : CodecStart(w)) /\ [][DecodeNextByte]_codecVars

(* Whatever their headers, in whatever order encode gives them, and        *)
(* whatever their bodies, two frames are read back one by one, from a      *)
(* buffer that starts with any size; a newline between them costs the      *)
(* second its command, and a frame without a newline is refused after the  *)
(* first was read.                                                         *)
THEOREM FramesAreReadBack ==
    ASSUME NEW CONSTANT W, NEW CONSTANT K, NEW CONSTANT V
    PROVE  CodecSpec(W, K, V) => []ReadBack
<1>1. (\E w \in ExchangesOf(W, K, V) : CodecStart(w)) => CodecInv(W, K, V)
  BY CodecStarts
<1>2. CodecInv(W, K, V) /\ [DecodeNextByte]_codecVars => CodecInv(W, K, V)'
  BY CodecSteps
<1>3. CodecInv(W, K, V) => ReadBack
  BY CodecReads
<1>. QED
  BY <1>1, <1>2, <1>3, PTL DEF CodecSpec

-----------------------------------------------------------------------------
(* Event(frame_body).                                                      *)

(* The lines of a key among the first n, and those of the section.         *)
KeyedIn(ls, n, key) == {i \in 1 .. n : HasColon(ls[i]) /\ Key(ls[i]) = key}

SectionIn(ls, n) ==
    {i \in 1 .. n : /\ HasColon(ls[i])
                    /\ \E g \in KeyedIn(ls, n, "general information") : g < i
                    /\ Key(ls[i]) # "general information"}

(* What they give the fields.                                              *)
FieldIn(ls, n, key, absent) ==
    IF KeyedIn(ls, n, key) = {} THEN absent ELSE Val(ls[Max(KeyedIn(ls, n, key))])

DateIn(ls, n) ==
    IF KeyedIn(ls, n, "date time") = {} THEN 0 ELSE stoi[FieldIn(ls, n, "date time", "")]

EntryIn(ls, n, k) == {i \in SectionIn(ls, n) : Entry(Key(ls[i])) = k}

InformationIn(ls, n) ==
    [k \in {Entry(Key(ls[i])) : i \in SectionIn(ls, n)} |-> Val(ls[Max(EntryIn(ls, n, k))])]

(* No line of them made the constructor throw.                             *)
ReadableIn(ls, n) ==
    /\ \A i \in KeyedIn(ls, n, "date time") : Val(ls[i]) \in DOMAIN stoi
    /\ \A i \in SectionIn(ls, n) : Key(ls[i]) # ""

Fields == {"channel_name", "city", "name", "date_time", "description", "general_information",
           "eventOwnerUser"}

(* The first n lines have been read, the description at most as the last,  *)
(* and the fields are what these lines give.                               *)
LinesRead(n) ==
    /\ n \in 0 .. Len(body)
    /\ KeyedIn(body, n, "description") \subseteq {n}
    /\ ss = IF KeyedIn(body, n, "description") = {} THEN SubSeq(body, n + 1, Len(body)) ELSE <<>>
    /\ ReadableIn(body, n)
    /\ inGeneralInformation = (KeyedIn(body, n, "general information") # {})
    /\ DOMAIN event = Fields
    /\ event.eventOwnerUser = FieldIn(body, n, "user", "")
    /\ event.channel_name = FieldIn(body, n, "channel name", "")
    /\ event.city = FieldIn(body, n, "city", "")
    /\ event.name = FieldIn(body, n, "event name", "")
    /\ event.date_time = DateIn(body, n)
    /\ event.description = IF KeyedIn(body, n, "description") = {} THEN <<>>
                           ELSE SubSeq(body, n + 1, Len(body))
    /\ event.general_information = InformationIn(body, n)

EventInv(Text) ==
    /\ body \in Seq(Seq(Text))
    /\ \E n \in Nat : /\ LinesRead(n)
                      /\ state = "built" => ss = <<>>
                      /\ state = "threw" => /\ ss # <<>> /\ HasColon(Head(ss))
                                            /\ Key(Head(ss)) # "general information"
                                            /\ Throws(Head(ss))

(* One line more.                                                          *)
LEMMA KeyedNext ==
    ASSUME NEW ls, NEW n \in Nat, NEW key
    PROVE  KeyedIn(ls, n + 1, key) =
             IF HasColon(ls[n + 1]) /\ Key(ls[n + 1]) = key THEN KeyedIn(ls, n, key) \cup {n + 1}
             ELSE KeyedIn(ls, n, key)
<1>1. \A i : i \in 1 .. n + 1 <=> i \in 1 .. n \/ i = n + 1
  OBVIOUS
<1>. QED
  BY <1>1, Zenon DEF KeyedIn

LEMMA NoneKeyed == \A ls, key : KeyedIn(ls, 0, key) = {}
BY DEF KeyedIn

LEMMA MaxNew ==
    ASSUME NEW n \in Nat, NEW S, S \subseteq 1 .. n
    PROVE  Max(S \cup {n + 1}) = n + 1
<1>. DEFINE T == S \cup {n + 1}
<1>1. T \in SUBSET Nat /\ T # {} /\ n + 1 \in T /\ \A y \in T : y <= n + 1
  OBVIOUS
<1>2. Max(T) \in T /\ n + 1 <= Max(T)
  <2>. HIDE DEF T
  <2>1. n + 1 \in Nat
    OBVIOUS
  <2>. QED
    BY <1>1, <2>1, MaxIsGreatest
<1>3. Max(T) <= n + 1
  BY <1>1, <1>2
<1>. HIDE DEF T
<1>4. Max(T) \in Nat
  BY <1>1, <1>2
<1>5. Max(T) = n + 1
  BY <1>2, <1>3, <1>4
<1>. QED
  BY <1>5 DEF T

LEMMA FieldNext ==
    ASSUME NEW ls, NEW n \in Nat, NEW key, NEW absent
    PROVE  FieldIn(ls, n + 1, key, absent) =
             IF HasColon(ls[n + 1]) /\ Key(ls[n + 1]) = key THEN Val(ls[n + 1])
             ELSE FieldIn(ls, n, key, absent)
<1>1. CASE HasColon(ls[n + 1]) /\ Key(ls[n + 1]) = key
  <2>1. KeyedIn(ls, n + 1, key) = KeyedIn(ls, n, key) \cup {n + 1}
    BY <1>1, KeyedNext
  <2>2. KeyedIn(ls, n, key) \subseteq 1 .. n
    BY DEF KeyedIn
  <2>3. Max(KeyedIn(ls, n + 1, key)) = n + 1
    BY <2>1, <2>2, MaxNew
  <2>. QED
    BY <1>1, <2>1, <2>3, Zenon DEF FieldIn
<1>2. CASE ~(HasColon(ls[n + 1]) /\ Key(ls[n + 1]) = key)
  <2>1. KeyedIn(ls, n + 1, key) = KeyedIn(ls, n, key)
    BY <1>2, KeyedNext
  <2>. QED
    BY <1>2, <2>1, Zenon DEF FieldIn
<1>. QED
  BY <1>1, <1>2

LEMMA DateNext ==
    ASSUME NEW ls, NEW n \in Nat
    PROVE  DateIn(ls, n + 1) =
             IF HasColon(ls[n + 1]) /\ Key(ls[n + 1]) = "date time" THEN stoi[Val(ls[n + 1])]
             ELSE DateIn(ls, n)
<1>1. CASE HasColon(ls[n + 1]) /\ Key(ls[n + 1]) = "date time"
  <2>1. KeyedIn(ls, n + 1, "date time") = KeyedIn(ls, n, "date time") \cup {n + 1}
    BY <1>1, KeyedNext
  <2>2. FieldIn(ls, n + 1, "date time", "") = Val(ls[n + 1])
    BY <1>1, FieldNext
  <2>3. KeyedIn(ls, n + 1, "date time") # {}
    BY <2>1
  <2>. QED
    BY <1>1, <2>2, <2>3, Zenon DEF DateIn
<1>2. CASE ~(HasColon(ls[n + 1]) /\ Key(ls[n + 1]) = "date time")
  <2>1. KeyedIn(ls, n + 1, "date time") = KeyedIn(ls, n, "date time")
    BY <1>2, KeyedNext
  <2>2. FieldIn(ls, n + 1, "date time", "") = FieldIn(ls, n, "date time", "")
    BY <1>2, FieldNext
  <2>. QED
    BY <1>2, <2>1, <2>2, Zenon DEF DateIn
<1>. QED
  BY <1>1, <1>2

(* A line belongs to the section when the section has begun before it.     *)
InSection(ls, n) ==
    /\ HasColon(ls[n + 1]) /\ Key(ls[n + 1]) # "general information"
    /\ KeyedIn(ls, n, "general information") # {}

LEMMA SectionNext ==
    ASSUME NEW ls, NEW n \in Nat
    PROVE  SectionIn(ls, n + 1) =
             IF InSection(ls, n) THEN SectionIn(ls, n) \cup {n + 1} ELSE SectionIn(ls, n)
<1>. DEFINE G(m) == KeyedIn(ls, m, "general information")
<1>1. \A i : i \in 1 .. n + 1 <=> i \in 1 .. n \/ i = n + 1
  OBVIOUS
<1>2. \A g \in G(n) : g \in 1 .. n /\ g < n + 1
  <2>1. \A g \in G(n) : g \in 1 .. n
    BY Zenon DEF KeyedIn
  <2>. HIDE DEF G
  <2>. QED
    BY <2>1
<1>3. G(n + 1) \subseteq G(n) \cup {n + 1} /\ G(n) \subseteq G(n + 1)
  BY KeyedNext
<1>4. \A i \in 1 .. n : (\E g \in G(n + 1) : g < i) <=> (\E g \in G(n) : g < i)
  <2>1. \A i \in 1 .. n : ~(n + 1 < i)
    OBVIOUS
  <2>. QED
    BY <1>3, <2>1, Zenon
<1>5. (\E g \in G(n + 1) : g < n + 1) <=> G(n) # {}
  <2>1. ~(n + 1 < n + 1)
    OBVIOUS
  <2>. QED
    BY <1>2, <1>3, <2>1, Zenon
<1>6. n + 1 \notin 1 .. n
  OBVIOUS
<1>7. \A i : i \in SectionIn(ls, n + 1) <=> i \in SectionIn(ls, n) \/ (i = n + 1 /\ InSection(ls, n))
  <2>. HIDE DEF G
  <2>1. \A i \in 1 .. n : i \in SectionIn(ls, n + 1) <=> i \in SectionIn(ls, n)
    BY <1>1, <1>4, Zenon DEF SectionIn, G
  <2>2. n + 1 \in SectionIn(ls, n + 1) <=> InSection(ls, n)
    BY <1>1, <1>5, Zenon DEF SectionIn, InSection, G
  <2>3. SectionIn(ls, n) \subseteq 1 .. n /\ SectionIn(ls, n + 1) \subseteq 1 .. n + 1
    BY Zenon DEF SectionIn
  <2>. QED
    BY <1>1, <1>6, <2>1, <2>2, <2>3, Zenon
<1>. QED
  BY <1>7, Zenon

LEMMA InformationNext ==
    ASSUME NEW ls, NEW n \in Nat
    PROVE  InformationIn(ls, n + 1) =
             IF InSection(ls, n) THEN WithEntry(InformationIn(ls, n), ls[n + 1])
             ELSE InformationIn(ls, n)
<1>1. CASE ~InSection(ls, n)
  <2>1. SectionIn(ls, n + 1) = SectionIn(ls, n)
    BY <1>1, SectionNext
  <2>. QED
    BY <1>1, <2>1, Zenon DEF InformationIn, EntryIn
<1>2. CASE InSection(ls, n)
  <2>. DEFINE new == Entry(Key(ls[n + 1]))
              S == SectionIn(ls, n)
              D == {Entry(Key(ls[i])) : i \in S}
              E(k) == {i \in S : Entry(Key(ls[i])) = k}
              I == InformationIn(ls, n)
  <2>1. SectionIn(ls, n + 1) = S \cup {n + 1}
    BY <1>2, SectionNext
  <2>2. S \subseteq 1 .. n
    BY DEF SectionIn
  <2>3. {Entry(Key(ls[i])) : i \in SectionIn(ls, n + 1)} = D \cup {new}
    BY <2>1, Zenon
  <2>4. EntryIn(ls, n + 1, new) = E(new) \cup {n + 1}
    BY <2>1, Zenon DEF EntryIn
  <2>5. Max(EntryIn(ls, n + 1, new)) = n + 1
    <3>1. E(new) \subseteq 1 .. n
      BY <2>2, Zenon
    <3>. HIDE DEF E, S, D, new
    <3>. QED
      BY <2>4, <3>1, MaxNew
  <2>6. \A k \in D : k # new => EntryIn(ls, n + 1, k) = EntryIn(ls, n, k)
    BY <2>1, Zenon DEF EntryIn
  <2>7. I = [k \in D |-> Val(ls[Max(EntryIn(ls, n, k))])]
    BY Zenon DEF InformationIn
  <2>8. WithEntry(I, ls[n + 1]) =
          [k \in D \cup {new} |-> IF k = new THEN Val(ls[n + 1]) ELSE I[k]]
    <3>1. DOMAIN I = D
      BY <2>7, Zenon
    <3>. QED
      BY <3>1, Zenon DEF WithEntry
  <2>9. \A k \in D \cup {new} :
          Val(ls[Max(EntryIn(ls, n + 1, k))]) = (IF k = new THEN Val(ls[n + 1]) ELSE I[k])
    <3>. HIDE DEF new, E
    <3>1. \A k \in D : I[k] = Val(ls[Max(EntryIn(ls, n, k))])
      BY <2>7, Zenon
    <3>. HIDE DEF D, I
    <3>. QED
      BY <2>5, <2>6, <3>1, Zenon
  <2>10. InformationIn(ls, n + 1) =
           [k \in D \cup {new} |-> Val(ls[Max(EntryIn(ls, n + 1, k))])]
    BY <2>3, Zenon DEF InformationIn
  <2>. HIDE DEF D, E, I, new
  <2>11. InformationIn(ls, n + 1) = WithEntry(I, ls[n + 1])
    BY <2>8, <2>9, <2>10, Zenon
  <2>. QED
    BY <1>2, <2>11 DEF I
<1>. QED
  BY <1>1, <1>2

LEMMA EventStarts ==
    ASSUME NEW Text, NEW b \in Seq(Seq(Text)), EventStart(b)
    PROVE  EventInv(Text)
<1>1. /\ body \in Seq(Seq(Text)) /\ ss = body /\ event = NewEvent
      /\ inGeneralInformation = FALSE /\ state = "reading"
  BY DEF EventStart
<1>2. SubSeq(body, 0 + 1, Len(body)) = body /\ 0 \in 0 .. Len(body)
  BY <1>1
<1>3. SectionIn(body, 0) = {}
  BY DEF SectionIn
<1>4. InformationIn(body, 0) = NoInformation
  BY <1>3 DEF InformationIn, NoInformation
<1>5. \A key : KeyedIn(body, 0, key) = {} /\ FieldIn(body, 0, key, "") = ""
  BY NoneKeyed DEF FieldIn
<1>6. ReadableIn(body, 0) /\ DateIn(body, 0) = 0
  BY <1>3, NoneKeyed DEF ReadableIn, DateIn
<1>7. LinesRead(0)
  BY <1>1, <1>2, <1>4, <1>5, <1>6 DEF LinesRead, NewEvent, Fields
<1>. QED
  BY <1>1, <1>7 DEF EventInv

(* The line that is read next.                                             *)
LEMMA NextLine ==
    ASSUME NEW Text, body \in Seq(Seq(Text)), NEW n \in Nat, LinesRead(n), ss # <<>>
    PROVE  /\ n + 1 \in 1 .. Len(body)
           /\ KeyedIn(body, n, "description") = {}
           /\ Head(ss) = body[n + 1]
           /\ Tail(ss) = SubSeq(body, n + 1 + 1, Len(body))
<1>1. /\ KeyedIn(body, n, "description") = {} /\ ss = SubSeq(body, n + 1, Len(body))
      /\ n \in 0 .. Len(body)
  BY Zenon DEF LinesRead
<1>2. n # Len(body)
  BY <1>1
<1>3. n + 1 \in 1 .. Len(body)
  BY <1>1, <1>2
<1>4. Head(ss) = body[n + 1] /\ Tail(ss) = SubSeq(body, n + 1 + 1, Len(body))
  BY <1>1, <1>3
<1>. QED
  BY <1>1, <1>3, <1>4

(* One that changes nothing but what is still to be read.                  *)
LEMMA ReadableNext ==
    ASSUME NEW ls, NEW n \in Nat, ReadableIn(ls, n),
           HasColon(ls[n + 1]) /\ Key(ls[n + 1]) = "date time" => Val(ls[n + 1]) \in DOMAIN stoi,
           InSection(ls, n) => Key(ls[n + 1]) # ""
    PROVE  ReadableIn(ls, n + 1)
BY KeyedNext, SectionNext, Zenon DEF ReadableIn

LEMMA PlainStep ==
    ASSUME NEW Text, EventInv(Text), state = "reading", ss # <<>>, PlainLine, UNCHANGED body
    PROVE  EventInv(Text)'
<1>1. PICK n \in Nat : LinesRead(n)
  BY DEF EventInv
<1>2. /\ n + 1 \in 1 .. Len(body) /\ KeyedIn(body, n, "description") = {}
      /\ Head(ss) = body[n + 1] /\ Tail(ss) = SubSeq(body, n + 1 + 1, Len(body))
      /\ body \in Seq(Seq(Text))
  BY <1>1, NextLine DEF EventInv
<1>3. /\ ~HasColon(body[n + 1]) /\ ss' = SubSeq(body, n + 1 + 1, Len(body))
      /\ event' = event /\ inGeneralInformation' = inGeneralInformation
      /\ state' = "reading" /\ body' = body
  BY <1>2 DEF PlainLine
<1>4. \A key : KeyedIn(body, n + 1, key) = KeyedIn(body, n, key)
  BY <1>3, KeyedNext
<1>5. ASSUME NEW key
      PROVE  FieldIn(body, n + 1, key, "") = FieldIn(body, n, key, "")
  <2>1. FieldIn(body, n + 1, key, "") =
          IF HasColon(body[n + 1]) /\ Key(body[n + 1]) = key THEN Val(body[n + 1])
          ELSE FieldIn(body, n, key, "")
    BY FieldNext, Zenon
  <2>2. ~(HasColon(body[n + 1]) /\ Key(body[n + 1]) = key)
    BY <1>3, <1>5, Zenon
  <2>. QED
    BY <2>1, <2>2, Zenon
<1>6. DateIn(body, n + 1) = DateIn(body, n)
  BY <1>3, DateNext
<1>7. ~InSection(body, n)
  BY <1>3 DEF InSection
<1>8. InformationIn(body, n + 1) = InformationIn(body, n)
  BY <1>7, InformationNext
<1>9. ReadableIn(body, n + 1)
  BY <1>1, <1>3, <1>7, ReadableNext DEF LinesRead
<1>10. n + 1 \in 0 .. Len(body) /\ n + 1 \in Nat
  BY <1>2
<1>11. LinesRead(n + 1)'
  BY <1>1, <1>2, <1>3, <1>4, <1>5, <1>6, <1>8, <1>9, <1>10, Zenon DEF LinesRead
<1>. QED
  BY <1>2, <1>3, <1>10, <1>11, Zenon DEF EventInv

LEMMA SectionStep ==
    ASSUME NEW Text, EventInv(Text), state = "reading", ss # <<>>, GeneralInformationLine,
           UNCHANGED body
    PROVE  EventInv(Text)'
<1>1. PICK n \in Nat : LinesRead(n)
  BY DEF EventInv
<1>2. /\ n + 1 \in 1 .. Len(body) /\ KeyedIn(body, n, "description") = {}
      /\ Head(ss) = body[n + 1] /\ Tail(ss) = SubSeq(body, n + 1 + 1, Len(body))
      /\ body \in Seq(Seq(Text))
  BY <1>1, NextLine DEF EventInv
<1>3. /\ HasColon(body[n + 1]) /\ Key(body[n + 1]) = "general information"
      /\ ss' = SubSeq(body, n + 1 + 1, Len(body))
      /\ event' = event /\ inGeneralInformation' = TRUE
      /\ state' = "reading" /\ body' = body
  BY <1>2 DEF GeneralInformationLine
<1>4. \A key : key # "general information" => KeyedIn(body, n + 1, key) = KeyedIn(body, n, key)
  BY <1>3, KeyedNext
<1>5. ASSUME NEW key, key # "general information"
      PROVE  FieldIn(body, n + 1, key, "") = FieldIn(body, n, key, "")
  <2>1. FieldIn(body, n + 1, key, "") =
          IF HasColon(body[n + 1]) /\ Key(body[n + 1]) = key THEN Val(body[n + 1])
          ELSE FieldIn(body, n, key, "")
    BY FieldNext, Zenon
  <2>2. ~(HasColon(body[n + 1]) /\ Key(body[n + 1]) = key)
    BY <1>3, <1>5, Zenon
  <2>. QED
    BY <2>1, <2>2, Zenon
<1>6. DateIn(body, n + 1) = DateIn(body, n)
  BY <1>3, DateNext
<1>7. ~InSection(body, n)
  BY <1>3 DEF InSection
<1>8. InformationIn(body, n + 1) = InformationIn(body, n)
  BY <1>7, InformationNext
<1>9. ReadableIn(body, n + 1)
  BY <1>1, <1>3, <1>7, ReadableNext DEF LinesRead
<1>10. n + 1 \in 0 .. Len(body) /\ n + 1 \in Nat
  BY <1>2
<1>12. KeyedIn(body, n + 1, "general information") # {}
  BY <1>3, KeyedNext
<1>13. KeyedIn(body, n + 1, "description") = KeyedIn(body, n, "description")
  BY <1>4
<1>14. /\ FieldIn(body, n + 1, "user", "") = FieldIn(body, n, "user", "")
       /\ FieldIn(body, n + 1, "channel name", "") = FieldIn(body, n, "channel name", "")
       /\ FieldIn(body, n + 1, "city", "") = FieldIn(body, n, "city", "")
       /\ FieldIn(body, n + 1, "event name", "") = FieldIn(body, n, "event name", "")
  BY <1>5
<1>11. LinesRead(n + 1)'
  BY <1>1, <1>2, <1>3, <1>6, <1>8, <1>9, <1>10, <1>12, <1>13, <1>14, Zenon DEF LinesRead
<1>. QED
  BY <1>2, <1>3, <1>10, <1>11, Zenon DEF EventInv

LEMMA FieldStep ==
    ASSUME NEW Text, EventInv(Text), state = "reading", ss # <<>>, FieldLine, UNCHANGED body
    PROVE  EventInv(Text)'
<1>1. PICK n \in Nat : LinesRead(n)
  BY DEF EventInv
<1>. DEFINE line == body[n + 1]
            Set(key, old) == IF Key(line) = key THEN Val(line) ELSE old
            rest == SubSeq(body, n + 1 + 1, Len(body))
<1>2. /\ n + 1 \in 1 .. Len(body) /\ KeyedIn(body, n, "description") = {}
      /\ Head(ss) = line /\ Tail(ss) = rest
      /\ body \in Seq(Seq(Text))
  BY <1>1, NextLine DEF EventInv
<1>3. /\ HasColon(line) /\ Key(line) # "general information" /\ ~Throws(line)
      /\ ss' = IF Key(line) = "description" THEN <<>> ELSE rest
      /\ inGeneralInformation' = inGeneralInformation
      /\ state' = "reading" /\ body' = body
  BY <1>2 DEF FieldLine
<1>4. DOMAIN event = Fields
  BY <1>1 DEF LinesRead
<1>5. /\ DOMAIN event' = Fields
      /\ event'.eventOwnerUser = Set("user", event.eventOwnerUser)
      /\ event'.channel_name = Set("channel name", event.channel_name)
      /\ event'.city = Set("city", event.city)
      /\ event'.name = Set("event name", event.name)
      /\ event'.date_time = IF Key(line) = "date time" THEN stoi[Val(line)] ELSE event.date_time
      /\ event'.description = IF Key(line) = "description" THEN rest ELSE event.description
      /\ event'.general_information =
           IF inGeneralInformation THEN WithEntry(event.general_information, line)
           ELSE event.general_information
  <2>1. event' = [event EXCEPT
           !.eventOwnerUser = Set("user", @),
           !.channel_name = Set("channel name", @),
           !.city = Set("city", @),
           !.name = Set("event name", @),
           !.date_time = IF Key(line) = "date time" THEN stoi[Val(line)] ELSE @,
           !.description = IF Key(line) = "description" THEN rest ELSE @,
           !.general_information = IF inGeneralInformation THEN WithEntry(@, line) ELSE @]
    BY <1>2, Zenon DEF FieldLine
  <2>. HIDE DEF line, Set, rest
  <2>. QED
    BY <1>4, <2>1 DEF Fields
<1>6. \A key : FieldIn(body, n + 1, key, "") = Set(key, FieldIn(body, n, key, ""))
  BY <1>3, FieldNext, ZenonT(40)
<1>7. DateIn(body, n + 1) =
        IF Key(line) = "date time" THEN stoi[Val(line)] ELSE DateIn(body, n)
  BY <1>3, DateNext, Zenon
<1>8. inGeneralInformation <=> InSection(body, n)
  BY <1>1, <1>3, Zenon DEF InSection, LinesRead
<1>9. InformationIn(body, n + 1) =
        IF inGeneralInformation THEN WithEntry(InformationIn(body, n), line)
        ELSE InformationIn(body, n)
  BY <1>8, InformationNext, Zenon
<1>10. ReadableIn(body, n + 1)
  <2>1. Key(line) = "date time" => Val(line) \in DOMAIN stoi
    BY <1>3 DEF Throws
  <2>2. InSection(body, n) => Key(line) # ""
    BY <1>3, <1>8 DEF Throws
  <2>3. ReadableIn(body, n)
    BY <1>1 DEF LinesRead
  <2>. QED
    BY <2>1, <2>2, <2>3, ReadableNext
<1>11. /\ KeyedIn(body, n + 1, "general information") = KeyedIn(body, n, "general information")
       /\ KeyedIn(body, n + 1, "description") = IF Key(line) = "description" THEN {n + 1} ELSE {}
  BY <1>2, <1>3, KeyedNext
<1>12. n + 1 \in 0 .. Len(body) /\ n + 1 \in Nat
  BY <1>2
<1>. HIDE DEF line, rest
<1>13. /\ event'.eventOwnerUser = FieldIn(body, n + 1, "user", "")
       /\ event'.channel_name = FieldIn(body, n + 1, "channel name", "")
       /\ event'.city = FieldIn(body, n + 1, "city", "")
       /\ event'.name = FieldIn(body, n + 1, "event name", "")
       /\ event'.date_time = DateIn(body, n + 1)
       /\ event'.general_information = InformationIn(body, n + 1)
  BY <1>1, <1>5, <1>6, <1>7, <1>9, Zenon DEF LinesRead
<1>14. inGeneralInformation' = (KeyedIn(body, n + 1, "general information") # {})
  BY <1>1, <1>3, <1>11, Zenon DEF LinesRead
<1>15. /\ KeyedIn(body, n + 1, "description") \subseteq {n + 1}
       /\ ss' = IF KeyedIn(body, n + 1, "description") = {} THEN rest ELSE <<>>
       /\ event'.description = IF KeyedIn(body, n + 1, "description") = {} THEN <<>> ELSE rest
  <2>1. event.description = <<>>
    BY <1>1, <1>2, Zenon DEF LinesRead
  <2>. QED
    BY <1>3, <1>5, <1>11, <2>1
<1>16. LinesRead(n + 1)'
  BY <1>3, <1>5, <1>10, <1>12, <1>13, <1>14, <1>15, Zenon DEF LinesRead, rest
<1>. QED
  BY <1>2, <1>3, <1>12, <1>16, Zenon DEF EventInv

LEMMA EventSteps ==
    ASSUME NEW Text, EventInv(Text), [EventNext]_eventVars
    PROVE  EventInv(Text)'
<1>1. CASE UNCHANGED eventVars
  <2>1. /\ body' = body /\ ss' = ss /\ event' = event
        /\ inGeneralInformation' = inGeneralInformation /\ state' = state
    BY <1>1 DEF eventVars
  <2>2. Throws(Head(ss)) => Throws(Head(ss))'
    BY <2>1, Zenon DEF Throws
  <2>. QED
    BY <2>1, <2>2, Zenon DEF EventInv, LinesRead
<1>2. CASE Built /\ UNCHANGED body
  BY <1>2, Zenon DEF Built, EventInv, LinesRead
<1>3. CASE state = "reading" /\ ss # <<>> /\ ThrowingLine /\ UNCHANGED body
  <2>1. /\ HasColon(Head(ss)) /\ Key(Head(ss)) # "general information" /\ Throws(Head(ss))
        /\ ss' = ss /\ event' = event /\ inGeneralInformation' = inGeneralInformation
        /\ state' = "threw" /\ body' = body /\ ss # <<>>
    BY <1>3, Zenon DEF ThrowingLine
  <2>2. Throws(Head(ss))'
    BY <2>1, Zenon DEF Throws
  <2>3. PICK n \in Nat : LinesRead(n)
    BY DEF EventInv
  <2>4. LinesRead(n)'
    BY <2>1, <2>3, Zenon DEF LinesRead
  <2>5. state' # "built"
    BY <2>1
  <2>. QED
    BY <2>1, <2>2, <2>4, <2>5, Zenon DEF EventInv
<1>4. CASE ReadLine /\ UNCHANGED body
  BY <1>3, <1>4, PlainStep, SectionStep, FieldStep, Zenon DEF ReadLine
<1>. QED
  BY <1>1, <1>2, <1>4, Zenon DEF EventNext

(* What the lines read so far give is what the body says.                  *)
LEMMA ParsedIs ==
    ASSUME NEW Text, body \in Seq(Seq(Text)), NEW n \in Nat, n \in 0 .. Len(body),
           KeyedIn(body, n, "description") \subseteq {n},
           KeyedIn(body, n, "description") = {} => n = Len(body)
    PROVE  /\ Parsed(body) = SubSeq(body, 1, n) /\ Len(Parsed(body)) = n
           /\ DOMAIN Parsed(body) = 1 .. n
           /\ \A i \in 1 .. n : Parsed(body)[i] = body[i]
<1>. DEFINE d == Keyed(body, {"description"})
<1>1. DOMAIN body = 1 .. Len(body) /\ Len(body) \in Nat
  OBVIOUS
<1>2. \A i : i \in d <=> i \in 1 .. Len(body) /\ HasColon(body[i]) /\ Key(body[i]) = "description"
  BY <1>1 DEF Keyed
<1>3. \A i \in 1 .. n : i \in d <=> i \in KeyedIn(body, n, "description")
  BY <1>2 DEF KeyedIn
<1>4. Parsed(body) = SubSeq(body, 1, n)
  <2>1. CASE KeyedIn(body, n, "description") = {}
    <3>1. n = Len(body) /\ d = {}
      BY <1>2, <1>3, <2>1
    <3>2. SubSeq(body, 1, Len(body)) = body
      OBVIOUS
    <3>. QED
      BY <3>1, <3>2 DEF Parsed
  <2>2. CASE KeyedIn(body, n, "description") # {}
    <3>1. n \in KeyedIn(body, n, "description")
      BY <2>2
    <3>2. n \in 1 .. n
      BY <3>1 DEF KeyedIn
    <3>3. n \in d /\ \A i \in d : i >= n
      <4>1. n \in d
        BY <1>3, <3>1, <3>2
      <4>2. \A i \in d : i \in Nat
        BY <1>2
      <4>3. \A i \in d : i \in 1 .. n => i = n
        BY <1>3
      <4>4. \A i \in d : i >= 1
        BY <1>2
      <4>. HIDE DEF d
      <4>. QED
        BY <4>1, <4>2, <4>3, <4>4
    <3>4. Min(d) = n
      <4>1. d \in SUBSET Nat /\ d # {}
        BY <1>2, <3>3
      <4>. HIDE DEF d
      <4>2. Min(d) \in d /\ \A y \in d : Min(d) =< y
        BY <4>1, MinIsLeast
      <4>3. n \in d /\ Min(d) =< n /\ Min(d) >= n /\ Min(d) \in Nat
        BY <3>3, <4>1, <4>2
      <4>. QED
        BY <4>3
    <3>5. d # {}
      BY <3>3
    <3>. QED
      BY <3>4, <3>5, Zenon DEF Parsed
  <2>. QED
    BY <2>1, <2>2
<1>. QED
  BY <1>4

(* Of a body of which n lines were parsed.                                 *)
AllParsed(n) ==
    /\ n \in 0 .. Len(body) /\ DOMAIN body = 1 .. Len(body)
    /\ DOMAIN Parsed(body) = 1 .. n /\ Len(Parsed(body)) \in Nat
    /\ \A i \in 1 .. n : Parsed(body)[i] = body[i]

LEMMA KeyedParsed ==
    ASSUME NEW n \in Nat, AllParsed(n)
    PROVE  \A key : Keyed(Parsed(body), {key}) = KeyedIn(body, n, key)
BY DEF AllParsed, Keyed, KeyedIn

LEMMA FieldParsed ==
    ASSUME NEW n \in Nat, AllParsed(n)
    PROVE  \A key : FieldOf(body, key, "") = FieldIn(body, n, key, "")
BY KeyedParsed, Zenon DEF FieldOf, FieldIn

LEMMA SectionParsed ==
    ASSUME NEW n \in Nat, AllParsed(n)
    PROVE  Section(body) = SectionIn(body, n)
<1>. DEFINE g == KeyedIn(body, n, "general information")
<1>1. Keyed(Parsed(body), {"general information"}) = g
  BY KeyedParsed
<1>2. g \in SUBSET Nat
  <2>1. g \subseteq 1 .. n
    BY Zenon DEF KeyedIn
  <2>. HIDE DEF g
  <2>. QED
    BY <2>1
<1>3. DOMAIN Parsed(body) = 1 .. n
  BY DEF AllParsed
<1>. HIDE DEF g
<1>4. \A i \in 1 .. n : (g # {} /\ i > Min(g)) <=> \E h \in g : h < i
  <2>1. g # {} => Min(g) \in g /\ Min(g) \in Nat /\ \A h \in g : h \in Nat /\ Min(g) =< h
    BY <1>2, MinIsLeast
  <2>. QED
    BY <2>1
<1>5. \A i : i \in Section(body) <=>
               /\ i \in 1 .. n /\ HasColon(body[i]) /\ (g # {} /\ i > Min(g))
               /\ Key(body[i]) # "general information"
  BY <1>1, <1>3, Zenon DEF Section
<1>6. \A i : i \in SectionIn(body, n) <=>
               /\ i \in 1 .. n /\ HasColon(body[i]) /\ (\E h \in g : h < i)
               /\ Key(body[i]) # "general information"
  BY Zenon DEF SectionIn, g
<1>7. \A i : i \in Section(body) <=> i \in SectionIn(body, n)
  BY <1>4, <1>5, <1>6, Zenon
<1>. QED
  BY <1>7, Zenon

LEMMA InformationParsed ==
    ASSUME NEW n \in Nat, AllParsed(n)
    PROVE  InformationOf(body) = InformationIn(body, n)
BY SectionParsed, Zenon DEF InformationOf, LinesNamed, InformationIn, EntryIn, Entry

LEMMA BuiltIsWritten ==
    ASSUME NEW Text, EventInv(Text), state = "built"
    PROVE  /\ ~Unreadable(body)
           /\ event.eventOwnerUser = FieldOf(body, "user", "")
           /\ event.channel_name = FieldOf(body, "channel name", "")
           /\ event.city = FieldOf(body, "city", "")
           /\ event.name = FieldOf(body, "event name", "")
           /\ event.date_time = IF Keyed(Parsed(body), {"date time"}) = {} THEN 0
                                ELSE stoi[FieldOf(body, "date time", "")]
           /\ event.description = SubSeq(body, Len(Parsed(body)) + 1, Len(body))
           /\ event.general_information = InformationOf(body)
<1>1. PICK n \in Nat : LinesRead(n) /\ ss = <<>>
  BY DEF EventInv
<1>2. body \in Seq(Seq(Text))
  BY DEF EventInv
<1>3. n \in 0 .. Len(body) /\ KeyedIn(body, n, "description") \subseteq {n}
  BY <1>1, Zenon DEF LinesRead
<1>4. KeyedIn(body, n, "description") = {} => n = Len(body)
  <2>. SUFFICES ASSUME KeyedIn(body, n, "description") = {}
                PROVE  n = Len(body)
    OBVIOUS
  <2>1. SubSeq(body, n + 1, Len(body)) = <<>>
    BY <1>1, Zenon DEF LinesRead
  <2>2. n < Len(body) => SubSeq(body, n + 1, Len(body)) # <<>>
    <3>1. n < Len(body) => Len(SubSeq(body, n + 1, Len(body))) = Len(body) - n
      BY <1>2, <1>3
    <3>2. Len(<<>>) = 0 /\ (n < Len(body) => Len(body) - n # 0)
      BY <1>2, <1>3
    <3>. QED
      BY <3>1, <3>2, Zenon
  <2>. QED
    BY <1>2, <1>3, <2>1, <2>2
<1>5. Parsed(body) = SubSeq(body, 1, n) /\ Len(Parsed(body)) = n /\ AllParsed(n)
  BY <1>2, <1>3, <1>4, ParsedIs DEF AllParsed
<1>6. ~Unreadable(body)
  BY <1>1, <1>5, KeyedParsed, SectionParsed, Zenon DEF Unreadable, LinesRead, ReadableIn
<1>7. event.date_time = IF Keyed(Parsed(body), {"date time"}) = {} THEN 0
                        ELSE stoi[FieldOf(body, "date time", "")]
  BY <1>1, <1>5, KeyedParsed, FieldParsed, Zenon DEF LinesRead, DateIn
<1>8. event.description = SubSeq(body, n + 1, Len(body))
  <2>1. CASE KeyedIn(body, n, "description") = {}
    <3>1. SubSeq(body, n + 1, Len(body)) = <<>>
      BY <1>1, <2>1, Zenon DEF LinesRead
    <3>. QED
      BY <1>1, <2>1, <3>1, Zenon DEF LinesRead
  <2>2. CASE KeyedIn(body, n, "description") # {}
    BY <1>1, <2>2, Zenon DEF LinesRead
  <2>. QED
    BY <2>1, <2>2
<1>9. /\ event.eventOwnerUser = FieldOf(body, "user", "")
      /\ event.channel_name = FieldOf(body, "channel name", "")
      /\ event.city = FieldOf(body, "city", "")
      /\ event.name = FieldOf(body, "event name", "")
      /\ event.general_information = InformationOf(body)
  BY <1>1, <1>5, FieldParsed, InformationParsed, Zenon DEF LinesRead
<1>. QED
  BY <1>5, <1>6, <1>7, <1>8, <1>9, Zenon

(* The line that made it throw is one the body's fields are taken from.    *)
LEMMA ThrewOfUnreadable ==
    ASSUME NEW Text, EventInv(Text), state = "threw"
    PROVE  Unreadable(body)
<1>1. PICK n \in Nat : /\ LinesRead(n) /\ ss # <<>> /\ HasColon(Head(ss))
                       /\ Key(Head(ss)) # "general information" /\ Throws(Head(ss))
  BY DEF EventInv
<1>. DEFINE line == body[n + 1]
<1>2. /\ n + 1 \in 1 .. Len(body) /\ KeyedIn(body, n, "description") = {}
      /\ Head(ss) = line /\ body \in Seq(Seq(Text))
  BY <1>1, NextLine DEF EventInv
<1>3. /\ HasColon(line) /\ Key(line) # "general information"
      /\ \/ Key(line) = "date time" /\ Val(line) \notin DOMAIN stoi
         \/ Key(line) = "" /\ inGeneralInformation
  BY <1>1, <1>2, Zenon DEF Throws
<1>4. PICK m \in Nat : /\ m >= n + 1 /\ m \in 0 .. Len(body)
                       /\ KeyedIn(body, m, "description") \subseteq {m}
                       /\ KeyedIn(body, m, "description") = {} => m = Len(body)
  <2>. DEFINE d == Keyed(body, {"description"})
  <2>1. DOMAIN body = 1 .. Len(body) /\ Len(body) \in Nat
    BY <1>2
  <2>2. \A i : i \in d <=> i \in 1 .. Len(body) /\ HasColon(body[i]) /\ Key(body[i]) = "description"
    BY <2>1 DEF Keyed
  <2>3. \A m \in 0 .. Len(body) : \A i : i \in KeyedIn(body, m, "description") <=> i \in d /\ i \in 1 .. m
    BY <2>2 DEF KeyedIn
  <2>4. d \subseteq 1 .. Len(body)
    BY <2>2
  <2>5. \A i \in 1 .. n : i \notin d
    BY <1>1, <1>2, <2>3 DEF LinesRead
  <2>. HIDE DEF d
  <2>6. CASE d = {}
    <3>1. Len(body) \in 0 .. Len(body) /\ KeyedIn(body, Len(body), "description") = {}
      BY <2>1, <2>3, <2>6
    <3>2. Len(body) >= n + 1 /\ Len(body) \in Nat
      BY <1>2, <2>1
    <3>3. KeyedIn(body, Len(body), "description") \subseteq {Len(body)}
      BY <3>1
    <3>. QED
      BY <3>1, <3>2, <3>3, Zenon
  <2>7. CASE d # {}
    <3>1. d \in SUBSET Nat
      BY <2>4
    <3>2. PICK m \in d : \A y \in d : m =< y
      BY <2>7, <3>1, LeastElement
    <3>3. m \in 0 .. Len(body) /\ m \in 1 .. m /\ m \in Nat /\ m >= n + 1
      BY <2>1, <2>4, <2>5, <3>1, <3>2
    <3>4. KeyedIn(body, m, "description") = {m}
      BY <2>3, <3>1, <3>2, <3>3
    <3>. QED
      BY <3>3, <3>4
  <2>. QED
    BY <2>6, <2>7
<1>5. AllParsed(m)
  BY <1>2, <1>4, ParsedIs DEF AllParsed
<1>7. CASE Key(line) = "date time" /\ Val(line) \notin DOMAIN stoi
  <2>1. n + 1 \in 1 .. m
    BY <1>2, <1>4
  <2>2. n + 1 \in KeyedIn(body, m, "date time")
    BY <1>3, <1>7, <2>1, Zenon DEF KeyedIn
  <2>. QED
    BY <1>5, <1>7, <2>2, KeyedParsed, Zenon DEF Unreadable
<1>8. CASE Key(line) = "" /\ inGeneralInformation
  <2>1. n + 1 \in 1 .. m /\ \A g \in 1 .. n : g \in 1 .. m /\ g < n + 1
    BY <1>2, <1>4
  <2>2. PICK g : g \in KeyedIn(body, n, "general information")
    BY <1>1, <1>8, Zenon DEF LinesRead
  <2>3. g \in KeyedIn(body, m, "general information") /\ g < n + 1
    BY <2>1, <2>2, Zenon DEF KeyedIn
  <2>4. n + 1 \in SectionIn(body, m)
    BY <1>3, <2>1, <2>3, Zenon DEF SectionIn
  <2>. QED
    BY <1>5, <1>8, <2>4, SectionParsed, Zenon DEF Unreadable
<1>. QED
  BY <1>3, <1>7, <1>8

(* The constructor, given the lines of some text.                          *)
EventSpec(Text) == (\E b \in Seq(Seq(Text)) : EventStart(b)) /\ [][EventNext]_eventVars

(* Event(frame_body) takes from every body what it says of each field, the *)
(* last line of a key before the description, the entries of the section   *)
(* and all that follows the description; and it throws exactly for bodies  *)
(* with a date that is no number or an entry without a key.                *)
THEOREM EventIsBuiltAsWritten ==
    ASSUME NEW CONSTANT Text
    PROVE  EventSpec(Text) => []BuiltAsWritten
<1>1. (\E b \in Seq(Seq(Text)) : EventStart(b)) => EventInv(Text)
  BY EventStarts
<1>2. EventInv(Text) /\ [EventNext]_eventVars => EventInv(Text)'
  BY EventSteps
<1>3. EventInv(Text) => BuiltAsWritten
  BY BuiltIsWritten, ThrewOfUnreadable, Zenon DEF BuiltAsWritten
<1>. QED
  BY <1>1, <1>2, <1>3, PTL DEF EventSpec

-----------------------------------------------------------------------------
(* The events file.                                                        *)

(* The keys of an object are each met.                                     *)
LEMMA KeysAre ==
    ASSUME NEW S, Values(S), NEW v \in S, IsObject(v)
    PROVE  /\ KeysOf(v) \in Seq(STRING)
           /\ Len(KeysOf(v)) \in Nat /\ DOMAIN KeysOf(v) = 1 .. Len(KeysOf(v))
           /\ Range(KeysOf(v)) = DOMAIN v.members
<1>. DEFINE ks == [i \in DOMAIN KeyOrder |->
                     IF KeyOrder[i] \in DOMAIN v.members THEN <<KeyOrder[i]>> ELSE <<>>]
<1>1. /\ KeyOrder \in Seq(STRING) /\ DOMAIN KeyOrder = 1 .. Len(KeyOrder) /\ Len(KeyOrder) \in Nat
      /\ DOMAIN v.members \subseteq Range(KeyOrder)
  BY EventsFileAssumption DEF Values
<1>2. ks \in Seq(Seq(STRING)) /\ Len(ks) = Len(KeyOrder)
  <2>1. \A i \in 1 .. Len(KeyOrder) : <<KeyOrder[i]>> \in Seq(STRING) /\ <<>> \in Seq(STRING)
    BY <1>1
  <2>2. \A i \in 1 .. Len(KeyOrder) : ks[i] \in Seq(STRING)
    BY <1>1, <2>1
  <2>3. ks = [i \in 1 .. Len(KeyOrder) |-> ks[i]]
    BY <1>1
  <2>. HIDE DEF ks
  <2>. QED
    BY <1>1, <2>2, <2>3
<1>3. KeysOf(v) = FlattenSeq(ks)
  BY Zenon DEF KeysOf
<1>4. \A i \in 1 .. Len(KeyOrder) :
        ks[i] = IF KeyOrder[i] \in DOMAIN v.members THEN <<KeyOrder[i]>> ELSE <<>>
  BY <1>1
<1>. HIDE DEF ks
<1>5. FlattenSeq(ks) \in Seq(STRING)
  BY <1>2, FlattenType
<1>6. ASSUME NEW k \in Range(FlattenSeq(ks))
      PROVE  k \in DOMAIN v.members
  <2>1. PICK i \in 1 .. Len(ks) : k \in Range(ks[i])
    BY <1>2, FlattenRange
  <2>2. ks[i] = IF KeyOrder[i] \in DOMAIN v.members THEN <<KeyOrder[i]>> ELSE <<>>
    BY <1>2, <1>4
  <2>3. Range(<<>>) = {} /\ Range(<<KeyOrder[i]>>) = {KeyOrder[i]}
    BY DEF Range
  <2>. QED
    BY <2>1, <2>2, <2>3
<1>7. ASSUME NEW k \in DOMAIN v.members
      PROVE  k \in Range(FlattenSeq(ks))
  <2>1. PICK i \in 1 .. Len(KeyOrder) : KeyOrder[i] = k
    BY <1>1 DEF Range
  <2>2. ks[i] = <<k>> /\ i \in 1 .. Len(ks)
    BY <1>2, <1>4, <2>1
  <2>3. k \in Range(<<k>>)
    BY DEF Range
  <2>4. k \in Range(ks[i])
    BY <2>2, <2>3
  <2>. QED
    BY <1>2, <2>2, <2>4, FlattenKeeps
<1>8. Range(FlattenSeq(ks)) = DOMAIN v.members
  BY <1>6, <1>7, Zenon
<1>9. \A t \in Seq(STRING) : Len(t) \in Nat /\ DOMAIN t = 1 .. Len(t)
  OBVIOUS
<1>. QED
  BY <1>3, <1>5, <1>8, <1>9, Zenon

(* A loop over a value is one over a sequence of values.                   *)
LEMMA ElementsOf ==
    ASSUME NEW S, Values(S), NEW v \in S
    PROVE  /\ Elements(v) \in Seq(S)
           /\ DOMAIN Elements(v) = 1 .. Len(Elements(v)) /\ Len(Elements(v)) \in Nat
           /\ v.type = "array" => Elements(v) = v.items
           /\ IsObject(v) => /\ DOMAIN Elements(v) = DOMAIN KeysOf(v)
                             /\ \A i \in DOMAIN KeysOf(v) : Elements(v)[i] = v.members[KeysOf(v)[i]]
           /\ IsNull(v) => Elements(v) = <<>>
           /\ v.type \notin {"array", "object", "null"} => Elements(v) = <<v>>
<1>. DEFINE ms == [i \in DOMAIN KeysOf(v) |-> v.members[KeysOf(v)[i]]]
<1>1. CASE v.type = "array"
  <2>1. Elements(v) = v.items
    BY <1>1 DEF Elements
  <2>2. v.items \in Seq(S)
    BY <1>1 DEF Values
  <2>. QED
    BY <1>1, <2>1, <2>2 DEF IsObject, IsNull
<1>2. CASE v.type = "object"
  <2>1. Elements(v) = ms
    BY <1>2, Zenon DEF Elements
  <2>2. /\ DOMAIN KeysOf(v) = 1 .. Len(KeysOf(v)) /\ Len(KeysOf(v)) \in Nat
        /\ Range(KeysOf(v)) = DOMAIN v.members
    BY <1>2, KeysAre DEF IsObject
  <2>3. \A i \in DOMAIN KeysOf(v) : v.members[KeysOf(v)[i]] \in S
    BY <1>2, <2>2 DEF Values, IsObject, Range
  <2>4. \A i \in DOMAIN KeysOf(v) : ms[i] = v.members[KeysOf(v)[i]] /\ ms[i] \in S
    BY <2>3
  <2>5. ms = [i \in 1 .. Len(KeysOf(v)) |-> ms[i]] /\ DOMAIN ms = DOMAIN KeysOf(v)
    BY <2>2
  <2>. HIDE DEF ms
  <2>6. ms \in Seq(S) /\ DOMAIN ms = 1 .. Len(ms) /\ Len(ms) \in Nat
    BY <2>2, <2>4, <2>5
  <2>. QED
    BY <1>2, <2>1, <2>4, <2>5, <2>6 DEF IsObject, IsNull
<1>3. CASE v.type = "null"
  <2>1. Elements(v) = <<>>
    BY <1>3 DEF Elements
  <2>. QED
    BY <1>3, <2>1 DEF IsObject, IsNull
<1>4. CASE v.type \notin {"array", "object", "null"}
  <2>1. Elements(v) = <<v>>
    BY <1>4 DEF Elements
  <2>2. <<v>> \in Seq(S) /\ DOMAIN <<v>> = 1 .. Len(<<v>>) /\ Len(<<v>>) \in Nat
    OBVIOUS
  <2>. QED
    BY <1>4, <2>1, <2>2 DEF IsObject, IsNull
<1>. QED
  BY <1>1, <1>2, <1>3, <1>4

(* What operator[] gives is a value too.                                   *)
LEMMA AtValue ==
    ASSUME NEW S, Values(S), NEW v \in S, NEW key
    PROVE  At(v, key) \in S
BY DEF At, Values
(* static_cast<int> of an integer: the int that differs from it by so many *)
(* times as there are ints.                                                *)
LEMMA WrappedIs ==
    ASSUME NEW n \in Int
    PROVE  /\ Wrapped(n) \in IntMin .. IntMax
           /\ (Wrapped(n) - n) % IntCount = 0
           /\ n \in IntMin .. IntMax => Wrapped(n) = n
<1>. DEFINE C == IntCount
            a == n - IntMin
            q == a \div C
            r == a % C
<1>0. \A m \in Nat \ {0}, x \in Int :
         x \div m \in Int /\ x % m \in 0 .. m - 1 /\ x = m * (x \div m) + (x % m)
  OBVIOUS
<1>1. C \in Nat \ {0} /\ IntMin \in Int /\ IntMax \in Int /\ C = IntMax - IntMin + 1
  BY EventsFileAssumption DEF IntCount, IntMin
<1>2. a \in Int
  BY <1>1
<1>. HIDE DEF C, a
<1>3. q \in Int /\ r \in 0 .. C - 1 /\ a = C * q + r
  BY <1>0, <1>1, <1>2, Zenon
<1>4. Wrapped(n) = r + IntMin
  BY DEF Wrapped, C, a
<1>. HIDE DEF q, r
<1>5. Wrapped(n) \in IntMin .. IntMax
  BY <1>1, <1>3, <1>4
<1>6. (Wrapped(n) - n) % C = 0
  <2>1. C * q \in Int /\ Wrapped(n) - n = -(C * q) /\ -(C * q) = C * (-q) /\ -q \in Int
    BY <1>1, <1>3, <1>4 DEF a
  <2>2. \A k \in Int : (C * k) % C = 0
    <3>. TAKE k \in Int
    <3>. DEFINE d == (C * k) \div C
                m == (C * k) % C
    <3>1. C * k \in Int
      BY <1>1
    <3>2. d \in Int /\ m \in 0 .. C - 1 /\ C * k = C * d + m
      BY <1>0, <1>1, <3>1, Zenon
    <3>. HIDE DEF d, m
    <3>. DEFINE j == k - d
    <3>3. j \in Int /\ C * j = m
      BY <1>1, <3>2
    <3>. HIDE DEF j
    <3>4. ~(j >= 1)
      <4>. SUFFICES ASSUME j >= 1
                    PROVE  FALSE
        OBVIOUS
      <4>1. j - 1 \in Nat /\ C * j = C + C * (j - 1) /\ C * (j - 1) \in Nat
        BY <1>1, <3>3
      <4>. QED
        BY <1>1, <3>2, <3>3, <4>1
    <3>5. ~(j =< -1)
      <4>. SUFFICES ASSUME j =< -1
                    PROVE  FALSE
        OBVIOUS
      <4>1. -j - 1 \in Nat /\ C * j = -(C + C * (-j - 1)) /\ C * (-j - 1) \in Nat
        BY <1>1, <3>3
      <4>. QED
        BY <1>1, <3>2, <3>3, <4>1
    <3>6. m = 0
      BY <1>1, <3>3, <3>4, <3>5
    <3>. QED
      BY <3>6 DEF m
  <2>. QED
    BY <2>1, <2>2
<1>7. ASSUME n \in IntMin .. IntMax
      PROVE  Wrapped(n) = n
  <2>1. a \in 0 .. C - 1
    BY <1>1, <1>7 DEF a
  <2>2. a % C = a
    BY <1>1, <2>1
  <2>. QED
    BY <1>1, <1>4, <2>2 DEF r, a
<1>. QED
  BY <1>5, <1>6, <1>7 DEF C

-----------------------------------------------------------------------------
(* What the loop has read of a value v, and what it refuses.               *)
EventsOf(v)   == Elements(At(v, "events"))
HasChannel(v) == Subscripts(v) /\ IsString(At(v, "channel_name"))

MadeOf(e, x) ==
    /\ x.name = At(e, "event_name").value
    /\ x.city = At(e, "city").value
    /\ x.description = At(e, "description").value
    /\ x.date_time \in IntOf(At(e, "date_time"))
    /\ x.general_information = Information(At(e, "general_information"))

ReadSoFar(v, n, es) ==
    /\ HasChannel(v)
    /\ n \in 1 .. Len(EventsOf(v)) + 1 /\ Len(es) = n - 1
    /\ \A i \in 1 .. n - 1 : Converts(EventsOf(v)[i]) /\ MadeOf(EventsOf(v)[i], es[i])

Refuses(v, n) ==
    IF n = 0 THEN ~HasChannel(v)
    ELSE n \in 1 .. Len(EventsOf(v)) /\ ~Converts(EventsOf(v)[n])

FileInv(S) ==
    /\ data \in S
    /\ outcome \in {"reading", "returned", "threw"}
    /\ \E T : events \in Seq(T)
    /\ \/ next = 0 /\ events = <<>> /\ outcome # "returned"
       \/ next # 0 /\ ReadSoFar(data, next, events)
    /\ outcome = "returned" => next = Len(EventsOf(data)) + 1
    /\ outcome = "threw" => Refuses(data, next)

(* The event that converts is one more of those read.                      *)
LEMMA OneMoreEvent ==
    ASSUME NEW S, Values(S), NEW v \in S, NEW n, NEW T, NEW es \in Seq(T), ReadSoFar(v, n, es),
           n \in DOMAIN EventsOf(v), Converts(EventsOf(v)[n]),
           NEW x, MadeOf(EventsOf(v)[n], x)
    PROVE  ReadSoFar(v, n + 1, Append(es, x))
<1>1. DOMAIN EventsOf(v) = 1 .. Len(EventsOf(v)) /\ Len(EventsOf(v)) \in Nat
  BY AtValue, ElementsOf DEF EventsOf
<1>2. /\ HasChannel(v) /\ n \in 1 .. Len(EventsOf(v)) /\ Len(es) = n - 1
      /\ \A i \in 1 .. n - 1 : Converts(EventsOf(v)[i]) /\ MadeOf(EventsOf(v)[i], es[i])
  BY <1>1 DEF ReadSoFar
<1>. DEFINE fs == Append(es, x)
<1>3. Len(fs) = n /\ fs[n] = x /\ \A i \in 1 .. n - 1 : fs[i] = es[i]
  <2>1. es \in Seq(T \cup {x}) /\ x \in T \cup {x}
    OBVIOUS
  <2>. QED
    BY <1>2, <2>1, Appended
<1>. HIDE DEF fs
<1>4. n + 1 \in 1 .. Len(EventsOf(v)) + 1 /\ n + 1 - 1 = n /\ n \in Nat
  BY <1>1, <1>2
<1>5. \A i \in 1 .. n : Converts(EventsOf(v)[i]) /\ MadeOf(EventsOf(v)[i], fs[i])
  <2>. TAKE i \in 1 .. n
  <2>1. i = n \/ i \in 1 .. n - 1
    BY <1>4
  <2>. QED
    BY <1>2, <1>3, <2>1
<1>. QED
  BY <1>2, <1>3, <1>4, <1>5 DEF ReadSoFar, fs

(* Nothing is read before the first step.                                  *)
LEMMA FileStarts ==
    ASSUME NEW S, NEW v \in S, FileStart(v)
    PROVE  FileInv(S)
<1>1. <<>> \in Seq(S)
  OBVIOUS
<1>. QED
  BY <1>1 DEF FileStart, FileInv

(* Each step reads the channel, or one event, or ends the loop.            *)
LEMMA FileSteps ==
    ASSUME NEW CONSTANT S, Values(S), FileInv(S), [FileNext]_fileVars
    PROVE  FileInv(S)'
<1>1. CASE UNCHANGED fileVars
  BY <1>1, Zenon DEF fileVars, FileInv, ReadSoFar, Refuses, EventsOf, HasChannel, MadeOf
<1>. SUFFICES ASSUME FileNext
              PROVE  FileInv(S)'
  BY <1>1
<1>2. /\ data \in S /\ data' = data /\ outcome = "reading"
      /\ \/ next = 0 /\ events = <<>>
         \/ next # 0 /\ ReadSoFar(data, next, events)
  BY DEF FileNext, FileInv
<1>3. PICK T : events \in Seq(T)
  BY DEF FileInv
<1>4. EventsOf(data) = Events /\ Len(Events) \in Nat /\ DOMAIN Events = 1 .. Len(Events)
  BY <1>2, AtValue, ElementsOf DEF EventsOf, Events
<1>5. ASSUME NEW n, NEW es, NEW o,
             next' = n, events' = es, outcome' = o,
             o \in {"reading", "returned", "threw"}, NEW U, es \in Seq(U),
             \/ n = 0 /\ es = <<>> /\ o # "returned"
             \/ n # 0 /\ ReadSoFar(data, n, es),
             o = "returned" => n = Len(EventsOf(data)) + 1,
             o = "threw" => Refuses(data, n)
      PROVE  FileInv(S)'
  BY <1>2, <1>5, Zenon DEF FileInv, ReadSoFar, Refuses, EventsOf, HasChannel, MadeOf
<1>6. CASE ReadChannel
  <2>1. next = 0 /\ events = <<>>
    BY <1>2, <1>6 DEF ReadChannel, ReadSoFar
  <2>2. CASE HasChannel(data)
    <3>1. next' = 1 /\ events' = events /\ outcome' = outcome
      BY <1>6, <2>2 DEF ReadChannel, HasChannel
    <3>2. ReadSoFar(data, 1, events)
      BY <1>4, <2>1, <2>2 DEF ReadSoFar
    <3>. QED
      BY <1>2, <1>3, <1>5, <3>1, <3>2
  <2>3. CASE ~HasChannel(data)
    <3>1. outcome' = "threw" /\ next' = next /\ events' = events
      BY <1>6, <2>3 DEF ReadChannel, HasChannel, Throw
    <3>2. Refuses(data, 0)
      BY <2>3 DEF Refuses
    <3>. QED
      BY <1>3, <1>5, <2>1, <3>1, <3>2
  <2>. QED
    BY <2>2, <2>3
<1>7. CASE ReadEvent
  <2>1. next \in 1 .. Len(Events) /\ next # 0 /\ next + 1 # 0 /\ ReadSoFar(data, next, events)
    BY <1>2, <1>4, <1>7 DEF ReadEvent
  <2>2. CASE Converts(Events[next])
    <3>1. PICK date \in IntOf(At(Events[next], "date_time")) :
            /\ events' = Append(events, EventOf(Events[next], date))
            /\ next' = next + 1 /\ outcome' = outcome
      BY <1>7, <2>2 DEF ReadEvent
    <3>. DEFINE x == EventOf(Events[next], date)
    <3>2. MadeOf(Events[next], x)
      BY DEF MadeOf, EventOf
    <3>. HIDE DEF x
    <3>3. ReadSoFar(data, next + 1, Append(events, x))
      BY <1>2, <1>3, <1>4, <2>1, <2>2, <3>2, OneMoreEvent
    <3>4. Append(events, x) \in Seq(T \cup {x})
      <4>1. events \in Seq(T \cup {x}) /\ x \in T \cup {x}
        BY <1>3
      <4>. QED
        BY <4>1
    <3>5. events' = Append(events, x)
      BY <3>1 DEF x
    <3>6. /\ next' = next + 1 /\ outcome' = "reading" /\ "reading" \in {"reading", "returned", "threw"}
          /\ "reading" # "returned" /\ "reading" # "threw" /\ next + 1 # 0
      BY <1>2, <2>1, <3>1
    <3>. QED
      BY <1>5, <3>3, <3>4, <3>5, <3>6, Zenon
  <2>3. CASE ~Converts(Events[next])
    <3>1. outcome' = "threw" /\ next' = next /\ events' = events
      BY <1>7, <2>3 DEF ReadEvent, Throw
    <3>2. Refuses(data, next)
      BY <1>4, <2>1, <2>3 DEF Refuses
    <3>. QED
      BY <1>3, <1>5, <2>1, <3>1, <3>2
  <2>. QED
    BY <2>2, <2>3
<1>8. CASE ReturnEvents
  <2>1. next = Len(Events) + 1 /\ next # 0 /\ outcome' = "returned" /\ next' = next /\ events' = events
    BY <1>4, <1>8 DEF ReturnEvents
  <2>. QED
    BY <1>2, <1>3, <1>4, <1>5, <2>1
<1>. QED
  BY <1>6, <1>7, <1>8 DEF FileNext
-----------------------------------------------------------------------------
(* A member that is there and fits is what operator[] and get<> see.       *)
LEMMA MemberAt ==
    ASSUME NEW v, NEW strings, HasForm(v, strings), NEW k \in strings
    PROVE  IsObject(v) /\ Subscripts(v) /\ At(v, k) = v.members[k] /\ IsString(At(v, k))
BY DEF HasForm, Subscripts, At

(* A text where one is read can only be a member of an object.             *)
LEMMA TextsOfObjects ==
    ASSUME NEW v, NEW strings, Subscripts(v), strings # {},
           \A k \in strings : IsString(At(v, k))
    PROVE  HasForm(v, strings)
<1>1. ~IsString(NullValue)
  BY DEF IsString, NullValue
<1>2. \A k \in strings : IsObject(v) /\ k \in DOMAIN v.members /\ At(v, k) = v.members[k]
  BY <1>1 DEF At
<1>. QED
  BY <1>2 DEF HasForm

(* What Coerced makes an event of is what the conversions let through.     *)
LEMMA CoercedIs ==
    ASSUME NEW e, IsObject(e)
    PROVE  IsEvent(Coerced(e)) <=> Converts(e)
<1>. DEFINE date == IF "date_time" \in DOMAIN e.members THEN e.members["date_time"] ELSE NullValue
            texts == {"event_name", "city", "description"}
            c == Coerced(e)
<1>1. /\ c.type = "object"
      /\ DOMAIN c.members = DOMAIN e.members \cup {"general_information", "date_time"}
      /\ c.members["general_information"].type = "object"
      /\ c.members["date_time"] = IF date.type \in {"float", "boolean"}
                                    THEN [type |-> "number", value |-> 0] ELSE date
      /\ \A k \in texts : k \in DOMAIN e.members => c.members[k] = e.members[k]
  <2>. DEFINE ms == [k \in DOMAIN e.members \cup {"general_information", "date_time"} |->
           CASE k = "general_information" -> [type |-> "object", members |-> [l \in {} |-> NullValue]]
             [] k = "date_time" -> IF date.type \in {"float", "boolean"}
                                     THEN [type |-> "number", value |-> 0] ELSE date
             [] OTHER -> e.members[k]]
  <2>1. c = [type |-> "object", members |-> ms]
    BY Zenon DEF Coerced
  <2>2. c.type = "object" /\ c.members = ms
    BY <2>1
  <2>3. DOMAIN ms = DOMAIN e.members \cup {"general_information", "date_time"}
    OBVIOUS
  <2>4. ms["general_information"] = [type |-> "object", members |-> [l \in {} |-> NullValue]]
    BY Zenon
  <2>5. ms["date_time"] = IF date.type \in {"float", "boolean"}
                            THEN [type |-> "number", value |-> 0] ELSE date
    <3>. HIDE DEF date
    <3>. QED
      OBVIOUS
  <2>6. \A k \in texts : k \in DOMAIN e.members => ms[k] = e.members[k]
    <3>. HIDE DEF date
    <3>. QED
      OBVIOUS
  <2>7. [type |-> "object", members |-> [l \in {} |-> NullValue]].type = "object"
    OBVIOUS
  <2>. HIDE DEF ms, c, date
  <2>. QED
    BY <2>2, <2>3, <2>4, <2>5, <2>6, <2>7
<1>2. date = At(e, "date_time")
  BY DEF At
<1>. HIDE DEF c, date
<1>3. c.members["date_time"].type = "number" <=> IsNumeric(date)
  <2>1. [type |-> "number", value |-> 0].type = "number"
    OBVIOUS
  <2>. QED
    BY <1>1, <2>1 DEF IsNumeric
<1>4. /\ Subscripts(e) /\ IsObject(c)
      /\ IsObject(c.members["general_information"])
      /\ "general_information" \in DOMAIN c.members /\ "date_time" \in DOMAIN c.members
  BY <1>1 DEF Subscripts, IsObject
<1>5. HasForm(c, texts) <=> \A k \in texts : IsString(At(e, k))
  <2>1. ~IsString(NullValue)
    BY DEF IsString, NullValue
  <2>2. \A k \in texts : k \in DOMAIN c.members <=> k \in DOMAIN e.members
    BY <1>1
  <2>3. \A k \in texts : IsString(At(e, k)) <=> k \in DOMAIN e.members /\ IsString(e.members[k])
    BY <2>1 DEF At
  <2>. QED
    BY <1>1, <1>4, <2>2, <2>3 DEF HasForm
<1>. QED
  BY <1>2, <1>3, <1>4, <1>5, Zenon DEF IsEvent, Converts, c

(* An event of the right form converts, and keeps its date and all of its  *)
(* general information.                                                    *)
LEMMA EventFits ==
    ASSUME NEW S, Values(S), NEW e \in S, IsEvent(e)
    PROVE  /\ Converts(e)
           /\ \A k \in {"event_name", "city", "description"} : At(e, k) = e.members[k]
           /\ IntOf(At(e, "date_time")) = {Wrapped(e.members["date_time"].value)}
           /\ e.members["date_time"].value \in Int
           /\ LET info == e.members["general_information"].members
              IN  Information(At(e, "general_information")) = [k \in DOMAIN info |-> Shown(info[k])]
<1>1. /\ HasForm(e, {"event_name", "city", "description"}) /\ IsObject(e)
      /\ "date_time" \in DOMAIN e.members /\ e.members["date_time"].type = "number"
      /\ "general_information" \in DOMAIN e.members /\ IsObject(e.members["general_information"])
  BY DEF IsEvent, HasForm
<1>2. At(e, "date_time") = e.members["date_time"]
      /\ At(e, "general_information") = e.members["general_information"]
  BY <1>1 DEF At
<1>3. \A k \in {"event_name", "city", "description"} : At(e, k) = e.members[k] /\ IsString(At(e, k))
  BY <1>1, MemberAt
<1>4. Converts(e)
  BY <1>1, <1>2, <1>3 DEF Converts, Subscripts, IsNumeric
<1>5. IntOf(At(e, "date_time")) = {Wrapped(e.members["date_time"].value)}
  BY <1>1, <1>2 DEF IntOf
<1>6. e.members["date_time"] \in S /\ e.members["general_information"] \in S
      /\ e.members["date_time"].value \in Int
  BY <1>1 DEF Values
<1>. DEFINE v == e.members["general_information"]
            ks == KeysOf(v)
            es == Elements(v)
<1>7. /\ DOMAIN es = DOMAIN ks /\ Range(ks) = DOMAIN v.members
      /\ \A i \in DOMAIN ks : es[i] = v.members[ks[i]] /\ Name(v, i) = ks[i]
  <2>1. IsObject(v) /\ v \in S
    BY <1>1, <1>6
  <2>. HIDE DEF v
  <2>2. \A i : Name(v, i) = ks[i]
    BY <2>1, Zenon DEF Name, IsObject
  <2>. QED
    BY <2>1, <2>2, KeysAre, ElementsOf
<1>8. Information(v) = [n \in {Name(v, i) : i \in DOMAIN es} |->
                          Shown(es[CHOOSE i \in DOMAIN es : Name(v, i) = n])]
  BY Zenon DEF Information
<1>. HIDE DEF v, ks, es
<1>9. {Name(v, i) : i \in DOMAIN es} = DOMAIN v.members
  BY <1>7 DEF Range
<1>10. ASSUME NEW k \in DOMAIN v.members
       PROVE  es[CHOOSE i \in DOMAIN es : Name(v, i) = k] = v.members[k]
  <2>1. \E i \in DOMAIN es : Name(v, i) = k
    BY <1>7 DEF Range
  <2>. DEFINE i == CHOOSE i \in DOMAIN es : Name(v, i) = k
  <2>2. i \in DOMAIN es /\ Name(v, i) = k
    BY <2>1
  <2>. HIDE DEF i
  <2>3. es[i] = v.members[k]
    BY <1>7, <2>2
  <2>. QED
    BY <2>3, Zenon DEF i
<1>11. Information(v) = [k \in DOMAIN v.members |-> Shown(v.members[k])]
  BY <1>8, <1>9, <1>10, Zenon
<1>. QED
  BY <1>2, <1>3, <1>4, <1>5, <1>6, <1>11, Zenon DEF v

(* What the value of a file of the right form holds is what is read.       *)
LEMMA RightFormRead ==
    ASSUME NEW S, Values(S), FileInv(S), IsEventsFile(data)
    PROVE  LET items == data.members["events"].items IN
           /\ outcome # "threw"
           /\ outcome = "returned" => Len(events) = Len(items)
           /\ \A i \in DOMAIN events :
                /\ i \in 1 .. Len(items) /\ items[i] \in S /\ IsEvent(items[i])
                /\ MadeOf(items[i], events[i])
<1>. DEFINE items == data.members["events"].items
<1>1. /\ HasForm(data, {"channel_name"}) /\ data \in S
      /\ "events" \in DOMAIN data.members /\ data.members["events"].type = "array"
      /\ \A i \in DOMAIN items : IsEvent(items[i])
  BY DEF IsEventsFile, FileInv
<1>2. /\ IsObject(data) /\ HasChannel(data)
      /\ At(data, "events") = data.members["events"] /\ At(data, "events") \in S
  BY <1>1, MemberAt, AtValue DEF HasChannel, At
<1>3. EventsOf(data) = items /\ items \in Seq(S) /\ Len(items) \in Nat /\ DOMAIN items = 1 .. Len(items)
  <2>1. Elements(At(data, "events")) = items
    BY <1>1, <1>2, ElementsOf
  <2>. HIDE DEF items
  <2>. QED
    BY <1>2, <2>1, ElementsOf DEF EventsOf
<1>. HIDE DEF items
<1>4. \A i \in 1 .. Len(items) : items[i] \in S /\ IsEvent(items[i]) /\ Converts(items[i])
  BY <1>1, <1>3, EventFits
<1>5. outcome # "threw"
  BY <1>2, <1>3, <1>4 DEF FileInv, Refuses
<1>6. CASE next = 0
  <2>1. events = <<>> /\ outcome # "returned"
    BY <1>6 DEF FileInv, ReadSoFar
  <2>2. DOMAIN <<>> = {}
    OBVIOUS
  <2>. QED
    BY <1>5, <2>1, <2>2 DEF items
<1>7. CASE next # 0
  <2>1. ReadSoFar(data, next, events)
    BY <1>7 DEF FileInv
  <2>2. PICK T : events \in Seq(T)
    BY DEF FileInv
  <2>3. /\ next \in 1 .. Len(items) + 1 /\ Len(events) = next - 1
        /\ DOMAIN events = 1 .. Len(events)
    BY <1>3, <2>1, <2>2 DEF ReadSoFar
  <2>4. outcome = "returned" => Len(events) = Len(items)
    BY <1>3, <2>3 DEF FileInv
  <2>5. \A i \in DOMAIN events : i \in 1 .. next - 1 /\ i \in 1 .. Len(items)
    BY <1>3, <2>3
  <2>6. \A i \in 1 .. next - 1 : MadeOf(items[i], events[i])
    BY <1>3, <2>1 DEF ReadSoFar
  <2>. QED
    BY <1>4, <1>5, <2>4, <2>5, <2>6, Zenon DEF items
<1>. QED
  BY <1>6, <1>7

(* The loop goes over what IsLooseFile speaks of.                          *)
LEMMA LooseEvents ==
    ASSUME NEW S, Values(S), NEW v \in S, HasForm(v, {"channel_name"}),
           "events" \in DOMAIN v.members,
           NEW es, es = v.members["events"], es.type \in {"array", "object", "null"}
    PROVE  Range(EventsOf(v)) = IF es.type = "array" THEN Range(es.items)
                                ELSE IF IsObject(es) THEN Range(es.members) ELSE {}
<1>1. IsObject(v) /\ es \in S /\ EventsOf(v) = Elements(es)
  BY DEF HasForm, EventsOf, At, Values
<1>2. CASE es.type = "array"
  BY <1>1, <1>2, ElementsOf
<1>3. CASE es.type = "object"
  <2>1. /\ DOMAIN Elements(es) = DOMAIN KeysOf(es) /\ Range(KeysOf(es)) = DOMAIN es.members
        /\ \A i \in DOMAIN KeysOf(es) : Elements(es)[i] = es.members[KeysOf(es)[i]]
    BY <1>1, <1>3, ElementsOf, KeysAre DEF IsObject
  <2>2. Range(Elements(es)) = Range(es.members)
    BY <2>1 DEF Range
  <2>. QED
    BY <1>1, <1>3, <2>2 DEF IsObject
<1>4. CASE es.type = "null"
  <2>1. Elements(es) = <<>>
    BY <1>1, <1>4, ElementsOf DEF IsNull
  <2>2. Range(<<>>) = {}
    BY DEF Range
  <2>. QED
    BY <1>1, <1>4, <2>1, <2>2 DEF IsObject
<1>. QED
  BY <1>2, <1>3, <1>4

(* No file is returned but a loose one,                                    *)
LEMMA ReturnedLoose ==
    ASSUME NEW S, Values(S), FileInv(S), outcome = "returned"
    PROVE  IsLooseFile(data)
<1>1. /\ data \in S /\ next = Len(EventsOf(data)) + 1 /\ ReadSoFar(data, next, events)
  BY DEF FileInv
<1>2. /\ EventsOf(data) \in Seq(S) /\ Len(EventsOf(data)) \in Nat
      /\ DOMAIN EventsOf(data) = 1 .. Len(EventsOf(data))
  BY <1>1, AtValue, ElementsOf DEF EventsOf
<1>3. \A i \in DOMAIN EventsOf(data) : Converts(EventsOf(data)[i])
  <2>1. \A i \in 1 .. Len(EventsOf(data)) : i \in 1 .. next - 1
    BY <1>1, <1>2
  <2>. QED
    BY <1>1, <1>2, <2>1 DEF ReadSoFar
<1>4. \A e \in Range(EventsOf(data)) : Converts(e)
  BY <1>3 DEF Range
<1>5. HasForm(data, {"channel_name"})
  BY <1>1, TextsOfObjects DEF ReadSoFar, HasChannel
<1>6. \A e : Converts(e) => IsObject(e)
  <2>. TAKE e
  <2>. HAVE Converts(e)
  <2>1. HasForm(e, {"event_name", "city", "description"})
    BY TextsOfObjects DEF Converts
  <2>. QED
    BY <2>1 DEF HasForm
<1>7. ASSUME "events" \in DOMAIN data.members
      PROVE  data.members["events"].type \in {"array", "object", "null"}
  <2>. DEFINE es == data.members["events"]
  <2>1. es \in S /\ EventsOf(data) = Elements(es)
    BY <1>1, <1>5, <1>7 DEF HasForm, EventsOf, At, Values
  <2>2. ASSUME es.type \notin {"array", "object", "null"}
        PROVE  FALSE
    <3>1. EventsOf(data) = <<es>>
      BY <2>1, <2>2, ElementsOf
    <3>2. Converts(es)
      BY <1>3, <3>1
    <3>. QED
      BY <1>6, <2>2, <3>2 DEF IsObject
  <2>. QED
    BY <2>2
<1>8. \A e \in Range(EventsOf(data)) : IsObject(e) /\ IsEvent(Coerced(e))
  BY <1>4, <1>6, CoercedIs
<1>9. ASSUME "events" \in DOMAIN data.members
      PROVE  LET es == data.members["events"]
                 list == IF es.type = "array" THEN Range(es.items)
                         ELSE IF IsObject(es) THEN Range(es.members) ELSE {}
             IN  /\ es.type \in {"array", "object", "null"}
                 /\ \A e \in list : IsObject(e) /\ IsEvent(Coerced(e))
  BY <1>1, <1>5, <1>7, <1>8, <1>9, LooseEvents
<1>. QED
  BY <1>5, <1>9, Zenon DEF IsLooseFile

(* and of a loose one no event is refused.                                 *)
LEMMA ThrewStrict ==
    ASSUME NEW S, Values(S), FileInv(S), outcome = "threw"
    PROVE  ~IsLooseFile(data)
<1>. SUFFICES ASSUME IsLooseFile(data)
              PROVE  FALSE
  OBVIOUS
<1>1. data \in S /\ Refuses(data, next)
  BY DEF FileInv
<1>2. HasForm(data, {"channel_name"}) /\ IsObject(data) /\ HasChannel(data)
  BY MemberAt DEF IsLooseFile, HasChannel
<1>3. next \in 1 .. Len(EventsOf(data)) /\ ~Converts(EventsOf(data)[next])
  BY <1>1, <1>2 DEF Refuses
<1>4. DOMAIN EventsOf(data) = 1 .. Len(EventsOf(data))
  BY <1>1, AtValue, ElementsOf DEF EventsOf
<1>5. CASE "events" \in DOMAIN data.members
  <2>. DEFINE es == data.members["events"]
              list == IF es.type = "array" THEN Range(es.items)
                      ELSE IF IsObject(es) THEN Range(es.members) ELSE {}
  <2>1. /\ es.type \in {"array", "object", "null"}
        /\ \A e \in list : IsObject(e) /\ IsEvent(Coerced(e))
    BY <1>5, Zenon DEF IsLooseFile
  <2>2. Range(EventsOf(data)) = list
    BY <1>1, <1>2, <1>5, <2>1, LooseEvents
  <2>. HIDE DEF list
  <2>3. EventsOf(data)[next] \in list
    BY <1>3, <1>4, <2>2 DEF Range
  <2>. QED
    BY <1>3, <2>1, <2>3, CoercedIs
<1>6. CASE "events" \notin DOMAIN data.members
  <2>1. EventsOf(data) = Elements(NullValue)
    BY <1>6, Zenon DEF EventsOf, At
  <2>2. Elements(NullValue) = <<>>
    BY ElementsOf DEF Values, IsNull, NullValue
  <2>. QED
    BY <1>3, <2>1, <2>2
<1>. QED
  BY <1>5, <1>6

(* parseEventsFile, given the value of some file.                          *)
FileSpec(S) == (\E v \in S : FileStart(v)) /\ [][FileNext]_fileVars

(* parseEventsFile reads a file of the right form whole: every event in    *)
(* order, with its texts, its general information and its date if an int   *)
(* can hold it; it returns nothing of a file that the library's silent     *)
(* conversions do not make fit, and throws for no other.                   *)
THEOREM FileIsReadAsWritten ==
    ASSUME NEW CONSTANT S, Values(S)
    PROVE  FileSpec(S) => []FileAsWritten
<1>1. (\E v \in S : FileStart(v)) => FileInv(S)
  BY FileStarts
<1>2. FileInv(S) /\ [FileNext]_fileVars => FileInv(S)'
  BY FileSteps
<1>3. FileInv(S) => FileAsWritten
  <2>. SUFFICES ASSUME FileInv(S)
                PROVE  FileAsWritten
    OBVIOUS
  <2>1. ASSUME IsEventsFile(data), NEW i \in DOMAIN events
        PROVE  LET e == data.members["events"].items[i].members
                   info == e["general_information"].members
               IN  /\ events[i].name = e["event_name"].value /\ events[i].city = e["city"].value
                   /\ events[i].description = e["description"].value
                   /\ IF e["date_time"].value \in IntMin .. IntMax
                        THEN events[i].date_time = e["date_time"].value
                        ELSE /\ events[i].date_time \in IntMin .. IntMax
                             /\ (events[i].date_time - e["date_time"].value) % IntCount = 0
                   /\ events[i].general_information = [k \in DOMAIN info |-> Shown(info[k])]
    <3>. DEFINE x == data.members["events"].items[i]
                d == x.members["date_time"].value
                info == x.members["general_information"].members
    <3>1. x \in S /\ IsEvent(x) /\ MadeOf(x, events[i])
      BY <2>1, RightFormRead
    <3>. HIDE DEF x
    <3>2. /\ \A k \in {"event_name", "city", "description"} : At(x, k) = x.members[k]
          /\ IntOf(At(x, "date_time")) = {Wrapped(d)} /\ d \in Int
          /\ Information(At(x, "general_information")) = [k \in DOMAIN info |-> Shown(info[k])]
      BY <3>1, EventFits
    <3>. HIDE DEF d, info
    <3>3. /\ events[i].name = x.members["event_name"].value
          /\ events[i].city = x.members["city"].value
          /\ events[i].description = x.members["description"].value
          /\ events[i].date_time = Wrapped(d)
          /\ events[i].general_information = [k \in DOMAIN info |-> Shown(info[k])]
      BY <3>1, <3>2, Zenon DEF MadeOf
    <3>4. /\ Wrapped(d) \in IntMin .. IntMax
          /\ (Wrapped(d) - d) % IntCount = 0
          /\ d \in IntMin .. IntMax => Wrapped(d) = d
      BY <3>2, WrappedIs
    <3>. QED
      BY <3>3, <3>4, Zenon DEF x, d, info
  <2>2. IsEventsFile(data) => /\ outcome # "threw"
                              /\ outcome = "returned" => Len(events) = Len(data.members["events"].items)
    BY RightFormRead
  <2>. QED
    BY <2>1, <2>2, ReturnedLoose, ThrewStrict, Zenon DEF FileAsWritten
<1>. QED
  BY <1>1, <1>2, <1>3, PTL DEF FileSpec

================================================================================
