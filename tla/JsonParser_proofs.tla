--------------------------- MODULE JsonParser_proofs ---------------------------
(***************************************************************************)
(* What the JSON parser makes of the tokens of a text is the value the     *)
(* grammar gives that text, it refuses the beginning of no text, and what  *)
(* dump writes of the value is a text of it again.                         *)
(*                                                                         *)
(* A value is right.  Where the loop is, what it has dealt with is         *)
(* structured: each array or object on ref_stack begins at a place P of    *)
(* the text, and behind that place are items, or members, up to where one  *)
(* is awaited; what is closed has its meaning in D, the value of each      *)
(* node.  At the end the text is one value, that of the root, and D is the *)
(* only solution of its equations since the nodes an array or object holds *)
(* were made after it.                                                     *)
(*                                                                         *)
(* A refusal is right.  Where the loop is and what states holds depend on  *)
(* the text alone: StepAt is that automaton, and what it refuses it never  *)
(* takes again.  By induction on their length it takes the texts of the    *)
(* grammar for what they are, so it ends a sentence accepting it, and no   *)
(* beginning of one was refused.                                           *)
(*                                                                         *)
(* What is dumped is right.  By induction on the texts of the grammar,     *)
(* what is written of a node is a text of its value, and no longer than    *)
(* the one it was read from: the members come in another order, and a key  *)
(* that came twice only once.  An object's keys are finite, since they     *)
(* lead to different nodes.                                                *)
(***************************************************************************)
EXTENDS JsonSerializer, SequenceLemmas, FiniteSetTheorems, TLAPS

LEMMA GrammarChosen ==
    Grammar = CHOOSE G : G = [n \in 0 .. MaxTokens |-> Productions(G, n)]
BY DEF Grammar

LEMMA ProductionsAgree ==
    ASSUME NEW n \in Nat, NEW F, NEW G, \A k \in 0 .. n - 1 : F[k] = G[k]
    PROVE  Productions(F, n) = Productions(G, n)
<1>1. CASE n = 0
  BY <1>1 DEF Productions
<1>2. CASE n # 0
  <2>1. \A k \in Int : k < n => ValuesFrom(F, k) = ValuesFrom(G, k)
    BY DEF ValuesFrom
  <2>2. Within(F, n) = Within(G, n)
    BY <1>2 DEF Within
  <2>3. ValueTexts(F, n) = ValueTexts(G, n)
    BY <2>2, Zenon DEF ValueTexts
  <2>4. \A m \in Int : m =< n => SingleTexts(F, m) = SingleTexts(G, m)
    <3>1. \A m \in Int : m =< n => m - 2 \in Int /\ m - 2 < n
      OBVIOUS
    <3>. TAKE m \in Int
    <3>. HAVE m =< n
    <3>2. ValuesFrom(F, m - 2) = ValuesFrom(G, m - 2)
      BY <2>1, <3>1, Zenon
    <3>. QED
      BY <3>2 DEF SingleTexts
  <2>5. \A k \in 1 .. n - 2 : /\ F[k] = G[k]
                              /\ ValuesFrom(F, n - k - 1) = ValuesFrom(G, n - k - 1)
                              /\ SingleTexts(F, n - k - 1) = SingleTexts(G, n - k - 1)
    <3>. TAKE k \in 1 .. n - 2
    <3>1. n - k - 1 \in Int /\ n - k - 1 < n /\ n - k - 1 =< n /\ k \in 0 .. n - 1
      OBVIOUS
    <3>. QED
      BY <2>1, <2>4, <3>1, Zenon
  <2>6. ItemTexts(F, n) = ItemTexts(G, n)
    BY <2>3, <2>5, Zenon DEF ItemTexts
  <2>7. SingleTexts(F, n) = SingleTexts(G, n)
    BY <2>4
  <2>8. MemberTexts(F, n) = MemberTexts(G, n)
    BY <2>5, <2>7, Zenon DEF MemberTexts
  <2>. QED
    BY <2>3, <2>6, <2>8, Zenon DEF Productions
<1>. QED
  BY <1>1, <1>2

Produces(N, f) == f = [n \in 0 .. N |-> Productions(f, n)]

LEMMA GrammarExists == \A N \in Nat : \E f : Produces(N, f)
<1>. DEFINE T == {n \in Nat : \E f : Produces(n, f)}
<1>1. 0 \in T
  <2>. DEFINE g == [n \in 0 .. 0 |-> Productions(n, 0)]
  <2>1. \A h : Productions(h, 0) = [values |-> {}, items |-> {}, members |-> {}]
    BY DEF Productions
  <2>2. Produces(0, g)
    <3>1. \A n \in 0 .. 0 : n = 0
      OBVIOUS
    <3>2. \A n \in 0 .. 0 : Productions(n, 0) = Productions(g, n)
      <4>. TAKE n \in 0 .. 0
      <4>1. n = 0
        BY <3>1
      <4>. HIDE DEF g
      <4>. QED
        BY <4>1, <2>1
    <3>. QED
      BY <3>2, Zenon DEF Produces
  <2>. QED
    BY <2>2
<1>2. ASSUME NEW N \in Nat, N \in T
      PROVE  N + 1 \in T
  <2>1. PICK f : Produces(N, f)
    BY <1>2
  <2>. DEFINE g == [n \in 0 .. N + 1 |-> IF n = N + 1 THEN Productions(f, n) ELSE f[n]]
  <2>2. \A n \in 0 .. N : f[n] = Productions(f, n)
    BY <2>1, Zenon DEF Produces
  <2>3. \A k \in 0 .. N : k \in 0 .. N + 1 /\ k # N + 1
    OBVIOUS
  <2>4. \A k \in 0 .. N : g[k] = f[k]
    BY <2>3, Zenon
  <2>5. \A n \in 0 .. N + 1 : Productions(f, n) = Productions(g, n)
    <3>. TAKE n \in 0 .. N + 1
    <3>. HIDE DEF g
    <3>1. \A k \in 0 .. n - 1 : f[k] = g[k]
      BY <2>4
    <3>2. n \in Nat
      OBVIOUS
    <3>. QED
      BY <3>1, <3>2, ProductionsAgree, Zenon
  <2>6. \A n \in 0 .. N + 1 : (IF n = N + 1 THEN Productions(f, n) ELSE f[n]) = Productions(g, n)
    <3>. TAKE n \in 0 .. N + 1
    <3>. HIDE DEF g
    <3>1. n = N + 1 \/ n \in 0 .. N
      OBVIOUS
    <3>. QED
      BY <2>2, <2>5, <3>1, Zenon
  <2>7. Produces(N + 1, g)
    BY <2>6, Zenon DEF Produces
  <2>. QED
    BY <2>7
<1>. HIDE DEF T
<1>3. \A n \in Nat : n \in T
  BY <1>1, <1>2, Induction
<1>. QED
  BY <1>3 DEF T

LEMMA GrammarIs == Grammar = [n \in 0 .. MaxTokens |-> Productions(Grammar, n)]
<1>1. PICK f : f = [n \in 0 .. MaxTokens |-> Productions(f, n)]
  BY ParserAssumption, GrammarExists DEF Produces
<1>. QED
  BY <1>1, GrammarChosen, Zenon

LEMMA SignsAreTokens ==
    /\ \A s \in Signs : Sign(s) \in Tokens
    /\ Scalars \subseteq Tokens /\ Strings \subseteq Tokens
BY ParserAssumption DEF Signs, Tokens

(* The texts of the grammar are sequences of tokens, of the length asked   *)
(* for.                                                                    *)
Sized(p, n) == \A z \in p.values \cup p.items \cup p.members : z.text \in Seq(Tokens) /\ Len(z.text) = n

LEMMA TextFields == \A t, v : Text(t, v).text = t /\ Text(t, v).value = v
BY DEF Text

LEMMA JoinTyped ==
    ASSUME NEW S, NEW a \in Seq(S), NEW b \in Seq(S)
    PROVE  a \o b \in Seq(S) /\ Len(a \o b) = Len(a) + Len(b) /\ Len(a) \in Nat /\ Len(b) \in Nat
OBVIOUS

LEMMA AroundTyped ==
    ASSUME NEW x \in Seq(Tokens), NEW o \in Signs, NEW c \in Signs
    PROVE  /\ <<Sign(o)>> \o x \o <<Sign(c)>> \in Seq(Tokens)
           /\ Len(<<Sign(o)>> \o x \o <<Sign(c)>>) = Len(x) + 2
<1>1. <<Sign(o)>> \in Seq(Tokens) /\ <<Sign(c)>> \in Seq(Tokens) /\ Len(<<Sign(o)>>) = 1 /\ Len(<<Sign(c)>>) = 1
  BY SignsAreTokens, OneElement
<1>. QED
  BY <1>1

LEMMA CommaTyped ==
    ASSUME NEW x \in Seq(Tokens), NEW y \in Seq(Tokens)
    PROVE  x \o Comma \o y \in Seq(Tokens) /\ Len(x \o Comma \o y) = Len(x) + 1 + Len(y)
<1>1. Comma \in Seq(Tokens) /\ Len(Comma) = 1
  BY SignsAreTokens, OneElement DEF Comma, Signs
<1>2. x \o Comma \in Seq(Tokens) /\ Len(x \o Comma) = Len(x) + Len(Comma) /\ Len(x) \in Nat
  BY <1>1, JoinTyped, Zenon
<1>3. /\ (x \o Comma) \o y \in Seq(Tokens)
      /\ Len((x \o Comma) \o y) = Len(x \o Comma) + Len(y) /\ Len(y) \in Nat
  BY <1>2, JoinTyped, Zenon
<1>4. Len((x \o Comma) \o y) = Len(x) + 1 + Len(y)
  BY <1>1, <1>2, <1>3, Zenon
<1>. QED
  BY <1>3, <1>4, Zenon

LEMMA KeyTyped ==
    ASSUME NEW k \in Strings, NEW y \in Seq(Tokens)
    PROVE  /\ <<k, Sign("name_separator")>> \o y \in Seq(Tokens)
           /\ Len(<<k, Sign("name_separator")>> \o y) = 2 + Len(y)
<1>1. k \in Tokens /\ Sign("name_separator") \in Tokens
  BY SignsAreTokens DEF Signs
<1>2. <<k, Sign("name_separator")>> \in Seq(Tokens) /\ Len(<<k, Sign("name_separator")>>) = 2
  BY <1>1
<1>. QED
  BY <1>2

LEMMA ValuesSized ==
    ASSUME NEW G, NEW n \in Nat, n # 0, \A k \in 0 .. n - 1 : Sized(G[k], k)
    PROVE  \A z \in ValueTexts(G, n) : z.text \in Seq(Tokens) /\ Len(z.text) = n
<1>0. \A z \in Within(G, n).items \cup Within(G, n).members :
         n >= 2 /\ z.text \in Seq(Tokens) /\ Len(z.text) = n - 2
  <2>1. CASE n < 2
    BY <2>1 DEF Within
  <2>2. CASE n >= 2
    <3>1. Within(G, n) = G[n - 2] /\ Sized(G[n - 2], n - 2)
      BY <2>2 DEF Within
    <3>. QED
      BY <2>2, <3>1 DEF Sized
  <2>. QED
    BY <2>1, <2>2
<1>1. \A z, v : z \in Nothing(n, v) => n = 2 /\ z.text = <<>> /\ z.text \in Seq(Tokens) /\ Len(z.text) = n - 2
  <2>1. \A v : Text(<<>>, v).text = <<>>
    BY TextFields, Zenon
  <2>2. <<>> \in Seq(Tokens) /\ Len(<<>>) = 0 /\ 2 - 2 = 0
    OBVIOUS
  <2>3. \A z, v : z \in Nothing(n, v) => n = 2 /\ z.text = <<>>
    BY <2>1, Zenon DEF Nothing
  <2>. QED
    BY <2>2, <2>3
<1>2. ASSUME NEW z \in Scalar1, n = 1
      PROVE  z.text \in Seq(Tokens) /\ Len(z.text) = n
  <2>1. PICK t \in Scalars : z = Text(<<t>>, t)
    BY <1>2 DEF Scalar1
  <2>2. z.text = <<t>> /\ t \in Tokens
    BY <2>1, TextFields, SignsAreTokens
  <2>. QED
    BY <1>2, <2>2, OneElement
<1>3. \A x : x.text \in Seq(Tokens) /\ n >= 2 /\ Len(x.text) = n - 2 =>
               /\ ArrayOf(x).text \in Seq(Tokens) /\ Len(ArrayOf(x).text) = n
               /\ ObjectOf(x).text \in Seq(Tokens) /\ Len(ObjectOf(x).text) = n
  <2>. TAKE x
  <2>. HAVE x.text \in Seq(Tokens) /\ n >= 2 /\ Len(x.text) = n - 2
  <2>1. \A o, c \in Signs : /\ <<Sign(o)>> \o x.text \o <<Sign(c)>> \in Seq(Tokens)
                            /\ Len(<<Sign(o)>> \o x.text \o <<Sign(c)>>) = n
    <3>. TAKE o, c \in Signs
    <3>. QED
      BY AroundTyped
  <2>2. {"begin_array", "end_array", "begin_object", "end_object"} \subseteq Signs
    BY DEF Signs
  <2>3. /\ ArrayOf(x).text = <<Sign("begin_array")>> \o x.text \o <<Sign("end_array")>>
        /\ ObjectOf(x).text = <<Sign("begin_object")>> \o x.text \o <<Sign("end_object")>>
    BY TextFields, Zenon DEF ArrayOf, ObjectOf, Around
  <2>. QED
    BY <2>1, <2>2, <2>3
<1>. QED
  <2>. TAKE z \in ValueTexts(G, n)
  <2>1. \/ n = 1 /\ z \in Scalar1
        \/ \E x \in Within(G, n).items \cup Nothing(n, <<>>) : z = ArrayOf(x)
        \/ \E x \in Within(G, n).members \cup Nothing(n, NoMembers) : z = ObjectOf(x)
    BY Zenon DEF ValueTexts
  <2>2. \A x, v : x \in Within(G, n).items \cup Within(G, n).members \/ x \in Nothing(n, v) =>
                    n >= 2 /\ x.text \in Seq(Tokens) /\ Len(x.text) = n - 2
    BY <1>0, <1>1
  <2>3. CASE n = 1 /\ z \in Scalar1
    BY <1>2, <2>3
  <2>4. CASE \E x \in Within(G, n).items \cup Nothing(n, <<>>) : z = ArrayOf(x)
    <3>1. PICK x \in Within(G, n).items \cup Nothing(n, <<>>) : z = ArrayOf(x)
      BY <2>4
    <3>2. n >= 2 /\ x.text \in Seq(Tokens) /\ Len(x.text) = n - 2
      BY <2>2
    <3>. QED
      BY <1>3, <3>1, <3>2, Zenon
  <2>5. CASE \E x \in Within(G, n).members \cup Nothing(n, NoMembers) : z = ObjectOf(x)
    <3>1. PICK x \in Within(G, n).members \cup Nothing(n, NoMembers) : z = ObjectOf(x)
      BY <2>5
    <3>2. n >= 2 /\ x.text \in Seq(Tokens) /\ Len(x.text) = n - 2
      BY <2>2
    <3>. QED
      BY <1>3, <3>1, <3>2, Zenon
  <2>. QED
    BY <2>1, <2>3, <2>4, <2>5, Zenon

LEMMA ValuesFromSized ==
    ASSUME NEW G, NEW n \in Nat, \A k \in 0 .. n - 1 : Sized(G[k], k)
    PROVE  \A m \in Int : m < n =>
             \A z \in ValuesFrom(G, m) : m \in 0 .. n - 1 /\ z.text \in Seq(Tokens) /\ Len(z.text) = m
<1>. TAKE m \in Int
<1>. HAVE m < n
<1>1. CASE m < 1
  BY <1>1 DEF ValuesFrom
<1>2. CASE ~(m < 1)
  <2>1. m \in 0 .. n - 1 /\ Sized(G[m], m)
    BY <1>2
  <2>. QED
    BY <1>2, <2>1 DEF ValuesFrom, Sized
<1>. QED
  BY <1>1, <1>2

LEMMA SinglesSized ==
    ASSUME NEW G, NEW n \in Nat, \A k \in 0 .. n - 1 : Sized(G[k], k)
    PROVE  \A m \in Int : m =< n =>
             \A z \in SingleTexts(G, m) : z.text \in Seq(Tokens) /\ Len(z.text) = m /\ m \in Nat
<1>. TAKE m \in Int
<1>. HAVE m =< n
<1>. TAKE z \in SingleTexts(G, m)
<1>1. PICK k \in Strings, v \in ValuesFrom(G, m - 2) : z = MemberOf(k, v)
  BY DEF SingleTexts
<1>2. m - 2 \in 0 .. n - 1 /\ v.text \in Seq(Tokens) /\ Len(v.text) = m - 2
  <2>1. m - 2 \in Int /\ m - 2 < n
    OBVIOUS
  <2>. QED
    <3>1. \A j \in Int : j < n => \A y \in ValuesFrom(G, j) :
                  j \in 0 .. n - 1 /\ y.text \in Seq(Tokens) /\ Len(y.text) = j
      BY ValuesFromSized, Zenon
    <3>. QED
      BY <2>1, <3>1, Zenon
<1>3. z.text = <<k, Sign("name_separator")>> \o v.text
  BY <1>1, TextFields, Zenon DEF MemberOf
<1>. QED
  BY <1>2, <1>3, KeyTyped

LEMMA ProductionsSized ==
    ASSUME NEW G, NEW n \in Nat, \A k \in 0 .. n - 1 : Sized(G[k], k)
    PROVE  Sized(Productions(G, n), n)
<1>1. CASE n = 0
  BY <1>1 DEF Productions, Sized
<1>2. CASE n # 0
  <2>1. \A z \in ValueTexts(G, n) : z.text \in Seq(Tokens) /\ Len(z.text) = n
    BY <1>2, ValuesSized
  <2>2. ASSUME NEW k \in 1 .. n - 2, NEW x, x.text \in Seq(Tokens), Len(x.text) = k,
               NEW y, y.text \in Seq(Tokens), Len(y.text) = n - k - 1
        PROVE  x.text \o Comma \o y.text \in Seq(Tokens) /\ Len(x.text \o Comma \o y.text) = n
    <3>1. Len(x.text \o Comma \o y.text) = k + 1 + (n - k - 1) /\ x.text \o Comma \o y.text \in Seq(Tokens)
      BY <2>2, CommaTyped, Zenon
    <3>. QED
      BY <3>1
  <2>3. ASSUME NEW z \in ItemTexts(G, n)
        PROVE  z.text \in Seq(Tokens) /\ Len(z.text) = n
    <3>1. CASE \E v \in ValueTexts(G, n) : z = Text(v.text, <<v.value>>)
      BY <2>1, <3>1, TextFields
    <3>2. CASE \E k \in 1 .. n - 2 : z \in MoreItems(G[k].items, ValuesFrom(G, n - k - 1))
      <4>1. PICK k \in 1 .. n - 2 : z \in MoreItems(G[k].items, ValuesFrom(G, n - k - 1))
        BY <3>2
      <4>2. PICK x \in G[k].items, v \in ValuesFrom(G, n - k - 1) :
                   z = Text(x.text \o Comma \o v.text, Append(x.value, v.value))
        BY <4>1 DEF MoreItems
      <4>3. x.text \in Seq(Tokens) /\ Len(x.text) = k
        <5>1. Sized(G[k], k)
          OBVIOUS
        <5>. QED
          BY <5>1 DEF Sized
      <4>4. v.text \in Seq(Tokens) /\ Len(v.text) = n - k - 1
        <5>1. n - k - 1 \in Int /\ n - k - 1 < n
          OBVIOUS
        <5>. QED
          <6>1. \A m \in Int : m < n => \A y \in ValuesFrom(G, m) :
                  m \in 0 .. n - 1 /\ y.text \in Seq(Tokens) /\ Len(y.text) = m
            BY ValuesFromSized, Zenon
          <6>. QED
            BY <5>1, <6>1, Zenon
      <4>5. z.text = x.text \o Comma \o v.text
        BY <4>2, TextFields, Zenon
      <4>. QED
        BY <2>2, <4>3, <4>4, <4>5
    <3>. QED
      BY <3>1, <3>2, Zenon DEF ItemTexts
  <2>4. ASSUME NEW z \in MemberTexts(G, n)
        PROVE  z.text \in Seq(Tokens) /\ Len(z.text) = n
    <3>1. CASE z \in SingleTexts(G, n)
      <4>1. n \in Int /\ n =< n
        OBVIOUS
      <4>. QED
        BY <3>1, <4>1, SinglesSized, Zenon
    <3>2. CASE \E k \in 1 .. n - 2 : z \in MoreMembers(G[k].members, SingleTexts(G, n - k - 1))
      <4>1. PICK k \in 1 .. n - 2 : z \in MoreMembers(G[k].members, SingleTexts(G, n - k - 1))
        BY <3>2
      <4>2. PICK x \in G[k].members, m \in SingleTexts(G, n - k - 1) :
                   z = Text(x.text \o Comma \o m.text, Over(m.value, x.value))
        BY <4>1 DEF MoreMembers
      <4>3. x.text \in Seq(Tokens) /\ Len(x.text) = k
        <5>1. Sized(G[k], k)
          OBVIOUS
        <5>. QED
          BY <5>1 DEF Sized
      <4>4. m.text \in Seq(Tokens) /\ Len(m.text) = n - k - 1
        <5>1. n - k - 1 \in Int /\ n - k - 1 =< n
          OBVIOUS
        <5>. QED
          BY <5>1, SinglesSized, Zenon
      <4>5. z.text = x.text \o Comma \o m.text
        BY <4>2, TextFields, Zenon
      <4>. QED
        BY <2>2, <4>3, <4>4, <4>5
    <3>. QED
      BY <3>1, <3>2, Zenon DEF MemberTexts
  <2>. QED
    <3>1. Productions(G, n) = [values |-> ValueTexts(G, n), items |-> ItemTexts(G, n),
                               members |-> MemberTexts(G, n)]
      BY <1>2 DEF Productions
    <3>2. /\ Productions(G, n).values = ValueTexts(G, n) /\ Productions(G, n).items = ItemTexts(G, n)
          /\ Productions(G, n).members = MemberTexts(G, n)
      BY <3>1
    <3>. QED
      BY <2>1, <2>3, <2>4, <3>2, Zenon DEF Sized
<1>. QED
  BY <1>1, <1>2

LEMMA GrammarSized == \A n \in 0 .. MaxTokens : Sized(Grammar[n], n)
<1>. DEFINE T == {n \in Nat : \A k \in 0 .. n : k =< MaxTokens => Sized(Grammar[k], k)}
<1>1. ASSUME NEW n \in Nat, n =< MaxTokens, \A k \in 0 .. n - 1 : Sized(Grammar[k], k)
      PROVE  Sized(Grammar[n], n)
  <2>1. Grammar[n] = Productions(Grammar, n)
    <3>1. n \in 0 .. MaxTokens
      BY <1>1, ParserAssumption
    <3>. QED
      BY <3>1, GrammarIs, Zenon
  <2>. QED
    BY <1>1, <2>1, ProductionsSized
<1>2. 0 \in T
  <2>1. 0 =< MaxTokens /\ \A k \in 0 .. 0 - 1 : Sized(Grammar[k], k)
    BY ParserAssumption
  <2>2. Sized(Grammar[0], 0)
    BY <1>1, <2>1
  <2>3. \A k \in 0 .. 0 : k = 0
    OBVIOUS
  <2>. QED
    BY <2>2, <2>3
<1>3. ASSUME NEW n \in Nat, n \in T
      PROVE  n + 1 \in T
  <2>1. \A k \in 0 .. n : k =< MaxTokens => Sized(Grammar[k], k)
    BY <1>3
  <2>2. n + 1 =< MaxTokens => Sized(Grammar[n + 1], n + 1)
    <3>. HAVE n + 1 =< MaxTokens
    <3>1. \A k \in 0 .. (n + 1) - 1 : k \in 0 .. n /\ k =< MaxTokens
      BY ParserAssumption
    <3>. QED
      BY <1>1, <2>1, <3>1
  <2>3. \A k \in 0 .. n + 1 : k \in 0 .. n \/ k = n + 1
    OBVIOUS
  <2>. QED
    BY <2>1, <2>2, <2>3
<1>. HIDE DEF T
<1>4. \A n \in Nat : n \in T
  BY <1>2, <1>3, Induction
<1>5. MaxTokens \in T
  BY <1>4, ParserAssumption
<1>. QED
  BY <1>5, ParserAssumption DEF T

(* x is the text of the value v, the items s, the members f.               *)
IsValue(x, v)   == \E n \in 0 .. MaxTokens : Text(x, v) \in Grammar[n].values
IsItems(x, s)   == \E n \in 0 .. MaxTokens : Text(x, s) \in Grammar[n].items
IsMembers(x, f) == \E n \in 0 .. MaxTokens : Text(x, f) \in Grammar[n].members

LEMMA GrammarAt ==
    \A n \in 1 .. MaxTokens : /\ Grammar[n].values = ValueTexts(Grammar, n)
                              /\ Grammar[n].items = ItemTexts(Grammar, n)
                              /\ Grammar[n].members = MemberTexts(Grammar, n)
<1>. TAKE n \in 1 .. MaxTokens
<1>1. n \in 0 .. MaxTokens /\ n # 0
  BY ParserAssumption
<1>2. Grammar[n] = Productions(Grammar, n)
  BY <1>1, GrammarIs, Zenon
<1>. QED
  BY <1>1, <1>2 DEF Productions

LEMMA GrammarNone == Grammar[0].values = {} /\ Grammar[0].items = {} /\ Grammar[0].members = {}
<1>1. 0 \in 0 .. MaxTokens
  BY ParserAssumption
<1>2. Grammar[0] = Productions(Grammar, 0)
  BY <1>1, GrammarIs, Zenon
<1>. QED
  BY <1>2 DEF Productions

LEMMA TextSame == \A x, y, v, w : Text(x, v) = Text(y, w) => x = y /\ v = w
<1>. TAKE x, y, v, w
<1>. HAVE Text(x, v) = Text(y, w)
<1>. QED
  BY TextFields

LEMMA WordsSized ==
    /\ \A x, v : IsValue(x, v) => /\ x \in Seq(Tokens) /\ Len(x) \in 1 .. MaxTokens
                                  /\ Text(x, v) \in Grammar[Len(x)].values
    /\ \A x, v : IsItems(x, v) => /\ x \in Seq(Tokens) /\ Len(x) \in 1 .. MaxTokens
                                  /\ Text(x, v) \in Grammar[Len(x)].items
    /\ \A x, v : IsMembers(x, v) => /\ x \in Seq(Tokens) /\ Len(x) \in 1 .. MaxTokens
                                    /\ Text(x, v) \in Grammar[Len(x)].members
<1>1. ASSUME NEW x, NEW v, NEW n \in 0 .. MaxTokens,
             Text(x, v) \in Grammar[n].values \cup Grammar[n].items \cup Grammar[n].members
      PROVE  x \in Seq(Tokens) /\ Len(x) = n /\ n \in 1 .. MaxTokens
  <2>1. Text(x, v).text \in Seq(Tokens) /\ Len(Text(x, v).text) = n
    BY <1>1, GrammarSized DEF Sized
  <2>2. n # 0
    BY <1>1, GrammarNone
  <2>3. n \in 1 .. MaxTokens
    BY <2>2, ParserAssumption
  <2>. QED
    BY <2>1, <2>3, TextFields
<1>2. ASSUME NEW x, NEW v, IsValue(x, v)
      PROVE  x \in Seq(Tokens) /\ Len(x) \in 1 .. MaxTokens /\ Text(x, v) \in Grammar[Len(x)].values
  <2>1. PICK n \in 0 .. MaxTokens : Text(x, v) \in Grammar[n].values
    BY <1>2, Zenon DEF IsValue
  <2>2. x \in Seq(Tokens) /\ Len(x) = n /\ n \in 1 .. MaxTokens
    BY <1>1, <2>1
  <2>. QED
    BY <2>1, <2>2
<1>3. ASSUME NEW x, NEW v, IsItems(x, v)
      PROVE  x \in Seq(Tokens) /\ Len(x) \in 1 .. MaxTokens /\ Text(x, v) \in Grammar[Len(x)].items
  <2>1. PICK n \in 0 .. MaxTokens : Text(x, v) \in Grammar[n].items
    BY <1>3, Zenon DEF IsItems
  <2>2. x \in Seq(Tokens) /\ Len(x) = n /\ n \in 1 .. MaxTokens
    BY <1>1, <2>1
  <2>. QED
    BY <2>1, <2>2
<1>4. ASSUME NEW x, NEW v, IsMembers(x, v)
      PROVE  x \in Seq(Tokens) /\ Len(x) \in 1 .. MaxTokens /\ Text(x, v) \in Grammar[Len(x)].members
  <2>1. PICK n \in 0 .. MaxTokens : Text(x, v) \in Grammar[n].members
    BY <1>4, Zenon DEF IsMembers
  <2>2. x \in Seq(Tokens) /\ Len(x) = n /\ n \in 1 .. MaxTokens
    BY <1>1, <2>1
  <2>. QED
    BY <2>1, <2>2
<1>. QED
  BY <1>2, <1>3, <1>4, Zenon

LEMMA InRange == \A n \in 1 .. MaxTokens : n \in 0 .. MaxTokens /\ n \in Nat
BY ParserAssumption

(* What makes a value, ...                                                 *)
LEMMA ScalarIsValue ==
    ASSUME NEW t \in Scalars, t.type # "overflow", 1 =< MaxTokens
    PROVE  IsValue(<<t>>, t)
<1>1. 1 \in 1 .. MaxTokens /\ 1 \in 0 .. MaxTokens
  BY ParserAssumption
<1>2. Text(<<t>>, t) \in Scalar1
  BY Zenon DEF Scalar1
<1>3. Text(<<t>>, t) \in ValueTexts(Grammar, 1)
  BY <1>2, Zenon DEF ValueTexts
<1>. QED
  BY <1>1, <1>3, GrammarAt, Zenon DEF IsValue

Bracketed(x) == <<Sign("begin_array")>> \o x \o <<Sign("end_array")>>
Braced(x)    == <<Sign("begin_object")>> \o x \o <<Sign("end_object")>>
ArrayValue(s)  == [type |-> "array", items |-> s]
ObjectValue(f) == [type |-> "object", members |-> f]

LEMMA ArrayIsValue ==
    ASSUME NEW x, NEW s, IsItems(x, s) \/ (x = <<>> /\ s = <<>>), Len(x) + 2 =< MaxTokens
    PROVE  IsValue(Bracketed(x), ArrayValue(s))
<1>. DEFINE n == Len(x) + 2
<1>1. ArrayOf(Text(x, s)) = Text(Bracketed(x), ArrayValue(s))
  BY TextFields, Zenon DEF ArrayOf, Around, Bracketed, ArrayValue
<1>2. Len(x) \in Nat
  <2>1. Len(<<>>) \in Nat
    OBVIOUS
  <2>2. IsItems(x, s) => Len(x) \in Nat
    BY WordsSized, InRange, Zenon
  <2>. QED
    BY <2>1, <2>2, Zenon
<1>3. n \in 1 .. MaxTokens /\ n \in 0 .. MaxTokens
  BY <1>2, ParserAssumption
<1>4. Text(x, s) \in Within(Grammar, n).items \cup Nothing(n, <<>>)
  <2>1. CASE IsItems(x, s)
    <3>1. Text(x, s) \in Grammar[Len(x)].items
      BY <2>1, WordsSized, Zenon
    <3>2. ~(n < 2) /\ n - 2 = Len(x)
      BY <1>2
    <3>. QED
      BY <3>1, <3>2, Zenon DEF Within
  <2>2. CASE x = <<>> /\ s = <<>>
    <3>1. n = 2
      BY <2>2
    <3>. QED
      BY <2>2, <3>1, Zenon DEF Nothing
  <2>. QED
    BY <2>1, <2>2
<1>5. ArrayOf(Text(x, s)) \in ValueTexts(Grammar, n)
  BY <1>4, Zenon DEF ValueTexts
<1>. QED
  BY <1>1, <1>3, <1>5, GrammarAt, Zenon DEF IsValue

LEMMA ObjectIsValue ==
    ASSUME NEW x, NEW f, IsMembers(x, f) \/ (x = <<>> /\ f = NoMembers), Len(x) + 2 =< MaxTokens
    PROVE  IsValue(Braced(x), ObjectValue(f))
<1>. DEFINE n == Len(x) + 2
<1>1. ObjectOf(Text(x, f)) = Text(Braced(x), ObjectValue(f))
  BY TextFields, Zenon DEF ObjectOf, Around, Braced, ObjectValue
<1>2. Len(x) \in Nat
  <2>1. Len(<<>>) \in Nat
    OBVIOUS
  <2>2. IsMembers(x, f) => Len(x) \in Nat
    BY WordsSized, InRange, Zenon
  <2>. QED
    BY <2>1, <2>2, Zenon
<1>3. n \in 1 .. MaxTokens /\ n \in 0 .. MaxTokens
  BY <1>2, ParserAssumption
<1>4. Text(x, f) \in Within(Grammar, n).members \cup Nothing(n, NoMembers)
  <2>1. CASE IsMembers(x, f)
    <3>1. Text(x, f) \in Grammar[Len(x)].members
      BY <2>1, WordsSized, Zenon
    <3>2. ~(n < 2) /\ n - 2 = Len(x)
      BY <1>2
    <3>. QED
      BY <3>1, <3>2, Zenon DEF Within
  <2>2. CASE x = <<>> /\ f = NoMembers
    <3>1. n = 2
      BY <2>2
    <3>. QED
      BY <2>2, <3>1, Zenon DEF Nothing
  <2>. QED
    BY <2>1, <2>2
<1>5. ObjectOf(Text(x, f)) \in ValueTexts(Grammar, n)
  BY <1>4, Zenon DEF ValueTexts
<1>. QED
  BY <1>1, <1>3, <1>5, GrammarAt, Zenon DEF IsValue

LEMMA ValueIsItems ==
    ASSUME NEW x, NEW v, IsValue(x, v)
    PROVE  IsItems(x, <<v>>)
<1>1. Text(x, v) \in ValueTexts(Grammar, Len(x)) /\ Len(x) \in 1 .. MaxTokens
  BY WordsSized, GrammarAt, Zenon
<1>2. Text(x, v).text = x /\ Text(x, v).value = v
  BY TextFields, Zenon
<1>3. Text(x, <<v>>) \in {Text(z.text, <<z.value>>) : z \in ValueTexts(Grammar, Len(x))}
  BY <1>1, <1>2, Zenon
<1>4. Text(x, <<v>>) \in ItemTexts(Grammar, Len(x))
  BY <1>3, Zenon DEF ItemTexts
<1>. QED
  BY <1>1, <1>4, InRange, GrammarAt, Zenon DEF IsItems

LEMMA MoreIsItems ==
    ASSUME NEW x, NEW s, NEW y, NEW v, IsItems(x, s), IsValue(y, v), Len(x) + 1 + Len(y) =< MaxTokens
    PROVE  IsItems(x \o Comma \o y, Append(s, v))
<1>. DEFINE k == Len(x)
            n == Len(x) + 1 + Len(y)
<1>1. Text(x, s) \in Grammar[k].items /\ Text(y, v) \in Grammar[Len(y)].values
      /\ Len(x) \in 1 .. MaxTokens /\ Len(y) \in 1 .. MaxTokens
  BY WordsSized, Zenon
<1>2. /\ n \in 1 .. MaxTokens /\ k \in 1 .. n - 2 /\ n - k - 1 = Len(y) /\ ~(Len(y) < 1)
  BY <1>1, ParserAssumption
<1>3. Text(y, v) \in ValuesFrom(Grammar, n - k - 1)
  BY <1>1, <1>2, Zenon DEF ValuesFrom
<1>. HIDE DEF n, k
<1>4. Text(x \o Comma \o y, Append(s, v)) \in MoreItems(Grammar[k].items, ValuesFrom(Grammar, n - k - 1))
  <2>1. /\ Text(x, s).text = x /\ Text(x, s).value = s /\ Text(y, v).text = y /\ Text(y, v).value = v
    BY TextFields, Zenon
  <2>. QED
    BY <1>1, <1>3, <2>1 DEF MoreItems
<1>5. Text(x \o Comma \o y, Append(s, v)) \in ItemTexts(Grammar, n)
  BY <1>2, <1>4, Zenon DEF ItemTexts
<1>. QED
  BY <1>2, <1>5, InRange, GrammarAt, Zenon DEF IsItems

MemberWord(k, y) == <<k, Sign("name_separator")>> \o y

LEMMA SingleIs ==
    ASSUME NEW k \in Strings, NEW y, NEW v, IsValue(y, v)
    PROVE  /\ Text(MemberWord(k, y), Put(NoMembers, k, v)) \in SingleTexts(Grammar, Len(y) + 2)
           /\ Len(MemberWord(k, y)) = Len(y) + 2 /\ Len(y) \in 1 .. MaxTokens
<1>1. Text(y, v) \in Grammar[Len(y)].values /\ Len(y) \in 1 .. MaxTokens /\ y \in Seq(Tokens)
  BY WordsSized, Zenon
<1>2. (Len(y) + 2) - 2 = Len(y) /\ ~(Len(y) < 1)
  BY <1>1, ParserAssumption
<1>3. Text(y, v) \in ValuesFrom(Grammar, (Len(y) + 2) - 2)
  BY <1>1, <1>2, Zenon DEF ValuesFrom
<1>4. MemberOf(k, Text(y, v)) = Text(MemberWord(k, y), Put(NoMembers, k, v))
  BY TextFields, Zenon DEF MemberOf, MemberWord
<1>5. MemberOf(k, Text(y, v)) \in SingleTexts(Grammar, Len(y) + 2)
  BY <1>3 DEF SingleTexts
<1>6. Len(MemberWord(k, y)) = Len(y) + 2
  <2>1. Len(MemberWord(k, y)) = 2 + Len(y)
    BY <1>1, KeyTyped, Zenon DEF MemberWord
  <2>. QED
    BY <1>1, <2>1, ParserAssumption
<1>. QED
  BY <1>1, <1>4, <1>5, <1>6, Zenon

LEMMA SingleIsMembers ==
    ASSUME NEW k \in Strings, NEW y, NEW v, IsValue(y, v), Len(y) + 2 =< MaxTokens
    PROVE  IsMembers(MemberWord(k, y), Put(NoMembers, k, v))
<1>1. Text(MemberWord(k, y), Put(NoMembers, k, v)) \in SingleTexts(Grammar, Len(y) + 2) /\ Len(y) \in 1 .. MaxTokens
  BY SingleIs, Zenon
<1>2. Len(y) + 2 \in 1 .. MaxTokens
  BY <1>1, ParserAssumption
<1>3. Text(MemberWord(k, y), Put(NoMembers, k, v)) \in MemberTexts(Grammar, Len(y) + 2)
  BY <1>1, Zenon DEF MemberTexts
<1>. QED
  BY <1>2, <1>3, InRange, GrammarAt, Zenon DEF IsMembers

LEMMA MoreIsMembers ==
    ASSUME NEW x, NEW f, IsMembers(x, f), NEW k \in Strings, NEW y, NEW v, IsValue(y, v),
           Len(x) + 1 + (Len(y) + 2) =< MaxTokens
    PROVE  IsMembers(x \o Comma \o MemberWord(k, y), Over(Put(NoMembers, k, v), f))
<1>. DEFINE j == Len(x)
            w == MemberWord(k, y)
            n == Len(x) + 1 + (Len(y) + 2)
<1>1. Text(x, f) \in Grammar[j].members /\ Len(x) \in 1 .. MaxTokens
  BY WordsSized, Zenon
<1>2. Text(w, Put(NoMembers, k, v)) \in SingleTexts(Grammar, Len(y) + 2) /\ Len(y) \in 1 .. MaxTokens
  BY SingleIs, Zenon
<1>3. n \in 1 .. MaxTokens /\ j \in 1 .. n - 2 /\ n - j - 1 = Len(y) + 2
  BY <1>1, <1>2, ParserAssumption
<1>. HIDE DEF n, j, w
<1>4. Text(w, Put(NoMembers, k, v)) \in SingleTexts(Grammar, n - j - 1)
  BY <1>2, <1>3, Zenon
<1>5. Text(x \o Comma \o w, Over(Put(NoMembers, k, v), f))
        \in MoreMembers(Grammar[j].members, SingleTexts(Grammar, n - j - 1))
  <2>1. /\ Text(x, f).text = x /\ Text(x, f).value = f
        /\ Text(w, Put(NoMembers, k, v)).text = w /\ Text(w, Put(NoMembers, k, v)).value = Put(NoMembers, k, v)
    BY TextFields, Zenon
  <2>. QED
    BY <1>1, <1>4, <2>1 DEF MoreMembers
<1>6. Text(x \o Comma \o w, Over(Put(NoMembers, k, v), f)) \in MemberTexts(Grammar, n)
  BY <1>3, <1>5, Zenon DEF MemberTexts
<1>7. IsMembers(x \o Comma \o w, Over(Put(NoMembers, k, v), f))
  BY <1>3, <1>6, InRange, GrammarAt, Zenon DEF IsMembers
<1>. QED
  BY <1>7 DEF w

(* A node, the places of an array or object in it, and what they stand for *)
(* when D gives the values of the nodes.                                   *)
Leaves == {t \in Scalars : t.type # "overflow"} \cup {Null}
ArrayNodes == [type : {"array"}, items : Seq(Nat)]
ObjectNodes == [type : {"object"}, members : UNION {[K -> Nat] : K \in SUBSET Strings}]
Nodes == Leaves \cup ArrayNodes \cup ObjectNodes

Slots(v) == IF v.type = "array" THEN v.items ELSE IF v.type = "object" THEN v.members ELSE <<>>
Inside(v, D) == [j \in DOMAIN Slots(v) |-> D[Slots(v)[j]]]
Meaning(v, D) == IF v.type = "array" THEN ArrayValue(Inside(v, D))
                 ELSE IF v.type = "object" THEN ObjectValue(Inside(v, D)) ELSE v

(* Nodes are below those made before them, in one place each.              *)
NodesOK(ns) ==
    /\ ns \in Seq(Nodes)
    /\ \A m \in 1 .. Len(ns) : \A j \in DOMAIN Slots(ns[m]) : Slots(ns[m])[j] \in m + 1 .. Len(ns)
    /\ \A m, n \in 1 .. Len(ns) : \A i \in DOMAIN Slots(ns[m]), j \in DOMAIN Slots(ns[n]) :
          Slots(ns[m])[i] = Slots(ns[n])[j] => m = n /\ i = j

(* The structures being read lie in one another.                           *)
StackOK(ns, refs) ==
    /\ refs \in Seq(1 .. Len(ns))
    /\ \A i, j \in 1 .. Len(refs) : i < j => refs[i] < refs[j]
    /\ \A i \in 1 .. Len(refs) : ns[refs[i]].type \in {"array", "object"}
    /\ refs # <<>> => refs[1] = 1

(* D gives the value of each structure that is not being read any more.    *)
ClosedOK(ns, refs, D) ==
    /\ DOMAIN D = 1 .. Len(ns)
    /\ \A m \in 1 .. Len(ns) : (\A i \in 1 .. Len(refs) : refs[i] # m) => D[m] = Meaning(ns[m], D)

LEMMA NodeFacts ==
    ASSUME NEW v \in Nodes
    PROVE  /\ v.type = "array" => v.items \in Seq(Nat) /\ Slots(v) = v.items /\ v = ArrayValue(v.items)
           /\ v.type = "object" => /\ v.members \in UNION {[K -> Nat] : K \in SUBSET Strings}
                                   /\ Slots(v) = v.members /\ v = ObjectValue(v.members)
           /\ v.type \notin {"array", "object"} => v \in Leaves /\ DOMAIN Slots(v) = {}
           /\ v \in Leaves => v.type \notin {"array", "object"}
<1>1. \A t \in Leaves : t.type \notin {"array", "object"}
  BY ParserAssumption DEF Leaves, Null
<1>2. \A t \in ArrayNodes : t.type = "array" /\ t.items \in Seq(Nat) /\ t = ArrayValue(t.items)
  BY DEF ArrayNodes, ArrayValue
<1>3. \A t \in ObjectNodes : /\ t.type = "object" /\ t = ObjectValue(t.members)
                             /\ t.members \in UNION {[K -> Nat] : K \in SUBSET Strings}
  <2>. TAKE t \in ObjectNodes
  <2>. DEFINE U == UNION {[K -> Nat] : K \in SUBSET Strings}
  <2>. HIDE DEF U
  <2>1. ObjectNodes = [type : {"object"}, members : U]
    BY DEF ObjectNodes, U
  <2>2. t.type = "object" /\ t = ObjectValue(t.members) /\ t.members \in U
    BY <2>1 DEF ObjectValue
  <2>. QED
    BY <2>2 DEF U
<1>4. v \in Leaves \/ v \in ArrayNodes \/ v \in ObjectNodes
  BY DEF Nodes
<1>5. "array" # "object"
  OBVIOUS
<1>6. DOMAIN <<>> = {}
  OBVIOUS
<1>. QED
  BY <1>1, <1>2, <1>3, <1>4, <1>5, <1>6 DEF Slots

LEMMA MemberNodes ==
    /\ \A s \in Seq(Nat) : ArrayValue(s) \in Nodes /\ ArrayValue(s).type = "array" /\ Slots(ArrayValue(s)) = s
    /\ \A f \in UNION {[K -> Nat] : K \in SUBSET Strings} :
          ObjectValue(f) \in Nodes /\ ObjectValue(f).type = "object" /\ Slots(ObjectValue(f)) = f
<1>1. ASSUME NEW s \in Seq(Nat)
      PROVE  ArrayValue(s) \in Nodes /\ ArrayValue(s).type = "array" /\ Slots(ArrayValue(s)) = s
  <2>1. ArrayValue(s) \in ArrayNodes /\ ArrayValue(s).type = "array" /\ ArrayValue(s).items = s
    BY DEF ArrayNodes, ArrayValue
  <2>. QED
    BY <2>1, Zenon DEF Nodes, Slots
<1>2. ASSUME NEW f \in UNION {[K -> Nat] : K \in SUBSET Strings}
      PROVE  ObjectValue(f) \in Nodes /\ ObjectValue(f).type = "object" /\ Slots(ObjectValue(f)) = f
  <2>. DEFINE U == UNION {[K -> Nat] : K \in SUBSET Strings}
  <2>0. f \in U
    OBVIOUS
  <2>. HIDE DEF U
  <2>1. ObjectNodes = [type : {"object"}, members : U]
    BY DEF ObjectNodes, U
  <2>2. ObjectValue(f) \in ObjectNodes /\ ObjectValue(f).type = "object" /\ ObjectValue(f).members = f
    BY <2>0, <2>1 DEF ObjectValue
  <2>3. "object" # "array"
    OBVIOUS
  <2>. QED
    BY <2>2, <2>3, Zenon DEF Nodes, Slots
<1>. QED
  BY <1>1, <1>2, Zenon

(* ms is ns with v at c, in the place j of r; c is new or was there.       *)
Fresh(v) == v \in Nodes /\ DOMAIN Slots(v) = {}
Grown(ns, ms, r, j, c, v) ==
    /\ r \in 1 .. Len(ns) /\ c \in r + 1 .. Len(ns) + 1 /\ Fresh(v)
    /\ ms \in Seq(Nodes) /\ ms[c] = v
    /\ \A m \in 1 .. Len(ns) : m # r /\ m # c => ms[m] = ns[m]
    /\ ms[r].type = ns[r].type /\ Slots(ms[r]) = Put(Slots(ns[r]), j, c)
    /\ \/ c = Len(ns) + 1 /\ Len(ms) = c /\ j \notin DOMAIN Slots(ns[r])
       \/ c # Len(ns) + 1 /\ Len(ms) = Len(ns) /\ j \in DOMAIN Slots(ns[r]) /\ Slots(ns[r])[j] = c

LEMMA GrownSlots ==
    ASSUME NEW ns, NodesOK(ns), NEW ms, NEW r, NEW j, NEW c, NEW v, Grown(ns, ms, r, j, c, v),
           NEW m \in 1 .. Len(ms), NEW i \in DOMAIN Slots(ms[m])
    PROVE  \/ m = r /\ i = j /\ Slots(ms[m])[i] = c
           \/ /\ m # c /\ m \in 1 .. Len(ns) /\ i \in DOMAIN Slots(ns[m]) /\ ~(m = r /\ i = j)
              /\ Slots(ms[m])[i] = Slots(ns[m])[i] /\ Slots(ns[m])[i] # c
<1>1. m # c
  BY DEF Grown, Fresh
<1>2. m \in 1 .. Len(ns) /\ Len(ns) \in Nat
  BY <1>1 DEF Grown, NodesOK
<1>0. ASSUME NEW n \in 1 .. Len(ns), NEW k \in DOMAIN Slots(ns[n]), Slots(ns[n])[k] = c
      PROVE  n = r /\ k = j
  <2>1. Slots(ns[n])[k] \in n + 1 .. Len(ns)
    BY Zenon DEF NodesOK
  <2>2. c # Len(ns) + 1
    BY <1>0, <1>2, <2>1
  <2>3. r \in 1 .. Len(ns) /\ j \in DOMAIN Slots(ns[r]) /\ Slots(ns[r])[j] = Slots(ns[n])[k]
    BY <1>0, <2>2, Zenon DEF Grown
  <2>4. \A a \in DOMAIN Slots(ns[n]), b \in DOMAIN Slots(ns[r]) :
           Slots(ns[n])[a] = Slots(ns[r])[b] => n = r /\ a = b
    BY <2>3 DEF NodesOK
  <2>. QED
    BY <2>3, <2>4
<1>3. CASE m = r
  <2>1. Slots(ms[r]) = Put(Slots(ns[r]), j, c)
    BY DEF Grown
  <2>2. /\ i \in DOMAIN Slots(ns[r]) \/ i = j
        /\ Slots(ms[r])[i] = IF i = j THEN c ELSE Slots(ns[r])[i]
    BY <1>3, <2>1 DEF Put
  <2>3. i \in DOMAIN Slots(ns[r]) /\ i # j => Slots(ns[r])[i] # c
    BY <1>0, <1>2, <1>3, Zenon
  <2>. QED
    BY <1>1, <1>2, <1>3, <2>2, <2>3
<1>4. CASE m # r
  <2>1. ms[m] = ns[m]
    BY <1>1, <1>2, <1>4 DEF Grown
  <2>2. i \in DOMAIN Slots(ns[m])
    BY <2>1
  <2>3. Slots(ns[m])[i] # c
    BY <1>0, <1>2, <1>4, <2>2, Zenon
  <2>. QED
    BY <1>1, <1>2, <1>4, <2>1, <2>2, <2>3
<1>. QED
  BY <1>3, <1>4

LEMMA GrownNodesOK ==
    ASSUME NEW ns, NodesOK(ns), NEW ms, NEW r, NEW j, NEW c, NEW v, Grown(ns, ms, r, j, c, v)
    PROVE  NodesOK(ms)
<1>1. Len(ns) \in Nat /\ Len(ms) \in Nat /\ Len(ns) =< Len(ms) /\ c =< Len(ms) /\ r \in Nat /\ c \in Nat /\ r < c
  BY DEF Grown, NodesOK
<1>2. \A m \in 1 .. Len(ms) : \A i \in DOMAIN Slots(ms[m]) :
        \/ m = r /\ i = j /\ Slots(ms[m])[i] = c
        \/ /\ m # c /\ m \in 1 .. Len(ns) /\ i \in DOMAIN Slots(ns[m]) /\ ~(m = r /\ i = j)
           /\ Slots(ms[m])[i] = Slots(ns[m])[i] /\ Slots(ns[m])[i] # c
  BY GrownSlots
<1>3. ASSUME NEW m \in 1 .. Len(ms), NEW i \in DOMAIN Slots(ms[m])
      PROVE  Slots(ms[m])[i] \in m + 1 .. Len(ms)
  <2>1. CASE m = r /\ i = j /\ Slots(ms[m])[i] = c
    BY <1>1, <2>1
  <2>2. CASE m \in 1 .. Len(ns) /\ i \in DOMAIN Slots(ns[m]) /\ Slots(ms[m])[i] = Slots(ns[m])[i]
    <3>1. Slots(ns[m])[i] \in m + 1 .. Len(ns)
      BY <2>2 DEF NodesOK
    <3>. QED
      BY <1>1, <2>2, <3>1
  <2>. QED
    BY <1>2, <2>1, <2>2, Zenon
<1>4. ASSUME NEW m \in 1 .. Len(ms), NEW n \in 1 .. Len(ms), NEW i \in DOMAIN Slots(ms[m]),
             NEW k \in DOMAIN Slots(ms[n]), Slots(ms[m])[i] = Slots(ms[n])[k]
      PROVE  m = n /\ i = k
  <2>1. CASE m = r /\ i = j /\ Slots(ms[m])[i] = c
    <3>1. Slots(ms[n])[k] = c
      BY <1>4, <2>1, Zenon
    <3>2. n = r /\ k = j
      BY <1>2, <3>1, Zenon
    <3>. QED
      BY <2>1, <3>2, Zenon
  <2>2. CASE ~(m = r /\ i = j /\ Slots(ms[m])[i] = c)
    <3>1. /\ m \in 1 .. Len(ns) /\ i \in DOMAIN Slots(ns[m]) /\ Slots(ms[m])[i] = Slots(ns[m])[i]
          /\ Slots(ns[m])[i] # c
      BY <1>2, <2>2, Zenon
    <3>2. /\ n \in 1 .. Len(ns) /\ k \in DOMAIN Slots(ns[n]) /\ Slots(ms[n])[k] = Slots(ns[n])[k]
      BY <1>2, <1>4, <3>1, Zenon
    <3>3. Slots(ns[m])[i] = Slots(ns[n])[k]
      BY <1>4, <3>1, <3>2, Zenon
    <3>. QED
      BY <3>1, <3>2, <3>3, ZenonT(60) DEF NodesOK
  <2>. QED
    BY <2>1, <2>2, Zenon
<1>5. ms \in Seq(Nodes)
  BY DEF Grown
<1>. QED
  BY <1>3, <1>4, <1>5, Zenon DEF NodesOK

IsInside(type, x, s) == IF type = "array" THEN IsItems(x, s) ELSE IsMembers(x, s)

(* Behind w a value y completes what is inside of r, in its place j.       *)
Awaits(ns, D, r, j, w) ==
    \A y, v : IsValue(y, v) /\ Len(w) + Len(y) =< MaxTokens =>
                IsInside(ns[r].type, w \o y, Put(Inside(ns[r], D), j, v))

Opening(v) == Sign(IF v.type = "array" THEN "begin_array" ELSE "begin_object")

(* P[i] is where the i-th structure begins in the text g.                  *)
Levels(ns, refs, D, P, g) ==
    /\ P \in Seq(1 .. Len(g)) /\ Len(P) = Len(refs)
    /\ refs # <<>> => P[1] = 1
    /\ \A i \in 1 .. Len(refs) : g[P[i]] = Opening(ns[refs[i]])
    /\ \A i \in 1 .. Len(refs) - 1 :
         /\ P[i] < P[i + 1]
         /\ \E j \in DOMAIN Slots(ns[refs[i]]) :
              /\ Slots(ns[refs[i]])[j] = refs[i + 1]
              /\ Awaits(ns, D, refs[i], j, SubSeq(g, P[i] + 1, P[i + 1] - 1))

LEMMA PutAt ==
    \A s, j, v : /\ DOMAIN Put(s, j, v) = DOMAIN s \cup {j} /\ Put(s, j, v)[j] = v
                 /\ \A i \in DOMAIN s : i # j => Put(s, j, v)[i] = s[i]
BY DEF Put

LEMMA SameInside ==
    ASSUME NEW v, NEW D, NEW E, \A j \in DOMAIN Slots(v) : D[Slots(v)[j]] = E[Slots(v)[j]]
    PROVE  Inside(v, D) = Inside(v, E) /\ Meaning(v, D) = Meaning(v, E)
<1>1. Inside(v, D) = Inside(v, E)
  BY DEF Inside
<1>. QED
  BY <1>1, Zenon DEF Meaning

LEMMA SamePut ==
    ASSUME NEW s, NEW t, NEW j, DOMAIN s \cup {j} = DOMAIN t \cup {j},
           \A i \in DOMAIN s : i # j => s[i] = t[i]
    PROVE  \A v : Put(s, j, v) = Put(t, j, v)
<1>. TAKE v
<1>1. \A i \in DOMAIN s \cup {j} : (IF i = j THEN v ELSE s[i]) = (IF i = j THEN v ELSE t[i])
  OBVIOUS
<1>. QED
  BY <1>1 DEF Put

(* What the places of ms stand for, D giving the values before, E those    *)
(* with d at c.                                                            *)
Stands(ns, ms, D, E, r, j, c, d) ==
    /\ DOMAIN E = 1 .. Len(ms) /\ E[c] = d
    /\ \A m \in 1 .. Len(ns) : m # c => E[m] = D[m]
    /\ \A m \in 1 .. Len(ns) : m # r /\ m # c =>
          /\ ms[m] = ns[m]
          /\ Inside(ms[m], E) = Inside(ns[m], D)
          /\ Meaning(ms[m], E) = Meaning(ns[m], D)
    /\ \A x : Put(Inside(ms[r], E), j, x) = Put(Inside(ns[r], D), j, x)
    /\ Inside(ms[r], E) = Put(Inside(ns[r], D), j, d)

LEMMA GrownInside ==
    ASSUME NEW ns, NodesOK(ns), NEW ms, NEW r, NEW j, NEW c, NEW v, Grown(ns, ms, r, j, c, v),
           NEW D, DOMAIN D = 1 .. Len(ns), NEW d
    PROVE  Stands(ns, ms, D, Put(D, c, d), r, j, c, d)
<1>. DEFINE E == Put(D, c, d)
<1>1. /\ Len(ns) \in Nat /\ Len(ms) \in Nat /\ c \in 1 .. Len(ms) /\ r \in 1 .. Len(ns) /\ r \in 1 .. Len(ms)
      /\ 1 .. Len(ms) = 1 .. Len(ns) \cup {c} /\ 1 .. Len(ns) \subseteq 1 .. Len(ms)
  BY DEF Grown, NodesOK
<1>2. DOMAIN E = 1 .. Len(ms) /\ E[c] = d /\ \A m \in 1 .. Len(ns) : m # c => E[m] = D[m]
  <2>1. /\ DOMAIN Put(D, c, d) = DOMAIN D \cup {c} /\ Put(D, c, d)[c] = d
        /\ \A i \in DOMAIN D : i # c => Put(D, c, d)[i] = D[i]
    BY DEF Put
  <2>2. DOMAIN E = DOMAIN D \cup {c} /\ E[c] = d /\ \A i \in DOMAIN D : i # c => E[i] = D[i]
    BY <2>1
  <2>. HIDE DEF E
  <2>. QED
    BY <1>1, <2>2
<1>. HIDE DEF E
<1>3. \A m \in 1 .. Len(ms) : \A i \in DOMAIN Slots(ms[m]) :
        \/ m = r /\ i = j /\ Slots(ms[m])[i] = c
        \/ /\ m # c /\ m \in 1 .. Len(ns) /\ i \in DOMAIN Slots(ns[m]) /\ ~(m = r /\ i = j)
           /\ Slots(ms[m])[i] = Slots(ns[m])[i] /\ Slots(ns[m])[i] # c
  BY GrownSlots
<1>4. ASSUME NEW m \in 1 .. Len(ns), NEW i \in DOMAIN Slots(ns[m]), Slots(ns[m])[i] # c
      PROVE  E[Slots(ns[m])[i]] = D[Slots(ns[m])[i]]
  <2>1. Slots(ns[m])[i] \in 1 .. Len(ns)
    <3>1. Slots(ns[m])[i] \in m + 1 .. Len(ns)
      BY DEF NodesOK
    <3>. QED
      BY <1>1, <3>1
  <2>. QED
    BY <1>2, <1>4, <2>1, Zenon
<1>5. ASSUME NEW m \in 1 .. Len(ns), m # r, m # c
      PROVE  ms[m] = ns[m] /\ Inside(ms[m], E) = Inside(ns[m], D) /\ Meaning(ms[m], E) = Meaning(ns[m], D)
  <2>1. ms[m] = ns[m]
    BY <1>5 DEF Grown
  <2>2. m \in 1 .. Len(ms)
    BY <1>1
  <2>3. \A i \in DOMAIN Slots(ns[m]) : E[Slots(ns[m])[i]] = D[Slots(ns[m])[i]]
    <3>. TAKE i \in DOMAIN Slots(ns[m])
    <3>1. Slots(ns[m])[i] # c
      BY <1>3, <1>5, <2>1, <2>2, Zenon
    <3>. QED
      BY <1>4, <3>1, Zenon
  <2>. QED
    BY <2>1, <2>3, SameInside
<1>6. /\ DOMAIN Slots(ms[r]) = DOMAIN Slots(ns[r]) \cup {j}
      /\ Slots(ms[r])[j] = c
  <2>1. Slots(ms[r]) = Put(Slots(ns[r]), j, c)
    BY DEF Grown
  <2>2. /\ DOMAIN Put(Slots(ns[r]), j, c) = DOMAIN Slots(ns[r]) \cup {j}
        /\ Put(Slots(ns[r]), j, c)[j] = c
    BY DEF Put
  <2>. QED
    BY <2>1, <2>2
<1>7. /\ DOMAIN Inside(ms[r], E) = DOMAIN Inside(ns[r], D) \cup {j}
      /\ Inside(ms[r], E)[j] = d
      /\ \A i \in DOMAIN Inside(ns[r], D) : i # j => Inside(ms[r], E)[i] = Inside(ns[r], D)[i]
  <2>1. DOMAIN Inside(ms[r], E) = DOMAIN Slots(ms[r]) /\ DOMAIN Inside(ns[r], D) = DOMAIN Slots(ns[r])
    BY DEF Inside
  <2>2. /\ \A i \in DOMAIN Slots(ms[r]) : Inside(ms[r], E)[i] = E[Slots(ms[r])[i]]
        /\ \A i \in DOMAIN Slots(ns[r]) : Inside(ns[r], D)[i] = D[Slots(ns[r])[i]]
    BY DEF Inside
  <2>3. Inside(ms[r], E)[j] = d
    BY <1>2, <1>6, <2>2
  <2>4. ASSUME NEW i \in DOMAIN Slots(ns[r]), i # j
        PROVE  E[Slots(ms[r])[i]] = D[Slots(ns[r])[i]] /\ i \in DOMAIN Slots(ms[r])
    <3>1. i \in DOMAIN Slots(ms[r])
      BY <1>6
    <3>2. Slots(ms[r])[i] = Slots(ns[r])[i] /\ Slots(ns[r])[i] # c
      BY <1>1, <1>3, <2>4, <3>1, Zenon
    <3>. QED
      BY <1>1, <1>4, <3>1, <3>2, Zenon
  <2>. QED
    BY <1>6, <2>1, <2>2, <2>3, <2>4, Zenon
<1>8. \A x : Put(Inside(ms[r], E), j, x) = Put(Inside(ns[r], D), j, x)
  <2>. DEFINE a == Inside(ms[r], E)
              b == Inside(ns[r], D)
  <2>. HIDE DEF a, b
  <2>1. DOMAIN b \cup {j} = DOMAIN a \cup {j} /\ \A i \in DOMAIN b : i # j => b[i] = a[i]
    BY <1>7 DEF a, b
  <2>2. \A x : Put(b, j, x) = Put(a, j, x)
    BY <2>1, SamePut
  <2>. QED
    BY <2>2, Zenon DEF a, b
<1>9. Inside(ms[r], E) = Put(Inside(ns[r], D), j, d)
  <2>. DEFINE a == Inside(ms[r], E)
              b == Inside(ns[r], D)
  <2>1. a = [i \in DOMAIN a |-> a[i]]
    BY DEF Inside
  <2>. HIDE DEF a, b
  <2>2. DOMAIN a = DOMAIN b \cup {j} /\ a[j] = d /\ \A i \in DOMAIN b : i # j => a[i] = b[i]
    BY <1>7, Zenon DEF a, b
  <2>3. a = Put(b, j, d)
    BY <2>1, <2>2 DEF Put
  <2>. QED
    BY <2>3, Zenon DEF a, b
<1>. QED
  BY <1>2, <1>5, <1>8, <1>9, Zenon DEF E, Stands

Opens(v) == v.type \in {"array", "object"}

LEMMA Widened ==
    ASSUME NEW S, NEW T, S \subseteq T, NEW s \in Seq(S)
    PROVE  s \in Seq(T)
<1>1. s \in [1 .. Len(s) -> T] /\ Len(s) \in Nat
  OBVIOUS
<1>. QED
  BY <1>1

LEMMA GrownStack ==
    ASSUME NEW ns, NodesOK(ns), NEW ms, NEW r, NEW j, NEW c, NEW v, Grown(ns, ms, r, j, c, v),
           NEW refs, StackOK(ns, refs), refs # <<>>, refs[Len(refs)] = r
    PROVE  /\ StackOK(ms, refs)
           /\ Opens(v) => StackOK(ms, Append(refs, c))
           /\ \A i \in 1 .. Len(refs) : /\ refs[i] \in 1 .. Len(ns) /\ refs[i] # c
                                        /\ i # Len(refs) => refs[i] # r
           /\ \A i \in 1 .. Len(refs) : ms[refs[i]].type = ns[refs[i]].type
<1>1. /\ Len(ns) \in Nat /\ Len(ms) \in Nat /\ c \in 1 .. Len(ms) /\ r \in 1 .. Len(ns) /\ r < c
      /\ 1 .. Len(ns) \subseteq 1 .. Len(ms) /\ c \in Nat /\ r \in Nat
  BY DEF Grown, NodesOK
<1>2. refs \in Seq(1 .. Len(ns)) /\ Len(refs) \in Nat /\ Len(refs) # 0
  BY DEF StackOK
<1>3. \A i \in 1 .. Len(refs) : refs[i] \in 1 .. Len(ns) /\ refs[i] =< r /\ (i # Len(refs) => refs[i] < r)
  <2>. TAKE i \in 1 .. Len(refs)
  <2>1. refs[i] \in 1 .. Len(ns)
    BY <1>2
  <2>2. i # Len(refs) => refs[i] < r
    <3>1. i # Len(refs) => i < Len(refs) /\ Len(refs) \in 1 .. Len(refs)
      BY <1>2
    <3>. QED
      BY <3>1 DEF StackOK
  <2>. QED
    BY <1>1, <2>1, <2>2
<1>4. \A i \in 1 .. Len(refs) : refs[i] # c /\ (i # Len(refs) => refs[i] # r)
  BY <1>1, <1>3
<1>5. \A i \in 1 .. Len(refs) : ms[refs[i]].type = ns[refs[i]].type
  <2>. TAKE i \in 1 .. Len(refs)
  <2>1. CASE refs[i] = r
    BY <2>1 DEF Grown
  <2>2. CASE refs[i] # r
    BY <1>3, <1>4, <2>2 DEF Grown
  <2>. QED
    BY <2>1, <2>2
<1>6. StackOK(ms, refs)
  <2>1. refs \in Seq(1 .. Len(ms))
    BY <1>1, <1>2, Widened, Zenon
  <2>. QED
    BY <1>5, <2>1 DEF StackOK
<1>7. ASSUME Opens(v)
      PROVE  StackOK(ms, Append(refs, c))
  <2>. DEFINE s == Append(refs, c)
  <2>1. /\ s \in Seq(1 .. Len(ms)) /\ Len(s) = Len(refs) + 1 /\ s[Len(refs) + 1] = c
        /\ \A i \in 1 .. Len(refs) : s[i] = refs[i]
    BY <1>1, <1>6 DEF StackOK
  <2>. HIDE DEF s
  <2>2. \A i \in 1 .. Len(s) : i \in 1 .. Len(refs) \/ i = Len(refs) + 1
    BY <1>2, <2>1
  <2>3. \A i, k \in 1 .. Len(s) : i < k => s[i] < s[k]
    <3>. TAKE i, k \in 1 .. Len(s)
    <3>. HAVE i < k
    <3>1. i \in 1 .. Len(refs) /\ s[i] = refs[i]
      BY <1>2, <2>1, SMTT(30), ZenonT(30)
    <3>2. CASE k \in 1 .. Len(refs)
      BY <2>1, <3>1, <3>2 DEF StackOK
    <3>3. CASE k = Len(refs) + 1
      BY <1>1, <1>3, <2>1, <3>1, <3>3
    <3>. QED
      BY <2>2, <3>2, <3>3
  <2>4. \A i \in 1 .. Len(s) : ms[s[i]].type \in {"array", "object"}
    <3>. TAKE i \in 1 .. Len(s)
    <3>1. CASE i \in 1 .. Len(refs)
      BY <1>6, <2>1, <3>1 DEF StackOK
    <3>2. CASE i = Len(refs) + 1
      BY <1>7, <2>1, <3>2 DEF Grown, Opens
    <3>. QED
      BY <2>2, <3>1, <3>2
  <2>5. s # <<>> => s[1] = 1
    <3>1. 1 \in 1 .. Len(refs) /\ refs # <<>>
      BY <1>2
    <3>. QED
      BY <2>1, <3>1 DEF StackOK
  <2>. QED
    BY <2>1, <2>3, <2>4, <2>5, Zenon DEF StackOK, s
<1>. QED
  BY <1>3, <1>4, <1>5, <1>6, <1>7, Zenon

LEMMA GrownClosed ==
    ASSUME NEW ns, NodesOK(ns), NEW ms, NEW r, NEW j, NEW c, NEW v, Grown(ns, ms, r, j, c, v),
           NEW refs, StackOK(ns, refs), refs # <<>>, refs[Len(refs)] = r,
           NEW D, ClosedOK(ns, refs, D), NEW d
    PROVE  /\ d = v /\ ~Opens(v) => ClosedOK(ms, refs, Put(D, c, d))
           /\ ClosedOK(ms, Append(refs, c), Put(D, c, d))
<1>. DEFINE E == Put(D, c, d)
<1>1. /\ Len(ns) \in Nat /\ Len(ms) \in Nat /\ c \in 1 .. Len(ms) /\ r \in 1 .. Len(ns)
      /\ 1 .. Len(ms) = 1 .. Len(ns) \cup {c}
  BY DEF Grown, NodesOK
<1>2. DOMAIN D = 1 .. Len(ns)
  BY DEF ClosedOK
<1>3. /\ DOMAIN E = 1 .. Len(ms) /\ E[c] = d
      /\ \A m \in 1 .. Len(ns) : m # c => E[m] = D[m]
      /\ \A m \in 1 .. Len(ns) : m # r /\ m # c => Meaning(ms[m], E) = Meaning(ns[m], D)
  <2>1. Stands(ns, ms, D, E, r, j, c, d)
    BY <1>2, GrownInside
  <2>. QED
    BY <2>1 DEF Stands
<1>. HIDE DEF E
<1>4. refs \in Seq(1 .. Len(ns)) /\ Len(refs) \in Nat /\ Len(refs) \in 1 .. Len(refs)
  BY DEF StackOK
<1>5. ASSUME NEW m \in 1 .. Len(ms), m # c, \A i \in 1 .. Len(refs) : refs[i] # m
      PROVE  E[m] = Meaning(ms[m], E)
  <2>1. m \in 1 .. Len(ns) /\ m # r
    BY <1>1, <1>4, <1>5
  <2>2. D[m] = Meaning(ns[m], D)
    BY <1>5, <2>1, Zenon DEF ClosedOK
  <2>. QED
    BY <1>3, <1>5, <2>1, <2>2, Zenon
<1>6. d = v /\ ~Opens(v) => E[c] = Meaning(ms[c], E)
  BY <1>3 DEF Grown, Meaning, Opens
<1>7. \A m \in 1 .. Len(ms) : (\A i \in 1 .. Len(Append(refs, c)) : Append(refs, c)[i] # m) =>
         m # c /\ \A i \in 1 .. Len(refs) : refs[i] # m
  <2>. TAKE m \in 1 .. Len(ms)
  <2>. HAVE \A i \in 1 .. Len(Append(refs, c)) : Append(refs, c)[i] # m
  <2>1. /\ Len(Append(refs, c)) = Len(refs) + 1 /\ Append(refs, c)[Len(refs) + 1] = c
        /\ \A i \in 1 .. Len(refs) : Append(refs, c)[i] = refs[i]
    BY <1>4
  <2>2. Len(refs) + 1 \in 1 .. Len(Append(refs, c)) /\ 1 .. Len(refs) \subseteq 1 .. Len(Append(refs, c))
    BY <1>4, <2>1
  <2>. QED
    BY <2>1, <2>2
<1>8. ClosedOK(ms, Append(refs, c), E)
  BY <1>3, <1>5, <1>7, Zenon DEF ClosedOK
<1>9. d = v /\ ~Opens(v) => ClosedOK(ms, refs, E)
  BY <1>3, <1>5, <1>6, Zenon DEF ClosedOK
<1>. QED
  BY <1>8, <1>9, Zenon DEF E

LEMMA AwaitsSame ==
    ASSUME NEW ns, NEW ms, NEW D, NEW E, NEW r, NEW j, NEW w, Awaits(ns, D, r, j, w),
           ms[r].type = ns[r].type,
           \A x : Put(Inside(ms[r], E), j, x) = Put(Inside(ns[r], D), j, x)
    PROVE  Awaits(ms, E, r, j, w)
BY Zenon DEF Awaits

LEMMA GrownLevels ==
    ASSUME NEW ns, NodesOK(ns), NEW ms, NEW r, NEW j, NEW c, NEW v, Grown(ns, ms, r, j, c, v),
           NEW refs, StackOK(ns, refs), refs # <<>>, refs[Len(refs)] = r,
           NEW D, DOMAIN D = 1 .. Len(ns), NEW d, NEW P, NEW g, Levels(ns, refs, D, P, g)
    PROVE  Levels(ms, refs, Put(D, c, d), P, g)
<1>. DEFINE E == Put(D, c, d)
<1>1. /\ \A i \in 1 .. Len(refs) : /\ refs[i] \in 1 .. Len(ns) /\ refs[i] # c
                                   /\ i # Len(refs) => refs[i] # r
      /\ \A i \in 1 .. Len(refs) : ms[refs[i]].type = ns[refs[i]].type
  BY GrownStack
<1>2. \A m \in 1 .. Len(ns) : m # r /\ m # c => ms[m] = ns[m] /\ Inside(ms[m], E) = Inside(ns[m], D)
  <2>1. Stands(ns, ms, D, E, r, j, c, d)
    BY GrownInside
  <2>. QED
    BY <2>1 DEF Stands
<1>. HIDE DEF E
<1>3. Len(refs) \in Nat
  BY DEF StackOK
<1>4. \A i \in 1 .. Len(refs) : g[P[i]] = Opening(ms[refs[i]])
  BY <1>1, Zenon DEF Levels, Opening
<1>5. ASSUME NEW i \in 1 .. Len(refs) - 1
      PROVE  /\ P[i] < P[i + 1]
             /\ \E k \in DOMAIN Slots(ms[refs[i]]) :
                  /\ Slots(ms[refs[i]])[k] = refs[i + 1]
                  /\ Awaits(ms, E, refs[i], k, SubSeq(g, P[i] + 1, P[i + 1] - 1))
  <2>1. i \in 1 .. Len(refs) /\ i # Len(refs)
    BY <1>3
  <2>2. ms[refs[i]] = ns[refs[i]] /\ Inside(ms[refs[i]], E) = Inside(ns[refs[i]], D)
    BY <1>1, <1>2, <2>1, Zenon
  <2>3. P[i] < P[i + 1]
    BY DEF Levels
  <2>4. PICK k \in DOMAIN Slots(ns[refs[i]]) :
          /\ Slots(ns[refs[i]])[k] = refs[i + 1]
          /\ Awaits(ns, D, refs[i], k, SubSeq(g, P[i] + 1, P[i + 1] - 1))
    BY DEF Levels
  <2>5. Awaits(ms, E, refs[i], k, SubSeq(g, P[i] + 1, P[i + 1] - 1))
    <3>1. /\ ms[refs[i]].type = ns[refs[i]].type
          /\ \A x : Put(Inside(ms[refs[i]], E), k, x) = Put(Inside(ns[refs[i]], D), k, x)
      BY <2>2, Zenon
    <3>. QED
      BY <2>4, <3>1, AwaitsSame, Zenon
  <2>6. k \in DOMAIN Slots(ms[refs[i]]) /\ Slots(ms[refs[i]])[k] = refs[i + 1]
    BY <2>2, <2>4, Zenon
  <2>. QED
    BY <2>3, <2>5, <2>6, Zenon
<1>6. P \in Seq(1 .. Len(g)) /\ Len(P) = Len(refs) /\ (refs # <<>> => P[1] = 1)
  BY Zenon DEF Levels
<1>7. Levels(ms, refs, E, P, g)
  BY <1>4, <1>5, <1>6, Zenon DEF Levels
<1>. QED
  BY <1>7 DEF E

LEMMA TextGrows ==
    ASSUME NEW ns, NEW refs \in Seq(Nat), NEW D, NEW P, NEW g \in Seq(Tokens), NEW t \in Tokens,
           Levels(ns, refs, D, P, g)
    PROVE  Levels(ns, refs, D, P, Append(g, t))
<1>. DEFINE h == Append(g, t)
<1>1. /\ h \in Seq(Tokens) /\ Len(h) = Len(g) + 1 /\ Len(g) \in Nat /\ Len(refs) \in Nat
      /\ \A i \in 1 .. Len(g) : h[i] = g[i]
  OBVIOUS
<1>2. P \in Seq(1 .. Len(g)) /\ Len(P) = Len(refs) /\ (refs # <<>> => P[1] = 1)
  BY Zenon DEF Levels
<1>. HIDE DEF h
<1>3. P \in Seq(1 .. Len(h)) /\ \A i \in 1 .. Len(refs) : P[i] \in 1 .. Len(g)
  BY <1>1, <1>2
<1>4. \A i \in 1 .. Len(refs) : h[P[i]] = Opening(ns[refs[i]])
  BY <1>1, <1>3, Zenon DEF Levels
<1>5. \A a, b \in Nat : 1 =< a /\ b =< Len(g) => SubSeq(h, a, b) = SubSeq(g, a, b)
  BY <1>1
<1>6. ASSUME NEW i \in 1 .. Len(refs) - 1
      PROVE  SubSeq(h, P[i] + 1, P[i + 1] - 1) = SubSeq(g, P[i] + 1, P[i + 1] - 1)
  <2>1. P[i] \in 1 .. Len(g) /\ P[i + 1] \in 1 .. Len(g)
    BY <1>1, <1>3
  <2>2. P[i] + 1 \in Nat /\ P[i + 1] - 1 \in Nat /\ 1 =< P[i] + 1 /\ P[i + 1] - 1 =< Len(g)
    <3>. DEFINE a == P[i]
                b == P[i + 1]
    <3>1. a \in 1 .. Len(g) /\ b \in 1 .. Len(g)
      BY <2>1
    <3>. HIDE DEF a, b
    <3>2. a + 1 \in Nat /\ b - 1 \in Nat /\ 1 =< a + 1 /\ b - 1 =< Len(g)
      BY <1>1, <3>1
    <3>. QED
      BY <3>2 DEF a, b
  <2>. QED
    BY <1>5, <2>2
<1>7. \A i \in 1 .. Len(refs) - 1 :
         /\ P[i] < P[i + 1]
         /\ \E j \in DOMAIN Slots(ns[refs[i]]) :
              /\ Slots(ns[refs[i]])[j] = refs[i + 1]
              /\ Awaits(ns, D, refs[i], j, SubSeq(h, P[i] + 1, P[i + 1] - 1))
  BY <1>6 DEF Levels
<1>8. Levels(ns, refs, D, P, h)
  BY <1>2, <1>3, <1>4, <1>7, Zenon DEF Levels
<1>. QED
  BY <1>8 DEF h

LEMMA PushLevel ==
    ASSUME NEW ns, NEW refs \in Seq(Nat), refs # <<>>, NEW D, NEW g \in Seq(Tokens), NEW P,
           Levels(ns, refs, D, P, g), NEW c \in Nat, NEW j,
           P[Len(refs)] < Len(g), g[Len(g)] = Opening(ns[c]),
           j \in DOMAIN Slots(ns[refs[Len(refs)]]), Slots(ns[refs[Len(refs)]])[j] = c,
           Awaits(ns, D, refs[Len(refs)], j, SubSeq(g, P[Len(refs)] + 1, Len(g) - 1))
    PROVE  Levels(ns, Append(refs, c), D, Append(P, Len(g)), g)
<1>. DEFINE s == Append(refs, c)
            Q == Append(P, Len(g))
            l == Len(refs)
<1>1. /\ l \in Nat /\ l # 0 /\ Len(g) \in Nat
      /\ s \in Seq(Nat) /\ Len(s) = l + 1 /\ s[l + 1] = c /\ \A i \in 1 .. l : s[i] = refs[i]
  OBVIOUS
<1>2. P \in Seq(1 .. Len(g)) /\ Len(P) = l /\ P[1] = 1
  BY Zenon DEF Levels
<1>3. l \in 1 .. l /\ P[l] \in 1 .. Len(g) /\ Len(g) \in 1 .. Len(g)
  BY <1>1, <1>2, SMTT(30), ZenonT(30)
<1>4. /\ Q \in Seq(1 .. Len(g)) /\ Len(Q) = l + 1 /\ Q[l + 1] = Len(g)
      /\ \A i \in 1 .. l : Q[i] = P[i]
  BY <1>1, <1>2, <1>3
<1>5. /\ \A i \in 1 .. l : g[P[i]] = Opening(ns[refs[i]])
      /\ \A i \in 1 .. l - 1 :
           /\ P[i] < P[i + 1]
           /\ \E k \in DOMAIN Slots(ns[refs[i]]) :
                /\ Slots(ns[refs[i]])[k] = refs[i + 1]
                /\ Awaits(ns, D, refs[i], k, SubSeq(g, P[i] + 1, P[i + 1] - 1))
  BY Zenon DEF Levels
<1>6. Q[1] = 1
  BY <1>1, <1>2, <1>4
<1>. DEFINE w == SubSeq(g, P[l] + 1, Len(g) - 1)
<1>7. Awaits(ns, D, refs[l], j, w) /\ j \in DOMAIN Slots(ns[refs[l]]) /\ Slots(ns[refs[l]])[j] = c
  OBVIOUS
<1>. HIDE DEF s, Q, l
<1>8. \A i \in 1 .. Len(s) : g[Q[i]] = Opening(ns[s[i]])
  <2>. TAKE i \in 1 .. Len(s)
  <2>1. i \in 1 .. l \/ i = l + 1
    BY <1>1
  <2>2. g[Len(g)] = Opening(ns[c])
    OBVIOUS
  <2>. QED
    BY <1>1, <1>4, <1>5, <2>1, <2>2
<1>9. ASSUME NEW i \in 1 .. Len(s) - 1
      PROVE  /\ Q[i] < Q[i + 1]
             /\ \E k \in DOMAIN Slots(ns[s[i]]) :
                  /\ Slots(ns[s[i]])[k] = s[i + 1]
                  /\ Awaits(ns, D, s[i], k, SubSeq(g, Q[i] + 1, Q[i + 1] - 1))
  <2>1. i \in 1 .. l /\ (i # l => i \in 1 .. l - 1 /\ i + 1 \in 1 .. l)
    BY <1>1
  <2>2. CASE i = l
    <3>1. Q[i] = P[l] /\ Q[i + 1] = Len(g) /\ s[i] = refs[l] /\ s[i + 1] = c
      BY <1>1, <1>3, <1>4, <2>2
    <3>2. P[l] < Len(g)
      BY DEF l
    <3>. QED
      BY <1>7, <3>1, <3>2
  <2>3. CASE i # l
    <3>1. Q[i] = P[i] /\ Q[i + 1] = P[i + 1] /\ s[i] = refs[i] /\ s[i + 1] = refs[i + 1]
      BY <1>1, <1>4, <2>1, <2>3
    <3>. QED
      BY <1>5, <2>1, <2>3, <3>1
  <2>. QED
    BY <2>2, <2>3
<1>10. Len(Q) = Len(s)
  BY <1>1, <1>4
<1>. QED
  <2>1. Levels(ns, s, D, Q, g)
    BY <1>4, <1>6, <1>8, <1>9, <1>10, Zenon DEF Levels
  <2>. QED
    BY <2>1 DEF s, Q

LEMMA FirstLevel ==
    ASSUME NEW ns, NEW D, NEW t \in Tokens, t = Opening(ns[1])
    PROVE  Levels(ns, <<1>>, D, <<1>>, <<t>>)
<1>1. /\ <<1>> \in Seq(1 .. Len(<<t>>)) /\ Len(<<1>>) = 1 /\ <<1>>[1] = 1 /\ <<t>>[1] = t
  OBVIOUS
<1>2. \A i \in 1 .. Len(<<1>>) : i = 1
  OBVIOUS
<1>3. 1 .. Len(<<1>>) - 1 = {}
  OBVIOUS
<1>4. \A i \in 1 .. Len(<<1>>) : <<t>>[<<1>>[i]] = Opening(ns[<<1>>[i]])
  BY <1>1, <1>2
<1>. QED
  BY <1>1, <1>3, <1>4 DEF Levels

-----------------------------------------------------------------------------
(* The text of the structure that is read, up to the end of g.             *)
Contents(P, l, g) == SubSeq(g, P[l] + 1, Len(g))
Complete(ns, r, D, w) ==
    IsInside(ns[r].type, w, Inside(ns[r], D)) \/ (w = <<>> /\ DOMAIN Slots(ns[r]) = {})
Closing(v) == Sign(IF v.type = "array" THEN "end_array" ELSE "end_object")

LEMMA EmptyInside ==
    ASSUME NEW v \in Nodes, DOMAIN Slots(v) = {}, NEW D
    PROVE  /\ v.type = "array" => Inside(v, D) = <<>>
           /\ v.type = "object" => Inside(v, D) = NoMembers
<1>1. v.type = "array" => Inside(v, D) = <<>>
  <2>. HAVE v.type = "array"
  <2>1. Slots(v) \in Seq(Nat)
    BY NodeFacts, Zenon
  <2>. DEFINE f == Inside(v, D)
  <2>2. f = [j \in {} |-> D[Slots(v)[j]]]
    BY DEF Inside
  <2>3. <<>> = [j \in {} |-> D[Slots(v)[j]]]
    OBVIOUS
  <2>. QED
    BY <2>2, <2>3
<1>2. Inside(v, D) = NoMembers
  <2>1. Inside(v, D) = [j \in {} |-> D[Slots(v)[j]]]
    BY DEF Inside
  <2>2. NoMembers = [j \in {} |-> D[Slots(v)[j]]]
    BY DEF NoMembers
  <2>. QED
    BY <2>1, <2>2
<1>. QED
  BY <1>1, <1>2

LEMMA StructureIsValue ==
    ASSUME NEW v \in Nodes, Opens(v), NEW D, NEW w \in Seq(Tokens), Len(w) + 2 =< MaxTokens,
           IsInside(v.type, w, Inside(v, D)) \/ (w = <<>> /\ DOMAIN Slots(v) = {})
    PROVE  IsValue(<<Opening(v)>> \o w \o <<Closing(v)>>, Meaning(v, D))
<1>1. CASE v.type = "array"
  <2>1. IsItems(w, Inside(v, D)) \/ (w = <<>> /\ Inside(v, D) = <<>>)
    BY <1>1, EmptyInside DEF IsInside
  <2>2. IsValue(Bracketed(w), ArrayValue(Inside(v, D)))
    BY <2>1, ArrayIsValue
  <2>. QED
    BY <1>1, <2>2 DEF Bracketed, Opening, Closing, Meaning
<1>2. CASE v.type = "object"
  <2>1. IsMembers(w, Inside(v, D)) \/ (w = <<>> /\ Inside(v, D) = NoMembers)
    BY <1>2, EmptyInside DEF IsInside
  <2>2. IsValue(Braced(w), ObjectValue(Inside(v, D)))
    BY <2>1, ObjectIsValue
  <2>. QED
    BY <1>2, <2>2 DEF Braced, Opening, Closing, Meaning
<1>. QED
  BY <1>1, <1>2 DEF Opens

(* A node that is in place j of r, or in none, gets another value.         *)
Values(D, ns) == DOMAIN D = 1 .. Len(ns)
LEMMA Revalued ==
    ASSUME NEW ns, NodesOK(ns), NEW D, Values(D, ns), NEW c \in 1 .. Len(ns), NEW d,
           NEW m \in 1 .. Len(ns)
    PROVE  /\ (\A i \in DOMAIN Slots(ns[m]) : Slots(ns[m])[i] # c) =>
                 /\ Inside(ns[m], Put(D, c, d)) = Inside(ns[m], D)
                 /\ Meaning(ns[m], Put(D, c, d)) = Meaning(ns[m], D)
           /\ \A j \in DOMAIN Slots(ns[m]) : Slots(ns[m])[j] = c =>
                 Inside(ns[m], Put(D, c, d)) = Put(Inside(ns[m], D), j, d)
<1>. DEFINE E == Put(D, c, d)
<1>1. E[c] = d /\ \A n \in 1 .. Len(ns) : n # c => E[n] = D[n]
  BY DEF Put, Values
<1>. HIDE DEF E
<1>2. \A i \in DOMAIN Slots(ns[m]) : Slots(ns[m])[i] \in 1 .. Len(ns)
  <2>. TAKE i \in DOMAIN Slots(ns[m])
  <2>1. Slots(ns[m])[i] \in m + 1 .. Len(ns) /\ Len(ns) \in Nat
    BY DEF NodesOK
  <2>. QED
    BY <2>1
<1>3. ASSUME \A i \in DOMAIN Slots(ns[m]) : Slots(ns[m])[i] # c
      PROVE  Inside(ns[m], E) = Inside(ns[m], D) /\ Meaning(ns[m], E) = Meaning(ns[m], D)
  <2>1. \A i \in DOMAIN Slots(ns[m]) : E[Slots(ns[m])[i]] = D[Slots(ns[m])[i]]
    BY <1>1, <1>2, <1>3, Zenon
  <2>. QED
    BY <2>1, SameInside
<1>4. ASSUME NEW j \in DOMAIN Slots(ns[m]), Slots(ns[m])[j] = c
      PROVE  Inside(ns[m], E) = Put(Inside(ns[m], D), j, d)
  <2>1. \A i, k \in DOMAIN Slots(ns[m]) : Slots(ns[m])[i] = Slots(ns[m])[k] => i = k
    BY DEF NodesOK
  <2>2. \A i \in DOMAIN Slots(ns[m]) : i # j => E[Slots(ns[m])[i]] = D[Slots(ns[m])[i]]
    BY <1>1, <1>2, <1>4, <2>1, Zenon
  <2>. DEFINE f == Slots(ns[m])
  <2>. HIDE DEF f
  <2>3. [i \in DOMAIN f |-> E[f[i]]] = Put([i \in DOMAIN f |-> D[f[i]]], j, d)
    <3>1. E[f[j]] = d /\ j \in DOMAIN f /\ \A i \in DOMAIN f : i # j => E[f[i]] = D[f[i]]
      BY <1>1, <1>4, <2>2 DEF f
    <3>. QED
      BY <3>1 DEF Put
  <2>. QED
    BY <2>3 DEF Inside, f
<1>. QED
  BY <1>3, <1>4, Zenon DEF E

LEMMA SameElements ==
    ASSUME NEW S, NEW a \in Seq(S), NEW b \in Seq(S), Len(a) = Len(b), \A i \in 1 .. Len(a) : a[i] = b[i]
    PROVE  a = b
<1>1. a = [i \in 1 .. Len(a) |-> a[i]] /\ b = [i \in 1 .. Len(b) |-> b[i]]
  BY AsFunction
<1>. DEFINE n == Len(a)
<1>2. a = [i \in 1 .. n |-> a[i]] /\ b = [i \in 1 .. n |-> b[i]] /\ \A i \in 1 .. n : a[i] = b[i]
  BY <1>1
<1>. HIDE DEF n
<1>. QED
  BY <1>2

(* An element more, or the elements of two parts.                          *)
LEMMA JoinIs ==
    ASSUME NEW S, NEW a \in Seq(S), NEW b \in Seq(S), NEW c \in Seq(S), Len(c) = Len(a) + Len(b),
           \A i \in 1 .. Len(a) : c[i] = a[i], \A i \in 1 .. Len(b) : c[Len(a) + i] = b[i]
    PROVE  c = a \o b
<1>. DEFINE d == a \o b
<1>1. /\ d \in Seq(S) /\ Len(d) = Len(a) + Len(b) /\ Len(a) \in Nat /\ Len(b) \in Nat
      /\ \A i \in 1 .. Len(a) : d[i] = a[i]
      /\ \A i \in 1 .. Len(b) : d[Len(a) + i] = b[i]
  OBVIOUS
<1>. HIDE DEF d
<1>2. ASSUME NEW i \in 1 .. Len(c)
      PROVE  c[i] = d[i]
  <2>1. i \in 1 .. Len(a) \/ (i - Len(a) \in 1 .. Len(b) /\ Len(a) + (i - Len(a)) = i)
    BY <1>1
  <2>2. CASE i \in 1 .. Len(a)
    BY <1>1, <2>2
  <2>3. CASE i - Len(a) \in 1 .. Len(b) /\ Len(a) + (i - Len(a)) = i
    <3>1. c[Len(a) + (i - Len(a))] = b[i - Len(a)] /\ d[Len(a) + (i - Len(a))] = b[i - Len(a)]
      BY <1>1, <2>3
    <3>. QED
      BY <2>3, <3>1
  <2>. QED
    BY <2>1, <2>2, <2>3
<1>3. c = d
  BY <1>1, <1>2, SameElements
<1>. QED
  BY <1>3 DEF d

(* Parts of a text, and of the text one token later.                       *)
LEMMA PartGrows ==
    ASSUME NEW S, NEW g \in Seq(S), NEW t \in S, NEW p \in 0 .. Len(g)
    PROVE  /\ SubSeq(g, p + 1, Len(g)) \in Seq(S) /\ Len(SubSeq(g, p + 1, Len(g))) = Len(g) - p
           /\ SubSeq(Append(g, t), p + 1, Len(Append(g, t))) = SubSeq(g, p + 1, Len(g)) \o <<t>>
           /\ SubSeq(Append(g, t), p + 1, Len(Append(g, t)) - 1) = SubSeq(g, p + 1, Len(g))
<1>. DEFINE h == Append(g, t)
            a == SubSeq(g, p + 1, Len(g))
            b == SubSeq(h, p + 1, Len(h))
            c == SubSeq(h, p + 1, Len(h) - 1)
<1>1. /\ h \in Seq(S) /\ Len(h) = Len(g) + 1 /\ Len(g) \in Nat /\ h[Len(g) + 1] = t
      /\ \A i \in 1 .. Len(g) : h[i] = g[i]
  BY Appended
<1>. HIDE DEF h
<1>2. a \in Seq(S) /\ Len(a) = Len(g) - p /\ \A i \in 1 .. Len(g) - p : a[i] = g[p + i]
  BY <1>1
<1>3. b \in Seq(S) /\ Len(b) = Len(g) + 1 - p /\ \A i \in 1 .. Len(g) + 1 - p : b[i] = h[p + i]
  BY <1>1
<1>4. c \in Seq(S) /\ Len(c) = Len(g) - p /\ \A i \in 1 .. Len(g) - p : c[i] = h[p + i]
  BY <1>1
<1>. HIDE DEF a, b, c
<1>5. \A i \in 1 .. Len(g) - p : p + i \in 1 .. Len(g)
  BY <1>1
<1>6. c = a
  <2>1. Len(c) = Len(a) /\ \A i \in 1 .. Len(c) : c[i] = a[i]
    BY <1>1, <1>2, <1>4, <1>5
  <2>. QED
    BY <1>2, <1>4, <2>1, SameElements
<1>7. <<t>> \in Seq(S) /\ Len(<<t>>) = 1 /\ <<t>>[1] = t
  BY OneElement, Zenon
<1>8. b = a \o <<t>>
  <2>. DEFINE u == <<t>>
              n == Len(g) - p
  <2>1. n \in Nat /\ Len(g) + 1 - p = n + 1 /\ p + (n + 1) = Len(g) + 1
    BY <1>1
  <2>2. u \in Seq(S) /\ Len(u) = 1 /\ u[1] = t
    BY <1>7
  <2>. HIDE DEF u
  <2>3. \A i \in 1 .. n : b[i] = a[i]
    BY <1>1, <1>2, <1>3, <1>5, <2>1
  <2>4. b[n + 1] = t
    <3>1. n + 1 \in 1 .. Len(g) + 1 - p
      BY <2>1
    <3>2. b[n + 1] = h[p + (n + 1)]
      BY <1>3, <3>1
    <3>. QED
      BY <1>1, <2>1, <3>2
  <2>5. Len(a) = n /\ Len(b) = n + 1
    BY <1>2, <1>3, <2>1
  <2>. HIDE DEF n
  <2>6. b = a \o u
    <3>1. Len(b) = Len(a) + Len(u) /\ \A i \in 1 .. Len(a) : b[i] = a[i]
      BY <2>2, <2>3, <2>5
    <3>2. \A i \in 1 .. Len(u) : b[Len(a) + i] = u[i]
      BY <2>2, <2>4, <2>5
    <3>. QED
      BY <1>2, <1>3, <2>2, <3>1, <3>2, JoinIs
  <2>. QED
    BY <2>6 DEF u
<1>. QED
  BY <1>2, <1>6, <1>8 DEF a, b, c, h

LEMMA PartSplits ==
    ASSUME NEW S, NEW h \in Seq(S), NEW a \in Nat, NEW p \in Nat, 1 =< a, a =< p, p =< Len(h)
    PROVE  /\ SubSeq(h, a, Len(h)) = SubSeq(h, a, p - 1) \o SubSeq(h, p, Len(h))
           /\ SubSeq(h, a, p - 1) \in Seq(S) /\ Len(SubSeq(h, a, p - 1)) = p - a
           /\ SubSeq(h, p, Len(h)) \in Seq(S) /\ Len(SubSeq(h, p, Len(h))) = Len(h) - p + 1
<1>. DEFINE x == SubSeq(h, a, Len(h))
            y == SubSeq(h, a, p - 1)
            z == SubSeq(h, p, Len(h))
<1>1. x \in Seq(S) /\ Len(x) = Len(h) - a + 1 /\ \A i \in 1 .. Len(h) - a + 1 : x[i] = h[a + i - 1]
  OBVIOUS
<1>2. y \in Seq(S) /\ Len(y) = p - a /\ \A i \in 1 .. p - a : y[i] = h[a + i - 1]
  OBVIOUS
<1>3. z \in Seq(S) /\ Len(z) = Len(h) - p + 1 /\ \A i \in 1 .. Len(h) - p + 1 : z[i] = h[p + i - 1]
  OBVIOUS
<1>. HIDE DEF x, y, z
<1>4. x = y \o z
  <2>1. Len(x) = Len(y) + Len(z) /\ \A i \in 1 .. Len(y) : x[i] = y[i]
    BY <1>1, <1>2, <1>3
  <2>2. \A i \in 1 .. Len(z) : x[Len(y) + i] = z[i]
    <3>. TAKE i \in 1 .. Len(z)
    <3>1. (p - a) + i \in 1 .. Len(h) - a + 1 /\ a + ((p - a) + i) - 1 = p + i - 1
      BY <1>3
    <3>2. x[(p - a) + i] = h[a + ((p - a) + i) - 1]
      BY <1>1, <3>1
    <3>. QED
      BY <1>2, <1>3, <3>1, <3>2
  <2>. QED
    BY <1>1, <1>2, <1>3, <2>1, <2>2, JoinIs
<1>. QED
  BY <1>2, <1>3, <1>4 DEF x, y, z

LEMMA WholePart ==
    ASSUME NEW S, NEW g \in Seq(S)
    PROVE  SubSeq(g, 1, Len(g)) = g
OBVIOUS

(* From an opening to its end: what is inside, between the two.            *)
LEMMA Enclosed ==
    ASSUME NEW S, NEW g \in Seq(S), NEW t \in S, NEW p \in 1 .. Len(g)
    PROVE  SubSeq(Append(g, t), p, Len(Append(g, t))) = <<g[p]>> \o SubSeq(g, p + 1, Len(g)) \o <<t>>
<1>1. p - 1 \in 0 .. Len(g) /\ (p - 1) + 1 = p /\ p \in Nat /\ p + 1 \in Nat
  OBVIOUS
<1>2. SubSeq(Append(g, t), p, Len(Append(g, t))) = SubSeq(g, p, Len(g)) \o <<t>>
  <2>1. \A q \in 0 .. Len(g) :
          SubSeq(Append(g, t), q + 1, Len(Append(g, t))) = SubSeq(g, q + 1, Len(g)) \o <<t>>
    BY PartGrows, SMTT(30), ZenonT(30)
  <2>2. SubSeq(Append(g, t), (p - 1) + 1, Len(Append(g, t))) = SubSeq(g, (p - 1) + 1, Len(g)) \o <<t>>
    BY <1>1, <2>1
  <2>. QED
    BY <1>1, <2>2
<1>3. SubSeq(g, p, Len(g)) = <<g[p]>> \o SubSeq(g, p + 1, Len(g))
  OBVIOUS
<1>. QED
  BY <1>2, <1>3

-----------------------------------------------------------------------------
(* What is read is a value: all of it, or what is inside of the structure  *)
(* that is read.                                                           *)
Valued(ns, refs, D, P, g) ==
    IF refs = <<>> THEN ns # <<>> /\ IsValue(g, D[1])
    ELSE IsInside(ns[refs[Len(refs)]].type, Contents(P, Len(refs), g), Inside(ns[refs[Len(refs)]], D))

LEMMA FrontIs ==
    ASSUME NEW S, NEW s \in Seq(S), s # <<>>
    PROVE  /\ Front(s) \in Seq(S) /\ Len(Front(s)) = Len(s) - 1 /\ Len(s) \in Nat /\ Len(s) # 0
           /\ \A i \in 1 .. Len(s) - 1 : Front(s)[i] = s[i] /\ i \in 1 .. Len(s) /\ i # Len(s)
           /\ Last(s) = s[Len(s)] /\ Len(s) \in 1 .. Len(s) /\ s[Len(s)] \in S
           /\ (Front(s) = <<>>) = (Len(s) = 1)
<1>. DEFINE f == Front(s)
            n == Len(s)
<1>1. n \in Nat /\ n # 0 /\ n - 1 \in Nat /\ n \in 1 .. n /\ s[n] \in S /\ Last(s) = s[n]
  BY DEF Last
<1>2. f \in Seq(S) /\ Len(f) = n - 1 /\ \A i \in 1 .. n - 1 : f[i] = s[i]
  <2>. DEFINE z == n - 1
  <2>1. f = SubSeq(s, 1, z)
    BY DEF Front
  <2>2. z \in Nat /\ 1 =< z + 1 /\ z =< Len(s)
    BY <1>1
  <2>. HIDE DEF f, z
  <2>3. /\ SubSeq(s, 1, z) \in Seq(S) /\ Len(SubSeq(s, 1, z)) = z - 1 + 1
        /\ \A i \in 1 .. z - 1 + 1 : SubSeq(s, 1, z)[i] = s[1 + i - 1]
    BY <2>2, Part
  <2>4. f \in Seq(S) /\ Len(f) = z /\ \A i \in 1 .. z : f[i] = s[i]
    BY <2>1, <2>2, <2>3
  <2>. QED
    BY <2>4 DEF z
<1>. HIDE DEF f, n
<1>3. (f = <<>>) = (n = 1)
  BY <1>1, <1>2
<1>4. \A i \in 1 .. n - 1 : i \in 1 .. n /\ i # n
  BY <1>1
<1>. QED
  BY <1>1, <1>2, <1>3, <1>4 DEF f, n

LEMMA ClosesStack ==
    ASSUME NEW ns, NodesOK(ns), NEW refs, StackOK(ns, refs), refs # <<>>
    PROVE  StackOK(ns, Front(refs))
<1>1. refs \in Seq(1 .. Len(ns))
  BY DEF StackOK
<1>. DEFINE s == Front(refs)
<1>2. /\ s \in Seq(1 .. Len(ns)) /\ Len(s) = Len(refs) - 1 /\ Len(refs) \in Nat /\ Len(refs) # 0
      /\ \A i \in 1 .. Len(s) : s[i] = refs[i] /\ i \in 1 .. Len(refs)
  <2>1. /\ Front(refs) \in Seq(1 .. Len(ns)) /\ Len(Front(refs)) = Len(refs) - 1
        /\ Len(refs) \in Nat /\ Len(refs) # 0
        /\ \A i \in 1 .. Len(refs) - 1 : Front(refs)[i] = refs[i] /\ i \in 1 .. Len(refs) /\ i # Len(refs)
        /\ Last(refs) = refs[Len(refs)] /\ Len(refs) \in 1 .. Len(refs) /\ refs[Len(refs)] \in 1 .. Len(ns)
        /\ (Front(refs) = <<>>) = (Len(refs) = 1)
    BY <1>1, FrontIs, SMTT(30), ZenonT(30)
  <2>. QED
    BY <2>1
<1>. HIDE DEF s
<1>3. \A i, j \in 1 .. Len(s) : i < j => s[i] < s[j]
  <2>1. \A i, j \in 1 .. Len(refs) : i < j => refs[i] < refs[j]
    BY Zenon DEF StackOK
  <2>. QED
    BY <1>2, <2>1
<1>4. \A i \in 1 .. Len(s) : ns[s[i]].type \in {"array", "object"}
  BY <1>2 DEF StackOK
<1>5. s # <<>> => s[1] = 1
  <2>. HAVE s # <<>>
  <2>1. 1 \in 1 .. Len(s)
    BY <1>2
  <2>. QED
    BY <1>2, <2>1 DEF StackOK
<1>. QED
  BY <1>2, <1>3, <1>4, <1>5, Zenon DEF StackOK, s

(* Only the structure around r has a place for it.                         *)
LEMMA PlaceOfTop ==
    ASSUME NEW ns, NodesOK(ns), NEW refs, StackOK(ns, refs), refs # <<>>,
           NEW D, NEW P, NEW g, Levels(ns, refs, D, P, g)
    PROVE  \A m \in 1 .. Len(ns) : \A i \in DOMAIN Slots(ns[m]) :
             Slots(ns[m])[i] = refs[Len(refs)] => Len(refs) # 1 /\ m = refs[Len(refs) - 1]
<1>. TAKE m \in 1 .. Len(ns)
<1>. TAKE i \in DOMAIN Slots(ns[m])
<1>. HAVE Slots(ns[m])[i] = refs[Len(refs)]
<1>. DEFINE l == Len(refs)
<1>1. refs \in Seq(1 .. Len(ns)) /\ l \in Nat /\ l # 0 /\ l \in 1 .. l
  BY DEF StackOK
<1>2. Slots(ns[m])[i] \in m + 1 .. Len(ns)
  BY DEF NodesOK
<1>3. l # 1
  <2>1. l = 1 => refs[l] = 1
    BY DEF StackOK
  <2>. QED
    BY <1>2, <2>1
<1>. HIDE DEF l
<1>4. l - 1 \in 1 .. l - 1 /\ l - 1 \in 1 .. l /\ (l - 1) + 1 = l
  BY <1>1, <1>3
<1>5. \E j \in DOMAIN Slots(ns[refs[l - 1]]) : Slots(ns[refs[l - 1]])[j] = refs[(l - 1) + 1]
  BY <1>4, Zenon DEF Levels, l
<1>6. PICK j \in DOMAIN Slots(ns[refs[l - 1]]) : Slots(ns[refs[l - 1]])[j] = refs[l]
  BY <1>4, <1>5
<1>7. refs[l - 1] \in 1 .. Len(ns)
  <2>1. \A q \in 1 .. l : refs[q] \in 1 .. Len(ns)
    BY <1>1 DEF l
  <2>. QED
    BY <1>4, <2>1
<1>8. Slots(ns[m])[i] = Slots(ns[refs[l - 1]])[j]
  BY <1>6 DEF l
<1>9. \A a \in DOMAIN Slots(ns[m]), b \in DOMAIN Slots(ns[refs[l - 1]]) :
         Slots(ns[m])[a] = Slots(ns[refs[l - 1]])[b] => m = refs[l - 1] /\ a = b
  <2>. DEFINE n == refs[l - 1]
  <2>1. n \in 1 .. Len(ns)
    BY <1>7
  <2>. HIDE DEF n
  <2>2. \A a \in DOMAIN Slots(ns[m]), b \in DOMAIN Slots(ns[n]) :
           Slots(ns[m])[a] = Slots(ns[n])[b] => m = n /\ a = b
    BY <2>1 DEF NodesOK
  <2>. QED
    BY <2>2 DEF n
<1>. QED
  BY <1>3, <1>6, <1>8, <1>9 DEF l

LEMMA ClosesClosed ==
    ASSUME NEW ns, NodesOK(ns), NEW refs, StackOK(ns, refs), refs # <<>>,
           NEW D, ClosedOK(ns, refs, D), NEW P, NEW g, Levels(ns, refs, D, P, g),
           NEW r, r = refs[Len(refs)]
    PROVE  ClosedOK(ns, Front(refs), Put(D, r, Meaning(ns[r], D)))
<1>. DEFINE d == Meaning(ns[r], D)
            E == Put(D, r, Meaning(ns[r], D))
            s == Front(refs)
            l == Len(refs)
<1>1. refs \in Seq(1 .. Len(ns)) /\ DOMAIN D = 1 .. Len(ns)
  BY DEF StackOK, ClosedOK
<1>2. /\ l \in Nat /\ l # 0 /\ r \in 1 .. Len(ns) /\ Len(s) = l - 1
      /\ \A i \in 1 .. l - 1 : s[i] = refs[i] /\ refs[i] \in 1 .. Len(ns)
  <2>1. /\ Front(refs) \in Seq(1 .. Len(ns)) /\ Len(Front(refs)) = Len(refs) - 1
        /\ Len(refs) \in Nat /\ Len(refs) # 0
        /\ \A i \in 1 .. Len(refs) - 1 : Front(refs)[i] = refs[i] /\ i \in 1 .. Len(refs) /\ i # Len(refs)
        /\ Last(refs) = refs[Len(refs)] /\ Len(refs) \in 1 .. Len(refs) /\ refs[Len(refs)] \in 1 .. Len(ns)
        /\ (Front(refs) = <<>>) = (Len(refs) = 1)
    BY <1>1, FrontIs
  <2>2. \A i \in 1 .. Len(refs) : refs[i] \in 1 .. Len(ns)
    BY <1>1
  <2>. QED
    BY <2>1, <2>2
<1>3. /\ DOMAIN E = 1 .. Len(ns) /\ E[r] = d /\ \A n \in 1 .. Len(ns) : n # r => E[n] = D[n]
  BY <1>1, <1>2 DEF Put
<1>4. \A m \in 1 .. Len(ns) : (\A i \in DOMAIN Slots(ns[m]) : Slots(ns[m])[i] # r)
                                 => Meaning(ns[m], E) = Meaning(ns[m], D)
  <2>1. Values(D, ns)
    BY <1>1 DEF Values
  <2>. QED
    BY <1>1, <1>2, <2>1, Revalued
<1>5. \A m \in 1 .. Len(ns) : \A i \in DOMAIN Slots(ns[m]) : Slots(ns[m])[i] = r => l # 1 /\ m = refs[l - 1]
  BY PlaceOfTop
<1>6. l # 1 => l - 1 \in 1 .. l - 1 /\ refs[l - 1] # r
  <2>. HAVE l # 1
  <2>1. l - 1 \in 1 .. l - 1 /\ l - 1 \in 1 .. l /\ l \in 1 .. l /\ l - 1 < l
    BY <1>2
  <2>2. refs[l - 1] < refs[l]
    BY <2>1, Zenon DEF StackOK
  <2>3. refs[l - 1] \in Nat
    BY <1>1, <2>1
  <2>4. refs[l - 1] # refs[l]
    BY <2>2, <2>3
  <2>. QED
    BY <2>1, <2>4
<1>. HIDE DEF d, E, s, l
<1>7. ASSUME NEW m \in 1 .. Len(ns), \A i \in 1 .. Len(s) : s[i] # m
      PROVE  E[m] = Meaning(ns[m], E)
  <2>1. \A i \in 1 .. l - 1 : refs[i] # m
    BY <1>2, <1>7
  <2>2. \A i \in DOMAIN Slots(ns[m]) : Slots(ns[m])[i] # r
    BY <1>5, <1>6, <2>1, Zenon
  <2>3. Meaning(ns[m], E) = Meaning(ns[m], D)
    BY <1>4, <2>2, Zenon
  <2>4. CASE m = r
    BY <1>3, <2>3, <2>4 DEF d
  <2>5. CASE m # r
    <3>1. \A i \in 1 .. l : i \in 1 .. l - 1 \/ i = l
      BY <1>2
    <3>2. \A i \in 1 .. Len(refs) : refs[i] # m
      BY <2>1, <2>5, <3>1, Zenon DEF l
    <3>3. D[m] = Meaning(ns[m], D)
      BY <3>2, Zenon DEF ClosedOK
    <3>. QED
      BY <1>3, <2>3, <2>5, <3>3
  <2>. QED
    BY <2>4, <2>5
<1>. QED
  BY <1>3, <1>7, Zenon DEF ClosedOK, E, s

LEMMA StackFront ==
    ASSUME NEW ns, NEW refs, StackOK(ns, refs), refs # <<>>
    PROVE  /\ refs \in Seq(1 .. Len(ns)) /\ refs \in Seq(Nat) /\ Front(refs) \in Seq(1 .. Len(ns))
           /\ Len(refs) \in Nat /\ Len(refs) # 0 /\ Len(Front(refs)) = Len(refs) - 1
           /\ \A i \in 1 .. Len(refs) : refs[i] \in 1 .. Len(ns)
           /\ \A i \in 1 .. Len(refs) - 1 : Front(refs)[i] = refs[i] /\ i \in 1 .. Len(refs) /\ i # Len(refs)
           /\ Last(refs) = refs[Len(refs)] /\ Len(refs) \in 1 .. Len(refs)
           /\ (Front(refs) = <<>>) = (Len(refs) = 1)
           /\ refs[Len(refs)] \in 1 .. Len(ns) /\ ns[refs[Len(refs)]].type \in {"array", "object"}
<1>1. refs \in Seq(1 .. Len(ns))
  BY DEF StackOK
<1>2. /\ Front(refs) \in Seq(1 .. Len(ns)) /\ Len(Front(refs)) = Len(refs) - 1
      /\ Len(refs) \in Nat /\ Len(refs) # 0
      /\ \A i \in 1 .. Len(refs) - 1 : Front(refs)[i] = refs[i] /\ i \in 1 .. Len(refs) /\ i # Len(refs)
      /\ Last(refs) = refs[Len(refs)] /\ Len(refs) \in 1 .. Len(refs) /\ refs[Len(refs)] \in 1 .. Len(ns)
      /\ (Front(refs) = <<>>) = (Len(refs) = 1)
  BY <1>1, FrontIs
<1>3. \A i \in 1 .. Len(refs) : refs[i] \in 1 .. Len(ns)
  BY <1>1
<1>4. ns[refs[Len(refs)]].type \in {"array", "object"}
  BY <1>2 DEF StackOK
<1>5. refs \in Seq(Nat)
  <2>1. 1 .. Len(ns) \subseteq Nat
    <3>1. \A x \in 1 .. Len(ns) : x \in Int /\ 1 =< x
      OBVIOUS
    <3>. QED
      BY <3>1
  <2>. QED
    BY <1>1, <2>1, Widened, Zenon
<1>. QED
  BY <1>1, <1>2, <1>3, <1>4, <1>5, Zenon

LEMMA LevelFacts ==
    ASSUME NEW ns, NEW refs, StackOK(ns, refs), refs # <<>>, NEW D, NEW P, NEW g \in Seq(Tokens),
           Levels(ns, refs, D, P, g)
    PROVE  /\ P \in Seq(1 .. Len(g)) /\ Len(P) = Len(refs) /\ P[1] = 1 /\ P # <<>>
           /\ \A i \in 1 .. Len(refs) : P[i] \in 1 .. Len(g)
           /\ P[Len(refs)] \in 1 .. Len(g)
           /\ \A i \in 1 .. Len(refs) - 1 : P[i] < P[i + 1]
<1>1. P \in Seq(1 .. Len(g)) /\ Len(P) = Len(refs) /\ P[1] = 1 /\ Len(refs) \in 1 .. Len(refs)
  BY StackFront, Zenon DEF Levels
<1>2. \A i \in 1 .. Len(refs) : P[i] \in 1 .. Len(g)
  BY <1>1
<1>3. P # <<>>
  BY <1>1
<1>4. \A i \in 1 .. Len(refs) - 1 : P[i] < P[i + 1]
  BY Zenon DEF Levels
<1>. QED
  BY <1>1, <1>2, <1>3, <1>4, Zenon

PlaceOf(ns, m, j, c) == m \in 1 .. Len(ns) /\ j \in DOMAIN Slots(ns[m]) /\ Slots(ns[m])[j] = c

LEMMA PlaceRevalued ==
    ASSUME NEW ns, NodesOK(ns), NEW D, Values(D, ns), NEW c \in 1 .. Len(ns), NEW d,
           NEW m, NEW j, PlaceOf(ns, m, j, c)
    PROVE  Inside(ns[m], Put(D, c, d)) = Put(Inside(ns[m], D), j, d)
<1>. USE DEF PlaceOf
<1>1. Put(D, c, d)[c] = d /\ \A n \in 1 .. Len(ns) : n # c => Put(D, c, d)[n] = D[n]
  BY DEF Put, Values
<1>2. \A i \in DOMAIN Slots(ns[m]) : Slots(ns[m])[i] \in 1 .. Len(ns)
  <2>. TAKE i \in DOMAIN Slots(ns[m])
  <2>1. Slots(ns[m])[i] \in m + 1 .. Len(ns) /\ Len(ns) \in Nat
    BY DEF NodesOK
  <2>. QED
    BY <2>1
<1>3. \A i, k \in DOMAIN Slots(ns[m]) : Slots(ns[m])[i] = Slots(ns[m])[k] => i = k
  BY DEF NodesOK
<1>. DEFINE f == Slots(ns[m])
            E == Put(D, c, d)
<1>4. E[f[j]] = d /\ j \in DOMAIN f /\ \A i \in DOMAIN f : i # j => E[f[i]] = D[f[i]]
  BY <1>1, <1>2, <1>3
<1>. HIDE DEF f, E
<1>5. [i \in DOMAIN f |-> E[f[i]]] = Put([i \in DOMAIN f |-> D[f[i]]], j, d)
  BY <1>4 DEF Put
<1>. QED
  BY <1>5 DEF Inside, f, E

LEMMA ClosesLevels ==
    ASSUME NEW ns, NodesOK(ns), NEW refs, StackOK(ns, refs), refs # <<>>,
           NEW D, ClosedOK(ns, refs, D), NEW P, NEW g \in Seq(Tokens), Levels(ns, refs, D, P, g),
           NEW d
    PROVE  Levels(ns, Front(refs), Put(D, refs[Len(refs)], d), Front(P), g)
<1>. DEFINE s == Front(refs)
            Q == Front(P)
            l == Len(refs)
            r == refs[Len(refs)]
            E == Put(D, r, d)
<1>1. /\ l \in Nat /\ l # 0 /\ Len(s) = l - 1 /\ (s = <<>>) = (l = 1) /\ r \in 1 .. Len(ns)
      /\ \A i \in 1 .. l : refs[i] \in 1 .. Len(ns)
      /\ \A i \in 1 .. l - 1 : s[i] = refs[i] /\ i \in 1 .. l /\ i # l
  BY StackFront
<1>2. P \in Seq(1 .. Len(g)) /\ Len(P) = l /\ P[1] = 1 /\ P # <<>>
  BY LevelFacts
<1>3. /\ Q \in Seq(1 .. Len(g)) /\ Len(Q) = l - 1
      /\ \A i \in 1 .. l - 1 : Q[i] = P[i]
  <2>1. /\ Front(P) \in Seq(1 .. Len(g)) /\ Len(Front(P)) = Len(P) - 1
        /\ \A i \in 1 .. Len(P) - 1 : Front(P)[i] = P[i] /\ i \in 1 .. Len(P) /\ i # Len(P)
    BY <1>2, FrontIs, SMTT(30), ZenonT(30)
  <2>. QED
    BY <1>2, <2>1
<1>4. DOMAIN D = 1 .. Len(ns)
  BY DEF ClosedOK
<1>5. \A m \in 1 .. Len(ns) : (\A i \in DOMAIN Slots(ns[m]) : Slots(ns[m])[i] # r)
                                 => Inside(ns[m], E) = Inside(ns[m], D)
  <2>1. Values(D, ns)
    BY <1>4 DEF Values
  <2>. QED
    BY <1>1, <2>1, Revalued
<1>6. \A m \in 1 .. Len(ns) : \A i \in DOMAIN Slots(ns[m]) : Slots(ns[m])[i] = r => l # 1 /\ m = refs[l - 1]
  BY PlaceOfTop
<1>7. \A i, j \in 1 .. l : i < j => refs[i] < refs[j]
  BY Zenon DEF StackOK
<1>8. /\ \A i \in 1 .. l : g[P[i]] = Opening(ns[refs[i]])
      /\ \A i \in 1 .. l - 1 :
           /\ P[i] < P[i + 1]
           /\ \E j \in DOMAIN Slots(ns[refs[i]]) :
                /\ Slots(ns[refs[i]])[j] = refs[i + 1]
                /\ Awaits(ns, D, refs[i], j, SubSeq(g, P[i] + 1, P[i + 1] - 1))
  BY Zenon DEF Levels
<1>. HIDE DEF s, Q, l, r, E
<1>9. \A i \in 1 .. Len(s) : g[Q[i]] = Opening(ns[s[i]])
  BY <1>1, <1>3, <1>8
<1>10. ASSUME NEW i \in 1 .. Len(s) - 1
       PROVE  /\ Q[i] < Q[i + 1]
              /\ \E j \in DOMAIN Slots(ns[s[i]]) :
                   /\ Slots(ns[s[i]])[j] = s[i + 1]
                   /\ Awaits(ns, E, s[i], j, SubSeq(g, Q[i] + 1, Q[i + 1] - 1))
  <2>1. i \in 1 .. l - 1 /\ i + 1 \in 1 .. l - 1 /\ l - 1 \in 1 .. l /\ i < l - 1 /\ i \in 1 .. l
    BY <1>1
  <2>2. s[i] = refs[i] /\ s[i + 1] = refs[i + 1] /\ Q[i] = P[i] /\ Q[i + 1] = P[i + 1]
    BY <1>1, <1>3, <2>1
  <2>3. PICK j \in DOMAIN Slots(ns[refs[i]]) :
          /\ Slots(ns[refs[i]])[j] = refs[i + 1]
          /\ Awaits(ns, D, refs[i], j, SubSeq(g, P[i] + 1, P[i + 1] - 1))
    BY <1>8, <2>1, Zenon
  <2>4. refs[i] # refs[l - 1]
    <3>1. refs[i] < refs[l - 1] /\ refs[i] \in 1 .. Len(ns)
      BY <1>1, <1>7, <2>1
    <3>2. refs[i] \in Int
      BY <3>1
    <3>. QED
      BY <3>1, <3>2
  <2>5. Inside(ns[refs[i]], E) = Inside(ns[refs[i]], D)
    BY <1>1, <1>5, <1>6, <2>1, <2>4, Zenon
  <2>6. Awaits(ns, E, refs[i], j, SubSeq(g, P[i] + 1, P[i + 1] - 1))
    <3>1. \A x : Put(Inside(ns[refs[i]], E), j, x) = Put(Inside(ns[refs[i]], D), j, x)
      BY <2>5, Zenon
    <3>. QED
      BY <2>3, <3>1, AwaitsSame, Zenon
  <2>7. P[i] < P[i + 1]
    BY <1>8, <2>1, Zenon
  <2>. QED
    BY <2>2, <2>3, <2>6, <2>7, Zenon
<1>11. Len(Q) = Len(s) /\ (s # <<>> => Q[1] = 1)
  BY <1>1, <1>2, <1>3
<1>. QED
  <2>1. Levels(ns, s, E, Q, g)
    BY <1>3, <1>9, <1>10, <1>11, Zenon DEF Levels
  <2>. QED
    BY <2>1 DEF s, E, Q, r

(* Its end makes a structure that is complete the value read.              *)
LEMMA ClosesValue ==
    ASSUME NEW ns, NodesOK(ns), NEW refs, StackOK(ns, refs), refs # <<>>,
           NEW D, ClosedOK(ns, refs, D), NEW P, NEW g \in Seq(Tokens), Levels(ns, refs, D, P, g),
           NEW t \in Tokens, NEW r, r = refs[Len(refs)], t = Closing(ns[r]), Len(g) < MaxTokens,
           Complete(ns, r, D, Contents(P, Len(refs), g))
    PROVE  Valued(ns, Front(refs), Put(D, r, Meaning(ns[r], D)), Front(P), Append(g, t))
<1>. DEFINE s == Front(refs)
            Q == Front(P)
            l == Len(refs)
            d == Meaning(ns[r], D)
            E == Put(D, r, d)
            h == Append(g, t)
            w == Contents(P, l, g)
            y == SubSeq(h, P[l], Len(h))
<1>1. /\ l \in Nat /\ l # 0 /\ Len(s) = l - 1 /\ (s = <<>>) = (l = 1) /\ r \in 1 .. Len(ns)
      /\ \A i \in 1 .. l : refs[i] \in 1 .. Len(ns)
      /\ \A i \in 1 .. l - 1 : s[i] = refs[i] /\ i \in 1 .. l /\ i # l
      /\ l \in 1 .. l /\ ns[r].type \in {"array", "object"}
  BY StackFront
<1>2. /\ P \in Seq(1 .. Len(g)) /\ Len(P) = l /\ P[1] = 1 /\ P # <<>> /\ P[l] \in 1 .. Len(g)
      /\ \A i \in 1 .. l : P[i] \in 1 .. Len(g)
      /\ \A i \in 1 .. l - 1 : P[i] < P[i + 1]
  BY LevelFacts
<1>3. \A i \in 1 .. l - 1 : Q[i] = P[i]
  <2>1. \A i \in 1 .. Len(P) - 1 : Front(P)[i] = P[i] /\ i \in 1 .. Len(P) /\ i # Len(P)
    BY <1>2, FrontIs
  <2>. QED
    BY <1>2, <2>1
<1>4. ns \in Seq(Nodes) /\ ns[r] \in Nodes /\ Opens(ns[r]) /\ DOMAIN D = 1 .. Len(ns)
  <2>1. ns \in Seq(Nodes)
    BY DEF NodesOK
  <2>. QED
    BY <1>1, <2>1 DEF Opens, ClosedOK
<1>5. g[P[l]] = Opening(ns[r])
  BY <1>1 DEF Levels
<1>6. h \in Seq(Tokens) /\ Len(h) = Len(g) + 1 /\ Len(g) \in Nat /\ MaxTokens \in Nat
  BY ParserAssumption
<1>7. y = <<Opening(ns[r])>> \o w \o <<t>>
  <2>1. \A p \in 1 .. Len(g) :
          SubSeq(Append(g, t), p, Len(Append(g, t))) = <<g[p]>> \o SubSeq(g, p + 1, Len(g)) \o <<t>>
    BY Enclosed
  <2>. QED
    BY <1>2, <1>5, <2>1 DEF Contents
<1>8. w \in Seq(Tokens) /\ Len(w) = Len(g) - P[l]
  <2>1. \A p \in 0 .. Len(g) : /\ SubSeq(g, p + 1, Len(g)) \in Seq(Tokens)
                               /\ Len(SubSeq(g, p + 1, Len(g))) = Len(g) - p
    BY PartGrows
  <2>2. P[l] \in 0 .. Len(g)
    BY <1>2
  <2>. QED
    BY <2>1, <2>2 DEF Contents
<1>9. IsValue(y, d)
  <2>1. Len(w) + 2 =< MaxTokens
    <3>. DEFINE p == P[l]
    <3>1. p \in 1 .. Len(g) /\ Len(w) = Len(g) - p
      BY <1>2, <1>8
    <3>. HIDE DEF p, w
    <3>. QED
      BY <1>6, <3>1
  <2>2. IsInside(ns[r].type, w, Inside(ns[r], D)) \/ (w = <<>> /\ DOMAIN Slots(ns[r]) = {})
    BY DEF Complete
  <2>. HIDE DEF w
  <2>3. IsValue(<<Opening(ns[r])>> \o w \o <<Closing(ns[r])>>, Meaning(ns[r], D))
    BY <1>4, <1>8, <2>1, <2>2, StructureIsValue
  <2>. QED
    BY <1>7, <2>3
<1>10. CASE l = 1
  <2>1. r = 1 /\ P[l] = 1
    BY <1>2, <1>10 DEF StackOK
  <2>2. y = h
    BY <1>6, <2>1, WholePart
  <2>3. E[1] = d
    BY <2>1 DEF Put
  <2>4. ns # <<>>
    BY <1>1
  <2>5. s = <<>>
    BY <1>1, <1>10
  <2>. HIDE DEF s, Q, d, E, h, w, y
  <2>6. IsValue(h, E[1])
    BY <1>9, <2>2, <2>3, Zenon
  <2>7. Valued(ns, s, E, Q, h)
    BY <2>4, <2>5, <2>6, Zenon DEF Valued
  <2>. QED
    BY <2>7 DEF s, Q, E, h, d
<1>11. CASE l # 1
  <2>. DEFINE o == refs[l - 1]
              a == P[l - 1] + 1
  <2>1. /\ l - 1 \in 1 .. l - 1 /\ l - 1 \in 1 .. l /\ (l - 1) + 1 = l /\ o \in 1 .. Len(ns)
        /\ s # <<>> /\ Len(s) = l - 1 /\ s[l - 1] = o /\ Q[l - 1] = P[l - 1]
    <3>. HIDE DEF s, Q, l
    <3>1. l - 1 \in 1 .. l - 1 /\ l - 1 \in 1 .. l /\ (l - 1) + 1 = l
      BY <1>1, <1>11
    <3>2. s # <<>>
      BY <1>1, <1>11
    <3>. QED
      BY <1>1, <1>3, <3>1, <3>2
  <2>2. \E j \in DOMAIN Slots(ns[o]) :
           /\ Slots(ns[o])[j] = refs[(l - 1) + 1]
           /\ Awaits(ns, D, o, j, SubSeq(g, P[l - 1] + 1, P[(l - 1) + 1] - 1))
    BY <2>1, Zenon DEF Levels
  <2>3. PICK j \in DOMAIN Slots(ns[o]) :
           /\ Slots(ns[o])[j] = r
           /\ Awaits(ns, D, o, j, SubSeq(g, a, P[l] - 1))
    BY <2>1, <2>2
  <2>4. P[l - 1] < P[l] /\ P[l - 1] \in 1 .. Len(g)
    BY <1>2, <2>1
  <2>. DEFINE p == P[l]
  <2>5. a \in Nat /\ 1 =< a /\ a =< p /\ p \in Nat /\ p =< Len(g) /\ p =< Len(h)
    <3>. DEFINE q == P[l - 1]
    <3>1. q < p /\ q \in 1 .. Len(g) /\ p \in 1 .. Len(g) /\ a = q + 1
      BY <1>2, <2>4
    <3>. HIDE DEF q, p, a, h
    <3>. QED
      BY <1>6, <3>1
  <2>6. /\ SubSeq(h, a, Len(h)) = SubSeq(h, a, p - 1) \o SubSeq(h, p, Len(h))
        /\ SubSeq(h, a, p - 1) \in Seq(Tokens) /\ Len(SubSeq(h, a, p - 1)) = p - a
        /\ SubSeq(h, p, Len(h)) \in Seq(Tokens) /\ Len(SubSeq(h, p, Len(h))) = Len(h) - p + 1
    <3>. HIDE DEF h, p, a
    <3>. QED
      BY <1>6, <2>5, PartSplits, SMTT(30), ZenonT(30)
  <2>7. SubSeq(h, a, p - 1) = SubSeq(g, a, p - 1)
    <3>1. \A b, c \in Nat : 1 =< b /\ c =< Len(g) => SubSeq(h, b, c) = SubSeq(g, b, c)
      OBVIOUS
    <3>2. p - 1 \in Nat /\ p - 1 =< Len(g)
      BY <1>6, <2>5
    <3>. HIDE DEF h, p, a
    <3>. QED
      BY <2>5, <3>1, <3>2
  <2>. DEFINE x == SubSeq(g, a, p - 1)
  <2>8. Len(x) + Len(y) =< MaxTokens
    <3>1. Len(x) = p - a /\ Len(y) = Len(h) - p + 1
      BY <2>6, <2>7
    <3>. HIDE DEF x, y, h, p, a
    <3>. QED
      BY <1>6, <2>5, <3>1
  <2>9. IsInside(ns[o].type, x \o y, Put(Inside(ns[o], D), j, d))
    <3>1. Awaits(ns, D, o, j, x)
      BY <2>3
    <3>. HIDE DEF x, y, o, d
    <3>. QED
      BY <1>9, <2>8, <3>1, Zenon DEF Awaits
  <2>10. Inside(ns[o], E) = Put(Inside(ns[o], D), j, d)
    <3>1. PlaceOf(ns, o, j, r) /\ r \in 1 .. Len(ns) /\ Values(D, ns)
      BY <1>1, <1>4, <2>1, <2>3 DEF Values, PlaceOf
    <3>. HIDE DEF o, d
    <3>2. ASSUME NEW q, NEW b, NEW u, PlaceOf(ns, b, u, q), q \in 1 .. Len(ns), NEW v
          PROVE  Inside(ns[b], Put(D, q, v)) = Put(Inside(ns[b], D), u, v)
      BY <3>1, <3>2, PlaceRevalued
    <3>3. Inside(ns[o], Put(D, r, d)) = Put(Inside(ns[o], D), j, d)
      BY <3>1, <3>2
    <3>. QED
      BY <3>3
  <2>11. Contents(Q, Len(s), h) = x \o y
    <3>1. Contents(Q, Len(s), h) = SubSeq(h, a, Len(h))
      BY <2>1 DEF Contents
    <3>. QED
      BY <2>6, <2>7, <3>1
  <2>12. s[Len(s)] = o
    BY <2>1
  <2>. HIDE DEF s, Q, d, E, h, w, y, o, a, p, x
  <2>13. IsInside(ns[s[Len(s)]].type, Contents(Q, Len(s), h), Inside(ns[s[Len(s)]], E))
    BY <2>9, <2>10, <2>11, <2>12
  <2>14. Valued(ns, s, E, Q, h)
    BY <2>1, <2>13, Zenon DEF Valued
  <2>. QED
    BY <2>14 DEF s, Q, E, h, d
<1>. QED
  BY <1>10, <1>11

(* The structures, their values and their places in the text.              *)
Structured(ns, refs, D, P, g) ==
    /\ NodesOK(ns) /\ StackOK(ns, refs) /\ ClosedOK(ns, refs, D) /\ Levels(ns, refs, D, P, g)
    /\ g \in Seq(Tokens)

(* Where handle_value puts a value: behind the items, or at the last key.  *)
Place(v, el, j) == \/ v.type = "array" /\ j = Len(v.items) + 1
                   \/ v.type = "object" /\ j \in DOMAIN v.members /\ v.members[j] = el

AwaitsAt(ns, refs, D, P, g, j) == Awaits(ns, D, refs[Len(refs)], j, Contents(P, Len(refs), g))

(* A new or another value in the structure that is read.                   *)
Holds(ns, ms, refs, j, c, v) == refs # <<>> /\ Grown(ns, ms, refs[Len(refs)], j, c, v)

(* What holds of them with v, when it is no structure or is read next.     *)
Grows(ns, ms, refs, D, E, P, g, j, c, v, r) ==
    /\ NodesOK(ms) /\ StackOK(ms, refs)
    /\ ~Opens(v) => ClosedOK(ms, refs, E)
    /\ Opens(v) => StackOK(ms, Append(refs, c))
    /\ ClosedOK(ms, Append(refs, c), E)
    /\ Levels(ms, refs, E, P, g)
    /\ ms[r].type = ns[r].type
    /\ \A x : Put(Inside(ms[r], E), j, x) = Put(Inside(ns[r], D), j, x)
    /\ Inside(ms[r], E) = Put(Inside(ns[r], D), j, v)

LEMMA GrownStructured ==
    ASSUME NEW ns, NEW refs, NEW D, NEW P, NEW g, Structured(ns, refs, D, P, g),
           NEW ms, NEW j, NEW c, NEW v, Holds(ns, ms, refs, j, c, v)
    PROVE  Grows(ns, ms, refs, D, Put(D, c, v), P, g, j, c, v, refs[Len(refs)])
<1>. DEFINE r == refs[Len(refs)]
<1>1. /\ NodesOK(ns) /\ StackOK(ns, refs) /\ ClosedOK(ns, refs, D) /\ Levels(ns, refs, D, P, g)
      /\ refs # <<>> /\ Grown(ns, ms, r, j, c, v)
  BY Zenon DEF Structured, Holds
<1>2. DOMAIN D = 1 .. Len(ns)
  BY <1>1 DEF ClosedOK
<1>3. refs[Len(refs)] = r
  OBVIOUS
<1>4. ms[r].type = ns[r].type
  BY <1>1 DEF Grown
<1>5. NodesOK(ms)
  BY <1>1, GrownNodesOK
<1>6. StackOK(ms, refs) /\ (Opens(v) => StackOK(ms, Append(refs, c)))
  BY <1>1, GrownStack
<1>7. /\ ~Opens(v) => ClosedOK(ms, refs, Put(D, c, v))
      /\ ClosedOK(ms, Append(refs, c), Put(D, c, v))
  BY <1>1, GrownClosed
<1>8. Levels(ms, refs, Put(D, c, v), P, g)
  BY <1>1, <1>2, GrownLevels
<1>. HIDE DEF r
<1>9. /\ \A x : Put(Inside(ms[r], Put(D, c, v)), j, x) = Put(Inside(ns[r], D), j, x)
      /\ Inside(ms[r], Put(D, c, v)) = Put(Inside(ns[r], D), j, v)
  <2>1. Stands(ns, ms, D, Put(D, c, v), r, j, c, v)
    BY <1>1, <1>2, GrownInside
  <2>. QED
    BY <2>1, Zenon DEF Stands
<1>10. Grows(ns, ms, refs, D, Put(D, c, v), P, g, j, c, v, r)
  BY <1>4, <1>5, <1>6, <1>7, <1>8, <1>9, Zenon DEF Grows
<1>. QED
  BY <1>10 DEF r

LEMMA StructuredFacts ==
    ASSUME NEW ns, NEW refs, NEW D, NEW P, NEW g, Structured(ns, refs, D, P, g), refs # <<>>
    PROVE  /\ P[Len(refs)] \in 1 .. Len(g) /\ g \in Seq(Tokens) /\ refs \in Seq(Nat)
           /\ Len(refs) \in Nat /\ Len(refs) # 0 /\ refs[Len(refs)] \in 1 .. Len(ns)
           /\ ns[refs[Len(refs)]] \in Nodes /\ Opens(ns[refs[Len(refs)]])
           /\ Contents(P, Len(refs), g) \in Seq(Tokens)
           /\ Len(Contents(P, Len(refs), g)) + 1 =< Len(g)
<1>. DEFINE r == refs[Len(refs)]
            p == P[Len(refs)]
<1>1. NodesOK(ns) /\ StackOK(ns, refs) /\ Levels(ns, refs, D, P, g) /\ g \in Seq(Tokens)
  BY Zenon DEF Structured
<1>2. /\ refs \in Seq(Nat) /\ Len(refs) \in Nat /\ Len(refs) # 0 /\ r \in 1 .. Len(ns)
      /\ ns[r].type \in {"array", "object"}
  BY <1>1, StackFront
<1>3. p \in 1 .. Len(g)
  BY <1>1, LevelFacts
<1>4. ns \in Seq(Nodes)
  BY <1>1 DEF NodesOK
<1>5. ns[r] \in Nodes
  BY <1>2, <1>4
<1>6. p \in 0 .. Len(g)
  BY <1>3
<1>. HIDE DEF p
<1>7. SubSeq(g, p + 1, Len(g)) \in Seq(Tokens) /\ Len(SubSeq(g, p + 1, Len(g))) = Len(g) - p
  BY <1>1, <1>6, PartGrows
<1>8. Len(g) - p + 1 =< Len(g)
  BY <1>1, <1>3
<1>. QED
  BY <1>1, <1>2, <1>3, <1>5, <1>7, <1>8 DEF Contents, Opens, p

(* The text goes on.                                                       *)
LEMMA ContentsGrow ==
    ASSUME NEW ns, NEW refs, NEW D, NEW P, NEW g, Structured(ns, refs, D, P, g), NEW t \in Tokens
    PROVE  /\ Structured(ns, refs, D, P, Append(g, t))
           /\ refs # <<>> => Contents(P, Len(refs), Append(g, t)) = Contents(P, Len(refs), g) \o <<t>>
<1>1. NodesOK(ns) /\ StackOK(ns, refs) /\ ClosedOK(ns, refs, D) /\ Levels(ns, refs, D, P, g) /\ g \in Seq(Tokens)
  BY Zenon DEF Structured
<1>2. refs \in Seq(Nat)
  <2>1. refs \in Seq(1 .. Len(ns)) /\ 1 .. Len(ns) \subseteq Nat
    <3>1. refs \in Seq(1 .. Len(ns))
      BY <1>1 DEF StackOK
    <3>2. \A x \in 1 .. Len(ns) : x \in Int /\ 1 =< x
      OBVIOUS
    <3>3. 1 .. Len(ns) \subseteq Nat
      BY <3>2
    <3>. QED
      BY <3>1, <3>3
  <2>. QED
    BY <2>1, Widened, Zenon
<1>3. Levels(ns, refs, D, P, Append(g, t))
  BY <1>1, <1>2, TextGrows
<1>4. Append(g, t) \in Seq(Tokens)
  BY <1>1, Appended
<1>5. refs # <<>> => Contents(P, Len(refs), Append(g, t)) = Contents(P, Len(refs), g) \o <<t>>
  <2>. HAVE refs # <<>>
  <2>. DEFINE p == P[Len(refs)]
  <2>1. p \in 1 .. Len(g)
    BY StructuredFacts
  <2>2. p \in 0 .. Len(g)
    BY <2>1
  <2>. HIDE DEF p
  <2>3. SubSeq(Append(g, t), p + 1, Len(Append(g, t))) = SubSeq(g, p + 1, Len(g)) \o <<t>>
    BY <1>1, <2>2, PartGrows
  <2>. QED
    BY <2>3 DEF Contents, p
<1>. QED
  BY <1>1, <1>3, <1>4, <1>5, Zenon DEF Structured

-----------------------------------------------------------------------------
(* A value of one token.                                                   *)
LEMMA TakesScalar ==
    ASSUME NEW ns, NEW refs, NEW D, NEW P, NEW g, Structured(ns, refs, D, P, g), Len(g) < MaxTokens,
           NEW ms, NEW j, NEW c, NEW t \in Scalars, t.type # "overflow", Holds(ns, ms, refs, j, c, t),
           AwaitsAt(ns, refs, D, P, g, j)
    PROVE  /\ Structured(ms, refs, Put(D, c, t), P, Append(g, t))
           /\ Valued(ms, refs, Put(D, c, t), P, Append(g, t))
<1>. DEFINE E == Put(D, c, t)
            r == refs[Len(refs)]
            w == Contents(P, Len(refs), g)
            h == Append(g, t)
<1>0. refs # <<>> /\ t \in Tokens /\ g \in Seq(Tokens)
  BY SignsAreTokens DEF Holds, Structured
<1>1. /\ NodesOK(ms) /\ StackOK(ms, refs) /\ (~Opens(t) => ClosedOK(ms, refs, E))
      /\ Levels(ms, refs, E, P, g)
      /\ ms[r].type = ns[r].type
      /\ Inside(ms[r], E) = Put(Inside(ns[r], D), j, t)
  <2>1. Grows(ns, ms, refs, D, E, P, g, j, c, t, r)
    BY GrownStructured, Zenon
  <2>. QED
    BY <2>1, Zenon DEF Grows
<1>2. ~Opens(t)
  BY ParserAssumption DEF Opens
<1>3. Structured(ms, refs, E, P, g)
  BY <1>0, <1>1, <1>2, Zenon DEF Structured
<1>4. Structured(ms, refs, E, P, h) /\ Contents(P, Len(refs), h) = w \o <<t>>
  BY <1>0, <1>3, ContentsGrow
<1>5. IsValue(<<t>>, t) /\ Len(<<t>>) = 1
  <2>1. 1 =< MaxTokens
    BY <1>0, ParserAssumption
  <2>. QED
    BY <2>1, ScalarIsValue
<1>6. Len(w) + Len(<<t>>) =< MaxTokens
  <2>1. Len(w) + 1 =< Len(g) /\ w \in Seq(Tokens)
    BY <1>0, StructuredFacts
  <2>. HIDE DEF w
  <2>. QED
    BY <1>0, <1>5, <2>1, ParserAssumption
<1>7. IsInside(ns[r].type, w \o <<t>>, Put(Inside(ns[r], D), j, t))
  <2>1. Awaits(ns, D, r, j, w)
    BY DEF AwaitsAt
  <2>. HIDE DEF w, r
  <2>. QED
    BY <1>5, <1>6, <2>1, Zenon DEF Awaits
<1>. HIDE DEF E, w, h
<1>8. IsInside(ms[r].type, Contents(P, Len(refs), h), Inside(ms[r], E))
  BY <1>1, <1>4, <1>7
<1>9. Valued(ms, refs, E, P, h)
  BY <1>0, <1>8, Zenon DEF Valued
<1>. QED
  BY <1>4, <1>9 DEF E, h

(* The beginning of a structure.                                           *)
Begun(ns, refs, P, g, v) ==
    /\ refs # <<>> /\ P[Len(refs)] = Len(g)
    /\ DOMAIN Slots(ns[refs[Len(refs)]]) = {} /\ ns[refs[Len(refs)]].type = v.type

LEMMA TakesOpening ==
    ASSUME NEW ns, NEW refs, NEW D, NEW P, NEW g, Structured(ns, refs, D, P, g),
           NEW ms, NEW j, NEW c, NEW v, Opens(v), Holds(ns, ms, refs, j, c, v),
           NEW t \in Tokens, t = Opening(v), AwaitsAt(ns, refs, D, P, g, j)
    PROVE  /\ Structured(ms, Append(refs, c), Put(D, c, v), Append(P, Len(Append(g, t))), Append(g, t))
           /\ Begun(ms, Append(refs, c), Append(P, Len(Append(g, t))), Append(g, t), v)
<1>. DEFINE E == Put(D, c, v)
            l == Len(refs)
            r == refs[Len(refs)]
            w == Contents(P, Len(refs), g)
            h == Append(g, t)
<1>0. refs # <<>> /\ g \in Seq(Tokens) /\ Grown(ns, ms, r, j, c, v)
  BY DEF Holds, Structured
<1>1. /\ NodesOK(ms) /\ StackOK(ms, refs) /\ StackOK(ms, Append(refs, c))
      /\ ClosedOK(ms, Append(refs, c), E) /\ Levels(ms, refs, E, P, g)
      /\ ms[r].type = ns[r].type
      /\ \A x : Put(Inside(ms[r], E), j, x) = Put(Inside(ns[r], D), j, x)
  <2>1. Grows(ns, ms, refs, D, E, P, g, j, c, v, r)
    BY GrownStructured, Zenon
  <2>2. Opens(v)
    OBVIOUS
  <2>. QED
    BY <2>1, <2>2, Zenon DEF Grows
<1>2. /\ P[l] \in 1 .. Len(g) /\ refs \in Seq(Nat) /\ l \in Nat /\ l # 0
  BY <1>0, StructuredFacts
<1>3. Levels(ms, refs, E, P, h) /\ h \in Seq(Tokens) /\ Len(h) = Len(g) + 1 /\ h[Len(h)] = t /\ Len(g) \in Nat
  <2>1. Levels(ms, refs, E, P, h)
    BY <1>0, <1>1, <1>2, TextGrows
  <2>2. h \in Seq(Tokens) /\ Len(h) = Len(g) + 1 /\ h[Len(h)] = t /\ Len(g) \in Nat
    BY <1>0
  <2>. QED
    BY <2>1, <2>2
<1>4. SubSeq(h, P[l] + 1, Len(h) - 1) = w
  <2>1. P[l] \in 0 .. Len(g)
    BY <1>2
  <2>. DEFINE p == P[l]
  <2>. HIDE DEF p, h, l
  <2>2. SubSeq(Append(g, t), p + 1, Len(Append(g, t)) - 1) = SubSeq(g, p + 1, Len(g))
    BY <1>0, <2>1, PartGrows DEF p
  <2>. QED
    BY <2>2 DEF p, h, Contents, l
<1>5. ms[c] = v /\ c \in Nat /\ j \in DOMAIN Slots(ms[r]) /\ Slots(ms[r])[j] = c /\ DOMAIN Slots(v) = {}
  <2>1. Slots(ms[r]) = Put(Slots(ns[r]), j, c) /\ ms[c] = v /\ DOMAIN Slots(v) = {}
    BY <1>0 DEF Grown, Fresh
  <2>2. c \in Nat
    BY <1>0 DEF Grown
  <2>. DEFINE a == Slots(ns[r])
  <2>. HIDE DEF a
  <2>3. DOMAIN Put(a, j, c) = DOMAIN a \cup {j} /\ Put(a, j, c)[j] = c
    BY DEF Put
  <2>4. Slots(ms[r]) = Put(a, j, c)
    BY <2>1 DEF a
  <2>5. j \in DOMAIN Slots(ms[r]) /\ Slots(ms[r])[j] = c
    BY <2>3, <2>4
  <2>. QED
    BY <2>1, <2>2, <2>5
<1>6. Awaits(ms, E, r, j, w)
  <2>1. Awaits(ns, D, r, j, w)
    BY DEF AwaitsAt
  <2>. HIDE DEF w, r, E
  <2>. QED
    BY <1>1, <2>1, AwaitsSame, Zenon
<1>7. P[l] < Len(h)
  BY <1>2, <1>3
<1>8. Levels(ms, Append(refs, c), E, Append(P, Len(h)), h)
  <2>1. h[Len(h)] = Opening(ms[c])
    BY <1>3, <1>5
  <2>2. Awaits(ms, E, refs[Len(refs)], j, SubSeq(h, P[Len(refs)] + 1, Len(h) - 1))
    BY <1>4, <1>6
  <2>. HIDE DEF h, E, w
  <2>. QED
    BY <1>0, <1>2, <1>3, <1>5, <1>7, <2>1, <2>2, PushLevel
<1>9. Structured(ms, Append(refs, c), E, Append(P, Len(h)), h)
  BY <1>1, <1>3, <1>8, Zenon DEF Structured
<1>10. Begun(ms, Append(refs, c), Append(P, Len(h)), h, v)
  <2>. DEFINE s == Append(refs, c)
              Q == Append(P, Len(h))
  <2>1. s # <<>> /\ Len(s) = l + 1 /\ s[l + 1] = c
    BY <1>2, <1>5
  <2>2. Q[l + 1] = Len(h)
    <3>1. P \in Seq(1 .. Len(g)) /\ Len(P) = l
      BY Zenon DEF Structured, Levels
    <3>. QED
      BY <3>1, SMTT(30), ZenonT(30)
  <2>. HIDE DEF s, Q, h
  <2>. QED
    BY <1>5, <2>1, <2>2 DEF Begun, s, Q
<1>. QED
  BY <1>9, <1>10

LEMMA Alone ==
    ASSUME NEW v \in Nodes, DOMAIN Slots(v) = {}
    PROVE  /\ NodesOK(<<v>>) /\ <<v>> # <<>> /\ <<v>>[1] = v /\ Len(<<v>>) = 1
           /\ \A D : Meaning(v, D) = IF Opens(v) THEN Meaning(v, D) ELSE v
<1>. DEFINE ns == <<v>>
<1>1. ns \in Seq(Nodes) /\ Len(ns) = 1 /\ ns[1] = v /\ ns # <<>>
  OBVIOUS
<1>. HIDE DEF ns
<1>2. \A m \in 1 .. Len(ns) : m = 1 /\ DOMAIN Slots(ns[m]) = {}
  BY <1>1
<1>3. NodesOK(ns)
  <2>1. \A m \in 1 .. Len(ns) : \A j \in DOMAIN Slots(ns[m]) : Slots(ns[m])[j] \in m + 1 .. Len(ns)
    BY <1>2
  <2>2. \A m, n \in 1 .. Len(ns) : \A i \in DOMAIN Slots(ns[m]), j \in DOMAIN Slots(ns[n]) :
          Slots(ns[m])[i] = Slots(ns[n])[j] => m = n /\ i = j
    BY <1>2
  <2>. QED
    BY <1>1, <2>1, <2>2, Zenon DEF NodesOK
<1>4. \A D : Meaning(v, D) = IF Opens(v) THEN Meaning(v, D) ELSE v
  BY DEF Meaning, Opens
<1>. QED
  BY <1>1, <1>3, <1>4 DEF ns

(* The text is one value, or begins with one.                              *)
LEMMA RootScalar ==
    ASSUME NEW t \in Scalars, t.type # "overflow", 0 < MaxTokens
    PROVE  Structured(<<t>>, <<>>, <<t>>, <<>>, <<t>>) /\ Valued(<<t>>, <<>>, <<t>>, <<>>, <<t>>)
<1>1. t \in Nodes /\ DOMAIN Slots(t) = {} /\ ~Opens(t) /\ t \in Tokens
  <2>1. t \in Leaves /\ t \in Nodes
    BY DEF Nodes, Leaves
  <2>2. t.type \notin {"array", "object"}
    BY <2>1, NodeFacts
  <2>. QED
    BY <2>1, <2>2, NodeFacts, SignsAreTokens DEF Opens
<1>2. NodesOK(<<t>>) /\ <<t>> # <<>> /\ <<t>>[1] = t /\ Len(<<t>>) = 1 /\ Meaning(t, <<t>>) = t
  BY <1>1, Alone
<1>3. StackOK(<<t>>, <<>>)
  BY DEF StackOK
<1>4. ClosedOK(<<t>>, <<>>, <<t>>)
  <2>1. DOMAIN <<t>> = 1 .. Len(<<t>>)
    OBVIOUS
  <2>2. \A m \in 1 .. Len(<<t>>) : m = 1
    OBVIOUS
  <2>3. \A m \in 1 .. Len(<<t>>) : <<t>>[m] = Meaning(<<t>>[m], <<t>>)
    BY <1>2, <2>2
  <2>. QED
    BY <2>1, <2>3, Zenon DEF ClosedOK
<1>5. Levels(<<t>>, <<>>, <<t>>, <<>>, <<t>>)
  <2>1. <<>> \in Seq(1 .. Len(<<t>>)) /\ Len(<<>>) = 0 /\ 1 .. Len(<<>>) = {} /\ 1 .. Len(<<>>) - 1 = {}
    OBVIOUS
  <2>. QED
    BY <2>1 DEF Levels
<1>6. <<t>> \in Seq(Tokens)
  BY <1>1, OneElement
<1>7. IsValue(<<t>>, t)
  <2>1. 1 =< MaxTokens
    BY ParserAssumption
  <2>. QED
    BY <2>1, ScalarIsValue
<1>. QED
  <2>1. Structured(<<t>>, <<>>, <<t>>, <<>>, <<t>>)
    BY <1>2, <1>3, <1>4, <1>5, <1>6, Zenon DEF Structured
  <2>2. Valued(<<t>>, <<>>, <<t>>, <<>>, <<t>>)
    BY <1>2, <1>7 DEF Valued
  <2>. QED
    BY <2>1, <2>2

LEMMA RootOpening ==
    ASSUME NEW v \in Nodes, DOMAIN Slots(v) = {}, Opens(v), NEW t \in Tokens, t = Opening(v)
    PROVE  Structured(<<v>>, <<1>>, <<v>>, <<1>>, <<t>>) /\ Begun(<<v>>, <<1>>, <<1>>, <<t>>, v)
<1>1. NodesOK(<<v>>) /\ <<v>> # <<>> /\ <<v>>[1] = v /\ Len(<<v>>) = 1
  BY Alone
<1>2. <<1>> # <<>> /\ Len(<<1>>) = 1 /\ <<1>>[1] = 1 /\ Len(<<t>>) = 1 /\ <<1>> \in Seq(1 .. Len(<<v>>))
  BY <1>1
<1>3. \A i \in 1 .. Len(<<1>>) : i = 1
  OBVIOUS
<1>4. StackOK(<<v>>, <<1>>)
  <2>1. \A i, j \in 1 .. Len(<<1>>) : ~(i < j)
    BY <1>3
  <2>2. \A i \in 1 .. Len(<<1>>) : <<v>>[<<1>>[i]].type \in {"array", "object"}
    BY <1>1, <1>2, <1>3 DEF Opens
  <2>. QED
    BY <1>2, <2>1, <2>2, Zenon DEF StackOK
<1>5. ClosedOK(<<v>>, <<1>>, <<v>>)
  <2>1. DOMAIN <<v>> = 1 .. Len(<<v>>)
    OBVIOUS
  <2>2. \A m \in 1 .. Len(<<v>>) : \E i \in 1 .. Len(<<1>>) : <<1>>[i] = m
    BY <1>1, <1>2
  <2>. QED
    BY <2>1, <2>2, Zenon DEF ClosedOK
<1>6. Levels(<<v>>, <<1>>, <<v>>, <<1>>, <<t>>)
  BY <1>1, FirstLevel
<1>7. <<t>> \in Seq(Tokens)
  BY OneElement
<1>8. Structured(<<v>>, <<1>>, <<v>>, <<1>>, <<t>>)
  BY <1>1, <1>4, <1>5, <1>6, <1>7, Zenon DEF Structured
<1>9. Begun(<<v>>, <<1>>, <<1>>, <<t>>, v)
  BY <1>1, <1>2 DEF Begun
<1>. QED
  BY <1>8, <1>9

(* The end of a structure.                                                 *)
LEMMA Closes ==
    ASSUME NEW ns, NEW refs, NEW D, NEW P, NEW g, Structured(ns, refs, D, P, g), refs # <<>>,
           Len(g) < MaxTokens, NEW t \in Tokens, t = Closing(ns[refs[Len(refs)]]),
           Complete(ns, refs[Len(refs)], D, Contents(P, Len(refs), g))
    PROVE  \E E, Q : Structured(ns, Front(refs), E, Q, Append(g, t)) /\ Valued(ns, Front(refs), E, Q, Append(g, t))
<1>1. NodesOK(ns) /\ StackOK(ns, refs) /\ ClosedOK(ns, refs, D) /\ Levels(ns, refs, D, P, g) /\ g \in Seq(Tokens)
  BY Zenon DEF Structured
<1>. DEFINE r == refs[Len(refs)]
            E == Put(D, r, Meaning(ns[r], D))
            h == Append(g, t)
<1>2. StackOK(ns, Front(refs))
  BY <1>1, ClosesStack
<1>3. ClosedOK(ns, Front(refs), E)
  BY <1>1, ClosesClosed
<1>4. Levels(ns, refs, D, P, h) /\ h \in Seq(Tokens)
  <2>1. Structured(ns, refs, D, P, h)
    BY ContentsGrow
  <2>. QED
    BY <2>1, Zenon DEF Structured
<1>5. Levels(ns, Front(refs), E, Front(P), h)
  BY <1>1, <1>4, ClosesLevels
<1>6. Valued(ns, Front(refs), E, Front(P), h)
  BY <1>1, ClosesValue
<1>. HIDE DEF E, h
<1>7. Structured(ns, Front(refs), E, Front(P), h)
  BY <1>1, <1>2, <1>3, <1>4, <1>5, Zenon DEF Structured
<1>8. \E F, Q : Structured(ns, Front(refs), F, Q, h) /\ Valued(ns, Front(refs), F, Q, h)
  BY <1>6, <1>7, Zenon
<1>. QED
  BY <1>8 DEF h

-----------------------------------------------------------------------------
(* The items and the members, as they come.                                *)
LEMMA OneMore ==
    ASSUME NEW v \in Nodes, v.type = "array", NEW D, NEW x
    PROVE  Put(Inside(v, D), Len(v.items) + 1, x) = Append(Inside(v, D), x)
<1>. DEFINE s == Inside(v, D)
            n == Len(v.items)
            S == {D[v.items[i]] : i \in 1 .. n} \cup {x}
            p == Put(s, n + 1, x)
            a == Append(s, x)
<1>1. v.items \in Seq(Nat) /\ Slots(v) = v.items
  BY NodeFacts, Zenon
<1>2. n \in Nat /\ s = [i \in 1 .. n |-> D[v.items[i]]]
  BY <1>1 DEF Inside
<1>3. s \in Seq(S) /\ Len(s) = n /\ DOMAIN s = 1 .. n
  <2>. DEFINE f == [i \in 1 .. n |-> D[v.items[i]]]
  <2>1. f \in [1 .. n -> S]
    OBVIOUS
  <2>. HIDE DEF f, S, n, s
  <2>2. s \in [1 .. n -> S]
    BY <1>2, <2>1 DEF f
  <2>. QED
    BY <1>2, <2>2
<1>. HIDE DEF s, n, S
<1>4. x \in S
  BY DEF S
<1>5. a \in Seq(S) /\ Len(a) = n + 1 /\ a[n + 1] = x /\ \A i \in 1 .. n : a[i] = s[i]
  BY <1>2, <1>3, <1>4
<1>6. p = [i \in 1 .. n + 1 |-> IF i = n + 1 THEN x ELSE s[i]]
  <2>1. 1 .. n \cup {n + 1} = 1 .. n + 1
    BY <1>2
  <2>. QED
    BY <1>3, <2>1 DEF Put
<1>7. a = [i \in 1 .. n + 1 |-> a[i]]
  BY <1>5, AsFunction
<1>8. \A i \in 1 .. n + 1 : a[i] = IF i = n + 1 THEN x ELSE s[i]
  BY <1>2, <1>5
<1>. HIDE DEF p, a
<1>9. p = a
  BY <1>6, <1>7, <1>8
<1>. QED
  BY <1>9 DEF p, a, s, n

LEMMA OneMember == \A f, k, x : Over(Put(NoMembers, k, x), f) = Put(f, k, x)
<1>. TAKE f, k, x
<1>. DEFINE h == Put(NoMembers, k, x)
<1>1. DOMAIN h = {k} /\ h[k] = x
  BY DEF Put, NoMembers
<1>. HIDE DEF h
<1>2. Over(h, f) = [i \in DOMAIN f \cup {k} |-> IF i = k THEN x ELSE f[i]]
  BY <1>1 DEF Over
<1>. QED
  BY <1>2 DEF Put, h

(* Behind the text a member completes what is inside of the object; behind *)
(* it and a colon, the value of the last key does.                         *)
AwaitsMember(ns, refs, D, P, g) ==
    /\ refs # <<>> /\ ns[refs[Len(refs)]].type = "object"
    /\ \A k \in Strings : \A y, v :
         IsValue(y, v) /\ Len(Contents(P, Len(refs), g)) + (Len(y) + 2) =< MaxTokens =>
           IsMembers(Contents(P, Len(refs), g) \o MemberWord(k, y),
                     Put(Inside(ns[refs[Len(refs)]], D), k, v))
Colon == Sign("name_separator")
Keyed(ns, refs, el, D, P, g) ==
    /\ refs # <<>> /\ ns[refs[Len(refs)]].type = "object"
    /\ \E j : /\ Place(ns[refs[Len(refs)]], el, j)
              /\ Awaits(ns, D, refs[Len(refs)], j, Contents(P, Len(refs), g) \o <<Colon>>)

(* The first item and the first member; Fits(w) is short for their length. *)
LEMMA EmptyContents ==
    ASSUME NEW refs, NEW P, NEW g, g \in Seq(Tokens), P[Len(refs)] = Len(g)
    PROVE  Contents(P, Len(refs), g) = <<>>
<1>1. SubSeq(g, Len(g) + 1, Len(g)) = <<>>
  OBVIOUS
<1>. QED
  BY <1>1 DEF Contents

LEMMA FirstItemAwaits ==
    ASSUME NEW ns, NEW refs, NEW el, NEW D, NEW P, NEW g, Structured(ns, refs, D, P, g),
           NEW a, a.type = "array", Begun(ns, refs, P, g, a)
    PROVE  \E j : Place(ns[refs[Len(refs)]], el, j) /\ AwaitsAt(ns, refs, D, P, g, j)
<1>. DEFINE r == refs[Len(refs)]
            v == ns[refs[Len(refs)]]
<1>1. /\ v \in Nodes /\ v.type = "array" /\ DOMAIN Slots(v) = {} /\ refs # <<>> /\ g \in Seq(Tokens)
      /\ Contents(P, Len(refs), g) = <<>>
  <2>1. refs # <<>> /\ P[Len(refs)] = Len(g) /\ DOMAIN Slots(v) = {} /\ v.type = a.type
    BY DEF Begun
  <2>2. v \in Nodes /\ g \in Seq(Tokens)
    BY <2>1, StructuredFacts
  <2>. QED
    BY <2>1, <2>2, EmptyContents
<1>. HIDE DEF v
<1>2. v.items \in Seq(Nat) /\ Slots(v) = v.items
  BY <1>1, NodeFacts, Zenon
<1>3. Len(v.items) = 0
  <2>. DEFINE s == v.items
  <2>1. s \in Seq(Nat) /\ DOMAIN s = {}
    BY <1>1, <1>2
  <2>. HIDE DEF s
  <2>2. Len(s) \in Nat /\ DOMAIN s = 1 .. Len(s)
    BY <2>1, AsFunction
  <2>3. Len(s) = 0
    BY <2>1, <2>2
  <2>. QED
    BY <2>3 DEF s
<1>4. Inside(v, D) = <<>>
  BY <1>1, EmptyInside
<1>5. Awaits(ns, D, r, 1, <<>>)
  <2>. SUFFICES ASSUME NEW y, NEW x, IsValue(y, x)
                PROVE  IsInside(v.type, <<>> \o y, Put(Inside(v, D), 1, x))
    BY Zenon DEF Awaits, v
  <2>1. y \in Seq(Tokens)
    BY WordsSized, Zenon
  <2>2. <<>> \o y = y
    BY <2>1
  <2>3. Put(Inside(v, D), 1, x) = <<x>>
    <3>1. Put(Inside(v, D), Len(v.items) + 1, x) = Append(Inside(v, D), x)
      BY <1>1, OneMore
    <3>2. Append(<<>>, x) = <<x>> /\ Len(v.items) + 1 = 1
      BY <1>3
    <3>. QED
      BY <1>4, <3>1, <3>2
  <2>4. IsItems(y, <<x>>)
    BY ValueIsItems
  <2>. QED
    BY <1>1, <2>2, <2>3, <2>4, Zenon DEF IsInside
<1>6. Place(v, el, 1)
  BY <1>1, <1>3 DEF Place
<1>7. AwaitsAt(ns, refs, D, P, g, 1)
  BY <1>1, <1>5 DEF AwaitsAt
<1>. QED
  BY <1>6, <1>7 DEF v

LEMMA FirstKeyAwaits ==
    ASSUME NEW ns, NEW refs, NEW D, NEW P, NEW g, Structured(ns, refs, D, P, g),
           NEW a, a.type = "object", Begun(ns, refs, P, g, a)
    PROVE  AwaitsMember(ns, refs, D, P, g)
<1>. DEFINE v == ns[refs[Len(refs)]]
            w == Contents(P, Len(refs), g)
<1>1. /\ v \in Nodes /\ v.type = "object" /\ DOMAIN Slots(v) = {} /\ refs # <<>> /\ g \in Seq(Tokens)
      /\ w = <<>>
  <2>1. refs # <<>> /\ P[Len(refs)] = Len(g) /\ DOMAIN Slots(v) = {} /\ v.type = a.type
    BY DEF Begun
  <2>2. v \in Nodes /\ g \in Seq(Tokens)
    BY <2>1, StructuredFacts
  <2>. QED
    BY <2>1, <2>2, EmptyContents
<1>. HIDE DEF v, w
<1>4. Inside(v, D) = NoMembers
  BY <1>1, EmptyInside
<1>5. ASSUME NEW k \in Strings, NEW y, NEW x, IsValue(y, x), Len(w) + (Len(y) + 2) =< MaxTokens
      PROVE  IsMembers(w \o MemberWord(k, y), Put(Inside(v, D), k, x))
  <2>1. y \in Seq(Tokens) /\ Len(y) \in 1 .. MaxTokens
    BY <1>5, WordsSized, Zenon
  <2>2. MemberWord(k, y) \in Seq(Tokens)
    BY <2>1, KeyTyped, Zenon DEF MemberWord
  <2>3. w \o MemberWord(k, y) = MemberWord(k, y)
    BY <1>1, <2>2
  <2>4. Len(y) + 2 =< MaxTokens
    BY <1>1, <1>5, <2>1, ParserAssumption
  <2>5. IsMembers(MemberWord(k, y), Put(NoMembers, k, x))
    BY <1>5, <2>4, SingleIsMembers
  <2>. QED
    BY <1>4, <2>3, <2>5, Zenon
<1>. QED
  BY <1>1, <1>5, Zenon DEF AwaitsMember, v, w

(* An item more, a member more.                                            *)
LEMMA CommaInArray ==
    ASSUME NEW ns, NEW refs, NEW el, NEW D, NEW P, NEW g, Structured(ns, refs, D, P, g), refs # <<>>,
           ns[refs[Len(refs)]].type = "array", Valued(ns, refs, D, P, g), Len(g) < MaxTokens,
           NEW t \in Tokens, t = Sign("value_separator")
    PROVE  \E j : Place(ns[refs[Len(refs)]], el, j) /\ AwaitsAt(ns, refs, D, P, Append(g, t), j)
<1>. DEFINE r == refs[Len(refs)]
            v == ns[refs[Len(refs)]]
            w == Contents(P, Len(refs), g)
            j == Len(ns[refs[Len(refs)]].items) + 1
<1>1. v \in Nodes /\ v.type = "array"
  BY StructuredFacts
<1>2. Contents(P, Len(refs), Append(g, t)) = w \o <<t>>
  BY ContentsGrow
<1>3. IsInside(v.type, w, Inside(v, D))
  BY DEF Valued
<1>. HIDE DEF v, w
<1>4. IsItems(w, Inside(v, D))
  BY <1>1, <1>3, Zenon DEF IsInside
<1>5. w \in Seq(Tokens) /\ Len(w) \in 1 .. MaxTokens
  BY <1>4, WordsSized, Zenon
<1>6. ASSUME NEW y, NEW x, IsValue(y, x), Len(w \o <<t>>) + Len(y) =< MaxTokens
      PROVE  IsInside(v.type, (w \o <<t>>) \o y, Put(Inside(v, D), j, x))
  <2>1. y \in Seq(Tokens) /\ Len(y) \in 1 .. MaxTokens
    BY <1>6, WordsSized, Zenon
  <2>2. Len(w) + 1 + Len(y) =< MaxTokens
    BY <1>5, <1>6, <2>1, ParserAssumption
  <2>3. IsItems(w \o Comma \o y, Append(Inside(v, D), x))
    BY <1>4, <1>6, <2>2, MoreIsItems
  <2>4. Put(Inside(v, D), j, x) = Append(Inside(v, D), x)
    BY <1>1, OneMore DEF v
  <2>. QED
    BY <1>1, <2>3, <2>4 DEF IsInside, Comma
<1>7. Awaits(ns, D, r, j, w \o <<t>>)
  BY <1>6, Zenon DEF Awaits, v
<1>8. AwaitsAt(ns, refs, D, P, Append(g, t), j)
  BY <1>2, <1>7 DEF AwaitsAt
<1>9. Place(v, el, j)
  BY <1>1 DEF Place, v
<1>. QED
  BY <1>8, <1>9 DEF v

LEMMA CommaInObject ==
    ASSUME NEW ns, NEW refs, NEW D, NEW P, NEW g, Structured(ns, refs, D, P, g), refs # <<>>,
           ns[refs[Len(refs)]].type = "object", Valued(ns, refs, D, P, g), Len(g) < MaxTokens,
           NEW t \in Tokens, t = Sign("value_separator")
    PROVE  AwaitsMember(ns, refs, D, P, Append(g, t))
<1>. DEFINE v == ns[refs[Len(refs)]]
            w == Contents(P, Len(refs), g)
<1>1. v \in Nodes /\ v.type = "object"
  BY StructuredFacts
<1>2. Contents(P, Len(refs), Append(g, t)) = w \o <<t>>
  BY ContentsGrow
<1>3. IsInside(v.type, w, Inside(v, D))
  BY DEF Valued
<1>. HIDE DEF v, w
<1>4. IsMembers(w, Inside(v, D))
  BY <1>1, <1>3, Zenon DEF IsInside
<1>5. w \in Seq(Tokens) /\ Len(w) \in 1 .. MaxTokens
  BY <1>4, WordsSized, Zenon
<1>6. ASSUME NEW k \in Strings, NEW y, NEW x, IsValue(y, x), Len(w \o <<t>>) + (Len(y) + 2) =< MaxTokens
      PROVE  IsMembers((w \o <<t>>) \o MemberWord(k, y), Put(Inside(v, D), k, x))
  <2>1. y \in Seq(Tokens) /\ Len(y) \in 1 .. MaxTokens
    BY <1>6, WordsSized, Zenon
  <2>2. Len(w) + 1 + (Len(y) + 2) =< MaxTokens
    BY <1>5, <1>6, <2>1, ParserAssumption
  <2>3. IsMembers(w \o Comma \o MemberWord(k, y), Over(Put(NoMembers, k, x), Inside(v, D)))
    BY <1>4, <1>6, <2>2, MoreIsMembers
  <2>4. Over(Put(NoMembers, k, x), Inside(v, D)) = Put(Inside(v, D), k, x)
    BY OneMember
  <2>. QED
    BY <2>3, <2>4 DEF Comma
<1>7. AwaitsMember(ns, refs, D, P, Append(g, t))
  <2>. DEFINE u == w \o <<t>>
  <2>1. \A k \in Strings : \A y, x : IsValue(y, x) /\ Len(u) + (Len(y) + 2) =< MaxTokens
          => IsMembers(u \o MemberWord(k, y), Put(Inside(v, D), k, x))
    BY <1>6
  <2>2. Contents(P, Len(refs), Append(g, t)) = u
    BY <1>2
  <2>. HIDE DEF u
  <2>. QED
    BY <1>1, <2>1, <2>2 DEF AwaitsMember, v
<1>. QED
  BY <1>7

-----------------------------------------------------------------------------
(* A key, and the colon behind it.                                         *)
LEMMA KeyRead ==
    ASSUME NEW ns, NEW refs, NEW D, NEW P, NEW g, Structured(ns, refs, D, P, g),
           AwaitsMember(ns, refs, D, P, g), NEW k \in Strings
    PROVE  Awaits(ns, D, refs[Len(refs)], k, (Contents(P, Len(refs), g) \o <<k>>) \o <<Colon>>)
<1>. DEFINE r == refs[Len(refs)]
            v == ns[refs[Len(refs)]]
            w == Contents(P, Len(refs), g)
            u == (w \o <<k>>) \o <<Colon>>
<1>1. /\ v.type = "object"
      /\ \A y, x : IsValue(y, x) /\ Len(w) + (Len(y) + 2) =< MaxTokens =>
           IsMembers(w \o MemberWord(k, y), Put(Inside(v, D), k, x))
  BY Zenon DEF AwaitsMember
<1>2. w \in Seq(Tokens) /\ k \in Tokens /\ Colon \in Tokens
  <2>1. refs # <<>>
    BY DEF AwaitsMember
  <2>. QED
    BY <2>1, StructuredFacts, SignsAreTokens DEF Colon, Signs
<1>. HIDE DEF v, w, u
<1>3. ASSUME NEW y, NEW x, IsValue(y, x), Len(u) + Len(y) =< MaxTokens
      PROVE  IsInside(v.type, u \o y, Put(Inside(v, D), k, x))
  <2>1. y \in Seq(Tokens) /\ Len(y) \in 1 .. MaxTokens
    BY <1>3, WordsSized, Zenon
  <2>2. Len(u) = Len(w) + 2 /\ Len(w) \in Nat
    BY <1>2 DEF u
  <2>3. Len(w) + (Len(y) + 2) =< MaxTokens
    BY <1>3, <2>1, <2>2, ParserAssumption
  <2>4. u \o y = w \o MemberWord(k, y)
    <3>1. <<k>> \in Seq(Tokens) /\ <<Colon>> \in Seq(Tokens) /\ <<k, Colon>> \in Seq(Tokens)
      BY <1>2
    <3>2. <<k>> \o <<Colon>> = <<k, Colon>>
      <4>. DEFINE a == <<k>>
                  b == <<Colon>>
                  c == <<k, Colon>>
      <4>1. /\ a \in Seq(Tokens) /\ b \in Seq(Tokens) /\ c \in Seq(Tokens)
            /\ Len(a) = 1 /\ Len(b) = 1 /\ Len(c) = 2 /\ a[1] = k /\ b[1] = Colon /\ c[1] = k /\ c[2] = Colon
        BY <1>2, <3>1
      <4>. HIDE DEF a, b, c
      <4>2. (\A i \in 1 .. Len(a) : c[i] = a[i]) /\ \A i \in 1 .. Len(b) : c[Len(a) + i] = b[i]
        BY <4>1
      <4>3. Len(c) = Len(a) + Len(b)
        BY <4>1
      <4>4. a \in Seq(Tokens) /\ b \in Seq(Tokens) /\ c \in Seq(Tokens)
        BY <4>1
      <4>5. c = a \o b
        BY <4>2, <4>3, <4>4, JoinIs
      <4>. QED
        BY <4>5 DEF a, b, c
    <3>3. u = w \o (<<k>> \o <<Colon>>)
      BY <1>2, <3>1, Associates DEF u
    <3>4. (w \o <<k, Colon>>) \o y = w \o (<<k, Colon>> \o y)
      BY <1>2, <2>1, <3>1, Associates
    <3>. QED
      BY <3>2, <3>3, <3>4 DEF MemberWord, Colon
  <2>. QED
    BY <1>1, <1>3, <2>3, <2>4, Zenon DEF IsInside
<1>4. Awaits(ns, D, r, k, u)
  BY <1>3, Zenon DEF Awaits, v
<1>. QED
  BY <1>4 DEF u, w

LEMMA OldKey ==
    ASSUME NEW ns, NEW refs, NEW el, NEW D, NEW P, NEW g, Structured(ns, refs, D, P, g),
           AwaitsMember(ns, refs, D, P, g), NEW k \in Strings, Place(ns[refs[Len(refs)]], el, k)
    PROVE  Structured(ns, refs, D, P, Append(g, k)) /\ Keyed(ns, refs, el, D, P, Append(g, k))
<1>1. refs # <<>> /\ ns[refs[Len(refs)]].type = "object" /\ k \in Tokens
  BY SignsAreTokens DEF AwaitsMember
<1>2. /\ Structured(ns, refs, D, P, Append(g, k))
      /\ Contents(P, Len(refs), Append(g, k)) = Contents(P, Len(refs), g) \o <<k>>
  BY <1>1, ContentsGrow
<1>3. Awaits(ns, D, refs[Len(refs)], k, (Contents(P, Len(refs), g) \o <<k>>) \o <<Colon>>)
  BY KeyRead, Zenon
<1>4. Awaits(ns, D, refs[Len(refs)], k, Contents(P, Len(refs), Append(g, k)) \o <<Colon>>)
  BY <1>2, <1>3
<1>. QED
  BY <1>1, <1>2, <1>4, Zenon DEF Keyed

LEMMA NewKey ==
    ASSUME NEW ns, NEW refs, NEW D, NEW P, NEW g, Structured(ns, refs, D, P, g),
           AwaitsMember(ns, refs, D, P, g), NEW k \in Strings,
           NEW ms, NEW c, Holds(ns, ms, refs, k, c, Null)
    PROVE  /\ Structured(ms, refs, Put(D, c, Null), P, Append(g, k))
           /\ Keyed(ms, refs, c, Put(D, c, Null), P, Append(g, k))
<1>. DEFINE E == Put(D, c, Null)
            r == refs[Len(refs)]
<1>1. refs # <<>> /\ ns[r].type = "object" /\ k \in Tokens /\ g \in Seq(Tokens)
  BY SignsAreTokens DEF AwaitsMember, Structured
<1>2. Grows(ns, ms, refs, D, E, P, g, k, c, Null, r)
  BY GrownStructured
<1>3. ~Opens(Null)
  BY DEF Opens, Null
<1>. HIDE DEF E
<1>4. Structured(ms, refs, E, P, g) /\ ms[r].type = "object"
  BY <1>1, <1>2, <1>3, Zenon DEF Structured, Grows
<1>5. /\ Structured(ms, refs, E, P, Append(g, k))
      /\ Contents(P, Len(refs), Append(g, k)) = Contents(P, Len(refs), g) \o <<k>>
  BY <1>1, <1>4, ContentsGrow
<1>6. Awaits(ms, E, r, k, Contents(P, Len(refs), Append(g, k)) \o <<Colon>>)
  <2>. DEFINE u == (Contents(P, Len(refs), g) \o <<k>>) \o <<Colon>>
  <2>1. Awaits(ns, D, r, k, u)
    BY KeyRead, Zenon
  <2>2. /\ ms[r].type = ns[r].type
        /\ \A x : Put(Inside(ms[r], E), k, x) = Put(Inside(ns[r], D), k, x)
    BY <1>2, Zenon DEF Grows
  <2>. HIDE DEF u, r
  <2>3. Awaits(ms, E, r, k, u)
    BY <2>1, <2>2, AwaitsSame, Zenon
  <2>. QED
    BY <1>5, <2>3 DEF u
<1>7. Place(ms[r], c, k)
  <2>1. Slots(ms[r]) = Put(Slots(ns[r]), k, c)
    BY DEF Holds, Grown
  <2>2. k \in DOMAIN Slots(ms[r]) /\ Slots(ms[r])[k] = c
    <3>. DEFINE f == Slots(ns[r])
                h == Slots(ms[r])
    <3>1. h = Put(f, k, c)
      BY <2>1
    <3>. HIDE DEF f, h
    <3>2. k \in DOMAIN h /\ h[k] = c
      BY <3>1 DEF Put
    <3>. QED
      BY <3>2 DEF h
  <2>3. Slots(ms[r]) = ms[r].members
    BY <1>4 DEF Slots
  <2>. QED
    BY <1>4, <2>2, <2>3 DEF Place
<1>8. Keyed(ms, refs, c, E, P, Append(g, k))
  BY <1>1, <1>4, <1>6, <1>7, Zenon DEF Keyed
<1>. QED
  BY <1>5, <1>8 DEF E

LEMMA ColonRead ==
    ASSUME NEW ns, NEW refs, NEW el, NEW D, NEW P, NEW g, Structured(ns, refs, D, P, g),
           Keyed(ns, refs, el, D, P, g)
    PROVE  \E j : Place(ns[refs[Len(refs)]], el, j) /\ AwaitsAt(ns, refs, D, P, Append(g, Colon), j)
<1>1. refs # <<>> /\ Colon \in Tokens
  BY SignsAreTokens DEF Keyed, Colon, Signs
<1>2. Contents(P, Len(refs), Append(g, Colon)) = Contents(P, Len(refs), g) \o <<Colon>>
  BY <1>1, ContentsGrow
<1>3. PICK j : /\ Place(ns[refs[Len(refs)]], el, j)
               /\ Awaits(ns, D, refs[Len(refs)], j, Contents(P, Len(refs), g) \o <<Colon>>)
  BY Zenon DEF Keyed
<1>4. AwaitsAt(ns, refs, D, P, Append(g, Colon), j)
  BY <1>2, <1>3 DEF AwaitsAt
<1>. QED
  BY <1>3, <1>4, Zenon

LEMMA ChangedNode ==
    ASSUME NEW ns \in Seq(Nodes), NEW r \in 1 .. Len(ns), NEW u \in Nodes, NEW v \in Nodes
    PROVE  /\ [ns EXCEPT ![r] = u] \in Seq(Nodes) /\ Len([ns EXCEPT ![r] = u]) = Len(ns)
           /\ [ns EXCEPT ![r] = u][r] = u
           /\ \A m \in 1 .. Len(ns) : m # r => [ns EXCEPT ![r] = u][m] = ns[m]
           /\ Append([ns EXCEPT ![r] = u], v) \in Seq(Nodes)
           /\ Len(Append([ns EXCEPT ![r] = u], v)) = Len(ns) + 1
           /\ Append([ns EXCEPT ![r] = u], v)[Len(ns) + 1] = v
           /\ \A m \in 1 .. Len(ns) : Append([ns EXCEPT ![r] = u], v)[m] = [ns EXCEPT ![r] = u][m]
<1>. DEFINE ms == [ns EXCEPT ![r] = u]
<1>1. ms \in Seq(Nodes) /\ Len(ms) = Len(ns) /\ ms[r] = u /\ \A m \in 1 .. Len(ns) : m # r => ms[m] = ns[m]
  OBVIOUS
<1>. HIDE DEF ms
<1>2. /\ Append(ms, v) \in Seq(Nodes) /\ Len(Append(ms, v)) = Len(ns) + 1
      /\ Append(ms, v)[Len(ns) + 1] = v /\ \A m \in 1 .. Len(ns) : Append(ms, v)[m] = ms[m]
  BY <1>1
<1>. QED
  BY <1>1, <1>2 DEF ms

(* A new node v, held by u in the place of r; or v in the place of c.      *)
LEMMA NewNodeHeld ==
    ASSUME NEW ns, NodesOK(ns), NEW r \in 1 .. Len(ns), NEW u \in Nodes, NEW v, Fresh(v), NEW j,
           u.type = ns[r].type, Slots(u) = Put(Slots(ns[r]), j, Len(ns) + 1), j \notin DOMAIN Slots(ns[r])
    PROVE  Grown(ns, Append([ns EXCEPT ![r] = u], v), r, j, Len(ns) + 1, v)
<1>. DEFINE ms == Append([ns EXCEPT ![r] = u], v)
            c == Len(ns) + 1
<1>1. ns \in Seq(Nodes) /\ v \in Nodes /\ Len(ns) \in Nat
  BY DEF NodesOK, Fresh
<1>2. /\ [ns EXCEPT ![r] = u][r] = u
      /\ \A m \in 1 .. Len(ns) : m # r => [ns EXCEPT ![r] = u][m] = ns[m]
      /\ ms \in Seq(Nodes) /\ Len(ms) = c /\ ms[c] = v
      /\ \A m \in 1 .. Len(ns) : ms[m] = [ns EXCEPT ![r] = u][m]
  BY <1>1, ChangedNode
<1>3. ms[r] = u /\ \A m \in 1 .. Len(ns) : m # r => ms[m] = ns[m]
  BY <1>2
<1>4. c \in r + 1 .. Len(ns) + 1
  BY <1>1
<1>. HIDE DEF ms
<1>5. Slots(ms[r]) = Put(Slots(ns[r]), j, c) /\ ms[r].type = ns[r].type
  BY <1>3
<1>. QED
  BY <1>2, <1>3, <1>4, <1>5 DEF Grown, ms

LEMMA OldNodeHeld ==
    ASSUME NEW ns, NodesOK(ns), NEW r \in 1 .. Len(ns), NEW v, Fresh(v), NEW c,
           NEW j \in DOMAIN Slots(ns[r]), Slots(ns[r])[j] = c, ns[r] \in Nodes
    PROVE  Grown(ns, [ns EXCEPT ![c] = v], r, j, c, v) /\ c \in r + 1 .. Len(ns)
<1>. DEFINE ms == [ns EXCEPT ![c] = v]
            f == Slots(ns[r])
<1>1. ns \in Seq(Nodes) /\ v \in Nodes /\ Len(ns) \in Nat
  BY DEF NodesOK, Fresh
<1>2. f[j] \in r + 1 .. Len(ns)
  BY DEF NodesOK
<1>3. c \in r + 1 .. Len(ns) /\ c \in 1 .. Len(ns) /\ c # Len(ns) + 1 /\ c \in r + 1 .. Len(ns) + 1 /\ r # c
  BY <1>1, <1>2
<1>4. ms \in Seq(Nodes) /\ Len(ms) = Len(ns) /\ ms[c] = v /\ \A m \in 1 .. Len(ns) : m # c => ms[m] = ns[m]
  BY <1>1, <1>3
<1>5. f = Put(f, j, c)
  <2>1. f = [i \in DOMAIN f |-> f[i]]
    <3>1. ns[r].type = "array" => f \in Seq(Nat)
      BY NodeFacts, Zenon
    <3>2. ns[r].type = "object" => f \in UNION {[K -> Nat] : K \in SUBSET Strings}
      BY NodeFacts, Zenon
    <3>3. ns[r].type \notin {"array", "object"} => DOMAIN f = {}
      BY NodeFacts, Zenon
    <3>4. ns[r].type \in {"array", "object"}
      BY <3>3
    <3>. HIDE DEF f
    <3>5. CASE f \in Seq(Nat)
      BY <3>5
    <3>6. CASE f \in UNION {[K -> Nat] : K \in SUBSET Strings}
      BY <3>6
    <3>. QED
      BY <3>1, <3>2, <3>4, <3>5, <3>6
  <2>2. f[j] = c /\ j \in DOMAIN f
    OBVIOUS
  <2>. HIDE DEF f
  <2>3. DOMAIN f \cup {j} = DOMAIN f
    BY <2>2
  <2>. QED
    BY <2>1, <2>2, <2>3 DEF Put
<1>6. ms[r] = ns[r]
  BY <1>3, <1>4
<1>. HIDE DEF ms
<1>7. Slots(ms[r]) = Put(Slots(ns[r]), j, c) /\ ms[r].type = ns[r].type
  BY <1>5, <1>6
<1>8. Grown(ns, ms, r, j, c, v)
  BY <1>3, <1>4, <1>7 DEF Grown
<1>. QED
  BY <1>3, <1>8 DEF ms

-----------------------------------------------------------------------------
(* The actions of the model that make nodes.                               *)
LEMMA TopFacts ==
    ASSUME NEW D, NEW P, NEW g, Structured(nodes, ref_stack, D, P, g), ref_stack # <<>>
    PROVE  /\ Last(ref_stack) = ref_stack[Len(ref_stack)] /\ Top = nodes[ref_stack[Len(ref_stack)]]
           /\ ref_stack[Len(ref_stack)] \in 1 .. Len(nodes) /\ NodesOK(nodes)
           /\ nodes \in Seq(Nodes) /\ Len(nodes) \in Nat
           /\ Top \in Nodes /\ Opens(Top)
<1>1. StackOK(nodes, ref_stack) /\ NodesOK(nodes)
  BY DEF Structured
<1>2. Last(ref_stack) = ref_stack[Len(ref_stack)]
  BY <1>1, StackFront
<1>3. /\ ref_stack[Len(ref_stack)] \in 1 .. Len(nodes) /\ nodes[ref_stack[Len(ref_stack)]] \in Nodes
      /\ Opens(nodes[ref_stack[Len(ref_stack)]])
  BY StructuredFacts
<1>4. nodes \in Seq(Nodes) /\ Len(nodes) \in Nat
  BY <1>1 DEF NodesOK
<1>. QED
  BY <1>1, <1>2, <1>3, <1>4 DEF Top

LEMMA HandledGrown ==
    ASSUME NEW v, Fresh(v), NEW D, NEW P, NEW g, Structured(nodes, ref_stack, D, P, g), ref_stack # <<>>,
           NEW j, Place(nodes[ref_stack[Len(ref_stack)]], object_element, j), HandleValue(v)
    PROVE  Holds(nodes, nodes', ref_stack, j, ValueNode, v)
<1>. DEFINE r == ref_stack[Len(ref_stack)]
<1>1. /\ Last(ref_stack) = r /\ Top = nodes[r] /\ r \in 1 .. Len(nodes) /\ NodesOK(nodes)
      /\ nodes \in Seq(Nodes) /\ Len(nodes) \in Nat /\ Top \in Nodes /\ Opens(Top)
  BY TopFacts
<1>2. CASE Top.type = "array"
  <2>1. ValueNode = Len(nodes) + 1 /\ j = Len(nodes[r].items) + 1
    BY <1>1, <1>2 DEF ValueNode, Place
  <2>. DEFINE s == nodes[r].items
              c == Len(nodes) + 1
              u == ArrayValue(Append(s, c))
  <2>2. s \in Seq(Nat) /\ Slots(nodes[r]) = s /\ nodes[r] = ArrayValue(s)
    BY <1>1, <1>2, NodeFacts, Zenon
  <2>3. Append(s, c) \in Seq(Nat) /\ c \in Nat /\ Len(s) \in Nat
    BY <1>1, <2>2
  <2>4. u \in Nodes /\ u.type = "array" /\ Slots(u) = Append(s, c)
    BY <2>3, MemberNodes, Zenon
  <2>5. Append(s, c) = Put(s, Len(s) + 1, c)
    <3>. HIDE DEF s, c
    <3>1. DOMAIN s = 1 .. Len(s)
      BY <2>2
    <3>2. DOMAIN s \cup {Len(s) + 1} = 1 .. Len(s) + 1
      BY <2>3, <3>1
    <3>3. Append(s, c) = [i \in 1 .. Len(s) + 1 |-> IF i = Len(s) + 1 THEN c ELSE s[i]]
      <4>1. /\ Len(Append(s, c)) = Len(s) + 1 /\ Append(s, c)[Len(s) + 1] = c
            /\ \A i \in 1 .. Len(s) : Append(s, c)[i] = s[i]
        BY <2>2, <2>3, Appended
      <4>2. Append(s, c) = [i \in 1 .. Len(s) + 1 |-> Append(s, c)[i]]
        BY <2>3, <4>1, AsFunction
      <4>3. \A i \in 1 .. Len(s) + 1 : Append(s, c)[i] = IF i = Len(s) + 1 THEN c ELSE s[i]
        BY <2>3, <4>1
      <4>. QED
        BY <4>2, <4>3
    <3>. QED
      BY <3>2, <3>3 DEF Put
  <2>6. nodes' = Append([nodes EXCEPT ![r] = u], v)
    <3>1. [nodes EXCEPT ![r].items = Append(@, c)] = [nodes EXCEPT ![r] = u]
      <4>1. [nodes[r] EXCEPT !.items = Append(@, c)] = u
        <5>. DEFINE a == nodes[r]
                    x == Append(nodes[r].items, c)
        <5>1. a = ArrayValue(a.items)
          BY <2>2
        <5>. HIDE DEF a, x, s
        <5>2. [a EXCEPT !.items = x] = ArrayValue(x)
          BY <5>1 DEF ArrayValue
        <5>. QED
          BY <5>2 DEF a, x, s
      <4>. QED
        BY <1>1, <4>1
    <3>2. c > Len(nodes)
      BY <1>1
    <3>. HIDE DEF u
    <3>3. nodes' = Append([nodes EXCEPT ![r].items = Append(@, c)], v)
      BY <1>1, <1>2, <2>1, <3>2 DEF HandleValue
    <3>. QED
      BY <3>1, <3>3
  <2>7. j \notin DOMAIN Slots(nodes[r])
    <3>. HIDE DEF s
    <3>1. DOMAIN s = 1 .. Len(s) /\ Len(s) + 1 \notin 1 .. Len(s)
      BY <2>2, <2>3
    <3>. QED
      BY <2>1, <2>2, <3>1 DEF s
  <2>8. u.type = nodes[r].type /\ Slots(u) = Put(Slots(nodes[r]), j, c)
    BY <1>1, <1>2, <2>1, <2>2, <2>4, <2>5
  <2>. HIDE DEF u, c, s, r
  <2>9. Grown(nodes, Append([nodes EXCEPT ![r] = u], v), r, j, Len(nodes) + 1, v)
    BY <1>1, <2>4, <2>7, <2>8, NewNodeHeld DEF c
  <2>. QED
    BY <2>1, <2>6, <2>9 DEF Holds, r
<1>3. CASE Top.type = "object"
  <2>1. /\ ValueNode = object_element /\ j \in DOMAIN nodes[r].members
        /\ nodes[r].members[j] = object_element
    BY <1>1, <1>3 DEF ValueNode, Place
  <2>2. Slots(nodes[r]) = nodes[r].members
    BY <1>1, <1>3, NodeFacts, Zenon
  <2>3. j \in DOMAIN Slots(nodes[r]) /\ Slots(nodes[r])[j] = object_element /\ nodes[r] \in Nodes
    BY <1>1, <2>1, <2>2
  <2>. HIDE DEF r
  <2>4. /\ Grown(nodes, [nodes EXCEPT ![object_element] = v], r, j, object_element, v)
        /\ object_element \in r + 1 .. Len(nodes)
    BY <1>1, <2>3, OldNodeHeld
  <2>5. nodes' = [nodes EXCEPT ![object_element] = v]
    <3>1. ~(object_element > Len(nodes))
      BY <1>1, <2>4
    <3>. QED
      BY <1>1, <1>3, <2>1, <3>1 DEF HandleValue
  <2>. QED
    BY <2>1, <2>4, <2>5 DEF Holds, r
<1>. QED
  BY <1>1, <1>2, <1>3 DEF Opens

LEMMA KeyGrown ==
    ASSUME NEW D, NEW P, NEW g, Structured(nodes, ref_stack, D, P, g), ref_stack # <<>>,
           Top.type = "object", NEW k \in Strings, SetKey(k)
    PROVE  \/ UNCHANGED nodes /\ Place(nodes[ref_stack[Len(ref_stack)]], object_element', k)
           \/ Holds(nodes, nodes', ref_stack, k, object_element', Null)
<1>. DEFINE r == ref_stack[Len(ref_stack)]
            f == nodes[r].members
            c == Len(nodes) + 1
<1>1. /\ Last(ref_stack) = r /\ Top = nodes[r] /\ r \in 1 .. Len(nodes) /\ NodesOK(nodes)
      /\ nodes \in Seq(Nodes) /\ Len(nodes) \in Nat /\ Top \in Nodes
  BY TopFacts
<1>2. CASE k \in DOMAIN f
  <2>1. object_element' = f[k] /\ UNCHANGED nodes
    BY <1>1, <1>2 DEF SetKey
  <2>. QED
    BY <1>1, <1>2, <2>1 DEF Place
<1>3. CASE k \notin DOMAIN f
  <2>. DEFINE u == ObjectValue(Put(f, k, c))
  <2>1. /\ f \in UNION {[K -> Nat] : K \in SUBSET Strings} /\ Slots(nodes[r]) = f
        /\ nodes[r] = ObjectValue(f)
    BY <1>1, NodeFacts, Zenon
  <2>2. Put(f, k, c) \in UNION {[K -> Nat] : K \in SUBSET Strings}
    <3>. HIDE DEF f
    <3>1. PICK K \in SUBSET Strings : f \in [K -> Nat]
      BY <2>1
    <3>2. K \cup {k} \in SUBSET Strings /\ c \in Nat /\ DOMAIN f = K
      BY <1>1, <3>1
    <3>3. Put(f, k, c) \in [K \cup {k} -> Nat]
      <4>. HIDE DEF c
      <4>. QED
        BY <3>1, <3>2 DEF Put
    <3>. QED
      BY <3>2, <3>3
  <2>3. u \in Nodes /\ u.type = "object" /\ Slots(u) = Put(f, k, c)
    BY <2>2, MemberNodes, Zenon
  <2>4. nodes' = Append([nodes EXCEPT ![r] = u], Null) /\ object_element' = c
    <3>1. [nodes EXCEPT ![r].members = Put(@, k, c)] = [nodes EXCEPT ![r] = u]
      <4>1. [nodes[r] EXCEPT !.members = Put(@, k, c)] = u
        BY <2>1 DEF ObjectValue
      <4>. QED
        BY <1>1, <4>1
    <3>. HIDE DEF u
    <3>2. nodes' = Append([nodes EXCEPT ![r].members = Put(@, k, c)], Null) /\ object_element' = c
      BY <1>1, <1>3 DEF SetKey
    <3>. QED
      BY <3>1, <3>2
  <2>5. Fresh(Null)
    <3>1. Null \in Leaves /\ Null \in Nodes
      BY DEF Leaves, Nodes
    <3>2. Null.type \notin {"array", "object"}
      BY DEF Null
    <3>. QED
      BY <3>1, <3>2, NodeFacts DEF Fresh
  <2>6. u.type = nodes[r].type /\ Slots(u) = Put(Slots(nodes[r]), k, c) /\ k \notin DOMAIN Slots(nodes[r])
    BY <1>1, <1>3, <2>1, <2>3
  <2>. HIDE DEF u, f, r, c
  <2>7. Grown(nodes, Append([nodes EXCEPT ![r] = u], Null), r, k, Len(nodes) + 1, Null)
    BY <1>1, <2>3, <2>5, <2>6, NewNodeHeld DEF c
  <2>. QED
    BY <2>4, <2>7 DEF Holds, r, c
<1>. QED
  BY <1>2, <1>3

(* The next value goes to the place that awaits one, or is the first.      *)
Waiting(ns, refs, el, D, P, g) ==
    IF refs = <<>> THEN ns = <<>> /\ g = <<>>
    ELSE \E j : Place(ns[refs[Len(refs)]], el, j) /\ AwaitsAt(ns, refs, D, P, g, j)

(* What holds where the loop is at a, g being what it has dealt with.      *)
Parsing(a, ns, refs, el, D, P, g) ==
    /\ Structured(ns, refs, D, P, g)
    /\ a \in {"first token", "next token", "value"} => Waiting(ns, refs, el, D, P, g)
    /\ a = "first key" => Begun(ns, refs, P, g, ObjectValue(NoMembers))
    /\ a = "first item" => Begun(ns, refs, P, g, ArrayValue(<<>>))
    /\ a = "name separator" => Keyed(ns, refs, el, D, P, g)
    /\ a = "next key" => AwaitsMember(ns, refs, D, P, g)
    /\ a = "evaluation" => Valued(ns, refs, D, P, g)

(* The stack of the loop has the types of the structures that have begun.  *)
Stacked(ns, refs, sts, n) ==
    /\ sts \in Seq({"array", "object"}) /\ Len(sts) = n
    /\ \A i \in 1 .. n : sts[i] = ns[refs[i]].type
Behind == {"first key", "first item"}
Stage(a, ns, refs, el, sts, g) ==
    /\ \E D, P : Parsing(a, ns, refs, el, D, P, g)
    /\ Stacked(ns, refs, sts, IF a \in Behind THEN Len(refs) - 1 ELSE Len(refs))

Parsed(ns, refs, g) ==
    /\ refs = <<>> /\ ns # <<>> /\ NodesOK(ns)
    /\ \E D, h : /\ ClosedOK(ns, <<>>, D) /\ g = Append(h, Sign("end_of_input"))
                 /\ IsValue(h, D[1])

Dealt(a, g) == IF a = "value" THEN Front(g) ELSE g

(* The invariant of the first half.                                        *)
ParseInv ==
    /\ got \in Seq(Tokens) /\ Len(got) =< MaxTokens
    /\ at = "value" => got # <<>>
    /\ at = "end" /\ result = "value" => Parsed(nodes, ref_stack, got)
    /\ at # "end" => /\ result = "parsing"
                     /\ Stage(at, nodes, ref_stack, object_element, states, Dealt(at, got))

-----------------------------------------------------------------------------
LEMMA NothingStructured == Structured(<<>>, <<>>, <<>>, <<>>, <<>>)
<1>. DEFINE e == <<>>
<1>1. e \in Seq(Nodes) /\ e \in Seq(Tokens) /\ Len(e) = 0 /\ 1 .. 0 = {} /\ DOMAIN e = {} /\ e \in Seq({})
  OBVIOUS
<1>2. e \in Seq(1 .. Len(e))
  BY <1>1
<1>. HIDE DEF e
<1>3. NodesOK(e)
  BY <1>1 DEF NodesOK
<1>4. StackOK(e, e)
  <2>1. e = <<>>
    BY DEF e
  <2>. QED
    BY <1>1, <1>2, <2>1 DEF StackOK
<1>5. ClosedOK(e, e, e)
  BY <1>1 DEF ClosedOK
<1>6. Levels(e, e, e, e, e)
  <2>1. e = <<>>
    BY DEF e
  <2>2. 1 .. Len(e) - 1 = {}
    BY <1>1
  <2>. QED
    BY <1>1, <1>2, <2>1, <2>2 DEF Levels
<1>. QED
  BY <1>1, <1>3, <1>4, <1>5, <1>6 DEF Structured, e

LEMMA ParserBegins == ParserInit => ParseInv
<1>. SUFFICES ASSUME ParserInit
     PROVE  ParseInv
  OBVIOUS
<1>1. /\ got = <<>> /\ at = "first token" /\ states = <<>> /\ nodes = <<>> /\ ref_stack = <<>>
      /\ object_element = 0 /\ result = "parsing"
  BY DEF ParserInit
<1>2. Structured(<<>>, <<>>, <<>>, <<>>, <<>>)
  BY NothingStructured
<1>3. Parsing("first token", <<>>, <<>>, 0, <<>>, <<>>, <<>>)
  BY <1>2 DEF Parsing, Waiting
<1>4. Stacked(<<>>, <<>>, <<>>, 0)
  BY DEF Stacked
<1>5. Stage("first token", <<>>, <<>>, 0, <<>>, <<>>)
  <2>1. Len(<<>>) = 0 /\ "first token" \notin Behind
    BY DEF Behind
  <2>2. Stacked(<<>>, <<>>, <<>>, IF "first token" \in Behind THEN Len(<<>>) - 1 ELSE Len(<<>>))
    BY <1>4, <2>1
  <2>. QED
    BY <1>3, <2>2, Zenon DEF Stage
<1>6. Dealt(at, got) = <<>>
  BY <1>1 DEF Dealt
<1>7. got \in Seq(Tokens) /\ Len(got) =< MaxTokens
  <2>1. <<>> \in Seq(Tokens) /\ Len(<<>>) = 0
    OBVIOUS
  <2>2. 0 =< MaxTokens
    BY ParserAssumption
  <2>. QED
    BY <1>1, <2>1, <2>2
<1>8. Stage(at, nodes, ref_stack, object_element, states, Dealt(at, got))
  BY <1>1, <1>5, <1>6, Zenon
<1>. QED
  BY <1>1, <1>7, <1>8 DEF ParseInv

-----------------------------------------------------------------------------
(* A token is read.                                                        *)
LEMMA Reads ==
    ASSUME ParseInv, NEW t \in Tokens, get_token(t)
    PROVE  /\ got \in Seq(Tokens) /\ Len(got) < MaxTokens /\ got' = Append(got, t)
           /\ got' \in Seq(Tokens) /\ Len(got') =< MaxTokens /\ got' # <<>>
           /\ Front(got') = got /\ Last(got') = t
<1>1. got \in Seq(Tokens) /\ Len(got) < MaxTokens /\ got' = Append(got, t)
  BY DEF ParseInv, get_token
<1>2. got' \in Seq(Tokens) /\ Len(got') = Len(got) + 1 /\ got' # <<>> /\ Len(got) \in Nat
      /\ got'[Len(got) + 1] = t /\ \A i \in 1 .. Len(got) : got'[i] = got[i]
  BY <1>1, Appended
<1>3. Last(got') = t
  BY <1>2 DEF Last
<1>4. Front(got') = got
  <2>. DEFINE f == Front(got')
  <2>1. f \in Seq(Tokens) /\ Len(f) = Len(got') - 1 /\ \A i \in 1 .. Len(got') - 1 : f[i] = got'[i]
    BY <1>2, FrontIs
  <2>. HIDE DEF f
  <2>2. Len(f) = Len(got) /\ \A i \in 1 .. Len(f) : f[i] = got[i]
    BY <1>2, <2>1
  <2>3. f = got
    BY <1>1, <2>1, <2>2, SameElements
  <2>. QED
    BY <2>3 DEF f
<1>5. Len(got') =< MaxTokens
  BY <1>1, <1>2, ParserAssumption
<1>. QED
  BY <1>1, <1>2, <1>3, <1>4, <1>5

LEMMA Arrives ==
    ASSUME ParseInv, at # "end", NEW t \in Tokens, get_token(t), at' # "end", UNCHANGED result,
           Stage(at', nodes', ref_stack', object_element', states',
                 IF at' = "value" THEN got ELSE Append(got, t))
    PROVE  ParseInv'
<1>1. /\ got' = Append(got, t) /\ got' \in Seq(Tokens) /\ Len(got') =< MaxTokens /\ got' # <<>>
      /\ Front(got') = got
  BY Reads
<1>2. Dealt(at', got') = IF at' = "value" THEN got ELSE Append(got, t)
  BY <1>1 DEF Dealt
<1>3. result' = "parsing"
  BY DEF ParseInv
<1>4. Stage(at', nodes', ref_stack', object_element', states', Dealt(at', got'))
  BY <1>2
<1>. QED
  BY <1>1, <1>3, <1>4 DEF ParseInv

LEMMA Refuses ==
    ASSUME ParseInv, NEW t \in Tokens, get_token(t) \/ UNCHANGED got, at' = "end", result' # "value"
    PROVE  ParseInv'
<1>1. got' \in Seq(Tokens) /\ Len(got') =< MaxTokens
  <2>1. CASE get_token(t)
    BY <2>1, Reads
  <2>2. CASE UNCHANGED got
    BY <2>2 DEF ParseInv
  <2>. QED
    BY <2>1, <2>2
<1>. QED
  BY <1>1 DEF ParseInv

(* The stack of the loop when the structures change.                       *)
LEMMA SameStacked ==
    ASSUME NEW ns, NEW refs, NEW D, NEW P, NEW g, Structured(ns, refs, D, P, g),
           NEW ms, NEW j, NEW c, NEW v, Holds(ns, ms, refs, j, c, v),
           NEW sts, Stacked(ns, refs, sts, Len(refs))
    PROVE  /\ Stacked(ms, refs, sts, Len(refs))
           /\ Stacked(ms, Append(refs, c), sts, Len(Append(refs, c)) - 1)
<1>. DEFINE l == Len(refs)
            r == refs[Len(refs)]
<1>1. NodesOK(ns) /\ StackOK(ns, refs) /\ refs # <<>> /\ Grown(ns, ms, r, j, c, v)
  BY Zenon DEF Structured, Holds
<1>2. \A i \in 1 .. l : ms[refs[i]].type = ns[refs[i]].type
  BY <1>1, GrownStack
<1>3. sts \in Seq({"array", "object"}) /\ Len(sts) = l /\ \A i \in 1 .. l : sts[i] = ns[refs[i]].type
  BY Zenon DEF Stacked
<1>4. Stacked(ms, refs, sts, l)
  <2>. HIDE DEF l
  <2>. QED
    BY <1>2, <1>3 DEF Stacked
<1>5. refs \in Seq(Nat) /\ c \in Nat
  <2>1. refs \in Seq(Nat)
    BY <1>1, StackFront
  <2>2. c \in r + 1 .. Len(ns) + 1 /\ r \in 1 .. Len(ns)
    BY <1>1 DEF Grown
  <2>. HIDE DEF r
  <2>. QED
    BY <2>1, <2>2
<1>6. Len(Append(refs, c)) - 1 = l /\ \A i \in 1 .. l : Append(refs, c)[i] = refs[i]
  BY <1>5
<1>7. Stacked(ms, Append(refs, c), sts, l)
  <2>. HIDE DEF l
  <2>. QED
    BY <1>2, <1>3, <1>6 DEF Stacked
<1>. QED
  BY <1>4, <1>6, <1>7

LEMMA PoppedStacked ==
    ASSUME NEW ns, NEW refs, StackOK(ns, refs), refs # <<>>, NEW sts
    PROVE  /\ Stacked(ns, refs, sts, Len(refs) - 1) => Stacked(ns, Front(refs), sts, Len(Front(refs)))
           /\ Stacked(ns, refs, sts, Len(refs)) =>
                /\ Stacked(ns, Front(refs), Front(sts), Len(Front(refs)))
                /\ sts # <<>> /\ Last(sts) = ns[refs[Len(refs)]].type
<1>. DEFINE l == Len(refs)
            f == Front(refs)
<1>1. l \in Nat /\ l # 0 /\ Len(f) = l - 1 /\ \A i \in 1 .. l - 1 : f[i] = refs[i] /\ i \in 1 .. l
  BY StackFront
<1>. HIDE DEF l, f
<1>2. ASSUME Stacked(ns, refs, sts, l - 1)
      PROVE  Stacked(ns, f, sts, Len(f))
  BY <1>1, <1>2 DEF Stacked
<1>3. ASSUME Stacked(ns, refs, sts, l)
      PROVE  Stacked(ns, f, Front(sts), Len(f)) /\ sts # <<>> /\ Last(sts) = ns[refs[l]].type
  <2>1. sts \in Seq({"array", "object"}) /\ Len(sts) = l /\ \A i \in 1 .. l : sts[i] = ns[refs[i]].type
    BY <1>3, Zenon DEF Stacked
  <2>2. sts # <<>>
    BY <1>1, <2>1
  <2>. DEFINE q == Front(sts)
  <2>3. /\ q \in Seq({"array", "object"}) /\ Len(q) = l - 1 /\ \A i \in 1 .. l - 1 : q[i] = sts[i]
        /\ Last(sts) = sts[l] /\ l \in 1 .. l
    BY <2>1, <2>2, FrontIs, SMTT(30), ZenonT(30)
  <2>. HIDE DEF q
  <2>4. \A i \in 1 .. l - 1 : q[i] = ns[f[i]].type
    BY <1>1, <2>1, <2>3
  <2>5. Stacked(ns, f, q, Len(f))
    BY <1>1, <2>3, <2>4 DEF Stacked
  <2>. QED
    BY <2>1, <2>2, <2>3, <2>5 DEF q
<1>. QED
  BY <1>2, <1>3 DEF l, f

LEMMA PushedStacked ==
    ASSUME NEW ns, NEW refs, StackOK(ns, refs), refs # <<>>, NEW sts, Stacked(ns, refs, sts, Len(refs) - 1),
           NEW x \in {"array", "object"}, ns[refs[Len(refs)]].type = x
    PROVE  Stacked(ns, refs, Append(sts, x), Len(refs))
<1>. DEFINE l == Len(refs)
<1>1. l \in Nat /\ l # 0
  BY StackFront
<1>. HIDE DEF l
<1>2. sts \in Seq({"array", "object"}) /\ Len(sts) = l - 1 /\ \A i \in 1 .. l - 1 : sts[i] = ns[refs[i]].type
  BY Zenon DEF Stacked, l
<1>. DEFINE q == Append(sts, x)
<1>3. /\ q \in Seq({"array", "object"}) /\ Len(q) = Len(sts) + 1 /\ q[Len(sts) + 1] = x
      /\ \A i \in 1 .. Len(sts) : q[i] = sts[i]
  BY <1>2, Appended
<1>. HIDE DEF q
<1>4. Len(q) = l /\ q[l] = x /\ \A i \in 1 .. l - 1 : q[i] = sts[i]
  BY <1>1, <1>2, <1>3
<1>5. \A i \in 1 .. l : q[i] = ns[refs[i]].type
  <2>1. \A i \in 1 .. l : i = l \/ i \in 1 .. l - 1
    BY <1>1
  <2>. QED
    BY <1>2, <1>4, <2>1 DEF l
<1>. QED
  BY <1>3, <1>4, <1>5 DEF Stacked, q, l

-----------------------------------------------------------------------------
LEMMA FirstTokenReads == ParseInv /\ (FirstToken \/ NextToken) => ParseInv'
<1>. SUFFICES ASSUME ParseInv, FirstToken \/ NextToken
     PROVE  ParseInv'
  OBVIOUS
<1>1. /\ at \in {"first token", "next token"} /\ at' = "value"
      /\ UNCHANGED <<states, nodes, ref_stack, object_element, result>>
  BY DEF FirstToken, NextToken
<1>2. PICK t \in Tokens : get_token(t)
  BY DEF FirstToken, NextToken
<1>3. Stage(at, nodes, ref_stack, object_element, states, got)
  BY <1>1 DEF ParseInv, Dealt
<1>4. Stage("value", nodes, ref_stack, object_element, states, got)
  <2>1. PICK D, P : Parsing(at, nodes, ref_stack, object_element, D, P, got)
    BY <1>3, Zenon DEF Stage
  <2>2. Parsing("value", nodes, ref_stack, object_element, D, P, got)
    BY <1>1, <2>1 DEF Parsing
  <2>3. Stacked(nodes, ref_stack, states, Len(ref_stack))
    BY <1>1, <1>3 DEF Stage, Behind
  <2>. QED
    BY <2>2, <2>3 DEF Stage, Behind
<1>. QED
  BY <1>1, <1>2, <1>4, Arrives

LEMMA TakesKey ==
    ASSUME NEW D, NEW P, Structured(nodes, ref_stack, D, P, got), AwaitsMember(nodes, ref_stack, D, P, got),
           NEW k \in Strings, SetKey(k), NEW sts, Stacked(nodes, ref_stack, sts, Len(ref_stack))
    PROVE  /\ Stage("name separator", nodes', ref_stack, object_element', sts, Append(got, k))
           /\ UNCHANGED ref_stack
<1>. DEFINE r == ref_stack[Len(ref_stack)]
<1>1. ref_stack # <<>> /\ nodes[r].type = "object"
  BY DEF AwaitsMember
<1>2. Top = nodes[r]
  BY <1>1, TopFacts
<1>3. \/ UNCHANGED nodes /\ Place(nodes[r], object_element', k)
      \/ Holds(nodes, nodes', ref_stack, k, object_element', Null)
  BY <1>1, <1>2, KeyGrown
<1>4. UNCHANGED ref_stack
  BY DEF SetKey
<1>5. CASE UNCHANGED nodes /\ Place(nodes[r], object_element', k)
  <2>1. /\ Structured(nodes, ref_stack, D, P, Append(got, k))
        /\ Keyed(nodes, ref_stack, object_element', D, P, Append(got, k))
    BY <1>5, OldKey
  <2>2. Parsing("name separator", nodes, ref_stack, object_element', D, P, Append(got, k))
    BY <2>1 DEF Parsing
  <2>3. Stage("name separator", nodes, ref_stack, object_element', sts, Append(got, k))
    BY <2>2 DEF Stage, Behind
  <2>. QED
    BY <1>4, <1>5, <2>3
<1>6. CASE Holds(nodes, nodes', ref_stack, k, object_element', Null)
  <2>. DEFINE E == Put(D, object_element', Null)
  <2>1. /\ Structured(nodes', ref_stack, E, P, Append(got, k))
        /\ Keyed(nodes', ref_stack, object_element', E, P, Append(got, k))
    BY <1>6, NewKey
  <2>. HIDE DEF E
  <2>2. Parsing("name separator", nodes', ref_stack, object_element', E, P, Append(got, k))
    BY <2>1 DEF Parsing
  <2>3. Stacked(nodes', ref_stack, sts, Len(ref_stack))
    BY <1>6, SameStacked
  <2>4. Stage("name separator", nodes', ref_stack, object_element', sts, Append(got, k))
    BY <2>2, <2>3 DEF Stage, Behind
  <2>. QED
    BY <1>4, <2>4
<1>. QED
  BY <1>3, <1>5, <1>6

LEMMA FirstKeyReads == ParseInv /\ FirstKey => ParseInv'
<1>. SUFFICES ASSUME ParseInv, FirstKey
     PROVE  ParseInv'
  OBVIOUS
<1>1. PICK t \in Tokens :
         /\ get_token(t)
         /\ \/ /\ t = Sign("end_object") /\ End
               /\ at' = "evaluation" /\ UNCHANGED <<states, result>>
            \/ /\ t \in Strings /\ SetKey(t)
               /\ states' = Append(states, "object")
               /\ at' = "name separator" /\ UNCHANGED result
            \/ t \notin Strings \cup {Sign("end_object")} /\ Fails
  BY Zenon DEF FirstKey
<1>2. at = "first key"
  BY DEF FirstKey
<1>3. Stage("first key", nodes, ref_stack, object_element, states, got)
  BY <1>2 DEF ParseInv, Dealt
<1>4. PICK D, P : Parsing("first key", nodes, ref_stack, object_element, D, P, got)
  BY <1>3, Zenon DEF Stage
<1>5. /\ Structured(nodes, ref_stack, D, P, got)
      /\ Begun(nodes, ref_stack, P, got, ObjectValue(NoMembers))
  BY <1>4 DEF Parsing
<1>. DEFINE r == ref_stack[Len(ref_stack)]
<1>6. /\ ref_stack # <<>> /\ nodes[r].type = "object" /\ DOMAIN Slots(nodes[r]) = {}
      /\ P[Len(ref_stack)] = Len(got) /\ StackOK(nodes, ref_stack)
  BY <1>5 DEF Begun, ObjectValue, Structured
<1>7. Stacked(nodes, ref_stack, states, Len(ref_stack) - 1)
  BY <1>3 DEF Stage, Behind
<1>8. got \in Seq(Tokens) /\ Len(got) < MaxTokens
  BY <1>1, Reads
<1>9. CASE t = Sign("end_object") /\ End /\ at' = "evaluation" /\ UNCHANGED <<states, result>>
  <2>1. t = Closing(nodes[r])
    BY <1>6, <1>9 DEF Closing
  <2>2. Complete(nodes, r, D, Contents(P, Len(ref_stack), got))
    BY <1>6, <1>8, EmptyContents DEF Complete
  <2>3. PICK E, Q : /\ Structured(nodes, Front(ref_stack), E, Q, Append(got, t))
                    /\ Valued(nodes, Front(ref_stack), E, Q, Append(got, t))
    BY <1>5, <1>6, <1>8, <2>1, <2>2, Closes
  <2>4. Parsing("evaluation", nodes, Front(ref_stack), object_element, E, Q, Append(got, t))
    BY <2>3 DEF Parsing
  <2>5. Stacked(nodes, Front(ref_stack), states, Len(Front(ref_stack)))
    BY <1>6, <1>7, PoppedStacked
  <2>6. Stage("evaluation", nodes, Front(ref_stack), object_element, states, Append(got, t))
    BY <2>4, <2>5 DEF Stage, Behind
  <2>. QED
    BY <1>1, <1>2, <1>9, <2>6, Arrives DEF End
<1>10. CASE /\ t \in Strings /\ SetKey(t) /\ states' = Append(states, "object")
            /\ at' = "name separator" /\ UNCHANGED result
  <2>1. AwaitsMember(nodes, ref_stack, D, P, got)
    <3>1. ObjectValue(NoMembers).type = "object"
      BY DEF ObjectValue
    <3>. QED
      BY <1>5, <3>1, FirstKeyAwaits
  <2>2. Stacked(nodes, ref_stack, states', Len(ref_stack))
    BY <1>6, <1>7, <1>10, PushedStacked
  <2>3. /\ Stage("name separator", nodes', ref_stack, object_element', states', Append(got, t))
        /\ UNCHANGED ref_stack
    BY <1>5, <1>10, <2>1, <2>2, TakesKey
  <2>. QED
    BY <1>1, <1>2, <1>10, <2>3, Arrives
<1>11. CASE t \notin Strings \cup {Sign("end_object")} /\ Fails
  BY <1>1, <1>11, Refuses DEF Fails
<1>. QED
  BY <1>1, <1>9, <1>10, <1>11

LEMMA FirstItemReads == ParseInv /\ FirstItem => ParseInv'
<1>. SUFFICES ASSUME ParseInv, FirstItem
     PROVE  ParseInv'
  OBVIOUS
<1>1. PICK t \in Tokens :
         /\ get_token(t)
         /\ \/ t = Sign("end_array") /\ End /\ at' = "evaluation" /\ UNCHANGED states
            \/ /\ t # Sign("end_array")
               /\ states' = Append(states, "array") /\ at' = "value"
               /\ UNCHANGED <<nodes, ref_stack, object_element>>
  BY Zenon DEF FirstItem
<1>2. at = "first item" /\ UNCHANGED result
  BY DEF FirstItem
<1>3. Stage("first item", nodes, ref_stack, object_element, states, got)
  BY <1>2 DEF ParseInv, Dealt
<1>4. PICK D, P : Parsing("first item", nodes, ref_stack, object_element, D, P, got)
  BY <1>3, Zenon DEF Stage
<1>5. /\ Structured(nodes, ref_stack, D, P, got)
      /\ Begun(nodes, ref_stack, P, got, ArrayValue(<<>>))
  BY <1>4 DEF Parsing
<1>. DEFINE r == ref_stack[Len(ref_stack)]
<1>6. /\ ref_stack # <<>> /\ nodes[r].type = "array" /\ DOMAIN Slots(nodes[r]) = {}
      /\ P[Len(ref_stack)] = Len(got) /\ StackOK(nodes, ref_stack)
  BY <1>5 DEF Begun, ArrayValue, Structured
<1>7. Stacked(nodes, ref_stack, states, Len(ref_stack) - 1)
  BY <1>3 DEF Stage, Behind
<1>8. got \in Seq(Tokens) /\ Len(got) < MaxTokens
  BY <1>1, Reads
<1>9. CASE t = Sign("end_array") /\ End /\ at' = "evaluation" /\ UNCHANGED states
  <2>1. t = Closing(nodes[r])
    BY <1>6, <1>9 DEF Closing
  <2>2. Complete(nodes, r, D, Contents(P, Len(ref_stack), got))
    BY <1>6, <1>8, EmptyContents DEF Complete
  <2>3. PICK E, Q : /\ Structured(nodes, Front(ref_stack), E, Q, Append(got, t))
                    /\ Valued(nodes, Front(ref_stack), E, Q, Append(got, t))
    BY <1>5, <1>6, <1>8, <2>1, <2>2, Closes
  <2>4. Parsing("evaluation", nodes, Front(ref_stack), object_element, E, Q, Append(got, t))
    BY <2>3 DEF Parsing
  <2>5. Stacked(nodes, Front(ref_stack), states, Len(Front(ref_stack)))
    BY <1>6, <1>7, PoppedStacked
  <2>6. Stage("evaluation", nodes, Front(ref_stack), object_element, states, Append(got, t))
    BY <2>4, <2>5 DEF Stage, Behind
  <2>. QED
    BY <1>1, <1>2, <1>9, <2>6, Arrives DEF End
<1>10. CASE /\ states' = Append(states, "array") /\ at' = "value"
            /\ UNCHANGED <<nodes, ref_stack, object_element>>
  <2>1. \E j : Place(nodes[r], object_element, j) /\ AwaitsAt(nodes, ref_stack, D, P, got, j)
    <3>1. ArrayValue(<<>>).type = "array"
      BY DEF ArrayValue
    <3>. QED
      BY <1>5, <3>1, FirstItemAwaits
  <2>2. Parsing("value", nodes, ref_stack, object_element, D, P, got)
    BY <1>5, <1>6, <2>1 DEF Parsing, Waiting
  <2>3. Stacked(nodes, ref_stack, states', Len(ref_stack))
    BY <1>6, <1>7, <1>10, PushedStacked
  <2>4. Stage("value", nodes, ref_stack, object_element, states', got)
    BY <2>2, <2>3 DEF Stage, Behind
  <2>. QED
    BY <1>1, <1>2, <1>10, <2>4, Arrives
<1>. QED
  BY <1>1, <1>9, <1>10

LEMMA NameSeparatorReads == ParseInv /\ NameSeparator => ParseInv'
<1>. SUFFICES ASSUME ParseInv, NameSeparator
     PROVE  ParseInv'
  OBVIOUS
<1>1. PICK t \in Tokens :
         /\ get_token(t)
         /\ \/ /\ t = Sign("name_separator") /\ at' = "next token"
               /\ UNCHANGED <<states, nodes, ref_stack, object_element, result>>
            \/ t # Sign("name_separator") /\ Fails
  BY Zenon DEF NameSeparator
<1>2. at = "name separator"
  BY DEF NameSeparator
<1>3. Stage("name separator", nodes, ref_stack, object_element, states, got)
  BY <1>2 DEF ParseInv, Dealt
<1>4. PICK D, P : Parsing("name separator", nodes, ref_stack, object_element, D, P, got)
  BY <1>3, Zenon DEF Stage
<1>5. Structured(nodes, ref_stack, D, P, got) /\ Keyed(nodes, ref_stack, object_element, D, P, got)
  BY <1>4 DEF Parsing
<1>6. Stacked(nodes, ref_stack, states, Len(ref_stack))
  BY <1>3 DEF Stage, Behind
<1>7. CASE /\ t = Sign("name_separator") /\ at' = "next token"
           /\ UNCHANGED <<states, nodes, ref_stack, object_element, result>>
  <2>1. t = Colon
    BY <1>7 DEF Colon
  <2>2. \E j : Place(nodes[ref_stack[Len(ref_stack)]], object_element, j)
               /\ AwaitsAt(nodes, ref_stack, D, P, Append(got, t), j)
    BY <1>5, <2>1, ColonRead
  <2>3. Structured(nodes, ref_stack, D, P, Append(got, t))
    BY <1>5, ContentsGrow
  <2>4. ref_stack # <<>>
    BY <1>5 DEF Keyed
  <2>5. Parsing("next token", nodes, ref_stack, object_element, D, P, Append(got, t))
    BY <2>2, <2>3, <2>4 DEF Parsing, Waiting
  <2>6. Stage("next token", nodes, ref_stack, object_element, states, Append(got, t))
    BY <1>6, <2>5 DEF Stage, Behind
  <2>. QED
    BY <1>1, <1>2, <1>7, <2>6, Arrives
<1>8. CASE t # Sign("name_separator") /\ Fails
  BY <1>1, <1>8, Refuses DEF Fails
<1>. QED
  BY <1>1, <1>7, <1>8

LEMMA NextKeyReads == ParseInv /\ NextKey => ParseInv'
<1>. SUFFICES ASSUME ParseInv, NextKey
     PROVE  ParseInv'
  OBVIOUS
<1>1. PICK t \in Tokens :
         /\ get_token(t)
         /\ \/ t \in Strings /\ SetKey(t) /\ at' = "name separator" /\ UNCHANGED <<states, result>>
            \/ t \notin Strings /\ Fails
  BY Zenon DEF NextKey
<1>2. at = "next key"
  BY DEF NextKey
<1>3. Stage("next key", nodes, ref_stack, object_element, states, got)
  BY <1>2 DEF ParseInv, Dealt
<1>4. PICK D, P : Parsing("next key", nodes, ref_stack, object_element, D, P, got)
  BY <1>3, Zenon DEF Stage
<1>5. Structured(nodes, ref_stack, D, P, got) /\ AwaitsMember(nodes, ref_stack, D, P, got)
  BY <1>4 DEF Parsing
<1>6. Stacked(nodes, ref_stack, states, Len(ref_stack))
  BY <1>3 DEF Stage, Behind
<1>7. CASE t \in Strings /\ SetKey(t) /\ at' = "name separator" /\ UNCHANGED <<states, result>>
  <2>1. /\ Stage("name separator", nodes', ref_stack, object_element', states, Append(got, t))
        /\ UNCHANGED ref_stack
    BY <1>5, <1>6, <1>7, TakesKey
  <2>. QED
    BY <1>1, <1>2, <1>7, <2>1, Arrives
<1>8. CASE t \notin Strings /\ Fails
  BY <1>1, <1>8, Refuses DEF Fails
<1>. QED
  BY <1>1, <1>7, <1>8

-----------------------------------------------------------------------------
(* A value is complete.                                                    *)
LEMMA Evaluated ==
    ASSUME ParseInv, at = "evaluation"
    PROVE  /\ \E D, P : Structured(nodes, ref_stack, D, P, got) /\ Valued(nodes, ref_stack, D, P, got)
           /\ Stacked(nodes, ref_stack, states, Len(ref_stack))
           /\ (states = <<>>) = (ref_stack = <<>>)
           /\ states # <<>> => Last(states) = nodes[ref_stack[Len(ref_stack)]].type
<1>1. Stage("evaluation", nodes, ref_stack, object_element, states, got)
  BY DEF ParseInv, Dealt
<1>2. PICK D, P : Parsing("evaluation", nodes, ref_stack, object_element, D, P, got)
  BY <1>1, Zenon DEF Stage
<1>3. Structured(nodes, ref_stack, D, P, got) /\ Valued(nodes, ref_stack, D, P, got)
  BY <1>2 DEF Parsing
<1>4. Stacked(nodes, ref_stack, states, Len(ref_stack)) /\ StackOK(nodes, ref_stack)
  BY <1>1, <1>3 DEF Stage, Behind, Structured
<1>5. ref_stack # <<>> => states # <<>> /\ Last(states) = nodes[ref_stack[Len(ref_stack)]].type
  BY <1>4, PoppedStacked
<1>6. ref_stack = <<>> => states = <<>>
  BY <1>4 DEF Stacked
<1>. QED
  BY <1>3, <1>4, <1>5, <1>6

(* The end of the structure around it is one, too.                         *)
LEMMA StructureEnds ==
    ASSUME ParseInv, at = "evaluation", NEW t \in Tokens, get_token(t), states # <<>>,
           t = Closing(nodes[ref_stack[Len(ref_stack)]]), End, states' = Front(states),
           UNCHANGED <<at, result>>
    PROVE  ParseInv'
<1>1. PICK D, P : Structured(nodes, ref_stack, D, P, got) /\ Valued(nodes, ref_stack, D, P, got)
  BY Evaluated
<1>2. ref_stack # <<>> /\ Stacked(nodes, ref_stack, states, Len(ref_stack)) /\ StackOK(nodes, ref_stack)
  BY <1>1, Evaluated DEF Structured
<1>3. Complete(nodes, ref_stack[Len(ref_stack)], D, Contents(P, Len(ref_stack), got))
  BY <1>1, <1>2, Zenon DEF Complete, Valued
<1>4. Len(got) < MaxTokens
  BY Reads
<1>5. PICK E, Q : /\ Structured(nodes, Front(ref_stack), E, Q, Append(got, t))
                  /\ Valued(nodes, Front(ref_stack), E, Q, Append(got, t))
  BY <1>1, <1>2, <1>3, <1>4, Closes
<1>6. Parsing("evaluation", nodes, Front(ref_stack), object_element, E, Q, Append(got, t))
  BY <1>5 DEF Parsing
<1>7. Stacked(nodes, Front(ref_stack), Front(states), Len(Front(ref_stack)))
  BY <1>2, PoppedStacked
<1>8. Stage("evaluation", nodes, Front(ref_stack), object_element, Front(states), Append(got, t))
  BY <1>6, <1>7 DEF Stage, Behind
<1>. QED
  BY <1>8, Arrives DEF End

LEMMA InArrayReads == ParseInv /\ InArray => ParseInv'
<1>. SUFFICES ASSUME ParseInv, InArray
     PROVE  ParseInv'
  OBVIOUS
<1>1. PICK t \in Tokens :
         /\ get_token(t)
         /\ \/ /\ t = Sign("value_separator") /\ at' = "next token"
               /\ UNCHANGED <<states, nodes, ref_stack, object_element, result>>
            \/ /\ t = Sign("end_array") /\ End
               /\ states' = Front(states) /\ UNCHANGED <<at, result>>
            \/ t \notin {Sign("value_separator"), Sign("end_array")} /\ Fails
  BY Zenon DEF InArray
<1>2. at = "evaluation" /\ states # <<>> /\ Last(states) = "array"
  BY DEF InArray
<1>3. PICK D, P : Structured(nodes, ref_stack, D, P, got) /\ Valued(nodes, ref_stack, D, P, got)
  BY <1>2, Evaluated
<1>. DEFINE r == ref_stack[Len(ref_stack)]
<1>4. /\ ref_stack # <<>> /\ Stacked(nodes, ref_stack, states, Len(ref_stack))
      /\ nodes[r].type = "array"
  BY <1>2, Evaluated
<1>5. CASE /\ t = Sign("value_separator") /\ at' = "next token"
           /\ UNCHANGED <<states, nodes, ref_stack, object_element, result>>
  <2>1. Len(got) < MaxTokens
    BY <1>1, Reads
  <2>2. \E j : Place(nodes[r], object_element, j) /\ AwaitsAt(nodes, ref_stack, D, P, Append(got, t), j)
    BY <1>3, <1>4, <1>5, <2>1, CommaInArray
  <2>3. Structured(nodes, ref_stack, D, P, Append(got, t))
    BY <1>3, ContentsGrow
  <2>4. Parsing("next token", nodes, ref_stack, object_element, D, P, Append(got, t))
    BY <1>4, <2>2, <2>3 DEF Parsing, Waiting
  <2>5. Stage("next token", nodes, ref_stack, object_element, states, Append(got, t))
    BY <1>4, <2>4 DEF Stage, Behind
  <2>. QED
    BY <1>1, <1>2, <1>5, <2>5, Arrives
<1>6. CASE t = Sign("end_array") /\ End /\ states' = Front(states) /\ UNCHANGED <<at, result>>
  <2>1. t = Closing(nodes[r])
    BY <1>4, <1>6 DEF Closing
  <2>. QED
    BY <1>1, <1>2, <1>6, <2>1, StructureEnds
<1>7. CASE t \notin {Sign("value_separator"), Sign("end_array")} /\ Fails
  BY <1>1, <1>7, Refuses DEF Fails
<1>. QED
  BY <1>1, <1>5, <1>6, <1>7

LEMMA InObjectReads == ParseInv /\ InObject => ParseInv'
<1>. SUFFICES ASSUME ParseInv, InObject
     PROVE  ParseInv'
  OBVIOUS
<1>1. PICK t \in Tokens :
         /\ get_token(t)
         /\ \/ /\ t = Sign("value_separator") /\ at' = "next key"
               /\ UNCHANGED <<states, nodes, ref_stack, object_element, result>>
            \/ /\ t = Sign("end_object") /\ End
               /\ states' = Front(states) /\ UNCHANGED <<at, result>>
            \/ t \notin {Sign("value_separator"), Sign("end_object")} /\ Fails
  BY Zenon DEF InObject
<1>2. at = "evaluation" /\ states # <<>> /\ Last(states) = "object"
  BY DEF InObject
<1>3. PICK D, P : Structured(nodes, ref_stack, D, P, got) /\ Valued(nodes, ref_stack, D, P, got)
  BY <1>2, Evaluated
<1>. DEFINE r == ref_stack[Len(ref_stack)]
<1>4. /\ ref_stack # <<>> /\ Stacked(nodes, ref_stack, states, Len(ref_stack))
      /\ nodes[r].type = "object"
  BY <1>2, Evaluated
<1>5. CASE /\ t = Sign("value_separator") /\ at' = "next key"
           /\ UNCHANGED <<states, nodes, ref_stack, object_element, result>>
  <2>1. Len(got) < MaxTokens
    BY <1>1, Reads
  <2>2. AwaitsMember(nodes, ref_stack, D, P, Append(got, t))
    BY <1>3, <1>4, <1>5, <2>1, CommaInObject
  <2>3. Structured(nodes, ref_stack, D, P, Append(got, t))
    BY <1>3, ContentsGrow
  <2>4. Parsing("next key", nodes, ref_stack, object_element, D, P, Append(got, t))
    BY <2>2, <2>3 DEF Parsing
  <2>5. Stage("next key", nodes, ref_stack, object_element, states, Append(got, t))
    BY <1>4, <2>4 DEF Stage, Behind
  <2>. QED
    BY <1>1, <1>2, <1>5, <2>5, Arrives
<1>6. CASE t = Sign("end_object") /\ End /\ states' = Front(states) /\ UNCHANGED <<at, result>>
  <2>1. t = Closing(nodes[r])
    BY <1>4, <1>6 DEF Closing
  <2>. QED
    BY <1>1, <1>2, <1>6, <2>1, StructureEnds
<1>7. CASE t \notin {Sign("value_separator"), Sign("end_object")} /\ Fails
  BY <1>1, <1>7, Refuses DEF Fails
<1>. QED
  BY <1>1, <1>5, <1>6, <1>7

LEMMA EndOfInputReads == ParseInv /\ EndOfInput => ParseInv'
<1>. SUFFICES ASSUME ParseInv, EndOfInput
     PROVE  ParseInv'
  OBVIOUS
<1>1. PICK t \in Tokens :
         /\ get_token(t)
         /\ \/ /\ t = Sign("end_of_input")
               /\ result' = "value" /\ at' = "end"
               /\ UNCHANGED <<states, nodes, ref_stack, object_element>>
            \/ t # Sign("end_of_input") /\ Fails
  BY Zenon DEF EndOfInput
<1>2. at = "evaluation" /\ states = <<>>
  BY DEF EndOfInput
<1>3. PICK D, P : Structured(nodes, ref_stack, D, P, got) /\ Valued(nodes, ref_stack, D, P, got)
  BY <1>2, Evaluated
<1>4. ref_stack = <<>>
  BY <1>2, Evaluated
<1>5. CASE /\ t = Sign("end_of_input") /\ result' = "value" /\ at' = "end"
           /\ UNCHANGED <<states, nodes, ref_stack, object_element>>
  <2>1. /\ got' = Append(got, t) /\ got' \in Seq(Tokens) /\ Len(got') =< MaxTokens
    BY <1>1, Reads
  <2>2. nodes # <<>> /\ NodesOK(nodes) /\ ClosedOK(nodes, <<>>, D) /\ IsValue(got, D[1])
    BY <1>3, <1>4 DEF Structured, Valued
  <2>3. Parsed(nodes', ref_stack', got')
    BY <1>4, <1>5, <2>1, <2>2 DEF Parsed
  <2>. QED
    BY <1>5, <2>1, <2>3 DEF ParseInv
<1>6. CASE t # Sign("end_of_input") /\ Fails
  BY <1>1, <1>6, Refuses DEF Fails
<1>. QED
  BY <1>1, <1>5, <1>6

(* The value that starts, its text and its place.                          *)
LEMMA ValueFacts ==
    ASSUME ParseInv, at = "value"
    PROVE  /\ Front(got) \in Seq(Tokens) /\ Last(got) \in Tokens /\ got = Append(Front(got), Last(got))
           /\ Len(Front(got)) < MaxTokens /\ result = "parsing"
           /\ \E D, P : /\ Structured(nodes, ref_stack, D, P, Front(got))
                        /\ Waiting(nodes, ref_stack, object_element, D, P, Front(got))
           /\ Stacked(nodes, ref_stack, states, Len(ref_stack))
<1>. DEFINE f == Front(got)
<1>1. got \in Seq(Tokens) /\ got # <<>> /\ Len(got) =< MaxTokens /\ result = "parsing"
      /\ Stage("value", nodes, ref_stack, object_element, states, f)
  BY DEF ParseInv, Dealt
<1>2. /\ f \in Seq(Tokens) /\ Len(f) = Len(got) - 1 /\ Len(got) \in Nat /\ Len(got) # 0
      /\ \A i \in 1 .. Len(got) - 1 : f[i] = got[i]
      /\ Last(got) = got[Len(got)] /\ got[Len(got)] \in Tokens
  BY <1>1, FrontIs
<1>3. PICK D, P : Parsing("value", nodes, ref_stack, object_element, D, P, f)
  BY <1>1, Zenon DEF Stage
<1>4. Structured(nodes, ref_stack, D, P, f) /\ Waiting(nodes, ref_stack, object_element, D, P, f)
  BY <1>3 DEF Parsing
<1>5. Stacked(nodes, ref_stack, states, Len(ref_stack))
  BY <1>1 DEF Stage, Behind
<1>. HIDE DEF f
<1>6. got = Append(f, Last(got))
  <2>. DEFINE h == Append(f, Last(got))
  <2>1. /\ h \in Seq(Tokens) /\ Len(h) = Len(f) + 1 /\ h[Len(f) + 1] = Last(got)
        /\ \A i \in 1 .. Len(f) : h[i] = f[i]
    BY <1>2, Appended
  <2>. HIDE DEF h
  <2>2. Len(got) = Len(h) /\ \A i \in 1 .. Len(got) : got[i] = h[i]
    <3>1. Len(got) = Len(h)
      BY <1>2, <2>1
    <3>2. ASSUME NEW i \in 1 .. Len(got)
          PROVE  got[i] = h[i]
      <4>1. CASE i = Len(got)
        BY <1>2, <2>1, <4>1
      <4>2. CASE i # Len(got)
        <5>1. i \in 1 .. Len(got) - 1
          BY <1>2, <4>2
        <5>. QED
          BY <1>2, <2>1, <5>1
      <4>. QED
        BY <4>1, <4>2
    <3>. QED
      BY <3>1, <3>2
  <2>3. got = h
    BY <1>1, <2>1, <2>2, SameElements
  <2>. QED
    BY <2>3 DEF h
<1>7. Len(f) < MaxTokens
  BY <1>1, <1>2, ParserAssumption
<1>. QED
  BY <1>1, <1>2, <1>4, <1>5, <1>6, <1>7 DEF f

LEMMA Stays ==
    ASSUME ParseInv, at = "value", UNCHANGED <<got, result>>, at' \notin {"end", "value"},
           Stage(at', nodes', ref_stack', object_element', states', got)
    PROVE  ParseInv'
<1>1. got \in Seq(Tokens) /\ Len(got) =< MaxTokens /\ result = "parsing"
  BY DEF ParseInv
<1>2. Dealt(at', got') = got
  BY DEF Dealt
<1>. QED
  BY <1>1, <1>2 DEF ParseInv

(* The first value becomes the root.                                       *)
LEMMA RootHandled ==
    ASSUME NEW v, ref_stack = <<>>, nodes = <<>>, HandleValue(v)
    PROVE  nodes' = <<v>> /\ ValueNode = 1
<1>1. ValueNode = 1
  BY DEF ValueNode
<1>2. 1 > Len(nodes)
  OBVIOUS
<1>3. nodes' = Append(nodes, v)
  BY <1>1, <1>2 DEF HandleValue
<1>4. Append(nodes, v) = <<v>>
  BY AppendedTwo
<1>. QED
  BY <1>1, <1>3, <1>4

LEMMA ScalarRead ==
    ASSUME ParseInv, at = "value", Last(got) \in Scalars, Last(got).type # "overflow", HandleValue(Last(got)),
           at' = "evaluation", UNCHANGED <<got, states, ref_stack, object_element, result>>
    PROVE  ParseInv'
<1>. DEFINE t == Last(got)
            f == Front(got)
<1>1. /\ f \in Seq(Tokens) /\ t \in Tokens /\ got = Append(f, t) /\ Len(f) < MaxTokens
      /\ Stacked(nodes, ref_stack, states, Len(ref_stack))
  BY ValueFacts
<1>2. PICK D, P : /\ Structured(nodes, ref_stack, D, P, f)
                  /\ Waiting(nodes, ref_stack, object_element, D, P, f)
  BY ValueFacts
<1>3. t \in Scalars /\ t.type # "overflow" /\ HandleValue(t)
  OBVIOUS
<1>. HIDE DEF t, f
<1>4. CASE ref_stack = <<>>
  <2>1. nodes = <<>> /\ f = <<>>
    BY <1>2, <1>4 DEF Waiting
  <2>2. nodes' = <<t>> /\ got = <<t>>
    <3>1. nodes' = <<t>>
      BY <1>3, <1>4, <2>1, RootHandled
    <3>. QED
      BY <1>1, <2>1, <3>1, AppendedTwo
  <2>3. Structured(<<t>>, <<>>, <<t>>, <<>>, <<t>>) /\ Valued(<<t>>, <<>>, <<t>>, <<>>, <<t>>)
    <3>1. 0 < MaxTokens
      BY <1>1, <2>1, ParserAssumption
    <3>. QED
      BY <1>3, <3>1, RootScalar
  <2>4. Parsing("evaluation", <<t>>, <<>>, object_element, <<t>>, <<>>, <<t>>)
    BY <2>3 DEF Parsing
  <2>5. Stacked(<<t>>, <<>>, states, Len(<<>>))
    BY <1>1, <1>4 DEF Stacked
  <2>6. Stage("evaluation", <<t>>, <<>>, object_element, states, <<t>>)
    BY <2>4, <2>5 DEF Stage, Behind
  <2>. QED
    BY <1>4, <2>2, <2>6, Stays
<1>5. CASE ref_stack # <<>>
  <2>1. PICK j : /\ Place(nodes[ref_stack[Len(ref_stack)]], object_element, j)
                 /\ AwaitsAt(nodes, ref_stack, D, P, f, j)
    BY <1>2, <1>5 DEF Waiting
  <2>2. Fresh(t)
    <3>1. t \in Leaves /\ t \in Nodes
      BY <1>3 DEF Leaves, Nodes
    <3>. QED
      BY <3>1, NodeFacts DEF Fresh
  <2>3. Holds(nodes, nodes', ref_stack, j, ValueNode, t)
    BY <1>2, <1>3, <1>5, <2>1, <2>2, HandledGrown
  <2>. DEFINE E == Put(D, ValueNode, t)
  <2>4. Structured(nodes', ref_stack, E, P, Append(f, t)) /\ Valued(nodes', ref_stack, E, P, Append(f, t))
    BY <1>1, <1>2, <1>3, <2>1, <2>3, TakesScalar
  <2>. HIDE DEF E
  <2>5. Parsing("evaluation", nodes', ref_stack, object_element, E, P, got)
    BY <1>1, <2>4 DEF Parsing
  <2>6. Stacked(nodes', ref_stack, states, Len(ref_stack))
    BY <1>1, <1>2, <2>3, SameStacked
  <2>7. Stage("evaluation", nodes', ref_stack, object_element, states, got)
    BY <2>5, <2>6 DEF Stage, Behind
  <2>. QED
    BY <2>7, Stays
<1>. QED
  BY <1>4, <1>5

LEMMA ShortLengths == Len(<<1>>) - 1 = 0 /\ Len(<<>>) = 0
<1>1. Len(<<1>>) = 1
  BY OneElement
<1>2. Len(<<>>) = 0
  OBVIOUS
<1>. QED
  BY <1>1, <1>2

LEMMA NoneStacked ==
    ASSUME NEW ns, NEW refs, NEW sts \in Seq({"array", "object"}), Len(sts) = 0
    PROVE  Stacked(ns, refs, sts, 0)
<1>1. \A i \in 1 .. 0 : FALSE
  OBVIOUS
<1>. QED
  BY <1>1, Zenon DEF Stacked

LEMMA OpeningRead ==
    ASSUME ParseInv, at = "value", NEW v, Fresh(v), Opens(v), Last(got) = Opening(v), Start(v),
           NEW a, (a = "first item" /\ v.type = "array") \/ (a = "first key" /\ v.type = "object"), at' = a, UNCHANGED <<got, states, result>>
    PROVE  ParseInv'
<1>. DEFINE t == Last(got)
            f == Front(got)
<1>1. /\ f \in Seq(Tokens) /\ t \in Tokens /\ got = Append(f, t) /\ Len(f) < MaxTokens
      /\ Stacked(nodes, ref_stack, states, Len(ref_stack))
  BY ValueFacts
<1>2. PICK D, P : /\ Structured(nodes, ref_stack, D, P, f)
                  /\ Waiting(nodes, ref_stack, object_element, D, P, f)
  BY ValueFacts
<1>3. t = Opening(v) /\ HandleValue(v) /\ ref_stack' = Append(ref_stack, ValueNode) /\ UNCHANGED object_element
  BY DEF Start
<1>4. v \in Nodes /\ DOMAIN Slots(v) = {} /\ v.type \in {"array", "object"}
  BY DEF Fresh, Opens
<1>. HIDE DEF t, f
<1>5. /\ a \in Behind
      /\ \A ns, refs, el, E, Q, g : Structured(ns, refs, E, Q, g) /\ Begun(ns, refs, Q, g, v)
                                      => Parsing(a, ns, refs, el, E, Q, g)
  <2>1. a \in Behind
    BY DEF Behind
  <2>2. ASSUME NEW ns, NEW refs, NEW el, NEW E, NEW Q, NEW g, Structured(ns, refs, E, Q, g),
               Begun(ns, refs, Q, g, v)
        PROVE  Parsing(a, ns, refs, el, E, Q, g)
    <3>1. a = "first key" => Begun(ns, refs, Q, g, ObjectValue(NoMembers))
      <4>1. ObjectValue(NoMembers).type = "object"
        BY DEF ObjectValue
      <4>. QED
        BY <2>2, <4>1, Zenon DEF Begun
    <3>2. a = "first item" => Begun(ns, refs, Q, g, ArrayValue(<<>>))
      <4>1. ArrayValue(<<>>).type = "array"
        BY DEF ArrayValue
      <4>. QED
        BY <2>2, <4>1, Zenon DEF Begun
    <3>. QED
      BY <2>2, <3>1, <3>2 DEF Parsing
  <2>. QED
    BY <2>1, <2>2
<1>6. CASE ref_stack = <<>>
  <2>1. nodes = <<>> /\ f = <<>>
    BY <1>2, <1>6 DEF Waiting
  <2>2. nodes' = <<v>> /\ got = <<t>> /\ ref_stack' = <<1>>
    <3>1. nodes' = <<v>> /\ ValueNode = 1
      BY <1>3, <1>6, <2>1, RootHandled
    <3>. QED
      BY <1>1, <1>3, <1>6, <2>1, <3>1, AppendedTwo
  <2>3. Structured(<<v>>, <<1>>, <<v>>, <<1>>, <<t>>) /\ Begun(<<v>>, <<1>>, <<1>>, <<t>>, v)
    BY <1>1, <1>3, <1>4, RootOpening
  <2>4. Parsing(a, <<v>>, <<1>>, object_element, <<v>>, <<1>>, <<t>>)
    BY <1>5, <2>3
  <2>5. Stacked(<<v>>, <<1>>, states, Len(<<1>>) - 1)
    <3>1. Len(<<1>>) - 1 = 0 /\ Len(<<>>) = 0
      BY ShortLengths, Zenon
    <3>2. states \in Seq({"array", "object"}) /\ Len(states) = 0
      BY <1>1, <1>6, <3>1, Zenon DEF Stacked
    <3>3. Stacked(<<v>>, <<1>>, states, 0)
      BY <3>2, NoneStacked
    <3>. QED
      BY <3>1, <3>3, Zenon
  <2>6. Stage(a, <<v>>, <<1>>, object_element, states, <<t>>)
    BY <1>5, <2>4, <2>5, Zenon DEF Stage
  <2>. QED
    BY <1>3, <1>4, <2>2, <2>6, Stays
<1>7. CASE ref_stack # <<>>
  <2>1. PICK j : /\ Place(nodes[ref_stack[Len(ref_stack)]], object_element, j)
                 /\ AwaitsAt(nodes, ref_stack, D, P, f, j)
    BY <1>2, <1>7 DEF Waiting
  <2>2. Holds(nodes, nodes', ref_stack, j, ValueNode, v)
    BY <1>2, <1>3, <1>7, <2>1, HandledGrown
  <2>. DEFINE E == Put(D, ValueNode, v)
              q == Append(ref_stack, ValueNode)
              Q == Append(P, Len(Append(f, t)))
  <2>3. Structured(nodes', q, E, Q, Append(f, t)) /\ Begun(nodes', q, Q, Append(f, t), v)
    BY <1>1, <1>2, <1>3, <2>1, <2>2, TakesOpening
  <2>4. Stacked(nodes', q, states, Len(q) - 1)
    BY <1>1, <1>2, <2>2, SameStacked
  <2>. HIDE DEF E, q, Q
  <2>5. Parsing(a, nodes', q, object_element, E, Q, got)
    BY <1>1, <1>5, <2>3
  <2>6. Stage(a, nodes', q, object_element, states, got)
    BY <1>5, <2>4, <2>5, Zenon DEF Stage
  <2>. QED
    BY <1>3, <1>4, <2>6, Stays DEF q
<1>. QED
  BY <1>6, <1>7

LEMMA ValueReads == ParseInv /\ Value => ParseInv'
<1>. SUFFICES ASSUME ParseInv, Value
     PROVE  ParseInv'
  OBVIOUS
<1>. DEFINE t == Last(got)
            o == [type |-> "object", members |-> NoMembers]
            b == [type |-> "array", items |-> <<>>]
<1>1. at = "value" /\ UNCHANGED got
  BY DEF Value
<1>2. \/ t = Sign("begin_object") /\ Start(o) /\ at' = "first key" /\ UNCHANGED <<states, result>>
      \/ t = Sign("begin_array") /\ Start(b) /\ at' = "first item" /\ UNCHANGED <<states, result>>
      \/ /\ t \in Scalars /\ t.type # "overflow" /\ HandleValue(t)
         /\ at' = "evaluation" /\ UNCHANGED <<states, ref_stack, object_element, result>>
      \/ at' = "end" /\ result' # "value"
  BY Zenon DEF Value, Fails
<1>3. Fresh(o) /\ Opens(o) /\ Opening(o) = Sign("begin_object") /\ o.type = "object"
  <2>1. NoMembers \in UNION {[K -> Nat] : K \in SUBSET Strings} /\ DOMAIN NoMembers = {}
    <3>1. NoMembers \in [{} -> Nat] /\ {} \in SUBSET Strings
      BY DEF NoMembers
    <3>. QED
      BY <3>1
  <2>2. o = ObjectValue(NoMembers)
    BY DEF ObjectValue
  <2>3. o \in Nodes /\ o.type = "object" /\ Slots(o) = NoMembers
    BY <2>1, <2>2, MemberNodes, Zenon
  <2>. HIDE DEF o
  <2>. QED
    BY <2>1, <2>3 DEF Fresh, Opens, Opening
<1>4. Fresh(b) /\ Opens(b) /\ Opening(b) = Sign("begin_array") /\ b.type = "array"
  <2>1. <<>> \in Seq(Nat) /\ DOMAIN <<>> = {}
    OBVIOUS
  <2>2. b = ArrayValue(<<>>)
    BY DEF ArrayValue
  <2>3. b \in Nodes /\ b.type = "array" /\ Slots(b) = <<>>
    BY <2>1, <2>2, MemberNodes, Zenon
  <2>. HIDE DEF b
  <2>. QED
    BY <2>1, <2>3 DEF Fresh, Opens, Opening
<1>. HIDE DEF o, b
<1>5. CASE t = Sign("begin_object") /\ Start(o) /\ at' = "first key" /\ UNCHANGED <<states, result>>
  BY <1>1, <1>3, <1>5, OpeningRead
<1>6. CASE t = Sign("begin_array") /\ Start(b) /\ at' = "first item" /\ UNCHANGED <<states, result>>
  BY <1>1, <1>4, <1>6, OpeningRead
<1>7. CASE /\ t \in Scalars /\ t.type # "overflow" /\ HandleValue(t)
           /\ at' = "evaluation" /\ UNCHANGED <<states, ref_stack, object_element, result>>
  BY <1>1, <1>7, ScalarRead
<1>8. CASE at' = "end" /\ result' # "value"
  BY <1>1, <1>8 DEF ParseInv
<1>. QED
  BY <1>2, <1>5, <1>6, <1>7, <1>8

(* Every run: where the loop of sax_parse_internal is, the arrays and      *)
(* objects on ref_stack, the flags of states and the node under            *)
(* construction are what the tokens read so far say (json_sax_dom_parser). *)
THEOREM ParserInvariance == ParserSpec => []ParseInv
<1>1. ParserInit => ParseInv
  BY ParserBegins
<1>2. ParseInv /\ [ParserNext]_parserVars => ParseInv'
  <2>. SUFFICES ASSUME ParseInv, [ParserNext]_parserVars
       PROVE  ParseInv'
    OBVIOUS
  <2>1. CASE ParserNext
    BY <2>1, FirstTokenReads, ValueReads, FirstKeyReads, FirstItemReads, NameSeparatorReads,
       InArrayReads, InObjectReads, NextKeyReads, EndOfInputReads DEF ParserNext
  <2>2. CASE UNCHANGED parserVars
    BY <2>2 DEF parserVars, ParseInv
  <2>. QED
    BY <2>1, <2>2
<1>. QED
  BY <1>1, <1>2, PTL DEF ParserSpec

Trees(f) == f = [n \in DOMAIN nodes |-> ValueOf(f, n)]

LEMMA ValueAtChosen == ValueAt = (CHOOSE f : Trees(f))[1]
  BY DEF ValueAt, Trees

(* The value of a node, as its meaning.                                    *)
LEMMA ValueOfIs ==
    ASSUME nodes \in Seq(Nodes), NEW n \in DOMAIN nodes, NEW f
    PROVE  ValueOf(f, n) = Meaning(nodes[n], f)
<1>. DEFINE v == nodes[n]
<1>1. v \in Nodes
  OBVIOUS
<1>. HIDE DEF v
<1>2. /\ v.type = "array" => v.items \in Seq(Nat) /\ Slots(v) = v.items /\ v = ArrayValue(v.items)
      /\ v.type = "object" => Slots(v) = v.members /\ v = ObjectValue(v.members)
  BY <1>1, NodeFacts, Zenon
<1>3. CASE v.type = "array"
  <2>. DEFINE s == v.items
              x == [i \in DOMAIN s |-> f[s[i]]]
  <2>1. v = ArrayValue(s) /\ Slots(v) = s
    BY <1>2, <1>3
  <2>2. Meaning(v, f) = ArrayValue(x)
    BY <1>3, <2>1 DEF Meaning, Inside
  <2>3. ValueOf(f, n) = [v EXCEPT !.items = x]
    BY <1>3 DEF ValueOf, v
  <2>. HIDE DEF x, s
  <2>4. [v EXCEPT !.items = x] = ArrayValue(x)
    BY <2>1 DEF ArrayValue
  <2>. QED
    BY <2>2, <2>3, <2>4 DEF v
<1>4. CASE v.type = "object"
  <2>. DEFINE s == v.members
              x == [i \in DOMAIN s |-> f[s[i]]]
  <2>1. v = ObjectValue(s) /\ Slots(v) = s
    BY <1>2, <1>4
  <2>2. Meaning(v, f) = ObjectValue(x)
    BY <1>4, <2>1 DEF Meaning, Inside
  <2>3. ValueOf(f, n) = [v EXCEPT !.members = x]
    BY <1>4 DEF ValueOf, v
  <2>. HIDE DEF x, s
  <2>4. [v EXCEPT !.members = x] = ObjectValue(x)
    BY <2>1 DEF ObjectValue
  <2>. QED
    BY <2>2, <2>3, <2>4 DEF v
<1>5. CASE v.type \notin {"array", "object"}
  BY <1>5 DEF ValueOf, Meaning, v
<1>. QED
  BY <1>3, <1>4, <1>5

LEMMA SameMeaning ==
    ASSUME NodesOK(nodes), NEW f, NEW g, NEW m \in 1 .. Len(nodes),
           \A k \in m + 1 .. Len(nodes) : f[k] = g[k]
    PROVE  Meaning(nodes[m], f) = Meaning(nodes[m], g)
<1>1. \A j \in DOMAIN Slots(nodes[m]) : Slots(nodes[m])[j] \in m + 1 .. Len(nodes)
  BY DEF NodesOK
<1>2. \A j \in DOMAIN Slots(nodes[m]) : f[Slots(nodes[m])[j]] = g[Slots(nodes[m])[j]]
  BY <1>1
<1>. QED
  BY <1>2, SameInside

(* Nodes are below those made before them: their values are unique.        *)
LEMMA TreesSame ==
    ASSUME NodesOK(nodes), NEW f, NEW g, Trees(f), Trees(g)
    PROVE  \A m \in 1 .. Len(nodes) : f[m] = g[m]
<1>1. nodes \in Seq(Nodes) /\ Len(nodes) \in Nat /\ DOMAIN nodes = 1 .. Len(nodes)
  BY DEF NodesOK
<1>2. \A m \in 1 .. Len(nodes) : f[m] = Meaning(nodes[m], f) /\ g[m] = Meaning(nodes[m], g)
  <2>. TAKE m \in 1 .. Len(nodes)
  <2>1. m \in DOMAIN nodes
    BY <1>1
  <2>2. f[m] = ValueOf(f, m)
    BY <2>1, Zenon DEF Trees
  <2>3. g[m] = ValueOf(g, m)
    BY <2>1, Zenon DEF Trees
  <2>. QED
    BY <1>1, <2>1, <2>2, <2>3, ValueOfIs
<1>. DEFINE N == {m \in 1 .. Len(nodes) : f[m] # g[m]}
<1>. SUFFICES ASSUME N # {}
     PROVE  FALSE
  OBVIOUS
<1>3. N \in SUBSET Nat /\ \A y \in N : y =< Len(nodes)
  BY <1>1
<1>. DEFINE a == Max(N)
<1>4. a \in N /\ \A y \in N : y =< a
  <2>. HIDE DEF N
  <2>. QED
    BY <1>1, <1>3, MaxIsGreatest
<1>. HIDE DEF a
<1>5. a \in 1 .. Len(nodes) /\ f[a] # g[a]
  BY <1>4
<1>6. \A k \in a + 1 .. Len(nodes) : f[k] = g[k]
  <2>. SUFFICES ASSUME NEW k \in a + 1 .. Len(nodes), f[k] # g[k]
       PROVE  FALSE
    OBVIOUS
  <2>1. k \in N
    BY <1>1, <1>5
  <2>2. k =< a
    BY <1>4, <2>1
  <2>. QED
    BY <1>1, <1>5, <2>2
<1>7. Meaning(nodes[a], f) = Meaning(nodes[a], g)
  BY <1>5, <1>6, SameMeaning
<1>. QED
  BY <1>2, <1>5, <1>7

LEMMA ValueAtIs ==
    ASSUME NodesOK(nodes), nodes # <<>>, NEW D, ClosedOK(nodes, <<>>, D)
    PROVE  ValueAt = D[1]
<1>1. nodes \in Seq(Nodes) /\ Len(nodes) \in Nat /\ DOMAIN nodes = 1 .. Len(nodes) /\ 1 \in 1 .. Len(nodes)
  BY DEF NodesOK
<1>. DEFINE f == [n \in DOMAIN nodes |-> D[n]]
<1>2. \A m \in 1 .. Len(nodes) : D[m] = Meaning(nodes[m], D)
  <2>1. \A i \in 1 .. Len(<<>>) : FALSE
    OBVIOUS
  <2>. QED
    BY <2>1, Zenon DEF ClosedOK
<1>3. \A n \in DOMAIN nodes : ValueOf(f, n) = D[n]
  <2>. TAKE n \in DOMAIN nodes
  <2>1. ValueOf(f, n) = Meaning(nodes[n], f)
    <3>. HIDE DEF f
    <3>. QED
      BY <1>1, ValueOfIs
  <2>2. \A k \in n + 1 .. Len(nodes) : f[k] = D[k]
    BY <1>1
  <2>. HIDE DEF f
  <2>3. Meaning(nodes[n], f) = Meaning(nodes[n], D)
    BY <1>1, <2>2, SameMeaning
  <2>. QED
    BY <1>1, <1>2, <2>1, <2>3
<1>4. Trees(f)
  <2>1. f = [n \in DOMAIN nodes |-> ValueOf(f, n)]
    <3>1. [n \in DOMAIN nodes |-> D[n]] = [n \in DOMAIN nodes |-> ValueOf(f, n)]
      <4>. HIDE DEF f
      <4>. QED
        BY <1>3, Zenon
    <3>. QED
      BY <3>1
  <2>. HIDE DEF f
  <2>. QED
    BY <2>1 DEF Trees
<1>5. f[1] = D[1]
  BY <1>1
<1>. HIDE DEF f
<1>. DEFINE g == CHOOSE h : Trees(h)
<1>6. Trees(g)
  BY <1>4
<1>. HIDE DEF g
<1>7. g[1] = f[1]
  BY <1>1, <1>4, <1>6, TreesSame
<1>. QED
  BY <1>5, <1>7, ValueAtChosen DEF g

(* A value with the end of the input behind it is a sentence.              *)
LEMMA SentenceIs ==
    ASSUME NEW h, NEW v, IsValue(h, v), Len(h) + 1 =< MaxTokens
    PROVE  Text(Append(h, Sign("end_of_input")), v) \in Sentences
<1>1. h \in Seq(Tokens) /\ Len(h) \in 1 .. MaxTokens /\ Text(h, v) \in Grammar[Len(h)].values
  BY WordsSized
<1>2. Len(h) \in 1 .. MaxTokens - 1
  BY <1>1, ParserAssumption
<1>3. Text(Append(h, Sign("end_of_input")), v)
        = Text(Append(Text(h, v).text, Sign("end_of_input")), Text(h, v).value)
  BY TextFields, Zenon
<1>. DEFINE S(n) == {Text(Append(w.text, Sign("end_of_input")), w.value) : w \in Grammar[n].values}
<1>4. Text(Append(h, Sign("end_of_input")), v) \in S(Len(h))
  <2>. DEFINE V == Grammar[Len(h)].values
              x == Text(h, v)
  <2>1. x \in V
    BY <1>1
  <2>. HIDE DEF V, x
  <2>2. Text(Append(x.text, Sign("end_of_input")), x.value)
           \in {Text(Append(w.text, Sign("end_of_input")), w.value) : w \in V}
    BY <2>1
  <2>. QED
    BY <1>3, <2>2, Zenon DEF V, x
<1>5. Sentences = UNION {S(n) : n \in 1 .. MaxTokens - 1}
  BY DEF Sentences
<1>. HIDE DEF S
<1>. QED
  BY <1>2, <1>4, <1>5, Zenon

LEMMA ParsedIsSentence ==
    ASSUME ParseInv, result = "value"
    PROVE  Text(got, ValueAt) \in Sentences
<1>1. at = "end" /\ Parsed(nodes, ref_stack, got) /\ got \in Seq(Tokens) /\ Len(got) =< MaxTokens
  BY DEF ParseInv
<1>2. PICK D, h : /\ nodes # <<>> /\ NodesOK(nodes) /\ ClosedOK(nodes, <<>>, D)
                  /\ got = Append(h, Sign("end_of_input")) /\ IsValue(h, D[1])
  BY <1>1, Zenon DEF Parsed
<1>3. h \in Seq(Tokens) /\ Len(h) \in 1 .. MaxTokens
  BY <1>2, WordsSized
<1>4. ValueAt = D[1]
  BY <1>2, ValueAtIs
<1>5. Len(h) + 1 =< MaxTokens
  <2>1. Len(got) = Len(h) + 1
    BY <1>2, <1>3
  <2>. QED
    BY <1>1, <2>1
<1>6. Text(Append(h, Sign("end_of_input")), D[1]) \in Sentences
  BY <1>2, <1>5, SentenceIs, Zenon
<1>. QED
  BY <1>2, <1>4, <1>6, Zenon

(* What the texts of n tokens, and their values, are made of.              *)
LEMMA ValueShapes ==
    ASSUME NEW n \in 1 .. MaxTokens, NEW z \in Grammar[n].values
    PROVE  \/ \E t \in Scalars : t.type # "overflow" /\ z.text = <<t>> /\ z.value = t
           \/ z.text = Bracketed(<<>>) /\ z.value = ArrayValue(<<>>)
           \/ z.text = Braced(<<>>) /\ z.value = ObjectValue(NoMembers)
           \/ n - 2 \in 0 .. n - 1 /\ \E x \in Grammar[n - 2].items :
                                        z.text = Bracketed(x.text) /\ z.value = ArrayValue(x.value)
           \/ n - 2 \in 0 .. n - 1 /\ \E x \in Grammar[n - 2].members :
                                        z.text = Braced(x.text) /\ z.value = ObjectValue(x.value)
<1>1. z \in ValueTexts(Grammar, n)
  BY GrammarAt
<1>2. \/ n = 1 /\ z \in Scalar1
      \/ \E x \in Within(Grammar, n).items \cup Nothing(n, <<>>) : z = ArrayOf(x)
      \/ \E x \in Within(Grammar, n).members \cup Nothing(n, NoMembers) : z = ObjectOf(x)
  BY <1>1, Zenon DEF ValueTexts
<1>3. \A x : /\ ArrayOf(x).text = Bracketed(x.text) /\ ArrayOf(x).value = ArrayValue(x.value)
             /\ ObjectOf(x).text = Braced(x.text) /\ ObjectOf(x).value = ObjectValue(x.value)
  BY TextFields, ZenonT(60) DEF ArrayOf, ObjectOf, Around, Bracketed, Braced, ArrayValue, ObjectValue
<1>4. \A v : \A x \in Nothing(n, v) : x.text = <<>> /\ x.value = v
  BY TextFields DEF Nothing
<1>5. \A x : x \in Within(Grammar, n).items => n - 2 \in 0 .. n - 1 /\ x \in Grammar[n - 2].items
  BY DEF Within
<1>6. \A x : x \in Within(Grammar, n).members => n - 2 \in 0 .. n - 1 /\ x \in Grammar[n - 2].members
  BY DEF Within
<1>7. CASE z \in Scalar1
  <2>1. PICK t \in {s \in Scalars : s.type # "overflow"} : z = Text(<<t>>, t)
    BY <1>7 DEF Scalar1
  <2>. QED
    BY <2>1, TextFields
<1>8. CASE \E x \in Within(Grammar, n).items \cup Nothing(n, <<>>) : z = ArrayOf(x)
  <2>1. PICK x \in Within(Grammar, n).items \cup Nothing(n, <<>>) : z = ArrayOf(x)
    BY <1>8
  <2>2. CASE x \in Within(Grammar, n).items
    BY <1>3, <1>5, <2>1, <2>2, Zenon
  <2>3. CASE x \in Nothing(n, <<>>)
    BY <1>3, <1>4, <2>1, <2>3, ZenonT(60)
  <2>. QED
    BY <2>2, <2>3
<1>9. CASE \E x \in Within(Grammar, n).members \cup Nothing(n, NoMembers) : z = ObjectOf(x)
  <2>1. PICK x \in Within(Grammar, n).members \cup Nothing(n, NoMembers) : z = ObjectOf(x)
    BY <1>9
  <2>2. CASE x \in Within(Grammar, n).members
    BY <1>3, <1>6, <2>1, <2>2, Zenon
  <2>3. CASE x \in Nothing(n, NoMembers)
    <3>1. x.text = <<>> /\ x.value = NoMembers
      BY <1>4, <2>3, Zenon
    <3>2. z.text = Braced(<<>>) /\ z.value = ObjectValue(NoMembers)
      BY <1>3, <2>1, <3>1, Zenon
    <3>. QED
      BY <3>2, Zenon
  <2>. QED
    BY <2>2, <2>3
<1>. QED
  BY <1>2, <1>7, <1>8, <1>9

LEMMA ItemShapes ==
    ASSUME NEW n \in 1 .. MaxTokens, NEW z \in Grammar[n].items
    PROVE  \/ \E v \in Grammar[n].values : z.text = v.text /\ z.value = <<v.value>>
           \/ \E k \in 0 .. n - 1, m \in 1 .. n - 1 : \E x \in Grammar[k].items, v \in Grammar[m].values :
                z.text = x.text \o Comma \o v.text /\ z.value = Append(x.value, v.value)
<1>1. z \in ItemTexts(Grammar, n) /\ Grammar[n].values = ValueTexts(Grammar, n)
  BY GrammarAt
<1>2. \/ \E v \in Grammar[n].values : z = Text(v.text, <<v.value>>)
      \/ \E k \in 1 .. n - 2 : z \in MoreItems(Grammar[k].items, ValuesFrom(Grammar, n - k - 1))
  BY <1>1, Zenon DEF ItemTexts
<1>3. CASE \E v \in Grammar[n].values : z = Text(v.text, <<v.value>>)
  <2>1. PICK v \in Grammar[n].values : z = Text(v.text, <<v.value>>)
    BY <1>3
  <2>2. z.text = v.text /\ z.value = <<v.value>>
    BY <2>1, TextFields, Zenon
  <2>. QED
    BY <2>2, Zenon
<1>4. CASE \E k \in 1 .. n - 2 : z \in MoreItems(Grammar[k].items, ValuesFrom(Grammar, n - k - 1))
  <2>1. PICK k \in 1 .. n - 2 : z \in MoreItems(Grammar[k].items, ValuesFrom(Grammar, n - k - 1))
    BY <1>4
  <2>2. PICK x \in Grammar[k].items, v \in ValuesFrom(Grammar, n - k - 1) :
               z = Text(x.text \o Comma \o v.text, Append(x.value, v.value))
    BY <2>1 DEF MoreItems
  <2>3. k \in 0 .. n - 1 /\ n - k - 1 \in 1 .. n - 1 /\ v \in Grammar[n - k - 1].values
    BY DEF ValuesFrom
  <2>4. z.text = x.text \o Comma \o v.text /\ z.value = Append(x.value, v.value)
    BY <2>2, TextFields, Zenon
  <2>. DEFINE m == n - k - 1
  <2>5. m \in 1 .. n - 1 /\ v \in Grammar[m].values
    BY <2>3
  <2>. HIDE DEF m
  <2>. QED
    BY <2>3, <2>4, <2>5, Zenon
<1>. QED
  BY <1>2, <1>3, <1>4

LEMMA SingleShapes ==
    ASSUME NEW n \in 1 .. MaxTokens, NEW z \in SingleTexts(Grammar, n)
    PROVE  n - 2 \in 1 .. n - 1 /\ \E k \in Strings, v \in Grammar[n - 2].values :
                                      z.text = MemberWord(k, v.text) /\ z.value = Put(NoMembers, k, v.value)
<1>1. PICK k \in Strings, v \in ValuesFrom(Grammar, n - 2) : z = MemberOf(k, v)
  BY DEF SingleTexts
<1>2. n - 2 \in 1 .. n - 1 /\ v \in Grammar[n - 2].values
  BY DEF ValuesFrom
<1>3. z.text = MemberWord(k, v.text) /\ z.value = Put(NoMembers, k, v.value)
  BY <1>1, TextFields, Zenon DEF MemberOf, MemberWord
<1>. QED
  BY <1>2, <1>3

LEMMA MemberShapes ==
    ASSUME NEW n \in 1 .. MaxTokens, NEW z \in Grammar[n].members
    PROVE  \/ z \in SingleTexts(Grammar, n)
           \/ \E k \in 0 .. n - 1, m \in 1 .. n - 1 : \E x \in Grammar[k].members, s \in SingleTexts(Grammar, m) :
                z.text = x.text \o Comma \o s.text /\ z.value = Over(s.value, x.value)
<1>1. z \in MemberTexts(Grammar, n)
  BY GrammarAt
<1>2. \/ z \in SingleTexts(Grammar, n)
      \/ \E k \in 1 .. n - 2 : z \in MoreMembers(Grammar[k].members, SingleTexts(Grammar, n - k - 1))
  BY <1>1, Zenon DEF MemberTexts
<1>3. CASE \E k \in 1 .. n - 2 : z \in MoreMembers(Grammar[k].members, SingleTexts(Grammar, n - k - 1))
  <2>1. PICK k \in 1 .. n - 2 : z \in MoreMembers(Grammar[k].members, SingleTexts(Grammar, n - k - 1))
    BY <1>3
  <2>2. PICK x \in Grammar[k].members, s \in SingleTexts(Grammar, n - k - 1) :
               z = Text(x.text \o Comma \o s.text, Over(s.value, x.value))
    BY <2>1 DEF MoreMembers
  <2>. DEFINE m == n - k - 1
  <2>3. k \in 0 .. n - 1 /\ m \in 1 .. n - 1
    OBVIOUS
  <2>4. z.text = x.text \o Comma \o s.text /\ z.value = Over(s.value, x.value) /\ s \in SingleTexts(Grammar, m)
    BY <2>2, TextFields, Zenon
  <2>. HIDE DEF m
  <2>. QED
    BY <2>3, <2>4, Zenon
<1>. QED
  BY <1>2, <1>3

-----------------------------------------------------------------------------
(* The loop without its values: where it is and its stack, token by token. *)
Refused  == <<"refused", <<>>>>
Accepted == <<"accepted", <<>>>>

ValueStep(st, t) ==
    IF t = Sign("begin_object") THEN <<"first key", st>>
    ELSE IF t = Sign("begin_array") THEN <<"first item", st>>
    ELSE IF t \in Scalars /\ t.type # "overflow" THEN <<"evaluation", st>>
    ELSE Refused

KeyStep(st, t) == IF t \in Strings THEN <<"name separator", st>> ELSE Refused

EndStep(st, t) ==
    IF st = <<>> THEN IF t = Sign("end_of_input") THEN Accepted ELSE Refused
    ELSE IF Last(st) = "array"
    THEN IF t = Sign("value_separator") THEN <<"next token", st>>
         ELSE IF t = Sign("end_array") THEN <<"evaluation", Front(st)>> ELSE Refused
    ELSE IF t = Sign("value_separator") THEN <<"next key", st>>
         ELSE IF t = Sign("end_object") THEN <<"evaluation", Front(st)>> ELSE Refused

StepAt(a, st, t) ==
    CASE a \in {"first token", "next token"} -> ValueStep(st, t)
      [] a = "first item" -> IF t = Sign("end_array") THEN <<"evaluation", st>>
                             ELSE ValueStep(Append(st, "array"), t)
      [] a = "first key" -> IF t = Sign("end_object") THEN <<"evaluation", st>>
                            ELSE KeyStep(Append(st, "object"), t)
      [] a = "name separator" -> IF t = Sign("name_separator") THEN <<"next token", st>> ELSE Refused
      [] a = "next key" -> KeyStep(st, t)
      [] a = "evaluation" -> EndStep(st, t)
      [] OTHER -> Refused
StepOf(c, t) == StepAt(c[1], c[2], t)

LEMMA StepIs == \A a, st, t : StepOf(<<a, st>>, t) = StepAt(a, st, t)
  BY DEF StepOf

(* The path it takes along a text.                                         *)
Path(p, x) == \A i \in 1 .. Len(x) : p[i] = StepOf(p[i - 1], x[i])
Drives(c, x, d) == \E p : Path(p, x) /\ p[0] = c /\ p[Len(x)] = d

LEMMA DrivesNone == \A c : Drives(c, <<>>, c)
<1>. TAKE c
<1>. DEFINE p == [i \in {0} |-> c]
<1>1. p[0] = c /\ Len(<<>>) = 0
  OBVIOUS
<1>2. \A i \in 1 .. 0 : FALSE
  OBVIOUS
<1>. HIDE DEF p
<1>3. Path(p, <<>>)
  BY <1>1, <1>2 DEF Path
<1>. QED
  BY <1>1, <1>3 DEF Drives

LEMMA DrivesMore ==
    ASSUME NEW c, NEW x \in Seq(Tokens), NEW d, Drives(c, x, d), NEW t \in Tokens
    PROVE  Drives(c, Append(x, t), StepOf(d, t))
<1>1. PICK p : Path(p, x) /\ p[0] = c /\ p[Len(x)] = d
  BY Zenon DEF Drives
<1>. DEFINE n == Len(x)
            e == StepOf(d, t)
            y == Append(x, t)
            q == [i \in 0 .. n + 1 |-> IF i = n + 1 THEN e ELSE p[i]]
<1>2. n \in Nat /\ Len(y) = n + 1 /\ y[n + 1] = t /\ \A i \in 1 .. n : y[i] = x[i]
  BY Appended
<1>. HIDE DEF n, e, y
<1>3. q[n + 1] = e /\ \A i \in 0 .. n : q[i] = p[i]
  BY <1>2
<1>. HIDE DEF q
<1>4. q[0] = c /\ q[n] = d
  BY <1>1, <1>2, <1>3 DEF n
<1>5. ASSUME NEW i \in 1 .. Len(y)
      PROVE  q[i] = StepOf(q[i - 1], y[i])
  <2>1. CASE i = n + 1
    <3>1. i - 1 = n
      BY <1>2, <2>1
    <3>. QED
      BY <1>2, <1>3, <1>4, <2>1, <3>1 DEF e
  <2>2. CASE i # n + 1
    <3>1. i \in 1 .. n /\ i \in 0 .. n /\ i - 1 \in 0 .. n
      BY <1>2, <2>2
    <3>2. p[i] = StepOf(p[i - 1], x[i])
      BY <1>1, <3>1 DEF Path, n
    <3>. QED
      BY <1>2, <1>3, <3>1, <3>2
  <2>. QED
    BY <2>1, <2>2
<1>6. Path(q, y)
  BY <1>5 DEF Path
<1>. QED
  BY <1>2, <1>3, <1>4, <1>6 DEF Drives, e, y

LEMMA DrivesOne == \A c : \A t \in Tokens : Drives(c, <<t>>, StepOf(c, t))
<1>. TAKE c
<1>. TAKE t \in Tokens
<1>1. <<>> \in Seq(Tokens)
  OBVIOUS
<1>2. Drives(c, Append(<<>>, t), StepOf(c, t))
  BY <1>1, DrivesNone, DrivesMore
<1>. QED
  BY <1>2, AppendedTwo

LEMMA DrivesJoin ==
    ASSUME NEW c, NEW x \in Seq(Tokens), NEW d, Drives(c, x, d), NEW y \in Seq(Tokens), NEW e, Drives(d, y, e)
    PROVE  Drives(c, x \o y, e)
<1>1. PICK p : Path(p, x) /\ p[0] = c /\ p[Len(x)] = d
  BY Zenon DEF Drives
<1>2. PICK q : Path(q, y) /\ q[0] = d /\ q[Len(y)] = e
  BY Zenon DEF Drives
<1>. DEFINE n == Len(x)
            m == Len(y)
            z == x \o y
            r == [i \in 0 .. n + m |-> IF i =< n THEN p[i] ELSE q[i - n]]
<1>3. /\ n \in Nat /\ m \in Nat /\ Len(z) = n + m /\ \A i \in 1 .. n : z[i] = x[i]
      /\ \A i \in 1 .. m : z[n + i] = y[i]
  BY JoinedText DEF Joined
<1>. HIDE DEF n, m, z
<1>4. /\ \A i \in 0 .. n + m : i =< n => r[i] = p[i]
      /\ \A i \in 0 .. n + m : ~(i =< n) => r[i] = q[i - n]
  BY <1>3
<1>. HIDE DEF r
<1>5. r[0] = c /\ r[n] = d
  BY <1>1, <1>3, <1>4 DEF n
<1>6. \A i \in 0 .. n + m : n =< i => r[i] = q[i - n]
  <2>. TAKE i \in 0 .. n + m
  <2>. HAVE n =< i
  <2>1. CASE i = n
    <3>1. i - n = 0
      BY <1>3, <2>1
    <3>. QED
      BY <1>2, <1>5, <2>1, <3>1
  <2>2. CASE i # n
    BY <1>3, <1>4, <2>2
  <2>. QED
    BY <2>1, <2>2
<1>7. r[n + m] = e
  <2>1. (n + m) - n = m /\ n + m \in 0 .. n + m /\ n =< n + m
    BY <1>3
  <2>. QED
    BY <1>2, <1>6, <2>1 DEF m
<1>8. ASSUME NEW i \in 1 .. n + m
      PROVE  r[i] = StepOf(r[i - 1], z[i])
  <2>1. CASE i =< n
    <3>1. i \in 1 .. n /\ i \in 0 .. n + m /\ i - 1 \in 0 .. n + m /\ i - 1 =< n
      BY <1>3, <2>1
    <3>2. p[i] = StepOf(p[i - 1], x[i])
      BY <1>1, <3>1 DEF Path, n
    <3>3. r[i] = p[i] /\ r[i - 1] = p[i - 1] /\ z[i] = x[i]
      BY <1>3, <1>4, <2>1, <3>1
    <3>. QED
      BY <3>2, <3>3
  <2>2. CASE ~(i =< n)
    <3>. DEFINE k == i - n
    <3>1. k \in 1 .. m /\ n + k = i /\ i \in 0 .. n + m /\ i - 1 \in 0 .. n + m /\ n =< i - 1 /\ (i - 1) - n = k - 1
      BY <1>3, <2>2
    <3>2. q[k] = StepOf(q[k - 1], y[k])
      BY <1>2, <3>1 DEF Path, m
    <3>3. r[i] = q[k]
      BY <1>4, <2>2, <3>1
    <3>4. r[i - 1] = q[k - 1]
      <4>1. r[i - 1] = q[(i - 1) - n]
        BY <1>6, <3>1
      <4>. QED
        BY <3>1, <4>1
    <3>5. z[i] = y[k]
      <4>. HIDE DEF k
      <4>1. z[n + k] = y[k]
        BY <1>3, <3>1
      <4>. QED
        BY <3>1, <4>1
    <3>. QED
      BY <3>2, <3>3, <3>4, <3>5
  <2>. QED
    BY <2>1, <2>2
<1>9. Path(r, z)
  BY <1>3, <1>8 DEF Path
<1>. QED
  BY <1>3, <1>5, <1>7, <1>9 DEF Drives, z

Kinds == {"array", "object"}
Firsts == {t \in Scalars : t.type # "overflow"} \cup {Sign("begin_array"), Sign("begin_object")}

(* A value, or a key, is what the loop waits for.                          *)
Expects(c, st) == st \in Seq(Kinds) /\ \A t \in Firsts : StepOf(c, t) = ValueStep(st, t)
ExpectsKey(c, st) ==
    /\ st \in Seq(Kinds) /\ st # <<>> /\ Last(st) = "object"
    /\ \A k \in Strings : StepOf(c, k) = <<"name separator", st>>

(* Texts that the loop reads as a value, as items, as members.             *)
ReadsValue(x) == \A c, st : Expects(c, st) => Drives(c, x, <<"evaluation", st>>)
ReadsItems(x) ==
    \A c, st : Expects(c, st) /\ st # <<>> /\ Last(st) = "array" => Drives(c, x, <<"evaluation", st>>)
ReadsMembers(x) == \A c, st : ExpectsKey(c, st) => Drives(c, x, <<"evaluation", st>>)

LEMMA SignsDiffer ==
    /\ \A s \in Signs : Sign(s) \notin Scalars /\ Sign(s) \notin Strings /\ Sign(s).type = s
    /\ \A s, u \in Signs : Sign(s) = Sign(u) => s = u
<1>1. \A s : Sign(s).type = s
  BY DEF Sign
<1>2. \A s \in Signs : Sign(s) \notin Scalars
  BY <1>1, ParserAssumption
<1>. QED
  BY <1>1, <1>2, ParserAssumption

LEMMA SignNames ==
    {"begin_object", "end_object", "begin_array", "end_array", "name_separator", "value_separator",
     "end_of_input"} \subseteq Signs
  BY DEF Signs

LEMMA Pushed ==
    ASSUME NEW st \in Seq(Kinds), NEW x \in Kinds
    PROVE  /\ Append(st, x) \in Seq(Kinds) /\ Append(st, x) # <<>> /\ Last(Append(st, x)) = x
           /\ Front(Append(st, x)) = st
<1>. DEFINE q == Append(st, x)
            f == Front(q)
<1>1. /\ q \in Seq(Kinds) /\ q # <<>> /\ Len(st) \in Nat /\ Len(q) = Len(st) + 1 /\ q[Len(st) + 1] = x
      /\ \A i \in 1 .. Len(st) : q[i] = st[i]
  BY Appended
<1>. HIDE DEF q
<1>2. /\ f \in Seq(Kinds) /\ Len(f) = Len(q) - 1 /\ \A i \in 1 .. Len(q) - 1 : f[i] = q[i]
      /\ Last(q) = q[Len(q)]
  BY <1>1, FrontIs
<1>. HIDE DEF f
<1>3. Len(f) = Len(st) /\ \A i \in 1 .. Len(f) : f[i] = st[i]
  BY <1>1, <1>2
<1>4. f = st
  BY <1>2, <1>3, SameElements
<1>. QED
  BY <1>1, <1>2, <1>4 DEF q, f

LEMMA Expecting ==
    ASSUME NEW st \in Seq(Kinds)
    PROVE  /\ Expects(<<"first token", st>>, st) /\ Expects(<<"next token", st>>, st)
           /\ Expects(<<"first item", st>>, Append(st, "array"))
           /\ ExpectsKey(<<"first key", st>>, Append(st, "object"))
           /\ st # <<>> /\ Last(st) = "object" => ExpectsKey(<<"next key", st>>, st)
<1>1. /\ Append(st, "array") \in Seq(Kinds)
      /\ Append(st, "object") \in Seq(Kinds) /\ Append(st, "object") # <<>> /\ Last(Append(st, "object")) = "object"
  BY Pushed DEF Kinds
<1>2. /\ \A t \in Firsts : t # Sign("end_array")
      /\ \A k \in Strings : k # Sign("end_object")
  BY SignsDiffer, SignNames DEF Firsts
<1>3. \A t : /\ StepOf(<<"first token", st>>, t) = ValueStep(st, t)
             /\ StepOf(<<"next token", st>>, t) = ValueStep(st, t)
  <2>1. \A t : StepAt("first token", st, t) = ValueStep(st, t) /\ StepAt("next token", st, t) = ValueStep(st, t)
    BY DEF StepAt
  <2>. QED
    BY <2>1, StepIs, Zenon
<1>4. \A t : t # Sign("end_array") => StepOf(<<"first item", st>>, t) = ValueStep(Append(st, "array"), t)
  <2>1. \A t : StepAt("first item", st, t) = IF t = Sign("end_array") THEN <<"evaluation", st>>
                                              ELSE ValueStep(Append(st, "array"), t)
    BY DEF StepAt
  <2>. QED
    BY <2>1, StepIs, Zenon
<1>5. \A t : t # Sign("end_object") => StepOf(<<"first key", st>>, t) = KeyStep(Append(st, "object"), t)
  <2>1. \A t : StepAt("first key", st, t) = IF t = Sign("end_object") THEN <<"evaluation", st>>
                                             ELSE KeyStep(Append(st, "object"), t)
    BY DEF StepAt
  <2>. QED
    BY <2>1, StepIs, Zenon
<1>6. \A t : StepOf(<<"next key", st>>, t) = KeyStep(st, t)
  <2>1. \A t : StepAt("next key", st, t) = KeyStep(st, t)
    BY DEF StepAt
  <2>. QED
    BY <2>1, StepIs, Zenon
<1>7. Expects(<<"first token", st>>, st) /\ Expects(<<"next token", st>>, st)
  BY <1>3, Zenon DEF Expects
<1>8. Expects(<<"first item", st>>, Append(st, "array"))
  BY <1>1, <1>2, <1>4, Zenon DEF Expects
<1>9. ExpectsKey(<<"first key", st>>, Append(st, "object"))
  BY <1>1, <1>2, <1>5, Zenon DEF ExpectsKey, KeyStep
<1>10. st # <<>> /\ Last(st) = "object" => ExpectsKey(<<"next key", st>>, st)
  BY <1>6, Zenon DEF ExpectsKey, KeyStep
<1>. QED
  BY <1>7, <1>8, <1>9, <1>10

(* The steps of the texts' signs.                                          *)
LEMMA SignSteps ==
    ASSUME NEW st \in Seq(Kinds)
    PROVE  /\ ValueStep(st, Sign("begin_array")) = <<"first item", st>>
           /\ ValueStep(st, Sign("begin_object")) = <<"first key", st>>
           /\ StepOf(<<"first item", st>>, Sign("end_array")) = <<"evaluation", st>>
           /\ StepOf(<<"first key", st>>, Sign("end_object")) = <<"evaluation", st>>
           /\ StepOf(<<"name separator", st>>, Sign("name_separator")) = <<"next token", st>>
           /\ StepOf(<<"evaluation", Append(st, "array")>>, Sign("end_array")) = <<"evaluation", st>>
           /\ StepOf(<<"evaluation", Append(st, "object")>>, Sign("end_object")) = <<"evaluation", st>>
           /\ st # <<>> /\ Last(st) = "array" =>
                StepOf(<<"evaluation", st>>, Sign("value_separator")) = <<"next token", st>>
           /\ st # <<>> /\ Last(st) = "object" =>
                StepOf(<<"evaluation", st>>, Sign("value_separator")) = <<"next key", st>>
           /\ StepOf(<<"evaluation", <<>>>>, Sign("end_of_input")) = Accepted
<1>1. /\ Sign("begin_array") # Sign("begin_object") /\ Sign("end_array") # Sign("value_separator")
      /\ Sign("end_object") # Sign("value_separator")
  BY DEF Sign
<1>2. /\ ValueStep(st, Sign("begin_array")) = <<"first item", st>>
      /\ ValueStep(st, Sign("begin_object")) = <<"first key", st>>
  BY <1>1, Zenon DEF ValueStep
<1>3. /\ StepAt("first item", st, Sign("end_array")) = <<"evaluation", st>>
      /\ StepAt("first key", st, Sign("end_object")) = <<"evaluation", st>>
      /\ StepAt("name separator", st, Sign("name_separator")) = <<"next token", st>>
  BY DEF StepAt
<1>4. \A s, t : StepAt("evaluation", s, t) = EndStep(s, t)
  BY DEF StepAt
<1>5. /\ Append(st, "array") # <<>> /\ Last(Append(st, "array")) = "array" /\ Front(Append(st, "array")) = st
      /\ Append(st, "object") # <<>> /\ Last(Append(st, "object")) = "object" /\ Front(Append(st, "object")) = st
  BY Pushed DEF Kinds
<1>6. /\ EndStep(Append(st, "array"), Sign("end_array")) = <<"evaluation", st>>
      /\ EndStep(Append(st, "object"), Sign("end_object")) = <<"evaluation", st>>
  <2>1. "array" # "object"
    OBVIOUS
  <2>. QED
    BY <1>1, <1>5, <2>1, Zenon DEF EndStep
<1>7. /\ st # <<>> /\ Last(st) = "array" => EndStep(st, Sign("value_separator")) = <<"next token", st>>
      /\ st # <<>> /\ Last(st) = "object" => EndStep(st, Sign("value_separator")) = <<"next key", st>>
      /\ EndStep(<<>>, Sign("end_of_input")) = Accepted
  BY DEF EndStep
<1>8. /\ StepOf(<<"first item", st>>, Sign("end_array")) = <<"evaluation", st>>
      /\ StepOf(<<"first key", st>>, Sign("end_object")) = <<"evaluation", st>>
      /\ StepOf(<<"name separator", st>>, Sign("name_separator")) = <<"next token", st>>
  BY <1>3, StepIs, Zenon
<1>9. \A s, t : StepOf(<<"evaluation", s>>, t) = EndStep(s, t)
  BY <1>4, StepIs, Zenon
<1>. QED
  BY <1>2, <1>6, <1>7, <1>8, <1>9

-----------------------------------------------------------------------------
LEMMA ScalarReads ==
    ASSUME NEW t \in Scalars, t.type # "overflow"
    PROVE  ReadsValue(<<t>>)
<1>1. t \in Firsts /\ t \in Tokens
  BY SignsAreTokens DEF Firsts
<1>2. t # Sign("begin_object") /\ t # Sign("begin_array")
  BY SignsDiffer, SignNames
<1>3. \A st : ValueStep(st, t) = <<"evaluation", st>>
  BY <1>2, Zenon DEF ValueStep
<1>4. ASSUME NEW c, NEW st, Expects(c, st)
      PROVE  Drives(c, <<t>>, <<"evaluation", st>>)
  <2>1. StepOf(c, t) = <<"evaluation", st>>
    BY <1>1, <1>3, <1>4 DEF Expects
  <2>. QED
    BY <1>1, <2>1, DrivesOne
<1>. QED
  BY <1>4, Zenon DEF ReadsValue

(* A text between two signs, when it drives from what the first one leads  *)
(* to to where the second one ends the structure.                          *)
LEMMA AroundReads ==
    ASSUME NEW x \in Seq(Tokens), NEW c, NEW o \in Tokens, NEW e \in Tokens, NEW d,
           Drives(StepOf(c, o), x, d)
    PROVE  Drives(c, <<o>> \o x \o <<e>>, StepOf(d, e))
<1>1. <<o>> \in Seq(Tokens) /\ <<e>> \in Seq(Tokens)
  BY OneElement
<1>2. Drives(c, <<o>>, StepOf(c, o)) /\ Drives(d, <<e>>, StepOf(d, e))
  BY DrivesOne
<1>. DEFINE a == <<o>>
            b == StepOf(c, o)
<1>. HIDE DEF a, b
<1>3. Drives(c, a \o x, d) /\ a \o x \in Seq(Tokens)
  <2>1. a \in Seq(Tokens) /\ Drives(c, a, b) /\ Drives(b, x, d)
    BY <1>1, <1>2 DEF a, b
  <2>. QED
    BY <2>1, DrivesJoin, JoinedText
<1>4. Drives(c, (a \o x) \o <<e>>, StepOf(d, e))
  BY <1>1, <1>2, <1>3, DrivesJoin
<1>. QED
  BY <1>4 DEF a

LEMMA BracketedReads ==
    ASSUME NEW x \in Seq(Tokens), ReadsItems(x) \/ x = <<>>
    PROVE  ReadsValue(Bracketed(x))
<1>1. Sign("begin_array") \in Tokens /\ Sign("end_array") \in Tokens /\ Sign("begin_array") \in Firsts
  BY SignsAreTokens, SignNames DEF Firsts
<1>2. ASSUME NEW c, NEW st, Expects(c, st)
      PROVE  Drives(c, Bracketed(x), <<"evaluation", st>>)
  <2>1. st \in Seq(Kinds) /\ StepOf(c, Sign("begin_array")) = <<"first item", st>>
    BY <1>1, <1>2, SignSteps DEF Expects
  <2>2. CASE ReadsItems(x)
    <3>. DEFINE q == Append(st, "array")
    <3>1. Expects(<<"first item", st>>, q) /\ q # <<>> /\ Last(q) = "array"
      BY <2>1, Expecting, Pushed DEF Kinds
    <3>2. Drives(StepOf(c, Sign("begin_array")), x, <<"evaluation", q>>)
      BY <2>1, <2>2, <3>1, Zenon DEF ReadsItems
    <3>3. StepOf(<<"evaluation", q>>, Sign("end_array")) = <<"evaluation", st>>
      BY <2>1, SignSteps
    <3>. QED
      BY <1>1, <3>2, <3>3, AroundReads DEF Bracketed
  <2>3. CASE x = <<>>
    <3>1. Drives(StepOf(c, Sign("begin_array")), x, <<"first item", st>>)
      BY <2>1, <2>3, DrivesNone
    <3>2. StepOf(<<"first item", st>>, Sign("end_array")) = <<"evaluation", st>>
      BY <2>1, SignSteps
    <3>. QED
      BY <1>1, <3>1, <3>2, AroundReads DEF Bracketed
  <2>. QED
    BY <2>2, <2>3
<1>. QED
  BY <1>2, Zenon DEF ReadsValue

LEMMA BracedReads ==
    ASSUME NEW x \in Seq(Tokens), ReadsMembers(x) \/ x = <<>>
    PROVE  ReadsValue(Braced(x))
<1>1. Sign("begin_object") \in Tokens /\ Sign("end_object") \in Tokens /\ Sign("begin_object") \in Firsts
  BY SignsAreTokens, SignNames DEF Firsts
<1>2. ASSUME NEW c, NEW st, Expects(c, st)
      PROVE  Drives(c, Braced(x), <<"evaluation", st>>)
  <2>1. st \in Seq(Kinds) /\ StepOf(c, Sign("begin_object")) = <<"first key", st>>
    BY <1>1, <1>2, SignSteps DEF Expects
  <2>2. CASE ReadsMembers(x)
    <3>. DEFINE q == Append(st, "object")
    <3>1. ExpectsKey(<<"first key", st>>, q)
      BY <2>1, Expecting
    <3>2. Drives(StepOf(c, Sign("begin_object")), x, <<"evaluation", q>>)
      BY <2>1, <2>2, <3>1, Zenon DEF ReadsMembers
    <3>3. StepOf(<<"evaluation", q>>, Sign("end_object")) = <<"evaluation", st>>
      BY <2>1, SignSteps
    <3>. QED
      BY <1>1, <3>2, <3>3, AroundReads DEF Braced
  <2>3. CASE x = <<>>
    <3>1. Drives(StepOf(c, Sign("begin_object")), x, <<"first key", st>>)
      BY <2>1, <2>3, DrivesNone
    <3>2. StepOf(<<"first key", st>>, Sign("end_object")) = <<"evaluation", st>>
      BY <2>1, SignSteps
    <3>. QED
      BY <1>1, <3>1, <3>2, AroundReads DEF Braced
  <2>. QED
    BY <2>2, <2>3
<1>. QED
  BY <1>2, Zenon DEF ReadsValue

(* A text, a comma and a text.                                             *)
LEMMA CommaReads ==
    ASSUME NEW x \in Seq(Tokens), NEW y \in Seq(Tokens), NEW c, NEW d, NEW e,
           Drives(c, x, d), Drives(StepOf(d, Sign("value_separator")), y, e)
    PROVE  Drives(c, x \o Comma \o y, e)
<1>1. Sign("value_separator") \in Tokens
  BY SignsAreTokens, SignNames
<1>2. Comma \in Seq(Tokens) /\ Drives(d, Comma, StepOf(d, Sign("value_separator")))
  BY <1>1, OneElement, DrivesOne DEF Comma
<1>. HIDE DEF Comma
<1>3. Drives(c, x \o Comma, StepOf(d, Sign("value_separator"))) /\ x \o Comma \in Seq(Tokens)
  BY <1>2, DrivesJoin
<1>. QED
  BY <1>3, DrivesJoin

LEMMA MoreItemsRead ==
    ASSUME NEW x \in Seq(Tokens), NEW y \in Seq(Tokens), ReadsItems(x), ReadsValue(y)
    PROVE  ReadsItems(x \o Comma \o y)
<1>1. ASSUME NEW c, NEW st, Expects(c, st), st # <<>>, Last(st) = "array"
      PROVE  Drives(c, x \o Comma \o y, <<"evaluation", st>>)
  <2>1. Drives(c, x, <<"evaluation", st>>)
    BY <1>1, Zenon DEF ReadsItems
  <2>2. st \in Seq(Kinds)
    BY <1>1 DEF Expects
  <2>3. StepOf(<<"evaluation", st>>, Sign("value_separator")) = <<"next token", st>>
    BY <1>1, <2>2, SignSteps
  <2>4. Expects(<<"next token", st>>, st)
    BY <2>2, Expecting
  <2>5. Drives(StepOf(<<"evaluation", st>>, Sign("value_separator")), y, <<"evaluation", st>>)
    BY <2>3, <2>4, Zenon DEF ReadsValue
  <2>. QED
    BY <2>1, <2>5, CommaReads
<1>. QED
  BY <1>1, Zenon DEF ReadsItems

LEMMA MoreMembersRead ==
    ASSUME NEW x \in Seq(Tokens), NEW y \in Seq(Tokens), ReadsMembers(x), ReadsMembers(y)
    PROVE  ReadsMembers(x \o Comma \o y)
<1>1. ASSUME NEW c, NEW st, ExpectsKey(c, st)
      PROVE  Drives(c, x \o Comma \o y, <<"evaluation", st>>)
  <2>1. Drives(c, x, <<"evaluation", st>>)
    BY <1>1, Zenon DEF ReadsMembers
  <2>2. st \in Seq(Kinds) /\ st # <<>> /\ Last(st) = "object"
    BY <1>1 DEF ExpectsKey
  <2>3. StepOf(<<"evaluation", st>>, Sign("value_separator")) = <<"next key", st>>
    BY <2>2, SignSteps
  <2>4. ExpectsKey(<<"next key", st>>, st)
    BY <2>2, Expecting
  <2>5. Drives(StepOf(<<"evaluation", st>>, Sign("value_separator")), y, <<"evaluation", st>>)
    BY <2>3, <2>4, Zenon DEF ReadsMembers
  <2>. QED
    BY <2>1, <2>5, CommaReads
<1>. QED
  BY <1>1, Zenon DEF ReadsMembers

LEMMA SingleReads ==
    ASSUME NEW k \in Strings, NEW y \in Seq(Tokens), ReadsValue(y)
    PROVE  ReadsMembers(MemberWord(k, y))
<1>. DEFINE n == Sign("name_separator")
<1>1. n \in Tokens /\ k \in Tokens
  BY SignsAreTokens, SignNames
<1>. HIDE DEF n
<1>2. ASSUME NEW c, NEW st, ExpectsKey(c, st)
      PROVE  Drives(c, <<k, n>> \o y, <<"evaluation", st>>)
  <2>1. st \in Seq(Kinds) /\ StepOf(c, k) = <<"name separator", st>>
    BY <1>2 DEF ExpectsKey
  <2>2. Drives(c, <<k>>, <<"name separator", st>>)
    BY <1>1, <2>1, DrivesOne
  <2>3. StepOf(<<"name separator", st>>, n) = <<"next token", st>>
    BY <2>1, SignSteps DEF n
  <2>4. <<k>> \in Seq(Tokens)
    BY <1>1, OneElement
  <2>5. Drives(c, Append(<<k>>, n), <<"next token", st>>)
    BY <1>1, <2>2, <2>3, <2>4, DrivesMore
  <2>6. Append(<<k>>, n) = <<k, n>> /\ Append(<<k>>, n) \in Seq(Tokens)
    BY <1>1, <2>4, AppendedTwo, Appended
  <2>7. Drives(<<"next token", st>>, y, <<"evaluation", st>>)
    BY <2>1, Expecting DEF ReadsValue
  <2>. QED
    BY <2>5, <2>6, <2>7, DrivesJoin
<1>. QED
  BY <1>2, Zenon DEF ReadsMembers, MemberWord, n

(* The texts of n tokens are read as what they are.                        *)
Read(n) ==
    /\ \A z \in Grammar[n].values : ReadsValue(z.text)
    /\ \A z \in Grammar[n].items : ReadsItems(z.text)
    /\ \A z \in Grammar[n].members : ReadsMembers(z.text)

LEMMA TextsTyped ==
    \A n \in 0 .. MaxTokens : \A z : z \in Grammar[n].values \cup Grammar[n].items \cup Grammar[n].members =>
      z.text \in Seq(Tokens)
  BY GrammarSized DEF Sized

LEMMA ReadNext ==
    ASSUME NEW n \in 1 .. MaxTokens, \A k \in 0 .. n - 1 : Read(k)
    PROVE  Read(n)
<1>1. \A k \in 0 .. n - 1 : k \in 0 .. MaxTokens /\ Read(k)
  BY ParserAssumption
<1>2. \A k \in 1 .. n - 1 : k \in 0 .. n - 1 /\ k \in 1 .. MaxTokens
  BY ParserAssumption
<1>3. ASSUME NEW z \in Grammar[n].values
      PROVE  ReadsValue(z.text)
  <2>1. CASE \E t \in Scalars : t.type # "overflow" /\ z.text = <<t>>
    BY <2>1, ScalarReads
  <2>2. <<>> \in Seq(Tokens)
    OBVIOUS
  <2>3. CASE z.text = Bracketed(<<>>) \/ z.text = Braced(<<>>)
    <3>1. ReadsValue(Bracketed(<<>>)) /\ ReadsValue(Braced(<<>>))
      BY <2>2, BracketedReads, BracedReads
    <3>. QED
      BY <2>3, <3>1
  <2>4. CASE n - 2 \in 0 .. n - 1 /\ \E x \in Grammar[n - 2].items : z.text = Bracketed(x.text)
    <3>. DEFINE k == n - 2
    <3>1. k \in 0 .. n - 1
      BY <2>4
    <3>2. PICK x \in Grammar[k].items : z.text = Bracketed(x.text)
      BY <2>4
    <3>. HIDE DEF k
    <3>3. x.text \in Seq(Tokens) /\ ReadsItems(x.text)
      BY <1>1, <3>1, TextsTyped DEF Read
    <3>. QED
      BY <3>2, <3>3, BracketedReads
  <2>5. CASE n - 2 \in 0 .. n - 1 /\ \E x \in Grammar[n - 2].members : z.text = Braced(x.text)
    <3>. DEFINE k == n - 2
    <3>1. k \in 0 .. n - 1
      BY <2>5
    <3>2. PICK x \in Grammar[k].members : z.text = Braced(x.text)
      BY <2>5
    <3>. HIDE DEF k
    <3>3. x.text \in Seq(Tokens) /\ ReadsMembers(x.text)
      BY <1>1, <3>1, TextsTyped DEF Read
    <3>. QED
      BY <3>2, <3>3, BracedReads
  <2>. QED
    BY ValueShapes, <2>1, <2>3, <2>4, <2>5, Zenon
<1>4. \A x : ReadsValue(x) => ReadsItems(x)
  BY Zenon DEF ReadsValue, ReadsItems
<1>5. ASSUME NEW z \in Grammar[n].items
      PROVE  ReadsItems(z.text)
  <2>1. CASE \E v \in Grammar[n].values : z.text = v.text
    <3>1. PICK v \in Grammar[n].values : z.text = v.text
      BY <2>1
    <3>2. ReadsValue(v.text)
      BY <1>3
    <3>. QED
      BY <1>4, <3>1, <3>2, Zenon
  <2>2. CASE \E k \in 0 .. n - 1, m \in 1 .. n - 1 : \E x \in Grammar[k].items, v \in Grammar[m].values :
                z.text = x.text \o Comma \o v.text /\ z.value = Append(x.value, v.value)
    <3>1. PICK k \in 0 .. n - 1, m \in 1 .. n - 1 : \E x \in Grammar[k].items, v \in Grammar[m].values :
                z.text = x.text \o Comma \o v.text /\ z.value = Append(x.value, v.value)
      BY <2>2
    <3>2. PICK x \in Grammar[k].items, v \in Grammar[m].values : z.text = x.text \o Comma \o v.text
      BY <3>1
    <3>3. x.text \in Seq(Tokens) /\ ReadsItems(x.text)
      BY <1>1, TextsTyped DEF Read
    <3>4. v.text \in Seq(Tokens) /\ ReadsValue(v.text)
      BY <1>1, <1>2, TextsTyped DEF Read
    <3>. QED
      BY <3>2, <3>3, <3>4, MoreItemsRead
  <2>. QED
    BY ItemShapes, <2>1, <2>2, Zenon
<1>6. ASSUME NEW m \in 1 .. n, NEW s \in SingleTexts(Grammar, m)
      PROVE  s.text \in Seq(Tokens) /\ ReadsMembers(s.text)
  <2>. DEFINE k == m - 2
  <2>1. m \in 1 .. MaxTokens
    BY ParserAssumption
  <2>2. k \in 1 .. m - 1 /\ \E a \in Strings, v \in Grammar[k].values : s.text = MemberWord(a, v.text)
    BY <2>1, SingleShapes
  <2>3. PICK a \in Strings, v \in Grammar[k].values : s.text = MemberWord(a, v.text)
    BY <2>2
  <2>4. k \in 0 .. n - 1
    BY <2>2
  <2>. HIDE DEF k
  <2>5. v.text \in Seq(Tokens) /\ ReadsValue(v.text)
    BY <1>1, <2>4, TextsTyped DEF Read
  <2>6. MemberWord(a, v.text) \in Seq(Tokens)
    BY <2>5, KeyTyped DEF MemberWord
  <2>. QED
    BY <2>3, <2>5, <2>6, SingleReads
<1>7. ASSUME NEW z \in Grammar[n].members
      PROVE  ReadsMembers(z.text)
  <2>1. CASE z \in SingleTexts(Grammar, n)
    <3>1. n \in 1 .. n
      OBVIOUS
    <3>. QED
      BY <1>6, <2>1, <3>1
  <2>2. CASE \E k \in 0 .. n - 1, m \in 1 .. n - 1 : \E x \in Grammar[k].members, s \in SingleTexts(Grammar, m) :
                z.text = x.text \o Comma \o s.text
    <3>1. PICK k \in 0 .. n - 1, m \in 1 .. n - 1 :
                 \E x \in Grammar[k].members, s \in SingleTexts(Grammar, m) :
                   z.text = x.text \o Comma \o s.text
      BY <2>2
    <3>2. PICK x \in Grammar[k].members, s \in SingleTexts(Grammar, m) : z.text = x.text \o Comma \o s.text
      BY <3>1
    <3>3. x.text \in Seq(Tokens) /\ ReadsMembers(x.text)
      BY <1>1, TextsTyped DEF Read
    <3>4. m \in 1 .. n
      OBVIOUS
    <3>5. s.text \in Seq(Tokens) /\ ReadsMembers(s.text)
      BY <1>6, <3>4
    <3>. QED
      BY <3>2, <3>3, <3>5, MoreMembersRead
  <2>. QED
    BY MemberShapes, <2>1, <2>2, ZenonT(60)
<1>. QED
  BY <1>3, <1>5, <1>7 DEF Read

LEMMA AllRead == \A n \in 0 .. MaxTokens : Read(n)
<1>. DEFINE T == {n \in Nat : \A k \in 0 .. n : k =< MaxTokens => Read(k)}
<1>1. Read(0)
  BY GrammarNone DEF Read
<1>2. 0 \in T
  <2>1. \A k \in 0 .. 0 : k = 0
    OBVIOUS
  <2>. QED
    BY <1>1, <2>1
<1>3. ASSUME NEW n \in Nat, n \in T
      PROVE  n + 1 \in T
  <2>1. \A k \in 0 .. n : k =< MaxTokens => Read(k)
    BY <1>3
  <2>2. n + 1 =< MaxTokens => Read(n + 1)
    <3>. HAVE n + 1 =< MaxTokens
    <3>1. n + 1 \in 1 .. MaxTokens /\ \A k \in 0 .. (n + 1) - 1 : k \in 0 .. n /\ k =< MaxTokens
      BY ParserAssumption
    <3>2. \A k \in 0 .. (n + 1) - 1 : Read(k)
      BY <2>1, <3>1
    <3>. DEFINE m == n + 1
    <3>. HIDE DEF m
    <3>3. Read(m)
      BY <3>1, <3>2, ReadNext DEF m
    <3>. QED
      BY <3>3 DEF m
  <2>3. \A k \in 0 .. n + 1 : k \in 0 .. n \/ k = n + 1
    OBVIOUS
  <2>. QED
    BY <2>1, <2>2, <2>3
<1>. HIDE DEF T
<1>4. \A n \in Nat : n \in T
  BY <1>2, <1>3, Induction
<1>5. MaxTokens \in T
  BY <1>4, ParserAssumption
<1>. QED
  BY <1>5, ParserAssumption DEF T

-----------------------------------------------------------------------------
Origin == <<"first token", <<>>>>

LEMMA SentenceAccepted ==
    ASSUME NEW s \in Sentences
    PROVE  s.text \in Seq(Tokens) /\ Drives(Origin, s.text, Accepted)
<1>1. PICK n \in 1 .. MaxTokens - 1 :
             s \in {Text(Append(v.text, Sign("end_of_input")), v.value) : v \in Grammar[n].values}
  BY DEF Sentences
<1>2. PICK v \in Grammar[n].values : s = Text(Append(v.text, Sign("end_of_input")), v.value)
  BY <1>1
<1>. DEFINE e == Sign("end_of_input")
<1>3. s.text = Append(v.text, e)
  BY <1>2, TextFields, Zenon
<1>4. n \in 0 .. MaxTokens
  BY ParserAssumption
<1>5. e \in Tokens
  BY SignsAreTokens, SignNames
<1>6. v.text \in Seq(Tokens) /\ ReadsValue(v.text)
  BY <1>4, TextsTyped, AllRead DEF Read
<1>7. <<>> \in Seq(Kinds)
  OBVIOUS
<1>8. Expects(Origin, <<>>) /\ StepOf(<<"evaluation", <<>>>>, e) = Accepted
  BY <1>7, Expecting, SignSteps DEF Origin
<1>9. Drives(Origin, v.text, <<"evaluation", <<>>>>)
  BY <1>6, <1>8, Zenon DEF ReadsValue
<1>. HIDE DEF e
<1>10. Drives(Origin, Append(v.text, e), Accepted)
  BY <1>5, <1>6, <1>8, <1>9, DrivesMore
<1>. QED
  BY <1>3, <1>5, <1>6, <1>10, Appended

(* What is refused stays refused, whatever follows.                        *)
LEMMA RefusedStays ==
    ASSUME NEW x \in Seq(Tokens), NEW k \in 0 .. Len(x), NEW y, y = SubSeq(x, 1, k),
           NEW c, Drives(c, y, Refused)
    PROVE  ~Drives(c, x, Accepted)
<1>. SUFFICES ASSUME Drives(c, x, Accepted)
     PROVE  FALSE
  OBVIOUS
<1>. DEFINE n == Len(x)
<1>1. n \in Nat /\ k \in Nat /\ k =< n /\ Len(y) = k /\ \A i \in 1 .. k : y[i] = x[i]
  OBVIOUS
<1>2. PICK p : Path(p, y) /\ p[0] = c /\ p[Len(y)] = Refused
  BY Zenon DEF Drives
<1>3. PICK q : Path(q, x) /\ q[0] = c /\ q[Len(x)] = Accepted
  BY Zenon DEF Drives
<1>4. \A i \in 1 .. k : p[i] = StepOf(p[i - 1], x[i])
  BY <1>1, <1>2 DEF Path
<1>5. \A i \in 1 .. n : q[i] = StepOf(q[i - 1], x[i])
  BY <1>3 DEF Path
<1>. HIDE DEF n
<1>. DEFINE T == {i \in Nat : i =< k => p[i] = q[i]}
<1>6. 0 \in T
  BY <1>2, <1>3
<1>7. ASSUME NEW i \in Nat, i \in T
      PROVE  i + 1 \in T
  <2>. SUFFICES ASSUME i + 1 =< k
       PROVE  p[i + 1] = q[i + 1]
    OBVIOUS
  <2>. DEFINE j == i + 1
  <2>1. j \in 1 .. k /\ j \in 1 .. n /\ j - 1 = i /\ i =< k
    BY <1>1
  <2>2. p[j] = StepOf(p[j - 1], x[j]) /\ q[j] = StepOf(q[j - 1], x[j])
    BY <1>4, <1>5, <2>1
  <2>3. p[i] = q[i]
    BY <1>7, <2>1
  <2>. QED
    BY <2>1, <2>2, <2>3
<1>. HIDE DEF T
<1>8. \A i \in Nat : i \in T
  BY <1>6, <1>7, Induction
<1>9. q[k] = Refused
  <2>1. k \in T
    BY <1>1, <1>8
  <2>. QED
    BY <1>1, <1>2, <2>1 DEF T
<1>10. \A t : StepOf(Refused, t) = Refused
  <2>1. \A t : StepAt("refused", <<>>, t) = Refused
    BY DEF StepAt
  <2>. QED
    BY <2>1, StepIs, Zenon DEF Refused
<1>. DEFINE U == {i \in Nat : k + i =< n => q[k + i] = Refused}
<1>11. 0 \in U
  <2>1. k + 0 = k
    BY <1>1
  <2>. QED
    BY <1>9, <2>1
<1>12. ASSUME NEW i \in Nat, i \in U
       PROVE  i + 1 \in U
  <2>. DEFINE j == k + (i + 1)
  <2>1. j - 1 = k + i
    BY <1>1
  <2>. SUFFICES ASSUME j =< n
       PROVE  q[j] = Refused
    OBVIOUS
  <2>2. j \in 1 .. n /\ k + i =< n
    BY <1>1
  <2>3. q[k + i] = Refused
    BY <1>12, <2>2
  <2>. HIDE DEF j
  <2>4. q[j] = StepOf(q[j - 1], x[j])
    BY <1>5, <2>2
  <2>. QED
    BY <1>10, <2>1, <2>3, <2>4
<1>. HIDE DEF U
<1>13. \A i \in Nat : i \in U
  BY <1>11, <1>12, Induction
<1>14. q[n] = Refused
  <2>. DEFINE i == n - k
  <2>1. i \in Nat /\ k + i = n /\ n =< n
    BY <1>1
  <2>. HIDE DEF i
  <2>2. i \in U
    BY <1>13, <2>1
  <2>. QED
    BY <2>1, <2>2 DEF U
<1>. QED
  BY <1>3, <1>14 DEF n, Accepted, Refused

(* Where the loop is is where the text read leads to.                      *)
RunInv ==
    /\ states \in Seq(Kinds)
    /\ at \notin {"value", "end"} => Drives(Origin, got, <<at, states>>)
    /\ at = "value" => Drives(Origin, got, ValueStep(states, Last(got)))
    /\ at = "end" /\ result # "value" => Drives(Origin, got, Refused)

LEMMA RunBegins == ParserInit => RunInv
<1>. SUFFICES ASSUME ParserInit
     PROVE  RunInv
  OBVIOUS
<1>1. at = "first token" /\ states = <<>> /\ got = <<>>
  BY DEF ParserInit
<1>2. states \in Seq(Kinds)
  <2>1. <<>> \in Seq(Kinds)
    OBVIOUS
  <2>. QED
    BY <1>1, <2>1
<1>3. Drives(Origin, got, <<at, states>>)
  BY <1>1, DrivesNone DEF Origin
<1>. QED
  BY <1>1, <1>2, <1>3 DEF RunInv

LEMMA Moves ==
    ASSUME ParseInv, RunInv, at \notin {"value", "end"}, NEW t \in Tokens, get_token(t)
    PROVE  Drives(Origin, got', StepAt(at, states, t)) /\ Last(got') = t /\ states \in Seq(Kinds)
<1>1. got \in Seq(Tokens) /\ got' = Append(got, t) /\ Last(got') = t
  BY Reads
<1>2. Drives(Origin, got, <<at, states>>) /\ states \in Seq(Kinds)
  BY Zenon DEF RunInv
<1>3. Drives(Origin, Append(got, t), StepOf(<<at, states>>, t))
  BY <1>1, <1>2, DrivesMore
<1>. QED
  BY <1>1, <1>2, <1>3, StepIs

LEMMA TokenRuns == ParseInv /\ RunInv /\ (FirstToken \/ NextToken) => RunInv'
<1>. SUFFICES ASSUME ParseInv, RunInv, FirstToken \/ NextToken
     PROVE  RunInv'
  OBVIOUS
<1>1. at \in {"first token", "next token"} /\ at' = "value" /\ UNCHANGED states
  BY DEF FirstToken, NextToken
<1>2. PICK t \in Tokens : get_token(t)
  BY DEF FirstToken, NextToken
<1>3. Drives(Origin, got', StepAt(at, states, t)) /\ Last(got') = t /\ states \in Seq(Kinds)
  BY <1>1, <1>2, Moves
<1>4. StepAt(at, states, t) = ValueStep(states, t)
  BY <1>1 DEF StepAt
<1>. QED
  BY <1>1, <1>3, <1>4 DEF RunInv

LEMMA ValueRuns == ParseInv /\ RunInv /\ Value => RunInv'
<1>. SUFFICES ASSUME ParseInv, RunInv, Value
     PROVE  RunInv'
  OBVIOUS
<1>. DEFINE t == Last(got)
            w == ValueStep(states, t)
<1>1. at = "value" /\ UNCHANGED <<got, states>>
  BY DEF Value, Fails
<1>2. Drives(Origin, got, w) /\ states \in Seq(Kinds)
  BY <1>1 DEF RunInv
<1>3. \/ t = Sign("begin_object") /\ at' = "first key"
      \/ t = Sign("begin_array") /\ at' = "first item"
      \/ t \in Scalars /\ t.type # "overflow" /\ at' = "evaluation"
      \/ at' = "end" /\ t.type = "overflow"
      \/ at' = "end" /\ t \notin Scalars \cup {Sign("begin_object"), Sign("begin_array")}
  BY Zenon DEF Value, Fails
<1>4. Sign("begin_object") # Sign("begin_array") /\ Sign("begin_object").type # "overflow"
      /\ Sign("begin_array").type # "overflow"
  BY DEF Sign
<1>5. t \in Scalars => t # Sign("begin_object") /\ t # Sign("begin_array")
  BY SignsDiffer, SignNames
<1>. HIDE DEF t
<1>6. w = IF at' = "end" THEN Refused ELSE <<at', states>>
  <2>1. CASE t = Sign("begin_object") /\ at' = "first key"
    BY <2>1 DEF ValueStep
  <2>2. CASE t = Sign("begin_array") /\ at' = "first item"
    BY <1>4, <2>2 DEF ValueStep
  <2>3. CASE t \in Scalars /\ t.type # "overflow" /\ at' = "evaluation"
    BY <1>5, <2>3 DEF ValueStep
  <2>4. CASE at' = "end" /\ t.type = "overflow"
    BY <1>4, <2>4 DEF ValueStep
  <2>5. CASE at' = "end" /\ t \notin Scalars \cup {Sign("begin_object"), Sign("begin_array")}
    BY <2>5 DEF ValueStep
  <2>. QED
    BY <1>3, <2>1, <2>2, <2>3, <2>4, <2>5
<1>7. at' # "value"
  BY <1>3
<1>. HIDE DEF w
<1>8. at' = "end" => Drives(Origin, got', Refused)
  BY <1>1, <1>2, <1>6
<1>9. at' # "end" => Drives(Origin, got', <<at', states'>>)
  BY <1>1, <1>2, <1>6
<1>. QED
  BY <1>1, <1>2, <1>7, <1>8, <1>9 DEF RunInv

(* What is left of the other steps: the new place follows from the token.  *)
LEMMA Follows ==
    ASSUME ParseInv, RunInv, at \notin {"value", "end"}, NEW t \in Tokens, get_token(t),
           states' \in Seq(Kinds),
           \/ at' \notin {"value", "end"} /\ StepAt(at, states, t) = <<at', states'>>
           \/ at' = "value" /\ StepAt(at, states, t) = ValueStep(states', t)
           \/ at' = "end" /\ (result' # "value" => StepAt(at, states, t) = Refused)
    PROVE  RunInv'
<1>1. Drives(Origin, got', StepAt(at, states, t)) /\ Last(got') = t
  BY Moves
<1>. QED
  BY <1>1 DEF RunInv

LEMMA FirstKeyRuns == ParseInv /\ RunInv /\ FirstKey => RunInv'
<1>. SUFFICES ASSUME ParseInv, RunInv, FirstKey
     PROVE  RunInv'
  OBVIOUS
<1>1. PICK t \in Tokens :
         /\ get_token(t)
         /\ \/ t = Sign("end_object") /\ at' = "evaluation" /\ UNCHANGED states
            \/ t \in Strings /\ states' = Append(states, "object") /\ at' = "name separator"
            \/ t \notin Strings \cup {Sign("end_object")} /\ at' = "end" /\ UNCHANGED states
  BY Zenon DEF FirstKey, Fails
<1>2. at = "first key" /\ states \in Seq(Kinds)
  BY DEF FirstKey, RunInv
<1>3. StepAt("first key", states, t) = IF t = Sign("end_object") THEN <<"evaluation", states>>
                                       ELSE KeyStep(Append(states, "object"), t)
  BY DEF StepAt
<1>4. t \in Strings => t # Sign("end_object")
  BY SignsDiffer, SignNames
<1>5. states' \in Seq(Kinds)
  BY <1>1, <1>2, Pushed DEF Kinds
<1>6. CASE t = Sign("end_object") /\ at' = "evaluation" /\ UNCHANGED states
  BY <1>1, <1>2, <1>3, <1>5, <1>6, Follows
<1>7. CASE t \in Strings /\ states' = Append(states, "object") /\ at' = "name separator"
  <2>1. StepAt(at, states, t) = <<at', states'>>
    BY <1>2, <1>3, <1>4, <1>7 DEF KeyStep
  <2>. QED
    BY <1>1, <1>2, <1>5, <1>7, <2>1, Follows
<1>8. CASE t \notin Strings \cup {Sign("end_object")} /\ at' = "end" /\ UNCHANGED states
  <2>1. StepAt(at, states, t) = Refused
    BY <1>2, <1>3, <1>8 DEF KeyStep
  <2>. QED
    BY <1>1, <1>2, <1>5, <1>8, <2>1, Follows
<1>. QED
  BY <1>1, <1>6, <1>7, <1>8

LEMMA FirstItemRuns == ParseInv /\ RunInv /\ FirstItem => RunInv'
<1>. SUFFICES ASSUME ParseInv, RunInv, FirstItem
     PROVE  RunInv'
  OBVIOUS
<1>1. PICK t \in Tokens :
         /\ get_token(t)
         /\ \/ t = Sign("end_array") /\ at' = "evaluation" /\ UNCHANGED states
            \/ t # Sign("end_array") /\ states' = Append(states, "array") /\ at' = "value"
  BY Zenon DEF FirstItem
<1>2. at = "first item" /\ states \in Seq(Kinds)
  BY DEF FirstItem, RunInv
<1>3. StepAt("first item", states, t) = IF t = Sign("end_array") THEN <<"evaluation", states>>
                                        ELSE ValueStep(Append(states, "array"), t)
  BY DEF StepAt
<1>4. states' \in Seq(Kinds)
  BY <1>1, <1>2, Pushed DEF Kinds
<1>5. CASE t = Sign("end_array") /\ at' = "evaluation" /\ UNCHANGED states
  BY <1>1, <1>2, <1>3, <1>4, <1>5, Follows
<1>6. CASE t # Sign("end_array") /\ states' = Append(states, "array") /\ at' = "value"
  BY <1>1, <1>2, <1>3, <1>4, <1>6, Follows
<1>. QED
  BY <1>1, <1>5, <1>6

LEMMA KeyRuns == ParseInv /\ RunInv /\ (NameSeparator \/ NextKey) => RunInv'
<1>. SUFFICES ASSUME ParseInv, RunInv, NameSeparator \/ NextKey
     PROVE  RunInv'
  OBVIOUS
<1>1. states \in Seq(Kinds)
  BY DEF RunInv
<1>2. CASE NameSeparator
  <2>1. PICK t \in Tokens :
           /\ get_token(t)
           /\ \/ t = Sign("name_separator") /\ at' = "next token"
              \/ t # Sign("name_separator") /\ at' = "end"
    BY <1>2, Zenon DEF NameSeparator, Fails
  <2>2. at = "name separator" /\ UNCHANGED states
    BY <1>2 DEF NameSeparator, Fails
  <2>3. StepAt("name separator", states, t) = IF t = Sign("name_separator") THEN <<"next token", states>>
                                              ELSE Refused
    BY DEF StepAt
  <2>. QED
    BY <1>1, <2>1, <2>2, <2>3, Follows
<1>3. CASE NextKey
  <2>1. PICK t \in Tokens :
           /\ get_token(t)
           /\ \/ t \in Strings /\ at' = "name separator"
              \/ t \notin Strings /\ at' = "end"
    BY <1>3, Zenon DEF NextKey, Fails
  <2>2. at = "next key" /\ UNCHANGED states
    BY <1>3 DEF NextKey, Fails
  <2>3. StepAt("next key", states, t) = IF t \in Strings THEN <<"name separator", states>> ELSE Refused
    BY DEF StepAt, KeyStep
  <2>. QED
    BY <1>1, <2>1, <2>2, <2>3, Follows
<1>. QED
  BY <1>2, <1>3

LEMMA EvaluationRuns == ParseInv /\ RunInv /\ (InArray \/ InObject \/ EndOfInput) => RunInv'
<1>. SUFFICES ASSUME ParseInv, RunInv, InArray \/ InObject \/ EndOfInput
     PROVE  RunInv'
  OBVIOUS
<1>1. states \in Seq(Kinds) /\ at = "evaluation"
  BY DEF RunInv, InArray, InObject, EndOfInput
<1>2. \A t : StepAt("evaluation", states, t) = EndStep(states, t)
  BY DEF StepAt
<1>3. states # <<>> => Front(states) \in Seq(Kinds)
  BY <1>1, FrontIs
<1>4. CASE InArray
  <2>1. PICK t \in Tokens :
           /\ get_token(t)
           /\ \/ t = Sign("value_separator") /\ at' = "next token" /\ UNCHANGED states
              \/ t = Sign("end_array") /\ states' = Front(states) /\ UNCHANGED at
              \/ t \notin {Sign("value_separator"), Sign("end_array")} /\ at' = "end" /\ UNCHANGED states
    BY <1>4, Zenon DEF InArray, Fails
  <2>2. states # <<>> /\ Last(states) = "array"
    BY <1>4 DEF InArray
  <2>3. Sign("value_separator") # Sign("end_array")
    BY DEF Sign
  <2>4. EndStep(states, t) = IF t = Sign("value_separator") THEN <<"next token", states>>
                             ELSE IF t = Sign("end_array") THEN <<"evaluation", Front(states)>> ELSE Refused
    BY <2>2, Zenon DEF EndStep
  <2>5. states' \in Seq(Kinds)
    BY <1>1, <1>3, <2>1, <2>2
  <2>6. StepAt(at, states, t) = IF at' = "end" THEN Refused ELSE <<at', states'>>
    BY <1>1, <1>2, <2>1, <2>3, <2>4
  <2>7. at' # "value"
    BY <1>1, <2>1
  <2>. QED
    BY <1>1, <2>1, <2>5, <2>6, <2>7, Follows
<1>5. CASE InObject
  <2>1. PICK t \in Tokens :
           /\ get_token(t)
           /\ \/ t = Sign("value_separator") /\ at' = "next key" /\ UNCHANGED states
              \/ t = Sign("end_object") /\ states' = Front(states) /\ UNCHANGED at
              \/ t \notin {Sign("value_separator"), Sign("end_object")} /\ at' = "end" /\ UNCHANGED states
    BY <1>5, Zenon DEF InObject, Fails
  <2>2. states # <<>> /\ Last(states) # "array"
    BY <1>5 DEF InObject
  <2>3. Sign("value_separator") # Sign("end_object")
    BY DEF Sign
  <2>4. EndStep(states, t) = IF t = Sign("value_separator") THEN <<"next key", states>>
                             ELSE IF t = Sign("end_object") THEN <<"evaluation", Front(states)>> ELSE Refused
    BY <2>2, Zenon DEF EndStep
  <2>5. states' \in Seq(Kinds)
    BY <1>1, <1>3, <2>1, <2>2
  <2>6. StepAt(at, states, t) = IF at' = "end" THEN Refused ELSE <<at', states'>>
    BY <1>1, <1>2, <2>1, <2>3, <2>4
  <2>7. at' # "value"
    BY <1>1, <2>1
  <2>. QED
    BY <1>1, <2>1, <2>5, <2>6, <2>7, Follows
<1>6. CASE EndOfInput
  <2>1. PICK t \in Tokens :
           /\ get_token(t)
           /\ at' = "end" /\ UNCHANGED states
           /\ \/ t = Sign("end_of_input") /\ result' = "value"
              \/ t # Sign("end_of_input")
    BY <1>6, Zenon DEF EndOfInput, Fails
  <2>2. states = <<>>
    BY <1>6 DEF EndOfInput
  <2>3. EndStep(states, t) = IF t = Sign("end_of_input") THEN Accepted ELSE Refused
    BY <2>2, Zenon DEF EndStep
  <2>4. result' # "value" => StepAt(at, states, t) = Refused
    BY <1>1, <1>2, <2>1, <2>3
  <2>. QED
    BY <1>1, <2>1, <2>4, Follows
<1>. QED
  BY <1>4, <1>5, <1>6

(* Every run: what parse makes of a text of the grammar is the value the   *)
(* text has there, later members of an object over earlier ones of the     *)
(* same key, and it refuses a token only when no text of the grammar goes  *)
(* on with it (sax_parse_internal, json_sax_dom_parser).                   *)
THEOREM TextsParsedAsWritten == ParserSpec => []ParsedAsWritten
<1>. DEFINE Inv == ParseInv /\ RunInv
<1>1. ParserInit => Inv
  BY ParserBegins, RunBegins
<1>2. Inv /\ [ParserNext]_parserVars => Inv'
  <2>1. ASSUME Inv, ParserNext
        PROVE  Inv'
    <3>1. ParseInv'
      BY <2>1, FirstTokenReads, ValueReads, FirstKeyReads, FirstItemReads, NameSeparatorReads,
         InArrayReads, InObjectReads, NextKeyReads, EndOfInputReads DEF ParserNext
    <3>2. RunInv'
      BY <2>1, TokenRuns, ValueRuns, FirstKeyRuns, FirstItemRuns, KeyRuns, EvaluationRuns DEF ParserNext
    <3>. QED
      BY <3>1, <3>2
  <2>2. ASSUME Inv, UNCHANGED parserVars
        PROVE  Inv'
    BY <2>2 DEF parserVars, ParseInv, RunInv
  <2>. QED
    BY <2>1, <2>2
<1>3. Inv => ParsedAsWritten
  <2>. SUFFICES ASSUME Inv
       PROVE  ParsedAsWritten
    OBVIOUS
  <2>1. result = "value" => Text(got, ValueAt) \in Sentences
    BY ParsedIsSentence
  <2>2. ASSUME result # "value", got \in Beginnings, result # "parsing"
        PROVE  FALSE
    <3>1. at = "end"
      BY <2>2 DEF ParseInv
    <3>2. Drives(Origin, got, Refused)
      BY <2>2, <3>1 DEF RunInv
    <3>3. PICK s \in Sentences : got \in {SubSeq(s.text, 1, k) : k \in 0 .. Len(s.text)}
      BY <2>2 DEF Beginnings
    <3>4. PICK k \in 0 .. Len(s.text) : got = SubSeq(s.text, 1, k)
      BY <3>3
    <3>5. s.text \in Seq(Tokens) /\ Drives(Origin, s.text, Accepted)
      BY SentenceAccepted
    <3>. QED
      BY <3>2, <3>4, <3>5, RefusedStays
  <2>. QED
    BY <2>1, <2>2 DEF ParsedAsWritten
<1>. QED
  BY <1>1, <1>2, <1>3, PTL DEF ParserSpec

(***************************************************************************)
(* The serializer: dump.                                                   *)
(***************************************************************************)

(* What SetToSeq makes of a finite set: its elements, each once.           *)
LEMMA SetToSeqIs ==
    ASSUME NEW S, IsFiniteSet(S)
    PROVE  /\ SetToSeq(S) \in Seq(S)
           /\ \A i, j \in 1 .. Len(SetToSeq(S)) : SetToSeq(S)[i] = SetToSeq(S)[j] => i = j
           /\ \A x \in S : \E i \in 1 .. Len(SetToSeq(S)) : SetToSeq(S)[i] = x
<1>. DEFINE c == Cardinality(S)
            f == SetToSeq(S)
<1>1. c \in Nat /\ ExistsBijection(1 .. c, S)
  BY FS_CardinalityType
<1>. HIDE DEF c
<1>2. PICK g : g \in Bijection(1 .. c, S)
  BY <1>1 DEF ExistsBijection
<1>3. g \in [1 .. c -> S] /\ IsInjective(g)
  BY <1>2 DEF Bijection, Injection
<1>4. f \in [1 .. c -> S] /\ IsInjective(f)
  BY <1>3 DEF SetToSeq, c
<1>. HIDE DEF f
<1>5. f \in Injection(1 .. c, S)
  BY <1>4 DEF Injection
<1>6. IsFiniteSet(1 .. c) /\ Cardinality(1 .. c) = c
  BY <1>1, FS_Interval
<1>7. f \in Surjection(1 .. c, S)
  <2>1. Cardinality(1 .. c) = Cardinality(S) <=> f \in Surjection(1 .. c, S)
    BY <1>5, FS_Injection
  <2>. QED
    BY <1>6, <2>1 DEF c
<1>8. \A x \in S : \E i \in 1 .. c : f[i] = x
  BY <1>7 DEF Surjection
<1>9. f \in Seq(S) /\ Len(f) = c
  BY <1>1, <1>4
<1>10. \A i, j \in 1 .. c : f[i] = f[j] => i = j
  BY <1>4 DEF IsInjective
<1>. QED
  BY <1>8, <1>9, <1>10 DEF f

LEMMA FrontAndLast ==
    ASSUME NEW S, NEW s \in Seq(S), s # <<>>
    PROVE  s = Append(Front(s), Last(s))
<1>. DEFINE f == Front(s)
            x == Last(s)
            n == Len(s)
<1>1. /\ f \in Seq(S) /\ Len(f) = n - 1 /\ n \in Nat /\ n # 0 /\ x = s[n] /\ x \in S
      /\ \A i \in 1 .. n - 1 : f[i] = s[i]
  BY FrontIs
<1>. HIDE DEF f, x
<1>2. /\ Append(f, x) \in Seq(S) /\ Len(Append(f, x)) = (n - 1) + 1 /\ Append(f, x)[(n - 1) + 1] = x
      /\ \A i \in 1 .. n - 1 : Append(f, x)[i] = f[i]
  BY <1>1, Appended
<1>3. (n - 1) + 1 = n
  BY <1>1
<1>4. \A i \in 1 .. n : Append(f, x)[i] = s[i]
  BY <1>1, <1>2, <1>3
<1>. HIDE DEF n
<1>5. s = Append(f, x)
  BY <1>2, <1>3, <1>4, SameElements DEF n
<1>. QED
  BY <1>5 DEF f, x

(* The parts but the last, a comma behind each.                            *)
Separated(ts) == [i \in 1 .. Len(ts) |-> Append(ts[i], Sign("value_separator"))]

LEMMA SeparatedType ==
    ASSUME NEW ts \in Seq(Seq(Tokens))
    PROVE  Separated(ts) \in Seq(Seq(Tokens)) /\ Len(Separated(ts)) = Len(ts)
<1>. DEFINE n == Len(ts)
            c == Sign("value_separator")
<1>1. c \in Tokens
  BY SignsAreTokens DEF Signs
<1>2. n \in Nat /\ \A i \in 1 .. n : ts[i] \in Seq(Tokens)
  OBVIOUS
<1>. HIDE DEF c
<1>3. \A i \in 1 .. n : Append(ts[i], c) \in Seq(Tokens)
  BY <1>1, <1>2
<1>. HIDE DEF n
<1>4. [i \in 1 .. n |-> Append(ts[i], c)] \in Seq(Seq(Tokens)) /\ Len([i \in 1 .. n |-> Append(ts[i], c)]) = n
  <2>. DEFINE g == [i \in 1 .. n |-> Append(ts[i], c)]
  <2>1. g \in [1 .. n -> Seq(Tokens)]
    BY <1>3
  <2>. HIDE DEF g
  <2>. QED
    BY <1>2, <2>1 DEF g
<1>. QED
  BY <1>4 DEF Separated, n, c

LEMMA CommasLast ==
    ASSUME NEW ts \in Seq(Seq(Tokens)), NEW x \in Seq(Tokens)
    PROVE  Commas(Append(ts, x)) = FlattenSeq(Separated(ts)) \o x
<1>. DEFINE us == Append(ts, x)
            c == Sign("value_separator")
            P == [i \in DOMAIN us |-> IF i < Len(us) THEN Append(us[i], c) ELSE us[i]]
            e == Separated(ts)
            n == Len(ts)
<1>1. /\ us \in Seq(Seq(Tokens)) /\ n \in Nat /\ Len(us) = n + 1 /\ us[n + 1] = x
      /\ \A i \in 1 .. n : us[i] = ts[i]
  BY Appended
<1>2. DOMAIN us = 1 .. n + 1
  BY <1>1
<1>3. e \in Seq(Seq(Tokens)) /\ Len(e) = n
  BY SeparatedType
<1>4. \A i \in 1 .. n : e[i] = Append(ts[i], c)
  BY DEF Separated
<1>. HIDE DEF us, c, e, n
<1>5. /\ Append(e, x) \in Seq(Seq(Tokens)) /\ Len(Append(e, x)) = n + 1 /\ Append(e, x)[n + 1] = x
      /\ \A i \in 1 .. n : Append(e, x)[i] = e[i]
  BY <1>3, Appended
<1>6. Append(e, x) = [i \in 1 .. n + 1 |-> Append(e, x)[i]]
  BY <1>5, AsFunction
<1>7. \A i \in 1 .. n + 1 : Append(e, x)[i] = IF i < Len(us) THEN Append(us[i], c) ELSE us[i]
  <2>. TAKE i \in 1 .. n + 1
  <2>1. CASE i = n + 1
    BY <1>1, <1>5, <2>1
  <2>2. CASE i \in 1 .. n
    <3>1. i < Len(us)
      BY <1>1, <2>2
    <3>2. Append(e, x)[i] = Append(us[i], c)
      BY <1>1, <1>4, <1>5, <2>2, Zenon
    <3>. QED
      BY <3>1, <3>2, Zenon
  <2>3. i = n + 1 \/ i \in 1 .. n
    BY <1>1
  <2>. QED
    BY <2>1, <2>2, <2>3, Zenon
<1>8. P = Append(e, x)
  BY <1>2, <1>6, <1>7, Zenon
<1>9. FlattenSeq(Append(e, x)) = FlattenSeq(e) \o x
  BY <1>3, FlattenAppend
<1>10. Commas(us) = FlattenSeq(P)
  BY DEF Commas, c
<1>. QED
  BY <1>8, <1>9, <1>10 DEF us, e

(* Commas between parts, one after the other.                              *)
LEMMA CommasAre ==
    /\ Commas(<<>>) = <<>>
    /\ \A x \in Seq(Tokens) : Commas(<<x>>) = x
    /\ \A ts \in Seq(Seq(Tokens)) : Commas(ts) \in Seq(Tokens)
    /\ \A ts \in Seq(Seq(Tokens)) : \A x \in Seq(Tokens) :
         ts # <<>> => Commas(Append(ts, x)) = Commas(ts) \o Comma \o x
<1>1. Commas(<<>>) = <<>>
  <2>. DEFINE e == <<>>
              P == [i \in DOMAIN e |-> IF i < Len(e) THEN Append(e[i], Sign("value_separator")) ELSE e[i]]
  <2>1. e \in Seq(Nat) /\ DOMAIN e = {} /\ e = [i \in DOMAIN e |-> e[i]]
    OBVIOUS
  <2>. HIDE DEF e
  <2>2. P = e
    BY <2>1, Zenon
  <2>3. Commas(e) = FlattenSeq(P)
    BY DEF Commas
  <2>. QED
    BY <2>2, <2>3, FlattenNone DEF e
<1>2. Sign("value_separator") \in Tokens /\ Comma \in Seq(Tokens)
  BY SignsAreTokens DEF Signs, Comma
<1>3. ASSUME NEW x \in Seq(Tokens)
      PROVE  Commas(<<x>>) = x
  <2>1. <<>> \in Seq(Seq(Tokens)) /\ Append(<<>>, x) = <<x>>
    OBVIOUS
  <2>2. Commas(Append(<<>>, x)) = FlattenSeq(Separated(<<>>)) \o x
    BY <2>1, CommasLast
  <2>3. Separated(<<>>) = <<>>
    BY DEF Separated
  <2>4. <<>> \o x = x
    OBVIOUS
  <2>. QED
    BY <2>1, <2>2, <2>3, <2>4, FlattenNone
<1>4. ASSUME NEW ts \in Seq(Seq(Tokens)), ts # <<>>
      PROVE  /\ ts = Append(Front(ts), Last(ts)) /\ Front(ts) \in Seq(Seq(Tokens)) /\ Last(ts) \in Seq(Tokens)
  BY <1>4, FrontIs, FrontAndLast
<1>5. ASSUME NEW ts \in Seq(Seq(Tokens))
      PROVE  Commas(ts) \in Seq(Tokens)
  <2>1. CASE ts = <<>>
    <3>1. <<>> \in Seq(Tokens)
      OBVIOUS
    <3>. QED
      BY <1>1, <2>1, <3>1, Zenon
  <2>2. CASE ts # <<>>
    <3>. DEFINE f == Front(ts)
                y == Last(ts)
    <3>1. ts = Append(f, y) /\ f \in Seq(Seq(Tokens)) /\ y \in Seq(Tokens)
      BY <1>4, <2>2
    <3>. HIDE DEF f, y
    <3>2. Commas(ts) = FlattenSeq(Separated(f)) \o y
      BY <3>1, CommasLast
    <3>3. FlattenSeq(Separated(f)) \in Seq(Tokens)
      BY <3>1, SeparatedType, FlattenType
    <3>. QED
      BY <3>1, <3>2, <3>3
  <2>. QED
    BY <2>1, <2>2
<1>6. ASSUME NEW ts \in Seq(Seq(Tokens)), NEW x \in Seq(Tokens), ts # <<>>
      PROVE  Commas(Append(ts, x)) = Commas(ts) \o Comma \o x
  <2>. DEFINE f == Front(ts)
              y == Last(ts)
              c == Sign("value_separator")
  <2>1. ts = Append(f, y) /\ f \in Seq(Seq(Tokens)) /\ y \in Seq(Tokens)
    BY <1>4, <1>6
  <2>. HIDE DEF f, y
  <2>2. Commas(ts) = FlattenSeq(Separated(f)) \o y
    BY <2>1, CommasLast
  <2>3. Commas(Append(ts, x)) = FlattenSeq(Separated(ts)) \o x
    BY CommasLast
  <2>4. Separated(f) \in Seq(Seq(Tokens)) /\ Len(Separated(f)) = Len(f) /\ Len(f) \in Nat
    BY <2>1, SeparatedType
  <2>5. Append(y, c) = y \o Comma /\ Append(y, c) \in Seq(Tokens) /\ c \in Tokens
    BY <1>2, <2>1 DEF Comma
  <2>6. Separated(ts) = Append(Separated(f), Append(y, c))
    <3>. DEFINE e == Separated(f)
                z == Append(y, c)
                n == Len(f)
    <3>1. /\ Len(ts) = n + 1 /\ ts[n + 1] = y /\ \A i \in 1 .. n : ts[i] = f[i]
      BY <2>1, Appended
    <3>2. \A i \in 1 .. n : e[i] = Append(f[i], c)
      BY DEF Separated
    <3>0. n \in Nat
      BY <2>4
    <3>. HIDE DEF e, z
    <3>3. /\ Append(e, z) \in Seq(Seq(Tokens)) /\ Len(Append(e, z)) = n + 1 /\ Append(e, z)[n + 1] = z
          /\ \A i \in 1 .. n : Append(e, z)[i] = e[i]
      BY <2>4, <2>5, Appended DEF e, z
    <3>. HIDE DEF n
    <3>4. Append(e, z) = [i \in 1 .. n + 1 |-> Append(e, z)[i]]
      BY <3>3, AsFunction
    <3>5. \A i \in 1 .. n + 1 : Append(e, z)[i] = Append(ts[i], c)
      <4>. TAKE i \in 1 .. n + 1
      <4>1. CASE i = n + 1
        BY <3>1, <3>3, <4>1 DEF z
      <4>2. CASE i \in 1 .. n
        BY <3>1, <3>2, <3>3, <4>2
      <4>. QED
        <5>1. i = n + 1 \/ i \in 1 .. n
          BY <3>0
        <5>. QED
          BY <4>1, <4>2, <5>1, Zenon
    <3>6. Separated(ts) = [i \in 1 .. n + 1 |-> Append(ts[i], c)]
      BY <3>1 DEF Separated
    <3>. QED
      BY <3>4, <3>5, <3>6, Zenon DEF e, z
  <2>7. FlattenSeq(Separated(ts)) = FlattenSeq(Separated(f)) \o Append(y, c)
    BY <2>4, <2>5, <2>6, FlattenAppend
  <2>8. FlattenSeq(Separated(f)) \in Seq(Tokens)
    BY <2>4, FlattenType
  <2>. DEFINE g == FlattenSeq(Separated(f))
  <2>9. (g \o y) \o Comma = g \o (y \o Comma)
    BY <1>2, <2>1, <2>8, Associates, SMTT(30), ZenonT(30)
  <2>. QED
    BY <2>2, <2>3, <2>5, <2>7, <2>9, Zenon
<1>. QED
  BY <1>1, <1>3, <1>5, <1>6

(* s without the element p.                                                *)
Without(s, p) == [i \in 1 .. Len(s) - 1 |-> IF i < p THEN s[i] ELSE s[i + 1]]

LEMMA WithoutIs ==
    ASSUME NEW S, NEW s \in Seq(S), NEW p \in 1 .. Len(s)
    PROVE  /\ Without(s, p) \in Seq(S) /\ Len(s) \in Nat /\ Len(Without(s, p)) = Len(s) - 1
           /\ \A i \in 1 .. Len(s) - 1 : /\ Without(s, p)[i] = IF i < p THEN s[i] ELSE s[i + 1]
                                         /\ (IF i < p THEN i ELSE i + 1) \in 1 .. Len(s)
<1>. DEFINE n == Len(s)
<1>1. n \in Nat /\ n # 0 /\ \A i \in 1 .. n : s[i] \in S
  OBVIOUS
<1>. HIDE DEF n
<1>2. \A i \in 1 .. n - 1 : i \in 1 .. n /\ i + 1 \in 1 .. n
  BY <1>1
<1>. DEFINE w == [i \in 1 .. n - 1 |-> IF i < p THEN s[i] ELSE s[i + 1]]
<1>3. \A i \in 1 .. n - 1 : w[i] \in S
  BY <1>1, <1>2
<1>4. w = Without(s, p)
  BY DEF Without, n
<1>5. n - 1 \in Nat /\ w \in [1 .. n - 1 -> S]
  BY <1>1, <1>3
<1>6. \A i \in 1 .. n - 1 : w[i] = IF i < p THEN s[i] ELSE s[i + 1]
  OBVIOUS
<1>. HIDE DEF w
<1>7. w \in Seq(S) /\ Len(w) = n - 1
  BY <1>5
<1>. QED
  BY <1>1, <1>2, <1>4, <1>6, <1>7 DEF n

LEMMA WithoutAppended ==
    ASSUME NEW S, NEW f \in Seq(S), NEW y \in S
    PROVE  /\ Without(Append(f, y), Len(f) + 1) = f
           /\ \A p \in 1 .. Len(f) : Without(Append(f, y), p) = Append(Without(f, p), y)
<1>. DEFINE s == Append(f, y)
            n == Len(f)
<1>1. s \in Seq(S) /\ n \in Nat /\ Len(s) = n + 1 /\ s[n + 1] = y /\ \A i \in 1 .. n : s[i] = f[i]
  BY Appended
<1>. HIDE DEF s, n
<1>2. Without(s, n + 1) = f
  <2>. DEFINE w == Without(s, n + 1)
  <2>0. n + 1 \in 1 .. Len(s)
    BY <1>1
  <2>1. w \in Seq(S) /\ Len(w) = n /\ \A i \in 1 .. n : w[i] = IF i < n + 1 THEN s[i] ELSE s[i + 1]
    <3>1. w \in Seq(S) /\ Len(w) = Len(s) - 1
          /\ \A i \in 1 .. Len(s) - 1 : w[i] = IF i < n + 1 THEN s[i] ELSE s[i + 1]
      BY <1>1, <2>0, WithoutIs
    <3>2. Len(s) - 1 = n
      BY <1>1
    <3>. QED
      BY <3>1, <3>2
  <2>. HIDE DEF w
  <2>2. \A i \in 1 .. n : w[i] = f[i]
    BY <1>1, <2>1
  <2>3. Len(w) = Len(f)
    BY <2>1 DEF n
  <2>. QED
    BY <2>1, <2>2, <2>3, SameElements DEF w
<1>3. ASSUME NEW p \in 1 .. n
      PROVE  Without(s, p) = Append(Without(f, p), y)
  <2>. DEFINE w == Without(s, p)
              v == Without(f, p)
              u == Append(v, y)
  <2>0. p \in 1 .. Len(s) /\ p \in 1 .. Len(f) /\ Len(s) - 1 = n /\ p \in Nat /\ p < n + 1 /\ n # 0
    BY <1>1 DEF n
  <2>1. w \in Seq(S) /\ Len(w) = n /\ \A i \in 1 .. n : w[i] = IF i < p THEN s[i] ELSE s[i + 1]
    <3>1. w \in Seq(S) /\ Len(w) = Len(s) - 1
          /\ \A i \in 1 .. Len(s) - 1 : w[i] = IF i < p THEN s[i] ELSE s[i + 1]
      BY <1>1, <2>0, WithoutIs
    <3>. QED
      BY <2>0, <3>1
  <2>2. v \in Seq(S) /\ Len(v) = n - 1 /\ \A i \in 1 .. n - 1 : v[i] = IF i < p THEN f[i] ELSE f[i + 1]
    BY <2>0, WithoutIs DEF n
  <2>. HIDE DEF w, v
  <2>3. u \in Seq(S) /\ Len(u) = (n - 1) + 1 /\ u[(n - 1) + 1] = y /\ \A i \in 1 .. n - 1 : u[i] = v[i]
    BY <2>2, Appended
  <2>4. (n - 1) + 1 = n
    BY <1>1
  <2>. HIDE DEF u
  <2>5. \A i \in 1 .. n : w[i] = u[i]
    <3>. TAKE i \in 1 .. n
    <3>1. CASE i = n
      <4>1. w[n] = s[n + 1]
        BY <1>1, <2>0, <2>1
      <4>. QED
        BY <1>1, <2>3, <2>4, <3>1, <4>1
    <3>2. CASE i \in 1 .. n - 1 /\ i < p
      <4>1. w[i] = s[i] /\ v[i] = f[i] /\ u[i] = v[i] /\ s[i] = f[i]
        BY <1>1, <2>1, <2>2, <2>3, <3>2
      <4>. QED
        BY <4>1
    <3>3. CASE i \in 1 .. n - 1 /\ ~(i < p)
      <4>1. i + 1 \in 1 .. n
        BY <1>1, <3>3
      <4>2. w[i] = s[i + 1] /\ v[i] = f[i + 1] /\ u[i] = v[i] /\ s[i + 1] = f[i + 1]
        BY <1>1, <2>1, <2>2, <2>3, <3>3, <4>1
      <4>. QED
        BY <4>2
    <3>4. i = n \/ i \in 1 .. n - 1
      BY <1>1
    <3>. QED
      BY <3>1, <3>2, <3>3, <3>4
  <2>6. Len(w) = Len(u)
    BY <2>1, <2>3, <2>4
  <2>7. \A i \in 1 .. Len(w) : w[i] = u[i]
    BY <2>1, <2>5
  <2>8. w = u
    BY <2>1, <2>3, <2>6, <2>7, SameElements
  <2>. QED
    BY <2>8 DEF w, u, v
<1>. QED
  BY <1>2, <1>3 DEF s, n

(* A part less, and its comma.                                             *)
Shrinks(n) ==
    \A ts \in Seq(Seq(Tokens)) : \A p \in 1 .. Len(ts) :
      Len(ts) = n /\ n # 1 => Len(Commas(ts)) = Len(Commas(Without(ts, p))) + 1 + Len(ts[p])

LEMMA CommaLength ==
    /\ \A ts \in Seq(Seq(Tokens)) : \A x \in Seq(Tokens) :
         ts # <<>> => /\ Len(Commas(Append(ts, x))) = Len(Commas(ts)) + 1 + Len(x)
    /\ \A ts \in Seq(Seq(Tokens)) : Len(Commas(ts)) \in Nat
    /\ \A x \in Seq(Tokens) : Len(x) \in Nat
<1>1. \A ts \in Seq(Seq(Tokens)) : Commas(ts) \in Seq(Tokens)
  BY CommasAre
<1>2. ASSUME NEW ts \in Seq(Seq(Tokens)), NEW x \in Seq(Tokens), ts # <<>>
      PROVE  Len(Commas(Append(ts, x))) = Len(Commas(ts)) + 1 + Len(x)
  <2>. DEFINE a == Commas(ts)
  <2>1. Commas(Append(ts, x)) = a \o Comma \o x /\ a \in Seq(Tokens)
    BY <1>1, <1>2, CommasAre
  <2>2. Comma \in Seq(Tokens) /\ Len(Comma) = 1
    BY SignsAreTokens, OneElement DEF Signs, Comma
  <2>3. Len(a \o Comma \o x) = Len(a) + 1 + Len(x)
    <3>. HIDE DEF a
    <3>1. \A b, c \in Seq(Tokens) : b \o c \in Seq(Tokens) /\ Len(b \o c) = Len(b) + Len(c) /\ Len(b) \in Nat
      OBVIOUS
    <3>2. a \o Comma \in Seq(Tokens) /\ Len(a \o Comma) = Len(a) + 1
      BY <2>1, <2>2, <3>1, ZenonT(60)
    <3>3. Len((a \o Comma) \o x) = Len(a \o Comma) + Len(x)
      BY <3>1, <3>2, Zenon
    <3>. QED
      BY <3>2, <3>3, Zenon
  <2>. QED
    BY <2>1, <2>3, Zenon
<1>3. \A ts \in Seq(Seq(Tokens)) : Len(Commas(ts)) \in Nat
  BY <1>1
<1>4. \A x \in Seq(Tokens) : Len(x) \in Nat
  OBVIOUS
<1>. QED
  BY <1>2, <1>3, <1>4

LEMMA Exchanged ==
    /\ \A a, b \in Nat : a + 1 + b = b + 1 + a
    /\ \A a, b, c \in Nat : (a + 1 + b) + 1 + c = (a + 1 + c) + 1 + b
OBVIOUS

LEMMA AllShrink == \A n \in Nat : Shrinks(n)
<1>. DEFINE N == {n \in Nat : Shrinks(n)}
<1>1. 0 \in N
  <2>1. \A ts \in Seq(Seq(Tokens)) : \A p \in 1 .. Len(ts) : Len(ts) # 0
    OBVIOUS
  <2>2. Shrinks(0)
    BY <2>1 DEF Shrinks
  <2>. QED
    BY <2>2
<1>2. ASSUME NEW n \in Nat, n \in N
      PROVE  n + 1 \in N
  <2>1. SUFFICES ASSUME NEW ts \in Seq(Seq(Tokens)), NEW p \in 1 .. Len(ts), Len(ts) = n + 1, n + 1 # 1
        PROVE  Len(Commas(ts)) = Len(Commas(Without(ts, p))) + 1 + Len(ts[p])
    <3>1. Shrinks(n + 1) => n + 1 \in N
      OBVIOUS
    <3>. HIDE DEF N
    <3>. QED
      BY <3>1, Zenon DEF Shrinks
  <2>2. ts # <<>> /\ n # 0
    BY <2>1
  <2>. DEFINE f == Front(ts)
              y == Last(ts)
  <2>3. /\ ts = Append(f, y) /\ f \in Seq(Seq(Tokens)) /\ y \in Seq(Tokens) /\ Len(f) = n
        /\ \A i \in 1 .. n : ts[i] = f[i]
        /\ y = ts[n + 1]
    <3>1. Len(ts) - 1 = n
      BY <2>1
    <3>2. /\ f \in Seq(Seq(Tokens)) /\ Len(f) = Len(ts) - 1 /\ \A i \in 1 .. Len(ts) - 1 : f[i] = ts[i]
          /\ y = ts[Len(ts)] /\ ts[Len(ts)] \in Seq(Tokens)
      BY <2>2, FrontIs
    <3>3. ts = Append(f, y)
      BY <2>2, FrontAndLast, Zenon
    <3>. HIDE DEF f, y
    <3>. QED
      BY <2>1, <3>1, <3>2, <3>3
  <2>. HIDE DEF f, y
  <2>4. f # <<>>
    BY <2>2, <2>3
  <2>5. Len(Commas(ts)) = Len(Commas(f)) + 1 + Len(y)
    BY <2>3, <2>4, CommaLength
  <2>6. CASE p = n + 1
    <3>1. Without(ts, p) = f
      BY <2>3, <2>6, WithoutAppended
    <3>. QED
      BY <2>3, <2>5, <2>6, <3>1
  <2>7. CASE p # n + 1
    <3>. DEFINE w == Without(f, p)
    <3>1. p \in 1 .. n /\ p \in 1 .. Len(f)
      BY <2>1, <2>3, <2>7
    <3>2. Without(ts, p) = Append(w, y)
      BY <2>3, <3>1, WithoutAppended
    <3>3. w \in Seq(Seq(Tokens)) /\ Len(w) = n - 1
      BY <2>3, <3>1, WithoutIs
    <3>4. ts[p] = f[p] /\ f[p] \in Seq(Tokens)
      BY <2>3, <3>1
    <3>5. CASE n = 1
      <4>1. w = <<>> /\ p = 1
        BY <3>1, <3>3, <3>5
      <4>2. Append(w, y) = <<y>>
        BY <4>1
      <4>3. Commas(Append(w, y)) = y
        BY <2>3, <4>2, CommasAre
      <4>4. f = <<f[1]>>
        BY <2>3, <3>5
      <4>5. Commas(f) = f[1]
        <5>. DEFINE z == f[1]
        <5>1. z \in Seq(Tokens) /\ Commas(<<z>>) = z
          BY <3>4, <4>1, CommasAre
        <5>. QED
          BY <4>4, <5>1, Zenon
      <4>6. Len(y) \in Nat /\ Len(f[1]) \in Nat
        BY <2>3, <3>4, <4>1
      <4>7. Len(Commas(ts)) = Len(f[1]) + 1 + Len(y)
        BY <2>5, <4>5
      <4>8. Len(Commas(Without(ts, p))) = Len(y)
        BY <3>2, <4>3
      <4>9. ts[p] = f[1]
        BY <3>4, <4>1
      <4>10. Len(ts[p]) = Len(f[1])
        BY <4>9, Zenon
      <4>. QED
        BY <4>6, <4>7, <4>8, <4>10, Exchanged, Zenon
    <3>6. CASE n # 1
      <4>1. w # <<>>
        BY <2>2, <3>3, <3>6
      <4>2. Len(Commas(Append(w, y))) = Len(Commas(w)) + 1 + Len(y)
        BY <2>3, <3>3, <4>1, CommaLength
      <4>3. Len(Commas(f)) = Len(Commas(w)) + 1 + Len(f[p])
        BY <1>2, <2>3, <3>1, <3>6 DEF Shrinks
      <4>4. Len(y) \in Nat /\ Len(f[p]) \in Nat /\ Len(Commas(w)) \in Nat
        BY <2>3, <3>3, <3>4, CommaLength
      <4>5. Len(Commas(Without(ts, p))) = Len(Commas(w)) + 1 + Len(y)
        BY <3>2, <4>2
      <4>6. Len(Commas(ts)) = (Len(Commas(w)) + 1 + Len(f[p])) + 1 + Len(y)
        BY <2>5, <4>3
      <4>7. Len(ts[p]) = Len(f[p])
        BY <3>4, Zenon
      <4>. DEFINE a == Len(Commas(w))
                  b == Len(f[p])
                  c == Len(y)
      <4>8. (a + 1 + b) + 1 + c = (a + 1 + c) + 1 + b
        <5>. HIDE DEF a, b, c
        <5>. QED
          BY <4>4, Exchanged, SMTT(30), ZenonT(30) DEF a, b, c
      <4>. QED
        BY <4>5, <4>6, <4>7, <4>8, Zenon
    <3>. QED
      BY <3>5, <3>6
  <2>. QED
    BY <2>6, <2>7
<1>3. \A n \in Nat : n \in N
  BY <1>1, <1>2, Induction
<1>. QED
  BY <1>3

(* What g gives for each element of s.                                     *)
Mapped(s, g) == [i \in 1 .. Len(s) |-> g[s[i]]]

MapsTo(s, T, g, m) == m \in Seq(T) /\ Len(m) = Len(s) /\ \A i \in 1 .. Len(s) : m[i] = g[s[i]]

LEMMA MappedIs ==
    ASSUME NEW S, NEW s \in Seq(S), NEW T, NEW g, \A i \in 1 .. Len(s) : g[s[i]] \in T
    PROVE  MapsTo(s, T, g, Mapped(s, g))
<1>. DEFINE n == Len(s)
            m == [i \in 1 .. n |-> g[s[i]]]
<1>1. n \in Nat /\ m = Mapped(s, g)
  BY DEF Mapped
<1>2. \A i \in 1 .. n : g[s[i]] \in T
  OBVIOUS
<1>. HIDE DEF n
<1>3. m \in [1 .. n -> T] /\ \A i \in 1 .. n : m[i] = g[s[i]]
  BY <1>2
<1>. HIDE DEF m
<1>4. m \in Seq(T) /\ Len(m) = n
  BY <1>1, <1>3
<1>. QED
  BY <1>1, <1>3, <1>4, Zenon DEF n, MapsTo

LEMMA MappedAppended ==
    ASSUME NEW S, NEW s \in Seq(S), NEW x \in S, NEW T, NEW g, \A i \in 1 .. Len(s) : g[s[i]] \in T, g[x] \in T
    PROVE  Mapped(Append(s, x), g) = Append(Mapped(s, g), g[x])
<1>. DEFINE n == Len(s)
            u == Append(s, x)
            a == Mapped(u, g)
            m == Mapped(s, g)
            y == g[x]
            b == Append(m, y)
<1>1. u \in Seq(S) /\ n \in Nat /\ Len(u) = n + 1 /\ u[n + 1] = x /\ \A i \in 1 .. n : u[i] = s[i]
  BY Appended
<1>2. m \in Seq(T) /\ Len(m) = n /\ \A i \in 1 .. n : m[i] = g[s[i]]
  <2>1. MapsTo(s, T, g, m)
    BY MappedIs, Zenon
  <2>. QED
    BY <2>1 DEF MapsTo
<1>. HIDE DEF u, n
<1>3. \A i \in 1 .. n + 1 : i = n + 1 \/ i \in 1 .. n
  BY <1>1
<1>4. \A i \in 1 .. Len(u) : g[u[i]] \in T
  <2>1. \A i \in 1 .. n : g[s[i]] \in T
    BY DEF n
  <2>. QED
    BY <1>1, <1>3, <2>1
<1>5. a \in Seq(T) /\ Len(a) = n + 1 /\ \A i \in 1 .. n + 1 : a[i] = g[u[i]]
  <2>1. a \in Seq(T) /\ Len(a) = Len(u) /\ \A i \in 1 .. Len(u) : a[i] = g[u[i]]
    <3>1. MapsTo(u, T, g, a)
      BY <1>1, <1>4, MappedIs, Zenon
    <3>. QED
      BY <3>1 DEF MapsTo
  <2>. HIDE DEF a
  <2>. QED
    BY <1>1, <2>1
<1>. HIDE DEF a, m, y
<1>6. b \in Seq(T) /\ Len(b) = n + 1 /\ b[n + 1] = y /\ \A i \in 1 .. n : b[i] = m[i]
  <2>1. y \in T
    BY DEF y
  <2>. QED
    BY <1>2, <2>1, Appended
<1>. HIDE DEF b
<1>7. \A i \in 1 .. n + 1 : a[i] = b[i]
  <2>1. a[n + 1] = b[n + 1]
    <3>1. n + 1 \in 1 .. n + 1
      BY <1>1
    <3>2. a[n + 1] = g[u[n + 1]]
      BY <1>5, <3>1, Zenon
    <3>. QED
      BY <1>1, <1>6, <3>2, Zenon DEF y
  <2>2. ASSUME NEW i \in 1 .. n
        PROVE  a[i] = b[i]
    <3>1. i \in 1 .. n + 1
      BY <1>1
    <3>2. a[i] = g[u[i]] /\ u[i] = s[i]
      BY <1>1, <1>5, <3>1, Zenon
    <3>3. b[i] = m[i] /\ m[i] = g[s[i]]
      BY <1>2, <1>6, Zenon
    <3>. QED
      BY <3>2, <3>3, Zenon
  <2>. QED
    BY <1>3, <2>1, <2>2, Zenon
<1>8. a = b
  BY <1>5, <1>6, <1>7, SameElements
<1>. QED
  BY <1>8, Zenon DEF a, b, u, m, y

LEMMA MappedWithout ==
    ASSUME NEW S, NEW s \in Seq(S), NEW p \in 1 .. Len(s), NEW T, NEW g, \A i \in 1 .. Len(s) : g[s[i]] \in T
    PROVE  Mapped(Without(s, p), g) = Without(Mapped(s, g), p)
<1>. DEFINE n == Len(s)
            u == Without(s, p)
            a == Mapped(u, g)
            m == Mapped(s, g)
            b == Without(m, p)
            old(i) == IF i < p THEN i ELSE i + 1
<1>1. u \in Seq(S) /\ n \in Nat /\ Len(u) = n - 1 /\ \A i \in 1 .. n - 1 : u[i] = s[old(i)] /\ old(i) \in 1 .. n
  BY WithoutIs
<1>2. m \in Seq(T) /\ Len(m) = n /\ \A i \in 1 .. n : m[i] = g[s[i]]
  <2>1. MapsTo(s, T, g, m)
    BY MappedIs, Zenon
  <2>. QED
    BY <2>1 DEF MapsTo
<1>3. p \in 1 .. Len(m)
  BY <1>2
<1>. HIDE DEF u, m
<1>4. \A i \in 1 .. Len(u) : g[u[i]] \in T
  BY <1>1
<1>5. b \in Seq(T) /\ Len(b) = n - 1 /\ \A i \in 1 .. n - 1 : b[i] = m[old(i)]
  <2>1. b \in Seq(T) /\ Len(b) = Len(m) - 1 /\ \A i \in 1 .. Len(m) - 1 : b[i] = IF i < p THEN m[i] ELSE m[i + 1]
    BY <1>2, <1>3, WithoutIs
  <2>. HIDE DEF b
  <2>. QED
    BY <1>2, <2>1
<1>6. a \in Seq(T) /\ Len(a) = n - 1 /\ \A i \in 1 .. n - 1 : a[i] = g[u[i]]
  <2>1. a \in Seq(T) /\ Len(a) = Len(u) /\ \A i \in 1 .. Len(u) : a[i] = g[u[i]]
    <3>1. MapsTo(u, T, g, a)
      BY <1>1, <1>4, MappedIs, Zenon
    <3>. QED
      BY <3>1 DEF MapsTo
  <2>. HIDE DEF a
  <2>. QED
    BY <1>1, <2>1
<1>. HIDE DEF a, b, n, old
<1>7. \A i \in 1 .. n - 1 : a[i] = b[i]
  <2>. TAKE i \in 1 .. n - 1
  <2>1. a[i] = g[u[i]] /\ u[i] = s[old(i)] /\ old(i) \in 1 .. n
    BY <1>1, <1>6, Zenon
  <2>2. b[i] = m[old(i)] /\ m[old(i)] = g[s[old(i)]]
    BY <1>2, <1>5, <2>1, Zenon
  <2>. QED
    BY <2>1, <2>2, Zenon
<1>8. a = b
  BY <1>5, <1>6, <1>7, SameElements
<1>. QED
  BY <1>8, Zenon DEF a, b, u, m

(* A member's text for each key, d giving those of the nodes f has.        *)
MemberWords(f, d) == [k \in DOMAIN f |-> MemberWord(k, d[f[k]])]
KeysOf(ks) == {ks[i] : i \in 1 .. Len(ks)}

LEMMA MemberTyped ==
    ASSUME NEW f, DOMAIN f \subseteq Strings, NEW d, NEW D, NEW k \in DOMAIN f, IsValue(d[f[k]], D[f[k]])
    PROVE  /\ MemberWords(f, d)[k] = MemberWord(k, d[f[k]])
           /\ MemberWords(f, d)[k] \in Seq(Tokens) /\ d[f[k]] \in Seq(Tokens)
           /\ Len(MemberWords(f, d)[k]) = Len(d[f[k]]) + 2 /\ Len(d[f[k]]) \in Nat
<1>. DEFINE y == d[f[k]]
<1>1. y \in Seq(Tokens) /\ Len(y) \in Nat
  BY WordsSized
<1>2. k \in Strings /\ MemberWords(f, d)[k] = MemberWord(k, y)
  BY DEF MemberWords
<1>. HIDE DEF y
<1>3. MemberWord(k, y) \in Seq(Tokens) /\ Len(MemberWord(k, y)) = Len(y) + 2
  BY <1>1, <1>2, KeyTyped DEF MemberWord
<1>. QED
  BY <1>1, <1>2, <1>3 DEF y

(* The members of the keys ks, as a value.                                 *)
Members(ks, f, D) == [k \in KeysOf(ks) |-> D[f[k]]]

LEMMA MoreKeys ==
    ASSUME NEW S, NEW ks \in Seq(S), NEW k \in S, NEW f, NEW D
    PROVE  /\ KeysOf(Append(ks, k)) = KeysOf(ks) \cup {k}
           /\ Members(Append(ks, k), f, D) = Put(Members(ks, f, D), k, D[f[k]])
<1>. DEFINE n == Len(ks)
            u == Append(ks, k)
<1>1. u \in Seq(S) /\ n \in Nat /\ Len(u) = n + 1 /\ u[n + 1] = k /\ \A i \in 1 .. n : u[i] = ks[i]
  BY Appended
<1>. HIDE DEF u, n
<1>2. /\ \A i \in 1 .. n + 1 : i = n + 1 \/ i \in 1 .. n
      /\ \A i \in 1 .. n : i \in 1 .. n + 1
      /\ n + 1 \in 1 .. n + 1
  BY <1>1
<1>3. KeysOf(u) = KeysOf(ks) \cup {k}
  <2>1. KeysOf(u) = {u[i] : i \in 1 .. n + 1} /\ KeysOf(ks) = {ks[i] : i \in 1 .. n}
    BY <1>1 DEF KeysOf, n
  <2>2. \A x \in {u[i] : i \in 1 .. n + 1} : x \in {ks[i] : i \in 1 .. n} \cup {k}
    BY <1>1, <1>2
  <2>3. \A x \in {ks[i] : i \in 1 .. n} \cup {k} : x \in {u[i] : i \in 1 .. n + 1}
    BY <1>1, <1>2
  <2>. QED
    BY <2>1, <2>2, <2>3
<1>. DEFINE K == KeysOf(ks)
            F == Members(ks, f, D)
<1>4. F = [j \in K |-> D[f[j]]]
  BY DEF Members
<1>5. Members(u, f, D) = [j \in K \cup {k} |-> D[f[j]]]
  BY <1>3 DEF Members
<1>. HIDE DEF K, F
<1>6. DOMAIN F = K /\ \A j \in K : F[j] = D[f[j]]
  BY <1>4
<1>7. Put(F, k, D[f[k]]) = [j \in K \cup {k} |-> IF j = k THEN D[f[k]] ELSE F[j]]
  BY <1>6 DEF Put
<1>8. \A j \in K \cup {k} : D[f[j]] = IF j = k THEN D[f[k]] ELSE F[j]
  BY <1>6
<1>9. Members(u, f, D) = Put(F, k, D[f[k]])
  BY <1>5, <1>7, <1>8
<1>. QED
  BY <1>3, <1>9, Zenon DEF u, K, F

LEMMA NoKeys == \A f, D : Members(<<>>, f, D) = NoMembers
<1>. TAKE f, D
<1>1. KeysOf(<<>>) = {}
  <2>1. \A i \in 1 .. Len(<<>>) : FALSE
    OBVIOUS
  <2>. QED
    BY <2>1 DEF KeysOf
<1>2. Members(<<>>, f, D) = [k \in {} |-> D[f[k]]]
  BY <1>1 DEF Members
<1>. QED
  BY <1>2 DEF NoMembers

LEMMA ListsOne ==
    ASSUME NEW f, DOMAIN f \subseteq Strings, NEW d, NEW D, NEW k \in DOMAIN f, IsValue(d[f[k]], D[f[k]]),
           Len(MemberWords(f, d)[k]) =< MaxTokens
    PROVE  IsMembers(MemberWords(f, d)[k], Members(<<k>>, f, D))
<1>. DEFINE y == d[f[k]]
            v == D[f[k]]
<1>1. MemberWords(f, d)[k] = MemberWord(k, y) /\ Len(y) + 2 =< MaxTokens
  BY MemberTyped
<1>2. Members(Append(<<>>, k), f, D) = Put(Members(<<>>, f, D), k, v)
  <2>1. <<>> \in Seq(DOMAIN f)
    OBVIOUS
  <2>. QED
    BY <2>1, MoreKeys, ZenonT(60)
<1>3. Members(<<k>>, f, D) = Put(NoMembers, k, v)
  <2>1. Append(<<>>, k) = <<k>>
    OBVIOUS
  <2>. QED
    BY <1>2, <2>1, NoKeys, Zenon
<1>4. k \in Strings
  OBVIOUS
<1>5. IsMembers(MemberWord(k, y), Put(NoMembers, k, v))
  <2>1. IsValue(y, v)
    OBVIOUS
  <2>. HIDE DEF y, v
  <2>. QED
    BY <1>1, <1>4, <2>1, SingleIsMembers
<1>. QED
  BY <1>1, <1>3, <1>5, Zenon DEF y, v

LEMMA ListsMore ==
    ASSUME NEW f, DOMAIN f \subseteq Strings, NEW d, NEW D, NEW k \in DOMAIN f, IsValue(d[f[k]], D[f[k]]),
           NEW ks \in Seq(DOMAIN f), NEW x, IsMembers(x, Members(ks, f, D)),
           Len(x) + 1 + Len(MemberWords(f, d)[k]) =< MaxTokens
    PROVE  IsMembers(x \o Comma \o MemberWords(f, d)[k], Members(Append(ks, k), f, D))
<1>. DEFINE y == d[f[k]]
            v == D[f[k]]
            F == Members(ks, f, D)
<1>1. MemberWords(f, d)[k] = MemberWord(k, y) /\ Len(x) + 1 + (Len(y) + 2) =< MaxTokens
  BY MemberTyped
<1>2. Members(Append(ks, k), f, D) = Over(Put(NoMembers, k, v), F)
  <2>1. Members(Append(ks, k), f, D) = Put(F, k, v)
    BY MoreKeys, ZenonT(60)
  <2>. QED
    BY <2>1, OneMember, Zenon
<1>3. k \in Strings /\ IsValue(y, v) /\ IsMembers(x, F)
  OBVIOUS
<1>. HIDE DEF y, v, F
<1>4. IsMembers(x \o Comma \o MemberWord(k, y), Over(Put(NoMembers, k, v), F))
  BY <1>1, <1>3, MoreIsMembers
<1>. QED
  BY <1>1, <1>2, <1>4, Zenon

(* Each key of ks is of a node whose text d has.                           *)
Known(ks, f, d, D) == \A i \in 1 .. Len(ks) : IsValue(d[f[ks[i]]], D[f[ks[i]]])

LEMMA WordsMapped ==
    ASSUME NEW f, DOMAIN f \subseteq Strings, NEW d, NEW D, NEW ks \in Seq(DOMAIN f), Known(ks, f, d, D)
    PROVE  /\ \A i \in 1 .. Len(ks) : MemberWords(f, d)[ks[i]] \in Seq(Tokens)
           /\ Mapped(ks, MemberWords(f, d)) \in Seq(Seq(Tokens))
           /\ Len(Mapped(ks, MemberWords(f, d))) = Len(ks)
<1>1. \A i \in 1 .. Len(ks) : MemberWords(f, d)[ks[i]] \in Seq(Tokens)
  <2>. TAKE i \in 1 .. Len(ks)
  <2>1. ks[i] \in DOMAIN f /\ IsValue(d[f[ks[i]]], D[f[ks[i]]])
    BY DEF Known
  <2>. QED
    BY <2>1, MemberTyped
<1>. DEFINE g == MemberWords(f, d)
            S == DOMAIN f
            T == Seq(Tokens)
<1>2. \A i \in 1 .. Len(ks) : g[ks[i]] \in T
  BY <1>1
<1>3. ks \in Seq(S)
  OBVIOUS
<1>. HIDE DEF g, S, T
<1>4. MapsTo(ks, T, g, Mapped(ks, g))
  BY <1>2, <1>3, MappedIs, Zenon
<1>5. Mapped(ks, g) \in Seq(T) /\ Len(Mapped(ks, g)) = Len(ks)
  BY <1>4, Zenon DEF MapsTo
<1>. QED
  BY <1>1, <1>5 DEF g, T

LEMMA MappedOne == \A k, g : Mapped(<<k>>, g) = <<g[k]>>
<1>. TAKE k, g
<1>1. Mapped(<<k>>, g) = [i \in 1 .. 1 |-> g[<<k>>[i]]]
  BY DEF Mapped
<1>2. \A i \in 1 .. 1 : i = 1
  OBVIOUS
<1>3. [i \in 1 .. 1 |-> g[<<k>>[i]]] = [i \in 1 .. 1 |-> g[k]]
  BY <1>2
<1>4. \A x : [i \in 1 .. 1 |-> x] = <<x>>
  OBVIOUS
<1>. QED
  BY <1>1, <1>3, <1>4

LEMMA AllList ==
    ASSUME NEW f, DOMAIN f \subseteq Strings, NEW d, NEW D
    PROVE  \A n \in Nat : \A ks \in Seq(DOMAIN f) :
             /\ Len(ks) = n /\ n # 0 /\ Known(ks, f, d, D)
             /\ Len(Commas(Mapped(ks, MemberWords(f, d)))) =< MaxTokens
             => IsMembers(Commas(Mapped(ks, MemberWords(f, d))), Members(ks, f, D))
<1>. DEFINE g == MemberWords(f, d)
            S == DOMAIN f
            P(ks) == /\ Known(ks, f, d, D) /\ Len(Commas(Mapped(ks, g))) =< MaxTokens
                     => IsMembers(Commas(Mapped(ks, g)), Members(ks, f, D))
            N == {n \in Nat : n # 0 => \A ks \in Seq(S) : Len(ks) = n => P(ks)}
<1>1. 0 \in N
  OBVIOUS
<1>2. ASSUME NEW n \in Nat, n \in N
      PROVE  n + 1 \in N
  <2>1. ASSUME NEW ks \in Seq(S), Len(ks) = n + 1, Known(ks, f, d, D), Len(Commas(Mapped(ks, g))) =< MaxTokens
        PROVE  IsMembers(Commas(Mapped(ks, g)), Members(ks, f, D))
    <3>. DEFINE k == Last(ks)
                e == Front(ks)
                x == Commas(Mapped(e, g))
    <3>1. ks # <<>> /\ ks = Append(e, k)
      <4>1. ks # <<>>
        BY <2>1
      <4>. QED
        BY <4>1, FrontAndLast
    <3>2. e \in Seq(S) /\ Len(e) = n /\ k \in S /\ k = ks[n + 1] /\ \A i \in 1 .. n : e[i] = ks[i]
      <4>1. Len(ks) = n + 1 /\ ks # <<>>
        BY <2>1, <3>1
      <4>2. /\ e \in Seq(S) /\ Len(e) = Len(ks) - 1
            /\ \A i \in 1 .. Len(ks) - 1 : e[i] = ks[i]
        BY <4>1, FrontIs
      <4>3. k \in S /\ k = ks[Len(ks)]
        BY <4>1 DEF Last
      <4>. QED
        BY <4>1, <4>2, <4>3
    <3>3. IsValue(d[f[k]], D[f[k]]) /\ Known(e, f, d, D)
      <4>1. n + 1 \in 1 .. Len(ks) /\ \A i \in 1 .. n : i \in 1 .. Len(ks)
        BY <2>1
      <4>. HIDE DEF k, e
      <4>2. \A i \in 1 .. Len(ks) : IsValue(d[f[ks[i]]], D[f[ks[i]]])
        BY <2>1, Zenon DEF Known
      <4>3. IsValue(d[f[ks[n + 1]]], D[f[ks[n + 1]]])
        BY <4>1, <4>2, Zenon
      <4>4. \A i \in 1 .. n : IsValue(d[f[e[i]]], D[f[e[i]]])
        <5>. TAKE i \in 1 .. n
        <5>1. e[i] = ks[i] /\ i \in 1 .. Len(ks)
          BY <3>2, <4>1, Zenon
        <5>. QED
          BY <4>2, <5>1, Zenon
      <4>. QED
        BY <3>2, <4>3, <4>4, Zenon DEF Known
    <3>. HIDE DEF k, e
    <3>4. g[k] \in Seq(Tokens) /\ Len(g[k]) \in Nat
      <4>1. k \in DOMAIN f /\ IsValue(d[f[k]], D[f[k]])
        BY <3>2, <3>3
      <4>2. g[k] \in Seq(Tokens)
        BY <4>1, MemberTyped
      <4>. HIDE DEF g
      <4>. QED
        BY <4>2, CommaLength
    <3>5. CASE n = 0
      <4>1. e = <<>>
        BY <3>2, <3>5
      <4>2. ks = <<k>>
        BY <3>1, <4>1
      <4>. HIDE DEF g
      <4>3. Commas(Mapped(ks, g)) = g[k]
        BY <3>4, <4>2, MappedOne, CommasAre
      <4>4. Len(g[k]) =< MaxTokens
        BY <2>1, <4>3, Zenon
      <4>5. IsMembers(g[k], Members(<<k>>, f, D))
        BY <3>2, <3>3, <4>4, ListsOne, Zenon DEF g
      <4>. QED
        BY <4>2, <4>3, <4>5, Zenon
    <3>6. CASE n # 0
      <4>1. e # <<>>
        BY <3>2, <3>6
      <4>2. /\ \A i \in 1 .. Len(e) : g[e[i]] \in Seq(Tokens)
            /\ Mapped(e, g) \in Seq(Seq(Tokens)) /\ Len(Mapped(e, g)) = Len(e)
        BY <3>2, <3>3, WordsMapped
      <4>3. Mapped(ks, g) = Append(Mapped(e, g), g[k])
        <5>. DEFINE T == Seq(Tokens)
        <5>1. \A i \in 1 .. Len(e) : g[e[i]] \in T
          BY <4>2
        <5>2. g[k] \in T
          BY <3>4
        <5>3. e \in Seq(S) /\ k \in S
          BY <3>2
        <5>. HIDE DEF T, g, S
        <5>4. Mapped(Append(e, k), g) = Append(Mapped(e, g), g[k])
          BY <5>1, <5>2, <5>3, MappedAppended
        <5>. QED
          BY <3>1, <5>4, Zenon
      <4>. HIDE DEF g
      <4>4. Mapped(e, g) # <<>>
        BY <3>2, <3>6, <4>2
      <4>5. Commas(Mapped(ks, g)) = x \o Comma \o g[k]
        BY <3>4, <4>2, <4>3, <4>4, CommasAre
      <4>6. Len(Commas(Mapped(ks, g))) = Len(x) + 1 + Len(g[k]) /\ Len(x) \in Nat
        BY <3>4, <4>2, <4>3, <4>4, CommaLength
      <4>7. Len(x) =< MaxTokens /\ Len(x) + 1 + Len(g[k]) =< MaxTokens
        <5>. DEFINE a == Len(x)
                    b == Len(g[k])
        <5>1. a + 1 + b =< MaxTokens /\ a \in Nat /\ b \in Nat
          BY <2>1, <3>4, <4>6, Zenon
        <5>. HIDE DEF a, b
        <5>2. a =< MaxTokens
          BY <5>1, ParserAssumption
        <5>. QED
          BY <5>1, <5>2, Zenon DEF a, b
      <4>8. IsMembers(x, Members(e, f, D))
        <5>1. \A js \in Seq(S) : Len(js) = n => P(js)
          BY <1>2, <3>6
        <5>2. P(e)
          BY <3>2, <5>1
        <5>. QED
          BY <3>3, <4>7, <5>2
      <4>. HIDE DEF x
      <4>9. IsMembers(x \o Comma \o g[k], Members(Append(e, k), f, D))
        BY <3>2, <3>3, <4>7, <4>8, ListsMore, Zenon DEF g
      <4>. QED
        BY <3>1, <4>5, <4>9, Zenon
    <3>. QED
      BY <3>5, <3>6
  <2>2. \A ks \in Seq(S) : Len(ks) = n + 1 => P(ks)
    BY <2>1
  <2>. HIDE DEF P, S
  <2>. QED
    BY <2>2
<1>. HIDE DEF N
<1>3. \A n \in Nat : n \in N
  BY <1>1, <1>2, Induction
<1>. QED
  BY <1>3, Zenon DEF N

Below(m) == m + 1 .. Len(nodes)
KeysAt(m) == SetToSeq(DOMAIN nodes[m].members)

(* What a node's places are when nodes is a forest.                        *)
LEMMA NodeAt ==
    ASSUME NodesOK(nodes), NEW m \in 1 .. Len(nodes)
    PROVE  /\ nodes[m] \in Nodes /\ Len(nodes) \in Nat
           /\ nodes[m].type = "array" => /\ nodes[m] = ArrayValue(nodes[m].items)
                                         /\ nodes[m].items \in Seq(Below(m))
           /\ nodes[m].type = "object" => /\ nodes[m] = ObjectValue(nodes[m].members)
                                          /\ nodes[m].members \in [DOMAIN nodes[m].members -> Below(m)]
                                          /\ DOMAIN nodes[m].members \subseteq Strings
                                          /\ IsFiniteSet(DOMAIN nodes[m].members)
<1>. DEFINE v == nodes[m]
<1>1. nodes \in Seq(Nodes) /\ Len(nodes) \in Nat /\ v \in Nodes
  BY DEF NodesOK
<1>2. \A j \in DOMAIN Slots(v) : Slots(v)[j] \in Below(m)
  BY DEF NodesOK, Below
<1>3. \A i, j \in DOMAIN Slots(v) : Slots(v)[i] = Slots(v)[j] => i = j
  BY DEF NodesOK
<1>. HIDE DEF v
<1>4. ASSUME v.type = "array"
      PROVE  v = ArrayValue(v.items) /\ v.items \in Seq(Below(m))
  <2>1. v.items \in Seq(Nat) /\ Slots(v) = v.items /\ v = ArrayValue(v.items)
    BY <1>1, <1>4, NodeFacts
  <2>. DEFINE s == v.items
  <2>2. \A j \in DOMAIN s : s[j] \in Below(m)
    BY <1>2, <2>1
  <2>3. s \in Seq(Nat)
    BY <2>1
  <2>. HIDE DEF s
  <2>4. s \in Seq(Below(m))
    BY <2>2, <2>3
  <2>. QED
    BY <2>1, <2>4 DEF s
<1>5. ASSUME v.type = "object"
      PROVE  /\ v = ObjectValue(v.members) /\ v.members \in [DOMAIN v.members -> Below(m)]
             /\ DOMAIN v.members \subseteq Strings /\ IsFiniteSet(DOMAIN v.members)
  <2>. DEFINE f == v.members
              K == DOMAIN f
  <2>1. f \in UNION {[A -> Nat] : A \in SUBSET Strings} /\ Slots(v) = f /\ v = ObjectValue(f)
    BY <1>1, <1>5, NodeFacts
  <2>2. \A j \in K : f[j] \in Below(m)
    BY <1>2, <2>1
  <2>3. \A i, j \in K : f[i] = f[j] => i = j
    BY <1>3, <2>1
  <2>. HIDE DEF f
  <2>4. K \subseteq Strings /\ f = [j \in K |-> f[j]]
    BY <2>1
  <2>5. f \in [K -> Below(m)]
    BY <2>2, <2>4
  <2>6. IsInjective(f)
    BY <2>3 DEF IsInjective
  <2>7. f \in Injection(K, Below(m))
    BY <2>5, <2>6, Zenon DEF Injection
  <2>8. IsFiniteSet(Below(m))
    <3>1. m + 1 \in Int /\ Len(nodes) \in Int
      BY <1>1
    <3>. QED
      BY <3>1, FS_Interval DEF Below
  <2>9. IsFiniteSet(K)
    BY <2>7, <2>8, FS_Injection
  <2>. QED
    BY <2>1, <2>4, <2>5, <2>9 DEF f
<1>. QED
  BY <1>1, <1>4, <1>5 DEF v

LEMMA KeysAre ==
    ASSUME NodesOK(nodes), NEW m \in 1 .. Len(nodes), nodes[m].type = "object"
    PROVE  /\ KeysAt(m) \in Seq(DOMAIN nodes[m].members)
           /\ \A i, j \in 1 .. Len(KeysAt(m)) : KeysAt(m)[i] = KeysAt(m)[j] => i = j
           /\ KeysOf(KeysAt(m)) = DOMAIN nodes[m].members
<1>. DEFINE S == DOMAIN nodes[m].members
            s == KeysAt(m)
<1>1. IsFiniteSet(S)
  BY NodeAt
<1>. HIDE DEF S
<1>2. /\ SetToSeq(S) \in Seq(S)
      /\ \A i, j \in 1 .. Len(SetToSeq(S)) : SetToSeq(S)[i] = SetToSeq(S)[j] => i = j
      /\ \A x \in S : \E i \in 1 .. Len(SetToSeq(S)) : SetToSeq(S)[i] = x
  BY <1>1, SetToSeqIs
<1>3. s = SetToSeq(S)
  BY DEF KeysAt, S
<1>. HIDE DEF s
<1>4. s \in Seq(S) /\ \A i \in 1 .. Len(s) : s[i] \in S
  BY <1>2, <1>3
<1>5. KeysOf(s) = S
  <2>1. \A x \in S : \E i \in 1 .. Len(s) : s[i] = x
    BY <1>2, <1>3, Zenon
  <2>2. {s[i] : i \in 1 .. Len(s)} = S
    BY <1>4, <2>1
  <2>. QED
    BY <2>2, Zenon DEF KeysOf
<1>. QED
  BY <1>2, <1>3, <1>5 DEF S, s

(* What is written of a node.                                              *)
LEMMA DumpOfIs ==
    ASSUME NodesOK(nodes), NEW m \in 1 .. Len(nodes), NEW d
    PROVE  /\ nodes[m].type = "array" => DumpOf(d, m) = Bracketed(Commas(Mapped(nodes[m].items, d)))
           /\ nodes[m].type = "object" =>
                DumpOf(d, m) = Braced(Commas(Mapped(KeysAt(m), MemberWords(nodes[m].members, d))))
           /\ nodes[m].type \notin {"array", "object"} => DumpOf(d, m) = <<nodes[m]>>
<1>. DEFINE v == nodes[m]
<1>1. ASSUME v.type = "array"
      PROVE  DumpOf(d, m) = Bracketed(Commas(Mapped(v.items, d)))
  <2>. DEFINE s == v.items
  <2>1. s \in Seq(Below(m))
    BY <1>1, NodeAt
  <2>. HIDE DEF s
  <2>2. DOMAIN s = 1 .. Len(s)
    BY <2>1
  <2>3. [i \in DOMAIN s |-> d[s[i]]] = Mapped(s, d)
    BY <2>2, Zenon DEF Mapped
  <2>4. DumpOf(d, m) = Bracketed(Commas([i \in DOMAIN s |-> d[s[i]]]))
    BY <1>1 DEF DumpOf, Bracketed, s
  <2>. QED
    BY <2>3, <2>4 DEF s
<1>2. ASSUME v.type = "object"
      PROVE  DumpOf(d, m) = Braced(Commas(Mapped(KeysAt(m), MemberWords(v.members, d))))
  <2>. DEFINE f == v.members
              ks == KeysAt(m)
              K == DOMAIN f
              w(k) == <<k, Sign("name_separator")>> \o d[f[k]]
  <2>1. ks \in Seq(K) /\ ks = SetToSeq(K)
    BY <1>2, KeysAre DEF KeysAt
  <2>2. DumpOf(d, m) = Braced(Commas([i \in DOMAIN ks |-> w(ks[i])]))
    <3>1. ks = SetToSeq(DOMAIN v.members)
      BY <2>1
    <3>. HIDE DEF ks
    <3>. QED
      BY <1>2, <3>1 DEF DumpOf, Braced
  <2>. HIDE DEF ks, f
  <2>3. DOMAIN ks = 1 .. Len(ks) /\ \A i \in 1 .. Len(ks) : ks[i] \in K
    BY <2>1
  <2>4. \A k \in K : MemberWords(f, d)[k] = w(k)
    BY DEF MemberWords, MemberWord
  <2>. HIDE DEF w
  <2>5. \A i \in 1 .. Len(ks) : MemberWords(f, d)[ks[i]] = w(ks[i])
    BY <2>3, <2>4, Zenon
  <2>6. [i \in DOMAIN ks |-> w(ks[i])] = Mapped(ks, MemberWords(f, d))
    BY <2>3, <2>5, Zenon DEF Mapped
  <2>. QED
    BY <2>2, <2>6, Zenon DEF ks, f
<1>3. ASSUME v.type \notin {"array", "object"}
      PROVE  DumpOf(d, m) = <<v>>
  BY <1>3 DEF DumpOf
<1>. QED
  BY <1>1, <1>2, <1>3

(* d is what dump computes: of each node what is written of those below.   *)
Dumps(d) == d = [n \in DOMAIN nodes |-> DumpOf(d, n)]

LEMMA DumpChosen == Dump = (CHOOSE d : Dumps(d))[1]
  BY DEF Dump, Dumps

LEMMA SameDump ==
    ASSUME NodesOK(nodes), NEW m \in 1 .. Len(nodes), NEW d, NEW e, \A k \in Below(m) : d[k] = e[k]
    PROVE  DumpOf(d, m) = DumpOf(e, m)
<1>1. CASE nodes[m].type = "array"
  <2>. DEFINE s == nodes[m].items
  <2>1. s \in Seq(Below(m)) /\ DumpOf(d, m) = Bracketed(Commas(Mapped(s, d)))
        /\ DumpOf(e, m) = Bracketed(Commas(Mapped(s, e)))
    BY <1>1, NodeAt, DumpOfIs
  <2>. HIDE DEF s
  <2>2. \A i \in 1 .. Len(s) : s[i] \in Below(m)
    BY <2>1
  <2>3. \A i \in 1 .. Len(s) : d[s[i]] = e[s[i]]
    BY <2>2
  <2>4. Mapped(s, d) = Mapped(s, e)
    BY <2>3 DEF Mapped
  <2>. QED
    BY <2>1, <2>4, Zenon
<1>2. CASE nodes[m].type = "object"
  <2>. DEFINE f == nodes[m].members
              K == DOMAIN f
  <2>1. /\ f \in [K -> Below(m)]
        /\ DumpOf(d, m) = Braced(Commas(Mapped(KeysAt(m), MemberWords(f, d))))
        /\ DumpOf(e, m) = Braced(Commas(Mapped(KeysAt(m), MemberWords(f, e))))
    BY <1>2, NodeAt, DumpOfIs
  <2>. HIDE DEF f
  <2>2. \A k \in K : MemberWord(k, d[f[k]]) = MemberWord(k, e[f[k]])
    BY <2>1
  <2>3. MemberWords(f, d) = MemberWords(f, e)
    BY <2>2, Zenon DEF MemberWords
  <2>. QED
    BY <2>1, <2>3, Zenon
<1>3. CASE nodes[m].type \notin {"array", "object"}
  BY <1>3, DumpOfIs
<1>. QED
  BY <1>1, <1>2, <1>3

(* The last n nodes are written from those behind them.                    *)
Partly(n, d) ==
    /\ DOMAIN d = 1 .. Len(nodes)
    /\ \A m \in 1 .. Len(nodes) : m > Len(nodes) - n => d[m] = DumpOf(d, m)

LEMMA PartlyMore ==
    ASSUME NodesOK(nodes), NEW n \in Nat, n < Len(nodes), NEW d, Partly(n, d)
    PROVE  \E e : Partly(n + 1, e)
<1>. DEFINE N == Len(nodes)
            a == N - n
            w == DumpOf(d, a)
            e == [m \in 1 .. N |-> IF m = a THEN w ELSE d[m]]
<1>1. N \in Nat /\ nodes \in Seq(Nodes)
  BY DEF NodesOK
<1>2. a \in 1 .. N
  BY <1>1
<1>. HIDE DEF w
<1>3. DOMAIN e = 1 .. N /\ e[a] = w /\ \A m \in 1 .. N : m # a => e[m] = d[m]
  BY <1>2
<1>. HIDE DEF e
<1>4. \A m \in 1 .. N : m >= a => \A k \in Below(m) : k \in 1 .. N /\ k # a
  BY <1>1, <1>2 DEF Below
<1>5. ASSUME NEW m \in 1 .. N, m >= a
      PROVE  DumpOf(e, m) = DumpOf(d, m)
  <2>1. \A k \in Below(m) : e[k] = d[k]
    BY <1>3, <1>4, <1>5
  <2>. HIDE DEF N, a
  <2>2. m \in 1 .. Len(nodes)
    BY DEF N
  <2>. QED
    BY <2>1, <2>2, SameDump
<1>6. ASSUME NEW m \in 1 .. N, m > N - (n + 1)
      PROVE  e[m] = DumpOf(e, m)
  <2>1. m >= a
    BY <1>1, <1>6
  <2>2. DumpOf(e, m) = DumpOf(d, m)
    BY <1>5, <2>1
  <2>3. CASE m = a
    BY <1>3, <2>2, <2>3 DEF w
  <2>4. CASE m # a
    <3>1. m > N - n /\ m \in 1 .. Len(nodes)
      BY <1>1, <2>1, <2>4
    <3>2. d[m] = DumpOf(d, m)
      BY <3>1 DEF Partly
    <3>. QED
      BY <1>3, <2>2, <2>4, <3>2, Zenon
  <2>. QED
    BY <2>3, <2>4
<1>7. Partly(n + 1, e)
  BY <1>3, <1>6 DEF Partly
<1>. QED
  BY <1>7

LEMMA DumpExists ==
    ASSUME NodesOK(nodes)
    PROVE  \E d : Dumps(d)
<1>. DEFINE N == Len(nodes)
            T == {n \in Nat : n =< N => \E d : Partly(n, d)}
<1>1. N \in Nat /\ DOMAIN nodes = 1 .. N
  BY DEF NodesOK
<1>2. 0 \in T
  <2>. DEFINE d == [m \in 1 .. N |-> 0]
  <2>1. DOMAIN d = 1 .. N
    OBVIOUS
  <2>. HIDE DEF d
  <2>2. Partly(0, d)
    BY <1>1, <2>1 DEF Partly
  <2>. QED
    BY <2>2
<1>3. ASSUME NEW n \in Nat, n \in T
      PROVE  n + 1 \in T
  <2>. SUFFICES ASSUME n + 1 =< N
       PROVE  \E d : Partly(n + 1, d)
    OBVIOUS
  <2>1. n < Len(nodes) /\ n =< N
    BY <1>1
  <2>2. PICK d : Partly(n, d)
    BY <1>3, <2>1
  <2>. QED
    BY <2>1, <2>2, PartlyMore
<1>. HIDE DEF T
<1>4. N \in T
  BY <1>1, <1>2, <1>3, Induction
<1>5. PICK d : Partly(N, d)
  BY <1>1, <1>4 DEF T
<1>6. DOMAIN d = 1 .. N /\ \A m \in 1 .. N : d[m] = DumpOf(d, m)
  BY <1>1, <1>5 DEF Partly
<1>. DEFINE e == [n \in DOMAIN nodes |-> d[n]]
<1>7. \A n \in DOMAIN nodes : e[n] = d[n]
  OBVIOUS
<1>8. \A n \in DOMAIN nodes : DumpOf(e, n) = d[n]
  <2>. TAKE n \in DOMAIN nodes
  <2>. HIDE DEF e
  <2>1. n \in 1 .. Len(nodes) /\ \A k \in Below(n) : k \in DOMAIN nodes
    BY <1>1 DEF Below
  <2>2. \A k \in Below(n) : e[k] = d[k]
    BY <1>7, <2>1
  <2>3. DumpOf(e, n) = DumpOf(d, n)
    BY <2>1, <2>2, SameDump
  <2>. QED
    BY <1>1, <1>6, <2>3
<1>9. Dumps(e)
  <2>1. [n \in DOMAIN nodes |-> d[n]] = [n \in DOMAIN nodes |-> DumpOf(e, n)]
    <3>. HIDE DEF e
    <3>. QED
      BY <1>8
  <2>2. e = [n \in DOMAIN nodes |-> DumpOf(e, n)]
    BY <2>1
  <2>. HIDE DEF e
  <2>. QED
    BY <2>2 DEF Dumps
<1>. QED
  BY <1>9

LEMMA DumpIs ==
    ASSUME NodesOK(nodes), nodes # <<>>
    PROVE  \E d : Dump = d[1] /\ \A m \in 1 .. Len(nodes) : d[m] = DumpOf(d, m)
<1>. DEFINE d == CHOOSE e : Dumps(e)
<1>1. Dumps(d)
  BY DumpExists
<1>2. Dump = d[1]
  BY DumpChosen
<1>3. DOMAIN nodes = 1 .. Len(nodes)
  BY DEF NodesOK
<1>. HIDE DEF d
<1>4. \A m \in DOMAIN nodes : d[m] = DumpOf(d, m)
  <2>. TAKE m \in DOMAIN nodes
  <2>. QED
    BY <1>1, Zenon DEF Dumps
<1>. QED
  BY <1>2, <1>3, <1>4

(* d has the tokens, and D the value, of each node.                        *)
Dumped(d, D) ==
    /\ NodesOK(nodes)
    /\ \A m \in 1 .. Len(nodes) : D[m] = Meaning(nodes[m], D) /\ d[m] = DumpOf(d, m)

(* What is written of a value, of items, of members, is a text of it, and  *)
(* not longer than z.                                                      *)
WritesValue(z, d, D) ==
    \A m \in 1 .. Len(nodes) : D[m] = z.value => IsValue(d[m], z.value) /\ Len(d[m]) =< Len(z.text)

WritesItems(z, d, D) ==
    /\ z.value # <<>> /\ \E S : z.value \in Seq(S)
    /\ \A s \in Seq(1 .. Len(nodes)) :
         Mapped(s, D) = z.value => /\ \A i \in 1 .. Len(s) : d[s[i]] \in Seq(Tokens)
                                   /\ IsItems(Commas(Mapped(s, d)), z.value)
                                   /\ Len(Commas(Mapped(s, d))) =< Len(z.text)

Agree(a, u, b, w) == Append(a, u) = Append(b, w)

LEMMA AppendSame ==
    ASSUME NEW S, NEW a \in Seq(S), NEW T, NEW b \in Seq(T), NEW u, NEW w, Agree(a, u, b, w)
    PROVE  a = b /\ u = w
<1>. DEFINE U == S \cup T \cup {u, w}
            x == Append(a, u)
            y == Append(b, w)
            n == Len(a)
<1>1. a \in Seq(U) /\ b \in Seq(U) /\ u \in U /\ w \in U
  OBVIOUS
<1>. HIDE DEF U
<1>2. Len(x) = n + 1 /\ n \in Nat /\ x[n + 1] = u /\ \A i \in 1 .. n : x[i] = a[i]
  BY <1>1, Appended
<1>3. Len(y) = Len(b) + 1 /\ Len(b) \in Nat /\ y[Len(b) + 1] = w /\ \A i \in 1 .. Len(b) : y[i] = b[i]
  BY <1>1, Appended
<1>4. x = y
  BY DEF Agree
<1>. HIDE DEF x, y
<1>5. Len(b) = n
  BY <1>2, <1>3, <1>4
<1>6. u = w /\ \A i \in 1 .. n : a[i] = b[i]
  BY <1>2, <1>3, <1>4, <1>5
<1>7. a = b
  BY <1>1, <1>5, <1>6, SameElements DEF n
<1>. QED
  BY <1>6, <1>7

LEMMA NodeValues ==
    ASSUME NEW s \in Seq(1 .. Len(nodes)), NEW D
    PROVE  \E V : Mapped(s, D) \in Seq(V) /\ Len(Mapped(s, D)) = Len(s) /\ \A i \in 1 .. Len(s) : D[s[i]] \in V
<1>. DEFINE V == {D[m] : m \in 1 .. Len(nodes)}
<1>1. \A i \in 1 .. Len(s) : D[s[i]] \in V
  OBVIOUS
<1>. HIDE DEF V
<1>2. MapsTo(s, V, D, Mapped(s, D))
  BY <1>1, MappedIs
<1>. QED
  BY <1>1, <1>2, Zenon DEF MapsTo

(* One item.                                                               *)
LEMMA OneWritten ==
    ASSUME NEW d, NEW D, NEW v, WritesValue(v, d, D), NEW z, z.text = v.text, z.value = <<v.value>>
    PROVE  WritesItems(z, d, D)
<1>1. z.value # <<>> /\ \E S : z.value \in Seq(S)
  <2>1. <<v.value>> \in Seq({v.value}) /\ <<v.value>> # <<>>
    OBVIOUS
  <2>. QED
    BY <2>1
<1>2. ASSUME NEW s \in Seq(1 .. Len(nodes)), Mapped(s, D) = z.value
      PROVE  /\ \A i \in 1 .. Len(s) : d[s[i]] \in Seq(Tokens)
             /\ IsItems(Commas(Mapped(s, d)), z.value) /\ Len(Commas(Mapped(s, d))) =< Len(z.text)
  <2>1. Len(s) = 1
    <3>1. Len(Mapped(s, D)) = Len(s)
      BY NodeValues, Zenon
    <3>2. Len(<<v.value>>) = 1
      OBVIOUS
    <3>. QED
      BY <1>2, <3>1, <3>2, Zenon
  <2>. DEFINE m == Last(s)
  <2>2. s = <<m>> /\ m \in 1 .. Len(nodes) /\ s[1] = m
    <3>0. s # <<>>
      BY <2>1
    <3>1. s = Append(Front(s), m) /\ Front(s) = <<>> /\ m = s[Len(s)] /\ s[Len(s)] \in 1 .. Len(nodes)
      <4>1. s = Append(Front(s), m)
        BY <3>0, FrontAndLast, Zenon
      <4>2. m = s[Len(s)] /\ s[Len(s)] \in 1 .. Len(nodes) /\ (Front(s) = <<>>) = (Len(s) = 1)
        BY <3>0, FrontIs
      <4>. QED
        BY <2>1, <4>1, <4>2, Zenon
    <3>. HIDE DEF m
    <3>. QED
      BY <2>1, <3>1, AppendedTwo, Zenon
  <2>. HIDE DEF m
  <2>3. <<D[m]>> = <<v.value>>
    BY <1>2, <2>2, MappedOne, Zenon
  <2>4. D[m] = v.value
    BY <2>3
  <2>5. IsValue(d[m], v.value) /\ Len(d[m]) =< Len(v.text)
    BY <2>2, <2>4 DEF WritesValue
  <2>6. Commas(Mapped(s, d)) = d[m]
    <3>1. d[m] \in Seq(Tokens)
      BY <2>5, WordsSized, Zenon
    <3>2. Mapped(s, d) = <<d[m]>>
      BY <2>2, MappedOne, Zenon
    <3>. QED
      BY <3>1, <3>2, CommasAre, Zenon
  <2>7. IsItems(d[m], <<v.value>>)
    BY <2>5, ValueIsItems, Zenon
  <2>8. \A i \in 1 .. Len(s) : d[s[i]] \in Seq(Tokens)
    <3>1. d[m] \in Seq(Tokens)
      BY <2>5, WordsSized, Zenon
    <3>2. \A i \in 1 .. Len(s) : i = 1
      BY <2>1
    <3>. QED
      BY <2>2, <3>1, <3>2, Zenon
  <2>. QED
    BY <2>5, <2>6, <2>7, <2>8, Zenon
<1>. QED
  BY <1>1, <1>2 DEF WritesItems

LEMMA Fits == \A a, b, c, e, m \in Nat : a =< c /\ b =< e /\ c + 1 + e =< m => a + 1 + b =< c + 1 + e /\ a + 1 + b =< m
OBVIOUS

(* One item more.                                                          *)
LEMMA MoreWritten ==
    ASSUME NEW d, NEW D, NEW x, WritesItems(x, d, D), NEW v, WritesValue(v, d, D),
           x.text \in Seq(Tokens), v.text \in Seq(Tokens),
           NEW z, z.text = x.text \o Comma \o v.text, z.value = Append(x.value, v.value), Len(z.text) =< MaxTokens
    PROVE  WritesItems(z, d, D)
<1>0. PICK S : x.value \in Seq(S)
  BY DEF WritesItems
<1>1. z.value # <<>> /\ \E T : z.value \in Seq(T)
  <2>. DEFINE a == x.value
              u == v.value
              T == S \cup {u}
  <2>1. z.value = Append(a, u) /\ a \in Seq(S)
    BY <1>0
  <2>. HIDE DEF a, u
  <2>2. a \in Seq(T) /\ u \in T
    BY <2>1
  <2>. HIDE DEF T
  <2>3. Append(a, u) \in Seq(T) /\ Append(a, u) # <<>>
    BY <2>2, Appended
  <2>. QED
    BY <2>1, <2>3, Zenon
<1>2. ASSUME NEW s \in Seq(1 .. Len(nodes)), Mapped(s, D) = z.value
      PROVE  /\ \A i \in 1 .. Len(s) : d[s[i]] \in Seq(Tokens)
             /\ IsItems(Commas(Mapped(s, d)), z.value) /\ Len(Commas(Mapped(s, d))) =< Len(z.text)
  <2>. DEFINE e == Front(s)
              m == Last(s)
              M == 1 .. Len(nodes)
  <2>1. s # <<>>
    <3>1. Len(Mapped(s, D)) = Len(s)
      BY NodeValues, Zenon
    <3>2. Mapped(<<>>, D) = <<>>
      BY DEF Mapped
    <3>. QED
      BY <1>1, <1>2, <3>2
  <2>2. s = Append(e, m) /\ e \in Seq(M) /\ m \in M
    <3>1. /\ Front(s) \in Seq(M) /\ Last(s) = s[Len(s)] /\ s[Len(s)] \in M
      BY <2>1, FrontIs
    <3>2. s = Append(Front(s), Last(s))
      BY <2>1, FrontAndLast, Zenon
    <3>. QED
      BY <3>1, <3>2
  <2>. HIDE DEF e, m
  <2>3. PICK V : Mapped(s, D) \in Seq(V) /\ \A i \in 1 .. Len(s) : D[s[i]] \in V
    BY NodeValues, Zenon
  <2>4. PICK W : Mapped(e, D) \in Seq(W) /\ \A i \in 1 .. Len(e) : D[e[i]] \in W
    BY <2>2, NodeValues, Zenon
  <2>5. Mapped(s, D) = Append(Mapped(e, D), D[m])
    <3>. DEFINE U == W \cup {D[m]}
    <3>1. (\A i \in 1 .. Len(e) : D[e[i]] \in U) /\ D[m] \in U
      BY <2>4
    <3>. HIDE DEF U, M
    <3>2. Mapped(Append(e, m), D) = Append(Mapped(e, D), D[m])
      BY <2>2, <3>1, MappedAppended
    <3>. QED
      BY <2>2, <3>2, Zenon
  <2>6. Mapped(e, D) = x.value /\ D[m] = v.value
    <3>1. Append(Mapped(e, D), D[m]) = Append(x.value, v.value)
      BY <1>2, <2>5, Zenon
    <3>. DEFINE a == x.value
                u == v.value
                b == Mapped(e, D)
                w == D[m]
    <3>2. a \in Seq(S) /\ b \in Seq(W) /\ Append(b, w) = Append(a, u)
      BY <1>0, <2>4, <3>1
    <3>. HIDE DEF a, u, b, w
    <3>3. a = b /\ u = w
      <4>1. a \in Seq(S)
        BY <3>2
      <4>2. b \in Seq(W)
        BY <3>2
      <4>3. Agree(a, u, b, w)
        BY <3>2, Zenon DEF Agree
      <4>. QED
        BY <4>1, <4>2, <4>3, AppendSame, Zenon
    <3>. QED
      BY <3>3, Zenon DEF a, u, b, w
  <2>. DEFINE y == Commas(Mapped(e, d))
              w == d[m]
  <2>7. IsItems(y, x.value) /\ Len(y) =< Len(x.text)
    BY <2>2, <2>6 DEF WritesItems
  <2>8. IsValue(w, v.value) /\ Len(w) =< Len(v.text)
    BY <2>2, <2>6 DEF WritesValue
  <2>9. e # <<>>
    <3>1. Mapped(<<>>, D) = <<>>
      BY DEF Mapped
    <3>2. x.value # <<>>
      BY DEF WritesItems
    <3>. QED
      BY <2>6, <3>1, <3>2, Zenon
  <2>10. w \in Seq(Tokens) /\ \A i \in 1 .. Len(e) : d[e[i]] \in Seq(Tokens)
    <3>1. w \in Seq(Tokens)
      BY <2>8, WordsSized, Zenon
    <3>2. \A i \in 1 .. Len(e) : d[e[i]] \in Seq(Tokens)
      BY <2>2, <2>6, Zenon DEF WritesItems
    <3>. QED
      BY <3>1, <3>2
  <2>11. \A i \in 1 .. Len(s) : d[s[i]] \in Seq(Tokens)
    <3>1. /\ Len(e) \in Nat /\ Len(s) = Len(e) + 1 /\ s[Len(e) + 1] = m
          /\ \A i \in 1 .. Len(e) : s[i] = e[i]
      BY <2>2, Appended
    <3>2. \A i \in 1 .. Len(s) : i = Len(e) + 1 \/ i \in 1 .. Len(e)
      BY <3>1
    <3>. TAKE i \in 1 .. Len(s)
    <3>3. CASE i = Len(e) + 1
      <4>1. s[i] = m
        BY <3>1, <3>3, Zenon
      <4>. QED
        BY <2>10, <4>1, Zenon
    <3>4. CASE i \in 1 .. Len(e)
      <4>1. s[i] = e[i]
        BY <3>1, <3>4, Zenon
      <4>. QED
        BY <2>10, <3>4, <4>1, Zenon
    <3>. QED
      BY <3>2, <3>3, <3>4, Zenon
  <2>12. Mapped(s, d) = Append(Mapped(e, d), w) /\ Mapped(e, d) \in Seq(Seq(Tokens)) /\ Mapped(e, d) # <<>>
    <3>. DEFINE T == Seq(Tokens)
    <3>1. (\A i \in 1 .. Len(e) : d[e[i]] \in T) /\ d[m] \in T
      BY <2>10
    <3>. HIDE DEF T, M
    <3>2. Mapped(Append(e, m), d) = Append(Mapped(e, d), d[m])
      BY <2>2, <3>1, MappedAppended
    <3>3. MapsTo(e, T, d, Mapped(e, d))
      BY <2>2, <3>1, MappedIs
    <3>4. Mapped(e, d) \in Seq(T) /\ Len(Mapped(e, d)) = Len(e)
      BY <3>3, Zenon DEF MapsTo
    <3>5. Mapped(e, d) # <<>>
      <4>1. Len(e) # 0
        BY <2>2, <2>9
      <4>. QED
        BY <3>4, <4>1
    <3>. QED
      BY <2>2, <3>2, <3>4, <3>5, Zenon DEF T
  <2>13. Commas(Mapped(s, d)) = y \o Comma \o w
    BY <2>10, <2>12, CommasAre
  <2>. HIDE DEF w, y
  <2>14. /\ Len(y \o Comma \o w) = Len(y) + 1 + Len(w) /\ Len(z.text) = Len(x.text) + 1 + Len(v.text)
         /\ Len(y) \in Nat /\ Len(w) \in Nat /\ Len(x.text) \in Nat /\ Len(v.text) \in Nat
    <3>1. y \in Seq(Tokens) /\ w \in Seq(Tokens)
      BY <2>7, <2>10, WordsSized, Zenon
    <3>2. Len(y \o Comma \o w) = Len(y) + 1 + Len(w)
      BY <3>1, CommaTyped
    <3>. DEFINE a == x.text
                b == v.text
    <3>3. a \in Seq(Tokens) /\ b \in Seq(Tokens) /\ z.text = a \o Comma \o b
      OBVIOUS
    <3>. HIDE DEF a, b
    <3>4. Len(a \o Comma \o b) = Len(a) + 1 + Len(b)
      BY <3>3, CommaTyped
    <3>5. Len(y) \in Nat /\ Len(w) \in Nat /\ Len(a) \in Nat /\ Len(b) \in Nat
      BY <3>1, <3>3, CommaLength, Zenon
    <3>. QED
      BY <3>2, <3>3, <3>4, <3>5, Zenon DEF a, b
  <2>15. Len(y) + 1 + Len(w) =< Len(z.text) /\ Len(y) + 1 + Len(w) =< MaxTokens
    <3>. DEFINE a == Len(x.text)
                b == Len(v.text)
    <3>1. a \in Nat /\ b \in Nat /\ a + 1 + b = Len(z.text) /\ a + 1 + b =< MaxTokens
          /\ Len(y) =< a /\ Len(w) =< b
      BY <2>7, <2>8, <2>14, Zenon
    <3>. HIDE DEF a, b
    <3>2. Len(y) + 1 + Len(w) =< a + 1 + b /\ Len(y) + 1 + Len(w) =< MaxTokens
      BY <2>14, <3>1, Fits, ParserAssumption
    <3>. QED
      BY <3>1, <3>2, Zenon
  <2>16. IsItems(y \o Comma \o w, Append(x.value, v.value))
    BY <2>7, <2>8, <2>15, MoreIsItems, Zenon
  <2>. QED
    BY <2>11, <2>13, <2>14, <2>15, <2>16, Zenon
<1>. QED
  BY <1>0, <1>1, <1>2, Zenon DEF WritesItems

Distinct(ks) == \A i, j \in 1 .. Len(ks) : ks[i] = ks[j] => i = j

(* The keys ks of f are keys of h, with nodes that have the values there.  *)
Stand(ks, f, h, D) ==
    \A i \in 1 .. Len(ks) : f[ks[i]] \in 1 .. Len(nodes) /\ ks[i] \in DOMAIN h /\ D[f[ks[i]]] = h[ks[i]]

(* What is written of members, all or some of those of z, is not longer    *)
(* than z, in which a key may come twice.                                  *)
WritesMembers(z, d, D) ==
    /\ DOMAIN z.value \subseteq Strings /\ DOMAIN z.value # {}
    /\ \A f : \A ks \in Seq(DOMAIN f) :
         /\ DOMAIN f \subseteq Strings /\ ks # <<>> /\ Distinct(ks) /\ Stand(ks, f, z.value, D)
         => Known(ks, f, d, D) /\ Len(Commas(Mapped(ks, MemberWords(f, d)))) =< Len(z.text)

LEMMA WithoutDistinct ==
    ASSUME NEW S, NEW s \in Seq(S), Distinct(s), NEW p \in 1 .. Len(s)
    PROVE  /\ Distinct(Without(s, p)) /\ \A i \in 1 .. Len(Without(s, p)) : Without(s, p)[i] # s[p]
           /\ \A i \in 1 .. Len(s) : i = p \/ \E j \in 1 .. Len(Without(s, p)) : Without(s, p)[j] = s[i]
           /\ \A i \in 1 .. Len(Without(s, p)) : \E j \in 1 .. Len(s) : Without(s, p)[i] = s[j]
<1>. DEFINE u == Without(s, p)
            n == Len(s)
            old(i) == IF i < p THEN i ELSE i + 1
            new(i) == IF i < p THEN i ELSE i - 1
<1>1. n \in Nat /\ Len(u) = n - 1 /\ \A i \in 1 .. n - 1 : u[i] = s[old(i)] /\ old(i) \in 1 .. n
  BY WithoutIs
<1>2. \A i, j \in 1 .. n : s[i] = s[j] => i = j
  BY DEF Distinct
<1>. HIDE DEF u
<1>3. \A i, j \in 1 .. n - 1 : (old(i) = old(j) => i = j) /\ old(i) # p
  BY <1>1
<1>4. \A i \in 1 .. n : i = p \/ (new(i) \in 1 .. n - 1 /\ old(new(i)) = i)
  BY <1>1
<1>. HIDE DEF n, old, new
<1>5. \A i, j \in 1 .. n - 1 : u[i] = u[j] => i = j
  BY <1>1, <1>2, <1>3
<1>6. \A i \in 1 .. n - 1 : u[i] # s[p]
  <2>1. p \in 1 .. n
    BY DEF n
  <2>. QED
    BY <1>1, <1>2, <1>3, <2>1
<1>7. \A i \in 1 .. n : i = p \/ \E j \in 1 .. n - 1 : u[j] = s[i]
  <2>. TAKE i \in 1 .. n
  <2>1. CASE i # p
    <3>1. new(i) \in 1 .. n - 1 /\ old(new(i)) = i
      BY <1>4, <2>1
    <3>2. u[new(i)] = s[i]
      BY <1>1, <3>1, Zenon
    <3>. QED
      BY <3>1, <3>2
  <2>. QED
    BY <2>1
<1>8. \A i \in 1 .. n - 1 : \E j \in 1 .. n : u[i] = s[j]
  BY <1>1
<1>9. Distinct(u)
  BY <1>1, <1>5 DEF Distinct
<1>. QED
  BY <1>1, <1>6, <1>7, <1>8, <1>9 DEF u, n

LEMMA KeyWritten ==
    ASSUME NEW d, NEW D, NEW v, WritesValue(v, d, D), NEW f, DOMAIN f \subseteq Strings, NEW k \in DOMAIN f,
           f[k] \in 1 .. Len(nodes), D[f[k]] = v.value, v.text \in Seq(Tokens)
    PROVE  /\ IsValue(d[f[k]], D[f[k]]) /\ MemberWords(f, d)[k] \in Seq(Tokens)
           /\ Len(MemberWords(f, d)[k]) =< Len(v.text) + 2 /\ Len(MemberWords(f, d)[k]) \in Nat
<1>. DEFINE m == f[k]
            g == MemberWords(f, d)
<1>1. IsValue(d[m], v.value) /\ Len(d[m]) =< Len(v.text)
  BY Zenon DEF WritesValue
<1>2. IsValue(d[m], D[m])
  BY <1>1
<1>3. g[k] \in Seq(Tokens) /\ Len(g[k]) = Len(d[m]) + 2 /\ Len(d[m]) \in Nat
  BY <1>2, MemberTyped
<1>4. Len(v.text) \in Nat
  BY CommaLength
<1>. DEFINE a == Len(d[m])
            b == Len(v.text)
            c == Len(g[k])
<1>5. a \in Nat /\ b \in Nat /\ c = a + 2 /\ a =< b
  BY <1>1, <1>3, <1>4, Zenon
<1>. HIDE DEF a, b, c
<1>6. c =< b + 2 /\ c \in Nat
  BY <1>5
<1>. QED
  BY <1>2, <1>3, <1>6, Zenon DEF b, c, g, m

LEMMA SingleWritten ==
    ASSUME NEW d, NEW D, NEW v, WritesValue(v, d, D), v.text \in Seq(Tokens), NEW k \in Strings,
           NEW z, z.text = MemberWord(k, v.text), z.value = Put(NoMembers, k, v.value)
    PROVE  WritesMembers(z, d, D)
<1>. DEFINE h == Put(NoMembers, k, v.value)
<1>1. DOMAIN h = {k} /\ h[k] = v.value
  BY DEF Put, NoMembers
<1>. HIDE DEF h
<1>2. z.value = h
  BY DEF h
<1>3. Len(z.text) = Len(v.text) + 2 /\ Len(v.text) \in Nat
  <2>. DEFINE y == v.text
  <2>1. y \in Seq(Tokens) /\ z.text = MemberWord(k, y)
    OBVIOUS
  <2>. HIDE DEF y
  <2>2. Len(MemberWord(k, y)) = 2 + Len(y) /\ Len(y) \in Nat
    BY <2>1, KeyTyped DEF MemberWord
  <2>3. Len(MemberWord(k, y)) = Len(y) + 2
    BY <2>2
  <2>. QED
    BY <2>1, <2>2, <2>3, Zenon DEF y
<1>4. ASSUME NEW f, NEW ks \in Seq(DOMAIN f), DOMAIN f \subseteq Strings, ks # <<>>, Distinct(ks),
             Stand(ks, f, h, D)
      PROVE  Known(ks, f, d, D) /\ Len(Commas(Mapped(ks, MemberWords(f, d)))) =< Len(z.text)
  <2>. DEFINE n == Len(ks)
              g == MemberWords(f, d)
  <2>1. n \in Nat /\ n # 0 /\ \A i \in 1 .. n : ks[i] \in DOMAIN f
    BY <1>4
  <2>2. \A i \in 1 .. n : ks[i] = k /\ f[ks[i]] \in 1 .. Len(nodes) /\ D[f[ks[i]]] = v.value
    <3>. TAKE i \in 1 .. n
    <3>1. f[ks[i]] \in 1 .. Len(nodes) /\ ks[i] \in DOMAIN h /\ D[f[ks[i]]] = h[ks[i]]
      BY <1>4, Zenon DEF Stand
    <3>2. ks[i] = k
      BY <1>1, <3>1
    <3>. QED
      BY <1>1, <3>1, <3>2, Zenon
  <2>3. n = 1
    <3>. SUFFICES ASSUME n # 1
         PROVE  FALSE
      OBVIOUS
    <3>1. 1 \in 1 .. n /\ 2 \in 1 .. n
      <4>1. n \in Nat /\ n # 0 /\ n # 1
        BY <2>1
      <4>. HIDE DEF n
      <4>. QED
        BY <4>1
    <3>2. ks[1] = ks[2]
      BY <2>2, <3>1
    <3>3. 1 = 2
      BY <1>4, <3>1, <3>2 DEF Distinct
    <3>. QED
      BY <3>3
  <2>4. 1 \in 1 .. n /\ \A i \in 1 .. n : i = 1
    BY <2>3
  <2>5. ks = <<k>> /\ k \in DOMAIN f /\ f[k] \in 1 .. Len(nodes) /\ D[f[k]] = v.value
    <3>1. ks[1] = k
      BY <2>2, <2>4
    <3>2. <<k>> \in Seq(DOMAIN f) /\ Len(<<k>>) = 1 /\ <<k>>[1] = k
      <4>1. k \in DOMAIN f
        BY <2>1, <2>4, <3>1
      <4>. QED
        BY <4>1
    <3>3. \A i \in 1 .. n : ks[i] = <<k>>[i]
      BY <2>4, <3>1, <3>2
    <3>4. ks = <<k>>
      BY <2>3, <3>2, <3>3, SameElements
    <3>5. f[ks[1]] \in 1 .. Len(nodes) /\ D[f[ks[1]]] = v.value /\ ks[1] \in DOMAIN f
      BY <2>1, <2>2, <2>4
    <3>. QED
      BY <3>1, <3>4, <3>5, Zenon
  <2>6. IsValue(d[f[k]], D[f[k]]) /\ g[k] \in Seq(Tokens) /\ Len(g[k]) =< Len(v.text) + 2
    BY <1>4, <2>5, KeyWritten
  <2>7. Known(ks, f, d, D)
    BY <2>2, <2>6 DEF Known
  <2>. HIDE DEF g
  <2>8. Commas(Mapped(ks, g)) = g[k]
    BY <2>5, <2>6, MappedOne, CommasAre, Zenon
  <2>. QED
    BY <1>3, <2>6, <2>7, <2>8, Zenon DEF g
<1>5. DOMAIN h \subseteq Strings /\ DOMAIN h # {}
  BY <1>1
<1>. QED
  BY <1>2, <1>4, <1>5, Zenon DEF WritesMembers

LEMMA Room == \A a, b, c, e, m \in Nat : /\ a =< c /\ b =< e /\ m = c + 1 + e
                                         => a + 1 + b =< m /\ a =< m /\ b =< m
OBVIOUS

(* One member more, which may replace an earlier one of the same key.      *)
LEMMA MemberMoreWritten ==
    ASSUME NEW d, NEW D, NEW x, WritesMembers(x, d, D), x.text \in Seq(Tokens),
           NEW v, WritesValue(v, d, D), v.text \in Seq(Tokens), NEW k \in Strings,
           NEW s, s.text = MemberWord(k, v.text), s.value = Put(NoMembers, k, v.value),
           NEW z, z.text = x.text \o Comma \o s.text, z.value = Over(s.value, x.value)
    PROVE  WritesMembers(z, d, D)
<1>. DEFINE e == x.value
            u == v.value
            h == Put(e, k, u)
            A == Len(x.text)
            B == Len(v.text) + 2
            C == Len(z.text)
<1>1. z.value = h
  <2>1. Over(Put(NoMembers, k, u), e) = Put(e, k, u)
    <3>. HIDE DEF u, e
    <3>. QED
      BY OneMember, ZenonT(60)
  <2>. QED
    BY <2>1
<1>2. DOMAIN h = DOMAIN e \cup {k} /\ h[k] = u /\ \A j \in DOMAIN e : j # k => h[j] = e[j]
  BY DEF Put
<1>3. DOMAIN e \subseteq Strings /\ DOMAIN e # {}
  BY DEF WritesMembers
<1>4. A \in Nat /\ B \in Nat /\ C \in Nat /\ C = A + 1 + B
  <2>. DEFINE a == x.text
              b == v.text
              w == MemberWord(k, b)
  <2>1. a \in Seq(Tokens) /\ b \in Seq(Tokens) /\ z.text = a \o Comma \o w
    OBVIOUS
  <2>. HIDE DEF a, b, w
  <2>2. w \in Seq(Tokens) /\ Len(w) = 2 + Len(b)
    BY <2>1, KeyTyped DEF w, MemberWord
  <2>3. Len(a \o Comma \o w) = Len(a) + 1 + Len(w) /\ Len(a) \in Nat /\ Len(b) \in Nat
    BY <2>1, <2>2, CommaTyped, CommaLength, Zenon
  <2>4. Len(a \o Comma \o w) = Len(a) + 1 + (Len(b) + 2)
    BY <2>2, <2>3
  <2>5. C = Len(a \o Comma \o w) /\ A = Len(a) /\ B = Len(b) + 2
    BY <2>1, Zenon DEF a, b
  <2>. HIDE DEF A, B, C
  <2>. QED
    BY <2>3, <2>4, <2>5
<1>. HIDE DEF h, A, B, C
<1>5. ASSUME NEW f, NEW ks \in Seq(DOMAIN f), DOMAIN f \subseteq Strings, ks # <<>>, Distinct(ks),
             Stand(ks, f, h, D)
      PROVE  Known(ks, f, d, D) /\ Len(Commas(Mapped(ks, MemberWords(f, d)))) =< C
  <2>. DEFINE n == Len(ks)
              g == MemberWords(f, d)
              S == DOMAIN f
              G == Len(Commas(Mapped(ks, g)))
  <2>1. n \in Nat /\ n # 0 /\ \A i \in 1 .. n : ks[i] \in DOMAIN f
    BY <1>5
  <2>2. \A i \in 1 .. n : f[ks[i]] \in 1 .. Len(nodes) /\ ks[i] \in DOMAIN h /\ D[f[ks[i]]] = h[ks[i]]
    BY <1>5, Zenon DEF Stand
  <2>3. CASE \A i \in 1 .. n : ks[i] # k
    <3>1. Stand(ks, f, e, D)
      BY <1>2, <2>2, <2>3 DEF Stand
    <3>2. Known(ks, f, d, D) /\ G =< A
      BY <1>5, <3>1 DEF WritesMembers, A
    <3>3. G \in Nat
      <4>. HIDE DEF g
      <4>1. Mapped(ks, g) \in Seq(Seq(Tokens))
        BY <1>5, <3>2, WordsMapped DEF g
      <4>. QED
        BY <4>1, CommaLength
    <3>. HIDE DEF G
    <3>4. G =< C
      BY <1>4, <3>2, <3>3
    <3>. QED
      BY <3>2, <3>4 DEF G
  <2>4. ASSUME NEW p \in 1 .. n, ks[p] = k
        PROVE  Known(ks, f, d, D) /\ G =< C
    <3>. DEFINE js == Without(ks, p)
                w == g[k]
    <3>1. k \in S /\ f[k] \in 1 .. Len(nodes) /\ D[f[k]] = u
      <4>1. f[ks[p]] \in 1 .. Len(nodes) /\ D[f[ks[p]]] = h[ks[p]] /\ ks[p] \in S
        BY <2>1, <2>2
      <4>. QED
        BY <1>2, <2>4, <4>1, Zenon
    <3>2. IsValue(d[f[k]], D[f[k]]) /\ w \in Seq(Tokens) /\ Len(w) =< B /\ Len(w) \in Nat
      BY <1>5, <3>1, KeyWritten DEF B
    <3>3. /\ Distinct(js) /\ \A i \in 1 .. Len(js) : js[i] # k
          /\ \A i \in 1 .. Len(ks) : i = p \/ \E j \in 1 .. Len(js) : js[j] = ks[i]
          /\ \A i \in 1 .. Len(js) : \E j \in 1 .. Len(ks) : js[i] = ks[j]
      BY <1>5, <2>4, WithoutDistinct
    <3>4. js \in Seq(S) /\ Len(js) = n - 1
      BY <1>5, WithoutIs
    <3>. HIDE DEF js, w
    <3>5. js # <<>> => Known(js, f, d, D) /\ Len(Commas(Mapped(js, g))) =< A
      <4>. HAVE js # <<>>
      <4>1. Stand(js, f, e, D)
        <5>. SUFFICES ASSUME NEW i \in 1 .. Len(js)
             PROVE  f[js[i]] \in 1 .. Len(nodes) /\ js[i] \in DOMAIN e /\ D[f[js[i]]] = e[js[i]]
          BY DEF Stand
        <5>1. PICK j \in 1 .. n : js[i] = ks[j]
          BY <3>3
        <5>2. f[js[i]] \in 1 .. Len(nodes) /\ js[i] \in DOMAIN h /\ D[f[js[i]]] = h[js[i]]
          BY <2>2, <5>1
        <5>3. js[i] # k
          BY <3>3
        <5>. QED
          BY <1>2, <5>2, <5>3
      <4>. QED
        BY <1>5, <3>3, <3>4, <4>1 DEF WritesMembers, A
    <3>6. Known(ks, f, d, D)
      <4>. SUFFICES ASSUME NEW i \in 1 .. Len(ks)
           PROVE  IsValue(d[f[ks[i]]], D[f[ks[i]]])
        BY DEF Known
      <4>1. CASE i = p
        <5>1. ks[i] = k
          BY <2>4, <4>1
        <5>. QED
          BY <3>2, <5>1, Zenon
      <4>2. CASE \E j \in 1 .. Len(js) : js[j] = ks[i]
        <5>1. PICK j \in 1 .. Len(js) : js[j] = ks[i]
          BY <4>2
        <5>2. js # <<>>
          BY <5>1
        <5>3. IsValue(d[f[js[j]]], D[f[js[j]]])
          BY <3>5, <5>2 DEF Known
        <5>. QED
          BY <5>1, <5>3, Zenon
      <4>. QED
        BY <3>3, <4>1, <4>2
    <3>7. /\ \A i \in 1 .. Len(ks) : g[ks[i]] \in Seq(Tokens)
          /\ Mapped(ks, g) \in Seq(Seq(Tokens)) /\ Len(Mapped(ks, g)) = n
      BY <1>5, <3>6, WordsMapped
    <3>8. Mapped(ks, g)[p] = w
      <4>1. Mapped(ks, g)[p] = g[ks[p]]
        BY DEF Mapped
      <4>. QED
        BY <2>4, <4>1, Zenon DEF w
    <3>9. CASE n = 1
      <4>1. G = Len(w)
        <5>1. p = 1
          BY <3>9
        <5>2. ks = <<k>>
          <6>1. Len(<<k>>) = 1 /\ <<k>> \in Seq(S) /\ <<k>>[1] = k
            BY <3>1, OneElement
          <6>2. \A i \in 1 .. n : ks[i] = <<k>>[i]
            <7>1. \A i \in 1 .. n : i = 1
              BY <3>9
            <7>. QED
              BY <2>4, <5>1, <6>1, <7>1, Zenon
          <6>. QED
            BY <1>5, <3>9, <6>1, <6>2, SameElements
        <5>. HIDE DEF g
        <5>3. Commas(Mapped(ks, g)) = w
          BY <3>2, <5>2, MappedOne, CommasAre, Zenon DEF w
        <5>. QED
          BY <5>3, Zenon
      <4>. HIDE DEF G
      <4>. QED
        BY <1>4, <3>2, <3>6, <4>1
    <3>10. CASE n # 1
      <4>1. js # <<>>
        <5>1. Len(js) # 0
          <6>. HIDE DEF n
          <6>. QED
            BY <2>1, <3>4, <3>10
        <5>. QED
          BY <5>1
      <4>. DEFINE H == Len(Commas(Mapped(js, g)))
      <4>2. Known(js, f, d, D) /\ H =< A
        BY <3>5, <4>1
      <4>3. H \in Nat
        <5>. HIDE DEF g
        <5>1. Mapped(js, g) \in Seq(Seq(Tokens))
          BY <1>5, <3>4, <4>2, WordsMapped DEF g
        <5>. QED
          BY <5>1, CommaLength
      <4>4. G = H + 1 + Len(w)
        <5>1. Mapped(js, g) = Without(Mapped(ks, g), p)
          <6>. DEFINE T == Seq(Tokens)
          <6>1. \A i \in 1 .. Len(ks) : g[ks[i]] \in T
            BY <3>7
          <6>2. p \in 1 .. Len(ks) /\ ks \in Seq(S)
            BY <1>5
          <6>. HIDE DEF T, g, S
          <6>. QED
            BY <6>1, <6>2, MappedWithout DEF js
        <5>2. p \in 1 .. Len(Mapped(ks, g)) /\ n \in Nat /\ Len(Mapped(ks, g)) = n
          BY <2>1, <3>7
        <5>3. Shrinks(n)
          BY <2>1, AllShrink
        <5>. HIDE DEF g, n
        <5>4. Len(Commas(Mapped(ks, g))) = Len(Commas(Without(Mapped(ks, g), p))) + 1 + Len(Mapped(ks, g)[p])
          BY <3>7, <3>10, <5>2, <5>3, Zenon DEF Shrinks
        <5>. QED
          BY <3>8, <5>1, <5>4, Zenon
      <4>. HIDE DEF G, H
      <4>5. G =< C
        BY <1>4, <3>2, <4>2, <4>3, <4>4
      <4>. QED
        BY <3>6, <4>5
    <3>. QED
      BY <3>9, <3>10
  <2>. QED
    BY <2>3, <2>4
<1>6. DOMAIN h \subseteq Strings /\ DOMAIN h # {}
  BY <1>2, <1>3
<1>. QED
  BY <1>1, <1>5, <1>6, Zenon DEF WritesMembers, C

(* The node m of an array of items s, of an object of members h.           *)
ArrayAt(m, s, d, D) ==
    /\ nodes[m].items \in Seq(1 .. Len(nodes)) /\ Mapped(nodes[m].items, D) = s
    /\ d[m] = Bracketed(Commas(Mapped(nodes[m].items, d)))
ObjectAt(m, h, d, D) ==
    /\ nodes[m].type = "object" /\ h = [k \in DOMAIN nodes[m].members |-> D[nodes[m].members[k]]]
    /\ DOMAIN nodes[m].members \subseteq Strings
    /\ \A k \in DOMAIN nodes[m].members : nodes[m].members[k] \in 1 .. Len(nodes)
    /\ d[m] = Braced(Commas(Mapped(KeysAt(m), MemberWords(nodes[m].members, d))))

LEMMA NodeOf ==
    ASSUME NEW d, NEW D, Dumped(d, D), NEW m \in 1 .. Len(nodes)
    PROVE  /\ \A t \in Scalars : D[m] = t => d[m] = <<t>>
           /\ \A s : D[m] = ArrayValue(s) => ArrayAt(m, s, d, D)
           /\ \A h : D[m] = ObjectValue(h) => ObjectAt(m, h, d, D)
<1>. DEFINE v == nodes[m]
            N == 1 .. Len(nodes)
<1>1. NodesOK(nodes) /\ D[m] = Meaning(v, D) /\ d[m] = DumpOf(d, m)
  BY DEF Dumped
<1>2. /\ v \in Nodes
      /\ v.type = "array" => v = ArrayValue(v.items) /\ v.items \in Seq(Below(m))
      /\ v.type = "object" => /\ v.members \in [DOMAIN v.members -> Below(m)]
                              /\ DOMAIN v.members \subseteq Strings
  BY <1>1, NodeAt
<1>3. Below(m) \subseteq N
  <2>1. Len(nodes) \in Nat
    BY <1>1, NodeAt
  <2>. QED
    BY <2>1 DEF Below
<1>4. /\ v.type = "array" => d[m] = Bracketed(Commas(Mapped(v.items, d)))
      /\ v.type = "object" => d[m] = Braced(Commas(Mapped(KeysAt(m), MemberWords(v.members, d))))
      /\ v.type \notin {"array", "object"} => d[m] = <<v>>
  BY <1>1, DumpOfIs
<1>5. /\ \A s : ArrayValue(s).type = "array" /\ ArrayValue(s).items = s
      /\ \A h : ObjectValue(h).type = "object" /\ ObjectValue(h).members = h
      /\ \A t \in Scalars : t.type \notin {"array", "object"}
  BY ParserAssumption DEF ArrayValue, ObjectValue
<1>6. D[m].type = v.type
  BY <1>1, <1>5, Zenon DEF Meaning
<1>7. v.type = "array" => D[m] = ArrayValue(Mapped(v.items, D))
  <2>. HAVE v.type = "array"
  <2>. DEFINE s == v.items
  <2>1. s \in Seq(Below(m)) /\ Slots(v) = s
    BY <1>2 DEF Slots
  <2>. HIDE DEF s
  <2>2. DOMAIN s = 1 .. Len(s)
    BY <2>1
  <2>3. Inside(v, D) = [j \in DOMAIN s |-> D[s[j]]]
    BY <2>1 DEF Inside
  <2>4. Inside(v, D) = Mapped(s, D)
    BY <2>2, <2>3 DEF Mapped
  <2>5. D[m] = ArrayValue(Inside(v, D))
    BY <1>1 DEF Meaning
  <2>. QED
    BY <2>4, <2>5, Zenon DEF s
<1>8. v.type = "object" => D[m] = ObjectValue([k \in DOMAIN v.members |-> D[v.members[k]]])
  <2>. HAVE v.type = "object"
  <2>1. Slots(v) = v.members
    BY DEF Slots
  <2>2. Inside(v, D) = [k \in DOMAIN v.members |-> D[v.members[k]]]
    BY <2>1 DEF Inside
  <2>3. D[m] = ObjectValue(Inside(v, D))
    BY <1>1 DEF Meaning
  <2>. QED
    BY <2>2, <2>3, Zenon
<1>9. v.type \notin {"array", "object"} => D[m] = v
  BY <1>1 DEF Meaning
<1>10. ASSUME NEW t \in Scalars, D[m] = t
       PROVE  d[m] = <<t>>
  <2>1. v.type \notin {"array", "object"}
    BY <1>5, <1>6, <1>10
  <2>. QED
    BY <1>4, <1>9, <1>10, <2>1
<1>11. ASSUME NEW s, D[m] = ArrayValue(s)
       PROVE  ArrayAt(m, s, d, D)
  <2>1. v.type = "array"
    BY <1>5, <1>6, <1>11
  <2>2. ArrayValue(Mapped(v.items, D)) = ArrayValue(s)
    BY <1>7, <1>11, <2>1
  <2>3. Mapped(v.items, D) = s
    BY <1>5, <2>2
  <2>4. v.items \in Seq(N)
    BY <1>2, <1>3, <2>1
  <2>. QED
    BY <1>4, <2>1, <2>3, <2>4 DEF ArrayAt
<1>12. ASSUME NEW h, D[m] = ObjectValue(h)
       PROVE  ObjectAt(m, h, d, D)
  <2>1. v.type = "object"
    BY <1>5, <1>6, <1>12
  <2>2. ObjectValue([k \in DOMAIN v.members |-> D[v.members[k]]]) = ObjectValue(h)
    BY <1>8, <1>12, <2>1
  <2>. DEFINE g == [k \in DOMAIN v.members |-> D[v.members[k]]]
  <2>3. g = h
    <3>1. ObjectValue(g) = ObjectValue(h)
      BY <2>2
    <3>. HIDE DEF g
    <3>. QED
      BY <1>5, <3>1
  <2>4. \A k \in DOMAIN v.members : v.members[k] \in N
    BY <1>2, <1>3, <2>1
  <2>. QED
    BY <1>2, <1>4, <2>1, <2>3, <2>4 DEF ObjectAt
<1>. QED
  BY <1>10, <1>11, <1>12

LEMMA AroundLength ==
    ASSUME NEW x \in Seq(Tokens)
    PROVE  Len(Bracketed(x)) = Len(x) + 2 /\ Len(Braced(x)) = Len(x) + 2 /\ Len(x) \in Nat
<1>1. {"begin_array", "end_array", "begin_object", "end_object"} \subseteq Signs
  BY DEF Signs
<1>. QED
  BY <1>1, AroundTyped, CommaLength DEF Bracketed, Braced

LEMMA Within2 == \A a, b, m \in Nat : a =< b /\ b + 2 =< m => a + 2 =< b + 2 /\ a + 2 =< m
OBVIOUS

(* A scalar, ...                                                           *)
LEMMA ScalarWritten ==
    ASSUME NEW d, NEW D, Dumped(d, D), NEW t \in Scalars, t.type # "overflow",
           NEW z, z.text = <<t>>, z.value = t, 1 =< MaxTokens
    PROVE  WritesValue(z, d, D)
<1>. SUFFICES ASSUME NEW m \in 1 .. Len(nodes), D[m] = t
     PROVE  IsValue(d[m], t) /\ Len(d[m]) =< Len(<<t>>)
  BY DEF WritesValue
<1>1. d[m] = <<t>>
  BY NodeOf
<1>2. IsValue(<<t>>, t) /\ Len(<<t>>) = 1
  BY ScalarIsValue
<1>. QED
  BY <1>1, <1>2

(* ... an array, ...                                                       *)
LEMMA ArrayWritten ==
    ASSUME NEW d, NEW D, Dumped(d, D), NEW x, x.text \in Seq(Tokens),
           WritesItems(x, d, D) \/ (x.text = <<>> /\ x.value = <<>>),
           NEW z, z.text = Bracketed(x.text), z.value = ArrayValue(x.value), Len(z.text) =< MaxTokens
    PROVE  WritesValue(z, d, D)
<1>. SUFFICES ASSUME NEW m \in 1 .. Len(nodes), D[m] = z.value
     PROVE  IsValue(d[m], z.value) /\ Len(d[m]) =< Len(z.text)
  BY DEF WritesValue
<1>. DEFINE s == nodes[m].items
            y == Commas(Mapped(s, d))
            a == x.value
            b == Len(x.text)
            c == Len(z.text)
<1>1. D[m] = ArrayValue(a)
  OBVIOUS
<1>2. s \in Seq(1 .. Len(nodes)) /\ Mapped(s, D) = a /\ d[m] = Bracketed(y)
  <2>. HIDE DEF a
  <2>1. ArrayAt(m, a, d, D)
    BY <1>1, NodeOf, Zenon
  <2>. QED
    BY <2>1, Zenon DEF ArrayAt
<1>3. c = b + 2 /\ b \in Nat /\ c =< MaxTokens
  <2>. DEFINE w == x.text
  <2>1. w \in Seq(Tokens) /\ z.text = Bracketed(w)
    OBVIOUS
  <2>. HIDE DEF w
  <2>2. Len(Bracketed(w)) = Len(w) + 2 /\ Len(w) \in Nat
    BY <2>1, AroundLength
  <2>. QED
    BY <2>1, <2>2, Zenon DEF w
<1>4. (IsItems(y, a) \/ (y = <<>> /\ a = <<>>)) /\ y \in Seq(Tokens) /\ Len(y) =< b
  <2>1. CASE WritesItems(x, d, D)
    <3>1. IsItems(y, a) /\ Len(y) =< b
      BY <1>2, <2>1, Zenon DEF WritesItems
    <3>. QED
      BY <3>1, WordsSized, Zenon
  <2>2. CASE x.text = <<>> /\ x.value = <<>>
    <3>1. Len(s) = 0
      <4>1. Len(Mapped(s, D)) = Len(s)
        BY <1>2, NodeValues
      <4>2. Len(<<>>) = 0
        OBVIOUS
      <4>. HIDE DEF s
      <4>. QED
        BY <1>2, <2>2, <4>1, <4>2, Zenon
    <3>2. s = <<>>
      BY <1>2, <3>1
    <3>3. Mapped(<<>>, d) = <<>>
      BY DEF Mapped
    <3>4. y = <<>>
      BY <3>2, <3>3, CommasAre, Zenon
    <3>5. <<>> \in Seq(Tokens) /\ Len(<<>>) =< 0
      OBVIOUS
    <3>6. b = 0
      BY <2>2
    <3>. HIDE DEF y, b, a
    <3>. QED
      BY <2>2, <3>4, <3>5, <3>6 DEF a
  <2>. QED
    BY <2>1, <2>2
<1>. HIDE DEF y, a, b, c, s
<1>5. Len(Bracketed(y)) = Len(y) + 2 /\ Len(y) \in Nat
  BY <1>4, AroundLength
<1>6. Len(y) + 2 =< b + 2 /\ Len(y) + 2 =< MaxTokens
  BY <1>3, <1>4, <1>5, Within2, ParserAssumption
<1>7. IsValue(Bracketed(y), ArrayValue(a))
  BY <1>4, <1>6, ArrayIsValue, Zenon
<1>8. Len(Bracketed(y)) =< c
  BY <1>3, <1>5, <1>6, Zenon
<1>. QED
  BY <1>2, <1>7, <1>8, Zenon DEF a, c

(* ... and an object.                                                      *)
LEMMA ObjectWritten ==
    ASSUME NEW d, NEW D, Dumped(d, D), NEW x, x.text \in Seq(Tokens),
           WritesMembers(x, d, D) \/ (x.text = <<>> /\ x.value = NoMembers),
           NEW z, z.text = Braced(x.text), z.value = ObjectValue(x.value), Len(z.text) =< MaxTokens
    PROVE  WritesValue(z, d, D)
<1>. SUFFICES ASSUME NEW m \in 1 .. Len(nodes), D[m] = z.value
     PROVE  IsValue(d[m], z.value) /\ Len(d[m]) =< Len(z.text)
  BY DEF WritesValue
<1>. DEFINE f == nodes[m].members
            S == DOMAIN f
            g == MemberWords(f, d)
            ks == KeysAt(m)
            y == Commas(Mapped(ks, g))
            h == x.value
            b == Len(x.text)
            c == Len(z.text)
<1>1. ObjectAt(m, h, d, D)
  <2>1. D[m] = ObjectValue(h)
    OBVIOUS
  <2>. HIDE DEF h
  <2>. QED
    BY <2>1, NodeOf, Zenon
<1>2. /\ nodes[m].type = "object" /\ h = [k \in S |-> D[f[k]]] /\ S \subseteq Strings
      /\ \A k \in S : f[k] \in 1 .. Len(nodes)
      /\ d[m] = Braced(y)
  BY <1>1, Zenon DEF ObjectAt
<1>3. c = b + 2 /\ b \in Nat /\ c =< MaxTokens
  <2>. DEFINE w == x.text
  <2>1. w \in Seq(Tokens) /\ z.text = Braced(w)
    OBVIOUS
  <2>. HIDE DEF w
  <2>2. Len(Braced(w)) = Len(w) + 2 /\ Len(w) \in Nat
    BY <2>1, AroundLength
  <2>. QED
    BY <2>1, <2>2, Zenon DEF w
<1>4. ks \in Seq(S) /\ Distinct(ks) /\ KeysOf(ks) = S
  <2>1. NodesOK(nodes)
    BY DEF Dumped
  <2>. QED
    BY <1>2, <2>1, KeysAre DEF Distinct
<1>. HIDE DEF ks, f
<1>5. DOMAIN h = S /\ \A k \in S : h[k] = D[f[k]]
  BY <1>2
<1>6. (IsMembers(y, h) \/ (y = <<>> /\ h = NoMembers)) /\ y \in Seq(Tokens) /\ Len(y) =< b
  <2>1. CASE WritesMembers(x, d, D)
    <3>1. ks # <<>>
      <4>1. S # {}
        BY <1>5, <2>1 DEF WritesMembers
      <4>2. KeysOf(<<>>) = {}
        <5>1. \A i \in 1 .. Len(<<>>) : FALSE
          OBVIOUS
        <5>. QED
          BY <5>1 DEF KeysOf
      <4>. QED
        BY <1>4, <4>1, <4>2
    <3>2. Stand(ks, f, h, D)
      <4>. SUFFICES ASSUME NEW i \in 1 .. Len(ks)
           PROVE  f[ks[i]] \in 1 .. Len(nodes) /\ ks[i] \in DOMAIN h /\ D[f[ks[i]]] = h[ks[i]]
        BY DEF Stand
      <4>1. ks[i] \in S
        BY <1>4
      <4>. HIDE DEF h
      <4>. QED
        BY <1>2, <1>5, <4>1
    <3>3. Known(ks, f, d, D) /\ Len(y) =< b
      BY <1>2, <1>4, <2>1, <3>1, <3>2 DEF WritesMembers
    <3>4. y \in Seq(Tokens) /\ Len(y) \in Nat
      <4>1. Mapped(ks, g) \in Seq(Seq(Tokens))
        BY <1>2, <1>4, <3>3, WordsMapped
      <4>. HIDE DEF g
      <4>. QED
        BY <4>1, CommasAre, CommaLength
    <3>5. Len(ks) \in Nat /\ Len(ks) # 0
      BY <1>4, <3>1
    <3>6. Len(y) =< MaxTokens
      <4>. DEFINE a == Len(y)
      <4>1. a \in Nat /\ a =< b
        BY <3>3, <3>4
      <4>. HIDE DEF a, b, c
      <4>2. a =< MaxTokens
        BY <1>3, <4>1, ParserAssumption
      <4>. QED
        BY <4>2, Zenon DEF a
    <3>7. Members(ks, f, D) = h
      BY <1>2, <1>4, Zenon DEF Members
    <3>8. IsMembers(y, Members(ks, f, D))
      BY <1>2, <1>4, <3>3, <3>5, <3>6, AllList
    <3>. QED
      BY <3>3, <3>4, <3>7, <3>8, Zenon
  <2>2. CASE x.text = <<>> /\ x.value = NoMembers
    <3>1. S = {}
      <4>1. DOMAIN NoMembers = {}
        BY DEF NoMembers
      <4>. QED
        BY <1>5, <2>2, <4>1
    <3>2. ks = <<>>
      BY <1>4, <3>1
    <3>3. Mapped(<<>>, g) = <<>>
      <4>. HIDE DEF g
      <4>. QED
        BY DEF Mapped
    <3>4. y = <<>>
      BY <3>2, <3>3, CommasAre, Zenon
    <3>5. <<>> \in Seq(Tokens) /\ Len(<<>>) =< 0
      OBVIOUS
    <3>6. b = 0
      BY <2>2
    <3>. HIDE DEF y, b
    <3>. QED
      BY <2>2, <3>4, <3>5, <3>6
  <2>. QED
    BY <2>1, <2>2
<1>. HIDE DEF y, h, b, c
<1>7. Len(Braced(y)) = Len(y) + 2 /\ Len(y) \in Nat
  BY <1>6, AroundLength
<1>8. Len(y) + 2 =< b + 2 /\ Len(y) + 2 =< MaxTokens
  BY <1>3, <1>6, <1>7, Within2, ParserAssumption
<1>9. IsValue(Braced(y), ObjectValue(h))
  BY <1>6, <1>8, ObjectIsValue, Zenon
<1>10. Len(Braced(y)) =< c
  BY <1>3, <1>7, <1>8, Zenon
<1>. QED
  BY <1>2, <1>9, <1>10, Zenon DEF h, c

(* A member and the value in it, which is written.                         *)
IsSingle(s, d, D) ==
    \E a \in Strings : \E v : /\ s.text = MemberWord(a, v.text) /\ s.value = Put(NoMembers, a, v.value)
                             /\ v.text \in Seq(Tokens) /\ WritesValue(v, d, D)

(* What is written of the values, items and members of the texts of n      *)
(* tokens is a text of them, and no longer.                                *)
Writes(n, d, D) ==
    /\ \A z \in Grammar[n].values : WritesValue(z, d, D)
    /\ \A z \in Grammar[n].items : WritesItems(z, d, D)
    /\ \A z \in Grammar[n].members : WritesMembers(z, d, D)

LEMMA TextsFit ==
    \A n \in 0 .. MaxTokens : \A z : z \in Grammar[n].values \cup Grammar[n].items \cup Grammar[n].members =>
      z.text \in Seq(Tokens) /\ Len(z.text) =< MaxTokens
<1>. TAKE n \in 0 .. MaxTokens
<1>1. n =< MaxTokens
  BY ParserAssumption
<1>. QED
  BY <1>1, GrammarSized DEF Sized

LEMMA WritesNext ==
    ASSUME NEW d, NEW D, Dumped(d, D), NEW n \in 1 .. MaxTokens, \A k \in 0 .. n - 1 : Writes(k, d, D)
    PROVE  Writes(n, d, D)
<1>1. \A k \in 0 .. n - 1 : k \in 0 .. MaxTokens /\ Writes(k, d, D)
  BY ParserAssumption
<1>2. \A k \in 1 .. n - 1 : k \in 0 .. n - 1 /\ k \in 1 .. MaxTokens
  BY ParserAssumption
<1>3. n \in 0 .. MaxTokens /\ 1 =< MaxTokens
  BY ParserAssumption
<1>4. ASSUME NEW z \in Grammar[n].values
      PROVE  WritesValue(z, d, D)
  <2>1. z.text \in Seq(Tokens) /\ Len(z.text) =< MaxTokens
    BY <1>3, TextsFit
  <2>2. CASE \E t \in Scalars : t.type # "overflow" /\ z.text = <<t>> /\ z.value = t
    BY <1>3, <2>2, ScalarWritten
  <2>3. CASE z.text = Bracketed(<<>>) /\ z.value = ArrayValue(<<>>)
    <3>. DEFINE x == Text(<<>>, <<>>)
    <3>0. x.text = <<>> /\ x.value = <<>>
      BY TextFields, Zenon
    <3>1. x.text \in Seq(Tokens)
      <4>1. <<>> \in Seq(Tokens)
        OBVIOUS
      <4>. QED
        BY <3>0, <4>1, Zenon
    <3>. HIDE DEF x
    <3>2. z.text = Bracketed(x.text) /\ z.value = ArrayValue(x.value)
      BY <2>3, <3>0, Zenon
    <3>. QED
      BY <2>1, <3>0, <3>1, <3>2, ArrayWritten
  <2>4. CASE z.text = Braced(<<>>) /\ z.value = ObjectValue(NoMembers)
    <3>. DEFINE x == Text(<<>>, NoMembers)
    <3>0. x.text = <<>> /\ x.value = NoMembers
      BY TextFields, Zenon
    <3>1. x.text \in Seq(Tokens)
      <4>1. <<>> \in Seq(Tokens)
        OBVIOUS
      <4>. QED
        BY <3>0, <4>1, Zenon
    <3>. HIDE DEF x
    <3>2. z.text = Braced(x.text) /\ z.value = ObjectValue(x.value)
      BY <2>4, <3>0, Zenon
    <3>. QED
      BY <2>1, <3>0, <3>1, <3>2, ObjectWritten
  <2>5. CASE n - 2 \in 0 .. n - 1 /\ \E x \in Grammar[n - 2].items :
                                       z.text = Bracketed(x.text) /\ z.value = ArrayValue(x.value)
    <3>. DEFINE k == n - 2
    <3>1. k \in 0 .. n - 1
      BY <2>5
    <3>2. PICK x \in Grammar[k].items : z.text = Bracketed(x.text) /\ z.value = ArrayValue(x.value)
      BY <2>5
    <3>. HIDE DEF k
    <3>3. x.text \in Seq(Tokens) /\ WritesItems(x, d, D)
      BY <1>1, <3>1, TextsFit DEF Writes
    <3>. QED
      BY <2>1, <3>2, <3>3, ArrayWritten
  <2>6. CASE n - 2 \in 0 .. n - 1 /\ \E x \in Grammar[n - 2].members :
                                       z.text = Braced(x.text) /\ z.value = ObjectValue(x.value)
    <3>. DEFINE k == n - 2
    <3>1. k \in 0 .. n - 1
      BY <2>6
    <3>2. PICK x \in Grammar[k].members : z.text = Braced(x.text) /\ z.value = ObjectValue(x.value)
      BY <2>6
    <3>. HIDE DEF k
    <3>3. x.text \in Seq(Tokens) /\ WritesMembers(x, d, D)
      BY <1>1, <3>1, TextsFit DEF Writes
    <3>. QED
      BY <2>1, <3>2, <3>3, ObjectWritten
  <2>. QED
    BY ValueShapes, <2>2, <2>3, <2>4, <2>5, <2>6, Zenon
<1>5. ASSUME NEW z \in Grammar[n].items
      PROVE  WritesItems(z, d, D)
  <2>1. Len(z.text) =< MaxTokens
    BY <1>3, TextsFit
  <2>2. CASE \E v \in Grammar[n].values : z.text = v.text /\ z.value = <<v.value>>
    <3>1. PICK v \in Grammar[n].values : z.text = v.text /\ z.value = <<v.value>>
      BY <2>2
    <3>2. WritesValue(v, d, D)
      BY <1>4
    <3>. QED
      BY <3>1, <3>2, OneWritten
  <2>3. CASE \E k \in 0 .. n - 1, m \in 1 .. n - 1 : \E x \in Grammar[k].items, v \in Grammar[m].values :
                z.text = x.text \o Comma \o v.text /\ z.value = Append(x.value, v.value)
    <3>1. PICK k \in 0 .. n - 1, m \in 1 .. n - 1 : \E x \in Grammar[k].items, v \in Grammar[m].values :
                z.text = x.text \o Comma \o v.text /\ z.value = Append(x.value, v.value)
      BY <2>3
    <3>2. PICK x \in Grammar[k].items, v \in Grammar[m].values :
             z.text = x.text \o Comma \o v.text /\ z.value = Append(x.value, v.value)
      BY <3>1
    <3>3. x.text \in Seq(Tokens) /\ WritesItems(x, d, D)
      BY <1>1, TextsFit DEF Writes
    <3>4. v.text \in Seq(Tokens) /\ WritesValue(v, d, D)
      BY <1>1, <1>2, TextsFit DEF Writes
    <3>. QED
      BY <2>1, <3>2, <3>3, <3>4, MoreWritten
  <2>. QED
    BY ItemShapes, <2>2, <2>3, Zenon
<1>6. ASSUME NEW m \in 1 .. n, NEW s \in SingleTexts(Grammar, m)
      PROVE  IsSingle(s, d, D)
  <2>. DEFINE k == m - 2
  <2>1. m \in 1 .. MaxTokens
    BY ParserAssumption
  <2>2. k \in 1 .. m - 1 /\ \E a \in Strings, v \in Grammar[k].values :
                              s.text = MemberWord(a, v.text) /\ s.value = Put(NoMembers, a, v.value)
    BY <2>1, SingleShapes
  <2>3. PICK a \in Strings, v \in Grammar[k].values :
               s.text = MemberWord(a, v.text) /\ s.value = Put(NoMembers, a, v.value)
    BY <2>2
  <2>4. k \in 0 .. n - 1
    BY <2>2
  <2>. HIDE DEF k
  <2>5. v.text \in Seq(Tokens) /\ WritesValue(v, d, D)
    BY <1>1, <2>4, TextsFit DEF Writes
  <2>. QED
    BY <2>3, <2>5, Zenon DEF IsSingle
<1>7. ASSUME NEW z \in Grammar[n].members
      PROVE  WritesMembers(z, d, D)
  <2>1. CASE z \in SingleTexts(Grammar, n)
    <3>1. n \in 1 .. n
      OBVIOUS
    <3>2. PICK a \in Strings : \E v : /\ z.text = MemberWord(a, v.text) /\ z.value = Put(NoMembers, a, v.value)
                                      /\ v.text \in Seq(Tokens) /\ WritesValue(v, d, D)
      BY <1>6, <2>1, <3>1, Zenon DEF IsSingle
    <3>3. PICK v : /\ z.text = MemberWord(a, v.text) /\ z.value = Put(NoMembers, a, v.value)
                   /\ v.text \in Seq(Tokens) /\ WritesValue(v, d, D)
      BY <3>2, Zenon
    <3>. QED
      BY <3>3, SingleWritten
  <2>2. CASE \E k \in 0 .. n - 1, m \in 1 .. n - 1 : \E x \in Grammar[k].members, s \in SingleTexts(Grammar, m) :
                z.text = x.text \o Comma \o s.text /\ z.value = Over(s.value, x.value)
    <3>1. PICK k \in 0 .. n - 1, m \in 1 .. n - 1 :
                 \E x \in Grammar[k].members, s \in SingleTexts(Grammar, m) :
                   z.text = x.text \o Comma \o s.text /\ z.value = Over(s.value, x.value)
      BY <2>2
    <3>2. PICK x \in Grammar[k].members, s \in SingleTexts(Grammar, m) :
             z.text = x.text \o Comma \o s.text /\ z.value = Over(s.value, x.value)
      BY <3>1
    <3>3. x.text \in Seq(Tokens) /\ WritesMembers(x, d, D)
      BY <1>1, TextsFit DEF Writes
    <3>4. m \in 1 .. n
      OBVIOUS
    <3>5. PICK a \in Strings : \E v : /\ s.text = MemberWord(a, v.text) /\ s.value = Put(NoMembers, a, v.value)
                                      /\ v.text \in Seq(Tokens) /\ WritesValue(v, d, D)
      BY <1>6, <3>4, Zenon DEF IsSingle
    <3>6. PICK v : /\ s.text = MemberWord(a, v.text) /\ s.value = Put(NoMembers, a, v.value)
                   /\ v.text \in Seq(Tokens) /\ WritesValue(v, d, D)
      BY <3>5, Zenon
    <3>. QED
      BY <3>2, <3>3, <3>6, MemberMoreWritten
  <2>. QED
    BY MemberShapes, <2>1, <2>2, Zenon
<1>. QED
  BY <1>4, <1>5, <1>7 DEF Writes

LEMMA AllWritten ==
    ASSUME NEW d, NEW D, Dumped(d, D)
    PROVE  \A n \in 0 .. MaxTokens : Writes(n, d, D)
<1>. DEFINE T == {n \in Nat : \A k \in 0 .. n : k =< MaxTokens => Writes(k, d, D)}
<1>1. Writes(0, d, D)
  BY GrammarNone DEF Writes
<1>2. 0 \in T
  <2>1. \A k \in 0 .. 0 : k = 0
    OBVIOUS
  <2>. QED
    BY <1>1, <2>1
<1>3. ASSUME NEW n \in Nat, n \in T
      PROVE  n + 1 \in T
  <2>1. \A k \in 0 .. n : k =< MaxTokens => Writes(k, d, D)
    BY <1>3
  <2>2. n + 1 =< MaxTokens => Writes(n + 1, d, D)
    <3>. HAVE n + 1 =< MaxTokens
    <3>1. n + 1 \in 1 .. MaxTokens /\ \A k \in 0 .. (n + 1) - 1 : k \in 0 .. n /\ k =< MaxTokens
      BY ParserAssumption
    <3>2. \A k \in 0 .. (n + 1) - 1 : Writes(k, d, D)
      BY <2>1, <3>1
    <3>. DEFINE m == n + 1
    <3>. HIDE DEF m
    <3>3. Writes(m, d, D)
      BY <3>1, <3>2, WritesNext DEF m
    <3>. QED
      BY <3>3 DEF m
  <2>3. \A k \in 0 .. n + 1 : k \in 0 .. n \/ k = n + 1
    OBVIOUS
  <2>. QED
    BY <2>1, <2>2, <2>3
<1>. HIDE DEF T
<1>4. \A n \in Nat : n \in T
  BY <1>2, <1>3, Induction
<1>5. MaxTokens \in T
  BY <1>4, ParserAssumption
<1>. QED
  BY <1>5, ParserAssumption DEF T

LEMMA ParsedIsWritten ==
    ASSUME ParseInv, result = "value"
    PROVE  Text(Append(Dump, Sign("end_of_input")), ValueAt) \in Sentences
<1>1. at = "end" /\ Parsed(nodes, ref_stack, got) /\ got \in Seq(Tokens) /\ Len(got) =< MaxTokens
  BY DEF ParseInv
<1>2. PICK D, h : /\ nodes # <<>> /\ NodesOK(nodes) /\ ClosedOK(nodes, <<>>, D)
                  /\ got = Append(h, Sign("end_of_input")) /\ IsValue(h, D[1])
  BY <1>1, Zenon DEF Parsed
<1>3. h \in Seq(Tokens) /\ Len(h) \in 1 .. MaxTokens /\ Text(h, D[1]) \in Grammar[Len(h)].values
  BY <1>2, WordsSized
<1>4. ValueAt = D[1]
  BY <1>2, ValueAtIs
<1>5. Len(h) + 1 =< MaxTokens
  <2>1. Len(got) = Len(h) + 1
    BY <1>2, <1>3
  <2>. QED
    BY <1>1, <1>3, <2>1, ParserAssumption
<1>6. PICK d : Dump = d[1] /\ \A m \in 1 .. Len(nodes) : d[m] = DumpOf(d, m)
  BY <1>2, DumpIs, Zenon
<1>7. Dumped(d, D)
  <2>1. \A m \in 1 .. Len(nodes) : D[m] = Meaning(nodes[m], D)
    <3>1. \A i \in 1 .. Len(<<>>) : FALSE
      OBVIOUS
    <3>. QED
      BY <1>2, <3>1, Zenon DEF ClosedOK
  <2>. QED
    BY <1>2, <1>6, <2>1 DEF Dumped
<1>8. IsValue(Dump, ValueAt) /\ Len(Dump) =< Len(h)
  <2>. DEFINE z == Text(h, D[1])
  <2>1. z.text = h /\ z.value = D[1]
    BY TextFields
  <2>2. WritesValue(z, d, D)
    BY <1>3, <1>7, AllWritten, InRange DEF Writes
  <2>. HIDE DEF z
  <2>3. 1 \in 1 .. Len(nodes)
    BY <1>2 DEF NodesOK
  <2>4. D[1] = z.value
    BY <2>1
  <2>5. IsValue(d[1], z.value) /\ Len(d[1]) =< Len(z.text)
    BY <2>2, <2>3, <2>4, Zenon DEF WritesValue
  <2>. QED
    BY <1>4, <1>6, <2>1, <2>5, Zenon
<1>9. Len(Dump) + 1 =< MaxTokens
  <2>. DEFINE a == Len(Dump)
              b == Len(h)
  <2>1. a \in 1 .. MaxTokens /\ b \in 1 .. MaxTokens /\ a =< b /\ b + 1 =< MaxTokens
    BY <1>3, <1>5, <1>8, WordsSized, Zenon
  <2>. HIDE DEF a, b
  <2>2. a + 1 =< MaxTokens
    BY <2>1, ParserAssumption
  <2>. QED
    BY <2>2, Zenon DEF a
<1>. QED
  BY <1>8, <1>9, SentenceIs

(* Every run: what dump writes of the value that was read, members in any  *)
(* order and each key once, is a text of the grammar for that value        *)
(* (serializer::dump of an object, an array and a scalar).                 *)
THEOREM ValuesDumpedAsParsed == ParserSpec => []DumpedAsParsed
<1>1. ParseInv => DumpedAsParsed
  BY ParsedIsWritten, Zenon DEF DumpedAsParsed
<1>. QED
  BY <1>1, ParserInvariance, PTL

================================================================================
