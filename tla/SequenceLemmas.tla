---------------------------- MODULE SequenceLemmas ----------------------------
(***************************************************************************)
(* Facts about natural numbers and sequences that the proofs of several    *)
(* components rest on: least and greatest elements, induction, and the     *)
(* concatenation of a sequence of sequences.                               *)
(***************************************************************************)
EXTENDS Naturals, Sequences, SequencesExt, FiniteSetsExt, SequenceTheorems,
        WellFoundedInduction, TLAPS

(* A non-empty set of naturals has a least element.                        *)
LEMMA LeastElement ==
    ASSUME NEW N \in SUBSET Nat, N # {}
    PROVE  \E x \in N : \A y \in N : x =< y
<1>1. PICK x \in N : \A y \in N : <<y, x>> \notin OpToRel(<, Nat)
  BY NatLessThanWellFounded, WFMin
<1>2. OpToRel(<, Nat) = {ss \in Nat \X Nat : ss[1] < ss[2]}
  BY Zenon DEF OpToRel
<1>3. ASSUME NEW y \in N
      PROVE  x =< y
  <2>1. x \in Nat /\ y \in Nat
    OBVIOUS
  <2>2. <<y, x>> \in Nat \X Nat /\ <<y, x>>[1] = y /\ <<y, x>>[2] = x
    BY <2>1
  <2>3. ~(y < x)
    BY <1>1, <1>2, <2>2, Zenon
  <2>. QED
    BY <2>1, <2>3
<1>. QED
  BY <1>3

(* The one Min chooses.                                                    *)
LEMMA MinIsLeast ==
    ASSUME NEW N \in SUBSET Nat, N # {}
    PROVE  Min(N) \in N /\ \A y \in N : Min(N) =< y
BY LeastElement DEF Min

(* A bounded one has a greatest element, the one Max chooses.              *)
LEMMA MaxIsGreatest ==
    ASSUME NEW N \in SUBSET Nat, N # {}, NEW b \in Nat, \A y \in N : y =< b
    PROVE  Max(N) \in N /\ \A y \in N : y =< Max(N)
<1>. DEFINE Bounds == {n \in Nat : \A y \in N : y =< n}
<1>1. PICK n \in Bounds : \A m \in Bounds : n =< m
  <2>1. b \in Bounds
    OBVIOUS
  <2>. QED
    BY <2>1, LeastElement
<1>2. n \in N
  <2>. SUFFICES ASSUME n \notin N
                PROVE  FALSE
    OBVIOUS
  <2>1. \A y \in N : y \in Nat /\ y < n
    BY <1>1
  <2>2. n # 0 /\ n - 1 \in Nat
    <3>1. PICK y \in N : y \in Nat /\ y < n
      BY <2>1
    <3>. QED
      BY <3>1
  <2>3. \A y \in N : y =< n - 1
    BY <2>1, <2>2
  <2>4. n - 1 \in Bounds
    BY <2>2, <2>3
  <2>. QED
    BY <1>1, <2>2, <2>4
<1>3. \E x \in N : \A y \in N : x >= y
  BY <1>1, <1>2
<1>4. Max(N) \in N /\ \A y \in N : Max(N) >= y
  BY <1>3 DEF Max
<1>. QED
  BY <1>4

(* Induction over the naturals, for a set.                                 *)
LEMMA Induction ==
    ASSUME NEW S, 0 \in S, \A n \in Nat : n \in S => n + 1 \in S
    PROVE  \A n \in Nat : n \in S
<1>. SUFFICES ASSUME Nat \ S # {}
              PROVE  FALSE
  OBVIOUS
<1>1. PICK n \in Nat \ S : \A m \in Nat \ S : n =< m
  BY LeastElement
<1>2. n # 0 /\ n - 1 \in Nat /\ (n - 1) + 1 = n
  BY <1>1
<1>3. n - 1 \in S
  BY <1>1, <1>2
<1>. QED
  BY <1>1, <1>2, <1>3

-----------------------------------------------------------------------------
(* FlattenSeq.  f holds the concatenations of the first elements of s.     *)
Flattening(s, f) ==
    f = [i \in 1 .. Len(s) |-> IF i = 1 THEN s[i] ELSE f[i - 1] \o s[i]]

(* The recursive definition in FlattenSeq has a solution,                  *)
LEMMA FlatteningExists ==
    ASSUME NEW S, NEW s \in Seq(Seq(S))
    PROVE  \E f : Flattening(s, f)
<1>. DEFINE Solves(n, f) ==
         f = [i \in 1 .. n |-> IF i = 1 THEN s[i] ELSE f[i - 1] \o s[i]]
            Solvable == {n \in Nat : \E f : Solves(n, f)}
<1>1. 0 \in Solvable
  <2>1. Solves(0, [i \in 1 .. 0 |-> s[i]])
    OBVIOUS
  <2>. QED
    BY <2>1
<1>2. ASSUME NEW n \in Nat, n \in Solvable
      PROVE  n + 1 \in Solvable
  <2>1. PICK f : Solves(n, f)
    BY <1>2
  <2>. DEFINE last == IF n = 0 THEN s[n + 1] ELSE f[n] \o s[n + 1]
              g == [i \in 1 .. n + 1 |-> IF i = n + 1 THEN last ELSE f[i]]
  <2>2. \A i \in 1 .. n + 1 : g[i] = IF i = 1 THEN s[i] ELSE g[i - 1] \o s[i]
    <3>. TAKE i \in 1 .. n + 1
    <3>1. CASE i = n + 1 /\ n = 0
      BY <3>1
    <3>2. CASE i = n + 1 /\ n # 0
      <4>1. i # 1 /\ i - 1 = n /\ i - 1 \in 1 .. n + 1 /\ i - 1 # n + 1
        BY <3>2
      <4>2. g[i] = last /\ g[i - 1] = f[n]
        BY <3>2, <4>1
      <4>. QED
        BY <3>2, <4>1, <4>2
    <3>3. CASE i # n + 1
      <4>1. i \in 1 .. n /\ g[i] = f[i]
        BY <3>3
      <4>2. f[i] = IF i = 1 THEN s[i] ELSE f[i - 1] \o s[i]
        BY <2>1, <4>1
      <4>3. i # 1 => i - 1 \in 1 .. n + 1 /\ i - 1 # n + 1
        BY <4>1
      <4>4. i # 1 => g[i - 1] = f[i - 1]
        BY <4>3
      <4>. QED
        BY <4>1, <4>2, <4>4
    <3>. QED
      BY <3>1, <3>2, <3>3
  <2>3. Solves(n + 1, g)
    <3>. DEFINE h == [i \in 1 .. n + 1 |-> IF i = 1 THEN s[i] ELSE g[i - 1] \o s[i]]
    <3>1. \A i \in 1 .. n + 1 : h[i] = g[i]
      BY <2>2
    <3>2. g = h
      <4>. HIDE DEF last
      <4>. QED
        BY <3>1
    <3>. QED
      BY <3>2
  <2>. HIDE DEF g, Solves
  <2>. QED
    BY <2>3
<1>. HIDE DEF Solves
<1>3. \A n \in Nat : n \in Solvable
  <2>. HIDE DEF Solvable
  <2>. QED
    BY <1>1, <1>2, Induction
<1>4. Len(s) \in Nat
  OBVIOUS
<1>5. PICK f : Solves(Len(s), f)
  BY <1>3, <1>4
<1>. QED
  BY <1>5 DEF Solves, Flattening

LEMMA FlatteningAt ==
    ASSUME NEW s, NEW f, Flattening(s, f), NEW k \in 1 .. Len(s)
    PROVE  f[k] = IF k = 1 THEN s[k] ELSE f[k - 1] \o s[k]
BY DEF Flattening

SamePrefix(s, t, n) ==
    /\ n \in Nat /\ Len(s) \in Nat /\ Len(t) \in Nat /\ n =< Len(s) /\ n =< Len(t)
    /\ \A i \in 1 .. n : s[i] = t[i]

(* which the elements determine.                                           *)
LEMMA FlatteningAgrees ==
    ASSUME NEW s, NEW t, NEW f, NEW g, Flattening(s, f), Flattening(t, g),
           NEW n, SamePrefix(s, t, n)
    PROVE  \A i \in 1 .. n : f[i] = g[i]
<1>. USE DEF SamePrefix
<1>. DEFINE Differs == {i \in 1 .. n : f[i] # g[i]}
<1>. SUFFICES ASSUME Differs # {}
              PROVE  FALSE
  OBVIOUS
<1>1. Differs \in SUBSET Nat
  OBVIOUS
<1>2. PICK k \in Differs : \A m \in Differs : k =< m
  BY <1>1, LeastElement
<1>3. k \in 1 .. Len(s) /\ k \in 1 .. Len(t) /\ s[k] = t[k] /\ k \in 1 .. n
  OBVIOUS
<1>4. /\ f[k] = IF k = 1 THEN s[k] ELSE f[k - 1] \o s[k]
      /\ g[k] = IF k = 1 THEN t[k] ELSE g[k - 1] \o t[k]
  BY <1>3 DEF Flattening
<1>5. k # 1 => f[k - 1] = g[k - 1]
  BY <1>2, <1>3
<1>. QED
  BY <1>2, <1>3, <1>4, <1>5

(* What a sequence becomes with one element more or less.                  *)
LEMMA Appended ==
    ASSUME NEW S, NEW s \in Seq(S), NEW x \in S
    PROVE  /\ Append(s, x) \in Seq(S) /\ Append(s, x) # <<>>
           /\ Len(s) \in Nat /\ Len(Append(s, x)) = Len(s) + 1
           /\ Append(s, x)[Len(s) + 1] = x
           /\ \A i \in 1 .. Len(s) : Append(s, x)[i] = s[i]
OBVIOUS

(* Short ones.                                                             *)
LEMMA OneElement ==
    ASSUME NEW S, NEW x \in S
    PROVE  <<x>> \in Seq(S) /\ Len(<<x>>) = 1 /\ <<x>>[1] = x
OBVIOUS

LEMMA AppendedTwo ==
    \A a, b : Append(<<>>, a) = <<a>> /\ Append(<<a>>, b) = <<a, b>>
<1>. TAKE a, b
<1>. DEFINE S == {a, b}
            v == Append(<<a>>, b)
<1>1. <<a>> \in Seq(S) /\ Len(<<a>>) = 1 /\ <<a>>[1] = a /\ a \in S /\ b \in S
  OBVIOUS
<1>. HIDE DEF S
<1>2. /\ v \in Seq(S) /\ Len(v) = 1 + 1 /\ v[1 + 1] = b /\ \A i \in 1 .. 1 : v[i] = <<a>>[i]
  BY <1>1, Appended
<1>3. <<a, b>> \in Seq(S) /\ Len(<<a, b>>) = 2 /\ <<a, b>>[1] = a /\ <<a, b>>[2] = b
  BY <1>1
<1>. HIDE DEF v
<1>4. Len(v) = 2 /\ \A i \in 1 .. 2 : v[i] = <<a, b>>[i]
  BY <1>1, <1>2, <1>3
<1>5. v = <<a, b>>
  BY <1>2, <1>3, <1>4, SeqEqual
<1>6. Append(<<>>, a) = <<a>>
  OBVIOUS
<1>. QED
  BY <1>5, <1>6 DEF v

(* A part of a sequence.                                                   *)
LEMMA Part ==
    ASSUME NEW S, NEW u \in Seq(S), NEW a \in Nat, NEW z \in Nat,
           1 =< a, a =< z + 1, z =< Len(u)
    PROVE  /\ SubSeq(u, a, z) \in Seq(S) /\ Len(SubSeq(u, a, z)) = z - a + 1
           /\ \A i \in 1 .. z - a + 1 : SubSeq(u, a, z)[i] = u[a + i - 1]
OBVIOUS

LEMMA Shortened ==
    ASSUME NEW S, NEW s \in Seq(S), s # <<>>
    PROVE  /\ Len(s) \in Nat /\ Len(s) # 0 /\ Len(s) - 1 \in Nat
           /\ Head(s) = s[1] /\ s[1] \in S
           /\ Tail(s) \in Seq(S) /\ Len(Tail(s)) = Len(s) - 1
           /\ \A i \in 1 .. Len(s) - 1 : Tail(s)[i] = s[i + 1]
           /\ Len(s) = 1 <=> Tail(s) = <<>>
<1>1. /\ Len(s) \in Nat /\ Len(s) # 0 /\ Len(s) - 1 \in Nat
      /\ Head(s) = s[1] /\ s[1] \in S
      /\ Tail(s) \in Seq(S) /\ Len(Tail(s)) = Len(s) - 1
      /\ \A i \in 1 .. Len(s) - 1 : Tail(s)[i] = s[i + 1]
  OBVIOUS
<1>2. \A t \in Seq(S) : Len(t) = 0 <=> t = <<>>
  OBVIOUS
<1>3. Len(s) - 1 = 0 <=> Len(s) = 1
  BY <1>1
<1>. QED
  BY <1>1, <1>2, <1>3

(* A sequence is a function on its indices.                                *)
LEMMA AsFunction ==
    ASSUME NEW S, NEW s \in Seq(S)
    PROVE  Len(s) \in Nat /\ DOMAIN s = 1 .. Len(s) /\ s = [i \in 1 .. Len(s) |-> s[i]]
OBVIOUS

(* A concatenation has the elements of its parts.                          *)
Joined(S, a, b, c) ==
    /\ c \in Seq(S) /\ Len(c) = Len(a) + Len(b) /\ Len(a) \in Nat /\ Len(b) \in Nat
    /\ \A i \in 1 .. Len(a) : c[i] = a[i]
    /\ \A i \in 1 .. Len(b) : c[Len(a) + i] = b[i]

LEMMA Concatenated ==
    ASSUME NEW S
    PROVE  \A a, b \in Seq(S) : Joined(S, a, b, a \o b)
<1>. TAKE a, b \in Seq(S)
<1>1. /\ a \o b \in Seq(S) /\ Len(a \o b) = Len(a) + Len(b)
      /\ Len(a) \in Nat /\ Len(b) \in Nat
  OBVIOUS
<1>2. \A i \in 1 .. Len(a) + Len(b) : (a \o b)[i] = IF i <= Len(a) THEN a[i] ELSE b[i - Len(a)]
  BY ConcatProperties
<1>3. ASSUME NEW i \in 1 .. Len(b)
      PROVE  (a \o b)[Len(a) + i] = b[i]
  <2>1. Len(a) + i \in 1 .. Len(a) + Len(b) /\ ~(Len(a) + i <= Len(a)) /\ Len(a) + i - Len(a) = i
    BY <1>1
  <2>. QED
    BY <1>2, <2>1
<1>4. \A i \in 1 .. Len(a) : (a \o b)[i] = a[i]
  BY <1>1, <1>2
<1>. QED
  BY <1>1, <1>3, <1>4 DEF Joined

LEMMA JoinedText ==
    ASSUME NEW S, NEW a \in Seq(S), NEW b \in Seq(S)
    PROVE  a \o b \in Seq(S) /\ Joined(S, a, b, a \o b)
<1>1. Joined(S, a, b, a \o b)
  BY Concatenated, Zenon
<1>. QED
  BY <1>1, Zenon DEF Joined

(* A text cut at one of its tokens.                                        *)
LEMMA Between ==
    ASSUME NEW S, NEW a \in Seq(S), NEW x \in S, NEW b \in Seq(S), NEW t, t = (a \o <<x>>) \o b
    PROVE  /\ t \in Seq(S) /\ Len(a) \in Nat /\ Len(b) \in Nat /\ Len(t) = Len(a) + 1 + Len(b)
           /\ t[Len(a) + 1] = x
           /\ \A i \in 1 .. Len(a) : t[i] = a[i]
           /\ SubSeq(t, 1, Len(a)) = a
           /\ SubSeq(t, Len(a) + 2, Len(t)) = b
<1>1. <<x>> \in Seq(S) /\ Len(<<x>>) = 1 /\ <<x>>[1] = x
  OBVIOUS
<1>. DEFINE c == a \o <<x>>
<1>2. /\ c \in Seq(S) /\ Len(c) = Len(a) + 1 /\ Len(a) \in Nat /\ Len(b) \in Nat
      /\ c[Len(a) + 1] = x /\ \A i \in 1 .. Len(a) : c[i] = a[i]
  BY <1>1
<1>. HIDE DEF c
<1>3. /\ t \in Seq(S) /\ Len(t) = Len(a) + 1 + Len(b)
      /\ \A i \in 1 .. Len(c) : t[i] = c[i]
      /\ \A i \in 1 .. Len(b) : t[Len(c) + i] = b[i]
  <2>1. t = c \o b
    BY DEF c
  <2>. QED
    BY <1>2, <2>1
<1>4. t[Len(a) + 1] = x /\ \A i \in 1 .. Len(a) : t[i] = a[i]
  BY <1>2, <1>3
<1>5. SubSeq(t, 1, Len(a)) = a
  <2>. DEFINE u == SubSeq(t, 1, Len(a))
  <2>1. u \in Seq(S) /\ Len(u) = Len(a) /\ \A i \in 1 .. Len(a) : u[i] = t[i]
    BY <1>2, <1>3
  <2>. HIDE DEF u
  <2>2. u = a
    BY <1>4, <2>1
  <2>. QED
    BY <2>2 DEF u
<1>6. SubSeq(t, Len(a) + 2, Len(t)) = b
  <2>. DEFINE u == SubSeq(t, Len(a) + 2, Len(t))
  <2>1. u \in Seq(S) /\ Len(u) = Len(b) /\ \A i \in 1 .. Len(b) : u[i] = t[Len(a) + 1 + i]
    BY <1>2, <1>3
  <2>. HIDE DEF u
  <2>2. \A i \in 1 .. Len(u) : u[i] = b[i]
    BY <1>2, <1>3, <2>1, SMTT(30), ZenonT(30)
  <2>3. u = b
    BY <2>1, <2>2, SeqEqual
  <2>. QED
    BY <2>3 DEF u
<1>. QED
  BY <1>2, <1>3, <1>4, <1>5, <1>6

LEMMA Associates ==
    ASSUME NEW S
    PROVE  \A a, b, c \in Seq(S) : (a \o b) \o c = a \o (b \o c)
<1>. TAKE a, b, c \in Seq(S)
<1>. QED
  OBVIOUS

(* The solution FlattenSeq takes, and the sequences it holds.              *)
LEMMA FlattenIs ==
    ASSUME NEW S, NEW s \in Seq(Seq(S)), s # <<>>
    PROVE  \E f : /\ Flattening(s, f)
                  /\ FlattenSeq(s) = f[Len(s)]
                  /\ \A i \in 1 .. Len(s) : f[i] \in Seq(S)
<1>. DEFINE f == CHOOSE g : Flattening(s, g)
<1>1. Flattening(s, f)
  BY FlatteningExists
<1>2. Len(s) \in Nat /\ Len(s) # 0
  OBVIOUS
<1>3. FlattenSeq(s) = f[Len(s)]
  BY <1>2, Zenon DEF FlattenSeq, Flattening
<1>. HIDE DEF f
<1>4. \A i \in 1 .. Len(s) : f[i] \in Seq(S)
  <2>. DEFINE Wrong == {i \in 1 .. Len(s) : f[i] \notin Seq(S)}
  <2>. SUFFICES ASSUME Wrong # {}
                PROVE  FALSE
    OBVIOUS
  <2>1. Wrong \in SUBSET Nat
    OBVIOUS
  <2>2. PICK k \in Wrong : \A m \in Wrong : k =< m
    BY <2>1, LeastElement
  <2>3. k \in 1 .. Len(s) /\ s[k] \in Seq(S)
    OBVIOUS
  <2>4. f[k] = IF k = 1 THEN s[k] ELSE f[k - 1] \o s[k]
    BY <1>1, <2>3 DEF Flattening
  <2>5. k # 1 => f[k - 1] \in Seq(S)
    BY <2>2, <2>3
  <2>6. \A a, b \in Seq(S) : a \o b \in Seq(S)
    OBVIOUS
  <2>7. f[k] \in Seq(S)
    BY <2>3, <2>4, <2>5, <2>6
  <2>. QED
    BY <2>7
<1>. QED
  BY <1>1, <1>3, <1>4

LEMMA FlattenNone == FlattenSeq(<<>>) = <<>>
BY DEF FlattenSeq

LEMMA FlattenType ==
    ASSUME NEW S, NEW s \in Seq(Seq(S))
    PROVE  FlattenSeq(s) \in Seq(S)
<1>1. CASE s = <<>>
  <2>1. <<>> \in Seq(S)
    OBVIOUS
  <2>. QED
    BY <1>1, <2>1, FlattenNone
<1>2. CASE s # <<>>
  <2>1. Len(s) \in 1 .. Len(s)
    BY <1>2
  <2>. QED
    BY <1>2, <2>1, FlattenIs
<1>. QED
  BY <1>1, <1>2

(* Its parts, from either end.                                             *)
LEMMA FlattenAppend ==
    ASSUME NEW S, NEW s \in Seq(Seq(S)), NEW x \in Seq(S)
    PROVE  FlattenSeq(Append(s, x)) = FlattenSeq(s) \o x
<1>. DEFINE t == Append(s, x)
            n == Len(s)
<1>1. /\ t \in Seq(Seq(S)) /\ Len(t) = n + 1 /\ n \in Nat /\ t # <<>>
      /\ t[n + 1] = x /\ \A i \in 1 .. n : t[i] = s[i]
  BY Appended
<1>. HIDE DEF t
<1>2. PICK g : Flattening(t, g) /\ FlattenSeq(t) = g[n + 1]
  BY <1>1, FlattenIs
<1>3. n + 1 \in 1 .. Len(t)
  BY <1>1
<1>4. g[n + 1] = IF n + 1 = 1 THEN t[n + 1] ELSE g[n + 1 - 1] \o t[n + 1]
  BY <1>2, <1>3, FlatteningAt
<1>5. CASE n = 0
  <2>1. s = <<>> /\ FlattenSeq(s) = <<>>
    BY <1>5, FlattenNone
  <2>2. FlattenSeq(t) = x
    BY <1>1, <1>2, <1>4, <1>5
  <2>. QED
    BY <2>1, <2>2 DEF t
<1>6. CASE n # 0
  <2>1. PICK f : Flattening(s, f) /\ FlattenSeq(s) = f[n]
    BY <1>1, <1>6, FlattenIs
  <2>2. f[n] = g[n]
    <3>1. n \in 1 .. n /\ n =< n /\ n =< n + 1
      BY <1>1, <1>6
    <3>. HIDE DEF n
    <3>2. Len(s) = n
      BY DEF n
    <3>3. \A i \in 1 .. n : f[i] = g[i]
      <4>1. SamePrefix(s, t, n)
        BY <1>1, <3>1, <3>2 DEF SamePrefix
      <4>2. Flattening(s, f) /\ Flattening(t, g)
        BY <1>2, <2>1
      <4>. QED
        BY <4>1, <4>2, FlatteningAgrees
    <3>. QED
      BY <3>1, <3>3
  <2>3. n + 1 # 1 /\ n + 1 - 1 = n
    BY <1>1, <1>6
  <2>. QED
    BY <1>1, <1>2, <1>4, <2>1, <2>2, <2>3 DEF t
<1>. QED
  BY <1>1, <1>5, <1>6

LEMMA FlattenOne ==
    ASSUME NEW S, NEW x \in Seq(S)
    PROVE  FlattenSeq(<<x>>) = x
<1>1. <<x>> = Append(<<>>, x) /\ <<>> \in Seq(Seq(S)) /\ <<>> \o x = x
  OBVIOUS
<1>. QED
  BY <1>1, FlattenAppend, FlattenNone

LEMMA FlattenHead ==
    ASSUME NEW S, NEW s \in Seq(Seq(S)), s # <<>>
    PROVE  FlattenSeq(s) = Head(s) \o FlattenSeq(Tail(s))
<1>. DEFINE t == Tail(s)
            n == Len(s)
<1>1. /\ t \in Seq(Seq(S)) /\ Len(t) = n - 1 /\ n \in Nat /\ n # 0 /\ n - 1 \in Nat
      /\ Head(s) = s[1] /\ s[1] \in Seq(S) /\ \A i \in 1 .. n - 1 : t[i] = s[i + 1]
      /\ n = 1 <=> t = <<>>
  BY Shortened
<1>2. PICK f : /\ Flattening(s, f) /\ FlattenSeq(s) = f[n]
               /\ \A i \in 1 .. n : f[i] \in Seq(S)
  BY <1>1, FlattenIs
<1>3. 1 \in 1 .. n /\ f[1] = s[1]
  BY <1>1, <1>2 DEF Flattening
<1>4. CASE n = 1
  <2>1. t = <<>>
    BY <1>1, <1>4
  <2>2. s[1] \o <<>> = s[1]
    BY <1>1
  <2>. QED
    BY <1>1, <1>2, <1>3, <1>4, <2>1, <2>2, FlattenNone
<1>5. CASE n # 1
  <2>1. t # <<>>
    BY <1>1, <1>5
  <2>. HIDE DEF t, n
  <2>2. PICK g : /\ Flattening(t, g) /\ FlattenSeq(t) = g[n - 1]
                 /\ \A i \in 1 .. n - 1 : g[i] \in Seq(S)
    BY <1>1, <2>1, FlattenIs, SMTT(30), ZenonT(30)
  <2>3. \A i \in 1 .. n - 1 : f[i + 1] = s[1] \o g[i]
    <3>. DEFINE Wrong == {i \in 1 .. n - 1 : f[i + 1] # s[1] \o g[i]}
    <3>. SUFFICES ASSUME Wrong # {}
                  PROVE  FALSE
      OBVIOUS
    <3>1. Wrong \in SUBSET Nat
      <4>1. \A i \in Wrong : i \in 1 .. n - 1
        BY Zenon
      <4>2. \A i \in 1 .. n - 1 : i \in Nat
        BY <1>1
      <4>. QED
        BY <4>1, <4>2, Zenon
    <3>2. PICK k \in Wrong : \A m \in Wrong : k =< m
      BY <3>1, LeastElement
    <3>3. /\ k \in 1 .. n - 1 /\ k \in 1 .. Len(t) /\ k + 1 \in 1 .. Len(s) /\ k + 1 # 1
          /\ k + 1 - 1 = k /\ t[k] = s[k + 1]
      BY <1>1 DEF n
    <3>4. f[k + 1] = f[k] \o s[k + 1]
      <4>1. f[k + 1] = IF k + 1 = 1 THEN s[k + 1] ELSE f[k + 1 - 1] \o s[k + 1]
        <5>1. Flattening(s, f) /\ k + 1 \in 1 .. Len(s)
          BY <1>2, <3>3
        <5>. QED
          BY <5>1, FlatteningAt
      <4>. QED
        BY <3>3, <4>1, Zenon
    <3>5. g[k] = IF k = 1 THEN t[k] ELSE g[k - 1] \o t[k]
      BY <2>2, <3>3, FlatteningAt
    <3>6. CASE k = 1
      <4>1. f[k] = s[1]
        BY <1>3, <3>6
      <4>. QED
        BY <3>2, <3>3, <3>4, <3>5, <3>6, <4>1
    <3>7. CASE k # 1
      <4>1. k - 1 \in 1 .. n - 1 /\ k - 1 + 1 = k /\ k - 1 < k
        BY <1>1, <3>3, <3>7
      <4>2. f[k] = s[1] \o g[k - 1]
        <5>1. k - 1 \notin Wrong
          <6>1. k \in Nat /\ k - 1 \in Nat /\ ~(k =< k - 1)
            BY <3>3, <4>1
          <6>. HIDE DEF Wrong
          <6>. QED
            BY <3>2, <6>1
        <5>. QED
          BY <4>1, <5>1
      <4>3. s[k + 1] \in Seq(S) /\ g[k - 1] \in Seq(S)
        BY <2>2, <3>3, <4>1
      <4>4. f[k + 1] = (s[1] \o g[k - 1]) \o s[k + 1]
        BY <3>4, <4>2
      <4>5. f[k + 1] = s[1] \o (g[k - 1] \o s[k + 1])
        <5>. DEFINE a == s[1]  b == g[k - 1]  c == s[k + 1]
        <5>1. a \in Seq(S) /\ b \in Seq(S) /\ c \in Seq(S) /\ f[k + 1] = (a \o b) \o c
          BY <1>1, <4>3, <4>4
        <5>. HIDE DEF a, b, c
        <5>2. f[k + 1] = a \o (b \o c)
          BY <5>1, Associates, SMTT(60)
        <5>. QED
          BY <5>2 DEF a, b, c
      <4>6. g[k] = g[k - 1] \o s[k + 1]
        BY <3>3, <3>5, <3>7
      <4>. QED
        BY <3>2, <4>5, <4>6
    <3>. QED
      BY <3>6, <3>7
  <2>4. n - 1 \in 1 .. n - 1 /\ n - 1 + 1 = n
    BY <1>1, <1>5
  <2>5. f[n] = s[1] \o g[n - 1]
    BY <2>3, <2>4
  <2>. QED
    BY <1>1, <1>2, <2>2, <2>5 DEF t
<1>. QED
  BY <1>4, <1>5

(* What it holds comes from one of the parts.                              *)
LEMMA FlattenRange ==
    ASSUME NEW S, NEW s \in Seq(Seq(S)), NEW x \in Range(FlattenSeq(s))
    PROVE  \E i \in 1 .. Len(s) : x \in Range(s[i])
<1>1. CASE s = <<>>
  BY <1>1, FlattenNone DEF Range
<1>2. CASE s # <<>>
  <2>1. PICK f : /\ Flattening(s, f) /\ FlattenSeq(s) = f[Len(s)]
                 /\ \A i \in 1 .. Len(s) : f[i] \in Seq(S)
    BY <1>2, FlattenIs
  <2>. DEFINE With == {i \in 1 .. Len(s) : x \in Range(f[i])}
  <2>2. Len(s) \in With /\ With \in SUBSET Nat
    BY <1>2, <2>1
  <2>3. PICK k \in With : \A m \in With : k =< m
    BY <2>2, LeastElement
  <2>4. k \in 1 .. Len(s) /\ s[k] \in Seq(S) /\ f[k] = IF k = 1 THEN s[k] ELSE f[k - 1] \o s[k]
    <3>1. k \in 1 .. Len(s)
      OBVIOUS
    <3>. QED
      BY <2>1, <3>1, FlatteningAt
  <2>5. \A a, b \in Seq(S) : x \in Range(a \o b) => x \in Range(a) \/ x \in Range(b)
    BY DEF Range
  <2>6. CASE k = 1
    BY <2>3, <2>4, <2>6
  <2>7. CASE k # 1
    <3>1. k - 1 \in 1 .. Len(s) /\ k - 1 < k
      BY <2>4, <2>7
    <3>2. x \notin Range(f[k - 1])
      BY <2>3, <3>1
    <3>3. x \in Range(f[k - 1] \o s[k])
      BY <2>3, <2>4, <2>7
    <3>. QED
      BY <2>1, <2>4, <2>5, <3>1, <3>2, <3>3
  <2>. QED
    BY <2>6, <2>7
<1>. QED
  BY <1>1, <1>2

(* and all that its parts hold is in it.                                   *)
LEMMA FlattenKeeps ==
    ASSUME NEW S, NEW s \in Seq(Seq(S)), NEW i \in 1 .. Len(s), NEW x \in Range(s[i])
    PROVE  x \in Range(FlattenSeq(s))
<1>1. s # <<>>
  OBVIOUS
<1>2. PICK f : /\ Flattening(s, f) /\ FlattenSeq(s) = f[Len(s)]
               /\ \A j \in 1 .. Len(s) : f[j] \in Seq(S)
  BY <1>1, FlattenIs
<1>. DEFINE Without == {j \in i .. Len(s) : x \notin Range(f[j])}
<1>3. \A a, b \in Seq(S) : x \in Range(a) \/ x \in Range(b) => x \in Range(a \o b)
  <2>. TAKE a, b \in Seq(S)
  <2>1. Joined(S, a, b, a \o b)
    BY Concatenated
  <2>2. DOMAIN a = 1 .. Len(a) /\ DOMAIN b = 1 .. Len(b) /\ DOMAIN (a \o b) = 1 .. Len(a \o b)
    OBVIOUS
  <2>3. /\ \A j \in 1 .. Len(a) : j \in 1 .. Len(a \o b)
        /\ \A j \in 1 .. Len(b) : Len(a) + j \in 1 .. Len(a \o b)
    BY <2>1 DEF Joined
  <2>4. ASSUME x \in Range(a)
        PROVE  x \in Range(a \o b)
    <3>1. PICK j \in 1 .. Len(a) : a[j] = x
      BY <2>2, <2>4 DEF Range
    <3>. QED
      BY <2>1, <2>2, <2>3, <3>1 DEF Joined, Range
  <2>5. ASSUME x \in Range(b)
        PROVE  x \in Range(a \o b)
    <3>1. PICK j \in 1 .. Len(b) : b[j] = x
      BY <2>2, <2>5 DEF Range
    <3>. QED
      BY <2>1, <2>2, <2>3, <3>1 DEF Joined, Range
  <2>. QED
    BY <2>4, <2>5
<1>4. Without = {}
  <2>. SUFFICES ASSUME Without # {}
                PROVE  FALSE
    OBVIOUS
  <2>1. Without \in SUBSET Nat
    OBVIOUS
  <2>2. PICK k \in Without : \A m \in Without : k =< m
    BY <2>1, LeastElement
  <2>3. k \in 1 .. Len(s) /\ k \in Nat /\ i =< k /\ s[k] \in Seq(S)
    OBVIOUS
  <2>4. f[k] = IF k = 1 THEN s[k] ELSE f[k - 1] \o s[k]
    BY <1>2, <2>3, FlatteningAt
  <2>5. CASE k = i
    <3>1. CASE k = 1
      BY <2>2, <2>4, <2>5, <3>1
    <3>2. CASE k # 1
      <4>1. k - 1 \in 1 .. Len(s)
        BY <2>3, <3>2
      <4>2. f[k - 1] \in Seq(S)
        BY <1>2, <4>1
      <4>3. x \in Range(f[k - 1] \o s[k])
        BY <1>3, <2>3, <2>5, <4>2
      <4>. QED
        BY <2>2, <2>4, <3>2, <4>3
    <3>. QED
      BY <3>1, <3>2
  <2>6. CASE k # i
    <3>1. k - 1 \in i .. Len(s) /\ k - 1 \in 1 .. Len(s) /\ k - 1 < k /\ k # 1 /\ k - 1 \in Nat
      BY <2>3, <2>6
    <3>2. x \in Range(f[k - 1]) /\ f[k - 1] \in Seq(S)
      <4>1. k - 1 \notin Without
        BY <2>2, <2>3, <3>1
      <4>. QED
        BY <1>2, <3>1, <4>1
    <3>3. x \in Range(f[k - 1] \o s[k])
      BY <1>3, <2>3, <3>2
    <3>. QED
      BY <2>2, <2>4, <3>1, <3>3
  <2>. QED
    BY <2>5, <2>6
<1>5. Len(s) \in i .. Len(s)
  OBVIOUS
<1>. QED
  BY <1>2, <1>4, <1>5

===============================================================================
