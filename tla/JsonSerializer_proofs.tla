------------------------- MODULE JsonSerializer_proofs -------------------------
(***************************************************************************)
(* What a token of the JSON scanner says of the text it was read from, and *)
(* that what dump_escaped writes of a string is read again as that string. *)
(*                                                                         *)
(* Numbers: at each label of scan_number what was read is the beginning of *)
(* a number up to that label's part of the grammar, and in the buffer.  A  *)
(* goto goes where the grammar does, and where there is none no number     *)
(* goes on.                                                                *)
(*                                                                         *)
(* Strings: all units but the last are characters, whose UTF-8 is in the   *)
(* buffer, and the last is the beginning of one, as far as its label says. *)
(* What scan_string rejects is the beginning of no character.              *)
(*                                                                         *)
(* While a string is dumped: output and string_buffer hold what is written *)
(* of the code points read so far, and the bytes of one that goes on.      *)
(* These code points are the only way to cut the text, so a byte that the  *)
(* decoder rejects makes the text ill-formed.                              *)
(*                                                                         *)
(* While it is read back: what is left of the output stands for what is    *)
(* left of the text, the rest of which is in token_buffer.                 *)
(*                                                                         *)
(* While an integer is dumped: abs_value, times the power of ten of the    *)
(* digits behind buffer_ptr, and their value make its size, and            *)
(* count_digits left a place for each digit that is still to come.         *)
(***************************************************************************)
EXTENDS JsonSerializer, SequenceLemmas, TLAPS

(***************************************************************************)
(* The scanner: scan_number and scan_string.                               *)
(***************************************************************************)

(* A function can be defined by recursion over 0 .. N.                     *)
Recursion(f, N, b, G) ==
    f = [n \in 0 .. N |-> IF n = 0 THEN b ELSE G[n][f[n - 1]]]

LEMMA RecursionExists ==
    ASSUME NEW S, NEW N \in Nat, NEW b \in S, NEW G \in [1 .. N -> [S -> S]]
    PROVE  \E f \in [0 .. N -> S] : Recursion(f, N, b, G)
<1>. DEFINE Solvable == {n \in Nat : n <= N => \E f \in [0 .. n -> S] : Recursion(f, n, b, G)}
<1>1. 0 \in Solvable
  <2>. DEFINE g == [n \in 0 .. 0 |-> b]
  <2>1. g \in [0 .. 0 -> S] /\ Recursion(g, 0, b, G)
    BY DEF Recursion
  <2>. HIDE DEF g
  <2>. QED
    BY <2>1
<1>2. ASSUME NEW n \in Nat, n \in Solvable
      PROVE  n + 1 \in Solvable
  <2>. SUFFICES ASSUME n + 1 <= N
                PROVE  \E f \in [0 .. n + 1 -> S] : Recursion(f, n + 1, b, G)
    OBVIOUS
  <2>1. PICK f \in [0 .. n -> S] : Recursion(f, n, b, G)
    BY <1>2
  <2>. DEFINE next == G[n + 1][f[n]]
              g == [i \in 0 .. n + 1 |-> IF i = n + 1 THEN next ELSE f[i]]
  <2>2. next \in S
    <3>1. n + 1 \in 1 .. N /\ n \in 0 .. n
      OBVIOUS
    <3>2. G[n + 1] \in [S -> S] /\ f[n] \in S
      BY <3>1, Zenon
    <3>. QED
      BY <3>2
  <2>3. \A i \in 0 .. n + 1 : g[i] = IF i = 0 THEN b ELSE G[i][g[i - 1]]
    <3>. TAKE i \in 0 .. n + 1
    <3>1. CASE i = n + 1
      <4>1. i - 1 = n /\ i - 1 \in 0 .. n + 1 /\ i - 1 # n + 1 /\ i # 0
        BY <3>1
      <4>2. g[i] = G[n + 1][f[n]] /\ g[i - 1] = f[n]
        BY <3>1, <4>1
      <4>. QED
        BY <3>1, <4>1, <4>2
    <3>2. CASE i # n + 1
      <4>1. i \in 0 .. n /\ g[i] = f[i]
        BY <3>2
      <4>2. f[i] = IF i = 0 THEN b ELSE G[i][f[i - 1]]
        BY <2>1, <4>1 DEF Recursion
      <4>3. i # 0 => i - 1 \in 0 .. n + 1 /\ i - 1 # n + 1
        BY <4>1
      <4>4. i # 0 => g[i - 1] = f[i - 1]
        BY <4>3
      <4>. QED
        BY <4>1, <4>2, <4>4
    <3>. QED
      BY <3>1, <3>2
  <2>4. g \in [0 .. n + 1 -> S]
    <3>1. \A i \in 0 .. n + 1 : i # n + 1 => i \in 0 .. n
      OBVIOUS
    <3>. QED
      BY <2>2, <3>1, Zenon
  <2>. HIDE DEF next
  <2>5. g = [i \in 0 .. n + 1 |-> g[i]]
    OBVIOUS
  <2>. HIDE DEF g
  <2>6. Recursion(g, n + 1, b, G)
    BY <2>3, <2>5, Zenon DEF Recursion
  <2>. QED
    BY <2>4, <2>6
<1>. HIDE DEF Solvable
<1>3. N \in Solvable
  BY <1>1, <1>2, Induction
<1>. QED
  BY <1>3 DEF Solvable

LEMMA ValueExists ==
    ASSUME NEW t \in Seq(Int)
    PROVE  \E f \in [0 .. Len(t) -> Int] : f = [n \in 0 .. Len(t) |->
                         IF n = 0 THEN 0
                         ELSE IF t[n] = Minus THEN f[n - 1] ELSE 10 * f[n - 1] + (t[n] - 48)]
<1>. DEFINE G == [n \in 1 .. Len(t) |->
                    [m \in Int |-> IF t[n] = Minus THEN m ELSE 10 * m + (t[n] - 48)]]
<1>1. PICK f \in [0 .. Len(t) -> Int] : Recursion(f, Len(t), 0, G)
  <2>1. G \in [1 .. Len(t) -> [Int -> Int]]
    <3>1. \A n \in 1 .. Len(t) : \A m \in Int :
             (IF t[n] = Minus THEN m ELSE 10 * m + (t[n] - 48)) \in Int
      <4>1. \A n \in 1 .. Len(t) : t[n] \in Int
        OBVIOUS
      <4>. QED
        BY <4>1
    <3>. QED
      BY <3>1, Zenon
  <2>2. 0 \in Int /\ Len(t) \in Nat
    OBVIOUS
  <2>. HIDE DEF G
  <2>. QED
    BY <2>1, <2>2, RecursionExists, Zenon
<1>2. \A n \in 0 .. Len(t) : (IF n = 0 THEN 0 ELSE G[n][f[n - 1]]) = IF n = 0 THEN 0
                         ELSE IF t[n] = Minus THEN f[n - 1] ELSE 10 * f[n - 1] + (t[n] - 48)
  <2>. TAKE n \in 0 .. Len(t)
  <2>1. n # 0 => n \in 1 .. Len(t) /\ f[n - 1] \in Int
    OBVIOUS
  <2>2. CASE n # 0
    <3>1. G[n] = [m \in Int |-> IF t[n] = Minus THEN m ELSE 10 * m + (t[n] - 48)]
      BY <2>1, <2>2, Zenon
    <3>. HIDE DEF G
    <3>2. G[n][f[n - 1]] = IF t[n] = Minus THEN f[n - 1] ELSE 10 * f[n - 1] + (t[n] - 48)
      BY <2>1, <2>2, <3>1, Zenon
    <3>. QED
      BY <2>2, <3>2, Zenon
  <2>. QED
    BY <2>2, Zenon
<1>. HIDE DEF G
<1>3. f = [n \in 0 .. Len(t) |->
             IF n = 0 THEN 0 ELSE IF t[n] = Minus THEN f[n - 1] ELSE 10 * f[n - 1] + (t[n] - 48)]
  BY <1>1, <1>2, Zenon DEF Recursion
<1>. QED
  BY <1>3

LEMMA PowersExist ==
    ASSUME NEW N \in Nat
    PROVE  \E f \in [0 .. N -> Int] :
              f = [k \in 0 .. N |-> IF k = 0 THEN 1 ELSE 10 * f[k - 1]]
<1>. DEFINE G == [k \in 1 .. N |-> [m \in Int |-> 10 * m]]
<1>1. PICK f \in [0 .. N -> Int] : Recursion(f, N, 1, G)
  <2>1. G \in [1 .. N -> [Int -> Int]]
    OBVIOUS
  <2>2. 1 \in Int
    OBVIOUS
  <2>. HIDE DEF G
  <2>. QED
    BY <2>1, <2>2, RecursionExists, Zenon
<1>2. \A k \in 0 .. N : (IF k = 0 THEN 1 ELSE G[k][f[k - 1]]) = IF k = 0 THEN 1 ELSE 10 * f[k - 1]
  <2>. TAKE k \in 0 .. N
  <2>1. k # 0 => k \in 1 .. N /\ f[k - 1] \in Int
    OBVIOUS
  <2>. QED
    BY <2>1
<1>. HIDE DEF G
<1>. QED
  BY <1>1, <1>2, Zenon DEF Recursion

(* What holds of the first and passes on from each to the next.            *)
LEMMA Stepwise ==
    ASSUME NEW S, NEW N \in Nat, NEW f, f[0] \in S, \A n \in 1 .. N : f[n - 1] \in S => f[n] \in S
    PROVE  \A n \in 0 .. N : f[n] \in S
<1>. DEFINE T == {n \in Nat : n <= N => f[n] \in S}
<1>1. 0 \in T
  OBVIOUS
<1>2. ASSUME NEW n \in Nat, n \in T
      PROVE  n + 1 \in T
  <2>1. n + 1 <= N => n + 1 \in 1 .. N /\ (n + 1) - 1 = n /\ n <= N
    OBVIOUS
  <2>. QED
    BY <1>2, <2>1
<1>. HIDE DEF T
<1>3. \A n \in Nat : n \in T
  BY <1>1, <1>2, Induction
<1>. QED
  BY <1>3 DEF T

(* DecimalValue(t) is the last of its partial values f.                    *)
PartialValues(t, f) ==
    /\ f \in [0 .. Len(t) -> Nat]
    /\ f[0] = 0
    /\ \A n \in 1 .. Len(t) :
         f[n] = IF t[n] = Minus THEN f[n - 1] ELSE 10 * f[n - 1] + (t[n] - 48)
    /\ DecimalValue(t) = f[Len(t)]

Integral(t) == \A n \in 1 .. Len(t) : t[n] \in Digits \/ (n = 1 /\ t[n] = Minus)

LEMMA DecimalValueIs ==
    ASSUME NEW t \in Seq(Int), Integral(t)
    PROVE  \E f : PartialValues(t, f)
<1>. DEFINE Solved(f) == f = [n \in 0 .. Len(t) |->
               IF n = 0 THEN 0 ELSE IF t[n] = Minus THEN f[n - 1] ELSE 10 * f[n - 1] + (t[n] - 48)]
            f == CHOOSE f : Solved(f)
<1>1. Solved(f)
  BY ValueExists
<1>2. DecimalValue(t) = f[Len(t)]
  BY Zenon DEF DecimalValue
<1>. HIDE DEF f
<1>3. Len(t) \in Nat /\ 0 \in 0 .. Len(t)
  OBVIOUS
<1>4. f[0] = 0
  BY <1>1, <1>3, Zenon
<1>5. \A n \in 1 .. Len(t) :
         f[n] = IF t[n] = Minus THEN f[n - 1] ELSE 10 * f[n - 1] + (t[n] - 48)
  <2>1. \A n \in 1 .. Len(t) : n \in 0 .. Len(t) /\ n # 0
    OBVIOUS
  <2>. QED
    BY <1>1, <2>1, Zenon
<1>6. DOMAIN f = 0 .. Len(t) /\ f = [n \in 0 .. Len(t) |-> f[n]]
  <2>1. DOMAIN f = 0 .. Len(t)
    BY <1>1, Zenon
  <2>2. \A n \in 0 .. Len(t) :
          f[n] = IF n = 0 THEN 0 ELSE IF t[n] = Minus THEN f[n - 1] ELSE 10 * f[n - 1] + (t[n] - 48)
    BY <1>1, Zenon
  <2>. QED
    BY <1>1, <2>1, <2>2, Zenon
<1>. HIDE DEF Solved
<1>7. \A n \in 0 .. Len(t) : f[n] \in Nat
  <2>1. \A n \in 1 .. Len(t) : f[n - 1] \in Nat => f[n] \in Nat
    <3>. TAKE n \in 1 .. Len(t)
    <3>1. t[n] = Minus \/ t[n] \in Digits
      BY Zenon DEF Integral
    <3>2. t[n] \in Digits => t[n] - 48 \in Nat
      BY DEF Digits
    <3>3. f[n - 1] \in Nat /\ t[n] - 48 \in Nat => 10 * f[n - 1] + (t[n] - 48) \in Nat
      BY SMTT(30)
    <3>. QED
      BY <1>5, <3>1, <3>2, <3>3, Zenon
  <2>2. f[0] \in Nat
    BY <1>4
  <2>. QED
    BY <1>3, <2>1, <2>2, Stepwise
<1>8. f \in [0 .. Len(t) -> Nat]
  BY <1>6, <1>7, Zenon
<1>. QED
  BY <1>2, <1>4, <1>5, <1>8, Zenon DEF PartialValues

(* The powers of ten, and the sums of the last digits by their weights.    *)
PowersOf(N, p) ==
    p \in [0 .. N -> Int] /\ p[0] = 1 /\ \A k \in 1 .. N : p[k] = 10 * p[k - 1]

SumsOf(t, p, f) ==
    /\ f \in [0 .. Len(t) -> Int]
    /\ f[0] = 0
    /\ \A k \in 1 .. Len(t) :
         f[k] = IF t[Len(t) + 1 - k] = Minus THEN f[k - 1]
                ELSE f[k - 1] + (t[Len(t) + 1 - k] - 48) * p[k - 1]

LEMMA SumsExist ==
    ASSUME NEW t \in Seq(Int), NEW p \in [0 .. Len(t) -> Int]
    PROVE  \E f \in [0 .. Len(t) -> Int] :
              f = [k \in 0 .. Len(t) |->
                     IF k = 0 THEN 0
                     ELSE IF t[Len(t) + 1 - k] = Minus THEN f[k - 1]
                     ELSE f[k - 1] + (t[Len(t) + 1 - k] - 48) * p[k - 1]]
<1>. DEFINE G == [k \in 1 .. Len(t) |-> [m \in Int |->
                    IF t[Len(t) + 1 - k] = Minus THEN m
                    ELSE m + (t[Len(t) + 1 - k] - 48) * p[k - 1]]]
<1>1. PICK f \in [0 .. Len(t) -> Int] : Recursion(f, Len(t), 0, G)
  <2>1. G \in [1 .. Len(t) -> [Int -> Int]]
    <3>1. \A k \in 1 .. Len(t) : \A m \in Int :
             (IF t[Len(t) + 1 - k] = Minus THEN m
              ELSE m + (t[Len(t) + 1 - k] - 48) * p[k - 1]) \in Int
      <4>1. \A k \in 1 .. Len(t) : t[Len(t) + 1 - k] \in Int /\ p[k - 1] \in Int
        BY SMTT(30), ZenonT(30)
      <4>2. \A x, y, m \in Int : m + (x - 48) * y \in Int
        OBVIOUS
      <4>. QED
        BY <4>1, <4>2, Zenon
    <3>. QED
      BY <3>1, Zenon
  <2>2. 0 \in Int /\ Len(t) \in Nat
    OBVIOUS
  <2>. HIDE DEF G
  <2>. QED
    BY <2>1, <2>2, RecursionExists, Zenon
<1>2. \A k \in 0 .. Len(t) : (IF k = 0 THEN 0 ELSE G[k][f[k - 1]]) =
             IF k = 0 THEN 0
             ELSE IF t[Len(t) + 1 - k] = Minus THEN f[k - 1]
             ELSE f[k - 1] + (t[Len(t) + 1 - k] - 48) * p[k - 1]
  <2>. TAKE k \in 0 .. Len(t)
  <2>1. k # 0 => k \in 1 .. Len(t) /\ f[k - 1] \in Int
    OBVIOUS
  <2>2. CASE k # 0
    <3>1. G[k] = [m \in Int |-> IF t[Len(t) + 1 - k] = Minus THEN m
                                ELSE m + (t[Len(t) + 1 - k] - 48) * p[k - 1]]
      BY <2>1, <2>2, Zenon
    <3>. HIDE DEF G
    <3>2. G[k][f[k - 1]] = IF t[Len(t) + 1 - k] = Minus THEN f[k - 1]
                           ELSE f[k - 1] + (t[Len(t) + 1 - k] - 48) * p[k - 1]
      BY <2>1, <2>2, <3>1, Zenon
    <3>. QED
      BY <2>2, <3>2, Zenon
  <2>. QED
    BY <2>2, Zenon
<1>. HIDE DEF G
<1>3. f = [k \in 0 .. Len(t) |->
             IF k = 0 THEN 0
             ELSE IF t[Len(t) + 1 - k] = Minus THEN f[k - 1]
             ELSE f[k - 1] + (t[Len(t) + 1 - k] - 48) * p[k - 1]]
  BY <1>1, <1>2, Zenon DEF Recursion
<1>. QED
  BY <1>3

LEMMA IntegerOfIs ==
    ASSUME NEW t \in Seq(Int)
    PROVE  \E p, f : /\ PowersOf(Len(t), p) /\ SumsOf(t, p, f)
                     /\ IntegerOf(t) = IF t[1] = Minus THEN -f[Len(t)] ELSE f[Len(t)]
<1>. DEFINE Power(p) == p = [k \in 0 .. Len(t) |-> IF k = 0 THEN 1 ELSE 10 * p[k - 1]]
            p == CHOOSE p : Power(p)
            Sum(f) == f = [k \in 0 .. Len(t) |->
                             IF k = 0 THEN 0
                             ELSE IF t[Len(t) + 1 - k] = Minus THEN f[k - 1]
                             ELSE f[k - 1] + (t[Len(t) + 1 - k] - 48) * p[k - 1]]
            f == CHOOSE f : Sum(f)
<1>1. Len(t) \in Nat /\ 0 \in 0 .. Len(t) /\ \A k \in 1 .. Len(t) : k \in 0 .. Len(t) /\ k # 0
  OBVIOUS
<1>2. IntegerOf(t) = IF t[1] = Minus THEN -f[Len(t)] ELSE f[Len(t)]
  BY Zenon DEF IntegerOf
<1>3. Power(p)
  BY <1>1, PowersExist
<1>. HIDE DEF p
<1>4. PowersOf(Len(t), p)
  <2>1. p[0] = 1 /\ \A k \in 1 .. Len(t) : p[k] = 10 * p[k - 1]
    BY <1>1, <1>3, Zenon
  <2>2. p = [k \in 0 .. Len(t) |-> p[k]]
    <3>1. \A k \in 0 .. Len(t) : p[k] = IF k = 0 THEN 1 ELSE 10 * p[k - 1]
      BY <1>3, Zenon
    <3>. QED
      BY <1>3, <3>1, Zenon
  <2>3. \A k \in 0 .. Len(t) : p[k] \in Int
    <3>1. \A k \in 1 .. Len(t) : p[k - 1] \in Int => p[k] \in Int
      BY <2>1
    <3>2. p[0] \in Int
      BY <2>1
    <3>. QED
      BY <1>1, <3>1, <3>2, Stepwise
  <2>. QED
    BY <2>1, <2>2, <2>3, Zenon DEF PowersOf
<1>. HIDE DEF Power
<1>5. p \in [0 .. Len(t) -> Int]
  BY <1>4, Zenon DEF PowersOf
<1>6. Sum(f)
  <2>1. \E g : Sum(g)
    BY <1>5, SumsExist, ZenonT(60)
  <2>. QED
    BY <2>1, Zenon
<1>. HIDE DEF f
<1>7. SumsOf(t, p, f)
  <2>1. f[0] = 0 /\ \A k \in 1 .. Len(t) :
         f[k] = IF t[Len(t) + 1 - k] = Minus THEN f[k - 1]
                ELSE f[k - 1] + (t[Len(t) + 1 - k] - 48) * p[k - 1]
    BY <1>1, <1>6, Zenon
  <2>2. f = [k \in 0 .. Len(t) |-> f[k]]
    <3>1. \A k \in 0 .. Len(t) : f[k] =
                             IF k = 0 THEN 0
                             ELSE IF t[Len(t) + 1 - k] = Minus THEN f[k - 1]
                             ELSE f[k - 1] + (t[Len(t) + 1 - k] - 48) * p[k - 1]
      BY <1>6, Zenon
    <3>. QED
      BY <1>6, <3>1, Zenon
  <2>. HIDE DEF Sum
  <2>3. \A k \in 0 .. Len(t) : f[k] \in Int
    <3>1. \A k \in 1 .. Len(t) : f[k - 1] \in Int => f[k] \in Int
      <4>1. \A k \in 1 .. Len(t) : t[Len(t) + 1 - k] \in Int /\ p[k - 1] \in Int
        BY <1>5, SMTT(30), ZenonT(30)
      <4>2. \A x, y, m \in Int : m + (x - 48) * y \in Int
        OBVIOUS
      <4>. TAKE k \in 1 .. Len(t)
      <4>3. f[k - 1] \in Int => f[k - 1] + (t[Len(t) + 1 - k] - 48) * p[k - 1] \in Int
        BY <4>1, <4>2, Zenon
      <4>. QED
        BY <2>1, <4>3, Zenon
    <3>2. f[0] \in Int
      BY <2>1
    <3>. QED
      BY <1>1, <3>1, <3>2, Stepwise
  <2>. QED
    BY <2>1, <2>2, <2>3, Zenon DEF SumsOf
<1>. QED
  BY <1>2, <1>4, <1>7

(* Read from the first digit or summed from the last: the same number.     *)
LEMMA SameValue ==
    ASSUME NEW t \in Seq(Int), Integral(t)
    PROVE  /\ DecimalValue(t) \in Nat
           /\ IntegerOf(t) = IF t[1] = Minus THEN -DecimalValue(t) ELSE DecimalValue(t)
<1>1. PICK v : PartialValues(t, v)
  BY DecimalValueIs
<1>2. PICK p, f : /\ PowersOf(Len(t), p) /\ SumsOf(t, p, f)
                  /\ IntegerOf(t) = IF t[1] = Minus THEN -f[Len(t)] ELSE f[Len(t)]
  BY IntegerOfIs
<1>. DEFINE N == Len(t)
            whole == [n \in 0 .. N |-> v[n] * p[N - n] + f[N - n]]
<1>3. N \in Nat
  OBVIOUS
<1>4. /\ \A n \in 0 .. N : v[n] \in Nat /\ p[n] \in Int /\ f[n] \in Int
      /\ v[0] = 0 /\ p[0] = 1 /\ f[0] = 0 /\ DecimalValue(t) = v[N]
  BY <1>1, <1>2, Zenon DEF PartialValues, PowersOf, SumsOf
<1>5. \A n \in 1 .. N :
         /\ v[n] = IF t[n] = Minus THEN v[n - 1] ELSE 10 * v[n - 1] + (t[n] - 48)
         /\ p[n] = 10 * p[n - 1]
         /\ f[n] = IF t[N + 1 - n] = Minus THEN f[n - 1]
                   ELSE f[n - 1] + (t[N + 1 - n] - 48) * p[n - 1]
  BY <1>1, <1>2, Zenon DEF PartialValues, PowersOf, SumsOf
<1>. HIDE DEF N
<1>6. \A n \in 1 .. N : whole[n] = whole[n - 1]
  <2>. TAKE n \in 1 .. N
  <2>1. /\ n - 1 \in 0 .. N /\ n \in 0 .. N /\ N - n \in 0 .. N /\ N - (n - 1) \in 1 .. N
        /\ N - (n - 1) - 1 = N - n /\ N + 1 - (N - (n - 1)) = n
    BY <1>3
  <2>2. /\ p[N - (n - 1)] = 10 * p[N - n]
        /\ f[N - (n - 1)] = IF t[n] = Minus THEN f[N - n] ELSE f[N - n] + (t[n] - 48) * p[N - n]
    BY <1>5, <2>1, ZenonT(60)
  <2>3. /\ whole[n] = v[n] * p[N - n] + f[N - n]
        /\ whole[n - 1] = v[n - 1] * p[N - (n - 1)] + f[N - (n - 1)]
    BY <2>1, Zenon
  <2>4. /\ v[n] \in Int /\ v[n - 1] \in Int /\ p[N - n] \in Int /\ f[N - n] \in Int
    BY <1>4, <2>1
  <2>. HIDE DEF whole
  <2>5. t[n] \in Int
    BY DEF N
  <2>6. \A a, q, g \in Int : a * q + g \in Int /\ a * q + g = a * q + g
    OBVIOUS
  <2>7. CASE t[n] = Minus
    <3>1. v[n] = v[n - 1] /\ f[N - (n - 1)] = f[N - n]
      BY <1>5, <2>2, <2>7, Zenon
    <3>2. n = 1
      <4>1. Minus \notin Digits
        BY DEF Minus, Digits
      <4>. QED
        BY <2>7, <4>1, Zenon DEF Integral, N
    <3>3. v[n] = 0 /\ v[n - 1] = 0
      <4>1. n - 1 = 0
        BY <3>2
      <4>. QED
        BY <1>4, <3>1, <4>1, Zenon
    <3>4. \A a, b, g \in Int : 0 * a + g = 0 * b + g
      OBVIOUS
    <3>5. 10 * p[N - n] \in Int
      BY <2>4
    <3>6. whole[n] = 0 * p[N - n] + f[N - n]
      BY <2>3, <3>3, Zenon
    <3>7. whole[n - 1] = 0 * (10 * p[N - n]) + f[N - n]
      BY <2>2, <2>3, <3>1, <3>3, Zenon
    <3>8. 0 * p[N - n] + f[N - n] = 0 * (10 * p[N - n]) + f[N - n]
      BY <2>4, <3>4, <3>5, Zenon
    <3>. QED
      BY <3>6, <3>7, <3>8, Zenon
  <2>8. CASE t[n] # Minus
    <3>1. v[n] = 10 * v[n - 1] + (t[n] - 48)
      BY <1>5, <2>8, Zenon
    <3>2. f[N - (n - 1)] = f[N - n] + (t[n] - 48) * p[N - n]
      BY <2>2, <2>8, Zenon
    <3>3. \A a, q, g, d \in Int : (10 * a + d) * q + g = a * (10 * q) + (g + d * q)
      OBVIOUS
    <3>4. t[n] - 48 \in Int
      BY <2>5
    <3>5. whole[n] = (10 * v[n - 1] + (t[n] - 48)) * p[N - n] + f[N - n]
      BY <2>3, <3>1, Zenon
    <3>6. whole[n - 1] = v[n - 1] * (10 * p[N - n]) + (f[N - n] + (t[n] - 48) * p[N - n])
      BY <2>2, <2>3, <3>2, Zenon
    <3>7. (10 * v[n - 1] + (t[n] - 48)) * p[N - n] + f[N - n]
          = v[n - 1] * (10 * p[N - n]) + (f[N - n] + (t[n] - 48) * p[N - n])
      <4>. DEFINE a == v[n - 1]
                  q == p[N - n]
                  g == f[N - n]
                  d == t[n] - 48
      <4>1. a \in Int /\ q \in Int /\ g \in Int /\ d \in Int
        BY <2>4, <3>4
      <4>. HIDE DEF a, q, g, d
      <4>2. (10 * a + d) * q + g = a * (10 * q) + (g + d * q)
        BY <4>1
      <4>. QED
        BY <4>2, Zenon DEF a, q, g, d
    <3>. QED
      BY <3>5, <3>6, <3>7, Zenon
  <2>. QED
    BY <2>7, <2>8
<1>7. \A n \in 0 .. N : whole[n] \in {whole[0]}
  <2>1. \A n \in 1 .. N : whole[n - 1] \in {whole[0]} => whole[n] \in {whole[0]}
    BY <1>6, Zenon
  <2>. HIDE DEF whole
  <2>2. whole[0] \in {whole[0]}
    OBVIOUS
  <2>3. N \in Nat
    BY <1>3
  <2>. DEFINE W == {whole[0]}
  <2>. HIDE DEF W
  <2>4. whole[0] \in W /\ \A n \in 1 .. N : whole[n - 1] \in W => whole[n] \in W
    BY <2>1, <2>2, Zenon DEF W
  <2>5. \A n \in 0 .. N : whole[n] \in W
    BY <2>3, <2>4, Stepwise
  <2>. QED
    BY <2>5 DEF W
<1>8. whole[N] = v[N] /\ whole[0] = f[N]
  <2>1. N \in 0 .. N /\ 0 \in 0 .. N /\ N - N = 0 /\ N - 0 = N
    BY <1>3
  <2>2. whole[N] = v[N] * p[0] + f[0] /\ whole[0] = v[0] * p[N] + f[N]
    BY <2>1, Zenon
  <2>. HIDE DEF whole
  <2>3. v[N] \in Int /\ p[N] \in Int /\ f[N] \in Int
    BY <1>4, <2>1, SMTT(40)
  <2>. QED
    BY <1>4, <2>2, <2>3
<1>9. v[N] = f[N] /\ v[N] \in Nat
  <2>1. N \in 0 .. N
    BY <1>3
  <2>. HIDE DEF whole
  <2>. QED
    BY <1>4, <1>7, <1>8, <2>1, Zenon
<1>. QED
  BY <1>2, <1>4, <1>9, Zenon DEF N

(* The first n characters of w, as scan_number has read them at a label.   *)
WholePart(w, i, j) ==
    /\ i \in {0, 1} /\ j \in Nat /\ i + 1 <= j
    /\ i = 1 => w[1] = Minus
    /\ IntegerAt(w, i + 1, j)

Fractional(w, i, j, k) ==
    /\ WholePart(w, i, j)
    /\ k \in Nat /\ j <= k
    /\ FractionAt(w, j + 1, k)

Begun(l, w, n) ==
    \/ l = "minus" /\ n = 1 /\ w[1] = Minus
    \/ l = "zero" /\ \E i \in {0, 1} : WholePart(w, i, n) /\ w[i + 1] \in Zero
    \/ l = "any1" /\ \E i \in {0, 1} : WholePart(w, i, n) /\ w[i + 1] \notin Zero
    \/ l = "decimal1" /\ w[n] = Dot /\ \E i \in {0, 1} : WholePart(w, i, n - 1)
    \/ l = "decimal2" /\ \E i \in {0, 1} : \E j \in Nat : j < n /\ Fractional(w, i, j, n)
    \/ l = "exponent" /\ w[n] \in LetterE
       /\ \E i \in {0, 1} : \E j \in Nat : Fractional(w, i, j, n - 1)
    \/ l = "sign" /\ w[n - 1] \in LetterE /\ w[n] \in {Plus, Minus}
       /\ \E i \in {0, 1} : \E j \in Nat : Fractional(w, i, j, n - 2)
    \/ l = "any2" /\ \E i \in {0, 1} : \E j, k \in Nat :
         k < n /\ Fractional(w, i, j, k) /\ ExponentAt(w, k + 1, n)

Goes(l, c, m) ==
    \/ l = "minus" /\ c \in Zero /\ m = "zero"
    \/ l = "minus" /\ c \in NonZero /\ m = "any1"
    \/ l = "zero" /\ c = Dot /\ m = "decimal1"
    \/ l = "zero" /\ c \in LetterE /\ m = "exponent"
    \/ l = "any1" /\ c \in Digits /\ m = "any1"
    \/ l = "any1" /\ c = Dot /\ m = "decimal1"
    \/ l = "any1" /\ c \in LetterE /\ m = "exponent"
    \/ l = "decimal1" /\ c \in Digits /\ m = "decimal2"
    \/ l = "decimal2" /\ c \in Digits /\ m = "decimal2"
    \/ l = "decimal2" /\ c \in LetterE /\ m = "exponent"
    \/ l = "exponent" /\ c \in {Plus, Minus} /\ m = "sign"
    \/ l = "exponent" /\ c \in Digits /\ m = "any2"
    \/ l = "sign" /\ c \in Digits /\ m = "any2"
    \/ l = "any2" /\ c \in Digits /\ m = "any2"

LEMMA GotosGo ==
    ASSUME NEW l, NEW c, NEW m
    PROVE  (\E g \in Gotos : g[1] = l /\ c \in g[2] /\ m = g[3]) <=> Goes(l, c, m)
<1>1. ASSUME NEW g \in Gotos, g[1] = l, c \in g[2], m = g[3]
      PROVE  Goes(l, c, m)
  BY <1>1 DEF Gotos, IntegerGotos, FractionGotos, ExponentGotos, Goes
<1>2. ASSUME Goes(l, c, m)
      PROVE  \E g \in Gotos : g[1] = l /\ c \in g[2] /\ m = g[3]
  BY <1>2 DEF Gotos, IntegerGotos, FractionGotos, ExponentGotos, Goes
<1>. QED
  BY <1>1, <1>2

LEMMA LabelsAre ==
    NumberLabels = {"minus", "zero", "any1", "decimal1", "decimal2", "exponent", "sign", "any2"}
BY DEF NumberLabels, Gotos, IntegerGotos, FractionGotos, ExponentGotos

(* What each character of a number can be is told by its class.            *)
LEMMA CharClasses ==
    /\ Dot \notin Digits /\ Minus \notin Digits /\ Plus \notin Digits
    /\ Dot \notin LetterE /\ Minus # Dot /\ Plus # Dot
    /\ \A c \in LetterE : c \notin Digits /\ c # Minus /\ c # Plus /\ c # Dot
    /\ \A c \in Digits : c \in Int /\ (c \in NonZero <=> c \notin Zero)
    /\ \A c : (c \in Zero => c \in Digits) /\ (c \in NonZero => c \in Digits)
BY DEF Dot, Minus, Plus, LetterE, Digits, Zero, NonZero

(* A number has one whole part and one fraction.                           *)
LEMMA OneWholePart ==
    ASSUME NEW w \in Seq(Int),
           NEW i \in {0, 1}, NEW j \in Nat, WholePart(w, i, j), j <= Len(w),
           NEW x \in {0, 1}, NEW y \in Nat, NEW z \in Nat,
           Fractional(w, x, y, z), z <= Len(w), ExponentAt(w, z + 1, Len(w))
    PROVE  i = x /\ j <= y /\ (j < Len(w) /\ w[j + 1] \notin Digits => j = y)
<1>1. i = x
  <2>1. i + 1 \in i + 1 .. j /\ x + 1 \in x + 1 .. y
    BY DEF Fractional, WholePart
  <2>2. w[i + 1] \in Digits /\ w[x + 1] \in Digits
    BY <2>1, Zenon DEF Fractional, WholePart, IntegerAt, DigitsAt
  <2>3. (i = 1 => w[1] = Minus) /\ (x = 1 => w[1] = Minus)
    BY Zenon DEF Fractional, WholePart
  <2>4. (i = 0 => w[1] = w[i + 1]) /\ (x = 0 => w[1] = w[x + 1])
    OBVIOUS
  <2>5. Minus \notin Digits
    BY CharClasses
  <2>. QED
    BY <2>2, <2>3, <2>4, <2>5
<1>2. ASSUME y < j
      PROVE  FALSE
  <2>1. y + 1 \in i + 1 .. j /\ x + 1 <= y
    BY <1>1, <1>2 DEF Fractional, WholePart
  <2>2. w[y + 1] \in Digits
    BY <2>1 DEF WholePart, IntegerAt, DigitsAt
  <2>3. CASE y < z
    <3>1. y + 1 <= z
      BY <2>3
    <3>2. w[y + 1] = Dot
      BY <3>1, Zenon DEF Fractional, FractionAt
    <3>. QED
      BY <2>2, <3>2, CharClasses, Zenon
  <2>4. CASE y = z
    <3>1. y + 1 <= Len(w) /\ y + 1 = z + 1
      BY <1>2, <2>4
    <3>2. w[y + 1] \in LetterE
      BY <3>1, Zenon DEF ExponentAt
    <3>. QED
      BY <2>2, <3>2, CharClasses, Zenon
  <2>. QED
    BY <2>3, <2>4 DEF Fractional
<1>3. ASSUME j < y, w[j + 1] \notin Digits
      PROVE  FALSE
  <2>1. j + 1 \in x + 1 .. y
    BY <1>1, <1>3 DEF WholePart
  <2>. QED
    BY <1>3, <2>1 DEF Fractional, WholePart, IntegerAt, DigitsAt
<1>. QED
  BY <1>1, <1>2, <1>3

LEMMA OneFraction ==
    ASSUME NEW w \in Seq(Int),
           NEW i \in {0, 1}, NEW j \in Nat, NEW k \in Nat, Fractional(w, i, j, k), k <= Len(w),
           NEW z \in Nat, Fractional(w, i, j, z), z <= Len(w), ExponentAt(w, z + 1, Len(w))
    PROVE  k <= z /\ (k < Len(w) /\ w[k + 1] \in LetterE => k = z)
<1>1. ASSUME z < k
      PROVE  FALSE
  <2>1. w[z + 1] \in LetterE
    BY <1>1 DEF ExponentAt
  <2>2. CASE z = j
    BY <1>1, <2>1, <2>2 DEF Fractional, FractionAt, Dot, LetterE
  <2>3. CASE z > j
    <3>1. z + 1 \in (j + 1) + 1 .. k /\ j + 1 <= k
      BY <1>1, <2>3
    <3>2. w[z + 1] \in Digits
      BY <3>1, Zenon DEF Fractional, FractionAt, DigitsAt
    <3>. QED
      BY <2>1, <3>2, CharClasses, Zenon
  <2>. QED
    BY <2>2, <2>3 DEF Fractional
<1>2. ASSUME k < z, w[k + 1] \in LetterE
      PROVE  FALSE
  <2>1. CASE k = j
    BY <1>2, <2>1 DEF Fractional, FractionAt, Dot, LetterE
  <2>2. CASE k > j
    <3>1. k + 1 \in (j + 1) + 1 .. z /\ j + 1 <= z
      BY <1>2, <2>2
    <3>2. w[k + 1] \in Digits
      BY <3>1, Zenon DEF Fractional, FractionAt, DigitsAt
    <3>. QED
      BY <1>2, <3>2, CharClasses, Zenon
  <2>. QED
    BY <2>1, <2>2 DEF Fractional
<1>. QED
  BY <1>1, <1>2

LEMMA NumberParts ==
    ASSUME NEW w \in Seq(Int)
    PROVE  IsNumber(w) <=> \E x \in {0, 1} : \E y, z \in Nat :
              Fractional(w, x, y, z) /\ z <= Len(w) /\ ExponentAt(w, z + 1, Len(w))
<1>1. ASSUME IsNumber(w)
      PROVE  \E x \in {0, 1} : \E y, z \in Nat :
              Fractional(w, x, y, z) /\ z <= Len(w) /\ ExponentAt(w, z + 1, Len(w))
  <2>3. PICK x \in {0, 1} : \E y \in x + 1 .. Len(w) : \E z \in y .. Len(w) :
              /\ x = 1 => w[1] = Minus
              /\ IntegerAt(w, x + 1, y)
              /\ FractionAt(w, y + 1, z)
              /\ ExponentAt(w, z + 1, Len(w))
    BY <1>1, Zenon DEF IsNumber
  <2>4. PICK y \in x + 1 .. Len(w) : \E z \in y .. Len(w) :
              /\ x = 1 => w[1] = Minus
              /\ IntegerAt(w, x + 1, y)
              /\ FractionAt(w, y + 1, z)
              /\ ExponentAt(w, z + 1, Len(w))
    BY <2>3, Zenon
  <2>1. PICK z \in y .. Len(w) :
              /\ x = 1 => w[1] = Minus
              /\ IntegerAt(w, x + 1, y)
              /\ FractionAt(w, y + 1, z)
              /\ ExponentAt(w, z + 1, Len(w))
    BY <2>4, Zenon
  <2>2. y \in Nat /\ z \in Nat /\ x + 1 <= y /\ y <= z /\ z <= Len(w)
    OBVIOUS
  <2>. QED
    BY <2>1, <2>2, Zenon DEF Fractional, WholePart
<1>2. ASSUME NEW x \in {0, 1}, NEW y \in Nat, NEW z \in Nat,
             Fractional(w, x, y, z), z <= Len(w), ExponentAt(w, z + 1, Len(w))
      PROVE  IsNumber(w)
  <2>1. y \in x + 1 .. Len(w) /\ z \in y .. Len(w)
    BY <1>2 DEF Fractional, WholePart
  <2>. QED
    BY <1>2, <2>1, Zenon DEF IsNumber, Fractional, WholePart
<1>. QED
  BY <1>1, <1>2

LEMMA SameParts ==
    ASSUME NEW w \in Seq(Int),
           NEW i \in {0, 1}, NEW j \in Nat, NEW k \in Nat, Fractional(w, i, j, k),
           k < Len(w), w[k + 1] \in LetterE,
           NEW x \in {0, 1}, NEW y \in Nat, NEW z \in Nat,
           Fractional(w, x, y, z), z <= Len(w), ExponentAt(w, z + 1, Len(w))
    PROVE  i = x /\ j = y /\ k = z
<1>1. WholePart(w, i, j) /\ j <= k /\ j <= Len(w)
  BY DEF Fractional
<1>2. w[j + 1] \notin Digits
  <2>1. CASE j = k
    BY <2>1, CharClasses
  <2>2. CASE j < k
    <3>1. j + 1 <= k
      BY <2>2
    <3>2. w[j + 1] = Dot
      BY <3>1, Zenon DEF Fractional, FractionAt
    <3>. QED
      BY <3>2, CharClasses
  <2>. QED
    BY <1>1, <2>1, <2>2
<1>3. i = x /\ j = y
  BY <1>1, <1>2, OneWholePart, SMTT(40)
<1>4. k = z
  <2>1. Fractional(w, i, j, z) /\ k <= Len(w)
    BY <1>3
  <2>. QED
    BY <2>1, OneFraction
<1>. QED
  BY <1>3, <1>4

(* After the whole part of a number comes a dot or an exponent,            *)
LEMMA AfterWholePart ==
    ASSUME NEW w \in Seq(Int), NEW x \in {0, 1}, NEW y \in Nat, NEW z \in Nat,
           Fractional(w, x, y, z), z <= Len(w), ExponentAt(w, z + 1, Len(w)), y < Len(w)
    PROVE  w[y + 1] = Dot \/ w[y + 1] \in LetterE
<1>1. CASE y = z
  <2>1. z + 1 <= Len(w)
    BY <1>1
  <2>. QED
    BY <1>1, <2>1, Zenon DEF ExponentAt
<1>2. CASE y < z
  <2>1. y + 1 <= z
    BY <1>2
  <2>. QED
    BY <2>1, Zenon DEF Fractional, FractionAt
<1>. QED
  BY <1>1, <1>2 DEF Fractional

(* and after the fraction an exponent.                                     *)
LEMMA AfterFraction ==
    ASSUME NEW w \in Seq(Int), NEW z \in Nat, z < Len(w), ExponentAt(w, z + 1, Len(w))
    PROVE  w[z + 1] \in LetterE
<1>1. z + 1 <= Len(w)
  OBVIOUS
<1>. QED
  BY <1>1, Zenon DEF ExponentAt

(* A number goes on where a goto leads.                                    *)
LEMMA NumberGoesOn ==
    ASSUME NEW w \in Seq(Int), NEW l, NEW n \in Nat \ {0}, n < Len(w), Begun(l, w, n), IsNumber(w)
    PROVE  \E m : Goes(l, w[n + 1], m)
<1>1. PICK x \in {0, 1}, y \in Nat, z \in Nat :
              Fractional(w, x, y, z) /\ z <= Len(w) /\ ExponentAt(w, z + 1, Len(w))
  BY NumberParts, Zenon
<1>2. /\ WholePart(w, x, y) /\ y <= z /\ x + 1 <= y
      /\ \A q \in x + 1 .. y : w[q] \in Digits
      /\ \A q \in (y + 1) + 1 .. z : w[q] \in Digits
  <2>1. WholePart(w, x, y) /\ y <= z /\ x + 1 <= y /\ FractionAt(w, y + 1, z)
    BY <1>1, Zenon DEF Fractional, WholePart
  <2>2. \A q \in x + 1 .. y : w[q] \in Digits
    BY <2>1, Zenon DEF WholePart, IntegerAt, DigitsAt
  <2>3. ASSUME NEW q \in (y + 1) + 1 .. z
        PROVE  w[q] \in Digits
    <3>1. y + 1 <= z
      OBVIOUS
    <3>. QED
      BY <2>1, <3>1, Zenon DEF FractionAt, DigitsAt
  <2>. QED
    BY <2>1, <2>2, <2>3
<1>3. CASE l = "minus" /\ n = 1 /\ w[1] = Minus
  <2>1. x + 1 \in x + 1 .. y
    BY <1>2
  <2>2. w[x + 1] \in Digits
    BY <1>2, <2>1, Zenon
  <2>3. w[n + 1] \in Digits
    <3>1. x # 0
      <4>1. x = 0 => w[x + 1] = w[1]
        OBVIOUS
      <4>. QED
        BY <1>3, <2>2, <4>1, CharClasses, Zenon
    <3>2. x + 1 = n + 1
      BY <1>3, <3>1
    <3>. QED
      BY <2>2, <3>2, Zenon
  <2>. QED
    BY <1>3, <2>3, CharClasses, Zenon DEF Goes
<1>4. CASE l \in {"zero", "any1"} /\ \E i \in {0, 1} : WholePart(w, i, n) /\ (w[i + 1] \in Zero <=> l = "zero")
  <2>1. PICK i \in {0, 1} : WholePart(w, i, n) /\ (w[i + 1] \in Zero <=> l = "zero")
    BY <1>4
  <2>2. i = x /\ n <= y
    <3>1. n \in Nat /\ n <= Len(w)
      OBVIOUS
    <3>. QED
      BY <1>1, <2>1, <3>1, OneWholePart
  <2>3. CASE n < y
    <3>1. l = "any1"
      <4>1. l = "zero" => x + 1 = y /\ x + 1 = n
        BY <1>2, <2>1, <2>2, Zenon DEF WholePart, IntegerAt
      <4>. QED
        BY <1>4, <2>3, <4>1
    <3>2. n + 1 \in x + 1 .. y
      BY <2>1, <2>2, <2>3 DEF WholePart
    <3>. QED
      BY <1>2, <3>1, <3>2, Zenon DEF Goes
  <2>4. CASE n = y
    <3>1. w[n + 1] = Dot \/ w[n + 1] \in LetterE
      BY <1>1, <2>4, AfterWholePart
    <3>. QED
      BY <1>4, <3>1, Zenon DEF Goes
  <2>. QED
    BY <2>2, <2>3, <2>4
<1>5. CASE l = "decimal1" /\ w[n] = Dot /\ \E i \in {0, 1} : WholePart(w, i, n - 1)
  <2>1. PICK i \in {0, 1} : WholePart(w, i, n - 1)
    BY <1>5
  <2>2. n - 1 \in Nat /\ n - 1 < Len(w) /\ n - 1 <= Len(w) /\ (n - 1) + 1 = n
    OBVIOUS
  <2>3. y = n - 1
    <3>1. w[(n - 1) + 1] \notin Digits
      BY <1>5, <2>2, CharClasses, Zenon
    <3>. DEFINE p == n - 1
    <3>2. p \in Nat /\ p < Len(w) /\ p <= Len(w) /\ WholePart(w, i, p) /\ w[p + 1] \notin Digits
      BY <2>1, <2>2, <3>1
    <3>. HIDE DEF p
    <3>3. y = p
      BY <1>1, <3>2, OneWholePart, SMTT(40)
    <3>. QED
      BY <3>3 DEF p
  <2>4. y < z
    <3>1. y = z => w[n] \in LetterE
      BY <1>1, <2>2, <2>3, AfterFraction
    <3>. QED
      BY <1>2, <1>5, <3>1, CharClasses
  <2>5. n + 1 \in (y + 1) + 1 .. z
    <3>1. y + 1 <= z
      BY <2>4
    <3>2. (y + 1) + 1 <= z
      BY <1>1, <3>1, Zenon DEF Fractional, FractionAt, DigitsAt
    <3>. QED
      BY <2>3, <3>2
  <2>. QED
    BY <1>2, <1>5, <2>5, Zenon DEF Goes
<1>6. CASE l = "decimal2" /\ \E i \in {0, 1} : \E j \in Nat : j < n /\ Fractional(w, i, j, n)
  <2>1. PICK i \in {0, 1}, j \in Nat : j < n /\ Fractional(w, i, j, n)
    BY <1>6
  <2>2. w[j + 1] \notin Digits /\ WholePart(w, i, j) /\ j <= Len(w) /\ j < Len(w)
    <3>1. j + 1 <= n /\ j <= Len(w) /\ j < Len(w)
      BY <2>1
    <3>2. w[j + 1] = Dot
      BY <2>1, <3>1, Zenon DEF Fractional, FractionAt
    <3>. QED
      BY <2>1, <3>1, <3>2, CharClasses, Zenon DEF Fractional
  <2>3. i = x /\ j = y
    BY <1>1, <2>2, OneWholePart
  <2>4. n <= z
    <3>1. Fractional(w, i, j, z) /\ n <= Len(w) /\ n \in Nat
      BY <1>1, <2>3
    <3>. QED
      BY <1>1, <2>1, <3>1, OneFraction
  <2>5. CASE n < z
    <3>1. n + 1 \in (y + 1) + 1 .. z
      BY <2>1, <2>3, <2>5
    <3>. QED
      BY <1>2, <1>6, <3>1, Zenon DEF Goes
  <2>6. CASE n = z
    <3>1. w[n + 1] \in LetterE
      BY <1>1, <2>6, AfterFraction
    <3>. QED
      BY <1>6, <3>1, Zenon DEF Goes
  <2>. QED
    BY <2>4, <2>5, <2>6
<1>7. CASE /\ l = "exponent" /\ w[n] \in LetterE
           /\ \E i \in {0, 1} : \E j \in Nat : Fractional(w, i, j, n - 1)
  <2>1. PICK i \in {0, 1}, j \in Nat : Fractional(w, i, j, n - 1)
    BY <1>7
  <2>2. n - 1 \in Nat /\ n - 1 < Len(w) /\ w[(n - 1) + 1] \in LetterE
    <3>1. (n - 1) + 1 = n /\ n - 1 \in Nat /\ n - 1 < Len(w)
      OBVIOUS
    <3>. QED
      BY <1>7, <3>1, Zenon
  <2>3. z + 1 = n
    <3>. DEFINE p == n - 1
    <3>1. p \in Nat /\ p < Len(w) /\ w[p + 1] \in LetterE /\ Fractional(w, i, j, p)
      BY <2>1, <2>2
    <3>. HIDE DEF p
    <3>2. p = z
      BY <1>1, <3>1, SameParts, SMTT(40)
    <3>. QED
      BY <3>2 DEF p
  <2>4. CASE w[n + 1] \in {Plus, Minus}
    BY <1>7, <2>4, Zenon DEF Goes
  <2>5. CASE w[n + 1] \notin {Plus, Minus}
    <3>1. z + 1 <= Len(w)
      BY <2>3
    <3>2. DigitsAt(w, n + 1, Len(w))
      BY <1>1, <2>3, <2>5, <3>1, Zenon DEF ExponentAt
    <3>3. n + 1 \in n + 1 .. Len(w)
      OBVIOUS
    <3>. QED
      BY <1>7, <3>2, <3>3, Zenon DEF Goes, DigitsAt
  <2>. QED
    BY <2>4, <2>5
<1>8. CASE /\ l = "sign" /\ w[n - 1] \in LetterE /\ w[n] \in {Plus, Minus}
           /\ \E i \in {0, 1} : \E j \in Nat : Fractional(w, i, j, n - 2)
  <2>1. PICK i \in {0, 1}, j \in Nat : Fractional(w, i, j, n - 2)
    BY <1>8
  <2>2. z + 1 = n - 1
    <3>. DEFINE p == n - 2
    <3>1. p \in Nat
      BY <2>1 DEF Fractional
    <3>2. p < Len(w) /\ p + 1 = n - 1
      OBVIOUS
    <3>3. p < Len(w) /\ w[p + 1] \in LetterE /\ Fractional(w, i, j, p)
      BY <1>8, <2>1, <3>2, Zenon
    <3>. HIDE DEF p
    <3>4. p = z
      BY <1>1, <3>1, <3>3, SameParts, SMTT(40)
    <3>. QED
      BY <3>4 DEF p
  <2>3. z + 1 <= Len(w) /\ z + 1 < Len(w) /\ (z + 1) + 1 = n /\ (z + 1) + 2 = n + 1
    BY <2>2
  <2>4. DigitsAt(w, n + 1, Len(w))
    BY <1>1, <1>8, <2>3, Zenon DEF ExponentAt
  <2>5. n + 1 \in n + 1 .. Len(w)
    OBVIOUS
  <2>. QED
    BY <1>8, <2>4, <2>5, Zenon DEF Goes, DigitsAt
<1>9. CASE l = "any2" /\ \E i \in {0, 1} : \E j, k \in Nat :
             k < n /\ Fractional(w, i, j, k) /\ ExponentAt(w, k + 1, n)
  <2>1. PICK i \in {0, 1}, j \in Nat, k \in Nat :
             k < n /\ Fractional(w, i, j, k) /\ ExponentAt(w, k + 1, n)
    BY <1>9
  <2>2. k + 1 <= n /\ k < Len(w)
    BY <2>1
  <2>3. w[k + 1] \in LetterE
    BY <2>1, <2>2, Zenon DEF ExponentAt
  <2>4. k = z
    BY <1>1, <2>1, <2>2, <2>3, SameParts, SMTT(40)
  <2>. DEFINE s == IF w[(k + 1) + 1] \in {Plus, Minus} THEN (k + 1) + 2 ELSE (k + 1) + 1
  <2>5. k + 1 < n
    <3>1. ~(k + 1 < n) => DigitsAt(w, (k + 1) + 1, n)
      BY <2>1, <2>2, Zenon DEF ExponentAt
    <3>2. ~(k + 1 < n) => ~((k + 1) + 1 <= n)
      BY <2>2
    <3>. QED
      BY <3>1, <3>2, Zenon DEF DigitsAt
  <2>6. DigitsAt(w, s, n)
    BY <2>1, <2>2, <2>5, Zenon DEF ExponentAt
  <2>7. DigitsAt(w, s, Len(w))
    <3>1. k + 1 <= Len(w) /\ k + 1 < Len(w)
      BY <2>5
    <3>. QED
      BY <1>1, <2>4, <3>1, Zenon DEF ExponentAt
  <2>8. s \in Nat
    OBVIOUS
  <2>. HIDE DEF s
  <2>9. n + 1 \in s .. Len(w)
    <3>1. s <= n
      BY <2>6 DEF DigitsAt
    <3>. QED
      BY <2>8, <3>1
  <2>. QED
    BY <1>9, <2>7, <2>9, Zenon DEF Goes, DigitsAt
<1>10. CASE l = "zero" /\ \E i \in {0, 1} : WholePart(w, i, n) /\ w[i + 1] \in Zero
  BY <1>4, <1>10, Zenon
<1>11. CASE l = "any1" /\ \E i \in {0, 1} : WholePart(w, i, n) /\ w[i + 1] \notin Zero
  <2>1. l # "zero"
    BY <1>11
  <2>. QED
    BY <1>4, <1>11, <2>1, Zenon
<1>. QED
  BY <1>3, <1>5, <1>6, <1>7, <1>8, <1>9, <1>10, <1>11, Zenon DEF Begun

(* Where a goto leads, one more character is read.                         *)
LEMMA GotoReads ==
    ASSUME NEW w \in Seq(Int), NEW l, NEW m, NEW n \in Nat \ {0}, n < Len(w),
           Begun(l, w, n), Goes(l, w[n + 1], m)
    PROVE  Begun(m, w, n + 1)
<1>. DEFINE c == w[n + 1]
<1>1. n + 1 \in Nat /\ n \in Nat /\ (n + 1) - 1 = n /\ (n + 1) - 2 = n - 1
  OBVIOUS
<1>2. CASE l = "minus" /\ n = 1 /\ w[1] = Minus
  <2>1. c \in Digits /\ c = w[2] /\ (c \in Zero => m = "zero") /\ (c \notin Zero => m = "any1")
    BY <1>2, CharClasses DEF Goes
  <2>2. WholePart(w, 1, n + 1)
    <3>1. \A q \in 1 + 1 .. n + 1 : w[q] \in Digits
      BY <1>2, <2>1
    <3>2. 1 + 1 <= n + 1 /\ 1 + 1 = n + 1 /\ 1 \in {0, 1}
      BY <1>2
    <3>. QED
      BY <1>1, <1>2, <3>1, <3>2, Zenon DEF WholePart, IntegerAt, DigitsAt
  <2>3. w[1 + 1] = c
    BY <1>2
  <2>. HIDE DEF c
  <2>. QED
    BY <2>1, <2>2, <2>3, Zenon DEF Begun
<1>3. ASSUME NEW i \in {0, 1}, WholePart(w, i, n), c = Dot, m = "decimal1"
      PROVE  Begun(m, w, n + 1)
  BY <1>1, <1>3, Zenon DEF Begun
<1>4. ASSUME NEW i \in {0, 1}, NEW j \in Nat, Fractional(w, i, j, n), c \in LetterE, m = "exponent"
      PROVE  Begun(m, w, n + 1)
  BY <1>1, <1>4, Zenon DEF Begun
<1>5. ASSUME NEW i \in {0, 1}, WholePart(w, i, n)
      PROVE  Fractional(w, i, n, n)
  <2>1. n <= n /\ ~(n + 1 <= n)
    OBVIOUS
  <2>. QED
    BY <1>1, <1>5, <2>1, Zenon DEF Fractional, FractionAt
<1>6. CASE l = "zero" /\ \E i \in {0, 1} : WholePart(w, i, n) /\ w[i + 1] \in Zero
  <2>1. PICK i \in {0, 1} : WholePart(w, i, n)
    BY <1>6
  <2>2. (c = Dot /\ m = "decimal1") \/ (c \in LetterE /\ m = "exponent")
    BY <1>6 DEF Goes
  <2>. QED
    BY <1>1, <1>3, <1>4, <1>5, <2>1, <2>2, Zenon
<1>7. CASE l = "any1" /\ \E i \in {0, 1} : WholePart(w, i, n) /\ w[i + 1] \notin Zero
  <2>1. PICK i \in {0, 1} : WholePart(w, i, n) /\ w[i + 1] \notin Zero
    BY <1>7
  <2>2. \/ c \in Digits /\ m = "any1"
        \/ (c = Dot /\ m = "decimal1") \/ (c \in LetterE /\ m = "exponent")
    BY <1>7 DEF Goes
  <2>3. CASE c \in Digits /\ m = "any1"
    <3>1. i + 1 <= n /\ i + 1 <= n + 1 /\ \A q \in i + 1 .. n + 1 : q \in i + 1 .. n \/ q = n + 1
      BY <2>1 DEF WholePart
    <3>2. \A q \in i + 1 .. n + 1 : w[q] \in Digits
      BY <2>1, <2>3, <3>1, Zenon DEF WholePart, IntegerAt, DigitsAt
    <3>3. WholePart(w, i, n + 1)
      BY <1>1, <2>1, <3>1, <3>2, Zenon DEF WholePart, IntegerAt, DigitsAt
    <3>. QED
      BY <2>1, <2>3, <3>3, Zenon DEF Begun
  <2>. QED
    BY <1>1, <1>3, <1>4, <1>5, <2>1, <2>2, <2>3, Zenon
<1>8. CASE l = "decimal1" /\ w[n] = Dot /\ \E i \in {0, 1} : WholePart(w, i, n - 1)
  <2>1. PICK i \in {0, 1} : WholePart(w, i, n - 1)
    BY <1>8
  <2>2. c \in Digits /\ m = "decimal2"
    BY <1>8 DEF Goes
  <2>3. (n - 1) + 1 = n /\ n - 1 \in Nat /\ n - 1 <= n + 1 /\ n - 1 < n + 1 /\ n + 1 <= n + 1
    OBVIOUS
  <2>4. DigitsAt(w, n + 1, n + 1)
    <3>1. \A q \in n + 1 .. n + 1 : q = n + 1
      OBVIOUS
    <3>. QED
      BY <2>2, <2>3, <3>1, Zenon DEF DigitsAt
  <2>5. Fractional(w, i, n - 1, n + 1)
    BY <1>1, <1>8, <2>1, <2>3, <2>4, Zenon DEF Fractional, FractionAt
  <2>. QED
    BY <2>2, <2>3, <2>5, Zenon DEF Begun
<1>9. CASE l = "decimal2" /\ \E i \in {0, 1} : \E j \in Nat : j < n /\ Fractional(w, i, j, n)
  <2>1. PICK i \in {0, 1}, j \in Nat : j < n /\ Fractional(w, i, j, n)
    BY <1>9
  <2>2. CASE c \in Digits /\ m = "decimal2"
    <3>1. j + 1 <= n /\ j < n + 1 /\ j + 1 <= n + 1 /\ j <= n + 1
      BY <2>1
    <3>2. WholePart(w, i, j) /\ w[j + 1] = Dot /\ DigitsAt(w, (j + 1) + 1, n)
      BY <2>1, <3>1, Zenon DEF Fractional, FractionAt
    <3>3. (j + 1) + 1 <= n /\ (j + 1) + 1 <= n + 1 /\ j + 1 \in Nat
          /\ \A q \in (j + 1) + 1 .. n + 1 : q \in (j + 1) + 1 .. n \/ q = n + 1
      BY <3>2 DEF DigitsAt
    <3>4. DigitsAt(w, (j + 1) + 1, n + 1)
      BY <2>2, <3>2, <3>3, Zenon DEF DigitsAt
    <3>5. Fractional(w, i, j, n + 1)
      BY <1>1, <3>1, <3>2, <3>4, Zenon DEF Fractional, FractionAt
    <3>. QED
      BY <2>2, <3>1, <3>5, Zenon DEF Begun
  <2>3. (c \in Digits /\ m = "decimal2") \/ (c \in LetterE /\ m = "exponent")
    BY <1>9 DEF Goes
  <2>. QED
    BY <1>4, <2>1, <2>2, <2>3, Zenon
<1>10. CASE /\ l = "exponent" /\ w[n] \in LetterE
            /\ \E i \in {0, 1} : \E j \in Nat : Fractional(w, i, j, n - 1)
  <2>1. PICK i \in {0, 1}, j \in Nat : Fractional(w, i, j, n - 1)
    BY <1>10
  <2>2. CASE c \in {Plus, Minus} /\ m = "sign"
    BY <1>1, <1>10, <2>1, <2>2, Zenon DEF Begun
  <2>3. CASE c \in Digits /\ m = "any2"
    <3>1. (n - 1) + 1 = n /\ n - 1 \in Nat /\ n <= n + 1 /\ n - 1 < n + 1 /\ n + 1 <= n + 1
      OBVIOUS
    <3>2. c \notin {Plus, Minus}
      BY <2>3, CharClasses, Zenon
    <3>3. DigitsAt(w, n + 1, n + 1)
      <4>1. \A q \in n + 1 .. n + 1 : q = n + 1
        OBVIOUS
      <4>. QED
        BY <2>3, <3>1, <4>1, Zenon DEF DigitsAt
    <3>4. ExponentAt(w, (n - 1) + 1, n + 1)
      BY <1>10, <3>1, <3>2, <3>3, Zenon DEF ExponentAt
    <3>. QED
      BY <2>1, <2>3, <3>1, <3>4, Zenon DEF Begun
  <2>4. (c \in {Plus, Minus} /\ m = "sign") \/ (c \in Digits /\ m = "any2")
    BY <1>10 DEF Goes
  <2>. QED
    BY <2>2, <2>3, <2>4
<1>11. CASE /\ l = "sign" /\ w[n - 1] \in LetterE /\ w[n] \in {Plus, Minus}
            /\ \E i \in {0, 1} : \E j \in Nat : Fractional(w, i, j, n - 2)
  <2>1. PICK i \in {0, 1}, j \in Nat : Fractional(w, i, j, n - 2)
    BY <1>11
  <2>2. c \in Digits /\ m = "any2"
    BY <1>11 DEF Goes
  <2>3. n - 2 \in Nat
    BY <2>1 DEF Fractional
  <2>4. /\ (n - 2) + 1 = n - 1 /\ (n - 1) + 1 = n /\ (n - 1) + 2 = n + 1
        /\ n - 2 < n + 1 /\ n - 1 < n + 1 /\ n + 1 <= n + 1
    OBVIOUS
  <2>5. DigitsAt(w, n + 1, n + 1)
    <3>1. \A q \in n + 1 .. n + 1 : q = n + 1
      OBVIOUS
    <3>. QED
      BY <2>2, <2>4, <3>1, Zenon DEF DigitsAt
  <2>6. ExponentAt(w, (n - 2) + 1, n + 1)
    BY <1>11, <2>4, <2>5, Zenon DEF ExponentAt
  <2>. QED
    BY <2>1, <2>2, <2>3, <2>4, <2>6, Zenon DEF Begun
<1>12. CASE l = "any2" /\ \E i \in {0, 1} : \E j, k \in Nat :
             k < n /\ Fractional(w, i, j, k) /\ ExponentAt(w, k + 1, n)
  <2>1. PICK i \in {0, 1}, j \in Nat, k \in Nat :
             k < n /\ Fractional(w, i, j, k) /\ ExponentAt(w, k + 1, n)
    BY <1>12
  <2>2. c \in Digits /\ m = "any2"
    BY <1>12 DEF Goes
  <2>3. k + 1 <= n /\ k + 1 <= n + 1 /\ k + 1 < n + 1 /\ k < n + 1
    BY <2>1
  <2>. DEFINE s == IF w[(k + 1) + 1] \in {Plus, Minus} THEN (k + 1) + 2 ELSE (k + 1) + 1
  <2>5. k + 1 < n
    <3>1. ~(k + 1 < n) => DigitsAt(w, (k + 1) + 1, n)
      BY <2>1, <2>3, Zenon DEF ExponentAt
    <3>2. ~(k + 1 < n) => ~((k + 1) + 1 <= n)
      BY <2>3
    <3>. QED
      BY <3>1, <3>2, Zenon DEF DigitsAt
  <2>6. w[k + 1] \in LetterE /\ DigitsAt(w, s, n)
    BY <2>1, <2>3, <2>5, Zenon DEF ExponentAt
  <2>7. s \in Nat
    OBVIOUS
  <2>8. DigitsAt(w, s, n + 1)
    <3>. HIDE DEF s
    <3>1. s <= n /\ s <= n + 1 /\ \A q \in s .. n + 1 : q \in s .. n \/ q = n + 1
      BY <2>6, <2>7 DEF DigitsAt
    <3>. QED
      BY <2>2, <2>6, <3>1, Zenon DEF DigitsAt
  <2>9. ExponentAt(w, k + 1, n + 1)
    BY <2>3, <2>6, <2>8, Zenon DEF ExponentAt
  <2>. QED
    BY <2>1, <2>2, <2>3, <2>9, Zenon DEF Begun
<1>. QED
  BY <1>2, <1>6, <1>7, <1>8, <1>9, <1>10, <1>11, <1>12, Zenon DEF Begun

(* Where a number may end, what was read is a number.                      *)
LEMMA NumberMayEnd ==
    ASSUME NEW w \in Seq(Int), w # <<>>, NEW l \in ToDone, Begun(l, w, Len(w))
    PROVE  IsNumber(w)
<1>1. Len(w) \in Nat /\ Len(w) <= Len(w) /\ ~(Len(w) + 1 <= Len(w))
  OBVIOUS
<1>2. ASSUME NEW i \in {0, 1}, WholePart(w, i, Len(w))
      PROVE  IsNumber(w)
  BY <1>1, <1>2, NumberParts, Zenon DEF Fractional, FractionAt, ExponentAt
<1>3. ASSUME NEW i \in {0, 1}, NEW j \in Nat, Fractional(w, i, j, Len(w))
      PROVE  IsNumber(w)
  BY <1>1, <1>3, NumberParts, Zenon DEF ExponentAt
<1>4. ASSUME NEW i \in {0, 1}, NEW j \in Nat, NEW k \in Nat, k < Len(w), Fractional(w, i, j, k),
             ExponentAt(w, k + 1, Len(w))
      PROVE  IsNumber(w)
  <2>1. k <= Len(w)
    BY <1>1, <1>4
  <2>. QED
    BY <1>4, <2>1, NumberParts, Zenon
<1>5. l \in {"zero", "any1", "decimal2", "any2"}
  BY DEF ToDone
<1>. QED
  BY <1>2, <1>3, <1>4, <1>5 DEF Begun

(* It is an integer unless a dot or an exponent was read.                  *)
LEMMA ReadIsInteger ==
    ASSUME NEW w \in Seq(Int), w # <<>>, NEW l \in ToDone, Begun(l, w, Len(w))
    PROVE  /\ IsInteger(w) <=> l \in {"zero", "any1"}
           /\ IsInteger(w) => Integral(w)
<1>1. ASSUME NEW i \in {0, 1}, WholePart(w, i, Len(w))
      PROVE  IsInteger(w) /\ Integral(w)
  <2>1. \A q \in 1 .. Len(w) : q \in i + 1 .. Len(w) \/ (q = 1 /\ i = 1)
    OBVIOUS
  <2>2. \A q \in 1 .. Len(w) : w[q] \in Digits \/ (q = 1 /\ w[q] = Minus)
    BY <1>1, <2>1, Zenon DEF WholePart, IntegerAt, DigitsAt
  <2>. QED
    BY <2>2, Zenon DEF IsInteger, Integral
<1>2. ASSUME NEW q \in 1 .. Len(w), w[q] = Dot \/ w[q] \in LetterE
      PROVE  ~IsInteger(w)
  BY <1>2, CharClasses, Zenon DEF IsInteger
<1>3. ASSUME NEW i \in {0, 1}, NEW j \in Nat, j < Len(w), Fractional(w, i, j, Len(w))
      PROVE  ~IsInteger(w)
  <2>1. j + 1 <= Len(w) /\ j + 1 \in 1 .. Len(w)
    BY <1>3
  <2>2. w[j + 1] = Dot
    BY <1>3, <2>1, Zenon DEF Fractional, FractionAt
  <2>. QED
    BY <1>2, <2>1, <2>2
<1>4. ASSUME NEW k \in Nat, k < Len(w), ExponentAt(w, k + 1, Len(w))
      PROVE  ~IsInteger(w)
  <2>1. k + 1 <= Len(w) /\ k + 1 \in 1 .. Len(w)
    BY <1>4
  <2>2. w[k + 1] \in LetterE
    BY <1>4, <2>1, Zenon DEF ExponentAt
  <2>. QED
    BY <1>2, <2>1, <2>2
<1>5. CASE l \in {"zero", "any1"}
  BY <1>1, <1>5 DEF Begun
<1>6. CASE l = "decimal2"
  <2>1. l \notin {"zero", "any1"}
    BY <1>6
  <2>. QED
    BY <1>3, <1>6, <2>1 DEF Begun
<1>7. CASE l = "any2"
  <2>1. l \notin {"zero", "any1"}
    BY <1>7
  <2>. QED
    BY <1>4, <1>7, <2>1 DEF Begun
<1>. QED
  BY <1>5, <1>6, <1>7 DEF ToDone

(* Only what was read matters.                                             *)
LEMMA BegunAgrees ==
    ASSUME NEW t \in Seq(Int), NEW w \in Seq(Int), NEW l, NEW n \in Nat \ {0},
           \A q \in 1 .. n : w[q] = t[q], Begun(l, t, n)
    PROVE  Begun(l, w, n)
<1>1. ASSUME NEW i \in {0, 1}, NEW j, j <= n, WholePart(t, i, j)
      PROVE  WholePart(w, i, j)
  <2>1. j \in Nat /\ i + 1 <= j /\ IntegerAt(t, i + 1, j) /\ (i = 1 => t[1] = Minus)
    BY <1>1, Zenon DEF WholePart
  <2>2. 1 \in 1 .. n /\ i + 1 \in 1 .. n /\ \A q \in i + 1 .. j : q \in 1 .. n
    BY <1>1, <2>1
  <2>3. IntegerAt(w, i + 1, j)
    BY <2>1, <2>2, Zenon DEF IntegerAt, DigitsAt
  <2>. QED
    BY <2>1, <2>2, <2>3, Zenon DEF WholePart
<1>2. ASSUME NEW i \in {0, 1}, NEW j \in Nat, NEW k, k <= n, Fractional(t, i, j, k)
      PROVE  Fractional(w, i, j, k)
  <2>1. k \in Nat /\ j <= k /\ WholePart(t, i, j) /\ FractionAt(t, j + 1, k)
    BY <1>2, Zenon DEF Fractional
  <2>2. j <= n
    BY <1>2, <2>1
  <2>3. /\ j + 1 <= k => j + 1 \in 1 .. n
        /\ \A q \in (j + 1) + 1 .. k : q \in 1 .. n
    BY <1>2, <2>1
  <2>4. FractionAt(w, j + 1, k)
    BY <2>1, <2>3, Zenon DEF FractionAt, DigitsAt
  <2>. QED
    BY <1>1, <2>1, <2>2, <2>4, Zenon DEF Fractional
<1>3. ASSUME NEW k \in Nat, k < n, ExponentAt(t, k + 1, n)
      PROVE  ExponentAt(w, k + 1, n)
  <2>1. /\ k + 1 <= n /\ k + 1 \in 1 .. n /\ (k + 1 < n => (k + 1) + 1 \in 1 .. n)
        /\ \A q \in (k + 1) + 1 .. n : q \in 1 .. n
        /\ \A q \in (k + 1) + 2 .. n : q \in 1 .. n
    BY <1>3
  <2>. QED
    BY <1>3, <2>1, Zenon DEF ExponentAt, DigitsAt
<1>4. n <= n /\ n - 1 <= n /\ n - 2 <= n /\ 1 \in 1 .. n /\ n \in 1 .. n
  OBVIOUS
<1>5. CASE l \in {"minus", "zero", "any1", "decimal1"}
  <2>1. \A i \in {0, 1} : WholePart(t, i, n) => i + 1 \in 1 .. n
    BY DEF WholePart
  <2>2. l \notin {"decimal2", "exponent", "sign", "any2"}
    BY <1>5
  <2>. QED
    BY <1>1, <1>4, <2>1, <2>2, Zenon DEF Begun
<1>6. CASE l = "decimal2"
  <2>1. l \notin {"minus", "zero", "any1", "decimal1", "exponent", "sign", "any2"}
    BY <1>6
  <2>. QED
    BY <1>2, <1>4, <2>1, Zenon DEF Begun
<1>7. CASE l = "exponent"
  <2>1. l \notin {"minus", "zero", "any1", "decimal1", "decimal2", "sign", "any2"}
    BY <1>7
  <2>. QED
    BY <1>2, <1>4, <2>1, Zenon DEF Begun
<1>8. CASE l = "sign"
  <2>1. l \notin {"minus", "zero", "any1", "decimal1", "decimal2", "exponent", "any2"}
    BY <1>8
  <2>2. PICK i \in {0, 1}, j \in Nat : Fractional(t, i, j, n - 2)
    BY <2>1, Zenon DEF Begun
  <2>3. n - 1 \in 1 .. n
    BY <2>2 DEF Fractional
  <2>4. t[n - 1] \in LetterE /\ t[n] \in {Plus, Minus}
    BY <2>1, Zenon DEF Begun
  <2>. QED
    BY <1>2, <1>4, <1>8, <2>2, <2>3, <2>4, Zenon DEF Begun
<1>9. CASE l = "any2"
  <2>1. l \notin {"minus", "zero", "any1", "decimal1", "decimal2", "exponent", "sign"}
    BY <1>9
  <2>2. PICK i \in {0, 1}, j \in Nat, k \in Nat :
             k < n /\ Fractional(t, i, j, k) /\ ExponentAt(t, k + 1, n)
    BY <2>1, Zenon DEF Begun
  <2>3. k <= n
    BY <2>2
  <2>. QED
    BY <1>2, <1>3, <1>9, <2>2, <2>3, Zenon DEF Begun
<1>. QED
  BY <1>5, <1>6, <1>7, <1>8, <1>9, Zenon DEF Begun

-----------------------------------------------------------------------------
(* What the scanner keeps of a text.                                       *)
LexerSpec == LexerInit /\ [][LexerNext]_lexerVars

Units == Seq(Int) \ {<<>>}
StartLabels  == {"bom", "bom 2", "bom 3", "scan"}
StringLabels == {"string", "bytes", "escape", "u", "pair", "pair u", "low"}

ReadInv ==
    /\ read \in Seq(Units)
    /\ scanner \in StartLabels \cup {"literal", "scanned"} \cup NumberLabels \cup StringLabels
    /\ scanner \in StartLabels => read = <<>>
    /\ scanner \in {"literal"} \cup NumberLabels => Len(read) = 1
    /\ scanner = "literal" => read[1][1] \in DOMAIN Literals
    /\ scanner \in StringLabels => /\ Len(read) >= 1 /\ read[1] = <<Quote>>
                                   /\ scanner # "string" => Len(read) >= 2

(* A character joins the last unit, or starts one more.                    *)
LEMMA JoinsLast ==
    ASSUME read \in Seq(Units), Len(read) >= 1, NEW c \in Int, Joins(c)
    PROVE  /\ read' \in Seq(Units) /\ Len(read') = Len(read)
           /\ read'[Len(read)] = Append(read[Len(read)], c)
           /\ \A i \in 1 .. Len(read) - 1 : read'[i] = read[i]
<1>. DEFINE n == Len(read)
            u == Append(read[n], c)
<1>1. n \in 1 .. Len(read) /\ read[n] \in Units
  <2>1. Len(read) \in 1 .. Len(read)
    OBVIOUS
  <2>. QED
    BY <2>1, ElementOfSeq
<1>2. u \in Units
  <2>1. ASSUME NEW t \in Units
        PROVE  Append(t, c) \in Units
    <3>1. t \in Seq(Int)
      BY DEF Units
    <3>2. Append(t, c) \in Seq(Int) /\ Append(t, c) # <<>>
      BY <3>1, AppendProperties
    <3>. QED
      BY <3>2, Zenon DEF Units
  <2>. QED
    BY <1>1, <2>1, Zenon
<1>3. read' = [read EXCEPT ![n] = u]
  BY DEF Joins
<1>. HIDE DEF u
<1>4. read' \in Seq(Units) /\ Len(read') = Len(read)
      /\ \A i \in 1 .. Len(read) : read'[i] = IF i = n THEN u ELSE read[i]
  BY <1>1, <1>2, <1>3, ExceptSeq
<1>5. \A i \in 1 .. Len(read) - 1 : i \in 1 .. Len(read) /\ i # n
  OBVIOUS
<1>. QED
  BY <1>1, <1>4, <1>5, Zenon DEF u

LEMMA JoinsQuadLast ==
    ASSUME read \in Seq(Units), Len(read) >= 1, NEW quad \in Seq(Int), JoinsQuad(quad)
    PROVE  /\ read' \in Seq(Units) /\ Len(read') = Len(read)
           /\ read'[Len(read)] = read[Len(read)] \o quad
           /\ \A i \in 1 .. Len(read) - 1 : read'[i] = read[i]
<1>. DEFINE n == Len(read)
            u == read[n] \o quad
<1>1. n \in 1 .. Len(read) /\ read[n] \in Units
  <2>1. Len(read) \in 1 .. Len(read)
    OBVIOUS
  <2>. QED
    BY <2>1, ElementOfSeq
<1>2. u \in Units
  <2>1. read[n] \in Seq(Int) /\ Len(read[n]) # 0
    BY <1>1 DEF Units
  <2>2. u \in Seq(Int) /\ Len(u) = Len(read[n]) + Len(quad)
    BY <2>1
  <2>3. Len(u) # 0
    BY <2>1, <2>2
  <2>. QED
    BY <2>2, <2>3 DEF Units
<1>3. read' = [read EXCEPT ![n] = u]
  BY DEF JoinsQuad
<1>. HIDE DEF u
<1>4. read' \in Seq(Units) /\ Len(read') = Len(read)
      /\ \A i \in 1 .. Len(read) : read'[i] = IF i = n THEN u ELSE read[i]
  BY <1>1, <1>2, <1>3, ExceptSeq
<1>5. \A i \in 1 .. Len(read) - 1 : i \in 1 .. Len(read) /\ i # n
  OBVIOUS
<1>. QED
  BY <1>1, <1>4, <1>5, Zenon DEF u

LEMMA StartsOne ==
    ASSUME read \in Seq(Units), NEW c \in Int, Starts(c)
    PROVE  /\ read' \in Seq(Units) /\ Len(read') = Len(read) + 1
           /\ read'[Len(read) + 1] = <<c>>
           /\ \A i \in 1 .. Len(read) : read'[i] = read[i]
<1>. DEFINE u == <<c>>
<1>1. u \in Units
  BY DEF Units
<1>2. read' = Append(read, u)
  BY DEF Starts
<1>. HIDE DEF u
<1>3. /\ read' \in Seq(Units) /\ Len(read') = Len(read) + 1
      /\ read'[Len(read) + 1] = u
      /\ \A i \in 1 .. Len(read) : read'[i] = read[i]
  BY <1>1, <1>2
<1>. QED
  BY <1>3, Zenon DEF u
LEMMA InputType ==
    /\ \A c \in Chars : c \in Int
    /\ \A quad \in Quads : quad \in [1 .. 4 -> 0 .. 255] /\ quad \in Seq(Int) /\ Len(quad) = 4
<1>1. \A c \in Chars : c \in Int
  BY LexerAssumption
<1>2. ASSUME NEW quad \in Quads
      PROVE  quad \in [1 .. 4 -> 0 .. 255] /\ quad \in Seq(Int) /\ Len(quad) = 4
  <2>1. quad \in [1 .. 4 -> 0 .. 255]
    BY LexerAssumption
  <2>2. quad \in [1 .. 4 -> Int]
    BY <2>1
  <2>3. quad \in Seq(Int)
    <3>. DEFINE f == [i \in 1 .. 4 |-> quad[i]]
    <3>1. quad = f
      BY <2>2, Zenon
    <3>2. \A i \in 1 .. 4 : quad[i] \in Int
      BY <2>2, Zenon
    <3>3. f \in Seq(Int)
      BY <3>2
    <3>. QED
      BY <3>1, <3>3, Zenon
  <2>4. Len(quad) = 4
    <3>1. DOMAIN quad = 1 .. 4 /\ DOMAIN quad = 1 .. Len(quad) /\ Len(quad) \in Nat
      BY <2>2, <2>3, LenProperties
    <3>. QED
      BY <3>1
  <2>. QED
    BY <2>1, <2>3, <2>4
<1>. QED
  BY <1>1, <1>2

LEMMA ReadInvInit == LexerInit => ReadInv
<1>1. <<>> \in Seq(Units) /\ {"bom", "scan"} \subseteq StartLabels
      /\ StartLabels \cap ({"literal"} \cup NumberLabels \cup StringLabels) = {}
  BY LabelsAre DEF StartLabels, StringLabels
<1>. QED
  BY <1>1, Zenon DEF LexerInit, ReadInv

(* A string stays one.                                                     *)
StringKept ==
    /\ scanner' \in StringLabels \cup {"scanned"} /\ read' \in Seq(Units)
    /\ Len(read') >= 1 /\ read'[1] = <<Quote>>
    /\ scanner' \in StringLabels \ {"string"} => Len(read') >= 2

LEMMA StringStep ==
    ASSUME ReadInv, LexerNext, scanner \in StringLabels
    PROVE  StringKept
<1>1. /\ StartLabels \cap StringLabels = {} /\ {"literal", "scanned"} \cap StringLabels = {}
      /\ NumberLabels \cap StringLabels = {}
  BY LabelsAre DEF StartLabels, StringLabels
<1>8. ASSUME NEW c \in Int, scanner = "string", Starts(c), scanner' \in {"string", "bytes", "escape", "scanned"}
      PROVE  StringKept
  <2>1. read \in Seq(Units) /\ Len(read) >= 1 /\ read[1] = <<Quote>>
    BY <1>8, Zenon DEF ReadInv, StringLabels
  <2>2. read' \in Seq(Units) /\ Len(read') = Len(read) + 1
        /\ \A i \in 1 .. Len(read) : read'[i] = read[i]
    BY <1>8, <2>1, StartsOne
  <2>3. Len(read') >= 1 /\ Len(read') >= 2 /\ read'[1] = <<Quote>>
    <3>1. 1 \in 1 .. Len(read) /\ Len(read) \in Nat
      BY <2>1
    <3>2. read'[1] = read[1]
      BY <2>2, <3>1, Zenon
    <3>. QED
      BY <2>1, <2>2, <3>1, <3>2
  <2>4. scanner' \in StringLabels \cup {"scanned"}
    BY <1>8 DEF StringLabels
  <2>. QED
    BY <2>2, <2>3, <2>4, Zenon DEF StringKept
<1>9. ASSUME scanner \in StringLabels \ {"string"}, scanner' \in StringLabels \cup {"scanned"},
             read' \in Seq(Units), Len(read') = Len(read),
             \A i \in 1 .. Len(read) - 1 : read'[i] = read[i]
      PROVE  StringKept
  <2>1. Len(read) >= 2 /\ read[1] = <<Quote>> /\ Len(read) \in Nat
    BY <1>9 DEF ReadInv
  <2>2. Len(read') >= 1 /\ Len(read') >= 2 /\ read'[1] = <<Quote>>
    BY <1>9, <2>1
  <2>. QED
    BY <1>9, <2>2, Zenon DEF StringKept
<1>10. ASSUME NEW c \in Int, scanner \in StringLabels \ {"string"},
              scanner' \in StringLabels \cup {"scanned"}, Joins(c)
       PROVE  StringKept
  <2>1. read \in Seq(Units) /\ Len(read) >= 1
    BY <1>10 DEF ReadInv
  <2>. QED
    BY <1>9, <1>10, <2>1, JoinsLast
<1>11. ASSUME NEW quad \in Quads, scanner \in StringLabels \ {"string"},
              scanner' \in StringLabels \cup {"scanned"}, JoinsQuad(quad)
       PROVE  StringKept
  <2>1. read \in Seq(Units) /\ Len(read) >= 1
    BY <1>11 DEF ReadInv
  <2>2. quad \in Seq(Int)
    BY InputType
  <2>. QED
    BY <1>9, <1>11, <2>1, <2>2, JoinsQuadLast
<1>12. ASSUME NEW c \in Chars, StringChar(c)
       PROVE  StringKept
  <2>1. /\ scanner = "string"
        /\ \/ read' = read /\ scanner' = "scanned"
           \/ Starts(c) /\ scanner' \in {"string", "bytes", "escape", "scanned"}
    BY <1>12, Zenon DEF StringChar, Return
  <2>2. CASE read' = read /\ scanner' = "scanned"
    <3>1. read \in Seq(Units) /\ Len(read) >= 1 /\ read[1] = <<Quote>>
      BY <2>1, Zenon DEF ReadInv, StringLabels
    <3>2. scanner' \notin StringLabels
      BY <2>2 DEF StringLabels
    <3>. QED
      BY <2>2, <3>1, <3>2, Zenon DEF StringKept
  <2>3. c \in Int
    BY InputType
  <2>. QED
    BY <1>8, <2>1, <2>2, <2>3
<1>13. ASSUME NEW c \in Chars, NextByte(c) \/ Escape(c) \/ PairEscape(c)
       PROVE  StringKept
  <2>1. /\ scanner \in {"bytes", "escape", "pair", "pair u"} /\ Joins(c)
        /\ scanner' \in {"string", "bytes", "u", "pair u", "low", "scanned"}
    <3>1. CASE NextByte(c)
      BY <3>1, Zenon DEF NextByte, Return
    <3>2. CASE Escape(c)
      BY <3>2, Zenon DEF Escape, Return
    <3>3. CASE PairEscape(c)
      BY <3>3, Zenon DEF PairEscape, Return
    <3>. QED
      BY <1>13, <3>1, <3>2, <3>3
  <2>2. scanner \in StringLabels \ {"string"} /\ scanner' \in StringLabels \cup {"scanned"}
        /\ c \in Int
    <3>1. scanner \in StringLabels \ {"string"} /\ scanner' \in StringLabels \cup {"scanned"}
      BY <2>1 DEF StringLabels
    <3>. QED
      BY <3>1, InputType, Zenon
  <2>. QED
    BY <1>10, <2>1, <2>2
<1>14. ASSUME NEW quad \in Quads, UnicodeEscape(quad) \/ LowSurrogate(quad)
       PROVE  StringKept
  <2>1. /\ scanner \in {"u", "low"} /\ JoinsQuad(quad)
        /\ scanner' \in {"pair", "string", "scanned"}
    BY <1>14, Zenon DEF UnicodeEscape, LowSurrogate, Return
  <2>2. scanner \in StringLabels \ {"string"} /\ scanner' \in StringLabels \cup {"scanned"}
    BY <2>1 DEF StringLabels
  <2>. QED
    BY <1>11, <2>1, <2>2
<1>15. ASSUME NEW c \in Chars,
              SkipBom(c) \/ Dispatch(c) \/ LiteralChar(c) \/ NumberChar(c) \/ NumberEnds(c)
       PROVE  scanner \in StartLabels \cup {"literal"} \cup NumberLabels
  BY <1>15, Zenon DEF StartLabels, SkipBom, Dispatch, LiteralChar, NumberChar, NumberEnds
<1>. QED
  BY <1>1, <1>12, <1>13, <1>14, <1>15, Zenon DEF LexerNext

LEMMA ReadInvStep ==
    ASSUME ReadInv, LexerNext
    PROVE  ReadInv'
<1>1. /\ StartLabels \cap ({"literal", "scanned"} \cup NumberLabels \cup StringLabels) = {}
      /\ {"literal"} \cap ({"scanned"} \cup NumberLabels \cup StringLabels) = {}
      /\ {"scanned"} \cap (NumberLabels \cup StringLabels) = {}
      /\ NumberLabels \cap StringLabels = {}
  BY LabelsAre DEF StartLabels, StringLabels
<1>2. ASSUME scanner' = "scanned", read' \in Seq(Units)
      PROVE  ReadInv'
  BY <1>1, <1>2 DEF ReadInv
<1>3. ASSUME NEW c \in Chars, SkipBom(c)
      PROVE  ReadInv'
  <2>1. /\ scanner \in StartLabels /\ scanner' \in StartLabels \cup {"scanned"} /\ read' = read
    BY <1>3, Zenon DEF SkipBom, Return, StartLabels
  <2>2. read = <<>> /\ read \in Seq(Units)
    BY <2>1, Zenon DEF ReadInv
  <2>. QED
    BY <1>1, <2>1, <2>2, Zenon DEF ReadInv
<1>4. ASSUME NEW c \in Chars, Dispatch(c)
      PROVE  ReadInv'
  <2>1. scanner \in StartLabels /\ read = <<>> /\ read \in Seq(Units) /\ c \in Int
    <3>1. scanner \in StartLabels
      BY <1>4, Zenon DEF Dispatch, StartLabels
    <3>. QED
      BY <3>1, InputType, Zenon DEF ReadInv
  <2>2. \/ read' = read /\ scanner' \in {"scan", "scanned"}
        \/ Starts(c) /\ c = Quote /\ scanner' = "string"
        \/ Starts(c) /\ c # Quote /\ c \in DOMAIN Literals /\ scanner' = "literal"
        \/ Starts(c) /\ scanner' \in {"minus", "zero", "any1"}
    BY <1>4, ZenonT(30) DEF Dispatch, Return
  <2>3. CASE read' = read /\ scanner' \in {"scan", "scanned"}
    <3>1. scanner' \in StartLabels \cup {"scanned"}
      BY <2>3 DEF StartLabels
    <3>. QED
      BY <1>1, <2>1, <2>3, <3>1, Zenon DEF ReadInv
  <2>4. CASE Starts(c) /\ scanner' \notin {"scan", "scanned"}
    <3>1. read' \in Seq(Units) /\ Len(read') = 1 /\ read'[1] = <<c>>
      <4>1. Len(read) = 0 /\ Len(read) + 1 = 1
        BY <2>1
      <4>. QED
        BY <2>1, <2>4, <4>1, StartsOne
    <3>2. CASE c = Quote /\ scanner' = "string"
      <4>1. scanner' \in StringLabels /\ Len(read') >= 1
        BY <3>1, <3>2 DEF StringLabels
      <4>. QED
        BY <1>1, <3>1, <3>2, <4>1, Zenon DEF ReadInv
    <3>3. CASE c \in DOMAIN Literals /\ scanner' = "literal"
      <4>1. <<c>>[1] = c
        OBVIOUS
      <4>2. read'[1][1] \in DOMAIN Literals
        BY <3>1, <3>3, <4>1, Zenon
      <4>. QED
        BY <1>1, <3>1, <3>3, <4>2, Zenon DEF ReadInv
    <3>4. CASE scanner' \in {"minus", "zero", "any1"}
      <4>1. scanner' \in NumberLabels
        BY <3>4, LabelsAre
      <4>. QED
        BY <1>1, <3>1, <4>1, Zenon DEF ReadInv
    <3>5. \/ c = Quote /\ scanner' = "string"
          \/ c \in DOMAIN Literals /\ scanner' = "literal"
          \/ scanner' \in {"minus", "zero", "any1"}
      BY <2>2, <2>4
    <3>. QED
      BY <3>2, <3>3, <3>4, <3>5
  <2>. QED
    BY <2>2, <2>3, <2>4
<1>5. ASSUME NEW c \in Chars, LiteralChar(c)
      PROVE  ReadInv'
  <2>1. scanner = "literal" /\ Joins(c) /\ (scanner' = "literal" \/ scanner' = "scanned") /\ c \in Int
    BY <1>5, InputType, Zenon DEF LiteralChar, Return
  <2>2. read \in Seq(Units) /\ Len(read) = 1 /\ read[1][1] \in DOMAIN Literals
    BY <2>1, Zenon DEF ReadInv
  <2>6. Len(read) >= 1
    BY <2>2
  <2>3. read' \in Seq(Units) /\ Len(read') = 1 /\ read'[1] = Append(read[1], c)
    BY <2>1, <2>2, <2>6, JoinsLast
  <2>4. read'[1][1] = read[1][1]
    <3>1. read[1] \in Seq(Int) /\ read[1] # <<>>
      <4>1. 1 \in 1 .. Len(read)
        BY <2>2
      <4>. QED
        BY <2>2, <4>1, ElementOfSeq DEF Units
    <3>2. 1 \in 1 .. Len(read[1])
      BY <3>1
    <3>. QED
      BY <2>1, <2>3, <3>1, <3>2, Appended
  <2>5. CASE scanner' = "literal"
    BY <1>1, <2>2, <2>3, <2>4, <2>5, Zenon DEF ReadInv
  <2>. QED
    BY <1>2, <2>1, <2>3, <2>5
<1>6. ASSUME NEW c \in Chars, NumberChar(c)
      PROVE  ReadInv'
  <2>1. scanner \in NumberLabels /\ Joins(c) /\ c \in Int
    BY <1>6, InputType, Zenon DEF NumberChar
  <2>2. scanner' \in NumberLabels
    <3>1. PICK g \in Gotos : scanner' = g[3]
      BY <1>6, Zenon DEF NumberChar
    <3>2. \A x \in Gotos : x[3] \in NumberLabels
      BY LabelsAre DEF Gotos, IntegerGotos, FractionGotos, ExponentGotos
    <3>. QED
      BY <3>1, <3>2, Zenon
  <2>3. read \in Seq(Units) /\ Len(read) = 1
    BY <2>1, Zenon DEF ReadInv
  <2>4. read' \in Seq(Units) /\ Len(read') = 1
    <3>1. Len(read) >= 1
      BY <2>3
    <3>. QED
      BY <2>1, <2>3, <3>1, JoinsLast
  <2>. QED
    BY <1>1, <2>2, <2>4, Zenon DEF ReadInv
<1>7. ASSUME NEW c \in Chars, NumberEnds(c)
      PROVE  ReadInv'
  <2>1. /\ scanner \in NumberLabels /\ scanner' = "scanned" /\ c \in Int
        /\ Joins(c) \/ read' = read
    BY <1>7, InputType, Zenon DEF NumberEnds, Return
  <2>2. read \in Seq(Units) /\ Len(read) = 1
    BY <2>1, Zenon DEF ReadInv
  <2>3. Len(read) >= 1
    BY <2>2
  <2>. QED
    BY <1>2, <2>1, <2>2, <2>3, JoinsLast
<1>8. CASE scanner \in StringLabels
  <2>1. StringKept
    BY <1>8, StringStep
  <2>. QED
    BY <1>1, <2>1, Zenon DEF ReadInv, StringKept
<1>9. ASSUME NEW c \in Chars,
             StringChar(c) \/ NextByte(c) \/ Escape(c) \/ PairEscape(c)
      PROVE  scanner \in StringLabels
  BY <1>9, Zenon DEF StringLabels, StringChar, NextByte, Escape, PairEscape
<1>10. ASSUME NEW quad \in Quads, UnicodeEscape(quad) \/ LowSurrogate(quad)
       PROVE  scanner \in StringLabels
  BY <1>10, Zenon DEF StringLabels, UnicodeEscape, LowSurrogate
<1>. QED
  BY <1>3, <1>4, <1>5, <1>6, <1>7, <1>8, <1>9, <1>10, Zenon DEF LexerNext

(* The buffer holds the number, and number_type what was read of it.       *)
FloatLabels == {"decimal1", "decimal2", "exponent", "sign", "any2"}
TypeAt(l, w) ==
    IF l \in FloatLabels THEN "value_float"
    ELSE IF w[1] = Minus THEN "value_integer" ELSE "value_unsigned"

NumberRead(l, w) ==
    /\ Begun(l, w, Len(w))
    /\ token_buffer = w
    /\ number_type = TypeAt(l, w)

NumberInv ==
    /\ scanner \in NumberLabels => NumberRead(scanner, read[1])
    /\ scanner = "scanned" => NumberAsWritten

LEMMA FirstUnit ==
    ASSUME read \in Seq(Units), Len(read) = 1
    PROVE  read[1] \in Seq(Int) /\ read[1] # <<>> /\ Len(read[1]) \in Nat \ {0}
<1>1. 1 \in 1 .. Len(read)
  OBVIOUS
<1>2. read[1] \in Units
  BY <1>1, ElementOfSeq
<1>. QED
  BY <1>2 DEF Units

(* Where no goto leads, no number goes on.                                 *)
LEMMA NoGotoNoNumber ==
    ASSUME NEW w \in Seq(Int), w # <<>>, NEW l, Begun(l, w, Len(w)), NEW c \in Int,
           \A g \in Gotos : g[1] = l => c \notin g[2]
    PROVE  ~StartsANumber(Append(w, c))
<1>1. Len(w) \in Nat \ {0}
  OBVIOUS
<1>2. ASSUME NEW v \in Seq(Int), Len(v) > Len(w), \A q \in 1 .. Len(w) : v[q] = w[q],
             v[Len(w) + 1] = c, IsNumber(v)
      PROVE  FALSE
  <2>1. Begun(l, v, Len(w))
    BY <1>1, <1>2, BegunAgrees
  <2>2. Len(w) < Len(v)
    BY <1>1, <1>2
  <2>3. PICK m : Goes(l, v[Len(w) + 1], m)
    BY <1>1, <1>2, <2>1, <2>2, NumberGoesOn
  <2>. QED
    <3>1. Goes(l, c, m)
      BY <1>2, <2>3, Zenon
    <3>2. \E g \in Gotos : g[1] = l /\ c \in g[2] /\ m = g[3]
      BY <3>1, GotosGo
    <3>. QED
      BY <3>2, Zenon
<1>. DEFINE v == Append(w, c)
            z == Append(v, 48)
<1>3. /\ v \in Seq(Int) /\ Len(v) = Len(w) + 1 /\ v[Len(w) + 1] = c
      /\ \A q \in 1 .. Len(w) : v[q] = w[q]
  BY AppendProperties
<1>4. ~IsNumber(v)
  <2>1. Len(v) > Len(w)
    BY <1>1, <1>3
  <2>. HIDE DEF v
  <2>. QED
    BY <1>2, <1>3, <2>1
<1>5. ~IsNumber(z)
  <2>. HIDE DEF v
  <2>1. 48 \in Int
    OBVIOUS
  <2>2. /\ z \in Seq(Int) /\ Len(z) = Len(v) + 1
        /\ \A q \in 1 .. Len(v) : z[q] = v[q]
    BY <1>3, <2>1, AppendProperties
  <2>3. Len(w) + 1 \in 1 .. Len(v) /\ (\A q \in 1 .. Len(w) : q \in 1 .. Len(v)) /\ Len(z) > Len(w)
    BY <1>1, <1>3, <2>2
  <2>. HIDE DEF z
  <2>4. z[Len(w) + 1] = c /\ \A q \in 1 .. Len(w) : z[q] = w[q]
    BY <1>3, <2>2, <2>3, Zenon
  <2>. QED
    BY <1>2, <2>2, <2>3, <2>4
<1>. QED
  BY <1>4, <1>5, Zenon DEF StartsANumber

(* What the buffer is converted to is the number, or a float.              *)
LEMMA NumberValue ==
    ASSUME NEW w \in Seq(Int), w # <<>>, NEW l \in ToDone, NumberRead(l, w)
    PROVE  LET inRange == IF w[1] = Minus THEN -LLMax - 1 .. 0 ELSE 0 .. ULLMax
           IN  /\ Number # Error
               /\ IF IsInteger(w) /\ IntegerOf(w) \in inRange
                    THEN Number.type # "value_float" /\ Number.value = IntegerOf(w)
                    ELSE Number.type = "value_float"
<1>. DEFINE n == IF w[1] = Minus THEN -DecimalValue(w) ELSE DecimalValue(w)
            inRange == IF w[1] = Minus THEN -LLMax - 1 .. 0 ELSE 0 .. ULLMax
            Float == [type |-> "value_float"]
<1>1. token_buffer = w /\ number_type = TypeAt(l, w) /\ Begun(l, w, Len(w))
  BY DEF NumberRead
<1>2. IsInteger(w) <=> l \notin FloatLabels
  BY <1>1, ReadIsInteger DEF FloatLabels, ToDone
<1>3. /\ number_type = "value_float" <=> l \in FloatLabels
      /\ number_type = "value_integer" <=> l \notin FloatLabels /\ w[1] = Minus
      /\ number_type = "value_unsigned" <=> l \notin FloatLabels /\ w[1] # Minus
  BY <1>1 DEF TypeAt
<1>4. /\ number_type = "value_float" => Number = Float
      /\ number_type = "value_integer" =>
           Number = IF n \in -LLMax - 1 .. LLMax THEN [type |-> "value_integer", value |-> n] ELSE Float
      /\ number_type = "value_unsigned" =>
           Number = IF n <= ULLMax THEN [type |-> "value_unsigned", value |-> n] ELSE Float
  <2>1. CASE number_type = "value_float"
    BY <2>1 DEF Number
  <2>2. CASE number_type = "value_integer"
    BY <1>1, <2>2 DEF Number
  <2>3. CASE number_type = "value_unsigned"
    BY <1>1, <2>3 DEF Number
  <2>. QED
    BY <2>1, <2>2, <2>3
<1>5. Float.type = "value_float" /\ Float # Error
  BY DEF Error
<1>6. ASSUME NEW t \in {"value_integer", "value_unsigned"}, NEW m
      PROVE  /\ [type |-> t, value |-> m].type = t /\ [type |-> t, value |-> m].value = m
             /\ [type |-> t, value |-> m] # Error /\ t # "value_float"
  <2>1. [type |-> t, value |-> m].type = t /\ [type |-> t, value |-> m].value = m
    OBVIOUS
  <2>2. Error.type = "parse_error" /\ t # "parse_error" /\ t # "value_float"
    BY DEF Error
  <2>. QED
    BY <2>1, <2>2
<1>7. IsInteger(w) => n = IntegerOf(w) /\ DecimalValue(w) \in Nat
  <2>1. IsInteger(w) => Integral(w)
    BY <1>1, ReadIsInteger
  <2>. QED
    BY <2>1, SameValue, Zenon
<1>8. CASE l \in FloatLabels
  BY <1>2, <1>3, <1>4, <1>5, <1>8, Zenon
<1>9. CASE l \notin FloatLabels /\ w[1] = Minus
  <2>1. n \in -LLMax - 1 .. LLMax <=> n \in inRange
    BY <1>2, <1>7, <1>9, LexerAssumption
  <2>. HIDE DEF n, inRange
  <2>2. CASE n \in inRange
    <3>1. Number = [type |-> "value_integer", value |-> n]
      BY <1>3, <1>4, <1>9, <2>1, <2>2, Zenon
    <3>. QED
      BY <1>2, <1>6, <1>7, <1>9, <2>2, <3>1, Zenon DEF inRange
  <2>3. CASE n \notin inRange
    <3>1. Number = Float
      BY <1>3, <1>4, <1>9, <2>1, <2>3, Zenon
    <3>. QED
      BY <1>2, <1>5, <1>7, <1>9, <2>3, <3>1, Zenon DEF inRange
  <2>. QED
    BY <2>2, <2>3
<1>10. CASE l \notin FloatLabels /\ w[1] # Minus
  <2>1. n <= ULLMax <=> n \in inRange
    BY <1>2, <1>7, <1>10, LexerAssumption
  <2>. HIDE DEF n, inRange
  <2>2. CASE n \in inRange
    <3>1. Number = [type |-> "value_unsigned", value |-> n]
      BY <1>3, <1>4, <1>10, <2>1, <2>2, Zenon
    <3>. QED
      BY <1>2, <1>6, <1>7, <1>10, <2>2, <3>1, Zenon DEF inRange
  <2>3. CASE n \notin inRange
    <3>1. Number = Float
      BY <1>3, <1>4, <1>10, <2>1, <2>3, Zenon
    <3>. QED
      BY <1>2, <1>5, <1>7, <1>10, <2>3, <3>1, Zenon DEF inRange
  <2>. QED
    BY <2>2, <2>3
<1>. QED
  BY <1>8, <1>9, <1>10, Zenon

LEMMA NumberInvInit == LexerInit => NumberInv
<1>1. {"bom", "scan"} \cap NumberLabels = {} /\ {"bom", "scan"} \cap {"scanned"} = {}
  BY LabelsAre
<1>. QED
  BY <1>1, Zenon DEF LexerInit, NumberInv

LEMMA NumberInvStep ==
    ASSUME ReadInv, NumberInv, LexerNext
    PROVE  NumberInv'
<1>1. /\ {"bom", "bom 2", "bom 3", "scan", "literal", "scanned"} \cap NumberLabels = {}
      /\ "scanned" \notin StartLabels \cup NumberLabels \cup StringLabels \cup {"literal"}
      /\ StringLabels \cap NumberLabels = {}
  BY LabelsAre DEF StartLabels, StringLabels
<1>2. ReadInv'
  BY ReadInvStep
<1>3. ASSUME read' = <<>> \/ read'[1][1] \notin Digits \cup {Minus}, scanner' \notin NumberLabels
      PROVE  NumberInv'
  BY <1>3, Zenon DEF NumberInv, NumberAsWritten, ReadsANumber
<1>4. ASSUME NEW c \in Chars, SkipBom(c)
      PROVE  NumberInv'
  <2>1. scanner \in StartLabels /\ scanner' \in {"bom 2", "bom 3", "scan", "scanned"}
        /\ read' = read
    BY <1>4, Zenon DEF SkipBom, Return, StartLabels
  <2>2. read = <<>>
    BY <2>1, Zenon DEF ReadInv
  <2>. QED
    BY <1>1, <1>3, <2>1, <2>2, Zenon
<1>5. ASSUME NEW c \in Chars, Dispatch(c)
      PROVE  NumberInv'
  <2>1. scanner \in StartLabels /\ c \in Int
    BY <1>5, InputType, Zenon DEF Dispatch, StartLabels
  <2>2. read = <<>> /\ read \in Seq(Units) /\ Len(read) = 0
    <3>1. read = <<>>
      BY <2>1, Zenon DEF ReadInv
    <3>. QED
      BY <3>1
  <2>3. \/ read' = read /\ scanner' \in {"scan", "scanned"}
        \/ scanner' = "string"
        \/ scanner' = "literal"
        \/ /\ Starts(c) /\ token_buffer' = <<c>> /\ (c = Minus \/ c \in Digits)
           /\ scanner' = IF c = Minus THEN "minus" ELSE IF c \in Zero THEN "zero" ELSE "any1"
           /\ number_type' = IF c = Minus THEN "value_integer" ELSE "value_unsigned"
    BY <1>5, ZenonT(30) DEF Dispatch, Return
  <2>4. CASE read' = read /\ scanner' \in {"scan", "scanned"}
    BY <1>1, <1>3, <2>2, <2>4, Zenon
  <2>5. CASE scanner' = "string" \/ scanner' = "literal"
    <3>1. scanner' \notin NumberLabels /\ scanner' # "scanned"
      BY <2>5, LabelsAre
    <3>. QED
      BY <3>1, Zenon DEF NumberInv
  <2>6. CASE /\ Starts(c) /\ token_buffer' = <<c>> /\ (c = Minus \/ c \in Digits)
             /\ scanner' = IF c = Minus THEN "minus" ELSE IF c \in Zero THEN "zero" ELSE "any1"
             /\ number_type' = IF c = Minus THEN "value_integer" ELSE "value_unsigned"
    <3>. DEFINE w == <<c>>
                m == IF c = Minus THEN "minus" ELSE IF c \in Zero THEN "zero" ELSE "any1"
    <3>1. read'[1] = w
      <4>1. Len(read) + 1 = 1
        BY <2>2
      <4>. QED
        BY <2>1, <2>2, <2>6, <4>1, StartsOne
    <3>2. Len(w) = 1 /\ w[1] = c /\ w \in Seq(Int)
      BY <2>1
    <3>. HIDE DEF w
    <3>3. Begun(m, w, 1)
      <4>1. CASE c = Minus
        BY <3>2, <4>1, Zenon DEF Begun
      <4>2. CASE c \in Digits /\ c # Minus
        <5>1. 0 \in {0, 1} /\ 1 \in Nat /\ 0 + 1 <= 1 /\ 0 # 1 /\ 0 + 1 = 1
              /\ \A q \in 1 .. 1 : q = 1
          OBVIOUS
        <5>2. WholePart(w, 0, 1)
          BY <3>2, <4>2, <5>1, Zenon DEF WholePart, IntegerAt, DigitsAt
        <5>. QED
          BY <3>2, <4>2, <5>1, <5>2, Zenon DEF Begun
      <4>. QED
        BY <2>6, <4>1, <4>2
    <3>4. number_type' = TypeAt(m, w)
      <4>1. m \notin FloatLabels
        BY DEF FloatLabels
      <4>. QED
        BY <2>6, <3>2, <4>1, Zenon DEF TypeAt
    <3>5. scanner' = m /\ scanner' # "scanned" /\ token_buffer' = w
      <4>1. scanner' = m /\ m # "scanned"
        BY <2>6
      <4>. QED
        BY <2>6, <4>1 DEF w
    <3>. HIDE DEF m
    <3>6. NumberRead(m, w)'
      BY <3>2, <3>3, <3>4, <3>5, Zenon DEF NumberRead
    <3>. QED
      BY <3>1, <3>5, <3>6, Zenon DEF NumberInv
  <2>. QED
    BY <2>3, <2>4, <2>5, <2>6
<1>6. ASSUME NEW c \in Chars, LiteralChar(c)
      PROVE  NumberInv'
  <2>1. scanner = "literal" /\ Joins(c) /\ scanner' \in {"literal", "scanned"} /\ c \in Int
    BY <1>6, InputType, Zenon DEF LiteralChar, Return
  <2>2. read \in Seq(Units) /\ Len(read) = 1 /\ read[1][1] \in DOMAIN Literals
    BY <2>1, Zenon DEF ReadInv
  <2>3. Len(read) >= 1
    BY <2>2
  <2>4. read'[1] = Append(read[1], c)
    BY <2>1, <2>2, <2>3, JoinsLast
  <2>5. read'[1][1] = read[1][1]
    <3>1. read[1] \in Seq(Int) /\ 1 \in 1 .. Len(read[1])
      BY <2>2, FirstUnit
    <3>. QED
      BY <2>1, <2>4, <3>1, AppendProperties
  <2>6. DOMAIN Literals \cap (Digits \cup {Minus}) = {}
    BY DEF Literals, Digits, Minus
  <2>. QED
    BY <1>1, <1>3, <2>1, <2>2, <2>5, <2>6, Zenon
<1>7. ASSUME NEW c \in Chars, NumberChar(c)
      PROVE  NumberInv'
  <2>. DEFINE w == read[1]
              v == Append(w, c)
  <2>1. /\ scanner \in NumberLabels /\ Joins(c) /\ c \in Int
        /\ token_buffer' = Append(token_buffer, c)
    BY <1>7, InputType, Zenon DEF NumberChar
  <2>2. PICK g \in Gotos :
          /\ g[1] = scanner /\ c \in g[2]
          /\ scanner' = g[3]
          /\ number_type' = IF g[3] \in {"decimal1", "exponent"} THEN "value_float" ELSE number_type
    BY <1>7, Zenon DEF NumberChar
  <2>3. Goes(scanner, c, scanner')
    BY <2>2, GotosGo
  <2>4. read \in Seq(Units) /\ Len(read) = 1 /\ NumberRead(scanner, w)
    BY <2>1, Zenon DEF ReadInv, NumberInv
  <2>5. w \in Seq(Int) /\ w # <<>> /\ Len(w) \in Nat \ {0}
    BY <2>4, FirstUnit
  <2>6. read'[1] = v
    <3>1. Len(read) >= 1
      BY <2>4
    <3>. QED
      BY <2>1, <2>4, <3>1, JoinsLast
  <2>. HIDE DEF w
  <2>7. /\ v \in Seq(Int) /\ Len(v) = Len(w) + 1 /\ v[Len(w) + 1] = c
        /\ \A q \in 1 .. Len(w) : v[q] = w[q]
    BY <2>1, <2>5, AppendProperties
  <2>8. v[1] = w[1]
    <3>1. 1 \in 1 .. Len(w)
      BY <2>5
    <3>. QED
      BY <2>7, <3>1, Zenon
  <2>. HIDE DEF v
  <2>9. Begun(scanner', v, Len(v))
    <3>1. Begun(scanner, v, Len(w))
      <4>1. Begun(scanner, w, Len(w))
        BY <2>4, Zenon DEF NumberRead
      <4>. QED
        BY <2>5, <2>7, <4>1, BegunAgrees
    <3>2. Len(w) < Len(v)
      BY <2>5, <2>7
    <3>3. Goes(scanner, v[Len(w) + 1], scanner')
      BY <2>3, <2>7, Zenon
    <3>4. Begun(scanner', v, Len(w) + 1)
      <4>. DEFINE m == scanner'
      <4>1. Goes(scanner, v[Len(w) + 1], m)
        BY <3>3
      <4>. HIDE DEF m
      <4>2. Begun(m, v, Len(w) + 1)
        BY <2>5, <2>7, <3>1, <3>2, <4>1, GotoReads
      <4>. QED
        BY <4>2, Zenon DEF m
    <3>. QED
      BY <2>7, <3>4, Zenon
  <2>10. number_type' = TypeAt(scanner', v)
    <3>1. number_type = TypeAt(scanner, w)
      BY <2>4, Zenon DEF NumberRead
    <3>2. number_type' = IF scanner' \in {"decimal1", "exponent"} THEN "value_float" ELSE number_type
      BY <2>2, Zenon
    <3>3. \/ scanner' \in {"decimal1", "exponent"} /\ scanner' \in FloatLabels
          \/ /\ scanner' \notin {"decimal1", "exponent"}
             /\ scanner' \in FloatLabels <=> scanner \in FloatLabels
      BY <2>3 DEF Goes, FloatLabels
    <3>. QED
      BY <2>8, <3>1, <3>2, <3>3, Zenon DEF TypeAt
  <2>11. token_buffer' = v
    BY <2>1, <2>4, Zenon DEF NumberRead, v
  <2>12. NumberRead(scanner, read[1])'
    BY <2>6, <2>9, <2>10, <2>11, Zenon DEF NumberRead
  <2>13. scanner' # "scanned"
    BY <2>3 DEF Goes
  <2>. QED
    BY <2>12, <2>13, Zenon DEF NumberInv
<1>8. ASSUME NEW c \in Chars, NumberEnds(c)
      PROVE  NumberInv'
  <2>. DEFINE w == read[1]
  <2>1. /\ scanner \in NumberLabels /\ scanner' = "scanned" /\ c \in Int
        /\ \A g \in Gotos : g[1] = scanner => c \notin g[2]
    BY <1>8, InputType, Zenon DEF NumberEnds, Return
  <2>2. read \in Seq(Units) /\ Len(read) = 1 /\ NumberRead(scanner, w)
    BY <2>1, Zenon DEF ReadInv, NumberInv
  <2>3. w \in Seq(Int) /\ w # <<>>
    BY <2>2, FirstUnit
  <2>4. ~StartsANumber(Append(w, c))
    <3>1. Begun(scanner, w, Len(w))
      BY <2>2, Zenon DEF NumberRead
    <3>. HIDE DEF w
    <3>. QED
      BY <2>1, <2>3, <3>1, NoGotoNoNumber
  <2>5. CASE scanner \in ToDone /\ ungot' = {c} /\ token' = Number /\ read' = read
    <3>1. IsNumber(w)
      <4>1. Begun(scanner, w, Len(w))
        BY <2>2, Zenon DEF NumberRead
      <4>. HIDE DEF w
      <4>. QED
        BY <2>3, <2>5, <4>1, NumberMayEnd
    <3>. DEFINE inRange == IF w[1] = Minus THEN -LLMax - 1 .. 0 ELSE 0 .. ULLMax
    <3>2. /\ Number # Error
          /\ IF IsInteger(w) /\ IntegerOf(w) \in inRange
                    THEN Number.type # "value_float" /\ Number.value = IntegerOf(w)
                    ELSE Number.type = "value_float"
      <4>. HIDE DEF w
      <4>. QED
        BY <2>2, <2>3, <2>5, NumberValue
    <3>3. ungot' # {} /\ \A d \in ungot' : ~StartsANumber(Append(w, d))
      BY <2>4, <2>5, Zenon
    <3>4. NumberAsWritten'
      BY <2>5, <3>1, <3>2, <3>3, Zenon DEF NumberAsWritten
    <3>. QED
      BY <1>1, <2>1, <3>4, Zenon DEF NumberInv
  <2>6. CASE Joins(c) /\ token' = Error
    <3>1. Len(read) >= 1
      BY <2>2
    <3>2. read'[1] = Append(w, c)
      BY <2>1, <2>2, <2>6, <3>1, JoinsLast
    <3>3. NumberAsWritten'
      BY <2>4, <2>6, <3>2, Zenon DEF NumberAsWritten
    <3>. QED
      BY <1>1, <2>1, <3>3, Zenon DEF NumberInv
  <2>. QED
    BY <1>8, <2>5, <2>6, Zenon DEF NumberEnds, Return
<1>9. CASE scanner \in StringLabels
  <2>1. scanner' \in StringLabels \cup {"scanned"} /\ read'[1] = <<Quote>>
    BY <1>9, StringStep, Zenon DEF StringKept
  <2>2. <<Quote>>[1] \notin Digits \cup {Minus}
    BY DEF Quote, Digits, Minus
  <2>. QED
    BY <1>1, <1>3, <2>1, <2>2, Zenon
<1>10. ASSUME NEW c \in Chars,
             StringChar(c) \/ NextByte(c) \/ Escape(c) \/ PairEscape(c)
      PROVE  scanner \in StringLabels
  BY <1>10, Zenon DEF StringLabels, StringChar, NextByte, Escape, PairEscape
<1>11. ASSUME NEW quad \in Quads, UnicodeEscape(quad) \/ LowSurrogate(quad)
       PROVE  scanner \in StringLabels
  BY <1>11, Zenon DEF StringLabels, UnicodeEscape, LowSurrogate
<1>. QED
  BY <1>4, <1>5, <1>6, <1>7, <1>8, <1>9, <1>10, <1>11, Zenon DEF LexerNext

(* Every run: a number token is all that belongs to the number and nothing *)
(* more, the character after it is put back, an integer has its value or   *)
(* is a float, and an error is no number's beginning (scan_number).        *)
THEOREM NumbersAsWritten == LexerSpec => []NumberAsWritten
<1>. DEFINE Inv == ReadInv /\ NumberInv
<1>1. LexerInit => Inv
  BY ReadInvInit, NumberInvInit
<1>2. Inv /\ [LexerNext]_lexerVars => Inv'
  <2>1. ASSUME Inv, LexerNext
        PROVE  Inv'
    BY <2>1, ReadInvStep, NumberInvStep
  <2>2. ASSUME Inv, UNCHANGED lexerVars
        PROVE  Inv'
    BY <2>2, Zenon DEF lexerVars, ReadInv, NumberInv, NumberRead, NumberAsWritten, ReadsANumber
  <2>. QED
    BY <2>1, <2>2
<1>3. Inv => NumberAsWritten
  BY Zenon DEF NumberInv, NumberAsWritten, ReadsANumber
<1>. QED
  BY <1>1, <1>2, <1>3, PTL DEF LexerSpec

(* Ranges as numbers: how many bytes follow the first, and within what.    *)
Extra(c) == IF c <= 223 THEN 1 ELSE IF c <= 239 THEN 2 ELSE 3
Least(c) == IF c = 224 THEN 160 ELSE IF c = 240 THEN 144 ELSE 128
Most(c)  == IF c = 237 THEN 159 ELSE IF c = 244 THEN 143 ELSE 191

Follows(r) == r[1] = 128 /\ r[2] = 191

LEMMA RangesAre ==
    ASSUME NEW c \in 194 .. 244
    PROVE  /\ Ranges(c) \in Seq(Seq(Int)) /\ Len(Ranges(c)) = Extra(c)
           /\ Ranges(c)[1][1] = Least(c) /\ Ranges(c)[1][2] = Most(c)
           /\ \A i \in 2 .. Extra(c) : Follows(Ranges(c)[i])
<1>1. CASE c \in 194 .. 223
  <2>1. Ranges(c) = <<Continuation>> /\ Extra(c) = 1 /\ Least(c) = 128 /\ Most(c) = 191
    BY <1>1 DEF Ranges, Extra, Least, Most
  <2>. QED
    BY <2>1 DEF Continuation, Follows
<1>2. CASE c = 224
  <2>1. Ranges(c) = <<<<160, 191>>, Continuation>> /\ Extra(c) = 2 /\ Least(c) = 160
        /\ Most(c) = 191
    BY <1>2 DEF Ranges, Extra, Least, Most
  <2>. QED
    BY <2>1 DEF Continuation, Follows
<1>3. CASE c \in 225 .. 239 \ {237}
  <2>1. Ranges(c) = <<Continuation, Continuation>> /\ Extra(c) = 2 /\ Least(c) = 128
        /\ Most(c) = 191
    BY <1>3 DEF Ranges, Extra, Least, Most
  <2>. QED
    BY <2>1 DEF Continuation, Follows
<1>4. CASE c = 237
  <2>1. Ranges(c) = <<<<128, 159>>, Continuation>> /\ Extra(c) = 2 /\ Least(c) = 128
        /\ Most(c) = 159
    BY <1>4 DEF Ranges, Extra, Least, Most
  <2>. QED
    BY <2>1 DEF Continuation, Follows
<1>5. CASE c = 240
  <2>1. Ranges(c) = <<<<144, 191>>, Continuation, Continuation>> /\ Extra(c) = 3
        /\ Least(c) = 144 /\ Most(c) = 191
    BY <1>5 DEF Ranges, Extra, Least, Most
  <2>. QED
    BY <2>1 DEF Continuation, Follows
<1>6. CASE c \in 241 .. 243
  <2>1. Ranges(c) = <<Continuation, Continuation, Continuation>> /\ Extra(c) = 3
        /\ Least(c) = 128 /\ Most(c) = 191
    BY <1>6 DEF Ranges, Extra, Least, Most
  <2>. QED
    BY <2>1 DEF Continuation, Follows
<1>7. CASE c = 244
  <2>1. Ranges(c) = <<<<128, 143>>, Continuation, Continuation>> /\ Extra(c) = 3
        /\ Least(c) = 128 /\ Most(c) = 143
    BY <1>7 DEF Ranges, Extra, Least, Most
  <2>. QED
    BY <2>1 DEF Continuation, Follows
<1>. QED
  BY <1>1, <1>2, <1>3, <1>4, <1>5, <1>6, <1>7

(* The bytes of a code point beyond ASCII.                                 *)
Encoding(u) ==
    /\ u[1] \in 194 .. 244 /\ Len(u) = 1 + Extra(u[1])
    /\ u[2] \in Least(u[1]) .. Most(u[1])
    /\ \A i \in 3 .. Len(u) : u[i] \in 128 .. 191

LEMMA SurrogatesAre ==
    ASSUME NEW n \in Int
    PROVE  /\ n \in High <=> 55296 <= n /\ n <= 56319
           /\ n \in Low <=> 56320 <= n /\ n <= 57343
<1>1. n \in High <=> 55296 <= n /\ n <= 56319
  BY SMT DEF High
<1>2. n \in Low <=> 56320 <= n /\ n <= 57343
  BY SMT DEF Low
<1>. QED
  BY <1>1, <1>2, SMT

LEMMA ScalarIs ==
    ASSUME NEW n \in Int
    PROVE  Scalar(n) <=> 0 <= n /\ n <= 1114111 /\ (n < 55296 \/ 57343 < n)
BY SurrogatesAre, SMT DEF Scalar

(* The four lengths of an encoding.                                        *)
LEMMA Utf8Is ==
    ASSUME NEW n \in Int
    PROVE  /\ n < 128 => Utf8(n) = <<n>>
           /\ 128 <= n /\ n <= 2047 => Utf8(n) = <<192 + (n \div 64), 128 + (n % 64)>>
           /\ 2048 <= n /\ n <= 65535 =>
                Utf8(n) = <<224 + (n \div 4096), 128 + ((n \div 64) % 64), 128 + (n % 64)>>
           /\ 65536 <= n =>
                Utf8(n) = <<240 + (n \div 262144), 128 + ((n \div 4096) % 64),
                            128 + ((n \div 64) % 64), 128 + (n % 64)>>
<1>1. CASE n < 128
  BY <1>1, SMT DEF Utf8
<1>2. CASE 128 <= n /\ n <= 2047
  BY <1>2, SMT DEF Utf8
<1>3. CASE 2048 <= n /\ n <= 65535
  BY <1>3, SMT DEF Utf8
<1>4. CASE 65536 <= n
  BY <1>4, SMT DEF Utf8
<1>. QED
  BY <1>1, <1>2, <1>3, <1>4, SMT

LEMMA ExtraIs ==
    ASSUME NEW c \in 194 .. 244
    PROVE  /\ c \in 194 .. 223 => Extra(c) = 1 /\ Least(c) = 128 /\ Most(c) = 191
           /\ c \in 224 .. 239 => Extra(c) = 2
           /\ c \in 240 .. 244 => Extra(c) = 3
           /\ Least(c) \in 128 .. 160 /\ Most(c) \in 143 .. 191
BY DEF Extra, Least, Most

LEMMA Utf8IsEncoding ==
    ASSUME NEW n \in Int, Scalar(n), n >= 128
    PROVE  Utf8(n) \in Seq(Int) /\ Encoding(Utf8(n))
<1>1. n <= 1114111 /\ (n < 55296 \/ 57343 < n)
  BY ScalarIs, SMT
<1>2. CASE 128 <= n /\ n <= 2047
  <2>. DEFINE a == 192 + (n \div 64)
              b == 128 + (n % 64)
  <2>1. Utf8(n) = <<a, b>>
    BY <1>2, Utf8Is, SMT
  <2>2. a \in 194 .. 223 /\ b \in 128 .. 191
    BY <1>2, SMT
  <2>. HIDE DEF a, b
  <2>. QED
    BY <2>1, <2>2, SMT DEF Encoding, Extra, Least, Most
<1>3. CASE 2048 <= n /\ n <= 65535
  <2>. DEFINE a == 224 + (n \div 4096)
              b == 128 + ((n \div 64) % 64)
              c == 128 + (n % 64)
  <2>1. Utf8(n) = <<a, b, c>>
    BY <1>3, Utf8Is, SMT
  <2>2. a \in 224 .. 239 /\ b \in 128 .. 191 /\ c \in 128 .. 191
    BY <1>3, SMT
  <2>3. n \div 4096 = (n \div 64) \div 64
    BY <1>3, SMT
  <2>4. a = 224 => b >= 160
    BY <1>3, <2>2, <2>3, SMT
  <2>5. a = 237 => b <= 159
    <3>1. a = 237 => n < 55296
      BY <1>1, <1>3, SMT
    <3>. QED
      BY <1>3, <2>2, <2>3, <3>1, SMT
  <2>. HIDE DEF a, b, c
  <2>6. Extra(a) = 2 /\ b \in Least(a) .. Most(a)
    BY <2>2, <2>4, <2>5, SMT DEF Extra, Least, Most
  <2>. QED
    BY <2>1, <2>2, <2>6, SMT DEF Encoding
<1>4. CASE 65536 <= n
  <2>. DEFINE a == 240 + (n \div 262144)
              b == 128 + ((n \div 4096) % 64)
              c == 128 + ((n \div 64) % 64)
              d == 128 + (n % 64)
  <2>1. Utf8(n) = <<a, b, c, d>>
    BY <1>4, Utf8Is, SMT
  <2>2. a \in 240 .. 244 /\ b \in 128 .. 191 /\ c \in 128 .. 191 /\ d \in 128 .. 191
    BY <1>1, <1>4, SMT
  <2>3. n \div 262144 = (n \div 4096) \div 64
    BY <1>4, SMT
  <2>4. a = 240 => b >= 144
    BY <1>4, <2>2, <2>3, SMT
  <2>5. a = 244 => b <= 143
    BY <1>1, <1>4, <2>2, <2>3, SMT
  <2>. HIDE DEF a, b, c, d
  <2>6. Extra(a) = 3 /\ b \in Least(a) .. Most(a)
    BY <2>2, <2>4, <2>5, SMT DEF Extra, Least, Most
  <2>. QED
    BY <2>1, <2>2, <2>6, SMT DEF Encoding
<1>. QED
  BY <1>1, <1>2, <1>3, <1>4, SMT

(* And back: the bytes are the shortest form of one code point.            *)
Encodes(u, n) == n \in Int /\ n >= 128 /\ Scalar(n) /\ Utf8(n) = u
TwoBytes(a, b) == 64 * (a - 192) + (b - 128)
ThreeBytes(a, b, c) == 4096 * (a - 224) + 64 * (b - 128) + (c - 128)
FourBytes(a, b, c, d) == 262144 * (a - 240) + 4096 * (b - 128) + 64 * (c - 128) + (d - 128)

LEMMA EncodedInTwo ==
    ASSUME NEW a \in 194 .. 223, NEW b \in 128 .. 191
    PROVE  /\ TwoBytes(a, b) \in Int
           /\ Encodes(<<a, b>>, TwoBytes(a, b))
<1>. DEFINE n == TwoBytes(a, b)
<1>0. n \in Int /\ n = 64 * (a - 192) + (b - 128)
  BY SMT DEF TwoBytes
<1>. HIDE DEF n
<1>1. 128 <= n /\ n <= 2047
  BY <1>0
<1>2. 192 + (n \div 64) = a /\ 128 + (n % 64) = b
  BY <1>0
<1>3. Utf8(n) = <<192 + (n \div 64), 128 + (n % 64)>>
  BY <1>1, <1>0, Utf8Is, SMT
<1>4. Scalar(n) /\ n \in Int /\ n >= 128
  BY <1>1, <1>0, ScalarIs, SMT
<1>. QED
  BY <1>2, <1>3, <1>4, SMT DEF Encodes, n

LEMMA EncodedInThree ==
    ASSUME NEW a \in 224 .. 239, NEW b \in Int, b \in Least(a) .. Most(a), NEW c \in 128 .. 191
    PROVE  /\ ThreeBytes(a, b, c) \in Int
           /\ Encodes(<<a, b, c>>, ThreeBytes(a, b, c))
<1>. DEFINE n == ThreeBytes(a, b, c)
<1>0. n \in Int /\ n = 4096 * (a - 224) + 64 * (b - 128) + (c - 128)
  BY SMT DEF ThreeBytes
<1>. HIDE DEF n
<1>1. b \in 128 .. 191 /\ (a = 224 => b >= 160) /\ (a = 237 => b <= 159)
  BY DEF Least, Most
<1>2. 2048 <= n /\ n <= 65535
  BY <1>0, <1>1
<1>3. n < 55296 \/ 57343 < n
  BY <1>0, <1>1
<1>4. 128 + (n % 64) = c /\ n \div 64 = 64 * (a - 224) + (b - 128)
  BY <1>0, <1>1
<1>5. 128 + ((n \div 64) % 64) = b /\ (n \div 64) \div 64 = a - 224
  BY <1>1, <1>4
<1>6. n \div 4096 = (n \div 64) \div 64
  BY <1>0, <1>2
<1>7. 224 + (n \div 4096) = a
  BY <1>5, <1>6
<1>8. Utf8(n) = <<224 + (n \div 4096), 128 + ((n \div 64) % 64), 128 + (n % 64)>>
  BY <1>2, <1>0, Utf8Is, SMT
<1>9. Scalar(n) /\ n \in Int /\ n >= 128
  BY <1>2, <1>3, <1>0, ScalarIs, SMT
<1>10. Utf8(n) = <<a, b, c>>
  BY <1>4, <1>5, <1>7, <1>8, SMT
<1>. QED
  BY <1>9, <1>10, SMT DEF Encodes, n

LEMMA EncodedInFour ==
    ASSUME NEW a \in 240 .. 244, NEW b \in Int, b \in Least(a) .. Most(a), NEW c \in 128 .. 191,
           NEW d \in 128 .. 191
    PROVE  /\ FourBytes(a, b, c, d) \in Int
           /\ Encodes(<<a, b, c, d>>, FourBytes(a, b, c, d))
<1>. DEFINE n == FourBytes(a, b, c, d)
<1>0. n \in Int /\ n = 262144 * (a - 240) + 4096 * (b - 128) + 64 * (c - 128) + (d - 128)
  BY SMT DEF FourBytes
<1>. HIDE DEF n
<1>1. b \in 128 .. 191 /\ (a = 240 => b >= 144) /\ (a = 244 => b <= 143)
  BY SMT DEF Least, Most
<1>2. 65536 <= n /\ n <= 1114111
  BY <1>0, <1>1, SMT
<1>4. 128 + (n % 64) = d /\ n \div 64 = 4096 * (a - 240) + 64 * (b - 128) + (c - 128)
  BY <1>0, <1>1, SMT
<1>5. 128 + ((n \div 64) % 64) = c /\ (n \div 64) \div 64 = 64 * (a - 240) + (b - 128)
  BY <1>1, <1>4, SMT
<1>6. n \div 4096 = (n \div 64) \div 64 /\ n \div 262144 = (n \div 4096) \div 64
  BY <1>0, <1>2, SMT
<1>7. 128 + ((n \div 4096) % 64) = b /\ (n \div 4096) \div 64 = a - 240
  BY <1>1, <1>5, <1>6, SMT
<1>8. 240 + (n \div 262144) = a
  BY <1>6, <1>7, SMT
<1>9. Utf8(n) = <<240 + (n \div 262144), 128 + ((n \div 4096) % 64),
                    128 + ((n \div 64) % 64), 128 + (n % 64)>>
  BY <1>2, <1>0, Utf8Is, SMT
<1>10. Scalar(n) /\ n \in Int /\ n >= 128
  BY <1>2, <1>0, ScalarIs, SMT
<1>11. Utf8(n) = <<a, b, c, d>>
  BY <1>4, <1>5, <1>7, <1>8, <1>9, SMT
<1>. QED
  BY <1>10, <1>11, SMT DEF Encodes, n

LEMMA EncodingIsUtf8 ==
    ASSUME NEW u \in Seq(Int), Encoding(u)
    PROVE  Encodes(u, Decoded(u))
<1>1. u[1] \in Int /\ u[1] \in 194 .. 244 /\ Len(u) = 1 + Extra(u[1])
  BY DEF Encoding
<1>2. u[2] \in Least(u[1]) .. Most(u[1]) /\ \A i \in 3 .. Len(u) : u[i] \in 128 .. 191
  BY Zenon DEF Encoding
<1>3. u[1] \in 194 .. 223 \/ u[1] \in 224 .. 239 \/ u[1] \in 240 .. 244
  BY <1>1
<1>4. CASE u[1] \in 194 .. 223
  <2>1. Extra(u[1]) = 1 /\ Least(u[1]) = 128 /\ Most(u[1]) = 191
    BY <1>1, <1>4, ExtraIs, ZenonT(60)
  <2>2. Len(u) = 2
    BY <1>1, <2>1
  <2>3. u[2] \in 128 .. 191
    BY <1>2, <2>1, Zenon
  <2>4. Decoded(u) = TwoBytes(u[1], u[2])
    BY <2>2, SMT DEF Decoded, TwoBytes
  <2>5. u = <<u[1], u[2]>>
    BY <2>2, SMT
  <2>6. Encodes(<<u[1], u[2]>>, Decoded(u))
    BY <1>4, <2>3, <2>4, EncodedInTwo, Zenon
  <2>. QED
    BY <2>5, <2>6, Zenon
<1>5. CASE u[1] \in 224 .. 239
  <2>1. Extra(u[1]) = 2
    BY <1>1, <1>5, ExtraIs, Zenon
  <2>2. Len(u) = 3
    BY <1>1, <2>1
  <2>3. 2 \in 1 .. Len(u) /\ 3 \in 3 .. Len(u)
    BY <2>2
  <2>4. u[2] \in Int /\ u[3] \in 128 .. 191
    BY <1>2, <2>3, ElementOfSeq, Zenon
  <2>5. Decoded(u) = ThreeBytes(u[1], u[2], u[3])
    BY <2>2, SMT DEF Decoded, ThreeBytes
  <2>6. u = <<u[1], u[2], u[3]>>
    BY <2>2, SMT
  <2>7. Encodes(<<u[1], u[2], u[3]>>, Decoded(u))
    BY <1>2, <1>5, <2>4, <2>5, EncodedInThree, Zenon
  <2>. QED
    BY <2>6, <2>7, Zenon
<1>6. CASE u[1] \in 240 .. 244
  <2>1. Extra(u[1]) = 3
    BY <1>1, <1>6, ExtraIs, Zenon
  <2>2. Len(u) = 4
    BY <1>1, <2>1
  <2>3. 2 \in 1 .. Len(u) /\ 3 \in 3 .. Len(u) /\ 4 \in 3 .. Len(u)
    BY <2>2
  <2>4. u[2] \in Int /\ u[3] \in 128 .. 191 /\ u[4] \in 128 .. 191
    BY <1>2, <2>3, ElementOfSeq, Zenon
  <2>5. Decoded(u) = FourBytes(u[1], u[2], u[3], u[4])
    BY <2>2, SMT DEF Decoded, FourBytes
  <2>6. u = <<u[1], u[2], u[3], u[4]>>
    BY <2>2, SMT
  <2>7. Encodes(<<u[1], u[2], u[3], u[4]>>, Decoded(u))
    BY <1>2, <1>6, <2>4, <2>5, EncodedInFour, ZenonT(60)
  <2>. QED
    BY <2>6, <2>7, Zenon
<1>. QED
  BY <1>3, <1>4, <1>5, <1>6, Zenon

(* What a unit may be.                                                     *)
LEMMA DecodedType ==
    ASSUME NEW u \in Seq(Int), Len(u) \in 1 .. 4
    PROVE  Decoded(u) \in Int
<1>1. \A i \in 1 .. Len(u) : u[i] \in Int
  BY ElementOfSeq
<1>2. \A a, b \in Int : TwoBytes(a, b) \in Int
  BY SMT DEF TwoBytes
<1>3. CASE Len(u) = 1
  <2>1. Decoded(u) = u[1] /\ 1 \in 1 .. Len(u)
    BY <1>3, SMT DEF Decoded
  <2>. QED
    BY <1>1, <2>1, Zenon
<1>4. CASE Len(u) = 2
  <2>1. Decoded(u) = TwoBytes(u[1], u[2]) /\ 1 \in 1 .. Len(u) /\ 2 \in 1 .. Len(u)
    BY <1>4, SMT DEF Decoded, TwoBytes
  <2>. QED
    BY <1>1, <1>2, <2>1, Zenon
<1>5. CASE Len(u) = 3
  <2>. DEFINE a == u[1]
              b == u[2]
              c == u[3]
  <2>1. Decoded(u) = ThreeBytes(a, b, c)
    BY <1>5, SMT DEF Decoded, ThreeBytes
  <2>2. 1 \in 1 .. Len(u) /\ 2 \in 1 .. Len(u) /\ 3 \in 1 .. Len(u)
    BY <1>5
  <2>3. a \in Int /\ b \in Int /\ c \in Int
    BY <1>1, <2>2, Zenon
  <2>. HIDE DEF a, b, c
  <2>4. ThreeBytes(a, b, c) \in Int
    BY <2>3, SMT DEF ThreeBytes
  <2>. QED
    BY <2>1, <2>4, Zenon
<1>6. CASE Len(u) = 4
  <2>. DEFINE a == u[1]
              b == u[2]
              c == u[3]
              d == u[4]
  <2>1. Decoded(u) = FourBytes(a, b, c, d)
    BY <1>6, SMT DEF Decoded, FourBytes
  <2>2. 1 \in 1 .. Len(u) /\ 2 \in 1 .. Len(u) /\ 3 \in 1 .. Len(u) /\ 4 \in 1 .. Len(u)
    BY <1>6
  <2>3. a \in Int /\ b \in Int /\ c \in Int /\ d \in Int
    BY <1>1, <2>2, Zenon
  <2>. HIDE DEF a, b, c, d
  <2>4. FourBytes(a, b, c, d) \in Int
    BY <2>3, SMT DEF FourBytes
  <2>. QED
    BY <2>1, <2>4, Zenon
<1>7. Len(u) = 1 \/ Len(u) = 2 \/ Len(u) = 3 \/ Len(u) = 4
  OBVIOUS
<1>. QED
  BY <1>3, <1>4, <1>5, <1>6, <1>7, Zenon

LEMMA PlainIs ==
    ASSUME NEW u \in Seq(Int)
    PROVE  IsPlain(u) <=> (Len(u) = 1 /\ u[1] \in PlainChars) \/ Encoding(u)
<1>1. ASSUME IsPlain(u)
      PROVE  (Len(u) = 1 /\ u[1] \in PlainChars) \/ Encoding(u)
  <2>. DEFINE n == Decoded(u)
  <2>1. Len(u) \in 1 .. 4 /\ Scalar(n) /\ Utf8(n) = u /\ n >= 32 /\ n \notin {Quote, Backslash}
    BY <1>1, Zenon DEF IsPlain, IsUtf8
  <2>2. n \in Int
    BY <2>1, DecodedType
  <2>. HIDE DEF n
  <2>3. CASE n >= 128
    <3>1. Encoding(Utf8(n))
      BY <2>1, <2>2, <2>3, Utf8IsEncoding, Zenon
    <3>. QED
      BY <2>1, <3>1, Zenon
  <2>4. CASE n < 128
    <3>1. Utf8(n) = <<n>>
      BY <2>2, <2>4, Utf8Is, SMT
    <3>2. Len(u) = 1 /\ u[1] = n
      BY <2>1, <2>2, <3>1, OneElement, Zenon
    <3>3. n \in PlainChars
      BY <2>1, <2>2, <2>4 DEF PlainChars
    <3>. QED
      BY <3>2, <3>3, Zenon
  <2>. QED
    BY <2>2, <2>3, <2>4, SMT
<1>2. ASSUME Len(u) = 1, u[1] \in PlainChars
      PROVE  IsPlain(u)
  <2>. DEFINE n == u[1]
  <2>1. n \in Int /\ n >= 32 /\ n < 128 /\ n \notin {Quote, Backslash}
    <3>1. \A c \in PlainChars : c \in Int /\ c >= 32 /\ c < 128 /\ c \notin {Quote, Backslash}
      BY DEF PlainChars
    <3>. QED
      BY <1>2, <3>1, Zenon
  <2>2. u = <<n>> /\ Decoded(u) = n
    BY <1>2, SMT DEF Decoded
  <2>. HIDE DEF n
  <2>3. Utf8(n) = <<n>> /\ Scalar(n)
    BY <2>1, Utf8Is, ScalarIs, SMT
  <2>4. Len(u) \in 1 .. 4
    BY <1>2
  <2>. QED
    BY <2>1, <2>2, <2>3, <2>4, Zenon DEF IsPlain, IsUtf8
<1>3. ASSUME Encoding(u)
      PROVE  IsPlain(u)
  <2>1. Encodes(u, Decoded(u))
    BY <1>3, EncodingIsUtf8
  <2>2. Decoded(u) \in Int /\ Decoded(u) >= 128 /\ Scalar(Decoded(u)) /\ Utf8(Decoded(u)) = u
    BY <2>1, Zenon DEF Encodes
  <2>3. Decoded(u) >= 32 /\ Decoded(u) \notin {Quote, Backslash}
    <3>. DEFINE n == Decoded(u)
    <3>1. n \in Int /\ n >= 128
      BY <2>2
    <3>. HIDE DEF n
    <3>2. n >= 32 /\ n \notin {Quote, Backslash}
      BY <3>1 DEF Quote, Backslash
    <3>. QED
      BY <3>2 DEF n
  <2>4. Len(u) \in 1 .. 4
    <3>1. u[1] \in 194 .. 244 /\ Len(u) = 1 + Extra(u[1])
      BY <1>3, Zenon DEF Encoding
    <3>2. \A c \in 194 .. 244 : Extra(c) \in 1 .. 3
      BY DEF Extra
    <3>3. Extra(u[1]) \in 1 .. 3
      BY <3>1, <3>2, Zenon
    <3>. QED
      BY <3>1, <3>3
  <2>. QED
    BY <2>2, <2>3, <2>4, Zenon DEF IsPlain, IsUtf8
<1>. QED
  BY <1>1, <1>2, <1>3, Zenon

LEMMA PlainIsNoEscape ==
    ASSUME NEW u \in Seq(Int), IsPlain(u)
    PROVE  u[1] # Backslash
<1>1. u[1] \in PlainChars \/ u[1] \in 194 .. 244
  <2>1. u[1] \in PlainChars \/ Encoding(u)
    BY PlainIs, Zenon
  <2>. QED
    BY <2>1, Zenon DEF Encoding
<1>2. \A c \in PlainChars \cup (194 .. 244) : c # Backslash
  BY DEF PlainChars, Backslash
<1>. QED
  BY <1>1, <1>2, Zenon

(* What each kind of unit stands for.                                      *)
Stands(u, n) == IsCharacter(u) /\ CharacterOf(u) = n

LEMMA CharacterCases ==
    ASSUME NEW u \in Seq(Int)
    PROVE  /\ IsPlain(u) => Stands(u, Decoded(u))
           /\ IsEscape(u) => Stands(u, Escapes[u[2]])
           /\ IsCodepoint(u) => Stands(u, HexAt(u, 2))
           /\ IsPair(u) => Stands(u, Combined(HexAt(u, 2), HexAt(u, 8)))
<1>1. /\ IsEscape(u) => u[1] = Backslash /\ Len(u) = 2
      /\ IsCodepoint(u) => u[1] = Backslash /\ Len(u) = 6
      /\ IsPair(u) => u[1] = Backslash /\ Len(u) = 12
  BY Zenon DEF IsEscape, IsCodepoint, IsPair
<1>2. 2 # 6 /\ 2 # 12 /\ 6 # 12
  OBVIOUS
<1>3. /\ IsPlain(u) => ~IsEscape(u) /\ ~IsCodepoint(u) /\ ~IsPair(u)
      /\ IsEscape(u) => ~IsPlain(u) /\ ~IsCodepoint(u) /\ ~IsPair(u)
      /\ IsCodepoint(u) => ~IsPlain(u) /\ ~IsEscape(u) /\ ~IsPair(u)
      /\ IsPair(u) => ~IsPlain(u) /\ ~IsEscape(u) /\ ~IsCodepoint(u)
  BY <1>1, <1>2, PlainIsNoEscape, Zenon
<1>. DEFINE p == 65536 + (HexAt(u, 2) - 55296) * 1024 + (HexAt(u, 8) - 56320)
<1>4. IsPair(u) => p = Combined(HexAt(u, 2), HexAt(u, 8))
  <2>. DEFINE P(h, l) == 65536 + (h - 55296) * 1024 + (l - 56320)
  <2>1. \A h, l \in Int : P(h, l) = Combined(h, l)
    BY SMT DEF Combined
  <2>2. IsPair(u) => HexAt(u, 2) \in High /\ HexAt(u, 8) \in Low
    BY Zenon DEF IsPair
  <2>3. \A h \in High \cup Low : h \in Int
    BY SMT DEF High, Low
  <2>4. IsPair(u) => HexAt(u, 2) \in Int /\ HexAt(u, 8) \in Int
    BY <2>2, <2>3, Zenon
  <2>5. p = P(HexAt(u, 2), HexAt(u, 8))
    BY SMT
  <2>. HIDE DEF p, P
  <2>. QED
    BY <2>1, <2>4, <2>5, Zenon
<1>5. /\ IsPlain(u) => CharacterOf(u) = Decoded(u)
      /\ IsEscape(u) => CharacterOf(u) = Escapes[u[2]]
      /\ IsCodepoint(u) => CharacterOf(u) = HexAt(u, 2)
      /\ IsPair(u) => CharacterOf(u) = p
  BY <1>3, SMT DEF CharacterOf
<1>. HIDE DEF p
<1>6. IsPair(u) => CharacterOf(u) = Combined(HexAt(u, 2), HexAt(u, 8))
  BY <1>4, <1>5, Zenon
<1>. QED
  BY <1>5, <1>6, Zenon DEF Stands, IsCharacter

LEMMA CodepointType ==
    ASSUME NEW quad
    PROVE  Codepoint(quad) \in Int /\ -1 <= Codepoint(quad) /\ Codepoint(quad) <= 65535
<1>. DEFINE Digit(c) == CASE c \in 48 .. 57  -> c - 48
                          [] c \in 65 .. 70  -> c - 55
                          [] c \in 97 .. 102 -> c - 87
                          [] OTHER           -> -1
            a == Digit(quad[1])
            b == Digit(quad[2])
            c == Digit(quad[3])
            d == Digit(quad[4])
            n == Codepoint(quad)
<1>1. ASSUME NEW x
      PROVE  Digit(x) = -1 \/ Digit(x) \in 0 .. 15
  <2>1. CASE x \in 48 .. 57
    BY <2>1
  <2>2. CASE x \in 65 .. 70
    BY <2>2
  <2>3. CASE x \in 97 .. 102
    BY <2>3
  <2>. QED
    BY <2>1, <2>2, <2>3
<1>2. n = IF \E i \in 1 .. 4 : Digit(quad[i]) = -1 THEN -1
          ELSE 4096 * a + 256 * b + 16 * c + d
  BY DEF Codepoint
<1>. HIDE DEF Digit
<1>3. /\ a = -1 \/ a \in 0 .. 15
      /\ b = -1 \/ b \in 0 .. 15
      /\ c = -1 \/ c \in 0 .. 15
      /\ d = -1 \/ d \in 0 .. 15
  BY <1>1, Zenon
<1>4. a = -1 \/ b = -1 \/ c = -1 \/ d = -1 => \E i \in 1 .. 4 : Digit(quad[i]) = -1
  <2>1. 1 \in 1 .. 4 /\ 2 \in 1 .. 4 /\ 3 \in 1 .. 4 /\ 4 \in 1 .. 4
    OBVIOUS
  <2>. QED
    BY <2>1, Zenon
<1>5. CASE \E i \in 1 .. 4 : Digit(quad[i]) = -1
  <2>1. n = -1
    BY <1>2, <1>5, SMT
  <2>. HIDE DEF n
  <2>2. n \in Int /\ -1 <= n /\ n <= 65535
    BY <2>1, SMT
  <2>. QED
    BY <2>2, SMT DEF n
<1>6. CASE ~\E i \in 1 .. 4 : Digit(quad[i]) = -1
  <2>1. n = 4096 * a + 256 * b + 16 * c + d
    BY <1>2, <1>6, SMT
  <2>2. a \in 0 .. 15 /\ b \in 0 .. 15 /\ c \in 0 .. 15 /\ d \in 0 .. 15
    BY <1>3, <1>4, <1>6, Zenon
  <2>. HIDE DEF a, b, c, d, n
  <2>3. n \in Int /\ -1 <= n /\ n <= 65535
    BY <2>1, <2>2, SMT
  <2>. QED
    BY <2>3, SMT DEF n
<1>. QED
  BY <1>5, <1>6, SMT

LEMMA HexAtAgrees ==
    ASSUME NEW u, NEW v, NEW i \in Nat, \A j \in 1 .. 4 : u[i + j] = v[i + j]
    PROVE  HexAt(u, i) = HexAt(v, i)
<1>1. [j \in 1 .. 4 |-> u[i + j]] = [j \in 1 .. 4 |-> v[i + j]]
  BY Zenon
<1>. QED
  BY <1>1, Zenon DEF HexAt

LEMMA HexAtQuad ==
    ASSUME NEW v \in Seq(Int), NEW quad \in Quads
    PROVE  HexAt(v \o quad, Len(v)) = Codepoint(quad)
<1>1. quad \in [1 .. 4 -> 0 .. 255] /\ quad \in Seq(Int) /\ Len(quad) = 4
  BY InputType, Zenon
<1>2. \A j \in 1 .. 4 : (v \o quad)[Len(v) + j] = quad[j]
  <2>1. Joined(Int, v, quad, v \o quad)
    BY <1>1, JoinedText, Zenon
  <2>2. \A i \in 1 .. Len(quad) : (v \o quad)[Len(v) + i] = quad[i]
    BY <2>1, Zenon DEF Joined
  <2>. QED
    BY <1>1, <2>2, Zenon
<1>3. [j \in 1 .. 4 |-> (v \o quad)[Len(v) + j]] = quad
  <2>1. [j \in 1 .. 4 |-> quad[j]] = quad
    BY <1>1, Zenon
  <2>. QED
    BY <1>2, <2>1, Zenon
<1>. QED
  BY <1>3, Zenon DEF HexAt

(* What begins a character, and what does not.                             *)
Begins(u, v) == Len(u) <= Len(v) /\ \A i \in 1 .. Len(u) : v[i] = u[i]

LEMMA EndingsType == \A e \in Endings : e \in Seq(Int)
<1>1. ASSUME NEW n \in 0 .. 3, NEW e \in [1 .. n -> {128, 144, 160}]
      PROVE  e \in Seq(Int)
  <2>. DEFINE f == [i \in 1 .. n |-> e[i]]
  <2>1. e = f /\ \A i \in 1 .. n : e[i] \in {128, 144, 160}
    BY Zenon
  <2>2. \A i \in 1 .. n : e[i] \in Int
    BY <2>1
  <2>3. f \in Seq(Int)
    BY <2>2
  <2>. QED
    BY <2>1, <2>3, Zenon
<1>2. /\ <<Backslash, LetterU>> \in Seq(Int) /\ <<LetterU>> \in Seq(Int) /\ DC00 \in Seq(Int)
  BY DEF Backslash, LetterU, DC00
<1>3. /\ <<Backslash, LetterU>> \o DC00 \in Seq(Int) /\ <<LetterU>> \o DC00 \in Seq(Int)
  BY <1>2, JoinedText, Zenon
<1>. QED
  <2>1. ASSUME NEW e \in Endings
        PROVE  \/ \E n \in 0 .. 3 : e \in [1 .. n -> {128, 144, 160}]
               \/ e = <<Backslash, LetterU>> \o DC00
               \/ e = <<LetterU>> \o DC00
               \/ e = DC00
    BY <2>1, Zenon DEF Endings
  <2>. QED
    BY <1>1, <1>2, <1>3, <2>1, Zenon

LEMMA StartsAs ==
    ASSUME NEW u \in Seq(Int), StartsAUnit(u)
    PROVE  \E v \in Seq(Int) : IsCharacter(v) /\ Begins(u, v)
<1>1. PICK e \in Endings : IsCharacter(u \o e)
  BY Zenon DEF StartsAUnit
<1>2. e \in Seq(Int)
  BY EndingsType, Zenon
<1>3. u \o e \in Seq(Int) /\ Joined(Int, u, e, u \o e)
  BY <1>2, JoinedText, Zenon
<1>4. Len(u) <= Len(u \o e)
  <2>1. Len(u \o e) = Len(u) + Len(e) /\ Len(u) \in Nat /\ Len(e) \in Nat
    BY <1>3, Zenon DEF Joined
  <2>. QED
    BY <2>1
<1>5. Begins(u, u \o e)
  BY <1>3, <1>4, Zenon DEF Begins, Joined
<1>. QED
  BY <1>1, <1>3, <1>5, Zenon

LEMMA CharacterFrom ==
    ASSUME NEW v \in Seq(Int), IsCharacter(v)
    PROVE  \/ v[1] \in PlainChars
           \/ Encoding(v)
           \/ v[1] = Backslash /\ v[2] \in DOMAIN Escapes
           \/ v[1] = Backslash /\ v[2] = LetterU /\ Scalar(HexAt(v, 2))
           \/ /\ v[1] = Backslash /\ v[2] = LetterU /\ HexAt(v, 2) \in High
              /\ v[7] = Backslash /\ v[8] = LetterU /\ HexAt(v, 8) \in Low
<1>1. CASE IsPlain(v)
  BY <1>1, PlainIs, Zenon
<1>2. CASE IsEscape(v)
  BY <1>2, Zenon DEF IsEscape
<1>3. CASE IsCodepoint(v)
  BY <1>3, Zenon DEF IsCodepoint
<1>4. CASE IsPair(v)
  BY <1>4, Zenon DEF IsPair
<1>. QED
  BY <1>1, <1>2, <1>3, <1>4, Zenon DEF IsCharacter

LEMMA FirstsApart ==
    /\ Backslash \notin PlainChars /\ Backslash \notin 194 .. 244 /\ LetterU \notin DOMAIN Escapes
    /\ \A c \in 194 .. 244 : c \notin PlainChars
    /\ \A n \in Low \cup {-1} : ~Scalar(n) /\ n \notin High
    /\ \A n \in High : ~Scalar(n)
<1>1. Backslash \notin PlainChars /\ Backslash \notin 194 .. 244
  BY DEF Backslash, PlainChars
<1>2. LetterU \notin DOMAIN Escapes
  BY DEF LetterU, Escapes, Quote, Backslash, Solidus
<1>3. \A c \in 194 .. 244 : c \notin PlainChars
  BY DEF PlainChars
<1>5. ~Scalar(-1) /\ -1 \notin High
  BY SMT DEF Scalar, High
<1>6. \A n \in Low \cup High : ~Scalar(n)
  BY SMT DEF Scalar
<1>7. \A n \in Low : n \notin High
  <2>1. \A n \in Low : n \in Int
    BY SMT DEF Low
  <2>2. ASSUME NEW n \in Int, n \in Low
        PROVE  n \notin High
    BY <2>2, SurrogatesAre, SMT
  <2>. QED
    BY <2>1, <2>2, Zenon
<1>. QED
  BY <1>1, <1>2, <1>3, <1>5, <1>6, <1>7, Zenon

LEMMA BadFirst ==
    ASSUME NEW c \in Int, c \notin PlainChars, c \notin 194 .. 244, c # Backslash
    PROVE  ~StartsAUnit(<<c>>)
<1>. SUFFICES ASSUME StartsAUnit(<<c>>)
              PROVE  FALSE
  OBVIOUS
<1>1. <<c>> \in Seq(Int) /\ Len(<<c>>) = 1 /\ <<c>>[1] = c
  OBVIOUS
<1>2. PICK v \in Seq(Int) : IsCharacter(v) /\ Begins(<<c>>, v)
  BY <1>1, StartsAs, Zenon
<1>3. 1 \in 1 .. 1
  OBVIOUS
<1>4. v[1] = c
  BY <1>1, <1>2, <1>3, Zenon DEF Begins
<1>5. v[1] \notin 194 .. 244
  BY <1>4, Zenon
<1>6. ~Encoding(v)
  BY <1>5, Zenon DEF Encoding
<1>. QED
  BY <1>2, <1>4, <1>6, CharacterFrom, Zenon

WrongByte(u) ==
    \/ Len(u) = 2 /\ u[2] \notin Least(u[1]) .. Most(u[1])
    \/ Len(u) >= 3 /\ u[Len(u)] \notin 128 .. 191

LEMMA BadByte ==
    ASSUME NEW u \in Seq(Int), u[1] \in 194 .. 244, WrongByte(u)
    PROVE  ~StartsAUnit(u)
<1>. SUFFICES ASSUME StartsAUnit(u)
              PROVE  FALSE
  OBVIOUS
<1>1. PICK v \in Seq(Int) : IsCharacter(v) /\ Begins(u, v)
  BY StartsAs, Zenon
<1>2. Len(u) <= Len(v) /\ \A i \in 1 .. Len(u) : v[i] = u[i]
  BY <1>1, Zenon DEF Begins
<1>3. 1 \in 1 .. Len(u) /\ Len(u) \in 1 .. Len(u) /\ (Len(u) >= 3 => Len(u) \in 3 .. Len(v))
  BY <1>2 DEF WrongByte
<1>4. v[1] = u[1] /\ v[Len(u)] = u[Len(u)]
  BY <1>2, <1>3, Zenon
<1>5. v[1] \notin PlainChars /\ v[1] # Backslash
  BY <1>4, FirstsApart, Zenon
<1>6. Encoding(v)
  BY <1>1, <1>5, CharacterFrom, Zenon
<1>7. v[2] \in Least(v[1]) .. Most(v[1]) /\ \A i \in 3 .. Len(v) : v[i] \in 128 .. 191
  BY <1>6, Zenon DEF Encoding
<1>8. CASE Len(u) = 2 /\ u[2] \notin Least(u[1]) .. Most(u[1])
  <2>1. v[2] = u[2]
    BY <1>4, <1>8, Zenon
  <2>. QED
    BY <1>4, <1>7, <1>8, <2>1, Zenon
<1>9. CASE Len(u) >= 3 /\ u[Len(u)] \notin 128 .. 191
  <2>1. Len(u) \in 3 .. Len(v)
    BY <1>3, <1>9, Zenon
  <2>2. v[Len(u)] \in 128 .. 191
    <3>1. \A i \in 3 .. Len(v) : v[i] \in 128 .. 191
      BY <1>7
    <3>. QED
      BY <2>1, <3>1
  <2>. QED
    BY <1>4, <1>9, <2>2, Zenon
<1>. QED
  BY <1>8, <1>9, Zenon DEF WrongByte

LEMMA BadEscape ==
    ASSUME NEW c \in Int, c \notin DOMAIN Escapes, c # LetterU
    PROVE  ~StartsAUnit(<<Backslash, c>>)
<1>. DEFINE u == <<Backslash, c>>
<1>. SUFFICES ASSUME StartsAUnit(u)
              PROVE  FALSE
  OBVIOUS
<1>1. u \in Seq(Int) /\ Len(u) = 2 /\ u[1] = Backslash /\ u[2] = c
  BY DEF Backslash
<1>. HIDE DEF u
<1>2. PICK v \in Seq(Int) : IsCharacter(v) /\ Begins(u, v)
  BY <1>1, StartsAs, Zenon
<1>3. 1 \in 1 .. 2 /\ 2 \in 1 .. 2
  OBVIOUS
<1>4. v[1] = Backslash /\ v[2] = c
  BY <1>1, <1>2, <1>3, Zenon DEF Begins
<1>5. v[1] \notin 194 .. 244
  BY <1>4, FirstsApart, Zenon
<1>6. ~Encoding(v)
  BY <1>5, Zenon DEF Encoding
<1>. QED
  BY <1>2, <1>4, <1>6, CharacterFrom, FirstsApart, Zenon

(* Past \u, with its digits read.                                          *)
LEMMA AfterDigits ==
    ASSUME NEW u \in Seq(Int), Len(u) >= 6, u[1] = Backslash, u[2] = LetterU,
           NEW v \in Seq(Int), IsCharacter(v), Begins(u, v)
    PROVE  /\ HexAt(v, 2) = HexAt(u, 2)
           /\ \/ Scalar(HexAt(u, 2))
              \/ /\ HexAt(u, 2) \in High
                 /\ v[7] = Backslash /\ v[8] = LetterU /\ HexAt(v, 8) \in Low
<1>1. 1 \in 1 .. Len(u) /\ 2 \in 1 .. Len(u) /\ \A j \in 1 .. 4 : 2 + j \in 1 .. Len(u)
  OBVIOUS
<1>2. v[1] = Backslash /\ v[2] = LetterU /\ \A j \in 1 .. 4 : v[2 + j] = u[2 + j]
  BY <1>1, Zenon DEF Begins
<1>3. HexAt(v, 2) = HexAt(u, 2)
  BY <1>2, HexAtAgrees
<1>4. v[1] \notin 194 .. 244
  BY <1>2, FirstsApart, Zenon
<1>5. ~Encoding(v)
  BY <1>4, Zenon DEF Encoding
<1>. QED
  BY <1>2, <1>3, <1>5, CharacterFrom, FirstsApart, Zenon

LEMMA BadCodepoint ==
    ASSUME NEW u \in Seq(Int), Len(u) >= 6, u[1] = Backslash, u[2] = LetterU,
           HexAt(u, 2) \in Low \cup {-1}
    PROVE  ~StartsAUnit(u)
<1>1. ~Scalar(HexAt(u, 2)) /\ HexAt(u, 2) \notin High
  BY FirstsApart, Zenon
<1>. QED
  BY <1>1, StartsAs, AfterDigits, Zenon

LEMMA BadPair ==
    ASSUME NEW u \in Seq(Int), Len(u) >= 6, u[1] = Backslash, u[2] = LetterU,
           HexAt(u, 2) \in High,
           \/ Len(u) >= 7 /\ u[7] # Backslash
           \/ Len(u) >= 8 /\ u[8] # LetterU
           \/ Len(u) >= 12 /\ HexAt(u, 8) \notin Low
    PROVE  ~StartsAUnit(u)
<1>. SUFFICES ASSUME StartsAUnit(u)
              PROVE  FALSE
  OBVIOUS
<1>1. PICK v \in Seq(Int) : IsCharacter(v) /\ Begins(u, v)
  BY StartsAs, Zenon
<1>2. ~Scalar(HexAt(u, 2))
  BY FirstsApart, Zenon
<1>3. v[7] = Backslash /\ v[8] = LetterU /\ HexAt(v, 8) \in Low
  BY <1>1, <1>2, AfterDigits, Zenon
<1>4. CASE Len(u) >= 7 /\ u[7] # Backslash
  <2>1. 7 \in 1 .. Len(u)
    BY <1>4
  <2>. QED
    BY <1>1, <1>3, <1>4, <2>1, Zenon DEF Begins
<1>5. CASE Len(u) >= 8 /\ u[8] # LetterU
  <2>1. 8 \in 1 .. Len(u)
    BY <1>5
  <2>. QED
    BY <1>1, <1>3, <1>5, <2>1, Zenon DEF Begins
<1>6. CASE Len(u) >= 12 /\ HexAt(u, 8) \notin Low
  <2>1. \A j \in 1 .. 4 : 8 + j \in 1 .. Len(u)
    BY <1>6
  <2>2. \A j \in 1 .. 4 : v[8 + j] = u[8 + j]
    BY <1>1, <2>1, Zenon DEF Begins
  <2>3. HexAt(v, 8) = HexAt(u, 8)
    BY <2>2, HexAtAgrees
  <2>. QED
    BY <1>3, <1>6, <2>3, Zenon
<1>. QED
  BY <1>4, <1>5, <1>6, Zenon

(* The text of the units before one, and its bytes.                        *)
Complete(r, n) == \A i \in 2 .. n : IsCharacter(r[i])
BytesOf(r, n) == FlattenSeq([i \in 1 .. n - 1 |-> Utf8(CharacterOf(r[i + 1]))])

LEMMA Utf8Type ==
    ASSUME NEW n \in Int
    PROVE  Utf8(n) \in Seq(Int)
<1>1. \A a, b, c, d \in Int : /\ <<a>> \in Seq(Int) /\ <<a, b>> \in Seq(Int)
                              /\ <<a, b, c>> \in Seq(Int) /\ <<a, b, c, d>> \in Seq(Int)
  OBVIOUS
<1>. DEFINE a == n \div 64
            b == n \div 4096
            c == n \div 262144
            x == 128 + (n % 64)
            y == 128 + (a % 64)
            z == 128 + (b % 64)
<1>2. a \in Int /\ b \in Int /\ c \in Int
  BY SMT
<1>3. /\ x \in Int /\ 192 + a \in Int /\ 224 + b \in Int /\ 240 + c \in Int
      /\ y \in Int /\ z \in Int
  <2>1. x \in Int
    BY SMT
  <2>. HIDE DEF a, b, c
  <2>2. 192 + a \in Int /\ 224 + b \in Int /\ 240 + c \in Int /\ y \in Int /\ z \in Int
    BY <1>2, SMT
  <2>. QED
    BY <2>1, <2>2, SMT
<1>4. CASE n < 128
  <2>1. Utf8(n) = <<n>>
    BY <1>4, Utf8Is, SMT
  <2>. QED
    BY <1>1, <2>1, Zenon
<1>5. CASE 128 <= n /\ n <= 2047
  <2>1. Utf8(n) = <<192 + a, x>>
    <3>1. Utf8(n) = <<192 + (n \div 64), 128 + (n % 64)>>
      BY <1>5, SMT DEF Utf8
    <3>. QED
      BY <3>1, Zenon
  <2>. HIDE DEF a, x
  <2>. QED
    BY <1>1, <1>3, <2>1, SMT
<1>6. CASE 2048 <= n /\ n <= 65535
  <2>1. Utf8(n) = <<224 + b, y, x>>
    BY <1>6, Utf8Is, SMT
  <2>. HIDE DEF b, x, y
  <2>. QED
    BY <1>1, <1>3, <2>1, SMT
<1>7. CASE 65536 <= n
  <2>1. Utf8(n) = <<240 + c, z, y, x>>
    BY <1>7, Utf8Is, SMT
  <2>. HIDE DEF c, x, y, z
  <2>. QED
    BY <1>1, <1>3, <2>1, SMT
<1>. QED
  BY <1>4, <1>5, <1>6, <1>7, SMT

LEMMA CharacterType ==
    ASSUME NEW u \in Seq(Int), IsCharacter(u)
    PROVE  CharacterOf(u) \in Int /\ Utf8(CharacterOf(u)) \in Seq(Int)
<1>1. CharacterOf(u) \in Int
  <2>0. \A quad : Codepoint(quad) \in Int
    BY CodepointType, SMT
  <2>1. CASE IsPlain(u)
    <3>1. Len(u) \in 1 .. 4
      BY <2>1, Zenon DEF IsPlain, IsUtf8
    <3>2. Decoded(u) \in Int
      BY <3>1, DecodedType
    <3>. QED
      BY <2>1, <3>2, CharacterCases, Zenon DEF Stands
  <2>2. CASE IsEscape(u)
    <3>1. \A c \in DOMAIN Escapes : Escapes[c] \in Int
      BY DEF Escapes, Quote, Backslash, Solidus
    <3>2. Escapes[u[2]] \in Int
      BY <2>2, <3>1, Zenon DEF IsEscape
    <3>. QED
      BY <2>2, <3>2, CharacterCases, Zenon DEF Stands
  <2>3. CASE IsCodepoint(u)
    <3>1. HexAt(u, 2) \in Int
      BY <2>0, Zenon DEF HexAt
    <3>. QED
      BY <2>3, <3>1, CharacterCases, Zenon DEF Stands
  <2>4. CASE IsPair(u)
    <3>1. HexAt(u, 2) \in Int /\ HexAt(u, 8) \in Int
      BY <2>0, Zenon DEF HexAt
    <3>2. \A h, l \in Int : Combined(h, l) \in Int
      BY SMT DEF Combined
    <3>3. Combined(HexAt(u, 2), HexAt(u, 8)) \in Int
      BY <3>1, <3>2, Zenon
    <3>. QED
      BY <2>4, <3>3, CharacterCases, Zenon DEF Stands
  <2>. QED
    BY <2>1, <2>2, <2>3, <2>4, Zenon DEF IsCharacter
<1>. QED
  BY <1>1, Utf8Type, Zenon

LEMMA Unchanged ==
    ASSUME NEW r, NEW s, NEW n, \A i \in 2 .. n : s[i] = r[i], n \in Nat
    PROVE  BytesOf(s, n) = BytesOf(r, n) /\ (Complete(r, n) => Complete(s, n))
<1>1. \A i \in 1 .. n - 1 : i + 1 \in 2 .. n
  OBVIOUS
<1>2. [i \in 1 .. n - 1 |-> Utf8(CharacterOf(r[i + 1]))] = [i \in 1 .. n - 1 |-> Utf8(CharacterOf(s[i + 1]))]
  BY <1>1, Zenon
<1>. QED
  BY <1>2, Zenon DEF BytesOf, Complete

LEMMA BytesType ==
    ASSUME NEW r \in Seq(Units), NEW n \in Nat \ {0}, n <= Len(r), Complete(r, n)
    PROVE  /\ [i \in 1 .. n - 1 |-> Utf8(CharacterOf(r[i + 1]))] \in Seq(Seq(Int))
           /\ Len([i \in 1 .. n - 1 |-> Utf8(CharacterOf(r[i + 1]))]) = n - 1
           /\ BytesOf(r, n) \in Seq(Int)
<1>. DEFINE f == [i \in 1 .. n - 1 |-> Utf8(CharacterOf(r[i + 1]))]
<1>1. ASSUME NEW i \in 1 .. n - 1
      PROVE  Utf8(CharacterOf(r[i + 1])) \in Seq(Int)
  <2>1. i + 1 \in 2 .. n /\ i + 1 \in 1 .. Len(r)
    OBVIOUS
  <2>2. r[i + 1] \in Units /\ IsCharacter(r[i + 1])
    BY <2>1, ElementOfSeq, Zenon DEF Complete
  <2>3. r[i + 1] \in Seq(Int)
    BY <2>2 DEF Units
  <2>. QED
    BY <2>2, <2>3, CharacterType, Zenon
<1>2. f \in Seq(Seq(Int)) /\ Len(f) = n - 1
  <2>. DEFINE g(i) == Utf8(CharacterOf(r[i + 1]))
              S == Seq(Int)
  <2>1. \A i \in 1 .. n - 1 : g(i) \in S
    BY <1>1
  <2>2. f = [i \in 1 .. n - 1 |-> g(i)]
    OBVIOUS
  <2>. HIDE DEF g, S
  <2>3. [i \in 1 .. n - 1 |-> g(i)] \in Seq(S) /\ Len([i \in 1 .. n - 1 |-> g(i)]) = n - 1
    BY <2>1
  <2>. QED
    BY <2>2, <2>3, Zenon DEF S
<1>. HIDE DEF f
<1>3. FlattenSeq(f) \in Seq(Int)
  BY <1>2, FlattenType
<1>. QED
  BY <1>2, <1>3, Zenon DEF f, BytesOf

(* One more character.                                                     *)
LEMMA OneMore ==
    ASSUME NEW r \in Seq(Units), NEW n \in Nat \ {0}, n + 1 <= Len(r), Complete(r, n),
           NEW m, Stands(r[n + 1], m)
    PROVE  Complete(r, n + 1) /\ BytesOf(r, n + 1) = BytesOf(r, n) \o Utf8(m)
<1>. DEFINE f == [i \in 1 .. n - 1 |-> Utf8(CharacterOf(r[i + 1]))]
            g == [i \in 1 .. (n + 1) - 1 |-> Utf8(CharacterOf(r[i + 1]))]
            x == Utf8(m)
<1>1. IsCharacter(r[n + 1]) /\ CharacterOf(r[n + 1]) = m
  BY Zenon DEF Stands
<1>2. Complete(r, n + 1)
  <2>1. \A i \in 2 .. n + 1 : i \in 2 .. n \/ i = n + 1
    OBVIOUS
  <2>. QED
    BY <1>1, <2>1, Zenon DEF Complete
<1>3. n <= Len(r) /\ n + 1 \in Nat \ {0} /\ (n + 1) - 1 = n
  OBVIOUS
<1>4. f \in Seq(Seq(Int)) /\ Len(f) = n - 1
  BY <1>3, BytesType, Zenon
<1>5. g \in Seq(Seq(Int)) /\ Len(g) = (n + 1) - 1
  BY <1>2, <1>3, BytesType, Zenon
<1>6. n \in 1 .. (n + 1) - 1 /\ n \in 1 .. n /\ n - 1 \in Nat /\ (n - 1) + 1 = n
      /\ (\A i \in 1 .. n - 1 : i \in 1 .. (n + 1) - 1)
  OBVIOUS
<1>7. g[n] = x /\ \A i \in 1 .. n - 1 : g[i] = f[i]
  BY <1>1, <1>6, Zenon
<1>8. x \in Seq(Int)
  <2>1. g[n] \in Seq(Int)
    <3>. HIDE DEF g
    <3>1. n \in 1 .. Len(g)
      BY <1>3, <1>5, <1>6, Zenon
    <3>. QED
      BY <1>5, <3>1, ElementOfSeq, Zenon
  <2>. QED
    BY <1>7, <2>1, Zenon
<1>. HIDE DEF f, g, x
<1>9. /\ Append(f, x) \in Seq(Seq(Int)) /\ Len(Append(f, x)) = n
      /\ Append(f, x)[n] = x /\ \A i \in 1 .. n - 1 : Append(f, x)[i] = f[i]
  <2>. DEFINE S == Seq(Int)
  <2>1. f \in Seq(S) /\ x \in S
    BY <1>4, <1>8
  <2>. HIDE DEF S
  <2>2. /\ Append(f, x) \in Seq(S) /\ Len(Append(f, x)) = Len(f) + 1
        /\ Append(f, x)[Len(f) + 1] = x
        /\ \A i \in 1 .. Len(f) : Append(f, x)[i] = f[i]
    BY <2>1, Appended
  <2>. QED
    BY <1>4, <1>6, <2>2, Zenon DEF S
<1>10. g = Append(f, x)
  <2>1. \A i \in 1 .. n : i = n \/ i \in 1 .. n - 1
    OBVIOUS
  <2>2. Len(g) = n /\ \A i \in 1 .. n : g[i] = Append(f, x)[i]
    BY <1>3, <1>5, <1>7, <1>9, <2>1, Zenon
  <2>. QED
    BY <1>5, <1>9, <2>2, SeqEqual, Zenon
<1>11. FlattenSeq(g) = FlattenSeq(f) \o x
  BY <1>4, <1>8, <1>10, FlattenAppend, Zenon
<1>. QED
  BY <1>2, <1>11, Zenon DEF f, g, x, BytesOf

(* A character whose end is still to come: in the middle of its bytes, of  *)
(* an escape, or between two surrogates.                                   *)
Escaped(u, h) == u[1] = Backslash /\ u[2] = LetterU /\ HexAt(u, 2) = h /\ h \in High

Partial(l, u, rs, h) ==
    /\ l = "bytes" => /\ u[1] \in 194 .. 244 /\ Len(u) \in 1 .. Extra(u[1])
                      /\ Len(u) >= 2 => u[2] \in Least(u[1]) .. Most(u[1])
                      /\ \A i \in 3 .. Len(u) : u[i] \in 128 .. 191
                      /\ rs \in Seq(Seq(Int)) /\ Len(rs) = (Extra(u[1]) + 1) - Len(u)
                      /\ \A i \in 1 .. Len(rs) : rs[i] = Ranges(u[1])[(Len(u) - 1) + i]
    /\ l = "escape" => u = <<Backslash>>
    /\ l = "u"      => u = <<Backslash, LetterU>>
    /\ l = "pair"   => Len(u) = 6 /\ Escaped(u, h)
    /\ l = "pair u" => Len(u) = 7 /\ Escaped(u, h) /\ u[7] = Backslash
    /\ l = "low"    => Len(u) = 8 /\ Escaped(u, h) /\ u[7] = Backslash /\ u[8] = LetterU

(* next_byte_in_range, and what it makes of the bytes.                     *)
LEMMA FirstByte ==
    ASSUME NEW c \in 194 .. 244, NEW h
    PROVE  Partial("bytes", <<c>>, Ranges(c), h)
<1>. DEFINE u == <<c>>
<1>1. Len(u) = 1 /\ u[1] = c
  OBVIOUS
<1>. HIDE DEF u
<1>2. Ranges(c) \in Seq(Seq(Int)) /\ Len(Ranges(c)) = Extra(c)
  BY RangesAre, Zenon
<1>3. Extra(c) \in 1 .. 3
  BY DEF Extra
<1>4. /\ Len(u) \in 1 .. Extra(c) /\ ~(Len(u) >= 2) /\ (\A i \in 3 .. Len(u) : FALSE)
      /\ Extra(c) = (Extra(c) + 1) - Len(u)
      /\ \A i \in 1 .. Extra(c) : (Len(u) - 1) + i = i
  BY <1>1, <1>3
<1>5. "bytes" # "escape" /\ "bytes" # "u" /\ "bytes" # "pair" /\ "bytes" # "pair u"
      /\ "bytes" # "low"
  OBVIOUS
<1>6. /\ u[1] \in 194 .. 244 /\ Len(u) \in 1 .. Extra(u[1])
      /\ Len(Ranges(c)) = (Extra(u[1]) + 1) - Len(u)
      /\ \A i \in 1 .. Len(Ranges(c)) : Ranges(c)[i] = Ranges(u[1])[(Len(u) - 1) + i]
  BY <1>1, <1>2, <1>4, ZenonT(60)
<1>7. /\ Len(u) >= 2 => u[2] \in Least(u[1]) .. Most(u[1])
      /\ \A i \in 3 .. Len(u) : u[i] \in 128 .. 191
  BY <1>4, Zenon
<1>8. Partial("bytes", u, Ranges(c), h)
  BY <1>2, <1>5, <1>6, <1>7, Zenon DEF Partial
<1>. QED
  BY <1>8, Zenon DEF u

LEMMA HeadIsRange ==
    ASSUME NEW u \in Seq(Int), NEW rs, NEW h, Partial("bytes", u, rs, h)
    PROVE  /\ rs \in Seq(Seq(Int)) /\ rs # <<>>
           /\ Len(u) = 1 => Head(rs)[1] = Least(u[1]) /\ Head(rs)[2] = Most(u[1])
           /\ Len(u) # 1 => Head(rs)[1] = 128 /\ Head(rs)[2] = 191
<1>. DEFINE n == Len(u)
            a == u[1]
            e == Extra(a)
<1>1. /\ a \in 194 .. 244 /\ n \in 1 .. e
      /\ rs \in Seq(Seq(Int)) /\ Len(rs) = (e + 1) - n
  BY Zenon DEF Partial
<1>2. \A i \in 1 .. Len(rs) : rs[i] = Ranges(a)[(n - 1) + i]
  BY Zenon DEF Partial
<1>3. e \in Nat
  <2>1. \A c \in 194 .. 244 : Extra(c) \in Nat
    BY DEF Extra
  <2>. QED
    BY <1>1, <2>1, Zenon
<1>. HIDE DEF n, a, e
<1>4. Len(rs) >= 1 /\ (n - 1) + 1 = n /\ 1 \in 1 .. Len(rs)
  BY <1>1, <1>3
<1>5. rs # <<>> /\ Head(rs) = rs[1]
  BY <1>1, <1>4
<1>6. Head(rs) = Ranges(a)[n]
  BY <1>2, <1>4, <1>5, Zenon
<1>9. /\ Ranges(a)[1][1] = Least(a) /\ Ranges(a)[1][2] = Most(a)
      /\ \A i \in 2 .. Extra(a) : Follows(Ranges(a)[i])
  <2>1. a \in 194 .. 244
    BY <1>1
  <2>2. Ranges(a)[1][1] = Least(a) /\ Ranges(a)[1][2] = Most(a)
    BY <2>1, RangesAre, Zenon
  <2>3. \A i \in 2 .. Extra(a) : Follows(Ranges(a)[i])
    BY <2>1, RangesAre, Zenon
  <2>. QED
    BY <2>2, <2>3, Zenon
<1>7. CASE n = 1
  <2>1. Head(rs)[1] = Least(a) /\ Head(rs)[2] = Most(a)
    BY <1>6, <1>7, <1>9, Zenon
  <2>. QED
    BY <1>1, <1>5, <1>7, <2>1, Zenon DEF n, a
<1>8. CASE n # 1
  <2>1. n \in 2 .. e
    BY <1>1, <1>3, <1>8
  <2>2. Head(rs)[1] = 128 /\ Head(rs)[2] = 191
    <3>1. n \in 2 .. Extra(a)
      BY <2>1, Zenon DEF e
    <3>2. Ranges(a)[n][1] = 128 /\ Ranges(a)[n][2] = 191
      BY <1>9, <3>1, ZenonT(60) DEF Follows
    <3>. QED
      BY <1>6, <3>2, ZenonT(60)
  <2>. QED
    BY <1>1, <1>5, <1>8, <2>2, Zenon DEF n
<1>. QED
  BY <1>7, <1>8

LEMMA NextInRange ==
    ASSUME NEW u \in Seq(Int), NEW rs, NEW h, Partial("bytes", u, rs, h),
           NEW c \in Int, c \in Head(rs)[1] .. Head(rs)[2]
    PROVE  IF Len(rs) = 1 THEN Encoding(Append(u, c))
                          ELSE Partial("bytes", Append(u, c), Tail(rs), h)
<1>. DEFINE v == Append(u, c)
            n == Len(u)
            a == u[1]
            ts == Tail(rs)
<1>1. /\ a \in 194 .. 244 /\ n \in 1 .. Extra(a)
      /\ n >= 2 => u[2] \in Least(a) .. Most(a)
      /\ \A i \in 3 .. n : u[i] \in 128 .. 191
      /\ rs \in Seq(Seq(Int)) /\ Len(rs) = (Extra(a) + 1) - n
      /\ \A i \in 1 .. Len(rs) : rs[i] = Ranges(a)[(n - 1) + i]
  BY Zenon DEF Partial
<1>2. Extra(a) \in 1 .. 3
  <2>1. \A x \in 194 .. 244 : Extra(x) \in 1 .. 3
    BY DEF Extra
  <2>. QED
    BY <1>1, <2>1, Zenon
<1>3. v \in Seq(Int) /\ Len(v) = n + 1 /\ v[n + 1] = c /\ \A i \in 1 .. n : v[i] = u[i]
  BY AppendProperties
<1>4. /\ rs # <<>>
      /\ n = 1 => c \in Least(a) .. Most(a)
      /\ n # 1 => c \in 128 .. 191
  <2>1. /\ rs # <<>>
        /\ n = 1 => Head(rs)[1] = Least(a) /\ Head(rs)[2] = Most(a)
        /\ n # 1 => Head(rs)[1] = 128 /\ Head(rs)[2] = 191
    BY HeadIsRange
  <2>2. CASE n = 1
    BY <2>1, <2>2, Zenon
  <2>3. CASE n # 1
    BY <2>1, <2>3, Zenon
  <2>. QED
    BY <2>2, <2>3
<1>5. /\ ts \in Seq(Seq(Int)) /\ Len(ts) = Len(rs) - 1
      /\ \A i \in 1 .. Len(rs) - 1 : ts[i] = rs[i + 1]
  BY <1>1, <1>4
<1>. HIDE DEF v, n, a, ts
<1>6. n \in Nat /\ n >= 1 /\ 1 \in 1 .. n
  BY <1>1, <1>2
<1>7. v[1] = a
  BY <1>3, <1>6, Zenon DEF a
<1>8. v[2] \in Least(a) .. Most(a)
  <2>1. CASE n = 1
    <3>1. v[2] = c
      BY <1>3, <2>1
    <3>. QED
      BY <1>4, <2>1, <3>1, Zenon
  <2>2. CASE n # 1
    <3>1. n >= 2 /\ 2 \in 1 .. n
      BY <1>6, <2>2
    <3>2. v[2] = u[2]
      BY <1>3, <3>1, Zenon
    <3>3. u[2] \in Least(a) .. Most(a)
      BY <1>1, <3>1, Zenon
    <3>. QED
      BY <3>2, <3>3, Zenon
  <2>. QED
    BY <2>1, <2>2
<1>9. \A i \in 3 .. Len(v) : v[i] \in 128 .. 191
  <2>1. ASSUME NEW i \in 3 .. Len(v)
        PROVE  v[i] \in 128 .. 191
    <3>1. CASE i = n + 1
      <4>1. n # 1
        BY <1>6, <3>1
      <4>. QED
        BY <1>3, <1>4, <3>1, <4>1, Zenon
    <3>2. CASE i # n + 1
      <4>1. i \in 3 .. n /\ i \in 1 .. n
        BY <1>3, <1>6, <3>2
      <4>2. v[i] = u[i]
        BY <1>3, <4>1, Zenon
      <4>3. \A k \in 3 .. n : u[k] \in 128 .. 191
        BY <1>1
      <4>. QED
        BY <4>1, <4>2, <4>3
    <3>. QED
      BY <3>1, <3>2
  <2>. QED
    BY <2>1, Zenon
<1>10. n \in 1 .. Extra(a) /\ Len(rs) = (Extra(a) + 1) - n
  BY <1>1
<1>11. CASE Len(rs) = 1
  <2>1. Len(v) = 1 + Extra(a)
    BY <1>2, <1>3, <1>6, <1>11, <1>10, SMTT(40)
  <2>2. Encoding(v)
    BY <1>1, <1>7, <1>8, <1>9, <2>1, Zenon DEF Encoding
  <2>. QED
    BY <1>11, <2>2, Zenon DEF v
<1>12. CASE Len(rs) # 1
  <2>1. /\ Len(v) \in 1 .. Extra(a) /\ Len(ts) = (Extra(a) + 1) - Len(v)
    <3>. DEFINE e == Extra(a)
    <3>1. n \in 1 .. e /\ Len(rs) = (e + 1) - n /\ e \in 1 .. 3
      BY <1>2, <1>10
    <3>2. Len(v) = n + 1 /\ Len(ts) = Len(rs) - 1 /\ Len(rs) # 1
      BY <1>3, <1>5, <1>12
    <3>. HIDE DEF e
    <3>3. Len(v) \in 1 .. e /\ Len(ts) = (e + 1) - Len(v)
      BY <1>6, <3>1, <3>2
    <3>. QED
      BY <3>3, Zenon DEF e
  <2>2. ASSUME NEW i \in 1 .. Len(ts)
        PROVE  ts[i] = Ranges(a)[(Len(v) - 1) + i]
    <3>1. i \in 1 .. Len(rs) - 1 /\ i + 1 \in 1 .. Len(rs) /\ (n - 1) + (i + 1) = (Len(v) - 1) + i
      BY <1>1, <1>2, <1>3, <1>5, <1>6
    <3>2. ts[i] = rs[i + 1]
      BY <1>5, <3>1, Zenon
    <3>3. \A k \in 1 .. Len(rs) : rs[k] = Ranges(a)[(n - 1) + k]
      BY <1>1
    <3>. QED
      BY <3>1, <3>2, <3>3, Zenon
  <2>3. "bytes" # "escape" /\ "bytes" # "u" /\ "bytes" # "pair" /\ "bytes" # "pair u"
        /\ "bytes" # "low"
    OBVIOUS
  <2>4. /\ v[1] \in 194 .. 244 /\ Len(v) \in 1 .. Extra(v[1])
        /\ v[2] \in Least(v[1]) .. Most(v[1])
        /\ Len(ts) = (Extra(v[1]) + 1) - Len(v)
        /\ \A i \in 1 .. Len(ts) : ts[i] = Ranges(v[1])[(Len(v) - 1) + i]
    BY <1>1, <1>7, <1>8, <2>1, <2>2, Zenon
  <2>5. Partial("bytes", v, ts, h)
    BY <1>5, <1>9, <2>3, <2>4, Zenon DEF Partial
  <2>. QED
    BY <1>12, <2>5, Zenon DEF v, ts
<1>. QED
  BY <1>11, <1>12, Zenon

LEMMA NotInRange ==
    ASSUME NEW u \in Seq(Int), NEW rs, NEW h, Partial("bytes", u, rs, h),
           NEW c \in Int, c \notin Head(rs)[1] .. Head(rs)[2]
    PROVE  ~StartsAUnit(Append(u, c))
<1>. DEFINE v == Append(u, c)
            n == Len(u)
            a == u[1]
<1>1. a \in 194 .. 244 /\ n \in 1 .. Extra(a)
  BY Zenon DEF Partial
<1>2. Extra(a) \in 1 .. 3
  <2>1. \A x \in 194 .. 244 : Extra(x) \in 1 .. 3
    BY DEF Extra
  <2>. QED
    BY <1>1, <2>1, Zenon
<1>3. v \in Seq(Int) /\ Len(v) = n + 1 /\ v[n + 1] = c /\ \A i \in 1 .. n : v[i] = u[i]
  BY AppendProperties
<1>4. /\ n = 1 => c \notin Least(a) .. Most(a)
      /\ n # 1 => c \notin 128 .. 191
  <2>1. /\ n = 1 => Head(rs)[1] = Least(a) /\ Head(rs)[2] = Most(a)
        /\ n # 1 => Head(rs)[1] = 128 /\ Head(rs)[2] = 191
    BY HeadIsRange
  <2>2. CASE n = 1
    BY <2>1, <2>2, Zenon
  <2>3. CASE n # 1
    BY <2>1, <2>3, Zenon
  <2>. QED
    BY <2>2, <2>3
<1>. HIDE DEF v, n, a
<1>5. n \in Nat /\ n >= 1 /\ 1 \in 1 .. n
  BY <1>1, <1>2
<1>6. v[1] = a
  BY <1>3, <1>5, Zenon DEF a
<1>7. WrongByte(v)
  <2>1. CASE n = 1
    <3>1. Len(v) = 2 /\ v[2] = c
      BY <1>3, <2>1
    <3>. QED
      BY <1>4, <1>6, <2>1, <3>1, Zenon DEF WrongByte
  <2>2. CASE n # 1
    <3>1. Len(v) >= 3 /\ v[Len(v)] = c
      BY <1>3, <1>5, <2>2
    <3>. QED
      BY <1>4, <2>2, <3>1, Zenon DEF WrongByte
  <2>. QED
    BY <2>1, <2>2
<1>8. v[1] \in 194 .. 244
  BY <1>1, <1>6, Zenon
<1>9. ~StartsAUnit(v)
  BY <1>3, <1>7, <1>8, BadByte
<1>. QED
  BY <1>9, Zenon DEF v

(* What a string token says, for the text it was read from.                *)
TokenRight(r, t) ==
    r # <<>> /\ r[1] = <<Quote>> =>
      IF t = Error THEN ~StartsAUnit(Last(r))
      ELSE Complete(r, Len(r)) /\ t.value = BytesOf(r, Len(r))

(* All characters but the one being read are complete, and their bytes are *)
(* in the buffer.                                                          *)
StringRead(l, r, rs, h, b) ==
    /\ l = "string" => Complete(r, Len(r)) /\ b = BytesOf(r, Len(r))
    /\ l \in StringLabels \ {"string"} =>
         /\ Complete(r, Len(r) - 1) /\ Partial(l, r[Len(r)], rs, h)
         /\ b = IF l = "bytes" THEN BytesOf(r, Len(r) - 1) \o r[Len(r)] ELSE BytesOf(r, Len(r) - 1)

StringInv ==
    /\ scanner \in StartLabels => token_buffer = <<>>
    /\ StringRead(scanner, read, ranges, codepoint1, token_buffer)
    /\ scanner = "scanned" => TokenRight(read, token)

(* The last unit of the text and what comes before it, after a step.       *)
UnitIs(n, v, b) ==
    /\ n \in Nat \ {0}
    /\ read' \in Seq(Units) /\ Len(read') = n + 1 /\ read'[n + 1] = v
    /\ Complete(read', n) /\ BytesOf(read', n) = b

LEMMA LabelsApart ==
    /\ StartLabels \cap (StringLabels \cup NumberLabels \cup {"literal", "scanned"}) = {}
    /\ StringLabels \cap (NumberLabels \cup {"literal", "scanned"}) = {}
    /\ "string" \in StringLabels
BY LabelsAre DEF StartLabels, StringLabels

(* A unit that goes on, ends, or is an error.                              *)
LEMMA UnitGoesOn ==
    ASSUME NEW n, NEW v, NEW b, UnitIs(n, v, b), NEW l, l \in StringLabels \ {"string"},
           scanner' = l, Partial(l, v, ranges', codepoint1'),
           token_buffer' = IF l = "bytes" THEN b \o v ELSE b
    PROVE  StringInv'
<1>. DEFINE r == read'
<1>1. n \in Nat \ {0} /\ Len(r) = n + 1 /\ r[n + 1] = v /\ Complete(r, n) /\ BytesOf(r, n) = b
  BY Zenon DEF UnitIs
<1>. HIDE DEF r
<1>2. Len(r) - 1 = n
  BY <1>1
<1>3. StringRead(l, r, ranges', codepoint1', token_buffer')
  <2>1. l # "string"
    OBVIOUS
  <2>2. r[Len(r)] = v
    BY <1>1, Zenon
  <2>3. Complete(r, Len(r) - 1) /\ BytesOf(r, Len(r) - 1) = b
    BY <1>1, <1>2, Zenon
  <2>. QED
    BY <2>1, <2>2, <2>3, Zenon DEF StringRead
<1>4. StringRead(scanner', read', ranges', codepoint1', token_buffer')
  BY <1>3, Zenon DEF r
<1>5. scanner' \notin StartLabels /\ scanner' # "scanned"
  BY LabelsApart, Zenon
<1>. QED
  BY <1>4, <1>5, Zenon DEF StringInv

LEMMA UnitEnds ==
    ASSUME NEW n, NEW v, NEW b, UnitIs(n, v, b), NEW m, Stands(v, m),
           scanner' = "string", token_buffer' = b \o Utf8(m)
    PROVE  StringInv'
<1>. DEFINE r == read'
<1>1. n \in Nat \ {0} /\ Len(r) = n + 1 /\ r[n + 1] = v /\ Complete(r, n) /\ BytesOf(r, n) = b
      /\ r \in Seq(Units)
  BY Zenon DEF UnitIs
<1>. HIDE DEF r
<1>2. n + 1 <= Len(r)
  BY <1>1
<1>3. Complete(r, n + 1) /\ BytesOf(r, n + 1) = BytesOf(r, n) \o Utf8(m)
  <2>1. Stands(r[n + 1], m)
    BY <1>1, Zenon
  <2>. QED
    BY <1>1, <1>2, <2>1, OneMore
<1>4. Complete(r, Len(r)) /\ token_buffer' = BytesOf(r, Len(r))
  BY <1>1, <1>3, Zenon
<1>5. StringRead("string", r, ranges', codepoint1', token_buffer')
  <2>1. "string" \notin StringLabels \ {"string"}
    OBVIOUS
  <2>. QED
    BY <1>4, <2>1, Zenon DEF StringRead
<1>6. StringRead(scanner', read', ranges', codepoint1', token_buffer')
  BY <1>5, Zenon DEF r
<1>7. scanner' \notin StartLabels /\ scanner' # "scanned"
  BY LabelsApart, Zenon
<1>. QED
  BY <1>6, <1>7, Zenon DEF StringInv

LEMMA Scanned ==
    ASSUME scanner' = "scanned", TokenRight(read', token')
    PROVE  StringInv'
<1>1. scanner' \notin StartLabels /\ scanner' \notin StringLabels /\ scanner' # "string"
  BY LabelsApart, Zenon
<1>2. StringRead(scanner', read', ranges', codepoint1', token_buffer')
  BY <1>1, Zenon DEF StringRead
<1>. QED
  BY <1>1, <1>2, Zenon DEF StringInv

LEMMA UnitErrs ==
    ASSUME NEW n, NEW v, NEW b, UnitIs(n, v, b), ~StartsAUnit(v), Return(Error)
    PROVE  StringInv'
<1>. DEFINE r == read'
<1>1. n \in Nat \ {0} /\ Len(r) = n + 1 /\ r[n + 1] = v
  BY Zenon DEF UnitIs
<1>2. Last(r) = v
  BY <1>1, Zenon DEF Last
<1>3. scanner' = "scanned" /\ token' = Error
  BY Zenon DEF Return
<1>. HIDE DEF r
<1>4. TokenRight(r, token')
  BY <1>2, <1>3, Zenon DEF TokenRight
<1>. QED
  BY <1>3, <1>4, Scanned, Zenon DEF r

(* The unit being read, and the bytes of those before it.                  *)
Current  == read[Len(read)]
Finished == BytesOf(read, Len(read) - 1)

LEMMA InAString ==
    ASSUME ReadInv, StringInv, scanner = "string"
    PROVE  /\ read \in Seq(Units) /\ Len(read) \in Nat \ {0} /\ read[1] = <<Quote>>
           /\ Complete(read, Len(read)) /\ token_buffer = BytesOf(read, Len(read))
           /\ token_buffer \in Seq(Int)
<1>1. scanner \in StringLabels
  BY LabelsApart, Zenon
<1>2. read \in Seq(Units) /\ Len(read) >= 1 /\ read[1] = <<Quote>>
  BY <1>1, Zenon DEF ReadInv
<1>3. Complete(read, Len(read)) /\ token_buffer = BytesOf(read, Len(read))
  BY Zenon DEF StringInv, StringRead
<1>4. Len(read) \in Nat \ {0} /\ Len(read) <= Len(read)
  BY <1>2
<1>5. BytesOf(read, Len(read)) \in Seq(Int)
  BY <1>2, <1>3, <1>4, BytesType, Zenon
<1>. QED
  BY <1>2, <1>3, <1>4, <1>5, Zenon

LEMMA InAUnit ==
    ASSUME ReadInv, StringInv, scanner \in StringLabels \ {"string"}
    PROVE  /\ read \in Seq(Units) /\ Len(read) - 1 \in Nat \ {0} /\ Len(read) \in Nat
           /\ Current \in Seq(Int) /\ Finished \in Seq(Int)
           /\ Complete(read, Len(read) - 1) /\ Partial(scanner, Current, ranges, codepoint1)
           /\ token_buffer = IF scanner = "bytes" THEN Finished \o Current ELSE Finished
<1>1. read \in Seq(Units) /\ Len(read) >= 2
  BY Zenon DEF ReadInv
<1>2. /\ Complete(read, Len(read) - 1) /\ Partial(scanner, Current, ranges, codepoint1)
      /\ token_buffer = IF scanner = "bytes" THEN Finished \o Current ELSE Finished
  BY Zenon DEF StringInv, StringRead, Current, Finished
<1>3. Len(read) \in Nat /\ Len(read) - 1 \in Nat \ {0} /\ Len(read) - 1 <= Len(read)
      /\ Len(read) \in 1 .. Len(read)
  <2>. DEFINE n == Len(read)
  <2>1. n \in Nat /\ n >= 2
    BY <1>1, LenProperties
  <2>. HIDE DEF n
  <2>2. n \in Nat /\ n - 1 \in Nat \ {0} /\ n - 1 <= n /\ n \in 1 .. n
    BY <2>1
  <2>. QED
    BY <2>2 DEF n
<1>4. Finished \in Seq(Int)
  BY <1>1, <1>2, <1>3, BytesType, Zenon DEF Finished
<1>5. Current \in Units
  BY <1>1, <1>3, ElementOfSeq, Zenon DEF Current
<1>6. Current \in Seq(Int)
  BY <1>5 DEF Units
<1>. QED
  BY <1>1, <1>2, <1>3, <1>4, <1>6, Zenon

LEMMA StartsAUnitIs ==
    ASSUME ReadInv, StringInv, scanner = "string", NEW c \in Int, Starts(c)
    PROVE  UnitIs(Len(read), <<c>>, token_buffer)
<1>. DEFINE r == read'
            n == Len(read)
<1>1. /\ read \in Seq(Units) /\ n \in Nat \ {0} /\ Complete(read, n)
      /\ token_buffer = BytesOf(read, n)
  BY InAString, Zenon
<1>2. /\ r \in Seq(Units) /\ Len(r) = n + 1 /\ r[n + 1] = <<c>> /\ \A i \in 1 .. n : r[i] = read[i]
  BY <1>1, StartsOne
<1>. HIDE DEF r, n
<1>3. \A i \in 2 .. n : i \in 1 .. n
  OBVIOUS
<1>4. n \in Nat /\ \A i \in 2 .. n : r[i] = read[i]
  BY <1>1, <1>2, <1>3, Zenon
<1>5. BytesOf(r, n) = BytesOf(read, n) /\ Complete(r, n)
  BY <1>1, <1>4, Unchanged, Zenon
<1>. QED
  BY <1>1, <1>2, <1>5, Zenon DEF UnitIs, r, n

(* A unit that is joined by more.                                          *)
LEMMA JoinedUnitIs ==
    ASSUME ReadInv, StringInv, scanner \in StringLabels \ {"string"}, NEW v,
           read' \in Seq(Units), Len(read') = Len(read), read'[Len(read)] = v,
           \A i \in 1 .. Len(read) - 1 : read'[i] = read[i]
    PROVE  UnitIs(Len(read) - 1, v, Finished)
<1>. DEFINE r == read'
            n == Len(read) - 1
<1>1. /\ n \in Nat \ {0} /\ Len(read) \in Nat /\ Complete(read, n) /\ Finished = BytesOf(read, n)
  BY InAUnit, Zenon DEF Finished
<1>2. n + 1 = Len(read)
  BY <1>1
<1>3. r \in Seq(Units) /\ Len(r) = n + 1 /\ r[n + 1] = v /\ \A i \in 1 .. n : r[i] = read[i]
  BY <1>2, Zenon
<1>. HIDE DEF r, n
<1>4. \A i \in 2 .. n : i \in 1 .. n
  OBVIOUS
<1>5. n \in Nat /\ \A i \in 2 .. n : r[i] = read[i]
  BY <1>1, <1>3, <1>4, Zenon
<1>6. BytesOf(r, n) = BytesOf(read, n) /\ Complete(r, n)
  BY <1>1, <1>5, Unchanged, Zenon
<1>. QED
  BY <1>1, <1>3, <1>6, Zenon DEF UnitIs, r, n

LEMMA JoinsIs ==
    ASSUME ReadInv, StringInv, scanner \in StringLabels \ {"string"}, NEW c \in Int, Joins(c)
    PROVE  UnitIs(Len(read) - 1, Append(Current, c), Finished)
<1>1. read \in Seq(Units) /\ Len(read) - 1 \in Nat \ {0} /\ Len(read) \in Nat
  BY InAUnit, Zenon
<1>2. Len(read) >= 1
  BY <1>1
<1>3. /\ read' \in Seq(Units) /\ Len(read') = Len(read)
      /\ read'[Len(read)] = Append(Current, c)
      /\ \A i \in 1 .. Len(read) - 1 : read'[i] = read[i]
  BY <1>1, <1>2, JoinsLast, Zenon DEF Current
<1>. QED
  BY <1>3, JoinedUnitIs, Zenon

LEMMA JoinsQuadIs ==
    ASSUME ReadInv, StringInv, scanner \in StringLabels \ {"string"}, NEW quad \in Quads, JoinsQuad(quad)
    PROVE  UnitIs(Len(read) - 1, Current \o quad, Finished)
<1>1. read \in Seq(Units) /\ Len(read) - 1 \in Nat \ {0} /\ Len(read) \in Nat
  BY InAUnit, Zenon
<1>2. Len(read) >= 1 /\ quad \in Seq(Int)
  BY <1>1, InputType
<1>3. /\ read' \in Seq(Units) /\ Len(read') = Len(read)
      /\ read'[Len(read)] = Current \o quad
      /\ \A i \in 1 .. Len(read) - 1 : read'[i] = read[i]
  BY <1>1, <1>2, JoinsQuadLast, Zenon DEF Current
<1>. QED
  BY <1>3, JoinedUnitIs, Zenon

-----------------------------------------------------------------------------
(* The first character of a unit.                                          *)
LEMMA AsciiIs ==
    ASSUME NEW c \in PlainChars
    PROVE  c \in Int /\ Stands(<<c>>, c) /\ Utf8(c) = <<c>>
<1>1. c \in Int /\ c < 128
  BY DEF PlainChars
<1>. DEFINE u == <<c>>
<1>2. u \in Seq(Int) /\ Len(u) = 1 /\ u[1] = c
  BY <1>1
<1>. HIDE DEF u
<1>3. Decoded(u) = c
  BY <1>2, SMT DEF Decoded
<1>4. IsPlain(u)
  BY <1>2, PlainIs, Zenon
<1>5. Stands(u, c)
  BY <1>2, <1>3, <1>4, CharacterCases, Zenon
<1>6. Utf8(c) = <<c>>
  BY <1>1, Utf8Is, SMT
<1>. QED
  BY <1>1, <1>5, <1>6, Zenon DEF u

LEMMA StringCharStep ==
    ASSUME ReadInv, StringInv, NEW c \in Chars, StringChar(c)
    PROVE  StringInv'
<1>0. c \in Int
  BY InputType, Zenon
<1>1. scanner = "string"
  BY Zenon DEF StringChar
<1>2. /\ read \in Seq(Units) /\ Len(read) \in Nat \ {0} /\ read[1] = <<Quote>>
      /\ Complete(read, Len(read)) /\ token_buffer = BytesOf(read, Len(read))
      /\ token_buffer \in Seq(Int)
  BY <1>1, InAString
<1>. DEFINE b == token_buffer
<1>3. ASSUME Starts(c)
      PROVE  UnitIs(Len(read), <<c>>, b)
  BY <1>0, <1>1, <1>3, StartsAUnitIs, Zenon
<1>4. CASE c = Quote /\ Return([type |-> "value_string", value |-> token_buffer]) /\ read' = read
  <2>. DEFINE t == [type |-> "value_string", value |-> token_buffer]
  <2>1. t.value = token_buffer /\ t # Error /\ token' = t /\ scanner' = "scanned"
    BY <1>4 DEF Return, Error
  <2>. HIDE DEF t
  <2>2. TokenRight(read, t)
    BY <1>2, <2>1, Zenon DEF TokenRight
  <2>3. TokenRight(read', token')
    BY <1>4, <2>1, <2>2, Zenon
  <2>. QED
    BY <2>1, <2>3, Scanned
<1>5. CASE c \in PlainChars /\ Starts(c) /\ token_buffer' = Append(token_buffer, c)
           /\ scanner' = scanner
  <2>1. Stands(<<c>>, c) /\ Utf8(c) = <<c>>
    BY <1>5, AsciiIs
  <2>2. Append(token_buffer, c) = b \o <<c>>
    BY <1>0, <1>2
  <2>. HIDE DEF b
  <2>3. token_buffer' = b \o Utf8(c)
    BY <1>5, <2>1, <2>2, Zenon
  <2>. QED
    BY <1>1, <1>3, <1>5, <2>1, <2>3, UnitEnds, Zenon
<1>6. CASE /\ c = Backslash /\ Starts(c) /\ scanner' = "escape"
           /\ UNCHANGED <<token, token_buffer, ranges>>
  <2>1. Partial("escape", <<Backslash>>, ranges', codepoint1')
    BY DEF Partial
  <2>2. "escape" \in StringLabels \ {"string"} /\ "escape" # "bytes"
    BY DEF StringLabels
  <2>3. token_buffer' = IF "escape" = "bytes" THEN b \o <<Backslash>> ELSE b
    BY <1>6, <2>2, Zenon
  <2>4. UnitIs(Len(read), <<Backslash>>, b)
    BY <1>3, <1>6, Zenon
  <2>. HIDE DEF b
  <2>. QED
    BY <1>6, <2>1, <2>2, <2>3, <2>4, UnitGoesOn, Zenon
<1>7. CASE /\ c \in 194 .. 244 /\ Starts(c) /\ token_buffer' = Append(token_buffer, c)
           /\ ranges' = Ranges(c) /\ scanner' = "bytes"
  <2>1. Partial("bytes", <<c>>, ranges', codepoint1')
    BY <1>7, FirstByte, Zenon
  <2>2. "bytes" \in StringLabels \ {"string"}
    BY DEF StringLabels
  <2>3. token_buffer' = IF "bytes" = "bytes" THEN b \o <<c>> ELSE b
    BY <1>0, <1>2, <1>7
  <2>4. UnitIs(Len(read), <<c>>, b)
    BY <1>3, <1>7, Zenon
  <2>. HIDE DEF b
  <2>. QED
    BY <1>7, <2>1, <2>2, <2>3, <2>4, UnitGoesOn, Zenon
<1>8. CASE c \in {Eof} \cup ControlChars \cup IllFormed /\ Starts(c) /\ Return(Error)
  <2>1. \A d \in {Eof} \cup ControlChars \cup IllFormed :
           d \notin PlainChars /\ d \notin 194 .. 244 /\ d # Backslash
    BY DEF Eof, ControlChars, IllFormed, PlainChars, Backslash
  <2>2. ~StartsAUnit(<<c>>)
    BY <1>0, <1>8, <2>1, BadFirst
  <2>. QED
    BY <1>3, <1>8, <2>2, UnitErrs, Zenon
<1>. QED
  BY <1>4, <1>5, <1>6, <1>7, <1>8, Zenon DEF StringChar

LEMMA StringLabelsAre ==
    /\ \A l \in {"bytes", "escape", "u", "pair", "pair u", "low"} : l \in StringLabels \ {"string"}
    /\ \A l \in {"escape", "u", "pair", "pair u", "low"} : l # "bytes"
    /\ \A l \in {"bytes", "escape", "u", "pair", "pair u"} : l # "low"
BY DEF StringLabels

LEMMA AppendIsJoined ==
    ASSUME NEW s \in Seq(Int), NEW x \in Int
    PROVE  Append(s, x) = s \o <<x>>
OBVIOUS

LEMMA UnitsAssociate ==
    \A a, b, c \in Seq(Int) : (a \o b) \o c = a \o (b \o c)
<1>. DEFINE S == Int
<1>. HIDE DEF S
<1>1. \A a, b, c \in Seq(S) : (a \o b) \o c = a \o (b \o c)
  BY Associates
<1>. QED
  BY <1>1, Zenon DEF S

LEMMA AppendedToJoined ==
    ASSUME NEW s \in Seq(Int), NEW u \in Seq(Int), NEW c \in Int
    PROVE  Append(s \o u, c) = s \o Append(u, c)
<1>1. <<c>> \in Seq(Int) /\ s \o u \in Seq(Int)
  OBVIOUS
<1>2. Append(s \o u, c) = (s \o u) \o <<c>> /\ Append(u, c) = u \o <<c>>
  BY <1>1, AppendIsJoined, Zenon
<1>3. (s \o u) \o <<c>> = s \o (u \o <<c>>)
  BY <1>1, UnitsAssociate, Zenon
<1>. QED
  BY <1>2, <1>3, Zenon

LEMMA NextByteStep ==
    ASSUME ReadInv, StringInv, NEW c \in Chars, NextByte(c)
    PROVE  StringInv'
<1>. DEFINE u == Current
            v == Append(Current, c)
            b == Finished
            n == Len(read) - 1
<1>0. c \in Int /\ scanner = "bytes" /\ Joins(c)
  BY InputType, Zenon DEF NextByte
<1>1. scanner \in StringLabels \ {"string"}
  BY <1>0, StringLabelsAre, Zenon
<1>2. /\ u \in Seq(Int) /\ b \in Seq(Int) /\ Partial("bytes", u, ranges, codepoint1)
      /\ token_buffer = b \o u
  <2>1. /\ u \in Seq(Int) /\ b \in Seq(Int) /\ Partial(scanner, u, ranges, codepoint1)
        /\ token_buffer = IF scanner = "bytes" THEN b \o u ELSE b
    BY <1>1, InAUnit, Zenon
  <2>. QED
    BY <1>0, <2>1, Zenon
<1>3. UnitIs(n, v, b)
  BY <1>0, <1>1, JoinsIs, Zenon
<1>4. CASE /\ c \in Head(ranges)[1] .. Head(ranges)[2] /\ token_buffer' = Append(token_buffer, c)
           /\ ranges' = Tail(ranges) /\ scanner' = IF Len(ranges) = 1 THEN "string" ELSE "bytes"
           /\ codepoint1' = codepoint1
  <2>1. IF Len(ranges) = 1 THEN Encoding(v) ELSE Partial("bytes", v, Tail(ranges), codepoint1)
    BY <1>0, <1>2, <1>4, NextInRange, Zenon
  <2>2. token_buffer' = b \o v
    <3>1. Append(b \o u, c) = b \o v
      BY <1>0, <1>2, AppendedToJoined, Zenon
    <3>. QED
      BY <1>2, <1>4, <3>1, Zenon
  <2>3. v \in Seq(Int)
    BY <1>0, <1>2, AppendProperties
  <2>. HIDE DEF u, v, b, n
  <2>4. CASE Len(ranges) = 1
    <3>1. Encoding(v)
      BY <2>1, <2>4, Zenon
    <3>2. Utf8(Decoded(v)) = v
      BY <2>3, <3>1, EncodingIsUtf8, Zenon DEF Encodes
    <3>3. Stands(v, Decoded(v))
      BY <2>3, <3>1, PlainIs, CharacterCases, Zenon
    <3>4. scanner' = "string" /\ token_buffer' = b \o Utf8(Decoded(v))
      BY <1>4, <2>2, <2>4, <3>2, Zenon
    <3>. QED
      BY <1>3, <3>3, <3>4, UnitEnds, Zenon
  <2>5. CASE Len(ranges) # 1
    <3>1. Partial("bytes", v, ranges', codepoint1')
      BY <1>4, <2>1, <2>5, Zenon
    <3>2. scanner' = "bytes" /\ "bytes" \in StringLabels \ {"string"}
      BY <1>4, <2>5, StringLabelsAre, Zenon
    <3>3. token_buffer' = IF "bytes" = "bytes" THEN b \o v ELSE b
      BY <2>2, Zenon
    <3>. QED
      BY <1>3, <3>1, <3>2, <3>3, UnitGoesOn, Zenon
  <2>. QED
    BY <2>4, <2>5
<1>5. CASE c \notin Head(ranges)[1] .. Head(ranges)[2] /\ Return(Error)
  <2>1. ~StartsAUnit(v)
    BY <1>0, <1>2, <1>5, NotInRange, Zenon
  <2>. HIDE DEF v, b, n
  <2>. QED
    BY <1>3, <1>5, <2>1, UnitErrs, Zenon
<1>. QED
  BY <1>4, <1>5, Zenon DEF NextByte

(* What follows a backslash.                                               *)
LEMMA EscapeIs ==
    ASSUME NEW c \in DOMAIN Escapes
    PROVE  /\ c \in Int
           /\ Stands(<<Backslash, c>>, Escapes[c]) /\ Utf8(Escapes[c]) = <<Escapes[c]>>
<1>. DEFINE u == <<Backslash, c>>
            n == Escapes[c]
<1>1. c \in Int /\ n \in Int /\ n < 128
  BY DEF Escapes, Quote, Backslash, Solidus
<1>2. u \in Seq(Int) /\ Len(u) = 2 /\ u[1] = Backslash /\ u[2] = c
  BY <1>1 DEF Backslash
<1>. HIDE DEF n
<1>3. Utf8(n) = <<n>>
  BY <1>1, Utf8Is, SMT
<1>. HIDE DEF u
<1>4. IsEscape(u)
  BY <1>2, Zenon DEF IsEscape
<1>5. Stands(u, n)
  BY <1>2, <1>4, CharacterCases, Zenon DEF n
<1>. QED
  BY <1>1, <1>3, <1>5, Zenon DEF u, n

LEMMA EscapeStep ==
    ASSUME ReadInv, StringInv, NEW c \in Chars, Escape(c)
    PROVE  StringInv'
<1>. DEFINE v == <<Backslash, c>>
            b == Finished
            n == Len(read) - 1
<1>0. c \in Int /\ scanner = "escape" /\ Joins(c)
  BY InputType, Zenon DEF Escape
<1>1. scanner \in StringLabels \ {"string"} /\ "escape" # "bytes"
  BY <1>0, StringLabelsAre, Zenon
<1>2. /\ b \in Seq(Int) /\ Partial("escape", Current, ranges, codepoint1)
      /\ token_buffer = b
  <2>1. /\ b \in Seq(Int) /\ Partial(scanner, Current, ranges, codepoint1)
        /\ token_buffer = IF scanner = "bytes" THEN b \o Current ELSE b
    BY <1>1, InAUnit, Zenon
  <2>. QED
    BY <1>0, <1>1, <2>1, Zenon
<1>3. Append(Current, c) = v
  <2>1. Current = <<Backslash>>
    BY <1>2, Zenon DEF Partial
  <2>. QED
    BY <2>1, AppendedTwo, Zenon
<1>4. UnitIs(n, v, b)
  BY <1>0, <1>1, <1>3, JoinsIs, Zenon
<1>. HIDE DEF b, n
<1>5. CASE c \in DOMAIN Escapes /\ token_buffer' = Append(token_buffer, Escapes[c])
           /\ scanner' = "string"
  <2>. DEFINE m == Escapes[c]
  <2>1. Stands(v, m) /\ Utf8(m) = <<m>>
    BY <1>5, EscapeIs, Zenon
  <2>2. m \in Int
    <3>1. \A d \in DOMAIN Escapes : Escapes[d] \in Int
      BY DEF Escapes, Quote, Backslash, Solidus
    <3>. QED
      BY <1>5, <3>1, Zenon
  <2>. HIDE DEF v, m
  <2>3. Append(b, m) = b \o <<m>>
    BY <1>2, <2>2
  <2>4. token_buffer' = b \o Utf8(m)
    BY <1>2, <1>5, <2>1, <2>3, Zenon DEF m
  <2>. QED
    BY <1>4, <1>5, <2>1, <2>4, UnitEnds, Zenon
<1>6. CASE c = LetterU /\ scanner' = "u" /\ token_buffer' = token_buffer
  <2>1. Partial("u", v, ranges', codepoint1')
    <3>1. v = <<Backslash, LetterU>>
      BY <1>6, Zenon
    <3>. HIDE DEF v
    <3>. QED
      BY <3>1 DEF Partial
  <2>2. "u" \in StringLabels \ {"string"} /\ "u" # "bytes"
    BY StringLabelsAre, Zenon
  <2>. HIDE DEF v
  <2>3. token_buffer' = IF "u" = "bytes" THEN b \o v ELSE b
    BY <1>2, <1>6, <2>2, Zenon
  <2>. QED
    BY <1>4, <1>6, <2>1, <2>2, <2>3, UnitGoesOn, Zenon
<1>7. CASE c \notin DOMAIN Escapes \cup {LetterU} /\ Return(Error)
  <2>1. ~StartsAUnit(v)
    BY <1>0, <1>7, BadEscape, Zenon
  <2>. HIDE DEF v
  <2>. QED
    BY <1>4, <1>7, <2>1, UnitErrs, Zenon
<1>. QED
  BY <1>5, <1>6, <1>7, Zenon DEF Escape

(* A \u escape with its digits, and what is read after it.                 *)
LEMMA WithDigits ==
    ASSUME NEW quad \in Quads, NEW v, v = <<Backslash, LetterU>> \o quad
    PROVE  /\ v \in Seq(Int) /\ Len(v) = 6 /\ v[1] = Backslash /\ v[2] = LetterU
           /\ HexAt(v, 2) = Codepoint(quad)
<1>. DEFINE u == <<Backslash, LetterU>>
            w == u \o quad
<1>1. u \in Seq(Int) /\ Len(u) = 2 /\ u[1] = Backslash /\ u[2] = LetterU
  BY DEF Backslash, LetterU
<1>2. quad \in Seq(Int) /\ Len(quad) = 4
  BY InputType, Zenon
<1>3. 1 \in 1 .. 2 /\ 2 \in 1 .. 2 /\ 2 + 4 = 6
  OBVIOUS
<1>. HIDE DEF u
<1>4. Joined(Int, u, quad, w)
  BY <1>1, <1>2, JoinedText, Zenon
<1>5. /\ w \in Seq(Int) /\ Len(w) = 6 /\ w[1] = Backslash /\ w[2] = LetterU
  BY <1>1, <1>2, <1>3, <1>4, Zenon DEF Joined
<1>6. HexAt(w, 2) = Codepoint(quad)
  BY <1>1, HexAtQuad, Zenon
<1>7. v = w
  BY Zenon DEF u
<1>. HIDE DEF w
<1>. QED
  BY <1>5, <1>6, <1>7, Zenon

LEMMA EscapedStill ==
    ASSUME NEW u, NEW v, NEW h, Escaped(u, h), \A i \in 1 .. 6 : v[i] = u[i]
    PROVE  Escaped(v, h)
<1>1. 1 \in 1 .. 6 /\ 2 \in 1 .. 6 /\ \A j \in 1 .. 4 : 2 + j \in 1 .. 6
  OBVIOUS
<1>2. HexAt(v, 2) = HexAt(u, 2)
  <2>1. \A j \in 1 .. 4 : v[2 + j] = u[2 + j]
    BY <1>1, Zenon
  <2>2. 2 \in Nat
    OBVIOUS
  <2>. QED
    BY <2>1, <2>2, HexAtAgrees, Zenon
<1>. QED
  BY <1>1, <1>2, Zenon DEF Escaped

LEMMA UnicodeEscapeStep ==
    ASSUME ReadInv, StringInv, NEW quad \in Quads, UnicodeEscape(quad)
    PROVE  StringInv'
<1>. DEFINE v == <<Backslash, LetterU>> \o quad
            h == Codepoint(quad)
            b == Finished
            n == Len(read) - 1
<1>0. scanner = "u" /\ JoinsQuad(quad)
  BY Zenon DEF UnicodeEscape
<1>1. scanner \in StringLabels \ {"string"} /\ "u" # "bytes"
  BY <1>0, StringLabelsAre, Zenon
<1>2. Partial("u", Current, ranges, codepoint1) /\ token_buffer = b
  <2>1. /\ Partial(scanner, Current, ranges, codepoint1)
        /\ token_buffer = IF scanner = "bytes" THEN b \o Current ELSE b
    BY <1>1, InAUnit, Zenon
  <2>. QED
    BY <1>0, <1>1, <2>1, Zenon
<1>3. UnitIs(n, v, b)
  <2>1. Current = <<Backslash, LetterU>>
    BY <1>2, Zenon DEF Partial
  <2>2. UnitIs(n, Current \o quad, b)
    BY <1>0, <1>1, JoinsQuadIs, Zenon
  <2>. QED
    BY <2>1, <2>2, Zenon
<1>4. /\ v \in Seq(Int) /\ Len(v) = 6 /\ v[1] = Backslash /\ v[2] = LetterU
      /\ HexAt(v, 2) = h
  BY WithDigits
<1>5. h \in Int /\ -1 <= h /\ h <= 65535
  BY CodepointType, SMT
<1>. HIDE DEF v, h, b, n
<1>6. CASE h \in High /\ codepoint1' = h /\ scanner' = "pair" /\ token_buffer' = token_buffer
  <2>1. Partial("pair", v, ranges', codepoint1')
    <3>1. /\ "pair" # "bytes" /\ "pair" # "escape" /\ "pair" # "u" /\ "pair" # "pair u"
          /\ "pair" # "low"
      OBVIOUS
    <3>. QED
      BY <1>4, <1>6, <3>1, Zenon DEF Partial, Escaped
  <2>2. "pair" \in StringLabels \ {"string"} /\ "pair" # "bytes"
    BY StringLabelsAre, Zenon
  <2>3. token_buffer' = IF "pair" = "bytes" THEN b \o v ELSE b
    BY <1>2, <1>6, <2>2, Zenon
  <2>. QED
    BY <1>3, <1>6, <2>1, <2>2, <2>3, UnitGoesOn, Zenon
<1>7. CASE h \in Low \cup {-1} /\ Return(Error)
  <2>1. Len(v) >= 6 /\ HexAt(v, 2) \in Low \cup {-1}
    <3>1. Len(v) >= 6
      BY <1>4
    <3>. QED
      BY <1>4, <1>7, <3>1, Zenon
  <2>2. ~StartsAUnit(v)
    BY <1>4, <2>1, BadCodepoint, Zenon
  <2>. QED
    BY <1>3, <1>7, <2>2, UnitErrs, Zenon
<1>8. CASE h \notin High \cup Low \cup {-1} /\ token_buffer' = token_buffer \o Utf8(h)
           /\ scanner' = "string"
  <2>1. Scalar(h)
    <3>1. h \notin High /\ h \notin Low /\ h # -1
      BY <1>8, Zenon
    <3>2. (h < 55296 \/ 56319 < h) /\ (h < 56320 \/ 57343 < h)
      BY <1>5, <3>1, SurrogatesAre, SMT
    <3>3. 0 <= h /\ h <= 1114111 /\ (h < 55296 \/ 57343 < h)
      BY <1>5, <3>1, <3>2, SMT
    <3>. QED
      BY <1>5, <3>3, ScalarIs, SMT
  <2>2. IsCodepoint(v)
    BY <1>4, <2>1, Zenon DEF IsCodepoint
  <2>3. Stands(v, h)
    BY <1>4, <2>2, CharacterCases, Zenon
  <2>4. token_buffer' = b \o Utf8(h)
    BY <1>2, <1>8, Zenon
  <2>. QED
    BY <1>3, <1>8, <2>3, <2>4, UnitEnds, Zenon
<1>. QED
  <2>1. \/ h \in High /\ codepoint1' = h /\ scanner' = "pair" /\ token_buffer' = token_buffer
        \/ h \in Low \cup {-1} /\ Return(Error)
        \/ h \notin High \cup Low \cup {-1} /\ token_buffer' = token_buffer \o Utf8(h) /\ scanner' = "string"
    BY Zenon DEF UnicodeEscape, h
  <2>. QED
    BY <1>6, <1>7, <1>8, <2>1, Zenon

LEMMA PairEscapeStep ==
    ASSUME ReadInv, StringInv, NEW c \in Chars, PairEscape(c)
    PROVE  StringInv'
<1>. DEFINE u == Current
            v == Append(Current, c)
            b == Finished
            n == Len(read) - 1
            h == codepoint1
<1>0. c \in Int /\ scanner \in {"pair", "pair u"} /\ Joins(c) /\ token_buffer' = token_buffer
      /\ codepoint1' = h
  BY InputType, Zenon DEF PairEscape
<1>1. scanner \in StringLabels \ {"string"} /\ scanner # "bytes"
  BY <1>0, StringLabelsAre, Zenon
<1>2. Partial(scanner, u, ranges, h) /\ token_buffer = b /\ u \in Seq(Int)
  BY <1>1, InAUnit, Zenon
<1>3. UnitIs(n, v, b)
  BY <1>0, <1>1, JoinsIs, Zenon
<1>4. v \in Seq(Int) /\ Len(v) = Len(u) + 1 /\ v[Len(u) + 1] = c
      /\ \A i \in 1 .. Len(u) : v[i] = u[i]
  <2>1. v = Append(u, c)
    OBVIOUS
  <2>. HIDE DEF u, v
  <2>2. /\ Append(u, c) \in Seq(Int) /\ Len(Append(u, c)) = Len(u) + 1
        /\ Append(u, c)[Len(u) + 1] = c /\ \A i \in 1 .. Len(u) : Append(u, c)[i] = u[i]
    <3>1. u \in Seq(Int) /\ c \in Int
      BY <1>0, <1>2
    <3>. QED
      BY <3>1, Appended
  <2>. QED
    BY <2>1, <2>2, Zenon
<1>. HIDE DEF u, v, b, n, h
<1>5. Escaped(u, h) /\ (scanner = "pair" => Len(u) = 6) /\ (scanner = "pair u" => Len(u) = 7
      /\ u[7] = Backslash)
  BY <1>0, <1>2, Zenon DEF Partial
<1>6. Len(v) >= 6 /\ (scanner = "pair" => Len(v) = 7 /\ v[7] = c)
      /\ (scanner = "pair u" => Len(v) = 8 /\ v[7] = Backslash /\ v[8] = c)
      /\ \A i \in 1 .. 6 : v[i] = u[i]
  <2>1. CASE scanner = "pair"
    <3>1. Len(u) = 6 /\ scanner # "pair u"
      BY <1>5, <2>1
    <3>. QED
      BY <1>4, <2>1, <3>1
  <2>2. CASE scanner = "pair u"
    <3>1. Len(u) = 7 /\ scanner # "pair" /\ u[7] = Backslash
      BY <1>5, <2>2
    <3>2. Len(v) = 8 /\ v[8] = c /\ v[7] = u[7] /\ \A i \in 1 .. 6 : v[i] = u[i]
      BY <1>4, <3>1
    <3>3. Len(v) >= 6
      BY <3>2
    <3>. QED
      BY <2>2, <3>1, <3>2, <3>3, Zenon
  <2>. QED
    BY <1>0, <2>1, <2>2
<1>7. Escaped(v, h)
  BY <1>5, <1>6, EscapedStill, Zenon
<1>8. ASSUME c # (IF scanner = "pair" THEN Backslash ELSE LetterU), Return(Error)
      PROVE  StringInv'
  <2>1. \/ Len(v) >= 7 /\ v[7] # Backslash
        \/ Len(v) >= 8 /\ v[8] # LetterU
    <3>1. CASE scanner = "pair"
      <4>1. Len(v) = 7 /\ v[7] # Backslash
        BY <1>6, <1>8, <3>1, Zenon
      <4>. QED
        BY <4>1
    <3>2. CASE scanner = "pair u"
      <4>0. "pair u" # "pair"
        OBVIOUS
      <4>1. Len(v) = 8 /\ v[8] # LetterU
        BY <1>6, <1>8, <3>2, <4>0, Zenon
      <4>. QED
        BY <4>1
    <3>. QED
      BY <1>0, <3>1, <3>2, Zenon
  <2>2. v[1] = Backslash /\ v[2] = LetterU /\ HexAt(v, 2) \in High
    BY <1>7, Zenon DEF Escaped
  <2>3. ~StartsAUnit(v)
    BY <1>4, <1>6, <2>1, <2>2, BadPair, Zenon
  <2>. QED
    BY <1>3, <1>8, <2>3, UnitErrs, Zenon
<1>9. CASE scanner = "pair" /\ c = Backslash /\ scanner' = "pair u"
  <2>1. Len(v) = 7 /\ v[7] = Backslash
    BY <1>6, <1>9, Zenon
  <2>2. Partial("pair u", v, ranges', codepoint1')
    <3>1. /\ "pair u" # "bytes" /\ "pair u" # "escape" /\ "pair u" # "u" /\ "pair u" # "pair"
          /\ "pair u" # "low"
      OBVIOUS
    <3>. QED
      BY <1>0, <1>7, <2>1, <3>1, Zenon DEF Partial
  <2>3. "pair u" \in StringLabels \ {"string"} /\ "pair u" # "bytes"
    BY StringLabelsAre, Zenon
  <2>4. token_buffer' = IF "pair u" = "bytes" THEN b \o v ELSE b
    BY <1>0, <1>2, <2>3, Zenon
  <2>. QED
    BY <1>3, <1>9, <2>2, <2>3, <2>4, UnitGoesOn, Zenon
<1>10. CASE scanner = "pair u" /\ c = LetterU /\ scanner' = "low"
  <2>1. Len(v) = 8 /\ v[7] = Backslash /\ v[8] = LetterU
    BY <1>6, <1>10, Zenon
  <2>2. Partial("low", v, ranges', codepoint1')
    <3>1. /\ "low" # "bytes" /\ "low" # "escape" /\ "low" # "u" /\ "low" # "pair"
          /\ "low" # "pair u"
      OBVIOUS
    <3>. QED
      BY <1>0, <1>7, <2>1, <3>1, Zenon DEF Partial
  <2>3. "low" \in StringLabels \ {"string"} /\ "low" # "bytes"
    BY StringLabelsAre, Zenon
  <2>4. token_buffer' = IF "low" = "bytes" THEN b \o v ELSE b
    BY <1>0, <1>2, <2>3, Zenon
  <2>. QED
    BY <1>3, <1>10, <2>2, <2>3, <2>4, UnitGoesOn, Zenon
<1>. QED
  <2>1. \/ /\ c = (IF scanner = "pair" THEN Backslash ELSE LetterU)
           /\ scanner' = (IF scanner = "pair" THEN "pair u" ELSE "low")
        \/ c # (IF scanner = "pair" THEN Backslash ELSE LetterU) /\ Return(Error)
    BY Zenon DEF PairEscape
  <2>2. "pair u" # "pair"
    OBVIOUS
  <2>. QED
    BY <1>0, <1>8, <1>9, <1>10, <2>1, <2>2, Zenon

LEMMA LowSurrogateStep ==
    ASSUME ReadInv, StringInv, NEW quad \in Quads, LowSurrogate(quad)
    PROVE  StringInv'
<1>. DEFINE u == Current
            v == Current \o quad
            b == Finished
            n == Len(read) - 1
            h == codepoint1
            l == Codepoint(quad)
<1>0. scanner = "low" /\ JoinsQuad(quad)
  BY Zenon DEF LowSurrogate
<1>1. scanner \in StringLabels \ {"string"} /\ "low" # "bytes"
  BY <1>0, StringLabelsAre, Zenon
<1>2. Partial("low", u, ranges, h) /\ token_buffer = b /\ u \in Seq(Int)
  <2>1. /\ Partial(scanner, u, ranges, h) /\ u \in Seq(Int)
        /\ token_buffer = IF scanner = "bytes" THEN b \o u ELSE b
    BY <1>1, InAUnit, Zenon
  <2>. QED
    BY <1>0, <1>1, <2>1, Zenon
<1>3. UnitIs(n, v, b)
  BY <1>0, <1>1, JoinsQuadIs, Zenon
<1>4. Len(u) = 8 /\ Escaped(u, h) /\ u[7] = Backslash /\ u[8] = LetterU
  BY <1>2, Zenon DEF Partial
<1>5. quad \in Seq(Int) /\ Len(quad) = 4 /\ 8 + 4 = 12 /\ 7 \in 1 .. 8 /\ 8 \in 1 .. 8
      /\ \A i \in 1 .. 6 : i \in 1 .. 8
  <2>1. quad \in Seq(Int) /\ Len(quad) = 4
    BY InputType, Zenon
  <2>2. 8 + 4 = 12 /\ 7 \in 1 .. 8 /\ 8 \in 1 .. 8 /\ \A i \in 1 .. 6 : i \in 1 .. 8
    OBVIOUS
  <2>. QED
    BY <2>1, <2>2, Zenon
<1>6. Joined(Int, u, quad, v)
  BY <1>2, <1>5, JoinedText, Zenon
<1>7. HexAt(v, 8) = l
  <2>1. HexAt(u \o quad, Len(u)) = Codepoint(quad)
    BY <1>2, HexAtQuad, Zenon
  <2>. QED
    BY <1>4, <2>1, Zenon
<1>. HIDE DEF u, v, b, n, h, l
<1>8. /\ v \in Seq(Int) /\ Len(v) = 12 /\ v[7] = Backslash /\ v[8] = LetterU
      /\ \A i \in 1 .. 6 : v[i] = u[i]
  BY <1>4, <1>5, <1>6, Zenon DEF Joined
<1>9. v[1] = Backslash /\ v[2] = LetterU /\ HexAt(v, 2) = h /\ h \in High
  <2>1. Escaped(v, h)
    BY <1>4, <1>8, EscapedStill, Zenon
  <2>. QED
    BY <2>1, Zenon DEF Escaped
<1>10. CASE /\ l \in Low /\ token_buffer' = token_buffer \o Utf8(Combined(h, l))
            /\ scanner' = "string"
  <2>1. IsPair(v)
    BY <1>7, <1>8, <1>9, <1>10, Zenon DEF IsPair
  <2>2. Stands(v, Combined(h, l))
    BY <1>7, <1>8, <1>9, <2>1, CharacterCases, Zenon
  <2>3. token_buffer' = b \o Utf8(Combined(h, l))
    BY <1>2, <1>10, Zenon
  <2>. QED
    BY <1>3, <1>10, <2>2, <2>3, UnitEnds, Zenon
<1>11. CASE l \notin Low /\ Return(Error)
  <2>1. Len(v) >= 6 /\ Len(v) >= 12
    BY <1>8
  <2>2. ~StartsAUnit(v)
    BY <1>7, <1>8, <1>9, <1>11, <2>1, BadPair, Zenon
  <2>. QED
    BY <1>3, <1>11, <2>2, UnitErrs, Zenon
<1>. QED
  BY <1>10, <1>11, Zenon DEF LowSurrogate, h, l

(* No other token begins with a quote.                                     *)
LEMMA BegunFirst ==
    ASSUME NEW l, NEW w, NEW n, Begun(l, w, n)
    PROVE  w[1] \in Digits \cup {Minus}
<1>1. ASSUME NEW i \in {0, 1}, NEW j, WholePart(w, i, j)
      PROVE  w[1] \in Digits \cup {Minus}
  <2>1. CASE i = 1
    BY <1>1, <2>1, Zenon DEF WholePart
  <2>2. CASE i = 0
    <3>1. j \in Nat /\ 0 + 1 <= j /\ IntegerAt(w, 0 + 1, j)
      BY <1>1, <2>2, Zenon DEF WholePart
    <3>2. 1 \in 0 + 1 .. j
      BY <3>1
    <3>. QED
      BY <3>1, <3>2, Zenon DEF IntegerAt, DigitsAt
  <2>. QED
    BY <2>1, <2>2
<1>2. ASSUME NEW i \in {0, 1}, NEW j, NEW k, Fractional(w, i, j, k)
      PROVE  w[1] \in Digits \cup {Minus}
  <2>1. WholePart(w, i, j)
    BY <1>2, Zenon DEF Fractional
  <2>. QED
    BY <1>1, <2>1, Zenon
<1>. QED
  BY <1>1, <1>2, Zenon DEF Begun

LEMMA OthersFirst ==
    ASSUME ReadInv, NumberInv, scanner \in NumberLabels \cup {"literal"}
    PROVE  read \in Seq(Units) /\ Len(read) = 1 /\ read[1][1] # Quote
<1>1. read \in Seq(Units) /\ Len(read) = 1
  BY Zenon DEF ReadInv
<1>2. CASE scanner = "literal"
  <2>1. read[1][1] \in DOMAIN Literals
    BY <1>2, Zenon DEF ReadInv
  <2>2. Quote \notin DOMAIN Literals
    BY DEF Literals, Quote
  <2>. QED
    BY <1>1, <2>1, <2>2, Zenon
<1>3. CASE scanner \in NumberLabels
  <2>1. Begun(scanner, read[1], Len(read[1]))
    BY <1>3, Zenon DEF NumberInv, NumberRead
  <2>2. read[1][1] \in Digits \cup {Minus}
    BY <2>1, BegunFirst, Zenon
  <2>3. Quote \notin Digits \cup {Minus}
    BY DEF Quote, Digits, Minus
  <2>. QED
    BY <1>1, <2>2, <2>3, Zenon
<1>. QED
  BY <1>2, <1>3, Zenon

LEMMA OthersStep ==
    ASSUME ReadInv, NumberInv, scanner \in NumberLabels \cup {"literal"},
           scanner' \in NumberLabels \cup {"literal", "scanned"},
           (\E c \in Int : Joins(c)) \/ read' = read
    PROVE  StringInv'
<1>1. read \in Seq(Units) /\ Len(read) = 1 /\ read[1][1] # Quote
  BY OthersFirst, Zenon
<1>2. read'[1][1] # Quote
  <2>1. CASE read' = read
    BY <1>1, <2>1, Zenon
  <2>2. CASE \E c \in Int : Joins(c)
    <3>1. PICK c \in Int : Joins(c)
      BY <2>2
    <3>2. Len(read) >= 1
      BY <1>1
    <3>3. read' \in Seq(Units) /\ Len(read') = 1 /\ read'[1] = Append(read[1], c)
      BY <1>1, <3>1, <3>2, JoinsLast
    <3>4. read[1] \in Seq(Int) /\ Len(read[1]) \in Nat \ {0}
      BY <1>1, FirstUnit
    <3>5. Append(read[1], c)[1] = read[1][1]
      <4>1. 1 \in 1 .. Len(read[1])
        BY <3>4
      <4>. QED
        BY <3>1, <3>4, <4>1, Appended
    <3>. QED
      BY <1>1, <3>3, <3>5, Zenon
  <2>. QED
    BY <2>1, <2>2
<1>3. read'[1] # <<Quote>>
  <2>1. <<Quote>>[1] = Quote
    OBVIOUS
  <2>. QED
    BY <1>2, <2>1, Zenon
<1>4. CASE scanner' = "scanned"
  <2>1. TokenRight(read', token')
    BY <1>3, Zenon DEF TokenRight
  <2>. QED
    BY <1>4, <2>1, Scanned
<1>5. CASE scanner' \in NumberLabels \cup {"literal"}
  <2>1. scanner' \notin StartLabels /\ scanner' \notin StringLabels /\ scanner' # "scanned"
    <3>1. "scanned" \notin NumberLabels \cup {"literal"}
      BY LabelsAre
    <3>. QED
      BY <1>5, <3>1, LabelsApart, Zenon
  <2>2. scanner' # "string"
    BY <2>1, LabelsApart, Zenon
  <2>. QED
    BY <2>1, <2>2, Zenon DEF StringInv, StringRead
<1>. QED
  BY <1>4, <1>5

-----------------------------------------------------------------------------
LEMMA StringInvInit == LexerInit => StringInv
<1>1. {"bom", "scan"} \subseteq StartLabels
  BY DEF StartLabels
<1>2. "scanned" \notin StartLabels
  BY DEF StartLabels
<1>. QED
  BY <1>1, <1>2, LabelsApart, Zenon DEF LexerInit, StringInv, StringRead

(* At the first character of a token.                                      *)
LEMMA StartStep ==
    ASSUME ReadInv, StringInv, NEW c \in Chars, SkipBom(c) \/ Dispatch(c)
    PROVE  StringInv'
<1>1. scanner \in StartLabels /\ c \in Int
  BY InputType, Zenon DEF SkipBom, Dispatch, StartLabels
<1>2. read = <<>> /\ token_buffer = <<>>
  BY <1>1, Zenon DEF ReadInv, StringInv
<1>3. CASE read' = read /\ scanner' = "scanned"
  <2>1. TokenRight(read', token')
    BY <1>2, <1>3, Zenon DEF TokenRight
  <2>. QED
    BY <1>3, <2>1, Scanned
<1>4. CASE scanner' \in StartLabels /\ token_buffer' = token_buffer
  <2>1. scanner' \notin StringLabels /\ scanner' # "scanned" /\ scanner' # "string"
    BY <1>4, LabelsApart, Zenon
  <2>. QED
    BY <1>2, <1>4, <2>1, Zenon DEF StringInv, StringRead
<1>5. CASE scanner' \in NumberLabels \cup {"literal"}
  <2>1. scanner' \notin StartLabels /\ scanner' \notin StringLabels /\ scanner' # "scanned"
    <3>1. "scanned" \notin NumberLabels \cup {"literal"}
      BY LabelsAre
    <3>. QED
      BY <1>5, <3>1, LabelsApart, Zenon
  <2>2. scanner' # "string"
    BY <2>1, LabelsApart, Zenon
  <2>. QED
    BY <2>1, <2>2, Zenon DEF StringInv, StringRead
<1>6. CASE scanner' = "string" /\ Starts(c) /\ token_buffer' = token_buffer
  <2>. DEFINE r == read'
  <2>1. r = <<<<c>>>>
    BY <1>2, <1>6 DEF Starts
  <2>. HIDE DEF r
  <2>2. Len(r) = 1
    BY <2>1
  <2>3. Complete(r, 1)
    BY DEF Complete
  <2>4. BytesOf(r, 1) = <<>>
    <3>. DEFINE f == [i \in 1 .. 1 - 1 |-> Utf8(CharacterOf(r[i + 1]))]
    <3>1. f = <<>>
      OBVIOUS
    <3>. HIDE DEF f
    <3>2. FlattenSeq(f) = <<>>
      BY <3>1, FlattenNone, Zenon
    <3>. QED
      BY <3>2, Zenon DEF BytesOf, f
  <2>5. StringRead("string", r, ranges', codepoint1', token_buffer')
    <3>1. "string" \notin StringLabels \ {"string"}
      OBVIOUS
    <3>. QED
      BY <1>2, <1>6, <2>2, <2>3, <2>4, <3>1, Zenon DEF StringRead
  <2>6. StringRead(scanner', read', ranges', codepoint1', token_buffer')
    BY <1>6, <2>5, Zenon DEF r
  <2>7. scanner' \notin StartLabels /\ scanner' # "scanned"
    BY <1>6, LabelsApart, Zenon
  <2>. QED
    BY <2>6, <2>7, Zenon DEF StringInv
<1>7. CASE SkipBom(c)
  <2>1. read' = read /\ token_buffer' = token_buffer
        /\ scanner' \in {"bom 2", "bom 3", "scan", "scanned"}
    BY <1>7, Zenon DEF SkipBom, Return
  <2>2. scanner' \in StartLabels \/ scanner' = "scanned"
    BY <2>1 DEF StartLabels
  <2>. QED
    BY <1>3, <1>4, <2>1, <2>2
<1>8. CASE Dispatch(c)
  <2>1. \/ read' = read /\ scanner' = "scanned"
        \/ scanner' = "scan" /\ token_buffer' = token_buffer
        \/ scanner' = "string" /\ Starts(c) /\ token_buffer' = token_buffer
        \/ scanner' \in {"literal", "minus", "zero", "any1"}
    BY <1>8, ZenonT(30) DEF Dispatch, Return
  <2>2. /\ "scan" \in StartLabels
        /\ \A l \in {"literal", "minus", "zero", "any1"} : l \in NumberLabels \cup {"literal"}
    BY LabelsAre DEF StartLabels
  <2>. QED
    BY <1>3, <1>4, <1>5, <1>6, <2>1, <2>2, Zenon
<1>. QED
  BY <1>7, <1>8

LEMMA StringInvStep ==
    ASSUME ReadInv, NumberInv, StringInv, LexerNext
    PROVE  StringInv'
<1>1. ASSUME NEW c \in Chars, LiteralChar(c)
      PROVE  StringInv'
  <2>1. scanner = "literal" /\ Joins(c) /\ scanner' \in {"literal", "scanned"} /\ c \in Int
    BY <1>1, InputType, Zenon DEF LiteralChar, Return
  <2>. QED
    BY <2>1, OthersStep, Zenon
<1>2. ASSUME NEW c \in Chars, NumberChar(c)
      PROVE  StringInv'
  <2>1. scanner \in NumberLabels /\ Joins(c) /\ c \in Int
    BY <1>2, InputType, Zenon DEF NumberChar
  <2>2. scanner' \in NumberLabels
    <3>1. PICK g \in Gotos : scanner' = g[3]
      BY <1>2, Zenon DEF NumberChar
    <3>2. \A x \in Gotos : x[3] \in NumberLabels
      BY LabelsAre DEF Gotos, IntegerGotos, FractionGotos, ExponentGotos
    <3>. QED
      BY <3>1, <3>2, Zenon
  <2>. QED
    BY <2>1, <2>2, OthersStep, Zenon
<1>3. ASSUME NEW c \in Chars, NumberEnds(c)
      PROVE  StringInv'
  <2>1. /\ scanner \in NumberLabels /\ scanner' = "scanned" /\ c \in Int
        /\ Joins(c) \/ read' = read
    BY <1>3, InputType, Zenon DEF NumberEnds, Return
  <2>. QED
    BY <2>1, OthersStep, Zenon
<1>. QED
  BY <1>1, <1>2, <1>3, StartStep, StringCharStep, NextByteStep, EscapeStep, PairEscapeStep,
     UnicodeEscapeStep, LowSurrogateStep, Zenon DEF LexerNext

(* Every run: a string token is made of characters only, and its value is  *)
(* the UTF-8 of what they stand for; an error is the beginning of no       *)
(* character (scan_string, get_codepoint, next_byte_in_range).             *)
THEOREM StringsAsWritten == LexerSpec => []StringAsWritten
<1>. DEFINE Inv == ReadInv /\ NumberInv /\ StringInv
<1>1. LexerInit => Inv
  BY ReadInvInit, NumberInvInit, StringInvInit
<1>2. Inv /\ [LexerNext]_lexerVars => Inv'
  <2>1. ASSUME Inv, LexerNext
        PROVE  Inv'
    BY <2>1, ReadInvStep, NumberInvStep, StringInvStep
  <2>2. ASSUME Inv, UNCHANGED lexerVars
        PROVE  Inv'
    BY <2>2, Zenon DEF lexerVars, ReadInv, NumberInv, NumberRead, NumberAsWritten, ReadsANumber,
                       StringInv
  <2>. QED
    BY <2>1, <2>2
<1>3. Inv => StringAsWritten
  BY Zenon DEF StringInv, TokenRight, StringAsWritten, Complete, BytesOf
<1>. QED
  BY <1>1, <1>2, <1>3, PTL DEF LexerSpec

(***************************************************************************)
(* The serializer: dump_escaped and dump_integer.                          *)
(***************************************************************************)

(* The encodings of code points, and what is written of each.              *)
OneByte(u) == Len(u) = 1 /\ u[1] \in 0 .. 127
Codes == {u \in Seq(Int) : OneByte(u) \/ Encoding(u)}
Shown(u) == IF Len(u) = 1 THEN WrittenAs(u[1], u[1]) ELSE u

LEMMA Utf8IsCode ==
    ASSUME NEW u \in Seq(Int)
    PROVE  IsUtf8(u) <=> u \in Codes
<1>1. ASSUME IsUtf8(u)
      PROVE  u \in Codes
  <2>. DEFINE n == Decoded(u)
  <2>1. Len(u) \in 1 .. 4 /\ Scalar(n) /\ Utf8(n) = u
    BY <1>1, Zenon DEF IsUtf8
  <2>2. n \in Int
    BY <2>1, DecodedType
  <2>. HIDE DEF n
  <2>3. CASE n >= 128
    <3>1. Encoding(Utf8(n))
      BY <2>1, <2>2, <2>3, Utf8IsEncoding, Zenon
    <3>. QED
      BY <2>1, <3>1, Zenon DEF Codes
  <2>4. CASE n < 128
    <3>1. Utf8(n) = <<n>> /\ n >= 0
      BY <2>1, <2>2, <2>4, Utf8Is, ScalarIs, SMT
    <3>2. Len(u) = 1 /\ u[1] = n
      BY <2>1, <2>2, <3>1, OneElement, Zenon
    <3>3. n \in 0 .. 127
      BY <2>2, <2>4, <3>1
    <3>. QED
      BY <3>2, <3>3, Zenon DEF Codes, OneByte
  <2>. QED
    BY <2>2, <2>3, <2>4, SMT
<1>2. ASSUME OneByte(u)
      PROVE  IsUtf8(u)
  <2>. DEFINE n == u[1]
  <2>1. n \in Int /\ n >= 0 /\ n < 128 /\ Len(u) = 1
    <3>1. \A c \in 0 .. 127 : c \in Int /\ c >= 0 /\ c < 128
      OBVIOUS
    <3>. QED
      BY <1>2, <3>1, Zenon DEF OneByte
  <2>2. u = <<n>> /\ Decoded(u) = n
    BY <2>1, SMT DEF Decoded
  <2>. HIDE DEF n
  <2>3. Utf8(n) = <<n>> /\ Scalar(n)
    BY <2>1, Utf8Is, ScalarIs, SMT
  <2>4. Len(u) \in 1 .. 4
    BY <2>1
  <2>. QED
    BY <2>2, <2>3, <2>4, Zenon DEF IsUtf8
<1>3. ASSUME Encoding(u)
      PROVE  IsUtf8(u)
  BY <1>3, PlainIs, Zenon DEF IsPlain
<1>. QED
  BY <1>1, <1>2, <1>3, Zenon DEF Codes

(* How long one is its first byte tells.                                   *)
LEMMA CodeLength ==
    ASSUME NEW u \in Codes
    PROVE  /\ u \in Seq(Int) /\ Len(u) \in 1 .. 4
           /\ u[1] \in 0 .. 127 => Len(u) = 1
           /\ u[1] \in 194 .. 244 => Encoding(u) /\ Len(u) = 1 + Extra(u[1])
           /\ u[1] \in (0 .. 127) \cup (194 .. 244)
<1>1. u \in Seq(Int) /\ (OneByte(u) \/ Encoding(u))
  BY DEF Codes
<1>2. \A c \in 194 .. 244 : c \notin 0 .. 127 /\ Extra(c) \in 1 .. 3
  BY DEF Extra
<1>3. CASE OneByte(u)
  <2>1. Len(u) = 1 /\ u[1] \in 0 .. 127
    BY <1>3 DEF OneByte
  <2>2. u[1] \notin 194 .. 244
    BY <1>2, <2>1, Zenon
  <2>3. Len(u) \in 1 .. 4
    BY <2>1
  <2>. QED
    BY <1>1, <2>1, <2>2, <2>3, Zenon
<1>4. CASE Encoding(u)
  <2>1. u[1] \in 194 .. 244 /\ Len(u) = 1 + Extra(u[1])
    BY <1>4, Zenon DEF Encoding
  <2>2. u[1] \notin 0 .. 127 /\ Extra(u[1]) \in 1 .. 3
    <3>. DEFINE c == u[1]
    <3>1. c \in 194 .. 244
      BY <2>1
    <3>. HIDE DEF c
    <3>2. c \notin 0 .. 127
      BY <3>1
    <3>3. Extra(c) \in 1 .. 3
      BY <1>2, <3>1
    <3>. QED
      BY <3>2, <3>3 DEF c
  <2>3. Len(u) \in 1 .. 4
    BY <2>1, <2>2
  <2>. QED
    BY <1>1, <1>4, <2>1, <2>2, <2>3, Zenon
<1>. QED
  BY <1>1, <1>3, <1>4, Zenon

(* The escapes dump_escaped writes: a letter, or four digits.              *)
Named == {8, 9, 10, 12, 13, Quote, Backslash}
Coded == 0 .. 31 \ {8, 9, 10, 12, 13}
LetterOf(n) == CHOOSE e \in DOMAIN Escapes : Escapes[e] = n
DigitsOf(n) == <<48, 48, Hex(n \div 16), Hex(n % 16)>>

LEMMA WrittenIs ==
    ASSUME NEW n \in 0 .. 127
    PROVE  /\ n \in Named => WrittenAs(n, n) = <<Backslash, LetterOf(n)>>
           /\ n \in Coded => WrittenAs(n, n) = <<Backslash, LetterU>> \o DigitsOf(n)
           /\ n \notin Named \cup Coded => WrittenAs(n, n) = <<n>> /\ n \in PlainChars
<1>1. Named \cap Coded = {}
  BY DEF Named, Coded, Quote, Backslash
<1>2. CASE n \in Named
  <2>1. WrittenAs(n, n) = <<Backslash, LetterOf(n)>>
    BY <1>1, <1>2, Zenon DEF WrittenAs, LetterOf, Named, Coded
  <2>. QED
    BY <1>1, <1>2, <2>1
<1>3. CASE n \in Coded
  <2>1. WrittenAs(n, n) = <<Backslash, LetterU, 48, 48, Hex(n \div 16), Hex(n % 16)>>
    BY <1>1, <1>3, Zenon DEF WrittenAs, Named, Coded
  <2>2. <<Backslash, LetterU, 48, 48, Hex(n \div 16), Hex(n % 16)>>
          = <<Backslash, LetterU>> \o DigitsOf(n)
    BY DEF DigitsOf
  <2>. QED
    BY <1>1, <1>3, <2>1, <2>2
<1>4. CASE n \notin Named \cup Coded
  <2>1. WrittenAs(n, n) = <<n>>
    BY <1>4, Zenon DEF WrittenAs, Named, Coded
  <2>2. n \in PlainChars
    BY <1>4 DEF Named, Coded, PlainChars
  <2>. QED
    BY <1>4, <2>1, <2>2
<1>. QED
  BY <1>2, <1>3, <1>4, Zenon

LEMMA NamedIs ==
    ASSUME NEW n \in Named
    PROVE  LetterOf(n) \in DOMAIN Escapes /\ Escapes[LetterOf(n)] = n /\ LetterOf(n) \in Int
<1>1. \E e \in DOMAIN Escapes : Escapes[e] = n
  <2>1. Escapes[98] = 8 /\ Escapes[116] = 9 /\ Escapes[110] = 10 /\ Escapes[102] = 12
        /\ Escapes[114] = 13 /\ Escapes[34] = Quote /\ Escapes[92] = Backslash
        /\ {98, 116, 110, 102, 114, 34, 92} \subseteq DOMAIN Escapes
    BY DEF Escapes, Quote, Backslash, Solidus
  <2>. QED
    BY <2>1 DEF Named
<1>2. LetterOf(n) \in DOMAIN Escapes /\ Escapes[LetterOf(n)] = n
  BY <1>1, Zenon DEF LetterOf
<1>3. DOMAIN Escapes \subseteq Int
  BY DEF Escapes, Quote, Backslash, Solidus
<1>. QED
  BY <1>2, <1>3, Zenon

LEMMA CodedIs ==
    ASSUME NEW n \in Coded
    PROVE  /\ DigitsOf(n) \in Seq(Int) /\ Len(DigitsOf(n)) = 4
           /\ Codepoint(DigitsOf(n)) = n
<1>. DEFINE a == n \div 16
            b == n % 16
<1>1. n \in Int /\ a \in 0 .. 1 /\ b \in 0 .. 15 /\ n = 16 * a + b
  BY DEF Coded
<1>2. DigitsOf(n) = <<48, 48, Hex(a), Hex(b)>>
  BY DEF DigitsOf
<1>. HIDE DEF a, b
<1>3. Hex(a) = 48 + a /\ Hex(b) = IF b < 10 THEN 48 + b ELSE 87 + b
  BY <1>1 DEF Hex
<1>. DEFINE x == Hex(a)
            y == Hex(b)
            q == DigitsOf(n)
<1>4. x \in Int /\ y \in Int /\ x = 48 + a
      /\ (b < 10 => y = 48 + b) /\ (b >= 10 => y = 87 + b)
  BY <1>1, <1>3
<1>5. q = <<48, 48, x, y>>
  BY <1>2
<1>. HIDE DEF x, y, q
<1>6. q \in Seq(Int) /\ Len(q) = 4 /\ q[1] = 48 /\ q[2] = 48 /\ q[3] = x /\ q[4] = y
  BY <1>4, <1>5
<1>7. Codepoint(q) = n
  <2>. DEFINE Digit(c) == CASE c \in 48 .. 57  -> c - 48
                            [] c \in 65 .. 70  -> c - 55
                            [] c \in 97 .. 102 -> c - 87
                            [] OTHER           -> -1
  <2>1. Codepoint(q) = IF \E i \in 1 .. 4 : Digit(q[i]) = -1 THEN -1
                       ELSE 4096 * Digit(q[1]) + 256 * Digit(q[2]) + 16 * Digit(q[3]) + Digit(q[4])
    BY DEF Codepoint
  <2>2. Digit(48) = 0
    OBVIOUS
  <2>3. Digit(x) = a
    <3>1. x \in 48 .. 57 /\ x - 48 = a
      BY <1>1, <1>4
    <3>. QED
      BY <3>1
  <2>4. Digit(y) = b
    <3>1. CASE b < 10
      <4>1. y \in 48 .. 57 /\ y - 48 = b
        BY <1>1, <1>4, <3>1
      <4>. QED
        BY <4>1
    <3>2. CASE b >= 10
      <4>1. y \in 97 .. 102 /\ y \notin 48 .. 57 /\ y \notin 65 .. 70 /\ y - 87 = b
        BY <1>1, <1>4, <3>2
      <4>. QED
        BY <4>1
    <3>. QED
      BY <1>1, <3>1, <3>2
  <2>. HIDE DEF Digit
  <2>5. Digit(q[1]) = 0 /\ Digit(q[2]) = 0 /\ Digit(q[3]) = a /\ Digit(q[4]) = b
    BY <1>6, <2>2, <2>3, <2>4, Zenon
  <2>6. ~\E i \in 1 .. 4 : Digit(q[i]) = -1
    <3>1. \A i \in 1 .. 4 : i = 1 \/ i = 2 \/ i = 3 \/ i = 4
      OBVIOUS
    <3>2. 0 # -1 /\ a # -1 /\ b # -1
      BY <1>1
    <3>. QED
      BY <2>5, <3>1, <3>2, Zenon
  <2>7. Codepoint(q) = 4096 * 0 + 256 * 0 + 16 * a + b
    <3>1. \A k, l, o, p : k = 0 /\ l = 0 /\ o = a /\ p = b =>
             4096 * k + 256 * l + 16 * o + p = 4096 * 0 + 256 * 0 + 16 * a + b
      OBVIOUS
    <3>. QED
      BY <2>1, <2>5, <2>6, <3>1, SMT
  <2>. QED
    BY <1>1, <2>7
<1>. QED
  BY <1>6, <1>7 DEF q

LEMMA ShownType ==
    ASSUME NEW u \in Codes
    PROVE  Shown(u) \in Seq(Int) /\ (Len(u) # 1 => Shown(u) = u)
<1>1. u \in Seq(Int)
  BY CodeLength, Zenon
<1>2. CASE Len(u) # 1
  BY <1>1, <1>2, Zenon DEF Shown
<1>3. CASE Len(u) = 1
  <2>. DEFINE n == u[1]
  <2>1. n \in 0 .. 127
    <3>1. OneByte(u) \/ Encoding(u)
      BY DEF Codes
    <3>2. \A c \in 194 .. 244 : 1 + Extra(c) # 1
      BY DEF Extra
    <3>3. ~Encoding(u)
      BY <1>3, <3>2, Zenon DEF Encoding
    <3>. QED
      BY <3>1, <3>3, Zenon DEF OneByte
  <2>2. Shown(u) = WrittenAs(n, n)
    BY <1>3, Zenon DEF Shown
  <2>. HIDE DEF n
  <2>3. WrittenAs(n, n) \in Seq(Int)
    <3>1. CASE n \in Named
      <4>1. WrittenAs(n, n) = <<Backslash, LetterOf(n)>> /\ LetterOf(n) \in Int
        BY <2>1, <3>1, WrittenIs, NamedIs, Zenon
      <4>2. Backslash \in Int
        BY DEF Backslash
      <4>. QED
        BY <4>1, <4>2
    <3>2. CASE n \in Coded
      <4>1. WrittenAs(n, n) = <<Backslash, LetterU>> \o DigitsOf(n) /\ DigitsOf(n) \in Seq(Int)
        BY <2>1, <3>2, WrittenIs, CodedIs, Zenon
      <4>2. <<Backslash, LetterU>> \in Seq(Int)
        BY DEF Backslash, LetterU
      <4>. QED
        BY <4>1, <4>2, JoinedText, Zenon
    <3>3. CASE n \notin Named \cup Coded
      <4>1. WrittenAs(n, n) = <<n>>
        BY <2>1, <3>3, WrittenIs, Zenon
      <4>2. n \in Int
        BY <2>1
      <4>. QED
        BY <4>1, <4>2
    <3>. QED
      BY <3>1, <3>2, <3>3, Zenon
  <2>. QED
    BY <1>3, <2>2, <2>3, Zenon
<1>. QED
  BY <1>2, <1>3, Zenon

(* A text, and what is written of it.                                      *)
Each(us) == [i \in 1 .. Len(us) |-> Shown(us[i])]
Spelled(t, w) == \E us \in Seq(Codes) : t = FlattenSeq(us) /\ w = FlattenSeq(Each(us))

LEMMA EachIs ==
    ASSUME NEW us \in Seq(Codes)
    PROVE  /\ us \in Seq(Seq(Int)) /\ Each(us) \in Seq(Seq(Int)) /\ Len(Each(us)) = Len(us)
           /\ \A i \in 1 .. Len(us) : Each(us)[i] = Shown(us[i])
<1>1. \A i \in 1 .. Len(us) : us[i] \in Codes
  BY ElementOfSeq
<1>. DEFINE S == Seq(Int)
<1>2. \A i \in 1 .. Len(us) : us[i] \in S /\ Shown(us[i]) \in S
  BY <1>1, CodeLength, ShownType, Zenon
<1>3. Len(us) \in Nat /\ us = [i \in 1 .. Len(us) |-> us[i]]
  BY AsFunction
<1>. DEFINE f(i) == us[i]
            g(i) == Shown(us[i])
            n == Len(us)
<1>4. (\A i \in 1 .. n : f(i) \in S /\ g(i) \in S) /\ n \in Nat
  BY <1>2, <1>3
<1>. HIDE DEF S, f, g, n
<1>5. /\ [i \in 1 .. n |-> f(i)] \in Seq(S)
      /\ [i \in 1 .. n |-> g(i)] \in Seq(S) /\ Len([i \in 1 .. n |-> g(i)]) = n
  BY <1>4
<1>6. [i \in 1 .. n |-> f(i)] = us /\ [i \in 1 .. n |-> g(i)] = Each(us)
  BY <1>3, Zenon DEF f, g, n, Each
<1>7. \A i \in 1 .. n : Each(us)[i] = g(i)
  BY <1>6, Zenon
<1>. QED
  BY <1>5, <1>6, <1>7, Zenon DEF S, g, n

LEMMA SpelledType ==
    ASSUME NEW t, NEW w, Spelled(t, w)
    PROVE  t \in Seq(Int) /\ w \in Seq(Int)
<1>1. PICK us \in Seq(Codes) : t = FlattenSeq(us) /\ w = FlattenSeq(Each(us))
  BY Zenon DEF Spelled
<1>2. us \in Seq(Seq(Int)) /\ Each(us) \in Seq(Seq(Int))
  BY EachIs, Zenon
<1>. QED
  BY <1>1, <1>2, FlattenType, Zenon

LEMMA SpelledNone == Spelled(<<>>, <<>>)
<1>1. <<>> \in Seq(Codes)
  OBVIOUS
<1>2. Each(<<>>) = <<>>
  <2>1. Len(Each(<<>>)) = 0 /\ Each(<<>>) \in Seq(Seq(Int))
    BY <1>1, EachIs
  <2>. QED
    BY <2>1, EmptySeq
<1>. QED
  BY <1>1, <1>2, FlattenNone, Zenon DEF Spelled

LEMMA SpelledMore ==
    ASSUME NEW t, NEW w, Spelled(t, w), NEW u \in Codes
    PROVE  Spelled(t \o u, w \o Shown(u))
<1>1. PICK us \in Seq(Codes) : t = FlattenSeq(us) /\ w = FlattenSeq(Each(us))
  BY Zenon DEF Spelled
<1>. DEFINE vs == Append(us, u)
            n == Len(us)
<1>2. /\ vs \in Seq(Codes) /\ Len(vs) = n + 1 /\ n \in Nat /\ vs[n + 1] = u
      /\ \A i \in 1 .. n : vs[i] = us[i]
  BY Appended
<1>3. /\ us \in Seq(Seq(Int)) /\ Each(us) \in Seq(Seq(Int)) /\ Len(Each(us)) = n
      /\ \A i \in 1 .. n : Each(us)[i] = Shown(us[i])
  BY EachIs
<1>4. u \in Seq(Int) /\ Shown(u) \in Seq(Int)
  BY CodeLength, ShownType, Zenon
<1>5. FlattenSeq(vs) = FlattenSeq(us) \o u
  BY <1>3, <1>4, FlattenAppend, Zenon
<1>. HIDE DEF vs, n
<1>6. Each(vs) = Append(Each(us), Shown(u))
  <2>. DEFINE S == Seq(Int)
              a == Each(vs)
              b == Append(Each(us), Shown(u))
  <2>1. /\ a \in Seq(S) /\ Len(a) = n + 1
        /\ \A i \in 1 .. n + 1 : a[i] = Shown(vs[i])
    BY <1>2, EachIs
  <2>2. /\ b \in Seq(S) /\ Len(b) = n + 1 /\ b[n + 1] = Shown(u)
        /\ \A i \in 1 .. n : b[i] = Each(us)[i]
    <3>1. Each(us) \in Seq(S) /\ Shown(u) \in S
      BY <1>3, <1>4
    <3>. HIDE DEF S
    <3>. QED
      BY <1>3, <3>1, Appended
  <2>. HIDE DEF S, a, b
  <2>3. \A i \in 1 .. n + 1 : i = n + 1 \/ i \in 1 .. n
    BY <1>2
  <2>4. \A i \in 1 .. n + 1 : a[i] = b[i]
    BY <1>2, <1>3, <2>1, <2>2, <2>3, ZenonT(60)
  <2>5. a = b
    BY <2>1, <2>2, <2>4, SeqEqual
  <2>. QED
    BY <2>5 DEF a, b
<1>7. FlattenSeq(Each(vs)) = FlattenSeq(Each(us)) \o Shown(u)
  BY <1>3, <1>4, <1>6, FlattenAppend, Zenon
<1>. QED
  BY <1>1, <1>2, <1>5, <1>7, Zenon DEF Spelled, vs

(* The first of them.                                                      *)
HasFirst(t, w) ==
    \E u \in Codes : \E x, y : Spelled(x, y) /\ t = u \o x /\ w = Shown(u) \o y

LEMMA SpelledFirst ==
    ASSUME NEW t, NEW w, Spelled(t, w)
    PROVE  \/ t = <<>> /\ w = <<>>
           \/ HasFirst(t, w)
<1>1. PICK us \in Seq(Codes) : t = FlattenSeq(us) /\ w = FlattenSeq(Each(us))
  BY Zenon DEF Spelled
<1>2. /\ us \in Seq(Seq(Int)) /\ Each(us) \in Seq(Seq(Int)) /\ Len(Each(us)) = Len(us)
      /\ \A i \in 1 .. Len(us) : Each(us)[i] = Shown(us[i])
  BY EachIs
<1>3. CASE us = <<>>
  <2>1. Each(us) = <<>>
    BY <1>2, <1>3, EmptySeq
  <2>. QED
    BY <1>1, <1>3, <2>1, FlattenNone, Zenon
<1>4. CASE us # <<>>
  <2>. DEFINE u == Head(us)
              vs == Tail(us)
              n == Len(us)
  <2>1. /\ n \in Nat /\ n # 0 /\ n - 1 \in Nat /\ u = us[1] /\ u \in Codes
        /\ vs \in Seq(Codes) /\ Len(vs) = n - 1 /\ \A i \in 1 .. n - 1 : vs[i] = us[i + 1]
    BY <1>4, Shortened
  <2>2. Each(us) # <<>>
    BY <1>2, <2>1, EmptySeq
  <2>3. /\ t = u \o FlattenSeq(vs)
        /\ w = Head(Each(us)) \o FlattenSeq(Tail(Each(us)))
    BY <1>1, <1>2, <1>4, <2>2, FlattenHead
  <2>. DEFINE S == Seq(Int)
              a == Each(vs)
              b == Tail(Each(us))
  <2>4. /\ Head(Each(us)) = Each(us)[1]
        /\ b \in Seq(S) /\ Len(b) = n - 1 /\ \A i \in 1 .. n - 1 : b[i] = Each(us)[i + 1]
    <3>1. Each(us) \in Seq(S)
      BY <1>2
    <3>. HIDE DEF S
    <3>. QED
      BY <1>2, <2>2, <3>1, Shortened
  <2>. HIDE DEF u, vs, n
  <2>5. a \in Seq(S) /\ Len(a) = n - 1 /\ \A i \in 1 .. n - 1 : a[i] = Shown(vs[i])
    BY <2>1, EachIs
  <2>. HIDE DEF S, a, b
  <2>6. \A i \in 1 .. n - 1 : i + 1 \in 1 .. n
    BY <2>1
  <2>7. \A i \in 1 .. n - 1 : a[i] = b[i]
    BY <1>2, <2>1, <2>4, <2>5, <2>6, Zenon DEF n
  <2>8. a = b
    BY <2>4, <2>5, <2>7, SeqEqual
  <2>9. Head(Each(us)) = Shown(u)
    <3>1. 1 \in 1 .. n
      BY <2>1
    <3>. QED
      BY <1>2, <2>1, <2>4, <3>1, Zenon DEF n
  <2>10. Spelled(FlattenSeq(vs), FlattenSeq(Each(vs)))
    BY <2>1, Zenon DEF Spelled
  <2>. QED
    BY <2>1, <2>3, <2>8, <2>9, <2>10, Zenon DEF a, b, HasFirst
<1>. QED
  BY <1>3, <1>4, Zenon

-----------------------------------------------------------------------------
(* The decoder: what it expects in each of its states.                     *)
LEMMA ClassIs ==
    ASSUME NEW b \in 0 .. 255
    PROVE  /\ b \in 0 .. 127 => ClassOf(b) = 0
           /\ b \in 128 .. 143 => ClassOf(b) = 1
           /\ b \in 144 .. 159 => ClassOf(b) = 9
           /\ b \in 160 .. 191 => ClassOf(b) = 7
           /\ b \in 194 .. 223 => ClassOf(b) = 2
           /\ b = 224 => ClassOf(b) = 10
           /\ b \in 225 .. 239 /\ b # 237 => ClassOf(b) = 3
           /\ b = 237 => ClassOf(b) = 4
           /\ b = 240 => ClassOf(b) = 11
           /\ b \in 241 .. 243 => ClassOf(b) = 6
           /\ b = 244 => ClassOf(b) = 5
           /\ b \in 192 .. 193 \/ b \in 245 .. 255 => ClassOf(b) = 8
<1>1. ASSUME b \in 0 .. 127
      PROVE  ClassOf(b) = 0
  BY <1>1, SMT DEF ClassOf
<1>2. ASSUME b \in 128 .. 143
      PROVE  ClassOf(b) = 1
  BY <1>2, SMT DEF ClassOf
<1>3. ASSUME b \in 144 .. 159
      PROVE  ClassOf(b) = 9
  BY <1>3, SMT DEF ClassOf
<1>4. ASSUME b \in 160 .. 191
      PROVE  ClassOf(b) = 7
  BY <1>4, SMT DEF ClassOf
<1>5. ASSUME b \in 192 .. 193 \cup 245 .. 255
      PROVE  ClassOf(b) = 8
  BY <1>5, SMT DEF ClassOf
<1>6. ASSUME b \in 194 .. 223
      PROVE  ClassOf(b) = 2
  BY <1>6, SMT DEF ClassOf
<1>7. ASSUME b = 224
      PROVE  ClassOf(b) = 10
  BY <1>7, SMT DEF ClassOf
<1>8. ASSUME b \in 225 .. 236 \cup 238 .. 239
      PROVE  ClassOf(b) = 3
  BY <1>8, SMT DEF ClassOf
<1>9. ASSUME b = 237
      PROVE  ClassOf(b) = 4
  BY <1>9, SMT DEF ClassOf
<1>10. ASSUME b = 240
      PROVE  ClassOf(b) = 11
  BY <1>10, SMT DEF ClassOf
<1>11. ASSUME b \in 241 .. 243
      PROVE  ClassOf(b) = 6
  BY <1>11, SMT DEF ClassOf
<1>12. ASSUME b = 244
      PROVE  ClassOf(b) = 5
  BY <1>12, SMT DEF ClassOf
<1>. QED
  BY <1>1, <1>2, <1>3, <1>4, <1>5, <1>6, <1>7, <1>8, <1>9, <1>10, <1>11, <1>12, SMT

(* What the first byte of a code point leads to.                           *)
LEMMA FirstDecoded ==
    ASSUME NEW b \in 0 .. 255, utf8 = 0
    PROVE  LET s == NextUtf8(ClassOf(b)) IN
           /\ b \in 0 .. 127 => s = 0
           /\ b \in 194 .. 223 => s = 2
           /\ b = 224 => s = 4
           /\ b \in 225 .. 239 /\ b # 237 => s = 3
           /\ b = 237 => s = 5
           /\ b = 240 => s = 6
           /\ b \in 241 .. 243 => s = 7
           /\ b = 244 => s = 8
           /\ b \in 128 .. 193 \/ b \in 245 .. 255 => s = 1
<1>. DEFINE k == ClassOf(b)
<1>1. NextUtf8(k) = Row0[k + 1]
  BY SMT DEF NextUtf8
<1>2. /\ k = 0 => Row0[k + 1] = 0
      /\ k = 1 => Row0[k + 1] = 1
      /\ k = 2 => Row0[k + 1] = 2
      /\ k = 3 => Row0[k + 1] = 3
      /\ k = 4 => Row0[k + 1] = 5
      /\ k = 5 => Row0[k + 1] = 8
      /\ k = 6 => Row0[k + 1] = 7
      /\ k \in {7, 8, 9} => Row0[k + 1] = 1
      /\ k = 10 => Row0[k + 1] = 4
      /\ k = 11 => Row0[k + 1] = 6
  <2>. HIDE DEF k
  <2>. QED
    BY SMT DEF Row0
<1>3. /\ b \in 0 .. 127 => k = 0
      /\ b \in 194 .. 223 => k = 2
      /\ b = 224 => k = 10
      /\ b \in 225 .. 239 /\ b # 237 => k = 3
      /\ b = 237 => k = 4
      /\ b = 240 => k = 11
      /\ b \in 241 .. 243 => k = 6
      /\ b = 244 => k = 5
      /\ b \in 128 .. 193 \/ b \in 245 .. 255 => k \in {1, 7, 8, 9}
  <2>1. b \in 128 .. 193 => b \in 128 .. 143 \/ b \in 144 .. 159 \/ b \in 160 .. 191 \/ b \in 192 .. 193
    OBVIOUS
  <2>. QED
    BY <2>1, ClassIs, SMT
<1>. HIDE DEF k
<1>4. k \in {1, 7, 8, 9} => Row0[k + 1] = 1
  BY <1>2
<1>. DEFINE r == NextUtf8(k)
            q == Row0[k + 1]
<1>. HIDE DEF r, q
<1>6. /\ r = q
      /\ k = 0 => q = 0
      /\ k = 2 => q = 2
      /\ k = 3 => q = 3
      /\ k = 4 => q = 5
      /\ k = 5 => q = 8
      /\ k = 6 => q = 7
      /\ k = 10 => q = 4
      /\ k = 11 => q = 6
      /\ k \in {1, 7, 8, 9} => q = 1
  BY <1>1, <1>2, <1>4, Zenon DEF r, q
<1>5. /\ b \in 0 .. 127 => r = 0
      /\ b \in 194 .. 223 => r = 2
      /\ b = 224 => r = 4
      /\ b \in 225 .. 239 /\ b # 237 => r = 3
      /\ b = 237 => r = 5
      /\ b = 240 => r = 6
      /\ b \in 241 .. 243 => r = 7
      /\ b = 244 => r = 8
      /\ b \in 128 .. 193 \/ b \in 245 .. 255 => r = 1
  BY <1>3, <1>6
<1>. QED
  BY <1>5 DEF k, r

(* And a further one: the state tells within what it has to be.            *)
LowOf(s)  == IF s = 4 THEN 160 ELSE IF s = 6 THEN 144 ELSE 128
HighOf(s) == IF s = 5 THEN 159 ELSE IF s = 8 THEN 143 ELSE 191

LEMMA FurtherDecoded ==
    ASSUME NEW b \in 0 .. 255, utf8 \in 2 .. 8
    PROVE  LET s == NextUtf8(ClassOf(b)) IN
           IF b \in LowOf(utf8) .. HighOf(utf8)
             THEN s = IF utf8 = 2 THEN 0 ELSE IF utf8 \in 3 .. 5 THEN 2 ELSE 3
             ELSE s = 1
<1>. DEFINE k == ClassOf(b)
            s == utf8
<1>1. /\ k \in 0 .. 11
      /\ b \in 128 .. 143 <=> k = 1
      /\ b \in 144 .. 159 <=> k = 9
      /\ b \in 160 .. 191 <=> k = 7
  <2>1. \/ b \in 0 .. 127 \/ b \in 128 .. 143 \/ b \in 144 .. 159 \/ b \in 160 .. 191
        \/ b \in 192 .. 193 \/ b \in 194 .. 223 \/ b \in 224 .. 239 \/ b \in 240 .. 244 \/ b \in 245 .. 255
    OBVIOUS
  <2>. QED
    BY <2>1, ClassIs, SMT
<1>. HIDE DEF k
<1>2. NextUtf8(k) = CASE s = 2 /\ k \in {1, 7, 9} -> 0
      [] s = 3 /\ k \in {1, 7, 9} -> 2
      [] s = 4 /\ k = 7           -> 2
      [] s = 5 /\ k \in {1, 9}    -> 2
      [] s = 6 /\ k \in {7, 9}    -> 3
      [] s = 7 /\ k \in {1, 7, 9} -> 3
      [] s = 8 /\ k = 1           -> 3
      [] OTHER -> 1
  BY SMT DEF NextUtf8
<1>. HIDE DEF s
<1>3. s \in 2 .. 8
  BY DEF s
<1>4. /\ s = 2 => NextUtf8(k) = IF k \in {1, 7, 9} THEN 0 ELSE 1
      /\ s = 3 => NextUtf8(k) = IF k \in {1, 7, 9} THEN 2 ELSE 1
      /\ s = 4 => NextUtf8(k) = IF k = 7 THEN 2 ELSE 1
      /\ s = 5 => NextUtf8(k) = IF k \in {1, 9} THEN 2 ELSE 1
      /\ s = 6 => NextUtf8(k) = IF k \in {7, 9} THEN 3 ELSE 1
      /\ s = 7 => NextUtf8(k) = IF k \in {1, 7, 9} THEN 3 ELSE 1
      /\ s = 8 => NextUtf8(k) = IF k = 1 THEN 3 ELSE 1
  BY <1>2, <1>3, SMT
<1>. DEFINE r == NextUtf8(k)
<1>. HIDE DEF r
<1>5. IF b \in LowOf(s) .. HighOf(s)
        THEN r = IF s = 2 THEN 0 ELSE IF s \in 3 .. 5 THEN 2 ELSE 3
        ELSE r = 1
  BY <1>1, <1>3, <1>4, SMTT(60) DEF LowOf, HighOf, r
<1>. QED
  BY <1>5 DEF r, k, s

LEMMA MaskIs ==
    /\ Mask[0] = 255 /\ Mask[2] = 63 /\ Mask[3] = 31 /\ Mask[4] = 15 /\ Mask[5] = 7
    /\ Mask[6] = 3 /\ Mask[10] = 0 /\ Mask[11] = 0
<1>. DEFINE Halves(f) == f = [class \in 0 .. 11 |-> IF class = 0 THEN 255 ELSE f[class - 1] \div 2]
            G == [n \in 1 .. 11 |-> [m \in Nat |-> m \div 2]]
<1>1. \E f : Halves(f)
  <2>1. G \in [1 .. 11 -> [Nat -> Nat]] /\ 255 \in Nat /\ 11 \in Nat
    OBVIOUS
  <2>2. PICK f \in [0 .. 11 -> Nat] : Recursion(f, 11, 255, G)
    <3>. HIDE DEF G
    <3>. QED
      BY <2>1, RecursionExists
  <2>3. \A n \in 0 .. 11 : (IF n = 0 THEN 255 ELSE G[n][f[n - 1]])
                             = IF n = 0 THEN 255 ELSE f[n - 1] \div 2
    <3>. TAKE n \in 0 .. 11
    <3>1. n # 0 => n \in 1 .. 11 /\ n - 1 \in 0 .. 11
      OBVIOUS
    <3>2. n # 0 => f[n - 1] \in Nat
      BY <3>1
    <3>. QED
      BY <3>1, <3>2
  <2>4. f = [n \in 0 .. 11 |-> IF n = 0 THEN 255 ELSE G[n][f[n - 1]]]
    BY <2>2 DEF Recursion
  <2>. HIDE DEF G
  <2>5. Halves(f)
    BY <2>3, <2>4, Zenon
  <2>. QED
    BY <2>5
<1>2. Halves(Mask)
  BY <1>1, Zenon DEF Mask
<1>3. \A class \in 0 .. 11 : Mask[class] = IF class = 0 THEN 255 ELSE Mask[class - 1] \div 2
  BY <1>2, Zenon
<1>. HIDE DEF Halves
<1>4. Mask[0] = 255
  BY <1>3, SMT
<1>5. Mask[1] = 127
  <2>1. Mask[1] = Mask[1 - 1] \div 2
    BY <1>3, SMT
  <2>. QED
    BY <1>4, <2>1, SMT
<1>6. Mask[2] = 63
  <2>1. Mask[2] = Mask[2 - 1] \div 2
    BY <1>3, SMT
  <2>. QED
    BY <1>5, <2>1, SMT
<1>7. Mask[3] = 31
  <2>1. Mask[3] = Mask[3 - 1] \div 2
    BY <1>3, SMT
  <2>. QED
    BY <1>6, <2>1, SMT
<1>8. Mask[4] = 15
  <2>1. Mask[4] = Mask[4 - 1] \div 2
    BY <1>3, SMT
  <2>. QED
    BY <1>7, <2>1, SMT
<1>9. Mask[5] = 7
  <2>1. Mask[5] = Mask[5 - 1] \div 2
    BY <1>3, SMT
  <2>. QED
    BY <1>8, <2>1, SMT
<1>10. Mask[6] = 3
  <2>1. Mask[6] = Mask[6 - 1] \div 2
    BY <1>3, SMT
  <2>. QED
    BY <1>9, <2>1, SMT
<1>11. Mask[7] = 1
  <2>1. Mask[7] = Mask[7 - 1] \div 2
    BY <1>3, SMT
  <2>. QED
    BY <1>10, <2>1, SMT
<1>12. Mask[8] = 0
  <2>1. Mask[8] = Mask[8 - 1] \div 2
    BY <1>3, SMT
  <2>. QED
    BY <1>11, <2>1, SMT
<1>13. Mask[9] = 0
  <2>1. Mask[9] = Mask[9 - 1] \div 2
    BY <1>3, SMT
  <2>. QED
    BY <1>12, <2>1, SMT
<1>14. Mask[10] = 0
  <2>1. Mask[10] = Mask[10 - 1] \div 2
    BY <1>3, SMT
  <2>. QED
    BY <1>13, <2>1, SMT
<1>15. Mask[11] = 0
  <2>1. Mask[11] = Mask[11 - 1] \div 2
    BY <1>3, SMT
  <2>. QED
    BY <1>14, <2>1, SMT
<1>. QED
  BY <1>4, <1>6, <1>7, <1>8, <1>9, <1>10, <1>14, <1>15

(* A code point of several bytes never counts as one that is escaped.      *)
Enough(s, n) == n \in Nat /\ (s = 2 => n >= 2) /\ (s \in {3, 5, 7, 8} => n >= 1)

LEMMA FirstNumber ==
    ASSUME NEW b \in 0 .. 255, utf8 = 0
    PROVE  /\ b \in 0 .. 127 => NextCodepoint(ClassOf(b), b) = b
           /\ NextUtf8(ClassOf(b)) \in 2 .. 8 =>
                Enough(NextUtf8(ClassOf(b)), NextCodepoint(ClassOf(b), b))
<1>. DEFINE k == ClassOf(b)
            s == NextUtf8(k)
            n == NextCodepoint(k, b)
<1>1. n = b % (Mask[k] + 1)
  BY SMT DEF NextCodepoint
<1>2. /\ b \in 0 .. 127 => s = 0 /\ k = 0
      /\ b \in 194 .. 223 => s = 2 /\ k = 2
      /\ b = 224 => s = 4 /\ k = 10
      /\ b \in 225 .. 239 /\ b # 237 => s = 3 /\ k = 3
      /\ b = 237 => s = 5 /\ k = 4
      /\ b = 240 => s = 6 /\ k = 11
      /\ b \in 241 .. 243 => s = 7 /\ k = 6
      /\ b = 244 => s = 8 /\ k = 5
      /\ b \in 128 .. 193 \/ b \in 245 .. 255 => s = 1
  <2>1. /\ b \in 0 .. 127 => s = 0
        /\ b \in 194 .. 223 => s = 2
        /\ b = 224 => s = 4
        /\ b \in 225 .. 239 /\ b # 237 => s = 3
        /\ b = 237 => s = 5
        /\ b = 240 => s = 6
        /\ b \in 241 .. 243 => s = 7
        /\ b = 244 => s = 8
        /\ b \in 128 .. 193 \/ b \in 245 .. 255 => s = 1
    BY FirstDecoded
  <2>2. /\ b \in 0 .. 127 => k = 0
        /\ b \in 194 .. 223 => k = 2
        /\ b = 224 => k = 10
        /\ b \in 225 .. 239 /\ b # 237 => k = 3
        /\ b = 237 => k = 4
        /\ b = 240 => k = 11
        /\ b \in 241 .. 243 => k = 6
        /\ b = 244 => k = 5
    BY ClassIs
  <2>. HIDE DEF k, s
  <2>. QED
    BY <2>1, <2>2
<1>. HIDE DEF k, s, n
<1>3. CASE b \in 0 .. 127
  <2>1. n = b % 256
    BY <1>1, <1>2, <1>3, MaskIs
  <2>2. n = b
    BY <1>3, <2>1
  <2>3. s \notin 2 .. 8
    BY <1>2, <1>3
  <2>. QED
    BY <2>2, <2>3, Zenon DEF k, s, n
<1>4. CASE b \notin 0 .. 127 /\ s \in 2 .. 8
  <2>1. CASE b \in 194 .. 223
    <3>1. n = b % 64 /\ s = 2
      BY <1>1, <1>2, <2>1, MaskIs
    <3>2. Enough(s, n)
      BY <2>1, <3>1 DEF Enough
    <3>. QED
      BY <1>4, <3>2, Zenon DEF k, s, n
  <2>2. CASE b = 224
    <3>1. n = b % 1 /\ s = 4
      BY <1>1, <1>2, <2>2, MaskIs
    <3>2. Enough(s, n)
      BY <2>2, <3>1 DEF Enough
    <3>. QED
      BY <1>4, <3>2, Zenon DEF k, s, n
  <2>3. CASE b \in 225 .. 239 /\ b # 237
    <3>1. n = b % 32 /\ s = 3
      BY <1>1, <1>2, <2>3, MaskIs
    <3>2. Enough(s, n)
      BY <2>3, <3>1 DEF Enough
    <3>. QED
      BY <1>4, <3>2, Zenon DEF k, s, n
  <2>4. CASE b = 237
    <3>1. n = b % 16 /\ s = 5
      BY <1>1, <1>2, <2>4, MaskIs
    <3>2. Enough(s, n)
      BY <2>4, <3>1 DEF Enough
    <3>. QED
      BY <1>4, <3>2, Zenon DEF k, s, n
  <2>5. CASE b = 240
    <3>1. n = b % 1 /\ s = 6
      BY <1>1, <1>2, <2>5, MaskIs
    <3>2. Enough(s, n)
      BY <2>5, <3>1 DEF Enough
    <3>. QED
      BY <1>4, <3>2, Zenon DEF k, s, n
  <2>6. CASE b \in 241 .. 243
    <3>1. n = b % 4 /\ s = 7
      BY <1>1, <1>2, <2>6, MaskIs
    <3>2. Enough(s, n)
      BY <2>6, <3>1 DEF Enough
    <3>. QED
      BY <1>4, <3>2, Zenon DEF k, s, n
  <2>7. CASE b = 244
    <3>1. n = b % 8 /\ s = 8
      BY <1>1, <1>2, <2>7, MaskIs
    <3>2. Enough(s, n)
      BY <2>7, <3>1 DEF Enough
    <3>. QED
      BY <1>4, <3>2, Zenon DEF k, s, n
  <2>8. ~(b \in 128 .. 193 \/ b \in 245 .. 255)
    BY <1>2, <1>4
  <2>9. \/ b \in 194 .. 223 \/ b = 224 \/ (b \in 225 .. 239 /\ b # 237) \/ b = 237 \/ b = 240
        \/ b \in 241 .. 243 \/ b = 244
    BY <1>4, <2>8
  <2>. QED
    BY <2>1, <2>2, <2>3, <2>4, <2>5, <2>6, <2>7, <2>9, Zenon
<1>5. CASE b \notin 0 .. 127 /\ s \notin 2 .. 8
  BY <1>5, Zenon DEF k, s
<1>. QED
  BY <1>3, <1>4, <1>5, Zenon

LEMMA FurtherNumber ==
    ASSUME NEW b \in 0 .. 255, utf8 \in 2 .. 8, Enough(utf8, codepoint)
    PROVE  /\ NextUtf8(ClassOf(b)) = 0 => NextCodepoint(ClassOf(b), b) >= 128
           /\ NextCodepoint(ClassOf(b), b) \in Nat
           /\ NextUtf8(ClassOf(b)) \in 2 .. 8 =>
                Enough(NextUtf8(ClassOf(b)), NextCodepoint(ClassOf(b), b))
<1>. DEFINE s == utf8
            r == NextUtf8(ClassOf(b))
            c == codepoint
            n == NextCodepoint(ClassOf(b), b)
<1>1. n = c * 64 + (b % 64)
  BY SMT DEF NextCodepoint
<1>2. IF b \in LowOf(s) .. HighOf(s)
        THEN r = IF s = 2 THEN 0 ELSE IF s \in 3 .. 5 THEN 2 ELSE 3
        ELSE r = 1
  BY FurtherDecoded, Zenon
<1>3. s \in 2 .. 8 /\ c \in Nat /\ (s = 2 => c >= 2) /\ (s \in {3, 5, 7, 8} => c >= 1)
  BY Zenon DEF Enough
<1>. HIDE DEF s, r, c, n
<1>4. n \in Nat /\ n >= c * 64 /\ n >= b % 64
  BY <1>1, <1>3
<1>5. r = 0 => n >= 128
  <2>. SUFFICES ASSUME r = 0
                PROVE  n >= 128
    OBVIOUS
  <2>1. s = 2
    BY <1>2, <1>3
  <2>. QED
    BY <1>3, <1>4, <2>1
<1>6. ASSUME r \in 2 .. 8
      PROVE  Enough(r, n)
  <2>1. b \in LowOf(s) .. HighOf(s) /\ s # 2 /\ (r = IF s \in 3 .. 5 THEN 2 ELSE 3)
    BY <1>2, <1>6
  <2>2. c >= 1 => n >= 64
    BY <1>3, <1>4
  <2>3. CASE s = 4
    <3>1. b \in 160 .. 191 /\ r = 2
      BY <2>1, <2>3 DEF LowOf, HighOf
    <3>2. n >= 2
      BY <1>4, <3>1
    <3>. QED
      BY <1>4, <3>1, <3>2 DEF Enough
  <2>4. CASE s = 6
    <3>1. b \in 144 .. 191 /\ r = 3
      BY <2>1, <2>4 DEF LowOf, HighOf
    <3>2. n >= 1
      BY <1>4, <3>1
    <3>. QED
      BY <1>4, <3>1, <3>2 DEF Enough
  <2>5. CASE s \in {3, 5, 7, 8}
    <3>1. n >= 64 /\ r \in {2, 3}
      BY <1>3, <2>1, <2>2, <2>5
    <3>. QED
      BY <1>4, <3>1 DEF Enough
  <2>. QED
    BY <1>3, <2>1, <2>3, <2>4, <2>5
<1>. QED
  BY <1>4, <1>5, <1>6, Zenon DEF s, r, c, n

(* The bytes read of a code point whose end is still to come.              *)
Left(s) == IF s = 2 THEN 1 ELSE IF s \in 3 .. 5 THEN 2 ELSE 3

Decoding(s, u) ==
    /\ s \in 2 .. 8 /\ u \in Seq(Int) /\ u[1] \in 194 .. 244
    /\ Len(u) \in 1 .. Extra(u[1]) /\ Left(s) + Len(u) = 1 + Extra(u[1])
    /\ Len(u) = 1 => LowOf(s) = Least(u[1]) /\ HighOf(s) = Most(u[1])
    /\ Len(u) >= 2 => s \in {2, 3} /\ u[2] \in Least(u[1]) .. Most(u[1])
    /\ \A i \in 3 .. Len(u) : u[i] \in 128 .. 191

(* Nothing that starts like v is a code point.                             *)
Clash(v) == \A x \in Codes : Len(x) <= Len(v) => \E i \in 1 .. Len(x) : x[i] # v[i]

LEMMA FirstPart ==
    ASSUME NEW b \in 0 .. 255, utf8 = 0
    PROVE  LET s == NextUtf8(ClassOf(b)) IN
           /\ s = 0 => b \in 0 .. 127
           /\ s = 1 => Clash(<<b>>)
           /\ s \in 0 .. 8
           /\ s \in 2 .. 8 => Decoding(s, <<b>>)
<1>. DEFINE s == NextUtf8(ClassOf(b))
            u == <<b>>
<1>1. /\ b \in 0 .. 127 => s = 0
      /\ b \in 194 .. 223 => s = 2
      /\ b = 224 => s = 4
      /\ b \in 225 .. 239 /\ b # 237 => s = 3
      /\ b = 237 => s = 5
      /\ b = 240 => s = 6
      /\ b \in 241 .. 243 => s = 7
      /\ b = 244 => s = 8
      /\ b \in 128 .. 193 \/ b \in 245 .. 255 => s = 1
  BY FirstDecoded
<1>. HIDE DEF s
<1>2. u \in Seq(Int) /\ Len(u) = 1 /\ u[1] = b
  OBVIOUS
<1>. HIDE DEF u
<1>3. CASE b \in 0 .. 127
  <2>1. s = 0
    BY <1>1, <1>3
  <2>. QED
    BY <1>3, <2>1 DEF s, u
<1>4. CASE b \in 128 .. 193 \/ b \in 245 .. 255
  <2>1. s = 1
    BY <1>1, <1>4
  <2>2. Clash(u)
    <3>1. ASSUME NEW x \in Codes
          PROVE  \E i \in 1 .. Len(x) : x[i] # u[i]
      <4>1. x[1] \in (0 .. 127) \cup (194 .. 244) /\ Len(x) \in 1 .. 4
        BY CodeLength, Zenon
      <4>2. b \notin (0 .. 127) \cup (194 .. 244)
        BY <1>4
      <4>3. 1 \in 1 .. Len(x)
        BY <4>1
      <4>4. x[1] # u[1]
        BY <1>2, <4>1, <4>2, Zenon
      <4>. QED
        BY <4>3, <4>4, Zenon
    <3>. QED
      BY <3>1, Zenon DEF Clash
  <2>3. s \in 0 .. 8 /\ s # 0 /\ s \notin 2 .. 8
    BY <2>1
  <2>. QED
    BY <2>2, <2>3, Zenon DEF s, u
<1>5. CASE b \in 194 .. 244
  <2>1. /\ b \in 194 .. 223 => s = 2 /\ Extra(b) = 1 /\ Least(b) = 128 /\ Most(b) = 191
        /\ b = 224 => s = 4 /\ Extra(b) = 2 /\ Least(b) = 160 /\ Most(b) = 191
        /\ b \in 225 .. 239 /\ b # 237 => s = 3 /\ Extra(b) = 2 /\ Least(b) = 128 /\ Most(b) = 191
        /\ b = 237 => s = 5 /\ Extra(b) = 2 /\ Least(b) = 128 /\ Most(b) = 159
        /\ b = 240 => s = 6 /\ Extra(b) = 3 /\ Least(b) = 144 /\ Most(b) = 191
        /\ b \in 241 .. 243 => s = 7 /\ Extra(b) = 3 /\ Least(b) = 128 /\ Most(b) = 191
        /\ b = 244 => s = 8 /\ Extra(b) = 3 /\ Least(b) = 128 /\ Most(b) = 143
    BY <1>1, <1>5 DEF Extra, Least, Most
  <2>2. /\ s \in 2 .. 8 /\ Left(s) = Extra(b) /\ LowOf(s) = Least(b) /\ HighOf(s) = Most(b)
        /\ Extra(b) \in 1 .. 3
    BY <1>5, <2>1 DEF Left, LowOf, HighOf
  <2>3. s \in 0 .. 8 /\ s # 0 /\ s # 1
    BY <2>2
  <2>4. Decoding(s, u)
    <3>1. Len(u) \in 1 .. Extra(b) /\ Left(s) + Len(u) = 1 + Extra(b) /\ ~(Len(u) >= 2)
          /\ \A i \in 3 .. Len(u) : FALSE
      BY <1>2, <2>2
    <3>2. /\ Len(u) \in 1 .. Extra(u[1]) /\ Left(s) + Len(u) = 1 + Extra(u[1])
          /\ u[1] \in 194 .. 244 /\ LowOf(s) = Least(u[1]) /\ HighOf(s) = Most(u[1])
      BY <1>2, <1>5, <2>2, <3>1, Zenon
    <3>3. \A i \in 3 .. Len(u) : u[i] \in 128 .. 191
      BY <3>1, Zenon
    <3>. QED
      BY <1>2, <2>2, <3>1, <3>2, <3>3 DEF Decoding
  <2>. QED
    BY <2>3, <2>4, Zenon DEF s, u
<1>6. b \in 0 .. 127 \/ (b \in 128 .. 193 \/ b \in 245 .. 255) \/ b \in 194 .. 244
  OBVIOUS
<1>. QED
  BY <1>3, <1>4, <1>5, <1>6

LEMMA StillDecoding ==
    ASSUME NEW s, NEW u, Decoding(s, u)
    PROVE  /\ u \in Seq(Int) /\ Len(u) \in 1 .. 3 /\ Clash(u) /\ u[1] \in Int
           /\ u[1] \in 194 .. 244 /\ Extra(u[1]) \in 1 .. 3
<1>1. u \in Seq(Int) /\ u[1] \in 194 .. 244 /\ Len(u) \in 1 .. Extra(u[1])
  BY Zenon DEF Decoding
<1>2. Extra(u[1]) \in 1 .. 3
  <2>1. \A c \in 194 .. 244 : Extra(c) \in 1 .. 3
    BY DEF Extra
  <2>. QED
    BY <1>1, <2>1, Zenon
<1>3. Len(u) \in 1 .. 3 /\ u[1] \in Int
  <2>1. \A k, l : k \in 1 .. l /\ l \in 1 .. 3 => k \in 1 .. 3
    OBVIOUS
  <2>2. \A c \in 194 .. 244 : c \in Int
    OBVIOUS
  <2>. QED
    BY <1>1, <1>2, <2>1, <2>2, Zenon
<1>4. ASSUME NEW x \in Codes, Len(x) <= Len(u), \A i \in 1 .. Len(x) : x[i] = u[i]
      PROVE  FALSE
  <2>1. Len(x) \in 1 .. 4
    BY CodeLength, Zenon
  <2>2. x[1] = u[1]
    <3>1. 1 \in 1 .. Len(x)
      BY <2>1
    <3>. QED
      BY <1>4, <3>1, Zenon
  <2>3. Len(x) = 1 + Extra(u[1])
    <3>1. x[1] \in 194 .. 244 => Len(x) = 1 + Extra(x[1])
      BY CodeLength, Zenon
    <3>. QED
      BY <1>1, <2>2, <3>1, Zenon
  <2>. QED
    BY <1>1, <1>2, <1>4, <2>3
<1>5. Clash(u)
  BY <1>4, Zenon DEF Clash
<1>. QED
  BY <1>1, <1>2, <1>3, <1>5, Zenon

LEMMA NextPart ==
    ASSUME NEW b \in 0 .. 255, NEW u, utf8 \in 2 .. 8, Decoding(utf8, u)
    PROVE  LET s == NextUtf8(ClassOf(b)) IN
           /\ s \in 0 .. 8
           /\ s = 0 => Encoding(Append(u, b))
           /\ s = 1 => Clash(Append(u, b))
           /\ s \in 2 .. 8 => Decoding(s, Append(u, b))
<1>. DEFINE s == utf8
            r == NextUtf8(ClassOf(b))
            v == Append(u, b)
            a == u[1]
            n == Len(u)
            e == Extra(a)
<1>1. IF b \in LowOf(s) .. HighOf(s)
        THEN r = IF s = 2 THEN 0 ELSE IF s \in 3 .. 5 THEN 2 ELSE 3
        ELSE r = 1
  BY FurtherDecoded, Zenon
<1>2. /\ u \in Seq(Int) /\ a \in Int /\ a \in 194 .. 244 /\ e \in 1 .. 3 /\ s \in 2 .. 8
      /\ n \in 1 .. e /\ Left(s) + n = 1 + e
  BY StillDecoding, Zenon DEF Decoding
<1>3. /\ n = 1 => LowOf(s) = Least(a) /\ HighOf(s) = Most(a)
      /\ n >= 2 => s \in {2, 3} /\ u[2] \in Least(a) .. Most(a)
      /\ \A i \in 3 .. n : u[i] \in 128 .. 191
  BY Zenon DEF Decoding
<1>4. v \in Seq(Int) /\ Len(v) = n + 1 /\ v[n + 1] = b /\ \A i \in 1 .. n : v[i] = u[i]
  BY <1>2, AppendProperties
<1>. HIDE DEF s, r, v, a, n, e
<1>5. v[1] = a
  <2>1. 1 \in 1 .. n
    BY <1>2
  <2>. QED
    BY <1>4, <2>1, Zenon DEF a
<1>6. n >= 2 => LowOf(s) = 128 /\ HighOf(s) = 191
  BY <1>3 DEF LowOf, HighOf
<1>7. ASSUME b \in LowOf(s) .. HighOf(s)
      PROVE  v[2] \in Least(a) .. Most(a) /\ \A i \in 3 .. Len(v) : v[i] \in 128 .. 191
  <2>1. CASE n = 1
    <3>1. v[2] = b
      BY <1>4, <2>1
    <3>2. Len(v) = 2
      BY <1>4, <2>1
    <3>3. \A i \in 3 .. Len(v) : v[i] \in 128 .. 191
      BY <3>2
    <3>4. LowOf(s) = Least(a) /\ HighOf(s) = Most(a)
      BY <1>3, <2>1, Zenon
    <3>5. v[2] \in Least(a) .. Most(a)
      BY <1>7, <3>1, <3>4, Zenon
    <3>. QED
      BY <3>3, <3>5, Zenon
  <2>2. CASE n # 1
    <3>1. n >= 2 /\ 2 \in 1 .. n
      BY <1>2, <2>2
    <3>2. v[2] \in Least(a) .. Most(a)
      BY <1>3, <1>4, <3>1, Zenon
    <3>3. \A i \in 3 .. Len(v) : i = n + 1 \/ (i \in 3 .. n /\ i \in 1 .. n)
      BY <1>2, <1>4
    <3>4. v[n + 1] \in 128 .. 191
      BY <1>4, <1>6, <1>7, <3>1, Zenon
    <3>5. \A i \in 3 .. n : i \in 1 .. n => v[i] \in 128 .. 191
      <4>1. \A i \in 3 .. n : u[i] \in 128 .. 191
        BY <1>3, Zenon
      <4>2. \A i \in 1 .. n : v[i] = u[i]
        BY <1>4, Zenon
      <4>. QED
        BY <4>1, <4>2, SMT
    <3>. QED
      BY <3>2, <3>3, <3>4, <3>5, Zenon
  <2>. QED
    BY <2>1, <2>2
<1>8. CASE b \in LowOf(s) .. HighOf(s) /\ s = 2
  <2>1. r = 0 /\ Left(s) = 1
    BY <1>1, <1>8 DEF Left
  <2>2. Len(v) = 1 + e
    BY <1>2, <1>4, <2>1
  <2>3. Encoding(v)
    BY <1>2, <1>5, <1>7, <1>8, <2>2, Zenon DEF Encoding, e
  <2>4. r \in 0 .. 8 /\ r # 1 /\ r \notin 2 .. 8
    BY <2>1
  <2>. QED
    BY <2>3, <2>4, Zenon DEF r, v
<1>9. CASE b \in LowOf(s) .. HighOf(s) /\ s # 2
  <2>1. r \in {2, 3} /\ Left(r) = Left(s) - 1
    BY <1>1, <1>2, <1>9 DEF Left
  <2>2. Left(s) \in 1 .. 3 /\ Left(r) \in 1 .. 3
    BY DEF Left
  <2>3. Len(v) \in 1 .. e /\ Left(r) + Len(v) = 1 + e /\ Len(v) >= 2 /\ Len(v) # 1
    BY <1>2, <1>4, <2>1, <2>2
  <2>4. r \in 2 .. 8 /\ r \in 0 .. 8 /\ r # 0 /\ r # 1
    BY <2>1
  <2>5. Decoding(r, v)
    BY <1>2, <1>4, <1>5, <1>7, <1>9, <2>1, <2>3, <2>4, Zenon DEF Decoding, e
  <2>. QED
    BY <2>4, <2>5, Zenon DEF r, v
<1>10. CASE b \notin LowOf(s) .. HighOf(s)
  <2>1. r = 1
    BY <1>1, <1>10, Zenon
  <2>2. ASSUME NEW x \in Codes, Len(x) <= Len(v), \A i \in 1 .. Len(x) : x[i] = v[i]
        PROVE  FALSE
    <3>1. Len(x) \in 1 .. 4
      BY CodeLength, Zenon
    <3>2. x[1] = a
      <4>1. 1 \in 1 .. Len(x)
        BY <3>1
      <4>. QED
        BY <1>5, <2>2, <4>1, Zenon
    <3>3. Encoding(x) /\ Len(x) = 1 + e
      BY <1>2, <3>2, CodeLength, Zenon DEF e
    <3>4. n = e /\ Len(x) = n + 1 /\ n + 1 \in 1 .. Len(x)
      BY <1>2, <1>4, <2>2, <3>3
    <3>5. x[n + 1] = b
      BY <1>4, <2>2, <3>4, Zenon
    <3>6. x[2] \in Least(a) .. Most(a) /\ \A i \in 3 .. Len(x) : x[i] \in 128 .. 191
      BY <3>2, <3>3, Zenon DEF Encoding
    <3>7. CASE n = 1
      <4>1. n + 1 = 2
        BY <3>7
      <4>. QED
        BY <1>3, <1>10, <3>5, <3>6, <3>7, <4>1, Zenon
    <3>8. CASE n # 1
      <4>1. n >= 2 /\ n + 1 \in 3 .. Len(x)
        BY <1>2, <3>4, <3>8
      <4>2. LowOf(s) = 128 /\ HighOf(s) = 191
        BY <1>6, <4>1, Zenon
      <4>3. b \notin 128 .. 191
        BY <1>10, <4>2
      <4>4. x[n + 1] \in 128 .. 191
        BY <3>6, <4>1, Zenon
      <4>. QED
        BY <3>5, <4>3, <4>4, Zenon
    <3>. QED
      BY <3>7, <3>8
  <2>3. Clash(v)
    BY <2>2, Zenon DEF Clash
  <2>4. r \in 0 .. 8 /\ r # 0 /\ r \notin 2 .. 8
    BY <2>1
  <2>. QED
    BY <2>3, <2>4, Zenon DEF r, v
<1>. QED
  BY <1>8, <1>9, <1>10, Zenon

-----------------------------------------------------------------------------
(* How a text may be cut into the encodings of code points.                *)
Parts(cs, x) ==
    /\ cs \subseteq 1 .. Len(x) - 1
    /\ \A i \in {0} \cup cs :
         IsUtf8(SubSeq(x, i + 1, Min({j \in cs \cup {Len(x)} : j > i})))

LEMMA WellFormedIs == \A x : WellFormed(x) <=> \E cs : Parts(cs, x)
BY Zenon DEF WellFormed, Parts

LEMMA NextCut ==
    ASSUME NEW x \in Seq(Int), NEW cs, Parts(cs, x), NEW i \in {0} \cup cs, i < Len(x)
    PROVE  \E m \in cs \cup {Len(x)} : m \in Int /\ m > i /\ SubSeq(x, i + 1, m) \in Codes
<1>. DEFINE N == {j \in cs \cup {Len(x)} : j > i}
            m == Min(N)
<1>1. Len(x) \in Nat /\ cs \subseteq Nat
  BY DEF Parts
<1>2. N \in SUBSET Nat /\ Len(x) \in N
  BY <1>1
<1>3. m \in N
  BY <1>2, MinIsLeast, Zenon
<1>4. m \in cs \cup {Len(x)} /\ m > i /\ m \in Nat
  BY <1>2, <1>3, Zenon
<1>5. IsUtf8(SubSeq(x, i + 1, m))
  BY Zenon DEF Parts
<1>. HIDE DEF N, m
<1>6. \A j \in i + 1 .. m : j \in 1 .. Len(x)
  <2>1. i \in Nat
    BY <1>1
  <2>2. m <= Len(x)
    BY <1>1, <1>4 DEF Parts
  <2>. QED
    BY <1>1, <1>4, <2>1, <2>2
<1>7. SubSeq(x, i + 1, m) \in Seq(Int)
  <2>1. i + 1 \in Int /\ m \in Int
    BY <1>1, <1>4
  <2>. QED
    BY <1>6, <2>1, SubSeqProperties
<1>8. SubSeq(x, i + 1, m) \in Codes
  BY <1>5, <1>7, Utf8IsCode, Zenon
<1>9. m \in Int
  BY <1>4
<1>. QED
  BY <1>4, <1>8, <1>9, Zenon

(* Where every cut of a text that begins like t has to fall.               *)
Boundary(t, k) ==
    \A x \in Seq(Int) : \A cs : Begins(t, x) /\ Parts(cs, x) => k \in {0} \cup cs \cup {Len(x)}

LEMMA NoBoundary == Boundary(<<>>, 0)
BY Zenon DEF Boundary

(* A code point begins there.                                              *)
PartAt(k, x, cs, u) ==
    /\ k + Len(u) \in cs \cup {Len(x)}
    /\ \A j \in 1 .. Len(u) : u[j] = x[k + j]

LEMMA CutIs ==
    ASSUME NEW t \in Seq(Int), NEW v \in Seq(Int), Len(v) # 0, Boundary(t, Len(t)),
           NEW x \in Seq(Int), Begins(t \o v, x), NEW cs, Parts(cs, x)
    PROVE  \E u \in Codes : PartAt(Len(t), x, cs, u)
<1>. DEFINE k == Len(t)
<1>1. /\ k \in Nat /\ Len(v) \in Nat /\ Len(v) # 0 /\ Len(x) \in Nat /\ t \o v \in Seq(Int)
      /\ Len(t \o v) = k + Len(v) /\ \A i \in 1 .. k : (t \o v)[i] = t[i]
  <2>1. Joined(Int, t, v, t \o v)
    BY JoinedText, Zenon
  <2>. QED
    BY <2>1 DEF Joined
<1>2. k < Len(x) /\ Begins(t, x)
  <2>1. Len(t \o v) <= Len(x) /\ \A i \in 1 .. Len(t \o v) : x[i] = (t \o v)[i]
    BY Zenon DEF Begins
  <2>2. \A i \in 1 .. k : i \in 1 .. Len(t \o v)
    BY <1>1
  <2>3. \A i \in 1 .. k : x[i] = t[i]
    BY <1>1, <2>1, <2>2, Zenon
  <2>4. k < Len(x) /\ k <= Len(x)
    BY <1>1, <2>1
  <2>. QED
    BY <2>3, <2>4, Zenon DEF Begins
<1>3. k \in {0} \cup cs
  <2>1. k \in {0} \cup cs \cup {Len(x)}
    BY <1>2, Zenon DEF Boundary
  <2>. QED
    BY <1>1, <1>2, <2>1
<1>4. PICK m \in cs \cup {Len(x)} : m \in Int /\ m > k /\ SubSeq(x, k + 1, m) \in Codes
  BY <1>2, <1>3, NextCut, Zenon
<1>. DEFINE u == SubSeq(x, k + 1, m)
<1>5. Len(u) = m - k /\ \A j \in 1 .. m - k : u[j] = x[k + j]
  BY <1>1, <1>4, SubSeqProperties
<1>6. k + Len(u) = m
  BY <1>1, <1>4, <1>5
<1>7. \A j \in 1 .. Len(u) : u[j] = x[k + j]
  BY <1>5, Zenon
<1>. QED
  BY <1>4, <1>6, <1>7, Zenon DEF PartAt

LEMMA OneOfThem == \A l \in 1 .. 4 : 1 \in 1 .. l /\ l # 0 /\ l \in Nat
OBVIOUS

LEMMA CodesAgree ==
    ASSUME NEW u \in Codes, NEW v \in Codes, u[1] = v[1]
    PROVE  Len(u) = Len(v)
<1>1. /\ u[1] \in 0 .. 127 => Len(u) = 1
      /\ v[1] \in 0 .. 127 => Len(v) = 1
      /\ u[1] \in 194 .. 244 => Len(u) = 1 + Extra(u[1])
      /\ v[1] \in 194 .. 244 => Len(v) = 1 + Extra(v[1])
      /\ u[1] \in (0 .. 127) \cup (194 .. 244)
  BY CodeLength, ZenonT(60)
<1>2. CASE u[1] \in 0 .. 127
  <2>1. v[1] \in 0 .. 127
    BY <1>2, Zenon
  <2>2. Len(u) = 1 /\ Len(v) = 1
    BY <1>1, <1>2, <2>1, Zenon
  <2>. QED
    BY <2>2, Zenon
<1>3. CASE u[1] \in 194 .. 244
  <2>1. v[1] \in 194 .. 244
    BY <1>3, Zenon
  <2>2. Len(u) = 1 + Extra(u[1]) /\ Len(v) = 1 + Extra(v[1])
    BY <1>1, <1>3, <2>1, Zenon
  <2>. QED
    BY <2>2, Zenon
<1>. QED
  BY <1>1, <1>2, <1>3, Zenon

(* x goes on behind t like v.                                              *)
LEMMA GoesOnLike ==
    ASSUME NEW t \in Seq(Int), NEW v \in Seq(Int), NEW x \in Seq(Int), Begins(t \o v, x)
    PROVE  /\ Len(t) + Len(v) <= Len(x) /\ Len(t) \in Nat /\ Len(v) \in Nat /\ Len(x) \in Nat
           /\ \A j \in 1 .. Len(v) : x[Len(t) + j] = v[j]
<1>. DEFINE k == Len(t)
            n == Len(v)
            y == t \o v
<1>1. /\ k \in Nat /\ n \in Nat /\ Len(x) \in Nat /\ Len(y) = k + n
      /\ \A j \in 1 .. n : y[k + j] = v[j]
  <2>1. Joined(Int, t, v, y)
    BY JoinedText, Zenon
  <2>. QED
    BY <2>1 DEF Joined
<1>2. Len(y) <= Len(x) /\ \A i \in 1 .. Len(y) : x[i] = y[i]
  BY Zenon DEF Begins
<1>. HIDE DEF k, n, y
<1>3. \A j \in 1 .. n : k + j \in 1 .. Len(y)
  BY <1>1
<1>4. \A j \in 1 .. n : x[k + j] = v[j]
  BY <1>1, <1>2, <1>3, Zenon
<1>5. k + n <= Len(x)
  BY <1>1, <1>2, Zenon
<1>. QED
  BY <1>1, <1>4, <1>5, Zenon DEF k, n

LEMMA NextBoundary ==
    ASSUME NEW t \in Seq(Int), Boundary(t, Len(t)), NEW u \in Codes
    PROVE  Boundary(t \o u, Len(t \o u))
<1>1. u \in Seq(Int) /\ Len(u) \in 1 .. 4
  BY CodeLength, Zenon
<1>2. Len(t \o u) = Len(t) + Len(u) /\ Len(u) # 0 /\ 1 \in 1 .. Len(u)
  <2>1. Joined(Int, t, u, t \o u)
    BY <1>1, JoinedText, Zenon
  <2>2. 1 \in 1 .. Len(u) /\ Len(u) # 0
    BY <1>1, OneOfThem, Zenon
  <2>. QED
    BY <2>1, <2>2, Zenon DEF Joined
<1>3. ASSUME NEW x \in Seq(Int), NEW cs, Begins(t \o u, x), Parts(cs, x)
      PROVE  Len(t \o u) \in {0} \cup cs \cup {Len(x)}
  <2>1. PICK v \in Codes : PartAt(Len(t), x, cs, v)
    <3>1. Len(u) # 0 /\ u \in Seq(Int)
      BY <1>1, <1>2, Zenon
    <3>. QED
      BY <1>3, <3>1, CutIs, Zenon
  <2>2. Len(v) \in 1 .. 4
    BY CodeLength, Zenon
  <2>3. 1 \in 1 .. Len(v)
    BY <2>2, OneOfThem, Zenon
  <2>4. \A j \in 1 .. Len(u) : x[Len(t) + j] = u[j]
    BY <1>1, <1>3, GoesOnLike, Zenon
  <2>5. u[1] = v[1]
    <3>1. v[1] = x[Len(t) + 1]
      BY <2>1, <2>3, Zenon DEF PartAt
    <3>2. x[Len(t) + 1] = u[1]
      BY <1>2, <2>4, Zenon
    <3>. QED
      BY <3>1, <3>2, Zenon
  <2>6. Len(u) = Len(v)
    BY <2>5, CodesAgree, Zenon
  <2>. QED
    BY <1>2, <2>1, <2>6, Zenon DEF PartAt
<1>. QED
  BY <1>3, Zenon DEF Boundary

LEMMA NotWellFormed ==
    ASSUME NEW t \in Seq(Int), Boundary(t, Len(t)), NEW v \in Seq(Int), Len(v) # 0, Clash(v)
    PROVE  ~WellFormed(t \o v)
<1>. DEFINE x == t \o v
<1>1. x \in Seq(Int) /\ Begins(x, x) /\ Len(x) = Len(t) + Len(v)
  <2>1. Joined(Int, t, v, x)
    BY JoinedText, Zenon
  <2>2. Len(x) \in Nat /\ x \in Seq(Int) /\ Len(x) = Len(t) + Len(v)
    BY <2>1 DEF Joined
  <2>. HIDE DEF x
  <2>3. Len(x) <= Len(x)
    BY <2>2
  <2>. QED
    BY <2>2, <2>3, Zenon DEF Begins
<1>2. ASSUME NEW cs, Parts(cs, x)
      PROVE  FALSE
  <2>1. PICK u \in Codes : PartAt(Len(t), x, cs, u)
    BY <1>1, <1>2, CutIs, Zenon
  <2>a. /\ Len(t) + Len(u) \in cs \cup {Len(x)}
        /\ \A j \in 1 .. Len(u) : u[j] = x[Len(t) + j]
    BY <2>1, Zenon DEF PartAt
  <2>2. /\ Len(t) + Len(v) <= Len(x) /\ Len(t) \in Nat /\ Len(v) \in Nat /\ Len(x) \in Nat
        /\ \A j \in 1 .. Len(v) : x[Len(t) + j] = v[j]
    BY <1>1, GoesOnLike, Zenon
  <2>3. Len(u) \in 1 .. 4
    BY CodeLength, Zenon
  <2>4. Len(u) <= Len(v)
    <3>1. cs \subseteq 1 .. Len(x) - 1
      BY <1>2, Zenon DEF Parts
    <3>. HIDE DEF x
    <3>2. Len(t) + Len(u) <= Len(x)
      BY <2>a, <2>2, <2>3, <3>1
    <3>. QED
      BY <1>1, <2>2, <2>3, <3>2
  <2>5. PICK i \in 1 .. Len(u) : u[i] # v[i]
    BY <2>4, Zenon DEF Clash
  <2>6. i \in 1 .. Len(v)
    BY <2>2, <2>3, <2>4
  <2>. QED
    BY <2>a, <2>2, <2>5, <2>6, Zenon
<1>. QED
  BY <1>2, WellFormedIs, Zenon

LEMMA NoneJoined == \A s \in Seq(Int) : s \o <<>> = s /\ <<>> \o s = s /\ <<>> \in Seq(Int)
OBVIOUS

(* What was read of the code point that is being decoded.                  *)
Pending(s, n, u) ==
    \/ s = 0 /\ u = <<>>
    \/ s \in 2 .. 8 /\ Decoding(s, u) /\ Enough(s, n)

LEMMA PendingType ==
    ASSUME NEW s, NEW n, NEW u, Pending(s, n, u)
    PROVE  /\ u \in Seq(Int) /\ Len(u) \in 0 .. 3 /\ s \in 0 .. 8 /\ s # 1
           /\ s # 0 => Clash(u) /\ Len(u) # 0
<1>1. CASE s = 0 /\ u = <<>>
  <2>1. <<>> \in Seq(Int) /\ Len(<<>>) = 0 /\ 0 \in 0 .. 3 /\ 0 \in 0 .. 8 /\ 0 # 1
    OBVIOUS
  <2>. QED
    BY <1>1, <2>1, Zenon
<1>2. CASE s \in 2 .. 8 /\ Decoding(s, u)
  <2>1. u \in Seq(Int) /\ Len(u) \in 1 .. 3 /\ Clash(u)
    BY <1>2, StillDecoding, Zenon
  <2>2. Len(u) \in 0 .. 3 /\ Len(u) # 0 /\ s \in 0 .. 8 /\ s # 1
    BY <1>2, <2>1
  <2>. QED
    BY <2>1, <2>2, Zenon
<1>. QED
  BY <1>1, <1>2, Zenon DEF Pending

LEMMA PendingNext ==
    ASSUME NEW b \in 0 .. 255, NEW u, Pending(utf8, codepoint, u)
    PROVE  LET s == NextUtf8(ClassOf(b))
               n == NextCodepoint(ClassOf(b), b)
           IN  /\ s \in 0 .. 8
               /\ s = 0 => /\ Append(u, b) \in Codes /\ WrittenAs(n, b) \in Seq(Int)
                           /\ u \o WrittenAs(n, b) = Shown(Append(u, b))
               /\ s = 1 => Clash(Append(u, b))
               /\ s \in 2 .. 8 => Pending(s, n, Append(u, b))
<1>. DEFINE s == NextUtf8(ClassOf(b))
            n == NextCodepoint(ClassOf(b), b)
            v == Append(u, b)
<1>0. b \in Int /\ u \in Seq(Int)
  BY PendingType
<1>1. CASE utf8 = 0 /\ u = <<>>
  <2>1. v = <<b>>
    BY <1>1
  <2>2. /\ s = 0 => b \in 0 .. 127
        /\ s = 1 => Clash(<<b>>)
        /\ s \in 0 .. 8
        /\ s \in 2 .. 8 => Decoding(s, <<b>>)
    BY <1>1, FirstPart
  <2>3. /\ b \in 0 .. 127 => n = b
        /\ s \in 2 .. 8 => Enough(s, n)
    BY <1>1, FirstNumber
  <2>. HIDE DEF s, n
  <2>4. ASSUME s = 0
        PROVE  v \in Codes /\ WrittenAs(n, b) \in Seq(Int) /\ u \o WrittenAs(n, b) = Shown(v)
    <3>1. b \in 0 .. 127 /\ n = b
      BY <2>2, <2>3, <2>4, Zenon
    <3>2. <<b>> \in Seq(Int) /\ Len(<<b>>) = 1 /\ <<b>>[1] = b
      BY <1>0, OneElement, Zenon
    <3>3. <<b>> \in Codes
      BY <3>1, <3>2, Zenon DEF Codes, OneByte
    <3>4. Shown(<<b>>) = WrittenAs(b, b)
      BY <3>2, Zenon DEF Shown
    <3>5. Shown(<<b>>) \in Seq(Int)
      BY <3>3, ShownType, Zenon
    <3>6. <<>> \o Shown(<<b>>) = Shown(<<b>>)
      BY <3>5, NoneJoined, Zenon
    <3>. QED
      BY <1>1, <2>1, <3>1, <3>3, <3>4, <3>5, <3>6, Zenon
  <2>5. s = 1 => Clash(v)
    BY <2>1, <2>2, Zenon
  <2>6. s \in 2 .. 8 => Pending(s, n, v)
    BY <2>1, <2>2, <2>3, Zenon DEF Pending
  <2>. QED
    BY <2>2, <2>4, <2>5, <2>6, Zenon DEF s, n
<1>2. CASE utf8 \in 2 .. 8 /\ Decoding(utf8, u) /\ Enough(utf8, codepoint)
  <2>1. /\ s \in 0 .. 8
        /\ s = 0 => Encoding(v)
        /\ s = 1 => Clash(v)
        /\ s \in 2 .. 8 => Decoding(s, v)
    BY <1>2, NextPart
  <2>2. /\ s = 0 => n >= 128
        /\ n \in Nat
        /\ s \in 2 .. 8 => Enough(s, n)
    BY <1>2, FurtherNumber
  <2>. HIDE DEF s, n
  <2>3. ASSUME s = 0
        PROVE  v \in Codes /\ WrittenAs(n, b) \in Seq(Int) /\ u \o WrittenAs(n, b) = Shown(v)
    <3>1. n \notin {8, 9, 10, 12, 13, Quote, Backslash}
          /\ n \notin 0 .. 31 \ {8, 9, 10, 12, 13}
      BY <2>2, <2>3 DEF Quote, Backslash
    <3>2. WrittenAs(n, b) = <<b>>
      BY <3>1, Zenon DEF WrittenAs
    <3>3. <<b>> \in Seq(Int) /\ v = u \o <<b>> /\ v \in Seq(Int)
      <4>1. v = u \o <<b>>
        BY <1>0, AppendIsJoined, Zenon
      <4>2. <<b>> \in Seq(Int) /\ v \in Seq(Int)
        BY <1>0
      <4>. QED
        BY <4>1, <4>2, Zenon
    <3>4. v \in Codes
      BY <2>1, <2>3, <3>3, Zenon DEF Codes
    <3>5. Len(v) # 1
      <4>1. Len(v) = Len(u) + 1 /\ Len(u) \in 1 .. 3
        <5>1. Len(u) \in 1 .. 3
          BY <1>2, StillDecoding, Zenon
        <5>. QED
          BY <1>0, <5>1, AppendProperties
      <4>. QED
        BY <4>1
    <3>6. Shown(v) = v
      BY <3>4, <3>5, ShownType, Zenon
    <3>. QED
      BY <3>2, <3>3, <3>4, <3>6, Zenon
  <2>4. s \in 2 .. 8 => Pending(s, n, v)
    BY <2>1, <2>2, Zenon DEF Pending
  <2>. QED
    BY <2>1, <2>3, <2>4, Zenon DEF s, n
<1>. QED
  BY <1>1, <1>2, Zenon DEF Pending

-----------------------------------------------------------------------------
(* While a string is dumped: t are the code points that were written, as w *)
(* and u the beginning of the next.                                        *)
Filling(t, w, u) ==
    /\ Spelled(t, w) /\ Boundary(t, Len(t)) /\ Pending(utf8, codepoint, u)
    /\ text = t \o u
    /\ output \o string_buffer = (<<Quote>> \o w) \o u
    /\ Len(string_buffer) <= BufferSize - 13 + Len(u)

BufferType ==
    /\ text \in Seq(Int) /\ output \in Seq(Int) /\ string_buffer \in Seq(Int)
    /\ Len(string_buffer) <= BufferSize

LEMMA QuoteType == <<Quote>> \in Seq(Int) /\ Quote \in Int
BY DEF Quote

LEMMA DumpStringFills ==
    ASSUME DumpString, text = <<>>, utf8 = 0, string_buffer = <<>>
    PROVE  BufferType' /\ \E t, w, u : Filling(t, w, u)'
<1>1. /\ text' = <<>> /\ utf8' = 0 /\ codepoint' = codepoint /\ string_buffer' = <<>>
      /\ output' = <<Quote>>
  BY Zenon DEF DumpString, stringVars
<1>2. BufferSize >= 13 /\ BufferSize \in Nat
  BY SerializerAssumption
<1>3. <<>> \in Seq(Int) /\ Len(<<>>) = 0 /\ 0 <= BufferSize /\ 0 <= BufferSize - 13 + 0
  BY <1>2
<1>4. BufferType'
  BY <1>1, <1>3, QuoteType, Zenon DEF BufferType
<1>5. Filling(<<>>, <<>>, <<>>)'
  <2>1. Spelled(<<>>, <<>>) /\ Boundary(<<>>, Len(<<>>)) /\ Pending(utf8', codepoint', <<>>)
    BY <1>1, <1>3, SpelledNone, NoBoundary, Zenon DEF Pending
  <2>2. text' = <<>> \o <<>>
    <3>1. <<>> \o <<>> = <<>>
      BY <1>3, NoneJoined, Zenon
    <3>. QED
      BY <1>1, <3>1, Zenon
  <2>3. output' \o string_buffer' = (<<Quote>> \o <<>>) \o <<>>
    BY <1>1, NoneJoined, QuoteType, Zenon
  <2>4. Len(string_buffer') <= BufferSize - 13 + Len(<<>>)
    BY <1>1, <1>3, Zenon
  <2>. QED
    BY <2>1, <2>2, <2>3, <2>4, Zenon DEF Filling
<1>. QED
  BY <1>4, <1>5, Zenon

FourJoined(q, w, u, x) == ((q \o w) \o u) \o x = q \o (w \o (u \o x))

LEMMA JoinedFour == \A q, w, u, x \in Seq(Int) : FourJoined(q, w, u, x)
<1>. TAKE q, w, u, x \in Seq(Int)
<1>. DEFINE a == q \o w
            b == u \o x
<1>1. a \in Seq(Int) /\ b \in Seq(Int)
  BY JoinedText, Zenon
<1>2. a \o b = q \o (w \o b)
  <2>. HIDE DEF b
  <2>. QED
    BY <1>1, UnitsAssociate, ZenonT(60)
<1>3. (a \o u) \o x = a \o b
  <2>1. a \in Seq(Int)
    BY <1>1, Zenon
  <2>. HIDE DEF a
  <2>2. (a \o u) \o x = a \o (u \o x)
    BY <2>1, UnitsAssociate, Zenon
  <2>. QED
    BY <2>2, Zenon
<1>. QED
  BY <1>2, <1>3, Zenon DEF FourJoined

LEMMA DumpByteFills ==
    ASSUME BufferType, NEW t, NEW w, NEW u, Filling(t, w, u), NEW b \in 0 .. 255, DumpByte(b)
    PROVE  /\ BufferType'
           /\ \/ dumping' = dumping /\ \E x, y, z : Filling(x, y, z)'
              \/ dumping' = "threw" /\ ~WellFormed(text')
<1>. DEFINE s == NextUtf8(ClassOf(b))
            n == NextCodepoint(ClassOf(b), b)
            v == Append(u, b)
            x == WrittenAs(n, b)
<1>1. /\ Spelled(t, w) /\ Boundary(t, Len(t)) /\ Pending(utf8, codepoint, u)
      /\ text = t \o u
      /\ output \o string_buffer = (<<Quote>> \o w) \o u
      /\ Len(string_buffer) <= BufferSize - 13 + Len(u)
  BY Zenon DEF Filling
<1>2. /\ text \in Seq(Int) /\ output \in Seq(Int) /\ string_buffer \in Seq(Int)
      /\ Len(string_buffer) \in Nat /\ BufferSize \in Nat /\ BufferSize >= 13
  BY SerializerAssumption DEF BufferType
<1>3. t \in Seq(Int) /\ w \in Seq(Int) /\ u \in Seq(Int) /\ Len(u) \in 0 .. 3 /\ b \in Int
  <2>1. b \in Int
    OBVIOUS
  <2>. QED
    BY <1>1, <2>1, SpelledType, PendingType, Zenon
<1>4. /\ s \in 0 .. 8
      /\ s = 0 => v \in Codes /\ x \in Seq(Int) /\ u \o x = Shown(v)
      /\ s = 1 => Clash(v)
      /\ s \in 2 .. 8 => Pending(s, n, v)
  BY <1>1, PendingNext
<1>5. /\ text' = Append(text, b) /\ utf8' = s /\ codepoint' = n
  BY Zenon DEF DumpByte
<1>6. v \in Seq(Int) /\ Len(v) = Len(u) + 1 /\ Len(v) # 0 /\ v = u \o <<b>> /\ <<b>> \in Seq(Int)
  <2>1. v \in Seq(Int) /\ Len(v) = Len(u) + 1 /\ <<b>> \in Seq(Int)
    BY <1>3, AppendProperties
  <2>2. Len(v) # 0
    BY <1>3, <2>1
  <2>. QED
    BY <1>3, <2>1, <2>2, AppendIsJoined, Zenon
<1>7. text' = t \o v /\ text' \in Seq(Int)
  <2>1. Append(t \o u, b) = t \o v
    BY <1>3, AppendedToJoined, Zenon
  <2>2. t \o v \in Seq(Int)
    BY <1>3, <1>6, JoinedText, Zenon
  <2>. QED
    BY <1>1, <1>5, <2>1, <2>2, Zenon
<1>. HIDE DEF s, n, v, x
<1>8. CASE s = 0
  <2>. DEFINE filled == string_buffer \o x
              full == BufferSize - Len(filled) < 13
  <2>1. /\ output' = IF full THEN output \o filled ELSE output
        /\ string_buffer' = IF full THEN <<>> ELSE filled
        /\ dumping' = dumping
    BY <1>5, <1>8, SMT DEF DumpByte, s, n, x
  <2>2. v \in Codes /\ x \in Seq(Int) /\ u \o x = Shown(v)
    BY <1>4, <1>8, Zenon
  <2>3. filled \in Seq(Int) /\ output \o filled \in Seq(Int)
        /\ output \o filled = (output \o string_buffer) \o x
    <3>1. filled \in Seq(Int)
      BY <1>2, <2>2, JoinedText, Zenon
    <3>. QED
      BY <1>2, <2>2, <3>1, JoinedText, UnitsAssociate, Zenon
  <2>4. output \o filled = <<Quote>> \o (w \o Shown(v))
    <3>1. ((<<Quote>> \o w) \o u) \o x = <<Quote>> \o (w \o (u \o x))
      <4>. DEFINE q == <<Quote>>
      <4>1. q \in Seq(Int) /\ w \in Seq(Int) /\ u \in Seq(Int) /\ x \in Seq(Int)
        BY <1>3, <2>2, QuoteType, Zenon
      <4>. HIDE DEF q, filled, full
      <4>2. ((q \o w) \o u) \o x = q \o (w \o (u \o x))
        <5>1. FourJoined(q, w, u, x)
          BY <4>1, JoinedFour, Zenon
        <5>. QED
          BY <5>1, Zenon DEF FourJoined
      <4>. QED
        BY <4>2, Zenon DEF q
    <3>2. (output \o string_buffer) \o x = ((<<Quote>> \o w) \o u) \o x
      BY <1>1, Zenon
    <3>. QED
      BY <2>2, <2>3, <3>1, <3>2, Zenon
  <2>. DEFINE y == w \o Shown(v)
  <2>5. Spelled(t \o v, y) /\ Boundary(t \o v, Len(t \o v))
    BY <1>1, <1>3, <2>2, SpelledMore, NextBoundary, Zenon
  <2>6. y \in Seq(Int) /\ <<Quote>> \o y \in Seq(Int)
    <3>1. y \in Seq(Int)
      BY <2>5, SpelledType, Zenon
    <3>. QED
      BY <3>1, QuoteType, JoinedText, Zenon
  <2>. HIDE DEF y, filled
  <2>7. /\ output' \in Seq(Int) /\ string_buffer' \in Seq(Int)
        /\ output' \o string_buffer' = output \o filled
    <3>1. CASE full
      <4>1. output' = output \o filled /\ string_buffer' = <<>>
        BY <2>1, <3>1, Zenon
      <4>. QED
        BY <2>3, <4>1, NoneJoined, Zenon
    <3>2. CASE ~full
      <4>1. output' = output /\ string_buffer' = filled
        BY <2>1, <3>2, Zenon
      <4>. QED
        BY <1>2, <2>3, <4>1, Zenon
    <3>. QED
      BY <3>1, <3>2, Zenon
  <2>8. Len(string_buffer') <= BufferSize - 13 + 0 /\ Len(string_buffer') <= BufferSize
    <3>1. CASE full
      <4>1. string_buffer' = <<>>
        BY <2>1, <3>1, Zenon
      <4>2. Len(<<>>) = 0 /\ 0 <= BufferSize - 13 + 0 /\ 0 <= BufferSize
        BY <1>2
      <4>. QED
        BY <4>1, <4>2, Zenon
    <3>2. CASE ~full
      <4>1. string_buffer' = filled
        BY <2>1, <3>2, Zenon
      <4>2. Len(filled) \in Nat
        BY <2>3
      <4>3. Len(filled) <= BufferSize - 13 + 0 /\ Len(filled) <= BufferSize
        BY <1>2, <3>2, <4>2
      <4>. QED
        BY <4>1, <4>3, Zenon
    <3>. QED
      BY <3>1, <3>2, Zenon
  <2>9. BufferType'
    BY <1>7, <2>7, <2>8, Zenon DEF BufferType
  <2>10. Filling(t \o v, y, <<>>)'
    <3>1. Pending(utf8', codepoint', <<>>)
      BY <1>5, <1>8, Zenon DEF Pending
    <3>2. text' = (t \o v) \o <<>>
      BY <1>7, NoneJoined, Zenon
    <3>3. output' \o string_buffer' = (<<Quote>> \o y) \o <<>>
      <4>1. output' \o string_buffer' = <<Quote>> \o y
        BY <2>4, <2>7, Zenon DEF y
      <4>. QED
        BY <2>6, <4>1, NoneJoined, Zenon
    <3>4. Len(string_buffer') <= BufferSize - 13 + Len(<<>>)
      <4>1. Len(<<>>) = 0
        OBVIOUS
      <4>. QED
        BY <2>8, <4>1, Zenon
    <3>. QED
      BY <2>5, <3>1, <3>2, <3>3, <3>4, Zenon DEF Filling
  <2>. QED
    BY <2>1, <2>9, <2>10, Zenon
<1>9. CASE s = 1
  <2>1. dumping' = "threw" /\ output' = output /\ string_buffer' = string_buffer
    BY <1>5, <1>9, SMT DEF DumpByte, s
  <2>2. BufferType'
    BY <1>7, <2>1, Zenon DEF BufferType
  <2>3. ~WellFormed(t \o v)
    BY <1>1, <1>3, <1>4, <1>6, <1>9, NotWellFormed, Zenon
  <2>. QED
    BY <1>7, <2>1, <2>2, <2>3, Zenon
<1>10. CASE s \in 2 .. 8
  <2>1. dumping' = dumping /\ output' = output /\ string_buffer' = Append(string_buffer, b)
    <3>1. utf8' \notin {0, 1}
      BY <1>5, <1>10
    <3>. QED
      BY <3>1, Zenon DEF DumpByte
  <2>2. string_buffer' \in Seq(Int) /\ Len(string_buffer') = Len(string_buffer) + 1
        /\ string_buffer' = string_buffer \o <<b>>
    <3>1. Append(string_buffer, b) \in Seq(Int) /\ Len(Append(string_buffer, b)) = Len(string_buffer) + 1
      BY <1>2, <1>3, AppendProperties
    <3>. QED
      BY <1>2, <1>3, <2>1, <3>1, AppendIsJoined, Zenon
  <2>3. Len(string_buffer') <= BufferSize - 13 + Len(v) /\ Len(string_buffer') <= BufferSize
    <3>1. Len(u) \in 0 .. 3 /\ Len(string_buffer') = Len(string_buffer) + 1
          /\ Len(string_buffer) <= BufferSize - 13 + Len(u) /\ Len(v) = Len(u) + 1
          /\ Len(string_buffer) \in Nat /\ BufferSize \in Nat
      BY <1>1, <1>2, <1>3, <1>6, <2>2, Zenon
    <3>2. \A k, l, m, n1, c : k \in 0 .. 3 /\ l = m + 1 /\ m <= c - 13 + k /\ n1 = k + 1
                             /\ m \in Nat /\ c \in Nat => l <= c - 13 + n1 /\ l <= c
      OBVIOUS
    <3>. QED
      BY <3>1, <3>2, Zenon
  <2>4. BufferType'
    BY <1>2, <1>7, <2>1, <2>2, <2>3, Zenon DEF BufferType
  <2>5. output' \o string_buffer' = (<<Quote>> \o w) \o v
    <3>1. output \o (string_buffer \o <<b>>) = (output \o string_buffer) \o <<b>>
      BY <1>2, <1>6, UnitsAssociate, ZenonT(60)
    <3>2. <<Quote>> \o w \in Seq(Int)
      BY <1>3, QuoteType, JoinedText, Zenon
    <3>3. ((<<Quote>> \o w) \o u) \o <<b>> = (<<Quote>> \o w) \o (u \o <<b>>)
      BY <1>3, <1>6, <3>2, UnitsAssociate, ZenonT(60)
    <3>. QED
      BY <1>1, <1>6, <2>1, <2>2, <3>1, <3>3, Zenon
  <2>6. Filling(t, w, v)'
    BY <1>1, <1>4, <1>5, <1>7, <1>10, <2>3, <2>5, Zenon DEF Filling
  <2>. QED
    BY <2>1, <2>4, <2>6, Zenon
<1>11. s = 0 \/ s = 1 \/ s \in 2 .. 8
  BY <1>4
<1>. QED
  BY <1>8, <1>9, <1>10, <1>11, Zenon

LEMMA EndStringFills ==
    ASSUME BufferType, NEW t, NEW w, NEW u, Filling(t, w, u), EndString
    PROVE  /\ BufferType'
           /\ \/ dumping' = "written" /\ Spelled(t, w) /\ text' = t
                 /\ output' = (<<Quote>> \o w) \o <<Quote>>
              \/ dumping' = "threw" /\ ~WellFormed(text')
<1>1. /\ Spelled(t, w) /\ Boundary(t, Len(t)) /\ Pending(utf8, codepoint, u)
      /\ text = t \o u
      /\ output \o string_buffer = (<<Quote>> \o w) \o u
  BY Zenon DEF Filling
<1>2. /\ text \in Seq(Int) /\ output \in Seq(Int) /\ string_buffer \in Seq(Int)
      /\ Len(string_buffer) <= BufferSize
  BY Zenon DEF BufferType
<1>3. t \in Seq(Int) /\ w \in Seq(Int) /\ u \in Seq(Int)
  BY <1>1, SpelledType, PendingType, Zenon
<1>4. text' = text /\ string_buffer' = string_buffer
  BY Zenon DEF EndString, stringVars
<1>5. CASE utf8 = 0
  <2>1. output' = (output \o string_buffer) \o <<Quote>> /\ dumping' = "written"
    BY <1>5, Zenon DEF EndString
  <2>2. u = <<>>
    BY <1>1, <1>5 DEF Pending
  <2>3. <<Quote>> \o w \in Seq(Int)
    BY <1>3, QuoteType, JoinedText, Zenon
  <2>4. output' = (<<Quote>> \o w) \o <<Quote>> /\ text' = t
    BY <1>1, <1>3, <1>4, <2>1, <2>2, <2>3, NoneJoined, Zenon
  <2>5. output' \in Seq(Int)
    BY <2>3, <2>4, QuoteType, JoinedText, Zenon
  <2>6. BufferType'
    BY <1>2, <1>4, <2>5, Zenon DEF BufferType
  <2>. QED
    BY <1>1, <2>1, <2>4, <2>6, Zenon
<1>6. CASE utf8 # 0
  <2>1. dumping' = "threw" /\ output' = output
    BY <1>6, Zenon DEF EndString
  <2>2. Clash(u) /\ Len(u) # 0
    BY <1>1, <1>6, PendingType, Zenon
  <2>3. ~WellFormed(t \o u)
    BY <1>1, <1>3, <2>2, NotWellFormed, Zenon
  <2>4. BufferType'
    BY <1>2, <1>4, <2>1, Zenon DEF BufferType
  <2>. QED
    BY <1>1, <1>4, <2>1, <2>3, <2>4, Zenon
<1>. QED
  BY <1>5, <1>6, Zenon

-----------------------------------------------------------------------------
(* A text by its first character.                                          *)
Led(c, s, z) == z = <<c>> \o s
LEMMA LedBy ==
    ASSUME NEW c \in Int, NEW s \in Seq(Int), NEW z, Led(c, s, z)
    PROVE  z # <<>> /\ Head(z) = c /\ Tail(z) = s
<1>1. <<c>> \o s # <<>> /\ Head(<<c>> \o s) = c
  OBVIOUS
<1>2. Tail(<<c>> \o s) = s
  <2>. DEFINE y == <<c>> \o s
  <2>1. Joined(Int, <<c>>, s, y)
    BY OneElement, JoinedText, Zenon
  <2>2. y \in Seq(Int) /\ Len(y) = 1 + Len(s) /\ \A i \in 1 .. Len(s) : y[1 + i] = s[i]
    <3>1. Len(<<c>>) = 1
      OBVIOUS
    <3>. QED
      BY <2>1, <3>1, Zenon DEF Joined
  <2>. HIDE DEF y
  <2>3. y # <<>>
    BY <1>1 DEF y
  <2>4. Tail(y) \in Seq(Int) /\ Len(Tail(y)) = Len(y) - 1 /\ \A i \in 1 .. Len(y) - 1 : Tail(y)[i] = y[i + 1]
    BY <2>2, <2>3, Shortened, Zenon
  <2>5. Len(Tail(y)) = Len(s) /\ \A i \in 1 .. Len(s) : Tail(y)[i] = s[i]
    <3>1. Len(y) - 1 = Len(s) /\ \A i \in 1 .. Len(s) : 1 + i = i + 1
      BY <2>2
    <3>. QED
      BY <2>2, <2>4, <3>1, Zenon
  <2>. QED
    BY <2>4, <2>5, SeqEqual DEF y
<1>. QED
  BY <1>1, <1>2, Zenon DEF Led

LEMMA LedBySelf ==
    ASSUME NEW s \in Seq(Int), Len(s) # 0
    PROVE  s[1] \in Int /\ Tail(s) \in Seq(Int) /\ Led(s[1], Tail(s), s)
<1>1. s # <<>>
  OBVIOUS
<1>2. /\ Len(s) \in Nat /\ Len(s) # 0 /\ s[1] \in Int
      /\ Tail(s) \in Seq(Int) /\ Len(Tail(s)) = Len(s) - 1
      /\ \A i \in 1 .. Len(s) - 1 : Tail(s)[i] = s[i + 1]
  BY <1>1, Shortened, Zenon
<1>. DEFINE y == <<s[1]>> \o Tail(s)
<1>3. Joined(Int, <<s[1]>>, Tail(s), y)
  BY <1>2, OneElement, JoinedText, Zenon
<1>4. /\ y \in Seq(Int) /\ Len(y) = 1 + Len(Tail(s)) /\ \A i \in 1 .. Len(Tail(s)) : y[1 + i] = Tail(s)[i]
      /\ y[1] = s[1]
  <2>1. Len(<<s[1]>>) = 1 /\ <<s[1]>>[1] = s[1] /\ 1 \in 1 .. 1
    OBVIOUS
  <2>. QED
    BY <1>3, <2>1, Zenon DEF Joined
<1>. HIDE DEF y
<1>5. Len(y) = Len(s) /\ \A i \in 1 .. Len(s) : i = 1 \/ (i - 1 \in 1 .. Len(s) - 1 /\ 1 + (i - 1) = i /\ (i - 1) + 1 = i)
  BY <1>2, <1>4
<1>6. \A i \in 1 .. Len(s) : y[i] = s[i]
  <2>. TAKE i \in 1 .. Len(s)
  <2>1. CASE i = 1
    BY <1>4, <2>1, Zenon
  <2>2. CASE i - 1 \in 1 .. Len(s) - 1 /\ 1 + (i - 1) = i /\ (i - 1) + 1 = i
    <3>1. y[1 + (i - 1)] = Tail(s)[i - 1]
      BY <1>2, <1>4, <2>2, Zenon
    <3>2. Tail(s)[i - 1] = s[(i - 1) + 1]
      BY <1>2, <2>2, Zenon
    <3>. QED
      BY <2>2, <3>1, <3>2, Zenon
  <2>. QED
    BY <1>5, <2>1, <2>2, Zenon
<1>7. y = s
  BY <1>4, <1>5, <1>6, SeqEqual
<1>. QED
  BY <1>2, <1>7, Zenon DEF Led, y

(* Its first four.                                                         *)
LEMMA FirstFour ==
    ASSUME NEW q \in Seq(Int), Len(q) = 4, NEW s \in Seq(Int), NEW z, Joined(Int, q, s, z)
    PROVE  z # <<>> /\ SubSeq(z, 1, 4) = q /\ SubSeq(z, 5, Len(z)) = s
<1>1. /\ z \in Seq(Int) /\ Len(z) = 4 + Len(s) /\ Len(s) \in Nat
      /\ \A i \in 1 .. 4 : z[i] = q[i]
      /\ \A i \in 1 .. Len(s) : z[4 + i] = s[i]
  BY Zenon DEF Joined
<1>2. z # <<>>
  <2>1. Len(z) # 0
    BY <1>1
  <2>2. Len(<<>>) = 0
    OBVIOUS
  <2>. QED
    BY <2>1, <2>2, Zenon
<1>3. SubSeq(z, 1, 4) = q
  <2>1. \A i \in 1 .. 4 : i \in 1 .. Len(z) /\ 1 + i - 1 = i
    BY <1>1
  <2>2. SubSeq(z, 1, 4) \in Seq(Int) /\ Len(SubSeq(z, 1, 4)) = 4
        /\ \A i \in 1 .. 4 : SubSeq(z, 1, 4)[i] = z[1 + i - 1]
    BY <1>1, <2>1, SubSeqProperties
  <2>3. \A i \in 1 .. 4 : SubSeq(z, 1, 4)[i] = q[i]
    BY <1>1, <2>1, <2>2, Zenon
  <2>. QED
    BY <2>2, <2>3, SeqEqual
<1>4. SubSeq(z, 5, Len(z)) = s
  <2>. DEFINE y == SubSeq(z, 5, Len(z))
  <2>1. \A i \in 1 .. Len(s) : 5 + i - 1 = 4 + i
    BY <1>1
  <2>2. y \in Seq(Int) /\ Len(y) = Len(s) /\ \A i \in 1 .. Len(s) : y[i] = z[5 + i - 1]
    <3>1. \A i \in 5 .. Len(z) : i \in 1 .. Len(z)
      BY <1>1
    <3>2. 5 \in Int /\ Len(z) \in Int /\ (IF 5 <= Len(z) THEN Len(z) - 5 + 1 ELSE 0) = Len(s)
      BY <1>1
    <3>3. \A i \in 5 .. Len(z) : z[i] \in Int
      BY <1>1, <3>1
    <3>4. /\ y \in Seq(Int) /\ Len(y) = IF 5 <= Len(z) THEN Len(z) - 5 + 1 ELSE 0
          /\ \A i \in 1 .. Len(z) - 5 + 1 : y[i] = z[5 + i - 1]
      BY <3>2, <3>3, SubSeqProperties
    <3>5. Len(z) - 5 + 1 = Len(s)
      BY <1>1
    <3>. QED
      BY <3>2, <3>4, <3>5, Zenon
  <2>3. \A i \in 1 .. Len(s) : y[i] = s[i]
    BY <1>1, <2>1, <2>2, Zenon
  <2>. QED
    BY <2>2, <2>3, SeqEqual
<1>. QED
  BY <1>2, <1>3, <1>4

(* While it is read back: w is still to come, and stands for t.            *)
InRanges(v, rs) ==
    /\ rs \in Seq(Seq(Int)) /\ Len(rs) = Len(v)
    /\ \A i \in 1 .. Len(v) : v[i] \in rs[i][1] .. rs[i][2]

Rest(w) == w \o <<Quote>>

AtStart(t, w) ==
    /\ scanner \in {"bom", "scan"} /\ token_buffer = <<>> /\ text = t
    /\ Led(Quote, Rest(w), output)

InString(t, w) == scanner = "string" /\ text = token_buffer \o t /\ output = Rest(w)

(* The character n is escaped.                                             *)
AtEscape(t, w, n) ==
    /\ scanner = "escape" /\ text = (token_buffer \o <<n>>) \o t
    /\ \/ \E e \in DOMAIN Escapes : Escapes[e] = n /\ Led(e, Rest(w), output)
       \/ n \in Coded /\ Led(LetterU, DigitsOf(n) \o Rest(w), output)

AtDigits(t, w, n) ==
    /\ scanner = "u" /\ text = (token_buffer \o <<n>>) \o t
    /\ n \in Coded /\ output = DigitsOf(n) \o Rest(w)

(* v are the bytes of a code point that are still to come.                 *)
InBytes(t, w, v) ==
    /\ scanner = "bytes" /\ text = (token_buffer \o v) \o t
    /\ v \in Seq(Int) /\ Len(v) # 0 /\ output = v \o Rest(w) /\ InRanges(v, ranges)

Reading(t, w) ==
    \/ AtStart(t, w)
    \/ InString(t, w)
    \/ \E n \in Int : AtEscape(t, w, n) \/ AtDigits(t, w, n)
    \/ \E v : InBytes(t, w, v)

BeingRead ==
    \/ token_buffer \in Seq(Int) /\ \E t, w : Spelled(t, w) /\ Reading(t, w)
    \/ scanner = "scanned" /\ output = <<>> /\ token = [type |-> "value_string", value |-> text]

LEMMA RestType ==
    ASSUME NEW t, NEW w, Spelled(t, w)
    PROVE  Rest(w) \in Seq(Int)
BY SpelledType, QuoteType, JoinedText, Zenon DEF Rest

(* ReadAgain at each of the places.                                        *)
LEMMA ReadsOn ==
    ASSUME ReadAgain, scanner # "u", NEW c \in Int, NEW s \in Seq(Int), Led(c, s, output)
    PROVE  /\ output' = s /\ text' = text
           /\ Dispatch(c) \/ StringChar(c) \/ NextByte(c) \/ Escape(c)
<1>1. Head(output) = c /\ Tail(output) = s
  BY LedBy, Zenon
<1>2. /\ output' = Tail(output) /\ text' = text
      /\ Dispatch(Head(output)) \/ StringChar(Head(output)) \/ NextByte(Head(output)) \/ Escape(Head(output))
  BY Zenon DEF ReadAgain, stringVars
<1>. QED
  BY <1>1, <1>2, Zenon

LEMMA StartReads ==
    ASSUME ReadAgain, NEW t, NEW w, Spelled(t, w), AtStart(t, w)
    PROVE  token_buffer' \in Seq(Int) /\ InString(t, w)'
<1>1. scanner \in {"bom", "scan"} /\ token_buffer = <<>> /\ text = t /\ Led(Quote, Rest(w), output)
  BY Zenon DEF AtStart
<1>2. scanner \notin {"u", "string", "bytes", "escape"}
  BY <1>1
<1>3. /\ output' = Rest(w) /\ text' = text
      /\ Dispatch(Quote) \/ StringChar(Quote) \/ NextByte(Quote) \/ Escape(Quote)
  BY <1>1, <1>2, RestType, QuoteType, ReadsOn
<1>4. Dispatch(Quote)
  BY <1>2, <1>3, Zenon DEF StringChar, NextByte, Escape
<1>5. /\ Quote \notin Space /\ Quote \notin DOMAIN Structural /\ Quote # Minus /\ Quote \notin Digits
      /\ Quote \notin {0, Eof}
  BY DEF Quote, Space, Structural, Minus, Digits, Eof
<1>6. scanner' = "string" /\ token_buffer' = token_buffer
  BY <1>4, <1>5, Zenon DEF Dispatch
<1>7. t \in Seq(Int) /\ t = <<>> \o t /\ <<>> \in Seq(Int)
  BY SpelledType, NoneJoined, Zenon
<1>. QED
  BY <1>1, <1>3, <1>6, <1>7, Zenon DEF InString

LEMMA EscapeReads ==
    ASSUME ReadAgain, NEW t, NEW w, Spelled(t, w), NEW n \in Int, AtEscape(t, w, n),
           token_buffer \in Seq(Int)
    PROVE  token_buffer' \in Seq(Int) /\ (InString(t, w) \/ AtDigits(t, w, n))'
<1>1. scanner = "escape" /\ text = (token_buffer \o <<n>>) \o t
  BY Zenon DEF AtEscape
<1>2. scanner \notin {"u", "string", "bytes", "bom", "scan"}
  BY <1>1
<1>3. LetterU \notin DOMAIN Escapes /\ LetterU \in Int
  BY DEF Escapes, LetterU, Quote, Backslash, Solidus
<1>4. DOMAIN Escapes \subseteq Int
  BY DEF Escapes, Quote, Backslash, Solidus
<1>5. Rest(w) \in Seq(Int)
  BY RestType, Zenon
<1>6. ASSUME NEW e \in DOMAIN Escapes, Escapes[e] = n, Led(e, Rest(w), output)
      PROVE  token_buffer' \in Seq(Int) /\ InString(t, w)'
  <2>1. e \in Int
    BY <1>4
  <2>2. /\ output' = Rest(w) /\ text' = text
        /\ Dispatch(e) \/ StringChar(e) \/ NextByte(e) \/ Escape(e)
    BY <1>2, <1>5, <1>6, <2>1, ReadsOn
  <2>3. Escape(e)
    BY <1>2, <2>2, Zenon DEF Dispatch, StringChar, NextByte
  <2>4. token_buffer' = Append(token_buffer, n) /\ scanner' = "string"
    BY <1>3, <1>6, <2>3, Zenon DEF Escape
  <2>5. Append(token_buffer, n) = token_buffer \o <<n>> /\ Append(token_buffer, n) \in Seq(Int)
    <3>1. Append(token_buffer, n) \in Seq(Int)
      BY AppendProperties
    <3>. QED
      BY <3>1, AppendIsJoined, Zenon
  <2>. QED
    BY <1>1, <2>2, <2>4, <2>5, Zenon DEF InString
<1>7. ASSUME n \in Coded, Led(LetterU, DigitsOf(n) \o Rest(w), output)
      PROVE  token_buffer' \in Seq(Int) /\ AtDigits(t, w, n)'
  <2>1. DigitsOf(n) \o Rest(w) \in Seq(Int)
    <3>1. DigitsOf(n) \in Seq(Int)
      BY <1>7, CodedIs, Zenon
    <3>. QED
      BY <1>5, <3>1, JoinedText, Zenon
  <2>2. /\ output' = DigitsOf(n) \o Rest(w) /\ text' = text
        /\ Dispatch(LetterU) \/ StringChar(LetterU) \/ NextByte(LetterU) \/ Escape(LetterU)
    BY <1>2, <1>3, <1>7, <2>1, ReadsOn
  <2>3. Escape(LetterU)
    BY <1>2, <2>2, Zenon DEF Dispatch, StringChar, NextByte
  <2>4. token_buffer' = token_buffer /\ scanner' = "u"
    BY <1>3, <2>3, Zenon DEF Escape
  <2>. QED
    BY <1>1, <1>7, <2>2, <2>4, Zenon DEF AtDigits
<1>. QED
  BY <1>6, <1>7, Zenon DEF AtEscape

LEMMA DigitsRead ==
    ASSUME ReadAgain, NEW t, NEW w, Spelled(t, w), NEW n \in Int, AtDigits(t, w, n),
           token_buffer \in Seq(Int)
    PROVE  token_buffer' \in Seq(Int) /\ InString(t, w)'
<1>1. scanner = "u" /\ text = (token_buffer \o <<n>>) \o t /\ n \in Coded
      /\ output = DigitsOf(n) \o Rest(w)
  BY Zenon DEF AtDigits
<1>. DEFINE q == DigitsOf(n)
<1>2. q \in Seq(Int) /\ Len(q) = 4 /\ Codepoint(q) = n
  BY <1>1, CodedIs, Zenon
<1>3. SubSeq(output, 1, 4) = q /\ SubSeq(output, 5, Len(output)) = Rest(w)
  <2>1. Rest(w) \in Seq(Int)
    BY RestType, Zenon
  <2>2. Joined(Int, q, Rest(w), output)
    BY <1>1, <1>2, <2>1, JoinedText, Zenon
  <2>. QED
    BY <1>2, <2>1, <2>2, FirstFour, Zenon
<1>. HIDE DEF q
<1>4. /\ output' = Rest(w) /\ text' = text /\ UnicodeEscape(q)
  BY <1>1, <1>3, Zenon DEF ReadAgain, stringVars
<1>5. n \notin High /\ n \notin Low \cup {-1} /\ n >= 0 /\ n < 128
  <2>1. \A k \in Coded : k >= 0 /\ k < 128 /\ k \in Int
    BY DEF Coded
  <2>2. n >= 0 /\ n < 128
    BY <1>1, <2>1, Zenon
  <2>3. n \notin High /\ n \notin Low
    BY <2>2, SMT DEF High, Low
  <2>4. n # -1
    BY <2>2
  <2>. QED
    BY <2>2, <2>3, <2>4, Zenon
<1>6. token_buffer' = token_buffer \o Utf8(n) /\ scanner' = "string"
  BY <1>2, <1>4, <1>5, Zenon DEF UnicodeEscape
<1>7. Utf8(n) = <<n>>
  BY <1>5, Utf8Is, SMT
<1>8. token_buffer \o <<n>> \in Seq(Int)
  BY OneElement, JoinedText, Zenon
<1>. QED
  BY <1>1, <1>4, <1>6, <1>7, <1>8, Zenon DEF InString

LEMMA BytesRead ==
    ASSUME ReadAgain, NEW t, NEW w, Spelled(t, w), NEW v, InBytes(t, w, v),
           token_buffer \in Seq(Int)
    PROVE  token_buffer' \in Seq(Int) /\ (InString(t, w) \/ \E x : InBytes(t, w, x))'
<1>1. /\ scanner = "bytes" /\ text = (token_buffer \o v) \o t
      /\ v \in Seq(Int) /\ Len(v) # 0 /\ output = v \o Rest(w) /\ InRanges(v, ranges)
  BY Zenon DEF InBytes
<1>. DEFINE c == v[1]
            x == Tail(v)
<1>2. c \in Int /\ x \in Seq(Int) /\ Led(c, x, v)
  BY <1>1, LedBySelf, Zenon
<1>3. Rest(w) \in Seq(Int) /\ t \in Seq(Int)
  BY RestType, SpelledType, Zenon
<1>4. Len(v) \in Nat /\ v # <<>> /\ Len(x) = Len(v) - 1 /\ \A i \in 1 .. Len(v) - 1 : x[i] = v[i + 1]
  <2>1. v # <<>>
    BY <1>1
  <2>. QED
    BY <1>1, <2>1, Shortened, Zenon
<1>. HIDE DEF c, x
<1>5. Led(c, x \o Rest(w), output) /\ x \o Rest(w) \in Seq(Int)
  <2>. DEFINE h == <<c>>
              r == Rest(w)
  <2>1. h \in Seq(Int) /\ x \in Seq(Int) /\ r \in Seq(Int)
    BY <1>2, <1>3, OneElement, Zenon
  <2>2. output = (h \o x) \o r
    BY <1>1, <1>2, Zenon DEF Led
  <2>. HIDE DEF h, r
  <2>3. (h \o x) \o r = h \o (x \o r)
    BY <2>1, UnitsAssociate, ZenonT(60)
  <2>4. x \o r \in Seq(Int)
    BY <2>1, JoinedText, Zenon
  <2>. QED
    BY <2>2, <2>3, <2>4, Zenon DEF Led, h, r
<1>6. scanner \notin {"u", "string", "escape", "bom", "scan"}
  BY <1>1
<1>7. /\ output' = x \o Rest(w) /\ text' = text
      /\ Dispatch(c) \/ StringChar(c) \/ NextByte(c) \/ Escape(c)
  BY <1>2, <1>5, <1>6, ReadsOn
<1>8. NextByte(c)
  BY <1>6, <1>7, Zenon DEF Dispatch, StringChar, Escape
<1>9. /\ ranges \in Seq(Seq(Int)) /\ Len(ranges) = Len(v)
      /\ \A i \in 1 .. Len(v) : v[i] \in ranges[i][1] .. ranges[i][2]
  BY <1>1, Zenon DEF InRanges
<1>10. /\ Head(ranges) = ranges[1] /\ Tail(ranges) \in Seq(Seq(Int))
       /\ Len(Tail(ranges)) = Len(ranges) - 1
       /\ \A i \in 1 .. Len(ranges) - 1 : Tail(ranges)[i] = ranges[i + 1]
  <2>. DEFINE S == Seq(Int)
  <2>1. ranges # <<>>
    BY <1>1, <1>9
  <2>2. ranges \in Seq(S)
    BY <1>9
  <2>. HIDE DEF S
  <2>3. /\ Head(ranges) = ranges[1] /\ Tail(ranges) \in Seq(S)
        /\ Len(Tail(ranges)) = Len(ranges) - 1
        /\ \A i \in 1 .. Len(ranges) - 1 : Tail(ranges)[i] = ranges[i + 1]
    BY <2>1, <2>2, Shortened, Zenon
  <2>. QED
    BY <2>3 DEF S
<1>11. c \in Head(ranges)[1] .. Head(ranges)[2]
  <2>1. 1 \in 1 .. Len(v)
    BY <1>1, <1>4
  <2>. QED
    BY <1>9, <1>10, <2>1, Zenon DEF c
<1>12. /\ token_buffer' = Append(token_buffer, c) /\ ranges' = Tail(ranges)
       /\ scanner' = IF Len(ranges) = 1 THEN "string" ELSE "bytes"
  BY <1>8, <1>11, Zenon DEF NextByte
<1>13. token_buffer' \in Seq(Int) /\ text' = (token_buffer' \o x) \o t
  <2>1. Append(token_buffer, c) \in Seq(Int) /\ Append(token_buffer, c) = token_buffer \o <<c>>
    <3>1. Append(token_buffer, c) \in Seq(Int)
      BY <1>2, AppendProperties
    <3>. QED
      BY <1>2, <3>1, AppendIsJoined, Zenon
  <2>. DEFINE h == <<c>>
  <2>2. h \in Seq(Int) /\ v = h \o x
    BY <1>2, OneElement, Zenon DEF Led
  <2>. HIDE DEF h
  <2>3. (token_buffer \o h) \o x = token_buffer \o (h \o x)
    BY <1>2, <2>2, UnitsAssociate, Zenon
  <2>. QED
    BY <1>1, <1>7, <1>12, <2>1, <2>2, <2>3, Zenon DEF h
<1>14. CASE Len(v) = 1
  <2>1. x = <<>>
    <3>1. Len(x) = 0
      BY <1>4, <1>14
    <3>. QED
      BY <1>2, <3>1
  <2>2. scanner' = "string"
    BY <1>9, <1>12, <1>14, Zenon
  <2>3. token_buffer' \o <<>> = token_buffer' /\ <<>> \o Rest(w) = Rest(w)
    BY <1>3, <1>13, NoneJoined, Zenon
  <2>. QED
    BY <1>7, <1>13, <2>1, <2>2, <2>3, Zenon DEF InString
<1>15. CASE Len(v) # 1
  <2>1. scanner' = "bytes"
    BY <1>9, <1>12, <1>15, Zenon
  <2>2. Len(x) # 0
    BY <1>4, <1>15
  <2>3. InRanges(x, ranges')
    <3>1. Len(Tail(ranges)) = Len(x)
      BY <1>4, <1>9, <1>10
    <3>2. ASSUME NEW i \in 1 .. Len(x)
          PROVE  x[i] \in Tail(ranges)[i][1] .. Tail(ranges)[i][2]
      <4>1. i \in 1 .. Len(v) - 1 /\ i \in 1 .. Len(ranges) - 1 /\ i + 1 \in 1 .. Len(v)
        BY <1>4, <1>9
      <4>2. x[i] = v[i + 1] /\ Tail(ranges)[i] = ranges[i + 1]
        BY <1>4, <1>10, <4>1, Zenon
      <4>3. v[i + 1] \in ranges[i + 1][1] .. ranges[i + 1][2]
        BY <1>9, <4>1, Zenon
      <4>. QED
        BY <4>2, <4>3, Zenon
    <3>. QED
      BY <1>10, <1>12, <3>1, <3>2, Zenon DEF InRanges
  <2>4. InBytes(t, w, x)'
    BY <1>2, <1>7, <1>13, <2>1, <2>2, <2>3, Zenon DEF InBytes
  <2>. QED
    BY <1>13, <2>4, Zenon
<1>. QED
  BY <1>14, <1>15, Zenon

(* What comes first of the string, when something does.                    *)
LEMMA OutputIs ==
    ASSUME NEW u \in Codes, NEW x, NEW y, Spelled(x, y), NEW w, w = Shown(u) \o y
    PROVE  Rest(w) = Shown(u) \o Rest(y)
<1>. DEFINE s == Shown(u)
            q == <<Quote>>
<1>1. s \in Seq(Int) /\ y \in Seq(Int) /\ q \in Seq(Int)
  BY ShownType, SpelledType, QuoteType, Zenon
<1>. HIDE DEF s, q
<1>2. (s \o y) \o q = s \o (y \o q)
  BY <1>1, UnitsAssociate, Zenon
<1>. QED
  BY <1>2, Zenon DEF Rest, s, q

LEMMA TextIs ==
    ASSUME NEW b \in Seq(Int), NEW u \in Codes, NEW x, NEW y, Spelled(x, y)
    PROVE  b \o (u \o x) = (b \o u) \o x /\ b \o u \in Seq(Int)
<1>1. x \in Seq(Int) /\ u \in Seq(Int)
  BY SpelledType, CodeLength, Zenon
<1>2. b \o (u \o x) = (b \o u) \o x
  BY <1>1, UnitsAssociate, Zenon
<1>. QED
  BY <1>1, <1>2, JoinedText, Zenon

LEMMA PairJoined == \A a, b \in Int : <<a, b>> = <<a>> \o <<b>>
<1>. TAKE a, b \in Int
<1>. DEFINE s == <<a, b>>
            t == <<a>> \o <<b>>
<1>1. s \in Seq(Int) /\ Len(s) = 2 /\ s[1] = a /\ s[2] = b
  OBVIOUS
<1>2. t \in Seq(Int) /\ Len(t) = 2 /\ t[1] = a /\ t[2] = b
  <2>1. /\ <<a>> \in Seq(Int) /\ Len(<<a>>) = 1 /\ <<a>>[1] = a
        /\ <<b>> \in Seq(Int) /\ Len(<<b>>) = 1 /\ <<b>>[1] = b
    OBVIOUS
  <2>2. Joined(Int, <<a>>, <<b>>, t)
    BY <2>1, JoinedText, Zenon
  <2>3. 1 \in 1 .. 1 /\ 1 + 1 = 2
    OBVIOUS
  <2>. QED
    BY <2>1, <2>2, <2>3, Zenon DEF Joined
<1>. HIDE DEF s, t
<1>3. \A i \in 1 .. 2 : i = 1 \/ i = 2
  OBVIOUS
<1>4. \A i \in 1 .. 2 : s[i] = t[i]
  BY <1>1, <1>2, <1>3, Zenon
<1>5. s = t
  BY <1>1, <1>2, <1>4, SeqEqual
<1>. QED
  BY <1>5, Zenon DEF s, t

LEMMA CharsApart ==
    /\ Quote \notin PlainChars /\ Backslash \notin PlainChars /\ Backslash # Quote
    /\ Quote \notin 194 .. 244 /\ Backslash \notin 194 .. 244
    /\ Quote \notin {Eof} \cup ControlChars \cup IllFormed
    /\ Backslash \notin {Eof} \cup ControlChars \cup IllFormed
    /\ \A c \in PlainChars : c \in Int /\ c # Quote /\ c # Backslash /\ c \notin 194 .. 244
                             /\ c \notin {Eof} \cup ControlChars \cup IllFormed
    /\ \A c \in 194 .. 244 : c \in Int /\ c # Quote /\ c # Backslash /\ c \notin PlainChars
                             /\ c \notin {Eof} \cup ControlChars \cup IllFormed
<1>1. /\ Quote \notin PlainChars /\ Backslash \notin PlainChars /\ Backslash # Quote
      /\ Quote \notin 194 .. 244 /\ Backslash \notin 194 .. 244
      /\ Quote \notin {Eof} \cup ControlChars \cup IllFormed
      /\ Backslash \notin {Eof} \cup ControlChars \cup IllFormed
  BY DEF PlainChars, Quote, Backslash, Eof, ControlChars, IllFormed
<1>2. \A c \in PlainChars : c \in Int /\ c # Quote /\ c # Backslash /\ c \notin 194 .. 244
                             /\ c \notin {Eof} \cup ControlChars \cup IllFormed
  BY DEF PlainChars, Quote, Backslash, Eof, ControlChars, IllFormed
<1>3. \A c \in 194 .. 244 : c \in Int /\ c # Quote /\ c # Backslash /\ c \notin PlainChars
                             /\ c \notin {Eof} \cup ControlChars \cup IllFormed
  BY DEF PlainChars, Quote, Backslash, Eof, ControlChars, IllFormed
<1>. QED
  BY <1>1, <1>2, <1>3

(* A quote that is read ends the string.                                   *)
LEMMA QuoteReads ==
    ASSUME ReadAgain, InString(<<>>, <<>>), token_buffer \in Seq(Int)
    PROVE  BeingRead'
<1>1. scanner = "string" /\ text = token_buffer \o <<>> /\ output = Rest(<<>>)
  BY Zenon DEF InString
<1>2. text = token_buffer /\ Led(Quote, <<>>, output) /\ <<>> \in Seq(Int)
  <2>1. <<>> \o <<Quote>> = <<Quote>> /\ <<Quote>> \o <<>> = <<Quote>>
    BY QuoteType, NoneJoined, Zenon
  <2>. QED
    BY <1>1, <2>1, NoneJoined, Zenon DEF Rest, Led
<1>3. scanner \notin {"u", "bytes", "escape", "bom", "scan"}
  BY <1>1
<1>4. /\ output' = <<>> /\ text' = text
      /\ Dispatch(Quote) \/ StringChar(Quote) \/ NextByte(Quote) \/ Escape(Quote)
  BY <1>2, <1>3, QuoteType, ReadsOn
<1>5. StringChar(Quote)
  BY <1>3, <1>4, Zenon DEF Dispatch, NextByte, Escape
<1>6. Return([type |-> "value_string", value |-> token_buffer])
  BY <1>5, CharsApart, Zenon DEF StringChar
<1>. QED
  BY <1>2, <1>4, <1>6, Zenon DEF Return, BeingRead

(* A character, an escape or the first byte of several.                    *)
LEMMA CodeReads ==
    ASSUME ReadAgain, token_buffer \in Seq(Int), scanner = "string",
           NEW u \in Codes, NEW x, NEW y, Spelled(x, y),
           text = token_buffer \o (u \o x), output = Shown(u) \o Rest(y)
    PROVE  token_buffer' \in Seq(Int) /\ Reading(x, y)'
<1>1. scanner \notin {"u", "bytes", "escape", "bom", "scan"}
  OBVIOUS
<1>2. Rest(y) \in Seq(Int) /\ x \in Seq(Int) /\ u \in Seq(Int)
  BY RestType, SpelledType, CodeLength, ZenonT(60)
<1>3. text = (token_buffer \o u) \o x /\ token_buffer \o u \in Seq(Int)
  BY TextIs, Zenon
<1>4. ASSUME NEW c \in Int, NEW s \in Seq(Int), Led(c, s, output)
      PROVE  output' = s /\ text' = text /\ StringChar(c)
  <2>1. /\ output' = s /\ text' = text
        /\ Dispatch(c) \/ StringChar(c) \/ NextByte(c) \/ Escape(c)
    BY <1>1, <1>4, ReadsOn
  <2>. QED
    BY <1>1, <2>1, Zenon DEF Dispatch, NextByte, Escape
<1>5. CASE OneByte(u)
  <2>. DEFINE n == u[1]
  <2>1. Len(u) = 1 /\ n \in 0 .. 127 /\ n \in Int
    <3>1. \A k \in 0 .. 127 : k \in Int
      OBVIOUS
    <3>. QED
      BY <1>5, <3>1, Zenon DEF OneByte
  <2>2. u = <<n>> /\ Shown(u) = WrittenAs(n, n)
    <3>1. u = <<n>>
      BY <1>2, <2>1
    <3>. QED
      BY <2>1, <3>1, Zenon DEF Shown
  <2>. HIDE DEF n
  <2>3. ASSUME NEW s \in Seq(Int), Led(Backslash, s, output)
        PROVE  /\ output' = s /\ text' = (token_buffer' \o <<n>>) \o x
               /\ token_buffer' = token_buffer /\ scanner' = "escape"
    <3>1. output' = s /\ text' = text /\ StringChar(Backslash)
      <4>1. Backslash \in Int
        BY DEF Backslash
      <4>. QED
        BY <1>4, <2>3, <4>1
    <3>2. scanner' = "escape" /\ token_buffer' = token_buffer
      BY <3>1, CharsApart, Zenon DEF StringChar
    <3>. QED
      BY <1>3, <2>2, <3>1, <3>2, Zenon
  <2>4. CASE n \in Named
    <3>. DEFINE e == LetterOf(n)
                h == <<Backslash>>
                l == <<e>>
                r == Rest(y)
    <3>1. e \in DOMAIN Escapes /\ Escapes[e] = n /\ e \in Int /\ Shown(u) = <<Backslash, e>>
      BY <2>1, <2>2, <2>4, NamedIs, WrittenIs, Zenon
    <3>2. h \in Seq(Int) /\ l \in Seq(Int) /\ <<Backslash, e>> = h \o l /\ r \in Seq(Int)
      <4>1. Backslash \in Int
        BY DEF Backslash
      <4>2. <<Backslash, e>> = h \o l
        OBVIOUS
      <4>. QED
        BY <1>2, <3>1, <4>1, <4>2, OneElement, Zenon
    <3>. HIDE DEF h, l, r
    <3>3. (h \o l) \o r = h \o (l \o r) /\ l \o r \in Seq(Int)
      BY <3>2, UnitsAssociate, JoinedText, Zenon
    <3>4. Led(Backslash, l \o r, output)
      BY <3>1, <3>2, <3>3, Zenon DEF Led, h, r
    <3>5. /\ output' = l \o r /\ text' = (token_buffer' \o <<n>>) \o x
          /\ token_buffer' = token_buffer /\ scanner' = "escape"
      BY <2>3, <3>3, <3>4
    <3>6. AtEscape(x, y, n)'
      BY <3>1, <3>5, Zenon DEF AtEscape, Led, l, r
    <3>. QED
      BY <2>1, <3>5, <3>6, Zenon DEF Reading
  <2>5. CASE n \in Coded
    <3>. DEFINE d == DigitsOf(n)
                h == <<Backslash>>
                l == <<LetterU>>
                g == <<Backslash, LetterU>>
                r == Rest(y)
    <3>1. d \in Seq(Int) /\ Shown(u) = g \o d
      BY <2>1, <2>2, <2>5, CodedIs, WrittenIs, Zenon
    <3>2. h \in Seq(Int) /\ l \in Seq(Int) /\ g = h \o l /\ r \in Seq(Int) /\ g \in Seq(Int)
      <4>1. Backslash \in Int /\ LetterU \in Int
        BY DEF Backslash, LetterU
      <4>2. g = h \o l
        BY <4>1, PairJoined, Zenon
      <4>3. g \in Seq(Int)
        BY <4>1
      <4>. QED
        BY <1>2, <4>1, <4>2, <4>3, OneElement, Zenon
    <3>. HIDE DEF d, h, l, g, r
    <3>3. d \o r \in Seq(Int)
      BY <3>1, <3>2, JoinedText, Zenon
    <3>. DEFINE k == d \o r
    <3>4. (g \o d) \o r = g \o k
      BY <3>1, <3>2, UnitsAssociate, ZenonT(60)
    <3>5. k \in Seq(Int)
      BY <3>3
    <3>. HIDE DEF k
    <3>6. (h \o l) \o k = h \o (l \o k) /\ l \o k \in Seq(Int)
      <4>1. h \in Seq(Int) /\ l \in Seq(Int) /\ k \in Seq(Int)
        BY <3>2, <3>5, Zenon
      <4>2. (h \o l) \o k = h \o (l \o k)
        BY <4>1, UnitsAssociate, ZenonT(60)
      <4>3. l \o k \in Seq(Int)
        BY <4>1, JoinedText, Zenon
      <4>. QED
        BY <4>2, <4>3, Zenon
    <3>7. Led(Backslash, l \o k, output)
      BY <3>1, <3>2, <3>4, <3>6, Zenon DEF Led, h, r
    <3>8. /\ output' = l \o k /\ text' = (token_buffer' \o <<n>>) \o x
          /\ token_buffer' = token_buffer /\ scanner' = "escape"
      BY <2>3, <3>6, <3>7
    <3>9. AtEscape(x, y, n)'
      BY <2>5, <3>8, Zenon DEF AtEscape, Led, l, k, d, r
    <3>. QED
      BY <2>1, <3>8, <3>9, Zenon DEF Reading
  <2>6. CASE n \notin Named \cup Coded
    <3>1. Shown(u) = <<n>> /\ n \in PlainChars
      BY <2>1, <2>2, <2>6, WrittenIs, Zenon
    <3>2. Led(n, Rest(y), output)
      BY <3>1, Zenon DEF Led
    <3>3. output' = Rest(y) /\ text' = text /\ StringChar(n)
      BY <1>2, <1>4, <2>1, <3>2
    <3>4. token_buffer' = Append(token_buffer, n) /\ scanner' = scanner
      BY <3>1, <3>3, CharsApart, ZenonT(60) DEF StringChar
    <3>5. Append(token_buffer, n) = token_buffer \o u
      BY <2>1, <2>2, AppendIsJoined, Zenon
    <3>6. InString(x, y)'
      BY <1>3, <3>3, <3>4, <3>5, Zenon DEF InString
    <3>. QED
      BY <1>3, <3>4, <3>5, <3>6, Zenon DEF Reading
  <2>. QED
    BY <2>4, <2>5, <2>6, Zenon
<1>6. CASE Encoding(u)
  <2>. DEFINE c == u[1]
              v == Tail(u)
              e == Extra(c)
  <2>1. /\ c \in 194 .. 244 /\ Len(u) = 1 + e
        /\ u[2] \in Least(c) .. Most(c)
        /\ \A i \in 3 .. Len(u) : u[i] \in 128 .. 191
    BY <1>6, Zenon DEF Encoding
  <2>2. e \in 1 .. 3 /\ c \in Int
    <3>1. \A k \in 194 .. 244 : Extra(k) \in 1 .. 3 /\ k \in Int
      BY DEF Extra
    <3>. QED
      BY <2>1, <3>1, Zenon
  <2>3. Len(u) # 1 /\ Len(u) # 0 /\ Len(u) \in 2 .. 4
    BY <2>1, <2>2
  <2>4. v \in Seq(Int) /\ Led(c, v, u) /\ Shown(u) = u
    BY <1>2, <2>3, LedBySelf, ShownType, Zenon
  <2>5. Len(v) = e /\ \A i \in 1 .. e : v[i] = u[i + 1]
    <3>1. u # <<>>
      BY <2>3
    <3>2. Len(v) = Len(u) - 1 /\ \A i \in 1 .. Len(u) - 1 : v[i] = u[i + 1]
      BY <1>2, <3>1, Shortened, Zenon
    <3>3. Len(u) - 1 = e
      BY <2>1, <2>2
    <3>. QED
      BY <3>2, <3>3, Zenon
  <2>. DEFINE h == <<c>>
              r == Rest(y)
  <2>6. h \in Seq(Int) /\ r \in Seq(Int) /\ u = h \o v
    BY <1>2, <2>2, <2>4, OneElement, Zenon DEF Led
  <2>. HIDE DEF h, r, v, c, e
  <2>7. (h \o v) \o r = h \o (v \o r) /\ v \o r \in Seq(Int)
    BY <2>4, <2>6, UnitsAssociate, JoinedText, Zenon
  <2>8. Led(c, v \o r, output)
    BY <2>4, <2>6, <2>7, Zenon DEF Led, h, r
  <2>9. output' = v \o r /\ text' = text /\ StringChar(c)
    BY <1>4, <2>2, <2>7, <2>8
  <2>10. /\ token_buffer' = Append(token_buffer, c) /\ ranges' = Ranges(c) /\ scanner' = "bytes"
    <3>1. c # Quote /\ c # Backslash /\ c \notin PlainChars
          /\ c \notin {Eof} \cup ControlChars \cup IllFormed
      <4>1. \A k \in 194 .. 244 : k # Quote /\ k # Backslash /\ k \notin PlainChars
                                  /\ k \notin {Eof} \cup ControlChars \cup IllFormed
        BY CharsApart, Zenon
      <4>2. c \in 194 .. 244
        BY <2>1, Zenon
      <4>. QED
        BY <4>1, <4>2, Zenon
    <3>2. StringChar(c)
      BY <2>9, Zenon
    <3>. QED
      BY <3>1, <3>2, Zenon DEF StringChar
  <2>11. /\ Append(token_buffer, c) = token_buffer \o h
         /\ Append(token_buffer, c) \in Seq(Int)
         /\ (token_buffer \o h) \o v = token_buffer \o u
    <3>1. Append(token_buffer, c) \in Seq(Int)
      BY <2>2, AppendProperties
    <3>2. (token_buffer \o h) \o v = token_buffer \o (h \o v)
      BY <2>4, <2>6, UnitsAssociate, Zenon
    <3>3. Append(token_buffer, c) = token_buffer \o <<c>>
      BY <2>2, AppendIsJoined, Zenon
    <3>. QED
      BY <2>6, <3>1, <3>2, <3>3, Zenon DEF h
  <2>12. text' = (token_buffer' \o v) \o x
    BY <1>3, <2>9, <2>10, <2>11, Zenon
  <2>13. InRanges(v, Ranges(c))
    <3>1. /\ Ranges(c) \in Seq(Seq(Int)) /\ Len(Ranges(c)) = e
          /\ Ranges(c)[1][1] = Least(c) /\ Ranges(c)[1][2] = Most(c)
          /\ \A i \in 2 .. e : Ranges(c)[i][1] = 128 /\ Ranges(c)[i][2] = 191
      <4>1. /\ Ranges(c) \in Seq(Seq(Int)) /\ Len(Ranges(c)) = Extra(c)
            /\ Ranges(c)[1][1] = Least(c) /\ Ranges(c)[1][2] = Most(c)
            /\ \A i \in 2 .. Extra(c) : Follows(Ranges(c)[i])
        BY <2>1, RangesAre
      <4>2. \A i \in 2 .. e : Ranges(c)[i][1] = 128 /\ Ranges(c)[i][2] = 191
        BY <4>1, Zenon DEF Follows, e
      <4>. QED
        BY <4>1, <4>2, Zenon DEF e
    <3>2. ASSUME NEW i \in 1 .. Len(v)
          PROVE  v[i] \in Ranges(c)[i][1] .. Ranges(c)[i][2]
      <4>1. i \in 1 .. e /\ v[i] = u[i + 1]
        BY <2>5, Zenon
      <4>2. CASE i = 1
        <5>1. i + 1 = 2
          BY <4>2
        <5>. QED
          BY <2>1, <3>1, <4>1, <4>2, <5>1, Zenon
      <4>3. CASE i # 1
        <5>1. i \in 2 .. e /\ i + 1 \in 3 .. Len(u)
          BY <2>1, <2>2, <4>1, <4>3
        <5>2. u[i + 1] \in 128 .. 191
          BY <2>1, <5>1, Zenon
        <5>3. Ranges(c)[i][1] = 128 /\ Ranges(c)[i][2] = 191
          BY <3>1, <5>1, ZenonT(60)
        <5>. QED
          BY <4>1, <5>2, <5>3, Zenon
      <4>. QED
        BY <4>2, <4>3
    <3>. QED
      BY <2>5, <3>1, <3>2, Zenon DEF InRanges
  <2>14. Len(v) # 0
    BY <2>2, <2>5
  <2>15. InBytes(x, y, v)'
    BY <2>4, <2>9, <2>10, <2>12, <2>13, <2>14, Zenon DEF InBytes, r
  <2>. QED
    BY <2>10, <2>11, <2>15, Zenon DEF Reading
<1>. QED
  BY <1>5, <1>6, Zenon DEF Codes

LEMMA BeingReadStep ==
    ASSUME BeingRead, ReadAgain
    PROVE  BeingRead'
<1>1. scanner # "scanned"
  BY Zenon DEF ReadAgain
<1>2. token_buffer \in Seq(Int) /\ \E t, w : Spelled(t, w) /\ Reading(t, w)
  BY <1>1, Zenon DEF BeingRead
<1>3. PICK t, w : Spelled(t, w) /\ Reading(t, w)
  BY <1>2, Zenon
<1>. SUFFICES ASSUME ~BeingRead'
              PROVE  token_buffer' \in Seq(Int) /\ \E x, y : Spelled(x, y) /\ Reading(x, y)'
  BY Zenon DEF BeingRead
<1>4. CASE AtStart(t, w)
  BY <1>3, <1>4, StartReads, Zenon DEF Reading
<1>5. CASE InString(t, w)
  <2>1. scanner = "string" /\ text = token_buffer \o t /\ output = Rest(w)
    BY <1>5, Zenon DEF InString
  <2>2. CASE t = <<>> /\ w = <<>>
    <3>1. InString(<<>>, <<>>)
      BY <1>5, <2>2, Zenon
    <3>. QED
      BY <1>2, <3>1, QuoteReads, Zenon
  <2>3. ASSUME NEW u \in Codes, NEW x, NEW y, Spelled(x, y), t = u \o x, w = Shown(u) \o y
        PROVE  token_buffer' \in Seq(Int) /\ Reading(x, y)'
    <3>1. text = token_buffer \o (u \o x) /\ output = Shown(u) \o Rest(y)
      BY <2>1, <2>3, OutputIs, Zenon
    <3>. QED
      BY <1>2, <2>1, <2>3, <3>1, CodeReads, Zenon
  <2>4. \/ t = <<>> /\ w = <<>>
        \/ HasFirst(t, w)
    BY <1>3, SpelledFirst, Zenon
  <2>. QED
    BY <2>2, <2>3, <2>4, Zenon DEF HasFirst
<1>6. ASSUME NEW n \in Int, AtEscape(t, w, n)
      PROVE  token_buffer' \in Seq(Int) /\ Reading(t, w)'
  <2>1. token_buffer' \in Seq(Int) /\ (InString(t, w)' \/ AtDigits(t, w, n)')
    BY <1>2, <1>3, <1>6, EscapeReads, Zenon
  <2>. QED
    BY <2>1, Zenon DEF Reading
<1>7. ASSUME NEW n \in Int, AtDigits(t, w, n)
      PROVE  token_buffer' \in Seq(Int) /\ Reading(t, w)'
  BY <1>2, <1>3, <1>7, DigitsRead, Zenon DEF Reading
<1>8. ASSUME NEW v, InBytes(t, w, v)
      PROVE  token_buffer' \in Seq(Int) /\ Reading(t, w)'
  <2>1. token_buffer' \in Seq(Int) /\ (InString(t, w)' \/ \E x : InBytes(t, w, x)')
    BY <1>2, <1>3, <1>8, BytesRead, Zenon
  <2>. QED
    BY <2>1, Zenon DEF Reading
<1>. QED
  BY <1>3, <1>4, <1>5, <1>6, <1>7, <1>8, Zenon DEF Reading

-----------------------------------------------------------------------------
(* A value that is dumped; a string is read again.                         *)
SerializerSpec ==
    LexerInit /\ SerializerInit
    /\ [][(SerializerNext /\ UNCHANGED lexerVars) \/ ReadAgain]_<<lexerVars, serializerVars>>

Unread == scanner \in {"bom", "scan"} /\ token_buffer = <<>>

Fits == Len(string_buffer) <= BufferSize

Undumped == dumping = "start" /\ text = <<>> /\ utf8 = 0 /\ string_buffer = <<>> /\ Unread
Dumping  == dumping = "string" /\ BufferType /\ Unread /\ \E t, w, u : Filling(t, w, u)
Threw    == dumping = "threw" /\ Fits /\ ~WellFormed(text)
Dumped   == dumping = "written" /\ Fits /\ BeingRead
OfNumber == dumping \in {"integer", "number"} /\ Fits

DumpInv == Undumped \/ Dumping \/ Threw \/ Dumped \/ OfNumber

LEMMA FitsEmpty == Len(<<>>) <= BufferSize
BY SerializerAssumption

LEMMA DumpInvInit == LexerInit /\ SerializerInit => DumpInv
BY Zenon DEF LexerInit, SerializerInit, DumpInv, Undumped, Unread

LEMMA UnreadStays ==
    ASSUME Unread, UNCHANGED lexerVars
    PROVE  Unread'
BY Zenon DEF Unread, lexerVars

LEMMA DumpingStep ==
    Dumping /\ Unread' /\ (EndString \/ \E b \in Bytes : DumpByte(b)) => DumpInv'
<1>. SUFFICES ASSUME Dumping, Unread', EndString \/ \E b \in Bytes : DumpByte(b)
              PROVE  DumpInv'
  BY Zenon
<1>1. dumping = "string" /\ BufferType /\ Unread /\ \E t, w, u : Filling(t, w, u)
  BY Zenon DEF Dumping
<1>2. PICK t, w, u : Filling(t, w, u)
  BY <1>1, Zenon
<1>3. Unread'
  BY Zenon
<1>4. CASE EndString
  <2>1. /\ BufferType'
        /\ \/ dumping' = "written" /\ Spelled(t, w) /\ text' = t
              /\ output' = (<<Quote>> \o w) \o <<Quote>>
           \/ dumping' = "threw" /\ ~WellFormed(text')
    BY <1>1, <1>2, <1>4, EndStringFills, Zenon
  <2>2. Fits'
    BY <2>1, Zenon DEF BufferType, Fits
  <2>3. CASE dumping' = "threw" /\ ~WellFormed(text')
    <3>1. ~WellFormed(text)'
      BY <2>3, Zenon DEF WellFormed
    <3>. QED
      BY <2>2, <2>3, <3>1, Zenon DEF DumpInv, Threw
  <2>4. CASE dumping' = "written" /\ Spelled(t, w) /\ text' = t
             /\ output' = (<<Quote>> \o w) \o <<Quote>>
    <3>. DEFINE q == <<Quote>>
    <3>1. w \in Seq(Int) /\ q \in Seq(Int)
      BY <2>4, SpelledType, QuoteType, Zenon
    <3>2. (q \o w) \o q = q \o (w \o q)
      <4>. HIDE DEF q
      <4>. QED
        BY <3>1, UnitsAssociate, Zenon
    <3>3. Led(Quote, Rest(w), output')
      BY <2>4, <3>2, Zenon DEF Led, Rest
    <3>4. AtStart(t, w)'
      BY <1>3, <2>4, <3>3, Zenon DEF AtStart, Unread
    <3>5. token_buffer' \in Seq(Int)
      <4>1. <<>> \in Seq(Int)
        OBVIOUS
      <4>. QED
        BY <1>3, <4>1, Zenon DEF Unread
    <3>6. BeingRead'
      BY <2>4, <3>4, <3>5, Zenon DEF BeingRead, Reading
    <3>. QED
      BY <2>2, <2>4, <3>6, Zenon DEF DumpInv, Dumped
  <2>. QED
    BY <2>1, <2>3, <2>4, Zenon
<1>5. ASSUME NEW b \in Bytes, DumpByte(b)
      PROVE  DumpInv'
  <2>1. b \in 0 .. 255
    BY SerializerAssumption
  <2>2. /\ BufferType'
        /\ \/ dumping' = dumping /\ \E x, y, z : Filling(x, y, z)'
           \/ dumping' = "threw" /\ ~WellFormed(text')
    BY <1>1, <1>2, <1>5, <2>1, DumpByteFills, Zenon
  <2>3. CASE dumping' = "threw" /\ ~WellFormed(text')
    <3>1. ~WellFormed(text)' /\ Fits'
      BY <2>2, <2>3, Zenon DEF WellFormed, BufferType, Fits
    <3>. QED
      BY <2>3, <3>1, Zenon DEF DumpInv, Threw
  <2>4. CASE dumping' = dumping /\ \E x, y, z : Filling(x, y, z)'
    BY <1>1, <1>3, <2>2, <2>4, Zenon DEF DumpInv, Dumping
  <2>. QED
    BY <2>2, <2>3, <2>4, Zenon
<1>6. CASE \E b \in Bytes : DumpByte(b)
  BY <1>5, <1>6, Zenon
<1>. QED
  BY <1>4, <1>6, Zenon

LEMMA DumpInvStep ==
    ASSUME DumpInv,
           [(SerializerNext /\ UNCHANGED lexerVars) \/ ReadAgain]_<<lexerVars, serializerVars>>
    PROVE  DumpInv'
<1>1. CASE UNCHANGED <<lexerVars, serializerVars>>
  <2>1. /\ dumping' = dumping /\ text' = text /\ utf8' = utf8 /\ codepoint' = codepoint
        /\ string_buffer' = string_buffer /\ output' = output
        /\ scanner' = scanner /\ token_buffer' = token_buffer /\ token' = token
        /\ ranges' = ranges
    BY <1>1 DEF lexerVars, serializerVars
  <2>2. Undumped => Undumped'
    BY <2>1, Zenon DEF Undumped, Unread
  <2>3. Threw => Threw'
    BY <2>1, Zenon DEF Threw, Fits, WellFormed
  <2>4. OfNumber => OfNumber'
    BY <2>1, Zenon DEF OfNumber, Fits
  <2>5. Dumping => Dumping'
    <3>1. BufferType => BufferType'
      BY <2>1, Zenon DEF BufferType
    <3>2. ASSUME NEW t, NEW w, NEW u, Filling(t, w, u) PROVE Filling(t, w, u)'
      BY <2>1, <3>2, Zenon DEF Filling
    <3>. QED
      BY <2>1, <3>1, <3>2, Zenon DEF Dumping, Unread
  <2>6. Dumped => Dumped'
    <3>1. ASSUME NEW t, NEW w, Reading(t, w) PROVE Reading(t, w)'
      <4>1. AtStart(t, w) => AtStart(t, w)'
        BY <2>1, Zenon DEF AtStart
      <4>2. InString(t, w) => InString(t, w)'
        BY <2>1, Zenon DEF InString
      <4>3. ASSUME NEW n \in Int PROVE AtEscape(t, w, n) => AtEscape(t, w, n)'
        BY <2>1, Zenon DEF AtEscape
      <4>4. ASSUME NEW n \in Int PROVE AtDigits(t, w, n) => AtDigits(t, w, n)'
        BY <2>1, Zenon DEF AtDigits
      <4>5. ASSUME NEW v PROVE InBytes(t, w, v) => InBytes(t, w, v)'
        BY <2>1, Zenon DEF InBytes
      <4>. QED
        BY <3>1, <4>1, <4>2, <4>3, <4>4, <4>5, Zenon DEF Reading
    <3>. QED
      BY <2>1, <3>1, Zenon DEF Dumped, Fits, BeingRead
  <2>. QED
    BY <2>2, <2>3, <2>4, <2>5, <2>6, Zenon DEF DumpInv
<1>2. CASE ReadAgain
  <2>1. dumping = "written" /\ dumping' = dumping /\ string_buffer' = string_buffer
    BY <1>2, Zenon DEF ReadAgain, stringVars
  <2>2. Fits /\ BeingRead
    BY <2>1 DEF DumpInv, Undumped, Dumping, Threw, Dumped, OfNumber
  <2>3. BeingRead'
    BY <1>2, <2>2, BeingReadStep, Zenon
  <2>. QED
    BY <2>1, <2>2, <2>3, Zenon DEF DumpInv, Dumped, Fits
<1>3. CASE SerializerNext /\ UNCHANGED lexerVars
  <2>1. CASE DumpString
    <3>1. dumping = "start" /\ dumping' = "string"
      BY <2>1, Zenon DEF DumpString
    <3>2. Undumped
      BY <3>1 DEF DumpInv, Undumped, Dumping, Threw, Dumped, OfNumber
    <3>3. BufferType' /\ \E t, w, u : Filling(t, w, u)'
      BY <2>1, <3>2, DumpStringFills, Zenon DEF Undumped
    <3>4. Unread'
      BY <1>3, <3>2, UnreadStays, Zenon DEF Undumped
    <3>. QED
      BY <3>1, <3>3, <3>4, Zenon DEF DumpInv, Dumping
  <2>2. CASE EndString \/ \E b \in Bytes : Len(text) < MaxBytes /\ DumpByte(b)
    <3>1. dumping = "string"
      BY <2>2, Zenon DEF EndString, DumpByte
    <3>2. Dumping
      BY <3>1 DEF DumpInv, Undumped, Dumping, Threw, Dumped, OfNumber
    <3>3. EndString \/ \E b \in Bytes : DumpByte(b)
      BY <2>2, Zenon
    <3>4. Unread'
      BY <1>3, <3>2, UnreadStays, Zenon DEF Dumping
    <3>. QED
      BY <3>2, <3>3, <3>4, DumpingStep, Zenon
  <2>3. CASE DumpDigits \/ \E n \in Numbers : DumpInteger(n)
    <3>1. dumping \in {"start", "integer"} /\ string_buffer' = string_buffer
      BY <2>3, Zenon DEF DumpDigits, DumpInteger, stringVars
    <3>2. dumping' \in {"integer", "number"}
      BY <2>3 DEF DumpDigits, DumpInteger
    <3>3. Fits
      <4>1. Undumped \/ OfNumber
        BY <3>1 DEF DumpInv, Undumped, Dumping, Threw, Dumped, OfNumber
      <4>. QED
        BY <4>1, FitsEmpty, Zenon DEF Undumped, OfNumber, Fits
    <3>. QED
      BY <3>1, <3>2, <3>3, Zenon DEF DumpInv, OfNumber, Fits
  <2>. QED
    BY <1>3, <2>1, <2>2, <2>3, Zenon DEF SerializerNext
<1>. QED
  BY <1>1, <1>2, <1>3, Zenon

(* Every run: a string that is well-formed UTF-8 is written so that the    *)
(* scanner reads it again, whatever it holds and wherever string_buffer    *)
(* was full; only one that is not makes dump throw (dump_escaped).         *)
THEOREM StringsReadBack == SerializerSpec => []EscapedIsReadBack
<1>1. DumpInv => EscapedIsReadBack
  <2>. SUFFICES ASSUME DumpInv PROVE EscapedIsReadBack
    OBVIOUS
  <2>1. dumping # "start" => Fits
    BY Zenon DEF DumpInv, Undumped, Dumping, Threw, Dumped, OfNumber, BufferType, Fits
  <2>2. dumping = "threw" => ~WellFormed(text)
    BY Zenon DEF DumpInv, Undumped, Dumping, Threw, Dumped, OfNumber
  <2>3. ASSUME dumping = "written", scanner = "scanned"
        PROVE  output = <<>> /\ token = [type |-> "value_string", value |-> text]
    <3>1. BeingRead
      BY <2>3 DEF DumpInv, Undumped, Dumping, Threw, Dumped, OfNumber
    <3>2. \A t, w : ~Reading(t, w)
      BY <2>3 DEF Reading, AtStart, InString, AtEscape, AtDigits, InBytes
    <3>. QED
      BY <3>1, <3>2, Zenon DEF BeingRead
  <2>. QED
    BY <2>1, <2>2, <2>3, Zenon DEF EscapedIsReadBack, Fits
<1>2. DumpInv /\ [(SerializerNext /\ UNCHANGED lexerVars) \/ ReadAgain]_<<lexerVars, serializerVars>>
      => DumpInv'
  BY DumpInvStep, Zenon
<1>. QED
  BY <1>1, <1>2, DumpInvInit, PTL DEF SerializerSpec

-----------------------------------------------------------------------------
(* count_digits takes one digit off for each division by ten: f and g may  *)
(* be its values up to different numbers.                                  *)
CountAt(f, x) ==
    f[x] = IF x < 10 THEN 1 ELSE IF x < 100 THEN 2 ELSE IF x < 1000 THEN 3
           ELSE IF x < 10000 THEN 4 ELSE f[x \div 10000] + 4
Counting(N, f) == f \in [0 .. N -> Nat] /\ \A x \in 0 .. N : CountAt(f, x)

LEMMA Divided ==
    ASSUME NEW x \in Nat
    PROVE  /\ x \div 10000 \in Nat /\ x \div 100 \in Nat
           /\ x >= 10000 => x \div 10000 < x
           /\ x >= 100 => x \div 100 >= 1
           /\ x \div 10000 <= x /\ x \div 100 <= x
           /\ (x \div 100) \div 10000 = (x \div 10000) \div 100
OBVIOUS

LEMMA CountingExists == \A N \in Nat : \E f : Counting(N, f)
<1>. DEFINE T == {n \in Nat : \E f : Counting(n, f)}
<1>1. 0 \in T
  <2>. DEFINE g == [x \in 0 .. 0 |-> 1]
  <2>1. g \in [0 .. 0 -> Nat] /\ \A x \in 0 .. 0 : x < 10 /\ g[x] = 1
    OBVIOUS
  <2>. HIDE DEF g
  <2>2. Counting(0, g)
    BY <2>1 DEF Counting, CountAt
  <2>. QED
    BY <2>2
<1>2. ASSUME NEW n \in Nat, n \in T
      PROVE  n + 1 \in T
  <2>1. PICK f : Counting(n, f)
    BY <1>2
  <2>. DEFINE m == n + 1
              next == IF m < 10 THEN 1 ELSE IF m < 100 THEN 2 ELSE IF m < 1000 THEN 3
                      ELSE IF m < 10000 THEN 4 ELSE f[m \div 10000] + 4
              g == [x \in 0 .. m |-> IF x = m THEN next ELSE f[x]]
  <2>2. f \in [0 .. n -> Nat] /\ \A x \in 0 .. n : CountAt(f, x)
    BY <2>1, Zenon DEF Counting
  <2>3. m \in Nat /\ (m >= 10000 => m \div 10000 \in 0 .. n /\ m \div 10000 # m)
        /\ \A x \in 0 .. m : x # m => x \in 0 .. n
    <3>1. m \in Nat
      OBVIOUS
    <3>2. m \div 10000 \in Nat /\ (m >= 10000 => m \div 10000 < m)
      BY <3>1, Divided
    <3>. QED
      BY <3>1, <3>2
  <2>4. next \in Nat
    <3>. HIDE DEF m
    <3>1. m >= 10000 => f[m \div 10000] \in Nat
      BY <2>2, <2>3
    <3>. QED
      BY <2>3, <3>1
  <2>5. g \in [0 .. m -> Nat]
    <3>. HIDE DEF next, m
    <3>1. \A x \in 0 .. m : g[x] = (IF x = m THEN next ELSE f[x]) /\ g[x] \in Nat
      BY <2>2, <2>3, <2>4
    <3>. QED
      BY <3>1
  <2>6. \A x \in 0 .. m : CountAt(g, x)
    <3>. TAKE x \in 0 .. m
    <3>1. g[x] = IF x = m THEN next ELSE f[x]
      OBVIOUS
    <3>2. \A y \in 0 .. m : y # m => g[y] = f[y]
      <4>. HIDE DEF next, m
      <4>1. \A y \in 0 .. m : g[y] = IF y = m THEN next ELSE f[y]
        OBVIOUS
      <4>. QED
        BY <4>1
    <3>. HIDE DEF g
    <3>3. CASE x = m
      <4>1. m >= 10000 => g[m \div 10000] = f[m \div 10000]
        <5>1. m \div 10000 \in 0 .. n => m \div 10000 \in 0 .. m
          OBVIOUS
        <5>. QED
          BY <2>3, <3>2, <5>1
      <4>2. g[m] = next
        BY <3>1, <3>3
      <4>. HIDE DEF m
      <4>3. g[m] = IF m < 10 THEN 1 ELSE IF m < 100 THEN 2 ELSE IF m < 1000 THEN 3
                   ELSE IF m < 10000 THEN 4 ELSE g[m \div 10000] + 4
        BY <2>3, <4>1, <4>2
      <4>. QED
        BY <3>3, <4>3 DEF CountAt
    <3>4. CASE x # m
      <4>. HIDE DEF m
      <4>1. x \in 0 .. n /\ (x >= 10000 => x \div 10000 \in 0 .. m /\ x \div 10000 # m)
        <5>1. x \in Nat /\ x \in 0 .. n /\ x < m
          BY <2>3, <3>4
        <5>2. x \div 10000 \in Nat /\ x \div 10000 <= x
          BY <5>1, Divided
        <5>. QED
          BY <2>3, <5>1, <5>2
      <4>2. CountAt(f, x) /\ g[x] = f[x]
        BY <2>2, <3>2, <3>4, <4>1
      <4>3. x >= 10000 => g[x \div 10000] = f[x \div 10000]
        BY <3>2, <4>1
      <4>4. x \in Int
        BY <2>3
      <4>. QED
        BY <4>2, <4>3, <4>4 DEF CountAt
    <3>. QED
      BY <3>3, <3>4
  <2>. HIDE DEF g, next
  <2>7. Counting(m, g)
    BY <2>5, <2>6, Zenon DEF Counting
  <2>. QED
    BY <2>3, <2>7
<1>. HIDE DEF T
<1>3. \A n \in Nat : n \in T
  BY <1>1, <1>2, Induction
<1>. QED
  BY <1>3 DEF T

CountOf(n, f) == f = [x \in 0 .. n |-> IF x < 10 THEN 1 ELSE IF x < 100 THEN 2
                            ELSE IF x < 1000 THEN 3 ELSE IF x < 10000 THEN 4
                            ELSE f[x \div 10000] + 4]

LEMMA CountDigitsIs ==
    ASSUME NEW n \in Nat
    PROVE  \E f : Counting(n, f) /\ CountDigits(n) = f[n]
<1>. DEFINE f == CHOOSE f : CountOf(n, f)
<1>1. \E g : CountOf(n, g)
  <2>1. PICK g : Counting(n, g)
    BY CountingExists
  <2>2. g \in [0 .. n -> Nat] /\ \A x \in 0 .. n : CountAt(g, x)
    BY <2>1, Zenon DEF Counting
  <2>3. CountOf(n, g)
    BY <2>2 DEF CountAt, CountOf
  <2>. QED
    BY <2>3
<1>2. CountOf(n, f)
  BY <1>1, Zenon
<1>3. CountDigits(n) = f[n]
  BY DEF CountDigits, CountOf
<1>. HIDE DEF f
<1>4. \A x \in 0 .. n : CountAt(f, x)
  BY <1>2 DEF CountAt, CountOf
<1>5. f = [x \in 0 .. n |-> f[x]]
  BY <1>2, <1>4 DEF CountAt, CountOf
<1>6. \A x \in 0 .. n : f[x] \in Nat
  <2>. DEFINE T == {m \in Nat : \A x \in 0 .. m : x <= n => f[x] \in Nat}
  <2>1. 0 \in T
    <3>1. 0 \in 0 .. n /\ 0 < 10 /\ \A x \in 0 .. 0 : x = 0
      OBVIOUS
    <3>. QED
      BY <1>4, <3>1 DEF CountAt
  <2>2. ASSUME NEW m \in Nat, m \in T
        PROVE  m + 1 \in T
    <3>. SUFFICES ASSUME NEW x \in 0 .. m + 1, x <= n
                  PROVE  f[x] \in Nat
      OBVIOUS
    <3>1. \A y \in 0 .. m : y <= n => f[y] \in Nat
      BY <2>2
    <3>2. CountAt(f, x) /\ x \in Nat
      BY <1>4
    <3>3. x >= 10000 => x \div 10000 \in 0 .. m /\ x \div 10000 <= n
      <4>1. x \div 10000 \in Nat /\ (x >= 10000 => x \div 10000 < x)
        BY <3>2, Divided
      <4>. QED
        BY <4>1
    <3>4. x >= 10000 => f[x \div 10000] \in Nat
      BY <3>1, <3>3
    <3>. QED
      BY <3>2, <3>4 DEF CountAt
  <2>. HIDE DEF T
  <2>3. \A m \in Nat : m \in T
    BY <2>1, <2>2, Induction
  <2>4. n \in T
    BY <2>3
  <2>. QED
    BY <2>4 DEF T
<1>7. f \in [0 .. n -> Nat]
  BY <1>5, <1>6, Zenon
<1>. QED
  BY <1>3, <1>4, <1>7, Zenon DEF Counting

LEMMA TwoFewer ==
    ASSUME NEW N \in Nat, NEW f, Counting(N, f), NEW M \in Nat, NEW g, Counting(M, g)
    PROVE  \A x \in 100 .. N : x \div 100 <= M => g[x \div 100] = f[x] - 2
<1>1. /\ \A x \in 0 .. N : CountAt(f, x) /\ f[x] \in Nat
      /\ \A x \in 0 .. M : CountAt(g, x) /\ g[x] \in Nat
  BY Zenon DEF Counting
<1>. DEFINE T == {n \in Nat : \A x \in 100 .. n : x <= N /\ x \div 100 <= M
                                                  => g[x \div 100] = f[x] - 2}
<1>2. 0 \in T
  OBVIOUS
<1>3. ASSUME NEW n \in Nat, n \in T
      PROVE  n + 1 \in T
  <2>. SUFFICES ASSUME NEW x \in 100 .. n + 1, x <= N, x \div 100 <= M
                PROVE  g[x \div 100] = f[x] - 2
    OBVIOUS
  <2>. DEFINE y == x \div 100
              z == x \div 10000
  <2>1. /\ x \in Nat /\ y \in Nat /\ z \in Nat
        /\ y <= x /\ z <= x /\ (x >= 10000 => z < x) /\ y >= 1 /\ y \div 10000 = z \div 100
        /\ z \div 100 \in Nat /\ z \div 100 <= z /\ y \div 10000 <= y
    <3>1. x \in Nat
      OBVIOUS
    <3>2. y \in Nat /\ z \in Nat
      BY <3>1, Divided
    <3>. QED
      BY <3>1, <3>2, Divided
  <2>2. x \in 0 .. N /\ y \in 0 .. M /\ z \in 0 .. N /\ y \div 10000 \in 0 .. M
    BY <2>1
  <2>3. /\ CountAt(f, x) /\ CountAt(g, y) /\ CountAt(f, z)
        /\ f[z] \in Nat /\ f[x] \in Nat /\ g[y] \in Nat
    BY <1>1, <2>2
  <2>4. CASE x < 10000
    <3>1. x < 1000 => y < 10
      OBVIOUS
    <3>2. x >= 1000 => y >= 10 /\ y < 100
      BY <2>4
    <3>. HIDE DEF y, z
    <3>3. x < 1000 => f[x] = 3 /\ g[y] = 1
      BY <2>1, <2>3, <3>1 DEF CountAt
    <3>4. x >= 1000 => f[x] = 4 /\ g[y] = 2
      BY <2>1, <2>3, <2>4, <3>2 DEF CountAt
    <3>. QED
      BY <2>1, <3>3, <3>4 DEF y
  <2>5. CASE x >= 10000 /\ x < 1000000
    <3>1. x < 100000 => y \in 100 .. 999 /\ z \in 1 .. 9
      BY <2>5
    <3>2. x >= 100000 => y \in 1000 .. 9999 /\ z \in 10 .. 99
      BY <2>5
    <3>3. f[x] = f[z] + 4
      BY <2>1, <2>3, <2>5 DEF CountAt
    <3>. HIDE DEF y, z
    <3>4. x < 100000 => f[z] = 1 /\ g[y] = 3
      BY <2>1, <2>3, <3>1 DEF CountAt
    <3>5. x >= 100000 => f[z] = 2 /\ g[y] = 4
      BY <2>1, <2>3, <3>2 DEF CountAt
    <3>6. g[y] = f[x] - 2
      BY <2>1, <3>3, <3>4, <3>5
    <3>. QED
      BY <3>6 DEF y
  <2>6. CASE x >= 1000000
    <3>1. y >= 10000 /\ z >= 100
      BY <2>6
    <3>2. f[x] = f[z] + 4
      BY <2>1, <2>3, <2>6 DEF CountAt
    <3>. HIDE DEF y, z
    <3>3. g[y] = g[z \div 100] + 4
      <4>1. g[y] = g[y \div 10000] + 4
        BY <2>1, <2>3, <3>1 DEF CountAt
      <4>. QED
        BY <2>1, <4>1
    <3>4. g[z \div 100] = f[z] - 2
      <4>1. z \in 100 .. n /\ z <= N /\ z \div 100 <= M
        BY <2>1, <2>2, <2>6, <3>1
      <4>. QED
        BY <1>3, <4>1, Zenon
    <3>5. g[y] = f[x] - 2
      BY <2>3, <3>2, <3>3, <3>4
    <3>. QED
      BY <3>5 DEF y
  <2>. QED
    BY <2>4, <2>5, <2>6
<1>. HIDE DEF T
<1>4. \A n \in Nat : n \in T
  BY <1>2, <1>3, Induction
<1>5. N \in T
  BY <1>4
<1>. QED
  BY <1>5 DEF T

LEMMA CountedDigits ==
    ASSUME NEW n \in Nat
    PROVE  /\ CountDigits(n) \in Nat /\ CountDigits(n) >= 1
           /\ n < 10 => CountDigits(n) = 1
           /\ n >= 10 /\ n < 100 => CountDigits(n) = 2
           /\ n >= 100 => CountDigits(n \div 100) = CountDigits(n) - 2
<1>1. PICK f : Counting(n, f) /\ CountDigits(n) = f[n]
  BY CountDigitsIs
<1>2. CountAt(f, n) /\ f[n] \in Nat /\ \A x \in 0 .. n : f[x] \in Nat
  <2>1. n \in 0 .. n
    OBVIOUS
  <2>. QED
    BY <1>1, <2>1, Zenon DEF Counting
<1>3. n < 10 => f[n] = 1
  BY <1>2 DEF CountAt
<1>4. n >= 10 /\ n < 100 => f[n] = 2
  BY <1>2 DEF CountAt, CountOf
<1>5. f[n] >= 1
  <2>1. n >= 10000 => f[n \div 10000] \in Nat
    <3>1. n \div 10000 \in Nat /\ n \div 10000 <= n
      BY Divided
    <3>2. n \div 10000 \in 0 .. n
      BY <3>1
    <3>. QED
      BY <1>2, <3>2
  <2>. QED
    BY <1>2, <2>1 DEF CountAt
<1>6. ASSUME n >= 100
      PROVE  CountDigits(n \div 100) = CountDigits(n) - 2
  <2>. DEFINE m == n \div 100
  <2>1. m \in Nat
    BY Divided
  <2>. HIDE DEF m
  <2>2. PICK g : Counting(m, g) /\ CountDigits(m) = g[m]
    BY <2>1, CountDigitsIs
  <2>3. n \in 100 .. n /\ m <= m
    BY <1>6, <2>1
  <2>4. g[m] = f[n] - 2
    BY <1>1, <2>1, <2>2, <2>3, TwoFewer DEF m
  <2>. QED
    BY <1>1, <2>2, <2>4, Zenon DEF m
<1>. QED
  BY <1>1, <1>2, <1>3, <1>4, <1>5, <1>6, Zenon

(* What is left of n, a, and what the digits of t behind ptr are worth.    *)
SignOf(n) == IF n < 0 THEN 1 ELSE 0
SizeOf(n) == IF n < 0 THEN -n ELSE n

WorthOf(t, ptr, a, n) ==
    \A p, f : PowersOf(Len(t), p) /\ SumsOf(t, p, f)
              => a * p[Len(t) - ptr] + f[Len(t) - ptr] = n

LEMMA OneDigit ==
    ASSUME NEW t \in Seq(Int), NEW ptr \in 1 .. Len(t), NEW d \in 0 .. 9, t[ptr] = 48 + d,
           NEW a \in Int, NEW n, WorthOf(t, ptr, 10 * a + d, n)
    PROVE  WorthOf(t, ptr - 1, a, n)
<1>. SUFFICES ASSUME NEW p, NEW f, PowersOf(Len(t), p), SumsOf(t, p, f)
              PROVE  a * p[Len(t) - (ptr - 1)] + f[Len(t) - (ptr - 1)] = n
  BY DEF WorthOf
<1>. DEFINE k == Len(t) - ptr
            m == Len(t) - (ptr - 1)
<1>1. k \in 0 .. Len(t) /\ m \in 1 .. Len(t) /\ m - 1 = k /\ Len(t) + 1 - m = ptr
  OBVIOUS
<1>. HIDE DEF m, k
<1>2. (10 * a + d) * p[k] + f[k] = n
  BY Zenon DEF WorthOf, k
<1>3. p[m] = 10 * p[k] /\ p[k] \in Int /\ f[k] \in Int
  BY <1>1, Zenon DEF PowersOf, SumsOf
<1>4. t[ptr] # Minus /\ t[ptr] - 48 = d
  BY DEF Minus
<1>5. f[m] = f[k] + d * p[k]
  BY <1>1, <1>4, Zenon DEF SumsOf
<1>6. (10 * a + d) * p[k] + f[k] = a * (10 * p[k]) + (f[k] + d * p[k])
  <2>. DEFINE q == p[k]
              g == f[k]
  <2>1. q \in Int /\ g \in Int /\ d \in Int
    BY <1>3
  <2>. HIDE DEF q, g
  <2>2. (10 * a + d) * q + g = a * (10 * q) + (g + d * q)
    BY <2>1
  <2>. QED
    BY <2>2, Zenon DEF q, g
<1>7. a * p[m] + f[m] = n
  BY <1>2, <1>3, <1>5, <1>6, Zenon
<1>. QED
  BY <1>7, Zenon DEF m

(* What Fill makes of b.                                                   *)
FilledOf(b, ptr, digits) ==
    [i \in DOMAIN b |-> IF i \in ptr - Len(digits) + 1 .. ptr THEN digits[i - (ptr - Len(digits))]
                                                                ELSE b[i]]

Filled(b, ptr, digits, c) == c = FilledOf(b, ptr, digits)

LEMMA FilledIs ==
    ASSUME NEW b \in Seq(Int), NEW digits \in Seq(Int), NEW ptr \in Len(digits) .. Len(b),
           NEW c, Filled(b, ptr, digits, c)
    PROVE  /\ c \in Seq(Int) /\ Len(c) = Len(b)
           /\ \A i \in ptr + 1 .. Len(b) : c[i] = b[i]
           /\ \A i \in 1 .. ptr - Len(digits) : c[i] = b[i]
           /\ \A j \in 1 .. Len(digits) : c[ptr - Len(digits) + j] = digits[j]
<1>. DEFINE q == ptr - Len(digits)
<1>1. q \in 0 .. Len(b) /\ ptr \in q .. Len(b) /\ ptr - q = Len(digits) /\ Len(b) \in Nat
      /\ DOMAIN b = 1 .. Len(b)
  OBVIOUS
<1>2. c = [i \in 1 .. Len(b) |-> IF i \in q + 1 .. ptr THEN digits[i - q] ELSE b[i]]
  <2>1. c = [i \in DOMAIN b |-> IF i \in q + 1 .. ptr THEN digits[i - q] ELSE b[i]]
    BY Zenon DEF Filled, FilledOf
  <2>. QED
    BY <1>1, <2>1, Zenon
<1>. HIDE DEF q
<1>3. \A i \in 1 .. Len(b) : (IF i \in q + 1 .. ptr THEN digits[i - q] ELSE b[i]) \in Int
  BY <1>1
<1>4. c \in [1 .. Len(b) -> Int]
  BY <1>2, <1>3, Zenon
<1>5. c \in Seq(Int) /\ Len(c) = Len(b)
  <2>1. \A N \in Nat : \A d \in [1 .. N -> Int] : d \in Seq(Int) /\ Len(d) = N
    OBVIOUS
  <2>. QED
    BY <1>1, <1>4, <2>1, Zenon
<1>6. \A i \in 1 .. Len(b) : c[i] = IF i \in q + 1 .. ptr THEN digits[i - q] ELSE b[i]
  BY <1>2, Zenon
<1>7. \A i \in ptr + 1 .. Len(b) : c[i] = b[i]
  <2>1. \A i \in ptr + 1 .. Len(b) : i \in 1 .. Len(b) /\ i \notin q + 1 .. ptr
    BY <1>1
  <2>. QED
    BY <1>6, <2>1, Zenon
<1>8. \A i \in 1 .. q : c[i] = b[i]
  <2>1. \A i \in 1 .. q : i \in 1 .. Len(b) /\ i \notin q + 1 .. ptr
    BY <1>1
  <2>. QED
    BY <1>6, <2>1, Zenon
<1>9. \A j \in 1 .. Len(digits) : c[q + j] = digits[j]
  <2>1. \A j \in 1 .. Len(digits) : q + j \in 1 .. Len(b) /\ q + j \in q + 1 .. ptr /\ (q + j) - q = j
    BY <1>1
  <2>. QED
    BY <1>6, <2>1, Zenon
<1>. QED
  BY <1>5, <1>7, <1>8, <1>9, Zenon DEF q

(* The number when all its digits are written.                             *)
LEMMA AllWritten ==
    ASSUME NEW n \in Int, NEW t \in Seq(Int), SignOf(n) < Len(t),
           n < 0 => t[1] = Minus,
           \A i \in SignOf(n) + 1 .. Len(t) : t[i] \in Digits, t[SignOf(n) + 1] # 48,
           WorthOf(t, SignOf(n), 0, SizeOf(n))
    PROVE  IsNumber(t) /\ IsInteger(t) /\ IntegerOf(t) = n
<1>. DEFINE s == SignOf(n)
            N == Len(t)
<1>1. s \in {0, 1} /\ N \in Nat /\ s < N
  BY DEF SignOf
<1>2. (n < 0 => s = 1 /\ SizeOf(n) = -n) /\ (n >= 0 => s = 0 /\ SizeOf(n) = n)
  BY DEF SignOf, SizeOf
<1>. HIDE DEF s, N
<1>3. (\A i \in s + 1 .. N : t[i] \in Digits) /\ t[s + 1] # 48
  BY Zenon DEF s, N
<1>4. IsNumber(t)
  <2>1. N \in s + 1 .. N /\ N \in N .. N /\ s + 1 <= N /\ ~(N + 1 <= N)
    BY <1>1
  <2>2. IntegerAt(t, s + 1, N)
    BY <1>3, <2>1, Zenon DEF IntegerAt, DigitsAt, Zero
  <2>3. FractionAt(t, N + 1, N) /\ ExponentAt(t, N + 1, N)
    BY <2>1, Zenon DEF FractionAt, ExponentAt
  <2>4. s = 1 => t[1] = Minus
    BY <1>2
  <2>. QED
    BY <1>1, <2>1, <2>2, <2>3, <2>4, Zenon DEF IsNumber, N
<1>5. \A i \in 1 .. N : t[i] \in Digits \cup {Minus}
  <2>1. \A i \in 1 .. N : i \in s + 1 .. N \/ (i = 1 /\ s = 1)
    BY <1>1
  <2>2. s = 1 => t[1] = Minus
    BY <1>2
  <2>. QED
    BY <1>3, <2>1, <2>2, Zenon
<1>6. IsInteger(t)
  BY <1>5, Zenon DEF IsInteger, N
<1>7. IntegerOf(t) = n
  <2>1. PICK p, f : /\ PowersOf(N, p) /\ SumsOf(t, p, f)
                    /\ IntegerOf(t) = IF t[1] = Minus THEN -f[N] ELSE f[N]
    BY IntegerOfIs, Zenon DEF N
  <2>2. 0 * p[N - s] + f[N - s] = SizeOf(n)
    BY <2>1, Zenon DEF WorthOf, N, s
  <2>3. p[N - s] \in Int /\ f[N - s] \in Int /\ f[N] \in Int
    <3>1. N - s \in 0 .. N /\ N \in 0 .. N
      BY <1>1
    <3>. QED
      BY <2>1, <3>1, Zenon DEF PowersOf, SumsOf, N
  <2>4. f[N - s] = SizeOf(n)
    BY <2>2, <2>3
  <2>5. CASE n < 0
    <3>1. N \in 1 .. N /\ N - 1 = N - s /\ N + 1 - N = 1
      BY <1>1, <1>2, <2>5
    <3>2. t[1] = Minus
      BY <2>5
    <3>3. f[N] = f[N - 1]
      BY <2>1, <3>1, <3>2, Zenon DEF SumsOf, N
    <3>4. f[N] = -n
      BY <1>2, <2>4, <2>5, <3>1, <3>3, Zenon
    <3>. QED
      BY <2>1, <3>2, <3>4
  <2>6. CASE n >= 0
    <3>1. s = 0 /\ N - s = N /\ 1 \in s + 1 .. N
      BY <1>1, <1>2, <2>6
    <3>2. t[1] # Minus
      <4>1. Minus \notin Digits
        BY DEF Minus, Digits
      <4>. QED
        BY <1>3, <3>1, <4>1, Zenon
    <3>3. f[N] = n
      BY <1>2, <2>4, <2>6, <3>1, Zenon
    <3>. QED
      BY <2>1, <3>2, <3>3, Zenon
  <2>. QED
    BY <2>5, <2>6
<1>. QED
  BY <1>4, <1>6, <1>7, Zenon

Behind(t, b, ptr) ==
    t \in Seq(Int) /\ Len(t) = Len(b) /\ \A i \in ptr + 1 .. Len(b) : t[i] = b[i]

(* While n is written: the digits of b behind ptr and those of a are n's.  *)
Writing(b, ptr, a, n) ==
    /\ n \in Int /\ a \in Nat /\ a # 0
    /\ b \in Seq(Int) /\ ptr = CountDigits(a) + SignOf(n) /\ ptr <= Len(b)
    /\ n < 0 => b[1] = Minus
    /\ \A i \in ptr + 1 .. Len(b) : b[i] \in Digits
    /\ \A t : Behind(t, b, ptr) => WorthOf(t, ptr, a, SizeOf(n))

Spells(t, n) == IsNumber(t) /\ IsInteger(t) /\ IntegerOf(t) = n

IntegerInv ==
    \/ dumping = "integer" /\ Writing(number_buffer, buffer_ptr, abs_value, number)
    \/ dumping = "number" /\ Spells(output, number)
    \/ dumping \notin {"integer", "number"}

LEMMA ZeroIs == Spells(<<48>>, 0)
<1>. DEFINE t == <<48>>
<1>1. t \in Seq(Int) /\ Len(t) = 1 /\ t[1] = 48 /\ \A i \in 1 .. 1 : i = 1
  OBVIOUS
<1>. HIDE DEF t
<1>2. 48 \in Digits /\ 48 # Minus
  BY DEF Digits, Minus
<1>3. IsNumber(t)
  <2>1. 1 \in 0 + 1 .. 1 /\ 1 \in 1 .. 1 /\ ~(1 + 1 <= 1) /\ 0 + 1 = 1 /\ 0 # 1 /\ 0 \in {0, 1} /\ 1 <= 1
    OBVIOUS
  <2>2. IntegerAt(t, 1, 1)
    BY <1>1, <1>2, <2>1, Zenon DEF IntegerAt, DigitsAt
  <2>3. FractionAt(t, 1 + 1, 1) /\ ExponentAt(t, 1 + 1, 1)
    BY <2>1, Zenon DEF FractionAt, ExponentAt
  <2>. QED
    BY <1>1, <2>1, <2>2, <2>3, ZenonT(60) DEF IsNumber
<1>4. IsInteger(t)
  BY <1>1, <1>2, Zenon DEF IsInteger
<1>5. IntegerOf(t) = 0
  <2>1. PICK p, f : /\ PowersOf(1, p) /\ SumsOf(t, p, f)
                    /\ IntegerOf(t) = IF t[1] = Minus THEN -f[1] ELSE f[1]
    <3>1. \E p, f : /\ PowersOf(Len(t), p) /\ SumsOf(t, p, f)
                    /\ IntegerOf(t) = IF t[1] = Minus THEN -f[Len(t)] ELSE f[Len(t)]
      BY <1>1, IntegerOfIs
    <3>. QED
      BY <1>1, <3>1, Zenon
  <2>2. f[0] = 0 /\ p[0] \in Int /\ f[1] = f[0] + (t[1] - 48) * p[0]
    <3>1. 1 \in 1 .. 1 /\ 1 + 1 - 1 = 1 /\ 1 - 1 = 0 /\ 0 \in 0 .. 1
      OBVIOUS
    <3>2. f[0] = 0 /\ p[0] \in Int
      BY <2>1, <3>1, Zenon DEF SumsOf, PowersOf
    <3>3. \A k \in 1 .. 1 : f[k] = IF t[1 + 1 - k] = Minus THEN f[k - 1]
                                   ELSE f[k - 1] + (t[1 + 1 - k] - 48) * p[k - 1]
      BY <1>1, <2>1, Zenon DEF SumsOf
    <3>4. t[1] # Minus
      BY <1>1, <1>2, Zenon
    <3>5. f[1] = IF t[1 + 1 - 1] = Minus THEN f[1 - 1] ELSE f[1 - 1] + (t[1 + 1 - 1] - 48) * p[1 - 1]
      BY <3>1, <3>3, Zenon
    <3>. QED
      BY <3>1, <3>2, <3>4, <3>5, Zenon
  <2>3. f[1] = 0
    BY <1>1, <2>2
  <2>. QED
    BY <1>1, <1>2, <2>1, <2>3, Zenon
<1>. QED
  BY <1>3, <1>4, <1>5, Zenon DEF Spells, t

LEMMA IntegerStarts ==
    ASSUME NEW n \in Int, -(IntegerMax + 1) <= n, DumpInteger(n)
    PROVE  IntegerInv'
<1>1. number' = n
  BY Zenon DEF DumpInteger
<1>2. CASE n = 0
  <2>1. output' = <<48>> /\ dumping' = "number"
    BY <1>2, Zenon DEF DumpInteger
  <2>2. Spells(output', number')
    BY <1>1, <1>2, <2>1, ZeroIs, Zenon
  <2>. QED
    BY <2>1, <2>2, Zenon DEF IntegerInv, Spells
<1>3. CASE n # 0
  <2>. DEFINE a == SizeOf(n)
              N == CountDigits(a) + SignOf(n)
              b == [i \in 1 .. N |-> IF n < 0 /\ i = 1 THEN Minus ELSE 0]
  <2>1. a \in Nat /\ a # 0 /\ SignOf(n) \in {0, 1} /\ (n < 0 => SignOf(n) = 1)
    BY <1>3 DEF SizeOf, SignOf
  <2>0. (IF n < 0 THEN RemoveSign(n) ELSE {n}) = {a}
    <3>1. CASE n < 0
      <4>1. -(n + 1) \in Longs /\ -(n + 1) \in Nat
        BY <3>1, SerializerAssumption DEF Longs
      <4>. DEFINE m == -(n + 1)
      <4>2. Unsigned(m) = m
        BY <4>1 DEF Unsigned
      <4>3. m + 1 = a
        BY <3>1 DEF SizeOf
      <4>4. Negated(n + 1) = {m}
        BY <4>1, Zenon DEF Negated
      <4>. HIDE DEF m, a
      <4>5. RemoveSign(n) = {a}
        BY <4>2, <4>3, <4>4, Zenon DEF RemoveSign
      <4>. QED
        BY <3>1, <4>5, Zenon
    <3>2. CASE ~(n < 0)
      <4>1. n = a
        BY <3>2 DEF SizeOf
      <4>. QED
        BY <3>2, <4>1, Zenon
    <3>. QED
      BY <3>1, <3>2, Zenon
  <2>2. abs_value' = a /\ buffer_ptr' = N /\ number_buffer' = b /\ dumping' = "integer"
    <3>1. /\ abs_value' \in IF n < 0 THEN RemoveSign(n) ELSE {n}
          /\ buffer_ptr' = CountDigits(abs_value') + (IF n < 0 THEN 1 ELSE 0)
          /\ number_buffer' = [i \in 1 .. buffer_ptr' |-> IF n < 0 /\ i = 1 THEN Minus ELSE 0]
          /\ dumping' = "integer"
      BY <1>3, Zenon DEF DumpInteger
    <3>2. abs_value' = a
      BY <2>0, <3>1, Zenon
    <3>. HIDE DEF a
    <3>3. buffer_ptr' = N
      BY <3>1, <3>2, Zenon DEF SignOf
    <3>. QED
      BY <3>1, <3>2, <3>3, Zenon
  <2>. HIDE DEF a
  <2>3. CountDigits(a) \in Nat /\ CountDigits(a) >= 1
    BY <2>1, CountedDigits
  <2>4. N \in Nat /\ N >= 1
    BY <2>1, <2>3
  <2>. HIDE DEF N
  <2>5. b \in Seq(Int) /\ Len(b) = N /\ (n < 0 => b[1] = Minus)
    <3>1. Minus \in Int
      BY DEF Minus
    <3>2. b \in [1 .. N -> Int]
      BY <3>1
    <3>3. 1 \in 1 .. N
      BY <2>4
    <3>4. n < 0 => b[1] = Minus
      BY <3>3
    <3>. HIDE DEF b
    <3>. QED
      BY <2>4, <3>2, <3>4
  <2>. HIDE DEF b
  <2>6. ASSUME NEW t, Behind(t, b, N)
        PROVE  WorthOf(t, N, a, a)
    <3>. SUFFICES ASSUME NEW p, NEW f, PowersOf(Len(t), p), SumsOf(t, p, f)
                  PROVE  a * p[Len(t) - N] + f[Len(t) - N] = a
      BY Zenon DEF WorthOf
    <3>1. Len(t) - N = 0
      <4>1. Len(t) = N
        BY <2>5, <2>6, Zenon DEF Behind
      <4>. QED
        BY <2>4, <4>1
    <3>2. p[0] = 1 /\ f[0] = 0
      BY Zenon DEF PowersOf, SumsOf
    <3>3. a * 1 + 0 = a
      BY <2>1
    <3>. QED
      BY <3>1, <3>2, <3>3, Zenon
  <2>7. Writing(b, N, a, n)
    <3>1. N <= Len(b) /\ \A i \in N + 1 .. Len(b) : b[i] \in Digits
      BY <2>4, <2>5
    <3>. QED
      BY <2>1, <2>5, <2>6, <3>1, Zenon DEF Writing, N, a
  <2>8. Writing(number_buffer, buffer_ptr, abs_value, number)'
    BY <1>1, <2>2, <2>7, Zenon
  <2>. QED
    BY <2>2, <2>8, Zenon DEF IntegerInv
<1>. QED
  BY <1>2, <1>3

LEMMA SplitTwo ==
    ASSUME NEW m \in 0 .. 99
    PROVE  /\ m \div 10 \in 0 .. 9 /\ m % 10 \in 0 .. 9 /\ m = 10 * (m \div 10) + (m % 10)
           /\ TwoDigits(m) \in Seq(Int) /\ Len(TwoDigits(m)) = 2
           /\ TwoDigits(m)[1] = 48 + (m \div 10) /\ TwoDigits(m)[2] = 48 + (m % 10)
<1>1. m \div 10 \in 0 .. 9 /\ m % 10 \in 0 .. 9 /\ m = 10 * (m \div 10) + (m % 10)
  OBVIOUS
<1>2. \A x, y \in Int : <<x, y>> \in Seq(Int) /\ Len(<<x, y>>) = 2 /\ <<x, y>>[1] = x /\ <<x, y>>[2] = y
  OBVIOUS
<1>3. 48 + (m \div 10) \in Int /\ 48 + (m % 10) \in Int
  BY <1>1
<1>. QED
  BY <1>1, <1>2, <1>3, ZenonT(60) DEF TwoDigits

(* Two more digits in front of ptr.                                        *)
LEMMA TwoMore ==
    ASSUME NEW t \in Seq(Int), NEW ptr \in 2 .. Len(t), NEW m \in 0 .. 99,
           t[ptr] = 48 + (m % 10), t[ptr - 1] = 48 + (m \div 10),
           NEW a \in Int, NEW n, WorthOf(t, ptr, 100 * a + m, n)
    PROVE  WorthOf(t, ptr - 2, a, n)
<1>. DEFINE d == m \div 10
            e == m % 10
            q == ptr - 1
<1>1. d \in 0 .. 9 /\ e \in 0 .. 9 /\ m = 10 * d + e
  BY SplitTwo
<1>2. ptr \in 1 .. Len(t) /\ q \in 1 .. Len(t) /\ q - 1 = ptr - 2
  OBVIOUS
<1>3. t[ptr] = 48 + e /\ t[q] = 48 + d
  OBVIOUS
<1>. HIDE DEF d, e
<1>4. 10 * a + d \in Int /\ 10 * (10 * a + d) + e = 100 * a + m
  BY <1>1
<1>5. WorthOf(t, ptr, 10 * (10 * a + d) + e, n)
  BY <1>4, Zenon
<1>6. WorthOf(t, q, 10 * a + d, n)
  <2>. DEFINE c == 10 * a + d
  <2>1. c \in Int /\ WorthOf(t, ptr, 10 * c + e, n)
    BY <1>4, <1>5, Zenon
  <2>. HIDE DEF c
  <2>2. WorthOf(t, ptr - 1, c, n)
    BY <1>1, <1>2, <1>3, <2>1, OneDigit, Zenon
  <2>. QED
    BY <2>2, Zenon DEF c
<1>. HIDE DEF q
<1>7. WorthOf(t, q - 1, a, n)
  BY <1>1, <1>2, <1>3, <1>6, OneDigit, Zenon
<1>. QED
  BY <1>2, <1>7, Zenon

(* What Fill leaves of the invariant: what is behind ptr stays.            *)
LEMMA FilledBehind ==
    ASSUME NEW n, NEW a, NEW ptr, NEW b, Writing(b, ptr, a, n), ptr \in Nat,
           NEW digits \in Seq(Int), Len(digits) + SignOf(n) <= ptr,
           NEW c, Filled(b, ptr, digits, c),
           \A j \in 1 .. Len(digits) : digits[j] \in Digits
    PROVE  /\ c \in Seq(Int) /\ Len(c) = Len(b) /\ (n < 0 => c[1] = Minus)
           /\ ptr - Len(digits) \in SignOf(n) .. Len(c)
           /\ \A i \in ptr - Len(digits) + 1 .. Len(c) : c[i] \in Digits
           /\ \A j \in 1 .. Len(digits) : c[ptr - Len(digits) + j] = digits[j]
           /\ \A t : Behind(t, c, ptr - Len(digits)) => WorthOf(t, ptr, a, SizeOf(n))
<1>. DEFINE l == Len(digits)
            q == ptr - l
            s == SignOf(n)
<1>1. /\ n \in Int /\ b \in Seq(Int) /\ Len(b) \in Nat /\ ptr <= Len(b) /\ (n < 0 => b[1] = Minus)
      /\ \A i \in ptr + 1 .. Len(b) : b[i] \in Digits
      /\ \A t : Behind(t, b, ptr) => WorthOf(t, ptr, a, SizeOf(n))
  BY DEF Writing
<1>2. s \in {0, 1} /\ (n < 0 => s = 1) /\ l \in Nat
  BY <1>1 DEF SignOf
<1>3. ptr \in l .. Len(b) /\ q \in s .. Len(b) /\ q + l = ptr /\ q \in Nat
  BY <1>1, <1>2
<1>4. /\ c \in Seq(Int) /\ Len(c) = Len(b)
      /\ \A i \in ptr + 1 .. Len(b) : c[i] = b[i]
      /\ \A i \in 1 .. q : c[i] = b[i]
      /\ \A j \in 1 .. l : c[q + j] = digits[j]
  BY <1>1, <1>3, FilledIs
<1>. HIDE DEF q, l, s
<1>5. n < 0 => c[1] = Minus
  <2>1. n < 0 => 1 \in 1 .. q
    BY <1>2, <1>3
  <2>. QED
    BY <1>1, <1>4, <2>1, Zenon
<1>6. \A i \in q + 1 .. Len(b) : c[i] \in Digits
  <2>. TAKE i \in q + 1 .. Len(b)
  <2>1. i \in ptr + 1 .. Len(b) \/ (i - q \in 1 .. l /\ q + (i - q) = i)
    BY <1>1, <1>2, <1>3
  <2>2. CASE i \in ptr + 1 .. Len(b)
    BY <1>1, <1>4, <2>2, Zenon
  <2>3. CASE i - q \in 1 .. l /\ q + (i - q) = i
    <3>1. c[q + (i - q)] = digits[i - q] /\ digits[i - q] \in Digits
      BY <1>4, <2>3, Zenon DEF l
    <3>. QED
      BY <2>3, <3>1, Zenon
  <2>. QED
    BY <2>1, <2>2, <2>3, Zenon
<1>7. ASSUME NEW t, Behind(t, c, q)
      PROVE  WorthOf(t, ptr, a, SizeOf(n))
  <2>1. t \in Seq(Int) /\ Len(t) = Len(b) /\ \A i \in q + 1 .. Len(b) : t[i] = c[i]
    BY <1>4, <1>7, Zenon DEF Behind
  <2>2. \A i \in ptr + 1 .. Len(b) : i \in q + 1 .. Len(b)
    BY <1>1, <1>2, <1>3
  <2>3. Behind(t, b, ptr)
    BY <1>4, <2>1, <2>2, Zenon DEF Behind
  <2>. QED
    BY <1>1, <2>3, Zenon
<1>. QED
  BY <1>3, <1>4, <1>5, <1>6, <1>7, Zenon DEF q, l, s

LEMMA ManyDigits ==
    ASSUME NEW n, NEW a, NEW ptr, NEW b, Writing(b, ptr, a, n), a >= 100
    PROVE  Writing(FilledOf(b, ptr, TwoDigits(a % 100)), ptr - 2, a \div 100, n)
<1>. DEFINE m == a % 100
            x == a \div 100
            digits == TwoDigits(m)
            c == FilledOf(b, ptr, digits)
            q == ptr - 2
<1>1. n \in Int /\ a \in Nat /\ ptr = CountDigits(a) + SignOf(n) /\ SignOf(n) \in {0, 1}
  BY DEF Writing, SignOf
<1>2. m \in 0 .. 99 /\ x \in Nat /\ x # 0 /\ a = 100 * x + m
  BY <1>1
<1>. HIDE DEF m, x
<1>3. CountDigits(x) = CountDigits(a) - 2 /\ CountDigits(a) \in Nat /\ CountDigits(x) \in Nat
      /\ CountDigits(x) >= 1
  BY <1>1, <1>2, CountedDigits DEF x
<1>4. ptr \in Nat /\ 2 + SignOf(n) <= ptr /\ q = CountDigits(x) + SignOf(n) /\ q \in Nat
      /\ q + 1 = ptr - 1 /\ q + 2 = ptr /\ ptr >= 2
  BY <1>1, <1>3
<1>5. /\ digits \in Seq(Int) /\ Len(digits) = 2
      /\ digits[1] = 48 + (m \div 10) /\ digits[2] = 48 + (m % 10)
      /\ m \div 10 \in 0 .. 9 /\ m % 10 \in 0 .. 9
  BY <1>2, SplitTwo
<1>6. \A j \in 1 .. 2 : digits[j] \in Digits
  <2>1. \A j \in 1 .. 2 : j = 1 \/ j = 2
    OBVIOUS
  <2>. HIDE DEF digits
  <2>2. digits[1] \in Digits /\ digits[2] \in Digits
    BY <1>5, SMTT(30), ZenonT(30) DEF Digits
  <2>. QED
    BY <2>1, <2>2, Zenon
<1>. HIDE DEF digits
<1>7. /\ c \in Seq(Int) /\ Len(c) = Len(b) /\ (n < 0 => c[1] = Minus)
      /\ q \in SignOf(n) .. Len(c)
      /\ \A i \in q + 1 .. Len(c) : c[i] \in Digits
      /\ \A j \in 1 .. 2 : c[q + j] = digits[j]
      /\ \A t : Behind(t, c, q) => WorthOf(t, ptr, a, SizeOf(n))
  <2>1. Filled(b, ptr, digits, c)
    BY Zenon DEF Filled
  <2>. HIDE DEF c
  <2>2. Len(digits) + SignOf(n) <= ptr /\ digits \in Seq(Int) /\ ptr \in Nat
        /\ \A j \in 1 .. Len(digits) : digits[j] \in Digits
    BY <1>4, <1>5, <1>6, Zenon
  <2>3. /\ c \in Seq(Int) /\ Len(c) = Len(b) /\ (n < 0 => c[1] = Minus)
        /\ ptr - Len(digits) \in SignOf(n) .. Len(c)
        /\ \A i \in ptr - Len(digits) + 1 .. Len(c) : c[i] \in Digits
        /\ \A j \in 1 .. Len(digits) : c[ptr - Len(digits) + j] = digits[j]
        /\ \A t : Behind(t, c, ptr - Len(digits)) => WorthOf(t, ptr, a, SizeOf(n))
    BY <2>1, <2>2, FilledBehind, Zenon
  <2>4. Len(digits) = 2
    BY <1>5, Zenon
  <2>. QED
    BY <2>3, <2>4, Zenon
<1>. HIDE DEF c
<1>8. ptr <= Len(c)
  BY <1>7, Zenon DEF Writing
<1>9. ASSUME NEW t, Behind(t, c, q)
      PROVE  WorthOf(t, q, x, SizeOf(n))
  <2>1. t \in Seq(Int) /\ Len(t) = Len(c) /\ \A i \in q + 1 .. Len(c) : t[i] = c[i]
    BY <1>9, Zenon DEF Behind
  <2>2. ptr \in 2 .. Len(t) /\ ptr \in q + 1 .. Len(c) /\ ptr - 1 \in q + 1 .. Len(c)
    <3>1. Len(c) \in Nat
      BY <1>7
    <3>. QED
      BY <1>4, <1>8, <2>1, <3>1
  <2>3. c[ptr - 1] = digits[1] /\ c[ptr] = digits[2]
    <3>1. 1 \in 1 .. 2 /\ 2 \in 1 .. 2
      OBVIOUS
    <3>2. c[q + 1] = digits[1] /\ c[q + 2] = digits[2]
      BY <1>7, <3>1, Zenon
    <3>. QED
      BY <1>4, <3>2, Zenon
  <2>4. t[ptr] = 48 + (m % 10) /\ t[ptr - 1] = 48 + (m \div 10)
    BY <1>5, <2>1, <2>2, <2>3, Zenon
  <2>5. WorthOf(t, ptr, 100 * x + m, SizeOf(n))
    BY <1>2, <1>7, <1>9, Zenon
  <2>6. x \in Int
    BY <1>2
  <2>. HIDE DEF q
  <2>7. WorthOf(t, ptr - 2, x, SizeOf(n))
    BY <1>2, <2>1, <2>2, <2>4, <2>5, <2>6, TwoMore, Zenon
  <2>. QED
    BY <2>7, Zenon DEF q
<1>10. q <= Len(c) /\ q = CountDigits(x) + SignOf(n)
  <2>1. Len(c) \in Nat
    BY <1>7
  <2>. QED
    BY <1>4, <1>8, <2>1
<1>. HIDE DEF q
<1>11. Writing(c, q, x, n)
  BY <1>1, <1>2, <1>7, <1>9, <1>10, Zenon DEF Writing
<1>. QED
  BY <1>11, Zenon DEF c, q, x, digits, m

LEMMA LastDigits ==
    ASSUME NEW n, NEW a, NEW ptr, NEW b, Writing(b, ptr, a, n), a < 100
    PROVE  Spells(FilledOf(b, ptr, IF a >= 10 THEN TwoDigits(a) ELSE <<48 + a>>), n)
<1>. DEFINE digits == IF a >= 10 THEN TwoDigits(a) ELSE <<48 + a>>
            c == FilledOf(b, ptr, digits)
            s == SignOf(n)
<1>1. n \in Int /\ a \in Nat /\ a # 0 /\ ptr = CountDigits(a) + s /\ s \in {0, 1}
  BY DEF Writing, SignOf
<1>2. (a < 10 => CountDigits(a) = 1) /\ (a >= 10 => CountDigits(a) = 2)
  BY <1>1, CountedDigits
<1>3. ptr \in Nat /\ (a < 10 => ptr = 1 + s) /\ (a >= 10 => ptr = 2 + s)
  BY <1>1, <1>2
<1>4. a >= 10 => /\ digits \in Seq(Int) /\ Len(digits) = 2
                 /\ digits[1] = 48 + (a \div 10) /\ digits[2] = 48 + (a % 10)
                 /\ a \div 10 \in 1 .. 9 /\ a % 10 \in 0 .. 9 /\ a = 10 * (a \div 10) + (a % 10)
  <2>. SUFFICES ASSUME a >= 10
                PROVE  /\ digits \in Seq(Int) /\ Len(digits) = 2
                       /\ digits[1] = 48 + (a \div 10) /\ digits[2] = 48 + (a % 10)
                       /\ a \div 10 \in 1 .. 9 /\ a % 10 \in 0 .. 9 /\ a = 10 * (a \div 10) + (a % 10)
    OBVIOUS
  <2>1. a \in 0 .. 99 /\ digits = TwoDigits(a)
    BY <1>1
  <2>2. a \div 10 \in 1 .. 9 /\ a % 10 \in 0 .. 9 /\ a = 10 * (a \div 10) + (a % 10)
    BY <1>1
  <2>. HIDE DEF digits
  <2>. QED
    BY <2>1, <2>2, SplitTwo, Zenon
<1>5. a < 10 => digits \in Seq(Int) /\ Len(digits) = 1 /\ digits[1] = 48 + a
  <2>1. a < 10 => digits = <<48 + a>>
    BY <1>1
  <2>2. 48 + a \in Int
    BY <1>1
  <2>3. \A y \in Int : <<y>> \in Seq(Int) /\ Len(<<y>>) = 1 /\ <<y>>[1] = y
    OBVIOUS
  <2>. HIDE DEF digits
  <2>. QED
    BY <2>1, <2>2, <2>3, Zenon
<1>. HIDE DEF digits
<1>6. digits \in Seq(Int) /\ Len(digits) \in {1, 2} /\ Len(digits) + s <= ptr /\ ptr - Len(digits) = s
      /\ digits[1] # 48 /\ \A j \in 1 .. Len(digits) : digits[j] \in Digits
  <2>1. CASE a < 10
    <3>1. digits \in Seq(Int) /\ Len(digits) = 1 /\ digits[1] = 48 + a
      BY <1>5, <2>1, Zenon
    <3>2. digits[1] \in Digits /\ digits[1] # 48
      BY <1>1, <2>1, <3>1 DEF Digits
    <3>3. \A j \in 1 .. Len(digits) : j = 1
      BY <3>1
    <3>4. \A j \in 1 .. Len(digits) : digits[j] \in Digits
      BY <3>2, <3>3, Zenon
    <3>5. Len(digits) + s <= ptr /\ ptr - Len(digits) = s
      BY <1>1, <1>3, <2>1, <3>1
    <3>. QED
      BY <3>1, <3>2, <3>4, <3>5
  <2>2. CASE a >= 10
    <3>1. digits \in Seq(Int) /\ Len(digits) = 2
          /\ digits[1] = 48 + (a \div 10) /\ digits[2] = 48 + (a % 10)
          /\ a \div 10 \in 1 .. 9 /\ a % 10 \in 0 .. 9
      BY <1>4, <2>2
    <3>2. digits[1] \in Digits /\ digits[1] # 48 /\ digits[2] \in Digits
      <4>1. \A x \in 0 .. 9 : 48 + x \in Digits /\ (x # 0 => 48 + x # 48)
        BY DEF Digits
      <4>2. a \div 10 \in 0 .. 9 /\ a \div 10 # 0
        BY <3>1
      <4>. QED
        BY <3>1, <4>1, <4>2, Zenon
    <3>3. \A j \in 1 .. Len(digits) : j = 1 \/ j = 2
      BY <3>1
    <3>4. \A j \in 1 .. Len(digits) : digits[j] \in Digits
      BY <3>2, <3>3, Zenon
    <3>5. Len(digits) + s <= ptr /\ ptr - Len(digits) = s
      BY <1>1, <1>3, <2>2, <3>1
    <3>. QED
      BY <3>1, <3>2, <3>4, <3>5
  <2>. QED
    BY <1>1, <2>1, <2>2
<1>7. /\ c \in Seq(Int) /\ Len(c) = Len(b) /\ (n < 0 => c[1] = Minus)
      /\ \A i \in s + 1 .. Len(c) : c[i] \in Digits
      /\ \A j \in 1 .. Len(digits) : c[s + j] = digits[j]
      /\ \A t : Behind(t, c, s) => WorthOf(t, ptr, a, SizeOf(n))
  <2>1. Filled(b, ptr, digits, c)
    BY Zenon DEF Filled
  <2>. HIDE DEF c
  <2>2. Len(digits) + SignOf(n) <= ptr /\ digits \in Seq(Int) /\ ptr \in Nat
        /\ \A j \in 1 .. Len(digits) : digits[j] \in Digits
    BY <1>3, <1>6, Zenon
  <2>3. /\ c \in Seq(Int) /\ Len(c) = Len(b) /\ (n < 0 => c[1] = Minus)
        /\ ptr - Len(digits) \in SignOf(n) .. Len(c)
        /\ \A i \in ptr - Len(digits) + 1 .. Len(c) : c[i] \in Digits
        /\ \A j \in 1 .. Len(digits) : c[ptr - Len(digits) + j] = digits[j]
        /\ \A t : Behind(t, c, ptr - Len(digits)) => WorthOf(t, ptr, a, SizeOf(n))
    BY <2>1, <2>2, FilledBehind, Zenon
  <2>4. ptr - Len(digits) = s
    BY <1>6, Zenon
  <2>. QED
    BY <2>3, <2>4, Zenon
<1>8. ptr <= Len(c)
  BY <1>7, Zenon DEF Writing
<1>. HIDE DEF c, s
<1>9. Len(c) \in Nat /\ s < Len(c) /\ ptr \in 1 .. Len(c)
  <2>1. Len(c) \in Nat
    BY <1>7
  <2>. QED
    BY <1>1, <1>3, <1>8, <2>1
<1>10. c[s + 1] # 48
  <2>1. 1 \in 1 .. Len(digits)
    BY <1>6
  <2>. QED
    BY <1>6, <1>7, <2>1, Zenon
<1>11. WorthOf(c, ptr, a, SizeOf(n))
  <2>1. Behind(c, c, s)
    BY <1>7, Zenon DEF Behind
  <2>. QED
    BY <1>7, <2>1, Zenon
<1>12. WorthOf(c, s, 0, SizeOf(n))
  <2>1. CASE a < 10
    <3>1. ptr - 1 = s /\ a \in 0 .. 9 /\ 10 * 0 + a = a /\ s + 1 = ptr
      BY <1>1, <1>3, <2>1
    <3>2. c[ptr] = 48 + a
      <4>1. 1 \in 1 .. Len(digits)
        BY <1>6
      <4>2. c[s + 1] = 48 + a
        BY <1>5, <1>7, <2>1, <4>1, Zenon
      <4>. QED
        BY <3>1, <4>2, Zenon
    <3>3. WorthOf(c, ptr, 10 * 0 + a, SizeOf(n))
      BY <1>11, <3>1, Zenon
    <3>4. WorthOf(c, ptr - 1, 0, SizeOf(n))
      BY <1>7, <1>9, <3>1, <3>2, <3>3, OneDigit
    <3>. QED
      BY <3>1, <3>4, Zenon
  <2>2. CASE a >= 10
    <3>1. ptr - 2 = s /\ a \in 0 .. 99 /\ 100 * 0 + a = a /\ s + 2 = ptr /\ s + 1 = ptr - 1
          /\ ptr \in 2 .. Len(c)
      BY <1>1, <1>3, <1>9, <2>2
    <3>2. c[ptr - 1] = 48 + (a \div 10) /\ c[ptr] = 48 + (a % 10)
      <4>1. 1 \in 1 .. Len(digits) /\ 2 \in 1 .. Len(digits)
        <5>1. Len(digits) = 2
          BY <1>4, <2>2, Zenon
        <5>. QED
          BY <5>1
      <4>2. c[s + 1] = digits[1] /\ c[s + 2] = digits[2]
        BY <1>7, <4>1, Zenon
      <4>3. digits[1] = 48 + (a \div 10) /\ digits[2] = 48 + (a % 10)
        BY <1>4, <2>2, Zenon
      <4>. QED
        BY <3>1, <4>2, <4>3, Zenon
    <3>3. WorthOf(c, ptr, 100 * 0 + a, SizeOf(n))
      BY <1>11, <3>1, Zenon
    <3>4. WorthOf(c, ptr - 2, 0, SizeOf(n))
      <4>1. c \in Seq(Int) /\ 0 \in Int
        BY <1>7
      <4>. QED
        BY <3>1, <3>2, <3>3, <4>1, TwoMore, Zenon
    <3>. QED
      BY <3>1, <3>4, Zenon
  <2>. QED
    BY <1>1, <2>1, <2>2
<1>13. Spells(c, n)
  BY <1>1, <1>7, <1>9, <1>10, <1>12, AllWritten DEF Spells, s
<1>. QED
  BY <1>13, Zenon DEF c, digits

LEMMA FillIs ==
    ASSUME NEW digits, Fill(digits)
    PROVE  /\ buffer_ptr' = buffer_ptr - Len(digits)
           /\ number_buffer' = FilledOf(number_buffer, buffer_ptr, digits)
<1>. DEFINE q == buffer_ptr - Len(digits)
<1>1. /\ buffer_ptr' = q
      /\ number_buffer' = [i \in DOMAIN number_buffer |->
                             IF i \in buffer_ptr' + 1 .. buffer_ptr THEN digits[i - buffer_ptr']
                                                                    ELSE number_buffer[i]]
  BY Zenon DEF Fill
<1>2. number_buffer' = [i \in DOMAIN number_buffer |->
                          IF i \in q + 1 .. buffer_ptr THEN digits[i - q] ELSE number_buffer[i]]
  <2>. HIDE DEF q
  <2>. QED
    BY <1>1, Zenon
<1>. QED
  BY <1>1, <1>2, Zenon DEF FilledOf

LEMMA DigitsStep ==
    ASSUME IntegerInv, DumpDigits
    PROVE  IntegerInv'
<1>1. dumping = "integer" /\ number' = number
  BY Zenon DEF DumpDigits
<1>2. Writing(number_buffer, buffer_ptr, abs_value, number)
  BY <1>1 DEF IntegerInv
<1>3. abs_value \in Nat
  BY <1>2, Zenon DEF Writing
<1>4. CASE abs_value >= 100
  <2>1. ~(abs_value < 100)
    BY <1>3, <1>4
  <2>2. /\ Fill(TwoDigits(abs_value % 100)) /\ abs_value' = abs_value \div 100
        /\ dumping' = "integer"
    BY <1>1, <2>1, Zenon DEF DumpDigits
  <2>3. Len(TwoDigits(abs_value % 100)) = 2
    <3>1. abs_value % 100 \in 0 .. 99
      BY <1>3
    <3>. QED
      BY <3>1, SplitTwo, Zenon
  <2>4. /\ buffer_ptr' = buffer_ptr - 2
        /\ number_buffer' = FilledOf(number_buffer, buffer_ptr, TwoDigits(abs_value % 100))
    BY <2>2, <2>3, FillIs, Zenon
  <2>5. Writing(FilledOf(number_buffer, buffer_ptr, TwoDigits(abs_value % 100)), buffer_ptr - 2,
                abs_value \div 100, number)
    BY <1>2, <1>4, ManyDigits, Zenon
  <2>6. Writing(number_buffer', buffer_ptr', abs_value', number')
    BY <1>1, <2>2, <2>4, <2>5, Zenon
  <2>. QED
    BY <2>2, <2>6, Zenon DEF IntegerInv
<1>5. CASE abs_value < 100
  <2>. DEFINE digits == IF abs_value >= 10 THEN TwoDigits(abs_value) ELSE <<48 + abs_value>>
  <2>1. ~(abs_value >= 100)
    BY <1>3, <1>5
  <2>2. Fill(digits) /\ output' = number_buffer' /\ dumping' = "number"
    BY <1>1, <2>1, Zenon DEF DumpDigits
  <2>3. Spells(FilledOf(number_buffer, buffer_ptr, digits), number)
    BY <1>2, <1>5, LastDigits, Zenon
  <2>. HIDE DEF digits
  <2>4. Spells(output', number')
    BY <1>1, <2>2, <2>3, FillIs, Zenon
  <2>. QED
    BY <2>2, <2>4, Zenon DEF IntegerInv
<1>. QED
  BY <1>3, <1>4, <1>5

LEMMA IntegerInvStep ==
    ASSUME IntegerInv,
           [(SerializerNext /\ UNCHANGED lexerVars) \/ ReadAgain]_<<lexerVars, serializerVars>>
    PROVE  IntegerInv'
<1>1. CASE UNCHANGED <<lexerVars, serializerVars>>
  <2>1. /\ dumping' = dumping /\ output' = output /\ number' = number /\ abs_value' = abs_value
        /\ number_buffer' = number_buffer /\ buffer_ptr' = buffer_ptr
    BY <1>1 DEF serializerVars
  <2>. QED
    BY <2>1, Zenon DEF IntegerInv
<1>2. CASE DumpString \/ EndString \/ ReadAgain \/ \E b \in Bytes : DumpByte(b)
  <2>1. dumping' \notin {"integer", "number"}
    BY <1>2 DEF DumpString, EndString, ReadAgain, DumpByte
  <2>. QED
    BY <2>1, Zenon DEF IntegerInv
<1>3. CASE DumpDigits
  BY <1>3, DigitsStep, Zenon
<1>4. ASSUME NEW n \in Numbers, DumpInteger(n)
      PROVE  IntegerInv'
  <2>1. n \in Int /\ -(IntegerMax + 1) <= n
    BY SerializerAssumption
  <2>. QED
    BY <1>4, <2>1, IntegerStarts, Zenon
<1>. QED
  BY <1>1, <1>2, <1>3, <1>4, Zenon DEF SerializerNext

(* Every run: an integer of any size, the least of its width included, is *)
(* written as the number of the grammar that means it (dump_integer).      *)
THEOREM IntegersAsWritten == SerializerSpec => []IntegerAsWritten
<1>1. LexerInit /\ SerializerInit => IntegerInv
  BY DEF SerializerInit, IntegerInv
<1>2. IntegerInv
      /\ [(SerializerNext /\ UNCHANGED lexerVars) \/ ReadAgain]_<<lexerVars, serializerVars>>
      => IntegerInv'
  BY IntegerInvStep, Zenon
<1>3. IntegerInv => IntegerAsWritten
  BY DEF IntegerInv, IntegerAsWritten, Spells
<1>. QED
  BY <1>1, <1>2, <1>3, PTL DEF SerializerSpec

(* Every run: each string and each integer that is dumped is written so    *)
(* that it is read as the same string or integer again.                    *)
THEOREM ScalarsAreReadBack == SerializerSpec => []ScalarsReadBack
  BY StringsReadBack, IntegersAsWritten, PTL DEF ScalarsReadBack

================================================================================
