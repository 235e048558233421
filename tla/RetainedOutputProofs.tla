------------------------ MODULE RetainedOutputProofs ------------------------
(***************************************************************************)
(* Theorems about RetainedOutput, for any characters, texts, limits and    *)
(* number of rows: types with the constraint of the table, pages, that an  *)
(* answer is whole, that its positions are those of the whole output, and  *)
(* that a search finds every match.                                        *)
(*                                                                         *)
(* The first parts say what the functions on text compute: sizes, joined   *)
(* chunks, and the chunks a text is split into.                            *)
(***************************************************************************)
EXTENDS RetainedOutput, RecursionLemmas, FiniteSetTheorems

-----------------------------------------------------------------------------
(* Greatest and least elements.                                            *)

LEMMA MaxFacts ==
  ASSUME NEW a \in Int, NEW b \in Int, NEW S, S \subseteq a .. b, S # {}
  PROVE  Max(S) \in S /\ \A y \in S : y <= Max(S)
<1> DEFINE T == {b - x : x \in S}
<1>1. T \subseteq Nat /\ T # {}
  <2>1. \A x \in S : x \in Int /\ x <= b
    OBVIOUS
  <2>2. \A x \in S : b - x \in Nat
    BY <2>1
  <2> QED BY <2>2
<1>2. PICK n \in T : \A m \in T : n <= m
  <2> HIDE DEF T
  <2> QED BY <1>1, LeastElement
<1>3. PICK x \in S : n = b - x
  OBVIOUS
<1>4. \A y \in S : x >= y
  <2> SUFFICES ASSUME NEW y \in S PROVE x >= y
    OBVIOUS
  <2>1. b - y \in T
    OBVIOUS
  <2>2. n <= b - y
    BY <1>2, <2>1
  <2> QED BY <1>3, <2>2
<1>5. Max(S) \in S /\ \A y \in S : Max(S) >= y
  BY <1>4 DEF Max
<1> HIDE DEF T
<1> QED BY <1>5

LEMMA MinFacts ==
  ASSUME NEW a \in Int, NEW b \in Int, NEW S, S \subseteq a .. b, S # {}
  PROVE  Min(S) \in S /\ \A y \in S : Min(S) <= y
<1> DEFINE T == {x - a : x \in S}
<1>1. T \subseteq Nat /\ T # {}
  <2>1. \A x \in S : x \in Int /\ a <= x
    OBVIOUS
  <2>2. \A x \in S : x - a \in Nat
    BY <2>1
  <2> QED BY <2>2
<1>2. PICK n \in T : \A m \in T : n <= m
  <2> HIDE DEF T
  <2> QED BY <1>1, LeastElement
<1>3. PICK x \in S : n = x - a
  OBVIOUS
<1>4. ASSUME NEW y \in S PROVE x <= y
  <2>1. y - a \in T /\ x \in Int /\ y \in Int
    OBVIOUS
  <2> HIDE DEF T
  <2>2. x - a <= y - a
    BY <1>2, <1>3, <2>1
  <2> QED BY <2>1, <2>2
<1>5. Min(S) = CHOOSE z \in S : \A y \in S : z <= y
  BY DEF Min
<1> QED BY <1>4, <1>5

LEMMA MaxOfTwo ==
  ASSUME NEW a \in Int, NEW b \in Int
  PROVE  Max({a, b}) = IF a >= b THEN a ELSE b
BY DEF Max

LEMMA MinOfTwo ==
  ASSUME NEW a \in Int, NEW b \in Int
  PROVE  Min({a, b}) = IF a <= b THEN a ELSE b
BY DEF Min

-----------------------------------------------------------------------------
(* Sizes in bytes.                                                         *)

LEMMA WidthNat ==
  ASSUME NEW c \in Chars
  PROVE  Width[c] \in Nat /\ Width[c] > 0
<1>1. Width \in [Chars -> 1 .. 4]
  BY TextAssumption, Zenon
<1> QED BY <1>1

\* BytesBefore is what its recursive definition says.
LEMMA BytesDef ==
  ASSUME NEW text \in Seq(Chars)
  PROVE  /\ BytesBefore(text, 0) = 0
         /\ \A i \in 1 .. Len(text) :
              BytesBefore(text, i) = BytesBefore(text, i - 1) + Width[text[i]]
         /\ \A i \in 0 .. Len(text) : BytesBefore(text, i) \in Nat
<1> DEFINE N == Len(text)
           Recursion(f) == f = [n \in 0 .. N |-> IF n = 0 THEN 0 ELSE f[n - 1] + Width[text[n]]]
           Step == [x \in Nat \X (1 .. N) |-> x[1] + Width[text[x[2]]]]
           size == CHOOSE f : Recursion(f)
<1>1. N \in Nat /\ \A n \in 1 .. N : Width[text[n]] \in Nat
  <2>1. N \in Nat /\ \A n \in 1 .. N : text[n] \in Chars
    OBVIOUS
  <2>2. \A c \in Chars : Width[c] \in Nat
    BY WidthNat
  <2> QED BY <2>1, <2>2
<1>2. Step \in [Nat \X (1 .. N) -> Nat]
  BY <1>1
<1>3. PICK g \in [0 .. N -> Nat] : g[0] = 0 /\ \A n \in 1 .. N : g[n] = Step[<<g[n - 1], n>>]
  <2> HIDE DEF Step, N
  <2>1. Iterates(Nat) /\ 0 \in Nat
    BY EveryStepIterates
  <2>2. N \in Nat
    BY <1>1
  <2>3. \A n \in Nat : \A S \in [Nat \X (1 .. n) -> Nat] : \E g \in [0 .. n -> Nat] :
          g[0] = 0 /\ \A k \in 1 .. n : g[k] = S[<<g[k - 1], k>>]
    BY <2>1, Zenon DEF Iterates
  <2>4. \A S \in [Nat \X (1 .. N) -> Nat] : \E g \in [0 .. N -> Nat] :
          g[0] = 0 /\ \A k \in 1 .. N : g[k] = S[<<g[k - 1], k>>]
    BY <2>2, <2>3, Zenon
  <2> QED BY <1>2, <2>4, Zenon
<1>4. Recursion(g)
  <2>1. ASSUME NEW n \in 0 .. N, n # 0 PROVE g[n] = g[n - 1] + Width[text[n]]
    <3>1. n \in 1 .. N /\ n - 1 \in 0 .. N
      BY <1>1, <2>1
    <3>2. g[n - 1] \in Nat
      BY <1>3, <3>1
    <3> DEFINE x == <<g[n - 1], n>>
    <3>3. x \in Nat \X (1 .. N) /\ x[1] = g[n - 1] /\ x[2] = n
      BY <3>1, <3>2
    <3>4. g[n] = Step[x]
      BY <1>3, <3>1
    <3> HIDE DEF x
    <3>5. Step[x] = x[1] + Width[text[x[2]]]
      BY <3>3
    <3> QED BY <3>3, <3>4, <3>5
  <2> QED BY <1>3, <2>1
<1>5. Recursion(size)
  <2> HIDE DEF Recursion
  <2> QED BY <1>4
<1>6. ASSUME NEW i \in 0 .. N PROVE BytesBefore(text, i) = size[i]
  <2>1. i \in Int /\ Len(text) \in Int /\ i <= Len(text)
    BY <1>1
  <2>2. Min({i, Len(text)}) = i
    BY <2>1, MinOfTwo
  <2> QED BY <2>2 DEF BytesBefore
<1>7. size[0] = 0 /\ \A n \in 1 .. N : size[n] = size[n - 1] + Width[text[n]]
  <2> HIDE DEF size
  <2> QED BY <1>1, <1>5
<1> HIDE DEF size, Step
<1>8. \A n \in 0 .. N : size[n] \in Nat
  <2> DEFINE Holds == {n \in 0 .. N : size[n] \in Nat}
  <2>1. 0 \in Holds
    BY <1>1, <1>7
  <2>2. ASSUME NEW k \in 0 + 1 .. N, k - 1 \in Holds PROVE k \in Holds
    <3> HIDE DEF N
    <3>1. k \in 1 .. N /\ k \in 0 .. N
      BY <1>1
    <3>2. size[k - 1] \in Nat /\ Width[text[k]] \in Nat
      BY <1>1, <2>2, <3>1
    <3>3. size[k] = size[k - 1] + Width[text[k]]
      BY <1>7, <3>1
    <3> QED BY <3>1, <3>2, <3>3
  <2>3. \A k \in 0 .. N : k \in Holds
    <3>1. 0 \in Nat
      OBVIOUS
    <3> HIDE DEF Holds, N
    <3> QED BY <1>1, <2>1, <2>2, <3>1, BoundedInduction
  <2> QED BY <2>3
<1>9. /\ \A i \in 0 .. N : BytesBefore(text, i) = size[i]
      /\ \A i \in 1 .. N : BytesBefore(text, i - 1) = size[i - 1]
  <2> HIDE DEF N
  <2> QED BY <1>1, <1>6
<1>10. 0 \in 0 .. N /\ \A i \in 1 .. N : i \in 0 .. N
  <2> HIDE DEF N
  <2> QED BY <1>1
<1> QED BY <1>7, <1>8, <1>9, <1>10
\* The size of a prefix depends on the prefix only.
LEMMA BytesAgree ==
  ASSUME NEW text \in Seq(Chars), NEW other \in Seq(Chars), NEW m \in Nat,
         m <= Len(text), m <= Len(other), \A i \in 1 .. m : text[i] = other[i]
  PROVE  \A i \in 0 .. m : BytesBefore(text, i) = BytesBefore(other, i)
<1> DEFINE Holds == {i \in 0 .. m : BytesBefore(text, i) = BytesBefore(other, i)}
<1>1. 0 \in Holds
  BY BytesDef
<1>2. ASSUME NEW k \in 0 + 1 .. m, k - 1 \in Holds PROVE k \in Holds
  <2>1. k \in 0 .. m /\ k \in 1 .. Len(text) /\ k \in 1 .. Len(other) /\ k \in 1 .. m
    OBVIOUS
  <2>2. BytesBefore(text, k) = BytesBefore(text, k - 1) + Width[text[k]]
    BY <2>1, BytesDef
  <2>3. BytesBefore(other, k) = BytesBefore(other, k - 1) + Width[other[k]]
    BY <2>1, BytesDef
  <2>4. BytesBefore(text, k) = BytesBefore(other, k)
    BY <1>2, <2>1, <2>2, <2>3
  <2> QED BY <2>1, <2>4
<1>3. \A k \in 0 .. m : k \in Holds
  <2> HIDE DEF Holds
  <2>1. 0 \in Nat
    OBVIOUS
  <2> QED BY <1>1, <1>2, <2>1, BoundedInduction
<1> QED BY <1>3

LEMMA BytesFacts ==
  ASSUME NEW text \in Seq(Chars)
  PROVE  Bytes(text) \in Nat /\ Len(text) \in Nat
<1>1. Len(text) \in 0 .. Len(text) /\ Len(text) \in Nat
  OBVIOUS
<1> QED BY <1>1, BytesDef DEF Bytes

LEMMA NoBytes == Bytes(<<>>) = 0
<1>1. <<>> \in Seq(Chars) /\ Len(<<>>) = 0
  OBVIOUS
<1> QED BY <1>1, BytesDef DEF Bytes

LEMMA BytesAppend ==
  ASSUME NEW text \in Seq(Chars), NEW c \in Chars
  PROVE  Bytes(Append(text, c)) = Bytes(text) + Width[c]
<1> DEFINE N == Len(text)
           longer == Append(text, c)
<1>1. /\ N \in Nat /\ longer \in Seq(Chars) /\ Len(longer) = N + 1 /\ longer[N + 1] = c
      /\ \A i \in 1 .. N : longer[i] = text[i]
  OBVIOUS
<1> HIDE DEF longer
<1>2. N \in 0 .. N /\ N + 1 \in 1 .. Len(longer) /\ N <= Len(longer) /\ N <= Len(text)
  BY <1>1
<1>3. BytesBefore(longer, N) = BytesBefore(text, N)
  <2> HIDE DEF N
  <2>1. \A i \in 0 .. N : BytesBefore(longer, i) = BytesBefore(text, i)
    BY <1>1, <1>2, BytesAgree
  <2> QED BY <1>2, <2>1
<1>4. BytesBefore(longer, N + 1) = BytesBefore(longer, (N + 1) - 1) + Width[longer[N + 1]]
  BY <1>1, <1>2, BytesDef
<1>5. (N + 1) - 1 = N
  BY <1>1
<1> QED BY <1>1, <1>3, <1>4, <1>5 DEF Bytes, longer

-----------------------------------------------------------------------------
(* Chunks joined.                                                          *)

\* What FlattenSeq computes, one chunk after the other.
LEMMA JoinDef ==
  ASSUME NEW rows \in Seq(Seq(Chars)), Len(rows) # 0
  PROVE  \E f \in [1 .. Len(rows) -> Seq(Chars)] :
           /\ f[1] = rows[1]
           /\ \A n \in 2 .. Len(rows) : f[n] = f[n - 1] \o rows[n]
           /\ FlattenSeq(rows) = f[Len(rows)]
<1> DEFINE N == Len(rows)
           Recursion(f) == f = [i \in 1 .. N |-> IF i = 1 THEN rows[i] ELSE f[i - 1] \o rows[i]]
           Step == [x \in Seq(Chars) \X (1 .. N - 1) |-> x[1] \o rows[x[2] + 1]]
           joined == CHOOSE f : Recursion(f)
<1>1. N \in Nat \ {0} /\ \A n \in 1 .. N : rows[n] \in Seq(Chars)
  OBVIOUS
<1>2. Step \in [Seq(Chars) \X (1 .. N - 1) -> Seq(Chars)]
  <2>1. ASSUME NEW x \in Seq(Chars) \X (1 .. N - 1) PROVE x[1] \o rows[x[2] + 1] \in Seq(Chars)
    <3>1. x[1] \in Seq(Chars) /\ x[2] + 1 \in 1 .. N
      BY <1>1
    <3>2. rows[x[2] + 1] \in Seq(Chars)
      BY <1>1, <3>1
    <3> QED BY <3>1, <3>2
  <2> QED BY <2>1
<1>3. PICK g \in [0 .. N - 1 -> Seq(Chars)] :
        g[0] = rows[1] /\ \A n \in 1 .. N - 1 : g[n] = Step[<<g[n - 1], n>>]
  <2>1. Iterates(Seq(Chars)) /\ rows[1] \in Seq(Chars) /\ N - 1 \in Nat
    BY <1>1, EveryStepIterates
  <2> HIDE DEF Step, N
  <2> QED BY <1>2, <2>1, Zenon DEF Iterates
<1> DEFINE h == [i \in 1 .. N |-> g[i - 1]]
<1>4. h \in [1 .. N -> Seq(Chars)] /\ h[1] = rows[1]
  BY <1>1, <1>3
<1>5. ASSUME NEW n \in 1 .. N, n # 1 PROVE h[n] = h[n - 1] \o rows[n]
  <2>1. n \in 1 .. N /\ n - 1 \in 1 .. N - 1 /\ n - 1 \in 1 .. N /\ n - 1 \in 0 .. N - 1
    BY <1>1, <1>5
  <2>2. (n - 1) - 1 \in 0 .. N - 1 /\ (n - 1) + 1 = n
    BY <1>1, <2>1
  <2>3. g[(n - 1) - 1] \in Seq(Chars)
    BY <1>3, <2>2
  <2>4. <<g[(n - 1) - 1], n - 1>> \in Seq(Chars) \X (1 .. N - 1)
    BY <2>1, <2>3
  <2>5. Step[<<g[(n - 1) - 1], n - 1>>] = g[(n - 1) - 1] \o rows[(n - 1) + 1]
    BY <2>4
  <2>6. g[n - 1] = Step[<<g[(n - 1) - 1], n - 1>>]
    BY <1>3, <2>1
  <2>7. h[n] = g[n - 1] /\ h[n - 1] = g[(n - 1) - 1]
    BY <2>1
  <2> QED BY <2>2, <2>5, <2>6, <2>7
<1>6. Recursion(h)
  BY <1>4, <1>5
<1>7. Recursion(joined)
  <2> HIDE DEF Recursion, h
  <2> QED BY <1>6
<1>8. FlattenSeq(rows) = joined[N]
  BY <1>1 DEF FlattenSeq
<1> HIDE DEF joined, h, Step
<1>9. joined[1] = rows[1] /\ \A n \in 1 .. N : n # 1 => joined[n] = joined[n - 1] \o rows[n]
  <2>1. joined = [i \in 1 .. N |-> IF i = 1 THEN rows[i] ELSE joined[i - 1] \o rows[i]]
    BY <1>7
  <2>2. ASSUME NEW i \in 1 .. N
        PROVE  joined[i] = IF i = 1 THEN rows[i] ELSE joined[i - 1] \o rows[i]
    BY <2>1
  <2>3. 1 \in 1 .. N
    BY <1>1
  <2>4. joined[1] = rows[1]
    BY <2>2, <2>3
  <2> HIDE DEF N
  <2> QED BY <2>2, <2>4, Zenon
<1>10. \A n \in 1 .. N : joined[n] \in Seq(Chars)
  <2> DEFINE Holds == {n \in 1 .. N : joined[n] \in Seq(Chars)}
  <2>1. 1 \in Holds
    BY <1>1, <1>9
  <2>2. ASSUME NEW k \in 1 + 1 .. N, k - 1 \in Holds PROVE k \in Holds
    <3>1. k \in 1 .. N /\ k # 1 /\ rows[k] \in Seq(Chars) /\ joined[k - 1] \in Seq(Chars)
      BY <1>1, <2>2
    <3>2. joined[k] = joined[k - 1] \o rows[k]
      BY <1>9, <3>1
    <3>3. joined[k] \in Seq(Chars)
      BY <3>1, <3>2
    <3> QED BY <3>1, <3>3
  <2>3. \A k \in 1 .. N : k \in Holds
    <3> HIDE DEF Holds
    <3>1. 1 \in Nat
      OBVIOUS
    <3> QED BY <1>1, <2>1, <2>2, <3>1, BoundedInduction
  <2> QED BY <2>3
<1>11. joined \in [1 .. N -> Seq(Chars)]
  <2>1. joined = [i \in 1 .. N |-> joined[i]]
    BY <1>7
  <2> QED BY <1>10, <2>1
<1>12. \A n \in 2 .. N : joined[n] = joined[n - 1] \o rows[n]
  <2> SUFFICES ASSUME NEW n \in 2 .. N PROVE joined[n] = joined[n - 1] \o rows[n]
    OBVIOUS
  <2>1. n \in 1 .. N /\ n # 1
    BY <1>1
  <2> QED BY <1>9, <2>1
<1> QED BY <1>8, <1>9, <1>11, <1>12

LEMMA JoinedWithNothing ==
  ASSUME NEW x \in Seq(Chars)
  PROVE  <<>> \o x = x /\ x \o <<>> = x
  OBVIOUS

LEMMA JoinNothing == TextOf(<<>>) = <<>>
BY DEF TextOf, FlattenSeq

LEMMA JoinIsText ==
  ASSUME NEW rows \in Seq(Seq(Chars))
  PROVE  TextOf(rows) \in Seq(Chars)
<1>1. CASE Len(rows) = 0
  <2>1. rows = <<>>
    BY <1>1
  <2>2. TextOf(rows) = <<>> /\ <<>> \in Seq(Chars)
    BY <2>1, JoinNothing
  <2> QED BY <2>2
<1>2. CASE Len(rows) # 0
  <2>1. PICK f \in [1 .. Len(rows) -> Seq(Chars)] : FlattenSeq(rows) = f[Len(rows)]
    BY <1>2, JoinDef
  <2>2. Len(rows) \in 1 .. Len(rows)
    BY <1>2
  <2> QED BY <2>1, <2>2 DEF TextOf
<1> QED BY <1>1, <1>2

LEMMA FirstRows ==
  ASSUME NEW rows \in Seq(Seq(Chars)), NEW n \in 0 .. Len(rows)
  PROVE  /\ SubSeq(rows, 1, n) \in Seq(Seq(Chars)) /\ Len(SubSeq(rows, 1, n)) = n
         /\ \A i \in 1 .. n : SubSeq(rows, 1, n)[i] = rows[i]
  OBVIOUS

\* One more chunk joins on its text.
LEMMA JoinNext ==
  ASSUME NEW rows \in Seq(Seq(Chars)), NEW n \in 1 .. Len(rows)
  PROVE  TextOf(SubSeq(rows, 1, n)) = TextOf(SubSeq(rows, 1, n - 1)) \o rows[n]
<1>1. Len(rows) \in Nat /\ Len(rows) # 0 /\ n \in Nat /\ rows[1] \in Seq(Chars)
  OBVIOUS
<1>2. PICK f \in [1 .. Len(rows) -> Seq(Chars)] :
        /\ f[1] = rows[1]
        /\ \A i \in 2 .. Len(rows) : f[i] = f[i - 1] \o rows[i]
  BY <1>1, JoinDef
<1>3. ASSUME NEW m \in 1 .. Len(rows) PROVE TextOf(SubSeq(rows, 1, m)) = f[m]
  <2> DEFINE p == SubSeq(rows, 1, m)
  <2>1. /\ p \in Seq(Seq(Chars)) /\ Len(p) = m /\ m \in Nat \ {0} /\ Len(p) # 0
        /\ \A i \in 1 .. m : p[i] = rows[i]
    BY <1>1, FirstRows
  <2> HIDE DEF p
  <2>2. PICK e \in [1 .. Len(p) -> Seq(Chars)] :
          /\ e[1] = p[1] /\ FlattenSeq(p) = e[Len(p)]
          /\ \A i \in 2 .. Len(p) : e[i] = e[i - 1] \o p[i]
    BY <2>1, JoinDef
  <2> DEFINE Holds == {i \in 1 .. m : e[i] = f[i]}
  <2>3. 1 \in Holds
    BY <1>2, <2>1, <2>2
  <2>4. ASSUME NEW k \in 1 + 1 .. m, k - 1 \in Holds PROVE k \in Holds
    <3>1. k \in 2 .. m /\ k \in 2 .. Len(p) /\ k \in 2 .. Len(rows) /\ k \in 1 .. m
      <4>1. k \in 2 .. m /\ k \in 1 .. m /\ m <= Len(rows)
        BY <1>1
      <4>2. m = Len(p)
        BY <2>1
      <4> QED BY <1>1, <4>1, <4>2
    <3>2. e[k] = e[k - 1] \o p[k] /\ f[k] = f[k - 1] \o rows[k]
      BY <1>2, <2>2, <3>1
    <3>3. e[k - 1] = f[k - 1] /\ p[k] = rows[k]
      BY <2>1, <2>4, <3>1
    <3>4. e[k] = f[k]
      BY <3>2, <3>3
    <3> QED BY <3>1, <3>4
  <2>5. \A k \in 1 .. m : k \in Holds
    <3> HIDE DEF Holds
    <3>1. 1 \in Nat
      OBVIOUS
    <3> QED BY <2>1, <2>3, <2>4, <3>1, BoundedInduction
  <2>6. m \in 1 .. m
    BY <2>1
  <2> QED BY <2>1, <2>2, <2>5, <2>6 DEF TextOf, p
<1>4. CASE n = 1
  <2>1. SubSeq(rows, 1, n - 1) = <<>>
    BY <1>4
  <2>2. TextOf(SubSeq(rows, 1, n)) = rows[n]
    BY <1>2, <1>3, <1>4
  <2>3. TextOf(SubSeq(rows, 1, n - 1)) \o rows[n] = rows[n]
    <3>1. <<>> \o rows[n] = rows[n]
      BY <1>1, <1>4, JoinedWithNothing
    <3> QED BY <2>1, <3>1, JoinNothing
  <2> QED BY <2>2, <2>3
<1>5. CASE n # 1
  <2>1. n \in 2 .. Len(rows) /\ n - 1 \in 1 .. Len(rows)
    BY <1>1, <1>5
  <2>2. TextOf(SubSeq(rows, 1, n)) = f[n] /\ TextOf(SubSeq(rows, 1, n - 1)) = f[n - 1]
    BY <1>3, <2>1
  <2>3. f[n] = f[n - 1] \o rows[n]
    BY <1>2, <2>1
  <2> QED BY <2>2, <2>3
<1> QED BY <1>4, <1>5

LEMMA SomeRows ==
  ASSUME NEW rows \in Seq(Seq(Chars)), NEW m \in 0 .. Len(rows), NEW n \in m .. Len(rows)
  PROVE  /\ SubSeq(rows, m + 1, n) \in Seq(Seq(Chars)) /\ Len(SubSeq(rows, m + 1, n)) = n - m
         /\ \A i \in 1 .. n - m : SubSeq(rows, m + 1, n)[i] = rows[m + i]
<1>1. m \in Nat /\ n \in Nat /\ Len(rows) \in Nat /\ m <= n /\ n <= Len(rows)
  OBVIOUS
<1>2. Len(SubSeq(rows, m + 1, n)) = n - m
  BY <1>1
<1>3. SubSeq(rows, m + 1, n) \in Seq(Seq(Chars))
  BY <1>1
<1>4. ASSUME NEW i \in 1 .. n - m PROVE SubSeq(rows, m + 1, n)[i] = rows[m + i]
  <2>1. i \in 1 .. n - (m + 1) + 1 /\ m + 1 + i - 1 = m + i
    BY <1>1
  <2>2. SubSeq(rows, m + 1, n)[i] = rows[m + 1 + i - 1]
    BY <1>1, <2>1
  <2> QED BY <2>1, <2>2
<1> QED BY <1>2, <1>3, <1>4

LEMMA Associative ==
  ASSUME NEW x \in Seq(Chars), NEW y \in Seq(Chars), NEW z \in Seq(Chars)
  PROVE  (x \o y) \o z = x \o (y \o z)
  OBVIOUS

LEMMA SameSequence ==
  ASSUME NEW S, NEW s \in Seq(S), NEW t \in Seq(S), Len(s) = Len(t),
         \A i \in 1 .. Len(s) : s[i] = t[i]
  PROVE  s = t
  OBVIOUS

\* Joined pages are the joined rows.
LEMMA JoinParts ==
  ASSUME NEW rows \in Seq(Seq(Chars)), NEW m \in 0 .. Len(rows), NEW n \in m .. Len(rows)
  PROVE  TextOf(SubSeq(rows, 1, m)) \o TextOf(SubSeq(rows, m + 1, n))
           = TextOf(SubSeq(rows, 1, n))
<1> DEFINE First(k) == TextOf(SubSeq(rows, 1, k))
           Second(k) == TextOf(SubSeq(rows, m + 1, k))
           Holds == {k \in m .. n : First(m) \o Second(k) = First(k)}
<1>1. m \in Nat /\ n \in Nat /\ n <= Len(rows) /\ Len(rows) \in Nat /\ m <= n
  OBVIOUS
<1>2. \A k \in m .. n : k \in 0 .. Len(rows) /\ k \in m .. Len(rows)
  BY <1>1
<1>3. \A k \in m .. n : First(k) \in Seq(Chars) /\ Second(k) \in Seq(Chars)
  BY <1>2, FirstRows, SomeRows, JoinIsText
<1>4. m \in Holds
  <2>1. SubSeq(rows, m + 1, m) = <<>> /\ m \in m .. n
    BY <1>1
  <2>2. Second(m) = <<>>
    BY <2>1, JoinNothing
  <2>3. First(m) \in Seq(Chars)
    BY <1>3, <2>1
  <2> HIDE DEF First, Second
  <2> QED BY <2>1, <2>2, <2>3
<1>5. ASSUME NEW k \in m + 1 .. n, k - 1 \in Holds PROVE k \in Holds
  <2> DEFINE p == SubSeq(rows, m + 1, k)
             l == k - m
  <2>1. /\ k \in 1 .. Len(rows) /\ k \in m .. n /\ k - 1 \in m .. n /\ l \in Nat \ {0}
        /\ m + l = k /\ l - 1 \in 0 .. l /\ l \in 1 .. l
    BY <1>1
  <2>2. /\ p \in Seq(Seq(Chars)) /\ Len(p) = l
        /\ \A i \in 1 .. l : p[i] = rows[m + i]
    BY <1>2, <2>1, SomeRows
  <2>3. TextOf(SubSeq(p, 1, l)) = TextOf(SubSeq(p, 1, l - 1)) \o p[l]
    <3> HIDE DEF p, l
    <3> QED BY <2>1, <2>2, JoinNext
  <2>4. SubSeq(p, 1, l) = p
    <3> HIDE DEF p, l
    <3> QED BY <2>1, <2>2
  <2>5. SubSeq(p, 1, l - 1) = SubSeq(rows, m + 1, k - 1)
    <3> DEFINE shorter == SubSeq(rows, m + 1, k - 1)
               start == SubSeq(p, 1, l - 1)
    <3>1. /\ shorter \in Seq(Seq(Chars)) /\ Len(shorter) = l - 1
          /\ \A i \in 1 .. l - 1 : shorter[i] = rows[m + i]
      <4>1. k - 1 \in m .. Len(rows) /\ (k - 1) - m = l - 1
        BY <1>1, <2>1
      <4> HIDE DEF l
      <4> QED BY <4>1, SomeRows
    <3>2. /\ start \in Seq(Seq(Chars)) /\ Len(start) = l - 1
          /\ \A i \in 1 .. l - 1 : start[i] = p[i]
      <4>1. l - 1 \in 0 .. Len(p)
        BY <2>1, <2>2
      <4> HIDE DEF p, l
      <4> QED BY <2>2, <4>1, FirstRows
    <3>3. \A i \in 1 .. l - 1 : i \in 1 .. l
      BY <2>1
    <3> HIDE DEF p, l, shorter, start
    <3>4. \A i \in 1 .. l - 1 : start[i] = shorter[i]
      BY <2>2, <3>1, <3>2, <3>3
    <3>5. start = shorter
      BY <3>1, <3>2, <3>4, SameSequence
    <3> QED BY <3>5 DEF shorter, start
  <2>6. Second(k) = Second(k - 1) \o rows[k]
    <3>1. p[l] = rows[k]
      BY <2>1, <2>2
    <3> QED BY <2>3, <2>4, <2>5, <3>1
  <2>7. First(k) = First(k - 1) \o rows[k]
    BY <2>1, JoinNext
  <2>8. First(m) \o Second(k - 1) = First(k - 1)
    BY <1>5
  <2>9. rows[k] \in Seq(Chars) /\ m \in m .. n
    BY <1>1, <2>1
  <2> HIDE DEF First, Second
  <2>10. First(m) \o (Second(k - 1) \o rows[k]) = (First(m) \o Second(k - 1)) \o rows[k]
    <3>1. First(m) \in Seq(Chars) /\ Second(k - 1) \in Seq(Chars)
      BY <1>3, <2>1, <2>9
    <3> QED BY <2>9, <3>1, Associative
  <2>11. First(m) \o Second(k) = First(k)
    BY <2>6, <2>7, <2>8, <2>10
  <2> QED BY <2>1, <2>11
<1>6. \A k \in m .. n : k \in Holds
  <2> HIDE DEF Holds
  <2> QED BY <1>1, <1>4, <1>5, BoundedInduction
<1>7. n \in m .. n
  BY <1>1
<1> QED BY <1>6, <1>7
-----------------------------------------------------------------------------
(* Chunks of a text.                                                       *)

\* Rows that the table takes: byte_count > 0 AND byte_count <= 8192.
Rows == {rows \in Seq(Seq(Chars)) : \A n \in 1 .. Len(rows) : Bytes(rows[n]) \in 1 .. ChunkBytes}

LEMMA OneCharacter ==
  ASSUME NEW c \in Chars
  PROVE  <<c>> \in Seq(Chars) /\ Bytes(<<c>>) \in 1 .. ChunkBytes
<1>1. <<c>> = Append(<<>>, c) /\ <<>> \in Seq(Chars)
  OBVIOUS
<1>2. Bytes(<<c>>) = 0 + Width[c]
  BY <1>1, BytesAppend, NoBytes
<1>3. ChunkBytes \in Nat /\ Width[c] <= ChunkBytes
  BY LimitAssumption
<1>4. Width[c] \in Nat /\ Width[c] > 0
  BY WidthNat
<1> QED BY <1>2, <1>3, <1>4

\* A character is added to the last chunk when it fits, and starts a new one otherwise.
LEMMA AddedChunks ==
  ASSUME NEW chunks \in Rows, NEW c \in Chars
  PROVE  AddToChunks(chunks, c, ChunkBytes) \in Rows
<1> DEFINE N == Len(chunks)
<1>1. /\ chunks \in Seq(Seq(Chars)) /\ N \in Nat
      /\ \A n \in 1 .. N : chunks[n] \in Seq(Chars) /\ Bytes(chunks[n]) \in 1 .. ChunkBytes
  BY DEF Rows
<1>2. CASE chunks # <<>> /\ FitsChunk(Last(chunks), c, ChunkBytes)
  <2> DEFINE longer == Append(chunks[N], c)
             after == SubSeq(chunks, 1, N - 1) \o <<longer>>
  <2>1. N \in 1 .. N
    BY <1>1, <1>2
  <2>2. Bytes(longer) = Bytes(chunks[N]) + Width[c] /\ longer \in Seq(Chars)
    BY <1>1, <2>1, BytesAppend
  <2>3. Bytes(longer) \in 1 .. ChunkBytes
    <3>1. Bytes(chunks[N]) + Width[c] <= ChunkBytes
      BY <1>2 DEF FitsChunk, Last
    <3>2. ChunkBytes \in Nat /\ Width[c] \in Nat /\ Bytes(chunks[N]) \in 1 .. ChunkBytes
      BY <1>1, <2>1, WidthNat, LimitAssumption
    <3> QED BY <2>2, <3>1, <3>2
  <2>4. /\ SubSeq(chunks, 1, N - 1) \in Seq(Seq(Chars)) /\ Len(SubSeq(chunks, 1, N - 1)) = N - 1
        /\ \A i \in 1 .. N - 1 : SubSeq(chunks, 1, N - 1)[i] = chunks[i]
    <3>1. N - 1 \in 0 .. Len(chunks)
      BY <1>1, <2>1
    <3> QED BY <1>1, <3>1, FirstRows
  <2> HIDE DEF longer
  <2>5. /\ after \in Seq(Seq(Chars)) /\ Len(after) = N
        /\ \A i \in 1 .. N : after[i] = IF i = N THEN longer ELSE chunks[i]
    BY <1>1, <2>1, <2>2, <2>4
  <2>6. AddToChunks(chunks, c, ChunkBytes) = after
    BY <1>2 DEF AddToChunks, Front, Last, longer
  <2> HIDE DEF after
  <2>7. \A i \in 1 .. Len(after) : Bytes(after[i]) \in 1 .. ChunkBytes
    BY <1>1, <2>3, <2>5
  <2> QED BY <2>5, <2>6, <2>7 DEF Rows
<1>3. CASE ~ (chunks # <<>> /\ FitsChunk(Last(chunks), c, ChunkBytes))
  <2> DEFINE after == Append(chunks, <<c>>)
  <2>1. <<c>> \in Seq(Chars) /\ Bytes(<<c>>) \in 1 .. ChunkBytes
    BY OneCharacter
  <2>2. /\ after \in Seq(Seq(Chars)) /\ Len(after) = N + 1
        /\ \A i \in 1 .. N + 1 : after[i] = IF i = N + 1 THEN <<c>> ELSE chunks[i]
    BY <1>1, <2>1
  <2>3. AddToChunks(chunks, c, ChunkBytes) = after
    BY <1>3 DEF AddToChunks
  <2> HIDE DEF after
  <2>4. ASSUME NEW i \in 1 .. Len(after) PROVE Bytes(after[i]) \in 1 .. ChunkBytes
    <3>1. i \in 1 .. N + 1 /\ (i # N + 1 => i \in 1 .. N)
      BY <1>1, <2>2
    <3> QED BY <1>1, <2>1, <2>2, <3>1
  <2> QED BY <2>2, <2>3, <2>4 DEF Rows
<1> QED BY <1>2, <1>3

LEMMA SplitIsRows ==
  ASSUME NEW text \in Seq(Chars)
  PROVE  SplitChunks(text, ChunkBytes) \in Rows
<1> DEFINE N == Len(text)
           Recursion(f) == f = [n \in 0 .. N |->
             IF n = 0 THEN <<>> ELSE AddToChunks(f[n - 1], text[n], ChunkBytes)]
           Step == [x \in Rows \X (1 .. N) |-> AddToChunks(x[1], text[x[2]], ChunkBytes)]
           chunks == CHOOSE f : Recursion(f)
<1>1. N \in Nat /\ \A n \in 1 .. N : text[n] \in Chars
  OBVIOUS
<1>2. Step \in [Rows \X (1 .. N) -> Rows]
  BY <1>1, AddedChunks
<1>3. <<>> \in Rows
  BY DEF Rows
<1>4. PICK g \in [0 .. N -> Rows] : g[0] = <<>> /\ \A n \in 1 .. N : g[n] = Step[<<g[n - 1], n>>]
  <2> HIDE DEF Step, N
  <2>1. Iterates(Rows)
    BY EveryStepIterates
  <2> QED BY <1>1, <1>2, <1>3, <2>1, Zenon DEF Iterates
<1>5. Recursion(g)
  <2>1. ASSUME NEW n \in 0 .. N, n # 0 PROVE g[n] = AddToChunks(g[n - 1], text[n], ChunkBytes)
    <3>1. n \in 1 .. N /\ n - 1 \in 0 .. N
      BY <1>1, <2>1
    <3>2. <<g[n - 1], n>> \in Rows \X (1 .. N)
      BY <1>4, <3>1
    <3> QED BY <1>4, <3>1, <3>2
  <2> QED BY <1>4, <2>1
<1>6. Recursion(chunks)
  <2> HIDE DEF Recursion
  <2> QED BY <1>5
<1>7. SplitChunks(text, ChunkBytes) = chunks[N]
  BY DEF SplitChunks
<1> HIDE DEF chunks, Step
<1>8. \A n \in 0 .. N : chunks[n] \in Rows
  <2> DEFINE Holds == {n \in 0 .. N : chunks[n] \in Rows}
  <2>1. 0 \in Holds
    BY <1>1, <1>3, <1>6
  <2>2. ASSUME NEW k \in 0 + 1 .. N, k - 1 \in Holds PROVE k \in Holds
    <3>1. k \in 0 .. N /\ k # 0 /\ text[k] \in Chars /\ chunks[k - 1] \in Rows
      BY <1>1, <2>2
    <3>2. chunks[k] = AddToChunks(chunks[k - 1], text[k], ChunkBytes)
      BY <1>6, <3>1
    <3>3. chunks[k] \in Rows
      BY <3>1, <3>2, AddedChunks
    <3> QED BY <3>1, <3>3
  <2>3. \A k \in 0 .. N : k \in Holds
    <3> HIDE DEF Holds
    <3>1. 0 \in Nat
      OBVIOUS
    <3> QED BY <1>1, <2>1, <2>2, <3>1, BoundedInduction
  <2> QED BY <2>3
<1>9. N \in 0 .. N
  BY <1>1
<1> QED BY <1>7, <1>8, <1>9

LEMMA RowsJoined ==
  ASSUME NEW rows \in Rows, NEW more \in Rows
  PROVE  /\ rows \o more \in Rows /\ Len(rows \o more) = Len(rows) + Len(more)
         /\ Len(rows) \in Nat /\ Len(more) \in Nat
         /\ \A i \in 1 .. Len(rows) : (rows \o more)[i] = rows[i]
<1> DEFINE all == rows \o more
<1>1. /\ rows \in Seq(Seq(Chars)) /\ more \in Seq(Seq(Chars))
      /\ \A i \in 1 .. Len(rows) : Bytes(rows[i]) \in 1 .. ChunkBytes
      /\ \A i \in 1 .. Len(more) : Bytes(more[i]) \in 1 .. ChunkBytes
  BY DEF Rows
<1>2. /\ all \in Seq(Seq(Chars)) /\ Len(all) = Len(rows) + Len(more)
      /\ Len(rows) \in Nat /\ Len(more) \in Nat
      /\ \A i \in 1 .. Len(all) :
           all[i] = IF i <= Len(rows) THEN rows[i] ELSE more[i - Len(rows)]
  BY <1>1
<1> HIDE DEF all
<1>3. ASSUME NEW i \in 1 .. Len(all) PROVE Bytes(all[i]) \in 1 .. ChunkBytes
  <2>1. CASE i <= Len(rows)
    <3>1. i \in 1 .. Len(rows)
      BY <1>2, <2>1
    <3> QED BY <1>1, <1>2, <2>1, <3>1
  <2>2. CASE ~ (i <= Len(rows))
    <3>1. i - Len(rows) \in 1 .. Len(more)
      BY <1>2, <2>2
    <3> QED BY <1>1, <1>2, <2>2, <3>1
  <2> QED BY <2>1, <2>2
<1>4. all \in Rows
  BY <1>2, <1>3 DEF Rows
<1>5. \A i \in 1 .. Len(rows) : i \in 1 .. Len(all) /\ i <= Len(rows)
  BY <1>2
<1> QED BY <1>2, <1>4, <1>5 DEF all

\* What was read of a stream stays what it was while rows are added.
LEMMA RowsStay ==
  ASSUME NEW rows \in Rows, NEW more \in Rows,
         NEW m \in 0 .. Len(rows), NEW n \in m .. Len(rows)
  PROVE  SubSeq(rows \o more, m + 1, n) = SubSeq(rows, m + 1, n)
<1>1. /\ rows \o more \in Seq(Seq(Chars)) /\ rows \in Seq(Seq(Chars))
      /\ Len(rows) \in Nat /\ Len(rows) <= Len(rows \o more) /\ Len(rows \o more) \in Nat
      /\ \A i \in 1 .. Len(rows) : (rows \o more)[i] = rows[i]
  BY RowsJoined DEF Rows
<1> DEFINE all == rows \o more
<1> HIDE DEF all
<1>2. /\ m \in 0 .. Len(all) /\ n \in m .. Len(all) /\ n - m \in Nat
      /\ \A i \in 1 .. n - m : m + i \in 1 .. Len(rows)
  BY <1>1 DEF all
<1>3. /\ SubSeq(all, m + 1, n) \in Seq(Seq(Chars)) /\ Len(SubSeq(all, m + 1, n)) = n - m
      /\ \A i \in 1 .. n - m : SubSeq(all, m + 1, n)[i] = all[m + i]
  BY <1>1, <1>2, SomeRows DEF all
<1>4. /\ SubSeq(rows, m + 1, n) \in Seq(Seq(Chars)) /\ Len(SubSeq(rows, m + 1, n)) = n - m
      /\ \A i \in 1 .. n - m : SubSeq(rows, m + 1, n)[i] = rows[m + i]
  BY <1>1, SomeRows
<1>5. \A i \in 1 .. n - m : all[m + i] = rows[m + i]
  BY <1>1, <1>2 DEF all
<1> DEFINE a == SubSeq(all, m + 1, n)
           b == SubSeq(rows, m + 1, n)
<1> HIDE DEF a, b
<1>6. a = b
  <2>1. \A i \in 1 .. n - m : a[i] = b[i]
    BY <1>3, <1>4, <1>5 DEF a, b
  <2>2. a \in Seq(Seq(Chars)) /\ b \in Seq(Seq(Chars)) /\ Len(a) = n - m /\ Len(b) = n - m
    BY <1>3, <1>4 DEF a, b
  <2> QED BY <2>1, <2>2, SameSequence
<1> QED BY <1>6 DEF a, b, all
-----------------------------------------------------------------------------
(* What a page and a snapshot read.                                        *)

\* The row a page ends with; it may be the one it starts behind.
LEMMA LastFittingFacts ==
  ASSUME stream \in Rows, NEW after \in 0 .. Len(stream), NEW limit \in PageLimits
  PROVE  LastFitting(after, limit) \in after .. Len(stream)
<1> DEFINE S == {n \in after .. Min({Len(stream), after + PageEvents}) :
                   FitsPage(Bytes(TextOf(SubSeq(stream, after + 1, n))), limit)}
<1>1. /\ Len(stream) \in Nat /\ PageEvents \in Nat /\ limit \in Nat /\ after \in Nat
      /\ after <= Len(stream)
  BY LimitAssumption DEF Rows
<1>2. /\ Min({Len(stream), after + PageEvents}) \in after .. Len(stream)
      /\ after \in after .. Min({Len(stream), after + PageEvents})
  BY <1>1, MinOfTwo
<1>3. after \in S
  <2>1. SubSeq(stream, after + 1, after) = <<>>
    BY <1>1 DEF Rows
  <2>2. Bytes(TextOf(SubSeq(stream, after + 1, after))) = 0
    BY <2>1, JoinNothing, NoBytes
  <2>3. FitsPage(Bytes(TextOf(SubSeq(stream, after + 1, after))), limit)
    BY <1>1, <2>2 DEF FitsPage
  <2> QED BY <1>2, <2>3
<1>4. S \subseteq after .. Len(stream)
  BY <1>1, <1>2
<1>5. Max(S) \in S
  <2>1. after \in Int /\ Len(stream) \in Int /\ S # {}
    BY <1>1, <1>3
  <2> HIDE DEF S
  <2> QED BY <1>4, <2>1, MaxFacts
<1>6. LastFitting(after, limit) = Max(S)
  BY DEF LastFitting
<1> QED BY <1>4, <1>5, <1>6

\* A snapshot has the first rows of the stream, all up to the high water unless it
\* says that it is partial.
LEMMA SnapshotFacts ==
  ASSUME stream \in Rows, NEW h \in 0 .. Len(stream)
  PROVE  /\ Snapshot(h).high_water = h /\ Snapshot(h).scanned \in 0 .. h
         /\ Snapshot(h).text = TextOf(SubSeq(stream, 1, Snapshot(h).scanned))
         /\ ~ Snapshot(h).partial => Snapshot(h).scanned = h
<1> DEFINE rows == RowsUpTo(h)
           S == {n \in 0 .. Min({Len(rows), ScanEvents}) :
                   n <= 1 \/ Bytes(TextOf(SubSeq(rows, 1, n))) <= ScanBytes}
           scanned == Max(S)
<1>1. /\ Len(stream) \in Nat /\ ScanEvents \in Nat /\ h \in Nat /\ h <= Len(stream)
      /\ stream \in Seq(Seq(Chars))
  BY LimitAssumption DEF Rows
<1>2. PICK m \in 0 .. h : rows = SubSeq(stream, 1, m) /\ m \in 0 .. Len(stream)
  <2>1. Min({h, ScanEvents + 1}) \in 0 .. h
    BY <1>1, MinOfTwo
  <2>2. \A m \in 0 .. h : m \in 0 .. Len(stream)
    BY <1>1
  <2> QED BY <2>1, <2>2 DEF RowsUpTo
<1>3. rows \in Seq(Seq(Chars)) /\ Len(rows) = m /\ m \in Nat
      /\ \A i \in 1 .. m : rows[i] = stream[i]
  BY <1>1, <1>2, FirstRows
<1> HIDE DEF rows
<1>4. scanned \in 0 .. m
  <2>1. Min({m, ScanEvents}) \in 0 .. m
    <3>1. m \in Int /\ ScanEvents \in Int /\ 0 <= m /\ 0 <= ScanEvents
      BY <1>1
    <3>2. Min({m, ScanEvents}) = IF m <= ScanEvents THEN m ELSE ScanEvents
      BY <3>1, MinOfTwo
    <3> QED BY <3>1, <3>2
  <2>2. S \subseteq 0 .. m /\ 0 \in S
    BY <1>3, <2>1
  <2>3. 0 \in Int /\ m \in Int /\ S # {}
    BY <1>3, <2>2
  <2> HIDE DEF S
  <2>4. Max(S) \in S
    BY <2>2, <2>3, MaxFacts
  <2> QED BY <2>2, <2>4
<1>5. Snapshot(h) = [high_water |-> h, scanned |-> scanned,
                     text |-> TextOf(SubSeq(rows, 1, scanned)),
                     partial |-> scanned < Len(rows) \/ h > scanned]
  BY DEF Snapshot, rows
<1> HIDE DEF scanned
<1>6. SubSeq(rows, 1, scanned) = SubSeq(stream, 1, scanned)
  <2> DEFINE a == SubSeq(rows, 1, scanned)
             b == SubSeq(stream, 1, scanned)
  <2>1. /\ a \in Seq(Seq(Chars)) /\ Len(a) = scanned
        /\ \A i \in 1 .. scanned : a[i] = rows[i]
    BY <1>3, <1>4, FirstRows
  <2>2. /\ b \in Seq(Seq(Chars)) /\ Len(b) = scanned
        /\ \A i \in 1 .. scanned : b[i] = stream[i]
    <3>1. scanned \in 0 .. Len(stream)
      BY <1>1, <1>2, <1>4
    <3> QED BY <1>1, <3>1, FirstRows
  <2>3. \A i \in 1 .. scanned : i \in 1 .. m
    BY <1>4, <1>3
  <2> HIDE DEF a, b
  <2> QED BY <1>3, <1>4, <2>1, <2>2, <2>3 DEF a, b
<1>7. scanned \in 0 .. h /\ (~ (h > scanned) => scanned = h)
  BY <1>1, <1>2, <1>3, <1>4
<1>8. /\ Snapshot(h).high_water = h /\ Snapshot(h).scanned = scanned
      /\ Snapshot(h).text = TextOf(SubSeq(rows, 1, scanned))
  BY <1>5
<1>9. Snapshot(h).partial = (scanned < Len(rows) \/ h > scanned)
  BY <1>5
<1> QED BY <1>6, <1>7, <1>8, <1>9

-----------------------------------------------------------------------------
(* Types and pages.                                                        *)

\* The page under way continues what the caller has.
PageInv ==
  /\ stream \in Rows /\ cursor \in 0 .. Len(stream) /\ PagesCoverOnce
  /\ \/ page = Nothing
     \/ /\ page.next \in cursor .. Len(stream) /\ page.ended \in BOOLEAN
        /\ page.text = TextOf(SubSeq(stream, cursor + 1, page.next))

FlagsOK == ended \in BOOLEAN /\ reading \in BOOLEAN

\* Queries refer to rows that exist.
QueryInv ==
  /\ request = Nothing \/ request.high_water \in 0 .. Len(stream)
  /\ answer = Nothing \/ answer.scanned \in 0 .. Len(stream)

LEMMA StreamGrows ==
  ASSUME PageInv, FlagsOK, QueryInv, NEW text \in Outputs, Ingest(text)
  PROVE  PageInv' /\ FlagsOK' /\ QueryInv'
<1> DEFINE more == SplitChunks(text, ChunkBytes)
<1>1. more \in Rows
  BY LimitAssumption, SplitIsRows
<1>2. /\ stream' = stream \o more
      /\ UNCHANGED <<ended, cursor, pages, page, reading, request, answer, found>>
  BY DEF Ingest, pager, queries
<1> HIDE DEF more
<1>3. /\ stream' \in Rows /\ Len(stream) \in Nat /\ Len(stream') \in Nat
      /\ Len(stream) <= Len(stream')
  <2>1. /\ stream \o more \in Rows /\ Len(stream \o more) = Len(stream) + Len(more)
        /\ Len(stream) \in Nat /\ Len(more) \in Nat
    BY <1>1, RowsJoined DEF PageInv
  <2> QED BY <1>2, <2>1
<1>4. SubSeq(stream', 1, cursor) = SubSeq(stream, 1, cursor)
  <2>1. 0 \in 0 .. Len(stream) /\ cursor \in 0 .. Len(stream) /\ 0 + 1 = 1
    BY <1>3 DEF PageInv
  <2>2. SubSeq(stream \o more, 0 + 1, cursor) = SubSeq(stream, 0 + 1, cursor)
    BY <1>1, <2>1, RowsStay DEF PageInv
  <2> QED BY <1>2, <2>1, <2>2
<1>5. page = Nothing
      \/ SubSeq(stream', cursor + 1, page.next) = SubSeq(stream, cursor + 1, page.next)
  BY <1>1, <1>2, RowsStay DEF PageInv
<1>6. FlagsOK' /\ QueryInv'
  BY <1>2, <1>3 DEF FlagsOK, QueryInv
<1>7. cursor' \in 0 .. Len(stream')
  BY <1>2, <1>3 DEF PageInv
<1>8. PagesCoverOnce'
  BY <1>2, <1>4 DEF PageInv, PagesCoverOnce
<1>9. \/ page' = Nothing
      \/ /\ page'.next \in cursor' .. Len(stream') /\ page'.ended \in BOOLEAN
         /\ page'.text = TextOf(SubSeq(stream', cursor' + 1, page'.next))
  <2>1. page = Nothing \/ page.next \in cursor .. Len(stream')
    BY <1>3 DEF PageInv
  <2> QED BY <1>2, <1>5, <2>1 DEF PageInv
<1> QED BY <1>3, <1>6, <1>7, <1>8, <1>9 DEF PageInv

LEMMA PageStarts ==
  ASSUME PageInv, FlagsOK, NEW limit \in PageLimits, ReadPage(limit)
  PROVE  PageInv' /\ FlagsOK'
<1>1. page' = PageAfter(cursor, limit) /\ UNCHANGED <<stream, ended, cursor, pages, reading>>
  BY DEF ReadPage
<1>2. LastFitting(cursor, limit) \in cursor .. Len(stream)
  BY LastFittingFacts DEF PageInv
<1>3. /\ page'.next \in cursor .. Len(stream) /\ page'.ended \in BOOLEAN
      /\ page'.text = TextOf(SubSeq(stream, cursor + 1, page'.next))
  BY <1>1, <1>2 DEF PageAfter, CursorAt, FlagsOK
<1> QED BY <1>1, <1>3 DEF PageInv, FlagsOK, PagesCoverOnce

LEMMA PageEnds ==
  ASSUME PageInv, FlagsOK, FinishPage
  PROVE  PageInv' /\ FlagsOK'
<1>1. /\ pages' = pages \o page.text /\ cursor' = page.next /\ page' = Nothing
      /\ reading' = (HasMore(page.next) \/ ~page.ended) /\ UNCHANGED <<stream, ended>>
  BY DEF FinishPage
<1>2. /\ page.next \in cursor .. Len(stream) /\ page.ended \in BOOLEAN
      /\ page.text = TextOf(SubSeq(stream, cursor + 1, page.next))
  BY DEF FinishPage, PageInv
<1>3. reading' \in BOOLEAN
  BY <1>1, <1>2 DEF HasMore
<1>4. stream \in Seq(Seq(Chars)) /\ cursor \in 0 .. Len(stream)
      /\ page.next \in 0 .. Len(stream) /\ page.next \in cursor .. Len(stream)
  BY <1>2 DEF PageInv, Rows
<1>5. pages' = TextOf(SubSeq(stream, 1, page.next))
  <2>1. TextOf(SubSeq(stream, 1, cursor)) \o TextOf(SubSeq(stream, cursor + 1, page.next))
          = TextOf(SubSeq(stream, 1, page.next))
    BY <1>4, JoinParts
  <2> QED BY <1>1, <1>2, <2>1 DEF PageInv, PagesCoverOnce
<1> QED BY <1>1, <1>3, <1>4, <1>5 DEF PageInv, FlagsOK, PagesCoverOnce

LEMMA AskFacts ==
  ASSUME PageInv, NEW r, "high_water" \notin DOMAIN r, Ask(r)
  PROVE  QueryInv' /\ UNCHANGED <<stream, ended, pager>>
<1>1. /\ request' = With(r, [high_water |-> Len(stream)]) /\ answer' = Nothing
      /\ UNCHANGED <<stream, ended, pager>>
  BY DEF Ask
<1>2. request'["high_water"] = Len(stream)
  BY <1>1 DEF With
<1>3. Len(stream) \in Nat
  BY DEF PageInv, Rows
<1> QED BY <1>1, <1>2, <1>3 DEF QueryInv

LEMMA AnswerFacts ==
  ASSUME PageInv, QueryInv, NEW result, Answering(Snapshot(request.high_water), result),
         request # Nothing, Answered
  PROVE  QueryInv' /\ UNCHANGED <<stream, ended, pager>>
<1> DEFINE h == request.high_water
           snapshot == Snapshot(h)
           head == [request |-> request, high_water |-> snapshot.high_water,
                    scanned |-> snapshot.scanned, partial |-> snapshot.partial]
<1>1. h \in 0 .. Len(stream) /\ Len(stream) \in Nat
  BY DEF QueryInv, PageInv, Rows
<1>2. snapshot.scanned \in 0 .. h
  BY <1>1, SnapshotFacts DEF PageInv
<1>3. answer' = With(head, result)
  BY DEF Answering
<1>4. "scanned" \in DOMAIN head /\ head["scanned"] = snapshot.scanned
  OBVIOUS
<1> HIDE DEF head
<1>5. answer'["scanned"] = snapshot.scanned
  BY <1>3, <1>4 DEF With
<1>6. request' = Nothing /\ UNCHANGED <<stream, ended, pager>>
  BY DEF Answered
<1>7. answer'.scanned \in 0 .. Len(stream)
  BY <1>1, <1>2, <1>5
<1> QED BY <1>6, <1>7 DEF QueryInv

LEMMA QuerySteps ==
  ASSUME PageInv, QueryInv, Querying
  PROVE  QueryInv' /\ UNCHANGED <<stream, ended, pager>>
<1>1. CASE \/ \E q \in Queries : AskSearch(q)
           \/ \E lines \in Tails : AskTail(lines)
           \/ \E r \in Ranges : AskRange(r)
           \/ AskForMore
  <2>1. PICK r : Ask(r) /\ "high_water" \notin DOMAIN r
    <3>1. CASE \E q \in Queries : AskSearch(q)
      BY <3>1 DEF AskSearch
    <3>2. CASE \E lines \in Tails : AskTail(lines)
      BY <3>2 DEF AskTail
    <3>3. CASE \E r \in Ranges : AskRange(r)
      BY <3>3 DEF AskRange
    <3>4. CASE AskForMore
      BY <3>4 DEF AskForMore
    <3> QED BY <1>1, <3>1, <3>2, <3>3, <3>4
  <2> QED BY <2>1, AskFacts
<1>2. CASE AnswerSearch \/ AnswerTail \/ AnswerRange
  <2>1. PICK result : Answering(Snapshot(request.high_water), result)
    BY <1>2 DEF AnswerSearch, AnswerTail, AnswerRange
  <2>2. request # Nothing /\ Answered
    <3>1. request.kind \in {"search", "tail", "range"} /\ Answered
      BY <1>2 DEF AnswerSearch, AnswerTail, AnswerRange
    <3> QED BY <3>1 DEF Nothing
  <2> QED BY <2>1, <2>2, AnswerFacts
<1> QED BY <1>1, <1>2 DEF Querying

LEMMA PagesStep ==
  ASSUME PageInv, FlagsOK, QueryInv, [Next]_vars
  PROVE  PageInv' /\ FlagsOK' /\ QueryInv'
<1>1. CASE \E text \in Outputs : Ingest(text)
  BY <1>1, StreamGrows
<1>2. CASE EndExecution
  BY <1>2 DEF EndExecution, pager, queries, PageInv, FlagsOK, QueryInv, PagesCoverOnce
<1>3. CASE Paging
  <2>1. PageInv' /\ FlagsOK'
    BY <1>3, PageStarts, PageEnds DEF Paging
  <2>2. UNCHANGED <<stream, request, answer>>
    BY <1>3 DEF Paging, ReadPage, FinishPage, queries
  <2> QED BY <2>1, <2>2 DEF QueryInv
<1>4. CASE Querying
  <2>1. QueryInv' /\ UNCHANGED <<stream, ended, pager>>
    BY <1>4, QuerySteps
  <2> QED BY <2>1 DEF pager, PageInv, FlagsOK, PagesCoverOnce
<1>5. CASE UNCHANGED vars
  BY <1>5 DEF vars, pager, queries, PageInv, FlagsOK, QueryInv, PagesCoverOnce
<1> QED BY <1>1, <1>2, <1>3, <1>4, <1>5 DEF Next, Ingestion

LEMMA PagesHold == Spec => [](PageInv /\ FlagsOK /\ QueryInv)
<1>1. Init => PageInv /\ FlagsOK /\ QueryInv
  <2> SUFFICES ASSUME Init PROVE PageInv /\ FlagsOK /\ QueryInv
    OBVIOUS
  <2>1. stream \in Rows /\ Len(stream) = 0 /\ cursor = 0 /\ SubSeq(stream, 1, cursor) = <<>>
    BY DEF Init, Rows
  <2>2. PagesCoverOnce
    BY <2>1, JoinNothing DEF Init, PagesCoverOnce
  <2>3. PageInv
    BY <2>1, <2>2 DEF Init, PageInv
  <2>4. FlagsOK /\ QueryInv
    BY DEF Init, FlagsOK, QueryInv
  <2> QED BY <2>3, <2>4
<1>2. PageInv /\ FlagsOK /\ QueryInv /\ [Next]_vars => (PageInv /\ FlagsOK /\ QueryInv)'
  BY PagesStep
<1> QED BY <1>1, <1>2, PTL DEF Spec

\* Every row has the size that the table asks for, however the text is split, and
\* cursors and snapshots refer to rows of the stream.
THEOREM TypeCorrect == Spec => []TypeOK
<1>1. PageInv /\ FlagsOK /\ QueryInv => TypeOK
  <2> SUFFICES ASSUME PageInv, FlagsOK, QueryInv PROVE TypeOK
    OBVIOUS
  <2>1. stream \in Rows /\ stream \in Seq(Seq(Chars)) /\ DOMAIN stream = 1 .. Len(stream)
    BY DEF PageInv, Rows
  <2>2. \A n \in DOMAIN stream : stream[n] \in Seq(Chars) /\ Bytes(stream[n]) \in 1 .. ChunkBytes
    BY <2>1 DEF Rows
  <2>3. pages \in Seq(Chars)
    <3>1. SubSeq(stream, 1, cursor) \in Seq(Seq(Chars))
      BY <2>1, FirstRows DEF PageInv
    <3> QED BY <3>1, JoinIsText DEF PageInv, PagesCoverOnce
  <2> QED BY <2>2, <2>3 DEF TypeOK, PageInv, FlagsOK, QueryInv
<1> QED BY <1>1, PagesHold, PTL

\* The pages of get_execution_output join to the output up to the cursor: nothing
\* is left out or given twice, whatever is committed while a page is read.
THEOREM PagesJoin == Spec => []PagesCoverOnce
<1>1. PageInv => PagesCoverOnce
  BY DEF PageInv
<1> QED BY <1>1, PagesHold, PTL

-----------------------------------------------------------------------------
(* Lines.                                                                  *)

\* How many elements of a set of numbers are not greater than i.
UpTo(E, i) == Cardinality({j \in E : j <= i})

LEMMA UpToFacts ==
  ASSUME NEW n \in Nat, NEW E, E \subseteq 1 .. n
  PROVE  /\ UpTo(E, 0) = 0 /\ UpTo(E, n) = Cardinality(E) /\ Cardinality(E) \in Nat
         /\ \A i \in 0 .. n : UpTo(E, i) \in Nat
         /\ \A i \in 1 .. n : UpTo(E, i) = UpTo(E, i - 1) + (IF i \in E THEN 1 ELSE 0)
<1>1. IsFiniteSet(1 .. n)
  BY FS_Interval
<1>2. \A T : T \subseteq 1 .. n => IsFiniteSet(T) /\ Cardinality(T) \in Nat
  BY <1>1, FS_Subset, FS_CardinalityType
<1> \A j \in E : j \in 1 .. n
  OBVIOUS
<1>3. UpTo(E, 0) = 0
  <2>1. {j \in E : j <= 0} = {}
    <3>1. \A j \in E : ~ (j <= 0)
      OBVIOUS
    <3> QED BY <3>1
  <2> QED BY <2>1, FS_EmptySet DEF UpTo
<1>4. UpTo(E, n) = Cardinality(E)
  <2>1. {j \in E : j <= n} = E
    <3>1. \A j \in E : j <= n
      OBVIOUS
    <3> QED BY <3>1
  <2> QED BY <2>1 DEF UpTo
<1>5. ASSUME NEW i PROVE UpTo(E, i) \in Nat
  <2>1. {j \in E : j <= i} \subseteq 1 .. n
    OBVIOUS
  <2> QED BY <1>2, <2>1 DEF UpTo
<1>6. ASSUME NEW i \in 1 .. n PROVE UpTo(E, i) = UpTo(E, i - 1) + (IF i \in E THEN 1 ELSE 0)
  <2> DEFINE before == {j \in E : j <= i - 1}
             upTo == {j \in E : j <= i}
  <2>1. \A j \in E : j \in Int /\ (j <= i <=> j <= i - 1 \/ j = i)
    OBVIOUS
  <2>2. IsFiniteSet(before) /\ Cardinality(before) \in Nat /\ i \notin before
    <3>1. before \subseteq 1 .. n /\ i \notin before
      <4>1. ~ (i <= i - 1)
        OBVIOUS
      <4> QED BY <4>1
    <3> HIDE DEF before
    <3> QED BY <1>2, <3>1
  <2>3. CASE i \in E
    <3>1. upTo = before \cup {i}
      BY <2>1, <2>3
    <3> HIDE DEF before, upTo
    <3>2. Cardinality(upTo) = Cardinality(before) + 1
      BY <2>2, <3>1, FS_AddElement
    <3> QED BY <2>3, <3>2 DEF UpTo, before, upTo
  <2>4. CASE i \notin E
    <3>1. upTo = before
      BY <2>1, <2>4
    <3> HIDE DEF before, upTo
    <3>2. Cardinality(upTo) = Cardinality(before) + 0
      BY <2>2, <3>1
    <3> QED BY <2>4, <3>2 DEF UpTo, before, upTo
  <2> QED BY <2>3, <2>4
<1> QED BY <1>2, <1>3, <1>4, <1>5, <1>6

\* Every count up to the number of elements is reached at 0 or at an element.
LEMMA UpToReaches ==
  ASSUME NEW n \in Nat, NEW E, E \subseteq 1 .. n, NEW k \in 0 .. Cardinality(E)
  PROVE  \E i \in E \cup {0} : UpTo(E, i) = k
<1> DEFINE T == {i \in 0 .. n : UpTo(E, i) >= k}
<1>1. n \in T /\ k \in Nat
  <2>1. UpTo(E, n) = Cardinality(E) /\ Cardinality(E) \in Nat
    BY UpToFacts
  <2> QED BY <2>1
<1>2. PICK i \in T : \A j \in T : i <= j
  <2>1. T \subseteq Nat /\ T # {}
    BY <1>1
  <2> HIDE DEF T
  <2> QED BY <2>1, LeastElement
<1>3. i \in 0 .. n /\ UpTo(E, i) >= k
  OBVIOUS
<1>4. CASE i = 0
  <2>1. UpTo(E, i) = 0
    BY <1>4, UpToFacts
  <2>2. UpTo(E, i) = k
    BY <1>1, <1>3, <2>1
  <2> QED BY <1>4, <2>2
<1>5. CASE i # 0
  <2>1. i \in 1 .. n /\ i - 1 \in 0 .. n /\ ~ (i <= i - 1)
    BY <1>3, <1>5
  <2>2. ~ (UpTo(E, i - 1) >= k)
    BY <1>2, <2>1
  <2>3. /\ UpTo(E, i) = UpTo(E, i - 1) + (IF i \in E THEN 1 ELSE 0)
        /\ UpTo(E, i) \in Nat /\ UpTo(E, i - 1) \in Nat
    <3>1. /\ \A j \in 0 .. n : UpTo(E, j) \in Nat
          /\ \A j \in 1 .. n : UpTo(E, j) = UpTo(E, j - 1) + (IF j \in E THEN 1 ELSE 0)
      BY UpToFacts
    <3> QED BY <1>3, <2>1, <3>1
  <2>4. i \in E /\ UpTo(E, i) = k
    BY <1>1, <1>3, <2>2, <2>3
  <2> QED BY <2>4
<1> QED BY <1>4, <1>5

LEMMA LineEndFacts ==
  ASSUME NEW text \in Seq(Chars)
  PROVE  /\ LineEnds(text) \subseteq 1 .. Len(text) /\ Len(text) \in Nat
         /\ Len(text) # 0 => Len(text) \in LineEnds(text)
  BY DEF LineEnds

\* A line starts where as many lines end before it.
LEMMA StartOfLineFacts ==
  ASSUME NEW text \in Seq(Chars), NEW k \in 0 .. LineCount(text)
  PROVE  /\ StartOfLine(text, k) \in 0 .. Len(text)
         /\ UpTo(LineEnds(text), StartOfLine(text, k)) = k
<1> DEFINE E == LineEnds(text)
<1>1. E \subseteq 1 .. Len(text) /\ Len(text) \in Nat /\ k \in 0 .. Cardinality(E)
  BY LineEndFacts DEF LineCount
<1>2. StartOfLine(text, k) = CHOOSE i \in E \cup {0} : UpTo(E, i) = k
  BY DEF StartOfLine, UpTo
<1> HIDE DEF E
<1>3. \E i \in E \cup {0} : UpTo(E, i) = k
  BY <1>1, UpToReaches
<1>4. StartOfLine(text, k) \in E \cup {0} /\ UpTo(E, StartOfLine(text, k)) = k
  BY <1>2, <1>3
<1> QED BY <1>1, <1>4 DEF E

\* Behind the last line there is nothing.
LEMMA BehindLastLine ==
  ASSUME NEW text \in Seq(Chars)
  PROVE  StartOfLine(text, LineCount(text)) = Len(text)
<1> DEFINE E == LineEnds(text)
           s == StartOfLine(text, LineCount(text))
           n == Len(text)
<1>1. E \subseteq 1 .. n /\ n \in Nat /\ (n # 0 => n \in E)
  BY LineEndFacts
<1>2. LineCount(text) = Cardinality(E) /\ Cardinality(E) \in Nat
  BY <1>1, UpToFacts DEF LineCount
<1>3. s \in 0 .. n /\ UpTo(E, s) = Cardinality(E)
  <2>1. LineCount(text) \in 0 .. LineCount(text)
    BY <1>2
  <2> QED BY <1>2, <2>1, StartOfLineFacts
<1>4. ASSUME s # n PROVE FALSE
  <2> DEFINE T == {j \in E : j <= s}
  <2>1. n \in E /\ n \notin T /\ T \subseteq E
    BY <1>1, <1>3, <1>4
  <2>2. IsFiniteSet(E)
    <3>1. IsFiniteSet(1 .. n)
      BY <1>1, FS_Interval
    <3> HIDE DEF E
    <3> QED BY <1>1, <3>1, FS_Subset
  <2>3. Cardinality(T) = Cardinality(E)
    BY <1>3 DEF UpTo
  <2> HIDE DEF T, E
  <2> QED BY <2>1, <2>2, <2>3, FS_Subset
<1> QED BY <1>4

\* The text behind m characters.
LEMMA RestOfText ==
  ASSUME NEW text \in Seq(Chars), NEW m \in 0 .. Len(text)
  PROVE  /\ SubSeq(text, m + 1, Len(text)) \in Seq(Chars)
         /\ Len(SubSeq(text, m + 1, Len(text))) = Len(text) - m
         /\ \A i \in 1 .. Len(text) - m : SubSeq(text, m + 1, Len(text))[i] = text[m + i]
<1> DEFINE n == Len(text)
<1>1. m \in Nat /\ n \in Nat /\ m <= n
  OBVIOUS
<1>2. Len(SubSeq(text, m + 1, n)) = n - m
  BY <1>1
<1>3. SubSeq(text, m + 1, n) \in Seq(Chars)
  BY <1>1
<1>4. ASSUME NEW i \in 1 .. n - m PROVE SubSeq(text, m + 1, n)[i] = text[m + i]
  <2>1. i \in 1 .. n - (m + 1) + 1 /\ m + 1 + i - 1 = m + i
    BY <1>1
  <2>2. SubSeq(text, m + 1, n)[i] = text[m + 1 + i - 1]
    BY <1>1, <2>1
  <2> QED BY <2>1, <2>2
<1> QED BY <1>2, <1>3, <1>4

\* Behind the first k lines there are the others.
LEMMA RestOfLines ==
  ASSUME NEW text \in Seq(Chars), NEW k \in 0 .. LineCount(text),
         NEW b, b = StartOfLine(text, k)
  PROVE  LineCount(SubSeq(text, b + 1, Len(text))) = LineCount(text) - k
<1> DEFINE rest == SubSeq(text, b + 1, Len(text))
           n == Len(text)
           m == n - b
           E == LineEnds(text)
           F == LineEnds(rest)
<1>1. /\ b \in 0 .. n /\ n \in Nat /\ m \in Nat /\ UpTo(E, b) = k
      /\ rest \in Seq(Chars) /\ Len(rest) = m
      /\ \A i \in 1 .. m : rest[i] = text[b + i]
  <2>1. b \in 0 .. n /\ UpTo(E, b) = k /\ n \in Nat
    BY StartOfLineFacts
  <2>2. m \in Nat
    BY <2>1
  <2> HIDE DEF E, m
  <2> QED BY <2>1, <2>2, RestOfText DEF m
<1> HIDE DEF rest
<1>2. ASSUME NEW i \in 1 .. m PROVE i \in F <=> b + i \in E
  <2>1. b + i \in 1 .. n /\ (b + i = n <=> i = m)
    BY <1>1
  <2>2. i \in F <=> rest[i] \in Breaks \/ i = m
    BY <1>1 DEF LineEnds
  <2>3. b + i \in E <=> text[b + i] \in Breaks \/ b + i = n
    BY <1>1, <2>1 DEF LineEnds
  <2> QED BY <1>1, <2>1, <2>2, <2>3
<1>3. E \subseteq 1 .. n /\ F \subseteq 1 .. m
  BY <1>1, LineEndFacts
<1> HIDE DEF E, F
<1>4. /\ UpTo(F, 0) = 0 /\ UpTo(F, m) = Cardinality(F)
      /\ \A i \in 0 .. m : UpTo(F, i) \in Nat
      /\ \A i \in 1 .. m : UpTo(F, i) = UpTo(F, i - 1) + (IF i \in F THEN 1 ELSE 0)
  <2>1. m \in Nat /\ F \subseteq 1 .. m
    BY <1>1, <1>3
  <2> QED BY <2>1, UpToFacts, Zenon
<1>5. /\ UpTo(E, n) = Cardinality(E)
      /\ \A i \in 0 .. n : UpTo(E, i) \in Nat
      /\ \A i \in 1 .. n : UpTo(E, i) = UpTo(E, i - 1) + (IF i \in E THEN 1 ELSE 0)
  <2>1. n \in Nat /\ E \subseteq 1 .. n
    BY <1>1, <1>3
  <2> QED BY <2>1, UpToFacts, Zenon
<1> DEFINE Holds == {i \in 0 .. m : UpTo(F, i) = UpTo(E, b + i) - k}
<1>6. 0 \in Holds
  <2>1. b + 0 = b /\ k \in Nat
    BY <1>1, <1>5
  <2> QED BY <1>1, <1>4, <2>1
<1>7. ASSUME NEW i \in 0 + 1 .. m, i - 1 \in Holds PROVE i \in Holds
  <2>1. /\ i \in 1 .. m /\ i \in 0 .. m /\ b + i \in 1 .. n /\ (b + i) - 1 = b + (i - 1)
        /\ b + i \in 0 .. n /\ b + (i - 1) \in 0 .. n /\ i - 1 \in 0 .. m
    BY <1>1
  <2>2. UpTo(F, i) = UpTo(F, i - 1) + (IF i \in F THEN 1 ELSE 0)
    BY <1>4, <2>1
  <2>3. UpTo(E, b + i) = UpTo(E, b + (i - 1)) + (IF b + i \in E THEN 1 ELSE 0)
    BY <1>5, <2>1
  <2>4. UpTo(F, i - 1) = UpTo(E, b + (i - 1)) - k
    BY <1>7
  <2>5. UpTo(F, i - 1) \in Nat /\ UpTo(E, b + (i - 1)) \in Nat /\ k \in Nat
    BY <1>1, <1>4, <1>5, <2>1
  <2>6. UpTo(F, i) = UpTo(E, b + i) - k
    BY <1>2, <2>1, <2>2, <2>3, <2>4, <2>5
  <2> QED BY <2>1, <2>6
<1>8. m \in Holds
  <2>1. \A i \in 0 .. m : i \in Holds
    <3>1. 0 \in Nat
      OBVIOUS
    <3> HIDE DEF Holds, m
    <3> QED BY <1>1, <1>6, <1>7, <3>1, BoundedInduction
  <2>2. m \in 0 .. m
    BY <1>1
  <2> HIDE DEF Holds, m
  <2> QED BY <2>1, <2>2
<1>9. b + m = n
  BY <1>1
<1>10. Cardinality(F) = Cardinality(E) - k
  BY <1>4, <1>5, <1>8, <1>9
<1> QED BY <1>10 DEF LineCount, E, F, rest

-----------------------------------------------------------------------------
(* Answers.                                                                *)

\* How the tail of a text is cut: the last lines start behind b characters and first
\* lines, and the next removed characters do not fit the response.
TailParts(text, tail, first, b, removed) ==
  LET rest == SubSeq(text, b + 1, Len(text)) IN
    /\ UpTo(LineEnds(text), b) = first /\ LineCount(rest) = LineCount(text) - first
    /\ tail.text = Slice(rest, removed, Len(rest))
    /\ tail.start = BytesBefore(text, b) + BytesBefore(rest, removed)
    /\ tail.end = Bytes(text) /\ tail.shortened = (removed > 0)
    /\ tail.lines.start_line = first + 1 /\ tail.lines.end_line = Max({1, LineCount(text)})

LEMMA TailFacts ==
  ASSUME NEW text \in Seq(Chars), NEW lines \in Nat \ {0}, NEW tail,
         tail = LastLines(lines, text)
  PROVE  \E first \in 0 .. LineCount(text), b \in 0 .. Len(text) :
         \E removed \in 0 .. Len(text) - b :
           /\ LineCount(text) - first = Min({lines, LineCount(text)})
           /\ TailParts(text, tail, first, b, removed)
<1> DEFINE N == LineCount(text)
           n == Len(text)
           first == Max({0, N - lines})
           b == StartOfLine(text, first)
           selected == LinesOf(text, first, N)
           removed == SuffixFrom(selected, ResponseBytes)
           rest == SubSeq(text, b + 1, n)
<1>1. n \in Nat /\ N \in Nat /\ lines \in Nat
  <2>1. LineEnds(text) \subseteq 1 .. n /\ n \in Nat
    BY LineEndFacts
  <2> QED BY <2>1, UpToFacts DEF LineCount
<1> HIDE DEF N
<1>2. first \in 0 .. N /\ N - first = Min({lines, N})
  <2>1. first = IF 0 >= N - lines THEN 0 ELSE N - lines
    BY <1>1, MaxOfTwo
  <2>2. Min({lines, N}) = IF lines <= N THEN lines ELSE N
    BY <1>1, MinOfTwo
  <2> HIDE DEF first
  <2> QED BY <1>1, <2>1, <2>2
<1> HIDE DEF first
<1>3. b \in 0 .. n /\ UpTo(LineEnds(text), b) = first
  BY <1>2, StartOfLineFacts DEF N
<1> HIDE DEF b
<1>4. selected = rest
  <2>1. StartOfLine(text, N) = n
    BY BehindLastLine DEF N
  <2>2. Min({n, n}) = n
    BY <1>1, MinOfTwo
  <2> QED BY <2>1, <2>2 DEF LinesOf, Slice, b
<1>5. rest \in Seq(Chars) /\ Len(rest) = n - b /\ n - b \in Nat
  <2>1. rest \in Seq(Chars) /\ Len(rest) = n - b
    BY <1>3, RestOfText
  <2> HIDE DEF rest
  <2> QED BY <1>1, <1>3, <2>1
<1>6. LineCount(rest) = N - first
  BY <1>2, RestOfLines DEF N, b
<1> HIDE DEF selected, rest
<1>7. removed \in 0 .. n - b
  <2> DEFINE S == {i \in 0 .. Len(rest) : Bytes(rest) - BytesBefore(rest, i) <= ResponseBytes}
  <2>1. Len(rest) \in S
    <3>1. Bytes(rest) = BytesBefore(rest, Len(rest))
      BY DEF Bytes
    <3>2. Len(rest) \in 0 .. Len(rest) /\ BytesBefore(rest, Len(rest)) \in Nat
      BY <1>5, BytesDef
    <3>3. ResponseBytes \in Nat
      BY LimitAssumption
    <3> QED BY <3>1, <3>2, <3>3
  <2>2. S \subseteq 0 .. Len(rest) /\ S # {} /\ 0 \in Int /\ Len(rest) \in Int
    BY <1>5, <2>1
  <2>3. removed = Min(S)
    BY <1>4 DEF SuffixFrom
  <2> HIDE DEF S
  <2>4. Min(S) \in S
    BY <2>2, MinFacts
  <2> QED BY <1>5, <2>2, <2>3, <2>4
<1> HIDE DEF removed
<1>8. tail = [text |-> Slice(rest, removed, Len(rest)), shortened |-> removed > 0,
              start |-> StartByte(BytesBefore(text, b), BytesBefore(rest, removed)),
              end |-> Bytes(text),
              lines |-> [start_line |-> first + 1, end_line |-> Max({1, N})]]
  BY <1>4 DEF LastLines, selected, removed, first, b, N
<1>9. /\ tail.text = Slice(rest, removed, Len(rest)) /\ tail.shortened = (removed > 0)
      /\ tail.start = StartByte(BytesBefore(text, b), BytesBefore(rest, removed))
      /\ tail.end = Bytes(text)
      /\ tail.lines.start_line = first + 1 /\ tail.lines.end_line = Max({1, N})
  BY <1>8
<1>10. tail.start = BytesBefore(text, b) + BytesBefore(rest, removed)
  BY <1>9 DEF StartByte
<1>11. TailParts(text, tail, first, b, removed)
  BY <1>3, <1>6, <1>9, <1>10 DEF TailParts, N, rest
<1> QED BY <1>2, <1>3, <1>7, <1>11, Zenon DEF N

\* A tail that was not shortened has the last lines, as many as were asked for.
LEMMA TailIsWhole ==
  ASSUME NEW text \in Seq(Chars), NEW lines \in Nat \ {0}, NEW tail,
         tail = LastLines(lines, text), ~ tail.shortened
  PROVE  /\ tail.end = Bytes(text)
         /\ LineCount(tail.text) = Min({lines, LineCount(text)})
<1>1. PICK first \in 0 .. LineCount(text), b \in 0 .. Len(text) :
        \E removed \in 0 .. Len(text) - b :
          /\ LineCount(text) - first = Min({lines, LineCount(text)})
          /\ TailParts(text, tail, first, b, removed)
  BY TailFacts
<1>2. PICK removed \in 0 .. Len(text) - b :
        /\ LineCount(text) - first = Min({lines, LineCount(text)})
        /\ TailParts(text, tail, first, b, removed)
  BY <1>1
<1> DEFINE rest == SubSeq(text, b + 1, Len(text))
<1>3. /\ LineCount(rest) = LineCount(text) - first /\ tail.end = Bytes(text)
      /\ tail.text = Slice(rest, removed, Len(rest)) /\ tail.shortened = (removed > 0)
  BY <1>2 DEF TailParts
<1>4. rest \in Seq(Chars)
  BY RestOfText
<1> HIDE DEF rest
<1>5. removed = 0
  <2>1. ~ (removed > 0)
    BY <1>3, Zenon
  <2> QED BY <2>1
<1>6. tail.text = rest
  <2>1. Len(rest) \in Int /\ 0 + 1 = 1
    BY <1>4
  <2>2. Min({Len(rest), Len(rest)}) = Len(rest)
    BY <2>1, MinOfTwo
  <2>3. Slice(rest, 0, Len(rest)) = SubSeq(rest, 1, Len(rest))
    BY <2>1, <2>2 DEF Slice
  <2>4. SubSeq(rest, 1, Len(rest)) = rest
    BY <1>4
  <2> QED BY <1>3, <1>5, <2>3, <2>4
<1> QED BY <1>2, <1>3, <1>6

\* More characters, more bytes.
LEMMA BytesGrow ==
  ASSUME NEW text \in Seq(Chars), NEW i \in 0 .. Len(text), NEW j \in i .. Len(text)
  PROVE  BytesBefore(text, i) <= BytesBefore(text, j)
<1> DEFINE n == Len(text)
           Holds == {k \in i .. n : BytesBefore(text, i) <= BytesBefore(text, k)}
<1>1. n \in Nat /\ i \in Nat /\ i <= n /\ \A k \in i .. n : k \in 0 .. n
  OBVIOUS
<1>2. \A k \in i .. n : BytesBefore(text, k) \in Nat
  BY <1>1, BytesDef
<1>3. i \in Holds
  <2>1. i \in i .. n /\ BytesBefore(text, i) \in Nat
    BY <1>1, <1>2
  <2> QED BY <2>1
<1>4. ASSUME NEW k \in i + 1 .. n, k - 1 \in Holds PROVE k \in Holds
  <2>1. k \in i .. n /\ k - 1 \in i .. n /\ k \in 1 .. n /\ i \in i .. n
    BY <1>1
  <2>2. BytesBefore(text, k) = BytesBefore(text, k - 1) + Width[text[k]]
    BY <2>1, BytesDef
  <2>3. Width[text[k]] \in Nat
    BY <2>1, WidthNat
  <2>4. /\ BytesBefore(text, i) \in Nat /\ BytesBefore(text, k) \in Nat
        /\ BytesBefore(text, k - 1) \in Nat
    BY <1>2, <2>1
  <2>5. BytesBefore(text, i) <= BytesBefore(text, k - 1)
    BY <1>4
  <2>6. BytesBefore(text, i) <= BytesBefore(text, k)
    BY <2>2, <2>3, <2>4, <2>5
  <2> QED BY <2>1, <2>6
<1>5. \A k \in i .. n : k \in Holds
  <2> HIDE DEF Holds, n
  <2> QED BY <1>1, <1>3, <1>4, BoundedInduction
<1> QED BY <1>5

\* A range that was not shortened has every character between its ends.
LEMMA RangeIsWhole ==
  ASSUME NEW text \in Seq(Chars), NEW start, NEW end, NEW range,
         range = ByteRange(start, end, text), ~ range.shortened, NEW i \in 1 .. Len(text),
         BytesBefore(text, i - 1) >= start, BytesBefore(text, i) <= end
  PROVE  BytesBefore(text, i - 1) >= range.start /\ BytesBefore(text, i) <= range.end
<1> DEFINE n == Len(text)
           within == {k \in DOMAIN text :
                        BytesBefore(text, k - 1) >= start /\ BytesBefore(text, k) <= end}
           all == RangeText(text, start, end)
           kept == TakePrefix(all.text, ResponseBytes)
<1>1. n \in Nat /\ DOMAIN text = 1 .. n
  OBVIOUS
<1>2. i \in within /\ within \subseteq 1 .. n
  BY <1>1
<1>3. all = [text |-> Slice(text, Min(within) - 1, Max(within)),
             start |-> BytesBefore(text, Min(within) - 1), end |-> BytesBefore(text, Max(within))]
  <2> HIDE DEF within
  <2> QED BY <1>2, Zenon DEF RangeText, within
<1> HIDE DEF within
<1>4. all.start = BytesBefore(text, Min(within) - 1) /\ all.end = BytesBefore(text, Max(within))
  BY <1>3
<1> HIDE DEF all
<1>5. /\ range.shortened = (kept # all.text) /\ range.start = all.start
      /\ range.end = IF kept # all.text THEN all.start + Bytes(kept) ELSE all.end
  BY DEF ByteRange, all
<1>6. range.end = all.end
  BY <1>5, Zenon
<1>7. /\ Min(within) \in 1 .. n /\ Min(within) <= i /\ Max(within) \in 1 .. n /\ i <= Max(within)
  <2>1. 1 \in Int /\ n \in Int /\ within # {}
    BY <1>1, <1>2
  <2> QED BY <1>2, <2>1, MinFacts, MaxFacts
<1>8. BytesBefore(text, Min(within) - 1) <= BytesBefore(text, i - 1)
  <2>1. Min(within) - 1 \in 0 .. n /\ i - 1 \in Min(within) - 1 .. n
    BY <1>1, <1>7
  <2> QED BY <2>1, BytesGrow
<1>9. BytesBefore(text, i) <= BytesBefore(text, Max(within))
  <2>1. i \in 0 .. n /\ Max(within) \in i .. n
    BY <1>1, <1>7
  <2> QED BY <2>1, BytesGrow
<1>10. range.start = BytesBefore(text, Min(within) - 1) /\ range.end = BytesBefore(text, Max(within))
  BY <1>4, <1>5, <1>6
<1>11. /\ BytesBefore(text, i - 1) \in Nat /\ BytesBefore(text, Min(within) - 1) \in Nat
  <2>1. i - 1 \in 0 .. n /\ Min(within) - 1 \in 0 .. n
    BY <1>1, <1>7
  <2> QED BY <2>1, BytesDef
<1> QED BY <1>8, <1>9, <1>10, <1>11

\* The fields of an answer.
LEMMA AnswerFields ==
  ASSUME stream \in Rows, request # Nothing, QueryInv,
         NEW result, Answering(Snapshot(request.high_water), result)
  PROVE  /\ answer'["request"] = request /\ answer'["high_water"] = request.high_water
         /\ answer'["scanned"] = Snapshot(request.high_water).scanned
         /\ ~ answer'["partial"] => answer'["scanned"] = answer'["high_water"]
         /\ Snapshot(request.high_water).text \in Seq(Chars)
         /\ Snapshot(request.high_water).text = TextOf(SubSeq(stream, 1, answer'["scanned"]))
         /\ \A f \in DOMAIN result :
              f \notin {"request", "high_water", "scanned", "partial"} => answer'[f] = result[f]
<1> DEFINE snapshot == Snapshot(request.high_water)
           head == [request |-> request, high_water |-> snapshot.high_water,
                    scanned |-> snapshot.scanned, partial |-> snapshot.partial]
<1>1. request.high_water \in 0 .. Len(stream)
  BY DEF QueryInv
<1>2. /\ snapshot.high_water = request.high_water /\ snapshot.scanned \in 0 .. request.high_water
      /\ snapshot.text = TextOf(SubSeq(stream, 1, snapshot.scanned))
      /\ ~ snapshot.partial => snapshot.scanned = request.high_water
  BY <1>1, SnapshotFacts
<1> HIDE DEF snapshot
<1>3. snapshot.text \in Seq(Chars)
  <2>1. stream \in Seq(Seq(Chars)) /\ snapshot.scanned \in 0 .. Len(stream)
    BY <1>1, <1>2 DEF Rows
  <2>2. SubSeq(stream, 1, snapshot.scanned) \in Seq(Seq(Chars))
    BY <2>1, FirstRows
  <2> QED BY <1>2, <2>2, JoinIsText
<1>4. /\ DOMAIN head = {"request", "high_water", "scanned", "partial"}
      /\ head["request"] = request /\ head["high_water"] = snapshot.high_water
      /\ head["scanned"] = snapshot.scanned /\ head["partial"] = snapshot.partial
  OBVIOUS
<1>5. answer' = With(head, result)
  BY DEF Answering, snapshot
<1> HIDE DEF head
<1>6. /\ \A f \in DOMAIN head : answer'[f] = head[f]
      /\ \A f \in DOMAIN result : f \notin DOMAIN head => answer'[f] = result[f]
  BY <1>5 DEF With
<1>7. /\ answer'["request"] = request /\ answer'["high_water"] = snapshot.high_water
      /\ answer'["scanned"] = snapshot.scanned /\ answer'["partial"] = snapshot.partial
  BY <1>4, <1>6
<1> QED BY <1>2, <1>3, <1>4, <1>6, <1>7 DEF snapshot

\* Lines of a tail are those of a request of the caller.
TailInv == request # Nothing => (request.kind = "tail" => request.lines \in Nat \ {0})

LEMMA TailAnswered ==
  ASSUME stream \in Rows, QueryInv, TailInv, AnswerTail
  PROVE  AnswersAreWhole'
<1> DEFINE snapshot == Snapshot(request.high_water)
           tail == LastLines(request.lines, snapshot.text)
<1>1. request.kind = "tail" /\ Answering(snapshot, tail) /\ UNCHANGED stream
  BY DEF AnswerTail, Answered
<1>2. request # Nothing
  BY <1>1 DEF Nothing
<1>3. /\ DOMAIN tail = {"text", "shortened", "start", "end", "lines"}
  BY DEF LastLines
<1> HIDE DEF tail
<1>4. /\ answer'["request"] = request /\ snapshot.text \in Seq(Chars)
      /\ ~ answer'["partial"] => answer'["scanned"] = answer'["high_water"]
      /\ snapshot.text = TextOf(SubSeq(stream, 1, answer'["scanned"]))
      /\ answer'["shortened"] = tail["shortened"] /\ answer'["text"] = tail["text"]
      /\ answer'["end"] = tail["end"]
  BY <1>1, <1>2, <1>3, AnswerFields
<1>5. Region' = snapshot.text
  BY <1>1, <1>4 DEF Region
<1>6. ~ tail.shortened => /\ tail.end = Bytes(snapshot.text)
                         /\ LineCount(tail.text) = Min({request.lines, LineCount(snapshot.text)})
  BY <1>1, <1>2, <1>4, TailIsWhole DEF TailInv, tail
<1> HIDE DEF snapshot
<1>7. answer'.request.kind = "tail" /\ answer'.request.lines = request.lines
  BY <1>1, <1>4
<1> QED BY <1>4, <1>5, <1>6, <1>7 DEF AnswersAreWhole

LEMMA RangeAnswered ==
  ASSUME stream \in Rows, QueryInv, AnswerRange
  PROVE  AnswersAreWhole'
<1> DEFINE snapshot == Snapshot(request.high_water)
           range == ByteRange(request.start, request.end, snapshot.text)
<1>1. request.kind = "range" /\ Answering(snapshot, range) /\ UNCHANGED stream
  BY DEF AnswerRange, Answered
<1>2. request # Nothing
  BY <1>1 DEF Nothing
<1>3. DOMAIN range = {"text", "shortened", "start", "end", "lines"}
  BY DEF ByteRange
<1> HIDE DEF range
<1>4. /\ answer'["request"] = request /\ snapshot.text \in Seq(Chars)
      /\ ~ answer'["partial"] => answer'["scanned"] = answer'["high_water"]
      /\ snapshot.text = TextOf(SubSeq(stream, 1, answer'["scanned"]))
      /\ answer'["shortened"] = range["shortened"] /\ answer'["start"] = range["start"]
      /\ answer'["end"] = range["end"]
  BY <1>1, <1>2, <1>3, AnswerFields
<1>5. Region' = snapshot.text
  BY <1>1, <1>4 DEF Region
<1>6. ~ range.shortened =>
        \A i \in DOMAIN snapshot.text :
          /\ BytesBefore(snapshot.text, i - 1) >= request.start
          /\ BytesBefore(snapshot.text, i) <= request.end
          => BytesBefore(snapshot.text, i - 1) >= range.start /\ BytesBefore(snapshot.text, i) <= range.end
  <2>1. DOMAIN snapshot.text = 1 .. Len(snapshot.text)
    BY <1>4
  <2> QED BY <1>4, <2>1, RangeIsWhole DEF range
<1> HIDE DEF snapshot
<1>7. /\ answer'.request.kind = "range" /\ answer'.request.start = request.start
      /\ answer'.request.end = request.end
  BY <1>1, <1>4
<1> QED BY <1>4, <1>5, <1>6, <1>7 DEF AnswersAreWhole

LEMMA SearchAnswered ==
  ASSUME stream \in Rows, QueryInv, AnswerSearch
  PROVE  AnswersAreWhole'
<1>1. PICK result : Answering(Snapshot(request.high_water), result)
  BY DEF AnswerSearch
<1>2. request.kind = "search" /\ request # Nothing
  <2>1. request.kind = "search"
    BY Zenon DEF AnswerSearch
  <2> QED BY <2>1 DEF Nothing
<1>3. /\ answer'["request"] = request
      /\ ~ answer'["partial"] => answer'["scanned"] = answer'["high_water"]
  BY <1>1, <1>2, AnswerFields
<1>4. answer'.request.kind = "search"
  BY <1>2, <1>3
<1> QED BY <1>3, <1>4 DEF AnswersAreWhole

LEMMA AskedFor ==
  ASSUME NEW r, Ask(r), DOMAIN r = {"kind", "lines"} \/ r.kind # "tail",
         "kind" \in DOMAIN r, r.kind = "tail" => r.lines \in Nat \ {0}
  PROVE  TailInv' /\ AnswersAreWhole'
<1>1. request' = With(r, [high_water |-> Len(stream)]) /\ answer' = Nothing
  BY DEF Ask
<1>2. \A f \in DOMAIN r : request'[f] = r[f]
  BY <1>1 DEF With
<1>3. request'["kind"] = "tail" => request'["lines"] \in Nat \ {0}
  BY <1>2
<1> QED BY <1>1, <1>3 DEF TailInv, AnswersAreWhole

\* What was answered stays whole while the output grows.
LEMMA AnswerStays ==
  ASSUME PageInv, QueryInv, AnswersAreWhole, NEW text \in Outputs, Ingest(text)
  PROVE  AnswersAreWhole'
<1> DEFINE more == SplitChunks(text, ChunkBytes)
<1>1. more \in Rows
  BY LimitAssumption, SplitIsRows
<1>2. stream' = stream \o more /\ UNCHANGED <<request, answer>>
  BY DEF Ingest, queries
<1> HIDE DEF more
<1>3. CASE answer = Nothing
  BY <1>2, <1>3 DEF AnswersAreWhole
<1>4. CASE answer # Nothing
  <2>1. answer.scanned \in 0 .. Len(stream) /\ stream \in Rows
    BY <1>4 DEF QueryInv, PageInv
  <2>2. 0 \in 0 .. Len(stream) /\ 0 + 1 = 1
    BY <2>1
  <2>3. SubSeq(stream \o more, 0 + 1, answer.scanned) = SubSeq(stream, 0 + 1, answer.scanned)
    BY <1>1, <2>1, <2>2, RowsStay
  <2>4. Region' = Region
    BY <1>2, <2>2, <2>3 DEF Region
  <2> QED BY <1>2, <2>4 DEF AnswersAreWhole
<1> QED BY <1>3, <1>4

LEMMA AnswersStep ==
  ASSUME PageInv, QueryInv, TailInv, AnswersAreWhole, [Next]_vars
  PROVE  TailInv' /\ AnswersAreWhole'
<1>1. CASE \E text \in Outputs : Ingest(text)
  <2>1. AnswersAreWhole'
    BY <1>1, AnswerStays
  <2>2. UNCHANGED request
    BY <1>1 DEF Ingest, queries
  <2> QED BY <2>1, <2>2 DEF TailInv
<1>2. CASE EndExecution \/ Paging \/ UNCHANGED vars
  <2>1. UNCHANGED <<stream, request, answer>>
    BY <1>2 DEF EndExecution, Paging, ReadPage, FinishPage, queries, vars
  <2>2. answer' = answer /\ Region' = Region
    BY <2>1 DEF Region
  <2> QED BY <2>1, <2>2 DEF TailInv, AnswersAreWhole
<1>3. CASE Querying
  <2>1. CASE \E q \in Queries : AskSearch(q)
    BY <2>1, AskedFor DEF AskSearch
  <2>2. CASE \E lines \in Tails : AskTail(lines)
    <3>1. PICK lines \in Tails : Ask([kind |-> "tail", lines |-> lines])
      BY <2>2 DEF AskTail
    <3>2. lines \in Nat \ {0}
      BY LimitAssumption
    <3> QED BY <3>1, <3>2, AskedFor
  <2>3. CASE \E r \in Ranges : AskRange(r)
    BY <2>3, AskedFor DEF AskRange
  <2>4. CASE AskForMore
    BY <2>4, AskedFor DEF AskForMore
  <2>5. CASE AnswerSearch \/ AnswerTail \/ AnswerRange
    <3>1. AnswersAreWhole'
      BY <2>5, SearchAnswered, TailAnswered, RangeAnswered DEF PageInv
    <3>2. request' = Nothing
      BY <2>5 DEF AnswerSearch, AnswerTail, AnswerRange, Answered
    <3> QED BY <3>1, <3>2 DEF TailInv
  <2> QED BY <1>3, <2>1, <2>2, <2>3, <2>4, <2>5 DEF Querying
<1> QED BY <1>1, <1>2, <1>3 DEF Next, Ingestion

\* An answer that is neither partial nor truncated is the whole answer: it scanned
\* every row up to its high water, a tail has the last lines, as many as were asked
\* for, and a range every character between its ends, also when the output grew since.
THEOREM WholeAnswers == Spec => []AnswersAreWhole
<1>1. Init => TailInv /\ AnswersAreWhole
  BY DEF Init, TailInv, AnswersAreWhole
<1>2. PageInv /\ FlagsOK /\ QueryInv /\ TailInv /\ AnswersAreWhole /\ [Next]_vars
        => (TailInv /\ AnswersAreWhole)'
  BY AnswersStep
<1> QED BY <1>1, <1>2, PagesHold, PTL DEF Spec

\* Bytes of a text that continues like another behind m characters.
LEMMA BytesAdd ==
  ASSUME NEW text \in Seq(Chars), NEW other \in Seq(Chars), NEW m \in 0 .. Len(text),
         NEW n \in 0 .. Len(text) - m, n <= Len(other), \A i \in 1 .. n : other[i] = text[m + i]
  PROVE  BytesBefore(text, m + n) = BytesBefore(text, m) + BytesBefore(other, n)
<1> DEFINE Holds == {k \in 0 .. n : BytesBefore(text, m + k) = BytesBefore(text, m) + BytesBefore(other, k)}
<1>1. m \in Nat /\ n \in Nat /\ m + n <= Len(text) /\ Len(text) \in Nat /\ Len(other) \in Nat
  OBVIOUS
<1>2. /\ BytesBefore(other, 0) = 0 /\ BytesBefore(text, m) \in Nat
      /\ \A k \in 0 .. n : BytesBefore(text, m + k) \in Nat /\ BytesBefore(other, k) \in Nat
  <2>1. \A k \in 0 .. n : m + k \in 0 .. Len(text) /\ k \in 0 .. Len(other)
    BY <1>1
  <2> QED BY <2>1, BytesDef
<1>3. 0 \in Holds
  <2>1. m + 0 = m /\ 0 \in 0 .. n
    BY <1>1
  <2> QED BY <1>2, <2>1
<1>4. ASSUME NEW k \in 0 + 1 .. n, k - 1 \in Holds PROVE k \in Holds
  <2>1. /\ k \in 1 .. n /\ k \in 0 .. n /\ k - 1 \in 0 .. n /\ k \in 1 .. Len(other)
        /\ m + k \in 1 .. Len(text) /\ (m + k) - 1 = m + (k - 1)
    BY <1>1
  <2>2. BytesBefore(other, k) = BytesBefore(other, k - 1) + Width[other[k]]
    BY <2>1, BytesDef
  <2>3. BytesBefore(text, m + k) = BytesBefore(text, m + (k - 1)) + Width[text[m + k]]
    BY <2>1, BytesDef
  <2>4. other[k] = text[m + k] /\ Width[text[m + k]] \in Nat
    <3>1. text[m + k] \in Chars
      BY <2>1
    <3> QED BY <2>1, <3>1, WidthNat, Zenon
  <2>5. BytesBefore(text, m + (k - 1)) = BytesBefore(text, m) + BytesBefore(other, k - 1)
    BY <1>4
  <2>6. BytesBefore(other, k - 1) \in Nat /\ BytesBefore(text, m) \in Nat
    BY <1>2, <2>1
  <2>7. BytesBefore(text, m + k) = BytesBefore(text, m) + BytesBefore(other, k)
    <3> DEFINE w == Width[text[m + k]]
    <3>1. w \in Nat /\ BytesBefore(other, k) = BytesBefore(other, k - 1) + w
      BY <2>2, <2>4
    <3>2. BytesBefore(text, m + k) = (BytesBefore(text, m) + BytesBefore(other, k - 1)) + w
      BY <2>3, <2>5
    <3> HIDE DEF w
    <3> QED BY <2>6, <3>1, <3>2
  <2> QED BY <2>1, <2>7
<1>5. \A k \in 0 .. n : k \in Holds
  <2>1. 0 \in Nat
    OBVIOUS
  <2> HIDE DEF Holds
  <2> QED BY <1>1, <1>3, <1>4, <2>1, BoundedInduction
<1>6. n \in 0 .. n
  BY <1>1
<1> QED BY <1>5, <1>6

\* Every character has a byte, so offsets of characters keep their order.
LEMMA BytesOrder ==
  ASSUME NEW text \in Seq(Chars), NEW i \in 0 .. Len(text), NEW j \in 0 .. Len(text)
  PROVE  /\ BytesBefore(text, i) \in Nat /\ BytesBefore(text, j) \in Nat
         /\ BytesBefore(text, i) <= BytesBefore(text, j) <=> i <= j
<1>1. BytesBefore(text, i) \in Nat /\ BytesBefore(text, j) \in Nat
  BY BytesDef
<1>2. CASE i <= j
  <2>1. j \in i .. Len(text)
    BY <1>2
  <2> QED BY <1>1, <1>2, <2>1, BytesGrow
<1>3. CASE ~ (i <= j)
  <2>1. j + 1 \in 0 .. Len(text) /\ j + 1 \in 1 .. Len(text) /\ i \in j + 1 .. Len(text) /\ (j + 1) - 1 = j
    BY <1>3
  <2>2. BytesBefore(text, j + 1) = BytesBefore(text, j) + Width[text[j + 1]]
    BY <2>1, BytesDef
  <2>3. Width[text[j + 1]] \in Nat /\ Width[text[j + 1]] > 0
    BY <2>1, WidthNat
  <2>4. BytesBefore(text, j + 1) <= BytesBefore(text, i)
    BY <2>1, BytesGrow
  <2>5. ~ (BytesBefore(text, i) <= BytesBefore(text, j))
    BY <1>1, <2>2, <2>3, <2>4
  <2> QED BY <1>1, <1>3, <2>5
<1> QED BY <1>2, <1>3

LEMMA BytesPast ==
  ASSUME NEW text \in Seq(Chars), NEW i \in Int, i >= Len(text)
  PROVE  BytesBefore(text, i) = Bytes(text)
<1>1. Len(text) \in Int
  OBVIOUS
<1>2. Min({i, Len(text)}) = Len(text)
  <2>1. Min({i, Len(text)}) = IF i <= Len(text) THEN i ELSE Len(text)
    BY <1>1, MinOfTwo
  <2> QED BY <1>1, <2>1
<1>3. Min({Len(text), Len(text)}) = Len(text)
  BY <1>1, MinOfTwo
<1> QED BY <1>2, <1>3 DEF Bytes, BytesBefore

\* The offset of a character leads back to it.
LEMMA CharIndexOf ==
  ASSUME NEW text \in Seq(Chars), NEW i \in 0 .. Len(text)
  PROVE  CharIndex(text, BytesBefore(text, i)) = i
<1>1. DOMAIN text = 1 .. Len(text) /\ Len(text) \in Nat /\ i \in Nat /\ i <= Len(text)
  OBVIOUS
<1>2. ASSUME NEW k \in 1 .. Len(text)
      PROVE  Reaches(BytesBefore(text, k), BytesBefore(text, i)) <=> k <= i
  <2>1. k \in 0 .. Len(text)
    BY <1>1
  <2> QED BY <2>1, BytesOrder DEF Reaches
<1>3. {k \in DOMAIN text : Reaches(BytesBefore(text, k), BytesBefore(text, i))} = 1 .. i
  BY <1>1, <1>2
<1>4. Cardinality(1 .. i) = i
  <2>1. Cardinality(1 .. i) = IF 1 > i THEN 0 ELSE i - 1 + 1
    BY <1>1, FS_Interval
  <2> QED BY <1>1, <2>1
<1> QED BY <1>3, <1>4 DEF CharIndex

\* What a slice is.
LEMMA SliceFacts ==
  ASSUME NEW text \in Seq(Chars), NEW i \in Nat, NEW j \in Int
  PROVE  LET last == IF j <= Len(text) THEN j ELSE Len(text) IN
         /\ Slice(text, i, j) = SubSeq(text, i + 1, last) /\ Slice(text, i, j) \in Seq(Chars)
         /\ last <= i => Slice(text, i, j) = <<>>
         /\ i <= last => /\ Len(Slice(text, i, j)) = last - i
                         /\ \A k \in 1 .. last - i : Slice(text, i, j)[k] = text[i + k]
<1> DEFINE last == IF j <= Len(text) THEN j ELSE Len(text)
           slice == SubSeq(text, i + 1, last)
<1>1. Len(text) \in Nat /\ last \in Int /\ last <= Len(text)
  OBVIOUS
<1>2. Slice(text, i, j) = slice
  <2>1. Min({j, Len(text)}) = last
    BY <1>1, MinOfTwo
  <2> QED BY <2>1 DEF Slice
<1> HIDE DEF last
<1>3. slice \in Seq(Chars)
  BY <1>1
<1>4. last <= i => slice = <<>>
  BY <1>1
<1>5. i <= last => Len(slice) = last - i
  BY <1>1
<1>6. ASSUME i <= last, NEW k \in 1 .. last - i PROVE slice[k] = text[i + k]
  <2>1. k \in 1 .. last - (i + 1) + 1 /\ i + 1 + k - 1 = i + k
    BY <1>1
  <2>2. slice[k] = text[i + 1 + k - 1]
    BY <1>1, <2>1
  <2> QED BY <2>1, <2>2
<1> HIDE DEF slice
<1>7. /\ Slice(text, i, j) = slice /\ slice \in Seq(Chars)
      /\ last <= i => slice = <<>>
      /\ i <= last => Len(slice) = last - i /\ \A k \in 1 .. last - i : slice[k] = text[i + k]
  BY <1>2, <1>3, <1>4, <1>5, <1>6
<1> QED BY <1>7 DEF last, slice

-----------------------------------------------------------------------------
(* Positions.                                                              *)

\* PositionIsTrue, of any text.
PositionIn(text, item) ==
  item.text # <<>> =>
    /\ \E i, j \in 0 .. Len(text) :
         /\ BytesBefore(text, i) = item.start /\ BytesBefore(text, j) = item.end
         /\ item.text = Slice(text, i, j)
    /\ ~item.shortened =>
         /\ item.lines.start_line = LineAt(text, item.start)
         /\ item.lines.end_line = LineAt(text, item.end - 1)

LEMMA LongerText ==
  ASSUME NEW text \in Seq(Chars), NEW more \in Seq(Chars)
  PROVE  /\ text \o more \in Seq(Chars) /\ Len(text) <= Len(text \o more)
         /\ Len(text) \in Nat /\ Len(text \o more) \in Nat
         /\ \A i \in 1 .. Len(text) : (text \o more)[i] = text[i]
         /\ \A i \in 0 .. Len(text) : BytesBefore(text \o more, i) = BytesBefore(text, i)
<1> DEFINE all == text \o more
<1>1. /\ all \in Seq(Chars) /\ Len(text) <= Len(all) /\ Len(text) \in Nat /\ Len(all) \in Nat
      /\ \A i \in 1 .. Len(text) : all[i] = text[i]
  OBVIOUS
<1> HIDE DEF all
<1>2. Len(text) <= Len(text)
  BY <1>1
<1>3. \A i \in 0 .. Len(text) : BytesBefore(all, i) = BytesBefore(text, i)
  BY <1>1, <1>2, BytesAgree
<1> QED BY <1>1, <1>3 DEF all

\* What is added behind a text does not move its lines.
LEMMA LinesStay ==
  ASSUME NEW text \in Seq(Chars), NEW more \in Seq(Chars), NEW byte \in Int, byte < Bytes(text)
  PROVE  LineAt(text \o more, byte) = LineAt(text, byte)
<1> DEFINE all == text \o more
           n == Len(text)
<1>1. /\ all \in Seq(Chars) /\ n \in Nat /\ Len(all) \in Nat /\ n <= Len(all)
      /\ \A i \in 1 .. n : all[i] = text[i]
      /\ \A i \in 0 .. n : BytesBefore(all, i) = BytesBefore(text, i)
      /\ DOMAIN text = 1 .. n
  BY LongerText
<1>2. DOMAIN all = 1 .. Len(all)
  BY <1>1
<1> HIDE DEF all
<1>3. ASSUME NEW i \in DOMAIN all, BytesBefore(all, i) <= byte PROVE i \in 1 .. n
  <2>1. i \in 0 .. Len(all) /\ n \in 0 .. Len(all) /\ n \in 0 .. n
    BY <1>1, <1>2
  <2>2. /\ BytesBefore(all, n) \in Nat /\ BytesBefore(all, i) \in Nat
        /\ BytesBefore(all, n) <= BytesBefore(all, i) <=> n <= i
    BY <1>1, <2>1, BytesOrder
  <2>3. BytesBefore(all, n) = Bytes(text)
    BY <1>1, <2>1 DEF Bytes
  <2> QED BY <1>1, <1>2, <1>3, <2>1, <2>2, <2>3
<1>4. {i \in DOMAIN all : all[i] \in Breaks /\ BytesBefore(all, i) <= byte}
        = {i \in DOMAIN text : text[i] \in Breaks /\ BytesBefore(text, i) <= byte}
  <2>1. \A i \in 1 .. n : i \in 0 .. n /\ i \in DOMAIN all /\ all[i] = text[i]
    BY <1>1, <1>2
  <2> QED BY <1>1, <1>3, <2>1
<1> QED BY <1>4 DEF LineAt, all

\* A position stays true while text is added.
LEMMA PositionStays ==
  ASSUME NEW text \in Seq(Chars), NEW more \in Seq(Chars), NEW item, PositionIn(text, item)
  PROVE  PositionIn(text \o more, item)
<1> DEFINE all == text \o more
           n == Len(text)
<1> SUFFICES ASSUME item.text # <<>> PROVE PositionIn(all, item)
  BY DEF PositionIn
<1>1. PICK i \in 0 .. n, j \in 0 .. n :
        /\ BytesBefore(text, i) = item.start /\ BytesBefore(text, j) = item.end
        /\ item.text = Slice(text, i, j)
  BY DEF PositionIn
<1>2. /\ all \in Seq(Chars) /\ n \in Nat /\ Len(all) \in Nat /\ n <= Len(all)
      /\ \A k \in 1 .. n : all[k] = text[k]
      /\ \A k \in 0 .. n : BytesBefore(all, k) = BytesBefore(text, k)
  BY LongerText
<1> HIDE DEF all
<1>3. i \in Nat /\ j \in Int /\ j <= n /\ j <= Len(all) /\ i \in 0 .. Len(all) /\ j \in 0 .. Len(all)
  BY <1>2
<1>4. /\ Slice(text, i, j) = SubSeq(text, i + 1, j) /\ Slice(text, i, j) \in Seq(Chars)
      /\ j <= i => Slice(text, i, j) = <<>>
      /\ i <= j => /\ Len(Slice(text, i, j)) = j - i
                    /\ \A k \in 1 .. j - i : Slice(text, i, j)[k] = text[i + k]
  BY <1>3, SliceFacts
<1>5. i < j
  BY <1>1, <1>3, <1>4
<1>6. /\ Slice(all, i, j) \in Seq(Chars)
      /\ i <= j => /\ Len(Slice(all, i, j)) = j - i
                    /\ \A k \in 1 .. j - i : Slice(all, i, j)[k] = all[i + k]
  BY <1>2, <1>3, SliceFacts
<1>7. Slice(all, i, j) = Slice(text, i, j)
  <2>1. \A k \in 1 .. j - i : i + k \in 1 .. n
    BY <1>3
  <2>2. i <= j
    BY <1>3, <1>5
  <2>3. \A k \in 1 .. j - i : Slice(all, i, j)[k] = Slice(text, i, j)[k]
    BY <1>2, <1>4, <1>6, <2>1, <2>2
  <2> QED BY <1>4, <1>6, <2>2, <2>3, SameSequence
<1>8. item.start < Bytes(text) /\ item.start \in Int /\ item.end - 1 < Bytes(text) /\ item.end - 1 \in Int
  <2>1. n \in 0 .. n /\ j <= n /\ ~ (n <= i)
    BY <1>2, <1>3, <1>5
  <2>2. /\ BytesBefore(text, j) <= BytesBefore(text, n) /\ BytesBefore(text, j) \in Nat
        /\ ~ (BytesBefore(text, n) <= BytesBefore(text, i))
        /\ BytesBefore(text, i) \in Nat /\ BytesBefore(text, n) \in Nat
    BY <2>1, BytesOrder
  <2> QED BY <1>1, <2>2 DEF Bytes
<1>9. LineAt(all, item.start) = LineAt(text, item.start)
      /\ LineAt(all, item.end - 1) = LineAt(text, item.end - 1)
  BY <1>8, LinesStay DEF all
<1>10. ~item.shortened =>
         /\ item.lines.start_line = LineAt(all, item.start)
         /\ item.lines.end_line = LineAt(all, item.end - 1)
  BY <1>9 DEF PositionIn
<1>11. /\ BytesBefore(all, i) = item.start /\ BytesBefore(all, j) = item.end
       /\ item.text = Slice(all, i, j)
  BY <1>1, <1>2, <1>7
<1> QED BY <1>3, <1>10, <1>11 DEF PositionIn

\* The line of a byte is one more than the lines that end before its character.
LEMMA LineOfByte ==
  ASSUME NEW text \in Seq(Chars), NEW j \in 0 .. Len(text) - 1, NEW byte \in Int,
         BytesBefore(text, j) <= byte, byte < BytesBefore(text, j + 1)
  PROVE  LineAt(text, byte) = 1 + UpTo(LineEnds(text), j)
<1> DEFINE n == Len(text)
<1>1. DOMAIN text = 1 .. n /\ n \in Nat /\ j \in Nat /\ j < n /\ j \in 0 .. n /\ j + 1 \in 0 .. n
  OBVIOUS
<1>2. ASSUME NEW i \in 1 .. n PROVE BytesBefore(text, i) <= byte <=> i <= j
  <2>1. i \in 0 .. n
    BY <1>1
  <2>2. /\ BytesBefore(text, i) \in Nat /\ BytesBefore(text, j) \in Nat
        /\ BytesBefore(text, i) <= BytesBefore(text, j) <=> i <= j
    BY <1>1, <2>1, BytesOrder
  <2>3. /\ BytesBefore(text, j + 1) \in Nat
        /\ BytesBefore(text, j + 1) <= BytesBefore(text, i) <=> j + 1 <= i
    BY <1>1, <2>1, BytesOrder
  <2> QED BY <1>1, <2>1, <2>2, <2>3
<1>3. {i \in DOMAIN text : text[i] \in Breaks /\ BytesBefore(text, i) <= byte}
        = {i \in LineEnds(text) : i <= j}
  <2>1. ASSUME NEW i \in 1 .. n, i <= j PROVE i # n
    <3>1. i \in Int /\ j \in Int /\ n \in Int /\ j < n
      BY <1>1
    <3> HIDE DEF n
    <3> QED BY <2>1, <3>1
  <2> QED BY <1>1, <1>2, <2>1 DEF LineEnds
<1> QED BY <1>3 DEF LineAt, UpTo

LEMMA LinesInText ==
  ASSUME NEW text \in Seq(Chars), text # <<>>
  PROVE  /\ LineCount(text) \in Nat /\ LineCount(text) >= 1
         /\ Len(text) \in Nat /\ Len(text) >= 1
         /\ UpTo(LineEnds(text), Len(text) - 1) = LineCount(text) - 1
         /\ \A i \in 0 .. Len(text) - 1 :
              UpTo(LineEnds(text), i) \in Nat /\ UpTo(LineEnds(text), i) <= LineCount(text) - 1
<1> DEFINE E == LineEnds(text)
           n == Len(text)
<1>1. E \subseteq 1 .. n /\ n \in Nat /\ n >= 1 /\ n \in E /\ LineCount(text) = Cardinality(E)
  BY LineEndFacts DEF LineCount
<1> HIDE DEF E
<1>2. /\ UpTo(E, n) = Cardinality(E) /\ Cardinality(E) \in Nat
      /\ \A i \in 0 .. n : UpTo(E, i) \in Nat
      /\ \A i \in 1 .. n : UpTo(E, i) = UpTo(E, i - 1) + (IF i \in E THEN 1 ELSE 0)
  BY <1>1, UpToFacts
<1>3. UpTo(E, n) = UpTo(E, n - 1) + 1 /\ UpTo(E, n - 1) \in Nat
  <2>1. n \in 1 .. n /\ n - 1 \in 0 .. n
    BY <1>1
  <2> QED BY <1>1, <1>2, <2>1
<1>4. ASSUME NEW i \in 0 .. n - 1
      PROVE  UpTo(E, i) \in Nat /\ UpTo(E, i) <= UpTo(E, n - 1)
  <2> DEFINE some == {k \in E : k <= i}
             more == {k \in E : k <= n - 1}
  <2>1. some \subseteq more
    <3>1. \A k \in E : k \in Int /\ (k <= i => k <= n - 1)
      BY <1>1
    <3> QED BY <3>1
  <2>2. IsFiniteSet(more)
    <3>1. IsFiniteSet(1 .. n)
      BY <1>1, FS_Interval
    <3>2. more \subseteq 1 .. n
      BY <1>1
    <3> HIDE DEF more
    <3> QED BY <3>1, <3>2, FS_Subset
  <2>3. Cardinality(some) <= Cardinality(more)
    <3> HIDE DEF some, more
    <3> QED BY <2>1, <2>2, FS_Subset
  <2>4. i \in 0 .. n
    BY <1>1
  <2> QED BY <1>2, <2>3, <2>4 DEF UpTo
<1> QED BY <1>1, <1>2, <1>3, <1>4 DEF E

LEMMA LineIndexAt ==
  ASSUME NEW text \in Seq(Chars), text # <<>>, NEW i \in Nat
  PROVE  LineIndex(text, i)
           = IF i < Len(text) THEN UpTo(LineEnds(text), i) ELSE LineCount(text) - 1
<1> DEFINE E == LineEnds(text)
           N == LineCount(text)
           n == Len(text)
<1>1. /\ N \in Nat /\ N >= 1 /\ n \in Nat /\ n >= 1 /\ E \subseteq 1 .. n /\ N = Cardinality(E)
      /\ \A k \in 0 .. n - 1 : UpTo(E, k) \in Nat /\ UpTo(E, k) <= N - 1
  BY LinesInText, LineEndFacts DEF LineCount
<1>2. LineIndex(text, i) = Min({UpTo(E, i), Max({N - 1, 0})})
  BY DEF LineIndex, UpTo
<1> HIDE DEF E, N
<1>3. Max({N - 1, 0}) = N - 1
  <2>1. N - 1 \in Int /\ N - 1 >= 0
    BY <1>1
  <2>2. Max({N - 1, 0}) = IF N - 1 >= 0 THEN N - 1 ELSE 0
    BY <2>1, MaxOfTwo
  <2> QED BY <2>1, <2>2
<1>4. CASE i < n
  <2>1. UpTo(E, i) \in Int /\ UpTo(E, i) <= N - 1 /\ N - 1 \in Int
    BY <1>1, <1>4
  <2>2. Min({UpTo(E, i), N - 1}) = IF UpTo(E, i) <= N - 1 THEN UpTo(E, i) ELSE N - 1
    BY <2>1, MinOfTwo
  <2> QED BY <1>2, <1>3, <1>4, <2>1, <2>2 DEF E
<1>5. CASE ~ (i < n)
  <2>1. {k \in E : k <= i} = E
    <3>1. \A k \in E : k \in 1 .. n
      BY <1>1
    <3>2. \A k \in E : k <= i
      BY <1>1, <1>5, <3>1
    <3> QED BY <3>2
  <2>2. UpTo(E, i) = N
    BY <1>1, <2>1 DEF UpTo
  <2>3. N \in Int /\ N - 1 \in Int /\ ~ (N <= N - 1)
    BY <1>1
  <2>4. Min({N, N - 1}) = IF N <= N - 1 THEN N ELSE N - 1
    BY <2>3, MinOfTwo
  <2> QED BY <1>2, <1>3, <1>5, <2>2, <2>3, <2>4 DEF N
<1> QED BY <1>4, <1>5

\* The first and the last byte of a character are in its line.
LEMMA LineOfChar ==
  ASSUME NEW text \in Seq(Chars), NEW i \in 0 .. Len(text) - 1
  PROVE  /\ LineAt(text, BytesBefore(text, i)) = 1 + UpTo(LineEnds(text), i)
         /\ LineAt(text, BytesBefore(text, i + 1) - 1) = 1 + UpTo(LineEnds(text), i)
<1> DEFINE first == BytesBefore(text, i)
           last == BytesBefore(text, i + 1) - 1
<1>1. i \in 0 .. Len(text) /\ i + 1 \in 0 .. Len(text) /\ ~ (i + 1 <= i)
  OBVIOUS
<1>2. /\ BytesBefore(text, i) \in Nat /\ BytesBefore(text, i + 1) \in Nat
      /\ BytesBefore(text, i + 1) <= BytesBefore(text, i) <=> i + 1 <= i
  BY <1>1, BytesOrder
<1>3. /\ first \in Int /\ BytesBefore(text, i) <= first /\ first < BytesBefore(text, i + 1)
      /\ last \in Int /\ BytesBefore(text, i) <= last /\ last < BytesBefore(text, i + 1)
  BY <1>1, <1>2
<1> HIDE DEF first, last
<1>4. LineAt(text, first) = 1 + UpTo(LineEnds(text), i) /\ LineAt(text, last) = 1 + UpTo(LineEnds(text), i)
  BY <1>3, LineOfByte
<1> QED BY <1>4 DEF first, last

\* The lines given for the characters from .. to - 1 are the lines of their bytes, and
\* both are lines of the text.
LEMMA LineRangeTrue ==
  ASSUME NEW text \in Seq(Chars), NEW from \in 0 .. Len(text) - 1, NEW to \in Int, from < to
  PROVE  LET lines == LineRange(text, from, to) IN
         /\ lines.start_line = LineAt(text, BytesBefore(text, from))
         /\ lines.end_line = LineAt(text, BytesBefore(text, to) - 1)
         /\ lines.start_line \in 1 .. LineCount(text) /\ lines.end_line \in 1 .. LineCount(text)
<1> DEFINE n == Len(text)
           N == LineCount(text)
           E == LineEnds(text)
           lines == LineRange(text, from, to)
           last == IF to < n THEN to ELSE n
<1>1. n \in Nat /\ n >= 1 /\ from \in Nat /\ from < n /\ text # <<>>
  OBVIOUS
<1>2. /\ N \in Nat /\ N >= 1 /\ UpTo(E, n - 1) = N - 1
      /\ \A i \in 0 .. n - 1 : UpTo(E, i) \in Nat /\ UpTo(E, i) <= N - 1
  BY <1>1, LinesInText
<1>3. last - 1 \in 0 .. n - 1 /\ last \in 0 .. n /\ (last - 1) + 1 = last
  BY <1>1
<1>4. BytesBefore(text, to) = BytesBefore(text, last)
  <2>1. CASE to < n
    BY <2>1
  <2>2. CASE ~ (to < n)
    <3>1. BytesBefore(text, to) = Bytes(text)
      BY <1>1, <2>2, BytesPast
    <3> QED BY <2>2, <3>1 DEF Bytes
  <2> QED BY <2>1, <2>2
<1>5. LineIndex(text, Max({from, to - 1})) = UpTo(E, last - 1)
  <2>1. Max({from, to - 1}) = to - 1
    <3>1. Max({from, to - 1}) = IF from >= to - 1 THEN from ELSE to - 1
      BY <1>1, MaxOfTwo
    <3> QED BY <1>1, <3>1
  <2>2. to - 1 \in Nat
    BY <1>1
  <2>3. LineIndex(text, to - 1) = IF to - 1 < n THEN UpTo(E, to - 1) ELSE N - 1
    BY <1>1, <2>2, LineIndexAt
  <2>4. CASE to < n
    BY <1>1, <2>1, <2>3, <2>4
  <2>5. CASE to = n
    BY <1>1, <2>1, <2>3, <2>5
  <2>6. CASE to > n
    <3>1. ~ (to - 1 < n) /\ last = n
      BY <1>1, <2>6
    <3> QED BY <1>2, <2>1, <2>3, <3>1
  <2> QED BY <1>1, <2>4, <2>5, <2>6
<1>6. LineIndex(text, from) = UpTo(E, from)
  BY <1>1, LineIndexAt
<1>7. lines.start_line = UpTo(E, from) + 1 /\ lines.end_line = UpTo(E, last - 1) + 1
  BY <1>5, <1>6 DEF LineRange
<1> HIDE DEF lines, last
<1>8. LineAt(text, BytesBefore(text, from)) = 1 + UpTo(E, from)
  BY <1>1, LineOfChar
<1>9. LineAt(text, BytesBefore(text, last) - 1) = 1 + UpTo(E, last - 1)
  BY <1>3, LineOfChar
<1>10. /\ UpTo(E, from) \in Nat /\ UpTo(E, from) <= N - 1
       /\ UpTo(E, last - 1) \in Nat /\ UpTo(E, last - 1) <= N - 1
  <2>1. from \in 0 .. n - 1
    OBVIOUS
  <2> QED BY <1>2, <1>3, <2>1
<1> HIDE DEF n, N, E
<1>11. /\ lines.start_line = LineAt(text, BytesBefore(text, from))
       /\ lines.end_line = LineAt(text, BytesBefore(text, to) - 1)
  BY <1>4, <1>7, <1>8, <1>9, <1>10
<1>12. lines.start_line \in 1 .. N /\ lines.end_line \in 1 .. N
  BY <1>2, <1>7, <1>10
<1> QED BY <1>11, <1>12 DEF lines, N

LEMMA TailPosition ==
  ASSUME NEW text \in Seq(Chars), NEW lines \in Nat \ {0}, NEW tail,
         tail = LastLines(lines, text)
  PROVE  PositionIn(text, tail)
<1> DEFINE n == Len(text)
           N == LineCount(text)
<1> SUFFICES ASSUME tail.text # <<>> PROVE PositionIn(text, tail)
  BY DEF PositionIn
<1>0. PICK first \in 0 .. N, b \in 0 .. n :
        \E removed \in 0 .. n - b : TailParts(text, tail, first, b, removed)
  BY TailFacts
<1>1. PICK removed \in 0 .. n - b : TailParts(text, tail, first, b, removed)
  BY <1>0
<1> DEFINE rest == SubSeq(text, b + 1, n)
           i == b + removed
<1>2. /\ rest \in Seq(Chars) /\ Len(rest) = n - b /\ \A k \in 1 .. n - b : rest[k] = text[b + k]
  BY RestOfText
<1>3. /\ tail.text = Slice(rest, removed, n - b) /\ tail.end = Bytes(text)
      /\ tail.start = BytesBefore(text, b) + BytesBefore(rest, removed)
      /\ UpTo(LineEnds(text), b) = first /\ tail.shortened = (removed > 0)
      /\ tail.lines.start_line = first + 1 /\ tail.lines.end_line = Max({1, N})
  BY <1>1, <1>2 DEF TailParts
<1> HIDE DEF rest
<1>4. /\ n \in Nat /\ b \in Nat /\ removed \in Nat /\ i \in 0 .. n /\ n - b \in Int
      /\ removed <= n - b /\ (n - b) - removed = n - i /\ i \in Nat /\ i <= n
  OBVIOUS
<1>5. /\ Slice(rest, removed, n - b) \in Seq(Chars)
      /\ n - b <= removed => Slice(rest, removed, n - b) = <<>>
      /\ Len(Slice(rest, removed, n - b)) = n - i
      /\ \A k \in 1 .. n - i : Slice(rest, removed, n - b)[k] = rest[removed + k]
  <2>1. n - b <= Len(rest)
    BY <1>2, <1>4
  <2> HIDE DEF i
  <2>2. /\ Slice(rest, removed, n - b) \in Seq(Chars)
        /\ n - b <= removed => Slice(rest, removed, n - b) = <<>>
        /\ removed <= n - b =>
             /\ Len(Slice(rest, removed, n - b)) = (n - b) - removed
             /\ \A k \in 1 .. (n - b) - removed : Slice(rest, removed, n - b)[k] = rest[removed + k]
    BY <1>2, <1>4, <2>1, SliceFacts, Zenon
  <2> QED BY <1>4, <2>2
<1>6. i < n /\ text # <<>>
  <2>1. ~ (n - b <= removed)
    BY <1>3, <1>5
  <2> QED BY <1>4, <2>1
<1>7. /\ Slice(text, i, n) \in Seq(Chars) /\ Len(Slice(text, i, n)) = n - i
      /\ \A k \in 1 .. n - i : Slice(text, i, n)[k] = text[i + k]
  <2>1. n \in Int /\ n <= n
    BY <1>4
  <2> HIDE DEF i
  <2>2. /\ Slice(text, i, n) \in Seq(Chars)
        /\ i <= n => /\ Len(Slice(text, i, n)) = n - i
                      /\ \A k \in 1 .. n - i : Slice(text, i, n)[k] = text[i + k]
    BY <1>4, <2>1, SliceFacts, Zenon
  <2> QED BY <1>4, <2>2
<1>8. tail.text = Slice(text, i, n)
  <2>1. ASSUME NEW k \in 1 .. n - i PROVE rest[removed + k] = text[i + k]
    <3>1. removed + k \in 1 .. n - b /\ b + (removed + k) = i + k
      BY <1>4
    <3> HIDE DEF i
    <3>2. rest[removed + k] = text[b + (removed + k)]
      BY <1>2, <3>1
    <3> QED BY <3>1, <3>2
  <2> HIDE DEF i
  <2>2. \A k \in 1 .. n - i : Slice(rest, removed, n - b)[k] = Slice(text, i, n)[k]
    BY <1>5, <1>7, <2>1
  <2> QED BY <1>3, <1>5, <1>7, <2>2, SameSequence
<1>9. tail.start = BytesBefore(text, i)
  <2>1. \A k \in 1 .. removed : rest[k] = text[b + k]
    BY <1>2, <1>4
  <2>2. removed <= Len(rest)
    BY <1>2, <1>4
  <2> QED BY <1>2, <1>3, <2>1, <2>2, BytesAdd
<1>10. ~tail.shortened =>
         /\ tail.lines.start_line = LineAt(text, tail.start)
         /\ tail.lines.end_line = LineAt(text, tail.end - 1)
  <2> SUFFICES ASSUME ~tail.shortened
               PROVE  /\ tail.lines.start_line = LineAt(text, tail.start)
                      /\ tail.lines.end_line = LineAt(text, tail.end - 1)
    OBVIOUS
  <2>1. removed = 0
    <3>1. ~ (removed > 0)
      BY <1>3, Zenon
    <3> QED BY <1>4, <3>1
  <2>2. i = b /\ i \in 0 .. n - 1 /\ n - 1 \in 0 .. n - 1 /\ (n - 1) + 1 = n
    BY <1>4, <1>6, <2>1
  <2>3. /\ UpTo(LineEnds(text), n - 1) = N - 1 /\ N \in Nat /\ N >= 1
        /\ UpTo(LineEnds(text), i) \in Nat
    BY <1>6, <2>2, LinesInText
  <2>4. tail.lines.start_line = UpTo(LineEnds(text), i) + 1
    BY <1>3, <2>2
  <2>5. tail.lines.end_line = N
    <3>1. 1 \in Int /\ N \in Int
      BY <2>3
    <3>2. Max({1, N}) = IF 1 >= N THEN 1 ELSE N
      BY <3>1, MaxOfTwo
    <3> QED BY <1>3, <2>3, <3>2
  <2>6. LineAt(text, tail.start) = 1 + UpTo(LineEnds(text), i)
    BY <1>9, <2>2, LineOfChar
  <2>7. LineAt(text, tail.end - 1) = 1 + UpTo(LineEnds(text), n - 1)
    BY <1>3, <2>2, LineOfChar DEF Bytes
  <2> QED BY <2>3, <2>4, <2>5, <2>6, <2>7
<1>11. n \in 0 .. n /\ BytesBefore(text, n) = tail.end
  BY <1>3, <1>4 DEF Bytes
<1> QED BY <1>4, <1>8, <1>9, <1>10, <1>11 DEF PositionIn

\* What fits a limit is the start of the text.
LEMMA PrefixFacts ==
  ASSUME NEW text \in Seq(Chars), NEW limit \in Int
  PROVE  \E c \in 0 .. Len(text) :
           /\ TakePrefix(text, limit) \in Seq(Chars) /\ Len(TakePrefix(text, limit)) = c
           /\ \A k \in 1 .. c : TakePrefix(text, limit)[k] = text[k]
<1> DEFINE S == {i \in DOMAIN text : BytesBefore(text, i) <= limit}
           c == Cardinality(S)
           n == Len(text)
<1>1. n \in Nat /\ DOMAIN text = 1 .. n
  OBVIOUS
<1>2. IsFiniteSet(1 .. n) /\ Cardinality(1 .. n) = n
  <2>1. IsFiniteSet(1 .. n) /\ Cardinality(1 .. n) = IF 1 > n THEN 0 ELSE n - 1 + 1
    BY <1>1, FS_Interval
  <2> QED BY <1>1, <2>1
<1>3. S \subseteq 1 .. n
  BY <1>1
<1>4. TakePrefix(text, limit) = SubSeq(text, 1, c)
  BY DEF TakePrefix
<1> HIDE DEF S
<1>5. c \in 0 .. n
  <2>1. IsFiniteSet(S) /\ Cardinality(S) <= n
    BY <1>2, <1>3, FS_Subset
  <2>2. Cardinality(S) \in Nat
    BY <2>1, FS_CardinalityType
  <2> QED BY <1>1, <2>1, <2>2
<1> HIDE DEF c
<1>6. /\ SubSeq(text, 1, c) \in Seq(Chars) /\ Len(SubSeq(text, 1, c)) = c
      /\ \A k \in 1 .. c : SubSeq(text, 1, c)[k] = text[k]
  BY <1>1, <1>5
<1> QED BY <1>4, <1>5, <1>6

LEMMA RangePosition ==
  ASSUME NEW text \in Seq(Chars), NEW start, NEW end, NEW range,
         range = ByteRange(start, end, text)
  PROVE  PositionIn(text, range)
<1> DEFINE n == Len(text)
           within == {k \in DOMAIN text :
                        BytesBefore(text, k - 1) >= start /\ BytesBefore(text, k) <= end}
           all == RangeText(text, start, end)
           kept == TakePrefix(all.text, ResponseBytes)
           from == Min(within) - 1
           to == Max(within)
<1>1. n \in Nat /\ DOMAIN text = 1 .. n /\ ResponseBytes \in Int
  BY LimitAssumption
<1>2. within \subseteq 1 .. n
  BY <1>1
<1>3. range = [text |-> kept, shortened |-> kept # all.text, start |-> all.start,
               end |-> IF kept # all.text THEN all.start + Bytes(kept) ELSE all.end,
               lines |-> LineRange(text, CharIndex(text, all.start), CharIndex(text, all.end))]
  BY DEF ByteRange
<1>4. CASE within = {}
  <2>1. all.text = <<>>
    BY <1>4, Zenon DEF RangeText, within
  <2>2. kept = <<>>
    <3>1. <<>> \in Seq(Chars) /\ Len(<<>>) = 0
      OBVIOUS
    <3>2. PICK c \in 0 .. Len(<<>>) :
            /\ TakePrefix(<<>>, ResponseBytes) \in Seq(Chars) /\ Len(TakePrefix(<<>>, ResponseBytes)) = c
      BY <1>1, <3>1, PrefixFacts
    <3>3. Len(TakePrefix(<<>>, ResponseBytes)) = 0
      BY <3>1, <3>2
    <3>4. TakePrefix(<<>>, ResponseBytes) = <<>>
      BY <3>2, <3>3
    <3> QED BY <2>1, <3>4
  <2>3. range.text = <<>>
    BY <1>3, <2>2
  <2> QED BY <2>3 DEF PositionIn
<1>5. CASE within # {}
  <2>1. /\ Min(within) \in within /\ Max(within) \in within /\ Min(within) <= Max(within)
    <3>1. 1 \in Int /\ n \in Int
      BY <1>1
    <3> HIDE DEF within
    <3>2. Min(within) \in within /\ Max(within) \in within
      BY <1>2, <1>5, <3>1, MinFacts, MaxFacts
    <3> QED BY <1>2, <1>5, <3>1, <3>2, MinFacts
  <2>2. all = [text |-> Slice(text, from, to),
               start |-> BytesBefore(text, from), end |-> BytesBefore(text, to)]
    BY <1>5, Zenon DEF RangeText, within
  <2>3. /\ from \in 0 .. n - 1 /\ to \in 1 .. n /\ from < to /\ from \in 0 .. n /\ to \in 0 .. n
        /\ from \in Nat /\ to \in Int /\ to <= n /\ from <= to
    <3>1. Min(within) \in 1 .. n /\ Max(within) \in 1 .. n /\ Min(within) <= Max(within)
      <4> HIDE DEF within
      <4> QED BY <1>2, <2>1
    <3> DEFINE least == Min(within)
               most == Max(within)
    <3> HIDE DEF least, most
    <3>2. from = least - 1 /\ to = most /\ least \in 1 .. n /\ most \in 1 .. n /\ least <= most
      BY <3>1 DEF least, most
    <3> HIDE DEF from, to, within
    <3> QED BY <1>1, <3>2
  <2> HIDE DEF from, to, within
  <2>4. /\ all.text = Slice(text, from, to) /\ all.start = BytesBefore(text, from)
        /\ all.end = BytesBefore(text, to)
    BY <2>2
  <2>5. /\ all.text \in Seq(Chars) /\ Len(all.text) = to - from
        /\ \A k \in 1 .. to - from : all.text[k] = text[from + k]
    <3>1. /\ Slice(text, from, to) \in Seq(Chars)
          /\ from <= to => /\ Len(Slice(text, from, to)) = to - from
                           /\ \A k \in 1 .. to - from : Slice(text, from, to)[k] = text[from + k]
      BY <2>3, SliceFacts
    <3> QED BY <2>3, <2>4, <3>1
  <2> HIDE DEF all
  <2>6. PICK c \in 0 .. to - from :
          /\ kept \in Seq(Chars) /\ Len(kept) = c /\ \A k \in 1 .. c : kept[k] = all.text[k]
    BY <1>1, <2>5, PrefixFacts
  <2> HIDE DEF kept
  <2>7. /\ range.text = kept /\ range.shortened = (kept # all.text) /\ range.start = all.start
        /\ range.end = IF kept # all.text THEN all.start + Bytes(kept) ELSE all.end
        /\ range.lines = LineRange(text, CharIndex(text, all.start), CharIndex(text, all.end))
    BY <1>3
  <2>8. CASE kept = all.text
    <3>1. range.text = Slice(text, from, to) /\ BytesBefore(text, from) = range.start
          /\ BytesBefore(text, to) = range.end
      BY <2>4, <2>7, <2>8
    <3>2. range.lines = LineRange(text, from, to)
      BY <2>3, <2>4, <2>7, CharIndexOf
    <3>3. /\ range.lines.start_line = LineAt(text, range.start)
          /\ range.lines.end_line = LineAt(text, range.end - 1)
      BY <2>3, <3>1, <3>2, LineRangeTrue
    <3> QED BY <2>3, <3>1, <3>3 DEF PositionIn
  <2>9. CASE kept # all.text
    <3> DEFINE j == from + c
    <3>1. /\ j \in 0 .. n /\ j \in Int /\ j <= n /\ from <= j /\ j - from = c /\ c \in 0 .. n - from
          /\ c <= Len(kept) /\ c \in Nat
      BY <1>1, <2>3, <2>6
    <3>2. \A k \in 1 .. c : kept[k] = text[from + k]
      <4>1. \A k \in 1 .. c : k \in 1 .. to - from
        BY <2>3
      <4> QED BY <2>5, <2>6, <4>1
    <3>3. BytesBefore(text, j) = BytesBefore(text, from) + BytesBefore(kept, c)
      BY <2>3, <2>6, <3>1, <3>2, BytesAdd
    <3> HIDE DEF j
    <3>4. /\ Slice(text, from, j) \in Seq(Chars) /\ Len(Slice(text, from, j)) = c
          /\ \A k \in 1 .. c : Slice(text, from, j)[k] = text[from + k]
      <4>1. /\ Slice(text, from, j) \in Seq(Chars)
            /\ from <= j => /\ Len(Slice(text, from, j)) = j - from
                             /\ \A k \in 1 .. j - from : Slice(text, from, j)[k] = text[from + k]
        BY <2>3, <3>1, SliceFacts
      <4> QED BY <3>1, <4>1
    <3>5. range.text = Slice(text, from, j)
      <4>1. \A k \in 1 .. c : kept[k] = Slice(text, from, j)[k]
        BY <3>2, <3>4
      <4> QED BY <2>6, <2>7, <3>4, <4>1, SameSequence
    <3>6. BytesBefore(text, from) = range.start /\ BytesBefore(text, j) = range.end
      BY <2>4, <2>6, <2>7, <2>9, <3>3 DEF Bytes
    <3>7. range.shortened
      BY <2>7, <2>9, Zenon
    <3> QED BY <2>3, <3>1, <3>5, <3>6, <3>7 DEF PositionIn
  <2> QED BY <2>8, <2>9
<1> QED BY <1>4, <1>5

-----------------------------------------------------------------------------
(* Searches.                                                               *)

\* The lower case of a text is empty only when the text is.
LEMMA LowerFacts ==
  ASSUME NEW text \in Seq(Chars)
  PROVE  LowerText(text) \in Seq(Chars) /\ (LowerText(text) = <<>> <=> text = <<>>)
<1> DEFINE rows == [i \in DOMAIN text |-> Lower[text[i]]]
           n == Len(text)
<1>1. DOMAIN text = 1 .. n /\ n \in Nat /\ \A i \in 1 .. n : text[i] \in Chars
  OBVIOUS
<1>2. \A c \in Chars : Lower[c] \in Seq(Chars) /\ Lower[c] # <<>>
  BY TextAssumption, Zenon
<1>3. /\ rows \in Seq(Seq(Chars)) /\ Len(rows) = n /\ \A i \in 1 .. n : rows[i] # <<>>
  BY <1>1, <1>2
<1>4. LowerText(text) = TextOf(rows)
  BY DEF LowerText, TextOf
<1> HIDE DEF rows
<1>5. LowerText(text) \in Seq(Chars)
  BY <1>3, <1>4, JoinIsText
<1>6. CASE n = 0
  <2>1. rows = <<>> /\ text = <<>>
    BY <1>3, <1>6
  <2> QED BY <1>4, <1>5, <2>1, JoinNothing
<1>7. CASE n # 0
  <2>1. n \in 1 .. Len(rows) /\ n - 1 \in 0 .. Len(rows) /\ n \in 0 .. Len(rows)
    BY <1>1, <1>3, <1>7
  <2>2. TextOf(SubSeq(rows, 1, n)) = TextOf(SubSeq(rows, 1, n - 1)) \o rows[n]
    BY <1>3, <2>1, JoinNext
  <2>3. SubSeq(rows, 1, n) = rows
    BY <1>3
  <2>4. TextOf(SubSeq(rows, 1, n - 1)) \in Seq(Chars)
    BY <1>3, <2>1, FirstRows, JoinIsText
  <2>5. rows[n] \in Seq(Chars) /\ rows[n] # <<>>
    BY <1>3, <2>1
  <2> DEFINE start == TextOf(SubSeq(rows, 1, n - 1))
             last == rows[n]
  <2>6. LowerText(text) = start \o last
    BY <1>4, <2>2, <2>3
  <2>7. start \in Seq(Chars) /\ last \in Seq(Chars) /\ last # <<>>
    BY <2>4, <2>5
  <2> HIDE DEF start, last
  <2>8. Len(start \o last) # 0
    BY <2>7
  <2>9. LowerText(text) # <<>> /\ text # <<>>
    BY <1>1, <1>7, <2>6, <2>8
  <2> QED BY <1>5, <2>9
<1> QED BY <1>6, <1>7

LEMMA FindFacts ==
  ASSUME NEW text \in Seq(Chars), NEW needle \in Seq(Chars), needle # <<>>, NEW from \in Nat
  PROVE  Find(text, needle, from) \in Int /\ (Find(text, needle, from) >= 0 => text # <<>>)
<1> DEFINE n == Len(text)
           m == Len(needle)
           starts == {i \in from .. n - m : Slice(text, i, i + m) = needle}
<1>1. n \in Nat /\ m \in Nat /\ m # 0
  OBVIOUS
<1>2. Find(text, needle, from) = IF starts = {} THEN -1 ELSE Min(starts)
  BY DEF Find
<1>3. CASE starts = {}
  BY <1>2, <1>3
<1>4. CASE starts # {}
  <2>1. starts \subseteq from .. n - m /\ from \in Int /\ n - m \in Int
    BY <1>1
  <2> HIDE DEF starts
  <2>2. Min(starts) \in from .. n - m
    BY <1>4, <2>1, MinFacts
  <2>3. n # 0
    BY <1>1, <2>2
  <2> QED BY <1>2, <1>4, <2>2, <2>3
<1> QED BY <1>3, <1>4

LEMMA CharIndexNat ==
  ASSUME NEW text \in Seq(Chars), NEW offset
  PROVE  CharIndex(text, offset) \in Nat
<1> DEFINE S == {i \in DOMAIN text : Reaches(BytesBefore(text, i), offset)}
<1>1. S \subseteq 1 .. Len(text) /\ Len(text) \in Int /\ 1 \in Int
  OBVIOUS
<1> HIDE DEF S
<1>2. IsFiniteSet(S)
  BY <1>1, FS_Interval, FS_Subset
<1> QED BY <1>2, FS_CardinalityType DEF CharIndex, S

LEMMA LinesAreText ==
  ASSUME NEW text \in Seq(Chars), NEW a \in 0 .. LineCount(text), NEW b \in 0 .. LineCount(text)
  PROVE  LinesOf(text, a, b) \in Seq(Chars)
<1>1. StartOfLine(text, a) \in Nat /\ StartOfLine(text, b) \in Int
  BY StartOfLineFacts
<1> QED BY <1>1, SliceFacts DEF LinesOf

LEMMA RangeOfLines ==
  ASSUME NEW text \in Seq(Chars), text # <<>>, NEW from \in Nat, NEW to \in Int, from < to
  PROVE  /\ LineRange(text, from, to).start_line \in 1 .. LineCount(text)
         /\ LineRange(text, from, to).end_line \in 1 .. LineCount(text)
<1> DEFINE N == LineCount(text)
<1>1. /\ N \in Nat /\ N >= 1
      /\ \A i \in 0 .. Len(text) - 1 :
           UpTo(LineEnds(text), i) \in Nat /\ UpTo(LineEnds(text), i) <= N - 1
      /\ Len(text) \in Nat
  BY LinesInText
<1>2. ASSUME NEW i \in Nat PROVE LineIndex(text, i) + 1 \in 1 .. N
  <2>1. LineIndex(text, i) = IF i < Len(text) THEN UpTo(LineEnds(text), i) ELSE N - 1
    BY LineIndexAt
  <2>2. i < Len(text) => i \in 0 .. Len(text) - 1
    BY <1>1
  <2> HIDE DEF N
  <2>3. LineIndex(text, i) \in 0 .. N - 1
    BY <1>1, <2>1, <2>2
  <2> QED BY <1>1, <2>3
<1>3. Max({from, to - 1}) \in Nat
  <2>1. Max({from, to - 1}) = IF from >= to - 1 THEN from ELSE to - 1
    BY MaxOfTwo
  <2> QED BY <2>1
<1> QED BY <1>2, <1>3 DEF LineRange

\* Matches with positions of the text, and what a search knows on its way.
MatchesIn(text) ==
  {m \in [start : Nat, end : Nat, text : Seq(Chars), lines : [start_line : Nat, end_line : Nat],
          before : Seq(Chars), after : Seq(Chars), shortened : BOOLEAN] :
     m.shortened \/ PositionIn(text, m)}

ProgressIn(text) ==
  [bytes : Nat, shortened : BOOLEAN, matches : Seq(MatchesIn(text)), from : Nat]

LEMMA WithFrom ==
  ASSUME NEW r, NEW text, NEW f \in Nat,
         r \in [bytes : Nat, shortened : BOOLEAN, matches : Seq(MatchesIn(text))]
  PROVE  With(r, [from |-> f]) \in ProgressIn(text)
<1> DEFINE both == [bytes |-> r.bytes, shortened |-> r.shortened, matches |-> r.matches, from |-> f]
           M == Seq(MatchesIn(text))
<1> HIDE DEF M
<1>1. /\ DOMAIN r = {"bytes", "shortened", "matches"}
      /\ r.bytes \in Nat /\ r.shortened \in BOOLEAN /\ r.matches \in M
  BY DEF M
<1>2. With(r, [from |-> f]) = [g \in {"bytes", "shortened", "matches", "from"} |->
                               IF g \in DOMAIN r THEN r[g] ELSE f]
  BY <1>1 DEF With
<1>3. With(r, [from |-> f]) = both
  BY <1>1, <1>2
<1>4. both \in [bytes : Nat, shortened : BOOLEAN, matches : M, from : Nat]
  BY <1>1
<1> QED BY <1>3, <1>4 DEF ProgressIn, M

\* The range of a match is where its text is.
LEMMA MatchPosition ==
  ASSUME NEW text \in Seq(Chars), NEW from \in Nat, NEW to \in Int, from < to, NEW item,
         item.text = Slice(text, from, to), item.lines = LineRange(text, from, to),
         item.start = BytesBefore(text, from), item.end = BytesBefore(text, to)
  PROVE  PositionIn(text, item)
<1> SUFFICES ASSUME item.text # <<>> PROVE PositionIn(text, item)
  BY DEF PositionIn
<1> DEFINE n == Len(text)
           last == IF to <= n THEN to ELSE n
<1>1. n \in Nat /\ last \in Int /\ last <= n
  OBVIOUS
<1>2. /\ Slice(text, from, to) = SubSeq(text, from + 1, last)
      /\ last <= from => Slice(text, from, to) = <<>>
  BY SliceFacts
<1>3. from < last
  BY <1>1, <1>2
<1>4. from \in 0 .. n - 1 /\ from \in 0 .. n /\ last \in 0 .. n
  BY <1>1, <1>3
<1>5. Slice(text, from, last) = SubSeq(text, from + 1, last)
  <2> HIDE DEF last
  <2>1. Slice(text, from, last) = SubSeq(text, from + 1, IF last <= n THEN last ELSE n)
    BY <1>1, SliceFacts
  <2> QED BY <1>1, <2>1
<1>6. BytesBefore(text, last) = BytesBefore(text, to)
  <2>1. CASE to <= n
    BY <2>1
  <2>2. CASE ~ (to <= n)
    <3>1. BytesBefore(text, to) = Bytes(text)
      BY <1>1, <2>2, BytesPast
    <3> QED BY <2>2, <3>1 DEF Bytes
  <2> QED BY <2>1, <2>2
<1> HIDE DEF last
<1>7. /\ item.lines.start_line = LineAt(text, item.start)
      /\ item.lines.end_line = LineAt(text, item.end - 1)
  BY <1>4, LineRangeTrue
<1>8. /\ BytesBefore(text, from) = item.start /\ BytesBefore(text, last) = item.end
      /\ item.text = Slice(text, from, last)
  BY <1>2, <1>5, <1>6
<1> QED BY <1>4, <1>7, <1>8 DEF PositionIn

LEMMA AddMatchFacts ==
  ASSUME NEW text \in Seq(Chars), text # <<>>, NEW q \in Queries,
         NEW progress \in ProgressIn(text), NEW from \in Nat, NEW to \in Int, from < to
  PROVE  AddMatch(progress, q, text, from, to)
           \in [bytes : Nat, shortened : BOOLEAN, matches : Seq(MatchesIn(text))]
<1> DEFINE N == LineCount(text)
           lines == LineRange(text, from, to)
           before == LinesOf(text, Max({0, lines.start_line - 1 - q.context_lines}), lines.start_line - 1)
           after == LinesOf(text, lines.end_line, Min({N, lines.end_line + q.context_lines}))
           keptBefore == TakePrefix(before, ResponseBytes - progress.bytes)
           bytes == progress.bytes + Bytes(keptBefore)
           slice == Slice(text, from, to)
           kept == TakePrefix(slice, ResponseBytes - bytes)
           keptAfter == TakePrefix(after, ResponseBytes - bytes - Bytes(kept))
           shortened == \/ progress.shortened \/ keptBefore # before
                        \/ kept # slice \/ keptAfter # after
           match == [start |-> BytesBefore(text, from), end |-> BytesBefore(text, to), text |-> kept,
                     lines |-> lines, before |-> keptBefore, after |-> keptAfter,
                     shortened |-> shortened]
<1>1. /\ progress.bytes \in Nat /\ progress.shortened \in BOOLEAN
      /\ progress.matches \in Seq(MatchesIn(text))
  BY DEF ProgressIn
<1>2. ResponseBytes \in Nat /\ q.context_lines \in Nat /\ N \in Nat
  BY LimitAssumption, LinesInText
<1>3. lines.start_line \in 1 .. N /\ lines.end_line \in 1 .. N
  BY RangeOfLines
<1>4. lines \in [start_line : Nat, end_line : Nat]
  <2>1. lines = [start_line |-> lines.start_line, end_line |-> lines.end_line]
    BY DEF LineRange
  <2>2. lines.start_line \in Nat /\ lines.end_line \in Nat
    BY <1>2, <1>3
  <2> HIDE DEF lines
  <2> QED BY <2>1, <2>2
<1> HIDE DEF lines, N
<1>5. before \in Seq(Chars) /\ after \in Seq(Chars)
  <2>1. /\ Max({0, lines.start_line - 1 - q.context_lines}) \in 0 .. N
        /\ lines.start_line - 1 \in 0 .. N /\ lines.end_line \in 0 .. N
    <3>1. lines.start_line - 1 - q.context_lines \in Int
      BY <1>2, <1>3
    <3>2. Max({0, lines.start_line - 1 - q.context_lines})
            = IF 0 >= lines.start_line - 1 - q.context_lines
                THEN 0 ELSE lines.start_line - 1 - q.context_lines
      BY <3>1, MaxOfTwo
    <3> QED BY <1>2, <1>3, <3>2
  <2>2. Min({N, lines.end_line + q.context_lines}) \in 0 .. N
    <3>1. lines.end_line + q.context_lines \in Nat
      BY <1>2, <1>3
    <3>2. Min({N, lines.end_line + q.context_lines})
            = IF N <= lines.end_line + q.context_lines THEN N ELSE lines.end_line + q.context_lines
      BY <1>2, <3>1, MinOfTwo
    <3> QED BY <1>2, <3>1, <3>2
  <2> QED BY <2>1, <2>2, LinesAreText DEF N
<1> HIDE DEF before, after
<1>6. keptBefore \in Seq(Chars)
  <2>1. ResponseBytes - progress.bytes \in Int
    BY <1>1, <1>2
  <2> QED BY <1>5, <2>1, PrefixFacts
<1> HIDE DEF keptBefore
<1>7. bytes \in Nat
  BY <1>1, <1>6, BytesFacts
<1> HIDE DEF bytes
<1>8. slice \in Seq(Chars)
  BY SliceFacts
<1> HIDE DEF slice
<1>9. kept \in Seq(Chars)
  <2>1. ResponseBytes - bytes \in Int
    BY <1>2, <1>7
  <2> QED BY <1>8, <2>1, PrefixFacts
<1> HIDE DEF kept
<1>10. Bytes(kept) \in Nat
  BY <1>9, BytesFacts
<1>11. keptAfter \in Seq(Chars)
  <2>1. ResponseBytes - bytes - Bytes(kept) \in Int
    BY <1>2, <1>7, <1>10
  <2> QED BY <1>5, <2>1, PrefixFacts
<1> HIDE DEF keptAfter
<1>12. bytes + Bytes(kept) + Bytes(keptAfter) \in Nat
  BY <1>7, <1>10, <1>11, BytesFacts
<1>13. shortened \in BOOLEAN /\ (~shortened => kept = slice)
  OBVIOUS
<1> HIDE DEF shortened
<1>14. BytesBefore(text, from) \in Nat /\ BytesBefore(text, to) \in Nat
  <2>1. ASSUME NEW i \in Nat PROVE BytesBefore(text, i) \in Nat
    <3>1. CASE i <= Len(text)
      <4>1. i \in 0 .. Len(text)
        BY <3>1
      <4> QED BY <4>1, BytesDef
    <3>2. CASE ~ (i <= Len(text))
      <4>1. i >= Len(text) /\ i \in Int
        BY <3>2
      <4> QED BY <4>1, BytesPast, BytesFacts
    <3> QED BY <3>1, <3>2
  <2>2. to \in Nat
    OBVIOUS
  <2> QED BY <2>1, <2>2
<1>15. /\ match.text = kept /\ match.lines = lines /\ match.shortened = shortened
       /\ match.start = BytesBefore(text, from) /\ match.end = BytesBefore(text, to)
  OBVIOUS
<1>16. match \in [start : Nat, end : Nat, text : Seq(Chars), lines : [start_line : Nat, end_line : Nat],
                  before : Seq(Chars), after : Seq(Chars), shortened : BOOLEAN]
  BY <1>4, <1>6, <1>9, <1>11, <1>13, <1>14
<1>17. AddMatch(progress, q, text, from, to)
         = [bytes |-> bytes + Bytes(kept) + Bytes(keptAfter), shortened |-> shortened,
            matches |-> Append(progress.matches, match)]
  BY DEF AddMatch, lines, before, after, keptBefore, bytes, slice, kept, keptAfter, shortened, N
<1> HIDE DEF match
<1>18. match.shortened \/ PositionIn(text, match)
  <2> SUFFICES ASSUME ~match.shortened PROVE PositionIn(text, match)
    OBVIOUS
  <2>1. match.text = Slice(text, from, to)
    BY <1>13, <1>15, Zenon DEF slice
  <2> QED BY <1>15, <2>1, MatchPosition DEF lines
<1>19. match \in MatchesIn(text)
  BY <1>16, <1>18 DEF MatchesIn
<1>20. Append(progress.matches, match) \in Seq(MatchesIn(text))
  BY <1>1, <1>19
<1> QED BY <1>12, <1>13, <1>17, <1>20

\* What str.find finds, in the lower case of the text when the search ignores case.
Haystack(q, text) == IF q.case_sensitive THEN text ELSE LowerText(text)
Needle(q) == IF q.case_sensitive THEN q.query ELSE LowerText(q.query)

LEMMA SearchedText ==
  ASSUME NEW text \in Seq(Chars), NEW q \in Queries
  PROVE  /\ q.query \in Seq(Chars) /\ Len(q.query) \in Nat /\ Len(q.query) # 0
         /\ Haystack(q, text) \in Seq(Chars) /\ (text = <<>> => Haystack(q, text) = <<>>)
         /\ Needle(q) \in Seq(Chars) /\ Needle(q) # <<>>
<1>1. q.query \in Seq(Chars) /\ q.query # <<>>
  BY LimitAssumption
<1> QED BY <1>1, LowerFacts DEF Haystack, Needle

\* The record a search starts from, and the one after a match.
SearchStart(text, after) ==
  [matches |-> <<>>, bytes |-> 0, shortened |-> FALSE, from |-> CharIndex(text, after)]

NextFound(q, text, last) == Find(Haystack(q, text), Needle(q), last.from)

SearchStep(q, text, last) ==
  LET at == NextFound(q, text, last)
  IN IF at < 0 THEN last
     ELSE With(AddMatch(last, q, text, at, at + Len(Needle(q))),
               [from |-> ResumeAt(at, at + Len(Needle(q)))])

\* What holds at the start of a search and is kept by every match holds of its result.
LEMMA SearchInduction ==
  ASSUME NEW text \in Seq(Chars), NEW q \in Queries, NEW after, NEW D,
         SearchStart(text, after) \in D, \A last \in D : SearchStep(q, text, last) \in D
  PROVE  \E result \in D :
           Search(q, text, after) =
             [matches |-> result.matches, shortened |-> result.shortened,
              next |-> IF NextFound(q, text, result) < 0 THEN -1
                       ELSE BytesBefore(text, NextFound(q, text, result))]
<1> DEFINE N == q.limit_matches
           first == SearchStart(text, after)
           Resume(last) == SearchStep(q, text, last)
           Step == [x \in D \X (1 .. N) |-> Resume(x[1])]
           Recursion(f) == f = [n \in 0 .. N |-> IF n = 0 THEN first ELSE Resume(f[n - 1])]
           progress == CHOOSE f : Recursion(f)
           Result(r) == [matches |-> r.matches, shortened |-> r.shortened,
                         next |-> IF NextFound(q, text, r) < 0 THEN -1
                                  ELSE BytesBefore(text, NextFound(q, text, r))]
<1>1. N \in Nat /\ N # 0
  BY LimitAssumption
<1>2. Search(q, text, after) = Result(progress[N])
  BY DEF Search, SearchStep, SearchStart, NextFound, Haystack, Needle
<1> HIDE DEF Resume, first, Result
<1>3. Step \in [D \X (1 .. N) -> D] /\ first \in D
  BY DEF Resume, first
<1>4. PICK g \in [0 .. N -> D] : g[0] = first /\ \A n \in 1 .. N : g[n] = Step[<<g[n - 1], n>>]
  <2> HIDE DEF Step, N
  <2>1. Iterates(D)
    BY EveryStepIterates
  <2>2. \A S \in [D \X (1 .. N) -> D] : \E g \in [0 .. N -> D] :
          g[0] = first /\ \A n \in 1 .. N : g[n] = S[<<g[n - 1], n>>]
    BY <1>1, <1>3, <2>1, Zenon DEF Iterates
  <2> QED BY <1>3, <2>2, Zenon
<1>5. Recursion(g)
  <2>1. ASSUME NEW n \in 0 .. N, n # 0 PROVE g[n] = Resume(g[n - 1])
    <3>1. n \in 1 .. N /\ n - 1 \in 0 .. N
      BY <1>1, <2>1
    <3> DEFINE x == <<g[n - 1], n>>
    <3>2. x \in D \X (1 .. N) /\ x[1] = g[n - 1]
      BY <1>4, <3>1
    <3>3. g[n] = Step[x]
      BY <1>4, <3>1
    <3> HIDE DEF x
    <3>4. Step[x] = Resume(x[1])
      BY <3>2
    <3> QED BY <3>2, <3>3, <3>4
  <2> QED BY <1>4, <2>1
<1>6. Recursion(progress)
  <2> HIDE DEF Recursion
  <2> QED BY <1>5
<1> HIDE DEF progress, Step
<1>7. \A n \in 0 .. N : progress[n] \in D
  <2> DEFINE Holds == {n \in 0 .. N : progress[n] \in D}
  <2>1. 0 \in Holds
    BY <1>1, <1>3, <1>6
  <2>2. ASSUME NEW k \in 0 + 1 .. N, k - 1 \in Holds PROVE k \in Holds
    <3>1. k \in 0 .. N /\ k # 0 /\ progress[k - 1] \in D
      BY <1>1, <2>2
    <3>2. progress[k] = Resume(progress[k - 1])
      BY <1>6, <3>1
    <3>3. progress[k] \in D
      BY <3>1, <3>2 DEF Resume
    <3> QED BY <3>1, <3>3
  <2>3. \A k \in 0 .. N : k \in Holds
    <3> HIDE DEF Holds
    <3>1. 0 \in Nat
      OBVIOUS
    <3> QED BY <1>1, <2>1, <2>2, <3>1, BoundedInduction
  <2> QED BY <2>3
<1>8. progress[N] \in D
  <2>1. N \in 0 .. N
    BY <1>1
  <2> QED BY <1>7, <2>1
<1> QED BY <1>2, <1>8 DEF Result

LEMMA StartIn ==
  ASSUME NEW text \in Seq(Chars), NEW after
  PROVE  SearchStart(text, after) \in ProgressIn(text)
BY CharIndexNat DEF SearchStart, ProgressIn

LEMMA StepIn ==
  ASSUME NEW text \in Seq(Chars), NEW q \in Queries, NEW last \in ProgressIn(text)
  PROVE  SearchStep(q, text, last) \in ProgressIn(text)
<1> DEFINE at == NextFound(q, text, last)
           to == at + Len(Needle(q))
           r == AddMatch(last, q, text, at, to)
<1>1. /\ Haystack(q, text) \in Seq(Chars) /\ (text = <<>> => Haystack(q, text) = <<>>)
      /\ Needle(q) \in Seq(Chars) /\ Needle(q) # <<>>
  BY SearchedText
<1>2. last.from \in Nat
  BY DEF ProgressIn
<1>3. at \in Int /\ (at >= 0 => Haystack(q, text) # <<>>)
  BY <1>1, <1>2, FindFacts DEF NextFound
<1> HIDE DEF at
<1>4. CASE at < 0
  BY <1>4 DEF SearchStep, at
<1>5. CASE ~ (at < 0)
  <2>1. at \in Nat /\ to \in Nat /\ at < to /\ text # <<>>
    BY <1>1, <1>3, <1>5
  <2>2. ResumeAt(at, to) \in Nat
    BY <2>1 DEF ResumeAt
  <2> HIDE DEF to
  <2>3. r \in [bytes : Nat, shortened : BOOLEAN, matches : Seq(MatchesIn(text))]
    BY <2>1, AddMatchFacts
  <2> HIDE DEF r
  <2>4. With(r, [from |-> ResumeAt(at, to)]) \in ProgressIn(text)
    BY <2>2, <2>3, WithFrom
  <2> QED BY <1>5, <2>4 DEF SearchStep, at, to, r
<1> QED BY <1>4, <1>5

\* Every match of a search that is not shortened is at its position.
LEMMA SearchPositions ==
  ASSUME NEW text \in Seq(Chars), NEW q \in Queries, NEW after
  PROVE  Search(q, text, after).matches \in Seq(MatchesIn(text))
<1> DEFINE D == ProgressIn(text)
<1>1. SearchStart(text, after) \in D /\ \A last \in D : SearchStep(q, text, last) \in D
  BY StartIn, StepIn
<1> HIDE DEF D
<1>2. \E result \in D : Search(q, text, after).matches = result.matches
  BY <1>1, SearchInduction
<1> QED BY <1>2 DEF D, ProgressIn

-----------------------------------------------------------------------------
(* Answers while the stream grows.                                         *)

\* Rows that are added only add text.
LEMMA JoinMore ==
  ASSUME NEW rows \in Rows, NEW more \in Rows
  PROVE  /\ TextOf(rows \o more) = TextOf(rows) \o TextOf(more)
         /\ TextOf(rows) \in Seq(Chars) /\ TextOf(more) \in Seq(Chars)
<1> DEFINE all == rows \o more
           m == Len(rows)
           n == Len(all)
<1>1. /\ rows \in Seq(Seq(Chars)) /\ more \in Seq(Seq(Chars)) /\ all \in Seq(Seq(Chars))
      /\ m \in Nat /\ n \in Nat /\ n = m + Len(more) /\ Len(more) \in Nat
      /\ m \in 0 .. n /\ n \in m .. n /\ n - m = Len(more)
      /\ \A i \in 1 .. m : all[i] = rows[i]
      /\ \A i \in 1 .. Len(more) : all[m + i] = more[i]
  BY DEF Rows
<1> HIDE DEF all
<1>2. SubSeq(all, 1, m) = rows
  <2>1. /\ SubSeq(all, 1, m) \in Seq(Seq(Chars)) /\ Len(SubSeq(all, 1, m)) = m
        /\ \A i \in 1 .. m : SubSeq(all, 1, m)[i] = all[i]
    BY <1>1, FirstRows
  <2>2. \A i \in 1 .. m : SubSeq(all, 1, m)[i] = rows[i]
    BY <1>1, <2>1
  <2> QED BY <1>1, <2>1, <2>2, SameSequence
<1>3. SubSeq(all, m + 1, n) = more
  <2>1. /\ SubSeq(all, m + 1, n) \in Seq(Seq(Chars)) /\ Len(SubSeq(all, m + 1, n)) = n - m
        /\ \A i \in 1 .. n - m : SubSeq(all, m + 1, n)[i] = all[m + i]
    BY <1>1, SomeRows
  <2>2. \A i \in 1 .. Len(more) : SubSeq(all, m + 1, n)[i] = more[i]
    BY <1>1, <2>1
  <2> HIDE DEF n
  <2> QED BY <1>1, <2>1, <2>2, SameSequence
<1>4. SubSeq(all, 1, n) = all
  BY <1>1
<1>5. TextOf(SubSeq(all, 1, m)) \o TextOf(SubSeq(all, m + 1, n)) = TextOf(SubSeq(all, 1, n))
  BY <1>1, JoinParts
<1> QED BY <1>1, <1>2, <1>3, <1>4, <1>5, JoinIsText DEF all

\* The text of a snapshot is the start of the text of the stream.
LEMMA SnapshotIsStart ==
  ASSUME stream \in Rows, NEW s \in 0 .. Len(stream)
  PROVE  \E rest \in Seq(Chars) :
           /\ TextOf(SubSeq(stream, 1, s)) \in Seq(Chars)
           /\ TextOf(stream) = TextOf(SubSeq(stream, 1, s)) \o rest
<1> DEFINE n == Len(stream)
           rest == TextOf(SubSeq(stream, s + 1, n))
<1>1. stream \in Seq(Seq(Chars)) /\ n \in Nat /\ n \in s .. n
  BY DEF Rows
<1>2. TextOf(SubSeq(stream, 1, s)) \in Seq(Chars) /\ rest \in Seq(Chars)
  BY <1>1, FirstRows, SomeRows, JoinIsText
<1>3. TextOf(SubSeq(stream, 1, s)) \o rest = TextOf(SubSeq(stream, 1, n))
  BY <1>1, JoinParts
<1>4. SubSeq(stream, 1, n) = stream
  BY <1>1
<1> QED BY <1>2, <1>3, <1>4

\* A position depends on these fields only.
LEMMA SamePosition ==
  ASSUME NEW text, NEW item, NEW other, PositionIn(text, item),
         other.text = item.text, other.start = item.start, other.end = item.end,
         other.lines = item.lines, other.shortened = item.shortened
  PROVE  PositionIn(text, other)
BY DEF PositionIn

\* Searches under way and answered are searches of the caller.
SearchInv ==
  /\ request # Nothing => (request.kind = "search" => request.query \in Queries)
  /\ answer # Nothing => (answer.request.kind = "search" => answer.request.query \in Queries)

\* The positions of an answer are true of a text.
AnswerIn(text, given) ==
  IF given.request.kind = "search"
    THEN \A n \in DOMAIN given.matches :
           given.matches[n].shortened \/ PositionIn(text, given.matches[n])
    ELSE PositionIn(text, given)

LEMMA PositionsAsOf == PositionsStayTrue <=> (answer # Nothing => AnswerIn(TextOf(stream), answer))
BY DEF PositionsStayTrue, AnswerIn, PositionIn, PositionIsTrue

LEMMA AnswerInLonger ==
  ASSUME NEW text \in Seq(Chars), NEW more \in Seq(Chars), NEW given, AnswerIn(text, given)
  PROVE  AnswerIn(text \o more, given)
BY PositionStays DEF AnswerIn

\* The positions of an answer are those of its snapshot.
LEMMA AnswerPositions ==
  ASSUME stream \in Rows, QueryInv, TailInv, SearchInv, AnswerSearch \/ AnswerTail \/ AnswerRange
  PROVE  SearchInv' /\ PositionsStayTrue'
<1> DEFINE snapshot == Snapshot(request.high_water)
           text == snapshot.text
<1>1. request.kind \in {"search", "tail", "range"}
  BY Zenon DEF AnswerSearch, AnswerTail, AnswerRange
<1>2. request # Nothing
  BY <1>1 DEF Nothing
<1>3. UNCHANGED stream /\ request' = Nothing
  BY DEF AnswerSearch, AnswerTail, AnswerRange, Answered
<1>4. PICK result :
        /\ Answering(snapshot, result)
        /\ request.kind = "search" => result = Search(request.query, text, request.after)
        /\ request.kind = "tail" => result = LastLines(request.lines, text)
        /\ request.kind = "range" => result = ByteRange(request.start, request.end, text)
  <2>1. CASE AnswerSearch
    <3>1. request.kind = "search"
      BY <2>1, Zenon DEF AnswerSearch
    <3>2. Answering(snapshot, Search(request.query, text, request.after))
      BY <2>1, Zenon DEF AnswerSearch
    <3> QED BY <3>1, <3>2
  <2>2. CASE AnswerTail
    <3>1. request.kind = "tail" /\ Answering(snapshot, LastLines(request.lines, text))
      BY <2>2, Zenon DEF AnswerTail
    <3> QED BY <3>1
  <2>3. CASE AnswerRange
    <3>1. request.kind = "range" /\ Answering(snapshot, ByteRange(request.start, request.end, text))
      BY <2>3, Zenon DEF AnswerRange
    <3> QED BY <3>1
  <2> QED BY <2>1, <2>2, <2>3
<1>5. /\ answer'["request"] = request /\ text \in Seq(Chars)
      /\ answer'["scanned"] = snapshot.scanned
      /\ text = TextOf(SubSeq(stream, 1, answer'["scanned"]))
      /\ \A f \in DOMAIN result :
           f \notin {"request", "high_water", "scanned", "partial"} => answer'[f] = result[f]
  BY <1>2, <1>4, AnswerFields
<1>6. snapshot.scanned \in 0 .. Len(stream)
  <2>1. request.high_water \in 0 .. Len(stream)
    BY <1>2 DEF QueryInv
  <2>2. snapshot.scanned \in 0 .. request.high_water
    BY <2>1, SnapshotFacts
  <2> HIDE DEF snapshot
  <2> QED BY <2>1, <2>2
<1> HIDE DEF snapshot
<1>7. PICK rest \in Seq(Chars) : TextOf(stream) = text \o rest
  BY <1>5, <1>6, SnapshotIsStart
<1> HIDE DEF text
<1>8. AnswerIn(text, answer')
  <2>1. CASE request.kind = "search"
    <3>1. "matches" \in DOMAIN result
      <4>1. \E a, b, c : Search(request.query, text, request.after)
                          = [matches |-> a, shortened |-> b, next |-> c]
        BY Zenon DEF Search
      <4> QED BY <1>4, <2>1, <4>1
    <3>2. answer'.matches = result.matches /\ answer'.request.kind = "search"
      BY <1>5, <2>1, <3>1
    <3>3. result.matches \in Seq(MatchesIn(text))
      BY <1>2, <1>4, <1>5, <2>1, SearchPositions DEF SearchInv
    <3>4. \A n \in DOMAIN result.matches :
            result.matches[n].shortened \/ PositionIn(text, result.matches[n])
      <4>1. ASSUME NEW n \in DOMAIN result.matches PROVE result.matches[n] \in MatchesIn(text)
        BY <3>3
      <4> QED BY <4>1 DEF MatchesIn
    <3> QED BY <3>2, <3>4 DEF AnswerIn
  <2>2. CASE request.kind \in {"tail", "range"}
    <3>1. DOMAIN result = {"text", "shortened", "start", "end", "lines"}
      <4>1. CASE request.kind = "tail"
        BY <1>4, <4>1 DEF LastLines
      <4>2. CASE request.kind = "range"
        BY <1>4, <4>2 DEF ByteRange
      <4> QED BY <2>2, <4>1, <4>2
    <3>2. /\ answer'["text"] = result["text"] /\ answer'["shortened"] = result["shortened"]
          /\ answer'["start"] = result["start"] /\ answer'["end"] = result["end"]
          /\ answer'["lines"] = result["lines"]
      BY <1>5, <3>1
    <3>3. PositionIn(text, result)
      <4>1. CASE request.kind = "tail"
        BY <1>2, <1>4, <1>5, <4>1, TailPosition DEF TailInv
      <4>2. CASE request.kind = "range"
        BY <1>4, <1>5, <4>2, RangePosition
      <4> QED BY <2>2, <4>1, <4>2
    <3>4. PositionIn(text, answer')
      BY <3>2, <3>3, SamePosition
    <3>5. answer'.request.kind # "search"
      BY <1>5, <2>2
    <3> QED BY <3>4, <3>5 DEF AnswerIn
  <2> QED BY <1>1, <2>1, <2>2
<1>9. AnswerIn(TextOf(stream), answer')
  BY <1>5, <1>7, <1>8, AnswerInLonger
<1>10. PositionsStayTrue'
  <2>1. answer' # Nothing => AnswerIn(TextOf(stream'), answer')
    BY <1>3, <1>9
  <2> QED BY <2>1 DEF PositionsStayTrue, AnswerIn, PositionIn, PositionIsTrue
<1>11. SearchInv'
  <2>1. answer'.request = request
    BY <1>5
  <2> QED BY <1>2, <1>3, <2>1 DEF SearchInv
<1> QED BY <1>10, <1>11

LEMMA AskedSearch ==
  ASSUME SearchInv, NEW r, Ask(r), "kind" \in DOMAIN r,
         r.kind = "search" => "query" \in DOMAIN r /\ r.query \in Queries
  PROVE  SearchInv' /\ PositionsStayTrue'
<1>1. request' = With(r, [high_water |-> Len(stream)]) /\ answer' = Nothing
  BY DEF Ask
<1>2. \A f \in DOMAIN r : request'[f] = r[f]
  BY <1>1 DEF With
<1>3. request'["kind"] = "search" => request'["query"] \in Queries
  BY <1>2
<1> QED BY <1>1, <1>3 DEF SearchInv, PositionsStayTrue

LEMMA PositionsStep ==
  ASSUME PageInv, QueryInv, TailInv, SearchInv, PositionsStayTrue, [Next]_vars
  PROVE  SearchInv' /\ PositionsStayTrue'
<1>1. CASE \E text \in Outputs : Ingest(text)
  <2>1. PICK text \in Outputs : Ingest(text)
    BY <1>1
  <2> DEFINE more == SplitChunks(text, ChunkBytes)
  <2>2. more \in Rows
    BY LimitAssumption, SplitIsRows
  <2>3. stream' = stream \o more /\ UNCHANGED <<request, answer>>
    BY <2>1 DEF Ingest, queries
  <2> HIDE DEF more
  <2>4. /\ TextOf(stream') = TextOf(stream) \o TextOf(more)
        /\ TextOf(stream) \in Seq(Chars) /\ TextOf(more) \in Seq(Chars)
    BY <2>2, <2>3, JoinMore DEF PageInv
  <2>5. answer # Nothing => AnswerIn(TextOf(stream), answer)
    BY PositionsAsOf
  <2>6. answer' # Nothing => AnswerIn(TextOf(stream'), answer')
    BY <2>3, <2>4, <2>5, AnswerInLonger
  <2>7. PositionsStayTrue'
    BY <2>6 DEF PositionsStayTrue, AnswerIn, PositionIn, PositionIsTrue
  <2> QED BY <2>3, <2>7 DEF SearchInv
<1>2. CASE EndExecution \/ Paging \/ UNCHANGED vars
  <2>1. UNCHANGED <<stream, request, answer>>
    BY <1>2 DEF EndExecution, Paging, ReadPage, FinishPage, queries, vars
  <2> QED BY <2>1 DEF SearchInv, PositionsStayTrue, PositionIsTrue
<1>3. CASE Querying
  <2>1. CASE \E q \in Queries : AskSearch(q)
    BY <2>1, AskedSearch DEF AskSearch
  <2>2. CASE \E lines \in Tails : AskTail(lines)
    BY <2>2, AskedSearch DEF AskTail
  <2>3. CASE \E r \in Ranges : AskRange(r)
    BY <2>3, AskedSearch DEF AskRange
  <2>4. CASE AskForMore
    <3>1. /\ answer.request.query \in Queries
          /\ Ask([kind |-> "search", query |-> answer.request.query, after |-> answer.next])
      BY <2>4 DEF AskForMore, SearchInv
    <3> QED BY <3>1, AskedSearch
  <2>5. CASE AnswerSearch \/ AnswerTail \/ AnswerRange
    BY <2>5, AnswerPositions DEF PageInv
  <2> QED BY <1>3, <2>1, <2>2, <2>3, <2>4, <2>5 DEF Querying
<1> QED BY <1>1, <1>2, <1>3 DEF Next, Ingestion

LEMMA PositionsHold == Spec => [](TailInv /\ AnswersAreWhole /\ SearchInv /\ PositionsStayTrue)
<1>1. Init => TailInv /\ AnswersAreWhole /\ SearchInv /\ PositionsStayTrue
  BY DEF Init, TailInv, AnswersAreWhole, SearchInv, PositionsStayTrue
<1>2. PageInv /\ FlagsOK /\ QueryInv /\ TailInv /\ AnswersAreWhole /\ [Next]_vars
        => (TailInv /\ AnswersAreWhole)'
  BY AnswersStep
<1>3. PageInv /\ FlagsOK /\ QueryInv /\ TailInv /\ SearchInv /\ PositionsStayTrue /\ [Next]_vars
        => (SearchInv /\ PositionsStayTrue)'
  BY PositionsStep
<1> QED BY <1>1, <1>2, <1>3, PagesHold, PTL DEF Spec

\* Byte offsets and line numbers of an answer are true of the stream, and stay so
\* while it grows: of a search with its continuations, a tail and a range.
THEOREM TruePositions == Spec => []PositionsStayTrue
BY PositionsHold, PTL

-----------------------------------------------------------------------------
(* Occurrences.                                                            *)

\* The occurrences that SearchFindsAll expects: from left to right, without overlaps.
Matched(q, text) ==
  LET matched[i \in 0 .. Len(text)] ==
        Occurs(q, text, i) /\ \A j \in 0 .. i - 1 : matched[j] => j + Len(q.query) <= i
  IN {i \in 0 .. Len(text) : matched[i]}

LEMMA MatchedFacts ==
  ASSUME NEW text \in Seq(Chars), NEW q
  PROVE  /\ Matched(q, text) \subseteq 0 .. Len(text)
         /\ \A i \in 0 .. Len(text) :
              i \in Matched(q, text)
                <=> Occurs(q, text, i) /\ \A j \in 0 .. i - 1 :
                                            j \in Matched(q, text) => j + Len(q.query) <= i
<1> DEFINE n == Len(text)
           m == Len(q.query)
           Recursion(f) == f = [i \in 0 .. n |->
             Occurs(q, text, i) /\ \A j \in 0 .. i - 1 : f[j] => j + m <= i]
           matched == CHOOSE f : Recursion(f)
           D == SUBSET (0 .. n)
           Fits(S, i) == Occurs(q, text, i) /\ \A j \in S : j + m <= i
           Step == [x \in D \X (1 .. n + 1) |->
             IF Fits(x[1], x[2] - 1) THEN x[1] \cup {x[2] - 1} ELSE x[1]]
<1>1. n \in Nat /\ n + 1 \in Nat
  OBVIOUS
<1> HIDE DEF n
<1>2. Step \in [D \X (1 .. n + 1) -> D]
  <2>1. \A i \in 1 .. n + 1 : i - 1 \in 0 .. n
    BY <1>1
  <2> HIDE DEF Fits
  <2> QED BY <2>1
<1>3. PICK g \in [0 .. n + 1 -> D] : g[0] = {} /\ \A i \in 1 .. n + 1 : g[i] = Step[<<g[i - 1], i>>]
  <2> HIDE DEF Step, D
  <2>1. Iterates(D) /\ {} \in D
    BY EveryStepIterates DEF D
  <2>2. \A S \in [D \X (1 .. n + 1) -> D] : \E g \in [0 .. n + 1 -> D] :
          g[0] = {} /\ \A i \in 1 .. n + 1 : g[i] = S[<<g[i - 1], i>>]
    BY <1>1, <2>1, Zenon DEF Iterates
  <2> QED BY <1>2, <2>2, Zenon
<1>4. ASSUME NEW i \in 1 .. n + 1
      PROVE  g[i] = IF Fits(g[i - 1], i - 1) THEN g[i - 1] \cup {i - 1} ELSE g[i - 1]
  <2>1. g[i - 1] \in D
    <3>1. i - 1 \in 0 .. n + 1
      BY <1>1
    <3> QED BY <1>3, <3>1
  <2> DEFINE x == <<g[i - 1], i>>
  <2>2. x \in D \X (1 .. n + 1) /\ x[1] = g[i - 1] /\ x[2] = i
    BY <2>1
  <2>3. g[i] = Step[x]
    BY <1>3
  <2> HIDE DEF x, Fits
  <2>4. Step[x] = IF Fits(x[1], x[2] - 1) THEN x[1] \cup {x[2] - 1} ELSE x[1]
    BY <2>2
  <2> QED BY <2>2, <2>3, <2>4
<1> HIDE DEF Step
\* What was added stays, and nothing is added below.
<1>5. \A i \in 0 .. n + 1 : g[i] \subseteq 0 .. i - 1
  <2> DEFINE Holds == {i \in 0 .. n + 1 : g[i] \subseteq 0 .. i - 1}
  <2>1. 0 \in Holds
    BY <1>1, <1>3
  <2>2. ASSUME NEW k \in 0 + 1 .. n + 1, k - 1 \in Holds PROVE k \in Holds
    <3>1. k \in 1 .. n + 1 /\ k \in 0 .. n + 1 /\ k - 1 \in 0 .. k - 1
      BY <1>1
    <3>2. g[k - 1] \subseteq 0 .. (k - 1) - 1
      BY <2>2
    <3>3. g[k - 1] \subseteq 0 .. k - 1
      BY <3>1, <3>2
    <3> HIDE DEF Fits
    <3>4. g[k] \subseteq g[k - 1] \cup {k - 1}
      BY <1>4, <3>1
    <3> QED BY <3>1, <3>3, <3>4
  <2>3. \A k \in 0 .. n + 1 : k \in Holds
    <3>1. 0 \in Nat
      OBVIOUS
    <3> HIDE DEF Holds
    <3> QED BY <1>1, <2>1, <2>2, <3>1, BoundedInduction
  <2> QED BY <2>3
<1>6. \A i \in 0 .. n + 1 : \A k \in i .. n + 1 : \A j \in 0 .. i - 1 : j \in g[k] <=> j \in g[i]
  <2> SUFFICES ASSUME NEW i \in 0 .. n + 1, NEW j \in 0 .. i - 1
               PROVE  \A k \in i .. n + 1 : j \in g[k] <=> j \in g[i]
    BY <1>1
  <2> DEFINE Holds == {k \in i .. n + 1 : j \in g[k] <=> j \in g[i]}
  <2>1. i \in Holds
    BY <1>1
  <2>2. ASSUME NEW k \in i + 1 .. n + 1, k - 1 \in Holds PROVE k \in Holds
    <3>1. k \in 1 .. n + 1 /\ k \in i .. n + 1 /\ j # k - 1
      BY <1>1
    <3> HIDE DEF Fits
    <3>2. j \in g[k] <=> j \in g[k - 1]
      BY <1>4, <3>1
    <3> QED BY <2>2, <3>1, <3>2
  <2>3. i \in Nat
    OBVIOUS
  <2> HIDE DEF Holds
  <2>4. \A k \in i .. n + 1 : k \in Holds
    BY <1>1, <2>1, <2>2, <2>3, BoundedInduction
  <2> QED BY <2>4 DEF Holds
<1> DEFINE S == g[n + 1]
<1>7. ASSUME NEW i \in 0 .. n
      PROVE  i \in S <=> Occurs(q, text, i) /\ \A j \in 0 .. i - 1 : j \in S => j + m <= i
  <2>1. i + 1 \in 1 .. n + 1 /\ (i + 1) - 1 = i /\ i + 1 \in 0 .. n + 1 /\ n + 1 \in i + 1 .. n + 1
        /\ i \in 0 .. (i + 1) - 1 /\ i \in 0 .. n + 1 /\ n + 1 \in i .. n + 1 /\ i \notin 0 .. i - 1
    BY <1>1
  <2>2. i \in S <=> i \in g[i + 1]
    BY <1>6, <2>1
  <2>3. g[i + 1] = IF Fits(g[i], i) THEN g[i] \cup {i} ELSE g[i]
    <3> HIDE DEF Fits
    <3> QED BY <1>4, <2>1
  <2>4. i \notin g[i] /\ g[i] \subseteq 0 .. i - 1
    BY <1>5, <2>1
  <2>5. i \in S <=> Fits(g[i], i)
    <3> HIDE DEF Fits
    <3> QED BY <2>2, <2>3, <2>4
  <2>6. \A j \in 0 .. i - 1 : j \in S <=> j \in g[i]
    BY <1>6, <2>1
  <2>7. (\A j \in g[i] : j + m <= i) <=> (\A j \in 0 .. i - 1 : j \in S => j + m <= i)
    BY <2>4, <2>6
  <2> QED BY <2>5, <2>7
<1>8. Recursion([i \in 0 .. n |-> i \in S])
  <2> DEFINE f == [i \in 0 .. n |-> i \in S]
  <2>1. ASSUME NEW i \in 0 .. n
        PROVE  f[i] = (Occurs(q, text, i) /\ \A j \in 0 .. i - 1 : f[j] => j + m <= i)
    <3>1. \A j \in 0 .. i - 1 : j \in 0 .. n
      BY <1>1
    <3>2. \A j \in 0 .. i - 1 : f[j] <=> j \in S
      BY <3>1
    <3>3. f[i] <=> Occurs(q, text, i) /\ \A j \in 0 .. i - 1 : j \in S => j + m <= i
      BY <1>7
    <3> HIDE DEF S
    <3>4. f[i] \in BOOLEAN
      OBVIOUS
    <3> QED BY <3>2, <3>3, <3>4
  <2> HIDE DEF S
  <2> QED BY <2>1
<1>9. Recursion(matched)
  <2> HIDE DEF Recursion, S
  <2> QED BY <1>8
<1>10. Matched(q, text) = {i \in 0 .. n : matched[i]}
  BY DEF Matched, n
<1> HIDE DEF matched
<1>11. ASSUME NEW i \in 0 .. n
       PROVE  matched[i] <=> Occurs(q, text, i) /\ \A j \in 0 .. i - 1 : matched[j] => j + m <= i
  BY <1>9
<1>12. \A i \in 0 .. n : \A j \in 0 .. i - 1 : j \in 0 .. n
  BY <1>1
<1> QED BY <1>10, <1>11, <1>12 DEF n

\* Occurrences before p are the same in a longer text, when one fits behind p.
LEMMA MatchedStays ==
  ASSUME NEW text \in Seq(Chars), NEW more \in Seq(Chars), NEW q \in Queries,
         NEW p \in Nat, p + Len(q.query) <= Len(text)
  PROVE  \A i \in 0 .. p : /\ Occurs(q, text \o more, i) <=> Occurs(q, text, i)
                           /\ i \in Matched(q, text \o more) <=> i \in Matched(q, text)
<1> DEFINE all == text \o more
           n == Len(text)
           m == Len(q.query)
           S == Matched(q, text)
           A == Matched(q, all)
<1>1. /\ all \in Seq(Chars) /\ n \in Nat /\ Len(all) \in Nat /\ n <= Len(all)
      /\ \A k \in 1 .. n : all[k] = text[k]
  BY LongerText
<1>2. m \in Nat /\ p + m <= n /\ DOMAIN q.query = 1 .. m
  <2>1. q.query \in Seq(Chars)
    BY LimitAssumption
  <2> QED BY <2>1
<1> HIDE DEF all, n, m
<1>3. ASSUME NEW i \in 0 .. p PROVE Occurs(q, all, i) <=> Occurs(q, text, i)
  <2>1. i + m <= n /\ i + m <= Len(all)
    BY <1>1, <1>2
  <2>2. ASSUME NEW k \in 1 .. m PROVE all[i + k] = text[i + k]
    <3>1. i + k \in 1 .. n
      BY <1>1, <1>2, <2>1
    <3> QED BY <1>1, <3>1
  <2>3. \A k \in DOMAIN q.query : all[i + k] = text[i + k]
    BY <1>2, <2>2
  <2> QED BY <2>1, <2>3 DEF Occurs, n, m
<1>4. /\ \A i \in 0 .. p : i \in S <=> Occurs(q, text, i) /\ \A j \in 0 .. i - 1 : j \in S => j + m <= i
      /\ \A i \in 0 .. p : i \in A <=> Occurs(q, all, i) /\ \A j \in 0 .. i - 1 : j \in A => j + m <= i
  <2>1. \A i \in 0 .. p : i \in 0 .. n /\ i \in 0 .. Len(all)
    BY <1>1, <1>2
  <2>2. \A i \in 0 .. n : i \in S <=> Occurs(q, text, i) /\ \A j \in 0 .. i - 1 : j \in S => j + m <= i
    BY MatchedFacts DEF n, m
  <2>3. \A i \in 0 .. Len(all) : i \in A <=> Occurs(q, all, i) /\ \A j \in 0 .. i - 1 : j \in A => j + m <= i
    BY <1>1, MatchedFacts DEF m
  <2> HIDE DEF S, A
  <2>4. \A i \in 0 .. p : i \in S <=> Occurs(q, text, i) /\ \A j \in 0 .. i - 1 : j \in S => j + m <= i
    BY <2>1, <2>2, Zenon
  <2>5. \A i \in 0 .. p : i \in A <=> Occurs(q, all, i) /\ \A j \in 0 .. i - 1 : j \in A => j + m <= i
    BY <2>1, <2>3, Zenon
  <2> QED BY <2>4, <2>5
<1> HIDE DEF S, A
<1>5. \A i \in 0 .. p : i \in A <=> i \in S
  <2> DEFINE T == {i \in 0 .. p : ~ (i \in A <=> i \in S)}
  <2>1. ASSUME T # {} PROVE FALSE
    <3>1. T \subseteq Nat
      OBVIOUS
    <3>2. PICK i \in T : \A j \in T : i <= j
      <4> HIDE DEF T
      <4> QED BY <2>1, <3>1, LeastElement
    <3>3. i \in 0 .. p /\ ~ (i \in A <=> i \in S)
      OBVIOUS
    <3>4. ASSUME NEW j \in 0 .. i - 1 PROVE j \in A <=> j \in S
      <4>1. j \in 0 .. p /\ ~ (i <= j)
        BY <3>3
      <4>2. j \notin T
        BY <3>2, <4>1
      <4> QED BY <4>1, <4>2
    <3> QED BY <1>3, <1>4, <3>3, <3>4
  <2> QED BY <2>1
<1> QED BY <1>3, <1>5 DEF A, S, all

\* Lower case that keeps every character one character.
OneByOne == \A c \in Chars : Len(Lower[c]) = 1

LEMMA JoinedItems ==
  ASSUME NEW s \in Seq(Chars), NEW t \in Seq(Chars)
  PROVE  /\ Len(s \o t) = Len(s) + Len(t)
         /\ \A i \in 1 .. Len(s) + Len(t) :
              (s \o t)[i] = IF i <= Len(s) THEN s[i] ELSE t[i - Len(s)]
OBVIOUS

LEMMA JoinOne ==
  ASSUME NEW s \in Seq(Chars), NEW t \in Seq(Chars), Len(t) = 1
  PROVE  /\ Len(s \o t) = Len(s) + 1 /\ (s \o t)[Len(s) + 1] = t[1]
         /\ \A i \in 1 .. Len(s) : (s \o t)[i] = s[i]
<1> DEFINE n == Len(s)
           both == s \o t
<1>1. /\ Len(both) = n + 1
      /\ \A i \in 1 .. n + 1 : both[i] = IF i <= n THEN s[i] ELSE t[i - n]
  BY JoinedItems
<1>2. /\ n \in Nat /\ n + 1 \in 1 .. n + 1 /\ ~ (n + 1 <= n) /\ (n + 1) - n = 1
      /\ \A i \in 1 .. n : i \in 1 .. n + 1 /\ i <= n
  OBVIOUS
<1> HIDE DEF n, both
<1>3. both[n + 1] = t[1]
  BY <1>1, <1>2
<1>4. \A i \in 1 .. n : both[i] = s[i]
  BY <1>1, <1>2
<1> QED BY <1>1, <1>3, <1>4 DEF n, both

LEMMA LowerOneByOne ==
  ASSUME OneByOne, NEW text \in Seq(Chars)
  PROVE  /\ Len(LowerText(text)) = Len(text)
         /\ \A k \in 1 .. Len(text) : <<LowerText(text)[k]>> = Lower[text[k]]
<1> DEFINE rows == [i \in DOMAIN text |-> Lower[text[i]]]
           n == Len(text)
           Joined(k) == TextOf(SubSeq(rows, 1, k))
           Right(k) == Len(Joined(k)) = k /\ \A i \in 1 .. k : <<Joined(k)[i]>> = rows[i]
           Holds == {k \in 0 .. n : Right(k)}
<1>1. DOMAIN text = 1 .. n /\ n \in Nat /\ \A i \in 1 .. n : text[i] \in Chars
  OBVIOUS
<1>2. \A c \in Chars : Lower[c] \in Seq(Chars) /\ Len(Lower[c]) = 1
  BY TextAssumption, Zenon DEF OneByOne
<1>3. /\ rows \in Seq(Seq(Chars)) /\ Len(rows) = n
      /\ \A i \in 1 .. n : Len(rows[i]) = 1 /\ rows[i] = Lower[text[i]] /\ rows[i] \in Seq(Chars)
  BY <1>1, <1>2
<1>4. LowerText(text) = TextOf(rows)
  BY DEF LowerText, TextOf
<1> HIDE DEF rows
<1>5. \A k \in 0 .. n : Joined(k) \in Seq(Chars)
  BY <1>3, FirstRows, JoinIsText
<1>6. \A k \in 1 .. n : Joined(k) = Joined(k - 1) \o rows[k]
  BY <1>3, JoinNext
<1>7. Joined(0) = <<>>
  <2>1. SubSeq(rows, 1, 0) = <<>>
    BY <1>3
  <2> QED BY <2>1, JoinNothing
<1> HIDE DEF Joined
<1>8. 0 \in Holds
  BY <1>1, <1>7
<1>9. ASSUME NEW k \in 0 + 1 .. n, k - 1 \in Holds PROVE k \in Holds
  <2> DEFINE before == Joined(k - 1)
             row == rows[k]
             now == before \o row
  <2>1. k \in 1 .. n /\ k \in 0 .. n /\ k - 1 \in 0 .. n /\ k \in Nat
    BY <1>1
  <2>2. /\ before \in Seq(Chars) /\ Len(before) = k - 1
        /\ \A i \in 1 .. k - 1 : <<before[i]>> = rows[i]
    BY <1>5, <1>9, <2>1
  <2>3. row \in Seq(Chars) /\ Len(row) = 1 /\ <<row[1]>> = row
    BY <1>3, <2>1
  <2>4. Joined(k) = now
    BY <1>6, <2>1
  <2> HIDE DEF before, row
  <2>5. /\ Len(now) = k /\ now[k] = row[1]
        /\ \A i \in 1 .. k - 1 : now[i] = before[i]
    <3>1. /\ Len(now) = Len(before) + 1 /\ now[Len(before) + 1] = row[1]
          /\ \A i \in 1 .. Len(before) : now[i] = before[i]
      BY <2>2, <2>3, JoinOne
    <3>2. Len(before) + 1 = k
      BY <2>1, <2>2
    <3> HIDE DEF now
    <3> QED BY <2>2, <3>1, <3>2
  <2> HIDE DEF now
  <2>6. ASSUME NEW i \in 1 .. k PROVE <<now[i]>> = rows[i]
    <3>1. CASE i = k
      BY <2>3, <2>5, <3>1 DEF row
    <3>2. CASE i # k
      <4>1. i \in 1 .. k - 1
        BY <2>1, <3>2
      <4> QED BY <2>2, <2>5, <4>1
    <3> QED BY <3>1, <3>2
  <2> QED BY <2>1, <2>4, <2>5, <2>6
<1>10. Right(n)
  <2>1. \A k \in 0 .. n : k \in Holds
    <3>1. 0 \in Nat
      OBVIOUS
    <3> HIDE DEF Holds, n
    <3> QED BY <1>1, <1>8, <1>9, <3>1, BoundedInduction
  <2>2. n \in 0 .. n
    BY <1>1
  <2> HIDE DEF n
  <2> QED BY <2>1, <2>2
<1>11. SubSeq(rows, 1, n) = rows
  BY <1>3
<1>12. LowerText(text) = Joined(n)
  BY <1>4, <1>11 DEF Joined
<1> QED BY <1>3, <1>10, <1>12

LEMMA FoundIsOccurrence ==
  ASSUME OneByOne, NEW text \in Seq(Chars), NEW q \in Queries, NEW i \in 0 .. Len(text)
  PROVE  /\ Len(Haystack(q, text)) = Len(text) /\ Len(Needle(q)) = Len(q.query)
         /\ Occurs(q, text, i) <=>
              i + Len(q.query) <= Len(text)
              /\ Slice(Haystack(q, text), i, i + Len(q.query)) = Needle(q)
<1> DEFINE m == Len(q.query)
           hay == Haystack(q, text)
           needle == Needle(q)
           n == Len(text)
<1>1. /\ q.query \in Seq(Chars) /\ m \in Nat /\ m # 0 /\ DOMAIN q.query = 1 .. m
      /\ hay \in Seq(Chars) /\ needle \in Seq(Chars) /\ n \in Nat /\ i \in Nat
  <2>1. /\ q.query \in Seq(Chars) /\ m \in Nat /\ m # 0
        /\ hay \in Seq(Chars) /\ needle \in Seq(Chars)
    BY SearchedText
  <2>2. DOMAIN q.query = 1 .. m
    BY <2>1
  <2> QED BY <2>1, <2>2
<1>2. /\ Len(hay) = n /\ Len(needle) = m
      /\ q.case_sensitive => hay = text /\ needle = q.query
      /\ ~q.case_sensitive => /\ \A k \in 1 .. n : <<hay[k]>> = Lower[text[k]]
                              /\ \A k \in 1 .. m : <<needle[k]>> = Lower[q.query[k]]
  <2>1. CASE q.case_sensitive
    BY <2>1 DEF Haystack, Needle
  <2>2. CASE ~q.case_sensitive
    BY <1>1, <2>2, LowerOneByOne DEF Haystack, Needle
  <2> QED BY <2>1, <2>2
<1> HIDE DEF hay, needle, m
<1>3. ASSUME i + m <= n
      PROVE  Slice(hay, i, i + m) = needle <=> \A k \in 1 .. m : hay[i + k] = needle[k]
  <2> DEFINE slice == Slice(hay, i, i + m)
  <2>1. i + m \in Int /\ i + m <= Len(hay) /\ i <= i + m /\ (i + m) - i = m
    BY <1>1, <1>2, <1>3
  <2>2. /\ slice \in Seq(Chars)
        /\ i <= i + m => /\ Len(slice) = (i + m) - i
                         /\ \A k \in 1 .. (i + m) - i : slice[k] = hay[i + k]
    BY <1>1, <2>1, SliceFacts, Zenon
  <2>3. slice \in Seq(Chars) /\ Len(slice) = m /\ \A k \in 1 .. m : slice[k] = hay[i + k]
    BY <2>1, <2>2
  <2> HIDE DEF slice
  <2>4. ASSUME \A k \in 1 .. m : hay[i + k] = needle[k] PROVE slice = needle
    <3>1. \A k \in 1 .. m : slice[k] = needle[k]
      BY <2>3, <2>4
    <3> QED BY <1>1, <1>2, <2>3, <3>1, SameSequence
  <2> QED BY <2>3, <2>4 DEF slice
<1>4. ASSUME i + m <= n, NEW k \in 1 .. m
      PROVE  hay[i + k] = needle[k]
               <=> IF q.case_sensitive THEN text[i + k] = q.query[k]
                   ELSE Lower[text[i + k]] = Lower[q.query[k]]
  <2>1. i + k \in 1 .. n
    BY <1>1, <1>4
  <2>2. CASE q.case_sensitive
    BY <1>2, <2>2
  <2>3. CASE ~q.case_sensitive
    <3>1. <<hay[i + k]>> = Lower[text[i + k]] /\ <<needle[k]>> = Lower[q.query[k]]
      BY <1>2, <2>1, <2>3
    <3>2. hay[i + k] = needle[k] <=> <<hay[i + k]>> = <<needle[k]>>
      OBVIOUS
    <3> QED BY <2>3, <3>1, <3>2
  <2> QED BY <2>2, <2>3
<1>5. Occurs(q, text, i) <=>
        /\ i + m <= n
        /\ \A k \in 1 .. m : IF q.case_sensitive THEN text[i + k] = q.query[k]
                            ELSE Lower[text[i + k]] = Lower[q.query[k]]
  BY <1>1, Zenon DEF Occurs, m
<1>6. Occurs(q, text, i) <=> i + m <= n /\ Slice(hay, i, i + m) = needle
  BY <1>3, <1>4, <1>5
<1> QED BY <1>2, <1>6 DEF hay, needle, m

-----------------------------------------------------------------------------
(* The next occurrence.                                                    *)

\* str.find gives the first occurrence from a character on.
LEMMA FindsFirst ==
  ASSUME OneByOne, NEW text \in Seq(Chars), NEW q \in Queries, NEW from \in Nat,
         NEW at, at = Find(Haystack(q, text), Needle(q), from)
  PROVE  /\ at \in Int
         /\ at < 0 => \A i \in from .. Len(text) : ~ Occurs(q, text, i)
         /\ at >= 0 => /\ at \in from .. Len(text) /\ at + Len(q.query) <= Len(text)
                       /\ Occurs(q, text, at)
                       /\ \A i \in from .. at - 1 : ~ Occurs(q, text, i)
<1> DEFINE m == Len(q.query)
           n == Len(text)
           hay == Haystack(q, text)
           needle == Needle(q)
           starts == {i \in from .. n - m : Slice(hay, i, i + m) = needle}
<1>1. m \in Nat /\ n \in Nat /\ m # 0
  BY SearchedText
<1>2. Len(hay) = n /\ Len(needle) = m
  <2>1. 0 \in 0 .. n
    BY <1>1
  <2> QED BY <2>1, FoundIsOccurrence
<1>3. at = IF starts = {} THEN -1 ELSE Min(starts)
  BY <1>2 DEF Find
<1>4. ASSUME NEW i \in from .. n
      PROVE  Occurs(q, text, i) <=> i \in starts
  <2>1. i \in 0 .. n
    BY <1>1
  <2>2. Occurs(q, text, i) <=> i + m <= n /\ Slice(hay, i, i + m) = needle
    BY <2>1, FoundIsOccurrence
  <2>3. i + m <= n <=> i \in from .. n - m
    BY <1>1, <2>1
  <2> QED BY <2>2, <2>3
<1>5. starts \subseteq from .. n - m
  OBVIOUS
<1> HIDE DEF starts, m, n
<1>6. CASE starts = {}
  BY <1>3, <1>4, <1>6 DEF n
<1>7. CASE starts # {}
  <2>1. at \in starts /\ \A i \in starts : at <= i
    <3>1. from \in Int /\ n - m \in Int
      BY <1>1
    <3>2. Min(starts) \in starts /\ \A i \in starts : Min(starts) <= i
      BY <1>5, <1>7, <3>1, MinFacts
    <3> QED BY <1>3, <1>7, <3>2
  <2>2. at \in from .. n - m /\ at \in from .. n /\ at + m <= n /\ at >= 0
    BY <1>1, <1>5, <2>1
  <2>3. Occurs(q, text, at)
    BY <1>4, <2>1, <2>2
  <2>4. ASSUME NEW i \in from .. at - 1 PROVE ~ Occurs(q, text, i)
    <3>1. i \in from .. n /\ ~ (at <= i)
      BY <1>1, <2>2
    <3> QED BY <1>4, <2>1, <3>1
  <2> QED BY <2>2, <2>3, <2>4 DEF m, n
<1> QED BY <1>6, <1>7

\* No match reaches over p.
Between(q, text, p) ==
  \A j \in Matched(q, text) : j < p => j + Len(q.query) <= p

\* From between two matches, the next occurrence is the next match.
LEMMA NextMatch ==
  ASSUME OneByOne, NEW text \in Seq(Chars), NEW q \in Queries,
         NEW p \in 0 .. Len(text), Between(q, text, p),
         NEW at, at = Find(Haystack(q, text), Needle(q), p)
  PROVE  /\ at \in Int
         /\ at < 0 => \A j \in Matched(q, text) : j < p
         /\ at >= 0 => /\ at \in Matched(q, text) /\ at \in p .. Len(text)
                       /\ at + Len(q.query) \in p .. Len(text)
                       /\ Between(q, text, at) /\ Between(q, text, at + Len(q.query))
                       /\ \A j \in Matched(q, text) : j < at <=> j < p
                       /\ \A j \in Matched(q, text) : j < at + Len(q.query) <=> j < p \/ j = at
<1> DEFINE m == Len(q.query)
           n == Len(text)
           S == Matched(q, text)
<1>1. m \in Nat /\ n \in Nat /\ m # 0 /\ p \in Nat /\ p <= n
  BY SearchedText
<1>2. /\ S \subseteq 0 .. n
      /\ \A i \in 0 .. n : i \in S <=> Occurs(q, text, i) /\ \A j \in 0 .. i - 1 : j \in S => j + m <= i
  BY MatchedFacts
<1>3. /\ at \in Int
      /\ at < 0 => \A i \in p .. n : ~ Occurs(q, text, i)
      /\ at >= 0 => /\ at \in p .. n /\ at + m <= n /\ Occurs(q, text, at)
                    /\ \A i \in p .. at - 1 : ~ Occurs(q, text, i)
  BY <1>1, FindsFirst
<1>4. \A j \in S : j < p => j + m <= p
  BY DEF Between
<1> HIDE DEF S, m, n
<1>5. \A j \in S : j \in Nat /\ j \in 0 .. n /\ Occurs(q, text, j)
  BY <1>1, <1>2
<1>6. CASE at < 0
  <2>1. ASSUME NEW j \in S PROVE j < p
    <3>1. j \in p .. n => ~ Occurs(q, text, j)
      BY <1>3, <1>6
    <3> QED BY <1>1, <1>5, <3>1
  <2>2. ~ (at >= 0)
    BY <1>3, <1>6
  <2> QED BY <1>3, <2>1, <2>2 DEF S
<1>7. CASE ~ (at < 0)
  <2>1. /\ at \in Nat /\ at \in p .. n /\ at \in 0 .. n /\ at + m <= n /\ at + m \in p .. n
        /\ Occurs(q, text, at) /\ \A i \in p .. at - 1 : ~ Occurs(q, text, i)
    BY <1>1, <1>3, <1>7
  <2>2. ASSUME NEW j \in S, j < at PROVE j < p
    <3>1. j \in p .. at - 1 => ~ Occurs(q, text, j)
      BY <2>1
    <3> QED BY <1>1, <1>5, <2>1, <2>2, <3>1
  <2>3. \A j \in S : j < at <=> j < p
    BY <1>1, <1>5, <2>1, <2>2
  <2>4. \A j \in S : j < at => j + m <= at
    BY <1>1, <1>4, <1>5, <2>1, <2>2
  <2>5. at \in S
    <3>1. ASSUME NEW j \in 0 .. at - 1, j \in S PROVE j + m <= at
      BY <2>1, <2>4, <3>1
    <3> QED BY <1>2, <2>1, <3>1
  <2>6. ASSUME NEW j \in S, j < at + m PROVE j <= at
    <3>1. CASE at < j
      <4>1. at \in 0 .. j - 1
        BY <1>5, <2>1, <3>1
      <4>2. at + m <= j
        BY <1>2, <1>5, <2>5, <4>1
      <4> QED BY <1>1, <1>5, <2>1, <2>6, <4>2
    <3> QED BY <1>5, <2>1, <3>1
  <2>7. \A j \in S : j < at + m <=> j < p \/ j = at
    BY <1>1, <1>5, <2>1, <2>2, <2>6
  <2>8. \A j \in S : j < at + m => j + m <= at + m
    BY <1>1, <1>5, <2>1, <2>6
  <2>9. ~ (at < 0)
    BY <1>7
  <2> QED BY <1>3, <2>1, <2>3, <2>4, <2>5, <2>7, <2>8, <2>9 DEF Between, S, m, n
<1> QED BY <1>6, <1>7

\* The ranges of the matches before a character, and a list of them, each once.
Spans == Nat \X Nat

Expected(q, text, p) ==
  {<<BytesBefore(text, i), BytesBefore(text, i + Len(q.query))>> : i \in {j \in Matched(q, text) : j < p}}

Lists(list, q, text, p) ==
  /\ Between(q, text, p) /\ list \in Seq(Spans)
  /\ Range(list) = Expected(q, text, p) /\ Len(list) = Cardinality(Expected(q, text, p))

LEMMA MatchRange ==
  ASSUME NEW text \in Seq(Chars), NEW q \in Queries, NEW j \in Matched(q, text)
  PROVE  /\ j \in 0 .. Len(text) /\ j + Len(q.query) \in 0 .. Len(text)
         /\ BytesBefore(text, j) \in 0 .. Bytes(text)
         /\ BytesBefore(text, j + Len(q.query)) \in 0 .. Bytes(text)
<1> DEFINE m == Len(q.query)
           n == Len(text)
<1>1. m \in Nat /\ n \in Nat /\ n \in 0 .. n
  BY SearchedText
<1>2. j \in 0 .. n /\ Occurs(q, text, j)
  BY MatchedFacts
<1>3. j + m <= n
  BY <1>2 DEF Occurs
<1>4. j + m \in 0 .. n /\ n \in j .. n /\ n \in j + m .. n
  BY <1>1, <1>2, <1>3
<1> HIDE DEF m, n
<1>5. BytesBefore(text, j) \in Nat /\ BytesBefore(text, j + m) \in Nat /\ BytesBefore(text, n) \in Nat
  BY <1>1, <1>2, <1>4, BytesDef DEF n
<1>6. BytesBefore(text, j) <= BytesBefore(text, n) /\ BytesBefore(text, j + m) <= BytesBefore(text, n)
  BY <1>1, <1>2, <1>4, BytesOrder DEF n
<1> QED BY <1>2, <1>4, <1>5, <1>6 DEF m, n, Bytes

LEMMA ExpectedFinite ==
  ASSUME NEW text \in Seq(Chars), NEW q \in Queries, NEW p
  PROVE  /\ IsFiniteSet(Expected(q, text, p)) /\ Cardinality(Expected(q, text, p)) \in Nat
         /\ Expected(q, text, p) \subseteq Spans
<1> DEFINE B == 0 .. Bytes(text)
           Pair(j) == <<BytesBefore(text, j), BytesBefore(text, j + Len(q.query))>>
<1>1. Bytes(text) \in Nat
  <2>1. Len(text) \in 0 .. Len(text)
    OBVIOUS
  <2> QED BY <2>1, BytesDef DEF Bytes
<1>2. IsFiniteSet(B \X B)
  <2>1. IsFiniteSet(B)
    BY <1>1, FS_Interval
  <2> QED BY <2>1, FS_Product
<1>3. \A j \in Matched(q, text) : Pair(j) \in B \X B
  BY MatchRange
<1>4. Expected(q, text, p) \subseteq B \X B
  BY <1>3 DEF Expected
<1>5. B \X B \subseteq Spans
  BY <1>1 DEF Spans
<1> HIDE DEF B
<1>6. IsFiniteSet(Expected(q, text, p))
  BY <1>2, <1>4, FS_Subset
<1> QED BY <1>4, <1>5, <1>6, FS_CardinalityType

LEMMA RangeOfAppend ==
  ASSUME NEW S, NEW s \in Seq(S), NEW e \in S
  PROVE  Range(Append(s, e)) = Range(s) \cup {e}
<1> DEFINE n == Len(s)
           t == Append(s, e)
<1>1. /\ n \in Nat /\ DOMAIN s = 1 .. n /\ DOMAIN t = 1 .. n + 1
      /\ t[n + 1] = e /\ \A i \in 1 .. n : t[i] = s[i]
  OBVIOUS
<1> HIDE DEF n, t
<1>2. 1 .. n + 1 = 1 .. n \cup {n + 1}
  BY <1>1
<1>3. Range(t) = Range(s) \cup {e}
  BY <1>1, <1>2 DEF Range
<1> QED BY <1>3 DEF t

\* A search adds its next match to the list, or the list is complete.
LEMMA ListNext ==
  ASSUME OneByOne, NEW text \in Seq(Chars), NEW q \in Queries,
         NEW p \in 0 .. Len(text), NEW list, Lists(list, q, text, p),
         NEW at, at = Find(Haystack(q, text), Needle(q), p)
  PROVE  /\ at \in Int
         /\ at < 0 => Expected(q, text, p) = Expected(q, text, Len(text) + 1)
         /\ at >= 0 =>
              /\ at \in p .. Len(text) /\ at + Len(q.query) \in p .. Len(text)
              /\ Lists(list, q, text, at)
              /\ Lists(Append(list, <<BytesBefore(text, at), BytesBefore(text, at + Len(q.query))>>),
                       q, text, at + Len(q.query))
<1> DEFINE m == Len(q.query)
           n == Len(text)
           S == Matched(q, text)
           Pair(j) == <<BytesBefore(text, j), BytesBefore(text, j + m)>>
           e == Pair(at)
<1>1. /\ at \in Int
      /\ at < 0 => \A j \in S : j < p
      /\ at >= 0 => /\ at \in S /\ at \in p .. n /\ at + m \in p .. n
                    /\ Between(q, text, at) /\ Between(q, text, at + m)
                    /\ \A j \in S : j < at <=> j < p
                    /\ \A j \in S : j < at + m <=> j < p \/ j = at
  BY NextMatch DEF Lists
<1>2. /\ list \in Seq(Spans) /\ Range(list) = Expected(q, text, p)
      /\ Len(list) = Cardinality(Expected(q, text, p))
  BY DEF Lists
<1>3. \A x : Expected(q, text, x) = {Pair(j) : j \in {i \in S : i < x}}
  BY DEF Expected
<1>4. \A j \in S : j \in 0 .. n
  BY MatchRange
<1>5. n \in Nat
  OBVIOUS
<1> HIDE DEF S, m, n, Pair
<1>6. CASE at < 0
  <2>1. \A j \in S : j < p <=> j < n + 1
    BY <1>1, <1>4, <1>5, <1>6
  <2>2. Expected(q, text, p) = Expected(q, text, n + 1)
    BY <1>3, <2>1
  <2>3. ~ (at >= 0)
    BY <1>1, <1>6
  <2> QED BY <1>1, <2>2, <2>3 DEF n
<1>7. CASE ~ (at < 0)
  <2>1. at >= 0
    BY <1>1, <1>7
  <2>2. Expected(q, text, at) = Expected(q, text, p)
    BY <1>1, <1>3, <2>1
  <2>3. Expected(q, text, at + m) = Expected(q, text, p) \cup {e}
    BY <1>1, <1>3, <2>1
  <2>4. e \notin Expected(q, text, p)
    <3>1. ASSUME NEW j \in S, j < p, Pair(j) = e PROVE FALSE
      <4>1. BytesBefore(text, j) = BytesBefore(text, at)
        BY <3>1 DEF Pair, Spans
      <4>2. j \in 0 .. n /\ at \in 0 .. n /\ j < at
        BY <1>1, <1>4, <1>5, <2>1, <3>1
      <4>3. /\ BytesBefore(text, j) \in Nat /\ BytesBefore(text, at) \in Nat
            /\ BytesBefore(text, at) <= BytesBefore(text, j) <=> at <= j
        BY <4>2, BytesOrder DEF n
      <4> QED BY <4>1, <4>2, <4>3
    <3> QED BY <1>3, <3>1
  <2>5. e \in Spans
    <3>1. BytesBefore(text, at) \in 0 .. Bytes(text) /\ BytesBefore(text, at + m) \in 0 .. Bytes(text)
      BY <1>1, <2>1, MatchRange DEF S, m
    <3> QED BY <3>1 DEF Pair, Spans
  <2>6. /\ IsFiniteSet(Expected(q, text, p)) /\ Cardinality(Expected(q, text, p)) \in Nat
    BY ExpectedFinite
  <2>7. Cardinality(Expected(q, text, at + m)) = Cardinality(Expected(q, text, p)) + 1
    BY <2>3, <2>4, <2>6, FS_AddElement
  <2> HIDE DEF e
  <2>8. /\ Append(list, e) \in Seq(Spans) /\ Len(Append(list, e)) = Len(list) + 1
    BY <1>2, <2>5
  <2>9. Range(Append(list, e)) = Range(list) \cup {e}
    BY <1>2, <2>5, RangeOfAppend
  <2>10. Lists(Append(list, e), q, text, at + m)
    BY <1>1, <1>2, <2>1, <2>3, <2>7, <2>8, <2>9 DEF Lists
  <2>11. Lists(list, q, text, at)
    BY <1>1, <1>2, <2>1, <2>2 DEF Lists
  <2> QED BY <1>1, <2>1, <2>10, <2>11 DEF e, Pair, m, n
<1> QED BY <1>6, <1>7

\* The ranges of matches.
SpansOf(matches) == [n \in DOMAIN matches |-> <<matches[n].start, matches[n].end>>]

LEMMA SpansFacts ==
  ASSUME NEW text, NEW matches \in Seq(MatchesIn(text))
  PROVE  /\ SpansOf(matches) \in Seq(Spans) /\ Len(SpansOf(matches)) = Len(matches)
         /\ \A i \in 1 .. Len(matches) : SpansOf(matches)[i] = <<matches[i].start, matches[i].end>>
<1> DEFINE n == Len(matches)
<1>1. n \in Nat /\ DOMAIN matches = 1 .. n
  OBVIOUS
<1>2. \A i \in 1 .. n : matches[i] \in MatchesIn(text)
  OBVIOUS
<1>3. \A i \in 1 .. n : <<matches[i].start, matches[i].end>> \in Spans
  BY <1>2 DEF MatchesIn, Spans
<1>4. SpansOf(matches) = [i \in 1 .. n |-> <<matches[i].start, matches[i].end>>]
  BY <1>1 DEF SpansOf
<1> HIDE DEF n
<1>5. SpansOf(matches) \in Seq(Spans) /\ Len(SpansOf(matches)) = n
  BY <1>1, <1>3, <1>4
<1> QED BY <1>4, <1>5 DEF n

LEMMA JoinAppend ==
  ASSUME NEW S, NEW s \in Seq(S), NEW t \in Seq(S), NEW e \in S
  PROVE  s \o Append(t, e) = Append(s \o t, e)
OBVIOUS

LEMMA SpansAppend ==
  ASSUME NEW text, NEW given \in Seq(Spans), NEW matches \in Seq(MatchesIn(text)),
         NEW item, NEW more \in Seq(MatchesIn(text)), more = Append(matches, item)
  PROVE  given \o SpansOf(more) = Append(given \o SpansOf(matches), <<item.start, item.end>>)
<1> DEFINE n == Len(matches)
           e == <<item.start, item.end>>
<1>1. n \in Nat /\ Len(more) = n + 1 /\ more[n + 1] = item /\ \A i \in 1 .. n : more[i] = matches[i]
  OBVIOUS
<1>2. /\ SpansOf(matches) \in Seq(Spans) /\ Len(SpansOf(matches)) = n
      /\ \A i \in 1 .. n : SpansOf(matches)[i] = <<matches[i].start, matches[i].end>>
  BY SpansFacts
<1>3. /\ SpansOf(more) \in Seq(Spans) /\ Len(SpansOf(more)) = n + 1
      /\ \A i \in 1 .. n + 1 : SpansOf(more)[i] = <<more[i].start, more[i].end>>
  BY <1>1, SpansFacts
<1> HIDE DEF n
<1>4. e \in Spans /\ SpansOf(more)[n + 1] = e
  <2>1. n + 1 \in 1 .. n + 1
    BY <1>1
  <2>2. SpansOf(more)[n + 1] = e
    BY <1>1, <1>3, <2>1
  <2> DEFINE spans == SpansOf(more)
  <2> HIDE DEF spans, e
  <2>3. spans \in Seq(Spans) /\ Len(spans) = n + 1
    BY <1>3 DEF spans
  <2>4. spans[n + 1] \in Spans
    BY <2>1, <2>3
  <2> QED BY <2>2, <2>4 DEF spans
<1> HIDE DEF e
<1>5. /\ Append(SpansOf(matches), e) \in Seq(Spans) /\ Len(Append(SpansOf(matches), e)) = n + 1
      /\ Append(SpansOf(matches), e)[n + 1] = e
      /\ \A i \in 1 .. n : Append(SpansOf(matches), e)[i] = SpansOf(matches)[i]
  BY <1>2, <1>4
<1>6. ASSUME NEW i \in 1 .. n + 1 PROVE SpansOf(more)[i] = Append(SpansOf(matches), e)[i]
  <2>1. CASE i = n + 1
    BY <1>4, <1>5, <2>1
  <2>2. CASE i # n + 1
    <3>1. i \in 1 .. n
      BY <1>1, <2>2
    <3> QED BY <1>1, <1>2, <1>3, <1>5, <3>1
  <2> QED BY <2>1, <2>2
<1>7. SpansOf(more) = Append(SpansOf(matches), e)
  <2>1. \A i \in 1 .. Len(SpansOf(more)) : SpansOf(more)[i] = Append(SpansOf(matches), e)[i]
    BY <1>3, <1>6
  <2>2. Len(SpansOf(more)) = Len(Append(SpansOf(matches), e))
    BY <1>3, <1>5
  <2> QED BY <1>3, <1>5, <2>1, <2>2, SameSequence, Zenon
<1> QED BY <1>2, <1>4, <1>7, JoinAppend DEF e

\* A match is added behind the others, with its range.
LEMMA MatchAdded ==
  ASSUME NEW progress, NEW q, NEW text, NEW from, NEW to,
         NEW added, added = AddMatch(progress, q, text, from, to)
  PROVE  \E item : /\ added.matches = Append(progress.matches, item)
                   /\ item.start = BytesBefore(text, from) /\ item.end = BytesBefore(text, to)
<1> DEFINE lines == LineRange(text, from, to)
           before == LinesOf(text, Max({0, lines.start_line - 1 - q.context_lines}), lines.start_line - 1)
           after == LinesOf(text, lines.end_line, Min({LineCount(text), lines.end_line + q.context_lines}))
           keptBefore == TakePrefix(before, ResponseBytes - progress.bytes)
           bytes == progress.bytes + Bytes(keptBefore)
           kept == TakePrefix(Slice(text, from, to), ResponseBytes - bytes)
           keptAfter == TakePrefix(after, ResponseBytes - bytes - Bytes(kept))
           shortened == \/ progress.shortened \/ keptBefore # before
                        \/ kept # Slice(text, from, to) \/ keptAfter # after
           item == [start |-> BytesBefore(text, from), end |-> BytesBefore(text, to), text |-> kept,
                    lines |-> lines, before |-> keptBefore, after |-> keptAfter,
                    shortened |-> shortened]
<1>1. added.matches = Append(progress.matches, item)
  BY DEF AddMatch
<1> HIDE DEF lines, before, after, keptBefore, bytes, kept, keptAfter, shortened
<1>2. item.start = BytesBefore(text, from) /\ item.end = BytesBefore(text, to)
  OBVIOUS
<1> HIDE DEF item
<1> QED BY <1>1, <1>2

\* With a list of the matches before a character a search goes on from there:
\* the list with what it finds has the matches before the next one, or all.
LEMMA SearchLists ==
  ASSUME OneByOne, NEW text \in Seq(Chars), NEW q \in Queries, NEW p \in 0 .. Len(text),
         NEW given, Lists(given, q, text, p), NEW s, s = Search(q, text, BytesBefore(text, p))
  PROVE  \E at \in 0 .. Len(text) :
           /\ Lists(given \o SpansOf(s.matches), q, text, at)
           /\ \/ s.next = -1 /\ Expected(q, text, at) = Expected(q, text, Len(text) + 1)
              \/ s.next = BytesBefore(text, at) /\ at + Len(q.query) <= Len(text)
<1> DEFINE m == Len(q.query)
           D == {r \in ProgressIn(text) :
                   r.from \in 0 .. Len(text) /\ Lists(given \o SpansOf(r.matches), q, text, r.from)}
           first == SearchStart(text, BytesBefore(text, p))
<1>1. m \in Nat /\ m # 0 /\ Len(Needle(q)) = m /\ Len(text) \in Nat /\ p \in Nat
  <2>1. m \in Nat /\ m # 0 /\ Len(text) \in Nat /\ 0 \in 0 .. Len(text)
    BY SearchedText
  <2>2. Len(Needle(q)) = m
    BY <2>1, FoundIsOccurrence
  <2> QED BY <2>1, <2>2
<1>2. given \in Seq(Spans)
  BY DEF Lists
<1>3. first \in D
  <2>1. first \in ProgressIn(text)
    BY StartIn
  <2>2. first.from = p
    BY CharIndexOf DEF SearchStart
  <2>3. first.matches = <<>>
    BY DEF SearchStart
  <2>4. given \o SpansOf(<<>>) = given
    BY <1>2 DEF SpansOf
  <2> HIDE DEF first
  <2> QED BY <2>1, <2>2, <2>3, <2>4
<1>4. ASSUME NEW last \in D
      PROVE  LET at == NextFound(q, text, last) IN
             /\ SearchStep(q, text, last) \in D
             /\ at \in Int
             /\ at < 0 => Expected(q, text, last.from) = Expected(q, text, Len(text) + 1)
             /\ at >= 0 => /\ at \in 0 .. Len(text) /\ at + m <= Len(text)
                           /\ Lists(given \o SpansOf(last.matches), q, text, at)
  <2> DEFINE at == NextFound(q, text, last)
             to == at + Len(Needle(q))
             list == given \o SpansOf(last.matches)
             r == AddMatch(last, q, text, at, to)
             next == SearchStep(q, text, last)
  <2>1. last \in ProgressIn(text) /\ last.from \in 0 .. Len(text) /\ Lists(list, q, text, last.from)
    OBVIOUS
  <2>2. last.matches \in Seq(MatchesIn(text)) /\ next \in ProgressIn(text)
    BY <2>1, StepIn DEF ProgressIn
  <2> HIDE DEF D, list
  <2>3. /\ at \in Int
        /\ at < 0 => Expected(q, text, last.from) = Expected(q, text, Len(text) + 1)
        /\ at >= 0 =>
             /\ at \in last.from .. Len(text) /\ at + m \in last.from .. Len(text)
             /\ Lists(list, q, text, at)
             /\ Lists(Append(list, <<BytesBefore(text, at), BytesBefore(text, at + m)>>), q, text, at + m)
    BY <2>1, ListNext DEF NextFound
  <2> HIDE DEF at
  <2>4. CASE at < 0
    <3>1. next = last
      BY <2>4 DEF SearchStep, at
    <3>2. ~ (at >= 0)
      BY <2>3, <2>4
    <3> QED BY <2>3, <3>1, <3>2 DEF at
  <2>5. CASE ~ (at < 0)
    <3>1. /\ at >= 0 /\ to = at + m /\ at \in 0 .. Len(text) /\ at + m \in 0 .. Len(text)
          /\ at + m <= Len(text) /\ at + m > at
      BY <1>1, <2>1, <2>3, <2>5
    <3>2. next = With(r, [from |-> ResumeAt(at, to)])
      BY <2>5 DEF SearchStep, at
    <3>3. ResumeAt(at, to) = at + m
      BY <3>1 DEF ResumeAt
    <3>4. PICK item : /\ r.matches = Append(last.matches, item)
                      /\ item.start = BytesBefore(text, at) /\ item.end = BytesBefore(text, to)
      <4>1. r = AddMatch(last, q, text, at, to)
        OBVIOUS
      <4> HIDE DEF r, to
      <4> QED BY <4>1, MatchAdded
    <3>5. DOMAIN r = {"bytes", "shortened", "matches"}
      BY DEF AddMatch
    <3> HIDE DEF r, to
    <3>6. next.matches = r.matches /\ next.from = at + m
      BY <3>2, <3>3, <3>5 DEF With
    <3>7. next.matches \in Seq(MatchesIn(text)) /\ next.matches = Append(last.matches, item)
      BY <2>2, <3>4, <3>6 DEF ProgressIn
    <3> HIDE DEF next
    <3>8. given \o SpansOf(next.matches) = Append(list, <<item.start, item.end>>)
      <4>1. last.matches \in Seq(MatchesIn(text))
        BY <2>2
      <4>2. given \o SpansOf(next.matches) = Append(given \o SpansOf(last.matches), <<item.start, item.end>>)
        BY <1>2, <3>7, <4>1, SpansAppend, Zenon
      <4> QED BY <4>2 DEF list
    <3>9. Lists(given \o SpansOf(next.matches), q, text, at + m)
      BY <2>3, <3>1, <3>4, <3>8
    <3>10. next \in D
      BY <2>2, <3>1, <3>6, <3>9 DEF D
    <3> QED BY <2>3, <2>5, <3>1, <3>10 DEF next, at, list
  <2> QED BY <2>4, <2>5
<1>5. \A last \in D : SearchStep(q, text, last) \in D
  BY <1>4
<1> HIDE DEF D
<1>6. PICK r \in D :
        s = [matches |-> r.matches, shortened |-> r.shortened,
             next |-> IF NextFound(q, text, r) < 0 THEN -1
                      ELSE BytesBefore(text, NextFound(q, text, r))]
  BY <1>3, <1>5, SearchInduction
<1>7. /\ s.matches = r.matches
      /\ s.next = IF NextFound(q, text, r) < 0 THEN -1 ELSE BytesBefore(text, NextFound(q, text, r))
  BY <1>6
<1>8. r.from \in 0 .. Len(text) /\ Lists(given \o SpansOf(r.matches), q, text, r.from)
  BY DEF D
<1>9. CASE NextFound(q, text, r) < 0
  <2>1. s.next = -1 /\ Expected(q, text, r.from) = Expected(q, text, Len(text) + 1)
    BY <1>4, <1>7, <1>9
  <2> QED BY <1>7, <1>8, <2>1
<1>10. CASE ~ (NextFound(q, text, r) < 0)
  <2> DEFINE at == NextFound(q, text, r)
  <2>1. at \in Int
    BY <1>4
  <2>2. at >= 0
    BY <1>10, <2>1
  <2>3. at \in 0 .. Len(text) /\ at + m <= Len(text) /\ Lists(given \o SpansOf(r.matches), q, text, at)
    BY <1>4, <2>2
  <2>4. s.next = BytesBefore(text, at)
    BY <1>7, <1>10
  <2> HIDE DEF at
  <2> QED BY <1>7, <2>3, <2>4
<1> QED BY <1>9, <1>10

-----------------------------------------------------------------------------
(* Snapshots of a growing stream.                                          *)

\* The numbers of rows that a snapshot of h rows may scan, and what it scans.
Scannable(rows, h) ==
  {n \in 0 .. h : n <= ScanEvents /\ (n <= 1 \/ Bytes(TextOf(SubSeq(rows, 1, n))) <= ScanBytes)}
ScannedOf(rows, h) == Max(Scannable(rows, h))
ScanText(rows, h) == TextOf(SubSeq(rows, 1, ScannedOf(rows, h)))

LEMMA SnapshotScans ==
  ASSUME stream \in Rows, NEW h \in 0 .. Len(stream)
  PROVE  Snapshot(h).scanned = ScannedOf(stream, h) /\ Snapshot(h).text = ScanText(stream, h)
<1> DEFINE rows == RowsUpTo(h)
           S == {n \in 0 .. Min({Len(rows), ScanEvents}) :
                   n <= 1 \/ Bytes(TextOf(SubSeq(rows, 1, n))) <= ScanBytes}
           m == Min({h, ScanEvents + 1})
<1>1. /\ Len(stream) \in Nat /\ ScanEvents \in Nat /\ h \in Nat /\ h <= Len(stream)
      /\ stream \in Seq(Seq(Chars))
  BY LimitAssumption DEF Rows
<1>2. m = (IF h <= ScanEvents + 1 THEN h ELSE ScanEvents + 1) /\ m \in 0 .. Len(stream) /\ m \in Nat
  <2>1. h \in Int /\ ScanEvents + 1 \in Int
    BY <1>1
  <2>2. m = IF h <= ScanEvents + 1 THEN h ELSE ScanEvents + 1
    BY <2>1, MinOfTwo
  <2> HIDE DEF m
  <2> QED BY <1>1, <2>2
<1>3. rows = SubSeq(stream, 1, m)
  BY DEF RowsUpTo
<1> HIDE DEF rows, m
<1>4. /\ rows \in Seq(Seq(Chars)) /\ Len(rows) = m
      /\ \A i \in 1 .. m : rows[i] = stream[i]
  BY <1>1, <1>2, <1>3, FirstRows
<1>5. Min({Len(rows), ScanEvents}) = IF m <= ScanEvents THEN m ELSE ScanEvents
  <2>1. m \in Int /\ ScanEvents \in Int
    BY <1>1, <1>2
  <2> QED BY <1>4, <2>1, MinOfTwo
<1>6. \A n : n \in 0 .. Min({Len(rows), ScanEvents}) <=> n \in 0 .. h /\ n <= ScanEvents
  BY <1>1, <1>2, <1>5
<1>7. ASSUME NEW n \in 0 .. h, n <= ScanEvents
      PROVE  SubSeq(rows, 1, n) = SubSeq(stream, 1, n)
  <2>1. n \in 0 .. m /\ n \in 0 .. Len(rows) /\ n \in 0 .. Len(stream) /\ \A i \in 1 .. n : i \in 1 .. m
    BY <1>1, <1>2, <1>4, <1>7
  <2>2. /\ SubSeq(rows, 1, n) \in Seq(Seq(Chars)) /\ Len(SubSeq(rows, 1, n)) = n
        /\ \A i \in 1 .. n : SubSeq(rows, 1, n)[i] = rows[i]
    BY <1>4, <2>1, FirstRows
  <2>3. /\ SubSeq(stream, 1, n) \in Seq(Seq(Chars)) /\ Len(SubSeq(stream, 1, n)) = n
        /\ \A i \in 1 .. n : SubSeq(stream, 1, n)[i] = stream[i]
    BY <1>1, <2>1, FirstRows
  <2>4. \A i \in 1 .. n : SubSeq(rows, 1, n)[i] = SubSeq(stream, 1, n)[i]
    BY <1>4, <2>1, <2>2, <2>3
  <2> QED BY <2>2, <2>3, <2>4, SameSequence
<1>8. S = Scannable(stream, h)
  BY <1>6, <1>7 DEF Scannable
<1>9. Snapshot(h).scanned = Max(S)
  BY DEF Snapshot, rows
<1> HIDE DEF S
<1>10. Snapshot(h).text = TextOf(SubSeq(stream, 1, Snapshot(h).scanned))
  BY SnapshotFacts
<1> QED BY <1>8, <1>9, <1>10 DEF ScannedOf, ScanText

LEMMA ScannedFacts ==
  ASSUME NEW rows \in Rows, NEW h \in 0 .. Len(rows)
  PROVE  /\ ScannedOf(rows, h) \in Scannable(rows, h) /\ ScannedOf(rows, h) \in 0 .. h
         /\ \A n \in Scannable(rows, h) : n <= ScannedOf(rows, h)
         /\ ScanText(rows, h) \in Seq(Chars)
<1>1. h \in Nat /\ rows \in Seq(Seq(Chars)) /\ Len(rows) \in Nat /\ ScanEvents \in Nat
  BY LimitAssumption DEF Rows
<1>2. Scannable(rows, h) \subseteq 0 .. h /\ 0 \in Scannable(rows, h)
  BY <1>1 DEF Scannable
<1>3. /\ ScannedOf(rows, h) \in Scannable(rows, h)
      /\ \A n \in Scannable(rows, h) : n <= ScannedOf(rows, h)
  <2>1. 0 \in Int /\ h \in Int /\ Scannable(rows, h) # {}
    BY <1>1, <1>2
  <2> QED BY <1>2, <2>1, MaxFacts DEF ScannedOf
<1>4. ScannedOf(rows, h) \in 0 .. h /\ ScannedOf(rows, h) \in 0 .. Len(rows)
  BY <1>1, <1>2, <1>3
<1>5. SubSeq(rows, 1, ScannedOf(rows, h)) \in Seq(Seq(Chars))
  BY <1>1, <1>4, FirstRows
<1> QED BY <1>3, <1>4, <1>5, JoinIsText DEF ScanText

\* A snapshot does not change when rows are added.
LEMMA SnapshotStays ==
  ASSUME NEW rows \in Rows, NEW more \in Rows, NEW h \in 0 .. Len(rows)
  PROVE  /\ ScannedOf(rows \o more, h) = ScannedOf(rows, h)
         /\ ScanText(rows \o more, h) = ScanText(rows, h)
<1>1. ASSUME NEW n \in 0 .. h PROVE SubSeq(rows \o more, 1, n) = SubSeq(rows, 1, n)
  <2>1. Len(rows) \in Nat /\ h \in Nat /\ h <= Len(rows)
    BY DEF Rows
  <2>2. n \in 0 .. Len(rows) /\ 0 \in 0 .. Len(rows) /\ 0 + 1 = 1
    BY <2>1
  <2>3. SubSeq(rows \o more, 0 + 1, n) = SubSeq(rows, 0 + 1, n)
    BY <2>2, RowsStay
  <2> QED BY <2>3
<1>2. Scannable(rows \o more, h) = Scannable(rows, h)
  BY <1>1 DEF Scannable
<1>3. ScannedOf(rows \o more, h) = ScannedOf(rows, h)
  BY <1>2 DEF ScannedOf
<1>4. ScannedOf(rows, h) \in 0 .. h
  BY ScannedFacts
<1> QED BY <1>1, <1>3, <1>4 DEF ScanText

\* The text of a later snapshot begins with that of an earlier one.
LEMMA SnapshotGrows ==
  ASSUME NEW rows \in Rows, NEW h \in 0 .. Len(rows), NEW k \in h .. Len(rows)
  PROVE  \E more \in Seq(Chars) : ScanText(rows, k) = ScanText(rows, h) \o more
<1>1. h \in Nat /\ k \in Nat /\ k \in 0 .. Len(rows) /\ Len(rows) \in Nat /\ rows \in Seq(Seq(Chars))
  BY DEF Rows
<1>2. /\ ScannedOf(rows, h) \in Scannable(rows, h) /\ ScannedOf(rows, h) \in 0 .. h
      /\ ScannedOf(rows, k) \in 0 .. k /\ \A n \in Scannable(rows, k) : n <= ScannedOf(rows, k)
  BY <1>1, ScannedFacts
<1>3. ScannedOf(rows, h) \in Scannable(rows, k)
  <2>1. \A n \in 0 .. h : n \in 0 .. k
    BY <1>1
  <2> QED BY <1>2, <2>1 DEF Scannable
<1> DEFINE s == ScannedOf(rows, h)
           t == ScannedOf(rows, k)
<1>4. s \in 0 .. t /\ t \in 0 .. Len(rows) /\ s \in 0 .. Len(rows) /\ t \in s .. Len(rows)
  <2>1. s <= t
    BY <1>2, <1>3
  <2> HIDE DEF s, t
  <2> QED BY <1>1, <1>2, <2>1 DEF s, t
<1> DEFINE more == TextOf(SubSeq(rows, s + 1, t))
<1> HIDE DEF s, t
<1>5. more \in Seq(Chars)
  BY <1>1, <1>4, SomeRows, JoinIsText
<1>6. TextOf(SubSeq(rows, 1, s)) \o more = TextOf(SubSeq(rows, 1, t))
  BY <1>1, <1>4, JoinParts
<1> QED BY <1>5, <1>6 DEF ScanText, s, t

\* A list of matches before p stays one in a longer text, when p is an occurrence.
LEMMA ListStays ==
  ASSUME NEW text \in Seq(Chars), NEW more \in Seq(Chars), NEW q \in Queries,
         NEW p \in Nat, p + Len(q.query) <= Len(text), NEW list, Lists(list, q, text, p)
  PROVE  /\ Lists(list, q, text \o more, p) /\ p \in 0 .. Len(text \o more)
         /\ BytesBefore(text \o more, p) = BytesBefore(text, p)
<1> DEFINE all == text \o more
           m == Len(q.query)
           S == Matched(q, text)
           A == Matched(q, all)
<1>1. /\ all \in Seq(Chars) /\ Len(text) <= Len(all) /\ Len(text) \in Nat /\ Len(all) \in Nat
      /\ \A i \in 0 .. Len(text) : BytesBefore(all, i) = BytesBefore(text, i)
  BY LongerText
<1>2. m \in Nat /\ p <= Len(text)
  <2>1. m \in Nat
    BY SearchedText
  <2> QED BY <1>1, <2>1
<1>3. \A i \in 0 .. p : i \in A <=> i \in S
  <2>1. ASSUME NEW i \in 0 .. p
        PROVE  i \in Matched(q, text \o more) <=> i \in Matched(q, text)
    BY MatchedStays, Zenon
  <2> QED BY <2>1
<1>4. S \subseteq 0 .. Len(text) /\ A \subseteq 0 .. Len(all)
  BY <1>1, MatchedFacts
<1> HIDE DEF all, m, S, A
<1>5. {j \in A : j < p} = {j \in S : j < p}
  <2>1. \A j \in S \cup A : j < p => j \in 0 .. p
    BY <1>1, <1>4
  <2> QED BY <1>3, <2>1
<1>6. \A j \in {i \in S : i < p} : j \in 0 .. Len(text) /\ j + m \in 0 .. Len(text)
  BY MatchRange DEF S, m
<1>7. \A j \in {i \in S : i < p} :
        /\ BytesBefore(all, j) = BytesBefore(text, j)
        /\ BytesBefore(all, j + m) = BytesBefore(text, j + m)
  BY <1>1, <1>6
<1>8. Expected(q, all, p) = Expected(q, text, p)
  BY <1>5, <1>7 DEF Expected, S, A, m
<1>9. Between(q, all, p)
  <2>1. \A j \in {i \in S : i < p} : j + m <= p
    BY DEF Lists, Between, S, m
  <2> QED BY <1>5, <2>1 DEF Between, A, m
<1>10. Lists(list, q, all, p)
  BY <1>8, <1>9 DEF Lists
<1>11. p \in 0 .. Len(all) /\ p \in 0 .. Len(text)
  BY <1>1, <1>2
<1> QED BY <1>1, <1>10, <1>11 DEF all

LEMMA ListNothing ==
  ASSUME NEW text \in Seq(Chars), NEW q \in Queries
  PROVE  Lists(<<>>, q, text, 0) /\ 0 \in 0 .. Len(text) /\ BytesBefore(text, 0) = 0
<1>1. \A j \in Matched(q, text) : ~ (j < 0)
  BY MatchRange
<1>2. Expected(q, text, 0) = {} /\ Between(q, text, 0)
  BY <1>1 DEF Expected, Between
<1>3. Cardinality({}) = 0
  BY FS_EmptySet
<1>4. <<>> \in Seq(Spans) /\ Len(<<>>) = 0
  OBVIOUS
<1>5. Range(<<>>) = {}
  BY DEF Range
<1>6. 0 \in 0 .. Len(text) /\ BytesBefore(text, 0) = 0
  BY BytesDef
<1>7. Lists(<<>>, q, text, 0)
  BY <1>2, <1>3, <1>4, <1>5 DEF Lists
<1> QED BY <1>6, <1>7

-----------------------------------------------------------------------------
(* Searches and their continuations.                                       *)

\* A search under way goes on where the list of what was found ends; an answer
\* ends the list there, before an occurrence or behind the last.
ListAsked(rows, asked, list) ==
  asked # Nothing /\ asked.kind = "search" =>
    LET text == ScanText(rows, asked.high_water) IN
    \E p \in 0 .. Len(text) :
      asked.after = BytesBefore(text, p) /\ Lists(list, asked.query, text, p)

ListedTo(text, q, next, list) ==
  \E p \in 0 .. Len(text) :
    /\ Lists(list, q, text, p)
    /\ \/ next = -1 /\ Expected(q, text, p) = Expected(q, text, Len(text) + 1)
       \/ next = BytesBefore(text, p) /\ p + Len(q.query) <= Len(text)

ListAnswered(rows, given, list) ==
  given # Nothing /\ given.request.kind = "search" =>
    /\ given.high_water \in 0 .. Len(rows)
    /\ given.scanned = ScannedOf(rows, given.high_water)
    /\ ListedTo(ScanText(rows, given.high_water), given.request.query, given.next, list)

ListInv == ListAsked(stream, request, found) /\ ListAnswered(stream, answer, found)

LEMMA ListGrows ==
  ASSUME stream \in Rows, QueryInv, ListInv, NEW more \in Rows,
         stream' = stream \o more, UNCHANGED queries
  PROVE  ListInv'
<1>1. UNCHANGED <<request, answer, found>>
  BY DEF queries
<1>2. \A h \in 0 .. Len(stream) :
        /\ ScannedOf(stream', h) = ScannedOf(stream, h) /\ ScanText(stream', h) = ScanText(stream, h)
        /\ h \in 0 .. Len(stream')
  <2>1. ASSUME NEW h \in 0 .. Len(stream) PROVE h \in 0 .. Len(stream')
    <3>1. stream \in Seq(Seq(Chars)) /\ more \in Seq(Seq(Chars))
      BY DEF Rows
    <3>2. /\ Len(stream \o more) = Len(stream) + Len(more)
          /\ Len(stream) \in Nat /\ Len(more) \in Nat
      BY <3>1
    <3> QED BY <3>2
  <2> QED BY <2>1, SnapshotStays
<1>3. ListAsked(stream', request, found)
  BY <1>2 DEF ListInv, ListAsked, QueryInv
<1>4. ListAnswered(stream', answer, found)
  BY <1>2 DEF ListInv, ListAnswered
<1> QED BY <1>1, <1>3, <1>4 DEF ListInv

\* A new search starts with nothing.
LEMMA SearchBegins ==
  ASSUME stream \in Rows, NEW q \in Queries, AskSearch(q)
  PROVE  ListInv'
<1> DEFINE text == ScanText(stream, Len(stream))
           r == [kind |-> "search", query |-> q, after |-> 0]
<1>1. /\ request' = With(r, [high_water |-> Len(stream)])
      /\ answer' = Nothing /\ UNCHANGED stream /\ found' = <<>>
  BY DEF AskSearch, Ask
<1>2. /\ request'["kind"] = "search" /\ request'["query"] = q /\ request'["after"] = 0
      /\ request'["high_water"] = Len(stream)
  BY <1>1 DEF With
<1>3. text \in Seq(Chars)
  <2>1. Len(stream) \in 0 .. Len(stream)
    BY DEF Rows
  <2> QED BY <2>1, ScannedFacts
<1> HIDE DEF text
<1>4. Lists(<<>>, q, text, 0) /\ 0 \in 0 .. Len(text) /\ BytesBefore(text, 0) = 0
  BY <1>3, ListNothing
<1>5. ListAsked(stream, request', found')
  BY <1>1, <1>2, <1>4 DEF ListAsked, text
<1> QED BY <1>1, <1>5 DEF ListInv, ListAnswered

\* A continuation asks for the text behind the last match, of a later snapshot.
LEMMA SearchContinues ==
  ASSUME stream \in Rows, SearchInv, ListInv, AskForMore
  PROVE  ListInv'
<1> DEFINE q == answer.request.query
           h == answer.high_water
           text == ScanText(stream, h)
           later == ScanText(stream, Len(stream))
           r == [kind |-> "search", query |-> q, after |-> answer.next]
<1>1. /\ answer # Nothing /\ answer.request.kind = "search" /\ answer.next >= 0
      /\ request' = With(r, [high_water |-> Len(stream)])
      /\ answer' = Nothing /\ UNCHANGED <<stream, found>>
  BY DEF AskForMore, Ask
<1>2. /\ request'["kind"] = "search" /\ request'["query"] = q /\ request'["after"] = answer.next
      /\ request'["high_water"] = Len(stream)
  BY <1>1 DEF With
<1>3. q \in Queries /\ h \in 0 .. Len(stream) /\ ListedTo(text, q, answer.next, found)
  BY <1>1 DEF SearchInv, ListInv, ListAnswered
<1> HIDE DEF q, h, r
<1>4. text \in Seq(Chars) /\ Len(stream) \in h .. Len(stream)
  <2>1. Len(stream) \in h .. Len(stream)
    BY <1>3 DEF Rows
  <2> QED BY <1>3, <2>1, ScannedFacts
<1>5. PICK more \in Seq(Chars) : later = text \o more
  BY <1>3, <1>4, SnapshotGrows
<1> HIDE DEF text, later
<1>6. PICK p \in 0 .. Len(text) : /\ Lists(found, q, text, p) /\ answer.next = BytesBefore(text, p)
                                 /\ p + Len(q.query) <= Len(text)
  <2>1. answer.next # -1
    BY <1>1
  <2> QED BY <1>3, <2>1 DEF ListedTo
<1>7. p \in Nat
  OBVIOUS
<1>8. /\ Lists(found, q, later, p) /\ p \in 0 .. Len(later)
      /\ BytesBefore(later, p) = BytesBefore(text, p)
  BY <1>3, <1>4, <1>5, <1>6, <1>7, ListStays
<1>9. ListAsked(stream, request', found)
  BY <1>2, <1>6, <1>8 DEF ListAsked, later
<1> QED BY <1>1, <1>9 DEF ListInv, ListAnswered

LEMMA SearchEnds ==
  ASSUME OneByOne, stream \in Rows, QueryInv, SearchInv, ListInv, AnswerSearch
  PROVE  ListInv'
<1> DEFINE h == request.high_water
           q == request.query
           text == ScanText(stream, h)
           result == Search(q, Snapshot(h).text, request.after)
<1>1. /\ request.kind = "search" /\ request' = Nothing /\ UNCHANGED stream
      /\ Answering(Snapshot(h), result) /\ found' = found \o SpansOf(result.matches)
  BY Zenon DEF AnswerSearch, Answered, SpansOf
<1>2. request # Nothing
  BY <1>1 DEF Nothing
<1>3. h \in 0 .. Len(stream) /\ q \in Queries
  BY <1>1, <1>2 DEF QueryInv, SearchInv
<1>4. Snapshot(h).scanned = ScannedOf(stream, h) /\ Snapshot(h).text = text /\ text \in Seq(Chars)
  BY <1>3, SnapshotScans, ScannedFacts
<1>5. PICK p \in 0 .. Len(text) : request.after = BytesBefore(text, p) /\ Lists(found, q, text, p)
  BY <1>1, <1>2 DEF ListInv, ListAsked
<1>6. /\ answer'["request"] = request /\ answer'["high_water"] = h
      /\ answer'["scanned"] = Snapshot(h).scanned
      /\ \A f \in DOMAIN result :
           f \notin {"request", "high_water", "scanned", "partial"} => answer'[f] = result[f]
  BY <1>1, <1>2, AnswerFields
<1>7. "next" \in DOMAIN result
  <2>1. \E a, b, c : result = [matches |-> a, shortened |-> b, next |-> c]
    BY Zenon DEF Search
  <2> HIDE DEF result
  <2> QED BY <2>1
<1>8. result = Search(q, text, BytesBefore(text, p))
  BY <1>4, <1>5
<1> HIDE DEF result, text, q, h
<1>9. ListedTo(text, q, result.next, found')
  BY <1>1, <1>3, <1>4, <1>5, <1>8, SearchLists DEF ListedTo
<1>10. answer'["next"] = result.next
  BY <1>6, <1>7
<1>11. ListAnswered(stream, answer', found')
  BY <1>3, <1>4, <1>6, <1>9, <1>10 DEF ListAnswered, text, q
<1> QED BY <1>1, <1>11 DEF ListInv, ListAsked

LEMMA ListStep ==
  ASSUME OneByOne, PageInv, QueryInv, SearchInv, ListInv, [Next]_vars
  PROVE  ListInv'
<1>1. CASE \E text \in Outputs : Ingest(text)
  <2>1. PICK text \in Outputs : Ingest(text)
    BY <1>1
  <2> DEFINE more == SplitChunks(text, ChunkBytes)
  <2>2. more \in Rows
    BY LimitAssumption, SplitIsRows
  <2>3. stream' = stream \o more /\ UNCHANGED queries
    BY <2>1 DEF Ingest
  <2> HIDE DEF more
  <2> QED BY <2>2, <2>3, ListGrows DEF PageInv
<1>2. CASE EndExecution \/ Paging \/ UNCHANGED vars
  <2>1. UNCHANGED <<stream, request, answer, found>>
    BY <1>2 DEF EndExecution, Paging, ReadPage, FinishPage, queries, vars
  <2> QED BY <2>1 DEF ListInv
<1>3. CASE Querying
  <2>1. CASE \E q \in Queries : AskSearch(q)
    BY <2>1, SearchBegins DEF PageInv
  <2>2. CASE \E lines \in Tails : AskTail(lines)
    <3>1. answer' = Nothing /\ request'["kind"] = "tail"
      BY <2>2 DEF AskTail, Ask, With
    <3> QED BY <3>1 DEF ListInv, ListAsked, ListAnswered
  <2>3. CASE \E r \in Ranges : AskRange(r)
    <3>1. answer' = Nothing /\ request'["kind"] = "range"
      BY <2>3 DEF AskRange, Ask, With
    <3> QED BY <3>1 DEF ListInv, ListAsked, ListAnswered
  <2>4. CASE AskForMore
    BY <2>4, SearchContinues DEF PageInv
  <2>5. CASE AnswerSearch
    BY <2>5, SearchEnds DEF PageInv
  <2>6. CASE AnswerTail \/ AnswerRange
    <3>1. request.kind \in {"tail", "range"} /\ request' = Nothing
      BY <2>6, Zenon DEF AnswerTail, AnswerRange, Answered
    <3>2. request # Nothing
      BY <3>1 DEF Nothing
    <3>3. PICK result : Answering(Snapshot(request.high_water), result)
      BY <2>6, Zenon DEF AnswerTail, AnswerRange
    <3>4. answer'["request"] = request
      BY <3>2, <3>3, AnswerFields DEF PageInv
    <3> QED BY <3>1, <3>4 DEF ListInv, ListAsked, ListAnswered
  <2> QED BY <1>3, <2>1, <2>2, <2>3, <2>4, <2>5, <2>6 DEF Querying
<1> QED BY <1>1, <1>2, <1>3 DEF Next, Ingestion

LEMMA ListIsExpected ==
  ASSUME stream \in Rows, SearchInv, ListInv
  PROVE  SearchFindsAll
<1> SUFFICES ASSUME answer # Nothing, answer.request.kind = "search" PROVE SearchFindsAll
  BY DEF SearchFindsAll
<1> DEFINE q == answer.request.query
           next == answer.next
           text == Region
           m == Len(q.query)
           matched == CHOOSE f : f = [i \in 0 .. Len(text) |->
             Occurs(q, text, i) /\ \A j \in 0 .. i - 1 : f[j] => j + Len(q.query) <= i]
           chosen == {j \in 0 .. Len(text) : matched[j] /\ (next < 0 \/ BytesBefore(text, j) < next)}
           expected == {<<BytesBefore(text, i), BytesBefore(text, i + m)>> : i \in chosen}
<1>1. Matched(q, text) = {j \in 0 .. Len(text) : matched[j]}
  BY DEF Matched
<1>2. SearchFindsAll <=> Range(found) = expected /\ Len(found) = Cardinality(expected)
  BY DEF SearchFindsAll
<1> HIDE DEF matched
<1>3. /\ q \in Queries /\ answer.high_water \in 0 .. Len(stream)
      /\ text = ScanText(stream, answer.high_water) /\ ListedTo(text, q, next, found)
  BY DEF SearchInv, ListInv, ListAnswered, Region, ScanText
<1>4. text \in Seq(Chars)
  BY <1>3, ScannedFacts
<1> HIDE DEF text, q, next
<1>5. PICK p \in 0 .. Len(text) :
        /\ Lists(found, q, text, p)
        /\ \/ next = -1 /\ Expected(q, text, p) = Expected(q, text, Len(text) + 1)
           \/ next = BytesBefore(text, p) /\ p + Len(q.query) <= Len(text)
  BY <1>3 DEF ListedTo
<1>6. expected = Expected(q, text, p)
  <2>1. CASE next = -1
    <3>1. chosen = {j \in Matched(q, text) : j < Len(text) + 1}
      BY <1>1, <2>1
    <3>2. next # BytesBefore(text, p)
      BY <1>4, <2>1, BytesDef
    <3> QED BY <1>5, <3>1, <3>2 DEF Expected
  <2>2. CASE next = BytesBefore(text, p)
    <3>1. \A j \in 0 .. Len(text) : ~ (next < 0) /\ (BytesBefore(text, j) < next <=> j < p)
      <4>1. ASSUME NEW j \in 0 .. Len(text)
            PROVE  ~ (next < 0) /\ (BytesBefore(text, j) < next <=> j < p)
        <5>1. /\ BytesBefore(text, p) \in Nat /\ BytesBefore(text, j) \in Nat
              /\ BytesBefore(text, p) <= BytesBefore(text, j) <=> p <= j
          BY <1>4, BytesOrder
        <5> QED BY <2>2, <5>1
      <4> QED BY <4>1
    <3>2. chosen = {j \in Matched(q, text) : j < p}
      BY <1>1, <3>1
    <3> QED BY <3>2 DEF Expected
  <2> QED BY <1>5, <2>1, <2>2
<1> QED BY <1>2, <1>5, <1>6 DEF Lists

\* A search and its continuations give every occurrence once, from left to right,
\* up to the next one or the end of the region, whatever is ingested between them,
\* where lower case is character by character.
THEOREM SearchesFindAll ==
  ASSUME OneByOne
  PROVE  Spec => []SearchFindsAll
<1>1. Init => ListInv
  BY DEF Init, ListInv, ListAsked, ListAnswered
<1>2. PageInv /\ FlagsOK /\ QueryInv /\ SearchInv /\ ListInv /\ [Next]_vars => ListInv'
  BY ListStep
<1>3. PageInv /\ SearchInv /\ ListInv => SearchFindsAll
  BY ListIsExpected DEF PageInv
<1> QED BY <1>1, <1>2, <1>3, PagesHold, PositionsHold, PTL DEF Spec
=============================================================================
