---------------------------- MODULE HelperLemmas ----------------------------
(***************************************************************************)
(* The facts that the proofs share: about sets of numbers and functions    *)
(* that are defined from value to value, about lists, about characters in  *)
(* a text of bytes, and about what the functions of helper.rs compute.     *)
(***************************************************************************)
EXTENDS Helper, TLAPS, WellFoundedInduction, SequenceTheorems

-----------------------------------------------------------------------------
(***************************************************************************)
(* Numbers                                                                 *)
(***************************************************************************)
\* The least-number principle for sets.
LEMMA LeastElement ==
  ASSUME NEW T, T \subseteq Nat, T # {}
  PROVE  \E x \in T : \A y \in T : x <= y
<1> DEFINE R == OpToRel(<, Nat)
<1>1. IsWellFoundedOn(R, Nat)
  BY NatLessThanWellFounded
<1>2. \A x, y \in Nat : y < x => <<y, x>> \in R
  BY DEF OpToRel
<1> HIDE DEF R
<1>3. PICK x \in T : \A y \in T : ~ (<<y, x>> \in R)
  BY <1>1, WFMin
<1>4. \A y \in T : ~ (y < x)
  <2>1. TAKE y \in T
  <2>2. x \in Nat /\ y \in Nat
    OBVIOUS
  <2>3. QED
    BY <1>2, <1>3, <2>2, Zenon
<1>5. \A y \in T : x \in Int /\ y \in Int
  OBVIOUS
<1>6. \A y \in T : x <= y
  BY <1>4, <1>5
<1>7. QED
  BY <1>6

\* Induction up to N: a set that holds 0, and what follows its members, holds
\* all.
LEMMA Induction ==
  ASSUME NEW N \in Nat, NEW T, 0 \in T,
         \A n \in 0 .. N - 1 : n \in T => n + 1 \in T
  PROVE  \A n \in 0 .. N : n \in T
<1> DEFINE Bad == {n \in 0 .. N : n \notin T}
<1>1. SUFFICES ASSUME Bad # {} PROVE FALSE
  OBVIOUS
<1>2. Bad \subseteq Nat
  OBVIOUS
<1> HIDE DEF Bad
<1>3. PICK n \in Bad : \A m \in Bad : n <= m
  BY <1>1, <1>2, LeastElement
<1>4. n \in 0 .. N /\ n \notin T /\ n # 0
  BY DEF Bad
<1>5. n - 1 \in 0 .. N - 1 /\ (n - 1) + 1 = n
  BY <1>4
<1>6. n - 1 \notin Bad
  <2>1. SUFFICES ASSUME n - 1 \in Bad PROVE FALSE
    OBVIOUS
  <2>2. n <= n - 1
    BY <1>3, <2>1
  <2>3. QED
    BY <1>4, <2>2
<1>7. n - 1 \in T
  BY <1>5, <1>6 DEF Bad
<1>8. QED
  BY <1>4, <1>5, <1>7

\* step[n] leads from values to values; f goes from `base` step by step.
StepsIn(S, N, step) == \A n \in 1 .. N : \A x \in S : step[n][x] \in S
Follows(f, S, base, N, step) ==
  /\ f \in [0 .. N -> S]
  /\ f[0] = base
  /\ \A n \in 1 .. N : f[n] = step[n][f[n - 1]]

\* A function that is defined by a step from each value to the next exists.
LEMMA Recursion ==
  ASSUME NEW S, NEW base \in S, NEW N \in Nat, NEW step, StepsIn(S, N, step)
  PROVE  \E f : Follows(f, S, base, N, step)
<1> DEFINE Is(f, M) == f[0] = base /\ \A n \in 1 .. M : f[n] = step[n][f[n - 1]]
           T == {M \in 0 .. N : \E f \in [0 .. M -> S] : Is(f, M)}
<1>1. 0 \in T
  <2> DEFINE f == [n \in 0 .. 0 |-> base]
  <2>1. f \in [0 .. 0 -> S]
    OBVIOUS
  <2>2. Is(f, 0)
    OBVIOUS
  <2> HIDE DEF f
  <2>3. 0 \in 0 .. N
    OBVIOUS
  <2>4. QED
    BY <2>1, <2>2, <2>3
<1>2. ASSUME NEW M \in 0 .. N - 1, M \in T
      PROVE  M + 1 \in T
  <2>1. PICK f \in [0 .. M -> S] : Is(f, M)
    BY <1>2
  <2> DEFINE g == [n \in 0 .. M + 1 |-> IF n <= M THEN f[n] ELSE step[M + 1][f[M]]]
  <2>2. M + 1 \in 1 .. N /\ M \in 0 .. M
    OBVIOUS
  <2>3. f[M] \in S
    BY <2>2
  <2>4. step[M + 1][f[M]] \in S
    BY <2>2, <2>3 DEF StepsIn
  <2>5. g \in [0 .. M + 1 -> S]
    BY <2>4
  <2>6. g[0] = base
    BY <2>1
  <2>7. ASSUME NEW n \in 1 .. M + 1
        PROVE  g[n] = step[n][g[n - 1]]
    <3>1. CASE n <= M
      <4>1. n \in 1 .. M /\ g[n] = f[n] /\ g[n - 1] = f[n - 1]
        BY <3>1
      <4>2. QED
        BY <2>1, <4>1
    <3>2. CASE n = M + 1
      <4>1. g[n] = step[M + 1][f[M]] /\ g[M] = f[M] /\ n - 1 = M
        BY <3>2
      <4>2. QED
        BY <3>2, <4>1
    <3>3. QED
      BY <3>1, <3>2
  <2> HIDE DEF g
  <2>8. Is(g, M + 1)
    BY <2>6, <2>7
  <2>9. M + 1 \in 0 .. N
    OBVIOUS
  <2>10. QED
    BY <2>5, <2>8, <2>9
<1> HIDE DEF T
<1>3. \A M \in 0 .. N : M \in T
  BY <1>1, <1>2, Induction
<1>4. N \in T
  BY <1>3
<1>5. QED
  BY <1>4 DEF T, Follows

\* Two functions agree as far as the same step leads from value to value.
LEMMA SameRecursion ==
  ASSUME NEW M \in Nat, NEW f, NEW g, f[0] = g[0],
         \A n \in 1 .. M : f[n - 1] = g[n - 1] => f[n] = g[n]
  PROVE  f[M] = g[M]
<1> DEFINE T == {n \in 0 .. M : f[n] = g[n]}
<1>1. 0 \in T
  OBVIOUS
<1>2. ASSUME NEW n \in 0 .. M - 1, n \in T
      PROVE  n + 1 \in T
  <2>1. n + 1 \in 1 .. M /\ (n + 1) - 1 = n /\ f[n] = g[n]
    BY <1>2
  <2>2. f[n + 1] = g[n + 1]
    BY <2>1
  <2>3. QED
    BY <2>1, <2>2
<1> HIDE DEF T
<1>3. M \in T
  BY <1>1, <1>2, Induction
<1>4. QED
  BY <1>3 DEF T

\* f holds the sums of the first numbers.
SumsOf(f, numbers) ==
  /\ f \in [0 .. Len(numbers) -> Nat]
  /\ f[0] = 0
  /\ \A n \in 1 .. Len(numbers) : f[n] = f[n - 1] + numbers[n]

\* Adding up a list: there are such sums, and the last one is Sum().
LEMMA SumIs ==
  ASSUME NEW numbers \in Seq(Nat)
  PROVE  \E f : SumsOf(f, numbers) /\ Sum(numbers) = f[Len(numbers)]
<1> DEFINE N == Len(numbers)
           step == [n \in 1 .. N |-> [x \in Nat |-> x + numbers[n]]]
           sum == CHOOSE sum : sum = [n \in 0 .. N |->
                    IF n = 0 THEN 0 ELSE sum[n - 1] + numbers[n]]
<1>1. N \in Nat /\ \A n \in 1 .. N : numbers[n] \in Nat
  OBVIOUS
<1>2. StepsIn(Nat, N, step)
  BY <1>1 DEF StepsIn
<1>3. PICK f \in [0 .. N -> Nat] : f[0] = 0 /\ \A n \in 1 .. N : f[n] = step[n][f[n - 1]]
  <2> HIDE DEF step, N
  <2>1. 0 \in Nat
    OBVIOUS
  <2>2. PICK f : Follows(f, Nat, 0, N, step)
    BY <1>1, <1>2, <2>1, Recursion
  <2>3. QED
    BY <2>2 DEF Follows
<1>4. ASSUME NEW n \in 1 .. N
      PROVE  f[n] = f[n - 1] + numbers[n]
  <2>1. n - 1 \in 0 .. N
    BY <1>1
  <2>2. f[n - 1] \in Nat
    BY <2>1
  <2>3. f[n] = step[n][f[n - 1]]
    <3> HIDE DEF step
    <3>1. QED
      BY <1>3
  <2>4. QED
    BY <2>2, <2>3
<1> HIDE DEF step
<1>5. ASSUME NEW n \in 0 .. N
      PROVE  f[n] = IF n = 0 THEN 0 ELSE f[n - 1] + numbers[n]
  <2>1. n # 0 => n \in 1 .. N
    BY <1>1
  <2>2. QED
    BY <1>3, <1>4, <2>1
<1>6. f = [n \in 0 .. N |-> IF n = 0 THEN 0 ELSE f[n - 1] + numbers[n]]
  <2>1. f = [n \in 0 .. N |-> f[n]]
    OBVIOUS
  <2> HIDE DEF N
  <2>2. QED
    BY <1>5, <2>1, Zenon
<1>7. sum = [n \in 0 .. N |-> IF n = 0 THEN 0 ELSE sum[n - 1] + numbers[n]]
  BY <1>6, Zenon
<1> HIDE DEF sum
<1>8. ASSUME NEW n \in 0 .. N
      PROVE  sum[n] = IF n = 0 THEN 0 ELSE sum[n - 1] + numbers[n]
  BY <1>7
<1>9. sum[N] = f[N]
  <2>1. 0 \in 0 .. N
    BY <1>1
  <2>2. sum[0] = f[0]
    BY <1>5, <1>8, <2>1
  <2>3. ASSUME NEW n \in 1 .. N, sum[n - 1] = f[n - 1]
        PROVE  sum[n] = f[n]
    <3>1. n \in 0 .. N /\ n # 0
      BY <1>1
    <3>2. sum[n] = sum[n - 1] + numbers[n]
      BY <1>8, <3>1
    <3>3. QED
      BY <1>4, <2>3, <3>2
  <2> HIDE DEF N
  <2>4. QED
    BY <1>1, <2>2, <2>3, SameRecursion
<1>10. Sum(numbers) = f[N]
  BY <1>9 DEF Sum, sum
<1>11. SumsOf(f, numbers)
  BY <1>3, <1>4 DEF SumsOf
<1>12. QED
  BY <1>10, <1>11

-----------------------------------------------------------------------------
(***************************************************************************)
(* Lists                                                                   *)
(***************************************************************************)
LEMMA Associative ==
  \A S : \A a, b, c \in Seq(S) : (a \o b) \o c = a \o (b \o c)
BY ConcatAssociative

\* Joining nothing changes nothing.
LEMMA EmptyIsNeutral ==
  ASSUME NEW S, NEW a \in Seq(S)
  PROVE  a \o <<>> = a /\ <<>> \o a = a
BY ConcatEmptySeq

\* h holds the concatenations of the first pieces.
JoinsOf(S, h, pieces, N) ==
  /\ h \in [0 .. N -> Seq(S)]
  /\ h[0] = <<>>
  /\ \A n \in 1 .. N : h[n] = h[n - 1] \o pieces[n]

\* The library's FlattenSeq joins the pieces from the first to the last.
LEMMA FlattenIs ==
  ASSUME NEW S, NEW N \in Nat, NEW pieces \in [1 .. N -> Seq(S)],
         NEW h, JoinsOf(S, h, pieces, N)
  PROVE  FlattenSeq(pieces) = h[N]
<1> DEFINE flatten == CHOOSE flatten : flatten = [i \in 1 .. N |->
                        IF i = 1 THEN pieces[i] ELSE flatten[i - 1] \o pieces[i]]
           g == [i \in 1 .. N |-> h[i]]
<1>1. pieces \in Seq(Seq(S)) /\ Len(pieces) = N
  OBVIOUS
<1>2. CASE N = 0
  <2>1. pieces = <<>>
    BY <1>1, <1>2, EmptySeq
  <2>2. FlattenSeq(pieces) = <<>>
    BY <1>1, <1>2, <2>1 DEF FlattenSeq
  <2>3. QED
    BY <1>2, <2>2 DEF JoinsOf
<1>3. CASE N > 0
  <2>1. FlattenSeq(pieces) = flatten[N]
    BY <1>1, <1>3 DEF FlattenSeq
  <2>2. /\ h[0] = <<>> /\ \A n \in 1 .. N : h[n] = h[n - 1] \o pieces[n]
    BY DEF JoinsOf
  <2>3. ASSUME NEW i \in 1 .. N
        PROVE  g[i] = IF i = 1 THEN pieces[i] ELSE g[i - 1] \o pieces[i]
    <3>1. CASE i = 1
      <4>1. pieces[1] \in Seq(S) /\ h[1] = <<>> \o pieces[1]
        <5>1. 1 \in 1 .. N /\ 1 - 1 = 0
          BY <1>3
        <5>2. QED
          BY <2>2, <5>1
      <4>2. <<>> \o pieces[1] = pieces[1]
        BY <4>1, EmptyIsNeutral
      <4>3. QED
        BY <3>1, <4>1, <4>2
    <3>2. CASE i # 1
      <4>1. i - 1 \in 1 .. N
        BY <3>2
      <4>2. QED
        BY <2>2, <3>2, <4>1
    <3>3. QED
      BY <3>1, <3>2
  <2>4. g = [i \in 1 .. N |-> g[i]]
    OBVIOUS
  <2>5. g[N] = h[N]
    BY <1>3
  <2> HIDE DEF g
  <2>6. g = [i \in 1 .. N |-> IF i = 1 THEN pieces[i] ELSE g[i - 1] \o pieces[i]]
    BY <2>3, <2>4, Zenon
  <2>7. flatten = [i \in 1 .. N |-> IF i = 1 THEN pieces[i] ELSE flatten[i - 1] \o pieces[i]]
    BY <2>6, Zenon
  <2> HIDE DEF flatten
  <2>8. ASSUME NEW i \in 1 .. N
        PROVE  flatten[i] = IF i = 1 THEN pieces[i] ELSE flatten[i - 1] \o pieces[i]
    BY <2>7
  <2>9. flatten[N] = g[N]
    <3> DEFINE T == {i \in 0 .. N : i > 0 => flatten[i] = g[i]}
    <3>1. 0 \in T
      OBVIOUS
    <3>2. ASSUME NEW i \in 0 .. N - 1, i \in T
          PROVE  i + 1 \in T
      <4>1. i + 1 \in 1 .. N /\ i + 1 \in 0 .. N /\ (i + 1) - 1 = i /\ (i + 1 = 1 <=> ~ (i > 0))
        OBVIOUS
      <4>2. flatten[i + 1] = g[i + 1]
        BY <2>3, <2>8, <3>2, <4>1
      <4>3. QED
        BY <4>1, <4>2
    <3> HIDE DEF T
    <3>3. \A i \in 0 .. N : i \in T
      BY <3>1, <3>2, Induction
    <3>4. QED
      BY <1>3, <3>3 DEF T
  <2>10. QED
    BY <2>1, <2>5, <2>9
<1>4. QED
  BY <1>2, <1>3

\* Such joins exist, so FlattenSeq has its recursion.
LEMMA JoinsExist ==
  ASSUME NEW S, NEW N \in Nat, NEW pieces \in [1 .. N -> Seq(S)]
  PROVE  \E h : JoinsOf(S, h, pieces, N)
<1> DEFINE add == [n \in 1 .. N |-> [x \in Seq(S) |-> x \o pieces[n]]]
<1>1. \A n \in 1 .. N : \A x \in Seq(S) : x \o pieces[n] \in Seq(S)
  BY ConcatProperties
<1>2. StepsIn(Seq(S), N, add)
  BY <1>1 DEF StepsIn
<1>3. \A n \in 1 .. N : \A x \in Seq(S) : add[n][x] = x \o pieces[n]
  OBVIOUS
<1>4. <<>> \in Seq(S)
  BY EmptySeq
<1> HIDE DEF add
<1>5. PICK h : Follows(h, Seq(S), <<>>, N, add)
  BY <1>2, <1>4, Recursion
<1>6. h \in [0 .. N -> Seq(S)] /\ h[0] = <<>> /\ \A n \in 1 .. N : h[n] = add[n][h[n - 1]]
  BY <1>5 DEF Follows
<1>7. \A n \in 1 .. N : h[n - 1] \in Seq(S)
  <2>1. \A n \in 1 .. N : n - 1 \in 0 .. N
    OBVIOUS
  <2>2. QED
    BY <1>6, <2>1
<1>8. \A n \in 1 .. N : h[n] = h[n - 1] \o pieces[n]
  BY <1>3, <1>6, <1>7
<1>9. QED
  BY <1>6, <1>8 DEF JoinsOf

\* Empty pieces join to nothing.
LEMMA FlattenNone ==
  ASSUME NEW S, NEW N \in Nat, NEW pieces \in [1 .. N -> Seq(S)],
         \A n \in 1 .. N : pieces[n] = <<>>
  PROVE  FlattenSeq(pieces) = <<>>
<1> DEFINE h == [n \in 0 .. N |-> <<>>]
<1>1. <<>> \in Seq(S) /\ <<>> \o <<>> = <<>>
  BY EmptySeq, EmptyIsNeutral
<1>2. \A n \in 1 .. N : n \in 0 .. N /\ n - 1 \in 0 .. N
  OBVIOUS
<1>3. h \in [0 .. N -> Seq(S)] /\ \A n \in 0 .. N : h[n] = <<>>
  BY <1>1
<1>4. 0 \in 0 .. N /\ N \in 0 .. N
  OBVIOUS
<1> HIDE DEF h
<1>5. JoinsOf(S, h, pieces, N)
  BY <1>1, <1>2, <1>3, <1>4 DEF JoinsOf
<1>6. FlattenSeq(pieces) = h[N]
  BY <1>5, FlattenIs
<1>7. QED
  BY <1>3, <1>4, <1>6

\* Pieces over a set join to a sequence over it.
LEMMA FlattenProper ==
  ASSUME NEW S, NEW N \in Nat, NEW pieces \in [1 .. N -> Seq(S)]
  PROVE  FlattenSeq(pieces) \in Seq(S)
<1>1. PICK h : JoinsOf(S, h, pieces, N)
  BY JoinsExist
<1>2. FlattenSeq(pieces) = h[N]
  BY <1>1, FlattenIs
<1>3. h \in [0 .. N -> Seq(S)] /\ N \in 0 .. N
  BY <1>1 DEF JoinsOf
<1>4. QED
  BY <1>2, <1>3

\* One more piece, after which there is none.
AddsPiece(S, pieces, more, i, N) ==
  /\ N \in Nat /\ pieces \in [1 .. N -> Seq(S)] /\ more \in [1 .. N -> Seq(S)]
  /\ i \in 1 .. N
  /\ \A j \in 1 .. N : j # i => more[j] = pieces[j]
  /\ \A j \in i .. N : pieces[j] = <<>>

\* A piece after which there is none goes to the end.
LEMMA FlattenGrows ==
  ASSUME NEW S, NEW pieces, NEW more, NEW i, NEW N, AddsPiece(S, pieces, more, i, N)
  PROVE  /\ FlattenSeq(pieces) \in Seq(S)
         /\ FlattenSeq(more) = FlattenSeq(pieces) \o more[i]
<1>1. /\ N \in Nat /\ pieces \in [1 .. N -> Seq(S)] /\ more \in [1 .. N -> Seq(S)]
      /\ i \in 1 .. N
      /\ \A j \in 1 .. N : j # i => more[j] = pieces[j]
      /\ \A j \in i .. N : pieces[j] = <<>>
  BY DEF AddsPiece
<1>2. PICK h : JoinsOf(S, h, pieces, N)
  BY <1>1, JoinsExist
<1>3. PICK g : JoinsOf(S, g, more, N)
  BY <1>1, JoinsExist
<1>4. /\ \A n \in 0 .. N : h[n] \in Seq(S) /\ g[n] \in Seq(S)
      /\ h[0] = <<>> /\ g[0] = <<>>
      /\ \A n \in 1 .. N : h[n] = h[n - 1] \o pieces[n] /\ g[n] = g[n - 1] \o more[n]
  BY <1>1, <1>2, <1>3 DEF JoinsOf
<1>5. more[i] \in Seq(S)
  BY <1>1
<1>6. \A a \in Seq(S) : a \o <<>> = a
  BY EmptyIsNeutral
<1> DEFINE T == {n \in 0 .. N : g[n] = IF n < i THEN h[n] ELSE h[n] \o more[i]}
<1>7. 0 \in T
  <2>1. 0 \in 0 .. N /\ 0 < i
    BY <1>1
  <2>2. g[0] = h[0]
    BY <1>4
  <2>3. QED
    BY <2>1, <2>2
<1>8. ASSUME NEW n \in 0 .. N - 1, n \in T
      PROVE  n + 1 \in T
  <2>1. n \in 0 .. N /\ n + 1 \in 0 .. N /\ n + 1 \in 1 .. N /\ (n + 1) - 1 = n /\ i \in Nat
    BY <1>1
  <2>2. /\ h[n + 1] = h[n] \o pieces[n + 1] /\ g[n + 1] = g[n] \o more[n + 1]
        /\ h[n] \in Seq(S) /\ h[n + 1] \in Seq(S)
    BY <1>4, <2>1
  <2>3. g[n] = IF n < i THEN h[n] ELSE h[n] \o more[i]
    BY <1>8
  <2>4. CASE n + 1 < i
    <3>1. n < i /\ n + 1 # i
      BY <2>1, <2>4
    <3>2. g[n + 1] = h[n + 1]
      BY <1>1, <2>1, <2>2, <2>3, <3>1
    <3>3. QED
      BY <2>1, <2>4, <3>2
  <2>5. CASE n + 1 = i
    <3>1. n < i /\ ~ (n + 1 < i) /\ n + 1 \in i .. N
      BY <2>1, <2>5
    <3>2. h[n + 1] = h[n]
      BY <1>1, <1>6, <2>2, <3>1
    <3>3. g[n + 1] = h[n + 1] \o more[i]
      BY <2>2, <2>3, <2>5, <3>1, <3>2
    <3>4. QED
      BY <2>1, <3>1, <3>3
  <2>6. CASE i < n + 1
    <3>1. ~ (n < i) /\ ~ (n + 1 < i) /\ n + 1 \in i .. N /\ n + 1 # i
      BY <2>1, <2>6
    <3>2. pieces[n + 1] = <<>> /\ more[n + 1] = <<>>
      BY <1>1, <2>1, <3>1
    <3>3. h[n + 1] = h[n] /\ g[n] = h[n] \o more[i]
      BY <1>6, <2>2, <2>3, <3>1, <3>2
    <3>4. h[n] \o more[i] \in Seq(S)
      BY <1>5, <2>2, ConcatProperties
    <3>5. g[n + 1] = h[n + 1] \o more[i]
      BY <1>6, <2>2, <3>2, <3>3, <3>4
    <3>6. QED
      BY <2>1, <3>1, <3>5
  <2>7. QED
    BY <2>1, <2>4, <2>5, <2>6
<1> HIDE DEF T
<1>9. N \in T
  <2>1. \A n \in 0 .. N : n \in T
    BY <1>1, <1>7, <1>8, Induction
  <2>2. QED
    BY <1>1, <2>1
<1>10. g[N] = h[N] \o more[i]
  <2>1. ~ (N < i)
    BY <1>1
  <2>2. QED
    BY <1>9, <2>1 DEF T
<1>11. FlattenSeq(pieces) = h[N] /\ FlattenSeq(more) = g[N]
  BY <1>1, <1>2, <1>3, FlattenIs
<1>12. h[N] \in Seq(S)
  BY <1>1, <1>4
<1>13. QED
  BY <1>10, <1>11, <1>12

\* No piece, one piece, and the pieces of two lists.
LEMMA FlattenEmpty == FlattenSeq(<<>>) = <<>>
BY DEF FlattenSeq

\* Two lists of pieces may be joined each on its own.
LEMMA FlattenConcat ==
  ASSUME NEW S, NEW a \in Seq(Seq(S)), NEW b \in Seq(Seq(S))
  PROVE  FlattenSeq(a \o b) = FlattenSeq(a) \o FlattenSeq(b)
<1> DEFINE M == Len(a)
           N == Len(b)
           c == a \o b
<1>1. /\ M \in Nat /\ N \in Nat /\ a \in [1 .. M -> Seq(S)] /\ b \in [1 .. N -> Seq(S)]
      /\ c \in [1 .. M + N -> Seq(S)]
      /\ \A n \in 1 .. M : c[n] = a[n]
      /\ \A n \in M + 1 .. M + N : c[n] = b[n - M]
  <2>1. M \in Nat /\ N \in Nat /\ a \in [1 .. M -> Seq(S)] /\ b \in [1 .. N -> Seq(S)]
    OBVIOUS
  <2>2. /\ c \in [1 .. M + N -> Seq(S)]
        /\ \A n \in 1 .. M + N : c[n] = IF n <= M THEN a[n] ELSE b[n - M]
    <3>1. PICK X : X = Seq(S)
      OBVIOUS
    <3>2. a \in Seq(X) /\ b \in Seq(X)
      BY <3>1
    <3>3. /\ c \in Seq(X) /\ Len(c) = M + N
          /\ \A n \in 1 .. M + N : c[n] = IF n <= M THEN a[n] ELSE b[n - M]
      BY <3>2, ConcatProperties
    <3> HIDE DEF c
    <3>4. c \in [1 .. M + N -> X]
      BY <3>3
    <3>5. QED
      BY <3>1, <3>3, <3>4, Zenon
  <2>5. /\ \A n \in 1 .. M : n \in 1 .. M + N /\ n <= M
        /\ \A n \in M + 1 .. M + N : n \in 1 .. M + N /\ ~ (n <= M)
    BY <2>1
  <2>6. QED
    BY <2>1, <2>2, <2>5
<1> HIDE DEF M, N, c
<1>2. PICK f : JoinsOf(S, f, a, M)
  BY <1>1, JoinsExist
<1>3. PICK g : JoinsOf(S, g, b, N)
  BY <1>1, JoinsExist
<1>4. /\ \A n \in 0 .. M : f[n] \in Seq(S)
      /\ f[0] = <<>> /\ \A n \in 1 .. M : f[n] = f[n - 1] \o a[n]
  BY <1>2 DEF JoinsOf
<1>5. /\ \A n \in 0 .. N : g[n] \in Seq(S)
      /\ g[0] = <<>> /\ \A n \in 1 .. N : g[n] = g[n - 1] \o b[n]
  BY <1>3 DEF JoinsOf
<1>6. f[M] \in Seq(S) /\ g[N] \in Seq(S)
  BY <1>1, <1>4, <1>5
<1> DEFINE h == [n \in 0 .. M + N |-> IF n <= M THEN f[n] ELSE f[M] \o g[n - M]]
<1>7. /\ \A n \in 0 .. M : h[n] = f[n]
      /\ \A n \in M + 1 .. M + N : h[n] = f[M] \o g[n - M]
      /\ DOMAIN h = 0 .. M + N /\ h = [n \in 0 .. M + N |-> h[n]]
  <2>1. /\ \A n \in 0 .. M : n \in 0 .. M + N /\ n <= M
        /\ \A n \in M + 1 .. M + N : n \in 0 .. M + N /\ ~ (n <= M)
    BY <1>1
  <2>2. QED
    BY <2>1
<1> HIDE DEF h
<1>8. \A n \in M .. M + N : h[n] = f[M] \o g[n - M]
  <2>1. h[M] = f[M] /\ M - M = 0
    <3>1. M \in 0 .. M /\ M - M = 0
      BY <1>1
    <3>2. QED
      BY <1>7, <3>1
  <2>2. f[M] \o g[0] = f[M]
    BY <1>5, <1>6, EmptyIsNeutral
  <2>3. \A n \in M .. M + N : n = M \/ n \in M + 1 .. M + N
    BY <1>1
  <2>4. QED
    BY <1>7, <2>1, <2>2, <2>3
<1>9. \A n \in 0 .. M + N : h[n] \in Seq(S)
  <2>1. TAKE n \in 0 .. M + N
  <2>2. CASE n \in 0 .. M
    BY <1>4, <1>7, <2>2
  <2>3. CASE n \in M + 1 .. M + N
    <3>1. n - M \in 0 .. N
      BY <1>1, <2>3
    <3>2. h[n] = f[M] \o g[n - M] /\ g[n - M] \in Seq(S)
      BY <1>5, <1>7, <2>3, <3>1
    <3>3. QED
      BY <1>6, <3>2, ConcatProperties
  <2>4. n \in 0 .. M \/ n \in M + 1 .. M + N
    BY <1>1
  <2>5. QED
    BY <2>2, <2>3, <2>4
<1>10. ASSUME NEW n \in 1 .. M + N
       PROVE  h[n] = h[n - 1] \o c[n]
  <2>1. CASE n \in 1 .. M
    <3>1. n \in 0 .. M /\ n - 1 \in 0 .. M
      BY <1>1, <2>1
    <3>2. QED
      BY <1>1, <1>4, <1>7, <2>1, <3>1
  <2>2. CASE n \in M + 1 .. M + N
    <3>1. /\ n - 1 \in M .. M + N /\ n \in M .. M + N /\ n - M \in 1 .. N
          /\ (n - 1) - M = (n - M) - 1 /\ (n - M) - 1 \in 0 .. N
      BY <1>1, <2>2
    <3>2. /\ h[n] = f[M] \o g[n - M] /\ h[n - 1] = f[M] \o g[(n - M) - 1]
          /\ g[n - M] = g[(n - M) - 1] \o b[n - M] /\ c[n] = b[n - M]
          /\ b[n - M] \in Seq(S) /\ g[(n - M) - 1] \in Seq(S)
      BY <1>1, <1>5, <1>8, <2>2, <3>1
    <3>3. PICK x, y, z : x = f[M] /\ y = g[(n - M) - 1] /\ z = b[n - M]
      OBVIOUS
    <3>4. x \in Seq(S) /\ y \in Seq(S) /\ z \in Seq(S)
      BY <1>6, <3>2, <3>3
    <3>5. (x \o y) \o z = x \o (y \o z)
      BY <3>4, ConcatAssociative
    <3>6. QED
      BY <3>2, <3>3, <3>5
  <2>3. n \in 1 .. M \/ n \in M + 1 .. M + N
    BY <1>1
  <2>4. QED
    BY <2>1, <2>2, <2>3
<1>11. M + N \in Nat /\ h[0] = <<>>
  <2>1. 0 \in 0 .. M /\ M + N \in Nat
    BY <1>1
  <2>2. QED
    BY <1>4, <1>7, <2>1
<1>12. JoinsOf(S, h, c, M + N)
  BY <1>7, <1>9, <1>10, <1>11 DEF JoinsOf
<1>13. FlattenSeq(c) = h[M + N] /\ FlattenSeq(a) = f[M] /\ FlattenSeq(b) = g[N]
  BY <1>1, <1>2, <1>3, <1>11, <1>12, FlattenIs
<1>14. h[M + N] = f[M] \o g[N]
  <2>1. M + N \in M .. M + N /\ (M + N) - M = N
    BY <1>1
  <2>2. QED
    BY <1>8, <2>1
<1>15. QED
  BY <1>13, <1>14 DEF c

\* One piece is itself.
LEMMA FlattenOne ==
  ASSUME NEW S, NEW x \in Seq(S)
  PROVE  FlattenSeq(<< x >>) = x
<1> DEFINE h == [n \in 0 .. 1 |-> IF n = 0 THEN <<>> ELSE x]
           pieces == << x >>
<1>1. pieces \in [1 .. 1 -> Seq(S)] /\ pieces[1] = x
  OBVIOUS
<1>2. h[0] = <<>> /\ h[1] = x /\ h \in [0 .. 1 -> Seq(S)]
  <2>1. <<>> \in Seq(S)
    OBVIOUS
  <2>2. QED
    BY <2>1
<1> HIDE DEF h, pieces
<1>3. \A n \in 1 .. 1 : n = 1 /\ n - 1 = 0
  OBVIOUS
<1>4. <<>> \o x = x
  BY EmptyIsNeutral
<1>5. JoinsOf(S, h, pieces, 1)
  BY <1>1, <1>2, <1>3, <1>4 DEF JoinsOf
<1>6. FlattenSeq(pieces) = h[1]
  BY <1>1, <1>5, FlattenIs
<1>7. QED
  BY <1>2, <1>6 DEF pieces

\* The first piece comes first.
LEMMA FlattenCons ==
  ASSUME NEW S, NEW x \in Seq(S), NEW rest \in Seq(Seq(S))
  PROVE  FlattenSeq(<< x >> \o rest) = x \o FlattenSeq(rest)
<1>1. << x >> \in Seq(Seq(S))
  <2>1. PICK X : X = Seq(S)
    OBVIOUS
  <2>2. x \in X
    BY <2>1
  <2>3. << x >> \in Seq(X)
    BY <2>2
  <2>4. QED
    BY <2>1, <2>3
<1>2. FlattenSeq(<< x >>) = x
  BY FlattenOne
<1>3. FlattenSeq(<< x >> \o rest) = FlattenSeq(<< x >>) \o FlattenSeq(rest)
  BY <1>1, FlattenConcat
<1>4. QED
  BY <1>2, <1>3

\* A list of pieces joins to a sequence.
LEMMA FlattenType ==
  ASSUME NEW S, NEW pieces \in Seq(Seq(S))
  PROVE  FlattenSeq(pieces) \in Seq(S)
<1>1. Len(pieces) \in Nat /\ pieces \in [1 .. Len(pieces) -> Seq(S)]
  OBVIOUS
<1>2. QED
  BY <1>1, FlattenProper

\* As many as all pieces have.
LEMMA FlattenLength ==
  ASSUME NEW S, NEW pieces \in Seq(Seq(S))
  PROVE  Len(FlattenSeq(pieces)) = Sum([k \in DOMAIN pieces |-> Len(pieces[k])])
<1> DEFINE N == Len(pieces)
           numbers == [k \in DOMAIN pieces |-> Len(pieces[k])]
<1>1. N \in Nat /\ pieces \in [1 .. N -> Seq(S)] /\ DOMAIN pieces = 1 .. N
  OBVIOUS
<1>2. \A k \in 1 .. N : numbers[k] = Len(pieces[k]) /\ numbers[k] \in Nat
  BY <1>1, LenProperties
<1>3. numbers \in Seq(Nat) /\ Len(numbers) = N
  BY <1>1, <1>2
<1> HIDE DEF N, numbers
<1>4. PICK h : JoinsOf(S, h, pieces, N)
  BY <1>1, JoinsExist
<1>5. PICK f : SumsOf(f, numbers) /\ Sum(numbers) = f[N]
  BY <1>3, SumIs
<1>6. /\ \A n \in 0 .. N : h[n] \in Seq(S)
      /\ h[0] = <<>> /\ \A n \in 1 .. N : h[n] = h[n - 1] \o pieces[n]
  BY <1>4 DEF JoinsOf
<1>7. f[0] = 0 /\ \A n \in 1 .. N : f[n] = f[n - 1] + numbers[n]
  BY <1>3, <1>5 DEF SumsOf
<1> DEFINE g == [n \in 0 .. N |-> Len(h[n])]
<1>8. \A n \in 0 .. N : g[n] = Len(h[n])
  OBVIOUS
<1> HIDE DEF g
<1>9. 0 \in 0 .. N /\ N \in 0 .. N
  BY <1>1
<1>10. f[0] = g[0]
  BY <1>6, <1>7, <1>8, <1>9
<1>11. ASSUME NEW n \in 1 .. N, f[n - 1] = g[n - 1]
       PROVE  f[n] = g[n]
  <2>1. n \in 0 .. N /\ n - 1 \in 0 .. N
    BY <1>1
  <2>2. h[n - 1] \in Seq(S) /\ pieces[n] \in Seq(S) /\ h[n] = h[n - 1] \o pieces[n]
    BY <1>1, <1>6, <2>1
  <2>3. Len(h[n]) = Len(h[n - 1]) + Len(pieces[n])
    BY <2>2, ConcatProperties
  <2>4. QED
    BY <1>2, <1>7, <1>8, <1>11, <2>1, <2>3
<1>12. f[N] = g[N]
  BY <1>1, <1>10, <1>11, SameRecursion
<1>13. FlattenSeq(pieces) = h[N]
  BY <1>1, <1>4, FlattenIs
<1>14. QED
  BY <1>5, <1>8, <1>9, <1>12, <1>13 DEF numbers

-----------------------------------------------------------------------------
(***************************************************************************)
(* Characters                                                              *)
(***************************************************************************)
\* A continuation byte starts no character.
LEMMA ContinuationLeadsNothing ==
  ASSUME NEW c \in Continuation
  PROVE  c \notin Ascii /\ \A w \in 2 .. 4 : c \notin Lead[w]
BY DEF Continuation, Ascii, Lead

\* A lead byte is nothing else, and of one width.
LEMMA LeadBytes ==
  ASSUME NEW c, NEW w \in 2 .. 4, c \in Lead[w]
  PROVE  /\ c \notin Ascii /\ c \notin Continuation /\ c # Slash
         /\ \A v \in 2 .. 4 : c \in Lead[v] => v = w
<1>1. Lead[2] = 194 .. 223 /\ Lead[3] = 224 .. 239 /\ Lead[4] = 240 .. 244
  BY DEF Lead
<1>2. w = 2 \/ w = 3 \/ w = 4
  OBVIOUS
<1>3. c \in 194 .. 244
  BY <1>1, <1>2
<1>4. c \notin Ascii /\ c \notin Continuation /\ c # Slash
  BY <1>3 DEF Ascii, Continuation, Slash
<1>5. ASSUME NEW v \in 2 .. 4, c \in Lead[v]
      PROVE  v = w
  <2>1. v = 2 \/ v = 3 \/ v = 4
    OBVIOUS
  <2>2. QED
    BY <1>1, <1>2, <1>5, <2>1
<1>6. QED
  BY <1>4, <1>5

\* The bytes that follow a lead byte continue its character.
LEMMA LeadIsFollowed ==
  ASSUME NEW s \in Seq(Byte), Utf8(s), NEW p \in 1 .. Len(s), NEW w \in 2 .. 4, s[p] \in Lead[w]
  PROVE  /\ p + w - 1 <= Len(s)
         /\ s[p + 1] \in Second(s[p])
         /\ \A k \in 1 .. w - 1 : s[p + k] \in Continuation
<1>1. s[p] \notin Ascii /\ s[p] \notin Continuation
  BY LeadBytes
<1>2. PICK v \in 2 .. 4 : /\ s[p] \in Lead[v]
                          /\ p + v - 1 <= Len(s)
                          /\ s[p + 1] \in Second(s[p])
                          /\ \A k \in 1 .. v - 1 : s[p + k] \in Continuation
  BY <1>1 DEF Utf8
<1>3. v = w
  BY <1>2, LeadBytes
<1>4. QED
  BY <1>2, <1>3

\* What follows the last byte of a character starts one.
LEMMA CharEnds ==
  ASSUME NEW s \in Seq(Byte), Utf8(s), NEW p \in 1 .. Len(s), NEW w \in 1 .. 4,
         w = 1 => s[p] \in Ascii, w > 1 => s[p] \in Lead[w],
         p + w <= Len(s)
  PROVE  s[p + w] \notin Continuation
<1>1. SUFFICES ASSUME s[p + w] \in Continuation PROVE FALSE
  OBVIOUS
<1>2. PICK k \in 1 .. 3, v \in 2 .. 4 : k < v /\ k < p + w /\ s[p + w - k] \in Lead[v]
  <2>1. p + w \in 1 .. Len(s)
    OBVIOUS
  <2>2. s[p + w] \notin Ascii /\ \A v \in 2 .. 4 : s[p + w] \notin Lead[v]
    BY <1>1, ContinuationLeadsNothing
  <2>3. QED
    BY <2>1, <2>2 DEF Utf8
<1>3. CASE k = w
  <2>1. p + w - k = p
    BY <1>3
  <2>2. w # 1
    BY <1>2, <2>1, LeadBytes
  <2>3. w \in 2 .. 4 /\ s[p] \in Lead[w]
    BY <2>2
  <2>4. v = w
    BY <1>2, <2>1, <2>3, LeadBytes
  <2>5. QED
    BY <1>2, <1>3, <2>4
<1>4. CASE k < w
  <2>1. w \in 2 .. 4 /\ s[p] \in Lead[w] /\ w - k \in 1 .. w - 1 /\ p + w - k = p + (w - k)
    BY <1>4
  <2>2. s[p + w - k] \in Continuation
    BY <2>1, LeadIsFollowed
  <2>3. QED
    BY <1>2, <2>2, LeadBytes
<1>5. CASE k > w
  <2> DEFINE q == p + w - k
  <2>1. q \in 1 .. Len(s) /\ k - w \in 1 .. v - 1 /\ q + (k - w) = p
    BY <1>2, <1>5
  <2>2. s[q] \in Lead[v]
    BY <1>2
  <2> HIDE DEF q
  <2>3. s[p] \in Continuation
    BY <2>1, <2>2, LeadIsFollowed
  <2>4. QED
    <3>1. CASE w = 1
      BY <2>3, <3>1, ContinuationLeadsNothing
    <3>2. CASE w # 1
      BY <2>3, <3>2, LeadBytes
    <3>3. QED
      BY <3>1, <3>2
<1>6. QED
  BY <1>3, <1>4, <1>5

\* A text that starts, starts with a character.
LEMMA TextStarts ==
  ASSUME NEW s \in Seq(Byte), Utf8(s), Len(s) > 0
  PROVE  s[1] \notin Continuation
<1>1. SUFFICES ASSUME s[1] \in Continuation PROVE FALSE
  OBVIOUS
<1>2. s[1] \notin Ascii /\ \A w \in 2 .. 4 : s[1] \notin Lead[w]
  BY <1>1, ContinuationLeadsNothing
<1>3. QED
  BY <1>2 DEF Utf8

\* A text and one more character are a text.
LEMMA AppendChar ==
  ASSUME NEW s \in Seq(Byte), Utf8(s), NEW t \in Seq(Byte), NEW w \in 1 .. 4, Len(t) = w,
         w = 1 => t[1] \in Ascii,
         w > 1 => t[1] \in Lead[w] /\ t[2] \in Second(t[1]),
         \A k \in 1 .. w - 1 : t[1 + k] \in Continuation
  PROVE  Utf8(s \o t)
<1> DEFINE u == s \o t
           n == Len(s)
<1>1. /\ u \in Seq(Byte) /\ Len(u) = n + Len(t) /\ n \in Nat
      /\ \A p \in 1 .. n : u[p] = s[p]
      /\ \A k \in 1 .. Len(t) : u[n + k] = t[k]
  OBVIOUS
<1> HIDE DEF u
<1>2. ASSUME NEW p \in 1 .. Len(u)
      PROVE  \/ u[p] \in Ascii
             \/ \E v \in 2 .. 4 :
                  /\ u[p] \in Lead[v]
                  /\ p + v - 1 <= Len(u)
                  /\ u[p + 1] \in Second(u[p])
                  /\ \A k \in 1 .. v - 1 : u[p + k] \in Continuation
             \/ /\ u[p] \in Continuation
                /\ \E k \in 1 .. 3, v \in 2 .. 4 : k < v /\ k < p /\ u[p - k] \in Lead[v]
  <2>1. CASE p <= n
    <3>1. u[p] = s[p] /\ p \in 1 .. Len(s)
      BY <1>1, <2>1
    <3>2. CASE s[p] \in Ascii
      BY <3>1, <3>2
    <3>3. CASE \E v \in 2 .. 4 :
                 /\ s[p] \in Lead[v]
                 /\ p + v - 1 <= Len(s)
                 /\ s[p + 1] \in Second(s[p])
                 /\ \A k \in 1 .. v - 1 : s[p + k] \in Continuation
      <4>1. PICK v \in 2 .. 4 : /\ s[p] \in Lead[v]
                                /\ p + v - 1 <= Len(s)
                                /\ s[p + 1] \in Second(s[p])
                                /\ \A k \in 1 .. v - 1 : s[p + k] \in Continuation
        BY <3>3
      <4>2. \A k \in 1 .. v - 1 : p + k \in 1 .. n
        BY <3>1, <4>1
      <4>3. \A k \in 1 .. v - 1 : u[p + k] = s[p + k]
        BY <1>1, <4>2
      <4>4. u[p + 1] = s[p + 1] /\ p + v - 1 <= Len(u)
        BY <1>1, <4>1, <4>3
      <4>5. QED
        BY <3>1, <4>1, <4>3, <4>4
    <3>4. CASE /\ s[p] \in Continuation
               /\ \E k \in 1 .. 3, v \in 2 .. 4 : k < v /\ k < p /\ s[p - k] \in Lead[v]
      <4>1. PICK k \in 1 .. 3, v \in 2 .. 4 : k < v /\ k < p /\ s[p - k] \in Lead[v]
        BY <3>4
      <4>2. p - k \in 1 .. n
        BY <1>1, <3>1, <4>1
      <4>3. u[p - k] = s[p - k]
        BY <1>1, <4>2
      <4>4. QED
        BY <3>1, <3>4, <4>1, <4>3
    <3>5. QED
      BY <3>1, <3>2, <3>3, <3>4 DEF Utf8
  <2>2. CASE p = n + 1
    <3>1. u[p] = t[1]
      BY <1>1, <2>2
    <3>2. CASE w = 1
      BY <3>1, <3>2
    <3>3. CASE w > 1
      <4>1. \A k \in 1 .. w - 1 : p + k = n + (1 + k) /\ 1 + k \in 1 .. Len(t)
        BY <1>1, <2>2
      <4>2. \A k \in 1 .. w - 1 : u[p + k] = t[1 + k]
        BY <1>1, <4>1
      <4>3. u[p + 1] = t[2] /\ p + w - 1 <= Len(u)
        BY <1>1, <2>2, <3>3, <4>2
      <4>4. w \in 2 .. 4
        BY <3>3
      <4>5. QED
        BY <3>1, <3>3, <4>2, <4>3, <4>4
    <3>4. QED
      BY <3>2, <3>3
  <2>3. CASE p > n + 1
    <3> DEFINE k == p - n - 1
    <3>1. k \in 1 .. w - 1 /\ p = n + (1 + k) /\ 1 + k \in 1 .. Len(t) /\ p - k = n + 1
      BY <1>1, <2>3
    <3> HIDE DEF k
    <3>2. u[p] = t[1 + k] /\ u[p - k] = t[1]
      BY <1>1, <3>1
    <3>3. w \in 2 .. 4 /\ k \in 1 .. 3 /\ k < w /\ k < p
      BY <1>1, <3>1
    <3>4. QED
      BY <3>1, <3>2, <3>3
  <2>4. p <= n \/ p = n + 1 \/ p > n + 1
    BY <1>1
  <2>5. QED
    BY <2>1, <2>2, <2>3, <2>4, Zenon
<1>3. QED
  BY <1>2 DEF Utf8, u

\* A text and ASCII bytes are a text.
LEMMA AppendAscii ==
  ASSUME NEW s \in Seq(Byte), Utf8(s), NEW c \in Ascii
  PROVE  Utf8(s \o << c >>)
<1> DEFINE t == << c >>
<1>1. t \in Seq(Byte) /\ Len(t) = 1 /\ t[1] = c /\ 1 \in 1 .. 4 /\ 1 .. 1 - 1 = {}
  BY DEF Ascii, Byte
<1> HIDE DEF t
<1>2. Utf8(s \o t)
  BY <1>1, AppendChar
<1>3. QED
  BY <1>2 DEF t

\* unhex() inverts hex(), and the two digits of a byte give it back.
LEMMA HexByte ==
  ASSUME NEW c \in Byte
  PROVE  /\ hex(c \div 16) \in HexDigit
         /\ hex(c % 16) \in HexDigit
         /\ (unhex(hex(c \div 16)) * 16) + unhex(hex(c % 16)) = c
<1>1. /\ c \div 16 \in 0 .. 15
      /\ c % 16 \in 0 .. 15
      /\ ((c \div 16) * 16) + (c % 16) = c
  BY DEF Byte
<1>2. ASSUME NEW d \in 0 .. 15
      PROVE  hex(d) \in HexDigit /\ unhex(hex(d)) = d
  <2>1. CASE d < 10
    <3>1. hex(d) = 48 + d /\ hex(d) \in Digit
      BY <2>1 DEF hex, Digit
    <3>2. QED
      BY <3>1 DEF unhex, HexDigit, Digit
  <2>2. CASE d >= 10
    <3>1. hex(d) = 97 + d - 10 /\ hex(d) \in 97 .. 102 /\ hex(d) \notin Digit
      BY <2>2 DEF hex, Digit
    <3>2. QED
      BY <3>1 DEF unhex, HexDigit, Digit
  <2>3. QED
    BY <2>1, <2>2
<1>3. QED
  BY <1>1, <1>2

\* The value of two hex digits fits a byte, so `hi * 16 + lo` cannot overflow.
LEMMA UnhexByte ==
  ASSUME NEW hi \in HexDigit, NEW lo \in HexDigit
  PROVE  (unhex(hi) * 16) + unhex(lo) \in Byte
<1>1. ASSUME NEW d \in HexDigit
      PROVE  unhex(d) \in 0 .. 15
  <2>1. CASE d \in Digit
    BY <2>1 DEF unhex, Digit
  <2>2. CASE d \in 97 .. 102
    BY <2>2 DEF unhex, Digit
  <2>3. CASE d \in 65 .. 70
    BY <2>3 DEF unhex, Digit
  <2>4. QED
    BY <2>1, <2>2, <2>3 DEF HexDigit
<1>2. QED
  BY <1>1 DEF Byte

\* ASCII bytes are UTF-8.
LEMMA AsciiIsUtf8 ==
  ASSUME NEW s \in Seq(Byte), \A p \in DOMAIN s : s[p] \in Ascii
  PROVE  Utf8(s)
BY DEF Utf8

-----------------------------------------------------------------------------
(***************************************************************************)
(* unescape()                                                              *)
(***************************************************************************)
\* Unescaped(key) is the function that its definition describes.
LEMMA UnescapedIs ==
  ASSUME NEW key \in Seq(Byte)
  PROVE  /\ Unescaped(key)[0] = <<>>
         /\ \A n \in 1 .. Len(key) :
              Unescaped(key)[n] = IF OutsideEscape(key, n)
                                  THEN Append(Unescaped(key)[n - 1], ByteAt(key, n))
                                  ELSE Unescaped(key)[n - 1]
<1> DEFINE N == Len(key)
           B == {ByteAt(key, n) : n \in 1 .. N}
           step == [n \in 1 .. N |-> [x \in Seq(B) |->
                      IF OutsideEscape(key, n) THEN Append(x, ByteAt(key, n)) ELSE x]]
<1>1. N \in Nat /\ <<>> \in Seq(B)
  OBVIOUS
<1>2. \A n \in 1 .. N : ByteAt(key, n) \in B
  OBVIOUS
<1> HIDE DEF B, N
<1>3. ASSUME NEW n \in 1 .. N, NEW x \in Seq(B)
      PROVE  /\ step[n][x] = IF OutsideEscape(key, n) THEN Append(x, ByteAt(key, n)) ELSE x
             /\ step[n][x] \in Seq(B)
  <2>1. step[n][x] = IF OutsideEscape(key, n) THEN Append(x, ByteAt(key, n)) ELSE x
    OBVIOUS
  <2>2. Append(x, ByteAt(key, n)) \in Seq(B)
    BY <1>2, AppendProperties
  <2>3. QED
    BY <2>1, <2>2
<1> HIDE DEF step
<1>4. StepsIn(Seq(B), N, step)
  BY <1>3 DEF StepsIn
<1>5. PICK h : Follows(h, Seq(B), <<>>, N, step)
  BY <1>1, <1>4, Recursion
<1>6. h \in [0 .. N -> Seq(B)] /\ h[0] = <<>> /\ \A n \in 1 .. N : h[n] = step[n][h[n - 1]]
  BY <1>5 DEF Follows
<1>7. ASSUME NEW n \in 0 .. N
      PROVE  h[n] = IF n = 0 THEN <<>>
                    ELSE IF OutsideEscape(key, n) THEN Append(h[n - 1], ByteAt(key, n))
                    ELSE h[n - 1]
  <2>1. CASE n = 0
    BY <1>6, <2>1
  <2>2. CASE n # 0
    <3>1. n \in 1 .. N /\ n - 1 \in 0 .. N
      BY <1>1, <2>2
    <3>2. h[n] = step[n][h[n - 1]] /\ h[n - 1] \in Seq(B)
      BY <1>6, <3>1
    <3>3. QED
      BY <1>3, <2>2, <3>1, <3>2
  <2>3. QED
    BY <2>1, <2>2
<1>8. h = [n \in 0 .. N |-> h[n]]
  BY <1>6
<1> DEFINE bytes == CHOOSE bytes : bytes = [n \in 0 .. N |->
                      IF n = 0 THEN <<>>
                      ELSE IF OutsideEscape(key, n) THEN Append(bytes[n - 1], ByteAt(key, n))
                      ELSE bytes[n - 1]]
<1>9. h = [n \in 0 .. N |->
             IF n = 0 THEN <<>>
             ELSE IF OutsideEscape(key, n) THEN Append(h[n - 1], ByteAt(key, n))
             ELSE h[n - 1]]
  BY <1>7, <1>8, Zenon
<1>10. bytes = [n \in 0 .. N |->
                  IF n = 0 THEN <<>>
                  ELSE IF OutsideEscape(key, n) THEN Append(bytes[n - 1], ByteAt(key, n))
                  ELSE bytes[n - 1]]
  BY <1>9, Zenon
<1>11. Unescaped(key) = bytes
  BY Zenon DEF Unescaped, N
<1> HIDE DEF bytes
<1>12. 0 \in 0 .. N /\ \A n \in 1 .. N : n \in 0 .. N /\ n # 0
  BY <1>1
<1>13. bytes[0] = <<>> /\ \A n \in 1 .. N :
         bytes[n] = IF OutsideEscape(key, n) THEN Append(bytes[n - 1], ByteAt(key, n))
                    ELSE bytes[n - 1]
  BY <1>10, <1>12
<1>14. QED
  BY <1>11, <1>13 DEF N

\* The first n bytes of `key` are whole escapes and plain bytes, and stand for
\* the bytes in `out`.
ReadSoFar(key, n, out) ==
  /\ n \in 0 .. Len(key)
  /\ OutsideEscape(key, n + 1)
  /\ \A p \in 1 .. n : p \notin BadEscapes(key)
  /\ Unescaped(key)[n] = out

\* In the beginning nothing is read.
LEMMA ReadsNothing ==
  ASSUME NEW key \in Seq(Byte)
  PROVE  ReadSoFar(key, 0, <<>>)
<1>1. 0 \in 0 .. Len(key) /\ Unescaped(key)[0] = <<>>
  BY UnescapedIs
<1>2. OutsideEscape(key, 0 + 1)
  BY DEF OutsideEscape
<1>3. QED
  BY <1>1, <1>2 DEF ReadSoFar

\* A byte that is no '%' stands for itself.
LEMMA ReadsByte ==
  ASSUME NEW key \in Seq(Byte), NEW n \in 0 .. Len(key) - 1, NEW out, ReadSoFar(key, n, out),
         key[n + 1] # Percent
  PROVE  ReadSoFar(key, n + 1, Append(out, key[n + 1]))
<1>1. n + 1 \in 1 .. Len(key) /\ n + 1 \in 0 .. Len(key) /\ (n + 1) - 1 = n
  OBVIOUS
<1>2. ByteAt(key, n + 1) = key[n + 1] /\ ~ EscapeAt(key, n + 1)
  BY DEF ByteAt, EscapeAt
<1>3. Unescaped(key)[n + 1] = Append(out, key[n + 1])
  BY <1>1, <1>2, UnescapedIs DEF ReadSoFar
<1>4. \A p \in 1 .. n + 1 : p \notin BadEscapes(key)
  <2>1. n + 1 \notin BadEscapes(key)
    BY <1>2 DEF BadEscapes
  <2>2. \A p \in 1 .. n + 1 : p \in 1 .. n \/ p = n + 1
    OBVIOUS
  <2>3. QED
    BY <2>1, <2>2 DEF ReadSoFar
<1>5. OutsideEscape(key, (n + 1) + 1)
  <2>1. (n + 1) + 1 - 1 = n + 1 /\ (n + 1) + 1 - 2 = n + 1 - 1
    OBVIOUS
  <2>2. n + 1 > 1 => ~ EscapeAt(key, n + 1 - 1)
    BY DEF ReadSoFar, OutsideEscape
  <2>3. QED
    BY <1>2, <2>1, <2>2 DEF OutsideEscape
<1>6. QED
  BY <1>1, <1>3, <1>4, <1>5 DEF ReadSoFar

\* A '%' and two hex digits stand for one byte.
LEMMA ReadsEscape ==
  ASSUME NEW key \in Seq(Byte), NEW n \in 0 .. Len(key) - 3, NEW out, ReadSoFar(key, n, out),
         key[n + 1] = Percent, key[n + 2] \in HexDigit, key[n + 3] \in HexDigit
  PROVE  ReadSoFar(key, n + 3, Append(out, (unhex(key[n + 2]) * 16) + unhex(key[n + 3])))
<1> DEFINE byte == (unhex(key[n + 2]) * 16) + unhex(key[n + 3])
<1>1. /\ n + 1 \in 1 .. Len(key) /\ n + 2 \in 1 .. Len(key) /\ n + 3 \in 1 .. Len(key)
      /\ n + 3 \in 0 .. Len(key) /\ (n + 1) - 1 = n /\ (n + 2) - 1 = n + 1
      /\ (n + 3) - 1 = n + 2 /\ (n + 3) - 2 = n + 1
      /\ (n + 1) + 1 = n + 2 /\ (n + 1) + 2 = n + 3
      /\ (n + 3) + 1 - 1 = n + 3 /\ (n + 3) + 1 - 2 = n + 2
  OBVIOUS
<1>2. EscapeAt(key, n + 1) /\ ~ EscapeAt(key, n + 2) /\ ~ EscapeAt(key, n + 3)
  <2>1. \A d \in HexDigit : d # Percent
    BY DEF HexDigit, Digit, Percent
  <2>2. QED
    BY <2>1 DEF EscapeAt
<1>3. ByteAt(key, n + 1) = byte /\ ValidAt(key, n + 1)
  BY <1>1, <1>2 DEF ByteAt, ValidAt
<1>4. Unescaped(key)[n + 1] = Append(out, byte)
  BY <1>1, <1>3, UnescapedIs DEF ReadSoFar
<1>5. ~ OutsideEscape(key, n + 2) /\ ~ OutsideEscape(key, n + 3)
  <2>1. n + 2 > 1 /\ n + 3 > 2 /\ 1 \in {1, 2} /\ 2 \in {1, 2}
    OBVIOUS
  <2>2. QED
    BY <1>1, <1>2, <2>1 DEF OutsideEscape
<1>6. Unescaped(key)[n + 3] = Append(out, byte)
  BY <1>1, <1>4, <1>5, UnescapedIs
<1>7. \A p \in 1 .. n + 3 : p \notin BadEscapes(key)
  <2>1. n + 1 \notin BadEscapes(key) /\ n + 2 \notin BadEscapes(key) /\ n + 3 \notin BadEscapes(key)
    BY <1>2, <1>3 DEF BadEscapes
  <2>2. \A p \in 1 .. n + 3 : p \in 1 .. n \/ p = n + 1 \/ p = n + 2 \/ p = n + 3
    OBVIOUS
  <2>3. QED
    BY <2>1, <2>2 DEF ReadSoFar
<1>8. OutsideEscape(key, (n + 3) + 1)
  BY <1>1, <1>2 DEF OutsideEscape
<1>9. QED
  BY <1>1, <1>6, <1>7, <1>8 DEF ReadSoFar

\* The whole text is read: it is decoded.
LEMMA ReadsAll ==
  ASSUME NEW key \in Seq(Byte), NEW out, ReadSoFar(key, Len(key), out)
  PROVE  Unescape(key) = FromUtf8(out)
<1>1. BadEscapes(key) = {}
  BY DEF BadEscapes, ReadSoFar
<1>2. QED
  BY <1>1 DEF Unescape, ReadSoFar

\* A '%' that starts no escape is the first of these: it is reported.
LEMMA ReadsBad ==
  ASSUME NEW key \in Seq(Byte), NEW n \in 0 .. Len(key) - 1, NEW out, ReadSoFar(key, n, out),
         key[n + 1] = Percent,
         ~ (n + 2 < Len(key) /\ key[n + 2] \in HexDigit /\ key[n + 3] \in HexDigit)
  PROVE  Unescape(key) = ErrAt("InvalidEscape", n)
<1>1. n + 1 \in DOMAIN key /\ (n + 1) + 1 = n + 2 /\ (n + 1) + 2 = n + 3 /\ (n + 1) - 1 = n
  OBVIOUS
<1>2. n + 3 <= Len(key) <=> n + 2 < Len(key)
  OBVIOUS
<1>3. n + 1 \in BadEscapes(key)
  BY <1>1, <1>2 DEF BadEscapes, EscapeAt, ValidAt
<1>4. \A p \in BadEscapes(key) : p \in 1 .. Len(key) /\ p \notin 1 .. n
  BY DEF BadEscapes, ReadSoFar
<1>5. \A p \in BadEscapes(key) : n + 1 <= p
  BY <1>4
<1>6. (CHOOSE p \in BadEscapes(key) : \A q \in BadEscapes(key) : p <= q) = n + 1
  <2>1. \A p \in BadEscapes(key) : (\A q \in BadEscapes(key) : p <= q) => p = n + 1
    BY <1>3, <1>4, <1>5
  <2>2. QED
    BY <1>3, <1>5, <2>1
<1>7. BadEscapes(key) # {}
  BY <1>3
<1>8. QED
  BY <1>1, <1>6, <1>7 DEF Unescape

-----------------------------------------------------------------------------
(***************************************************************************)
(* Decimal numbers                                                         *)
(***************************************************************************)
LEMMA ByteIsNumber == \A c \in Byte : c \in Int
BY DEF Byte

\* Numbers(s, from) is the function that its definition describes.
LEMMA NumbersAre ==
  ASSUME NEW s \in Seq(Byte), NEW from \in 1 .. 2
  PROVE  /\ Numbers(s, from) \in [0 .. Len(s) -> Int]
         /\ Numbers(s, from)[0] = 0
         /\ \A p \in 1 .. Len(s) :
              Numbers(s, from)[p] = IF p < from THEN 0
                                    ELSE (Numbers(s, from)[p - 1] * 10) + s[p] - 48
<1> DEFINE N == Len(s)
           step == [n \in 1 .. N |-> [x \in Int |-> IF n < from THEN 0 ELSE (x * 10) + s[n] - 48]]
<1>1. N \in Nat /\ 0 \in Int
  OBVIOUS
<1>2. ASSUME NEW n \in 1 .. N, NEW x \in Int
      PROVE  /\ step[n][x] = IF n < from THEN 0 ELSE (x * 10) + s[n] - 48
             /\ step[n][x] \in Int
  <2>1. s[n] \in Int
    <3>1. s[n] \in Byte
      OBVIOUS
    <3>2. QED
      BY <3>1, ByteIsNumber
  <2>2. (x * 10) + s[n] - 48 \in Int
    BY <2>1
  <2>3. step[n][x] = IF n < from THEN 0 ELSE (x * 10) + s[n] - 48
    OBVIOUS
  <2>4. QED
    BY <2>2, <2>3
<1> HIDE DEF N, step
<1>3. StepsIn(Int, N, step)
  BY <1>2 DEF StepsIn
<1>4. PICK h : Follows(h, Int, 0, N, step)
  BY <1>1, <1>3, Recursion
<1>5. h \in [0 .. N -> Int] /\ h[0] = 0 /\ \A n \in 1 .. N : h[n] = step[n][h[n - 1]]
  BY <1>4 DEF Follows
<1>6. \A n \in 1 .. N : n \in 0 .. N /\ n - 1 \in 0 .. N
  BY <1>1
<1>7. ASSUME NEW n \in 0 .. N
      PROVE  h[n] = IF n < from THEN 0 ELSE (h[n - 1] * 10) + s[n] - 48
  <2>1. CASE n = 0
    BY <1>5, <2>1
  <2>2. CASE n # 0
    <3>1. n \in 1 .. N /\ h[n] = step[n][h[n - 1]] /\ h[n - 1] \in Int
      BY <1>1, <1>5, <1>6, <2>2
    <3>2. QED
      BY <1>2, <3>1
  <2>3. QED
    BY <2>1, <2>2
<1>8. h = [n \in 0 .. N |-> h[n]]
  BY <1>5
<1> DEFINE value == CHOOSE value : value = [p \in 0 .. N |->
                      IF p < from THEN 0 ELSE (value[p - 1] * 10) + s[p] - 48]
<1>9. h = [p \in 0 .. N |-> IF p < from THEN 0 ELSE (h[p - 1] * 10) + s[p] - 48]
  BY <1>7, <1>8, Zenon
<1>10. value = [p \in 0 .. N |-> IF p < from THEN 0 ELSE (value[p - 1] * 10) + s[p] - 48]
  BY <1>9, Zenon
<1>11. Numbers(s, from) = value
  BY Zenon DEF Numbers, N
<1> HIDE DEF value
<1>12. 0 \in 0 .. N /\ 0 < from
  BY <1>1
<1>13. \A p \in 0 .. N : value[p] = IF p < from THEN 0 ELSE (value[p - 1] * 10) + s[p] - 48
  BY <1>10
<1>14. value[0] = 0
  BY <1>12, <1>13
<1>15. value = h
  <2> DEFINE T == {n \in 0 .. N : value[n] = h[n]}
  <2>1. 0 \in T
    BY <1>5, <1>12, <1>14
  <2>2. ASSUME NEW n \in 0 .. N - 1, n \in T
        PROVE  n + 1 \in T
    <3>1. n + 1 \in 0 .. N /\ (n + 1) - 1 = n /\ value[n] = h[n]
      BY <2>2, <1>1
    <3>2. QED
      BY <1>7, <1>13, <3>1
  <2> HIDE DEF T
  <2>3. \A n \in 0 .. N : n \in T
    BY <1>1, <2>1, <2>2, Induction
  <2>4. \A n \in 0 .. N : value[n] = h[n]
    BY <2>3 DEF T
  <2>5. value = [n \in 0 .. N |-> value[n]]
    BY <1>10, Zenon
  <2>6. QED
    BY <1>8, <2>4, <2>5
<1>16. QED
  BY <1>5, <1>6, <1>11, <1>13, <1>14, <1>15 DEF N

\* Digits stand for a natural number.
LEMMA NumbersAreNatural ==
  ASSUME NEW s \in Seq(Byte), NEW from \in 1 .. 2, \A p \in from .. Len(s) : s[p] \in Digit
  PROVE  \A p \in 0 .. Len(s) : Numbers(s, from)[p] \in Nat
<1> DEFINE T == {p \in 0 .. Len(s) : Numbers(s, from)[p] \in Nat}
<1>1. 0 \in T
  BY NumbersAre
<1>2. ASSUME NEW p \in 0 .. Len(s) - 1, p \in T
      PROVE  p + 1 \in T
  <2>1. p + 1 \in 1 .. Len(s) /\ p + 1 \in 0 .. Len(s) /\ (p + 1) - 1 = p
    OBVIOUS
  <2>2. Numbers(s, from)[p] \in Nat
    BY <1>2
  <2>3. Numbers(s, from)[p + 1] = IF p + 1 < from THEN 0
                                  ELSE (Numbers(s, from)[p] * 10) + s[p + 1] - 48
    BY <2>1, NumbersAre
  <2>4. ~ (p + 1 < from) => s[p + 1] - 48 \in Nat
    <3>1. ~ (p + 1 < from) => s[p + 1] \in Digit
      BY <2>1
    <3>2. QED
      BY <3>1 DEF Digit
  <2> HIDE DEF T
  <2>5. Numbers(s, from)[p + 1] \in Nat
    <3>1. CASE p + 1 < from
      BY <2>3, <3>1
    <3>2. CASE ~ (p + 1 < from)
      <4>1. PICK m, d : m = Numbers(s, from)[p] /\ d = s[p + 1] - 48
        OBVIOUS
      <4>2. m \in Nat /\ d \in Nat /\ s[p + 1] \in Int
        <5>1. s[p + 1] \in Byte
          BY <2>1
        <5>2. s[p + 1] \in Int
          BY <5>1, ByteIsNumber
        <5>3. QED
          BY <2>2, <2>4, <3>2, <4>1, <5>2
      <4>3. Numbers(s, from)[p + 1] = (m * 10) + d
        BY <2>3, <3>2, <4>1, <4>2
      <4>4. (m * 10) + d \in Nat
        BY <4>2
      <4>5. QED
        BY <4>3, <4>4
    <3>3. QED
      BY <3>1, <3>2
  <2>6. QED
    BY <2>1, <2>5 DEF T
<1> HIDE DEF T
<1>3. \A p \in 0 .. Len(s) : p \in T
  <2>1. Len(s) \in Nat
    OBVIOUS
  <2>2. QED
    BY <1>1, <1>2, <2>1, Induction
<1>4. QED
  BY <1>3 DEF T

\* decode_id() returns a number of its type, or InvalidId; which number it is
\* does not depend on the type.
LEMMA DecodeIdIs ==
  ASSUME NEW s \in Seq(Byte)
  PROVE  \/ \A max \in Nat : DecodeId(s, max) = Err("InvalidId")
         \/ \E n \in Nat : \A max \in Nat :
              DecodeId(s, max) = IF n <= max THEN OkId(n) ELSE Err("InvalidId")
<1> DEFINE from == IF Len(s) > 1 /\ s[1] = Plus THEN 2 ELSE 1
           number == Numbers(s, from)[Len(s)]
<1>1. from \in 1 .. 2 /\ Len(s) \in 0 .. Len(s)
  OBVIOUS
<1>2. \A max \in Nat :
        DecodeId(s, max) = IF /\ from <= Len(s)
                              /\ \A p \in from .. Len(s) : s[p] \in Digit
                              /\ number <= max
                           THEN OkId(number) ELSE Err("InvalidId")
  BY Zenon DEF DecodeId
<1> HIDE DEF from
<1>3. CASE from <= Len(s) /\ \A p \in from .. Len(s) : s[p] \in Digit
  <2>1. number \in Nat
    BY <1>1, <1>3, NumbersAreNatural
  <2> HIDE DEF number
  <2>2. \A max \in Nat : DecodeId(s, max) = IF number <= max THEN OkId(number) ELSE Err("InvalidId")
    BY <1>2, <1>3
  <2>3. QED
    BY <2>1, <2>2
<1>4. CASE ~ (from <= Len(s) /\ \A p \in from .. Len(s) : s[p] \in Digit)
  BY <1>2, <1>4
<1>5. QED
  BY <1>3, <1>4

\* One more digit.
LEMMA OneMoreDigit ==
  ASSUME NEW s \in Seq(Byte), NEW d \in Byte
  PROVE  Numbers(Append(s, d), 1)[Len(s) + 1] = (Numbers(s, 1)[Len(s)] * 10) + d - 48
<1> DEFINE t == Append(s, d)
<1>1. /\ t \in Seq(Byte) /\ Len(t) = Len(s) + 1 /\ t[Len(s) + 1] = d /\ Len(s) \in Nat
      /\ \A p \in 1 .. Len(s) : t[p] = s[p]
  OBVIOUS
<1> HIDE DEF t
<1>2. Numbers(s, 1)[0] = 0 /\ \A p \in 1 .. Len(s) :
        Numbers(s, 1)[p] = IF p < 1 THEN 0 ELSE (Numbers(s, 1)[p - 1] * 10) + s[p] - 48
  BY NumbersAre
<1>3. Numbers(t, 1)[0] = 0 /\ \A p \in 1 .. Len(t) :
        Numbers(t, 1)[p] = IF p < 1 THEN 0 ELSE (Numbers(t, 1)[p - 1] * 10) + t[p] - 48
  <2>1. 1 \in 1 .. 2
    OBVIOUS
  <2>2. QED
    BY <1>1, <2>1, NumbersAre
<1>4. ASSUME NEW p \in 1 .. Len(s), Numbers(s, 1)[p - 1] = Numbers(t, 1)[p - 1]
      PROVE  Numbers(s, 1)[p] = Numbers(t, 1)[p]
  <2>1. p \in 1 .. Len(t) /\ ~ (p < 1)
    BY <1>1
  <2>2. QED
    BY <1>1, <1>2, <1>3, <1>4, <2>1
<1>5. Numbers(s, 1)[Len(s)] = Numbers(t, 1)[Len(s)]
  BY <1>1, <1>2, <1>3, <1>4, SameRecursion
<1>6. Len(s) + 1 \in 1 .. Len(t) /\ ~ (Len(s) + 1 < 1) /\ (Len(s) + 1) - 1 = Len(s)
  BY <1>1
<1>7. QED
  BY <1>1, <1>3, <1>5, <1>6 DEF t

\* A digit is a byte of its own.
LEMMA DigitOf == \A d \in 0 .. 9 : 48 + d \in Digit
BY DEF Digit

\* The decimal digits of the numbers up to N.
DecimalsOf(h, N) ==
  \A m \in 0 .. N :
    /\ h[m] \in Seq(Digit) /\ Len(h[m]) > 0
    /\ h[m] = IF m < 10 THEN << 48 + m >> ELSE Append(h[m \div 10], 48 + (m % 10))

\* The decimal digits of a number are defined.
LEMMA DecimalsExist ==
  ASSUME NEW N \in Nat
  PROVE  \E h : DOMAIN h = 0 .. N /\ h = [m \in 0 .. N |-> h[m]] /\ DecimalsOf(h, N)
<1> DEFINE Is(h, M) == DOMAIN h = 0 .. M /\ h = [m \in 0 .. M |-> h[m]] /\ DecimalsOf(h, M)
           T == {M \in 0 .. N : \E h : Is(h, M)}
<1>1. 0 \in T
  <2> DEFINE h == [m \in 0 .. 0 |-> << 48 >>]
  <2>1. DOMAIN h = 0 .. 0 /\ h = [m \in 0 .. 0 |-> h[m]] /\ h[0] = << 48 >>
    OBVIOUS
  <2> HIDE DEF h
  <2>2. << 48 >> \in Seq(Digit) /\ Len(<< 48 >>) > 0 /\ << 48 >> = << 48 + 0 >>
    BY DEF Digit
  <2>3. \A m \in 0 .. 0 : m = 0 /\ m < 10
    OBVIOUS
  <2>4. DecimalsOf(h, 0)
    BY <2>1, <2>2, <2>3 DEF DecimalsOf
  <2>5. 0 \in 0 .. N
    OBVIOUS
  <2>6. QED
    BY <2>1, <2>4, <2>5
<1>2. ASSUME NEW M \in 0 .. N - 1, M \in T
      PROVE  M + 1 \in T
  <2>1. PICK h : Is(h, M)
    BY <1>2
  <2> DEFINE k == M + 1
             text == IF k < 10 THEN << 48 + k >> ELSE Append(h[k \div 10], 48 + (k % 10))
             g == [m \in 0 .. k |-> IF m = k THEN text ELSE h[m]]
  <2>2. k \in 1 .. N /\ M \in Nat
    OBVIOUS
  <2>3. text \in Seq(Digit) /\ Len(text) > 0
    <3>1. CASE k < 10
      <4>1. 48 + k \in Digit
        BY <2>2, <3>1 DEF Digit
      <4>2. QED
        BY <3>1, <4>1
    <3>2. CASE ~ (k < 10)
      <4>1. k \div 10 \in 0 .. M /\ k % 10 \in 0 .. 9
        BY <2>2, <3>2
      <4>2. 48 + (k % 10) \in Digit
        BY <4>1, DigitOf
      <4>3. h[k \div 10] \in Seq(Digit)
        BY <2>1, <4>1 DEF DecimalsOf
      <4>4. QED
        BY <3>2, <4>2, <4>3
    <3>3. QED
      BY <3>1, <3>2
  <2>4. g[k] = text /\ \A m \in 0 .. M : g[m] = h[m]
    BY <2>2
  <2>5. DOMAIN g = 0 .. k /\ g = [m \in 0 .. k |-> g[m]]
    OBVIOUS
  <2> HIDE DEF g
  <2>6. ASSUME NEW m \in 0 .. k
        PROVE  /\ g[m] \in Seq(Digit) /\ Len(g[m]) > 0
               /\ g[m] = IF m < 10 THEN << 48 + m >> ELSE Append(g[m \div 10], 48 + (m % 10))
    <3>1. m >= 10 => m \div 10 \in 0 .. M
      BY <2>2
    <3>2. CASE m = k
      <4>1. g[m] = text /\ (~ (k < 10) => g[k \div 10] = h[k \div 10])
        BY <2>2, <2>4, <3>1, <3>2
      <4>2. QED
        BY <2>3, <3>2, <4>1, Zenon
    <3>3. CASE m # k
      <4>1. m \in 0 .. M
        BY <2>2, <3>3
      <4>2. g[m] = h[m] /\ (m >= 10 => g[m \div 10] = h[m \div 10])
        BY <2>4, <3>1, <4>1
      <4>3. /\ h[m] \in Seq(Digit) /\ Len(h[m]) > 0
            /\ h[m] = IF m < 10 THEN << 48 + m >> ELSE Append(h[m \div 10], 48 + (m % 10))
        BY <2>1, <4>1 DEF DecimalsOf
      <4>4. QED
        BY <4>2, <4>3
    <3>4. QED
      BY <3>2, <3>3
  <2>7. Is(g, k)
    BY <2>5, <2>6 DEF DecimalsOf
  <2>8. k \in 0 .. N
    BY <2>2
  <2>9. QED
    BY <2>7, <2>8
<1> HIDE DEF T
<1>3. \A M \in 0 .. N : M \in T
  BY <1>1, <1>2, Induction
<1>4. N \in T
  BY <1>3
<1>5. QED
  BY <1>4 DEF T

\* A function that is defined like these has these values.
LEMMA DecimalsAre ==
  ASSUME NEW n \in Nat
  PROVE  \E h : Decimal(n) = h[n] /\ DecimalsOf(h, n)
<1>1. PICK h : DOMAIN h = 0 .. n /\ h = [m \in 0 .. n |-> h[m]] /\ DecimalsOf(h, n)
  BY DecimalsExist
<1> DEFINE text == CHOOSE text : text = [m \in 0 .. n |->
                     IF m < 10 THEN << 48 + m >> ELSE Append(text[m \div 10], 48 + (m % 10))]
<1>2. \A m \in 0 .. n : h[m] = IF m < 10 THEN << 48 + m >> ELSE Append(h[m \div 10], 48 + (m % 10))
  BY <1>1 DEF DecimalsOf
<1>3. h = [m \in 0 .. n |-> IF m < 10 THEN << 48 + m >> ELSE Append(h[m \div 10], 48 + (m % 10))]
  BY <1>1, <1>2, Zenon
<1>4. text = [m \in 0 .. n |-> IF m < 10 THEN << 48 + m >> ELSE Append(text[m \div 10], 48 + (m % 10))]
  BY <1>3, Zenon
<1>5. Decimal(n) = text[n]
  BY Zenon DEF Decimal
<1> HIDE DEF text
<1>6. \A m \in 0 .. n :
        text[m] = IF m < 10 THEN << 48 + m >> ELSE Append(text[m \div 10], 48 + (m % 10))
  BY <1>4
<1> DEFINE Bad == {m \in 0 .. n : text[m] # h[m]}
<1>7. Bad = {}
  <2>1. SUFFICES ASSUME Bad # {} PROVE FALSE
    OBVIOUS
  <2>2. Bad \subseteq Nat
    OBVIOUS
  <2> HIDE DEF Bad
  <2>3. PICK m \in Bad : \A k \in Bad : m <= k
    BY <2>1, <2>2, LeastElement
  <2>4. m \in 0 .. n /\ text[m] # h[m]
    BY DEF Bad
  <2>5. ~ (m < 10)
    <3>1. SUFFICES ASSUME m < 10 PROVE FALSE
      OBVIOUS
    <3>2. text[m] = << 48 + m >>
      BY <1>6, <2>4, <3>1
    <3>3. h[m] = << 48 + m >>
      BY <1>2, <2>4, <3>1
    <3>4. QED
      BY <2>4, <3>2, <3>3
  <2>6. m \div 10 \in 0 .. n /\ m \div 10 < m
    BY <2>4, <2>5
  <2>7. m \div 10 \notin Bad
    BY <2>3, <2>4, <2>6
  <2>8. text[m \div 10] = h[m \div 10]
    BY <2>6, <2>7 DEF Bad
  <2>9. QED
    BY <1>2, <1>6, <2>4, <2>5, <2>8
<1>8. n \in 0 .. n /\ text[n] = h[n]
  BY <1>7
<1>9. QED
  BY <1>1, <1>5, <1>8

\* A number is written in digits, and read back.
LEMMA DecimalReadsBack ==
  ASSUME NEW n \in Nat
  PROVE  /\ Decimal(n) \in Seq(Digit) /\ Len(Decimal(n)) > 0
         /\ \A max \in Nat : n <= max => DecodeId(Decimal(n), max) = OkId(n)
<1>1. PICK h : Decimal(n) = h[n] /\ DecimalsOf(h, n)
  BY DecimalsAre
<1>2. \A m \in 0 .. n :
        /\ h[m] \in Seq(Digit) /\ Len(h[m]) > 0
        /\ h[m] = IF m < 10 THEN << 48 + m >> ELSE Append(h[m \div 10], 48 + (m % 10))
  BY <1>1 DEF DecimalsOf
<1>3. \A s : s \in Seq(Digit) => s \in Seq(Byte)
  BY DEF Digit, Byte
<1> DEFINE Bad == {m \in 0 .. n : Numbers(h[m], 1)[Len(h[m])] # m}
<1>4. Bad = {}
  <2>1. SUFFICES ASSUME Bad # {} PROVE FALSE
    OBVIOUS
  <2>2. Bad \subseteq Nat
    OBVIOUS
  <2> HIDE DEF Bad
  <2>3. PICK m \in Bad : \A k \in Bad : m <= k
    BY <2>1, <2>2, LeastElement
  <2>4. m \in 0 .. n /\ Numbers(h[m], 1)[Len(h[m])] # m
    BY DEF Bad
  <2>5. CASE m < 10
    <3>1. h[m] = << 48 + m >> /\ 48 + m \in Byte
      <4>1. h[m] = << 48 + m >>
        BY <1>2, <2>4, <2>5, Zenon
      <4>2. 48 + m \in Byte
        BY <2>4, <2>5 DEF Byte
      <4>3. QED
        BY <4>1, <4>2
    <3>2. << 48 + m >> = Append(<<>>, 48 + m) /\ <<>> \in Seq(Byte) /\ Len(<<>>) = 0
      OBVIOUS
    <3>3. Numbers(h[m], 1)[0 + 1] = (Numbers(<<>>, 1)[0] * 10) + (48 + m) - 48
      BY <3>1, <3>2, OneMoreDigit
    <3>4. Numbers(<<>>, 1)[0] = 0
      <4>1. 1 \in 1 .. 2
        OBVIOUS
      <4>2. QED
        BY <3>2, <4>1, NumbersAre
    <3>5. Len(h[m]) = 1 /\ 0 + 1 = 1 /\ (0 * 10) + (48 + m) - 48 = m
      BY <2>4, <3>1
    <3>6. QED
      BY <2>4, <3>3, <3>4, <3>5
  <2>6. CASE ~ (m < 10)
    <3> DEFINE k == m \div 10
               d == m % 10
    <3>1. k \in 0 .. n /\ k < m /\ d \in 0 .. 9 /\ (k * 10) + d = m
      BY <2>4, <2>6
    <3> HIDE DEF k
    <3>2. h[m] = Append(h[k], 48 + d)
      BY <1>2, <2>4, <2>6 DEF k
    <3> HIDE DEF d
    <3>3. k \notin Bad
      BY <2>3, <2>4, <3>1
    <3>4. Numbers(h[k], 1)[Len(h[k])] = k
      BY <3>1, <3>3 DEF Bad
    <3>5. h[k] \in Seq(Byte) /\ 48 + d \in Byte
      <4>1. h[k] \in Seq(Byte)
        BY <1>2, <1>3, <3>1
      <4>2. 48 + d \in Byte
        BY <3>1, DigitOf DEF Digit, Byte
      <4>3. QED
        BY <4>1, <4>2
    <3>6. Numbers(h[m], 1)[Len(h[k]) + 1] = (k * 10) + (48 + d) - 48
      BY <3>2, <3>4, <3>5, OneMoreDigit
    <3>7. Len(h[m]) = Len(h[k]) + 1
      BY <3>2, <3>5
    <3>8. (k * 10) + (48 + d) - 48 = m
      BY <3>1
    <3>9. QED
      BY <2>4, <3>6, <3>7, <3>8
  <2>7. QED
    BY <2>5, <2>6
<1> DEFINE s == Decimal(n)
<1>5. s \in Seq(Digit) /\ Len(s) > 0 /\ Numbers(s, 1)[Len(s)] = n
  <2>1. n \in 0 .. n
    OBVIOUS
  <2>2. QED
    BY <1>1, <1>2, <1>4, <2>1
<1> HIDE DEF s
<1>6. s \in Seq(Byte) /\ \A p \in 1 .. Len(s) : s[p] \in Digit
  BY <1>3, <1>5
<1>7. s[1] # Plus
  <2>1. s[1] \in Digit
    BY <1>5
  <2>2. QED
    BY <2>1 DEF Digit, Plus
<1>8. \A max \in Nat : n <= max => DecodeId(s, max) = OkId(n)
  BY <1>5, <1>6, <1>7 DEF DecodeId
<1>9. QED
  BY <1>5, <1>8 DEF s

-----------------------------------------------------------------------------
(***************************************************************************)
(* escape(), and back                                                      *)
(***************************************************************************)
\* What follows does not change what has been read.
LEMMA ReadsFurther ==
  ASSUME NEW key \in Seq(Byte), NEW more \in Seq(Byte), NEW out, ReadSoFar(key, Len(key), out)
  PROVE  ReadSoFar(key \o more, Len(key), out)
<1> DEFINE N == Len(key)
           text == key \o more
<1>1. /\ text \in Seq(Byte) /\ N \in Nat /\ N <= Len(text) /\ Len(text) \in Nat
      /\ \A p \in 1 .. N : text[p] = key[p]
  OBVIOUS
<1>2. /\ \A p \in 1 .. N : EscapeAt(text, p) <=> EscapeAt(key, p)
      /\ \A p \in 1 .. N : ValidAt(key, p) => ValidAt(text, p)
  <2> HIDE DEF text
  <2>1. \A p \in 1 .. N : EscapeAt(text, p) <=> EscapeAt(key, p)
    BY <1>1 DEF EscapeAt
  <2>2. ASSUME NEW p \in 1 .. N, ValidAt(key, p)
        PROVE  ValidAt(text, p)
    <3>1. p + 1 \in 1 .. N /\ p + 2 \in 1 .. N /\ p + 2 <= Len(text)
      BY <1>1, <2>2 DEF ValidAt
    <3>2. QED
      BY <1>1, <2>2, <3>1 DEF ValidAt
  <2>3. QED
    BY <2>1, <2>2
<1>3. \A p \in 1 .. N : p \notin BadEscapes(key)
  BY DEF ReadSoFar
<1>4. \A p \in 1 .. N : EscapeAt(key, p) => ValidAt(key, p)
  BY <1>3 DEF BadEscapes
<1>5. \A p \in 1 .. N : p \notin BadEscapes(text)
  BY <1>2, <1>4 DEF BadEscapes
<1> HIDE DEF text
<1>6. \A p \in 1 .. N + 1 : OutsideEscape(text, p) <=> OutsideEscape(key, p)
  <2>1. TAKE p \in 1 .. N + 1
  <2>2. \A k \in {1, 2} : p > k => p - k \in 1 .. N
    BY <1>1
  <2>3. QED
    BY <1>2, <2>2 DEF OutsideEscape
<1>7. ASSUME NEW p \in 1 .. N
      PROVE  ByteAt(text, p) = ByteAt(key, p)
  <2>1. CASE EscapeAt(key, p)
    <3>1. p + 2 <= N
      BY <1>4, <2>1 DEF ValidAt
    <3>2. p + 1 \in 1 .. N /\ p + 2 \in 1 .. N
      BY <1>1, <3>1
    <3>3. QED
      BY <1>1, <1>2, <3>2 DEF ByteAt
  <2>2. CASE ~ EscapeAt(key, p)
    BY <1>1, <1>2, <2>2 DEF ByteAt
  <2>3. QED
    BY <2>1, <2>2
<1>8. Unescaped(text)[N] = Unescaped(key)[N]
  <2>1. /\ Unescaped(key)[0] = <<>>
        /\ \A n \in 1 .. N :
             Unescaped(key)[n] = IF OutsideEscape(key, n)
                                 THEN Append(Unescaped(key)[n - 1], ByteAt(key, n))
                                 ELSE Unescaped(key)[n - 1]
    BY UnescapedIs
  <2>2. /\ Unescaped(text)[0] = <<>>
        /\ \A n \in 1 .. Len(text) :
             Unescaped(text)[n] = IF OutsideEscape(text, n)
                                  THEN Append(Unescaped(text)[n - 1], ByteAt(text, n))
                                  ELSE Unescaped(text)[n - 1]
    BY <1>1, UnescapedIs
  <2>3. ASSUME NEW n \in 1 .. N, Unescaped(text)[n - 1] = Unescaped(key)[n - 1]
        PROVE  Unescaped(text)[n] = Unescaped(key)[n]
    <3>1. n \in 1 .. N + 1 /\ n \in 1 .. Len(text)
      BY <1>1
    <3>2. QED
      BY <1>6, <1>7, <2>1, <2>2, <2>3, <3>1
  <2>4. Unescaped(text)[0] = Unescaped(key)[0]
    BY <2>1, <2>2
  <2>5. QED
    BY <1>1, <2>3, <2>4, SameRecursion
<1>9. OutsideEscape(key, N + 1) /\ Unescaped(key)[N] = out
  BY DEF ReadSoFar
<1>10. N \in 0 .. Len(text) /\ N + 1 \in 1 .. N + 1
  BY <1>1
<1>11. ReadSoFar(text, N, out)
  BY <1>5, <1>6, <1>8, <1>9, <1>10 DEF ReadSoFar
<1>12. QED
  BY <1>11 DEF text

\* The bytes that escape() writes.
Emitted == Plain \cup {Percent}
CodedAs(c) == IF c \in Special THEN Escaped(c) ELSE << c >>

\* The bytes that are kept as they are, are ASCII and not '/'.
LEMMA SafeBytes ==
  /\ Emitted \subseteq Byte /\ Emitted \subseteq Ascii /\ Slash \notin Emitted
  /\ HexDigit \subseteq Emitted /\ Digit \subseteq Emitted
BY DEF Emitted, Plain, Percent, Byte, Ascii, Slash, HexDigit, Digit, Underscore

\* What a byte is escaped to is kept as it is.
LEMMA CodeIsSafe ==
  ASSUME NEW c \in Byte
  PROVE  CodedAs(c) \in Seq(Emitted)
<1>1. CASE c \in Special
  <2>1. hex(c \div 16) \in Emitted /\ hex(c % 16) \in Emitted /\ Percent \in Emitted
    BY HexByte, SafeBytes DEF Emitted
  <2>2. <<Percent, hex(c \div 16), hex(c % 16)>> \in Seq(Emitted)
    BY <2>1
  <2>3. QED
    BY <1>1, <2>2 DEF CodedAs, Escaped
<1>2. CASE c \notin Special
  <2>1. c \in Emitted
    BY <1>2 DEF Special, Emitted
  <2>2. QED
    BY <1>2, <2>1 DEF CodedAs
<1>3. QED
  BY <1>1, <1>2

\* The code of a byte is read back as that byte.
LEMMA CodeReadsBack ==
  ASSUME NEW key \in Seq(Byte), NEW out, ReadSoFar(key, Len(key), out), NEW c \in Byte
  PROVE  ReadSoFar(key \o CodedAs(c), Len(key \o CodedAs(c)), Append(out, c))
<1> DEFINE N == Len(key)
           code == CodedAs(c)
           text == key \o code
<1>1. code \in Seq(Byte) /\ N \in Nat
  <2>1. code \in Seq(Emitted)
    BY CodeIsSafe
  <2> HIDE DEF code
  <2>2. QED
    BY <2>1, SafeBytes
<1> HIDE DEF code
<1>2. /\ text \in Seq(Byte) /\ Len(text) = N + Len(code)
      /\ \A k \in 1 .. Len(code) : text[N + k] = code[k]
  BY <1>1
<1>3. ReadSoFar(text, N, out)
  BY <1>1, ReadsFurther
<1> HIDE DEF text, N
<1>4. CASE c \in Special
  <2>1. /\ Len(code) = 3 /\ code[1] = Percent
        /\ code[2] = hex(c \div 16) /\ code[3] = hex(c % 16)
    BY <1>4 DEF code, CodedAs, Escaped
  <2>2. /\ N \in 0 .. Len(text) - 3 /\ Len(text) = N + 3
        /\ 1 \in 1 .. Len(code) /\ 2 \in 1 .. Len(code) /\ 3 \in 1 .. Len(code)
    BY <1>1, <1>2, <2>1
  <2>3. text[N + 1] = Percent /\ text[N + 2] = hex(c \div 16) /\ text[N + 3] = hex(c % 16)
    BY <1>2, <2>1, <2>2
  <2>4. text[N + 2] \in HexDigit /\ text[N + 3] \in HexDigit
    BY <2>3, HexByte
  <2>5. ReadSoFar(text, N + 3, Append(out, (unhex(text[N + 2]) * 16) + unhex(text[N + 3])))
    BY <1>2, <1>3, <2>2, <2>3, <2>4, ReadsEscape
  <2>6. (unhex(text[N + 2]) * 16) + unhex(text[N + 3]) = c
    BY <2>3, HexByte
  <2>7. ReadSoFar(text, Len(text), Append(out, c))
    BY <2>2, <2>5, <2>6
  <2>8. QED
    BY <2>7 DEF text, code, N
<1>5. CASE c \notin Special
  <2>1. Len(code) = 1 /\ code[1] = c /\ c # Percent
    BY <1>5 DEF code, CodedAs, Special, Plain, Percent, Digit, Underscore, Byte
  <2>2. /\ N \in 0 .. Len(text) - 1 /\ Len(text) = N + 1 /\ 1 \in 1 .. Len(code)
    BY <1>1, <1>2, <2>1
  <2>3. text[N + 1] = c
    BY <1>2, <2>1, <2>2
  <2>4. ReadSoFar(text, N + 1, Append(out, c))
    BY <1>2, <1>3, <2>1, <2>2, <2>3, ReadsByte
  <2>5. ReadSoFar(text, Len(text), Append(out, c))
    BY <2>2, <2>4
  <2>6. QED
    BY <2>5 DEF text, code, N
<1>6. QED
  BY <1>4, <1>5

\* escape() writes plain bytes and '%' only, so no '/', and unescape() gives
\* back the string.
LEMMA EscapeReadsBack ==
  ASSUME NEW s \in Seq(Byte)
  PROVE  Escape(s) \in Seq(Emitted) /\ Unescape(Escape(s)) = FromUtf8(s)
<1> DEFINE N == Len(s)
           pieces == [p \in 1 .. N |-> CodedAs(s[p])]
<1>1. N \in Nat /\ DOMAIN s = 1 .. N /\ \A p \in 1 .. N : s[p] \in Byte
  OBVIOUS
<1>2. Escape(s) = FlattenSeq(pieces)
  BY <1>1, Zenon DEF Escape, EscapeSpecified, CodedAs
<1>3. pieces \in [1 .. N -> Seq(Emitted)] /\ \A p \in 1 .. N : pieces[p] = CodedAs(s[p])
  BY <1>1, CodeIsSafe
<1> HIDE DEF pieces, N
<1>4. PICK h : JoinsOf(Emitted, h, pieces, N)
  BY <1>1, <1>3, JoinsExist
<1>5. /\ \A n \in 0 .. N : h[n] \in Seq(Emitted)
      /\ h[0] = <<>> /\ \A n \in 1 .. N : h[n] = h[n - 1] \o pieces[n]
  BY <1>4 DEF JoinsOf
<1>6. \A n \in 0 .. N : h[n] \in Seq(Byte)
  <2>1. \A x : x \in Seq(Emitted) => x \in Seq(Byte)
    BY SafeBytes
  <2>2. QED
    BY <1>5, <2>1
<1>7. Escape(s) = h[N]
  BY <1>1, <1>2, <1>3, <1>4, FlattenIs
<1> DEFINE T == {n \in 0 .. N : ReadSoFar(h[n], Len(h[n]), SubSeq(s, 1, n))}
<1>8. 0 \in T
  <2>1. SubSeq(s, 1, 0) = <<>> /\ <<>> \in Seq(Byte) /\ Len(<<>>) = 0
    OBVIOUS
  <2>2. ReadSoFar(<<>>, 0, <<>>)
    BY <2>1, ReadsNothing
  <2>3. 0 \in 0 .. N
    BY <1>1
  <2>4. QED
    BY <1>5, <2>1, <2>2, <2>3
<1>9. ASSUME NEW n \in 0 .. N - 1, n \in T
      PROVE  n + 1 \in T
  <2>1. n \in 0 .. N /\ n + 1 \in 1 .. N /\ n + 1 \in 0 .. N /\ (n + 1) - 1 = n
    BY <1>1
  <2>2. h[n + 1] = h[n] \o CodedAs(s[n + 1]) /\ h[n] \in Seq(Byte) /\ s[n + 1] \in Byte
    BY <1>1, <1>3, <1>5, <1>6, <2>1
  <2>3. ReadSoFar(h[n], Len(h[n]), SubSeq(s, 1, n))
    BY <1>9
  <2>4. ReadSoFar(h[n + 1], Len(h[n + 1]), Append(SubSeq(s, 1, n), s[n + 1]))
    BY <2>2, <2>3, CodeReadsBack
  <2>5. Append(SubSeq(s, 1, n), s[n + 1]) = SubSeq(s, 1, n + 1)
    BY <2>1 DEF N
  <2>6. QED
    BY <2>1, <2>4, <2>5
<1> HIDE DEF T
<1>10. \A n \in 0 .. N : n \in T
  BY <1>1, <1>8, <1>9, Induction
<1>11. N \in 0 .. N
  BY <1>1
<1>12. ReadSoFar(h[N], Len(h[N]), SubSeq(s, 1, N))
  BY <1>10, <1>11 DEF T
<1>13. SubSeq(s, 1, N) = s
  BY DEF N
<1>14. Unescape(h[N]) = FromUtf8(s)
  BY <1>6, <1>11, <1>12, <1>13, ReadsAll
<1>15. QED
  BY <1>5, <1>7, <1>11, <1>14

-----------------------------------------------------------------------------
(***************************************************************************)
(* Texts in texts                                                          *)
(***************************************************************************)
\* What UTF-8 asks of a position.
CharAt(s, p) ==
  \/ s[p] \in Ascii
  \/ \E w \in 2 .. 4 :
       /\ s[p] \in Lead[w]
       /\ p + w - 1 <= Len(s)
       /\ s[p + 1] \in Second(s[p])
       /\ \A k \in 1 .. w - 1 : s[p + k] \in Continuation
  \/ /\ s[p] \in Continuation
     /\ \E k \in 1 .. 3, w \in 2 .. 4 : k < w /\ k < p /\ s[p - k] \in Lead[w]

\* A part of s that is in u, d bytes further, and that no character crosses.
Moved(s, lo, hi, u, d) ==
  /\ \A q \in lo + 1 .. hi : q + d \in 1 .. Len(u) /\ u[q + d] = s[q]
  /\ \A q \in lo + 1 .. hi : \A w \in 2 .. 4 :
       (q + w - 1 <= Len(s) /\ \A k \in 1 .. w - 1 : s[q + k] \in Continuation) => q + w - 1 <= hi
  /\ \A q \in lo + 1 .. hi : \A k \in 1 .. 3, w \in 2 .. 4 :
       (k < w /\ k < q /\ s[q - k] \in Lead[w]) => q - k > lo

\* A position that starts a character still does after the move.
LEMMA CharMoves ==
  ASSUME NEW s, NEW u, Len(s) \in Nat, Len(u) \in Nat, NEW lo \in Nat, NEW hi \in Nat, NEW d \in Int,
         Moved(s, lo, hi, u, d), NEW p \in lo + 1 .. hi, CharAt(s, p)
  PROVE  CharAt(u, p + d)
<1>1. p + d \in 1 .. Len(u) /\ u[p + d] = s[p]
  BY DEF Moved
<1>2. CASE s[p] \in Ascii
  BY <1>1, <1>2 DEF CharAt
<1>3. CASE \E w \in 2 .. 4 :
             /\ s[p] \in Lead[w]
             /\ p + w - 1 <= Len(s)
             /\ s[p + 1] \in Second(s[p])
             /\ \A k \in 1 .. w - 1 : s[p + k] \in Continuation
  <2>1. PICK w \in 2 .. 4 : /\ s[p] \in Lead[w]
                            /\ p + w - 1 <= Len(s)
                            /\ s[p + 1] \in Second(s[p])
                            /\ \A k \in 1 .. w - 1 : s[p + k] \in Continuation
    BY <1>3
  <2>2. p + w - 1 <= hi
    BY <2>1 DEF Moved
  <2>3. \A k \in 1 .. w - 1 : p + k \in lo + 1 .. hi
    BY <2>2
  <2>4. \A k \in 1 .. w - 1 : (p + k) + d \in 1 .. Len(u) /\ u[(p + k) + d] = s[p + k]
    BY <2>3 DEF Moved
  <2>5. \A k \in 1 .. w - 1 : (p + d) + k = (p + k) + d
    OBVIOUS
  <2>6. \A k \in 1 .. w - 1 : (p + d) + k \in 1 .. Len(u) /\ u[(p + d) + k] = s[p + k]
    BY <2>4, <2>5
  <2>7. 1 \in 1 .. w - 1 /\ w - 1 \in 1 .. w - 1
    OBVIOUS
  <2>8. u[(p + d) + 1] = s[p + 1] /\ (p + d) + (w - 1) <= Len(u)
    <3>1. u[(p + d) + 1] = s[p + 1]
      BY <2>6, <2>7
    <3>2. (p + d) + (w - 1) \in 1 .. Len(u)
      BY <2>6, <2>7
    <3>3. QED
      BY <3>1, <3>2
  <2>9. (p + d) + w - 1 <= Len(u)
    BY <2>8
  <2>10. QED
    BY <1>1, <2>1, <2>6, <2>8, <2>9 DEF CharAt
<1>4. CASE /\ s[p] \in Continuation
           /\ \E k \in 1 .. 3, w \in 2 .. 4 : k < w /\ k < p /\ s[p - k] \in Lead[w]
  <2>1. PICK k \in 1 .. 3, w \in 2 .. 4 : k < w /\ k < p /\ s[p - k] \in Lead[w]
    BY <1>4
  <2>2. p - k \in lo + 1 .. hi
    <3>1. p - k > lo
      BY <2>1 DEF Moved
    <3>2. QED
      BY <3>1
  <2>3. (p - k) + d \in 1 .. Len(u) /\ u[(p - k) + d] = s[p - k]
    BY <2>2 DEF Moved
  <2>4. (p - k) + d = (p + d) - k /\ k < p + d
    BY <2>3
  <2>5. u[(p + d) - k] \in Lead[w]
    BY <2>1, <2>3, <2>4
  <2>6. QED
    BY <1>1, <1>4, <2>1, <2>4, <2>5 DEF CharAt
<1>5. QED
  BY <1>2, <1>3, <1>4 DEF CharAt

\* Two texts joined are a text.
LEMMA Utf8Concat ==
  ASSUME NEW a \in Seq(Byte), Utf8(a), NEW b \in Seq(Byte), Utf8(b)
  PROVE  Utf8(a \o b)
<1> DEFINE u == a \o b
           n == Len(a)
           m == Len(b)
<1>1. /\ n \in Nat /\ m \in Nat /\ Len(u) = n + m
      /\ \A q \in 1 .. n : u[q] = a[q]
      /\ \A q \in 1 .. m : u[n + q] = b[q]
  OBVIOUS
<1> HIDE DEF u
<1>2. Moved(a, 0, n, u, 0)
  <2>1. \A q \in 0 + 1 .. n : q + 0 = q /\ q + 0 \in 1 .. Len(u) /\ u[q + 0] = a[q]
    BY <1>1
  <2>2. QED
    BY <1>1, <2>1 DEF Moved
<1>3. Moved(b, 0, m, u, n)
  <2>1. \A q \in 0 + 1 .. m : q + n = n + q /\ q + n \in 1 .. Len(u) /\ u[q + n] = b[q]
    BY <1>1
  <2>2. QED
    BY <1>1, <2>1 DEF Moved
<1>4. (\A q \in 1 .. n : CharAt(a, q)) /\ (\A q \in 1 .. m : CharAt(b, q))
  BY Zenon DEF Utf8, CharAt
<1>5. ASSUME NEW p \in 1 .. Len(u)
      PROVE  CharAt(u, p)
  <2>1. CASE p <= n
    <3>1. p \in 0 + 1 .. n /\ p \in 1 .. n /\ p + 0 = p
      BY <1>1, <2>1
    <3>2. CharAt(u, p + 0)
      BY <1>1, <1>2, <1>4, <3>1, CharMoves
    <3>3. QED
      BY <3>1, <3>2
  <2>2. CASE p > n
    <3>1. p - n \in 0 + 1 .. m /\ p - n \in 1 .. m /\ (p - n) + n = p
      BY <1>1, <2>2
    <3>2. PICK q : q = p - n
      OBVIOUS
    <3>3. q \in 0 + 1 .. m /\ CharAt(b, q) /\ Len(b) \in Nat /\ Len(u) \in Nat /\ 0 \in Nat /\ n \in Int
      BY <1>1, <1>4, <3>1, <3>2
    <3>4. CharAt(u, q + n)
      BY <1>1, <1>3, <3>3, CharMoves
    <3>5. QED
      BY <3>1, <3>2, <3>4
  <2>3. QED
    BY <1>1, <2>1, <2>2
<1>6. QED
  BY <1>5, Zenon DEF Utf8, CharAt, u

\* A part of a text, between '/' or its ends, is a text.
LEMMA Utf8Piece ==
  ASSUME NEW s \in Seq(Byte), Utf8(s), NEW lo \in 0 .. Len(s), NEW hi \in lo .. Len(s),
         lo = 0 \/ s[lo] = Slash, hi = Len(s) \/ s[hi + 1] = Slash
  PROVE  Utf8(SubSeq(s, lo + 1, hi))
<1> DEFINE u == SubSeq(s, lo + 1, hi)
           d == 0 - lo
<1>1. /\ Len(s) \in Nat /\ lo \in Nat /\ hi \in Nat /\ d \in Int
      /\ Len(u) = hi - lo
      /\ \A q \in 1 .. hi - lo : u[q] = s[lo + q]
  OBVIOUS
<1> HIDE DEF u
<1>2. Slash \notin Continuation
  BY DEF Slash, Continuation
<1>3. Moved(s, lo, hi, u, d)
  <2>1. ASSUME NEW q \in lo + 1 .. hi
        PROVE  q + d \in 1 .. Len(u) /\ u[q + d] = s[q]
    <3>1. q + d \in 1 .. hi - lo /\ lo + (q + d) = q
      BY <1>1
    <3>2. QED
      BY <1>1, <3>1
  <2>2. ASSUME NEW q \in lo + 1 .. hi, NEW w \in 2 .. 4,
               q + w - 1 <= Len(s), \A k \in 1 .. w - 1 : s[q + k] \in Continuation,
               q + w - 1 > hi
        PROVE  FALSE
    <3>1. (hi + 1) - q \in 1 .. w - 1 /\ q + ((hi + 1) - q) = hi + 1 /\ hi # Len(s)
      BY <1>1, <2>2
    <3>2. s[q + ((hi + 1) - q)] \in Continuation
      BY <2>2, <3>1
    <3>3. QED
      BY <1>2, <3>1, <3>2
  <2>3. ASSUME NEW q \in lo + 1 .. hi, NEW k \in 1 .. 3, NEW w \in 2 .. 4,
               k < w, k < q, s[q - k] \in Lead[w], q - k <= lo
        PROVE  FALSE
    <3>1. q - k \in 1 .. Len(s) /\ lo # 0
      BY <1>1, <2>3
    <3>2. \A j \in 1 .. w - 1 : s[(q - k) + j] \in Continuation
      BY <2>3, <3>1, LeadIsFollowed
    <3>3. CASE q - k = lo
      BY <2>3, <3>1, <3>3, LeadBytes
    <3>4. CASE q - k # lo
      <4>1. lo - (q - k) \in 1 .. w - 1 /\ (q - k) + (lo - (q - k)) = lo
        BY <1>1, <2>3, <3>4
      <4>2. s[(q - k) + (lo - (q - k))] \in Continuation
        BY <3>2, <4>1
      <4>3. QED
        BY <1>2, <3>1, <4>1, <4>2
    <3>5. QED
      BY <3>3, <3>4
  <2>4. ASSUME NEW q \in lo + 1 .. hi, NEW w \in 2 .. 4,
               q + w - 1 <= Len(s), \A k \in 1 .. w - 1 : s[q + k] \in Continuation
        PROVE  q + w - 1 <= hi
    <3>1. ~ (q + w - 1 > hi)
      BY <2>2, <2>4
    <3>2. q + w - 1 \in Int /\ hi \in Int
      BY <1>1
    <3>3. QED
      BY <3>1, <3>2
  <2>5. ASSUME NEW q \in lo + 1 .. hi, NEW k \in 1 .. 3, NEW w \in 2 .. 4,
               k < w, k < q, s[q - k] \in Lead[w]
        PROVE  q - k > lo
    <3>1. ~ (q - k <= lo)
      BY <2>3, <2>5
    <3>2. q - k \in Int /\ lo \in Int
      BY <1>1
    <3>3. QED
      BY <3>1, <3>2
  <2>6. QED
    BY <2>1, <2>4, <2>5 DEF Moved
<1>4. \A q \in 1 .. Len(s) : CharAt(s, q)
  BY Zenon DEF Utf8, CharAt
<1>5. ASSUME NEW p \in 1 .. Len(u)
      PROVE  CharAt(u, p)
  <2>1. p + lo \in lo + 1 .. hi /\ p + lo \in 1 .. Len(s) /\ (p + lo) + d = p
    BY <1>1
  <2>2. CharAt(s, p + lo) /\ Len(u) \in Nat
    BY <1>1, <1>4, <2>1
  <2>3. CharAt(u, (p + lo) + d)
    BY <1>1, <1>3, <2>1, <2>2, CharMoves
  <2>4. QED
    BY <2>1, <2>3
<1>6. QED
  BY <1>5, Zenon DEF Utf8, CharAt, u
=============================================================================
