--------------------------- MODULE KeySpaceProofs ---------------------------
(***************************************************************************)
(* Proofs about directories, for all keys, all levels and any nesting: a   *)
(* scan by the text of dir_name_with_slash() lists the directory.          *)
(***************************************************************************)
EXTENDS KeySpace, HelperLemmas

Texts == Seq(Byte)

-----------------------------------------------------------------------------
(***************************************************************************)
(* What the recursive definitions compute                                  *)
(***************************************************************************)
\* f holds the texts of the first segments.
TextsOf(f, prefix, segments) ==
  /\ f[0] = prefix
  /\ \A n \in 1 .. Len(segments) : f[n] = f[n - 1] \o <<Slash>> \o segments[n]

\* The text of a key is joined segment by segment.
LEMMA TextIs ==
  ASSUME NEW prefix \in Texts, NEW segments \in Seq(Texts)
  PROVE  \E f \in [0 .. Len(segments) -> Texts] :
           TextsOf(f, prefix, segments) /\ TextOf(prefix, segments) = f[Len(segments)]
<1> DEFINE N == Len(segments)
           step == [n \in 1 .. N |-> [x \in Texts |-> x \o <<Slash>> \o segments[n]]]
           text == CHOOSE text : text = [n \in 0 .. N |->
                     IF n = 0 THEN prefix ELSE text[n - 1] \o <<Slash>> \o segments[n]]
<1>1. N \in Nat /\ <<Slash>> \in Texts /\ \A n \in 1 .. N : segments[n] \in Texts
  BY DEF Texts, Slash, Byte
<1>2. \A n \in 1 .. N : \A x \in Texts : x \o <<Slash>> \o segments[n] \in Texts
  BY <1>1 DEF Texts
<1>3. StepsIn(Texts, N, step)
  BY <1>2 DEF StepsIn
<1>4. PICK f \in [0 .. N -> Texts] : f[0] = prefix /\ \A n \in 1 .. N : f[n] = step[n][f[n - 1]]
  <2> HIDE DEF step, N
  <2>1. PICK f : Follows(f, Texts, prefix, N, step)
    BY <1>1, <1>3, Recursion
  <2>2. QED
    BY <2>1 DEF Follows
<1>5. ASSUME NEW n \in 0 .. N
      PROVE  f[n] = IF n = 0 THEN prefix ELSE f[n - 1] \o <<Slash>> \o segments[n]
  <2>1. n # 0 => n \in 1 .. N /\ n - 1 \in 0 .. N
    BY <1>1
  <2>2. n # 0 => f[n] = step[n][f[n - 1]]
    <3> HIDE DEF step
    <3>1. QED
      BY <1>4, <2>1
  <2>3. n # 0 => f[n - 1] \in Texts
    BY <2>1
  <2>4. QED
    BY <1>4, <2>1, <2>2, <2>3
<1>6. f = [n \in 0 .. N |-> IF n = 0 THEN prefix ELSE f[n - 1] \o <<Slash>> \o segments[n]]
  <2>1. f = [n \in 0 .. N |-> f[n]]
    OBVIOUS
  <2> HIDE DEF N, step
  <2>2. QED
    BY <1>5, <2>1, Zenon
<1>7. text = [n \in 0 .. N |->
               IF n = 0 THEN prefix ELSE text[n - 1] \o <<Slash>> \o segments[n]]
  BY <1>6, Zenon
<1> HIDE DEF text, step
<1>8. ASSUME NEW n \in 0 .. N
      PROVE  text[n] = IF n = 0 THEN prefix ELSE text[n - 1] \o <<Slash>> \o segments[n]
  BY <1>7
<1>9. ASSUME NEW M \in 0 .. N
      PROVE  text[M] = f[M]
  <2>1. 0 \in 0 .. N
    BY <1>1
  <2>2. text[0] = f[0]
    BY <1>5, <1>8, <2>1
  <2>3. ASSUME NEW n \in 1 .. M, text[n - 1] = f[n - 1]
        PROVE  text[n] = f[n]
    <3>1. n \in 0 .. N /\ n # 0
      BY <1>1
    <3>2. text[n] = text[n - 1] \o <<Slash>> \o segments[n]
      BY <1>8, <3>1
    <3>3. f[n] = f[n - 1] \o <<Slash>> \o segments[n]
      BY <1>5, <3>1
    <3>4. QED
      BY <2>3, <3>2, <3>3
  <2>4. M \in Nat
    BY <1>1
  <2>5. QED
    BY <2>2, <2>3, <2>4, SameRecursion
<1>10. TextOf(prefix, segments) = f[N]
  <2>1. N \in 0 .. N
    BY <1>1
  <2>2. text[N] = f[N]
    BY <1>9, <2>1
  <2>3. QED
    BY <2>2 DEF TextOf, text
<1>11. TextsOf(f, prefix, segments)
  <2>1. 0 \in 0 .. N /\ \A n \in 1 .. N : n \in 0 .. N /\ n # 0
    BY <1>1
  <2>2. f[0] = prefix
    BY <1>5, <2>1
  <2>3. \A n \in 1 .. N : f[n] = f[n - 1] \o <<Slash>> \o segments[n]
    BY <1>5, <2>1
  <2>4. QED
    BY <2>2, <2>3 DEF TextsOf
<1>12. QED
  BY <1>4, <1>10, <1>11

\* A text of segments, and of one more.
LEMMA TextGrows ==
  ASSUME NEW prefix \in Texts, NEW segments \in Seq(Texts)
  PROVE  /\ TextOf(prefix, segments) \in Texts
         /\ segments = <<>> => TextOf(prefix, segments) = prefix
         /\ \A last \in Texts : TextOf(prefix, Append(segments, last))
                                  = TextOf(prefix, segments) \o <<Slash>> \o last
<1> DEFINE N == Len(segments)
<1>1. PICK f \in [0 .. N -> Texts] :
        TextsOf(f, prefix, segments) /\ TextOf(prefix, segments) = f[N]
  BY TextIs
<1>2. N \in Nat /\ N \in 0 .. N
  OBVIOUS
<1>3. TextOf(prefix, segments) \in Texts
  BY <1>1, <1>2
<1>4. segments = <<>> => TextOf(prefix, segments) = prefix
  BY <1>1 DEF TextsOf
<1>5. ASSUME NEW last \in Texts
      PROVE  TextOf(prefix, Append(segments, last))
               = TextOf(prefix, segments) \o <<Slash>> \o last
  <2> DEFINE more == Append(segments, last)
  <2>1. /\ more \in Seq(Texts) /\ Len(more) = N + 1 /\ more[N + 1] = last
        /\ \A n \in 1 .. N : more[n] = segments[n]
    OBVIOUS
  <2> HIDE DEF more
  <2>2. PICK g \in [0 .. N + 1 -> Texts] :
          TextsOf(g, prefix, more) /\ TextOf(prefix, more) = g[N + 1]
    BY <2>1, TextIs
  <2>3. g[N + 1] = g[N] \o <<Slash>> \o last
    <3>1. N + 1 \in 1 .. N + 1 /\ (N + 1) - 1 = N
      BY <1>2
    <3>2. QED
      BY <2>1, <2>2, <3>1 DEF TextsOf
  <2>4. f[N] = g[N]
    <3>1. f[0] = g[0]
      BY <1>1, <2>2 DEF TextsOf
    <3>2. ASSUME NEW n \in 1 .. N, f[n - 1] = g[n - 1]
          PROVE  f[n] = g[n]
      <4>1. n \in 1 .. Len(segments) /\ n \in 1 .. Len(more)
        BY <1>2, <2>1
      <4>2. f[n] = f[n - 1] \o <<Slash>> \o segments[n]
        BY <1>1, <4>1 DEF TextsOf
      <4>3. g[n] = g[n - 1] \o <<Slash>> \o segments[n]
        BY <2>1, <2>2, <4>1 DEF TextsOf
      <4>4. QED
        BY <3>2, <4>2, <4>3
    <3> HIDE DEF N
    <3>3. QED
      BY <1>2, <3>1, <3>2, SameRecursion
  <2>5. QED
    BY <1>1, <2>2, <2>3, <2>4 DEF more
<1>6. QED
  BY <1>3, <1>4, <1>5

-----------------------------------------------------------------------------
(***************************************************************************)
(* The scan: the texts from t to t with its last byte plus 1 are those     *)
(* that t starts.                                                          *)
(***************************************************************************)
Starts(t, s) == Len(t) <= Len(s) /\ \A q \in 1 .. Len(t) : s[q] = t[q]
\* The half-open range of a scan holds the texts that start with its start.
LEMMA ScanIsStarts ==
  ASSUME NEW t \in Texts, Len(t) > 0, NEW s \in Texts
  PROVE  (~ Before(s, t) /\ Before(s, RangeEnd(t))) <=> Starts(t, s)
<1> DEFINE L == Len(t)
           e == RangeEnd(t)
<1>1. L \in Nat /\ L > 0 /\ L \in 1 .. L /\ DOMAIN t = 1 .. L /\ Len(s) \in Nat
  OBVIOUS
<1>2. /\ DOMAIN e = 1 .. L /\ e[L] = t[L] + 1
      /\ \A q \in 1 .. L : q # L => e[q] = t[q]
  <2>1. e = [q \in DOMAIN t |-> IF q = Len(t) THEN t[q] + 1 ELSE t[q]]
    BY Zenon DEF RangeEnd
  <2>2. e = [q \in 1 .. L |-> IF q = L THEN t[q] + 1 ELSE t[q]]
    BY <1>1, <2>1
  <2> HIDE DEF e, L
  <2>3. QED
    BY <1>1, <2>2
<1>3. /\ \A q \in 1 .. L : t[q] \in Int
      /\ \A q \in 1 .. Len(s) : s[q] \in Int
  <2>1. \A x \in Seq(Byte) : \A q \in 1 .. Len(x) : x[q] \in Byte
    OBVIOUS
  <2>2. \A x \in Byte : x \in Int
    BY DEF Byte
  <2>3. QED
    BY <2>1, <2>2 DEF Texts
<1> HIDE DEF L, e
<1>4. ASSUME Starts(t, s)
      PROVE  ~ Before(s, t) /\ Before(s, e)
  <2>1. L <= Len(s) /\ \A q \in 1 .. L : s[q] = t[q]
    BY <1>4 DEF Starts, L
  <2>2. ~ Before(s, t)
    <3>1. SUFFICES ASSUME NEW p \in 1 .. L, p <= Len(s) => s[p] < t[p]
                   PROVE  FALSE
      BY <1>1 DEF Before
    <3>2. p <= Len(s) /\ s[p] = t[p] /\ t[p] \in Int
      BY <1>1, <1>3, <2>1
    <3>3. QED
      BY <3>1, <3>2
  <2>3. Before(s, e)
    <3>1. L \in DOMAIN e /\ L <= Len(s) + 1
      BY <1>1, <1>2, <2>1
    <3>2. \A q \in 1 .. L - 1 : s[q] = e[q]
      BY <1>1, <1>2, <2>1
    <3>3. s[L] < e[L]
      BY <1>1, <1>2, <1>3, <2>1
    <3>4. QED
      BY <3>1, <3>2, <3>3 DEF Before
  <2>4. QED
    BY <2>2, <2>3
<1>5. ASSUME ~ Before(s, t), Before(s, e)
      PROVE  Starts(t, s)
  <2>1. PICK p \in 1 .. L :
          /\ p <= Len(s) + 1
          /\ \A q \in 1 .. p - 1 : s[q] = e[q]
          /\ p <= Len(s) => s[p] < e[p]
    BY <1>2, <1>5 DEF Before
  <2>2. \A q \in 1 .. p - 1 : s[q] = t[q]
    BY <1>1, <1>2, <2>1
  <2>3. p <= Len(s) /\ ~ (s[p] < t[p])
    <3>1. p \in DOMAIN t
      BY <1>1
    <3>2. QED
      BY <1>5, <2>1, <2>2, <3>1 DEF Before
  <2>4. p = L
    <3>1. SUFFICES ASSUME p # L PROVE FALSE
      OBVIOUS
    <3>2. e[p] = t[p]
      BY <1>2, <3>1
    <3>3. QED
      BY <2>1, <2>3, <3>2
  <2>5. s[L] = t[L]
    <3>1. s[L] < t[L] + 1 /\ ~ (s[L] < t[L])
      BY <1>2, <2>1, <2>3, <2>4
    <3>2. s[L] \in Int /\ t[L] \in Int
      BY <1>1, <1>3, <2>3, <2>4
    <3>3. QED
      BY <3>1, <3>2
  <2>6. ASSUME NEW q \in 1 .. L PROVE s[q] = t[q]
    BY <1>1, <2>2, <2>4, <2>5
  <2>7. QED
    BY <2>3, <2>4, <2>6 DEF Starts, L
<1>6. QED
  BY <1>4, <1>5 DEF e

-----------------------------------------------------------------------------
(***************************************************************************)
(* Texts of keys.  Up(k, n) is the text up to the n-th segment.            *)
(***************************************************************************)
Up(k, n) == TextOf(k.prefix, SubSeq(k.segments, 1, n))
Whole(k) == TextOf(k.prefix, k.segments)
NoSlash(s) == \A p \in 1 .. Len(s) : s[p] # Slash

\* Keys hold texts without a '/'.
LEMMA KeyTypes ==
  ASSUME NEW k \in AllKeys
  PROVE  /\ k.prefix \in Texts /\ k.segments \in Seq(Texts) /\ NoSlash(k.prefix)
         /\ \A n \in 1 .. Len(k.segments) : k.segments[n] \in Texts /\ NoSlash(k.segments[n])
<1>1. k.prefix \in Texts /\ k.segments \in Seq(Texts)
  BY KeysAssumption DEF Texts
<1>2. \A s \in {k.prefix} \cup Range(k.segments) : Slash \notin Range(s)
  BY KeysAssumption
<1>3. ASSUME NEW s \in Texts, Slash \notin Range(s)
      PROVE  NoSlash(s)
  BY <1>3 DEF NoSlash, Range, Texts
<1>4. NoSlash(k.prefix)
  BY <1>1, <1>2, <1>3
<1>5. ASSUME NEW n \in 1 .. Len(k.segments)
      PROVE  k.segments[n] \in Texts /\ NoSlash(k.segments[n])
  <2>1. k.segments[n] \in Texts
    BY <1>1
  <2>2. k.segments[n] \in Range(k.segments)
    BY <1>1 DEF Range
  <2>3. QED
    BY <1>2, <1>3, <2>1, <2>2
<1>6. QED
  BY <1>1, <1>4, <1>5

\* From one segment to the next.
LEMMA UpGrows ==
  ASSUME NEW k \in AllKeys
  PROVE  /\ Up(k, 0) = k.prefix
         /\ \A n \in 0 .. Len(k.segments) : Up(k, n) \in Texts
         /\ \A n \in 0 .. Len(k.segments) - 1 : Up(k, n + 1) = Up(k, n) \o <<Slash>> \o k.segments[n + 1]
         /\ Up(k, Len(k.segments)) = Whole(k)
<1> DEFINE s == k.segments
<1>1. k.prefix \in Texts /\ s \in Seq(Texts) /\ Len(s) \in Nat
  BY KeyTypes
<1> HIDE DEF s
<1>2. \A n \in 0 .. Len(s) : SubSeq(s, 1, n) \in Seq(Texts)
  BY <1>1
<1>3. SubSeq(s, 1, 0) = <<>>
  BY <1>1
<1>4. ASSUME NEW n \in 0 .. Len(s) - 1
      PROVE  SubSeq(s, 1, n + 1) = Append(SubSeq(s, 1, n), s[n + 1]) /\ s[n + 1] \in Texts
  <2> DEFINE a == SubSeq(s, 1, n + 1)
             b == Append(SubSeq(s, 1, n), s[n + 1])
  <2>1. s[n + 1] \in Texts /\ n \in Nat /\ n + 1 <= Len(s)
    BY <1>1
  <2>2. a \in Seq(Texts) /\ Len(a) = n + 1 /\ \A q \in 1 .. n + 1 : a[q] = s[q]
    BY <1>1, <2>1
  <2>3. b \in Seq(Texts) /\ Len(b) = n + 1 /\ \A q \in 1 .. n + 1 : b[q] = s[q]
    <3>1. /\ SubSeq(s, 1, n) \in Seq(Texts) /\ Len(SubSeq(s, 1, n)) = n
          /\ \A q \in 1 .. n : SubSeq(s, 1, n)[q] = s[q]
      BY <1>1, <2>1
    <3>2. \A q \in 1 .. n + 1 : q \in 1 .. n \/ q = n + 1
      BY <2>1
    <3>3. QED
      BY <2>1, <3>1, <3>2
  <2> HIDE DEF a, b
  <2>4. a = b
    BY <2>2, <2>3, SeqEqual
  <2>5. QED
    BY <2>1, <2>4 DEF a, b
<1>5. SubSeq(s, 1, Len(s)) = s
  BY <1>1
<1>6. Up(k, 0) = k.prefix
  <2>1. <<>> \in Seq(Texts)
    OBVIOUS
  <2>2. TextOf(k.prefix, <<>>) = k.prefix
    BY <1>1, <2>1, TextGrows
  <2>3. QED
    BY <1>3, <2>2 DEF Up, s
<1>7. \A n \in 0 .. Len(s) : Up(k, n) \in Texts
  BY <1>1, <1>2, TextGrows DEF Up, s
<1>8. ASSUME NEW n \in 0 .. Len(s) - 1
      PROVE  Up(k, n + 1) = Up(k, n) \o <<Slash>> \o s[n + 1]
  <2>1. SubSeq(s, 1, n) \in Seq(Texts)
    BY <1>1, <1>2
  <2>2. TextOf(k.prefix, Append(SubSeq(s, 1, n), s[n + 1]))
          = TextOf(k.prefix, SubSeq(s, 1, n)) \o <<Slash>> \o s[n + 1]
    BY <1>1, <1>4, <2>1, TextGrows
  <2>3. QED
    BY <1>4, <2>2 DEF Up, s
<1>9. Up(k, Len(s)) = Whole(k)
  BY <1>5 DEF Up, Whole, s
<1>10. QED
  BY <1>6, <1>7, <1>8, <1>9 DEF s

-----------------------------------------------------------------------------
(***************************************************************************)
(* Where a text ends in a longer one                                       *)
(***************************************************************************)
At(W, b, x) == \A q \in 1 .. Len(x) : b + q <= Len(W) /\ W[b + q] = x[q]
Ends(W, e) == e = Len(W) \/ (e < Len(W) /\ W[e + 1] = Slash)

\* Two texts without a '/' that begin at one place and end at a '/', or one of
\* them with the whole text, are the same.
LEMMA SameCut ==
  ASSUME NEW W \in Texts, NEW b \in Nat,
         NEW x \in Texts, NoSlash(x), At(W, b, x),
         b + Len(x) < Len(W), W[b + Len(x) + 1] = Slash,
         NEW y \in Texts, NoSlash(y), At(W, b, y), Ends(W, b + Len(y))
  PROVE  x = y
<1>1. Len(x) \in Nat /\ Len(y) \in Nat /\ Len(W) \in Nat
  BY DEF Texts
<1>2. ~ (Len(x) < Len(y))
  <2>1. SUFFICES ASSUME Len(x) < Len(y) PROVE FALSE
    OBVIOUS
  <2>2. Len(x) + 1 \in 1 .. Len(y) /\ b + (Len(x) + 1) = b + Len(x) + 1
    BY <1>1, <2>1
  <2>3. W[b + Len(x) + 1] = y[Len(x) + 1]
    BY <2>2 DEF At
  <2>4. QED
    BY <2>2, <2>3 DEF NoSlash
<1>3. ~ (Len(y) < Len(x))
  <2>1. SUFFICES ASSUME Len(y) < Len(x) PROVE FALSE
    OBVIOUS
  <2>2. Len(y) + 1 \in 1 .. Len(x) /\ b + (Len(y) + 1) = b + Len(y) + 1
    BY <1>1, <2>1
  <2>3. W[b + Len(y) + 1] = x[Len(y) + 1]
    BY <2>2 DEF At
  <2>4. W[b + Len(y) + 1] = Slash
    BY <1>1, <2>1 DEF Ends
  <2>5. QED
    BY <2>2, <2>3, <2>4 DEF NoSlash
<1>4. Len(x) = Len(y)
  BY <1>1, <1>2, <1>3
<1>5. \A q \in 1 .. Len(x) : x[q] = y[q]
  BY <1>4 DEF At
<1>6. QED
  BY <1>4, <1>5, SeqEqual DEF Texts

\* What a text is made of, byte by byte.
LEMMA TwoTexts ==
  ASSUME NEW x \in Texts, NEW y \in Texts
  PROVE  /\ x \o <<Slash>> \o y \in Texts /\ x \o <<Slash>> \in Texts
         /\ Len(x) \in Nat /\ Len(y) \in Nat
         /\ Len(x \o <<Slash>>) = Len(x) + 1
         /\ Len(x \o <<Slash>> \o y) = Len(x) + 1 + Len(y)
         /\ \A q \in 1 .. Len(x) : (x \o <<Slash>>)[q] = x[q] /\ (x \o <<Slash>> \o y)[q] = x[q]
         /\ (x \o <<Slash>>)[Len(x) + 1] = Slash /\ (x \o <<Slash>> \o y)[Len(x) + 1] = Slash
         /\ \A q \in 1 .. Len(y) : (x \o <<Slash>> \o y)[Len(x) + 1 + q] = y[q]
<1> DEFINE u == x \o <<Slash>>
<1>1. <<Slash>> \in Seq(Byte) /\ Len(<<Slash>>) = 1 /\ <<Slash>>[1] = Slash
  BY DEF Slash, Byte
<1>2. x \in Seq(Byte) /\ y \in Seq(Byte) /\ Len(x) \in Nat /\ Len(y) \in Nat
  BY DEF Texts
<1>3. /\ u \in Seq(Byte) /\ Len(u) = Len(x) + 1 /\ u[Len(x) + 1] = Slash
      /\ \A q \in 1 .. Len(x) : u[q] = x[q]
  BY <1>1, <1>2
<1> HIDE DEF u
<1>4. /\ u \o y \in Seq(Byte) /\ Len(u \o y) = Len(u) + Len(y)
      /\ \A q \in 1 .. Len(u) : (u \o y)[q] = u[q]
      /\ \A q \in 1 .. Len(y) : (u \o y)[Len(u) + q] = y[q]
  BY <1>2, <1>3
<1>5. Len(u) \in Nat /\ Len(x) + 1 \in 1 .. Len(u) /\ \A q \in 1 .. Len(x) : q \in 1 .. Len(u)
  BY <1>2, <1>3
<1>6. QED
  BY <1>2, <1>3, <1>4, <1>5 DEF u, Texts

\* Up to each segment, a key's text starts with the text up to there, and goes
\* on with a '/' unless it was the last one.
LEMMA UpStarts ==
  ASSUME NEW k \in AllKeys, NEW n \in 0 .. Len(k.segments)
  PROVE  /\ Up(k, n) \in Texts /\ Whole(k) \in Texts
         /\ Starts(Up(k, n), Whole(k))
         /\ n = Len(k.segments) => Len(Up(k, n)) = Len(Whole(k))
         /\ n < Len(k.segments) => Starts(Up(k, n) \o <<Slash>>, Whole(k))
<1> DEFINE N == Len(k.segments)
           W == Whole(k)
<1>1. N \in Nat
  BY KeyTypes
<1>2. \A j \in 0 .. N : Up(k, j) \in Texts
  BY UpGrows
<1>3. W = Up(k, N) /\ W \in Texts
  <2>1. N \in 0 .. N
    BY <1>1
  <2>2. Up(k, N) \in Texts
    BY <1>2, <2>1
  <2>3. Up(k, N) = W
    BY UpGrows
  <2>4. QED
    BY <2>2, <2>3
<1> DEFINE T == {j \in 0 .. N : Starts(Up(k, N - j), W)}
<1>4. 0 \in T
  <2>1. Starts(W, W)
    BY <1>3 DEF Starts, Texts
  <2> HIDE DEF N, W
  <2>2. 0 \in 0 .. N /\ N - 0 = N
    BY <1>1
  <2>3. QED
    BY <1>3, <2>1, <2>2
<1>5. ASSUME NEW i \in 0 .. N - 1, Starts(Up(k, i + 1), W)
      PROVE  Starts(Up(k, i) \o <<Slash>>, W) /\ Starts(Up(k, i), W)
  <2> DEFINE x == Up(k, i)
             y == k.segments[i + 1]
  <2>1. i \in 0 .. N /\ i + 1 \in 1 .. N
    BY <1>1
  <2>2. x \in Texts /\ y \in Texts
    BY <1>2, <2>1, KeyTypes
  <2>3. Up(k, i + 1) = x \o <<Slash>> \o y
    BY UpGrows
  <2> HIDE DEF x, y, W
  <2>4. Len(x) + 1 + Len(y) <= Len(W)
        /\ \A q \in 1 .. Len(x) + 1 + Len(y) : W[q] = (x \o <<Slash>> \o y)[q]
    BY <1>5, <2>2, <2>3, TwoTexts DEF Starts
  <2>5. /\ Len(x) \in Nat /\ Len(y) \in Nat /\ Len(x \o <<Slash>>) = Len(x) + 1
        /\ \A q \in 1 .. Len(x) : (x \o <<Slash>>)[q] = x[q] /\ (x \o <<Slash>> \o y)[q] = x[q]
        /\ (x \o <<Slash>>)[Len(x) + 1] = Slash /\ (x \o <<Slash>> \o y)[Len(x) + 1] = Slash
    BY <2>2, TwoTexts
  <2>6. Len(W) \in Nat
    BY <1>3 DEF Texts
  <2>7. Len(x) <= Len(W) /\ Len(x) + 1 <= Len(W)
    BY <2>4, <2>5, <2>6
  <2>8. ASSUME NEW q \in 1 .. Len(x) + 1 PROVE W[q] = (x \o <<Slash>>)[q]
    <3>1. q \in 1 .. Len(x) + 1 + Len(y) /\ (q \in 1 .. Len(x) \/ q = Len(x) + 1)
      BY <2>5
    <3>2. QED
      BY <2>4, <2>5, <3>1
  <2>9. ASSUME NEW q \in 1 .. Len(x) PROVE W[q] = x[q]
    <3>1. q \in 1 .. Len(x) + 1
      BY <2>5
    <3>2. QED
      BY <2>5, <2>8, <3>1
  <2>10. QED
    BY <2>5, <2>7, <2>8, <2>9 DEF Starts, x
<1>6. ASSUME NEW j \in 0 .. N - 1, j \in T
      PROVE  j + 1 \in T
  <2> HIDE DEF N, W
  <2>1. N - (j + 1) \in 0 .. N - 1 /\ (N - (j + 1)) + 1 = N - j /\ j + 1 \in 0 .. N
    BY <1>1
  <2>2. Starts(Up(k, (N - (j + 1)) + 1), W)
    BY <1>6, <2>1
  <2>3. QED
    BY <1>5, <2>1, <2>2
<1>7. \A j \in 0 .. N : j \in T
  <2> HIDE DEF N, T
  <2>1. QED
    BY <1>1, <1>4, <1>6, Induction
<1>8. ASSUME NEW i \in 0 .. N PROVE Starts(Up(k, i), W)
  <2> HIDE DEF N, W
  <2>1. N - i \in 0 .. N /\ N - (N - i) = i
    BY <1>1
  <2>2. N - i \in T
    BY <1>7, <2>1
  <2>3. QED
    BY <2>1, <2>2
<1>9. ASSUME n < N PROVE Starts(Up(k, n) \o <<Slash>>, W)
  <2>1. n \in 0 .. N - 1 /\ n + 1 \in 0 .. N
    BY <1>1, <1>9
  <2>2. Starts(Up(k, n + 1), W)
    BY <1>8, <2>1
  <2>3. QED
    BY <1>5, <2>1, <2>2
<1>10. n = N => Len(Up(k, n)) = Len(W)
  BY <1>3
<1>11. QED
  BY <1>2, <1>3, <1>8, <1>9, <1>10

-----------------------------------------------------------------------------
(***************************************************************************)
(* The directory of key d at depth n, and the keys k whose text goes on    *)
(* below it.                                                               *)
(***************************************************************************)
IsBelow(k, d, n) ==
  /\ k.prefix = d.prefix
  /\ Len(k.segments) > n
  /\ \A i \in 1 .. n : k.segments[i] = d.segments[i]

DirText(d, n) == Up(d, n) \o <<Slash>>

\* The first n segments of two keys that agree on them.
LEMMA SameUp ==
  ASSUME NEW k \in AllKeys, NEW d \in AllKeys, NEW n \in 0 .. Len(d.segments),
         n <= Len(k.segments), k.prefix = d.prefix,
         \A i \in 1 .. n : k.segments[i] = d.segments[i]
  PROVE  Up(k, n) = Up(d, n)
<1> DEFINE x == k.segments
           y == d.segments
           a == SubSeq(x, 1, n)
           b == SubSeq(y, 1, n)
<1>1. x \in Seq(Texts) /\ y \in Seq(Texts)
  BY KeyTypes
<1>2. n \in Nat /\ n <= Len(x) /\ n <= Len(y) /\ \A i \in 1 .. n : x[i] = y[i]
  BY <1>1
<1> HIDE DEF x, y
<1>3. a \in Seq(Texts) /\ Len(a) = n /\ \A i \in 1 .. n : a[i] = x[i]
  BY <1>1, <1>2
<1>4. b \in Seq(Texts) /\ Len(b) = n /\ \A i \in 1 .. n : b[i] = y[i]
  BY <1>1, <1>2
<1> HIDE DEF a, b
<1>5. a = b
  BY <1>2, <1>3, <1>4, SeqEqual
<1>6. QED
  BY <1>5 DEF Up, a, b, x, y

\* A text that starts with a directory's text also starts with that of the
\* directory around it, and has the name of the inner one and a '/' after that.
LEMMA OuterStarts ==
  ASSUME NEW W \in Texts, NEW x \in Texts, NEW y \in Texts,
         Starts((x \o <<Slash>> \o y) \o <<Slash>>, W)
  PROVE  /\ Starts(x \o <<Slash>>, W) /\ At(W, Len(x) + 1, y)
         /\ Len(x) + 1 + Len(y) < Len(W) /\ W[Len(x) + 1 + Len(y) + 1] = Slash
<1> DEFINE u == x \o <<Slash>>
           v == x \o <<Slash>> \o y
           w == v \o <<Slash>>
<1>1. /\ u \in Texts /\ v \in Texts /\ Len(x) \in Nat /\ Len(y) \in Nat /\ Len(u) = Len(x) + 1
      /\ Len(v) = Len(x) + 1 + Len(y)
      /\ \A q \in 1 .. Len(x) : u[q] = x[q] /\ v[q] = x[q]
      /\ u[Len(x) + 1] = Slash /\ v[Len(x) + 1] = Slash
      /\ \A q \in 1 .. Len(y) : v[Len(x) + 1 + q] = y[q]
  BY TwoTexts
<1> HIDE DEF u, v
<1>2. /\ Len(w) = Len(v) + 1 /\ w[Len(v) + 1] = Slash
      /\ \A q \in 1 .. Len(v) : w[q] = v[q]
  BY <1>1, TwoTexts
<1>3. Starts(w, W) /\ Len(W) \in Nat
  BY DEF Texts, v
<1> HIDE DEF w
<1>4. Len(v) + 1 <= Len(W) /\ \A q \in 1 .. Len(v) + 1 : W[q] = w[q]
  BY <1>2, <1>3 DEF Starts
<1>5. ASSUME NEW q \in 1 .. Len(v) PROVE W[q] = v[q]
  <2>1. q \in 1 .. Len(v) + 1
    BY <1>1
  <2>2. QED
    BY <1>2, <1>4, <2>1
<1>6. ASSUME NEW q \in 1 .. Len(x) + 1 PROVE W[q] = u[q]
  <2>1. q \in 1 .. Len(v) /\ (q \in 1 .. Len(x) \/ q = Len(x) + 1)
    BY <1>1
  <2>2. QED
    BY <1>1, <1>5, <2>1
<1>7. Starts(u, W)
  BY <1>1, <1>3, <1>4, <1>6 DEF Starts
<1>8. At(W, Len(x) + 1, y)
  <2>1. SUFFICES ASSUME NEW q \in 1 .. Len(y)
                 PROVE  Len(x) + 1 + q <= Len(W) /\ W[Len(x) + 1 + q] = y[q]
    BY DEF At
  <2>2. Len(x) + 1 + q \in 1 .. Len(v) /\ Len(x) + 1 + q <= Len(W)
    BY <1>1, <1>3, <1>4
  <2>3. QED
    BY <1>1, <1>5, <2>2
<1>9. W[Len(v) + 1] = Slash
  <2>1. Len(v) + 1 \in 1 .. Len(v) + 1
    BY <1>1
  <2>2. QED
    BY <1>2, <1>4, <2>1
<1>10. Len(v) < Len(W)
  BY <1>1, <1>3, <1>4
<1>11. QED
  BY <1>1, <1>7, <1>8, <1>9, <1>10 DEF u

\* The text of a key starts with the text of a directory exactly if the key is
\* below it.
LEMMA StartsIsBelow ==
  ASSUME NEW k \in AllKeys, NEW d \in AllKeys, NEW n \in 0 .. Len(d.segments)
  PROVE  Starts(DirText(d, n), Whole(k)) <=> IsBelow(k, d, n)
<1> DEFINE N == Len(d.segments)
           M == Len(k.segments)
           W == Whole(k)
<1>1. N \in Nat /\ M \in Nat /\ n \in 0 .. N
  BY KeyTypes
<1>2. W \in Texts /\ Len(W) \in Nat
  <2>1. 0 \in 0 .. Len(k.segments)
    BY <1>1
  <2>2. W \in Texts
    BY <2>1, UpStarts
  <2>3. QED
    BY <2>2 DEF Texts
<1>3. ASSUME IsBelow(k, d, n)
      PROVE  Starts(DirText(d, n), W)
  <2>1. n \in 0 .. M /\ n < M
    BY <1>1, <1>3 DEF IsBelow
  <2>2. Up(k, n) = Up(d, n)
    BY <1>3, <2>1, SameUp DEF IsBelow
  <2>3. QED
    BY <2>1, <2>2, UpStarts DEF DirText
<1> HIDE DEF W
<1>4. ASSUME NEW i \in 0 .. M, Starts(Up(k, i) \o <<Slash>>, W)
      PROVE  i < M
  <2>1. SUFFICES ASSUME i = M PROVE FALSE
    BY <1>1
  <2>2. Len(Up(k, i)) = Len(W) /\ Up(k, i) \in Texts
    BY <2>1, UpStarts DEF W
  <2>3. Len(Up(k, i) \o <<Slash>>) = Len(W) + 1
    BY <2>2, TwoTexts
  <2>4. QED
    BY <1>2, <1>4, <2>3 DEF Starts
<1> DEFINE T == {i \in 0 .. N : Starts(DirText(d, i), W)
                                 => Up(k, i) = Up(d, i) /\ IsBelow(k, d, i)}
<1>5. 0 \in T
  <2>1. SUFFICES ASSUME Starts(DirText(d, 0), W)
                 PROVE  Up(k, 0) = Up(d, 0) /\ IsBelow(k, d, 0)
    BY <1>1
  <2> DEFINE x == d.prefix
             y == k.prefix
  <2>2. x \in Texts /\ y \in Texts /\ NoSlash(x) /\ NoSlash(y)
    BY KeyTypes
  <2>3. Up(d, 0) = x /\ Up(k, 0) = y
    BY UpGrows
  <2> HIDE DEF x, y
  <2>4. /\ Len(x \o <<Slash>>) = Len(x) + 1 /\ (x \o <<Slash>>)[Len(x) + 1] = Slash
        /\ Len(x) \in Nat /\ Len(y) \in Nat
        /\ \A q \in 1 .. Len(x) : (x \o <<Slash>>)[q] = x[q]
    BY <2>2, TwoTexts
  <2>5. Len(x) + 1 <= Len(W) /\ \A q \in 1 .. Len(x) + 1 : W[q] = (x \o <<Slash>>)[q]
    BY <2>1, <2>3, <2>4 DEF Starts, DirText
  <2>6. At(W, 0, x)
    <3>1. SUFFICES ASSUME NEW q \in 1 .. Len(x)
                   PROVE  0 + q <= Len(W) /\ W[0 + q] = x[q]
      BY DEF At
    <3>2. q \in 1 .. Len(x) + 1 /\ 0 + q = q /\ q <= Len(W)
      BY <1>2, <2>4, <2>5
    <3>3. QED
      BY <2>4, <2>5, <3>2
  <2>7. 0 + Len(x) < Len(W) /\ W[0 + Len(x) + 1] = Slash
    <3>1. 0 + Len(x) + 1 = Len(x) + 1 /\ Len(x) + 1 \in 1 .. Len(x) + 1 /\ 0 + Len(x) < Len(W)
      BY <1>2, <2>4, <2>5
    <3>2. QED
      BY <2>4, <2>5, <3>1
  <2>8. Starts(y, W) /\ (0 = M => Len(y) = Len(W)) /\ (0 < M => Starts(y \o <<Slash>>, W))
    <3>1. 0 \in 0 .. Len(k.segments)
      BY <1>1
    <3>2. QED
      BY <2>3, <3>1, UpStarts DEF W
  <2>9. At(W, 0, y)
    <3>1. Len(y) <= Len(W) /\ \A q \in 1 .. Len(y) : W[q] = y[q]
      BY <2>8 DEF Starts
    <3>2. \A q \in 1 .. Len(y) : 0 + q = q /\ q <= Len(W)
      BY <1>2, <2>4, <3>1
    <3>3. QED
      BY <3>1, <3>2 DEF At
  <2>10. Ends(W, 0 + Len(y))
    <3>1. CASE M = 0
      BY <2>4, <2>8, <3>1 DEF Ends
    <3>2. CASE M > 0
      <4>1. /\ Len(y \o <<Slash>>) = Len(y) + 1 /\ (y \o <<Slash>>)[Len(y) + 1] = Slash
        BY <2>2, TwoTexts
      <4>2. Len(y) + 1 <= Len(W) /\ W[Len(y) + 1] = Slash
        <5>1. Starts(y \o <<Slash>>, W)
          BY <2>8, <3>2
        <5>2. Len(y) + 1 \in 1 .. Len(y) + 1
          BY <2>4
        <5>3. QED
          BY <4>1, <5>1, <5>2 DEF Starts
      <4>3. 0 + Len(y) < Len(W) /\ 0 + Len(y) + 1 = Len(y) + 1
        BY <1>2, <2>4, <4>2
      <4>4. QED
        BY <4>2, <4>3 DEF Ends
    <3>3. QED
      BY <1>1, <3>1, <3>2
  <2>11. x = y
    <3>1. 0 \in Nat
      OBVIOUS
    <3>2. QED
      BY <1>2, <2>2, <2>6, <2>7, <2>9, <2>10, <3>1, SameCut
  <2>12. 0 < M
    <3>1. 0 \in 0 .. M /\ Starts(Up(k, 0) \o <<Slash>>, W)
      BY <1>1, <2>1, <2>3, <2>11 DEF DirText
    <3>2. QED
      BY <1>4, <3>1
  <2>13. QED
    BY <2>3, <2>11, <2>12 DEF IsBelow, x, y
<1>6. ASSUME NEW i \in 0 .. N - 1, i \in T
      PROVE  i + 1 \in T
  <2>0. i \in 0 .. N /\ i + 1 \in 0 .. N /\ i + 1 \in 1 .. N /\ i \in Nat
    BY <1>1
  <2>1. SUFFICES ASSUME Starts(DirText(d, i + 1), W)
                 PROVE  Up(k, i + 1) = Up(d, i + 1) /\ IsBelow(k, d, i + 1)
    BY <2>0
  <2> DEFINE z == Up(d, i)
             x == d.segments[i + 1]
             y == k.segments[i + 1]
  <2>2. z \in Texts /\ x \in Texts /\ NoSlash(x) /\ Up(d, i + 1) = z \o <<Slash>> \o x
    BY <2>0, KeyTypes, UpGrows
  <2>3. Starts((z \o <<Slash>> \o x) \o <<Slash>>, W)
    BY <2>1, <2>2 DEF DirText
  <2> HIDE DEF x, z
  <2>4. /\ Starts(z \o <<Slash>>, W) /\ At(W, Len(z) + 1, x)
        /\ Len(z) + 1 + Len(x) < Len(W) /\ W[Len(z) + 1 + Len(x) + 1] = Slash
    BY <1>2, <2>2, <2>3, OuterStarts
  <2>5. Up(k, i) = z /\ IsBelow(k, d, i)
    BY <1>6, <2>4 DEF DirText, z
  <2>6. i \in 0 .. M - 1 /\ i + 1 \in 1 .. M /\ i + 1 \in 0 .. M
    BY <1>1, <2>5 DEF IsBelow
  <2>7. y \in Texts /\ NoSlash(y) /\ Up(k, i + 1) = z \o <<Slash>> \o y
    BY <2>5, <2>6, KeyTypes, UpGrows
  <2> HIDE DEF y
  <2> DEFINE v == z \o <<Slash>> \o y
  <2>8. /\ v \in Texts /\ Len(z) \in Nat /\ Len(y) \in Nat /\ Len(v) = Len(z) + 1 + Len(y)
        /\ \A q \in 1 .. Len(y) : v[Len(z) + 1 + q] = y[q]
    BY <2>2, <2>7, TwoTexts
  <2>9. Starts(v, W) /\ (i + 1 = M => Len(v) = Len(W)) /\ (i + 1 < M => Starts(v \o <<Slash>>, W))
    BY <2>6, <2>7, UpStarts DEF W
  <2> HIDE DEF v
  <2>10. At(W, Len(z) + 1, y)
    <3>1. SUFFICES ASSUME NEW q \in 1 .. Len(y)
                   PROVE  Len(z) + 1 + q <= Len(W) /\ W[Len(z) + 1 + q] = y[q]
      BY DEF At
    <3>2. Len(v) <= Len(W) /\ \A p \in 1 .. Len(v) : W[p] = v[p]
      BY <2>9 DEF Starts
    <3>3. Len(z) + 1 + q \in 1 .. Len(v) /\ Len(z) + 1 + q <= Len(W)
      BY <1>2, <2>8, <3>2
    <3>4. QED
      BY <2>8, <3>2, <3>3
  <2>11. Ends(W, Len(z) + 1 + Len(y))
    <3>1. CASE i + 1 = M
      BY <2>8, <2>9, <3>1 DEF Ends
    <3>2. CASE i + 1 < M
      <4>1. Len(v \o <<Slash>>) = Len(v) + 1 /\ (v \o <<Slash>>)[Len(v) + 1] = Slash
        BY <2>2, <2>8, TwoTexts
      <4>2. Len(v) + 1 <= Len(W) /\ W[Len(v) + 1] = Slash
        <5>1. Starts(v \o <<Slash>>, W)
          BY <2>9, <3>2
        <5>2. Len(v) + 1 \in 1 .. Len(v) + 1
          BY <2>8
        <5>3. QED
          BY <4>1, <5>1, <5>2 DEF Starts
      <4>3. Len(z) + 1 + Len(y) < Len(W)
        BY <1>2, <2>8, <4>2
      <4>4. QED
        BY <2>8, <4>2, <4>3 DEF Ends
    <3>3. QED
      BY <1>1, <2>6, <3>1, <3>2
  <2>12. x = y
    <3>1. Len(z) + 1 \in Nat
      BY <2>8
    <3>2. QED
      BY <1>2, <2>2, <2>4, <2>7, <2>10, <2>11, <3>1, SameCut
  <2>13. Up(k, i + 1) = Up(d, i + 1)
    BY <2>2, <2>7, <2>12
  <2>14. i + 1 < M
    BY <1>4, <2>1, <2>6, <2>13 DEF DirText
  <2>15. ASSUME NEW j \in 1 .. i + 1 PROVE k.segments[j] = d.segments[j]
    <3>1. j \in 1 .. i \/ j = i + 1
      BY <2>0
    <3>2. QED
      BY <2>5, <2>12, <3>1 DEF IsBelow, x, y
  <2>16. QED
    BY <2>5, <2>13, <2>14, <2>15 DEF IsBelow
<1> HIDE DEF T
<1>7. \A i \in 0 .. N : i \in T
  <2> HIDE DEF N
  <2>1. QED
    BY <1>1, <1>5, <1>6, Induction
<1>8. n \in T
  BY <1>1, <1>7
<1>9. QED
  BY <1>3, <1>8 DEF T, W

-----------------------------------------------------------------------------
(***************************************************************************)
(* Levels add up                                                           *)
(***************************************************************************)
\* How many segments the DirName with the first n levels has.
LEMMA CountIs ==
  ASSUME key \in AllKeys, levels \in Seq(Nat), NEW f, SumsOf(f, levels),
         NEW n \in 0 .. Len(levels)
  PROVE  SegmentCount(n) = SaturatingSub(Len(key.segments), f[n])
<1> DEFINE C == Len(key.segments)
           g == [m \in 0 .. n |-> SaturatingSub(C, f[m])]
           count == CHOOSE count : count = [m \in 0 .. n |->
                      IF m = 0 THEN Len(key.segments) ELSE SaturatingSub(count[m - 1], levels[m])]
<1>1. C \in Nat /\ n \in Nat /\ n <= Len(levels) /\ \A m \in 1 .. n : levels[m] \in Nat
  BY KeyTypes
<1>2. f[0] = 0 /\ \A m \in 1 .. n : f[m] = f[m - 1] + levels[m] /\ f[m - 1] \in Nat
  <2>1. ASSUME NEW m \in 1 .. n
        PROVE  f[m] = f[m - 1] + levels[m] /\ f[m - 1] \in Nat
    <3>1. m \in 1 .. Len(levels) /\ m - 1 \in 0 .. Len(levels)
      BY <1>1
    <3>2. QED
      BY <3>1 DEF SumsOf
  <2>2. QED
    BY <2>1 DEF SumsOf
<1> HIDE DEF C
<1>3. ASSUME NEW m \in 0 .. n
      PROVE  g[m] = IF m = 0 THEN C ELSE SaturatingSub(g[m - 1], levels[m])
  <2>1. CASE m = 0
    BY <1>1, <1>2, <2>1 DEF SaturatingSub
  <2>2. CASE m # 0
    <3>1. m \in 1 .. n /\ m - 1 \in 0 .. n
      BY <1>1, <2>2
    <3>2. f[m] = f[m - 1] + levels[m] /\ f[m - 1] \in Nat /\ levels[m] \in Nat
      BY <1>1, <1>2, <3>1
    <3>3. g[m] = SaturatingSub(C, f[m]) /\ g[m - 1] = SaturatingSub(C, f[m - 1])
      BY <3>1
    <3> HIDE DEF g
    <3>4. \A a, b, c \in Nat : SaturatingSub(a, b + c) = SaturatingSub(SaturatingSub(a, b), c)
      BY DEF SaturatingSub
    <3>5. SaturatingSub(C, f[m - 1] + levels[m])
            = SaturatingSub(SaturatingSub(C, f[m - 1]), levels[m])
      BY <1>1, <3>2, <3>4
    <3>6. QED
      BY <2>2, <3>2, <3>3, <3>5
  <2>3. QED
    BY <2>1, <2>2
<1>4. g = [m \in 0 .. n |-> g[m]]
  OBVIOUS
<1>5. g[n] = SaturatingSub(C, f[n])
  BY <1>1
<1> HIDE DEF g
<1>6. g = [m \in 0 .. n |-> IF m = 0 THEN C ELSE SaturatingSub(g[m - 1], levels[m])]
  BY <1>3, <1>4, Zenon
<1>7. count = [m \in 0 .. n |-> IF m = 0 THEN C ELSE SaturatingSub(count[m - 1], levels[m])]
  BY <1>6, Zenon DEF C
<1> HIDE DEF count
<1>8. ASSUME NEW m \in 0 .. n
      PROVE  count[m] = IF m = 0 THEN C ELSE SaturatingSub(count[m - 1], levels[m])
  BY <1>7
<1>9. count[n] = g[n]
  <2>1. 0 \in 0 .. n
    BY <1>1
  <2>2. count[0] = g[0]
    BY <1>3, <1>8, <2>1
  <2>3. ASSUME NEW m \in 1 .. n, count[m - 1] = g[m - 1]
        PROVE  count[m] = g[m]
    <3>1. m \in 0 .. n /\ m # 0
      BY <1>1
    <3>2. QED
      BY <1>3, <1>8, <2>3, <3>1
  <2>4. QED
    BY <1>1, <2>2, <2>3, SameRecursion
<1>10. SegmentCount(n) = count[n]
  BY DEF SegmentCount, count
<1>11. QED
  BY <1>5, <1>9, <1>10 DEF C

\* How deep a directory is.
LEMMA DepthIs ==
  ASSUME key \in AllKeys, NEW drops \in Seq(Nat)
  PROVE  /\ Sum(drops) \in Nat
         /\ Depth(drops) = SaturatingSub(Len(key.segments), Sum(drops))
         /\ Depth(drops) \in 0 .. Len(key.segments)
<1> DEFINE C == Len(key.segments)
           S == Sum(drops)
<1>1. C \in Nat
  BY KeyTypes
<1>2. S \in Nat
  <2>1. PICK f : SumsOf(f, drops) /\ S = f[Len(drops)]
    BY SumIs
  <2>2. Len(drops) \in 0 .. Len(drops)
    OBVIOUS
  <2>3. QED
    BY <2>1, <2>2 DEF SumsOf
<1>3. Depth(drops) = Max({0, C - S})
  BY DEF Depth
<1> HIDE DEF C, S
<1>4. Max({0, C - S}) = SaturatingSub(C, S)
  <2> DEFINE x == SaturatingSub(C, S)
  <2>1. x \in {0, C - S} /\ x \in Nat /\ x <= C /\ \A y \in {0, C - S} : x >= y /\ y \in Int
    BY <1>1, <1>2 DEF SaturatingSub
  <2>2. \A z \in {0, C - S} : (\A y \in {0, C - S} : z >= y) => z = x
    BY <2>1
  <2> HIDE DEF x
  <2>3. Max({0, C - S}) = x
    BY <2>1, <2>2 DEF Max
  <2>4. QED
    BY <2>3 DEF x
<1>5. SaturatingSub(C, S) \in 0 .. C
  BY <1>1, <1>2 DEF SaturatingSub
<1>6. QED
  BY <1>2, <1>3, <1>4, <1>5 DEF C, S

\* Each DirName has at most the segments of the one inside it: the limit of the
\* outermost one holds.
LEMMA BudgetIs ==
  ASSUME key \in AllKeys, levels \in Seq(Nat)
  PROVE  Budget = Depth(levels)
<1> DEFINE C == Len(key.segments)
           N == Len(levels)
           Counts == {SegmentCount(n) : n \in 0 .. N}
<1>1. C \in Nat /\ N \in Nat /\ N \in 0 .. N
  BY KeyTypes
<1>2. PICK f : SumsOf(f, levels) /\ Sum(levels) = f[N]
  BY SumIs
<1>3. f \in [0 .. N -> Nat] /\ f[0] = 0 /\ \A n \in 1 .. N : f[n] = f[n - 1] + levels[n]
  BY <1>2 DEF SumsOf
<1>4. \A n \in 0 .. N : SegmentCount(n) = SaturatingSub(C, f[n])
  BY <1>2, CountIs
<1>5. \A n \in 1 .. N : levels[n] \in Nat
  OBVIOUS
<1> HIDE DEF C, N
<1>6. \A j \in 0 .. N : f[N - j] <= f[N]
  <2> DEFINE T == {j \in 0 .. N : f[N - j] <= f[N]}
  <2>1. 0 \in T
    <3>1. N - 0 = N /\ f[N] \in Nat /\ 0 \in 0 .. N
      BY <1>1, <1>3
    <3>2. QED
      BY <3>1
  <2>2. ASSUME NEW j \in 0 .. N - 1, j \in T
        PROVE  j + 1 \in T
    <3>1. /\ N - j \in 1 .. N /\ N - j \in 0 .. N /\ N - (j + 1) \in 0 .. N
          /\ (N - j) - 1 = N - (j + 1) /\ j + 1 \in 0 .. N
      BY <1>1
    <3>2. f[N - j] = f[N - (j + 1)] + levels[N - j] /\ levels[N - j] \in Nat
      BY <1>3, <1>5, <3>1
    <3>3. f[N - j] \in Nat /\ f[N - (j + 1)] \in Nat /\ f[N] \in Nat
      BY <1>1, <1>3, <3>1
    <3>4. f[N - j] <= f[N]
      BY <2>2
    <3>5. f[N - (j + 1)] <= f[N]
      BY <3>2, <3>3, <3>4
    <3>6. QED
      BY <3>1, <3>5
  <2> HIDE DEF T
  <2>3. \A j \in 0 .. N : j \in T
    BY <1>1, <2>1, <2>2, Induction
  <2>4. QED
    BY <2>3 DEF T
<1>7. ASSUME NEW n \in 0 .. N PROVE f[n] <= f[N] /\ f[n] \in Nat /\ f[N] \in Nat
  <2>1. N - n \in 0 .. N /\ N - (N - n) = n
    BY <1>1
  <2>2. f[N - (N - n)] <= f[N]
    BY <1>6, <2>1
  <2>3. QED
    BY <1>1, <1>3, <2>1, <2>2
<1> DEFINE x == SaturatingSub(C, f[N])
<1>8. x \in Counts
  BY <1>1, <1>4
<1>9. ASSUME NEW y \in Counts PROVE x <= y /\ y \in Int /\ x \in Int
  <2>1. PICK n \in 0 .. N : y = SaturatingSub(C, f[n])
    BY <1>4
  <2> HIDE DEF Counts
  <2>2. f[n] <= f[N] /\ f[n] \in Nat /\ f[N] \in Nat
    BY <1>7
  <2>3. QED
    BY <1>1, <2>1, <2>2 DEF SaturatingSub
<1> HIDE DEF x, Counts
<1>10. \A z \in Counts : (\A y \in Counts : z <= y) => z = x
  BY <1>8, <1>9
<1>11. Min(Counts) = x
  BY <1>8, <1>9, <1>10 DEF Min
<1>12. Depth(levels) = x
  BY <1>2, DepthIs DEF x, C
<1>13. QED
  BY <1>11, <1>12 DEF Budget, Counts, N

-----------------------------------------------------------------------------
(***************************************************************************)
(* The inductive invariant: the text that was kept is that of the          *)
(* directory the client asked for, whatever changed since.                 *)
(***************************************************************************)
Typed ==
  /\ store \subseteq AllKeys
  /\ key \in AllKeys
  /\ levels \in Seq(Levels \cup {1})
  /\ Len(levels) <= MaxNesting
  /\ asked \in Seq(Levels \cup {1})

IInv == Typed /\ kept = DirText(key, Depth(asked))

\* The levels of a listing are numbers.
LEMMA LevelsAreNumbers ==
  ASSUME NEW s \in Seq(Levels \cup {1})
  PROVE  s \in Seq(Nat)
<1>1. Levels \cup {1} \subseteq Nat
  BY LevelsAssumption
<1>2. QED
  BY <1>1

\* What dir_name_with_slash() returns.
LEMMA Returned ==
  ASSUME Typed
  PROVE  ToStringKey \o <<Slash>> = DirText(key, Depth(levels))
<1>1. key \in AllKeys /\ levels \in Seq(Nat)
  BY LevelsAreNumbers DEF Typed
<1>2. Budget = Depth(levels)
  BY <1>1, BudgetIs
<1>3. QED
  BY <1>2 DEF ToStringKey, DirText, Up

\* The invariant holds in the beginning,
LEMMA InitIInv == Init => IInv
<1> SUFFICES ASSUME Init PROVE IInv
  OBVIOUS
<1>1. Typed
  <2>1. <<1>> \in Seq(Levels \cup {1}) /\ Len(<<1>>) = 1
    OBVIOUS
  <2>2. 1 <= MaxNesting
    BY LevelsAssumption
  <2>3. QED
    BY <2>1, <2>2 DEF Init, Typed
<1>2. kept = DirText(key, Depth(levels)) /\ asked = levels
  BY <1>1, Returned DEF Init
<1>3. QED
  BY <1>1, <1>2 DEF IInv

\* every step keeps it,
LEMMA NextIInv == IInv /\ [Next]_vars => IInv'
<1> SUFFICES ASSUME IInv, [Next]_vars PROVE IInv'
  OBVIOUS
<1>1. Typed /\ kept = DirText(key, Depth(asked))
  BY DEF IInv
<1>2. levels \in Seq(Levels \cup {1}) /\ Len(levels) \in Nat /\ MaxNesting \in Nat
  BY <1>1, LevelsAssumption DEF Typed
<1>3. ASSUME Typed', UNCHANGED <<key, kept, asked>>
      PROVE  IInv'
  BY <1>1, <1>3 DEF IInv, DirText, Up, Depth, Sum
<1>4. ASSUME NEW k \in AllKeys, PutKey(k) PROVE IInv'
  <2>1. Typed'
    BY <1>1, <1>4 DEF PutKey, Typed
  <2>2. QED
    BY <1>3, <1>4, <2>1 DEF PutKey
<1>5. ASSUME NEW k \in AllKeys, DeleteKey(k) PROVE IInv'
  <2>1. Typed'
    BY <1>1, <1>5 DEF DeleteKey, Typed
  <2>2. QED
    BY <1>3, <1>5, <2>1 DEF DeleteKey
<1>6. ASSUME NEW l \in Levels \cup {1}, Len(levels) < MaxNesting,
             levels' = Append(levels, l), UNCHANGED <<store, key, kept, asked>>
      PROVE  IInv'
  <2>1. levels' \in Seq(Levels \cup {1}) /\ Len(levels') = Len(levels) + 1
    BY <1>2, <1>6
  <2>2. Len(levels') <= MaxNesting
    BY <1>2, <1>6, <2>1
  <2>3. Typed'
    BY <1>1, <1>6, <2>1, <2>2 DEF Typed
  <2>4. QED
    BY <1>3, <1>6, <2>3
<1>7. CASE New
  BY <1>6, <1>7 DEF New
<1>8. ASSUME NEW l \in Levels, NewWithLevel(l) PROVE IInv'
  BY <1>6, <1>8 DEF NewWithLevel
<1>9. ASSUME NEW l \in Levels, WithLevel(l) PROVE IInv'
  <2>1. levels' \in Seq(Levels \cup {1}) /\ Len(levels') = Len(levels)
    BY <1>2, <1>9 DEF WithLevel
  <2>2. Typed'
    BY <1>1, <1>9, <2>1 DEF WithLevel, Typed
  <2>3. QED
    BY <1>3, <1>9, <2>2 DEF WithLevel
<1>10. CASE IntoKey
  <2>1. levels' = SubSeq(levels, 1, Len(levels) - 1) /\ Len(levels) > 0
    BY <1>2, <1>10 DEF IntoKey, Front
  <2>2. levels' \in Seq(Levels \cup {1}) /\ Len(levels') <= Len(levels)
    BY <1>2, <2>1
  <2>3. Len(levels') <= MaxNesting
    BY <1>1, <1>2, <2>2 DEF Typed
  <2>4. Typed'
    BY <1>1, <1>10, <2>2, <2>3 DEF IntoKey, Typed
  <2>5. QED
    BY <1>3, <1>10, <2>4 DEF IntoKey
<1>11. CASE DirNameWithSlash
  <2>1. UNCHANGED <<store, key, levels>> /\ asked' = levels
    BY <1>11 DEF DirNameWithSlash
  <2>2. Typed'
    BY <1>1, <2>1 DEF Typed
  <2>3. kept' = DirText(key, Depth(levels))
    BY <1>1, <1>11, Returned DEF DirNameWithSlash
  <2>4. QED
    BY <2>1, <2>2, <2>3 DEF IInv, DirText, Up, Depth, Sum
<1>12. CASE UNCHANGED vars
  <2>1. Typed'
    BY <1>1, <1>12 DEF vars, Typed
  <2>2. QED
    BY <1>3, <1>12, <2>1 DEF vars
<1>13. QED
  BY <1>4, <1>5, <1>7, <1>8, <1>9, <1>10, <1>11, <1>12 DEF Next

\* and so it always holds.
LEMMA IInvHolds == Spec => []IInv
  BY InitIInv, NextIInv, PTL DEF Spec

\* What a scan by the kept text lists.
LEMMA Listed ==
  ASSUME IInv
  PROVE  Scan(kept) = Below(Depth(asked))
<1> DEFINE d == Depth(asked)
<1>1. key \in AllKeys /\ store \subseteq AllKeys /\ asked \in Seq(Nat) /\ kept = DirText(key, d)
  BY LevelsAreNumbers DEF IInv, Typed
<1>2. d \in 0 .. Len(key.segments)
  BY <1>1, DepthIs
<1> HIDE DEF d
<1>3. kept \in Texts /\ Len(kept) > 0
  <2>1. Up(key, d) \in Texts
    BY <1>1, <1>2, UpGrows
  <2>2. kept \in Texts /\ Len(kept) = Len(Up(key, d)) + 1 /\ Len(Up(key, d)) \in Nat
    BY <1>1, <2>1, TwoTexts DEF DirText
  <2>3. QED
    BY <2>2
<1>4. ASSUME NEW k \in store
      PROVE  k \in Scan(kept) <=> k \in Below(d)
  <2>1. k \in AllKeys
    BY <1>1
  <2>2. Whole(k) \in Texts
    <3>1. 0 \in 0 .. Len(k.segments)
      BY <2>1, KeyTypes
    <3>2. QED
      BY <2>1, <3>1, UpStarts
  <2>3. k \in Scan(kept) <=> Starts(kept, Whole(k))
    BY <1>3, <2>2, ScanIsStarts DEF Scan, Whole
  <2>4. Starts(kept, Whole(k)) <=> IsBelow(k, key, d)
    BY <1>1, <1>2, <2>1, StartsIsBelow
  <2>5. k \in Below(d) <=> IsBelow(k, key, d)
    BY DEF Below, IsBelow
  <2>6. QED
    BY <2>3, <2>4, <2>5
<1>5. Scan(kept) \subseteq store /\ Below(d) \subseteq store
  BY DEF Scan, Below
<1>6. QED
  BY <1>4, <1>5 DEF d

-----------------------------------------------------------------------------
\* Every variable has its type, and nested DirNames never leave a limit below
\* zero or above the segments there are, for any keys, levels and nesting.
THEOREM TypeCorrect == Spec => []TypeOK
<1>1. IInv => TypeOK
  <2> SUFFICES ASSUME IInv PROVE TypeOK
    OBVIOUS
  <2>1. Typed /\ key \in AllKeys /\ levels \in Seq(Nat) /\ asked \in Seq(Nat)
    BY LevelsAreNumbers DEF IInv, Typed
  <2>2. Budget \in 0 .. Len(key.segments)
    BY <2>1, BudgetIs, DepthIs
  <2>3. Depth(asked) \in 0 .. Len(key.segments)
    BY <2>1, DepthIs
  <2>4. Up(key, Depth(asked)) \in Texts
    BY <2>1, <2>3, UpGrows
  <2>5. kept \in Seq(Byte)
    BY <2>4, TwoTexts DEF IInv, DirText, Texts
  <2>6. QED
    BY <2>1, <2>2, <2>5 DEF TypeOK, Typed
<1>2. QED
  BY <1>1, IInvHolds, PTL

\* The levels of nested DirNames add up and stop at the prefix.
THEOREM NestedLevelsCorrect == Spec => []NestedLevelsAddUp
<1>1. IInv => NestedLevelsAddUp
  BY LevelsAreNumbers, BudgetIs DEF IInv, Typed, NestedLevelsAddUp
<1>2. QED
  BY <1>1, IInvHolds, PTL

\* A scan by the text of dir_name_with_slash() lists exactly the keys below the
\* directory, however the store and the handle have changed since.
THEOREM ListsExactlyBelowCorrect == Spec => []ListsExactlyBelow
<1>1. IInv => ListsExactlyBelow
  BY Listed DEF ListsExactlyBelow
<1>2. QED
  BY <1>1, IInvHolds, PTL
=============================================================================
