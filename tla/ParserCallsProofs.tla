-------------------------- MODULE ParserCallsProofs --------------------------
(***************************************************************************)
(* Proofs about the methods of Parser, called in any order on any UTF-8    *)
(* text: types, counters, positions, and what tail_raw() returns.          *)
(***************************************************************************)
EXTENDS ParserCalls, ParserLemmas, FiniteSetTheorems, HelperLemmas

-----------------------------------------------------------------------------
(***************************************************************************)
(* What the calls do to the history                                        *)
(***************************************************************************)
\* A call of a next_*() method takes the element or finds none.
Takes ==
  /\ NoElement \/ \E r : ElementOutcome(r) /\ NextElement(r)
  /\ read' = IF Exhausted THEN read ELSE read \o Element \o <<Slash>>
  /\ skipped' = skipped
  /\ call' \in Methods
  /\ call'[1] \notin {"peek_literal", "done", "tail_raw", "index"}

\* A call of one of the next_*() methods takes one segment or none.
LEMMA TakesForm ==
  ASSUME ParserTypeOK,
         \/ CallNextRaw \/ CallNextStr \/ CallNextNonempty \/ CallNextU64
         \/ \E expect \in Literals : CallNextLiteral(expect)
  PROVE  Takes
<1>1. /\ NoElement \/ \E r : ElementOutcome(r) /\ NextElement(r)
      /\ read' = IF Exhausted THEN read ELSE read \o Element \o <<Slash>>
      /\ skipped' = skipped
  <2> USE DEF Next_
  <2>1. CASE CallNextRaw
    BY <2>1, NextForm DEF CallNextRaw
  <2>2. CASE CallNextStr
    BY <2>2, NextForm DEF CallNextStr
  <2>3. CASE CallNextNonempty
    BY <2>3, NextForm DEF CallNextNonempty
  <2>4. CASE CallNextU64
    BY <2>4, NextForm DEF CallNextU64
  <2>5. ASSUME NEW expect \in Literals, CallNextLiteral(expect)
        PROVE  /\ NoElement \/ \E r : ElementOutcome(r) /\ NextElement(r)
               /\ read' = IF Exhausted THEN read ELSE read \o Element \o <<Slash>>
               /\ skipped' = skipped
    BY <2>5, NextForm DEF CallNextLiteral
  <2>6. QED
    BY <2>1, <2>2, <2>3, <2>4, <2>5
<1>2. \/ \E name \in {"next_raw", "next_str", "next_nonempty", "next_u64"} : call' = <<name>>
      \/ \E expect \in Literals : call' = <<"next_literal", expect>>
  BY DEF CallNextRaw, CallNextStr, CallNextNonempty, CallNextU64, CallNextLiteral, Next_, Call
<1>3. call' \in Methods
  BY <1>2 DEF Methods
<1>4. call'[1] \notin {"peek_literal", "done", "tail_raw", "index"}
  BY <1>2
<1>5. QED
  BY <1>1, <1>3, <1>4 DEF Takes

-----------------------------------------------------------------------------
(***************************************************************************)
(* Counting separators                                                     *)
(***************************************************************************)
\* The separators of a text up to an offset.
Cuts(s, n) == {p \in 1 .. n : s[p] = Slash}

\* The '/' in a text are finitely many.
LEMMA CutsFinite ==
  ASSUME NEW s, NEW n \in Nat
  PROVE  IsFiniteSet(Cuts(s, n)) /\ Cardinality(Cuts(s, n)) \in Nat
<1>1. IsFiniteSet(1 .. n)
  BY FS_Interval
<1>2. Cuts(s, n) \in SUBSET (1 .. n)
  BY DEF Cuts
<1>3. IsFiniteSet(Cuts(s, n))
  BY <1>1, <1>2, FS_Subset
<1>4. QED
  BY <1>3, FS_CardinalityType

\* The '/' in a prefix of a text,
LEMMA CutsOfPrefix ==
  ASSUME NEW s \in Seq(Byte), NEW n \in 0 .. Len(s)
  PROVE  SlashesIn(SubSeq(s, 1, n)) = Cuts(s, n)
<1> DEFINE t == SubSeq(s, 1, n)
<1>1. DOMAIN t = 1 .. n /\ \A p \in 1 .. n : t[p] = s[p]
  OBVIOUS
<1> HIDE DEF t
<1>2. SlashesIn(t) = Cuts(s, n)
  BY <1>1 DEF SlashesIn, Cuts
<1>3. QED
  BY <1>2 DEF t

\* and in the text.
LEMMA CutsOfText ==
  ASSUME NEW s \in Seq(Byte)
  PROVE  SlashesIn(s) = Cuts(s, Len(s))
BY DEF SlashesIn, Cuts

\* Fewer separators stand before an earlier offset.
LEMMA CutsGrow ==
  ASSUME NEW s, NEW m \in Nat, NEW n \in Nat, m <= n
  PROVE  Cardinality(Cuts(s, m)) <= Cardinality(Cuts(s, n))
<1>1. Cuts(s, m) \in SUBSET Cuts(s, n)
  BY DEF Cuts
<1>2. QED
  BY <1>1, CutsFinite, FS_Subset

\* The separators after an offset are those of the rest of the text.
LEMMA CutsOfRest ==
  ASSUME NEW s \in Seq(Byte), NEW n \in 0 .. Len(s)
  PROVE  Cardinality(SlashesIn(SubSeq(s, n + 1, Len(s))))
           = Cardinality(Cuts(s, Len(s))) - Cardinality(Cuts(s, n))
<1> DEFINE t == SubSeq(s, n + 1, Len(s))
           After == Cuts(s, Len(s)) \ Cuts(s, n)
           Before == SlashesIn(t)
           shift == [p \in After |-> p - n]
<1>1. DOMAIN t = 1 .. Len(s) - n /\ \A p \in 1 .. Len(s) - n : t[p] = s[p + n]
  OBVIOUS
<1>2. After = {p \in n + 1 .. Len(s) : s[p] = Slash}
  BY DEF Cuts
<1> HIDE DEF t, After
<1>3. Before = {p \in 1 .. Len(s) - n : s[p + n] = Slash}
  BY <1>1 DEF SlashesIn
<1> HIDE DEF Before
<1>4. shift \in Bijection(After, Before)
  <2>1. ASSUME NEW p \in After
        PROVE  p - n \in Before
    BY <1>2, <1>3
  <2>2. ASSUME NEW p \in After, NEW q \in After, p - n = q - n
        PROVE  p = q
    BY <1>2, <2>2
  <2>3. ASSUME NEW q \in Before
        PROVE  \E p \in After : p - n = q
    <3>1. q + n \in After /\ (q + n) - n = q
      BY <1>2, <1>3
    <3>2. PICK p \in After : p = q + n
      BY <3>1
    <3>3. QED
      BY <3>1, <3>2
  <2>4. shift \in [After -> Before]
    BY <2>1
  <2>5. shift \in Injection(After, Before)
    BY <2>2, <2>4 DEF Injection, IsInjective
  <2>6. shift \in Surjection(After, Before)
    BY <2>3, <2>4 DEF Surjection
  <2>7. QED
    BY <2>5, <2>6 DEF Bijection
<1>5. /\ IsFiniteSet(Cuts(s, Len(s))) /\ IsFiniteSet(Cuts(s, n))
      /\ Len(s) \in Nat
  BY CutsFinite
<1>6. Cuts(s, n) = Cuts(s, Len(s)) \cap Cuts(s, n)
  BY DEF Cuts
<1>7. /\ IsFiniteSet(After)
      /\ Cardinality(After) = Cardinality(Cuts(s, Len(s))) - Cardinality(Cuts(s, n))
  BY <1>5, <1>6, FS_Difference DEF After
<1>8. Cardinality(Before) = Cardinality(After)
  BY <1>4, <1>7, FS_Bijection DEF ExistsBijection
<1>9. QED
  BY <1>7, <1>8 DEF Before, t

\* What the counts say of the iterator.
LEMMA TakenIs ==
  ASSUME ParserTypeOK
  PROVE  /\ Total = Cardinality(Cuts(str_key, Len(str_key))) + 1
         /\ Total \in Nat
         /\ Taken \in Nat
         /\ ~ Exhausted => Taken = Cardinality(Cuts(str_key, at)) /\ Taken < Total
         /\ Exhausted => Taken = Total
<1>1. str_key \in Seq(Byte) /\ Len(str_key) \in Nat
  BY DEF ParserTypeOK
<1>2. Total = Cardinality(Cuts(str_key, Len(str_key))) + 1 /\ Total \in Nat
  BY <1>1, CutsOfText, CutsFinite DEF Total
<1>3. CASE Exhausted
  BY <1>2, <1>3 DEF Taken
<1>4. CASE ~ Exhausted
  <2>1. at \in 0 .. Len(str_key)
    BY <1>4 DEF Exhausted, ParserTypeOK
  <2>2. Taken = Cardinality(Cuts(str_key, at))
    BY <1>1, <1>4, <2>1, CutsOfPrefix DEF Taken
  <2>3. Cardinality(Cuts(str_key, at)) <= Cardinality(Cuts(str_key, Len(str_key)))
    BY <1>1, <2>1, CutsGrow
  <2>4. Cardinality(Cuts(str_key, at)) \in Nat /\ Cardinality(Cuts(str_key, Len(str_key))) \in Nat
    BY <1>1, <2>1, CutsFinite
  <2>5. QED
    BY <1>2, <1>4, <2>2, <2>3, <2>4
<1>5. QED
  BY <1>3, <1>4

\* Taking an element from the iterator adds one to the elements taken.
LEMMA TakesOne ==
  ASSUME ParserTypeOK, ~ Exhausted, at' = ElementEnd(at) + 1, str_key' = str_key
  PROVE  Taken' = Taken + 1 /\ Total' = Total
<1>1. PICK s \in Seq(Byte) : s = str_key
  BY DEF ParserTypeOK
<1>2. PICK from \in 0 .. Len(s) : from = at
  BY <1>1 DEF ParserTypeOK, Exhausted
<1>3. PICK stop \in from .. Len(s) : stop = ElementEnd(at)
  BY <1>1, <1>2, ElementType
<1>4. /\ stop = Len(s) \/ s[stop + 1] = Slash
      /\ \A q \in from .. stop - 1 : q # Len(s) /\ s[q + 1] # Slash
  BY <1>1, <1>2, <1>3, ElementEndExists DEF EndsFirst, IsEnd
<1>5. \A p \in from + 1 .. stop : s[p] # Slash
  <2>1. TAKE p \in from + 1 .. stop
  <2>2. p - 1 \in from .. stop - 1 /\ (p - 1) + 1 = p
    OBVIOUS
  <2>3. QED
    BY <1>4, <2>2
<1>6. Total = Cardinality(Cuts(s, Len(s))) + 1 /\ Taken = Cardinality(Cuts(s, from))
  BY <1>1, <1>2, TakenIs
<1>7. Total' = Total
  BY DEF Total
<1>8. /\ Cardinality(Cuts(s, from)) \in Nat /\ IsFiniteSet(Cuts(s, from))
      /\ Len(s) \in Nat
  BY CutsFinite
<1>9. CASE stop = Len(s)
  <2>1. Exhausted'
    BY <1>1, <1>3, <1>8, <1>9 DEF Exhausted
  <2>2. Taken' = Total
    BY <1>7, <2>1 DEF Taken
  <2>3. Cuts(s, Len(s)) = Cuts(s, from)
    BY <1>5, <1>9 DEF Cuts
  <2>4. QED
    BY <1>6, <1>7, <2>2, <2>3
<1>10. CASE stop # Len(s)
  <2>1. stop + 1 \in 0 .. Len(s) /\ ~ (stop + 1 > Len(s))
    BY <1>10
  <2>2. Taken' = Cardinality(SlashesIn(SubSeq(s, 1, stop + 1)))
    BY <1>1, <1>3, <2>1 DEF Taken, Exhausted
  <2>3. Taken' = Cardinality(Cuts(s, stop + 1))
    BY <2>1, <2>2, CutsOfPrefix
  <2>4. Cuts(s, stop + 1) = Cuts(s, from) \cup {stop + 1}
    BY <1>4, <1>5, <1>10 DEF Cuts
  <2>5. stop + 1 \notin Cuts(s, from)
    BY DEF Cuts
  <2>6. QED
    BY <1>6, <1>7, <1>8, <2>3, <2>4, <2>5, FS_AddElement
<1>11. QED
  BY <1>9, <1>10
-----------------------------------------------------------------------------
(***************************************************************************)
(* Types                                                                   *)
(***************************************************************************)
\* tail_raw() leaves the iterator at the end, where i counts every element.
LEMMA TailRawEffect ==
  ASSUME ParserTypeOK, TailRaw, ~ Exhausted
  PROVE  /\ at' = Len(str_key) + 1
         /\ str_key' = str_key
         /\ index' = index + Len(str_key) - at + 1
         /\ i' = i + Total - Taken
         /\ index' \in Nat /\ i' \in Nat
         /\ ret' \in {Panic, OkText(SubSeq(str_key, index + 1, Len(str_key)))}
<1> DEFINE rest == SubSeq(str_key, at + 1, Len(str_key))
<1>1. /\ str_key \in Seq(Byte) /\ Len(str_key) \in Nat
      /\ at \in 0 .. Len(str_key) /\ i \in Nat /\ index \in Nat
  BY DEF ParserTypeOK, Exhausted
<1>2. /\ i' = i + Cardinality(SlashesIn(rest)) + 1
      /\ index' = index + Len(rest) + 1
      /\ at' = Len(str_key) + 1
      /\ str_key' = str_key
      /\ ret' \in {Panic, OkText(SubSeq(str_key, index + 1, Len(str_key)))}
  BY DEF TailRaw, NoElement
<1>3. Len(rest) = Len(str_key) - at
  BY <1>1
<1>4. Cardinality(SlashesIn(rest)) = (Total - 1) - Taken
  BY <1>1, CutsOfRest, TakenIs, CutsFinite
<1> HIDE DEF rest
<1>5. Total \in Nat /\ Taken \in Nat /\ Taken < Total
  BY TakenIs
<1>6. QED
  BY <1>1, <1>2, <1>3, <1>4, <1>5

\* A step keeps the type invariant.
LEMMA TypeStep ==
  ASSUME TypeOK, [Next]_vars
  PROVE  TypeOK'
<1>1. ParserTypeOK /\ read \in Seq(Byte) /\ skipped \in BOOLEAN
  BY DEF TypeOK
<1>2. CASE Takes
  <2>1. ParserTypeOK'
    BY <1>1, <1>2, NextElementType, NoElementType DEF Takes, ElementOutcome
  <2>2. read' \in Seq(Byte)
    <3>1. CASE Exhausted
      BY <1>1, <1>2, <3>1 DEF Takes
    <3>2. CASE ~ Exhausted
      <4>1. Element \in Seq(Byte) /\ <<Slash>> \in Seq(Byte)
        BY <1>1, <3>2, ElementType DEF Slash, Byte
      <4>2. QED
        BY <1>1, <1>2, <3>2, <4>1, ConcatProperties DEF Takes
    <3>3. QED
      BY <3>1, <3>2
  <2>3. QED
    BY <1>1, <1>2, <2>1, <2>2 DEF Takes, TypeOK
<1>3. ASSUME NEW expect \in Literals, CallPeekLiteral(expect)
      PROVE  TypeOK'
  <2>1. call' \in Methods
    BY <1>3 DEF CallPeekLiteral, Call, Methods
  <2>2. ParserTypeOK'
    BY <1>1, <1>3 DEF CallPeekLiteral, PeekLiteral, ParserTypeOK, WrongNumberOfSegments,
                      OkUnit, InvalidSegment, ErrAt
  <2>3. QED
    BY <1>1, <1>3, <2>1, <2>2 DEF CallPeekLiteral, TypeOK
<1>4. CASE CallTailRaw
  <2>1. CASE Exhausted
    <3>1. NoElement
      BY <1>4, <2>1 DEF CallTailRaw, TailRaw
    <3>2. QED
      BY <1>1, <1>4, <3>1, NoElementType DEF CallTailRaw, Call, TypeOK, Methods
  <2>2. CASE ~ Exhausted
    <3>1. ParserTypeOK'
      BY <1>1, <1>4, <2>2, TailRawEffect
         DEF CallTailRaw, ParserTypeOK, Panic, Err, OkText
    <3>2. QED
      BY <1>1, <1>4, <3>1 DEF CallTailRaw, Call, TypeOK, Methods
  <2>3. QED
    BY <2>1, <2>2
<1>5. CASE CallDone
  BY <1>1, <1>5, ParserDoneType DEF CallDone, Call, TypeOK, Methods
<1>6. CASE CallIndex
  <2>1. i - 1 \in Nat \/ i = 0
    BY <1>1 DEF ParserTypeOK
  <2>2. ParserTypeOK'
    BY <1>1, <1>6, <2>1, UsizeMaxAssumption DEF CallIndex, ParserTypeOK, Panic, Err, OkId
  <2>3. QED
    BY <1>1, <1>6, <2>2 DEF CallIndex, Call, TypeOK, Methods
<1>7. CASE UNCHANGED vars
  BY <1>7 DEF vars, parser, TypeOK, ParserTypeOK
<1>8. QED
  BY <1>1, <1>2, <1>3, <1>4, <1>5, <1>6, <1>7, TakesForm DEF Next

\* The type invariant holds in the beginning.
LEMMA TypeInit == Init => TypeOK
<1> SUFFICES ASSUME Init
             PROVE  TypeOK
  OBVIOUS
<1>1. ParserTypeOK
  BY SourcesAssumption DEF Init, ParserNew, ParserTypeOK, NoCall, Err
<1>2. call \in Methods
  BY DEF Init, Methods
<1>3. read \in Seq(Byte) /\ skipped \in BOOLEAN
  <2>1. read = <<>> /\ skipped = FALSE
    BY DEF Init
  <2>2. <<>> \in Seq(Byte) /\ FALSE \in BOOLEAN
    OBVIOUS
  <2>3. QED
    BY <2>1, <2>2, Zenon
<1>4. QED
  BY <1>1, <1>2, <1>3 DEF TypeOK

\* Type correctness: `self.i - 1` included.
THEOREM TypeCorrect == Spec => []TypeOK
<1>1. QED
  BY TypeInit, TypeStep, PTL DEF Spec
-----------------------------------------------------------------------------
(***************************************************************************)
(* The inductive invariant                                                 *)
(***************************************************************************)
\* Two parts of a text that follow each other.
LEMMA PartsJoin ==
  ASSUME NEW s \in Seq(Byte), NEW n \in 0 .. Len(s), NEW m \in n .. Len(s)
  PROVE  SubSeq(s, 1, n) \o SubSeq(s, n + 1, m) = SubSeq(s, 1, m)
OBVIOUS

\* What taking an element does to the invariant's parts.
LEMMA TakingKeeps ==
  ASSUME ParserTypeOK, read \in Seq(Byte), CallsInv, ~ Exhausted,
         at' = ElementEnd(at) + 1, str_key' = str_key
  PROVE  /\ at' \in 1 .. Len(str_key)' => str_key'[at'] = Slash
         /\ (read' = read \o Element \o <<Slash>> /\ ~ skipped /\ ~ Exhausted')
              => read' = SubSeq(str_key', 1, at')
<1> DEFINE stop == ElementEnd(at)
<1>1. /\ str_key \in Seq(Byte) /\ Len(str_key) \in Nat
      /\ at \in 0 .. Len(str_key) /\ stop \in at .. Len(str_key)
      /\ stop \in Nat
  BY ElementType DEF ParserTypeOK, Exhausted
<1>2. stop = Len(str_key) \/ str_key[stop + 1] = Slash
  BY <1>1, ElementEndExists DEF EndsFirst, IsEnd
<1>3. at' \in 1 .. Len(str_key)' => str_key'[at'] = Slash
  BY <1>1, <1>2
<1>4. ASSUME read' = read \o Element \o <<Slash>>, ~ skipped, ~ Exhausted'
      PROVE  read' = SubSeq(str_key', 1, at')
  <2>1. stop < Len(str_key) /\ str_key[stop + 1] = Slash
    BY <1>1, <1>2, <1>4 DEF Exhausted
  <2>2. read = SubSeq(str_key, 1, at) /\ Element = SubSeq(str_key, at + 1, stop)
    BY <1>4 DEF CallsInv, Element
  <2> HIDE DEF stop
  <2>3. read' = SubSeq(str_key, 1, at) \o SubSeq(str_key, at + 1, stop) \o <<Slash>>
    BY <1>4, <2>2
  <2>4. SubSeq(str_key, 1, at) \o SubSeq(str_key, at + 1, stop) = SubSeq(str_key, 1, stop)
    BY <1>1, PartsJoin
  <2>5. SubSeq(str_key, 1, stop) \o <<Slash>> = SubSeq(str_key, 1, stop + 1)
    BY <1>1, <2>1
  <2>6. QED
    BY <2>3, <2>4, <2>5 DEF stop
<1>5. QED
  BY <1>3, <1>4

\* The invariant holds in the beginning,
LEMMA CallsInvInit == Init => CallsInv
<1> SUFFICES ASSUME Init
             PROVE  CallsInv
  OBVIOUS
<1>1. str_key \in Seq(Byte) /\ Utf8(str_key) /\ i = 0 /\ index = 0 /\ at = 0
  BY SourcesAssumption DEF Init, ParserNew
<1>2. ~ Exhausted
  BY <1>1 DEF Exhausted
<1>3. Taken = 0
  <2>1. ParserTypeOK
    BY TypeInit DEF TypeOK
  <2>2. Cuts(str_key, 0) = {}
    BY DEF Cuts
  <2>3. QED
    BY <1>1, <1>2, <2>1, <2>2, TakenIs, FS_EmptySet
<1>4. read = SubSeq(str_key, 1, at)
  BY <1>1 DEF Init
<1>5. QED
  BY <1>1, <1>3, <1>4 DEF CallsInv, InStep

\* and a step keeps it.
LEMMA CallsInvStep ==
  ASSUME TypeOK, CallsInv, [Next]_vars
  PROVE  CallsInv'
<1>1. /\ ParserTypeOK /\ read \in Seq(Byte) /\ i \in Nat /\ index \in Nat
      /\ Taken \in Nat /\ Total \in Nat
      /\ str_key \in Seq(Byte) /\ Len(str_key) \in Nat /\ at \in Nat
  BY TakenIs DEF TypeOK, ParserTypeOK
<1>2. ASSUME UNCHANGED <<str_key, i, index, at, read, skipped>>
      PROVE  CallsInv'
  BY <1>2 DEF CallsInv, InStep, Taken, Total, Exhausted
<1>3. CASE Takes
  <2>1. CASE NoElement
    <3>1. read' = read
      BY <1>3, <2>1 DEF Takes, NoElement
    <3>2. QED
      BY <1>2, <1>3, <2>1, <3>1 DEF Takes, NoElement
  <2>2. ASSUME NEW r, NextElement(r)
        PROVE  CallsInv'
    <3>1. /\ ~ Exhausted /\ at' = ElementEnd(at) + 1 /\ str_key' = str_key
          /\ i' = i + 1 /\ index' = index + Len(Element) + 1
          /\ read' = read \o Element \o <<Slash>> /\ skipped' = skipped
      BY <1>3, <2>2 DEF Takes, NextElement
    <3>2. Taken' = Taken + 1
      BY <1>1, <3>1, TakesOne
    <3>3. index = at => index' = at'
      BY <1>1, <3>1, ElementType
    <3>4. InStep'
      BY <1>1, <3>1, <3>2, <3>3 DEF CallsInv, InStep
    <3>5. QED
      BY <1>1, <3>1, <3>2, <3>4, TakingKeeps DEF CallsInv
  <2>3. QED
    BY <1>3, <2>1, <2>2 DEF Takes
<1>4. ASSUME NEW expect \in Literals, CallPeekLiteral(expect)
      PROVE  CallsInv'
  BY <1>2, <1>4 DEF CallPeekLiteral, PeekLiteral
<1>5. CASE CallTailRaw
  <2>1. CASE Exhausted
    BY <1>2, <1>5, <2>1 DEF CallTailRaw, TailRaw, NoElement
  <2>2. CASE ~ Exhausted
    <3>1. /\ at' = Len(str_key) + 1 /\ str_key' = str_key
          /\ index' = index + Len(str_key) - at + 1
          /\ i' = i + Total - Taken /\ skipped' = skipped
      BY <1>1, <1>5, <2>2, TailRawEffect DEF CallTailRaw
    <3>2. Exhausted'
      BY <1>1, <3>1 DEF Exhausted
    <3>3. Taken' = Total
      BY <3>1, <3>2 DEF Taken, Total
    <3>4. InStep'
      BY <1>1, <3>1, <3>3 DEF CallsInv, InStep
    <3>5. i' <= Taken'
      BY <1>1, <3>1, <3>3 DEF CallsInv
    <3>6. at' \notin 1 .. Len(str_key)'
      BY <1>1, <3>1
    <3>7. QED
      BY <3>1, <3>2, <3>4, <3>5, <3>6 DEF CallsInv
  <2>3. QED
    BY <2>1, <2>2
<1>6. CASE CallDone
  <2>1. CASE Exhausted
    <3>1. skipped' = skipped
      BY <1>6, <2>1 DEF CallDone, TypeOK
    <3>2. QED
      BY <1>2, <1>6, <2>1, <3>1 DEF CallDone, ParserDone
  <2>2. CASE ~ Exhausted
    <3>1. /\ at' = ElementEnd(at) + 1 /\ str_key' = str_key /\ i' = i /\ skipped'
      BY <1>6, <2>2 DEF CallDone, ParserDone
    <3>2. Taken' = Taken + 1
      BY <1>1, <2>2, <3>1, TakesOne
    <3>3. QED
      BY <1>1, <2>2, <3>1, <3>2, TakingKeeps DEF CallsInv, InStep
  <2>3. QED
    BY <2>1, <2>2
<1>7. CASE CallIndex
  BY <1>2, <1>7 DEF CallIndex
<1>8. CASE UNCHANGED vars
  BY <1>2, <1>8 DEF vars, parser
<1>9. QED
  BY <1>1, <1>3, <1>4, <1>5, <1>6, <1>7, <1>8, TakesForm DEF Next

\* The inductive invariant holds of every sequence of calls.
THEOREM CallsInvCorrect == Spec => []CallsInv
<1>1. QED
  BY TypeCorrect, CallsInvInit, CallsInvStep, PTL DEF Spec

\* The counters stay in step with the iterator, as long as no done() failed.
THEOREM InStepCorrect == Spec => []InStep
<1>1. CallsInv => InStep
  BY DEF CallsInv
<1>2. QED
  BY <1>1, CallsInvCorrect, PTL
-----------------------------------------------------------------------------
(***************************************************************************)
(* What the calls return                                                   *)
(***************************************************************************)
\* At the start of a text and after a '/', a character starts.
LEMMA ElementStartsCharacter ==
  ASSUME ParserTypeOK, CallsInv, ~ Exhausted
  PROVE  IsCharBoundary(at)
<1>1. str_key \in Seq(Byte) /\ at \in 0 .. Len(str_key)
  BY DEF ParserTypeOK, Exhausted
<1>2. SUFFICES ASSUME at < Len(str_key), str_key[at + 1] \in Continuation
               PROVE  FALSE
  BY <1>1 DEF IsCharBoundary
<1>3. Utf8(str_key)
  BY DEF CallsInv
<1>4. CASE at = 0
  BY <1>1, <1>2, <1>3, <1>4, TextStarts
<1>5. CASE at > 0
  <2>1. at \in 1 .. Len(str_key) /\ str_key[at] \in Ascii
    BY <1>1, <1>5 DEF CallsInv, Slash, Ascii
  <2>2. QED
    BY <1>1, <1>2, <1>3, <2>1, CharEnds
<1>6. QED
  BY <1>1, <1>4, <1>5

\* A step is a next_*() call, one of the four others, or none.
LEMMA StepForm ==
  ASSUME TypeOK, [Next]_vars
  PROVE  \/ Takes
         \/ \E expect \in Literals : CallPeekLiteral(expect)
         \/ CallTailRaw \/ CallDone \/ CallIndex \/ UNCHANGED vars
BY TakesForm DEF Next, TypeOK

\* A step loses no byte of the text.
LEMMA NothingLostStep ==
  ASSUME TypeOK, CallsInv, NothingLost, [Next]_vars
  PROVE  NothingLost'
<1>1. ParserTypeOK /\ str_key \in Seq(Byte) /\ index \in Nat /\ at \in Nat
  BY DEF TypeOK, ParserTypeOK
<1>2. CASE CallTailRaw
  <2>1. SUFFICES ASSUME ~ skipped
                 PROVE  \/ ret' = WrongNumberOfSegments(i' + 1)
                        \/ IsOk(ret') /\ read' \o ret'.text = str_key'
    BY <1>2 DEF NothingLost, CallTailRaw
  <2>2. CASE Exhausted
    BY <1>2, <2>2 DEF CallTailRaw, TailRaw, NoElement
  <2>3. CASE ~ Exhausted
    <3>1. index = at /\ read = SubSeq(str_key, 1, at) /\ at \in 0 .. Len(str_key)
      BY <1>1, <2>1, <2>3 DEF CallsInv, InStep, Exhausted
    <3>2. IsCharBoundary(index)
      BY <1>1, <2>3, <3>1, ElementStartsCharacter
    <3>3. /\ ret' = OkText(SubSeq(str_key, at + 1, Len(str_key)))
          /\ str_key' = str_key /\ read' = read
      BY <1>2, <2>3, <3>1, <3>2 DEF CallTailRaw, TailRaw, NoElement
    <3>4. SubSeq(str_key, 1, at) \o SubSeq(str_key, at + 1, Len(str_key)) = str_key
      <4>1. Len(str_key) \in at .. Len(str_key)
        BY <1>1, <3>1
      <4>2. SubSeq(str_key, 1, at) \o SubSeq(str_key, at + 1, Len(str_key))
              = SubSeq(str_key, 1, Len(str_key))
        BY <1>1, <3>1, <4>1, PartsJoin
      <4>3. QED
        BY <1>1, <4>2, SubSeqFull
    <3>5. IsOk(ret')
      BY <3>3 DEF IsOk, OkText
    <3>6. read' \o ret'.text = str_key'
      BY <3>1, <3>3, <3>4 DEF OkText
    <3>7. QED
      BY <3>5, <3>6
  <2>4. QED
    BY <2>2, <2>3
<1>3. ASSUME call'[1] # "tail_raw"
      PROVE  NothingLost'
  BY <1>3 DEF NothingLost
<1>4. CASE Takes
  BY <1>3, <1>4 DEF Takes
<1>5. ASSUME NEW expect \in Literals, CallPeekLiteral(expect)
      PROVE  NothingLost'
  BY <1>3, <1>5 DEF CallPeekLiteral, Call
<1>6. CASE CallDone
  BY <1>3, <1>6 DEF CallDone, Call
<1>7. CASE CallIndex
  BY <1>3, <1>7 DEF CallIndex, Call
<1>8. CASE UNCHANGED vars
  BY <1>8 DEF vars, parser, NothingLost
<1>9. QED
  BY <1>2, <1>4, <1>5, <1>6, <1>7, <1>8, StepForm

\* tail_raw() returns, with what was read before, the whole text.
THEOREM NothingLostCorrect == Spec => []NothingLost
<1>1. Init => NothingLost
  BY DEF Init, NothingLost
<1>2. QED
  BY <1>1, TypeCorrect, CallsInvCorrect, NothingLostStep, PTL DEF Spec

\* A step keeps the truth of the errors about the number of segments,
LEMMA CountErrorsStep ==
  ASSUME TypeOK, CallsInv, CountErrorsAreTrue, [Next]_vars
  PROVE  CountErrorsAreTrue'
<1>1. /\ ParserTypeOK /\ i \in Nat /\ Taken \in Nat /\ Total \in Nat
      /\ i <= Taken /\ (~ skipped => i = Taken)
      /\ Exhausted => Taken = Total
      /\ ~ Exhausted => Taken < Total
  BY TakenIs DEF TypeOK, ParserTypeOK, CallsInv, InStep
<1>2. ASSUME str_key' = str_key
      PROVE  Total' = Total
  BY <1>2 DEF Total
\* finding no element, after none was skipped
<1>3. ASSUME NoElement, skipped' = skipped, call' # <<"done">>
      PROVE  CountErrorsAreTrue'
  BY <1>1, <1>2, <1>3 DEF NoElement, CountErrorsAreTrue, WrongNumberOfSegments
<1>4. CASE Takes
  <2>1. call' # <<"done">> /\ skipped' = skipped
    BY <1>4 DEF Takes
  <2>2. ASSUME NEW r, ElementOutcome(r), NextElement(r)
        PROVE  CountErrorsAreTrue'
    BY <2>2 DEF NextElement, ElementOutcome, CountErrorsAreTrue
  <2>3. QED
    BY <1>3, <1>4, <2>1, <2>2 DEF Takes
<1>5. ASSUME NEW expect \in Literals, CallPeekLiteral(expect)
      PROVE  CountErrorsAreTrue'
  BY <1>5 DEF CallPeekLiteral, Call, CountErrorsAreTrue
<1>6. CASE CallTailRaw
  <2>1. call' # <<"done">> /\ skipped' = skipped
    BY <1>6 DEF CallTailRaw, Call
  <2>2. CASE Exhausted
    BY <1>3, <1>6, <2>1, <2>2 DEF CallTailRaw, TailRaw
  <2>3. CASE ~ Exhausted
    <3>1. ret' \in {Panic, OkText(SubSeq(str_key, index + 1, Len(str_key)))}
      BY <1>1, <1>6, <2>3, TailRawEffect DEF CallTailRaw
    <3>2. QED
      BY <3>1 DEF CountErrorsAreTrue, Panic, Err, OkText, IsOk
  <2>4. QED
    BY <2>2, <2>3
<1>7. CASE CallDone
  <2>1. ret' = OkUnit \/ (~ Exhausted /\ ret' = WrongNumberOfSegments(i))
    BY <1>7 DEF CallDone, ParserDone
  <2>2. Total' = Total
    BY <1>2, <1>7 DEF CallDone, ParserDone
  <2>3. QED
    BY <1>1, <2>1, <2>2 DEF CountErrorsAreTrue, OkUnit, IsOk, WrongNumberOfSegments
<1>8. CASE CallIndex
  BY <1>8 DEF CallIndex, CountErrorsAreTrue, Panic, Err, OkId, IsOk
<1>9. CASE UNCHANGED vars
  BY <1>9 DEF vars, parser, CountErrorsAreTrue, Total
<1>10. QED
  BY <1>4, <1>5, <1>6, <1>7, <1>8, <1>9, StepForm

\* No error names the number of segments that there are as the one expected.
THEOREM CountErrorsCorrect == Spec => []CountErrorsAreTrue
<1>1. Init => CountErrorsAreTrue
  BY DEF Init, ParserNew, NoCall, Err, CountErrorsAreTrue
<1>2. QED
  BY <1>1, TypeCorrect, CallsInvCorrect, CountErrorsStep, PTL DEF Spec

\* of the positions the errors name,
LEMMA PositionsStep ==
  ASSUME TypeOK, CallsInv, PositionsAreTrue, [Next]_vars
  PROVE  PositionsAreTrue'
<1>1. /\ ParserTypeOK /\ i \in Nat /\ Taken \in Nat
      /\ ~ skipped => i = Taken
  BY TakenIs DEF TypeOK, ParserTypeOK, CallsInv, InStep
<1>2. CallsInv'
  BY CallsInvStep
<1>3. SUFFICES ASSUME ~ skipped'
               PROVE  /\ (call' = <<"index">> /\ i' > 0) => ret' = OkId(i' - 1)
                      /\ (~ IsOk(ret') /\ ret'.err \in {"InvalidSegment", "EmptySegment"})
                           => ret'.pos = IF call'[1] = "peek_literal" THEN i' ELSE i' - 1
  BY <1>2 DEF PositionsAreTrue, CallsInv, InStep
<1>4. CASE Takes
  <2>1. CASE NoElement
    BY <1>4, <2>1 DEF Takes, NoElement, WrongNumberOfSegments
  <2>2. ASSUME NEW r, ElementOutcome(r), NextElement(r)
        PROVE  /\ (call' = <<"index">> /\ i' > 0) => ret' = OkId(i' - 1)
             /\ (~ IsOk(ret') /\ ret'.err \in {"InvalidSegment", "EmptySegment"})
                  => ret'.pos = IF call'[1] = "peek_literal" THEN i' ELSE i' - 1
    BY <1>1, <1>4, <2>2 DEF Takes, NextElement, ElementOutcome
  <2>3. QED
    BY <1>4, <2>1, <2>2 DEF Takes
<1>5. ASSUME NEW expect \in Literals, CallPeekLiteral(expect)
      PROVE  /\ (call' = <<"index">> /\ i' > 0) => ret' = OkId(i' - 1)
             /\ (~ IsOk(ret') /\ ret'.err \in {"InvalidSegment", "EmptySegment"})
                  => ret'.pos = IF call'[1] = "peek_literal" THEN i' ELSE i' - 1
  BY <1>5 DEF CallPeekLiteral, Call, PeekLiteral, WrongNumberOfSegments, InvalidSegment,
              ErrAt, OkUnit, IsOk
<1>6. CASE CallTailRaw
  <2>1. CASE Exhausted
    BY <1>6, <2>1 DEF CallTailRaw, Call, TailRaw, NoElement, WrongNumberOfSegments
  <2>2. CASE ~ Exhausted
    BY <1>1, <1>6, <2>2, TailRawEffect DEF CallTailRaw, Call, Panic, Err, OkText, IsOk
  <2>3. QED
    BY <2>1, <2>2
<1>7. CASE CallDone
  BY <1>7 DEF CallDone, Call, ParserDone, WrongNumberOfSegments, OkUnit, IsOk
<1>8. CASE CallIndex
  BY <1>8 DEF CallIndex, Call, Panic, Err, OkId, IsOk
<1>9. CASE UNCHANGED vars
  BY <1>1, <1>3, <1>9 DEF vars, parser, PositionsAreTrue
<1>10. QED
  BY <1>4, <1>5, <1>6, <1>7, <1>8, <1>9, StepForm

\* The position in an error, and index(), name the last element taken.
THEOREM PositionsCorrect == Spec => []PositionsAreTrue
<1>1. Init => PositionsAreTrue
  BY DEF Init, ParserNew, NoCall, Err, PositionsAreTrue
<1>2. QED
  BY <1>1, TypeCorrect, CallsInvCorrect, PositionsStep, PTL DEF Spec

\* What peek_literal() answered is still true of the iterator.
Peeked ==
  \A expect \in Literals :
    call = <<"peek_literal", expect>> => (IsOk(ret) <=> ~ Exhausted /\ Element = expect)

\* and of what was peeked.
LEMMA PeekedStep ==
  ASSUME TypeOK, Peeked, [Next]_vars
  PROVE  Peeked'
<1>1. ASSUME call'[1] # "peek_literal"
      PROVE  Peeked'
  BY <1>1 DEF Peeked
<1>2. ASSUME NEW expect \in Literals, CallPeekLiteral(expect)
      PROVE  Peeked'
  <2>1. call' = <<"peek_literal", expect>> /\ str_key' = str_key /\ at' = at
    BY <1>2 DEF CallPeekLiteral, Call, PeekLiteral
  <2>2. IsOk(ret') <=> ~ Exhausted /\ Element = expect
    BY <1>2 DEF CallPeekLiteral, PeekLiteral, IsOk, WrongNumberOfSegments, OkUnit,
                InvalidSegment, ErrAt
  <2>3. Exhausted' = Exhausted /\ Element' = Element
    BY <2>1 DEF Exhausted, Element, ElementEnd, IsEnd
  <2>4. ASSUME NEW other \in Literals, call' = <<"peek_literal", other>>
        PROVE  other = expect
    BY <2>1, <2>4
  <2>5. QED
    BY <2>2, <2>3, <2>4 DEF Peeked
<1>3. CASE Takes
  BY <1>1, <1>3 DEF Takes
<1>4. CASE CallTailRaw \/ CallDone \/ CallIndex
  BY <1>1, <1>4 DEF CallTailRaw, CallDone, CallIndex, Call
<1>5. CASE UNCHANGED vars
  BY <1>5 DEF vars, parser, Peeked, Exhausted, Element, ElementEnd, IsEnd
<1>6. QED
  BY <1>2, <1>3, <1>4, <1>5, StepForm

\* peek_literal() answers what next_literal() after it answers.
THEOREM PeekForetellsCorrect == Spec => PeekForetells
<1>1. Init => Peeked
  BY DEF Init, Peeked
<1>2. ASSUME TypeOK, Peeked, [Next]_vars, NEW expect \in Literals,
             call = <<"peek_literal", expect>>, call' = <<"next_literal", expect>>
      PROVE  IsOk(ret) <=> IsOk(ret')
  <2>1. CallNextLiteral(expect)
    BY <1>2 DEF Next, Next_, Call, CallNextRaw, CallNextStr, CallNextNonempty, CallNextU64,
                CallNextLiteral, CallPeekLiteral, CallTailRaw, CallDone, CallIndex, vars
  <2>2. IsOk(ret') <=> ~ Exhausted /\ Element = expect
    BY <2>1 DEF CallNextLiteral, Next_, NextLiteral, NextElement, NoElement, IsOk,
                WrongNumberOfSegments, OkUnit, InvalidSegment, ErrAt
  <2>3. QED
    BY <1>2, <2>2 DEF Peeked
<1>3. TypeOK /\ Peeked /\ [Next]_vars =>
        [\A expect \in Literals :
           (call = <<"peek_literal", expect>> /\ call' = <<"next_literal", expect>>)
             => (IsOk(ret) <=> IsOk(ret'))]_vars
  BY <1>2
<1>4. QED
  BY <1>1, <1>3, TypeCorrect, PeekedStep, PTL DEF Spec, PeekForetells
=============================================================================
