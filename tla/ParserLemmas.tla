---------------------------- MODULE ParserLemmas ----------------------------
(***************************************************************************)
(* Facts about the elements that the parser's iterator returns, and about  *)
(* its methods, for the proofs of the modules that call them.              *)
(***************************************************************************)
EXTENDS Parser, HelperLemmas

\* An element ends at `stop` when a '/' or the end of the text is there, and
\* neither is before it.
EndsFirst(from, stop) ==
  /\ stop \in from .. Len(str_key)
  /\ IsEnd(stop)
  /\ \A q \in from .. stop - 1 : ~ IsEnd(q)

\* At most one offset ends an element, so it is the one that ElementEnd finds.
LEMMA ElementEndIs ==
  ASSUME NEW from \in Nat, NEW stop \in Nat, str_key \in Seq(Byte),
         EndsFirst(from, stop)
  PROVE  ElementEnd(from) = stop
<1>1. ASSUME NEW p \in from .. Len(str_key), EndsFirst(from, p)
      PROVE  p = stop
  <2>1. p \in Int /\ stop \in Int
    OBVIOUS
  <2>2. ~ p < stop /\ ~ stop < p
    BY <1>1, <2>1 DEF EndsFirst
  <2>3. QED
    BY <2>1, <2>2
<1>2. ElementEnd(from) = CHOOSE p \in from .. Len(str_key) : EndsFirst(from, p)
  BY DEF ElementEnd, EndsFirst
<1>3. stop \in from .. Len(str_key)
  BY DEF EndsFirst
<1>4. QED
  BY <1>1, <1>2, <1>3

\* The iterator always finds an end: at the latest, that of the text.
LEMMA ElementEndExists ==
  ASSUME NEW from \in Nat, str_key \in Seq(Byte), from <= Len(str_key)
  PROVE  /\ EndsFirst(from, ElementEnd(from))
         /\ ElementEnd(from) \in Nat
<1> DEFINE Ends == {p \in from .. Len(str_key) : IsEnd(p)}
<1>1. Len(str_key) \in Ends
  BY DEF IsEnd
<1>2. Ends \subseteq Nat
  OBVIOUS
<1>3. PICK p \in Ends : \A q \in Ends : p <= q
  BY <1>1, <1>2, LeastElement
<1>4. p \in Nat /\ EndsFirst(from, p)
  <2>1. p \in from .. Len(str_key) /\ IsEnd(p)
    OBVIOUS
  <2>2. ASSUME NEW q \in from .. p - 1, IsEnd(q)
        PROVE  FALSE
    <3>1. q \in Ends
      BY <2>1, <2>2
    <3>2. QED
      BY <1>3, <2>1, <3>1
  <2>3. QED
    BY <2>1, <2>2 DEF EndsFirst
<1>5. QED
  BY <1>4, ElementEndIs

\* What the next element is, and that it is a text.
LEMMA ElementType ==
  ASSUME ParserTypeOK, ~ Exhausted
  PROVE  /\ at \in Nat
         /\ ElementEnd(at) \in at .. Len(str_key)
         /\ Element \in Seq(Byte)
         /\ Len(Element) = ElementEnd(at) - at
<1>1. at \in Nat /\ at <= Len(str_key) /\ str_key \in Seq(Byte)
  BY DEF ParserTypeOK, Exhausted
<1>2. ElementEnd(at) \in at .. Len(str_key)
  BY <1>1, ElementEndExists DEF EndsFirst
<1>3. QED
  BY <1>1, <1>2 DEF Element

\* Every outcome that a method may have is a record of the right shape.
Outcome(r) ==
  /\ DOMAIN r \subseteq {"err", "pos", "expect", "text", "id", "unit"}
  /\ "id" \in DOMAIN r => r.id \in Nat

\* Taking an element, or finding none, keeps the parser's types.
LEMMA NextElementType ==
  ASSUME ParserTypeOK, NEW outcome, Outcome(outcome), NextElement(outcome)
  PROVE  ParserTypeOK'
<1>1. /\ ElementEnd(at) \in at .. Len(str_key)
      /\ Len(Element) \in Nat
      /\ at \in Nat
  BY ElementType DEF NextElement
<1>2. QED
  BY <1>1 DEF NextElement, ParserTypeOK, Outcome

\* A call that finds no segment keeps the parser's type.
LEMMA NoElementType ==
  ASSUME ParserTypeOK, NoElement
  PROVE  ParserTypeOK'
BY DEF NoElement, ParserTypeOK, WrongNumberOfSegments

\* done() keeps the parser's types.
LEMMA ParserDoneType ==
  ASSUME ParserTypeOK, ParserDone
  PROVE  ParserTypeOK'
<1>1. CASE Exhausted
  BY <1>1 DEF ParserDone, ParserTypeOK, OkUnit
<1>2. CASE ~ Exhausted
  <2>1. ElementEnd(at) \in at .. Len(str_key) /\ at \in Nat
    BY <1>2, ElementType
  <2>2. QED
    BY <1>2, <2>1 DEF ParserDone, ParserTypeOK, WrongNumberOfSegments
<1>3. QED
  BY <1>1, <1>2

\* decode_id() returns a natural number or InvalidId.
LEMMA DecodeIdType ==
  ASSUME NEW s \in Seq(Byte), NEW max \in Nat
  PROVE  \/ DecodeId(s, max) = Err("InvalidId")
         \/ \E n \in Nat : DecodeId(s, max) = OkId(n)
<1>1. CASE \A m \in Nat : DecodeId(s, m) = Err("InvalidId")
  BY <1>1
<1>2. CASE \E n \in Nat : \A m \in Nat :
             DecodeId(s, m) = IF n <= m THEN OkId(n) ELSE Err("InvalidId")
  BY <1>2
<1>3. QED
  BY <1>1, <1>2, DecodeIdIs

\* unescape() returns a text or one of two errors.
LEMMA UnescapeForm ==
  ASSUME NEW key
  PROVE  \/ \E p : Unescape(key) = ErrAt("InvalidEscape", p)
         \/ Unescape(key) = Err("FromUtf8Error")
         \/ \E t : Unescape(key) = OkText(t)
BY DEF Unescape, FromUtf8

\* The outcomes of an element: an error that says how many segments were
\* expected is none of them, and a position is that of the element.
ElementOutcome(r) ==
  /\ Outcome(r)
  /\ ~ IsOk(r) => r.err # "WrongNumberOfSegments"
  /\ (~ IsOk(r) /\ r.err \in {"InvalidSegment", "EmptySegment"}) => r.pos = i

\* A next_*() method takes the element or finds none.
LEMMA NextForm ==
  ASSUME ParserTypeOK, NEW expect,
         \/ NextRaw \/ NextStr \/ NextNonempty \/ NextU64 \/ NextLiteral(expect)
  PROVE  NoElement \/ \E r : ElementOutcome(r) /\ NextElement(r)
<1> USE DEF ElementOutcome, Outcome, IsOk, OkText, OkId, OkUnit, Err, ErrAt,
            InvalidSegment, EmptySegment
<1>1. CASE NextRaw
  BY <1>1 DEF NextRaw
<1>2. CASE NextStr
  <2>1. ElementOutcome(Unescape(Element))
    BY UnescapeForm
  <2>2. QED
    BY <1>2, <2>1 DEF NextStr
<1>3. CASE NextNonempty
  <2>1. ElementOutcome(Unescape(Element))
    BY UnescapeForm
  <2>2. ElementOutcome(EmptySegment(i))
    OBVIOUS
  <2>3. QED
    BY <1>3, <2>1, <2>2 DEF NextNonempty
<1>4. CASE NextU64
  <2>1. CASE NoElement
    BY <2>1
  <2>2. CASE NextElement(DecodeId(Element, MaxU64))
    <3>1. Element \in Seq(Byte)
      BY <2>2, ElementType DEF NextElement
    <3>2. ElementOutcome(DecodeId(Element, MaxU64))
      BY <3>1, DecodeIdType, MaxU64Assumption
    <3>3. QED
      BY <2>2, <3>2
  <2>3. QED
    BY <1>4, <2>1, <2>2 DEF NextU64
<1>5. CASE NextLiteral(expect)
  <2>1. ElementOutcome(InvalidSegment(i)) /\ ElementOutcome(OkUnit)
    OBVIOUS
  <2>2. QED
    BY <1>5, <2>1 DEF NextLiteral
<1>6. QED
  BY <1>1, <1>2, <1>3, <1>4, <1>5
=============================================================================
