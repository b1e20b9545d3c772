------------------------------- MODULE Parser -------------------------------
(***************************************************************************)
(* The parser of parser.rs: the source text, the count i and the byte      *)
(* offset index that the methods keep beside the iterator, and the         *)
(* iterator itself.  The iterator is `split('/').peekable()` of the        *)
(* standard library, modelled by `at`, the offset where the next element   *)
(* starts; after the last element it is one past the end of the text.      *)
(* Each method is an action; `ret` is what the last call returned.         *)
(***************************************************************************)
EXTENDS Helper, FiniteSets

CONSTANT MaxU64       \* u64::MAX

ASSUME MaxU64Assumption == MaxU64 \in Nat

VARIABLES str_key, i, index, at, ret

parser == <<str_key, i, index, at, ret>>

NoCall == Err("none")
Panic == Err("panic")

\* Parser::new(source)
ParserNew(source) ==
  str_key = source /\ i = 0 /\ index = 0 /\ at = 0 /\ ret = NoCall
ParserCreate(source) ==
  str_key' = source /\ i' = 0 /\ index' = 0 /\ at' = 0 /\ ret' = NoCall

\* Mutant: an empty last element is not an element.
ExhaustedEarly == at >= Len(str_key)

Exhausted == at > Len(str_key)

\* The offset of the '/' that ends the element starting at `from`, or the end.
IsEnd(p) == p = Len(str_key) \/ str_key[p + 1] = Slash
ElementEnd(from) ==
  CHOOSE p \in from .. Len(str_key) :
    IsEnd(p) /\ \A q \in from .. p - 1 : ~ IsEnd(q)

\* The element that the iterator returns next; there is one unless Exhausted.
Element == SubSeq(str_key, at + 1, ElementEnd(at))

WrongNumberOfSegments(expect) ==
  [err |-> "WrongNumberOfSegments", expect |-> expect]
InvalidSegment(pos) == ErrAt("InvalidSegment", pos)
EmptySegment(pos) == ErrAt("EmptySegment", pos)

\* Mutant: the separator is not counted in index.
NextElementNoSeparator(outcome) ==
  /\ ~ Exhausted
  /\ i' = i + 1
  /\ index' = index + Len(Element)
  /\ at' = ElementEnd(at) + 1
  /\ ret' = outcome
  /\ UNCHANGED str_key

\* next_raw()?, then what the method makes of the element.
NextElement(outcome) ==
  /\ ~ Exhausted
  /\ i' = i + 1
  /\ index' = index + Len(Element) + 1
  /\ at' = ElementEnd(at) + 1
  /\ ret' = outcome
  /\ UNCHANGED str_key

NoElement ==
  /\ Exhausted
  /\ ret' = WrongNumberOfSegments(i + 1)
  /\ UNCHANGED <<str_key, i, index, at>>

\* next_raw()
NextRaw == NextElement(OkText(Element)) \/ NoElement

\* next_str()
NextStr == NextElement(Unescape(Element)) \/ NoElement

\* Mutant: the position is read after next_raw() has moved it.
NextNonemptyLate ==
  \/ NextElement(IF Unescape(Element) = OkText(<<>>)
                 THEN EmptySegment(i + 1)
                 ELSE Unescape(Element))
  \/ NoElement

\* next_nonempty()
NextNonempty ==
  \/ NextElement(IF Unescape(Element) = OkText(<<>>)
                 THEN EmptySegment(i)
                 ELSE Unescape(Element))
  \/ NoElement

\* next_u64()
NextU64 == NextElement(DecodeId(Element, MaxU64)) \/ NoElement

\* Mutant: the same for next_literal().
NextLiteralLate(expect) ==
  \/ NextElement(IF Element = expect THEN OkUnit ELSE InvalidSegment(i + 1))
  \/ NoElement

\* next_literal(expect)
NextLiteral(expect) ==
  \/ NextElement(IF Element = expect THEN OkUnit ELSE InvalidSegment(i))
  \/ NoElement

\* Mutant: the element is taken and not only looked at.
PeekLiteralTakes(expect) ==
  \/ NextElement(IF Element = expect THEN OkUnit ELSE InvalidSegment(i))
  \/ Exhausted /\ ret' = WrongNumberOfSegments(i) /\ UNCHANGED <<str_key, i, index, at>>

\* peek_literal(expect)
PeekLiteral(expect) ==
  /\ ret' = IF Exhausted THEN WrongNumberOfSegments(i)
            ELSE IF Element = expect THEN OkUnit ELSE InvalidSegment(i)
  /\ UNCHANGED <<str_key, i, index, at>>

\* tail_raw(): one next_raw()?, then next_raw() until it fails; the text from
\* the index that was current before.  Slicing a str inside a character panics.
IsCharBoundary(p) == p = Len(str_key) \/ str_key[p + 1] \notin Continuation
SlashesIn(s) == {p \in DOMAIN s : s[p] = Slash}
\* Mutant: the index is read after the first next_raw().
TailRawLate ==
  \/ /\ ~ Exhausted
     /\ LET rest == SubSeq(str_key, at + 1, Len(str_key))
        IN  /\ i' = i + Cardinality(SlashesIn(rest)) + 1
            /\ index' = index + Len(rest) + 1
     /\ at' = Len(str_key) + 1
     /\ ret' = OkText(SubSeq(str_key, ElementEnd(at) + 2, Len(str_key)))
     /\ UNCHANGED str_key
  \/ NoElement

TailRaw ==
  \/ /\ ~ Exhausted
     /\ LET rest == SubSeq(str_key, at + 1, Len(str_key))
        IN  /\ i' = i + Cardinality(SlashesIn(rest)) + 1
            /\ index' = index + Len(rest) + 1
     /\ at' = Len(str_key) + 1
     /\ ret' = IF IsCharBoundary(index)
               THEN OkText(SubSeq(str_key, index + 1, Len(str_key)))
               ELSE Panic
     /\ UNCHANGED str_key
  \/ NoElement

\* Mutant: done() names one segment more than were taken.
ParserDoneOneMore ==
  /\ IF Exhausted
     THEN ret' = OkUnit /\ at' = at
     ELSE ret' = WrongNumberOfSegments(i + 1) /\ at' = ElementEnd(at) + 1
  /\ UNCHANGED <<str_key, i, index>>

\* done(): it takes the next element from the iterator, and no field moves.
ParserDone ==
  /\ IF Exhausted
     THEN ret' = OkUnit /\ at' = at
     ELSE ret' = WrongNumberOfSegments(i) /\ at' = ElementEnd(at) + 1
  /\ UNCHANGED <<str_key, i, index>>

\* The fields have their types, and the iterator stays within the text.
ParserTypeOK ==
  /\ str_key \in Seq(Byte)
  /\ i \in Nat
  /\ index \in Nat
  /\ at \in 0 .. Len(str_key) + 1
  /\ DOMAIN ret \subseteq {"err", "pos", "expect", "text", "id", "unit"}
  /\ "id" \in DOMAIN ret => ret.id \in Nat
=============================================================================
