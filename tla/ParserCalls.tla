----------------------------- MODULE ParserCalls -----------------------------
(***************************************************************************)
(* The public methods of Parser called in any order on any text, as a hand *)
(* written decoder may: peeks, pops that fail half way, done() before the  *)
(* end, tail_raw(), reads after the end.                                   *)
(***************************************************************************)
EXTENDS Parser

CONSTANTS Sources,    \* the texts that are parsed
          Literals,   \* the arguments of next_literal() and peek_literal()
          UsizeMax    \* usize::MAX

ASSUME SourcesAssumption == \A s \in Sources : s \in Seq(Byte) /\ Utf8(s)
ASSUME LiteralsAssumption == \A s \in Literals : s \in Seq(Byte)
ASSUME UsizeMaxAssumption == UsizeMax \in Nat \ {0}

VARIABLES
  call,      \* history: the last method called, and its argument
  read,      \* history: the text of the elements that next_*() methods took,
             \* failed or not, each followed by '/'
  skipped    \* history: whether a failed done() took an element

vars == <<parser, call, read, skipped>>

Init ==
  /\ \E source \in Sources : ParserNew(source)
  /\ call = <<"new">>
  /\ read = <<>>
  /\ skipped = FALSE

Methods ==
  {<<name>> : name \in {"new", "next_raw", "next_str", "next_nonempty", "next_u64",
                        "tail_raw", "done", "index"}}
  \cup {<<name, expect>> : name \in {"next_literal", "peek_literal"}, expect \in Literals}

\* A method of the parser; after a panic there are no more calls.
Call(name) ==
  /\ ret # Panic
  /\ call' = name

Next_(name, method) ==
  /\ Call(name)
  /\ method
  /\ read' = IF Exhausted THEN read ELSE read \o Element \o <<Slash>>
  /\ UNCHANGED skipped

CallNextRaw == Next_(<<"next_raw">>, NextRaw)
CallNextStr == Next_(<<"next_str">>, NextStr)
CallNextNonempty == Next_(<<"next_nonempty">>, NextNonempty)
CallNextU64 == Next_(<<"next_u64">>, NextU64)
CallNextLiteral(expect) == Next_(<<"next_literal", expect>>, NextLiteral(expect))

CallPeekLiteral(expect) ==
  /\ Call(<<"peek_literal", expect>>)
  /\ PeekLiteral(expect)
  /\ UNCHANGED <<read, skipped>>

\* The elements that tail_raw() takes are not recorded in read: they are in
\* the text that it returns.
CallTailRaw ==
  /\ Call(<<"tail_raw">>)
  /\ TailRaw
  /\ UNCHANGED <<read, skipped>>

CallDone ==
  /\ Call(<<"done">>)
  /\ ParserDone
  /\ skipped' = (skipped \/ ~ Exhausted)
  /\ UNCHANGED read

\* Mutant: the subtraction is done on a signed number.
CallIndexSigned ==
  /\ Call(<<"index">>)
  /\ ret' = OkId(i - 1)
  /\ UNCHANGED <<str_key, i, index, at, read, skipped>>

\* index() is `self.i - 1`: on a parser that has returned nothing it panics
\* where overflow is checked (a debug build) and wraps where it is not.
CallIndex ==
  /\ Call(<<"index">>)
  /\ ret' \in IF i = 0 THEN {Panic, OkId(UsizeMax)} ELSE {OkId(i - 1)}
  /\ UNCHANGED <<str_key, i, index, at, read, skipped>>

Next ==
  \/ CallNextRaw \/ CallNextStr \/ CallNextNonempty \/ CallNextU64
  \/ \E expect \in Literals : CallNextLiteral(expect) \/ CallPeekLiteral(expect)
  \/ CallTailRaw \/ CallDone \/ CallIndex

Spec == Init /\ [][Next]_vars

-----------------------------------------------------------------------------
\* Every variable has its type; `self.i - 1` of index() is never a negative
\* number (parser.rs:44-46).
TypeOK ==
  /\ ParserTypeOK
  /\ call \in Methods
  /\ read \in Seq(Byte)
  /\ skipped \in BOOLEAN

Total == Cardinality(SlashesIn(str_key)) + 1

\* The elements before the one that the iterator returns next.
Taken == IF Exhausted THEN Total ELSE Cardinality(SlashesIn(SubSeq(str_key, 1, at)))

\* The fields beside the iterator stay in step with it: whatever fails, i and
\* index count the elements taken, so long as no done() failed (parser.rs:72-86).
InStep == ~ skipped => index = at /\ i = Taken

\* The inductive invariant of the proofs: the iterator stands at the start of the
\* text or after a separator, what was read is all before it, and i never counts
\* more than the iterator has passed (parser.rs:72-86, 144-156).
CallsInv ==
  /\ Utf8(str_key)
  /\ at \in 1 .. Len(str_key) => str_key[at] = Slash
  /\ i <= Taken
  /\ InStep
  /\ (~ skipped /\ ~ Exhausted) => read = SubSeq(str_key, 1, at)

\* What the next_*() methods took and what tail_raw() then returns is the whole
\* text: nothing is lost or returned twice, and the slice is on a character
\* boundary (parser.rs:133-142).
NothingLost ==
  (call = <<"tail_raw">> /\ ~ skipped) =>
    \/ ret = WrongNumberOfSegments(i + 1)
    \/ IsOk(ret) /\ read \o ret.text = str_key

\* "Return trailing raw string that is not processed" (parser.rs:133), also
\* after a done() that reported more elements: the tail starts where the
\* iterator stood.
TailIsUnprocessed ==
  [][(call' = <<"tail_raw">> /\ ~ Exhausted)
       => ret' = OkText(SubSeq(str_key, at + 1, Len(str_key)))]_vars

\* A text has a fixed number of segments: an error that says how many were
\* expected never names the number there are.  done() keeps to this however
\* often it fails, the next_*() methods until it has (parser.rs:77-84, 149-153).
CountErrorsAreTrue ==
  (/\ ~ IsOk(ret) /\ ret.err = "WrongNumberOfSegments"
   /\ call[1] # "peek_literal"
   /\ skipped => call = <<"done">>)
    => ret.expect # Total

\* peek_literal() foretells what next_literal() answers (parser.rs:49-67, 118-131).
PeekForetells ==
  [][\A expect \in Literals :
       (call = <<"peek_literal", expect>> /\ call' = <<"next_literal", expect>>)
         => (IsOk(ret) <=> IsOk(ret'))]_vars

\* The position in an error, and index(), name the last element taken
\* (parser.rs:41-46, 93-100, 118-131).
PositionsAreTrue ==
  ~ skipped =>
    /\ (call = <<"index">> /\ i > 0) => ret = OkId(Taken - 1)
    /\ (~ IsOk(ret) /\ ret.err \in {"InvalidSegment", "EmptySegment"})
         => ret.pos = IF call[1] = "peek_literal" THEN Taken ELSE Taken - 1

\* "If no element is returned, it will panic" (parser.rs:41-43).
IndexPanicsBeforeFirst ==
  (call = <<"index">> /\ i = 0) => ret = Panic
=============================================================================
