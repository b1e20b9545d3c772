---------------------------- MODULE EscapeLoops ----------------------------
(***************************************************************************)
(* The loops of escape(), escape_specified(), unescape() and               *)
(* unescape_specified() (helper.rs), one step per iteration.               *)
(*                                                                         *)
(* A behaviour is one use of the pair.  Either a round trip: a string is   *)
(* escaped and the output is unescaped with the same `chars` (trip); or    *)
(* unescape alone, on a text that no escape() produced, as a key read from *)
(* a store may be.  `strict` tells escape()/unescape() from their          *)
(* _specified() forms, which take the set `chars`.                         *)
(***************************************************************************)
EXTENDS Helper

CONSTANTS Strings,     \* the strings a round trip starts from
          Coded,       \* the texts given to unescape alone
          CharSets     \* the sets given as `chars: &[u8]`

IsStr(s) == s \in Seq(Byte) /\ Utf8(s)

ASSUME StringsAssumption == \A s \in Strings : IsStr(s)
ASSUME CodedAssumption == \A s \in Coded : IsStr(s)
ASSUME CharSetsAssumption == CharSets \subseteq SUBSET Byte

VARIABLES
  pc,        \* the running loop: "escape", "unescape", or "end"
  strict,    \* TRUE for escape() and unescape()
  trip,      \* TRUE when what is unescaped is what was escaped
  chars,     \* the argument `chars`; not used when strict
  orig,      \* the string the behaviour starts from
  key,       \* the argument of the running function
  index,     \* bytes of `key` consumed
  new_key,   \* the output buffer
  result,    \* what the last function returned
  marks      \* history: Len(new_key) when the escape loop reached each byte

config == <<strict, trip, chars, orig>>
vars == <<pc, config, key, index, new_key, result, marks>>

NoResult == Err("none")
Panic == Err("panic")

Init ==
  /\ strict \in BOOLEAN
  /\ chars \in IF strict THEN {{}} ELSE CharSets
  /\ trip \in BOOLEAN
  /\ IF trip
     THEN orig \in Strings /\ pc = "escape"
     ELSE orig \in Coded /\ pc = "unescape"
  /\ key = orig
  /\ index = 0
  /\ new_key = <<>>
  /\ result = NoResult
  /\ marks = <<>>

Return(r) ==
  /\ pc' = "end"
  /\ result' = r
  /\ UNCHANGED <<config, key, index, new_key, marks>>

(***************************************************************************)
(* escape(), escape_specified()                                            *)
(***************************************************************************)
IsCoded(c) == IF strict THEN c \in Special ELSE c \in chars
CodeOf(c) == IF IsCoded(c) THEN Escaped(c) ELSE <<c>>

EscapeByte ==
  /\ pc = "escape"
  /\ index < Len(key)
  /\ new_key' = new_key \o CodeOf(key[index + 1])
  /\ index' = index + 1
  /\ marks' = Append(marks, Len(new_key))
  /\ UNCHANGED <<pc, config, key, result>>

\* `String::from_utf8(new_key).unwrap()`: the caller gets the text and, on a
\* round trip, hands it to the matching unescape function.
EscapeReturn ==
  /\ pc = "escape"
  /\ index = Len(key)
  /\ Utf8(new_key)
  /\ pc' = "unescape"
  /\ key' = new_key
  /\ index' = 0
  /\ new_key' = <<>>
  /\ UNCHANGED <<config, result, marks>>

EscapePanic ==
  /\ pc = "escape"
  /\ index = Len(key)
  /\ ~ Utf8(new_key)
  /\ Return(Panic)

(***************************************************************************)
(* unescape(), unescape_specified()                                        *)
(***************************************************************************)
\* Mutant: one byte too many is asked for.
HasThreeMore == index + 3 < Len(key)

AtPercent == index < Len(key) /\ key[index + 1] = Percent
HasTwoMore == index + 2 < Len(key)
HexFollows == key[index + 2] \in HexDigit /\ key[index + 3] \in HexDigit
Decoded == (unhex(key[index + 2]) * 16) + unhex(key[index + 3])
Triple == SubSeq(key, index + 1, index + 3)

Consume(width, pushed) ==
  /\ new_key' = new_key \o pushed
  /\ index' = index + width
  /\ UNCHANGED <<pc, config, key, result, marks>>

UnescapeLiteral ==
  /\ pc = "unescape"
  /\ index < Len(key)
  /\ ~ AtPercent
  /\ Consume(1, <<key[index + 1]>>)

\* Mutant: the strict form consults `chars` too.
UnescapeHexInChars ==
  /\ pc = "unescape"
  /\ AtPercent /\ HasTwoMore /\ HexFollows
  /\ Consume(3, IF Decoded \in chars THEN <<Decoded>> ELSE Triple)

\* '%' and two hex digits: decoded, unless the byte is not one of `chars`.
UnescapeHex ==
  /\ pc = "unescape"
  /\ AtPercent /\ HasTwoMore /\ HexFollows
  /\ Consume(3, IF strict \/ Decoded \in chars THEN <<Decoded>> ELSE Triple)

\* unescape(): a '%' that does not start an escape is an error.
UnescapeInvalid ==
  /\ pc = "unescape"
  /\ strict
  /\ AtPercent
  /\ ~ (HasTwoMore /\ HexFollows)
  /\ Return(ErrAt("InvalidEscape", index))

\* Mutant: the third byte is skipped and not kept.
UnescapeSpecifiedDropsThird ==
  /\ pc = "unescape"
  /\ ~ strict
  /\ AtPercent /\ HasTwoMore /\ ~ HexFollows
  /\ Consume(3, SubSeq(key, index + 1, index + 2))

\* unescape_specified(): three bytes are kept, whatever they are.
UnescapeSpecifiedInvalid ==
  /\ pc = "unescape"
  /\ ~ strict
  /\ AtPercent /\ HasTwoMore /\ ~ HexFollows
  /\ Consume(3, Triple)

\* Mutants: the cursor moves by three for every '%', or not at all.
UnescapeSpecifiedOverrun ==
  /\ pc = "unescape"
  /\ ~ strict
  /\ AtPercent /\ ~ HasTwoMore
  /\ Consume(3, <<Percent>>)
UnescapeSpecifiedStuck ==
  /\ pc = "unescape"
  /\ ~ strict
  /\ AtPercent /\ ~ HasTwoMore
  /\ Consume(0, <<>>)

\* unescape_specified(): '%' with fewer than two bytes after it is kept.
UnescapeSpecifiedIncomplete ==
  /\ pc = "unescape"
  /\ ~ strict
  /\ AtPercent /\ ~ HasTwoMore
  /\ Consume(1, <<Percent>>)

UnescapeReturn ==
  /\ pc = "unescape"
  /\ index = Len(key)
  /\ Return(FromUtf8(new_key))

Next ==
  \/ EscapeByte \/ EscapeReturn \/ EscapePanic
  \/ UnescapeLiteral \/ UnescapeHex \/ UnescapeInvalid
  \/ UnescapeSpecifiedInvalid \/ UnescapeSpecifiedIncomplete
  \/ UnescapeReturn

Spec == Init /\ [][Next]_vars

\* The functions are called to completion: a loop that can step, steps.
FairSpec == Spec /\ WF_vars(Next)

-----------------------------------------------------------------------------
\* Every variable has its type, the cursor stays inside the text, and the
\* loops of helper.rs push bytes (hi * 16 + lo fits a u8).
TypeOK ==
  /\ pc \in {"escape", "unescape", "end"}
  /\ strict \in BOOLEAN
  /\ trip \in BOOLEAN
  /\ chars \in SUBSET Byte
  /\ orig \in Seq(Byte)
  /\ key \in Seq(Byte)
  /\ index \in 0 .. Len(key)
  /\ new_key \in Seq(Byte)
  /\ DOMAIN result \subseteq {"err", "pos", "text"}
  /\ "text" \in DOMAIN result => result.text \in Seq(Byte)
  /\ marks \in Seq(Nat)

\* Unescaping what was escaped gives back the string (helper.rs:51-58, "the
\* reverse function").  The _specified() pair does so as long as '%' itself is
\* among `chars` or does not occur in the string.
Reversible == IsCoded(Percent) \/ \A p \in DOMAIN orig : orig[p] # Percent
RoundTrip ==
  (trip /\ pc = "end" /\ Reversible) => result \in {OkText(orig), Panic}

\* escape() output is one path segment: no '/', whatever the string holds
\* (helper.rs:5-6); Builder::push_str relies on it.
EscapedIsOneSegment ==
  (strict /\ trip /\ pc = "unescape") => \A p \in DOMAIN key : key[p] # Slash

\* The unwrap() of escape() never panics (helper.rs:29-30, "Safe unwrap()").
EscapeNeverPanics == strict => result # Panic

\* The same comment on escape_specified() (helper.rs:47-48).
EscapeSpecifiedNeverPanics == ~ strict => result # Panic

\* As long as `chars` are ASCII characters, the _specified() functions never
\* fail, on any text: a multi-byte character next to a '%' stays whole although
\* unescape_specified() copies bytes by three (helper.rs:34-49, 96-141).
AsciiCharsAreSafe ==
  (~ strict /\ chars \subseteq 0 .. 127 /\ pc = "end") => IsOk(result)

\* unescape() accepts exactly the texts whose every '%' starts an escape and
\* whose decoded bytes are UTF-8, reports the first offending '%', and decodes
\* the rest byte by byte (helper.rs:59-93).
UnescapeMeetsReference ==
  (strict /\ pc = "end") => result = Unescape(key)

\* Every call returns: no iteration leaves the cursor where it was.
Termination == <>(pc = "end")
-----------------------------------------------------------------------------
(***************************************************************************)
(* Why the round trip works.  marks[k] is where the code of the k-th byte  *)
(* of orig starts in the escaped text, so the codes tile that text; the    *)
(* unescape loop moves from one code to the next and has rebuilt the bytes *)
(* before it.                                                              *)
(***************************************************************************)
CodeLen(c) == IF IsCoded(c) THEN 3 ELSE 1

\* Where the k-th code starts in `code`; past the last one, where it ends.
Offset(code, k) == IF k <= Len(marks) THEN marks[k] ELSE Len(code)

\* The k-th code is complete, and is the code of the k-th byte.
Tile(code, k) ==
  /\ Offset(code, k + 1) = marks[k] + CodeLen(orig[k])
  /\ Offset(code, k + 1) <= Len(code)
  /\ IF IsCoded(orig[k])
     THEN /\ code[marks[k] + 1] = Percent
          /\ code[marks[k] + 2] = hex(orig[k] \div 16)
          /\ code[marks[k] + 3] = hex(orig[k] % 16)
     ELSE code[marks[k] + 1] = orig[k]

Tiles(code) ==
  /\ Len(marks) <= Len(orig)
  /\ Offset(code, 1) = 0
  /\ \A k \in 1 .. Len(marks) : Tile(code, k)

Escaping ==
  /\ trip
  /\ key = orig
  /\ index = Len(marks)
  /\ Tiles(new_key)

Unescaping ==
  /\ Len(marks) = Len(orig)
  /\ Tiles(key)
  /\ Reversible =>
       /\ Len(new_key) <= Len(orig)
       /\ \A j \in 1 .. Len(new_key) : new_key[j] = orig[j]
       /\ index = Offset(key, Len(new_key) + 1)

PlainOrPercent(s) == \A p \in DOMAIN s : s[p] \in Plain \cup {Percent}

\* The inductive invariant behind RoundTrip, EscapedIsOneSegment and
\* EscapeNeverPanics: the codes of the bytes tile the escaped text, the
\* unescape loop stands at the start of a code, and what escape() pushed
\* is plain characters and '%' (helper.rs:14-93).
LoopInv ==
  /\ Utf8(orig)
  /\ pc = "escape" => Escaping
  /\ (pc = "unescape" /\ trip) => Unescaping
  /\ (strict /\ pc = "escape") => PlainOrPercent(new_key)
  /\ (strict /\ pc = "unescape" /\ trip) => PlainOrPercent(key)
  /\ RoundTrip
  /\ EscapeNeverPanics
=============================================================================
