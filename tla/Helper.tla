------------------------------- MODULE Helper -------------------------------
(***************************************************************************)
(* The character-level functions of helper.rs, as operators on texts.  A   *)
(* text is the sequence of its bytes, as `&str::as_bytes()` gives it.  The *)
(* loops of helper.rs, step by step, are in EscapeLoops; this module says  *)
(* what they compute, for the modules that use them as a whole.            *)
(*                                                                         *)
(* A Rust `Result` is a record: Err has a field `err`, the name of the     *)
(* `Error` variant; the Ok records carry the value under the name of its   *)
(* type, so that values of different types are never compared.             *)
(***************************************************************************)
EXTENDS Integers, Sequences, SequencesExt

OkText(s) == [text |-> s]
OkId(n) == [id |-> n]
OkUnit == [unit |-> TRUE]
Err(kind) == [err |-> kind]
ErrAt(kind, pos) == [err |-> kind, pos |-> pos]
IsOk(r) == "err" \notin DOMAIN r

Sum(numbers) ==
  LET sum[n \in 0 .. Len(numbers)] == IF n = 0 THEN 0 ELSE sum[n - 1] + numbers[n]
  IN  sum[Len(numbers)]

(***************************************************************************)
(* Bytes                                                                   *)
(***************************************************************************)
Byte == 0 .. 255
Digit == 48 .. 57
Plus == 43
Percent == 37
Slash == 47
Underscore == 95

\* Mutants: an alphabet that takes Latin-1 letters, or '/', as plain.
PlainWithLatin1 == Digit \cup {Underscore} \cup 97 .. 122 \cup 65 .. 90 \cup 192 .. 255
PlainWithSlash == Digit \cup {Underscore} \cup 97 .. 122 \cup 65 .. 90 \cup {Slash}

\* The bytes that escape() copies unchanged: '0'-'9', '_', 'a'-'z', 'A'-'Z'.
Plain == Digit \cup {Underscore} \cup 97 .. 122 \cup 65 .. 90
Special == Byte \ Plain

hex(num) == IF num < 10 THEN 48 + num ELSE 97 + num - 10

HexDigit == Digit \cup 97 .. 102 \cup 65 .. 70

\* Mutant: lower case digits lose their + 10.
unhexNoTen(num) == CASE num \in Digit -> num - 48
                     [] num \in 97 .. 102 -> num - 97
                     [] num \in 65 .. 70 -> num - 65 + 10

\* unhex() where it returns Some; HexDigit is where it does.
unhex(num) == CASE num \in Digit -> num - 48
                [] num \in 97 .. 102 -> num - 97 + 10
                [] num \in 65 .. 70 -> num - 65 + 10

\* The three bytes pushed for a byte that is escaped.
Escaped(c) == <<Percent, hex(c \div 16), hex(c % 16)>>

(***************************************************************************)
(* UTF-8, as `String::from_utf8` of the standard library checks it.        *)
(***************************************************************************)
Ascii == 0 .. 127
Continuation == 128 .. 191

\* Lead[w] holds the first bytes of the characters that take w bytes.
Lead == <<Ascii, 194 .. 223, 224 .. 239, 240 .. 244>>

\* The bytes that may follow the lead byte b: no overlong form, no surrogate,
\* nothing above U+10FFFF.
Second(b) == CASE b = 224 -> 160 .. 191
               [] b = 237 -> 128 .. 159
               [] b = 240 -> 144 .. 191
               [] b = 244 -> 128 .. 143
               [] OTHER -> Continuation

Utf8(s) ==
  \A p \in 1 .. Len(s) :
    \/ s[p] \in Ascii
    \/ \E w \in 2 .. 4 :
         /\ s[p] \in Lead[w]
         /\ p + w - 1 <= Len(s)
         /\ s[p + 1] \in Second(s[p])
         /\ \A k \in 1 .. w - 1 : s[p + k] \in Continuation
    \/ /\ s[p] \in Continuation
       /\ \E k \in 1 .. 3, w \in 2 .. 4 : k < w /\ k < p /\ s[p - k] \in Lead[w]

(***************************************************************************)
(* escape() and escape_specified()                                         *)
(***************************************************************************)
EscapeSpecified(key, chars) ==
  FlattenSeq([p \in DOMAIN key |->
                IF key[p] \in chars THEN Escaped(key[p]) ELSE <<key[p]>>])

Escape(key) == EscapeSpecified(key, Special)

(***************************************************************************)
(* unescape(), said without a loop: every '%' must start a valid escape;   *)
(* the bytes of the result are those at the positions that are not inside  *)
(* one.  Two escapes cannot overlap because '%' is not a hex digit.        *)
(***************************************************************************)
EscapeAt(key, p) == key[p] = Percent
ValidAt(key, p) == /\ p + 2 <= Len(key)
                   /\ key[p + 1] \in HexDigit
                   /\ key[p + 2] \in HexDigit

ByteAt(key, p) == IF EscapeAt(key, p)
                  THEN (unhex(key[p + 1]) * 16) + unhex(key[p + 2])
                  ELSE key[p]

FromUtf8(s) == IF Utf8(s) THEN OkText(s) ELSE Err("FromUtf8Error")

OutsideEscape(key, p) == \A k \in {1, 2} : p > k => ~ EscapeAt(key, p - k)

\* At n, the bytes that the first n positions stand for.
Unescaped(key) ==
  LET bytes[n \in 0 .. Len(key)] ==
        IF n = 0 THEN <<>>
        ELSE IF OutsideEscape(key, n) THEN Append(bytes[n - 1], ByteAt(key, n))
        ELSE bytes[n - 1]
  IN  bytes

BadEscapes(key) == {p \in DOMAIN key : EscapeAt(key, p) /\ ~ ValidAt(key, p)}

Unescape(key) ==
  LET bad == BadEscapes(key)
  IN  IF bad # {}
      THEN ErrAt("InvalidEscape", (CHOOSE p \in bad : \A q \in bad : p <= q) - 1)
      ELSE FromUtf8(Unescaped(key)[Len(key)])

(***************************************************************************)
(* decode_id(): `str::parse::<uN>` of the standard library, for an integer *)
(* type whose largest value is max.  It takes an optional '+', at least    *)
(* one digit and any number of leading zeros.                              *)
(***************************************************************************)
\* At p, the number that the digits of a text stand for, from `from` to p.
Numbers(s, from) ==
  LET value[p \in 0 .. Len(s)] ==
        IF p < from THEN 0 ELSE (value[p - 1] * 10) + s[p] - 48
  IN  value

DecodeId(s, max) ==
  LET from == IF Len(s) > 1 /\ s[1] = Plus THEN 2 ELSE 1
      number == Numbers(s, from)[Len(s)]
  IN  IF /\ from <= Len(s)
         /\ \A p \in from .. Len(s) : s[p] \in Digit
         /\ number <= max
      THEN OkId(number)
      ELSE Err("InvalidId")

\* `format!("{}", n)` for an unsigned n: decimal digits, no leading zero.
Decimal(n) ==
  LET text[m \in 0 .. n] ==
        IF m < 10 THEN <<48 + m>> ELSE Append(text[m \div 10], 48 + (m % 10))
  IN  text[n]
=============================================================================
