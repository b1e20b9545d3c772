------------------------- MODULE EscapeLoopsProofs -------------------------
(***************************************************************************)
(* Proofs about the loops of helper.rs, for all strings and all `chars`.   *)
(***************************************************************************)
EXTENDS EscapeLoops, HelperLemmas

\* The code of a byte: three bytes when coded, itself otherwise.
LEMMA CodeShape ==
  ASSUME NEW c \in Byte
  PROVE  /\ CodeOf(c) \in Seq(Byte)
         /\ Len(CodeOf(c)) = CodeLen(c)
         /\ IF IsCoded(c)
            THEN /\ CodeOf(c)[1] = Percent
                 /\ CodeOf(c)[2] = hex(c \div 16)
                 /\ CodeOf(c)[3] = hex(c % 16)
            ELSE CodeOf(c)[1] = c
<1>1. Percent \in Byte /\ hex(c \div 16) \in Byte /\ hex(c % 16) \in Byte
  BY HexByte DEF Percent, HexDigit, Digit, Byte
<1>2. CASE IsCoded(c)
  BY <1>1, <1>2 DEF CodeOf, CodeLen, Escaped
<1>3. CASE ~ IsCoded(c)
  BY <1>3 DEF CodeOf, CodeLen
<1>4. QED
  BY <1>2, <1>3

-----------------------------------------------------------------------------
USE DEF config, vars

\* Types hold: the cursor never leaves the text and only bytes are pushed.
THEOREM TypeCorrect == Spec => []TypeOK
<1>1. Init => TypeOK
  <2> SUFFICES ASSUME Init PROVE TypeOK
    OBVIOUS
  <2>1. orig \in Seq(Byte) /\ pc \in {"escape", "unescape"} /\ trip \in BOOLEAN
    BY StringsAssumption, CodedAssumption DEF Init, IsStr
  <2>2. chars \in SUBSET Byte /\ strict \in BOOLEAN
    BY CharSetsAssumption DEF Init
  <2>3. QED
    BY <2>1, <2>2 DEF Init, TypeOK, NoResult, Err
<1>2. TypeOK /\ [Next]_vars => TypeOK'
  <2> SUFFICES ASSUME TypeOK, [Next]_vars PROVE TypeOK'
    OBVIOUS
  <2> USE DEF TypeOK
  <2>1. CASE EscapeByte
    <3>1. key[index + 1] \in Byte /\ index + 1 \in 0 .. Len(key)
      BY <2>1 DEF EscapeByte
    <3>2. new_key' \in Seq(Byte)
      BY <2>1, <3>1, CodeShape, ConcatProperties DEF EscapeByte
    <3>3. QED
      BY <2>1, <3>1, <3>2 DEF EscapeByte
  <2>2. CASE EscapeReturn
    BY <2>2 DEF EscapeReturn
  <2>3. CASE EscapePanic
    BY <2>3 DEF EscapePanic, Return, Panic, Err
  <2>4. CASE UnescapeLiteral
    <3>1. <<key[index + 1]>> \in Seq(Byte) /\ index + 1 \in 0 .. Len(key)
      BY <2>4 DEF UnescapeLiteral
    <3>2. new_key' \in Seq(Byte)
      BY <2>4, <3>1, ConcatProperties DEF UnescapeLiteral, Consume
    <3>3. QED
      BY <2>4, <3>1, <3>2 DEF UnescapeLiteral, Consume
  <2>5. ASSUME AtPercent, HasTwoMore
        PROVE  Triple \in Seq(Byte) /\ index + 3 \in 0 .. Len(key)
    <3>1. index + 3 \in 0 .. Len(key) /\ index \in Nat
      BY <2>5 DEF HasTwoMore
    <3>2. \A p \in index + 1 .. index + 3 : key[p] \in Byte
      BY <3>1
    <3>3. QED
      BY <3>1, <3>2, SubSeqProperties DEF Triple
  <2>6. CASE UnescapeHex
    <3>1. Triple \in Seq(Byte) /\ index + 3 \in 0 .. Len(key)
      BY <2>5, <2>6 DEF UnescapeHex
    <3>2. <<Decoded>> \in Seq(Byte)
      BY <2>6, UnhexByte DEF UnescapeHex, HexFollows, Decoded
    <3>3. new_key' \in Seq(Byte)
      BY <2>6, <3>1, <3>2, ConcatProperties DEF UnescapeHex, Consume
    <3>4. QED
      BY <2>6, <3>1, <3>3 DEF UnescapeHex, Consume
  <2>7. CASE UnescapeInvalid
    BY <2>7 DEF UnescapeInvalid, Return, ErrAt
  <2>8. CASE UnescapeSpecifiedInvalid
    <3>1. Triple \in Seq(Byte) /\ index + 3 \in 0 .. Len(key)
      BY <2>5, <2>8 DEF UnescapeSpecifiedInvalid
    <3>2. new_key' \in Seq(Byte)
      BY <2>8, <3>1, ConcatProperties DEF UnescapeSpecifiedInvalid, Consume
    <3>3. QED
      BY <2>8, <3>1, <3>2 DEF UnescapeSpecifiedInvalid, Consume
  <2>9. CASE UnescapeSpecifiedIncomplete
    <3>1. <<Percent>> \in Seq(Byte) /\ index + 1 \in 0 .. Len(key)
      BY <2>9 DEF UnescapeSpecifiedIncomplete, AtPercent, Percent, Byte
    <3>2. new_key' \in Seq(Byte)
      BY <2>9, <3>1, ConcatProperties DEF UnescapeSpecifiedIncomplete, Consume
    <3>3. QED
      BY <2>9, <3>1, <3>2 DEF UnescapeSpecifiedIncomplete, Consume
  <2>10. CASE UnescapeReturn
    BY <2>10 DEF UnescapeReturn, Return, FromUtf8, OkText, Err
  <2>11. CASE UNCHANGED vars
    BY <2>11
  <2>12. QED
    BY <2>1, <2>2, <2>3, <2>4, <2>6, <2>7, <2>8, <2>9, <2>10, <2>11 DEF Next
<1>3. QED
  BY <1>1, <1>2, PTL DEF Spec

-----------------------------------------------------------------------------
\* Bytes appended after the escaped text leave the codes laid so far in place,
\* and add the code of the next byte.
LEMMA TilesExtend ==
  ASSUME TypeOK, pc = "escape", Escaping, EscapeByte
  PROVE  Tiles(new_key)'
<1>0. /\ orig \in Seq(Byte) /\ key \in Seq(Byte) /\ new_key \in Seq(Byte)
      /\ marks \in Seq(Nat) /\ index \in Nat
  BY DEF TypeOK
<1>1. PICK n, c : n = Len(marks) /\ c = key[index + 1]
  OBVIOUS
<1>2. /\ key' = key /\ orig' = orig /\ n \in Nat /\ n < Len(orig)
      /\ c \in Byte /\ c = orig[n + 1] /\ index = n
  BY <1>0, <1>1 DEF EscapeByte, Escaping
<1>3. /\ marks' \in Seq(Nat) /\ Len(marks') = n + 1
      /\ \A k \in 1 .. n : marks'[k] = marks[k]
      /\ marks'[n + 1] = Len(new_key)
  BY <1>0, <1>1 DEF EscapeByte
<1>4. /\ new_key' \in Seq(Byte)
      /\ Len(new_key') = Len(new_key) + CodeLen(c)
      /\ \A p \in 1 .. Len(new_key) : new_key'[p] = new_key[p]
      /\ \A p \in 1 .. CodeLen(c) : new_key'[Len(new_key) + p] = CodeOf(c)[p]
  <2>1. CodeOf(c) \in Seq(Byte) /\ Len(CodeOf(c)) = CodeLen(c)
    BY <1>2, CodeShape
  <2>2. new_key' = new_key \o CodeOf(c)
    BY <1>1 DEF EscapeByte
  <2>3. CodeLen(c) \in Nat
    BY DEF CodeLen
  <2>4. /\ new_key' \in Seq(Byte)
        /\ Len(new_key') = Len(new_key) + CodeLen(c)
        /\ \A p \in 1 .. Len(new_key) + CodeLen(c) :
             new_key'[p] = IF p <= Len(new_key) THEN new_key[p]
                           ELSE CodeOf(c)[p - Len(new_key)]
    BY <1>0, <2>1, <2>2, ConcatProperties
  <2>5. Len(new_key) \in Nat
    BY <1>0
  <2>6. ASSUME NEW p \in 1 .. CodeLen(c)
        PROVE  new_key'[Len(new_key) + p] = CodeOf(c)[p]
    BY <2>3, <2>4, <2>5
  <2>7. QED
    BY <2>3, <2>4, <2>5, <2>6
<1>5. \A d : CodeLen(d)' = CodeLen(d) /\ IsCoded(d)' = IsCoded(d)
  BY DEF EscapeByte, CodeLen, IsCoded
<1>6. \A k \in 1 .. n + 1 : Offset(new_key, k)' = Offset(new_key, k)
  BY <1>0, <1>1, <1>2, <1>3 DEF Offset
<1>7. Offset(new_key, n + 2)' = Len(new_key')
  BY <1>2, <1>3 DEF Offset
<1>8. ASSUME NEW k \in 1 .. n
      PROVE  Tile(new_key, k)'
  <2>1. Tile(new_key, k)
    BY <1>1 DEF Escaping, Tiles
  <2>2. /\ marks[k] \in Nat /\ marks'[k] = marks[k]
        /\ marks[k] + CodeLen(orig[k]) <= Len(new_key)
    <3>1. k \in 1 .. Len(marks) /\ marks[k] \in Nat /\ marks'[k] = marks[k]
      BY <1>0, <1>1, <1>2, <1>3
    <3>2. /\ Offset(new_key, k + 1) = marks[k] + CodeLen(orig[k])
          /\ Offset(new_key, k + 1) <= Len(new_key)
      BY <2>1, Zenon DEF Tile
    <3>3. QED
      BY <3>1, <3>2
  <2>3. \A p \in 1 .. CodeLen(orig[k]) : new_key'[marks'[k] + p] = new_key[marks[k] + p]
    <3>1. CodeLen(orig[k]) \in Nat /\ Len(new_key) \in Nat
      BY <1>0 DEF CodeLen
    <3>2. ASSUME NEW p \in 1 .. CodeLen(orig[k])
          PROVE  marks[k] + p \in 1 .. Len(new_key)
      BY <2>2, <3>1
    <3>3. QED
      BY <1>4, <2>2, <3>2
  <2>4. /\ Offset(new_key, k + 1)' = Offset(new_key, k + 1)
        /\ Offset(new_key, k + 1)' <= Len(new_key')
    <3>1. Offset(new_key, k + 1)' = Offset(new_key, k + 1)
      BY <1>2, <1>6
    <3>2. Offset(new_key, k + 1) = marks[k] + CodeLen(orig[k])
      BY <2>1, Zenon DEF Tile
    <3>3. CodeLen(orig[k]) \in Nat /\ CodeLen(c) \in Nat /\ Len(new_key) \in Nat
      BY <1>0 DEF CodeLen
    <3>4. QED
      BY <1>4, <2>2, <3>1, <3>2, <3>3
  <2>5. CASE IsCoded(orig[k])
    BY <1>2, <1>5, <2>1, <2>2, <2>3, <2>4, <2>5 DEF Tile, CodeLen
  <2>6. CASE ~ IsCoded(orig[k])
    BY <1>2, <1>5, <2>1, <2>2, <2>3, <2>4, <2>6 DEF Tile, CodeLen
  <2>7. QED
    BY <2>5, <2>6
<1>9. ASSUME NEW k, k = n + 1
      PROVE  Tile(new_key, k)'
  <2>1. /\ Offset(new_key, k + 1)' = marks'[k] + CodeLen(c)
        /\ Offset(new_key, k + 1)' <= Len(new_key')
        /\ marks'[k] = Len(new_key) /\ orig'[k] = c
    BY <1>2, <1>3, <1>4, <1>7, <1>9
  <2>2. CASE IsCoded(c)
    <3>1. /\ new_key'[marks'[k] + 1] = CodeOf(c)[1]
          /\ new_key'[marks'[k] + 2] = CodeOf(c)[2]
          /\ new_key'[marks'[k] + 3] = CodeOf(c)[3]
      BY <1>4, <2>1, <2>2 DEF CodeLen
    <3>2. QED
      BY <1>2, <1>5, <2>1, <2>2, <3>1, CodeShape DEF Tile
  <2>3. CASE ~ IsCoded(c)
    <3>1. new_key'[marks'[k] + 1] = CodeOf(c)[1]
      BY <1>4, <2>1, <2>3 DEF CodeLen
    <3>2. QED
      BY <1>2, <1>5, <2>1, <2>3, <3>1, CodeShape DEF Tile
  <2>4. QED
    BY <2>2, <2>3
<1>10. ASSUME NEW k \in 1 .. Len(marks')
       PROVE  Tile(new_key, k)'
  BY <1>2, <1>3, <1>8, <1>9
<1>11. Len(marks') <= Len(orig') /\ Offset(new_key, 1)' = 0
  BY <1>0, <1>2, <1>3, <1>6 DEF Escaping, Tiles
<1>12. QED
  BY <1>10, <1>11 DEF Tiles

\* The unescape loop on a code that escape wrote: a coded byte is read as an
\* escape and decoded, an uncoded one is copied, and the end of the text is
\* the end of the codes.
LEMMA UnescapeReadsCode ==
  ASSUME TypeOK, Unescaping, Reversible
  PROVE  /\ index = Len(key) <=> Len(new_key) = Len(orig)
         /\ index < Len(key) =>
              LET c == orig[Len(new_key) + 1]
              IN  /\ Len(new_key) < Len(orig)
                  /\ c \in Byte
                  /\ Offset(key, Len(new_key) + 2) = index + CodeLen(c)
                  /\ IF IsCoded(c)
                     THEN AtPercent /\ HasTwoMore /\ HexFollows /\ Decoded = c
                     ELSE ~ AtPercent /\ key[index + 1] = c
<1> DEFINE m == Len(new_key)
<1> USE DEF TypeOK
<1>1. /\ m \in Nat /\ m <= Len(orig) /\ Len(marks) = Len(orig)
      /\ index = Offset(key, m + 1) /\ index \in Nat /\ index <= Len(key)
  BY DEF Unescaping
<1>2. m = Len(orig) => index = Len(key)
  BY <1>1 DEF Offset
<1>3. ASSUME m < Len(orig), NEW c, c = orig[m + 1]
      PROVE  /\ index < Len(key)
             /\ c \in Byte
             /\ Offset(key, m + 2) = index + CodeLen(c)
             /\ IF IsCoded(c)
                THEN AtPercent /\ HasTwoMore /\ HexFollows /\ Decoded = c
                ELSE ~ AtPercent /\ key[index + 1] = c
  <2>1. m + 1 \in 1 .. Len(marks) /\ index = marks[m + 1] /\ c \in Byte
    BY <1>1, <1>3 DEF Offset
  <2>2. /\ Offset(key, m + 2) = index + CodeLen(c)
        /\ Offset(key, m + 2) <= Len(key)
        /\ IF IsCoded(c)
           THEN /\ key[index + 1] = Percent
                /\ key[index + 2] = hex(c \div 16)
                /\ key[index + 3] = hex(c % 16)
           ELSE key[index + 1] = c
    BY <1>1, <1>3, <2>1 DEF Unescaping, Tiles, Tile
  <2>3. CASE IsCoded(c)
    <3>1. index + 3 <= Len(key)
      BY <2>2, <2>3 DEF CodeLen
    <3>2. AtPercent /\ HasTwoMore
      BY <1>1, <2>2, <2>3, <3>1 DEF AtPercent, HasTwoMore
    <3>3. HexFollows /\ Decoded = c
      BY <2>1, <2>2, <2>3, HexByte DEF HexFollows, Decoded
    <3>4. QED
      BY <1>1, <2>1, <2>2, <2>3, <3>1, <3>2, <3>3
  <2>4. CASE ~ IsCoded(c)
    <3>1. index + 1 <= Len(key)
      BY <2>2, <2>4 DEF CodeLen
    <3>2. c # Percent
      BY <1>1, <1>3, <2>4 DEF Reversible
    <3>3. QED
      BY <1>1, <2>1, <2>2, <2>4, <3>1, <3>2 DEF AtPercent
  <2>5. QED
    BY <2>3, <2>4
<1>4. QED
  BY <1>1, <1>2, <1>3

-----------------------------------------------------------------------------
\* LoopInv is inductive: every iteration of every loop keeps it.
THEOREM LoopsCorrect == Spec => []LoopInv
<1>1. Init => LoopInv
  <2> SUFFICES ASSUME Init PROVE LoopInv
    OBVIOUS
  <2>1. orig \in Seq(Byte) /\ Utf8(orig)
    BY StringsAssumption, CodedAssumption DEF Init, IsStr
  <2>2. pc = "escape" => Escaping
    BY <2>1 DEF Init, Escaping, Tiles, Offset
  <2>3. /\ pc # "end" /\ (pc = "unescape" => ~ trip)
        /\ new_key = <<>> /\ result # Panic
    BY DEF Init, NoResult, Panic, Err
  <2>4. QED
    BY <2>1, <2>2, <2>3 DEF LoopInv, RoundTrip, EscapeNeverPanics, PlainOrPercent
<1>2. TypeOK /\ LoopInv /\ [Next]_vars => LoopInv'
  <2> SUFFICES ASSUME TypeOK, LoopInv, [Next]_vars PROVE LoopInv'
    OBVIOUS
  <2>1. CASE EscapeByte
    <3>1. pc = "escape" /\ pc' = "escape" /\ Escaping /\ result' = result
          /\ UNCHANGED config /\ key' = key
      BY <2>1 DEF EscapeByte, LoopInv
    <3>2. Escaping'
      BY <2>1, <3>1, TilesExtend DEF EscapeByte, Escaping, TypeOK
    <3>3. strict => PlainOrPercent(new_key')
      <4> SUFFICES ASSUME strict PROVE PlainOrPercent(new_key')
        OBVIOUS
      <4>1. key[index + 1] \in Byte /\ new_key \in Seq(Byte)
        BY <2>1 DEF EscapeByte, TypeOK
      <4>2. CodeOf(key[index + 1]) \in Seq(Byte)
        BY <4>1, CodeShape
      <4>3. ASSUME NEW p \in 1 .. Len(CodeOf(key[index + 1]))
            PROVE  CodeOf(key[index + 1])[p] \in Plain \cup {Percent}
        <5>1. CASE key[index + 1] \in Special
          <6>1. /\ hex(key[index + 1] \div 16) \in Plain
                /\ hex(key[index + 1] % 16) \in Plain
            <7>1. HexDigit \subseteq Plain
              BY DEF HexDigit, Plain
            <7>2. QED
              BY <4>1, <7>1, HexByte
          <6>2. CodeOf(key[index + 1])
                  = <<Percent, hex(key[index + 1] \div 16), hex(key[index + 1] % 16)>>
            BY <5>1 DEF CodeOf, IsCoded, Escaped
          <6>3. QED
            BY <6>1, <6>2
        <5>2. CASE key[index + 1] \notin Special
          <6>1. CodeOf(key[index + 1]) = <<key[index + 1]>>
            BY <5>2 DEF CodeOf, IsCoded
          <6>2. key[index + 1] \in Plain
            BY <4>1, <5>2 DEF Special
          <6>3. QED
            BY <6>1, <6>2
        <5>3. QED
          BY <5>1, <5>2
      <4>4. PlainOrPercent(new_key)
        BY <3>1 DEF LoopInv
      <4>5. QED
        BY <2>1, <4>1, <4>2, <4>3, <4>4, ConcatProperties DEF EscapeByte, PlainOrPercent
    <3>4. QED
      BY <3>1, <3>2, <3>3 DEF LoopInv, RoundTrip, EscapeNeverPanics
  <2>2. CASE EscapeReturn
    <3>1. pc = "escape" /\ pc' = "unescape" /\ UNCHANGED <<config, marks, result>>
          /\ key' = new_key /\ new_key' = <<>> /\ index' = 0 /\ Escaping
      BY <2>2 DEF EscapeReturn, LoopInv
    <3>2. Len(marks) = Len(orig) /\ Tiles(new_key)
      BY <2>2, <3>1 DEF EscapeReturn, Escaping
    <3>3. Tiles(key)'
      BY <3>1, <3>2 DEF Tiles, Tile, Offset, CodeLen, IsCoded
    <3>4. Offset(key, 1)' = 0 /\ Len(orig') \in Nat
      BY <3>1, <3>3 DEF Tiles, TypeOK
    <3>5. Unescaping'
      BY <3>1, <3>2, <3>3, <3>4 DEF Unescaping
    <3>6. QED
      BY <3>1, <3>5 DEF LoopInv, RoundTrip, EscapeNeverPanics
  <2>3. CASE EscapePanic
    <3>1. ~ strict
      <4> SUFFICES ASSUME strict PROVE FALSE
        OBVIOUS
      <4>1. PlainOrPercent(new_key)
        BY <2>3 DEF EscapePanic, LoopInv
      <4>2. Plain \cup {Percent} \subseteq Ascii
        BY DEF Plain, Digit, Underscore, Percent, Ascii
      <4>3. QED
        BY <2>3, <4>1, <4>2, AsciiIsUtf8 DEF EscapePanic, PlainOrPercent, TypeOK
    <3>2. pc' = "end" /\ result' = Panic /\ UNCHANGED config
      BY <2>3 DEF EscapePanic, Return
    <3>3. QED
      BY <3>1, <3>2 DEF LoopInv, RoundTrip, EscapeNeverPanics
  <2>4. ASSUME NEW w, NEW pushed \in Seq(Byte), Consume(w, pushed), pc = "unescape",
               (trip /\ Reversible) => /\ index < Len(key)
                                       /\ pushed = <<orig[Len(new_key) + 1]>>
                                       /\ w = CodeLen(orig[Len(new_key) + 1])
        PROVE  LoopInv'
    <3>1. pc' = "unescape" /\ UNCHANGED <<config, key, result, marks>>
          /\ new_key' = new_key \o pushed /\ index' = index + w
      BY <2>4 DEF Consume
    <3>2. ASSUME trip PROVE Unescaping'
      <4>1. Unescaping
        BY <2>4, <3>2 DEF LoopInv
      <4>2. Len(marks') = Len(orig') /\ Tiles(key)'
        BY <3>1, <4>1 DEF Unescaping, Tiles, Tile, Offset, CodeLen, IsCoded
      <4>3. ASSUME Reversible
            PROVE  /\ Len(new_key') <= Len(orig')
                   /\ \A j \in 1 .. Len(new_key') : new_key'[j] = orig'[j]
                   /\ index' = Offset(key, Len(new_key) + 1)'
        <5>1. PICK m : m = Len(new_key)
          OBVIOUS
        <5>2. /\ m < Len(orig) /\ m \in Nat
              /\ Offset(key, m + 2) = index + w
              /\ pushed = <<orig[m + 1]>> /\ orig[m + 1] \in Byte
          BY <2>4, <3>2, <4>1, <4>3, <5>1, UnescapeReadsCode DEF TypeOK
        <5>3. /\ Len(new_key') = m + 1 /\ new_key'[m + 1] = orig[m + 1]
              /\ \A j \in 1 .. m : new_key'[j] = new_key[j]
          BY <3>1, <5>1, <5>2 DEF TypeOK
        <5>4. index' = Offset(key, m + 2)'
          BY <3>1, <5>2 DEF Offset
        <5>5. \A j \in 1 .. m : new_key[j] = orig[j]
          BY <4>1, <4>3, <5>1 DEF Unescaping
        <5>6. Len(new_key') + 1 = m + 2
          BY <5>2, <5>3
        <5>7. index' = Offset(key, Len(new_key) + 1)'
          BY <5>4, <5>6
        <5>8. Len(new_key') <= Len(orig')
          BY <3>1, <5>2, <5>3 DEF TypeOK
        <5>9. ASSUME NEW j \in 1 .. Len(new_key')
              PROVE  new_key'[j] = orig'[j]
          <6>1. orig' = orig /\ (j \in 1 .. m \/ j = m + 1)
            BY <3>1, <5>2, <5>3
          <6>2. QED
            BY <5>3, <5>5, <6>1
        <5>10. QED
          BY <5>7, <5>8, <5>9
      <4>4. Reversible' <=> Reversible
        BY <3>1 DEF Reversible, IsCoded
      <4>5. QED
        BY <4>2, <4>3, <4>4 DEF Unescaping
    <3>3. QED
      BY <2>4, <3>1, <3>2 DEF LoopInv, RoundTrip, EscapeNeverPanics
  <2>5. (pc = "unescape" /\ trip) => Unescaping
    BY DEF LoopInv
  <2>6. CASE UnescapeLiteral
    <3>1. pc = "unescape" /\ <<key[index + 1]>> \in Seq(Byte)
          /\ index < Len(key) /\ ~ AtPercent
      BY <2>6 DEF UnescapeLiteral, TypeOK
    <3>2. (trip /\ Reversible) => /\ key[index + 1] = orig[Len(new_key) + 1]
                                  /\ CodeLen(orig[Len(new_key) + 1]) = 1
      BY <2>5, <3>1, UnescapeReadsCode DEF CodeLen
    <3>3. QED
      BY <2>4, <2>6, <3>1, <3>2 DEF UnescapeLiteral
  <2>7. ASSUME AtPercent, HasTwoMore
        PROVE  Triple \in Seq(Byte)
    <3>1. \A p \in index + 1 .. index + 3 : key[p] \in Byte
      BY <2>7 DEF HasTwoMore, TypeOK
    <3>2. QED
      BY <3>1, SubSeqProperties DEF Triple, TypeOK
  <2>8. CASE UnescapeHex
    <3> DEFINE pushed == IF strict \/ Decoded \in chars THEN <<Decoded>> ELSE Triple
    <3>1. pc = "unescape" /\ AtPercent /\ HasTwoMore /\ HexFollows /\ index < Len(key)
      BY <2>8 DEF UnescapeHex, AtPercent
    <3>2. pushed \in Seq(Byte)
      BY <2>7, <3>1, UnhexByte DEF HexFollows, Decoded
    <3>3. ASSUME trip, Reversible
          PROVE  /\ pushed = <<orig[Len(new_key) + 1]>>
                 /\ CodeLen(orig[Len(new_key) + 1]) = 3
      <4>1. IsCoded(orig[Len(new_key) + 1]) /\ Decoded = orig[Len(new_key) + 1]
        BY <2>5, <3>1, <3>3, UnescapeReadsCode
      <4>2. QED
        BY <4>1 DEF IsCoded, CodeLen
    <3>4. QED
      BY <2>4, <2>8, <3>1, <3>2, <3>3 DEF UnescapeHex
  <2>9. CASE UnescapeInvalid
    <3>1. ~ (trip /\ Reversible)
      BY <2>5, <2>9, UnescapeReadsCode DEF UnescapeInvalid, AtPercent
    <3>2. pc' = "end" /\ result' = ErrAt("InvalidEscape", index) /\ UNCHANGED config
      BY <2>9 DEF UnescapeInvalid, Return
    <3>3. result' # Panic
      BY <3>2 DEF ErrAt, Panic, Err
    <3>4. QED
      BY <3>1, <3>2, <3>3 DEF LoopInv, RoundTrip, EscapeNeverPanics, Reversible, IsCoded
  <2>10. CASE UnescapeSpecifiedInvalid
    <3>1. pc = "unescape" /\ AtPercent /\ HasTwoMore /\ ~ HexFollows /\ index < Len(key)
      BY <2>10 DEF UnescapeSpecifiedInvalid, AtPercent
    <3>2. ~ (trip /\ Reversible)
      BY <2>5, <3>1, UnescapeReadsCode
    <3>3. QED
      BY <2>4, <2>7, <2>10, <3>1, <3>2 DEF UnescapeSpecifiedInvalid
  <2>11. CASE UnescapeSpecifiedIncomplete
    <3>1. pc = "unescape" /\ AtPercent /\ ~ HasTwoMore /\ index < Len(key)
      BY <2>11 DEF UnescapeSpecifiedIncomplete, AtPercent
    <3>2. ~ (trip /\ Reversible)
      BY <2>5, <3>1, UnescapeReadsCode
    <3>3. <<Percent>> \in Seq(Byte)
      BY DEF Percent, Byte
    <3>4. QED
      BY <2>4, <2>11, <3>1, <3>2, <3>3 DEF UnescapeSpecifiedIncomplete
  <2>12. CASE UnescapeReturn
    <3>1. pc = "unescape" /\ index = Len(key) /\ pc' = "end"
          /\ result' = FromUtf8(new_key) /\ UNCHANGED config
      BY <2>12 DEF UnescapeReturn, Return
    <3>2. (trip /\ Reversible) => new_key = orig
      <4> SUFFICES ASSUME trip, Reversible PROVE new_key = orig
        OBVIOUS
      <4>1. Len(new_key) = Len(orig)
        BY <2>5, <3>1, UnescapeReadsCode
      <4>2. \A j \in 1 .. Len(new_key) : new_key[j] = orig[j]
        BY <2>5, <3>1 DEF Unescaping
      <4>3. QED
        BY <4>1, <4>2, SeqEqual DEF TypeOK
    <3>3. result' # Panic
      BY <3>1 DEF FromUtf8, OkText, Panic, Err
    <3>4. (trip /\ Reversible) => result' = OkText(orig)
      BY <3>1, <3>2 DEF LoopInv, FromUtf8
    <3>5. QED
      BY <3>1, <3>3, <3>4 DEF LoopInv, RoundTrip, EscapeNeverPanics, Reversible, IsCoded
  <2>13. CASE UNCHANGED vars
    BY <2>13 DEF LoopInv, RoundTrip, EscapeNeverPanics, Reversible, Escaping,
                 Unescaping, Tiles, Tile, Offset, CodeLen, IsCoded, PlainOrPercent
  <2>14. QED
    BY <2>1, <2>2, <2>3, <2>6, <2>8, <2>9, <2>10, <2>11, <2>12, <2>13 DEF Next
<1>3. QED
  BY <1>1, <1>2, TypeCorrect, PTL DEF Spec

\* Unescaping what was escaped gives back the string: helper.rs:51, for every
\* string, and for every `chars` under which the pair is reversible.
THEOREM RoundTripCorrect == Spec => []RoundTrip
<1>1. LoopInv => RoundTrip
  BY DEF LoopInv
<1>2. QED
  BY <1>1, LoopsCorrect, PTL

\* escape() never writes a '/': what push_str() appends is one segment.
THEOREM EscapedSegmentCorrect == Spec => []EscapedIsOneSegment
<1>1. LoopInv => EscapedIsOneSegment
  BY DEF LoopInv, EscapedIsOneSegment, PlainOrPercent, Plain, Percent, Slash,
         Digit, Underscore
<1>2. QED
  BY <1>1, LoopsCorrect, PTL

\* The unwrap() in escape() cannot panic (helper.rs:29).
THEOREM EscapeNeverPanicsCorrect == Spec => []EscapeNeverPanics
<1>1. LoopInv => EscapeNeverPanics
  BY DEF LoopInv
<1>2. QED
  BY <1>1, LoopsCorrect, PTL
-----------------------------------------------------------------------------
\* The loop of unescape() has read the bytes before its cursor, and what it
\* has pushed is what they stand for; then it returns what Unescape() says.
UnescapeInv ==
  /\ (strict /\ pc = "unescape") => ReadSoFar(key, index, new_key)
  /\ UnescapeMeetsReference

\* Initially nothing has been read.
LEMMA UnescapeInvInit == Init => UnescapeInv
<1> SUFFICES ASSUME Init PROVE UnescapeInv
  OBVIOUS
<1>1. key \in Seq(Byte) /\ index = 0 /\ new_key = <<>> /\ pc # "end"
  BY StringsAssumption, CodedAssumption DEF Init, IsStr
<1>2. QED
  BY <1>1, ReadsNothing DEF UnescapeInv, UnescapeMeetsReference

\* Every iteration reads a byte or an escape, or returns; escape() does not
\* panic.
LEMMA UnescapeInvStep ==
  ASSUME TypeOK, UnescapeInv, EscapeNeverPanics', [Next]_vars
  PROVE  UnescapeInv'
<1>1. key \in Seq(Byte) /\ index \in 0 .. Len(key) /\ new_key \in Seq(Byte)
  BY DEF TypeOK
<1>2. CASE UNCHANGED vars
  BY <1>2 DEF UnescapeInv, UnescapeMeetsReference
<1>3. CASE EscapeByte
  BY <1>3 DEF EscapeByte, UnescapeInv, UnescapeMeetsReference
<1>4. CASE EscapeReturn
  <2>1. ReadSoFar(new_key, 0, <<>>)
    BY <1>1, ReadsNothing
  <2>2. QED
    BY <1>4, <2>1 DEF EscapeReturn, UnescapeInv, UnescapeMeetsReference
<1>5. CASE EscapePanic
  <2>1. ~ strict'
    BY <1>5 DEF EscapePanic, Return, EscapeNeverPanics
  <2>2. QED
    BY <1>5, <2>1 DEF EscapePanic, Return, UnescapeInv, UnescapeMeetsReference
<1>6. ASSUME strict', UnescapeLiteral
      PROVE  ReadSoFar(key', index', new_key')
  <2>1. /\ strict /\ pc = "unescape" /\ index < Len(key) /\ key[index + 1] # Percent
        /\ new_key' = new_key \o <<key[index + 1]>> /\ index' = index + 1 /\ key' = key
    BY <1>6 DEF UnescapeLiteral, Consume, AtPercent
  <2>2. new_key' = Append(new_key, key[index + 1]) /\ index \in 0 .. Len(key) - 1
    BY <1>1, <2>1
  <2>3. QED
    BY <1>1, <2>1, <2>2, ReadsByte DEF UnescapeInv
<1>7. ASSUME strict', UnescapeHex
      PROVE  ReadSoFar(key', index', new_key')
  <2>1. /\ strict /\ pc = "unescape" /\ index + 2 < Len(key) /\ key[index + 1] = Percent
        /\ key[index + 2] \in HexDigit /\ key[index + 3] \in HexDigit
        /\ new_key' = new_key \o <<Decoded>> /\ index' = index + 3 /\ key' = key
    BY <1>7 DEF UnescapeHex, Consume, AtPercent, HasTwoMore, HexFollows
  <2>2. new_key' = Append(new_key, Decoded) /\ index \in 0 .. Len(key) - 3
    BY <1>1, <2>1
  <2>3. QED
    BY <1>1, <2>1, <2>2, ReadsEscape DEF UnescapeInv, Decoded
<1>8. ASSUME strict', UnescapeInvalid
      PROVE  result' = Unescape(key')
  <2>1. /\ strict /\ pc = "unescape" /\ index < Len(key) /\ key[index + 1] = Percent
        /\ ~ (index + 2 < Len(key) /\ key[index + 2] \in HexDigit /\ key[index + 3] \in HexDigit)
        /\ result' = ErrAt("InvalidEscape", index) /\ key' = key
    BY <1>8 DEF UnescapeInvalid, Return, AtPercent, HasTwoMore, HexFollows
  <2>2. index \in 0 .. Len(key) - 1
    BY <1>1, <2>1
  <2>3. QED
    BY <1>1, <2>1, <2>2, ReadsBad DEF UnescapeInv
<1>9. ASSUME strict', UnescapeReturn
      PROVE  result' = Unescape(key')
  <2>1. /\ strict /\ pc = "unescape" /\ index = Len(key)
        /\ result' = FromUtf8(new_key) /\ key' = key
    BY <1>9 DEF UnescapeReturn, Return
  <2>2. QED
    BY <1>1, <2>1, ReadsAll DEF UnescapeInv
<1>10. CASE UnescapeLiteral
  BY <1>6, <1>10 DEF UnescapeLiteral, Consume, UnescapeInv, UnescapeMeetsReference
<1>11. CASE UnescapeHex
  BY <1>7, <1>11 DEF UnescapeHex, Consume, UnescapeInv, UnescapeMeetsReference
<1>12. CASE UnescapeInvalid
  BY <1>8, <1>12 DEF UnescapeInvalid, Return, UnescapeInv, UnescapeMeetsReference
<1>13. CASE UnescapeSpecifiedInvalid
  BY <1>13 DEF UnescapeSpecifiedInvalid, Consume, UnescapeInv, UnescapeMeetsReference
<1>14. CASE UnescapeSpecifiedIncomplete
  BY <1>14 DEF UnescapeSpecifiedIncomplete, Consume, UnescapeInv, UnescapeMeetsReference
<1>15. CASE UnescapeReturn
  BY <1>9, <1>15 DEF UnescapeReturn, Return, UnescapeInv, UnescapeMeetsReference
<1>16. QED
  BY <1>2, <1>3, <1>4, <1>5, <1>10, <1>11, <1>12, <1>13, <1>14, <1>15 DEF Next

\* The loop of unescape() computes Unescape(), on every text: what it accepts,
\* what it returns, and the position of the '%' that it reports
\* (helper.rs:59-93).
THEOREM UnescapeCorrect == Spec => []UnescapeMeetsReference
<1>1. UnescapeInv => UnescapeMeetsReference
  BY DEF UnescapeInv
<1>2. TypeOK /\ UnescapeInv /\ EscapeNeverPanics' /\ [Next]_vars => UnescapeInv'
  BY UnescapeInvStep
<1>3. QED
  BY <1>1, <1>2, UnescapeInvInit, TypeCorrect, EscapeNeverPanicsCorrect, PTL DEF Spec
-----------------------------------------------------------------------------
(***************************************************************************)
(* Why the _specified() functions never fail when `chars` are ASCII.  They *)
(* may stop in the middle of a character; what they have pushed is then    *)
(* whole characters and as much of that one as they have passed.           *)
(***************************************************************************)
\* The output `out` for the first n bytes of a text: whole characters for the
\* first `passed` bytes, then the bytes after these, which start a character.
InSync(text, n, out) ==
  \E kept \in 0 .. Len(out), passed \in 0 .. n :
    /\ Len(out) - kept = n - passed
    /\ Utf8(SubSeq(out, 1, kept))
    /\ \A j \in 1 .. n - passed : out[kept + j] = text[passed + j]
    /\ passed = n => (n < Len(text) => text[n + 1] \notin Continuation)
    /\ passed < n => \E w \in 2 .. 4 : n - passed < w /\ text[passed + 1] \in Lead[w]

\* At the end of a character, whole characters have been pushed.
LEMMA SyncAtChar ==
  ASSUME NEW text \in Seq(Byte), Utf8(text), NEW n \in 0 .. Len(text),
         NEW out \in Seq(Byte), InSync(text, n, out),
         n = Len(text) \/ text[n + 1] \notin Continuation
  PROVE  Utf8(out)
<1>1. PICK kept \in 0 .. Len(out), passed \in 0 .. n :
        /\ Len(out) - kept = n - passed
        /\ Utf8(SubSeq(out, 1, kept))
        /\ passed < n => \E w \in 2 .. 4 : n - passed < w /\ text[passed + 1] \in Lead[w]
  BY DEF InSync
<1>2. CASE passed = n
  <2>1. kept = Len(out)
    BY <1>1, <1>2
  <2>2. SubSeq(out, 1, kept) = out
    BY <2>1
  <2>3. QED
    BY <1>1, <2>2
<1>3. CASE passed < n
  <2>1. PICK w \in 2 .. 4 : n - passed < w /\ text[passed + 1] \in Lead[w]
    BY <1>1, <1>3
  <2> DEFINE p == passed + 1
             k == n - passed
  <2>2. p \in 1 .. Len(text) /\ k \in 1 .. w - 1 /\ p + k = n + 1 /\ text[p] \in Lead[w]
    BY <1>3, <2>1
  <2> HIDE DEF p, k
  <2>3. p + w - 1 <= Len(text) /\ text[p + k] \in Continuation
    BY <2>2, LeadIsFollowed
  <2>4. QED
    BY <2>1, <2>2, <2>3
<1>4. QED
  BY <1>2, <1>3

\* Whole characters are in step with a text where one of its characters ends.
LEMMA WholeIsInSync ==
  ASSUME NEW text \in Seq(Byte), NEW n \in 0 .. Len(text), NEW out \in Seq(Byte), Utf8(out),
         n < Len(text) => text[n + 1] \notin Continuation
  PROVE  InSync(text, n, out)
<1> DEFINE kept == Len(out)
<1>1. kept \in 0 .. Len(out) /\ n \in 0 .. n /\ Len(out) - kept = n - n /\ ~ (n < n)
  OBVIOUS
<1>2. SubSeq(out, 1, kept) = out
  OBVIOUS
<1> HIDE DEF kept
<1>3. \A j \in 1 .. n - n : out[kept + j] = text[n + j]
  OBVIOUS
<1>4. Utf8(SubSeq(out, 1, kept))
  BY <1>2
<1>5. QED
  BY <1>1, <1>3, <1>4 DEF InSync

\* ASCII characters of the text are replaced by others.
LEMMA ReplaceAscii ==
  ASSUME NEW text \in Seq(Byte), Utf8(text), NEW m \in 1 .. Len(text), text[m] \in Ascii,
         NEW out \in Seq(Byte), Utf8(out)
  PROVE  InSync(text, m, out)
<1>1. m < Len(text) => text[m + 1] \notin Continuation
  BY CharEnds
<1>2. QED
  BY <1>1, WholeIsInSync

\* A text and one more character are a text, and in step with it.
LEMMA CharCompleted ==
  ASSUME NEW text \in Seq(Byte), Utf8(text), NEW n \in 1 .. Len(text),
         NEW out \in Seq(Byte), NEW kept \in 0 .. Len(out), NEW passed \in 0 .. n,
         NEW w \in 1 .. 4, Len(out) - kept = w, n - passed = w,
         Utf8(SubSeq(out, 1, kept)),
         \A j \in 1 .. w : out[kept + j] = text[passed + j],
         w = 1 => text[passed + 1] \in Ascii,
         w > 1 => text[passed + 1] \in Lead[w]
  PROVE  InSync(text, n, out)
<1> DEFINE s == SubSeq(out, 1, kept)
           t == SubSeq(out, kept + 1, Len(out))
           p == passed + 1
<1>1. s \in Seq(Byte) /\ t \in Seq(Byte) /\ Len(s) = kept /\ Len(t) = w
  OBVIOUS
<1>11. /\ \A j \in 1 .. kept : s[j] = out[j]
       /\ \A k \in 1 .. w : t[k] = out[kept + k]
  OBVIOUS
<1>2. p \in 1 .. Len(text) /\ p + w = n + 1
  OBVIOUS
<1> HIDE DEF s, t, p
<1>10. s \o t = out
  <2>1. s \o t \in Seq(Byte) /\ Len(s \o t) = kept + w /\ Len(out) = kept + w
    BY <1>1
  <2>2. ASSUME NEW j \in 1 .. kept + w
        PROVE  (s \o t)[j] = out[j]
    <3>1. CASE j <= kept
      BY <1>1, <1>11, <3>1
    <3>2. CASE j > kept
      <4>1. PICK k \in 1 .. w : j = kept + k
        <5>1. j - kept \in 1 .. w /\ j = kept + (j - kept)
          BY <3>2
        <5>2. QED
          BY <5>1
      <4>2. (s \o t)[j] = t[k]
        BY <1>1, <4>1
      <4>3. QED
        BY <1>11, <4>1, <4>2
    <3>3. j <= kept \/ j > kept
      OBVIOUS
    <3>4. QED
      BY <3>1, <3>2, <3>3
  <2>3. QED
    BY <2>1, <2>2
<1>3. t[1] = text[p] /\ \A k \in 1 .. w - 1 : t[1 + k] = text[p + k]
  <2>1. \A k \in 0 .. w - 1 : t[1 + k] = out[kept + (1 + k)]
    BY <1>11
  <2>2. \A k \in 0 .. w - 1 : out[kept + (1 + k)] = text[passed + (1 + k)]
    <3>1. \A k \in 0 .. w - 1 : 1 + k \in 1 .. w
      OBVIOUS
    <3>2. QED
      BY <3>1
  <2>3. \A k \in 0 .. w - 1 : passed + (1 + k) = p + k
    BY DEF p
  <2>4. \A k \in 0 .. w - 1 : t[1 + k] = text[p + k]
    BY <2>1, <2>2, <2>3
  <2>5. 0 \in 0 .. w - 1 /\ p + 0 = p
    BY <1>2
  <2>6. t[1] = text[p]
    BY <2>4, <2>5
  <2>7. QED
    BY <2>4, <2>6
<1>4. w = 1 => text[p] \in Ascii
  BY DEF p
<1>5. w > 1 => text[p] \in Lead[w]
  BY DEF p
<1>6. /\ w > 1 => t[2] \in Second(t[1])
      /\ \A k \in 1 .. w - 1 : t[1 + k] \in Continuation
  <2>1. CASE w = 1
    BY <2>1
  <2>2. CASE w > 1
    <3>1. w \in 2 .. 4 /\ 1 \in 1 .. w - 1
      BY <2>2
    <3>2. /\ text[p + 1] \in Second(text[p])
          /\ \A k \in 1 .. w - 1 : text[p + k] \in Continuation
      BY <1>2, <1>5, <2>2, <3>1, LeadIsFollowed
    <3>3. t[2] = text[p + 1]
      <4>1. t[1 + 1] = text[p + 1]
        BY <1>3, <3>1
      <4>2. QED
        BY <4>1
    <3>4. QED
      BY <1>3, <3>2, <3>3
  <2>3. QED
    BY <2>1, <2>2
<1>7. Utf8(out)
  <2>1. w = 1 => t[1] \in Ascii
    BY <1>3, <1>4
  <2>2. w > 1 => t[1] \in Lead[w] /\ t[2] \in Second(t[1])
    BY <1>3, <1>5, <1>6
  <2>3. Utf8(s) /\ s \in Seq(Byte)
    BY <1>1 DEF s
  <2>4. Utf8(s \o t)
    BY <1>1, <1>6, <2>1, <2>2, <2>3, AppendChar
  <2>5. QED
    BY <1>10, <2>4
<1>8. n < Len(text) => text[n + 1] \notin Continuation
  BY <1>2, <1>4, <1>5, CharEnds
<1>9. QED
  BY <1>7, <1>8, WholeIsInSync

\* One more byte is copied.
LEMMA CopyByte ==
  ASSUME NEW text \in Seq(Byte), Utf8(text), NEW n \in 0 .. Len(text) - 1,
         NEW out \in Seq(Byte), InSync(text, n, out),
         NEW more, more = Append(out, text[n + 1])
  PROVE  InSync(text, n + 1, more)
<1>1. /\ text[n + 1] \in Byte /\ n + 1 \in 1 .. Len(text) /\ more \in Seq(Byte)
      /\ Len(more) = Len(out) + 1 /\ more[Len(out) + 1] = text[n + 1]
      /\ \A j \in 1 .. Len(out) : more[j] = out[j]
  OBVIOUS
<1>2. PICK kept \in 0 .. Len(out), passed \in 0 .. n :
        /\ Len(out) - kept = n - passed
        /\ Utf8(SubSeq(out, 1, kept))
        /\ \A j \in 1 .. n - passed : out[kept + j] = text[passed + j]
        /\ passed = n => (n < Len(text) => text[n + 1] \notin Continuation)
        /\ passed < n => \E w \in 2 .. 4 : n - passed < w /\ text[passed + 1] \in Lead[w]
  BY DEF InSync
<1>3. /\ kept \in 0 .. Len(more) /\ passed \in 0 .. n + 1
      /\ Len(more) - kept = (n + 1) - passed
      /\ SubSeq(more, 1, kept) = SubSeq(out, 1, kept)
  <2>1. Len(text) \in Nat /\ n \in Nat /\ Len(out) \in Nat
    OBVIOUS
  <2>2. /\ kept \in 0 .. Len(more) /\ passed \in 0 .. n + 1
        /\ Len(more) - kept = (n + 1) - passed
    <3>1. Len(more) = Len(out) + 1 /\ Len(out) - kept = n - passed
      BY <1>1, <1>2
    <3>2. QED
      BY <2>1, <3>1
  <2>3. SubSeq(more, 1, kept) = SubSeq(out, 1, kept)
    BY <1>1, <2>2
  <2>4. QED
    BY <2>2, <2>3
<1>4. ASSUME NEW j \in 1 .. (n + 1) - passed
      PROVE  more[kept + j] = text[passed + j]
  <2>1. CASE j \in 1 .. n - passed
    <3>1. kept + j \in 1 .. Len(out)
      <4>1. /\ Len(out) \in Nat /\ kept \in Nat /\ j \in Nat /\ 1 <= j /\ j <= n - passed
            /\ Len(out) - kept = n - passed /\ n \in Nat /\ passed \in Nat
        BY <1>2, <2>1
      <4>2. QED
        BY <4>1
    <3>2. QED
      BY <1>1, <1>2, <2>1, <3>1
  <2>2. CASE j = (n + 1) - passed
    <3>1. kept + j = Len(out) + 1 /\ passed + j = n + 1
      BY <1>2, <2>2
    <3>2. QED
      BY <1>1, <3>1
  <2>3. j \in 1 .. n - passed \/ j = (n + 1) - passed
    OBVIOUS
  <2>4. QED
    BY <2>1, <2>2, <2>3
\* the byte completes a character of w bytes
<1>5. ASSUME NEW w \in 1 .. 4, w = (n + 1) - passed,
             w = 1 => text[passed + 1] \in Ascii,
             w > 1 => text[passed + 1] \in Lead[w]
      PROVE  InSync(text, n + 1, more)
  <2>1. \A j \in 1 .. w : more[kept + j] = text[passed + j]
    BY <1>4, <1>5
  <2>2. Utf8(SubSeq(more, 1, kept)) /\ Len(more) - kept = w
    BY <1>2, <1>3, <1>5
  <2>3. QED
    BY <1>1, <1>3, <1>5, <2>1, <2>2, CharCompleted
\* the byte starts or continues a character
<1>6. ASSUME NEW w \in 2 .. 4, (n + 1) - passed < w, text[passed + 1] \in Lead[w]
      PROVE  InSync(text, n + 1, more)
  <2>1. passed # n + 1
    OBVIOUS
  <2>2. Utf8(SubSeq(more, 1, kept))
    BY <1>2, <1>3
  <2>3. QED
    BY <1>3, <1>4, <1>6, <2>1, <2>2 DEF InSync
<1>7. CASE passed = n
  <2>1. text[n + 1] \notin Continuation
    BY <1>2, <1>7
  <2>2. CASE text[n + 1] \in Ascii
    <3>1. 1 = (n + 1) - passed /\ passed + 1 = n + 1
      BY <1>7
    <3>2. QED
      BY <1>5, <2>2, <3>1
  <2>3. CASE text[n + 1] \notin Ascii
    <3>1. PICK w \in 2 .. 4 : text[n + 1] \in Lead[w]
      BY <1>1, <2>1, <2>3 DEF Utf8
    <3>2. (n + 1) - passed < w /\ passed + 1 = n + 1
      BY <1>7
    <3>3. QED
      BY <1>6, <3>1, <3>2
  <2>4. QED
    BY <2>2, <2>3
<1>8. CASE passed < n
  <2>1. PICK w \in 2 .. 4 : n - passed < w /\ text[passed + 1] \in Lead[w]
    BY <1>2, <1>8
  <2>2. w = (n + 1) - passed \/ (n + 1) - passed < w
    BY <2>1
  <2>3. w \in 1 .. 4 /\ w # 1
    OBVIOUS
  <2>4. QED
    BY <1>5, <1>6, <2>1, <2>2, <2>3
<1>9. QED
  BY <1>7, <1>8

\* What a concatenation holds.
LEMMA ConcatIs ==
  ASSUME NEW out \in Seq(Byte), NEW t \in Seq(Byte)
  PROVE  /\ out \o t \in Seq(Byte) /\ Len(out \o t) = Len(out) + Len(t)
         /\ \A j \in 1 .. Len(out) : (out \o t)[j] = out[j]
         /\ \A k \in 1 .. Len(t) : (out \o t)[Len(out) + k] = t[k]
         /\ \A k \in 1 .. Len(t) : t[k] \in Byte
OBVIOUS

\* A text of three bytes is pushed byte by byte.
LEMMA ConcatTriple ==
  ASSUME NEW out \in Seq(Byte), NEW t \in Seq(Byte), Len(t) = 3
  PROVE  out \o t = Append(Append(Append(out, t[1]), t[2]), t[3])
<1> DEFINE out1 == Append(out, t[1])
           out2 == Append(out1, t[2])
           out3 == Append(out2, t[3])
<1>1. t[1] \in Byte /\ t[2] \in Byte /\ t[3] \in Byte
  <2>1. \A k \in 1 .. Len(t) : t[k] \in Byte
    BY ConcatIs
  <2>2. QED
    BY <2>1
<1>2. /\ out1 \in Seq(Byte) /\ Len(out1) = Len(out) + 1 /\ out1[Len(out) + 1] = t[1]
      /\ \A j \in 1 .. Len(out) : out1[j] = out[j]
  BY <1>1
<1> HIDE DEF out1
<1>3. /\ out2 \in Seq(Byte) /\ Len(out2) = Len(out) + 2 /\ out2[Len(out) + 2] = t[2]
      /\ \A j \in 1 .. Len(out) + 1 : out2[j] = out1[j]
  BY <1>1, <1>2
<1> HIDE DEF out2
<1>4. /\ out3 \in Seq(Byte) /\ Len(out3) = Len(out) + 3 /\ out3[Len(out) + 3] = t[3]
      /\ \A j \in 1 .. Len(out) + 2 : out3[j] = out2[j]
  BY <1>1, <1>3
<1> HIDE DEF out3
<1>5. /\ out \o t \in Seq(Byte) /\ Len(out \o t) = Len(out) + 3
      /\ \A j \in 1 .. Len(out) : (out \o t)[j] = out[j]
      /\ \A k \in 1 .. 3 : (out \o t)[Len(out) + k] = t[k]
  <2>1. /\ out \o t \in Seq(Byte) /\ Len(out \o t) = Len(out) + Len(t)
        /\ \A j \in 1 .. Len(out) : (out \o t)[j] = out[j]
        /\ \A k \in 1 .. Len(t) : (out \o t)[Len(out) + k] = t[k]
    BY ConcatIs
  <2>2. QED
    BY <2>1
<1>6. ASSUME NEW j \in 1 .. Len(out) + 3
      PROVE  out3[j] = (out \o t)[j]
  <2>1. Len(out) \in Nat
    OBVIOUS
  <2>2. \/ j \in 1 .. Len(out) \/ j = Len(out) + 1 \/ j = Len(out) + 2 \/ j = Len(out) + 3
    BY <2>1
  <2>3. QED
    BY <1>2, <1>3, <1>4, <1>5, <2>1, <2>2
<1>7. out3 = out \o t
  BY <1>4, <1>5, <1>6
<1>8. QED
  BY <1>7 DEF out1, out2, out3

\* Three more bytes are copied.
LEMMA CopyTriple ==
  ASSUME NEW text \in Seq(Byte), Utf8(text), NEW n \in 0 .. Len(text) - 3,
         NEW out \in Seq(Byte), InSync(text, n, out)
  PROVE  InSync(text, n + 3, out \o SubSeq(text, n + 1, n + 3))
<1> DEFINE t == SubSeq(text, n + 1, n + 3)
           out1 == Append(out, text[n + 1])
           out2 == Append(out1, text[n + 2])
           out3 == Append(out2, text[n + 3])
<1>1. /\ text[n + 1] \in Byte /\ text[n + 2] \in Byte /\ text[n + 3] \in Byte
      /\ out1 \in Seq(Byte) /\ out2 \in Seq(Byte) /\ out3 \in Seq(Byte)
  OBVIOUS
<1>2. out3 = out \o t
  <2>1. t \in Seq(Byte) /\ Len(t) = 3
    OBVIOUS
  <2>2. t[1] = text[n + 1] /\ t[2] = text[n + 2] /\ t[3] = text[n + 3]
    OBVIOUS
  <2> HIDE DEF t
  <2>3. out \o t = Append(Append(Append(out, t[1]), t[2]), t[3])
    BY <2>1, ConcatTriple
  <2>4. QED
    BY <2>2, <2>3
<1>3. InSync(text, n + 1, out1)
  <2>1. n \in 0 .. Len(text) - 1
    OBVIOUS
  <2>2. QED
    BY <2>1, CopyByte
<1>4. n + 1 \in 0 .. Len(text) - 1 /\ (n + 1) + 1 = n + 2
  OBVIOUS
<1> HIDE DEF out1
<1>5. InSync(text, n + 2, out2)
  <2>1. out2 = Append(out1, text[(n + 1) + 1])
    BY <1>4
  <2>2. InSync(text, (n + 1) + 1, out2)
    BY <1>1, <1>3, <1>4, <2>1, CopyByte
  <2>3. QED
    BY <1>4, <2>2
<1>6. n + 2 \in 0 .. Len(text) - 1 /\ (n + 2) + 1 = n + 3
  OBVIOUS
<1> HIDE DEF out2
<1>7. InSync(text, n + 3, out3)
  <2>1. out3 = Append(out2, text[(n + 2) + 1])
    BY <1>6
  <2>2. InSync(text, (n + 2) + 1, out3)
    BY <1>1, <1>5, <1>6, <2>1, CopyByte
  <2>3. QED
    BY <1>6, <2>2
<1>8. QED
  BY <1>2, <1>7

\* The invariant: outputs keep in step with texts, as far as `chars` are ASCII.
SyncInv ==
  /\ Utf8(key)
  /\ (~ strict /\ chars \subseteq Ascii) =>
       /\ pc # "end" => InSync(key, index, new_key)
       /\ pc = "end" => IsOk(result)

\* The code of an ASCII byte is three ASCII bytes.
LEMMA EscapedIsAscii ==
  ASSUME NEW c \in Ascii, NEW out \in Seq(Byte), Utf8(out)
  PROVE  Utf8(out \o Escaped(c)) /\ Escaped(c) \in Seq(Byte)
<1> DEFINE t == Escaped(c)
<1>1. c \in Byte
  BY DEF Ascii, Byte
<1>2. Percent \in Ascii /\ hex(c \div 16) \in Ascii /\ hex(c % 16) \in Ascii
  BY <1>1, HexByte DEF Percent, HexDigit, Digit, Ascii
<1>3. \A d \in Ascii : d \in Byte
  BY DEF Ascii, Byte
<1>4. t \in Seq(Byte) /\ Len(t) = 3 /\ t[1] \in Ascii /\ t[2] \in Ascii /\ t[3] \in Ascii
  BY <1>2, <1>3 DEF Escaped
<1> HIDE DEF t
<1>5. out \o t = Append(Append(Append(out, t[1]), t[2]), t[3])
  BY <1>4, ConcatTriple
<1>6. ASSUME NEW s \in Seq(Byte), Utf8(s), NEW d \in Ascii
      PROVE  Append(s, d) \in Seq(Byte) /\ Utf8(Append(s, d))
  <2>1. d \in Byte
    BY <1>3
  <2>2. Append(s, d) = s \o << d >>
    BY <2>1
  <2>3. Utf8(s \o << d >>)
    BY <1>6, AppendAscii
  <2>4. QED
    BY <2>1, <2>2, <2>3
<1>7. QED
  BY <1>4, <1>5, <1>6 DEF t

\* As long as `chars` are ASCII, no call of the _specified() functions fails
\* or panics, on any text (helper.rs:34-49, 96-141).
THEOREM AsciiCharsAreSafeCorrect == Spec => []AsciiCharsAreSafe
<1>1. Init => SyncInv
  <2> SUFFICES ASSUME Init PROVE SyncInv
    OBVIOUS
  <2>1. key \in Seq(Byte) /\ Utf8(key) /\ index = 0 /\ new_key = <<>> /\ pc # "end"
    BY StringsAssumption, CodedAssumption DEF Init, IsStr
  <2>2. 0 < Len(key) => key[0 + 1] \notin Continuation
    BY <2>1, TextStarts
  <2>3. Utf8(<<>>) /\ <<>> \in Seq(Byte)
    BY DEF Utf8
  <2>4. 0 \in 0 .. Len(key)
    BY <2>1
  <2>5. InSync(key, 0, <<>>)
    BY <2>1, <2>2, <2>3, <2>4, WholeIsInSync
  <2>6. QED
    BY <2>1, <2>5 DEF SyncInv
<1>2. TypeOK /\ SyncInv /\ [Next]_vars => SyncInv'
  <2> SUFFICES ASSUME TypeOK, SyncInv, [Next]_vars PROVE SyncInv'
    OBVIOUS
  <2> DEFINE Safe == ~ strict /\ chars \subseteq Ascii
  <2>1. /\ key \in Seq(Byte) /\ Utf8(key) /\ new_key \in Seq(Byte) /\ index \in 0 .. Len(key)
        /\ Safe => /\ pc # "end" => InSync(key, index, new_key)
                   /\ pc = "end" => IsOk(result)
    BY DEF TypeOK, SyncInv
  <2>2. CASE EscapeByte
    <3>1. /\ pc # "end" /\ UNCHANGED <<pc, config, key>> /\ index' = index + 1 /\ index \in 0 .. Len(key) - 1
          /\ new_key' = new_key \o CodeOf(key[index + 1]) /\ key[index + 1] \in Byte
      BY <2>1, <2>2 DEF EscapeByte
    <3>2. SUFFICES ASSUME Safe PROVE InSync(key, index + 1, new_key')
      BY <2>1, <3>1 DEF SyncInv
    <3>3. CASE IsCoded(key[index + 1])
      <4>1. key[index + 1] \in Ascii
        BY <3>2, <3>3 DEF IsCoded
      <4>2. key[index + 1] \notin Continuation
        BY <4>1, ContinuationLeadsNothing
      <4>3. Utf8(new_key)
        BY <2>1, <3>1, <3>2, <4>2, SyncAtChar
      <4>4. new_key' = new_key \o Escaped(key[index + 1])
        BY <3>1, <3>3 DEF CodeOf
      <4>5. new_key' \in Seq(Byte) /\ Utf8(new_key')
        BY <2>1, <4>1, <4>3, <4>4, EscapedIsAscii
      <4>6. index + 1 \in 1 .. Len(key)
        BY <2>1, <3>1
      <4>7. QED
        BY <2>1, <4>1, <4>5, <4>6, ReplaceAscii
    <3>4. CASE ~ IsCoded(key[index + 1])
      <4>1. new_key' = Append(new_key, key[index + 1])
        BY <2>1, <3>1, <3>4 DEF CodeOf
      <4>2. QED
        BY <2>1, <3>1, <3>2, <4>1, CopyByte
    <3>5. QED
      BY <3>3, <3>4
  <2>3. CASE EscapeReturn
    <3>1. /\ key' = new_key /\ Utf8(new_key) /\ index' = 0 /\ new_key' = <<>> /\ pc' = "unescape"
          /\ UNCHANGED config
      BY <2>3 DEF EscapeReturn
    <3>2. 0 < Len(new_key) => new_key[0 + 1] \notin Continuation
      BY <2>1, <3>1, TextStarts
    <3>3. Utf8(<<>>) /\ <<>> \in Seq(Byte) /\ 0 \in 0 .. Len(new_key)
      BY <2>1 DEF Utf8
    <3>4. InSync(new_key, 0, <<>>)
      BY <2>1, <3>2, <3>3, WholeIsInSync
    <3>5. QED
      BY <3>1, <3>4 DEF SyncInv
  <2>4. CASE EscapePanic
    <3>1. /\ pc # "end" /\ UNCHANGED <<config, key>> /\ index = Len(key) /\ ~ Utf8(new_key)
          /\ pc' = "end"
      BY <2>4 DEF EscapePanic, Return
    <3>2. ~ Safe
      BY <2>1, <3>1, SyncAtChar
    <3>3. QED
      BY <2>1, <3>1, <3>2 DEF SyncInv
  <2>5. CASE UnescapeLiteral \/ UnescapeSpecifiedIncomplete
    <3>1. /\ pc # "end" /\ index < Len(key) /\ UNCHANGED <<pc, config, key>> /\ index' = index + 1
          /\ new_key' = new_key \o << key[index + 1] >>
      BY <2>1, <2>5 DEF UnescapeLiteral, UnescapeSpecifiedIncomplete, Consume, AtPercent
    <3>2. index \in 0 .. Len(key) - 1 /\ key[index + 1] \in Byte
      BY <2>1, <3>1
    <3>3. new_key' = Append(new_key, key[index + 1])
      BY <2>1, <3>1, <3>2
    <3>4. Safe => InSync(key, index + 1, new_key')
      BY <2>1, <3>1, <3>2, <3>3, CopyByte
    <3>5. QED
      BY <2>1, <3>1, <3>4 DEF SyncInv
  <2>6. CASE UnescapeHex \/ UnescapeSpecifiedInvalid
    <3>1. /\ pc # "end" /\ AtPercent /\ HasTwoMore /\ UNCHANGED <<pc, config, key>> /\ index' = index + 3
      BY <2>6 DEF UnescapeHex, UnescapeSpecifiedInvalid, Consume
    <3>2. index \in 0 .. Len(key) - 3
      BY <2>1, <3>1 DEF HasTwoMore
    <3>3. SUFFICES ASSUME Safe PROVE InSync(key, index + 3, new_key')
      BY <2>1, <3>1 DEF SyncInv
    <3>4. CASE new_key' = new_key \o Triple
      BY <2>1, <3>1, <3>2, <3>3, <3>4, CopyTriple DEF Triple
    <3>5. CASE UnescapeHex /\ Decoded \in chars /\ new_key' = new_key \o << Decoded >>
      <4>1. Decoded \in Ascii
        BY <3>3, <3>5
      <4>2. key[index + 1] \notin Continuation
        BY <3>1 DEF AtPercent, Percent, Continuation
      <4>3. Utf8(new_key)
        BY <2>1, <3>1, <3>3, <4>2, SyncAtChar
      <4>4. Utf8(new_key')
        BY <2>1, <3>5, <4>1, <4>3, AppendAscii
      <4>5. new_key' \in Seq(Byte)
        BY <2>1, <3>5, <4>1 DEF Ascii, Byte
      <4>6. index + 3 \in 1 .. Len(key) /\ key[index + 3] \in Ascii
        BY <2>1, <3>2, <3>5 DEF UnescapeHex, HexFollows, HexDigit, Digit, Ascii
      <4>7. QED
        BY <2>1, <4>4, <4>5, <4>6, ReplaceAscii
    <3>6. QED
      BY <2>6, <3>3, <3>4, <3>5 DEF UnescapeHex, UnescapeSpecifiedInvalid, Consume
  <2>7. CASE UnescapeInvalid
    BY <2>1, <2>7 DEF UnescapeInvalid, Return, SyncInv
  <2>8. CASE UnescapeReturn
    <3>1. /\ pc # "end" /\ UNCHANGED <<config, key>> /\ index = Len(key) /\ pc' = "end"
          /\ result' = FromUtf8(new_key)
      BY <2>8 DEF UnescapeReturn, Return
    <3>2. Safe => Utf8(new_key)
      BY <2>1, <3>1, SyncAtChar
    <3>3. Safe => IsOk(result')
      BY <3>1, <3>2 DEF FromUtf8, IsOk, OkText
    <3>4. QED
      BY <2>1, <3>1, <3>3 DEF SyncInv
  <2>9. CASE UNCHANGED vars
    BY <2>1, <2>9 DEF SyncInv
  <2>10. QED
    BY <2>2, <2>3, <2>4, <2>5, <2>6, <2>7, <2>8, <2>9 DEF Next
<1>3. SyncInv => AsciiCharsAreSafe
  BY DEF SyncInv, AsciiCharsAreSafe, Ascii
<1>4. QED
  BY <1>1, <1>2, <1>3, TypeCorrect, PTL DEF Spec
=============================================================================
