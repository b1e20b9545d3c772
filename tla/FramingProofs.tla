--------------------------- MODULE FramingProofs ---------------------------
(***************************************************************************)
(* Proofs that Builder and Parser frame segments, for all segments without *)
(* a '/', all limits and any number of pushes.                             *)
(***************************************************************************)
EXTENDS Framing, ParserLemmas

-----------------------------------------------------------------------------
(***************************************************************************)
(* Types and the budget                                                    *)
(***************************************************************************)

\* Each variable keeps its type through every call of the two components.
LEMMA TypeStep ==
  ASSUME TypeOK, [Next]_vars
  PROVE  TypeOK'
<1> USE UsizeMaxAssumption DEF TypeOK, BuilderTypeOK
<1>1. ASSUME NEW s \in Segments, Push(s)
      PROVE  TypeOK'
  <2>1. s \in Seq(Byte) /\ Slash \in Byte
    BY SegmentsAssumption DEF Slash, Byte
  <2>2. ParserTypeOK'
    BY <1>1 DEF Push, ParserTypeOK, parser
  <2>3. NextStart \in Nat
    BY DEF NextStart
  <2>4. accepted' \in Seq(Segments) /\ starts' \in Seq(Nat)
    <3>1. accepted \in Seq(Segments) /\ starts \in Seq(Nat)
      OBVIOUS
    <3>2. /\ Append(accepted, s) \in Seq(Segments)
          /\ Append(starts, NextStart) \in Seq(Nat)
      BY <2>3, <3>1, AppendProperties
    <3>3. \/ accepted' = Append(accepted, s) /\ starts' = Append(starts, NextStart)
          \/ accepted' = accepted /\ starts' = starts
      BY <1>1 DEF Push
    <3>4. QED
      BY <3>1, <3>2, <3>3
  <2>5. pushes' \in 0 .. MaxPushes /\ pc' = pc /\ ceiling' = ceiling /\ popped' = popped
    BY <1>1, MaxPushesAssumption DEF Push
  <2>6. BuilderTypeOK'
    <3>1. CASE PushAppends(s)
      <4>1. buf' \in Seq(Byte)
        <5>1. buf \in Seq(Byte) /\ Append(buf, Slash) \in Seq(Byte)
          BY <2>1
        <5>2. buf' = Append(buf, Slash) \o s \/ buf' = buf \o s
          BY <3>1 DEF PushAppends
        <5>3. QED
          BY <2>1, <5>1, <5>2, ConcatProperties
      <4>2. QED
        BY <3>1, <4>1 DEF PushAppends
    <3>2. CASE PushDropped
      BY <3>2 DEF PushDropped, builder
    <3>3. QED
      BY <1>1, <3>1, <3>2 DEF Push, PushRaw
  <2>7. QED
    BY <2>2, <2>4, <2>5, <2>6
<1>2. ASSUME NEW n \in Limits, Limit(n)
      PROVE  TypeOK'
  <2>1. n \in Nat
    BY LimitsAssumption
  <2>2. ParserTypeOK'
    BY <1>2 DEF Limit, ParserTypeOK, parser
  <2>3. QED
    BY <1>2, <2>1, <2>2 DEF Limit, LimitSegments
<1>3. CASE Done
  <2>1. ParserTypeOK'
    BY <1>3 DEF Done, ParserCreate, ParserTypeOK, NoCall, Err
  <2>2. QED
    BY <1>3, <2>1 DEF Done, builder, history
<1>4. CASE Read
  <2>1. CASE Exhausted
    <3>1. NoElement
      BY <1>4, <2>1 DEF Read, NextRaw, NextElement
    <3>2. QED
      BY <1>4, <2>1, <3>1, NoElementType DEF Read, builder
  <2>2. CASE ~ Exhausted
    <3>1. NextElement(OkText(Element)) /\ Outcome(OkText(Element))
      BY <1>4, <2>2 DEF Read, NextRaw, NoElement, Outcome, OkText
    <3>2. ParserTypeOK'
      BY <3>1, NextElementType
    <3>3. popped' \in Seq(Seq(Byte))
      BY <1>4, <2>2, ElementType DEF Read
    <3>4. QED
      BY <1>4, <3>2, <3>3 DEF Read, builder
  <2>3. QED
    BY <2>1, <2>2
<1>5. CASE Finish
  BY <1>5, ParserDoneType DEF Finish, builder, history
<1>6. CASE UNCHANGED vars
  BY <1>6 DEF vars, builder, parser, history, ParserTypeOK
<1>7. QED
  BY <1>1, <1>2, <1>3, <1>4, <1>5, <1>6 DEF Next

\* The type invariant holds in the beginning.
LEMMA TypeInit == Init => TypeOK
<1> SUFFICES ASSUME Init
             PROVE  TypeOK
  OBVIOUS
<1>1. BuilderTypeOK /\ accepted \in Seq(Segments) /\ starts \in Seq(Nat)
  <2>1. CASE BuilderNew /\ accepted = <<>> /\ starts = <<>>
    BY <2>1, UsizeMaxAssumption DEF BuilderNew, BuilderTypeOK
  <2>2. ASSUME NEW prefix \in Segments, BuilderNewPrefixed(prefix),
               accepted = <<prefix>>, starts = << 0 >>
        PROVE  BuilderTypeOK /\ accepted \in Seq(Segments) /\ starts \in Seq(Nat)
    <3>1. prefix \in Seq(Byte)
      BY SegmentsAssumption
    <3>2. accepted \in Seq(Segments) /\ starts \in Seq(Nat)
      BY <2>2
    <3>3. QED
      BY <2>2, <3>1, <3>2, UsizeMaxAssumption DEF BuilderNewPrefixed, BuilderTypeOK
  <2>3. QED
    BY <2>1, <2>2 DEF Init
<1>2. ParserTypeOK
  BY DEF Init, ParserNew, ParserTypeOK, NoCall, Err
<1>3. QED
  BY <1>1, <1>2, UsizeMaxAssumption, MaxPushesAssumption DEF Init, TypeOK

\* Type correctness.
THEOREM TypeCorrect == Spec => []TypeOK
<1>1. QED
  BY TypeInit, TypeStep, PTL DEF Spec

\* The budget and the count of segments always add up to the ceiling.
LEMMA CeilingInit == Init => WithinCeiling
<1> SUFFICES ASSUME Init
             PROVE  WithinCeiling
  OBVIOUS
<1>1. segments_written = Len(accepted) /\ segments_written + budget = UsizeMax
  <2>1. CASE BuilderNew /\ accepted = <<>>
    BY <2>1, UsizeMaxAssumption DEF BuilderNew
  <2>2. ASSUME NEW prefix \in Segments, BuilderNewPrefixed(prefix), accepted = <<prefix>>
        PROVE  segments_written = Len(accepted) /\ segments_written + budget = UsizeMax
    BY <2>2, UsizeMaxAssumption DEF BuilderNewPrefixed
  <2>3. QED
    BY <2>1, <2>2 DEF Init
<1>2. QED
  BY <1>1 DEF Init, WithinCeiling

\* No step pushes more segments than the ceiling.
LEMMA CeilingStep ==
  ASSUME TypeOK, WithinCeiling, [Next]_vars
  PROVE  WithinCeiling'
<1> USE DEF TypeOK, BuilderTypeOK, WithinCeiling
<1>1. ASSUME NEW s \in Segments, Push(s)
      PROVE  WithinCeiling'
  <2>1. CASE PushAppends(s)
    <3>1. budget > 0 /\ budget' = budget - 1 /\ segments_written' = segments_written + 1
      BY <2>1 DEF PushAppends
    <3>2. accepted' = Append(accepted, s) /\ ceiling' = ceiling
      BY <1>1, <3>1 DEF Push
    <3>3. Len(accepted') = Len(accepted) + 1
      BY <3>2, AppendProperties
    <3>4. segments_written \in Int /\ budget \in Int
      BY UsizeMaxAssumption
    <3>5. segments_written' + budget' = segments_written + budget
      BY <3>1, <3>4
    <3>6. QED
      BY <3>1, <3>2, <3>3, <3>5
  <2>2. CASE PushDropped
    BY <1>1, <2>2 DEF Push, PushDropped, builder
  <2>3. QED
    BY <1>1, <2>1, <2>2 DEF Push, PushRaw
<1>2. ASSUME NEW n \in Limits, Limit(n)
      PROVE  WithinCeiling'
  BY <1>2, LimitsAssumption DEF Limit, LimitSegments
<1>3. CASE Done
  BY <1>3 DEF Done, builder, history
<1>4. CASE Read
  BY <1>4 DEF Read, builder
<1>5. CASE Finish
  BY <1>5 DEF Finish, builder, history
<1>6. CASE UNCHANGED vars
  BY <1>6 DEF vars, builder, history
<1>7. QED
  BY <1>1, <1>2, <1>3, <1>4, <1>5, <1>6 DEF Next

\* No order of limits and pushes gets past the tightest limit.
THEOREM WithinCeilingCorrect == Spec => []WithinCeiling
<1>1. QED
  BY TypeCorrect, CeilingInit, CeilingStep, PTL DEF Spec

-----------------------------------------------------------------------------
(***************************************************************************)
(* The layout of the buffer                                                *)
(***************************************************************************)

\* The segments that a reader must find are texts without '/', at least one.
LEMMA WrittenShape ==
  ASSUME TypeOK, Len(starts) = Len(accepted)
  PROVE  /\ Written \in Seq(Seq(Byte))
         /\ Len(Written) \in Nat /\ Len(Written) >= 1
         /\ Starts \in Seq(Nat)
         /\ Len(Starts) = Len(Written)
         /\ \A k \in DOMAIN Written :
              /\ Written[k] \in Seq(Byte)
              /\ \A p \in DOMAIN Written[k] : Written[k][p] # Slash
<1>1. accepted \in Seq(Segments) /\ starts \in Seq(Nat)
  BY DEF TypeOK
<1>2. CASE accepted = <<>>
  <2>1. Written = << <<>> >> /\ Starts = << 0 >>
    BY <1>2 DEF Written, Starts
  <2>2. <<>> \in Seq(Byte) /\ 0 \in Nat
    OBVIOUS
  <2>3. DOMAIN Written = {1} /\ Written[1] = <<>>
    BY <2>1
  <2>4. Written \in Seq(Seq(Byte)) /\ Starts \in Seq(Nat)
    BY <2>1, <2>2
  <2>5. Len(Written) = 1 /\ Len(Starts) = 1
    BY <2>1
  <2>6. QED
    BY <2>3, <2>4, <2>5
<1>3. CASE accepted # <<>>
  <2>1. Written = accepted /\ Starts = starts
    BY <1>3 DEF Written, Starts
  <2>2. \A k \in DOMAIN accepted : accepted[k] \in Segments
    BY <1>1
  <2>3. Len(accepted) \in Nat /\ Len(accepted) >= 1
    BY <1>1, <1>3
  <2>4. accepted \in Seq(Seq(Byte))
    BY <1>1, <2>2, SegmentsAssumption, ElementOfSeq, SeqDef
  <2>5. \A k \in DOMAIN accepted : /\ accepted[k] \in Seq(Byte)
                                   /\ \A p \in DOMAIN accepted[k] : accepted[k][p] # Slash
    BY <2>2, SegmentsAssumption
  <2>6. QED
    BY <1>1, <2>1, <2>3, <2>4, <2>5
<1>4. QED
  BY <1>2, <1>3

\* Where a segment stops.
StopOf(k) == Starts[k] + Len(Written[k])

\* Appending a '/' and a segment appends one segment to the layout.
LEMMA LaidOutExtends ==
  ASSUME NEW text \in Seq(Byte), NEW segments \in Seq(Seq(Byte)), NEW offsets \in Seq(Nat),
         NEW s \in Seq(Byte), Len(segments) >= 1, LaidOut(text, segments, offsets)
  PROVE  LaidOut(Append(text, Slash) \o s, Append(segments, s), Append(offsets, Len(text) + 1))
<1> DEFINE n == Len(segments)
           text2 == Append(text, Slash) \o s
           segments2 == Append(segments, s)
           offsets2 == Append(offsets, Len(text) + 1)
<1>1. /\ n \in Nat /\ n >= 1 /\ Len(offsets) = n /\ Len(text) \in Nat
      /\ Slash \in Byte /\ Len(text) + 1 \in Nat
  BY DEF LaidOut, Slash, Byte
<1>2. /\ Len(text2) = Len(text) + 1 + Len(s)
      /\ \A j \in 1 .. Len(text) : text2[j] = text[j]
      /\ text2[Len(text) + 1] = Slash
      /\ \A p \in 1 .. Len(s) : text2[Len(text) + 1 + p] = s[p]
  BY <1>1
<1>3. /\ Len(segments2) = n + 1 /\ DOMAIN segments2 = 1 .. n + 1
      /\ \A k \in 1 .. n : segments2[k] = segments[k]
      /\ segments2[n + 1] = s
  BY AppendProperties
<1>4. /\ Len(offsets2) = n + 1
      /\ \A k \in 1 .. n : offsets2[k] = offsets[k]
      /\ offsets2[n + 1] = Len(text) + 1
  BY <1>1, AppendProperties
<1>5. \A k \in 1 .. n : /\ offsets[k] \in Nat
                        /\ segments[k] \in Seq(Byte)
                        /\ Len(segments[k]) \in Nat
                        /\ DOMAIN segments[k] = 1 .. Len(segments[k])
                        /\ offsets[k] + Len(segments[k]) <= Len(text)
  <2>1. TAKE k \in 1 .. n
  <2>2. offsets[k] \in Nat /\ k \in DOMAIN segments
    BY <1>1
  <2>3. segments[k] \in Seq(Byte)
    BY <2>2
  <2>4. offsets[k] + Len(segments[k]) <= Len(text)
    BY <2>2 DEF LaidOut
  <2>5. QED
    BY <2>2, <2>3, <2>4
<1>6. offsets[n] + Len(segments[n]) = Len(text) /\ offsets[1] = 0
  BY DEF LaidOut
<1> HIDE DEF text2, segments2, offsets2
<1>7. ASSUME NEW k \in 1 .. n + 1
      PROVE  /\ offsets2[k] + Len(segments2[k]) <= Len(text2)
             /\ \A p \in DOMAIN segments2[k] : text2[offsets2[k] + p] = segments2[k][p]
             /\ k > 1 => /\ offsets2[k] = offsets2[k - 1] + Len(segments2[k - 1]) + 1
                         /\ text2[offsets2[k]] = Slash
  <2>1. CASE k = n + 1
    <3>1. k - 1 = n /\ offsets2[n] = offsets[n] /\ segments2[n] = segments[n]
      BY <1>1, <1>3, <1>4, <2>1
    <3>2. offsets2[k] = Len(text) + 1 /\ segments2[k] = s
      BY <1>3, <1>4, <2>1
    <3>3. offsets2[k] + Len(segments2[k]) <= Len(text2)
      BY <1>1, <1>2, <3>2
    <3>4. DOMAIN segments2[k] = 1 .. Len(s)
      BY <3>2
    <3>5. \A p \in DOMAIN segments2[k] : text2[offsets2[k] + p] = segments2[k][p]
      BY <1>2, <3>2, <3>4
    <3>6. /\ offsets2[k] = offsets2[k - 1] + Len(segments2[k - 1]) + 1
          /\ text2[offsets2[k]] = Slash
      BY <1>1, <1>2, <1>6, <3>1, <3>2
    <3>7. QED
      BY <3>3, <3>5, <3>6
  <2>2. CASE k \in 1 .. n
    <3>1. offsets2[k] = offsets[k] /\ segments2[k] = segments[k]
      BY <1>3, <1>4, <2>2
    <3>2. /\ offsets[k] \in Nat /\ segments[k] \in Seq(Byte)
          /\ Len(segments[k]) \in Nat /\ DOMAIN segments[k] = 1 .. Len(segments[k])
          /\ offsets[k] + Len(segments[k]) <= Len(text)
      BY <1>5, <2>2
    <3> DEFINE o == offsets[k]
               l == Len(segments[k])
               m == Len(text)
    <3>3. /\ o \in Nat /\ l \in Nat /\ m \in Nat /\ o + l <= m
          /\ DOMAIN segments2[k] = 1 .. l
      BY <1>1, <3>1, <3>2
    <3>4. /\ \A p \in 1 .. l : text[o + p] = segments[k][p]
          /\ k > 1 => /\ o = offsets[k - 1] + Len(segments[k - 1]) + 1
                      /\ text[o] = Slash
      <4>1. k \in DOMAIN segments
        BY <1>1, <2>2
      <4>2. DOMAIN segments[k] = 1 .. l
        BY <3>2
      <4>3. QED
        BY <4>1, <4>2 DEF LaidOut
    <3>5. k > 1 => o >= 1
      <4>1. SUFFICES ASSUME k > 1 PROVE o >= 1
        OBVIOUS
      <4>2. k - 1 \in 1 .. n
        BY <1>1, <2>2, <4>1
      <4>3. offsets[k - 1] \in Nat /\ Len(segments[k - 1]) \in Nat
        BY <1>5, <4>2
      <4>4. QED
        BY <3>4, <4>1, <4>3
    <3> HIDE DEF l, m
    <3>6. \A p \in 1 .. l : o + p \in 1 .. m
      <4> HIDE DEF o
      <4>1. QED
        BY <3>3
    <3>7. k > 1 => o \in 1 .. m
      <4> HIDE DEF o
      <4>1. QED
        BY <3>3, <3>5
    <3>8. offsets2[k] + Len(segments2[k]) <= Len(text2)
      BY <1>1, <1>2, <3>1, <3>2
    <3>9. \A p \in DOMAIN segments2[k] : text2[offsets2[k] + p] = segments2[k][p]
      <4>1. \A p \in 1 .. l : text2[o + p] = text[o + p]
        BY <1>2, <3>6 DEF m
      <4>2. QED
        BY <3>1, <3>3, <3>4, <4>1
    <3>10. ASSUME k > 1
          PROVE  /\ offsets2[k] = offsets2[k - 1] + Len(segments2[k - 1]) + 1
                 /\ text2[offsets2[k]] = Slash
      <4>1. k - 1 \in 1 .. n
        BY <1>1, <2>2, <3>10
      <4>2. offsets2[k - 1] = offsets[k - 1] /\ segments2[k - 1] = segments[k - 1]
        BY <1>3, <1>4, <4>1
      <4>3. text2[o] = text[o]
        BY <1>2, <3>7, <3>10 DEF m
      <4>4. QED
        BY <3>1, <3>4, <3>10, <4>2, <4>3
    <3>11. QED
      BY <3>8, <3>9, <3>10
  <2>3. QED
    BY <1>1, <2>1, <2>2
<1>8. offsets2[1] = 0 /\ offsets2[n + 1] + Len(segments2[n + 1]) = Len(text2)
  BY <1>1, <1>2, <1>3, <1>4, <1>6
<1>9. LaidOut(text2, segments2, offsets2)
  BY <1>3, <1>4, <1>7, <1>8 DEF LaidOut
<1>10. QED
  BY <1>9 DEF text2, segments2, offsets2

\* A segment that is alone in the text.
LEMMA LaidOutAlone ==
  ASSUME NEW s \in Seq(Byte)
  PROVE  LaidOut(s, <<s>>, << 0 >>)
BY DEF LaidOut

\* The layout of the text holds in the beginning,
LEMMA LayoutInit == Init => Layout
<1> SUFFICES ASSUME Init
             PROVE  Layout
  OBVIOUS
<1>1. CASE BuilderNew /\ accepted = <<>> /\ starts = <<>>
  <2>1. Written = << <<>> >> /\ Starts = << 0 >> /\ buf = <<>>
    BY <1>1 DEF Written, Starts, BuilderNew
  <2>2. <<>> \in Seq(Byte) /\ Len(starts) = Len(accepted)
    BY <1>1
  <2>3. QED
    BY <2>1, <2>2, LaidOutAlone DEF Layout
<1>2. ASSUME NEW prefix \in Segments, BuilderNewPrefixed(prefix),
             accepted = <<prefix>>, starts = << 0 >>
      PROVE  Layout
  <2>1. prefix \in Seq(Byte)
    BY SegmentsAssumption
  <2>2. Written = <<prefix>> /\ Starts = << 0 >> /\ buf = prefix
    BY <1>2 DEF Written, Starts, BuilderNewPrefixed
  <2>3. Len(starts) = Len(accepted)
    BY <1>2
  <2>4. QED
    BY <2>1, <2>2, <2>3, LaidOutAlone DEF Layout
<1>3. QED
  BY <1>1, <1>2 DEF Init

\* A segment that finds room goes to the end of the buffer, and the ones that
\* are there stay where they are.
LEMMA LayoutPush ==
  ASSUME TypeOK, WithinCeiling, Layout, NEW s \in Segments, Push(s), PushAppends(s)
  PROVE  Layout'
<1>1. /\ s \in Seq(Byte) /\ buf \in Seq(Byte)
      /\ accepted \in Seq(Segments) /\ starts \in Seq(Nat)
      /\ Len(starts) = Len(accepted) /\ segments_written = Len(accepted)
  BY SegmentsAssumption DEF TypeOK, BuilderTypeOK, Layout, WithinCeiling
<1>2. /\ accepted' = Append(accepted, s)
      /\ starts' = Append(starts, NextStart)
      /\ buf' = (IF segments_written > 0 THEN Append(buf, Slash) ELSE buf) \o s
  BY DEF Push, PushAppends
<1>3. NextStart \in Nat
  BY <1>1 DEF NextStart
<1>4. accepted' # <<>> /\ Len(starts') = Len(accepted')
  <2>1. Append(accepted, s) # <<>> /\ Len(Append(accepted, s)) = Len(accepted) + 1
    BY <1>1, AppendProperties
  <2>2. Len(Append(starts, NextStart)) = Len(starts) + 1
    BY <1>1, <1>3, AppendProperties
  <2>3. QED
    BY <1>1, <1>2, <2>1, <2>2
<1>5. Written' = accepted' /\ Starts' = starts'
  BY <1>4 DEF Written, Starts
<1>6. CASE accepted = <<>>
  <2>1. segments_written = 0 /\ starts = <<>>
    BY <1>1, <1>6
  <2>2. Len(buf) = 0
    BY <1>6 DEF Layout, LaidOut, Written, Starts
  <2>3. buf' = s
    BY <1>1, <1>2, <2>1, <2>2
  <2>4. accepted' = <<s>> /\ starts' = << 0 >>
    BY <1>2, <1>6, <2>1, <2>2 DEF NextStart
  <2>5. QED
    BY <1>1, <1>4, <1>5, <2>3, <2>4, LaidOutAlone DEF Layout
<1>7. CASE accepted # <<>>
  <2>1. Len(accepted) \in Nat /\ Len(accepted) >= 1 /\ Written = accepted /\ Starts = starts
    BY <1>1, <1>7 DEF Written, Starts
  <2>2. segments_written > 0
    BY <1>1, <2>1
  <2>3. buf' = Append(buf, Slash) \o s /\ NextStart = Len(buf) + 1
    BY <1>2, <2>2 DEF NextStart
  <2>4. Written \in Seq(Seq(Byte))
    BY <1>1, WrittenShape
  <2>5. QED
    BY <1>1, <1>2, <1>4, <1>5, <2>1, <2>3, <2>4, LaidOutExtends DEF Layout
<1>8. QED
  BY <1>6, <1>7

-----------------------------------------------------------------------------
(***************************************************************************)
(* Reading                                                                 *)
(***************************************************************************)

\* The element that the iterator returns next is the first segment not yet
\* read, and there is none exactly when all were read.
LEMMA NextUnread ==
  ASSUME TypeOK, FramingInv, pc = "parse"
  PROVE  /\ Exhausted <=> Len(popped) = Len(Written)
         /\ ~ Exhausted => LET k == Len(popped) + 1
                           IN  /\ k \in DOMAIN Written
                               /\ at = Starts[k]
                               /\ ElementEnd(at) = StopOf(k)
                               /\ Element = Written[k]
<1>1. /\ str_key = buf /\ buf \in Seq(Byte) /\ Len(buf) \in Nat
      /\ popped \in Seq(Seq(Byte)) /\ Len(popped) \in Nat
      /\ Len(popped) <= Len(Written)
      /\ LaidOut(buf, Written, Starts) /\ Len(starts) = Len(accepted)
  BY DEF TypeOK, BuilderTypeOK, FramingInv, Reading, Layout
<1>2. /\ Written \in Seq(Seq(Byte)) /\ Len(Written) \in Nat /\ Len(Written) >= 1
      /\ Starts \in Seq(Nat) /\ Len(Starts) = Len(Written)
      /\ \A k \in DOMAIN Written : /\ Written[k] \in Seq(Byte)
                                   /\ \A p \in DOMAIN Written[k] : Written[k][p] # Slash
  BY <1>1, WrittenShape
<1>3. CASE Len(popped) = Len(Written)
  <2>1. at = Len(buf) + 1
    BY <1>3 DEF FramingInv, Reading
  <2>2. QED
    BY <1>1, <1>3, <2>1 DEF Exhausted
<1>4. CASE Len(popped) # Len(Written)
  <2> DEFINE k == Len(popped) + 1
             o == Starts[k]
             l == Len(Written[k])
             stop == o + l
  <2>1. k \in 1 .. Len(Written) /\ k \in DOMAIN Written /\ k \in DOMAIN Starts
    BY <1>1, <1>2, <1>4
  <2>2. at = o
    BY <1>4 DEF FramingInv, Reading
  <2>3. o \in Nat /\ l \in Nat /\ DOMAIN Written[k] = 1 .. l /\ Written[k] \in Seq(Byte)
    BY <1>2, <2>1
  <2>4. stop <= Len(buf) /\ \A p \in 1 .. l : buf[o + p] = Written[k][p] /\ Written[k][p] # Slash
    BY <1>1, <1>2, <2>1, <2>3 DEF LaidOut
  <2>5. stop \in Nat /\ stop \in o .. Len(buf)
    <3> HIDE DEF o, l
    <3>1. QED
      BY <1>1, <2>3, <2>4
  <2>6. IsEnd(stop)
    <3>1. CASE k = Len(Written)
      BY <1>1, <3>1 DEF LaidOut, IsEnd
    <3>2. CASE k # Len(Written)
      <4>1. k + 1 \in DOMAIN Written /\ k + 1 > 1 /\ (k + 1) - 1 = k
        BY <1>1, <1>2, <2>1, <3>2
      <4>2. Starts[k + 1] = stop + 1 /\ buf[Starts[k + 1]] = Slash
        BY <1>1, <4>1 DEF LaidOut
      <4>3. QED
        BY <1>1, <4>2 DEF IsEnd
    <3>3. QED
      BY <3>1, <3>2
  <2>7. ASSUME NEW q \in o .. stop - 1
        PROVE  ~ IsEnd(q)
    <3> HIDE DEF o, l, k
    <3>1. q \in Int /\ q + 1 - o \in 1 .. l /\ o + (q + 1 - o) = q + 1 /\ q < Len(buf)
      BY <1>1, <2>3, <2>4
    <3>2. buf[q + 1] # Slash
      BY <2>4, <3>1
    <3>3. QED
      BY <1>1, <3>1, <3>2 DEF IsEnd
  <2>8. ElementEnd(at) = stop
    <3>1. EndsFirst(o, stop)
      BY <1>1, <2>5, <2>6, <2>7 DEF EndsFirst
    <3>2. str_key \in Seq(Byte)
      BY <1>1
    <3> HIDE DEF o, stop
    <3>3. QED
      BY <2>2, <2>3, <2>5, <3>1, <3>2, ElementEndIs
  <2>9. Element = Written[k]
    <3>1. Element = SubSeq(buf, o + 1, stop)
      BY <1>1, <2>2, <2>8 DEF Element
    <3>2. Len(SubSeq(buf, o + 1, stop)) = l
      <4> HIDE DEF o, l
      <4>1. QED
        BY <1>1, <2>3, <2>4
    <3>3. \A p \in 1 .. l : SubSeq(buf, o + 1, stop)[p] = Written[k][p]
      <4> HIDE DEF o, l, k
      <4>1. QED
        BY <1>1, <2>3, <2>4
    <3>4. SubSeq(buf, o + 1, stop) \in Seq(Byte)
      <4> HIDE DEF o, l, k
      <4>1. QED
        BY <1>1, <2>3, <2>4
    <3> HIDE DEF k, o, stop
    <3>5. QED
      BY <2>3, <3>1, <3>2, <3>3, <3>4, SeqEqual DEF l
  <2>10. ~ Exhausted
    <3> HIDE DEF o, l
    <3>1. QED
      BY <1>1, <2>2, <2>3, <2>5 DEF Exhausted
  <2>11. QED
    BY <1>4, <2>1, <2>2, <2>8, <2>9, <2>10 DEF StopOf
<1>5. QED
  BY <1>3, <1>4

\* and so does the parser's place in it.
LEMMA ReadingInit == Init => Reading
<1> SUFFICES ASSUME Init
             PROVE  Reading
  OBVIOUS
<1>1. Len(starts) = Len(accepted)
  BY DEF Init
<1>2. popped = <<>> /\ pc = "build"
  BY DEF Init
<1>3. Len(Written) >= 0
  BY <1>1, TypeInit, WrittenShape
<1>4. QED
  BY <1>2, <1>3 DEF Reading

\* A step keeps the layout and the parser's place.
LEMMA FramingInvStep ==
  ASSUME TypeOK, WithinCeiling, FramingInv, [Next]_vars
  PROVE  FramingInv'
<1>1. TypeOK'
  BY TypeStep
\* Before done() nothing is read, and the layout is all there is to show.
<1>2. ASSUME Layout', pc' = "build", popped' = <<>>
      PROVE  FramingInv'
  <2>1. Len(Written') \in Nat
    <3>1. accepted' \in Seq(Segments)
      BY <1>1 DEF TypeOK
    <3>2. Written' = << <<>> >> \/ Written' = accepted'
      BY DEF Written
    <3>3. QED
      BY <3>1, <3>2
  <2>2. Len(popped') = 0 /\ DOMAIN popped' = {}
    BY <1>2
  <2>3. QED
    BY <1>2, <2>1, <2>2 DEF FramingInv, Reading
<1>3. ASSUME NEW s \in Segments, Push(s)
      PROVE  FramingInv'
  <2>1. pc' = "build" /\ popped' = <<>>
    BY <1>3 DEF Push, FramingInv, Reading
  <2>2. CASE PushAppends(s)
    BY <1>2, <1>3, <2>1, <2>2, LayoutPush DEF FramingInv
  <2>3. CASE PushDropped
    <3>1. UNCHANGED <<buf, starts, accepted>>
      BY <1>3, <2>3 DEF Push, PushDropped, builder
    <3>2. Layout'
      BY <3>1 DEF FramingInv, Layout, Written, Starts
    <3>3. QED
      BY <1>2, <2>1, <3>2
  <2>4. QED
    BY <1>3, <2>2, <2>3 DEF Push, PushRaw
<1>4. ASSUME NEW n \in Limits, Limit(n)
      PROVE  FramingInv'
  <2>1. pc' = "build" /\ popped' = <<>> /\ UNCHANGED <<buf, starts, accepted>>
    BY <1>4 DEF Limit, LimitSegments, FramingInv, Reading
  <2>2. Layout'
    BY <2>1 DEF FramingInv, Layout, Written, Starts
  <2>3. QED
    BY <1>2, <2>1, <2>2
<1>5. ASSUME UNCHANGED <<buf, starts, accepted>>
      PROVE  UNCHANGED <<Written, Starts>> /\ Layout'
  BY <1>5 DEF FramingInv, Layout, Written, Starts
<1>6. /\ Len(Written) \in Nat /\ Len(Written) >= 1
      /\ Written \in Seq(Seq(Byte)) /\ popped \in Seq(Seq(Byte))
      /\ LaidOut(buf, Written, Starts)
  BY WrittenShape DEF TypeOK, FramingInv, Layout
<1>7. CASE Done
  <2>1. /\ UNCHANGED <<buf, starts, accepted, popped>> /\ pc' = "parse" /\ popped = <<>>
        /\ str_key' = buf /\ at' = 0
    BY <1>7 DEF Done, ParserCreate, builder, history, FramingInv, Reading
  <2>2. Starts[1] = 0 /\ Len(popped) = 0 /\ DOMAIN popped = {}
    BY <1>6, <2>1 DEF LaidOut
  <2>3. QED
    BY <1>5, <1>6, <2>1, <2>2 DEF FramingInv, Reading
<1>8. CASE Read
  <2>1. pc = "parse" /\ pc' = "parse" /\ UNCHANGED <<buf, starts, accepted>>
    BY <1>8 DEF Read, builder
  <2>2. CASE Exhausted
    <3>1. popped' = popped /\ at' = at /\ str_key' = str_key
      BY <1>8, <2>2 DEF Read, NextRaw, NextElement, NoElement
    <3>2. QED
      BY <1>5, <2>1, <3>1 DEF FramingInv, Reading
  <2>3. CASE ~ Exhausted
    <3> DEFINE k == Len(popped) + 1
    <3>1. k \in DOMAIN Written /\ ElementEnd(at) = StopOf(k) /\ Element = Written[k]
      BY <2>1, <2>3, NextUnread
    <3>2. /\ popped' = Append(popped, Element)
          /\ at' = ElementEnd(at) + 1 /\ str_key' = str_key
      BY <1>8, <2>3 DEF Read, NextRaw, NextElement, NoElement
    <3>3. Len(popped') = k /\ \A j \in 1 .. k : popped'[j] = Written[j]
      <4>1. Element \in Seq(Byte) /\ Len(popped) \in Nat
        BY <1>6, <3>1
      <4>2. /\ Len(popped') = Len(popped) + 1
            /\ \A j \in 1 .. Len(popped) : popped'[j] = popped[j]
            /\ popped'[Len(popped) + 1] = Element
        BY <1>6, <3>2, <4>1, AppendProperties
      <4>3. \A j \in 1 .. Len(popped) : popped[j] = Written[j]
        BY <1>6 DEF FramingInv, Reading
      <4>4. QED
        BY <3>1, <4>1, <4>2, <4>3
    <3>4. k \in Nat /\ k <= Len(Written) /\ DOMAIN popped' = 1 .. k
      <4>1. popped' \in Seq(Seq(Byte))
        BY <1>1 DEF TypeOK
      <4>2. QED
        BY <1>6, <3>1, <3>3, <4>1
    <3>5. at' = IF k = Len(Written) THEN Len(buf) + 1 ELSE Starts[k + 1]
      <4>1. CASE k = Len(Written)
        BY <1>6, <3>1, <3>2, <4>1 DEF LaidOut, StopOf
      <4>2. CASE k # Len(Written)
        <5>1. k + 1 \in DOMAIN Written /\ k + 1 > 1 /\ (k + 1) - 1 = k
          BY <1>6, <3>4, <4>2
        <5>2. QED
          BY <1>6, <3>1, <3>2, <4>2, <5>1 DEF LaidOut, StopOf
      <4>3. QED
        BY <4>1, <4>2
    <3>6. str_key' = buf'
      BY <2>1, <3>2 DEF FramingInv, Reading
    <3> HIDE DEF k
    <3>7. QED
      BY <1>5, <2>1, <3>3, <3>4, <3>5, <3>6 DEF FramingInv, Reading
  <2>4. QED
    BY <2>2, <2>3
<1>9. CASE Finish
  <2>1. UNCHANGED <<buf, starts, accepted, popped>> /\ pc' = "end"
    BY <1>9 DEF Finish, builder, history
  <2>2. QED
    BY <1>5, <2>1 DEF FramingInv, Reading
<1>10. CASE UNCHANGED vars
  <2>1. UNCHANGED <<buf, starts, accepted, popped, pc, str_key, at>>
    BY <1>10 DEF vars, builder, parser, history
  <2>2. QED
    BY <1>5, <2>1 DEF FramingInv, Reading
<1>11. QED
  BY <1>3, <1>4, <1>7, <1>8, <1>9, <1>10 DEF Next

\* The inductive invariant: segments are laid out in order in the buffer, and
\* the iterator stands at the first one not yet read.
THEOREM FramingInvCorrect == Spec => []FramingInv
<1>1. Init => FramingInv
  BY LayoutInit, ReadingInit DEF FramingInv
<1>2. QED
  BY <1>1, TypeCorrect, WithinCeilingCorrect, FramingInvStep, PTL DEF Spec

\* next_raw() gives the segments back in order.
THEOREM ReadsBackCorrect == Spec => []ReadsBack
<1>1. TypeOK /\ FramingInv => ReadsBack
  <2> SUFFICES ASSUME TypeOK, FramingInv
               PROVE  ReadsBack
    OBVIOUS
  <2>1. /\ popped \in Seq(Seq(Byte)) /\ Written \in Seq(Seq(Byte))
        /\ Len(popped) \in Nat /\ Len(Written) \in Nat
        /\ Len(popped) <= Len(Written)
        /\ \A k \in 1 .. Len(popped) : popped[k] = Written[k]
    BY WrittenShape DEF TypeOK, FramingInv, Layout, Reading
  <2>2. SubSeq(popped, 1, Len(popped)) = SubSeq(Written, 1, Len(popped))
    BY <2>1
  <2>3. QED
    BY <2>1, <2>2 DEF ReadsBack, IsPrefix
<1>2. QED
  BY <1>1, TypeCorrect, FramingInvCorrect, PTL

\* done() accepts exactly when every segment was read: its answer is given at
\* the end of the text, and the end is reached with the last segment.
LEMMA DoneStep ==
  ASSUME TypeOK, FramingInv, DoneIsExact, [Next]_vars
  PROVE  DoneIsExact'
<1>1. CASE Finish
  <2>1. /\ pc = "parse" /\ ParserDone /\ UNCHANGED <<popped, accepted>>
    BY <1>1 DEF Finish, history
  <2>2. Exhausted <=> Len(popped) = Len(Written)
    BY <2>1, NextUnread
  <2>3. Len(popped) = Len(Written) <=> popped = Written
    <3>1. popped \in Seq(Seq(Byte)) /\ Written \in Seq(Seq(Byte))
      BY WrittenShape DEF TypeOK, FramingInv, Layout
    <3>2. DOMAIN popped = 1 .. Len(popped)
      BY <3>1
    <3>3. \A k \in 1 .. Len(popped) : popped[k] = Written[k]
      BY <3>2 DEF FramingInv, Reading
    <3>4. QED
      BY <3>1, <3>3, SeqEqual
  <2>4. IsOk(ret') <=> Exhausted
    BY <2>1 DEF ParserDone, IsOk, OkUnit, WrongNumberOfSegments
  <2>5. Written' = Written /\ popped' = popped
    BY <2>1 DEF Written
  <2>6. QED
    BY <2>2, <2>3, <2>4, <2>5 DEF DoneIsExact
<1>2. CASE UNCHANGED vars
  BY <1>2 DEF vars, history, parser, DoneIsExact, Written
<1>3. CASE pc' # "end"
  BY <1>3 DEF DoneIsExact
<1>4. QED
  BY <1>1, <1>2, <1>3 DEF Next, Push, Limit, Done, Read

\* done() succeeds exactly when every segment that was written has been read
\* (parser.rs, Parser::done).
THEOREM DoneIsExactCorrect == Spec => []DoneIsExact
<1>1. Init => DoneIsExact
  BY DEF Init, DoneIsExact
<1>2. QED
  BY <1>1, DoneStep, TypeCorrect, FramingInvCorrect, PTL DEF Spec

-----------------------------------------------------------------------------
(***************************************************************************)
(* Refinement                                                              *)
(***************************************************************************)

LEMMA QueueInit == Init => Queue!Init
<1> SUFFICES ASSUME Init
             PROVE  Queue!Init
  OBVIOUS
<1>1. \/ accepted = <<>> /\ budget = UsizeMax
      \/ \E s \in Segments : accepted = <<s>> /\ budget = UsizeMax - 1
  BY DEF Init, BuilderNew, BuilderNewPrefixed
<1>2. pc = "build" /\ popped = <<>>
  BY DEF Init
<1>3. QED
  BY <1>1, <1>2 DEF Queue!Init

\* Every call is one step of the queue, or none that it can see.
LEMMA QueueStep ==
  ASSUME TypeOK, FramingInv, DoneIsExact', [Next]_vars
  PROVE  [Queue!Next]_Queue!vars
<1> USE DEF Queue!vars
<1>1. ASSUME NEW s \in Segments, Push(s)
      PROVE  [Queue!Next]_Queue!vars
  <2>1. pc = "build" /\ pc' = "build" /\ popped' = popped
    BY <1>1 DEF Push
  <2>2. CASE PushAppends(s)
    <3>1. budget > 0 /\ budget' = budget - 1 /\ accepted' = Append(accepted, s)
      BY <1>1, <2>2 DEF Push, PushAppends
    <3>2. Queue!Put(s)
      BY <2>1, <3>1 DEF Queue!Put
    <3>3. QED
      BY <3>2 DEF Queue!Next
  <2>3. CASE PushDropped
    <3>1. budget' = budget /\ accepted' = accepted
      BY <1>1, <2>3 DEF Push, PushDropped, builder
    <3>2. QED
      BY <2>1, <3>1
  <2>4. QED
    BY <1>1, <2>2, <2>3 DEF Push, PushRaw
<1>2. ASSUME NEW n \in Limits, Limit(n)
      PROVE  [Queue!Next]_Queue!vars
  <2>1. pc = "build" /\ UNCHANGED <<pc, accepted, popped>>
    BY <1>2 DEF Limit
  <2>2. CASE n < budget
    <3>1. budget' = n /\ n \in 0 .. budget - 1
      BY <1>2, <2>2, LimitsAssumption, UsizeMaxAssumption
         DEF Limit, LimitSegments, TypeOK, BuilderTypeOK
    <3>2. Queue!Cap(n)
      BY <2>1, <3>1 DEF Queue!Cap
    <3>3. QED
      BY <3>1, <3>2 DEF Queue!Next
  <2>3. CASE ~ (n < budget)
    <3>1. budget' = budget
      BY <1>2, <2>3 DEF Limit, LimitSegments
    <3>2. QED
      BY <2>1, <3>1
  <2>4. QED
    BY <2>2, <2>3
<1>3. CASE Done
  <2>1. pc = "build" /\ pc' = "parse" /\ UNCHANGED <<budget, accepted, popped>>
    BY <1>3 DEF Done, builder, history
  <2>2. Queue!Close
    BY <2>1 DEF Queue!Close, Written
  <2>3. QED
    BY <2>2 DEF Queue!Next
<1>4. CASE Read
  <2>1. pc = "parse" /\ pc' = "parse" /\ UNCHANGED <<budget, accepted>>
    BY <1>4 DEF Read, builder
  <2>2. Written' = Written
    BY <2>1 DEF Written
  <2>3. CASE Exhausted
    <3>1. popped' = popped
      BY <1>4, <2>3 DEF Read
    <3>2. QED
      BY <2>1, <2>2, <3>1
  <2>4. CASE ~ Exhausted
    <3>1. /\ Len(popped) + 1 \in DOMAIN Written
          /\ popped' = Append(popped, Written[Len(popped) + 1])
      BY <1>4, <2>1, <2>4, NextUnread DEF Read
    <3>2. Len(popped) < Len(Written)
      BY <3>1, WrittenShape DEF TypeOK, FramingInv, Layout
    <3>3. Queue!Take
      BY <2>1, <2>2, <3>1, <3>2 DEF Queue!Take
    <3>4. QED
      BY <3>3 DEF Queue!Next
  <2>5. QED
    BY <2>3, <2>4
<1>5. CASE Finish
  <2>1. pc = "parse" /\ pc' = "end" /\ UNCHANGED <<budget, accepted, popped>>
    BY <1>5 DEF Finish, builder, history
  <2>2. Written' = Written
    BY <2>1 DEF Written
  <2>3. IsOk(ret') <=> popped = Written
    BY <2>1, <2>2 DEF DoneIsExact
  <2>4. Queue!Finish
    BY <2>1, <2>2, <2>3 DEF Queue!Finish
  <2>5. QED
    BY <2>4 DEF Queue!Next
<1>6. CASE UNCHANGED vars
  BY <1>6 DEF vars, builder, parser, history, Written
<1>7. QED
  BY <1>1, <1>2, <1>3, <1>4, <1>5, <1>6 DEF Next

\* Builder and Parser implement the queue of segments.
THEOREM Implements == Spec => ImplementsQueue
<1>1. QED
  BY QueueInit, QueueStep, TypeCorrect, FramingInvCorrect, DoneIsExactCorrect, PTL
     DEF Spec, ImplementsQueue, Queue!Spec
=============================================================================
