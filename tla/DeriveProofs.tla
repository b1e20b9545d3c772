---------------------------- MODULE DeriveProofs ----------------------------
(***************************************************************************)
(* Proofs about derived Codecs, for all declarations: when the Codecs of   *)
(* the fields take back what they wrote, the generated one does.           *)
(***************************************************************************)
EXTENDS Derive, HelperLemmas

-----------------------------------------------------------------------------
(***************************************************************************)
(* The generated code fits the part that it is generated for.              *)
(***************************************************************************)
\* The fields of a part have names of their own.
LEMMA MemberInjective ==
  ASSUME NEW part, IsPart(part), NEW i \in DOMAIN part.fields, NEW j \in DOMAIN part.fields,
         Member(part, i) = Member(part, j)
  PROVE  i = j
<1>1. CASE part.shape = "tuple"
  <2>1. Member(part, i) = <<"", i>> /\ Member(part, j) = <<"", j>>
    BY <1>1 DEF Member
  <2>2. <<"", i>>[2] = i /\ <<"", j>>[2] = j
    OBVIOUS
  <2>3. QED
    BY <2>1, <2>2
<1>2. CASE part.shape # "tuple"
  <2>1. <<part.fields[i].ident>> = <<part.fields[j].ident>>
    BY <1>2 DEF Member, Ident
  <2>2. CASE part.shape = "named"
    BY <2>1, <2>2 DEF IsPart
  <2>3. CASE part.shape = "unit"
    BY <2>3 DEF IsPart
  <2>4. QED
    BY <1>2, <2>2, <2>3 DEF IsPart
<1>3. QED
  BY <1>1, <1>2

\* A field's position counts the fields up to it.
LEMMA PositionIs ==
  ASSUME NEW part, IsPart(part), NEW i \in DOMAIN part.fields
  PROVE  Position(part, Member(part, i)) = i
<1>1. \A j \in DOMAIN part.fields : Member(part, j) = Member(part, i) => j = i
  BY MemberInjective
<1>2. QED
  BY <1>1 DEF Position

\* The marker fields are those that have no segment.
LEMMA MarkersAre ==
  ASSUME NEW part, IsPart(part), NEW i \in DOMAIN part.fields
  PROVE  Member(part, i) \in Markers(part) <=> i \notin Active(part)
BY MemberInjective DEF Markers, Members, ActiveMembers, Active

\* Encoding and decoding run over the same fields, under names that reach each
\* of them and no other.
CodeFits(part, code) ==
  /\ DOMAIN code.encode = Active(part)
  /\ DOMAIN code.decode = Active(part)
  /\ code.markers = Markers(part)
  /\ code.count = code.encode
  /\ \A i \in Active(part) :
       /\ Member(part, i) \in DOMAIN code.scope
       /\ code.decode[i].into = Member(part, i)
       /\ code.decode[i].raw = IsRaw(part.fields[i])
       /\ code.encode[i].raw = IsRaw(part.fields[i])
       /\ \A m \in DOMAIN code.scope :
            code.scope[m] = code.encode[i].of <=> m = Member(part, i)

\* The names made up for the fields of a tuple differ.
LEMMA SynthNameInjective ==
  ASSUME NEW i, NEW j, SynthName(i) = SynthName(j)
  PROVE  i = j
BY DEF SynthName

\* The code generated for a struct handles its fields in order,
LEMMA StructFits ==
  ASSUME NEW part, IsPart(part)
  PROVE  CodeFits(part, StructCode(part))
<1>1. \A i \in Active(part) : Member(part, i) \in Members(part)
  BY DEF Active, Members
<1>2. QED
  BY <1>1 DEF CodeFits, StructCode, SelfReceivers, DecodeLets

\* and so does the arm of a variant with named fields,
LEMMA NamedFits ==
  ASSUME NEW part, IsPart(part), NEW tag
  PROVE  CodeFits(part, NamedArm(part, tag))
<1> DEFINE code == NamedArm(part, tag)
<1>1. /\ DOMAIN code.encode = Active(part) /\ DOMAIN code.decode = Active(part)
      /\ code.markers = Markers(part)
      /\ \A i \in Active(part) :
           /\ code.decode[i].into = Member(part, i)
           /\ code.decode[i].raw = IsRaw(part.fields[i])
           /\ code.encode[i].of = SynthName(i)
           /\ code.encode[i].raw = IsRaw(part.fields[i])
      /\ DOMAIN code.scope = ActiveMembers(part)
      /\ code.count = code.encode
  BY DEF NamedArm, ActiveReceivers, DecodeAssigns, Bindings
<1>2. \A m \in ActiveMembers(part) : code.scope[m] = SynthName(Position(part, m))
  BY DEF NamedArm, Bindings
<1> HIDE DEF code
<1>3. ASSUME NEW i \in Active(part), NEW m \in DOMAIN code.scope
      PROVE  code.scope[m] = code.encode[i].of <=> m = Member(part, i)
  <2>1. PICK j \in Active(part) : m = Member(part, j)
    BY <1>1 DEF ActiveMembers
  <2>2. i \in DOMAIN part.fields /\ j \in DOMAIN part.fields
    BY DEF Active
  <2>3. code.scope[m] = SynthName(j) /\ code.encode[i].of = SynthName(i)
    BY <1>1, <1>2, <2>1, <2>2, PositionIs
  <2>4. m = Member(part, i) => i = j
    BY <2>1, <2>2, MemberInjective
  <2>5. QED
    BY <2>1, <2>3, <2>4, SynthNameInjective
<1>4. \A i \in Active(part) : Member(part, i) \in DOMAIN code.scope
  BY <1>1 DEF ActiveMembers
<1>5. CodeFits(part, code)
  BY <1>1, <1>3, <1>4 DEF CodeFits
<1>6. QED
  BY <1>5 DEF code

\* of one with unnamed fields,
LEMMA TupleFits ==
  ASSUME NEW part, IsPart(part), part.shape = "tuple", NEW tag
  PROVE  CodeFits(part, TupleArm(part, tag))
<1> DEFINE code == TupleArm(part, tag)
<1>1. /\ DOMAIN code.encode = Active(part) /\ DOMAIN code.decode = Active(part)
      /\ code.markers = Markers(part)
      /\ \A i \in Active(part) :
           /\ code.decode[i].into = Member(part, i)
           /\ code.decode[i].raw = IsRaw(part.fields[i])
           /\ code.encode[i].of = SynthName(i)
           /\ code.encode[i].raw = IsRaw(part.fields[i])
      /\ DOMAIN code.scope = ActiveMembers(part)
      /\ code.count = code.encode
  BY DEF TupleArm, ActiveReceivers, DecodeCalls, Member
<1>2. \A m \in ActiveMembers(part) : code.scope[m] = SynthName(m[2])
  BY DEF TupleArm
<1> HIDE DEF code
<1>3. ASSUME NEW i \in Active(part), NEW m \in DOMAIN code.scope
      PROVE  code.scope[m] = code.encode[i].of <=> m = Member(part, i)
  <2>1. PICK j \in Active(part) : m = Member(part, j)
    BY <1>1 DEF ActiveMembers
  <2>2. m = <<"", j>> /\ m[2] = j
    BY <2>1 DEF Member
  <2>3. code.scope[m] = SynthName(j) /\ code.encode[i].of = SynthName(i)
    BY <1>1, <1>2, <2>2
  <2>4. m = Member(part, i) <=> i = j
    BY <2>2 DEF Member
  <2>5. QED
    BY <2>3, <2>4, SynthNameInjective
<1>4. \A i \in Active(part) : Member(part, i) \in DOMAIN code.scope
  BY <1>1 DEF ActiveMembers
<1>5. CodeFits(part, code)
  BY <1>1, <1>3, <1>4 DEF CodeFits
<1>6. QED
  BY <1>5 DEF code

\* of one without fields,
LEMMA UnitFits ==
  ASSUME NEW part, IsPart(part), part.shape = "unit", NEW tag
  PROVE  CodeFits(part, UnitArm(tag))
<1>1. part.fields = <<>>
  BY DEF IsPart, IsList
<1>2. Active(part) = {} /\ Markers(part) = {}
  BY <1>1 DEF Active, Markers, Members
<1>3. QED
  BY <1>2 DEF CodeFits, UnitArm

\* and so of every variant, under its tag.
LEMMA ArmFits ==
  ASSUME NEW part, IsPart(part), NEW tag
  PROVE  CodeFits(part, Arm(part, tag)) /\ Arm(part, tag).tag = tag
<1>1. CASE part.shape = "named"
  <2>1. Arm(part, tag) = NamedArm(part, tag)
    BY <1>1, Zenon DEF Arm
  <2>2. QED
    BY <2>1, NamedFits DEF NamedArm
<1>2. CASE part.shape = "tuple"
  <2>1. Arm(part, tag) = TupleArm(part, tag)
    BY <1>2, Zenon DEF Arm
  <2>2. QED
    BY <1>2, <2>1, TupleFits DEF TupleArm
<1>3. CASE part.shape = "unit"
  <2>1. Arm(part, tag) = UnitArm(tag)
    BY <1>3, Zenon DEF Arm
  <2>2. QED
    BY <1>3, <2>1, UnitFits DEF UnitArm
<1>4. QED
  BY <1>1, <1>2, <1>3 DEF IsPart

\* A variant's fields are decoded in its constructor, not with `let`.
LEMMA ArmHasNoLets ==
  ASSUME NEW part, IsPart(part), NEW tag
  PROVE  ~ Arm(part, tag).lets
<1>1. ~ NamedArm(part, tag).lets /\ ~ TupleArm(part, tag).lets /\ ~ UnitArm(tag).lets
  BY DEF NamedArm, TupleArm, UnitArm
<1>2. CASE part.shape = "named"
  <2>1. Arm(part, tag) = NamedArm(part, tag)
    BY <1>2, Zenon DEF Arm
  <2>2. QED
    BY <1>1, <2>1
<1>3. CASE part.shape = "tuple"
  <2>1. Arm(part, tag) = TupleArm(part, tag)
    BY <1>3, Zenon DEF Arm
  <2>2. QED
    BY <1>1, <2>1
<1>4. CASE part.shape = "unit"
  <2>1. Arm(part, tag) = UnitArm(tag)
    BY <1>4, Zenon DEF Arm
  <2>2. QED
    BY <1>1, <2>1
<1>5. QED
  BY <1>2, <1>3, <1>4 DEF IsPart

\* When the code compiles, every field that it encodes has a Codec for how it
\* is written, and every field that it leaves out is a PhantomData.
LEMMA TypedFields ==
  ASSUME NEW part, IsPart(part), NEW code, CodeFits(part, code), WellTyped(part, code)
  PROVE  /\ \A i \in Active(part) : Accepts(part.fields[i].sort, IsRaw(part.fields[i]))
         /\ \A j \in DOMAIN part.fields \ Active(part) : part.fields[j].sort = "marker"
<1>1. ASSUME NEW i \in Active(part)
      PROVE  Accepts(part.fields[i].sort, IsRaw(part.fields[i]))
  <2>1. PICK j \in DOMAIN part.fields :
          /\ Member(part, j) = code.decode[i].into
          /\ Accepts(part.fields[j].sort, code.decode[i].raw)
    BY DEF WellTyped, DecodeTypes, CodeFits
  <2>2. i \in DOMAIN part.fields
    BY DEF Active
  <2>3. code.decode[i].into = Member(part, i) /\ code.decode[i].raw = IsRaw(part.fields[i])
    BY DEF CodeFits
  <2>4. j = i
    BY <2>1, <2>2, <2>3, MemberInjective
  <2>5. QED
    BY <2>1, <2>4, <2>3, Zenon
<1>2. ASSUME NEW j \in DOMAIN part.fields \ Active(part)
      PROVE  part.fields[j].sort = "marker"
  <2>1. Member(part, j) \in code.markers
    BY MarkersAre DEF CodeFits
  <2>2. QED
    BY <2>1 DEF WellTyped, DecodeTypes
<1>3. QED
  BY <1>1, <1>2

-----------------------------------------------------------------------------
(***************************************************************************)
(* What encode_key() has pushed since each of its steps.                   *)
(***************************************************************************)
\* The segments that each field that is encoded pushes.
Pushes(part, fields) ==
  [i \in Active(part) |->
     Segments(part.fields[i].sort, IsRaw(part.fields[i]), fields[Member(part, i)])]

\* From one step to the next it is what that step pushed that is left out, and
\* nothing has been pushed since the last one.
Chain(S, f, F) ==
  /\ \A s \in DOMAIN f : f[s] \in Seq(S)
  /\ \A s, i \in DOMAIN f :
       (s < i /\ \A j \in DOMAIN f : s < j => i <= j)
         => F[i] \in Seq(S) /\ f[s] = F[i] \o f[i]
  /\ \A s \in DOMAIN f : (\A j \in DOMAIN f : j <= s) => f[s] = <<>>

\* A chain starts with nothing,
LEMMA ChainStart ==
  ASSUME NEW S, NEW F
  PROVE  Chain(S, [s \in {0} |-> <<>>], F)
<1> DEFINE f == [s \in {0} |-> <<>>]
<1>1. DOMAIN f = {0} /\ f[0] = <<>>
  OBVIOUS
<1> HIDE DEF f
<1>2. f[0] \in Seq(S)
  BY <1>1, EmptySeq
<1>3. QED
  BY <1>1, <1>2 DEF Chain, f

\* g is f after one more step, i.
Grows(S, f, F, i, g) ==
  /\ DOMAIN f \subseteq Nat /\ i \in Nat /\ \A s \in DOMAIN f : s < i
  /\ F[i] \in Seq(S)
  /\ DOMAIN g = DOMAIN f \cup {i}
  /\ \A s \in DOMAIN f : g[s] = f[s] \o F[i]
  /\ g[i] = <<>>

\* and grows by one link.
LEMMA ChainGrows ==
  ASSUME NEW S, NEW f, NEW F, NEW i, NEW g, Chain(S, f, F), Grows(S, f, F, i, g)
  PROVE  Chain(S, g, F)
<1>1. /\ DOMAIN f \subseteq Nat /\ i \in Nat /\ \A s \in DOMAIN f : s < i
      /\ DOMAIN g = DOMAIN f \cup {i} /\ i \notin DOMAIN f
      /\ \A s \in DOMAIN f : g[s] = f[s] \o F[i]
      /\ g[i] = <<>>
      /\ F[i] \in Seq(S)
  BY DEF Grows
<1>2. \A s \in DOMAIN g : g[s] \in Seq(S)
  <2>1. ASSUME NEW s \in DOMAIN f
        PROVE  g[s] \in Seq(S)
    <3>1. f[s] \in Seq(S)
      BY DEF Chain
    <3>2. QED
      BY <1>1, <3>1, ConcatProperties
  <2>2. g[i] \in Seq(S)
    BY <1>1, EmptySeq
  <2>3. QED
    BY <1>1, <2>1, <2>2
<1>3. ASSUME NEW s \in DOMAIN g, NEW k \in DOMAIN g,
             s < k, \A j \in DOMAIN g : s < j => k <= j
      PROVE  F[k] \in Seq(S) /\ g[s] = F[k] \o g[k]
  <2>1. s \in DOMAIN f
    BY <1>1, <1>3
  <2>2. CASE k = i
    <3>1. ASSUME NEW j \in DOMAIN f
          PROVE  j <= s
      <4>1. j \in Nat /\ s \in Nat /\ i \in Nat /\ j < i /\ j \in DOMAIN g
        BY <1>1, <2>1
      <4>2. ~ (s < j)
        BY <1>3, <2>2, <4>1
      <4>3. QED
        BY <4>1, <4>2
    <3>2. f[s] = <<>>
      BY <2>1, <3>1 DEF Chain
    <3>3. g[s] = <<>> \o F[i]
      BY <1>1, <2>1, <3>2
    <3>4. <<>> \o F[i] = F[i] /\ F[i] \o <<>> = F[i]
      BY ConcatEmptySeq
    <3>5. QED
      BY <1>1, <2>2, <3>3, <3>4
  <2>3. CASE k # i
    <3>1. k \in DOMAIN f
      BY <1>1, <2>3
    <3>2. F[k] \in Seq(S) /\ f[s] = F[k] \o f[k]
      BY <1>1, <1>3, <2>1, <3>1 DEF Chain
    <3>3. g[s] = (F[k] \o f[k]) \o F[i] /\ g[k] = f[k] \o F[i]
      BY <1>1, <2>1, <3>1, <3>2
    <3>4. f[k] \in Seq(S)
      BY <3>1 DEF Chain
    <3>5. F[i] \in Seq(S)
      BY <1>1
    <3>6. \A a, b, c \in Seq(S) : (a \o b) \o c = a \o (b \o c)
      BY Associative
    <3>7. (F[k] \o f[k]) \o F[i] = F[k] \o (f[k] \o F[i])
      BY <3>2, <3>4, <3>5, <3>6, Zenon
    <3>8. QED
      BY <3>2, <3>3, <3>7
  <2>4. QED
    BY <2>2, <2>3
<1>4. ASSUME NEW s \in DOMAIN g, \A j \in DOMAIN g : j <= s
      PROVE  g[s] = <<>>
  <2>1. i <= s
    BY <1>1, <1>4
  <2>2. QED
    BY <1>1, <2>1
<1>5. QED
  BY <1>2, <1>3, <1>4 DEF Chain

-----------------------------------------------------------------------------
(***************************************************************************)
(* The macro generates, for every part, code that fits it, under           *)
(* discriminants that differ.                                              *)
(***************************************************************************)
\* The set S holds the discriminants.
TagsIn(S) ==
  \A d \in Decls : \A k \in DOMAIN d.parts : IsOk(Tag(d.parts[k])) => Tag(d.parts[k]).text \in S

\* The segments are those of a set that the discriminants belong to, the Codecs
\* of the fields keep their contract for it, and keys go on with them.
SegmentsAre(S) == FieldContract(Seq(S)) /\ Queues \subseteq Seq(S) /\ TagsIn(S)

TagsAre(S) == \A k \in DOMAIN decl.parts : tags[k] \in S
TagsDiffer == \A j, k \in DOMAIN decl.parts : tags[j] = tags[k] => j = k

AllArms == {Arm(decl.parts[k], tags[k]) : k \in Nat}
ArmsBuilt == arms \in Seq(AllArms) /\ \A k \in 1 .. Len(arms) : arms[k] = Arm(decl.parts[k], tags[k])

Generated(S) ==
  \/ decl.data = "struct" /\ arms = <<StructCode(decl.parts[1])>>
  \/ /\ decl.data = "enum"
     /\ TagsAre(S) /\ TagsDiffer /\ ArmsBuilt
     /\ Len(arms) = Len(decl.parts)

Running == pc \in {"compiled", "encode", "decode", "end"}

MacroInv(S) ==
  /\ decl \in Decls
  /\ pc \in {"prefix", "codec", "struct", "enum", "unique", "arms", "rejected"} \/ Accepted
  /\ pc = "struct" => decl.data = "struct"
  /\ pc \in {"enum", "unique", "arms"} => decl.data = "enum"
  /\ pc \in {"prefix", "codec", "struct", "enum", "unique"} => arms = <<>>
  /\ pc = "unique" => TagsAre(S) /\ DOMAIN tags = DOMAIN decl.parts
  /\ pc = "arms" => TagsAre(S) /\ TagsDiffer /\ ArmsBuilt
  /\ Accepted => Generated(S)
  /\ Running => \A k \in DOMAIN arms : WellTyped(decl.parts[k], arms[k])

\* The invariant of the macro's expansion holds in the beginning,
LEMMA MacroInit ==
  ASSUME NEW S, Init
  PROVE  MacroInv(S)
BY DEF Init, MacroInv, Accepted, Running

\* The generated code, once it runs.
LEMMA CodesAre ==
  ASSUME NEW S, MacroInv(S), Accepted
  PROVE  /\ DOMAIN arms = DOMAIN decl.parts
         /\ \A k \in DOMAIN arms : IsPart(decl.parts[k]) /\ CodeFits(decl.parts[k], arms[k])
         /\ decl.data = "enum" =>
              /\ \A k \in DOMAIN arms : arms[k].tag \in S
              /\ \A j, k \in DOMAIN arms : arms[j].tag = arms[k].tag => j = k
         /\ decl.data # "enum" => DOMAIN arms = {1}
<1>1. /\ \A k \in DOMAIN decl.parts : IsPart(decl.parts[k])
      /\ Len(decl.parts) \in Nat /\ DOMAIN decl.parts = 1 .. Len(decl.parts)
      /\ decl.data = "struct" => Len(decl.parts) = 1
  BY DeclsAssumption DEF IsList, MacroInv
<1>2. CASE decl.data = "struct"
  <2>1. arms = <<StructCode(decl.parts[1])>>
    BY <1>2 DEF MacroInv, Generated
  <2>2. DOMAIN arms = {1} /\ arms[1] = StructCode(decl.parts[1])
    BY <2>1
  <2>3. DOMAIN decl.parts = {1}
    BY <1>1, <1>2
  <2>4. QED
    BY <1>1, <1>2, <2>2, <2>3, StructFits
<1>3. CASE decl.data = "enum"
  <2>1. TagsAre(S) /\ TagsDiffer /\ ArmsBuilt /\ Len(arms) = Len(decl.parts)
    BY <1>3 DEF MacroInv, Generated
  <2>2. DOMAIN arms = DOMAIN decl.parts
    BY <1>1, <2>1 DEF ArmsBuilt
  <2>3. \A k \in DOMAIN arms : arms[k] = Arm(decl.parts[k], tags[k])
    BY <1>1, <2>1, <2>2 DEF ArmsBuilt
  <2>4. \A k \in DOMAIN arms : CodeFits(decl.parts[k], arms[k]) /\ arms[k].tag = tags[k]
    BY <1>1, <2>2, <2>3, ArmFits
  <2>5. QED
    BY <1>1, <1>3, <2>1, <2>2, <2>4 DEF TagsAre, TagsDiffer
<1>4. QED
  BY <1>2, <1>3 DEF MacroInv, Generated

\* and every step keeps it.
LEMMA MacroNext ==
  ASSUME NEW S, TagsIn(S), MacroInv(S), [Next]_vars
  PROVE  MacroInv(S)'
<1>1. CASE ParseStructKeyPrefix
  BY <1>1 DEF ParseStructKeyPrefix, MacroInv, Continue, Reject, Accepted, Running
<1>2. CASE BuildCodecImpl
  BY <1>2 DEF BuildCodecImpl, MacroInv, Continue, Reject, Accepted, Running
<1>3. CASE DeriveStruct
  BY <1>3 DEF DeriveStruct, MacroInv, Continue, Reject, Accepted, Running, Generated
<1>4. CASE DeriveEnum
  <2>1. CASE pc' = "unique"
    <3>1. /\ pc = "enum" /\ decl' = decl /\ arms' = arms
          /\ tags' = [k \in DOMAIN decl.parts |-> Tag(decl.parts[k]).text]
          /\ \A k \in DOMAIN decl.parts : IsOk(Tag(decl.parts[k]))
      BY <1>4, <2>1 DEF DeriveEnum, Continue, Reject
    <3>2. TagsAre(S)' /\ DOMAIN tags' = DOMAIN decl'.parts
      BY <3>1 DEF TagsAre, TagsIn, MacroInv
    <3>3. QED
      BY <2>1, <3>1, <3>2 DEF MacroInv, Accepted, Running
  <2>2. CASE pc' = "rejected"
    BY <1>4, <2>2 DEF DeriveEnum, MacroInv, Accepted, Running
  <2>3. QED
    BY <1>4, <2>1, <2>2 DEF DeriveEnum, Continue, Reject
<1>5. CASE CheckUniqueVariantTags
  <2>1. CASE pc' = "arms"
    <3>1. /\ pc = "unique" /\ UNCHANGED <<decl, tags, arms>>
          /\ \A j, k \in DOMAIN tags : j < k => tags[j] # tags[k]
      BY <1>5, <2>1 DEF CheckUniqueVariantTags, Continue, Reject
    <3>2. DOMAIN tags \subseteq Nat
      BY <3>1, DeclsAssumption DEF IsList, MacroInv
    <3>3. TagsDiffer'
      BY <3>1, <3>2 DEF TagsDiffer, MacroInv
    <3>4. ArmsBuilt'
      <4>1. arms' = <<>>
        BY <3>1 DEF MacroInv
      <4>2. QED
        BY <4>1, EmptySeq DEF ArmsBuilt
    <3>5. QED
      BY <2>1, <3>1, <3>3, <3>4 DEF MacroInv, Accepted, Running, TagsAre
  <2>2. CASE pc' = "rejected"
    BY <1>5, <2>2 DEF CheckUniqueVariantTags, MacroInv, Accepted, Running
  <2>3. QED
    BY <1>5, <2>1, <2>2 DEF CheckUniqueVariantTags, Continue, Reject
<1>6. CASE BuildVariantParts
  <2>1. CASE pc' = "rejected"
    BY <1>6, <2>1 DEF BuildVariantParts, MacroInv, Accepted, Running
  <2>2. CASE pc' # "rejected"
    <3>1. /\ pc = "arms" /\ UNCHANGED <<decl, tags>>
          /\ arms' = Append(arms, Arm(decl.parts[Len(arms) + 1], tags[Len(arms) + 1]))
          /\ pc' = IF Len(arms) + 1 = Len(decl.parts) THEN "compile" ELSE "arms"
      BY <1>6, <2>2 DEF BuildVariantParts, Continue, Reject
    <3>2. decl \in Decls /\ decl.data = "enum" /\ TagsAre(S) /\ TagsDiffer /\ ArmsBuilt
      BY <3>1 DEF MacroInv
    <3>3. AllArms' = AllArms
      BY <3>1 DEF AllArms
    <3>4. ArmsBuilt' /\ Len(arms)' = Len(arms) + 1
      <4>1. arms \in Seq(AllArms) /\ Len(arms) \in Nat
        BY <3>2, LenProperties DEF ArmsBuilt
      <4>2. Arm(decl.parts[Len(arms) + 1], tags[Len(arms) + 1]) \in AllArms
        BY <4>1 DEF AllArms
      <4>3. /\ arms' \in Seq(AllArms) /\ Len(arms') = Len(arms) + 1
            /\ \A k \in 1 .. Len(arms) : arms'[k] = arms[k]
            /\ arms'[Len(arms) + 1] = Arm(decl.parts[Len(arms) + 1], tags[Len(arms) + 1])
        BY <3>1, <4>1, <4>2, AppendProperties
      <4>4. \A k \in 1 .. Len(arms') : arms'[k] = Arm(decl.parts[k], tags[k])
        <5>1. \A k \in 1 .. Len(arms') : k \in 1 .. Len(arms) \/ k = Len(arms) + 1
          BY <4>1, <4>3
        <5>2. QED
          BY <3>2, <4>3, <5>1 DEF ArmsBuilt
      <4>5. QED
        BY <3>1, <3>3, <4>3, <4>4 DEF ArmsBuilt
    <3>5. TagsAre(S)' /\ TagsDiffer' /\ decl' \in Decls /\ decl'.data = "enum"
      BY <3>1, <3>2 DEF TagsAre, TagsDiffer
    <3>6. QED
      BY <3>1, <3>4, <3>5 DEF MacroInv, Accepted, Running, Generated
  <2>3. QED
    BY <2>1, <2>2
<1>7. CASE Compile
  <2>1. UNCHANGED <<decl, tags, arms>> /\ pc = "compile"
    BY <1>7 DEF Compile
  <2>2. Generated(S)'
    BY <2>1 DEF MacroInv, Accepted, Generated, TagsAre, TagsDiffer, ArmsBuilt, AllArms
  <2>3. CASE pc' = "compiled"
    <3>1. \A k \in DOMAIN arms : WellTyped(decl.parts[k], arms[k])
      BY <1>7, <2>3 DEF Compile
    <3>2. QED
      BY <2>1, <2>2, <2>3, <3>1 DEF MacroInv, Accepted, Running
  <2>4. CASE pc' = "rejected"
    BY <2>1, <2>4 DEF MacroInv, Accepted, Running
  <2>5. QED
    BY <1>7, <2>3, <2>4 DEF Compile, Continue
<1>8. CASE Running /\ Running' /\ UNCHANGED macro
  <2>1. Generated(S)'
    BY <1>8 DEF MacroInv, Running, Accepted, Generated, TagsAre, TagsDiffer, ArmsBuilt, AllArms, macro
  <2>2. QED
    BY <1>8, <2>1 DEF MacroInv, Running, Accepted, macro
<1>9. CASE EncodeKey \/ EncodeField \/ DecodeKey \/ DecodeForeign \/ MatchTag \/ DecodeField
             \/ Construct
  <2>1. Running /\ Running' /\ UNCHANGED macro
    BY <1>9 DEF EncodeKey, EncodeField, DecodeKey, DecodeForeign, StartDecode, MatchTag,
                DecodeField, Construct, Fail, Running
  <2>2. QED
    BY <1>8, <2>1
<1>10. CASE UNCHANGED vars
  <2>1. UNCHANGED <<pc, decl, tags, arms>>
    BY <1>10 DEF vars, macro
  <2>2. Generated(S)' <=> Generated(S)
    BY <2>1 DEF Generated, TagsAre, TagsDiffer, ArmsBuilt, AllArms
  <2>3. (TagsAre(S)' <=> TagsAre(S)) /\ (TagsDiffer' <=> TagsDiffer) /\ (ArmsBuilt' <=> ArmsBuilt)
    BY <2>1 DEF TagsAre, TagsDiffer, ArmsBuilt, AllArms
  <2>4. QED
    BY <2>1, <2>2, <2>3 DEF MacroInv, Accepted, Running
<1>11. QED
  BY <1>1, <1>2, <1>3, <1>4, <1>5, <1>6, <1>7, <1>9, <1>10 DEF Next

-----------------------------------------------------------------------------
(***************************************************************************)
(* Decoding runs through what encoding has pushed since each step.         *)
(***************************************************************************)
\* One field: it pushes segments, and its Codec takes exactly these back.
LEMMA FieldTaken ==
  ASSUME NEW S, FieldContract(Seq(S)), NEW part, IsPart(part), NEW code,
         CodeFits(part, code), WellTyped(part, code),
         NEW fields \in ValuesOf(part), NEW i \in Active(part)
  PROVE  /\ SortAt(part, Member(part, i)) = part.fields[i].sort
         /\ Pushes(part, fields)[i] =
              Segments(part.fields[i].sort, IsRaw(part.fields[i]), fields[Member(part, i)])
         /\ Pushes(part, fields)[i] \in Seq(S)
         /\ \A q \in Seq(S) :
              Take(part.fields[i].sort, IsRaw(part.fields[i]), Pushes(part, fields)[i] \o q) =
                [value |-> fields[Member(part, i)], left |-> q]
<1>1. i \in DOMAIN part.fields
  BY DEF Active
<1>2. SortAt(part, Member(part, i)) = part.fields[i].sort
  BY <1>1, PositionIs DEF SortAt
<1>3. fields[Member(part, i)] \in FieldValues[part.fields[i].sort]
  <2>1. Member(part, i) \in Members(part)
    BY <1>1 DEF Members
  <2>2. QED
    BY <1>2, <2>1 DEF ValuesOf
<1>4. Accepts(part.fields[i].sort, IsRaw(part.fields[i]))
  BY TypedFields
<1>5. IsRaw(part.fields[i]) \in BOOLEAN
  BY DEF IsRaw
<1>6. part.fields[i].sort \in CodecSorts
  BY <1>4 DEF Accepts, CodecSorts
<1>7. Pushes(part, fields)[i] =
        Segments(part.fields[i].sort, IsRaw(part.fields[i]), fields[Member(part, i)])
  BY DEF Pushes
<1>8. /\ Segments(part.fields[i].sort, IsRaw(part.fields[i]), fields[Member(part, i)]) \in Seq(S)
      /\ \A q \in Seq(S) :
           Take(part.fields[i].sort, IsRaw(part.fields[i]),
                Segments(part.fields[i].sort, IsRaw(part.fields[i]), fields[Member(part, i)]) \o q)
             = [value |-> fields[Member(part, i)], left |-> q]
  BY <1>3, <1>4, <1>5, <1>6, Zenon DEF FieldContract
<1>9. QED
  BY <1>2, <1>7, <1>8, Zenon

\* The part whose value is encoded, and what precedes its fields.
OwnPart == decl.parts[value.arm]
Header == IF decl.data = "enum" THEN <<arms[value.arm].tag>> ELSE <<>>

Written(S) ==
  /\ value = [arm |-> value.arm, fields |-> value.fields]
  /\ value.arm \in DOMAIN arms
  /\ value.fields \in ValuesOf(OwnPart)
  /\ Chain(S, after, Pushes(OwnPart, value.fields))

Encoding ==
  /\ arm = value.arm
  /\ step \in Nat
  /\ DOMAIN after = {0} \cup {i \in Active(OwnPart) : i <= step}
  /\ segments = Header \o after[0]

\* The fields that have been decoded have their values back.
Recovered ==
  \A i \in Active(OwnPart) :
    i <= step => /\ Member(OwnPart, i) \in DOMAIN env
                 /\ env[Member(OwnPart, i)] = value.fields[Member(OwnPart, i)]

Decoding(S) ==
  /\ rest \in Seq(S)
  /\ DOMAIN after = {0} \cup Active(OwnPart)
  /\ \/ /\ decl.data = "enum" /\ arm = 0 /\ step = 0
        /\ left = Header \o (after[0] \o rest)
     \/ /\ arm = value.arm /\ step \in DOMAIN after
        /\ left = after[step] \o rest
        /\ Recovered

RunInv(S) ==
  /\ pc \notin {"encode", "decode", "end"} => ~ IsOwn /\ step = 0
  /\ pc = "encode" => IsOwn
  /\ IsOwn =>
       /\ Written(S)
       /\ pc = "encode" => Encoding
       /\ pc = "decode" => Decoding(S)
       /\ pc = "end" => result = value /\ left = rest

\* The invariant of the generated code's run holds in the beginning.
LEMMA RunInit ==
  ASSUME NEW S, Init
  PROVE  RunInv(S)
BY DEF Init, RunInv, IsOwn

\* The steps of the macro and the compiler leave the run alone.
LEMMA MacroLeavesRun ==
  ASSUME NEW S, RunInv(S), pc \notin {"encode", "decode", "end"},
         pc' \notin {"encode", "decode", "end"}, UNCHANGED run
  PROVE  RunInv(S)'
BY DEF RunInv, run, IsOwn

\* The start of encode_key() keeps the run's invariant,
LEMMA EncodeKeyStep ==
  ASSUME NEW S, MacroInv(S), RunInv(S), EncodeKey
  PROVE  RunInv(S)'
<1>1. PICK k \in DOMAIN arms : \E fields \in ValuesOf(decl.parts[k]) :
        /\ value' = [arm |-> k, fields |-> fields]
        /\ arm' = k
        /\ segments' = IF decl.data = "enum" THEN <<arms[k].tag>> ELSE <<>>
  BY DEF EncodeKey
<1>2. PICK fields \in ValuesOf(decl.parts[k]) :
        /\ value' = [arm |-> k, fields |-> fields]
        /\ arm' = k
        /\ segments' = IF decl.data = "enum" THEN <<arms[k].tag>> ELSE <<>>
  BY <1>1
<1>3. /\ pc = "compiled" /\ pc' = "encode" /\ UNCHANGED <<decl, arms, step>>
      /\ after' = [s \in {0} |-> <<>>]
  BY DEF EncodeKey, macro
<1>4. value'.arm = k /\ value'.fields = fields /\ OwnPart' = decl.parts[k]
  BY <1>2, <1>3 DEF OwnPart
<1>5. k # 0 /\ step = 0
  BY <1>3, CodesAre, DeclsAssumption DEF RunInv, MacroInv, Accepted
<1>6. Written(S)'
  <2>1. Chain(S, after', Pushes(decl.parts[k], fields))
    BY <1>3, ChainStart
  <2>2. QED
    BY <1>2, <1>3, <1>4, <2>1 DEF Written
<1>7. Encoding'
  <2>1. DOMAIN after' = {0} /\ after'[0] = <<>> /\ step' = 0
    BY <1>3, <1>5
  <2>2. {i \in Active(decl.parts[k]) : i <= 0} = {}
    <3>1. IsPart(decl.parts[k])
      BY <1>3, CodesAre DEF Accepted
    <3>2. QED
      BY <3>1 DEF Active, IsPart, IsList
  <2>3. Header' = segments'
    BY <1>2, <1>3, <1>4 DEF Header
  <2>4. segments' = segments' \o <<>>
    BY <1>2, ConcatEmptySeq
  <2>5. QED
    BY <1>2, <1>4, <2>1, <2>2, <2>3, <2>4 DEF Encoding
<1>8. QED
  BY <1>3, <1>4, <1>5, <1>6, <1>7 DEF RunInv, IsOwn

\* The code and the value of a run, with what is known of them.
LEMMA OwnCode ==
  ASSUME NEW S, MacroInv(S), RunInv(S), IsOwn
  PROVE  /\ IsPart(OwnPart) /\ Active(OwnPart) \subseteq Nat \ {0}
         /\ CodeFits(OwnPart, arms[value.arm])
         /\ WellTyped(OwnPart, arms[value.arm])
         /\ value.fields \in ValuesOf(OwnPart)
         /\ Header \in Seq(S)
<1>1. Running /\ Accepted /\ value.arm \in DOMAIN arms /\ value.fields \in ValuesOf(OwnPart)
  BY DEF MacroInv, RunInv, Written, Running, Accepted
<1>2. IsPart(OwnPart) /\ CodeFits(OwnPart, arms[value.arm])
  BY <1>1, CodesAre DEF OwnPart
<1>3. WellTyped(OwnPart, arms[value.arm])
  BY <1>1 DEF MacroInv, OwnPart
<1>4. Active(OwnPart) \subseteq Nat \ {0}
  BY <1>2 DEF Active, IsPart, IsList
<1>5. Header \in Seq(S)
  <2>1. CASE decl.data = "enum"
    BY <1>1, <2>1, CodesAre DEF Header
  <2>2. CASE decl.data # "enum"
    BY <2>2, EmptySeq DEF Header
  <2>3. QED
    BY <2>1, <2>2
<1>6. QED
  BY <1>1, <1>2, <1>3, <1>4, <1>5

\* and so do the encoding of a field,
LEMMA EncodeFieldStep ==
  ASSUME NEW S, SegmentsAre(S), MacroInv(S), RunInv(S), EncodeField
  PROVE  RunInv(S)'
<1> DEFINE F == Pushes(OwnPart, value.fields)
<1>1. /\ pc = "encode" /\ pc' = "encode" /\ UNCHANGED <<decl, arms, value, arm>>
      /\ IsOwn /\ Written(S) /\ Encoding
  BY DEF EncodeField, macro, RunInv
<1>2. /\ IsPart(OwnPart) /\ Active(OwnPart) \subseteq Nat \ {0}
      /\ CodeFits(OwnPart, arms[value.arm]) /\ WellTyped(OwnPart, arms[value.arm])
      /\ value.fields \in ValuesOf(OwnPart) /\ Header \in Seq(S)
  BY <1>1, OwnCode
<1>3. Code = arms[value.arm] /\ Part = OwnPart
  BY <1>1 DEF Code, Part, OwnPart, Encoding
<1>4. PICK i \in DOMAIN Code.encode : \E m \in DOMAIN Code.scope :
        /\ IsNext(Code.encode, i)
        /\ Code.scope[m] = Code.encode[i].of
        /\ LET pushed == Segments(SortAt(Part, m), Code.encode[i].raw, value.fields[m])
           IN  /\ segments' = segments \o pushed
               /\ after' = [s \in DOMAIN after \cup {i} |->
                             IF s \in DOMAIN after THEN after[s] \o pushed ELSE <<>>]
        /\ step' = i
  BY DEF EncodeField
<1>5. /\ i \in Active(OwnPart) /\ i \in Nat /\ step < i /\ step' = i
      /\ \A j \in Active(OwnPart) : step < j => i <= j
  BY <1>2, <1>3, <1>4 DEF IsNext, CodeFits
<1>6. /\ SortAt(OwnPart, Member(OwnPart, i)) = OwnPart.fields[i].sort
      /\ F[i] = Segments(OwnPart.fields[i].sort, IsRaw(OwnPart.fields[i]),
                         value.fields[Member(OwnPart, i)])
      /\ F[i] \in Seq(S)
  BY <1>2, <1>5, FieldTaken DEF SegmentsAre
<1>7. /\ segments' = segments \o F[i]
      /\ after' = [s \in DOMAIN after \cup {i} |->
                    IF s \in DOMAIN after THEN after[s] \o F[i] ELSE <<>>]
  <2>1. PICK m \in DOMAIN Code.scope :
          /\ Code.scope[m] = Code.encode[i].of
          /\ segments' = segments \o Segments(SortAt(Part, m), Code.encode[i].raw, value.fields[m])
          /\ after' = [s \in DOMAIN after \cup {i} |->
                        IF s \in DOMAIN after
                        THEN after[s] \o Segments(SortAt(Part, m), Code.encode[i].raw, value.fields[m])
                        ELSE <<>>]
    BY <1>4
  <2>2. m = Member(OwnPart, i) /\ Code.encode[i].raw = IsRaw(OwnPart.fields[i])
    BY <1>2, <1>3, <1>5, <2>1 DEF CodeFits
  <2>3. Segments(SortAt(Part, m), Code.encode[i].raw, value.fields[m]) = F[i]
    BY <1>3, <1>6, <2>2, Zenon
  <2>4. QED
    BY <2>1, <2>3
<1> HIDE DEF F
<1>8. /\ DOMAIN after = {0} \cup {j \in Active(OwnPart) : j <= step} /\ step \in Nat
      /\ segments = Header \o after[0]
      /\ Chain(S, after, F)
  BY <1>1 DEF Encoding, Written, F
<1>9. DOMAIN after \subseteq Nat /\ \A s \in DOMAIN after : s < i
  BY <1>2, <1>5, <1>8
<1>10. Chain(S, after', F)
  <2>1. /\ DOMAIN after' = DOMAIN after \cup {i} /\ after'[i] = <<>>
        /\ \A s \in DOMAIN after : after'[s] = after[s] \o F[i]
    BY <1>7, <1>9
  <2>2. QED
    BY <1>5, <1>6, <1>8, <1>9, <2>1, ChainGrows DEF Grows
<1>11. DOMAIN after' = {0} \cup {j \in Active(OwnPart) : j <= i}
  <2>1. DOMAIN after' = DOMAIN after \cup {i}
    BY <1>7
  <2>2. \A j \in Active(OwnPart) : j <= i <=> j <= step \/ j = i
    BY <1>2, <1>5, <1>8
  <2>3. QED
    BY <1>5, <1>8, <2>1, <2>2
<1>12. segments' = Header \o after'[0]
  <2>1. after[0] \in Seq(S) /\ after'[0] = after[0] \o F[i]
    BY <1>7, <1>8 DEF Chain
  <2>2. \A a, b, c \in Seq(S) : (a \o b) \o c = a \o (b \o c)
    BY Associative
  <2>3. (Header \o after[0]) \o F[i] = Header \o (after[0] \o F[i])
    BY <1>2, <1>6, <2>1, <2>2, Zenon
  <2>4. QED
    BY <1>7, <1>8, <2>1, <2>3
<1>13. OwnPart' = OwnPart /\ Header' = Header /\ IsOwn'
  BY <1>1 DEF OwnPart, Header, IsOwn
<1>14. Written(S)'
  BY <1>1, <1>10, <1>13 DEF Written, F
<1>15. Encoding'
  BY <1>1, <1>5, <1>11, <1>12, <1>13 DEF Encoding
<1>16. QED
  BY <1>1, <1>13, <1>14, <1>15 DEF RunInv

\* the start of decode_key(),
LEMMA DecodeKeyStep ==
  ASSUME NEW S, SegmentsAre(S), MacroInv(S), RunInv(S), DecodeKey
  PROVE  RunInv(S)'
<1>1. /\ pc = "encode" /\ pc' = "decode" /\ UNCHANGED <<decl, arms, value, segments, after>>
      /\ IsOwn /\ Written(S) /\ Encoding
      /\ rest' \in Queues /\ step' = 0 /\ left' = segments \o rest'
      /\ arm' = IF decl.data = "enum" THEN 0 ELSE 1
      /\ AllRan(Code.encode)
  BY DEF DecodeKey, StartDecode, macro, RunInv
<1>2. /\ IsPart(OwnPart) /\ Active(OwnPart) \subseteq Nat \ {0}
      /\ CodeFits(OwnPart, arms[value.arm]) /\ Header \in Seq(S)
  BY <1>1, OwnCode
<1>3. OwnPart' = OwnPart /\ Header' = Header /\ IsOwn'
  BY <1>1 DEF OwnPart, Header, IsOwn
<1>4. Written(S)'
  BY <1>1, <1>3 DEF Written
<1>5. DOMAIN after' = {0} \cup Active(OwnPart)
  <2>1. \A i \in Active(OwnPart) : i <= step
    BY <1>1, <1>2 DEF AllRan, Code, Encoding, CodeFits
  <2>2. QED
    BY <1>1, <2>1 DEF Encoding
<1>6. rest' \in Seq(S)
  BY <1>1 DEF SegmentsAre
<1>7. left' = Header \o (after[0] \o rest')
  <2>1. after[0] \in Seq(S) /\ segments = Header \o after[0]
    BY <1>1 DEF Written, Chain, Encoding
  <2>2. \A a, b, c \in Seq(S) : (a \o b) \o c = a \o (b \o c)
    BY Associative
  <2>3. (Header \o after[0]) \o rest' = Header \o (after[0] \o rest')
    BY <1>2, <1>6, <2>1, <2>2, Zenon
  <2>4. QED
    BY <1>1, <2>1, <2>3
<1>8. CASE decl.data = "enum"
  BY <1>1, <1>3, <1>4, <1>5, <1>6, <1>7, <1>8 DEF RunInv, Decoding
<1>9. CASE decl.data # "enum"
  <2>1. arm' = 1 /\ value.arm = 1
    BY <1>1, <1>9, CodesAre DEF Written, Accepted
  <2>2. left' = after[0] \o rest'
    <3>1. after[0] \o rest' \in Seq(S)
      BY <1>1, <1>6, ConcatProperties DEF Written, Chain, Encoding
    <3>2. <<>> \o (after[0] \o rest') = after[0] \o rest'
      BY <3>1, ConcatEmptySeq
    <3>3. QED
      BY <1>7, <1>9, <3>2 DEF Header
  <2>3. Recovered'
    BY <1>1, <1>2, <1>3 DEF Recovered
  <2>4. Decoding(S)'
    BY <1>1, <1>3, <1>5, <1>6, <2>1, <2>2, <2>3 DEF Decoding
  <2>5. QED
    BY <1>1, <1>3, <1>4, <2>4 DEF RunInv
<1>10. QED
  BY <1>8, <1>9

\* the match of the tag,
LEMMA MatchTagStep ==
  ASSUME NEW S, SegmentsAre(S), MacroInv(S), RunInv(S), MatchTag
  PROVE  RunInv(S)'
<1>1. pc = "decode" /\ arm = 0 /\ UNCHANGED <<decl, arms, value, step, after, rest>>
  BY DEF MatchTag, macro
<1>2. CASE ~ IsOwn
  <2>1. ~ IsOwn'
    BY <1>1, <1>2 DEF IsOwn
  <2>2. pc' \in {"decode", "end"}
    BY DEF MatchTag, Fail
  <2>3. QED
    BY <2>1, <2>2 DEF RunInv
<1>3. CASE IsOwn
  <2>1. Written(S) /\ Decoding(S)
    BY <1>1, <1>3 DEF RunInv
  <2>2. /\ decl.data = "enum" /\ step = 0 /\ left = Header \o (after[0] \o rest)
    BY <1>1, <1>3, <2>1 DEF Decoding, IsOwn
  <2>3. /\ Active(OwnPart) \subseteq Nat \ {0} /\ Header \in Seq(S)
    BY <1>3, OwnCode
  <2>4. after[0] \o rest \in Seq(S)
    BY <2>1, ConcatProperties DEF Written, Decoding, Chain
  <2>5. left # <<>> /\ Head(left) = arms[value.arm].tag /\ Tail(left) = after[0] \o rest
    <3>1. Header = <<arms[value.arm].tag>> /\ arms[value.arm].tag \in S
      BY <1>1, <2>1, <2>2, CodesAre DEF Header, Written, Accepted
    <3> QED
      BY <2>2, <2>4, <3>1
  <2>6. \A k \in DOMAIN arms : arms[k].tag = Head(left) => k = value.arm
    BY <1>1, <2>1, <2>2, <2>5, CodesAre DEF Written, Accepted
  <2>7. pc' = "decode" /\ arm' = value.arm /\ left' = after[0] \o rest /\ env' = env
    BY <1>1, <2>1, <2>5, <2>6 DEF MatchTag, Written
  <2>8. OwnPart' = OwnPart /\ Header' = Header /\ IsOwn'
    BY <1>1, <1>3 DEF OwnPart, Header, IsOwn
  <2>9. Written(S)'
    BY <1>1, <2>1, <2>8 DEF Written
  <2>10. Recovered'
    BY <1>1, <2>2, <2>3, <2>8 DEF Recovered
  <2>11. Decoding(S)'
    BY <1>1, <2>1, <2>2, <2>7, <2>8, <2>10 DEF Decoding
  <2>12. QED
    BY <1>1, <2>7, <2>8, <2>9, <2>11 DEF RunInv
<1>4. QED
  BY <1>2, <1>3

\* the decoding of a field,
LEMMA DecodeFieldStep ==
  ASSUME NEW S, SegmentsAre(S), MacroInv(S), RunInv(S), DecodeField
  PROVE  RunInv(S)'
<1> DEFINE F == Pushes(OwnPart, value.fields)
<1>1. pc = "decode" /\ arm # 0 /\ UNCHANGED <<decl, arms, value, after, rest>>
  BY DEF DecodeField, macro
<1>2. CASE ~ IsOwn
  <2>1. ~ IsOwn'
    BY <1>1, <1>2 DEF IsOwn
  <2>2. pc' \in {"decode", "end"}
    BY <1>1 DEF DecodeField, Fail
  <2>3. QED
    BY <2>1, <2>2 DEF RunInv
<1>3. CASE IsOwn
  <2>1. Written(S) /\ Decoding(S)
    BY <1>1, <1>3 DEF RunInv
  <2>2. /\ IsPart(OwnPart) /\ Active(OwnPart) \subseteq Nat \ {0}
        /\ CodeFits(OwnPart, arms[value.arm]) /\ WellTyped(OwnPart, arms[value.arm])
        /\ value.fields \in ValuesOf(OwnPart)
    BY <1>3, OwnCode
  <2>3. /\ arm = value.arm /\ step \in DOMAIN after
        /\ left = after[step] \o rest /\ Recovered
        /\ rest \in Seq(S) /\ DOMAIN after = {0} \cup Active(OwnPart)
    BY <1>1, <2>1 DEF Decoding
  <2>4. Code = arms[value.arm] /\ Part = OwnPart
    BY <2>3 DEF Code, Part, OwnPart
  <2>5. PICK i \in DOMAIN Code.decode :
          /\ IsNext(Code.decode, i)
          /\ step' = i
          /\ LET into == Code.decode[i].into
                 taken == Take(SortAt(Part, into), Code.decode[i].raw, left)
             IN  IF IsOk(taken)
                 THEN /\ env' = [n \in DOMAIN env \cup {into} |->
                                   IF n = into THEN taken.value ELSE env[n]]
                      /\ left' = taken.left
                      /\ UNCHANGED <<pc, arm, result>>
                 ELSE Fail(taken)
    BY DEF DecodeField
  <2>6. /\ i \in Active(OwnPart) /\ i \in Nat /\ step < i
        /\ \A j \in Active(OwnPart) : step < j => i <= j
    BY <2>2, <2>4, <2>5 DEF IsNext, CodeFits
  <2>7. /\ SortAt(OwnPart, Member(OwnPart, i)) = OwnPart.fields[i].sort
        /\ F[i] \in Seq(S)
        /\ \A q \in Seq(S) :
             Take(OwnPart.fields[i].sort, IsRaw(OwnPart.fields[i]), F[i] \o q) =
               [value |-> value.fields[Member(OwnPart, i)], left |-> q]
    BY <2>2, <2>6, FieldTaken DEF SegmentsAre
  <2>8. Code.decode[i].into = Member(OwnPart, i) /\ Code.decode[i].raw = IsRaw(OwnPart.fields[i])
    BY <2>2, <2>4, <2>6 DEF CodeFits
  <2> HIDE DEF F
  <2>9. after[i] \in Seq(S) /\ left = F[i] \o (after[i] \o rest) /\ after[i] \o rest \in Seq(S)
    <3>1. Chain(S, after, F)
      BY <2>1 DEF Written, F
    <3>2. i \in DOMAIN after
      BY <2>3, <2>6
    <3>3. \A j \in DOMAIN after : step < j => i <= j
      BY <2>2, <2>3, <2>6
    <3>4. after[step] = F[i] \o after[i] /\ after[i] \in Seq(S)
      BY <2>3, <2>6, <3>1, <3>2, <3>3 DEF Chain
    <3>5. \A a, b, c \in Seq(S) : (a \o b) \o c = a \o (b \o c)
      BY Associative
    <3>6. (F[i] \o after[i]) \o rest = F[i] \o (after[i] \o rest)
      BY <2>3, <2>7, <3>4, <3>5, Zenon
    <3>7. after[i] \o rest \in Seq(S)
      BY <2>3, <3>4, ConcatProperties
    <3>8. QED
      BY <2>3, <3>4, <3>6, <3>7
  <2>10. Take(SortAt(Part, Code.decode[i].into), Code.decode[i].raw, left) =
           [value |-> value.fields[Member(OwnPart, i)], left |-> after[i] \o rest]
    BY <2>4, <2>7, <2>8, <2>9, Zenon
  <2>11. IsOk([value |-> value.fields[Member(OwnPart, i)], left |-> after[i] \o rest])
    BY DEF IsOk
  <2>12. /\ env' = [n \in DOMAIN env \cup {Member(OwnPart, i)} |->
                      IF n = Member(OwnPart, i) THEN value.fields[Member(OwnPart, i)] ELSE env[n]]
         /\ left' = after[i] \o rest
         /\ UNCHANGED <<pc, arm, result>>
         /\ step' = i
    BY <2>5, <2>8, <2>10, <2>11
  <2>13. OwnPart' = OwnPart /\ Header' = Header /\ IsOwn'
    BY <1>1, <1>3 DEF OwnPart, Header, IsOwn
  <2>14. Written(S)'
    BY <1>1, <2>1, <2>13 DEF Written
  <2>15. Recovered'
    <3>1. ASSUME NEW j \in Active(OwnPart), j <= i
          PROVE  /\ Member(OwnPart, j) \in DOMAIN env'
                 /\ env'[Member(OwnPart, j)] = value.fields[Member(OwnPart, j)]
      <4>1. CASE j = i
        BY <2>12, <4>1
      <4>2. CASE j # i
        <5>1. j <= step
          BY <2>2, <2>3, <2>6, <3>1, <4>2
        <5>2. /\ Member(OwnPart, j) \in DOMAIN env
              /\ env[Member(OwnPart, j)] = value.fields[Member(OwnPart, j)]
          BY <2>3, <5>1 DEF Recovered
        <5>3. QED
          BY <2>12, <5>2
      <4>3. QED
        BY <4>1, <4>2
    <3>2. QED
      BY <1>1, <2>12, <2>13, <3>1 DEF Recovered
  <2>16. Decoding(S)'
    BY <1>1, <2>3, <2>6, <2>12, <2>13, <2>15 DEF Decoding
  <2>17. QED
    BY <1>1, <2>12, <2>13, <2>14, <2>16 DEF RunInv
<1>4. QED
  BY <1>2, <1>3

\* and the construction of the value.
LEMMA ConstructStep ==
  ASSUME NEW S, MacroInv(S), RunInv(S), Construct
  PROVE  RunInv(S)'
<1>1. /\ pc = "decode" /\ arm # 0 /\ pc' = "end" /\ AllRan(Code.decode)
      /\ UNCHANGED <<decl, arms, value, after, rest, left, segments, step>>
      /\ result' = [arm |-> arm,
                    fields |-> [m \in Members(Part) |->
                                  IF m \in Code.markers THEN Marker ELSE env[m]]]
  BY DEF Construct, macro
<1>2. CASE ~ IsOwn
  <2>1. ~ IsOwn'
    BY <1>1, <1>2 DEF IsOwn
  <2>2. QED
    BY <1>1, <2>1 DEF RunInv
<1>3. CASE IsOwn
  <2>1. Written(S) /\ Decoding(S)
    BY <1>1, <1>3 DEF RunInv
  <2>2. /\ IsPart(OwnPart) /\ Active(OwnPart) \subseteq Nat \ {0}
        /\ CodeFits(OwnPart, arms[value.arm]) /\ WellTyped(OwnPart, arms[value.arm])
        /\ value.fields \in ValuesOf(OwnPart)
    BY <1>3, OwnCode
  <2>3. /\ arm = value.arm /\ step \in DOMAIN after
        /\ left = after[step] \o rest /\ Recovered
        /\ rest \in Seq(S) /\ DOMAIN after = {0} \cup Active(OwnPart)
    BY <1>1, <2>1 DEF Decoding
  <2>4. Code = arms[value.arm] /\ Part = OwnPart /\ Code.markers = Markers(OwnPart)
    BY <2>2, <2>3 DEF Code, Part, OwnPart, CodeFits
  <2>5. \A i \in Active(OwnPart) : i <= step
    BY <1>1, <2>2, <2>4 DEF AllRan, CodeFits
  <2>6. left = rest
    <3>1. after[step] = <<>>
      BY <2>1, <2>2, <2>3, <2>5 DEF Written, Chain
    <3>2. QED
      BY <2>3, <3>1, ConcatEmptySeq
  <2>7. [m \in Members(Part) |-> IF m \in Code.markers THEN Marker ELSE env[m]] = value.fields
    <3>1. value.fields = [m \in Members(OwnPart) |-> value.fields[m]]
      BY <2>2 DEF ValuesOf
    <3>2. ASSUME NEW m \in Members(OwnPart)
          PROVE  (IF m \in Markers(OwnPart) THEN Marker ELSE env[m]) = value.fields[m]
      <4>1. PICK i \in DOMAIN OwnPart.fields : m = Member(OwnPart, i)
        BY DEF Members
      <4>2. CASE i \in Active(OwnPart)
        <5>1. m \notin Markers(OwnPart)
          BY <2>2, <4>1, <4>2, MarkersAre
        <5>2. env[m] = value.fields[m]
          BY <2>3, <2>5, <4>1, <4>2 DEF Recovered
        <5>3. QED
          BY <5>1, <5>2
      <4>3. CASE i \notin Active(OwnPart)
        <5>1. m \in Markers(OwnPart)
          BY <2>2, <4>1, <4>3, MarkersAre
        <5>2. OwnPart.fields[i].sort = "marker"
          BY <2>2, <4>3, TypedFields
        <5>3. SortAt(OwnPart, m) = "marker"
          BY <2>2, <4>1, <5>2, PositionIs DEF SortAt
        <5>4. value.fields[m] \in FieldValues["marker"]
          BY <2>2, <5>3 DEF ValuesOf
        <5>5. QED
          BY <5>1, <5>4, MarkerAssumption
      <4>4. QED
        BY <4>2, <4>3
    <3>3. QED
      BY <2>4, <3>1, <3>2
  <2>8. result' = value
    BY <1>1, <2>1, <2>3, <2>7 DEF Written
  <2>9. OwnPart' = OwnPart /\ IsOwn'
    BY <1>1, <1>3 DEF OwnPart, IsOwn
  <2>10. Written(S)'
    BY <1>1, <2>1, <2>9 DEF Written
  <2>11. QED
    BY <1>1, <2>6, <2>8, <2>9, <2>10 DEF RunInv
<1>4. QED
  BY <1>2, <1>3

\* Every step keeps the run's invariant.
LEMMA RunNext ==
  ASSUME NEW S, SegmentsAre(S), MacroInv(S), RunInv(S), [Next]_vars
  PROVE  RunInv(S)'
<1>1. CASE ParseStructKeyPrefix \/ BuildCodecImpl \/ DeriveStruct \/ DeriveEnum
             \/ CheckUniqueVariantTags \/ BuildVariantParts \/ Compile
  <2>1. /\ pc \notin {"encode", "decode", "end"} /\ pc' \notin {"encode", "decode", "end"}
        /\ UNCHANGED run
    BY <1>1 DEF ParseStructKeyPrefix, BuildCodecImpl, DeriveStruct, DeriveEnum,
                CheckUniqueVariantTags, BuildVariantParts, Compile, Continue, Reject, MacroInv
  <2>2. QED
    BY <2>1, MacroLeavesRun
<1>2. CASE EncodeKey
  BY <1>2, EncodeKeyStep
<1>3. CASE EncodeField
  BY <1>3, EncodeFieldStep
<1>4. CASE DecodeKey
  BY <1>4, DecodeKeyStep
<1>5. CASE DecodeForeign
  <2>1. ~ IsOwn' /\ pc' = "decode"
    BY <1>5 DEF DecodeForeign, StartDecode, RunInv, IsOwn
  <2>2. QED
    BY <2>1 DEF RunInv
<1>6. CASE MatchTag
  BY <1>6, MatchTagStep
<1>7. CASE DecodeField
  BY <1>7, DecodeFieldStep
<1>8. CASE Construct
  BY <1>8, ConstructStep
<1>9. CASE UNCHANGED vars
  BY <1>9 DEF vars, macro, run, RunInv, IsOwn, Written, Encoding, Decoding, Recovered,
              OwnPart, Header
<1>10. QED
  BY <1>1, <1>2, <1>3, <1>4, <1>5, <1>6, <1>7, <1>8, <1>9 DEF Next

\* Whatever is declared, and whatever the fields hold: when the Codec of every
\* field takes back what it wrote, the generated decode_key() gives back the
\* value that the generated encode_key() wrote and leaves what follows it
\* (derive 220-239, 346-377, 473-491).
THEOREM RoundTripCorrect ==
  ASSUME NEW CONSTANT S, SegmentsAre(S)
  PROVE  Spec => []RoundTrip
<1>1. Init => MacroInv(S) /\ RunInv(S)
  BY MacroInit, RunInit
<1>2. MacroInv(S) /\ RunInv(S) /\ [Next]_vars => MacroInv(S)' /\ RunInv(S)'
  BY MacroNext, RunNext DEF SegmentsAre
<1>3. RunInv(S) => RoundTrip
  BY DEF RunInv, RoundTrip
<1>4. QED
  BY <1>1, <1>2, <1>3, PTL DEF Spec

-----------------------------------------------------------------------------
(***************************************************************************)
(* The generated code compiles exactly when the declaration is as          *)
(* documented.                                                             *)
(***************************************************************************)
\* What the generated code asks of the fields of one part,
TypesFit(part) ==
  \A i \in DOMAIN part.fields :
    IF Uncoded(part.fields[i]) THEN part.fields[i].sort = "marker"
    ELSE IF HasOption(part.fields[i], "raw") THEN part.fields[i].sort = "string"
    ELSE part.fields[i].sort \in CodecSorts

NoShadow(part) ==
  \A i, j \in DOMAIN part.fields :
    (i < j /\ ~ Uncoded(part.fields[i]) /\ ~ Uncoded(part.fields[j]))
      => part.fields[i].ident # "p"

\* and of a declaration: what the documentation asks, but for `raw` on a field
\* that has no code.
CodesFit(d) ==
  /\ StructKeyRoot(d.consumer) \in d.consumer.externs
  /\ \A k \in DOMAIN d.parts : TypesFit(d.parts[k])

NoTypo(part) == \A i \in DOMAIN part.fields : ~ CheckRawFails(part.fields[i])

\* The fields left without code are the markers.
LEMMA UncodedIs ==
  ASSUME NEW part, IsPart(part), NEW i \in DOMAIN part.fields
  PROVE  Uncoded(part.fields[i]) <=> i \notin Active(part)
<1> DEFINE path == part.fields[i].path
<1>1. path \in Seq(Range(path))
  BY DEF IsPart, IsList
<1> HIDE DEF path
<1>2. Len(path) \in Nat /\ DOMAIN path = 1 .. Len(path)
  BY <1>1, LenProperties
<1>3. path # <<>> => Len(path) \in Nat \ {0}
  BY <1>1, EmptySeq
<1>4. path = <<>> => Len(path) = 0
  BY EmptySeq
<1>5. Uncoded(part.fields[i]) <=> \E n \in DOMAIN path : n = Len(path) /\ path[n] = "PhantomData"
  BY DEF Uncoded, Named, path
<1>6. IsPhantomData(part.fields[i]) <=> path # <<>> /\ path[Len(path)] = "PhantomData"
  BY DEF IsPhantomData, Last, path
<1>7. Uncoded(part.fields[i]) <=> IsPhantomData(part.fields[i])
  BY <1>2, <1>3, <1>4, <1>5, <1>6
<1>8. QED
  BY <1>7 DEF Active

\* A field is raw when its attribute says so.
LEMMA RawIs ==
  ASSUME NEW field, ~ CheckRawFails(field)
  PROVE  IsRaw(field) <=> HasOption(field, "raw")
BY DEF CheckRawFails, IsRaw, HasOption, Options, Range

\* The generated code of a declaration without typing errors compiles when its
\* fields' types have the traits it calls and no field hides the parser.
LEMMA WellTypedIs ==
  ASSUME NEW part, IsPart(part), NoTypo(part), NEW code, CodeFits(part, code),
         code.lets => part.shape = "named"
  PROVE  WellTyped(part, code) <=> TypesFit(part) /\ (code.lets => NoShadow(part))
<1> DEFINE Suits(i) == Accepts(part.fields[i].sort, IsRaw(part.fields[i]))
<1>1. Active(part) \subseteq DOMAIN part.fields
  BY DEF Active
<1>2. ReceiverTypes(part, code, code.encode) <=> \A i \in Active(part) : Suits(i)
  <2>1. ASSUME NEW i \in Active(part), NEW j \in DOMAIN part.fields,
               Member(part, j) \in DOMAIN code.scope,
               code.scope[Member(part, j)] = code.encode[i].of
        PROVE  j = i
    <3>1. Member(part, j) = Member(part, i)
      BY <2>1 DEF CodeFits
    <3>2. QED
      BY <1>1, <3>1, MemberInjective
  <2>2. \A i \in Active(part) :
          /\ Member(part, i) \in DOMAIN code.scope
          /\ code.scope[Member(part, i)] = code.encode[i].of
          /\ code.encode[i].raw = IsRaw(part.fields[i])
    BY DEF CodeFits
  <2>3. DOMAIN code.encode = Active(part)
    BY DEF CodeFits
  <2>4. ASSUME NEW i \in Active(part)
        PROVE  (\E j \in DOMAIN part.fields :
                  /\ Member(part, j) \in DOMAIN code.scope
                  /\ code.scope[Member(part, j)] = code.encode[i].of
                  /\ Accepts(part.fields[j].sort, code.encode[i].raw)) <=> Suits(i)
    BY <1>1, <2>1, <2>2, Zenon
  <2>5. QED
    BY <2>3, <2>4, Zenon DEF ReceiverTypes
<1>3. ASSUME NEW i \in Active(part)
      PROVE  (\E j \in DOMAIN part.fields :
                /\ Member(part, j) = code.decode[i].into
                /\ Accepts(part.fields[j].sort, code.decode[i].raw)) <=> Suits(i)
  <2>1. code.decode[i].into = Member(part, i) /\ code.decode[i].raw = IsRaw(part.fields[i])
    BY DEF CodeFits
  <2>2. \A j \in DOMAIN part.fields : Member(part, j) = Member(part, i) => j = i
    BY <1>1, MemberInjective
  <2>3. QED
    BY <1>1, <2>1, <2>2, Zenon
<1>4. ASSUME NEW j \in DOMAIN part.fields
      PROVE  (IF Member(part, j) \in code.markers THEN part.fields[j].sort = "marker"
              ELSE \E i \in DOMAIN code.decode : code.decode[i].into = Member(part, j))
                <=> (j \in Active(part) \/ part.fields[j].sort = "marker")
  <2>1. Member(part, j) \in code.markers <=> j \notin Active(part)
    BY MarkersAre DEF CodeFits
  <2>2. j \in Active(part) => j \in DOMAIN code.decode /\ code.decode[j].into = Member(part, j)
    BY DEF CodeFits
  <2>3. QED
    BY <2>1, <2>2
<1>5. (\A i \in Active(part) : ParserInScope(code, i)) <=> (code.lets => NoShadow(part))
  <2>1. CASE ~ code.lets
    BY <2>1 DEF ParserInScope
  <2>2. CASE code.lets
    <3>1. ASSUME NEW k \in Active(part)
          PROVE  code.decode[k].into # Ident("p") <=> part.fields[k].ident # "p"
      <4>1. code.decode[k].into = <<part.fields[k].ident>>
        BY <2>2 DEF CodeFits, Member, Ident
      <4>2. <<part.fields[k].ident>> = <<"p">> <=> part.fields[k].ident = "p"
        OBVIOUS
      <4>3. QED
        BY <4>1, <4>2 DEF Ident
    <3>2. DOMAIN code.decode = Active(part)
      BY DEF CodeFits
    <3>3. \A i \in DOMAIN part.fields : Uncoded(part.fields[i]) <=> i \notin Active(part)
      BY UncodedIs
    <3>4. NoShadow(part) <=>
            \A i, j \in Active(part) : i < j => part.fields[i].ident # "p"
      BY <1>1, <3>3 DEF NoShadow
    <3>5. QED
      BY <2>2, <3>1, <3>2, <3>4 DEF ParserInScope
  <2>3. QED
    BY <2>1, <2>2
<1>6. DecodeTypes(part, code) <=>
        /\ \A i \in Active(part) : ParserInScope(code, i) /\ Suits(i)
        /\ \A j \in DOMAIN part.fields : j \in Active(part) \/ part.fields[j].sort = "marker"
  <2>1. DOMAIN code.decode = Active(part)
    BY DEF CodeFits
  <2>2. QED
    BY <1>3, <1>4, <2>1, Zenon DEF DecodeTypes
<1>7. TypesFit(part) <=>
        /\ \A i \in Active(part) : Suits(i)
        /\ \A j \in DOMAIN part.fields : j \in Active(part) \/ part.fields[j].sort = "marker"
  <2>1. ASSUME NEW i \in DOMAIN part.fields
        PROVE  (IF Uncoded(part.fields[i]) THEN part.fields[i].sort = "marker"
                ELSE IF HasOption(part.fields[i], "raw") THEN part.fields[i].sort = "string"
                ELSE part.fields[i].sort \in CodecSorts)
                 <=> IF i \in Active(part) THEN Suits(i) ELSE part.fields[i].sort = "marker"
    <3>1. Uncoded(part.fields[i]) <=> i \notin Active(part)
      BY UncodedIs
    <3>2. IsRaw(part.fields[i]) <=> HasOption(part.fields[i], "raw")
      BY RawIs DEF NoTypo
    <3>3. QED
      BY <3>1, <3>2 DEF Accepts
  <2>2. QED
    BY <1>1, <2>1 DEF TypesFit
<1>8. code.count = code.encode
  BY DEF CodeFits
<1> HIDE DEF Suits
<1>9. QED
  BY <1>2, <1>5, <1>6, <1>7, <1>8, Zenon DEF WellTyped

\* The fields of the parts that have code carry no option but `raw`.
Checked == \A k \in DOMAIN arms : NoTypo(decl.parts[k])

\* The crate's path resolves unless no crate of the consumer is structkey.
LEMMA RootIsFound ==
  ASSUME NEW consumer, IsConsumer(consumer)
  PROVE  StructKeyRoot(consumer) \in consumer.externs
           <=> (consumer.found = "none" => "structkey" \in consumer.externs)
BY DEF IsConsumer, StructKeyRoot

\* The documentation asks for no less, and for more only where `raw` stands on a
\* field without code.
LEMMA FitIs ==
  ASSUME NEW d \in Decls
  PROVE  /\ FieldTypesFit(d) => CodesFit(d)
         /\ CodesFit(d) => FieldTypesFit(d) \/ RawOnMarker(d)
<1>1. StructKeyRoot(d.consumer) \in d.consumer.externs
        <=> (d.consumer.found = "none" => "structkey" \in d.consumer.externs)
  BY RootIsFound, DeclsAssumption
<1>2. FieldTypesFit(d) => CodesFit(d)
  BY <1>1 DEF FieldTypesFit, CodesFit, TypesFit, Range
<1>3. (CodesFit(d) /\ ~ RawOnMarker(d)) => FieldTypesFit(d)
  <2>1. SUFFICES ASSUME CodesFit(d), ~ RawOnMarker(d),
                        NEW k \in DOMAIN d.parts, NEW i \in DOMAIN d.parts[k].fields
                 PROVE  LET f == d.parts[k].fields[i]
                        IN  /\ HasOption(f, "raw") => f.sort = "string"
                            /\ IF Uncoded(f) THEN f.sort = "marker" ELSE f.sort \in CodecSorts
    BY <1>1 DEF FieldTypesFit, CodesFit, Range
  <2>2. ~ (Uncoded(d.parts[k].fields[i]) /\ HasOption(d.parts[k].fields[i], "raw"))
    BY <2>1 DEF RawOnMarker, Range
  <2>3. "string" \in CodecSorts
    BY DEF CodecSorts
  <2>4. QED
    BY <2>1, <2>2, <2>3 DEF CodesFit, TypesFit
<1>4. QED
  BY <1>2, <1>3

\* What the compiler accepts, said of the declaration alone.
LEMMA CompilesIs ==
  ASSUME NEW S, MacroInv(S), Accepted, Checked
  PROVE  (/\ StructKeyRoot(decl.consumer) \in decl.consumer.externs
          /\ \A k \in DOMAIN arms : WellTyped(decl.parts[k], arms[k]))
           <=> CodesFit(decl) /\ ~ ShadowsParser(decl)
<1>1. /\ DOMAIN arms = DOMAIN decl.parts
      /\ \A k \in DOMAIN arms : IsPart(decl.parts[k]) /\ CodeFits(decl.parts[k], arms[k])
      /\ decl.data # "enum" => DOMAIN arms = {1}
  BY CodesAre
<1>2. \A k \in DOMAIN arms : arms[k].lets <=> decl.data = "struct"
  <2>1. CASE decl.data = "struct"
    <3>1. arms = <<StructCode(decl.parts[1])>>
      BY <2>1 DEF MacroInv, Generated
    <3>2. DOMAIN arms = {1} /\ arms[1].lets
      BY <3>1 DEF StructCode
    <3>3. QED
      BY <2>1, <3>2
  <2>2. CASE decl.data # "struct"
    <3>1. ArmsBuilt /\ Len(arms) = Len(decl.parts)
      BY <2>2 DEF MacroInv, Generated
    <3>2. \A k \in DOMAIN arms : arms[k] = Arm(decl.parts[k], tags[k])
      BY <3>1 DEF ArmsBuilt
    <3>3. \A k \in DOMAIN arms : ~ Arm(decl.parts[k], tags[k]).lets
      BY <1>1, ArmHasNoLets
    <3>4. QED
      BY <2>2, <3>2, <3>3
  <2>3. QED
    BY <2>1, <2>2
<1>3. decl.data = "struct" => decl.parts[1].shape = "named" /\ DOMAIN arms = {1}
  BY <1>1, DeclsAssumption DEF MacroInv
<1>4. \A k \in DOMAIN arms :
        WellTyped(decl.parts[k], arms[k])
          <=> TypesFit(decl.parts[k]) /\ (decl.data = "struct" => NoShadow(decl.parts[k]))
  <2>1. TAKE k \in DOMAIN arms
  <2>2. IsPart(decl.parts[k]) /\ CodeFits(decl.parts[k], arms[k]) /\ NoTypo(decl.parts[k])
    BY <1>1 DEF Checked
  <2>3. arms[k].lets => decl.parts[k].shape = "named"
    BY <1>2, <1>3
  <2>4. QED
    BY <1>2, <2>2, <2>3, WellTypedIs
<1>5. CodesFit(decl) <=>
        /\ StructKeyRoot(decl.consumer) \in decl.consumer.externs
        /\ \A k \in DOMAIN arms : TypesFit(decl.parts[k])
  BY <1>1 DEF CodesFit
<1>6. ~ ShadowsParser(decl) <=>
        (decl.data = "struct" => \A k \in DOMAIN arms : NoShadow(decl.parts[k]))
  BY <1>3 DEF ShadowsParser, NoShadow
<1>7. QED
  BY <1>4, <1>5, <1>6

FitInv ==
  /\ (pc = "arms" \/ Accepted) => Checked
  /\ pc # "rejected" => error = NoError
  /\ (Accepted /\ pc # "compile") => CodesFit(decl) /\ ~ ShadowsParser(decl)
  /\ error = Err("does_not_compile") => ~ (CodesFit(decl) /\ ~ ShadowsParser(decl))

\* The errors of the macro are not those of the compiler.
MacroErrors == {"unknown_option", "empty_literal", "slash_in_literal", "none", "missing_prefix",
                "unsupported_shape", "empty_enum", "duplicate_tag"}
IsMacroError(e) == \E kind \in MacroErrors : e = Err(kind)

\* A bad option is reported by the macro.
LEMMA OptionErrors ==
  ASSUME NEW option, NEW name
  PROVE  OptionError(option, name) \in MacroErrors
BY Zenon DEF OptionError, MacroErrors

\* So are an option given twice or with a bad literal,
LEMMA LiteralErrors ==
  ASSUME NEW attrs, NEW path, NEW name, ~ IsOk(Literal(attrs, path, name))
  PROVE  IsMacroError(Literal(attrs, path, name))
<1> DEFINE options == Options(attrs, path)
           wrong == {k \in options : OptionError(attrs[k], name) # "none"}
<1>1. Literal(attrs, path, name) =
        IF wrong # {} THEN Err(OptionError(attrs[Min(wrong)], name))
        ELSE IF options = {} THEN NoText
        ELSE OkText(attrs[Max(options)].lit)
  BY DEF Literal
<1>2. IsOk(NoText) /\ \A t : IsOk(OkText(t))
  BY DEF IsOk, NoText, OkText
<1>3. wrong # {}
  BY <1>1, <1>2
<1>4. Literal(attrs, path, name) = Err(OptionError(attrs[Min(wrong)], name))
  BY <1>1, <1>3
<1>5. OptionError(attrs[Min(wrong)], name) \in MacroErrors
  BY OptionErrors
<1>6. QED
  BY <1>4, <1>5, Zenon DEF IsMacroError

\* a bad prefix,
LEMMA PrefixErrors ==
  ASSUME NEW d, ~ IsOk(StructKeyPrefix(d))
  PROVE  IsMacroError(StructKeyPrefix(d))
<1>1. CASE Literal(d.attrs, "structkey", "prefix") = NoText
  <2>1. StructKeyPrefix(d) = Err("missing_prefix")
    BY <1>1 DEF StructKeyPrefix
  <2>2. QED
    BY <2>1 DEF IsMacroError, MacroErrors
<1>2. CASE Literal(d.attrs, "structkey", "prefix") # NoText
  <2>1. StructKeyPrefix(d) = Literal(d.attrs, "structkey", "prefix")
    BY <1>2 DEF StructKeyPrefix
  <2>2. QED
    BY <2>1, LiteralErrors
<1>3. QED
  BY <1>1, <1>2

\* and a bad tag.
LEMMA TagErrors ==
  ASSUME NEW part, ~ IsOk(Tag(part))
  PROVE  IsMacroError(Tag(part))
<1>1. CASE CheckVariantRename(part) = NoText
  <2>1. Tag(part) = OkText(SnakeCase(part.ident))
    BY <1>1 DEF Tag
  <2>2. QED
    BY <2>1 DEF IsOk, OkText
<1>2. CASE CheckVariantRename(part) # NoText
  <2>1. Tag(part) = Literal(part.attrs, "codec", "rename")
    BY <1>2 DEF Tag, CheckVariantRename
  <2>2. QED
    BY <2>1, LiteralErrors
<1>3. QED
  BY <1>1, <1>2

\* The macro's errors are not the compiler's.
LEMMA NotTheCompilers ==
  ASSUME NEW e, IsMacroError(e)
  PROVE  e # Err("does_not_compile")
<1>1. PICK kind \in MacroErrors : e = Err(kind)
  BY DEF IsMacroError
<1>2. e.err # "does_not_compile"
  BY <1>1 DEF MacroErrors, Err
<1>3. Err("does_not_compile").err = "does_not_compile"
  BY DEF Err
<1>4. QED
  BY <1>2, <1>3

\* The invariant holds in the beginning,
LEMMA FitInit ==
  ASSUME Init
  PROVE  FitInv
<1>1. pc = "prefix" \/ pc = "codec"
  BY DEF Init
<1>2. error = NoError /\ NoError # Err("does_not_compile")
  BY DEF Init, NoError, Err
<1>3. QED
  BY <1>1, <1>2 DEF FitInv, Accepted

\* a rejection keeps it,
LEMMA FitReject ==
  ASSUME NEW e, IsMacroError(e), pc' = "rejected", error' = e
  PROVE  FitInv'
BY NotTheCompilers DEF FitInv, Accepted

\* (the kinds of the macro's errors are such errors)
LEMMA MacroErrorsAre ==
  \A kind \in MacroErrors : IsMacroError(Err(kind))
BY DEF IsMacroError

\* and so does every step.
LEMMA FitNext ==
  ASSUME NEW S, MacroInv(S), FitInv, [Next]_vars
  PROVE  FitInv'
<1>1. CASE ParseStructKeyPrefix
  <2>1. CASE IsOk(StructKeyPrefix(decl))
    BY <1>1, <2>1 DEF ParseStructKeyPrefix, Continue, FitInv, Accepted
  <2>2. CASE ~ IsOk(StructKeyPrefix(decl))
    BY <1>1, <2>2, PrefixErrors, FitReject DEF ParseStructKeyPrefix, Reject
  <2>3. QED
    BY <2>1, <2>2
<1>2. CASE BuildCodecImpl
  <2>1. CASE pc' # "rejected"
    BY <1>2, <2>1 DEF BuildCodecImpl, Continue, Reject, FitInv, Accepted
  <2>2. CASE pc' = "rejected"
    <3>1. error' = Err("unsupported_shape")
      BY <1>2, <2>2 DEF BuildCodecImpl, Continue, Reject
    <3>2. IsMacroError(Err("unsupported_shape"))
      BY MacroErrorsAre DEF MacroErrors
    <3>3. QED
      BY <2>2, <3>1, <3>2, FitReject
  <2>3. QED
    BY <2>1, <2>2
<1>3. CASE DeriveStruct
  <2>1. CASE pc' = "rejected"
    <3>1. error' = Err("unknown_option")
      BY <1>3, <2>1 DEF DeriveStruct, Continue, Reject
    <3>2. IsMacroError(Err("unknown_option"))
      BY MacroErrorsAre DEF MacroErrors
    <3>3. QED
      BY <2>1, <3>1, <3>2, FitReject
  <2>2. CASE pc' # "rejected"
    <3>1. /\ ~ \E f \in Range(decl.parts[1].fields) : CheckRawFails(f)
          /\ arms' = <<StructCode(decl.parts[1])>> /\ decl' = decl
          /\ pc = "struct" /\ pc' = "compile" /\ error' = error
      BY <1>3, <2>2 DEF DeriveStruct, Continue, Reject
    <3>2. NoTypo(decl.parts[1]) /\ DOMAIN arms' = {1}
      BY <3>1 DEF NoTypo, Range
    <3>3. Checked'
      BY <3>1, <3>2 DEF Checked
    <3>4. QED
      BY <3>1, <3>3 DEF FitInv
  <2>3. QED
    BY <2>1, <2>2
<1>4. CASE DeriveEnum
  <2> DEFINE all == [k \in DOMAIN decl.parts |-> Tag(decl.parts[k])]
             wrong == {k \in DOMAIN all : ~ IsOk(all[k])}
  <2>1. CASE decl.parts = <<>>
    <3>1. pc' = "rejected" /\ error' = Err("empty_enum")
      BY <1>4, <2>1 DEF DeriveEnum, Reject
    <3>2. IsMacroError(Err("empty_enum"))
      BY MacroErrorsAre DEF MacroErrors
    <3>3. QED
      BY <3>1, <3>2, FitReject
  <2>2. CASE decl.parts # <<>> /\ wrong # {}
    <3>1. pc' = "rejected" /\ error' = all[Min(wrong)]
      BY <1>4, <2>2 DEF DeriveEnum, Reject
    <3>2. wrong \subseteq DOMAIN decl.parts /\ DOMAIN decl.parts \subseteq Nat
      BY DeclsAssumption DEF IsList, MacroInv
    <3>3. \E k \in wrong : \A j \in wrong : k <= j
      BY <2>2, <3>2, LeastElement
    <3>4. Min(wrong) \in wrong
      BY <3>3 DEF Min
    <3>5. all[Min(wrong)] = Tag(decl.parts[Min(wrong)]) /\ ~ IsOk(Tag(decl.parts[Min(wrong)]))
      BY <3>4
    <3>6. IsMacroError(all[Min(wrong)])
      BY <3>5, TagErrors
    <3>7. QED
      BY <3>1, <3>6, FitReject
  <2>3. CASE decl.parts # <<>> /\ wrong = {}
    <3>1. pc = "enum" /\ pc' = "unique" /\ error' = error /\ decl' = decl
      BY <1>4, <2>3 DEF DeriveEnum, Continue
    <3>2. QED
      BY <3>1 DEF FitInv, Accepted
  <2>4. QED
    BY <2>1, <2>2, <2>3
<1>5. CASE CheckUniqueVariantTags
  <2>1. CASE pc' = "rejected"
    <3>1. error' = Err("duplicate_tag")
      BY <1>5, <2>1 DEF CheckUniqueVariantTags, Continue, Reject
    <3>2. IsMacroError(Err("duplicate_tag"))
      BY MacroErrorsAre DEF MacroErrors
    <3>3. QED
      BY <2>1, <3>1, <3>2, FitReject
  <2>2. CASE pc' # "rejected"
    <3>1. pc = "unique" /\ pc' = "arms" /\ UNCHANGED <<error, decl, arms>>
      BY <1>5, <2>2 DEF CheckUniqueVariantTags, Continue, Reject
    <3>2. arms' = <<>>
      BY <3>1 DEF MacroInv
    <3>3. Checked'
      BY <3>2 DEF Checked
    <3>4. QED
      BY <3>1, <3>3 DEF FitInv, Accepted
  <2>3. QED
    BY <2>1, <2>2
<1>6. CASE BuildVariantParts
  <2>1. CASE pc' = "rejected"
    <3>1. error' = Err("unknown_option")
      BY <1>6, <2>1 DEF BuildVariantParts, Continue, Reject
    <3>2. IsMacroError(Err("unknown_option"))
      BY MacroErrorsAre DEF MacroErrors
    <3>3. QED
      BY <2>1, <3>1, <3>2, FitReject
  <2>2. CASE pc' # "rejected"
    <3>1. /\ pc = "arms" /\ pc' \in {"compile", "arms"} /\ error' = error /\ decl' = decl
          /\ ~ \E f \in Range(decl.parts[Len(arms) + 1].fields) : CheckRawFails(f)
          /\ arms' = Append(arms, Arm(decl.parts[Len(arms) + 1], tags[Len(arms) + 1]))
      BY <1>6, <2>2 DEF BuildVariantParts, Continue, Reject
    <3>2. arms \in Seq(AllArms) /\ Checked
      BY <3>1 DEF MacroInv, ArmsBuilt, FitInv
    <3>3. DOMAIN arms' = DOMAIN arms \cup {Len(arms) + 1}
      BY <3>1, <3>2
    <3>4. NoTypo(decl.parts[Len(arms) + 1])
      BY <3>1 DEF NoTypo, Range
    <3>5. Checked'
      BY <3>1, <3>2, <3>3, <3>4 DEF Checked
    <3>6. QED
      BY <3>1, <3>5 DEF FitInv, Accepted
  <2>3. QED
    BY <2>1, <2>2
<1>7. CASE Compile
  <2>1. pc = "compile" /\ UNCHANGED <<decl, arms>> /\ Accepted /\ Checked
    BY <1>7 DEF Compile, Accepted, FitInv
  <2>2. CASE pc' = "compiled"
    <3>1. /\ StructKeyRoot(decl.consumer) \in decl.consumer.externs
          /\ \A k \in DOMAIN arms : WellTyped(decl.parts[k], arms[k])
          /\ error' = error
      BY <1>7, <2>2 DEF Compile, Continue
    <3>2. CodesFit(decl) /\ ~ ShadowsParser(decl)
      BY <2>1, <3>1, CompilesIs
    <3>3. Checked'
      BY <2>1 DEF Checked
    <3>4. QED
      BY <2>1, <2>2, <3>1, <3>2, <3>3 DEF FitInv
  <2>3. CASE pc' = "rejected"
    <3>1. ~ (/\ StructKeyRoot(decl.consumer) \in decl.consumer.externs
             /\ \A k \in DOMAIN arms : WellTyped(decl.parts[k], arms[k]))
      BY <1>7, <2>3 DEF Compile, Continue
    <3>2. ~ (CodesFit(decl) /\ ~ ShadowsParser(decl))
      BY <2>1, <3>1, CompilesIs
    <3>3. QED
      BY <2>1, <2>3, <3>2 DEF FitInv, Accepted
  <2>4. QED
    BY <1>7, <2>2, <2>3 DEF Compile, Continue
<1>8. CASE EncodeKey \/ EncodeField \/ DecodeKey \/ DecodeForeign \/ MatchTag \/ DecodeField
             \/ Construct
  <2>1. Running /\ Running' /\ UNCHANGED macro
    BY <1>8 DEF EncodeKey, EncodeField, DecodeKey, DecodeForeign, StartDecode, MatchTag,
                DecodeField, Construct, Fail, Running
  <2>2. Checked' <=> Checked
    BY <2>1 DEF Checked, macro
  <2>3. QED
    BY <2>1, <2>2 DEF FitInv, Running, Accepted, macro
<1>9. CASE UNCHANGED vars
  BY <1>9 DEF vars, macro, FitInv, Accepted, Checked
<1>10. QED
  BY <1>1, <1>2, <1>3, <1>4, <1>5, <1>6, <1>7, <1>8, <1>9 DEF Next

\* For every declaration, the generated code compiles when the types of the
\* fields are as documented and no field `p` of a struct hides the parser, and
\* only then, but for `raw` on a field without code, which is ignored
\* (derive 23-45, 190-239, 436-491).
THEOREM CompilesCorrect == Spec => []CompilesWhenTypesFit
<1> DEFINE S == {Tag(d.parts[k]).text : d \in Decls, k \in Nat}
<1>1. TagsIn(S)
  BY DeclsAssumption DEF IsList, TagsIn
<1> HIDE DEF S
<1>2. Init => MacroInv(S) /\ FitInv
  BY MacroInit, FitInit
<1>3. MacroInv(S) /\ FitInv /\ [Next]_vars => MacroInv(S)' /\ FitInv'
  BY <1>1, MacroNext, FitNext
<1>4. MacroInv(S) /\ FitInv => CompilesWhenTypesFit
  <2>1. MacroInv(S) => decl \in Decls
    BY DEF MacroInv
  <2>2. QED
    BY <2>1, FitIs DEF FitInv, CompilesWhenTypesFit
<1>5. QED
  BY <1>2, <1>3, <1>4, PTL DEF Spec

-----------------------------------------------------------------------------
(***************************************************************************)
(* The macro rejects exactly what has a defect.                            *)
(***************************************************************************)
\* One option.
LEMMA OptionErrorIs ==
  ASSUME NEW o, NEW name
  PROVE  /\ OptionError(o, name) = "unknown_option" <=> o.name # name
         /\ OptionError(o, name) = "empty_literal" <=> o.name = name /\ o.lit = <<>>
         /\ OptionError(o, name) = "slash_in_literal" <=> o.name = name /\ Slash \in Range(o.lit)
         /\ OptionError(o, name) \in {"unknown_option", "empty_literal", "slash_in_literal", "none"}
<1>1. o.lit = <<>> => Slash \notin Range(o.lit)
  BY DEF Range
<1>2. o.name # name => OptionError(o, name) = "unknown_option"
  BY Zenon DEF OptionError
<1>3. o.name = name /\ o.lit = <<>> => OptionError(o, name) = "empty_literal"
  BY <1>1, Zenon DEF OptionError
<1>4. o.name = name /\ o.lit # <<>> /\ Slash \in Range(o.lit)
        => OptionError(o, name) = "slash_in_literal"
  BY DEF OptionError
<1>5. o.name = name /\ o.lit # <<>> /\ Slash \notin Range(o.lit) => OptionError(o, name) = "none"
  BY DEF OptionError
<1>6. QED
  BY <1>1, <1>2, <1>3, <1>4, <1>5

\* The options of a list.
LEMMA OptionDefectsAre ==
  ASSUME NEW attrs, NEW path, NEW name
  PROVE  \A e : e \in OptionDefects(attrs, path, name)
                <=> e # "none" /\ \E k \in Options(attrs, path) : e = OptionError(attrs[k], name)
<1> DEFINE given == {o \in Range(attrs) : o.path = path}
<1>1. \A o : o \in given <=> \E k \in Options(attrs, path) : o = attrs[k]
  BY DEF Options, Range
<1>2. ASSUME NEW e
      PROVE  e \in OptionDefects(attrs, path, name)
               <=> \E o \in given : \/ e = "unknown_option" /\ o.name # name
                                    \/ e = "empty_literal" /\ o.name = name /\ o.lit = <<>>
                                    \/ /\ e = "slash_in_literal"
                                       /\ o.name = name /\ Slash \in Range(o.lit)
  BY Zenon DEF OptionDefects
<1>3. ASSUME NEW e, NEW o
      PROVE  (\/ e = "unknown_option" /\ o.name # name
              \/ e = "empty_literal" /\ o.name = name /\ o.lit = <<>>
              \/ /\ e = "slash_in_literal"
                 /\ o.name = name /\ Slash \in Range(o.lit))
               <=> e # "none" /\ e = OptionError(o, name)
  BY OptionErrorIs
<1> HIDE DEF given
<1>4. ASSUME NEW e
      PROVE  e \in OptionDefects(attrs, path, name)
               <=> \E o \in given : e # "none" /\ e = OptionError(o, name)
  BY <1>2, <1>3, Zenon
<1>5. QED
  BY <1>1, <1>4, Zenon

\* The literal of an option is the only one given, or the defect of one.
LEMMA LiteralIs ==
  ASSUME NEW attrs, IsList(attrs), NEW path, NEW name
  PROVE  LET literal == Literal(attrs, path, name)
             options == Options(attrs, path)
         IN  IF IsOk(literal)
             THEN /\ OptionDefects(attrs, path, name) = {}
                  /\ literal = IF options = {} THEN NoText ELSE OkText(attrs[Max(options)].lit)
             ELSE literal.err \in OptionDefects(attrs, path, name)
<1> DEFINE options == Options(attrs, path)
           wrong == {k \in options : OptionError(attrs[k], name) # "none"}
<1>1. Literal(attrs, path, name) =
        IF wrong # {} THEN Err(OptionError(attrs[Min(wrong)], name))
        ELSE IF options = {} THEN NoText
        ELSE OkText(attrs[Max(options)].lit)
  BY DEF Literal
<1>2. CASE wrong # {}
  <2>1. wrong \subseteq Nat
    BY DEF Options, IsList
  <2>2. \E k \in wrong : \A j \in wrong : k <= j
    BY <1>2, <2>1, LeastElement
  <2>3. Min(wrong) \in wrong
    BY <2>2 DEF Min
  <2>4. Literal(attrs, path, name) = Err(OptionError(attrs[Min(wrong)], name))
    BY <1>1, <1>2
  <2>5. OptionError(attrs[Min(wrong)], name) \in OptionDefects(attrs, path, name)
    BY <2>3, OptionDefectsAre
  <2>6. ~ IsOk(Literal(attrs, path, name))
        /\ Literal(attrs, path, name).err = OptionError(attrs[Min(wrong)], name)
    BY <2>4 DEF IsOk, Err
  <2>7. QED
    BY <2>5, <2>6
<1>3. CASE wrong = {}
  <2>1. OptionDefects(attrs, path, name) = {}
    BY <1>3, OptionDefectsAre
  <2>2. Literal(attrs, path, name)
          = IF options = {} THEN NoText ELSE OkText(attrs[Max(options)].lit)
    BY <1>1, <1>3
  <2>3. IsOk(NoText) /\ \A t : IsOk(OkText(t))
    BY DEF IsOk, NoText, OkText
  <2>4. IsOk(Literal(attrs, path, name))
    BY <2>2, <2>3
  <2>5. QED
    BY <2>1, <2>2, <2>4
<1>4. QED
  BY <1>2, <1>3

\* Where snake_case puts an underscore: the places that are needed are enough,
\* and none can be left out.
LEMMA WordStartsAre ==
  ASSUME NEW ident, IsList(ident)
  PROVE  WordStarts(ident) = {p \in 1 .. Len(ident) : NeedsSep(ident, p)}
<1> DEFINE N == {p \in 1 .. Len(ident) : NeedsSep(ident, p)}
           places == {p \in 2 .. Len(ident) : ident[p] \in Upper}
<1>1. Len(ident) \in Nat
  BY DEF IsList
<1>2. N \in SUBSET places
  BY <1>1 DEF NeedsSep
<1>3. ASSUME NEW cuts
      PROVE  Joins(ident, cuts) <=> \E n \in N : n \notin cuts
  <2>1. ASSUME NEW p \in 1 .. Len(ident) - 1
        PROVE  (\/ ident[p] \in Lower /\ ident[p + 1] \in Upper /\ p + 1 \notin cuts
                \/ /\ p + 2 <= Len(ident)
                   /\ ident[p] \in Upper /\ ident[p + 1] \in Upper /\ ident[p + 2] \in Lower
                   /\ p + 1 \notin cuts)
                 <=> p + 1 \in N /\ p + 1 \notin cuts
    <3>1. /\ p + 1 \in 1 .. Len(ident) /\ p + 1 > 1 /\ (p + 1) - 1 = p /\ (p + 1) + 1 = p + 2
          /\ p + 1 < Len(ident) <=> p + 2 <= Len(ident)
      BY <1>1
    <3>2. NeedsSep(ident, p + 1) <=>
            /\ ident[p + 1] \in Upper
            /\ \/ ident[p] \in Lower
               \/ ident[p] \in Upper /\ p + 2 <= Len(ident) /\ ident[p + 2] \in Lower
      BY <3>1, Zenon DEF NeedsSep
    <3>3. QED
      BY <3>1, <3>2, Zenon
  <2>2. \A n \in N : n - 1 \in 1 .. Len(ident) - 1 /\ (n - 1) + 1 = n
    BY <1>1, <1>2
  <2> HIDE DEF N
  <2>3. Joins(ident, cuts) <=> \E p \in 1 .. Len(ident) - 1 : p + 1 \in N /\ p + 1 \notin cuts
    BY <2>1, Zenon DEF Joins
  <2>4. QED
    BY <2>2, <2>3
<1> DEFINE Fits(cuts) == /\ ~ Joins(ident, cuts)
                         /\ \A fewer \in SUBSET cuts : fewer # cuts => Joins(ident, fewer)
<1> HIDE DEF N, places
<1>4. Fits(N)
  <2>1. ASSUME NEW fewer \in SUBSET N, fewer # N
        PROVE  \E n \in N : n \notin fewer
    BY <2>1
  <2>2. QED
    BY <1>3, <2>1
<1>5. ASSUME NEW cuts, Fits(cuts)
      PROVE  cuts = N
  <2>1. N \in SUBSET cuts
    BY <1>3, <1>5
  <2>2. ~ Joins(ident, N)
    BY <1>3
  <2>3. QED
    BY <1>5, <2>1, <2>2
<1>6. WordStarts(ident) = CHOOSE cuts \in SUBSET places : Fits(cuts)
  BY DEF WordStarts, places
<1> HIDE DEF Fits
<1>7. QED
  BY <1>2, <1>4, <1>5, <1>6 DEF N

\* Short sequences.
LEMMA OneAndOne ==
  ASSUME NEW a, NEW b
  PROVE  <<a>> \o <<b>> = <<a, b>> /\ <<>> \o <<b>> = <<b>>
<1> DEFINE T == {a, b}
           u == <<a>>
           v == <<b>>
           w == <<a, b>>
<1>1. /\ u \in Seq(T) /\ Len(u) = 1 /\ u[1] = a
      /\ v \in Seq(T) /\ Len(v) = 1 /\ v[1] = b
      /\ w \in Seq(T) /\ Len(w) = 2 /\ w[1] = a /\ w[2] = b
  OBVIOUS
<1>2. <<>> \o <<b>> = <<b>>
  BY <1>1, ConcatEmptySeq
<1> HIDE DEF T, u, v, w
<1>3. \A x, y \in Seq(T) :
        /\ x \o y \in Seq(T) /\ Len(x \o y) = Len(x) + Len(y)
        /\ \A i \in 1 .. Len(x) + Len(y) : (x \o y)[i] = IF i <= Len(x) THEN x[i] ELSE y[i - Len(x)]
  BY ConcatProperties
<1>4. /\ u \o v \in Seq(T) /\ Len(u \o v) = 1 + 1
      /\ \A i \in 1 .. 1 + 1 : (u \o v)[i] = IF i <= 1 THEN u[i] ELSE v[i - 1]
  <2>1. u \in Seq(T) /\ v \in Seq(T)
    BY <1>1
  <2>2. /\ u \o v \in Seq(T) /\ Len(u \o v) = Len(u) + Len(v)
        /\ \A i \in 1 .. Len(u) + Len(v) : (u \o v)[i] = IF i <= Len(u) THEN u[i] ELSE v[i - Len(u)]
    BY <1>3, <2>1, Zenon
  <2>3. Len(u) = 1 /\ Len(v) = 1
    BY <1>1
  <2>4. QED
    BY <2>2, <2>3
<1>5. (u \o v)[1] = u[1] /\ (u \o v)[2] = v[1]
  <2>1. 1 \in 1 .. 1 + 1 /\ 2 \in 1 .. 1 + 1 /\ 1 <= 1 /\ ~ (2 <= 1) /\ 2 - 1 = 1
    OBVIOUS
  <2>2. QED
    BY <1>4, <2>1
<1>6. \A i \in 1 .. 2 : (u \o v)[i] = w[i]
  <2>1. \A i \in 1 .. 2 : i = 1 \/ i = 2
    OBVIOUS
  <2>2. QED
    BY <1>1, <1>5, <2>1
<1>7. u \o v = w
  BY <1>1, <1>4, <1>6, SeqEqual
<1>8. QED
  BY <1>2, <1>7 DEF u, v, w

\* The fold over the characters puts a '_' before each word.
LEMMA SnakeCaseIs ==
  ASSUME NEW ident, IsList(ident)
  PROVE  SnakeCase(ident) = Separated(ident, WordStarts(ident))
<1> DEFINE cuts == WordStarts(ident)
           f == [p \in DOMAIN ident |->
                   IF NeedsSep(ident, p) THEN <<Underscore, ToLower(ident[p])>>
                   ELSE <<ToLower(ident[p])>>]
           g == [p \in DOMAIN ident |->
                   (IF p \in cuts THEN <<Underscore>> ELSE <<>>) \o <<ToLower(ident[p])>>]
<1>1. \A p \in DOMAIN ident : p \in cuts <=> NeedsSep(ident, p)
  BY WordStartsAre DEF IsList
<1>2. \A a, b : <<a>> \o <<b>> = <<a, b>> /\ <<>> \o <<b>> = <<b>>
  BY OneAndOne
<1> HIDE DEF cuts
<1>3. f = g
  BY <1>1, <1>2
<1>4. SnakeCase(ident) = FlattenSeq(f) /\ Separated(ident, cuts) = FlattenSeq(g)
  BY DEF SnakeCase, Separated
<1> HIDE DEF f, g
<1>5. QED
  BY <1>3, <1>4 DEF cuts

\* The tag that is generated is the discriminant that is declared.
LEMMA TagIsDiscriminant ==
  ASSUME NEW part, IsPart(part), IsOk(Tag(part))
  PROVE  Tag(part) = OkText(Discriminant(part)) /\ OptionDefects(part.attrs, "codec", "rename") = {}
<1> DEFINE literal == Literal(part.attrs, "codec", "rename")
           options == Options(part.attrs, "codec")
<1>1. Tag(part) = IF literal = NoText THEN OkText(SnakeCase(part.ident)) ELSE literal
  BY DEF Tag, CheckVariantRename
<1>2. IsOk(literal)
  BY <1>1 DEF IsOk, NoText
<1>3. /\ OptionDefects(part.attrs, "codec", "rename") = {}
      /\ literal = IF options = {} THEN NoText ELSE OkText(part.attrs[Max(options)].lit)
  BY <1>2, LiteralIs DEF IsPart
<1>4. \A t : OkText(t) # NoText
  BY DEF OkText, NoText
<1>5. Discriminant(part) =
        IF options = {} THEN Separated(part.ident, WordStarts(part.ident))
        ELSE part.attrs[CHOOSE k \in options : \A j \in options : j <= k].lit
  BY DEF Discriminant, Options
<1>6. options # {} => Max(options) = CHOOSE k \in options : \A j \in options : j <= k
  <2>1. \A k, j \in options : k >= j <=> j <= k
    BY DEF Options, IsPart, IsList
  <2> HIDE DEF options
  <2>2. \A k : (k \in options /\ \A j \in options : k >= j)
               <=> (k \in options /\ \A j \in options : j <= k)
    BY <2>1
  <2>3. QED
    BY <2>2 DEF Max
<1>7. SnakeCase(part.ident) = Separated(part.ident, WordStarts(part.ident))
  BY SnakeCaseIs DEF IsPart
<1> HIDE DEF literal, options
<1>8. QED
  BY <1>1, <1>3, <1>4, <1>5, <1>6, <1>7

\* A field's options are of no concern exactly if check_raw() accepts them.
LEMMA RawFailsIs ==
  ASSUME NEW part
  PROVE  (\E f \in Range(part.fields) : CheckRawFails(f)) <=> ~ NoTypo(part)
BY DEF NoTypo, Range

\* The defects, one kind after the other.
DefectKinds(d, e) ==
  \/ d.data = "other" /\ e = "unsupported_shape"
  \/ d.data = "enum" /\ DOMAIN d.parts = {} /\ e = "empty_enum"
  \/ d.derive = "StructKey" /\ e \in OptionDefects(d.attrs, "structkey", "prefix")
  \/ /\ d.derive = "StructKey" /\ Options(d.attrs, "structkey") = {}
     /\ e = "missing_prefix"
  \/ /\ d.data = "enum"
     /\ \E k \in DOMAIN d.parts : e \in OptionDefects(d.parts[k].attrs, "codec", "rename")
  \/ /\ d.data = "enum" /\ e = "duplicate_tag"
     /\ \E j, k \in DOMAIN d.parts :
          j # k /\ Discriminant(d.parts[j]) = Discriminant(d.parts[k])
  \/ /\ d.data # "other" /\ e = "unknown_option"
     /\ \E k \in DOMAIN d.parts : ~ NoTypo(d.parts[k])

\* The defects of a declaration, one kind after the other.
LEMMA DefectsAre ==
  ASSUME NEW d, NEW e
  PROVE  e \in Defects(d) <=> DefectKinds(d, e)
<1> DEFINE parts == IF d.data = "other" THEN {} ELSE Range(d.parts)
           fields == UNION {Range(part.fields) : part \in parts}
           prefixes == OptionDefects(d.attrs, "structkey", "prefix")
           Renames(part) == OptionDefects(part.attrs, "codec", "rename")
           typos == {f \in fields : \E o \in Range(f.attrs) : o.path = "codec" /\ o.name # "raw"}
           isEnum == d.data = "enum"
           asKey == d.derive = "StructKey"
           Twice == \E j, k \in DOMAIN d.parts :
                      j # k /\ Discriminant(d.parts[j]) = Discriminant(d.parts[k])
           noOption == \A o \in Range(d.attrs) : o.path # "structkey"
<1>1. Defects(d) =
        (IF d.data = "other" THEN {"unsupported_shape"} ELSE {})
        \cup (IF isEnum /\ parts = {} THEN {"empty_enum"} ELSE {})
        \cup (IF asKey THEN prefixes ELSE {})
        \cup (IF asKey /\ noOption THEN {"missing_prefix"} ELSE {})
        \cup (IF isEnum THEN UNION {Renames(part) : part \in parts} ELSE {})
        \cup (IF isEnum /\ Twice THEN {"duplicate_tag"} ELSE {})
        \cup {"unknown_option" : f \in typos}
  BY Zenon DEF Defects
<1>2. isEnum => parts = Range(d.parts)
  OBVIOUS
<1>3. isEnum => (parts = {} <=> DOMAIN d.parts = {})
  BY <1>2 DEF Range
<1>4. noOption <=> Options(d.attrs, "structkey") = {}
  BY DEF Range, Options
<1>5. isEnum => (e \in UNION {Renames(part) : part \in parts}
                   <=> \E k \in DOMAIN d.parts : e \in Renames(d.parts[k]))
  BY <1>2 DEF Range
<1>6. typos # {} <=> (d.data # "other" /\ \E k \in DOMAIN d.parts : ~ NoTypo(d.parts[k]))
  <2>1. \A f : (\E o \in Range(f.attrs) : o.path = "codec" /\ o.name # "raw") <=> CheckRawFails(f)
    BY DEF CheckRawFails, Options, Range
  <2>2. \A f : f \in fields <=> (d.data # "other" /\ \E k \in DOMAIN d.parts : f \in Range(d.parts[k].fields))
    BY DEF Range
  <2> HIDE DEF fields
  <2>3. typos # {} <=> \E f \in fields : CheckRawFails(f)
    BY <2>1
  <2>4. QED
    BY <2>2, <2>3, RawFailsIs
<1>7. e \in {"unknown_option" : f \in typos} <=> e = "unknown_option" /\ typos # {}
  OBVIOUS
<1> HIDE DEF parts, fields, prefixes, Renames, typos, isEnum, asKey, Twice, noOption
<1>8. e \in Defects(d) <=>
        \/ d.data = "other" /\ e = "unsupported_shape"
        \/ isEnum /\ parts = {} /\ e = "empty_enum"
        \/ asKey /\ e \in prefixes
        \/ asKey /\ noOption /\ e = "missing_prefix"
        \/ isEnum /\ e \in UNION {Renames(part) : part \in parts}
        \/ isEnum /\ Twice /\ e = "duplicate_tag"
        \/ e \in {"unknown_option" : f \in typos}
  BY <1>1
<1>9. QED
  BY <1>3, <1>4, <1>5, <1>6, <1>7, <1>8 DEF DefectKinds, prefixes, Renames, isEnum, asKey, Twice

-----------------------------------------------------------------------------
\* What the macro has checked when it is where it is.
PrefixChecked ==
  decl.derive = "StructKey" =>
    /\ OptionDefects(decl.attrs, "structkey", "prefix") = {}
    /\ Options(decl.attrs, "structkey") # {}

TagsChecked ==
  decl.data = "enum" =>
    /\ DOMAIN decl.parts # {}
    /\ \A k \in DOMAIN decl.parts :
         /\ OptionDefects(decl.parts[k].attrs, "codec", "rename") = {}
         /\ tags[k] = Discriminant(decl.parts[k])

RejectInv ==
  /\ pc = "prefix" => decl.derive = "StructKey"
  /\ pc \in {"codec", "struct", "enum", "unique", "arms"} \/ Accepted => PrefixChecked
  /\ pc \in {"unique", "arms"} \/ Accepted => TagsChecked
  /\ pc = "arms" => Len(arms) < Len(decl.parts)
  /\ (pc = "rejected" /\ error.err # "does_not_compile") => error.err \in Defects(decl)

\* The invariant holds in the beginning.
LEMMA RejectInit ==
  ASSUME Init
  PROVE  RejectInv
BY DEF Init, RejectInv, Accepted, PrefixChecked

\* What each function returns when it fails.
LEMMA PrefixIs ==
  ASSUME NEW d \in Decls, d.derive = "StructKey"
  PROVE  IF IsOk(StructKeyPrefix(d))
         THEN /\ OptionDefects(d.attrs, "structkey", "prefix") = {}
              /\ Options(d.attrs, "structkey") # {}
         ELSE StructKeyPrefix(d).err \in Defects(d)
<1> DEFINE found == Literal(d.attrs, "structkey", "prefix")
<1>1. IF IsOk(found)
      THEN /\ OptionDefects(d.attrs, "structkey", "prefix") = {}
           /\ found = IF Options(d.attrs, "structkey") = {} THEN NoText
                      ELSE OkText(d.attrs[Max(Options(d.attrs, "structkey"))].lit)
      ELSE found.err \in OptionDefects(d.attrs, "structkey", "prefix")
  BY LiteralIs, DeclsAssumption
<1>2. StructKeyPrefix(d) = IF found = NoText THEN Err("missing_prefix") ELSE found
  BY DEF StructKeyPrefix
<1>3. /\ IsOk(NoText) /\ (\A t : OkText(t) # NoText)
      /\ ~ IsOk(Err("missing_prefix")) /\ Err("missing_prefix").err = "missing_prefix"
  BY DEF IsOk, NoText, OkText, Err
<1> HIDE DEF found
<1>4. CASE found = NoText
  BY <1>1, <1>2, <1>3, <1>4, DefectsAre DEF DefectKinds
<1>5. CASE found # NoText
  BY <1>1, <1>2, <1>3, <1>5, DefectsAre DEF DefectKinds
<1>6. QED
  BY <1>4, <1>5

\* A tag that is refused is a defect of the declaration.
LEMMA TagFails ==
  ASSUME NEW d \in Decls, d.data = "enum", NEW k \in DOMAIN d.parts, ~ IsOk(Tag(d.parts[k]))
  PROVE  Tag(d.parts[k]).err \in Defects(d)
<1> DEFINE part == d.parts[k]
           literal == Literal(part.attrs, "codec", "rename")
<1>1. IsPart(part)
  BY DeclsAssumption
<1>2. Tag(part) = IF literal = NoText THEN OkText(SnakeCase(part.ident)) ELSE literal
  BY DEF Tag, CheckVariantRename
<1>3. \A t : IsOk(OkText(t))
  BY DEF IsOk, OkText
<1>4. Tag(part) = literal /\ ~ IsOk(literal)
  BY <1>2, <1>3
<1>5. literal.err \in OptionDefects(part.attrs, "codec", "rename")
  BY <1>1, <1>4, LiteralIs DEF IsPart
<1>6. QED
  BY <1>4, <1>5, DefectsAre DEF DefectKinds

\* An error has its kind.
LEMMA ErrIs ==
  \A kind : Err(kind).err = kind
BY DEF Err

\* Every step keeps the invariant.
LEMMA RejectNext ==
  ASSUME NEW S, MacroInv(S), FitInv, RejectInv, [Next]_vars
  PROVE  RejectInv'
<1>1. decl \in Decls /\ \A k \in DOMAIN decl.parts : IsPart(decl.parts[k])
  BY DeclsAssumption DEF MacroInv
<1>2. CASE ParseStructKeyPrefix
  <2>1. pc = "prefix" /\ decl' = decl /\ decl.derive = "StructKey"
    BY <1>2 DEF ParseStructKeyPrefix, RejectInv
  <2>2. CASE IsOk(StructKeyPrefix(decl))
    <3>1. pc' = "codec"
      BY <1>2, <2>2 DEF ParseStructKeyPrefix, Continue
    <3>2. PrefixChecked'
      BY <1>1, <2>1, <2>2, PrefixIs DEF PrefixChecked
    <3>3. QED
      BY <3>1, <3>2 DEF RejectInv, Accepted
  <2>3. CASE ~ IsOk(StructKeyPrefix(decl))
    <3>1. pc' = "rejected" /\ error' = StructKeyPrefix(decl)
      BY <1>2, <2>3 DEF ParseStructKeyPrefix, Reject
    <3>2. error'.err \in Defects(decl)
      BY <1>1, <2>1, <2>3, <3>1, PrefixIs
    <3>3. QED
      BY <2>1, <3>1, <3>2 DEF RejectInv, Accepted
  <2>4. QED
    BY <2>2, <2>3
<1>3. CASE BuildCodecImpl
  <2>1. pc = "codec" /\ decl' = decl /\ PrefixChecked
    BY <1>3 DEF BuildCodecImpl, RejectInv
  <2>2. PrefixChecked'
    BY <2>1 DEF PrefixChecked
  <2>3. CASE pc' # "rejected"
    <3>1. pc' \in {"struct", "enum"}
      BY <1>3, <2>3 DEF BuildCodecImpl, Continue, Reject
    <3>2. QED
      BY <2>2, <3>1 DEF RejectInv, Accepted
  <2>4. CASE pc' = "rejected"
    <3>1. decl.data = "other" /\ error' = Err("unsupported_shape")
      BY <1>3, <2>4 DEF BuildCodecImpl, Continue, Reject
    <3>2. error'.err \in Defects(decl)
      BY <3>1, ErrIs, DefectsAre DEF DefectKinds
    <3>3. QED
      BY <2>1, <2>4, <3>2 DEF RejectInv, Accepted
  <2>5. QED
    BY <2>3, <2>4
<1>4. CASE DeriveStruct
  <2>1. pc = "struct" /\ decl' = decl /\ decl.data = "struct" /\ PrefixChecked
    BY <1>4 DEF DeriveStruct, RejectInv, MacroInv
  <2>2. PrefixChecked' /\ TagsChecked'
    BY <2>1 DEF PrefixChecked, TagsChecked
  <2>3. CASE pc' # "rejected"
    <3>1. pc' = "compile"
      BY <1>4, <2>3 DEF DeriveStruct, Continue, Reject
    <3>2. QED
      BY <2>2, <3>1 DEF RejectInv, Accepted
  <2>4. CASE pc' = "rejected"
    <3>1. ~ NoTypo(decl.parts[1]) /\ error' = Err("unknown_option")
      BY <1>4, <2>4, RawFailsIs DEF DeriveStruct, Continue, Reject
    <3>2. 1 \in DOMAIN decl.parts
      BY <1>1, <2>1, DeclsAssumption DEF IsList
    <3>3. error'.err \in Defects(decl)
      BY <2>1, <3>1, <3>2, ErrIs, DefectsAre DEF DefectKinds
    <3>4. QED
      BY <2>1, <2>4, <3>3 DEF RejectInv, Accepted
  <2>5. QED
    BY <2>3, <2>4
<1>5. CASE DeriveEnum
  <2> DEFINE all == [k \in DOMAIN decl.parts |-> Tag(decl.parts[k])]
             wrong == {k \in DOMAIN all : ~ IsOk(all[k])}
  <2>1. pc = "enum" /\ decl' = decl /\ decl.data = "enum" /\ PrefixChecked
    BY <1>5 DEF DeriveEnum, RejectInv, MacroInv
  <2>2. PrefixChecked'
    BY <2>1 DEF PrefixChecked
  <2>3. decl.parts = <<>> <=> DOMAIN decl.parts = {}
    BY <1>1, DeclsAssumption DEF IsList
  <2>4. CASE decl.parts = <<>>
    <3>1. pc' = "rejected" /\ error' = Err("empty_enum")
      BY <1>5, <2>4 DEF DeriveEnum, Reject
    <3>2. error'.err \in Defects(decl)
      BY <2>1, <2>3, <2>4, <3>1, ErrIs, DefectsAre DEF DefectKinds
    <3>3. QED
      BY <2>1, <3>1, <3>2 DEF RejectInv, Accepted
  <2>5. CASE decl.parts # <<>> /\ wrong # {}
    <3>1. pc' = "rejected" /\ error' = all[Min(wrong)]
      BY <1>5, <2>5 DEF DeriveEnum, Reject
    <3>2. wrong \subseteq DOMAIN decl.parts /\ DOMAIN decl.parts \subseteq Nat
      BY DeclsAssumption DEF IsList, MacroInv
    <3>3. \E k \in wrong : \A j \in wrong : k <= j
      BY <2>5, <3>2, LeastElement
    <3>4. Min(wrong) \in wrong
      BY <3>3 DEF Min
    <3>5. all[Min(wrong)].err \in Defects(decl)
      BY <1>1, <2>1, <3>4, TagFails
    <3>6. QED
      BY <2>1, <3>1, <3>5 DEF RejectInv, Accepted
  <2>6. CASE decl.parts # <<>> /\ wrong = {}
    <3>1. pc' = "unique" /\ tags' = [k \in DOMAIN all |-> all[k].text]
      BY <1>5, <2>6 DEF DeriveEnum, Continue
    <3>2. ASSUME NEW k \in DOMAIN decl.parts
          PROVE  /\ OptionDefects(decl.parts[k].attrs, "codec", "rename") = {}
                 /\ tags'[k] = Discriminant(decl.parts[k])
      <4>1. IsPart(decl.parts[k]) /\ IsOk(Tag(decl.parts[k])) /\ tags'[k] = Tag(decl.parts[k]).text
        BY <1>1, <2>6, <3>1
      <4>2. /\ Tag(decl.parts[k]) = OkText(Discriminant(decl.parts[k]))
            /\ OptionDefects(decl.parts[k].attrs, "codec", "rename") = {}
        BY <4>1, TagIsDiscriminant
      <4>3. \A t : OkText(t).text = t
        BY DEF OkText
      <4>4. QED
        BY <4>1, <4>2, <4>3
    <3>3. TagsChecked'
      BY <2>1, <2>3, <2>6, <3>2 DEF TagsChecked
    <3>4. QED
      BY <2>2, <3>1, <3>3 DEF RejectInv, Accepted
  <2>7. QED
    BY <2>4, <2>5, <2>6
<1>6. CASE CheckUniqueVariantTags
  <2>1. /\ pc = "unique" /\ UNCHANGED <<decl, tags>> /\ decl.data = "enum"
        /\ PrefixChecked /\ TagsChecked /\ DOMAIN tags = DOMAIN decl.parts
    BY <1>6 DEF CheckUniqueVariantTags, RejectInv, MacroInv, Continue, Reject
  <2>2. PrefixChecked' /\ TagsChecked'
    BY <2>1 DEF PrefixChecked, TagsChecked
  <2>3. CASE pc' # "rejected"
    <3>1. pc' = "arms" /\ arms' = arms
      BY <1>6, <2>3 DEF CheckUniqueVariantTags, Continue, Reject
    <3>2. Len(arms) = 0 /\ Len(decl.parts) > 0
      <4>1. arms = <<>> /\ IsList(decl.parts) /\ DOMAIN decl.parts # {}
        BY <1>1, <2>1, DeclsAssumption DEF MacroInv, TagsChecked
      <4>2. QED
        BY <4>1 DEF IsList
    <3>3. QED
      BY <2>1, <2>2, <3>1, <3>2 DEF RejectInv, Accepted
  <2>4. CASE pc' = "rejected"
    <3>1. error' = Err("duplicate_tag") /\ \E j, k \in DOMAIN tags : j < k /\ tags[j] = tags[k]
      BY <1>6, <2>4 DEF CheckUniqueVariantTags, Continue, Reject
    <3>2. PICK j, k \in DOMAIN decl.parts : j < k /\ tags[j] = tags[k]
      BY <2>1, <3>1
    <3>3. j # k
      BY <1>1, <3>2, DeclsAssumption DEF IsList
    <3>4. Discriminant(decl.parts[j]) = Discriminant(decl.parts[k])
      BY <2>1, <3>2 DEF TagsChecked
    <3>5. error'.err \in Defects(decl)
      BY <2>1, <3>1, <3>3, <3>4, ErrIs, DefectsAre DEF DefectKinds
    <3>6. QED
      BY <2>1, <2>4, <3>5 DEF RejectInv, Accepted
  <2>5. QED
    BY <2>3, <2>4
<1>7. CASE BuildVariantParts
  <2> DEFINE k == Len(arms) + 1
  <2>1. /\ pc = "arms" /\ decl' = decl /\ tags' = tags /\ decl.data = "enum"
        /\ PrefixChecked /\ TagsChecked /\ arms \in Seq(AllArms) /\ Len(arms) < Len(decl.parts)
    BY <1>7 DEF BuildVariantParts, RejectInv, MacroInv, ArmsBuilt, Continue, Reject
  <2>2. PrefixChecked' /\ TagsChecked'
    BY <2>1 DEF PrefixChecked, TagsChecked
  <2>3. CASE pc' # "rejected"
    <3>1. /\ pc' = IF k = Len(decl.parts) THEN "compile" ELSE "arms"
          /\ arms' = Append(arms, Arm(decl.parts[k], tags[k]))
      BY <1>7, <2>3 DEF BuildVariantParts, Continue, Reject
    <3>2. Len(decl.parts) \in Nat /\ Len(arms) \in Nat /\ Len(arms') = k
      <4>1. IsList(decl.parts)
        BY <1>1, DeclsAssumption
      <4>2. Len(arms') = k
        BY <2>1, <3>1
      <4>3. QED
        BY <2>1, <4>1, <4>2 DEF IsList
    <3>3. pc' = "arms" => Len(arms') < Len(decl.parts)
      BY <2>1, <3>1, <3>2
    <3>4. QED
      BY <2>1, <2>2, <3>1, <3>3 DEF RejectInv, Accepted
  <2>4. CASE pc' = "rejected"
    <3>1. ~ NoTypo(decl.parts[k]) /\ error' = Err("unknown_option")
      BY <1>7, <2>4, RawFailsIs DEF BuildVariantParts, Continue, Reject
    <3>2. k \in DOMAIN decl.parts
      <4>1. IsList(decl.parts) /\ Len(arms) \in Nat
        BY <1>1, <2>1, DeclsAssumption
      <4>2. DOMAIN decl.parts = 1 .. Len(decl.parts) /\ Len(decl.parts) \in Nat
        BY <4>1 DEF IsList
      <4>3. QED
        BY <2>1, <4>1, <4>2
    <3>3. error'.err \in Defects(decl)
      BY <2>1, <3>1, <3>2, ErrIs, DefectsAre DEF DefectKinds
    <3>4. QED
      BY <2>1, <2>4, <3>3 DEF RejectInv, Accepted
  <2>5. QED
    BY <2>3, <2>4
<1>8. CASE Compile
  <2>1. pc = "compile" /\ UNCHANGED <<decl, tags>> /\ Accepted
    BY <1>8 DEF Compile, Accepted
  <2>2. PrefixChecked' /\ TagsChecked'
    BY <2>1 DEF RejectInv, PrefixChecked, TagsChecked
  <2>3. pc' = "compiled" \/ (pc' = "rejected" /\ error' = Err("does_not_compile"))
    BY <1>8 DEF Compile, Continue
  <2>4. QED
    BY <2>2, <2>3, ErrIs DEF RejectInv, Accepted
<1>9. CASE EncodeKey \/ EncodeField \/ DecodeKey \/ DecodeForeign \/ MatchTag \/ DecodeField
             \/ Construct
  <2>1. Running /\ Running' /\ UNCHANGED <<decl, tags>>
    BY <1>9 DEF EncodeKey, EncodeField, DecodeKey, DecodeForeign, StartDecode, MatchTag,
                DecodeField, Construct, Fail, Running, macro
  <2>2. QED
    BY <2>1 DEF RejectInv, Running, Accepted, PrefixChecked, TagsChecked
<1>10. CASE UNCHANGED vars
  BY <1>10 DEF vars, macro, RejectInv, Accepted, PrefixChecked, TagsChecked
<1>11. QED
  BY <1>2, <1>3, <1>4, <1>5, <1>6, <1>7, <1>8, <1>9, <1>10 DEF Next

\* For every declaration, the macro rejects for a defect that is there, and
\* accepts only what has none (derive 44-53, 78-81, 166-184, 388-406).
THEOREM RejectsCorrect == Spec => []RejectsExactlyDefects
<1> DEFINE S == {Tag(d.parts[k]).text : d \in Decls, k \in Nat}
<1>1. TagsIn(S)
  BY DeclsAssumption DEF IsList, TagsIn
<1> HIDE DEF S
<1>2. Init => MacroInv(S) /\ FitInv /\ RejectInv
  BY MacroInit, FitInit, RejectInit
<1>3. MacroInv(S) /\ FitInv /\ RejectInv /\ [Next]_vars => MacroInv(S)' /\ FitInv' /\ RejectInv'
  BY <1>1, MacroNext, FitNext, RejectNext
<1>4. MacroInv(S) /\ FitInv /\ RejectInv => RejectsExactlyDefects
  <2> SUFFICES ASSUME MacroInv(S), FitInv, RejectInv, Accepted PROVE Defects(decl) = {}
    BY DEF RejectInv, RejectsExactlyDefects
  <2>1. PrefixChecked /\ TagsChecked /\ Checked
    BY DEF RejectInv, FitInv
  <2>2. DOMAIN arms = DOMAIN decl.parts /\ decl.data \in {"struct", "enum"}
    BY CodesAre DEF MacroInv, Generated
  <2>3. decl.data = "enum" => TagsDiffer
    BY DEF MacroInv, Generated
  <2>4. ASSUME NEW e PROVE ~ DefectKinds(decl, e)
    BY <2>1, <2>2, <2>3 DEF DefectKinds, PrefixChecked, TagsChecked, Checked, TagsDiffer
  <2>5. QED
    BY <2>4, DefectsAre
<1>5. QED
  BY <1>2, <1>3, <1>4, PTL DEF Spec

-----------------------------------------------------------------------------
(***************************************************************************)
(* All fields together: what encode_key() writes, and how much.            *)
(***************************************************************************)
\* The pieces that the fields in A contribute.
PiecesOf(pieces, F, A, N) ==
  \A n \in 1 .. N : pieces[n] = IF n \in A THEN F[n] ELSE <<>>

\* The steps: the start, and the fields in A.
LEMMA StepsAre ==
  ASSUME NEW N \in Nat, NEW A, A \subseteq 1 .. N, NEW D, D = {0} \cup A
  PROVE  /\ 0 \in D /\ \A s \in D : s \in 0 .. N
         /\ \A n \in 1 .. N : n \in D <=> n \in A
OBVIOUS

\* f is the chain of the steps in A, h joins their pieces.
BothOf(S, f, F, A, N, pieces, h) ==
  /\ N \in Nat /\ A \subseteq 1 .. N
  /\ DOMAIN f = {0} \cup A /\ Chain(S, f, F)
  /\ pieces \in [1 .. N -> Seq(S)] /\ PiecesOf(pieces, F, A, N)
  /\ JoinsOf(S, h, pieces, N)

\* What was pushed since the start is what all the fields have pushed.
LEMMA ChainIsJoin ==
  ASSUME NEW S, NEW f, NEW F, NEW A, NEW N, NEW pieces, NEW h,
         BothOf(S, f, F, A, N, pieces, h)
  PROVE  f[0] = h[N]
<1> USE DEF BothOf
<1> DEFINE D == DOMAIN f
           Upto(n, s) == /\ s <= n /\ \A j \in D : s < j => n < j
                         /\ f[0] = h[n] \o f[s]
           T == {n \in 0 .. N : \E s \in D : Upto(n, s)}
<1>1. 0 \in D /\ \A s \in D : s \in 0 .. N /\ f[s] \in Seq(S)
  <2>1. \A s \in DOMAIN f : f[s] \in Seq(S)
    BY DEF Chain
  <2>2. 0 \in D /\ \A s \in D : s \in 0 .. N
    BY StepsAre
  <2>3. QED
    BY <2>1, <2>2
<1>2. \A s, i \in D : (s < i /\ \A j \in D : s < j => i <= j)
                       => F[i] \in Seq(S) /\ f[s] = F[i] \o f[i]
  BY DEF Chain
<1>3. \A s \in D : (\A j \in D : j <= s) => f[s] = <<>>
  BY DEF Chain
<1>4. \A n \in 1 .. N : n \in D <=> n \in A
  BY StepsAre
<1> HIDE DEF D
<1>5. h \in [0 .. N -> Seq(S)] /\ h[0] = <<>> /\ \A n \in 1 .. N : h[n] = h[n - 1] \o pieces[n]
  BY DEF JoinsOf
<1>6. 0 \in T
  <2>1. f[0] = <<>> \o f[0]
    BY <1>1, EmptyIsNeutral
  <2>2. Upto(0, 0)
    BY <1>1, <1>5, <2>1
  <2> HIDE DEF Upto
  <2>3. QED
    BY <1>1, <2>2
<1>7. ASSUME NEW n \in 0 .. N - 1, n \in T
      PROVE  n + 1 \in T
  <2>1. PICK s \in D : Upto(n, s)
    BY <1>7
  <2>2. s \in 0 .. N
    BY <1>1
  <2>3. n + 1 \in 1 .. N /\ n + 1 \in 0 .. N /\ n \in 0 .. N /\ (n + 1) - 1 = n /\ s \in 0 .. N
    BY <2>2
  <2>4. h[n + 1] = h[n] \o pieces[n + 1] /\ h[n] \in Seq(S)
    BY <1>5, <2>3
  <2>5. CASE n + 1 \in A
    <3>1. pieces[n + 1] = F[n + 1] /\ n + 1 \in D
      BY <1>4, <2>3, <2>5 DEF PiecesOf
    <3>2. s < n + 1 /\ \A j \in D : s < j => n + 1 <= j
      <4>1. \A j \in D : j \in Int
        BY <1>1
      <4>2. s <= n /\ \A j \in D : s < j => n < j
        BY <2>1
      <4>3. QED
        BY <2>3, <4>1, <4>2
    <3>3. F[n + 1] \in Seq(S) /\ f[s] = F[n + 1] \o f[n + 1]
      BY <1>2, <3>1, <3>2
    <3>4. f[0] = h[n] \o (F[n + 1] \o f[n + 1])
      BY <2>1, <3>3
    <3>5. f[n + 1] \in Seq(S)
      BY <1>1, <3>1
    <3>6. h[n] \o (F[n + 1] \o f[n + 1]) = (h[n] \o F[n + 1]) \o f[n + 1]
      <4>1. \A a, b, c \in Seq(S) : (a \o b) \o c = a \o (b \o c)
        BY Associative
      <4>2. QED
        BY <2>4, <3>3, <3>5, <4>1, Zenon
    <3>7. f[0] = h[n + 1] \o f[n + 1]
      BY <2>4, <3>1, <3>4, <3>6
    <3>8. \A j \in D : n + 1 < j => n + 1 < j
      OBVIOUS
    <3>9. Upto(n + 1, n + 1)
      BY <2>3, <3>7
    <3> HIDE DEF Upto
    <3>10. QED
      BY <2>3, <3>1, <3>9
  <2>6. CASE n + 1 \notin A
    <3>1. pieces[n + 1] = <<>> /\ n + 1 \notin D
      BY <1>4, <2>3, <2>6 DEF PiecesOf
    <3>2. h[n + 1] = h[n]
      BY <2>4, <3>1, EmptyIsNeutral
    <3>3. \A j \in D : s < j => n + 1 < j
      <4>1. \A j \in D : j \in 0 .. N /\ j # n + 1
        BY <1>1, <3>1
      <4>2. \A j \in D : s < j => n < j
        BY <2>1
      <4>3. QED
        BY <2>3, <4>1, <4>2
    <3>4. s <= n + 1 /\ f[0] = h[n + 1] \o f[s]
      BY <2>1, <2>3, <3>2
    <3>5. Upto(n + 1, s)
      BY <3>3, <3>4
    <3> HIDE DEF Upto
    <3>6. QED
      BY <2>3, <3>5
  <2>7. QED
    BY <2>5, <2>6
<1> HIDE DEF T
<1>8. N \in T
  <2>1. \A n \in 0 .. N : n \in T
    BY <1>6, <1>7, Induction
  <2>2. QED
    BY <2>1
<1>9. PICK s \in D : Upto(N, s)
  BY <1>8 DEF T
<1>10. \A j \in D : j <= s
  <2>1. \A j \in D : j \in 0 .. N
    BY <1>1
  <2>2. \A j \in D : j \in 0 .. N /\ ~ (N < j)
    BY <2>1
  <2>3. s \in 0 .. N
    BY <1>1
  <2>4. QED
    BY <1>9, <2>2, <2>3
<1>11. f[s] = <<>>
  BY <1>3, <1>10
<1>12. h[N] \o <<>> = h[N]
  BY <1>5, EmptyIsNeutral
<1>13. QED
  BY <1>9, <1>11, <1>12

\* The raw flag of the generated code is the option.
LEMMA RawFlagIs ==
  ASSUME NEW part, NoTypo(part), NEW i \in DOMAIN part.fields
  PROVE  IsRaw(part.fields[i]) = HasOption(part.fields[i], "raw")
<1>1. ~ CheckRawFails(part.fields[i])
  BY DEF NoTypo
<1>2. IsRaw(part.fields[i]) <=> HasOption(part.fields[i], "raw")
  BY <1>1, RawIs
<1>3. IsRaw(part.fields[i]) \in BOOLEAN /\ HasOption(part.fields[i], "raw") \in BOOLEAN
  BY DEF IsRaw, HasOption
<1>4. QED
  BY <1>2, <1>3

\* What encode_key() has written stays as it was when decode_key() began.
WireInv ==
  (IsOwn /\ pc \in {"decode", "end"}) =>
    /\ segments = Header \o after[0]
    /\ DOMAIN after = {0} \cup Active(OwnPart)

\* What is said of the segments written holds in the beginning,
LEMMA WireInit ==
  ASSUME Init
  PROVE  WireInv
BY DEF Init, WireInv

\* and every step keeps it.
LEMMA WireNext ==
  ASSUME NEW S, MacroInv(S), RunInv(S), WireInv, [Next]_vars
  PROVE  WireInv'
<1>1. CASE ParseStructKeyPrefix \/ BuildCodecImpl \/ DeriveStruct \/ DeriveEnum
             \/ CheckUniqueVariantTags \/ BuildVariantParts \/ Compile
  <2>1. pc' \notin {"encode", "decode", "end"}
    BY <1>1 DEF ParseStructKeyPrefix, BuildCodecImpl, DeriveStruct, DeriveEnum,
                CheckUniqueVariantTags, BuildVariantParts, Compile, Continue, Reject, MacroInv
  <2>2. QED
    BY <2>1 DEF WireInv
<1>2. CASE EncodeKey \/ EncodeField
  <2>1. pc' = "encode"
    BY <1>2 DEF EncodeKey, EncodeField
  <2>2. QED
    BY <2>1 DEF WireInv
<1>3. CASE DecodeKey
  <2>1. /\ pc = "encode" /\ UNCHANGED <<decl, arms, value, segments, after>>
        /\ IsOwn /\ Encoding /\ AllRan(Code.encode)
    BY <1>3 DEF DecodeKey, StartDecode, macro, RunInv
  <2>2. Active(OwnPart) \subseteq Nat \ {0} /\ CodeFits(OwnPart, arms[value.arm])
    BY <2>1, OwnCode
  <2>3. \A i \in Active(OwnPart) : i <= step
    BY <2>1, <2>2 DEF AllRan, Code, Encoding, CodeFits
  <2>4. segments = Header \o after[0] /\ DOMAIN after = {0} \cup Active(OwnPart)
    BY <2>1, <2>3 DEF Encoding
  <2>5. OwnPart' = OwnPart /\ Header' = Header
    BY <2>1 DEF OwnPart, Header
  <2>6. QED
    BY <2>1, <2>4, <2>5 DEF WireInv
<1>4. CASE DecodeForeign
  <2>1. ~ IsOwn'
    BY <1>4 DEF DecodeForeign, StartDecode, RunInv, IsOwn
  <2>2. QED
    BY <2>1 DEF WireInv
<1>5. CASE MatchTag \/ DecodeField \/ Construct \/ UNCHANGED vars
  <2>1. UNCHANGED <<decl, arms, value, segments, after>>
    BY <1>5 DEF MatchTag, DecodeField, Construct, vars, macro, run
  <2>2. (pc' \in {"decode", "end"}) => (pc \in {"decode", "end"})
    BY <1>5 DEF MatchTag, DecodeField, Construct, vars
  <2>3. OwnPart' = OwnPart /\ Header' = Header /\ (IsOwn' <=> IsOwn)
    BY <2>1 DEF OwnPart, Header, IsOwn
  <2>4. QED
    BY <2>1, <2>2, <2>3 DEF WireInv
<1>6. QED
  BY <1>1, <1>2, <1>3, <1>4, <1>5 DEF Next

\* The discriminants that are generated are those that are declared.
LEMMA TagIs ==
  ASSUME NEW S, MacroInv(S), RejectInv, Accepted, decl.data = "enum", NEW k \in DOMAIN arms
  PROVE  arms[k].tag = Discriminant(decl.parts[k])
<1>1. ArmsBuilt /\ TagsChecked
  BY DEF MacroInv, Generated, RejectInv
<1>2. k \in DOMAIN decl.parts /\ k \in 1 .. Len(arms) /\ IsPart(decl.parts[k])
  BY <1>1, CodesAre DEF ArmsBuilt
<1>3. arms[k].tag = tags[k]
  BY <1>1, <1>2, ArmFits DEF ArmsBuilt
<1>4. tags[k] = Discriminant(decl.parts[k])
  BY <1>1, <1>2 DEF TagsChecked
<1>5. QED
  BY <1>3, <1>4

\* What precedes the fields is the discriminant that is declared.
LEMMA HeaderIs ==
  ASSUME NEW S, MacroInv(S), RejectInv, Accepted, value.arm \in DOMAIN arms
  PROVE  Header = IF decl.data = "enum" THEN <<Discriminant(OwnPart)>> ELSE <<>>
BY TagIs DEF Header, OwnPart

\* What is written when decode_key() begins: the header, and the pieces of all
\* fields one after the other.
FieldPiece(part, fields, i) ==
  IF Uncoded(part.fields[i]) THEN <<>>
  ELSE Segments(part.fields[i].sort, HasOption(part.fields[i], "raw"), fields[Member(part, i)])
Pieces(part, fields) == [i \in DOMAIN part.fields |-> FieldPiece(part, fields, i)]

\* The segments of the fields, one piece for each.
LEMMA PiecesAre ==
  ASSUME NEW S, FieldContract(Seq(S)), NEW part, IsPart(part), NoTypo(part),
         NEW code, CodeFits(part, code), WellTyped(part, code), NEW fields \in ValuesOf(part)
  PROVE  /\ Pieces(part, fields) \in [1 .. Len(part.fields) -> Seq(S)]
         /\ PiecesOf(Pieces(part, fields), Pushes(part, fields), Active(part), Len(part.fields))
<1>1. DOMAIN part.fields = 1 .. Len(part.fields)
  BY DEF IsPart, IsList
<1>2. ASSUME NEW i \in DOMAIN part.fields
      PROVE  /\ Pieces(part, fields)[i] \in Seq(S)
             /\ Pieces(part, fields)[i] =
                  IF i \in Active(part) THEN Pushes(part, fields)[i] ELSE <<>>
  <2>1. Pieces(part, fields)[i] = FieldPiece(part, fields, i)
    BY DEF Pieces
  <2>2. Uncoded(part.fields[i]) <=> i \notin Active(part)
    BY UncodedIs
  <2>3. CASE i \in Active(part)
    <3>1. IsRaw(part.fields[i]) = HasOption(part.fields[i], "raw")
      BY RawFlagIs
    <3>2. FieldPiece(part, fields, i) =
            Segments(part.fields[i].sort, HasOption(part.fields[i], "raw"), fields[Member(part, i)])
      BY <2>2, <2>3 DEF FieldPiece
    <3>3. Pushes(part, fields)[i] =
            Segments(part.fields[i].sort, IsRaw(part.fields[i]), fields[Member(part, i)])
      BY <2>3 DEF Pushes
    <3>4. Pieces(part, fields)[i] = Pushes(part, fields)[i]
      BY <2>1, <3>1, <3>2, <3>3, Zenon
    <3>5. Pushes(part, fields)[i] \in Seq(S)
      BY <2>3, FieldTaken
    <3>6. QED
      BY <2>3, <3>4, <3>5
  <2>4. CASE i \notin Active(part)
    BY <2>1, <2>2, <2>4, EmptySeq DEF FieldPiece
  <2>5. QED
    BY <2>3, <2>4
<1>3. Pieces(part, fields) = [i \in 1 .. Len(part.fields) |-> Pieces(part, fields)[i]]
  BY <1>1 DEF Pieces
<1>4. QED
  BY <1>1, <1>2, <1>3 DEF PiecesOf

\* The generated encode_key() writes the header and then the fields' segments.
LEMMA WhatIsWritten ==
  ASSUME NEW S, SegmentsAre(S), MacroInv(S), RunInv(S), FitInv, WireInv,
         IsOwn, pc \in {"decode", "end"}
  PROVE  \E h : /\ JoinsOf(S, h, Pieces(OwnPart, value.fields), Len(OwnPart.fields))
                /\ segments = Header \o h[Len(OwnPart.fields)]
<1> DEFINE N == Len(OwnPart.fields)
           pieces == Pieces(OwnPart, value.fields)
           pushes == Pushes(OwnPart, value.fields)
<1>1. /\ IsPart(OwnPart) /\ CodeFits(OwnPart, arms[value.arm])
      /\ WellTyped(OwnPart, arms[value.arm]) /\ value.fields \in ValuesOf(OwnPart)
  BY OwnCode
<1>2. Accepted /\ value.arm \in DOMAIN arms /\ Chain(S, after, pushes)
  BY DEF Accepted, RunInv, Written
<1>3. NoTypo(OwnPart)
  BY <1>2 DEF FitInv, Checked, OwnPart
<1>4. N \in Nat /\ Active(OwnPart) \subseteq 1 .. N
  BY <1>1 DEF IsPart, IsList, Active
<1>5. pieces \in [1 .. N -> Seq(S)] /\ PiecesOf(pieces, pushes, Active(OwnPart), N)
  BY <1>1, <1>3, PiecesAre DEF SegmentsAre
<1>6. segments = Header \o after[0] /\ DOMAIN after = {0} \cup Active(OwnPart)
  BY DEF WireInv
<1> HIDE DEF N, pieces, pushes
<1>7. PICK h : JoinsOf(S, h, pieces, N)
  BY <1>4, <1>5, JoinsExist
<1>8. after[0] = h[N]
  <2>1. BothOf(S, after, pushes, Active(OwnPart), N, pieces, h)
    BY <1>2, <1>4, <1>5, <1>6, <1>7 DEF BothOf
  <2>2. QED
    BY <2>1, ChainIsJoin
<1>9. QED
  BY <1>6, <1>7, <1>8 DEF N, pieces

\* For every declaration and value: when the Codecs of the fields push segments
\* and take them back, what encode_key() has written is the discriminant and
\* the fields in declaration order, raw fields raw and markers not at all
\* (derive 3-12, 200-218, 454-471, 545-563).
THEOREM WireIsDeclaredCorrect ==
  ASSUME NEW CONSTANT S, SegmentsAre(S)
  PROVE  Spec => []WireIsDeclared
<1>1. Init => MacroInv(S) /\ RunInv(S) /\ FitInv /\ RejectInv /\ WireInv
  BY MacroInit, RunInit, FitInit, RejectInit, WireInit
<1>2. MacroInv(S) /\ RunInv(S) /\ FitInv /\ RejectInv /\ WireInv /\ [Next]_vars
        => MacroInv(S)' /\ RunInv(S)' /\ FitInv' /\ RejectInv' /\ WireInv'
  BY MacroNext, RunNext, FitNext, RejectNext, WireNext DEF SegmentsAre
<1>3. MacroInv(S) /\ RunInv(S) /\ FitInv /\ RejectInv /\ WireInv => WireIsDeclared
  <2> SUFFICES ASSUME MacroInv(S), RunInv(S), FitInv, RejectInv, WireInv,
                      IsOwn, pc \in {"decode", "end"}
               PROVE  segments = Wire(decl, value)
    BY DEF WireIsDeclared, IsWritten
  <2> DEFINE N == Len(OwnPart.fields)
             pieces == Pieces(OwnPart, value.fields)
  <2>1. PICK h : JoinsOf(S, h, pieces, N) /\ segments = Header \o h[N]
    BY WhatIsWritten
  <2>2. Accepted /\ value.arm \in DOMAIN arms
    BY DEF Accepted, RunInv, Written
  <2>3. /\ IsPart(OwnPart) /\ NoTypo(OwnPart) /\ CodeFits(OwnPart, arms[value.arm])
        /\ WellTyped(OwnPart, arms[value.arm]) /\ value.fields \in ValuesOf(OwnPart)
    BY <2>2, OwnCode DEF FitInv, Checked, OwnPart
  <2>4. N \in Nat /\ pieces \in [1 .. N -> Seq(S)]
    BY <2>3, PiecesAre DEF SegmentsAre, IsPart, IsList
  <2>5. FlattenSeq(pieces) = h[N]
    BY <2>1, <2>4, FlattenIs
  <2>6. Header = IF decl.data = "enum" THEN <<Discriminant(OwnPart)>> ELSE <<>>
    BY <2>2, HeaderIs
  <2>7. Wire(decl, value) =
          (IF decl.data = "enum" THEN <<Discriminant(OwnPart)>> ELSE <<>>) \o FlattenSeq(pieces)
    BY Zenon DEF Wire, OwnPart, Pieces, FieldPiece
  <2>8. QED
    BY <2>1, <2>5, <2>6, <2>7, Zenon
<1>4. QED
  BY <1>1, <1>2, <1>3, PTL DEF Spec

\* The term that segment_count() adds for a field.
Term(part, code, fields, i) ==
  LET m == CHOOSE m \in DOMAIN code.scope : code.scope[m] = code.count[i].of
  IN  Len(Segments(SortAt(part, m), code.count[i].raw, fields[m]))

TermOf(part, code, fields, i) ==
  IF i \in DOMAIN code.count THEN Term(part, code, fields, i) ELSE 0

Total(part, code, fields, N) ==
  LET sum[n \in 0 .. N] == IF n = 0 THEN 0 ELSE sum[n - 1] + TermOf(part, code, fields, n)
  IN  sum[N]

\* SEGMENT_COUNT adds for a field as many segments as it pushes.
LEMMA TermIs ==
  ASSUME NEW S, FieldContract(Seq(S)), NEW part, IsPart(part), NEW code,
         CodeFits(part, code), WellTyped(part, code),
         NEW fields \in ValuesOf(part), NEW i \in Active(part)
  PROVE  Term(part, code, fields, i) = Len(Pushes(part, fields)[i])
<1> DEFINE m == CHOOSE m \in DOMAIN code.scope : code.scope[m] = code.count[i].of
<1>1. /\ Member(part, i) \in DOMAIN code.scope
      /\ \A n \in DOMAIN code.scope : code.scope[n] = code.count[i].of <=> n = Member(part, i)
      /\ code.count[i].raw = IsRaw(part.fields[i])
  BY DEF CodeFits
<1>2. m = Member(part, i)
  BY <1>1
<1>3. /\ SortAt(part, Member(part, i)) = part.fields[i].sort
      /\ Pushes(part, fields)[i] =
           Segments(part.fields[i].sort, IsRaw(part.fields[i]), fields[Member(part, i)])
  BY FieldTaken
<1>4. Term(part, code, fields, i) = Len(Segments(SortAt(part, m), code.count[i].raw, fields[m]))
  BY DEF Term
<1> HIDE DEF m
<1>5. QED
  BY <1>1, <1>2, <1>3, <1>4, Zenon

TermsAre(part, code, fields, pieces, N) ==
  \A n \in 1 .. N : TermOf(part, code, fields, n) = Len(pieces[n])

\* Adding up the terms gives the length of what the fields have pushed.
LEMMA TotalIs ==
  ASSUME NEW S, NEW N \in Nat, NEW pieces \in [1 .. N -> Seq(S)],
         NEW h, JoinsOf(S, h, pieces, N),
         NEW part, NEW code, NEW fields, TermsAre(part, code, fields, pieces, N)
  PROVE  Len(h[N]) = Total(part, code, fields, N)
<1> DEFINE Add(n) == TermOf(part, code, fields, n)
           total == CHOOSE total :
                      total = [n \in 0 .. N |-> IF n = 0 THEN 0 ELSE total[n - 1] + Add(n)]
           g == [n \in 0 .. N |-> Len(h[n])]
<1>1. /\ \A n \in 0 .. N : h[n] \in Seq(S)
      /\ h[0] = <<>> /\ \A n \in 1 .. N : h[n] = h[n - 1] \o pieces[n]
  BY DEF JoinsOf
<1>2. ASSUME NEW n \in 1 .. N
      PROVE  Len(h[n]) = Len(h[n - 1]) + Add(n)
  <2>1. n - 1 \in 0 .. N
    OBVIOUS
  <2>2. h[n - 1] \in Seq(S) /\ pieces[n] \in Seq(S) /\ h[n] = h[n - 1] \o pieces[n]
    BY <1>1, <2>1
  <2>3. Len(h[n - 1] \o pieces[n]) = Len(h[n - 1]) + Len(pieces[n])
    BY <2>2, ConcatProperties
  <2>4. Add(n) = Len(pieces[n])
    BY DEF TermsAre
  <2>5. QED
    BY <2>2, <2>3, <2>4
<1>3. Len(h[0]) = 0
  BY <1>1
<1>4. \A n \in 0 .. N : n # 0 => n \in 1 .. N /\ n - 1 \in 0 .. N
  OBVIOUS
<1>5. \A n \in 0 .. N : g[n] = IF n = 0 THEN 0 ELSE g[n - 1] + Add(n)
  BY <1>2, <1>3, <1>4
<1>6. g = [n \in 0 .. N |-> g[n]] /\ g[0] = 0 /\ g[N] = Len(h[N])
  BY <1>3
<1>7. Total(part, code, fields, N) = total[N]
  BY Zenon DEF Total
<1> HIDE DEF g, Add
<1>8. g = [n \in 0 .. N |-> IF n = 0 THEN 0 ELSE g[n - 1] + Add(n)]
  BY <1>5, <1>6, Zenon
<1>9. total = [n \in 0 .. N |-> IF n = 0 THEN 0 ELSE total[n - 1] + Add(n)]
  BY <1>8, Zenon
<1> HIDE DEF total
<1>10. \A n \in 0 .. N : total[n] = IF n = 0 THEN 0 ELSE total[n - 1] + Add(n)
  BY <1>9
<1>11. total[0] = g[0]
  BY <1>6, <1>10
<1>12. ASSUME NEW n \in 1 .. N, total[n - 1] = g[n - 1]
       PROVE  total[n] = g[n]
  <2>1. n \in 0 .. N /\ n # 0
    OBVIOUS
  <2>2. QED
    BY <1>5, <1>10, <1>12, <2>1
<1>13. total[N] = g[N]
  BY <1>11, <1>12, SameRecursion
<1>14. QED
  BY <1>6, <1>7, <1>13

\* For every declaration and value, segment_count() is the number of segments
\* that encode_key() has pushed (derive 254-275, 494-509).
THEOREM CountIsExactCorrect ==
  ASSUME NEW CONSTANT S, SegmentsAre(S)
  PROVE  Spec => []CountIsExact
<1>1. Init => MacroInv(S) /\ RunInv(S) /\ FitInv /\ WireInv
  BY MacroInit, RunInit, FitInit, WireInit
<1>2. MacroInv(S) /\ RunInv(S) /\ FitInv /\ WireInv /\ [Next]_vars
        => MacroInv(S)' /\ RunInv(S)' /\ FitInv' /\ WireInv'
  BY MacroNext, RunNext, FitNext, WireNext DEF SegmentsAre
<1>3. MacroInv(S) /\ RunInv(S) /\ FitInv /\ WireInv => CountIsExact
  <2> SUFFICES ASSUME MacroInv(S), RunInv(S), FitInv, WireInv, IsOwn, pc \in {"decode", "end"}
               PROVE  Len(segments) = Count(decl, arms[value.arm], value)
    BY DEF CountIsExact, IsWritten
  <2> DEFINE N == Len(OwnPart.fields)
             pieces == Pieces(OwnPart, value.fields)
             code == arms[value.arm]
  <2>1. PICK h : JoinsOf(S, h, pieces, N) /\ segments = Header \o h[N]
    BY WhatIsWritten
  <2>2. Accepted /\ value.arm \in DOMAIN arms
    BY DEF Accepted, RunInv, Written
  <2>3. /\ IsPart(OwnPart) /\ NoTypo(OwnPart) /\ CodeFits(OwnPart, code)
        /\ WellTyped(OwnPart, code) /\ value.fields \in ValuesOf(OwnPart) /\ Header \in Seq(S)
    BY <2>2, OwnCode DEF FitInv, Checked, OwnPart
  <2>4. /\ N \in Nat /\ pieces \in [1 .. N -> Seq(S)]
        /\ PiecesOf(pieces, Pushes(OwnPart, value.fields), Active(OwnPart), N)
    <3>1. N \in Nat
      BY <2>3 DEF IsPart, IsList
    <3>2. QED
      BY <2>3, <3>1, PiecesAre DEF SegmentsAre
  <2>5. DOMAIN code.count = Active(OwnPart)
    BY <2>3 DEF CodeFits
  <2>6. ASSUME NEW n \in 1 .. N
        PROVE  TermOf(OwnPart, code, value.fields, n) = Len(pieces[n])
    <3>1. CASE n \in Active(OwnPart)
      <4>1. Term(OwnPart, code, value.fields, n) = Len(Pushes(OwnPart, value.fields)[n])
        BY <2>3, <3>1, TermIs DEF SegmentsAre
      <4>2. QED
        BY <2>4, <2>5, <3>1, <4>1 DEF PiecesOf, TermOf
    <3>2. CASE n \notin Active(OwnPart)
      <4>1. pieces[n] = <<>>
        BY <2>4, <3>2 DEF PiecesOf
      <4>2. QED
        BY <2>5, <3>2, <4>1 DEF TermOf
    <3>3. QED
      BY <3>1, <3>2
  <2>7. Count(decl, code, value) =
          (IF decl.data = "enum" THEN 1 ELSE 0)
          + Total(OwnPart, code, value.fields, N)
    BY Zenon DEF Count, OwnPart, Term, TermOf, Total
  <2>8. \A n \in 1 .. N : TermOf(OwnPart, code, value.fields, n) = Len(pieces[n])
    BY <2>6
  <2> HIDE DEF N, pieces, code
  <2>9. h[N] \in Seq(S)
    <3>1. h \in [0 .. N -> Seq(S)] /\ N \in 0 .. N
      BY <2>1, <2>4 DEF JoinsOf
    <3>2. QED
      BY <3>1
  <2>10. Len(segments) = Len(Header) + Len(h[N])
    BY <2>1, <2>3, <2>9, ConcatProperties
  <2>11. Len(Header) = IF decl.data = "enum" THEN 1 ELSE 0
    BY DEF Header
  <2>12. Len(h[N]) = Total(OwnPart, code, value.fields, N)
    <3>1. TermsAre(OwnPart, code, value.fields, pieces, N)
      BY <2>8 DEF TermsAre
    <3>2. QED
      BY <2>1, <2>4, <3>1, TotalIs
  <2>13. QED
    BY <2>7, <2>10, <2>11, <2>12 DEF code
<1>4. QED
  BY <1>1, <1>2, <1>3, PTL DEF Spec

-----------------------------------------------------------------------------
(***************************************************************************)
(* Decoding segments from elsewhere.                                       *)
(***************************************************************************)
\* The segments that the fields up to position s would push, with the values
\* that are bound in e.
Took(part, e, s) ==
  [i \in 1 .. Len(part.fields) |->
     IF i \in Active(part) /\ i <= s
     THEN Segments(part.fields[i].sort, IsRaw(part.fields[i]), e[Member(part, i)])
     ELSE <<>>]

TagOf(k) == IF decl.data = "enum" THEN <<arms[k].tag>> ELSE <<>>

\* What has been read is what would be written, so far.
Reads(S) ==
  /\ step \in Nat /\ left \in Seq(S)
  /\ \A i \in Active(Part) : i <= step => Member(Part, i) \in DOMAIN env
  /\ Took(Part, env, step) \in [1 .. Len(Part.fields) -> Seq(S)]
  /\ rest = TagOf(arm) \o (FlattenSeq(Took(Part, env, step)) \o left)

Foreign(S) ==
  /\ rest \in Seq(S)
  /\ \/ decl.data = "enum" /\ arm = 0 /\ step = 0 /\ left = rest
     \/ arm \in DOMAIN arms /\ Reads(S)

ForeignInv(S) ==
  /\ pc = "encode" => IsOwn
  /\ (~ IsOwn /\ pc = "decode") => Foreign(S)
  /\ (~ IsOwn /\ pc = "end" /\ IsOk(result)) => Wire(decl, result) \o left = rest

\* The invariant of reading foreign segments holds in the beginning.
LEMMA ForeignInit ==
  ASSUME NEW S, Init
  PROVE  ForeignInv(S)
BY DEF Init, ForeignInv

\* The arm that decodes.
LEMMA ArmIs ==
  ASSUME NEW S, MacroInv(S), RejectInv, FitInv, pc \in {"compiled", "decode"}, NEW k \in DOMAIN arms
  PROVE  /\ k \in Nat \ {0}
         /\ IsPart(decl.parts[k]) /\ NoTypo(decl.parts[k])
         /\ CodeFits(decl.parts[k], arms[k]) /\ WellTyped(decl.parts[k], arms[k])
         /\ TagOf(k) = IF decl.data = "enum" THEN <<Discriminant(decl.parts[k])>> ELSE <<>>
         /\ TagOf(k) \in Seq(S)
<1>1. Accepted /\ Running /\ decl \in Decls
  BY DEF Accepted, Running, MacroInv
<1>2. k \in DOMAIN decl.parts /\ IsPart(decl.parts[k]) /\ CodeFits(decl.parts[k], arms[k])
  BY <1>1, CodesAre
<1>3. k \in Nat \ {0}
  BY <1>1, <1>2, DeclsAssumption DEF IsList
<1>4. NoTypo(decl.parts[k]) /\ WellTyped(decl.parts[k], arms[k])
  BY <1>1 DEF FitInv, Checked, MacroInv
<1>5. TagOf(k) = IF decl.data = "enum" THEN <<Discriminant(decl.parts[k])>> ELSE <<>>
  BY <1>1, TagIs DEF TagOf
<1>6. TagOf(k) \in Seq(S)
  <2>1. CASE decl.data = "enum"
    BY <1>1, <2>1, CodesAre DEF TagOf
  <2>2. CASE decl.data # "enum"
    BY <2>2, EmptySeq DEF TagOf
  <2>3. QED
    BY <2>1, <2>2
<1>7. QED
  BY <1>2, <1>3, <1>4, <1>5, <1>6

\* Decoding starts with nothing read.
LEMMA TookNothing ==
  ASSUME NEW S, NEW part, IsPart(part), NEW e, NEW q \in Seq(S)
  PROVE  /\ \A i \in Active(part) : ~ (i <= 0)
         /\ Took(part, e, 0) \in [1 .. Len(part.fields) -> Seq(S)]
         /\ FlattenSeq(Took(part, e, 0)) \o q = q
<1> DEFINE N == Len(part.fields)
           pieces == Took(part, e, 0)
<1>1. N \in Nat /\ Active(part) \subseteq 1 .. N
  BY DEF IsPart, IsList, Active
<1>2. \A i \in Active(part) : ~ (i <= 0)
  BY <1>1
<1>3. <<>> \in Seq(S)
  BY EmptySeq
<1>4. pieces = [i \in 1 .. N |-> <<>>]
  BY <1>2 DEF Took
<1> HIDE DEF pieces, N
<1>5. pieces \in [1 .. N -> Seq(S)] /\ \A n \in 1 .. N : pieces[n] = <<>>
  BY <1>3, <1>4
<1>6. FlattenSeq(pieces) = <<>>
  BY <1>1, <1>5, FlattenNone
<1>7. <<>> \o q = q
  BY EmptyIsNeutral
<1>8. QED
  BY <1>2, <1>5, <1>6, <1>7 DEF pieces, N

\* After the fields up to s, the next one, i, has been read as v, which is
\* pushed as these segments; e and f are what is bound before and after.
OneMore(S, part, e, s, i, v, pushed, f) ==
  /\ IsPart(part) /\ s \in Nat
  /\ Took(part, e, s) \in [1 .. Len(part.fields) -> Seq(S)]
  /\ \A j \in Active(part) : j <= s => Member(part, j) \in DOMAIN e
  /\ i \in Active(part) /\ s < i
  /\ \A j \in Active(part) : s < j => i <= j
  /\ f = [n \in DOMAIN e \cup {Member(part, i)} |-> IF n = Member(part, i) THEN v ELSE e[n]]
  /\ pushed \in Seq(S)
  /\ pushed = Segments(part.fields[i].sort, IsRaw(part.fields[i]), v)

\* One more field took its segments after those of the fields before it.
LEMMA TookOneMore ==
  ASSUME NEW S, NEW part, NEW e, NEW s, NEW i, NEW v, NEW pushed, NEW f,
         OneMore(S, part, e, s, i, v, pushed, f)
  PROVE  /\ i \in Nat
         /\ \A j \in Active(part) : j <= i => Member(part, j) \in DOMAIN f
         /\ Took(part, f, i) \in [1 .. Len(part.fields) -> Seq(S)]
         /\ FlattenSeq(Took(part, e, s)) \in Seq(S)
         /\ FlattenSeq(Took(part, f, i)) = FlattenSeq(Took(part, e, s)) \o pushed
<1> DEFINE N == Len(part.fields)
           pieces == Took(part, e, s)
           more == Took(part, f, i)
<1> USE DEF OneMore
<1>1. N \in Nat /\ DOMAIN part.fields = 1 .. N /\ \A j \in Active(part) : j \in 1 .. N
  BY DEF IsPart, IsList, Active
<1>2. \A j \in Active(part) : j <= i <=> j <= s \/ j = i
  BY <1>1
<1>3. ASSUME NEW j \in Active(part), j # i
      PROVE  Member(part, j) # Member(part, i)
  BY <1>1, <1>3, MemberInjective
<1>4. ASSUME NEW j \in Active(part), j <= s
      PROVE  Member(part, j) \in DOMAIN f /\ f[Member(part, j)] = e[Member(part, j)]
  <2>1. j # i
    BY <1>1, <1>4
  <2>2. Member(part, j) \in DOMAIN e /\ Member(part, j) # Member(part, i)
    BY <1>3, <1>4, <2>1
  <2>3. QED
    BY <2>2
<1>5. Member(part, i) \in DOMAIN f /\ f[Member(part, i)] = v
  OBVIOUS
<1>6. \A j \in Active(part) : j <= i => Member(part, j) \in DOMAIN f
  BY <1>2, <1>4, <1>5
<1>7. \A j \in 1 .. N : pieces[j] = IF j \in Active(part) /\ j <= s
        THEN Segments(part.fields[j].sort, IsRaw(part.fields[j]), e[Member(part, j)])
        ELSE <<>>
  BY DEF Took
<1>8. \A j \in 1 .. N : more[j] = IF j \in Active(part) /\ j <= i
        THEN Segments(part.fields[j].sort, IsRaw(part.fields[j]), f[Member(part, j)])
        ELSE <<>>
  BY DEF Took
<1>9. more = [j \in 1 .. N |-> more[j]] /\ pieces \in [1 .. N -> Seq(S)]
  BY DEF Took
<1> HIDE DEF pieces, more, N
<1>10. more[i] = pushed
  BY <1>1, <1>5, <1>8
<1>11. ASSUME NEW j \in 1 .. N, j # i
       PROVE  more[j] = pieces[j]
  <2>1. CASE j \in Active(part) /\ j <= s
    BY <1>2, <1>4, <1>7, <1>8, <2>1
  <2>2. CASE ~ (j \in Active(part) /\ j <= s)
    <3>1. ~ (j \in Active(part) /\ j <= i)
      BY <1>2, <1>11, <2>2
    <3>2. QED
      BY <1>7, <1>8, <2>2, <3>1
  <2>3. QED
    BY <2>1, <2>2
<1>12. \A j \in i .. N : pieces[j] = <<>>
  <2>1. ASSUME NEW j \in i .. N
        PROVE  j \in 1 .. N /\ ~ (j <= s)
    BY <1>1
  <2>2. QED
    BY <1>7, <2>1
<1>13. more \in [1 .. N -> Seq(S)]
  <2>1. \A j \in 1 .. N : more[j] \in Seq(S)
    BY <1>9, <1>10, <1>11
  <2>2. QED
    BY <1>9, <2>1
<1>14. AddsPiece(S, pieces, more, i, N)
  BY <1>1, <1>9, <1>11, <1>12, <1>13 DEF AddsPiece
<1>15. FlattenSeq(pieces) \in Seq(S) /\ FlattenSeq(more) = FlattenSeq(pieces) \o more[i]
  BY <1>14, FlattenGrows
<1>16. i \in Nat
  BY <1>1
<1>17. QED
  BY <1>6, <1>10, <1>13, <1>15, <1>16, Zenon DEF pieces, more, N

\* The segments are those of a set that the discriminants belong to; the Codecs
\* of the fields take only what they push; decoding starts anywhere among them.
ForeignSegmentsAre(S) == CanonicalFields(Seq(S)) /\ Queues \subseteq Seq(S) /\ TagsIn(S)

Spells(S, sort, raw, q, taken) ==
  /\ Segments(sort, raw, taken.value) \in Seq(S)
  /\ taken.left \in Seq(S)
  /\ q = Segments(sort, raw, taken.value) \o taken.left

\* What a field's decode_key() takes, its encode_key() could have pushed.
LEMMA FieldIsCanonical ==
  ASSUME NEW S, CanonicalFields(Seq(S)), NEW part, IsPart(part), NEW code,
         CodeFits(part, code), WellTyped(part, code), NEW i \in Active(part)
  PROVE  \A q \in Seq(S) :
           IsOk(Take(part.fields[i].sort, IsRaw(part.fields[i]), q)) =>
             Spells(S, part.fields[i].sort, IsRaw(part.fields[i]), q,
                    Take(part.fields[i].sort, IsRaw(part.fields[i]), q))
<1>1. Accepts(part.fields[i].sort, IsRaw(part.fields[i]))
  BY TypedFields
<1>2. IsRaw(part.fields[i]) \in BOOLEAN
  BY DEF IsRaw
<1>3. part.fields[i].sort \in CodecSorts
  BY <1>1 DEF Accepts, CodecSorts
<1>4. QED
  BY <1>1, <1>2, <1>3, Zenon DEF CanonicalFields, Spells

\* The match of the tag keeps the invariant of reading foreign segments,
LEMMA ForeignMatchTag ==
  ASSUME NEW S, MacroInv(S), RejectInv, FitInv, ForeignInv(S), MatchTag
  PROVE  ForeignInv(S)'
<1>1. /\ pc = "decode" /\ arm = 0 /\ pc' \in {"decode", "end"}
      /\ UNCHANGED <<decl, arms, value, step, rest>>
  BY DEF MatchTag, macro, Fail
<1>2. IsOwn' <=> IsOwn
  BY <1>1 DEF IsOwn
<1>3. CASE IsOwn
  BY <1>1, <1>2, <1>3 DEF ForeignInv
<1>4. CASE ~ IsOwn /\ pc' = "end"
  <2>1. result' = Err("WrongNumberOfSegments") \/ result' = Err("InvalidSegment")
    BY <1>1, <1>4 DEF MatchTag, Fail
  <2>2. ~ IsOk(result')
    BY <2>1 DEF IsOk, Err
  <2>3. QED
    BY <1>1, <1>2, <1>4, <2>2 DEF ForeignInv
<1>5. CASE ~ IsOwn /\ pc' = "decode"
  <2>1. /\ decl.data = "enum" /\ step = 0 /\ left = rest /\ rest \in Seq(S)
    <3>1. 0 \notin DOMAIN arms
      BY <1>1, ArmIs
    <3>2. QED
      BY <1>1, <1>5, <3>1 DEF ForeignInv, Foreign
  <2>2. left # <<>> /\ left' = Tail(left) /\ arm' \in DOMAIN arms /\ arms[arm'].tag = Head(left)
    BY <1>1, <1>5 DEF MatchTag, Fail
  <2>3. left' \in Seq(S) /\ left = <<Head(left)>> \o left'
    BY <2>1, <2>2, HeadTailProperties
  <2>4. /\ IsPart(decl.parts[arm']) /\ Part' = decl.parts[arm']
        /\ TagOf(arm)' = <<arms[arm'].tag>>
    BY <1>1, <2>1, <2>2, ArmIs DEF Part, TagOf
  <2>5. /\ \A i \in Active(Part') : ~ (i <= 0)
        /\ Took(Part', env', 0) \in [1 .. Len((Part').fields) -> Seq(S)]
        /\ FlattenSeq(Took(Part', env', 0)) \o left' = left'
    BY <2>3, <2>4, TookNothing
  <2>6. rest = <<arms[arm'].tag>> \o left'
    BY <2>1, <2>2, <2>3
  <2>7. /\ step' = 0 /\ rest' = rest
        /\ Took(Part', env', step') \in [1 .. Len((Part').fields) -> Seq(S)]
        /\ rest = TagOf(arm)' \o (FlattenSeq(Took(Part', env', step')) \o left')
    BY <1>1, <2>1, <2>4, <2>5, <2>6
  <2>8. Reads(S)'
    BY <2>3, <2>5, <2>7 DEF Reads
  <2>9. QED
    BY <1>1, <1>2, <1>5, <2>1, <2>2, <2>8 DEF ForeignInv, Foreign
<1>6. QED
  BY <1>1, <1>3, <1>4, <1>5

\* and so do the decoding of a field
LEMMA ForeignDecodeField ==
  ASSUME NEW S, ForeignSegmentsAre(S), MacroInv(S), RejectInv, FitInv, ForeignInv(S), DecodeField
  PROVE  ForeignInv(S)'
<1>1. pc = "decode" /\ arm # 0 /\ UNCHANGED <<decl, arms, value, rest>>
  BY DEF DecodeField, macro
<1>2. IsOwn' <=> IsOwn
  BY <1>1 DEF IsOwn
<1>3. pc' \in {"decode", "end"}
  BY <1>1 DEF DecodeField, Fail
<1>4. CASE IsOwn
  BY <1>1, <1>2, <1>3, <1>4 DEF ForeignInv
<1>5. CASE ~ IsOwn
  <2>1. arm \in DOMAIN arms /\ Reads(S) /\ rest \in Seq(S)
    BY <1>1, <1>5 DEF ForeignInv, Foreign
  <2>2. /\ IsPart(Part) /\ CodeFits(Part, Code) /\ WellTyped(Part, Code) /\ TagOf(arm) \in Seq(S)
    BY <1>1, <2>1, ArmIs DEF Part, Code
  <2>3. PICK i \in DOMAIN Code.decode :
          /\ IsNext(Code.decode, i)
          /\ step' = i
          /\ LET into == Code.decode[i].into
                 taken == Take(SortAt(Part, into), Code.decode[i].raw, left)
             IN  IF IsOk(taken)
                 THEN /\ env' = [n \in DOMAIN env \cup {into} |->
                                   IF n = into THEN taken.value ELSE env[n]]
                      /\ left' = taken.left
                      /\ UNCHANGED <<pc, arm, result>>
                 ELSE Fail(taken)
    BY DEF DecodeField
  <2>4. /\ i \in Active(Part) /\ i \in DOMAIN Part.fields /\ step < i
        /\ \A j \in Active(Part) : step < j => i <= j
        /\ Code.decode[i].into = Member(Part, i) /\ Code.decode[i].raw = IsRaw(Part.fields[i])
    BY <2>2, <2>3 DEF IsNext, CodeFits, Active
  <2>5. SortAt(Part, Member(Part, i)) = Part.fields[i].sort
    BY <2>2, <2>4, PositionIs DEF SortAt
  <2> DEFINE taken == Take(Part.fields[i].sort, IsRaw(Part.fields[i]), left)
  <2>6. IF IsOk(taken)
        THEN /\ env' = [n \in DOMAIN env \cup {Member(Part, i)} |->
                          IF n = Member(Part, i) THEN taken.value ELSE env[n]]
             /\ left' = taken.left
             /\ UNCHANGED <<pc, arm, result>>
        ELSE Fail(taken)
    BY <2>3, <2>4, <2>5, Zenon
  <2>7. CASE ~ IsOk(taken)
    <3>1. pc' = "end" /\ ~ IsOk(result')
      BY <2>6, <2>7 DEF Fail
    <3>2. QED
      BY <1>2, <3>1 DEF ForeignInv
  <2>8. CASE IsOk(taken)
    <3> DEFINE pushed == Segments(Part.fields[i].sort, IsRaw(Part.fields[i]), taken.value)
               used == FlattenSeq(Took(Part, env, step))
    <3>1. left \in Seq(S) /\ step \in Nat
      BY <2>1 DEF Reads
    <3>2. pushed \in Seq(S) /\ taken.left \in Seq(S) /\ left = pushed \o taken.left
      <4>1. CanonicalFields(Seq(S))
        BY DEF ForeignSegmentsAre
      <4>2. \A q \in Seq(S) :
              IsOk(Take(Part.fields[i].sort, IsRaw(Part.fields[i]), q)) =>
                Spells(S, Part.fields[i].sort, IsRaw(Part.fields[i]), q,
                       Take(Part.fields[i].sort, IsRaw(Part.fields[i]), q))
        BY <2>2, <2>4, <4>1, FieldIsCanonical
      <4>3. Spells(S, Part.fields[i].sort, IsRaw(Part.fields[i]), left, taken)
        BY <2>8, <3>1, <4>2, Zenon
      <4>4. QED
        BY <4>3, Zenon DEF Spells
    <3>3. /\ env' = [n \in DOMAIN env \cup {Member(Part, i)} |->
                       IF n = Member(Part, i) THEN taken.value ELSE env[n]]
          /\ left' = taken.left
          /\ UNCHANGED <<pc, arm, result>>
      BY <2>6, <2>8
    <3>4. Part' = Part /\ TagOf(arm)' = TagOf(arm)
      BY <1>1, <3>3 DEF Part, TagOf
    <3>5. /\ i \in Nat
          /\ \A j \in Active(Part) : j <= i => Member(Part, j) \in DOMAIN env'
          /\ Took(Part, env', i) \in [1 .. Len(Part.fields) -> Seq(S)]
          /\ used \in Seq(S)
          /\ FlattenSeq(Took(Part, env', i)) = used \o pushed
      <4>1. /\ Took(Part, env, step) \in [1 .. Len(Part.fields) -> Seq(S)]
            /\ \A j \in Active(Part) : j <= step => Member(Part, j) \in DOMAIN env
        BY <2>1 DEF Reads
      <4>2. OneMore(S, Part, env, step, i, taken.value, pushed, env')
        BY <2>2, <2>4, <3>1, <3>2, <3>3, <4>1 DEF OneMore
      <4> HIDE DEF taken, pushed
      <4>3. QED
        BY <4>2, TookOneMore
    <3>6. rest = TagOf(arm) \o (used \o left)
      BY <2>1 DEF Reads
    <3> HIDE DEF used, pushed, taken
    <3>7. used \o (pushed \o taken.left) = (used \o pushed) \o taken.left
      <4>1. \A a, b, c \in Seq(S) : (a \o b) \o c = a \o (b \o c)
        BY Associative
      <4>2. QED
        BY <3>2, <3>5, <4>1, Zenon
    <3>8. rest = TagOf(arm) \o (FlattenSeq(Took(Part, env', i)) \o left')
      BY <3>2, <3>3, <3>5, <3>6, <3>7
    <3>9. Reads(S)'
      BY <1>1, <2>3, <3>2, <3>3, <3>4, <3>5, <3>8 DEF Reads
    <3>10. QED
      BY <1>1, <1>2, <2>1, <3>3, <3>9 DEF ForeignInv, Foreign
  <2>9. QED
    BY <2>7, <2>8
<1>6. QED
  BY <1>4, <1>5

\* and the construction of the value.
LEMMA ForeignConstruct ==
  ASSUME NEW S, MacroInv(S), RejectInv, FitInv, ForeignInv(S), Construct
  PROVE  ForeignInv(S)'
<1>1. /\ pc = "decode" /\ arm # 0 /\ pc' = "end" /\ AllRan(Code.decode)
      /\ UNCHANGED <<decl, arms, value, arm, rest, left, step>>
      /\ result' = [arm |-> arm,
                    fields |-> [m \in Members(Part) |->
                                  IF m \in Code.markers THEN Marker ELSE env[m]]]
  BY DEF Construct, macro
<1>2. IsOwn' <=> IsOwn
  BY <1>1 DEF IsOwn
<1>3. CASE IsOwn
  BY <1>1, <1>2, <1>3 DEF ForeignInv
<1>4. CASE ~ IsOwn
  <2>1. arm \in DOMAIN arms /\ Reads(S)
    BY <1>1, <1>4 DEF ForeignInv, Foreign
  <2>2. /\ IsPart(Part) /\ NoTypo(Part) /\ CodeFits(Part, Code) /\ TagOf(arm) \in Seq(S)
        /\ TagOf(arm) = IF decl.data = "enum" THEN <<Discriminant(Part)>> ELSE <<>>
    BY <1>1, <2>1, ArmIs DEF Part, Code
  <2>3. \A i \in Active(Part) : i <= step
    BY <1>1, <2>2 DEF AllRan, CodeFits
  <2> DEFINE fields == [m \in Members(Part) |-> IF m \in Code.markers THEN Marker ELSE env[m]]
             used == FlattenSeq(Took(Part, env, step))
             tail == FlattenSeq(Pieces(Part, fields))
  <2>4. Pieces(Part, fields) = Took(Part, env, step)
    <3>1. DOMAIN Part.fields = 1 .. Len(Part.fields)
      BY <2>2 DEF IsPart, IsList
    <3>2. ASSUME NEW i \in DOMAIN Part.fields
          PROVE  FieldPiece(Part, fields, i) =
                   IF i \in Active(Part) /\ i <= step
                   THEN Segments(Part.fields[i].sort, IsRaw(Part.fields[i]), env[Member(Part, i)])
                   ELSE <<>>
      <4>1. Uncoded(Part.fields[i]) <=> i \notin Active(Part)
        BY <2>2, UncodedIs
      <4>2. CASE i \in Active(Part)
        <5>1. IsRaw(Part.fields[i]) = HasOption(Part.fields[i], "raw")
          BY <2>2, RawFlagIs
        <5>2. Member(Part, i) \in Members(Part) /\ Member(Part, i) \notin Code.markers
          BY <2>2, <4>2, MarkersAre DEF Members, CodeFits
        <5>3. fields[Member(Part, i)] = env[Member(Part, i)]
          BY <5>2
        <5>4. FieldPiece(Part, fields, i) =
                Segments(Part.fields[i].sort, HasOption(Part.fields[i], "raw"),
                         fields[Member(Part, i)])
          BY <4>1, <4>2 DEF FieldPiece
        <5> HIDE DEF fields
        <5>5. QED
          BY <2>3, <4>2, <5>1, <5>3, <5>4, Zenon
      <4>3. CASE i \notin Active(Part)
        BY <4>1, <4>3 DEF FieldPiece
      <4>4. QED
        BY <4>2, <4>3
    <3> HIDE DEF fields
    <3>3. QED
      BY <3>1, <3>2 DEF Pieces, Took
  <2>5. Wire(decl, result') = TagOf(arm) \o tail
    <3>1. result'.arm = arm /\ result'.fields = fields
      BY <1>1
    <3> HIDE DEF fields
    <3>2. Wire(decl, result') =
            (IF decl.data = "enum" THEN <<Discriminant(decl.parts[result'.arm])>> ELSE <<>>)
            \o FlattenSeq(Pieces(decl.parts[result'.arm], result'.fields))
      BY Zenon DEF Wire, Pieces, FieldPiece
    <3>3. QED
      BY <2>2, <3>1, <3>2 DEF Part
  <2>6. rest = TagOf(arm) \o (used \o left) /\ left \in Seq(S)
    BY <2>1 DEF Reads
  <2>7. used \in Seq(S)
    <3>1. /\ Len(Part.fields) \in Nat
          /\ Took(Part, env, step) \in [1 .. Len(Part.fields) -> Seq(S)]
      BY <2>1, <2>2 DEF Reads, IsPart, IsList
    <3>2. QED
      BY <3>1, FlattenProper
  <2>8. tail = used
    BY <2>4
  <2> HIDE DEF used, tail
  <2>9. (TagOf(arm) \o used) \o left = TagOf(arm) \o (used \o left)
    <3>1. \A a, b, c \in Seq(S) : (a \o b) \o c = a \o (b \o c)
      BY Associative
    <3>2. QED
      BY <2>2, <2>6, <2>7, <3>1, Zenon
  <2>10. Wire(decl, result') \o left = rest
    BY <2>5, <2>6, <2>8, <2>9
  <2>11. Wire(decl', result') = Wire(decl, result')
    BY <1>1
  <2>12. QED
    BY <1>1, <1>2, <2>10, <2>11 DEF ForeignInv
<1>5. QED
  BY <1>3, <1>4

\* Every step keeps it.
LEMMA ForeignNext ==
  ASSUME NEW S, ForeignSegmentsAre(S), MacroInv(S), RejectInv, FitInv, ForeignInv(S), [Next]_vars
  PROVE  ForeignInv(S)'
<1>1. CASE ParseStructKeyPrefix \/ BuildCodecImpl \/ DeriveStruct \/ DeriveEnum
             \/ CheckUniqueVariantTags \/ BuildVariantParts \/ Compile
  <2>1. pc' \notin {"encode", "decode", "end"}
    BY <1>1 DEF ParseStructKeyPrefix, BuildCodecImpl, DeriveStruct, DeriveEnum,
                CheckUniqueVariantTags, BuildVariantParts, Compile, Continue, Reject, MacroInv
  <2>2. QED
    BY <2>1 DEF ForeignInv
<1>2. CASE EncodeKey
  <2>1. PICK k \in DOMAIN arms : \E fields : value' = [arm |-> k, fields |-> fields]
    BY <1>2 DEF EncodeKey
  <2>2. k # 0
    BY <1>2, ArmIs DEF EncodeKey
  <2>3. IsOwn'
    BY <2>1, <2>2 DEF IsOwn
  <2>4. QED
    BY <2>3 DEF ForeignInv
<1>3. CASE EncodeField \/ DecodeKey
  <2>1. IsOwn'
    BY <1>3 DEF EncodeField, DecodeKey, StartDecode, macro, IsOwn, ForeignInv
  <2>2. QED
    BY <2>1 DEF ForeignInv
<1>4. CASE DecodeForeign
  <2>1. /\ pc = "compiled" /\ pc' = "decode" /\ UNCHANGED <<decl, arms>>
        /\ rest' \in Seq(S) /\ left' = rest' /\ step' = 0
        /\ arm' = IF decl.data = "enum" THEN 0 ELSE 1
    BY <1>4 DEF DecodeForeign, StartDecode, ForeignSegmentsAre, macro
  <2>2. CASE decl.data = "enum"
    BY <2>1, <2>2 DEF ForeignInv, Foreign
  <2>3. CASE decl.data # "enum"
    <3>1. arm' = 1 /\ 1 \in DOMAIN arms
      BY <2>1, <2>3, CodesAre DEF Accepted
    <3>2. IsPart(decl.parts[1]) /\ Part' = decl.parts[1] /\ TagOf(arm)' = <<>>
      BY <2>1, <2>3, <3>1, ArmIs DEF Part, TagOf
    <3>3. /\ \A i \in Active(Part') : ~ (i <= 0)
          /\ Took(Part', env', 0) \in [1 .. Len((Part').fields) -> Seq(S)]
          /\ FlattenSeq(Took(Part', env', 0)) \o left' = left'
      BY <2>1, <3>2, TookNothing
    <3>4. <<>> \o left' = left'
      BY <2>1, EmptyIsNeutral
    <3>5. Reads(S)'
      BY <2>1, <3>2, <3>3, <3>4 DEF Reads
    <3>6. QED
      BY <2>1, <3>1, <3>5 DEF ForeignInv, Foreign
  <2>4. QED
    BY <2>2, <2>3
<1>5. CASE MatchTag
  BY <1>5, ForeignMatchTag
<1>6. CASE DecodeField
  BY <1>6, ForeignDecodeField
<1>7. CASE Construct
  BY <1>7, ForeignConstruct
<1>8. CASE UNCHANGED vars
  BY <1>8 DEF vars, macro, run, ForeignInv, Foreign, Reads, IsOwn, Part, TagOf
<1>9. QED
  BY <1>1, <1>2, <1>3, <1>4, <1>5, <1>6, <1>7, <1>8 DEF Next

\* For every declaration and whatever segments are decoded: when the Codecs of
\* the fields take only what they write, what the generated decode_key() takes
\* is what encode_key() writes for the value that it returns
\* (derive 220-239, 346-377, 473-491).
THEOREM DecodeInvertsEncodeCorrect ==
  ASSUME NEW CONSTANT S, ForeignSegmentsAre(S)
  PROVE  Spec => []DecodeInvertsEncode
<1>1. Init => MacroInv(S) /\ FitInv /\ RejectInv /\ ForeignInv(S)
  BY MacroInit, FitInit, RejectInit, ForeignInit
<1>2. MacroInv(S) /\ FitInv /\ RejectInv /\ ForeignInv(S) /\ [Next]_vars
        => MacroInv(S)' /\ FitInv' /\ RejectInv' /\ ForeignInv(S)'
  BY MacroNext, FitNext, RejectNext, ForeignNext DEF ForeignSegmentsAre
<1>3. ForeignInv(S) => DecodeInvertsEncode
  BY DEF ForeignInv, DecodeInvertsEncode
<1>4. QED
  BY <1>1, <1>2, <1>3, PTL DEF Spec

-----------------------------------------------------------------------------
(***************************************************************************)
(* Types.                                                                  *)
(***************************************************************************)
\* A Codec that takes nothing returns an error.
TakesOrFails ==
  \A sort, raw, q : IsOk(Take(sort, raw, q)) \/ \E kind : Take(sort, raw, q) = Err(kind)

ResultTypes == {"none", "err", "pos", "arm", "fields"}

ArmsInv ==
  /\ Len(arms) \in Nat /\ DOMAIN arms = 1 .. Len(arms)
  /\ Len(arms) <= Len(decl.parts)

CursorInv ==
  /\ arm \in 0 .. Len(arms)
  /\ arm = 0 => step = 0 /\ env = <<>>
  /\ arm # 0 => step \in 0 .. Len(Part.fields) /\ DOMAIN env \subseteq Members(Part)

TypeInv ==
  /\ ~ Running => arm = 0 /\ ~ IsOwn
  /\ pc = "compiled" => arm = 0 /\ ~ IsOwn
  /\ pc = "encode" => arm # 0
  /\ IsOwn => value.fields \in ValuesOf(decl.parts[value.arm])
  /\ CursorInv
  /\ DOMAIN result \subseteq ResultTypes

\* The type invariant holds in the beginning.
LEMMA TypeInit ==
  ASSUME Init
  PROVE  ArmsInv /\ TypeInv
<1>1. /\ decl \in Decls /\ arms = <<>> /\ arm = 0 /\ step = 0 /\ env = <<>> /\ value.arm = 0
      /\ result = NoText /\ pc \in {"prefix", "codec"}
  BY DEF Init
<1>2. Len(arms) = 0 /\ DOMAIN arms = 1 .. 0
  BY <1>1
<1>3. Len(decl.parts) \in Nat
  BY <1>1, DeclsAssumption DEF IsList
<1>4. ArmsInv
  BY <1>1, <1>2, <1>3 DEF ArmsInv
<1>5. DOMAIN result \subseteq ResultTypes
  BY <1>1 DEF NoText, ResultTypes
<1>6. QED
  BY <1>1, <1>2, <1>4, <1>5 DEF TypeInv, CursorInv, IsOwn, Running

\* A step keeps what is known of the generated arms,
LEMMA ArmsNext ==
  ASSUME NEW S, MacroInv(S), ArmsInv, RejectInv, [Next]_vars
  PROVE  ArmsInv'
<1>1. decl \in Decls /\ Len(decl.parts) \in Nat /\ decl' = decl
  <2>1. decl \in Decls
    BY DEF MacroInv
  <2>2. decl' = decl
    BY DEF Next, vars, macro, run, ParseStructKeyPrefix, BuildCodecImpl, DeriveStruct, DeriveEnum,
           CheckUniqueVariantTags, BuildVariantParts, Compile, EncodeKey, EncodeField, DecodeKey,
           DecodeForeign, StartDecode, MatchTag, DecodeField, Construct
  <2>3. QED
    BY <2>1, <2>2, DeclsAssumption DEF IsList
<1>2. CASE DeriveStruct /\ ~ UNCHANGED arms
  <2>1. arms' = <<StructCode(decl.parts[1])>>
    BY <1>2 DEF DeriveStruct, Reject
  <2>2. Len(decl.parts) = 1
    BY <1>1, <1>2, DeclsAssumption DEF DeriveStruct, MacroInv
  <2>3. Len(arms') = 1 /\ DOMAIN arms' = 1 .. 1
    BY <2>1
  <2>4. QED
    BY <1>1, <2>2, <2>3 DEF ArmsInv
<1>3. CASE BuildVariantParts /\ ~ UNCHANGED arms
  <2>1. pc = "arms" /\ Len(arms) < Len(decl.parts) /\ arms \in Seq(AllArms) /\ Len(arms) \in Nat
    BY <1>3 DEF BuildVariantParts, RejectInv, MacroInv, ArmsBuilt, ArmsInv
  <2> DEFINE new == Arm(decl.parts[Len(arms) + 1], tags[Len(arms) + 1])
  <2>2. arms' = Append(arms, new)
    BY <1>3 DEF BuildVariantParts, Reject
  <2>3. new \in AllArms
    BY <2>1 DEF AllArms
  <2> HIDE DEF new
  <2>4. Len(Append(arms, new)) = Len(arms) + 1 /\ Append(arms, new) \in Seq(AllArms)
    BY <2>1, <2>3, AppendProperties
  <2>5. DOMAIN Append(arms, new) = 1 .. Len(Append(arms, new))
    BY <2>4, LenProperties
  <2>6. Len(arms') \in Nat /\ Len(arms') <= Len(decl.parts)
    BY <1>1, <2>1, <2>2, <2>4
  <2>7. QED
    BY <1>1, <2>2, <2>5, <2>6 DEF ArmsInv
<1>4. CASE UNCHANGED arms
  BY <1>1, <1>4 DEF ArmsInv
<1>5. UNCHANGED arms \/ DeriveStruct \/ BuildVariantParts
  BY DEF Next, vars, macro, ParseStructKeyPrefix, BuildCodecImpl, DeriveEnum,
         CheckUniqueVariantTags, Compile, EncodeKey, EncodeField, DecodeKey,
         DecodeForeign, StartDecode, MatchTag, DecodeField, Construct, Continue, Reject
<1>6. QED
  BY <1>2, <1>3, <1>4, <1>5

\* and the types of the variables.
LEMMA TypeNext ==
  ASSUME NEW S, TakesOrFails, MacroInv(S), ArmsInv, ArmsInv', TypeInv, [Next]_vars
  PROVE  TypeInv'
<1>1. CASE ParseStructKeyPrefix \/ BuildCodecImpl \/ DeriveStruct \/ DeriveEnum
             \/ CheckUniqueVariantTags \/ BuildVariantParts \/ Compile
  <2>1. ~ Running /\ UNCHANGED run /\ pc' \notin {"encode", "decode", "end"}
    BY <1>1 DEF ParseStructKeyPrefix, BuildCodecImpl, DeriveStruct, DeriveEnum,
                CheckUniqueVariantTags, BuildVariantParts, Compile, Continue, Reject, MacroInv,
                Running
  <2>2. arm = 0 /\ ~ IsOwn /\ CursorInv /\ DOMAIN result \subseteq ResultTypes
    BY <2>1 DEF TypeInv
  <2>3. arm' = 0 /\ ~ IsOwn' /\ step' = 0 /\ env' = <<>> /\ result' = result
    BY <2>1, <2>2 DEF run, IsOwn, CursorInv
  <2>4. 0 \in 0 .. Len(arms')
    BY DEF ArmsInv
  <2>5. QED
    BY <2>1, <2>2, <2>3, <2>4 DEF TypeInv, CursorInv
<1>2. Accepted => /\ DOMAIN arms = 1 .. Len(arms) /\ Len(arms) \in Nat
                  /\ decl.data # "enum" => 1 \in DOMAIN arms
                  /\ \A k \in DOMAIN arms :
                       /\ k # 0 /\ k \in 0 .. Len(arms)
                       /\ Len(decl.parts[k].fields) \in Nat
                       /\ \A i \in Active(decl.parts[k]) :
                            /\ i \in 0 .. Len(decl.parts[k].fields)
                            /\ Member(decl.parts[k], i) \in Members(decl.parts[k])
                       /\ CodeFits(decl.parts[k], arms[k])
  <2>1. ASSUME Accepted, NEW k \in DOMAIN arms
        PROVE  /\ k # 0 /\ k \in 0 .. Len(arms)
               /\ Len(decl.parts[k].fields) \in Nat
               /\ \A i \in Active(decl.parts[k]) :
                    /\ i \in 0 .. Len(decl.parts[k].fields)
                    /\ Member(decl.parts[k], i) \in Members(decl.parts[k])
               /\ CodeFits(decl.parts[k], arms[k])
    <3>1. IsPart(decl.parts[k]) /\ CodeFits(decl.parts[k], arms[k])
      BY <2>1, CodesAre
    <3>2. k # 0 /\ k \in 0 .. Len(arms)
      BY DEF ArmsInv
    <3>3. Len(decl.parts[k].fields) \in Nat
      BY <3>1 DEF IsPart, IsList
    <3>4. DOMAIN decl.parts[k].fields = 1 .. Len(decl.parts[k].fields)
      BY <3>1 DEF IsPart, IsList
    <3>5. \A i \in Active(decl.parts[k]) : /\ i \in DOMAIN decl.parts[k].fields
                                           /\ Member(decl.parts[k], i) \in Members(decl.parts[k])
      BY DEF Active, Members
    <3>6. \A i \in Active(decl.parts[k]) : i \in 0 .. Len(decl.parts[k].fields)
      BY <3>3, <3>4, <3>5
    <3>7. QED
      BY <3>1, <3>2, <3>3, <3>5, <3>6
  <2>2. Accepted => (decl.data # "enum" => 1 \in DOMAIN arms)
    BY CodesAre
  <2>3. QED
    BY <2>1, <2>2 DEF ArmsInv
<1>3. CASE EncodeKey
  <2>1. /\ pc = "compiled" /\ pc' = "encode" /\ UNCHANGED <<decl, arms, step, env, result>>
    BY <1>3 DEF EncodeKey, macro
  <2>2. PICK k \in DOMAIN arms : \E fields \in ValuesOf(decl.parts[k]) :
          value' = [arm |-> k, fields |-> fields] /\ arm' = k
    BY <1>3 DEF EncodeKey
  <2>3. value'.arm = k /\ value'.fields \in ValuesOf(decl.parts[k]) /\ arm' = k
    BY <2>2
  <2>4. step = 0 /\ env = <<>> /\ DOMAIN result \subseteq ResultTypes
    BY <2>1 DEF TypeInv, CursorInv
  <2>5. Accepted /\ k # 0 /\ k \in 0 .. Len(arms) /\ Len(decl.parts[k].fields) \in Nat
    BY <1>2, <2>1 DEF Accepted
  <2>6. CursorInv'
    BY <2>1, <2>3, <2>4, <2>5 DEF CursorInv, Part
  <2>7. QED
    BY <2>1, <2>3, <2>4, <2>5, <2>6 DEF TypeInv, Running, IsOwn
<1>4. CASE EncodeField
  <2>1. /\ pc = "encode" /\ pc' = "encode"
        /\ UNCHANGED <<decl, arms, value, arm, env, result>>
    BY <1>4 DEF EncodeField, macro
  <2>2. Accepted /\ arm \in DOMAIN arms /\ arm # 0 /\ CursorInv
    BY <1>2, <2>1 DEF TypeInv, CursorInv, Accepted
  <2>3. step' \in DOMAIN Code.encode
    BY <1>4 DEF EncodeField
  <2>4. step' \in 0 .. Len(Part.fields)
    BY <1>2, <2>2, <2>3 DEF Code, Part, CodeFits
  <2>5. CursorInv'
    BY <2>1, <2>2, <2>4 DEF CursorInv, Part
  <2>6. QED
    BY <2>1, <2>2, <2>5 DEF TypeInv, Running, IsOwn
<1>5. CASE DecodeKey \/ DecodeForeign
  <2>1. /\ pc \in {"compiled", "encode"} /\ pc' = "decode"
        /\ UNCHANGED <<decl, arms, value, result>>
        /\ step' = 0 /\ env' = <<>>
        /\ arm' = IF decl.data = "enum" THEN 0 ELSE 1
    BY <1>5 DEF DecodeKey, DecodeForeign, StartDecode, macro
  <2>2. Accepted
    BY <2>1 DEF Accepted
  <2>3. CursorInv'
    BY <1>2, <2>1, <2>2 DEF CursorInv, Part
  <2>4. QED
    BY <2>1, <2>3 DEF TypeInv, Running, IsOwn
<1>6. CASE MatchTag
  <2>1. /\ pc = "decode" /\ arm = 0 /\ pc' \in {"decode", "end"}
        /\ UNCHANGED <<decl, arms, value, step, env>>
    BY <1>6 DEF MatchTag, macro, Fail
  <2>2. Accepted /\ step = 0 /\ env = <<>>
    BY <2>1 DEF TypeInv, CursorInv, Accepted
  <2>3. DOMAIN result' \subseteq ResultTypes
    <3>1. result' = result \/ \E kind : result' = Err(kind)
      BY <1>6 DEF MatchTag, Fail
    <3>2. QED
      BY <3>1 DEF TypeInv, Err, ResultTypes
  <2>4. arm' = 0 \/ arm' \in DOMAIN arms
    BY <1>6, <2>1 DEF MatchTag, Fail
  <2>5. CursorInv'
    BY <1>2, <2>1, <2>2, <2>4 DEF CursorInv, Part, ArmsInv
  <2>6. QED
    BY <2>1, <2>3, <2>5 DEF TypeInv, Running, IsOwn
<1>7. CASE DecodeField
  <2>1. /\ pc = "decode" /\ arm # 0 /\ pc' \in {"decode", "end"}
        /\ UNCHANGED <<decl, arms, value, arm>>
    BY <1>7 DEF DecodeField, macro, Fail
  <2>2. Accepted /\ arm \in DOMAIN arms /\ CursorInv
    BY <1>2, <2>1 DEF TypeInv, CursorInv, Accepted
  <2>3. PICK i \in DOMAIN Code.decode :
          /\ step' = i
          /\ LET into == Code.decode[i].into
                 taken == Take(SortAt(Part, into), Code.decode[i].raw, left)
             IN  IF IsOk(taken)
                 THEN /\ env' = [n \in DOMAIN env \cup {into} |->
                                   IF n = into THEN taken.value ELSE env[n]]
                      /\ left' = taken.left
                      /\ UNCHANGED <<pc, arm, result>>
                 ELSE Fail(taken)
    BY <1>7 DEF DecodeField
  <2>4. /\ step' \in 0 .. Len(Part.fields)
        /\ Code.decode[i].into \in Members(Part)
    BY <1>2, <2>2, <2>3 DEF Code, Part, CodeFits
  <2>5. /\ DOMAIN env' \subseteq DOMAIN env \cup {Code.decode[i].into}
        /\ result' = result \/ \E kind : result' = Err(kind)
    BY <2>3, Zenon DEF Fail, TakesOrFails
  <2>6. DOMAIN result' \subseteq ResultTypes
    BY <2>5 DEF TypeInv, Err, ResultTypes
  <2>7. Part' = Part
    BY <2>1 DEF Part
  <2>8. CursorInv'
    BY <2>1, <2>2, <2>4, <2>5, <2>7 DEF CursorInv
  <2>9. QED
    BY <2>1, <2>6, <2>8 DEF TypeInv, Running, IsOwn
<1>8. CASE Construct
  <2>1. /\ pc = "decode" /\ pc' = "end" /\ UNCHANGED <<decl, arms, value, arm, step, env>>
        /\ DOMAIN result' = {"arm", "fields"}
    BY <1>8 DEF Construct, macro
  <2>2. CursorInv'
    BY <2>1 DEF TypeInv, CursorInv, Part
  <2>3. QED
    BY <2>1, <2>2 DEF TypeInv, Running, IsOwn, ResultTypes
<1>9. CASE UNCHANGED vars
  BY <1>9 DEF vars, macro, run, TypeInv, CursorInv, Running, IsOwn, Part
<1>10. QED
  BY <1>1, <1>3, <1>4, <1>5, <1>6, <1>7, <1>8, <1>9 DEF Next

\* Every variable of a derived Codec has its type, for every declaration
\* (derive 44-53, 166-198, 200-239): there is an arm per variant, the cursor of
\* the running function stays in its arm, and only fields are bound.
THEOREM TypeCorrect ==
  ASSUME TakesOrFails
  PROVE  Spec => []TypeOK
<1> DEFINE S == {Tag(d.parts[k]).text : d \in Decls, k \in Nat}
<1>1. TagsIn(S)
  BY DeclsAssumption DEF IsList, TagsIn
<1> HIDE DEF S
<1> DEFINE Inv == MacroInv(S) /\ FitInv /\ RejectInv /\ ArmsInv /\ TypeInv
<1>2. Init => Inv
  BY MacroInit, FitInit, RejectInit, TypeInit
<1>3. Inv /\ [Next]_vars => Inv'
  <2> SUFFICES ASSUME Inv, [Next]_vars PROVE Inv'
    OBVIOUS
  <2>1. MacroInv(S)' /\ FitInv' /\ RejectInv'
    BY <1>1, MacroNext, FitNext, RejectNext
  <2>2. ArmsInv'
    BY ArmsNext
  <2>3. TypeInv'
    BY <2>2, TypeNext
  <2>4. QED
    BY <2>1, <2>2, <2>3
<1>4. Inv => TypeOK
  <2> SUFFICES ASSUME Inv PROVE TypeOK
    OBVIOUS
  <2>1. Accepted => Len(arms) = Len(decl.parts)
    <3>1. decl.data = "struct" => Len(decl.parts) = 1
      BY DeclsAssumption DEF MacroInv
    <3>2. QED
      BY <3>1 DEF MacroInv, Generated
  <2>2. QED
    BY <2>1 DEF MacroInv, ArmsInv, TypeInv, CursorInv, TypeOK, ResultTypes
<1> HIDE DEF Inv
<1>5. QED
  BY <1>2, <1>3, <1>4, PTL DEF Spec
=====
