------------------------------- MODULE Derive -------------------------------
(***************************************************************************)
(* The derive macros of structkey-derive and the code they generate.  One  *)
(* behaviour takes a declaration through #[derive(Codec)] or               *)
(* #[derive(StructKey)], then through the compiler, and then runs the      *)
(* generated encode_key() and decode_key() on a value, statement by        *)
(* statement.                                                              *)
(*                                                                         *)
(* A declaration is a record: `derive` and `attrs` of the container, its   *)
(* shape `data`, its `parts` (the variants of an enum, or the one body of  *)
(* a struct) and `consumer`, the crate it stands in.  A part has an        *)
(* `ident`, `attrs`, a `shape` and `fields`; a field has an `ident`, a     *)
(* `path` (the segments of the type as written), a `sort` (the type that   *)
(* the path names) and `attrs`.  An attribute is flattened to its options: *)
(* [path |-> "codec", name |-> "rename", lit |-> text].                    *)
(*                                                                         *)
(* The Codec of a field's own type is a parameter, with what it promises   *)
(* in FieldContract.                                                       *)
(***************************************************************************)
EXTENDS Helper, FiniteSets, FiniteSetsExt

CONSTANTS
  Decls,              \* the declarations to derive for
  Queues,             \* segments that are decoded, or that follow a value
  FieldValues,        \* the values of each sort of field
  Segments(_, _, _),  \* what a field of a sort pushes, raw or not, for a value
  Take(_, _, _)       \* what it decodes from a queue of segments: an error, or
                      \* the value and the segments left

VARIABLES
  pc,         \* the function that runs, of the macro or of the generated code
  decl,       \* the declaration
  prefix,     \* what parse_struct_key_prefix() returned
  tags,       \* the discriminants of the variants
  arms,       \* the generated code: one for a struct, one per variant
  error,      \* compile error of the macro or the compiler
  value,      \* the value that is encoded: [arm |-> k, fields |-> ...]
  arm,        \* the variant that is matched, 0 before
  step,       \* the position of the field whose statement ran last
  segments,   \* what encode_key() pushed
  after,      \* history: what encode_key() has pushed since each step
  rest,       \* the segments after this value in the enclosing key; of foreign
              \* segments, all
  left,       \* the segments not yet decoded
  env,        \* the values decoded so far, under the names they are bound to
  result      \* what decode_key() returned

macro == <<decl, prefix, tags, arms, error>>
run == <<value, arm, step, segments, after, rest, left, env, result>>
vars == <<pc, macro, run>>

NoText == [none |-> TRUE]
NoError == [none |-> TRUE]
Marker == [marker |-> TRUE]

-----------------------------------------------------------------------------
(***************************************************************************)
(* Attributes                                                              *)
(***************************************************************************)
\* The positions of the options that a path has.
Options(attrs, path) == {k \in DOMAIN attrs : attrs[k].path = path}

\* What is wrong with an option of the form name = "...", if anything.
OptionError(option, name) ==
  CASE option.name # name -> "unknown_option"
    [] option.name = name /\ option.lit = <<>> -> "empty_literal"
    [] option.name = name /\ Slash \in Range(option.lit) -> "slash_in_literal"
    [] OTHER -> "none"

\* The literal of the last option, unless one of them is wrong.
Literal(attrs, path, name) ==
  LET options == Options(attrs, path)
      wrong == {k \in options : OptionError(attrs[k], name) # "none"}
  IN  IF wrong # {} THEN Err(OptionError(attrs[Min(wrong)], name))
      ELSE IF options = {} THEN NoText
      ELSE OkText(attrs[Max(options)].lit)

StructKeyPrefix(d) ==
  LET found == Literal(d.attrs, "structkey", "prefix")
  IN  IF found = NoText THEN Err("missing_prefix") ELSE found

CheckVariantRename(part) == Literal(part.attrs, "codec", "rename")

\* check_raw(): some option is unknown; else, whether one of them is there.
CheckRawFails(field) == \E k \in Options(field.attrs, "codec") : field.attrs[k].name # "raw"
IsRaw(field) == Options(field.attrs, "codec") # {}

\* is_phantom_data(): by the last segment of the path, as it is written; a type
\* that is no path has none.
IsPhantomData(field) == field.path # <<>> /\ Last(field.path) = "PhantomData"

-----------------------------------------------------------------------------
(***************************************************************************)
(* Discriminants                                                           *)
(***************************************************************************)
\* Identifiers are taken to be ASCII, where is_uppercase(), is_lowercase() and
\* to_lowercase() of a char are these.
Upper == 65 .. 90
Lower == 97 .. 122
ToLower(c) == IF c \in Upper THEN c + 32 ELSE c

\* Mutant: an acronym runs into the word that follows it.
NeedsSepAfterLower(ident, p) ==
  p > 1 /\ ident[p] \in Upper /\ ident[p - 1] \in Lower

NeedsSep(ident, p) ==
  /\ p > 1
  /\ ident[p] \in Upper
  /\ \/ ident[p - 1] \in Lower
     \/ ident[p - 1] \in Upper /\ p < Len(ident) /\ ident[p + 1] \in Lower

SnakeCase(ident) ==
  FlattenSeq([p \in DOMAIN ident |->
                IF NeedsSep(ident, p) THEN <<Underscore, ToLower(ident[p])>>
                                      ELSE <<ToLower(ident[p])>>])

Tag(part) ==
  LET rename == CheckVariantRename(part)
  IN  IF rename = NoText THEN OkText(SnakeCase(part.ident)) ELSE rename

-----------------------------------------------------------------------------
(***************************************************************************)
(* Generated code.  Statements are functions on field positions, executed  *)
(* in the order of positions: `encode` and `count` name the local, or the  *)
(* field of self, that is their receiver; `decode` names what the decoded  *)
(* value is bound to.  `scope` maps the fields to the names under which    *)
(* encode and count see them; `markers` are the fields that the            *)
(* constructor sets to PhantomData; `lets` tells whether the decoded       *)
(* values are bound with `let`, or are operands of the constructor.        *)
(***************************************************************************)
Ident(name) == <<name>>
SynthName(i) == <<"__f", i>>
Member(part, i) == IF part.shape = "tuple" THEN <<"", i>> ELSE Ident(part.fields[i].ident)
Members(part) == {Member(part, i) : i \in DOMAIN part.fields}

Active(part) == {i \in DOMAIN part.fields : ~ IsPhantomData(part.fields[i])}
ActiveMembers(part) == {Member(part, i) : i \in Active(part)}
Position(part, m) == CHOOSE i \in DOMAIN part.fields : Member(part, i) = m
Markers(part) == Members(part) \ ActiveMembers(part)

\* Mutant: the synthetic names are numbered after the markers are left out.
RenumberedReceivers(part) ==
  [i \in Active(part) |-> [of |-> SynthName(Cardinality({j \in Active(part) : j <= i})),
                           raw |-> IsRaw(part.fields[i])]]

\* active_field_iter() with the receivers of the encode and count statements.
ActiveReceivers(part) ==
  [i \in Active(part) |-> [of |-> SynthName(i), raw |-> IsRaw(part.fields[i])]]

SelfReceivers(part) ==
  [i \in Active(part) |-> [of |-> Member(part, i), raw |-> IsRaw(part.fields[i])]]

\* Mutant: the raw flag is forgotten in one of the three places.
DecodeLetsNotRaw(part) ==
  [i \in Active(part) |-> [into |-> Member(part, i), raw |-> FALSE]]

DecodeLets(part) ==
  [i \in Active(part) |-> [into |-> Member(part, i), raw |-> IsRaw(part.fields[i])]]

StructCode(part) ==
  [tag |-> <<>>, lets |-> TRUE, scope |-> [m \in Members(part) |-> m],
   encode |-> SelfReceivers(part), decode |-> DecodeLets(part),
   markers |-> Markers(part), count |-> SelfReceivers(part)]

Bindings(part) == [m \in ActiveMembers(part) |-> SynthName(Position(part, m))]
DecodeAssigns(part) ==
  [i \in Active(part) |-> [into |-> Member(part, i), raw |-> IsRaw(part.fields[i])]]

\* Mutant: `{ .. } => 1` is generated as soon as one field is a marker.
NamedArmDotDot(part, tag) ==
  [tag |-> tag, lets |-> FALSE, scope |-> Bindings(part),
   encode |-> ActiveReceivers(part), decode |-> DecodeAssigns(part),
   markers |-> Markers(part),
   count |-> IF Markers(part) # {} THEN <<>> ELSE ActiveReceivers(part)]

NamedArm(part, tag) ==
  [tag |-> tag, lets |-> FALSE, scope |-> Bindings(part),
   encode |-> ActiveReceivers(part), decode |-> DecodeAssigns(part),
   markers |-> Markers(part), count |-> ActiveReceivers(part)]

\* The calls of a tuple variant are operands at their positions.
DecodeCalls(part) ==
  [i \in Active(part) |-> [into |-> <<"", i>>, raw |-> IsRaw(part.fields[i])]]
TupleArm(part, tag) ==
  [tag |-> tag, lets |-> FALSE, scope |-> [m \in ActiveMembers(part) |-> SynthName(m[2])],
   encode |-> ActiveReceivers(part), decode |-> DecodeCalls(part),
   markers |-> Markers(part), count |-> ActiveReceivers(part)]

UnitArm(tag) ==
  [tag |-> tag, lets |-> FALSE, scope |-> <<>>, encode |-> <<>>, decode |-> <<>>,
   markers |-> {}, count |-> <<>>]

Arm(part, tag) ==
  CASE part.shape = "named" -> NamedArm(part, tag)
    [] part.shape = "tuple" -> TupleArm(part, tag)
    [] part.shape = "unit" -> UnitArm(tag)

StructKeyRoot(consumer) == IF consumer.found = "name" THEN consumer.name ELSE "structkey"

-----------------------------------------------------------------------------
(***************************************************************************)
(* What the grammar and the type checker see to, whatever the macro does.  *)
(***************************************************************************)
IsList(s) == s \in Seq(Range(s))

IsPart(part) ==
  /\ part.shape \in {"named", "tuple", "unit"}
  /\ IsList(part.fields) /\ IsList(part.attrs) /\ IsList(part.ident)
  /\ part.shape = "unit" => part.fields = <<>>
  /\ part.shape = "named" =>
       \A i, j \in DOMAIN part.fields : part.fields[i].ident = part.fields[j].ident => i = j
  /\ \A i \in DOMAIN part.fields : IsList(part.fields[i].path)

\* The crates that a path can start with: those that Cargo.toml names, and the
\* crate itself under the alias at its root.  Without a direct dependency some
\* other crate may still be called structkey.
IsConsumer(consumer) ==
  \/ consumer.found = "name" /\ consumer.name \in consumer.externs
  \/ consumer.found = "itself" /\ "structkey" \in consumer.externs
  \/ consumer.found = "none"

ASSUME DeclsAssumption ==
  \A d \in Decls :
    /\ d.data \in {"struct", "enum", "other"}
    /\ IsList(d.parts) /\ IsList(d.attrs)
    /\ d.data = "struct" => Len(d.parts) = 1 /\ d.parts[1].shape = "named"
    /\ \A k \in DOMAIN d.parts : IsPart(d.parts[k])
    /\ IsConsumer(d.consumer)
ASSUME MarkerAssumption == FieldValues["marker"] = {Marker}

-----------------------------------------------------------------------------
(***************************************************************************)
(* The macro                                                               *)
(***************************************************************************)
Init ==
  /\ decl \in Decls
  /\ pc = IF decl.derive = "StructKey" THEN "prefix" ELSE "codec"
  /\ prefix = NoText
  /\ tags = <<>>
  /\ arms = <<>>
  /\ error = NoError
  /\ value = [arm |-> 0, fields |-> <<>>]
  /\ arm = 0
  /\ step = 0
  /\ segments = <<>>
  /\ after = <<>>
  /\ rest = <<>>
  /\ left = <<>>
  /\ env = <<>>
  /\ result = NoText

\* The `?` of the macro: on an error nothing is generated.
Reject(e) == pc' = "rejected" /\ error' = e /\ UNCHANGED <<prefix, tags, arms>>
Continue(next) == pc' = next /\ UNCHANGED error

ParseStructKeyPrefix ==
  /\ pc = "prefix"
  /\ LET found == StructKeyPrefix(decl)
     IN  IF IsOk(found)
         THEN Continue("codec") /\ prefix' = found /\ UNCHANGED <<tags, arms>>
         ELSE Reject(found)
  /\ UNCHANGED <<decl, run>>

BuildCodecImpl ==
  /\ pc = "codec"
  /\ \/ decl.data \in {"struct", "enum"} /\ Continue(decl.data) /\ UNCHANGED <<prefix, tags, arms>>
     \/ decl.data = "other" /\ Reject(Err("unsupported_shape"))
  /\ UNCHANGED <<decl, run>>

DeriveStruct ==
  /\ pc = "struct"
  /\ IF \E f \in Range(decl.parts[1].fields) : CheckRawFails(f)
     THEN Reject(Err("unknown_option"))
     ELSE /\ Continue("compile")
          /\ arms' = <<StructCode(decl.parts[1])>>
          /\ UNCHANGED <<prefix, tags>>
  /\ UNCHANGED <<decl, run>>

\* The start of derive_enum(): the discriminants of all variants.
DeriveEnum ==
  /\ pc = "enum"
  /\ LET all == [k \in DOMAIN decl.parts |-> Tag(decl.parts[k])]
         wrong == {k \in DOMAIN all : ~ IsOk(all[k])}
     IN  IF decl.parts = <<>> THEN Reject(Err("empty_enum"))
         ELSE IF wrong # {} THEN Reject(all[Min(wrong)])
         ELSE /\ Continue("unique")
              /\ tags' = [k \in DOMAIN all |-> all[k].text]
              /\ UNCHANGED <<prefix, arms>>
  /\ UNCHANGED <<decl, run>>

\* Mutant: a tag is compared with the one before it only.
CheckUniqueNeighbours ==
  /\ pc = "unique"
  /\ IF \E j, k \in DOMAIN tags : j + 1 = k /\ tags[j] = tags[k]
     THEN Reject(Err("duplicate_tag"))
     ELSE Continue("arms") /\ UNCHANGED <<prefix, tags, arms>>
  /\ UNCHANGED <<decl, run>>

CheckUniqueVariantTags ==
  /\ pc = "unique"
  /\ IF \E j, k \in DOMAIN tags : j < k /\ tags[j] = tags[k]
     THEN Reject(Err("duplicate_tag"))
     ELSE Continue("arms") /\ UNCHANGED <<prefix, tags, arms>>
  /\ UNCHANGED <<decl, run>>

\* Mutant: the loop ends after its first variant.
BuildFirstVariantOnly ==
  /\ pc = "arms"
  /\ IF \E f \in Range(decl.parts[1].fields) : CheckRawFails(f)
     THEN Reject(Err("unknown_option"))
     ELSE /\ Continue("compile")
          /\ arms' = <<Arm(decl.parts[1], tags[1])>>
          /\ UNCHANGED <<prefix, tags>>
  /\ UNCHANGED <<decl, run>>

\* The loop of derive_enum() over the variants; unit variants have no fields.
BuildVariantParts ==
  /\ pc = "arms"
  /\ LET k == Len(arms) + 1
         part == decl.parts[k]
     IN  IF \E f \in Range(part.fields) : CheckRawFails(f)
         THEN Reject(Err("unknown_option"))
         ELSE /\ Continue(IF k = Len(decl.parts) THEN "compile" ELSE "arms")
              /\ arms' = Append(arms, Arm(part, tags[k]))
              /\ UNCHANGED <<prefix, tags>>
  /\ UNCHANGED <<decl, run>>

-----------------------------------------------------------------------------
(***************************************************************************)
(* The compiler: names resolve to what is in scope, the types agree.       *)
(***************************************************************************)
CodecSorts == {"string", "u64", "unit", "user"}

\* Codec::encode_key(&f, b), or Raw::from_ref(&f), which takes a &String.
Accepts(sort, raw) == IF raw THEN sort = "string" ELSE sort \in CodecSorts

ReceiverTypes(part, code, statements) ==
  \A i \in DOMAIN statements :
    \E j \in DOMAIN part.fields :
      /\ Member(part, j) \in DOMAIN code.scope
      /\ code.scope[Member(part, j)] = statements[i].of
      /\ Accepts(part.fields[j].sort, statements[i].raw)

\* The argument `p` of decode_key() is the parser, unless a `let p` precedes it.
ParserInScope(code, i) ==
  code.lets => \A k \in DOMAIN code.decode : k < i => code.decode[k].into # Ident("p")

DecodeTypes(part, code) ==
  /\ \A i \in DOMAIN code.decode :
       /\ ParserInScope(code, i)
       /\ \E j \in DOMAIN part.fields :
            /\ Member(part, j) = code.decode[i].into
            /\ Accepts(part.fields[j].sort, code.decode[i].raw)
  /\ \A j \in DOMAIN part.fields :
       IF Member(part, j) \in code.markers THEN part.fields[j].sort = "marker"
       ELSE \E i \in DOMAIN code.decode : code.decode[i].into = Member(part, j)

WellTyped(part, code) ==
  /\ ReceiverTypes(part, code, code.encode)
  /\ ReceiverTypes(part, code, code.count)
  /\ DecodeTypes(part, code)

Compile ==
  /\ pc = "compile"
  /\ IF /\ StructKeyRoot(decl.consumer) \in decl.consumer.externs
        /\ \A k \in DOMAIN arms : WellTyped(decl.parts[k], arms[k])
     THEN Continue("compiled")
     ELSE pc' = "rejected" /\ error' = Err("does_not_compile")
  /\ UNCHANGED <<decl, prefix, tags, arms, run>>

-----------------------------------------------------------------------------
(***************************************************************************)
(* The generated code                                                      *)
(***************************************************************************)
SortAt(part, m) == part.fields[Position(part, m)].sort
ValuesOf(part) ==
  {fields \in [Members(part) -> UNION Range(FieldValues)] :
     \A m \in Members(part) : fields[m] \in FieldValues[SortAt(part, m)]}

Code == arms[arm]
Part == decl.parts[arm]

\* The statement at position i is the next one.
IsNext(statements, i) ==
  i \in DOMAIN statements /\ step < i /\ \A j \in DOMAIN statements : step < j => i <= j
AllRan(statements) == \A i \in DOMAIN statements : i <= step

\* encode_key() of a value: for an enum, its arm pushes the discriminant.
EncodeKey ==
  /\ pc = "compiled"
  /\ \E k \in DOMAIN arms : \E fields \in ValuesOf(decl.parts[k]) :
       /\ value' = [arm |-> k, fields |-> fields]
       /\ arm' = k
       /\ segments' = IF decl.data = "enum" THEN <<arms[k].tag>> ELSE <<>>
  /\ after' = [s \in {0} |-> <<>>]
  /\ pc' = "encode"
  /\ UNCHANGED <<macro, step, rest, left, env, result>>

\* let b = Codec::encode_key(<receiver>, b);
EncodeField ==
  /\ pc = "encode"
  /\ \E i \in DOMAIN Code.encode, m \in DOMAIN Code.scope :
       /\ IsNext(Code.encode, i)
       /\ Code.scope[m] = Code.encode[i].of
       /\ LET pushed == Segments(SortAt(Part, m), Code.encode[i].raw, value.fields[m])
          IN  /\ segments' = segments \o pushed
              /\ after' = [s \in DOMAIN after \cup {i} |->
                            IF s \in DOMAIN after THEN after[s] \o pushed ELSE <<>>]
       /\ step' = i
  /\ UNCHANGED <<pc, macro, value, arm, rest, left, env, result>>

\* decode_key() starts: a struct has one body, an enum reads its discriminant.
StartDecode(queue) ==
  /\ pc' = "decode"
  /\ arm' = IF decl.data = "enum" THEN 0 ELSE 1
  /\ step' = 0
  /\ left' = queue
  /\ env' = <<>>
  /\ UNCHANGED <<macro, value, segments, after, result>>

\* decode_key() of what was written, inside a key that goes on with `rest`.
DecodeKey ==
  /\ pc = "encode"
  /\ AllRan(Code.encode)
  /\ rest' \in Queues
  /\ StartDecode(segments \o rest')

\* decode_key() of segments from elsewhere.
DecodeForeign ==
  /\ pc = "compiled"
  /\ rest' \in Queues
  /\ StartDecode(rest')

Fail(e) == pc' = "end" /\ result' = e /\ UNCHANGED <<arm, left, env>>

\* Mutant: a segment that is no discriminant selects the last variant.
MatchTagOrLast ==
  /\ pc = "decode"
  /\ arm = 0
  /\ IF left = <<>> THEN Fail(Err("WrongNumberOfSegments"))
     ELSE /\ arm' = IF \E k \in DOMAIN arms : arms[k].tag = Head(left)
                    THEN CHOOSE k \in DOMAIN arms : arms[k].tag = Head(left)
                    ELSE Len(arms)
          /\ left' = Tail(left)
          /\ UNCHANGED <<pc, env, result>>
  /\ UNCHANGED <<macro, value, step, segments, after, rest>>

\* match p.next_raw()? { tag => ..., _ => Err(InvalidSegment) }
MatchTag ==
  /\ pc = "decode"
  /\ arm = 0
  /\ IF left = <<>> THEN Fail(Err("WrongNumberOfSegments"))
     ELSE \/ /\ \A k \in DOMAIN arms : arms[k].tag # Head(left)
             /\ Fail(Err("InvalidSegment"))
          \/ /\ \E k \in DOMAIN arms :
                  /\ arms[k].tag = Head(left)
                  /\ \A j \in DOMAIN arms : j < k => arms[j].tag # Head(left)
                  /\ arm' = k
             /\ left' = Tail(left)
             /\ UNCHANGED <<pc, env, result>>
  /\ UNCHANGED <<macro, value, step, segments, after, rest>>

\* Codec::decode_key(p)?, bound to its name
DecodeField ==
  /\ pc = "decode"
  /\ arm # 0
  /\ \E i \in DOMAIN Code.decode :
       /\ IsNext(Code.decode, i)
       /\ step' = i
       /\ LET into == Code.decode[i].into
              taken == Take(SortAt(Part, into), Code.decode[i].raw, left)
          IN  IF IsOk(taken)
              THEN /\ env' = [n \in DOMAIN env \cup {into} |->
                                IF n = into THEN taken.value ELSE env[n]]
                   /\ left' = taken.left
                   /\ UNCHANGED <<pc, arm, result>>
              ELSE Fail(taken)
  /\ UNCHANGED <<macro, value, segments, after, rest>>

\* Ok(Self { field, marker: PhantomData })
Construct ==
  /\ pc = "decode"
  /\ arm # 0
  /\ AllRan(Code.decode)
  /\ pc' = "end"
  /\ result' = [arm |-> arm,
                fields |-> [m \in Members(Part) |->
                              IF m \in Code.markers THEN Marker ELSE env[m]]]
  /\ UNCHANGED <<macro, value, arm, step, segments, after, rest, left, env>>

Next ==
  \/ ParseStructKeyPrefix \/ BuildCodecImpl \/ DeriveStruct \/ DeriveEnum
  \/ CheckUniqueVariantTags \/ BuildVariantParts \/ Compile
  \/ EncodeKey \/ EncodeField \/ DecodeKey \/ DecodeForeign
  \/ MatchTag \/ DecodeField \/ Construct

Spec == Init /\ [][Next]_vars

\* The generated segment_count(): the discriminant, and the terms.
Count(d, code, v) ==
  LET part == d.parts[v.arm]
      Term(i) == LET m == CHOOSE m \in DOMAIN code.scope : code.scope[m] = code.count[i].of
                 IN  Len(Segments(SortAt(part, m), code.count[i].raw, v.fields[m]))
      sum[n \in 0 .. Len(part.fields)] ==
        IF n = 0 THEN 0
        ELSE sum[n - 1] + (IF n \in DOMAIN code.count THEN Term(n) ELSE 0)
  IN  (IF d.data = "enum" THEN 1 ELSE 0) + sum[Len(part.fields)]

-----------------------------------------------------------------------------
(***************************************************************************)
(* What the documentation promises, said of the declaration alone.         *)
(***************************************************************************)
\* What a Codec must keep so that types composed of it keep it too: decoding
\* takes back exactly what encoding pushed, whatever follows.
FieldContract(queues) ==
  \A sort \in CodecSorts, raw \in BOOLEAN :
    Accepts(sort, raw) =>
      \A v \in FieldValues[sort] :
        /\ Segments(sort, raw, v) \in queues
        /\ \A q \in queues :
             Take(sort, raw, Segments(sort, raw, v) \o q) = [value |-> v, left |-> q]

\* What a Codec may keep besides: decoding takes only what encoding pushes.
CanonicalFields(queues) ==
  \A sort \in CodecSorts, raw \in BOOLEAN :
    Accepts(sort, raw) =>
      \A q \in queues :
        LET taken == Take(sort, raw, q)
        IN  IsOk(taken) =>
              /\ Segments(sort, raw, taken.value) \in queues
              /\ taken.left \in queues
              /\ q = Segments(sort, raw, taken.value) \o taken.left

HasOption(field, name) == \E o \in Range(field.attrs) : o.path = "codec" /\ o.name = name
Named(field, name) == \E n \in DOMAIN field.path : n = Len(field.path) /\ field.path[n] = name
Uncoded(field) == Named(field, "PhantomData")

\* snake_case: an underscore before an upper case letter where otherwise two
\* words would be joined, a word or an acronym with the word after it, and
\* nowhere else.
Joins(ident, cuts) ==
  \E p \in 1 .. Len(ident) - 1 :
    \/ ident[p] \in Lower /\ ident[p + 1] \in Upper /\ p + 1 \notin cuts
    \/ /\ p + 2 <= Len(ident)
       /\ ident[p] \in Upper /\ ident[p + 1] \in Upper /\ ident[p + 2] \in Lower
       /\ p + 1 \notin cuts
WordStarts(ident) ==
  LET places == {p \in 2 .. Len(ident) : ident[p] \in Upper}
  IN  CHOOSE cuts \in SUBSET places :
        /\ ~ Joins(ident, cuts)
        /\ \A fewer \in SUBSET cuts : fewer # cuts => Joins(ident, fewer)
Separated(ident, cuts) ==
  FlattenSeq([p \in DOMAIN ident |->
                (IF p \in cuts THEN <<Underscore>> ELSE <<>>) \o <<ToLower(ident[p])>>])

\* The discriminant of a variant: the last rename, or the name in snake_case.
Discriminant(part) ==
  LET renames == {k \in DOMAIN part.attrs : part.attrs[k].path = "codec"}
  IN  IF renames = {} THEN Separated(part.ident, WordStarts(part.ident))
      ELSE part.attrs[CHOOSE k \in renames : \A j \in renames : j <= k].lit

OptionDefects(attrs, path, name) ==
  LET given == {o \in Range(attrs) : o.path = path}
  IN  {"unknown_option" : o \in {o \in given : o.name # name}}
      \cup {"empty_literal" : o \in {o \in given : o.name = name /\ o.lit = <<>>}}
      \cup {"slash_in_literal" : o \in {o \in given : o.name = name /\ Slash \in Range(o.lit)}}

\* Everything that is wrong with a declaration.
Defects(d) ==
  LET parts == IF d.data = "other" THEN {} ELSE Range(d.parts)
      fields == UNION {Range(part.fields) : part \in parts}
      asKey == d.derive = "StructKey"
      isEnum == d.data = "enum"
  IN  (IF d.data = "other" THEN {"unsupported_shape"} ELSE {})
      \cup (IF isEnum /\ parts = {} THEN {"empty_enum"} ELSE {})
      \cup (IF asKey THEN OptionDefects(d.attrs, "structkey", "prefix") ELSE {})
      \cup (IF asKey /\ \A o \in Range(d.attrs) : o.path # "structkey"
            THEN {"missing_prefix"} ELSE {})
      \cup (IF isEnum THEN UNION {OptionDefects(part.attrs, "codec", "rename") : part \in parts}
            ELSE {})
      \cup (IF isEnum /\ \E j, k \in DOMAIN d.parts :
                           j # k /\ Discriminant(d.parts[j]) = Discriminant(d.parts[k])
            THEN {"duplicate_tag"} ELSE {})
      \cup {"unknown_option" :
              f \in {f \in fields : \E o \in Range(f.attrs) : o.path = "codec" /\ o.name # "raw"}}

\* The types of the fields and the crate are as documented: `raw` on String
\* only, PhantomData is the real one, and `::structkey` is a crate where no
\* direct dependency tells its name (derive 16-45, 633-645).
FieldTypesFit(d) ==
  /\ d.consumer.found = "none" => "structkey" \in d.consumer.externs
  /\ \A part \in Range(d.parts) : \A f \in Range(part.fields) :
       /\ HasOption(f, "raw") => f.sort = "string"
       /\ IF Uncoded(f) THEN f.sort = "marker" ELSE f.sort \in CodecSorts

\* `raw` stands on a field that has no code: "Only valid on `String` fields"
\* (derive 41), and still accepted and ignored (derive 190-191, 705-721).
RawOnMarker(d) ==
  \E part \in Range(d.parts) : \E f \in Range(part.fields) : Uncoded(f) /\ HasOption(f, "raw")

\* A struct has a field `p`, and after it another that is decoded.
ShadowsParser(d) ==
  /\ d.data = "struct"
  /\ LET fields == d.parts[1].fields
     IN  \E i, j \in DOMAIN fields :
           i < j /\ fields[i].ident = "p" /\ ~ Uncoded(fields[i]) /\ ~ Uncoded(fields[j])

\* The segments of a value: its discriminant, then its fields in declaration
\* order, markers left out.
Wire(d, v) ==
  LET part == d.parts[v.arm]
      Of(i) == IF Uncoded(part.fields[i]) THEN <<>>
               ELSE Segments(part.fields[i].sort, HasOption(part.fields[i], "raw"),
                             v.fields[Member(part, i)])
  IN  (IF d.data = "enum" THEN <<Discriminant(part)>> ELSE <<>>)
      \o FlattenSeq([i \in DOMAIN part.fields |-> Of(i)])

Accepted == pc \in {"compile", "compiled", "encode", "decode", "end"}
IsOwn == value.arm # 0
IsWritten == IsOwn /\ pc \in {"decode", "end"}

-----------------------------------------------------------------------------
\* Every variable has its type: the generated code has an arm per variant, the
\* cursor of the running function stays in the arm, and every name that is bound
\* is a field's.
TypeOK ==
  /\ pc \in {"prefix", "codec", "struct", "enum", "unique", "arms", "rejected"}
       \/ Accepted
  /\ Len(arms) <= Len(decl.parts)
  /\ Accepted => Len(arms) = Len(decl.parts)
  /\ arm \in 0 .. Len(arms)
  /\ IsOwn => value.fields \in ValuesOf(decl.parts[value.arm])
  /\ arm # 0 => step \in 0 .. Len(Part.fields)
  /\ arm # 0 => DOMAIN env \subseteq Members(Part)
  /\ DOMAIN result \subseteq {"none", "err", "pos", "arm", "fields"}

\* The macro rejects a declaration for a defect that it has, whatever other
\* defects hide it, and accepts only declarations without one: no empty or
\* split discriminant or prefix, no two variants with one discriminant, also
\* when a rename meets a default (derive 44-53, 78-81, 166-184, 388-406).
RejectsExactlyDefects ==
  /\ (pc = "rejected" /\ error.err # "does_not_compile") => error.err \in Defects(decl)
  /\ Accepted => Defects(decl) = {}

\* The generated code compiles exactly when the types of the fields are as
\* documented and no field `p` shadows the parser: every name it uses is bound,
\* and no field is left out silently because its type is called PhantomData
\* (derive 23-45, 200-239, 436-491).  A declaration with `raw` on a PhantomData
\* field is exempt: it is not as documented, and compiles.
CompilesWhenTypesFit ==
  LET fits == FieldTypesFit(decl) /\ ~ ShadowsParser(decl)
  IN  /\ (Accepted /\ pc # "compile") => fits \/ RawOnMarker(decl)
      /\ error = Err("does_not_compile") => ~ fits

\* encode_key() writes the discriminant and the fields in declaration order, raw
\* fields raw and markers not at all (derive 3-12, 200-218, 454-471, 545-563).
WireIsDeclared == IsWritten => segments = Wire(decl, value)

\* decode_key() gives back the value that encode_key() wrote, and leaves exactly
\* what the enclosing key wrote after it: a derived Codec keeps the contract
\* that its fields' Codecs keep (derive 220-239, 346-377, 473-491).
RoundTrip == (IsOwn /\ pc = "end") => result = value /\ left = rest

\* What decode_key() makes of segments from elsewhere is written as the segments
\* that it took; it skips none and makes none up.
DecodeInvertsEncode ==
  (~ IsOwn /\ pc = "end" /\ IsOk(result)) => Wire(decl, result) \o left = rest

\* segment_count() is the number of segments that encode_key() pushes, also where
\* markers leave gaps in the numbering of the bindings (derive 254-275, 494-509).
CountIsExact == IsWritten => Len(segments) = Count(decl, arms[value.arm], value)

\* "Generates a `Codec` impl for a struct with named fields, or for an enum"
\* (derive 3-4), whatever the names of the fields are.
NamedFieldsCompile == error = Err("does_not_compile") => ~ FieldTypesFit(decl)
=============================================================================
