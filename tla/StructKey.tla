------------------------------ MODULE StructKey ------------------------------
(***************************************************************************)
(* A structured key written with to_string_key() and read with             *)
(* from_str_key() (struct_key.rs), through the Codec impls of codec.rs,    *)
(* raw.rs, dir_name.rs and the derive.                                     *)
(*                                                                         *)
(* The calls of encode_key() and decode_key() nest; `todo` and `need` are  *)
(* what is left of them, outermost last, and each action is one call.  The *)
(* reader may be another type than the writer, the text may come from      *)
(* elsewhere, and what was read from such a text is written again.         *)
(***************************************************************************)
EXTENDS Builder, Keys

CONSTANTS Catalog,   \* named key types: records [prefix, type, values]
          Foreign    \* texts that from_str_key() is given from elsewhere

ASSUME CatalogAssumption ==
  \A k \in DOMAIN Catalog :
    /\ Catalog[k].prefix \in Str /\ NoSlash(Catalog[k].prefix)
    /\ Catalog[k].type \in AllTypes
    /\ Catalog[k].values \subseteq ValuesOf[Catalog[k].type]
ASSUME ForeignAssumption == Foreign \subseteq Str

\* A text in memory has less than usize::MAX bytes, and at least one for every
\* segment but the first.
ASSUME MemoryAssumption ==
  /\ \A k \in DOMAIN Catalog :
       \A v \in Catalog[k].values : Len(Wire[Catalog[k].type][v]) < UsizeMax
  /\ \A s \in Foreign : Len(s) < UsizeMax

VARIABLES
  pc,        \* "new", "write", "read" or "end"
  writer,    \* the key type that is written, a name in Catalog
  value,     \* its value; a Foreign text has none until it is read
  reader,    \* the key type that is read
  origin,    \* "value", "text", or "decoded": what the behaviour started from
  todo,      \* encode_key() calls to make
  need,      \* decode_key() calls to make
  got,       \* the values they returned
  result     \* what from_str_key() returned

keys == <<writer, value, reader, origin>>
vars == <<builder, parser, pc, keys, todo, need, got, result>>

OkValue(v) == [value |-> v]
NoResult == Err("none")

\* from_str_key(): Parser::new_prefixed, then decode_key().
ReadCalls == <<[t |-> "prefix"], Catalog[reader].type>>

Init ==
  /\ reader \in DOMAIN Catalog
  /\ \/ /\ origin = "value"
        /\ pc = "new"
        /\ writer \in DOMAIN Catalog
        /\ value \in Catalog[writer].values
        /\ ParserNew(<<>>)
        /\ need = <<>>
     \/ /\ origin = "text"
        /\ pc = "read"
        /\ writer = reader
        /\ value = Unit
        /\ \E s \in Foreign : ParserNew(s)
        /\ need = ReadCalls
  /\ BuilderNew
  /\ todo = <<>>
  /\ got = <<>>
  /\ result = NoResult

-----------------------------------------------------------------------------
(***************************************************************************)
(* to_string_key() and encode_key()                                        *)
(***************************************************************************)
\* Builder::new_prefixed(), and the call of encode_key().
NewPrefixed ==
  /\ pc = "new"
  /\ pc' = "write"
  /\ BuilderCreatePrefixed(Catalog[writer].prefix)
  /\ todo' = <<[type |-> Catalog[writer].type, value |-> value]>>
  /\ UNCHANGED <<parser, keys, need, got, result>>

Encode(t) ==
  /\ pc = "write"
  /\ todo # <<>>
  /\ Head(todo).type.t = t
  /\ UNCHANGED <<parser, pc, keys, need, got, result>>

\* The calls that the current one makes, before what was left.
Then(parts) == todo' = parts \o Tail(todo)
Current == Head(todo)
CurrentParts == Parts(Current.type, Current.value)

\* Mutant: a String is pushed without escaping.
EncodeStringRaw == Encode("string") /\ PushRaw(Current.value.text) /\ Then(<<>>)
EncodeString == Encode("string") /\ PushStr(Current.value.text) /\ Then(<<>>)
EncodeRaw == Encode("raw") /\ PushRaw(Current.value.text) /\ Then(<<>>)
EncodeU64 == Encode("u64") /\ PushU64(Current.value.id) /\ Then(<<>>)
EncodeU32 == Encode("u32") /\ PushU64(Current.value.id) /\ Then(<<>>)
EncodeUnit == Encode("unit") /\ UNCHANGED builder /\ Then(<<>>)
EncodeStruct == Encode("struct") /\ UNCHANGED builder /\ Then(CurrentParts)

EncodeEnum ==
  /\ Encode("enum")
  /\ PushRaw(Current.type.variants[Current.value.variant].tag)
  /\ Then(CurrentParts)

\* Mutant: the prefix is counted in the limit, though it is already written.
EncodeDirNameOneMore ==
  /\ Encode("dir")
  /\ LimitSegments(SegmentCount[Current.type][Current.value] + 1)
  /\ Then(CurrentParts)

EncodeDirName ==
  /\ Encode("dir")
  /\ LimitSegments(SegmentCount[Current.type][Current.value])
  /\ Then(CurrentParts)

\* done() of the builder, then from_str_key() of the text.
ToStringKey ==
  /\ pc = "write"
  /\ todo = <<>>
  /\ pc' = "read"
  /\ ParserCreate(buf)
  /\ need' = ReadCalls
  /\ UNCHANGED <<builder, keys, todo, got, result>>

-----------------------------------------------------------------------------
(***************************************************************************)
(* decode_key(); every `?` that fails returns from from_str_key().         *)
(***************************************************************************)
Decode(t) ==
  /\ pc = "read"
  /\ need # <<>>
  /\ Head(need).t = t
  /\ UNCHANGED <<builder, keys, todo>>

Fail(error) ==
  /\ pc' = "end"
  /\ result' = error
  /\ need' = <<>>
  /\ UNCHANGED got

\* A method of the parser, and on success the calls that follow it and the
\* value that is returned, if any.
Try(method, calls, values) ==
  /\ method
  /\ IF IsOk(ret')
     THEN /\ need' = calls \o Tail(need)
          /\ got' = got \o values
          /\ UNCHANGED <<pc, result>>
     ELSE Fail(ret')

\* Parser::new_prefixed()
DecodePrefix == Decode("prefix") /\ Try(NextLiteral(Catalog[reader].prefix), <<>>, <<>>)

DecodeString == Decode("string") /\ Try(NextStr, <<>>, <<ret'>>)
DecodeRaw == Decode("raw") /\ Try(NextRaw, <<>>, <<ret'>>)
DecodeU64 == Decode("u64") /\ Try(NextU64, <<>>, <<ret'>>)

DecodeU32 ==
  /\ Decode("u32")
  /\ NextU64
  /\ IF IsOk(ret') /\ ret'.id <= MaxU32
     THEN /\ need' = Tail(need)
          /\ got' = Append(got, ret')
          /\ UNCHANGED <<pc, result>>
     ELSE Fail(IF IsOk(ret') THEN Err("InvalidId") ELSE ret')

Returned(v) ==
  need' = Tail(need) /\ got' = Append(got, v) /\ UNCHANGED <<pc, result>>

DecodeUnit == Decode("unit") /\ Returned(Unit) /\ UNCHANGED parser

\* Self { field: decode_key(p)?, ... }: the fields, then the constructor.
DecodeStruct ==
  /\ Decode("struct")
  /\ LET fields == Head(need).fields
     IN  need' = fields \o <<[t |-> "build", of |-> "struct", arity |-> Len(fields)]>>
                   \o Tail(need)
  /\ UNCHANGED <<parser, pc, got, result>>

\* match next_raw()? { tag => the fields of its variant, _ => error at index() }
DecodeEnum ==
  /\ Decode("enum")
  /\ NextRaw
  /\ LET variants == Head(need).variants
         match == {k \in DOMAIN variants : IsOk(ret') /\ variants[k].tag = ret'.text}
     IN  IF match # {}
         THEN LET k == CHOOSE k \in match : \A j \in match : k <= j
                  fields == variants[k].fields
              IN  /\ need' = fields
                       \o <<[t |-> "build", of |-> "enum", which |-> k, arity |-> Len(fields)]>>
                       \o Tail(need)
                  /\ UNCHANGED <<pc, got, result>>
         ELSE Fail(IF IsOk(ret') THEN InvalidSegment(i' - 1) ELSE ret')

DecodeDirName == Decode("dir") /\ Fail(Err("NotDecodable")) /\ UNCHANGED parser

\* The constructor of a struct or a variant, when its fields are decoded.
Build ==
  /\ Decode("build")
  /\ LET n == Head(need).arity
         fields == SubSeq(got, Len(got) - n + 1, Len(got))
         built == IF Head(need).of = "struct" THEN Struct(fields)
                  ELSE Variant(Head(need).which, fields)
     IN  got' = Append(SubSeq(got, 1, Len(got) - n), built)
  /\ need' = Tail(need)
  /\ UNCHANGED <<parser, pc, result>>

\* Mutant: segments that remain are ignored.
FromStrKeyNoDone ==
  /\ pc = "read"
  /\ need = <<>>
  /\ ParserDone
  /\ pc' = "end"
  /\ result' = OkValue(got[1])
  /\ UNCHANGED <<builder, keys, todo, need, got>>

\* done() of the parser, and the key is returned.
FromStrKey ==
  /\ pc = "read"
  /\ need = <<>>
  /\ ParserDone
  /\ pc' = "end"
  /\ result' = IF IsOk(ret') THEN OkValue(got[1]) ELSE ret'
  /\ UNCHANGED <<builder, keys, todo, need, got>>

\* The client writes again what it read from a foreign text.
WriteDecoded ==
  /\ pc = "end"
  /\ origin = "text"
  /\ IsOk(result)
  /\ origin' = "decoded"
  /\ pc' = "new"
  /\ value' = result.value
  /\ UNCHANGED <<writer, reader, builder, parser, todo, need>>
  /\ got' = <<>>
  /\ result' = NoResult

Next ==
  \/ NewPrefixed \/ EncodeString \/ EncodeRaw \/ EncodeU64 \/ EncodeU32
  \/ EncodeUnit \/ EncodeStruct \/ EncodeEnum \/ EncodeDirName \/ ToStringKey
  \/ DecodePrefix \/ DecodeString \/ DecodeRaw \/ DecodeU64 \/ DecodeU32
  \/ DecodeUnit \/ DecodeStruct \/ DecodeEnum \/ DecodeDirName
  \/ Build \/ FromStrKey \/ WriteDecoded

Spec == Init /\ [][Next]_vars

-----------------------------------------------------------------------------
(***************************************************************************)
(* What a key text should be, and what a text says.                        *)
(***************************************************************************)
\* The segments of a text.
Split(text) ==
  LET split[n \in 0 .. Len(text)] ==
        IF n = 0 THEN <<<<>>>>
        ELSE IF text[n] = Slash THEN Append(split[n - 1], <<>>)
        ELSE [split[n - 1] EXCEPT ![Len(split[n - 1])] = Append(@, text[n])]
  IN  split[Len(text)]

TypeOf(name) == Catalog[name].type

\* The prefix and the segments that a value of the named type is written as.
WireOf(name, v) == <<Item("verbatim", Text(Catalog[name].prefix))>> \o Wire[TypeOf(name)][v]
WrittenAs(name, v) ==
  LET wire == WireOf(name, v) IN [k \in DOMAIN wire |-> Written(wire[k])]

IsDirName(type) == type.t = "dir"

\* The first n segments are a spelling of the first ones of the value.
Agrees(segments, n, name, v) ==
  LET wire == WireOf(name, v)
  IN  n <= Len(wire) /\ \A k \in 1 .. n : Spells(segments[k], wire[k])

\* The segments are a spelling, canonical or not, of the value.
Says(segments, name, v) ==
  /\ TypeOf(name).t # "dir"
  /\ Len(segments) = Len(WireOf(name, v))
  /\ Agrees(segments, Len(segments), name, v)

(***************************************************************************)
(* The layouts of a type: for each choice of variants, what its segments   *)
(* are, a tag or a text of a type that is one segment.  They are few where *)
(* the values are many.                                                    *)
(***************************************************************************)
TagSlot(tag) == [t |-> "tag", tag |-> tag]

Layouts[type \in AllTypes] ==
  LET Rows(types) ==
        {FlattenSeq(q) : q \in Product([k \in DOMAIN types |-> Layouts[types[k]]])}
  IN  CASE type.t \in DOMAIN FormOf -> {<<type>>}
        [] type.t = "unit" -> {<<>>}
        [] type.t = "struct" -> Rows(type.fields)
        [] type.t = "enum" ->
             UNION {{<<TagSlot(v.tag)>> \o row : row \in Rows(v.fields)} : v \in Range(type.variants)}
        [] type.t = "dir" ->
             UNION {{SubSeq(row, 1, n) : n \in 0 .. Len(row)} : row \in Layouts[type.key]}

LayoutsOf(name) == {<<TagSlot(Catalog[name].prefix)>> \o row : row \in Layouts[TypeOf(name)]}

Fits(segment, slot) ==
  CASE slot.t = "tag" -> segment = slot.tag
    [] slot.t = "string" -> IsOk(Unescape(segment))
    [] slot.t = "raw" -> TRUE
    [] slot.t = "u64" -> IsOk(DecodeId(segment, MaxU64))
    [] slot.t = "u32" -> IsOk(DecodeId(segment, MaxU32))

\* The layouts of a key whose first n segments can be those of the text.
Open(segments, n, name) ==
  {row \in LayoutsOf(name) : n <= Len(row) /\ \A k \in 1 .. n : Fits(segments[k], row[k])}

HoldsSlash(item) == item.form = "verbatim" /\ ~ NoSlash(item.value.text)

\* What to_string_key() asks of its caller: no Raw holds a '/' (raw.rs:8-10),
\* and a DirName is a view of a whole key, not a field (dir_name.rs:3-9, 17-18).
KeepsContract ==
  /\ \A k \in DOMAIN Catalog : \A v \in Catalog[k].values :
       \A item \in Range(WireOf(k, v)) : ~ HoldsSlash(item)
  /\ \A type \in AllTypes :
       type.t \in {"struct", "enum"} => \A part \in Components(type) : ~ IsDirName(part)

IsWritten == origin # "text" /\ pc \in {"read", "end"}

-----------------------------------------------------------------------------
\* Every variable has its type, also when nested DirNames use up the budget
\* (builder.rs:46-66, dir_name.rs:67-85).
TypeOK ==
  /\ BuilderTypeOK
  /\ ParserTypeOK
  /\ pc \in {"new", "write", "read", "end"}
  /\ origin \in {"value", "text", "decoded"}
  /\ writer \in DOMAIN Catalog
  /\ reader \in DOMAIN Catalog
  /\ pc # "write" => todo = <<>>
  /\ pc = "end" => need = <<>>
  /\ DOMAIN result \subseteq {"err", "pos", "expect", "value"}
  /\ origin # "text" => value \in ValuesOf[TypeOf(writer)]
  /\ IsOk(result) => result.value \in ValuesOf[TypeOf(reader)]

\* A key that is written and read with its own type comes back, whatever its
\* fields hold; so does one that was decoded from a foreign text.  DirName is
\* for printing only (struct_key.rs:26-41, testing.rs:30-40).
RoundTrip ==
  (pc = "end" /\ IsWritten /\ writer = reader /\ ~ IsDirName(TypeOf(writer)))
    => result = OkValue(value)

\* to_string_key() writes the prefix and then every field's segments; a DirName
\* writes the first segment_count() ones of its key, and never cuts the prefix
\* (struct_key.rs:26-29, dir_name.rs:61-69, codec.rs:29-37).
EncodeMeetsReference ==
  IsWritten => Split(buf) = WrittenAs(writer, value)

\* from_str_key() returns a value exactly when the text is the prefix and a
\* spelling of that value, with no segment left; an u32 is not truncated.  A
\* text that is rejected has no layout of the type, so it is the spelling of no
\* value at all (struct_key.rs:31-41, codec.rs:78-95, dir_name.rs:71-81).
DecodeMeetsReference ==
  pc = "end" =>
    LET segments == Split(str_key)
        all == Len(segments)
    IN  IF IsOk(result) THEN Says(segments, reader, result.value)
        ELSE \/ IsDirName(TypeOf(reader))
             \/ \A row \in Open(segments, all, reader) : Len(row) # all

\* InvalidSegment points at the one segment that is wrong: those before it are
\* the beginning of a key, and in each key that begins so, the segment there is a
\* tag, or the prefix, and another one than in the text (parser.rs:118-131,
\* structkey-derive lib.rs:361-371).
ErrorPointsAtSegment ==
  (~ IsOk(result) /\ result.err = "InvalidSegment") =>
    LET segments == Split(str_key)
        n == result.pos
        open == Open(segments, n, reader)
    IN  /\ n < Len(segments)
        /\ open # {}
        /\ \A row \in open :
             n < Len(row) /\ row[n + 1].t = "tag" /\ row[n + 1].tag # segments[n + 1]

\* "A `/` in the value breaks the key shape: the decoder will split on it and
\* produce a wrong-segment-count error" (raw.rs:8-10).
RawSlashIsRejected ==
  (pc = "end" /\ IsWritten /\ writer = reader
     /\ \E item \in Range(WireOf(writer, value)) : HoldsSlash(item))
    => ~ IsOk(result) /\ result.err = "WrongNumberOfSegments"

\* segment_count() "must equal the number of segments encode_key pushes onto an
\* unbounded builder" (codec.rs:31-37).
SegmentCountIsExact ==
  IsWritten => Len(Split(buf)) = 1 + SegmentCount[TypeOf(writer)][value]
=============================================================================
