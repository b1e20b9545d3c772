------------------------------ MODULE MCDerive ------------------------------
(***************************************************************************)
(* Derive on small families of declarations: structs of up to three        *)
(* fields, enums of up to three variants, containers with up to two        *)
(* attributes, and shapes that are not supported.                          *)
(***************************************************************************)
EXTENDS Derive

NoAttrs == <<>>
Raw == <<[path |-> "codec", name |-> "raw", lit |-> <<>>]>>
Typo == <<[path |-> "codec", name |-> "rwa", lit |-> <<>>]>>
Doc == [path |-> "doc", name |-> "", lit |-> <<>>]
Rename(lit) == <<Doc, [path |-> "codec", name |-> "rename", lit |-> lit]>>
PrefixIs(lit) == [path |-> "structkey", name |-> "prefix", lit |-> lit]

Type(sort, path, attrs) == [sort |-> sort, path |-> path, attrs |-> attrs]
NamedField(name, type) == [ident |-> name] @@ type

StringField == Type("string", <<"String">>, NoAttrs)
RawField == Type("string", <<"String">>, Raw)
U64Field == Type("u64", <<"u64">>, NoAttrs)
UnitField == Type("unit", <<>>, NoAttrs)
MarkerField == Type("marker", <<"std", "PhantomData">>, NoAttrs)

PlainTypes == {StringField, RawField, UnitField, MarkerField}
OddTypes == {U64Field, Type("u64", <<"u64">>, Raw), Type("string", <<"String">>, Typo),
             Type("marker", <<"PhantomData">>, Raw), Type("marker", <<"Alias">>, NoAttrs),
             Type("user", <<"PhantomData">>, NoAttrs), Type("user", <<"PhantomData", "T">>, NoAttrs)}

FieldsOf(names, types) ==
  {[i \in DOMAIN names |-> NamedField(names[i], chosen[i])] :
     chosen \in [DOMAIN names -> types]}

Direct == [found |-> "name", name |-> "structkey", externs |-> {"structkey"}]
Renamed == [found |-> "name", name |-> "mykey", externs |-> {"mykey"}]
Itself == [found |-> "itself", name |-> "", externs |-> {"structkey"}]
Transitive == [found |-> "none", name |-> "", externs |-> {}]
Unlisted == [found |-> "none", name |-> "", externs |-> {"structkey"}]

Part_(ident, attrs, shape, fields) ==
  [ident |-> ident, attrs |-> attrs, shape |-> shape, fields |-> fields]
Body(fields) == Part_(<<>>, NoAttrs, "named", fields)
CodecOf(data, parts) ==
  [derive |-> "Codec", attrs |-> NoAttrs, data |-> data, parts |-> parts, consumer |-> Direct]

Structs ==
  {CodecOf("struct", <<Body(fields)>>) :
     fields \in {<<>>} \cup FieldsOf(<<"p">>, OddTypes) \cup FieldsOf(<<"a">>, PlainTypes)
                \cup FieldsOf(<<"p", "b">>, PlainTypes \cup OddTypes)
                \cup FieldsOf(<<"a", "b", "p">>, PlainTypes)
                \cup FieldsOf(<<"a", "p", "b">>, {StringField, MarkerField, U64Field})}

OtherShapes == {CodecOf("other", <<>>), CodecOf("enum", <<>>)}

\* "Ab", "AB", "aB", "ABc", "A1"
Idents == {<<65, 98>>, <<65, 66>>, <<97, 66>>, <<65, 66, 99>>, <<65, 49>>}
Variants ==
  {Part_(ident, NoAttrs, "unit", <<>>) : ident \in Idents}
  \cup {Part_(<<65, 98>>, attrs, "unit", <<>>) :
          attrs \in {Typo, Rename(<<>>), Rename(<<97, 47>>), Rename(<<97, 95, 98>>),
                     Rename(<<>>) \o Rename(<<120>>), Rename(<<97, 98>>) \o Rename(<<120>>)}}
TagEnums ==
  {CodecOf("enum", parts) : parts \in BoundedSeq(Variants, 2) \ {<<>>}}
  \cup {CodecOf("enum", <<v, Part_(<<66>>, NoAttrs, "unit", <<>>), w>>) : v, w \in Variants}

FieldEnums ==
  {CodecOf("enum", <<Part_(<<65>>, NoAttrs, shape, fields), Part_(<<66>>, NoAttrs, "unit", <<>>)>>) :
     shape \in {"named", "tuple"},
     fields \in FieldsOf(<<"p", "b">>, PlainTypes \cup OddTypes)
                \cup FieldsOf(<<"p", "a", "b">>, PlainTypes)}
  \cup {CodecOf("enum", <<Part_(<<65>>, NoAttrs, "tuple", f), Part_(<<66>>, NoAttrs, "named", g)>>) :
          f \in FieldsOf(<<"a", "b">>, {U64Field, MarkerField}),
          g \in FieldsOf(<<"b", "p">>, {StringField, MarkerField})}

Keys ==
  {[derive |-> "StructKey", attrs |-> attrs, data |-> "struct",
    parts |-> <<Body(fields)>>, consumer |-> consumer] :
     attrs \in BoundedSeq({Doc, PrefixIs(<<112>>), PrefixIs(<<>>), PrefixIs(<<112, 47>>),
                           [path |-> "structkey", name |-> "prefx", lit |-> <<112>>]}, 2),
     fields \in FieldsOf(<<"a">>, {StringField, Type("string", <<"String">>, Typo)}),
     consumer \in {Direct, Renamed, Itself, Transitive, Unlisted}}

MCDecls == Structs \cup OtherShapes \cup TagEnums \cup FieldEnums \cup Keys

\* " " and "%20" tell an escaped field from a raw one.
MCFieldValues ==
  [string |-> {OkText(<<32>>), OkText(<<37, 50, 48>>)}, u64 |-> {OkId(7)},
   unit |-> {OkUnit}, user |-> {OkId(5)}, marker |-> {Marker}]

MCSegments(sort, raw, v) ==
  CASE sort = "string" -> IF raw THEN <<v.text>> ELSE <<Escape(v.text)>>
    [] sort \in {"u64", "user"} -> <<Decimal(v.id)>>
    [] OTHER -> <<>>

MCTake(sort, raw, queue) ==
  LET read == IF sort # "string" THEN DecodeId(queue[1], 9)
              ELSE IF raw THEN OkText(queue[1]) ELSE Unescape(queue[1])
  IN  IF sort = "unit" THEN [value |-> OkUnit, left |-> queue]
      ELSE IF queue = <<>> THEN Err("WrongNumberOfSegments")
      ELSE IF IsOk(read) THEN [value |-> read, left |-> Tail(queue)]
      ELSE read

\* "%20", "7", "a", "b"
MCQueues == BoundedSeq({<<37, 50, 48>>, <<55>>, <<97>>, <<98>>}, 2)

ASSUME FieldsKeepContract == FieldContract(BoundedSeq(
  {<<37, 50, 48>>, <<37, 50, 53, 50, 48>>, <<32>>, <<53>>, <<55>>, <<97>>}, 2))
ASSUME FieldsAreCanonical == CanonicalFields(MCQueues)
=============================================================================
