-------------------------------- MODULE Keys --------------------------------
(***************************************************************************)
(* The types that implement Codec, and their values.  A type is a record   *)
(* whose field t says which impl it has: the ones of codec.rs and raw.rs,  *)
(* DirName, and what #[derive(Codec)] generates for structs and enums.     *)
(* Fields are in declaration order; PhantomData fields are left out, as    *)
(* the derive leaves them out.                                             *)
(***************************************************************************)
EXTENDS Parser

CONSTANTS Types,     \* the types of a program, each after those of its fields
          MaxU32     \* u32::MAX

StringType == [t |-> "string"]
RawType == [t |-> "raw"]
U64Type == [t |-> "u64"]
U32Type == [t |-> "u32"]
UnitType == [t |-> "unit"]
StructType(fields) == [t |-> "struct", fields |-> fields]
EnumType(variants) == [t |-> "enum", variants |-> variants]
VariantOf(tag, fields) == [tag |-> tag, fields |-> fields]
DirNameType(key) == [t |-> "dir", key |-> key]

Text(s) == [text |-> s]
Id(n) == [id |-> n]
Unit == [unit |-> TRUE]
Struct(values) == [fields |-> values]
Variant(k, values) == [variant |-> k, fields |-> values]
DirName(key, level) == [key |-> key, level |-> level]

\* The types of the fields of a type, and the type of the key of a DirName.
Components(type) ==
  CASE type.t = "struct" -> Range(type.fields)
    [] type.t = "enum" -> UNION {Range(v.fields) : v \in Range(type.variants)}
    [] type.t = "dir" -> {type.key}
    [] OTHER -> {}

NoSlash(s) == \A p \in DOMAIN s : s[p] # Slash
Str == {s \in Seq(Byte) : Utf8(s)}

IsList(q) == q \in Seq(Range(q))

\* What the macro accepts: some variants, with tags that differ.
IsEnum(variants) ==
  /\ IsList(variants) /\ variants # <<>>
  /\ \A k \in DOMAIN variants :
       variants[k].tag \in Str /\ NoSlash(variants[k].tag) /\ IsList(variants[k].fields)
  /\ \A j, k \in DOMAIN variants : variants[j].tag = variants[k].tag => j = k

IsType(type) ==
  CASE type.t = "struct" -> type = StructType(type.fields) /\ IsList(type.fields)
    [] type.t = "enum" -> type = EnumType(type.variants) /\ IsEnum(type.variants)
    [] type.t = "dir" -> type = DirNameType(type.key)
    [] OTHER -> type \in {StringType, RawType, U64Type, U32Type, UnitType}

AllTypes == Range(Types)

\* No type contains itself, as no impl is for a pointer; the macro sees to the
\* tags of an enum.
ASSUME TypesAssumption ==
  /\ IsList(Types)
  /\ \A n \in DOMAIN Types :
       IsType(Types[n]) /\ Components(Types[n]) \subseteq {Types[m] : m \in 1 .. n - 1}
ASSUME MaxU32Assumption == MaxU32 \in 0 .. MaxU64

\* The union of the sets in a list; UNION would make TLC compare them.
AnyOf(sets) ==
  LET any[n \in 0 .. Len(sets)] == IF n = 0 THEN {} ELSE any[n - 1] \cup sets[n]
  IN  any[Len(sets)]

\* The lists of one member of each set.
Product(sets) ==
  {q \in [DOMAIN sets -> AnyOf(sets)] : \A k \in DOMAIN sets : q[k] \in sets[k]}

\* The values of a type.
ValuesOf[type \in AllTypes] ==
  LET FieldsOf(types) == Product([k \in DOMAIN types |-> ValuesOf[types[k]]])
  IN  CASE type.t \in {"string", "raw"} -> [text : Str]
        [] type.t = "u64" -> [id : 0 .. MaxU64]
        [] type.t = "u32" -> [id : 0 .. MaxU32]
        [] type.t = "unit" -> {Unit}
        [] type.t = "struct" -> [fields : FieldsOf(type.fields)]
        [] type.t = "enum" ->
             AnyOf([k \in DOMAIN type.variants |->
                      [variant : {k}, fields : FieldsOf(type.variants[k].fields)]])
        [] type.t = "dir" -> [key : ValuesOf[type.key], level : Nat]

\* Field types paired with field values.
Pairs(types, values) == [k \in DOMAIN types |-> [type |-> types[k], value |-> values[k]]]

\* The pairs a value consists of: the fields of a struct or of a variant, the
\* key of a DirName.
Parts(type, value) ==
  CASE type.t = "struct" -> Pairs(type.fields, value.fields)
    [] type.t = "enum" -> Pairs(type.variants[value.variant].fields, value.fields)
    [] type.t = "dir" -> <<[type |-> type.key, value |-> value.key]>>
    [] OTHER -> <<>>

\* Codec::segment_count() of every impl.
SegmentCount[type \in AllTypes] ==
  [value \in ValuesOf[type] |->
     LET parts == Parts(type, value)
         inner == Sum([k \in DOMAIN parts |-> SegmentCount[parts[k].type][parts[k].value]])
     IN  CASE type.t \in {"string", "raw", "u64", "u32"} -> 1
           [] type.t = "unit" -> 0
           [] type.t = "struct" -> inner
           [] type.t = "enum" -> 1 + inner
           [] type.t = "dir" -> IF inner > value.level THEN inner - value.level ELSE 0]

(***************************************************************************)
(* What a value is on the wire: a sequence of items, one per segment.      *)
(***************************************************************************)
Item(form, value) == [form |-> form, value |-> value]
FormOf == [string |-> "escaped", raw |-> "verbatim", u64 |-> "u64", u32 |-> "u32"]

Wire[type \in AllTypes] ==
  [value \in ValuesOf[type] |->
     LET parts == Parts(type, value)
         inner == FlattenSeq([k \in DOMAIN parts |-> Wire[parts[k].type][parts[k].value]])
     IN  CASE type.t \in DOMAIN FormOf -> <<Item(FormOf[type.t], value)>>
           [] type.t = "enum" ->
                <<Item("verbatim", Text(type.variants[value.variant].tag))>> \o inner
           [] type.t = "dir" -> SubSeq(inner, 1, Len(inner) - value.level)
           [] OTHER -> inner]

\* The segment that an item is written as.
Written(item) ==
  CASE item.form = "escaped" -> Escape(item.value.text)
    [] item.form = "verbatim" -> item.value.text
    [] OTHER -> Decimal(item.value.id)

\* The segment is a spelling, canonical or not, of the item.
Spells(segment, item) ==
  CASE item.form = "escaped" -> Unescape(segment) = item.value
    [] item.form = "verbatim" -> OkText(segment) = item.value
    [] item.form = "u64" -> DecodeId(segment, MaxU64) = item.value
    [] item.form = "u32" -> DecodeId(segment, MaxU32) = item.value
=============================================================================
