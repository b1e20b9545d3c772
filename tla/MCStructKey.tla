---------------------------- MODULE MCStructKey ----------------------------
(***************************************************************************)
(* StructKey on a catalog of small key types that share two prefixes, and  *)
(* on all foreign texts of up to four segments over ten segments.          *)
(***************************************************************************)
EXTENDS StructKey

P == <<112>>
Q == <<113>>
Strings == {Text(<<>>), Text(<<97, 47>>), Text(<<37>>), Text(<<195, 169>>)}
Ids == {Id(0), Id(12), Id(99)}
Ids32 == {Id(0), Id(50)}
Raws == {Text(<<>>), Text(<<120>>), Text(<<37, 50, 102>>)}

Entry(prefix, type, values) == [prefix |-> prefix, type |-> type, values |-> values]

\* struct { id: u64, name: String }
PairType == StructType(<<U64Type, StringType>>)
PairValues == {Struct(<<n, s>>) : n \in Ids, s \in Strings}

\* enum { U, V(String) }
TagType == EnumType(<<VariantOf(<<117>>, <<>>), VariantOf(<<118>>, <<StringType>>)>>)
TagValues == {Variant(1, <<>>)} \cup {Variant(2, <<s>>) : s \in Strings}

\* struct { #[codec(raw)] a: String, e: enum { U, V(String) } }
RawTagType == StructType(<<RawType, TagType>>)
RawTagValues == {Struct(<<r, e>>) : r \in Raws, e \in TagValues}

\* enum { A { n: u32, unit: () }, B(struct { id: u64 }) }
NestedType == EnumType(<<VariantOf(<<97>>, <<U32Type, UnitType>>),
                         VariantOf(<<98>>, <<StructType(<<U64Type>>)>>)>>)
NestedValues == {Variant(1, <<n, Unit>>) : n \in Ids32}
                  \cup {Variant(2, <<Struct(<<n>>)>>) : n \in Ids}

\* struct { parent: DirName<PairType>, last: String }
EmbeddedType == StructType(<<DirNameType(PairType), StringType>>)

DirNames(values, levels) == {DirName(v, level) : v \in values, level \in levels}

MCCatalog ==
  [pair |-> Entry(P, PairType, PairValues),
   rawtag |-> Entry(P, RawTagType, RawTagValues),
   empty |-> Entry(Q, StructType(<<>>), {Struct(<<>>)}),
   nested |-> Entry(Q, NestedType, NestedValues),
   pairdir |-> Entry(Q, DirNameType(PairType), DirNames(PairValues, 0 .. 3)),
   tagdirdir |-> Entry(P, DirNameType(DirNameType(RawTagType)),
                       DirNames(DirNames(RawTagValues, {0, 1}), {0, 2}))]

\* Every type after those of its fields.
MCTypes == <<StringType, RawType, U64Type, U32Type, UnitType, PairType, TagType, RawTagType,
             StructType(<<>>), StructType(<<U64Type>>), NestedType,
             DirNameType(PairType), DirNameType(RawTagType),
             DirNameType(DirNameType(RawTagType))>>
EmbeddedTypes == Append(MCTypes, EmbeddedType)

\* What the proofs about written keys assume holds of this catalog.
ASSUME MCContractAssumption == Catalog = MCCatalog => KeepsContract

\* A Raw whose value holds '/', against its contract: "x/v".
SlashValues == {Text(<<120, 47, 118>>)}
SlashCatalog ==
  [rawtag |-> Entry(P, RawTagType, {Struct(<<r, e>>) : r \in SlashValues, e \in TagValues})]

EmbeddedCatalog ==
  [embedded |-> Entry(P, EmbeddedType,
                      {Struct(<<d, s>>) : d \in DirNames(PairValues, 0 .. 2), s \in Strings})]

\* "", "a", "u", "v", "b", "07", "+7", "60", "100", "%2F"
MCSegments == {<<>>, <<97>>, <<117>>, <<118>>, <<98>>, <<48, 55>>, <<43, 55>>,
               <<54, 48>>, <<49, 48, 48>>, <<37, 50, 70>>}
JoinWithSlash(segments) ==
  Tail(FlattenSeq([k \in DOMAIN segments |-> <<Slash>> \o segments[k]]))
MCForeign == {JoinWithSlash(<<prefix>> \o rest) :
                prefix \in {P, Q}, rest \in BoundedSeq(MCSegments, 3)}
             \cup {<<>>, <<Slash>>, <<Slash>> \o P, P \o Q, P \o <<Percent>>}
=============================================================================
