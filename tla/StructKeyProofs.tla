--------------------------- MODULE StructKeyProofs ---------------------------
(***************************************************************************)
(* Proofs about keys that are written and read, for every list of types,   *)
(* every catalog of key types and every foreign text.                      *)
(***************************************************************************)
EXTENDS StructKey, ParserLemmas, HelperLemmas

-----------------------------------------------------------------------------
(***************************************************************************)
(* Types                                                                   *)
(***************************************************************************)
Upto(n) == {Types[m] : m \in 1 .. n}

\* A list is indexed from 1, and holds its members.
LEMMA ListIs ==
  ASSUME NEW q, IsList(q)
  PROVE  /\ Len(q) \in Nat /\ DOMAIN q = 1 .. Len(q)
         /\ \A k \in DOMAIN q : q[k] \in Range(q)
BY DEF IsList, Range

\* The types are listed, each after its components.
LEMMA TypesAreListed ==
  /\ Len(Types) \in Nat /\ AllTypes = Upto(Len(Types)) /\ Upto(0) = {}
  /\ \A n \in 0 .. Len(Types) : \A type \in Upto(n) : Components(type) \subseteq Upto(n)
  /\ \A n \in 0 .. Len(Types) - 1 :
       /\ Upto(n + 1) = Upto(n) \cup {Types[n + 1]}
       /\ Components(Types[n + 1]) \subseteq Upto(n)
<1>1. Len(Types) \in Nat /\ DOMAIN Types = 1 .. Len(Types)
  BY TypesAssumption, ListIs
<1>2. AllTypes = Upto(Len(Types)) /\ Upto(0) = {}
  BY <1>1 DEF AllTypes, Range, Upto
<1>3. \A n \in 1 .. Len(Types) : Components(Types[n]) \subseteq Upto(n - 1)
  BY <1>1, TypesAssumption DEF Upto
<1>4. ASSUME NEW n \in 0 .. Len(Types), NEW type \in Upto(n)
      PROVE  Components(type) \subseteq Upto(n)
  <2>1. PICK m \in 1 .. n : type = Types[m]
    BY DEF Upto
  <2>2. m \in 1 .. Len(Types) /\ \A k \in 1 .. m - 1 : k \in 1 .. n
    BY <1>1
  <2>3. Upto(m - 1) \subseteq Upto(n)
    BY <2>2 DEF Upto
  <2>4. QED
    BY <1>3, <2>1, <2>2, <2>3
<1>5. ASSUME NEW n \in 0 .. Len(Types) - 1
      PROVE  /\ Upto(n + 1) = Upto(n) \cup {Types[n + 1]}
             /\ Components(Types[n + 1]) \subseteq Upto(n)
  <2>1. n + 1 \in 1 .. Len(Types) /\ (n + 1) - 1 = n
    BY <1>1
  <2>2. \A m : m \in 1 .. n + 1 <=> m \in 1 .. n \/ m = n + 1
    BY <1>1
  <2>3. Upto(n + 1) = Upto(n) \cup {Types[n + 1]}
    BY <2>2 DEF Upto
  <2>4. Components(Types[n + 1]) \subseteq Upto(n)
    BY <1>3, <2>1
  <2>5. QED
    BY <2>3, <2>4
<1>6. QED
  BY <1>1, <1>2, <1>4, <1>5

\* What holds of a type when it holds of its components, holds of all types.
LEMMA TypeInduction ==
  ASSUME NEW P, \A type \in AllTypes : Components(type) \subseteq P => type \in P
  PROVE  AllTypes \subseteq P
<1> DEFINE T == {n \in 0 .. Len(Types) : Upto(n) \subseteq P}
<1>1. Len(Types) \in Nat /\ 0 \in T
  BY TypesAreListed
<1>2. ASSUME NEW n \in 0 .. Len(Types) - 1, n \in T
      PROVE  n + 1 \in T
  <2>1. n + 1 \in 0 .. Len(Types) /\ n + 1 \in 1 .. Len(Types)
    BY <1>1
  <2>2. Types[n + 1] \in AllTypes
    BY <2>1, TypesAreListed DEF Upto
  <2>3. Components(Types[n + 1]) \subseteq P
    BY <1>2, TypesAreListed
  <2>4. Upto(n + 1) \subseteq P
    BY <1>2, <2>2, <2>3, TypesAreListed
  <2>5. QED
    BY <2>1, <2>4
<1> HIDE DEF T
<1>3. \A n \in 0 .. Len(Types) : n \in T
  BY <1>1, <1>2, Induction
<1>4. Len(Types) \in T
  BY <1>1, <1>3
<1>5. QED
  BY <1>4, TypesAreListed DEF T

\* The types without components, and what is known of the others.
Plainly == {StringType, RawType, U64Type, U32Type, UnitType}

\* The components of a type are types, and a type has one of the forms the
\* derive and the crate's own impls give.
LEMMA TypeIs ==
  ASSUME NEW type \in AllTypes
  PROVE  /\ Components(type) \subseteq AllTypes
         /\ \/ type \in Plainly
            \/ type.t = "struct" /\ IsList(type.fields)
            \/ type.t = "enum" /\ IsEnum(type.variants)
            \/ type.t = "dir"
<1>1. Components(type) \subseteq AllTypes
  <2>1. Len(Types) \in 0 .. Len(Types)
    BY TypesAreListed
  <2>2. QED
    BY <2>1, TypesAreListed
<1>2. IsType(type)
  BY TypesAssumption DEF AllTypes, Range
<1>3. QED
  BY <1>1, <1>2 DEF IsType, Plainly

\* The components of the types that have some.
LEMMA ComponentsAre ==
  ASSUME NEW type \in AllTypes
  PROVE  /\ type.t = "struct" => \A k \in DOMAIN type.fields : type.fields[k] \in Components(type)
         /\ type.t = "enum" =>
              \A n \in DOMAIN type.variants : \A k \in DOMAIN type.variants[n].fields :
                type.variants[n].fields[k] \in Components(type)
         /\ type.t = "dir" => type.key \in Components(type)
BY DEF Components, Range

-----------------------------------------------------------------------------
(***************************************************************************)
(* Values                                                                  *)
(***************************************************************************)
\* AnyOf is the union.
LEMMA AnyOfIs ==
  ASSUME NEW sets, Len(sets) \in Nat
  PROVE  \A x : x \in AnyOf(sets) <=> \E k \in 1 .. Len(sets) : x \in sets[k]
<1> DEFINE N == Len(sets)
           U == UNION {sets[k] : k \in 1 .. N}
           step == [n \in 1 .. N |-> [x \in SUBSET U |-> x \cup sets[n]]]
           any == CHOOSE any : any = [n \in 0 .. N |->
                    IF n = 0 THEN {} ELSE any[n - 1] \cup sets[n]]
<1>1. N \in Nat /\ {} \in SUBSET U
  OBVIOUS
<1>2. ASSUME NEW n \in 1 .. N, NEW x \in SUBSET U
      PROVE  step[n][x] = x \cup sets[n] /\ step[n][x] \in SUBSET U
  <2>1. step[n][x] = x \cup sets[n]
    OBVIOUS
  <2>2. sets[n] \in SUBSET U
    OBVIOUS
  <2>3. QED
    BY <2>1, <2>2
<1>3. AnyOf(sets) = any[N]
  BY Zenon DEF AnyOf
<1> HIDE DEF step, N
<1>4. StepsIn(SUBSET U, N, step)
  BY <1>2 DEF StepsIn
<1>5. PICK h : Follows(h, SUBSET U, {}, N, step)
  BY <1>1, <1>4, Recursion
<1>6. /\ h[0] = {} /\ h = [n \in 0 .. N |-> h[n]]
      /\ \A n \in 0 .. N : h[n] \in SUBSET U
      /\ \A n \in 1 .. N : h[n] = step[n][h[n - 1]]
  BY <1>5 DEF Follows
<1>7. ASSUME NEW n \in 0 .. N
      PROVE  h[n] = IF n = 0 THEN {} ELSE h[n - 1] \cup sets[n]
  <2>1. CASE n = 0
    BY <1>6, <2>1
  <2>2. CASE n # 0
    <3>1. n \in 1 .. N /\ n - 1 \in 0 .. N
      BY <1>1, <2>2
    <3>2. QED
      BY <1>2, <1>6, <2>2, <3>1
  <2>3. QED
    BY <2>1, <2>2
<1>8. h = [n \in 0 .. N |-> IF n = 0 THEN {} ELSE h[n - 1] \cup sets[n]]
  BY <1>6, <1>7, Zenon
<1>9. any = [n \in 0 .. N |-> IF n = 0 THEN {} ELSE any[n - 1] \cup sets[n]]
  BY <1>8, Zenon
<1> HIDE DEF any, U
<1>10. \A n \in 0 .. N : any[n] = IF n = 0 THEN {} ELSE any[n - 1] \cup sets[n]
  BY <1>9
<1> DEFINE T == {n \in 0 .. N : \A x : x \in any[n] <=> \E k \in 1 .. n : x \in sets[k]}
<1>11. 0 \in T
  <2>1. 0 \in 0 .. N /\ 1 .. 0 = {}
    BY <1>1
  <2>2. any[0] = {}
    BY <1>10, <2>1
  <2>3. QED
    BY <2>1, <2>2
<1>12. ASSUME NEW n \in 0 .. N - 1, n \in T
       PROVE  n + 1 \in T
  <2>1. n + 1 \in 0 .. N /\ n + 1 # 0 /\ (n + 1) - 1 = n
    BY <1>1
  <2>2. any[n + 1] = any[n] \cup sets[n + 1]
    BY <1>10, <2>1
  <2>3. \A k : k \in 1 .. n + 1 <=> k \in 1 .. n \/ k = n + 1
    BY <1>1
  <2>4. \A x : x \in any[n] <=> \E k \in 1 .. n : x \in sets[k]
    BY <1>12
  <2>5. \A x : x \in any[n + 1] <=> \E k \in 1 .. n + 1 : x \in sets[k]
    BY <2>2, <2>3, <2>4
  <2>6. QED
    BY <2>1, <2>5
<1> HIDE DEF T
<1>13. \A n \in 0 .. N : n \in T
  BY <1>1, <1>11, <1>12, Induction
<1>14. N \in T
  BY <1>1, <1>13
<1>15. QED
  BY <1>3, <1>14 DEF T, N

\* A product holds the lists of one member of each set.
LEMMA ProductIs ==
  ASSUME NEW sets, Len(sets) \in Nat, DOMAIN sets = 1 .. Len(sets)
  PROVE  \A q : q \in Product(sets) <=>
           /\ IsList(q) /\ Len(q) = Len(sets)
           /\ \A k \in DOMAIN sets : q[k] \in sets[k]
<1>1. ASSUME NEW q \in Product(sets)
      PROVE  /\ IsList(q) /\ Len(q) = Len(sets)
             /\ \A k \in DOMAIN sets : q[k] \in sets[k]
  <2>1. q \in [DOMAIN sets -> AnyOf(sets)] /\ \A k \in DOMAIN sets : q[k] \in sets[k]
    BY DEF Product
  <2>2. q \in [1 .. Len(sets) -> AnyOf(sets)]
    BY <2>1
  <2>3. q \in Seq(AnyOf(sets)) /\ Len(q) = Len(sets)
    BY <2>2
  <2>4. q \in Seq(Range(q))
    BY <2>3 DEF Range
  <2>5. QED
    BY <2>1, <2>3, <2>4 DEF IsList
<1>2. ASSUME NEW q, IsList(q), Len(q) = Len(sets), \A k \in DOMAIN sets : q[k] \in sets[k]
      PROVE  q \in Product(sets)
  <2>1. q \in Seq(Range(q)) /\ DOMAIN q = DOMAIN sets
    BY <1>2, ListIs DEF IsList
  <2>2. \A k \in DOMAIN q : q[k] \in AnyOf(sets)
    BY <1>2, <2>1, AnyOfIs
  <2>3. q = [k \in DOMAIN q |-> q[k]]
    BY <2>1
  <2>4. q \in [DOMAIN sets -> AnyOf(sets)]
    BY <2>1, <2>2, <2>3
  <2>5. QED
    BY <1>2, <2>4 DEF Product
<1>3. QED
  BY <1>1, <1>2

\* The values of a type, when f holds those of its components.
ValuesFrom(f, type) ==
  LET FieldsOf(types) == Product([k \in DOMAIN types |-> f[types[k]]])
  IN  CASE type.t \in {"string", "raw"} -> [text : Str]
        [] type.t = "u64" -> [id : 0 .. MaxU64]
        [] type.t = "u32" -> [id : 0 .. MaxU32]
        [] type.t = "unit" -> {Unit}
        [] type.t = "struct" -> [fields : FieldsOf(type.fields)]
        [] type.t = "enum" ->
             AnyOf([k \in DOMAIN type.variants |->
                      [variant : {k}, fields : FieldsOf(type.variants[k].fields)]])
        [] type.t = "dir" -> [key : f[type.key], level : Nat]

\* The values of a type depend on those of its components only.
LEMMA ValuesFromComponents ==
  ASSUME NEW type \in AllTypes, NEW f, NEW g, \A part \in Components(type) : f[part] = g[part]
  PROVE  ValuesFrom(f, type) = ValuesFrom(g, type)
<1>1. CASE type \in Plainly
  <2>1. type.t \in {"string", "raw", "u64", "u32", "unit"}
    BY <1>1 DEF Plainly, StringType, RawType, U64Type, U32Type, UnitType
  <2>2. QED
    BY <2>1 DEF ValuesFrom
<1>2. CASE type.t = "struct"
  <2>1. [k \in DOMAIN type.fields |-> f[type.fields[k]]] = [k \in DOMAIN type.fields |-> g[type.fields[k]]]
    BY <1>2, ComponentsAre
  <2>2. QED
    BY <1>2, <2>1 DEF ValuesFrom
<1>3. CASE type.t = "enum"
  <2>1. ASSUME NEW n \in DOMAIN type.variants
        PROVE  [k \in DOMAIN type.variants[n].fields |-> f[type.variants[n].fields[k]]]
                 = [k \in DOMAIN type.variants[n].fields |-> g[type.variants[n].fields[k]]]
    BY <1>3, ComponentsAre
  <2> DEFINE F(n) == [variant : {n}, fields :
                        Product([k \in DOMAIN type.variants[n].fields |-> f[type.variants[n].fields[k]]])]
             G(n) == [variant : {n}, fields :
                        Product([k \in DOMAIN type.variants[n].fields |-> g[type.variants[n].fields[k]]])]
  <2>2. \A n \in DOMAIN type.variants : F(n) = G(n)
    BY <2>1
  <2>3. ValuesFrom(f, type) = AnyOf([n \in DOMAIN type.variants |-> F(n)])
    BY <1>3 DEF ValuesFrom
  <2>4. ValuesFrom(g, type) = AnyOf([n \in DOMAIN type.variants |-> G(n)])
    BY <1>3 DEF ValuesFrom
  <2> HIDE DEF F, G
  <2>5. [n \in DOMAIN type.variants |-> F(n)] = [n \in DOMAIN type.variants |-> G(n)]
    BY <2>2
  <2>6. QED
    BY <2>3, <2>4, <2>5
<1>4. CASE type.t = "dir"
  BY <1>4, ComponentsAre DEF ValuesFrom
<1>5. QED
  BY <1>1, <1>2, <1>3, <1>4, TypeIs

\* A function that is defined type by type exists.
LEMMA ValuesExist ==
  \E f : f = [type \in AllTypes |-> ValuesFrom(f, type)]
<1> DEFINE Is(f, n) == f = [type \in Upto(n) |-> ValuesFrom(f, type)]
           T == {n \in 0 .. Len(Types) : \E f : Is(f, n)}
<1>1. Len(Types) \in Nat /\ AllTypes = Upto(Len(Types)) /\ Upto(0) = {}
  BY TypesAreListed
<1>2. 0 \in T
  <2>1. Is([type \in Upto(0) |-> {}], 0)
    BY <1>1
  <2>2. 0 \in 0 .. Len(Types)
    BY <1>1
  <2>3. QED
    BY <2>1, <2>2
<1>3. ASSUME NEW n \in 0 .. Len(Types) - 1, n \in T
      PROVE  n + 1 \in T
  <2>1. PICK f : Is(f, n)
    BY <1>3
  <2> DEFINE g == [type \in Upto(n + 1) |-> IF type \in Upto(n) THEN f[type] ELSE ValuesFrom(f, type)]
  <2>2. n \in 0 .. Len(Types) /\ n + 1 \in 0 .. Len(Types)
    BY <1>1
  <2>3. Upto(n) \subseteq Upto(n + 1)
    BY TypesAreListed
  <2>4. \A type \in Upto(n) : f[type] = ValuesFrom(f, type)
    BY <2>1
  <2>5. \A type \in Upto(n) : g[type] = f[type]
    BY <2>3
  <2>6. \A type \in Upto(n + 1) : g[type] = ValuesFrom(f, type)
    BY <2>4
  <2>7. g = [type \in Upto(n + 1) |-> g[type]]
    OBVIOUS
  <2> HIDE DEF g
  <2>8. ASSUME NEW type \in Upto(n + 1)
        PROVE  g[type] = ValuesFrom(g, type)
    <3>1. Components(type) \subseteq Upto(n)
      BY <2>2, TypesAreListed
    <3>2. type \in AllTypes
      BY <2>2 DEF Upto, AllTypes, Range
    <3>3. \A part \in Components(type) : f[part] = g[part]
      BY <2>5, <3>1
    <3>4. ValuesFrom(f, type) = ValuesFrom(g, type)
      BY <3>2, <3>3, ValuesFromComponents
    <3>5. QED
      BY <2>6, <3>4
  <2>9. Is(g, n + 1)
    BY <2>7, <2>8, Zenon
  <2>10. QED
    BY <2>2, <2>9
<1> HIDE DEF T
<1>4. \A n \in 0 .. Len(Types) : n \in T
  BY <1>1, <1>2, <1>3, Induction
<1>5. Len(Types) \in T
  BY <1>1, <1>4
<1>6. QED
  BY <1>1, <1>5 DEF T

\* The recursive ValuesOf is defined, so it satisfies its own equation.
LEMMA ValuesAre ==
  \A type \in AllTypes : ValuesOf[type] = ValuesFrom(ValuesOf, type)
<1>1. PICK f : f = [type \in AllTypes |-> ValuesFrom(f, type)]
  BY ValuesExist
<1>2. ValuesOf = CHOOSE g : g = [type \in AllTypes |-> ValuesFrom(g, type)]
  BY Zenon DEF ValuesOf, ValuesFrom
<1>3. ValuesOf = [type \in AllTypes |-> ValuesFrom(ValuesOf, type)]
  BY <1>1, <1>2, Zenon
<1>4. QED
  BY <1>3

-----------------------------------------------------------------------------
(***************************************************************************)
(* What a value consists of                                                *)
(***************************************************************************)
Fields(types) == Product([k \in DOMAIN types |-> ValuesOf[types[k]]])

\* The lists of values of a list of types.
LEMMA FieldsAre ==
  ASSUME NEW types, IsList(types)
  PROVE  \A q : q \in Fields(types) <=>
           /\ IsList(q) /\ Len(q) = Len(types) /\ DOMAIN q = DOMAIN types
           /\ \A k \in DOMAIN types : q[k] \in ValuesOf[types[k]]
<1> DEFINE sets == [k \in DOMAIN types |-> ValuesOf[types[k]]]
<1>1. Len(types) \in Nat /\ DOMAIN types = 1 .. Len(types)
  BY ListIs
<1>2. DOMAIN sets = 1 .. Len(types) /\ Len(sets) = Len(types)
  BY <1>1
<1>3. \A k \in DOMAIN types : sets[k] = ValuesOf[types[k]]
  OBVIOUS
<1>4. Fields(types) = Product(sets)
  BY DEF Fields
<1> HIDE DEF sets
<1>5. \A q : q \in Product(sets) <=>
        IsList(q) /\ Len(q) = Len(sets) /\ \A k \in DOMAIN sets : q[k] \in sets[k]
  BY <1>1, <1>2, ProductIs
<1>6. \A q : IsList(q) => DOMAIN q = 1 .. Len(q)
  BY ListIs
<1>7. QED
  BY <1>1, <1>2, <1>3, <1>4, <1>5, <1>6

\* The types that are one segment.
Leaves == {StringType, RawType, U64Type, U32Type}

\* The values of each kind of type.
LEMMA LeafValues ==
  ASSUME NEW type \in AllTypes
  PROVE  /\ type \in {StringType, RawType} => ValuesOf[type] = [text : Str]
         /\ type = U64Type => ValuesOf[type] = [id : 0 .. MaxU64]
         /\ type = U32Type => ValuesOf[type] = [id : 0 .. MaxU32]
         /\ type = UnitType => ValuesOf[type] = {Unit}
<1>1. ValuesOf[type] = ValuesFrom(ValuesOf, type)
  BY ValuesAre
<1>2. ASSUME type \in {StringType, RawType} PROVE ValuesOf[type] = [text : Str]
  <2>1. type.t = "string" \/ type.t = "raw"
    BY <1>2 DEF StringType, RawType
  <2>2. QED
    BY <1>1, <2>1 DEF ValuesFrom
<1>3. ASSUME type = U64Type PROVE ValuesOf[type] = [id : 0 .. MaxU64]
  <2>1. type.t = "u64"
    BY <1>3 DEF U64Type
  <2>2. QED
    BY <1>1, <2>1 DEF ValuesFrom
<1>4. ASSUME type = U32Type PROVE ValuesOf[type] = [id : 0 .. MaxU32]
  <2>1. type.t = "u32"
    BY <1>4 DEF U32Type
  <2>2. QED
    BY <1>1, <2>1 DEF ValuesFrom
<1>5. ASSUME type = UnitType PROVE ValuesOf[type] = {Unit}
  <2>1. type.t = "unit"
    BY <1>5 DEF UnitType
  <2>2. QED
    BY <1>1, <2>1 DEF ValuesFrom
<1>6. QED
  BY <1>2, <1>3, <1>4, <1>5

\* A struct's values: one value for each field.
LEMMA StructValues ==
  ASSUME NEW type \in AllTypes, type.t = "struct"
  PROVE  /\ IsList(type.fields)
         /\ \A v : v \in ValuesOf[type] <=> \E q \in Fields(type.fields) : v = Struct(q)
<1>1. ValuesOf[type] = [fields : Fields(type.fields)]
  BY ValuesAre DEF ValuesFrom, Fields
<1>2. IsList(type.fields)
  BY TypeIs DEF Plainly, StringType, RawType, U64Type, U32Type, UnitType
<1>3. QED
  BY <1>1, <1>2 DEF Struct

\* An enum's values: a variant, and one value for each of its fields.
LEMMA EnumValues ==
  ASSUME NEW type \in AllTypes, type.t = "enum"
  PROVE  /\ IsEnum(type.variants)
         /\ \A v : v \in ValuesOf[type] <=>
              \E k \in DOMAIN type.variants : \E q \in Fields(type.variants[k].fields) : v = Variant(k, q)
<1>1. IsEnum(type.variants)
  BY TypeIs DEF Plainly, StringType, RawType, U64Type, U32Type, UnitType
<1>2. Len(type.variants) \in Nat /\ DOMAIN type.variants = 1 .. Len(type.variants)
  BY <1>1, ListIs DEF IsEnum
<1> DEFINE sets == [k \in DOMAIN type.variants |->
                      [variant : {k}, fields : Fields(type.variants[k].fields)]]
<1>3. ValuesOf[type] = AnyOf(sets)
  BY ValuesAre DEF ValuesFrom, Fields
<1>4. Len(sets) = Len(type.variants)
  BY <1>2
<1>5. \A k \in DOMAIN type.variants : sets[k] = [variant : {k}, fields : Fields(type.variants[k].fields)]
  OBVIOUS
<1> HIDE DEF sets
<1>6. \A v : v \in ValuesOf[type] <=> \E k \in DOMAIN type.variants : v \in sets[k]
  BY <1>2, <1>3, <1>4, AnyOfIs
<1>7. \A k \in DOMAIN type.variants : \A v :
        v \in sets[k] <=> \E q \in Fields(type.variants[k].fields) : v = Variant(k, q)
  <2> TAKE k \in DOMAIN type.variants
  <2> TAKE v
  <2> DEFINE F == Fields(type.variants[k].fields)
  <2>1. sets[k] = [variant : {k}, fields : F]
    BY <1>5
  <2> HIDE DEF F
  <2>2. v \in [variant : {k}, fields : F] <=> \E q \in F : v = Variant(k, q)
    BY DEF Variant
  <2>3. QED
    BY <2>1, <2>2 DEF F
<1>8. QED
  BY <1>1, <1>6, <1>7

\* A DirName's values: a key and a level.
LEMMA DirValues ==
  ASSUME NEW type \in AllTypes, type.t = "dir"
  PROVE  \A v : v \in ValuesOf[type] <=>
           \E key \in ValuesOf[type.key] : \E level \in Nat : v = DirName(key, level)
<1>1. ValuesOf[type] = [key : ValuesOf[type.key], level : Nat]
  BY ValuesAre DEF ValuesFrom
<1>2. QED
  BY <1>1 DEF DirName

\* A node is a type and a value of it.
IsNode(part) ==
  part = [type |-> part.type, value |-> part.value]
    /\ part.type \in AllTypes /\ part.value \in ValuesOf[part.type]

\* The parts of a value are nodes, of components of its type.
LEMMA PairsAre ==
  ASSUME NEW types, IsList(types), NEW q \in Fields(types)
  PROVE  /\ IsList(Pairs(types, q)) /\ Len(Pairs(types, q)) = Len(types)
         /\ DOMAIN Pairs(types, q) = DOMAIN types
         /\ \A k \in DOMAIN types :
              /\ Pairs(types, q)[k] = [type |-> types[k], value |-> q[k]]
              /\ q[k] \in ValuesOf[types[k]]
<1>1. Len(types) \in Nat /\ DOMAIN types = 1 .. Len(types)
  BY ListIs
<1>2. \A k \in DOMAIN types : q[k] \in ValuesOf[types[k]]
  BY FieldsAre
<1> DEFINE p == Pairs(types, q)
<1>3. p = [k \in 1 .. Len(types) |-> [type |-> types[k], value |-> q[k]]]
  BY <1>1 DEF Pairs
<1>4. p \in Seq(Range(p))
  BY <1>1, <1>3 DEF Range
<1>5. QED
  BY <1>1, <1>2, <1>3, <1>4 DEF IsList

\* Fields with their values are a list of typed values.
LEMMA NodesOfPairs ==
  ASSUME NEW types, IsList(types), NEW q \in Fields(types), \A k \in DOMAIN types : types[k] \in AllTypes
  PROVE  /\ IsList(Pairs(types, q)) /\ DOMAIN Pairs(types, q) = DOMAIN types
         /\ \A k \in DOMAIN Pairs(types, q) :
              IsNode(Pairs(types, q)[k]) /\ Pairs(types, q)[k].type = types[k]
<1>1. ASSUME NEW k \in DOMAIN types
      PROVE  IsNode(Pairs(types, q)[k]) /\ Pairs(types, q)[k].type = types[k]
  <2>1. Pairs(types, q)[k] = [type |-> types[k], value |-> q[k]] /\ q[k] \in ValuesOf[types[k]]
    BY PairsAre
  <2>2. QED
    BY <2>1 DEF IsNode
<1>2. QED
  BY <1>1, PairsAre

\* The parts a value is encoded as are typed by the components of its type.
LEMMA PartsAre ==
  ASSUME NEW type \in AllTypes, NEW val \in ValuesOf[type]
  PROVE  /\ IsList(Parts(type, val))
         /\ \A k \in DOMAIN Parts(type, val) :
              /\ IsNode(Parts(type, val)[k])
              /\ Parts(type, val)[k].type \in Components(type)
<1>1. Components(type) \subseteq AllTypes
  BY TypeIs
<1>2. CASE type \in Plainly
  <2>1. Parts(type, val) = <<>>
    BY <1>2 DEF Parts, Plainly, StringType, RawType, U64Type, U32Type, UnitType
  <2>2. QED
    BY <2>1 DEF IsList
<1>3. CASE type.t = "struct"
  <2>1. IsList(type.fields)
    BY <1>3, StructValues
  <2>2. PICK q \in Fields(type.fields) : val = Struct(q)
    BY <1>3, StructValues
  <2>3. Parts(type, val) = Pairs(type.fields, q)
    BY <1>3, <2>2 DEF Parts, Struct
  <2>4. \A k \in DOMAIN type.fields : type.fields[k] \in Components(type)
    BY <1>3, ComponentsAre
  <2>5. QED
    BY <1>1, <2>1, <2>3, <2>4, NodesOfPairs
<1>4. CASE type.t = "enum"
  <2>1. PICK n \in DOMAIN type.variants : \E q \in Fields(type.variants[n].fields) : val = Variant(n, q)
    BY <1>4, EnumValues
  <2>2. PICK q \in Fields(type.variants[n].fields) : val = Variant(n, q)
    BY <2>1
  <2>3. IsList(type.variants[n].fields)
    BY <1>4, EnumValues DEF IsEnum
  <2>4. Parts(type, val) = Pairs(type.variants[n].fields, q)
    BY <1>4, <2>2 DEF Parts, Variant
  <2>5. \A k \in DOMAIN type.variants[n].fields : type.variants[n].fields[k] \in Components(type)
    BY <1>4, ComponentsAre
  <2>6. QED
    BY <1>1, <2>3, <2>4, <2>5, NodesOfPairs
<1>5. CASE type.t = "dir"
  <2>1. PICK key \in ValuesOf[type.key], level \in Nat : val = DirName(key, level)
    BY <1>5, DirValues
  <2>2. Parts(type, val) = << [type |-> type.key, value |-> key] >>
    BY <1>5, <2>1 DEF Parts, DirName
  <2>3. type.key \in Components(type)
    BY <1>5, ComponentsAre
  <2>4. IsNode([type |-> type.key, value |-> key])
    BY <1>1, <2>1, <2>3 DEF IsNode
  <2>5. IsList(<< [type |-> type.key, value |-> key] >>)
    BY DEF IsList, Range
  <2>6. QED
    BY <2>2, <2>3, <2>4, <2>5
<1>6. QED
  BY <1>2, <1>3, <1>4, <1>5, TypeIs

-----------------------------------------------------------------------------
(***************************************************************************)
(* Counts and items                                                        *)
(***************************************************************************)
\* The segments of each value of a type, when f counts those of its components.
CountsOf(inner, type, val) ==
  CASE type.t \in {"string", "raw", "u64", "u32"} -> 1
    [] type.t = "unit" -> 0
    [] type.t = "struct" -> inner
    [] type.t = "enum" -> 1 + inner
    [] type.t = "dir" -> IF inner > val.level THEN inner - val.level ELSE 0
\* The segments of the parts, as f counts them.
CountsInner(f, type, val) ==
  LET parts == Parts(type, val)
  IN  Sum([k \in DOMAIN parts |-> f[parts[k].type][parts[k].value]])
\* The segment counts of a type, from those of its components.
CountFrom(f, type) == [val \in ValuesOf[type] |-> CountsOf(CountsInner(f, type, val), type, val)]

\* A type's segment count depends on those of its components only.
LEMMA CountsFromComponents ==
  ASSUME NEW type \in AllTypes, NEW f, NEW g, \A part \in Components(type) : f[part] = g[part]
  PROVE  CountFrom(f, type) = CountFrom(g, type)
<1>1. ASSUME NEW val \in ValuesOf[type]
      PROVE  [k \in DOMAIN Parts(type, val) |->
                f[Parts(type, val)[k].type][Parts(type, val)[k].value]]
             = [k \in DOMAIN Parts(type, val) |->
                  g[Parts(type, val)[k].type][Parts(type, val)[k].value]]
  <2>1. \A k \in DOMAIN Parts(type, val) : Parts(type, val)[k].type \in Components(type)
    BY PartsAre
  <2>2. QED
    BY <2>1
<1>2. ASSUME NEW val \in ValuesOf[type]
      PROVE  CountsInner(f, type, val) = CountsInner(g, type, val)
  BY <1>1, Zenon DEF CountsInner
<1>3. \A val \in ValuesOf[type] :
        CountsOf(CountsInner(f, type, val), type, val) = CountsOf(CountsInner(g, type, val), type, val)
  BY <1>2
<1>4. QED
  BY <1>3 DEF CountFrom

\* The recursive SegmentCount is defined,
LEMMA CountsExist ==
  \E f : f = [type \in AllTypes |-> CountFrom(f, type)]
<1> DEFINE Is(f, n) == f = [type \in Upto(n) |-> CountFrom(f, type)]
           T == {n \in 0 .. Len(Types) : \E f : Is(f, n)}
<1>1. Len(Types) \in Nat /\ AllTypes = Upto(Len(Types)) /\ Upto(0) = {}
  BY TypesAreListed
<1>2. 0 \in T
  <2>1. Is([type \in Upto(0) |-> {}], 0)
    BY <1>1
  <2>2. 0 \in 0 .. Len(Types)
    BY <1>1
  <2>3. QED
    BY <2>1, <2>2
<1>3. ASSUME NEW n \in 0 .. Len(Types) - 1, n \in T
      PROVE  n + 1 \in T
  <2>1. PICK f : Is(f, n)
    BY <1>3
  <2> DEFINE g == [type \in Upto(n + 1) |-> IF type \in Upto(n) THEN f[type] ELSE CountFrom(f, type)]
  <2>2. n \in 0 .. Len(Types) /\ n + 1 \in 0 .. Len(Types)
    BY <1>1
  <2>3. Upto(n) \subseteq Upto(n + 1)
    BY TypesAreListed
  <2>4. \A type \in Upto(n) : f[type] = CountFrom(f, type)
    BY <2>1
  <2>5. \A type \in Upto(n) : g[type] = f[type]
    BY <2>3
  <2>6. \A type \in Upto(n + 1) : g[type] = CountFrom(f, type)
    BY <2>4
  <2>7. g = [type \in Upto(n + 1) |-> g[type]]
    OBVIOUS
  <2> HIDE DEF g
  <2>8. ASSUME NEW type \in Upto(n + 1)
        PROVE  g[type] = CountFrom(g, type)
    <3>1. Components(type) \subseteq Upto(n)
      BY <2>2, TypesAreListed
    <3>2. type \in AllTypes
      BY <2>2 DEF Upto, AllTypes, Range
    <3>3. \A part \in Components(type) : f[part] = g[part]
      BY <2>5, <3>1
    <3>4. CountFrom(f, type) = CountFrom(g, type)
      BY <3>2, <3>3, CountsFromComponents
    <3>5. QED
      BY <2>6, <3>4
  <2>9. Is(g, n + 1)
    BY <2>7, <2>8, Zenon
  <2>10. QED
    BY <2>2, <2>9
<1> HIDE DEF T
<1>4. \A n \in 0 .. Len(Types) : n \in T
  BY <1>1, <1>2, <1>3, Induction
<1>5. Len(Types) \in T
  BY <1>1, <1>4
<1>6. QED
  BY <1>1, <1>5 DEF T

\* so it satisfies its own equation.
LEMMA CountsAre ==
  \A type \in AllTypes : SegmentCount[type] = CountFrom(SegmentCount, type)
<1>1. PICK f : f = [type \in AllTypes |-> CountFrom(f, type)]
  BY CountsExist
<1>2. SegmentCount = CHOOSE g : g = [type \in AllTypes |-> CountFrom(g, type)]
  BY Zenon DEF SegmentCount, CountFrom, CountsInner, CountsOf
<1>3. SegmentCount = [type \in AllTypes |-> CountFrom(SegmentCount, type)]
  BY <1>1, <1>2, Zenon
<1>4. QED
  BY <1>3

\* The items of each value of a type, when f holds those of its components.
WiresOf(inner, type, val) ==
  CASE type.t \in DOMAIN FormOf -> <<Item(FormOf[type.t], val)>>
    [] type.t = "enum" ->
         <<Item("verbatim", Text(type.variants[val.variant].tag))>> \o inner
    [] type.t = "dir" -> SubSeq(inner, 1, Len(inner) - val.level)
    [] OTHER -> inner
\* What the parts write, as f says.
WiresInner(f, type, val) ==
  LET parts == Parts(type, val)
  IN  FlattenSeq([k \in DOMAIN parts |-> f[parts[k].type][parts[k].value]])
\* What the values of a type write, from what those of its components do.
WireFrom(f, type) == [val \in ValuesOf[type] |-> WiresOf(WiresInner(f, type, val), type, val)]

\* What a value writes depends on what its components write only.
LEMMA WiresFromComponents ==
  ASSUME NEW type \in AllTypes, NEW f, NEW g, \A part \in Components(type) : f[part] = g[part]
  PROVE  WireFrom(f, type) = WireFrom(g, type)
<1>1. ASSUME NEW val \in ValuesOf[type]
      PROVE  [k \in DOMAIN Parts(type, val) |->
                f[Parts(type, val)[k].type][Parts(type, val)[k].value]]
             = [k \in DOMAIN Parts(type, val) |->
                  g[Parts(type, val)[k].type][Parts(type, val)[k].value]]
  <2>1. \A k \in DOMAIN Parts(type, val) : Parts(type, val)[k].type \in Components(type)
    BY PartsAre
  <2>2. QED
    BY <2>1
<1>2. ASSUME NEW val \in ValuesOf[type]
      PROVE  WiresInner(f, type, val) = WiresInner(g, type, val)
  BY <1>1, Zenon DEF WiresInner
<1>3. \A val \in ValuesOf[type] :
        WiresOf(WiresInner(f, type, val), type, val) = WiresOf(WiresInner(g, type, val), type, val)
  BY <1>2
<1>4. QED
  BY <1>3 DEF WireFrom

\* The recursive Wire is defined,
LEMMA WiresExist ==
  \E f : f = [type \in AllTypes |-> WireFrom(f, type)]
<1> DEFINE Is(f, n) == f = [type \in Upto(n) |-> WireFrom(f, type)]
           T == {n \in 0 .. Len(Types) : \E f : Is(f, n)}
<1>1. Len(Types) \in Nat /\ AllTypes = Upto(Len(Types)) /\ Upto(0) = {}
  BY TypesAreListed
<1>2. 0 \in T
  <2>1. Is([type \in Upto(0) |-> {}], 0)
    BY <1>1
  <2>2. 0 \in 0 .. Len(Types)
    BY <1>1
  <2>3. QED
    BY <2>1, <2>2
<1>3. ASSUME NEW n \in 0 .. Len(Types) - 1, n \in T
      PROVE  n + 1 \in T
  <2>1. PICK f : Is(f, n)
    BY <1>3
  <2> DEFINE g == [type \in Upto(n + 1) |-> IF type \in Upto(n) THEN f[type] ELSE WireFrom(f, type)]
  <2>2. n \in 0 .. Len(Types) /\ n + 1 \in 0 .. Len(Types)
    BY <1>1
  <2>3. Upto(n) \subseteq Upto(n + 1)
    BY TypesAreListed
  <2>4. \A type \in Upto(n) : f[type] = WireFrom(f, type)
    BY <2>1
  <2>5. \A type \in Upto(n) : g[type] = f[type]
    BY <2>3
  <2>6. \A type \in Upto(n + 1) : g[type] = WireFrom(f, type)
    BY <2>4
  <2>7. g = [type \in Upto(n + 1) |-> g[type]]
    OBVIOUS
  <2> HIDE DEF g
  <2>8. ASSUME NEW type \in Upto(n + 1)
        PROVE  g[type] = WireFrom(g, type)
    <3>1. Components(type) \subseteq Upto(n)
      BY <2>2, TypesAreListed
    <3>2. type \in AllTypes
      BY <2>2 DEF Upto, AllTypes, Range
    <3>3. \A part \in Components(type) : f[part] = g[part]
      BY <2>5, <3>1
    <3>4. WireFrom(f, type) = WireFrom(g, type)
      BY <3>2, <3>3, WiresFromComponents
    <3>5. QED
      BY <2>6, <3>4
  <2>9. Is(g, n + 1)
    BY <2>7, <2>8, Zenon
  <2>10. QED
    BY <2>2, <2>9
<1> HIDE DEF T
<1>4. \A n \in 0 .. Len(Types) : n \in T
  BY <1>1, <1>2, <1>3, Induction
<1>5. Len(Types) \in T
  BY <1>1, <1>4
<1>6. QED
  BY <1>1, <1>5 DEF T

\* so it satisfies its own equation.
LEMMA WiresAre ==
  \A type \in AllTypes : Wire[type] = WireFrom(Wire, type)
<1>1. PICK f : f = [type \in AllTypes |-> WireFrom(f, type)]
  BY WiresExist
<1>2. Wire = CHOOSE g : g = [type \in AllTypes |-> WireFrom(g, type)]
  BY Zenon DEF Wire, WireFrom, WiresInner, WiresOf
<1>3. Wire = [type \in AllTypes |-> WireFrom(Wire, type)]
  BY <1>1, <1>2, Zenon
<1>4. QED
  BY <1>3

\* The items of a list of nodes.
PiecesOf(parts) == [k \in DOMAIN parts |-> Wire[parts[k].type][parts[k].value]]
\* What a list of typed values writes,
Flat(parts) == FlattenSeq(PiecesOf(parts))
\* and what such a list is.
IsNodes(parts) == IsList(parts) /\ \A k \in DOMAIN parts : IsNode(parts[k])

\* The items a value writes: a text, escaped or as it is, or a number.
Items ==
  [form : {"escaped", "verbatim"}, value : [text : Str]]
    \cup [form : {"u64"}, value : [id : 0 .. MaxU64]]
    \cup [form : {"u32"}, value : [id : 0 .. MaxU32]]
\* What is written: items in a row.
Wires == Seq(Items)

\* Each kind of value as items.
LEMMA WireKinds ==
  ASSUME NEW type \in AllTypes, NEW val \in ValuesOf[type]
  PROVE  /\ type \in Leaves => Wire[type][val] = << Item(FormOf[type.t], val) >>
         /\ type = UnitType => Wire[type][val] = Flat(<<>>)
         /\ type.t = "struct" => Wire[type][val] = Flat(Parts(type, val))
         /\ type.t = "enum" => Wire[type][val] =
              << Item("verbatim", Text(type.variants[val.variant].tag)) >> \o Flat(Parts(type, val))
         /\ type.t = "dir" => Wire[type][val] =
              SubSeq(Flat(Parts(type, val)), 1, Len(Flat(Parts(type, val))) - val.level)
<1>1. Wire[type][val] = WiresOf(WiresInner(Wire, type, val), type, val)
  BY WiresAre DEF WireFrom
<1>2. WiresInner(Wire, type, val) = Flat(Parts(type, val))
  BY Zenon DEF WiresInner, Flat, PiecesOf
<1> DEFINE inner == Flat(Parts(type, val))
<1>3. Wire[type][val] = WiresOf(inner, type, val)
  BY <1>1, <1>2
<1>4. DOMAIN FormOf = {"string", "raw", "u64", "u32"}
  BY DEF FormOf
<1>5. ASSUME type \in Leaves PROVE Wire[type][val] = << Item(FormOf[type.t], val) >>
  <2>1. type.t \in DOMAIN FormOf
    BY <1>4, <1>5 DEF Leaves, StringType, RawType, U64Type, U32Type
  <2> HIDE DEF inner
  <2>2. type.t # "enum" /\ type.t # "dir"
    BY <1>4, <2>1
  <2>3. QED
    BY <1>3, <2>1, <2>2 DEF WiresOf
<1>6. ASSUME type = UnitType PROVE Wire[type][val] = Flat(<<>>)
  <2>1. type.t = "unit"
    BY <1>6 DEF UnitType
  <2>2. Parts(type, val) = <<>>
    BY <2>1 DEF Parts
  <2>3. QED
    BY <1>3, <1>4, <2>1, <2>2 DEF WiresOf
<1> HIDE DEF inner
<1>7. type.t = "struct" => Wire[type][val] = inner
  BY <1>3, <1>4 DEF WiresOf
<1>8. type.t = "enum" => Wire[type][val] =
        << Item("verbatim", Text(type.variants[val.variant].tag)) >> \o inner
  BY <1>3, <1>4 DEF WiresOf
<1>9. type.t = "dir" => Wire[type][val] = SubSeq(inner, 1, Len(inner) - val.level)
  BY <1>3, <1>4 DEF WiresOf
<1>10. QED
  BY <1>5, <1>6, <1>7, <1>8, <1>9 DEF inner

\* Each kind of value counted.
LEMMA CountKinds ==
  ASSUME NEW type \in AllTypes, NEW val \in ValuesOf[type]
  PROVE  LET inner == CountsInner(SegmentCount, type, val)
         IN  /\ type \in Leaves => SegmentCount[type][val] = 1
             /\ type = UnitType => SegmentCount[type][val] = 0
             /\ type.t = "struct" => SegmentCount[type][val] = inner
             /\ type.t = "enum" => SegmentCount[type][val] = 1 + inner
             /\ type.t = "dir" => SegmentCount[type][val] =
                  IF inner > val.level THEN inner - val.level ELSE 0
<1> DEFINE inner == CountsInner(SegmentCount, type, val)
<1>1. SegmentCount[type][val] = CountsOf(inner, type, val)
  BY CountsAre DEF CountFrom
<1> HIDE DEF inner
<1>2. type \in Leaves => SegmentCount[type][val] = 1
  BY <1>1 DEF CountsOf, Leaves, StringType, RawType, U64Type, U32Type
<1>3. type = UnitType => SegmentCount[type][val] = 0
  BY <1>1 DEF CountsOf, UnitType
<1>4. /\ type.t = "struct" => SegmentCount[type][val] = inner
      /\ type.t = "enum" => SegmentCount[type][val] = 1 + inner
      /\ type.t = "dir" => SegmentCount[type][val] =
           IF inner > val.level THEN inner - val.level ELSE 0
  BY <1>1 DEF CountsOf
<1>5. QED
  BY <1>2, <1>3, <1>4 DEF inner

\* The items of a leaf and of a tag.
LEMMA LeafItems ==
  ASSUME NEW type \in AllTypes, type \in Leaves, NEW val \in ValuesOf[type]
  PROVE  Item(FormOf[type.t], val) \in Items
<1>1. CASE type = StringType
  BY <1>1, LeafValues DEF Items, Item, FormOf, StringType
<1>2. CASE type = RawType
  BY <1>2, LeafValues DEF Items, Item, FormOf, RawType
<1>3. CASE type = U64Type
  BY <1>3, LeafValues DEF Items, Item, FormOf, U64Type
<1>4. CASE type = U32Type
  BY <1>4, LeafValues DEF Items, Item, FormOf, U32Type
<1>5. QED
  BY <1>1, <1>2, <1>3, <1>4 DEF Leaves

\* A text written as it is, is an item.
LEMMA VerbatimItems ==
  ASSUME NEW s \in Str
  PROVE  Item("verbatim", Text(s)) \in Items
BY DEF Items, Item, Text

\* A value is a list of items, when the parts are.
LEMMA PiecesAre ==
  ASSUME NEW parts, IsNodes(parts),
         \A k \in DOMAIN parts : Wire[parts[k].type][parts[k].value] \in Wires
  PROVE  PiecesOf(parts) \in Seq(Wires) /\ Flat(parts) \in Wires
<1>1. Len(parts) \in Nat /\ DOMAIN parts = 1 .. Len(parts)
  BY ListIs DEF IsNodes
<1>2. PiecesOf(parts) \in Seq(Wires)
  BY <1>1 DEF PiecesOf
<1>3. QED
  BY <1>2, FlattenType DEF Flat, Wires

\* What a value writes is a sequence of items.
LEMMA WireTyped ==
  \A type \in AllTypes : \A val \in ValuesOf[type] : Wire[type][val] \in Wires
<1> DEFINE P == {type \in AllTypes : \A val \in ValuesOf[type] : Wire[type][val] \in Wires}
<1>1. ASSUME NEW type \in AllTypes, Components(type) \subseteq P
      PROVE  type \in P
  <2>1. SUFFICES ASSUME NEW val \in ValuesOf[type]
                 PROVE  Wire[type][val] \in Wires
    OBVIOUS
  <2>2. Flat(Parts(type, val)) \in Wires
    <3>1. IsNodes(Parts(type, val))
      BY PartsAre DEF IsNodes
    <3>2. ASSUME NEW k \in DOMAIN Parts(type, val)
          PROVE  Wire[Parts(type, val)[k].type][Parts(type, val)[k].value] \in Wires
      <4>1. IsNode(Parts(type, val)[k]) /\ Parts(type, val)[k].type \in P
        BY <1>1, PartsAre
      <4>2. QED
        BY <4>1 DEF IsNode
    <3> DEFINE parts == Parts(type, val)
    <3> HIDE DEF parts
    <3>3. IsNodes(parts) => Flat(parts) \in Wires
      BY <3>2, PiecesAre DEF parts
    <3>4. QED
      BY <3>1, <3>3 DEF parts
  <2>3. CASE type \in Leaves
    <3>1. Wire[type][val] = << Item(FormOf[type.t], val) >>
      BY <2>3, WireKinds
    <3>2. Item(FormOf[type.t], val) \in Items
      BY <2>3, LeafItems
    <3>3. QED
      BY <3>1, <3>2 DEF Wires
  <2>4. CASE type = UnitType
    <3>1. Parts(type, val) = <<>>
      BY <2>4 DEF Parts, UnitType
    <3>2. QED
      BY <2>2, <2>4, <3>1, WireKinds
  <2>5. CASE type.t = "struct"
    BY <2>2, <2>5, WireKinds
  <2>6. CASE type.t = "enum"
    <3>1. PICK n \in DOMAIN type.variants : \E q \in Fields(type.variants[n].fields) : val = Variant(n, q)
      BY <2>6, EnumValues
    <3>2. val.variant = n
      BY <3>1 DEF Variant
    <3>3. type.variants[n].tag \in Str
      BY <2>6, EnumValues DEF IsEnum
    <3>4. << Item("verbatim", Text(type.variants[n].tag)) >> \in Wires
      BY <3>3, VerbatimItems DEF Wires
    <3>5. Wire[type][val] = << Item("verbatim", Text(type.variants[n].tag)) >> \o Flat(Parts(type, val))
      BY <2>6, <3>2, WireKinds
    <3> DEFINE first == << Item("verbatim", Text(type.variants[n].tag)) >>
               inner == Flat(Parts(type, val))
    <3> HIDE DEF first, inner
    <3>6. first \in Wires /\ inner \in Wires => first \o inner \in Wires
      BY DEF Wires
    <3>7. QED
      BY <2>2, <3>4, <3>5, <3>6 DEF first, inner
  <2>7. CASE type.t = "dir"
    <3>1. val.level \in Nat
      BY <2>7, DirValues DEF DirName
    <3> DEFINE inner == Flat(Parts(type, val))
    <3>2. inner \in Wires
      BY <2>2
    <3>3. Wire[type][val] = SubSeq(inner, 1, Len(inner) - val.level)
      BY <2>7, WireKinds
    <3> HIDE DEF inner
    <3>4. Len(inner) \in Nat /\ Len(inner) - val.level \in Int /\ Len(inner) - val.level <= Len(inner)
      BY <3>1, <3>2 DEF Wires
    <3>5. \A k \in 1 .. Len(inner) - val.level : inner[k] \in Items
      BY <3>2, <3>4 DEF Wires
    <3>6. QED
      BY <3>2, <3>3, <3>4, <3>5, SubSeqProperties DEF Wires
  <2>8. QED
    BY <2>3, <2>4, <2>5, <2>6, <2>7, TypeIs DEF Plainly, Leaves
<1> HIDE DEF P
<1>2. AllTypes \subseteq P
  BY <1>1, TypeInduction
<1>3. QED
  BY <1>2 DEF P

\* segment_count() is the number of items.
LEMMA CountIsLength ==
  \A type \in AllTypes : \A val \in ValuesOf[type] :
    SegmentCount[type][val] = Len(Wire[type][val])
<1> DEFINE P == {type \in AllTypes : \A val \in ValuesOf[type] :
                   SegmentCount[type][val] = Len(Wire[type][val])}
<1>1. ASSUME NEW type \in AllTypes, Components(type) \subseteq P
      PROVE  type \in P
  <2>1. SUFFICES ASSUME NEW val \in ValuesOf[type]
                 PROVE  SegmentCount[type][val] = Len(Wire[type][val])
    OBVIOUS
  <2> DEFINE parts == Parts(type, val)
             inner == CountsInner(SegmentCount, type, val)
  <2>2. IsNodes(parts)
    BY PartsAre DEF IsNodes
  <2>3. ASSUME NEW k \in DOMAIN parts
        PROVE  /\ Wire[parts[k].type][parts[k].value] \in Wires
               /\ SegmentCount[parts[k].type][parts[k].value] = Len(Wire[parts[k].type][parts[k].value])
    <3>1. IsNode(parts[k]) /\ parts[k].type \in P
      BY <1>1, PartsAre
    <3>2. QED
      BY <3>1, WireTyped DEF IsNode
  <2>4. inner = Sum([k \in DOMAIN parts |-> SegmentCount[parts[k].type][parts[k].value]])
    BY DEF CountsInner
  <2> HIDE DEF parts, inner, P
  <2>5. PiecesOf(parts) \in Seq(Wires) /\ Flat(parts) \in Wires
    BY <2>2, <2>3, PiecesAre
  <2>6. Len(Flat(parts)) = Sum([k \in DOMAIN PiecesOf(parts) |-> Len(PiecesOf(parts)[k])])
    BY <2>5, FlattenLength DEF Flat, Wires
  <2>7. [k \in DOMAIN PiecesOf(parts) |-> Len(PiecesOf(parts)[k])]
          = [k \in DOMAIN parts |-> SegmentCount[parts[k].type][parts[k].value]]
    BY <2>3 DEF PiecesOf
  <2>8. inner = Len(Flat(parts)) /\ inner \in Nat
    <3>1. inner = Len(Flat(parts))
      BY <2>4, <2>6, <2>7, Zenon
    <3>2. Len(Flat(parts)) \in Nat
      BY <2>5 DEF Wires
    <3>3. QED
      BY <3>1, <3>2
  <2>9. CASE type \in Leaves
    <3>1. SegmentCount[type][val] = 1 /\ Wire[type][val] = << Item(FormOf[type.t], val) >>
      BY <2>9, CountKinds, WireKinds
    <3>2. QED
      BY <3>1
  <2>10. CASE type = UnitType
    <3>1. parts = <<>>
      BY <2>10 DEF parts, Parts, UnitType
    <3>2. Flat(<<>>) = <<>>
      BY FlattenEmpty DEF Flat, PiecesOf
    <3>3. SegmentCount[type][val] = 0 /\ Wire[type][val] = Flat(<<>>)
      BY <2>10, CountKinds, WireKinds
    <3>4. QED
      BY <3>2, <3>3
  <2>11. CASE type.t = "struct"
    <3>1. SegmentCount[type][val] = inner /\ Wire[type][val] = Flat(parts)
      BY <2>11, CountKinds, WireKinds DEF parts, inner
    <3>2. QED
      BY <2>8, <3>1
  <2>12. CASE type.t = "enum"
    <3> DEFINE tag == Item("verbatim", Text(type.variants[val.variant].tag))
    <3>1. SegmentCount[type][val] = 1 + inner /\ Wire[type][val] = << tag >> \o Flat(parts)
      BY <2>12, CountKinds, WireKinds DEF parts, inner
    <3> HIDE DEF tag
    <3>2. Len(<< tag >> \o Flat(parts)) = 1 + Len(Flat(parts))
      BY <2>5 DEF Wires
    <3>3. QED
      BY <2>8, <3>1, <3>2
  <2>13. CASE type.t = "dir"
    <3>1. val.level \in Nat
      BY <2>13, DirValues DEF DirName
    <3>2. SegmentCount[type][val] = IF inner > val.level THEN inner - val.level ELSE 0
      BY <2>13, CountKinds DEF inner
    <3>3. Wire[type][val] = SubSeq(Flat(parts), 1, Len(Flat(parts)) - val.level)
      BY <2>13, WireKinds DEF parts
    <3>4. Len(SubSeq(Flat(parts), 1, inner - val.level)) =
            IF 1 <= inner - val.level THEN (inner - val.level) - 1 + 1 ELSE 0
      <4>1. inner - val.level \in Int /\ 1 \in Int
        BY <2>8, <3>1
      <4>2. \A k \in 1 .. inner - val.level : Flat(parts)[k] \in Items
        BY <2>5, <2>8, <3>1 DEF Wires
      <4>3. QED
        BY <4>1, <4>2, SubSeqProperties
    <3>5. QED
      BY <2>8, <3>1, <3>2, <3>3, <3>4
  <2>14. QED
    BY <2>9, <2>10, <2>11, <2>12, <2>13, TypeIs DEF Plainly, Leaves
<1> HIDE DEF P
<1>2. AllTypes \subseteq P
  BY <1>1, TypeInduction
<1>3. QED
  BY <1>2 DEF P

-----------------------------------------------------------------------------
(***************************************************************************)
(* Segments of a text                                                      *)
(***************************************************************************)
Texts == Seq(Byte)
Lists == {x \in Seq(Texts) : Len(x) > 0}
Extend(x, c) == IF c = Slash THEN Append(x, <<>>) ELSE [x EXCEPT ![Len(x)] = Append(@, c)]

\* What holds of the empty text and of a text with a byte more, holds of all.
LEMMA TextInduction ==
  ASSUME NEW P, <<>> \in P, \A t \in Texts : \A c \in Byte : t \in P => Append(t, c) \in P
  PROVE  Texts \subseteq P
<1>1. SUFFICES ASSUME NEW s \in Texts
               PROVE  s \in P
  OBVIOUS
<1> DEFINE N == Len(s)
           T == {n \in 0 .. N : SubSeq(s, 1, n) \in P}
<1>2. N \in Nat
  BY DEF Texts
<1>3. 0 \in T
  <2>1. SubSeq(s, 1, 0) = <<>> /\ 0 \in 0 .. N
    BY <1>2 DEF Texts
  <2>2. QED
    BY <2>1
<1>4. ASSUME NEW n \in 0 .. N - 1, n \in T
      PROVE  n + 1 \in T
  <2>1. n + 1 \in 1 .. N /\ n + 1 \in 0 .. N
    BY <1>2
  <2>2. SubSeq(s, 1, n) \in Texts /\ s[n + 1] \in Byte
    BY <1>2, <2>1 DEF Texts
  <2>3. SubSeq(s, 1, n + 1) = Append(SubSeq(s, 1, n), s[n + 1])
    BY <1>2, <2>1 DEF Texts
  <2>4. Append(SubSeq(s, 1, n), s[n + 1]) \in P
    BY <1>4, <2>2
  <2>5. QED
    BY <2>1, <2>3, <2>4
<1>5. SubSeq(s, 1, N) = s
  BY DEF Texts
<1> HIDE DEF T, N
<1>6. \A n \in 0 .. N : n \in T
  BY <1>2, <1>3, <1>4, Induction
<1>7. N \in T
  BY <1>2, <1>6
<1>8. QED
  BY <1>5, <1>7 DEF T

\* One byte more extends the list of segments.
LEMMA ExtendType ==
  ASSUME NEW x \in Lists, NEW c \in Byte
  PROVE  /\ Extend(x, c) \in Lists
         /\ Len(Extend(x, c)) = IF c = Slash THEN Len(x) + 1 ELSE Len(x)
         /\ \A k \in 1 .. Len(x) : Extend(x, c)[k] =
              IF c # Slash /\ k = Len(x) THEN Append(x[k], c) ELSE x[k]
         /\ c = Slash => Extend(x, c)[Len(x) + 1] = <<>>
<1>1. Len(x) \in Nat \ {0} /\ x \in Seq(Texts)
  BY DEF Lists
<1>2. x[Len(x)] \in Texts
  BY <1>1
<1>3. Append(x[Len(x)], c) \in Texts /\ <<>> \in Texts
  BY <1>2 DEF Texts
<1> HIDE DEF Lists
<1>4. CASE c = Slash
  <2>1. Extend(x, c) = Append(x, <<>>)
    BY <1>4 DEF Extend
  <2>2. QED
    BY <1>1, <1>3, <1>4, <2>1 DEF Lists
<1>5. CASE c # Slash
  <2> DEFINE last == Append(x[Len(x)], c)
  <2>1. Extend(x, c) = [x EXCEPT ![Len(x)] = last]
    BY <1>5 DEF Extend
  <2>2. last \in Texts
    BY <1>3
  <2> HIDE DEF last
  <2>3. QED
    BY <1>1, <1>5, <2>1, <2>2 DEF Lists, last
<1>6. QED
  BY <1>4, <1>5

\* Split() is defined byte by byte,
LEMMA SplitIs ==
  ASSUME NEW text \in Texts
  PROVE  \E h : /\ h[0] = << <<>> >>
                /\ \A n \in 0 .. Len(text) : h[n] \in Lists
                /\ \A n \in 1 .. Len(text) : h[n] = Extend(h[n - 1], text[n])
                /\ Split(text) = h[Len(text)]
<1> DEFINE N == Len(text)
           step == [n \in 1 .. N |-> [x \in Lists |-> Extend(x, text[n])]]
           split == CHOOSE split : split = [n \in 0 .. N |->
                      IF n = 0 THEN << <<>> >>
                      ELSE IF text[n] = Slash THEN Append(split[n - 1], <<>>)
                      ELSE [split[n - 1] EXCEPT ![Len(split[n - 1])] = Append(@, text[n])]]
<1>1. N \in Nat /\ \A n \in 1 .. N : text[n] \in Byte
  BY DEF Texts
<1>2. ASSUME NEW n \in 1 .. N, NEW x \in Lists
      PROVE  step[n][x] = Extend(x, text[n]) /\ step[n][x] \in Lists
  <2>1. step[n][x] = Extend(x, text[n])
    OBVIOUS
  <2>2. QED
    BY <1>1, <2>1, ExtendType
<1>3. Split(text) = split[N]
  BY Zenon DEF Split
<1>4. << <<>> >> \in Lists
  BY DEF Lists, Texts
<1> HIDE DEF step, N
<1>5. StepsIn(Lists, N, step)
  BY <1>2 DEF StepsIn
<1>6. PICK h : Follows(h, Lists, << <<>> >>, N, step)
  BY <1>1, <1>4, <1>5, Recursion
<1>7. /\ h[0] = << <<>> >> /\ h = [n \in 0 .. N |-> h[n]]
      /\ \A n \in 0 .. N : h[n] \in Lists
      /\ \A n \in 1 .. N : h[n] = step[n][h[n - 1]]
  BY <1>6 DEF Follows
<1>8. ASSUME NEW n \in 0 .. N
      PROVE  h[n] = IF n = 0 THEN << <<>> >>
                    ELSE IF text[n] = Slash THEN Append(h[n - 1], <<>>)
                    ELSE [h[n - 1] EXCEPT ![Len(h[n - 1])] = Append(@, text[n])]
  <2>1. CASE n = 0
    BY <1>7, <2>1
  <2>2. CASE n # 0
    <3>1. n \in 1 .. N /\ n - 1 \in 0 .. N
      BY <1>1, <2>2
    <3>2. h[n] = Extend(h[n - 1], text[n])
      BY <1>2, <1>7, <3>1
    <3>3. QED
      BY <2>2, <3>2 DEF Extend
  <2>3. QED
    BY <2>1, <2>2
<1>9. h = [n \in 0 .. N |->
             IF n = 0 THEN << <<>> >>
             ELSE IF text[n] = Slash THEN Append(h[n - 1], <<>>)
             ELSE [h[n - 1] EXCEPT ![Len(h[n - 1])] = Append(@, text[n])]]
  BY <1>7, <1>8, ZenonT(60)
<1>10. split = [n \in 0 .. N |->
             IF n = 0 THEN << <<>> >>
             ELSE IF text[n] = Slash THEN Append(split[n - 1], <<>>)
             ELSE [split[n - 1] EXCEPT ![Len(split[n - 1])] = Append(@, text[n])]]
  BY <1>9, Zenon
<1> HIDE DEF split
<1>11. \A n \in 0 .. N : split[n] =
          IF n = 0 THEN << <<>> >> ELSE Extend(split[n - 1], text[n])
  BY <1>10, Zenon DEF Extend
<1>12. \A n \in 1 .. N : h[n] = Extend(h[n - 1], text[n])
  <2>1. \A n \in 1 .. N : n - 1 \in 0 .. N
    BY <1>1
  <2>2. QED
    BY <1>2, <1>7, <2>1
<1>13. h[0] = split[0] /\ \A n \in 1 .. N : h[n - 1] = split[n - 1] => h[n] = split[n]
  <2>1. \A n \in 1 .. N : n \in 0 .. N /\ n # 0
    BY <1>1
  <2>2. 0 \in 0 .. N
    BY <1>1
  <2>3. QED
    BY <1>7, <1>11, <1>12, <2>1, <2>2
<1>14. h[N] = split[N]
  BY <1>1, <1>13, SameRecursion
<1>15. QED
  BY <1>3, <1>7, <1>12, <1>14 DEF N

\* so it has the recursion of str::split: a '/' starts a segment, and another
\* byte joins the last one.
LEMMA SplitGrows ==
  /\ Split(<<>>) = << <<>> >>
  /\ \A t \in Texts : Split(t) \in Lists
  /\ \A t \in Texts : \A c \in Byte : Split(Append(t, c)) = Extend(Split(t), c)
<1>1. Split(<<>>) = << <<>> >>
  <2>1. <<>> \in Texts /\ Len(<<>>) = 0
    BY DEF Texts
  <2>2. QED
    BY <2>1, SplitIs
<1>2. ASSUME NEW t \in Texts
      PROVE  Split(t) \in Lists
  <2>1. Len(t) \in 0 .. Len(t)
    BY DEF Texts
  <2>2. QED
    BY <2>1, SplitIs
<1>3. ASSUME NEW t \in Texts, NEW c \in Byte
      PROVE  Split(Append(t, c)) = Extend(Split(t), c)
  <2> DEFINE u == Append(t, c)
             N == Len(t)
  <2>1. N \in Nat /\ u \in Texts /\ Len(u) = N + 1 /\ u[N + 1] = c /\ \A n \in 1 .. N : u[n] = t[n]
    BY DEF Texts
  <2> HIDE DEF u
  <2>2. PICK f : /\ f[0] = << <<>> >>
                 /\ \A n \in 1 .. N : f[n] = Extend(f[n - 1], t[n])
                 /\ Split(t) = f[N]
    BY SplitIs
  <2> HIDE DEF N
  <2>3. PICK g : /\ g[0] = << <<>> >>
                 /\ \A n \in 1 .. N + 1 : g[n] = Extend(g[n - 1], u[n])
                 /\ Split(u) = g[N + 1]
    BY <2>1, SplitIs
  <2>4. \A n \in 1 .. N : n \in 1 .. N + 1
    BY <2>1
  <2>5. f[0] = g[0] /\ \A n \in 1 .. N : f[n - 1] = g[n - 1] => f[n] = g[n]
    BY <2>1, <2>2, <2>3, <2>4
  <2>6. f[N] = g[N]
    BY <2>1, <2>5, SameRecursion
  <2>7. N + 1 \in 1 .. N + 1 /\ (N + 1) - 1 = N
    BY <2>1
  <2>8. g[N + 1] = Extend(g[N], c)
    BY <2>1, <2>3, <2>7
  <2>9. QED
    BY <2>2, <2>3, <2>6, <2>8 DEF u
<1>4. QED
  BY <1>1, <1>2, <1>3

\* The last list of two is the one that is extended.
LEMMA ExtendConcat ==
  ASSUME NEW x \in Lists, NEW y \in Lists, NEW c \in Byte
  PROVE  x \o y \in Lists /\ Extend(x \o y, c) = x \o Extend(y, c)
<1>1. /\ x \in Seq(Texts) /\ y \in Seq(Texts) /\ Len(x) \in Nat \ {0} /\ Len(y) \in Nat \ {0}
  BY DEF Lists
<1>2. PICK X : X = Texts
  OBVIOUS
<1>3. x \o y \in Seq(X) /\ Len(x \o y) = Len(x) + Len(y)
  BY <1>1, <1>2
<1>4. x \o y \in Lists
  BY <1>1, <1>2, <1>3 DEF Lists
<1>5. Extend(y, c) \in Lists /\ Extend(x \o y, c) \in Lists
  BY <1>4, ExtendType
<1> DEFINE p == Extend(x \o y, c)
           q == Extend(y, c)
<1>6. p \in Seq(X) /\ q \in Seq(X) /\ Len(q) = (IF c = Slash THEN Len(y) + 1 ELSE Len(y))
        /\ Len(p) = (IF c = Slash THEN Len(x \o y) + 1 ELSE Len(x \o y))
  BY <1>2, <1>4, <1>5, ExtendType DEF Lists
<1>7. \A k \in 1 .. Len(x \o y) : p[k] =
        IF c # Slash /\ k = Len(x \o y) THEN Append((x \o y)[k], c) ELSE (x \o y)[k]
  BY <1>4, ExtendType
<1>8. \A k \in 1 .. Len(y) : q[k] = IF c # Slash /\ k = Len(y) THEN Append(y[k], c) ELSE y[k]
  BY ExtendType
<1>9. c = Slash => q[Len(y) + 1] = <<>> /\ p[Len(x \o y) + 1] = <<>>
  BY <1>4, ExtendType
<1> HIDE DEF p, q
<1>10. x \in Seq(X) /\ y \in Seq(X)
  BY <1>1, <1>2
<1>11. \A k \in 1 .. Len(x) : (x \o q)[k] = x[k] /\ (x \o y)[k] = x[k]
  BY <1>6, <1>10
<1>12. \A k \in 1 .. Len(q) : (x \o q)[Len(x) + k] = q[k]
  BY <1>6, <1>10
<1>13. \A k \in 1 .. Len(y) : (x \o y)[Len(x) + k] = y[k]
  BY <1>10
<1>14. Len(x \o q) = Len(p) /\ x \o q \in Seq(X) /\ Len(p) = Len(x) + Len(q)
  <2>1. x \o q \in Seq(X) /\ Len(x \o q) = Len(x) + Len(q)
    BY <1>6, <1>10
  <2>2. CASE c = Slash
    BY <1>1, <1>3, <1>6, <2>1, <2>2
  <2>3. CASE c # Slash
    BY <1>1, <1>3, <1>6, <2>1, <2>3
  <2>4. QED
    BY <2>2, <2>3
<1>15. ASSUME NEW k \in 1 .. Len(p)
       PROVE  p[k] = (x \o q)[k]
  <2>1. CASE k <= Len(x)
    <3>1. k \in 1 .. Len(x) /\ k \in 1 .. Len(x \o y) /\ k # Len(x \o y)
      BY <1>1, <1>3, <1>14, <2>1
    <3>2. QED
      BY <1>7, <1>11, <3>1
  <2>2. CASE k > Len(x)
    <3> DEFINE j == k - Len(x)
    <3>1. j \in 1 .. Len(q) /\ k = Len(x) + j
      BY <1>1, <1>6, <1>14, <2>2
    <3> HIDE DEF j
    <3>2. (x \o q)[k] = q[j]
      BY <1>12, <3>1
    <3>3. CASE j <= Len(y)
      <4>1. j \in 1 .. Len(y) /\ k \in 1 .. Len(x \o y) /\ (k = Len(x \o y) <=> j = Len(y))
        BY <1>1, <1>3, <3>1, <3>3
      <4>2. (x \o y)[k] = y[j]
        BY <1>13, <3>1, <4>1
      <4>3. QED
        BY <1>7, <1>8, <3>2, <4>1, <4>2
    <3>4. CASE j > Len(y)
      <4>1. c = Slash /\ j = Len(y) + 1 /\ k = Len(x \o y) + 1
        <5>1. Len(y) < j /\ j <= Len(q) /\ j \in Nat
          BY <1>6, <3>1, <3>4
        <5>2. c = Slash /\ j = Len(y) + 1
          BY <1>1, <1>6, <5>1
        <5>3. QED
          BY <1>1, <1>3, <3>1, <5>2
      <4>2. QED
        BY <1>9, <3>2, <4>1
    <3>5. QED
      BY <1>1, <3>1, <3>3, <3>4
  <2>3. k \in Int /\ Len(x) \in Int
    BY <1>1, <1>14
  <2>4. k <= Len(x) \/ k > Len(x)
    BY <2>3
  <2>5. QED
    BY <2>1, <2>2, <2>4, Zenon
<1>16. p = x \o q
  BY <1>6, <1>14, <1>15, SeqEqual
<1>17. QED
  BY <1>4, <1>16 DEF p, q

\* The segments of two texts around a '/'.
LEMMA SplitConcat ==
  ASSUME NEW a \in Texts, NEW b \in Texts
  PROVE  Append(a, Slash) \o b \in Texts /\ Split(Append(a, Slash) \o b) = Split(a) \o Split(b)
<1> DEFINE A == Append(a, Slash)
           P == {t \in Texts : Split(A \o t) = Split(a) \o Split(t)}
<1>1. A \in Texts /\ Slash \in Byte
  BY DEF Texts, Slash, Byte
<1> HIDE DEF A
<1>2. \A t \in Texts : A \o t \in Texts
  BY <1>1 DEF Texts
<1>3. <<>> \in P
  <2>1. A \o <<>> = A /\ <<>> \in Texts
    BY <1>1 DEF Texts
  <2>2. Split(A) = Extend(Split(a), Slash)
    BY <1>1, SplitGrows DEF A
  <2>3. Extend(Split(a), Slash) = Append(Split(a), <<>>)
    BY DEF Extend
  <2>4. Append(Split(a), <<>>) = Split(a) \o << <<>> >>
    BY SplitGrows, SMTT(30) DEF Lists
  <2>5. QED
    BY <2>1, <2>2, <2>3, <2>4, SplitGrows
<1>4. ASSUME NEW t \in Texts, NEW c \in Byte, t \in P
      PROVE  Append(t, c) \in P
  <2>1. A \o Append(t, c) = Append(A \o t, c) /\ Append(t, c) \in Texts
    BY <1>1 DEF Texts
  <2>2. Split(Append(A \o t, c)) = Extend(Split(A \o t), c)
    BY <1>2, SplitGrows
  <2>3. Extend(Split(a) \o Split(t), c) = Split(a) \o Extend(Split(t), c)
    BY SplitGrows, ExtendConcat
  <2>4. Extend(Split(t), c) = Split(Append(t, c))
    BY SplitGrows
  <2>5. QED
    BY <1>4, <2>1, <2>2, <2>3, <2>4
<1> HIDE DEF P
<1>5. Texts \subseteq P
  BY <1>3, <1>4, TextInduction
<1>6. QED
  BY <1>2, <1>5 DEF P, A

\* A text without '/' is one segment.
LEMMA SplitPlain ==
  ASSUME NEW s \in Texts, NoSlash(s)
  PROVE  Split(s) = << s >>
<1> DEFINE P == {t \in Texts : NoSlash(t) => Split(t) = << t >>}
<1>1. <<>> \in P
  BY SplitGrows DEF Texts
<1>2. ASSUME NEW t \in Texts, NEW c \in Byte, t \in P
      PROVE  Append(t, c) \in P
  <2>1. Append(t, c) \in Texts
    BY DEF Texts
  <2>2. SUFFICES ASSUME NoSlash(Append(t, c))
                 PROVE  Split(Append(t, c)) = << Append(t, c) >>
    BY <2>1
  <2>3. c # Slash /\ NoSlash(t)
    <3>1. Len(t) \in Nat /\ DOMAIN t = 1 .. Len(t) /\ DOMAIN Append(t, c) = 1 .. Len(t) + 1
      BY DEF Texts
    <3>2. Append(t, c)[Len(t) + 1] = c /\ \A p \in 1 .. Len(t) : Append(t, c)[p] = t[p]
      BY DEF Texts
    <3>3. Len(t) + 1 \in 1 .. Len(t) + 1 /\ \A p \in 1 .. Len(t) : p \in 1 .. Len(t) + 1
      BY <3>1
    <3>4. QED
      BY <2>2, <3>1, <3>2, <3>3 DEF NoSlash
  <2>4. Split(t) = << t >>
    BY <1>2, <2>3
  <2>5. Split(Append(t, c)) = Extend(<< t >>, c)
    BY <2>4, SplitGrows
  <2>6. Extend(<< t >>, c) = [<< t >> EXCEPT ![1] = Append(@, c)]
    BY <2>3 DEF Extend
  <2>7. [<< t >> EXCEPT ![1] = Append(@, c)] = << Append(t, c) >>
    OBVIOUS
  <2>8. QED
    BY <2>5, <2>6, <2>7
<1> HIDE DEF P
<1>3. Texts \subseteq P
  BY <1>1, <1>2, TextInduction
<1>4. QED
  BY <1>3 DEF P

\* Segments hold no '/', and there is at most one more than there are bytes.
LEMMA SegmentsAre ==
  ASSUME NEW s \in Texts
  PROVE  /\ Len(Split(s)) <= Len(s) + 1
         /\ \A k \in 1 .. Len(Split(s)) : NoSlash(Split(s)[k])
<1> DEFINE P == {t \in Texts : /\ Len(Split(t)) <= Len(t) + 1
                               /\ \A k \in 1 .. Len(Split(t)) : NoSlash(Split(t)[k])}
<1>1. <<>> \in P
  <2>1. <<>> \in Texts /\ Len(<<>>) = 0 /\ NoSlash(<<>>)
    BY DEF Texts, NoSlash
  <2>2. Len(<< <<>> >>) = 1 /\ << <<>> >>[1] = <<>>
    OBVIOUS
  <2>3. \A k \in 1 .. 1 : k = 1
    OBVIOUS
  <2>4. Len(Split(<<>>)) = 1 /\ Split(<<>>)[1] = <<>>
    BY <2>2, SplitGrows
  <2>5. Len(Split(<<>>)) <= Len(<<>>) + 1
    <3>1. 1 <= 0 + 1
      OBVIOUS
    <3>2. QED
      BY <2>1, <2>4, <3>1, Zenon
  <2>6. \A k \in 1 .. Len(Split(<<>>)) : NoSlash(Split(<<>>)[k])
    BY <2>1, <2>3, <2>4, Zenon
  <2>7. QED
    BY <2>1, <2>5, <2>6
<1>2. ASSUME NEW t \in Texts, NEW c \in Byte, t \in P
      PROVE  Append(t, c) \in P
  <2> DEFINE x == Split(t)
             y == Split(Append(t, c))
  <2>1. Append(t, c) \in Texts /\ Len(Append(t, c)) = Len(t) + 1 /\ Len(t) \in Nat
    BY DEF Texts
  <2>2. x \in Lists /\ y = Extend(x, c)
    BY SplitGrows
  <2>3. Len(x) <= Len(t) + 1 /\ \A k \in 1 .. Len(x) : NoSlash(x[k])
    BY <1>2
  <2> HIDE DEF x
  <2>4. Len(x) \in Nat \ {0} /\ \A k \in 1 .. Len(x) : x[k] \in Texts
    BY <2>2 DEF Lists
  <2>5. Len(Extend(x, c)) <= Len(t) + 2
    BY <2>1, <2>2, <2>3, <2>4, ExtendType
  <2>6. ASSUME NEW k \in 1 .. Len(Extend(x, c))
        PROVE  NoSlash(Extend(x, c)[k])
    <3>1. CASE k \in 1 .. Len(x) /\ ~ (c # Slash /\ k = Len(x))
      BY <2>2, <2>3, <3>1, ExtendType
    <3>2. CASE c # Slash /\ k = Len(x)
      <4>1. Extend(x, c)[k] = Append(x[k], c) /\ k \in 1 .. Len(x)
        BY <2>2, <2>4, <3>2, ExtendType
      <4>2. NoSlash(x[k]) /\ x[k] \in Texts
        BY <2>3, <2>4, <4>1
      <4>3. NoSlash(Append(x[k], c))
        BY <3>2, <4>2 DEF NoSlash, Texts
      <4>4. QED
        BY <4>1, <4>3
    <3>3. CASE c = Slash /\ k = Len(x) + 1
      <4>1. Extend(x, c)[k] = <<>>
        BY <2>2, <3>3, ExtendType
      <4>2. QED
        BY <4>1 DEF NoSlash
    <3>4. k \in 1 .. Len(x) \/ (c = Slash /\ k = Len(x) + 1)
      BY <2>2, <2>4, ExtendType
    <3>5. QED
      BY <3>1, <3>2, <3>3, <3>4
  <2>7. QED
    BY <2>1, <2>2, <2>5, <2>6
<1> HIDE DEF P
<1>3. Texts \subseteq P
  BY <1>1, <1>2, TextInduction
<1>4. QED
  BY <1>3 DEF P

-----------------------------------------------------------------------------
(***************************************************************************)
(* Items and their segments                                                *)
(***************************************************************************)
\* An item is written as a segment that spells it.
LEMMA WrittenIs ==
  ASSUME NEW item \in Items
  PROVE  /\ Written(item) \in Str
         /\ Spells(Written(item), item)
         /\ ~ HoldsSlash(item) => NoSlash(Written(item))
<1>1. CASE item \in [form : {"escaped"}, value : [text : Str]]
  <2>1. item.form = "escaped" /\ item.value.text \in Str /\ item.value = OkText(item.value.text)
    BY <1>1 DEF OkText
  <2> DEFINE s == item.value.text
  <2>2. s \in Seq(Byte) /\ Utf8(s)
    BY <2>1 DEF Str
  <2>3. Written(item) = Escape(s)
    BY <2>1 DEF Written
  <2>4. Escape(s) \in Seq(Emitted) /\ Unescape(Escape(s)) = OkText(s)
    BY <2>2, EscapeReadsBack DEF FromUtf8
  <2> HIDE DEF s
  <2>5. Escape(s) \in Seq(Byte) /\ \A p \in DOMAIN Escape(s) : Escape(s)[p] \in Ascii /\ Escape(s)[p] # Slash
    BY <2>4, SafeBytes
  <2>6. Utf8(Escape(s)) /\ NoSlash(Escape(s))
    BY <2>5, AsciiIsUtf8 DEF NoSlash
  <2>7. Spells(Escape(s), item)
    BY <2>1, <2>4 DEF Spells, s
  <2>8. QED
    BY <2>3, <2>5, <2>6, <2>7 DEF Str
<1>2. CASE item \in [form : {"verbatim"}, value : [text : Str]]
  <2>1. item.form = "verbatim" /\ item.value.text \in Str /\ item.value = OkText(item.value.text)
    BY <1>2 DEF OkText
  <2>2. Written(item) = item.value.text
    BY <2>1 DEF Written
  <2>3. Spells(item.value.text, item)
    BY <2>1 DEF Spells
  <2>4. ~ HoldsSlash(item) => NoSlash(item.value.text)
    BY <2>1 DEF HoldsSlash
  <2>5. QED
    BY <2>1, <2>2, <2>3, <2>4
<1>3. CASE \/ item \in [form : {"u64"}, value : [id : 0 .. MaxU64]]
           \/ item \in [form : {"u32"}, value : [id : 0 .. MaxU32]]
  <2>1. PICK n \in Nat : item.value = OkId(n) /\ item.value.id = n
    <3>1. MaxU64 \in Nat /\ MaxU32 \in Nat
      BY MaxU64Assumption, MaxU32Assumption
    <3>2. QED
      BY <1>3, <3>1 DEF OkId
  <2>2. item.form \in {"u64", "u32"}
    BY <1>3
  <2>3. Written(item) = Decimal(n)
    BY <2>1, <2>2 DEF Written
  <2>4. Decimal(n) \in Seq(Digit) /\ \A max \in Nat : n <= max => DecodeId(Decimal(n), max) = OkId(n)
    BY DecimalReadsBack
  <2>5. /\ Decimal(n) \in Seq(Byte)
        /\ \A p \in DOMAIN Decimal(n) : Decimal(n)[p] \in Ascii /\ Decimal(n)[p] # Slash
    <3>1. Digit \subseteq Byte /\ Digit \subseteq Ascii /\ Slash \notin Digit
      BY SafeBytes
    <3>2. QED
      BY <2>4, <3>1
  <2>6. Utf8(Decimal(n)) /\ NoSlash(Decimal(n))
    BY <2>5, AsciiIsUtf8 DEF NoSlash
  <2>7. Spells(Decimal(n), item)
    <3>1. MaxU64 \in Nat /\ MaxU32 \in Nat
      BY MaxU64Assumption, MaxU32Assumption
    <3>2. CASE item \in [form : {"u64"}, value : [id : 0 .. MaxU64]]
      <4>1. item.form = "u64" /\ n <= MaxU64
        BY <2>1, <3>1, <3>2
      <4>2. QED
        BY <2>1, <2>4, <3>1, <4>1 DEF Spells
    <3>3. CASE item \in [form : {"u32"}, value : [id : 0 .. MaxU32]]
      <4>1. item.form = "u32" /\ n <= MaxU32
        BY <2>1, <3>1, <3>3
      <4>2. QED
        BY <2>1, <2>4, <3>1, <4>1 DEF Spells
    <3>4. QED
      BY <1>3, <3>2, <3>3
  <2>8. QED
    BY <2>3, <2>5, <2>6, <2>7 DEF Str
<1>4. QED
  BY <1>1, <1>2, <1>3 DEF Items

-----------------------------------------------------------------------------
(***************************************************************************)
(* Calls of decode_key(), as steps from the values returned and the items  *)
(* not yet read to those after the call.                                   *)
(***************************************************************************)
State(values, items) == [got |-> values, items |-> items]
IsState(x) == x = State(x.got, x.items) /\ IsList(x.got) /\ x.items \in Wires

\* What the constructor makes of the values.
Built(call, values) ==
  LET n == call.arity
      fields == SubSeq(values, Len(values) - n + 1, Len(values))
  IN  Append(SubSeq(values, 1, Len(values) - n),
             IF call.of = "struct" THEN Struct(fields) ELSE Variant(call.which, fields))

\* `first` is the item of the prefix.
Step(first, call, x, y) ==
  CASE call.t = "prefix" -> y.got = x.got /\ x.items = << first >> \o y.items
    [] call.t = "build" -> y.got = Built(call, x.got) /\ y.items = x.items
    [] OTHER -> \E v \in ValuesOf[call] :
                  y.got = Append(x.got, v) /\ x.items = Wire[call][v] \o y.items

Follow(first, calls, s) ==
  /\ \A k \in 1 .. Len(calls) + 1 : IsState(s[k])
  /\ \A k \in 1 .. Len(calls) : Step(first, calls[k], s[k], s[k + 1])
\* Calls that take a reading from one state to another.
Path(first, calls, x, y) ==
  \E s : Follow(first, calls, s) /\ s[1] = x /\ s[Len(calls) + 1] = y

\* The ends of a path are states.
LEMMA PathEnds ==
  ASSUME NEW first, NEW calls, IsList(calls), NEW x, NEW y, Path(first, calls, x, y)
  PROVE  IsState(x) /\ IsState(y)
<1>1. Len(calls) \in Nat
  BY ListIs
<1>2. 1 \in 1 .. Len(calls) + 1 /\ Len(calls) + 1 \in 1 .. Len(calls) + 1
  BY <1>1
<1>3. QED
  BY <1>2 DEF Path, Follow

\* No call leaves the state as it is.
LEMMA PathNone ==
  ASSUME NEW first
  PROVE  IsList(<<>>) /\ \A x, y : Path(first, <<>>, x, y) <=> x = y /\ IsState(x)
<1>1. IsList(<<>>)
  BY DEF IsList
<1>2. ASSUME NEW x, IsState(x)
      PROVE  Path(first, <<>>, x, x)
  <2> DEFINE s == [k \in 1 .. 1 |-> x]
  <2>1. s[1] = x /\ s[Len(<<>>) + 1] = x
    OBVIOUS
  <2>2. Follow(first, <<>>, s)
    BY <1>2 DEF Follow
  <2>3. QED
    BY <2>1, <2>2 DEF Path
<1>3. ASSUME NEW x, NEW y, Path(first, <<>>, x, y)
      PROVE  x = y
  <2>1. Len(<<>>) + 1 = 1
    OBVIOUS
  <2>2. QED
    BY <1>3, <2>1 DEF Path
<1>4. \A x, y : Path(first, <<>>, x, y) => IsState(x)
  BY <1>1, PathEnds
<1>5. QED
  BY <1>1, <1>2, <1>3, <1>4

\* The path of one call is its step.
LEMMA PathOne ==
  ASSUME NEW first, NEW call
  PROVE  /\ IsList(<< call >>)
         /\ \A x, y : Path(first, << call >>, x, y)
                        <=> IsState(x) /\ IsState(y) /\ Step(first, call, x, y)
<1>1. IsList(<< call >>) /\ Len(<< call >>) = 1 /\ << call >>[1] = call
  BY DEF IsList, Range
<1>2. ASSUME NEW x, NEW y, IsState(x), IsState(y), Step(first, call, x, y)
      PROVE  Path(first, << call >>, x, y)
  <2> DEFINE s == << x, y >>
  <2>1. s[1] = x /\ s[2] = y
    OBVIOUS
  <2> HIDE DEF s
  <2>2. \A k \in 1 .. 1 : k = 1 /\ k + 1 = 2
    OBVIOUS
  <2>3. \A k \in 1 .. 1 + 1 : k = 1 \/ k = 2
    OBVIOUS
  <2>4. Follow(first, << call >>, s)
    BY <1>1, <1>2, <2>1, <2>2, <2>3 DEF Follow
  <2>5. 1 + 1 = 2
    OBVIOUS
  <2>6. QED
    BY <1>1, <2>1, <2>4, <2>5 DEF Path
<1>3. ASSUME NEW x, NEW y, Path(first, << call >>, x, y)
      PROVE  IsState(x) /\ IsState(y) /\ Step(first, call, x, y)
  <2>1. PICK s : Follow(first, << call >>, s) /\ s[1] = x /\ s[1 + 1] = y
    BY <1>1, <1>3 DEF Path
  <2>2. Step(first, << call >>[1], s[1], s[1 + 1])
    BY <1>1, <2>1 DEF Follow
  <2>3. QED
    BY <1>1, <1>3, <2>1, <2>2, PathEnds
<1>4. QED
  BY <1>1, <1>2, <1>3

\* The path of calls after other calls goes through a state in between.
LEMMA PathConcat ==
  ASSUME NEW first, NEW a, IsList(a), NEW b, IsList(b)
  PROVE  /\ IsList(a \o b)
         /\ \A x, y : Path(first, a \o b, x, y)
                        <=> \E z : Path(first, a, x, z) /\ Path(first, b, z, y)
<1> DEFINE n == Len(a)
           m == Len(b)
           c == a \o b
<1>1. /\ n \in Nat /\ m \in Nat /\ IsList(c) /\ Len(c) = n + m
      /\ \A k \in 1 .. n : c[k] = a[k]
      /\ \A k \in 1 .. m : c[n + k] = b[k]
  <2>1. PICK S : S = Range(a) \cup Range(b)
    OBVIOUS
  <2>2. a \in Seq(S) /\ b \in Seq(S)
    BY <2>1 DEF IsList, Range
  <2>3. c \in Seq(S) /\ Len(c) = n + m
    BY <2>2
  <2>4. c \in Seq(Range(c))
    <3>1. \A q \in Seq(S) : q \in Seq(Range(q))
      BY DEF Range
    <3>2. QED
      BY <2>3, <3>1
  <2>5. QED
    BY <2>2, <2>3, <2>4 DEF IsList
<1> HIDE DEF n, m, c
<1>2. ASSUME NEW x, NEW y, Path(first, c, x, y)
      PROVE  \E z : Path(first, a, x, z) /\ Path(first, b, z, y)
  <2>1. PICK s : Follow(first, c, s) /\ s[1] = x /\ s[(n + m) + 1] = y
    BY <1>1, <1>2 DEF Path
  <2>2. /\ \A k \in 1 .. (n + m) + 1 : IsState(s[k])
        /\ \A k \in 1 .. n + m : Step(first, c[k], s[k], s[k + 1])
    BY <1>1, <2>1 DEF Follow
  <2>3. Path(first, a, x, s[n + 1])
    <3>1. \A k \in 1 .. n + 1 : k \in 1 .. (n + m) + 1
      BY <1>1
    <3>2. \A k \in 1 .. n : k \in 1 .. n + m
      BY <1>1
    <3>3. Follow(first, a, s)
      BY <1>1, <2>2, <3>1, <3>2 DEF Follow, n
    <3>4. QED
      BY <2>1, <3>3 DEF Path, n
  <2>4. Path(first, b, s[n + 1], y)
    <3> DEFINE t == [k \in 1 .. m + 1 |-> s[n + k]]
    <3>1. \A k \in 1 .. m + 1 : n + k \in 1 .. (n + m) + 1 /\ t[k] = s[n + k]
      BY <1>1
    <3>2. \A k \in 1 .. m : /\ k \in 1 .. m + 1 /\ k + 1 \in 1 .. m + 1
                            /\ n + k \in 1 .. n + m /\ n + (k + 1) = (n + k) + 1
      BY <1>1
    <3>3. 1 \in 1 .. m + 1 /\ m + 1 \in 1 .. m + 1 /\ n + (m + 1) = (n + m) + 1
      BY <1>1
    <3> HIDE DEF t
    <3>4. \A k \in 1 .. m + 1 : IsState(t[k])
      BY <2>2, <3>1
    <3>5. ASSUME NEW k \in 1 .. m
          PROVE  Step(first, b[k], t[k], t[k + 1])
      <4>1. Step(first, c[n + k], s[n + k], s[(n + k) + 1])
        BY <2>2, <3>2
      <4>2. c[n + k] = b[k] /\ t[k] = s[n + k] /\ t[k + 1] = s[(n + k) + 1]
        BY <1>1, <3>1, <3>2
      <4>3. QED
        BY <4>1, <4>2
    <3>6. Follow(first, b, t)
      BY <3>4, <3>5 DEF Follow, m
    <3>7. t[1] = s[n + 1] /\ t[m + 1] = y
      BY <2>1, <3>1, <3>3
    <3>8. QED
      BY <3>6, <3>7 DEF Path, m
  <2>5. QED
    BY <2>3, <2>4
<1>3. ASSUME NEW x, NEW y, NEW z, Path(first, a, x, z), Path(first, b, z, y)
      PROVE  Path(first, c, x, y)
  <2>1. PICK s : Follow(first, a, s) /\ s[1] = x /\ s[n + 1] = z
    BY <1>3 DEF Path, n
  <2>2. PICK t : Follow(first, b, t) /\ t[1] = z /\ t[m + 1] = y
    BY <1>3 DEF Path, m
  <2>3. /\ \A k \in 1 .. n + 1 : IsState(s[k])
        /\ \A k \in 1 .. n : Step(first, a[k], s[k], s[k + 1])
    BY <2>1 DEF Follow, n
  <2>4. /\ \A k \in 1 .. m + 1 : IsState(t[k])
        /\ \A k \in 1 .. m : Step(first, b[k], t[k], t[k + 1])
    BY <2>2 DEF Follow, m
  <2> DEFINE u == [k \in 1 .. (n + m) + 1 |-> IF k <= n THEN s[k] ELSE t[k - n]]
  <2>5. ASSUME NEW k \in 1 .. n + 1
        PROVE  u[k] = s[k]
    <3>1. k \in 1 .. (n + m) + 1
      BY <1>1
    <3>2. CASE k <= n
      BY <3>1, <3>2
    <3>3. CASE k = n + 1
      <4>1. ~ (k <= n) /\ k - n = 1
        BY <1>1, <3>3
      <4>2. u[k] = t[1]
        BY <3>1, <4>1
      <4>3. QED
        BY <2>1, <2>2, <3>3, <4>2
    <3>4. QED
      BY <1>1, <3>2, <3>3
  <2>6. ASSUME NEW k \in 1 .. m + 1
        PROVE  u[n + k] = t[k]
    <3>1. n + k \in 1 .. (n + m) + 1 /\ ~ (n + k <= n) /\ (n + k) - n = k
      BY <1>1
    <3>2. QED
      BY <3>1
  <2> HIDE DEF u
  <2>7. ASSUME NEW k \in 1 .. (n + m) + 1
        PROVE  IsState(u[k])
    <3>1. CASE k \in 1 .. n + 1
      BY <2>3, <2>5, <3>1
    <3>2. CASE ~ (k \in 1 .. n + 1)
      <4>1. PICK j : j = k - n
        OBVIOUS
      <4>2. j \in 1 .. m + 1 /\ k = n + j
        BY <1>1, <3>2, <4>1
      <4>3. QED
        BY <2>4, <2>6, <4>2
    <3>3. QED
      BY <3>1, <3>2
  <2>8. ASSUME NEW k \in 1 .. n + m
        PROVE  Step(first, c[k], u[k], u[k + 1])
    <3>1. CASE k \in 1 .. n
      <4>1. k \in 1 .. n + 1 /\ k + 1 \in 1 .. n + 1
        BY <1>1, <3>1
      <4>2. QED
        BY <1>1, <2>3, <2>5, <3>1, <4>1
    <3>2. CASE ~ (k \in 1 .. n)
      <4>1. PICK j : j = k - n
        OBVIOUS
      <4>2. j \in 1 .. m /\ j \in 1 .. m + 1 /\ j + 1 \in 1 .. m + 1 /\ k = n + j /\ k + 1 = n + (j + 1)
        BY <1>1, <3>2, <4>1
      <4>3. u[k] = t[j] /\ u[k + 1] = t[j + 1] /\ c[k] = b[j]
        BY <1>1, <2>6, <4>2
      <4>4. QED
        BY <2>4, <4>2, <4>3
    <3>3. QED
      BY <3>1, <3>2
  <2>9. Follow(first, c, u)
    BY <1>1, <2>7, <2>8 DEF Follow
  <2>10. u[1] = x /\ u[Len(c) + 1] = y
    <3>1. 1 \in 1 .. n + 1 /\ m + 1 \in 1 .. m + 1 /\ Len(c) + 1 = n + (m + 1)
      BY <1>1
    <3>2. QED
      BY <2>1, <2>2, <2>5, <2>6, <3>1
  <2>11. QED
    BY <2>9, <2>10 DEF Path
<1>4. QED
  BY <1>1, <1>2, <1>3 DEF c

\* Lists in parts.
LEMMA ListAppend ==
  ASSUME NEW q, IsList(q), NEW v
  PROVE  /\ IsList(Append(q, v)) /\ Len(Append(q, v)) = Len(q) + 1
         /\ DOMAIN Append(q, v) = 1 .. Len(q) + 1
         /\ \A k \in 1 .. Len(q) : Append(q, v)[k] = q[k]
         /\ Append(q, v)[Len(q) + 1] = v
         /\ Append(q, v) = q \o << v >>
<1>1. PICK S : S = Range(q) \cup {v}
  OBVIOUS
<1>2. q \in Seq(S) /\ v \in S
  BY <1>1 DEF IsList
<1>3. Append(q, v) \in Seq(S)
  BY <1>2
<1>4. \A r \in Seq(S) : r \in Seq(Range(r))
  BY DEF Range
<1>5. IsList(Append(q, v))
  BY <1>3, <1>4 DEF IsList
<1>6. QED
  BY <1>2, <1>5

\* The members of two lists joined.
LEMMA ListConcat ==
  ASSUME NEW a, IsList(a), NEW b, IsList(b)
  PROVE  /\ IsList(a \o b) /\ Len(a \o b) = Len(a) + Len(b)
         /\ \A k \in 1 .. Len(a) : (a \o b)[k] = a[k]
         /\ \A k \in 1 .. Len(b) : (a \o b)[Len(a) + k] = b[k]
<1>1. PICK S : S = Range(a) \cup Range(b)
  OBVIOUS
<1>2. a \in Seq(S) /\ b \in Seq(S)
  BY <1>1 DEF IsList
<1>3. a \o b \in Seq(S)
  BY <1>2
<1>4. \A r \in Seq(S) : r \in Seq(Range(r))
  BY DEF Range
<1>5. IsList(a \o b)
  BY <1>3, <1>4 DEF IsList
<1>6. QED
  BY <1>2, <1>5

\* A list is its beginning and its last member.
LEMMA ListLast ==
  ASSUME NEW q, IsList(q), q # <<>>
  PROVE  /\ IsList(SubSeq(q, 1, Len(q) - 1)) /\ Len(SubSeq(q, 1, Len(q) - 1)) = Len(q) - 1
         /\ \A k \in 1 .. Len(q) - 1 : SubSeq(q, 1, Len(q) - 1)[k] = q[k]
         /\ q = Append(SubSeq(q, 1, Len(q) - 1), q[Len(q)])
<1>1. PICK S : S = Range(q)
  OBVIOUS
<1>2. q \in Seq(S)
  BY <1>1 DEF IsList
<1>3. SubSeq(q, 1, Len(q) - 1) \in Seq(S)
  BY <1>2
<1>4. \A r \in Seq(S) : r \in Seq(Range(r))
  BY DEF Range
<1>5. IsList(SubSeq(q, 1, Len(q) - 1))
  BY <1>3, <1>4 DEF IsList
<1>6. Len(q) \in Nat \ {0}
  BY <1>2
<1>7. /\ Len(SubSeq(q, 1, Len(q) - 1)) = Len(q) - 1
      /\ \A k \in 1 .. Len(q) - 1 : SubSeq(q, 1, Len(q) - 1)[k] = q[k]
  <2>1. PICK n : n = Len(q) - 1
    OBVIOUS
  <2>2. n \in Nat /\ 1 \in Int /\ n \in Int /\ \A k \in 1 .. n : q[k] \in S
    BY <1>2, <1>6, <2>1
  <2>3. /\ Len(SubSeq(q, 1, n)) = (IF 1 <= n THEN n - 1 + 1 ELSE 0)
        /\ \A k \in 1 .. n - 1 + 1 : SubSeq(q, 1, n)[k] = q[1 + k - 1]
    BY <2>2, SubSeqProperties
  <2>4. \A k \in 1 .. n : k \in 1 .. n - 1 + 1 /\ 1 + k - 1 = k
    BY <2>2
  <2>5. Len(SubSeq(q, 1, n)) = n
    BY <2>2, <2>3
  <2>6. \A k \in 1 .. n : SubSeq(q, 1, n)[k] = q[k]
    BY <2>3, <2>4
  <2>7. QED
    BY <2>1, <2>5, <2>6
<1>8. Append(SubSeq(q, 1, Len(q) - 1), q[Len(q)]) = q
  <2> DEFINE r == SubSeq(q, 1, Len(q) - 1)
             u == Append(r, q[Len(q)])
  <2>1. q[Len(q)] \in S
    BY <1>2, <1>6
  <2>2. r \in Seq(S) /\ Len(r) = Len(q) - 1
    BY <1>3, <1>7
  <2> HIDE DEF r
  <2>3. u \in Seq(S) /\ Len(u) = Len(q) /\ u[Len(q)] = q[Len(q)]
          /\ \A k \in 1 .. Len(q) - 1 : u[k] = r[k]
    BY <1>6, <2>1, <2>2
  <2>4. \A k \in 1 .. Len(q) : k \in 1 .. Len(q) - 1 \/ k = Len(q)
    BY <1>6
  <2> HIDE DEF u
  <2>5. \A k \in 1 .. Len(u) : u[k] = q[k]
    BY <1>7, <2>3, <2>4 DEF r
  <2>6. u = q
    BY <1>2, <2>3, <2>5, SeqEqual
  <2>7. QED
    BY <2>6 DEF u, r
<1>9. QED
  BY <1>5, <1>7, <1>8

\* A list is its first member and the rest.
LEMMA ListHead ==
  ASSUME NEW q, IsList(q), q # <<>>
  PROVE  /\ IsList(Tail(q)) /\ q = << Head(q) >> \o Tail(q) /\ Len(Tail(q)) = Len(q) - 1
         /\ 1 \in DOMAIN q /\ Head(q) = q[1]
         /\ \A k \in DOMAIN Tail(q) : k + 1 \in DOMAIN q /\ Tail(q)[k] = q[k + 1]
<1>1. PICK S : S = Range(q)
  OBVIOUS
<1>2. q \in Seq(S)
  BY <1>1 DEF IsList
<1>3. Tail(q) \in Seq(S)
  BY <1>2
<1>4. \A r \in Seq(S) : r \in Seq(Range(r))
  BY DEF Range
<1>5. IsList(Tail(q))
  BY <1>3, <1>4 DEF IsList
<1>6. QED
  BY <1>2, <1>5

\* A path starts with the step of its first call.
LEMMA PathCons ==
  ASSUME NEW first, NEW call, NEW rest, IsList(rest)
  PROVE  /\ IsList(<< call >> \o rest)
         /\ \A x, y : Path(first, << call >> \o rest, x, y)
              <=> \E z : IsState(x) /\ IsState(z) /\ Step(first, call, x, z) /\ Path(first, rest, z, y)
<1>1. IsList(<< call >>)
  BY PathOne
<1>2. IsList(<< call >> \o rest)
  BY <1>1, PathConcat
<1>3. \A x, y : Path(first, << call >> \o rest, x, y)
        <=> \E z : Path(first, << call >>, x, z) /\ Path(first, rest, z, y)
  BY <1>1, PathConcat
<1>4. \A x, z : Path(first, << call >>, x, z) <=> IsState(x) /\ IsState(z) /\ Step(first, call, x, z)
  BY PathOne
<1>5. QED
  BY <1>2, <1>3, <1>4

\* The lists of values of one type more, and their items.
LEMMA FieldsGrow ==
  ASSUME NEW types, IsList(types), NEW type
  PROVE  /\ \A q \in Fields(types) : \A v \in ValuesOf[type] : Append(q, v) \in Fields(Append(types, type))
         /\ \A r \in Fields(Append(types, type)) :
              \E q \in Fields(types) : \E v \in ValuesOf[type] : r = Append(q, v)
<1> DEFINE N == Len(types)
           more == Append(types, type)
<1>1. /\ N \in Nat /\ DOMAIN types = 1 .. N /\ IsList(more) /\ Len(more) = N + 1 /\ DOMAIN more = 1 .. N + 1
      /\ \A k \in 1 .. N : more[k] = types[k]
      /\ more[N + 1] = type
  <2>1. N \in Nat /\ DOMAIN types = 1 .. N
    BY ListIs
  <2>2. /\ IsList(more) /\ Len(more) = N + 1 /\ DOMAIN more = 1 .. N + 1
        /\ \A k \in 1 .. N : more[k] = types[k]
        /\ more[N + 1] = type
    <3>1. IsList(types)
      OBVIOUS
    <3>2. IsList(Append(types, type))
      BY <3>1, ListAppend, Zenon
    <3>3. Len(Append(types, type)) = Len(types) + 1
      BY <3>1, ListAppend, Zenon
    <3>4. DOMAIN Append(types, type) = 1 .. Len(types) + 1
      BY <3>1, ListAppend, Zenon
    <3>5. \A k \in 1 .. Len(types) : Append(types, type)[k] = types[k]
      <4>1. PICK S : S = Range(types) \cup {type}
        OBVIOUS
      <4>2. types \in Seq(S) /\ type \in S
        BY <3>1, <4>1 DEF IsList
      <4>3. QED
        BY <4>2
    <3>6. Append(types, type)[Len(types) + 1] = type
      BY <3>1, ListAppend, Zenon
    <3>7. QED
      BY <3>2, <3>3, <3>4, <3>5, <3>6, Zenon
  <2>3. QED
    BY <2>1, <2>2
<1> HIDE DEF N, more
<1>2. \A k : k \in 1 .. N + 1 <=> k \in 1 .. N \/ k = N + 1
  BY <1>1
<1>3. ASSUME NEW q \in Fields(types), NEW v \in ValuesOf[type]
      PROVE  Append(q, v) \in Fields(more)
  <2>1. IsList(q) /\ Len(q) = N /\ \A k \in 1 .. N : q[k] \in ValuesOf[types[k]]
    BY <1>1, FieldsAre DEF N
  <2>2. /\ IsList(Append(q, v)) /\ Len(Append(q, v)) = N + 1 /\ DOMAIN Append(q, v) = 1 .. N + 1
        /\ \A k \in 1 .. N : Append(q, v)[k] = q[k]
        /\ Append(q, v)[N + 1] = v
    BY <2>1, ListAppend, ZenonT(60)
  <2>3. \A k \in DOMAIN more : Append(q, v)[k] \in ValuesOf[more[k]]
    BY <1>1, <1>2, <2>1, <2>2
  <2>4. QED
    BY <1>1, <2>2, <2>3, FieldsAre
<1>4. ASSUME NEW r \in Fields(more)
      PROVE  \E q \in Fields(types) : \E v \in ValuesOf[type] : r = Append(q, v)
  <2>1. IsList(r) /\ Len(r) = N + 1 /\ DOMAIN r = 1 .. N + 1 /\ \A k \in 1 .. N + 1 : r[k] \in ValuesOf[more[k]]
    BY <1>1, FieldsAre
  <2>2. r # <<>> /\ Len(r) - 1 = N
    BY <1>1, <2>1
  <2> DEFINE q == SubSeq(r, 1, Len(r) - 1)
  <2>3. IsList(q) /\ Len(q) = N /\ (\A k \in 1 .. N : q[k] = r[k]) /\ r = Append(q, r[N + 1])
    BY <2>1, <2>2, ListLast
  <2> HIDE DEF q
  <2>4. DOMAIN q = DOMAIN types
    BY <1>1, <2>3, ListIs
  <2>5. \A k \in DOMAIN types : q[k] \in ValuesOf[types[k]]
    BY <1>1, <1>2, <2>1, <2>3
  <2>6. q \in Fields(types)
    BY <2>3, <2>4, <2>5, FieldsAre DEF N
  <2>7. r[N + 1] \in ValuesOf[type]
    BY <1>1, <1>2, <2>1
  <2>8. QED
    BY <2>3, <2>6, <2>7
<1>5. QED
  BY <1>3, <1>4 DEF more

\* The items of one node more, and of nodes in two parts.
LEMMA FlatConcat ==
  ASSUME NEW a, IsNodes(a), NEW b, IsNodes(b)
  PROVE  /\ IsNodes(a \o b) /\ Flat(a) \in Wires /\ Flat(b) \in Wires
         /\ Flat(a \o b) = Flat(a) \o Flat(b)
<1>1. IsList(a) /\ IsList(b) /\ Len(a) \in Nat /\ Len(b) \in Nat /\ DOMAIN a = 1 .. Len(a) /\ DOMAIN b = 1 .. Len(b)
  BY ListIs DEF IsNodes
<1> DEFINE c == a \o b
<1>2. /\ IsList(c) /\ Len(c) = Len(a) + Len(b) /\ DOMAIN c = 1 .. Len(a) + Len(b)
      /\ \A k \in 1 .. Len(a) : c[k] = a[k]
      /\ \A k \in 1 .. Len(b) : c[Len(a) + k] = b[k]
  BY <1>1, ListConcat, ListIs
<1> HIDE DEF c
<1>3. \A k \in DOMAIN c : \/ k \in 1 .. Len(a)
                          \/ \E j \in 1 .. Len(b) : k = Len(a) + j
  <2>1. ASSUME NEW k \in 1 .. Len(a) + Len(b), k \notin 1 .. Len(a)
        PROVE  \E j \in 1 .. Len(b) : k = Len(a) + j
    <3>1. k - Len(a) \in 1 .. Len(b) /\ k = Len(a) + (k - Len(a))
      BY <1>1, <2>1
    <3>2. QED
      BY <3>1
  <2>2. QED
    BY <1>2, <2>1
<1>4. IsNodes(c)
  BY <1>1, <1>2, <1>3 DEF IsNodes
<1>5. ASSUME NEW p, IsNodes(p)
      PROVE  PiecesOf(p) \in Seq(Wires) /\ Flat(p) \in Wires /\ DOMAIN PiecesOf(p) = DOMAIN p
               /\ Len(PiecesOf(p)) = Len(p)
  <2>1. \A k \in DOMAIN p : Wire[p[k].type][p[k].value] \in Wires
    BY <1>5, WireTyped DEF IsNodes, IsNode
  <2>2. PiecesOf(p) \in Seq(Wires) /\ Flat(p) \in Wires
    BY <1>5, <2>1, PiecesAre
  <2>3. Len(p) \in Nat /\ DOMAIN p = 1 .. Len(p)
    BY <1>5, ListIs DEF IsNodes
  <2>4. DOMAIN PiecesOf(p) = DOMAIN p
    BY DEF PiecesOf
  <2>5. QED
    BY <2>2, <2>3, <2>4
<1>6. PiecesOf(c) = PiecesOf(a) \o PiecesOf(b)
  <2>1. PICK W : W = Wires
    OBVIOUS
  <2> DEFINE x == PiecesOf(a)
             y == PiecesOf(b)
             z == PiecesOf(c)
  <2>2. x \in Seq(W) /\ y \in Seq(W) /\ z \in Seq(W) /\ Len(x) = Len(a) /\ Len(y) = Len(b) /\ Len(z) = Len(c)
    BY <1>4, <1>5, <2>1
  <2>3. /\ \A k \in 1 .. Len(a) : x[k] = Wire[a[k].type][a[k].value]
        /\ \A k \in 1 .. Len(b) : y[k] = Wire[b[k].type][b[k].value]
        /\ \A k \in DOMAIN c : z[k] = Wire[c[k].type][c[k].value]
    BY <1>1 DEF PiecesOf
  <2> HIDE DEF x, y, z
  <2>4. /\ x \o y \in Seq(W) /\ Len(x \o y) = Len(a) + Len(b)
        /\ \A k \in 1 .. Len(a) : (x \o y)[k] = x[k]
        /\ \A k \in 1 .. Len(b) : (x \o y)[Len(a) + k] = y[k]
    <3>1. x \o y \in Seq(W) /\ Len(x \o y) = Len(x) + Len(y)
      BY <2>2
    <3>2. \A k \in 1 .. Len(x) : (x \o y)[k] = x[k]
      BY <2>2
    <3>3. \A k \in 1 .. Len(y) : (x \o y)[Len(x) + k] = y[k]
      BY <2>2
    <3>4. QED
      BY <2>2, <3>1, <3>2, <3>3
  <2>5. ASSUME NEW k \in DOMAIN c
        PROVE  z[k] = (x \o y)[k]
    <3>1. CASE k \in 1 .. Len(a)
      BY <1>2, <2>3, <2>4, <3>1, SMTT(30)
    <3>2. CASE \E j \in 1 .. Len(b) : k = Len(a) + j
      <4>1. PICK j \in 1 .. Len(b) : k = Len(a) + j
        BY <3>2
      <4>2. z[k] = Wire[c[k].type][c[k].value] /\ c[k] = b[j]
        BY <1>2, <2>3, <4>1
      <4>3. (x \o y)[k] = Wire[b[j].type][b[j].value]
        BY <2>3, <2>4, <4>1
      <4>4. QED
        BY <4>2, <4>3
    <3>3. QED
      BY <1>3, <3>1, <3>2
  <2>6. z = x \o y
    BY <1>2, <2>2, <2>4, <2>5, SeqEqual
  <2>7. QED
    BY <2>6 DEF x, y, z
<1>7. Flat(c) = Flat(a) \o Flat(b)
  <2>1. PiecesOf(a) \in Seq(Seq(Items)) /\ PiecesOf(b) \in Seq(Seq(Items))
    BY <1>5 DEF Wires
  <2>2. QED
    BY <1>6, <2>1, FlattenConcat DEF Flat
<1>8. QED
  BY <1>4, <1>5, <1>7 DEF c

\* One value writes its own items.
LEMMA FlatOne ==
  ASSUME NEW part, IsNode(part)
  PROVE  IsNodes(<< part >>) /\ Flat(<< part >>) = Wire[part.type][part.value]
<1>1. IsList(<< part >>) /\ DOMAIN << part >> = {1} /\ << part >>[1] = part
  BY DEF IsList, Range
<1>2. PiecesOf(<< part >>) = << Wire[part.type][part.value] >>
  BY DEF PiecesOf
<1>3. Wire[part.type][part.value] \in Seq(Items)
  BY WireTyped DEF IsNode, Wires
<1>4. Flat(<< part >>) = Wire[part.type][part.value]
  BY <1>2, <1>3, FlattenOne DEF Flat
<1>5. QED
  BY <1>1, <1>4 DEF IsNodes

\* No value writes nothing.
LEMMA FlatNone == IsNodes(<<>>) /\ Flat(<<>>) = <<>>
<1>1. PiecesOf(<<>>) = <<>>
  BY DEF PiecesOf
<1>2. QED
  BY <1>1, FlattenEmpty DEF Flat, IsNodes, IsList

\* A member appended to the second of two lists.
LEMMA ConcatAppend ==
  ASSUME NEW a, IsList(a), NEW b, IsList(b), NEW v
  PROVE  a \o Append(b, v) = Append(a \o b, v)
<1>1. PICK S : S = Range(a) \cup Range(b) \cup {v}
  OBVIOUS
<1>2. a \in Seq(S) /\ b \in Seq(S) /\ v \in S
  BY <1>1 DEF IsList
<1>3. << v >> \in Seq(S) /\ Append(b, v) = b \o << v >> /\ Append(a \o b, v) = (a \o b) \o << v >>
  BY <1>2
<1>4. PICK c : c = << v >>
  OBVIOUS
<1>5. (a \o b) \o c = a \o (b \o c)
  BY <1>2, <1>3, <1>4, ConcatAssociative
<1>6. QED
  BY <1>3, <1>4, <1>5

\* Items are joined in any order of joining,
LEMMA WiresAssociative ==
  ASSUME NEW a \in Wires, NEW b \in Wires, NEW c \in Wires
  PROVE  (a \o b) \o c = a \o (b \o c)
BY ConcatAssociative DEF Wires

\* and no items are neutral.
LEMMA WiresConcat ==
  ASSUME NEW a \in Wires, NEW b \in Wires
  PROVE  /\ a \o b \in Wires /\ <<>> \o a = a /\ a \o <<>> = a
         /\ \A c \in Wires : (a \o b) \o c = a \o (b \o c)
<1>1. a \o b \in Wires /\ <<>> \o a = a /\ a \o <<>> = a
  BY DEF Wires
<1>2. \A c \in Wires : (a \o b) \o c = a \o (b \o c)
  BY ConcatAssociative DEF Wires
<1>3. QED
  BY <1>1, <1>2

\* A call of decode_key() reads the items of one value.
LEMMA TypeIsNoCall ==
  \A type \in AllTypes : type.t # "prefix" /\ type.t # "build"
BY TypeIs DEF Plainly, StringType, RawType, U64Type, U32Type, UnitType

\* One more field writes its items after those of the fields before it.
LEMMA PairsGrow ==
  ASSUME NEW types, IsList(types), \A k \in DOMAIN types : types[k] \in AllTypes,
         NEW type \in AllTypes, NEW q \in Fields(types), NEW v \in ValuesOf[type]
  PROVE  /\ Flat(Pairs(types, q)) \in Wires /\ Wire[type][v] \in Wires
         /\ Flat(Pairs(Append(types, type), Append(q, v))) = Flat(Pairs(types, q)) \o Wire[type][v]
<1> DEFINE part == [type |-> type, value |-> v]
           p == Pairs(types, q)
           r == Pairs(Append(types, type), Append(q, v))
<1>1. IsNode(part) /\ part.type = type /\ part.value = v
  BY DEF IsNode
<1>2. IsNodes(p)
  BY NodesOfPairs DEF IsNodes
<1>3. r = p \o << part >>
  <2> DEFINE N == Len(types)
  <2>1. N \in Nat /\ DOMAIN types = 1 .. N /\ IsList(q) /\ Len(q) = N
    BY FieldsAre, ListIs
  <2>2. /\ DOMAIN Append(types, type) = 1 .. N + 1
        /\ \A k \in 1 .. N : Append(types, type)[k] = types[k]
        /\ Append(types, type)[N + 1] = type
    <3>1. PICK S : S = Range(types) \cup {type}
      OBVIOUS
    <3>2. types \in Seq(S) /\ type \in S
      BY <3>1 DEF IsList
    <3>3. QED
      BY <3>2
  <2>3. /\ \A k \in 1 .. N : Append(q, v)[k] = q[k]
        /\ Append(q, v)[N + 1] = v
    <3>1. PICK S : S = Range(q) \cup {v}
      OBVIOUS
    <3>2. q \in Seq(S) /\ v \in S
      BY <2>1, <3>1 DEF IsList
    <3>3. QED
      BY <2>1, <3>2
  <2> HIDE DEF N
  <2>4. r = [k \in 1 .. N + 1 |->
               [type |-> Append(types, type)[k], value |-> Append(q, v)[k]]]
    BY <2>2 DEF Pairs
  <2>5. p = [k \in 1 .. N |-> [type |-> types[k], value |-> q[k]]]
    BY <2>1 DEF Pairs
  <2>6. IsList(p) /\ Len(p) = N
    BY <1>2, <2>1, PairsAre DEF IsNodes, N
  <2>7. p \o << part >> = Append(p, part)
    BY <2>6, ListAppend
  <2>8. /\ IsList(p \o << part >>) /\ Len(p \o << part >>) = N + 1
        /\ \A k \in 1 .. N : (p \o << part >>)[k] = p[k]
        /\ (p \o << part >>)[N + 1] = part
    <3>1. PICK S : S = Range(p) \cup {part}
      OBVIOUS
    <3>2. p \in Seq(S) /\ part \in S
      BY <2>6, <3>1 DEF IsList
    <3> HIDE DEF p, part
    <3>3. /\ Len(p \o << part >>) = N + 1
          /\ \A k \in 1 .. N : (p \o << part >>)[k] = p[k]
          /\ (p \o << part >>)[N + 1] = part
      BY <2>1, <2>6, <3>2
    <3>4. IsList(p \o << part >>)
      BY <2>6, <2>7, ListAppend
    <3>5. QED
      BY <3>3, <3>4
  <2> DEFINE u == p \o << part >>
  <2>9. u = [k \in 1 .. N + 1 |-> u[k]]
    <3> HIDE DEF u
    <3>1. IsList(u) /\ Len(u) = N + 1
      BY <2>8 DEF u
    <3>2. QED
      BY <2>1, <3>1 DEF IsList
  <2>10. \A k \in 1 .. N + 1 : u[k] = [type |-> Append(types, type)[k], value |-> Append(q, v)[k]]
    <3>1. ASSUME NEW k \in 1 .. N
          PROVE  u[k] = [type |-> Append(types, type)[k], value |-> Append(q, v)[k]]
      BY <2>2, <2>3, <2>5, <2>8
    <3>2. u[N + 1] = [type |-> Append(types, type)[N + 1], value |-> Append(q, v)[N + 1]]
      BY <2>2, <2>3, <2>8
    <3>3. \A k \in 1 .. N + 1 : k \in 1 .. N \/ k = N + 1
      BY <2>1
    <3>4. QED
      BY <3>1, <3>2, <3>3
  <2> HIDE DEF u, r
  <2>11. r = u
    BY <2>4, <2>9, <2>10
  <2>12. QED
    BY <2>11 DEF u
<1> HIDE DEF part, p, r
<1>4. IsNodes(<< part >>) /\ Flat(<< part >>) = Wire[type][v]
  BY <1>1, FlatOne
<1>5. Flat(p) \in Wires /\ Flat(<< part >>) \in Wires /\ Flat(p \o << part >>) = Flat(p) \o Flat(<< part >>)
  BY <1>2, <1>4, FlatConcat
<1>6. QED
  BY <1>3, <1>4, <1>5 DEF p, r

\* The calls for a list of fields read a list of values.
ReadsFields(first, types) ==
  \A x, y : Path(first, types, x, y) <=>
    /\ IsState(x) /\ IsState(y)
    /\ \E q \in Fields(types) :
         y.got = x.got \o q /\ x.items = Flat(Pairs(types, q)) \o y.items

\* A struct without fields reads nothing,
LEMMA ReadsNoFields ==
  ASSUME NEW first
  PROVE  ReadsFields(first, <<>>)
<1>1. \A q : q \in Fields(<<>>) <=> q = <<>>
  <2>1. IsList(<<>>) /\ Len(<<>>) = 0 /\ DOMAIN <<>> = {}
    BY PathNone
  <2>2. \A q : IsList(q) /\ Len(q) = 0 => q = <<>>
    BY DEF IsList
  <2>3. QED
    BY <2>1, <2>2, FieldsAre
<1>2. Flat(Pairs(<<>>, <<>>)) = <<>>
  <2>1. Pairs(<<>>, <<>>) = <<>>
    BY DEF Pairs
  <2>2. QED
    BY <2>1, FlatNone
<1>3. ASSUME NEW x, NEW y, IsState(x), IsState(y)
      PROVE  x = y <=> y.got = x.got \o <<>> /\ x.items = <<>> \o y.items
  <2>1. x.got \o <<>> = x.got
    BY <1>3 DEF IsState, IsList
  <2>2. <<>> \o y.items = y.items
    BY <1>3, WiresConcat DEF IsState
  <2>3. x = y <=> y.got = x.got /\ x.items = y.items
    BY <1>3 DEF IsState, State
  <2>4. QED
    BY <2>1, <2>2, <2>3
<1>4. ASSUME NEW x, NEW y
      PROVE  Path(first, <<>>, x, y) <=>
               /\ IsState(x) /\ IsState(y)
               /\ \E q \in Fields(<<>>) :
                    y.got = x.got \o q /\ x.items = Flat(Pairs(<<>>, q)) \o y.items
  <2>1. Path(first, <<>>, x, y) <=> x = y /\ IsState(x)
    BY PathNone
  <2>2. (\E q \in Fields(<<>>) : y.got = x.got \o q /\ x.items = Flat(Pairs(<<>>, q)) \o y.items)
          <=> y.got = x.got \o <<>> /\ x.items = <<>> \o y.items
    BY <1>1, <1>2
  <2>3. QED
    BY <1>3, <2>1, <2>2
<1>5. QED
  BY <1>4 DEF ReadsFields

\* and one more field reads on where the others stop.
LEMMA ReadsMoreFields ==
  ASSUME NEW first, NEW types, IsList(types), \A k \in DOMAIN types : types[k] \in AllTypes,
         NEW type \in AllTypes, ReadsFields(first, types)
  PROVE  ReadsFields(first, Append(types, type))
<1> DEFINE more == Append(types, type)
<1>1. more = types \o << type >> /\ IsList(<< type >>)
  BY ListAppend, PathOne
<1>2. \A x, y : Path(first, more, x, y)
        <=> \E z : Path(first, types, x, z) /\ Path(first, << type >>, z, y)
  BY <1>1, PathConcat
<1>3. \A x, y : Path(first, << type >>, x, y)
        <=> IsState(x) /\ IsState(y) /\ Step(first, type, x, y)
  BY PathOne
<1>4. ASSUME NEW x, NEW y, Path(first, more, x, y)
      PROVE  /\ IsState(x) /\ IsState(y)
             /\ \E q \in Fields(more) :
                  y.got = x.got \o q /\ x.items = Flat(Pairs(more, q)) \o y.items
  <2>1. PICK z : Path(first, types, x, z) /\ IsState(z) /\ IsState(y) /\ Step(first, type, z, y)
    BY <1>2, <1>3, <1>4
  <2>2. PICK v \in ValuesOf[type] : y.got = Append(z.got, v) /\ z.items = Wire[type][v] \o y.items
    <3>1. \E v \in ValuesOf[type] : y.got = Append(z.got, v) /\ z.items = Wire[type][v] \o y.items
      BY <2>1, TypeIsNoCall DEF Step
    <3>2. QED
      BY <3>1
  <2>3. IsState(x) /\ \E q \in Fields(types) :
          z.got = x.got \o q /\ x.items = Flat(Pairs(types, q)) \o z.items
    BY <2>1 DEF ReadsFields
  <2>4. PICK q \in Fields(types) : z.got = x.got \o q /\ x.items = Flat(Pairs(types, q)) \o z.items
    BY <2>3
  <2>5. Append(q, v) \in Fields(more)
    BY FieldsGrow
  <2>6. y.got = x.got \o Append(q, v)
    <3>1. IsList(q) /\ IsList(x.got)
      BY <2>3, FieldsAre DEF IsState
    <3>2. x.got \o Append(q, v) = Append(x.got \o q, v)
      <4>1. PICK g : g = x.got
        OBVIOUS
      <4>2. IsList(g)
        BY <3>1, <4>1
      <4>3. g \o Append(q, v) = Append(g \o q, v)
        BY <3>1, <4>2, ConcatAppend
      <4>4. QED
        BY <4>1, <4>3
    <3>3. QED
      BY <2>2, <2>4, <3>2, Zenon
  <2>7. x.items = Flat(Pairs(more, Append(q, v))) \o y.items
    <3>1. y.items \in Wires
      BY <2>1 DEF IsState
    <3>2. /\ Flat(Pairs(types, q)) \in Wires /\ Wire[type][v] \in Wires
          /\ Flat(Pairs(more, Append(q, v))) = Flat(Pairs(types, q)) \o Wire[type][v]
      BY PairsGrow
    <3>3. (Flat(Pairs(types, q)) \o Wire[type][v]) \o y.items
            = Flat(Pairs(types, q)) \o (Wire[type][v] \o y.items)
      BY <3>1, <3>2, WiresAssociative
    <3>4. QED
      BY <2>2, <2>4, <3>2, <3>3, Zenon
  <2>8. QED
    BY <2>1, <2>3, <2>5, <2>6, <2>7
<1>5. ASSUME NEW x, NEW y, IsState(x), IsState(y), NEW r \in Fields(more),
             y.got = x.got \o r, x.items = Flat(Pairs(more, r)) \o y.items
      PROVE  Path(first, more, x, y)
  <2>1. PICK q \in Fields(types) : \E v \in ValuesOf[type] : r = Append(q, v)
    BY FieldsGrow
  <2>2. PICK v \in ValuesOf[type] : r = Append(q, v)
    BY <2>1
  <2> DEFINE z == State(x.got \o q, Wire[type][v] \o y.items)
  <2>3. IsList(q) /\ IsList(x.got) /\ x.items \in Wires /\ y.items \in Wires
    BY <1>5, FieldsAre DEF IsState
  <2>4. z.got = x.got \o q /\ z.items = Wire[type][v] \o y.items /\ z = State(z.got, z.items)
    BY DEF State
  <2> HIDE DEF z
  <2>5. Flat(Pairs(types, q)) \in Wires /\ Wire[type][v] \in Wires
    BY PairsGrow
  <2>6. IsState(z)
    <3>1. IsList(x.got \o q)
      BY <2>3, ListConcat, Zenon
    <3>2. Wire[type][v] \o y.items \in Wires
      BY <2>3, <2>5, WiresConcat, Zenon
    <3>3. QED
      BY <2>4, <3>1, <3>2, Zenon DEF IsState
  <2>7. x.items = Flat(Pairs(types, q)) \o z.items
    <3>1. Flat(Pairs(more, r)) = Flat(Pairs(types, q)) \o Wire[type][v]
      BY <2>2, PairsGrow
    <3>2. (Flat(Pairs(types, q)) \o Wire[type][v]) \o y.items
            = Flat(Pairs(types, q)) \o (Wire[type][v] \o y.items)
      BY <2>3, <2>5, WiresAssociative, ZenonT(60)
    <3>3. QED
      BY <1>5, <2>4, <3>1, <3>2, Zenon
  <2>8. Path(first, types, x, z)
    BY <1>5, <2>4, <2>6, <2>7, Zenon DEF ReadsFields
  <2>9. y.got = Append(z.got, v)
    <3>1. x.got \o Append(q, v) = Append(x.got \o q, v)
      <4>1. PICK g : g = x.got
        OBVIOUS
      <4>2. IsList(g)
        BY <2>3, <4>1
      <4>3. g \o Append(q, v) = Append(g \o q, v)
        BY <2>3, <4>2, ConcatAppend, SMTT(30)
      <4>4. QED
        BY <4>1, <4>3
    <3>2. QED
      BY <1>5, <2>2, <2>4, <3>1, Zenon
  <2>10. Step(first, type, z, y)
    BY <2>4, <2>9, TypeIsNoCall DEF Step
  <2>11. QED
    BY <1>2, <1>3, <1>5, <2>6, <2>8, <2>10
<1>6. QED
  BY <1>4, <1>5 DEF ReadsFields

\* The same, for every list of types.
LEMMA ReadsEveryList ==
  ASSUME NEW first, NEW types, IsList(types), \A k \in DOMAIN types : types[k] \in AllTypes
  PROVE  ReadsFields(first, types)
<1> DEFINE N == Len(types)
           part(n) == SubSeq(types, 1, n)
           P(n) == ReadsFields(first, part(n))
<1>1. PICK S : S = Range(types)
  OBVIOUS
<1>2. types \in Seq(S) /\ N \in Nat /\ DOMAIN types = 1 .. N
  BY <1>1, ListIs DEF IsList
<1>3. \A r \in Seq(S) : r \in Seq(Range(r))
  BY DEF Range
<1>4. ASSUME NEW n \in 0 .. N
      PROVE  /\ IsList(part(n)) /\ Len(part(n)) = n
             /\ \A k \in 1 .. n : part(n)[k] = types[k]
  <2>1. n \in Nat /\ 1 \in Int /\ n \in Int /\ \A k \in 1 .. n : types[k] \in S
    BY <1>2
  <2>2. /\ SubSeq(types, 1, n) \in Seq(S)
        /\ Len(SubSeq(types, 1, n)) = (IF 1 <= n THEN n - 1 + 1 ELSE 0)
        /\ \A k \in 1 .. n - 1 + 1 : SubSeq(types, 1, n)[k] = types[1 + k - 1]
    BY <2>1, SubSeqProperties
  <2>3. \A k \in 1 .. n : k \in 1 .. n - 1 + 1 /\ 1 + k - 1 = k
    BY <2>1
  <2>4. Len(SubSeq(types, 1, n)) = n
    BY <2>1, <2>2
  <2>5. \A k \in 1 .. n : SubSeq(types, 1, n)[k] = types[k]
    BY <2>2, <2>3
  <2>6. IsList(SubSeq(types, 1, n))
    BY <1>3, <2>2 DEF IsList
  <2>7. QED
    BY <2>4, <2>5, <2>6
<1> HIDE DEF part
<1>5. P(0)
  <2>1. IsList(part(0)) /\ Len(part(0)) = 0
    BY <1>2, <1>4
  <2>2. part(0) = <<>>
    BY <2>1 DEF IsList
  <2>3. QED
    BY <2>2, ReadsNoFields
<1>6. ASSUME NEW n \in 0 .. N - 1, P(n)
      PROVE  P(n + 1)
  <2>1. n \in 0 .. N /\ n + 1 \in 0 .. N /\ n + 1 \in DOMAIN types /\ n \in Nat
    BY <1>2
  <2>2. /\ IsList(part(n)) /\ Len(part(n)) = n /\ \A k \in 1 .. n : part(n)[k] = types[k]
    BY <1>4, <2>1
  <2>3. /\ IsList(part(n + 1)) /\ Len(part(n + 1)) = n + 1 /\ \A k \in 1 .. n + 1 : part(n + 1)[k] = types[k]
    BY <1>4, <2>1
  <2>4. part(n + 1) = Append(part(n), types[n + 1])
    <3> DEFINE r == part(n + 1)
               q == part(n)
    <3>1. r # <<>> /\ Len(r) - 1 = n
      BY <2>1, <2>3
    <3>2. /\ IsList(SubSeq(r, 1, n)) /\ Len(SubSeq(r, 1, n)) = n
          /\ \A k \in 1 .. n : SubSeq(r, 1, n)[k] = r[k]
          /\ r = Append(SubSeq(r, 1, n), r[n + 1])
      BY <2>1, <2>3, <3>1, ListLast
    <3>3. \A k \in 1 .. n : k \in 1 .. n + 1
      BY <2>1
    <3>4. \A k \in 1 .. n : SubSeq(r, 1, n)[k] = q[k]
      BY <2>2, <2>3, <3>2, <3>3
    <3>5. n + 1 \in 1 .. n + 1
      BY <2>1
    <3>6. r[n + 1] = types[n + 1]
      BY <2>3, <3>5
    <3> HIDE DEF r, q
    <3>7. IsList(q) /\ Len(q) = n
      BY <2>2 DEF q
    <3>8. SubSeq(r, 1, n) = q
      BY <3>2, <3>4, <3>7, SeqEqual DEF IsList
    <3>9. QED
      BY <3>2, <3>6, <3>8 DEF r, q
  <2>5. \A k \in DOMAIN part(n) : part(n)[k] \in AllTypes
    <3>1. DOMAIN part(n) = 1 .. n
      BY <2>2, ListIs
    <3>2. QED
      BY <1>2, <2>1, <2>2, <3>1
  <2>6. ReadsFields(first, Append(part(n), types[n + 1]))
    BY <1>6, <2>1, <2>2, <2>5, ReadsMoreFields
  <2>7. QED
    BY <2>4, <2>6
<1>7. \A n \in 0 .. N : P(n)
  <2> DEFINE T == {n \in 0 .. N : P(n)}
  <2>1. 0 \in 0 .. N /\ \A n \in 0 .. N - 1 : n \in 0 .. N /\ n + 1 \in 0 .. N
    BY <1>2
  <2>2. \A n : n \in T <=> n \in 0 .. N /\ P(n)
    OBVIOUS
  <2> HIDE DEF P, T
  <2>3. 0 \in T /\ \A n \in 0 .. N - 1 : n \in T => n + 1 \in T
    BY <1>5, <1>6, <2>1, <2>2
  <2>4. \A n \in 0 .. N : n \in T
    BY <1>2, <2>3, Induction
  <2>5. QED
    BY <2>2, <2>4
<1>8. part(N) = types
  <2> DEFINE q == part(N)
  <2>1. N \in 0 .. N
    BY <1>2
  <2>2. IsList(q) /\ Len(q) = N /\ \A k \in 1 .. N : q[k] = types[k]
    BY <1>4, <2>1
  <2> HIDE DEF q
  <2>3. q = types
    BY <2>2, SeqEqual DEF IsList
  <2>4. QED
    BY <2>3 DEF q
<1>9. QED
  BY <1>2, <1>7, <1>8

(***************************************************************************)
(* The calls read exactly the items, and leave the values h.               *)
(***************************************************************************)
Reads(first, calls, g, items, h) == Path(first, calls, State(g, items), State(h, <<>>))

\* The fields of a state.
LEMMA States ==
  ASSUME NEW g, NEW items
  PROVE  /\ State(g, items).got = g /\ State(g, items).items = items
         /\ IsState(State(g, items)) <=> IsList(g) /\ items \in Wires
         /\ \A h, more : State(g, items) = State(h, more) <=> g = h /\ items = more
         /\ \A x : IsState(x) => x = State(x.got, x.items) /\ IsList(x.got) /\ x.items \in Wires
<1>1. State(g, items).got = g /\ State(g, items).items = items
  BY DEF State
<1>2. IsState(State(g, items)) <=> IsList(g) /\ items \in Wires
  BY <1>1 DEF IsState
<1>3. \A h, more : State(g, items) = State(h, more) <=> g = h /\ items = more
  BY DEF State
<1>4. QED
  BY <1>1, <1>2, <1>3 DEF IsState

\* Only lists of values and of items are read.
LEMMA ReadsEnds ==
  ASSUME NEW first, NEW calls, IsList(calls), NEW g, NEW items, NEW h, Reads(first, calls, g, items, h)
  PROVE  IsList(g) /\ items \in Wires /\ IsList(h)
<1>1. IsState(State(g, items)) /\ IsState(State(h, <<>>))
  BY PathEnds DEF Reads
<1>2. QED
  BY <1>1, States

\* No call reads no item.
LEMMA ReadsNone ==
  ASSUME NEW first, NEW g, NEW items, NEW h
  PROVE  Reads(first, <<>>, g, items, h) <=> IsList(g) /\ g = h /\ items = <<>>
<1>1. Reads(first, <<>>, g, items, h) <=> State(g, items) = State(h, <<>>) /\ IsState(State(g, items))
  BY PathNone DEF Reads
<1>2. <<>> \in Wires
  BY DEF Wires
<1>3. QED
  BY <1>1, <1>2, States

\* The item of the prefix, and what rest reads.
TakesPrefix(first, rest, g, items, h) ==
  \E more \in Wires : items = << first >> \o more /\ Reads(first, rest, g, more, h)

\* The call for the prefix takes one item.
LEMMA ReadsPrefix ==
  ASSUME NEW first, NEW rest, IsList(rest), NEW call, call.t = "prefix",
         NEW g, IsList(g), NEW items, NEW h
  PROVE  /\ IsList(<< call >> \o rest)
         /\ Reads(first, << call >> \o rest, g, items, h)
              <=> items \in Wires /\ TakesPrefix(first, rest, g, items, h)
<1> DEFINE x == State(g, items)
           y == State(h, <<>>)
<1>1. /\ IsList(<< call >> \o rest)
      /\ Path(first, << call >> \o rest, x, y)
           <=> \E z : IsState(x) /\ IsState(z) /\ Step(first, call, x, z) /\ Path(first, rest, z, y)
  BY PathCons
<1>2. \A z : Step(first, call, x, z) <=> z.got = g /\ items = << first >> \o z.items
  BY States DEF Step
<1>3. IsState(x) <=> items \in Wires
  BY States
<1> HIDE DEF x, y
<1>4. ASSUME NEW z, IsState(x), IsState(z), Step(first, call, x, z), Path(first, rest, z, y)
      PROVE  \E more \in Wires : items = << first >> \o more /\ Path(first, rest, State(g, more), y)
  <2>1. z = State(z.got, z.items) /\ z.items \in Wires
    BY <1>4, States
  <2>2. z.got = g /\ items = << first >> \o z.items
    BY <1>2, <1>4
  <2>3. z = State(g, z.items)
    BY <2>1, <2>2
  <2>4. QED
    BY <1>4, <2>1, <2>2, <2>3
<1>5. ASSUME NEW more \in Wires, items \in Wires, items = << first >> \o more, Path(first, rest, State(g, more), y)
      PROVE  \E z : IsState(x) /\ IsState(z) /\ Step(first, call, x, z) /\ Path(first, rest, z, y)
  <2>1. PICK z : z = State(g, more)
    OBVIOUS
  <2>2. IsState(z) /\ z.got = g /\ z.items = more
    BY <2>1, States
  <2>3. Step(first, call, x, z)
    BY <1>2, <1>5, <2>2
  <2>4. QED
    BY <1>3, <1>5, <2>1, <2>2, <2>3
<1>6. Path(first, << call >> \o rest, x, y)
        <=> items \in Wires /\ \E more \in Wires : items = << first >> \o more /\ Path(first, rest, State(g, more), y)
  BY <1>1, <1>3, <1>4, <1>5
<1>7. QED
  BY <1>1, <1>6 DEF Reads, TakesPrefix, x, y

\* The constructor takes none.
LEMMA ReadsBuild ==
  ASSUME NEW first, NEW rest, IsList(rest), NEW call, call.t = "build",
         NEW g, IsList(g), NEW items, NEW h
  PROVE  /\ IsList(<< call >> \o rest)
         /\ Reads(first, << call >> \o rest, g, items, h) <=> Reads(first, rest, Built(call, g), items, h)
<1> DEFINE x == State(g, items)
           y == State(h, <<>>)
           z == State(Built(call, g), items)
<1>1. /\ IsList(<< call >> \o rest)
      /\ Path(first, << call >> \o rest, x, y)
           <=> \E u : IsState(x) /\ IsState(u) /\ Step(first, call, x, u) /\ Path(first, rest, u, y)
  BY PathCons
<1>2. \A u : Step(first, call, x, u) <=> u.got = Built(call, g) /\ u.items = items
  BY States DEF Step
<1>3. IsState(x) <=> items \in Wires
  BY States
<1>4. IsState(z) => items \in Wires
  BY States
<1>5. z.got = Built(call, g) /\ z.items = items
  BY States
<1>6. \A u : IsState(u) /\ u.got = Built(call, g) /\ u.items = items => u = z
  BY States
<1> HIDE DEF x, y, z
<1>7. Path(first, rest, z, y) => IsState(z)
  BY PathEnds
<1>8. Path(first, << call >> \o rest, x, y) <=> Path(first, rest, z, y)
  BY <1>1, <1>2, <1>3, <1>4, <1>5, <1>6, <1>7
<1>9. QED
  BY <1>1, <1>8 DEF Reads, x, y, z

\* A call for a type takes the items of one value.
LEMMA ReadsType ==
  ASSUME NEW first, NEW rest, IsList(rest), NEW type \in AllTypes,
         NEW g, IsList(g), NEW items, NEW h
  PROVE  /\ IsList(<< type >> \o rest)
         /\ Reads(first, << type >> \o rest, g, items, h)
              <=> \E v \in ValuesOf[type] : \E more \in Wires :
                    items = Wire[type][v] \o more /\ Reads(first, rest, Append(g, v), more, h)
<1> DEFINE x == State(g, items)
           y == State(h, <<>>)
<1>1. /\ IsList(<< type >> \o rest)
      /\ Path(first, << type >> \o rest, x, y)
           <=> \E z : IsState(x) /\ IsState(z) /\ Step(first, type, x, z) /\ Path(first, rest, z, y)
  BY PathCons
<1>2. \A z : Step(first, type, x, z) <=>
        \E v \in ValuesOf[type] : z.got = Append(g, v) /\ items = Wire[type][v] \o z.items
  <2>1. x.got = g /\ x.items = items
    BY States
  <2> HIDE DEF x
  <2>2. QED
    BY <2>1, TypeIsNoCall DEF Step
<1>3. IsState(x) <=> items \in Wires
  BY States
<1> HIDE DEF x, y
<1>4. ASSUME NEW z, IsState(x), IsState(z), Step(first, type, x, z), Path(first, rest, z, y)
      PROVE  \E v \in ValuesOf[type] : \E more \in Wires :
               items = Wire[type][v] \o more /\ Path(first, rest, State(Append(g, v), more), y)
  <2>1. z = State(z.got, z.items) /\ z.items \in Wires
    BY <1>4, States
  <2>2. PICK v \in ValuesOf[type] : z.got = Append(g, v) /\ items = Wire[type][v] \o z.items
    BY <1>2, <1>4
  <2>3. z = State(Append(g, v), z.items)
    BY <2>1, <2>2
  <2>4. QED
    BY <1>4, <2>1, <2>2, <2>3
<1>5. ASSUME NEW v \in ValuesOf[type], NEW more \in Wires, items = Wire[type][v] \o more,
             Path(first, rest, State(Append(g, v), more), y)
      PROVE  \E z : IsState(x) /\ IsState(z) /\ Step(first, type, x, z) /\ Path(first, rest, z, y)
  <2>1. PICK z : z = State(Append(g, v), more)
    OBVIOUS
  <2>2. IsList(Append(g, v))
    BY ListAppend
  <2>3. IsState(z) /\ z.got = Append(g, v) /\ z.items = more
    BY <2>1, <2>2, States
  <2>4. Step(first, type, x, z)
    BY <1>2, <1>5, <2>3
  <2>5. items \in Wires
    BY <1>5, WireTyped, WiresConcat
  <2>6. QED
    BY <1>3, <1>5, <2>1, <2>3, <2>4, <2>5
<1>6. Path(first, << type >> \o rest, x, y)
        <=> \E v \in ValuesOf[type] : \E more \in Wires :
              items = Wire[type][v] \o more /\ Path(first, rest, State(Append(g, v), more), y)
  BY <1>1, <1>4, <1>5
<1>7. QED
  BY <1>1, <1>6 DEF Reads, x, y

\* The items of values of the types, in the order of the list, then what rest reads.
TakesFields(first, rest, types, g, items, h) ==
  \E q \in Fields(types) : \E more \in Wires :
    items = Flat(Pairs(types, q)) \o more /\ Reads(first, rest, g \o q, more, h)

\* The calls for fields take the items of all of them.
LEMMA ReadsList ==
  ASSUME NEW first, NEW rest, IsList(rest), NEW types, IsList(types),
         \A k \in DOMAIN types : types[k] \in AllTypes,
         NEW g, IsList(g), NEW items, NEW h
  PROVE  /\ IsList(types \o rest)
         /\ Reads(first, types \o rest, g, items, h) <=> TakesFields(first, rest, types, g, items, h)
<1> DEFINE x == State(g, items)
           y == State(h, <<>>)
<1>1. /\ IsList(types \o rest)
      /\ Path(first, types \o rest, x, y)
           <=> \E z : Path(first, types, x, z) /\ Path(first, rest, z, y)
  BY PathConcat
<1>2. \A z : Path(first, types, x, z) <=>
        /\ IsState(x) /\ IsState(z)
        /\ \E q \in Fields(types) : z.got = g \o q /\ items = Flat(Pairs(types, q)) \o z.items
  <2>1. x.got = g /\ x.items = items
    BY States
  <2> HIDE DEF x
  <2>2. ReadsFields(first, types)
    BY ReadsEveryList
  <2>3. QED
    BY <2>1, <2>2 DEF ReadsFields
<1>3. IsState(x) <=> items \in Wires
  BY States
<1> HIDE DEF x, y
<1>4. ASSUME NEW z, Path(first, types, x, z), Path(first, rest, z, y)
      PROVE  \E q \in Fields(types) : \E more \in Wires :
               items = Flat(Pairs(types, q)) \o more /\ Path(first, rest, State(g \o q, more), y)
  <2>1. z = State(z.got, z.items) /\ z.items \in Wires
    BY <1>2, <1>4, States
  <2>2. PICK q \in Fields(types) : z.got = g \o q /\ items = Flat(Pairs(types, q)) \o z.items
    BY <1>2, <1>4
  <2>3. z = State(g \o q, z.items)
    BY <2>1, <2>2
  <2>4. QED
    BY <1>4, <2>1, <2>2, <2>3
<1>5. ASSUME NEW q \in Fields(types), NEW more \in Wires, items = Flat(Pairs(types, q)) \o more,
             Path(first, rest, State(g \o q, more), y)
      PROVE  \E z : Path(first, types, x, z) /\ Path(first, rest, z, y)
  <2>1. PICK z : z = State(g \o q, more)
    OBVIOUS
  <2>2. IsList(g \o q)
    BY FieldsAre, ListConcat
  <2>3. IsState(z) /\ z.got = g \o q /\ z.items = more
    BY <2>1, <2>2, States
  <2>4. Flat(Pairs(types, q)) \in Wires
    BY NodesOfPairs, FlatConcat DEF IsNodes
  <2>5. items \in Wires
    BY <1>5, <2>4, WiresConcat
  <2>6. Path(first, types, x, z)
    BY <1>2, <1>3, <1>5, <2>3, <2>5
  <2>7. QED
    BY <1>5, <2>1, <2>6
<1>6. Path(first, types \o rest, x, y)
        <=> \E q \in Fields(types) : \E more \in Wires :
              items = Flat(Pairs(types, q)) \o more /\ Path(first, rest, State(g \o q, more), y)
  BY <1>1, <1>4, <1>5
<1>7. QED
  BY <1>1, <1>6 DEF Reads, TakesFields, x, y

\* The constructor of a struct or a variant takes the last values.
LEMMA BuiltFrom ==
  ASSUME NEW g, IsList(g), NEW q, IsList(q), NEW call, call.arity = Len(q)
  PROVE  Built(call, g \o q) =
           Append(g, IF call.of = "struct" THEN Struct(q) ELSE Variant(call.which, q))
<1>1. PICK S : S = Range(g) \cup Range(q)
  OBVIOUS
<1>2. g \in Seq(S) /\ q \in Seq(S)
  BY <1>1 DEF IsList
<1> DEFINE c == g \o q
<1>3. c \in Seq(S) /\ Len(c) = Len(g) + Len(q) /\ Len(g) \in Nat /\ Len(q) \in Nat
  BY <1>2
<1>4. \A k \in 1 .. Len(g) : c[k] = g[k]
  BY <1>2
<1>5. \A k \in 1 .. Len(q) : c[Len(g) + k] = q[k]
  BY <1>2
<1> HIDE DEF c
<1>6. Len(c) - Len(q) + 1 = Len(g) + 1 /\ Len(c) - Len(q) = Len(g)
  BY <1>3
<1>7. SubSeq(c, 1, Len(g)) = g
  <2> DEFINE n == Len(g)
  <2>1. n \in Nat /\ 1 \in Int /\ n \in Int /\ \A k \in 1 .. n : c[k] \in S
    BY <1>2, <1>3, <1>4
  <2>2. /\ SubSeq(c, 1, n) \in Seq(S)
        /\ Len(SubSeq(c, 1, n)) = (IF 1 <= n THEN n - 1 + 1 ELSE 0)
        /\ \A k \in 1 .. n - 1 + 1 : SubSeq(c, 1, n)[k] = c[1 + k - 1]
    BY <2>1, SubSeqProperties
  <2>3. \A k \in 1 .. n : k \in 1 .. n - 1 + 1 /\ 1 + k - 1 = k
    BY <2>1
  <2>4. Len(SubSeq(c, 1, n)) = n
    BY <2>1, <2>2
  <2>5. \A k \in 1 .. n : SubSeq(c, 1, n)[k] = g[k]
    BY <1>4, <2>2, <2>3
  <2>6. QED
    BY <1>2, <2>2, <2>4, <2>5, SeqEqual
<1>8. SubSeq(c, Len(g) + 1, Len(c)) = q
  <2> DEFINE n == Len(g)
             m == Len(q)
  <2>1. n \in Nat /\ m \in Nat /\ Len(c) = n + m
    BY <1>3
  <2>2. n + 1 \in Int /\ n + m \in Int /\ \A k \in n + 1 .. n + m : c[k] \in S
    BY <1>3
  <2>3. /\ SubSeq(c, n + 1, n + m) \in Seq(S)
        /\ Len(SubSeq(c, n + 1, n + m)) = (IF n + 1 <= n + m THEN n + m - (n + 1) + 1 ELSE 0)
        /\ \A k \in 1 .. n + m - (n + 1) + 1 : SubSeq(c, n + 1, n + m)[k] = c[n + 1 + k - 1]
    <3>1. PICK a, b : a = n + 1 /\ b = n + m
      OBVIOUS
    <3>2. a \in Int /\ b \in Int /\ \A k \in a .. b : c[k] \in S
      BY <2>2, <3>1
    <3>3. /\ SubSeq(c, a, b) \in Seq(S)
          /\ Len(SubSeq(c, a, b)) = (IF a <= b THEN b - a + 1 ELSE 0)
          /\ \A k \in 1 .. b - a + 1 : SubSeq(c, a, b)[k] = c[a + k - 1]
      BY <3>2, SubSeqProperties
    <3>4. QED
      BY <3>1, <3>3
  <2>4. \A k \in 1 .. m : k \in 1 .. n + m - (n + 1) + 1 /\ n + 1 + k - 1 = n + k
    BY <2>1
  <2>5. Len(SubSeq(c, n + 1, n + m)) = m
    BY <2>1, <2>3
  <2>6. \A k \in 1 .. m : SubSeq(c, n + 1, n + m)[k] = q[k]
    BY <1>5, <2>3, <2>4
  <2>7. QED
    BY <1>2, <2>1, <2>3, <2>5, <2>6, SeqEqual
<1>9. Built(call, c) = Append(g, IF call.of = "struct" THEN Struct(q) ELSE Variant(call.which, q))
  BY <1>6, <1>7, <1>8 DEF Built
<1>10. QED
  BY <1>9 DEF c

\* Lists may be joined in any order.
LEMMA ListAssociative ==
  ASSUME NEW a, IsList(a), NEW b, IsList(b), NEW c, IsList(c)
  PROVE  (a \o b) \o c = a \o (b \o c)
<1>1. PICK S : S = Range(a) \cup Range(b) \cup Range(c)
  OBVIOUS
<1>2. a \in Seq(S) /\ b \in Seq(S) /\ c \in Seq(S)
  BY <1>1 DEF IsList
<1>3. QED
  BY <1>2, ConcatAssociative

\* The same, when rest starts with the constructor that takes the values.
MakesFields(first, rest, types, call, g, items, h) ==
  \E q \in Fields(types) : \E more \in Wires :
    /\ items = Flat(Pairs(types, q)) \o more
    /\ Reads(first, rest,
             Append(g, IF call.of = "struct" THEN Struct(q) ELSE Variant(call.which, q)),
             more, h)

\* The fields and the constructor, and what is left of the calls.
LEMMA ReadsFieldsOf ==
  ASSUME NEW first, NEW rest, IsList(rest), NEW types, IsList(types),
         \A k \in DOMAIN types : types[k] \in AllTypes,
         NEW call, call.t = "build", call.arity = Len(types),
         NEW g, IsList(g), NEW items, NEW h
  PROVE  /\ IsList(types \o << call >> \o rest)
         /\ Reads(first, types \o << call >> \o rest, g, items, h)
              <=> MakesFields(first, rest, types, call, g, items, h)
<1> DEFINE tail == << call >> \o rest
           Made(q) == IF call.of = "struct" THEN Struct(q) ELSE Variant(call.which, q)
<1>1. IsList(<< call >>) /\ IsList(tail)
  BY PathOne, PathConcat
<1>2. types \o << call >> \o rest = types \o tail
  BY <1>1, ListAssociative
<1>3. \A u, more : IsList(u) =>
        (Reads(first, tail, u, more, h) <=> Reads(first, rest, Built(call, u), more, h))
  BY ReadsBuild
<1> HIDE DEF tail
<1>4. /\ IsList(types \o tail)
      /\ Reads(first, types \o tail, g, items, h) <=> TakesFields(first, tail, types, g, items, h)
  BY <1>1, ReadsList
<1>5. ASSUME NEW q \in Fields(types), NEW more
      PROVE  Reads(first, tail, g \o q, more, h) <=> Reads(first, rest, Append(g, Made(q)), more, h)
  <2>1. IsList(q) /\ Len(q) = Len(types)
    BY FieldsAre
  <2>2. IsList(g \o q)
    BY <2>1, ListConcat
  <2>3. Built(call, g \o q) = Append(g, Made(q))
    BY <2>1, BuiltFrom
  <2>4. QED
    BY <1>3, <2>2, <2>3
<1> HIDE DEF Made
<1>6. Reads(first, types \o tail, g, items, h)
        <=> \E q \in Fields(types) : \E more \in Wires :
              items = Flat(Pairs(types, q)) \o more /\ Reads(first, rest, Append(g, Made(q)), more, h)
  BY <1>4, <1>5 DEF TakesFields
<1>7. QED
  BY <1>2, <1>4, <1>6 DEF MakesFields, Made

\* The call for a struct reads what its fields and its constructor read.
LEMMA ReadsStruct ==
  ASSUME NEW first, NEW rest, IsList(rest), NEW type \in AllTypes, type.t = "struct",
         NEW call, call.t = "build", call.of = "struct", call.arity = Len(type.fields),
         NEW g, IsList(g), NEW items, NEW h
  PROVE  /\ IsList(type.fields \o << call >> \o rest)
         /\ Reads(first, << type >> \o rest, g, items, h)
              <=> Reads(first, type.fields \o << call >> \o rest, g, items, h)
<1>1. IsList(type.fields) /\ \A v : v \in ValuesOf[type] <=> \E q \in Fields(type.fields) : v = Struct(q)
  BY StructValues
<1>2. PICK types : types = type.fields
  OBVIOUS
<1>3. IsList(types) /\ \A k \in DOMAIN types : types[k] \in AllTypes
  BY <1>1, <1>2, TypeIs, ComponentsAre
<1>4. /\ IsList(types \o << call >> \o rest)
      /\ Reads(first, types \o << call >> \o rest, g, items, h)
           <=> \E q \in Fields(types) : \E more \in Wires :
                 items = Flat(Pairs(types, q)) \o more /\ Reads(first, rest, Append(g, Struct(q)), more, h)
  <2>1. call.arity = Len(types)
    BY <1>2
  <2>2. /\ IsList(types \o << call >> \o rest)
        /\ Reads(first, types \o << call >> \o rest, g, items, h)
             <=> MakesFields(first, rest, types, call, g, items, h)
    BY <1>3, <2>1, ReadsFieldsOf
  <2>3. QED
    BY <2>2 DEF MakesFields
<1>5. Reads(first, << type >> \o rest, g, items, h)
        <=> \E v \in ValuesOf[type] : \E more \in Wires :
              items = Wire[type][v] \o more /\ Reads(first, rest, Append(g, v), more, h)
  BY ReadsType
<1>6. ASSUME NEW q \in Fields(types)
      PROVE  Struct(q) \in ValuesOf[type] /\ Wire[type][Struct(q)] = Flat(Pairs(types, q))
  <2>1. Struct(q) \in ValuesOf[type]
    BY <1>1, <1>2
  <2>2. Parts(type, Struct(q)) = Pairs(types, q)
    BY <1>2 DEF Parts, Struct
  <2>3. QED
    BY <2>1, <2>2, WireKinds
<1>7. \A v : v \in ValuesOf[type] <=> \E q \in Fields(types) : v = Struct(q)
  BY <1>1, <1>2
<1>8. (\E v \in ValuesOf[type] : \E more \in Wires :
         items = Wire[type][v] \o more /\ Reads(first, rest, Append(g, v), more, h))
      <=> \E q \in Fields(types) : \E more \in Wires :
            items = Flat(Pairs(types, q)) \o more /\ Reads(first, rest, Append(g, Struct(q)), more, h)
  <2>1. ASSUME NEW v \in ValuesOf[type], NEW more \in Wires, items = Wire[type][v] \o more,
               Reads(first, rest, Append(g, v), more, h)
        PROVE  \E q \in Fields(types) : \E z \in Wires :
                 items = Flat(Pairs(types, q)) \o z /\ Reads(first, rest, Append(g, Struct(q)), z, h)
    <3>1. PICK q \in Fields(types) : v = Struct(q)
      BY <1>7
    <3>2. items = Flat(Pairs(types, q)) \o more
      BY <1>6, <2>1, <3>1
    <3>3. Reads(first, rest, Append(g, Struct(q)), more, h)
      BY <2>1, <3>1
    <3>4. QED
      BY <3>2, <3>3
  <2>2. ASSUME NEW q \in Fields(types), NEW more \in Wires, items = Flat(Pairs(types, q)) \o more,
               Reads(first, rest, Append(g, Struct(q)), more, h)
        PROVE  \E v \in ValuesOf[type] : \E z \in Wires :
                 items = Wire[type][v] \o z /\ Reads(first, rest, Append(g, v), z, h)
    <3>1. PICK v : v = Struct(q)
      OBVIOUS
    <3>2. v \in ValuesOf[type] /\ Wire[type][v] = Flat(Pairs(types, q))
      BY <1>6, <3>1
    <3>3. QED
      BY <2>2, <3>1, <3>2
  <2>3. QED
    BY <2>1, <2>2
<1>9. QED
  BY <1>2, <1>4, <1>5, <1>8

\* What the call of a field without parts reads.
LEMMA ReadsLeaf ==
  ASSUME NEW first, NEW rest, IsList(rest), NEW type \in AllTypes, type \in Leaves,
         NEW g, IsList(g), NEW items, NEW h
  PROVE  /\ Reads(first, << type >> \o rest, g, items, h)
              <=> \E v \in ValuesOf[type] : \E more \in Wires :
                    items = << Item(FormOf[type.t], v) >> \o more /\ Reads(first, rest, Append(g, v), more, h)
         /\ \A v \in ValuesOf[type] : Item(FormOf[type.t], v) \in Items
<1>1. Reads(first, << type >> \o rest, g, items, h)
        <=> \E v \in ValuesOf[type] : \E more \in Wires :
              items = Wire[type][v] \o more /\ Reads(first, rest, Append(g, v), more, h)
  BY ReadsType
<1>2. \A v \in ValuesOf[type] : Wire[type][v] = << Item(FormOf[type.t], v) >>
  BY WireKinds
<1>3. \A v \in ValuesOf[type] : Item(FormOf[type.t], v) \in Items
  BY LeafItems
<1>4. QED
  BY <1>1, <1>2, <1>3

\* A unit field reads nothing.
LEMMA ReadsUnit ==
  ASSUME NEW first, NEW rest, IsList(rest), UnitType \in AllTypes,
         NEW g, IsList(g), NEW items, NEW h
  PROVE  Reads(first, << UnitType >> \o rest, g, items, h)
           <=> Reads(first, rest, Append(g, Unit), items, h)
<1>1. Reads(first, << UnitType >> \o rest, g, items, h)
        <=> \E v \in ValuesOf[UnitType] : \E more \in Wires :
              items = Wire[UnitType][v] \o more /\ Reads(first, rest, Append(g, v), more, h)
  BY ReadsType
<1>2. \A v : v \in ValuesOf[UnitType] <=> v = Unit
  BY LeafValues
<1>3. \A v \in ValuesOf[UnitType] : Wire[UnitType][v] = <<>>
  BY WireKinds, FlatNone
<1>4. \A more \in Wires : <<>> \o more = more
  BY DEF Wires
<1>5. Reads(first, rest, Append(g, Unit), items, h) => items \in Wires
  BY ReadsEnds
<1>6. QED
  BY <1>1, <1>2, <1>3, <1>4, <1>5

\* Wires with a first item.
LEMMA WireCons ==
  ASSUME NEW x \in Items, NEW a \in Wires
  PROVE  /\ << x >> \in Wires /\ << x >> \o a \in Wires
         /\ << x >> \o a # <<>> /\ (<< x >> \o a)[1] = x /\ Tail(<< x >> \o a) = a
         /\ Len(<< x >> \o a) = Len(a) + 1
BY DEF Wires

\* Equal sequences of items start with the same item.
LEMMA WireConsEqual ==
  ASSUME NEW x \in Items, NEW a \in Wires, NEW y \in Items, NEW b \in Wires, << x >> \o a = << y >> \o b
  PROVE  x = y /\ a = b
<1>1. PICK s, t : s = << x >> \o a /\ t = << y >> \o b /\ s = t
  OBVIOUS
<1>2. s[1] = x /\ Tail(s) = a
  BY <1>1, WireCons
<1>3. t[1] = y /\ Tail(t) = b
  BY <1>1, WireCons
<1>4. QED
  BY <1>1, <1>2, <1>3

\* A variant's tag, as it is written.
TagItem(type, k) == Item("verbatim", Text(type.variants[k].tag))

\* Tags are segments, and tell the variants apart.
LEMMA TagsAre ==
  ASSUME NEW type \in AllTypes, type.t = "enum"
  PROVE  /\ IsList(type.variants)
         /\ \A k \in DOMAIN type.variants :
              /\ TagItem(type, k) \in Items /\ IsList(type.variants[k].fields)
         /\ \A j, k \in DOMAIN type.variants : TagItem(type, j) = TagItem(type, k) => j = k
<1>1. IsEnum(type.variants)
  BY TypeIs DEF Plainly, StringType, RawType, U64Type, U32Type, UnitType
<1>2. ASSUME NEW k \in DOMAIN type.variants
      PROVE  TagItem(type, k) \in Items /\ IsList(type.variants[k].fields)
  BY <1>1, VerbatimItems DEF IsEnum, TagItem
<1>3. ASSUME NEW j \in DOMAIN type.variants, NEW k \in DOMAIN type.variants, TagItem(type, j) = TagItem(type, k)
      PROVE  j = k
  <2>1. type.variants[j].tag = type.variants[k].tag
    BY <1>3 DEF TagItem, Item, Text
  <2>2. QED
    BY <1>1, <2>1 DEF IsEnum
<1>4. QED
  BY <1>1, <1>2, <1>3 DEF IsEnum

\* The items of a value of an enum are its tag and those of the fields.
LEMMA WireOfVariant ==
  ASSUME NEW type \in AllTypes, type.t = "enum", NEW k \in DOMAIN type.variants,
         NEW q \in Fields(type.variants[k].fields)
  PROVE  /\ Variant(k, q) \in ValuesOf[type]
         /\ Flat(Pairs(type.variants[k].fields, q)) \in Wires
         /\ Wire[type][Variant(k, q)] = << TagItem(type, k) >> \o Flat(Pairs(type.variants[k].fields, q))
<1>1. Variant(k, q) \in ValuesOf[type]
  BY EnumValues
<1>2. PICK v : v = Variant(k, q)
  OBVIOUS
<1>3. v.variant = k /\ v.fields = q
  BY <1>2 DEF Variant
<1>4. Parts(type, v) = Pairs(type.variants[k].fields, q)
  BY <1>3 DEF Parts
<1>5. IsNodes(Parts(type, v))
  BY <1>1, <1>2, PartsAre DEF IsNodes
<1>6. Flat(Parts(type, v)) \in Wires
  BY <1>5, FlatNone, FlatConcat
<1>7. Wire[type][v] = << Item("verbatim", Text(type.variants[v.variant].tag)) >> \o Flat(Parts(type, v))
  BY <1>1, <1>2, WireKinds
<1>8. QED
  BY <1>1, <1>2, <1>3, <1>4, <1>6, <1>7 DEF TagItem

\* A tag, and what its variant reads.
TakesVariant(first, rest, type, g, items, h) ==
  \E k \in DOMAIN type.variants : \E q \in Fields(type.variants[k].fields) : \E more \in Wires :
    /\ items = << TagItem(type, k) >> \o (Flat(Pairs(type.variants[k].fields, q)) \o more)
    /\ Reads(first, rest, Append(g, Variant(k, q)), more, h)

\* The call for an enum reads a tag and what its variant reads.
LEMMA ReadsEnum ==
  ASSUME NEW first, NEW rest, IsList(rest), NEW type \in AllTypes, type.t = "enum",
         NEW g, IsList(g), NEW items, NEW h
  PROVE  Reads(first, << type >> \o rest, g, items, h) <=> TakesVariant(first, rest, type, g, items, h)
<1>1. Reads(first, << type >> \o rest, g, items, h)
        <=> \E v \in ValuesOf[type] : \E more \in Wires :
              items = Wire[type][v] \o more /\ Reads(first, rest, Append(g, v), more, h)
  BY ReadsType
<1>2. \A v : v \in ValuesOf[type] <=>
        \E k \in DOMAIN type.variants : \E q \in Fields(type.variants[k].fields) : v = Variant(k, q)
  BY EnumValues
<1>3. ASSUME NEW k \in DOMAIN type.variants, NEW q \in Fields(type.variants[k].fields), NEW more \in Wires
      PROVE  Wire[type][Variant(k, q)] \o more
               = << TagItem(type, k) >> \o (Flat(Pairs(type.variants[k].fields, q)) \o more)
  <2>1. PICK f, x : f = Flat(Pairs(type.variants[k].fields, q)) /\ x = TagItem(type, k)
    OBVIOUS
  <2>2. x \in Items /\ f \in Wires /\ Wire[type][Variant(k, q)] = << x >> \o f
    BY <2>1, TagsAre, WireOfVariant
  <2>3. << x >> \in Wires
    BY <2>2, WireCons
  <2>4. (<< x >> \o f) \o more = << x >> \o (f \o more)
    BY <2>2, <2>3, WiresAssociative
  <2>5. QED
    BY <2>1, <2>2, <2>4
<1>4. ASSUME NEW v \in ValuesOf[type], NEW more \in Wires,
             items = Wire[type][v] \o more, Reads(first, rest, Append(g, v), more, h)
      PROVE  \E k \in DOMAIN type.variants : \E q \in Fields(type.variants[k].fields) : \E z \in Wires :
                 /\ items = << TagItem(type, k) >> \o (Flat(Pairs(type.variants[k].fields, q)) \o z)
                 /\ Reads(first, rest, Append(g, Variant(k, q)), z, h)
  <2>1. PICK k \in DOMAIN type.variants : \E q \in Fields(type.variants[k].fields) : v = Variant(k, q)
    BY <1>2
  <2>2. PICK q \in Fields(type.variants[k].fields) : v = Variant(k, q)
    BY <2>1
  <2>3. items = << TagItem(type, k) >> \o (Flat(Pairs(type.variants[k].fields, q)) \o more)
    BY <1>3, <1>4, <2>2
  <2>4. Reads(first, rest, Append(g, Variant(k, q)), more, h)
    BY <1>4, <2>2
  <2>5. QED
    BY <2>3, <2>4
<1>5. ASSUME NEW k \in DOMAIN type.variants, NEW q \in Fields(type.variants[k].fields), NEW more \in Wires,
             items = << TagItem(type, k) >> \o (Flat(Pairs(type.variants[k].fields, q)) \o more),
             Reads(first, rest, Append(g, Variant(k, q)), more, h)
      PROVE  \E v \in ValuesOf[type] : \E z \in Wires :
               items = Wire[type][v] \o z /\ Reads(first, rest, Append(g, v), z, h)
  <2>1. PICK v : v = Variant(k, q)
    OBVIOUS
  <2>2. v \in ValuesOf[type]
    BY <1>2, <2>1
  <2>3. items = Wire[type][v] \o more
    BY <1>3, <1>5, <2>1
  <2>4. Reads(first, rest, Append(g, v), more, h)
    BY <1>5, <2>1
  <2>5. QED
    BY <2>2, <2>3, <2>4
<1>6. QED
  BY <1>1, <1>4, <1>5 DEF TakesVariant

\* The call for an enum starts with one of its tags.
LEMMA ReadsTag ==
  ASSUME NEW first, NEW rest, IsList(rest), NEW type \in AllTypes, type.t = "enum",
         NEW g, IsList(g), NEW x \in Items, NEW items \in Wires, NEW h,
         Reads(first, << type >> \o rest, g, << x >> \o items, h)
  PROVE  \E k \in DOMAIN type.variants : x = TagItem(type, k)
<1>1. PICK all : all = << x >> \o items
  OBVIOUS
<1>2. Reads(first, << type >> \o rest, g, all, h)
  BY <1>1
<1>3. PICK k \in DOMAIN type.variants : \E q \in Fields(type.variants[k].fields) : \E more \in Wires :
        all = << TagItem(type, k) >> \o (Flat(Pairs(type.variants[k].fields, q)) \o more)
  <2>1. TakesVariant(first, rest, type, g, all, h)
    BY <1>2, ReadsEnum
  <2>2. QED
    BY <2>1 DEF TakesVariant
<1>4. PICK q \in Fields(type.variants[k].fields) : \E more \in Wires :
        all = << TagItem(type, k) >> \o (Flat(Pairs(type.variants[k].fields, q)) \o more)
  BY <1>3
<1>5. PICK more \in Wires :
        all = << TagItem(type, k) >> \o (Flat(Pairs(type.variants[k].fields, q)) \o more)
  BY <1>4
<1>6. PICK b : b = Flat(Pairs(type.variants[k].fields, q)) \o more
  OBVIOUS
<1>7. b \in Wires
  BY <1>6, WireOfVariant, WiresConcat
<1>8. << x >> \o items = << TagItem(type, k) >> \o b
  BY <1>1, <1>5, <1>6
<1>9. x = TagItem(type, k)
  BY <1>7, <1>8, TagsAre, WireConsEqual, SMTT(30)
<1>10. QED
  BY <1>9

\* After the tag, the calls for the fields of its variant and the constructor.
LEMMA ReadsVariant ==
  ASSUME NEW first, NEW rest, IsList(rest), NEW type \in AllTypes, type.t = "enum",
         NEW k \in DOMAIN type.variants, NEW call, call.t = "build", call.of # "struct",
         call.which = k, call.arity = Len(type.variants[k].fields),
         NEW g, IsList(g), NEW items \in Wires, NEW h
  PROVE  /\ IsList(type.variants[k].fields \o << call >> \o rest)
         /\ Reads(first, << type >> \o rest, g, << TagItem(type, k) >> \o items, h)
              <=> Reads(first, type.variants[k].fields \o << call >> \o rest, g, items, h)
<1>1. PICK types : types = type.variants[k].fields
  OBVIOUS
<1>2. IsList(types) /\ \A n \in DOMAIN types : types[n] \in AllTypes
  BY <1>1, TagsAre, TypeIs, ComponentsAre
<1>3. /\ IsList(types \o << call >> \o rest)
      /\ Reads(first, types \o << call >> \o rest, g, items, h)
           <=> MakesFields(first, rest, types, call, g, items, h)
  BY <1>1, <1>2, ReadsFieldsOf
<1>4. MakesFields(first, rest, types, call, g, items, h) <=>
        \E q \in Fields(types) : \E more \in Wires :
          items = Flat(Pairs(types, q)) \o more /\ Reads(first, rest, Append(g, Variant(k, q)), more, h)
  BY DEF MakesFields
<1>5. PICK all : all = << TagItem(type, k) >> \o items
  OBVIOUS
<1>6. ASSUME Reads(first, << type >> \o rest, g, all, h)
      PROVE  \E q \in Fields(types) : \E more \in Wires :
               items = Flat(Pairs(types, q)) \o more /\ Reads(first, rest, Append(g, Variant(k, q)), more, h)
  <2>1. PICK j \in DOMAIN type.variants : \E q \in Fields(type.variants[j].fields) : \E more \in Wires :
          /\ all = << TagItem(type, j) >> \o (Flat(Pairs(type.variants[j].fields, q)) \o more)
          /\ Reads(first, rest, Append(g, Variant(j, q)), more, h)
    <3>1. TakesVariant(first, rest, type, g, all, h)
      BY <1>6, ReadsEnum
    <3>2. QED
      BY <3>1 DEF TakesVariant
  <2>2. PICK q \in Fields(type.variants[j].fields) : \E more \in Wires :
          /\ all = << TagItem(type, j) >> \o (Flat(Pairs(type.variants[j].fields, q)) \o more)
          /\ Reads(first, rest, Append(g, Variant(j, q)), more, h)
    BY <2>1
  <2>3. PICK more \in Wires :
          /\ all = << TagItem(type, j) >> \o (Flat(Pairs(type.variants[j].fields, q)) \o more)
          /\ Reads(first, rest, Append(g, Variant(j, q)), more, h)
    BY <2>2
  <2>4. PICK b : b = Flat(Pairs(type.variants[j].fields, q)) \o more
    OBVIOUS
  <2>5. b \in Wires
    BY <2>4, WireOfVariant, WiresConcat
  <2>6. << TagItem(type, k) >> \o items = << TagItem(type, j) >> \o b
    BY <1>5, <2>3, <2>4
  <2>7. TagItem(type, k) = TagItem(type, j) /\ items = b
    BY <2>5, <2>6, TagsAre, WireConsEqual, SMTT(30)
  <2>8. k = j
    BY <2>7, TagsAre
  <2>9. QED
    BY <1>1, <2>3, <2>4, <2>7, <2>8
<1>7. ASSUME NEW q \in Fields(types), NEW more \in Wires, items = Flat(Pairs(types, q)) \o more,
             Reads(first, rest, Append(g, Variant(k, q)), more, h)
      PROVE  Reads(first, << type >> \o rest, g, all, h)
  <2>1. q \in Fields(type.variants[k].fields)
    BY <1>1
  <2>2. all = << TagItem(type, k) >> \o (Flat(Pairs(type.variants[k].fields, q)) \o more)
    BY <1>1, <1>5, <1>7
  <2>3. TakesVariant(first, rest, type, g, all, h)
    BY <1>7, <2>1, <2>2 DEF TakesVariant
  <2>4. QED
    BY <2>3, ReadsEnum
<1>8. QED
  BY <1>1, <1>3, <1>4, <1>5, <1>6, <1>7

\* A wire is its first items and the rest.
LEMMA RestIs ==
  ASSUME NEW w \in Wires, NEW n \in 0 .. Len(w)
  PROVE  /\ Len(w) \in Nat
         /\ SubSeq(w, n + 1, Len(w)) \in Wires
         /\ SubSeq(w, n + 1, Len(w)) = <<>> <=> n = Len(w)
         /\ n = 0 => SubSeq(w, n + 1, Len(w)) = w
         /\ n < Len(w) =>
              /\ w[n + 1] \in Items
              /\ SubSeq(w, (n + 1) + 1, Len(w)) \in Wires
              /\ SubSeq(w, n + 1, Len(w)) = << w[n + 1] >> \o SubSeq(w, (n + 1) + 1, Len(w))
<1> DEFINE L == Len(w)
<1>1. w \in Seq(Items) /\ L \in Nat /\ n \in Nat /\ n <= L
  BY DEF Wires
<1>2. ASSUME NEW m \in 0 .. L
      PROVE  /\ SubSeq(w, m + 1, L) \in Seq(Items) /\ Len(SubSeq(w, m + 1, L)) = L - m
             /\ \A k \in 1 .. L - m : SubSeq(w, m + 1, L)[k] = w[m + k]
  <2>1. PICK a : a = m + 1
    OBVIOUS
  <2>2. a \in Int /\ L \in Int /\ \A k \in a .. L : w[k] \in Items
    BY <1>1, <2>1
  <2>3. /\ SubSeq(w, a, L) \in Seq(Items)
        /\ Len(SubSeq(w, a, L)) = (IF a <= L THEN L - a + 1 ELSE 0)
        /\ \A k \in 1 .. L - a + 1 : SubSeq(w, a, L)[k] = w[a + k - 1]
    BY <2>2, SubSeqProperties
  <2>4. (IF a <= L THEN L - a + 1 ELSE 0) = L - m /\ L - a + 1 = L - m
    BY <1>1, <2>1
  <2>5. \A k \in 1 .. L - m : a + k - 1 = m + k
    BY <1>1, <2>1
  <2>6. \A k \in 1 .. L - m : SubSeq(w, a, L)[k] = w[m + k]
    BY <2>3, <2>4, <2>5
  <2>7. QED
    BY <2>1, <2>3, <2>4, <2>6, Zenon
<1> HIDE DEF L
<1>3. PICK r : r = SubSeq(w, n + 1, L)
  OBVIOUS
<1>4. r \in Seq(Items) /\ Len(r) = L - n /\ \A k \in 1 .. L - n : r[k] = w[n + k]
  <2>1. n \in 0 .. L
    BY <1>1
  <2>2. /\ SubSeq(w, n + 1, L) \in Seq(Items) /\ Len(SubSeq(w, n + 1, L)) = L - n
        /\ \A k \in 1 .. L - n : SubSeq(w, n + 1, L)[k] = w[n + k]
    BY <1>2, <2>1
  <2>3. QED
    BY <1>3, <2>2
<1>5. r = <<>> <=> n = L
  BY <1>1, <1>4
<1>6. ASSUME n = 0 PROVE r = w
  <2>1. Len(r) = Len(w)
    BY <1>1, <1>4, <1>6 DEF L
  <2>2. \A k \in 1 .. Len(r) : r[k] = w[k]
    <3>1. ASSUME NEW k \in 1 .. Len(r)
          PROVE  r[k] = w[k]
      <4>1. k \in 1 .. L - n /\ n + k = k
        BY <1>1, <1>4, <1>6
      <4>2. r[k] = w[n + k]
        BY <1>4, <4>1
      <4>3. QED
        BY <4>1, <4>2
    <3>2. QED
      BY <3>1
  <2>3. QED
    BY <1>1, <1>4, <2>1, <2>2, SeqEqual
<1>7. ASSUME n < L
      PROVE  w[n + 1] \in Items /\ SubSeq(w, (n + 1) + 1, L) \in Seq(Items)
               /\ r = << w[n + 1] >> \o SubSeq(w, (n + 1) + 1, L)
  <2>1. n + 1 \in 0 .. L
    BY <1>1, <1>7
  <2>2. PICK z : z = SubSeq(w, (n + 1) + 1, L)
    OBVIOUS
  <2>3. z \in Seq(Items) /\ Len(z) = L - (n + 1) /\ \A k \in 1 .. L - (n + 1) : z[k] = w[(n + 1) + k]
    BY <1>2, <2>1, <2>2
  <2>4. w[n + 1] \in Items
    BY <1>1, <1>7 DEF L
  <2>5. PICK x : x = w[n + 1]
    OBVIOUS
  <2>6. PICK u : u = << x >> \o z
    OBVIOUS
  <2>7. u \in Seq(Items) /\ Len(u) = 1 + Len(z) /\ u[1] = x /\ \A k \in 1 .. Len(z) : u[k + 1] = z[k]
    BY <2>3, <2>4, <2>5, <2>6
  <2>8. Len(u) = Len(r)
    BY <1>1, <1>4, <2>3, <2>7
  <2>9. \A k \in 1 .. Len(r) : r[k] = u[k]
    <3>1. r[1] = u[1]
      BY <1>1, <1>4, <1>7, <2>5, <2>7
    <3>2. ASSUME NEW k \in 1 .. L - n, k # 1
          PROVE  r[k] = u[k]
      <4>1. PICK j : j = k - 1
        OBVIOUS
      <4>2. j \in 1 .. L - (n + 1) /\ k = j + 1 /\ (n + 1) + j = n + k
        BY <1>1, <3>2, <4>1
      <4>3. r[k] = w[n + k]
        BY <1>4
      <4>4. u[k] = z[j] /\ z[j] = w[(n + 1) + j]
        BY <2>3, <2>7, <4>2
      <4>5. QED
        BY <4>2, <4>3, <4>4
    <3>3. QED
      BY <1>4, <3>1, <3>2
  <2>10. r = u
    BY <1>4, <2>7, <2>8, <2>9, SeqEqual
  <2>11. QED
    BY <2>2, <2>3, <2>4, <2>5, <2>6, <2>10
<1>8. QED
  BY <1>1, <1>3, <1>4, <1>5, <1>6, <1>7 DEF L, Wires

\* The item of the prefix, and the items of a value of the named type.
PrefixItem(name) == Item("verbatim", Text(Catalog[name].prefix))
\* The values of a key type.
Typed(name) == ValuesOf[TypeOf(name)]
\* What a value writes after the first n items.
Rest(name, v, n) == SubSeq(WireOf(name, v), n + 1, Len(WireOf(name, v)))

\* A key writes its prefix and then what its value writes.
LEMMA WireOfIs ==
  ASSUME NEW name \in DOMAIN Catalog
  PROVE  /\ TypeOf(name) \in AllTypes
         /\ PrefixItem(name) \in Items
         /\ \A v \in Typed(name) :
              /\ WireOf(name, v) = << PrefixItem(name) >> \o Wire[TypeOf(name)][v]
              /\ Wire[TypeOf(name)][v] \in Wires
              /\ WireOf(name, v) \in Wires
              /\ Len(WireOf(name, v)) = Len(Wire[TypeOf(name)][v]) + 1
<1>1. TypeOf(name) \in AllTypes /\ Catalog[name].prefix \in Str
  BY CatalogAssumption DEF TypeOf
<1>2. PrefixItem(name) \in Items
  BY <1>1, VerbatimItems DEF PrefixItem
<1>3. ASSUME NEW v \in Typed(name)
      PROVE  /\ WireOf(name, v) = << PrefixItem(name) >> \o Wire[TypeOf(name)][v]
             /\ Wire[TypeOf(name)][v] \in Wires
             /\ WireOf(name, v) \in Wires
             /\ Len(WireOf(name, v)) = Len(Wire[TypeOf(name)][v]) + 1
  <2>1. Wire[TypeOf(name)][v] \in Wires
    BY <1>1, WireTyped DEF Typed
  <2>2. WireOf(name, v) = << PrefixItem(name) >> \o Wire[TypeOf(name)][v]
    BY DEF WireOf, PrefixItem
  <2>3. QED
    BY <1>2, <2>1, <2>2, WireCons
<1>4. QED
  BY <1>1, <1>2, <1>3

\* The items are what is left of a value whose first n items the segments spell.
Left(segments, n, name, items, h) ==
  \E v \in Typed(name) :
    h = << v >> /\ Agrees(segments, n, name, v) /\ items = Rest(name, v, n)

\* The calls and the values stand for the values of which n segments are read.
Means(segments, n, name, calls, g) ==
  \A items \in Wires : \A h :
    Reads(PrefixItem(name), calls, g, items, h) <=> Left(segments, n, name, items, h)

\* What agreement says of one more segment.
LEMMA AgreesMore ==
  ASSUME NEW name \in DOMAIN Catalog, NEW v \in Typed(name), NEW segments, NEW n \in Nat
  PROVE  /\ Len(WireOf(name, v)) \in Nat
         /\ Agrees(segments, n, name, v) => n \in 0 .. Len(WireOf(name, v))
         /\ Agrees(segments, n + 1, name, v) <=>
              /\ Agrees(segments, n, name, v) /\ n < Len(WireOf(name, v))
              /\ Spells(segments[n + 1], WireOf(name, v)[n + 1])
         /\ Agrees(segments, 0, name, v)
<1>1. PICK w : w = WireOf(name, v)
  OBVIOUS
<1>2. w \in Wires /\ Len(w) \in Nat
  <2>1. w \in Wires
    BY <1>1, WireOfIs
  <2>2. QED
    BY <2>1 DEF Wires
<1>3. \A m : Agrees(segments, m, name, v) <=> m <= Len(w) /\ \A k \in 1 .. m : Spells(segments[k], w[k])
  BY <1>1 DEF Agrees
<1>4. \A k : k \in 1 .. n + 1 <=> k \in 1 .. n \/ k = n + 1
  OBVIOUS
<1>5. n + 1 <= Len(w) <=> n <= Len(w) /\ n < Len(w)
  BY <1>2
<1>6. QED
  BY <1>1, <1>2, <1>3, <1>4, <1>5

\* What is left after one more item.
LEMMA RestMore ==
  ASSUME NEW name \in DOMAIN Catalog, NEW v \in Typed(name), NEW n \in 0 .. Len(WireOf(name, v))
  PROVE  /\ Rest(name, v, n) \in Wires
         /\ Rest(name, v, n) = <<>> <=> n = Len(WireOf(name, v))
         /\ n < Len(WireOf(name, v)) =>
              /\ WireOf(name, v)[n + 1] \in Items /\ Rest(name, v, n + 1) \in Wires
              /\ Rest(name, v, n) = << WireOf(name, v)[n + 1] >> \o Rest(name, v, n + 1)
<1>1. PICK w : w = WireOf(name, v)
  OBVIOUS
<1>2. w \in Wires
  BY <1>1, WireOfIs
<1>3. \A m : Rest(name, v, m) = SubSeq(w, m + 1, Len(w))
  BY <1>1 DEF Rest
<1>4. n \in 0 .. Len(w)
  BY <1>1
<1>5. /\ SubSeq(w, n + 1, Len(w)) \in Wires
      /\ SubSeq(w, n + 1, Len(w)) = <<>> <=> n = Len(w)
      /\ n < Len(w) =>
           /\ w[n + 1] \in Items
           /\ SubSeq(w, (n + 1) + 1, Len(w)) \in Wires
           /\ SubSeq(w, n + 1, Len(w)) = << w[n + 1] >> \o SubSeq(w, (n + 1) + 1, Len(w))
  BY <1>2, <1>4, RestIs
<1>6. Rest(name, v, n) = SubSeq(w, n + 1, Len(w)) /\ Rest(name, v, n + 1) = SubSeq(w, (n + 1) + 1, Len(w))
  BY <1>3
<1>7. QED
  BY <1>1, <1>5, <1>6

\* The calls of from_str_key() stand for every value of the type.
LEMMA MeansStart ==
  ASSUME NEW name \in DOMAIN Catalog, NEW segments, NEW call, call.t = "prefix"
  PROVE  /\ IsList(<< call, TypeOf(name) >>)
         /\ Means(segments, 0, name, << call, TypeOf(name) >>, <<>>)
<1> DEFINE T == TypeOf(name)
           x == PrefixItem(name)
<1>1. T \in AllTypes /\ x \in Items
  BY WireOfIs
<1>2. IsList(<<>>) /\ IsList(<< T >>) /\ << call, T >> = << call >> \o << T >> /\ << T >> = << T >> \o <<>>
  BY PathNone, PathOne
<1>3. IsList(<< call >> \o << T >>)
  BY <1>2, PathOne, PathConcat
<1> HIDE DEF T, x
<1>4. PICK t, e : t = << T >> /\ e = <<>>
  OBVIOUS
<1>5. ASSUME NEW items \in Wires, NEW h
      PROVE  Reads(x, << call >> \o t, e, items, h) <=> Left(segments, 0, name, items, h)
  <2>1. IsList(t) /\ IsList(e) /\ t = << T >> \o e
    BY <1>2, <1>4
  <2>2. Reads(x, << call >> \o t, e, items, h) <=>
          \E more \in Wires : items = << x >> \o more /\ Reads(x, t, e, more, h)
    <3>1. Reads(x, << call >> \o t, e, items, h) <=> TakesPrefix(x, t, e, items, h)
      BY <2>1, ReadsPrefix
    <3>2. QED
      BY <3>1 DEF TakesPrefix
  <2>3. ASSUME NEW more
        PROVE  Reads(x, t, e, more, h) <=>
                 \E v \in ValuesOf[T] : more = Wire[T][v] /\ h = << v >>
    <3>1. Reads(x, << T >> \o e, e, more, h) <=>
            \E v \in ValuesOf[T] : \E z \in Wires :
              more = Wire[T][v] \o z /\ Reads(x, e, Append(e, v), z, h)
      BY <1>1, <2>1, ReadsType
    <3>2. \A v : Append(e, v) = << v >> /\ IsList(<< v >>)
      <4>1. ASSUME NEW v PROVE Append(e, v) = << v >>
        BY <1>4
      <4>2. ASSUME NEW v PROVE IsList(<< v >>)
        BY PathOne
      <4>3. QED
        BY <4>1, <4>2
    <3>3. \A v, z : Reads(x, e, << v >>, z, h) <=> h = << v >> /\ z = <<>>
      BY <1>4, <3>2, ReadsNone
    <3>4. \A v \in ValuesOf[T] : Wire[T][v] \in Wires
      BY <1>1, WireTyped
    <3>5. <<>> \in Wires /\ \A w \in Wires : w \o <<>> = w
      BY DEF Wires
    <3>6. ASSUME NEW v \in ValuesOf[T]
          PROVE  (\E z \in Wires : more = Wire[T][v] \o z /\ Reads(x, e, Append(e, v), z, h))
                   <=> more = Wire[T][v] /\ h = << v >>
      BY <3>2, <3>3, <3>4, <3>5
    <3>7. QED
      BY <2>1, <3>1, <3>6
  <2>4. \A v : v \in Typed(name) <=> v \in ValuesOf[T]
    BY DEF Typed, T
  <2>5. \A v \in Typed(name) : /\ WireOf(name, v) = << x >> \o Wire[T][v] /\ Wire[T][v] \in Wires
                               /\ WireOf(name, v) \in Wires
    BY WireOfIs DEF x, T
  <2>6. \A v \in Typed(name) : Agrees(segments, 0, name, v)
    BY AgreesMore
  <2>7. \A v \in Typed(name) : Rest(name, v, 0) = WireOf(name, v)
    <3>1. \A w \in Wires : 0 \in 0 .. Len(w) /\ SubSeq(w, 0 + 1, Len(w)) = w
      <4>1. ASSUME NEW w \in Wires PROVE 0 \in 0 .. Len(w)
        BY DEF Wires
      <4>2. \A w \in Wires : SubSeq(w, 0 + 1, Len(w)) = w
        BY <4>1, RestIs
      <4>3. QED
        BY <4>1, <4>2
    <3>2. QED
      BY <2>5, <3>1 DEF Rest
  <2>8. Left(segments, 0, name, items, h) <=>
          \E v \in Typed(name) : h = << v >> /\ items = << x >> \o Wire[T][v]
    BY <2>5, <2>6, <2>7 DEF Left
  <2>9. QED
    BY <2>2, <2>3, <2>4, <2>5, <2>8
<1>6. QED
  BY <1>2, <1>3, <1>4, <1>5 DEF Means, x, T

\* Calls that read the same have the same meaning.
LEMMA MeansSame ==
  ASSUME NEW segments, NEW n, NEW name, NEW calls, NEW g, Means(segments, n, name, calls, g),
         NEW others, NEW f,
         \A items \in Wires : \A h :
           Reads(PrefixItem(name), others, f, items, h) <=> Reads(PrefixItem(name), calls, g, items, h)
  PROVE  Means(segments, n, name, others, f)
BY DEF Means

\* So have calls that read what follows an item which the next segment spells.
LEMMA MeansNext ==
  ASSUME NEW name \in DOMAIN Catalog, NEW segments, NEW n \in Nat, NEW calls, NEW g,
         Means(segments, n, name, calls, g),
         NEW others, NEW f,
         \A items \in Wires : \A h :
           Reads(PrefixItem(name), others, f, items, h) <=>
             \E x \in Items : /\ Spells(segments[n + 1], x)
                              /\ Reads(PrefixItem(name), calls, g, << x >> \o items, h)
  PROVE  Means(segments, n + 1, name, others, f)
<1>1. ASSUME NEW items \in Wires, NEW h, NEW x \in Items, Spells(segments[n + 1], x),
             Reads(PrefixItem(name), calls, g, << x >> \o items, h)
      PROVE  Left(segments, n + 1, name, items, h)
  <2>1. << x >> \o items \in Wires
    BY WireCons
  <2>2. Left(segments, n, name, << x >> \o items, h)
    BY <1>1, <2>1 DEF Means
  <2>3. PICK v \in Typed(name) : h = << v >> /\ Agrees(segments, n, name, v) /\ << x >> \o items = Rest(name, v, n)
    BY <2>2 DEF Left
  <2>4. n \in 0 .. Len(WireOf(name, v))
    BY <2>3, AgreesMore
  <2>5. Rest(name, v, n) # <<>>
    <3>1. PICK r : r = << x >> \o items
      OBVIOUS
    <3>2. r # <<>>
      BY <3>1, WireCons
    <3>3. Rest(name, v, n) = r
      BY <2>3, <3>1, Zenon
    <3>4. QED
      BY <3>2, <3>3, Zenon
  <2>6. n < Len(WireOf(name, v))
    <3>1. n # Len(WireOf(name, v))
      BY <2>4, <2>5, RestMore
    <3>2. Len(WireOf(name, v)) \in Nat
      BY AgreesMore
    <3>3. QED
      BY <2>4, <3>1, <3>2
  <2>7. /\ WireOf(name, v)[n + 1] \in Items /\ Rest(name, v, n + 1) \in Wires
        /\ << x >> \o items = << WireOf(name, v)[n + 1] >> \o Rest(name, v, n + 1)
    BY <2>3, <2>4, <2>6, RestMore
  <2>8. x = WireOf(name, v)[n + 1] /\ items = Rest(name, v, n + 1)
    BY <2>7, WireConsEqual, SMTT(30)
  <2>9. Agrees(segments, n + 1, name, v)
    BY <1>1, <2>3, <2>6, <2>8, AgreesMore
  <2>10. QED
    BY <2>3, <2>8, <2>9 DEF Left
<1>2. ASSUME NEW items \in Wires, NEW h, Left(segments, n + 1, name, items, h)
      PROVE  \E x \in Items : /\ Spells(segments[n + 1], x)
                              /\ Reads(PrefixItem(name), calls, g, << x >> \o items, h)
  <2>1. PICK v \in Typed(name) : h = << v >> /\ Agrees(segments, n + 1, name, v) /\ items = Rest(name, v, n + 1)
    BY <1>2 DEF Left
  <2>2. /\ Agrees(segments, n, name, v) /\ n < Len(WireOf(name, v))
        /\ Spells(segments[n + 1], WireOf(name, v)[n + 1])
    BY <2>1, AgreesMore
  <2>3. n \in 0 .. Len(WireOf(name, v))
    BY <2>2, AgreesMore
  <2>4. /\ WireOf(name, v)[n + 1] \in Items
        /\ Rest(name, v, n) \in Wires
        /\ Rest(name, v, n) = << WireOf(name, v)[n + 1] >> \o items
    BY <2>1, <2>2, <2>3, RestMore
  <2>5. Left(segments, n, name, Rest(name, v, n), h)
    BY <2>1, <2>2 DEF Left
  <2>6. Reads(PrefixItem(name), calls, g, Rest(name, v, n), h)
    BY <2>4, <2>5 DEF Means
  <2>7. QED
    BY <2>2, <2>4, <2>6
<1>3. QED
  BY <1>1, <1>2 DEF Means

\* When no item that the next segment spells can be read, the text is that of
\* no value.
LEMMA MeansNothing ==
  ASSUME NEW name \in DOMAIN Catalog, NEW segments, NEW n \in Nat, NEW calls, NEW g,
         Means(segments, n, name, calls, g),
         \A items \in Wires : \A h : \A x \in Items :
           Spells(segments[n + 1], x) => ~ Reads(PrefixItem(name), calls, g, << x >> \o items, h)
  PROVE  \A v \in Typed(name) : ~ Agrees(segments, n + 1, name, v)
<1>1. SUFFICES ASSUME NEW v \in Typed(name), Agrees(segments, n + 1, name, v)
               PROVE  FALSE
  OBVIOUS
<1>2. /\ Agrees(segments, n, name, v) /\ n < Len(WireOf(name, v))
      /\ Spells(segments[n + 1], WireOf(name, v)[n + 1])
  BY <1>1, AgreesMore
<1>3. n \in 0 .. Len(WireOf(name, v))
  BY <1>2, AgreesMore
<1>4. /\ WireOf(name, v)[n + 1] \in Items
      /\ Rest(name, v, n + 1) \in Wires
      /\ Rest(name, v, n) \in Wires
      /\ Rest(name, v, n) = << WireOf(name, v)[n + 1] >> \o Rest(name, v, n + 1)
  BY <1>2, <1>3, RestMore
<1>5. Left(segments, n, name, Rest(name, v, n), << v >>)
  BY <1>2 DEF Left
<1>6. Reads(PrefixItem(name), calls, g, Rest(name, v, n), << v >>)
  BY <1>4, <1>5 DEF Means
<1>7. QED
  BY <1>2, <1>4, <1>6

\* Nor is it when the segments are all read and a call still needs one.
LEMMA MeansShort ==
  ASSUME NEW name \in DOMAIN Catalog, NEW segments, NEW n \in Nat, NEW calls, NEW g,
         Means(segments, n, name, calls, g),
         \A h : ~ Reads(PrefixItem(name), calls, g, <<>>, h)
  PROVE  \A v \in Typed(name) : Len(WireOf(name, v)) = n => ~ Agrees(segments, n, name, v)
<1>1. SUFFICES ASSUME NEW v \in Typed(name), Len(WireOf(name, v)) = n, Agrees(segments, n, name, v)
               PROVE  FALSE
  OBVIOUS
<1>2. n \in 0 .. Len(WireOf(name, v))
  BY <1>1
<1>3. Rest(name, v, n) = <<>>
  BY <1>1, <1>2, RestMore
<1>4. PICK r : r = Rest(name, v, n)
  OBVIOUS
<1>5. r \in Wires
  BY <1>2, <1>4, RestMore
<1>6. Left(segments, n, name, r, << v >>)
  BY <1>1, <1>4 DEF Left
<1>7. Reads(PrefixItem(name), calls, g, r, << v >>)
  BY <1>5, <1>6 DEF Means
<1>8. r = <<>>
  BY <1>3, <1>4, Zenon
<1>9. Reads(PrefixItem(name), calls, g, <<>>, << v >>)
  BY <1>7, <1>8, Zenon
<1>10. QED
  BY <1>1, <1>9

\* When no call is left, the value is the one whose segments are read.
LEMMA MeansEnd ==
  ASSUME NEW name \in DOMAIN Catalog, NEW segments, NEW n \in Nat, NEW g, IsList(g),
         Means(segments, n, name, <<>>, g)
  PROVE  /\ \E v \in Typed(name) : g = << v >> /\ Len(WireOf(name, v)) = n /\ Agrees(segments, n, name, v)
         /\ \A v \in Typed(name) : Agrees(segments, n, name, v) => g = << v >> /\ Len(WireOf(name, v)) = n
<1>1. PICK e : e = <<>>
  OBVIOUS
<1>2. \A items, h : Reads(PrefixItem(name), e, g, items, h) <=> g = h /\ items = e
  BY <1>1, ReadsNone
<1>3. e \in Wires
  BY <1>1 DEF Wires
<1>4. Means(segments, n, name, e, g)
  BY <1>1, Zenon
<1>5. \A items \in Wires : \A h : g = h /\ items = e <=> Left(segments, n, name, items, h)
  BY <1>2, <1>4 DEF Means
<1>6. ASSUME NEW v \in Typed(name), Agrees(segments, n, name, v)
      PROVE  /\ n \in 0 .. Len(WireOf(name, v)) /\ Rest(name, v, n) \in Wires
             /\ Rest(name, v, n) = e => Len(WireOf(name, v)) = n
  <2>1. n \in 0 .. Len(WireOf(name, v))
    BY <1>6, AgreesMore
  <2>2. Rest(name, v, n) \in Wires
    BY <2>1, RestMore
  <2>3. Rest(name, v, n) = <<>> => Len(WireOf(name, v)) = n
    BY <2>1, RestMore
  <2>4. QED
    BY <1>1, <2>1, <2>2, <2>3, Zenon
<1>7. \E v \in Typed(name) : g = << v >> /\ Len(WireOf(name, v)) = n /\ Agrees(segments, n, name, v)
  <2>1. Left(segments, n, name, e, g)
    BY <1>3, <1>5
  <2>2. PICK v \in Typed(name) : g = << v >> /\ Agrees(segments, n, name, v) /\ e = Rest(name, v, n)
    BY <2>1 DEF Left
  <2>3. Len(WireOf(name, v)) = n
    BY <1>6, <2>2
  <2>4. QED
    BY <2>2, <2>3
<1>8. ASSUME NEW v \in Typed(name), Agrees(segments, n, name, v)
      PROVE  g = << v >> /\ Len(WireOf(name, v)) = n
  <2>1. PICK r : r = Rest(name, v, n)
    OBVIOUS
  <2>2. r \in Wires /\ Left(segments, n, name, r, << v >>)
    BY <1>6, <1>8, <2>1 DEF Left
  <2>3. g = << v >> /\ r = e
    BY <1>5, <2>2
  <2>4. QED
    BY <1>6, <1>8, <2>1, <2>3
<1>9. QED
  BY <1>7, <1>8

\* new_prefixed() of the parser, when the segment is the prefix.
LEMMA PrefixMeans ==
  ASSUME NEW name \in DOMAIN Catalog, NEW segments, NEW n \in Nat,
         NEW call, call.t = "prefix", NEW rest, IsList(rest), NEW g, IsList(g),
         Means(segments, n, name, << call >> \o rest, g)
  PROVE  /\ segments[n + 1] = Catalog[name].prefix => Means(segments, n + 1, name, rest, g)
         /\ segments[n + 1] # Catalog[name].prefix =>
              \A v \in Typed(name) : ~ Agrees(segments, n + 1, name, v)
<1> DEFINE first == PrefixItem(name)
<1>1. first \in Items
  BY WireOfIs
<1>2. Spells(segments[n + 1], first) <=> segments[n + 1] = Catalog[name].prefix
  BY DEF PrefixItem, Spells, Item, Text, OkText
<1> HIDE DEF first
<1>3. PICK calls : calls = << call >> \o rest
  OBVIOUS
<1>4. ASSUME NEW items \in Wires, NEW h, NEW x \in Items
      PROVE  Reads(first, calls, g, << x >> \o items, h) <=> x = first /\ Reads(first, rest, g, items, h)
  <2>1. PICK all : all = << x >> \o items
    OBVIOUS
  <2>2. all \in Wires
    BY <2>1, WireCons
  <2>3. Reads(first, << call >> \o rest, g, all, h) <=> TakesPrefix(first, rest, g, all, h)
    BY <2>2, ReadsPrefix
  <2>4. TakesPrefix(first, rest, g, all, h) <=>
          \E more \in Wires : all = << first >> \o more /\ Reads(first, rest, g, more, h)
    BY DEF TakesPrefix
  <2>5. ASSUME NEW more \in Wires
        PROVE  all = << first >> \o more <=> x = first /\ items = more
    <3>1. ASSUME all = << first >> \o more PROVE x = first /\ items = more
      BY <1>1, <2>1, <3>1, WireConsEqual, SMTT(30)
    <3>2. ASSUME x = first, items = more PROVE all = << first >> \o more
      BY <2>1, <3>2
    <3>3. QED
      BY <3>1, <3>2
  <2>6. QED
    BY <1>3, <2>1, <2>3, <2>4, <2>5
<1>5. ASSUME segments[n + 1] = Catalog[name].prefix
      PROVE  Means(segments, n + 1, name, rest, g)
  <2>1. \A items \in Wires : \A h :
          Reads(first, rest, g, items, h) <=>
             \E x \in Items : Spells(segments[n + 1], x) /\ Reads(first, calls, g, << x >> \o items, h)
    BY <1>1, <1>2, <1>4, <1>5
  <2>2. QED
    BY <1>3, <2>1, MeansNext DEF first
<1>6. ASSUME segments[n + 1] # Catalog[name].prefix
      PROVE  \A v \in Typed(name) : ~ Agrees(segments, n + 1, name, v)
  <2>1. \A items \in Wires : \A h : \A x \in Items :
          Spells(segments[n + 1], x) => ~ Reads(first, calls, g, << x >> \o items, h)
    BY <1>2, <1>4, <1>6
  <2>2. QED
    BY <1>3, <2>1, MeansNothing DEF first
<1>7. QED
  BY <1>5, <1>6

\* decode_key() of a leaf, whose result is o.
LEMMA LeafMeans ==
  ASSUME NEW name \in DOMAIN Catalog, NEW segments, NEW n \in Nat,
         NEW type \in AllTypes, type \in Leaves, NEW rest, IsList(rest), NEW g, IsList(g),
         Means(segments, n, name, << type >> \o rest, g),
         NEW o, \A v \in ValuesOf[type] : Spells(segments[n + 1], Item(FormOf[type.t], v)) <=> v = o
  PROVE  /\ o \in ValuesOf[type] => Means(segments, n + 1, name, rest, Append(g, o))
         /\ o \notin ValuesOf[type] => \A v \in Typed(name) : ~ Agrees(segments, n + 1, name, v)
<1> DEFINE first == PrefixItem(name)
           It(v) == Item(FormOf[type.t], v)
<1>1. \A v \in ValuesOf[type] : It(v) \in Items
  BY LeafItems
<1>2. \A v, w : It(v) = It(w) => v = w
  BY DEF Item
<1>3. PICK calls : calls = << type >> \o rest
  OBVIOUS
<1> HIDE DEF first, It
<1>4. ASSUME NEW items \in Wires, NEW h, NEW x \in Items
      PROVE  Reads(first, calls, g, << x >> \o items, h) <=>
               \E v \in ValuesOf[type] : x = It(v) /\ Reads(first, rest, Append(g, v), items, h)
  <2>1. PICK all : all = << x >> \o items
    OBVIOUS
  <2>2. Reads(first, << type >> \o rest, g, all, h) <=>
          \E v \in ValuesOf[type] : \E more \in Wires :
            all = << It(v) >> \o more /\ Reads(first, rest, Append(g, v), more, h)
    BY ReadsLeaf DEF It
  <2>3. ASSUME NEW v \in ValuesOf[type], NEW more \in Wires
        PROVE  all = << It(v) >> \o more <=> x = It(v) /\ items = more
    <3>1. ASSUME all = << It(v) >> \o more PROVE x = It(v) /\ items = more
      BY <1>1, <2>1, <3>1, WireConsEqual, SMTT(30)
    <3>2. ASSUME x = It(v), items = more PROVE all = << It(v) >> \o more
      BY <2>1, <3>2
    <3>3. QED
      BY <3>1, <3>2
  <2>4. QED
    BY <1>3, <2>1, <2>2, <2>3
<1>5. \A v \in ValuesOf[type] : Spells(segments[n + 1], It(v)) <=> v = o
  BY DEF It
<1>6. ASSUME o \in ValuesOf[type]
      PROVE  Means(segments, n + 1, name, rest, Append(g, o))
  <2>1. PICK f : f = Append(g, o)
    OBVIOUS
  <2>2. ASSUME NEW items \in Wires, NEW h
        PROVE  Reads(first, rest, f, items, h) <=>
                 \E x \in Items : Spells(segments[n + 1], x) /\ Reads(first, calls, g, << x >> \o items, h)
    <3>1. ASSUME Reads(first, rest, f, items, h)
          PROVE  \E x \in Items : Spells(segments[n + 1], x) /\ Reads(first, calls, g, << x >> \o items, h)
      <4>1. PICK x : x = It(o)
        OBVIOUS
      <4>2. x \in Items /\ Spells(segments[n + 1], x)
        BY <1>1, <1>5, <1>6, <4>1
      <4>3. Reads(first, calls, g, << x >> \o items, h)
        BY <1>4, <1>6, <2>1, <3>1, <4>1, <4>2
      <4>4. QED
        BY <4>2, <4>3
    <3>2. ASSUME NEW x \in Items, Spells(segments[n + 1], x), Reads(first, calls, g, << x >> \o items, h)
          PROVE  Reads(first, rest, f, items, h)
      <4>1. PICK v \in ValuesOf[type] : x = It(v) /\ Reads(first, rest, Append(g, v), items, h)
        BY <1>4, <3>2
      <4>2. v = o
        BY <1>5, <3>2, <4>1
      <4>3. QED
        BY <2>1, <4>1, <4>2
    <3>3. QED
      BY <3>1, <3>2
  <2>3. Means(segments, n + 1, name, rest, f)
    BY <1>3, <2>2, MeansNext DEF first
  <2>4. QED
    BY <2>1, <2>3
<1>7. ASSUME o \notin ValuesOf[type]
      PROVE  \A v \in Typed(name) : ~ Agrees(segments, n + 1, name, v)
  <2>1. \A items \in Wires : \A h : \A x \in Items :
          Spells(segments[n + 1], x) => ~ Reads(first, calls, g, << x >> \o items, h)
    BY <1>4, <1>5, <1>7
  <2>2. QED
    BY <1>3, <2>1, MeansNothing DEF first
<1>8. QED
  BY <1>6, <1>7

\* match next_raw()? { tag => the fields of its variant, ... }
LEMMA EnumMeans ==
  ASSUME NEW name \in DOMAIN Catalog, NEW segments, NEW n \in Nat,
         NEW type \in AllTypes, type.t = "enum", NEW rest, IsList(rest), NEW g, IsList(g),
         Means(segments, n, name, << type >> \o rest, g)
  PROVE  /\ \A k \in DOMAIN type.variants : \A call :
              /\ type.variants[k].tag = segments[n + 1]
              /\ call.t = "build" /\ call.of # "struct" /\ call.which = k
              /\ call.arity = Len(type.variants[k].fields)
              => Means(segments, n + 1, name, type.variants[k].fields \o << call >> \o rest, g)
         /\ (\A k \in DOMAIN type.variants : type.variants[k].tag # segments[n + 1]) =>
              \A v \in Typed(name) : ~ Agrees(segments, n + 1, name, v)
<1> DEFINE first == PrefixItem(name)
<1>1. \A k \in DOMAIN type.variants :
        Spells(segments[n + 1], TagItem(type, k)) <=> segments[n + 1] = type.variants[k].tag
  BY DEF TagItem, Spells, Item, Text, OkText
<1>2. PICK calls : calls = << type >> \o rest
  OBVIOUS
<1>3. \A k \in DOMAIN type.variants : TagItem(type, k) \in Items
  BY TagsAre
<1> HIDE DEF first
<1>4. ASSUME NEW items \in Wires, NEW h, NEW x \in Items, Reads(first, calls, g, << x >> \o items, h)
      PROVE  \E k \in DOMAIN type.variants : x = TagItem(type, k)
  BY <1>2, <1>4, ReadsTag
<1>5. ASSUME NEW k \in DOMAIN type.variants, NEW call, type.variants[k].tag = segments[n + 1],
             call.t = "build", call.of # "struct", call.which = k,
             call.arity = Len(type.variants[k].fields)
      PROVE  Means(segments, n + 1, name, type.variants[k].fields \o << call >> \o rest, g)
  <2>1. PICK others : others = type.variants[k].fields \o << call >> \o rest
    OBVIOUS
  <2>2. \A items \in Wires : \A h :
          Reads(first, others, g, items, h) <=> Reads(first, calls, g, << TagItem(type, k) >> \o items, h)
    BY <1>2, <1>5, <2>1, ReadsVariant
  <2>3. ASSUME NEW j \in DOMAIN type.variants, Spells(segments[n + 1], TagItem(type, j))
        PROVE  j = k
    <3>1. type.variants[j].tag = type.variants[k].tag
      BY <1>1, <1>5, <2>3
    <3>2. TagItem(type, j) = TagItem(type, k)
      BY <3>1 DEF TagItem
    <3>3. QED
      BY <3>2, TagsAre
  <2>4. Spells(segments[n + 1], TagItem(type, k))
    BY <1>1, <1>5
  <2>5. \A items \in Wires : \A h :
          Reads(first, others, g, items, h) <=>
             \E x \in Items : Spells(segments[n + 1], x) /\ Reads(first, calls, g, << x >> \o items, h)
    BY <1>3, <1>4, <2>2, <2>3, <2>4
  <2>6. Means(segments, n + 1, name, others, g)
    BY <1>2, <2>5, MeansNext DEF first
  <2>7. QED
    BY <2>1, <2>6
<1>6. ASSUME \A k \in DOMAIN type.variants : type.variants[k].tag # segments[n + 1]
      PROVE  \A v \in Typed(name) : ~ Agrees(segments, n + 1, name, v)
  <2>1. \A items \in Wires : \A h : \A x \in Items :
          Spells(segments[n + 1], x) => ~ Reads(first, calls, g, << x >> \o items, h)
    BY <1>1, <1>4, <1>6
  <2>2. QED
    BY <1>2, <2>1, MeansNothing DEF first
<1>7. QED
  BY <1>5, <1>6

\* The calls that read no segment themselves.
LEMMA UnitMeans ==
  ASSUME NEW name, NEW segments, NEW n, UnitType \in AllTypes, NEW rest, IsList(rest), NEW g, IsList(g),
         Means(segments, n, name, << UnitType >> \o rest, g)
  PROVE  Means(segments, n, name, rest, Append(g, Unit))
<1>1. PICK calls, f : calls = << UnitType >> \o rest /\ f = Append(g, Unit)
  OBVIOUS
<1>2. \A items \in Wires : \A h :
        Reads(PrefixItem(name), rest, f, items, h) <=> Reads(PrefixItem(name), calls, g, items, h)
  BY <1>1, ReadsUnit
<1>3. Means(segments, n, name, rest, f)
  BY <1>1, <1>2, MeansSame
<1>4. QED
  BY <1>1, <1>3

\* The call of a struct's decode_key(), replaced with those of its fields and of
\* the construction of the struct, still reads the same value.
LEMMA StructMeans ==
  ASSUME NEW name, NEW segments, NEW n, NEW type \in AllTypes, type.t = "struct",
         NEW rest, IsList(rest), NEW g, IsList(g),
         NEW call, call.t = "build", call.of = "struct", call.arity = Len(type.fields),
         Means(segments, n, name, << type >> \o rest, g)
  PROVE  Means(segments, n, name, type.fields \o << call >> \o rest, g)
<1>1. PICK calls, others : calls = << type >> \o rest /\ others = type.fields \o << call >> \o rest
  OBVIOUS
<1>2. \A items \in Wires : \A h :
        Reads(PrefixItem(name), others, g, items, h) <=> Reads(PrefixItem(name), calls, g, items, h)
  BY <1>1, ReadsStruct
<1>3. Means(segments, n, name, others, g)
  BY <1>1, <1>2, MeansSame
<1>4. QED
  BY <1>1, <1>3

\* The construction of a struct or variant may be done.
LEMMA BuildMeans ==
  ASSUME NEW name, NEW segments, NEW n, NEW call, call.t = "build",
         NEW rest, IsList(rest), NEW g, IsList(g),
         Means(segments, n, name, << call >> \o rest, g)
  PROVE  Means(segments, n, name, rest, Built(call, g))
<1>1. PICK calls, f : calls = << call >> \o rest /\ f = Built(call, g)
  OBVIOUS
<1>2. \A items \in Wires : \A h :
        Reads(PrefixItem(name), rest, f, items, h) <=> Reads(PrefixItem(name), calls, g, items, h)
  BY <1>1, ReadsBuild
<1>3. Means(segments, n, name, rest, f)
  BY <1>1, <1>2, MeansSame
<1>4. QED
  BY <1>1, <1>3

\* The calls that need a segment.
LEMMA NeedsSegment ==
  ASSUME NEW first \in Items, NEW call, NEW rest, IsList(rest), NEW g, IsList(g), NEW h,
         call.t = "prefix" \/ (call \in AllTypes /\ (call \in Leaves \/ call.t = "enum"))
  PROVE  ~ Reads(first, << call >> \o rest, g, <<>>, h)
<1>1. PICK e : e = <<>>
  OBVIOUS
<1>2. \A x \in Items : \A a \in Wires : e # << x >> \o a
  <2>1. ASSUME NEW x \in Items, NEW a \in Wires PROVE e # << x >> \o a
    <3>1. PICK r : r = << x >> \o a
      OBVIOUS
    <3>2. r # <<>>
      BY <3>1, WireCons
    <3>3. QED
      BY <1>1, <3>1, <3>2, Zenon
  <2>2. QED
    BY <2>1
<1>3. CASE call.t = "prefix"
  <2>1. Reads(first, << call >> \o rest, g, e, h) => TakesPrefix(first, rest, g, e, h)
    BY <1>3, ReadsPrefix
  <2>2. ~ TakesPrefix(first, rest, g, e, h)
    BY <1>2 DEF TakesPrefix
  <2>3. ~ Reads(first, << call >> \o rest, g, e, h)
    BY <2>1, <2>2
  <2>4. QED
    BY <1>1, <2>3, Zenon
<1>4. CASE call \in AllTypes /\ call \in Leaves
  <2>1. ASSUME Reads(first, << call >> \o rest, g, e, h)
        PROVE  FALSE
    <3>1. Reads(first, << call >> \o rest, g, e, h) <=>
            \E v \in ValuesOf[call] : \E more \in Wires :
              e = << Item(FormOf[call.t], v) >> \o more /\ Reads(first, rest, Append(g, v), more, h)
      BY <1>4, ReadsLeaf
    <3>2. PICK v \in ValuesOf[call] : \E more \in Wires : e = << Item(FormOf[call.t], v) >> \o more
      BY <2>1, <3>1
    <3>3. Item(FormOf[call.t], v) \in Items
      BY <1>4, LeafItems
    <3>4. QED
      BY <1>2, <3>2, <3>3
  <2>2. QED
    BY <1>1, <2>1, Zenon
<1>5. CASE call \in AllTypes /\ call.t = "enum"
  <2>1. Reads(first, << call >> \o rest, g, e, h) => TakesVariant(first, rest, call, g, e, h)
    BY <1>5, ReadsEnum
  <2>2. ASSUME TakesVariant(first, rest, call, g, e, h)
        PROVE  FALSE
    <3>1. PICK k \in DOMAIN call.variants : \E q \in Fields(call.variants[k].fields) : \E more \in Wires :
            e = << TagItem(call, k) >> \o (Flat(Pairs(call.variants[k].fields, q)) \o more)
      BY <2>2 DEF TakesVariant
    <3>2. PICK q \in Fields(call.variants[k].fields) : \E more \in Wires :
            e = << TagItem(call, k) >> \o (Flat(Pairs(call.variants[k].fields, q)) \o more)
      BY <3>1
    <3>3. PICK more \in Wires :
            e = << TagItem(call, k) >> \o (Flat(Pairs(call.variants[k].fields, q)) \o more)
      BY <3>2
    <3>4. Flat(Pairs(call.variants[k].fields, q)) \o more \in Wires
      BY <1>5, WireOfVariant, WiresConcat
    <3>5. QED
      BY <1>2, <1>5, <3>3, <3>4, TagsAre
  <2>3. ~ Reads(first, << call >> \o rest, g, e, h)
    BY <2>1, <2>2
  <2>4. QED
    BY <1>1, <2>3, Zenon
<1>6. QED
  BY <1>3, <1>4, <1>5


\* What unescape() returns is an error or a text.
LEMMA UnescapeText ==
  ASSUME NEW key \in Seq(Byte)
  PROVE  /\ IsOk(Unescape(key)) => Unescape(key) \in [text : Str]
         /\ ~ IsOk(Unescape(key)) => Unescape(key) \notin [text : Str]
<1> DEFINE bytes == Unescaped(key)
<1>1. CASE BadEscapes(key) # {}
  <2>1. "err" \in DOMAIN Unescape(key)
    BY <1>1 DEF Unescape, ErrAt
  <2>2. Unescape(key) \notin [text : Str]
    BY <2>1
  <2>3. QED
    BY <2>1, <2>2 DEF IsOk
<1>2. CASE BadEscapes(key) = {}
  <2> DEFINE N == Len(key)
             T == {n \in 0 .. N : bytes[n] \in Seq(Byte)}
  <2>1. /\ bytes[0] = <<>>
        /\ \A n \in 1 .. N : bytes[n] = IF OutsideEscape(key, n) THEN Append(bytes[n - 1], ByteAt(key, n))
                                        ELSE bytes[n - 1]
    BY UnescapedIs
  <2>2. N \in Nat /\ DOMAIN key = 1 .. N /\ \A n \in 1 .. N : key[n] \in Byte
    OBVIOUS
  <2>3. ASSUME NEW n \in 1 .. N
        PROVE  ByteAt(key, n) \in Byte
    <3>1. CASE EscapeAt(key, n)
      <4>1. key[n + 1] \in HexDigit /\ key[n + 2] \in HexDigit
        BY <1>2, <2>2, <3>1 DEF BadEscapes, ValidAt
      <4>2. (unhex(key[n + 1]) * 16) + unhex(key[n + 2]) \in Byte
        BY <4>1, UnhexByte
      <4>3. QED
        BY <3>1, <4>2 DEF ByteAt
    <3>2. CASE ~ EscapeAt(key, n)
      BY <2>2, <3>2 DEF ByteAt
    <3>3. QED
      BY <3>1, <3>2
  <2> HIDE DEF bytes, N
  <2>4. ASSUME NEW n \in 0 .. N - 1
        PROVE  n \in 0 .. N /\ n + 1 \in 0 .. N /\ n + 1 \in 1 .. N /\ (n + 1) - 1 = n
    <3>1. N \in Nat /\ n \in Nat /\ n + 1 <= N
      BY <2>2
    <3>2. QED
      BY <3>1
  <2>5. 0 \in T
    <3>1. bytes[0] = <<>> /\ N \in Nat
      BY <2>1, <2>2
    <3>2. bytes[0] \in Seq(Byte) /\ 0 \in 0 .. N
      BY <3>1
    <3>3. QED
      BY <3>2
  <2>6. ASSUME NEW n \in 0 .. N - 1, n \in T
        PROVE  n + 1 \in T
    <3>1. bytes[n] \in Seq(Byte) /\ ByteAt(key, n + 1) \in Byte
      BY <2>3, <2>4, <2>6
    <3>2. bytes[n + 1] = IF OutsideEscape(key, n + 1) THEN Append(bytes[n], ByteAt(key, n + 1)) ELSE bytes[n]
      BY <2>1, <2>4
    <3>3. bytes[n + 1] \in Seq(Byte)
      BY <3>1, <3>2
    <3>4. QED
      BY <2>4, <3>3
  <2> HIDE DEF T
  <2>7. \A n \in 0 .. N : n \in T
    BY <2>2, <2>5, <2>6, Induction
  <2>8. bytes[N] \in Seq(Byte)
    BY <2>2, <2>7 DEF T
  <2>9. Unescape(key) = FromUtf8(bytes[N])
    BY <1>2 DEF Unescape, bytes, N
  <2>10. QED
    BY <2>8, <2>9 DEF FromUtf8, OkText, Err, IsOk, Str
<1>3. QED
  BY <1>1, <1>2

\* What the impls for String, Raw, u64 and u32 make of a segment.
ReadAs(type, e) ==
  CASE type.t = "string" -> Unescape(e)
    [] type.t = "raw" -> OkText(e)
    [] type.t = "u64" -> DecodeId(e, MaxU64)
    [] OTHER -> DecodeId(e, MaxU32)

\* What a leaf's decode_key() makes of a segment is what the segment spells.
LEMMA ReadAsIs ==
  ASSUME NEW type \in AllTypes, type \in Leaves, NEW e \in Str
  PROVE  /\ \A v : Spells(e, Item(FormOf[type.t], v)) <=> v = ReadAs(type, e)
         /\ ReadAs(type, e) \in ValuesOf[type] <=> IsOk(ReadAs(type, e))
<1>1. e \in Seq(Byte) /\ MaxU64 \in Nat /\ MaxU32 \in Nat
  BY MaxU64Assumption, MaxU32Assumption DEF Str
<1>2. CASE type = StringType
  <2>1. type.t = "string" /\ FormOf[type.t] = "escaped" /\ ReadAs(type, e) = Unescape(e)
    BY <1>2 DEF StringType, FormOf, ReadAs
  <2>2. \A v : Spells(e, Item(FormOf[type.t], v)) <=> v = Unescape(e)
    BY <2>1 DEF Spells, Item
  <2>3. ValuesOf[type] = [text : Str]
    BY <1>2, LeafValues
  <2>4. QED
    BY <1>1, <2>1, <2>2, <2>3, UnescapeText
<1>3. CASE type = RawType
  <2>1. type.t = "raw" /\ FormOf[type.t] = "verbatim" /\ ReadAs(type, e) = OkText(e)
    BY <1>3 DEF RawType, FormOf, ReadAs
  <2>2. \A v : Spells(e, Item(FormOf[type.t], v)) <=> v = OkText(e)
    BY <2>1 DEF Spells, Item
  <2>3. ValuesOf[type] = [text : Str]
    BY <1>3, LeafValues
  <2>4. OkText(e) \in [text : Str] /\ IsOk(OkText(e))
    BY DEF OkText, IsOk
  <2>5. QED
    BY <2>1, <2>2, <2>3, <2>4
<1>4. ASSUME NEW max \in Nat
      PROVE  DecodeId(e, max) \in [id : 0 .. max] <=> IsOk(DecodeId(e, max))
  <2>1. DecodeId(e, max) = Err("InvalidId") \/ \E n \in 0 .. max : DecodeId(e, max) = OkId(n)
    BY <1>1, DecodeIdIs
  <2>2. Err("InvalidId") \notin [id : 0 .. max] /\ ~ IsOk(Err("InvalidId"))
    BY DEF Err, IsOk
  <2>3. \A n \in 0 .. max : OkId(n) \in [id : 0 .. max] /\ IsOk(OkId(n))
    BY DEF OkId, IsOk
  <2>4. QED
    BY <2>1, <2>2, <2>3
<1>5. CASE type = U64Type
  <2>1. type.t = "u64" /\ FormOf[type.t] = "u64" /\ ReadAs(type, e) = DecodeId(e, MaxU64)
    BY <1>5 DEF U64Type, FormOf, ReadAs
  <2>2. \A v : Spells(e, Item(FormOf[type.t], v)) <=> v = DecodeId(e, MaxU64)
    BY <2>1 DEF Spells, Item
  <2>3. ValuesOf[type] = [id : 0 .. MaxU64]
    BY <1>5, LeafValues
  <2>4. QED
    BY <1>1, <1>4, <2>1, <2>2, <2>3
<1>6. CASE type = U32Type
  <2>1. type.t = "u32" /\ FormOf[type.t] = "u32" /\ ReadAs(type, e) = DecodeId(e, MaxU32)
    BY <1>6 DEF U32Type, FormOf, ReadAs
  <2>2. \A v : Spells(e, Item(FormOf[type.t], v)) <=> v = DecodeId(e, MaxU32)
    BY <2>1 DEF Spells, Item
  <2>3. ValuesOf[type] = [id : 0 .. MaxU32]
    BY <1>6, LeafValues
  <2>4. QED
    BY <1>1, <1>4, <2>1, <2>2, <2>3
<1>7. QED
  BY <1>2, <1>3, <1>5, <1>6 DEF Leaves

\* The impl for u32 reads an u64 first.
LEMMA NarrowId ==
  ASSUME NEW e \in Str
  PROVE  /\ IsOk(DecodeId(e, MaxU64)) /\ DecodeId(e, MaxU64).id <= MaxU32
              => DecodeId(e, MaxU32) = DecodeId(e, MaxU64)
         /\ ~ (IsOk(DecodeId(e, MaxU64)) /\ DecodeId(e, MaxU64).id <= MaxU32)
              => ~ IsOk(DecodeId(e, MaxU32))
<1>1. e \in Seq(Byte) /\ MaxU64 \in Nat /\ MaxU32 \in Nat /\ MaxU32 <= MaxU64
  BY MaxU64Assumption, MaxU32Assumption DEF Str
<1>2. ~ IsOk(Err("InvalidId")) /\ \A n : IsOk(OkId(n)) /\ OkId(n).id = n
  BY DEF Err, OkId, IsOk
<1>3. CASE \A max \in Nat : DecodeId(e, max) = Err("InvalidId")
  BY <1>1, <1>2, <1>3
<1>4. CASE \E n \in Nat : \A max \in Nat :
             DecodeId(e, max) = IF n <= max THEN OkId(n) ELSE Err("InvalidId")
  <2>1. PICK n \in Nat : \A max \in Nat :
          DecodeId(e, max) = IF n <= max THEN OkId(n) ELSE Err("InvalidId")
    BY <1>4
  <2>2. DecodeId(e, MaxU64) = (IF n <= MaxU64 THEN OkId(n) ELSE Err("InvalidId"))
          /\ DecodeId(e, MaxU32) = IF n <= MaxU32 THEN OkId(n) ELSE Err("InvalidId")
    BY <1>1, <2>1
  <2>3. n <= MaxU32 => n <= MaxU64
    BY <1>1
  <2>4. CASE n <= MaxU32
    <3>1. DecodeId(e, MaxU64) = OkId(n) /\ DecodeId(e, MaxU32) = OkId(n)
      BY <2>2, <2>3, <2>4
    <3>2. QED
      BY <1>2, <2>4, <3>1
  <2>5. CASE ~ n <= MaxU32
    <3>1. DecodeId(e, MaxU32) = Err("InvalidId")
      BY <2>2, <2>5
    <3>2. DecodeId(e, MaxU64) = OkId(n) \/ DecodeId(e, MaxU64) = Err("InvalidId")
      BY <2>2
    <3>3. QED
      BY <1>2, <2>5, <3>1, <3>2
  <2>6. QED
    BY <2>4, <2>5
<1>5. QED
  BY <1>1, <1>3, <1>4, DecodeIdIs

-----------------------------------------------------------------------------
(***************************************************************************)
(* Where the parser is in the text, said of its segments.                  *)
(***************************************************************************)
LEMMA PieceIs ==
  ASSUME NEW S, NEW s \in Seq(S), NEW lo \in 0 .. Len(s), NEW hi \in lo .. Len(s)
  PROVE  /\ SubSeq(s, lo + 1, hi) \in Seq(S) /\ Len(SubSeq(s, lo + 1, hi)) = hi - lo
         /\ \A k \in 1 .. hi - lo : SubSeq(s, lo + 1, hi)[k] = s[lo + k]
<1>1. PICK a : a = lo + 1
  OBVIOUS
<1>2. a \in Int /\ hi \in Int /\ \A k \in a .. hi : s[k] \in S
  BY <1>1
<1>3. /\ SubSeq(s, a, hi) \in Seq(S)
      /\ Len(SubSeq(s, a, hi)) = (IF a <= hi THEN hi - a + 1 ELSE 0)
      /\ \A k \in 1 .. hi - a + 1 : SubSeq(s, a, hi)[k] = s[a + k - 1]
  BY <1>2, SubSeqProperties
<1>4. lo \in Nat /\ hi \in Nat /\ lo <= hi
  OBVIOUS
<1>5. (IF a <= hi THEN hi - a + 1 ELSE 0) = hi - lo /\ hi - a + 1 = hi - lo
  BY <1>1, <1>4
<1>6. \A k \in 1 .. hi - lo : a + k - 1 = lo + k
  BY <1>1, <1>4
<1>7. \A k \in 1 .. hi - lo : SubSeq(s, a, hi)[k] = s[lo + k]
  BY <1>3, <1>5, <1>6
<1>8. QED
  BY <1>1, <1>3, <1>5, <1>7

\* What follows a '/' is the rest of the text.
LEMMA CutAtSlash ==
  ASSUME NEW s \in Texts, NEW lo \in 0 .. Len(s), NEW hi \in lo .. Len(s) - 1, s[hi + 1] = Slash
  PROVE  /\ SubSeq(s, lo + 1, hi) \in Texts /\ SubSeq(s, (hi + 1) + 1, Len(s)) \in Texts
         /\ SubSeq(s, lo + 1, Len(s))
              = Append(SubSeq(s, lo + 1, hi), Slash) \o SubSeq(s, (hi + 1) + 1, Len(s))
<1> DEFINE L == Len(s)
           e == SubSeq(s, lo + 1, hi)
           r == SubSeq(s, (hi + 1) + 1, L)
           all == SubSeq(s, lo + 1, L)
<1>1. s \in Seq(Byte) /\ L \in Nat /\ lo \in Nat /\ hi \in Nat /\ lo <= hi /\ hi + 1 <= L
  BY DEF Texts
<1>2. lo \in 0 .. L /\ hi \in lo .. L /\ hi + 1 \in 0 .. L /\ L \in lo .. L /\ L \in hi + 1 .. L
  BY <1>1
<1>3. e \in Seq(Byte) /\ Len(e) = hi - lo /\ \A k \in 1 .. hi - lo : e[k] = s[lo + k]
  BY <1>1, <1>2, PieceIs
<1>4. r \in Seq(Byte) /\ Len(r) = L - (hi + 1) /\ \A k \in 1 .. L - (hi + 1) : r[k] = s[(hi + 1) + k]
  BY <1>1, <1>2, PieceIs
<1>5. all \in Seq(Byte) /\ Len(all) = L - lo /\ \A k \in 1 .. L - lo : all[k] = s[lo + k]
  BY <1>1, <1>2, PieceIs
<1> HIDE DEF e, r, all, L
<1>6. Slash \in Byte
  BY DEF Slash, Byte
<1> DEFINE h == Append(e, Slash)
           u == h \o r
<1>7. h \in Seq(Byte) /\ Len(h) = (hi - lo) + 1 /\ h[(hi - lo) + 1] = Slash
        /\ \A k \in 1 .. hi - lo : h[k] = e[k]
  BY <1>1, <1>3, <1>6
<1> HIDE DEF h
<1>8. u \in Seq(Byte) /\ Len(u) = L - lo
        /\ (\A k \in 1 .. (hi - lo) + 1 : u[k] = h[k])
        /\ \A k \in 1 .. L - (hi + 1) : u[(hi - lo) + 1 + k] = r[k]
  <2>1. h \in Seq(Byte) /\ r \in Seq(Byte)
    BY <1>4, <1>7
  <2>2. u \in Seq(Byte) /\ Len(u) = Len(h) + Len(r)
    BY <2>1
  <2>3. \A k \in 1 .. Len(h) : u[k] = h[k]
    BY <2>1
  <2>4. \A k \in 1 .. Len(r) : u[Len(h) + k] = r[k]
    BY <2>1
  <2>5. Len(h) + Len(r) = L - lo
    BY <1>1, <1>4, <1>7
  <2>6. QED
    BY <1>4, <1>7, <2>2, <2>3, <2>4, <2>5
<1> HIDE DEF u
<1>9. ASSUME NEW k \in 1 .. L - lo
      PROVE  all[k] = u[k]
  <2>1. CASE k <= hi - lo
    <3>1. k \in 1 .. hi - lo /\ k \in 1 .. (hi - lo) + 1
      BY <1>1, <2>1
    <3>2. u[k] = s[lo + k]
      BY <1>3, <1>7, <1>8, <3>1
    <3>3. QED
      BY <1>5, <3>2
  <2>2. CASE k = (hi - lo) + 1
    <3>1. lo + k = hi + 1 /\ (hi - lo) + 1 \in 1 .. (hi - lo) + 1
      BY <1>1, <2>2
    <3>2. u[k] = Slash
      BY <1>7, <1>8, <2>2, <3>1
    <3>3. all[k] = s[lo + k]
      BY <1>5
    <3>4. QED
      BY <3>1, <3>2, <3>3
  <2>3. CASE k > (hi - lo) + 1
    <3>1. PICK j : j = k - ((hi - lo) + 1)
      OBVIOUS
    <3>2. j \in 1 .. L - (hi + 1) /\ k = (hi - lo) + 1 + j /\ lo + k = (hi + 1) + j
      BY <1>1, <2>3, <3>1
    <3>3. u[k] = r[j] /\ r[j] = s[(hi + 1) + j]
      BY <1>4, <1>8, <3>2
    <3>4. all[k] = s[lo + k]
      BY <1>5
    <3>5. QED
      BY <3>2, <3>3, <3>4
  <2>4. k <= hi - lo \/ k = (hi - lo) + 1 \/ k > (hi - lo) + 1
    BY <1>1
  <2>5. QED
    BY <2>1, <2>2, <2>3, <2>4
<1>10. all = u
  BY <1>5, <1>8, <1>9, SeqEqual
<1>11. QED
  BY <1>3, <1>4, <1>10 DEF Texts, e, r, all, u, h, L

\* After n segments the text goes on at offset a, or is at its end.
Position(text, n, a) ==
  /\ n \in Nat
  /\ IF a > Len(text) THEN n = Len(Split(text))
     ELSE /\ n < Len(Split(text))
          /\ SubSeq(Split(text), n + 1, Len(Split(text))) = Split(SubSeq(text, a + 1, Len(text)))
          /\ a = 0 \/ text[a] = Slash

\* Splitting gives at least one segment, and no segment holds a '/'.
LEMMA SplitType ==
  ASSUME NEW text \in Texts
  PROVE  /\ Split(text) \in Seq(Texts) /\ Len(Split(text)) \in Nat \ {0}
         /\ \A k \in 1 .. Len(Split(text)) : Split(text)[k] \in Texts /\ NoSlash(Split(text)[k])
<1>1. Split(text) \in Lists
  BY SplitGrows
<1>2. Split(text) \in Seq(Texts) /\ Len(Split(text)) \in Nat \ {0}
  BY <1>1 DEF Lists
<1>3. \A k \in 1 .. Len(Split(text)) : Split(text)[k] \in Texts
  BY <1>2
<1>4. QED
  BY <1>2, <1>3, SegmentsAre

\* A new parser is at the first segment.
LEMMA PositionStarts ==
  ASSUME NEW text \in Texts
  PROVE  Position(text, 0, 0)
<1>1. PICK segs : segs = Split(text)
  OBVIOUS
<1>2. segs \in Seq(Texts) /\ Len(segs) \in Nat \ {0}
  BY <1>1, SplitType
<1>3. ASSUME NEW S, NEW s \in Seq(S)
      PROVE  SubSeq(s, 0 + 1, Len(s)) = s
  <2>1. 0 \in 0 .. Len(s) /\ Len(s) \in 0 .. Len(s) /\ Len(s) - 0 = Len(s)
    OBVIOUS
  <2>2. /\ SubSeq(s, 0 + 1, Len(s)) \in Seq(S) /\ Len(SubSeq(s, 0 + 1, Len(s))) = Len(s) - 0
        /\ \A k \in 1 .. Len(s) - 0 : SubSeq(s, 0 + 1, Len(s))[k] = s[0 + k]
    BY <2>1, PieceIs
  <2>3. \A k \in 1 .. Len(s) : SubSeq(s, 0 + 1, Len(s))[k] = s[k]
    BY <2>1, <2>2
  <2>4. QED
    BY <2>1, <2>2, <2>3, SeqEqual
<1>4. SubSeq(segs, 0 + 1, Len(segs)) = segs
  BY <1>2, <1>3
<1>5. SubSeq(text, 0 + 1, Len(text)) = text
  BY <1>3 DEF Texts
<1>6. Len(text) \in Nat
  BY DEF Texts
<1>7. 0 < Len(segs) /\ ~ (0 > Len(text))
  BY <1>2, <1>6
<1>8. QED
  BY <1>1, <1>4, <1>5, <1>7 DEF Position

\* The next element is the next segment.
LEMMA ElementIs ==
  ASSUME ParserTypeOK, Position(str_key, i, at), ~ Exhausted
  PROVE  /\ i + 1 \in 1 .. Len(Split(str_key)) /\ Element = Split(str_key)[i + 1]
         /\ Position(str_key, i + 1, ElementEnd(at) + 1)
         /\ str_key \in Str => Element \in Str
<1> DEFINE L == Len(str_key)
           stop == ElementEnd(at)
<1>1. str_key \in Seq(Byte) /\ at \in Nat /\ at <= L /\ L \in Nat
  BY DEF ParserTypeOK, Exhausted
<1>2. /\ stop \in Nat /\ stop \in at .. L
      /\ stop = L \/ str_key[stop + 1] = Slash
      /\ \A q \in at .. stop - 1 : str_key[q + 1] # Slash
  BY <1>1, ElementEndExists DEF EndsFirst, IsEnd
<1> HIDE DEF stop
<1>3. PICK segs, e, r : /\ segs = Split(str_key) /\ e = SubSeq(str_key, at + 1, stop)
                        /\ r = SubSeq(str_key, at + 1, L)
  OBVIOUS
<1>4. segs \in Seq(Texts) /\ Len(segs) \in Nat
  BY <1>1, <1>3, SplitType DEF Texts
<1>5. /\ i \in Nat /\ i < Len(segs) /\ SubSeq(segs, i + 1, Len(segs)) = Split(r)
      /\ at = 0 \/ str_key[at] = Slash
  <2>1. ~ at > L
    BY <1>1
  <2>2. QED
    BY <1>3, <2>1 DEF Position
<1>6. at \in 0 .. L /\ stop \in at .. L /\ L \in at .. L
  BY <1>1, <1>2
<1>7. e \in Texts /\ NoSlash(e)
  <2>1. e \in Seq(Byte) /\ Len(e) = stop - at /\ \A k \in 1 .. stop - at : e[k] = str_key[at + k]
    BY <1>1, <1>3, <1>6, PieceIs
  <2>2. ASSUME NEW k \in DOMAIN e
        PROVE  e[k] # Slash
    <3>1. k \in 1 .. stop - at
      BY <2>1
    <3>2. PICK q : q = at + k - 1
      OBVIOUS
    <3>3. q \in at .. stop - 1 /\ q + 1 = at + k
      BY <1>1, <1>2, <3>1, <3>2
    <3>4. QED
      BY <1>2, <2>1, <3>1, <3>3
  <2>3. QED
    BY <2>1, <2>2 DEF Texts, NoSlash
<1>8. Split(e) = << e >>
  BY <1>7, SplitPlain
<1>9. PICK tail : tail = SubSeq(segs, i + 1, Len(segs))
  OBVIOUS
<1>10. /\ tail \in Seq(Texts) /\ Len(tail) = Len(segs) - i
       /\ \A k \in 1 .. Len(segs) - i : tail[k] = segs[i + k]
  <2>1. i \in 0 .. Len(segs) /\ Len(segs) \in i .. Len(segs)
    BY <1>4, <1>5
  <2>2. QED
    BY <1>4, <1>9, <2>1, PieceIs
<1>11. Element = e
  BY <1>3 DEF Element, stop
<1>12. tail[1] = segs[i + 1] /\ i + 1 \in 1 .. Len(segs)
  <2>1. 1 \in 1 .. Len(segs) - i /\ i + 1 \in 1 .. Len(segs)
    BY <1>4, <1>5
  <2>2. QED
    BY <1>10, <2>1
<1>13. ASSUME stop = L
       PROVE  segs[i + 1] = e /\ Position(str_key, i + 1, stop + 1)
  <2>1. r = e
    BY <1>3, <1>13
  <2>2. tail = << e >>
    BY <1>5, <1>8, <1>9, <2>1
  <2>3. Len(segs) = i + 1 /\ tail[1] = e
    <3>1. Len(tail) = 1 /\ tail[1] = e
      BY <2>2
    <3>2. Len(segs) - i = 1
      BY <1>10, <3>1
    <3>3. QED
      BY <1>4, <1>5, <3>1, <3>2
  <2>4. stop + 1 > Len(str_key)
    BY <1>1, <1>13
  <2>5. QED
    BY <1>3, <1>5, <1>12, <2>3, <2>4 DEF Position
<1>14. ASSUME stop # L
       PROVE  segs[i + 1] = e /\ Position(str_key, i + 1, stop + 1)
  <2>1. stop \in at .. L - 1 /\ str_key[stop + 1] = Slash
    BY <1>1, <1>2, <1>14
  <2>2. PICK rest : rest = SubSeq(str_key, (stop + 1) + 1, L)
    OBVIOUS
  <2>3. rest \in Texts /\ r = Append(e, Slash) \o rest
    BY <1>1, <1>3, <1>6, <2>1, <2>2, CutAtSlash DEF Texts
  <2>4. Split(r) = Split(e) \o Split(rest)
    BY <1>7, <2>3, SplitConcat
  <2>5. PICK more : more = Split(rest)
    OBVIOUS
  <2>6. more \in Seq(Texts) /\ Len(more) \in Nat \ {0}
    BY <2>3, <2>5, SplitType
  <2>7. tail = << e >> \o more
    BY <1>5, <1>8, <1>9, <2>4, <2>5
  <2>8. Len(tail) = 1 + Len(more) /\ tail[1] = e /\ \A k \in 1 .. Len(more) : tail[1 + k] = more[k]
    BY <1>7, <2>6, <2>7
  <2>9. i + 1 < Len(segs)
    BY <1>4, <1>5, <1>10, <2>6, <2>8
  <2>10. SubSeq(segs, (i + 1) + 1, Len(segs)) = more
    <3>1. PICK z : z = SubSeq(segs, (i + 1) + 1, Len(segs))
      OBVIOUS
    <3>2. i + 1 \in 0 .. Len(segs) /\ Len(segs) \in i + 1 .. Len(segs)
      BY <1>4, <1>5, <2>9
    <3>3. /\ z \in Seq(Texts) /\ Len(z) = Len(segs) - (i + 1)
          /\ \A k \in 1 .. Len(segs) - (i + 1) : z[k] = segs[(i + 1) + k]
      BY <1>4, <3>1, <3>2, PieceIs
    <3>4. Len(z) = Len(more)
      <4>1. Len(segs) - i = 1 + Len(more) /\ Len(z) = Len(segs) - (i + 1)
        BY <1>10, <2>8, <3>3
      <4>2. Len(segs) \in Nat /\ i \in Nat /\ Len(more) \in Nat
        BY <1>4, <1>5, <2>6
      <4>3. QED
        BY <4>1, <4>2
    <3>5. ASSUME NEW k \in 1 .. Len(more)
          PROVE  z[k] = more[k]
      <4>1. k \in 1 .. Len(segs) - (i + 1) /\ 1 + k \in 1 .. Len(segs) - i /\ i + (1 + k) = (i + 1) + k
        BY <1>4, <1>5, <2>6, <3>3, <3>4
      <4>2. z[k] = segs[(i + 1) + k]
        BY <3>3, <4>1
      <4>3. tail[1 + k] = segs[i + (1 + k)]
        BY <1>10, <4>1
      <4>4. tail[1 + k] = more[k]
        BY <2>8
      <4>5. QED
        BY <4>1, <4>2, <4>3, <4>4
    <3>6. z = more
      BY <2>6, <3>3, <3>4, <3>5, SeqEqual
    <3>7. QED
      BY <3>1, <3>6
  <2>11. ~ (stop + 1 > Len(str_key)) /\ i + 1 \in Nat
    BY <1>1, <1>5, <2>1
  <2>12. Position(str_key, i + 1, stop + 1)
    BY <1>3, <2>1, <2>2, <2>5, <2>9, <2>10, <2>11 DEF Position
  <2>13. QED
    BY <1>12, <2>8, <2>12
<1>15. ASSUME str_key \in Str
       PROVE  e \in Str
  <2>1. Utf8(str_key)
    BY <1>15 DEF Str
  <2>2. Utf8(SubSeq(str_key, at + 1, stop))
    BY <1>1, <1>2, <1>5, <1>6, <2>1, Utf8Piece
  <2>3. QED
    BY <1>3, <1>7, <2>2 DEF Str, Texts
<1>16. QED
  BY <1>3, <1>11, <1>12, <1>13, <1>14, <1>15 DEF stop

-----------------------------------------------------------------------------
(***************************************************************************)
(* Layouts: the keys that the segments read so far can be the beginning    *)
(* of.                                                                     *)
(***************************************************************************)
\* Rows that are joined from one member of each set.
Joined(sets) == {FlattenSeq(q) : q \in Product(sets)}

\* The layouts of a type, when f holds those of its components.
LayoutsFrom(f, type) ==
  LET Rows(types) == Joined([k \in DOMAIN types |-> f[types[k]]])
  IN  CASE type.t \in DOMAIN FormOf -> {<<type>>}
        [] type.t = "unit" -> {<<>>}
        [] type.t = "struct" -> Rows(type.fields)
        [] type.t = "enum" ->
             UNION {{<<TagSlot(v.tag)>> \o row : row \in Rows(v.fields)} : v \in Range(type.variants)}
        [] type.t = "dir" ->
             UNION {{SubSeq(row, 1, n) : n \in 0 .. Len(row)} : row \in f[type.key]}

\* The layouts of a type depend on those of its components only.
LEMMA LayoutsFromComponents ==
  ASSUME NEW type \in AllTypes, NEW f, NEW g, \A part \in Components(type) : f[part] = g[part]
  PROVE  LayoutsFrom(f, type) = LayoutsFrom(g, type)
<1>1. CASE type \in Plainly
  <2>1. type.t \in DOMAIN FormOf \/ type.t = "unit"
    BY <1>1 DEF Plainly, StringType, RawType, U64Type, U32Type, UnitType, FormOf
  <2>2. QED
    BY <2>1 DEF LayoutsFrom, FormOf
<1>2. CASE type.t = "struct"
  <2>1. [k \in DOMAIN type.fields |-> f[type.fields[k]]] = [k \in DOMAIN type.fields |-> g[type.fields[k]]]
    BY <1>2, ComponentsAre
  <2>2. QED
    BY <1>2, <2>1 DEF LayoutsFrom, FormOf
<1>3. CASE type.t = "enum"
  <2>1. ASSUME NEW v \in Range(type.variants)
        PROVE  [k \in DOMAIN v.fields |-> f[v.fields[k]]] = [k \in DOMAIN v.fields |-> g[v.fields[k]]]
    BY <1>3, ComponentsAre DEF Range
  <2> DEFINE F(v) == {<<TagSlot(v.tag)>> \o row : row \in Joined([k \in DOMAIN v.fields |-> f[v.fields[k]]])}
             G(v) == {<<TagSlot(v.tag)>> \o row : row \in Joined([k \in DOMAIN v.fields |-> g[v.fields[k]]])}
  <2>2. \A v \in Range(type.variants) : F(v) = G(v)
    BY <2>1
  <2>3. LayoutsFrom(f, type) = UNION {F(v) : v \in Range(type.variants)}
    BY <1>3 DEF LayoutsFrom, FormOf
  <2>4. LayoutsFrom(g, type) = UNION {G(v) : v \in Range(type.variants)}
    BY <1>3 DEF LayoutsFrom, FormOf
  <2> HIDE DEF F, G
  <2>5. {F(v) : v \in Range(type.variants)} = {G(v) : v \in Range(type.variants)}
    BY <2>2
  <2>6. QED
    BY <2>3, <2>4, <2>5
<1>4. CASE type.t = "dir"
  BY <1>4, ComponentsAre DEF LayoutsFrom, FormOf
<1>5. QED
  BY <1>1, <1>2, <1>3, <1>4, TypeIs

\* A function that is defined type by type exists.
LEMMA LayoutsExist ==
  \E f : f = [type \in AllTypes |-> LayoutsFrom(f, type)]
<1> DEFINE Is(f, n) == f = [type \in Upto(n) |-> LayoutsFrom(f, type)]
           T == {n \in 0 .. Len(Types) : \E f : Is(f, n)}
<1>1. Len(Types) \in Nat /\ AllTypes = Upto(Len(Types)) /\ Upto(0) = {}
  BY TypesAreListed
<1>2. 0 \in T
  <2>1. Is([type \in Upto(0) |-> {}], 0)
    BY <1>1
  <2>2. 0 \in 0 .. Len(Types)
    BY <1>1
  <2>3. QED
    BY <2>1, <2>2
<1>3. ASSUME NEW n \in 0 .. Len(Types) - 1, n \in T
      PROVE  n + 1 \in T
  <2>1. PICK f : Is(f, n)
    BY <1>3
  <2> DEFINE g == [type \in Upto(n + 1) |-> IF type \in Upto(n) THEN f[type] ELSE LayoutsFrom(f, type)]
  <2>2. n \in 0 .. Len(Types) /\ n + 1 \in 0 .. Len(Types)
    BY <1>1
  <2>3. Upto(n) \subseteq Upto(n + 1)
    BY TypesAreListed
  <2>4. \A type \in Upto(n) : f[type] = LayoutsFrom(f, type)
    BY <2>1
  <2>5. \A type \in Upto(n) : g[type] = f[type]
    BY <2>3
  <2>6. \A type \in Upto(n + 1) : g[type] = LayoutsFrom(f, type)
    BY <2>4
  <2>7. g = [type \in Upto(n + 1) |-> g[type]]
    OBVIOUS
  <2> HIDE DEF g
  <2>8. ASSUME NEW type \in Upto(n + 1)
        PROVE  g[type] = LayoutsFrom(g, type)
    <3>1. Components(type) \subseteq Upto(n)
      BY <2>2, TypesAreListed
    <3>2. type \in AllTypes
      BY <2>2 DEF Upto, AllTypes, Range
    <3>3. \A part \in Components(type) : f[part] = g[part]
      BY <2>5, <3>1
    <3>4. LayoutsFrom(f, type) = LayoutsFrom(g, type)
      BY <3>2, <3>3, LayoutsFromComponents
    <3>5. QED
      BY <2>6, <3>4
  <2>9. Is(g, n + 1)
    BY <2>7, <2>8, Zenon
  <2>10. QED
    BY <2>2, <2>9
<1> HIDE DEF T
<1>4. \A n \in 0 .. Len(Types) : n \in T
  BY <1>1, <1>2, <1>3, Induction
<1>5. Len(Types) \in T
  BY <1>1, <1>4
<1>6. QED
  BY <1>1, <1>5 DEF T

\* The recursive Layouts is defined, so it satisfies its own equation.
LEMMA LayoutsAre ==
  \A type \in AllTypes : Layouts[type] = LayoutsFrom(Layouts, type)
<1>1. PICK f : f = [type \in AllTypes |-> LayoutsFrom(f, type)]
  BY LayoutsExist
<1>2. Layouts = CHOOSE g : g = [type \in AllTypes |-> LayoutsFrom(g, type)]
  BY Zenon DEF Layouts, LayoutsFrom, Joined
<1>3. Layouts = [type \in AllTypes |-> LayoutsFrom(Layouts, type)]
  BY <1>1, <1>2, Zenon
<1>4. QED
  BY <1>3

\* What a segment is: a tag, or a text of a type that is one segment.
Slots == [t : {"tag"}, tag : Str] \cup Leaves
Rows == Seq(Slots)
RowsOf(types) == Joined([k \in DOMAIN types |-> Layouts[types[k]]])

\* The layouts of each kind of type.
LEMMA LayoutKinds ==
  ASSUME NEW type \in AllTypes
  PROVE  /\ type \in Leaves => Layouts[type] = {<< type >>}
         /\ type = UnitType => Layouts[type] = {<<>>}
         /\ type.t = "struct" => Layouts[type] = RowsOf(type.fields)
         /\ type.t = "enum" =>
              \A row : row \in Layouts[type] <=>
                \E k \in DOMAIN type.variants : \E r \in RowsOf(type.variants[k].fields) :
                  row = << TagSlot(type.variants[k].tag) >> \o r
         /\ type.t = "dir" =>
              \A row : row \in Layouts[type] <=>
                \E r \in Layouts[type.key] : \E n \in 0 .. Len(r) : row = SubSeq(r, 1, n)
<1>1. Layouts[type] = LayoutsFrom(Layouts, type)
  BY LayoutsAre
<1>2. ASSUME type \in Leaves PROVE Layouts[type] = {<< type >>}
  <2>1. type.t \in {"string", "raw", "u64", "u32"}
    BY <1>2 DEF Leaves, StringType, RawType, U64Type, U32Type
  <2>2. QED
    BY <1>1, <2>1 DEF LayoutsFrom, FormOf
<1>3. ASSUME type = UnitType PROVE Layouts[type] = {<<>>}
  <2>1. type.t = "unit"
    BY <1>3 DEF UnitType
  <2>2. QED
    BY <1>1, <2>1 DEF LayoutsFrom, FormOf
<1>4. ASSUME type.t = "struct" PROVE Layouts[type] = RowsOf(type.fields)
  BY <1>1, <1>4 DEF LayoutsFrom, FormOf, RowsOf
<1>5. ASSUME type.t = "enum"
      PROVE  \A row : row \in Layouts[type] <=>
                \E k \in DOMAIN type.variants : \E r \in RowsOf(type.variants[k].fields) :
                  row = << TagSlot(type.variants[k].tag) >> \o r
  <2> DEFINE F(v) == {<<TagSlot(v.tag)>> \o row : row \in RowsOf(v.fields)}
  <2>1. Layouts[type] = UNION {F(v) : v \in Range(type.variants)}
    BY <1>1, <1>5 DEF LayoutsFrom, FormOf, RowsOf
  <2>2. \A row, v : row \in F(v) <=> \E r \in RowsOf(v.fields) : row = << TagSlot(v.tag) >> \o r
    OBVIOUS
  <2> HIDE DEF F
  <2>3. \A row : row \in Layouts[type] <=> \E v \in Range(type.variants) : row \in F(v)
    BY <2>1
  <2>4. \A row : row \in Layouts[type] <=> \E k \in DOMAIN type.variants : row \in F(type.variants[k])
    <3>1. \A v : v \in Range(type.variants) <=> \E k \in DOMAIN type.variants : v = type.variants[k]
      BY DEF Range
    <3>2. QED
      BY <2>3, <3>1, Zenon
  <2>5. \A row : \A k \in DOMAIN type.variants : row \in F(type.variants[k]) <=>
          \E r \in RowsOf(type.variants[k].fields) : row = << TagSlot(type.variants[k].tag) >> \o r
    BY <2>2
  <2>6. QED
    BY <2>4, <2>5, Zenon
<1>6. ASSUME type.t = "dir"
      PROVE  \A row : row \in Layouts[type] <=>
                \E r \in Layouts[type.key] : \E n \in 0 .. Len(r) : row = SubSeq(r, 1, n)
  <2> DEFINE F(r) == {SubSeq(r, 1, n) : n \in 0 .. Len(r)}
  <2>1. Layouts[type] = UNION {F(r) : r \in Layouts[type.key]}
    BY <1>1, <1>6 DEF LayoutsFrom, FormOf
  <2>2. \A row, r : row \in F(r) <=> \E n \in 0 .. Len(r) : row = SubSeq(r, 1, n)
    OBVIOUS
  <2> HIDE DEF F
  <2>3. \A row : row \in Layouts[type] <=> \E r \in Layouts[type.key] : row \in F(r)
    BY <2>1
  <2>4. QED
    BY <2>2, <2>3
<1>7. QED
  BY <1>2, <1>3, <1>4, <1>5, <1>6

\* The sets to join are of rows, and not empty.
IsRows(X) == X # {} /\ X \subseteq Rows
AreRows(sets) == IsList(sets) /\ \A k \in DOMAIN sets : IsRows(sets[k])

\* Joined rows are rows.
LEMMA JoinedIs ==
  ASSUME NEW sets, AreRows(sets)
  PROVE  /\ IsRows(Joined(sets))
         /\ \A q \in Product(sets) : q \in Seq(Rows)
<1>1. Len(sets) \in Nat /\ DOMAIN sets = 1 .. Len(sets)
  BY ListIs DEF AreRows
<1>2. ASSUME NEW q \in Product(sets)
      PROVE  q \in Seq(Rows)
  <2>1. IsList(q) /\ Len(q) = Len(sets) /\ \A k \in DOMAIN sets : q[k] \in sets[k]
    BY <1>1, ProductIs
  <2>2. q \in Seq(Range(q)) /\ DOMAIN q = DOMAIN sets
    BY <1>1, <2>1, ListIs DEF IsList
  <2>3. \A k \in DOMAIN q : q[k] \in Rows
    BY <2>1, <2>2 DEF AreRows, IsRows
  <2>4. QED
    BY <2>2, <2>3
<1>3. \A q \in Product(sets) : FlattenSeq(q) \in Rows
  <2> USE DEF Rows
  <2>1. \A q \in Seq(Rows) : FlattenSeq(q) \in Rows
    BY FlattenType
  <2>2. QED
    BY <1>2, <2>1
<1>4. Product(sets) # {}
  <2> DEFINE q == [k \in 1 .. Len(sets) |-> CHOOSE x \in sets[k] : TRUE]
  <2>1. \A k \in 1 .. Len(sets) : q[k] \in sets[k]
    BY <1>1 DEF AreRows, IsRows
  <2>2. \A k \in 1 .. Len(sets) : q[k] \in Rows
    BY <1>1, <2>1 DEF AreRows, IsRows
  <2>3. q \in [1 .. Len(sets) -> Rows]
    BY <2>2
  <2>4. q \in Seq(Rows) /\ Len(q) = Len(sets)
    BY <1>1, <2>3
  <2> HIDE DEF q
  <2>5. IsList(q)
    BY <2>4 DEF IsList, Range
  <2>6. q \in Product(sets)
    BY <1>1, <2>1, <2>4, <2>5, ProductIs
  <2>7. QED
    BY <2>6
<1>5. QED
  BY <1>2, <1>3, <1>4 DEF Joined, IsRows

\* Nothing is joined to the empty row, and one set to its rows.
LEMMA JoinedOne ==
  /\ Joined(<<>>) = {<<>>}
  /\ \A X : IsRows(X) => AreRows(<< X >>) /\ Joined(<< X >>) = X
<1>1. Joined(<<>>) = {<<>>}
  <2>1. \A q : q \in Product(<<>>) <=> q = <<>>
    <3>1. PICK none : none = <<>>
      OBVIOUS
    <3>2. Len(none) \in Nat /\ DOMAIN none = 1 .. Len(none) /\ Len(none) = 0 /\ DOMAIN none = {}
      BY <3>1
    <3>3. \A q : q \in Product(none) <=>
            IsList(q) /\ Len(q) = Len(none) /\ \A k \in DOMAIN none : q[k] \in none[k]
      BY <3>2, ProductIs
    <3>4. \A q : q \in Product(none) <=> IsList(q) /\ Len(q) = 0
      BY <3>2, <3>3
    <3>5. \A q : IsList(q) /\ Len(q) = 0 => q = <<>>
      BY DEF IsList
    <3>6. IsList(<<>>) /\ Len(<<>>) = 0
      BY DEF IsList
    <3>7. QED
      BY <3>1, <3>4, <3>5, <3>6
  <2>2. Product(<<>>) = {<<>>}
    BY <2>1
  <2>3. QED
    BY <2>2, FlattenEmpty DEF Joined
<1>2. ASSUME NEW X, IsRows(X)
      PROVE  AreRows(<< X >>) /\ Joined(<< X >>) = X
  <2>1. PICK sets : sets = << X >>
    OBVIOUS
  <2>2. IsList(sets) /\ Len(sets) = 1 /\ sets[1] = X /\ DOMAIN sets = {1}
    BY <2>1, PathOne
  <2>3. AreRows(sets)
    BY <1>2, <2>2 DEF AreRows
  <2>4. \A q : q \in Product(sets) <=> IsList(q) /\ Len(q) = 1 /\ q[1] \in X
    <3>1. Len(sets) \in Nat /\ DOMAIN sets = 1 .. Len(sets)
      BY <2>2
    <3>2. QED
      BY <2>2, <3>1, ProductIs
  <2>5. ASSUME NEW q \in Product(sets) PROVE FlattenSeq(q) \in X
    <3>1. q \in Seq(Rows) /\ Len(q) = 1 /\ q[1] \in X
      BY <2>3, <2>4, JoinedIs
    <3>2. PICK x : x = q[1]
      OBVIOUS
    <3>3. q = << x >> /\ x \in Rows
      BY <1>2, <3>1, <3>2 DEF IsRows
    <3>4. FlattenSeq(<< x >>) = x
      BY <3>3, FlattenOne DEF Rows
    <3>5. QED
      BY <3>1, <3>2, <3>3, <3>4
  <2>6. ASSUME NEW x \in X PROVE \E q \in Product(sets) : FlattenSeq(q) = x
    <3>1. x \in Rows
      BY <1>2 DEF IsRows
    <3>2. FlattenSeq(<< x >>) = x
      BY <3>1, FlattenOne DEF Rows
    <3>3. IsList(<< x >>) /\ Len(<< x >>) = 1 /\ << x >>[1] = x
      BY PathOne
    <3>4. QED
      BY <2>4, <3>2, <3>3
  <2>7. QED
    BY <2>1, <2>3, <2>5, <2>6 DEF Joined
<1>3. QED
  BY <1>1, <1>2

\* Each row of one set with each of another one.
Glued(A, B) == {x \o y : x \in A, y \in B}

\* A row is glued when it is one of these.
LEMMA GluedIs ==
  ASSUME NEW A, NEW B, NEW z
  PROVE  z \in Glued(A, B) <=> \E x \in A : \E y \in B : z = x \o y
BY DEF Glued

\* A function of 1 .. n is a sequence.
LEMMA FunctionIsSequence ==
  ASSUME NEW n \in Nat, NEW S, NEW x \in [1 .. n -> S]
  PROVE  x \in Seq(S) /\ Len(x) = n
OBVIOUS

\* Two lists of sets are joined each on its own.
LEMMA JoinedConcat ==
  ASSUME NEW a, AreRows(a), NEW b, AreRows(b), NEW c, c = a \o b
  PROVE  AreRows(c) /\ Joined(c) = Glued(Joined(a), Joined(b))
<1>1. c = a \o b
  OBVIOUS
<1>2. /\ IsList(c) /\ Len(c) = Len(a) + Len(b)
      /\ \A k \in 1 .. Len(a) : c[k] = a[k]
      /\ \A k \in 1 .. Len(b) : c[Len(a) + k] = b[k]
  BY <1>1, ListConcat DEF AreRows
<1>3. /\ Len(a) \in Nat /\ DOMAIN a = 1 .. Len(a)
      /\ Len(b) \in Nat /\ DOMAIN b = 1 .. Len(b)
      /\ Len(c) \in Nat /\ DOMAIN c = 1 .. Len(c)
  BY <1>2, ListIs DEF AreRows
<1>4. ASSUME NEW k \in DOMAIN c
      PROVE  k \in 1 .. Len(a) \/ \E j \in 1 .. Len(b) : k = Len(a) + j
  <2>1. k \in Nat /\ k >= 1 /\ k <= Len(a) + Len(b)
    BY <1>2, <1>3
  <2>2. CASE k <= Len(a)
    BY <1>3, <2>1, <2>2
  <2>3. CASE k > Len(a)
    <3>1. k - Len(a) \in 1 .. Len(b) /\ k = Len(a) + (k - Len(a))
      BY <1>3, <2>1, <2>3
    <3>2. QED
      BY <3>1
  <2>4. QED
    BY <1>3, <2>1, <2>2, <2>3
<1>5. \A k \in 1 .. Len(a) : k \in DOMAIN c
  BY <1>2, <1>3
<1>6. \A k \in 1 .. Len(b) : Len(a) + k \in DOMAIN c
  BY <1>2, <1>3
<1>7. AreRows(c)
  <2>1. \A k \in 1 .. Len(a) : IsRows(c[k])
    BY <1>2, <1>3 DEF AreRows
  <2>2. \A k \in 1 .. Len(b) : IsRows(c[Len(a) + k])
    BY <1>2, <1>3 DEF AreRows
  <2>3. \A k \in DOMAIN c : IsRows(c[k])
    BY <1>4, <2>1, <2>2
  <2>4. QED
    BY <1>2, <2>3 DEF AreRows
<1>8. ASSUME NEW x \in Product(a), NEW y \in Product(b)
      PROVE  x \o y \in Product(c) /\ FlattenSeq(x \o y) = FlattenSeq(x) \o FlattenSeq(y)
  <2>1. /\ IsList(x) /\ Len(x) = Len(a) /\ \A k \in DOMAIN a : x[k] \in a[k]
        /\ IsList(y) /\ Len(y) = Len(b) /\ \A k \in DOMAIN b : y[k] \in b[k]
    BY <1>3, ProductIs
  <2>2. PICK z : z = x \o y
    OBVIOUS
  <2>3. /\ IsList(z) /\ Len(z) = Len(a) + Len(b)
        /\ \A k \in 1 .. Len(a) : z[k] = x[k]
        /\ \A k \in 1 .. Len(b) : z[Len(a) + k] = y[k]
    <3>1. /\ IsList(z) /\ Len(z) = Len(x) + Len(y)
          /\ \A k \in 1 .. Len(x) : z[k] = x[k]
          /\ \A k \in 1 .. Len(y) : z[Len(x) + k] = y[k]
      <4>1. IsList(x) /\ IsList(y)
        BY <2>1
      <4>2. QED
        BY <2>2, <4>1, ListConcat
    <3>2. QED
      BY <2>1, <3>1
  <2>4. \A k \in 1 .. Len(a) : z[k] \in c[k]
    BY <1>2, <1>3, <2>1, <2>3
  <2>5. \A k \in 1 .. Len(b) : z[Len(a) + k] \in c[Len(a) + k]
    BY <1>2, <1>3, <2>1, <2>3
  <2>6. \A k \in DOMAIN c : z[k] \in c[k]
    BY <1>4, <2>4, <2>5
  <2>7. z \in Product(c)
    BY <1>2, <1>3, <2>3, <2>6, ProductIs
  <2>8. x \in Seq(Rows) /\ y \in Seq(Rows)
    BY JoinedIs
  <2>9. FlattenSeq(x \o y) = FlattenSeq(x) \o FlattenSeq(y)
    BY <2>8, FlattenConcat DEF Rows
  <2>10. QED
    BY <2>2, <2>7, <2>9
<1>9. ASSUME NEW z \in Product(c)
      PROVE  \E x \in Product(a), y \in Product(b) : z = x \o y
  <2>1. IsList(z) /\ Len(z) = Len(c) /\ \A k \in DOMAIN c : z[k] \in c[k]
    BY <1>3, ProductIs
  <2> DEFINE x == [k \in 1 .. Len(a) |-> z[k]]
             y == [k \in 1 .. Len(b) |-> z[Len(a) + k]]
  <2>2. /\ \A k \in 1 .. Len(a) : x[k] \in a[k]
        /\ \A k \in 1 .. Len(b) : y[k] \in b[k]
    BY <1>2, <1>5, <1>6, <2>1
  <2>3. PICK S : S = Range(z)
    OBVIOUS
  <2>4. z \in Seq(S) /\ DOMAIN z = DOMAIN c
    BY <1>3, <2>1, <2>3, ListIs DEF IsList
  <2>5. /\ \A k \in 1 .. Len(a) : x[k] \in S /\ x[k] = z[k]
        /\ \A k \in 1 .. Len(b) : y[k] \in S /\ y[k] = z[Len(a) + k]
    BY <1>5, <1>6, <2>4
  <2>6. x \in [1 .. Len(a) -> S] /\ y \in [1 .. Len(b) -> S]
    BY <2>5
  <2> HIDE DEF x, y
  <2>7. /\ x \in Seq(S) /\ Len(x) = Len(a)
        /\ y \in Seq(S) /\ Len(y) = Len(b)
    BY <1>3, <2>6, FunctionIsSequence
  <2>8. IsList(x) /\ IsList(y)
    BY <2>7 DEF IsList, Range
  <2>9. x \in Product(a) /\ y \in Product(b)
    BY <1>3, <2>2, <2>7, <2>8, ProductIs
  <2>10. z = x \o y
    <3>1. PICK u : u = x \o y
      OBVIOUS
    <3>2. /\ u \in Seq(S) /\ Len(u) = Len(a) + Len(b)
          /\ \A k \in 1 .. Len(a) : u[k] = x[k]
          /\ \A k \in 1 .. Len(b) : u[Len(a) + k] = y[k]
      <4>1. u \in Seq(S)
        BY <2>7, <3>1
      <4>2. /\ Len(u) = Len(x) + Len(y)
            /\ \A k \in 1 .. Len(x) : u[k] = x[k]
            /\ \A k \in 1 .. Len(y) : u[Len(x) + k] = y[k]
        BY <2>8, <3>1, ListConcat
      <4>3. QED
        BY <2>7, <4>1, <4>2
    <3>3. /\ \A k \in 1 .. Len(a) : u[k] = z[k]
          /\ \A k \in 1 .. Len(b) : u[Len(a) + k] = z[Len(a) + k]
      BY <2>5, <3>2
    <3>4. \A k \in DOMAIN c : u[k] = z[k]
      BY <1>4, <3>3
    <3>5. \A k \in 1 .. Len(u) : u[k] = z[k]
      BY <1>2, <1>3, <3>2, <3>4
    <3>6. Len(u) = Len(z)
      BY <1>2, <2>1, <3>2
    <3>7. u = z
      BY <2>4, <3>2, <3>5, <3>6, SeqEqual
    <3>8. QED
      BY <3>1, <3>7
  <2>11. QED
    BY <2>9, <2>10
<1>10. ASSUME NEW x \in Joined(a), NEW y \in Joined(b)
       PROVE  x \o y \in Joined(c)
  <2>1. PICK p \in Product(a), q \in Product(b) : x = FlattenSeq(p) /\ y = FlattenSeq(q)
    BY DEF Joined
  <2>2. QED
    BY <1>8, <2>1 DEF Joined
<1>11. ASSUME NEW z \in Joined(c)
       PROVE  \E x \in Joined(a) : \E y \in Joined(b) : z = x \o y
  <2>1. PICK q \in Product(c) : z = FlattenSeq(q)
    BY DEF Joined
  <2>2. PICK u \in Product(a), v \in Product(b) : q = u \o v
    BY <1>9
  <2>3. FlattenSeq(u) \in Joined(a) /\ FlattenSeq(v) \in Joined(b)
    BY DEF Joined
  <2>4. z = FlattenSeq(u) \o FlattenSeq(v)
    BY <1>8, <2>1, <2>2
  <2>5. QED
    BY <2>3, <2>4
<1>12. Joined(c) = Glued(Joined(a), Joined(b))
  <2>1. \A z : z \in Glued(Joined(a), Joined(b)) <=> \E x \in Joined(a) : \E y \in Joined(b) : z = x \o y
    BY GluedIs
  <2>2. ASSUME NEW z \in Joined(c) PROVE z \in Glued(Joined(a), Joined(b))
    BY <1>11, <2>1
  <2>3. ASSUME NEW z \in Glued(Joined(a), Joined(b)) PROVE z \in Joined(c)
    <3>1. PICK x \in Joined(a) : \E y \in Joined(b) : z = x \o y
      BY <2>1
    <3>2. PICK y \in Joined(b) : z = x \o y
      BY <3>1
    <3>3. x \o y \in Joined(c)
      BY <1>10
    <3>4. QED
      BY <3>2, <3>3
  <2>4. QED
    BY <2>2, <2>3
<1>13. QED
  BY <1>7, <1>12

\* The layouts of a list of types, each of which has some.
LEMMA RowsOfTypes ==
  ASSUME NEW types, IsList(types), \A k \in DOMAIN types : IsRows(Layouts[types[k]])
  PROVE  IsRows(RowsOf(types))
<1>1. PICK sets : sets = [k \in DOMAIN types |-> Layouts[types[k]]]
  OBVIOUS
<1>2. Len(types) \in Nat /\ DOMAIN types = 1 .. Len(types)
  BY ListIs
<1>3. sets \in [1 .. Len(types) -> SUBSET Rows] /\ \A k \in DOMAIN types : IsRows(sets[k])
  BY <1>1, <1>2 DEF IsRows
<1>4. sets \in Seq(SUBSET Rows) /\ DOMAIN sets = DOMAIN types
  BY <1>2, <1>3
<1>5. AreRows(sets)
  BY <1>3, <1>4 DEF AreRows, IsList, Range
<1>6. QED
  BY <1>1, <1>5, JoinedIs DEF RowsOf

\* A tag before a row is a row.
LEMMA SlotBefore ==
  ASSUME NEW slot \in Slots, NEW row \in Rows
  PROVE  /\ << slot >> \in Rows /\ << slot >> \o row \in Rows
         /\ Len(<< slot >> \o row) = Len(row) + 1 /\ (<< slot >> \o row)[1] = slot
BY DEF Rows

\* A type has layouts, and they are rows: an enum has variants.
LEMMA LayoutsTyped ==
  \A type \in AllTypes : IsRows(Layouts[type])
<1> DEFINE P == {type \in AllTypes : IsRows(Layouts[type])}
<1>1. ASSUME NEW type \in AllTypes, Components(type) \subseteq P
      PROVE  type \in P
  <2>1. \A part \in Components(type) : IsRows(Layouts[part])
    BY <1>1
  <2>2. CASE type \in Leaves
    <3>1. type \in Slots /\ Layouts[type] = {<< type >>}
      BY <2>2, LayoutKinds DEF Slots
    <3>2. << type >> \in Rows
      BY <3>1 DEF Rows
    <3>3. QED
      BY <3>1, <3>2 DEF IsRows
  <2>3. CASE type = UnitType
    <3>1. Layouts[type] = {<<>>} /\ <<>> \in Rows
      BY <2>3, LayoutKinds DEF Rows
    <3>2. QED
      BY <3>1 DEF IsRows
  <2>4. CASE type.t = "struct"
    <3>1. IsList(type.fields)
      BY <2>4, StructValues
    <3>2. \A k \in DOMAIN type.fields : IsRows(Layouts[type.fields[k]])
      BY <2>1, <2>4, ComponentsAre
    <3>3. QED
      BY <2>4, <3>1, <3>2, RowsOfTypes, LayoutKinds
  <2>5. CASE type.t = "enum"
    <3>1. IsEnum(type.variants)
      BY <2>5, TypeIs DEF Plainly, StringType, RawType, U64Type, U32Type, UnitType
    <3>2. ASSUME NEW k \in DOMAIN type.variants
          PROVE  TagSlot(type.variants[k].tag) \in Slots /\ IsRows(RowsOf(type.variants[k].fields))
      <4>1. IsList(type.variants[k].fields) /\ type.variants[k].tag \in Str
        BY <3>1 DEF IsEnum
      <4>2. \A j \in DOMAIN type.variants[k].fields : IsRows(Layouts[type.variants[k].fields[j]])
        BY <2>1, <2>5, ComponentsAre
      <4>3. IsRows(RowsOf(type.variants[k].fields))
        BY <4>1, <4>2, RowsOfTypes
      <4>4. QED
        BY <4>1, <4>3 DEF TagSlot, Slots
    <3>3. \A row : row \in Layouts[type] <=>
                \E k \in DOMAIN type.variants : \E r \in RowsOf(type.variants[k].fields) :
                  row = << TagSlot(type.variants[k].tag) >> \o r
      BY <2>5, LayoutKinds
    <3>4. Layouts[type] \subseteq Rows
      <4>1. ASSUME NEW row \in Layouts[type] PROVE row \in Rows
        <5>1. PICK k \in DOMAIN type.variants : \E r \in RowsOf(type.variants[k].fields) :
                row = << TagSlot(type.variants[k].tag) >> \o r
          BY <3>3
        <5>2. PICK r \in RowsOf(type.variants[k].fields) : row = << TagSlot(type.variants[k].tag) >> \o r
          BY <5>1
        <5>3. TagSlot(type.variants[k].tag) \in Slots /\ r \in Rows
          BY <3>2 DEF IsRows
        <5>4. QED
          BY <5>2, <5>3, SlotBefore
      <4>2. QED
        BY <4>1
    <3>5. Layouts[type] # {}
      <4>1. 1 \in DOMAIN type.variants
        <5>1. type.variants \in Seq(Range(type.variants)) /\ type.variants # <<>>
          BY <3>1 DEF IsEnum, IsList
        <5>2. QED
          BY <5>1
      <4>2. PICK r : r \in RowsOf(type.variants[1].fields)
        BY <3>2, <4>1 DEF IsRows
      <4>3. QED
        BY <3>3, <4>1, <4>2
    <3>6. QED
      BY <3>4, <3>5 DEF IsRows
  <2>6. CASE type.t = "dir"
    <3>1. IsRows(Layouts[type.key])
      BY <2>1, <2>6, ComponentsAre
    <3>2. \A row : row \in Layouts[type] <=>
                \E r \in Layouts[type.key] : \E n \in 0 .. Len(r) : row = SubSeq(r, 1, n)
      BY <2>6, LayoutKinds
    <3>3. \A r \in Rows : Len(r) \in Nat /\ \A n \in 0 .. Len(r) : SubSeq(r, 1, n) \in Rows
      <4>1. ASSUME NEW r \in Rows
            PROVE  Len(r) \in Nat /\ \A n \in 0 .. Len(r) : SubSeq(r, 1, n) \in Rows
        <5>1. r \in Seq(Slots) /\ Len(r) \in Nat
          BY DEF Rows
        <5>2. ASSUME NEW n \in 0 .. Len(r) PROVE SubSeq(r, 1, n) \in Rows
          <6>1. n \in Int /\ 1 \in Int /\ \A k \in 1 .. n : r[k] \in Slots
            BY <5>1
          <6>2. QED
            BY <6>1, SubSeqProperties DEF Rows
        <5>3. QED
          BY <5>1, <5>2
      <4>2. QED
        BY <4>1
    <3>4. Layouts[type] \subseteq Rows
      <4>1. ASSUME NEW row \in Layouts[type] PROVE row \in Rows
        <5>1. PICK r \in Layouts[type.key] : \E n \in 0 .. Len(r) : row = SubSeq(r, 1, n)
          BY <3>2
        <5>2. r \in Rows
          BY <3>1 DEF IsRows
        <5>3. QED
          BY <3>3, <5>1, <5>2
      <4>2. QED
        BY <4>1
    <3>5. PICK r \in Layouts[type.key] : r \in Rows
      BY <3>1 DEF IsRows
    <3>6. 0 \in 0 .. Len(r)
      BY <3>3, <3>5
    <3>7. QED
      BY <3>2, <3>4, <3>5, <3>6 DEF IsRows
  <2>7. type \in Leaves \/ type = UnitType \/ type.t = "struct" \/ type.t = "enum" \/ type.t = "dir"
    BY TypeIs DEF Plainly, Leaves
  <2>8. IsRows(Layouts[type])
    BY <2>2, <2>3, <2>4, <2>5, <2>6, <2>7
  <2>9. QED
    BY <2>8
<1> HIDE DEF P
<1>2. AllTypes \subseteq P
  BY <1>1, TypeInduction
<1>3. QED
  BY <1>2 DEF P

\* The segments that a call reads, and those that calls read.
CallLayouts(name, call) ==
  IF call \in AllTypes THEN Layouts[call]
  ELSE IF call.t = "prefix" THEN {<< TagSlot(Catalog[name].prefix) >>} ELSE {<<>>}
CallRows(name, calls) == [k \in DOMAIN calls |-> CallLayouts(name, calls[k])]
Ahead(name, calls) == Joined(CallRows(name, calls))

\* They are rows.
LEMMA CallLayoutsAre ==
  ASSUME NEW name \in DOMAIN Catalog, NEW call
  PROVE  IsRows(CallLayouts(name, call))
<1>1. TagSlot(Catalog[name].prefix) \in Slots
  BY CatalogAssumption DEF TagSlot, Slots
<1>2. << TagSlot(Catalog[name].prefix) >> \in Rows /\ <<>> \in Rows
  BY <1>1 DEF Rows
<1>3. QED
  BY <1>2, LayoutsTyped DEF CallLayouts, IsRows

LEMMA CallRowsAre ==
  ASSUME NEW name \in DOMAIN Catalog, NEW calls, IsList(calls)
  PROVE  AreRows(CallRows(name, calls)) /\ Len(CallRows(name, calls)) = Len(calls)
<1>1. Len(calls) \in Nat /\ DOMAIN calls = 1 .. Len(calls)
  BY ListIs
<1>2. \A k \in DOMAIN calls : IsRows(CallLayouts(name, calls[k]))
  BY CallLayoutsAre
<1>3. CallRows(name, calls) \in [1 .. Len(calls) -> SUBSET Rows]
  BY <1>1, <1>2 DEF IsRows, CallRows
<1>4. CallRows(name, calls) \in Seq(SUBSET Rows) /\ Len(CallRows(name, calls)) = Len(calls)
  BY <1>1, <1>3
<1>5. \A k \in DOMAIN CallRows(name, calls) : IsRows(CallRows(name, calls)[k])
  BY <1>2 DEF CallRows
<1>6. IsList(CallRows(name, calls))
  BY <1>4 DEF IsList, Range
<1>7. QED
  BY <1>4, <1>5, <1>6 DEF AreRows

\* Calls after other calls.
LEMMA CallRowsConcat ==
  ASSUME NEW name \in DOMAIN Catalog, NEW a, IsList(a), NEW b, IsList(b)
  PROVE  CallRows(name, a \o b) = CallRows(name, a) \o CallRows(name, b)
<1>1. PICK c, x, y, z : c = a \o b /\ x = CallRows(name, a) /\ y = CallRows(name, b) /\ z = CallRows(name, c)
  OBVIOUS
<1>2. /\ IsList(c) /\ Len(c) = Len(a) + Len(b)
      /\ \A k \in 1 .. Len(a) : c[k] = a[k]
      /\ \A k \in 1 .. Len(b) : c[Len(a) + k] = b[k]
  BY <1>1, ListConcat
<1>3. /\ Len(a) \in Nat /\ DOMAIN a = 1 .. Len(a)
      /\ Len(b) \in Nat /\ DOMAIN b = 1 .. Len(b)
      /\ DOMAIN c = 1 .. Len(c)
  BY <1>2, ListIs
<1>4. /\ \A k \in 1 .. Len(a) : x[k] = CallLayouts(name, a[k])
      /\ \A k \in 1 .. Len(b) : y[k] = CallLayouts(name, b[k])
      /\ \A k \in 1 .. Len(c) : z[k] = CallLayouts(name, c[k])
  BY <1>1, <1>3 DEF CallRows
<1>5. /\ IsList(x) /\ Len(x) = Len(a) /\ IsList(y) /\ Len(y) = Len(b)
      /\ IsList(z) /\ Len(z) = Len(c)
  BY <1>1, <1>2, CallRowsAre DEF AreRows
<1>6. PICK u : u = x \o y
  OBVIOUS
<1>7. /\ IsList(u) /\ Len(u) = Len(x) + Len(y)
      /\ \A k \in 1 .. Len(x) : u[k] = x[k]
      /\ \A k \in 1 .. Len(y) : u[Len(x) + k] = y[k]
  <2>1. IsList(x) /\ IsList(y)
    BY <1>5
  <2>2. QED
    BY <1>6, <2>1, ListConcat
<1>8. ASSUME NEW k \in 1 .. Len(z)
      PROVE  u[k] = z[k]
  <2>1. CASE k <= Len(a)
    <3>1. k \in 1 .. Len(a)
      BY <1>3, <2>1
    <3>2. QED
      BY <1>2, <1>4, <1>5, <1>7, <3>1
  <2>2. CASE k > Len(a)
    <3>1. PICK j \in 1 .. Len(b) : k = Len(a) + j
      <4>1. k - Len(a) \in 1 .. Len(b) /\ k = Len(a) + (k - Len(a))
        BY <1>2, <1>3, <1>5, <2>2
      <4>2. QED
        BY <4>1
    <3>2. QED
      BY <1>2, <1>4, <1>5, <1>7, <3>1
  <2>3. QED
    BY <1>3, <2>1, <2>2
<1>9. u = z
  <2>1. PICK S : S = Range(u) \cup Range(z)
    OBVIOUS
  <2>2. u \in Seq(S) /\ z \in Seq(S)
    BY <1>5, <1>7, <2>1 DEF IsList
  <2>3. Len(u) = Len(z)
    BY <1>2, <1>5, <1>7
  <2>4. QED
    BY <1>8, <2>2, <2>3, SeqEqual
<1>10. QED
  BY <1>1, <1>6, <1>9

\* What calls read, from what each of them reads.
LEMMA AheadIs ==
  ASSUME NEW name \in DOMAIN Catalog
  PROVE  /\ Ahead(name, <<>>) = {<<>>}
         /\ \A call : Ahead(name, << call >>) = CallLayouts(name, call)
         /\ \A calls : IsList(calls) => IsRows(Ahead(name, calls))
<1>1. CallRows(name, <<>>) = <<>>
  BY DEF CallRows
<1>2. \A call : CallRows(name, << call >>) = << CallLayouts(name, call) >>
  BY DEF CallRows
<1>3. Ahead(name, <<>>) = {<<>>}
  BY <1>1, JoinedOne DEF Ahead
<1>4. \A call : Ahead(name, << call >>) = CallLayouts(name, call)
  BY <1>2, CallLayoutsAre, JoinedOne DEF Ahead
<1>5. \A calls : IsList(calls) => IsRows(Ahead(name, calls))
  BY CallRowsAre, JoinedIs DEF Ahead
<1>6. QED
  BY <1>3, <1>4, <1>5

LEMMA AheadConcat ==
  ASSUME NEW name \in DOMAIN Catalog, NEW a, IsList(a), NEW b, IsList(b), NEW c, c = a \o b
  PROVE  IsList(c) /\ Ahead(name, c) = Glued(Ahead(name, a), Ahead(name, b))
<1>1. PICK u, v, w : u = CallRows(name, a) /\ v = CallRows(name, b) /\ w = CallRows(name, c)
  OBVIOUS
<1>2. AreRows(u) /\ AreRows(v) /\ w = u \o v
  BY <1>1, CallRowsAre, CallRowsConcat
<1>3. Ahead(name, a) = Joined(u) /\ Ahead(name, b) = Joined(v) /\ Ahead(name, c) = Joined(w)
  BY <1>1 DEF Ahead
<1>4. Joined(w) = Glued(Joined(u), Joined(v))
  BY <1>2, JoinedConcat
<1>5. IsList(c)
  BY ListConcat
<1>6. QED
  BY <1>3, <1>4, <1>5

\* The keys that begin as the n segments do have one beginning, before what the
\* calls read.
Aligned(segments, n, name, calls) ==
  \E f \in Rows :
    /\ Len(f) = n
    /\ \A row : row \in Open(segments, n, name) <=> \E r \in Ahead(name, calls) : row = f \o r

\* One more segment leaves the keys that it fits.
LEMMA OpenIs ==
  ASSUME NEW name \in DOMAIN Catalog, NEW segments, NEW n \in Nat
  PROVE  /\ Open(segments, n, name) \subseteq Rows
         /\ \A row : row \in Open(segments, n + 1, name) <=>
              row \in Open(segments, n, name) /\ n + 1 <= Len(row) /\ Fits(segments[n + 1], row[n + 1])
         /\ \A m \in Nat : \A row : n <= m /\ row \in Open(segments, m, name) => row \in Open(segments, n, name)
<1>1. TagSlot(Catalog[name].prefix) \in Slots
  BY CatalogAssumption DEF TagSlot, Slots
<1>2. IsRows(Layouts[TypeOf(name)])
  BY CatalogAssumption, LayoutsTyped DEF TypeOf
<1>3. LayoutsOf(name) \subseteq Rows
  <2>1. \A row \in Rows : << TagSlot(Catalog[name].prefix) >> \o row \in Rows
    BY <1>1, SlotBefore
  <2>2. QED
    BY <1>2, <2>1 DEF LayoutsOf, IsRows
<1>4. \A row \in Rows : Len(row) \in Nat
  BY DEF Rows
<1>5. \A m : \A row : row \in Open(segments, m, name) <=>
        row \in LayoutsOf(name) /\ m <= Len(row) /\ \A k \in 1 .. m : Fits(segments[k], row[k])
  BY DEF Open
<1>6. Open(segments, n, name) \subseteq Rows
  BY <1>3, <1>5
<1>7. ASSUME NEW row \in LayoutsOf(name)
      PROVE  row \in Open(segments, n + 1, name) <=>
              row \in Open(segments, n, name) /\ n + 1 <= Len(row) /\ Fits(segments[n + 1], row[n + 1])
  <2>1. Len(row) \in Nat
    BY <1>3, <1>4
  <2>2. \A k : k \in 1 .. n + 1 <=> k \in 1 .. n \/ k = n + 1
    OBVIOUS
  <2>3. n + 1 <= Len(row) => n <= Len(row)
    BY <2>1
  <2>4. (\A k \in 1 .. n + 1 : Fits(segments[k], row[k]))
          <=> (\A k \in 1 .. n : Fits(segments[k], row[k])) /\ Fits(segments[n + 1], row[n + 1])
    BY <2>2
  <2>5. QED
    BY <1>5, <2>3, <2>4
<1>8. ASSUME NEW m \in Nat, NEW row \in LayoutsOf(name), n <= m, row \in Open(segments, m, name)
      PROVE  row \in Open(segments, n, name)
  <2>1. Len(row) \in Nat
    BY <1>3, <1>4
  <2>2. m <= Len(row) /\ \A k \in 1 .. m : Fits(segments[k], row[k])
    BY <1>5, <1>8
  <2>3. n <= Len(row) /\ \A k \in 1 .. n : k \in 1 .. m
    BY <1>8, <2>1, <2>2
  <2>4. QED
    BY <1>5, <2>2, <2>3
<1>9. QED
  BY <1>5, <1>6, <1>7, <1>8

\* Nothing is read: every layout begins with it.
LEMMA AlignStart ==
  ASSUME NEW name \in DOMAIN Catalog, NEW segments
  PROVE  Aligned(segments, 0, name, << [t |-> "prefix"], TypeOf(name) >>)
<1>1. PICK call, type, calls : call = [t |-> "prefix"] /\ type = TypeOf(name) /\ calls = << call, type >>
  OBVIOUS
<1>2. call \notin AllTypes /\ call.t = "prefix" /\ type \in AllTypes
  BY <1>1, TypeIsNoCall, CatalogAssumption DEF TypeOf
<1>3. calls = << call >> \o << type >> /\ IsList(<< call >>) /\ IsList(<< type >>)
  BY <1>1, PathOne
<1>4. CallLayouts(name, call) = {<< TagSlot(Catalog[name].prefix) >>} /\ CallLayouts(name, type) = Layouts[type]
  BY <1>2 DEF CallLayouts
<1>5. \A row : row \in Ahead(name, calls) <=>
        \E x \in {<< TagSlot(Catalog[name].prefix) >>}, y \in Layouts[type] : row = x \o y
  <2>1. PICK a, b : a = << call >> /\ b = << type >>
    OBVIOUS
  <2>2. IsList(a) /\ IsList(b) /\ calls = a \o b
    BY <1>3, <2>1
  <2>3. Ahead(name, a) = CallLayouts(name, call) /\ Ahead(name, b) = CallLayouts(name, type)
    BY <2>1, AheadIs
  <2>4. Ahead(name, calls) = Glued(Ahead(name, a), Ahead(name, b))
    BY <2>2, AheadConcat
  <2>5. QED
    BY <1>4, <2>3, <2>4 DEF Glued
<1>6. \A row : row \in Ahead(name, calls) <=> row \in LayoutsOf(name)
  BY <1>1, <1>5 DEF LayoutsOf
<1>7. \A row \in Open(segments, 0, name) : row \in Rows
  BY OpenIs
<1>8. \A row : row \in Open(segments, 0, name) <=> row \in LayoutsOf(name)
  <2>1. IsList(calls)
    BY <1>3, ListConcat
  <2>2. \A row \in LayoutsOf(name) : row \in Rows
    BY <1>6, <2>1, AheadIs DEF IsRows
  <2>3. \A row \in Rows : 0 <= Len(row)
    BY DEF Rows
  <2>4. \A k \in 1 .. 0 : FALSE
    OBVIOUS
  <2>5. QED
    BY <2>2, <2>3, <2>4 DEF Open
<1>9. \A row \in Rows : <<>> \o row = row
  BY DEF Rows
<1>10. <<>> \in Rows /\ Len(<<>>) = 0
  BY DEF Rows
<1>11. \A row : row \in Open(segments, 0, name) <=> \E r \in Ahead(name, calls) : row = <<>> \o r
  BY <1>6, <1>7, <1>8, <1>9
<1>12. QED
  BY <1>1, <1>10, <1>11 DEF Aligned

\* The next segment of a key.
LEMMA NextSlot ==
  ASSUME NEW f \in Rows, NEW r \in Rows, NEW n, Len(f) = n
  PROVE  /\ f \o r \in Rows /\ Len(f \o r) = n + Len(r) /\ Len(r) \in Nat /\ n \in Nat
         /\ n + 1 <= Len(f \o r) <=> r # <<>>
         /\ r # <<>> => (f \o r)[n + 1] = r[1]
<1>1. /\ f \in Seq(Slots) /\ r \in Seq(Slots) /\ n \in Nat /\ Len(r) \in Nat
      /\ r # <<>> <=> Len(r) >= 1
  BY DEF Rows
<1>2. f \o r \in Seq(Slots) /\ Len(f \o r) = n + Len(r)
  BY <1>1
<1>3. r # <<>> => (f \o r)[n + 1] = r[1]
  BY <1>1
<1>4. QED
  BY <1>1, <1>2, <1>3 DEF Rows

\* A segment that fits one slot of the next call leaves the calls after it.
LEMMA AlignNext ==
  ASSUME NEW name \in DOMAIN Catalog, NEW segments, NEW n \in Nat,
         NEW calls, IsList(calls), Aligned(segments, n, name, calls),
         NEW rest, IsList(rest), NEW slot \in Slots,
         \A r \in Ahead(name, calls) :
           (r # <<>> /\ Fits(segments[n + 1], r[1])) => \E x \in Ahead(name, rest) : r = << slot >> \o x,
         \A x \in Ahead(name, rest) : << slot >> \o x \in Ahead(name, calls),
         Fits(segments[n + 1], slot)
  PROVE  Aligned(segments, n + 1, name, rest)
<1>1. PICK f \in Rows :
    /\ Len(f) = n
    /\ \A row : row \in Open(segments, n, name) <=> \E r \in Ahead(name, calls) : row = f \o r
  BY DEF Aligned
<1>2. PICK g : g = f \o << slot >>
  OBVIOUS
<1>3. /\ \A r \in Ahead(name, calls) : r \in Rows
      /\ \A x \in Ahead(name, rest) : x \in Rows
  BY AheadIs DEF IsRows
<1>4. ASSUME NEW x \in Rows
      PROVE  g \o x = f \o (<< slot >> \o x)
  <2>1. f \in Seq(Slots) /\ << slot >> \in Seq(Slots) /\ x \in Seq(Slots)
    BY DEF Rows
  <2>2. QED
    BY <1>2, <2>1, ConcatAssociative
<1>5. g \in Rows /\ Len(g) = n + 1
  BY <1>1, <1>2 DEF Rows
<1>6. ASSUME NEW row \in Open(segments, n + 1, name)
      PROVE  \E x \in Ahead(name, rest) : row = g \o x
  <2>1. row \in Open(segments, n, name) /\ n + 1 <= Len(row) /\ Fits(segments[n + 1], row[n + 1])
    BY OpenIs
  <2>2. PICK r \in Ahead(name, calls) : row = f \o r
    BY <1>1, <2>1
  <2>3. r # <<>> /\ Fits(segments[n + 1], r[1])
    BY <1>1, <1>3, <2>1, <2>2, NextSlot
  <2>4. PICK x \in Ahead(name, rest) : r = << slot >> \o x
    BY <2>3
  <2>5. QED
    BY <1>3, <1>4, <2>2, <2>4
<1>7. ASSUME NEW x \in Ahead(name, rest)
      PROVE  g \o x \in Open(segments, n + 1, name)
  <2>1. PICK r : r = << slot >> \o x
    OBVIOUS
  <2>2. r \in Ahead(name, calls) /\ r \in Rows /\ r # <<>> /\ r[1] = slot
    <3>1. x \in Rows
      BY <1>3
    <3>2. r \in Rows /\ Len(r) = Len(x) + 1 /\ r[1] = slot /\ Len(x) \in Nat
      BY <2>1, <3>1, SlotBefore DEF Rows
    <3>3. r # <<>>
      BY <3>2
    <3>4. QED
      BY <2>1, <3>2, <3>3
  <2>3. f \o r \in Open(segments, n, name)
    BY <1>1, <2>2
  <2>4. n + 1 <= Len(f \o r) /\ Fits(segments[n + 1], (f \o r)[n + 1])
    BY <1>1, <2>2, NextSlot
  <2>5. f \o r \in Open(segments, n + 1, name)
    BY <2>3, <2>4, OpenIs
  <2>6. QED
    BY <1>3, <1>4, <2>1, <2>5
<1>8. QED
  BY <1>5, <1>6, <1>7 DEF Aligned

\* One that fits no slot leaves no key.
LEMMA AlignStops ==
  ASSUME NEW name \in DOMAIN Catalog, NEW segments, NEW n \in Nat,
         NEW calls, IsList(calls), Aligned(segments, n, name, calls),
         \A r \in Ahead(name, calls) : r # <<>> => ~ Fits(segments[n + 1], r[1])
  PROVE  Open(segments, n + 1, name) = {}
<1>1. PICK f \in Rows :
    /\ Len(f) = n
    /\ \A row : row \in Open(segments, n, name) <=> \E r \in Ahead(name, calls) : row = f \o r
  BY DEF Aligned
<1>2. ASSUME NEW row \in Open(segments, n + 1, name)
      PROVE  FALSE
  <2>1. row \in Open(segments, n, name) /\ n + 1 <= Len(row) /\ Fits(segments[n + 1], row[n + 1])
    BY OpenIs
  <2>2. PICK r \in Ahead(name, calls) : row = f \o r
    BY <1>1, <2>1
  <2>3. r \in Rows
    BY AheadIs DEF IsRows
  <2>4. r # <<>> /\ Fits(segments[n + 1], r[1])
    BY <1>1, <2>1, <2>2, <2>3, NextSlot
  <2>5. QED
    BY <2>4
<1>3. QED
  BY <1>2

\* No key has the segments, and no more.
Unspelled(segments, name) == \A row \in Open(segments, Len(segments), name) : Len(row) # Len(segments)

LEMMA UnspelledIs ==
  ASSUME NEW name \in DOMAIN Catalog, NEW segments, NEW n \in Nat, Len(segments) \in Nat
  PROVE  /\ n < Len(segments) /\ Open(segments, n + 1, name) = {} => Unspelled(segments, name)
         /\ \A calls : /\ IsList(calls) /\ Aligned(segments, n, name, calls)
                       /\ n = Len(segments) /\ <<>> \notin Ahead(name, calls)
              => Unspelled(segments, name)
         /\ n < Len(segments) /\ Aligned(segments, n, name, <<>>) => Unspelled(segments, name)
<1>1. ASSUME n < Len(segments), Open(segments, n + 1, name) = {}
      PROVE  Unspelled(segments, name)
  <2>1. n + 1 \in Nat /\ n + 1 <= Len(segments)
    BY <1>1
  <2>2. \A row : row \in Open(segments, Len(segments), name) => row \in Open(segments, n + 1, name)
    BY <2>1, OpenIs
  <2>3. QED
    BY <1>1, <2>2 DEF Unspelled
<1>2. ASSUME NEW calls, IsList(calls), Aligned(segments, n, name, calls),
             n = Len(segments), <<>> \notin Ahead(name, calls)
      PROVE  Unspelled(segments, name)
  <2>1. PICK f \in Rows :
      /\ Len(f) = n
      /\ \A row : row \in Open(segments, n, name) <=> \E r \in Ahead(name, calls) : row = f \o r
    BY <1>2 DEF Aligned
  <2>2. ASSUME NEW row \in Open(segments, n, name)
        PROVE  Len(row) # n
    <3>1. PICK r \in Ahead(name, calls) : row = f \o r
      BY <2>1
    <3>2. r \in Rows /\ r # <<>>
      BY <1>2, AheadIs DEF IsRows
    <3>3. Len(r) \in Nat /\ Len(r) # 0
      BY <3>2 DEF Rows
    <3>4. Len(row) = n + Len(r)
      BY <2>1, <3>1, <3>2, NextSlot
    <3>5. QED
      BY <3>3, <3>4
  <2>3. QED
    BY <1>2, <2>2 DEF Unspelled
<1>3. ASSUME n < Len(segments), Aligned(segments, n, name, <<>>)
      PROVE  Unspelled(segments, name)
  <2>1. PICK f \in Rows :
      /\ Len(f) = n
      /\ \A row : row \in Open(segments, n, name) <=> \E r \in {<<>>} : row = f \o r
    BY <1>3, AheadIs DEF Aligned
  <2>2. f \o <<>> = f
    BY DEF Rows
  <2>3. \A row \in Open(segments, n, name) : Len(row) = n
    BY <2>1, <2>2
  <2>4. \A row \in Open(segments, Len(segments), name) : row \in Open(segments, n, name)
    BY <1>3, OpenIs
  <2>5. QED
    BY <1>3, <2>3, <2>4 DEF Unspelled
<1>4. QED
  BY <1>1, <1>2, <1>3

\* The segment after the first n is a tag in each key that begins with these,
\* and another one than in the text.
Points(segments, n, name) ==
  /\ n < Len(segments)
  /\ Open(segments, n, name) # {}
  /\ \A row \in Open(segments, n, name) :
       n < Len(row) /\ row[n + 1].t = "tag" /\ row[n + 1].tag # segments[n + 1]

LEMMA AlignPoints ==
  ASSUME NEW name \in DOMAIN Catalog, NEW segments, NEW n \in Nat, n < Len(segments),
         NEW calls, IsList(calls), Aligned(segments, n, name, calls),
         \A r \in Ahead(name, calls) : r # <<>> /\ r[1].t = "tag" /\ r[1].tag # segments[n + 1]
  PROVE  Points(segments, n, name)
<1>1. PICK f \in Rows :
    /\ Len(f) = n
    /\ \A row : row \in Open(segments, n, name) <=> \E r \in Ahead(name, calls) : row = f \o r
  BY DEF Aligned
<1>2. Ahead(name, calls) # {} /\ \A r \in Ahead(name, calls) : r \in Rows
  BY AheadIs DEF IsRows
<1>3. Open(segments, n, name) # {}
  BY <1>1, <1>2
<1>4. ASSUME NEW row \in Open(segments, n, name)
      PROVE  n < Len(row) /\ row[n + 1].t = "tag" /\ row[n + 1].tag # segments[n + 1]
  <2>1. PICK r \in Ahead(name, calls) : row = f \o r
    BY <1>1
  <2>2. /\ n + 1 <= Len(row) /\ row[n + 1] = r[1] /\ Len(row) \in Nat
    <3>1. r \in Rows /\ r # <<>>
      BY <1>2
    <3>2. QED
      BY <1>1, <2>1, <3>1, NextSlot
  <2>3. QED
    BY <2>1, <2>2
<1>5. QED
  BY <1>3, <1>4 DEF Points

\* And the other way round.
LEMMA GluedHas ==
  ASSUME NEW A, NEW B, NEW x \in A, NEW y \in B, NEW z, z = x \o y
  PROVE  z \in Glued(A, B)
BY DEF Glued

\* The empty row glues nothing.
LEMMA GluedNone ==
  ASSUME NEW X, IsRows(X)
  PROVE  Glued({<<>>}, X) = X /\ Glued(X, {<<>>}) = X
<1>1. \A x \in X : <<>> \o x = x /\ x \o <<>> = x
  BY DEF IsRows, Rows
<1>2. Glued({<<>>}, X) = X
  BY <1>1 DEF Glued
<1>3. Glued(X, {<<>>}) = X
  BY <1>1 DEF Glued
<1>4. QED
  BY <1>2, <1>3

\* What a call reads, before what the others read.
LEMMA AheadCall ==
  ASSUME NEW name \in DOMAIN Catalog, NEW call, NEW rest, IsList(rest), NEW calls, calls = << call >> \o rest
  PROVE  IsList(calls) /\ Ahead(name, calls) = Glued(CallLayouts(name, call), Ahead(name, rest))
<1>1. PICK one : one = << call >>
  OBVIOUS
<1>2. IsList(one) /\ calls = one \o rest
  BY <1>1, PathOne
<1>3. Ahead(name, one) = CallLayouts(name, call)
  BY <1>1, AheadIs
<1>4. IsList(calls) /\ Ahead(name, calls) = Glued(Ahead(name, one), Ahead(name, rest))
  BY <1>2, AheadConcat
<1>5. QED
  BY <1>3, <1>4

\* A list of types.
IsTypes(types) == IsList(types) /\ \A k \in DOMAIN types : types[k] \in AllTypes

\* The calls of its fields' types, and the constructor, before other calls.
FieldCalls(types, call, rest) == types \o << call >> \o rest

\* The construction of a struct or variant.
IsBuild(call) == call.t = "build" /\ call.arity \in Nat

\* What the fields and the constructor read, before what other calls read.
LEMMA AheadFields ==
  ASSUME NEW name \in DOMAIN Catalog, NEW types, IsTypes(types),
         NEW call, IsBuild(call), NEW rest, IsList(rest)
  PROVE  /\ IsList(FieldCalls(types, call, rest))
         /\ Ahead(name, FieldCalls(types, call, rest)) = Glued(RowsOf(types), Ahead(name, rest))
<1>1. PICK one, begin, calls : one = << call >> /\ begin = types \o one /\ calls = begin \o rest
  OBVIOUS
<1>2. IsList(one) /\ begin = types \o one /\ calls = begin \o rest
  BY <1>1, PathOne
<1>3. CallLayouts(name, call) = {<<>>}
  BY TypeIsNoCall DEF CallLayouts, IsBuild
<1>4. Ahead(name, one) = {<<>>}
  BY <1>1, <1>3, AheadIs
<1>5. Ahead(name, types) = RowsOf(types)
  <2>1. CallRows(name, types) = [k \in DOMAIN types |-> Layouts[types[k]]]
    BY DEF CallRows, CallLayouts, IsTypes
  <2>2. QED
    BY <2>1 DEF Ahead, RowsOf
<1>6. IsRows(RowsOf(types))
  BY <1>5, AheadIs DEF IsTypes
<1>7. IsList(begin) /\ Ahead(name, begin) = Glued(Ahead(name, types), Ahead(name, one))
  BY <1>1, <1>2, AheadConcat DEF IsTypes
<1>8. Ahead(name, begin) = RowsOf(types)
  BY <1>4, <1>5, <1>6, <1>7, GluedNone
<1>9. IsList(calls) /\ Ahead(name, calls) = Glued(Ahead(name, begin), Ahead(name, rest))
  BY <1>2, <1>7, AheadConcat
<1>10. calls = FieldCalls(types, call, rest)
  BY <1>1 DEF FieldCalls
<1>11. QED
  BY <1>8, <1>9, <1>10

\* Calls that read the same leave the same keys.
LEMMA AlignSame ==
  ASSUME NEW name, NEW segments, NEW n, NEW calls, Aligned(segments, n, name, calls),
         NEW others, Ahead(name, calls) = Ahead(name, others)
  PROVE  Aligned(segments, n, name, others)
BY DEF Aligned

\* The unit type and a constructor read nothing.
LEMMA AlignNothing ==
  ASSUME NEW name \in DOMAIN Catalog, NEW segments, NEW n, NEW call,
         (call = UnitType /\ call \in AllTypes) \/ IsBuild(call),
         NEW rest, IsList(rest), Aligned(segments, n, name, << call >> \o rest)
  PROVE  Aligned(segments, n, name, rest)
<1>1. PICK calls : calls = << call >> \o rest
  OBVIOUS
<1>2. CallLayouts(name, call) = {<<>>}
  <2>1. CASE call = UnitType /\ call \in AllTypes
    BY <2>1, LayoutKinds DEF CallLayouts
  <2>2. CASE IsBuild(call)
    BY <2>2, TypeIsNoCall DEF CallLayouts, IsBuild
  <2>3. QED
    BY <2>1, <2>2
<1>3. Ahead(name, calls) = Glued({<<>>}, Ahead(name, rest))
  <2>1. Ahead(name, calls) = Glued(CallLayouts(name, call), Ahead(name, rest))
    BY <1>1, AheadCall
  <2>2. QED
    BY <1>2, <2>1, Zenon
<1>4. IsRows(Ahead(name, rest))
  BY AheadIs
<1>5. Ahead(name, calls) = Ahead(name, rest)
  BY <1>3, <1>4, GluedNone
<1>6. QED
  BY <1>1, <1>5, AlignSame

\* A struct reads what its fields read.
LEMMA AlignStruct ==
  ASSUME NEW name \in DOMAIN Catalog, NEW segments, NEW n, NEW type \in AllTypes, type.t = "struct",
         IsList(type.fields), \A k \in DOMAIN type.fields : type.fields[k] \in AllTypes,
         NEW call, IsBuild(call),
         NEW rest, IsList(rest), Aligned(segments, n, name, << type >> \o rest)
  PROVE  Aligned(segments, n, name, type.fields \o << call >> \o rest)
<1>1. PICK calls, others : calls = << type >> \o rest /\ others = FieldCalls(type.fields, call, rest)
  OBVIOUS
<1>2. CallLayouts(name, type) = RowsOf(type.fields)
  BY LayoutKinds DEF CallLayouts
<1>3. Ahead(name, calls) = Glued(RowsOf(type.fields), Ahead(name, rest))
  <2>1. Ahead(name, calls) = Glued(CallLayouts(name, type), Ahead(name, rest))
    BY <1>1, AheadCall
  <2>2. QED
    BY <1>2, <2>1, Zenon
<1>4. Ahead(name, others) = Glued(RowsOf(type.fields), Ahead(name, rest))
  BY <1>1, AheadFields DEF IsTypes
<1>5. Aligned(segments, n, name, others)
  BY <1>1, <1>3, <1>4, AlignSame
<1>6. QED
  BY <1>1, <1>5 DEF FieldCalls

\* A segment fits a type that is one segment when it is read as one.
LEMMA FitsIs ==
  ASSUME NEW type \in AllTypes, type \in Leaves, NEW e \in Str
  PROVE  Fits(e, type) <=> IsOk(ReadAs(type, e))
<1>1. IsOk(OkText(e))
  BY DEF IsOk, OkText
<1>2. CASE type = StringType
  BY <1>2 DEF StringType, Fits, ReadAs
<1>3. CASE type = RawType
  BY <1>1, <1>3 DEF RawType, Fits, ReadAs
<1>4. CASE type = U64Type
  BY <1>4 DEF U64Type, Fits, ReadAs
<1>5. CASE type = U32Type
  BY <1>5 DEF U32Type, Fits, ReadAs
<1>6. QED
  BY <1>2, <1>3, <1>4, <1>5 DEF Leaves

\* A call that reads one slot.
LEMMA AlignSlot ==
  ASSUME NEW name \in DOMAIN Catalog, NEW segments, NEW n \in Nat, NEW call, NEW slot \in Slots,
         CallLayouts(name, call) = {<< slot >>},
         NEW rest, IsList(rest), Aligned(segments, n, name, << call >> \o rest)
  PROVE  /\ Fits(segments[n + 1], slot) => Aligned(segments, n + 1, name, rest)
         /\ ~ Fits(segments[n + 1], slot) => Open(segments, n + 1, name) = {}
         /\ \A r \in Ahead(name, << call >> \o rest) : r # <<>> /\ r[1] = slot
<1>1. PICK calls : calls = << call >> \o rest
  OBVIOUS
<1>2. IsList(calls) /\ Aligned(segments, n, name, calls)
  BY <1>1, AheadCall
<1>3. \A r : r \in Ahead(name, calls) <=> \E y \in Ahead(name, rest) : r = << slot >> \o y
  <2>1. Ahead(name, calls) = Glued(CallLayouts(name, call), Ahead(name, rest))
    BY <1>1, AheadCall
  <2>2. Ahead(name, calls) = Glued({<< slot >>}, Ahead(name, rest))
    BY <2>1, Zenon
  <2>3. QED
    BY <2>2 DEF Glued
<1>4. \A y \in Ahead(name, rest) : << slot >> \o y # <<>> /\ (<< slot >> \o y)[1] = slot
  <2>1. \A y \in Ahead(name, rest) : y \in Rows
    BY AheadIs DEF IsRows
  <2>2. ASSUME NEW y \in Rows
        PROVE  << slot >> \o y # <<>> /\ (<< slot >> \o y)[1] = slot
    BY DEF Rows
  <2>3. QED
    BY <2>1, <2>2
<1>5. \A r \in Ahead(name, calls) : r # <<>> /\ r[1] = slot
  BY <1>3, <1>4
<1>6. ASSUME Fits(segments[n + 1], slot)
      PROVE  Aligned(segments, n + 1, name, rest)
  BY <1>2, <1>3, <1>6, AlignNext
<1>7. ASSUME ~ Fits(segments[n + 1], slot)
      PROVE  Open(segments, n + 1, name) = {}
  BY <1>2, <1>5, <1>7, AlignStops
<1>8. QED
  BY <1>1, <1>5, <1>6, <1>7

\* A type that is one segment.
LEMMA AlignLeaf ==
  ASSUME NEW name \in DOMAIN Catalog, NEW segments, NEW n \in Nat, NEW type \in AllTypes, type \in Leaves,
         segments[n + 1] \in Str,
         NEW rest, IsList(rest), Aligned(segments, n, name, << type >> \o rest)
  PROVE  /\ IsOk(ReadAs(type, segments[n + 1])) => Aligned(segments, n + 1, name, rest)
         /\ ~ IsOk(ReadAs(type, segments[n + 1])) => Open(segments, n + 1, name) = {}
<1>1. CallLayouts(name, type) = {<< type >>} /\ type \in Slots
  BY LayoutKinds DEF CallLayouts, Slots
<1>2. /\ Fits(segments[n + 1], type) => Aligned(segments, n + 1, name, rest)
      /\ ~ Fits(segments[n + 1], type) => Open(segments, n + 1, name) = {}
  BY <1>1, AlignSlot
<1>3. QED
  BY <1>2, FitsIs

\* A segment fits a tag when it is that tag.
LEMMA FitsTag == \A e, tag : Fits(e, TagSlot(tag)) <=> e = tag
BY DEF Fits, TagSlot

\* The prefix.
LEMMA AlignPrefix ==
  ASSUME NEW name \in DOMAIN Catalog, NEW segments, NEW n \in Nat, n < Len(segments),
         NEW call, call.t = "prefix",
         NEW rest, IsList(rest), Aligned(segments, n, name, << call >> \o rest)
  PROVE  /\ segments[n + 1] = Catalog[name].prefix => Aligned(segments, n + 1, name, rest)
         /\ segments[n + 1] # Catalog[name].prefix =>
              Open(segments, n + 1, name) = {} /\ Points(segments, n, name)
<1>1. PICK slot, calls : slot = TagSlot(Catalog[name].prefix) /\ calls = << call >> \o rest
  OBVIOUS
<1>2. slot \in Slots /\ slot.t = "tag" /\ slot.tag = Catalog[name].prefix
  BY <1>1, CatalogAssumption DEF TagSlot, Slots
<1>3. CallLayouts(name, call) = {<< slot >>}
  BY <1>1, TypeIsNoCall DEF CallLayouts
<1>4. /\ Fits(segments[n + 1], slot) => Aligned(segments, n + 1, name, rest)
      /\ ~ Fits(segments[n + 1], slot) => Open(segments, n + 1, name) = {}
      /\ \A r \in Ahead(name, calls) : r # <<>> /\ r[1] = slot
  BY <1>1, <1>2, <1>3, AlignSlot
<1>5. Fits(segments[n + 1], slot) <=> segments[n + 1] = Catalog[name].prefix
  BY <1>1, FitsTag
<1>6. IsList(calls) /\ Aligned(segments, n, name, calls)
  BY <1>1, AheadCall
<1>7. ASSUME segments[n + 1] # Catalog[name].prefix
      PROVE  Points(segments, n, name)
  BY <1>2, <1>4, <1>6, <1>7, AlignPoints
<1>8. QED
  BY <1>4, <1>5, <1>7

\* A tag says which variant's fields follow.
LEMMA AlignEnum ==
  ASSUME NEW name \in DOMAIN Catalog, NEW segments, NEW n \in Nat, n < Len(segments),
         NEW type \in AllTypes, type.t = "enum",
         NEW rest, IsList(rest), Aligned(segments, n, name, << type >> \o rest)
  PROVE  /\ \A k \in DOMAIN type.variants : \A c :
              type.variants[k].tag = segments[n + 1] /\ IsBuild(c)
                => Aligned(segments, n + 1, name, type.variants[k].fields \o << c >> \o rest)
         /\ (\A k \in DOMAIN type.variants : type.variants[k].tag # segments[n + 1]) =>
              Open(segments, n + 1, name) = {} /\ Points(segments, n, name)
<1>1. PICK calls, seg : calls = << type >> \o rest /\ seg = segments[n + 1]
  OBVIOUS
<1>2. IsEnum(type.variants)
  BY TypeIs DEF Plainly, StringType, RawType, U64Type, U32Type, UnitType
<1>3. ASSUME NEW k \in DOMAIN type.variants
      PROVE  /\ TagSlot(type.variants[k].tag) \in Slots
             /\ IsList(type.variants[k].fields)
             /\ \A j \in DOMAIN type.variants[k].fields :
                  type.variants[k].fields[j] \in AllTypes /\ IsRows(Layouts[type.variants[k].fields[j]])
             /\ RowsOf(type.variants[k].fields) \subseteq Rows
  <2>1. type.variants[k].tag \in Str /\ IsList(type.variants[k].fields)
    BY <1>2 DEF IsEnum
  <2>2. TagSlot(type.variants[k].tag) \in Slots
    BY <2>1 DEF TagSlot, Slots
  <2>3. \A j \in DOMAIN type.variants[k].fields : type.variants[k].fields[j] \in AllTypes
    BY TypeIs, ComponentsAre
  <2>4. \A j \in DOMAIN type.variants[k].fields : IsRows(Layouts[type.variants[k].fields[j]])
    BY <2>3, LayoutsTyped
  <2>5. PICK types : types = type.variants[k].fields
    OBVIOUS
  <2>6. IsRows(RowsOf(types))
    BY <2>1, <2>4, <2>5, RowsOfTypes
  <2>7. QED
    BY <2>1, <2>2, <2>3, <2>4, <2>5, <2>6 DEF IsRows
<1>4. IsList(calls) /\ Aligned(segments, n, name, calls) /\ IsRows(Ahead(name, rest))
  BY <1>1, AheadCall, AheadIs
<1>5. Ahead(name, calls) = Glued(Layouts[type], Ahead(name, rest))
  <2>1. Ahead(name, calls) = Glued(CallLayouts(name, type), Ahead(name, rest))
    BY <1>1, AheadCall
  <2>2. CallLayouts(name, type) = Layouts[type]
    BY DEF CallLayouts
  <2>3. QED
    BY <2>1, <2>2, Zenon
<1>6. \A row : row \in Layouts[type] <=>
        \E k \in DOMAIN type.variants : \E x \in RowsOf(type.variants[k].fields) :
          row = << TagSlot(type.variants[k].tag) >> \o x
  BY LayoutKinds
<1>7. ASSUME NEW k \in DOMAIN type.variants, NEW x \in RowsOf(type.variants[k].fields),
             NEW y \in Ahead(name, rest)
      PROVE  /\ (<< TagSlot(type.variants[k].tag) >> \o x) \o y = << TagSlot(type.variants[k].tag) >> \o (x \o y)
             /\ << TagSlot(type.variants[k].tag) >> \o (x \o y) # <<>>
             /\ (<< TagSlot(type.variants[k].tag) >> \o (x \o y))[1] = TagSlot(type.variants[k].tag)
  <2>1. PICK slot : slot = TagSlot(type.variants[k].tag)
    OBVIOUS
  <2>2. slot \in Slots /\ x \in Seq(Slots) /\ y \in Seq(Slots)
    BY <1>3, <1>4, <2>1 DEF IsRows, Rows
  <2>3. (<< slot >> \o x) \o y = << slot >> \o (x \o y)
    <3>1. << slot >> \in Seq(Slots)
      BY <2>2
    <3>2. QED
      BY <2>2, <3>1, ConcatAssociative
  <2>4. x \o y \in Rows
    BY <2>2 DEF Rows
  <2>5. << slot >> \o (x \o y) # <<>> /\ (<< slot >> \o (x \o y))[1] = slot
    <3>1. \A z \in Seq(Slots) : << slot >> \o z # <<>> /\ (<< slot >> \o z)[1] = slot
      BY <2>2
    <3>2. QED
      BY <2>4, <3>1 DEF Rows
  <2>6. QED
    BY <2>1, <2>3, <2>5
<1>8. ASSUME NEW r \in Ahead(name, calls)
      PROVE  \E k \in DOMAIN type.variants : \E x \in RowsOf(type.variants[k].fields) :
               \E y \in Ahead(name, rest) :
                 r = << TagSlot(type.variants[k].tag) >> \o (x \o y)
  <2>1. PICK z \in Layouts[type] : \E y \in Ahead(name, rest) : r = z \o y
    BY <1>5, GluedIs
  <2>2. PICK y \in Ahead(name, rest) : r = z \o y
    BY <2>1
  <2>3. PICK k \in DOMAIN type.variants : \E x \in RowsOf(type.variants[k].fields) :
          z = << TagSlot(type.variants[k].tag) >> \o x
    BY <1>6
  <2>4. PICK x \in RowsOf(type.variants[k].fields) : z = << TagSlot(type.variants[k].tag) >> \o x
    BY <2>3
  <2>5. r = << TagSlot(type.variants[k].tag) >> \o (x \o y)
    BY <1>7, <2>2, <2>4
  <2>6. QED
    BY <2>5
<1>9. ASSUME NEW r \in Ahead(name, calls)
      PROVE  /\ r # <<>>
             /\ \E k \in DOMAIN type.variants : r[1] = TagSlot(type.variants[k].tag)
  <2>1. PICK k \in DOMAIN type.variants : \E x \in RowsOf(type.variants[k].fields) :
               \E y \in Ahead(name, rest) :
                 r = << TagSlot(type.variants[k].tag) >> \o (x \o y)
    BY <1>8
  <2>2. PICK x \in RowsOf(type.variants[k].fields) : \E y \in Ahead(name, rest) :
                 r = << TagSlot(type.variants[k].tag) >> \o (x \o y)
    BY <2>1
  <2>3. PICK y \in Ahead(name, rest) : r = << TagSlot(type.variants[k].tag) >> \o (x \o y)
    BY <2>2
  <2>4. QED
    BY <1>7, <2>3
<1>10. ASSUME NEW k \in DOMAIN type.variants, NEW c, type.variants[k].tag = seg, IsBuild(c)
       PROVE  Aligned(segments, n + 1, name, type.variants[k].fields \o << c >> \o rest)
  <2>1. PICK types, others, slot : /\ types = type.variants[k].fields /\ others = FieldCalls(types, c, rest)
                                   /\ slot = TagSlot(type.variants[k].tag)
    OBVIOUS
  <2>2. IsList(types) /\ IsTypes(types)
    BY <1>3, <2>1 DEF IsTypes
  <2>3. IsList(others) /\ Ahead(name, others) = Glued(RowsOf(types), Ahead(name, rest))
    BY <1>10, <2>1, <2>2, AheadFields
  <2>4. ASSUME NEW r \in Ahead(name, calls), r # <<>>, Fits(seg, r[1])
        PROVE  \E x \in Ahead(name, others) : r = << slot >> \o x
    <3>1. PICK j \in DOMAIN type.variants : \E x \in RowsOf(type.variants[j].fields) :
               \E y \in Ahead(name, rest) :
                 r = << TagSlot(type.variants[j].tag) >> \o (x \o y)
      BY <1>8
    <3>2. PICK x \in RowsOf(type.variants[j].fields) : \E y \in Ahead(name, rest) :
                 r = << TagSlot(type.variants[j].tag) >> \o (x \o y)
      BY <3>1
    <3>3. PICK y \in Ahead(name, rest) : r = << TagSlot(type.variants[j].tag) >> \o (x \o y)
      BY <3>2
    <3>4. r[1] = TagSlot(type.variants[j].tag)
      BY <1>7, <3>3
    <3>5. type.variants[j].tag = type.variants[k].tag
      BY <1>10, <2>4, <3>4, FitsTag
    <3>6. j = k
      BY <1>2, <3>5 DEF IsEnum
    <3>7. x \in RowsOf(types) /\ r = << slot >> \o (x \o y)
      BY <2>1, <3>3, <3>6
    <3>8. x \o y \in Ahead(name, others)
      BY <2>3, <3>7, GluedHas
    <3>9. QED
      BY <3>7, <3>8
  <2>5. ASSUME NEW z \in Ahead(name, others)
        PROVE  << slot >> \o z \in Ahead(name, calls)
    <3>1. PICK x \in RowsOf(types) : \E y \in Ahead(name, rest) : z = x \o y
      BY <2>3, GluedIs
    <3>2. PICK y \in Ahead(name, rest) : z = x \o y
      BY <3>1
    <3>3. << slot >> \o x \in Layouts[type]
      BY <1>6, <2>1
    <3>4. << slot >> \o z = (<< slot >> \o x) \o y
      BY <1>7, <2>1, <3>2
    <3>5. PICK u, w : u = << slot >> \o x /\ w = << slot >> \o z
      OBVIOUS
    <3>6. w = u \o y /\ u \in Layouts[type]
      BY <3>3, <3>4, <3>5
    <3>7. w \in Ahead(name, calls)
      BY <1>5, <3>6, GluedHas
    <3>8. QED
      BY <3>5, <3>7
  <2>6. slot \in Slots /\ Fits(seg, slot)
    BY <1>3, <1>10, <2>1, FitsTag
  <2>7. Aligned(segments, n + 1, name, others)
    BY <1>1, <1>4, <2>3, <2>4, <2>5, <2>6, AlignNext
  <2>8. QED
    BY <2>1, <2>7 DEF FieldCalls
<1>11. ASSUME \A k \in DOMAIN type.variants : type.variants[k].tag # seg
       PROVE  Open(segments, n + 1, name) = {} /\ Points(segments, n, name)
  <2>1. ASSUME NEW r \in Ahead(name, calls)
        PROVE  r # <<>> /\ r[1].t = "tag" /\ r[1].tag # seg /\ ~ Fits(seg, r[1])
    <3>1. PICK k \in DOMAIN type.variants : r[1] = TagSlot(type.variants[k].tag)
      BY <1>9
    <3>2. r[1].t = "tag" /\ r[1].tag = type.variants[k].tag
      BY <3>1 DEF TagSlot
    <3>3. QED
      BY <1>9, <1>11, <3>1, <3>2, FitsTag
  <2>2. QED
    BY <1>1, <1>4, <2>1, AlignStops, AlignPoints
<1>12. QED
  BY <1>1, <1>10, <1>11

\* A text that ends before the next call's segment spells no value.
LEMMA NeedsSlot ==
  ASSUME NEW name \in DOMAIN Catalog, NEW segments, Len(segments) \in Nat, NEW n, n = Len(segments),
         NEW call, call.t = "prefix" \/ (call \in AllTypes /\ (call \in Leaves \/ call.t = "enum")),
         NEW rest, IsList(rest), Aligned(segments, n, name, << call >> \o rest)
  PROVE  Unspelled(segments, name)
<1>1. PICK calls : calls = << call >> \o rest
  OBVIOUS
<1>2. IsList(calls) /\ IsRows(Ahead(name, rest))
  BY <1>1, AheadCall, AheadIs
<1>3. Ahead(name, calls) = Glued(CallLayouts(name, call), Ahead(name, rest))
  BY <1>1, AheadCall
<1>4. ASSUME NEW x \in CallLayouts(name, call)
      PROVE  x \in Rows /\ x # <<>>
  <2>1. x \in Rows
    BY CallLayoutsAre DEF IsRows
  <2>2. CASE call.t = "prefix"
    <3>1. x = << TagSlot(Catalog[name].prefix) >>
      BY <2>2, TypeIsNoCall DEF CallLayouts
    <3>2. QED
      BY <2>1, <3>1
  <2>3. CASE call \in AllTypes /\ call \in Leaves
    <3>1. x = << call >>
      BY <2>3, LayoutKinds DEF CallLayouts
    <3>2. QED
      BY <2>1, <3>1
  <2>4. CASE call \in AllTypes /\ call.t = "enum"
    <3>1. PICK k \in DOMAIN call.variants : \E r \in RowsOf(call.variants[k].fields) :
                  x = << TagSlot(call.variants[k].tag) >> \o r
      BY <2>4, LayoutKinds DEF CallLayouts
    <3>2. PICK r \in RowsOf(call.variants[k].fields) : x = << TagSlot(call.variants[k].tag) >> \o r
      BY <3>1
    <3>3. TagSlot(call.variants[k].tag) \in Slots /\ r \in Rows
      <4>1. IsEnum(call.variants)
        BY <2>4, TypeIs DEF Plainly, StringType, RawType, U64Type, U32Type, UnitType
      <4>2. call.variants[k].tag \in Str /\ IsList(call.variants[k].fields)
        BY <4>1 DEF IsEnum
      <4>3. \A j \in DOMAIN call.variants[k].fields : IsRows(Layouts[call.variants[k].fields[j]])
        BY <2>4, TypeIs, ComponentsAre, LayoutsTyped
      <4>4. PICK types : types = call.variants[k].fields
        OBVIOUS
      <4>5. IsRows(RowsOf(types))
        BY <4>2, <4>3, <4>4, RowsOfTypes
      <4>6. QED
        BY <4>2, <4>4, <4>5 DEF TagSlot, Slots, IsRows
    <3>4. << TagSlot(call.variants[k].tag) >> \o r # <<>>
      BY <3>3 DEF Rows
    <3>5. QED
      BY <2>1, <3>2, <3>4
  <2>5. QED
    BY <2>1, <2>2, <2>3, <2>4
<1>5. <<>> \notin Ahead(name, calls)
  <2>1. ASSUME NEW x \in CallLayouts(name, call), NEW y \in Ahead(name, rest)
        PROVE  x \o y # <<>>
    <3>1. x \in Rows /\ x # <<>> /\ y \in Rows
      BY <1>2, <1>4 DEF IsRows
    <3>2. QED
      BY <3>1 DEF Rows
  <2>2. QED
    BY <1>3, <2>1, GluedIs
<1>6. Aligned(segments, n, name, calls)
  BY <1>1
<1>7. n \in Nat
  OBVIOUS
<1>8. QED
  BY <1>2, <1>5, <1>6, <1>7, UnspelledIs

-----------------------------------------------------------------------------
(***************************************************************************)
(* from_str_key(): what is read so far, and what it returns.               *)
(***************************************************************************)
Segments == Split(str_key)
\* The calls that are left are those of new_prefixed() and decode_key(), or
\* come after the prefix.
CallsLeft ==
  \/ need = ReadCalls /\ i = 0
  \/ /\ i # 0 /\ Segments[1] = Catalog[reader].prefix
     /\ \A k \in DOMAIN need : need[k] \in AllTypes \/ IsBuild(need[k])

\* A DirName is decoded only as the key itself.
DirNamesLeft ==
  /\ IsDirName(TypeOf(reader)) => need \in {ReadCalls, << TypeOf(reader) >>}
  /\ (KeepsContract /\ ~ IsDirName(TypeOf(reader))) => \A k \in DOMAIN need : ~ IsDirName(need[k])

\* The inductive invariant of from_str_key(): the parser is at a segment; the
\* calls left to do, with the values read so far, read from the segments left
\* exactly the values that these say; and the keys that begin with the segments
\* read go on with what these calls read.
Reading ==
  /\ IsList(need) /\ IsList(got)
  /\ Position(str_key, i, at)
  /\ Means(Segments, i, reader, need, got)
  /\ Aligned(Segments, i, reader, need)
  /\ CallsLeft
  /\ DirNamesLeft

\* What an error says.
Refused(r) ==
  /\ ~ IsOk(r) /\ DOMAIN r \subseteq {"err", "pos", "expect", "value"}
  /\ KeepsContract => \A v \in Typed(reader) : ~ Says(Segments, reader, v)
  /\ (KeepsContract /\ ~ IsDirName(TypeOf(reader))) => Unspelled(Segments, reader)
  /\ r.err = "InvalidSegment" => Points(Segments, r.pos, reader)

\* What a value says.
Accepted(r) ==
  /\ IsOk(r) /\ r = OkValue(r.value)
  /\ r.value \in Typed(reader) /\ Says(Segments, reader, r.value)
  /\ \A v \in Typed(reader) : Says(Segments, reader, v) => v = r.value

\* A text that says a value spells all of its items.
LEMMA SaysNothing ==
  ASSUME NEW name \in DOMAIN Catalog, NEW segments \in Seq(Texts), NEW n \in 0 .. Len(segments)
  PROVE  /\ (n < Len(segments) /\ \A v \in Typed(name) : ~ Agrees(segments, n + 1, name, v))
              => \A v \in Typed(name) : ~ Says(segments, name, v)
         /\ (n = Len(segments)
               /\ \A v \in Typed(name) : Len(WireOf(name, v)) = n => ~ Agrees(segments, n, name, v))
              => \A v \in Typed(name) : ~ Says(segments, name, v)
<1>1. ASSUME NEW v \in Typed(name), NEW m \in 0 .. Len(segments), Says(segments, name, v)
      PROVE  Len(WireOf(name, v)) = Len(segments) /\ Agrees(segments, m, name, v)
  <2>1. PICK w : w = WireOf(name, v)
    OBVIOUS
  <2>2. Len(w) = Len(segments) /\ \A k \in 1 .. Len(segments) : Spells(segments[k], w[k])
    BY <1>1, <2>1 DEF Says, Agrees
  <2>3. m <= Len(w) /\ \A k \in 1 .. m : Spells(segments[k], w[k])
    BY <2>2
  <2>4. QED
    BY <2>1, <2>2, <2>3 DEF Agrees
<1>2. n < Len(segments) => n + 1 \in 0 .. Len(segments)
  OBVIOUS
<1>3. QED
  BY <1>1, <1>2

\* The call that is made is the first one of those left.
LEMMA NextCall ==
  ASSUME Reading, need # <<>>, reader \in DOMAIN Catalog
  PROVE  /\ need = << Head(need) >> \o Tail(need)
         /\ IsList(Tail(need))
         /\ Means(Segments, i, reader, << Head(need) >> \o Tail(need), got)
         /\ Aligned(Segments, i, reader, << Head(need) >> \o Tail(need))
         /\ i \in Nat
         /\ \/ i = 0 /\ need = ReadCalls /\ Head(need) = [t |-> "prefix"] /\ Tail(need) = << TypeOf(reader) >>
            \/ /\ i # 0 /\ Segments[1] = Catalog[reader].prefix
               /\ Head(need) \in AllTypes \/ IsBuild(Head(need))
               /\ \A k \in DOMAIN Tail(need) : Tail(need)[k] \in AllTypes \/ IsBuild(Tail(need)[k])
         /\ (IsDirName(TypeOf(reader)) /\ need # ReadCalls) =>
              Head(need) = TypeOf(reader) /\ Tail(need) = <<>>
         /\ (KeepsContract /\ ~ IsDirName(TypeOf(reader))) =>
              ~ IsDirName(Head(need)) /\ \A k \in DOMAIN Tail(need) : ~ IsDirName(Tail(need)[k])
<1>1. IsList(need) /\ IsList(got) /\ i \in Nat /\ Means(Segments, i, reader, need, got)
        /\ Aligned(Segments, i, reader, need) /\ CallsLeft /\ DirNamesLeft
  BY DEF Reading, Position
<1>2. /\ need = << Head(need) >> \o Tail(need) /\ IsList(Tail(need))
      /\ 1 \in DOMAIN need /\ Head(need) = need[1]
      /\ \A k \in DOMAIN Tail(need) : k + 1 \in DOMAIN need /\ Tail(need)[k] = need[k + 1]
  BY <1>1, ListHead
<1>3. /\ Means(Segments, i, reader, << Head(need) >> \o Tail(need), got)
      /\ Aligned(Segments, i, reader, << Head(need) >> \o Tail(need))
  BY <1>1, <1>2, Zenon
<1>4. ASSUME need = ReadCalls
      PROVE  Head(need) = [t |-> "prefix"] /\ Tail(need) = << TypeOf(reader) >>
  BY <1>4 DEF ReadCalls, TypeOf
<1>5. \/ i = 0 /\ need = ReadCalls /\ Head(need) = [t |-> "prefix"] /\ Tail(need) = << TypeOf(reader) >>
      \/ /\ i # 0 /\ Segments[1] = Catalog[reader].prefix
         /\ Head(need) \in AllTypes \/ IsBuild(Head(need))
         /\ \A k \in DOMAIN Tail(need) : Tail(need)[k] \in AllTypes \/ IsBuild(Tail(need)[k])
  BY <1>1, <1>2, <1>4 DEF CallsLeft
<1>6. (IsDirName(TypeOf(reader)) /\ need # ReadCalls) =>
              Head(need) = TypeOf(reader) /\ Tail(need) = <<>>
  <2>1. ASSUME IsDirName(TypeOf(reader)), need # ReadCalls
        PROVE  need = << TypeOf(reader) >>
    BY <1>1, <2>1 DEF DirNamesLeft
  <2>2. need = << TypeOf(reader) >> => Head(need) = TypeOf(reader) /\ Tail(need) = <<>>
    OBVIOUS
  <2>3. QED
    BY <2>1, <2>2
<1>7. (KeepsContract /\ ~ IsDirName(TypeOf(reader))) =>
              ~ IsDirName(Head(need)) /\ \A k \in DOMAIN Tail(need) : ~ IsDirName(Tail(need)[k])
  BY <1>1, <1>2 DEF DirNamesLeft
<1>8. QED
  BY <1>1, <1>2, <1>3, <1>5, <1>6, <1>7

\* A step of the reading: what it leaves behind is described like what it found.
LEMMA ReadsOn ==
  ASSUME UNCHANGED <<str_key, reader>>, IsList(need'), IsList(got'),
         Position(str_key, i', at'), Means(Segments, i', reader, need', got'),
         Aligned(Segments, i', reader, need'),
         i' # 0, Segments[1] = Catalog[reader].prefix,
         \A k \in DOMAIN need' : need'[k] \in AllTypes \/ IsBuild(need'[k]),
         IsDirName(TypeOf(reader)) => need' = << TypeOf(reader) >>,
         (KeepsContract /\ ~ IsDirName(TypeOf(reader))) => \A k \in DOMAIN need' : ~ IsDirName(need'[k])
  PROVE  Reading'
<1>1. Segments' = Segments /\ TypeOf(reader)' = TypeOf(reader) /\ Catalog[reader]' = Catalog[reader]
  BY DEF Segments, TypeOf
<1>2. Position(str_key, i, at)'
  OBVIOUS
<1>3. Means(Segments, i, reader, need, got)' /\ Aligned(Segments, i, reader, need)'
  BY <1>1
<1>4. CallsLeft'
  BY <1>1 DEF CallsLeft
<1>5. DirNamesLeft'
  BY <1>1 DEF DirNamesLeft
<1>6. QED
  BY <1>2, <1>3, <1>4, <1>5 DEF Reading

\* from_str_key() has made no call yet.
Starting ==
  /\ str_key \in Texts /\ reader \in DOMAIN Catalog
  /\ need = ReadCalls /\ got = <<>> /\ i = 0 /\ at = 0

\* All the segments are those of the calls left.
LEMMA Start == Starting => Reading
<1> SUFFICES ASSUME Starting
             PROVE  Reading
  OBVIOUS
<1> USE DEF Starting
<1>1. IsList(need) /\ Means(Segments, 0, reader, need, got)
  BY MeansStart DEF ReadCalls, TypeOf
<1>2. IsList(got)
  BY PathNone
<1>3. Position(str_key, i, at)
  BY PositionStarts
<1>4. DirNamesLeft
  <2>1. need = << [t |-> "prefix"], TypeOf(reader) >>
    BY DEF ReadCalls, TypeOf
  <2>2. \A k \in DOMAIN need : need[k] = [t |-> "prefix"] \/ need[k] = TypeOf(reader)
    BY <2>1
  <2>3. ~ IsDirName([t |-> "prefix"])
    BY DEF IsDirName
  <2>4. ~ IsDirName(TypeOf(reader)) => \A k \in DOMAIN need : ~ IsDirName(need[k])
    BY <2>2, <2>3
  <2>5. QED
    BY <2>4 DEF DirNamesLeft
<1>5. Aligned(Segments, i, reader, need)
  BY AlignStart DEF ReadCalls, TypeOf
<1>6. QED
  BY <1>1, <1>2, <1>3, <1>4, <1>5 DEF Reading, CallsLeft

\* When a call needs a segment and there is none, the text says no value.
LEMMA ShortText ==
  ASSUME Reading, need # <<>>, reader \in DOMAIN Catalog, str_key \in Texts, Exhausted,
         \/ Head(need).t = "prefix"
         \/ Head(need) \in AllTypes /\ (Head(need) \in Leaves \/ Head(need).t = "enum")
  PROVE  \A v \in Typed(reader) : ~ Says(Segments, reader, v)
<1>1. /\ IsList(Tail(need)) /\ i \in Nat /\ IsList(got)
      /\ Means(Segments, i, reader, << Head(need) >> \o Tail(need), got)
  BY NextCall DEF Reading
<1>2. PICK call, rest : call = Head(need) /\ rest = Tail(need)
  OBVIOUS
<1>3. PICK calls : calls = << call >> \o rest
  OBVIOUS
<1>4. Means(Segments, i, reader, calls, got)
  BY <1>1, <1>2, <1>3
<1>5. PrefixItem(reader) \in Items
  BY WireOfIs
<1>6. \A h : ~ Reads(PrefixItem(reader), calls, got, <<>>, h)
  BY <1>1, <1>2, <1>3, <1>5, NeedsSegment
<1>7. Segments \in Seq(Texts) /\ i = Len(Segments) /\ i \in 0 .. Len(Segments)
  <2>1. i = Len(Segments)
    BY DEF Reading, Position, Exhausted, Segments
  <2>2. Segments \in Seq(Texts)
    BY SplitType DEF Segments
  <2>3. QED
    BY <1>1, <2>1, <2>2
<1>8. \A v \in Typed(reader) : Len(WireOf(reader, v)) = i => ~ Agrees(Segments, i, reader, v)
  BY <1>1, <1>4, <1>6, MeansShort
<1>9. QED
  BY <1>7, <1>8, SaysNothing

\* A decode_key() call is about to be made.
Calling ==
  Reading /\ need # <<>> /\ ParserTypeOK /\ str_key \in Str /\ reader \in DOMAIN Catalog

\* What the call is that is made, from its kind.
LEMMA CallIs ==
  ASSUME Calling
  PROVE  /\ Head(need).t = "prefix" => i = 0 /\ Tail(need) = << TypeOf(reader) >>
         /\ Head(need).t # "prefix" =>
              /\ i # 0 /\ Segments[1] = Catalog[reader].prefix
              /\ \A k \in DOMAIN Tail(need) : Tail(need)[k] \in AllTypes \/ IsBuild(Tail(need)[k])
              /\ Head(need).t # "dir" => ~ IsDirName(TypeOf(reader))
              /\ KeepsContract => \A k \in DOMAIN Tail(need) : ~ IsDirName(Tail(need)[k])
         /\ Head(need).t = "string" => Head(need) = StringType
         /\ Head(need).t = "raw" => Head(need) = RawType
         /\ Head(need).t = "u64" => Head(need) = U64Type
         /\ Head(need).t = "u32" => Head(need) = U32Type
         /\ Head(need).t = "unit" => Head(need) = UnitType
         /\ Head(need).t \in {"string", "raw", "u64", "u32"} => Head(need) \in Leaves
         /\ Head(need).t \in {"string", "raw", "u64", "u32", "unit", "struct", "enum", "dir"}
              => Head(need) \in AllTypes
<1>1. PICK call, rest : call = Head(need) /\ rest = Tail(need)
  OBVIOUS
<1>2. /\ \/ i = 0 /\ need = ReadCalls /\ call = [t |-> "prefix"] /\ rest = << TypeOf(reader) >>
         \/ /\ i # 0 /\ Segments[1] = Catalog[reader].prefix
            /\ call \in AllTypes \/ IsBuild(call)
            /\ \A k \in DOMAIN rest : rest[k] \in AllTypes \/ IsBuild(rest[k])
      /\ (IsDirName(TypeOf(reader)) /\ need # ReadCalls) => call = TypeOf(reader) /\ rest = <<>>
      /\ (KeepsContract /\ ~ IsDirName(TypeOf(reader))) =>
           ~ IsDirName(call) /\ \A k \in DOMAIN rest : ~ IsDirName(rest[k])
  BY <1>1, NextCall DEF Calling
<1>3. need = ReadCalls => call.t = "prefix"
  BY <1>1 DEF ReadCalls
<1>4. call \in AllTypes => call.t # "prefix" /\ call.t # "build"
  BY TypeIsNoCall
<1>5. IsBuild(call) => call.t = "build"
  BY DEF IsBuild
<1>6. \/ call.t = "prefix" /\ i = 0 /\ rest = << TypeOf(reader) >>
      \/ /\ call.t # "prefix" /\ i # 0 /\ Segments[1] = Catalog[reader].prefix
         /\ call \in AllTypes \/ (call.t = "build" /\ call \notin AllTypes)
         /\ \A k \in DOMAIN rest : rest[k] \in AllTypes \/ IsBuild(rest[k])
  BY <1>2, <1>4, <1>5
<1>7. call.t # "prefix" /\ IsDirName(TypeOf(reader)) => call.t = "dir" /\ rest = <<>>
  BY <1>2, <1>3 DEF IsDirName
<1>8. call.t # "prefix" /\ KeepsContract => \A k \in DOMAIN rest : ~ IsDirName(rest[k])
  <2>1. rest = <<>> => \A k \in DOMAIN rest : ~ IsDirName(rest[k])
    OBVIOUS
  <2>2. QED
    BY <1>2, <1>7, <2>1
<1>9. call.t \in {"string", "raw", "u64", "u32", "unit", "struct", "enum", "dir"} => call \in AllTypes
  BY <1>6
<1>10. ASSUME call \in AllTypes
       PROVE  /\ call.t = "string" => call = StringType
              /\ call.t = "raw" => call = RawType
              /\ call.t = "u64" => call = U64Type
              /\ call.t = "u32" => call = U32Type
              /\ call.t = "unit" => call = UnitType
  <2>1. call \in Plainly \/ call.t = "struct" \/ call.t = "enum" \/ call.t = "dir"
    BY <1>10, TypeIs
  <2>2. QED
    BY <2>1 DEF Plainly, StringType, RawType, U64Type, U32Type, UnitType
<1>11. call.t \in {"string", "raw", "u64", "u32"} => call \in Leaves
  BY <1>9, <1>10 DEF Leaves
<1>12. call.t = "string" => call = StringType
  BY <1>9, <1>10
<1>13. call.t = "raw" => call = RawType
  BY <1>9, <1>10
<1>14. call.t = "u64" => call = U64Type
  BY <1>9, <1>10
<1>15. call.t = "u32" => call = U32Type
  BY <1>9, <1>10
<1>16. call.t = "unit" => call = UnitType
  BY <1>9, <1>10
<1>17. /\ call.t = "prefix" => i = 0 /\ rest = << TypeOf(reader) >>
       /\ call.t # "prefix" =>
              /\ i # 0 /\ Segments[1] = Catalog[reader].prefix
              /\ \A k \in DOMAIN rest : rest[k] \in AllTypes \/ IsBuild(rest[k])
              /\ call.t # "dir" => ~ IsDirName(TypeOf(reader))
              /\ KeepsContract => \A k \in DOMAIN rest : ~ IsDirName(rest[k])
  BY <1>6, <1>7, <1>8
<1>18. QED
  BY <1>1, <1>9, <1>11, <1>12, <1>13, <1>14, <1>15, <1>16, <1>17

\* What a call finds, and what taking an element leaves.
LEMMA CallFinds ==
  ASSUME Calling
  PROVE  /\ i \in Nat /\ IsList(got) /\ IsList(Tail(need))
         /\ str_key \in Texts /\ Segments \in Seq(Texts) /\ i \in 0 .. Len(Segments)
         /\ Means(Segments, i, reader, << Head(need) >> \o Tail(need), got)
         /\ Aligned(Segments, i, reader, << Head(need) >> \o Tail(need))
         /\ ~ Exhausted =>
              /\ i + 1 \in 1 .. Len(Segments) /\ Element = Segments[i + 1]
              /\ Element \in Str
              /\ Position(str_key, i + 1, ElementEnd(at) + 1)
<1>1. Reading /\ need # <<>> /\ ParserTypeOK /\ str_key \in Str /\ reader \in DOMAIN Catalog
  BY DEF Calling
<1>2. i \in Nat /\ IsList(got) /\ IsList(Tail(need)) /\ Position(str_key, i, at)
        /\ Means(Segments, i, reader, << Head(need) >> \o Tail(need), got)
        /\ Aligned(Segments, i, reader, << Head(need) >> \o Tail(need))
  BY <1>1, NextCall DEF Reading
<1>3. str_key \in Texts
  BY <1>1 DEF Str, Texts
<1>4. Segments \in Seq(Texts) /\ Len(Segments) \in Nat
  BY <1>3, SplitType DEF Segments
<1>5. i \in 0 .. Len(Segments)
  <2>1. i <= Len(Segments)
    BY <1>2, <1>4 DEF Position, Segments
  <2>2. QED
    BY <1>2, <1>4, <2>1
<1>6. ~ Exhausted =>
              /\ i + 1 \in 1 .. Len(Segments) /\ Element = Segments[i + 1]
              /\ Element \in Str
              /\ Position(str_key, i + 1, ElementEnd(at) + 1)
  BY <1>1, <1>2, ElementIs DEF Segments
<1>7. QED
  BY <1>2, <1>3, <1>4, <1>5, <1>6

\* A call that leaves the ones after it.
LEMMA CallMade ==
  ASSUME Calling, Head(need).t \notin {"prefix", "dir"}, UNCHANGED <<str_key, reader>>,
         need' = Tail(need), IsList(got'), Position(str_key, i', at'), i' # 0,
         Means(Segments, i', reader, Tail(need), got'), Aligned(Segments, i', reader, Tail(need))
  PROVE  Reading'
<1>1. /\ Segments[1] = Catalog[reader].prefix
      /\ \A k \in DOMAIN Tail(need) : Tail(need)[k] \in AllTypes \/ IsBuild(Tail(need)[k])
      /\ ~ IsDirName(TypeOf(reader))
      /\ KeepsContract => \A k \in DOMAIN Tail(need) : ~ IsDirName(Tail(need)[k])
  BY CallIs
<1>2. IsList(Tail(need))
  BY CallFinds
<1>3. QED
  BY <1>1, <1>2, ReadsOn

\* A call that makes others before those that are left.
LEMMA CallsMore ==
  ASSUME Calling, Head(need).t \notin {"prefix", "dir"}, UNCHANGED <<str_key, reader, got>>,
         NEW types, IsList(types), \A k \in DOMAIN types : types[k] \in AllTypes,
         KeepsContract => \A k \in DOMAIN types : ~ IsDirName(types[k]),
         NEW call, IsBuild(call),
         need' = types \o << call >> \o Tail(need), Position(str_key, i', at'), i' # 0,
         Means(Segments, i', reader, types \o << call >> \o Tail(need), got),
         Aligned(Segments, i', reader, types \o << call >> \o Tail(need))
  PROVE  Reading'
<1>1. /\ Segments[1] = Catalog[reader].prefix
      /\ \A k \in DOMAIN Tail(need) : Tail(need)[k] \in AllTypes \/ IsBuild(Tail(need)[k])
      /\ ~ IsDirName(TypeOf(reader))
      /\ KeepsContract => \A k \in DOMAIN Tail(need) : ~ IsDirName(Tail(need)[k])
  BY CallIs
<1>2. IsList(Tail(need)) /\ IsList(got)
  BY CallFinds
<1>3. PICK one, rest, begin, all : one = << call >> /\ rest = Tail(need) /\ begin = types \o one /\ all = begin \o rest
  OBVIOUS
<1>4. IsList(one) /\ Len(one) = 1 /\ one[1] = call
  BY <1>3, PathOne
<1>5. /\ IsList(begin) /\ Len(begin) = Len(types) + 1
      /\ \A k \in 1 .. Len(types) : begin[k] = types[k]
      /\ \A k \in 1 .. 1 : begin[Len(types) + k] = one[k]
  BY <1>3, <1>4, ListConcat
<1>6. /\ IsList(all) /\ Len(all) = Len(begin) + Len(rest)
      /\ \A k \in 1 .. Len(begin) : all[k] = begin[k]
      /\ \A k \in 1 .. Len(rest) : all[Len(begin) + k] = rest[k]
  BY <1>2, <1>3, <1>5, ListConcat
<1>7. /\ Len(types) \in Nat /\ DOMAIN types = 1 .. Len(types)
      /\ Len(rest) \in Nat /\ DOMAIN rest = 1 .. Len(rest)
      /\ DOMAIN all = 1 .. Len(all)
  BY <1>2, <1>3, <1>6, ListIs
<1>8. ASSUME NEW k \in DOMAIN all
      PROVE  \/ k \in DOMAIN types /\ all[k] = types[k]
             \/ all[k] = call
             \/ \E j \in DOMAIN rest : all[k] = rest[j]
  <2>1. k \in Nat /\ k >= 1 /\ k <= (Len(types) + 1) + Len(rest)
    BY <1>5, <1>6, <1>7
  <2>2. CASE k <= Len(types)
    <3>1. k \in 1 .. Len(types) /\ k \in 1 .. Len(begin)
      BY <1>5, <1>7, <2>1, <2>2
    <3>2. QED
      BY <1>5, <1>6, <1>7, <3>1
  <2>3. CASE k = Len(types) + 1
    <3>1. k \in 1 .. Len(begin) /\ 1 \in 1 .. 1
      BY <1>5, <1>7, <2>1, <2>3
    <3>2. QED
      BY <1>4, <1>5, <1>6, <2>3, <3>1
  <2>4. CASE k > Len(types) + 1
    <3>1. PICK j \in 1 .. Len(rest) : k = Len(begin) + j
      <4>1. k - (Len(types) + 1) \in 1 .. Len(rest) /\ k = (Len(types) + 1) + (k - (Len(types) + 1))
        BY <1>7, <2>1, <2>4
      <4>2. QED
        BY <1>5, <4>1
    <3>2. all[k] = rest[j] /\ j \in DOMAIN rest
      BY <1>6, <1>7, <3>1
    <3>3. QED
      BY <3>2
  <2>5. QED
    BY <1>7, <2>1, <2>2, <2>3, <2>4
<1>9. \A k \in DOMAIN all : all[k] \in AllTypes \/ IsBuild(all[k])
  <2>1. \A j \in DOMAIN rest : rest[j] \in AllTypes \/ IsBuild(rest[j])
    BY <1>1, <1>3
  <2>2. ASSUME NEW k \in DOMAIN all
        PROVE  all[k] \in AllTypes \/ IsBuild(all[k])
    BY <1>8, <2>1, <2>2, Zenon
  <2>3. QED
    BY <2>2
<1>10. KeepsContract => \A k \in DOMAIN all : ~ IsDirName(all[k])
  <2>1. ~ IsDirName(call)
    BY DEF IsBuild, IsDirName
  <2>2. QED
    BY <1>1, <1>3, <1>8, <2>1
<1>11. /\ need' = all /\ got' = got
       /\ Means(Segments, i', reader, all, got) /\ Aligned(Segments, i', reader, all)
  BY <1>3
<1>12. /\ IsList(need') /\ IsList(got')
       /\ Means(Segments, i', reader, need', got') /\ Aligned(Segments, i', reader, need')
  BY <1>2, <1>6, <1>11
<1>13. /\ \A k \in DOMAIN need' : need'[k] \in AllTypes \/ IsBuild(need'[k])
       /\ KeepsContract => \A k \in DOMAIN need' : ~ IsDirName(need'[k])
  BY <1>9, <1>10, <1>11
<1>14. QED
  BY <1>1, <1>12, <1>13, ReadsOn

\* What a step of the reading leads to.
ReadStep ==
  \/ pc' = pc /\ result' = result /\ Reading'
  \/ pc' = "end" /\ need' = <<>> /\ Refused(result')

\* An error ends the reading.
LEMMA Fails ==
  ASSUME NEW e, Fail(e), ~ IsOk(e), DOMAIN e \subseteq {"err", "pos", "expect", "value"},
         KeepsContract => \A v \in Typed(reader) : ~ Says(Segments, reader, v),
         (KeepsContract /\ ~ IsDirName(TypeOf(reader))) => Unspelled(Segments, reader),
         e.err = "InvalidSegment" => Points(Segments, e.pos, reader)
  PROVE  ReadStep
BY DEF Fail, ReadStep, Refused

\* So does a text without the segment that a call needs.
LEMMA NoElementFails ==
  ASSUME Calling, NoElement, Fail(ret'), Head(need).t \in {"prefix", "string", "raw", "u64", "u32", "enum"}
  PROVE  ReadStep
<1>1. /\ Reading /\ need # <<>> /\ reader \in DOMAIN Catalog /\ str_key \in Texts /\ Exhausted
      /\ ret' = [err |-> "WrongNumberOfSegments", expect |-> i + 1]
  BY CallFinds DEF Calling, NoElement, WrongNumberOfSegments
<1>2. \/ Head(need).t = "prefix"
      \/ Head(need) \in AllTypes /\ (Head(need) \in Leaves \/ Head(need).t = "enum")
  BY CallIs
<1>3. \A v \in Typed(reader) : ~ Says(Segments, reader, v)
  BY <1>1, <1>2, ShortText
<1>4. /\ ~ IsOk(ret') /\ DOMAIN ret' \subseteq {"err", "pos", "expect", "value"}
      /\ ret'.err # "InvalidSegment"
  BY <1>1 DEF IsOk
<1>5. Unspelled(Segments, reader)
  <2>1. /\ Aligned(Segments, i, reader, << Head(need) >> \o Tail(need)) /\ IsList(Tail(need))
        /\ Segments \in Seq(Texts) /\ Len(Segments) \in Nat
    BY CallFinds
  <2>2. i = Len(Segments)
    BY <1>1 DEF Reading, Position, Exhausted, Segments
  <2>3. PICK call, rest : call = Head(need) /\ rest = Tail(need)
    OBVIOUS
  <2>4. QED
    BY <1>1, <1>2, <2>1, <2>2, <2>3, NeedsSlot
<1>6. QED
  BY <1>3, <1>4, <1>5, Fails

\* And one whose next segment is that of no value.
LEMMA SegmentFails ==
  ASSUME Calling, ~ Exhausted, NEW e, Fail(e), ~ IsOk(e), DOMAIN e \subseteq {"err", "pos", "expect", "value"},
         \A v \in Typed(reader) : ~ Agrees(Segments, i + 1, reader, v),
         Open(Segments, i + 1, reader) = {},
         e.err = "InvalidSegment" => Points(Segments, e.pos, reader)
  PROVE  ReadStep
<1>1. Segments \in Seq(Texts) /\ i \in 0 .. Len(Segments) /\ i + 1 \in 1 .. Len(Segments)
        /\ reader \in DOMAIN Catalog
  BY CallFinds DEF Calling
<1>2. i < Len(Segments)
  BY <1>1
<1>3. \A v \in Typed(reader) : ~ Says(Segments, reader, v)
  BY <1>1, <1>2, SaysNothing
<1>4. Unspelled(Segments, reader)
  <2>1. i \in Nat /\ Len(Segments) \in Nat
    BY <1>1
  <2>2. QED
    BY <1>1, <1>2, <2>1, UnspelledIs
<1>5. QED
  BY <1>3, <1>4, Fails

\* A call of a type that is one segment, which is read as it should be or not.
LEMMA LeafStep ==
  ASSUME Calling, ~ Exhausted, Head(need) \in Leaves, Head(need) \in AllTypes,
         Head(need).t \in {"string", "raw", "u64", "u32"},
         NEW outcome, NextElement(outcome), UNCHANGED reader,
         NEW o, o = ReadAs(Head(need), Element),
         \/ IsOk(o) /\ need' = Tail(need) /\ got' = Append(got, o) /\ UNCHANGED <<pc, result>>
         \/ ~ IsOk(o) /\ \E e : /\ Fail(e) /\ ~ IsOk(e) /\ e.err # "InvalidSegment"
                                /\ DOMAIN e \subseteq {"err", "pos", "expect", "value"}
  PROVE  ReadStep
<1>1. PICK type, rest, e : type = Head(need) /\ rest = Tail(need) /\ e = Segments[i + 1]
  OBVIOUS
<1>2. /\ i \in Nat /\ IsList(got) /\ IsList(rest) /\ reader \in DOMAIN Catalog
      /\ Means(Segments, i, reader, << type >> \o rest, got)
      /\ Aligned(Segments, i, reader, << type >> \o rest)
      /\ Element = e /\ e \in Str /\ Position(str_key, i + 1, ElementEnd(at) + 1)
  BY <1>1, CallFinds DEF Calling
<1>3. o = ReadAs(type, e) /\ type \in AllTypes /\ type \in Leaves
  BY <1>1, <1>2
<1>4. /\ \A v : Spells(e, Item(FormOf[type.t], v)) <=> v = o
      /\ o \in ValuesOf[type] <=> IsOk(o)
  <2>1. e \in Str
    BY <1>2
  <2>2. /\ \A v : Spells(e, Item(FormOf[type.t], v)) <=> v = ReadAs(type, e)
        /\ ReadAs(type, e) \in ValuesOf[type] <=> IsOk(ReadAs(type, e))
    BY <1>3, <2>1, ReadAsIs
  <2>3. QED
    BY <1>3, <2>2
<1>5. \A v \in ValuesOf[type] : Spells(Segments[i + 1], Item(FormOf[type.t], v)) <=> v = o
  BY <1>1, <1>4
<1>6. /\ o \in ValuesOf[type] => Means(Segments, i + 1, reader, rest, Append(got, o))
      /\ o \notin ValuesOf[type] => \A v \in Typed(reader) : ~ Agrees(Segments, i + 1, reader, v)
  BY <1>2, <1>3, <1>5, LeafMeans
<1>7. /\ IsOk(o) => Means(Segments, i + 1, reader, rest, Append(got, o))
      /\ ~ IsOk(o) => \A v \in Typed(reader) : ~ Agrees(Segments, i + 1, reader, v)
  BY <1>4, <1>6
<1>8. i' = i + 1 /\ at' = ElementEnd(at) + 1 /\ str_key' = str_key /\ i + 1 # 0
  BY <1>2 DEF NextElement
<1>9. /\ IsOk(o) => Aligned(Segments, i + 1, reader, rest)
      /\ ~ IsOk(o) => Open(Segments, i + 1, reader) = {}
  <2>1. Segments[i + 1] \in Str /\ o = ReadAs(type, Segments[i + 1])
    BY <1>1, <1>2, <1>3
  <2>2. QED
    BY <1>2, <1>3, <2>1, AlignLeaf
<1>10. CASE IsOk(o)
  <2>1. need' = rest /\ got' = Append(got, o) /\ UNCHANGED <<pc, result>>
    BY <1>1, <1>10
  <2>2. IsList(Append(got, o))
    BY <1>2, ListAppend
  <2>3. IsList(got') /\ Position(str_key, i', at') /\ i' # 0 /\ Means(Segments, i', reader, Tail(need), got')
    BY <1>1, <1>2, <1>7, <1>8, <1>10, <2>1, <2>2
  <2>4. Aligned(Segments, i', reader, Tail(need))
    BY <1>1, <1>8, <1>10, <1>9
  <2>5. Reading'
    BY <1>1, <1>8, <2>1, <2>3, <2>4, CallMade
  <2>6. QED
    BY <2>1, <2>5 DEF ReadStep
<1>11. CASE ~ IsOk(o)
  <2>1. PICK x : /\ Fail(x) /\ ~ IsOk(x) /\ x.err # "InvalidSegment"
                 /\ DOMAIN x \subseteq {"err", "pos", "expect", "value"}
    BY <1>11
  <2>2. QED
    BY <1>7, <1>11, <1>9, <2>1, SegmentFails
<1>12. QED
  BY <1>10, <1>11

\* Forms of the outcomes.
LEMMA OutcomesAre ==
  ASSUME NEW e \in Str
  PROVE  /\ IsOk(OkText(e))
         /\ ~ IsOk(Unescape(e)) => /\ DOMAIN Unescape(e) \subseteq {"err", "pos", "expect", "value"}
                                   /\ Unescape(e).err # "InvalidSegment"
         /\ \A max \in Nat : ~ IsOk(DecodeId(e, max)) => DecodeId(e, max) = Err("InvalidId")
<1>1. e \in Seq(Byte)
  BY DEF Str
<1>2. IsOk(OkText(e))
  BY DEF IsOk, OkText
<1>3. \/ \E p : Unescape(e) = ErrAt("InvalidEscape", p)
      \/ Unescape(e) = Err("FromUtf8Error")
      \/ \E t : Unescape(e) = OkText(t)
  BY UnescapeForm
<1>4. ~ IsOk(Unescape(e)) => /\ DOMAIN Unescape(e) \subseteq {"err", "pos", "expect", "value"}
                             /\ Unescape(e).err # "InvalidSegment"
  <2>1. PICK r : r = Unescape(e)
    OBVIOUS
  <2>2. ASSUME NEW p, r = ErrAt("InvalidEscape", p)
        PROVE  DOMAIN r \subseteq {"err", "pos", "expect", "value"} /\ r.err # "InvalidSegment"
    BY <2>2 DEF ErrAt
  <2>3. ASSUME r = Err("FromUtf8Error")
        PROVE  DOMAIN r \subseteq {"err", "pos", "expect", "value"} /\ r.err # "InvalidSegment"
    BY <2>3 DEF Err
  <2>4. ASSUME NEW t, r = OkText(t)
        PROVE  IsOk(r)
    BY <2>4 DEF OkText, IsOk
  <2>5. QED
    BY <1>3, <2>1, <2>2, <2>3, <2>4
<1>5. ASSUME NEW max \in Nat
      PROVE  ~ IsOk(DecodeId(e, max)) => DecodeId(e, max) = Err("InvalidId")
  <2>1. \/ DecodeId(e, max) = Err("InvalidId")
        \/ \E n \in Nat : DecodeId(e, max) = OkId(n)
    BY <1>1, DecodeIdType
  <2>2. \A n : IsOk(OkId(n))
    BY DEF OkId, IsOk
  <2>3. QED
    BY <2>1, <2>2
<1>6. QED
  BY <1>2, <1>4, <1>5

\* Joining nothing to a list leaves it as it is.
LEMMA ListNeutral ==
  ASSUME NEW q, IsList(q)
  PROVE  <<>> \o q = q /\ q \o <<>> = q
BY EmptyIsNeutral DEF IsList

\* The calls of String, Raw and u64.
LEMMA LeafTry ==
  ASSUME Calling, Head(need).t \in {"string", "raw", "u64"}, UNCHANGED reader,
         NEW outcome, NextElement(outcome) \/ NoElement,
         outcome = ReadAs(Head(need), Element),
         IF IsOk(ret') THEN need' = <<>> \o Tail(need) /\ got' = got \o << ret' >> /\ UNCHANGED <<pc, result>>
         ELSE Fail(ret')
  PROVE  ReadStep
<1>1. /\ Head(need) \in Leaves /\ Head(need) \in AllTypes /\ IsList(got) /\ IsList(Tail(need))
      /\ Head(need).t \in {"string", "raw", "u64", "u32"}
  BY CallIs, CallFinds
<1>2. CASE NoElement
  <2>1. ~ IsOk(ret')
    BY <1>2 DEF NoElement, WrongNumberOfSegments, IsOk
  <2>2. QED
    BY <1>2, <2>1, NoElementFails
<1>3. CASE NextElement(outcome)
  <2>1. ret' = outcome /\ ~ Exhausted /\ Element \in Str
    BY <1>3, CallFinds DEF NextElement
  <2>2. CASE IsOk(outcome)
    <3>1. need' = Tail(need) /\ got' = Append(got, outcome) /\ UNCHANGED <<pc, result>>
      BY <1>1, <2>1, <2>2, ListAppend, ListNeutral
    <3>2. QED
      BY <1>1, <1>3, <2>1, <2>2, <3>1, LeafStep
  <2>3. CASE ~ IsOk(outcome)
    <3>1. \/ outcome = Unescape(Element) \/ outcome = OkText(Element) \/ outcome = DecodeId(Element, MaxU64)
      BY DEF ReadAs
    <3>2. DOMAIN Err("InvalidId") \subseteq {"err", "pos", "expect", "value"} /\ Err("InvalidId").err = "InvalidId"
      BY DEF Err
    <3>3. outcome.err # "InvalidSegment" /\ DOMAIN outcome \subseteq {"err", "pos", "expect", "value"}
      BY <2>1, <2>3, <3>1, <3>2, OutcomesAre, MaxU64Assumption
    <3>4. Fail(outcome)
      BY <2>1, <2>3
    <3>5. QED
      BY <1>1, <1>3, <2>1, <2>3, <3>3, <3>4, LeafStep
  <2>4. QED
    BY <2>2, <2>3
<1>4. QED
  BY <1>2, <1>3

\* String::decode_key() takes a step of the reading,
LEMMA DecodeStringStep ==
  ASSUME Calling, DecodeString
  PROVE  ReadStep
<1>1. /\ Head(need).t = "string" /\ UNCHANGED reader /\ (NextElement(Unescape(Element)) \/ NoElement)
      /\ IF IsOk(ret') THEN need' = <<>> \o Tail(need) /\ got' = got \o << ret' >> /\ UNCHANGED <<pc, result>>
         ELSE Fail(ret')
  BY DEF DecodeString, Decode, Try, keys, NextStr
<1>2. Unescape(Element) = ReadAs(Head(need), Element)
  BY <1>1 DEF ReadAs
<1>3. QED
  BY <1>1, <1>2, LeafTry

\* and so does Raw::decode_key(),
LEMMA DecodeRawStep ==
  ASSUME Calling, DecodeRaw
  PROVE  ReadStep
<1>1. /\ Head(need).t = "raw" /\ UNCHANGED reader /\ (NextElement(OkText(Element)) \/ NoElement)
      /\ IF IsOk(ret') THEN need' = <<>> \o Tail(need) /\ got' = got \o << ret' >> /\ UNCHANGED <<pc, result>>
         ELSE Fail(ret')
  BY DEF DecodeRaw, Decode, Try, keys, NextRaw
<1>2. OkText(Element) = ReadAs(Head(need), Element)
  BY <1>1 DEF ReadAs
<1>3. QED
  BY <1>1, <1>2, LeafTry

\* u64::decode_key(),
LEMMA DecodeU64Step ==
  ASSUME Calling, DecodeU64
  PROVE  ReadStep
<1>1. /\ Head(need).t = "u64" /\ UNCHANGED reader /\ (NextElement(DecodeId(Element, MaxU64)) \/ NoElement)
      /\ IF IsOk(ret') THEN need' = <<>> \o Tail(need) /\ got' = got \o << ret' >> /\ UNCHANGED <<pc, result>>
         ELSE Fail(ret')
  BY DEF DecodeU64, Decode, Try, keys, NextU64
<1>2. DecodeId(Element, MaxU64) = ReadAs(Head(need), Element)
  BY <1>1 DEF ReadAs
<1>3. QED
  BY <1>1, <1>2, LeafTry

\* An u32 is read as an u64 and narrowed.
LEMMA DecodeU32Step ==
  ASSUME Calling, DecodeU32
  PROVE  ReadStep
<1>1. /\ Head(need).t = "u32" /\ UNCHANGED reader /\ (NextElement(DecodeId(Element, MaxU64)) \/ NoElement)
      /\ IF IsOk(ret') /\ ret'.id <= MaxU32
         THEN need' = Tail(need) /\ got' = Append(got, ret') /\ UNCHANGED <<pc, result>>
         ELSE Fail(IF IsOk(ret') THEN Err("InvalidId") ELSE ret')
  BY DEF DecodeU32, Decode, keys, NextU64
<1>2. /\ Head(need) \in Leaves /\ Head(need) \in AllTypes
      /\ Head(need).t \in {"string", "raw", "u64", "u32"}
      /\ MaxU64 \in Nat
  BY <1>1, CallIs, MaxU64Assumption
<1>3. CASE NoElement
  <2>1. ~ IsOk(ret')
    BY <1>3 DEF NoElement, WrongNumberOfSegments, IsOk
  <2>2. QED
    BY <1>1, <1>3, <2>1, NoElementFails
<1>4. CASE NextElement(DecodeId(Element, MaxU64))
  <2>1. PICK wide, narrow : wide = DecodeId(Element, MaxU64) /\ narrow = DecodeId(Element, MaxU32)
    OBVIOUS
  <2>2. ret' = wide /\ ~ Exhausted /\ Element \in Str
    BY <1>4, <2>1, CallFinds DEF NextElement
  <2>3. narrow = ReadAs(Head(need), Element)
    BY <1>1, <2>1 DEF ReadAs
  <2>4. /\ IsOk(wide) /\ wide.id <= MaxU32 => narrow = wide
        /\ ~ (IsOk(wide) /\ wide.id <= MaxU32) => ~ IsOk(narrow)
    BY <2>1, <2>2, NarrowId
  <2>5. CASE IsOk(wide) /\ wide.id <= MaxU32
    <3>1. narrow = wide /\ IsOk(narrow)
      BY <2>4, <2>5
    <3>2. need' = Tail(need) /\ got' = Append(got, narrow) /\ UNCHANGED <<pc, result>>
      BY <1>1, <2>2, <2>5, <3>1
    <3>3. QED
      BY <1>1, <1>2, <1>4, <2>2, <2>3, <3>1, <3>2, LeafStep
  <2>6. CASE ~ (IsOk(wide) /\ wide.id <= MaxU32)
    <3>1. ~ IsOk(narrow)
      BY <2>4, <2>6
    <3>2. PICK e : e = IF IsOk(wide) THEN Err("InvalidId") ELSE wide
      OBVIOUS
    <3>3. Fail(e)
      BY <1>1, <2>2, <2>6, <3>2
    <3>4. e = Err("InvalidId")
      BY <1>2, <2>1, <2>2, <3>2, OutcomesAre
    <3>5. ~ IsOk(e) /\ e.err # "InvalidSegment" /\ DOMAIN e \subseteq {"err", "pos", "expect", "value"}
      BY <3>4 DEF Err, IsOk
    <3>6. QED
      BY <1>1, <1>2, <1>4, <2>2, <2>3, <3>1, <3>3, <3>5, LeafStep
  <2>7. QED
    BY <2>5, <2>6
<1>5. QED
  BY <1>1, <1>3, <1>4

\* the unit type's,
LEMMA DecodeUnitStep ==
  ASSUME Calling, DecodeUnit
  PROVE  ReadStep
<1>1. /\ Head(need).t = "unit" /\ UNCHANGED <<str_key, i, at, reader, pc, result>>
      /\ need' = Tail(need) /\ got' = Append(got, Unit)
  BY DEF DecodeUnit, Decode, Returned, parser, keys
<1>2. /\ Head(need) = UnitType /\ UnitType \in AllTypes /\ i # 0
      /\ IsList(got) /\ IsList(Tail(need)) /\ Position(str_key, i, at)
      /\ Means(Segments, i, reader, << UnitType >> \o Tail(need), got)
      /\ Aligned(Segments, i, reader, << UnitType >> \o Tail(need)) /\ reader \in DOMAIN Catalog
  BY <1>1, CallIs, CallFinds DEF Calling, Reading
<1>3. Means(Segments, i, reader, Tail(need), Append(got, Unit)) /\ IsList(Append(got, Unit))
  BY <1>2, UnitMeans, ListAppend
<1>4. Aligned(Segments, i, reader, Tail(need))
  BY <1>2, AlignNothing
<1>5. IsList(got') /\ Position(str_key, i', at') /\ i' # 0 /\ Means(Segments, i', reader, Tail(need), got')
        /\ Aligned(Segments, i', reader, Tail(need))
  BY <1>1, <1>2, <1>3, <1>4
<1>6. Reading'
  BY <1>1, <1>5, CallMade
<1>7. QED
  BY <1>1, <1>6 DEF ReadStep

\* the check of the prefix,
LEMMA DecodePrefixStep ==
  ASSUME Calling, DecodePrefix
  PROVE  ReadStep
<1>1. /\ Head(need).t = "prefix" /\ UNCHANGED reader
      /\ \/ NextElement(IF Element = Catalog[reader].prefix THEN OkUnit ELSE InvalidSegment(i))
         \/ NoElement
      /\ IF IsOk(ret') THEN need' = <<>> \o Tail(need) /\ got' = got \o <<>> /\ UNCHANGED <<pc, result>>
         ELSE Fail(ret')
  BY DEF DecodePrefix, Decode, Try, keys, NextLiteral
<1>2. /\ i = 0 /\ Tail(need) = << TypeOf(reader) >> /\ i \in Nat /\ IsList(got) /\ IsList(Tail(need))
      /\ reader \in DOMAIN Catalog
      /\ Means(Segments, i, reader, << Head(need) >> \o Tail(need), got)
      /\ Aligned(Segments, i, reader, << Head(need) >> \o Tail(need))
  BY <1>1, CallIs, CallFinds DEF Calling
<1>3. CASE NoElement
  <2>1. ~ IsOk(ret')
    BY <1>3 DEF NoElement, WrongNumberOfSegments, IsOk
  <2>2. QED
    BY <1>1, <1>3, <2>1, NoElementFails
<1>4. CASE NextElement(IF Element = Catalog[reader].prefix THEN OkUnit ELSE InvalidSegment(i))
  <2>1. /\ ~ Exhausted /\ i' = i + 1 /\ at' = ElementEnd(at) + 1 /\ str_key' = str_key
        /\ ret' = IF Element = Catalog[reader].prefix THEN OkUnit ELSE InvalidSegment(i)
    BY <1>4 DEF NextElement
  <2>2. Element = Segments[i + 1] /\ Position(str_key, i + 1, ElementEnd(at) + 1)
    BY <2>1, CallFinds
  <2>3. PICK call, rest : call = Head(need) /\ rest = Tail(need)
    OBVIOUS
  <2>4. /\ Segments[i + 1] = Catalog[reader].prefix => Means(Segments, i + 1, reader, rest, got)
        /\ Segments[i + 1] # Catalog[reader].prefix =>
             \A v \in Typed(reader) : ~ Agrees(Segments, i + 1, reader, v)
    BY <1>1, <1>2, <2>3, PrefixMeans
  <2>5. /\ Segments[i + 1] = Catalog[reader].prefix => Aligned(Segments, i + 1, reader, rest)
        /\ Segments[i + 1] # Catalog[reader].prefix =>
             Open(Segments, i + 1, reader) = {} /\ Points(Segments, i, reader)
    <3>1. i < Len(Segments)
      BY <1>2, <2>1, CallFinds
    <3>2. QED
      BY <1>1, <1>2, <2>3, <3>1, AlignPrefix
  <2>6. CASE Element = Catalog[reader].prefix
    <3>1. IsOk(ret')
      BY <2>1, <2>6 DEF OkUnit, IsOk
    <3>2. need' = << TypeOf(reader) >> /\ got' = got /\ UNCHANGED <<pc, result>>
      BY <1>1, <1>2, <3>1, ListNeutral
    <3>3. i + 1 = 1
      BY <1>2
    <3>4. i' = 1
      BY <2>1, <3>3
    <3>5. i' = 1 /\ i + 1 = 1 /\ need' = rest
      BY <1>2, <2>3, <3>2, <3>3, <3>4
    <3>6. Segments[1] = Catalog[reader].prefix /\ Means(Segments, 1, reader, rest, got)
      BY <2>2, <2>4, <2>6, <3>5
    <3>7. Aligned(Segments, 1, reader, rest)
      BY <2>2, <2>6, <2>5, <3>5
    <3>8. Means(Segments, i', reader, need', got') /\ Aligned(Segments, i', reader, need')
      BY <3>2, <3>5, <3>6, <3>7
    <3>9. /\ IsList(need') /\ IsList(got') /\ Position(str_key, i', at')
          /\ Means(Segments, i', reader, need', got') /\ Aligned(Segments, i', reader, need')
          /\ i' # 0 /\ Segments[1] = Catalog[reader].prefix
      <4>1. IsList(need') /\ IsList(got')
        BY <1>2, <2>3, <3>2, <3>5
      <4>2. Position(str_key, i', at')
        BY <2>1, <2>2
      <4>3. QED
        BY <3>5, <3>6, <3>8, <4>1, <4>2
    <3>10. \A k \in DOMAIN need' : need'[k] \in AllTypes /\ need'[k] = TypeOf(reader)
      <4>1. TypeOf(reader) \in AllTypes
        BY <1>2, WireOfIs
      <4>2. PICK type : type = TypeOf(reader)
        OBVIOUS
      <4>3. \A k \in DOMAIN << type >> : << type >>[k] = type
        OBVIOUS
      <4>4. QED
        BY <3>2, <4>1, <4>2, <4>3
    <3>11. Reading'
      BY <1>1, <2>1, <3>2, <3>9, <3>10, ReadsOn
    <3>12. QED
      BY <3>2, <3>11 DEF ReadStep
  <2>7. CASE Element # Catalog[reader].prefix
    <3>1. PICK e : e = InvalidSegment(i)
      OBVIOUS
    <3>2. ~ IsOk(e) /\ DOMAIN e \subseteq {"err", "pos", "expect", "value"} /\ e.pos = i
      BY <3>1 DEF InvalidSegment, ErrAt, IsOk
    <3>3. Fail(e) /\ \A v \in Typed(reader) : ~ Agrees(Segments, i + 1, reader, v)
      BY <1>1, <2>1, <2>2, <2>4, <2>7, <3>1, <3>2
    <3>4. Points(Segments, e.pos, reader) /\ Open(Segments, i + 1, reader) = {}
      BY <2>2, <2>7, <2>5, <3>2
    <3>5. QED
      BY <2>1, <3>2, <3>3, <3>4, SegmentFails
  <2>8. QED
    BY <2>6, <2>7
<1>5. QED
  BY <1>1, <1>3, <1>4

\* The types of the fields of a struct or of a variant.
LEMMA FieldTypes ==
  ASSUME NEW type \in AllTypes, NEW types,
         \/ type.t = "struct" /\ types = type.fields
         \/ type.t = "enum" /\ \E k \in DOMAIN type.variants : types = type.variants[k].fields
  PROVE  /\ IsList(types) /\ Len(types) \in Nat
         /\ \A k \in DOMAIN types : types[k] \in AllTypes /\ types[k] \in Components(type)
         /\ KeepsContract => \A k \in DOMAIN types : ~ IsDirName(types[k])
<1>1. IsList(types) /\ Components(type) \subseteq AllTypes
  <2>1. Components(type) \subseteq AllTypes
    BY TypeIs
  <2>2. type.t = "struct" => IsList(type.fields)
    BY StructValues
  <2>3. type.t = "enum" => \A k \in DOMAIN type.variants : IsList(type.variants[k].fields)
    BY TagsAre
  <2>4. QED
    BY <2>1, <2>2, <2>3
<1>2. \A k \in DOMAIN types : types[k] \in Components(type)
  BY ComponentsAre
<1>3. KeepsContract => \A k \in DOMAIN types : ~ IsDirName(types[k])
  BY <1>2 DEF KeepsContract
<1>4. QED
  BY <1>1, <1>2, <1>3, ListIs

\* a generated struct's,
LEMMA DecodeStructStep ==
  ASSUME Calling, DecodeStruct
  PROVE  ReadStep
<1>1. PICK type, types, call : /\ type = Head(need) /\ types = type.fields
                              /\ call = [t |-> "build", of |-> "struct", arity |-> Len(types)]
  OBVIOUS
<1>2. /\ type.t = "struct" /\ UNCHANGED <<str_key, i, at, reader, got, pc, result>>
      /\ need' = types \o << call >> \o Tail(need)
  BY <1>1 DEF DecodeStruct, Decode, parser, keys
<1>3. /\ type \in AllTypes /\ i # 0 /\ IsList(got) /\ IsList(Tail(need)) /\ Position(str_key, i, at)
      /\ Means(Segments, i, reader, << type >> \o Tail(need), got)
      /\ Aligned(Segments, i, reader, << type >> \o Tail(need)) /\ reader \in DOMAIN Catalog
  BY <1>1, <1>2, CallIs, CallFinds DEF Calling, Reading
<1>4. /\ IsList(types) /\ Len(types) \in Nat /\ \A k \in DOMAIN types : types[k] \in AllTypes
      /\ KeepsContract => \A k \in DOMAIN types : ~ IsDirName(types[k])
  BY <1>1, <1>2, <1>3, FieldTypes
<1>5. call.t = "build" /\ call.of = "struct" /\ call.arity = Len(type.fields) /\ IsBuild(call)
  BY <1>1, <1>4 DEF IsBuild
<1>6. Means(Segments, i, reader, types \o << call >> \o Tail(need), got)
  BY <1>1, <1>2, <1>3, <1>5, StructMeans
<1>7. Aligned(Segments, i, reader, types \o << call >> \o Tail(need))
  BY <1>1, <1>2, <1>3, <1>4, <1>5, AlignStruct
<1>8. /\ Position(str_key, i', at') /\ i' # 0
      /\ Means(Segments, i', reader, types \o << call >> \o Tail(need), got)
      /\ Aligned(Segments, i', reader, types \o << call >> \o Tail(need))
  BY <1>2, <1>3, <1>6, <1>7
<1>9. Head(need).t \notin {"prefix", "dir"}
  BY <1>1, <1>2
<1>10. Reading'
  BY <1>2, <1>4, <1>5, <1>8, <1>9, CallsMore
<1>11. QED
  BY <1>2, <1>10 DEF ReadStep

\* DirName's, which fails or decodes a key with the level 1,
LEMMA DecodeDirNameStep ==
  ASSUME Calling, DecodeDirName
  PROVE  ReadStep
<1>1. Head(need).t = "dir" /\ Fail(Err("NotDecodable"))
  BY DEF DecodeDirName, Decode
<1>2. KeepsContract => IsDirName(TypeOf(reader))
  BY <1>1, NextCall DEF Calling, IsDirName
<1>3. KeepsContract => \A v \in Typed(reader) : ~ Says(Segments, reader, v)
  BY <1>2 DEF Says, IsDirName
<1>4. PICK e : e = Err("NotDecodable")
  OBVIOUS
<1>5. ~ IsOk(e) /\ e.err # "InvalidSegment" /\ DOMAIN e \subseteq {"err", "pos", "expect", "value"}
  BY <1>4 DEF Err, IsOk
<1>6. Fail(e)
  BY <1>1, <1>4
<1>7. QED
  BY <1>2, <1>3, <1>5, <1>6, Fails

\* A constructor takes values from the end of a list and puts one there.
LEMMA BuiltIsList ==
  ASSUME NEW g, IsList(g), NEW call, call.arity \in Nat
  PROVE  IsList(Built(call, g))
<1>1. PICK n, m : n = call.arity /\ m = Len(g) - n
  OBVIOUS
<1>2. Len(g) \in Nat /\ DOMAIN g = 1 .. Len(g) /\ g \in Seq(Range(g)) /\ n \in Nat
        /\ \A k \in DOMAIN g : g[k] \in Range(g)
  BY <1>1, ListIs DEF IsList
<1>3. 1 \in Int /\ m \in Int /\ m <= Len(g)
  BY <1>1, <1>2
<1>4. \A k \in 1 .. m : g[k] \in Range(g)
  <2>1. \A k \in 1 .. m : k \in 1 .. Len(g)
    BY <1>2, <1>3
  <2>2. QED
    BY <1>2, <2>1
<1>5. SubSeq(g, 1, m) \in Seq(Range(g))
  BY <1>2, <1>3, <1>4, SubSeqProperties
<1>6. \A S : \A s \in Seq(S) : IsList(s)
  <2>1. SUFFICES ASSUME NEW S, NEW s \in Seq(S)
                 PROVE  s \in Seq(Range(s))
    BY DEF IsList
  <2>2. Len(s) \in Nat /\ s \in [1 .. Len(s) -> S] /\ DOMAIN s = 1 .. Len(s)
    OBVIOUS
  <2>3. \A k \in 1 .. Len(s) : s[k] \in Range(s)
    BY <2>2 DEF Range
  <2>4. s \in [1 .. Len(s) -> Range(s)]
    BY <2>2, <2>3
  <2>5. QED
    BY <2>2, <2>4
<1>7. IsList(SubSeq(g, 1, m))
  BY <1>5, <1>6
<1>8. \A v : IsList(Append(SubSeq(g, 1, m), v))
  BY <1>7, ListAppend
<1>9. QED
  BY <1>1, <1>8 DEF Built

\* and the construction of a struct or variant from its fields.
LEMMA BuildStep ==
  ASSUME Calling, Build
  PROVE  ReadStep
<1>1. PICK call : call = Head(need)
  OBVIOUS
<1>2. /\ call.t = "build" /\ UNCHANGED <<str_key, i, at, reader, pc, result>>
      /\ got' = Built(call, got) /\ need' = Tail(need)
  BY <1>1 DEF Build, Decode, Built, parser, keys
<1>3. /\ i # 0 /\ IsList(got) /\ IsList(Tail(need)) /\ Position(str_key, i, at)
      /\ Means(Segments, i, reader, << call >> \o Tail(need), got)
      /\ Aligned(Segments, i, reader, << call >> \o Tail(need)) /\ reader \in DOMAIN Catalog
  BY <1>1, <1>2, CallIs, CallFinds DEF Calling, Reading
<1>4. call.arity \in Nat
  <2>1. call \in AllTypes \/ IsBuild(call) \/ call = [t |-> "prefix"]
    BY <1>1, NextCall DEF Calling
  <2>2. QED
    BY <1>2, <2>1, TypeIsNoCall DEF IsBuild
<1>5. IsList(Built(call, got)) /\ Means(Segments, i, reader, Tail(need), Built(call, got))
  BY <1>2, <1>3, <1>4, BuiltIsList, BuildMeans
<1>6. Aligned(Segments, i, reader, Tail(need))
  BY <1>2, <1>3, <1>4, AlignNothing DEF IsBuild
<1>7. IsList(got') /\ Position(str_key, i', at') /\ i' # 0 /\ Means(Segments, i', reader, Tail(need), got')
        /\ Aligned(Segments, i', reader, Tail(need))
  BY <1>2, <1>3, <1>5, <1>6
<1>8. Head(need).t \notin {"prefix", "dir"}
  BY <1>1, <1>2
<1>9. Reading'
  BY <1>2, <1>7, <1>8, CallMade
<1>10. QED
  BY <1>2, <1>9 DEF ReadStep

\* done(): the value that was read is the only one that the text says.
LEMMA FromStrKeyStep ==
  ASSUME Reading, ParserTypeOK, str_key \in Str, reader \in DOMAIN Catalog, FromStrKey
  PROVE  pc' = "end" /\ need' = <<>> /\ (Accepted(result') \/ Refused(result'))
<1>1. /\ need = <<>> /\ need' = <<>> /\ pc' = "end" /\ UNCHANGED reader
      /\ result' = IF IsOk(ret') THEN OkValue(got[1]) ELSE ret'
      /\ IF Exhausted THEN ret' = OkUnit ELSE ret' = WrongNumberOfSegments(i)
  BY DEF FromStrKey, ParserDone, keys
<1>2. /\ Segments \in Seq(Texts) /\ Len(Segments) \in Nat /\ i \in Nat
      /\ Exhausted => i = Len(Segments)
      /\ ~ Exhausted => i < Len(Segments)
  <2>1. str_key \in Texts
    BY DEF Str, Texts
  <2>2. Segments \in Seq(Texts) /\ Len(Segments) \in Nat
    BY <2>1, SplitType DEF Segments
  <2>3. QED
    BY <2>2 DEF Reading, Position, Exhausted, Segments
<1>3. IsList(got) /\ Means(Segments, i, reader, <<>>, got)
  BY <1>1 DEF Reading
<1>4. /\ \E v \in Typed(reader) : got = << v >> /\ Len(WireOf(reader, v)) = i /\ Agrees(Segments, i, reader, v)
      /\ \A v \in Typed(reader) : Agrees(Segments, i, reader, v) => got = << v >> /\ Len(WireOf(reader, v)) = i
  BY <1>2, <1>3, MeansEnd
<1>5. TypeOf(reader).t # "dir"
  BY <1>1 DEF Reading, DirNamesLeft, IsDirName, ReadCalls
<1>6. CASE Exhausted
  <2>1. i = Len(Segments) /\ result' = OkValue(got[1])
    BY <1>1, <1>2, <1>6 DEF OkUnit, IsOk
  <2>2. PICK v \in Typed(reader) : got = << v >> /\ Len(WireOf(reader, v)) = i /\ Agrees(Segments, i, reader, v)
    BY <1>4
  <2>3. Says(Segments, reader, v)
    BY <1>5, <2>1, <2>2 DEF Says
  <2>4. \A u \in Typed(reader) : Says(Segments, reader, u) => u = v
    <3>1. \A u \in Typed(reader) : Says(Segments, reader, u) => got = << u >>
      BY <1>4, <2>1 DEF Says
    <3>2. \A u : << u >> = << v >> => u = v
      OBVIOUS
    <3>3. QED
      BY <2>2, <3>1, <3>2
  <2>5. PICK r : r = OkValue(v)
    OBVIOUS
  <2>6. IsOk(r) /\ r = OkValue(r.value) /\ r.value = v
    BY <2>5 DEF OkValue, IsOk
  <2>7. Accepted(r)
    BY <2>3, <2>4, <2>6 DEF Accepted
  <2>8. result' = r
    BY <2>1, <2>2, <2>5
  <2>9. QED
    BY <1>1, <2>7, <2>8
<1>7. CASE ~ Exhausted
  <2>1. PICK r : r = [err |-> "WrongNumberOfSegments", expect |-> i]
    OBVIOUS
  <2>2. ~ IsOk(r) /\ DOMAIN r \subseteq {"err", "pos", "expect", "value"} /\ r.err # "InvalidSegment"
    BY <2>1 DEF IsOk
  <2>3. result' = r
    BY <1>1, <1>7, <2>1, <2>2 DEF WrongNumberOfSegments
  <2>4. ASSUME NEW v \in Typed(reader), Says(Segments, reader, v)
        PROVE  FALSE
    <3>1. Len(Segments) = Len(WireOf(reader, v)) /\ Agrees(Segments, Len(Segments), reader, v)
      BY <2>4 DEF Says
    <3>2. i <= Len(Segments)
      BY <1>2, <1>7
    <3>3. Agrees(Segments, i, reader, v)
      BY <1>2, <3>1, <3>2 DEF Agrees
    <3>4. Len(WireOf(reader, v)) = i
      BY <1>4, <3>3
    <3>5. QED
      BY <1>2, <1>7, <3>1, <3>4
  <2>5. Unspelled(Segments, reader)
    <3>1. Aligned(Segments, i, reader, <<>>)
      BY <1>1 DEF Reading
    <3>2. QED
      BY <1>2, <1>7, <3>1, UnspelledIs
  <2>6. Refused(r)
    BY <2>2, <2>4, <2>5 DEF Refused
  <2>7. QED
    BY <1>1, <2>3, <2>6
<1>8. QED
  BY <1>6, <1>7

\* The tag says which variant's fields follow.
LEMMA DecodeEnumStep ==
  ASSUME Calling, DecodeEnum
  PROVE  ReadStep
<1> DEFINE matching == {k \in DOMAIN Head(need).variants :
                          IsOk(ret') /\ Head(need).variants[k].tag = ret'.text}
           least == CHOOSE k \in matching : \A j \in matching : k <= j
           types == Head(need).variants[least].fields
           call == [t |-> "build", of |-> "enum", which |-> least, arity |-> Len(types)]
<1>1. /\ Head(need).t = "enum" /\ UNCHANGED reader /\ (NextElement(OkText(Element)) \/ NoElement)
      /\ matching # {} => need' = types \o << call >> \o Tail(need) /\ UNCHANGED <<pc, got, result>>
      /\ matching = {} => Fail(IF IsOk(ret') THEN InvalidSegment(i' - 1) ELSE ret')
  BY ZenonT(60) DEF DecodeEnum, Decode, keys, NextRaw
<1>2. PICK type : type = Head(need)
  OBVIOUS
<1>3. /\ type.t = "enum" /\ type \in AllTypes /\ i # 0 /\ i \in Nat /\ IsList(got) /\ IsList(Tail(need))
      /\ reader \in DOMAIN Catalog /\ Segments[1] = Catalog[reader].prefix
      /\ Means(Segments, i, reader, << type >> \o Tail(need), got)
      /\ Aligned(Segments, i, reader, << type >> \o Tail(need))
  BY <1>1, <1>2, CallIs, CallFinds, Zenon DEF Calling
<1>4. IsList(type.variants)
  BY <1>3, TagsAre
<1>5. /\ \A k \in DOMAIN type.variants : \A c :
              /\ type.variants[k].tag = Segments[i + 1]
              /\ c.t = "build" /\ c.of # "struct" /\ c.which = k
              /\ c.arity = Len(type.variants[k].fields)
              => Means(Segments, i + 1, reader, type.variants[k].fields \o << c >> \o Tail(need), got)
      /\ (\A k \in DOMAIN type.variants : type.variants[k].tag # Segments[i + 1]) =>
              \A v \in Typed(reader) : ~ Agrees(Segments, i + 1, reader, v)
  BY <1>3, EnumMeans
<1>6. matching \subseteq Nat /\ (matching # {} => least \in matching)
  <2>1. matching \subseteq DOMAIN type.variants /\ DOMAIN type.variants \subseteq Nat
    BY <1>2, <1>4, ListIs
  <2>2. matching # {} => \E x \in matching : \A y \in matching : x <= y
    BY <2>1, LeastElement
  <2>3. QED
    BY <2>1, <2>2
<1>7. PICK one, fields, c : one = least /\ fields = types /\ c = call
  BY Zenon
<1>8. CASE NoElement
  <2>1. ~ IsOk(ret')
    BY <1>8 DEF NoElement, WrongNumberOfSegments, IsOk
  <2>2. matching = {}
    BY <2>1
  <2>3. Fail(ret')
    BY <1>1, <2>1, <2>2, Zenon
  <2>4. QED
    BY <1>1, <1>8, <2>3, NoElementFails, Zenon
<1>9. CASE NextElement(OkText(Element))
  <2>1. /\ ~ Exhausted /\ i' = i + 1 /\ at' = ElementEnd(at) + 1 /\ str_key' = str_key
        /\ ret' = OkText(Element)
    BY <1>9 DEF NextElement
  <2>2. /\ i + 1 \in 1 .. Len(Segments) /\ Element = Segments[i + 1] /\ Segments \in Seq(Texts)
        /\ Position(str_key, i + 1, ElementEnd(at) + 1)
    BY <2>1, CallFinds
  <2>3. /\ \A k \in DOMAIN type.variants : \A b :
              type.variants[k].tag = Segments[i + 1] /\ IsBuild(b)
                => Aligned(Segments, i + 1, reader, type.variants[k].fields \o << b >> \o Tail(need))
        /\ (\A k \in DOMAIN type.variants : type.variants[k].tag # Segments[i + 1]) =>
              Open(Segments, i + 1, reader) = {} /\ Points(Segments, i, reader)
    <3>1. i < Len(Segments)
      BY <1>3, <2>2
    <3>2. QED
      BY <1>3, <3>1, AlignEnum
  <2>4. IsOk(ret') /\ ret'.text = Segments[i + 1]
    BY <2>1, <2>2 DEF OkText, IsOk
  <2>5. \A k : k \in matching <=> k \in DOMAIN type.variants /\ type.variants[k].tag = Segments[i + 1]
    BY <1>2, <2>4
  <2>6. CASE matching # {}
    <3>1. one \in DOMAIN type.variants /\ type.variants[one].tag = Segments[i + 1]
      BY <1>6, <1>7, <2>5, <2>6, ZenonT(60)
    <3>2. fields = type.variants[one].fields
      BY <1>2, <1>7
    <3>3. /\ IsList(fields) /\ Len(fields) \in Nat /\ \A k \in DOMAIN fields : fields[k] \in AllTypes
          /\ KeepsContract => \A k \in DOMAIN fields : ~ IsDirName(fields[k])
      BY <1>3, <3>1, <3>2, FieldTypes
    <3>4. c = [t |-> "build", of |-> "enum", which |-> one, arity |-> Len(fields)]
      BY <1>7
    <3>5. c.t = "build" /\ c.of # "struct" /\ c.which = one /\ c.arity = Len(fields) /\ IsBuild(c)
      BY <3>3, <3>4 DEF IsBuild
    <3>6. need' = fields \o << c >> \o Tail(need) /\ UNCHANGED <<pc, got, result>>
      BY <1>1, <1>7, <2>6, Zenon
    <3> HIDE DEF matching, least, types, call
    <3>7. Means(Segments, i + 1, reader, fields \o << c >> \o Tail(need), got)
      BY <1>5, <3>1, <3>2, <3>5
    <3>8. Aligned(Segments, i + 1, reader, fields \o << c >> \o Tail(need))
      BY <2>3, <3>1, <3>2, <3>5
    <3>9. /\ Position(str_key, i', at') /\ i' # 0
          /\ Means(Segments, i', reader, fields \o << c >> \o Tail(need), got)
          /\ Aligned(Segments, i', reader, fields \o << c >> \o Tail(need))
      BY <1>3, <2>1, <2>2, <3>7, <3>8
    <3>10. Head(need).t \notin {"prefix", "dir"} /\ UNCHANGED <<str_key, reader, got>>
      BY <1>1, <2>1, <3>6
    <3>11. Reading'
      BY <3>3, <3>5, <3>6, <3>9, <3>10, CallsMore
    <3>12. QED
      BY <3>6, <3>11 DEF ReadStep
  <2>7. CASE matching = {}
    <3>1. \A k \in DOMAIN type.variants : type.variants[k].tag # Segments[i + 1]
      BY <2>5, <2>7
    <3>2. \A v \in Typed(reader) : ~ Agrees(Segments, i + 1, reader, v)
      BY <1>5, <3>1
    <3>3. PICK e : e = InvalidSegment(i' - 1)
      OBVIOUS
    <3>4. i' - 1 = i
      BY <1>3, <2>1
    <3>5. Fail(e) /\ e = InvalidSegment(i)
      BY <1>1, <2>4, <2>7, <3>3, <3>4, Zenon
    <3>6. ~ IsOk(e) /\ DOMAIN e \subseteq {"err", "pos", "expect", "value"} /\ e.pos = i
      BY <3>5 DEF InvalidSegment, ErrAt, IsOk
    <3> HIDE DEF matching, least, types, call
    <3>7. Points(Segments, e.pos, reader) /\ Open(Segments, i + 1, reader) = {}
      BY <2>3, <3>1, <3>6
    <3>8. QED
      BY <2>1, <3>2, <3>5, <3>6, <3>7, SegmentFails
  <2>8. QED
    BY <2>6, <2>7
<1>10. QED
  BY <1>1, <1>8, <1>9, ZenonT(60)

-----------------------------------------------------------------------------
(***************************************************************************)
(* to_string_key(): what is written, and what will be.                     *)
(***************************************************************************)
\* The first n items, or all of them, and the segments that they are.
Take(items, n) == SubSeq(items, 1, IF Len(items) <= n THEN Len(items) ELSE n)
\* The segments that items are written as.
Spelled(items) == [k \in DOMAIN items |-> Written(items[k])]

\* The segments of a text to which n of the items can still be written.
WillBe(text, items, n) == Split(text) \o Spelled(Take(items, n))

\* The first n items.
LEMMA TakeIs ==
  ASSUME NEW a \in Wires, NEW n \in Nat
  PROVE  /\ Take(a, n) \in Wires
         /\ Len(Take(a, n)) = IF Len(a) <= n THEN Len(a) ELSE n
         /\ \A k \in 1 .. Len(Take(a, n)) : Take(a, n)[k] = a[k]
         /\ Len(a) <= n => Take(a, n) = a
         /\ n = 0 => Take(a, n) = <<>>
<1>1. PICK m : m = IF Len(a) <= n THEN Len(a) ELSE n
  OBVIOUS
<1>2. a \in Seq(Items) /\ Len(a) \in Nat /\ m \in Nat /\ m <= Len(a) /\ m \in 0 .. Len(a)
  BY <1>1 DEF Wires
<1>3. /\ SubSeq(a, 0 + 1, m) \in Seq(Items) /\ Len(SubSeq(a, 0 + 1, m)) = m - 0
      /\ \A k \in 1 .. m - 0 : SubSeq(a, 0 + 1, m)[k] = a[0 + k]
  <2>1. 0 \in 0 .. Len(a) /\ m \in 0 .. Len(a)
    BY <1>2
  <2>2. QED
    BY <1>2, <2>1, PieceIs
<1>4. 0 + 1 = 1 /\ m - 0 = m /\ \A k \in 1 .. m : 0 + k = k
  BY <1>2
<1>5. /\ Take(a, n) = SubSeq(a, 1, m) /\ SubSeq(a, 1, m) \in Seq(Items) /\ Len(SubSeq(a, 1, m)) = m
      /\ \A k \in 1 .. m : SubSeq(a, 1, m)[k] = a[k]
  <2>1. Take(a, n) = SubSeq(a, 1, m)
    BY <1>1 DEF Take
  <2>2. QED
    BY <1>3, <1>4, <2>1
<1>6. PICK t : t = SubSeq(a, 1, m)
  OBVIOUS
<1>7. t \in Seq(Items) /\ Len(t) = m /\ \A k \in 1 .. m : t[k] = a[k]
  BY <1>5, <1>6
<1>8. m = Len(a) => t = a
  BY <1>2, <1>7
<1>9. m = 0 => t = <<>>
  BY <1>7
<1>10. (Len(a) <= n => m = Len(a)) /\ (n = 0 => m = 0)
  BY <1>1, <1>2
<1>11. QED
  BY <1>1, <1>5, <1>6, <1>7, <1>8, <1>9, <1>10 DEF Wires

\* Sequences of items are equal when they have the same items.
LEMMA SameItems ==
  ASSUME NEW a \in Wires, NEW b \in Wires, Len(a) = Len(b), \A k \in 1 .. Len(a) : a[k] = b[k]
  PROVE  a = b
BY DEF Wires

\* The first n + 1 items are the first and n of the rest.
LEMMA TakeCons ==
  ASSUME NEW x \in Items, NEW a \in Wires, NEW n \in Nat
  PROVE  Take(<< x >> \o a, n + 1) = << x >> \o Take(a, n)
<1>1. PICK all, t, u : all = << x >> \o a /\ t = Take(all, n + 1) /\ u = Take(a, n)
  OBVIOUS
<1>2. /\ all \in Wires /\ Len(all) = Len(a) + 1 /\ all[1] = x
      /\ \A k \in 1 .. Len(a) : all[k + 1] = a[k]
  <2>1. << x >> \in Seq(Items) /\ Len(<< x >>) = 1 /\ << x >>[1] = x /\ a \in Seq(Items) /\ Len(a) \in Nat
    BY DEF Wires
  <2>2. PICK one : one = << x >>
    OBVIOUS
  <2>3. all = one \o a /\ one \in Seq(Items) /\ Len(one) = 1 /\ one[1] = x
    BY <1>1, <2>1, <2>2
  <2>4. /\ all \in Seq(Items) /\ Len(all) = 1 + Len(a)
        /\ \A k \in 1 .. 1 + Len(a) : all[k] = IF k <= 1 THEN one[k] ELSE a[k - 1]
    <3>1. /\ one \o a \in Seq(Items) /\ Len(one \o a) = Len(one) + Len(a)
          /\ \A k \in 1 .. Len(one) + Len(a) :
               (one \o a)[k] = IF k <= Len(one) THEN one[k] ELSE a[k - Len(one)]
      BY <2>1, <2>3, ConcatProperties, ZenonT(60)
    <3>2. QED
      BY <2>3, <3>1
  <2>5. \A k \in 1 .. Len(a) : k + 1 \in 1 .. 1 + Len(a) /\ ~ (k + 1 <= 1) /\ (k + 1) - 1 = k
    BY <2>1
  <2>6. \A k \in 1 .. Len(a) : all[k + 1] = a[k]
    BY <2>4, <2>5
  <2>7. 1 \in 1 .. 1 + Len(a) /\ 1 + Len(a) = Len(a) + 1
    BY <2>1
  <2>8. QED
    BY <2>3, <2>4, <2>6, <2>7 DEF Wires
<1>3. Len(a) \in Nat /\ n + 1 \in Nat
  BY DEF Wires
<1>4. /\ t \in Wires /\ Len(t) = (IF Len(all) <= n + 1 THEN Len(all) ELSE n + 1)
      /\ \A k \in 1 .. Len(t) : t[k] = all[k]
  BY <1>1, <1>2, <1>3, TakeIs
<1>5. /\ u \in Wires /\ Len(u) = (IF Len(a) <= n THEN Len(a) ELSE n)
      /\ \A k \in 1 .. Len(u) : u[k] = a[k]
  BY <1>1, TakeIs
<1>6. Len(t) = Len(u) + 1 /\ Len(u) \in Nat /\ Len(u) <= Len(a)
  BY <1>2, <1>3, <1>4, <1>5
<1>7. /\ << x >> \o u \in Wires /\ Len(<< x >> \o u) = Len(u) + 1 /\ (<< x >> \o u)[1] = x
      /\ \A k \in 1 .. Len(u) : (<< x >> \o u)[k + 1] = u[k]
  <2>1. << x >> \o u \in Wires /\ (<< x >> \o u)[1] = x /\ Tail(<< x >> \o u) = u
          /\ Len(<< x >> \o u) = Len(u) + 1
    BY <1>5, WireCons
  <2>2. PICK w : w = << x >> \o u
    OBVIOUS
  <2>3. w \in Seq(Items) /\ Tail(w) = u /\ Len(w) = Len(u) + 1
    BY <2>1, <2>2 DEF Wires
  <2>4. \A k \in 1 .. Len(u) : w[k + 1] = u[k]
    BY <1>6, <2>3
  <2>5. QED
    BY <2>1, <2>2, <2>4
<1>8. PICK w : w = << x >> \o u
  OBVIOUS
<1>9. \A k \in 1 .. Len(t) : t[k] = w[k]
  <2>1. SUFFICES ASSUME NEW k \in 1 .. Len(t)
                 PROVE  t[k] = w[k]
    OBVIOUS
  <2>2. CASE k = 1
    BY <1>2, <1>4, <1>6, <1>7, <1>8, <2>2
  <2>3. CASE k # 1
    <3>1. PICK j \in 1 .. Len(u) : k = j + 1
      <4>1. k - 1 \in 1 .. Len(u) /\ k = (k - 1) + 1
        BY <1>6, <2>3
      <4>2. QED
        BY <4>1
    <3>2. j \in 1 .. Len(a)
      BY <1>3, <1>6
    <3>3. t[k] = all[j + 1] /\ all[j + 1] = a[j] /\ u[j] = a[j] /\ w[j + 1] = u[j]
      BY <1>2, <1>4, <1>5, <1>7, <1>8, <3>1, <3>2
    <3>4. QED
      BY <3>1, <3>3
  <2>4. QED
    BY <2>2, <2>3
<1>10. t = w
  BY <1>4, <1>6, <1>7, <1>8, <1>9, SameItems
<1>11. QED
  BY <1>1, <1>8, <1>10

\* A limit within a limit is the smaller one.
LEMMA TakeTake ==
  ASSUME NEW a \in Wires, NEW m \in Nat, NEW n \in Nat
  PROVE  Take(Take(a, m), n) = Take(a, IF m < n THEN m ELSE n)
<1>1. PICK least, t, u, w : least = (IF m < n THEN m ELSE n) /\ t = Take(a, m) /\ u = Take(t, n) /\ w = Take(a, least)
  OBVIOUS
<1>2. least \in Nat /\ Len(a) \in Nat
  BY <1>1 DEF Wires
<1>3. /\ t \in Wires /\ Len(t) = (IF Len(a) <= m THEN Len(a) ELSE m)
      /\ \A k \in 1 .. Len(t) : t[k] = a[k]
  BY <1>1, TakeIs
<1>4. /\ u \in Wires /\ Len(u) = (IF Len(t) <= n THEN Len(t) ELSE n)
      /\ \A k \in 1 .. Len(u) : u[k] = t[k]
  BY <1>1, <1>3, TakeIs
<1>5. /\ w \in Wires /\ Len(w) = (IF Len(a) <= least THEN Len(a) ELSE least)
      /\ \A k \in 1 .. Len(w) : w[k] = a[k]
  BY <1>1, <1>2, TakeIs
<1>6. Len(u) = Len(w) /\ Len(u) <= Len(t) /\ Len(u) \in Nat /\ Len(t) \in Nat
  BY <1>1, <1>2, <1>3, <1>4, <1>5
<1>7. \A k \in 1 .. Len(u) : k \in 1 .. Len(t)
  BY <1>6
<1>8. \A k \in 1 .. Len(u) : u[k] = w[k]
  BY <1>3, <1>4, <1>5, <1>6, <1>7
<1>9. u = w
  BY <1>4, <1>5, <1>6, <1>8, SameItems
<1>10. QED
  BY <1>1, <1>9

\* The segments of items.
LEMMA SpelledIs ==
  ASSUME NEW a \in Wires
  PROVE  /\ Spelled(a) \in Seq(Texts) /\ Len(Spelled(a)) = Len(a)
         /\ \A k \in 1 .. Len(a) : Spelled(a)[k] = Written(a[k])
<1>1. a \in Seq(Items) /\ Len(a) \in Nat /\ DOMAIN a = 1 .. Len(a)
  BY DEF Wires
<1>2. \A k \in 1 .. Len(a) : Written(a[k]) \in Texts
  BY <1>1, WrittenIs DEF Str, Texts
<1>3. Spelled(a) = [k \in 1 .. Len(a) |-> Written(a[k])]
  BY <1>1 DEF Spelled
<1>4. QED
  BY <1>1, <1>2, <1>3

\* Items are spelled one by one.
LEMMA SpelledCons ==
  ASSUME NEW x \in Items, NEW a \in Wires
  PROVE  Spelled(<< x >> \o a) = << Written(x) >> \o Spelled(a)
<1>1. PICK all, s, t : all = << x >> \o a /\ s = Spelled(all) /\ t = Spelled(a)
  OBVIOUS
<1>2. /\ all \in Wires /\ Len(all) = Len(a) + 1 /\ all[1] = x /\ Tail(all) = a /\ Len(a) \in Nat
      /\ Written(x) \in Texts
  BY <1>1, WireCons, WrittenIs DEF Wires, Str, Texts
<1>3. \A k \in 1 .. Len(a) : all[k + 1] = a[k]
  <2>1. all \in Seq(Items) /\ Len(all) = Len(a) + 1 /\ Tail(all) = a /\ Len(a) \in Nat
    BY <1>2 DEF Wires
  <2>2. QED
    BY <2>1
<1>4. s \in Seq(Texts) /\ Len(s) = Len(a) + 1 /\ \A k \in 1 .. Len(a) + 1 : s[k] = Written(all[k])
  BY <1>1, <1>2, SpelledIs
<1>5. t \in Seq(Texts) /\ Len(t) = Len(a) /\ \A k \in 1 .. Len(a) : t[k] = Written(a[k])
  BY <1>1, SpelledIs
<1>6. PICK e : e = Written(x)
  OBVIOUS
<1>7. s[1] = e
  BY <1>2, <1>4, <1>6
<1>8. \A k \in 1 .. Len(a) : s[k + 1] = t[k]
  <2>1. \A k \in 1 .. Len(a) : k + 1 \in 1 .. Len(a) + 1
    BY <1>2
  <2>2. QED
    BY <1>3, <1>4, <1>5, <2>1
<1>9. s = << e >> \o t
  <2>1. e \in Texts /\ Len(a) \in Nat
    BY <1>2, <1>6
  <2>2. << e >> \o t \in Seq(Texts) /\ Len(<< e >> \o t) = Len(a) + 1 /\ (<< e >> \o t)[1] = e
    BY <1>5, <2>1
  <2>3. \A k \in 1 .. Len(a) : (<< e >> \o t)[k + 1] = t[k]
    BY <1>5, <2>1
  <2>4. PICK w : w = << e >> \o t
    OBVIOUS
  <2>5. \A k \in 1 .. Len(a) + 1 : s[k] = w[k]
    <3>1. SUFFICES ASSUME NEW k \in 1 .. Len(a) + 1
                   PROVE  s[k] = w[k]
      OBVIOUS
    <3>2. CASE k = 1
      BY <1>7, <2>2, <2>4, <3>2
    <3>3. CASE k # 1
      <4>1. k - 1 \in 1 .. Len(a) /\ (k - 1) + 1 = k
        BY <2>1, <3>3
      <4>2. QED
        BY <1>8, <2>3, <2>4, <4>1
    <3>4. QED
      BY <3>2, <3>3
  <2>6. w \in Seq(Texts) /\ Len(w) = Len(a) + 1
    BY <2>2, <2>4
  <2>7. s = w
    BY <1>4, <2>1, <2>5, <2>6
  <2>8. QED
    BY <2>4, <2>7
<1>10. QED
  BY <1>1, <1>6, <1>9

\* An encode_key() call is about to be made.
Encoding ==
  todo # <<>> /\ IsNodes(todo) /\ BuilderTypeOK /\ buf \in Str /\ segments_written > 0

\* A push adds a '/' and the segment, or nothing.
LEMMA PushTypes ==
  ASSUME BuilderTypeOK, buf \in Str, segments_written > 0, NEW s \in Str, PushRaw(s)
  PROVE  /\ BuilderTypeOK' /\ buf' \in Str /\ segments_written' > 0
         /\ \/ budget = 0 /\ UNCHANGED builder
            \/ budget > 0 /\ budget' = budget - 1 /\ buf' = Append(buf, Slash) \o s
<1>1. /\ buf \in Seq(Byte) /\ Utf8(buf) /\ s \in Seq(Byte) /\ Utf8(s)
      /\ segments_written \in Nat /\ budget \in 0 .. UsizeMax /\ UsizeMax \in Nat
  BY UsizeMaxAssumption DEF BuilderTypeOK, Str
<1>2. CASE PushDropped
  BY <1>2 DEF PushDropped, builder, BuilderTypeOK
<1>3. CASE PushAppends(s)
  <2>1. /\ budget > 0 /\ budget' = budget - 1 /\ buf' = Append(buf, Slash) \o s
        /\ segments_written' = segments_written + 1
    BY <1>3 DEF PushAppends
  <2>2. Slash \in Byte /\ Slash \in Ascii
    BY DEF Slash, Byte, Ascii
  <2>3. PICK b : b = buf \o << Slash >>
    OBVIOUS
  <2>4. b = Append(buf, Slash) /\ b \in Seq(Byte)
    BY <1>1, <2>2, <2>3
  <2>5. Utf8(b)
    BY <1>1, <2>2, <2>3, AppendAscii
  <2>6. b \o s \in Seq(Byte) /\ Utf8(b \o s)
    <3>1. b \in Seq(Byte) /\ Utf8(b) /\ s \in Seq(Byte) /\ Utf8(s)
      BY <1>1, <2>4, <2>5
    <3>2. b \o s \in Seq(Byte)
      BY <3>1
    <3>3. Utf8(b \o s)
      BY <3>1, Utf8Concat
    <3>4. QED
      BY <3>2, <3>3
  <2>7. buf' = b \o s
    BY <2>1, <2>4
  <2>8. buf' \in Str
    BY <2>6, <2>7 DEF Str
  <2>9. budget' \in 0 .. UsizeMax /\ segments_written' \in Nat /\ segments_written' > 0
    BY <1>1, <2>1
  <2>10. QED
    BY <2>1, <2>6, <2>7, <2>8, <2>9 DEF BuilderTypeOK
<1>4. QED
  BY <1>2, <1>3 DEF PushRaw

\* A text to which items can be written becomes what it will be.
LEMMA WillBePushed ==
  ASSUME NEW b \in Texts, NEW x \in Items, NEW more \in Wires, NEW n \in Nat,
         NEW all, WillBe(b, << x >> \o more, n + 1) = all,
         \A k \in DOMAIN all : NoSlash(all[k])
  PROVE  WillBe(Append(b, Slash) \o Written(x), more, n) = all
<1>1. PICK s, t : s = Written(x) /\ t = Spelled(Take(more, n))
  OBVIOUS
<1>2. s \in Texts /\ t \in Seq(Texts)
  <2>1. s \in Texts
    BY <1>1, WrittenIs DEF Str, Texts
  <2>2. Take(more, n) \in Wires
    BY TakeIs
  <2>3. QED
    BY <1>1, <2>1, <2>2, SpelledIs
<1>3. Spelled(Take(<< x >> \o more, n + 1)) = << s >> \o t
  <2>1. Take(more, n) \in Wires /\ Take(<< x >> \o more, n + 1) = << x >> \o Take(more, n)
    BY TakeIs, TakeCons
  <2>2. QED
    BY <1>1, <2>1, SpelledCons
<1>4. PICK begin : begin = Split(b)
  OBVIOUS
<1>5. begin \in Seq(Texts) /\ all = begin \o (<< s >> \o t)
  BY <1>3, <1>4, SplitType DEF WillBe
<1>6. << s >> \in Seq(Texts) /\ Len(begin) \in Nat
  BY <1>2, <1>5
<1>7. (begin \o << s >>) \o t = begin \o (<< s >> \o t)
  BY <1>2, <1>5, <1>6, Associative
<1>8. NoSlash(s)
  <2>1. PICK h : h = begin \o << s >>
    OBVIOUS
  <2>2. h \in Seq(Texts) /\ Len(h) = Len(begin) + 1 /\ h[Len(begin) + 1] = s
    BY <1>5, <1>6, <2>1
  <2>3. all = h \o t
    BY <1>5, <1>7, <2>1
  <2>4. Len(begin) + 1 \in DOMAIN all /\ all[Len(begin) + 1] = s
    BY <1>2, <1>6, <2>2, <2>3
  <2>5. QED
    BY <2>4
<1>9. Split(Append(b, Slash) \o s) = begin \o << s >>
  <2>1. Split(s) = << s >>
    BY <1>2, <1>8, SplitPlain
  <2>2. QED
    BY <1>2, <1>4, <2>1, SplitConcat
<1>10. QED
  BY <1>1, <1>5, <1>7, <1>9 DEF WillBe

\* Without a budget nothing is written.
LEMMA WillBeNothing ==
  ASSUME NEW b, NEW a \in Wires, NEW c \in Wires
  PROVE  WillBe(b, a, 0) = WillBe(b, c, 0)
<1>1. Take(a, 0) = <<>> /\ Take(c, 0) = <<>>
  <2>1. 0 \in Nat
    OBVIOUS
  <2>2. QED
    BY <2>1, TakeIs
<1>2. QED
  BY <1>1 DEF WillBe

\* A DirName is encoded only as the key itself.
DirNamesToDo == Len(todo) = 1 \/ \A k \in DOMAIN todo : ~ IsDirName(todo[k].type)

\* The text will be what it should be.
Promise == DirNamesToDo /\ WillBe(buf, Flat(todo), budget) = WrittenAs(writer, value)
\* The value's segments hold no '/'.
SlashFree == \A k \in DOMAIN WrittenAs(writer, value) : NoSlash(WrittenAs(writer, value)[k])

\* What a step of the writing leads to.
WriteStep ==
  /\ BuilderTypeOK' /\ buf' \in Str /\ segments_written' > 0 /\ IsNodes(todo')
  /\ (KeepsContract /\ SlashFree /\ Promise) => Promise'

\* The value that is encoded.
LEMMA CurrentIs ==
  ASSUME Encoding
  PROVE  /\ IsNode(Head(todo)) /\ IsNodes(Tail(todo)) /\ todo = << Head(todo) >> \o Tail(todo)
         /\ Head(todo).type \in AllTypes /\ Head(todo).value \in ValuesOf[Head(todo).type]
         /\ Wire[Head(todo).type][Head(todo).value] \in Wires /\ Flat(Tail(todo)) \in Wires
         /\ Flat(todo) = Wire[Head(todo).type][Head(todo).value] \o Flat(Tail(todo))
         /\ budget \in Nat /\ buf \in Texts
         /\ DirNamesToDo =>
              /\ \A k \in DOMAIN Tail(todo) : ~ IsDirName(Tail(todo)[k].type)
              /\ IsDirName(Head(todo).type) => Tail(todo) = <<>>
<1>1. PICK node, rest : node = Head(todo) /\ rest = Tail(todo)
  OBVIOUS
<1>2. /\ IsList(rest) /\ todo = << node >> \o rest /\ Len(rest) = Len(todo) - 1
      /\ 1 \in DOMAIN todo /\ node = todo[1]
      /\ \A k \in DOMAIN rest : k + 1 \in DOMAIN todo /\ rest[k] = todo[k + 1]
  <2>1. IsList(todo) /\ todo # <<>>
    BY DEF Encoding, IsNodes
  <2>2. QED
    BY <1>1, <2>1, ListHead
<1>3. \A k \in DOMAIN todo : IsNode(todo[k])
  BY DEF Encoding, IsNodes
<1>4. IsNode(node) /\ IsNodes(rest)
  <2>1. \A k \in DOMAIN rest : IsNode(rest[k])
    BY <1>2, <1>3
  <2>2. QED
    BY <1>2, <1>3, <2>1 DEF IsNodes
<1>5. node.type \in AllTypes /\ node.value \in ValuesOf[node.type]
  BY <1>4 DEF IsNode
<1>6. Wire[node.type][node.value] \in Wires
  BY <1>5, WireTyped
<1>7. IsNodes(<< node >>) /\ Flat(<< node >>) = Wire[node.type][node.value]
  BY <1>4, FlatOne
<1>8. PICK one : one = << node >>
  OBVIOUS
<1>9. Flat(rest) \in Wires /\ Flat(todo) = Wire[node.type][node.value] \o Flat(rest)
  <2>1. IsNodes(one) /\ Flat(one) = Wire[node.type][node.value] /\ todo = one \o rest
    BY <1>2, <1>7, <1>8
  <2>2. Flat(rest) \in Wires /\ Flat(one \o rest) = Flat(one) \o Flat(rest)
    BY <1>4, <2>1, FlatConcat
  <2>3. QED
    BY <2>1, <2>2
<1>10. budget \in Nat /\ buf \in Texts
  BY UsizeMaxAssumption DEF Encoding, BuilderTypeOK, Str, Texts
<1>11. ASSUME DirNamesToDo
       PROVE  /\ \A k \in DOMAIN rest : ~ IsDirName(rest[k].type)
              /\ IsDirName(node.type) => rest = <<>>
  <2>1. IsList(rest) /\ Len(rest) \in Nat
    BY <1>2, ListIs
  <2>2. CASE Len(todo) = 1
    <3>1. rest = <<>>
      BY <1>2, <2>1, <2>2 DEF IsList
    <3>2. QED
      BY <3>1
  <2>3. CASE \A k \in DOMAIN todo : ~ IsDirName(todo[k].type)
    BY <1>2, <2>3
  <2>4. QED
    BY <1>11, <2>2, <2>3 DEF DirNamesToDo
<1>12. QED
  BY <1>1, <1>2, <1>4, <1>5, <1>6, <1>9, <1>10, <1>11, Zenon

\* The members of a concatenation.
LEMMA ListMembers ==
  ASSUME NEW a, IsList(a), NEW b, IsList(b)
  PROVE  \A k \in DOMAIN (a \o b) :
           (\E j \in DOMAIN a : (a \o b)[k] = a[j]) \/ (\E j \in DOMAIN b : (a \o b)[k] = b[j])
<1>1. PICK c : c = a \o b
  OBVIOUS
<1>2. /\ IsList(c) /\ Len(c) = Len(a) + Len(b)
      /\ \A k \in 1 .. Len(a) : c[k] = a[k]
      /\ \A k \in 1 .. Len(b) : c[Len(a) + k] = b[k]
  BY <1>1, ListConcat
<1>3. /\ Len(a) \in Nat /\ DOMAIN a = 1 .. Len(a) /\ Len(b) \in Nat /\ DOMAIN b = 1 .. Len(b)
      /\ DOMAIN c = 1 .. Len(c)
  BY <1>2, ListIs
<1>4. ASSUME NEW k \in DOMAIN c
      PROVE  (\E j \in DOMAIN a : c[k] = a[j]) \/ (\E j \in DOMAIN b : c[k] = b[j])
  <2>1. k \in Nat /\ k >= 1 /\ k <= Len(a) + Len(b)
    BY <1>2, <1>3
  <2>2. CASE k <= Len(a)
    <3>1. k \in 1 .. Len(a)
      BY <1>3, <2>1, <2>2
    <3>2. QED
      BY <1>2, <1>3, <3>1
  <2>3. CASE k > Len(a)
    <3>1. PICK j \in 1 .. Len(b) : k = Len(a) + j
      <4>1. k - Len(a) \in 1 .. Len(b) /\ k = Len(a) + (k - Len(a))
        BY <1>3, <2>1, <2>3
      <4>2. QED
        BY <4>1
    <3>2. c[k] = b[j]
      BY <1>2, <3>1
    <3>3. QED
      BY <1>3, <3>2
  <2>4. QED
    BY <1>3, <2>1, <2>2, <2>3
<1>5. QED
  BY <1>1, <1>4

\* The calls that are left after those of the parts.
LEMMA PartsLeft ==
  ASSUME Encoding, NEW parts, IsNodes(parts), todo' = parts \o Tail(todo),
         KeepsContract => \A k \in DOMAIN parts : ~ IsDirName(parts[k].type)
  PROVE  /\ IsNodes(todo') /\ Flat(parts) \in Wires /\ Flat(todo') \in Wires
         /\ Flat(todo') = Flat(parts) \o Flat(Tail(todo))
         /\ KeepsContract /\ DirNamesToDo => DirNamesToDo'
<1>1. PICK rest, all : rest = Tail(todo) /\ all = parts \o rest
  BY Zenon
<1>2. /\ IsNodes(rest) /\ Flat(rest) \in Wires
      /\ DirNamesToDo => \A k \in DOMAIN rest : ~ IsDirName(rest[k].type)
  BY <1>1, CurrentIs, Zenon
<1>3. /\ IsNodes(all) /\ Flat(parts) \in Wires
      /\ Flat(all) = Flat(parts) \o Flat(rest)
  BY <1>1, <1>2, FlatConcat
<1>4. Flat(all) \in Wires
  BY <1>2, <1>3, WiresConcat
<1>5. \A k \in DOMAIN all :
        (\E j \in DOMAIN parts : all[k] = parts[j]) \/ (\E j \in DOMAIN rest : all[k] = rest[j])
  <2>1. IsList(parts) /\ IsList(rest)
    BY <1>2 DEF IsNodes
  <2>2. \A k \in DOMAIN (parts \o rest) :
          \/ \E j \in DOMAIN parts : (parts \o rest)[k] = parts[j]
          \/ \E j \in DOMAIN rest : (parts \o rest)[k] = rest[j]
    BY <2>1, ListMembers, SMTT(30)
  <2>3. QED
    BY <1>1, <2>2
<1>6. KeepsContract /\ DirNamesToDo => \A k \in DOMAIN all : ~ IsDirName(all[k].type)
  BY <1>2, <1>5
<1>7. todo' = all
  BY <1>1
<1>8. KeepsContract /\ DirNamesToDo => DirNamesToDo'
  BY <1>6, <1>7, SMTT(30) DEF DirNamesToDo
<1>9. QED
  BY <1>1, <1>3, <1>4, <1>7, <1>8

\* A call that pushes one segment and makes the calls of the parts.
LEMMA PushStep ==
  ASSUME Encoding, NEW item \in Items, NEW parts, IsNodes(parts),
         Wire[Head(todo).type][Head(todo).value] = << item >> \o Flat(parts),
         PushRaw(Written(item)), todo' = parts \o Tail(todo), UNCHANGED <<writer, value>>,
         KeepsContract => \A k \in DOMAIN parts : ~ IsDirName(parts[k].type)
  PROVE  WriteStep
<1>1. /\ BuilderTypeOK' /\ buf' \in Str /\ segments_written' > 0
      /\ \/ budget = 0 /\ UNCHANGED builder
         \/ budget > 0 /\ budget' = budget - 1 /\ buf' = Append(buf, Slash) \o Written(item)
  BY WrittenIs, PushTypes, SMTT(30) DEF Encoding
<1>2. /\ IsNodes(todo') /\ Flat(parts) \in Wires /\ Flat(todo') \in Wires
      /\ Flat(todo') = Flat(parts) \o Flat(Tail(todo))
      /\ KeepsContract /\ DirNamesToDo => DirNamesToDo'
  BY PartsLeft, ZenonT(60)
<1>3. /\ Flat(Tail(todo)) \in Wires /\ budget \in Nat /\ buf \in Texts
      /\ Flat(todo) = (<< item >> \o Flat(parts)) \o Flat(Tail(todo))
  BY CurrentIs, Zenon
<1>4. PICK all, more : all = Flat(todo) /\ more = Flat(todo')
  OBVIOUS
<1>5. all = << item >> \o more /\ all \in Wires /\ more \in Wires
  <2>1. << item >> \in Wires
    BY <1>2, WireCons
  <2>2. (<< item >> \o Flat(parts)) \o Flat(Tail(todo)) = << item >> \o (Flat(parts) \o Flat(Tail(todo)))
    BY <1>2, <1>3, <2>1, WiresAssociative
  <2>3. all = << item >> \o more
    BY <1>2, <1>3, <1>4, <2>2
  <2>4. QED
    BY <1>2, <1>4, <2>3, WireCons
<1>6. ASSUME KeepsContract, SlashFree, Promise
      PROVE  Promise'
  <2>1. PICK w : w = WrittenAs(writer, value)
    OBVIOUS
  <2>2. WillBe(buf, all, budget) = w /\ \A k \in DOMAIN w : NoSlash(w[k])
    BY <1>4, <1>6, <2>1 DEF Promise, SlashFree
  <2>3. CASE budget = 0 /\ UNCHANGED builder
    <3>1. WillBe(buf, more, 0) = w
      BY <1>5, <2>2, <2>3, WillBeNothing
    <3>2. buf' = buf /\ budget' = 0
      BY <2>3 DEF builder
    <3>3. WillBe(buf', more, budget') = w
      BY <3>1, <3>2
    <3>4. QED
      BY <1>2, <1>4, <1>6, <2>1, <3>3 DEF Promise
  <2>4. CASE budget > 0 /\ budget' = budget - 1 /\ buf' = Append(buf, Slash) \o Written(item)
    <3>1. budget' \in Nat /\ budget = budget' + 1
      BY <1>3, <2>4
    <3>2. WillBe(buf, << item >> \o more, budget' + 1) = w
      BY <1>5, <2>2, <3>1
    <3>3. PICK n : n = budget'
      OBVIOUS
    <3>4. WillBe(Append(buf, Slash) \o Written(item), more, n) = w
      BY <1>3, <1>5, <2>2, <3>1, <3>2, <3>3, WillBePushed
    <3>5. WillBe(buf', more, budget') = w
      BY <2>4, <3>3, <3>4
    <3>6. QED
      BY <1>2, <1>4, <1>6, <2>1, <3>5 DEF Promise
  <2>5. QED
    BY <1>1, <2>3, <2>4
<1>7. QED
  BY <1>1, <1>2, <1>6, SMTT(30) DEF WriteStep

\* A call that only makes those of the parts.
LEMMA PartsStep ==
  ASSUME Encoding, NEW parts, IsNodes(parts),
         Wire[Head(todo).type][Head(todo).value] = Flat(parts),
         UNCHANGED builder, todo' = parts \o Tail(todo), UNCHANGED <<writer, value>>,
         KeepsContract => \A k \in DOMAIN parts : ~ IsDirName(parts[k].type)
  PROVE  WriteStep
<1>1. BuilderTypeOK' /\ buf' = buf /\ budget' = budget /\ segments_written' = segments_written
  BY DEF Encoding, builder, BuilderTypeOK
<1>2. /\ IsNodes(todo') /\ Flat(todo') = Flat(parts) \o Flat(Tail(todo))
      /\ KeepsContract /\ DirNamesToDo => DirNamesToDo'
  BY PartsLeft
<1>3. Flat(todo) = Flat(parts) \o Flat(Tail(todo))
  BY CurrentIs
<1>4. (KeepsContract /\ Promise) => Promise'
  BY <1>1, <1>2, <1>3 DEF Promise
<1>5. QED
  BY <1>1, <1>2, <1>4 DEF WriteStep, Encoding

\* The first items of a value are those that a DirName keeps.
LEMMA DirNameTakes ==
  ASSUME NEW type \in AllTypes, type.t = "dir", NEW val \in ValuesOf[type]
  PROVE  /\ IsNodes(Parts(type, val)) /\ Len(Parts(type, val)) = 1 /\ Flat(Parts(type, val)) \in Wires
         /\ SegmentCount[type][val] \in Nat
         /\ Wire[type][val] = Take(Flat(Parts(type, val)), SegmentCount[type][val])
<1>1. PICK parts, inner, count, w : /\ parts = Parts(type, val) /\ inner = Flat(parts)
                                   /\ count = SegmentCount[type][val] /\ w = Wire[type][val]
  OBVIOUS
<1>2. IsNodes(parts)
  BY <1>1, PartsAre DEF IsNodes
<1>3. parts = << [type |-> type.key, value |-> val.key] >>
  BY <1>1 DEF Parts
<1>4. Len(parts) = 1
  BY <1>3
<1>5. inner \in Wires
  <2>1. IsNodes(<<>>)
    BY FlatNone
  <2>2. QED
    BY <1>1, <1>2, <2>1, FlatConcat
<1>6. w = SubSeq(inner, 1, Len(inner) - val.level) /\ count = Len(w)
  BY <1>1, WireKinds, CountIsLength
<1>7. val.level \in Nat
  <2>1. PICK key \in ValuesOf[type.key] : \E level \in Nat : val = DirName(key, level)
    BY DirValues
  <2>2. QED
    BY <2>1 DEF DirName
<1>8. PICK m : m = Len(inner) - val.level
  OBVIOUS
<1>9. inner \in Seq(Items) /\ Len(inner) \in Nat /\ m \in Int /\ m <= Len(inner)
  BY <1>5, <1>7, <1>8 DEF Wires
<1>10. /\ SubSeq(inner, 1, m) \in Seq(Items)
       /\ Len(SubSeq(inner, 1, m)) = IF 1 <= m THEN m - 1 + 1 ELSE 0
  <2>1. \A k \in 1 .. m : k \in 1 .. Len(inner)
    BY <1>9
  <2>2. \A k \in 1 .. m : inner[k] \in Items
    BY <1>9, <2>1
  <2>3. 1 \in Int
    OBVIOUS
  <2>4. QED
    BY <1>9, <2>2, <2>3, SubSeqProperties
<1>11. count = IF 1 <= m THEN m ELSE 0
  BY <1>6, <1>8, <1>9, <1>10
<1>12. w = Take(inner, count)
  <2>1. CASE 1 <= m
    <3>1. count = m /\ (IF Len(inner) <= m THEN Len(inner) ELSE m) = m
      BY <1>9, <1>11, <2>1
    <3>2. QED
      BY <1>6, <1>8, <3>1 DEF Take
  <2>2. CASE ~ (1 <= m)
    <3>1. count = 0 /\ w = <<>>
      <4>1. PICK x : x = SubSeq(inner, 1, m)
        OBVIOUS
      <4>2. x \in Seq(Items) /\ Len(x) = 0
        BY <1>10, <2>2, <4>1
      <4>3. x = <<>>
        BY <4>2
      <4>4. QED
        BY <1>6, <1>8, <1>11, <2>2, <4>1, <4>3
    <3>2. Take(inner, 0) = <<>>
      BY <1>5, TakeIs
    <3>3. QED
      BY <3>1, <3>2
  <2>3. QED
    BY <2>1, <2>2
<1>13. count \in Nat
  BY <1>9, <1>11
<1>14. QED
  BY <1>1, <1>2, <1>4, <1>5, <1>12, <1>13

\* The step of a call of encode_key(), whatever it is.
LEMMA EncodeLeaf ==
  ASSUME Encoding, NEW t \in {"string", "raw", "u64", "u32"}, Encode(t), NEW s, PushRaw(s), Then(<<>>),
         s = Written(Item(FormOf[t], Current.value))
  PROVE  WriteStep
<1>1. PICK type, val, item : type = Head(todo).type /\ val = Head(todo).value /\ item = Item(FormOf[t], val)
  OBVIOUS
<1>2. /\ type.t = t /\ UNCHANGED <<writer, value>> /\ todo' = <<>> \o Tail(todo)
      /\ s = Written(item)
  BY <1>1 DEF Encode, Then, Current, keys
<1>3. type \in AllTypes /\ val \in ValuesOf[type]
  BY <1>1, CurrentIs, Zenon
<1>4. type \in Leaves
  BY <1>2, <1>3, TypeIs DEF Leaves, Plainly, StringType, RawType, U64Type, U32Type, UnitType
<1>5. item \in Items /\ Wire[type][val] = << item >>
  BY <1>1, <1>2, <1>3, <1>4, LeafItems, WireKinds
<1>6. << item >> = << item >> \o Flat(<<>>) /\ IsNodes(<<>>)
  <2>1. << item >> \in Wires /\ Flat(<<>>) = <<>> /\ IsNodes(<<>>)
    BY <1>5, FlatNone DEF Wires
  <2>2. << item >> \o <<>> = << item >>
    BY <2>1, WiresConcat
  <2>3. QED
    BY <2>1, <2>2
<1>7. PICK none : none = <<>>
  OBVIOUS
<1>8. /\ todo' = none \o Tail(todo) /\ UNCHANGED <<writer, value>> /\ PushRaw(Written(item))
      /\ IsNodes(none) /\ \A k \in DOMAIN none : ~ IsDirName(none[k].type)
  BY <1>2, <1>6, <1>7
<1>9. Wire[Head(todo).type][Head(todo).value] = << item >> \o Flat(none)
  BY <1>1, <1>5, <1>6, <1>7, Zenon
<1>10. QED
  BY <1>5, <1>8, <1>9, PushStep, Zenon

\* The encode_key() of the crate's own leaf types takes a step of the writing,
LEMMA EncodeLeaves ==
  ASSUME Encoding, EncodeString \/ EncodeRaw \/ EncodeU64 \/ EncodeU32
  PROVE  WriteStep
<1>1. CASE EncodeString
  <2>1. Escape(Current.value.text) = Written(Item(FormOf["string"], Current.value))
    BY DEF Written, Item, FormOf
  <2>2. Encode("string") /\ PushRaw(Escape(Current.value.text)) /\ Then(<<>>)
    BY <1>1 DEF EncodeString, PushStr
  <2>3. "string" \in {"string", "raw", "u64", "u32"}
    OBVIOUS
  <2>4. QED
    BY <2>1, <2>2, <2>3, EncodeLeaf
<1>2. CASE EncodeRaw
  <2>1. Current.value.text = Written(Item(FormOf["raw"], Current.value))
    BY DEF Written, Item, FormOf
  <2>2. Encode("raw") /\ PushRaw(Current.value.text) /\ Then(<<>>)
    BY <1>2 DEF EncodeRaw
  <2>3. "raw" \in {"string", "raw", "u64", "u32"}
    OBVIOUS
  <2>4. QED
    BY <2>1, <2>2, <2>3, EncodeLeaf
<1>3. CASE EncodeU64
  <2>1. Decimal(Current.value.id) = Written(Item(FormOf["u64"], Current.value))
    BY DEF Written, Item, FormOf
  <2>2. Encode("u64") /\ PushRaw(Decimal(Current.value.id)) /\ Then(<<>>)
    BY <1>3 DEF EncodeU64, PushU64
  <2>3. "u64" \in {"string", "raw", "u64", "u32"}
    OBVIOUS
  <2>4. QED
    BY <2>1, <2>2, <2>3, EncodeLeaf
<1>4. CASE EncodeU32
  <2>1. Decimal(Current.value.id) = Written(Item(FormOf["u32"], Current.value))
    BY DEF Written, Item, FormOf
  <2>2. Encode("u32") /\ PushRaw(Decimal(Current.value.id)) /\ Then(<<>>)
    BY <1>4 DEF EncodeU32, PushU64
  <2>3. "u32" \in {"string", "raw", "u64", "u32"}
    OBVIOUS
  <2>4. QED
    BY <2>1, <2>2, <2>3, EncodeLeaf
<1>5. QED
  BY <1>1, <1>2, <1>3, <1>4

\* The parts of a struct or an enum, or of a unit.
LEMMA PartsOfCurrent ==
  ASSUME Encoding
  PROVE  /\ IsNodes(CurrentParts)
         /\ (KeepsContract /\ Current.type.t \in {"struct", "enum"}) =>
              \A k \in DOMAIN CurrentParts : ~ IsDirName(CurrentParts[k].type)
<1>1. PICK type, val, parts : /\ type = Head(todo).type /\ val = Head(todo).value
                             /\ parts = Parts(type, val)
  OBVIOUS
<1>2. type \in AllTypes /\ val \in ValuesOf[type] /\ CurrentParts = parts /\ Current.type = type
  BY <1>1, CurrentIs, Zenon DEF CurrentParts, Current
<1>3. IsList(parts) /\ \A k \in DOMAIN parts : IsNode(parts[k]) /\ parts[k].type \in Components(type)
  BY <1>1, <1>2, PartsAre
<1>4. (KeepsContract /\ type.t \in {"struct", "enum"}) => \A k \in DOMAIN parts : ~ IsDirName(parts[k].type)
  BY <1>2, <1>3 DEF KeepsContract
<1>5. QED
  BY <1>2, <1>3, <1>4 DEF IsNodes

\* and so do the unit type's,
LEMMA EncodeUnitStep ==
  ASSUME Encoding, EncodeUnit
  PROVE  WriteStep
<1>1. PICK type, val : type = Head(todo).type /\ val = Head(todo).value
  OBVIOUS
<1>2. /\ type.t = "unit" /\ UNCHANGED <<writer, value>> /\ UNCHANGED builder
      /\ todo' = <<>> \o Tail(todo)
  BY <1>1 DEF EncodeUnit, Encode, Then, keys
<1>3. type \in AllTypes /\ val \in ValuesOf[type]
  BY <1>1, CurrentIs, Zenon
<1>4. type = UnitType
  BY <1>2, <1>3, TypeIs DEF Plainly, StringType, RawType, U64Type, U32Type, UnitType
<1>5. Wire[type][val] = Flat(<<>>)
  BY <1>3, <1>4, WireKinds
<1>6. IsNodes(<<>>) /\ \A k \in DOMAIN <<>> : ~ IsDirName(<<>>[k].type)
  BY FlatNone
<1>7. QED
  BY <1>1, <1>2, <1>5, <1>6, PartsStep

\* a generated struct's,
LEMMA EncodeStructStep ==
  ASSUME Encoding, EncodeStruct
  PROVE  WriteStep
<1>1. PICK type, val, parts : type = Head(todo).type /\ val = Head(todo).value /\ parts = CurrentParts
  OBVIOUS
<1>2. /\ type.t = "struct" /\ UNCHANGED <<writer, value>> /\ UNCHANGED builder
      /\ todo' = parts \o Tail(todo) /\ parts = Parts(type, val) /\ Current.type = type
  BY <1>1 DEF EncodeStruct, Encode, Then, keys, CurrentParts, Current
<1>3. type \in AllTypes /\ val \in ValuesOf[type]
  BY <1>1, CurrentIs, Zenon
<1>4. Wire[type][val] = Flat(parts)
  BY <1>2, <1>3, WireKinds
<1>5. IsNodes(parts) /\ (KeepsContract => \A k \in DOMAIN parts : ~ IsDirName(parts[k].type))
  BY <1>1, <1>2, PartsOfCurrent
<1>6. QED
  BY <1>1, <1>2, <1>4, <1>5, PartsStep

\* and a generated enum's, which pushes the tag first.
LEMMA EncodeEnumStep ==
  ASSUME Encoding, EncodeEnum
  PROVE  WriteStep
<1>1. PICK type, val, parts, item : /\ type = Head(todo).type /\ val = Head(todo).value /\ parts = CurrentParts
                                   /\ item = TagItem(type, val.variant)
  OBVIOUS
<1>2. /\ type.t = "enum" /\ UNCHANGED <<writer, value>>
      /\ PushRaw(type.variants[val.variant].tag)
      /\ todo' = parts \o Tail(todo) /\ parts = Parts(type, val) /\ Current.type = type
  BY <1>1, ZenonT(60) DEF EncodeEnum, Encode, Then, keys, CurrentParts, Current
<1>3. type \in AllTypes /\ val \in ValuesOf[type]
  BY <1>1, CurrentIs, ZenonT(60)
<1>4. item \in Items
  <2>1. PICK k \in DOMAIN type.variants : \E q \in Fields(type.variants[k].fields) : val = Variant(k, q)
    BY <1>2, <1>3, EnumValues
  <2>2. val.variant = k
    BY <2>1 DEF Variant
  <2>3. QED
    BY <1>1, <1>2, <1>3, <2>2, TagsAre
<1>5. Wire[type][val] = << item >> \o Flat(parts)
  BY <1>1, <1>2, <1>3, WireKinds, Zenon DEF TagItem
<1>6. Written(item) = type.variants[val.variant].tag
  BY <1>1 DEF Written, TagItem, Item, Text
<1>7. IsNodes(parts) /\ (KeepsContract => \A k \in DOMAIN parts : ~ IsDirName(parts[k].type))
  BY <1>1, <1>2, PartsOfCurrent, Zenon
<1>8. PushRaw(Written(item))
  BY <1>2, <1>6
<1>9. QED
  BY <1>1, <1>2, <1>4, <1>5, <1>7, <1>8, PushStep, Zenon

\* The limit keeps the segments that the DirName has.
LEMMA EncodeDirNameStep ==
  ASSUME Encoding, EncodeDirName
  PROVE  WriteStep
<1>1. PICK type, val, parts, count : /\ type = Head(todo).type /\ val = Head(todo).value
                                    /\ parts = CurrentParts /\ count = SegmentCount[type][val]
  OBVIOUS
<1>2. /\ type.t = "dir" /\ UNCHANGED <<writer, value>>
      /\ budget' = (IF count < budget THEN count ELSE budget) /\ UNCHANGED <<buf, segments_written>>
      /\ todo' = parts \o Tail(todo) /\ parts = Parts(type, val)
  BY <1>1 DEF EncodeDirName, Encode, LimitSegments, Then, keys, CurrentParts, Current
<1>3. /\ type \in AllTypes /\ val \in ValuesOf[type] /\ budget \in Nat /\ IsNodes(Tail(todo))
      /\ Flat(todo) = Wire[type][val] \o Flat(Tail(todo)) /\ Wire[type][val] \in Wires
      /\ DirNamesToDo /\ IsDirName(type) => Tail(todo) = <<>>
  BY <1>1, CurrentIs, Zenon
<1>4. /\ IsNodes(parts) /\ Len(parts) = 1 /\ Flat(parts) \in Wires /\ count \in Nat
      /\ Wire[type][val] = Take(Flat(parts), count)
  <2>1. type \in AllTypes /\ type.t = "dir" /\ val \in ValuesOf[type]
    BY <1>2, <1>3
  <2>2. /\ IsNodes(Parts(type, val)) /\ Len(Parts(type, val)) = 1 /\ Flat(Parts(type, val)) \in Wires
        /\ SegmentCount[type][val] \in Nat
        /\ Wire[type][val] = Take(Flat(Parts(type, val)), SegmentCount[type][val])
    BY <2>1, DirNameTakes
  <2>3. parts = Parts(type, val) /\ count = SegmentCount[type][val]
    BY <1>1, <1>2
  <2>4. QED
    BY <2>2, <2>3
<1>5. BuilderTypeOK' /\ buf' \in Str /\ segments_written' > 0
  <2>1. budget' \in 0 .. UsizeMax
    BY <1>2, <1>4, UsizeMaxAssumption DEF Encoding, BuilderTypeOK
  <2>2. QED
    BY <1>2, <2>1 DEF Encoding, BuilderTypeOK
<1>6. IsNodes(todo')
  BY <1>2, <1>3, <1>4, FlatConcat
<1>7. ASSUME Promise
      PROVE  Promise'
  <2>1. Tail(todo) = <<>> /\ WillBe(buf, Flat(todo), budget) = WrittenAs(writer, value)
    BY <1>2, <1>3, <1>7 DEF Promise, IsDirName
  <2>2. todo' = parts
    BY <1>2, <1>4, <2>1, ListNeutral DEF IsNodes
  <2>3. Flat(todo) = Take(Flat(parts), count)
    BY <1>3, <1>4, <2>1, FlatNone, WiresConcat
  <2>4. Take(Take(Flat(parts), count), budget) = Take(Flat(parts), budget')
    BY <1>2, <1>3, <1>4, TakeTake
  <2>5. WillBe(buf, Flat(todo), budget) = WillBe(buf, Flat(parts), budget')
    BY <2>3, <2>4 DEF WillBe
  <2>6. QED
    BY <1>2, <1>4, <2>1, <2>2, <2>5 DEF Promise, DirNamesToDo
<1>8. QED
  BY <1>5, <1>6, <1>7 DEF WriteStep

-----------------------------------------------------------------------------
(***************************************************************************)
(* The invariant.                                                          *)
(***************************************************************************)
\* What a value must be for its key to come back.
Writable(name, v) ==
  /\ v \in Typed(name)
  /\ Len(Wire[TypeOf(name)][v]) < UsizeMax
  /\ \A k \in DOMAIN WireOf(name, v) : ~ HoldsSlash(WireOf(name, v)[k])

\* What holds of any program.
Shape ==
  /\ BuilderTypeOK /\ ParserTypeOK
  /\ buf \in Str /\ str_key \in Str
  /\ pc \in {"new", "write", "read", "end"}
  /\ origin \in {"value", "text", "decoded"}
  /\ writer \in DOMAIN Catalog /\ reader \in DOMAIN Catalog
  /\ IsNodes(todo)
  /\ pc # "write" => todo = <<>>
  /\ pc = "write" => segments_written > 0
  /\ pc \in {"new", "write"} => got = <<>> /\ origin # "text"
  /\ origin = "text" => writer = reader /\ str_key \in Foreign
  /\ origin # "text" => value \in Typed(writer)
  /\ pc = "read" => Reading
  /\ pc = "end" => need = <<>> /\ (Accepted(result) \/ Refused(result))
  /\ pc # "end" => result = NoResult

\* What holds of one that keeps the contract.
Kept ==
  /\ origin # "text" => Writable(writer, value)
  /\ pc = "write" => Promise
  /\ IsWritten => str_key = buf /\ Split(buf) = WrittenAs(writer, value)

\* The inductive invariant: of every behaviour, and more of those of a catalog
\* that keeps the contract.
IInv == Shape /\ (KeepsContract => Kept)

\* The reference spelling of a value: its prefix, then its items.
LEMMA WrittenAsIs ==
  ASSUME NEW name \in DOMAIN Catalog, NEW v \in Typed(name)
  PROVE  /\ WireOf(name, v) \in Wires /\ Len(WireOf(name, v)) \in Nat
         /\ DOMAIN WireOf(name, v) = 1 .. Len(WireOf(name, v))
         /\ Wire[TypeOf(name)][v] \in Wires
         /\ WrittenAs(name, v) = Spelled(WireOf(name, v))
         /\ WrittenAs(name, v) = << Catalog[name].prefix >> \o Spelled(Wire[TypeOf(name)][v])
<1>1. PICK w, wire : w = WireOf(name, v) /\ wire = Wire[TypeOf(name)][v]
  OBVIOUS
<1>2. w = << PrefixItem(name) >> \o wire /\ wire \in Wires /\ w \in Wires /\ PrefixItem(name) \in Items
  BY <1>1, WireOfIs
<1>3. Len(w) \in Nat /\ DOMAIN w = 1 .. Len(w)
  BY <1>2 DEF Wires
<1>4. WrittenAs(name, v) = Spelled(w)
  BY <1>1 DEF WrittenAs, Spelled
<1>5. Written(PrefixItem(name)) = Catalog[name].prefix
  BY DEF Written, PrefixItem, Item, Text
<1>6. Spelled(<< PrefixItem(name) >> \o wire) = << Written(PrefixItem(name)) >> \o Spelled(wire)
  BY <1>2, SpelledCons
<1>7. Spelled(w) = << Catalog[name].prefix >> \o Spelled(wire)
  BY <1>2, <1>5, <1>6
<1>8. QED
  BY <1>1, <1>2, <1>3, <1>4, <1>7

\* The segments of a writable value hold no '/'.
LEMMA WritableIs ==
  ASSUME NEW name \in DOMAIN Catalog, NEW v, Writable(name, v)
  PROVE  /\ v \in Typed(name)
         /\ \A k \in DOMAIN WrittenAs(name, v) : NoSlash(WrittenAs(name, v)[k])
<1>1. PICK w : w = WireOf(name, v)
  OBVIOUS
<1>2. v \in Typed(name) /\ \A k \in DOMAIN w : ~ HoldsSlash(w[k])
  BY <1>1 DEF Writable
<1>3. w \in Wires /\ DOMAIN w = 1 .. Len(w) /\ WrittenAs(name, v) = Spelled(w)
  BY <1>1, <1>2, WrittenAsIs
<1>4. \A k \in DOMAIN w : w[k] \in Items
  BY <1>3 DEF Wires
<1>5. \A k \in DOMAIN w : NoSlash(Written(w[k]))
  BY <1>2, <1>4, WrittenIs
<1>6. QED
  BY <1>2, <1>3, <1>5 DEF Spelled

\* The catalog's values are writable when it keeps the contract.
LEMMA CatalogWritable ==
  ASSUME KeepsContract, NEW name \in DOMAIN Catalog, NEW v \in Catalog[name].values
  PROVE  Writable(name, v)
<1>1. v \in Typed(name) /\ Len(Wire[TypeOf(name)][v]) < UsizeMax
  BY CatalogAssumption, MemoryAssumption DEF Typed, TypeOf
<1>2. PICK w : w = WireOf(name, v)
  OBVIOUS
<1>3. \A item \in Range(w) : ~ HoldsSlash(item)
  BY <1>2 DEF KeepsContract
<1>4. \A k \in DOMAIN w : w[k] \in Range(w)
  BY DEF Range
<1>5. \A k \in DOMAIN w : ~ HoldsSlash(w[k])
  BY <1>3, <1>4
<1>6. QED
  BY <1>1, <1>2, <1>5 DEF Writable

\* So is a value that a foreign text says.
LEMMA DecodedWritable ==
  ASSUME NEW text \in Foreign, NEW name \in DOMAIN Catalog, NEW v \in Typed(name),
         Says(Split(text), name, v)
  PROVE  Writable(name, v)
<1>1. PICK w, segments : w = WireOf(name, v) /\ segments = Split(text)
  OBVIOUS
<1>2. text \in Texts /\ Len(text) < UsizeMax
  BY ForeignAssumption, MemoryAssumption DEF Str, Texts
<1>3. Len(segments) <= Len(text) + 1 /\ \A k \in 1 .. Len(segments) : NoSlash(segments[k])
  BY <1>1, <1>2, SegmentsAre
<1>4. Len(segments) = Len(w) /\ \A k \in 1 .. Len(w) : Spells(segments[k], w[k])
  BY <1>1 DEF Says, Agrees
<1>5. w \in Wires /\ Len(w) \in Nat /\ DOMAIN w = 1 .. Len(w)
  BY <1>1, WrittenAsIs
<1>6. Wire[TypeOf(name)][v] \in Wires /\ Len(w) = Len(Wire[TypeOf(name)][v]) + 1
  BY <1>1, WireOfIs
<1>7. Len(Wire[TypeOf(name)][v]) < UsizeMax
  <2>1. Len(text) \in Nat /\ Len(Wire[TypeOf(name)][v]) \in Nat /\ UsizeMax \in Nat
    BY <1>2, <1>6, UsizeMaxAssumption DEF Texts, Wires
  <2>2. QED
    BY <1>2, <1>3, <1>4, <1>6, <2>1
<1>8. \A s, item : Spells(s, item) /\ HoldsSlash(item) => ~ NoSlash(s)
  BY DEF Spells, HoldsSlash, OkText
<1>9. \A k \in DOMAIN w : ~ HoldsSlash(w[k])
  BY <1>3, <1>4, <1>5, <1>8
<1>10. QED
  BY <1>1, <1>7, <1>9 DEF Writable

\* The text that a value is written as says it.
LEMMA WrittenSays ==
  ASSUME NEW name \in DOMAIN Catalog, NEW v \in Typed(name), ~ IsDirName(TypeOf(name))
  PROVE  Says(WrittenAs(name, v), name, v)
<1>1. PICK w, s : w = WireOf(name, v) /\ s = WrittenAs(name, v)
  OBVIOUS
<1>2. w \in Wires /\ Len(w) \in Nat /\ DOMAIN w = 1 .. Len(w) /\ s = Spelled(w)
  BY <1>1, WrittenAsIs
<1>3. Len(s) = Len(w) /\ \A k \in 1 .. Len(w) : s[k] = Written(w[k])
  BY <1>2, SpelledIs
<1>4. \A k \in 1 .. Len(w) : w[k] \in Items
  BY <1>2 DEF Wires
<1>5. \A k \in 1 .. Len(w) : Spells(s[k], w[k])
  BY <1>3, <1>4, WrittenIs
<1>6. QED
  BY <1>1, <1>2, <1>3, <1>5 DEF Says, Agrees, IsDirName

-----------------------------------------------------------------------------
\* The invariant holds in the beginning.
LEMMA InitIInv == Init => IInv
<1>1. SUFFICES ASSUME Init
               PROVE  IInv
  OBVIOUS
<1>2. <<>> \in Str
  <2>1. <<>> \in Seq(Byte) /\ \A p \in DOMAIN <<>> : <<>>[p] \in Ascii
    OBVIOUS
  <2>2. QED
    BY <2>1, AsciiIsUtf8 DEF Str
<1>3. BuilderTypeOK /\ buf \in Str
  <2>1. buf = <<>> /\ segments_written = 0 /\ budget = UsizeMax
    BY <1>1 DEF Init, BuilderNew
  <2>2. QED
    BY <1>2, <2>1, UsizeMaxAssumption DEF BuilderTypeOK, Str
<1>4. IsNodes(todo) /\ IsList(got) /\ todo = <<>> /\ got = <<>> /\ result = NoResult
  <2>1. todo = <<>> /\ got = <<>> /\ result = NoResult
    BY <1>1 DEF Init
  <2>2. QED
    BY <2>1, FlatNone, PathNone
<1>5. ASSUME NEW s \in Str, ParserNew(s)
      PROVE  ParserTypeOK /\ str_key = s /\ i = 0 /\ at = 0
  BY <1>5 DEF ParserNew, ParserTypeOK, Str, NoCall, Err
<1>6. reader \in DOMAIN Catalog
  BY <1>1 DEF Init
<1>7. CASE /\ origin = "value" /\ pc = "new" /\ writer \in DOMAIN Catalog
           /\ value \in Catalog[writer].values /\ ParserNew(<<>>)
  <2>1. ParserTypeOK /\ str_key \in Str
    BY <1>5, <1>2, <1>7
  <2>2. value \in Typed(writer)
    BY <1>7, CatalogAssumption DEF Typed, TypeOf
  <2>3. KeepsContract => Writable(writer, value)
    BY <1>7, CatalogWritable
  <2>4. Shape
    BY <1>3, <1>4, <1>6, <1>7, <2>1, <2>2 DEF Shape
  <2>5. KeepsContract => Kept
    BY <1>7, <2>3 DEF Kept, IsWritten
  <2>6. QED
    BY <2>4, <2>5 DEF IInv
<1>8. CASE /\ origin = "text" /\ pc = "read" /\ writer = reader
           /\ (\E s \in Foreign : ParserNew(s)) /\ need = ReadCalls
  <2>1. PICK s \in Foreign : ParserNew(s)
    BY <1>8
  <2>2. s \in Str
    BY ForeignAssumption
  <2>3. ParserTypeOK /\ str_key = s /\ i = 0 /\ at = 0 /\ str_key \in Str /\ str_key \in Foreign
    BY <1>5, <2>1, <2>2
  <2>4. str_key \in Texts
    BY <2>3 DEF Str, Texts
  <2>5. Reading
    BY <1>4, <1>6, <1>8, <2>3, <2>4, Start DEF Starting
  <2>6. Shape
    BY <1>3, <1>4, <1>6, <1>8, <2>3, <2>5 DEF Shape
  <2>7. Kept
    BY <1>8 DEF Kept, IsWritten
  <2>8. QED
    BY <2>6, <2>7 DEF IInv
<1>9. QED
  BY <1>1, <1>7, <1>8, Zenon DEF Init

\* A call of some encode_key(),
EncodeCall ==
  \/ EncodeString \/ EncodeRaw \/ EncodeU64 \/ EncodeU32
  \/ EncodeUnit \/ EncodeStruct \/ EncodeEnum \/ EncodeDirName
\* a call of some decode_key() or a construction.
DecodeCall ==
  \/ DecodePrefix \/ DecodeString \/ DecodeRaw \/ DecodeU64 \/ DecodeU32
  \/ DecodeUnit \/ DecodeStruct \/ DecodeEnum \/ DecodeDirName \/ Build

\* The segments of the value that is written hold no '/', so the text has as
\* many segments as were pushed.
LEMMA KeptIsSlashFree ==
  ASSUME Shape, Kept, origin # "text"
  PROVE  SlashFree
BY WritableIs DEF Shape, Kept, SlashFree

\* A call of encode_key() keeps the invariant.
LEMMA EncodeCallKeeps ==
  ASSUME IInv, EncodeCall
  PROVE  IInv'
<1>1. pc = "write" /\ todo # <<>> /\ UNCHANGED <<parser, pc, keys, need, got, result>>
  BY DEF EncodeCall, EncodeString, EncodeRaw, EncodeU64, EncodeU32, EncodeUnit, EncodeStruct,
         EncodeEnum, EncodeDirName, Encode
<1>2. /\ pc' = "write" /\ writer' = writer /\ value' = value /\ reader' = reader /\ origin' = origin
      /\ str_key' = str_key /\ got' = got /\ result' = result /\ ParserTypeOK'
  BY <1>1 DEF parser, keys, IInv, Shape, ParserTypeOK
<1>3. Encoding
  BY <1>1 DEF Encoding, IInv, Shape
<1>4. WriteStep
  BY <1>3, EncodeLeaves, EncodeUnitStep, EncodeStructStep, EncodeEnumStep, EncodeDirNameStep DEF EncodeCall
<1>5. Typed(writer)' = Typed(writer) /\ Writable(writer, value)' = Writable(writer, value)
        /\ (DOMAIN Catalog)' = DOMAIN Catalog
  BY <1>2
<1>6. Shape'
  <2>1. /\ BuilderTypeOK' /\ buf' \in Str /\ segments_written' > 0 /\ IsNodes(todo)'
    BY <1>4 DEF WriteStep
  <2>2. /\ pc' = "write" /\ origin' # "text" /\ origin' \in {"value", "text", "decoded"}
        /\ str_key' \in Str /\ writer' \in DOMAIN Catalog /\ reader' \in DOMAIN Catalog
        /\ got' = <<>> /\ result' = NoResult /\ value' \in Typed(writer)'
    BY <1>1, <1>2, <1>5 DEF IInv, Shape
  <2>3. QED
    BY <1>2, <2>1, <2>2 DEF Shape
<1>7. ASSUME KeepsContract
      PROVE  Kept'
  <2>1. Shape /\ Kept /\ origin # "text" /\ Promise /\ Writable(writer, value)
    BY <1>1, <1>7 DEF IInv, Shape, Kept
  <2>2. SlashFree
    BY <2>1, KeptIsSlashFree
  <2>3. Promise'
    BY <1>4, <1>7, <2>1, <2>2 DEF WriteStep
  <2>4. Writable(writer, value)'
    BY <1>5, <2>1
  <2>5. ~ IsWritten'
    BY <1>2 DEF IsWritten
  <2>6. QED
    BY <2>3, <2>4, <2>5 DEF Kept
<1>8. QED
  BY <1>6, <1>7 DEF IInv

\* The builder is new, with the prefix in it.
LEMMA NewPrefixedKeeps ==
  ASSUME IInv, NewPrefixed
  PROVE  IInv'
<1>1. PICK name, type, wire : name = writer /\ type = TypeOf(name) /\ wire = Wire[type][value]
  OBVIOUS
<1>2. /\ pc = "new" /\ pc' = "write" /\ buf' = Catalog[name].prefix /\ segments_written' = 1
      /\ budget' = UsizeMax - 1 /\ todo' = << [type |-> type, value |-> value] >>
      /\ UNCHANGED <<parser, keys, need, got, result>>
  BY <1>1 DEF NewPrefixed, BuilderCreatePrefixed, TypeOf
<1>3. /\ writer' = writer /\ value' = value /\ reader' = reader /\ origin' = origin
      /\ str_key' = str_key /\ got' = got /\ result' = result /\ ParserTypeOK'
  BY <1>2 DEF parser, keys, IInv, Shape, ParserTypeOK
<1>4. /\ name \in DOMAIN Catalog /\ value \in Typed(name) /\ type \in AllTypes /\ value \in ValuesOf[type]
      /\ Catalog[name].prefix \in Str /\ NoSlash(Catalog[name].prefix)
  BY <1>1, <1>2, WireOfIs, CatalogAssumption DEF IInv, Shape, Typed
<1>5. PICK node : node = [type |-> type, value |-> value]
  OBVIOUS
<1>6. IsNode(node) /\ node.type = type /\ node.value = value
  BY <1>4, <1>5 DEF IsNode
<1>7. IsNodes(<< node >>) /\ Flat(<< node >>) = wire
  BY <1>1, <1>6, FlatOne
<1>8. todo' = << node >>
  BY <1>2, <1>5
<1>9. Shape'
  <2>1. buf' \in Str /\ budget' \in 0 .. UsizeMax /\ segments_written' \in Nat /\ segments_written' > 0
    BY <1>2, <1>4, UsizeMaxAssumption
  <2>2. buf' \in Seq(Byte)
    BY <2>1 DEF Str
  <2>3. BuilderTypeOK'
    BY <2>1, <2>2 DEF BuilderTypeOK
  <2>4. IsNodes(todo)'
    BY <1>7, <1>8
  <2>5. /\ origin' # "text" /\ origin' \in {"value", "text", "decoded"}
        /\ str_key' \in Str /\ writer' \in DOMAIN Catalog /\ reader' \in DOMAIN Catalog
        /\ got' = <<>> /\ result' = NoResult /\ value' \in Typed(writer)'
    BY <1>1, <1>2, <1>3, <1>4 DEF IInv, Shape
  <2>6. QED
    BY <1>2, <1>3, <2>1, <2>3, <2>4, <2>5 DEF Shape
<1>10. ASSUME KeepsContract
       PROVE  Kept'
  <2>1. Writable(name, value)
    BY <1>1, <1>2, <1>10 DEF IInv, Shape, Kept
  <2>2. Len(wire) < UsizeMax
    BY <1>1, <2>1 DEF Writable
  <2>3. wire \in Wires /\ WrittenAs(name, value) = << Catalog[name].prefix >> \o Spelled(wire)
    BY <1>1, <1>4, WrittenAsIs
  <2>4. Take(wire, UsizeMax - 1) = wire
    <3>1. UsizeMax - 1 \in Nat /\ Len(wire) <= UsizeMax - 1
      BY <2>2, <2>3, UsizeMaxAssumption DEF Wires
    <3>2. QED
      BY <2>3, <3>1, TakeIs
  <2>5. Split(Catalog[name].prefix) = << Catalog[name].prefix >>
    BY <1>4, SplitPlain DEF Str, Texts
  <2>6. WillBe(Catalog[name].prefix, wire, UsizeMax - 1) = WrittenAs(name, value)
    BY <2>3, <2>4, <2>5 DEF WillBe
  <2>7. WillBe(buf', Flat(todo'), budget') = WrittenAs(writer', value')
    BY <1>1, <1>2, <1>3, <1>7, <1>8, <2>6
  <2>8. Len(todo') = 1
    BY <1>8
  <2>9. Promise'
    BY <2>7, <2>8 DEF Promise, DirNamesToDo
  <2>10. Writable(writer, value)'
    BY <1>1, <1>3, <2>1
  <2>11. ~ IsWritten'
    BY <1>2 DEF IsWritten
  <2>12. QED
    BY <2>9, <2>10, <2>11 DEF Kept
<1>11. QED
  BY <1>9, <1>10 DEF IInv

\* The text that was promised is read.
LEMMA ToStringKeyKeeps ==
  ASSUME IInv, ToStringKey
  PROVE  IInv'
<1>1. /\ pc = "write" /\ todo = <<>> /\ pc' = "read" /\ ParserCreate(buf) /\ need' = ReadCalls
      /\ UNCHANGED <<builder, keys, todo, got, result>>
  BY DEF ToStringKey
<1>2. /\ writer' = writer /\ value' = value /\ reader' = reader /\ origin' = origin
      /\ buf' = buf /\ budget' = budget /\ segments_written' = segments_written
      /\ todo' = todo /\ got' = got /\ result' = result /\ BuilderTypeOK'
  BY <1>1 DEF builder, keys, IInv, Shape, BuilderTypeOK
<1>3. /\ buf \in Str /\ reader \in DOMAIN Catalog /\ writer \in DOMAIN Catalog /\ got = <<>>
      /\ origin # "text" /\ origin \in {"value", "text", "decoded"} /\ IsNodes(todo)
      /\ value \in Typed(writer) /\ result = NoResult
  BY <1>1 DEF IInv, Shape
<1>4. str_key' = buf /\ i' = 0 /\ at' = 0 /\ index' = 0 /\ ret' = NoCall
  BY <1>1 DEF ParserCreate
<1>5. ParserTypeOK' /\ str_key' \in Texts
  BY <1>3, <1>4 DEF ParserTypeOK, Str, Texts, NoCall, Err
<1>6. Reading'
  <2>1. Starting'
    BY <1>1, <1>2, <1>3, <1>4, <1>5 DEF Starting, ReadCalls
  <2>2. QED
    BY <2>1, Start, PTL
<1>7. Shape'
  BY <1>1, <1>2, <1>3, <1>4, <1>5, <1>6 DEF Shape
<1>8. ASSUME KeepsContract
      PROVE  Kept'
  <2>1. Writable(writer, value) /\ WillBe(buf, Flat(todo), budget) = WrittenAs(writer, value)
    BY <1>1, <1>3, <1>8 DEF IInv, Kept, Promise
  <2>2. WillBe(buf, <<>>, budget) = Split(buf)
    <3>1. <<>> \in Wires /\ budget \in Nat
      BY UsizeMaxAssumption DEF Wires, IInv, Shape, BuilderTypeOK
    <3>2. Len(<<>>) = 0 /\ Len(<<>>) <= budget
      BY <3>1
    <3>3. Take(<<>>, budget) = <<>>
      BY <3>1, <3>2, TakeIs
    <3>4. Spelled(<<>>) = <<>>
      BY DEF Spelled
    <3>5. Split(buf) \in Seq(Texts)
      BY <1>3, SplitType DEF Str, Texts
    <3>6. QED
      BY <3>3, <3>4, <3>5, EmptyIsNeutral DEF WillBe
  <2>3. Split(buf) = WrittenAs(writer, value)
    BY <1>1, <2>1, <2>2, FlatNone
  <2>4. QED
    BY <1>1, <1>2, <1>4, <2>1, <2>3 DEF Kept
<1>9. QED
  BY <1>7, <1>8 DEF IInv

\* What a text says depends on the text and its reader alone.
LEMMA ResultStays ==
  ASSUME UNCHANGED <<str_key, reader>>
  PROVE  Refused(result)' = Refused(result') /\ Accepted(result)' = Accepted(result')
<1>1. Segments' = Segments /\ Typed(reader)' = Typed(reader) /\ (Catalog[reader])' = Catalog[reader]
  BY DEF Segments
<1>2. /\ \A p : Points(Segments, p, reader)' = Points(Segments, p, reader)
      /\ Unspelled(Segments, reader)' = Unspelled(Segments, reader)
  BY <1>1 DEF Points, Unspelled
<1>3. QED
  BY <1>1, <1>2 DEF Refused, Accepted

\* A call of the parser keeps its types and its text.
LEMMA ParserKeeps ==
  ASSUME ParserTypeOK, DecodeCall
  PROVE  ParserTypeOK' /\ str_key' = str_key
<1>1. CASE DecodePrefix \/ DecodeString \/ DecodeRaw \/ DecodeU64 \/ DecodeU32 \/ DecodeEnum
  <2>1. NextRaw \/ NextStr \/ NextNonempty \/ NextU64 \/ NextLiteral(Catalog[reader].prefix)
    BY <1>1, Zenon DEF DecodePrefix, DecodeString, DecodeRaw, DecodeU64, DecodeU32, DecodeEnum, Try
  <2>2. NoElement \/ \E r : ElementOutcome(r) /\ NextElement(r)
    BY <2>1, NextForm
  <2>3. CASE NoElement
    BY <2>3, NoElementType DEF NoElement
  <2>4. ASSUME NEW r, ElementOutcome(r), NextElement(r)
        PROVE  ParserTypeOK' /\ str_key' = str_key
    BY <2>4, NextElementType DEF ElementOutcome, NextElement
  <2>5. QED
    BY <2>2, <2>3, <2>4
<1>2. CASE DecodeUnit \/ DecodeStruct \/ DecodeDirName \/ Build
  <2>1. UNCHANGED parser
    BY <1>2, Zenon DEF DecodeUnit, DecodeStruct, DecodeDirName, Build
  <2>2. QED
    BY <2>1 DEF parser, ParserTypeOK
<1>3. QED
  BY <1>1, <1>2 DEF DecodeCall

\* A call of decode_key().
LEMMA DecodeCallKeeps ==
  ASSUME IInv, DecodeCall
  PROVE  IInv'
<1>1. pc = "read" /\ need # <<>> /\ UNCHANGED <<builder, keys, todo>>
  BY Zenon DEF DecodeCall, DecodePrefix, DecodeString, DecodeRaw, DecodeU64, DecodeU32, DecodeUnit,
         DecodeStruct, DecodeEnum, DecodeDirName, Build, Decode
<1>2. ParserTypeOK' /\ str_key' = str_key
  BY ParserKeeps DEF IInv, Shape
<1>3. /\ writer' = writer /\ value' = value /\ reader' = reader /\ origin' = origin
      /\ buf' = buf /\ budget' = budget /\ segments_written' = segments_written
      /\ todo' = todo /\ BuilderTypeOK'
  BY <1>1 DEF builder, keys, IInv, Shape, BuilderTypeOK
<1>4. Calling
  BY <1>1 DEF Calling, IInv, Shape
<1>5. ReadStep
  BY <1>4, DecodePrefixStep, DecodeStringStep, DecodeRawStep, DecodeU64Step, DecodeU32Step, DecodeUnitStep,
     DecodeStructStep, DecodeEnumStep, DecodeDirNameStep, BuildStep DEF DecodeCall
<1>6. /\ buf \in Str /\ str_key \in Str /\ origin \in {"value", "text", "decoded"}
      /\ writer \in DOMAIN Catalog /\ reader \in DOMAIN Catalog /\ IsNodes(todo) /\ todo = <<>>
      /\ origin = "text" => writer = reader /\ str_key \in Foreign
      /\ origin # "text" => value \in Typed(writer)
      /\ result = NoResult
  BY <1>1 DEF IInv, Shape
<1>7. \/ pc' = "read" /\ result' = NoResult /\ Reading'
      \/ pc' = "end" /\ need' = <<>> /\ Refused(result)'
  BY <1>1, <1>2, <1>3, <1>5, <1>6, ResultStays DEF ReadStep
<1>8. Shape'
  BY <1>2, <1>3, <1>6, <1>7 DEF Shape
<1>9. ASSUME KeepsContract
      PROVE  Kept'
  <2>1. /\ origin # "text" => Writable(writer, value)
        /\ origin # "text" => str_key = buf /\ Split(buf) = WrittenAs(writer, value)
    BY <1>1, <1>9 DEF IInv, Kept, IsWritten
  <2>2. pc' # "write"
    BY <1>7
  <2>3. QED
    BY <1>2, <1>3, <2>1, <2>2 DEF Kept, IsWritten
<1>10. QED
  BY <1>8, <1>9 DEF IInv

\* So does the start of from_str_key(),
LEMMA FromStrKeyKeeps ==
  ASSUME IInv, FromStrKey
  PROVE  IInv'
<1>1. pc = "read" /\ pc' = "end" /\ ParserDone /\ UNCHANGED <<builder, keys, todo, need, got>>
  BY DEF FromStrKey
<1>2. ParserTypeOK' /\ str_key' = str_key
  BY <1>1, ParserDoneType DEF IInv, Shape, ParserDone
<1>3. /\ writer' = writer /\ value' = value /\ reader' = reader /\ origin' = origin
      /\ buf' = buf /\ budget' = budget /\ segments_written' = segments_written
      /\ todo' = todo /\ BuilderTypeOK'
  BY <1>1 DEF builder, keys, IInv, Shape, BuilderTypeOK
<1>4. need' = <<>> /\ (Accepted(result') \/ Refused(result'))
  BY <1>1, FromStrKeyStep DEF IInv, Shape
<1>5. Accepted(result)' \/ Refused(result)'
  BY <1>2, <1>3, <1>4, ResultStays
<1>6. /\ buf \in Str /\ str_key \in Str /\ origin \in {"value", "text", "decoded"}
      /\ writer \in DOMAIN Catalog /\ reader \in DOMAIN Catalog /\ IsNodes(todo) /\ todo = <<>>
      /\ origin = "text" => writer = reader /\ str_key \in Foreign
      /\ origin # "text" => value \in Typed(writer)
  BY <1>1 DEF IInv, Shape
<1>7. Shape'
  BY <1>1, <1>2, <1>3, <1>4, <1>5, <1>6 DEF Shape
<1>8. ASSUME KeepsContract
      PROVE  Kept'
  <2>1. /\ origin # "text" => Writable(writer, value)
        /\ origin # "text" => str_key = buf /\ Split(buf) = WrittenAs(writer, value)
    BY <1>1, <1>8 DEF IInv, Kept, IsWritten
  <2>2. QED
    BY <1>1, <1>2, <1>3, <2>1 DEF Kept, IsWritten
<1>9. QED
  BY <1>7, <1>8 DEF IInv

\* The value that a foreign text says can be written.
LEMMA WriteDecodedKeeps ==
  ASSUME IInv, WriteDecoded
  PROVE  IInv'
<1>1. /\ pc = "end" /\ origin = "text" /\ IsOk(result) /\ origin' = "decoded" /\ pc' = "new"
      /\ value' = result.value /\ UNCHANGED <<writer, reader, builder, parser, todo, need>>
      /\ got' = <<>> /\ result' = NoResult
  BY DEF WriteDecoded
<1>2. /\ writer' = writer /\ reader' = reader /\ str_key' = str_key
      /\ buf' = buf /\ budget' = budget /\ segments_written' = segments_written
      /\ todo' = todo /\ need' = need /\ BuilderTypeOK' /\ ParserTypeOK'
  BY <1>1 DEF builder, parser, IInv, Shape, BuilderTypeOK, ParserTypeOK
<1>3. Accepted(result)
  BY <1>1 DEF IInv, Shape, Refused
<1>4. /\ buf \in Str /\ str_key \in Str /\ str_key \in Foreign /\ writer = reader
      /\ writer \in DOMAIN Catalog /\ IsNodes(todo) /\ todo = <<>>
  BY <1>1 DEF IInv, Shape
<1>5. value' \in Typed(writer) /\ Says(Split(str_key), writer, value')
  BY <1>1, <1>3, <1>4 DEF Accepted, Segments
<1>6. Shape'
  BY <1>1, <1>2, <1>4, <1>5 DEF Shape
<1>7. Kept'
  <2>1. PICK v : v = value'
    OBVIOUS
  <2>2. Writable(writer, v)
    BY <1>4, <1>5, <2>1, DecodedWritable
  <2>3. Writable(writer, value)'
    BY <1>2, <2>1, <2>2
  <2>4. QED
    BY <1>1, <2>3 DEF Kept, IsWritten
<1>8. QED
  BY <1>6, <1>7 DEF IInv

\* and a step that changes nothing.
LEMMA StutterKeeps ==
  ASSUME IInv, UNCHANGED vars
  PROVE  IInv'
<1>1. /\ UNCHANGED <<buf, segments_written, budget, str_key, i, index, at, ret, pc, writer, value>>
      /\ UNCHANGED <<reader, origin, todo, need, got, result>>
  BY DEF vars, builder, parser, keys
<1>2. BuilderTypeOK' /\ ParserTypeOK'
  BY <1>1 DEF IInv, Shape, BuilderTypeOK, ParserTypeOK
<1>3. Segments' = Segments /\ TypeOf(reader)' = TypeOf(reader) /\ Catalog[reader]' = Catalog[reader]
        /\ ReadCalls' = ReadCalls /\ Typed(writer)' = Typed(writer)
  BY <1>1 DEF Segments, TypeOf, ReadCalls
<1>4. Reading => Reading'
  BY <1>1, <1>3 DEF Reading, CallsLeft, DirNamesLeft
<1>5. Accepted(result)' = Accepted(result) /\ Refused(result)' = Refused(result)
  BY <1>1, ResultStays
<1>6. Shape'
  BY <1>1, <1>2, <1>3, <1>4, <1>5 DEF IInv, Shape
<1>7. ASSUME KeepsContract
      PROVE  Kept'
  <2>1. Promise => Promise'
    BY <1>1 DEF Promise, DirNamesToDo
  <2>2. IsWritten' = IsWritten
    BY <1>1 DEF IsWritten
  <2>3. QED
    BY <1>1, <1>7, <2>1, <2>2 DEF IInv, Kept
<1>8. QED
  BY <1>6, <1>7 DEF IInv

\* The invariant is inductive.
LEMMA StepIInv == IInv /\ [Next]_vars => IInv'
<1> SUFFICES ASSUME IInv, [Next]_vars
             PROVE  IInv'
  OBVIOUS
<1>1. CASE EncodeCall
  BY <1>1, EncodeCallKeeps
<1>2. CASE DecodeCall
  BY <1>2, DecodeCallKeeps
<1>3. CASE NewPrefixed
  BY <1>3, NewPrefixedKeeps
<1>4. CASE ToStringKey
  BY <1>4, ToStringKeyKeeps
<1>5. CASE FromStrKey
  BY <1>5, FromStrKeyKeeps
<1>6. CASE WriteDecoded
  BY <1>6, WriteDecodedKeeps
<1>7. CASE UNCHANGED vars
  BY <1>7, StutterKeeps
<1>8. QED
  BY <1>1, <1>2, <1>3, <1>4, <1>5, <1>6, <1>7 DEF Next, EncodeCall, DecodeCall

-----------------------------------------------------------------------------
\* The result before from_str_key() returns is no value.
LEMMA NoResultIs == ~ IsOk(NoResult) /\ DOMAIN NoResult = {"err"} /\ NoResult.err = "none"
BY DEF NoResult, Err, IsOk

\* The inductive invariant holds in every behaviour: the reading is always about
\* to read exactly the values that the text says, and the writing, of a catalog
\* that keeps the contract, will write exactly what the reference says.
THEOREM InvariantHolds == Spec => []IInv
BY InitIInv, StepIInv, PTL DEF Spec

\* The type invariant of the builder, the parser and the two procedures
\* (builder.rs, parser.rs, struct_key.rs) holds in every behaviour.
THEOREM TypeCorrect == Spec => []TypeOK
<1>1. IInv => TypeOK
  <2> SUFFICES ASSUME Shape
               PROVE  TypeOK
    BY DEF IInv
  <2>1. DOMAIN result \subseteq {"err", "pos", "expect", "value"}
          /\ (IsOk(result) => result.value \in Typed(reader))
    <3>1. CASE pc # "end"
      BY <3>1, NoResultIs DEF Shape
    <3>2. CASE Accepted(result)
      <4>1. DOMAIN OkValue(result.value) = {"value"}
        BY DEF OkValue
      <4>2. QED
        BY <3>2, <4>1 DEF Accepted
    <3>3. CASE Refused(result)
      BY <3>3 DEF Refused
    <3>4. QED
      BY <3>1, <3>2, <3>3 DEF Shape
  <2>2. QED
    BY <2>1 DEF Shape, TypeOK, Typed
<1>2. QED
  BY <1>1, InvariantHolds, PTL

\* to_string_key() writes the prefix and the escaped segments that the reference
\* says, for every value of every catalog whose Raw segments and literals hold no
\* '/' (what the docs ask of them).
THEOREM EncodeCorrect ==
  ASSUME KeepsContract
  PROVE  Spec => []EncodeMeetsReference
<1>1. IInv => EncodeMeetsReference
  BY DEF IInv, Kept, EncodeMeetsReference
<1>2. QED
  BY <1>1, InvariantHolds, PTL

\* from_str_key() returns a value exactly when the text says one, and then that
\* value; a text that it rejects has no layout of the key's type.  It does for
\* every text, with segments too many or too few, bad numbers, bad escapes and
\* unknown tags among them.
THEOREM DecodeCorrect ==
  ASSUME KeepsContract
  PROVE  Spec => []DecodeMeetsReference
<1>1. IInv => DecodeMeetsReference
  <2> SUFFICES ASSUME IInv, pc = "end"
               PROVE  IF IsOk(result) THEN Says(Segments, reader, result.value)
                      ELSE IsDirName(TypeOf(reader)) \/ Unspelled(Segments, reader)
    BY DEF DecodeMeetsReference, Segments, Unspelled
  <2>1. Accepted(result) \/ Refused(result)
    BY DEF IInv, Shape
  <2>2. QED
    BY <2>1 DEF Accepted, Refused
<1>2. QED
  BY <1>1, InvariantHolds, PTL

\* A text that from_str_key() rejects is the spelling of no value of the key's
\* type, of those that no catalog lists too (struct_key.rs:31-41).
RejectedSaysNothing ==
  (pc = "end" /\ ~ IsOk(result)) =>
    \A v \in ValuesOf[TypeOf(reader)] : ~ Says(Split(str_key), reader, v)

\* Within the contract, nothing that is a spelling of a value is rejected, whatever
\* the value.
THEOREM RejectCorrect ==
  ASSUME KeepsContract
  PROVE  Spec => []RejectedSaysNothing
<1>1. IInv => RejectedSaysNothing
  <2> SUFFICES ASSUME IInv, pc = "end", ~ IsOk(result)
               PROVE  \A v \in Typed(reader) : ~ Says(Segments, reader, v)
    BY DEF RejectedSaysNothing, Segments, Typed
  <2>1. Refused(result)
    BY DEF IInv, Shape, Accepted
  <2>2. QED
    BY <2>1 DEF Refused
<1>2. QED
  BY <1>1, InvariantHolds, PTL

\* A value that is written and read again is the same value, and a value that was
\* read is written as a text that reads as that value.
THEOREM RoundTripCorrect ==
  ASSUME KeepsContract
  PROVE  Spec => []RoundTrip
<1>1. IInv => RoundTrip
  <2> SUFFICES ASSUME IInv, pc = "end", IsWritten, writer = reader, ~ IsDirName(TypeOf(writer))
               PROVE  result = OkValue(value)
    BY DEF RoundTrip
  <2>1. /\ Accepted(result) \/ Refused(result)
        /\ writer \in DOMAIN Catalog /\ value \in Typed(writer)
        /\ Segments = WrittenAs(writer, value)
    BY DEF IInv, Shape, Kept, IsWritten, Segments
  <2>2. Says(Segments, reader, value)
    BY <2>1, WrittenSays
  <2>3. ~ Refused(result)
    BY <2>1, <2>2 DEF Refused
  <2>4. QED
    BY <2>1, <2>2, <2>3 DEF Accepted
<1>2. QED
  BY <1>1, InvariantHolds, PTL

\* An InvalidSegment error of from_str_key() points at the one segment that is
\* wrong: the segments before it are the beginning of a key of the type, and in
\* each key that begins so, there is a tag or the prefix at that place, and
\* another one than in the text.
THEOREM ErrorPointsCorrect == Spec => []ErrorPointsAtSegment
<1>1. IInv => ErrorPointsAtSegment
  <2> SUFFICES ASSUME IInv, ~ IsOk(result), result.err = "InvalidSegment"
               PROVE  Points(Segments, result.pos, reader)
    BY DEF ErrorPointsAtSegment, Segments, Points
  <2>1. pc = "end"
    BY NoResultIs DEF IInv, Shape
  <2>2. Refused(result)
    BY <2>1 DEF IInv, Shape, Accepted
  <2>3. QED
    BY <2>2 DEF Refused
<1>2. QED
  BY <1>1, InvariantHolds, PTL

\* segment_count() is exact where the contract is kept: the text has as many
\* segments, besides the prefix, as the value counts, a truncated DirName's among
\* them (codec.rs:31-37). The run embedded_dir_name shows that the contract is needed.
THEOREM CountCorrect ==
  ASSUME KeepsContract
  PROVE  Spec => []SegmentCountIsExact
<1>1. IInv => SegmentCountIsExact
  <2> SUFFICES ASSUME IInv, IsWritten
               PROVE  Len(Split(buf)) = 1 + SegmentCount[TypeOf(writer)][value]
    BY DEF SegmentCountIsExact
  <2>1. /\ writer \in DOMAIN Catalog /\ value \in Typed(writer)
        /\ Split(buf) = WrittenAs(writer, value)
    BY DEF IInv, Shape, Kept, IsWritten
  <2>2. /\ TypeOf(writer) \in AllTypes
        /\ Wire[TypeOf(writer)][value] \in Wires /\ WireOf(writer, value) \in Wires
        /\ Len(WireOf(writer, value)) = Len(Wire[TypeOf(writer)][value]) + 1
    BY <2>1, WireOfIs
  <2>3. SegmentCount[TypeOf(writer)][value] = Len(Wire[TypeOf(writer)][value])
    BY <2>1, <2>2, CountIsLength DEF Typed
  <2>4. Len(WrittenAs(writer, value)) = Len(WireOf(writer, value))
    BY <2>1, <2>2, WrittenAsIs, SpelledIs
  <2>5. Len(Wire[TypeOf(writer)][value]) \in Nat
    BY <2>2 DEF Wires
  <2>6. QED
    BY <2>1, <2>2, <2>3, <2>4, <2>5
<1>2. QED
  BY <1>1, InvariantHolds, PTL
=============================================================================
