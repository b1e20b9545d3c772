# structkey in TLA+

`structkey` turns typed keys into texts of the form `prefix/field1/.../fieldN`
and back. These modules model the whole run-time path of such a key: the percent
escaping of a field, the builder that writes segments, the parser that reads
them, the `Codec` impls that call both, and `to_string_key` / `from_str_key`
around them. They also model the derive macros, from a declaration to the code
that they generate for it, and the directories of keys in an ordered store. TLC
checks the models on small instances; TLAPS proves every safety property of the
passing runs for all strings, texts, limits, key types, values and declarations.

Source paths are short for `src/crates/structkey/src/<file>`; `derive` is
`src/crates/structkey-derive/src/lib.rs`.

## 1. The system

| Component | State | Operations | Used by |
|---|---|---|---|
| Percent escaping, `helper.rs` | locals of four loops: cursor, output buffer | `escape`, `escape_specified`, `unescape`, `unescape_specified`, `decode_id`, `hex`, `unhex` | Builder, Parser, callers through re-exports |
| `Builder`, `builder.rs` | `buf`, `segments_written`, `budget` | `new`, `new_prefixed`, `limit_segments`, `push_raw`, `push_str`, `push_u64`, `done` | every `encode_key` |
| `Parser`, `parser.rs` | text, `i`, `index`, a peekable iterator over `split('/')` | `new`, `new_prefixed`, `index`, `peek_literal`, `next_raw`, `next_str`, `next_nonempty`, `next_u64`, `next_literal`, `tail_raw`, `done` | every `decode_key`, hand-written decoders |
| `Codec`, `codec.rs` | none | `encode_key`, `decode_key`, `segment_count` for `String`, `u64`, `u32`, `()` | derived and hand-written keys |
| `Raw`, `raw.rs` | the string | the same, without escaping | fields marked `#[codec(raw)]` |
| `DirName`, `dir_name.rs` | `key`, `level` | the same, `with_level`, `dir_name_with_slash` | callers that list directories |
| `StructKey`, `struct_key.rs` | none | `to_string_key`, `from_str_key` | applications |
| Derive macro, `derive` | none at run time | generates `Codec` and `StructKey` impls | applications |
| `Error`, `error.rs` | none | seven variants | all of the above |

How they interact. `to_string_key` creates a builder with the prefix as its
first segment and hands it through nested `encode_key` calls; every call takes
the builder by value and returns it, so the *budget* that a `DirName` sets
travels with it to whoever pushes next. `from_str_key` creates a parser, takes
the prefix, and hands `&mut Parser` through nested `decode_key` calls; every `?`
that fails returns from the whole call. The text is the only thing that passes
from the writer to the reader: they can be different programs with different
types, and the text may come from a store that others write.

What is hard here. The program is sequential, so there are no interleavings of
threads and nothing is persisted. What goes wrong goes wrong in *sequences of
legal calls*: fields kept beside an iterator that a failed call moves
(`parser.rs:145`), a limit that outlives the value that set it
(`dir_name.rs:68`), empty segments, which leave no trace in the buffer
(`builder.rs:59`), byte-wise copying in multi-byte text (`helper.rs:115-126`),
positions computed before or after a pop (`parser.rs:97`, `119`), and texts that
no `to_string_key` wrote. In the macro it is the agreement of five pieces of
generated code - patterns, encode, decode, constructor, count - on which fields
there are and what they are called (`derive:200-275`, `436-509`, `609-629`).

What makes each part correct:

- *escaping*: unescape inverts escape; the output is one segment; neither
  panics; malformed input is reported at the right place; loops end;
- *Builder and Parser*: together a queue of segments, empty ones included; a
  budget never grows back; `done()` accepts exactly at the end;
- *Parser alone*: counters in step with the iterator through failures; errors
  name true positions and counts; `tail_raw` loses nothing; peeks foretell;
- *keys*: what is written comes back; what is read is what the text spells; a
  `DirName` writes exactly the leading segments and never cuts the prefix;
- *derived code*: it compiles whenever the documented conditions hold; it keeps
  the contract of `Codec` if the fields' types do; it counts what it pushes;
- *directories*: a scan lists the keys below the directory and nothing else.

The full list of hazards, with lines, is in `PROJECT.json`.

## 2. The modules

| Module | Models | State and actions |
|---|---|---|
| `Helper` | what `helper.rs` computes, without loops; results as records | operators: `Escape`, `EscapeSpecified`, `Unescape`, `DecodeId`, `hex`, `unhex`; external: `Utf8`, `Numbers`, `Decimal` |
| `EscapeLoops` | the four loops of `helper.rs`, one action per branch of an iteration | `index`, `new_key`, `key`, `chars`; `strict` tells `escape`/`unescape` from the `_specified` pair |
| `Builder` | `builder.rs` | the three fields; one action per method, composed by its users |
| `Parser` | `parser.rs` | `str_key`, `i`, `index`, the iterator as `at` (offset of its next element), `ret` (what the last call returned); one action per method |
| `SegmentQueue` | abstract: what Builder and Parser promise together | `Put`, `Cap`, `Close`, `Take`, `Finish` |
| `Framing` | a client of both, which implements `SegmentQueue` | `Push`, `Limit`, `Done`, `Read`, `Finish` |
| `ParserCalls` | all public methods of `Parser` in any order | one action per method |
| `Keys` | the types of a program, listed each after its components, and their values; `segment_count` of every impl; the reference for what a value is on the wire | recursive functions over the types: `ValuesOf`, `SegmentCount`, `Wire` |
| `StructKey` | `to_string_key`, `from_str_key` and the `Codec` impls | `todo`, `need`: the nested calls still to make; one action per `encode_key` / `decode_key` impl |
| `Derive` | both derive macros, the compiler as far as names and field types go, and the generated `encode_key`, `decode_key`, `segment_count` | the declaration, prefix, tags, generated `arms`; then the value, the cursor `step` in an arm, `segments`, `left`, the locals `env`; one action per function of the macro and per kind of generated statement |
| `KeySpace` | `dir_name.rs` as a client uses it; external: an ordered store with a range scan | `store`, the `key` and `levels` of a handle, the `kept` text; one action per method |
| `EscapeLoopsProofs`, `FramingProofs`, `ParserCallsProofs`, `StructKeyProofs`, `DeriveProofs`, `KeySpaceProofs` | theorems about the module they are named after | |
| `ParserLemmas`, `HelperLemmas` | lemmas that they share | |
| `MC*` | constants for TLC | |

Conventions. A text is the sequence of its UTF-8 bytes. A Rust `Result` is a
record with `err` for `Err`, and the value under the name of its type otherwise.
Message texts are left out; the variant, the position `pos` and the expected
count `expect` are kept. A *mutant* operator, marked as such, stands before the
definition it is a plausible wrong version of; no specification uses it.

`NextElement(outcome)` in `Parser` is the part that all `next_*` methods share:
`next_raw()?` moves `i`, `index` and the iterator, and what the method then
makes of the element is the outcome. This is why a decoding error still consumes
the segment. `ParserDone` takes from the iterator and moves no field, as the
code does.

In `StructKey`, nested calls are kept as an explicit list, outermost last. One
action is one `encode_key` or `decode_key` call; a composite replaces itself
with its parts, and a `build` entry stands for the constructor after them. A
failing `?` drops the list. The modelled catalog has a plain struct, a struct
with a raw field and an enum, a fieldless struct, an enum with nested struct and
unit fields, a `DirName`, and a `DirName` of a `DirName`; pairs of them share a
prefix so that a text can reach the wrong reader.

The types of a program are the constant `Types`, a list in which each type comes
after its components: no impl is for a pointer, so no type contains itself. What
is said of values is a function on that list, and speaks of all values of a type
at once: strings are all UTF-8 texts, levels all naturals. `Wire` is the
reference: a value is a row of *items*, one per segment, each with the form it is
written in; `Written` is the one segment that an item is written as, `Spells` says
which segments are read as it (`07` and `+7` spell the number 7, `%61` spells
`a`), and `Says` that a whole text does. `KeepsContract` is what the docs ask of
the caller: no `/` in a `Raw` (`raw.rs:8-10`), and no `DirName` as a field
(`dir_name.rs:3-9` takes it as a view of a whole key).

For texts that are rejected there is a second reference, which needs no values. A
*layout* of a type is a row of slots, one per segment of some choice of variants:
a tag, or a type that is one segment. `Fits` says whether a segment can stand in a
slot, and `Open(segments, n, name)` are the layouts that the first `n` segments of
a text fit. Layouts are few where values are many, so TLC can look at all of them:
a text is rejected only if no layout is open to its end (`DecodeMeetsReference`),
and `InvalidSegment` names the place where layouts are still open, and every one
of them wants another tag (`ErrorPointsAtSegment`).

`Derive` starts where `syn` ends: a declaration is a record of its parts, fields
and attributes. `ParseStructKeyPrefix`, `BuildCodecImpl`, `DeriveStruct`,
`DeriveEnum`, `CheckUniqueVariantTags` and `BuildVariantParts` are the macro;
they reject or leave `arms`, one record per variant with its statements as
functions on field positions. Identifiers are taken to be ASCII: `snake_case()`
calls the Unicode methods of `char`, the model has the letters A to Z. `Compile` is rustc, which is external: every name
is in scope, every field is constructed once, the types agree. `EncodeKey` and
`EncodeField`, `DecodeKey` (of what was written, in front of other segments),
`DecodeForeign` (of any segments), `MatchTag`, `DecodeField` and `Construct` run
the generated statements. The `Codec` of a field's type is a parameter
(`Segments`, `Take`) with the promise `FieldContract`: `Take` gives back what
`Segments` pushed, whatever follows. That is the composition rule of the crate:
`RoundTrip` says that a derived type keeps it too, so types nest to any depth.
`DecodeInvertsEncode` is the converse, where `Take` accepts only what `Segments`
pushes (`CanonicalFields`), as on the foreign queues of the run.
`after` is history: what was pushed since each field, which the proofs use.

In `KeySpace` a handle is a key with the levels of the `DirName`s around it; its
text is computed from nested `segment_count` calls and the smallest limit, as
the builder does. The store and the levels may change between the call
that returns a text and the scan by it.

## 3. What TLC checks

| Run | Question | Result |
|---|---|---|
| `escape_loops` | do the loops round-trip, stay in bounds, end, and agree with a loop-free definition? | holds |
| `framing` | do Builder and Parser implement a queue of segments? | holds |
| `parser_calls` | does the parser's bookkeeping survive any order of calls, failures included? | holds (as long as no `done()` failed) |
| `struct_key` | are whole keys written, read and rejected as they should be? | holds |
| `derive` | does the macro reject exactly what it should, does its code compile exactly when documented, and does it write, read and count as declared? | holds |
| `key_space` | is a listing the directory, whatever bytes sort around `/`? | holds |
| `escape_specified_panic` | "Safe unwrap()" of `escape_specified` (`helper.rs:47`) | violated |
| `tail_after_done` | "trailing raw string that is not processed" (`parser.rs:133`) after a failed `done()` | violated |
| `index_before_first` | `index()` "will panic" before the first element (`parser.rs:43`) | violated in builds without overflow checks |
| `raw_slash` | a `/` in `Raw` gives "a wrong-segment-count error" (`raw.rs:8-10`) | violated |
| `embedded_dir_name` | `segment_count` is exact (`codec.rs:31-37`) when a `DirName` is a field | violated |
| `shadowed_parser` | "Generates a `Codec` impl for a struct with named fields" (`derive:3-4`), whatever their names | violated |

The violations in words:

- `escape_specified("é", [0xC3])` escapes one byte of a character and panics in
  its `unwrap()`. With `chars` in ASCII it never does (`AsciiCharsAreSafe`).
- A `done()` that fails has taken a segment from the iterator and left `index`
  where it was. `tail_raw()` then returns text that was taken, and for `é//`,
  after `done`, `next_raw`, it slices inside `é` and panics.
- `index()` is `self.i - 1`; without overflow checks it returns `usize::MAX`.
- A struct of a raw field and an enum `{U, V(String)}` with raw field `x/v` and
  variant `U` is read back, without an error, as raw field `x` and `V("u")`.
- A `DirName` field limits the builder and the limit stays: the fields after it
  are not written, even at level 0. The comment of a test (`dir_name.rs`,
  202-206) takes embedding to be safe.
- The generated `decode_key` of `struct { p: String, b: String }` is
  `let p = Codec::decode_key(p)?; let b = Codec::decode_key(p)?;`. The second `p`
  is the decoded field, so the code does not compile. Enums are not affected:
  their fields are operands of the constructor. `CompilesWhenTypesFit` says that
  this is the only name that matters, and `CompilesCorrect` proves it.

More differences between comments and code were seen and have no run:
`next_literal` documents `WrongNumberOfSegments` for a different element
(`parser.rs:117`) and returns `InvalidSegment`; `peek_literal` at the end reports
`expect: i` where `next_*` report `i + 1` (`parser.rs:54`, `82`), which is why
`CountErrorsAreTrue` exempts it. `#[codec(raw)]` is "Only valid on `String` fields"
(`derive:41`), but on a `PhantomData` field it is accepted and ignored
(`derive:190-191`). `FieldTypesFit` takes the sentence at its word, so such a
declaration does not fit and yet compiles: `CompilesWhenTypesFit` exempts it
(`RawOnMarker`), and the run has some.

### Bounds

- `escape_loops`: strings of up to three bytes over seven, texts of up to four
  bytes over eight, chosen so that every branch and every boundary of the loops
  occurs: escapes at the end of the text and cut short, `%%27`, lower and upper
  case hex, a wrong digit in either place, multi-byte characters next to a `%`,
  escapes that decode to invalid UTF-8. No branch looks at more than three
  bytes.
- `framing`: four pushes and any number of limits 0, 1, 2 in between; segments
  empty, one and two bytes; `UsizeMax = 5`, so that the initial budget is also
  used up. Only the count of segments and the place of empty ones matter.
- `parser_calls`: every UTF-8 text of up to four bytes over `/`, `a`, `%`, `7`
  and `é`: up to five elements. The number of calls is not bounded; the state
  space is finite because a text is.
- `struct_key`: six key types, fourteen with their components; strings with `/`,
  `%`, a multi-byte character and none; numbers at zero, at and above the (small)
  integer maxima; levels 0 to 3; all foreign texts of up to three segments after a
  prefix, over ten segments, and some malformed prefixes. `MaxU64 = 99` and
  `MaxU32 = 50` keep the widths apart: `60` is a u64 and no u32, `100` is neither.
  The catalog keeps the contract (`MCContractAssumption`, which TLC evaluates); those of `raw_slash` and
  `embedded_dir_name` break one part of it each.
- `derive`: structs of up to three fields, enums of up to three variants,
  containers with up to two attributes. Among the fields: `p` in every position,
  markers in every position, raw fields, `raw` on a wrong type, an unknown option,
  an alias of `PhantomData` and a user type of that name. Among the variants:
  acronyms, digits, renames that are empty, split, repeated, or equal to another
  variant's default. The crate is found by its name, renamed, as itself, or not
  found, with and without another crate that is called `structkey`. Foreign queues have up to two segments over four. Only the relative
  position of fields and variants matters, and three show every order.
- `key_space`: seven keys around one directory: siblings named with the bytes
  before and after `/`, empty segments, the directory as a key, a prefix that
  another one starts. Levels 0, 1 and 2, two `DirName`s deep, on keys of up to
  three segments, so that nested levels saturate.

Deadlock is checked in `key_space`, whose client can always go on. It is not
checked in the others: the functions return, and then nothing happens.

### Fairness

`escape_loops` checks termination under `WF_vars(Next)`: the code is sequential and
a function that was called runs until it returns. Nothing stronger is assumed. No
other module has fairness. In `framing`, `parser_calls` and `key_space` a client
may stop calling at any time. In `struct_key` a call consumes a finite list of
nested calls, and in the generated code of `derive` the cursor `step` grows with
every statement, so there termination would say nothing.

## 4. What is proved

All from the assumptions on constants that stand in the modules (strings are
UTF-8 byte sequences, segments hold no `/`, integer bounds are naturals,
declarations are grammatical; no type contains itself; a text that is in memory
is shorter than `usize::MAX`).

**`EscapeLoopsProofs`**, for all strings and all `chars`. `RoundTrip` is not
inductive: in the middle of unescaping nothing says where the cursor is relative
to what escape wrote. `LoopInv` does. It records in `marks` where the code of
each byte starts; the codes *tile* the escaped text; the unescape loop stands at
the start of a code and has rebuilt the bytes before it. The step for
`UnescapeHex` is the heart: the three bytes at a tile with `%` decode to the byte
that was coded (`HexByte`, `UnescapeReadsCode`), and at a tile without, the byte
is not `%` when the pair is reversible. From it: `TypeCorrect`, `LoopsCorrect`,
`RoundTripCorrect`, `EscapedSegmentCorrect`, `EscapeNeverPanicsCorrect`.

`UnescapeCorrect` is about `unescape()` on any text, not only on what was escaped.
Its invariant `UnescapeInv` says that the bytes before the cursor are whole
escapes and plain bytes, and that `new_key` is what they stand for; `ReadsEscape`
and `ReadsByte` are its steps, `ReadsBad` and `ReadsAll` the two ways to end.

`AsciiCharsAreSafeCorrect` needs an invariant of its own, since `LoopInv` knows
bytes but no characters. `SyncInv` says that the output of an escape loop is
whole characters followed by the bytes, so far, of the character of the input
that the loop is inside (`InSync`); a byte that is replaced is ASCII, hence a
character by itself, and the loop is inside none (`ReplaceAscii`, `CopyByte`).

**`FramingProofs`**, for all segments without `/`, all limits and any number of
pushes. The invariant `FramingInv` has two parts: `Layout` (segment k occupies
`starts[k]` onwards, a `/` precedes the next, the last ends the buffer) and
`Reading` (what was popped is a prefix of what was accepted, and the iterator
stands at the start of the next segment). The lemma `NextUnread` is where they
meet: because a segment holds no `/`, the first one after its start is the
separator, so the element that `split` finds is the segment. From it:
`TypeCorrect`, `WithinCeilingCorrect`, `FramingInvCorrect`, `ReadsBackCorrect`,
`DoneIsExactCorrect`, and `Implements`: every call is a step of `SegmentQueue` or
invisible to it.

**`ParserCallsProofs`**, for all UTF-8 texts and every order of calls. The
counters alone are not inductive: whether `i` may say `k` depends on how many
elements the iterator has given out, which no field records. `CallsInv` therefore
counts: `Taken` is the number of `/` before the iterator's position (`CutsOfRest`
adds one per element, `TakesOne` is the step), `read` is the part of the text that
the iterator passed, and the position is always on a `/` or past the end. The
lemma `ElementStartsCharacter` carries UTF-8 through: a `/` is never a
continuation byte, so a slice there is on a character boundary. From it:
`TypeCorrect`, `CallsInvCorrect`, `InStepCorrect`, `NothingLostCorrect`,
`CountErrorsCorrect`, `PositionsCorrect`, and the action property
`PeekForetellsCorrect`. As the properties themselves say, a `done()` that failed
ends what they promise, except for peeks and for the counts of `done()` itself.

**`StructKeyProofs`**, for all lists of types, nested to any depth, all catalogs of
key types, all values and all foreign texts. None of the properties of a key is
inductive, as each speaks of the end of a call whose middle is a list of nested
calls. The invariant `IInv` says what these lists are worth.

- *Reading*. `Reading` says of the calls in `need` and the values in `got`: a
  value of the key's type is spelled by the text exactly if the calls, started
  with `got`, read the items that the segments left to the parser spell, and end
  with that value alone (`Means`). The meaning of a list of calls is a relation,
  `Path`: a chain of states, each of the values returned and the items to come.
  Each `decode_key()` then keeps the relation: a leaf takes one segment and the one
  item that it spells (`LeafMeans`), an enum the tag that is there (`EnumMeans`),
  and a struct replaces itself with its fields and a constructor (`StructMeans`),
  which reads the same because the items of a struct are those of its fields one
  after the other (`ReadsEveryList`, by induction over the fields). A call that
  fails makes the relation empty: no item is spelled by that segment, or there is
  no segment (`MeansShort`) or one too many (`MeansEnd`). `Position` ties the
  relation to the parser of the code: the rest of the text from the iterator's
  offset splits into the rest of the segments, and `i` counts those before it.
- *Rejecting*. Beside `Means`, which is about values, `Aligned` is about layouts:
  those that the segments read so far leave open are one row of slots for these
  segments, followed by any layout of the calls in `need`
  (`AlignLeaf`, `AlignEnum`, `AlignStruct`, one per kind of call). When a tag
  matches no variant, the open layouts are those of the enum, and each has a tag
  there (`Points`, from `AlignPoints`); when the prefix is wrong, all layouts are
  open and begin with it. Any other error closes all layouts, or leaves only
  shorter or longer ones (`Unspelled`). `Refused` collects both. `RejectCorrect`
  says the same of values: a text that is rejected is the spelling of no value of
  the type, whether a catalog lists it or not.
- *Writing*. `Promise` says that the buffer, split, with the items of the calls in
  `todo` up to the *budget*, is what the reference says. Pushing takes one item
  from the calls to the buffer if the budget allows (`WillBePushed`); a `DirName`
  lowers the budget to what it shows of its key, which is no change since it is
  the only call left (`DirNamesToDo`) and its count is the length of its items
  (`CountIsLength`).
- *Between*. `Kept` says that the value that is written is `Writable`: its
  segments hold no `/`, so that the text splits where the builder joined. A value
  that was decoded from a foreign text is writable too, because it is spelled by
  segments (`DecodedWritable`). `RoundTripCorrect` joins both directions: what is
  written spells the value (`WrittenSays`), and a text spells one value only.

`IInv` is `Shape`, which always holds, and `Kept`, which holds if the catalog
keeps the contract. So `TypeCorrect` and `ErrorPointsCorrect` need no hypothesis,
and `EncodeCorrect`, `DecodeCorrect`, `RejectCorrect` and `RoundTripCorrect` have `KeepsContract`,
without which `raw_slash` and `embedded_dir_name` refute them. `CountCorrect` is the
other side of `embedded_dir_name`: within the contract the count is exact.

The reference operators are recursive functions on types; that they exist and
satisfy their equations is proved by induction over the list of types
(`ValuesAre`, `CountsAre`, `WiresAre`). The invariant itself, `InvariantHolds`, is
not a run's: it quantifies over all rows of items. TLC checks what follows from
it.

**`DeriveProofs`**, for all declarations, any number of fields and variants.
`RoundTripCorrect` assumes `SegmentsAre(S)`: for some set `S` of segments, the
fields' codecs keep `FieldContract` on all queues over `S`, and the tags and the
foreign segments are in `S`. Its invariant has two parts. `MacroInv` says what the
generated arms have to do with the declaration: every piece of an arm is about
the active members and no others, receivers lead back to their fields
(`ArmFits`, from the injectivity of `Member` and `SynthName`), the tags differ.
`RunInv` follows the run: while encoding, `Chain` says that what was pushed since
one field is that field's segments and what was pushed since the next; while
decoding, what is left is what was pushed since the last field that was decoded,
then `rest`, and the locals hold the fields of the value. Since `Chain` speaks
of one field at a time, no induction over the fields is needed. `FieldTaken` is
where it meets the contract.

`CompilesCorrect` needs no hypothesis. `FitInv` says that whatever passed the
macro has only known options; then `WellTypedIs` reduces what the compiler checks
of an arm to the types of its fields, one by one, and to the absence of a field
`p` before a decoded one. What the code needs of a declaration, `CodesFit`, is
what the documentation asks for, but for `raw` on a marker (`FitIs`).

`RejectsCorrect` needs no hypothesis either. `RejectInv` records what each
function of the macro has checked when it passes on (`PrefixChecked`,
`TagsChecked`); `DefectsAre` lists the kinds of defects, each with the function
that finds it (`LiteralIs`, `TagFails`, `RawFailsIs`). Two renderings of
`snake_case` meet here: the code decides letter by letter, `Discriminant` asks for
the smallest set of underscores that joins no two words. `WordStartsAre` shows
that there is exactly one such set and that it is the one of `NeedsSep`.

`WireIsDeclaredCorrect` and `CountIsExactCorrect` are about all fields at once.
Both have the hypothesis of `RoundTripCorrect`. The chain is turned into a
concatenation: by induction over the positions, what was pushed since the start
is the pieces of all fields one after the other (`ChainIsJoin`), which is what
`FlattenSeq` computes (`FlattenIs`) and whose length the sum of `segment_count()`
is (`SumIs`).

`DecodeInvertsEncodeCorrect` goes the other way, from segments that nobody has
encoded. Its hypothesis `ForeignSegmentsAre(S)` has `CanonicalFields` in place of
`FieldContract`: a codec of a field takes only segments that it would push. This is
a condition on the segments as much as on the codec, as `String` also takes
spellings that it never writes; the run `derive` holds it for its queues.
`ForeignInv` says that what is taken so far is what the fields decoded so far
would push (`Reads`); `TookOneMore` adds a field after which there is none yet.

`TypeCorrect` follows the cursor and the bindings through both, and asks only that
a codec that fails returns an error.

**`KeySpaceProofs`**, for all keys whose texts hold no `/`, all levels and any
nesting. The invariant `IInv` is that the text of the last call is that of the
directory that the levels of that call stand for, `DirText(key, Depth(asked))`. Three facts then give the rest. Levels: the text needs a limit that is
computed level by level and cut off at zero at each; `CountIs` shows that this is
one subtraction of the sum, and `BudgetIs` that the outermost limit is the
smallest. Scan: the texts between `t` and `t` with its last byte plus one are
those that `t` starts (`ScanIsStarts`), whatever the order of the other bytes.
Segments: a key's text starts with a directory's text exactly if the key is below
it (`StartsIsBelow`), by induction over the depth, with `SameCut`: two texts
without `/` that begin at one place and end at a `/` are the same. From it:
`TypeCorrect`, `NestedLevelsCorrect`, `ListsExactlyBelowCorrect`. Dropping the final `/`, or a key with a `/` in a segment,
breaks `StartsIsBelow`, as the mutants of the run `key_space` show for the first.

**`ParserLemmas`** has the facts about the iterator that these proofs share: the
end of an element exists and is unique. **`HelperLemmas`** has the rest of what
they share. Numbers: the least-number principle, induction over the members of a
set of numbers (a formula with a parameter is out of the provers' reach, a set is
not), and with it that a function that is defined from value to value exists and
is unique, which every recursive function of the modules needs. Lists:
`FlattenSeq` and `Sum` satisfy their recursions. Characters: every byte belongs to
one character, a text grows by whole ones, and a piece of a text between two `/`
is a text (`Utf8Piece`). Escapes and decimals: `Unescape(Escape(s))` is `s`
(`EscapeReadsBack`), and `DecodeId(Decimal(n))` is `n` (`DecimalReadsBack`), for all
strings and numbers.

Only model-checked:

- liveness: `Termination` of `escape_loops`, which rests on fairness;
- the six runs that expect a violation, which are counterexamples.

Every other property of a run is stated by a theorem. What the theorems do not
cover is the constants: that the catalog and the declarations of a real program
satisfy the assumptions is seen on the instances that TLC evaluates.

## 5. What is not modelled

- Parsing of Rust by `syn`, generics and their where-clauses, the formatting of
  generated tokens, the spans and texts of compile errors. Of the compiler there
  is only the resolution of the names that the macro introduces, and the types
  of fields.
- `#[codec(...)]` on a container, which no function reads.
- Error message texts, `Display` and `Debug`.
- Memory limits: a buffer may grow without bound, `segments_written` does not
  overflow a `usize`. `MemoryAssumption` of `StructKey` says as much of the texts.
- The crate root, which only re-exports, and `assert_round_trip`, which panics
  where `RoundTrip` would be violated.
- Tests, scripts, CI.

## 6. Plan

Done: `Helper`, `EscapeLoops` and proofs; `Builder`, `Parser`, `Framing`,
`SegmentQueue` and proofs; `ParserCalls` and proofs; `Keys`, `StructKey` and
proofs; `Derive` and proofs; `KeySpace` and proofs.

Left: the hypothesis `FieldContract` of the theorems of `DeriveProofs`, discharged
for the library's own codecs from `EscapeReadsBack` and `DecimalReadsBack`, and an
abstract store of values that `StructKey` implements.
