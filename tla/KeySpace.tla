------------------------------ MODULE KeySpace ------------------------------
(***************************************************************************)
(* Keys in a store that is ordered by text, and a client that lists them   *)
(* with DirName::dir_name_with_slash() (dir_name.rs).  The store and its   *)
(* range scan are outside the repository; of dir_name.rs, this module has  *)
(* how a handle is made, nested, changed and printed.                      *)
(*                                                                         *)
(* A key is its prefix and the segments that encode_key() pushes; neither  *)
(* holds a '/', which the codecs see to.                                   *)
(***************************************************************************)
EXTENDS Helper, FiniteSets, FiniteSetsExt

CONSTANTS AllKeys,      \* keys: [prefix |-> text, segments |-> texts]
          Levels,       \* levels that the client asks for
          MaxNesting    \* how deep the client nests DirNames

ASSUME KeysAssumption ==
  \A k \in AllKeys :
    /\ k.prefix \in Seq(Byte) /\ k.segments \in Seq(Seq(Byte))
    /\ \A s \in {k.prefix} \cup Range(k.segments) : Slash \notin Range(s)
ASSUME LevelsAssumption == Levels \subseteq Nat /\ MaxNesting \in Nat \ {0}

VARIABLES
  store,    \* the keys that are stored
  key,      \* the key in the innermost DirName
  levels,   \* the levels of the DirNames around it, innermost first
  kept,     \* the text that dir_name_with_slash() returned last
  asked     \* history: the levels when it did

vars == <<store, key, levels, kept, asked>>

-----------------------------------------------------------------------------
\* prefix/segment/.../segment
TextOf(prefix, segments) ==
  LET text[n \in 0 .. Len(segments)] ==
        IF n = 0 THEN prefix ELSE text[n - 1] \o <<Slash>> \o segments[n]
  IN  text[Len(segments)]

\* Mutant: the subtraction is not saturating.
PlainSub(n, level) == n - level

SaturatingSub(n, level) == IF n > level THEN n - level ELSE 0

\* segment_count() of the DirName with the first n of the levels.
SegmentCount(n) ==
  LET count[m \in 0 .. n] ==
        IF m = 0 THEN Len(key.segments) ELSE SaturatingSub(count[m - 1], levels[m])
  IN  count[n]

\* Mutant: only the outermost DirName sets its limit, and counts from the key.
BudgetOutermost ==
  IF levels = <<>> THEN Len(key.segments)
  ELSE SaturatingSub(Len(key.segments), Last(levels))

\* encode_key() of nested DirNames: each sets its limit, the smallest one holds.
Budget == Min({SegmentCount(n) : n \in 0 .. Len(levels)})

ToStringKey == TextOf(key.prefix, SubSeq(key.segments, 1, Budget))

-----------------------------------------------------------------------------
Init ==
  /\ store = {}
  /\ key \in AllKeys
  /\ levels = <<1>>
  /\ kept = ToStringKey \o <<Slash>>
  /\ asked = levels

PutKey(k) == store' = store \cup {k} /\ UNCHANGED <<key, levels, kept, asked>>
DeleteKey(k) == store' = store \ {k} /\ UNCHANGED <<key, levels, kept, asked>>

\* DirName::new() around what there is.
New ==
  /\ Len(levels) < MaxNesting
  /\ levels' = Append(levels, 1)
  /\ UNCHANGED <<store, key, kept, asked>>

NewWithLevel(level) ==
  /\ Len(levels) < MaxNesting
  /\ levels' = Append(levels, level)
  /\ UNCHANGED <<store, key, kept, asked>>

\* with_level() of the outermost DirName.
WithLevel(level) ==
  /\ levels # <<>>
  /\ levels' = [levels EXCEPT ![Len(levels)] = level]
  /\ UNCHANGED <<store, key, kept, asked>>

IntoKey ==
  /\ levels # <<>>
  /\ levels' = Front(levels)
  /\ UNCHANGED <<store, key, kept, asked>>

\* Mutant: the text ends without a separator.
DirNameWithoutSlash ==
  /\ levels # <<>>
  /\ kept' = ToStringKey
  /\ asked' = levels
  /\ UNCHANGED <<store, key, levels>>

DirNameWithSlash ==
  /\ levels # <<>>
  /\ kept' = ToStringKey \o <<Slash>>
  /\ asked' = levels
  /\ UNCHANGED <<store, key, levels>>

Next ==
  \/ \E k \in AllKeys : PutKey(k) \/ DeleteKey(k)
  \/ New \/ IntoKey \/ DirNameWithSlash
  \/ \E level \in Levels : NewWithLevel(level) \/ WithLevel(level)

Spec == Init /\ [][Next]_vars

-----------------------------------------------------------------------------
\* The store's order on texts, and its scan of the texts that a text starts:
\* from the text itself up to, and without, the text with its last byte plus 1.
Before(s, t) ==
  \E p \in DOMAIN t :
    /\ p <= Len(s) + 1
    /\ \A q \in 1 .. p - 1 : s[q] = t[q]
    /\ p <= Len(s) => s[p] < t[p]

RangeEnd(text) == [text EXCEPT ![Len(text)] = @ + 1]

Scan(text) ==
  {k \in store : /\ ~ Before(TextOf(k.prefix, k.segments), text)
                 /\ Before(TextOf(k.prefix, k.segments), RangeEnd(text))}

\* How deep a directory is, and the stored keys below it.
Depth(drops) == Max({0, Len(key.segments) - Sum(drops)})

Below(depth) ==
  {k \in store : /\ k.prefix = key.prefix
                 /\ Len(k.segments) > depth
                 /\ \A n \in 1 .. depth : k.segments[n] = key.segments[n]}

\* Every variable has its type, and no limit is negative however many levels
\* are asked for (dir_name.rs:83-85).
TypeOK ==
  /\ store \subseteq AllKeys
  /\ key \in AllKeys
  /\ levels \in Seq(Levels \cup {1})
  /\ Len(levels) <= MaxNesting
  /\ asked \in Seq(Levels \cup {1})
  /\ kept \in Seq(Byte)
  /\ Budget \in 0 .. Len(key.segments)

\* A scan by the text of dir_name_with_slash() lists the keys below the
\* directory and no others: not the directory itself, none of a sibling whose
\* name the directory's name starts, none of another prefix, whatever bytes
\* sort around '/' and however the store has changed (dir_name.rs:54-59).
ListsExactlyBelow == Scan(kept) = Below(Depth(asked))

\* Levels of nested DirNames add up, each from the segments its key would write
\* and never past the prefix (dir_name.rs:8-9, 62-69, 83-85).
NestedLevelsAddUp == Budget = Depth(levels)
=============================================================================
