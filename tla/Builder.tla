------------------------------- MODULE Builder -------------------------------
(***************************************************************************)
(* The builder of builder.rs: a buffer of bytes, the number of segments in *)
(* it, and the budget of segments that may still be pushed.  Its methods   *)
(* take and return the builder, so each is an action on its three fields.  *)
(* `done()` is the value of buf.                                           *)
(***************************************************************************)
EXTENDS Helper

CONSTANT UsizeMax     \* usize::MAX, the budget that stands for "no limit"

ASSUME UsizeMaxAssumption == UsizeMax \in Nat \ {0}

VARIABLES buf, segments_written, budget

builder == <<buf, segments_written, budget>>

\* Builder::new()
BuilderNew == buf = <<>> /\ segments_written = 0 /\ budget = UsizeMax

\* Mutant: the prefix is put in the buffer without being counted as a segment.
BuilderNewUncounted(prefix) ==
  buf = prefix /\ segments_written = 0 /\ budget = UsizeMax - 1

\* Builder::new_prefixed(prefix): new() and one push_raw.
BuilderNewPrefixed(prefix) ==
  buf = prefix /\ segments_written = 1 /\ budget = UsizeMax - 1
BuilderCreatePrefixed(prefix) ==
  buf' = prefix /\ segments_written' = 1 /\ budget' = UsizeMax - 1

\* Mutant: a new limit replaces the budget, also when it is larger.
LimitSegmentsReplaces(n) ==
  /\ budget' = n
  /\ UNCHANGED <<buf, segments_written>>

\* limit_segments(n)
LimitSegments(n) ==
  /\ budget' = IF n < budget THEN n ELSE budget
  /\ UNCHANGED <<buf, segments_written>>

\* Where a segment pushed now starts: after a '/' unless it is the first.
NextStart == IF segments_written > 0 THEN Len(buf) + 1 ELSE Len(buf)

\* Mutants: the budget is not looked at; the separator depends on whether the
\* buffer is empty and not on the count of segments.
PushAppendsUnguarded(s) ==
  /\ budget' = budget - 1
  /\ buf' = (IF segments_written > 0 THEN Append(buf, Slash) ELSE buf) \o s
  /\ segments_written' = segments_written + 1
PushAppendsByBuffer(s) ==
  /\ budget > 0
  /\ budget' = budget - 1
  /\ buf' = (IF buf # <<>> THEN Append(buf, Slash) ELSE buf) \o s
  /\ segments_written' = segments_written + 1

PushAppends(s) ==
  /\ budget > 0
  /\ budget' = budget - 1
  /\ buf' = (IF segments_written > 0 THEN Append(buf, Slash) ELSE buf) \o s
  /\ segments_written' = segments_written + 1

PushDropped == budget = 0 /\ UNCHANGED builder

\* push_raw(s)
PushRaw(s) == PushAppends(s) \/ PushDropped

\* push_str(s)
PushStr(s) == PushRaw(Escape(s))

\* push_u64(n)
PushU64(n) == PushRaw(Decimal(n))

\* The fields have their types.
BuilderTypeOK ==
  /\ buf \in Seq(Byte)
  /\ segments_written \in Nat
  /\ budget \in 0 .. UsizeMax
=============================================================================
