------------------------------- MODULE Framing -------------------------------
(***************************************************************************)
(* A client of Builder and Parser: it pushes segments and limits the       *)
(* budget in any order, takes the text with done(), and reads it back with *)
(* Parser::new, next_raw() and done().  The client checks its segments for *)
(* '/', as the contract of push_raw() and Raw (raw.rs:6-10) asks of it.    *)
(***************************************************************************)
EXTENDS Builder, Parser

CONSTANTS Segments,   \* the segments that are pushed
          Limits,     \* the arguments of limit_segments()
          MaxPushes   \* bound: the client stops pushing after this many calls

ASSUME SegmentsAssumption ==
  \A s \in Segments : s \in Seq(Byte) /\ \A p \in DOMAIN s : s[p] # Slash
ASSUME LimitsAssumption == Limits \subseteq Nat
ASSUME MaxPushesAssumption == MaxPushes \in Nat

VARIABLES
  pc,         \* "build", "parse" or "end"
  pushes,     \* push_raw() calls made
  accepted,   \* history: the segments that found room in the budget
  starts,     \* history: where each of them starts in buf
  ceiling,    \* history: the most segments that the limits so far allow
  popped      \* history: what next_raw() returned

history == <<accepted, starts, ceiling, popped>>
vars == <<builder, parser, pc, pushes, history>>

Init ==
  /\ \/ BuilderNew /\ accepted = <<>> /\ starts = <<>>
     \/ \E prefix \in Segments :
          BuilderNewPrefixed(prefix) /\ accepted = <<prefix>> /\ starts = <<0>>
  /\ ParserNew(<<>>)
  /\ pc = "build"
  /\ pushes = 0
  /\ ceiling = UsizeMax
  /\ popped = <<>>

Push(s) ==
  /\ pc = "build"
  /\ pushes < MaxPushes
  /\ PushRaw(s)
  /\ pushes' = pushes + 1
  /\ IF budget > 0
     THEN accepted' = Append(accepted, s) /\ starts' = Append(starts, NextStart)
     ELSE UNCHANGED <<accepted, starts>>
  /\ UNCHANGED <<parser, pc, ceiling, popped>>

Limit(n) ==
  /\ pc = "build"
  /\ LimitSegments(n)
  /\ ceiling' = IF segments_written + n < ceiling THEN segments_written + n ELSE ceiling
  /\ UNCHANGED <<parser, pc, pushes, accepted, starts, popped>>

\* Builder::done() and Parser::new()
Done ==
  /\ pc = "build"
  /\ pc' = "parse"
  /\ ParserCreate(buf)
  /\ UNCHANGED <<builder, pushes, history>>

Read ==
  /\ pc = "parse"
  /\ NextRaw
  /\ popped' = IF Exhausted THEN popped ELSE Append(popped, Element)
  /\ UNCHANGED <<builder, pc, pushes, accepted, starts, ceiling>>

Finish ==
  /\ pc = "parse"
  /\ ParserDone
  /\ pc' = "end"
  /\ UNCHANGED <<builder, pushes, history>>

Next ==
  \/ \E s \in Segments : Push(s)
  \/ \E n \in Limits : Limit(n)
  \/ Done \/ Read \/ Finish

Spec == Init /\ [][Next]_vars

-----------------------------------------------------------------------------
\* Every variable has its type; the budget of push_raw() never goes below zero,
\* where a usize would wrap (builder.rs:54-58).
TypeOK ==
  /\ BuilderTypeOK
  /\ ParserTypeOK
  /\ pc \in {"build", "parse", "end"}
  /\ pushes \in 0 .. MaxPushes
  /\ accepted \in Seq(Segments)
  /\ starts \in Seq(Nat)
  /\ ceiling \in 0 .. UsizeMax
  /\ popped \in Seq(Seq(Byte))

\* What a reader of the text must find: the accepted segments, or one empty
\* segment when there are none, because "" splits into one element.
Written == IF accepted = <<>> THEN << <<>> >> ELSE accepted

\* next_raw() gives back the segments in order, whatever is in them but a '/',
\* the empty one included (builder.rs:54-66, parser.rs:72-86).
ReadsBack == IsPrefix(popped, Written)

\* done() accepts exactly when every segment was read (parser.rs:144-156).
DoneIsExact == pc = "end" => (IsOk(ret) <=> popped = Written)

\* No order of limit_segments() and pushes gets past the tightest limit, and a
\* builder stops early only for it (builder.rs:40-49).
WithinCeiling ==
  /\ segments_written = Len(accepted)
  /\ segments_written + budget = ceiling

\* Segment k lies in the text from offset offsets[k] on, one '/' before the
\* next one, and the last ends the text.
LaidOut(text, segments, offsets) ==
  LET stop(k) == offsets[k] + Len(segments[k])
  IN  /\ Len(offsets) = Len(segments)
      /\ offsets[1] = 0
      /\ stop(Len(segments)) = Len(text)
      /\ \A k \in DOMAIN segments :
           /\ stop(k) <= Len(text)
           /\ \A p \in DOMAIN segments[k] : text[offsets[k] + p] = segments[k][p]
           /\ k > 1 => offsets[k] = stop(k - 1) + 1 /\ text[offsets[k]] = Slash

Starts == IF accepted = <<>> THEN <<0>> ELSE starts

\* The inductive invariant, first part: the accepted segments are laid out in
\* the buffer (builder.rs:54-66).
Layout == Len(starts) = Len(accepted) /\ LaidOut(buf, Written, Starts)

\* Second part: the iterator stands where the first segment not yet read starts.
Reading ==
  /\ pc = "build" => popped = <<>>
  /\ Len(popped) <= Len(Written)
  /\ \A k \in DOMAIN popped : popped[k] = Written[k]
  /\ pc = "parse" =>
       /\ str_key = buf
       /\ at = IF Len(popped) = Len(Written) THEN Len(buf) + 1 ELSE Starts[Len(popped) + 1]

\* Both together: what the client has put in the buffer is what the reader finds
\* at the iterator's position (builder.rs:54-66, parser.rs:72-86).
FramingInv == Layout /\ Reading

\* The queue that a client of both sees.
Queue == INSTANCE SegmentQueue WITH
  Unlimited <- UsizeMax,
  open <- pc = "build",
  room <- budget,
  sent <- IF pc = "build" THEN accepted ELSE Written,
  recv <- popped,
  verdict <- IF pc # "end" THEN "none" ELSE IF IsOk(ret) THEN "complete" ELSE "more"

\* Builder and Parser together implement a queue of segments (builder.rs:12-84,
\* parser.rs:10-28, 72-86, 144-156).
ImplementsQueue == Queue!Spec
=============================================================================
