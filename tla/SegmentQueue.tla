---------------------------- MODULE SegmentQueue ----------------------------
(***************************************************************************)
(* What Builder and Parser promise together: a queue of segments.  The     *)
(* writer puts segments while it has room, the reader takes them out in    *)
(* the same order, and its last call says whether all were taken.          *)
(*                                                                         *)
(* A closed queue is never empty: a text always splits into at least one   *)
(* element, so a writer that put nothing sends one empty segment.          *)
(***************************************************************************)
EXTENDS Integers, Sequences

CONSTANTS Segments,    \* what may be put
          Unlimited    \* the room of a new queue

VARIABLES open, room, sent, recv, verdict

vars == <<open, room, sent, recv, verdict>>

Init ==
  /\ open = TRUE
  /\ \/ sent = <<>> /\ room = Unlimited
     \/ \E s \in Segments : sent = <<s>> /\ room = Unlimited - 1
  /\ recv = <<>>
  /\ verdict = "none"

Put(s) ==
  /\ open
  /\ room > 0
  /\ room' = room - 1
  /\ sent' = Append(sent, s)
  /\ UNCHANGED <<open, recv, verdict>>

Cap(n) ==
  /\ open
  /\ room' = n
  /\ UNCHANGED <<open, sent, recv, verdict>>

Close ==
  /\ open
  /\ open' = FALSE
  /\ sent' = IF sent = <<>> THEN << <<>> >> ELSE sent
  /\ UNCHANGED <<room, recv, verdict>>

Take ==
  /\ ~ open
  /\ verdict = "none"
  /\ Len(recv) < Len(sent)
  /\ recv' = Append(recv, sent[Len(recv) + 1])
  /\ UNCHANGED <<open, room, sent, verdict>>

Finish ==
  /\ ~ open
  /\ verdict = "none"
  /\ verdict' = IF recv = sent THEN "complete" ELSE "more"
  /\ UNCHANGED <<open, room, sent, recv>>

Next ==
  \/ \E s \in Segments : Put(s)
  \/ \E n \in 0 .. room - 1 : Cap(n)
  \/ Close \/ Take \/ Finish

Spec == Init /\ [][Next]_vars
=============================================================================
