----------------------------- MODULE MCFraming -----------------------------
(***************************************************************************)
(* Framing with four pushes of segments of up to two bytes: "", "a", "aa", *)
(* "%" and "a%"; limits 0, 1 and 2; a usize::MAX of 5, which four pushes   *)
(* and a prefix use up.                                                    *)
(***************************************************************************)
EXTENDS Framing

MCSegments == {<<>>, <<97>>, <<97, 97>>, <<37>>, <<97, 37>>}
=============================================================================
