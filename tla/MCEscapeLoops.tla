--------------------------- MODULE MCEscapeLoops ---------------------------
(***************************************************************************)
(* EscapeLoops on short texts: strings of at most three bytes over '%',    *)
(* '2', ''', 'a', '/' and the two bytes of 'é'; texts of at most four over *)
(* '%', '2', '7', 'G', 'C', '3' and the bytes of 'é', so that "%27", "%2", *)
(* "%%27", "%2G", "%C3" (not UTF-8), "%é2" and upper case hex all occur.   *)
(***************************************************************************)
EXTENDS EscapeLoops

MCStrings == {s \in BoundedSeq({37, 50, 39, 97, 47, 195, 169}, 3) : Utf8(s)}
MCCoded == {s \in BoundedSeq({37, 50, 55, 71, 67, 51, 195, 169}, 4) : Utf8(s)}

\* Sets of ASCII characters.
AsciiSets == {{}, {39}, {37, 39}, {37, 47}, {50, 37}}
\* Sets with one byte of 'é' as well.
ByteSets == AsciiSets \cup {{195}, {37, 169}, {195, 169}}
=============================================================================
