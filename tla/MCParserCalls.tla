--------------------------- MODULE MCParserCalls ---------------------------
(***************************************************************************)
(* ParserCalls on every text of at most four bytes over '/', 'a', '%', '7' *)
(* and the two bytes of 'é': one to five elements, empty ones, numbers,    *)
(* broken escapes, characters that a slice can split.                      *)
(***************************************************************************)
EXTENDS ParserCalls

MCSources == {s \in BoundedSeq({47, 97, 37, 55, 195, 169}, 4) : Utf8(s)}
MCLiterals == {<<>>, <<97>>}
=============================================================================
