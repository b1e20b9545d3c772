----------------------------- MODULE MCKeySpace -----------------------------
(***************************************************************************)
(* KeySpace on keys around one directory: its siblings by name, among them *)
(* names with the bytes next to '/', the directory as a key, empty         *)
(* segments, and a prefix that another one starts.                         *)
(***************************************************************************)
EXTENDS KeySpace

K(prefix, segments) == [prefix |-> prefix, segments |-> segments]

\* "p/a/a/a", "p/a", "p/a//", "p/a-/a", "p/a0/a", "p", "p0/a/a"
MCKeys ==
  {K(<<112>>, <<<<97>>, <<97>>, <<97>>>>), K(<<112>>, <<<<97>>>>),
   K(<<112>>, <<<<97>>, <<>>, <<>>>>), K(<<112>>, <<<<97, 45>>, <<97>>>>),
   K(<<112>>, <<<<97, 48>>, <<97>>>>), K(<<112>>, <<>>), K(<<112, 48>>, <<<<97>>, <<97>>>>)}
=============================================================================
