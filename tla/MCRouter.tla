------------------------------ MODULE MCRouter ------------------------------
(* Two requests at once for routes of one path, for TLC.                   *)
EXTENDS Router

(* One row of a table, by method.                                          *)
OneRow == { <<"/", "a", "/", ":x">> }

(* Paths of up to three segments, of which the second may be empty.        *)
Path(segments) == FlattenSeq([i \in DOMAIN segments |-> <<"/">> \o segments[i]])
First == { <<"a">>, <<"b">>, <<"a", "b">> }
MCPaths ==
  { <<"/">> } \cup {Path(<<s>>) : s \in First}
  \cup {Path(<<s, t>>) : s \in First, t \in {<<>>, <<"a">>, <<"b">>}}
  \cup {Path(<<s, t, <<"b">> >>) : s \in First, t \in {<<>>, <<"a">>, <<"b">>}}
=============================================================================
