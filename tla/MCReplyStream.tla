--------------------------- MODULE MCReplyStream ----------------------------
(* Instances of ReplyStream for TLC.                                       *)
EXTENDS ReplyStream

Ev(what, index, lines) == [what |-> what, index |-> index, lines |-> lines]

\* Text around two calls whose fragments alternate, one event of two lines; a
\* call past the table, something that is no JSON; a reply without an end marker.
ScriptSet == {
    <<Ev("text", 0, 1), Ev("call", 1, 1), Ev("call", 0, 2), Ev("call", 1, 1),
      Ev("usage", 0, 1), Ev("done", 0, 1)>>,
    <<Ev("junk", 0, 1), Ev("text", 0, 2), Ev("call", 2, 1), Ev("call", 0, 1), Ev("done", 0, 2)>>,
    <<Ev("text", 0, 2), Ev("text", 0, 1), Ev("call", 0, 1), Ev("call", 0, 1)>>}
=============================================================================
