----------------------------- MODULE CellTextMC -----------------------------
(* The lines of small cells. *)
EXTENDS CellText

Written(indent, head, marks) == [indent |-> indent, head |-> head, marks |-> marks]

\* Declarations whose header ends on its line or does not, the rest of such a
\* header, an import over several lines, a comptime statement with a suite,
\* indented and blank lines.
MCLines ==
  { Written(0, "declaration", <<"open", "colon", "close", "colon">>),
    Written(0, "declaration", <<"open", "hash", "close">>),
    Written(0, "other", <<"close", "colon">>),
    Written(0, "statement", <<"open">>),
    Written(0, "statement", <<"colon">>),
    Written(0, "statement", <<"close">>),
    Written(0, "declaration", <<"colon", "open">>),
    Written(0, "import", <<>>),
    Written(0, "comment", <<"hash", "colon">>),
    Written(0, "other", <<>>),
    Written(0, "blank", <<>>),
    Written(1, "other", <<"close">>),
    Written(1, "declaration", <<"colon">>),
    Written(1, "blank", <<>>) }
=============================================================================
