---------------------------- MODULE TokenScansMC ----------------------------
(* The tokens of small cells. *)
EXTENDS TokenScans

Tok(kind) == [kind |-> kind, starts |-> FALSE, indent |-> 0]
TokAt(indent, kind) == [kind |-> kind, starts |-> TRUE, indent |-> indent]

\* Statements and pieces of statements. Three of them make a cell: lists of
\* statements, suites on their header's line and below it, brackets over several
\* lines, one of them indented less than its statement, brackets that do not
\* nest, and texts that end too early.
Phrases ==
  { <<TokAt(0, "x")>>, <<TokAt(0, "var"), Tok("x")>>, <<TokAt(1, "var"), Tok("y")>>,
    <<TokAt(1, "x"), Tok(";"), Tok("y")>>, <<TokAt(0, "header"), Tok("x")>>,
    <<TokAt(1, "header")>>,
    <<TokAt(0, "var")>>, <<Tok(";")>>, <<Tok("var"), Tok("y")>>, <<Tok("y")>>,
    <<TokAt(0, "("), TokAt(1, "x"), Tok(")")>>,
    <<TokAt(1, "["), TokAt(0, "var"), Tok("x"), Tok("]")>>,
    <<Tok("("), Tok("x"), Tok(";"), Tok("var"), Tok("x"), Tok(")")>>,
    <<Tok("[")>>, <<Tok(")")>>, <<Tok("operator")>>, <<Tok("error")>> }

Brackets5 == UNION {[1..n -> {Tok(k) : k \in Opening \union Closing}] : n \in 1..5}

Pieces == UNION {{FlattenSeq(p) : p \in [1..n -> Phrases]} : n \in 1..3}

MCCells ==
  {[c EXCEPT ![1].starts = TRUE] : c \in Pieces \union Brackets5} \union {<<>>}
=============================================================================
