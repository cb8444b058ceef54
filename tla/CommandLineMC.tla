--------------------------- MODULE CommandLineMC ----------------------------
(* Short command lines, and short inputs for the REPL. *)
EXTENDS CommandLine

MCSources == {[decls |-> {"f"}, vars |-> <<[name |-> "a", type |-> "Int"]>>]}

MCShadow(scope_, decls, n) == scope_ \union decls

SeqsUpTo(S, n) == UNION {[1..k -> S] : k \in 0..n}

MCCommandLines == SeqsUpTo(Words, 3)

MCInputs == SeqsUpTo(Lines, 4)
=============================================================================
