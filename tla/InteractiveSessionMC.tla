------------------------ MODULE InteractiveSessionMC ------------------------
(***************************************************************************)
(* Small instances of InteractiveSession. A cell is written as its         *)
(* variables and its top-level declarations.                               *)
(***************************************************************************)
EXTENDS InteractiveSession

MCNames      == {"a", "b", "f"}
MCTypes      == {"Int", "String", "Span"}
MCBorrowed   == {"Span"}
MCSignatures == {"()", "(Int)"}

Var(name, type)            == [name |-> name, type |-> type, first |-> type]
Shadowed(name, type, first) == [name |-> name, type |-> type, first |-> first]
Decl(name, sig)            == [name |-> name, sig |-> sig]

CellOf(variables, decls) ==
  [vars |-> variables, decls |-> decls, returns |-> FALSE]

\* One and two variables, a second type for a name, an overload, a struct
\* that takes the name of a function, a borrowed value, and a cell that may
\* return from its top level before its epilogue.
MCSources ==
  { CellOf(<<>>, {Decl("f", "()")}),
    CellOf(<<Var("b", "String")>>, {Decl("f", "(Int)")}),
    CellOf(<<Var("a", "String"), Var("b", "Int")>>, {}),
    CellOf(<<Var("a", "Int")>>, {Decl("f", NonFunction)}),
    [CellOf(<<Var("a", "Int"), Var("b", "Int")>>, {}) EXCEPT !.returns = TRUE],
    CellOf(<<Var("a", "Int"), Var("b", "Span")>>, {}) }

\* A cell with a variable of a nested scope before the top-level one.
ShadowingSources ==
  { CellOf(<<Shadowed("a", "Int", "String")>>, {}),
    CellOf(<<Var("b", "Int")>>, {Decl("f", "()")}) }
=============================================================================
