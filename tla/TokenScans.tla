----------------------------- MODULE TokenScans -----------------------------
(***************************************************************************)
(* What src/compiler/InteractiveParser.cpp finds out about a cell from its *)
(* tokens before the cell is wrapped: whether it is complete               *)
(* (checkCompleteness), which variables it declares at its top level       *)
(* (findTopLevelVariables), and which expression ends it                   *)
(* (findTrailingStatement, findTrailingExpression). A behaviour is one of  *)
(* the three scans of one cell.                                            *)
(*                                                                         *)
(* A token is its kind, whether it is the first of its line, and the       *)
(* indentation of such a token. The lexer gives the indentation of every   *)
(* first token of a line, also in brackets: the scans keep the brackets    *)
(* themselves. The spelling of an identifier is its kind.                  *)
(***************************************************************************)
EXTENDS Integers, SequencesExt

CONSTANTS
  Cells,   \* the sequences of tokens that are scanned
  Names    \* the identifiers

Opening == {"(", "["}

ClosingOf == [bracket \in Opening |-> IF bracket = "(" THEN ")" ELSE "]"]

Closing == {ClosingOf[bracket] : bracket \in Opening}

\* "operator" is every kind of requiresFollowingToken, "header" the keyword of a
\* control flow statement.
Kinds == Opening \union Closing \union Names
           \union {";", "var", "operator", "error", "header"}

Token == [kind : Kinds, starts : BOOLEAN, indent : Nat]

ASSUME CellsAssumption ==
  /\ Names \intersect (Opening \union Closing
       \union {";", "var", "operator", "error", "header"}) = {}
  /\ Cells \subseteq Seq(Token)
  /\ \A c \in Cells : c # <<>> => c[1].starts

VARIABLES
  tokens,           \* the cell
  scan,             \* which scan it is
  returned,         \* it has returned
  at,               \* the token that the lexer is at
  open,             \* the stack of open brackets
  lineIndent,       \* completeness: the indentation of the last line,
  invalid,          \* a bracket was closed that was not open
  verdict,          \* and what the scan returned
  baseIndent,       \* the smallest indentation, -1 before it is measured
  statementAtBase,  \* variables: the line begins at the base indentation,
  afterSemicolon,   \* the token follows a semicolon,
  expectName,       \* the token follows var
  variables,        \* and the variables found
  statement         \* the token that the last statement begins with, or 0

completeness == <<lineIndent, invalid, verdict>>
declared == <<statementAtBase, afterSemicolon, expectName, variables>>
scanVars == <<tokens, scan, returned, at, open, completeness, baseIndent, declared,
              statement>>

ScanInit ==
  /\ tokens \in Cells /\ scan \in {"completeness", "variables", "trailing"}
  /\ returned = FALSE /\ at = 1 /\ open = <<>>
  /\ lineIndent = 0 /\ invalid = FALSE
  /\ verdict = [status |-> "Complete", indent |-> 0]
  /\ baseIndent = -1
  /\ statementAtBase = FALSE /\ afterSemicolon = FALSE /\ expectName = FALSE
  /\ variables = <<>> /\ statement = 0

Eof == at > Len(tokens)

token == tokens[at]

Closes(stack, kind) == stack # <<>> /\ ClosingOf[Last(stack)] = kind

-----------------------------------------------------------------------------
(* checkCompleteness *)

CheckToken ==
  /\ scan = "completeness" /\ ~Eof
  /\ lineIndent' = IF token.starts THEN token.indent ELSE lineIndent
  /\ \/ token.kind \in Opening
        /\ open' = Append(open, token.kind) /\ UNCHANGED invalid
     \/ token.kind \in Closing /\ Closes(open, token.kind)
        /\ open' = Front(open) /\ UNCHANGED invalid
     \/ token.kind \in Closing /\ ~Closes(open, token.kind)
        /\ invalid' = TRUE /\ UNCHANGED open
     \/ token.kind \notin Opening \union Closing
        /\ UNCHANGED <<open, invalid>>
  /\ at' = at + 1
  /\ UNCHANGED <<tokens, scan, returned, verdict, baseIndent, declared, statement>>

LexicalError == \E i \in DOMAIN tokens : tokens[i].kind = "error"

\* Fault: an open bracket does not ask for more.
NeedsNothing == LexicalError \/ (tokens # <<>> /\ Last(tokens).kind = "operator")

NeedsMore ==
  \/ LexicalError
  \/ open # <<>>
  \/ tokens # <<>> /\ Last(tokens).kind = "operator"

ReturnVerdict ==
  /\ scan = "completeness" /\ Eof /\ ~returned /\ returned' = TRUE
  /\ verdict' = CASE invalid -> [status |-> "Invalid", indent |-> 0]
                  [] ~invalid /\ NeedsMore ->
                       [status |-> "Incomplete", indent |-> lineIndent + 2]
                  [] ~invalid /\ ~NeedsMore ->
                       [status |-> "Complete", indent |-> 0]
  /\ UNCHANGED <<tokens, scan, at, open, lineIndent, invalid, baseIndent, declared,
                 statement>>

-----------------------------------------------------------------------------
(* findTopLevelVariables and findTrailingStatement *)

LineStarts == {i \in DOMAIN tokens : tokens[i].starts}

\* The first loop of both.
MeasureIndent ==
  /\ scan \in {"variables", "trailing"} /\ ~returned /\ baseIndent = -1
  /\ \/ LineStarts = {} /\ returned' = TRUE /\ UNCHANGED baseIndent
     \/ /\ LineStarts # {}
        /\ baseIndent' = Min({tokens[i].indent : i \in LineStarts})
        /\ UNCHANGED returned
  /\ UNCHANGED <<tokens, scan, at, open, completeness, declared, statement>>

\* updateBrackets: a bracket that was not open forgets the ones that are.
Brackets(stack, kind) ==
  CASE kind \in Opening -> Append(stack, kind)
    [] kind \in Closing -> IF Closes(stack, kind) THEN Front(stack) ELSE <<>>
    [] kind \notin Opening \union Closing -> stack

AtBase(t) == t.starts /\ t.indent = baseIndent

\* Fault: brackets are not looked at.
AnywhereAtBase(t) == AtBase(t) \/ (~t.starts /\ statementAtBase)

OutsideAtBase(t) == open = <<>> /\ (AtBase(t) \/ (~t.starts /\ statementAtBase))

StatementStart == token.starts \/ afterSemicolon

ScanVariables ==
  /\ scan = "variables" /\ baseIndent # -1 /\ ~Eof
  /\ statementAtBase' = IF token.starts THEN AtBase(token) ELSE statementAtBase
  /\ expectName' = /\ ~expectName /\ token.kind = "var"
                   /\ StatementStart /\ OutsideAtBase(token)
  /\ variables' = IF expectName /\ token.kind \in Names \ Range(variables)
                    THEN Append(variables, token.kind) ELSE variables
  /\ open' = Brackets(open, token.kind)
  /\ afterSemicolon' = (open' = <<>> /\ token.kind = ";")
  /\ at' = at + 1
  /\ UNCHANGED <<tokens, scan, returned, completeness, baseIndent, statement>>

\* Fault: whatever follows a semicolon begins a statement.
TokenFollows == at < Len(tokens)

StatementFollows == at < Len(tokens) /\ ~tokens[at + 1].starts

ScanTrailing ==
  /\ scan = "trailing" /\ baseIndent # -1 /\ ~Eof
  /\ statement' = CASE open = <<>> /\ token.kind = ";" /\ StatementFollows -> at + 1
                   [] open = <<>> /\ ~(token.kind = ";" /\ StatementFollows)
                      /\ AtBase(token) -> at
                   [] OTHER -> statement
  /\ open' = Brackets(open, token.kind)
  /\ at' = at + 1
  /\ UNCHANGED <<tokens, scan, returned, completeness, baseIndent, declared>>

\* canStartTrailingExpression
CanStart == {"(", "["} \union Names

ReturnVariables ==
  /\ scan = "variables" /\ baseIndent # -1 /\ Eof
  /\ ~returned /\ returned' = TRUE
  /\ UNCHANGED <<tokens, scan, at, open, completeness, baseIndent, declared, statement>>

\* findTrailingExpression: the parser of the compiler says whether the statement
\* is an expression that ends the cell.
ReturnTrailing ==
  /\ scan = "trailing" /\ baseIndent # -1 /\ Eof
  /\ ~returned /\ returned' = TRUE
  /\ \/ statement' = 0
     \/ statement # 0 /\ tokens[statement].kind \in CanStart /\ UNCHANGED statement
  /\ UNCHANGED <<tokens, scan, at, open, completeness, baseIndent, declared>>

ScanNext ==
  \/ CheckToken \/ ReturnVerdict
  \/ MeasureIndent \/ ScanVariables \/ ReturnVariables
  \/ ScanTrailing \/ ReturnTrailing

ScanSpec == ScanInit /\ [][ScanNext]_scanVars

-----------------------------------------------------------------------------
(* What the scans are to find, said of the tokens by their positions. *)

Positions(kinds) == {i \in DOMAIN tokens : tokens[i].kind \in kinds}

Opened == Positions(Opening)
Closed == Positions(Closing)

\* The brackets nest: every closing one has an opening one of its kind to its
\* left, no two the same, and what opens between the two is closed between them.
Nests(partner) ==
  /\ \A c \in Closed : /\ partner[c] < c
                       /\ ClosingOf[tokens[partner[c]].kind] = tokens[c].kind
  /\ \A c, d \in Closed : c # d => partner[c] # partner[d]
  /\ \A c \in Closed, o \in Opened :
       partner[c] < o /\ o < c => \E d \in Closed : d < c /\ partner[d] = o

Nested == \E partner \in [Closed -> Opened] : Nests(partner)

\* Every bracket is closed as well.
WellFormed == Nested /\ Cardinality(Opened) = Cardinality(Closed)

\* In a well-formed cell: no bracket is open at a token.
Outside(i) == Cardinality({o \in Opened : o < i}) = Cardinality({c \in Closed : c < i})

LineHeads == {i \in LineStarts : Outside(i)}

HeadOf(i) == Max({j \in LineHeads : j <= i})

Base == Min({tokens[j].indent : j \in LineHeads})

StartsStatement(i) ==
  Outside(i) /\ (i \in LineHeads \/ (~tokens[i].starts /\ tokens[i - 1].kind = ";"))

\* The statements of the lines at the base indentation.
BaseStatements ==
  {i \in DOMAIN tokens : StartsStatement(i) /\ tokens[HeadOf(i)].indent = Base}

DeclaredBy(statements) ==
  {tokens[i + 1].kind : i \in {j \in statements : /\ tokens[j].kind = "var"
                                                  /\ j < Len(tokens)
                                                  /\ tokens[j + 1].kind \in Names}}

LinesInBracketsAreDeeper == \A i \in LineStarts : tokens[i].indent >= Base

BracketsEndWithTheirLine == LineHeads = LineStarts

\* No var is left without its name above another one.
VarsAreApart ==
  \A i \in DOMAIN tokens : i > 1 => ~(tokens[i - 1].kind = "var" /\ tokens[i].kind = "var")

Found(what) == returned /\ scan = what

\* What the brackets and the last token of the whole cell say.
RightVerdict ==
  LET more == \/ Cardinality(Opened) > Cardinality(Closed)
              \/ LexicalError
              \/ tokens # <<>> /\ Last(tokens).kind = "operator"
  IN  CASE ~Nested -> [status |-> "Invalid", indent |-> 0]
        [] Nested /\ more ->
             [status |-> "Incomplete",
              indent |-> 2 + IF LineStarts = {} THEN 0 ELSE tokens[Max(LineStarts)].indent]
        [] Nested /\ ~more -> [status |-> "Complete", indent |-> 0]

\* The verdict is what the brackets of the whole cell say: a cell is invalid when
\* they do not nest, and no text can mend it; otherwise it is incomplete when a
\* bracket is open or its last token needs another, and continues two columns in
\* from its last line.
VerdictIsRight == Found("completeness") => verdict = RightVerdict

\* The variables that a cell keeps for later cells are declared by statements,
\* none in brackets, and each is kept once. They are all that statements of the
\* outermost lines declare, in the cells whose brackets end with their line and
\* where no var stands alone above another (the compiler takes none of these).
VariablesAreDeclared ==
  Found("variables") /\ WellFormed =>
    /\ IsInjective(variables)
    /\ Range(variables) \subseteq DeclaredBy({i \in DOMAIN tokens : StartsStatement(i)})
    /\ BracketsEndWithTheirLine /\ VarsAreApart =>
         Range(variables) = DeclaredBy(BaseStatements)

\* The expression that is displayed begins the last statement of the outermost
\* lines, in the cells that separate no statements of a suite by a semicolon and
\* whose lines in brackets are not indented less than those.
LastStatementIsDisplayed ==
  /\ Found("trailing") /\ statement # 0 /\ WellFormed /\ LinesInBracketsAreDeeper
  /\ \A i \in DOMAIN tokens : StartsStatement(i) =>
       i \in LineHeads \/ tokens[HeadOf(i)].indent = Base
  => statement = Max(BaseStatements)

=============================================================================
