------------------------------ MODULE CellText ------------------------------
(***************************************************************************)
(* wrapCell, partitionCell, emitMappedLine and CellSourceMap of            *)
(* src/compiler/InteractiveParser.cpp: the lines of a cell are divided     *)
(* into module declarations and a body, and written into a wrapper         *)
(* function with a map that leads from the wrapper back to the cell.       *)
(*                                                                         *)
(* A line is its indentation, what it begins with, and its brackets,       *)
(* colons and comment signs; the rest of its text is TextLength long. Each *)
(* text that the wrapper adds is one character long. Brackets are counted  *)
(* in the integers: a count below zero stands for one that has wrapped     *)
(* around and is as far from zero.                                         *)
(***************************************************************************)
EXTENDS Integers, SequencesExt

CONSTANTS
  Lines,       \* the lines that cells are made of
  TextLength,  \* the length of a line's text
  MaxLines     \* bound: the lines of a cell

Heads == {"declaration", "statement", "import", "comment", "other", "blank"}

Marks == {"open", "close", "colon", "hash"}

Line == [indent : Nat, head : Heads, marks : Seq(Marks)]

ASSUME TextAssumption ==
  /\ Lines \subseteq Line
  /\ TextLength \in Nat \ {0} /\ MaxLines \in Nat

VARIABLES
  lines,          \* the cell
  line,           \* the next line to place
  pc,             \* where the wrapping is
  declaration,    \* the statement being taken is a declaration
  openings,       \* its open brackets
  requiresColon,  \* its header has not ended yet
  topLevel,       \* the lines that were placed in the module,
  body,           \* and in the wrapper function
  trailing,       \* the trailing expression
  emitted,        \* how many lines of the body, or of the module, are written
  output,         \* the wrapper
  mappings        \* CellSourceMap

partition == <<line, declaration, openings, requiresColon, topLevel, body>>
wrapper == <<trailing, emitted, output, mappings>>
vars == <<lines, pc, partition, wrapper>>

\* A place in the cell; places in what the wrapper adds are on line zero.
Place(l, column) == [line |-> l, column |-> column]

Added == Place(0, 0)
DisplayBegin == Place(0, 1)
DisplayEnd == Place(0, 2)

NoExpression == [start |-> Added, end |-> Added]

Init ==
  /\ lines \in UNION {[1..n -> Lines] : n \in 1..MaxLines}
  /\ pc = "split" /\ line = 1
  /\ declaration = FALSE /\ openings = 0 /\ requiresColon = FALSE
  /\ topLevel = <<>> /\ body = <<>>
  /\ trailing = NoExpression /\ emitted = 0 /\ output = <<>> /\ mappings = <<>>

-----------------------------------------------------------------------------
(* Lines. *)

Empty(l) == l.indent = 0 /\ l.head = "blank"

Size(l) == l.indent + (IF l.head = "blank" THEN 0 ELSE TextLength)

\* starts_with sees the indentation first.
StartsWith(l, head) == l.indent = 0 /\ l.head = head

IsDeclaration(l) == StartsWith(l, "declaration")

\* What takeTopLevelStatement takes: a decorator, from, alias and comptime are
\* the other statements.
StartsTopLevel(l) == IsDeclaration(l) \/ StartsWith(l, "statement")

\* Fault: a blank line ends a declaration.
IndentedLine(l) == l.indent > 0 \/ StartsWith(l, "comment")

SuiteLine(l) == Empty(l) \/ l.indent > 0 \/ StartsWith(l, "comment")

\* The smallest indentation of the lines that are not empty.
CommonIndent ==
  LET indents == {lines[i].indent : i \in {j \in DOMAIN lines : ~Empty(lines[j])}}
  IN  IF indents = {} THEN 0 ELSE Min(indents)

\* What one more mark of a line says of the brackets and of the header.
AddMark(s, mark) ==
  CASE s.ended -> s
    [] ~s.ended /\ mark = "hash" -> [s EXCEPT !.ended = TRUE]
    [] ~s.ended /\ mark = "open" -> [s EXCEPT !.openings = @ + 1]
    [] ~s.ended /\ mark = "close" -> [s EXCEPT !.openings = @ - 1]
    [] ~s.ended /\ mark = "colon" ->
         IF s.openings = 0 THEN [s EXCEPT !.requiresColon = FALSE, !.ended = TRUE] ELSE s

\* Whether every bracket is closed and the header has ended, after one more line.
Scanned(marks) ==
  LET scan[n \in 0..Len(marks)] ==
        IF n = 0
          THEN [openings |-> openings, requiresColon |-> requiresColon, ended |-> FALSE]
          ELSE AddMark(scan[n - 1], marks[n])
  IN  scan[Len(marks)]

-----------------------------------------------------------------------------
(* partitionCell *)

Split ==
  /\ pc = "split" /\ pc' = "next"
  /\ lines' = [i \in DOMAIN lines |->
                 IF Empty(lines[i]) THEN lines[i]
                 ELSE [lines[i] EXCEPT !.indent = @ - CommonIndent]]
  /\ UNCHANGED <<partition, wrapper>>

TakeTopLevelStatement ==
  /\ pc = "next" /\ line <= Len(lines) /\ StartsTopLevel(lines[line])
  /\ declaration' = IsDeclaration(lines[line])
  /\ openings' = 0 /\ requiresColon' = IsDeclaration(lines[line])
  /\ pc' = "header"
  /\ UNCHANGED <<lines, line, topLevel, body, wrapper>>

HeaderEnds(s) == (s.openings = 0 /\ ~s.requiresColon) \/ line = Len(lines)

TakeHeaderLine ==
  /\ pc = "header"
  /\ topLevel' = Append(topLevel, line) /\ line' = line + 1
  /\ LET s == Scanned(lines[line].marks)
     IN  /\ openings' = s.openings /\ requiresColon' = s.requiresColon
         /\ \/ HeaderEnds(s) /\ pc' = "suite"
            \/ ~HeaderEnds(s) /\ UNCHANGED pc
  /\ UNCHANGED <<lines, declaration, body, wrapper>>

TakeSuiteLine ==
  /\ pc = "suite" /\ declaration
  /\ line <= Len(lines) /\ SuiteLine(lines[line])
  /\ topLevel' = Append(topLevel, line) /\ line' = line + 1
  /\ UNCHANGED <<lines, pc, declaration, openings, requiresColon, body, wrapper>>

\* Fault: the line that ends the suite is passed over.
PassedOver == Min({line + 1, Len(lines) + 1})

Resume == line

EndSuite ==
  /\ pc = "suite" /\ pc' = "next"
  /\ \/ ~declaration
     \/ line > Len(lines)
     \/ line <= Len(lines) /\ ~SuiteLine(lines[line])
  /\ line' = Resume
  /\ UNCHANGED <<lines, declaration, openings, requiresColon, topLevel, body,
                 wrapper>>

\* Fault: only the lines that are placed are passed.
NextIfPlaced == IF Empty(lines[line]) THEN line ELSE line + 1

NextLine == line + 1

PlaceLine ==
  /\ pc = "next" /\ line <= Len(lines) /\ ~StartsTopLevel(lines[line])
  /\ line' = NextLine
  /\ \/ /\ StartsWith(lines[line], "import")
        /\ topLevel' = Append(topLevel, line) /\ UNCHANGED body
     \/ /\ ~StartsWith(lines[line], "import") /\ ~Empty(lines[line])
        /\ body' = Append(body, line) /\ UNCHANGED topLevel
     \/ /\ Empty(lines[line])
        /\ UNCHANGED <<topLevel, body>>
  /\ UNCHANGED <<lines, pc, declaration, openings, requiresColon, wrapper>>

-----------------------------------------------------------------------------
(* wrapCell *)

Before(p, q) ==
  p.line < q.line \/ (p.line = q.line /\ p.column < q.column)

\* The lines of the wrapper.
Placed == Range(topLevel) \union Range(body)

\* findTrailingExpression says where the expression is, which the partition does
\* not know: here it is any text, of the body or of the module.
Expressions ==
  LET ends == {i \in Placed : lines[i].head \notin {"comment", "blank"}}
      places == UNION {{Place(i, c) : c \in lines[i].indent..Size(lines[i])} :
                         i \in ends}
  IN  {x \in [start : places, end : places] :
         /\ Before(x.start, x.end)
         /\ x.start.column < Size(lines[x.start.line])
         /\ x.end.column > lines[x.end.line].indent}

BeginWrapper ==
  /\ pc = "next" /\ line > Len(lines) /\ pc' = "body"
  /\ trailing' \in {NoExpression} \union Expressions
  /\ output' = <<Added>>
  /\ UNCHANGED <<lines, partition, emitted, mappings>>

Text(l, from, to) == [k \in 1..(to - from) |-> Place(l, from + k - 1)]

\* Fault: the offset is taken when the text has been written.
OffsetAfter(offset, size) == offset + size

OffsetBefore(offset, size) == offset

\* CellSourceMap::add
Mapping(l, from, to, offset) ==
  [line |-> l, column |-> from, size |-> to - from,
   wrappedOffset |-> OffsetBefore(offset, to - from)]

\* emitSource adds nothing for an empty text.
EmitSource(l, from, to, offset) ==
  IF from = to THEN <<>> ELSE <<Mapping(l, from, to, offset)>>

Starts(l) == trailing.start.line = l

\* Fault: an expression that ends with its line is not seen to end.
EndsWithin(l) == trailing.end.line = l /\ trailing.end.column < Size(lines[l])

Ends(l) == trailing.end.line = l

\* emitMappedLine
EmitMappedLine ==
  /\ pc = "body" /\ emitted < Len(body)
  /\ LET l     == body[emitted + 1]
         a     == IF Starts(l) THEN trailing.start.column ELSE 0
         b     == IF Ends(l) THEN trailing.end.column ELSE a
         begin == IF Starts(l) THEN <<DisplayBegin>> ELSE <<>>
         end   == IF Ends(l) THEN <<DisplayEnd>> ELSE <<>>
         at    == Len(output) + 1
     IN  /\ output' = output \o <<Added>> \o Text(l, 0, a) \o begin
                        \o Text(l, a, b) \o end \o Text(l, b, Size(lines[l]))
                        \o <<Added>>
         /\ mappings' = mappings \o
              EmitSource(l, 0, a, at)
              \o EmitSource(l, a, b, at + a + Len(begin))
              \o EmitSource(l, b, Size(lines[l]), at + b + Len(begin) + Len(end))
  /\ emitted' = emitted + 1
  /\ UNCHANGED <<lines, pc, partition, trailing>>

\* The calls that persist variables, and the except clause.
EmitEpilogue ==
  /\ pc = "body" /\ emitted = Len(body) /\ pc' = "topLevel"
  /\ emitted' = 0 /\ output' = Append(output, Added)
  /\ UNCHANGED <<lines, partition, trailing, mappings>>

EmitTopLevelLine ==
  /\ pc = "topLevel" /\ emitted < Len(topLevel)
  /\ LET l == topLevel[emitted + 1]
     IN  /\ mappings' = Append(mappings,
                               Mapping(l, 0, Size(lines[l]), Len(output)))
         /\ output' = output \o Text(l, 0, Size(lines[l])) \o <<Added>>
  /\ emitted' = emitted + 1
  /\ UNCHANGED <<lines, pc, partition, trailing>>

\* The imports of the wrapper.
EndWrapper ==
  /\ pc = "topLevel" /\ emitted = Len(topLevel) /\ pc' = "done"
  /\ output' = Append(output, Added)
  /\ UNCHANGED <<lines, partition, trailing, emitted, mappings>>

Next ==
  \/ Split \/ TakeTopLevelStatement \/ TakeHeaderLine \/ TakeSuiteLine
  \/ EndSuite \/ PlaceLine
  \/ BeginWrapper \/ EmitMappedLine \/ EmitEpilogue \/ EmitTopLevelLine
  \/ EndWrapper

Spec == Init /\ [][Next]_vars

LiveSpec == Spec /\ WF_vars(Next)

-----------------------------------------------------------------------------
(* Properties. *)

\* CellSourceMap::mapLocation, of an offset that counts from zero.
MapLocation(offset) ==
  LET hits == {i \in DOMAIN mappings :
                 offset \in mappings[i].wrappedOffset
                            ..(mappings[i].wrappedOffset + mappings[i].size)}
  IN  IF hits = {} THEN Added
      ELSE LET m == mappings[Min(hits)]
           IN  Place(m.line, m.column + offset - m.wrappedOffset)

Growing(s) == \A i, j \in DOMAIN s : i < j => s[i] < s[j]

\* Every line that is not empty is placed once, in the module or in the body, and
\* each of the two keeps the order of the cell.
LinesArePlaced ==
  /\ Growing(topLevel) /\ Growing(body)
  /\ Range(topLevel) \intersect Range(body) = {}
  /\ \A i \in 1..(line - 1) : Empty(lines[i]) \/ i \in Placed

\* The brackets that a line leaves open, or closes.
Balance(l) ==
  LET hashes == {k \in DOMAIN l.marks : l.marks[k] = "hash"}
      text   == {k \in DOMAIN l.marks : \A h \in hashes : k < h}
  IN  Cardinality({k \in text : l.marks[k] = "open"})
        - Cardinality({k \in text : l.marks[k] = "close"})

\* The brackets that the lines from k to before i leave open.
LeftOpen(k, i) ==
  LET sum[n \in k..i] == IF n = k THEN 0 ELSE sum[n - 1] + Balance(lines[n - 1])
  IN  sum[i]

\* The brackets of a module statement that begins before line i are not closed
\* there, or more than that.
InBrackets(i) == \E k \in 1..(i - 1) : StartsTopLevel(lines[k]) /\ LeftOpen(k, i) # 0

\* An indented line goes where the closest line before it that is not indented
\* goes, if that begins a declaration or is in the body. A declaration in
\* brackets is none.
SuitesStayTogether ==
  \A i \in 1..(line - 1) :
    LET heads == {j \in 1..(i - 1) : /\ lines[j].indent = 0 /\ ~Empty(lines[j])
                                     /\ ~StartsWith(lines[j], "comment")}
        head  == Max(heads)
    IN  lines[i].indent > 0 /\ heads # {} /\ pc # "split" =>
          /\ IsDeclaration(lines[head]) /\ ~InBrackets(head) =>
               i \in Range(topLevel)
          /\ head \in Range(body) => i \in Range(body)

\* A place in the wrapper leads back to the place in the cell that it was copied
\* from.
MapsBack ==
  \A o \in 1..Len(output) :
    output[o].line # 0 => MapLocation(o - 1) = output[o]

\* The trailing expression begins and ends in the body.
InBody ==
  /\ trailing # NoExpression
  /\ trailing.start.line \in Range(body) /\ trailing.end.line \in Range(body)

\* What the wrapper displays is the trailing expression, all of it, if it is in the
\* body: the text of the module is copied as it is.
ExpressionIsDisplayed ==
  pc \in {"topLevel", "done"} /\ InBody =>
    \E p, q \in 1..Len(output) :
      /\ output[p] = DisplayBegin /\ output[q] = DisplayEnd
      /\ \A o \in 1..Len(output) :
           /\ output[o].line # 0 /\ output[o].line \in Range(body) =>
                (p < o /\ o < q <=> /\ ~Before(output[o], trailing.start)
                                    /\ Before(output[o], trailing.end))
           /\ output[o] = DisplayBegin => o = p
           /\ output[o] = DisplayEnd => o = q

\* Every cell, whatever its brackets, is wrapped in the end.
WrappingEnds == <>(pc = "done")
=============================================================================
