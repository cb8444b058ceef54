-------------------------- MODULE CellTextProofs --------------------------
(***************************************************************************)
(* What becomes of the text of a cell, for cells of any lines and any      *)
(* length: no line is lost, placed twice or moved before an earlier one,   *)
(* indented lines stay with the line they belong to, the source map leads  *)
(* from the wrapper back to the cell, and the wrapper displays the         *)
(* trailing expression and nothing else.                                   *)
(*                                                                         *)
(* And what the scans of its tokens return, for any tokens: the right      *)
(* verdict, the last statement, and the declared variables.                *)
(***************************************************************************)
EXTENDS CellText, TokenScans,
        SequenceTheorems, FiniteSetTheorems, WellFoundedInduction, TLAPS

\* Lines are placed from the first to the last, and none is left when the
\* wrapper begins.
InOrder ==
  /\ lines \in Seq(Range(lines))
  /\ line \in 1..(Len(lines) + 1)
  /\ pc = "split" => line = 1
  /\ pc = "header" => line <= Len(lines)
  /\ topLevel \in Seq(1..(line - 1)) /\ body \in Seq(1..(line - 1))

Inv == InOrder /\ LinesArePlaced

-----------------------------------------------------------------------------
\* Appending a line that is past all others.
LEMMA AppendGrows ==
  ASSUME NEW n \in Nat \ {0}, NEW s \in Seq(1..(n - 1)), Growing(s)
  PROVE  /\ Append(s, n) \in Seq(1..(n + 1 - 1))
         /\ Growing(Append(s, n))
         /\ Range(Append(s, n)) = Range(s) \union {n}
         /\ n \notin Range(s)
<1> DEFINE t == Append(s, n)
<1>1. s \in Seq(1..n)
  OBVIOUS
<1>2. t \in Seq(1..n) /\ Len(t) = Len(s) + 1 /\ t[Len(s) + 1] = n
  BY <1>1
<1>3. \A i \in 1..Len(s) : t[i] = s[i] /\ s[i] \in 1..(n - 1)
  OBVIOUS
<1>4. Len(s) \in Nat /\ DOMAIN s = 1..Len(s) /\ DOMAIN t = 1..(Len(s) + 1)
  BY <1>2
<1>5. Growing(t)
  BY <1>2, <1>3, <1>4 DEF Growing
<1>6. Range(t) = Range(s) \union {n}
  <2>1. \A x : x \in Range(t) <=> \E i \in 1..(Len(s) + 1) : x = t[i]
    BY <1>4 DEF Range
  <2>2. \A x : x \in Range(s) <=> \E i \in 1..Len(s) : x = s[i]
    BY <1>4 DEF Range
  <2> HIDE DEF t
  <2>3. ASSUME NEW x \in Range(t) PROVE x \in Range(s) \union {n}
    BY <2>1, <2>2, <2>3, <1>2, <1>3, <1>4
  <2>4. ASSUME NEW x \in Range(s) \union {n} PROVE x \in Range(t)
    BY <2>1, <2>2, <2>4, <1>2, <1>3, <1>4
  <2> QED
    BY <2>3, <2>4
<1>7. n \notin Range(s)
  BY <1>3, <1>4 DEF Range
<1> QED
  BY <1>2, <1>5, <1>6, <1>7

\* A function of the numbers up to n is a sequence.
LEMMA IsSequence ==
  ASSUME NEW n \in Nat, NEW f, f = [i \in 1..n |-> f[i]]
  PROVE  f \in Seq(Range(f)) /\ Len(f) = n
<1>1. f \in [1..n -> Range(f)]
  BY DEF Range
<1> QED
  BY <1>1

-----------------------------------------------------------------------------
LEMMA InitInv == Init => Inv
<1> SUFFICES ASSUME Init PROVE Inv
  OBVIOUS
<1>1. PICK n \in 1..MaxLines : lines \in [1..n -> Lines]
  BY DEF Init
<1>2. n \in Nat /\ n >= 1
  BY TextAssumption
<1>3. lines = [i \in 1..n |-> lines[i]]
  BY <1>1
<1>4. lines \in Seq(Range(lines)) /\ Len(lines) = n
  BY <1>2, <1>3, IsSequence
<1>5. InOrder
  BY <1>2, <1>4 DEF Init, InOrder
<1>6. LinesArePlaced
  BY DEF Init, LinesArePlaced, Growing, Range
<1> QED
  BY <1>5, <1>6 DEF Inv

\* The line is placed in the module.
LEMMA PlaceInModule ==
  ASSUME Inv, line <= Len(lines), UNCHANGED <<lines, body>>,
         topLevel' = Append(topLevel, line), line' = line + 1,
         pc' # "split", pc' = "header" => line < Len(lines)
  PROVE  Inv'
<1>1. line \in Nat \ {0} /\ topLevel \in Seq(1..(line - 1))
      /\ body \in Seq(1..(line - 1)) /\ Growing(topLevel)
  BY DEF Inv, InOrder, LinesArePlaced
<1>2. /\ topLevel' \in Seq(1..(line + 1 - 1)) /\ Growing(topLevel')
      /\ Range(topLevel') = Range(topLevel) \union {line}
  BY <1>1, AppendGrows
<1>3. body \in Seq(1..(line + 1 - 1)) /\ line \notin Range(body)
  <2>1. body \in Seq(1..line)
    BY <1>1
  <2>2. \A i \in DOMAIN body : body[i] \in 1..(line - 1)
    BY <1>1
  <2> QED
    BY <1>1, <2>1, <2>2 DEF Range
<1>4. InOrder'
  BY <1>2, <1>3 DEF Inv, InOrder
<1>5. LinesArePlaced'
  BY <1>1, <1>2, <1>3 DEF Inv, InOrder, LinesArePlaced, Placed, Empty, Growing
<1> QED
  BY <1>4, <1>5 DEF Inv

\* The line is placed in the body.
LEMMA PlaceInBody ==
  ASSUME Inv, line <= Len(lines), UNCHANGED <<lines, topLevel>>,
         body' = Append(body, line), line' = line + 1, pc' = "next"
  PROVE  Inv'
<1>1. line \in Nat \ {0} /\ topLevel \in Seq(1..(line - 1))
      /\ body \in Seq(1..(line - 1)) /\ Growing(body)
  BY DEF Inv, InOrder, LinesArePlaced
<1>2. /\ body' \in Seq(1..(line + 1 - 1)) /\ Growing(body')
      /\ Range(body') = Range(body) \union {line}
  BY <1>1, AppendGrows
<1>3. topLevel \in Seq(1..(line + 1 - 1)) /\ line \notin Range(topLevel)
  <2>1. topLevel \in Seq(1..line)
    BY <1>1
  <2>2. \A i \in DOMAIN topLevel : topLevel[i] \in 1..(line - 1)
    BY <1>1
  <2> QED
    BY <1>1, <2>1, <2>2 DEF Range
<1>4. InOrder'
  BY <1>2, <1>3 DEF Inv, InOrder
<1>5. LinesArePlaced'
  BY <1>1, <1>2, <1>3 DEF Inv, InOrder, LinesArePlaced, Placed, Empty, Growing
<1> QED
  BY <1>4, <1>5 DEF Inv

\* The line is empty and left out.
LEMMA LeaveOut ==
  ASSUME Inv, line <= Len(lines), Empty(lines[line]),
         UNCHANGED <<lines, topLevel, body>>, line' = line + 1, pc' = "next"
  PROVE  Inv'
<1>1. line \in Nat \ {0} /\ topLevel \in Seq(1..(line - 1))
      /\ body \in Seq(1..(line - 1))
  BY DEF Inv, InOrder
<1>2. topLevel \in Seq(1..(line + 1 - 1)) /\ body \in Seq(1..(line + 1 - 1))
  <2>1. 1..(line - 1) \subseteq 1..line /\ line + 1 - 1 = line
    BY <1>1
  <2> QED
    BY <1>1, <2>1
<1>3. InOrder'
  BY <1>2 DEF Inv, InOrder
<1>4. LinesArePlaced'
  <2>1. /\ Growing(topLevel)' /\ Growing(body)'
        /\ (Range(topLevel) \intersect Range(body))' = {}
        /\ Placed' = Placed
    BY DEF Inv, LinesArePlaced, Growing, Range, Placed
  <2>2. ASSUME NEW i \in 1..(line' - 1) PROVE Empty(lines'[i]) \/ i \in Placed'
    <3>1. i \in 1..(line - 1) \/ i = line
      BY <1>1
    <3>2. i \in 1..(line - 1) => Empty(lines[i]) \/ i \in Placed
      BY DEF Inv, LinesArePlaced
    <3> QED
      BY <2>1, <3>1, <3>2 DEF Empty
  <2> QED
    BY <2>1, <2>2 DEF LinesArePlaced, Empty
<1> QED
  BY <1>3, <1>4 DEF Inv

\* No line is placed.
LEMMA Stay ==
  ASSUME Inv, UNCHANGED <<lines, line, topLevel, body>>,
         pc' # "split", pc' = "header" => line <= Len(lines)
  PROVE  Inv'
<1>1. InOrder'
  BY DEF Inv, InOrder, Range
<1>2. LinesArePlaced'
  BY DEF Inv, LinesArePlaced, Placed, Empty, Growing, Range
<1> QED
  BY <1>1, <1>2 DEF Inv

LEMMA NextInv == Inv /\ [Next]_vars => Inv'
<1> SUFFICES ASSUME Inv, [Next]_vars PROVE Inv'
  OBVIOUS
<1>1. CASE Split
  <2> DEFINE shifted == [i \in DOMAIN lines |->
                 IF Empty(lines[i]) THEN lines[i]
                 ELSE [lines[i] EXCEPT !.indent = @ - CommonIndent]]
  <2>1. line = 1 /\ Len(lines) \in Nat /\ DOMAIN lines = 1..Len(lines)
        /\ topLevel \in Seq(1..(line - 1)) /\ body \in Seq(1..(line - 1))
    BY <1>1 DEF Split, Inv, InOrder
  <2>2. /\ lines' = shifted /\ pc' = "next"
        /\ UNCHANGED <<line, topLevel, body>>
    BY <1>1 DEF Split, partition
  <2>3. shifted = [i \in 1..Len(lines) |-> shifted[i]]
    BY <2>1
  <2> HIDE DEF shifted
  <2>4. shifted \in Seq(Range(shifted)) /\ Len(shifted) = Len(lines)
    BY <2>1, <2>3, IsSequence
  <2>5. lines' \in Seq(Range(lines')) /\ Len(lines') = Len(lines)
    BY <2>2, <2>4
  <2>6. InOrder'
    BY <2>1, <2>2, <2>5 DEF InOrder
  <2>7. LinesArePlaced'
    BY <2>1, <2>2 DEF Inv, LinesArePlaced, Growing, Range
  <2> QED
    BY <2>6, <2>7 DEF Inv
<1>2. CASE TakeTopLevelStatement
  BY <1>2, Stay DEF TakeTopLevelStatement
<1>3. CASE TakeHeaderLine
  <2>1. line <= Len(lines) /\ line \in Nat /\ Len(lines) \in Nat
    BY <1>3 DEF TakeHeaderLine, Inv, InOrder
  <2>2. /\ UNCHANGED <<lines, body>>
        /\ topLevel' = Append(topLevel, line) /\ line' = line + 1
    BY <1>3 DEF TakeHeaderLine
  <2>3. pc' # "split" /\ (pc' = "header" => line # Len(lines))
    BY <1>3 DEF TakeHeaderLine, HeaderEnds
  <2> QED
    BY <2>1, <2>2, <2>3, PlaceInModule
<1>4. CASE TakeSuiteLine
  <2>1. line <= Len(lines) /\ pc' = "suite"
    BY <1>4 DEF TakeSuiteLine
  <2>2. /\ UNCHANGED <<lines, body>>
        /\ topLevel' = Append(topLevel, line) /\ line' = line + 1
    BY <1>4 DEF TakeSuiteLine
  <2> QED
    BY <2>1, <2>2, PlaceInModule
<1>5. CASE EndSuite
  BY <1>5, Stay DEF EndSuite, Resume
<1>6. CASE PlaceLine
  <2>1. line <= Len(lines) /\ pc' = "next" /\ line' = line + 1 /\ UNCHANGED lines
    BY <1>6 DEF PlaceLine, NextLine
  <2>2. CASE topLevel' = Append(topLevel, line) /\ UNCHANGED body
    BY <2>1, <2>2, PlaceInModule
  <2>3. CASE body' = Append(body, line) /\ UNCHANGED topLevel
    BY <2>1, <2>3, PlaceInBody
  <2>4. CASE Empty(lines[line]) /\ UNCHANGED <<topLevel, body>>
    BY <2>1, <2>4, LeaveOut
  <2> QED
    BY <1>6, <2>2, <2>3, <2>4 DEF PlaceLine
<1>7. CASE BeginWrapper
  BY <1>7, Stay DEF BeginWrapper, partition
<1>8. CASE EmitMappedLine
  <2>1. UNCHANGED <<lines, line, topLevel, body>> /\ pc' = "body"
    BY <1>8 DEF EmitMappedLine, partition
  <2> QED
    BY <2>1, Stay
<1>9. CASE EmitEpilogue
  BY <1>9, Stay DEF EmitEpilogue, partition
<1>10. CASE EmitTopLevelLine
  <2>1. UNCHANGED <<lines, line, topLevel, body>> /\ pc' = "topLevel"
    BY <1>10 DEF EmitTopLevelLine, partition
  <2> QED
    BY <2>1, Stay
<1>11. CASE EndWrapper
  BY <1>11, Stay DEF EndWrapper, partition
<1>12. CASE UNCHANGED vars
  <2>1. UNCHANGED <<lines, line, topLevel, body, pc>>
    BY <1>12 DEF vars, partition
  <2>2. InOrder'
    BY <2>1 DEF Inv, InOrder, Range
  <2>3. LinesArePlaced'
    BY <2>1 DEF Inv, LinesArePlaced, Placed, Empty, Growing, Range
  <2> QED
    BY <2>2, <2>3 DEF Inv
<1> QED
  BY <1>1, <1>2, <1>3, <1>4, <1>5, <1>6, <1>7, <1>8, <1>9, <1>10, <1>11, <1>12
     DEF Next

\* Every line of a cell that is not empty is placed in the module or in the body,
\* once and in the order of the cell, whatever its lines begin with and whichever
\* brackets they leave open: partitionCell, takeTopLevelStatement.
THEOREM NoLineIsLost == Spec => []LinesArePlaced
<1>1. Inv => LinesArePlaced
  BY DEF Inv
<1> QED
  BY <1>1, InitInv, NextInv, PTL DEF Spec

-----------------------------------------------------------------------------
(* The source map leads back. *)

Where == [line : Nat, column : Nat]

MappingRecord == [line : Nat, column : Nat, size : Nat, wrappedOffset : Nat]

Final(m) == m.wrappedOffset + m.size

\* What is copied is mapped, and mappings do not touch.
Followed(text, map) ==
  /\ text \in Seq(Where) /\ map \in Seq(MappingRecord)
  /\ \A k \in 1..Len(text) : text[k].line # 0 =>
       \E i \in 1..Len(map) :
         /\ map[i].wrappedOffset <= k - 1 /\ k - 1 < Final(map[i])
         /\ text[k] = Place(map[i].line,
                            map[i].column + (k - 1) - map[i].wrappedOffset)
  /\ \A i \in 1..Len(map) : Final(map[i]) <= Len(text)
  /\ \A i, j \in 1..Len(map) : i < j => Final(map[i]) < map[j].wrappedOffset

\* The last mapping has ended before the last character.
WithinText(text, map) == \A i \in 1..Len(map) : Final(map[i]) < Len(text)

LEMMA FinalType ==
  ASSUME NEW map \in Seq(MappingRecord), NEW i \in 1..Len(map)
  PROVE  /\ map[i] \in MappingRecord
         /\ map[i].wrappedOffset \in Nat /\ Final(map[i]) \in Nat
<1>1. map[i] \in MappingRecord
  BY ElementOfSeq
<1> QED BY <1>1 DEF MappingRecord, Final

LEMMA MarkerIsAdded ==
  ASSUME NEW text, NEW map, Followed(text, map), NEW p \in Where, p.line = 0
  PROVE  Followed(text \o <<p>>, map) /\ WithinText(text \o <<p>>, map)
<1> DEFINE new == text \o <<p>>
<1>1. text \in Seq(Where) /\ map \in Seq(MappingRecord)
      /\ Len(text) \in Nat /\ Len(map) \in Nat
  BY LenProperties DEF Followed
<1>2. /\ new \in Seq(Where) /\ Len(new) = Len(text) + 1
      /\ \A k \in 1..Len(text) : new[k] = text[k]
      /\ new[Len(text) + 1] = p
  BY <1>1
<1>3. \A i \in 1..Len(map) : Final(map[i]) \in Nat
  BY <1>1, FinalType
<1> HIDE DEF new
<1>4. ASSUME NEW k \in 1..Len(new), new[k].line # 0
      PROVE  k \in 1..Len(text) /\ new[k] = text[k]
  BY <1>1, <1>2, <1>4
<1>5. \A i \in 1..Len(map) : Final(map[i]) < Len(new)
  BY <1>1, <1>2, <1>3 DEF Followed
<1>6. \A i \in 1..Len(map) : Final(map[i]) <= Len(new)
  BY <1>1, <1>2, <1>3, <1>5
<1>7. Followed(new, map)
  <2>1. ASSUME NEW k \in 1..Len(new), new[k].line # 0
        PROVE  \E i \in 1..Len(map) :
                 /\ map[i].wrappedOffset <= k - 1 /\ k - 1 < Final(map[i])
                 /\ new[k] = Place(map[i].line,
                                   map[i].column + (k - 1) - map[i].wrappedOffset)
    BY <1>4, <2>1 DEF Followed
  <2> QED BY <1>1, <1>2, <1>6, <2>1 DEF Followed
<1> QED BY <1>5, <1>7 DEF new, WithinText

LEMMA TextIsCopied ==
  ASSUME NEW text, NEW map, Followed(text, map), WithinText(text, map),
         NEW l \in Nat, NEW from \in Nat, NEW to \in Nat, from <= to
  PROVE  Followed(text \o Text(l, from, to),
                  map \o <<Mapping(l, from, to, Len(text))>>)
<1> DEFINE copy == Text(l, from, to)
           m    == Mapping(l, from, to, Len(text))
           new  == text \o copy
           more == map \o <<m>>
           n    == Len(text)
           size == to - from
<1>1. /\ text \in Seq(Where) /\ map \in Seq(MappingRecord)
      /\ n \in Nat /\ Len(map) \in Nat /\ size \in Nat
  BY LenProperties DEF Followed
<1>2. copy \in Seq(Where) /\ Len(copy) = size
      /\ \A k \in 1..size : copy[k] = Place(l, from + k - 1)
  <2>1. \A k \in 1..size : Place(l, from + k - 1) \in Where
    BY <1>1 DEF Place, Where
  <2>2. copy = [k \in 1..size |-> Place(l, from + k - 1)]
    BY DEF Text
  <2> HIDE DEF copy, size
  <2> QED BY <1>1, <2>1, <2>2
<1>3. /\ m \in MappingRecord /\ m.wrappedOffset = n /\ m.size = size
      /\ m.line = l /\ m.column = from
  BY <1>1 DEF Mapping, OffsetBefore, MappingRecord
<1> HIDE DEF copy, m, size
<1>4. /\ new \in Seq(Where) /\ Len(new) = n + size
      /\ \A k \in 1..n : new[k] = text[k]
      /\ \A k \in 1..size : new[n + k] = copy[k]
  <2>1. /\ text \o copy \in Seq(Where) /\ Len(text \o copy) = Len(text) + Len(copy)
        /\ \A k \in 1..(Len(text) + Len(copy)) :
             (text \o copy)[k] = IF k <= Len(text) THEN text[k]
                                ELSE copy[k - Len(text)]
    BY <1>1, <1>2, ConcatProperties
  <2>2. ASSUME NEW k \in 1..size PROVE new[n + k] = copy[k]
    <3>1. n + k \in 1..(n + size) /\ ~(n + k <= n) /\ n + k - n = k
      BY <1>1
    <3> QED BY <1>2, <2>1, <3>1
  <2>3. ASSUME NEW k \in 1..n PROVE new[k] = text[k]
    <3>1. k \in 1..(n + size) /\ k <= n
      BY <1>1
    <3> QED BY <1>2, <2>1, <3>1
  <2> QED BY <1>2, <2>1, <2>2, <2>3
<1>5. /\ more \in Seq(MappingRecord) /\ Len(more) = Len(map) + 1
      /\ \A i \in 1..Len(map) : more[i] = map[i]
      /\ more[Len(map) + 1] = m
  BY <1>1, <1>3
<1>6. \A i \in 1..Len(map) : Final(map[i]) \in Nat
  BY <1>1, FinalType
<1>7. Final(m) = n + size
  BY <1>3 DEF Final
<1> HIDE DEF new, more, n
<1>8. ASSUME NEW k \in 1..Len(new), new[k].line # 0
      PROVE  \E i \in 1..Len(more) :
               /\ more[i].wrappedOffset <= k - 1 /\ k - 1 < Final(more[i])
               /\ new[k] = Place(more[i].line,
                                 more[i].column + (k - 1) - more[i].wrappedOffset)
  <2>1. CASE k \in 1..n
    <3>1. new[k] = text[k]
      BY <1>4, <2>1
    <3>2. PICK i \in 1..Len(map) :
            /\ map[i].wrappedOffset <= k - 1 /\ k - 1 < Final(map[i])
            /\ text[k] = Place(map[i].line,
                               map[i].column + (k - 1) - map[i].wrappedOffset)
      BY <1>8, <2>1, <3>1 DEF Followed, n
    <3>3. i \in 1..Len(more) /\ more[i] = map[i]
      BY <1>1, <1>5
    <3> QED BY <3>1, <3>2, <3>3
  <2>2. CASE k \notin 1..n
    <3>1. k - n \in 1..size /\ k = n + (k - n)
      BY <1>1, <1>4, <2>2
    <3>2. new[k] = Place(l, from + (k - n) - 1)
      BY <1>2, <1>4, <3>1
    <3>3. from + (k - n) - 1 = from + (k - 1) - n
      BY <1>1, <3>1
    <3>4. n <= k - 1 /\ k - 1 < n + size
      BY <1>1, <3>1
    <3>5. Len(map) + 1 \in 1..Len(more) /\ more[Len(map) + 1] = m
      BY <1>1, <1>5
    <3> QED BY <1>3, <1>7, <3>2, <3>3, <3>4, <3>5
  <2> QED BY <2>1, <2>2
<1>9. ASSUME NEW i \in 1..Len(more) PROVE Final(more[i]) <= Len(new)
  <2>1. CASE i \in 1..Len(map)
    BY <1>1, <1>4, <1>5, <1>6, <2>1 DEF WithinText, n
  <2>2. CASE i = Len(map) + 1
    BY <1>1, <1>4, <1>5, <1>7, <2>2
  <2> QED BY <1>1, <1>5, <2>1, <2>2
<1>10. ASSUME NEW i \in 1..Len(more), NEW j \in 1..Len(more), i < j
       PROVE  Final(more[i]) < more[j].wrappedOffset
  <2>1. i \in 1..Len(map) /\ more[i] = map[i]
    BY <1>1, <1>5, <1>10
  <2>2. CASE j \in 1..Len(map)
    BY <1>5, <1>10, <2>1, <2>2 DEF Followed
  <2>3. CASE j = Len(map) + 1
    BY <1>3, <1>5, <2>1, <2>3 DEF WithinText, n
  <2> QED BY <1>1, <1>5, <2>2, <2>3
<1>11. Followed(new, more)
  BY <1>4, <1>5, <1>8, <1>9, <1>10 DEF Followed
<1> QED BY <1>11 DEF new, more, copy, m, n

\* A text that may be empty: then nothing is copied, and nothing mapped.
LEMMA SourceIsEmitted ==
  ASSUME NEW text, NEW map, Followed(text, map), WithinText(text, map),
         NEW l \in Nat, NEW from \in Nat, NEW to \in Nat, from <= to
  PROVE  /\ Followed(text \o Text(l, from, to),
                     map \o EmitSource(l, from, to, Len(text)))
         /\ from = to => WithinText(text \o Text(l, from, to),
                                map \o EmitSource(l, from, to, Len(text)))
         /\ Len(text \o Text(l, from, to)) = Len(text) + (to - from)
<1>1. text \in Seq(Where) /\ map \in Seq(MappingRecord) /\ Len(text) \in Nat
  BY LenProperties DEF Followed
<1>2. CASE from = to
  <2>1. Text(l, from, to) = <<>> /\ EmitSource(l, from, to, Len(text)) = <<>>
    BY <1>2 DEF Text, EmitSource
  <2>2. text \o <<>> = text /\ map \o <<>> = map
    BY <1>1
  <2> QED BY <1>1, <1>2, <2>1, <2>2
<1>3. CASE from # to
  <2>1. EmitSource(l, from, to, Len(text)) = <<Mapping(l, from, to, Len(text))>>
    BY <1>3 DEF EmitSource
  <2>2. Len(text \o Text(l, from, to)) = Len(text) + (to - from)
    <3>1. Text(l, from, to) \in Seq(Where) /\ Len(Text(l, from, to)) = to - from
      <4>1. to - from \in Nat
        OBVIOUS
      <4>2. \A k \in 1..(to - from) : Place(l, from + k - 1) \in Where
        BY DEF Place, Where
      <4> QED BY <4>1, <4>2 DEF Text
    <3> QED BY <1>1, <3>1, ConcatProperties
  <2> QED BY <1>3, <2>1, <2>2, TextIsCopied
<1> QED BY <1>2, <1>3

\* The first mapping that an offset hits is that of the copied character.
LEMMA FollowedMapsBack == Followed(output, mappings) => MapsBack
<1> SUFFICES ASSUME Followed(output, mappings), NEW o \in 1..Len(output),
                    output[o].line # 0
             PROVE  MapLocation(o - 1) = output[o]
  BY DEF MapsBack
<1> DEFINE hits == {i \in DOMAIN mappings :
                      o - 1 \in mappings[i].wrappedOffset
                                ..(mappings[i].wrappedOffset + mappings[i].size)}
<1>1. mappings \in Seq(MappingRecord) /\ DOMAIN mappings = 1..Len(mappings)
      /\ Len(mappings) \in Nat /\ Len(output) \in Nat
  BY LenProperties DEF Followed
<1>2. PICK k \in 1..Len(mappings) :
        /\ mappings[k].wrappedOffset <= o - 1 /\ o - 1 < Final(mappings[k])
        /\ output[o] = Place(mappings[k].line, mappings[k].column + (o - 1)
                                               - mappings[k].wrappedOffset)
  BY DEF Followed
<1>3. k \in hits
  BY <1>1, <1>2, FinalType DEF Final
<1>4. ASSUME NEW i \in hits PROVE k <= i
  <2>1. i \in 1..Len(mappings) /\ o - 1 <= Final(mappings[i])
    BY <1>1, <1>4, FinalType DEF Final
  <2>2. ~(i < k)
    <3>1. ASSUME i < k PROVE Final(mappings[i]) < mappings[k].wrappedOffset
      BY <2>1, <3>1 DEF Followed
    <3>2. Final(mappings[i]) \in Nat /\ mappings[k].wrappedOffset \in Nat
      BY <1>1, <2>1, FinalType
    <3> QED BY <1>2, <2>1, <3>1, <3>2
  <2> QED BY <1>1, <2>1, <2>2
<1>5. Min(hits) = k
  <2> HIDE DEF hits
  <2>1. hits \subseteq Nat
    BY <1>1 DEF hits
  <2>2. \A x \in hits : (\A y \in hits : x <= y) => x = k
    <3>1. ASSUME NEW x \in hits, \A y \in hits : x <= y PROVE x = k
      <4>1. x <= k /\ k <= x /\ x \in Nat
        BY <1>3, <1>4, <2>1, <3>1
      <4> QED BY <4>1
    <3> QED BY <3>1
  <2> QED BY <1>3, <1>4, <2>2 DEF Min
<1>6. hits # {}
  BY <1>3
<1>7. MapLocation(o - 1) =
        Place(mappings[Min(hits)].line,
              mappings[Min(hits)].column + (o - 1)
                - mappings[Min(hits)].wrappedOffset)
  BY <1>6 DEF MapLocation
<1> HIDE DEF hits
<1> QED BY <1>2, <1>5, <1>7

-----------------------------------------------------------------------------
(* The invariant of the wrapper. *)

Sized == \A i \in 1..Len(lines) : lines[i] \in Line

\* The trailing expression begins and ends within lines of the cell.
TrailingInText ==
  \A l \in 1..Len(lines) :
    /\ Starts(l) => trailing.start.column \in 0..Size(lines[l])
    /\ Ends(l) => trailing.end.column \in 0..Size(lines[l])
    /\ Starts(l) /\ Ends(l) => trailing.start.column <= trailing.end.column

Dividing == pc \in {"split", "next", "header", "suite"}

WrapInv ==
  /\ Sized /\ emitted \in Nat
  /\ Dividing => output = <<>> /\ mappings = <<>>
  /\ ~Dividing => TrailingInText
  /\ Followed(output, mappings)
  /\ pc \in {"body", "topLevel"} => WithinText(output, mappings)

LEMMA SizeType == ASSUME NEW l \in Line PROVE Size(l) \in Nat
BY TextAssumption DEF Size, Line

LEMMA MarkersType ==
  /\ Added \in Where /\ Added.line = 0
  /\ DisplayBegin \in Where /\ DisplayBegin.line = 0
  /\ DisplayEnd \in Where /\ DisplayEnd.line = 0
BY DEF Added, DisplayBegin, DisplayEnd, Place, Where

\* A nonempty set of numbers has a smallest one.
LEMMA MinOfSet ==
  ASSUME NEW S \in SUBSET Nat, S # {}
  PROVE  Min(S) \in S /\ \A x \in S : Min(S) <= x
<1>1. IsWellFoundedOn(OpToRel(<, Nat), Nat)
  BY NatLessThanWellFounded
<1>2. PICK x \in S : \A y \in S : ~(<<y, x>> \in OpToRel(<, Nat))
  BY <1>1, WFMin
<1>3. \A y \in S : ~(y < x)
  BY <1>2 DEF OpToRel
<1>4. \A y \in S : x <= y
  BY <1>3
<1> QED BY <1>4 DEF Min

LEMMA SplitSizes ==
  ASSUME Inv, Sized, Split
  PROVE  Sized'
<1>1. lines \in Seq(Range(lines)) /\ DOMAIN lines = 1..Len(lines)
      /\ Len(lines) \in Nat
  BY LenProperties DEF Inv, InOrder
<1> DEFINE indents == {lines[i].indent :
                         i \in {j \in DOMAIN lines : ~Empty(lines[j])}}
<1>2. indents \in SUBSET Nat
  BY <1>1 DEF Sized, Line
<1>3. ASSUME NEW i \in 1..Len(lines), ~Empty(lines[i])
      PROVE  CommonIndent \in Nat /\ CommonIndent <= lines[i].indent
  <2>1. lines[i].indent \in indents /\ indents # {}
    BY <1>1, <1>3
  <2>2. CommonIndent = Min(indents)
    BY <2>1 DEF CommonIndent
  <2> HIDE DEF indents
  <2> QED BY <1>2, <2>1, <2>2, MinOfSet
<1> DEFINE shifted == [i \in DOMAIN lines |->
                         IF Empty(lines[i]) THEN lines[i]
                         ELSE [lines[i] EXCEPT !.indent = @ - CommonIndent]]
<1>4. lines' = shifted
  BY DEF Split
<1>5. Len(lines') = Len(lines)
  BY <1>1, <1>4
<1>6. ASSUME NEW i \in 1..Len(lines) PROVE lines'[i] \in Line
  <2>0. lines[i] \in Line
    BY DEF Sized
  <2>1. CASE Empty(lines[i])
    BY <1>1, <1>4, <2>0, <2>1
  <2>2. CASE ~Empty(lines[i])
    <3>1. lines'[i] = [lines[i] EXCEPT !.indent = @ - CommonIndent]
      BY <1>1, <1>4, <2>2
    <3>2. lines[i].indent - CommonIndent \in Nat
      BY <1>3, <2>0, <2>2 DEF Line
    <3> QED BY <2>0, <3>1, <3>2 DEF Line
  <2> QED BY <2>1, <2>2
<1> QED BY <1>5, <1>6 DEF Sized

LEMMA PlacedLines ==
  ASSUME Inv
  PROVE  Placed \subseteq 1..Len(lines)
<1>1. /\ topLevel \in Seq(1..(line - 1)) /\ body \in Seq(1..(line - 1))
      /\ line \in 1..(Len(lines) + 1) /\ Len(lines) \in Nat
  BY LenProperties DEF Inv, InOrder
<1>2. /\ \A i \in DOMAIN topLevel : topLevel[i] \in 1..(line - 1)
      /\ \A i \in DOMAIN body : body[i] \in 1..(line - 1)
  BY <1>1
<1>3. 1..(line - 1) \subseteq 1..Len(lines)
  BY <1>1
<1> QED BY <1>2, <1>3 DEF Placed, Range

LEMMA BeginWrapperMaps ==
  ASSUME Inv, WrapInv, BeginWrapper
  PROVE  WrapInv'
<1>1. /\ output = <<>> /\ mappings = <<>> /\ Followed(output, mappings)
      /\ mappings' = mappings /\ output' = <<Added>> /\ pc' = "body"
      /\ UNCHANGED <<lines, body, emitted>>
  BY DEF BeginWrapper, WrapInv, Dividing, partition
<1>2. Followed(output', mappings') /\ WithinText(output', mappings')
  <2>1. output' = output \o <<Added>>
    BY <1>1
  <2> QED BY <1>1, <2>1, MarkerIsAdded, MarkersType
<1>3. trailing' \in {NoExpression} \union Expressions
  BY DEF BeginWrapper
<1>4. Placed \subseteq 1..Len(lines)
  BY PlacedLines
<1>5. ASSUME NEW l \in 1..Len(lines), NEW p,
             p \in UNION {{Place(i, c) : c \in lines[i].indent..Size(lines[i])} :
                            i \in {j \in Placed : lines[j].head \notin {"comment", "blank"}}},
             p.line = l
      PROVE  p.column \in 0..Size(lines[l])
  <2>1. PICK i \in Placed :
          \E c \in lines[i].indent..Size(lines[i]) : p = Place(i, c)
    BY <1>5
  <2>2. PICK c \in lines[i].indent..Size(lines[i]) : p = Place(i, c)
    BY <2>1
  <2>3. i = l /\ p.column = c
    BY <1>5, <2>2 DEF Place
  <2>4. lines[l] \in Line
    BY DEF WrapInv, Sized
  <2>5. lines[l].indent \in Nat /\ Size(lines[l]) \in Nat
    BY <2>4, SizeType DEF Line
  <2> QED BY <2>2, <2>3, <2>5
<1>6. ASSUME NEW l \in 1..Len(lines)
      PROVE  /\ Starts(l)' => trailing'.start.column \in 0..Size(lines[l])
             /\ Ends(l)' => trailing'.end.column \in 0..Size(lines[l])
             /\ Starts(l)' /\ Ends(l)' =>
                  trailing'.start.column <= trailing'.end.column
  <2>1. CASE trailing' = NoExpression
    <3>1. trailing'.start.line = 0 /\ trailing'.end.line = 0 /\ l # 0
      BY <2>1 DEF NoExpression, Added, Place
    <3> QED BY <3>1 DEF Starts, Ends
  <2>2. CASE trailing' \in Expressions
    <3> DEFINE places ==
                 UNION {{Place(i, c) : c \in lines[i].indent..Size(lines[i])} :
                          i \in {j \in Placed : lines[j].head \notin {"comment", "blank"}}}
    <3>1. /\ trailing'.start \in places /\ trailing'.end \in places
          /\ Before(trailing'.start, trailing'.end)
      BY <2>2 DEF Expressions
    <3>2. /\ trailing'.start.line = l =>
               trailing'.start.column \in 0..Size(lines[l])
          /\ trailing'.end.line = l =>
               trailing'.end.column \in 0..Size(lines[l])
      BY <1>5, <3>1
    <3> HIDE DEF places
    <3>3. Size(lines[l]) \in Nat
      BY SizeType DEF WrapInv, Sized
    <3>4. ASSUME trailing'.start.line = l, trailing'.end.line = l
          PROVE  trailing'.start.column <= trailing'.end.column
      <4>1. trailing'.start.column < trailing'.end.column
        BY <3>1, <3>4 DEF Before
      <4> QED BY <3>2, <3>3, <3>4, <4>1
    <3> QED BY <3>2, <3>4 DEF Starts, Ends
  <2> QED BY <1>3, <2>1, <2>2
<1>7. TrailingInText'
  BY <1>1, <1>6 DEF TrailingInText, Size
<1>8. Sized'
  BY <1>1 DEF WrapInv, Sized
<1> QED BY <1>1, <1>2, <1>7, <1>8 DEF WrapInv, Dividing

LEMMA EmitMappedLineMaps ==
  ASSUME Inv, WrapInv, EmitMappedLine
  PROVE  WrapInv'
<1> DEFINE l     == body[emitted + 1]
           a     == IF Starts(l) THEN trailing.start.column ELSE 0
           b     == IF Ends(l) THEN trailing.end.column ELSE a
           n     == Size(lines[l])
           begin == IF Starts(l) THEN <<DisplayBegin>> ELSE <<>>
           end   == IF Ends(l) THEN <<DisplayEnd>> ELSE <<>>
           offset    == Len(output) + 1
           o1    == output \o <<Added>>
           o2    == o1 \o Text(l, 0, a)
           o3    == o2 \o begin
           o4    == o3 \o Text(l, a, b)
           o5    == o4 \o end
           o6    == o5 \o Text(l, b, n)
           m2    == mappings \o EmitSource(l, 0, a, offset)
           m4    == m2 \o EmitSource(l, a, b, offset + a + Len(begin))
           m6    == m4 \o EmitSource(l, b, n, offset + b + Len(begin) + Len(end))
<1>0. emitted \in Nat /\ emitted < Len(body) /\ emitted' = emitted + 1
  <2>1. emitted \in Nat
    BY DEF WrapInv
  <2>2. emitted < Len(body) /\ emitted' = emitted + 1
    BY DEF EmitMappedLine
  <2> QED BY <2>1, <2>2
<1>1. /\ output' = o6 \o <<Added>> /\ mappings' = m6
      /\ UNCHANGED <<lines, pc, trailing>> /\ pc = "body"
  BY DEF EmitMappedLine
<1>2. l \in 1..Len(lines) /\ l \in Nat
  <2>1. body \in Seq(1..(line - 1)) /\ line \in 1..(Len(lines) + 1)
        /\ Len(lines) \in Nat /\ Len(body) \in Nat
    BY LenProperties DEF Inv, InOrder
  <2>2. emitted + 1 \in 1..Len(body)
    BY <1>0, <2>1
  <2>3. \A i \in 1..Len(body) : body[i] \in 1..(line - 1)
    BY <2>1
  <2> QED BY <2>1, <2>2, <2>3
<1>3. lines[l] \in Line /\ n \in Nat
  BY <1>2, SizeType DEF WrapInv, Sized
<1>4. /\ a \in Nat /\ b \in Nat /\ a <= b /\ b <= n
      /\ Starts(l) \/ a = 0
      /\ Ends(l) \/ a = b
  <2>1. /\ Starts(l) => trailing.start.column \in 0..n
        /\ Ends(l) => trailing.end.column \in 0..n
        /\ Starts(l) /\ Ends(l) => trailing.start.column <= trailing.end.column
    BY <1>1, <1>2 DEF WrapInv, Dividing, TrailingInText
  <2> HIDE DEF l, n
  <2> QED BY <1>3, <2>1
<1> HIDE DEF l, a, b, n
<1>a. offset \in Nat
  <2>1. output \in Seq(Where)
    BY DEF WrapInv, Followed
  <2> QED BY <2>1, LenProperties
<1>5. Followed(o1, mappings) /\ WithinText(o1, mappings) /\ Len(o1) = offset
  <2>1. output \in Seq(Where)
    BY DEF WrapInv, Followed
  <2>2. Len(o1) = offset
    BY <2>1, MarkersType
  <2> QED BY <2>2, MarkerIsAdded, MarkersType DEF WrapInv
<1>6. /\ Followed(o2, m2) /\ Len(o2) = offset + a
      /\ a = 0 => WithinText(o2, m2)
  <2> HIDE DEF o1, offset
  <2>1. /\ Followed(o1 \o Text(l, 0, a), mappings \o EmitSource(l, 0, a, Len(o1)))
        /\ 0 = a => WithinText(o1 \o Text(l, 0, a),
                          mappings \o EmitSource(l, 0, a, Len(o1)))
        /\ Len(o1 \o Text(l, 0, a)) = Len(o1) + (a - 0)
    <3>1. 0 \in Nat /\ 0 <= a
      BY <1>4
    <3>2. l \in Nat /\ a \in Nat
      BY <1>2, <1>4
    <3>3. Followed(o1, mappings) /\ WithinText(o1, mappings)
      BY <1>5
    <3> HIDE DEF o1
    <3>4. Followed(o1 \o Text(l, 0, a), mappings \o EmitSource(l, 0, a, Len(o1)))
      BY <3>1, <3>2, <3>3, SourceIsEmitted
    <3>5. Len(o1 \o Text(l, 0, a)) = Len(o1) + (a - 0)
      BY <3>1, <3>2, <3>3, SourceIsEmitted
    <3>6. 0 = a => WithinText(o1 \o Text(l, 0, a),
                          mappings \o EmitSource(l, 0, a, Len(o1)))
      BY <3>1, <3>2, <3>3, SourceIsEmitted
    <3> QED BY <3>4, <3>5, <3>6
  <2>2. offset + (a - 0) = offset + a
    BY <1>4, <1>a
  <2> QED BY <1>5, <2>1, <2>2
<1>7. Followed(o3, m2) /\ WithinText(o3, m2) /\ Len(o3) = offset + a + Len(begin)
  <2> HIDE DEF o2, m2, offset
  <2>1. o2 \in Seq(Where)
    BY <1>6 DEF Followed
  <2>2. CASE Starts(l)
    <3>1. o3 = o2 \o <<DisplayBegin>> /\ Len(begin) = 1
      BY <2>2
    <3>2. Len(o3) = Len(o2) + 1
      BY <2>1, <3>1, MarkersType
    <3> QED BY <1>6, <3>1, <3>2, MarkerIsAdded, MarkersType
  <2>3. CASE ~Starts(l)
    <3>1. o3 = o2 /\ Len(begin) = 0 /\ a = 0
      BY <1>4, <2>1, <2>3
    <3>2. offset + a + 0 = offset + a
      BY <1>4, <1>a
    <3> HIDE DEF o3, begin
    <3> QED BY <1>6, <3>1, <3>2
  <2> QED BY <2>2, <2>3
<1>b. Len(begin) \in Nat
  <2>1. Len(begin) = 0 \/ Len(begin) = 1
    BY DEF DisplayBegin
  <2> QED BY <2>1
<1>8. /\ Followed(o4, m4) /\ Len(o4) = offset + b + Len(begin)
      /\ a = b => WithinText(o4, m4)
  <2> HIDE DEF o3, m2, offset, begin
  <2>1. /\ Followed(o3 \o Text(l, a, b), m2 \o EmitSource(l, a, b, Len(o3)))
        /\ a = b => WithinText(o3 \o Text(l, a, b),
                          m2 \o EmitSource(l, a, b, Len(o3)))
        /\ Len(o3 \o Text(l, a, b)) = Len(o3) + (b - a)
    <3>1. l \in Nat /\ a \in Nat /\ b \in Nat /\ a <= b
      BY <1>2, <1>4
    <3>2. Followed(o3, m2) /\ WithinText(o3, m2)
      BY <1>7
    <3>3. Followed(o3 \o Text(l, a, b), m2 \o EmitSource(l, a, b, Len(o3)))
      BY <3>1, <3>2, SourceIsEmitted
    <3>4. Len(o3 \o Text(l, a, b)) = Len(o3) + (b - a)
      BY <3>1, <3>2, SourceIsEmitted
    <3>5. a = b => WithinText(o3 \o Text(l, a, b),
                          m2 \o EmitSource(l, a, b, Len(o3)))
      BY <3>1, <3>2, SourceIsEmitted
    <3> QED BY <3>3, <3>4, <3>5
  <2>2. offset + a + Len(begin) + (b - a) = offset + b + Len(begin)
    BY <1>4, <1>a, <1>b
  <2> QED BY <1>7, <2>1, <2>2
<1>9. /\ Followed(o5, m4) /\ WithinText(o5, m4)
      /\ Len(o5) = offset + b + Len(begin) + Len(end)
  <2> HIDE DEF o4, m4, offset, begin
  <2>1. o4 \in Seq(Where)
    BY <1>8 DEF Followed
  <2>2. CASE Ends(l)
    <3>1. o5 = o4 \o <<DisplayEnd>> /\ Len(end) = 1
      BY <2>2
    <3>2. Len(o5) = Len(o4) + 1
      BY <2>1, <3>1, MarkersType
    <3> QED BY <1>8, <3>1, <3>2, MarkerIsAdded, MarkersType
  <2>3. CASE ~Ends(l)
    <3>1. o5 = o4 /\ Len(end) = 0 /\ a = b
      BY <1>4, <2>1, <2>3
    <3>2. offset + b + Len(begin) + 0 = offset + b + Len(begin)
      BY <1>4, <1>a, <1>b
    <3> HIDE DEF o5, end
    <3> QED BY <1>8, <3>1, <3>2
  <2> QED BY <2>2, <2>3
<1>10. Followed(o6, m6)
  <2> HIDE DEF o5, m4, offset, begin, end
  <2> QED BY <1>2, <1>3, <1>4, <1>9, SourceIsEmitted
<1>11. Followed(output', mappings') /\ WithinText(output', mappings')
  <2> HIDE DEF o6, m6
  <2> QED BY <1>1, <1>10, MarkerIsAdded, MarkersType
<1>12. emitted' \in Nat
  BY <1>0
<1>13. TrailingInText' /\ Sized'
  BY <1>1 DEF WrapInv, Dividing, TrailingInText, Starts, Ends, Sized, Size
<1> QED BY <1>1, <1>11, <1>12, <1>13 DEF WrapInv, Dividing

LEMMA EmitTopLevelLineMaps ==
  ASSUME Inv, WrapInv, EmitTopLevelLine
  PROVE  WrapInv'
<1> DEFINE l == topLevel[emitted + 1]
           n == Size(lines[l])
           o == output \o Text(l, 0, n)
           m == mappings \o <<Mapping(l, 0, n, Len(output))>>
<1>0. mappings \in Seq(MappingRecord) /\ Followed(output, mappings)
      /\ WithinText(output, mappings) /\ emitted \in Nat
  BY DEF EmitTopLevelLine, WrapInv, Followed
<1>1. /\ output' = o \o <<Added>>
      /\ UNCHANGED <<lines, pc, trailing>> /\ pc = "topLevel"
      /\ mappings' = Append(mappings, Mapping(l, 0, n, Len(output)))
  BY DEF EmitTopLevelLine
<1>2. l \in 1..Len(lines) /\ l \in Nat
  <2>1. topLevel \in Seq(1..(line - 1)) /\ line \in 1..(Len(lines) + 1)
        /\ Len(lines) \in Nat /\ Len(topLevel) \in Nat
    BY LenProperties DEF Inv, InOrder
  <2>2. emitted + 1 \in 1..Len(topLevel)
    BY <1>0, <2>1 DEF EmitTopLevelLine
  <2>3. \A i \in 1..Len(topLevel) : topLevel[i] \in 1..(line - 1)
    BY <2>1
  <2> QED BY <2>1, <2>2, <2>3
<1>3. n \in Nat /\ 0 <= n
  <2>1. n \in Nat
    BY <1>2, SizeType DEF WrapInv, Sized
  <2> QED BY <2>1
<1> HIDE DEF l, n
<1>4. Followed(o, m)
  BY <1>0, <1>2, <1>3, TextIsCopied
<1>5. mappings' = m
  <2> DEFINE one == Mapping(l, 0, n, Len(output))
  <2>1. one \in MappingRecord
    <3>1. Len(output) \in Nat
      BY <1>0, LenProperties DEF Followed
    <3> QED BY <1>2, <1>3, <3>1 DEF Mapping, MappingRecord, OffsetBefore
  <2> HIDE DEF one
  <2>2. Append(mappings, one) = mappings \o <<one>>
    BY <1>0, <2>1
  <2> QED BY <1>1, <2>2 DEF one
<1>6. Followed(output', mappings') /\ WithinText(output', mappings')
  <2> HIDE DEF o, m
  <2> QED BY <1>1, <1>4, <1>5, MarkerIsAdded, MarkersType
<1>7. emitted' \in Nat
  BY <1>0 DEF EmitTopLevelLine
<1>8. TrailingInText' /\ Sized'
  BY <1>1 DEF WrapInv, Dividing, TrailingInText, Starts, Ends, Sized, Size
<1> QED BY <1>1, <1>6, <1>7, <1>8 DEF WrapInv, Dividing

\* A character that the wrapper adds at its end.
LEMMA AppendMaps ==
  ASSUME WrapInv, output' = Append(output, Added),
         UNCHANGED <<lines, trailing, mappings>>, emitted' \in Nat,
         ~Dividing, ~Dividing'
  PROVE  WrapInv'
<1>1. output' = output \o <<Added>>
  <2>1. output \in Seq(Where)
    BY DEF WrapInv, Followed
  <2> QED BY <2>1, MarkersType
<1>2. Followed(output', mappings') /\ WithinText(output', mappings')
  BY <1>1, MarkerIsAdded, MarkersType DEF WrapInv
<1>3. TrailingInText' /\ Sized'
  BY DEF WrapInv, TrailingInText, Starts, Ends, Sized, Size
<1> QED BY <1>2, <1>3 DEF WrapInv

LEMMA NextMaps == Inv /\ WrapInv /\ [Next]_vars => WrapInv'
<1> SUFFICES ASSUME Inv, WrapInv, [Next]_vars PROVE WrapInv'
  OBVIOUS
<1>1. ASSUME Dividing, Dividing', UNCHANGED <<lines, wrapper>> PROVE WrapInv'
  BY <1>1 DEF WrapInv, Dividing, Sized, wrapper
<1>2. CASE Split
  <2>1. Sized'
    BY <1>2, SplitSizes DEF WrapInv
  <2> QED BY <1>2, <2>1 DEF Split, WrapInv, Dividing, wrapper
<1>3. CASE TakeTopLevelStatement \/ TakeHeaderLine \/ TakeSuiteLine
  BY <1>1, <1>3
  DEF TakeTopLevelStatement, TakeHeaderLine, TakeSuiteLine, Dividing
<1>4. CASE EndSuite \/ PlaceLine
  BY <1>1, <1>4 DEF EndSuite, PlaceLine, Dividing
<1>5. CASE BeginWrapper
  BY <1>5, BeginWrapperMaps
<1>6. CASE EmitMappedLine
  BY <1>6, EmitMappedLineMaps
<1>7. CASE EmitEpilogue
  BY <1>7, AppendMaps DEF EmitEpilogue, Dividing
<1>8. CASE EmitTopLevelLine
  BY <1>8, EmitTopLevelLineMaps
<1>9. CASE EndWrapper
  BY <1>9, AppendMaps DEF EndWrapper, Dividing, WrapInv
<1>10. CASE UNCHANGED vars
  BY <1>10
  DEF vars, wrapper, WrapInv, Dividing, Sized, TrailingInText, Starts, Ends, Size
<1> QED
  BY <1>2, <1>3, <1>4, <1>5, <1>6, <1>7, <1>8, <1>9, <1>10 DEF Next

LEMMA InitMaps == Init => WrapInv
<1> SUFFICES ASSUME Init PROVE WrapInv
  OBVIOUS
<1>1. PICK n \in 1..MaxLines : lines \in [1..n -> Lines]
  BY DEF Init
<1>2. Sized
  <2>1. Len(lines) = n
    BY <1>1, TextAssumption
  <2> QED BY <1>1, <2>1, TextAssumption DEF Sized
<1>3. output = <<>> /\ mappings = <<>> /\ emitted = 0 /\ pc = "split"
  BY DEF Init
<1>4. Followed(<<>>, <<>>)
  BY DEF Followed
<1> QED BY <1>2, <1>3, <1>4 DEF WrapInv, Dividing

\* Wherever text of the cell stands in the wrapper, the source map leads back to the
\* place it came from, for every cell and every trailing expression.
THEOREM MapLeadsBack == Spec => []MapsBack
<1>1. WrapInv => MapsBack
  BY FollowedMapsBack DEF WrapInv
<1> QED BY <1>1, InitInv, NextInv, InitMaps, NextMaps, PTL DEF Spec

-----------------------------------------------------------------------------
(* What stands between the two calls that display the trailing expression. *)

Mapped(x) == x.line # 0 /\ x.line \in Range(body)

\* x may stand before y in the wrapper.
MayPrecede(x, y) ==
  /\ x = DisplayBegin /\ Mapped(y) => ~Before(y, trailing.start)
  /\ Mapped(x) /\ y = DisplayBegin => Before(x, trailing.start)
  /\ x = DisplayEnd /\ Mapped(y) => ~Before(y, trailing.end)
  /\ Mapped(x) /\ y = DisplayEnd => Before(x, trailing.end)
  /\ ~(x = DisplayBegin /\ y = DisplayBegin)
  /\ ~(x = DisplayEnd /\ y = DisplayEnd)

Ordered(text) ==
  \A i, j \in 1..Len(text) : i < j => MayPrecede(text[i], text[j])

LEMMA MarkersDiffer ==
  /\ Added # DisplayBegin /\ Added # DisplayEnd /\ DisplayBegin # DisplayEnd
  /\ ~Mapped(Added) /\ ~Mapped(DisplayBegin) /\ ~Mapped(DisplayEnd)
<1>1. Added.column = 0 /\ DisplayBegin.column = 1 /\ DisplayEnd.column = 2
  BY DEF Added, DisplayBegin, DisplayEnd, Place
<1> QED BY <1>1, MarkersType DEF Mapped

LEMMA RangeOfText ==
  ASSUME NEW text \in Seq(Where)
  PROVE  \A x : x \in Range(text) <=> \E i \in 1..Len(text) : x = text[i]
<1> DEFINE n == Len(text)
<1>1. DOMAIN text = 1..n /\ n \in Nat
  BY LenProperties
<1> HIDE DEF n
<1>2. \A x : x \in Range(text) <=> \E i \in 1..n : x = text[i]
  BY <1>1 DEF Range
<1> QED BY <1>2 DEF n

LEMMA OrderedConcat ==
  ASSUME NEW text \in Seq(Where), NEW more \in Seq(Where),
         Ordered(text), Ordered(more),
         \A x \in Range(text), y \in Range(more) : MayPrecede(x, y)
  PROVE  /\ text \o more \in Seq(Where) /\ Ordered(text \o more)
         /\ Range(text \o more) = Range(text) \union Range(more)
<1> DEFINE n == Len(text)
           size == Len(more)
           new == text \o more
<1>1. n \in Nat /\ size \in Nat
  BY LenProperties
<1>2. /\ new \in Seq(Where) /\ Len(new) = n + size
      /\ \A k \in 1..(n + size) :
           new[k] = IF k <= n THEN text[k] ELSE more[k - n]
  BY <1>1, ConcatProperties
<1>3. /\ \A x : x \in Range(text) <=> \E i \in 1..n : x = text[i]
      /\ \A x : x \in Range(more) <=> \E i \in 1..size : x = more[i]
  BY RangeOfText
<1>4. \A x : x \in Range(new) <=> \E i \in 1..Len(new) : x = new[i]
  BY <1>2, RangeOfText
<1> HIDE DEF n, size, new
<1>5. ASSUME NEW i \in 1..Len(new), NEW j \in 1..Len(new), i < j
      PROVE  MayPrecede(new[i], new[j])
  <2>1. CASE j <= n
    <3>1. i \in 1..n /\ j \in 1..n /\ new[i] = text[i] /\ new[j] = text[j]
      BY <1>1, <1>2, <1>5, <2>1
    <3> QED BY <1>5, <3>1 DEF Ordered, n
  <2>2. CASE i <= n /\ ~(j <= n)
    <3>1. /\ i \in 1..n /\ j - n \in 1..size
          /\ new[i] = text[i] /\ new[j] = more[j - n]
      BY <1>1, <1>2, <2>2
    <3> QED BY <1>3, <3>1
  <2>3. CASE ~(i <= n)
    <3>1. /\ i - n \in 1..size /\ j - n \in 1..size /\ i - n < j - n
          /\ new[i] = more[i - n] /\ new[j] = more[j - n]
      BY <1>1, <1>2, <1>5, <2>3
    <3> QED BY <3>1 DEF Ordered, size
  <2> QED BY <1>1, <1>2, <2>1, <2>2, <2>3
<1>6. Range(new) = Range(text) \union Range(more)
  <2>1. ASSUME NEW x \in Range(new) PROVE x \in Range(text) \union Range(more)
    <3>1. PICK i \in 1..(n + size) : x = new[i]
      BY <1>2, <1>4
    <3>2. CASE i <= n
      <4>1. i \in 1..n /\ x = text[i]
        BY <1>1, <1>2, <3>1, <3>2
      <4> QED BY <1>3, <4>1
    <3>3. CASE ~(i <= n)
      <4>1. i - n \in 1..size /\ x = more[i - n]
        BY <1>1, <1>2, <3>1, <3>3
      <4> QED BY <1>3, <4>1
    <3> QED BY <3>2, <3>3
  <2>2. ASSUME NEW x \in Range(text) PROVE x \in Range(new)
    <3>1. PICK i \in 1..n : x = text[i]
      BY <1>3
    <3>2. i \in 1..(n + size) /\ i <= n
      BY <1>1
    <3>3. i \in 1..Len(new) /\ x = new[i]
      BY <1>2, <3>1, <3>2
    <3> QED BY <1>4, <3>3
  <2>3. ASSUME NEW x \in Range(more) PROVE x \in Range(new)
    <3>1. PICK i \in 1..size : x = more[i]
      BY <1>3
    <3> DEFINE k == n + i
    <3>2. /\ k \in 1..(n + size) /\ ~(k <= n) /\ k - n = i
      BY <1>1
    <3> HIDE DEF k
    <3>3. k \in 1..Len(new) /\ x = new[k]
      BY <1>2, <3>1, <3>2
    <3> QED BY <1>4, <3>3
  <2> QED BY <2>1, <2>2, <2>3
<1>7. Ordered(new)
  BY <1>5 DEF Ordered
<1> QED BY <1>2, <1>6, <1>7 DEF new

\* A single character.
LEMMA OneIsOrdered ==
  ASSUME NEW p \in Where
  PROVE  <<p>> \in Seq(Where) /\ Ordered(<<p>>) /\ Range(<<p>>) = {p}
<1>1. <<p>> \in Seq(Where) /\ Len(<<p>>) = 1 /\ <<p>>[1] = p
  OBVIOUS
<1>2. Ordered(<<p>>)
  BY <1>1 DEF Ordered
<1>3. \A x : x \in Range(<<p>>) <=> \E i \in 1..1 : x = <<p>>[i]
  BY <1>1, RangeOfText
<1> QED BY <1>1, <1>2, <1>3

\* Copied text holds no markers.
LEMMA TextIsOrdered ==
  ASSUME NEW l \in Nat \ {0}, NEW from \in Nat, NEW to \in Nat, from <= to
  PROVE  /\ Text(l, from, to) \in Seq(Where) /\ Ordered(Text(l, from, to))
         /\ \A x \in Range(Text(l, from, to)) :
              /\ x \in Where /\ x.line = l
              /\ from <= x.column /\ x.column < to
<1> DEFINE size == to - from
           copy == Text(l, from, to)
<1>1. size \in Nat
  OBVIOUS
<1>2. \A k \in 1..size : /\ Place(l, from + k - 1) \in Where
                         /\ Place(l, from + k - 1).line = l
                         /\ from <= Place(l, from + k - 1).column
                         /\ Place(l, from + k - 1).column < to
  BY DEF Place, Where
<1>3. copy = [k \in 1..size |-> Place(l, from + k - 1)]
  BY DEF Text
<1> HIDE DEF copy, size
<1>4. /\ copy \in Seq(Where) /\ Len(copy) = size
      /\ \A k \in 1..size : copy[k] = Place(l, from + k - 1)
  <2> DEFINE f == [k \in 1..size |-> Place(l, from + k - 1)]
  <2>1. f \in [1..size -> Where]
    BY <1>2
  <2>2. \A k \in 1..size : f[k] = Place(l, from + k - 1)
    OBVIOUS
  <2> HIDE DEF f
  <2>3. f \in Seq(Where) /\ Len(f) = size
    BY <1>1, <2>1
  <2> QED BY <1>3, <2>2, <2>3 DEF f
<1>5. \A x \in Range(copy) : /\ x \in Where /\ x.line = l
                             /\ from <= x.column /\ x.column < to
  BY <1>2, <1>4, RangeOfText
<1>6. Ordered(copy)
  <2>1. ASSUME NEW i \in 1..Len(copy) PROVE copy[i] # DisplayBegin /\ copy[i] # DisplayEnd
    BY <1>2, <1>4, <2>1, MarkersType
  <2> QED BY <2>1 DEF Ordered, MayPrecede
<1> QED BY <1>4, <1>5, <1>6 DEF copy


\* The text is what is written of the cell before place p.
Upto(text, p) ==
  /\ text \in Seq(Where) /\ Ordered(text)
  /\ \A x \in Range(text) : Mapped(x) => Before(x, p)
  /\ DisplayBegin \in Range(text) => ~Before(p, trailing.start)
  /\ DisplayEnd \in Range(text) => ~Before(p, trailing.end)

Expressed == trailing.start \in Where /\ trailing.end \in Where

LEMMA InWhere ==
  ASSUME NEW text \in Seq(Where), NEW x \in Range(text)
  PROVE  x \in Where
<1>1. PICK i \in 1..Len(text) : x = text[i]
  BY RangeOfText
<1> QED BY <1>1

LEMMA TextAdvances ==
  ASSUME Expressed, NEW text,
         NEW l \in Nat \ {0}, NEW from \in Nat, NEW to \in Nat, from <= to,
         Upto(text, Place(l, from))
  PROVE  LET new == text \o Text(l, from, to)
         IN  /\ Upto(new, Place(l, to))
             /\ DisplayBegin \in Range(new) <=> DisplayBegin \in Range(text)
             /\ DisplayEnd \in Range(new) <=> DisplayEnd \in Range(text)
<1> DEFINE more == Text(l, from, to)
<1>1. /\ more \in Seq(Where) /\ Ordered(more)
      /\ \A x \in Range(more) : /\ x \in Where /\ x.line = l
                                /\ from <= x.column /\ x.column < to
  BY TextIsOrdered
<1> HIDE DEF more
<1>2. /\ text \in Seq(Where) /\ Ordered(text)
      /\ \A x \in Range(text) : Mapped(x) => Before(x, Place(l, from))
      /\ DisplayBegin \in Range(text) => ~Before(Place(l, from), trailing.start)
      /\ DisplayEnd \in Range(text) => ~Before(Place(l, from), trailing.end)
  BY DEF Upto
<1>3. \A y \in Range(more) : y # DisplayBegin /\ y # DisplayEnd
  BY <1>1, MarkersType
<1>4. ASSUME NEW x \in Range(text), NEW y \in Range(more) PROVE MayPrecede(x, y)
  <2>1. /\ y \in Where /\ y.line = l /\ from <= y.column
        /\ y # DisplayBegin /\ y # DisplayEnd
    BY <1>1, <1>3
  <2>2. x = DisplayBegin => ~Before(y, trailing.start)
    BY <1>2, <2>1 DEF Before, Place, Where, Expressed
  <2>3. x = DisplayEnd => ~Before(y, trailing.end)
    BY <1>2, <2>1 DEF Before, Place, Where, Expressed
  <2> QED BY <2>1, <2>2, <2>3 DEF MayPrecede
<1>5. /\ text \o more \in Seq(Where) /\ Ordered(text \o more)
      /\ Range(text \o more) = Range(text) \union Range(more)
  BY <1>1, <1>2, <1>4, OrderedConcat
<1>6. ASSUME NEW x \in Range(text \o more), Mapped(x)
      PROVE  Before(x, Place(l, to))
  <2>1. CASE x \in Range(text)
    <3>1. Before(x, Place(l, from)) /\ x \in Where
      BY <1>2, <1>6, <2>1, InWhere
    <3> QED BY <3>1 DEF Before, Place, Where
  <2>2. CASE x \in Range(more)
    BY <1>1, <2>2 DEF Before, Place
  <2> QED BY <1>5, <2>1, <2>2
<1>7. /\ DisplayBegin \in Range(text \o more) <=> DisplayBegin \in Range(text)
      /\ DisplayEnd \in Range(text \o more) <=> DisplayEnd \in Range(text)
  BY <1>3, <1>5
<1>8. /\ DisplayBegin \in Range(text) => ~Before(Place(l, to), trailing.start)
      /\ DisplayEnd \in Range(text) => ~Before(Place(l, to), trailing.end)
  BY <1>2 DEF Before, Place, Where, Expressed
<1>9. Upto(text \o more, Place(l, to))
  BY <1>5, <1>6, <1>7, <1>8 DEF Upto
<1> QED BY <1>7, <1>9 DEF more

LEMMA MarkerAdvances ==
  ASSUME Expressed, NEW text, NEW p \in Where, Upto(text, p),
         NEW m \in {Added, DisplayBegin, DisplayEnd},
         m = DisplayBegin =>
           /\ DisplayBegin \notin Range(text)
           /\ p.line = trailing.start.line /\ p.column = trailing.start.column,
         m = DisplayEnd =>
           /\ DisplayEnd \notin Range(text)
           /\ p.line = trailing.end.line /\ p.column = trailing.end.column
  PROVE  LET new == text \o <<m>>
         IN  /\ Upto(new, p)
             /\ DisplayBegin \in Range(new) <=>
                  DisplayBegin \in Range(text) \/ m = DisplayBegin
             /\ DisplayEnd \in Range(new) <=>
                  DisplayEnd \in Range(text) \/ m = DisplayEnd
<1> DEFINE more == <<m>>
<1>1. more \in Seq(Where) /\ Ordered(more) /\ Range(more) = {m}
  BY OneIsOrdered, MarkersType
<1> HIDE DEF more
<1>2. /\ text \in Seq(Where) /\ Ordered(text)
      /\ \A x \in Range(text) : Mapped(x) => Before(x, p)
      /\ DisplayBegin \in Range(text) => ~Before(p, trailing.start)
      /\ DisplayEnd \in Range(text) => ~Before(p, trailing.end)
  BY DEF Upto
<1>3. ~Mapped(m)
  BY MarkersDiffer
<1>4. ASSUME NEW x \in Range(text), NEW y \in Range(more) PROVE MayPrecede(x, y)
  <2>1. y = m
    BY <1>1
  <2>2. y = DisplayBegin =>
          x # DisplayBegin /\ (Mapped(x) => Before(x, trailing.start))
    BY <1>2, <2>1 DEF Before
  <2>3. y = DisplayEnd =>
          x # DisplayEnd /\ (Mapped(x) => Before(x, trailing.end))
    BY <1>2, <2>1 DEF Before
  <2> QED BY <1>3, <2>1, <2>2, <2>3 DEF MayPrecede
<1>5. /\ text \o more \in Seq(Where) /\ Ordered(text \o more)
      /\ Range(text \o more) = Range(text) \union {m}
  BY <1>1, <1>2, <1>4, OrderedConcat
<1>6. /\ \A x \in Range(text \o more) : Mapped(x) => Before(x, p)
      /\ DisplayBegin \in Range(text \o more) <=>
           DisplayBegin \in Range(text) \/ m = DisplayBegin
      /\ DisplayEnd \in Range(text \o more) <=>
           DisplayEnd \in Range(text) \/ m = DisplayEnd
  BY <1>2, <1>3, <1>5
<1>7. /\ m = DisplayBegin => ~Before(p, trailing.start)
      /\ m = DisplayEnd => ~Before(p, trailing.end)
  BY DEF Before, Where, Expressed
<1>8. Upto(text \o more, p)
  BY <1>2, <1>5, <1>6, <1>7 DEF Upto
<1> QED BY <1>6, <1>8 DEF more

LEMMA Advances ==
  ASSUME Expressed, NEW text, NEW p \in Where, NEW q \in Where,
         Upto(text, p), ~Before(q, p)
  PROVE  Upto(text, q)
<1>1. text \in Seq(Where) /\ Ordered(text)
  BY DEF Upto
<1>2. ASSUME NEW x \in Range(text), Mapped(x) PROVE Before(x, q)
  <2>1. Before(x, p) /\ x \in Where
    BY <1>1, <1>2, InWhere DEF Upto
  <2> QED BY <2>1 DEF Before, Where
<1>3. /\ DisplayBegin \in Range(text) => ~Before(q, trailing.start)
      /\ DisplayEnd \in Range(text) => ~Before(q, trailing.end)
  BY DEF Upto, Before, Where, Expressed
<1> QED BY <1>1, <1>2, <1>3 DEF Upto

-----------------------------------------------------------------------------
\* A marker is written with the line that it is on.
MarkersWritten ==
  /\ DisplayBegin \in Range(output) <=> \E k \in 1..emitted : Starts(body[k])
  /\ DisplayEnd \in Range(output) <=> \E k \in 1..emitted : Ends(body[k])

ShownInv ==
  /\ Dividing => emitted = 0 /\ output = <<>>
  /\ ~Dividing => Expressed
  /\ output \in Seq(Where) /\ Ordered(output)
  /\ pc = "body" =>
       /\ emitted <= Len(body) /\ MarkersWritten
       /\ emitted < Len(body) => Upto(output, Place(body[emitted + 1], 0))
  /\ pc \in {"topLevel", "done"} /\ InBody =>
       DisplayBegin \in Range(output) /\ DisplayEnd \in Range(output)

LEMMA BodyLines ==
  ASSUME Inv
  PROVE  /\ Len(body) \in Nat
         /\ \A k \in 1..Len(body) : body[k] \in 1..Len(lines)
         /\ \A j, k \in 1..Len(body) : j < k => body[j] < body[k]
         /\ \A l : l \in Range(body) <=> \E k \in 1..Len(body) : l = body[k]
<1>1. /\ body \in Seq(1..(line - 1)) /\ line \in 1..(Len(lines) + 1)
      /\ Len(lines) \in Nat /\ Len(body) \in Nat
  BY LenProperties DEF Inv, InOrder
<1>2. DOMAIN body = 1..Len(body)
  BY <1>1
<1>3. \A k \in 1..Len(body) : body[k] \in 1..(line - 1)
  BY <1>1
<1>4. Growing(body)
  BY DEF Inv, LinesArePlaced
<1>5. \A l : l \in Range(body) <=> \E k \in 1..Len(body) : l = body[k]
  BY <1>2 DEF Range
<1>6. \A j, k \in 1..Len(body) : j < k => body[j] < body[k]
  BY <1>2, <1>4 DEF Growing
<1>7. \A k \in 1..Len(body) : body[k] \in 1..Len(lines)
  BY <1>1, <1>3
<1> QED BY <1>1, <1>5, <1>6, <1>7

\* The expression is in the wrapper between the markers.
LEMMA ShownIsDisplayed ==
  ASSUME ShownInv
  PROVE  ExpressionIsDisplayed
<1> SUFFICES ASSUME pc \in {"topLevel", "done"}, InBody
             PROVE  \E p, q \in 1..Len(output) :
               /\ output[p] = DisplayBegin /\ output[q] = DisplayEnd
               /\ \A o \in 1..Len(output) :
                    /\ output[o].line # 0 /\ output[o].line \in Range(body) =>
                         (p < o /\ o < q <=>
                            /\ ~Before(output[o], trailing.start)
                            /\ Before(output[o], trailing.end))
                    /\ output[o] = DisplayBegin => o = p
                    /\ output[o] = DisplayEnd => o = q
  BY DEF ExpressionIsDisplayed
<1>1. /\ output \in Seq(Where) /\ Ordered(output) /\ Len(output) \in Nat
      /\ DisplayBegin \in Range(output) /\ DisplayEnd \in Range(output)
  BY LenProperties DEF ShownInv
<1>2. PICK p \in 1..Len(output) : output[p] = DisplayBegin
  BY <1>1, RangeOfText
<1>3. PICK q \in 1..Len(output) : output[q] = DisplayEnd
  BY <1>1, RangeOfText
<1>4. \A i, j \in 1..Len(output) : i < j => MayPrecede(output[i], output[j])
  BY <1>1 DEF Ordered
<1>5. ASSUME NEW o \in 1..Len(output)
      PROVE  /\ output[o] = DisplayBegin => o = p
             /\ output[o] = DisplayEnd => o = q
  BY <1>1, <1>2, <1>3, <1>4 DEF MayPrecede
<1>6. ASSUME NEW o \in 1..Len(output), Mapped(output[o])
      PROVE  p < o /\ o < q <=> /\ ~Before(output[o], trailing.start)
                                /\ Before(output[o], trailing.end)
  <2>1. o # p /\ o # q
    BY <1>2, <1>3, <1>6, MarkersDiffer
  <2>2. p < o => ~Before(output[o], trailing.start)
    BY <1>2, <1>4, <1>6 DEF MayPrecede
  <2>3. o < p => Before(output[o], trailing.start)
    BY <1>2, <1>4, <1>6 DEF MayPrecede
  <2>4. q < o => ~Before(output[o], trailing.end)
    BY <1>3, <1>4, <1>6 DEF MayPrecede
  <2>5. o < q => Before(output[o], trailing.end)
    BY <1>3, <1>4, <1>6 DEF MayPrecede
  <2>6. (p < o \/ o < p) /\ (q < o \/ o < q)
    BY <1>1, <2>1
  <2> QED BY <1>1, <2>2, <2>3, <2>4, <2>5, <2>6
<1> QED BY <1>2, <1>3, <1>5, <1>6 DEF Mapped

LEMMA BeginWrapperShows ==
  ASSUME Inv, WrapInv, ShownInv, BeginWrapper
  PROVE  ShownInv'
<1>1. /\ output' = <<Added>> /\ pc' = "body" /\ emitted' = 0
      /\ body' = body /\ lines' = lines
      /\ trailing' \in {NoExpression} \union Expressions
  BY DEF BeginWrapper, ShownInv, Dividing, partition
<1>2. ~Dividing'
  BY <1>1 DEF Dividing
<1>3. Expressed'
  <2>1. CASE trailing' = NoExpression
    <3>1. trailing'.start = Added /\ trailing'.end = Added
      BY <2>1 DEF NoExpression
    <3> QED BY <3>1, MarkersType DEF Expressed
  <2>2. CASE trailing' \in Expressions
    <3> DEFINE places ==
                 UNION {{Place(i, c) : c \in lines[i].indent..Size(lines[i])} :
                          i \in {j \in Placed : lines[j].head \notin {"comment", "blank"}}}
    <3>1. /\ trailing'.start \in places /\ trailing'.end \in places
          /\ Before(trailing'.start, trailing'.end)
      BY <2>2 DEF Expressions
    <3>2. ASSUME NEW x \in places
          PROVE  x \in Where
      <4>1. PICK i \in Placed :
              \E c \in lines[i].indent..Size(lines[i]) : x = Place(i, c)
        BY <3>2
      <4>2. PICK c \in lines[i].indent..Size(lines[i]) : x = Place(i, c)
        BY <4>1
      <4>3. i \in 1..Len(lines)
        BY PlacedLines
      <4>4. lines[i] \in Line
        BY <4>3 DEF WrapInv, Sized
      <4>5. lines[i].indent \in Nat /\ Size(lines[i]) \in Nat
        BY <4>4, SizeType DEF Line
      <4> QED BY <4>2, <4>3, <4>5 DEF Place, Where
    <3> HIDE DEF places
    <3> QED BY <3>1, <3>2 DEF Expressed
  <2> QED BY <1>1, <2>1, <2>2
<1>4. /\ output' \in Seq(Where) /\ Len(output') = 1 /\ output'[1] = Added
      /\ Range(output') = {Added}
  BY <1>1, OneIsOrdered, MarkersType
<1>5. Ordered(output)'
  BY <1>4 DEF Ordered
<1>6. DisplayBegin \notin Range(output') /\ DisplayEnd \notin Range(output')
  BY <1>4, MarkersDiffer
<1>7. MarkersWritten'
  BY <1>1, <1>6 DEF MarkersWritten
<1>8. Upto(output, Place(body[emitted + 1], 0))'
  <2>1. \A x \in Range(output') : ~Mapped(x)'
    BY <1>4, MarkersType DEF Mapped
  <2> QED BY <1>4, <1>5, <1>6, <2>1 DEF Upto
<1>9. emitted' <= Len(body')
  BY <1>1, BodyLines
<1> QED BY <1>1, <1>2, <1>3, <1>4, <1>5, <1>7, <1>8, <1>9 DEF ShownInv

LEMMA EmitMappedLineShows ==
  ASSUME Inv, WrapInv, ShownInv, EmitMappedLine
  PROVE  ShownInv'
<1> DEFINE l     == body[emitted + 1]
           a     == IF Starts(l) THEN trailing.start.column ELSE 0
           b     == IF Ends(l) THEN trailing.end.column ELSE a
           n     == Size(lines[l])
           begin == IF Starts(l) THEN <<DisplayBegin>> ELSE <<>>
           end   == IF Ends(l) THEN <<DisplayEnd>> ELSE <<>>
           o1    == output \o <<Added>>
           o2    == o1 \o Text(l, 0, a)
           o3    == o2 \o begin
           o4    == o3 \o Text(l, a, b)
           o5    == o4 \o end
           o6    == o5 \o Text(l, b, n)
           o7    == o6 \o <<Added>>
<1>1. /\ output' = o7 /\ emitted' = emitted + 1
      /\ UNCHANGED <<lines, pc, trailing, body>> /\ pc = "body"
      /\ emitted < Len(body)
  BY DEF EmitMappedLine, partition
<1>2. emitted \in Nat /\ Len(body) \in Nat /\ emitted + 1 \in 1..Len(body)
  BY <1>1, BodyLines DEF WrapInv
<1>3. l \in 1..Len(lines) /\ l \in Nat \ {0}
  BY <1>2, BodyLines
<1>4. lines[l] \in Line /\ n \in Nat
  BY <1>3, SizeType DEF WrapInv, Sized
<1>5. /\ Expressed /\ MarkersWritten
      /\ output \in Seq(Where) /\ Upto(output, Place(l, 0))
  BY <1>1 DEF ShownInv, Dividing
<1>6. /\ a \in Nat /\ b \in Nat /\ a <= b /\ b <= n
      /\ Starts(l) => trailing.start.line = l /\ trailing.start.column = a
      /\ ~Starts(l) => a = 0
      /\ Ends(l) => trailing.end.line = l /\ trailing.end.column = b
      /\ ~Ends(l) => b = a
  <2>1. /\ Starts(l) => trailing.start.column \in 0..n
        /\ Ends(l) => trailing.end.column \in 0..n
        /\ Starts(l) /\ Ends(l) => trailing.start.column <= trailing.end.column
    BY <1>1, <1>3 DEF WrapInv, Dividing, TrailingInText
  <2> HIDE DEF l, n
  <2> QED BY <1>4, <2>1 DEF Starts, Ends
<1>7. /\ Starts(l) => DisplayBegin \notin Range(output)
      /\ Ends(l) => DisplayEnd \notin Range(output)
  <2>1. ASSUME NEW k \in 1..emitted PROVE body[k] # l
    <3>1. k \in 1..Len(body) /\ k < emitted + 1
      BY <1>2
    <3>2. body[k] < l /\ body[k] \in 1..Len(lines)
      BY <1>2, <3>1, BodyLines
    <3> QED BY <3>2
  <2> QED BY <1>5, <2>1 DEF MarkersWritten, Starts, Ends
<1> HIDE DEF l, a, b, n
<1>8. /\ Place(l, 0) \in Where /\ Place(l, a) \in Where /\ Place(l, b) \in Where
      /\ Place(l, n) \in Where
      /\ \A c : Place(l, c).line = l /\ Place(l, c).column = c
  BY <1>3, <1>4, <1>6 DEF Place, Where
<1>9. /\ Upto(o1, Place(l, 0))
      /\ DisplayBegin \in Range(o1) <=> DisplayBegin \in Range(output)
      /\ DisplayEnd \in Range(o1) <=> DisplayEnd \in Range(output)
  BY <1>5, <1>8, MarkerAdvances, MarkersDiffer
<1> HIDE DEF o1
<1>10. /\ Upto(o2, Place(l, a))
       /\ DisplayBegin \in Range(o2) <=> DisplayBegin \in Range(output)
       /\ DisplayEnd \in Range(o2) <=> DisplayEnd \in Range(output)
  <2>1. 0 \in Nat /\ 0 <= a
    BY <1>6
  <2>2. /\ Upto(o2, Place(l, a))
        /\ DisplayBegin \in Range(o2) <=> DisplayBegin \in Range(o1)
        /\ DisplayEnd \in Range(o2) <=> DisplayEnd \in Range(o1)
    BY <1>3, <1>5, <1>6, <1>9, <2>1, TextAdvances
  <2> QED BY <1>9, <2>2
<1> HIDE DEF o2
<1>11. /\ Upto(o3, Place(l, a))
       /\ DisplayBegin \in Range(o3) <=> DisplayBegin \in Range(output) \/ Starts(l)
       /\ DisplayEnd \in Range(o3) <=> DisplayEnd \in Range(output)
  <2>1. CASE Starts(l)
    <3>1. o3 = o2 \o <<DisplayBegin>>
      BY <2>1
    <3>2. /\ Upto(o3, Place(l, a))
          /\ DisplayBegin \in Range(o3)
          /\ DisplayEnd \in Range(o3) <=> DisplayEnd \in Range(o2)
      BY <1>5, <1>6, <1>7, <1>8, <1>10, <2>1, <3>1, MarkerAdvances, MarkersDiffer
    <3> QED BY <1>10, <2>1, <3>2
  <2>2. CASE ~Starts(l)
    <3>1. o2 \in Seq(Where)
      BY <1>10 DEF Upto
    <3>2. o3 = o2
      BY <2>2, <3>1
    <3> QED BY <1>10, <2>2, <3>2
  <2> QED BY <2>1, <2>2
<1> HIDE DEF o3
<1>12. /\ Upto(o4, Place(l, b))
       /\ DisplayBegin \in Range(o4) <=> DisplayBegin \in Range(output) \/ Starts(l)
       /\ DisplayEnd \in Range(o4) <=> DisplayEnd \in Range(output)
  <2>1. /\ Upto(o4, Place(l, b))
        /\ DisplayBegin \in Range(o4) <=> DisplayBegin \in Range(o3)
        /\ DisplayEnd \in Range(o4) <=> DisplayEnd \in Range(o3)
    BY <1>3, <1>5, <1>6, <1>11, TextAdvances
  <2> QED BY <1>11, <2>1
<1> HIDE DEF o4
<1>13. /\ Upto(o5, Place(l, b))
       /\ DisplayBegin \in Range(o5) <=> DisplayBegin \in Range(output) \/ Starts(l)
       /\ DisplayEnd \in Range(o5) <=> DisplayEnd \in Range(output) \/ Ends(l)
  <2>1. CASE Ends(l)
    <3>1. o5 = o4 \o <<DisplayEnd>>
      BY <2>1
    <3>2. DisplayEnd \notin Range(o4)
      BY <1>7, <1>12, <2>1
    <3>3. /\ Place(l, b) \in Where
          /\ Place(l, b).line = trailing.end.line
          /\ Place(l, b).column = trailing.end.column
      BY <1>6, <1>8, <2>1
    <3>4. /\ Upto(o5, Place(l, b))
          /\ DisplayEnd \in Range(o5)
          /\ DisplayBegin \in Range(o5) <=> DisplayBegin \in Range(o4)
      <4>1. Upto(o4, Place(l, b)) /\ Expressed
        BY <1>5, <1>12
      <4> QED BY <3>1, <3>2, <3>3, <4>1, MarkerAdvances, MarkersDiffer
    <3> QED BY <1>12, <2>1, <3>4
  <2>2. CASE ~Ends(l)
    <3>1. o4 \in Seq(Where)
      BY <1>12 DEF Upto
    <3>2. o5 = o4
      BY <2>2, <3>1
    <3> QED BY <1>12, <2>2, <3>2
  <2> QED BY <2>1, <2>2
<1> HIDE DEF o5
<1>14. /\ Upto(o6, Place(l, n))
       /\ DisplayBegin \in Range(o6) <=> DisplayBegin \in Range(output) \/ Starts(l)
       /\ DisplayEnd \in Range(o6) <=> DisplayEnd \in Range(output) \/ Ends(l)
  <2>1. /\ Upto(o6, Place(l, n))
        /\ DisplayBegin \in Range(o6) <=> DisplayBegin \in Range(o5)
        /\ DisplayEnd \in Range(o6) <=> DisplayEnd \in Range(o5)
    BY <1>3, <1>4, <1>5, <1>6, <1>13, TextAdvances
  <2> QED BY <1>13, <2>1
<1> HIDE DEF o6
<1>15. /\ Upto(output', Place(l, n))
       /\ DisplayBegin \in Range(output') <=>
            DisplayBegin \in Range(output) \/ Starts(l)
       /\ DisplayEnd \in Range(output') <=> DisplayEnd \in Range(output) \/ Ends(l)
  <2>1. /\ Upto(o7, Place(l, n))
        /\ DisplayBegin \in Range(o7) <=> DisplayBegin \in Range(o6)
        /\ DisplayEnd \in Range(o7) <=> DisplayEnd \in Range(o6)
    BY <1>5, <1>8, <1>14, MarkerAdvances, MarkersDiffer
  <2> QED BY <1>1, <1>14, <2>1
<1>16. MarkersWritten'
  <2>1. \A k : k \in 1..emitted' <=> k \in 1..emitted \/ k = emitted + 1
    BY <1>1, <1>2
  <2> QED BY <1>1, <1>5, <1>15, <2>1 DEF MarkersWritten, Starts, Ends, l
<1>17. output' \in Seq(Where) /\ Ordered(output)'
  BY <1>1, <1>15 DEF Upto, Ordered, MayPrecede, Mapped
<1>18. emitted' < Len(body') => Upto(output, Place(body[emitted + 1], 0))'
  <2> SUFFICES ASSUME emitted' < Len(body')
               PROVE  Upto(output, Place(body[emitted + 1], 0))'
    OBVIOUS
  <2> DEFINE m == body[emitted + 2]
  <2>1. m \in Nat /\ l < m
    <3>1. emitted + 2 \in 1..Len(body) /\ emitted + 1 < emitted + 2
      BY <1>1, <1>2
    <3> QED BY <1>2, <3>1, BodyLines DEF l
  <2>2. body'[emitted' + 1] = m
    BY <1>1, <1>2
  <2> HIDE DEF m
  <2>3. Place(m, 0) \in Where /\ ~Before(Place(m, 0), Place(l, n))
    BY <1>3, <2>1 DEF Place, Where, Before
  <2>4. Upto(output', Place(m, 0))
    BY <1>5, <1>8, <1>15, <2>3, Advances
  <2>5. Upto(output', Place(body'[emitted' + 1], 0))
    BY <2>2, <2>4
  <2> QED BY <1>1, <1>17, <2>5 DEF Upto, Mapped
<1>19. ~Dividing' /\ Expressed' /\ emitted' <= Len(body')
  BY <1>1, <1>2, <1>5 DEF Dividing, Expressed
<1> QED BY <1>1, <1>16, <1>17, <1>18, <1>19 DEF ShownInv, Dividing

\* A text without markers and without text of the body.
LEMMA UnmappedKeepsOrder ==
  ASSUME NEW text \in Seq(Where), NEW more \in Seq(Where), Ordered(text),
         \A y \in Range(more) : ~Mapped(y) /\ y # DisplayBegin /\ y # DisplayEnd
  PROVE  /\ text \o more \in Seq(Where) /\ Ordered(text \o more)
         /\ Range(text \o more) = Range(text) \union Range(more)
<1>1. Ordered(more)
  <2>1. \A i \in 1..Len(more) : more[i] \in Range(more)
    BY RangeOfText
  <2> QED BY <2>1 DEF Ordered, MayPrecede
<1>2. \A x \in Range(text), y \in Range(more) : MayPrecede(x, y)
  BY DEF MayPrecede
<1> QED BY <1>1, <1>2, OrderedConcat

LEMMA AddedKeepsOrder ==
  ASSUME NEW text \in Seq(Where), Ordered(text)
  PROVE  /\ text \o <<Added>> \in Seq(Where) /\ Ordered(text \o <<Added>>)
         /\ Range(text \o <<Added>>) = Range(text) \union {Added}
<1> DEFINE more == <<Added>>
<1>1. more \in Seq(Where) /\ Range(more) = {Added}
  BY OneIsOrdered, MarkersType
<1> HIDE DEF more
<1>2. \A y \in Range(more) : ~Mapped(y) /\ y # DisplayBegin /\ y # DisplayEnd
  BY <1>1, MarkersDiffer
<1>3. /\ text \o more \in Seq(Where) /\ Ordered(text \o more)
      /\ Range(text \o more) = Range(text) \union Range(more)
  BY <1>1, <1>2, UnmappedKeepsOrder
<1> QED BY <1>1, <1>3 DEF more

\* What is written after the body keeps the markers where they are.
LEMMA OutputGrows ==
  ASSUME Inv, ShownInv, UNCHANGED <<trailing, body>>,
         pc \in {"body", "topLevel"}, pc' \in {"topLevel", "done"},
         output' \in Seq(Where), Ordered(output'),
         Range(output) \subseteq Range(output'),
         pc = "body" => emitted = Len(body)
  PROVE  ShownInv'
<1>1. ~Dividing /\ ~Dividing' /\ Expressed
  BY DEF ShownInv, Dividing
<1>2. Expressed' /\ (InBody' <=> InBody) /\ Ordered(output)'
  BY <1>1 DEF Expressed, InBody, Ordered, MayPrecede, Mapped
<1>3. InBody =>
        DisplayBegin \in Range(output) /\ DisplayEnd \in Range(output)
  <2>1. CASE pc = "body"
    <3>1. MarkersWritten /\ emitted = Len(body)
      BY <2>1 DEF ShownInv
    <3>2. \A l \in Range(body) : \E k \in 1..emitted : body[k] = l
      BY <3>1, BodyLines
    <3> QED BY <3>1, <3>2 DEF InBody, MarkersWritten, Starts, Ends
  <2>2. CASE pc = "topLevel"
    BY <2>2 DEF ShownInv
  <2> QED BY <2>1, <2>2
<1> QED BY <1>1, <1>2, <1>3 DEF ShownInv

LEMMA EmitTopLevelLineShows ==
  ASSUME Inv, WrapInv, ShownInv, EmitTopLevelLine
  PROVE  ShownInv'
<1> DEFINE l    == topLevel[emitted + 1]
           n    == Size(lines[l])
           copy == Text(l, 0, n)
<1>1. /\ output' = output \o copy \o <<Added>>
      /\ pc = "topLevel" /\ pc' = pc /\ UNCHANGED <<trailing, body>>
      /\ emitted < Len(topLevel)
  BY DEF EmitTopLevelLine, partition
<1>2. /\ topLevel \in Seq(1..(line - 1)) /\ line \in 1..(Len(lines) + 1)
      /\ Len(lines) \in Nat /\ Len(topLevel) \in Nat
      /\ Range(topLevel) \intersect Range(body) = {}
  BY LenProperties DEF Inv, InOrder, LinesArePlaced
<1>3. emitted + 1 \in 1..Len(topLevel)
  BY <1>1, <1>2 DEF WrapInv
<1>4. l \in 1..Len(lines) /\ l \in Nat \ {0} /\ l \notin Range(body)
  <2>1. DOMAIN topLevel = 1..Len(topLevel)
    BY <1>2
  <2>2. l \in Range(topLevel)
    BY <1>3, <2>1 DEF Range
  <2>3. \A i \in 1..Len(topLevel) : topLevel[i] \in 1..(line - 1)
    BY <1>2
  <2> QED BY <1>2, <1>3, <2>2, <2>3
<1>5. n \in Nat
  BY <1>4, SizeType DEF WrapInv, Sized
<1> HIDE DEF l, n
<1>6. /\ copy \in Seq(Where)
      /\ \A y \in Range(copy) : y \in Where /\ y.line = l
  <2>1. 0 \in Nat /\ 0 <= n
    BY <1>5
  <2> QED BY <1>4, <1>5, <2>1, TextIsOrdered
<1> HIDE DEF copy
<1>7. \A y \in Range(copy) :
        ~Mapped(y) /\ y # DisplayBegin /\ y # DisplayEnd
  BY <1>4, <1>6, MarkersType DEF Mapped
<1>8. output \in Seq(Where) /\ Ordered(output)
  BY DEF ShownInv
<1>9. /\ output \o copy \in Seq(Where) /\ Ordered(output \o copy)
      /\ Range(output \o copy) = Range(output) \union Range(copy)
  BY <1>6, <1>7, <1>8, UnmappedKeepsOrder
<1>10. /\ output' \in Seq(Where) /\ Ordered(output')
       /\ Range(output) \subseteq Range(output')
  BY <1>1, <1>9, AddedKeepsOrder
<1> QED BY <1>1, <1>10, OutputGrows

LEMMA EndsShow ==
  ASSUME Inv, ShownInv, EmitEpilogue \/ EndWrapper
  PROVE  ShownInv'
<1>1. /\ output' = Append(output, Added) /\ UNCHANGED <<trailing, body>>
      /\ pc \in {"body", "topLevel"} /\ pc' \in {"topLevel", "done"}
      /\ pc = "body" => emitted = Len(body)
  BY DEF EmitEpilogue, EndWrapper, partition
<1>2. output \in Seq(Where) /\ Ordered(output)
  BY DEF ShownInv
<1>3. output' = output \o <<Added>>
  BY <1>1, <1>2, MarkersType
<1>4. /\ output' \in Seq(Where) /\ Ordered(output')
      /\ Range(output) \subseteq Range(output')
  BY <1>2, <1>3, AddedKeepsOrder
<1> QED BY <1>1, <1>4, OutputGrows

LEMMA InitShows == Init => ShownInv
<1> SUFFICES ASSUME Init PROVE ShownInv
  OBVIOUS
<1>1. output = <<>> /\ emitted = 0 /\ pc = "split"
  BY DEF Init
<1>2. <<>> \in Seq(Where) /\ Ordered(<<>>)
  BY DEF Ordered
<1> QED BY <1>1, <1>2 DEF ShownInv, Dividing

LEMMA NextShows == Inv /\ WrapInv /\ ShownInv /\ [Next]_vars => ShownInv'
<1> SUFFICES ASSUME Inv, WrapInv, ShownInv, [Next]_vars PROVE ShownInv'
  OBVIOUS
<1>1. ASSUME Dividing, Dividing', UNCHANGED <<output, emitted>>
      PROVE  ShownInv'
  <2>1. output = <<>> /\ emitted = 0
    BY <1>1 DEF ShownInv
  <2>2. Ordered(output)' /\ output' \in Seq(Where)
    BY <1>1, <2>1 DEF Ordered
  <2> QED BY <1>1, <2>1, <2>2 DEF ShownInv, Dividing
<1>2. CASE Split
  BY <1>1, <1>2 DEF Split, wrapper, Dividing
<1>3. CASE TakeTopLevelStatement \/ TakeHeaderLine \/ TakeSuiteLine
  BY <1>1, <1>3
  DEF TakeTopLevelStatement, TakeHeaderLine, TakeSuiteLine, wrapper, Dividing
<1>4. CASE EndSuite \/ PlaceLine
  BY <1>1, <1>4 DEF EndSuite, PlaceLine, wrapper, Dividing
<1>5. CASE BeginWrapper
  BY <1>5, BeginWrapperShows
<1>6. CASE EmitMappedLine
  BY <1>6, EmitMappedLineShows
<1>7. CASE EmitTopLevelLine
  BY <1>7, EmitTopLevelLineShows
<1>8. CASE EmitEpilogue \/ EndWrapper
  BY <1>8, EndsShow
<1>9. CASE UNCHANGED vars
  BY <1>9
  DEF vars, wrapper, partition, ShownInv, Dividing, Expressed, InBody,
      MarkersWritten, Starts, Ends, Upto, Ordered, MayPrecede, Mapped
<1> QED BY <1>2, <1>3, <1>4, <1>5, <1>6, <1>7, <1>8, <1>9 DEF Next

\* What the wrapper displays is the trailing expression from its first character to
\* its last, and nothing else of the body, for every cell and every expression of the
\* body: emitMappedLine.
THEOREM DisplayIsExact == Spec => []ExpressionIsDisplayed
<1>1. Spec => []ShownInv
  BY InitInv, NextInv, InitMaps, NextMaps, InitShows, NextShows, PTL DEF Spec
<1> QED BY <1>1, ShownIsDisplayed, PTL

-----------------------------------------------------------------------------
OpenIn(cell) == {i \in DOMAIN cell : cell[i].kind \in Opening}
CloseIn(cell) == {i \in DOMAIN cell : cell[i].kind \in Closing}
Below(set, n) == {i \in set : i < n}

\* A partner pairs the closing brackets before a position with opening ones, which
\* nest.
PairsUpTo(cell, p, n) ==
  /\ \A c \in Below(CloseIn(cell), n) :
       /\ p[c] \in OpenIn(cell) /\ p[c] < c
       /\ ClosingOf[cell[p[c]].kind] = cell[c].kind
  /\ \A c, d \in Below(CloseIn(cell), n) : c # d => p[c] # p[d]
  /\ \A c \in Below(CloseIn(cell), n), o \in OpenIn(cell) :
       p[c] < o /\ o < c => \E d \in CloseIn(cell) : d < c /\ p[d] = o

Unclosed(cell, p, n) ==
  {o \in Below(OpenIn(cell), n) : \A c \in Below(CloseIn(cell), n) : p[c] # o}

\* The stack has the kinds of the brackets that are not closed, from the left.
Stacks(cell, stack, s) ==
  /\ s \in Seq(Nat) /\ Len(s) = Len(stack)
  /\ \A i, j \in 1..Len(s) : i < j => s[i] < s[j]
  /\ \A i \in 1..Len(s) : stack[i] = cell[s[i]].kind

IsStack(cell, stack, p, n) ==
  \E s : Stacks(cell, stack, s) /\ Range(s) = Unclosed(cell, p, n)

LEMMA BracketsDiffer ==
  /\ Opening \intersect Closing = {}
  /\ \A b \in Opening : ClosingOf[b] \in Closing
BY DEF Opening, Closing, ClosingOf

LEMMA PositionsInCell ==
  ASSUME NEW cell \in Seq(Token)
  PROVE  /\ Len(cell) \in Nat /\ DOMAIN cell = 1..Len(cell)
         /\ OpenIn(cell) \subseteq 1..Len(cell) /\ CloseIn(cell) \subseteq 1..Len(cell)
         /\ OpenIn(cell) \intersect CloseIn(cell) = {}
BY LenProperties, BracketsDiffer DEF OpenIn, CloseIn

\* One more position.
LEMMA BelowGrows ==
  ASSUME NEW n \in Nat, NEW set, set \subseteq Nat
  PROVE  /\ n \in set => Below(set, n + 1) = Below(set, n) \union {n}
         /\ n \notin set => Below(set, n + 1) = Below(set, n)
         /\ n \notin Below(set, n)
         /\ \A i \in Below(set, n) : i \in set /\ i \in Nat /\ i < n
<1>1. \A i \in set : i \in Nat /\ (i < n + 1 <=> i < n \/ i = n)
  OBVIOUS
<1>2. n \in set => Below(set, n + 1) = Below(set, n) \union {n}
  BY <1>1 DEF Below
<1>3. n \notin set => Below(set, n + 1) = Below(set, n)
  BY <1>1 DEF Below
<1>4. n \notin Below(set, n) /\ \A i \in Below(set, n) : i \in set /\ i \in Nat /\ i < n
  BY <1>1 DEF Below
<1> QED BY <1>2, <1>3, <1>4

LEMMA PairsBefore ==
  ASSUME NEW cell \in Seq(Token), NEW p, NEW n \in 1..Len(cell),
         PairsUpTo(cell, p, n + 1)
  PROVE  PairsUpTo(cell, p, n)
<1>1. CloseIn(cell) \subseteq Nat /\ n \in Nat
  BY PositionsInCell
<1>2. Below(CloseIn(cell), n) \subseteq Below(CloseIn(cell), n + 1)
  BY <1>1, BelowGrows
<1> QED BY <1>2 DEF PairsUpTo

LEMMA PairsStay ==
  ASSUME NEW cell \in Seq(Token), NEW p, NEW n \in 1..Len(cell),
         PairsUpTo(cell, p, n), n \notin CloseIn(cell)
  PROVE  PairsUpTo(cell, p, n + 1)
<1>1. CloseIn(cell) \subseteq Nat /\ n \in Nat
  BY PositionsInCell
<1>2. Below(CloseIn(cell), n) = Below(CloseIn(cell), n + 1)
  BY <1>1, BelowGrows
<1> QED BY <1>2 DEF PairsUpTo

LEMMA StackStays ==
  ASSUME NEW cell \in Seq(Token), NEW p, NEW n \in 1..Len(cell), NEW stack,
         IsStack(cell, stack, p, n), n \notin CloseIn(cell), n \notin OpenIn(cell)
  PROVE  IsStack(cell, stack, p, n + 1)
<1>1. CloseIn(cell) \subseteq Nat /\ OpenIn(cell) \subseteq Nat /\ n \in Nat
  BY PositionsInCell
<1>2. /\ Below(CloseIn(cell), n) = Below(CloseIn(cell), n + 1)
      /\ Below(OpenIn(cell), n) = Below(OpenIn(cell), n + 1)
  BY <1>1, BelowGrows
<1>3. Unclosed(cell, p, n + 1) = Unclosed(cell, p, n)
  BY <1>2 DEF Unclosed
<1> QED BY <1>3 DEF IsStack

LEMMA StackOpens ==
  ASSUME NEW cell \in Seq(Token), NEW p, NEW n \in 1..Len(cell), NEW stack \in Seq(Opening),
         PairsUpTo(cell, p, n), IsStack(cell, stack, p, n), n \in OpenIn(cell)
  PROVE  IsStack(cell, Append(stack, cell[n].kind), p, n + 1)
<1> DEFINE O == OpenIn(cell)
           C == CloseIn(cell)
<1>1. C \subseteq Nat /\ O \subseteq Nat /\ n \in Nat /\ n \notin C
  BY PositionsInCell
<1>2. /\ Below(C, n) = Below(C, n + 1)
      /\ Below(O, n + 1) = Below(O, n) \union {n}
      /\ \A i \in Below(O, n) : i \in Nat /\ i < n
      /\ \A i \in Below(C, n) : i \in Nat /\ i < n
  BY <1>1, BelowGrows
<1>3. Unclosed(cell, p, n + 1) = Unclosed(cell, p, n) \union {n}
  <2>1. \A c \in Below(C, n) : p[c] \in Nat /\ p[c] < c
    BY <1>1 DEF PairsUpTo
  <2>2. \A c \in Below(C, n) : p[c] # n
    BY <1>1, <1>2, <2>1
  <2> QED BY <1>2, <2>2 DEF Unclosed
<1>4. PICK s : Stacks(cell, stack, s) /\ Range(s) = Unclosed(cell, p, n)
  BY DEF IsStack
<1> DEFINE m == Len(s)
<1>5. s \in Seq(Nat) /\ m \in Nat /\ DOMAIN s = 1..m /\ m = Len(stack)
  BY <1>4, LenProperties DEF Stacks
<1>6. PICK t : t = Append(s, n)
  OBVIOUS
<1>7. /\ t \in Seq(Nat) /\ Len(t) = m + 1 /\ t[m + 1] = n /\ DOMAIN t = 1..(m + 1)
      /\ \A i \in 1..m : t[i] = s[i]
  <2>1. t \in Seq(Nat) /\ Len(t) = m + 1
    BY <1>1, <1>5, <1>6, AppendProperties
  <2> QED BY <1>1, <1>5, <1>6, <2>1, AppendProperties, LenProperties
<1>8. PICK more : more = Append(stack, cell[n].kind)
  OBVIOUS
<1>9. /\ Len(more) = m + 1 /\ more[m + 1] = cell[n].kind
      /\ \A i \in 1..m : more[i] = stack[i]
  <2>1. cell[n].kind \in Opening
    BY DEF OpenIn
  <2> QED BY <1>5, <1>8, <2>1, AppendProperties
<1> HIDE DEF m
<1>10. \A i \in 1..(m + 1) : i \in 1..m \/ i = m + 1
  BY <1>5
<1>11. \A i \in 1..m : i \in 1..(m + 1) /\ s[i] \in Below(O, n)
  <2>1. \A i \in 1..m : s[i] \in Unclosed(cell, p, n)
    BY <1>4, <1>5 DEF Range
  <2> QED BY <1>5, <2>1 DEF Unclosed
<1>12. Range(t) = Range(s) \union {n}
  <2>1. m + 1 \in 1..(m + 1)
    BY <1>5
  <2> QED BY <1>5, <1>7, <1>10, <1>11, <2>1 DEF Range
<1>13. ASSUME NEW i \in 1..(m + 1), NEW j \in 1..(m + 1), i < j
       PROVE  t[i] < t[j]
  <2>1. i \in 1..m
    BY <1>5, <1>13
  <2>2. CASE j = m + 1
    BY <1>2, <1>7, <1>11, <2>1, <2>2
  <2>3. CASE j \in 1..m
    <3>1. s[i] < s[j]
      BY <1>4, <1>13, <2>1, <2>3 DEF Stacks, m
    <3> QED BY <1>7, <2>1, <2>3, <3>1
  <2> QED BY <1>10, <2>2, <2>3
<1>14. \A i \in 1..(m + 1) : more[i] = cell[t[i]].kind
  <2>1. \A i \in 1..m : stack[i] = cell[s[i]].kind
    BY <1>4 DEF Stacks, m
  <2> QED BY <1>7, <1>9, <1>10, <2>1
<1>15. Stacks(cell, more, t)
  BY <1>7, <1>9, <1>13, <1>14 DEF Stacks
<1>16. Range(t) = Unclosed(cell, p, n + 1)
  BY <1>3, <1>4, <1>12
<1> QED BY <1>8, <1>15, <1>16 DEF IsStack

\* A closing bracket that nests closes the last one that is open.
LEMMA StackCloses ==
  ASSUME NEW cell \in Seq(Token), NEW p, NEW n \in 1..Len(cell), NEW stack \in Seq(Opening),
         PairsUpTo(cell, p, n + 1), IsStack(cell, stack, p, n), n \in CloseIn(cell)
  PROVE  /\ Closes(stack, cell[n].kind)
         /\ IsStack(cell, Front(stack), p, n + 1)
<1> DEFINE O == OpenIn(cell)
           C == CloseIn(cell)
           o == p[n]
<1>1. C \subseteq Nat /\ O \subseteq Nat /\ n \in Nat /\ n \notin O
  BY PositionsInCell
<1>2. /\ Below(C, n + 1) = Below(C, n) \union {n}
      /\ Below(O, n + 1) = Below(O, n)
      /\ n \notin Below(C, n)
      /\ \A i \in Below(O, n) : i \in O /\ i \in Nat /\ i < n
      /\ \A i \in Below(C, n) : i \in C /\ i \in Nat /\ i < n
  BY <1>1, BelowGrows
<1>3. /\ o \in O /\ o < n /\ o \in Nat /\ ClosingOf[cell[o].kind] = cell[n].kind
      /\ \A c \in Below(C, n) : p[c] # o
      /\ \A x \in O : o < x /\ x < n => \E d \in C : d < n /\ p[d] = x
  BY <1>1, <1>2 DEF PairsUpTo
<1>4. o \in Unclosed(cell, p, n)
  BY <1>3 DEF Unclosed, Below
<1>5. Unclosed(cell, p, n + 1) = Unclosed(cell, p, n) \ {o}
  BY <1>2 DEF Unclosed
<1>6. PICK s : Stacks(cell, stack, s) /\ Range(s) = Unclosed(cell, p, n)
  BY DEF IsStack
<1> DEFINE m == Len(s)
<1>7. s \in Seq(Nat) /\ m \in Nat /\ DOMAIN s = 1..m /\ m = Len(stack)
  BY <1>6, LenProperties DEF Stacks
<1>8. PICK k \in 1..m : s[k] = o
  BY <1>4, <1>6, <1>7 DEF Range
<1>9. m \in 1..m /\ m # 0
  BY <1>7, <1>8
<1>10. s[m] = o
  <2>1. s[m] \in Unclosed(cell, p, n)
    BY <1>6, <1>7, <1>9 DEF Range
  <2>2. s[m] \in O /\ s[m] < n /\ \A d \in C : d < n => p[d] # s[m]
    BY <1>2, <2>1 DEF Unclosed, Below
  <2>3. ~(o < s[m])
    BY <1>3, <2>2
  <2>4. k < m => s[k] < s[m]
    BY <1>6, <1>8, <1>9 DEF Stacks
  <2> HIDE DEF m, o
  <2>5. k = m
    BY <1>7, <1>8, <2>3, <2>4
  <2> QED BY <1>8, <2>5
<1>11. stack # <<>> /\ Last(stack) = cell[o].kind
  <2>1. stack[m] = cell[s[m]].kind
    BY <1>6, <1>9 DEF Stacks
  <2>2. Last(stack) = stack[m]
    BY <1>7 DEF Last
  <2>3. stack # <<>>
    BY <1>7, <1>9, EmptySeq
  <2> QED BY <1>10, <2>1, <2>2, <2>3
<1>12. Closes(stack, cell[n].kind)
  BY <1>3, <1>11 DEF Closes
<1>13. PICK q \in Nat : q = m - 1
  <2>1. m \in Nat /\ m # 0
    BY <1>7, <1>9
  <2> HIDE DEF m
  <2>2. m - 1 \in Nat
    BY <2>1
  <2> QED BY <2>2
<1>14. m = q + 1
  BY <1>7, <1>13
<1> DEFINE t == [i \in 1..q |-> s[i]]
<1> HIDE DEF m, o
<1>15. \A i \in 1..q : i \in 1..m /\ i < m
  BY <1>13, <1>14
<1>16. t \in Seq(Nat) /\ Len(t) = q /\ DOMAIN t = 1..q /\ \A i \in 1..q : t[i] = s[i]
  <2>1. \A i \in 1..q : s[i] \in Nat
    BY <1>7, <1>15, ElementOfSeq DEF m
  <2> QED BY <1>13, <2>1
<1>17. /\ Front(stack) \in Seq(Opening) /\ Len(Front(stack)) = q
       /\ \A i \in 1..q : Front(stack)[i] = stack[i]
  <2>1. Front(stack) = SubSeq(stack, 1, q)
    BY <1>7, <1>13 DEF Front
  <2>2. \A i \in 1..q : stack[i] \in Opening
    BY <1>7, <1>15, ElementOfSeq
  <2>3. SubSeq(stack, 1, q) = [i \in 1..q |-> stack[i]]
    BY <1>13
  <2> QED BY <1>13, <2>1, <2>2, <2>3
<1> HIDE DEF t
<1>18. Stacks(cell, Front(stack), t)
  <2>1. \A i, j \in 1..q : i < j => t[i] < t[j]
    BY <1>6, <1>15, <1>16 DEF Stacks, m
  <2>2. \A i \in 1..q : Front(stack)[i] = cell[t[i]].kind
    BY <1>6, <1>15, <1>16, <1>17 DEF Stacks, m
  <2> QED BY <1>16, <1>17, <2>1, <2>2 DEF Stacks
<1>19. Range(t) = Range(s) \ {o}
  <2>1. \A i \in 1..m : i = m \/ i \in 1..q
    BY <1>7, <1>13, <1>14
  <2>2. \A i \in 1..q : s[i] < s[m]
    BY <1>6, <1>9, <1>15 DEF Stacks, m
  <2>3. \A i \in 1..m : s[i] \in Nat
    BY <1>7, ElementOfSeq DEF m
  <2>4. \A i \in 1..q : s[i] # o
    BY <1>9, <1>10, <1>15, <2>2, <2>3
  <2> QED BY <1>7, <1>10, <1>15, <1>16, <2>1, <2>4 DEF Range
<1>20. Range(t) = Unclosed(cell, p, n + 1)
  BY <1>5, <1>6, <1>19
<1>21. IsStack(cell, Front(stack), p, n + 1)
  BY <1>18, <1>20 DEF IsStack
<1> QED BY <1>12, <1>21

\* A bracket that closes the last one that is open nests.
LEMMA ClosingPairs ==
  ASSUME NEW cell \in Seq(Token), NEW p \in [CloseIn(cell) -> Nat], NEW n \in 1..Len(cell),
         NEW stack \in Seq(Opening),
         PairsUpTo(cell, p, n), IsStack(cell, stack, p, n), n \in CloseIn(cell),
         Closes(stack, cell[n].kind)
  PROVE  \E q \in [CloseIn(cell) -> Nat] : PairsUpTo(cell, q, n + 1)
<1> DEFINE O == OpenIn(cell)
           C == CloseIn(cell)
<1>1. C \subseteq Nat /\ O \subseteq Nat /\ n \in Nat /\ n \notin O
  BY PositionsInCell
<1>2. /\ Below(C, n + 1) = Below(C, n) \union {n}
      /\ n \notin Below(C, n)
      /\ \A i \in Below(O, n) : i \in O /\ i \in Nat /\ i < n
      /\ \A i \in Below(C, n) : i \in C /\ i \in Nat /\ i < n
  BY <1>1, BelowGrows
<1>3. PICK s : Stacks(cell, stack, s) /\ Range(s) = Unclosed(cell, p, n)
  BY DEF IsStack
<1> DEFINE m == Len(s)
           o == s[m]
<1>4. s \in Seq(Nat) /\ m \in Nat /\ DOMAIN s = 1..m /\ m = Len(stack)
  BY <1>3, LenProperties DEF Stacks
<1>5. m \in 1..m
  <2>1. stack # <<>>
    BY DEF Closes
  <2>2. Len(stack) \in Nat \ {0}
    BY <2>1, EmptySeq
  <2> QED BY <1>4, <2>2
<1>6. ClosingOf[cell[o].kind] = cell[n].kind
  <2>1. Last(stack) = stack[m]
    BY <1>4 DEF Last
  <2>2. stack[m] = cell[o].kind
    BY <1>3, <1>5 DEF Stacks
  <2> QED BY <2>1, <2>2 DEF Closes
<1>7. o \in Unclosed(cell, p, n)
  BY <1>3, <1>4, <1>5 DEF Range
<1>8. o \in O /\ o \in Nat /\ o < n /\ \A c \in Below(C, n) : p[c] # o
  BY <1>2, <1>7 DEF Unclosed
<1>9. ASSUME NEW x \in O, o < x, x < n
      PROVE  \E d \in Below(C, n) : p[d] = x
  <2> SUFFICES ASSUME \A d \in Below(C, n) : p[d] # x PROVE FALSE
    OBVIOUS
  <2>1. x \in Unclosed(cell, p, n)
    BY <1>1, <1>9 DEF Unclosed, Below
  <2>2. PICK i \in 1..m : s[i] = x
    BY <1>3, <1>4, <2>1 DEF Range
  <2>3. i < m => s[i] < s[m]
    BY <1>3, <1>5, <2>2 DEF Stacks
  <2> HIDE DEF m
  <2>4. i = m \/ i < m
    BY <1>4, <2>2
  <2> QED BY <1>1, <1>8, <1>9, <2>2, <2>3, <2>4
<1> DEFINE q == [p EXCEPT ![n] = o]
<1>10. q \in [C -> Nat] /\ q[n] = o /\ \A c \in Below(C, n) : q[c] = p[c]
  BY <1>2, <1>8
<1> HIDE DEF q, m, o
<1>11. \A c \in Below(C, n + 1) : /\ q[c] \in O /\ q[c] < c
                                 /\ ClosingOf[cell[q[c]].kind] = cell[c].kind
  BY <1>2, <1>6, <1>8, <1>10 DEF PairsUpTo
<1>12. \A c, d \in Below(C, n + 1) : c # d => q[c] # q[d]
  BY <1>2, <1>8, <1>10 DEF PairsUpTo
<1>13. ASSUME NEW c \in Below(C, n + 1), NEW x \in O, q[c] < x, x < c
       PROVE  \E d \in C : d < c /\ q[d] = x
  <2>1. CASE c = n
    <3>1. PICK d \in Below(C, n) : p[d] = x
      BY <1>9, <1>10, <1>13, <2>1
    <3> QED BY <1>2, <1>10, <2>1, <3>1
  <2>2. CASE c \in Below(C, n)
    <3>1. PICK d \in C : d < c /\ p[d] = x
      BY <1>10, <1>13, <2>2 DEF PairsUpTo
    <3>2. d \in Below(C, n)
      BY <1>1, <1>2, <2>2, <3>1 DEF Below
    <3> QED BY <1>10, <3>1, <3>2
  <2> QED BY <1>2, <2>1, <2>2
<1>14. PairsUpTo(cell, q, n + 1)
  BY <1>11, <1>12, <1>13 DEF PairsUpTo
<1> QED BY <1>10, <1>14

LEMMA NothingOpen ==
  ASSUME NEW cell \in Seq(Token), NEW p
  PROVE  PairsUpTo(cell, p, 1) /\ IsStack(cell, <<>>, p, 1)
<1>1. Below(OpenIn(cell), 1) = {} /\ Below(CloseIn(cell), 1) = {}
  BY PositionsInCell DEF Below
<1>2. PairsUpTo(cell, p, 1)
  BY <1>1 DEF PairsUpTo
<1>3. Unclosed(cell, p, 1) = {}
  BY <1>1 DEF Unclosed
<1>4. Stacks(cell, <<>>, <<>>) /\ Range(<<>>) = {}
  <2>1. <<>> \in Seq(Nat) /\ Len(<<>>) = 0 /\ DOMAIN <<>> = {} /\ 1..0 = {}
    BY EmptySeq
  <2> QED BY <2>1 DEF Stacks, Range
<1> QED BY <1>2, <1>3, <1>4 DEF IsStack

\* How many brackets are open.
Balanced(cell, stack, n) ==
  Cardinality(Below(OpenIn(cell), n)) = Cardinality(Below(CloseIn(cell), n)) + Len(stack)

LEMMA BelowCounts ==
  ASSUME NEW m \in Nat, NEW n \in Nat, NEW set, set \subseteq 1..m
  PROVE  /\ IsFiniteSet(Below(set, n)) /\ Cardinality(Below(set, n)) \in Nat
         /\ Cardinality(Below(set, n + 1))
              = Cardinality(Below(set, n)) + (IF n \in set THEN 1 ELSE 0)
         /\ Below(set, m + 1) = set
         /\ Cardinality(Below(set, 1)) = 0
<1>1. set \subseteq Nat
  OBVIOUS
<1>2. IsFiniteSet(Below(set, n))
  <2>1. Below(set, n) \subseteq 1..m
    BY DEF Below
  <2>2. IsFiniteSet(1..m)
    BY FS_Interval
  <2> QED BY <2>1, <2>2, FS_Subset
<1>3. Cardinality(Below(set, n)) \in Nat
  BY <1>2, FS_CardinalityType
<1>4. /\ n \in set => Below(set, n + 1) = Below(set, n) \union {n}
      /\ n \notin set => Below(set, n + 1) = Below(set, n)
      /\ n \notin Below(set, n)
  BY <1>1, BelowGrows
<1>5. Cardinality(Below(set, n) \union {n}) = Cardinality(Below(set, n)) + 1
  BY <1>2, <1>4, FS_AddElement
<1>6. Cardinality(Below(set, n + 1))
        = Cardinality(Below(set, n)) + (IF n \in set THEN 1 ELSE 0)
  BY <1>3, <1>4, <1>5
<1>7. Below(set, m + 1) = set
  <2>1. \A i \in set : i < m + 1
    OBVIOUS
  <2> QED BY <2>1 DEF Below
<1>8. Below(set, 1) = {}
  <2>1. \A i \in set : ~(i < 1)
    OBVIOUS
  <2> QED BY <2>1 DEF Below
<1> QED BY <1>2, <1>3, <1>6, <1>7, <1>8, FS_EmptySet

LEMMA BalanceChanges ==
  ASSUME NEW cell \in Seq(Token), NEW n \in 1..Len(cell), NEW stack \in Seq(Opening),
         Balanced(cell, stack, n)
  PROVE  /\ n \in OpenIn(cell) => Balanced(cell, Append(stack, cell[n].kind), n + 1)
         /\ n \in CloseIn(cell) /\ stack # <<>> => Balanced(cell, Front(stack), n + 1)
         /\ n \notin OpenIn(cell) /\ n \notin CloseIn(cell) => Balanced(cell, stack, n + 1)
<1> DEFINE O == OpenIn(cell)
           C == CloseIn(cell)
           o == Cardinality(Below(O, n))
           c == Cardinality(Below(C, n))
           k == Len(stack)
<1>1. /\ O \subseteq 1..Len(cell) /\ C \subseteq 1..Len(cell) /\ Len(cell) \in Nat /\ n \in Nat
      /\ O \intersect C = {}
  BY PositionsInCell
<1>2. /\ o \in Nat /\ Cardinality(Below(O, n + 1)) = o + (IF n \in O THEN 1 ELSE 0)
      /\ c \in Nat /\ Cardinality(Below(C, n + 1)) = c + (IF n \in C THEN 1 ELSE 0)
  BY <1>1, BelowCounts
<1>3. o = c + k /\ k \in Nat
  BY LenProperties DEF Balanced
<1>4. n \in O => Len(Append(stack, cell[n].kind)) = k + 1
  <2>1. n \in O => cell[n].kind \in Opening
    BY DEF OpenIn
  <2> QED BY <2>1, AppendProperties
<1>5. stack # <<>> => Len(Front(stack)) = k - 1
  <2>1. stack # <<>> => k \in Nat \ {0}
    BY EmptySeq
  <2>2. Front(stack) = SubSeq(stack, 1, k - 1)
    BY DEF Front
  <2>3. \A i \in 1..(k - 1) : stack[i] \in Opening
    <3>1. \A i \in 1..(k - 1) : i \in 1..k
      BY <1>3
    <3> QED BY <3>1, ElementOfSeq
  <2>4. k \in Nat \ {0} => Len(SubSeq(stack, 1, k - 1)) = k - 1
    <3> SUFFICES ASSUME k \in Nat \ {0} PROVE Len(SubSeq(stack, 1, k - 1)) = k - 1
      OBVIOUS
    <3>1. k - 1 \in Nat
      OBVIOUS
    <3>2. PICK q \in Nat : q = k - 1
      BY <3>1
    <3>3. SubSeq(stack, 1, q) = [i \in 1..q |-> stack[i]]
      OBVIOUS
    <3> QED BY <3>2, <3>3
  <2> QED BY <2>1, <2>2, <2>4
<1> HIDE DEF o, c, k
<1>6. CASE n \in O
  <2>1. Balanced(cell, Append(stack, cell[n].kind), n + 1)
    BY <1>1, <1>2, <1>3, <1>4, <1>6 DEF Balanced
  <2> QED BY <1>1, <1>6, <2>1
<1>7. CASE n \in C
  <2>1. stack # <<>> => Balanced(cell, Front(stack), n + 1)
    BY <1>1, <1>2, <1>3, <1>5, <1>7 DEF Balanced
  <2> QED BY <1>1, <1>7, <2>1
<1>8. CASE n \notin O /\ n \notin C
  <2>1. Balanced(cell, stack, n + 1)
    BY <1>1, <1>2, <1>3, <1>8 DEF Balanced, k
  <2> QED BY <1>1, <1>8, <2>1
<1> QED BY <1>6, <1>7, <1>8

-----------------------------------------------------------------------------
PartnersOf(cell) == [CloseIn(cell) -> Nat]

StartsIn(cell) == {i \in DOMAIN cell : cell[i].starts}

\* The indentation of the last line that begins before a position.
LastIndent(cell, n) ==
  IF Below(StartsIn(cell), n) = {} THEN 0 ELSE cell[Max(Below(StartsIn(cell), n))].indent

\* The stack is that of the brackets before a position, unless they do not nest.
Verified(cell, bad, stack, n) ==
  /\ bad => \A p \in PartnersOf(cell) : ~PairsUpTo(cell, p, n)
  /\ ~bad => /\ \E p \in PartnersOf(cell) : PairsUpTo(cell, p, n)
             /\ \A p \in PartnersOf(cell) :
                  PairsUpTo(cell, p, n) => IsStack(cell, stack, p, n)
             /\ Balanced(cell, stack, n)

LEMMA VerifiedOpens ==
  ASSUME NEW cell \in Seq(Token), NEW n \in 1..Len(cell), NEW stack \in Seq(Opening),
         NEW bad \in BOOLEAN, Verified(cell, bad, stack, n), n \in OpenIn(cell)
  PROVE  Verified(cell, bad, Append(stack, cell[n].kind), n + 1)
<1>1. n \notin CloseIn(cell)
  BY PositionsInCell
<1>2. CASE bad
  BY <1>2, PairsBefore DEF Verified
<1>3. CASE ~bad
  <2>1. \E p \in PartnersOf(cell) : PairsUpTo(cell, p, n + 1)
    BY <1>1, <1>3, PairsStay DEF Verified
  <2>2. \A p \in PartnersOf(cell) : PairsUpTo(cell, p, n + 1) =>
          IsStack(cell, Append(stack, cell[n].kind), p, n + 1)
    BY <1>3, PairsBefore, StackOpens DEF Verified
  <2>3. Balanced(cell, Append(stack, cell[n].kind), n + 1)
    BY <1>3, BalanceChanges DEF Verified
  <2> QED BY <1>3, <2>1, <2>2, <2>3 DEF Verified
<1> QED BY <1>2, <1>3

LEMMA VerifiedCloses ==
  ASSUME NEW cell \in Seq(Token), NEW n \in 1..Len(cell), NEW stack \in Seq(Opening),
         NEW bad \in BOOLEAN, Verified(cell, bad, stack, n), n \in CloseIn(cell)
  PROVE  /\ Closes(stack, cell[n].kind) => Verified(cell, bad, Front(stack), n + 1)
         /\ ~Closes(stack, cell[n].kind) => Verified(cell, TRUE, stack, n + 1)
<1>1. CASE bad
  BY <1>1, PairsBefore DEF Verified
<1>2. CASE ~bad /\ Closes(stack, cell[n].kind)
  <2>1. \E p \in PartnersOf(cell) : PairsUpTo(cell, p, n + 1)
    <3>1. PICK p \in PartnersOf(cell) : PairsUpTo(cell, p, n) /\ IsStack(cell, stack, p, n)
      BY <1>2 DEF Verified
    <3> QED BY <1>2, <3>1, ClosingPairs DEF PartnersOf
  <2>2. \A p \in PartnersOf(cell) : PairsUpTo(cell, p, n + 1) =>
          IsStack(cell, Front(stack), p, n + 1)
    BY <1>2, PairsBefore, StackCloses DEF Verified
  <2>3. Balanced(cell, Front(stack), n + 1)
    BY <1>2, BalanceChanges DEF Verified, Closes
  <2> QED BY <1>2, <2>1, <2>2, <2>3 DEF Verified
<1>3. CASE ~bad /\ ~Closes(stack, cell[n].kind)
  <2>1. \A p \in PartnersOf(cell) : ~PairsUpTo(cell, p, n + 1)
    BY <1>3, PairsBefore, StackCloses DEF Verified
  <2> QED BY <1>3, <2>1 DEF Verified
<1> QED BY <1>1, <1>2, <1>3

LEMMA VerifiedStays ==
  ASSUME NEW cell \in Seq(Token), NEW n \in 1..Len(cell), NEW stack \in Seq(Opening),
         NEW bad \in BOOLEAN, Verified(cell, bad, stack, n),
         n \notin OpenIn(cell), n \notin CloseIn(cell)
  PROVE  Verified(cell, bad, stack, n + 1)
<1>1. CASE bad
  BY <1>1, PairsBefore DEF Verified
<1>2. CASE ~bad
  <2>1. \E p \in PartnersOf(cell) : PairsUpTo(cell, p, n + 1)
    BY <1>2, PairsStay DEF Verified
  <2>2. \A p \in PartnersOf(cell) : PairsUpTo(cell, p, n + 1) =>
          IsStack(cell, stack, p, n + 1)
    BY <1>2, PairsBefore, StackStays DEF Verified
  <2>3. Balanced(cell, stack, n + 1)
    BY <1>2, BalanceChanges DEF Verified
  <2> QED BY <1>2, <2>1, <2>2, <2>3 DEF Verified
<1> QED BY <1>1, <1>2

LEMMA MaxIs ==
  ASSUME NEW S, S \subseteq Nat, NEW x \in S, \A y \in S : y <= x
  PROVE  Max(S) = x
<1>1. \A y \in S : x >= y
  OBVIOUS
<1>2. \A z \in S : (\A y \in S : z >= y) => z = x
  OBVIOUS
<1> QED BY <1>1, <1>2 DEF Max

LEMMA IndentChanges ==
  ASSUME NEW cell \in Seq(Token), NEW n \in 1..Len(cell)
  PROVE  LastIndent(cell, n + 1) =
           IF cell[n].starts THEN cell[n].indent ELSE LastIndent(cell, n)
<1> DEFINE S == StartsIn(cell)
<1>1. S \subseteq Nat /\ n \in Nat /\ n \in DOMAIN cell
  BY LenProperties DEF StartsIn
<1>2. /\ n \in S => Below(S, n + 1) = Below(S, n) \union {n}
      /\ n \notin S => Below(S, n + 1) = Below(S, n)
      /\ \A i \in Below(S, n) : i \in S /\ i \in Nat /\ i < n
  BY <1>1, BelowGrows
<1>3. n \in S => Max(Below(S, n) \union {n}) = n
  <2>1. Below(S, n) \union {n} \subseteq Nat
    BY <1>1, <1>2
  <2>2. \A i \in Below(S, n) \union {n} : i <= n
    BY <1>1, <1>2
  <2> QED BY <2>1, <2>2, MaxIs
<1>4. n \in S <=> cell[n].starts
  BY <1>1 DEF StartsIn
<1> HIDE DEF S
<1>5. CASE n \in S
  <2>1. Below(S, n + 1) # {} /\ Max(Below(S, n + 1)) = n
    BY <1>2, <1>3, <1>5
  <2> QED BY <1>4, <1>5, <2>1 DEF LastIndent, S
<1>6. CASE n \notin S
  BY <1>2, <1>4, <1>6 DEF LastIndent, S
<1> QED BY <1>5, <1>6

LEMMA NestedPairs ==
  ASSUME tokens \in Seq(Token)
  PROVE  /\ Opened = OpenIn(tokens) /\ Closed = CloseIn(tokens) /\ LineStarts = StartsIn(tokens)
         /\ Nested <=> \E p \in PartnersOf(tokens) : PairsUpTo(tokens, p, Len(tokens) + 1)
<1>1. Opened = OpenIn(tokens) /\ Closed = CloseIn(tokens) /\ LineStarts = StartsIn(tokens)
  BY DEF Opened, Closed, Positions, OpenIn, CloseIn, LineStarts, StartsIn
<1>2. /\ OpenIn(tokens) \subseteq 1..Len(tokens) /\ CloseIn(tokens) \subseteq 1..Len(tokens)
      /\ Len(tokens) \in Nat
  BY PositionsInCell
<1>3. Below(CloseIn(tokens), Len(tokens) + 1) = CloseIn(tokens)
  BY <1>2, BelowCounts
<1>4. ASSUME NEW p \in [Closed -> Opened], Nests(p)
      PROVE  p \in PartnersOf(tokens) /\ PairsUpTo(tokens, p, Len(tokens) + 1)
  <2>1. p \in PartnersOf(tokens)
    BY <1>1, <1>2 DEF PartnersOf
  <2> QED BY <1>1, <1>3, <1>4, <2>1 DEF Nests, PairsUpTo
<1>5. ASSUME NEW p \in PartnersOf(tokens), PairsUpTo(tokens, p, Len(tokens) + 1)
      PROVE  p \in [Closed -> Opened] /\ Nests(p)
  <2>1. \A c \in CloseIn(tokens) : p[c] \in OpenIn(tokens)
    BY <1>3, <1>5 DEF PairsUpTo
  <2>2. p \in [Closed -> Opened]
    BY <1>1, <2>1 DEF PartnersOf
  <2> QED BY <1>1, <1>3, <1>5, <2>2 DEF Nests, PairsUpTo
<1> QED BY <1>1, <1>4, <1>5 DEF Nested

-----------------------------------------------------------------------------
\* What the scans keep.
ScanTypeOK ==
  /\ tokens \in Cells /\ tokens \in Seq(Token)
  /\ scan \in {"completeness", "variables", "trailing"}
  /\ returned \in BOOLEAN
  /\ at \in 1..(Len(tokens) + 1)
  /\ open \in Seq(Opening)
  /\ lineIndent \in Nat /\ invalid \in BOOLEAN
  /\ baseIndent \in Nat \union {-1}

NeverNests(cell) == \A p \in PartnersOf(cell) : ~PairsUpTo(cell, p, Len(cell) + 1)

AsksForMore(cell) ==
  \/ Cardinality(OpenIn(cell)) > Cardinality(CloseIn(cell))
  \/ \E i \in DOMAIN cell : cell[i].kind = "error"
  \/ cell # <<>> /\ Last(cell).kind = "operator"

VerdictOf(cell) ==
  IF NeverNests(cell) THEN [status |-> "Invalid", indent |-> 0]
  ELSE IF AsksForMore(cell)
         THEN [status |-> "Incomplete", indent |-> 2 + LastIndent(cell, Len(cell) + 1)]
         ELSE [status |-> "Complete", indent |-> 0]

\* The brackets and the line of the check for completeness are those of the tokens
\* that it has seen.
CompletenessInv ==
  scan = "completeness" =>
    /\ Verified(tokens, invalid, open, at)
    /\ lineIndent = LastIndent(tokens, at)
    /\ returned => Eof /\ verdict = VerdictOf(tokens)

LEMMA TokenAt ==
  ASSUME ScanTypeOK, ~Eof
  PROVE  /\ at \in 1..Len(tokens) /\ Len(tokens) \in Nat /\ token \in Token
         /\ at + 1 \in 1..(Len(tokens) + 1)
         /\ token.kind \in Kinds /\ token.starts \in BOOLEAN /\ token.indent \in Nat
<1>1. at \in 1..Len(tokens) /\ Len(tokens) \in Nat
  BY DEF ScanTypeOK, Eof
<1>2. token \in Token
  BY <1>1 DEF ScanTypeOK, token
<1> QED BY <1>1, <1>2 DEF Token

LEMMA FrontOfStack ==
  ASSUME NEW stack \in Seq(Opening), stack # <<>>
  PROVE  Front(stack) \in Seq(Opening) /\ Len(Front(stack)) = Len(stack) - 1 /\ Len(stack) > 0
<1>1. Len(stack) \in Nat /\ Len(stack) > 0
  OBVIOUS
<1>2. Front(stack) = SubSeq(stack, 1, Len(stack) - 1)
  BY DEF Front
<1>3. /\ SubSeq(stack, 1, Len(stack) - 1) \in Seq(Opening)
      /\ Len(SubSeq(stack, 1, Len(stack) - 1)) = Len(stack) - 1
  <2>1. \A i \in 1..(Len(stack) - 1) : stack[i] \in Opening
    BY <1>1
  <2>2. 1 \in Int /\ Len(stack) - 1 \in Int /\ Len(stack) - 1 >= 0
    BY <1>1
  <2>3. PICK n \in Int : n = Len(stack) - 1
    BY <2>2
  <2>4. /\ SubSeq(stack, 1, n) \in Seq(Opening)
        /\ Len(SubSeq(stack, 1, n)) = IF 1 <= n THEN n - 1 + 1 ELSE 0
    BY <2>1, <2>2, <2>3, SubSeqProperties
  <2> QED BY <2>2, <2>3, <2>4
<1> QED BY <1>1, <1>2, <1>3

LEMMA BracketsAre ==
  ASSUME NEW stack, NEW kind
  PROVE  /\ kind \in Opening => Brackets(stack, kind) = Append(stack, kind)
         /\ kind \in Closing =>
              Brackets(stack, kind) = IF Closes(stack, kind) THEN Front(stack) ELSE <<>>
         /\ kind \notin Opening /\ kind \notin Closing => Brackets(stack, kind) = stack
<1>1. ASSUME kind \in Opening PROVE Brackets(stack, kind) = Append(stack, kind)
  <2>1. kind \notin Closing
    BY <1>1, BracketsDiffer
  <2> QED BY <1>1, <2>1, Zenon DEF Brackets
<1>2. ASSUME kind \in Closing
      PROVE  Brackets(stack, kind) = IF Closes(stack, kind) THEN Front(stack) ELSE <<>>
  <2>1. kind \notin Opening
    BY <1>2, BracketsDiffer
  <2> QED BY <1>2, <2>1, Zenon DEF Brackets
<1>3. ASSUME kind \notin Opening, kind \notin Closing PROVE Brackets(stack, kind) = stack
  BY <1>3, Zenon DEF Brackets
<1> QED BY <1>1, <1>2, <1>3

LEMMA BracketsStack ==
  ASSUME NEW stack \in Seq(Opening), NEW kind
  PROVE  Brackets(stack, kind) \in Seq(Opening)
<1>1. CASE kind \in Opening
  BY <1>1, BracketsAre
<1>2. CASE kind \in Closing
  <2>1. Closes(stack, kind) => Front(stack) \in Seq(Opening)
    BY FrontOfStack DEF Closes
  <2>2. <<>> \in Seq(Opening)
    OBVIOUS
  <2> QED BY <1>2, <2>1, <2>2, BracketsAre
<1>3. CASE kind \notin Opening /\ kind \notin Closing
  BY <1>3, BracketsAre
<1> QED BY <1>1, <1>2, <1>3

LEMMA ScanTypes == ScanTypeOK /\ [ScanNext]_scanVars => ScanTypeOK'
<1> SUFFICES ASSUME ScanTypeOK, [ScanNext]_scanVars PROVE ScanTypeOK'
  OBVIOUS
<1> USE DEF ScanTypeOK
<1>1. CASE CheckToken
  <2>1. Append(open, token.kind) \in Seq(Opening) \/ token.kind \notin Opening
    OBVIOUS
  <2>2. Closes(open, token.kind) => Front(open) \in Seq(Opening)
    BY FrontOfStack DEF Closes
  <2> QED BY <1>1, <2>1, <2>2, TokenAt DEF CheckToken
<1>2. CASE ReturnVerdict
  BY <1>2 DEF ReturnVerdict, completeness, declared
<1>3. CASE MeasureIndent
  <2> DEFINE S == {tokens[i].indent : i \in LineStarts}
  <2>0. \A i \in DOMAIN tokens : tokens[i] \in Token
    BY LenProperties
  <2>1. S \in SUBSET Nat
    BY <2>0 DEF LineStarts, Token
  <2>2. S # {} => Min(S) \in Nat
    BY <2>1, MinOfSet
  <2> QED BY <1>3, <2>2 DEF MeasureIndent, completeness, declared
<1>4. CASE ScanVariables
  BY <1>4, TokenAt, BracketsStack DEF ScanVariables, completeness
<1>5. CASE ReturnVariables
  BY <1>5 DEF ReturnVariables, completeness, declared
<1>6. CASE ScanTrailing
  BY <1>6, TokenAt, BracketsStack DEF ScanTrailing, completeness, declared
<1>7. CASE ReturnTrailing
  BY <1>7 DEF ReturnTrailing, completeness, declared
<1>8. CASE UNCHANGED scanVars
  BY <1>8 DEF scanVars, completeness
<1> QED BY <1>1, <1>2, <1>3, <1>4, <1>5, <1>6, <1>7, <1>8 DEF ScanNext

LEMMA CheckedTokens ==
  ASSUME ScanTypeOK, CompletenessInv, CheckToken
  PROVE  CompletenessInv'
<1>1. /\ scan = "completeness" /\ ~Eof /\ at' = at + 1 /\ UNCHANGED <<tokens, scan, returned>>
      /\ lineIndent' = IF token.starts THEN token.indent ELSE lineIndent
  BY DEF CheckToken
<1>2. /\ at \in 1..Len(tokens) /\ tokens \in Seq(Token) /\ open \in Seq(Opening)
      /\ invalid \in BOOLEAN /\ token = tokens[at]
  BY <1>1, TokenAt DEF ScanTypeOK, token
<1>3. /\ Verified(tokens, invalid, open, at) /\ lineIndent = LastIndent(tokens, at)
      /\ ~returned
  BY <1>1 DEF CompletenessInv
<1>4. /\ at \in OpenIn(tokens) <=> token.kind \in Opening
      /\ at \in CloseIn(tokens) <=> token.kind \in Closing
  BY <1>2, PositionsInCell DEF OpenIn, CloseIn
<1>5. lineIndent' = LastIndent(tokens, at + 1)
  BY <1>1, <1>2, <1>3, IndentChanges
<1>6. Verified(tokens, invalid', open', at + 1)
  <2>1. CASE token.kind \in Opening /\ open' = Append(open, token.kind) /\ UNCHANGED invalid
    BY <1>2, <1>3, <1>4, <2>1, VerifiedOpens
  <2>2. CASE /\ token.kind \in Closing /\ Closes(open, token.kind)
             /\ open' = Front(open) /\ UNCHANGED invalid
    BY <1>2, <1>3, <1>4, <2>2, VerifiedCloses
  <2>3. CASE /\ token.kind \in Closing /\ ~Closes(open, token.kind)
             /\ invalid' = TRUE /\ UNCHANGED open
    BY <1>2, <1>3, <1>4, <2>3, VerifiedCloses
  <2>4. CASE token.kind \notin Opening \union Closing /\ UNCHANGED <<open, invalid>>
    BY <1>2, <1>3, <1>4, <2>4, VerifiedStays
  <2> QED BY <2>1, <2>2, <2>3, <2>4 DEF CheckToken
<1> QED BY <1>1, <1>3, <1>5, <1>6 DEF CompletenessInv

LEMMA VerdictReturned ==
  ASSUME ScanTypeOK, CompletenessInv, ReturnVerdict
  PROVE  CompletenessInv'
<1>1. /\ scan = "completeness" /\ Eof /\ ~returned
      /\ UNCHANGED <<tokens, scan, at, open, lineIndent, invalid>>
  BY DEF ReturnVerdict
<1>2. /\ tokens \in Seq(Token) /\ Len(tokens) \in Nat /\ at = Len(tokens) + 1
      /\ invalid \in BOOLEAN /\ open \in Seq(Opening)
      /\ OpenIn(tokens) \subseteq 1..Len(tokens) /\ CloseIn(tokens) \subseteq 1..Len(tokens)
  BY <1>1, PositionsInCell DEF ScanTypeOK, Eof
<1>3. Verified(tokens, invalid, open, Len(tokens) + 1)
      /\ lineIndent = LastIndent(tokens, Len(tokens) + 1)
  BY <1>1, <1>2 DEF CompletenessInv
<1>4. invalid <=> NeverNests(tokens)
  BY <1>2, <1>3 DEF Verified, NeverNests
<1>5. ~invalid => (open # <<>> <=> Cardinality(OpenIn(tokens)) > Cardinality(CloseIn(tokens)))
  <2>1. Len(open) \in Nat /\ (open # <<>> <=> Len(open) > 0)
    BY <1>2
  <2>2. /\ Below(OpenIn(tokens), Len(tokens) + 1) = OpenIn(tokens)
        /\ Cardinality(Below(OpenIn(tokens), Len(tokens) + 1)) \in Nat
    BY <1>2, BelowCounts
  <2>3. /\ Below(CloseIn(tokens), Len(tokens) + 1) = CloseIn(tokens)
        /\ Cardinality(Below(CloseIn(tokens), Len(tokens) + 1)) \in Nat
    BY <1>2, BelowCounts
  <2>4. ~invalid => Cardinality(OpenIn(tokens)) = Cardinality(CloseIn(tokens)) + Len(open)
    BY <1>3, <2>2, <2>3 DEF Verified, Balanced
  <2> QED BY <2>1, <2>2, <2>3, <2>4
<1>6. ~invalid => (NeedsMore <=> AsksForMore(tokens))
  BY <1>5 DEF NeedsMore, LexicalError, AsksForMore
<1>7. lineIndent + 2 = 2 + LastIndent(tokens, Len(tokens) + 1)
  BY <1>3 DEF ScanTypeOK
<1>8. verdict' = VerdictOf(tokens)
  <2>1. CASE invalid
    <3>1. verdict' = [status |-> "Invalid", indent |-> 0]
      BY <2>1, Zenon DEF ReturnVerdict
    <3> QED BY <1>4, <2>1, <3>1 DEF VerdictOf
  <2>2. CASE ~invalid /\ NeedsMore
    <3>1. verdict' = [status |-> "Incomplete", indent |-> lineIndent + 2]
      BY <2>2, Zenon DEF ReturnVerdict
    <3> QED BY <1>4, <1>6, <1>7, <2>2, <3>1 DEF VerdictOf
  <2>3. CASE ~invalid /\ ~NeedsMore
    <3>1. verdict' = [status |-> "Complete", indent |-> 0]
      BY <2>3, Zenon DEF ReturnVerdict
    <3> QED BY <1>4, <1>6, <2>3, <3>1 DEF VerdictOf
  <2> QED BY <2>1, <2>2, <2>3
<1> QED BY <1>1, <1>3, <1>8 DEF CompletenessInv, Eof

LEMMA CompletenessStep ==
  ASSUME ScanTypeOK, CompletenessInv, [ScanNext]_scanVars
  PROVE  CompletenessInv'
<1>1. CASE CheckToken
  BY <1>1, CheckedTokens
<1>2. CASE ReturnVerdict
  BY <1>2, VerdictReturned
<1>3. CASE MeasureIndent
  BY <1>3 DEF MeasureIndent, CompletenessInv
<1>4. CASE ScanVariables
  BY <1>4 DEF ScanVariables, CompletenessInv
<1>5. CASE ReturnVariables
  BY <1>5 DEF ReturnVariables, CompletenessInv
<1>6. CASE ScanTrailing
  BY <1>6 DEF ScanTrailing, CompletenessInv
<1>7. CASE ReturnTrailing
  BY <1>7 DEF ReturnTrailing, CompletenessInv
<1>8. CASE UNCHANGED scanVars
  BY <1>8 DEF scanVars, completeness, CompletenessInv, Eof
<1> QED BY <1>1, <1>2, <1>3, <1>4, <1>5, <1>6, <1>7, <1>8 DEF ScanNext

LEMMA ScanBegins ==
  ScanInit => ScanTypeOK /\ CompletenessInv
<1> SUFFICES ASSUME ScanInit PROVE ScanTypeOK /\ CompletenessInv
  OBVIOUS
<1>1. tokens \in Seq(Token)
  BY CellsAssumption DEF ScanInit
<1>2. ScanTypeOK
  <2>1. 1 \in 1..(Len(tokens) + 1)
    BY <1>1, PositionsInCell
  <2>2. open \in Seq(Opening)
    BY DEF ScanInit
  <2>3. /\ tokens \in Cells /\ scan \in {"completeness", "variables", "trailing"}
        /\ returned \in BOOLEAN /\ lineIndent \in Nat /\ invalid \in BOOLEAN
        /\ baseIndent \in Nat \union {-1} /\ at = 1
    BY DEF ScanInit
  <2> QED BY <1>1, <2>1, <2>2, <2>3 DEF ScanTypeOK
<1>3. OpenIn(tokens) \subseteq 1..Len(tokens) /\ CloseIn(tokens) \subseteq 1..Len(tokens)
      /\ StartsIn(tokens) \subseteq 1..Len(tokens)
  BY <1>1, PositionsInCell DEF StartsIn
<1>4. Verified(tokens, FALSE, <<>>, 1)
  <2>1. [c \in CloseIn(tokens) |-> 0] \in PartnersOf(tokens)
    BY DEF PartnersOf
  <2>2. /\ \E p \in PartnersOf(tokens) : PairsUpTo(tokens, p, 1)
        /\ \A p \in PartnersOf(tokens) :
             PairsUpTo(tokens, p, 1) => IsStack(tokens, <<>>, p, 1)
    BY <1>1, <2>1, NothingOpen
  <2>3. Balanced(tokens, <<>>, 1)
    <3>0. Len(tokens) \in Nat /\ Len(<<>>) = 0
      BY <1>1
    <3>1. /\ Cardinality(Below(OpenIn(tokens), 1)) = 0
          /\ Cardinality(Below(CloseIn(tokens), 1)) = 0
      BY <3>0, <1>3, BelowCounts
    <3> QED BY <3>0, <3>1 DEF Balanced
  <2> QED BY <2>2, <2>3 DEF Verified
<1>5. LastIndent(tokens, 1) = 0
  <2>1. Below(StartsIn(tokens), 1) = {}
    BY <1>3 DEF Below
  <2> QED BY <2>1 DEF LastIndent
<1> QED BY <1>2, <1>4, <1>5 DEF CompletenessInv, ScanInit

LEMMA VerdictFollows == ScanTypeOK /\ CompletenessInv => VerdictIsRight
<1> SUFFICES ASSUME ScanTypeOK, CompletenessInv, returned, scan = "completeness"
             PROVE  verdict = RightVerdict
  BY DEF VerdictIsRight, Found
<1>1. /\ tokens \in Seq(Token) /\ verdict = VerdictOf(tokens)
      /\ Opened = OpenIn(tokens) /\ Closed = CloseIn(tokens)
      /\ LineStarts = StartsIn(tokens)
  BY NestedPairs DEF ScanTypeOK, CompletenessInv
<1>2. Nested <=> ~NeverNests(tokens)
  BY <1>1, NestedPairs DEF NeverNests
<1>3. Below(LineStarts, Len(tokens) + 1) = LineStarts
  <2>1. LineStarts \subseteq 1..Len(tokens) /\ Len(tokens) \in Nat
    BY <1>1, PositionsInCell DEF LineStarts
  <2> QED BY <2>1, BelowCounts
<1> DEFINE more == \/ Cardinality(Opened) > Cardinality(Closed)
                   \/ LexicalError
                   \/ tokens # <<>> /\ Last(tokens).kind = "operator"
<1>4. more <=> AsksForMore(tokens)
  BY <1>1 DEF AsksForMore, LexicalError
<1>5. LastIndent(tokens, Len(tokens) + 1)
        = IF LineStarts = {} THEN 0 ELSE tokens[Max(LineStarts)].indent
  BY <1>1, <1>3 DEF LastIndent
<1>6. CASE ~Nested
  <2>1. verdict = [status |-> "Invalid", indent |-> 0]
    BY <1>1, <1>2, <1>6 DEF VerdictOf
  <2> QED BY <1>6, <2>1, Zenon DEF RightVerdict
<1>7. CASE Nested /\ more
  <2>1. verdict = [status |-> "Incomplete", indent |-> 2 + LastIndent(tokens, Len(tokens) + 1)]
    BY <1>1, <1>2, <1>4, <1>7 DEF VerdictOf
  <2> QED BY <1>5, <1>7, <2>1, Zenon DEF RightVerdict
<1>8. CASE Nested /\ ~more
  <2>1. verdict = [status |-> "Complete", indent |-> 0]
    BY <1>1, <1>2, <1>4, <1>8 DEF VerdictOf
  <2> QED BY <1>8, <2>1, Zenon DEF RightVerdict
<1> QED BY <1>6, <1>7, <1>8

LEMMA ScanInvHolds == ScanSpec => [](ScanTypeOK /\ CompletenessInv)
<1>1. ScanTypeOK /\ CompletenessInv /\ [ScanNext]_scanVars => (ScanTypeOK /\ CompletenessInv)'
  BY ScanTypes, CompletenessStep
<1> QED BY <1>1, ScanBegins, PTL DEF ScanSpec

\* checkCompleteness: a cell is refused when its brackets do not nest, asked to go
\* on when one is open or the last token needs another, and accepted otherwise, for
\* cells of any tokens.
THEOREM CompletenessIsRight == ScanSpec => []VerdictIsRight
BY ScanInvHolds, VerdictFollows, PTL

-----------------------------------------------------------------------------
(* The scans for variables and for the trailing expression. *)

Nestable(cell) == \E p \in PartnersOf(cell) : PairsUpTo(cell, p, Len(cell) + 1)

\* The stack is that of the brackets before a position, when they nest.
Follows(cell, stack, n) ==
  \A p \in PartnersOf(cell) :
    PairsUpTo(cell, p, Len(cell) + 1) => IsStack(cell, stack, p, n) /\ Balanced(cell, stack, n)

LEMMA PairsEarlier ==
  ASSUME NEW cell \in Seq(Token), NEW p, NEW m \in Nat, NEW n \in Nat, n <= m,
         PairsUpTo(cell, p, m)
  PROVE  PairsUpTo(cell, p, n)
<1>1. \A c \in Below(CloseIn(cell), n) : c \in Below(CloseIn(cell), m)
  BY PositionsInCell DEF Below
<1> QED BY <1>1 DEF PairsUpTo

LEMMA FollowsOn ==
  ASSUME NEW cell \in Seq(Token), NEW n \in 1..Len(cell), NEW stack \in Seq(Opening),
         Follows(cell, stack, n)
  PROVE  Follows(cell, Brackets(stack, cell[n].kind), n + 1)
<1> SUFFICES ASSUME NEW p \in PartnersOf(cell), PairsUpTo(cell, p, Len(cell) + 1)
             PROVE  /\ IsStack(cell, Brackets(stack, cell[n].kind), p, n + 1)
                    /\ Balanced(cell, Brackets(stack, cell[n].kind), n + 1)
  BY DEF Follows
<1>1. IsStack(cell, stack, p, n) /\ Balanced(cell, stack, n)
  BY DEF Follows
<1>2. PairsUpTo(cell, p, n) /\ PairsUpTo(cell, p, n + 1)
  <2>1. n \in Nat /\ n + 1 \in Nat /\ Len(cell) + 1 \in Nat
        /\ n <= Len(cell) + 1 /\ n + 1 <= Len(cell) + 1
    BY PositionsInCell
  <2> QED BY <2>1, PairsEarlier
<1>3. /\ n \in OpenIn(cell) <=> cell[n].kind \in Opening
      /\ n \in CloseIn(cell) <=> cell[n].kind \in Closing
  BY PositionsInCell DEF OpenIn, CloseIn
<1>4. CASE n \in OpenIn(cell)
  BY <1>1, <1>2, <1>3, <1>4, StackOpens, BalanceChanges, BracketsAre
<1>5. CASE n \in CloseIn(cell)
  <2>1. Closes(stack, cell[n].kind) /\ IsStack(cell, Front(stack), p, n + 1)
    BY <1>1, <1>2, <1>5, StackCloses
  <2>2. Balanced(cell, Front(stack), n + 1)
    BY <1>1, <1>5, <2>1, BalanceChanges DEF Closes
  <2>3. Brackets(stack, cell[n].kind) = Front(stack)
    BY <1>3, <1>5, <2>1, BracketsAre
  <2> QED BY <2>1, <2>2, <2>3
<1>6. CASE n \notin OpenIn(cell) /\ n \notin CloseIn(cell)
  <2>1. Brackets(stack, cell[n].kind) = stack
    BY <1>3, <1>6, BracketsAre
  <2> QED BY <1>1, <1>6, <2>1, StackStays, BalanceChanges
<1> QED BY <1>4, <1>5, <1>6

\* The tokens said of a cell.
OutsideIn(cell, i) ==
  Cardinality(Below(OpenIn(cell), i)) = Cardinality(Below(CloseIn(cell), i))

HeadsIn(cell) == {i \in StartsIn(cell) : OutsideIn(cell, i)}

HeadIn(cell, i) == Max({j \in HeadsIn(cell) : j <= i})

BaseIn(cell) == Min({cell[j].indent : j \in HeadsIn(cell)})

Begins(cell, i) ==
  OutsideIn(cell, i) /\ (i \in HeadsIn(cell) \/ (~cell[i].starts /\ cell[i - 1].kind = ";"))

BasesIn(cell) ==
  {i \in DOMAIN cell : Begins(cell, i) /\ cell[HeadIn(cell, i)].indent = BaseIn(cell)}

LEMMA ScanTerms ==
  ASSUME tokens \in Seq(Token)
  PROVE  /\ Nested <=> Nestable(tokens)
         /\ LineStarts = StartsIn(tokens) /\ LineHeads = HeadsIn(tokens)
         /\ Base = BaseIn(tokens) /\ BaseStatements = BasesIn(tokens)
         /\ \A i : StartsStatement(i) <=> Begins(tokens, i)
         /\ \A i : HeadOf(i) = HeadIn(tokens, i)
<1>1. Opened = OpenIn(tokens) /\ Closed = CloseIn(tokens) /\ LineStarts = StartsIn(tokens)
  BY NestedPairs
<1>2. \A i : Outside(i) <=> OutsideIn(tokens, i)
  BY <1>1 DEF Outside, OutsideIn, Below
<1>3. LineHeads = HeadsIn(tokens)
  BY <1>1, <1>2 DEF LineHeads, HeadsIn
<1>4. \A i : StartsStatement(i) <=> Begins(tokens, i)
  BY <1>2, <1>3 DEF StartsStatement, Begins
<1>5. \A i : HeadOf(i) = HeadIn(tokens, i)
  BY <1>3 DEF HeadOf, HeadIn
<1>6. Base = BaseIn(tokens)
  BY <1>3 DEF Base, BaseIn
<1>7. BaseStatements = BasesIn(tokens)
  BY <1>4, <1>5, <1>6 DEF BaseStatements, BasesIn
<1> QED BY <1>1, <1>3, <1>4, <1>5, <1>6, <1>7, NestedPairs DEF Nestable

LEMMA OutsideIsOpen ==
  ASSUME NEW cell \in Seq(Token), NEW n \in 1..(Len(cell) + 1), NEW stack \in Seq(Opening),
         Nestable(cell), Follows(cell, stack, n)
  PROVE  OutsideIn(cell, n) <=> stack = <<>>
<1>1. Balanced(cell, stack, n)
  BY DEF Nestable, Follows
<1>2. Len(stack) \in Nat /\ (stack = <<>> <=> Len(stack) = 0)
  OBVIOUS
<1>3. /\ Cardinality(Below(OpenIn(cell), n)) \in Nat
      /\ Cardinality(Below(CloseIn(cell), n)) \in Nat
  BY PositionsInCell, BelowCounts
<1> QED BY <1>1, <1>2, <1>3 DEF Balanced, OutsideIn

\* The smallest indentation of a line.
Measures(cell, indent) ==
  /\ \E i \in StartsIn(cell) : cell[i].indent = indent
  /\ \A i \in StartsIn(cell) : indent <= cell[i].indent

LEMMA FirstLine ==
  ASSUME NEW cell \in Cells, cell \in Seq(Token), cell # <<>>
  PROVE  1 \in HeadsIn(cell) /\ 1 \in StartsIn(cell)
<1>1. 1 \in StartsIn(cell)
  <2>1. 1 \in DOMAIN cell
    OBVIOUS
  <2>2. cell[1].starts
    BY CellsAssumption
  <2> QED BY <2>1, <2>2 DEF StartsIn
<1>2. /\ Cardinality(Below(OpenIn(cell), 1)) = 0
      /\ Cardinality(Below(CloseIn(cell), 1)) = 0
  BY PositionsInCell, BelowCounts
<1> QED BY <1>1, <1>2 DEF HeadsIn, OutsideIn

\* Where no line in brackets is indented less than the others.
LEMMA BaseIsMeasured ==
  ASSUME NEW cell \in Cells, cell \in Seq(Token), cell # <<>>, NEW indent \in Nat,
         Measures(cell, indent),
         \A i \in StartsIn(cell) : cell[i].indent >= BaseIn(cell)
  PROVE  indent = BaseIn(cell)
<1> DEFINE S == {cell[j].indent : j \in HeadsIn(cell)}
<1>1. \A i \in DOMAIN cell : cell[i] \in Token /\ cell[i].indent \in Nat
  <2>1. \A i \in DOMAIN cell : cell[i] \in Token
    OBVIOUS
  <2> QED BY <2>1 DEF Token
<1>2. S \in SUBSET Nat /\ S # {} /\ HeadsIn(cell) \subseteq StartsIn(cell)
  BY <1>1, FirstLine DEF HeadsIn, StartsIn
<1>3. BaseIn(cell) \in S /\ BaseIn(cell) \in Nat
  BY <1>2, MinOfSet DEF BaseIn
<1>4. PICK j \in HeadsIn(cell) : cell[j].indent = BaseIn(cell)
  BY <1>3
<1>5. PICK i \in StartsIn(cell) : cell[i].indent = indent
  BY DEF Measures
<1>6. indent <= BaseIn(cell)
  BY <1>2, <1>4 DEF Measures
<1> QED BY <1>3, <1>5, <1>6

\* The cells that the promise about the trailing expression is for.
TellsLast(cell) ==
  /\ Nestable(cell)
  /\ \A i \in StartsIn(cell) : cell[i].indent >= BaseIn(cell)
  /\ \A i \in DOMAIN cell :
       Begins(cell, i) => i \in HeadsIn(cell) \/ cell[HeadIn(cell, i)].indent = BaseIn(cell)

\* The statements of the outermost lines that the scan has seen begin: a semicolon
\* tells of the next token.
Seen(cell, n) == {i \in BasesIn(cell) : i < n \/ (i = n /\ i \notin HeadsIn(cell))}

IsLast(S, x) == (S = {} /\ x = 0) \/ (x \in S /\ \A y \in S : y <= x)

Separates(cell, n) == cell[n].kind = ";" /\ n < Len(cell) /\ ~cell[n + 1].starts

LEMMA SemicolonIsNoBracket == ";" \notin Opening /\ ";" \notin Closing
BY DEF Opening, Closing, ClosingOf

\* A token that does not begin a line begins a statement after a semicolon.
LEMMA BeginsWhen ==
  ASSUME NEW cell, NEW i, NEW j, j = i - 1
  PROVE  Begins(cell, i) <=> /\ OutsideIn(cell, i)
                             /\ i \in HeadsIn(cell) \/ (/\ ~cell[i].starts
                                                       /\ cell[j].kind = ";")
BY Zenon DEF Begins

LEMMA HeadIsItself ==
  ASSUME NEW cell \in Seq(Token), NEW i \in HeadsIn(cell)
  PROVE  HeadIn(cell, i) = i
<1>1. i \in {j \in HeadsIn(cell) : j <= i} /\ {j \in HeadsIn(cell) : j <= i} \subseteq Nat
  BY PositionsInCell DEF HeadsIn, StartsIn
<1> QED BY <1>1, MaxIs DEF HeadIn

LEMMA SeparatorIsSeen ==
  ASSUME NEW cell \in Cells, cell \in Seq(Token), NEW n \in 1..Len(cell),
         NEW stack \in Seq(Opening), Follows(cell, stack, n), TellsLast(cell),
         stack = <<>>, Separates(cell, n)
  PROVE  n + 1 \in Seen(cell, n + 1) /\ \A y \in Seen(cell, n + 1) : y <= n + 1
<1>1. n \in Nat /\ Len(cell) \in Nat /\ n + 1 \in DOMAIN cell /\ n + 1 \in 1..(Len(cell) + 1)
  <2>1. n \in Nat /\ Len(cell) \in Nat /\ DOMAIN cell = 1..Len(cell)
    BY PositionsInCell
  <2>2. n < Len(cell)
    BY DEF Separates
  <2> QED BY <2>1, <2>2
<1>2. Brackets(stack, cell[n].kind) = <<>>
  BY SemicolonIsNoBracket, BracketsAre DEF Separates
<1>3. Follows(cell, <<>>, n + 1)
  BY <1>2, FollowsOn
<1>4. OutsideIn(cell, n + 1)
  <2>1. <<>> \in Seq(Opening)
    OBVIOUS
  <2> QED BY <1>1, <1>3, <2>1, OutsideIsOpen DEF TellsLast
<1>5. n + 1 - 1 = n
  BY <1>1
<1>6. Begins(cell, n + 1) /\ n + 1 \notin HeadsIn(cell)
  <2>1. ~cell[n + 1].starts /\ cell[n].kind = ";"
    BY DEF Separates
  <2>2. n + 1 \notin HeadsIn(cell)
    BY <2>1 DEF HeadsIn, StartsIn
  <2>3. PICK m : m = n + 1
    OBVIOUS
  <2>4. Begins(cell, m) <=> /\ OutsideIn(cell, m)
                            /\ m \in HeadsIn(cell) \/ (~cell[m].starts /\ cell[n].kind = ";")
    <3>1. n = m - 1
      BY <1>5, <2>3
    <3> QED BY <3>1, BeginsWhen
  <2>5. Begins(cell, m)
    BY <1>4, <2>1, <2>3, <2>4, Zenon
  <2> QED BY <2>2, <2>3, <2>5
<1>7. n + 1 \in BasesIn(cell)
  BY <1>1, <1>6 DEF BasesIn, TellsLast
<1>8. \A y \in Seen(cell, n + 1) : y <= n + 1
  BY <1>1, PositionsInCell DEF Seen, BasesIn
<1> QED BY <1>6, <1>7, <1>8 DEF Seen

\* What the next token adds.
LEMMA SeenGrows ==
  ASSUME NEW cell \in Cells, cell \in Seq(Token), NEW n \in 1..Len(cell),
         NEW stack \in Seq(Opening), Follows(cell, stack, n), TellsLast(cell),
         ~(stack = <<>> /\ Separates(cell, n))
  PROVE  Seen(cell, n + 1) = Seen(cell, n) \union ({n} \intersect BasesIn(cell) \intersect HeadsIn(cell))
<1>1. n \in Nat /\ Len(cell) \in Nat /\ DOMAIN cell = 1..Len(cell)
  BY PositionsInCell
<1>2. BasesIn(cell) \subseteq 1..Len(cell)
  BY <1>1 DEF BasesIn
<1>3. ~(n + 1 \in BasesIn(cell) /\ n + 1 \notin HeadsIn(cell))
  <2> SUFFICES ASSUME n + 1 \in BasesIn(cell), n + 1 \notin HeadsIn(cell) PROVE FALSE
    OBVIOUS
  <2>1. n + 1 \in DOMAIN cell /\ n < Len(cell) /\ n + 1 - 1 = n
    BY <1>1, <1>2
  <2>2. OutsideIn(cell, n + 1) /\ ~cell[n + 1].starts /\ cell[n].kind = ";"
    <3>1. Begins(cell, n + 1)
      BY DEF BasesIn
    <3>2. PICK m : m = n + 1
      OBVIOUS
    <3>3. n = m - 1
      BY <2>1, <3>2
    <3>4. OutsideIn(cell, m) /\ ~cell[m].starts /\ cell[n].kind = ";"
      <4>1. Begins(cell, m) /\ m \notin HeadsIn(cell)
        BY <3>1, <3>2
      <4> QED BY <3>3, <4>1, BeginsWhen
    <3> QED BY <3>2, <3>4
  <2>3. Brackets(stack, cell[n].kind) = stack
    BY <2>2, SemicolonIsNoBracket, BracketsAre
  <2>4. Follows(cell, stack, n + 1)
    BY <2>3, FollowsOn
  <2>5. stack = <<>>
    <3>1. n + 1 \in 1..(Len(cell) + 1)
      BY <1>1, <2>1
    <3> QED BY <2>2, <2>4, <3>1, OutsideIsOpen DEF TellsLast
  <2> QED BY <2>1, <2>2, <2>5 DEF Separates
<1>4. \A i \in BasesIn(cell) : i \in Nat /\ (i < n + 1 <=> i < n \/ i = n)
  BY <1>1, <1>2
<1>5. \A i : i \in Seen(cell, n + 1) <=>
               i \in Seen(cell, n) \/ (i = n /\ i \in BasesIn(cell) /\ i \in HeadsIn(cell))
  BY <1>3, <1>4 DEF Seen
<1> QED BY <1>5

LEMMA HeadIsSeen ==
  ASSUME NEW cell \in Cells, cell \in Seq(Token), NEW n \in 1..Len(cell),
         NEW stack \in Seq(Opening), Follows(cell, stack, n), TellsLast(cell),
         NEW indent \in Nat, Measures(cell, indent)
  PROVE  n \in BasesIn(cell) /\ n \in HeadsIn(cell)
           <=> stack = <<>> /\ cell[n].starts /\ cell[n].indent = indent
<1>1. indent = BaseIn(cell)
  <2>1. cell # <<>>
    BY PositionsInCell
  <2> QED BY <2>1, BaseIsMeasured DEF TellsLast
<1>2. n \in DOMAIN cell /\ n \in 1..(Len(cell) + 1)
  BY PositionsInCell
<1>3. OutsideIn(cell, n) <=> stack = <<>>
  BY <1>2, OutsideIsOpen DEF TellsLast
<1>4. n \in HeadsIn(cell) <=> cell[n].starts /\ stack = <<>>
  BY <1>2, <1>3 DEF HeadsIn, StartsIn
<1>5. n \in HeadsIn(cell) =>
        (n \in BasesIn(cell) <=> cell[n].indent = indent)
  BY <1>1, <1>2, <1>3, <1>4, HeadIsItself DEF BasesIn, Begins
<1> QED BY <1>4, <1>5

LEMMA TrailingToken ==
  ASSUME NEW cell \in Cells, cell \in Seq(Token), NEW n \in 1..Len(cell),
         NEW stack \in Seq(Opening), Follows(cell, stack, n), TellsLast(cell),
         NEW indent \in Nat, Measures(cell, indent),
         NEW x, IsLast(Seen(cell, n), x)
  PROVE  /\ stack = <<>> /\ Separates(cell, n) => IsLast(Seen(cell, n + 1), n + 1)
         /\ ~(stack = <<>> /\ Separates(cell, n)) =>
              IsLast(Seen(cell, n + 1),
                     IF stack = <<>> /\ cell[n].starts /\ cell[n].indent = indent
                       THEN n ELSE x)
<1>1. CASE stack = <<>> /\ Separates(cell, n)
  BY <1>1, SeparatorIsSeen DEF IsLast
<1>2. CASE ~(stack = <<>> /\ Separates(cell, n))
  <2>1. Seen(cell, n + 1)
          = Seen(cell, n) \union ({n} \intersect BasesIn(cell) \intersect HeadsIn(cell))
    BY <1>2, SeenGrows
  <2>2. \A y \in Seen(cell, n) : y <= n
    BY PositionsInCell DEF Seen, BasesIn
  <2>3. CASE stack = <<>> /\ cell[n].starts /\ cell[n].indent = indent
    <3>1. Seen(cell, n + 1) = Seen(cell, n) \union {n}
      BY <2>1, <2>3, HeadIsSeen
    <3> QED BY <1>2, <2>2, <2>3, <3>1 DEF IsLast
  <2>4. CASE ~(stack = <<>> /\ cell[n].starts /\ cell[n].indent = indent)
    <3>1. ~(n \in BasesIn(cell) /\ n \in HeadsIn(cell))
      BY <2>4, HeadIsSeen
    <3>2. Seen(cell, n + 1) = Seen(cell, n)
      BY <2>1, <3>1
    <3> QED BY <1>2, <2>4, <3>2
  <2> QED BY <2>3, <2>4
<1> QED BY <1>1, <1>2

\* The brackets and the indentation of a scan are those of the tokens.
SearchInv ==
  scan # "completeness" =>
    /\ Follows(tokens, open, at)
    /\ returned => Eof
    /\ baseIndent = -1 => at = 1
    /\ baseIndent # -1 => Measures(tokens, baseIndent)

\* The statement is the last one of the outermost lines that the scan has seen.
TrailingInv ==
  scan = "trailing" /\ TellsLast(tokens) =>
    IsLast(Seen(tokens, at), statement) \/ (returned /\ statement = 0)

LEMMA SearchBegins == ScanInit => SearchInv /\ TrailingInv
<1> SUFFICES ASSUME ScanInit PROVE SearchInv /\ TrailingInv
  OBVIOUS
<1>1. tokens \in Cells /\ tokens \in Seq(Token) /\ at = 1 /\ open = <<>> /\ ~returned
      /\ baseIndent = -1 /\ statement = 0 /\ Len(tokens) \in Nat
  <2>1. tokens \in Cells /\ tokens \in Seq(Token)
    BY CellsAssumption DEF ScanInit
  <2>2. Len(tokens) \in Nat
    BY <2>1
  <2> QED BY <2>1, <2>2 DEF ScanInit
<1>2. Balanced(tokens, <<>>, 1)
  <2>1. /\ Cardinality(Below(OpenIn(tokens), 1)) = 0
        /\ Cardinality(Below(CloseIn(tokens), 1)) = 0
    BY <1>1, PositionsInCell, BelowCounts
  <2>2. Len(<<>>) = 0
    OBVIOUS
  <2> QED BY <2>1, <2>2 DEF Balanced
<1>3. Follows(tokens, open, at)
  BY <1>1, <1>2, NothingOpen DEF Follows
<1>4. Seen(tokens, at) = {}
  <2> SUFFICES ASSUME NEW i \in Seen(tokens, 1) PROVE FALSE
    BY <1>1
  <2>1. i \in 1..Len(tokens) /\ i = 1 /\ i \notin HeadsIn(tokens)
    BY <1>1, PositionsInCell DEF Seen, BasesIn
  <2>2. tokens # <<>>
    BY <1>1, <2>1
  <2> QED BY <1>1, <2>1, <2>2, FirstLine
<1> QED BY <1>1, <1>3, <1>4 DEF SearchInv, TrailingInv, IsLast

LEMMA MeasuredIndent ==
  ASSUME ScanTypeOK, SearchInv, MeasureIndent
  PROVE  SearchInv' /\ UNCHANGED <<tokens, scan, at, open>> /\ scan # "completeness"
<1>1. /\ scan # "completeness" /\ ~returned /\ baseIndent = -1
      /\ UNCHANGED <<tokens, scan, at, open>>
      /\ tokens \in Cells /\ tokens \in Seq(Token) /\ Len(tokens) \in Nat
      /\ at \in 1..(Len(tokens) + 1)
  BY DEF MeasureIndent, ScanTypeOK
<1>2. Follows(tokens, open, at) /\ at = 1 /\ LineStarts = StartsIn(tokens)
  BY <1>1, NestedPairs DEF SearchInv
<1>3. CASE LineStarts = {} /\ returned' = TRUE /\ UNCHANGED baseIndent
  <2>1. tokens = <<>>
    BY <1>1, <1>2, <1>3, FirstLine
  <2>2. at > Len(tokens)
    BY <1>2, <2>1
  <2> QED BY <1>1, <1>2, <1>3, <2>2 DEF SearchInv, Eof
<1>4. CASE /\ LineStarts # {} /\ UNCHANGED returned
           /\ baseIndent' = Min({tokens[i].indent : i \in LineStarts})
  <2> DEFINE S == {tokens[i].indent : i \in LineStarts}
  <2>1. \A i \in DOMAIN tokens : tokens[i] \in Token
    BY <1>1
  <2>2. S \in SUBSET Nat /\ S # {}
    BY <1>4, <2>1 DEF LineStarts, Token
  <2>3. baseIndent' \in S /\ \A x \in S : baseIndent' <= x
    BY <1>4, <2>2, MinOfSet
  <2>4. Measures(tokens, baseIndent')
    BY <1>2, <2>3 DEF Measures
  <2>5. baseIndent' # -1
    BY <2>2, <2>3
  <2> QED BY <1>1, <1>2, <1>4, <2>4, <2>5 DEF SearchInv
<1> QED BY <1>1, <1>3, <1>4 DEF MeasureIndent

LEMMA SearchGoesOn ==
  ASSUME ScanTypeOK, SearchInv, ~Eof, scan # "completeness", baseIndent # -1,
         open' = Brackets(open, token.kind), at' = at + 1,
         UNCHANGED <<tokens, scan, returned, baseIndent>>
  PROVE  SearchInv' /\ ~returned
<1>1. at \in 1..Len(tokens) /\ tokens \in Seq(Token) /\ open \in Seq(Opening)
      /\ token = tokens[at]
  BY TokenAt DEF ScanTypeOK, token
<1>2. Follows(tokens, open, at) /\ ~returned /\ Measures(tokens, baseIndent)
  BY DEF SearchInv
<1>3. Follows(tokens, open', at')
  BY <1>1, <1>2, FollowsOn
<1> QED BY <1>2, <1>3 DEF SearchInv

LEMMA SearchStep ==
  ASSUME ScanTypeOK, SearchInv, [ScanNext]_scanVars
  PROVE  SearchInv'
<1>1. CASE CheckToken
  BY <1>1 DEF CheckToken, SearchInv
<1>2. CASE ReturnVerdict
  BY <1>2 DEF ReturnVerdict, SearchInv
<1>3. CASE MeasureIndent
  BY <1>3, MeasuredIndent
<1>4. CASE ScanVariables
  BY <1>4, SearchGoesOn DEF ScanVariables
<1>5. CASE ReturnVariables
  BY <1>5 DEF ReturnVariables, SearchInv, Eof
<1>6. CASE ScanTrailing
  BY <1>6, SearchGoesOn DEF ScanTrailing
<1>7. CASE ReturnTrailing
  BY <1>7 DEF ReturnTrailing, SearchInv, Eof
<1>8. CASE UNCHANGED scanVars
  BY <1>8 DEF scanVars, completeness, SearchInv, Eof
<1> QED BY <1>1, <1>2, <1>3, <1>4, <1>5, <1>6, <1>7, <1>8 DEF ScanNext

LEMMA TrailingGoesOn ==
  ASSUME ScanTypeOK, SearchInv, TrailingInv, ScanTrailing
  PROVE  TrailingInv'
<1> SUFFICES ASSUME TellsLast(tokens) PROVE IsLast(Seen(tokens, at + 1), statement')
  BY DEF TrailingInv, ScanTrailing
<1>1. scan = "trailing" /\ ~Eof /\ baseIndent # -1
  BY DEF ScanTrailing
<1>2. /\ at \in 1..Len(tokens) /\ Len(tokens) \in Nat
      /\ tokens \in Cells /\ tokens \in Seq(Token) /\ open \in Seq(Opening)
      /\ baseIndent \in Nat /\ token = tokens[at]
  BY <1>1, TokenAt DEF ScanTypeOK, token
<1>3. Follows(tokens, open, at) /\ Measures(tokens, baseIndent) /\ ~returned
  BY <1>1 DEF SearchInv
<1>4. IsLast(Seen(tokens, at), statement)
  BY <1>1, <1>3 DEF TrailingInv
<1>5. token.kind = ";" /\ StatementFollows <=> Separates(tokens, at)
  BY <1>2 DEF StatementFollows, Separates
<1>6. CASE open = <<>> /\ Separates(tokens, at)
  <2>1. open = <<>> /\ token.kind = ";" /\ StatementFollows
    BY <1>5, <1>6
  <2>2. statement' = at + 1
    BY <2>1, Zenon DEF ScanTrailing
  <2> QED BY <1>2, <1>3, <1>4, <1>6, <2>2, TrailingToken
<1>7. CASE /\ ~(open = <<>> /\ Separates(tokens, at))
           /\ open = <<>> /\ AtBase(token)
  <2>1. open = <<>> /\ ~(token.kind = ";" /\ StatementFollows) /\ AtBase(token)
    BY <1>5, <1>7
  <2>2. statement' = at
    BY <2>1, Zenon DEF ScanTrailing
  <2>3. tokens[at].starts /\ tokens[at].indent = baseIndent
    BY <1>2, <1>7 DEF AtBase
  <2> QED BY <1>2, <1>3, <1>4, <1>7, <2>2, <2>3, TrailingToken
<1>8. CASE /\ ~(open = <<>> /\ Separates(tokens, at))
           /\ ~(open = <<>> /\ AtBase(token))
  <2>1. /\ ~(open = <<>> /\ token.kind = ";" /\ StatementFollows)
        /\ ~(open = <<>> /\ ~(token.kind = ";" /\ StatementFollows) /\ AtBase(token))
    BY <1>5, <1>8
  <2>2. statement' = statement
    BY <2>1, Zenon DEF ScanTrailing
  <2>3. ~(open = <<>> /\ tokens[at].starts /\ tokens[at].indent = baseIndent)
    BY <1>2, <1>8 DEF AtBase
  <2> QED BY <1>2, <1>3, <1>4, <1>8, <2>2, <2>3, TrailingToken
<1> QED BY <1>6, <1>7, <1>8

LEMMA TrailingStep ==
  ASSUME ScanTypeOK, SearchInv, TrailingInv, [ScanNext]_scanVars
  PROVE  TrailingInv'
<1>1. CASE CheckToken
  BY <1>1 DEF CheckToken, TrailingInv
<1>2. CASE ReturnVerdict
  BY <1>2 DEF ReturnVerdict, TrailingInv
<1>3. CASE MeasureIndent
  BY <1>3 DEF MeasureIndent, TrailingInv
<1>4. CASE ScanVariables
  BY <1>4 DEF ScanVariables, TrailingInv
<1>5. CASE ReturnVariables
  BY <1>5 DEF ReturnVariables, TrailingInv
<1>6. CASE ScanTrailing
  BY <1>6, TrailingGoesOn
<1>7. CASE ReturnTrailing
  BY <1>7 DEF ReturnTrailing, TrailingInv
<1>8. CASE UNCHANGED scanVars
  BY <1>8 DEF scanVars, TrailingInv
<1> QED BY <1>1, <1>2, <1>3, <1>4, <1>5, <1>6, <1>7, <1>8 DEF ScanNext

LEMMA TrailingFollows == ScanTypeOK /\ SearchInv /\ TrailingInv => LastStatementIsDisplayed
<1> SUFFICES ASSUME ScanTypeOK, SearchInv, TrailingInv,
                    Found("trailing"), statement # 0, WellFormed, LinesInBracketsAreDeeper,
                    \A i \in DOMAIN tokens : StartsStatement(i) =>
                      i \in LineHeads \/ tokens[HeadOf(i)].indent = Base
             PROVE  statement = Max(BaseStatements)
  BY DEF LastStatementIsDisplayed
<1>1. /\ tokens \in Seq(Token) /\ Len(tokens) \in Nat /\ DOMAIN tokens = 1..Len(tokens)
      /\ at \in 1..(Len(tokens) + 1)
  BY PositionsInCell DEF ScanTypeOK
<1>2. TellsLast(tokens)
  BY <1>1, ScanTerms DEF TellsLast, WellFormed, LinesInBracketsAreDeeper
<1>3. scan = "trailing" /\ returned /\ at = Len(tokens) + 1
  BY <1>1 DEF SearchInv, Found, Eof
<1>4. IsLast(Seen(tokens, Len(tokens) + 1), statement)
  BY <1>2, <1>3 DEF TrailingInv
<1>5. Seen(tokens, Len(tokens) + 1) = BasesIn(tokens)
  <2>1. \A i \in BasesIn(tokens) : i < Len(tokens) + 1
    BY <1>1 DEF BasesIn
  <2> QED BY <2>1 DEF Seen
<1>6. BasesIn(tokens) \subseteq Nat
  BY <1>1 DEF BasesIn
<1>7. Max(BasesIn(tokens)) = statement
  BY <1>4, <1>5, <1>6, MaxIs DEF IsLast
<1> QED BY <1>1, <1>7, ScanTerms

LEMMA SearchInvHolds == ScanSpec => [](ScanTypeOK /\ SearchInv /\ TrailingInv)
<1>1. ScanTypeOK /\ SearchInv /\ TrailingInv /\ [ScanNext]_scanVars
        => (ScanTypeOK /\ SearchInv /\ TrailingInv)'
  BY ScanTypes, SearchStep, TrailingStep
<1> QED BY <1>1, ScanBegins, SearchBegins, PTL DEF ScanSpec

\* findTrailingStatement: what a cell displays begins the last statement of its
\* outermost lines, for cells of any tokens.
THEOREM TrailingIsLast == ScanSpec => []LastStatementIsDisplayed
BY SearchInvHolds, TrailingFollows, PTL

\* The names that statements before a position declare.
NamesOf(cell, statements, n) ==
  {cell[i + 1].kind : i \in {j \in statements : /\ cell[j].kind = "var" /\ j + 1 < n
                                                /\ cell[j + 1].kind \in Names}}

StatementsIn(cell) == {i \in DOMAIN cell : Begins(cell, i)}

\* The cells that the promise about all of the variables is for.
TellsVariables(cell) ==
  /\ Nestable(cell) /\ HeadsIn(cell) = StartsIn(cell)
  /\ \A i \in DOMAIN cell : i > 1 => ~(cell[i - 1].kind = "var" /\ cell[i].kind = "var")

LEMMA NamesGrow ==
  ASSUME NEW cell \in Seq(Token), NEW n \in 1..Len(cell), NEW m \in Int, m = n - 1,
         NEW S, S \subseteq DOMAIN cell
  PROVE  NamesOf(cell, S, n + 1)
           = NamesOf(cell, S, n)
               \union (IF m \in S /\ cell[m].kind = "var" /\ cell[n].kind \in Names
                         THEN {cell[n].kind} ELSE {})
<1> DEFINE D(k) == {j \in S : cell[j].kind = "var" /\ j + 1 < k /\ cell[j + 1].kind \in Names}
<1>1. \A j \in S : j \in Nat /\ (j + 1 < n + 1 <=> j + 1 < n \/ j = m) /\ (j = m => j + 1 = n)
  BY PositionsInCell
<1>2. \A x : x \in NamesOf(cell, S, n + 1) =>
        \/ x \in NamesOf(cell, S, n)
        \/ m \in S /\ cell[m].kind = "var" /\ cell[n].kind \in Names /\ x = cell[n].kind
  <2> SUFFICES ASSUME NEW x \in NamesOf(cell, S, n + 1), x \notin NamesOf(cell, S, n)
               PROVE  /\ m \in S /\ cell[m].kind = "var"
                      /\ cell[n].kind \in Names /\ x = cell[n].kind
    OBVIOUS
  <2>1. PICK i \in D(n + 1) : x = cell[i + 1].kind
    BY DEF NamesOf
  <2>2. i \notin D(n)
    BY <2>1 DEF NamesOf
  <2>3. i \in S /\ cell[i].kind = "var" /\ i + 1 < n + 1 /\ cell[i + 1].kind \in Names
        /\ ~(i + 1 < n)
    BY <2>1, <2>2
  <2>4. i = m /\ i + 1 = n
    BY <1>1, <2>3
  <2> QED BY <2>1, <2>3, <2>4
<1>3. \A x : x \in NamesOf(cell, S, n) => x \in NamesOf(cell, S, n + 1)
  <2>1. D(n) \subseteq D(n + 1)
    BY <1>1
  <2> QED BY <2>1 DEF NamesOf
<1>4. m \in S /\ cell[m].kind = "var" /\ cell[n].kind \in Names
        => cell[n].kind \in NamesOf(cell, S, n + 1)
  <2> SUFFICES ASSUME m \in S, cell[m].kind = "var", cell[n].kind \in Names
               PROVE  cell[n].kind \in NamesOf(cell, S, n + 1)
    OBVIOUS
  <2>1. m + 1 = n /\ m + 1 < n + 1
    BY <1>1
  <2>2. m \in D(n + 1) /\ cell[n].kind = cell[m + 1].kind
    BY <2>1
  <2> QED BY <2>2 DEF NamesOf
<1> QED BY <1>2, <1>3, <1>4

LEMMA NameIsKept ==
  ASSUME NEW s \in Seq(Names), IsInjective(s), NEW x \in Names \ Range(s)
  PROVE  /\ Append(s, x) \in Seq(Names) /\ IsInjective(Append(s, x))
         /\ Range(Append(s, x)) = Range(s) \union {x}
<1> DEFINE t == Append(s, x)
<1>1. t \in Seq(Names) /\ Len(s) \in Nat /\ Len(t) = Len(s) + 1 /\ t[Len(s) + 1] = x
  OBVIOUS
<1>2. /\ DOMAIN s = 1..Len(s) /\ DOMAIN t = 1..(Len(s) + 1)
      /\ \A i \in 1..Len(s) : t[i] = s[i] /\ s[i] \in Range(s)
  BY <1>1 DEF Range
<1>3. \A i \in 1..(Len(s) + 1) : i \in 1..Len(s) \/ i = Len(s) + 1
  BY <1>1
<1> HIDE DEF t
<1>4. Range(t) = Range(s) \union {x}
  <2>1. \A y \in Range(t) : y \in Range(s) \/ y = x
    BY <1>1, <1>2, <1>3 DEF Range
  <2>2. x \in Range(t)
    BY <1>1, <1>2 DEF Range
  <2>3. \A y \in Range(s) : y \in Range(t)
    <3>1. \A i \in 1..Len(s) : i \in 1..(Len(s) + 1)
      BY <1>1
    <3> QED BY <1>2, <3>1 DEF Range
  <2> QED BY <2>1, <2>2, <2>3
<1>5. IsInjective(t)
  <2> SUFFICES ASSUME NEW a \in 1..(Len(s) + 1), NEW b \in 1..(Len(s) + 1), t[a] = t[b]
               PROVE  a = b
    BY <1>2 DEF IsInjective
  <2>1. CASE a \in 1..Len(s) /\ b \in 1..Len(s)
    BY <1>2, <2>1 DEF IsInjective
  <2>2. CASE a = Len(s) + 1 \/ b = Len(s) + 1
    BY <1>1, <1>2, <1>3, <2>2
  <2> QED BY <1>3, <2>1, <2>2
<1> QED BY <1>1, <1>4, <1>5 DEF t

\* Where the brackets end with their line, the line of a statement is the last one
\* that begins before it.
LEMMA BaseToken ==
  ASSUME NEW cell \in Cells, cell \in Seq(Token), NEW n \in 1..Len(cell), NEW m \in Int,
         m = n - 1, NEW stack \in Seq(Opening), Follows(cell, stack, n), TellsVariables(cell),
         NEW indent \in Nat, Measures(cell, indent)
  PROVE  n \in BasesIn(cell) <=>
           /\ stack = <<>>
           /\ n \in StartsIn(cell) \/ (~cell[n].starts /\ cell[m].kind = ";")
           /\ LastIndent(cell, n + 1) = indent
<1>1. n \in DOMAIN cell /\ n \in 1..(Len(cell) + 1) /\ n \in Nat /\ cell # <<>>
  BY PositionsInCell
<1>2. OutsideIn(cell, n) <=> stack = <<>>
  BY <1>1, OutsideIsOpen DEF TellsVariables
<1>3. HeadsIn(cell) = StartsIn(cell) /\ StartsIn(cell) \subseteq 1..Len(cell)
  BY PositionsInCell DEF TellsVariables, StartsIn
<1>4. Begins(cell, n) <=>
        /\ stack = <<>>
        /\ n \in StartsIn(cell) \/ (~cell[n].starts /\ cell[m].kind = ";")
  BY <1>2, <1>3, BeginsWhen
<1>5. indent = BaseIn(cell)
  <2> DEFINE S == {cell[j].indent : j \in HeadsIn(cell)}
  <2>1. \A i \in DOMAIN cell : cell[i] \in Token
    OBVIOUS
  <2>2. S \in SUBSET Nat /\ S # {}
    <3>1. \A i \in DOMAIN cell : cell[i].indent \in Nat
      BY <2>1 DEF Token
    <3>2. HeadsIn(cell) \subseteq DOMAIN cell
      BY <1>3 DEF StartsIn
    <3>3. 1 \in HeadsIn(cell)
      BY <1>1, FirstLine
    <3> QED BY <3>1, <3>2, <3>3
  <2>3. \A x \in S : BaseIn(cell) <= x
    BY <2>2, MinOfSet DEF BaseIn
  <2>4. BaseIn(cell) \in Nat
    BY <2>2, MinOfSet DEF BaseIn
  <2>5. \A i \in StartsIn(cell) : cell[i].indent \in S
    BY <1>3
  <2>6. \A x \in S : x \in Nat
    BY <2>2
  <2> HIDE DEF S
  <2>7. \A i \in StartsIn(cell) : cell[i].indent >= BaseIn(cell)
    BY <2>3, <2>4, <2>5, <2>6
  <2> QED BY <1>1, <2>7, BaseIsMeasured
<1>6. cell[HeadIn(cell, n)].indent = LastIndent(cell, n + 1)
  <2>1. {j \in HeadsIn(cell) : j <= n} = Below(StartsIn(cell), n + 1)
    BY <1>1, <1>3 DEF Below
  <2>2. 1 \in Below(StartsIn(cell), n + 1)
    BY <1>1, FirstLine DEF Below
  <2> QED BY <2>1, <2>2 DEF HeadIn, LastIndent
<1> QED BY <1>1, <1>4, <1>5, <1>6 DEF BasesIn

\* The scan for variables is at a token.
VariablesInv ==
  scan = "variables" =>
    /\ variables \in Seq(Names) /\ IsInjective(variables)
    /\ statementAtBase \in BOOLEAN /\ afterSemicolon \in BOOLEAN /\ expectName \in BOOLEAN
    /\ statementAtBase <=> at > 1 /\ LastIndent(tokens, at) = baseIndent
    /\ afterSemicolon <=> at > 1 /\ tokens[at - 1].kind = ";" /\ open = <<>>
    /\ Nestable(tokens) =>
         /\ expectName => /\ at - 1 \in StatementsIn(tokens)
                          /\ tokens[at - 1].kind = "var"
         /\ Range(variables) \subseteq NamesOf(tokens, StatementsIn(tokens), at)
    /\ TellsVariables(tokens) =>
         /\ expectName <=> at - 1 \in BasesIn(tokens) /\ tokens[at - 1].kind = "var"
         /\ Range(variables) = NamesOf(tokens, BasesIn(tokens), at)

LEMMA VariablesBegin == ScanInit => VariablesInv
<1> SUFFICES ASSUME ScanInit, scan = "variables" PROVE VariablesInv
  BY DEF VariablesInv
<1>1. /\ tokens \in Seq(Token) /\ at = 1 /\ open = <<>> /\ variables = <<>>
      /\ statementAtBase = FALSE /\ afterSemicolon = FALSE /\ expectName = FALSE
  BY CellsAssumption DEF ScanInit
<1>2. variables \in Seq(Names) /\ IsInjective(variables) /\ Range(variables) = {}
  BY <1>1 DEF IsInjective, Range
<1>3. /\ StatementsIn(tokens) \subseteq DOMAIN tokens /\ BasesIn(tokens) \subseteq DOMAIN tokens
      /\ \A i \in DOMAIN tokens : i \in Nat /\ i >= 1
  BY <1>1, PositionsInCell DEF StatementsIn, BasesIn
<1>4. NamesOf(tokens, BasesIn(tokens), 1) = {}
  BY <1>3 DEF NamesOf
<1>5. ~(at > 1) /\ at - 1 = 0 /\ 0 \notin BasesIn(tokens)
  BY <1>1, <1>3
<1> QED BY <1>1, <1>2, <1>4, <1>5 DEF VariablesInv

\* A step of the scan.
LEMMA StatementIsNoted ==
  ASSUME ScanTypeOK, SearchInv, VariablesInv, ScanVariables
  PROVE  /\ at \in 1..Len(tokens) /\ tokens \in Seq(Token) /\ tokens \in Cells
         /\ open \in Seq(Opening) /\ open' \in Seq(Opening)
         /\ at' = at + 1 /\ UNCHANGED <<tokens, scan, baseIndent>>
         /\ baseIndent \in Nat /\ Measures(tokens, baseIndent)
         /\ Follows(tokens, open, at)
         /\ statementAtBase' \in BOOLEAN /\ afterSemicolon' \in BOOLEAN
         /\ expectName' \in BOOLEAN
         /\ token = tokens[at] /\ token.starts \in BOOLEAN
         /\ ~token.starts => at > 1
         /\ statementAtBase' <=> LastIndent(tokens, at + 1) = baseIndent
         /\ afterSemicolon' <=> tokens[at].kind = ";" /\ open' = <<>>
<1>1. /\ scan = "variables" /\ ~Eof /\ baseIndent # -1 /\ at' = at + 1
      /\ UNCHANGED <<tokens, scan, baseIndent>>
      /\ open' = Brackets(open, token.kind)
      /\ statementAtBase' = IF token.starts THEN AtBase(token) ELSE statementAtBase
      /\ afterSemicolon' = (open' = <<>> /\ token.kind = ";")
      /\ expectName' = /\ ~expectName /\ token.kind = "var"
                       /\ StatementStart /\ OutsideAtBase(token)
  BY DEF ScanVariables
<1>2. /\ at \in 1..Len(tokens) /\ Len(tokens) \in Nat
      /\ tokens \in Cells /\ tokens \in Seq(Token)
      /\ open \in Seq(Opening) /\ open' \in Seq(Opening)
      /\ baseIndent \in Nat /\ token = tokens[at] /\ token.starts \in BOOLEAN
  BY <1>1, TokenAt, BracketsStack DEF ScanTypeOK, token
<1>3. Follows(tokens, open, at) /\ Measures(tokens, baseIndent)
  BY <1>1 DEF SearchInv
<1>4. ~token.starts => at > 1
  <2>1. tokens # <<>>
    BY <1>2
  <2>2. tokens[1].starts
    BY <1>2, <2>1, FirstLine DEF StartsIn
  <2> QED BY <1>2, <2>2
<1>5. LastIndent(tokens, at + 1) = IF token.starts THEN token.indent ELSE LastIndent(tokens, at)
  BY <1>2, IndentChanges
<1>6. /\ statementAtBase' <=> LastIndent(tokens, at + 1) = baseIndent
      /\ statementAtBase' \in BOOLEAN
  <2>1. CASE token.starts
    BY <1>1, <1>5, <2>1 DEF AtBase
  <2>2. CASE ~token.starts
    BY <1>1, <1>4, <1>5, <2>2 DEF VariablesInv
  <2> QED BY <2>1, <2>2
<1>7. /\ afterSemicolon' \in BOOLEAN /\ expectName' \in BOOLEAN
      /\ afterSemicolon' <=> tokens[at].kind = ";" /\ open' = <<>>
  BY <1>1, <1>2
<1> QED BY <1>1, <1>2, <1>3, <1>4, <1>6, <1>7

\* When the next token is the name of a variable.
LEMMA NameIsExpected ==
  ASSUME ScanTypeOK, SearchInv, VariablesInv, ScanVariables, Nestable(tokens)
  PROVE  /\ expectName' => at \in StatementsIn(tokens) /\ tokens[at].kind = "var"
         /\ TellsVariables(tokens) =>
              (expectName' <=> at \in BasesIn(tokens) /\ tokens[at].kind = "var")
<1>1. /\ at \in 1..Len(tokens) /\ tokens \in Seq(Token) /\ tokens \in Cells
      /\ open \in Seq(Opening) /\ Follows(tokens, open, at)
      /\ baseIndent \in Nat /\ Measures(tokens, baseIndent)
      /\ token = tokens[at] /\ token.starts \in BOOLEAN /\ (~token.starts => at > 1)
  BY StatementIsNoted
<1>2. expectName' <=> /\ ~expectName /\ token.kind = "var"
                      /\ StatementStart /\ OutsideAtBase(token)
  BY DEF ScanVariables
<1>3. /\ scan = "variables"
      /\ expectName \in BOOLEAN /\ afterSemicolon \in BOOLEAN /\ statementAtBase \in BOOLEAN
      /\ statementAtBase <=> at > 1 /\ LastIndent(tokens, at) = baseIndent
      /\ afterSemicolon <=> at > 1 /\ tokens[at - 1].kind = ";" /\ open = <<>>
  BY DEF ScanVariables, VariablesInv
<1>4. PICK m \in Int : m = at - 1
  BY <1>1
<1>5. at \in DOMAIN tokens /\ at \in 1..(Len(tokens) + 1)
  BY <1>1, PositionsInCell
<1>6. /\ OutsideIn(tokens, at) <=> open = <<>>
      /\ at \in StartsIn(tokens) <=> token.starts
      /\ at \in HeadsIn(tokens) <=> token.starts /\ open = <<>>
  BY <1>1, <1>5, OutsideIsOpen DEF StartsIn, HeadsIn
<1>7. Begins(tokens, at) <=>
        /\ OutsideIn(tokens, at)
        /\ at \in HeadsIn(tokens) \/ (~tokens[at].starts /\ tokens[m].kind = ";")
  BY <1>4, BeginsWhen
<1>8. open = <<>> =>
        (StatementStart <=>
           at \in StartsIn(tokens) \/ afterSemicolon)
  BY <1>6 DEF StatementStart
<1>9. ASSUME expectName' PROVE at \in StatementsIn(tokens) /\ tokens[at].kind = "var"
  <2>1. open = <<>> /\ StatementStart /\ token.kind = "var"
    BY <1>2, <1>9 DEF OutsideAtBase
  <2>2. CASE token.starts
    BY <1>1, <1>5, <1>6, <1>7, <2>1, <2>2 DEF StatementsIn
  <2>3. CASE ~token.starts
    <3>1. tokens[m].kind = ";"
      BY <1>3, <1>4, <2>1, <2>3 DEF StatementStart
    <3> QED BY <1>1, <1>5, <1>6, <1>7, <2>1, <2>3, <3>1 DEF StatementsIn
  <2> QED BY <2>2, <2>3
<1>10. ASSUME TellsVariables(tokens)
       PROVE  expectName' <=> at \in BasesIn(tokens) /\ tokens[at].kind = "var"
  <2>1. at \in BasesIn(tokens) <=>
          /\ open = <<>>
          /\ at \in StartsIn(tokens) \/ (~tokens[at].starts /\ tokens[m].kind = ";")
          /\ LastIndent(tokens, at + 1) = baseIndent
    BY <1>1, <1>4, <1>10, BaseToken
  <2>2. LastIndent(tokens, at + 1)
          = IF token.starts THEN token.indent ELSE LastIndent(tokens, at)
    BY <1>1, IndentChanges
  <2>3. token.kind = "var" => ~expectName
    <3> SUFFICES ASSUME token.kind = "var", expectName PROVE FALSE
      OBVIOUS
    <3>1. m \in StatementsIn(tokens) /\ tokens[m].kind = "var"
      BY <1>3, <1>4 DEF VariablesInv
    <3>2. m \in 1..Len(tokens)
      BY <1>1, <3>1, PositionsInCell DEF StatementsIn
    <3>3. at > 1
      BY <1>1, <1>4, <3>2
    <3> QED BY <1>1, <1>4, <1>5, <1>10, <3>1, <3>3 DEF TellsVariables
  <2>4. CASE token.starts
    <3>1. StatementStart /\ (OutsideAtBase(token) <=> open = <<>> /\ token.indent = baseIndent)
      BY <2>4 DEF StatementStart, OutsideAtBase, AtBase
    <3> QED BY <1>1, <1>2, <1>6, <2>1, <2>2, <2>3, <2>4, <3>1
  <2>5. CASE ~token.starts
    <3>1. /\ StatementStart <=> afterSemicolon
          /\ OutsideAtBase(token) <=> open = <<>> /\ statementAtBase
      BY <2>5 DEF StatementStart, OutsideAtBase, AtBase
    <3>2. afterSemicolon <=> tokens[m].kind = ";" /\ open = <<>>
      BY <1>1, <1>3, <1>4, <2>5
    <3>3. statementAtBase <=> LastIndent(tokens, at) = baseIndent
      BY <1>1, <1>3, <2>5
    <3> QED BY <1>1, <1>2, <1>6, <2>1, <2>2, <2>3, <2>5, <3>1, <3>2, <3>3
  <2> QED BY <2>4, <2>5
<1> QED BY <1>9, <1>10

\* A token is kept when it is the name that is expected.
LEMMA VariablesGrow ==
  ASSUME ScanVariables, VariablesInv
  PROVE  /\ variables' \in Seq(Names) /\ IsInjective(variables')
         /\ Range(variables') = Range(variables)
              \union (IF expectName /\ token.kind \in Names THEN {token.kind} ELSE {})
<1>1. /\ scan = "variables"
      /\ variables' = IF expectName /\ token.kind \in Names \ Range(variables)
                        THEN Append(variables, token.kind) ELSE variables
  BY DEF ScanVariables
<1>2. variables \in Seq(Names) /\ IsInjective(variables)
  BY <1>1 DEF VariablesInv
<1>3. CASE expectName /\ token.kind \in Names \ Range(variables)
  BY <1>1, <1>2, <1>3, NameIsKept
<1>4. CASE ~(expectName /\ token.kind \in Names \ Range(variables))
  BY <1>1, <1>2, <1>4
<1> QED BY <1>3, <1>4

LEMMA VariablesGoOn ==
  ASSUME ScanTypeOK, SearchInv, VariablesInv, ScanVariables
  PROVE  VariablesInv'
<1>1. /\ at \in 1..Len(tokens) /\ tokens \in Seq(Token)
      /\ at' = at + 1 /\ UNCHANGED <<tokens, scan, baseIndent>>
      /\ statementAtBase' \in BOOLEAN /\ afterSemicolon' \in BOOLEAN
      /\ expectName' \in BOOLEAN /\ token = tokens[at]
      /\ statementAtBase' <=> LastIndent(tokens, at + 1) = baseIndent
      /\ afterSemicolon' <=> tokens[at].kind = ";" /\ open' = <<>>
  BY StatementIsNoted
<1>2. at \in Nat /\ at + 1 > 1 /\ at + 1 - 1 = at /\ at - 1 \in Int
  <2>1. at \in 1..Len(tokens) /\ tokens \in Seq(Token)
    BY <1>1
  <2> QED BY <2>1, PositionsInCell
<1>3. scan = "variables"
  BY DEF ScanVariables
<1>4. /\ StatementsIn(tokens) \subseteq DOMAIN tokens /\ BasesIn(tokens) \subseteq DOMAIN tokens
  BY DEF StatementsIn, BasesIn
<1>5. ASSUME Nestable(tokens)
      PROVE  /\ expectName' => at \in StatementsIn(tokens) /\ tokens[at].kind = "var"
             /\ Range(variables') \subseteq NamesOf(tokens, StatementsIn(tokens), at + 1)
  <2>1. /\ expectName => at - 1 \in StatementsIn(tokens) /\ tokens[at - 1].kind = "var"
        /\ Range(variables) \subseteq NamesOf(tokens, StatementsIn(tokens), at)
    BY <1>3, <1>5 DEF VariablesInv
  <2>2. NamesOf(tokens, StatementsIn(tokens), at + 1)
          = NamesOf(tokens, StatementsIn(tokens), at)
              \union (IF /\ at - 1 \in StatementsIn(tokens) /\ tokens[at - 1].kind = "var"
                         /\ tokens[at].kind \in Names
                        THEN {tokens[at].kind} ELSE {})
    BY <1>1, <1>2, <1>4, NamesGrow
  <2>3. Range(variables') = Range(variables)
          \union (IF expectName /\ token.kind \in Names THEN {token.kind} ELSE {})
    BY VariablesGrow
  <2>4. expectName' => at \in StatementsIn(tokens) /\ tokens[at].kind = "var"
    BY <1>5, NameIsExpected
  <2>5. Range(variables') \subseteq NamesOf(tokens, StatementsIn(tokens), at + 1)
    BY <1>1, <2>1, <2>2, <2>3
  <2> QED BY <2>4, <2>5
<1>6. ASSUME TellsVariables(tokens)
      PROVE  /\ expectName' <=> at \in BasesIn(tokens) /\ tokens[at].kind = "var"
             /\ Range(variables') = NamesOf(tokens, BasesIn(tokens), at + 1)
  <2>1. /\ expectName <=> at - 1 \in BasesIn(tokens) /\ tokens[at - 1].kind = "var"
        /\ Range(variables) = NamesOf(tokens, BasesIn(tokens), at)
    BY <1>3, <1>6 DEF VariablesInv
  <2>2. NamesOf(tokens, BasesIn(tokens), at + 1)
          = NamesOf(tokens, BasesIn(tokens), at)
              \union (IF /\ at - 1 \in BasesIn(tokens) /\ tokens[at - 1].kind = "var"
                         /\ tokens[at].kind \in Names
                        THEN {tokens[at].kind} ELSE {})
    BY <1>1, <1>2, <1>4, NamesGrow
  <2>3. Range(variables') = Range(variables)
          \union (IF expectName /\ token.kind \in Names THEN {token.kind} ELSE {})
    BY VariablesGrow
  <2>4. expectName' <=> at \in BasesIn(tokens) /\ tokens[at].kind = "var"
    BY <1>6, NameIsExpected DEF TellsVariables
  <2>5. Range(variables') = NamesOf(tokens, BasesIn(tokens), at + 1)
    BY <1>1, <2>1, <2>2, <2>3
  <2> QED BY <2>4, <2>5
<1>7. variables' \in Seq(Names) /\ IsInjective(variables')
  BY VariablesGrow
<1>8. tokens' = tokens /\ baseIndent' = baseIndent /\ at' > 1 /\ at' - 1 = at /\ at' = at + 1
  <2>1. tokens' = tokens /\ baseIndent' = baseIndent /\ at' = at + 1
    BY <1>1
  <2>2. PICK k \in Nat : k = at + 1
    BY <1>2
  <2>3. k > 1 /\ k - 1 = at /\ k = at'
    BY <1>2, <2>1, <2>2
  <2> QED BY <2>1, <2>3
<1>9. /\ statementAtBase' <=> at' > 1 /\ LastIndent(tokens', at') = baseIndent'
      /\ afterSemicolon' <=> at' > 1 /\ tokens'[at' - 1].kind = ";" /\ open' = <<>>
  BY <1>1, <1>8
<1>10. Nestable(tokens') =>
         /\ expectName' => at' - 1 \in StatementsIn(tokens') /\ tokens'[at' - 1].kind = "var"
         /\ Range(variables') \subseteq NamesOf(tokens', StatementsIn(tokens'), at')
  BY <1>5, <1>8
<1>11. TellsVariables(tokens') =>
         /\ expectName' <=> at' - 1 \in BasesIn(tokens') /\ tokens'[at' - 1].kind = "var"
         /\ Range(variables') = NamesOf(tokens', BasesIn(tokens'), at')
  BY <1>6, <1>8
<1> QED BY <1>1, <1>7, <1>9, <1>10, <1>11 DEF VariablesInv

LEMMA VariablesStep ==
  ASSUME ScanTypeOK, SearchInv, VariablesInv, [ScanNext]_scanVars
  PROVE  VariablesInv'
<1>1. CASE CheckToken
  BY <1>1 DEF CheckToken, VariablesInv
<1>2. CASE ReturnVerdict
  BY <1>2 DEF ReturnVerdict, VariablesInv
<1>3. CASE MeasureIndent
  <2>1. at = 1 /\ UNCHANGED <<tokens, scan, at, open, declared>>
    BY <1>3 DEF MeasureIndent, SearchInv
  <2> QED BY <2>1 DEF VariablesInv, declared
<1>4. CASE ScanVariables
  BY <1>4, VariablesGoOn
<1>5. CASE ReturnVariables
  BY <1>5 DEF ReturnVariables, VariablesInv, declared
<1>6. CASE ScanTrailing
  BY <1>6 DEF ScanTrailing, VariablesInv
<1>7. CASE ReturnTrailing
  BY <1>7 DEF ReturnTrailing, VariablesInv
<1>8. CASE UNCHANGED scanVars
  BY <1>8 DEF scanVars, declared, VariablesInv
<1> QED BY <1>1, <1>2, <1>3, <1>4, <1>5, <1>6, <1>7, <1>8 DEF ScanNext

LEMMA VariablesFollow == ScanTypeOK /\ SearchInv /\ VariablesInv => VariablesAreDeclared
<1> SUFFICES ASSUME ScanTypeOK, SearchInv, VariablesInv, Found("variables"), WellFormed
             PROVE  /\ IsInjective(variables)
                    /\ Range(variables) \subseteq
                         DeclaredBy({i \in DOMAIN tokens : StartsStatement(i)})
                    /\ BracketsEndWithTheirLine /\ VarsAreApart =>
                         Range(variables) = DeclaredBy(BaseStatements)
  BY DEF VariablesAreDeclared
<1>1. /\ tokens \in Seq(Token) /\ Len(tokens) \in Nat /\ DOMAIN tokens = 1..Len(tokens)
      /\ at \in 1..(Len(tokens) + 1)
  BY PositionsInCell DEF ScanTypeOK
<1>2. scan = "variables" /\ at = Len(tokens) + 1
  BY <1>1 DEF SearchInv, Found, Eof
<1>3. ASSUME NEW S, S \subseteq DOMAIN tokens
      PROVE  DeclaredBy(S) = NamesOf(tokens, S, Len(tokens) + 1)
  <2>1. \A j \in S : j < Len(tokens) <=> j + 1 < Len(tokens) + 1
    BY <1>1, <1>3
  <2>2. {j \in S : tokens[j].kind = "var" /\ j < Len(tokens) /\ tokens[j + 1].kind \in Names}
          = {j \in S : tokens[j].kind = "var" /\ j + 1 < Len(tokens) + 1
                       /\ tokens[j + 1].kind \in Names}
    BY <2>1
  <2> QED BY <2>2 DEF DeclaredBy, NamesOf
<1>4. /\ {i \in DOMAIN tokens : StartsStatement(i)} = StatementsIn(tokens)
      /\ BaseStatements = BasesIn(tokens) /\ Nestable(tokens)
  BY <1>1, ScanTerms DEF StatementsIn, WellFormed
<1>5. StatementsIn(tokens) \subseteq DOMAIN tokens /\ BasesIn(tokens) \subseteq DOMAIN tokens
  BY DEF StatementsIn, BasesIn
<1>6. BracketsEndWithTheirLine /\ VarsAreApart => TellsVariables(tokens)
  BY <1>1, <1>4, ScanTerms DEF BracketsEndWithTheirLine, VarsAreApart, TellsVariables
<1> QED BY <1>2, <1>3, <1>4, <1>5, <1>6 DEF VariablesInv

LEMMA VariablesInvHolds == ScanSpec => [](ScanTypeOK /\ SearchInv /\ VariablesInv)
<1>1. ScanTypeOK /\ SearchInv /\ VariablesInv /\ [ScanNext]_scanVars
        => (ScanTypeOK /\ SearchInv /\ VariablesInv)'
  BY ScanTypes, SearchStep, VariablesStep
<1> QED BY <1>1, ScanBegins, SearchBegins, VariablesBegin, PTL DEF ScanSpec

\* findTopLevelVariables: what a cell keeps for later cells are the variables that
\* its statements declare, for cells of any tokens.
THEOREM VariablesAreFound == ScanSpec => []VariablesAreDeclared
BY VariablesInvHolds, VariablesFollow, PTL

\* A function that is defined by recursion from k to i.
Recurs(f, a, step, k, i) ==
  \A n \in k..i : f[n] = IF n = k THEN a ELSE step[<<f[n - 1], n>>]

LEMMA RecursionExists ==
  ASSUME NEW S, NEW a \in S, NEW step \in [S \X Nat -> S], NEW k \in Nat, NEW i \in Nat, k <= i
  PROVE  \E f \in [k..i -> S] : Recurs(f, a, step, k, i)
<1> DEFINE Has(j) == \E f \in [k..j -> S] : Recurs(f, a, step, k, j)
           Bad == {j \in k..i : ~Has(j)}
<1>1. SUFFICES ASSUME Bad # {} PROVE FALSE
  OBVIOUS
<1>2. PICK j \in Bad : \A n \in Bad : j <= n
  <2>1. Bad \in SUBSET Nat
    OBVIOUS
  <2> HIDE DEF Bad
  <2>2. Min(Bad) \in Bad /\ \A n \in Bad : Min(Bad) <= n
    BY <1>1, <2>1, MinOfSet
  <2> QED BY <2>2
<1>3. j \in k..i /\ ~Has(j)
  BY <1>2
<1>4. j # k
  <2>1. Recurs([n \in k..k |-> a], a, step, k, k)
    BY DEF Recurs
  <2>2. [n \in k..k |-> a] \in [k..k -> S]
    OBVIOUS
  <2> QED BY <1>3, <2>1, <2>2
<1>5. PICK m \in Nat : m = j - 1 /\ m \in k..i /\ j = m + 1
  BY <1>3, <1>4
<1>6. Has(m)
  <2>1. ~(j <= m)
    BY <1>5
  <2>2. m \notin Bad
    <3> HIDE DEF Bad
    <3> QED BY <1>2, <2>1
  <2> QED BY <1>5, <2>2
<1>7. PICK f \in [k..m -> S] : Recurs(f, a, step, k, m)
  BY <1>6
<1> DEFINE x == step[<<f[m], j>>]
           g == [n \in k..j |-> IF n <= m THEN f[n] ELSE x]
<1>8. f[m] \in S /\ x \in S
  <2>1. m \in k..m /\ j \in Nat
    BY <1>5
  <2> QED BY <1>7, <2>1
<1>9. g \in [k..j -> S]
  <2>1. \A n \in k..j : n <= m => n \in k..m
    BY <1>5
  <2> HIDE DEF x
  <2> QED BY <1>7, <1>8, <2>1
<1>10. ASSUME NEW n \in k..j
       PROVE  g[n] = IF n = k THEN a ELSE step[<<g[n - 1], n>>]
  <2>1. CASE n <= m
    <3>1. n \in k..m /\ g[n] = f[n] /\ (n # k => n - 1 \in k..j /\ n - 1 <= m /\ g[n - 1] = f[n - 1])
      BY <1>5, <2>1
    <3> HIDE DEF g
    <3> QED BY <1>7, <3>1 DEF Recurs
  <2>2. CASE ~(n <= m)
    <3>1. n = j /\ g[n] = x /\ n # k /\ n - 1 = m /\ m \in k..j /\ m <= m
      BY <1>5, <2>2
    <3>2. g[m] = f[m]
      BY <3>1
    <3> HIDE DEF g
    <3> QED BY <3>1, <3>2
  <2> QED BY <2>1, <2>2
<1>11. Recurs(g, a, step, k, j)
  <2> HIDE DEF g
  <2> QED BY <1>10 DEF Recurs
<1> QED BY <1>3, <1>9, <1>11

LEMMA RecursionAgrees ==
  ASSUME NEW a, NEW step, NEW k \in Nat, NEW i \in Nat, NEW j \in Nat, i <= j,
         NEW f, NEW g, Recurs(f, a, step, k, i), Recurs(g, a, step, k, j)
  PROVE  \A n \in k..i : f[n] = g[n]
<1> DEFINE Bad == {n \in k..i : f[n] # g[n]}
<1>1. SUFFICES ASSUME Bad # {} PROVE FALSE
  OBVIOUS
<1>2. PICK n \in Bad : \A m \in Bad : n <= m
  <2>1. Bad \in SUBSET Nat
    OBVIOUS
  <2> HIDE DEF Bad
  <2>2. Min(Bad) \in Bad /\ \A m \in Bad : Min(Bad) <= m
    BY <1>1, <2>1, MinOfSet
  <2> QED BY <2>2
<1>3. n \in k..i /\ n \in k..j /\ f[n] # g[n]
  BY <1>2
<1>4. n # k => f[n - 1] = g[n - 1]
  <2> SUFFICES ASSUME n # k PROVE f[n - 1] = g[n - 1]
    OBVIOUS
  <2>1. n - 1 \in k..i /\ ~(n <= n - 1)
    BY <1>3
  <2>2. n - 1 \notin Bad
    <3> HIDE DEF Bad
    <3> QED BY <1>2, <2>1
  <2> QED BY <2>1, <2>2
<1>5. f[n] = g[n]
  BY <1>3, <1>4 DEF Recurs
<1> QED BY <1>3, <1>5

-----------------------------------------------------------------------------
(* The brackets that are open. *)

\* LeftOpen, of any cell.
Sums(cell, k, i) ==
  CHOOSE f : f = [n \in k..i |-> IF n = k THEN 0 ELSE f[n - 1] + Balance(cell[n - 1])]

OpenOf(cell, k, i) == Sums(cell, k, i)[i]

LEMMA LeftOpenIs == ASSUME NEW k, NEW i PROVE LeftOpen(k, i) = OpenOf(lines, k, i)
BY Zenon DEF LeftOpen, OpenOf, Sums

LEMMA BalanceIsInt ==
  ASSUME NEW l \in Line
  PROVE  Balance(l) \in Int
<1>1. Len(l.marks) \in Nat /\ DOMAIN l.marks = 1..Len(l.marks)
  BY LenProperties DEF Line
<1>2. \A S : S \subseteq DOMAIN l.marks => Cardinality(S) \in Nat
  <2>1. 1 \in Int /\ Len(l.marks) \in Int
    BY <1>1
  <2>2. IsFiniteSet(1..Len(l.marks))
    BY <2>1, FS_Interval, Zenon
  <2>3. IsFiniteSet(DOMAIN l.marks)
    BY <1>1, <2>2
  <2> QED BY <2>3, FS_Subset, FS_CardinalityType
<1>3. PICK hashes : hashes = {k \in DOMAIN l.marks : l.marks[k] = "hash"}
  OBVIOUS
<1>4. PICK text : text = {k \in DOMAIN l.marks : \A h \in hashes : k < h}
  OBVIOUS
<1>5. Balance(l) = Cardinality({k \in text : l.marks[k] = "open"})
                     - Cardinality({k \in text : l.marks[k] = "close"})
  BY <1>3, <1>4 DEF Balance
<1>6. /\ Cardinality({k \in text : l.marks[k] = "open"}) \in Nat
      /\ Cardinality({k \in text : l.marks[k] = "close"}) \in Nat
  BY <1>2, <1>4
<1> QED BY <1>5, <1>6

\* What line n - 1 adds to a sum.
Adds(cell) ==
  [p \in Int \X Nat |->
     p[1] + (IF cell[p[2] - 1] \in Line THEN Balance(cell[p[2] - 1]) ELSE 0)]

LEMMA SumsRecur ==
  ASSUME NEW cell, NEW k \in Nat, NEW i \in Nat, k <= i,
         \A n \in k..(i - 1) : cell[n] \in Line
  PROVE  Recurs(Sums(cell, k, i), 0, Adds(cell), k, i) /\ OpenOf(cell, k, i) \in Int
<1> DEFINE Counts(f) == f = [n \in k..i |-> IF n = k THEN 0 ELSE f[n - 1] + Balance(cell[n - 1])]
           B(n) == IF cell[n - 1] \in Line THEN Balance(cell[n - 1]) ELSE 0
           G == Sums(cell, k, i)
           step == Adds(cell)
<1>1. \A n \in Nat : B(n) \in Int
  BY BalanceIsInt
<1>2. step \in [Int \X Nat -> Int] /\ \A x \in Int, n \in Nat : step[<<x, n>>] = x + B(n)
  <2> HIDE DEF B
  <2>1. step = [p \in Int \X Nat |-> p[1] + B(p[2])]
    BY DEF B, Adds
  <2> QED BY <1>1, <2>1
<1>3. PICK f \in [k..i -> Int] : Recurs(f, 0, step, k, i)
  <2>1. 0 \in Int
    OBVIOUS
  <2> HIDE DEF step
  <2> QED BY <1>2, <2>1, RecursionExists
<1>4. \A n \in k..i : n # k => n - 1 \in k..(i - 1) /\ n - 1 \in k..i /\ n \in Nat
  OBVIOUS
<1>5. \A n \in k..i : f[n] = IF n = k THEN 0 ELSE f[n - 1] + Balance(cell[n - 1])
  <2> SUFFICES ASSUME NEW n \in k..i
               PROVE f[n] = IF n = k THEN 0 ELSE f[n - 1] + Balance(cell[n - 1])
    OBVIOUS
  <2>1. f[n] = IF n = k THEN 0 ELSE step[<<f[n - 1], n>>]
    BY <1>3 DEF Recurs
  <2>2. n # k => f[n - 1] \in Int /\ n \in Nat /\ B(n) = Balance(cell[n - 1])
    BY <1>3, <1>4
  <2> HIDE DEF B, step
  <2> QED BY <1>2, <2>1, <2>2
<1> HIDE DEF step
<1>6. Counts(f)
  <2>1. f = [n \in k..i |-> f[n]]
    OBVIOUS
  <2> QED BY <1>5, <2>1
<1>7. Counts(G)
  <2> HIDE DEF Counts
  <2>1. G = CHOOSE h : Counts(h)
    BY DEF Sums, Counts
  <2> HIDE DEF G
  <2> QED BY <1>6, <2>1
<1> HIDE DEF G
<1>8. \A n \in k..i : G[n] = IF n = k THEN 0 ELSE G[n - 1] + Balance(cell[n - 1])
  BY <1>7
<1>9. \A n \in k..i : G[n] = f[n]
  <2> DEFINE Bad == {n \in k..i : G[n] # f[n]}
  <2>1. SUFFICES ASSUME Bad # {} PROVE FALSE
    OBVIOUS
  <2>2. PICK n \in Bad : \A m \in Bad : n <= m
    <3>1. Bad \in SUBSET Nat
      OBVIOUS
    <3> HIDE DEF Bad
    <3>2. Min(Bad) \in Bad /\ \A m \in Bad : Min(Bad) <= m
      BY <2>1, <3>1, MinOfSet
    <3> QED BY <3>2
  <2>3. n # k => n - 1 \notin Bad /\ n - 1 \in k..i
    <3>1. n \in k..i /\ (n # k => n - 1 \in k..i /\ ~(n <= n - 1))
      BY <2>2
    <3> HIDE DEF Bad
    <3> QED BY <2>2, <3>1
  <2> QED BY <1>5, <1>8, <2>2, <2>3
<1>10. Recurs(G, 0, step, k, i)
  <2> SUFFICES ASSUME NEW n \in k..i
               PROVE  G[n] = IF n = k THEN 0 ELSE step[<<G[n - 1], n>>]
    BY DEF Recurs
  <2>1. f[n] = IF n = k THEN 0 ELSE step[<<f[n - 1], n>>]
    BY <1>3 DEF Recurs
  <2> QED BY <1>4, <1>9, <2>1
<1>11. i \in k..i
  OBVIOUS
<1>12. OpenOf(cell, k, i) = f[i]
  BY <1>9, <1>11 DEF G, OpenOf
<1> QED BY <1>3, <1>10, <1>11, <1>12 DEF G, step

\* One more line opens, or closes, what its balance says.
LEMMA OneMoreLine ==
  ASSUME NEW cell, NEW k \in Nat, NEW i \in Nat, k <= i,
         \A n \in k..i : cell[n] \in Line
  PROVE  /\ OpenOf(cell, k, k) = 0
         /\ OpenOf(cell, k, i) \in Int
         /\ OpenOf(cell, k, i + 1) = OpenOf(cell, k, i) + Balance(cell[i])
<1> DEFINE F == Sums(cell, k, i)
           j == i + 1
           G == Sums(cell, k, j)
<1>1. /\ k \in k..k /\ i \in k..i /\ i \in k..j /\ j \in k..j /\ j # k
      /\ j \in Nat /\ k <= j /\ i <= j /\ j - 1 = i /\ k <= k
      /\ \A n \in k..(i - 1) : n \in k..i
      /\ \A n \in k..(k - 1) : n \in k..i
  OBVIOUS
<1> HIDE DEF j
<1>2. Recurs(F, 0, Adds(cell), k, i) /\ OpenOf(cell, k, i) \in Int
  BY <1>1, SumsRecur
<1>3. Recurs(G, 0, Adds(cell), k, j)
  BY <1>1, SumsRecur
<1>4. Recurs(Sums(cell, k, k), 0, Adds(cell), k, k)
  BY <1>1, SumsRecur
<1>5. OpenOf(cell, k, k) = 0
  BY <1>1, <1>4 DEF Recurs, OpenOf
<1>6. F[i] = G[i]
  BY <1>1, <1>2, <1>3, RecursionAgrees
<1>7. G[j] = Adds(cell)[<<G[i], j>>]
  BY <1>1, <1>3 DEF Recurs
<1>8. G[i] \in Int /\ cell[j - 1] \in Line
  BY <1>1, <1>2, <1>6 DEF OpenOf
<1>9. G[j] = G[i] + Balance(cell[i])
  BY <1>1, <1>7, <1>8 DEF Adds
<1>10. OpenOf(cell, k, j) = OpenOf(cell, k, i) + Balance(cell[i])
  BY <1>6, <1>9 DEF OpenOf
<1> QED BY <1>2, <1>5, <1>10 DEF j

\* What is known while a line is scanned that is not in the header of a declaration.
ScanStates == [openings : Int, requiresColon : {FALSE}, ended : BOOLEAN]

LEMMA MarkIsAdded ==
  ASSUME NEW s \in ScanStates, NEW mark \in Marks
  PROVE  LET t == AddMark(s, mark)
         IN  /\ t \in ScanStates
             /\ s.ended => t = s
             /\ ~s.ended /\ mark = "hash" => t.ended /\ t.openings = s.openings
             /\ ~s.ended /\ mark = "open" => ~t.ended /\ t.openings = s.openings + 1
             /\ ~s.ended /\ mark = "close" => ~t.ended /\ t.openings = s.openings - 1
             /\ ~s.ended /\ mark = "colon" => t = s \/ (t.ended /\ t.openings = 0)
<1>1. /\ "hash" # "open" /\ "hash" # "close" /\ "hash" # "colon" /\ "open" # "close"
      /\ "open" # "colon" /\ "close" # "colon"
  OBVIOUS
<1>2. mark \in {"open", "close", "colon", "hash"}
  BY DEF Marks
<1>3. CASE s.ended
  <2>1. AddMark(s, mark) = s
    BY <1>3, Zenon DEF AddMark
  <2> QED BY <1>3, <2>1
<1>4. CASE ~s.ended /\ mark = "hash"
  <2>1. AddMark(s, mark) = [s EXCEPT !.ended = TRUE]
    BY <1>1, <1>4, Zenon DEF AddMark
  <2>2. [s EXCEPT !.ended = TRUE] \in ScanStates
    BY DEF ScanStates
  <2>3. [s EXCEPT !.ended = TRUE].ended /\ [s EXCEPT !.ended = TRUE].openings = s.openings
    BY DEF ScanStates
  <2> QED BY <1>1, <1>4, <2>1, <2>2, <2>3
<1>5. CASE ~s.ended /\ mark = "open"
  <2>1. AddMark(s, mark) = [s EXCEPT !.openings = @ + 1]
    BY <1>1, <1>5, Zenon DEF AddMark
  <2>2. PICK t : t = [s EXCEPT !.openings = @ + 1]
    OBVIOUS
  <2>3. t \in ScanStates /\ ~t.ended /\ t.openings = s.openings + 1
    <3>1. s.openings + 1 \in Int
      <4>1. PICK x \in Int : x = s.openings
        BY DEF ScanStates
      <4> QED BY <4>1
    <3>2. t = [openings |-> s.openings + 1, requiresColon |-> s.requiresColon,
               ended |-> s.ended]
      BY <2>2 DEF ScanStates
    <3>3. s.requiresColon \in {FALSE} /\ s.ended \in BOOLEAN
      BY DEF ScanStates
    <3> QED BY <1>5, <3>1, <3>2, <3>3 DEF ScanStates
  <2> QED BY <1>1, <1>5, <2>1, <2>2, <2>3
<1>6. CASE ~s.ended /\ mark = "close"
  <2>1. AddMark(s, mark) = [s EXCEPT !.openings = @ - 1]
    BY <1>1, <1>6, Zenon DEF AddMark
  <2>2. PICK t : t = [s EXCEPT !.openings = @ - 1]
    OBVIOUS
  <2>3. t \in ScanStates /\ ~t.ended /\ t.openings = s.openings - 1
    <3>1. s.openings - 1 \in Int
      <4>1. PICK x \in Int : x = s.openings
        BY DEF ScanStates
      <4> QED BY <4>1
    <3>2. t = [openings |-> s.openings - 1, requiresColon |-> s.requiresColon,
               ended |-> s.ended]
      BY <2>2 DEF ScanStates
    <3>3. s.requiresColon \in {FALSE} /\ s.ended \in BOOLEAN
      BY DEF ScanStates
    <3> QED BY <1>6, <3>1, <3>2, <3>3 DEF ScanStates
  <2> QED BY <1>1, <1>6, <2>1, <2>2, <2>3
<1>7. CASE ~s.ended /\ mark = "colon"
  <2>1. AddMark(s, mark) = IF s.openings = 0
                             THEN [s EXCEPT !.requiresColon = FALSE, !.ended = TRUE] ELSE s
    BY <1>1, <1>7, Zenon DEF AddMark
  <2>2. PICK t : t = [s EXCEPT !.requiresColon = FALSE, !.ended = TRUE]
    OBVIOUS
  <2>3. t \in ScanStates /\ t.ended /\ t.openings = s.openings
    BY <2>2 DEF ScanStates
  <2>4. CASE s.openings = 0
    BY <1>1, <1>7, <2>1, <2>2, <2>3, <2>4
  <2>5. CASE s.openings # 0
    BY <1>1, <1>7, <2>1, <2>5
  <2> QED BY <2>4, <2>5
<1> QED BY <1>2, <1>3, <1>4, <1>5, <1>6, <1>7

\* What scan is in Scanned.
Scan(marks) ==
  CHOOSE f : f = [n \in 0..Len(marks) |->
    IF n = 0 THEN [openings |-> openings, requiresColon |-> requiresColon, ended |-> FALSE]
    ELSE AddMark(f[n - 1], marks[n])]

LEMMA ScanRecurs ==
  ASSUME NEW marks \in Seq(Marks), openings \in Int, requiresColon = FALSE
  PROVE  /\ Scanned(marks) = Scan(marks)[Len(marks)]
         /\ \A n \in 0..Len(marks) :
              Scan(marks)[n] = IF n = 0 THEN [openings |-> openings, requiresColon |-> requiresColon,
                                              ended |-> FALSE]
                               ELSE AddMark(Scan(marks)[n - 1], marks[n])
<1> DEFINE first == [openings |-> openings, requiresColon |-> requiresColon, ended |-> FALSE]
           N == Len(marks)
           Counts(f) == f = [n \in 0..N |-> IF n = 0 THEN first ELSE AddMark(f[n - 1], marks[n])]
           step == [p \in ScanStates \X Nat |->
                      IF p[2] \in 1..N THEN AddMark(p[1], marks[p[2]]) ELSE p[1]]
           G == Scan(marks)
<1>1. first \in ScanStates
  BY DEF ScanStates
<1>2. N \in Nat /\ 0 \in Nat /\ 0 <= N /\ \A n \in 1..N : marks[n] \in Marks
  BY LenProperties, ElementOfSeq
<1>3. /\ step \in [ScanStates \X Nat -> ScanStates]
      /\ \A s \in ScanStates, n \in 1..N : step[<<s, n>>] = AddMark(s, marks[n])
  <2>1. \A s \in ScanStates, n \in 1..N : AddMark(s, marks[n]) \in ScanStates
    BY <1>2, MarkIsAdded
  <2>2. \A n \in 1..N : n \in Nat
    BY <1>2
  <2> HIDE DEF N
  <2> QED BY <2>1, <2>2
<1> HIDE DEF step, first, N
<1>4. PICK f \in [0..N -> ScanStates] : Recurs(f, first, step, 0, N)
  BY <1>1, <1>2, <1>3, RecursionExists
<1>5. \A n \in 0..N : f[n] = IF n = 0 THEN first ELSE AddMark(f[n - 1], marks[n])
  <2> SUFFICES ASSUME NEW n \in 0..N
               PROVE  f[n] = IF n = 0 THEN first ELSE AddMark(f[n - 1], marks[n])
    OBVIOUS
  <2>1. f[n] = IF n = 0 THEN first ELSE step[<<f[n - 1], n>>]
    BY <1>4 DEF Recurs
  <2>2. n # 0 => n - 1 \in 0..N /\ n \in 1..N
    BY <1>2
  <2> QED BY <1>3, <1>4, <2>1, <2>2
<1>6. Counts(f)
  <2>1. f = [n \in 0..N |-> f[n]]
    BY <1>4
  <2> QED BY <1>5, <2>1
<1>7. G = CHOOSE h : Counts(h)
  BY DEF Scan, first, N
<1>8. Counts(G)
  <2> HIDE DEF Counts, G
  <2> QED BY <1>6, <1>7
<1>9. Scanned(marks) = G[N]
  BY Zenon DEF Scanned, Scan, N
<1> HIDE DEF G
<1>10. \A n \in 0..N : G[n] = IF n = 0 THEN first ELSE AddMark(G[n - 1], marks[n])
  BY <1>8
<1> QED BY <1>9, <1>10 DEF G, first, N

\* A line that does not close the last bracket leaves open what its balance says.
LEMMA LineIsScanned ==
  ASSUME NEW l \in Line, openings \in Int, requiresColon = FALSE
  PROVE  LET s == Scanned(l.marks)
         IN  s.requiresColon = FALSE /\ (s.openings = 0 \/ s.openings = openings + Balance(l))
<1> DEFINE marks == l.marks
           N == Len(marks)
           G == Scan(marks)
<1>1. marks \in Seq(Marks) /\ N \in Nat /\ DOMAIN marks = 1..N
      /\ \A n \in 1..N : marks[n] \in Marks
  BY LenProperties, ElementOfSeq DEF Line
<1>2. PICK hashes : hashes = {k \in DOMAIN marks : marks[k] = "hash"}
  OBVIOUS
<1>3. PICK text : text = {k \in DOMAIN marks : \A h \in hashes : k < h}
  OBVIOUS
<1>4. PICK O : O = {k \in text : marks[k] = "open"}
  OBVIOUS
<1>5. PICK C : C = {k \in text : marks[k] = "close"}
  OBVIOUS
<1>6. Balance(l) = Cardinality(O) - Cardinality(C)
  BY <1>2, <1>3, <1>4, <1>5 DEF Balance
<1> HIDE DEF marks, N
<1>7. O \subseteq 1..N /\ C \subseteq 1..N /\ hashes \subseteq 1..N
  BY <1>1, <1>2, <1>3, <1>4, <1>5
<1> DEFINE o(n) == Cardinality(Below(O, n))
           c(n) == Cardinality(Below(C, n))
           Known(n) ==
             /\ G[n] \in ScanStates
             /\ \/ G[n].ended /\ G[n].openings = 0
                \/ /\ G[n].openings = openings + o(n + 1) - c(n + 1)
                   /\ G[n].ended <=> \E h \in hashes : h <= n
           Bad == {n \in 0..N : ~Known(n)}
<1>8. /\ Scanned(marks) = G[N]
      /\ G[0] = [openings |-> openings, requiresColon |-> requiresColon, ended |-> FALSE]
      /\ \A n \in 1..N : G[n] = AddMark(G[n - 1], marks[n])
  <2>1. \A n \in 1..N : n \in 0..N /\ n # 0
    BY <1>1
  <2>2. 0 \in 0..N
    BY <1>1
  <2> HIDE DEF G
  <2> QED BY <1>1, <2>1, <2>2, ScanRecurs DEF G, N
<1> HIDE DEF G
<1>9. \A n \in Nat : o(n) \in Nat /\ c(n) \in Nat
        /\ o(n + 1) = o(n) + (IF n \in O THEN 1 ELSE 0)
        /\ c(n + 1) = c(n) + (IF n \in C THEN 1 ELSE 0)
        /\ o(1) = 0 /\ c(1) = 0
  <2> TAKE n \in Nat
  <2>1. /\ o(n) \in Nat /\ o(n + 1) = o(n) + (IF n \in O THEN 1 ELSE 0)
        /\ o(1) = 0
    BY <1>1, <1>7, BelowCounts
  <2>2. /\ c(n) \in Nat /\ c(n + 1) = c(n) + (IF n \in C THEN 1 ELSE 0)
        /\ c(1) = 0
    BY <1>1, <1>7, BelowCounts
  <2> QED BY <2>1, <2>2
<1>10. o(N + 1) = Cardinality(O) /\ c(N + 1) = Cardinality(C)
  <2>1. Below(O, N + 1) = O /\ Below(C, N + 1) = C
    BY <1>1, <1>7, BelowCounts
  <2> QED BY <2>1
<1> HIDE DEF o, c
<1>11. Known(0)
  <2>1. G[0] \in ScanStates /\ G[0].openings = openings /\ G[0].ended = FALSE
    <3>1. G[0].openings = openings /\ G[0].requiresColon = FALSE /\ G[0].ended = FALSE
      BY <1>8
    <3>2. [openings |-> openings, requiresColon |-> requiresColon, ended |-> FALSE] \in ScanStates
      BY DEF ScanStates
    <3> QED BY <1>8, <3>1, <3>2
  <2>2. ~ \E h \in hashes : h <= 0
    BY <1>7
  <2>3. o(0 + 1) = 0 /\ c(0 + 1) = 0
    BY <1>9
  <2> QED BY <2>1, <2>2, <2>3
<1>12. Bad = {}
  <2> SUFFICES ASSUME Bad # {} PROVE FALSE
    OBVIOUS
  <2>1. PICK n \in Bad : \A m \in Bad : n <= m
    <3>1. Bad \in SUBSET Nat
      BY <1>1
    <3> HIDE DEF Bad
    <3>2. Min(Bad) \in Bad /\ \A m \in Bad : Min(Bad) <= m
      BY <3>1, MinOfSet
    <3> QED BY <3>2
  <2>2. n \in 0..N /\ ~Known(n) /\ n # 0
    BY <1>11, <2>1
  <2>3. PICK m \in Nat : m = n - 1 /\ n = m + 1 /\ m \in 0..N /\ n \in 1..N
    BY <1>1, <2>2
  <2>4. Known(m)
    <3>1. ~(n <= m)
      BY <2>3
    <3>2. m \notin Bad
      <4> HIDE DEF Bad
      <4> QED BY <2>1, <3>1
    <3> HIDE DEF Known
    <3> QED BY <2>3, <3>2
  <2>5. G[n] = AddMark(G[m], marks[n]) /\ marks[n] \in Marks /\ G[m] \in ScanStates
    BY <1>1, <1>8, <2>3, <2>4
  <2>6. G[n] \in ScanStates
    BY <2>5, MarkIsAdded
  <2>7. /\ o(n + 1) = o(n) + (IF n \in O THEN 1 ELSE 0)
        /\ c(n + 1) = c(n) + (IF n \in C THEN 1 ELSE 0)
        /\ o(n) \in Nat /\ c(n) \in Nat /\ o(m + 1) = o(n) /\ c(m + 1) = c(n)
    <3>1. n \in Nat
      BY <2>3
    <3> QED BY <1>9, <2>3, <3>1
  <2>8. Known(n)
    <3>1. CASE G[m].ended /\ G[m].openings = 0
      BY <2>5, <2>6, <3>1, MarkIsAdded
    <3>2. ASSUME G[m].openings = openings + o(n) - c(n), G[m].ended, \E h \in hashes : h <= m
          PROVE  Known(n)
      <4>1. n \notin text
        BY <1>3, <1>7, <2>3, <3>2
      <4>2. n \notin O /\ n \notin C
        BY <1>4, <1>5, <4>1
      <4>3. o(n + 1) = o(n) /\ c(n + 1) = c(n)
        BY <2>7, <4>2
      <4>4. \E h \in hashes : h <= n
        BY <1>7, <2>3, <3>2
      <4> QED BY <2>5, <2>6, <3>2, <4>3, <4>4, MarkIsAdded
    <3>3. ASSUME G[m].openings = openings + o(n) - c(n), ~G[m].ended, ~ \E h \in hashes : h <= m
          PROVE  Known(n)
      <4>0. G[m].openings \in Int
        BY <2>5 DEF ScanStates
      <4>1. CASE marks[n] = "hash"
        <5>1. n \in hashes /\ n \notin text
          BY <1>1, <1>2, <1>3, <2>3, <4>1
        <5>2. o(n + 1) = o(n) /\ c(n + 1) = c(n)
          BY <1>4, <1>5, <2>7, <5>1
        <5>3. G[n].ended /\ G[n].openings = G[m].openings
          BY <2>5, <3>3, <4>1, MarkIsAdded
        <5>4. \E h \in hashes : h <= n
          BY <2>3, <5>1
        <5> QED BY <2>6, <3>3, <5>2, <5>3, <5>4
      <4>2. CASE marks[n] # "hash"
        <5>1. /\ n \in text
              /\ ~ \E h \in hashes : h <= n
          <6>1. \A h \in hashes : h # n /\ ~(h <= m) /\ h \in Nat
            BY <1>2, <1>7, <3>3, <4>2
          <6>2. \A h \in hashes : n < h
            BY <2>3, <6>1
          <6> QED BY <1>1, <1>3, <2>3, <6>1, <6>2
        <5>2. marks[n] = "open" => ~G[n].ended /\ G[n].openings = G[m].openings + 1
          BY <2>5, <3>3, MarkIsAdded
        <5>3. marks[n] = "close" => ~G[n].ended /\ G[n].openings = G[m].openings - 1
          BY <2>5, <3>3, MarkIsAdded
        <5>4. marks[n] = "colon" => G[n] = G[m] \/ (G[n].ended /\ G[n].openings = 0)
          BY <2>5, <3>3, MarkIsAdded
        <5>5. n \in O <=> marks[n] = "open"
          BY <1>4, <5>1
        <5>6. n \in C <=> marks[n] = "close"
          BY <1>5, <5>1
        <5>7. marks[n] \in {"open", "close", "colon"}
          BY <2>5, <4>2 DEF Marks
        <5>8. CASE marks[n] = "open"
          <6>1. o(n + 1) = o(n) + 1 /\ c(n + 1) = c(n)
            BY <2>7, <5>5, <5>6, <5>8
          <6> QED BY <2>6, <2>7, <3>3, <5>1, <5>2, <5>8, <6>1
        <5>9. CASE marks[n] = "close"
          <6>1. o(n + 1) = o(n) /\ c(n + 1) = c(n) + 1
            BY <2>7, <5>5, <5>6, <5>9
          <6> QED BY <2>6, <2>7, <3>3, <5>1, <5>3, <5>9, <6>1
        <5>10. CASE marks[n] = "colon"
          <6>1. o(n + 1) = o(n) /\ c(n + 1) = c(n)
            BY <2>7, <5>5, <5>6, <5>10
          <6> QED BY <2>6, <3>3, <5>1, <5>4, <5>10, <6>1
        <5> QED BY <5>7, <5>8, <5>9, <5>10
      <4> QED BY <4>1, <4>2
    <3> QED BY <2>3, <2>4, <3>1, <3>2, <3>3
  <2> QED BY <2>2, <2>8
<1>13. Known(N)
  <2>1. N \in 0..N
    BY <1>1
  <2> HIDE DEF Known
  <2> QED BY <1>12, <2>1
<1>14. G[N].requiresColon = FALSE
  BY <1>13 DEF ScanStates
<1>15. G[N].openings = 0 \/ G[N].openings = openings + Balance(l)
  <2>1. o(N + 1) \in Nat /\ c(N + 1) \in Nat
    BY <1>1, <1>9
  <2> QED BY <1>6, <1>10, <1>13, <2>1
<1> QED BY <1>8, <1>14, <1>15 DEF marks

-----------------------------------------------------------------------------
(* Where indented lines go. *)

\* The line h is the closest one before line i that is in no suite.
LineHead(cell, h, i) ==
  /\ h \in 1..(i - 1) /\ ~SuiteLine(cell[h])
  /\ \A j \in (h + 1)..(i - 1) : SuiteLine(cell[j])

Bracketed(cell, i) ==
  \E k \in 1..(i - 1) : StartsTopLevel(cell[k]) /\ OpenOf(cell, k, i) # 0

\* SuitesStayTogether, of line i.
Together(cell, module, rest, i) ==
  \A h : LineHead(cell, h, i) /\ cell[i].indent > 0 =>
    /\ IsDeclaration(cell[h]) /\ ~Bracketed(cell, h) => i \in module
    /\ h \in rest => i \in rest

\* No suite of a declaration goes on at line i.
SuiteIsOver(cell, i) ==
  \A h : LineHead(cell, h, i) /\ IsDeclaration(cell[h]) /\ ~Bracketed(cell, h) =>
    i > Len(cell) \/ ~SuiteLine(cell[i])

\* The header of the statement that begins at line k goes on: a statement that is
\* no declaration has left its brackets open since.
HeaderFrom(k) ==
  /\ StartsTopLevel(lines[k])
  /\ \A j \in k..(line - 1) : j \in Range(topLevel)
  /\ ~declaration =>
       /\ ~IsDeclaration(lines[k]) /\ requiresColon = FALSE
       /\ openings = OpenOf(lines, k, line)
       /\ \A j \in (k + 1)..line : OpenOf(lines, k, j) # 0

SuiteInv ==
  /\ pc # "split" =>
       \A i \in 1..(line - 1) : Together(lines, Range(topLevel), Range(body), i)
  /\ pc = "next" \/ (pc = "suite" /\ ~declaration) => SuiteIsOver(lines, line)
  /\ pc = "header" => \E k \in 1..line : HeaderFrom(k)
  /\ pc = "suite" /\ declaration =>
       \E k \in 1..(line - 1) :
         ~SuiteLine(lines[k]) /\ \A j \in k..(line - 1) : j \in Range(topLevel)

LEMMA StartsNoSuite == ASSUME NEW l \in Line, StartsTopLevel(l) PROVE ~SuiteLine(l)
<1>1. "declaration" # "blank" /\ "statement" # "blank" /\ "declaration" # "comment"
      /\ "statement" # "comment"
  OBVIOUS
<1> QED BY <1>1 DEF StartsTopLevel, IsDeclaration, StartsWith, SuiteLine, Empty

\* What is said of the lines that were placed stays true.
LEMMA PlacedTogether ==
  ASSUME NEW n \in Nat, NEW cell, NEW top, NEW rest, NEW top2, NEW rest2,
         \A i \in 1..(n - 1) : Together(cell, top, rest, i),
         top \subseteq top2,
         \A j \in 1..(n - 1) : j \in rest2 <=> j \in rest
  PROVE  \A i \in 1..(n - 1) : Together(cell, top2, rest2, i)
<1> TAKE i \in 1..(n - 1)
<1> SUFFICES ASSUME NEW h, LineHead(cell, h, i), cell[i].indent > 0
             PROVE  /\ IsDeclaration(cell[h]) /\ ~Bracketed(cell, h) => i \in top2
                    /\ h \in rest2 => i \in rest2
  BY DEF Together
<1>1. h \in 1..(n - 1)
  BY DEF LineHead
<1>2. /\ IsDeclaration(cell[h]) /\ ~Bracketed(cell, h) => i \in top
      /\ h \in rest => i \in rest
  BY DEF Together
<1> QED BY <1>1, <1>2

\* A line of the module, with all those since a line that is in no suite.
LEMMA PlacedInModule ==
  ASSUME NEW cell, NEW i \in Nat, NEW k \in 1..i, NEW top, NEW rest,
         ~SuiteLine(cell[k]), i \in top, k < i => \A j \in k..(i - 1) : j \in top,
         top \intersect rest = {}
  PROVE  Together(cell, top, rest, i)
<1> SUFFICES ASSUME NEW h, LineHead(cell, h, i), cell[i].indent > 0, h \in rest
             PROVE  FALSE
  BY DEF Together
<1>1. k # i
  BY DEF SuiteLine
<1>2. h \in 1..(i - 1) /\ \A j \in (h + 1)..(i - 1) : SuiteLine(cell[j])
  BY DEF LineHead
<1>3. k <= h
  <2> SUFFICES ASSUME ~(k <= h) PROVE FALSE
    OBVIOUS
  <2>1. k \in (h + 1)..(i - 1)
    BY <1>1, <1>2
  <2> QED BY <1>2, <2>1
<1>4. h \in k..(i - 1) /\ k < i
  BY <1>1, <1>2, <1>3
<1> QED BY <1>4

\* The head of the line after line i.
LEMMA NextHead ==
  ASSUME NEW cell, NEW i \in Nat, NEW h, LineHead(cell, h, i + 1)
  PROVE  /\ h = i \/ LineHead(cell, h, i)
         /\ ~SuiteLine(cell[i]) => h = i
         /\ i >= 1
<1>1. h \in 1..i /\ ~SuiteLine(cell[h]) /\ \A j \in (h + 1)..i : SuiteLine(cell[j])
  BY DEF LineHead
<1>2. h = i \/ h \in 1..(i - 1)
  BY <1>1
<1>3. h \in 1..(i - 1) => LineHead(cell, h, i)
  <2> SUFFICES ASSUME h \in 1..(i - 1) PROVE LineHead(cell, h, i)
    OBVIOUS
  <2>1. \A j \in (h + 1)..(i - 1) : j \in (h + 1)..i
    OBVIOUS
  <2> QED BY <1>1, <2>1 DEF LineHead
<1>4. ~SuiteLine(cell[i]) => ~(h \in 1..(i - 1))
  <2> SUFFICES ASSUME h \in 1..(i - 1) PROVE SuiteLine(cell[i])
    OBVIOUS
  <2>1. i \in (h + 1)..i
    OBVIOUS
  <2> QED BY <1>1, <2>1
<1> QED BY <1>1, <1>2, <1>3, <1>4

\* A line that is placed by itself begins no suite of a declaration.
LEMMA SuiteStaysOver ==
  ASSUME NEW cell, NEW i \in Nat, i <= Len(cell), Len(cell) \in Nat,
         SuiteIsOver(cell, i), ~IsDeclaration(cell[i])
  PROVE  SuiteIsOver(cell, i + 1)
<1> SUFFICES ASSUME NEW h, LineHead(cell, h, i + 1), IsDeclaration(cell[h]), ~Bracketed(cell, h)
             PROVE  FALSE
  BY DEF SuiteIsOver
<1>1. h # i /\ LineHead(cell, h, i) /\ SuiteLine(cell[i])
  BY NextHead
<1> QED BY <1>1 DEF SuiteIsOver

\* What is in the header of a statement that is no declaration begins no suite.
LEMMA HeaderHasNoSuite ==
  ASSUME NEW cell, NEW i \in Nat, NEW k \in 1..i,
         StartsTopLevel(cell[k]), ~SuiteLine(cell[k]), ~IsDeclaration(cell[k]),
         \A j \in (k + 1)..i : OpenOf(cell, k, j) # 0
  PROVE  SuiteIsOver(cell, i + 1)
<1> SUFFICES ASSUME NEW h, LineHead(cell, h, i + 1), IsDeclaration(cell[h]), ~Bracketed(cell, h)
             PROVE  FALSE
  BY DEF SuiteIsOver
<1>1. h \in 1..i /\ \A j \in (h + 1)..i : SuiteLine(cell[j])
  BY DEF LineHead
<1>2. k # h
  OBVIOUS
<1>3. ~(h < k)
  <2> SUFFICES ASSUME h < k PROVE FALSE
    OBVIOUS
  <2>1. k \in (h + 1)..i
    BY <1>1
  <2> QED BY <1>1, <2>1
<1>4. h \in (k + 1)..i /\ k \in 1..(h - 1)
  BY <1>1, <1>2, <1>3
<1> QED BY <1>4 DEF Bracketed

LEMMA CellTypes ==
  ASSUME Inv, WrapInv
  PROVE  /\ line \in Nat \ {0} /\ Len(lines) \in Nat
         /\ \A i \in 1..Len(lines) : lines[i] \in Line
         /\ topLevel \in Seq(1..(line - 1)) /\ body \in Seq(1..(line - 1))
         /\ \A j \in Range(body) : j \in 1..(line - 1)
         /\ Growing(topLevel) /\ Growing(body)
         /\ Range(topLevel) \intersect Range(body) = {}
<1>1. /\ line \in Nat \ {0} /\ Len(lines) \in Nat
      /\ topLevel \in Seq(1..(line - 1)) /\ body \in Seq(1..(line - 1))
  BY LenProperties DEF Inv, InOrder
<1>2. \A j \in Range(body) : j \in 1..(line - 1)
  <2>1. \A i \in DOMAIN body : body[i] \in 1..(line - 1)
    BY <1>1
  <2> QED BY <2>1 DEF Range
<1> QED BY <1>1, <1>2 DEF Inv, LinesArePlaced, WrapInv, Sized

\* A line that the module gets.
LEMMA ModuleTogether ==
  ASSUME Inv, Inv', WrapInv, SuiteInv, pc # "split", line <= Len(lines),
         UNCHANGED <<lines, body>>, topLevel' = Append(topLevel, line), line' = line + 1,
         NEW k \in 1..line, ~SuiteLine(lines[k]), \A j \in k..(line - 1) : j \in Range(topLevel)
  PROVE  /\ \A i \in 1..(line' - 1) :
              Together(lines', Range(topLevel'), Range(body'), i)
         /\ \A j \in k..(line' - 1) : j \in Range(topLevel')
<1>1. /\ line \in Nat \ {0} /\ topLevel \in Seq(1..(line - 1)) /\ Growing(topLevel)
  BY CellTypes
<1>2. Range(topLevel') = Range(topLevel) \union {line}
  BY <1>1, AppendGrows
<1>3. Range(topLevel') \intersect Range(body') = {}
  BY DEF Inv, LinesArePlaced
<1> DEFINE old == Range(topLevel)
           top == Range(topLevel')
           rest == Range(body)
<1>4. \A i \in 1..(line - 1) : Together(lines, old, rest, i)
  BY DEF SuiteInv
<1>5. rest = Range(body') /\ lines' = lines
  BY DEF Range
<1>6. old \subseteq top /\ line \in top /\ top \intersect rest = {}
  BY <1>2, <1>3, <1>5
<1> HIDE DEF old, top, rest
<1>7. \A i \in 1..(line - 1) : Together(lines, top, rest, i)
  BY <1>1, <1>4, <1>6, PlacedTogether
<1>8. \A j \in k..line : j \in top
  <2>1. \A j \in k..line : j = line \/ j \in k..(line - 1)
    BY <1>1
  <2> QED BY <1>6, <2>1 DEF old
<1>9. Together(lines, top, rest, line)
  <2>1. \A j \in k..(line - 1) : j \in k..line
    BY <1>1
  <2>2. line \in Nat
    BY <1>1
  <2> QED BY <1>6, <1>8, <2>1, <2>2, PlacedInModule
<1>10. \A i \in 1..line : Together(lines, top, rest, i)
  <2>1. \A i \in 1..line : i = line \/ i \in 1..(line - 1)
    BY <1>1
  <2> QED BY <1>7, <1>9, <2>1
<1>11. line' - 1 = line
  BY <1>1
<1> QED BY <1>5, <1>8, <1>10, <1>11 DEF top

LEMMA StatementSuites ==
  ASSUME Inv, WrapInv, SuiteInv, TakeTopLevelStatement
  PROVE  SuiteInv'
<1>1. /\ line \in Nat \ {0} /\ line <= Len(lines) /\ StartsTopLevel(lines[line])
      /\ UNCHANGED <<lines, line, topLevel, body>> /\ pc = "next" /\ pc' = "header"
      /\ declaration' = IsDeclaration(lines[line])
      /\ openings' = 0 /\ requiresColon' = IsDeclaration(lines[line])
  BY CellTypes DEF TakeTopLevelStatement
<1>2. line \in 1..Len(lines) /\ \A i \in 1..Len(lines) : lines[i] \in Line
  BY <1>1, CellTypes
<1>3. OpenOf(lines, line, line) = 0
  <2>1. line \in Nat /\ line <= line /\ \A n \in line..line : n = line
    BY <1>1
  <2> QED BY <1>2, <2>1, OneMoreLine
<1>4. HeaderFrom(line)'
  <2>1. \A j \in line..(line - 1) : FALSE
    BY <1>1
  <2>2. \A j \in (line + 1)..line : FALSE
    BY <1>1
  <2>3. requiresColon' = FALSE \/ IsDeclaration(lines[line])
    BY <1>1
  <2>4. PICK k : k = line
    OBVIOUS
  <2>5. HeaderFrom(k)'
    BY <1>1, <1>3, <2>1, <2>2, <2>3, <2>4 DEF HeaderFrom
  <2> QED BY <1>1, <2>4, <2>5
<1>5. \E k \in 1..line' : HeaderFrom(k)'
  <2>1. line \in 1..line' /\ HeaderFrom(line)'
    BY <1>1, <1>4
  <2>2. PICK k : k = line
    OBVIOUS
  <2>3. HeaderFrom(k)'
    BY <1>1, <1>4, <2>2 DEF HeaderFrom
  <2> QED BY <2>1, <2>2, <2>3
<1>6. \A i \in 1..(line' - 1) : Together(lines', Range(topLevel'), Range(body'), i)
  <2>1. Range(topLevel') = Range(topLevel) /\ Range(body') = Range(body)
    BY <1>1
  <2> QED BY <1>1, <2>1 DEF SuiteInv
<1> QED BY <1>1, <1>5, <1>6 DEF SuiteInv

LEMMA HeaderSuites ==
  ASSUME Inv, Inv', WrapInv, SuiteInv, TakeHeaderLine
  PROVE  SuiteInv'
<1>1. /\ pc = "header" /\ line \in Nat \ {0} /\ line <= Len(lines) /\ Len(lines) \in Nat
      /\ UNCHANGED <<lines, body, declaration>>
      /\ topLevel' = Append(topLevel, line) /\ line' = line + 1
  BY CellTypes DEF TakeHeaderLine, Inv, InOrder
<1>2. line \in 1..Len(lines) /\ \A i \in 1..Len(lines) : lines[i] \in Line
  BY <1>1, CellTypes
<1>3. PICK k \in 1..line : HeaderFrom(k)
  BY <1>1 DEF SuiteInv
<1>4. /\ StartsTopLevel(lines[k]) /\ ~SuiteLine(lines[k])
      /\ \A j \in k..(line - 1) : j \in Range(topLevel)
  <2>1. k \in 1..Len(lines)
    BY <1>1
  <2> QED BY <1>2, <1>3, <2>1, StartsNoSuite DEF HeaderFrom
<1>5. /\ \A i \in 1..(line' - 1) : Together(lines', Range(topLevel'), Range(body'), i)
      /\ \A j \in k..(line' - 1) : j \in Range(topLevel')
  BY <1>1, <1>4, ModuleTogether
<1>6. k \in 1..(line' - 1) /\ k \in 1..line' /\ k \in Nat /\ line \in Nat
  BY <1>1
<1>7. ~declaration' => SuiteIsOver(lines', line')
  <2> SUFFICES ASSUME ~declaration' PROVE SuiteIsOver(lines', line')
    OBVIOUS
  <2>1. /\ ~IsDeclaration(lines[k]) /\ \A j \in (k + 1)..line : OpenOf(lines, k, j) # 0
    BY <1>1, <1>3 DEF HeaderFrom
  <2>2. SuiteIsOver(lines, line + 1)
    BY <1>4, <1>6, <2>1, HeaderHasNoSuite
  <2> QED BY <1>1, <2>2
<1>8. PICK s : s = Scanned(lines[line].marks)
  OBVIOUS
<1>9. /\ openings' = s.openings /\ requiresColon' = s.requiresColon
      /\ \/ pc' = "suite"
         \/ ~HeaderEnds(s) /\ pc' = "header"
  BY <1>1, <1>8 DEF TakeHeaderLine
<1>10. pc' = "header" => HeaderFrom(k)'
  <2> SUFFICES ASSUME pc' = "header" PROVE HeaderFrom(k)'
    OBVIOUS
  <2>1. ~HeaderEnds(s)
    BY <1>9
  <2>2. ASSUME ~declaration
        PROVE  /\ ~IsDeclaration(lines[k]) /\ s.requiresColon = FALSE
               /\ s.openings = OpenOf(lines, k, line + 1)
               /\ \A j \in (k + 1)..(line + 1) : OpenOf(lines, k, j) # 0
    <3>1. /\ ~IsDeclaration(lines[k]) /\ requiresColon = FALSE
          /\ openings = OpenOf(lines, k, line)
          /\ \A j \in (k + 1)..line : OpenOf(lines, k, j) # 0
      BY <1>3, <2>2 DEF HeaderFrom
    <3>2. /\ OpenOf(lines, k, line) \in Int
          /\ OpenOf(lines, k, line + 1) = OpenOf(lines, k, line) + Balance(lines[line])
      <4>1. k <= line /\ \A n \in k..line : n \in 1..Len(lines)
        BY <1>1, <1>6
      <4> QED BY <1>2, <1>6, <4>1, OneMoreLine
    <3>3. s.requiresColon = FALSE
          /\ (s.openings = 0 \/ s.openings = openings + Balance(lines[line]))
      BY <1>2, <1>8, <3>1, <3>2, LineIsScanned
    <3>4. s.openings # 0
      BY <2>1, <3>3 DEF HeaderEnds
    <3>5. s.openings = OpenOf(lines, k, line + 1)
      BY <3>1, <3>2, <3>3, <3>4
    <3>6. \A j \in (k + 1)..(line + 1) : j = line + 1 \/ j \in (k + 1)..line
      BY <1>6
    <3> QED BY <3>1, <3>3, <3>4, <3>5, <3>6
  <2>3. ~declaration' =>
           /\ ~IsDeclaration(lines'[k]) /\ requiresColon' = FALSE
           /\ openings' = OpenOf(lines', k, line')
           /\ \A j \in (k + 1)..line' : OpenOf(lines', k, j) # 0
    BY <1>1, <1>9, <2>2
  <2>4. StartsTopLevel(lines'[k])
    BY <1>1, <1>4
  <2> QED BY <1>5, <2>3, <2>4 DEF HeaderFrom
<1>11. pc' # "next"
  BY <1>9
<1>12. ~SuiteLine(lines'[k])
  BY <1>1, <1>4
<1> QED BY <1>5, <1>6, <1>7, <1>10, <1>11, <1>12 DEF SuiteInv

LEMMA SuiteLineSuites ==
  ASSUME Inv, Inv', WrapInv, SuiteInv, TakeSuiteLine
  PROVE  SuiteInv'
<1>1. /\ pc = "suite" /\ declaration /\ line \in Nat \ {0} /\ line <= Len(lines)
      /\ UNCHANGED <<lines, body, pc, declaration>>
      /\ topLevel' = Append(topLevel, line) /\ line' = line + 1
  BY CellTypes DEF TakeSuiteLine
<1>2. PICK k \in 1..(line - 1) :
        ~SuiteLine(lines[k]) /\ \A j \in k..(line - 1) : j \in Range(topLevel)
  BY <1>1 DEF SuiteInv
<1>3. k \in 1..line /\ k \in 1..(line' - 1)
  BY <1>1
<1>4. /\ \A i \in 1..(line' - 1) : Together(lines', Range(topLevel'), Range(body'), i)
      /\ \A j \in k..(line' - 1) : j \in Range(topLevel')
  BY <1>1, <1>2, <1>3, ModuleTogether
<1>5. ~SuiteLine(lines'[k])
  BY <1>1, <1>2
<1> QED BY <1>1, <1>3, <1>4, <1>5 DEF SuiteInv

LEMMA EndSuites ==
  ASSUME Inv, WrapInv, SuiteInv, EndSuite
  PROVE  SuiteInv'
<1>1. /\ pc = "suite" /\ pc' = "next"
      /\ UNCHANGED <<lines, line, topLevel, body, declaration>>
      /\ ~declaration \/ line > Len(lines) \/ ~SuiteLine(lines[line])
  BY DEF EndSuite, Resume
<1>2. SuiteIsOver(lines, line)
  BY <1>1 DEF SuiteInv, SuiteIsOver
<1>3. \A i \in 1..(line' - 1) : Together(lines', Range(topLevel'), Range(body'), i)
  <2>1. Range(topLevel') = Range(topLevel) /\ Range(body') = Range(body)
    BY <1>1
  <2> QED BY <1>1, <2>1 DEF SuiteInv
<1>4. SuiteIsOver(lines', line')
  BY <1>1, <1>2
<1> QED BY <1>1, <1>3, <1>4 DEF SuiteInv

LEMMA LineSuites ==
  ASSUME Inv, WrapInv, SuiteInv, PlaceLine
  PROVE  SuiteInv'
<1>1. /\ pc = "next" /\ pc' = "next" /\ line \in Nat \ {0} /\ line <= Len(lines)
      /\ Len(lines) \in Nat /\ ~StartsTopLevel(lines[line])
      /\ UNCHANGED lines /\ line' = line + 1
      /\ line \in Nat /\ line' - 1 = line
  BY CellTypes DEF PlaceLine, NextLine
<1>2. SuiteIsOver(lines, line)
  BY <1>1 DEF SuiteInv
<1>3. SuiteIsOver(lines', line')
  BY <1>1, <1>2, SuiteStaysOver DEF StartsTopLevel
<1>4. /\ topLevel \in Seq(1..(line - 1)) /\ body \in Seq(1..(line - 1))
      /\ Growing(topLevel) /\ Growing(body)
      /\ \A j \in Range(body) : j \in 1..(line - 1)
      /\ lines[line] \in Line
  <2>1. line \in 1..Len(lines)
    BY <1>1
  <2> QED BY <2>1, CellTypes
<1> DEFINE old == Range(topLevel)
           top == Range(topLevel')
           kept == Range(body)
           rest == Range(body')
<1>5. /\ old \subseteq top
      /\ \A j \in 1..(line - 1) : j \in rest <=> j \in kept
      /\ lines[line].indent > 0 => line \in rest
      /\ \A j \in rest : j \in kept \/ j = line
  <2>1. CASE StartsWith(lines[line], "import") /\ topLevel' = Append(topLevel, line)
             /\ UNCHANGED body
    <3>1. top = old \union {line} /\ rest = kept
      BY <1>1, <1>4, <2>1, AppendGrows
    <3>2. ~(lines[line].indent > 0)
      BY <2>1 DEF StartsWith
    <3> QED BY <3>1, <3>2
  <2>2. CASE body' = Append(body, line) /\ UNCHANGED topLevel
    <3>1. rest = kept \union {line} /\ top = old
      BY <1>1, <1>4, <2>2, AppendGrows
    <3>2. \A j \in 1..(line - 1) : j # line
      BY <1>1
    <3> QED BY <3>1, <3>2
  <2>3. CASE Empty(lines[line]) /\ UNCHANGED <<topLevel, body>>
    <3>1. ~(lines[line].indent > 0) /\ top = old /\ rest = kept
      BY <2>3 DEF Empty
    <3> QED BY <3>1
  <2> QED BY <2>1, <2>2, <2>3 DEF PlaceLine
<1>6. \A i \in 1..(line - 1) : Together(lines, old, kept, i)
  BY <1>1 DEF SuiteInv
<1> HIDE DEF old, top, kept, rest
<1>7. \A i \in 1..(line - 1) : Together(lines, top, rest, i)
  BY <1>1, <1>5, <1>6, PlacedTogether
<1>8. Together(lines, top, rest, line)
  <2> SUFFICES ASSUME NEW h, LineHead(lines, h, line), lines[line].indent > 0
               PROVE  /\ IsDeclaration(lines[h]) /\ ~Bracketed(lines, h) => line \in top
                      /\ h \in rest => line \in rest
    BY DEF Together
  <2>1. SuiteLine(lines[line])
    BY DEF SuiteLine
  <2>2. ~(IsDeclaration(lines[h]) /\ ~Bracketed(lines, h))
    BY <1>1, <1>2, <2>1 DEF SuiteIsOver
  <2> QED BY <1>5, <2>2
<1>9. \A i \in 1..line : Together(lines, top, rest, i)
  <2>1. \A i \in 1..line : i = line \/ i \in 1..(line - 1)
    BY <1>1
  <2> QED BY <1>7, <1>8, <2>1
<1> QED BY <1>1, <1>3, <1>9 DEF SuiteInv, top, rest

LEMMA NextSuites == Inv /\ Inv' /\ WrapInv /\ SuiteInv /\ [Next]_vars => SuiteInv'
<1> SUFFICES ASSUME Inv, Inv', WrapInv, SuiteInv, [Next]_vars PROVE SuiteInv'
  OBVIOUS
<1>1. CASE Split
  <2>1. /\ pc = "split" /\ pc' = "next" /\ line = 1 /\ line' = 1
    BY <1>1 DEF Split, partition, Inv, InOrder
  <2>2. \A i \in 1..(line' - 1) : FALSE
    BY <2>1
  <2>3. SuiteIsOver(lines', line')
    BY <2>2 DEF SuiteIsOver, LineHead
  <2> QED BY <2>1, <2>2, <2>3 DEF SuiteInv
<1>2. CASE TakeTopLevelStatement
  BY <1>2, StatementSuites
<1>3. CASE TakeHeaderLine
  BY <1>3, HeaderSuites
<1>4. CASE TakeSuiteLine
  BY <1>4, SuiteLineSuites
<1>5. CASE EndSuite
  BY <1>5, EndSuites
<1>6. CASE PlaceLine
  BY <1>6, LineSuites
<1>7. ASSUME UNCHANGED <<lines, line, topLevel, body>>, pc # "split",
             pc' \in {"body", "topLevel", "done"}
      PROVE  SuiteInv'
  <2>1. Range(topLevel') = Range(topLevel) /\ Range(body') = Range(body)
    BY <1>7
  <2>2. \A i \in 1..(line' - 1) : Together(lines', Range(topLevel'), Range(body'), i)
    BY <1>7, <2>1 DEF SuiteInv
  <2> QED BY <1>7, <2>2 DEF SuiteInv
<1>8. CASE BeginWrapper \/ EmitMappedLine \/ EmitEpilogue \/ EmitTopLevelLine \/ EndWrapper
  BY <1>7, <1>8
  DEF BeginWrapper, EmitMappedLine, EmitEpilogue, EmitTopLevelLine, EndWrapper, partition
<1>9. CASE UNCHANGED vars
  <2>1. UNCHANGED <<lines, line, topLevel, body, pc, declaration, openings, requiresColon>>
    BY <1>9 DEF vars, partition
  <2>2. Range(topLevel') = Range(topLevel) /\ Range(body') = Range(body)
    BY <2>1
  <2>3. \A k : HeaderFrom(k) => HeaderFrom(k)'
    BY <2>1, <2>2 DEF HeaderFrom
  <2> QED BY <2>1, <2>2, <2>3 DEF SuiteInv
<1> QED BY <1>1, <1>2, <1>3, <1>4, <1>5, <1>6, <1>8, <1>9 DEF Next

LEMMA InitSuites == Init => SuiteInv
BY DEF Init, SuiteInv

LEMMA HeadsAreLast ==
  ASSUME Inv, WrapInv, SuiteInv, pc # "split"
  PROVE  SuitesStayTogether
<1>1. /\ line \in Nat \ {0} /\ Len(lines) \in Nat /\ line - 1 <= Len(lines)
      /\ \A i \in 1..Len(lines) : lines[i] \in Line
  BY CellTypes DEF Inv, InOrder
<1> SUFFICES ASSUME NEW i \in 1..(line - 1), lines[i].indent > 0
             PROVE  LET heads == {j \in 1..(i - 1) : /\ lines[j].indent = 0 /\ ~Empty(lines[j])
                                                     /\ ~StartsWith(lines[j], "comment")}
                        head  == Max(heads)
                    IN  heads # {} =>
                          /\ IsDeclaration(lines[head]) /\ ~InBrackets(head) =>
                               i \in Range(topLevel)
                          /\ head \in Range(body) => i \in Range(body)
  BY DEF SuitesStayTogether
<1> DEFINE heads == {j \in 1..(i - 1) : /\ lines[j].indent = 0 /\ ~Empty(lines[j])
                                        /\ ~StartsWith(lines[j], "comment")}
<1>2. \A j \in 1..(i - 1) : j \in heads <=> ~SuiteLine(lines[j])
  <2>1. \A j \in 1..(i - 1) : lines[j].indent \in Nat
    BY <1>1 DEF Line
  <2> QED BY <2>1 DEF SuiteLine
<1>3. heads \subseteq 1..(i - 1) /\ i \in Nat
  OBVIOUS
<1> HIDE DEF heads
<1>4. ASSUME heads # {}
      PROVE  LineHead(lines, Max(heads), i)
  <2>1. PICK h \in heads : \A j \in heads : j <= h
    <3> DEFINE mirror == {i - j : j \in heads}
    <3>1. mirror \in SUBSET Nat /\ mirror # {}
      <4>1. \A j \in heads : i - j \in Nat
        BY <1>3
      <4> QED BY <1>4, <4>1
    <3>2. PICK x \in mirror : \A y \in mirror : x <= y
      <4> HIDE DEF mirror
      <4> QED BY <3>1, MinOfSet
    <3>3. PICK h \in heads : x = i - h
      OBVIOUS
    <3>4. \A j \in heads : i - h <= i - j
      BY <3>2, <3>3
    <3> QED BY <1>3, <3>4
  <2>2. Max(heads) = h
    <3>1. heads \subseteq Nat
      BY <1>3
    <3> QED BY <2>1, <3>1, MaxIs
  <2>3. h \in 1..(i - 1) /\ ~SuiteLine(lines[h])
    BY <1>2, <1>3
  <2>4. \A j \in (h + 1)..(i - 1) : SuiteLine(lines[j])
    <3> SUFFICES ASSUME NEW j \in (h + 1)..(i - 1), ~SuiteLine(lines[j]) PROVE FALSE
      OBVIOUS
    <3>1. j \in 1..(i - 1) /\ ~(j <= h)
      BY <2>3
    <3> QED BY <1>2, <2>1, <3>1
  <2> QED BY <2>2, <2>3, <2>4 DEF LineHead
<1>5. \A n : Bracketed(lines, n) <=> InBrackets(n)
  BY LeftOpenIs DEF Bracketed, InBrackets
<1>6. Together(lines, Range(topLevel), Range(body), i)
  BY DEF SuiteInv
<1> QED BY <1>4, <1>5, <1>6 DEF Together, heads

\* An indented line goes where the line that it belongs to goes, in cells of any
\* lines and any length, whatever their brackets: partitionCell and
\* takeTopLevelStatement.
THEOREM SuitesAreKept == Spec => []SuitesStayTogether
<1>1. Spec => [](Inv /\ WrapInv /\ SuiteInv)
  BY InitInv, NextInv, InitMaps, NextMaps, InitSuites, NextSuites, PTL DEF Spec
<1>2. Inv /\ WrapInv /\ SuiteInv => SuitesStayTogether
  <2>1. pc = "split" => SuitesStayTogether
    BY DEF SuitesStayTogether
  <2> QED BY <2>1, HeadsAreLast
<1> QED BY <1>1, <1>2, PTL
=============================================================================
