\* Cells of up to three lines.
CONSTANTS
  Lines <- MCLines
  TextLength = 2
  MaxLines = 3
SPECIFICATION LiveSpec
INVARIANTS
  LinesArePlaced
  SuitesStayTogether
  MapsBack
  ExpressionIsDisplayed
PROPERTY WrappingEnds
\* Wrapping a cell comes to an end.
CHECK_DEADLOCK FALSE
