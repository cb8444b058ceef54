\* Cells of up to three phrases, or of up to five brackets.
CONSTANTS
  Cells <- MCCells
  Names = {"x", "y"}
SPECIFICATION ScanSpec
INVARIANTS
  VerdictIsRight
  VariablesAreDeclared
  LastStatementIsDisplayed
\* A scan comes to an end.
CHECK_DEADLOCK FALSE
