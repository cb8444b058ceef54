\* All command lines of up to three words; all inputs of up to four lines.
CONSTANTS
  Sources <- MCSources
  NoCell = NoCell
  Shadow <- MCShadow
  CommandLines <- MCCommandLines
  Inputs <- MCInputs
SPECIFICATION LiveCommandSpec
INVARIANTS
  InputIsExecuted
  CommandIsDone
PROPERTY CommandEnds
\* The process has exited.
CHECK_DEADLOCK FALSE
