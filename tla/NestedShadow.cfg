\* A nested variable of the same name decides the recorded type.
CONSTANTS
  Names <- MCNames
  Types <- MCTypes
  Borrowed <- MCBorrowed
  Signatures <- MCSignatures
  Sources <- ShadowingSources
  MaxCells = 2
SPECIFICATION Spec
INVARIANT RecordedTypeIsStored
\* A destroyed session takes no further step.
CHECK_DEADLOCK FALSE
