\* Two threads on one timeline; offsets and lengths reach the end of a buffer, and
\* that of a size_t of two bits.
CONSTANTS
  Threads = {t1, t2}
  Buffers = {b1, b2}
  Foreign = {b2}
  Size = 2
  Word = 4
  Lengths = {1, 2, 3}
  None = None
  MaxDispatches = 3
SPECIFICATION LiveSpec
INVARIANTS
  WorkIsInOrder
  BindingsInBounds
PROPERTIES
  CallsEnd
  DispatchesAreSerial
\* The dispatches come to an end.
CHECK_DEADLOCK FALSE
