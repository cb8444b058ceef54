\* Every way through execute() and the destructor, three cells long.
CONSTANTS
  Names <- MCNames
  Types <- MCTypes
  Borrowed <- MCBorrowed
  Signatures <- MCSignatures
  Sources <- MCSources
  MaxCells = 3
SPECIFICATION Spec
INVARIANTS
  VariablesAgree
  TypedAccess
  StorageOwnedOnce
  VisibleIsResident
  NamesStayUnique
  DestroyedInReverse
PROPERTY KeepsPromise
\* A destroyed session takes no further step.
CHECK_DEADLOCK FALSE
