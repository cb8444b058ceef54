\* Two functions of up to three parameters.
CONSTANTS
  Functions = {f, g}
  NoKernel = NoKernel
  Signatures <- MCSignatures
SPECIFICATION Spec
INVARIANTS
  WrappersPassArguments
  ObjectsAreChecked
\* The compilation has ended.
CHECK_DEADLOCK FALSE
