\* Three sessions, of the CPU and of the GPU, and two links that move once.
CONSTANTS
  Sessions = {s1, s2, s3}
  Kinds = {"cpu", "gpu"}
  Paths = {p1, p2}
  Libraries = {l1, l2}
  None = None
  MaxLinks = 1
SPECIFICATION Spec
INVARIANTS
  OneRuntime
  SessionsHaveTheirRuntime
  RefusalsAreSound
