\* Two compilations, an editor of the compiler and of one package, kills and
\* losses of power.
CONSTANTS
  Compilers = {c1, c2}
  Requests = {r1, r2}
  Packages = 1
  Versions = {0, 1, 2}
  Missing = 1
  Reverts = FALSE
  PowerLoss = TRUE
  MaxEdits = 2
  MaxCalls = 2
SPECIFICATION Spec
INVARIANTS
  EntriesMatchKeys
  AnswersAreCurrent
PROPERTY EntriesAppearWhole
SYMMETRY Symmetry
\* The calls come to an end.
CHECK_DEADLOCK FALSE
