\* Two sessions, one with callbacks and one without, three scopes deep.
CONSTANTS
  Sessions = {s1, s2}
  NoSession = nobody
  Outputs = {s1}
  Displays = {s1}
  MaxScopes = 3
  MaxCalls = 2
  MaxRenders = 3
SPECIFICATION Spec
INVARIANTS
  DeliveredToOwnSession
  ActivationsFindTheirOwn
  EventsAreOwn
PROPERTY ActivationsAreIsolated
\* Nothing happens after the last session has been destroyed.
CHECK_DEADLOCK FALSE
