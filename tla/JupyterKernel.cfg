\* Three requests, and five texts of up to four characters.
CONSTANTS
  Sources <- MCSources
  NoCell = NoCell
  Shadow <- MCShadow
  Texts <- MCTexts
  MaxRequests = 3
  MaxMessages = 2
  MaxDiagnostics = 1
SPECIFICATION LiveKernelSpec
INVARIANTS
  RequestsAreAnswered
  RepliesTell
  CompletesTheWord
PROPERTY RequestsEnd
\* The kernel ends, or has received all requests.
CHECK_DEADLOCK FALSE
