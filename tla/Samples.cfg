\* Loops run twice, and two calls of a function may go wrong.  Three hash contexts share
\* two sessions.  Three commands can be in the console's buffer when the first is executed.
\* Two connections with up to four logins each and five descriptors: tries and descriptors
\* run out, and the second client meets what the first left.
CONSTANTS
  HashLengths <- MCHashLengths
  HashOffsets <- MCHashOffsets
  Draws = {8191, 31}
  MaxSession = 2
  GcmEnabled = TRUE
  Asserts = {TRUE, FALSE}
  Lens <- MCLens
  Handles = {1, 2, 3}
  Times = 2
  Lengths <- MCLengths
  CaseLengths <- MCCaseLengths
  TotalSize = 5
  Steps <- MCSteps
  Builds <- MCBuilds
  MaxFaults = 2
  MaxTyped = 3
  MaxSets = 2
  EchoBuilds <- MCEchoBuilds
  Logins <- MCLogins
  PasswdOptions <- MCPasswdOptions
  Input <- MCInput
  MaxConns = 2
  MaxTries = 4
  MaxFds = 5
SPECIFICATION SamplesSpec
INVARIANTS LoginLimit FwdOpen FaultsReported SessionsKept FunctionsSound PassedMeansRight OneOwner
PROPERTY ServesAgain
CHECK_DEADLOCK FALSE
