\* As Samples.cfg, for the ECDSA test alone: a signature that is not the known one.
CONSTANTS
  HashLengths <- MCHashLengths
  HashOffsets <- MCHashOffsets
  Draws = {8191, 31}
  MaxSession = 2
  GcmEnabled = TRUE
  Asserts = {TRUE, FALSE}
  Lens <- MCLens
  Handles = {1, 2, 3}
  Times = 2
  Lengths <- MCLengths
  CaseLengths <- MCCaseLengths
  TotalSize = 5
  Steps <- MCSteps
  Builds <- MCBuilds
  MaxFaults = 2
  MaxTyped = 3
  MaxSets = 2
  EchoBuilds <- MCEchoBuilds
  Logins <- MCLogins
  PasswdOptions <- MCPasswdOptions
  Input <- MCInput
  MaxConns = 2
  MaxTries = 4
  MaxFds = 5
SPECIFICATION SamplesSpec
INVARIANT EcdsaTells
CHECK_DEADLOCK FALSE
