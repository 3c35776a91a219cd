CONSTANTS
  a = a
  b = b
  d = d
  c = c
  NoKey = NoKey
  Units <- MCUnits
  Late = {b}
  UnitDeps <- MCDeps
  Parent <- MCParent
  Writes <- MCWrites
  Mode <- SpawnModes
  Procs = {d, c}
  Drivers = {d}
  Callers = {c}
  LaneLimit = 1
  Embedded = {FALSE, TRUE}
  Native = {TRUE, FALSE}
  Replies = {"active", "closed", "failed", "bad", "error"}
  Verdicts = {"completed", "blocked"}
  Outcomes = {"completed", "blocked", "outside"}
  Operations = {"result", "retry", "cancel", "recover", "receipt"}
  MaxAttempts <- MCAttempts
  MaxFaults = 1
SPECIFICATION LiveSpec
CHECK_DEADLOCK TRUE
INVARIANTS
  StartedAfterDependencies
  CompletedIsBacked
PROPERTIES
  CompletedStays
  ResultIsApplied
  IntentsKept
