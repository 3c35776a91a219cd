SPECIFICATION Spec

CONSTANTS
  a = a
  b = b
  c = c
  p1 = p1
  p2 = p2
  src = src
  lib = lib
  Tasks = {a, b}
  Procs = {p1, p2}
  Deps <- FreeDeps
  Owns <- SharedOwns
  Overlaps <- NoOverlap
  Required = {a, b}
  Unroutable = {}
  Budget = 2
  MaxBacklog = 4
  Commands = {"cancel-task", "ingest-receipt"}
  HostReplies = {"active", "pending"}
  HostStatuses = {"active"}
  HostLooksUp = TRUE
  HandoffStatuses = {}
  Verdicts = {TRUE}
  Assurances = {TRUE}
  Telemetry = {FALSE}
  MaxAttempts = 2
  MaxCrashes = 1
  NoKey = NoKey
  RowOverlaps <- SameRows
  Wildcards = {}

SYMMETRY DriverSymmetry
INVARIANTS
  LeasesDisjoint
  IntentBeforeThread

CHECK_DEADLOCK FALSE
