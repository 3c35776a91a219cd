SPECIFICATION Spec

CONSTANTS
  a = a
  b = b
  c = c
  p1 = p1
  p2 = p2
  src = src
  lib = lib
  Tasks = {a, b, c}
  Procs = {p1}
  Deps <- MixedDeps
  Owns <- SplitOwns
  Overlaps <- GlobOverlap
  Required = {a}
  Unroutable = {c}
  Budget = 2
  MaxBacklog = 1
  Commands = {"cancel", "cancel-task", "pause", "resume"}
  HostReplies = {"active", "none", "bad"}
  HostStatuses = {"active", "handoff_ready"}
  HostLooksUp = TRUE
  HandoffStatuses = {"completed", "blocked"}
  Verdicts = {TRUE, FALSE}
  Assurances = {TRUE, FALSE}
  Telemetry = {TRUE, FALSE}
  MaxAttempts = 1
  MaxCrashes = 1
  NoKey = NoKey
  RowOverlaps <- GlobRows
  Wildcards = {}

INVARIANTS
  ClaimsWithinBudget
  CompletedRunIsDone
PROPERTIES
  CreateOnlyLive

CHECK_DEADLOCK FALSE
