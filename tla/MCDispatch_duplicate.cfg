SPECIFICATION Spec

CONSTANTS
  a = a
  b = b
  c = c
  p1 = p1
  p2 = p2
  src = src
  lib = lib
  Tasks = {a}
  Procs = {p1, p2}
  Deps <- FreeDeps
  Owns <- SharedOwns
  Overlaps <- NoOverlap
  Required = {a}
  Unroutable = {}
  Budget = 2
  MaxBacklog = 4
  Commands = {}
  HostReplies = {"active"}
  HostStatuses = {"active"}
  HostLooksUp = TRUE
  HandoffStatuses = {"completed"}
  Verdicts = {TRUE}
  Assurances = {TRUE}
  Telemetry = {FALSE}
  MaxAttempts = 1
  MaxCrashes = 0
  NoKey = NoKey
  RowOverlaps <- SameRows
  Wildcards = {}

INVARIANTS
  OneThreadPerIntent

CHECK_DEADLOCK FALSE
