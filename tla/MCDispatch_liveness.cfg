SPECIFICATION LiveSpec

CONSTANTS
  a = a
  b = b
  c = c
  p1 = p1
  p2 = p2
  src = src
  lib = lib
  Tasks = {a, b}
  Procs = {p1}
  Deps <- ChainDeps
  Owns <- SharedOwns
  Overlaps <- NoOverlap
  Required = {a, b}
  Unroutable = {}
  Budget = 2
  MaxBacklog = 4
  Commands = {}
  HostReplies = {"active"}
  HostStatuses = {"active"}
  HostLooksUp = FALSE
  HandoffStatuses = {"completed"}
  Verdicts = {TRUE}
  Assurances = {TRUE}
  Telemetry = {FALSE}
  MaxAttempts = 1
  MaxCrashes = 1
  NoKey = NoKey
  RowOverlaps <- SameRows
  Wildcards = {}

PROPERTIES
  PendingIsDispatched
  FinishesOrStranded

CHECK_DEADLOCK FALSE
