SPECIFICATION Spec

CONSTANTS
  a = a
  b = b
  c = c
  p1 = p1
  p2 = p2
  src = src
  lib = lib
  Tasks = {a, b}
  Procs = {p1}
  Deps <- ExportDeps
  Owns <- SharedOwns
  Overlaps <- NoOverlap
  Required = {a, b}
  Unroutable = {}
  Budget = 2
  MaxBacklog = 4
  Commands = {"retry", "ingest-receipt"}
  HostReplies = {"active", "pending"}
  HostStatuses = {"active", "handoff_ready"}
  HostLooksUp = TRUE
  HandoffStatuses = {"completed"}
  Verdicts = {TRUE}
  Assurances = {TRUE}
  Telemetry = {FALSE}
  MaxAttempts = 2
  MaxCrashes = 1
  NoKey = NoKey
  RowOverlaps <- SameRows
  Wildcards = {}

INVARIANTS
  TypeOK
  OneThreadPerIntent
  StartedAfterDependencies
  CompletedIsSettled
PROPERTIES
  CompletedIsFinal
  IntentsKept

CHECK_DEADLOCK FALSE
