CONSTANTS
  Parts = {"journal"}
  Runs = {"x", "y"}
  Writers = {"w", "v", "u"}
  Readers = {"r1"}
  Follows <- FollowOne
  Handles = {"h1", "h2", "h3"}
  Handle <- ThreeHandles
  StoreOf <- OneStore
  StoreFirst = {"v"}
  Overrides = {"u"}
  BatchLimit = 1
  MaxSignals = 3
  MaxNesting = 2
  NoWriter = NoWriter
  Kernels = {"p", "q"}
  Mortal = {"p"}
  Invalidators = {"q"}
  Markers = {"m"}
  Fields = {"contract", "note"}
  AlwaysKept = {"contract"}
  Deltas <- WrittenDeltas
  ExplicitInputs = {{}}
  Deleted = Deleted
  MaxSnapshots = 3
  StreamEvents <- Exported
  StartModel = "m1"
  AskedModels = {"m1"}
  DemandedModels = {"m1", "m2"}
  NaiveTimes = {3}
  NoField = "missing"
  MaxEvents = 4
  RawActions <- Raws
  CodexTool = "codex"
  DeepSeekTool = "deepseek"
  Unset = "unset"
  HostAnswers = {"thread", "client", "nothing", "nameless", "raises"}
  MaxCalls = 2
  Coordinators = {"c1", "c2"}
  Lanes = {"l1"}
  Requests = {"r1", "r2"}
  Corrections = {"k1"}
  Wishes <- WishesMade
  NoRequest = "none"
  MayDie = {"l1"}
  MaxDelivered = 2
  Dispatchers = {"d1", "d2"}
  Subjects = {"push", "deploy"}
  MaxDecisions = 3
  NoTrust = "no trust"
  NoApproval = NoApproval
  Files = {"mine", "foreign"}
  Owned = {"mine"}
  Protected = {"foreign"}
  BaseChanges = {"mine"}
  Domains <- DomainsHere
  Settings <- SettingsHere
  Outputs = {"text"}
  Silent = "silent"
  MaxCommits = 3
  MaxEdits = 2
  MaxBundles = 1
  Repositories = {"a", "b"}
  DeltaKeys = {"k1", "k2"}
  ItemChange <- ChangesHere
  FirstItems = {"i"}
  MaxRevision = 3
  TaskNames = {"s", "t", "u"}
  ContractNames = {"c"}
  UnitNames = {"m", "n", "o"}
  Policies = {"scope"}
  Grants = {"a", "b"}
  MaxRefusals = 1
  Openers = {"a", "b", "c"}
  Latest <- LatestHere
  FirstVersions = {5, 7}
  MaxOpens = 1
  Planned = {"t", "u"}
  Brokers = {"p", "q"}
  Models = {"a", "b"}
  Reasonings = {"low"}
  NotGiven = "not given"
  RunRoute <- RunRouteHere
  RunAssurance = "receipt_required"
  TaskRoute <- TaskRouteHere
  TaskAssurance <- AssuranceHere
  Configurable <- ConfigurableHere
  OwnFingerprint = TRUE
  MaxHostChanges = 1
  MaxReceipts = 2
  Candidates = {"r1", "r2"}
  Packet <- PacketHere
  Findings <- FindingsHere
  Rewinds <- RewindsHere
  Decisions <- DecisionsHere
  Scopes = {"route", "canonical-promotion"}
  Open = "open"
  MaxLifecycle = 5
  Ids = {"c", "g"}
  Declarations <- DeclarationsHere
  Changing = {"write"}
  StatedScopes = {{}, {"read"}}
  Bindings <- BindingsHere
  Absent = Absent
  MaxInvocations = 1
  MaxReplaced = 1
  Outcomes <- TwoOutcomes
  PhaseNames = {"clarify", "specify", "implement", "verify"}
  StepsOf <- StepsHere
  PhasePolicies <- PoliciesHere
  Limits = {1}
  NoLimit = NoLimit
  OwnWaits <- OwnWaitsHere
  MaxExtra = 2
  Names = {"build api", "test api", "api", "ui", "report", "api docs", "nobody", "the ui", "ui and report"}
  Slug <- SlugHere
  Clean <- CleanHere
  Overlap <- OverlapHere
  Clauses <- ClausesHere
  MaxClauses = 3
  Listings <- ListingsHere
  Nothing = Nothing
  RepositoryTrees <- TreesHere
  Containers = {"services"}
  Excluded = {"dist"}
  SurfaceNames = {"api", "services", "ui", "dist"}
  Touches <- TouchesHere
  Broad = {"build api"}
SPECIFICATION Spec
CHECK_DEADLOCK FALSE
INVARIANT
  NoSignalIsSkipped
