CONSTANTS
  Clients = {c1, c2}
  BroadcastCap = 2
  HubQueueCap = 1
  SendCap = 1
  MaxMessages = 3
  Workers = 2
  TaskQueueCap = 1
  MaxTasks = 3
  MaxRequests = 2
  Callers = {w1, w2}
  MaxRestarts = 2
  Endpoints = 2
  States = {v1, v2}
  Partial = some
  MaxChanges = 1
  MaxFaults = 2
  Capacity = 4
  PerDay = 2
  IdleSamples = 3
  Resolution = 5
  Readings = {10, 50, 70, 95}
  MaxSamples = 5
  Requests = {r1, r2}
  Issues = {1, 2}
  Labels = {l1}
  People = {p1, p2}
  MainBranch = main
  Branches = {main, feature}
  Contents = {x1, x2}
  NoFile = noFile
  NoBranch = noBranch
  MaxEdits = 1
  MaxCallFaults = 1
  MaxLength = 5
  ForgeLimit = 2
  MaxLimit = 3
  DefaultLimit = 2
  Files = {f, g}
  MaxBody = 2
  Rooms = {0, 4, 10}
  Sessions = {s1}
  Sinces = {1}
  Untils = {3}
  Levels = {"error", "info"}
  LogLimit = 1
  TTL = 1
  Patience = 1
  Retention = 2
  MaxTime = 3
  MaxEntries = 2
  Processes = {d1, d2}
  StatusLabels = {"queued"}
  Assignees = {p1}
  PageSize = 1
  OldIssues = 2
  MaxIssueChanges = 2
  Agents = {a1}
  Handlers = {h1, h2}
  Capacities = {1, 4}
  StaleAfter = 1
  MaxStarts = 2
  None = none
  Keys = {"local"}
  Threshold = 2
  Cooldown = 2
  MaxRecords = 4
SPECIFICATION Spec
INVARIANTS StreamsSound DatabasesSound AnswersTrue ReportsHold
PROPERTIES ProcessEnds MemoriesSettle
CHECK_DEADLOCK FALSE
