INIT MCInit
NEXT MCNext
CONSTANTS
  Platforms = {tg, dc}  Users = {u}  IdentityIds = {i1, i2}  SessionIds = {s1, s2}
  Clients = {c1, c2}  Ttl = 0  MaxClock = 1  MaxOps = 3  NoId = NoId
  t1 = t1  t2 = t2  t3 = t3  p1 = p1  p2 = p2
  Agents = {t1, t2, t3}  Processes = {p1, p2}  ProcOf <- MCProcOf
  Shapes = {x}  Secrets = {n}  Features = {f}  Keys = {k1, k2}
  Cooldown = 2  AllowTtl = 1  MaxHour = 2  MaxTasks = 3  NoKey = NoKey  NoFile = NoFile
  Writers = {w1, w2}  Payloads = {a, b}  MaxEntries = 3  MaxEdits = 2
  Runners = {r1, r2}  Latest = 3  MaxMigrates = 4
  textp = textp  textl = textl  textq = textq  n1 = n1  n2 = n2  n3 = n3
  Workers = {m1, m2}  Texts = {textp, textl, textq}  Private = {textp}
  Topic <- MCTopic  Edges <- MCEdges  EdgesOf <- MCEdgesOf
  MaxChunks = 2  MaxWork = 4  NoChunk = NoChunk  NoVector = NoVector
  Notes = {note}  Bodies = {a, b}  MaxRows = 2  MaxWrites = 3
  NoFileYet = NoFileYet  NoRow = NoRow
  Sizes = {1, 3}  Threshold = 6  LowThreshold = 4  TailBudget = 3  MinToCompact = 4
  MaxToolCalls = 2  MaxMessages = 7
  Callers = {e1, e2}  MaxSessions = 3  MaxWorkers = 2
  Authors = {a1, a2}  Tools = {g, h, i, j, k}  Safe = {g, h, i, j}  Typed = {g, h, i}
  Loads = {g, h, j}  Works = {g, i, j}  NoTool = NoTool
INVARIANTS
  MCTypes IdentitiesAreExact PromisesAreKept VerifyIsExact
  ForwardOnly MemoryIsExact NothingPrivateLeaks SyncIsFaithful
  ViewIsAccepted ReviewedOnceWhenIdle PromotedIsEvaluated
CHECK_DEADLOCK FALSE
