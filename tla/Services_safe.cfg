INIT MCServicesInit
NEXT MCServicesNext
CONSTANTS
  Senders = {u1, u2}
  Day = 0
  Week = 1
  MaxTime = 1
  MaxEvents = 2
  MaxLosses = 1
  Nobody = Nobody
  MaxMails = 3
  MaxTroubles = 1
  Writers = {w1, w2}
  MaxSessionRows = 2
  MaxTokens = 2
  Columns = {m1, m2}
  Turns = {t1, t2}
  Profiles = {1, 2}
  ChainLength = 2
  MaxPassed = 1
  MaxRows = 1
  Requests = {q1, q2}
  MaxEmitted = 1
  Callers = {c1, c2}
  McpTools = {tool}
  MaxRequests = 2
  MaxAsked = 1
  Plugins = {p1, p2}
  Entries = {e1, e2}
  MaxPluginTools = 2
  MaxLoads = 3
  MaxEditions = 2
  NoModule = NoModule
  PackFiles = {f1}
  Keys = {k1}
  NoKey = NoKey
  MaxEdits = 2
  MaxListings = 2
  Shelved = {1, 2}
  StaleAfter = 1
  ArchiveAfter = 2
  MaxDay = 2
  MaxCalls = 3
  NoSkillRow = NoSkillRow
  Scored = {s1}
  MaxCount = 4
  Committers = {v1, v2}
  Tracked = {1, 2}
  MaxVersions = 2
  BulletTexts <- MCBulletTexts
  Bullets <- MCBullets
  DefaultBullets = {"usual"}
  Awkward = {"half"}
  Unescaped <- MCUnescaped
  Reviewers = {r1, r2}
  MaxSuggestions = 2
  MaxHandEdits = 1
  Levels = {1, 2}
  Lengths = {7, 15, 31}
  HeadingLength = 7
  MaxLines = 5
  ChunkLimit = 4
  OverlapTarget = 3
  TextPieces <- MCPieces
  MaxPieces = 3
  Rosters <- MCRosters
  LabelPool = 3
  Threshold = 3
  Dreamers = {z1}
  Dates = {d1, d2}
  QAPairs = {"qa1", "qa2", "qa3"}
  Digest <- MCDigest
  BlankPair = BlankPair
  MaxReply = 1
  MaxNight = 2
  MaxExports = 2
  MaxProposals = 2
  Window = 2
  MaxTick = 7
  Recorders = {o1, o2}
  Capabilities = {c3, c4}
  MaxSnapshots = 2
INVARIANTS
  EachInItsConversation
  MailsAreAnsweredInTheirThread
  SessionRowsAreExact
  RoutingIsBooked
  ApiAnswersAreTrue
  
  InstallsHold
  SkillRecordsHold
  AppliedIsKept
  ChunksAreTheDocument
  SpansAreStripped
  VotesAreCounted
  NightsAreKept
CHECK_DEADLOCK FALSE
