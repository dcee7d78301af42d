SPECIFICATION HostSpec
CONSTANTS
  Nil = Nil
  KonnektBuilds <- MCKonnektBuilds
  SnapshotBuilds = {2, 4}
  OldBuilds = {1, 2}
  MaxInstalls = 2
  BucketNames = {"east", "west"}
  GraphBuckets = {"east"}
  MaxIds = 2
  MaxSaves = 2
  MaxReads = 2
  FolderFiles <- MCFolderFiles
  Assembled = "c"
  Copied = "d"
  MaxAttempts = 2
  PageSize = 2
  ChunkSize = 2
  MaxJobs = 2
  MaxEdits = 1
  MaxOthers = 1
  MaxSearches = 3
  DependencyMods <- MCDependencyMods
  RootMod = "r"
  BrowserMods = {"m1", "m2"}
  MaxClicks = 4
  MaxNodesPerRun = 4
  MaxEdges = 3
  PerMinute = 3
  MinutesPerHour = 2
  HoursPerDay = 3
  EveryMinutes = 2
  DailyAt = 3
  Cooldown = 4
  Owner = "s1"
  ActiveServer = "s2"
  MaxMoment = 30
  Worlds = {"w", "v"}
  DefaultWorld = "w"
  DrawnNames = {"n1", "n2"}
  OlderName = "old"
  MaxAge = 1
  MaxArchives = 2
  MaxWorldSteps = 4
  Players = {"alex", "sam"}
  MaxBoots = 2
  MaxConnections = 2
  FigureBoots <- MCFigureBoots
  RingCap = 1
  Flavors <- MCFlavors
  FileVersions <- MCFileVersions
  ClientIds <- MCClientIds
  OAuthRequests <- MCOAuthRequests
  Documents = {"loop1", "elsewhere"}
  MAX_CLIENTS = 1
  MAX_GRANTS = 1
  ACCESS = 1
  UNUSED = 1
  LIFETIME = 2
  MaxSignIns = 2
  MaxTokens = 2
  MaxGrantTime = 2
CHECK_DEADLOCK FALSE
INVARIANTS
  HostIsSound
