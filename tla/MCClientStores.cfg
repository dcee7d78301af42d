SPECIFICATION Spec
CONSTANTS
  Servers = {s1, s2}
  Nil = Nil
  Edits = {e1, e2}
  Tags = {t1, t2}
  MAX_HISTORY = 3
  MaxReplays = 3
  MaxCalls = 2
  MaxLoads = 3
  MaxValues = 3
  MaxWrites = 2
  MaxRevisions = 5
  Devices = {"phone", "laptop"}
  MaxApprovals = 1
  MaxAsks = 2
  MaxRefreshes = 2
  Announced = {"backup"}
  Unannounced = {"mod"}
  MaxEvents = 3
  MaxTimers = 2
  Standing = {"warnings", "offline"}
  News = {"crash", "failed"}
  Texts = {"this", "that"}
  MAX_TOASTS = 2
  MaxCount = 2
  Tiles = {"editor", "mods", "worlds"}
  Methods = {"delete", "restore"}
  MaxLookups = 2
  MaxInFlight = 3
  TunnelCalls <- MCTunnelCalls
  DesktopCalls = {"desktop"}
  ListenerCalls = {"change"}
  Hostnames = {"home"}
  EditorFiles = {"properties", "mod"}
  MaxEdits = 2
  MaxReads = 2
  Browsers = {"phone", "laptop"}
  MaxRequests = 2
  MaxPasswords = 2
  MAX_PENDING = 1
  Parts = {"near", "far"}
  MaxSnapshots = 3
  Keep = 1
  LinkPrefixes = {"dh"}
  MaxLinkTokens = 2
  MaxVersions = 2
  Archives = {"monday", "tuesday"}
  MaxNames = 1
  MaxMetaCalls = 2
  LaunchFiles = {"run", "args"}
  Script = "run"
  MaxUpdates = 2
  MaxConfigEdits = 1
  ModNames = {"a", "b"}
  Hosted <- MCHosted
  Foreign = {"b9"}
  MaxModCalls = 2
  MaxDrops = 1
  MaxSignIns = 2
  MaxGrantTokens = 4
  MaxHashes = 2
  MaxChecks = 2
  MAX_CONSENTS = 2
  MAX_GRANTS = 2
CHECK_DEADLOCK FALSE
INVARIANTS
  StoresAreTrue
  ShellIsSound
