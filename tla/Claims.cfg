SPECIFICATION LibSpec
CONSTANTS
  Paths <- MCPaths
  MaxLayers = 3
  Parts = {"layers", "login", "mounts", "path", "config", "meta", "volumes", "exec", "job", "childlog", "site"}
  Shells = {"h1", "h2"}
  Systems = {"s", "t"}
  Locations = {"l", "m"}
  LoginFaults = {"tty", "kill"}
  MaxLogins = 3
  Dirs <- MCDirs
  Rank <- MCRank
  Below <- MCBelow
  Prefix <- MCPrefix
  MaxMounts = 3
  InsertInto = {"forward", "reverse"}
  Retries = 3
  Nodes <- MCNodes
  Values <- MCValues
  Sources <- MCSources
  PathMax = 5
  MaxLinks = 4
  Kind <- MCKind
  ModuleOf <- MCModuleOf
  Required = {"udiMount"}
  NoKey <- MCNoKey
  Files <- MCFiles
  Selections <- MCSelections
  Images <- MCImages
  Uids = {"u1", "u2"}
  Gids = {"g1", "g2"}
  Places <- MCPlaces
  BelowPlace <- MCBelowPlace
  Closed <- MCClosed
  NoPlace <- MCNoPlace
  Requests <- MCRequests
  Outer <- MCOuter
  Options <- MCOptions
  Contents <- MCContents
  SiteEnvs <- MCSiteEnvs
  JobRequests <- MCJobRequests
  Plugins <- MCPlugins
  Ids = {"i", "j"}
  MaxJobs = 2
  MaxProcs = 3
  JobFaults = {"info", "cgroup", "setup", "unsetup", "stepd", "switch", "epilog", "fork"}
  Programs <- MCPrograms
  Room = 2
  Preparations <- MCPreparations
CHECK_DEADLOCK FALSE
INVARIANTS
  NothingUnder
  RealpathStandard
  ReadAsMeant
  MetaToldAll
  SignatureSame
  ShellFirst
  CgroupsRemoved
  AllHeard
  Unlimited
  AllGroups
  EtcWhole
  Ordered
  LoginSaved
  TypedSent
  MismatchSeen
  AllKilled
