SPECIFICATION Spec
CONSTANTS
  A = A
  B = B
  C = C
  Absent = Absent
  Stub = Stub
  TextExt = ".txt"
  DefaultInstance = "javascript.0"
  StemOf <- StemTable
  IdOf <- IdTable
  PathRank <- RankTable
  Ids <- OneId
  Stems <- OneStem
  ScriptExts <- OneExt
  Sources = {A, B}
  Instances <- OneInstance
  WatchedPaths <- AllPaths
  WatchedIds = {}
  Editable <- AllTypes
  DryRun = FALSE
  MaxTasks = 2
  MaxPushes = 2
  MaxEdits = 3
  UserSources = {A, B}
  AdminSources = {A}
  WithPull = TRUE
  MayDelete = FALSE
  MayFail = FALSE
  MayTimeOut = FALSE
  MayRestart = FALSE
  MayPullElsewhere = FALSE
CHECK_DEADLOCK FALSE
INVARIANT SavesReachServer
