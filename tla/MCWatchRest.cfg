SPECIFICATION LiveSpec
CONSTANTS
  A = A
  B = B
  C = C
  Absent = Absent
  Stub = Stub
  TextExt = ".txt"
  DefaultInstance = "javascript.0"
  StemOf <- StemTable
  IdOf <- IdTable
  PathRank <- RankTable
  Ids <- OneId
  Stems <- OneStem
  ScriptExts <- OneExt
  Sources = {A, B, C}
  Instances <- OneInstance
  WatchedPaths <- AllPaths
  WatchedIds = {}
  Editable <- AllTypes
  DryRun = FALSE
  MaxTasks = 2
  MaxPushes = 1
  MaxEdits = 2
  UserSources = {B}
  AdminSources = {A, C}
  WithPull = TRUE
  MayDelete = FALSE
  MayFail = TRUE
  MayTimeOut = FALSE
  MayRestart = FALSE
  MayPullElsewhere = FALSE
CHECK_DEADLOCK FALSE
INVARIANT NewSavesReachServer
PROPERTIES
  ComesToRest
  WatchKeepsUnsyncedFile
