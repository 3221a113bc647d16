SPECIFICATION Spec
CONSTANTS
  A = A
  B = B
  C = C
  Absent = Absent
  Stub = Stub
  TextExt = ".txt"
  DefaultInstance = "javascript.0"
  StemOf <- StemTable
  IdOf <- IdTable
  PathRank <- RankTable
  Ids <- OneId
  Stems <- OneStem
  ScriptExts <- OneExt
  Sources = {A, B, C}
  Instances <- OneInstance
  WatchedPaths <- AllPaths
  WatchedIds = {}
  Editable <- AllTypes
  DryRun = FALSE
  MaxTasks = 3
  MaxPushes = 3
  MaxEdits = 3
  UserSources = {A, B, C}
  AdminSources = {A, B, C}
  WithPull = FALSE
  MayDelete = TRUE
  MayFail = TRUE
  MayTimeOut = TRUE
  MayRestart = TRUE
  MayPullElsewhere = TRUE
CHECK_DEADLOCK FALSE
SYMMETRY Symmetry
INVARIANTS
  TypeOK
  BaseWasShared
  SavesReachServer
  IInv
PROPERTY WatchKeepsUnsyncedScript
