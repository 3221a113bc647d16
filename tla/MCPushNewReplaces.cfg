SPECIFICATION Spec
CONSTANTS
  A = A
  B = B
  Torn = Torn
  p1 = p1
  p2 = p2
  Absent = Absent
  Stub = Stub
  TextExt = ".txt"
  DefaultInstance = "javascript.0"
  StemOf <- StemTable
  IdOf <- IdTable
  PathRank <- RankTable
  Ids <- OneId
  Stems <- OneStem
  ScriptExts <- TwoExts
  Sources = {A, B}
  Instances <- OneInstance
  Procs = {p1}
  Commands <- PushOnly
  TornSources = {}
  UserPaths <- ScriptPaths
  UserSources <- TypedSources
  AdminScripts <- KnownScripts
  Concurrent = FALSE
CHECK_DEADLOCK FALSE
PROPERTY PushKeepsRunningState
