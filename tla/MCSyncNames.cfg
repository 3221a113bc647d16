SPECIFICATION Spec
CONSTANTS
  A = A
  B = B
  Torn = Torn
  p1 = p1
  p2 = p2
  Absent = Absent
  Stub = Stub
  TextExt = ".txt"
  DefaultInstance = "javascript.0"
  StemOf <- StemTable
  IdOf <- IdTable
  PathRank <- RankTable
  Ids <- SpacedIds
  Stems <- SpacedStems
  ScriptExts <- TwoExts
  Sources = {A, B}
  Instances <- TwoInstances
  Procs = {p1}
  Commands <- PushOnly
  TornSources = {}
  UserPaths <- SpacedPaths
  UserSources <- TypedSources
  AdminScripts <- AwayScripts
  Concurrent = TRUE
CHECK_DEADLOCK FALSE
INVARIANTS
  LocalOnlyIsNew
  NoSecondScript
PROPERTIES
  PushReplacesUnseenOnly
