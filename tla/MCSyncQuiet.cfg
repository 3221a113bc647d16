SPECIFICATION Spec
CONSTANTS
  A = A
  B = B
  Torn = Torn
  p1 = p1
  p2 = p2
  Absent = Absent
  Stub = Stub
  TextExt = ".txt"
  DefaultInstance = "javascript.0"
  StemOf <- StemTable
  IdOf <- IdTable
  PathRank <- RankTable
  Ids <- TwoIds
  Stems <- TwoStems
  ScriptExts <- OneExt
  Sources = {A, B}
  Instances <- TwoInstances
  Procs = {p1}
  Commands <- QuietCommands
  TornSources = {A, B}
  UserPaths <- ScriptPaths
  UserSources <- TypedSources
  AdminScripts <- MovedScripts
  Concurrent = FALSE
CHECK_DEADLOCK FALSE
SYMMETRY Symmetry
INVARIANTS
  QuietInv
PROPERTIES
  PullSettles
  PushSettles
