SPECIFICATION Spec
CONSTANTS
  A = A
  B = B
  Torn = Torn
  p1 = p1
  p2 = p2
  Absent = Absent
  Stub = Stub
  TextExt = ".txt"
  DefaultInstance = "javascript.0"
  StemOf <- StemTable
  IdOf <- IdTable
  PathRank <- RankTable
  Ids <- OneId
  Stems <- OneStem
  ScriptExts <- OneExt
  Sources = {A, B}
  Instances <- OneInstance
  Procs = {p1, p2}
  Commands <- PlainCommands
  TornSources = {}
  UserPaths <- ScriptPaths
  UserSources <- TypedSources
  AdminScripts <- TypeScripts
  Concurrent = TRUE
CHECK_DEADLOCK FALSE
SYMMETRY Symmetry
INVARIANTS
  TypeOK
  BaseWasShared
  IInv
PROPERTIES
  PullKeepsUnsyncedFile
  PushKeepsUnsyncedScript
