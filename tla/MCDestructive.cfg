SPECIFICATION Spec
CONSTANTS
  A = A
  B = B
  p1 = p1
  Absent = Absent
  Stub = Stub
  Over = Over
  Torn = Torn
  Empty = Empty
  TextExt = ".txt"
  DefaultInstance = "javascript.0"
  StemOf <- StemTable
  IdOf <- IdTable
  PathRank <- RankTable
  Ids <- TwoIds
  Stems <- TwoStems
  ScriptExts <- OneExt
  Sources = {A, B, Empty}
  Instances <- OneInstance
  Marks <- OneMark
  Procs = {p1}
  Moments = {1, 2}
  StartSnapshots = {2}
  Requests <- AllRequests
  StartScripts <- OldScripts
  AdminScripts <- RunningScripts
  MayMangle = TRUE
  MaxEdits = 2
CHECK_DEADLOCK FALSE
INVARIANTS
  TypeOK
  IInv
  SnapshotWhole
PROPERTIES
  DestroysOnlyBackedUp
  OriginalOutlivesBadCopy
  SweepLeavesNoValue
  RenameKeepsState
  TargetsSettled
