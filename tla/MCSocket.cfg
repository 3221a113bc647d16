SPECIFICATION LiveSpec
CONSTANTS
  MaxConns = 2
  MaxCalls = 3
  MaxChanges = 1
  Eager = FALSE
INVARIANTS
  TypeOK
  NothingMisdirected
  NoneOutlivesItsSocket
  ConnectedMeansReady
PROPERTIES
  EverythingSettles
  ImplementsContract
