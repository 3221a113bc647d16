SPECIFICATION Spec
CONSTANTS
  home = home
  away = away
  C1 = C1
  C2 = C2
  P1 = P1
  P2 = P2
  p1 = p1
  p2 = p2
  Absent = Absent
  Torn = Torn
  Over = Over
  Procs = {p1, p2}
  Requests <- StoreRequests
  Roots <- TwoRoots
  Urls = {home, away}
  HttpsUrls = {home, away}
  Usernames <- OneUser
  Certs = {C1}
  CaSigned = {}
  Passwords = {P1, P2}
  StartConfigs <- StoreConfigs
  StartStores <- Stores
  EditedConfigs <- NoEdits
  StartLogins <- AnyLogin
  MayFail = TRUE
  MaxChanges = 1
CHECK_DEADLOCK FALSE
SYMMETRY Symmetry
INVARIANTS
  TypeOK
  StoredPasswordWorked
  IInv
