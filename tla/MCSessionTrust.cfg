SPECIFICATION LiveSpec
CONSTANTS
  home = home
  away = away
  C1 = C1
  C2 = C2
  P1 = P1
  P2 = P2
  p1 = p1
  p2 = p2
  Absent = Absent
  Torn = Torn
  Over = Over
  Procs = {p1, p2}
  Requests <- TrustRequests
  Roots <- OneRoot
  Urls = {home, away}
  HttpsUrls = {home}
  Usernames <- OneUser
  Certs = {C1, C2}
  CaSigned = {C2}
  Passwords = {P1}
  StartConfigs <- TrustConfigs
  StartStores <- NoStore
  EditedConfigs <- TrustEdits
  StartLogins <- OAuthOnly
  MayFail = FALSE
  MaxChanges = 2
CHECK_DEADLOCK FALSE
INVARIANTS
  SecretsOnlyToTrusted
  PinIsTrusted
PROPERTIES
  BatchNeverRepins
  CommandsEnd
