SPECIFICATION Spec
CONSTANTS
  c1 = c1
  l1 = l1
  n1 = n1
  m1 = m1
  m2 = m2
  NullServer = NullServer
  Servers = {c1, l1, n1}
  Custom = {c1}
  Lan = {l1}
  NoRequest = {l1}
  Masters = {m1, m2}
  Attempts = 2
  AutoRefresh = TRUE
  Dialogs = TRUE
  ServerAnswers = {"GOOD", "REPLY", "PENDING"}
  MasterAnswers = {"GOOD", "BANNED"}
  MaxRequests = 3
  MaxFollowUps = 1
SYMMETRY MasterSymmetry
INVARIANTS
  TypeOK
  RefreshBookkeeping
  QueriesScheduled
  SleepsOnlyWhenIdle
  MastersAreTracked
  ButtonMeansIdle
PROPERTIES
  TriesOnlyRunOut
  OnlyRefusalsLoseTheEnd
