SPECIFICATION FairSpec
CONSTANTS
  c1 = c1
  n1 = n1
  l1 = l1
  m1 = m1
  m2 = m2
  NullServer = NullServer
  Servers = {c1, n1}
  Custom = {c1}
  Lan = {}
  NoRequest = {}
  Masters = {m1, m2}
  Attempts = 1
  AutoRefresh = TRUE
  Dialogs = TRUE
  ServerAnswers = {"GOOD", "REPLY", "PENDING"}
  MasterAnswers = {"GOOD"}
  MaxRequests = 2
  MaxFollowUps = 1
PROPERTIES
  RefreshEnds
  ButtonComesBack
  ServiceSpec
