SPECIFICATION FairSpec
CONSTANTS
  c1 = c1
  l1 = l1
  n1 = n1
  m1 = m1
  m2 = m2
  NullServer = NullServer
  Servers = {c1, n1}
  Custom = {c1}
  Lan = {}
  NoRequest = {}
  Masters = {m1, m2}
  Attempts = 1
  AutoRefresh = TRUE
  Dialogs = FALSE
  ServerAnswers = {"GOOD"}
  MasterAnswers = {"GOOD", "BANNED"}
  MaxRequests = 2
  MaxFollowUps = 0
PROPERTIES
  ButtonComesBack
CHECK_DEADLOCK FALSE
