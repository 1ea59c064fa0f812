SPECIFICATION Spec
CONSTANTS
  MaxConnectionAttempts = 3
  MaxPasswordAttempts = 3
  MaxDialogs = 2
  MaxDelayed = 2
  Databases <- MCDatabases
  Addresses <- MCAddresses
  Packages = {p1, p2}
  Channels = {c1, c2}
  Self = self
  Others = {p1}
  Nicks = {n1, n2}
  ChatChannels = {doomseeker}
  NoName = NoName
  OwnNick = n1
  AlternateNick = n2
  AutoJoin = {doomseeker}
  MaxLines = 1
  MaxCommands = 1
  MaxBans = 1
  MaxLost = 1
INVARIANTS
  MembershipKnown
  UsersKnown
  NickKnown
  KeyedByRecipient
  LoginGoesOn
  CountriesKnown
  LookupFinds
PROPERTIES
  LoginEnds
  AttemptsRunOut
  LoaderEnds
  JobsRunOut
  SearchNarrows
  InstalledOnce
  InstalledIsWhole
CHECK_DEADLOCK FALSE
