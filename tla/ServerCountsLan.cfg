SPECIFICATION Spec
CONSTANTS
  m1 = m1
  m2 = m2
  g1 = g1
  l1 = l1
  l2 = l2
  p1 = p1
  FromMaster = {m1, m2}
  FromConfig = {g1}
  FromLan = {l1, l2}
  AddressOf <- Shared
  Players = {p1}
  Pins = TRUE
SYMMETRY Twins
VIEW WithoutNumbers
INVARIANTS
  OneEntryPerAddress
PROPERTIES
  ServersTracked
  RefreshesTracked
  PlayersTracked
  KindsFollow
