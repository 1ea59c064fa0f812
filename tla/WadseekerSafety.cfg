SPECIFICATION Spec
CONSTANTS
  Files = {f1, f2}
  Urls = {u1, u2}
  NoUrl = NoUrl
  NoFile = NoFile
  Host <- OwnHosts
  MaxDownloads = 2
  Sites = {s1, s2}
  MaxQueries = 1
  MaxLinks = 1
  MaxStale = 0
  MaxMirrors = 2
SYMMETRY Symmetry
INVARIANTS
  NoFileForgotten
  WorkGoesOn
  EndIsNoticed
PROPERTIES
  Promise
