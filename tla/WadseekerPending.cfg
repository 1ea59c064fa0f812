SPECIFICATION Spec
CONSTANTS
  Files = {f1, f2}
  Urls = {u1, u2}
  NoUrl = NoUrl
  NoFile = NoFile
  Host <- OneHost
  MaxDownloads = 2
  Sites = {s1}
  MaxQueries = 1
  MaxLinks = 1
  MaxStale = 1
  MaxMirrors = 1
PROPERTIES
  PendingUrlsStopNothing
