SPECIFICATION Spec
CONSTANTS
  r1 = r1
  r2 = r2
  f = f
  Proc = {p1, p2}
  Release = {r1, r2}
  File = {f}
  file <- OneName
  None = None
  Damaged = Damaged
  Urls = 2
INVARIANTS TypeOK LatestIsGenuine DownloadedIsIntact OneUpgrade
PROPERTY DownloadEnds
