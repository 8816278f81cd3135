SPECIFICATION FairSpec
CONSTANTS
  Systems = {s1}
  ITypes = {docker}
  Tags = {t1, t2}
  Images = {a}
  Files = {f}
  ACLs = {}
  Public = Public
  Null = Null
  NoImage = NoImage
  NoFile = NoFile
  NoName = NoName
  Idents = {i1, i2}
  NoIdent = NoIdent
  Handlers = {h1}
  Threads = {w1}
  Ops = {"pull", "list", "import"}
  Faults = {}
  Clock = {"stale"}
  MaxPool = 1
  MaxQueue = 2
PROPERTIES
  PullEnds
  TagComesBack
