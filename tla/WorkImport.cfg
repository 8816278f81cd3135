SPECIFICATION WSpec
CONSTANTS
  Systems = {s1}
  ITypes = {docker, custom}
  Tags = {t1}
  Images = {a}
  Files = {f}
  ACLs = {}
  Public = Public
  Null = Null
  NoImage = NoImage
  NoFile = NoFile
  NoName = NoName
  Idents = {i1, i2}
  NoIdent = NoIdent
  Handlers = {h1}
  Threads = {w1}
  Ops = {"pull", "list", "import"}
  Faults = {"crash"}
  Clock = {"stale"}
  MaxPool = 1
  MaxQueue = 2
  NoMeta = NoMeta
  Squash = {"whole"}
  Breaks = {"start", "hash", "copymeta", "copyimage", "unimage"}
SYMMETRY Symmetry
INVARIANTS
  ImageStored
  MetaStored
PROPERTIES
  ImageStays
