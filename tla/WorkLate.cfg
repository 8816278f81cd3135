SPECIFICATION WSpec
CONSTANTS
  Systems = {s1}
  ITypes = {docker}
  Tags = {t1}
  Images = {a}
  Files = {}
  ACLs = {}
  Public = Public
  Null = Null
  NoImage = NoImage
  NoFile = NoFile
  NoName = NoName
  Idents = {i1, i2}
  NoIdent = NoIdent
  Handlers = {h1}
  Threads = {w1}
  Ops = {"pull", "list", "expire"}
  Faults = {}
  Clock = {"stale"}
  MaxPool = 1
  MaxQueue = 2
  NoMeta = NoMeta
  Squash = {"whole"}
  Breaks = {}
INVARIANTS
  ImageStored
