SPECIFICATION Spec
CONSTANTS
  Systems = {s1}
  ITypes = {docker}
  Tags = {t1, t2}
  Images = {a, b}
  Files = {}
  ACLs = {}
  Public = Public
  Null = Null
  NoImage = NoImage
  NoFile = NoFile
  NoName = NoName
  Idents = {i1, i2, i3}
  NoIdent = NoIdent
  Handlers = {h1}
  Threads = {w1, w2}
  Ops = {"pull", "list"}
  Faults = {}
  Clock = {"stale"}
  MaxPool = 1
  MaxQueue = 2
SYMMETRY Symmetry
INVARIANTS
  TypeOK
  OnePullPerName
  ResultHasRecord
  FailuresCleaned
