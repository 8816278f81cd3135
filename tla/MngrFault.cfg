SPECIFICATION Spec
CONSTANTS
  Systems = {s1}
  ITypes = {docker}
  Tags = {t1}
  Images = {a, b}
  Files = {}
  ACLs = {}
  Public = Public
  Null = Null
  NoImage = NoImage
  NoFile = NoFile
  NoName = NoName
  Idents = {i1, i2}
  NoIdent = NoIdent
  Handlers = {h1}
  Threads = {w1}
  Ops = {"pull", "lookup", "expire", "autoexpire"}
  Faults = {"mongo", "crash"}
  Clock = {"stale", "past"}
  MaxPool = 1
  MaxQueue = 2
SYMMETRY Symmetry
INVARIANTS
  TagUnique
  ReadyUnique
  TaggedHasImage
PROPERTIES
  NoReturnToFlight
  ImplementsCatalog
