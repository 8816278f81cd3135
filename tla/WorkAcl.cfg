SPECIFICATION WSpec
CONSTANTS
  Systems = {s1}
  ITypes = {docker}
  Tags = {t1, t2}
  Images = {a}
  Files = {}
  ACLs = {u}
  Public = Public
  Null = Null
  NoImage = NoImage
  NoFile = NoFile
  NoName = NoName
  Idents = {i1, i2}
  NoIdent = NoIdent
  Handlers = {h1}
  Threads = {w1, w2}
  Ops = {"pull"}
  Faults = {}
  Clock = {}
  MaxPool = 1
  MaxQueue = 2
  NoMeta = NoMeta
  Squash = {"whole"}
  Breaks = {}
SYMMETRY Symmetry
INVARIANTS
  MetaAgrees
