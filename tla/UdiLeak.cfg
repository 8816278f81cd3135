SPECIFICATION Spec
CONSTANTS
  a = a
  b = b
  s1 = s1
  s2 = s2
  Node = node
  Shifters = {s1}
  None = none
  Request <- MCRequest
  Looped <- MCLooped
  Paths <- MCPaths
  Rank <- MCRank
  Site <- MCSite
  Image <- MCImage
  Volumes <- MCVolumes
  Ssh <- MCSsh
  Writable = FALSE
  Tries = 2
  Faults = {"step", "early"}
  MaxFaults = 2
PROPERTY
  EpilogCleans
INVARIANT
  NodeImage
