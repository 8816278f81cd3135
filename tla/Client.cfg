SPECIFICATION LiveSpec
CONSTANTS
  c1 = c1
  c2 = c2
  Clients = {c1, c2}
  Commands <- MCCommands
  Gateways = 2
  Faults = {"lost", "refused", "die"}
  MaxChanges = 1
INVARIANTS
  PullWaits
PROPERTIES
  CommandEnds
