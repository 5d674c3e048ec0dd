SPECIFICATION ContractSpec
CONSTANTS
  a = a
  b = b
  c1 = c1
  c2 = c2
  s1 = s1
  s2 = s2
  s3 = s3
  None = None
  Ids <- MCIds
  Callers <- MCCallers2
  Sessions <- MCSessions3
  MaxContexts = 1
  Persistent = FALSE
  Faults = {}
INVARIANTS
  SlotConservation
  NoOrphanContext
PROPERTIES
  WaiterServed
