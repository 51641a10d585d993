SPECIFICATION Spec
CONSTANTS
  Clients = {c1, c2, c3}
  Requests = 2
  Window = 2
  MaxClients = 2
  MaxTime = 4
SYMMETRY Symmetry
INVARIANTS
  TypeOK
  MemoryBounded
  QuotaKept
PROPERTIES
  RetryAfterIsEnough
  EvictionIsLastResort
