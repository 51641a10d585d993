SPECIFICATION Spec
CONSTANTS
  Procs = {p1, p2}
  Configs = {c1, c2}
  Ids = {i1, i2, i3}
  Keys = {k1, k2}
  MaxSessions = 2
  Legacy = {i1}
  None = None
  Plain = Plain
SYMMETRY Symmetry
INVARIANTS
  TypeOK
  ToldIsDurable
  RevokedStaysGone
  MintedDistinct
  WithinCapacity
  NothingLingers
PROPERTIES
  CiphertextKept
  ImplementsRegistry
