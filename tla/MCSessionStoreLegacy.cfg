SPECIFICATION Spec
CONSTANTS
  Procs = {p1, p2}
  Configs = {c1}
  Ids = {i1, i2}
  Keys = {k1}
  MaxSessions = 2
  Legacy = {i1}
  None = None
  Plain = Plain
INVARIANTS
  IdenticalConfigsDeduplicated
