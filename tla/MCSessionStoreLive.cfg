SPECIFICATION FairSpec
CONSTANTS
  Procs = {p1, p2, p3}
  Configs = {c1}
  Ids = {i1, i2, i3, i4}
  Keys = {k1}
  MaxSessions = 1
  Legacy = {i1}
  None = None
  Plain = Plain
VIEW WithoutHistory
PROPERTIES
  EveryRequestEnds
