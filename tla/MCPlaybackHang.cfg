SPECIFICATION Spec
CONSTANTS
  Duration = 6
  PingInterval = 2
  TimelineTimeout = 1
  ConnectTimeout = 3
  ReadTimeout = 6
  None = None
INVARIANTS
  PlayerNeverHangs
