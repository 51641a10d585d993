SPECIFICATION FairSpec
CONSTANTS
  Duration = 6
  PingInterval = 2
  TimelineTimeout = 1
  ConnectTimeout = 3
  ReadTimeout = 6
  None = None
INVARIANTS
  TypeOK
  PlexKeepsHearing
  StopIsPrompt
  NothingLeftBehind
  PositionsFollow
  StoppedUnlessCancelled
PROPERTIES
  NothingAfterStopped
  IdleIsFree
  ReadEnds
  UnwindEnds
