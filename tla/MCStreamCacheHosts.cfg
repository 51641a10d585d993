CONSTANTS
  r1 = r1
  r2 = r2
  Request = {r1, r2}
  Host <- TwoHosts
  Setup <- SomeSetups
  Shows = 2
  MatchTTL = 1
  Timeout = 1
  RetryTimes = 2
SPECIFICATION Spec
INVARIANT
  LinksReachTheAsker
