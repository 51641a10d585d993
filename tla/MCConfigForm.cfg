CONSTANTS
  home = home
  friend = friend
  lan = lan
  relay = relay
  wan = wan
  movies = movies
  shows = shows
  None = None
  Server = {home, friend}
  Url = {lan, relay, wan}
  Section = {movies, shows}
  Owner <- Owners
  Holds <- Libraries
  Collection <- Rows
  MaxLate = 1
  MaxEdits = 1
SPECIFICATION FairSpec
INVARIANTS
  TypeOK
  OnlyCurrentIsHandedOver
  LateAnswersDropped
  ChosenIsSent
PROPERTY
  NothingHangs
