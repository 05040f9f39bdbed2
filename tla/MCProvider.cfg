\* An unbuffered channel, and one that holds two configurations; what the first
\* three scans reported is compared with the log.
CONSTANTS
  Configs = {c1, c2}
  m1 = m1
  m2 = m2
  Messages <- MCMessages
  Reports <- MCReports
  Capacities = {0, 2}
  None = None
  MaxReports = 3
SPECIFICATION LogSpec
INVARIANTS
  TypeOK
  NewestRecorded
  NoRepublish
  LoggedAtOnset
PROPERTIES
  ImplementsConfigFeed
  StopReturns
  ChangeReachesTraefik
  PollsUntilStopped
CHECK_DEADLOCK FALSE
