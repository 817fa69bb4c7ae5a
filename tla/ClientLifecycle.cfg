SPECIFICATION FairSpec
CONSTANTS
  Tasks = {t1, t2}
  NoTask = NoTask
  Conns = {c1, c2, c3, c4}
  NoConn = NoConn
  MaxFailures = 1
INVARIANTS
  TypeOK
  SingleOwner
  OneSource
  ConnectedIsRead
  NeverGivesUp
  ClosedForGood
PROPERTIES
  ReconnectsWithoutFailure
