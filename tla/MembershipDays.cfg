\* One client, two memberships, two requests at a time, by half days; a period of
\* half a day that starts half a day later, and one renewal.
SPECIFICATION Spec
CONSTANTS
  MemIds = {m1, m2}
  Clients = {c1}
  Periods = {1}
  Offsets <- MCOffsets
  Day = 2
  MaxTime = 2
  MaxPaid = 2
  Txns = {t1, t2}
  NoMem = NoMem
  NoTime = NoTime
SYMMETRY Symmetry
INVARIANTS
  OneLivePerClient
  NoTimeLost
  FreeTimeBounded
  CurrentIsReported
CHECK_DEADLOCK FALSE
