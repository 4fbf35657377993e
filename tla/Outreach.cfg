\* Two instances, two clients of one business, cap one; two appointments.
SPECIFICATION Spec
CONSTANTS
  Instances = {i1, i2}
  Clients = {c1, c2}
  Businesses = {b1}
  BusinessOf <- MCBusinessOf
  Cap = 1
  Expiring = 1
  Inactive = 2
  WeekOf <- MCWeekOf
  Horizon = 2
  MaxEnd = 2
  Period = 1
  MaxAborts = 1
  Templates <- MCTemplates
  First = {i1, c1}
  Pollers = {i1, i2}
  Apts = {a1}
  HoursBefore = 2
  HalfWindow = 1
  PollInterval = 2
  Times = {3, 4}
  LastTick = 4
  MaxFaults = 2
INVARIANTS
  NeverTwice
  LostOnlyByAbort
  RepeatsNeedFaults
  NoneSlipsThrough
PROPERTY
  EveryNoticeIsClaimed
CHECK_DEADLOCK FALSE
