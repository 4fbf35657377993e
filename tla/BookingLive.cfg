\* Every kind of request, two at a time, competing for the service lock, for the
\* key of a new client and for one appointment.
SPECIFICATION FairSpec
CONSTANTS
  Services = {"yoga"}
  Capacity <- MCCapacity
  Duration <- MCDuration
  AptIds = {a1, a2}
  Clients = {c1, c2}
  Professionals = {}
  Performers <- AnyPerformer
  Starts = {1}
  Amounts = {50}
  MaxTime = 1
  Txns = {t1, t2}
  Writers <- AllWriters
  NoProf = NoProf
  NoApt = NoApt
  NoTxn = NoTxn
  NoAmount = NoAmount
INVARIANT
  RevenueJustified
PROPERTY
  EveryRequestEnds
CHECK_DEADLOCK FALSE
