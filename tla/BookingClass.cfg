\* One class of two places, three clients' requests, two at a time.
SPECIFICATION Spec
CONSTANTS
  Services = {"yoga"}
  Capacity <- MCCapacity
  Duration <- MCDuration
  AptIds = {a1, a2, a3}
  Clients = {c1, c2, c3}
  Professionals = {}
  Performers <- AnyPerformer
  Starts = {1, 2}
  Amounts = {50}
  MaxTime = 0
  Txns = {t1, t2}
  Writers <- LockedWriters
  NoProf = NoProf
  NoApt = NoApt
  NoTxn = NoTxn
  NoAmount = NoAmount
SYMMETRY Symmetry
INVARIANTS
  SessionWithinCapacity
  NoOverlapWithinService
PROPERTY
  ImplementsSessionSeats
CHECK_DEADLOCK FALSE
