\* Two services of one professional are booked at the same time.
SPECIFICATION Spec
CONSTANTS
  Services = {"cut", "yoga"}
  Capacity <- MCCapacity
  Duration <- MCDuration
  AptIds = {a1, a2}
  Clients = {c1, c2}
  Professionals = {p1}
  Performers <- AnyPerformer
  Starts = {1}
  Amounts = {50}
  MaxTime = 0
  Txns = {t1, t2}
  Writers = {"book"}
  NoProf = NoProf
  NoApt = NoApt
  NoTxn = NoTxn
  NoAmount = NoAmount
INVARIANT
  ProfessionalInOnePlace
CHECK_DEADLOCK FALSE
