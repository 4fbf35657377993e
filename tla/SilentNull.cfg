\* Three requests change one appointment of one client.
SPECIFICATION Spec
CONSTANTS
  Services = {"yoga"}
  Capacity <- MCCapacity
  Duration <- MCDuration
  AptIds = {a1}
  Clients = {c1}
  Professionals = {}
  Performers <- AnyPerformer
  Starts = {1}
  Amounts = {50}
  MaxTime = 0
  Txns = {t1, t2, t3}
  Writers <- AllWriters
  NoProf = NoProf
  NoApt = NoApt
  NoTxn = NoTxn
  NoAmount = NoAmount
INVARIANT
  NoSilentNull
CHECK_DEADLOCK FALSE
