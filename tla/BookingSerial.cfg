\* One request at a time, of every kind: a class and a one-to-one service, over two days.
SPECIFICATION Spec
CONSTANTS
  Services = {"yoga", "cut"}
  Capacity <- MCCapacity
  Duration <- MCDuration
  AptIds = {a1, a2}
  Clients = {c1, c2}
  Professionals = {p1, p2}
  Performers <- CutIsAssigned
  Starts = {1, 5, 6}
  Amounts = {50}
  MaxTime = 1
  Txns = {t1}
  Writers <- AllWriters
  NoProf = NoProf
  NoApt = NoApt
  NoTxn = NoTxn
  NoAmount = NoAmount
  Interval = 1
  Hours <- MCHours
  DayStart = 2
  DayEnd = 8
SYMMETRY AptSymmetry
INVARIANTS
  ProfessionalNotDoubleBooked
  OffersAgreeWithBooking
PROPERTY
  BookingIsIdempotent
CHECK_DEADLOCK FALSE
