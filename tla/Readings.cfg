\* An agenda of four appointments; two appointments of two clients over two local days
\* that share a UTC day; two years of days; three rows in pages of one or two.
SPECIFICATION ReadingsSpec
CONSTANTS
  Services = {"yoga", "spin", "cut"}
  Capacity <- MCCapacity
  Duration <- MCDuration
  LoopStarts = {1, 2, 3, 4}
  MaxBooked = 4
  AptIds = {a1, a2}
  Clients = {c1, c2}
  Professionals = {p1}
  Performers <- AnyPerformer
  Starts = {2, 3}
  Amounts = {50}
  MaxTime = 2
  Txns = {t1, t2}
  Writers <- AllWriters
  NoProf = NoProf
  NoApt = NoApt
  NoTxn = NoTxn
  NoAmount = NoAmount
  T1 = t1
  C1 = c1
  DaySlots = 2
  LocalZero = 1
  Days = {0, 1}
  DefaultDays = 2
  Limits = {1, 10}
  Prices = {10, 20}
  NoDay = NoDay
  FirstYear = 2023
  LastYear = 2024
  Rows = {r1, r2, r3}
  Keys = {1, 2, 3}
  Sizes = {1, 2}
  MaxChanges = 1
SYMMETRY Symmetry
INVARIANTS
  LoopMatchesRule
  ReportsAgree
  SummaryBrackets
  DatesAreFound
  WalkShiftsOnly
PROPERTY
  RevenueMovesByClosing
CHECK_DEADLOCK FALSE
