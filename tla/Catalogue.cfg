\* An earlier request and two at once on two days and one service; three requests
\* on the rows of one kind.
SPECIFICATION Spec
CONSTANTS
  Requests = {q0, q1, q2}
  Earlier = {q0}
  Inputs <- MCInputs
  Days = {d1, d2}
  Services = {s1}
  Hireable = {p1, p2}
  D1 = d1
  D2 = d2
  S1 = s1
  S2 = s2
  O1 = o1
  P1 = p1
  P2 = p2
  C1 = c1
  B1 = b1
  B2 = b2
  H1 = h1
  H2 = h2
  Third = e3
  Editors = {e1, e2, e3}
  Classes = {c1}
  Shops = {b1, b2}
  People = {h1, h2}
  Offers = {o1}
  PlanLists = {o1}
  Includable = {s1, s2}
  MaxValue = 2
  MaxName = 2
  FirstRows <- MCFirstRows
INVARIANTS
  ListsAreWhole
  StaffMixedOnlyByMeeting
  TwinsOnlyByMeeting
PROPERTIES
  UndoesOnlyMissed
  NeverAboveSight
  EveryChangeEnds
CHECK_DEADLOCK FALSE
