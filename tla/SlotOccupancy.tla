--------------------------- MODULE SlotOccupancy ---------------------------
(***************************************************************************)
(* The occupancy rule shared by booking, rescheduling and the list of      *)
(* offered slots (src/application/appointment/slot_occupancy.py).  It is   *)
(* pure: appointments already booked come in, a verdict about one          *)
(* candidate start time comes out.                                         *)
(*                                                                         *)
(* Time is counted in slots.  A booked appointment is a record with at     *)
(* least the fields service and start; the operators take the function     *)
(* `apt' from appointment identifiers to records and the set `booked' of   *)
(* identifiers to look at.                                                 *)
(***************************************************************************)
EXTENDS Integers, FiniteSets

CONSTANTS
  Services,   \* the catalogue of the business
  Capacity,   \* Capacity[s]: how many clients one session of s takes
  Duration    \* Duration[s]: length of one session of s

\* Service.create refuses a capacity or a duration below 1.
ASSUME CatalogueAssumption ==
  /\ Capacity \in [Services -> Nat \ {0}]
  /\ Duration \in [Services -> Nat \ {0}]

EndsAt(row) == row.start + Duration[row.service]

\* Half-open intervals: a session may begin at the instant another one ends.
Overlap(r, q) == r.start < EndsAt(q) /\ EndsAt(r) > q.start

Exclusive(s) == Capacity[s] <= 1

\* The booked appointments that matter for the candidate; a reschedule
\* excludes the appointment being moved.
Overlapping(cand, apt, booked, exclude) ==
  {a \in booked : a # exclude /\ Overlap(cand, apt[a])}

\* One more client of the session the candidate joins.
SameSession(cand, row) == row.service = cand.service /\ row.start = cand.start

\* Two sessions of one class that overlap without being the same session.
Misaligned(cand, row) == row.service = cand.service /\ row.start # cand.start

Max0(n) == IF n > 0 THEN n ELSE 0

\* Slip: a one-to-one service only minds other one-to-one services.
BlockedByExclusive(cand, capacity, apt, over) ==
  \E a \in over : \/ Exclusive(apt[a].service)
                  \/ capacity > 1 /\ Misaligned(cand, apt[a])

\* Slip: only a session that began before the candidate blocks it.
BlockedByEarlier(cand, capacity, apt, over) ==
  IF capacity <= 1
  THEN over # {}
  ELSE \E a \in over : \/ Exclusive(apt[a].service)
                       \/ Misaligned(cand, apt[a]) /\ apt[a].start < cand.start

\* A one-to-one candidate is blocked by anything that overlaps it; a class by a
\* one-to-one session and by a misaligned session of its own.  `capacity' is
\* what the caller looked up, which is not always Capacity[cand.service]: see
\* the reschedule route in Booking.
Blocked(cand, capacity, apt, over) ==
  IF capacity <= 1
  THEN over # {}
  ELSE \E a \in over : Exclusive(apt[a].service) \/ Misaligned(cand, apt[a])

Remaining(cand, capacity, apt, over) ==
  IF Blocked(cand, capacity, apt, over) THEN 0
  ELSE IF capacity <= 1 THEN 1
  ELSE Max0(capacity - Cardinality({a \in over : SameSession(cand, apt[a])}))

EvaluateSlot(cand, capacity, apt, booked, exclude) ==
  LET over == Overlapping(cand, apt, booked, exclude)
  IN  [blocked   |-> Blocked(cand, capacity, apt, over),
       remaining |-> Remaining(cand, capacity, apt, over)]

\* Slip: "still has places" read as "not overbooked yet".
IsBookableAtLimit(e) == ~e.blocked /\ e.remaining >= 0

IsBookable(e) == ~e.blocked /\ e.remaining > 0
=============================================================================
