---------------------------- MODULE Availability ----------------------------
(***************************************************************************)
(* The list of offered start times (get_available_slots.py), as a function *)
(* of the appointments table of Booking.  It reads the agenda of a whole   *)
(* day and evaluates every start of a grid; booking reads only what        *)
(* overlaps one start.  Both must reach the same verdict.                  *)
(***************************************************************************)
EXTENDS BookingSafety

CONSTANTS
  Interval,           \* step of the grid of one-to-one services
  Hours,              \* business hours of the day: records open, close, is_closed
  DayStart, DayEnd    \* the day queried

ASSUME AvailabilityAssumption ==
  /\ Interval \in Nat \ {0}
  /\ DayStart \in Nat /\ DayEnd \in Nat
  /\ \A h \in Hours : /\ h.is_closed \in BOOLEAN
                      /\ h.open \in DayStart .. DayEnd
                      /\ h.close \in DayStart .. DayEnd

GridStep(s) == IF Capacity[s] > 1 THEN Duration[s] ELSE Interval

\* Slip: only what starts within the day is loaded.
DayBookedByStart(prof) ==
  {a \in Booked(prof) : appts[a].start < DayEnd /\ appts[a].start >= DayStart}

\* list_active_in_range over the day: an appointment that began the day before
\* and runs into it counts.
DayBooked(prof) ==
  {a \in Booked(prof) : appts[a].start < DayEnd /\ EndsAt(appts[a]) > DayStart}

\* Candidate starts of one open range: the session must end before it closes.
RangeStarts(h, s) ==
  {x \in {h.open + k * GridStep(s) : k \in 0 .. (DayEnd - DayStart)} :
     x + Duration[s] <= h.close}

Grid(s) == UNION {RangeStarts(h, s) : h \in {h \in Hours : ~h.is_closed}}

Offered(s, prof) ==
  {x \in Grid(s) :
     IsBookable(EvaluateSlot([service |-> s, start |-> x], Capacity[s], appts,
                             DayBooked(prof), NoApt))}

----------------------------------------------------------------------------
Bookable(s, prof, x) ==
  SlotFree([op  |-> "book", apt |-> NoApt,
            row |-> [service |-> s, prof |-> prof, start |-> x]])

\* Within the grid, what is offered is exactly what the slot check of a booking
\* would accept at that moment: the two queries over the agenda agree.
OffersAgreeWithBooking ==
  \A s \in Services, p \in Professionals \cup {NoProf} :
    \A x \in Grid(s) : x \in Offered(s, p) <=> Bookable(s, p, x)
=============================================================================
