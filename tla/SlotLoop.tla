------------------------------ MODULE SlotLoop ------------------------------
(***************************************************************************)
(* evaluate_slot as it is written: one pass over the booked appointments   *)
(* that returns at the first one that blocks.  The agenda grows by         *)
(* arbitrary appointments, including combinations that booking refuses,    *)
(* because capacities are edited and unlocked writers race (see Booking).  *)
(***************************************************************************)
EXTENDS SlotOccupancy, Sequences

CONSTANTS LoopStarts, MaxBooked

VARIABLE agenda          \* appointments in the order the query returns them

AgendaRow == [service : Services, start : LoopStarts]

----------------------------------------------------------------------------

\* Slip: a misaligned session of the same class takes a seat instead of blocking.
LoopStepLenient(cand, acc, row) ==
  IF acc.blocked \/ ~Overlap(cand, row) THEN acc
  ELSE IF Exclusive(row.service) THEN [acc EXCEPT !.blocked = TRUE]
  ELSE IF row.service # cand.service THEN acc
  ELSE [acc EXCEPT !.taken = @ + 1]

\* One appointment: nothing counts after the loop has returned blocked, and what
\* does not overlap the candidate was filtered out before it.
LoopStep(cand, acc, row) ==
  IF acc.blocked \/ ~Overlap(cand, row) THEN acc
  ELSE IF Exclusive(row.service) THEN [acc EXCEPT !.blocked = TRUE]
  ELSE IF row.service # cand.service THEN acc
  ELSE IF row.start = cand.start THEN [acc EXCEPT !.taken = @ + 1]
  ELSE [acc EXCEPT !.blocked = TRUE]

\* The state of the loop after each appointment: the places taken so far, and
\* whether it has returned blocked.
Loop(cand, rows) ==
  LET acc[n \in 0 .. Len(rows)] ==
        IF n = 0 THEN [blocked |-> FALSE, taken |-> 0]
        ELSE LoopStep(cand, acc[n - 1], rows[n])
  IN  acc

EvaluateLoop(cand, capacity, rows) ==
  LET overlapping == \E n \in DOMAIN rows : Overlap(cand, rows[n])
      last        == Loop(cand, rows)[Len(rows)]
  IN  IF capacity <= 1
      THEN [blocked |-> overlapping, remaining |-> IF overlapping THEN 0 ELSE 1]
      ELSE [blocked   |-> last.blocked,
            remaining |-> IF last.blocked THEN 0 ELSE Max0(capacity - last.taken)]

----------------------------------------------------------------------------
AgendaInit == agenda = <<>>

\* One more active appointment in the day.
AppointmentAppears ==
  /\ Len(agenda) < MaxBooked
  /\ \E row \in AgendaRow : agenda' = Append(agenda, row)

AgendaSpec == AgendaInit /\ [][AppointmentAppears]_agenda

----------------------------------------------------------------------------
At(cand, capacity, rows) ==
  EvaluateSlot(cand, capacity, rows, DOMAIN rows, 0)

\* The verdict of the early-returning loop does not depend on the order in
\* which the query returns the appointments: it is the one the set-based
\* definition gives, for every candidate and for the capacity looked up or
\* the default of 1.
LoopMatchesRule ==
  \A cand \in AgendaRow : \A capacity \in {1, Capacity[cand.service]} :
    EvaluateLoop(cand, capacity, agenda) = At(cand, capacity, agenda)
=============================================================================
