--------------------------- MODULE BookingSafety ---------------------------
(***************************************************************************)
(* What the appointments table is expected to satisfy while Booking runs:  *)
(* what holds for the writers that take the service lock, what holds for   *)
(* all of them, and what the documentation claims.                         *)
(***************************************************************************)
EXTENDS Booking

\* Every writer except the two that put an appointment back into the agenda
\* without looking at it under the lock.
LockedWriters == Ops \ {"rest_reschedule", "button_confirm"}

\* The active appointments in the session of r.
Session(r) ==
  {a \in Active : /\ appts[a].service = r.service
                  /\ appts[a].prof = r.prof
                  /\ appts[a].start = r.start}

\* Among the appointments `act' with the rows f, the session of r has a seat
\* left for x, and whoever shares time with it shares the session.
HasRoom(f, act, r, x) ==
  LET others == {a \in act \ {x} : f[a].service = r.service /\ f[a].prof = r.prof}
  IN  /\ Cardinality({a \in others : f[a].start = r.start}) < Capacity[r.service]
      /\ \A a \in others : Overlap(r, f[a]) => f[a].start = r.start

\* A transaction that has passed the slot check under the lock.
Admitted(t) == txn[t].pc \in {"write", "flush"} /\ TakesLock(txn[t].op)

\* Transaction t is to change the stored appointment a.
Changes(t, a) == txn[t].pc # "idle" /\ txn[t].op # "book" /\ txn[t].apt = a

\* An appointment has two requests in progress at most.  What is written by a
\* third one between the SELECT and the UPDATE of a merge mixes two objects.
AtMostTwoEach ==
  \A a \in AptIds : \A t, u, v \in Txns :
    Changes(t, a) /\ Changes(u, a) /\ Changes(v, a) => t = u \/ u = v \/ t = v

----------------------------------------------------------------------------
(* Safety of the locked writers, two of which may be at work on one        *)
(* appointment.                                                            *)

\* However bookings, reschedules, cancellations and closings interleave, a
\* session never holds more active appointments than its service takes: the
\* lock of lock_for_update makes the count of evaluate_slot current.
SessionWithinCapacity ==
  \A a \in Active :
    Cardinality(Session(appts[a])) <= Capacity[appts[a].service]

\* Two active appointments of one service and one professional that share time
\* are the same session of a group class: evaluate_slot blocks misaligned
\* sessions, and nothing moves an appointment between the check and the write.
NoOverlapWithinService ==
  \A a, b \in Active :
    /\ a # b
    /\ appts[a].service = appts[b].service
    /\ appts[a].prof = appts[b].prof
    /\ Overlap(appts[a], appts[b])
    => /\ appts[a].start = appts[b].start
       /\ ~Exclusive(appts[a].service)

\* A slot that was free when a booking or reschedule checked it is still free
\* when it writes: commits of cancellations, closings and other services in
\* between never take the place away.
RoomKept ==
  \A t \in Txns : Admitted(t) => HasRoom(appts, Active, txn[t].row, txn[t].apt)

\* A request under way: a booking has no row yet, any other one changes a
\* stored row and never its service or its professional.
Targets ==
  \A t \in Txns : txn[t].pc # "idle" =>
    IF txn[t].op = "book"
    THEN txn[t].apt = NoApt
    ELSE /\ txn[t].apt \in DOMAIN appts
         /\ txn[t].row.service = appts[txn[t].apt].service
         /\ txn[t].row.prof = appts[txn[t].apt].prof

\* Every request in progress is of a kind in use.
KindInUse == \A t \in Txns : txn[t].pc # "idle" => txn[t].op \in Writers

\* An admitted transaction holds the lock of its service.
LocksHeld ==
  \A t \in Txns : Admitted(t) => lock[txn[t].row.service] = t

\* Every appointment of `act' has room where it is.
Seated(f, act) == \A a \in act : HasRoom(f, act, f[a], a)

TypeInv == TypeOK /\ Targets

\* The inductive invariant behind the safety of the locked writers: what they
\* hold, and where everybody sits.
SeatInv == LocksHeld /\ RoomKept /\ Seated(appts, Active)

----------------------------------------------------------------------------
(* What a merge may find changed, when two requests change an appointment. *)

AskedStatus(op) ==
  IF op = "book" THEN "pending"
  ELSE IF op \in Moves THEN "rescheduled"
  ELSE IF op = "complete" THEN "completed"
  ELSE IF op = "button_confirm" THEN "confirmed"
  ELSE "cancelled"

\* A request carries the status of its kind, and the amount when it closes.
AsAsked ==
  \A t \in Txns : txn[t].pc # "idle" =>
    /\ txn[t].row.status = AskedStatus(txn[t].op)
    /\ txn[t].op = "complete" => txn[t].row.amount \in Amounts

\* Requests only begin on an active appointment, so that the second of two is
\* left alone with what the first one took out of the agenda.
PairsOnActive ==
  \A a \in AptIds : \A t, u \in Txns :
    Changes(t, a) /\ Changes(u, a) /\ t # u => a \in Active

\* A cancellation or a closing that found its status stored already stays on an
\* appointment that is out of the agenda.
ClosedStays ==
  \A t \in Txns :
    /\ txn[t].pc = "flush"
    /\ txn[t].op \in {"cancel", "complete"}
    /\ "status" \notin txn[t].diff
    => txn[t].apt \notin Active

PairInv == TypeInv /\ KindInUse /\ AsAsked /\ PairsOnActive /\ ClosedStays

Fresh == {"pending", "confirmed"}

\* With the locked writers, an appointment that was never moved is where every
\* request that does not move it read it.
Unmoved ==
  \A t \in Txns :
    /\ txn[t].pc # "idle"
    /\ txn[t].op \notin Moves \cup {"book"}
    /\ appts[txn[t].apt].status \in Fresh
    => txn[t].row.start = appts[txn[t].apt].start

NotFresh ==
  \A t \in Txns :
    txn[t].pc = "flush" /\ txn[t].op \in Merges /\ "status" \notin txn[t].diff
      => appts[txn[t].apt].status \notin Fresh

\* A reschedule that writes its status but not its start finds that start.
MoveLands ==
  \A t \in Txns :
    txn[t].pc = "flush" /\ txn[t].op = "reschedule" /\ "status" \in txn[t].diff
      => /\ appts[txn[t].apt].status # "rescheduled"
         /\ "start" \notin txn[t].diff => appts[txn[t].apt].start = txn[t].row.start

MergeInv == Unmoved /\ NotFresh /\ MoveLands

\* Until an appointment leaves the agenda, nobody but a closing changes its
\* amount; the amount of a stale row is written after that, and never under a
\* closing.
AmountRead ==
  \A t \in Txns :
    /\ txn[t].pc # "idle"
    /\ txn[t].op \in Merges \ {"complete"}
    /\ txn[t].apt \in Active
    => txn[t].row.amount = appts[txn[t].apt].amount

AmountFound ==
  \A t \in Txns :
    txn[t].pc = "flush" /\ txn[t].op = "complete" /\ "amount" \notin txn[t].diff
      => appts[txn[t].apt].amount \in Amounts

AmountStale ==
  \A t \in Txns :
    txn[t].pc = "flush" /\ txn[t].op \in Merges \ {"complete"} /\ "amount" \in txn[t].diff
      => /\ txn[t].apt \notin Active
         /\ "status" \in txn[t].diff \/ appts[txn[t].apt].status # "completed"

AmountInv == AmountRead /\ AmountFound /\ AmountStale

----------------------------------------------------------------------------
\* The agenda as a seating plan, and the promise it keeps step by step.
SeatPlan ==
  [a \in Active |-> [service |-> appts[a].service, prof |-> appts[a].prof,
                     start |-> appts[a].start]]

Seats == INSTANCE SessionSeats
           WITH Seatings <- AptIds,
                Sessions <- [service : Services, prof : Professionals \cup {NoProf},
                             start : Starts],
                seat     <- SeatPlan

\* Every commit seats one appointment where it is admitted, removes one, or
\* leaves the seating alone.
ImplementsSessionSeats == Seats!Spec

----------------------------------------------------------------------------
(* Safety of every writer.                                                 *)

\* A closed appointment carries the amount that was collected, whichever of two
\* requests writes over the other: the revenue report reads nothing else.
RevenueJustified ==
  \A a \in DOMAIN appts : appts[a].status = "completed" => appts[a].amount \in Amounts

\* A professional is in one place at a time, one-to-one sessions included.
ProfessionalNotDoubleBooked ==
  \A a, b \in Active :
    /\ a # b
    /\ appts[a].prof = appts[b].prof
    /\ appts[a].prof # NoProf
    /\ Overlap(appts[a], appts[b])
    => ~Exclusive(appts[a].service) /\ ~Exclusive(appts[b].service)

\* A new appointment never duplicates an active one of the same client, service
\* and start: a client confirming twice gets one seat.
BookingIsIdempotent ==
  [][\A a \in DOMAIN appts' \ DOMAIN appts, b \in Active :
       appts[b].client = appts'[a].client /\ appts[b].service = appts'[a].service
         => appts[b].start # appts'[a].start]_vars

\* Every request that has begun ends, committed or refused, as long as the
\* database keeps running it: nobody waits for a lock or a key for ever.
EveryRequestEnds ==
  \A t \in Txns : (txn[t].pc # "idle") ~> (txn[t].pc = "idle")

----------------------------------------------------------------------------
(* What the documentation and the comments of the code claim.              *)

\* "Cannot overlap another confirmed appointment for the same professional".
ProfessionalInOnePlace ==
  \A a, b \in Active :
    /\ a # b
    /\ appts[a].prof = appts[b].prof
    /\ appts[a].prof # NoProf
    /\ Overlap(appts[a], appts[b])
    => SameSession(appts[a], appts[b])

\* "A silent null is a number nobody can justify": whatever requests meet on an
\* appointment, it is never completed without an amount.
NoSilentNull ==
  \A a \in DOMAIN appts : appts[a].status = "completed" => appts[a].amount # NoAmount

=============================================================================
