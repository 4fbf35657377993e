------------------------------ MODULE Booking ------------------------------
(***************************************************************************)
(* Concurrent requests over the appointments of one business.              *)
(*                                                                         *)
(* Each request is one database transaction at READ COMMITTED: it loads    *)
(* what it needs, computes in memory, and writes in its last steps.  Only  *)
(* booking and the agent's reschedule lock the service row before they     *)
(* look at the agenda; cancelling, completing, the REST reschedule and the *)
(* buttons of a reminder take no lock between their read and their write.  *)
(*                                                                         *)
(* A transaction keeps the domain object it will write in txn[t].row, as   *)
(* mutated from the row it read.  Repository.update is Session.merge and a *)
(* flush: one SELECT of the row as it is by then, and one UPDATE of the    *)
(* columns of the object that differ from it.  Another request may commit  *)
(* before that SELECT, and between it and the UPDATE.                      *)
(***************************************************************************)
EXTENDS SlotOccupancy

CONSTANTS
  AptIds,          \* pool of appointment identifiers (bounds the bookings made)
  Clients,
  Professionals,
  Performers,      \* Performers[s]: professionals assigned to s; {} means anybody
  Starts,          \* start times a request may ask for
  Amounts,         \* what may be collected when an appointment is closed
  MaxTime,         \* bound of the clock
  Txns,            \* requests that may be in progress at once
  Writers,         \* kinds of request in use
  NoProf, NoApt, NoTxn, NoAmount

Ops == {"book", "reschedule", "rest_reschedule", "cancel", "complete",
        "button_confirm", "button_cancel"}

ASSUME BookingAssumption ==
  /\ Starts \subseteq Nat
  /\ MaxTime \in Nat
  /\ IsFiniteSet(AptIds)
  /\ Writers \subseteq Ops
  /\ Performers \in [Services -> SUBSET Professionals]
  /\ NoApt \notin AptIds
  /\ NoTxn \notin Txns
  /\ NoProf \notin Professionals
  /\ NoAmount \notin Amounts

VARIABLES
  appts,    \* committed rows of the appointments table, by identifier
  visits,   \* committed clients and their appointment_count
  lock,     \* lock[s]: the transaction that holds the row of service s
  txn,      \* the requests in progress
  now

vars == <<appts, visits, lock, txn, now>>

Statuses == {"pending", "confirmed", "rescheduled", "completed", "cancelled"}

\* Slip: Appointment.is_active, which leaves out a rescheduled appointment.
IsActiveStatuses == {"pending", "confirmed"}

\* The statuses the repository counts as occupying a slot.
ActiveStatuses == {"pending", "confirmed", "rescheduled"}

Moves  == {"reschedule", "rest_reschedule"}
Merges == Moves \cup {"cancel", "complete"}

\* Slip: only booking locks the service.
OnlyBookingLocks(op) == op = "book"

TakesLock(op) == op \in {"book", "reschedule"}

Row == [service : Services, client : Clients, prof : Professionals \cup {NoProf},
        start : Starts, status : Statuses, amount : Amounts \cup {NoAmount}]

Idle == [pc |-> "idle"]

\* The columns of a stored appointment that a request may change.
Columns == {"start", "status", "amount"}

\* `apt' is the row being changed (NoApt for a booking), `seen' the
\* appointment_count read with the client, and `diff' the columns that the
\* SELECT of the merge found different.
Request == [pc : {"client", "slot", "write", "flush"}, op : Ops,
            apt : AptIds \cup {NoApt}, row : Row, seen : Nat,
            diff : SUBSET (Columns \cup {"visits"})]

TypeOK ==
  /\ DOMAIN appts \subseteq AptIds
  /\ appts \in [DOMAIN appts -> Row]
  /\ DOMAIN visits \subseteq Clients
  /\ visits \in [DOMAIN visits -> Nat]
  /\ lock \in [Services -> Txns \cup {NoTxn}]
  /\ txn \in [Txns -> Request \cup {Idle}]
  /\ now \in 0 .. MaxTime

----------------------------------------------------------------------------
(* What Appointment makes of a row.                                        *)

Requested(s, c, p, x) ==
  [service |-> s, client |-> c, prof |-> p, start |-> x, status |-> "pending",
   amount |-> NoAmount]

MayChange(row) == row.status \notin {"completed", "cancelled"}

Moved(row, x) == [row EXCEPT !.start = x, !.status = "rescheduled"]

Cancelled(row) == [row EXCEPT !.status = "cancelled"]

MayClose(row) == row.status \in {"pending", "confirmed", "rescheduled"}

\* Slip: the appointment is closed and the amount is left for later.
CompletedSilently(row, amount) == [row EXCEPT !.status = "completed"]

Completed(row, amount) == [row EXCEPT !.status = "completed", !.amount = amount]

----------------------------------------------------------------------------
Active == {a \in DOMAIN appts : appts[a].status \in ActiveStatuses}

\* list_active_in_range: narrowed to a professional only when one is given.
Booked(prof) == {a \in Active : prof = NoProf \/ appts[a].prof = prof}

\* Slip: the same for the idempotency check alone.
HasOpenAt(client, service, start) ==
  \E a \in DOMAIN appts : /\ appts[a].status \in IsActiveStatuses
                          /\ appts[a].client = client
                          /\ appts[a].service = service
                          /\ appts[a].start = start

HasActiveAt(client, service, start) ==
  \E a \in Active : /\ appts[a].client = client
                    /\ appts[a].service = service
                    /\ appts[a].start = start

MayPerform(prof, service) ==
  prof = NoProf \/ Performers[service] = {} \/ prof \in Performers[service]

\* The REST route builds the use case without the service repository, which
\* leaves it with its default capacity.
CapacityUsed(op, service) ==
  IF op = "rest_reschedule" THEN 1 ELSE Capacity[service]

SlotFree(r) ==
  IsBookable(EvaluateSlot(r.row, CapacityUsed(r.op, r.row.service), appts,
                          Booked(r.row.prof), r.apt))

\* Another transaction has inserted this client and not committed yet.
BeingInserted(client) ==
  \E u \in Txns : /\ txn[u].pc \in {"slot", "write", "flush"}
                  /\ txn[u].op = "book"
                  /\ txn[u].row.client = client
                  /\ client \notin DOMAIN visits

\* Bookings in progress never outnumber the identifiers left.
IdsLeft ==
  Cardinality(DOMAIN appts)
    + Cardinality({u \in Txns : txn[u].pc # "idle" /\ txn[u].op = "book"})
    < Cardinality(AptIds)

----------------------------------------------------------------------------
Begin(t, request) ==
  /\ txn[t].pc = "idle"
  /\ request.op \in Writers
  /\ txn' = [txn EXCEPT ![t] = request]
  /\ UNCHANGED <<appts, visits, lock, now>>

\* Slip: the end of a request forgets the lock it holds.
EndKeepingLock(t) ==
  /\ txn' = [txn EXCEPT ![t] = Idle]
  /\ UNCHANGED <<lock, now>>

\* Commit or rollback: the request is over and its lock is released.
End(t) ==
  /\ txn' = [txn EXCEPT ![t] = Idle]
  /\ lock' = [s \in Services |-> IF lock[s] = t THEN NoTxn ELSE lock[s]]
  /\ UNCHANGED now

Rollback(t) == End(t) /\ UNCHANGED <<appts, visits>>

\* The SELECT of a merge: the columns of `row' that are not as stored.
Differing(row, stored) == {k \in Columns : row[k] # stored[k]}

\* The UPDATE of a flush: those columns alone.
Merged(stored, row, diff) ==
  [stored EXCEPT !.start  = IF "start"  \in diff THEN row.start  ELSE @,
                 !.status = IF "status" \in diff THEN row.status ELSE @,
                 !.amount = IF "amount" \in diff THEN row.amount ELSE @]

Store(a, row) ==
  appts' = [b \in DOMAIN appts \cup {a} |-> IF b = a THEN row ELSE appts[b]]

----------------------------------------------------------------------------
(* Booking: the client and the idempotency check are read before any lock. *)

BeginBook(t) ==
  /\ IdsLeft
  /\ \E s \in Services, c \in Clients, p \in Professionals \cup {NoProf}, x \in Starts :
       /\ MayPerform(p, s)
       /\ ~HasActiveAt(c, s, x)
       /\ Begin(t, [pc   |-> IF c \in DOMAIN visits THEN "slot" ELSE "client",
                    op   |-> "book",
                    apt  |-> NoApt,
                    row  |-> Requested(s, c, p, x),
                    seen |-> IF c \in DOMAIN visits THEN visits[c] ELSE 0,
                    diff |-> {}])

\* The insert of a new client waits for another insert of the same key.
AddClient(t) ==
  /\ txn[t].pc = "client"
  /\ txn[t].row.client \notin DOMAIN visits
  /\ ~BeingInserted(txn[t].row.client)
  /\ txn' = [txn EXCEPT ![t].pc = "slot"]
  /\ UNCHANGED <<appts, visits, lock, now>>

\* The other insert was committed: the unique key refuses this one.
RejectClient(t) ==
  /\ txn[t].pc = "client"
  /\ txn[t].row.client \in DOMAIN visits
  /\ Rollback(t)

\* Reschedule: the appointment is loaded, and moved in memory, before any lock.
BeginReschedule(t) ==
  \E op \in Moves, a \in DOMAIN appts, x \in Starts :
    /\ MayChange(appts[a])
    /\ Begin(t, [pc   |-> "slot",
                 op   |-> op,
                 apt  |-> a,
                 row  |-> Moved(appts[a], x),
                 seen |-> 0,
                 diff |-> {}])

----------------------------------------------------------------------------
(* The slot check of booking and rescheduling.  The lock, when there is    *)
(* one, is taken right before the agenda is read.                          *)

ServiceAvailable(r) == TakesLock(r.op) => lock[r.row.service] = NoTxn

\* The service row as it is after the lock request of transaction t.
Locked(t, r) ==
  IF TakesLock(r.op) THEN [lock EXCEPT ![r.row.service] = t] ELSE lock

CheckSlot(t) ==
  /\ txn[t].pc = "slot"
  /\ ServiceAvailable(txn[t])
  /\ SlotFree(txn[t])
  /\ lock' = Locked(t, txn[t])
  /\ txn' = [txn EXCEPT ![t].pc = "write"]
  /\ UNCHANGED <<appts, visits, now>>

RejectSlot(t) ==
  /\ txn[t].pc = "slot"
  /\ ServiceAvailable(txn[t])
  /\ ~SlotFree(txn[t])
  /\ Rollback(t)

\* Appointment.book and Appointment.reschedule refuse a start that has passed.
RejectPast(t) ==
  /\ txn[t].pc = "write"
  /\ txn[t].op \in Moves \cup {"book"}
  /\ txn[t].row.start <= now
  /\ Rollback(t)

\* The count of the client as the transaction itself sees it.
CountStored(c) == IF c \in DOMAIN visits THEN visits[c] ELSE 0

\* The appointment is inserted, and the client is selected for its update.
MergeClient(t) ==
  /\ txn[t].pc = "write"
  /\ txn[t].op = "book"
  /\ txn[t].row.start > now
  /\ txn' = [txn EXCEPT
       ![t].pc   = "flush",
       ![t].diff = IF CountStored(txn[t].row.client) # txn[t].seen + 1
                   THEN {"visits"} ELSE {}]
  /\ UNCHANGED <<appts, visits, lock, now>>

\* The count is written when it differed, whatever it is by now.
WriteBooking(t) ==
  LET r == txn[t].row IN
  /\ txn[t].pc = "flush"
  /\ txn[t].op = "book"
  /\ \E a \in AptIds \ DOMAIN appts : Store(a, r)
  /\ visits' = [c \in DOMAIN visits \cup {r.client} |->
                  IF c = r.client /\ "visits" \in txn[t].diff
                  THEN txn[t].seen + 1 ELSE CountStored(c)]
  /\ End(t)

----------------------------------------------------------------------------
(* Requests that read a row and write it without a lock.                   *)

BeginCancel(t) ==
  \E a \in DOMAIN appts :
    /\ MayChange(appts[a])
    /\ Begin(t, [pc   |-> "write",
                 op   |-> "cancel",
                 apt  |-> a,
                 row  |-> Cancelled(appts[a]),
                 seen |-> 0,
                 diff |-> {}])

BeginComplete(t) ==
  \E a \in DOMAIN appts, amount \in Amounts :
    /\ MayClose(appts[a])
    /\ Begin(t, [pc   |-> "write",
                 op   |-> "complete",
                 apt  |-> a,
                 row  |-> Completed(appts[a], amount),
                 seen |-> 0,
                 diff |-> {}])

\* The reminder buttons: confirm a pending appointment, cancel one that is
\* pending or confirmed.
BeginButton(t) ==
  \E a \in DOMAIN appts :
    \/ /\ appts[a].status = "pending"
       /\ Begin(t, [pc   |-> "write",
                    op   |-> "button_confirm",
                    apt  |-> a,
                    row  |-> [appts[a] EXCEPT !.status = "confirmed"],
                    seen |-> 0,
                    diff |-> {}])
    \/ /\ appts[a].status \in {"pending", "confirmed"}
       /\ Begin(t, [pc   |-> "write",
                    op   |-> "button_cancel",
                    apt  |-> a,
                    row  |-> [appts[a] EXCEPT !.status = "cancelled"],
                    seen |-> 0,
                    diff |-> {}])

\* Repository.update: the SELECT of the merge.
Merge(t) ==
  LET r == txn[t] IN
  /\ r.pc = "write"
  /\ r.op \in Merges
  /\ r.op \in Moves => r.row.start > now
  /\ txn' = [txn EXCEPT ![t].pc   = "flush",
                        ![t].diff = Differing(r.row, appts[r.apt])]
  /\ UNCHANGED <<appts, visits, lock, now>>

\* Repository.update: the UPDATE of the flush, and the commit.
WriteAppointment(t) ==
  LET r == txn[t] IN
  /\ r.pc = "flush"
  /\ r.op \in Merges
  /\ Store(r.apt, Merged(appts[r.apt], r.row, r.diff))
  /\ UNCHANGED visits
  /\ End(t)

\* The buttons update the status column only, whatever the status is by now.
WriteStatus(t) ==
  /\ txn[t].pc = "write"
  /\ txn[t].op \in {"button_confirm", "button_cancel"}
  /\ Store(txn[t].apt, [appts[txn[t].apt] EXCEPT !.status = txn[t].row.status])
  /\ UNCHANGED visits
  /\ End(t)

----------------------------------------------------------------------------
\* The client goes away or the process dies: the database rolls back.
Disconnect(t) == txn[t].pc # "idle" /\ Rollback(t)

Tick == now < MaxTime /\ now' = now + 1 /\ UNCHANGED <<appts, visits, lock, txn>>

Init ==
  /\ appts = <<>>
  /\ visits = <<>>
  /\ lock = [s \in Services |-> NoTxn]
  /\ txn = [t \in Txns |-> Idle]
  /\ now = 0

Step(t) ==
  \/ AddClient(t)
  \/ RejectClient(t)
  \/ CheckSlot(t)
  \/ RejectSlot(t)
  \/ RejectPast(t)
  \/ MergeClient(t)
  \/ WriteBooking(t)
  \/ Merge(t)
  \/ WriteAppointment(t)
  \/ WriteStatus(t)

Arrive(t) ==
  \/ BeginBook(t)
  \/ BeginReschedule(t)
  \/ BeginCancel(t)
  \/ BeginComplete(t)
  \/ BeginButton(t)

Next == Tick \/ \E t \in Txns : Arrive(t) \/ Step(t) \/ Disconnect(t)

Spec == Init /\ [][Next]_vars

\* The database runs what it is asked to run, and gives a row lock or a unique
\* key that is waited for to each waiter in turn: hence strong fairness.
Fairness == \A t \in Txns : SF_vars(Step(t))

FairSpec == Spec /\ Fairness
=============================================================================
