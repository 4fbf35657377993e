--------------------------- MODULE SessionSeats ---------------------------
(***************************************************************************)
(* What the booking side promises, without transactions, locks or stored   *)
(* rows: every active appointment sits in a session (a service, a          *)
(* professional or none, a start), one step at a time, and a seat is only  *)
(* given in a session that admits it.  Booking is shown to implement this  *)
(* module for the writers that respect the service lock.                   *)
(***************************************************************************)
EXTENDS Integers, FiniteSets

CONSTANTS
  Seatings,    \* identifiers of appointments
  Sessions,    \* records with the fields service, prof and start
  Capacity, Duration

VARIABLE seat  \* seat[a]: the session of the active appointment a

\* Two sessions of one service and one professional that share some time.
Touch(k, l) ==
  /\ k.service = l.service /\ k.prof = l.prof
  /\ k.start < l.start + Duration[l.service]
  /\ l.start < k.start + Duration[k.service]

Peers(a, k) == {b \in DOMAIN seat \ {a} : Touch(k, seat[b])}

\* Whoever shares time with session k shares the session, and it has room.
Admits(a, k) ==
  /\ \A b \in Peers(a, k) : seat[b].start = k.start
  /\ Cardinality(Peers(a, k)) < Capacity[k.service]

Init == seat = <<>>

\* A seat is taken, or an appointment moves from its session to another one.
Sit(a, k) ==
  /\ Admits(a, k)
  /\ seat' = [b \in DOMAIN seat \cup {a} |-> IF b = a THEN k ELSE seat[b]]

Leave(a) ==
  /\ a \in DOMAIN seat
  /\ seat' = [b \in DOMAIN seat \ {a} |-> seat[b]]

Next == \E a \in Seatings : Leave(a) \/ \E k \in Sessions : Sit(a, k)

Spec == Init /\ [][Next]_seat
=============================================================================
