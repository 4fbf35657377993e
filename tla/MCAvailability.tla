--------------------------- MODULE MCAvailability ---------------------------
(* A day from 2 to 8 with a break; a class and a one-to-one service.       *)
EXTENDS Availability, TLC

MCCapacity == [s \in Services |-> IF s = "cut" THEN 1 ELSE 2]
MCDuration == [s \in Services |-> 2]
Morning   == [open |-> 2, close |-> 4, is_closed |-> FALSE]
Afternoon == [open |-> 5, close |-> 8, is_closed |-> FALSE]
Evening   == [open |-> 7, close |-> 8, is_closed |-> TRUE]
MCHours   == {Morning, Afternoon, Evening}

\* One-to-one sessions are assigned to the first professional only.
CutIsAssigned ==
  [s \in Services |-> IF s = "cut" THEN {CHOOSE p \in Professionals : TRUE} ELSE {}]

AllWriters == Ops

AptSymmetry == Permutations(AptIds)
=============================================================================
