----------------------------- MODULE MCBooking -----------------------------
(* Small businesses for BookingSafety: "yoga" is a class of two places,    *)
(* "cut" is one to one; both last two slots.                               *)
EXTENDS BookingSafety, TLC

MCCapacity == [s \in Services |-> IF s = "cut" THEN 1 ELSE 2]
MCDuration == [s \in Services |-> 2]

AnyPerformer == [s \in Services |-> {}]

AllWriters == Ops

Symmetry == Permutations(AptIds) \cup Permutations(Clients) \cup Permutations(Txns)
=============================================================================
