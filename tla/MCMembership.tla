---------------------------- MODULE MCMembership ----------------------------
(* Half days; a membership starts half a day after it is granted.          *)
EXTENDS Membership, TLC

MCOffsets == {1}

Symmetry == Permutations(MemIds) \cup Permutations(Txns)
=============================================================================
