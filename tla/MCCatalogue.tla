---------------------------- MODULE MCCatalogue ----------------------------
(* The requests that keep the catalogue of a tenant.  The lists and the    *)
(* rows have no request in common, so a behaviour is one of either: about  *)
(* says which one is watched.  The third editor only books.                *)
EXTENDS Replacement, Edits, TLC

CONSTANTS D1, D2, S1, S2, P1, P2, C1, B1, B2, H1, H2, O1, Third

VARIABLE about

Open(d, from, to) == [day |-> d, open |-> from, close |-> to, closed |-> FALSE]

Closed(d) == [day |-> d, open |-> 0, close |-> 0, closed |-> TRUE]

\* One day, one day with a break (sent in either order), two days in either order, a
\* day that is closed; ranges that overlap; sets of professionals and of services; a
\* PATCH.
MCInputs ==
  {[kind |-> "hours", entries |-> es] :
     es \in {<<Open(D1, 0, 2)>>,
             <<Open(D1, 1, 2), Open(D1, 0, 1)>>,
             <<Open(D1, 0, 1), Open(D2, 0, 2), Open(D1, 1, 2)>>,
             <<Open(D2, 1, 2), Open(D1, 0, 1)>>,
             <<Closed(D2), Open(D1, 0, 2)>>,
             <<Open(D1, 0, 2), Open(D1, 1, 2)>>}}
  \cup {[kind |-> "staff", service |-> S1, professionals |-> ps] : ps \in SUBSET {P1, P2}}
  \cup {[kind |-> "plan", plan |-> O1, services |-> ss] : ss \in SUBSET {S1, S2}}
  \cup {[kind |-> "patch"]}

OneRow(t, n) ==
  {t :> [c \in Columns(t) |-> IF c = "name" THEN n ELSE IF c = "active" THEN a ELSE 1] :
     a \in {0, 1}}

MCFirstRows == {<<>>} \cup OneRow(C1, 0) \cup OneRow(B1, 1) \cup OneRow(H1, 1) \cup OneRow(O1, 0)

\* Lists of different kinds have no row in common.
OneKind(q) == Cardinality({q[r].input.kind : r \in Requests} \ {"none"}) <= 1

\* Things that are made are of the kind that is there.
Alike(ts) == ts \subseteq {C1} \/ ts \subseteq {B1, B2} \/ ts \subseteq {H1, H2} \/ ts \subseteq {O1}

Init ==
  /\ about \in {"lists", "rows"}
  /\ ReplacementInit
  /\ EditInit
  /\ about = "lists" => C1 \in DOMAIN row /\ row[C1].active = 1
  /\ about = "rows" => \A r \in Earlier : request[r].input.kind = "staff" /\ table = {}

Next ==
  \/ /\ ReplacementNext
     /\ about = "lists"
     /\ OneKind(request')
     /\ UNCHANGED <<editVars, about>>
  \/ /\ EditNext
     /\ about = "rows"
     /\ Alike(DOMAIN row')
     /\ edit'[Third].pc \in {"idle", "lock", "count", "take", "done", "failed"}
     /\ \A r \in Editors : edit'[r].thing # "none" => Alike(DOMAIN row' \cup {edit'[r].thing})
     /\ UNCHANGED <<replacementVars, about>>

\* A request that is under way goes on; an answer of Meta or of the database comes.
Spec ==
  /\ Init
  /\ [][Next]_<<replacementVars, editVars, about>>
  /\ \A r \in Requests :
       WF_replacementVars(about = "lists" /\ Replace(r) /\ UNCHANGED <<editVars, about>>)
  /\ \A r \in Editors :
       SF_editVars(about = "rows" /\ Continue(r) /\ UNCHANGED <<replacementVars, about>>)

\* Every variable has its type; a booking that counts has the lock.
TypeOK == ReplacementTypeOK /\ EditTypeOK

\* Whatever they wait for, and though two of them may wait for each other, all
\* requests come to an end, and the lock of a class is free again: there is always a
\* later moment at which nothing is under way (a request is used once here).
EveryChangeEnds ==
  []<>(/\ \A r \in Requests : ~UnderWay(r)
       /\ \A r \in Editors : ~InFlight(r)
       /\ \A t \in Things : holder[t] = {})
=============================================================================
