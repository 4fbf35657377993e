----------------------------- MODULE Replacement -----------------------------
(***************************************************************************)
(* Lists that a request replaces as a whole: the opening hours of a day,    *)
(* the professionals of a service, the services of a membership plan.  All  *)
(* are stored row by row; the request deletes the rows that are there and   *)
(* inserts its own, in one transaction at READ COMMITTED.  Only the row of  *)
(* a plan is written (and so locked) first: other requests meet in the rows *)
(* they delete and in the unique key of those they insert.                  *)
(*                                                                         *)
(* A row is committed with the request that inserted it, and is there until *)
(* a request that deleted it commits.  met is a history variable.           *)
(***************************************************************************)
EXTENDS Integers, Sequences, FiniteSets, Relation

CONSTANTS
  Requests,    \* every one is used once
  Earlier,     \* those that were done before: at most one of a list
  Inputs,      \* what may be asked for
  Days,
  Services,
  Hireable,    \* active professionals of the business of the services
  PlanLists,   \* membership plans
  Includable   \* services that a plan may include

Ranges == [day : Days, open : Nat, close : Nat, closed : BOOLEAN]

\* The form of an input, as the schemas of the routes have it.
Formed(input) ==
  \/ input.kind = "hours" /\ input.entries \in Seq(Ranges)
  \/ input.kind = "staff" /\ input.service \in Services
  \/ input.kind = "plan" /\ input.plan \in PlanLists
  \/ input.kind = "patch"

ASSUME ReplacementAssumption ==
  /\ Earlier \subseteq Requests
  /\ \A input \in Inputs : Formed(input)
  /\ IsFiniteSet(Hireable) /\ IsFiniteSet(Includable)
  /\ Days \cap Services = {} /\ Days \cap PlanLists = {} /\ Services \cap PlanLists = {}

VARIABLES
  table,       \* rows inserted and not yet removed for good
  request,
  met          \* pairs of requests that were under way at the same time

replacementVars == <<table, request, met>>

NoInput == [kind |-> "none"]

----------------------------------------------------------------------------
(* What a request asks for.                                                *)

\* Ranges that only touch do not overlap.
Overlap(e, f) == ~(e.close <= f.open \/ f.close <= e.open)

ValidHours(entries) ==
  /\ entries # <<>>
  /\ \A i \in DOMAIN entries : entries[i].closed \/ entries[i].open < entries[i].close
  /\ \A i, j \in DOMAIN entries :
       (i < j /\ entries[i].day = entries[j].day /\ ~entries[i].closed /\ ~entries[j].closed)
         => ~Overlap(entries[i], entries[j])

\* No professional at all means that anyone performs the service.
ValidStaff(professionals) == professionals \subseteq Hireable

\* PATCH of a day calls a method that its repository does not have, and fails.
Valid(input) ==
  \/ input.kind = "hours" /\ ValidHours(input.entries)
  \/ input.kind = "staff" /\ ValidStaff(input.professionals)
  \/ input.kind = "plan" /\ input.services \subseteq Includable

\* A set as a sequence.
Orders(S) ==
  {f \in [1 .. Cardinality(S) -> S] : \A x \in S : \E n \in DOMAIN f : f[n] = x}

DaysOf(entries) == {entries[i].day : i \in DOMAIN entries}

\* The days in the order they first appear in.
FirstSeen(entries) ==
  {days \in Orders(DaysOf(entries)) :
     \A m, n \in DOMAIN days : m < n =>
       \E i \in DOMAIN entries :
         /\ entries[i].day = days[m]
         /\ \A j \in DOMAIN entries : entries[j].day = days[n] => i < j}

PlacesOf(entries, d) == {i \in DOMAIN entries : entries[i].day = d}

\* Ranges go by their opening; those that open together stay as they were sent.
Before(entries, i, j) ==
  \/ entries[i].open < entries[j].open
  \/ entries[i].open = entries[j].open /\ i < j

Ordered(entries, d) ==
  {f \in Orders(PlacesOf(entries, d)) :
     \A m, n \in DOMAIN f : m < n => Before(entries, f[m], f[n])}

\* The place of a range in its day is the sequence, and the key of its row.
DayGroup(entries, d, f) ==
  [list |-> d, rows |-> [n \in DOMAIN f |-> [key |-> n, says |-> entries[f[n]]]]]

DayGroups(entries, d) == {DayGroup(entries, d, f) : f \in Ordered(entries, d)}

HoursPlans(entries) ==
  UNION {{p \in [DOMAIN days -> UNION {DayGroups(entries, d) : d \in DaysOf(entries)}] :
            \A k \in DOMAIN p : p[k] \in DayGroups(entries, days[k])}
         : days \in FirstSeen(entries)}

\* The rows of a set come in no order, and say no more than their key.
SetGroups(l, S) ==
  {[list |-> l, rows |-> [n \in DOMAIN f |-> [key |-> f[n], says |-> f[n]]]] : f \in Orders(S)}

StaffPlans(input) == {<<g>> : g \in SetGroups(input.service, input.professionals)}

\* Without any service a plan includes all of them.
ServicePlans(input) == {<<g>> : g \in SetGroups(input.plan, input.services)}

\* The lists that a request replaces, in the order it does, and their rows.
Plans(input) ==
  CASE input.kind = "hours" -> HoursPlans(input.entries)
    [] input.kind = "staff" -> StaffPlans(input)
    [] input.kind = "plan" -> ServicePlans(input)

\* Row n of group k of a request that plans p.
RowAt(r, p, k, n) ==
  [list |-> p[k].list, key |-> p[k].rows[n].key, says |-> p[k].rows[n].says, by |-> r]

RowsOf(r, p) == UNION {{RowAt(r, p, k, n) : n \in DOMAIN p[k].rows} : k \in DOMAIN p}

----------------------------------------------------------------------------
(* Rows and the requests that hold them.                                   *)

\* at and next: the group and the row of it that come next.
Idle ==
  [pc |-> "idle", input |-> NoInput, plan |-> <<>>, at |-> 1, next |-> 1,
   aim |-> {}, doomed |-> {}]

UnderWay(r) == request[r].pc \in {"hold", "aim", "change"}

Committed(w) == request[w.by].pc = "done"

\* The requests that deleted w and have not ended.
DeletedBy(w) == {r \in Requests : w \in request[r].doomed}

Group(r) == request[r].plan[request[r].at]

NextRow(r) == RowAt(r, request[r].plan, request[r].at, request[r].next)

\* The rows that r itself has not deleted and that have the key of its next one.
Rivals(r) ==
  {w \in table : /\ w.list = NextRow(r).list
                 /\ w.key = NextRow(r).key
                 /\ w \notin request[r].doomed}

Inserting(r) ==
  request[r].pc = "change" /\ request[r].aim = {} /\ request[r].next \in DOMAIN Group(r).rows

Finished(r) ==
  request[r].pc = "change" /\ request[r].aim = {} /\ request[r].next \notin DOMAIN Group(r).rows

Set(r, q) == request' = [request EXCEPT ![r] = q]

\* The requests that have written the row of the plan and have not ended.
HoldersOf(o) ==
  {s \in Requests : /\ request[s].pc \in {"aim", "change"}
                    /\ request[s].input.kind = "plan"
                    /\ request[s].input.plan = o}

\* Whom r waits for: one that holds its plan, one that deleted a row it deletes, and
\* one that inserted or deleted the row of its key.
WaitsFor(r) ==
  IF ~UnderWay(r) THEN {}
  ELSE IF request[r].pc = "hold" THEN HoldersOf(request[r].input.plan)
  ELSE IF request[r].aim # {}
       THEN IF \E w \in request[r].aim : DeletedBy(w) = {}
            THEN {}
            ELSE UNION {DeletedBy(w) : w \in request[r].aim}
       ELSE IF Inserting(r)
            THEN {s \in Requests \ {r} :
                    \E w \in Rivals(r) : (w.by = s /\ ~Committed(w)) \/ s \in DeletedBy(w)}
            ELSE {}

InACycle(r) ==
  TransitiveClosure([x, y \in Requests |-> y \in WaitsFor(x)], Requests)[r, r]

----------------------------------------------------------------------------
Begin(r) ==
  /\ request[r].pc = "idle"
  /\ \E input \in Inputs :
       /\ Valid(input)
       /\ \E plan \in Plans(input) :
            Set(r, [Idle EXCEPT !.pc = IF input.kind = "plan" THEN "hold" ELSE "aim",
                                !.input = input, !.plan = plan])
  /\ met' = met \cup {{r, s} : s \in {x \in Requests : UnderWay(x)}}
  /\ UNCHANGED table

Refuse(r) ==
  /\ request[r].pc = "idle"
  /\ \E input \in Inputs : ~Valid(input)
  /\ Set(r, [Idle EXCEPT !.pc = "failed"])
  /\ UNCHANGED <<table, met>>

\* Slip: a plan of which only the services change is not written.
HoldNothing(r) ==
  /\ request[r].pc = "hold"
  /\ Set(r, [request[r] EXCEPT !.pc = "aim"])
  /\ UNCHANGED <<table, met>>

\* The columns of the plan are in Edits.  Its time of change is new in any case.
HoldPlan(r) ==
  /\ request[r].pc = "hold"
  /\ HoldersOf(request[r].input.plan) = {}
  /\ Set(r, [request[r] EXCEPT !.pc = "aim"])
  /\ UNCHANGED <<table, met>>

\* Slip: only the rows that are sent again are replaced.
AimAtSent(r) ==
  /\ request[r].pc = "aim"
  /\ Set(r, [request[r] EXCEPT
               !.pc = "change",
               !.aim = {w \in table : /\ w.list = Group(r).list
                                      /\ \E n \in DOMAIN Group(r).rows :
                                           Group(r).rows[n].key = w.key
                                      /\ Committed(w)}])
  /\ UNCHANGED <<table, met>>

\* DELETE finds the rows that are committed when it starts, and no later ones.
Aim(r) ==
  /\ request[r].pc = "aim"
  /\ Set(r, [request[r] EXCEPT
               !.pc = "change",
               !.aim = {w \in table : w.list = Group(r).list /\ Committed(w)}])
  /\ UNCHANGED <<table, met>>

\* It waits for a row that another has deleted; one that is gone by then is passed
\* over.
DeleteRow(r, w) ==
  /\ request[r].pc = "change"
  /\ w \in request[r].aim
  /\ DeletedBy(w) = {}
  /\ Set(r, [request[r] EXCEPT !.aim = @ \ {w}, !.doomed = @ \cup ({w} \cap table)])
  /\ UNCHANGED <<table, met>>

InsertRow(r) ==
  /\ Inserting(r)
  /\ Rivals(r) = {}
  /\ table' = table \cup {NextRow(r)}
  /\ Set(r, [request[r] EXCEPT !.next = @ + 1])
  /\ UNCHANGED met

NextGroup(r) ==
  /\ Finished(r)
  /\ request[r].at + 1 \in DOMAIN request[r].plan
  /\ Set(r, [request[r] EXCEPT !.pc = "aim", !.at = @ + 1, !.next = 1])
  /\ UNCHANGED <<table, met>>

CommitLists(r) ==
  /\ Finished(r)
  /\ request[r].at + 1 \notin DOMAIN request[r].plan
  /\ table' = table \ request[r].doomed
  /\ Set(r, [request[r] EXCEPT !.pc = "done", !.doomed = {}])
  /\ UNCHANGED met

\* Slip: the session is returned without a rollback.
KeepLocks(r) ==
  /\ Set(r, [request[r] EXCEPT !.pc = "failed", !.aim = {}])
  /\ UNCHANGED <<table, met>>

RollBack(r) ==
  /\ table' = {w \in table : w.by # r}
  /\ Set(r, [Idle EXCEPT !.pc = "failed", !.input = request[r].input])
  /\ UNCHANGED met

\* A row with the key of the next one is committed, and nobody is deleting it.
UniqueViolation(r) ==
  /\ Inserting(r)
  /\ \E w \in Rivals(r) : Committed(w) /\ DeletedBy(w) = {}
  /\ RollBack(r)

\* The database ends one of the requests that wait for each other.
Deadlocked(r) ==
  /\ UnderWay(r)
  /\ InACycle(r)
  /\ RollBack(r)

\* The connection or the process is lost.
Lost(r) ==
  /\ UnderWay(r)
  /\ RollBack(r)

----------------------------------------------------------------------------
Replace(r) ==
  \/ HoldPlan(r)
  \/ Aim(r)
  \/ \E w \in request[r].aim : DeleteRow(r, w)
  \/ InsertRow(r)
  \/ NextGroup(r)
  \/ CommitLists(r)
  \/ UniqueViolation(r)
  \/ Deadlocked(r)

\* The lists as earlier requests left them.
ReplacementInit ==
  /\ \E input \in [Earlier -> {x \in Inputs : Valid(x)}] :
     \E plan \in [Earlier -> UNION {Plans(input[r]) : r \in Earlier}] :
       /\ \A r \in Earlier : plan[r] \in Plans(input[r])
       /\ request = [r \in Requests |->
                       IF r \in Earlier
                       THEN [Idle EXCEPT !.pc = "done", !.input = input[r], !.plan = plan[r]]
                       ELSE Idle]
       /\ table = UNION {RowsOf(r, plan[r]) : r \in Earlier}
  /\ \A v, w \in table : v.list = w.list => v.by = w.by
  /\ met = {}

ReplacementNext ==
  \E r \in Requests : Begin(r) \/ Refuse(r) \/ Replace(r) \/ Lost(r)

----------------------------------------------------------------------------
ReplacementTypeOK ==
  /\ \A r \in Requests :
       /\ request[r].pc \in {"idle", "hold", "aim", "change", "done", "failed"}
       /\ request[r].input \in Inputs \cup {NoInput}
       /\ UnderWay(r) \/ request[r].pc = "done" => request[r].plan \in Plans(request[r].input)
       /\ UnderWay(r) => request[r].at \in DOMAIN request[r].plan /\ request[r].next \in Nat
       /\ request[r].aim = {} \/ request[r].pc = "change"
       /\ request[r].doomed \subseteq table
  /\ \A w \in table : w.by \in Requests /\ w.list \in Days \cup Services \cup PlanLists
  /\ met \subseteq SUBSET Requests

\* What anyone else reads of a list.
Shown(l) == {w \in table : w.list = l /\ Committed(w)}

EntriesBy(w) == request[w.by].input.entries

\* However many requests set the hours of a day at once, and whichever of them fail,
\* the day shows the ranges of a single one of them, all of them, in the order of
\* the day, and no two open ranges overlap.
HoursAreWhole ==
  \A d \in Days :
    /\ \A v, w \in Shown(d) :
         /\ v.by = w.by
         /\ v.key < w.key => /\ v.says.open <= w.says.open
                             /\ ~v.says.closed /\ ~w.says.closed => v.says.close <= w.says.open
    /\ \A w \in Shown(d) :
         /\ {v.key : v \in Shown(d)} = 1 .. Cardinality(PlacesOf(EntriesBy(w), d))
         /\ {v.says : v \in Shown(d)} = {EntriesBy(w)[i] : i \in PlacesOf(EntriesBy(w), d)}

\* However many requests edit a plan at once, it includes the services of a single one
\* of them, all of them.
PlansAreWhole ==
  \A o \in PlanLists : \A w \in Shown(o) :
    /\ \A v \in Shown(o) : v.by = w.by
    /\ {v.key : v \in Shown(o)} = request[w.by].input.services

\* What a day or a plan shows was asked for by one request.
ListsAreWhole == HoursAreWhole /\ PlansAreWhole

\* The set of a service is replaced as a whole; nothing keeps two requests that
\* meet from leaving the union of their sets, but nothing else mixes them: what a
\* request leaves is all there, next to those it met and to no other.
StaffMixedOnlyByMeeting ==
  \A s \in Services : \A w \in Shown(s) :
    /\ {v.key : v \in {x \in Shown(s) : x.by = w.by}} = request[w.by].input.professionals
    /\ \A v \in Shown(s) : v.by = w.by \/ {v.by, w.by} \in met
=============================================================================
