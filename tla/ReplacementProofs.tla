------------------------- MODULE ReplacementProofs -------------------------
(***************************************************************************)
(* Theorems about Replacement, for any number of requests, lists and rows:  *)
(* the types, that a day and a plan show what a single request asked for,   *)
(* and that the sets of a service are mixed only by requests that met.      *)
(***************************************************************************)
EXTENDS Replacement, FiniteSetTheorems, TLAPS

ReplacementSpec == ReplacementInit /\ [][ReplacementNext]_replacementVars

----------------------------------------------------------------------------
(* The inductive invariant.                                                *)

Lists == Days \cup Services \cup PlanLists

ValidInputs == {input \in Inputs : Valid(input)}

AllPlans == UNION {Plans(input) : input \in ValidInputs}

AllRows == UNION {RowsOf(r, p) : r \in Requests, p \in AllPlans}

RequestStates ==
  [pc : {"idle", "hold", "aim", "change", "done", "failed"},
   input : Inputs \cup {NoInput}, plan : AllPlans \cup {<<>>}, at : Nat, next : Nat,
   aim : SUBSET AllRows, doomed : SUBSET AllRows]

Done(r) == request[r].pc = "done"

\* The rows that r has deleted or will.
Taken(r) == request[r].aim \cup request[r].doomed

PlanOf(r) == request[r].plan

\* Row n of group k has been inserted.
Past(r, k, n) == k < request[r].at \/ (k = request[r].at /\ n < request[r].next)

\* A request and its plan, and how far it is with it.
Sound(r) ==
  /\ request[r] \in RequestStates
  /\ UnderWay(r) \/ Done(r) => /\ request[r].input \in ValidInputs
                               /\ PlanOf(r) \in Plans(request[r].input)
  /\ UnderWay(r) => request[r].at \in DOMAIN PlanOf(r) /\ request[r].next # 0
  /\ request[r].pc \in {"hold", "aim"} => request[r].next = 1
  /\ request[r].pc = "hold" => request[r].at = 1
  /\ request[r].aim # {} => request[r].pc = "change"
  /\ request[r].doomed # {} => request[r].pc \in {"aim", "change"}
  /\ request[r].doomed \subseteq table
  /\ \A w \in Taken(r) : Committed(w)

\* Rows belong to requests that planned them, and have begun or are done.
RowsSound ==
  \A w \in table :
    /\ w.by \in Requests
    /\ request[w.by].pc \in {"aim", "change", "done"}
    /\ w \in RowsOf(w.by, PlanOf(w.by))

\* What a request has passed is there.
Inserted ==
  \A r \in Requests : UnderWay(r) =>
    \A k \in DOMAIN PlanOf(r) : \A n \in DOMAIN PlanOf(r)[k].rows :
      Past(r, k, n) => RowAt(r, PlanOf(r), k, n) \in table

\* Of what a request that is done left in a list, all is there or nothing.
AllOrNone ==
  \A w \in table : Done(w.by) =>
    \A x \in RowsOf(w.by, PlanOf(w.by)) : x.list = w.list => x \in table

\* Rows are deleted with all that their request left in the list.
TakenTogether ==
  \A r \in Requests : \A v, w \in table :
    (v \in Taken(r) /\ v.by = w.by /\ v.list = w.list) => w \in Taken(r)

\* Nobody deletes a row twice.
DeletedOnce ==
  \A r, s \in Requests : r # s => request[r].doomed \cap request[s].doomed = {}

\* Of two rows with one key, the request of one has deleted the other.
KeysClash ==
  \A v, w \in table :
    (v # w /\ v.list = w.list /\ v.key = w.key)
      => v \in request[w.by].doomed \/ w \in request[v.by].doomed

OneHolder == \A o \in PlanLists : \A r, s \in HoldersOf(o) : r = s

\* Who holds a plan will have deleted all it includes.
HolderTakesAll ==
  \A r \in Requests :
    (request[r].pc = "change" /\ request[r].input.kind = "plan") =>
      \A w \in table : w.list = request[r].input.plan /\ Committed(w) => w \in Taken(r)

OneOwner ==
  \A v, w \in table :
    (v.list \in PlanLists /\ v.list = w.list /\ Committed(v) /\ Committed(w)) => v.by = w.by

AllMet == \A r, s \in Requests : r # s /\ UnderWay(r) /\ UnderWay(s) => {r, s} \in met

\* A row of the list in hand that r did not find came from a request it met.
FoundOrMet ==
  \A r \in Requests : request[r].pc = "change" =>
    \A w \in table : (w.list = Group(r).list /\ Committed(w))
                       => w \in Taken(r) \/ {r, w.by} \in met

\* Rows of two requests that did not meet stay together only until one commits.
MixedByMeeting ==
  \A v, w \in table : (v.list = w.list /\ v.by # w.by) =>
    {v.by, w.by} \in met \/ v \in Taken(w.by) \/ w \in Taken(v.by)

ReplacementInv ==
  /\ request \in [Requests -> RequestStates]
  /\ met \subseteq SUBSET Requests
  /\ \A r \in Requests : Sound(r)
  /\ RowsSound
  /\ Inserted
  /\ AllOrNone
  /\ TakenTogether
  /\ DeletedOnce
  /\ KeysClash
  /\ OneHolder
  /\ HolderTakesAll
  /\ OneOwner
  /\ AllMet
  /\ FoundOrMet
  /\ MixedByMeeting

----------------------------------------------------------------------------
(* What a request plans.                                                   *)

LEMMA OrderFacts ==
  ASSUME NEW S, IsFiniteSet(S), NEW f \in Orders(S)
  PROVE  /\ Cardinality(S) \in Nat
         /\ DOMAIN f = 1 .. Cardinality(S)
         /\ \A n \in DOMAIN f : f[n] \in S
         /\ \A x \in S : \E n \in DOMAIN f : f[n] = x
BY FS_CardinalityType DEF Orders

LEMMA EntryFacts ==
  ASSUME NEW entries \in Seq(Ranges)
  PROVE  /\ \A i \in DOMAIN entries : entries[i] \in Ranges /\ i \in Nat
         /\ IsFiniteSet(DaysOf(entries)) /\ DaysOf(entries) \subseteq Days
         /\ \A d : IsFiniteSet(PlacesOf(entries, d))
<1>1. DOMAIN entries = 1 .. Len(entries) /\ Len(entries) \in Nat
  OBVIOUS
<1>2. IsFiniteSet(DOMAIN entries)
  BY <1>1, FS_Interval
<1>3. IsFiniteSet(DaysOf(entries))
  <2> DEFINE days == [i \in DOMAIN entries |-> entries[i].day]
  <2>1. days \in [DOMAIN entries -> DaysOf(entries)]
    BY DEF DaysOf
  <2>2. \A d \in DaysOf(entries) : \E i \in DOMAIN entries : days[i] = d
    BY DEF DaysOf
  <2>3. days \in Surjection(DOMAIN entries, DaysOf(entries))
    BY <2>1, <2>2 DEF Surjection
  <2> QED BY <1>2, <2>3, FS_Surjection
<1>4. ASSUME NEW d PROVE IsFiniteSet(PlacesOf(entries, d))
  BY <1>2, FS_Subset DEF PlacesOf
<1>5. \A i \in DOMAIN entries : entries[i] \in Ranges /\ i \in Nat
  BY <1>1
<1>6. DaysOf(entries) \subseteq Days
  BY <1>5 DEF DaysOf, Ranges
<1> QED BY <1>3, <1>4, <1>5, <1>6

LEMMA ValidFacts ==
  ASSUME NEW input \in ValidInputs
  PROVE  /\ input \in Inputs
         /\ input.kind \in {"hours", "staff", "plan"}
         /\ input.kind = "hours" => /\ input.entries \in Seq(Ranges)
                                    /\ ValidHours(input.entries)
         /\ input.kind = "staff" => /\ input.service \in Services
                                    /\ IsFiniteSet(input.professionals)
         /\ input.kind = "plan" => /\ input.plan \in PlanLists
                                   /\ IsFiniteSet(input.services)
BY ReplacementAssumption, FS_Subset DEF ValidInputs, Valid, Formed, ValidStaff

\* A day of the hours has one group, with all its ranges in their order.
LEMMA HoursShape ==
  ASSUME NEW input \in ValidInputs, input.kind = "hours", NEW p \in Plans(input)
  PROVE  \E days \in FirstSeen(input.entries) :
           /\ DOMAIN p = DOMAIN days
           /\ \A k \in DOMAIN p : \E f \in Ordered(input.entries, days[k]) :
                p[k] = DayGroup(input.entries, days[k], f)
BY DEF Plans, HoursPlans, DayGroups

\* Any other request has one group, with all the members of its set.
LEMMA SetShape ==
  ASSUME NEW l, NEW S, IsFiniteSet(S), NEW g \in SetGroups(l, S)
  PROVE  /\ g.list = l
         /\ \E m \in Nat : DOMAIN g.rows = 1 .. m
         /\ \A n \in DOMAIN g.rows : g.rows[n].key = g.rows[n].says
         /\ {g.rows[n].key : n \in DOMAIN g.rows} = S
<1>1. PICK f \in Orders(S) :
        g = [list |-> l, rows |-> [n \in DOMAIN f |-> [key |-> f[n], says |-> f[n]]]]
  BY DEF SetGroups
<1>2. /\ g.list = l /\ DOMAIN g.rows = DOMAIN f
      /\ \A n \in DOMAIN f : g.rows[n].key = f[n] /\ g.rows[n].says = f[n]
  BY <1>1
<1>3. /\ \E m \in Nat : DOMAIN f = 1 .. m
      /\ \A n \in DOMAIN f : f[n] \in S
      /\ \A x \in S : \E n \in DOMAIN f : f[n] = x
  BY OrderFacts
<1>4. {g.rows[n].key : n \in DOMAIN g.rows} = S
  BY <1>2, <1>3
<1> QED BY <1>2, <1>3, <1>4

LEMMA StaffShape ==
  ASSUME NEW input \in ValidInputs, input.kind = "staff", NEW p \in Plans(input)
  PROVE  DOMAIN p = {1} /\ p[1] \in SetGroups(input.service, input.professionals)
BY DEF Plans, StaffPlans

LEMMA ServiceShape ==
  ASSUME NEW input \in ValidInputs, input.kind = "plan", NEW p \in Plans(input)
  PROVE  DOMAIN p = {1} /\ p[1] \in SetGroups(input.plan, input.services)
BY DEF Plans, ServicePlans

\* The groups of a plan are of different lists, and the keys of a group tell what
\* its rows say.
Shaped(input, p) ==
  /\ \E n \in Nat : n > 0 /\ DOMAIN p = 1 .. n
  /\ \A k \in DOMAIN p : p[k].list \in Lists /\ \E m \in Nat : DOMAIN p[k].rows = 1 .. m
  /\ \A j, k \in DOMAIN p : p[j].list = p[k].list => j = k
  /\ \A k \in DOMAIN p : \A m, n \in DOMAIN p[k].rows :
       p[k].rows[m].key = p[k].rows[n].key => p[k].rows[m].says = p[k].rows[n].says
  /\ \A k \in DOMAIN p : p[k].list \in Days =>
       input.kind = "hours" /\ \A n \in DOMAIN p[k].rows : p[k].rows[n].key = n
  /\ \A k \in DOMAIN p : p[k].list \in Services =>
       input.kind = "staff" /\ p[k].list = input.service
  /\ \A k \in DOMAIN p : p[k].list \in PlanLists =>
       input.kind = "plan" /\ p[k].list = input.plan

LEMMA PlanShape ==
  ASSUME NEW input \in ValidInputs, NEW p \in Plans(input)
  PROVE  Shaped(input, p)
<1>1. CASE input.kind = "hours"
  <2> DEFINE E == input.entries
  <2>1. PICK days \in FirstSeen(E) :
          /\ DOMAIN p = DOMAIN days
          /\ \A k \in DOMAIN p : \E f \in Ordered(E, days[k]) : p[k] = DayGroup(E, days[k], f)
    BY <1>1, HoursShape
  <2>2. E \in Seq(Ranges) /\ ValidHours(E)
    BY <1>1, ValidFacts
  <2> HIDE DEF E
  <2>3. /\ IsFiniteSet(DaysOf(E)) /\ days \in Orders(DaysOf(E))
        /\ \A d : IsFiniteSet(PlacesOf(E, d))
    BY <2>1, <2>2, EntryFacts DEF FirstSeen
  <2>4. /\ Cardinality(DaysOf(E)) \in Nat /\ DOMAIN p = 1 .. Cardinality(DaysOf(E))
        /\ \A k \in DOMAIN p : days[k] \in Days
        /\ \A d \in DaysOf(E) : \E k \in DOMAIN p : days[k] = d
    BY <2>1, <2>2, <2>3, OrderFacts, EntryFacts
  <2>5. E # <<>> => 1 \in DOMAIN E
    BY <2>2
  <2>6. DaysOf(E) # {}
    BY <2>2, <2>5 DEF DaysOf, ValidHours
  <2>7. Cardinality(DaysOf(E)) > 0
    BY <2>4, <2>6
  <2>8. ASSUME NEW k \in DOMAIN p
        PROVE  /\ p[k].list = days[k]
               /\ \E m \in Nat : DOMAIN p[k].rows = 1 .. m
               /\ \A n \in DOMAIN p[k].rows : p[k].rows[n].key = n
    <3>1. PICK f \in Ordered(E, days[k]) : p[k] = DayGroup(E, days[k], f)
      BY <2>1
    <3>2. \E m \in Nat : DOMAIN f = 1 .. m
      BY <2>3, OrderFacts DEF Ordered
    <3> QED BY <3>1, <3>2 DEF DayGroup
  <2>9. ASSUME NEW j \in DOMAIN p, NEW k \in DOMAIN p, days[j] = days[k], j < k
        PROVE  FALSE
    <3>1. PICK i \in DOMAIN E : E[i].day = days[j] /\ \A h \in DOMAIN E : E[h].day = days[k] => i < h
      BY <2>1, <2>9 DEF FirstSeen
    <3>2. i < i /\ i \in Nat
      BY <2>2, <2>9, <3>1, EntryFacts
    <3> QED BY <3>2
  <2>10. \A j, k \in DOMAIN p : days[j] = days[k] => j = k
    BY <2>4, <2>9
  <2>11. \A k \in DOMAIN p : p[k].list \in Lists /\ p[k].list \notin Services \cup PlanLists
    BY <2>4, <2>8, ReplacementAssumption DEF Lists
  <2>12. \A k \in DOMAIN p : \A m, n \in DOMAIN p[k].rows :
           p[k].rows[m].key = p[k].rows[n].key => p[k].rows[m].says = p[k].rows[n].says
    BY <2>8
  <2>13. \E n \in Nat : n > 0 /\ DOMAIN p = 1 .. n
    BY <2>4, <2>7
  <2>14. \A j, k \in DOMAIN p : p[j].list = p[k].list => j = k
    BY <2>8, <2>10
  <2> QED BY <1>1, <2>8, <2>11, <2>12, <2>13, <2>14 DEF Shaped
<1>2. ASSUME NEW l \in Services \cup PlanLists, NEW S, IsFiniteSet(S),
             DOMAIN p = {1}, p[1] \in SetGroups(l, S),
             l \in Services => input.kind = "staff" /\ l = input.service,
             l \in PlanLists => input.kind = "plan" /\ l = input.plan
      PROVE  Shaped(input, p)
  <2>1. /\ p[1].list = l
        /\ \E m \in Nat : DOMAIN p[1].rows = 1 .. m
        /\ \A n \in DOMAIN p[1].rows : p[1].rows[n].key = p[1].rows[n].says
    BY <1>2, SetShape
  <2>2. l \in Lists /\ l \notin Days
    BY ReplacementAssumption DEF Lists
  <2>3. \E n \in Nat : n > 0 /\ DOMAIN p = 1 .. n
    <3>1. DOMAIN p = 1 .. 1
      BY <1>2
    <3> QED BY <3>1
  <2> QED BY <1>2, <2>1, <2>2, <2>3 DEF Shaped
<1>3. CASE input.kind = "staff"
  <2>1. input.service \in Services /\ input.service \notin PlanLists /\ IsFiniteSet(input.professionals)
    BY <1>3, ValidFacts, ReplacementAssumption
  <2>2. DOMAIN p = {1} /\ p[1] \in SetGroups(input.service, input.professionals)
    BY <1>3, StaffShape
  <2> QED BY <1>2, <1>3, <2>1, <2>2
<1>4. CASE input.kind = "plan"
  <2>1. input.plan \in PlanLists /\ input.plan \notin Services /\ IsFiniteSet(input.services)
    BY <1>4, ValidFacts, ReplacementAssumption
  <2>2. DOMAIN p = {1} /\ p[1] \in SetGroups(input.plan, input.services)
    BY <1>4, ServiceShape
  <2> QED BY <1>2, <1>4, <2>1, <2>2
<1> QED BY <1>1, <1>3, <1>4, ValidFacts

----------------------------------------------------------------------------
(* Rows, and the steps of one request.                                     *)

LEMMA RowFacts ==
  ASSUME NEW r, NEW p, NEW w \in RowsOf(r, p)
  PROVE  /\ w.by = r
         /\ \E k \in DOMAIN p : \E n \in DOMAIN p[k].rows :
              /\ w = RowAt(r, p, k, n)
              /\ w.list = p[k].list /\ w.key = p[k].rows[n].key /\ w.says = p[k].rows[n].says
BY DEF RowsOf, RowAt

\* In a plan, a list and a key tell the row.
LEMMA KeyTellsRow ==
  ASSUME NEW r, NEW input \in ValidInputs, NEW p \in Plans(input),
         NEW v \in RowsOf(r, p), NEW w \in RowsOf(r, p), v.list = w.list, v.key = w.key
  PROVE  v = w
<1>1. PICK j \in DOMAIN p : \E m \in DOMAIN p[j].rows :
        /\ v = RowAt(r, p, j, m)
        /\ v.list = p[j].list /\ v.key = p[j].rows[m].key /\ v.says = p[j].rows[m].says
  BY RowFacts
<1>2. PICK m \in DOMAIN p[j].rows :
        /\ v = RowAt(r, p, j, m)
        /\ v.list = p[j].list /\ v.key = p[j].rows[m].key /\ v.says = p[j].rows[m].says
  BY <1>1
<1>3. PICK k \in DOMAIN p : \E n \in DOMAIN p[k].rows :
        /\ w = RowAt(r, p, k, n)
        /\ w.list = p[k].list /\ w.key = p[k].rows[n].key /\ w.says = p[k].rows[n].says
  BY RowFacts
<1>4. PICK n \in DOMAIN p[k].rows :
        /\ w = RowAt(r, p, k, n)
        /\ w.list = p[k].list /\ w.key = p[k].rows[n].key /\ w.says = p[k].rows[n].says
  BY <1>3
<1>5. j = k
  BY <1>2, <1>4, PlanShape DEF Shaped
<1>6. v.says = w.says
  BY <1>2, <1>4, <1>5, PlanShape DEF Shaped
<1> QED BY <1>2, <1>4, <1>5, <1>6 DEF RowAt

LEMMA RowOwner ==
  ASSUME NEW w \in AllRows
  PROVE  w.by \in Requests
BY RowFacts DEF AllRows

LEMMA PlannedRows ==
  ASSUME NEW r \in Requests, NEW p \in AllPlans
  PROVE  RowsOf(r, p) \subseteq AllRows
BY DEF AllRows

LEMMA TableFacts ==
  ASSUME ReplacementInv, NEW w \in table
  PROVE  /\ w.by \in Requests
         /\ w \in AllRows
         /\ request[w.by].input \in ValidInputs
         /\ PlanOf(w.by) \in Plans(request[w.by].input)
         /\ w \in RowsOf(w.by, PlanOf(w.by))
         /\ UnderWay(w.by) \/ Done(w.by)
<1>1. w.by \in Requests /\ w \in RowsOf(w.by, PlanOf(w.by)) /\ (UnderWay(w.by) \/ Done(w.by))
  BY DEF ReplacementInv, RowsSound, UnderWay, Done
<1>2. request[w.by].input \in ValidInputs /\ PlanOf(w.by) \in Plans(request[w.by].input)
  BY <1>1 DEF ReplacementInv, Sound
<1>3. PlanOf(w.by) \in AllPlans
  BY <1>2 DEF AllPlans
<1> QED BY <1>1, <1>2, <1>3, PlannedRows

LEMMA Becomes ==
  ASSUME request \in [Requests -> RequestStates], NEW r \in Requests,
         NEW q \in RequestStates, Set(r, q)
  PROVE  /\ request' \in [Requests -> RequestStates]
         /\ request'[r] = q
         /\ \A s \in Requests \ {r} : request'[s] = request[s]
BY DEF Set

\* A request that does not step stays sound.
LEMMA OthersSound ==
  ASSUME NEW s \in Requests, Sound(s), request'[s] = request[s],
         request[s].doomed \subseteq table',
         \A u \in Requests : Done(u) => Done(u)'
  PROVE  Sound(s)'
<1>1. \A w \in Taken(s) : w.by \in Requests
  BY RowOwner DEF Sound, RequestStates, Taken
<1>2. Taken(s)' = Taken(s) /\ PlanOf(s)' = PlanOf(s) /\ (UnderWay(s)' <=> UnderWay(s))
      /\ (Done(s)' <=> Done(s))
  BY DEF Taken, PlanOf, UnderWay, Done
<1>3. \A w \in Taken(s)' : Committed(w)'
  BY <1>1, <1>2 DEF Sound, Committed, Done
<1> QED BY <1>2, <1>3 DEF Sound

\* What keeps as long as nothing is inserted, removed or committed, and nothing that is
\* deleted is spared.
LEMMA Sparing ==
  ASSUME ReplacementInv,
         table' = table, met \subseteq met',
         \A s \in Requests : /\ Taken(s) \cap table \subseteq Taken(s)'
                             /\ request[s].doomed \subseteq request'[s].doomed
                             /\ Done(s)' <=> Done(s)
                             /\ request[s].pc \in {"aim", "change", "done"} => PlanOf(s)' = PlanOf(s)
  PROVE  AllOrNone' /\ KeysClash' /\ OneOwner' /\ MixedByMeeting'
<1>1. \A w \in table :
        /\ w.by \in Requests
        /\ PlanOf(w.by)' = PlanOf(w.by)
        /\ Committed(w)' <=> Committed(w)
  BY DEF ReplacementInv, RowsSound, Committed, Done
<1>2. AllOrNone'
  BY <1>1 DEF ReplacementInv, AllOrNone
<1>3. KeysClash'
  BY <1>1 DEF ReplacementInv, KeysClash
<1>4. OneOwner'
  BY <1>1 DEF ReplacementInv, OneOwner
<1>5. MixedByMeeting'
  BY <1>1 DEF ReplacementInv, MixedByMeeting
<1> QED BY <1>2, <1>3, <1>4, <1>5

LEMMA Calm ==
  ASSUME ReplacementInv,
         table' = table, met \subseteq met',
         \A s \in Requests : /\ Taken(s)' = Taken(s)
                             /\ request'[s].doomed = request[s].doomed
                             /\ Done(s)' <=> Done(s)
                             /\ request[s].pc \in {"aim", "change", "done"} => PlanOf(s)' = PlanOf(s)
  PROVE  AllOrNone' /\ TakenTogether' /\ DeletedOnce' /\ KeysClash' /\ OneOwner' /\ MixedByMeeting'
<1>1. AllOrNone' /\ KeysClash' /\ OneOwner' /\ MixedByMeeting'
  BY Sparing
<1>2. TakenTogether' /\ DeletedOnce'
  BY DEF ReplacementInv, TakenTogether, DeletedOnce
<1> QED BY <1>1, <1>2

\* What keeps as long as the only request that steps is not in the middle of a list.
LEMMA CalmElse ==
  ASSUME ReplacementInv, NEW r \in Requests,
         table' = table, met \subseteq met',
         \A s \in Requests \ {r} : request'[s] = request[s],
         \A s \in Requests : Done(s)' <=> Done(s),
         request'[r].pc # "change",
         request'[r].pc # "aim" \/ request'[r].input.kind # "plan"
           \/ (request[r].pc = "change" /\ request'[r].input = request[r].input)
           \/ (request'[r].input = request[r].input /\ HoldersOf(request[r].input.plan) = {})
  PROVE  OneHolder' /\ HolderTakesAll' /\ FoundOrMet'
<1>1. \A w \in table : w.by \in Requests /\ (Committed(w)' <=> Committed(w))
  BY DEF ReplacementInv, RowsSound, Committed, Done
<1>2. \A s \in Requests \ {r} : Taken(s)' = Taken(s) /\ Group(s)' = Group(s)
  BY DEF Taken, Group
<1>3. HolderTakesAll'
  BY <1>1, <1>2 DEF ReplacementInv, HolderTakesAll
<1>4. FoundOrMet'
  BY <1>1, <1>2 DEF ReplacementInv, FoundOrMet
<1>5. ASSUME NEW o \in PlanLists, NEW s \in HoldersOf(o)', NEW t \in HoldersOf(o)'
      PROVE  s = t
  <2>1. \A u \in Requests \ {r} : u \in HoldersOf(o)' <=> u \in HoldersOf(o)
    BY DEF HoldersOf
  <2>2. CASE r \notin HoldersOf(o)'
    <3>1. s \in HoldersOf(o) /\ t \in HoldersOf(o)
      BY <1>5, <2>1, <2>2 DEF HoldersOf
    <3> QED BY <3>1 DEF ReplacementInv, OneHolder
  <2>3. CASE r \in HoldersOf(o)'
    <3>1. /\ request'[r].pc = "aim" /\ request'[r].input.kind = "plan"
          /\ request'[r].input.plan = o
      BY <2>3 DEF HoldersOf
    <3>2. r \in HoldersOf(o) \/ HoldersOf(o) = {}
      BY <3>1 DEF HoldersOf
    <3>3. HoldersOf(o) \subseteq {r}
      BY <3>2 DEF ReplacementInv, OneHolder
    <3>4. HoldersOf(o)' \subseteq {r}
      BY <2>1, <3>3 DEF HoldersOf
    <3> QED BY <1>5, <3>4
  <2> QED BY <2>2, <2>3
<1> QED BY <1>3, <1>4, <1>5 DEF OneHolder

\* The plans of what is there stay, so do the rows.
LEMMA CalmRows ==
  ASSUME ReplacementInv, NEW r \in Requests, table' = table,
         \A s \in Requests \ {r} : request'[s] = request[s],
         request[r].pc \in {"aim", "change", "done"} =>
           /\ request'[r].pc \in {"aim", "change", "done"}
           /\ PlanOf(r)' = PlanOf(r)
  PROVE  RowsSound'
<1>1. \A w \in table :
        /\ w.by \in Requests
        /\ request'[w.by].pc \in {"aim", "change", "done"}
        /\ PlanOf(w.by)' = PlanOf(w.by)
        /\ w \in RowsOf(w.by, PlanOf(w.by))
  BY DEF ReplacementInv, RowsSound, PlanOf
<1> QED BY <1>1 DEF RowsSound

\* Only what r inserts can be missing.
LEMMA InsertedElse ==
  ASSUME ReplacementInv, NEW r \in Requests,
         \A s \in Requests \ {r} : request'[s] = request[s],
         \A w \in table : w.by \in Requests \ {r} /\ UnderWay(w.by) => w \in table',
         UnderWay(r)' => \A k \in DOMAIN PlanOf(r)' : \A n \in DOMAIN PlanOf(r)'[k].rows :
           Past(r, k, n)' => RowAt(r, PlanOf(r)', k, n) \in table'
  PROVE  Inserted'
<1>1. ASSUME NEW s \in Requests \ {r}, UnderWay(s)', NEW k \in DOMAIN PlanOf(s)',
             NEW n \in DOMAIN PlanOf(s)'[k].rows, Past(s, k, n)'
      PROVE  RowAt(s, PlanOf(s)', k, n) \in table'
  <2>1. PlanOf(s)' = PlanOf(s) /\ UnderWay(s) /\ Past(s, k, n)
    BY <1>1 DEF PlanOf, UnderWay, Past
  <2>2. RowAt(s, PlanOf(s), k, n) \in table
    BY <1>1, <2>1 DEF ReplacementInv, Inserted
  <2>3. RowAt(s, PlanOf(s), k, n).by = s
    BY DEF RowAt
  <2> QED BY <2>1, <2>2, <2>3
<1>2. \A s \in Requests : UnderWay(s)' => \A k \in DOMAIN PlanOf(s)' :
        \A n \in DOMAIN PlanOf(s)'[k].rows :
          Past(s, k, n)' => RowAt(s, PlanOf(s)', k, n) \in table'
  BY <1>1
<1> QED BY <1>2 DEF Inserted

LEMMA BeginKeeps ==
  ASSUME ReplacementInv, NEW r \in Requests, Begin(r)
  PROVE  ReplacementInv'
<1>1. PICK input \in Inputs : Valid(input) /\ \E plan \in Plans(input) :
        Set(r, [Idle EXCEPT !.pc = IF input.kind = "plan" THEN "hold" ELSE "aim",
                            !.input = input, !.plan = plan])
  BY DEF Begin
<1>2. PICK plan \in Plans(input) :
        Set(r, [Idle EXCEPT !.pc = IF input.kind = "plan" THEN "hold" ELSE "aim",
                            !.input = input, !.plan = plan])
  BY <1>1
<1> DEFINE q == [Idle EXCEPT !.pc = IF input.kind = "plan" THEN "hold" ELSE "aim",
                             !.input = input, !.plan = plan]
<1>3. /\ q.pc = IF input.kind = "plan" THEN "hold" ELSE "aim"
      /\ q.input = input /\ q.plan = plan /\ q.at = 1 /\ q.next = 1
      /\ q.aim = {} /\ q.doomed = {}
  BY DEF Idle
<1>4. input \in ValidInputs /\ plan \in AllPlans
  BY <1>1 DEF ValidInputs, AllPlans
<1>5. q \in RequestStates
  BY <1>4 DEF RequestStates, Idle
<1>6. Set(r, q)
  BY <1>2
<1> HIDE DEF q
<1>7. /\ request' \in [Requests -> RequestStates] /\ request'[r] = q
      /\ \A s \in Requests \ {r} : request'[s] = request[s]
  BY <1>5, <1>6, Becomes DEF ReplacementInv
<1>8. /\ request[r].pc = "idle" /\ table' = table
      /\ met' = met \cup {{r, s} : s \in {x \in Requests : UnderWay(x)}}
  BY DEF Begin
<1>9. request[r].aim = {} /\ request[r].doomed = {}
  BY <1>8 DEF ReplacementInv, Sound
<1>10. \A s \in Requests : /\ Taken(s)' = Taken(s) /\ request'[s].doomed = request[s].doomed
                           /\ Done(s)' <=> Done(s)
                           /\ request[s].pc \in {"aim", "change", "done"} => PlanOf(s)' = PlanOf(s)
  BY <1>3, <1>7, <1>8, <1>9 DEF Taken, Done, PlanOf
<1>11. AllOrNone' /\ TakenTogether' /\ DeletedOnce' /\ KeysClash' /\ OneOwner' /\ MixedByMeeting'
  BY <1>8, <1>10, Calm
<1>12. OneHolder' /\ HolderTakesAll' /\ FoundOrMet'
  BY <1>3, <1>7, <1>8, <1>10, CalmElse
<1>13. RowsSound'
  BY <1>7, <1>8, CalmRows
<1>14. \E n \in Nat : n > 0 /\ DOMAIN plan = 1 .. n
  BY <1>4, PlanShape DEF Shaped
<1>15. Inserted'
  <2>1. PlanOf(r)' = plan
    BY <1>3, <1>7 DEF PlanOf
  <2>2. \A k \in DOMAIN plan : \A n \in DOMAIN plan[k].rows : ~Past(r, k, n)'
    <3>1. \A k \in DOMAIN plan : \E m \in Nat : DOMAIN plan[k].rows = 1 .. m
      BY <1>4, PlanShape DEF Shaped
    <3> QED BY <1>3, <1>7, <1>14, <3>1 DEF Past
  <2> QED BY <1>7, <1>8, <2>1, <2>2, InsertedElse
<1>16. Sound(r)'
  <2>1. UnderWay(r)' /\ PlanOf(r)' = plan /\ Taken(r)' = {} /\ 1 \in DOMAIN plan
    BY <1>3, <1>7, <1>14 DEF UnderWay, PlanOf, Taken
  <2> QED BY <1>3, <1>4, <1>5, <1>7, <2>1 DEF Sound
<1>17. \A s \in Requests \ {r} : Sound(s)'
  <2>1. \A s \in Requests : Sound(s) /\ request[s].doomed \subseteq table
    BY DEF ReplacementInv, Sound
  <2> QED BY <1>7, <1>8, <1>10, <2>1, OthersSound
<1>18. AllMet' /\ met' \subseteq SUBSET Requests
  <2>1. \A s \in Requests \ {r} : UnderWay(s)' <=> UnderWay(s)
    BY <1>7 DEF UnderWay
  <2> QED BY <1>8, <2>1 DEF ReplacementInv, AllMet
<1> QED BY <1>7, <1>11, <1>12, <1>13, <1>15, <1>16, <1>17, <1>18 DEF ReplacementInv

LEMMA RefuseKeeps ==
  ASSUME ReplacementInv, NEW r \in Requests, Refuse(r)
  PROVE  ReplacementInv'
<1> DEFINE q == [Idle EXCEPT !.pc = "failed"]
<1>1. q.pc = "failed" /\ q.aim = {} /\ q.doomed = {}
  BY DEF Idle
<1>2. q \in RequestStates
  BY DEF RequestStates, Idle
<1>3. Set(r, q) /\ request[r].pc = "idle" /\ table' = table /\ met' = met
  BY DEF Refuse
<1> HIDE DEF q
<1>4. /\ request' \in [Requests -> RequestStates] /\ request'[r] = q
      /\ \A s \in Requests \ {r} : request'[s] = request[s]
  BY <1>2, <1>3, Becomes DEF ReplacementInv
<1>5. request[r].aim = {} /\ request[r].doomed = {}
  BY <1>3 DEF ReplacementInv, Sound
<1>6. \A s \in Requests : /\ Taken(s)' = Taken(s) /\ request'[s].doomed = request[s].doomed
                          /\ Done(s)' <=> Done(s)
                          /\ request[s].pc \in {"aim", "change", "done"} => PlanOf(s)' = PlanOf(s)
  BY <1>1, <1>3, <1>4, <1>5 DEF Taken, Done, PlanOf
<1>7. AllOrNone' /\ TakenTogether' /\ DeletedOnce' /\ KeysClash' /\ OneOwner' /\ MixedByMeeting'
  BY <1>3, <1>6, Calm
<1>8. OneHolder' /\ HolderTakesAll' /\ FoundOrMet'
  BY <1>1, <1>3, <1>4, <1>6, CalmElse
<1>9. RowsSound'
  BY <1>3, <1>4, CalmRows
<1>10. ~UnderWay(r)' /\ ~Done(r)' /\ Taken(r)' = {}
  BY <1>1, <1>4 DEF UnderWay, Done, Taken
<1>11. Inserted'
  BY <1>3, <1>4, <1>10, InsertedElse
<1>12. Sound(r)'
  BY <1>1, <1>2, <1>4, <1>10 DEF Sound
<1>13. \A s \in Requests \ {r} : Sound(s)'
  <2>1. \A s \in Requests : Sound(s) /\ request[s].doomed \subseteq table
    BY DEF ReplacementInv, Sound
  <2> QED BY <1>3, <1>4, <1>6, <2>1, OthersSound
<1>14. AllMet'
  <2>1. \A s \in Requests : UnderWay(s)' => UnderWay(s)
    BY <1>4, <1>10 DEF UnderWay
  <2> QED BY <1>3, <2>1 DEF ReplacementInv, AllMet
<1> QED BY <1>3, <1>4, <1>7, <1>8, <1>9, <1>11, <1>12, <1>13, <1>14 DEF ReplacementInv

\* A request that goes on to the next thing, without touching rows.
LEMMA TurnKeeps ==
  ASSUME ReplacementInv, NEW r \in Requests, NEW q \in RequestStates, Set(r, q),
         UnderWay(r), request[r].aim = {}, table' = table, met' = met,
         q.pc = "aim", q.next = 1, q.at \in DOMAIN PlanOf(r),
         q.input = request[r].input, q.plan = request[r].plan,
         q.aim = {}, q.doomed = request[r].doomed,
         request[r].pc = "change" \/ HoldersOf(request[r].input.plan) = {},
         \A k \in DOMAIN PlanOf(r) : k < q.at =>
           \A n \in DOMAIN PlanOf(r)[k].rows : Past(r, k, n)
  PROVE  ReplacementInv'
<1>1. /\ request' \in [Requests -> RequestStates] /\ request'[r] = q
      /\ \A s \in Requests \ {r} : request'[s] = request[s]
  BY Becomes DEF ReplacementInv
<1>2. UnderWay(r)' /\ PlanOf(r)' = PlanOf(r) /\ ~Done(r)' /\ ~Done(r) /\ Taken(r)' = Taken(r)
  BY <1>1 DEF UnderWay, PlanOf, Done, Taken
<1>3. \A s \in Requests : /\ Taken(s)' = Taken(s) /\ request'[s].doomed = request[s].doomed
                          /\ Done(s)' <=> Done(s)
                          /\ PlanOf(s)' = PlanOf(s)
                          /\ UnderWay(s)' <=> UnderWay(s)
  BY <1>1, <1>2 DEF Taken, Done, PlanOf, UnderWay
<1>4. AllOrNone' /\ TakenTogether' /\ DeletedOnce' /\ KeysClash' /\ OneOwner' /\ MixedByMeeting'
  BY <1>3, Calm
<1>5. OneHolder' /\ HolderTakesAll' /\ FoundOrMet'
  BY <1>1, <1>3, CalmElse
<1>6. RowsSound'
  BY <1>1, <1>2, CalmRows
<1>7. /\ request[r].input \in ValidInputs /\ PlanOf(r) \in Plans(request[r].input)
      /\ Sound(r)
  BY DEF ReplacementInv, Sound
<1>8. ASSUME NEW k \in DOMAIN PlanOf(r), NEW n \in DOMAIN PlanOf(r)[k].rows, Past(r, k, n)'
      PROVE  RowAt(r, PlanOf(r), k, n) \in table
  <2>1. \E m \in Nat : DOMAIN PlanOf(r)[k].rows = 1 .. m
    BY <1>7, PlanShape DEF Shaped
  <2>2. k < q.at
    BY <1>1, <1>8, <2>1 DEF Past
  <2>3. Past(r, k, n)
    BY <2>2
  <2> QED BY <2>3 DEF ReplacementInv, Inserted
<1>9. Inserted'
  BY <1>1, <1>2, <1>8, InsertedElse
<1>10. Sound(r)'
  <2>1. \A w \in Taken(r) : w.by \in Requests /\ Committed(w)
    BY <1>7, RowOwner DEF Sound, RequestStates, Taken
  <2>2. \A w \in Taken(r)' : Committed(w)'
    BY <1>3, <2>1 DEF Committed, Done
  <2> QED BY <1>1, <1>2, <1>7, <2>2 DEF Sound
<1>11. \A s \in Requests \ {r} : Sound(s)'
  <2>1. \A s \in Requests : Sound(s) /\ request[s].doomed \subseteq table
    BY DEF ReplacementInv, Sound
  <2> QED BY <1>1, <1>3, <2>1, OthersSound
<1>12. AllMet'
  BY <1>3 DEF ReplacementInv, AllMet
<1> QED BY <1>1, <1>4, <1>5, <1>6, <1>9, <1>10, <1>11, <1>12 DEF ReplacementInv

LEMMA HoldPlanKeeps ==
  ASSUME ReplacementInv, NEW r \in Requests, HoldPlan(r)
  PROVE  ReplacementInv'
<1> DEFINE q == [request[r] EXCEPT !.pc = "aim"]
<1>1. /\ request[r].pc = "hold" /\ HoldersOf(request[r].input.plan) = {}
      /\ Set(r, q) /\ table' = table /\ met' = met
  BY DEF HoldPlan
<1>2. UnderWay(r) /\ request[r] \in RequestStates /\ Sound(r)
  BY <1>1 DEF ReplacementInv, UnderWay
<1>3. /\ request[r].aim = {} /\ request[r].at = 1 /\ request[r].next = 1
      /\ 1 \in DOMAIN PlanOf(r)
      /\ request[r].input \in ValidInputs /\ PlanOf(r) \in Plans(request[r].input)
  BY <1>1, <1>2 DEF Sound
<1>4. /\ q \in RequestStates /\ q.pc = "aim" /\ q.next = 1 /\ q.at = 1
      /\ q.input = request[r].input /\ q.plan = request[r].plan
      /\ q.aim = {} /\ q.doomed = request[r].doomed
  BY <1>2, <1>3 DEF RequestStates
<1> HIDE DEF q
<1>5. \E n \in Nat : n > 0 /\ DOMAIN PlanOf(r) = 1 .. n
  BY <1>3, PlanShape DEF Shaped
<1>6. \A k \in DOMAIN PlanOf(r) : ~(k < q.at)
  BY <1>4, <1>5
<1> QED BY <1>1, <1>2, <1>3, <1>4, <1>6, TurnKeeps

LEMMA NextGroupKeeps ==
  ASSUME ReplacementInv, NEW r \in Requests, NextGroup(r)
  PROVE  ReplacementInv'
<1> DEFINE q == [request[r] EXCEPT !.pc = "aim", !.at = @ + 1, !.next = 1]
<1>1. /\ request[r].pc = "change" /\ request[r].aim = {}
      /\ request[r].next \notin DOMAIN Group(r).rows
      /\ request[r].at + 1 \in DOMAIN PlanOf(r)
      /\ Set(r, q) /\ table' = table /\ met' = met
  BY DEF NextGroup, Finished, PlanOf
<1>2. UnderWay(r) /\ request[r] \in RequestStates /\ Sound(r)
  BY <1>1 DEF ReplacementInv, UnderWay
<1>3. /\ request[r].input \in ValidInputs /\ PlanOf(r) \in Plans(request[r].input)
      /\ request[r].at \in DOMAIN PlanOf(r) /\ request[r].next # 0
      /\ request[r].at \in Nat /\ request[r].next \in Nat
  BY <1>2 DEF Sound, RequestStates
<1>4. /\ q \in RequestStates /\ q.pc = "aim" /\ q.next = 1 /\ q.at = request[r].at + 1
      /\ q.input = request[r].input /\ q.plan = request[r].plan
      /\ q.aim = {} /\ q.doomed = request[r].doomed
  <2> DEFINE e == request[r]
             at == request[r].at + 1
  <2>1. at \in Nat
    BY <1>3
  <2> HIDE DEF at
  <2>2. q = [e EXCEPT !.pc = "aim", !.at = at, !.next = 1]
    BY DEF at
  <2> HIDE DEF e, q
  <2>3. e \in RequestStates
    BY <1>2 DEF e
  <2>4. /\ q \in RequestStates /\ q.pc = "aim" /\ q.next = 1 /\ q.at = at
        /\ q.input = e.input /\ q.plan = e.plan
        /\ q.aim = e.aim /\ q.doomed = e.doomed
    BY <2>1, <2>2, <2>3 DEF RequestStates
  <2> QED BY <1>1, <2>4 DEF e, at
<1> HIDE DEF q
<1>5. ASSUME NEW k \in DOMAIN PlanOf(r), k < q.at, NEW n \in DOMAIN PlanOf(r)[k].rows
      PROVE  Past(r, k, n)
  <2>1. k \in Nat /\ \E m \in Nat : DOMAIN PlanOf(r)[k].rows = 1 .. m
    BY <1>3, PlanShape DEF Shaped
  <2>2. k < request[r].at \/ k = request[r].at
    BY <1>3, <1>4, <1>5, <2>1
  <2>3. k = request[r].at => n < request[r].next
    BY <1>1, <1>3, <2>1 DEF Group, PlanOf
  <2> QED BY <2>2, <2>3 DEF Past
<1> QED BY <1>1, <1>2, <1>4, <1>5, TurnKeeps

\* Which list a request that holds a plan replaces.
LEMMA PlanGroup ==
  ASSUME ReplacementInv, NEW r \in Requests, UnderWay(r), request[r].input.kind = "plan"
  PROVE  /\ Group(r).list = request[r].input.plan
         /\ request[r].input.plan \in PlanLists
<1>1. /\ request[r].input \in ValidInputs /\ PlanOf(r) \in Plans(request[r].input)
      /\ request[r].at \in DOMAIN PlanOf(r)
  BY DEF ReplacementInv, Sound
<1>2. Shaped(request[r].input, PlanOf(r))
  BY <1>1, PlanShape
<1> QED BY <1>1, <1>2, ValidFacts DEF Shaped, Group, PlanOf, Lists

\* A request in the middle of a list, that deletes some of it.
LEMMA DeletingKeeps ==
  ASSUME ReplacementInv, NEW r \in Requests, NEW q \in RequestStates, Set(r, q),
         request[r].pc \in {"aim", "change"}, table' = table, met' = met,
         q.pc = "change", q.next = request[r].next, q.at = request[r].at,
         q.input = request[r].input, q.plan = request[r].plan,
         request[r].doomed \subseteq q.doomed, q.doomed \subseteq table,
         Taken(r) \cap table \subseteq Taken(r)',
         \A w \in Taken(r)' : w \in table => Committed(w),
         \A w \in Taken(r)' : w \in Taken(r) \/ w \in table,
         \A v, w \in table : (v \in Taken(r)' /\ v.by = w.by /\ v.list = w.list) => w \in Taken(r)',
         \A s \in Requests \ {r} : q.doomed \cap request[s].doomed = {},
         \A w \in table : w.list = Group(r).list /\ Committed(w)
                            => w \in Taken(r)' \/ {r, w.by} \in met,
         request[r].input.kind = "plan" =>
           \A w \in table : w.list = request[r].input.plan /\ Committed(w) => w \in Taken(r)'
  PROVE  ReplacementInv'
<1>1. /\ request' \in [Requests -> RequestStates] /\ request'[r] = q
      /\ \A s \in Requests \ {r} : request'[s] = request[s]
  BY Becomes DEF ReplacementInv
<1>2. /\ UnderWay(r) /\ UnderWay(r)' /\ PlanOf(r)' = PlanOf(r) /\ ~Done(r)' /\ ~Done(r)
      /\ Group(r)' = Group(r)
  BY <1>1 DEF UnderWay, PlanOf, Done, Group
<1>3. \A s \in Requests : /\ Done(s)' <=> Done(s)
                          /\ PlanOf(s)' = PlanOf(s)
                          /\ UnderWay(s)' <=> UnderWay(s)
                          /\ Group(s)' = Group(s)
                          /\ request[s].doomed \subseteq request'[s].doomed
                          /\ Taken(s) \cap table \subseteq Taken(s)'
  BY <1>1, <1>2 DEF Taken, Done, PlanOf, UnderWay, Group
<1>4. AllOrNone' /\ KeysClash' /\ OneOwner' /\ MixedByMeeting'
  BY <1>3, Sparing
<1>5. \A s \in Requests \ {r} : Taken(s)' = Taken(s)
  BY <1>1 DEF Taken
<1>6. TakenTogether'
  BY <1>5 DEF ReplacementInv, TakenTogether
<1>7. DeletedOnce'
  BY <1>1 DEF ReplacementInv, DeletedOnce
<1>8. \A w \in table : w.by \in Requests /\ (Committed(w)' <=> Committed(w))
  BY <1>3 DEF ReplacementInv, RowsSound, Committed, Done
<1>9. HolderTakesAll'
  BY <1>1, <1>5, <1>8 DEF ReplacementInv, HolderTakesAll
<1>10. FoundOrMet'
  BY <1>1, <1>2, <1>3, <1>5, <1>8 DEF ReplacementInv, FoundOrMet
<1>11. OneHolder'
  <2>1. \A o \in PlanLists : HoldersOf(o)' = HoldersOf(o)
    BY <1>1 DEF HoldersOf
  <2> QED BY <2>1 DEF ReplacementInv, OneHolder
<1>12. RowsSound'
  BY <1>1, <1>2, CalmRows
<1>13. Inserted'
  <2>1. \A k, n : Past(r, k, n)' => Past(r, k, n)
    BY <1>1 DEF Past
  <2>2. \A k \in DOMAIN PlanOf(r) : \A n \in DOMAIN PlanOf(r)[k].rows :
          Past(r, k, n) => RowAt(r, PlanOf(r), k, n) \in table
    BY <1>2 DEF ReplacementInv, Inserted
  <2> QED BY <1>1, <1>2, <2>1, <2>2, InsertedElse
<1>14. Sound(r)'
  <2>1. Sound(r)
    BY DEF ReplacementInv
  <2>2. \A w \in Taken(r)' : w.by \in Requests /\ Committed(w)
    BY <2>1, TableFacts, RowOwner DEF Sound, RequestStates, Taken
  <2>3. \A w \in Taken(r)' : Committed(w)'
    BY <1>3, <2>2 DEF Committed, Done
  <2> QED BY <1>1, <1>2, <2>1, <2>3 DEF Sound
<1>15. \A s \in Requests \ {r} : Sound(s)'
  <2>1. \A s \in Requests : Sound(s) /\ request[s].doomed \subseteq table
    BY DEF ReplacementInv, Sound
  <2> QED BY <1>1, <1>3, <2>1, OthersSound
<1>16. AllMet'
  BY <1>3 DEF ReplacementInv, AllMet
<1> QED BY <1>1, <1>4, <1>6, <1>7, <1>9, <1>10, <1>11, <1>12, <1>13, <1>14, <1>15, <1>16
        DEF ReplacementInv

LEMMA AimKeeps ==
  ASSUME ReplacementInv, NEW r \in Requests, Aim(r)
  PROVE  ReplacementInv'
<1> DEFINE A == {w \in table : w.list = Group(r).list /\ Committed(w)}
           q == [request[r] EXCEPT !.pc = "change", !.aim = A]
<1>1. request[r].pc = "aim" /\ Set(r, q) /\ table' = table /\ met' = met
  BY DEF Aim
<1>2. UnderWay(r) /\ request[r] \in RequestStates /\ Sound(r)
  BY <1>1 DEF ReplacementInv, UnderWay
<1>3. A \subseteq AllRows
  BY TableFacts
<1>4. /\ A \subseteq table
      /\ \A w \in table : w \in A <=> w.list = Group(r).list /\ Committed(w)
  OBVIOUS
<1> HIDE DEF A
<1>5. /\ q \in RequestStates /\ q.pc = "change" /\ q.next = request[r].next
      /\ q.at = request[r].at /\ q.input = request[r].input /\ q.plan = request[r].plan
      /\ q.aim = A /\ q.doomed = request[r].doomed
  BY <1>2, <1>3 DEF RequestStates
<1> HIDE DEF q
<1>6. request'[r] = q
  BY <1>1, <1>5, Becomes DEF ReplacementInv
<1>7. /\ Taken(r) = request[r].doomed /\ Taken(r)' = A \cup request[r].doomed
      /\ request[r].doomed \subseteq table
  BY <1>1, <1>2, <1>5, <1>6 DEF Taken, Sound
<1>8. \A w \in Taken(r)' : w \in table /\ Committed(w)
  BY <1>2, <1>4, <1>7 DEF Sound
<1>9. ASSUME NEW v \in table, NEW w \in table, v \in Taken(r)', v.by = w.by, v.list = w.list
      PROVE  w \in Taken(r)'
  <2>1. CASE v \in A
    <3>1. Committed(w) /\ w.list = Group(r).list
      BY <1>4, <1>9, <2>1 DEF Committed
    <3> QED BY <1>4, <1>7, <3>1
  <2>2. CASE v \in Taken(r)
    BY <1>7, <1>9, <2>2 DEF ReplacementInv, TakenTogether
  <2> QED BY <1>7, <1>9, <2>1, <2>2
<1>10. \A s \in Requests \ {r} : q.doomed \cap request[s].doomed = {}
  BY <1>5 DEF ReplacementInv, DeletedOnce
<1>11. \A w \in table : w.list = Group(r).list /\ Committed(w) => w \in Taken(r)'
  BY <1>4, <1>7
<1>12. request[r].input.kind = "plan" =>
         \A w \in table : w.list = request[r].input.plan /\ Committed(w) => w \in Taken(r)'
  BY <1>2, <1>11, PlanGroup
<1> QED BY <1>1, <1>5, <1>7, <1>8, <1>9, <1>10, <1>11, <1>12, DeletingKeeps

LEMMA DeleteRowKeeps ==
  ASSUME ReplacementInv, NEW r \in Requests, NEW x \in request[r].aim, DeleteRow(r, x)
  PROVE  ReplacementInv'
<1> DEFINE aim == request[r].aim \ {x}
           doomed == request[r].doomed \cup ({x} \cap table)
           q == [request[r] EXCEPT !.aim = aim, !.doomed = doomed]
<1>1. /\ request[r].pc = "change" /\ DeletedBy(x) = {}
      /\ Set(r, q) /\ table' = table /\ met' = met
  BY DEF DeleteRow
<1>2. UnderWay(r) /\ request[r] \in RequestStates /\ Sound(r)
  BY <1>1 DEF ReplacementInv, UnderWay
<1>3. /\ request[r].aim \subseteq AllRows /\ request[r].doomed \subseteq AllRows
      /\ request[r].doomed \subseteq table
  BY <1>2 DEF RequestStates, Sound
<1>4. /\ aim \subseteq AllRows /\ doomed \subseteq AllRows /\ doomed \subseteq table
      /\ request[r].doomed \subseteq doomed
  BY <1>3
<1>5. /\ aim \cup doomed \subseteq Taken(r) /\ Taken(r) \cap table \subseteq aim \cup doomed
  BY DEF Taken
<1>6. \A s \in Requests \ {r} : doomed \cap request[s].doomed = {}
  BY <1>1 DEF ReplacementInv, DeletedOnce, DeletedBy
<1> HIDE DEF aim, doomed
<1>7. /\ q \in RequestStates /\ q.pc = "change" /\ q.next = request[r].next
      /\ q.at = request[r].at /\ q.input = request[r].input /\ q.plan = request[r].plan
      /\ q.aim = aim /\ q.doomed = doomed
  BY <1>1, <1>2, <1>4 DEF RequestStates
<1> HIDE DEF q
<1>8. request'[r] = q
  BY <1>1, <1>7, Becomes DEF ReplacementInv
<1>9. Taken(r)' = aim \cup doomed
  BY <1>7, <1>8 DEF Taken
<1>10. \A w \in Taken(r)' : w \in Taken(r) /\ Committed(w)
  BY <1>2, <1>5, <1>9 DEF Sound
<1>11. Taken(r) \cap table \subseteq Taken(r)'
  BY <1>5, <1>9
<1>12. \A v, w \in table : (v \in Taken(r)' /\ v.by = w.by /\ v.list = w.list) => w \in Taken(r)'
  BY <1>10, <1>11 DEF ReplacementInv, TakenTogether
<1>13. \A w \in table : w.list = Group(r).list /\ Committed(w)
                          => w \in Taken(r)' \/ {r, w.by} \in met
  BY <1>1, <1>11 DEF ReplacementInv, FoundOrMet
<1>14. request[r].input.kind = "plan" =>
         \A w \in table : w.list = request[r].input.plan /\ Committed(w) => w \in Taken(r)'
  BY <1>1, <1>11 DEF ReplacementInv, HolderTakesAll
<1> QED BY <1>1, <1>4, <1>6, <1>7, <1>10, <1>11, <1>12, <1>13, <1>14, DeletingKeeps

LEMMA InsertRowKeeps ==
  ASSUME ReplacementInv, NEW r \in Requests, InsertRow(r)
  PROVE  ReplacementInv'
<1> DEFINE next == request[r].next + 1
           q == [request[r] EXCEPT !.next = next]
<1>0. PICK x : x = NextRow(r)
  OBVIOUS
<1>1. /\ request[r].pc = "change" /\ request[r].aim = {}
      /\ request[r].next \in DOMAIN Group(r).rows /\ Rivals(r) = {}
      /\ Set(r, q) /\ table' = table \cup {x} /\ met' = met
  BY <1>0 DEF InsertRow, Inserting
<1>2. UnderWay(r) /\ ~Done(r) /\ request[r] \in RequestStates /\ Sound(r)
  BY <1>1 DEF ReplacementInv, UnderWay, Done
<1>3. /\ request[r].input \in ValidInputs /\ PlanOf(r) \in Plans(request[r].input)
      /\ request[r].at \in DOMAIN PlanOf(r) /\ request[r].next \in Nat
  BY <1>2 DEF Sound, RequestStates
<1>4. x.by = r /\ x.list = Group(r).list /\ x \in RowsOf(r, PlanOf(r))
  <2> DEFINE p == PlanOf(r)
             k == request[r].at
             n == request[r].next
  <2>1. x = RowAt(r, p, k, n) /\ k \in DOMAIN p /\ n \in DOMAIN p[k].rows /\ Group(r).list = p[k].list
    BY <1>0, <1>1, <1>3 DEF NextRow, Group, PlanOf
  <2> HIDE DEF p, k, n
  <2>2. x.by = r /\ x.list = p[k].list /\ x \in RowsOf(r, p)
    BY <2>1 DEF RowAt, RowsOf
  <2> QED BY <2>1, <2>2 DEF p
<1>5. \A v \in table : v.list = x.list /\ v.key = x.key => v \in request[r].doomed
  BY <1>0, <1>1 DEF Rivals
<1>6. x = RowAt(r, PlanOf(r), request[r].at, request[r].next)
  BY <1>0 DEF NextRow, PlanOf
<1>7. next \in Nat /\ next # 0 /\ next = request[r].next + 1
  BY <1>3
<1> HIDE DEF next
<1>8. /\ q \in RequestStates /\ q.pc = "change" /\ q.next = next
      /\ q.at = request[r].at /\ q.input = request[r].input /\ q.plan = request[r].plan
      /\ q.aim = {} /\ q.doomed = request[r].doomed
  BY <1>1, <1>2, <1>7 DEF RequestStates
<1> HIDE DEF q
<1>9. /\ request' \in [Requests -> RequestStates] /\ request'[r] = q
      /\ \A s \in Requests \ {r} : request'[s] = request[s]
  BY <1>1, <1>8, Becomes DEF ReplacementInv
<1>10. \A s \in Requests : /\ Taken(s)' = Taken(s) /\ request'[s].doomed = request[s].doomed
                           /\ Done(s)' <=> Done(s)
                           /\ PlanOf(s)' = PlanOf(s)
                           /\ UnderWay(s)' <=> UnderWay(s)
                           /\ Group(s)' = Group(s)
                           /\ request'[s].pc = request[s].pc
                           /\ request'[s].input = request[s].input
  BY <1>1, <1>8, <1>9 DEF Taken, Done, PlanOf, UnderWay, Group
<1>11. \A w \in table' : /\ w \in table \/ w = x
                         /\ w.by \in Requests
                         /\ Committed(w)' => w \in table /\ Committed(w)
  BY <1>1, <1>2, <1>4, <1>10, TableFacts DEF Committed, Done
<1>12. RowsSound'
  <2>1. \A w \in table : /\ w.by \in Requests /\ request'[w.by].pc \in {"aim", "change", "done"}
                         /\ w \in RowsOf(w.by, PlanOf(w.by))
                         /\ PlanOf(w.by)' = PlanOf(w.by)
    BY <1>10 DEF ReplacementInv, RowsSound
  <2>2. request'[x.by].pc = "change" /\ PlanOf(x.by)' = PlanOf(r)
    BY <1>4, <1>8, <1>9, <1>10
  <2> QED BY <1>4, <1>11, <2>1, <2>2 DEF RowsSound
<1>13. Inserted'
  <2>1. ASSUME NEW k \in DOMAIN PlanOf(r), NEW n \in DOMAIN PlanOf(r)[k].rows, Past(r, k, n)'
        PROVE  RowAt(r, PlanOf(r), k, n) \in table'
    <3>1. n \in Nat
      BY <1>3, PlanShape DEF Shaped
    <3>2. Past(r, k, n) \/ (k = request[r].at /\ n = request[r].next)
      BY <1>3, <1>7, <1>8, <1>9, <2>1, <3>1 DEF Past
    <3>3. CASE Past(r, k, n)
      BY <1>1, <1>2, <3>3 DEF ReplacementInv, Inserted
    <3>4. CASE k = request[r].at /\ n = request[r].next
      BY <1>1, <1>6, <3>4
    <3> QED BY <3>2, <3>3, <3>4
  <2> QED BY <1>1, <1>9, <1>10, <2>1, InsertedElse
<1>14. AllOrNone'
  <2>1. \A w \in table' : Done(w.by)' => w \in table /\ Done(w.by) /\ PlanOf(w.by)' = PlanOf(w.by)
    BY <1>2, <1>4, <1>10, <1>11
  <2> QED BY <1>1, <2>1 DEF ReplacementInv, AllOrNone
<1>15. TakenTogether'
  <2>1. \A s \in Requests : \A w \in Taken(s) : w.by # r
    BY <1>2 DEF ReplacementInv, Sound, Committed, Done
  <2> QED BY <1>4, <1>10, <1>11, <2>1 DEF ReplacementInv, TakenTogether
<1>16. DeletedOnce'
  BY <1>10 DEF ReplacementInv, DeletedOnce
<1>17. KeysClash'
  BY <1>4, <1>5, <1>10, <1>11 DEF ReplacementInv, KeysClash
<1>18. OneHolder'
  <2>1. \A o \in PlanLists : HoldersOf(o)' = HoldersOf(o)
    BY <1>10 DEF HoldersOf
  <2> QED BY <2>1 DEF ReplacementInv, OneHolder
<1>19. HolderTakesAll'
  BY <1>10, <1>11 DEF ReplacementInv, HolderTakesAll
<1>20. OneOwner'
  BY <1>11 DEF ReplacementInv, OneOwner
<1>21. AllMet'
  BY <1>1, <1>10 DEF ReplacementInv, AllMet
<1>22. FoundOrMet'
  BY <1>1, <1>10, <1>11 DEF ReplacementInv, FoundOrMet
<1>23. MixedByMeeting'
  <2>1. ASSUME NEW v \in table, v.list = x.list, v.by # r
        PROVE  {v.by, r} \in met \/ v \in Taken(r)
    <3>1. v.by \in Requests /\ (UnderWay(v.by) \/ Done(v.by))
      BY TableFacts
    <3>2. CASE UnderWay(v.by)
      BY <1>2, <2>1, <3>1, <3>2 DEF ReplacementInv, AllMet
    <3>3. CASE Done(v.by)
      <4>1. v \in Taken(r) \/ {r, v.by} \in met
        BY <1>1, <1>4, <2>1, <3>3 DEF ReplacementInv, FoundOrMet, Committed, Done
      <4>2. {r, v.by} = {v.by, r}
        OBVIOUS
      <4> QED BY <4>1, <4>2
    <3> QED BY <3>1, <3>2, <3>3
  <2>2. \A v \in table : v.list = x.list /\ v.by # r =>
          ({v.by, r} \in met /\ {r, v.by} \in met) \/ v \in Taken(r)
    <3>1. \A v \in table : {v.by, r} = {r, v.by}
      OBVIOUS
    <3> QED BY <2>1, <3>1
  <2>3. ASSUME NEW v \in table', NEW w \in table', v.list = w.list, v.by # w.by
        PROVE  {v.by, w.by} \in met \/ v \in Taken(w.by) \/ w \in Taken(v.by)
    <3>1. CASE v \in table /\ w \in table
      BY <2>3, <3>1 DEF ReplacementInv, MixedByMeeting
    <3>2. CASE v = x /\ w \in table
      BY <1>4, <2>2, <2>3, <3>2
    <3>3. CASE w = x /\ v \in table
      BY <1>4, <2>2, <2>3, <3>3
    <3> QED BY <1>11, <2>3, <3>1, <3>2, <3>3
  <2> QED BY <1>1, <1>10, <1>11, <2>3 DEF MixedByMeeting
<1>24. Sound(r)'
  <2>1. PlanOf(r)' = PlanOf(r) /\ UnderWay(r)' /\ Taken(r)' = Taken(r)
    BY <1>2, <1>10
  <2>2. \A w \in Taken(r)' : Committed(w)'
    BY <1>2, <1>10, <2>1, RowOwner DEF Sound, RequestStates, Taken, Committed, Done
  <2> QED BY <1>1, <1>2, <1>3, <1>7, <1>8, <1>9, <2>1, <2>2 DEF Sound
<1>25. \A s \in Requests \ {r} : Sound(s)'
  <2>1. \A s \in Requests : Sound(s) /\ request[s].doomed \subseteq table'
    BY <1>1 DEF ReplacementInv, Sound
  <2> QED BY <1>9, <1>10, <2>1, OthersSound
<1> QED BY <1>1, <1>9, <1>12, <1>13, <1>14, <1>15, <1>16, <1>17, <1>18, <1>19, <1>20, <1>21, <1>22,
           <1>23, <1>24, <1>25 DEF ReplacementInv

\* Rows of lists of plans are those of requests that replace them.
LEMMA PlanOwner ==
  ASSUME ReplacementInv, NEW w \in table, w.list \in PlanLists
  PROVE  request[w.by].input.kind = "plan" /\ request[w.by].input.plan = w.list
<1>1. /\ request[w.by].input \in ValidInputs /\ PlanOf(w.by) \in Plans(request[w.by].input)
      /\ w \in RowsOf(w.by, PlanOf(w.by))
  BY TableFacts
<1>2. PICK k \in DOMAIN PlanOf(w.by) : w.list = PlanOf(w.by)[k].list
  BY <1>1, RowFacts
<1> QED BY <1>1, <1>2, PlanShape DEF Shaped

LEMMA CommitListsKeeps ==
  ASSUME ReplacementInv, NEW r \in Requests, CommitLists(r)
  PROVE  ReplacementInv'
<1> DEFINE q == [request[r] EXCEPT !.pc = "done", !.doomed = {}]
<1>0. PICK D : D = request[r].doomed
  OBVIOUS
<1>1. /\ request[r].pc = "change" /\ request[r].aim = {}
      /\ request[r].next \notin DOMAIN Group(r).rows
      /\ request[r].at + 1 \notin DOMAIN PlanOf(r)
      /\ Set(r, q) /\ table' = table \ D /\ met' = met
  BY <1>0 DEF CommitLists, Finished, PlanOf
<1>2. UnderWay(r) /\ ~Done(r) /\ request[r] \in RequestStates /\ Sound(r) /\ Taken(r) = D
  BY <1>0, <1>1 DEF ReplacementInv, UnderWay, Done, Taken
<1>3. /\ request[r].input \in ValidInputs /\ PlanOf(r) \in Plans(request[r].input)
      /\ request[r].at \in DOMAIN PlanOf(r) /\ request[r].next \in Nat
      /\ request[r].next # 0 /\ request[r].at \in Nat
  BY <1>2 DEF Sound, RequestStates
<1>4. /\ q \in RequestStates /\ q.pc = "done" /\ q.input = request[r].input
      /\ q.plan = request[r].plan /\ q.aim = {} /\ q.doomed = {}
  BY <1>1, <1>2 DEF RequestStates
<1> HIDE DEF q
<1>5. /\ request' \in [Requests -> RequestStates] /\ request'[r] = q
      /\ \A s \in Requests \ {r} : request'[s] = request[s]
  BY <1>1, <1>4, Becomes DEF ReplacementInv
<1>6. /\ Taken(r)' = {} /\ Done(r)' /\ ~UnderWay(r)'
      /\ \A s \in Requests : PlanOf(s)' = PlanOf(s)
      /\ \A s \in Requests \ {r} : /\ Taken(s)' = Taken(s)
                                   /\ Done(s)' <=> Done(s)
                                   /\ UnderWay(s)' <=> UnderWay(s)
                                   /\ Group(s)' = Group(s)
      /\ \A s \in Requests : request'[s].doomed \subseteq request[s].doomed
  BY <1>4, <1>5 DEF Taken, Done, PlanOf, UnderWay, Group
<1>7. \A w \in D : w \in table /\ w.by \in Requests /\ w.by # r /\ Committed(w)
  BY <1>0, <1>2, TableFacts DEF Sound, Committed, Done
<1>8. \A w \in table' : /\ w \in table /\ w \notin D /\ w.by \in Requests
                        /\ Committed(w)' => w.by = r \/ Committed(w)
  BY <1>1, <1>6, TableFacts DEF Committed, Done
<1>9. RowsSound'
  BY <1>4, <1>5, <1>6, <1>8 DEF ReplacementInv, RowsSound
<1>10. Inserted'
  BY <1>1, <1>5, <1>6, <1>7, InsertedElse DEF Committed, UnderWay
<1>11. RowsOf(r, PlanOf(r)) \subseteq table'
  <2>1. ASSUME NEW x \in RowsOf(r, PlanOf(r)) PROVE x \in table'
    <3>1. x.by = r
      BY RowFacts
    <3>2. PICK k \in DOMAIN PlanOf(r) : \E n \in DOMAIN PlanOf(r)[k].rows : x = RowAt(r, PlanOf(r), k, n)
      BY RowFacts
    <3>3. PICK n \in DOMAIN PlanOf(r)[k].rows : x = RowAt(r, PlanOf(r), k, n)
      BY <3>2
    <3>4. /\ \E m \in Nat : DOMAIN PlanOf(r) = 1 .. m
          /\ \E m \in Nat : DOMAIN PlanOf(r)[k].rows = 1 .. m
      BY <1>3, PlanShape DEF Shaped
    <3>5. k < request[r].at \/ k = request[r].at
      BY <1>1, <1>3, <3>4
    <3>6. k = request[r].at => n < request[r].next
      BY <1>1, <1>3, <3>4 DEF Group, PlanOf
    <3>7. x \in table
      BY <1>2, <3>3, <3>5, <3>6 DEF ReplacementInv, Inserted, Past
    <3> QED BY <1>1, <1>7, <3>1, <3>7
  <2> QED BY <2>1
<1>12. AllOrNone'
  <2>1. ASSUME NEW w \in table', Done(w.by)', NEW x \in RowsOf(w.by, PlanOf(w.by)'), x.list = w.list
        PROVE  x \in table'
    <3>1. CASE w.by = r
      BY <1>6, <1>11, <2>1, <3>1
    <3>2. CASE w.by # r
      <4>1. Done(w.by) /\ x \in RowsOf(w.by, PlanOf(w.by))
        BY <1>6, <1>8, <2>1, <3>2
      <4>2. x \in table /\ x.by = w.by
        BY <1>8, <2>1, <4>1, RowFacts DEF ReplacementInv, AllOrNone
      <4>3. x \in D => w \in D
        BY <1>2, <1>8, <2>1, <4>2 DEF ReplacementInv, TakenTogether
      <4> QED BY <1>1, <1>8, <4>2, <4>3
    <3> QED BY <3>1, <3>2
  <2> QED BY <2>1 DEF AllOrNone
<1>13. TakenTogether'
  BY <1>6, <1>8 DEF ReplacementInv, TakenTogether
<1>14. DeletedOnce'
  BY <1>6 DEF ReplacementInv, DeletedOnce
<1>15. KeysClash'
  <2>1. \A w \in table' : \A v \in table' : v \in request[w.by].doomed => v \in request'[w.by].doomed
    BY <1>0, <1>5, <1>8
  <2> QED BY <1>8, <2>1 DEF ReplacementInv, KeysClash
<1>16. \A o \in PlanLists : HoldersOf(o)' \subseteq HoldersOf(o) \ {r}
  BY <1>4, <1>5 DEF HoldersOf
<1>17. OneHolder'
  BY <1>16 DEF ReplacementInv, OneHolder
<1>18. ASSUME NEW w \in table, w.by = r, w.list \in PlanLists
       PROVE  r \in HoldersOf(w.list) /\ request[r].input.kind = "plan" /\ request[r].input.plan = w.list
  BY <1>1, <1>18, PlanOwner DEF HoldersOf
<1>19. HolderTakesAll'
  <2>1. ASSUME NEW s \in Requests, request'[s].pc = "change", request'[s].input.kind = "plan",
               NEW w \in table', w.list = request'[s].input.plan, Committed(w)'
        PROVE  w \in Taken(s)'
    <3>1. s # r /\ request'[s] = request[s]
      BY <1>4, <1>5, <2>1
    <3>2. s \in HoldersOf(w.list) /\ w.list \in PlanLists
      <4>1. UnderWay(s) /\ request[s].input.kind = "plan"
        BY <2>1, <3>1 DEF UnderWay
      <4> QED BY <2>1, <3>1, <4>1, PlanGroup DEF HoldersOf
    <3>3. w.by # r
      BY <1>8, <1>18, <2>1, <3>1, <3>2 DEF ReplacementInv, OneHolder
    <3> QED BY <1>6, <1>8, <2>1, <3>1, <3>3 DEF ReplacementInv, HolderTakesAll
  <2> QED BY <2>1 DEF HolderTakesAll
<1>20. OneOwner'
  <2>1. ASSUME NEW v \in table', NEW w \in table', v.list \in PlanLists, v.list = w.list,
               v.by = r, w.by # r, Committed(w)'
        PROVE  FALSE
    <3>1. Committed(w) /\ w \in table /\ w \notin D
      BY <1>8, <2>1
    <3>2. w \in Taken(r)
      BY <1>1, <1>8, <1>18, <2>1, <3>1 DEF ReplacementInv, HolderTakesAll
    <3> QED BY <1>2, <3>1, <3>2
  <2>2. ASSUME NEW v \in table', NEW w \in table', v.list \in PlanLists, v.list = w.list,
               Committed(v)', Committed(w)'
        PROVE  v.by = w.by
    <3>1. CASE v.by # r /\ w.by # r
      BY <1>8, <2>2, <3>1 DEF ReplacementInv, OneOwner
    <3> QED BY <2>1, <2>2, <3>1
  <2> QED BY <2>2 DEF OneOwner
<1>21. AllMet'
  BY <1>1, <1>6 DEF ReplacementInv, AllMet
<1>22. FoundOrMet'
  <2>1. ASSUME NEW s \in Requests, request'[s].pc = "change",
               NEW w \in table', w.list = Group(s)'.list, Committed(w)'
        PROVE  w \in Taken(s)' \/ {s, w.by} \in met
    <3>1. s # r /\ request'[s] = request[s] /\ UnderWay(s)
      BY <1>4, <1>5, <2>1 DEF UnderWay
    <3>2. CASE w.by = r
      BY <1>2, <3>1, <3>2 DEF ReplacementInv, AllMet
    <3>3. CASE w.by # r
      BY <1>6, <1>8, <2>1, <3>1, <3>3 DEF ReplacementInv, FoundOrMet
    <3> QED BY <3>2, <3>3
  <2> QED BY <1>1, <2>1 DEF FoundOrMet
<1>23. MixedByMeeting'
  <2>1. \A v, w \in table' : v \in Taken(w.by) => v \in Taken(w.by)'
    BY <1>2, <1>6, <1>8
  <2> QED BY <1>1, <1>8, <2>1 DEF ReplacementInv, MixedByMeeting
<1>24. Sound(r)'
  BY <1>3, <1>4, <1>5, <1>6 DEF Sound
<1>25. \A s \in Requests \ {r} : Sound(s)'
  <2>1. \A s \in Requests \ {r} : Sound(s) /\ request[s].doomed \subseteq table'
    BY <1>0, <1>1 DEF ReplacementInv, Sound, DeletedOnce
  <2> QED BY <1>5, <1>6, <2>1, OthersSound
<1> QED BY <1>1, <1>5, <1>9, <1>10, <1>12, <1>13, <1>14, <1>15, <1>17, <1>19, <1>20, <1>21, <1>22,
           <1>23, <1>24, <1>25 DEF ReplacementInv

LEMMA RollBackKeeps ==
  ASSUME ReplacementInv, NEW r \in Requests, UnderWay(r), RollBack(r)
  PROVE  ReplacementInv'
<1> DEFINE q == [Idle EXCEPT !.pc = "failed", !.input = request[r].input]
<1>1. /\ Set(r, q) /\ met' = met
      /\ \A w : w \in table' <=> w \in table /\ w.by # r
  BY DEF RollBack
<1>2. ~Done(r) /\ request[r] \in RequestStates
  BY DEF ReplacementInv, UnderWay, Done
<1>3. q.pc = "failed" /\ q.aim = {} /\ q.doomed = {}
  BY DEF Idle
<1>4. q \in RequestStates
  BY <1>2 DEF RequestStates, Idle
<1> HIDE DEF q
<1>5. /\ request' \in [Requests -> RequestStates] /\ request'[r] = q
      /\ \A s \in Requests \ {r} : request'[s] = request[s]
  BY <1>1, <1>4, Becomes DEF ReplacementInv
<1>6. /\ Taken(r)' = {} /\ ~Done(r)' /\ ~UnderWay(r)'
      /\ \A s \in Requests \ {r} : /\ PlanOf(s)' = PlanOf(s) /\ Taken(s)' = Taken(s)
                                   /\ Done(s)' <=> Done(s)
                                   /\ UnderWay(s)' <=> UnderWay(s)
                                   /\ Group(s)' = Group(s)
  BY <1>3, <1>5 DEF Taken, Done, PlanOf, UnderWay, Group
<1>7. \A w \in table' : /\ w \in table /\ w.by \in Requests \ {r}
                        /\ Committed(w)' => Committed(w)
  BY <1>1, <1>6, TableFacts DEF Committed, Done
<1>8. RowsSound'
  BY <1>5, <1>6, <1>7 DEF ReplacementInv, RowsSound
<1>9. Inserted'
  BY <1>1, <1>5, <1>6, InsertedElse
<1>10. AllOrNone'
  <2>1. ASSUME NEW w \in table', Done(w.by)', NEW x \in RowsOf(w.by, PlanOf(w.by)'), x.list = w.list
        PROVE  x \in table'
    <3>1. w \in table /\ w.by \in Requests \ {r} /\ Done(w.by) /\ x \in RowsOf(w.by, PlanOf(w.by))
      BY <1>6, <1>7, <2>1
    <3>2. x \in table /\ x.by = w.by
      BY <2>1, <3>1, RowFacts DEF ReplacementInv, AllOrNone
    <3> QED BY <1>1, <3>1, <3>2
  <2> QED BY <2>1 DEF AllOrNone
<1>11. TakenTogether'
  BY <1>6, <1>7 DEF ReplacementInv, TakenTogether
<1>12. DeletedOnce'
  BY <1>3, <1>5 DEF ReplacementInv, DeletedOnce
<1>13. KeysClash'
  BY <1>5, <1>7 DEF ReplacementInv, KeysClash
<1>14. OneHolder'
  <2>1. \A o \in PlanLists : HoldersOf(o)' \subseteq HoldersOf(o)
    BY <1>3, <1>5 DEF HoldersOf
  <2> QED BY <2>1 DEF ReplacementInv, OneHolder
<1>15. HolderTakesAll'
  BY <1>3, <1>5, <1>6, <1>7 DEF ReplacementInv, HolderTakesAll
<1>16. OneOwner'
  BY <1>7 DEF ReplacementInv, OneOwner
<1>17. AllMet'
  BY <1>1, <1>6 DEF ReplacementInv, AllMet
<1>18. FoundOrMet'
  BY <1>1, <1>3, <1>5, <1>6, <1>7 DEF ReplacementInv, FoundOrMet
<1>19. MixedByMeeting'
  BY <1>1, <1>6, <1>7 DEF ReplacementInv, MixedByMeeting
<1>20. Sound(r)'
  BY <1>3, <1>4, <1>5, <1>6 DEF Sound
<1>21. \A s \in Requests \ {r} : Sound(s)'
  <2>1. ASSUME NEW s \in Requests \ {r} PROVE Sound(s) /\ request[s].doomed \subseteq table'
    <3>1. Sound(s) /\ \A w \in request[s].doomed : w \in table /\ Committed(w)
      BY DEF ReplacementInv, Sound, Taken
    <3> QED BY <1>1, <1>2, <3>1 DEF Committed, Done
  <2> QED BY <1>2, <1>5, <1>6, <2>1, OthersSound
<1> QED BY <1>1, <1>5, <1>8, <1>9, <1>10, <1>11, <1>12, <1>13, <1>14, <1>15, <1>16, <1>17, <1>18,
           <1>19, <1>20, <1>21 DEF ReplacementInv

----------------------------------------------------------------------------
(* The invariant, and what it says.                                        *)

LEMMA ReplacementStep ==
  ASSUME ReplacementInv, ReplacementNext
  PROVE  ReplacementInv'
<1>1. PICK r \in Requests : Begin(r) \/ Refuse(r) \/ Replace(r) \/ Lost(r)
  BY DEF ReplacementNext
<1>2. CASE Begin(r)
  BY <1>2, BeginKeeps
<1>3. CASE Refuse(r)
  BY <1>3, RefuseKeeps
<1>4. CASE HoldPlan(r)
  BY <1>4, HoldPlanKeeps
<1>5. CASE Aim(r)
  BY <1>5, AimKeeps
<1>6. ASSUME NEW w \in request[r].aim, DeleteRow(r, w) PROVE ReplacementInv'
  BY <1>6, DeleteRowKeeps
<1>7. CASE InsertRow(r)
  BY <1>7, InsertRowKeeps
<1>8. CASE NextGroup(r)
  BY <1>8, NextGroupKeeps
<1>9. CASE CommitLists(r)
  BY <1>9, CommitListsKeeps
<1>10. CASE UniqueViolation(r) \/ Deadlocked(r) \/ Lost(r)
  <2>1. UnderWay(r) /\ RollBack(r)
    BY <1>10 DEF UniqueViolation, Deadlocked, Lost, Inserting, UnderWay
  <2> QED BY <2>1, RollBackKeeps
<1>11. CASE Replace(r)
  BY <1>4, <1>5, <1>6, <1>7, <1>8, <1>9, <1>10, <1>11 DEF Replace
<1> QED BY <1>1, <1>2, <1>3, <1>10, <1>11

LEMMA ReplacementStart ==
  ASSUME ReplacementInit
  PROVE  ReplacementInv
<1>1. PICK input \in [Earlier -> {x \in Inputs : Valid(x)}] :
        \E plan \in [Earlier -> UNION {Plans(input[r]) : r \in Earlier}] :
          /\ \A r \in Earlier : plan[r] \in Plans(input[r])
          /\ request = [r \in Requests |->
                          IF r \in Earlier
                          THEN [Idle EXCEPT !.pc = "done", !.input = input[r], !.plan = plan[r]]
                          ELSE Idle]
          /\ table = UNION {RowsOf(r, plan[r]) : r \in Earlier}
  BY DEF ReplacementInit
<1>2. PICK plan \in [Earlier -> UNION {Plans(input[r]) : r \in Earlier}] :
          /\ \A r \in Earlier : plan[r] \in Plans(input[r])
          /\ request = [r \in Requests |->
                          IF r \in Earlier
                          THEN [Idle EXCEPT !.pc = "done", !.input = input[r], !.plan = plan[r]]
                          ELSE Idle]
          /\ table = UNION {RowsOf(r, plan[r]) : r \in Earlier}
  BY <1>1
<1>3. /\ \A v, w \in table : v.list = w.list => v.by = w.by
      /\ met = {} /\ Earlier \subseteq Requests
  BY ReplacementAssumption DEF ReplacementInit
<1>4. ASSUME NEW r \in Requests
      PROVE  /\ request[r] \in RequestStates
             /\ request[r].aim = {} /\ request[r].doomed = {}
             /\ r \in Earlier => /\ request[r].pc = "done" /\ request[r].input = input[r]
                                 /\ request[r].plan = plan[r]
                                 /\ input[r] \in ValidInputs /\ plan[r] \in Plans(input[r])
             /\ r \notin Earlier => request[r].pc = "idle"
  <2>1. CASE r \in Earlier
    <3>1. input[r] \in ValidInputs /\ plan[r] \in Plans(input[r])
      BY <1>2, <2>1 DEF ValidInputs
    <3>2. plan[r] \in AllPlans /\ input[r] \in Inputs
      BY <3>1 DEF AllPlans, ValidInputs
    <3> DEFINE q == [Idle EXCEPT !.pc = "done", !.input = input[r], !.plan = plan[r]]
    <3>3. request[r] = q
      BY <1>2, <2>1
    <3>4. /\ q.pc = "done" /\ q.input = input[r] /\ q.plan = plan[r]
          /\ q.aim = {} /\ q.doomed = {}
      BY DEF Idle
    <3>5. q \in RequestStates
      BY <3>2 DEF Idle, RequestStates
    <3> HIDE DEF q
    <3> QED BY <2>1, <3>1, <3>3, <3>4, <3>5
  <2>2. CASE r \notin Earlier
    <3>1. request[r] = Idle
      BY <1>2, <2>2
    <3> QED BY <2>2, <3>1 DEF Idle, RequestStates
  <2> QED BY <2>1, <2>2
<1>5. ASSUME NEW w \in table
      PROVE  w.by \in Earlier /\ w \in RowsOf(w.by, plan[w.by])
  <2>1. PICK r \in Earlier : w \in RowsOf(r, plan[r])
    BY <1>2
  <2>2. w.by = r
    BY <2>1, RowFacts
  <2> QED BY <2>1, <2>2
<1>6. /\ \A r \in Requests : ~UnderWay(r) /\ Taken(r) = {} /\ request[r].pc # "change"
      /\ \A r \in Earlier : PlanOf(r) = plan[r]
      /\ \A o : HoldersOf(o) = {}
  <2>1. \A r \in Requests : request[r].pc \notin {"hold", "aim", "change"}
    <3>1. \A r \in Requests : request[r].pc = "done" \/ request[r].pc = "idle"
      BY <1>4
    <3> QED BY <3>1
  <2>2. \A r \in Requests : ~UnderWay(r) /\ Taken(r) = {} /\ request[r].pc # "change"
    BY <1>4, <2>1 DEF UnderWay, Taken
  <2>3. \A o : HoldersOf(o) = {}
    BY <2>1 DEF HoldersOf
  <2>4. \A r \in Earlier : PlanOf(r) = plan[r]
    BY <1>3, <1>4 DEF PlanOf
  <2> QED BY <2>2, <2>3, <2>4
<1>7. request \in [Requests -> RequestStates]
  BY <1>2, <1>4
<1>8. \A r \in Requests : Sound(r)
  BY <1>4, <1>6 DEF Sound, Done
<1>9. RowsSound
  BY <1>3, <1>4, <1>5, <1>6 DEF RowsSound
<1>10. AllOrNone
  <2>1. \A r \in Earlier : RowsOf(r, plan[r]) \subseteq table
    BY <1>2
  <2> QED BY <1>5, <1>6, <2>1 DEF AllOrNone
<1>11. KeysClash
  <2>1. ASSUME NEW v \in table, NEW w \in table, v.list = w.list, v.key = w.key
        PROVE  v = w
    <3>1. v.by = w.by /\ w.by \in Earlier
      BY <1>3, <1>5, <2>1
    <3>2. v \in RowsOf(w.by, plan[w.by]) /\ w \in RowsOf(w.by, plan[w.by])
      BY <1>5, <3>1
    <3> QED BY <1>3, <1>4, <2>1, <3>1, <3>2, KeyTellsRow
  <2> QED BY <2>1 DEF KeysClash
<1>12. Inserted /\ AllMet /\ OneHolder
  BY <1>6 DEF Inserted, AllMet, OneHolder
<1>13. TakenTogether /\ HolderTakesAll /\ FoundOrMet
  BY <1>6 DEF TakenTogether, HolderTakesAll, FoundOrMet
<1>14. DeletedOnce
  BY <1>4 DEF DeletedOnce
<1>15. OneOwner /\ MixedByMeeting
  BY <1>3 DEF OneOwner, MixedByMeeting
<1> QED BY <1>3, <1>7, <1>8, <1>9, <1>10, <1>11, <1>12, <1>13, <1>14, <1>15 DEF ReplacementInv

\* However many requests replace lists at once, and whichever fail: who has deleted
\* which rows, what a request has inserted, and which requests have met.
THEOREM ReplacementInvariant == ReplacementSpec => []ReplacementInv
<1>1. ReplacementInit => ReplacementInv
  BY ReplacementStart
<1>2. ReplacementInv /\ [ReplacementNext]_replacementVars => ReplacementInv'
  <2>1. CASE ReplacementNext
    BY <2>1, ReplacementStep
  <2>2. ASSUME ReplacementInv, UNCHANGED replacementVars PROVE ReplacementInv'
    <3>1. request' = request /\ table' = table /\ met' = met
      BY <2>2 DEF replacementVars
    <3>2. (\A r \in Requests : Sound(r))' /\ RowsSound' /\ Inserted'
      BY <2>2, <3>1 DEF ReplacementInv, Sound, RowsSound, Inserted, Taken, PlanOf, Past,
                        UnderWay, Done, Committed
    <3>3. AllOrNone' /\ TakenTogether' /\ DeletedOnce' /\ KeysClash'
      BY <2>2, <3>1 DEF ReplacementInv, AllOrNone, TakenTogether, DeletedOnce, KeysClash,
                        Taken, PlanOf, Done
    <3>4. OneHolder' /\ HolderTakesAll' /\ OneOwner'
      BY <2>2, <3>1 DEF ReplacementInv, OneHolder, HoldersOf, HolderTakesAll, OneOwner,
                        Taken, Committed
    <3>5. AllMet' /\ FoundOrMet' /\ MixedByMeeting'
      BY <2>2, <3>1 DEF ReplacementInv, AllMet, FoundOrMet, MixedByMeeting, UnderWay, Group,
                        Taken, Committed
    <3> QED BY <2>2, <3>1, <3>2, <3>3, <3>4, <3>5 DEF ReplacementInv
  <2> QED BY <2>1, <2>2
<1> QED BY <1>1, <1>2, PTL DEF ReplacementSpec

\* Every request, row and list has its type.
THEOREM ReplacementTypes == ReplacementSpec => []ReplacementTypeOK
<1>1. ASSUME ReplacementInv PROVE ReplacementTypeOK
  <2>1. ASSUME NEW r \in Requests
        PROVE  /\ request[r].pc \in {"idle", "hold", "aim", "change", "done", "failed"}
               /\ request[r].input \in Inputs \cup {NoInput}
               /\ UnderWay(r) \/ request[r].pc = "done"
                    => request[r].plan \in Plans(request[r].input)
               /\ UnderWay(r) => request[r].at \in DOMAIN request[r].plan /\ request[r].next \in Nat
               /\ request[r].aim = {} \/ request[r].pc = "change"
               /\ request[r].doomed \subseteq table
    BY <1>1 DEF ReplacementInv, Sound, RequestStates, PlanOf, Done
  <2>2. ASSUME NEW w \in table PROVE w.by \in Requests /\ w.list \in Lists
    <3>1. /\ w.by \in Requests
          /\ request[w.by].input \in ValidInputs /\ PlanOf(w.by) \in Plans(request[w.by].input)
          /\ w \in RowsOf(w.by, PlanOf(w.by))
      BY <1>1, TableFacts
    <3>2. PICK k \in DOMAIN PlanOf(w.by) : w.list = PlanOf(w.by)[k].list
      BY <3>1, RowFacts
    <3> QED BY <3>1, <3>2, PlanShape DEF Shaped
  <2> QED BY <1>1, <2>1, <2>2 DEF ReplacementTypeOK, ReplacementInv, Lists
<1> QED BY <1>1, ReplacementInvariant, PTL

\* What r left in list l is group g of its plan.
LeftAs(r, l, g) ==
  /\ g.list = l
  /\ \A v \in Shown(l) : v.by = r =>
       \E n \in DOMAIN g.rows : v.key = g.rows[n].key /\ v.says = g.rows[n].says
  /\ \A n \in DOMAIN g.rows : \E v \in Shown(l) :
       v.by = r /\ v.key = g.rows[n].key /\ v.says = g.rows[n].says

\* What a request that is done left in a list it left as it planned it.
LEMMA ShownGroup ==
  ASSUME ReplacementInv, NEW l, NEW w \in Shown(l)
  PROVE  /\ w.by \in Requests
         /\ request[w.by].input \in ValidInputs
         /\ PlanOf(w.by) \in Plans(request[w.by].input)
         /\ \E k \in DOMAIN PlanOf(w.by) : LeftAs(w.by, l, PlanOf(w.by)[k])
<1>1. w \in table /\ w.list = l /\ Done(w.by)
  BY DEF Shown, Committed, Done
<1>2. PICK r : r = w.by
  OBVIOUS
<1>3. PICK p : p = PlanOf(r)
  OBVIOUS
<1>4. /\ r \in Requests /\ request[r].input \in ValidInputs /\ p \in Plans(request[r].input)
      /\ w \in RowsOf(r, p)
  BY <1>1, <1>2, <1>3, TableFacts
<1>5. PICK k \in DOMAIN p : w.list = p[k].list
  BY <1>4, RowFacts
<1>6. ASSUME NEW v \in Shown(l), v.by = r
      PROVE  \E n \in DOMAIN p[k].rows : v.key = p[k].rows[n].key /\ v.says = p[k].rows[n].says
  <2>1. v \in table /\ v.list = l /\ v \in RowsOf(r, p)
    BY <1>3, <1>6, TableFacts DEF Shown
  <2>2. PICK j \in DOMAIN p : \E n \in DOMAIN p[j].rows :
          v.list = p[j].list /\ v.key = p[j].rows[n].key /\ v.says = p[j].rows[n].says
    BY <2>1, RowFacts
  <2>3. j = k
    BY <1>1, <1>4, <1>5, <2>1, <2>2, PlanShape DEF Shaped
  <2> QED BY <2>2, <2>3
<1>7. ASSUME NEW n \in DOMAIN p[k].rows
      PROVE  \E v \in Shown(l) : v.by = r /\ v.key = p[k].rows[n].key /\ v.says = p[k].rows[n].says
  <2>1. PICK x : x = RowAt(r, p, k, n)
    OBVIOUS
  <2>2. /\ x.list = p[k].list /\ x.by = r
        /\ x.key = p[k].rows[n].key /\ x.says = p[k].rows[n].says
    BY <2>1 DEF RowAt
  <2>3. x \in RowsOf(r, p)
    BY <2>1 DEF RowsOf
  <2>4. x \in table
    BY <1>1, <1>2, <1>3, <1>5, <2>2, <2>3 DEF ReplacementInv, AllOrNone
  <2> QED BY <1>1, <1>2, <1>5, <2>2, <2>4 DEF Shown, Committed, Done
<1> QED BY <1>1, <1>2, <1>3, <1>4, <1>5, <1>6, <1>7 DEF LeftAs

\* What a request that is done left in a day.
LEMMA ShownDay ==
  ASSUME ReplacementInv, NEW d \in Days, NEW w \in Shown(d)
  PROVE  /\ EntriesBy(w) \in Seq(Ranges) /\ ValidHours(EntriesBy(w))
         /\ IsFiniteSet(PlacesOf(EntriesBy(w), d))
         /\ \E f \in Ordered(EntriesBy(w), d) :
              /\ \A v \in Shown(d) : v.by = w.by =>
                   v.key \in DOMAIN f /\ v.says = EntriesBy(w)[f[v.key]]
              /\ \A n \in DOMAIN f : \E v \in Shown(d) :
                   v.by = w.by /\ v.key = n /\ v.says = EntriesBy(w)[f[n]]
<1> DEFINE input == request[w.by].input
           p == PlanOf(w.by)
           E == EntriesBy(w)
<1>1. /\ input \in ValidInputs /\ p \in Plans(input)
      /\ \E k \in DOMAIN p : LeftAs(w.by, d, p[k])
  BY ShownGroup
<1>2. E = input.entries
  BY DEF EntriesBy
<1> HIDE DEF input, p, E
<1>3. PICK k \in DOMAIN p :
        /\ p[k].list = d
        /\ \A v \in Shown(d) : v.by = w.by =>
             \E n \in DOMAIN p[k].rows : v.key = p[k].rows[n].key /\ v.says = p[k].rows[n].says
        /\ \A n \in DOMAIN p[k].rows : \E v \in Shown(d) :
             v.by = w.by /\ v.key = p[k].rows[n].key /\ v.says = p[k].rows[n].says
  BY <1>1 DEF LeftAs
<1>4. input.kind = "hours"
  BY <1>1, <1>3, PlanShape DEF Shaped
<1>5. E \in Seq(Ranges) /\ ValidHours(E) /\ IsFiniteSet(PlacesOf(E, d))
  BY <1>1, <1>2, <1>4, ValidFacts, EntryFacts
<1>6. PICK days \in FirstSeen(E) :
        \A j \in DOMAIN p : \E f \in Ordered(E, days[j]) : p[j] = DayGroup(E, days[j], f)
  BY <1>1, <1>2, <1>4, HoursShape
<1>7. PICK f \in Ordered(E, days[k]) : p[k] = DayGroup(E, days[k], f)
  BY <1>6
<1>8. /\ days[k] = d /\ DOMAIN p[k].rows = DOMAIN f
      /\ \A n \in DOMAIN f : p[k].rows[n].key = n /\ p[k].rows[n].says = E[f[n]]
  BY <1>3, <1>7 DEF DayGroup
<1>9. \A v \in Shown(d) : v.by = w.by => v.key \in DOMAIN f /\ v.says = E[f[v.key]]
  BY <1>3, <1>8
<1>10. \A n \in DOMAIN f : \E v \in Shown(d) : v.by = w.by /\ v.key = n /\ v.says = E[f[n]]
  BY <1>3, <1>8
<1> QED BY <1>5, <1>7, <1>8, <1>9, <1>10 DEF E

\* Two requests that are done left nothing in one day.
LEMMA OneRequestADay ==
  ASSUME ReplacementInv, NEW d \in Days, NEW v \in Shown(d), NEW w \in Shown(d)
  PROVE  v.by = w.by
<1>1. ASSUME NEW x \in Shown(d)
      PROVE  \E y \in Shown(d) : y.by = x.by /\ y.key = 1
  <2>1. PICK f \in Ordered(EntriesBy(x), d) :
          /\ \A y \in Shown(d) : y.by = x.by =>
               y.key \in DOMAIN f /\ y.says = EntriesBy(x)[f[y.key]]
          /\ \A n \in DOMAIN f : \E y \in Shown(d) :
               y.by = x.by /\ y.key = n /\ y.says = EntriesBy(x)[f[n]]
    BY ShownDay
  <2>2. /\ Cardinality(PlacesOf(EntriesBy(x), d)) \in Nat
        /\ DOMAIN f = 1 .. Cardinality(PlacesOf(EntriesBy(x), d))
    BY <2>1, ShownDay, OrderFacts DEF Ordered
  <2>3. 1 \in DOMAIN f
    BY <2>1, <2>2
  <2> QED BY <2>1, <2>3
<1>2. PICK x \in Shown(d) : x.by = v.by /\ x.key = 1
  BY <1>1
<1>3. PICK y \in Shown(d) : y.by = w.by /\ y.key = 1
  BY <1>1
<1>4. \A u \in Shown(d) : /\ u \in table /\ u.list = d /\ u.by \in Requests
                          /\ request[u.by].doomed = {}
  BY TableFacts DEF Shown, Committed, ReplacementInv, Sound
<1>5. x = y
  BY <1>2, <1>3, <1>4 DEF ReplacementInv, KeysClash
<1> QED BY <1>2, <1>3, <1>5

\* A day shows its ranges in their order, as one request asked for them.
LEMMA DayIsWhole ==
  ASSUME ReplacementInv, NEW d \in Days, NEW w \in Shown(d)
  PROVE  /\ \A v \in Shown(d) :
              /\ v.by = w.by
              /\ v.key < w.key =>
                   /\ v.says.open <= w.says.open
                   /\ ~v.says.closed /\ ~w.says.closed => v.says.close <= w.says.open
         /\ {v.key : v \in Shown(d)} = 1 .. Cardinality(PlacesOf(EntriesBy(w), d))
         /\ {v.says : v \in Shown(d)} = {EntriesBy(w)[i] : i \in PlacesOf(EntriesBy(w), d)}
<1>1. \A v \in Shown(d) : v.by = w.by
  BY OneRequestADay
<1> DEFINE E == EntriesBy(w)
<1>2. /\ E \in Seq(Ranges) /\ ValidHours(E) /\ IsFiniteSet(PlacesOf(E, d))
      /\ \E f \in Ordered(E, d) :
           /\ \A v \in Shown(d) : v.by = w.by => v.key \in DOMAIN f /\ v.says = E[f[v.key]]
           /\ \A n \in DOMAIN f : \E v \in Shown(d) :
                v.by = w.by /\ v.key = n /\ v.says = E[f[n]]
  BY ShownDay
<1> HIDE DEF E
<1>3. PICK f \in Ordered(E, d) :
        /\ \A v \in Shown(d) : v.key \in DOMAIN f /\ v.says = E[f[v.key]]
        /\ \A n \in DOMAIN f : \E v \in Shown(d) : v.key = n /\ v.says = E[f[n]]
  BY <1>1, <1>2
<1>4. /\ DOMAIN f = 1 .. Cardinality(PlacesOf(E, d))
      /\ \A n \in DOMAIN f : f[n] \in PlacesOf(E, d)
      /\ \A i \in PlacesOf(E, d) : \E n \in DOMAIN f : f[n] = i
  <2>1. f \in Orders(PlacesOf(E, d))
    BY <1>3 DEF Ordered
  <2> QED BY <1>2, <2>1, OrderFacts
<1>5. \A i \in PlacesOf(E, d) :
        /\ i \in DOMAIN E /\ i \in Nat /\ E[i].day = d
        /\ E[i].open \in Nat /\ E[i].close \in Nat
  BY <1>2, EntryFacts DEF PlacesOf, Ranges
<1>6. {v.key : v \in Shown(d)} = DOMAIN f
  BY <1>3
<1>7. {v.says : v \in Shown(d)} = {E[i] : i \in PlacesOf(E, d)}
  <2>1. \A v \in Shown(d) : \E i \in PlacesOf(E, d) : v.says = E[i]
    BY <1>3, <1>4
  <2>2. \A i \in PlacesOf(E, d) : \E v \in Shown(d) : v.says = E[i]
    BY <1>3, <1>4
  <2> QED BY <2>1, <2>2
<1>8. ASSUME NEW v \in Shown(d), v.key < w.key
      PROVE  /\ v.says.open <= w.says.open
             /\ ~v.says.closed /\ ~w.says.closed => v.says.close <= w.says.open
  <2>1. PICK i \in PlacesOf(E, d), j \in PlacesOf(E, d) :
          v.says = E[i] /\ w.says = E[j] /\ Before(E, i, j)
    BY <1>3, <1>4, <1>8 DEF Ordered
  <2>2. E[i].open <= E[j].open /\ i # j
    BY <1>5, <2>1 DEF Before
  <2>3. ASSUME ~E[i].closed, ~E[j].closed PROVE E[i].close <= E[j].open
    <3>1. ~Overlap(E[i], E[j])
      <4>1. CASE i < j
        BY <1>2, <1>5, <2>3, <4>1 DEF ValidHours
      <4>2. CASE j < i
        <5>1. ~Overlap(E[j], E[i])
          BY <1>2, <1>5, <2>3, <4>2 DEF ValidHours
        <5> QED BY <5>1 DEF Overlap
      <4> QED BY <1>5, <2>2, <4>1, <4>2
    <3>2. E[j].open < E[j].close
      BY <1>2, <1>5, <2>3 DEF ValidHours
    <3> QED BY <1>5, <2>2, <3>1, <3>2 DEF Overlap
  <2> QED BY <2>1, <2>2, <2>3
<1> QED BY <1>1, <1>4, <1>6, <1>7, <1>8 DEF E

\* What a request that is done left in a set is what it asked for.
LEMMA ShownSet ==
  ASSUME ReplacementInv, NEW l \in Services \cup PlanLists, NEW w \in Shown(l)
  PROVE  {v.key : v \in {x \in Shown(l) : x.by = w.by}}
           = IF l \in Services THEN request[w.by].input.professionals
                               ELSE request[w.by].input.services
<1> DEFINE input == request[w.by].input
           p == PlanOf(w.by)
           S == IF l \in Services THEN input.professionals ELSE input.services
<1>1. /\ input \in ValidInputs /\ p \in Plans(input)
      /\ \E k \in DOMAIN p : LeftAs(w.by, l, p[k])
  BY ShownGroup
<1> HIDE DEF input, p
<1>2. PICK k \in DOMAIN p :
        /\ p[k].list = l
        /\ \A v \in Shown(l) : v.by = w.by =>
             \E n \in DOMAIN p[k].rows : v.key = p[k].rows[n].key
        /\ \A n \in DOMAIN p[k].rows : \E v \in Shown(l) :
             v.by = w.by /\ v.key = p[k].rows[n].key
  BY <1>1 DEF LeftAs
<1>3. /\ l \in Services => input.kind = "staff"
      /\ l \notin Services => input.kind = "plan"
  BY <1>1, <1>2, PlanShape DEF Shaped
<1>4. IsFiniteSet(S) /\ \E m : p[k] \in SetGroups(m, S)
  <2>1. CASE l \in Services
    BY <1>1, <1>3, <2>1, StaffShape, ValidFacts
  <2>2. CASE l \notin Services
    BY <1>1, <1>3, <2>2, ServiceShape, ValidFacts
  <2> QED BY <2>1, <2>2
<1> HIDE DEF S
<1>5. {p[k].rows[n].key : n \in DOMAIN p[k].rows} = S
  BY <1>4, SetShape
<1>6. {v.key : v \in {x \in Shown(l) : x.by = w.by}} = S
  BY <1>2, <1>5
<1> QED BY <1>6 DEF S, input

\* A day shows the ranges of one request, all of them, in order and apart; a plan
\* includes the services of one request, all of them: for any number of requests.
THEOREM ListsWhole == ReplacementSpec => []ListsAreWhole
<1>1. ASSUME ReplacementInv PROVE HoursAreWhole
  <2>1. ASSUME NEW d \in Days, NEW v \in Shown(d), NEW w \in Shown(d)
        PROVE  /\ v.by = w.by
               /\ v.key < w.key =>
                    /\ v.says.open <= w.says.open
                    /\ ~v.says.closed /\ ~w.says.closed => v.says.close <= w.says.open
    BY <1>1, DayIsWhole
  <2>2. ASSUME NEW d \in Days, NEW w \in Shown(d)
        PROVE  /\ {v.key : v \in Shown(d)} = 1 .. Cardinality(PlacesOf(EntriesBy(w), d))
               /\ {v.says : v \in Shown(d)} = {EntriesBy(w)[i] : i \in PlacesOf(EntriesBy(w), d)}
    BY <1>1, DayIsWhole
  <2> QED BY <2>1, <2>2 DEF HoursAreWhole
<1>2. ASSUME ReplacementInv PROVE PlansAreWhole
  <2>1. ASSUME NEW o \in PlanLists, NEW w \in Shown(o)
        PROVE  /\ \A v \in Shown(o) : v.by = w.by
               /\ {v.key : v \in Shown(o)} = request[w.by].input.services
    <3>1. \A v \in Shown(o) : v.by = w.by
      BY <1>2 DEF ReplacementInv, OneOwner, Shown
    <3>2. {x \in Shown(o) : x.by = w.by} = Shown(o)
      BY <3>1
    <3>3. o \notin Services
      BY ReplacementAssumption
    <3>4. {v.key : v \in {x \in Shown(o) : x.by = w.by}} = request[w.by].input.services
      BY <1>2, <3>3, ShownSet
    <3> QED BY <3>1, <3>2, <3>4
  <2> QED BY <2>1 DEF PlansAreWhole
<1> QED BY <1>1, <1>2, ReplacementInvariant, PTL DEF ListsAreWhole

\* What a request leaves of the professionals of a service is all there, next to what
\* was left by requests that it met and by no other: for any number of requests.
THEOREM StaffMixed == ReplacementSpec => []StaffMixedOnlyByMeeting
<1>1. ASSUME ReplacementInv PROVE StaffMixedOnlyByMeeting
  <2>1. ASSUME NEW s \in Services, NEW w \in Shown(s)
        PROVE  {v.key : v \in {x \in Shown(s) : x.by = w.by}} = request[w.by].input.professionals
    BY <1>1, <2>1, ShownSet
  <2>2. ASSUME NEW s \in Services, NEW w \in Shown(s), NEW v \in Shown(s)
        PROVE  v.by = w.by \/ {v.by, w.by} \in met
    <3>1. /\ v \in table /\ w \in table /\ v.list = w.list
          /\ Done(v.by) /\ Done(w.by) /\ v.by \in Requests /\ w.by \in Requests
      BY <1>1, TableFacts DEF Shown, Committed, Done
    <3>2. Taken(v.by) = {} /\ Taken(w.by) = {}
      BY <1>1, <3>1 DEF ReplacementInv, Sound, Taken, Done
    <3> QED BY <1>1, <3>1, <3>2 DEF ReplacementInv, MixedByMeeting
  <2> QED BY <2>1, <2>2 DEF StaffMixedOnlyByMeeting
<1> QED BY <1>1, ReplacementInvariant, PTL
=============================================================================
