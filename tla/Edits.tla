-------------------------------- MODULE Edits --------------------------------
(***************************************************************************)
(* The rows of services, businesses, professionals and membership plans:    *)
(* created, edited, connected to WhatsApp and deleted (softly) by           *)
(* concurrent requests, and the bookings of a class that read its row.      *)
(*                                                                         *)
(* An edit loads the row into an object, changes the object, and merges it: *)
(* merge loads the row again and writes every column in which the object    *)
(* differs from that, asked for or not.  Only a booking locks the row.      *)
(*                                                                         *)
(* moved, sight, made and crossed are history.                              *)
(***************************************************************************)
EXTENDS Integers

CONSTANTS
  Editors,         \* requests, used once
  Classes,         \* services
  Shops,           \* businesses
  People,          \* professionals
  Offers,          \* membership plans
  MaxValue,        \* values of a column (capacity included)
  MaxName,         \* slugs of the businesses, users of the professionals
  FirstRows        \* what the rows may be at first

VARIABLES
  row,       \* committed rows
  seats,     \* booked places of the class at one start time
  holder,    \* the booking that has locked the row, or {}
  edit,
  crossed    \* pairs of requests that were under way at the same time

editVars == <<row, seats, holder, edit, crossed>>

Things == Classes \cup Shops \cup People \cup Offers

ServiceColumns == {"active", "name", "details", "capacity"}

\* number, secret and token stand for the WhatsApp columns; name is the slug.
BusinessColumns == {"active", "name", "details", "number", "secret", "token", "channels"}

\* name is the user, 0 when there is none.
ProfessionalColumns == {"active", "name", "details"}

PlanColumns == {"active", "price", "period"}

AllColumns == ServiceColumns \cup BusinessColumns \cup ProfessionalColumns \cup PlanColumns

Columns(t) ==
  CASE t \in Classes -> ServiceColumns
    [] t \in Shops -> BusinessColumns
    [] t \in Offers -> PlanColumns
    [] OTHER -> ProfessionalColumns

Values(c) ==
  CASE c = "active" -> {0, 1}
    [] c = "name" -> 0 .. MaxName
    [] OTHER -> 1 .. MaxValue

Rows(t) == {f \in [Columns(t) -> 0 .. MaxValue + MaxName] : \A c \in Columns(t) : f[c] \in Values(c)}

ASSUME EditsAssumption ==
  /\ {MaxValue, MaxName} \subseteq Nat \ {0}
  /\ Classes \cap (Shops \cup People \cup Offers) = {}
  /\ Shops \cap (People \cup Offers) = {}
  /\ People \cap Offers = {}
  /\ "none" \notin Things

\* No twins at first.
ASSUME FirstRowsAssumption ==
  \A f \in FirstRows :
    /\ DOMAIN f \subseteq Things
    /\ \A t \in DOMAIN f : f[t] \in Rows(t)
    /\ \A t, u \in DOMAIN f :
         {t, u} \subseteq Shops \/ {t, u} \subseteq People
           => t = u \/ f[t].name # f[u].name \/ f[t].name = 0

\* The columns that one request may set: what it leaves out stays as it is, but the
\* WhatsApp settings are always set together.
ServiceForms == {{"details"}, {"capacity"}, {"details", "capacity"}}

BusinessForms == {{"details"}}

WhatsappForms == {{"number", "secret"}}

ChannelForms == {{"channels"}}

ConnectForm == {"number", "token"}

ProfessionalForms == {{"details"}}

\* A plan can be offered again.  Its name and description are like its price.
PlanForms == {{"price"}, {"period"}, {"active"}}

\* Asked(cs): values for the columns cs.
Asked(cs) == {f \in [cs -> 0 .. MaxValue] : \A c \in cs : f[c] \in Values(c)}

Free == [pc |-> "idle", thing |-> "none", asked |-> <<>>, copy |-> <<>>, fresh |-> <<>>,
         moved |-> {}, sight |-> 0, made |-> "none"]

InFlight(r) == edit[r].pc \notin {"idle", "done", "failed"}

Put(r, e) == edit' = [edit EXCEPT ![r] = e]

Enter(r) == crossed' = crossed \cup {{r, s} : s \in {x \in Editors : InFlight(x)}}

Finish(r, how) == [edit[r] EXCEPT !.pc = how, !.copy = <<>>, !.fresh = <<>>, !.asked = <<>>]

----------------------------------------------------------------------------
(* Creation.                                                               *)

\* Slip: the rows that were deleted are not asked.
NameTakenByActive(things, n) ==
  \E t \in things \cap DOMAIN row : row[t].name = n /\ row[t].active = 1

NameTaken(things, n) == \E t \in things \cap DOMAIN row : row[t].name = n

\* The slug of the name, or the first one with a suffix that is not taken.
FreeSlug(n) ==
  ~NameTaken(Shops, n) /\ \A k \in 1 .. n - 1 : NameTaken(Shops, k)

\* Without a user there is nothing to ask.
UserFree(n) == n = 0 \/ ~NameTaken(People, n)

\* A new identifier.
New(t) == t \notin DOMAIN row /\ \A s \in Editors : edit[s].pc = "add" => edit[s].thing # t

Create(r, t, n) ==
  /\ edit[r].pc = "idle"
  /\ New(t)
  /\ Put(r, [Free EXCEPT !.pc = "add", !.thing = t,
                         !.copy = [c \in Columns(t) |-> IF c = "name" THEN n ELSE 1]])
  /\ Enter(r)
  /\ UNCHANGED <<row, seats, holder>>

CreateService(r, t) == t \in Classes /\ Create(r, t, 0)

CreateBusiness(r, t) == t \in Shops /\ \E n \in 1 .. MaxName : FreeSlug(n) /\ Create(r, t, n)

CreateProfessional(r, t) ==
  t \in People /\ \E n \in 0 .. MaxName : UserFree(n) /\ Create(r, t, n)

CreatePlan(r, t) == t \in Offers /\ Create(r, t, 0)

Add(r) ==
  LET t == edit[r].thing IN
  /\ edit[r].pc = "add"
  /\ row' = [u \in DOMAIN row \cup {t} |-> IF u = t THEN edit[r].copy ELSE row[u]]
  /\ Put(r, [Finish(r, "done") EXCEPT !.made = t])
  /\ UNCHANGED <<seats, holder, crossed>>

\* A user who is a professional of the business already.
Conflict(r) ==
  /\ edit[r].pc = "idle"
  /\ \E n \in 1 .. MaxName : NameTaken(People, n)
  /\ Put(r, Finish(r, "failed"))
  /\ UNCHANGED <<row, seats, holder, crossed>>

----------------------------------------------------------------------------
(* Edits.                                                                  *)

Load(r, t) ==
  /\ edit[r].pc = "idle"
  /\ t \in DOMAIN row
  /\ Enter(r)
  /\ UNCHANGED <<row, seats, holder>>

Changed(f, asked) == [c \in DOMAIN f |-> IF c \in DOMAIN asked THEN asked[c] ELSE f[c]]

Ask(r, t, asked) ==
  Put(r, [Free EXCEPT !.pc = "merge", !.thing = t, !.asked = asked,
                      !.copy = Changed(row[t], asked)])

\* A deleted row is found and edited like any other.
Edit(r, t, forms) ==
  /\ Load(r, t)
  /\ \E cs \in forms : \E asked \in Asked(cs) : Ask(r, t, asked)

UpdateService(r, t) == t \in Classes /\ Edit(r, t, ServiceForms)

UpdateBusiness(r, t) == t \in Shops /\ Edit(r, t, BusinessForms)

UpdateWhatsapp(r, t) == t \in Shops /\ Edit(r, t, WhatsappForms)

UpdateChannels(r, t) == t \in Shops /\ Edit(r, t, ChannelForms)

UpdateProfessional(r, t) == t \in People /\ Edit(r, t, ProfessionalForms)

\* The services of the plan, which the same request may replace, are in Replacement.
UpdatePlan(r, t) == t \in Offers /\ Edit(r, t, PlanForms)

\* Deleting a plan is an edit.
DeletePlan(r, t) ==
  /\ t \in Offers
  /\ Load(r, t)
  /\ Ask(r, t, [c \in {"active"} |-> 0])

\* The active business is loaded before the four calls of Meta.
LoadToConnect(r, t) ==
  /\ t \in Shops
  /\ Load(r, t)
  /\ row[t].active = 1
  /\ Put(r, [Free EXCEPT !.pc = "call", !.thing = t, !.copy = row[t]])

Answered(r) ==
  /\ edit[r].pc = "call"
  /\ \E asked \in Asked(ConnectForm) :
       Put(r, [edit[r] EXCEPT !.pc = "merge", !.asked = asked,
                              !.copy = Changed(@, asked)])
  /\ UNCHANGED <<row, seats, holder, crossed>>

Unanswered(r) ==
  /\ edit[r].pc = "call"
  /\ Put(r, Finish(r, "failed"))
  /\ UNCHANGED <<row, seats, holder, crossed>>

Merge(r) ==
  /\ edit[r].pc = "merge"
  /\ Put(r, [edit[r] EXCEPT !.pc = "write", !.fresh = row[edit[r].thing]])
  /\ UNCHANGED <<row, seats, holder, crossed>>

\* The row is loaded and only marked: a row that is marked already is not written.
Delete(r, t) ==
  /\ Load(r, t)
  /\ Put(r, [Free EXCEPT !.pc = IF row[t].active = 1 THEN "write" ELSE "done",
                         !.thing = t, !.asked = [c \in {"active"} |-> 0],
                         !.fresh = row[t], !.copy = [row[t] EXCEPT !.active = 0]])

DeleteService(r, t) == t \in Classes /\ Delete(r, t)

DeleteBusiness(r, t) == t \in Shops /\ Delete(r, t)

DeleteProfessional(r, t) == t \in People /\ Delete(r, t)

\* Slip: the object is written as it is.
Whole(r) == edit[r].copy

\* UPDATE sets the columns in which the object differs from what merge has loaded.
Merged(r) ==
  LET e == edit[r] IN
  [c \in DOMAIN e.copy |-> IF e.copy[c] # e.fresh[c] THEN e.copy[c] ELSE row[e.thing][c]]

\* What the others may notice of it: the columns that moved under their objects, and
\* the capacity that was in force during a booking.
Notice(r, t) ==
  edit' = [s \in Editors |->
    IF s = r THEN Finish(r, "done")
    ELSE IF edit[s].thing # t \/ ~InFlight(s) THEN edit[s]
    ELSE [edit[s] EXCEPT
           !.moved = IF edit[s].pc \in {"call", "merge"}
                     THEN @ \cup {c \in Columns(t) : row'[t][c] # row[t][c]} ELSE @,
           !.sight = IF edit[s].pc \in {"lock", "count", "take"} /\ row'[t].capacity > @
                     THEN row'[t].capacity ELSE @]]

\* UPDATE waits for the lock of a booking.
Write(r) ==
  LET t == edit[r].thing IN
  /\ edit[r].pc = "write"
  /\ holder[t] = {}
  /\ row' = [row EXCEPT ![t] = Merged(r)]
  /\ Notice(r, t)
  /\ UNCHANGED <<seats, holder, crossed>>

----------------------------------------------------------------------------
(* A booking of a place.                                                   *)

ReadClass(r, t) ==
  /\ t \in Classes
  /\ Load(r, t)
  /\ row[t].active = 1
  /\ Put(r, [Free EXCEPT !.pc = "lock", !.thing = t, !.copy = row[t],
                         !.sight = row[t].capacity])

\* Slip: the row is read, not locked.
ReadAgain(r) ==
  /\ edit[r].pc = "lock"
  /\ Put(r, [edit[r] EXCEPT !.pc = "count"])
  /\ UNCHANGED <<row, seats, holder, crossed>>

\* What the lock returns is not used.
LockClass(r) ==
  LET t == edit[r].thing IN
  /\ edit[r].pc = "lock"
  /\ holder[t] = {}
  /\ holder' = [holder EXCEPT ![t] = {r}]
  /\ Put(r, [edit[r] EXCEPT !.pc = "count"])
  /\ UNCHANGED <<row, seats, crossed>>

Unlocked(r) == [t \in Things |-> holder[t] \ {r}]

\* The places are counted against the capacity that was read before the lock.
Count(r) ==
  LET n == seats[edit[r].thing] IN
  /\ edit[r].pc = "count"
  /\ \/ /\ n < edit[r].copy.capacity
        /\ Put(r, [edit[r] EXCEPT !.pc = "take"])
        /\ UNCHANGED holder
     \/ /\ n >= edit[r].copy.capacity
        /\ Put(r, Finish(r, "failed"))
        /\ holder' = Unlocked(r)
  /\ UNCHANGED <<row, seats, crossed>>

Take(r) ==
  /\ edit[r].pc = "take"
  /\ seats' = [seats EXCEPT ![edit[r].thing] = @ + 1]
  /\ Put(r, Finish(r, "done"))
  /\ holder' = Unlocked(r)
  /\ UNCHANGED <<row, crossed>>

CancelSeat(t) ==
  /\ seats[t] > 0
  /\ seats' = [seats EXCEPT ![t] = @ - 1]
  /\ UNCHANGED <<row, holder, edit, crossed>>

\* The connection or the process is lost.
Break(r) ==
  /\ InFlight(r)
  /\ Put(r, Finish(r, "failed"))
  /\ holder' = Unlocked(r)
  /\ UNCHANGED <<row, seats, crossed>>

----------------------------------------------------------------------------
Continue(r) ==
  \/ Add(r)
  \/ Answered(r)
  \/ Unanswered(r)
  \/ Merge(r)
  \/ Write(r)
  \/ LockClass(r)
  \/ Count(r)
  \/ Take(r)

EditInit ==
  /\ row \in FirstRows
  /\ seats = [t \in Classes |-> 0]
  /\ holder = [t \in Things |-> {}]
  /\ edit = [r \in Editors |-> Free]
  /\ crossed = {}

\* What the panel may ask for, router by router.
ServiceRequests(r, t) == CreateService(r, t) \/ UpdateService(r, t) \/ DeleteService(r, t)

BusinessRequests(r, t) ==
  \/ CreateBusiness(r, t)
  \/ UpdateBusiness(r, t) \/ UpdateWhatsapp(r, t) \/ UpdateChannels(r, t)
  \/ LoadToConnect(r, t)
  \/ DeleteBusiness(r, t)

ProfessionalRequests(r, t) ==
  CreateProfessional(r, t) \/ UpdateProfessional(r, t) \/ DeleteProfessional(r, t)

PlanRequests(r, t) == CreatePlan(r, t) \/ UpdatePlan(r, t) \/ DeletePlan(r, t)

EditNext ==
  \/ \E r \in Editors :
       \/ \E t \in Things :
            \/ ServiceRequests(r, t) \/ BusinessRequests(r, t)
            \/ ProfessionalRequests(r, t) \/ PlanRequests(r, t)
            \/ ReadClass(r, t)
       \/ Conflict(r)
       \/ Continue(r)
       \/ Break(r)
  \/ \E t \in Classes : CancelSeat(t)

----------------------------------------------------------------------------
Objects == {<<>>} \cup UNION {Rows(t) : t \in Things}

Wishes == {<<>>} \cup UNION {Asked(cs) : cs \in SUBSET AllColumns}

Requested ==
  [pc : {"idle", "add", "call", "merge", "write", "lock", "count", "take", "done", "failed"},
   thing : Things \cup {"none"}, asked : Wishes, copy : Objects, fresh : Objects,
   moved : SUBSET AllColumns, sight : Nat, made : Things \cup {"none"}]

EditTypeOK ==
  /\ DOMAIN row \subseteq Things
  /\ \A t \in DOMAIN row : row[t] \in Rows(t)
  /\ seats \in [Classes -> Nat]
  /\ holder \in [Things -> {{}} \cup {{r} : r \in Editors}]
  /\ edit \in [Editors -> Requested]
  /\ \A r \in Editors : edit[r].pc \in {"count", "take"} => holder[edit[r].thing] = {r}
  /\ crossed \subseteq SUBSET Editors

Met(r, s) == {r, s} \in crossed

Wrote(r) == edit[r].pc = "write" /\ edit'[r].pc = "done"

\* An edit whose row was changed after it had loaded it, and before its merge loads
\* it again, writes the old values back: a deletion may be undone by it, and settings
\* may return.  The loss goes no further than that.  An UPDATE undoes no column but
\* those that moved between these two readings: what was committed before the first,
\* or while the UPDATE waits after the second, is kept unless it was asked for.
UndoesOnlyMissed ==
  [][\A r \in Editors :
       Wrote(r) =>
         LET t == edit[r].thing IN
         \A c \in Columns(t) :
           row'[t][c] # row[t][c] => c \in DOMAIN edit[r].asked \cup edit[r].moved]_editVars

\* A booking counts against a capacity that it read before it waited for the row.
\* Even so it never makes more places than the capacity that was in force at some
\* moment of it.
NeverAboveSight ==
  [][\A r \in Editors, t \in Classes :
       (edit[r].pc = "take" /\ edit[r].thing = t /\ seats'[t] > seats[t])
         => seats'[t] <= edit[r].sight]_editVars

\* No key keeps two businesses from one slug, or two professionals of a business from
\* one user: it happens, but only to requests that met.
TwinsOnlyByMeeting ==
  \A t, u \in DOMAIN row :
    (/\ t # u
     /\ {t, u} \subseteq Shops \/ {t, u} \subseteq People
     /\ row[t].name = row[u].name
     /\ row[t].name # 0)
       => \E r, s \in Editors : edit[r].made = t /\ edit[s].made = u /\ Met(r, s)
=============================================================================
