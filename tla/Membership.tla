----------------------------- MODULE Membership -----------------------------
(***************************************************************************)
(* Memberships of the clients of one business: granted by the counter,     *)
(* renewed, frozen, resumed and cancelled, each in one database            *)
(* transaction that reads the row, changes the object in memory and merges *)
(* it: a SELECT of the row as it is by then, and an UPDATE of the columns  *)
(* of the object that differ from it.  Nothing is locked; the only guard   *)
(* at commit time is the partial unique index on live memberships.         *)
(*                                                                         *)
(* Time is counted in ticks, Day of them to a day: freezing is accounted   *)
(* for in whole days, so what happens within a day matters.                *)
(*                                                                         *)
(* ledger and raced are history variables: no action reads them, but for   *)
(* the bound of the renewals.                                              *)
(***************************************************************************)
EXTENDS Integers, FiniteSets

CONSTANTS
  MemIds,     \* pool of membership identifiers (bounds the grants)
  Clients,
  Periods,    \* lengths of the billing periods
  Offsets,    \* how far from now a membership may start, before or after
  Day,        \* ticks in a day
  MaxTime,    \* bound of the clock
  MaxPaid,    \* bound of what is bought with one membership
  Txns,
  NoMem, NoTime

ASSUME MembershipAssumption ==
  /\ Periods \subseteq Nat \ {0}
  /\ Offsets \subseteq Int
  /\ Day \in Nat \ {0}
  /\ MaxTime \in Nat
  /\ MaxPaid \in Nat
  /\ NoMem \notin MemIds
  /\ NoTime \notin Int

VARIABLES
  rows,     \* committed rows of the memberships table
  txn,      \* requests in progress
  now,
  ledger,   \* what each member bought and used so far
  raced     \* memberships that a request did not leave as it made them from the
            \* row that was stored

vars == <<rows, txn, now, ledger, raced>>

Live == {"active", "frozen"}

Row == [client : Clients, status : Live \cup {"cancelled"}, starts : Int, ends : Int,
        period : Periods, frozen_at : Int \cup {NoTime}]

Idle == [pc |-> "idle"]

\* The columns that a command may change.
Columns == {"status", "ends", "period", "frozen_at"}

\* diff: the columns that the SELECT of the merge found different.
Begun == [pc : {"insert", "update", "flush"}, id : MemIds \cup {NoMem},
          seen : Row, row : Row, diff : SUBSET Columns,
          op : {"grant", "renew", "freeze", "unfreeze", "cancel"}]

\* paid: ticks bought; used: ticks entitled to attend; idle: ticks frozen before
\* the membership started; thaws: times it was resumed with a later end.
Account == [paid : Nat, used : Nat, idle : Nat, thaws : Nat]

TypeOK ==
  /\ DOMAIN rows \subseteq MemIds
  /\ rows \in [DOMAIN rows -> Row]
  /\ txn \in [Txns -> Begun \cup {Idle}]
  /\ now \in 0 .. MaxTime
  /\ ledger \in [DOMAIN rows -> Account]
  /\ raced \subseteq DOMAIN rows

----------------------------------------------------------------------------
\* Queries of the aggregate; none of them writes.

Later(a, b) == IF a >= b THEN a ELSE b

EffectiveStatus(r) ==
  IF r.status = "active" /\ now >= r.ends THEN "expired" ELSE r.status

IsCurrent(r) ==
  EffectiveStatus(r) = "active" /\ r.starts <= now /\ now < r.ends

\* What is rounded up to whole days.
WholeDays(n) == n + ((-n) % Day)

LiveOf(client) ==
  {m \in DOMAIN rows : rows[m].client = client /\ rows[m].status \in Live}

\* Slip: the latest membership, whatever its status.
ReportedLatest(client) ==
  LET of == {m \in DOMAIN rows : rows[m].client = client}
  IN  {m \in of : \A n \in of : rows[m].ends >= rows[n].ends}

\* get_client_membership: the live membership, else the latest one.
Reported(client) ==
  LET of   == {m \in DOMAIN rows : rows[m].client = client}
      from == IF LiveOf(client) # {} THEN LiveOf(client) ELSE of
  IN  {m \in from : \A n \in from : rows[m].ends >= rows[n].ends}

----------------------------------------------------------------------------
\* Commands of the aggregate.

Granted(client, period, start) ==
  [client |-> client, status |-> "active", starts |-> start, ends |-> start + period,
   period |-> period, frozen_at |-> NoTime]

\* Slip: an early renewal starts from the day it is paid.
RenewedFromNow(r, period) ==
  [r EXCEPT !.ends = now + period, !.period = period, !.status = "active"]

Renewed(r, period) ==
  [r EXCEPT !.ends = Later(r.ends, now) + period, !.period = period, !.status = "active"]

Frozen(r) == [r EXCEPT !.status = "frozen", !.frozen_at = now]

\* A pause whose beginning is not known counts for nothing.
FrozenDays(r) ==
  IF r.frozen_at = NoTime THEN 0 ELSE Later(0, WholeDays(now - r.frozen_at))

\* Slip: resuming counts the day it is resumed as well.
ResumedNextDay(r) ==
  [r EXCEPT !.status = "active", !.frozen_at = NoTime,
            !.ends = r.ends + FrozenDays(r) + Day]

Resumed(r) ==
  [r EXCEPT !.status = "active", !.frozen_at = NoTime, !.ends = r.ends + FrozenDays(r)]

Cancelled(r) == [r EXCEPT !.status = "cancelled"]

----------------------------------------------------------------------------
Begin(t, pc, op, m, seen, row) ==
  /\ txn[t].pc = "idle"
  /\ txn' = [txn EXCEPT ![t] = [pc |-> pc, op |-> op, id |-> m, seen |-> seen, row |-> row,
                                diff |-> {}]]
  /\ UNCHANGED <<rows, now, ledger, raced>>

BeginGrant(t) ==
  \E c \in Clients, p \in Periods, d \in Offsets :
    /\ LiveOf(c) = {}
    /\ DOMAIN rows # MemIds
    /\ Begin(t, "insert", "grant", NoMem, Granted(c, p, now + d), Granted(c, p, now + d))

BeginRenew(t) ==
  \E m \in DOMAIN rows, p \in Periods :
    /\ rows[m].status = "active"
    /\ ledger[m].paid + p <= MaxPaid
    /\ Begin(t, "update", "renew", m, rows[m], Renewed(rows[m], p))

\* The stored status decides: an expired membership is stored as active.
BeginFreeze(t) ==
  \E m \in DOMAIN rows :
    /\ rows[m].status = "active"
    /\ Begin(t, "update", "freeze", m, rows[m], Frozen(rows[m]))

BeginUnfreeze(t) ==
  \E m \in DOMAIN rows :
    /\ rows[m].status = "frozen"
    /\ Begin(t, "update", "unfreeze", m, rows[m], Resumed(rows[m]))

\* Cancelling twice is accepted, and the row is written all the same.
BeginCancel(t) ==
  \E m \in DOMAIN rows :
    Begin(t, "update", "cancel", m, rows[m], Cancelled(rows[m]))

----------------------------------------------------------------------------
\* Slip: the unique index covers active memberships only.
AdmitsActiveOnly(m, row) ==
  row.status = "active" =>
    \A n \in LiveOf(row.client) \ {m} : rows[n].status # "active"

\* uq_memberships_one_live_per_client lets the row in.
IndexAdmits(m, row) == row.status \in Live => LiveOf(row.client) \subseteq {m}

\* Time that had already gone by when a membership was granted counts as used.
Opened(row) ==
  [paid  |-> row.period,
   used  |-> IF row.ends <= now THEN row.period ELSE Later(0, now - row.starts),
   idle  |-> 0,
   thaws |-> 0]

Insert(t) ==
  LET r == txn[t].row IN
  /\ txn[t].pc = "insert"
  /\ \E m \in MemIds \ DOMAIN rows :
       /\ IndexAdmits(m, r)
       /\ rows' = [n \in DOMAIN rows \cup {m} |-> IF n = m THEN r ELSE rows[n]]
       /\ ledger' = [n \in DOMAIN rows \cup {m} |->
                       IF n = m THEN Opened(r) ELSE ledger[n]]
  /\ txn' = [txn EXCEPT ![t] = Idle]
  /\ UNCHANGED <<now, raced>>

Booked(account, r) ==
  [account EXCEPT !.paid  = IF r.op = "renew" THEN @ + r.row.period ELSE @,
                  !.thaws = IF r.op = "unfreeze" /\ r.row.ends > r.seen.ends
                            THEN @ + 1 ELSE @]

\* The SELECT of a merge: the columns of `row' that are not as stored.
Differing(row, stored) == {k \in Columns : row[k] # stored[k]}

\* The UPDATE of a flush: those columns alone.
Merged(stored, row, diff) ==
  [stored EXCEPT !.status    = IF "status"    \in diff THEN row.status    ELSE @,
                 !.ends      = IF "ends"      \in diff THEN row.ends      ELSE @,
                 !.period    = IF "period"    \in diff THEN row.period    ELSE @,
                 !.frozen_at = IF "frozen_at" \in diff THEN row.frozen_at ELSE @]

\* Repository.update: the SELECT of the merge.
Merge(t) ==
  /\ txn[t].pc = "update"
  /\ txn' = [txn EXCEPT ![t].pc   = "flush",
                        ![t].diff = Differing(txn[t].row, rows[txn[t].id])]
  /\ UNCHANGED <<rows, now, ledger, raced>>

\* Repository.update: the UPDATE of the flush, and the commit.
Update(t) ==
  LET r   == txn[t]
      new == Merged(rows[r.id], r.row, r.diff)
  IN
  /\ r.pc = "flush"
  /\ IndexAdmits(r.id, new)
  /\ rows' = [rows EXCEPT ![r.id] = new]
  /\ ledger' = [ledger EXCEPT ![r.id] = Booked(@, r)]
  /\ raced' = IF rows[r.id] = r.seen /\ new = r.row THEN raced ELSE raced \cup {r.id}
  /\ txn' = [txn EXCEPT ![t] = Idle]
  /\ UNCHANGED now

\* The index refuses the row, the connection is lost or the process dies.
Abandon(t) ==
  /\ txn[t].pc # "idle"
  /\ txn' = [txn EXCEPT ![t] = Idle]
  /\ UNCHANGED <<rows, now, ledger, raced>>

----------------------------------------------------------------------------
\* A tick passes for every member; requests are shorter than a tick.
Tick ==
  /\ now < MaxTime
  /\ \A t \in Txns : txn[t].pc = "idle"
  /\ now' = now + 1
  /\ ledger' = [m \in DOMAIN rows |->
                  [ledger[m] EXCEPT
                     !.used = IF IsCurrent(rows[m]) THEN @ + 1 ELSE @,
                     !.idle = IF rows[m].status = "frozen" /\ now < rows[m].starts
                              THEN @ + 1 ELSE @]]
  /\ UNCHANGED <<rows, txn, raced>>

Init ==
  /\ rows = <<>>
  /\ txn = [t \in Txns |-> Idle]
  /\ now = 0
  /\ ledger = <<>>
  /\ raced = {}

Commands(t) == BeginRenew(t) \/ BeginFreeze(t) \/ BeginUnfreeze(t) \/ BeginCancel(t)

Next ==
  \/ Tick
  \/ \E t \in Txns :
       \/ BeginGrant(t) \/ Commands(t)
       \/ Insert(t) \/ Merge(t) \/ Update(t) \/ Abandon(t)

Spec == Init /\ [][Next]_vars

----------------------------------------------------------------------------
\* Request t is to change membership m.
Changes(t, m) == txn[t].pc \in {"update", "flush"} /\ txn[t].id = m

\* A membership has two requests in progress at most.  What is written by a third
\* one between the SELECT and the UPDATE of a merge mixes two objects.
AtMostTwoEach ==
  \A m \in MemIds : \A t, u, v \in Txns :
    Changes(t, m) /\ Changes(u, m) /\ Changes(v, m) => t = u \/ u = v \/ t = v

\* From when the time that is left counts: a pause stops the clock, as long as it
\* is known when it began.
Clock(r) == IF r.status = "frozen" /\ r.frozen_at # NoTime THEN r.frozen_at ELSE now

\* Ticks of attendance a membership still has.
Left(r) == Later(0, r.ends - Later(Clock(r), r.starts))

\* A client never holds two live memberships, although granting only looks at
\* the table before it writes, and a stale write may bring one back to life.
OneLivePerClient == \A c \in Clients : Cardinality(LiveOf(c)) <= 1

\* Renewing early, late, freezing and resuming never cost a member a moment of
\* what was paid, unless requests wrote over each other.
NoTimeLost ==
  \A m \in DOMAIN rows \ raced :
    rows[m].status # "cancelled" => ledger[m].used + Left(rows[m]) >= ledger[m].paid

\* Freezing gives away less than a day each time, and the time a membership was
\* frozen before it had started, however often an expired membership is frozen
\* and resumed, and whatever races, as long as two requests at most change one
\* membership at a time.
FreeTimeBounded ==
  \A m \in DOMAIN rows :
    rows[m].status # "cancelled" =>
      ledger[m].used + Left(rows[m])
        <= ledger[m].paid + ledger[m].idle + Day * ledger[m].thaws

\* Whoever may attend right now is told so: the membership that is reported to a
\* client is the one in force, whatever older memberships it has.
CurrentIsReported ==
  \A m \in DOMAIN rows : IsCurrent(rows[m]) => Reported(rows[m].client) = {m}

=============================================================================
