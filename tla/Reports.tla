------------------------------ MODULE Reports ------------------------------
(***************************************************************************)
(* The reports over the appointments table of Booking.  Each is one or     *)
(* more SELECTs over a range of local days of the business; the summary    *)
(* takes four of them, and every statement sees what is committed when it  *)
(* runs.  Prices are edited meanwhile, and clients appear with bookings.   *)
(***************************************************************************)
EXTENDS Booking, Functions

CONSTANTS
  DaySlots,      \* slots of a day
  LocalZero,     \* the slot, in UTC, at which the local day 0 begins
  Days,          \* local days that are asked for
  DefaultDays,   \* length of the range when only its end is known
  Limits,        \* lengths of a top list
  Prices, NoDay

ASSUME ReportAssumption ==
  /\ DaySlots \in Nat \ {0}
  /\ LocalZero \in 0 .. DaySlots - 1
  /\ Days \subseteq Int
  /\ DefaultDays \in Nat \ {0}
  /\ Limits \subseteq Nat \ {0}
  /\ Prices \subseteq Nat
  /\ Amounts \subseteq Nat          \* cents; Appointment.complete refuses less than 0
  /\ NoDay \notin Int

VARIABLES
  since,     \* committed clients and their created_at
  made,      \* made[t]: when t made the client that it will commit
  price,     \* price[s]: services.price
  summary    \* the report being computed

reportVars == <<since, made, price, summary>>

----------------------------------------------------------------------------
(* Ranges: local midnight to local midnight, the end excluded.             *)

LocalDay(x) == (x - LocalZero) \div DaySlots
UtcDay(x)   == x \div DaySlots

MidnightOf(day) == day * DaySlots + LocalZero

\* `from' and `to' as the query gives them, or not.
LastOf(to)        == IF to = NoDay THEN LocalDay(now) ELSE to
FirstOf(from, to) == IF from = NoDay THEN LastOf(to) - (DefaultDays - 1) ELSE from

RangeOf(from, to) ==
  [from |-> MidnightOf(FirstOf(from, to)), to |-> MidnightOf(LastOf(to) + 1)]

\* The equally long period that ends where this one begins.
Previous(r) == [from |-> 2 * r.from - r.to, to |-> r.from]

\* Slip: the end of the range belongs to it.
WithinClosed(row, r) == row.start >= r.from /\ row.start <= r.to

Within(row, r) == row.start >= r.from /\ row.start < r.to

In(r) == {a \in DOMAIN appts : Within(appts[a], r)}

----------------------------------------------------------------------------
(* What the statements answer, for the appointments A of a range.          *)

\* A column of the table.
Amount == [a \in DOMAIN appts |-> appts[a].amount]

\* Slip: the price of the service, for every appointment that was completed.
PriceOfCompleted(A) ==
  SumFunctionOnSet([a \in A |-> price[appts[a].service]],
                   {a \in A : appts[a].status = "completed"})

Paid(A) == {a \in A : appts[a].status = "completed" /\ appts[a].amount # NoAmount}

\* What was collected, over completed appointments.
Revenue(A) == SumFunctionOnSet(Amount, Paid(A))

Count(A, status) == Cardinality({a \in A : appts[a].status = status})

\* Every report counts some statuses and says how many there are in all...
Tally(A, statuses) ==
  [total |-> Cardinality(A), of |-> [s \in statuses |-> Count(A, s)]]

\* ... and some say what was collected, too.
Figures(A, statuses) ==
  [total |-> Cardinality(A), revenue |-> Revenue(A), of |-> [s \in statuses |-> Count(A, s)]]

\* One group for each value of `key' among the rows of A.
CountBy(A, key, statuses) ==
  [k \in {key[a] : a \in A} |-> Tally({a \in A : key[a] = k}, statuses)]

GroupBy(A, key, statuses) ==
  [k \in {key[a] : a \in A} |-> Figures({a \in A : key[a] = k}, statuses)]

SummaryBlock(r) ==
  Figures(In(r), {"pending", "confirmed", "completed", "cancelled", "no_show"})

NewClients(r) ==
  {c \in DOMAIN since : /\ \E a \in In(r) : appts[a].client = c
                        /\ since[c] >= r.from
                        /\ since[c] < r.to}

\* Slip: the start belongs to both.
ReturningFromStart(r) ==
  {c \in DOMAIN since : /\ \E a \in In(r) : appts[a].client = c
                        /\ since[c] <= r.from}

ReturningClients(r) ==
  {c \in DOMAIN since : /\ \E a \in In(r) : appts[a].client = c
                        /\ since[c] < r.from}

\* The day is the database's, which runs in UTC.
Trend(r) ==
  CountBy(In(r), [a \in DOMAIN appts |-> UtcDay(appts[a].start)],
          {"completed", "cancelled", "no_show"})

\* The `limit' largest groups, in one of the ways that ties allow.
Top(groups, limit) ==
  {best \in SUBSET DOMAIN groups :
     /\ Cardinality(best) <= limit
     /\ best # DOMAIN groups => Cardinality(best) = limit
     /\ \A k \in best, other \in DOMAIN groups \ best : groups[k].total >= groups[other].total}

ByService(r) == GroupBy(In(r), [a \in DOMAIN appts |-> appts[a].service], {})

ByClient(r) == GroupBy(In(r), [a \in DOMAIN appts |-> appts[a].client], {})

TopServices(r, limit) == Top(ByService(r), limit)

TopClients(r, limit) == Top(ByClient(r), limit)

ProfessionalPerformance(r) ==
  GroupBy(In(r), [a \in DOMAIN appts |-> appts[a].prof], {"completed", "cancelled", "no_show"})

\* Day of the week and hour, in UTC again.
Heatmap(r) ==
  CountBy(In(r),
          [a \in DOMAIN appts |-> <<UtcDay(appts[a].start) % 7, appts[a].start % DaySlots>>], {})

StatusDistribution(r) == CountBy(In(r), [a \in DOMAIN appts |-> appts[a].status], {})

----------------------------------------------------------------------------
(* The requests of the panel: each resolves its own range.                 *)

GetTrend(from, to)              == Trend(RangeOf(from, to))
GetTopServices(from, to, limit) == TopServices(RangeOf(from, to), limit)
GetTopClients(from, to, limit)  == TopClients(RangeOf(from, to), limit)
GetPerformance(from, to)        == ProfessionalPerformance(RangeOf(from, to))
GetHeatmap(from, to)            == Heatmap(RangeOf(from, to))
GetStatuses(from, to)           == StatusDistribution(RangeOf(from, to))

----------------------------------------------------------------------------
(* The summary.  The fields kept and met are history: the clients who had  *)
(* an appointment in its range ever since it was asked for, and those who  *)
(* had one at any moment since.                                            *)

Clientele(table, r) == {table[a].client : a \in {b \in DOMAIN table : Within(table[b], r)}}

NoSummary == [pc |-> "none"]

\* The first statement of the summary; a range that ends before it begins is refused.
AskSummary ==
  /\ summary.pc = "none"
  /\ \E from, to \in Days \cup {NoDay} :
       /\ FirstOf(from, to) <= LastOf(to)
       /\ LET r == RangeOf(from, to) IN
          summary' = [pc |-> "previous", range |-> r, block |-> SummaryBlock(r),
                     kept |-> Clientele(appts, r), met |-> Clientele(appts, r)]
  /\ UNCHANGED <<vars, since, made, price>>

\* The next statement of the summary.
Read(step, next, name, answer) ==
  /\ summary.pc = step
  /\ summary' = [x \in DOMAIN summary \cup {name} |->
                   IF x = "pc" THEN next ELSE IF x = name THEN answer ELSE summary[x]]
  /\ UNCHANGED <<vars, since, made, price>>

ReadPrevious  == Read("previous", "new", "previous", SummaryBlock(Previous(summary.range)))
ReadNew       == Read("new", "returning", "new", Cardinality(NewClients(summary.range)))
ReadReturning ==
  Read("returning", "done", "returning", Cardinality(ReturningClients(summary.range)))

Seen(table) ==
  summary' = IF summary.pc = "none" THEN summary
             ELSE [summary EXCEPT !.kept = @ \cap Clientele(table, summary.range),
                                  !.met  = @ \cup Clientele(table, summary.range)]

\* The price of a service is edited.
EditPrice ==
  /\ \E s \in Services, p \in Prices : p # price[s] /\ price' = [price EXCEPT ![s] = p]
  /\ UNCHANGED <<vars, since, made, summary>>

\* A client is made when its booking inserts it, and is there when that commits.
Agenda(t) ==
  /\ Arrive(t) \/ Step(t) \/ Disconnect(t)
  /\ made' = [made EXCEPT ![t] = IF txn[t].pc = "client" /\ txn'[t].pc = "slot" THEN now
                                 ELSE IF txn'[t].pc = "idle" THEN 0 ELSE @]
  /\ since' = [c \in DOMAIN visits' |-> IF c \in DOMAIN since THEN since[c] ELSE made[t]]
  /\ Seen(appts')
  /\ UNCHANGED price

Later == Tick /\ UNCHANGED reportVars

ReportInit ==
  /\ Init
  /\ since = <<>>
  /\ made = [t \in Txns |-> 0]
  /\ price \in [Services -> Prices]
  /\ summary = NoSummary

ReportNext ==
  \/ AskSummary \/ ReadPrevious \/ ReadNew \/ ReadReturning
  \/ EditPrice
  \/ Later
  \/ \E t \in Txns : Agenda(t)

ReportSpec == ReportInit /\ [][ReportNext]_<<vars, reportVars>>

----------------------------------------------------------------------------
\* The ranges asked for: two days, or none.
Asked == {d \in Days \X Days : d[1] <= d[2]} \cup {<<NoDay, NoDay>>}

Totals(groups)   == [k \in DOMAIN groups |-> groups[k].total]
Revenues(groups) == [k \in DOMAIN groups |-> groups[k].revenue]

\* Groups that hold each appointment of the range once.
Partition(groups, block) == SumFunction(Totals(groups)) = block.total

\* Groups that hold the money of the range, too.
Shares(groups, block) ==
  Partition(groups, block) /\ SumFunction(Revenues(groups)) = block.revenue

\* No other groups, as many at most, hold more appointments than `best'.
Largest(groups, best, limit) ==
  \A other \in SUBSET DOMAIN groups :
    Cardinality(other) <= limit =>
      SumFunctionOnSet(Totals(groups), other) <= SumFunctionOnSet(Totals(groups), best)

\* What the counters of a summary add up to.
Parts(block) == SumFunction(block.of)

\* The reports of one range tell the same story: by day, by hour, by professional, by
\* status and by client they add up to the summary, no list is larger than a top
\* list, two adjacent periods add up to the whole, what the counters of the summary
\* leave out is what has been rescheduled, and every client is either new or
\* returning, because nobody has an appointment before being a client.
ReportsAgree ==
  \A asked \in Asked :
    LET from  == asked[1]
        to    == asked[2]
        r     == RangeOf(from, to)
        block == SummaryBlock(r)
    IN
    /\ Partition(GetTrend(from, to), block)
    /\ Partition(GetHeatmap(from, to), block)
    /\ Partition(GetStatuses(from, to), block)
    /\ Shares(GetPerformance(from, to), block)
    /\ Shares(ByService(r), block)
    /\ Shares(ByClient(r), block)
    /\ \A limit \in Limits :
         /\ \A best \in GetTopServices(from, to, limit) : Largest(ByService(r), best, limit)
         /\ \A best \in GetTopClients(from, to, limit) : Largest(ByClient(r), best, limit)
    /\ block.total = Parts(block) + Count(In(r), "rescheduled")
    /\ LET before == SummaryBlock(Previous(r))
           both   == SummaryBlock([from |-> Previous(r).from, to |-> r.to])
       IN  before.total + block.total = both.total /\ before.revenue + block.revenue = both.revenue
    /\ NewClients(r) \cup ReturningClients(r) = DOMAIN ByClient(r)
    /\ NewClients(r) \cap ReturningClients(r) = {}

\* A summary is four statements, each of what is committed at its moment, and its
\* clients are counted by two of them.  Whatever is booked, moved or written back in
\* between, it misses nobody who had an appointment in the range all the time, counts
\* nobody twice, and counts nobody who never had one.
SummaryBrackets ==
  summary.pc = "done" =>
    /\ Cardinality(summary.kept) <= summary.new + summary.returning
    /\ summary.new + summary.returning <= Cardinality(summary.met)

\* What a period has taken rises only when an appointment in it is closed, and falls
\* only when a request that read an appointment before it was closed writes it: no
\* price, no booking and no passing of time rewrites a month that has been reported.
RevenueMovesByClosing ==
  [][\A r \in {RangeOf(asked[1], asked[2]) : asked \in Asked \ {<<NoDay, NoDay>>}} :
       /\ Revenue(In(r))' > Revenue(In(r)) =>
            \E a \in DOMAIN appts : /\ appts'[a].status = "completed"
                                    /\ appts'[a] # appts[a]
                                    /\ Within(appts'[a], r)
       /\ Revenue(In(r))' < Revenue(In(r)) =>
            \E t \in Txns : /\ txn[t].pc \in {"write", "flush"}
                            /\ txn'[t].pc = "idle"
                            /\ txn[t].apt \in In(r)
                            /\ appts[txn[t].apt].status = "completed"]_<<vars, reportVars>>
=============================================================================
