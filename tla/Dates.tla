------------------------------- MODULE Dates -------------------------------
(***************************************************************************)
(* What parse_date makes of the dates that the agent is asked about, on    *)
(* every day and on either side of the midnight of UTC.  The words are     *)
(* what its patterns tell apart: a number of days from now, a day of the   *)
(* week, a day of the month with or without the month, in a word or after  *)
(* a slash, a full date.                                                   *)
(***************************************************************************)
EXTENDS Integers

CONSTANTS FirstYear, LastYear     \* the calendar of the model

\* 1 January of the first year is a Sunday, as in 2023: weekday 6 from Monday.
ASSUME CalendarAssumption == FirstYear = 2023 /\ LastYear \in Nat /\ LastYear >= 2023

VARIABLES
  today,     \* the date in UTC
  weekday,   \* its day of the week
  local,     \* the date where the business is, west of UTC: today or the day before
  words      \* the kind of date that the agent is asked about, or "none"

dateVars == <<today, weekday, local, words>>

Leap(y) == y % 4 = 0 /\ (y % 100 # 0 \/ y % 400 = 0)

MonthLength(y, m) ==
  IF m = 2 THEN IF Leap(y) THEN 29 ELSE 28
  ELSE IF m \in {4, 6, 9, 11} THEN 30 ELSE 31

Valid(x) == x.d \in 1 .. MonthLength(x.y, x.m)

NextDay(x) ==
  IF x.d < MonthLength(x.y, x.m) THEN [x EXCEPT !.d = @ + 1]
  ELSE IF x.m < 12 THEN [x EXCEPT !.m = @ + 1, !.d = 1]
  ELSE [y |-> x.y + 1, m |-> 1, d |-> 1]

\* The date n days after x.
DaysAfter(x, n) ==
  LET day[k \in 0 .. n] == IF k = 0 THEN x ELSE NextDay(day[k - 1]) IN day[n]

FromToday(n) == DaysAfter(today, n)

Before(x, z) ==
  \/ x.y < z.y
  \/ x.y = z.y /\ x.m < z.m
  \/ x.y = z.y /\ x.m = z.m /\ x.d < z.d

DateInit ==
  /\ today = [y |-> FirstYear, m |-> 1, d |-> 1]
  /\ weekday = 6
  /\ local = today
  /\ words = "none"

\* The day begins in UTC, and some hours later where the business is.
DayBegins ==
  /\ local = today
  /\ NextDay(today).y <= LastYear
  /\ today' = NextDay(today)
  /\ weekday' = (weekday + 1) % 7
  /\ words' = "none"
  /\ UNCHANGED local

DayArrives ==
  /\ local # today
  /\ local' = today
  /\ words' = "none"
  /\ UNCHANGED <<today, weekday>>

----------------------------------------------------------------------------
Texts ==
  [kind : {"days"}, n : 0 .. 2]                             \* hoy, manana, pasado manana
  \cup [kind : {"weekday"}, w : 0 .. 6, next : BOOLEAN]     \* el lunes, el proximo lunes
  \cup [kind : {"day"}, d : 0 .. 32]                        \* el 15
  \cup [kind : {"day_month"}, d : 0 .. 32, m : 1 .. 12]     \* (el) 5 de junio
  \cup [kind : {"slash"}, d : 0 .. 32, m : 1 .. 12]         \* el 5/6
  \cup [kind : {"full"}, y : {2023, 2024}, m : {2}, d : {28, 29, 30}]
  \cup [kind : {"other"}]

\* A client asks what is free on some date, and the agent looks it up.
Ask ==
  /\ words = "none"
  /\ \E text \in Texts : words' = text.kind
  /\ UNCHANGED <<today, weekday, local>>

DateNext == DayBegins \/ DayArrives \/ Ask

DateSpec == DateInit /\ [][DateNext]_dateVars

NoDate == [y |-> 0, m |-> 0, d |-> 0]     \* None
Fault  == [y |-> 0, m |-> 0, d |-> 1]     \* ValueError, which fails the tool

\* Slip: the day of the week that is today means today.
WeekdayFromToday(text) ==
  LET delta == (text.w - weekday) % 7
  IN  FromToday(IF text.next THEN delta + 7 ELSE delta)

\* The coming one, never today; "next" adds a week, except to a week from today.
Weekday(text) ==
  LET delta == (text.w - weekday) % 7
  IN  FromToday(IF delta = 0 \/ text.next THEN delta + 7 ELSE delta)

OrNone(x) == IF Valid(x) THEN x ELSE NoDate

\* A day alone: this month, or the next one when it has passed; from December that
\* is January of the same year.
DayAlone(text) ==
  OrNone([y |-> today.y,
          m |-> IF text.d >= today.d THEN today.m ELSE (today.m % 12) + 1,
          d |-> text.d])

\* A day and a month: this year, or the next one when it has passed.
DayOfMonth(text) ==
  OrNone([y |-> IF text.m > today.m \/ (text.m = today.m /\ text.d >= today.d)
                THEN today.y ELSE today.y + 1,
          m |-> text.m,
          d |-> text.d])

FullDate(text) ==
  LET x == [y |-> text.y, m |-> text.m, d |-> text.d] IN IF Valid(x) THEN x ELSE Fault

ParseDate(text) ==
  CASE text.kind = "full"      -> FullDate(text)
    [] text.kind = "days"      -> FromToday(text.n)
    [] text.kind = "weekday"   -> Weekday(text)
    [] text.kind = "day"       -> DayAlone(text)
    [] text.kind = "slash"     -> DayAlone(text)      \* no pattern takes the month
    [] text.kind = "day_month" -> DayOfMonth(text)
    [] text.kind = "other"     -> NoDate

\* check_availability takes today in UTC, also for words it could not read.
DateLookedUp(text) == IF ParseDate(text) = NoDate THEN today ELSE ParseDate(text)

----------------------------------------------------------------------------
(* What the client means, where the business is.                           *)

\* Days are counted from the client's own.
Meant(n) == DaysAfter(local, n)

\* The dates that have the day, and the month, that the client names.
Named(text) ==
  {x \in [y : FirstYear .. LastYear + 1, d : {text.d},
          m : IF text.kind = "day" THEN 1 .. 12 ELSE {text.m}] : Valid(x)}

\* The first of them that is not over where the client is.
IsFirst(x, text) ==
  /\ x \in Named(text)
  /\ ~Before(x, local)
  /\ \A z \in Named(text) : Before(z, x) => Before(z, local)

\* The client names the day that is not over yet, and is in UTC.
OwnDay(text) ==
  /\ local # today
  /\ text.d = local.d
  /\ text.kind # "day" => text.m = local.m

\* The lost January: in December the day of a month that is over.
PastJanuary(text) ==
  text.kind \in {"day", "slash"} /\ today.m = 12 /\ text.d < today.d

\* The month after a slash is not the one that the day alone is looked for in.
MonthNotRead(text) == text.kind = "slash" /\ ParseDate(text).m # text.m

\* Whatever the day is, and on either side of the midnight of UTC, the date looked up
\* is the one that the client means where the business is, except exactly in these
\* cases.  Between the two midnights, "hoy" and "manana" give the day after, the day
\* of the week that has begun in UTC gives the week after, and the number of the
\* client's own day gives another month or year.  At any time, a number that is over,
\* said in December, gives the January before; the month of "el 5/6", which the
\* comment in date_parser.py promises, is not read; and a day that its month does not
\* have gives today.
DatesAreFound ==
  \A text \in {x \in Texts : x.kind = words} :
    LET x == DateLookedUp(text)
        delta == (text.w - weekday) % 7
    IN
    /\ text.kind = "days" => (x = Meant(text.n) <=> local = today)
    /\ text.kind = "weekday" =>
         /\ \E n \in IF text.next THEN 7 .. 13 ELSE 1 .. 7 : n % 7 = delta /\ x = FromToday(n)
         /\ ~text.next =>
              ((\E n \in 1 .. 7 : x = Meant(n)) <=> ~(local # today /\ delta = 0))
    /\ text.kind \in {"day", "day_month", "slash"} =>
         (IsFirst(x, text) <=>
            ~(\/ OwnDay(text)
              \/ PastJanuary(text)
              \/ MonthNotRead(text)
              \/ ParseDate(text) = NoDate))
=============================================================================
