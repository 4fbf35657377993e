----------------------------- MODULE Reminders -----------------------------
(***************************************************************************)
(* The reminder scheduler: every instance polls the appointments that are  *)
(* about a day ahead and not yet reminded, sends each its message with the *)
(* three buttons, and marks it after the answer.  Nothing is claimed       *)
(* first: what keeps a second message away is the mark.                    *)
(*                                                                         *)
(* Time is counted in ticks.  A pass begins at the tick it is due and ends *)
(* within it (timing assumption: a pass is much shorter than the window).  *)
(*                                                                         *)
(* reminded, reached, since and faults are history variables.              *)
(***************************************************************************)
EXTENDS Integers, FiniteSets

CONSTANTS
  Pollers,      \* instances of the application
  Apts,
  HoursBefore,  \* centre of the window, in ticks
  HalfWindow,   \* half its width
  PollInterval,
  Times,        \* when appointments are made for
  LastTick,     \* bounds the clock
  MaxFaults     \* bounds aborted passes and lost answers

ASSUME RemindersAssumption ==
  /\ {HoursBefore, HalfWindow, PollInterval} \subseteq Nat \ {0}
  /\ {LastTick, MaxFaults} \subseteq Nat
  /\ Times \subseteq Nat
  /\ HalfWindow < HoursBefore
  /\ PollInterval <= 2 * HalfWindow
  /\ Pollers # {} /\ IsFiniteSet(Pollers)

VARIABLES
  tick,
  agenda,     \* appointments: status, at, reminder_sent_at
  poll,       \* the loop of every instance
  reminded,   \* messages that reached the client of an appointment
  reached,    \* appointments a message was tried for
  since,      \* when an appointment was made
  faults

reminderVars == <<tick, agenda, poll, reminded, reached, since, faults>>

Due == {"pending", "confirmed"}

Apt == [status : Due \cup {"none", "rescheduled", "closed"}, at : Times \cup {0}, marked : BOOLEAN]

Poll == [pc : {"asleep", "list", "mark"}, wake : 0 .. (LastTick + PollInterval),
         left : SUBSET Apts, apt : SUBSET Apts]

ReminderTypeOK ==
  /\ tick \in 0 .. LastTick
  /\ agenda \in [Apts -> Apt]
  /\ poll \in [Pollers -> Poll]
  /\ \A i \in Pollers :
       IF poll[i].pc = "mark" THEN \E a \in Apts : poll[i].apt = {a} ELSE poll[i].apt = {}
  /\ reminded \in [Apts -> Nat]
  /\ reached \subseteq Apts
  /\ since \in [Apts -> 0 .. LastTick]
  /\ faults \in 0 .. MaxFaults

----------------------------------------------------------------------------
\* Slip: only what is at least a day ahead.
InLaterHalf(a) == agenda[a].at - tick \in HoursBefore .. (HoursBefore + HalfWindow)

InWindow(a) ==
  agenda[a].at - tick \in (HoursBefore - HalfWindow) .. (HoursBefore + HalfWindow)

\* Slip: the mark is not asked for.
FoundMarkedToo == {a \in Apts : agenda[a].status \in Due /\ InWindow(a)}

Found == {a \in Apts : agenda[a].status \in Due /\ InWindow(a) /\ ~agenda[a].marked}

SetPoll(i, p) == poll' = [poll EXCEPT ![i] = p]

SetApt(a, row) == agenda' = [agenda EXCEPT ![a] = row]

Next_(p, a) == [p EXCEPT !.pc = "list", !.left = @ \ {a}, !.apt = {}]

----------------------------------------------------------------------------
(* The loop.                                                               *)

StartPoll(i) ==
  /\ poll[i].pc = "asleep"
  /\ poll[i].wake = tick
  /\ SetPoll(i, [poll[i] EXCEPT !.pc = "list", !.left = Found])
  /\ UNCHANGED <<tick, agenda, reminded, reached, since, faults>>

EndPoll(i) ==
  /\ poll[i].pc = "list"
  /\ poll[i].left = {}
  /\ SetPoll(i, [poll[i] EXCEPT !.pc = "asleep", !.wake = tick + PollInterval])
  /\ UNCHANGED <<tick, agenda, reminded, reached, since, faults>>

Trying(i, a) ==
  /\ poll[i].pc = "list"
  /\ a \in poll[i].left
  /\ reached' = reached \cup {a}
  /\ UNCHANGED <<tick, agenda, since>>

\* The appointment is reminded of as it was when the pass began.
RemindAccepted(i, a) ==
  /\ Trying(i, a)
  /\ reminded' = [reminded EXCEPT ![a] = @ + 1]
  /\ SetPoll(i, [poll[i] EXCEPT !.pc = "mark", !.apt = {a}])
  /\ UNCHANGED faults

\* Refused, or a business without a number: it is found again by the next pass.
RemindRefused(i, a) ==
  /\ Trying(i, a)
  /\ SetPoll(i, Next_(poll[i], a))
  /\ UNCHANGED <<reminded, faults>>

\* The message arrives and the answer does not.
RemindUnanswered(i, a) ==
  /\ Trying(i, a)
  /\ faults < MaxFaults
  /\ faults' = faults + 1
  /\ reminded' = [reminded EXCEPT ![a] = @ + 1]
  /\ SetPoll(i, Next_(poll[i], a))

Mark(i) ==
  /\ poll[i].pc = "mark"
  /\ \E a \in poll[i].apt :
       /\ SetApt(a, [agenda[a] EXCEPT !.marked = TRUE])
       /\ SetPoll(i, Next_(poll[i], a))
  /\ UNCHANGED <<tick, reminded, reached, since, faults>>

\* The process dies and is started again, and polls at once; or the pass fails,
\* and the loop sleeps.
AbortPoll(i) ==
  /\ poll[i].pc # "asleep"
  /\ faults < MaxFaults
  /\ faults' = faults + 1
  /\ \E wake \in {tick, tick + PollInterval} :
       SetPoll(i, [pc |-> "asleep", wake |-> wake, left |-> {}, apt |-> {}])
  /\ UNCHANGED <<tick, agenda, reminded, reached, since>>

----------------------------------------------------------------------------
(* What happens beside the loop.                                           *)

Advance ==
  /\ tick < LastTick
  /\ \A i \in Pollers : poll[i].pc = "asleep" /\ poll[i].wake > tick
  /\ tick' = tick + 1
  /\ UNCHANGED <<agenda, poll, reminded, reached, since, faults>>

MakeApt(a) ==
  /\ agenda[a].status = "none"
  /\ \E at \in Times :
       /\ at > tick
       /\ SetApt(a, [status |-> "pending", at |-> at, marked |-> FALSE])
  /\ since' = [since EXCEPT ![a] = tick]
  /\ UNCHANGED <<tick, poll, reminded, reached, faults>>

ConfirmApt(a) ==
  /\ agenda[a].status = "pending"
  /\ SetApt(a, [agenda[a] EXCEPT !.status = "confirmed"])
  /\ UNCHANGED <<tick, poll, reminded, reached, since, faults>>

\* A new time and a new status; reminder_sent_at stays.
MoveApt(a) ==
  /\ agenda[a].status \in Due
  /\ \E at \in Times :
       /\ at > tick
       /\ SetApt(a, [agenda[a] EXCEPT !.status = "rescheduled", !.at = at])
  /\ UNCHANGED <<tick, poll, reminded, reached, since, faults>>

CloseApt(a) ==
  /\ agenda[a].status \in Due \cup {"rescheduled"}
  /\ SetApt(a, [agenda[a] EXCEPT !.status = "closed"])
  /\ UNCHANGED <<tick, poll, reminded, reached, since, faults>>

----------------------------------------------------------------------------
ReminderInit ==
  /\ tick = 0
  /\ agenda = [a \in Apts |-> [status |-> "none", at |-> 0, marked |-> FALSE]]
  /\ poll \in [Pollers -> [pc : {"asleep"}, wake : 0 .. (PollInterval - 1),
                           left : {{}}, apt : {{}}]]
  /\ reminded = [a \in Apts |-> 0]
  /\ reached = {}
  /\ since = [a \in Apts |-> 0]
  /\ faults = 0

Polling(i) ==
  \/ StartPoll(i)
  \/ EndPoll(i)
  \/ \E a \in Apts :
       RemindAccepted(i, a) \/ RemindRefused(i, a) \/ RemindUnanswered(i, a)
  \/ Mark(i)
  \/ AbortPoll(i)

ReminderNext ==
  \/ \E i \in Pollers : Polling(i)
  \/ Advance
  \/ \E a \in Apts : MakeApt(a) \/ ConfirmApt(a) \/ MoveApt(a) \/ CloseApt(a)

----------------------------------------------------------------------------
\* Without a fault every instance reminds of an appointment once at most, and
\* each aborted pass or lost answer adds one message: there is no flood.
RepeatsNeedFaults ==
  \A a \in Apts : reminded[a] <= Cardinality(Pollers) + faults

\* The last tick at which a poll still finds a.
Ends(a) == agenda[a].at - HoursBefore + HalfWindow

\* No appointment slips through between two polls: one that was made a poll
\* before the window closed over it, and was not moved or closed, was tried.
NoneSlipsThrough ==
  \A a \in Apts :
    /\ agenda[a].status \in Due
    /\ tick > Ends(a)
    /\ since[a] + PollInterval <= Ends(a)
    /\ faults = 0
    => a \in reached
=============================================================================
