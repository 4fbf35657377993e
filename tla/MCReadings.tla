----------------------------- MODULE MCReadings -----------------------------
(* What only reads: the slot rule over an agenda, the reports, the dates   *)
(* that the agent is asked about, the paginated lists.  They have nothing  *)
(* in common, so a behaviour is one of them: about says which.             *)
EXTENDS SlotLoop, Reports, Dates, Listings, TLC

CONSTANTS T1, C1

VARIABLE about

all == <<about, agenda, vars, reportVars, dateVars, listVars>>

\* Two classes and a one-to-one service, of different lengths.
MCCapacity == [s \in Services |-> CASE s = "yoga" -> 2 [] s = "spin" -> 3 [] OTHER -> 1]
MCDuration == [s \in Services |-> CASE s = "yoga" -> 2 [] s = "spin" -> 3 [] OTHER -> 1]

AnyPerformer == [s \in Services |-> {}]

AllWriters == Ops

\* The agenda that is reported: one request at a time, of the kinds that give an
\* appointment of the class each of its statuses, and an appointment of one client
\* with a professional.
Breakdown(r) ==
  /\ \/ /\ r.op \in {"book", "reschedule", "complete", "cancel", "button_confirm"}
        /\ r.row.service = "yoga"
        /\ r.row.prof = NoProf
     \/ /\ r.op \in {"book", "complete"}
        /\ r.row.service = "cut"
        /\ r.row.prof # NoProf
        /\ r.row.client = C1

\* Under a summary of one day that is being computed: the class, with nobody assigned.
Interrupted(r) ==
  /\ r.op \in {"book", "reschedule"}
  /\ r.row.service = "yoga"
  /\ r.row.prof = NoProf

\* Two requests at a time on the classes of one client.
Raced(r) ==
  /\ r.op \in {"book", "reschedule", "complete", "cancel", "button_cancel"}
  /\ r.row.service = "yoga"
  /\ r.row.client = C1
  /\ r.row.prof = NoProf

Under(which, narrow(_)) ==
  /\ about = which
  /\ ReportNext
  /\ \A t \in Txns : txn'[t].pc # "idle" => (which = "ledger" \/ t = T1) /\ narrow(txn'[t])
  /\ summary.pc # "done"
  /\ which # "summary" => summary' = NoSummary
  /\ summary'.pc = "previous" => summary'.range \in {RangeOf(day, day) : day \in Days}
  /\ which = "ledger" => now' = now /\ \A s \in Services \ {"yoga"} : price'[s] = price[s]
  /\ which # "ledger" => price' = price
  /\ UNCHANGED <<about, agenda, dateVars, listVars>>

ReadingsInit ==
  /\ about \in {"slots", "reports", "summary", "ledger", "dates", "lists"}
  /\ AgendaInit /\ ReportInit /\ DateInit /\ ListingInit
  /\ about # "lists" => \A r \in Rows : ~shelf[r].on
  /\ \A s \in Services : price[s] = CHOOSE p \in Prices : TRUE

ReadingsNext ==
  \/ about = "slots" /\ AppointmentAppears
       /\ UNCHANGED <<about, vars, reportVars, dateVars, listVars>>
  \/ Under("reports", Breakdown)
  \/ Under("summary", Interrupted)
  \/ Under("ledger", Raced)
  \/ about = "dates" /\ DateNext
       /\ UNCHANGED <<about, agenda, vars, reportVars, listVars>>
  \/ about = "lists" /\ ListingNext
       /\ UNCHANGED <<about, agenda, vars, reportVars, dateVars>>

ReadingsSpec == ReadingsInit /\ [][ReadingsNext]_all

----------------------------------------------------------------------------
Symmetry == Permutations(AptIds) \cup Permutations(Clients \ {C1}) \cup Permutations(Rows)
=============================================================================
