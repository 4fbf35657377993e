----------------------------- MODULE Campaigns -----------------------------
(***************************************************************************)
(* The campaign scheduler: every instance of the application runs a loop   *)
(* that, pass after pass, writes to the members whose plan is about to end *)
(* and then to the clients who have not been seen for long.  A message is  *)
(* claimed in campaign_sends, and the claim committed, before it is sent;  *)
(* the unique key of the claim is the only thing that the instances share. *)
(*                                                                         *)
(* What a pass has selected is what it works on to its end: the rows, the  *)
(* hour and so the key of a claim may be old by the time they are used.    *)
(*                                                                         *)
(* posted, tried and aborts are history variables.                         *)
(***************************************************************************)
EXTENDS Integers, FiniteSets

CONSTANTS
  Instances,
  Clients,
  Businesses,
  BusinessOf,    \* BusinessOf[c]: the business of the tenant of c
  Cap,           \* campaign_daily_send_cap
  Expiring,      \* campaign_expiring_days
  Inactive,      \* campaign_inactive_days
  WeekOf,        \* WeekOf[d]: the ISO week of a day
  Horizon,       \* last day (bounds the clock)
  MaxEnd,        \* last day a membership ends on (bounds the renewals)
  Period,        \* days a renewal adds
  MaxAborts,     \* bound of the passes that are cut short
  Templates      \* the choices of campaigns with a configured template

ASSUME CampaignsAssumption ==
  /\ BusinessOf \in [Clients -> Businesses]
  /\ Cap \in Nat \ {0}
  /\ {Expiring, Inactive, Horizon, MaxEnd, MaxAborts} \subseteq Nat
  /\ Period \in Nat \ {0}
  /\ WeekOf \in [0 .. Horizon -> Nat]
  /\ Templates \subseteq SUBSET {"membership_expiring", "winback"}

VARIABLES
  templates,   \* campaigns with a template
  day,
  ends,        \* the day the active membership of a client ends on, or None
  seen,        \* the day a client was last active
  open,        \* businesses that are active
  connected,   \* businesses with a WhatsApp number
  claims,      \* committed keys of campaign_sends
  stamped,     \* those with sent_at
  pass,        \* the loop of every instance
  posted,      \* how often the message of a claim reached the client
  tried,       \* claims whose message was sent, or could not be
  aborts

clientVars == <<templates, ends, seen, open, connected>>
historyVars == <<posted, tried, aborts>>
campaignVars == <<day, clientVars, claims, stamped, pass, historyVars>>

None == -1

Kinds == {"membership_expiring", "winback"}

Key == [kind : Kinds, client : Clients, about : Nat]

NoMessage == [kind |-> "none"]

\* today and until are what the pass read: the date, and the ends of the plans of
\* those that are left.
\* sent is per_business.
Pass == [pc : {"asleep", "list", "send", "stamp"}, kind : Kinds, today : 0 .. Horizon,
         until : [Clients -> {None} \cup 0 .. MaxEnd], left : SUBSET Clients,
         sent : [Businesses -> 0 .. Cap], key : Key \cup {NoMessage}]

Asleep ==
  [pc |-> "asleep", kind |-> "membership_expiring", today |-> 0,
   until |-> [c \in Clients |-> None], left |-> {},
   sent |-> [b \in Businesses |-> 0], key |-> NoMessage]

CampaignTypeOK ==
  /\ templates \in Templates
  /\ day \in 0 .. Horizon
  /\ ends \in [Clients -> {None} \cup 0 .. MaxEnd]
  /\ seen \in [Clients -> Int]
  /\ open \subseteq Businesses
  /\ connected \subseteq Businesses
  /\ claims \subseteq Key
  /\ tried \subseteq claims
  /\ stamped \subseteq tried
  /\ pass \in [Instances -> Pass]
  /\ posted \in [claims -> Nat]
  /\ aborts \in 0 .. MaxAborts

----------------------------------------------------------------------------
\* The plan of c ends within the days of the campaign.
EndsSoon(c) == ends[c] > day /\ ends[c] <= day + Expiring

Gone(c) == seen[c] < day - Inactive

\* Slip: the query is limited to as many rows as may be sent.
AsManyAsTheCap(found) ==
  {s \in SUBSET found :
     Cardinality(s) = IF Cardinality(found) < Cap THEN Cardinality(found) ELSE Cap}

\* Everyone the query finds, in no order.
Listed(found) == {found}

\* A campaign without a template is skipped.
Wanted(kind) ==
  {c \in Clients : kind \in templates /\ IF kind = "winback" THEN Gone(c) ELSE EndsSoon(c)}

Today(kind, found) ==
  [Asleep EXCEPT !.pc = "list", !.kind = kind, !.today = day, !.left = found,
                 !.until = [c \in Clients |-> IF c \in found THEN ends[c] ELSE None]]

\* What a message is about: an end of a plan, or a week.
KeyOf(p, c) ==
  [kind |-> p.kind, client |-> c,
   about |-> IF p.kind = "winback" THEN WeekOf[p.today] ELSE p.until[c]]

CapReached(p, b) == p.sent[b] >= Cap

\* Slip: a claim whose message was never confirmed may be claimed again.
UnsentIsFree(k) == k \notin stamped

\* The unique key on (tenant_id, dedupe_key).
Free(k) == k \notin claims

Set(i, p) == pass' = [pass EXCEPT ![i] = p]

Drop(p, c) ==
  [p EXCEPT !.pc = "list", !.left = @ \ {c}, !.until[c] = None, !.key = NoMessage]

----------------------------------------------------------------------------
(* The loop.                                                               *)

Wake(i) ==
  /\ pass[i].pc = "asleep"
  /\ \E left \in Listed(Wanted("membership_expiring")) :
       Set(i, Today("membership_expiring", left))
  /\ UNCHANGED <<day, clientVars, claims, stamped, historyVars>>

\* The second campaign counts its own messages from nothing.
StartWinback(i) ==
  /\ pass[i].pc = "list"
  /\ pass[i].kind = "membership_expiring"
  /\ pass[i].left = {}
  /\ \E left \in Listed(Wanted("winback")) : Set(i, Today("winback", left))
  /\ UNCHANGED <<day, clientVars, claims, stamped, historyVars>>

Sleep(i) ==
  /\ pass[i].pc = "list"
  /\ pass[i].kind = "winback"
  /\ pass[i].left = {}
  /\ Set(i, Asleep)
  /\ UNCHANGED <<day, clientVars, claims, stamped, posted, tried, aborts>>

\* A win-back needs an active business; the other campaign does not ask.
Unreachable(p, c) == p.kind = "winback" /\ BusinessOf[c] \notin open

\* Over the cap, without a business, or claimed by an earlier pass or by another
\* instance: nothing is counted.
PassOver(i, c) ==
  /\ pass[i].pc = "list"
  /\ c \in pass[i].left
  /\ \/ Unreachable(pass[i], c)
     \/ CapReached(pass[i], BusinessOf[c])
     \/ ~Free(KeyOf(pass[i], c))
  /\ Set(i, Drop(pass[i], c))
  /\ UNCHANGED <<day, clientVars, claims, stamped, historyVars>>

\* Slip: everyone left is claimed with the first of them.
ClaimAll(i, c) ==
  /\ pass[i].pc = "list"
  /\ c \in pass[i].left
  /\ ~Unreachable(pass[i], c)
  /\ ~CapReached(pass[i], BusinessOf[c])
  /\ Free(KeyOf(pass[i], c))
  /\ claims' = claims \cup {KeyOf(pass[i], x) : x \in pass[i].left}
  /\ posted' = [k \in claims' |-> IF k \in claims THEN posted[k] ELSE 0]
  /\ Set(i, [pass[i] EXCEPT !.pc = "send", !.key = KeyOf(pass[i], c)])
  /\ UNCHANGED <<day, clientVars, stamped, tried, aborts>>

\* The claim is committed before anything is sent.
Claim(i, c) ==
  LET k == KeyOf(pass[i], c) IN
  /\ pass[i].pc = "list"
  /\ c \in pass[i].left
  /\ ~Unreachable(pass[i], c)
  /\ ~CapReached(pass[i], BusinessOf[c])
  /\ Free(k)
  /\ claims' = claims \cup {k}
  /\ posted' = [x \in claims' |-> IF x \in claims THEN posted[x] ELSE 0]
  /\ Set(i, [pass[i] EXCEPT !.pc = "send", !.key = k])
  /\ UNCHANGED <<day, clientVars, stamped, tried, aborts>>

\* A business without a number: the claim stays and the message does not go out.
SkipSend(i) ==
  LET k == pass[i].key IN
  /\ pass[i].pc = "send"
  /\ BusinessOf[k.client] \notin connected
  /\ tried' = tried \cup {k}
  /\ Set(i, Drop(pass[i], k.client))
  /\ UNCHANGED <<day, clientVars, claims, stamped, posted, aborts>>

Sending(i) ==
  /\ pass[i].pc = "send"
  /\ BusinessOf[pass[i].key.client] \in connected
  /\ tried' = tried \cup {pass[i].key}
  /\ UNCHANGED <<day, clientVars, claims, stamped, aborts>>

Post(i) == posted' = [posted EXCEPT ![pass[i].key] = @ + 1]

SendAccepted(i) ==
  /\ Sending(i)
  /\ Post(i)
  /\ Set(i, [pass[i] EXCEPT !.pc = "stamp"])

\* The claim is kept without sent_at: it is not tried again.
SendRefused(i) ==
  /\ Sending(i)
  /\ Set(i, Drop(pass[i], pass[i].key.client))
  /\ UNCHANGED posted

\* The message arrives and the answer does not: send_template returns False.
SendUnanswered(i) ==
  /\ Sending(i)
  /\ Post(i)
  /\ Set(i, Drop(pass[i], pass[i].key.client))

Stamp(i) ==
  LET k == pass[i].key IN
  /\ pass[i].pc = "stamp"
  /\ stamped' = stamped \cup {k}
  /\ Set(i, [Drop(pass[i], k.client) EXCEPT !.sent[BusinessOf[k.client]] = @ + 1])
  /\ UNCHANGED <<day, clientVars, claims, historyVars>>

\* The process dies or is stopped, or the session breaks: the pass is over, and
\* what it has not committed is gone.
Abort(i) ==
  /\ pass[i].pc # "asleep"
  /\ aborts < MaxAborts
  /\ aborts' = aborts + 1
  /\ Set(i, Asleep)
  /\ UNCHANGED <<day, clientVars, claims, stamped, posted, tried>>

----------------------------------------------------------------------------
(* What happens beside the loop.                                           *)

NextDay ==
  /\ day < Horizon
  /\ day' = day + 1
  /\ UNCHANGED <<clientVars, claims, stamped, pass, historyVars>>

RenewPlan(c) ==
  /\ ends[c] # None
  /\ ends[c] + Period <= MaxEnd
  /\ ends' = [ends EXCEPT ![c] = @ + Period]
  /\ UNCHANGED <<day, templates, seen, open, connected, claims, stamped, pass, historyVars>>

ComeBack(c) ==
  /\ seen[c] < day
  /\ seen' = [seen EXCEPT ![c] = day]
  /\ UNCHANGED <<day, templates, ends, open, connected, claims, stamped, pass, historyVars>>

Connect(b) ==
  /\ b \notin connected
  /\ connected' = connected \cup {b}
  /\ UNCHANGED <<day, templates, ends, seen, open, claims, stamped, pass, historyVars>>

Close(b) ==
  /\ b \in open
  /\ open' = open \ {b}
  /\ UNCHANGED <<day, templates, ends, seen, connected, claims, stamped, pass, historyVars>>

----------------------------------------------------------------------------
Work(i) ==
  \/ Wake(i)
  \/ StartWinback(i)
  \/ Sleep(i)
  \/ \E c \in Clients : PassOver(i, c) \/ Claim(i, c)
  \/ SkipSend(i)
  \/ SendAccepted(i)
  \/ SendRefused(i)
  \/ SendUnanswered(i)
  \/ Stamp(i)

CampaignInit ==
  /\ templates \in Templates
  /\ day = 0
  /\ ends \in [Clients -> {None} \cup 1 .. MaxEnd]
  /\ seen \in [Clients -> {-Inactive, 0}]
  /\ open = Businesses
  /\ connected \in SUBSET Businesses
  /\ claims = {}
  /\ stamped = {}
  /\ pass = [i \in Instances |-> Asleep]
  /\ posted = [k \in claims |-> 0]
  /\ tried = {}
  /\ aborts = 0

CampaignNext ==
  \/ \E i \in Instances : Work(i) \/ Abort(i)
  \/ NextDay
  \/ \E c \in Clients : RenewPlan(c) \/ ComeBack(c)
  \/ \E b \in Businesses : Connect(b) \/ Close(b)

\* The loop of every instance goes on: it sleeps for a while, not for ever, and
\* every call it waits for has a timeout.
CampaignFairness == \A i \in Instances : WF_campaignVars(Work(i))

CampaignSpec == CampaignInit /\ [][CampaignNext]_campaignVars /\ CampaignFairness

----------------------------------------------------------------------------
\* A restart, an overlapping pass or a second instance never writes to a client
\* twice about the same end of a plan, or in the same week's name.
NeverTwice == \A k \in claims : posted[k] <= 1

\* The claim comes first, and so a message may be lost, but only by a pass that is
\* cut short: a claim without an attempt to send it is one that a pass is about to
\* send, or one that such a pass left, and each of those left one at most.
LostOnlyByAbort ==
  Cardinality({k \in claims \ tried :
                 \A i \in Instances : pass[i].pc # "send" \/ pass[i].key # k})
    <= aborts

NoticeDue(c, e) == ends[c] = e /\ EndsSoon(c)

\* However many members end in the same days, and whatever the cap, each one's
\* turn comes: it is claimed, unless its plan is renewed or over before that.
EveryNoticeIsClaimed ==
  \A c \in Clients, e \in 1 .. MaxEnd :
    ("membership_expiring" \in templates /\ NoticeDue(c, e))
      ~> \/ [kind |-> "membership_expiring", client |-> c, about |-> e] \in claims
         \/ ~NoticeDue(c, e)
=============================================================================
