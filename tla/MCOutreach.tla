----------------------------- MODULE MCOutreach -----------------------------
(* The two schedulers of the application.  They share no table and no      *)
(* state, so a behaviour is one of either: under says which one is watched,*)
(* and with how much to do.                                                *)
(*   race        two instances and one client to write to                  *)
(*   queue       one instance and several clients                          *)
(*   reminders   the other scheduler                                       *)
EXTENDS Campaigns, Reminders

CONSTANT First   \* an instance and a client

VARIABLE under

campaigns == under \in {"race", "queue"}

MCBusinessOf == [c \in Clients |-> CHOOSE b \in Businesses : TRUE]

\* Weeks of two days.
MCWeekOf == [d \in 0 .. Horizon |-> d \div 2]

MCTemplates == {{k} : k \in Kinds}

\* What only the campaign without a template would read stays as it is.
Asked ==
  /\ "winback" \notin templates => UNCHANGED <<seen, open>>
  /\ "membership_expiring" \notin templates => UNCHANGED ends

\* No plan ends, and nobody has been away.
NothingFor(clients) == \A c \in clients : ends[c] = None /\ seen[c] = 0

Idle == NothingFor(Clients) /\ connected = {} /\ templates = {"winback"}

Init ==
  /\ under \in {"race", "queue", "reminders"}
  /\ CampaignInit
  /\ ReminderInit
  /\ campaigns => \A i \in Pollers : poll[i].wake = 0
  /\ under = "race" => NothingFor(Clients \ First) /\ connected = Businesses
  /\ "winback" \notin templates => seen = [c \in Clients |-> 0]
  /\ "membership_expiring" \notin templates => ends = [c \in Clients |-> None]
  /\ ~campaigns => Idle

Watched(i) == campaigns /\ (under = "queue" => i \in First)

Next ==
  \/ /\ CampaignNext
     /\ campaigns
     /\ Asked
     /\ \A i \in Instances : pass'[i] # pass[i] => Watched(i)
     /\ UNCHANGED <<reminderVars, under>>
  \/ /\ ReminderNext
     /\ ~campaigns
     /\ UNCHANGED <<campaignVars, under>>

Spec ==
  /\ Init
  /\ [][Next]_<<campaignVars, reminderVars, under>>
  /\ \A i \in Instances :
       WF_campaignVars(Watched(i) /\ Work(i) /\ UNCHANGED <<reminderVars, under>>)

\* Every variable has its type; sent never passes the cap.
TypeOK == CampaignTypeOK /\ ReminderTypeOK
=============================================================================
