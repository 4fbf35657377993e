------------------------------ MODULE Inbound ------------------------------
(***************************************************************************)
(* Messages that clients send to a business over WhatsApp, Messenger or    *)
(* Instagram, and the turns in which the bot answers them                  *)
(* (ProcessInboundMessageUseCase).  A turn is one request: it looks for a  *)
(* duplicate, finds or creates the client and the conversation, stores the *)
(* message, runs the agent, stores the reply and commits, and only then    *)
(* sends the reply.                                                        *)
(*                                                                         *)
(* The agent's tools run use cases of their own on the session of the      *)
(* turn: a tool that succeeds commits what the turn has written so far and *)
(* releases its locks, a tool that fails rolls it all back, and in both    *)
(* cases the turn goes on.                                                 *)
(*                                                                         *)
(* from and tally are history variables: who writes each message, and what *)
(* became of it.  The branch for an escalated conversation (muted, or      *)
(* resumed after a grace period) has no action: the query that finds the   *)
(* conversation never returns an escalated one.                            *)
(***************************************************************************)
EXTENDS Integers, FiniteSets

CONSTANTS
  Clients,
  Social,         \* clients who write from Messenger or Instagram
  Messages,       \* identifiers given by the channel
  Senders,        \* who may write which message: functions from Messages to Clients
  Convs,          \* pool of conversation identifiers
  Turns,          \* requests that may be in progress at the same time
  MaxDeliveries,  \* bound of the deliveries, all messages together
  MaxTools,       \* bound of the tools that change something in one turn
  NoConv

ASSUME InboundAssumption ==
  /\ Social \subseteq Clients
  /\ Senders \subseteq [Messages -> Clients]
  /\ MaxDeliveries \in Nat
  /\ MaxTools \in Nat
  /\ NoConv \notin Convs
  /\ IsFiniteSet(Turns)

VARIABLES
  known,       \* clients with a row
  convs,       \* rows of the conversations, with their pending transfers
  newer,       \* pairs of conversations by last_message_at, the later one first
  stored,      \* messages of clients in the history
  turn,        \* requests in progress
  from,        \* who writes each message
  deliveries,  \* how many messages the channel has delivered
  tally        \* what became of each message

vars == <<known, convs, newer, stored, turn, from, deliveries, tally>>

\* handovers and leads count the pending transfers of each kind.
Row == [client : Clients, escalated : BOOLEAN, handovers : Nat, leads : Nat]

Idle == [pc |-> "idle"]

\* pc says what the turn does next.  fresh: the client was unknown when looked
\* up.  pend: what is written and not committed.  row and service: the locks
\* held.  acted: a tool has committed.  undone: the message was rolled back.
\* handed: a conversation of the client was with a human when the turn began.
Working == [pc : {"admit", "agent", "lock", "book", "reply"}, msg : Messages,
            fresh : BOOLEAN, conv : Convs \cup {NoConv},
            pend : SUBSET {"client", "conversation", "message", "lead"},
            row : BOOLEAN, service : BOOLEAN, tools : 0 .. MaxTools,
            acted : BOOLEAN, undone : BOOLEAN, handed : BOOLEAN]

Tally == [answered : Nat, undone : Nat, lost : BOOLEAN]

TypeOK ==
  /\ known \subseteq Clients
  /\ DOMAIN convs \subseteq Convs
  /\ convs \in [DOMAIN convs -> Row]
  /\ newer \subseteq Convs \X Convs
  /\ stored \subseteq Messages
  /\ turn \in [Turns -> Working \cup {Idle}]
  /\ from \in Senders
  /\ deliveries \in 0 .. MaxDeliveries
  /\ tally \in [Messages -> Tally]

Init ==
  /\ known \in SUBSET Clients
  /\ convs = <<>>
  /\ newer = {}
  /\ stored = {}
  /\ turn = [t \in Turns |-> Idle]
  /\ from \in Senders
  /\ tally = [m \in Messages |->
                [answered |-> 0, undone |-> 0, lost |-> FALSE]]
  /\ deliveries = 0

----------------------------------------------------------------------------
ClientOf(t) == from[turn[t].msg]

\* The row lock of a client, or the unique key of one that is being inserted.
RowFree(t) ==
  \A u \in Turns \ {t} :
    turn[u].pc # "idle" /\ turn[u].row => ClientOf(u) # ClientOf(t)

ServiceFree(t) ==
  \A u \in Turns \ {t} : turn[u].pc # "idle" => ~turn[u].service

OpenConvs(c) == {k \in DOMAIN convs : convs[k].client = c /\ ~convs[k].escalated}

HandedOver(c) == \E k \in DOMAIN convs : convs[k].client = c /\ convs[k].escalated

Unused ==
  {k \in Convs \ DOMAIN convs : \A u \in Turns : turn[u].pc # "idle" => turn[u].conv # k}

\* get_active_by_client_and_business: the latest conversation that is not
\* escalated; or else a new one.
ConvFor(c) ==
  IF OpenConvs(c) # {}
  THEN {k \in OpenConvs(c) : \A j \in OpenConvs(c) \ {k} : <<k, j>> \in newer}
  ELSE {k \in Unused : k = CHOOSE j \in Unused : TRUE}

\* newer once k is the latest.
Touch(k) ==
  {p \in newer : p[1] # k /\ p[2] # k} \cup ({k} \X (DOMAIN convs \ {k}))

\* Pending leads of the conversation that the turn can see.
PendingLeads(t) ==
  (IF turn[t].conv \in DOMAIN convs THEN convs[turn[t].conv].leads ELSE 0)
  + (IF "lead" \in turn[t].pend THEN 1 ELSE 0)

\* The conversation rows once t has committed what it wrote.
Committed(t) ==
  LET k    == turn[t].conv
      rows == IF "conversation" \in turn[t].pend
              THEN [j \in DOMAIN convs \cup {k} |->
                      IF j = k THEN [client |-> ClientOf(t), escalated |-> FALSE,
                                     handovers |-> 0, leads |-> 0]
                      ELSE convs[j]]
              ELSE convs
  IN  IF "lead" \in turn[t].pend THEN [rows EXCEPT ![k].leads = @ + 1] ELSE rows

\* The clients and the messages of the history once t has committed.
Known(t) == known \cup (IF "client" \in turn[t].pend THEN {ClientOf(t)} ELSE {})

Stored(t) == stored \cup (IF "message" \in turn[t].pend THEN {turn[t].msg} ELSE {})

End(t) == turn' = [turn EXCEPT ![t] = Idle]

----------------------------------------------------------------------------
IsDuplicate(m) == m \in stored

\* A turn begins with the look-up of the client, unless the message is already
\* in the history.
BeginTurn(t, m) ==
  /\ turn[t].pc = "idle"
  /\ deliveries < MaxDeliveries
  /\ turn' = IF IsDuplicate(m) THEN turn
             ELSE [turn EXCEPT ![t] =
                     [pc |-> "admit", msg |-> m, fresh |-> from[m] \notin known,
                      conv |-> NoConv, pend |-> {}, row |-> FALSE, service |-> FALSE,
                      tools |-> 0, acted |-> FALSE, undone |-> FALSE, handed |-> FALSE]]
  /\ deliveries' = deliveries + 1
  /\ UNCHANGED <<known, convs, newer, stored, from, tally>>

\* The two webhooks hand a message over, once or again.
ReceiveWhatsApp(t) ==
  \E m \in Messages : from[m] \notin Social /\ BeginTurn(t, m)

ReceiveMeta(t) ==
  \E m \in Messages : from[m] \in Social /\ BeginTurn(t, m)

\* Slip: the identifier of the channel is not unique.
RefusedClient(t) == turn[t].fresh /\ ClientOf(t) \in known

\* A unique key refuses the client or the message; the webhook answers 200 and
\* nothing is kept.
Refused(t) ==
  \/ turn[t].fresh /\ ClientOf(t) \in known
  \/ turn[t].msg \in stored

Refuse(t) ==
  /\ turn[t].pc = "admit"
  /\ RowFree(t)
  /\ Refused(t)
  /\ End(t)
  /\ UNCHANGED <<known, convs, newer, stored, from, deliveries, tally>>

\* Slip: the interaction of a client already known is not recorded.
AdmitUnlocked(t) ==
  /\ turn[t].pc = "admit"
  /\ turn[t].fresh => RowFree(t)
  /\ ~Refused(t)
  /\ \E k \in ConvFor(ClientOf(t)) :
       turn' = [turn EXCEPT
         ![t].pc = "agent", ![t].row = turn[t].fresh, ![t].conv = k,
         ![t].pend = {"message"}
                     \cup (IF turn[t].fresh THEN {"client"} ELSE {})
                     \cup (IF k \in DOMAIN convs THEN {} ELSE {"conversation"}),
         ![t].handed = HandedOver(ClientOf(t))]
  /\ UNCHANGED <<known, convs, newer, stored, from, deliveries, tally>>

\* Creates the client or records the interaction, either of which holds its row
\* until the transaction ends; finds or starts the conversation; stores the
\* message.
Admit(t) ==
  /\ turn[t].pc = "admit"
  /\ RowFree(t)
  /\ ~Refused(t)
  /\ \E k \in ConvFor(ClientOf(t)) :
       turn' = [turn EXCEPT
         ![t].pc = "agent", ![t].row = TRUE, ![t].conv = k,
         ![t].pend = {"message"}
                     \cup (IF turn[t].fresh THEN {"client"} ELSE {})
                     \cup (IF k \in DOMAIN convs THEN {} ELSE {"conversation"}),
         ![t].handed = HandedOver(ClientOf(t))]
  /\ UNCHANGED <<known, convs, newer, stored, from, deliveries, tally>>

----------------------------------------------------------------------------
\* Tools that the agent calls.

MayCallTool(t) == turn[t].pc = "agent" /\ turn[t].tools < MaxTools

\* capture_lead, on the social channels: one pending lead per conversation, in
\* the transaction of the turn.
CaptureLead(t) ==
  /\ MayCallTool(t)
  /\ ClientOf(t) \in Social
  /\ turn' = [turn EXCEPT ![t].tools = @ + 1,
                          ![t].pend = IF PendingLeads(t) = 0 THEN @ \cup {"lead"} ELSE @]
  /\ UNCHANGED <<known, convs, newer, stored, from, deliveries, tally>>

\* Slip: the use case commits on a session of its own.
ToolCommitsApart(t) ==
  /\ stored' = stored
  /\ convs' = convs
  /\ newer' = newer
  /\ turn' = [turn EXCEPT ![t].pc = "agent", ![t].service = FALSE, ![t].acted = TRUE,
                          ![t].tools = IF turn[t].pc = "agent" THEN @ + 1 ELSE @]
  /\ UNCHANGED <<from, deliveries, tally>>

\* The commit of a use case that a tool called.
ToolCommits(t) ==
  /\ stored' = Stored(t)
  /\ convs' = Committed(t)
  /\ newer' = IF "conversation" \in turn[t].pend THEN Touch(turn[t].conv) ELSE newer
  /\ turn' = [turn EXCEPT ![t].pc = "agent", ![t].pend = {}, ![t].row = FALSE,
                          ![t].service = FALSE, ![t].acted = TRUE,
                          ![t].tools = IF turn[t].pc = "agent" THEN @ + 1 ELSE @]
  /\ UNCHANGED <<from, deliveries, tally>>

\* A cancellation, or a booking that finds the client already has the seat.
QuickTool(t) ==
  /\ MayCallTool(t)
  /\ ClientOf(t) \notin Social
  /\ known' = Known(t)
  /\ ToolCommits(t)

\* A booking or a reschedule asks for the lock of the service ...
CallBooking(t) ==
  /\ MayCallTool(t)
  /\ ClientOf(t) \notin Social
  /\ turn' = [turn EXCEPT ![t].pc = "lock", ![t].tools = @ + 1]
  /\ UNCHANGED <<known, convs, newer, stored, from, deliveries, tally>>

\* ... gets it ...
LockService(t) ==
  /\ turn[t].pc = "lock"
  /\ ServiceFree(t)
  /\ turn' = [turn EXCEPT ![t].pc = "book", ![t].service = TRUE]
  /\ UNCHANGED <<known, convs, newer, stored, from, deliveries, tally>>

\* ... and commits.  A reschedule leaves the client alone; a booking updates
\* it, or creates it again if it was rolled back.
Reschedule(t) ==
  /\ turn[t].pc = "book"
  /\ ClientOf(t) \in known
  /\ known' = known
  /\ ToolCommits(t)

Book(t) ==
  /\ turn[t].pc = "book"
  /\ RowFree(t)
  /\ known' = known \cup {ClientOf(t)}
  /\ ToolCommits(t)

\* The rollback of a use case that a tool called: the turn goes on without what
\* it had written.
Undo(t) ==
  /\ turn' = [turn EXCEPT ![t].pc = "agent", ![t].pend = {}, ![t].row = FALSE,
                          ![t].service = FALSE,
                          ![t].undone = @ \/ "message" \in turn[t].pend,
                          ![t].tools = IF turn[t].pc = "agent" THEN @ + 1 ELSE @]
  /\ tally' = IF "message" \in turn[t].pend
              THEN [tally EXCEPT ![turn[t].msg].undone = @ + 1] ELSE tally
  /\ UNCHANGED <<known, convs, newer, stored, from, deliveries>>

\* Slip: a use case that finds no place tries again.
ToolFailsRetrying(t) ==
  /\ turn[t].pc = "book"
  /\ turn' = [turn EXCEPT ![t].pc = "lock", ![t].service = FALSE]
  /\ UNCHANGED <<known, convs, newer, stored, from, deliveries, tally>>

\* The use case refuses: nothing to cancel, a time in the past, no place left.
ToolFails(t) ==
  /\ MayCallTool(t) \/ turn[t].pc = "book"
  /\ ClientOf(t) \notin Social
  /\ Undo(t)

\* One turn holds the client's row and waits for the service, another one holds
\* the service and waits for the row: the database aborts one of them.
Deadlocked(t, u) ==
  /\ turn[t].pc = "lock" /\ turn[t].row
  /\ turn[u].pc = "book"
  /\ ClientOf(u) = ClientOf(t)

DeadlockVictim(t) ==
  /\ \E u \in Turns \ {t} : Deadlocked(t, u) \/ Deadlocked(u, t)
  /\ Undo(t)

----------------------------------------------------------------------------
\* The conversation of the turn is there for the reply and the transfer.
HasConversation(t) ==
  turn[t].conv \in DOMAIN convs \/ "conversation" \in turn[t].pend

\* Slip: an escalated turn leaves the reply to the human.
FinishQuietly(t) ==
  \E escalate \in BOOLEAN :
    LET k == turn[t].conv
    IN  /\ turn[t].pc = "agent"
        /\ HasConversation(t)
        /\ known' = Known(t)
        /\ stored' = Stored(t)
        /\ convs' = [Committed(t) EXCEPT
                       ![k].escalated = escalate,
                       ![k].handovers = IF escalate THEN @ + 1 ELSE @]
        /\ newer' = Touch(k)
        /\ turn' = [turn EXCEPT ![t] =
                       IF escalate THEN Idle
                       ELSE [turn[t] EXCEPT !.pc = "reply", !.pend = {}, !.row = FALSE]]
        /\ UNCHANGED <<from, deliveries, tally>>

\* The agent is done: the turn queues a transfer if it escalates, stores the
\* reply, merges the conversation as it read it, escalated or not, and
\* commits.
Finish(t) ==
  \E escalate \in BOOLEAN :
    LET k == turn[t].conv
    IN  /\ turn[t].pc = "agent"
        /\ HasConversation(t)
        /\ known' = Known(t)
        /\ stored' = Stored(t)
        /\ convs' = [Committed(t) EXCEPT
                       ![k].escalated = escalate,
                       ![k].handovers = IF escalate THEN @ + 1 ELSE @]
        /\ newer' = Touch(k)
        /\ turn' = [turn EXCEPT ![t].pc = "reply", ![t].pend = {}, ![t].row = FALSE]
        /\ UNCHANGED <<from, deliveries, tally>>

\* A tool rolled the conversation back: the reply has nothing to refer to.
FinishOrphan(t) ==
  /\ turn[t].pc = "agent"
  /\ ~HasConversation(t)
  /\ End(t)
  /\ UNCHANGED <<known, convs, newer, stored, from, deliveries, tally>>

\* The channel accepts the reply, or does not; nothing is retried.
Reply(t) ==
  /\ turn[t].pc = "reply"
  /\ End(t)
  /\ \/ tally' = [tally EXCEPT ![turn[t].msg].answered = @ + 1]
     \/ tally' = [tally EXCEPT ![turn[t].msg].lost = TRUE]
  /\ UNCHANGED <<known, convs, newer, stored, from, deliveries>>

\* The process that serves the request dies.
Crash(t) ==
  /\ turn[t].pc # "idle"
  /\ End(t)
  /\ tally' = [tally EXCEPT ![turn[t].msg].lost = TRUE]
  /\ UNCHANGED <<known, convs, newer, stored, from, deliveries>>

----------------------------------------------------------------------------
Tool(t) ==
  \/ CaptureLead(t)
  \/ QuickTool(t)
  \/ CallBooking(t)
  \/ LockService(t)
  \/ Reschedule(t)
  \/ Book(t)
  \/ ToolFails(t)
  \/ DeadlockVictim(t)

\* What a request does once it has begun.
Step(t) ==
  \/ Refuse(t)
  \/ Admit(t)
  \/ Tool(t)
  \/ Finish(t)
  \/ FinishOrphan(t)
  \/ Reply(t)

Next ==
  \E t \in Turns : ReceiveWhatsApp(t) \/ ReceiveMeta(t) \/ Step(t) \/ Crash(t)

Spec == Init /\ [][Next]_vars

\* The agent calls a bounded number of tools, and the database gives a lock
\* that is waited for to each waiter in turn: hence strong fairness.
Fairness == \A t \in Turns : SF_vars(Step(t))

FairSpec == Spec /\ Fairness

----------------------------------------------------------------------------
\* A message is answered once, and once more for each time a failed tool took
\* it out of the history: redeliveries, even those that arrive while the first
\* turn is still running, are stopped by the check or by the unique key.
AnsweredOnce ==
  \A m \in Messages : tally[m].answered <= 1 + tally[m].undone

\* Once a tool has committed anything for a message, the message is in the
\* history, so no redelivery acts on it again, unless the message itself was
\* rolled back before: the commit of the tool is the commit of the turn.
ActsAreRemembered ==
  \A t \in Turns :
    turn[t].pc # "idle" /\ turn[t].acted /\ ~turn[t].undone => turn[t].msg \in stored

\* A message in the history whose turns are over was answered, but for a crash
\* or a send that failed: the foreign keys never refuse the reply to a message
\* that was kept.
StoredIsAnswered ==
  \A m \in stored :
    (\A t \in Turns : turn[t].pc # "idle" => turn[t].msg # m)
    => tally[m].answered > 0 \/ tally[m].lost

\* A conversation of a social channel has one lead in the queue, whatever turns
\* of its client run at the same time: the row of the client, held from the
\* first write of the turn, makes the check for a pending lead safe.
LeadQueuedOnce ==
  \A k \in DOMAIN convs : convs[k].leads <= 1

\* On a social channel a conversation that was handed over is never written
\* back to the bot by another turn that had read it before: no tool commits
\* there, so each turn holds the client's row from its first write to its end.
\* (On WhatsApp a tool lets go of the row half way, and the handover can be lost.)
HandoverSticks ==
  [][\A k \in DOMAIN convs :
       convs[k].client \in Social /\ convs[k].escalated => convs'[k].escalated]_vars

\* Every request that began ends, although it waits for the row of its client
\* and for the lock of a service, in both orders.
EveryTurnEnds ==
  \A t \in Turns : turn[t].pc # "idle" ~> turn[t].pc = "idle"

\* The bot stays quiet in front of a client whose conversation is with a human.
EscalatedStaysQuiet ==
  \A t \in Turns : turn[t].pc = "reply" => ~turn[t].handed
=============================================================================
