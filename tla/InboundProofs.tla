--------------------------- MODULE InboundProofs ---------------------------
(***************************************************************************)
(* Proofs about Inbound for any number of clients, messages, conversations *)
(* and turns in progress, and any number of deliveries and tools.          *)
(***************************************************************************)
EXTENDS Inbound, FiniteSetTheorems, TLAPS

----------------------------------------------------------------------------
(* The inductive invariant.                                                *)

Busy(t) == turn[t].pc # "idle"

InAgent(t) == turn[t].pc \in {"agent", "lock", "book"}

\* The turn has stored its message, or tried to.
Active(t) == InAgent(t) \/ turn[t].pc = "reply"

\* What is not committed is written under the row lock, by the agent's part.
Locking(t) ==
  Busy(t) => /\ turn[t].row => InAgent(t)
             /\ turn[t].pend # {} => turn[t].row
             /\ turn[t].pc = "admit" => ~turn[t].acted /\ ~turn[t].undone
             /\ turn[t].acted => "message" \notin turn[t].pend

\* The conversation of a turn is one of its client, or one it is about to
\* insert; what the turn has written refers to it.
Grounded(t) ==
  Active(t) =>
    LET k == turn[t].conv
    IN  /\ k \in Convs
        /\ k \in DOMAIN convs => convs[k].client = ClientOf(t)
        /\ "conversation" \in turn[t].pend => k \notin DOMAIN convs
        /\ "message" \in turn[t].pend => HasConversation(t)
        /\ "lead" \in turn[t].pend =>
             /\ HasConversation(t)
             /\ k \in DOMAIN convs => convs[k].leads = 0

\* The message of a turn is kept until a rollback takes it away.
Remembers(t) ==
  Active(t) /\ ~turn[t].undone =>
    turn[t].msg \in stored \/ "message" \in turn[t].pend

\* On a social channel no tool commits or rolls back: the row is held to the end.
Steady(t) ==
  Busy(t) /\ ClientOf(t) \in Social =>
    /\ turn[t].pc \in {"admit", "agent", "reply"}
    /\ turn[t].pc = "agent" =>
         /\ turn[t].row
         /\ HasConversation(t)
         /\ turn[t].conv \in DOMAIN convs => ~convs[turn[t].conv].escalated

\* Two turns do not hold the row of the same client, nor insert the same
\* conversation.
Apart(t, u) ==
  /\ Busy(t) /\ Busy(u) /\ turn[t].row /\ turn[u].row => ClientOf(t) # ClientOf(u)
  /\ Active(t) /\ Active(u) /\ turn[t].conv = turn[u].conv => turn[t].conv \in DOMAIN convs

Each ==
  \A t \in Turns : Locking(t) /\ Grounded(t) /\ Remembers(t) /\ Steady(t)

AllApart == \A t, u \in Turns : t # u => Apart(t, u)

\* The turns that may still answer a message, against the times it was stored.
Claims(m) == {t \in Turns : Active(t) /\ turn[t].msg = m}

Pending(m) == \E t \in Claims(m) : "message" \in turn[t].pend

Budget(m) ==
  tally[m].answered + Cardinality(Claims(m))
    <= tally[m].undone + (IF m \in stored \/ Pending(m) THEN 1 ELSE 0)

InBudget == \A m \in Messages : Budget(m)

\* A message in the history was answered or lost, or will be.
Kept(m) ==
  m \in stored => \/ tally[m].answered > 0
                  \/ tally[m].lost
                  \/ \E t \in Claims(m) : turn[t].conv \in DOMAIN convs

AllKept == \A m \in Messages : Kept(m)

Frame == TypeOK /\ Each /\ AllApart

InbInv == Frame /\ LeadQueuedOnce /\ InBudget /\ AllKept

----------------------------------------------------------------------------
(* What a step of one turn does, whichever it is.                          *)

Others(t) == \A u \in Turns \ {t} : turn'[u] = turn[u]

Begins(t) ==
  /\ ~Busy(t)
  /\ turn'[t] \in Working
  /\ turn'[t].pc = "admit" /\ turn'[t].pend = {}
  /\ ~turn'[t].row /\ ~turn'[t].acted /\ ~turn'[t].undone
  /\ UNCHANGED <<convs, stored, from, tally>>

Admits(t) ==
  /\ turn[t].pc = "admit"
  /\ turn[t].msg \notin stored
  /\ RowFree(t)
  /\ turn'[t] \in Working
  /\ turn'[t].pc = "agent" /\ turn'[t].row
  /\ turn'[t].msg = turn[t].msg /\ turn'[t].acted = turn[t].acted
  /\ "message" \in turn'[t].pend /\ "lead" \notin turn'[t].pend
  /\ \/ /\ turn'[t].conv \in OpenConvs(ClientOf(t))
        /\ "conversation" \notin turn'[t].pend
     \/ /\ turn'[t].conv \in Unused
        /\ "conversation" \in turn'[t].pend
  /\ UNCHANGED <<convs, stored, from, tally>>

\* A tool is called, and nothing is committed or rolled back.
Works(t) ==
  /\ InAgent(t)
  /\ turn'[t] \in Working
  /\ turn'[t].pc \in {"agent", "lock", "book"}
  /\ turn'[t].msg = turn[t].msg /\ turn'[t].conv = turn[t].conv
  /\ turn'[t].row = turn[t].row /\ turn'[t].undone = turn[t].undone
  /\ turn'[t].acted = turn[t].acted
  /\ \/ /\ turn'[t].pend = turn[t].pend
        /\ ClientOf(t) \notin Social
     \/ /\ turn'[t].pend = turn[t].pend
        /\ turn'[t].pc = "agent" /\ turn[t].pc = "agent"
     \/ /\ turn'[t].pend = turn[t].pend \cup {"lead"}
        /\ turn'[t].pc = "agent" /\ turn[t].pc = "agent"
        /\ ClientOf(t) \in Social
        /\ PendingLeads(t) = 0
  /\ UNCHANGED <<convs, stored, from, tally>>

Commits(t) ==
  /\ InAgent(t)
  /\ turn'[t] \in Working
  /\ \/ turn'[t].pc = "agent" /\ ClientOf(t) \notin Social
     \/ turn'[t].pc = "reply" /\ turn[t].pc = "agent" /\ HasConversation(t)
  /\ turn'[t].msg = turn[t].msg /\ turn'[t].conv = turn[t].conv
  /\ turn'[t].pend = {} /\ ~turn'[t].row
  /\ turn'[t].undone = turn[t].undone
  /\ DOMAIN convs' = DOMAIN Committed(t)
  /\ \A k \in DOMAIN convs' :
       /\ convs'[k].client = Committed(t)[k].client
       /\ convs'[k].leads = Committed(t)[k].leads
       /\ k # turn[t].conv => convs'[k].escalated = Committed(t)[k].escalated
  /\ stored' = Stored(t)
  /\ UNCHANGED <<from, tally>>

RollsBack(t) ==
  /\ InAgent(t)
  /\ ClientOf(t) \notin Social
  /\ turn'[t] \in Working
  /\ turn'[t].pc = "agent"
  /\ turn'[t].msg = turn[t].msg /\ turn'[t].conv = turn[t].conv
  /\ turn'[t].pend = {} /\ ~turn'[t].row
  /\ turn'[t].undone <=> turn[t].undone \/ "message" \in turn[t].pend
  /\ tally' = IF "message" \in turn[t].pend
              THEN [tally EXCEPT ![turn[t].msg].undone = @ + 1] ELSE tally
  /\ UNCHANGED <<convs, stored, from>>

Ends(t) ==
  /\ Busy(t)
  /\ turn'[t] = Idle
  /\ \/ /\ turn[t].pc = "admit" \/ ~HasConversation(t)
        /\ tally' = tally
     \/ /\ turn[t].pc = "reply"
        /\ tally' = [tally EXCEPT ![turn[t].msg].answered = @ + 1]
     \/ tally' = [tally EXCEPT ![turn[t].msg].lost = TRUE]
  /\ UNCHANGED <<convs, stored, from>>

StepOf(t) ==
  /\ Others(t)
  /\ Begins(t) \/ Admits(t) \/ Works(t) \/ Commits(t) \/ RollsBack(t) \/ Ends(t)

Quiet == UNCHANGED <<convs, stored, turn, from, tally>>

----------------------------------------------------------------------------
(* Every action is one of these steps, and keeps the types.                *)

\* A busy turn is a working one, and its fields have their types.
LEMMA BusyIsWorking ==
  ASSUME TypeOK, NEW t \in Turns, Busy(t)
  PROVE  /\ turn[t] \in Working
         /\ turn[t].msg \in Messages
         /\ ClientOf(t) \in Clients
<1>1. turn[t] \in Working
  BY DEF TypeOK, Busy, Idle
<1>2. from \in [Messages -> Clients]
  BY InboundAssumption DEF TypeOK
<1> QED BY <1>1, <1>2 DEF Working, ClientOf

\* Replacing what one turn does.
LEMMA OneTurn ==
  ASSUME TypeOK, NEW t \in Turns, NEW r \in Working \cup {Idle},
         turn' = [turn EXCEPT ![t] = r]
  PROVE  /\ turn' \in [Turns -> Working \cup {Idle}]
         /\ turn'[t] = r
         /\ Others(t)
BY DEF TypeOK, Others

LEMMA TypeEnds ==
  ASSUME TypeOK, NEW t \in Turns, Busy(t),
         Refuse(t) \/ FinishOrphan(t) \/ Reply(t) \/ Crash(t)
  PROVE  TypeOK' /\ StepOf(t)
<1>1. Idle \in Working \cup {Idle}
  OBVIOUS
<1>2. /\ turn' \in [Turns -> Working \cup {Idle}]
      /\ turn'[t] = Idle
      /\ Others(t)
  BY <1>1, OneTurn DEF Refuse, FinishOrphan, Reply, Crash, End
<1>3. turn[t].msg \in Messages
  BY BusyIsWorking
<1>4. tally' \in [Messages -> Tally]
  <2>1. [tally EXCEPT ![turn[t].msg].answered = @ + 1] \in [Messages -> Tally]
    BY <1>3 DEF TypeOK, Tally
  <2>2. [tally EXCEPT ![turn[t].msg].lost = TRUE] \in [Messages -> Tally]
    BY <1>3 DEF TypeOK, Tally
  <2> QED BY <2>1, <2>2 DEF TypeOK, Refuse, FinishOrphan, Reply, Crash
<1>5. TypeOK'
  BY <1>2, <1>4 DEF TypeOK, Refuse, FinishOrphan, Reply, Crash
<1>6. Ends(t)
  BY <1>2 DEF Ends, Refuse, FinishOrphan, Reply, Crash
<1> QED BY <1>2, <1>5, <1>6 DEF StepOf

LEMMA TypeBegins ==
  ASSUME TypeOK, NEW t \in Turns, NEW m \in Messages, BeginTurn(t, m)
  PROVE  TypeOK' /\ (Quiet \/ StepOf(t))
<1>1. CASE IsDuplicate(m)
  BY <1>1, InboundAssumption DEF BeginTurn, TypeOK, Quiet
<1>2. CASE ~IsDuplicate(m)
  <2> DEFINE r == [pc |-> "admit", msg |-> m, fresh |-> from[m] \notin known,
                   conv |-> NoConv, pend |-> {}, row |-> FALSE, service |-> FALSE,
                   tools |-> 0, acted |-> FALSE, undone |-> FALSE, handed |-> FALSE]
  <2>1. r \in Working
    BY InboundAssumption DEF Working
  <2>2. turn' = [turn EXCEPT ![t] = r]
    BY <1>2 DEF BeginTurn
  <2>3. /\ turn' \in [Turns -> Working \cup {Idle}]
        /\ turn'[t] = r
        /\ Others(t)
    <3> HIDE DEF r
    <3> QED BY <2>1, <2>2, OneTurn
  <2>4. TypeOK'
    BY <2>3, InboundAssumption DEF BeginTurn, TypeOK
  <2>5. Begins(t)
    BY <2>1, <2>3 DEF Begins, BeginTurn, Busy
  <2> QED BY <2>3, <2>4, <2>5 DEF StepOf
<1> QED BY <1>1, <1>2

LEMMA TypeAdmits ==
  ASSUME TypeOK, NEW t \in Turns, Admit(t)
  PROVE  TypeOK' /\ StepOf(t)
<1>1. turn[t] \in Working
  BY BusyIsWorking DEF Admit, Busy
<1>2. PICK k \in ConvFor(ClientOf(t)) :
        turn' = [turn EXCEPT
          ![t].pc = "agent", ![t].row = TRUE, ![t].conv = k,
          ![t].pend = {"message"}
                      \cup (IF turn[t].fresh THEN {"client"} ELSE {})
                      \cup (IF k \in DOMAIN convs THEN {} ELSE {"conversation"}),
          ![t].handed = HandedOver(ClientOf(t))]
  BY DEF Admit
<1> DEFINE pend == {"message"}
                   \cup (IF turn[t].fresh THEN {"client"} ELSE {})
                   \cup (IF k \in DOMAIN convs THEN {} ELSE {"conversation"})
           h == HandedOver(ClientOf(t))
           r == [turn[t] EXCEPT !.pc = "agent", !.row = TRUE, !.conv = k, !.pend = pend,
                                !.handed = h]
<1>3. k \in OpenConvs(ClientOf(t)) \/ k \in Unused
  BY <1>2 DEF ConvFor
<1>4. k \in Convs /\ (k \in DOMAIN convs <=> k \in OpenConvs(ClientOf(t)))
  BY <1>3 DEF OpenConvs, Unused, TypeOK
<1>5. /\ pend \in SUBSET {"client", "conversation", "message", "lead"}
      /\ "message" \in pend /\ "lead" \notin pend
      /\ "conversation" \in pend <=> k \notin DOMAIN convs
      /\ h \in BOOLEAN
  BY DEF HandedOver
<1> HIDE DEF pend, h
<1>6. /\ r \in Working
      /\ r.pc = "agent" /\ r.row /\ r.msg = turn[t].msg /\ r.conv = k /\ r.pend = pend
      /\ r.acted = turn[t].acted
  BY <1>1, <1>4, <1>5 DEF Working
<1>7. turn' = [turn EXCEPT ![t] = r]
  BY <1>2 DEF pend, h
<1> HIDE DEF r
<1>9. /\ turn' \in [Turns -> Working \cup {Idle}]
      /\ turn'[t] = r
      /\ Others(t)
  BY <1>6, <1>7, OneTurn
<1>10. TypeOK'
  BY <1>9 DEF Admit, TypeOK
<1>11. Admits(t)
  BY <1>3, <1>4, <1>5, <1>6, <1>9 DEF Admits, Admit, Refused
<1> QED BY <1>9, <1>10, <1>11 DEF StepOf

LEMMA TypeWorks ==
  ASSUME TypeOK, NEW t \in Turns, CaptureLead(t) \/ CallBooking(t) \/ LockService(t),
         Each
  PROVE  TypeOK' /\ StepOf(t)
<1>1. turn[t] \in Working
  BY BusyIsWorking DEF CaptureLead, CallBooking, LockService, MayCallTool, Busy
<1>2. CASE CaptureLead(t)
  <2> DEFINE r == [turn[t] EXCEPT !.tools = @ + 1,
                     !.pend = IF PendingLeads(t) = 0 THEN @ \cup {"lead"} ELSE @]
  <2>0. turn[t].tools + 1 \in 0 .. MaxTools
    BY <1>1, <1>2, InboundAssumption DEF Working, CaptureLead, MayCallTool
  <2>1. r \in Working
    BY <1>1, <2>0 DEF Working
  <2>2. /\ r.pc = turn[t].pc /\ r.row = turn[t].row /\ r.msg = turn[t].msg
        /\ r.conv = turn[t].conv /\ r.undone = turn[t].undone
        /\ r.acted = turn[t].acted
        /\ r.pend = IF PendingLeads(t) = 0 THEN turn[t].pend \cup {"lead"}
                    ELSE turn[t].pend
    BY <1>1 DEF Working
  <2>3. turn' = [turn EXCEPT ![t] = r]
    BY <1>2 DEF CaptureLead
  <2> HIDE DEF r
  <2>4. /\ turn' \in [Turns -> Working \cup {Idle}]
        /\ turn'[t] = r
        /\ Others(t)
    BY <2>1, <2>3, OneTurn
  <2>5. TypeOK'
    BY <1>2, <2>4 DEF CaptureLead, TypeOK
  <2>6. Works(t)
    BY <1>2, <2>1, <2>2, <2>4 DEF Works, CaptureLead, MayCallTool, InAgent
  <2> QED BY <2>4, <2>5, <2>6 DEF StepOf
<1>3. CASE CallBooking(t)
  <2> DEFINE r == [turn[t] EXCEPT !.pc = "lock", !.tools = @ + 1]
  <2>0. turn[t].tools + 1 \in 0 .. MaxTools
    BY <1>1, <1>3, InboundAssumption DEF Working, CallBooking, MayCallTool
  <2>1. r \in Working
    BY <1>1, <2>0 DEF Working
  <2>2. /\ r.pc = "lock" /\ r.row = turn[t].row /\ r.msg = turn[t].msg
        /\ r.conv = turn[t].conv /\ r.undone = turn[t].undone
        /\ r.pend = turn[t].pend /\ r.acted = turn[t].acted
    BY <1>1 DEF Working
  <2>3. turn' = [turn EXCEPT ![t] = r]
    BY <1>3 DEF CallBooking
  <2> HIDE DEF r
  <2>4. /\ turn' \in [Turns -> Working \cup {Idle}]
        /\ turn'[t] = r
        /\ Others(t)
    BY <2>1, <2>3, OneTurn
  <2>5. TypeOK'
    BY <1>3, <2>4 DEF CallBooking, TypeOK
  <2>6. Works(t)
    BY <1>3, <2>1, <2>2, <2>4 DEF Works, CallBooking, MayCallTool, InAgent
  <2> QED BY <2>4, <2>5, <2>6 DEF StepOf
<1>4. CASE LockService(t)
  <2> DEFINE r == [turn[t] EXCEPT !.pc = "book", !.service = TRUE]
  <2>1. r \in Working
    BY <1>1 DEF Working
  <2>2. /\ r.pc = "book" /\ r.row = turn[t].row /\ r.msg = turn[t].msg
        /\ r.conv = turn[t].conv /\ r.undone = turn[t].undone
        /\ r.pend = turn[t].pend /\ r.acted = turn[t].acted
    BY <1>1 DEF Working
  <2>3. turn' = [turn EXCEPT ![t] = r]
    BY <1>4 DEF LockService
  <2> HIDE DEF r
  <2>4. /\ turn' \in [Turns -> Working \cup {Idle}]
        /\ turn'[t] = r
        /\ Others(t)
    BY <2>1, <2>3, OneTurn
  <2>5. TypeOK'
    BY <1>4, <2>4 DEF LockService, TypeOK
  <2>6. ClientOf(t) \notin Social
    BY <1>4 DEF Each, Steady, LockService, Busy
  <2>7. Works(t)
    BY <1>4, <2>1, <2>2, <2>4, <2>6 DEF Works, LockService, InAgent
  <2> QED BY <2>4, <2>5, <2>7 DEF StepOf
<1> QED BY <1>2, <1>3, <1>4

\* What the conversation rows are once a turn has committed.
LEMMA CommittedRows ==
  ASSUME TypeOK, Each, NEW t \in Turns, InAgent(t)
  PROVE  LET k == turn[t].conv
         IN  /\ DOMAIN Committed(t) =
                  DOMAIN convs \cup (IF "conversation" \in turn[t].pend THEN {k} ELSE {})
             /\ DOMAIN Committed(t) \subseteq Convs
             /\ Committed(t) \in [DOMAIN Committed(t) -> Row]
             /\ \A j \in DOMAIN convs :
                  /\ Committed(t)[j].client = convs[j].client
                  /\ Committed(t)[j].escalated = convs[j].escalated
                  /\ j # k => Committed(t)[j].leads = convs[j].leads
             /\ k \in DOMAIN Committed(t) =>
                  /\ Committed(t)[k].client = ClientOf(t)
                  /\ Committed(t)[k].leads =
                       (IF k \in DOMAIN convs THEN convs[k].leads ELSE 0)
                       + (IF "lead" \in turn[t].pend THEN 1 ELSE 0)
<1> DEFINE k    == turn[t].conv
           D    == DOMAIN convs \cup (IF "conversation" \in turn[t].pend THEN {k} ELSE {})
           new  == [client |-> ClientOf(t), escalated |-> FALSE, handovers |-> 0, leads |-> 0]
           rows == IF "conversation" \in turn[t].pend
                   THEN [j \in DOMAIN convs \cup {k} |-> IF j = k THEN new ELSE convs[j]]
                   ELSE convs
<1>1. /\ k \in Convs
      /\ ClientOf(t) \in Clients
      /\ k \in DOMAIN convs => convs[k].client = ClientOf(t)
      /\ "conversation" \in turn[t].pend => k \notin DOMAIN convs
  BY BusyIsWorking DEF Each, Grounded, InAgent, Active, Busy
<1>2. new \in Row
  BY <1>1 DEF Row
<1>3. /\ convs \in [DOMAIN convs -> Row]
      /\ DOMAIN convs \subseteq Convs
  BY DEF TypeOK
<1> HIDE DEF k
<1>4. /\ rows \in [D -> Row]
      /\ \A j \in DOMAIN convs : rows[j] = convs[j]
      /\ k \in D \ DOMAIN convs => rows[k] = new
      /\ D \subseteq Convs
  <2> HIDE DEF new
  <2>1. CASE "conversation" \in turn[t].pend
    BY <1>1, <1>2, <1>3, <2>1
  <2>2. CASE "conversation" \notin turn[t].pend
    BY <1>1, <1>2, <1>3, <2>2
  <2> QED BY <2>1, <2>2
<1>5. Committed(t) = IF "lead" \in turn[t].pend
                     THEN [rows EXCEPT ![k].leads = @ + 1] ELSE rows
  BY DEF Committed, k
<1> HIDE DEF rows, D
<1>6. CASE "lead" \in turn[t].pend
  <2>1. /\ Committed(t) \in [D -> Row]
        /\ \A j \in D : j # k => Committed(t)[j] = rows[j]
        /\ k \in D => /\ Committed(t)[k].client = rows[k].client
                      /\ Committed(t)[k].escalated = rows[k].escalated
                      /\ Committed(t)[k].leads = rows[k].leads + 1
    <3> DEFINE q == [rows[k] EXCEPT !.leads = @ + 1]
    <3>1. k \in D
      BY <1>6 DEF Each, Grounded, HasConversation, InAgent, Active, D, k
    <3>2. rows[k] \in Row
      BY <1>4, <3>1
    <3>3. /\ q \in Row
          /\ q.client = rows[k].client
          /\ q.escalated = rows[k].escalated
          /\ q.leads = rows[k].leads + 1
      BY <3>2 DEF Row
    <3>4. Committed(t) = [rows EXCEPT ![k] = q]
      BY <1>5, <1>6
    <3> HIDE DEF q
    <3> QED BY <1>4, <3>1, <3>3, <3>4
  <2>2. DOMAIN Committed(t) = D
    BY <2>1
  <2>3. \A j \in DOMAIN convs : j \in D
    BY DEF D
  <2>4. \A j \in DOMAIN convs :
                  /\ Committed(t)[j].client = convs[j].client
                  /\ Committed(t)[j].escalated = convs[j].escalated
                  /\ j # k => Committed(t)[j].leads = convs[j].leads
    BY <1>4, <2>1, <2>3
  <2>5. k \in D => /\ Committed(t)[k].client = ClientOf(t)
                   /\ Committed(t)[k].leads =
                        (IF k \in DOMAIN convs THEN convs[k].leads ELSE 0) + 1
    BY <1>1, <1>4, <2>1, <2>3
  <2> QED BY <1>4, <1>6, <2>1, <2>2, <2>4, <2>5 DEF D, k
<1>7. CASE "lead" \notin turn[t].pend
  <2>1. Committed(t) = rows
    BY <1>5, <1>7
  <2>2. DOMAIN Committed(t) = D
    BY <1>4, <2>1
  <2>3. \A j \in DOMAIN convs : j \in D
    BY DEF D
  <2>4. k \in D => /\ Committed(t)[k].client = ClientOf(t)
                   /\ Committed(t)[k].leads =
                        (IF k \in DOMAIN convs THEN convs[k].leads ELSE 0) + 0
    BY <1>1, <1>3, <1>4, <2>1, <2>3 DEF Row
  <2> QED BY <1>4, <1>7, <2>1, <2>2, <2>3, <2>4 DEF D, k
<1> QED BY <1>6, <1>7

\* The turn after a tool that commits or rolls back.
LEMMA NextTool ==
  ASSUME TypeOK, NEW t \in Turns, InAgent(t), turn[t].pc = "agent" => MayCallTool(t)
  PROVE  (IF turn[t].pc = "agent" THEN turn[t].tools + 1 ELSE turn[t].tools)
           \in 0 .. MaxTools
<1>1. turn[t].tools \in 0 .. MaxTools
  BY BusyIsWorking DEF InAgent, Busy, Working
<1> QED BY <1>1, InboundAssumption DEF MayCallTool

LEMMA TypeToolCommits ==
  ASSUME TypeOK, Each, NEW t \in Turns,
         QuickTool(t) \/ Reschedule(t) \/ Book(t)
  PROVE  TypeOK' /\ StepOf(t)
<1>1. /\ InAgent(t)
      /\ turn[t].pc = "agent" => MayCallTool(t)
      /\ ToolCommits(t)
  BY DEF QuickTool, Reschedule, Book, InAgent, MayCallTool
<1>2. ClientOf(t) \notin Social
  BY DEF QuickTool, Reschedule, Book, Each, Steady, Busy
<1>3. /\ turn[t] \in Working
      /\ ClientOf(t) \in Clients
      /\ turn[t].msg \in Messages
  BY <1>1, BusyIsWorking DEF InAgent, Busy
<1> DEFINE n == IF turn[t].pc = "agent" THEN turn[t].tools + 1 ELSE turn[t].tools
           r == [turn[t] EXCEPT !.pc = "agent", !.pend = {}, !.row = FALSE,
                                !.service = FALSE, !.acted = TRUE, !.tools = n]
<1>4. n \in 0 .. MaxTools
  BY <1>1, NextTool
<1>5. turn' = [turn EXCEPT ![t] = r]
  BY <1>1 DEF ToolCommits
<1> HIDE DEF n
<1>6. /\ r \in Working
      /\ r.pc = "agent" /\ r.msg = turn[t].msg /\ r.conv = turn[t].conv
      /\ r.pend = {} /\ ~r.row /\ r.undone = turn[t].undone
  BY <1>3, <1>4 DEF Working
<1> HIDE DEF r
<1>7. /\ turn' \in [Turns -> Working \cup {Idle}]
      /\ turn'[t] = r
      /\ Others(t)
  BY <1>5, <1>6, OneTurn
<1>8. TypeOK'
  <2>1. known' \subseteq Clients
    BY <1>3 DEF TypeOK, QuickTool, Reschedule, Book, Known
  <2>2. /\ DOMAIN convs' \subseteq Convs
        /\ convs' \in [DOMAIN convs' -> Row]
    BY <1>1, CommittedRows DEF ToolCommits
  <2>3. turn[t].conv \in Convs
    BY <1>1 DEF Each, Grounded, Active
  <2>4. newer' \subseteq Convs \X Convs
    BY <1>1, <2>3 DEF ToolCommits, Touch, TypeOK
  <2>5. stored' \subseteq Messages
    BY <1>1, <1>3 DEF ToolCommits, Stored, TypeOK
  <2> QED BY <1>1, <1>7, <2>1, <2>2, <2>4, <2>5 DEF ToolCommits, TypeOK
<1>9. Commits(t)
  BY <1>1, <1>2, <1>6, <1>7 DEF Commits, ToolCommits
<1> QED BY <1>7, <1>8, <1>9 DEF StepOf

LEMMA TypeFinish ==
  ASSUME TypeOK, Each, NEW t \in Turns, Finish(t)
  PROVE  TypeOK' /\ StepOf(t)
<1> DEFINE k == turn[t].conv
           C == Committed(t)
<1>1. PICK escalate \in BOOLEAN :
        /\ convs' = [C EXCEPT ![k].escalated = escalate,
                              ![k].handovers = IF escalate THEN @ + 1 ELSE @]
        /\ newer' = Touch(k)
  BY DEF Finish
<1>2. /\ turn[t].pc = "agent"
      /\ InAgent(t)
      /\ HasConversation(t)
      /\ turn' = [turn EXCEPT ![t].pc = "reply", ![t].pend = {}, ![t].row = FALSE]
      /\ stored' = Stored(t)
      /\ known' = Known(t)
      /\ UNCHANGED <<from, deliveries, tally>>
  BY DEF Finish, InAgent
<1>3. /\ turn[t] \in Working
      /\ ClientOf(t) \in Clients
      /\ turn[t].msg \in Messages
  BY <1>2, BusyIsWorking DEF Busy
<1>4. /\ C \in [DOMAIN C -> Row]
      /\ DOMAIN C \subseteq Convs
  BY <1>2, CommittedRows
<1> HIDE DEF C
<1>5. /\ convs' \in [DOMAIN C -> Row]
      /\ \A j \in DOMAIN C : /\ convs'[j].client = C[j].client
                             /\ convs'[j].leads = C[j].leads
                             /\ j # k => convs'[j].escalated = C[j].escalated
  <2> DEFINE h == IF escalate THEN C[k].handovers + 1 ELSE C[k].handovers
             q == [C[k] EXCEPT !.escalated = escalate, !.handovers = h]
  <2>1. k \in DOMAIN C
    BY <1>2, CommittedRows DEF HasConversation, C
  <2>2. C[k] \in Row
    BY <1>4, <2>1
  <2>3. h \in Nat
    BY <2>2 DEF Row
  <2>4. convs' = [C EXCEPT ![k] = q]
    BY <1>1
  <2> HIDE DEF h
  <2>5. /\ q \in Row
        /\ q.client = C[k].client
        /\ q.leads = C[k].leads
    BY <2>2, <2>3 DEF Row
  <2> HIDE DEF q
  <2> QED BY <1>4, <2>1, <2>4, <2>5
<1>6. DOMAIN convs' = DOMAIN C
  BY <1>5
<1> DEFINE r == [turn[t] EXCEPT !.pc = "reply", !.pend = {}, !.row = FALSE]
<1>7. turn' = [turn EXCEPT ![t] = r]
  BY <1>2
<1>8. /\ r \in Working
      /\ r.pc = "reply" /\ r.msg = turn[t].msg /\ r.conv = turn[t].conv
      /\ r.pend = {} /\ ~r.row /\ r.undone = turn[t].undone
  BY <1>3 DEF Working
<1> HIDE DEF r
<1>9. /\ turn' \in [Turns -> Working \cup {Idle}]
      /\ turn'[t] = r
      /\ Others(t)
  BY <1>7, <1>8, OneTurn
<1>10. TypeOK'
  <2>1. known' \subseteq Clients
    BY <1>2, <1>3 DEF TypeOK, Known
  <2>2. k \in Convs
    BY <1>2 DEF Each, Grounded, Active
  <2>3. newer' \subseteq Convs \X Convs
    BY <1>1, <2>2 DEF Touch, TypeOK
  <2>4. stored' \subseteq Messages
    BY <1>2, <1>3 DEF Stored, TypeOK
  <2> QED BY <1>2, <1>4, <1>5, <1>6, <1>9, <2>1, <2>3, <2>4 DEF TypeOK
<1>11. Commits(t)
  BY <1>2, <1>5, <1>6, <1>8, <1>9 DEF Commits, C
<1> QED BY <1>9, <1>10, <1>11 DEF StepOf

LEMMA TypeUndo ==
  ASSUME TypeOK, Each, AllApart, NEW t \in Turns,
         ToolFails(t) \/ DeadlockVictim(t)
  PROVE  TypeOK' /\ StepOf(t)
<1>1. /\ InAgent(t)
      /\ turn[t].pc = "agent" => MayCallTool(t)
      /\ ClientOf(t) \notin Social
      /\ Undo(t)
  <2>1. CASE ToolFails(t)
    BY <2>1 DEF ToolFails, MayCallTool, InAgent
  <2>2. CASE DeadlockVictim(t)
    BY <2>2 DEF DeadlockVictim, Deadlocked, InAgent, Each, Steady, Busy
  <2> QED BY <2>1, <2>2
<1>2. /\ turn[t] \in Working
      /\ turn[t].msg \in Messages
  BY <1>1, BusyIsWorking DEF InAgent, Busy
<1> DEFINE n == IF turn[t].pc = "agent" THEN turn[t].tools + 1 ELSE turn[t].tools
           b == turn[t].undone \/ "message" \in turn[t].pend
           r == [turn[t] EXCEPT !.pc = "agent", !.pend = {}, !.row = FALSE,
                                !.service = FALSE, !.undone = b, !.tools = n]
<1>3. n \in 0 .. MaxTools
  BY <1>1, NextTool
<1>4. b \in BOOLEAN
  OBVIOUS
<1>5. turn' = [turn EXCEPT ![t] = r]
  BY <1>1 DEF Undo
<1> HIDE DEF n, b
<1>6. /\ r \in Working
      /\ r.pc = "agent" /\ r.msg = turn[t].msg /\ r.conv = turn[t].conv
      /\ r.pend = {} /\ ~r.row /\ r.undone = b
  BY <1>2, <1>3, <1>4 DEF Working
<1> HIDE DEF r
<1>7. /\ turn' \in [Turns -> Working \cup {Idle}]
      /\ turn'[t] = r
      /\ Others(t)
  BY <1>5, <1>6, OneTurn
<1>8. tally' \in [Messages -> Tally]
  <2>1. [tally EXCEPT ![turn[t].msg].undone = @ + 1] \in [Messages -> Tally]
    BY <1>2 DEF TypeOK, Tally
  <2> QED BY <1>1, <2>1 DEF Undo, TypeOK
<1>9. TypeOK'
  BY <1>1, <1>7, <1>8 DEF Undo, TypeOK
<1>10. RollsBack(t)
  BY <1>1, <1>6, <1>7 DEF RollsBack, Undo, b
<1> QED BY <1>7, <1>9, <1>10 DEF StepOf

LEMMA StepTypes ==
  ASSUME Frame, [Next]_vars
  PROVE  TypeOK' /\ (Quiet \/ \E t \in Turns : StepOf(t))
<1> USE DEF Frame
<1>1. ASSUME NEW t \in Turns, Step(t)
      PROVE  TypeOK' /\ StepOf(t)
  BY <1>1, TypeEnds, TypeAdmits, TypeWorks, TypeToolCommits, TypeFinish, TypeUndo
  DEF Step, Tool, Refuse, FinishOrphan, Reply, Busy
<1>2. ASSUME NEW t \in Turns, ReceiveWhatsApp(t) \/ ReceiveMeta(t)
      PROVE  TypeOK' /\ (Quiet \/ StepOf(t))
  BY <1>2, TypeBegins DEF ReceiveWhatsApp, ReceiveMeta
<1>3. ASSUME NEW t \in Turns, Crash(t)
      PROVE  TypeOK' /\ StepOf(t)
  BY <1>3, TypeEnds DEF Crash, Busy
<1>4. CASE UNCHANGED vars
  BY <1>4 DEF vars, TypeOK, Quiet
<1> QED BY <1>1, <1>2, <1>3, <1>4 DEF Next

----------------------------------------------------------------------------
(* The steps keep the invariant of the turns.                              *)

\* What a step does to the conversations, seen from the turns.
LEMMA ConvsGrow ==
  ASSUME Frame, NEW t \in Turns, StepOf(t)
  PROVE  /\ DOMAIN convs \subseteq DOMAIN convs'
         /\ \A k \in DOMAIN convs : convs'[k].client = convs[k].client
         /\ \A k \in DOMAIN convs' \ DOMAIN convs :
              InAgent(t) /\ k = turn[t].conv /\ "conversation" \in turn[t].pend
         /\ \A k \in DOMAIN convs :
              \/ convs'[k].leads = convs[k].leads
              \/ InAgent(t) /\ k = turn[t].conv /\ "lead" \in turn[t].pend
         /\ \A k \in DOMAIN convs :
              \/ convs'[k].escalated = convs[k].escalated
              \/ /\ InAgent(t) /\ k = turn[t].conv
                 /\ turn[t].pc = "agent" \/ ClientOf(t) \notin Social
<1>1. CASE Commits(t)
  <2> DEFINE C == Committed(t)
             j == turn[t].conv
  <2>1. /\ InAgent(t)
        /\ turn[t].pc = "agent" \/ ClientOf(t) \notin Social
        /\ DOMAIN convs' = DOMAIN C
        /\ \A k \in DOMAIN convs' :
             /\ convs'[k].client = C[k].client
             /\ convs'[k].leads = C[k].leads
             /\ k # j => convs'[k].escalated = C[k].escalated
    BY <1>1 DEF Commits
  <2>2. /\ DOMAIN C = DOMAIN convs \cup (IF "conversation" \in turn[t].pend THEN {j} ELSE {})
        /\ \A k \in DOMAIN convs :
             /\ C[k].client = convs[k].client
             /\ C[k].escalated = convs[k].escalated
             /\ k # j => C[k].leads = convs[k].leads
        /\ j \in DOMAIN C =>
             C[j].leads = (IF j \in DOMAIN convs THEN convs[j].leads ELSE 0)
                          + (IF "lead" \in turn[t].pend THEN 1 ELSE 0)
    BY <2>1, CommittedRows DEF Frame
  <2>3. \A k \in DOMAIN convs : convs[k].leads \in Nat
    BY DEF Frame, TypeOK, Row
  <2> HIDE DEF C, j
  <2>4. \A k \in DOMAIN convs : \/ convs'[k].leads = convs[k].leads
                                \/ k = j /\ "lead" \in turn[t].pend
    BY <2>1, <2>2, <2>3
  <2> QED BY <2>1, <2>2, <2>4 DEF j
<1>2. CASE ~Commits(t)
  BY <1>2 DEF StepOf, Begins, Admits, Works, RollsBack, Ends
<1> QED BY <1>1, <1>2

LEMMA StoredGrows ==
  ASSUME NEW t \in Turns, StepOf(t)
  PROVE  /\ stored \subseteq stored'
         /\ from' = from
BY DEF StepOf, Begins, Admits, Works, Commits, RollsBack, Ends, Stored

\* The other turns are not disturbed.
LEMMA OthersKept ==
  ASSUME Frame, NEW t \in Turns, StepOf(t), NEW u \in Turns, u # t
  PROVE  /\ Locking(u)'
         /\ Grounded(u)'
         /\ Remembers(u)'
         /\ Steady(u)'
<1>1. turn'[u] = turn[u]
  BY DEF StepOf, Others
<1>2. /\ Locking(u) /\ Grounded(u) /\ Remembers(u) /\ Steady(u)
      /\ Locking(t) /\ Grounded(t) /\ Steady(t)
      /\ Apart(t, u)
  BY DEF Frame, Each, AllApart
<1>3. ClientOf(u)' = ClientOf(u)
  BY <1>1, StoredGrows DEF ClientOf
<1>4. /\ (Busy(u)' <=> Busy(u))
      /\ (InAgent(u)' <=> InAgent(u))
      /\ (Active(u)' <=> Active(u))
  BY <1>1 DEF Busy, InAgent, Active
<1>5. Active(u) => Busy(u)
  BY DEF Active, InAgent, Busy
<1>6. InAgent(t) => Active(t) /\ Busy(t)
  BY DEF Active, InAgent, Busy
<1> DEFINE k == turn[u].conv
\* The conversation of u was not inserted by t.
<1>7. Active(u) /\ k \in DOMAIN convs' => k \in DOMAIN convs
  BY <1>2, <1>6, ConvsGrow DEF Apart
<1>8. Active(u) /\ "lead" \in turn[u].pend /\ k \in DOMAIN convs =>
        convs'[k].leads = convs[k].leads
  <2> SUFFICES ASSUME Active(u), "lead" \in turn[u].pend, k \in DOMAIN convs,
                      InAgent(t), k = turn[t].conv, "lead" \in turn[t].pend
               PROVE  FALSE
    BY ConvsGrow
  <2>1. turn[u].row /\ turn[t].row
    BY <1>2, <1>5, <1>6 DEF Locking
  <2>2. ClientOf(u) = ClientOf(t)
    BY <1>2, <1>6 DEF Grounded
  <2> QED BY <1>2, <1>5, <1>6, <2>1, <2>2 DEF Apart
<1>9. Locking(u)'
  BY <1>1, <1>2, <1>4 DEF Locking
<1>10. Grounded(u)'
  <2> SUFFICES ASSUME Active(u)
               PROVE  Grounded(u)'
    BY <1>4 DEF Grounded
  <2>1. k \in DOMAIN convs' <=> k \in DOMAIN convs
    BY <1>7, ConvsGrow
  <2>2. HasConversation(u)' <=> HasConversation(u)
    BY <1>1, <2>1 DEF HasConversation
  <2>3. k \in DOMAIN convs => convs'[k].client = convs[k].client
    BY ConvsGrow
  <2> QED BY <1>1, <1>2, <1>3, <1>8, <2>1, <2>2, <2>3 DEF Grounded
<1>11. Remembers(u)'
  BY <1>1, <1>2, <1>4, StoredGrows DEF Remembers
<1>12. Steady(u)'
  <2> SUFFICES ASSUME Busy(u), ClientOf(u) \in Social
               PROVE  Steady(u)'
    BY <1>3, <1>4 DEF Steady
  <2>1. turn[u].pc = "agent" /\ k \in DOMAIN convs => convs'[k].escalated = convs[k].escalated
    <3> SUFFICES ASSUME turn[u].pc = "agent", k \in DOMAIN convs,
                        InAgent(t), k = turn[t].conv,
                        turn[t].pc = "agent" \/ ClientOf(t) \notin Social
                 PROVE  FALSE
      BY ConvsGrow
    <3>1. Active(u)
      BY DEF Active, InAgent
    <3>2. ClientOf(u) = ClientOf(t)
      BY <1>2, <1>6, <3>1 DEF Grounded
    <3>3. turn[u].row /\ turn[t].row
      BY <1>2, <1>6, <3>2 DEF Steady
    <3> QED BY <1>2, <1>6, <3>2, <3>3 DEF Apart
  <2>2. turn[u].pc = "agent" => Active(u)
    BY DEF Active, InAgent
  <2>3. HasConversation(u) => HasConversation(u)'
    BY <1>1, ConvsGrow DEF HasConversation
  <2> QED BY <1>1, <1>2, <1>3, <1>7, <2>1, <2>2, <2>3 DEF Steady
<1> QED BY <1>9, <1>10, <1>11, <1>12

\* The turn that takes the step keeps its own part.
LEMMA OwnKept ==
  ASSUME Frame, NEW t \in Turns, StepOf(t)
  PROVE  /\ Locking(t)'
         /\ Grounded(t)'
         /\ Remembers(t)'
         /\ Steady(t)'
<1>1. /\ Locking(t) /\ Grounded(t) /\ Remembers(t) /\ Steady(t)
  BY DEF Frame, Each
<1>2. from' = from
  BY StoredGrows
<1>3. CASE Ends(t)
  BY <1>3 DEF Ends, Idle, Locking, Grounded, Remembers, Steady, Busy, Active, InAgent
<1>4. CASE Begins(t)
  BY <1>4 DEF Begins, Locking, Grounded, Remembers, Steady, Busy, Active, InAgent
<1>5. CASE Admits(t)
  <2>1. ClientOf(t)' = ClientOf(t)
    BY <1>2, <1>5 DEF Admits, ClientOf
  <2> DEFINE k == turn'[t].conv
  <2>2. /\ turn'[t].pc = "agent" /\ turn'[t].row
        /\ ~turn'[t].acted
        /\ convs' = convs /\ stored' = stored
        /\ "message" \in turn'[t].pend /\ "lead" \notin turn'[t].pend
    BY <1>1, <1>5 DEF Admits, Locking, Busy
  <2>3. \/ /\ k \in DOMAIN convs /\ k \in Convs
           /\ convs[k].client = ClientOf(t) /\ ~convs[k].escalated
           /\ "conversation" \notin turn'[t].pend
        \/ /\ k \in Convs /\ k \notin DOMAIN convs
           /\ "conversation" \in turn'[t].pend
    BY <1>5 DEF Admits, OpenConvs, Unused, Frame, TypeOK
  <2>4. Locking(t)'
    BY <2>2 DEF Locking, InAgent
  <2>5. Grounded(t)'
    BY <2>1, <2>2, <2>3 DEF Grounded, HasConversation
  <2>6. Remembers(t)'
    BY <2>2 DEF Remembers
  <2>7. Steady(t)'
    BY <2>2, <2>3 DEF Steady, HasConversation
  <2> QED BY <2>4, <2>5, <2>6, <2>7
<1>6. CASE Works(t)
  <2> DEFINE k == turn[t].conv
  <2>1. ClientOf(t)' = ClientOf(t)
    BY <1>2, <1>6 DEF Works, ClientOf
  <2>2. /\ InAgent(t) /\ Active(t) /\ Busy(t)
        /\ turn'[t].pc \in {"agent", "lock", "book"}
        /\ "message" \in turn'[t].pend => "message" \in turn[t].pend
        /\ turn'[t].msg = turn[t].msg /\ turn'[t].conv = k
        /\ turn'[t].row = turn[t].row /\ turn'[t].undone = turn[t].undone
        /\ turn'[t].acted = turn[t].acted
        /\ convs' = convs /\ stored' = stored
    BY <1>6 DEF Works, Active, InAgent, Busy
  <2>3. \/ /\ turn'[t].pend = turn[t].pend
           /\ ClientOf(t) \notin Social
        \/ /\ turn'[t].pend = turn[t].pend
           /\ turn'[t].pc = "agent" /\ turn[t].pc = "agent"
        \/ /\ turn'[t].pend = turn[t].pend \cup {"lead"}
           /\ turn'[t].pc = "agent" /\ turn[t].pc = "agent"
           /\ ClientOf(t) \in Social
           /\ PendingLeads(t) = 0
    BY <1>6 DEF Works
  <2>4. turn'[t].pend = turn[t].pend \/ turn[t].row
    BY <1>1, <2>2, <2>3 DEF Steady
  <2>5. Locking(t)'
    BY <1>1, <2>2, <2>4 DEF Locking, InAgent, Busy
  <2>6. HasConversation(t)' <=> HasConversation(t)
    BY <2>2, <2>3 DEF HasConversation
  <2>7. "lead" \in turn'[t].pend /\ "lead" \notin turn[t].pend =>
          /\ HasConversation(t)
          /\ k \in DOMAIN convs => convs[k].leads = 0
    <3> SUFFICES ASSUME "lead" \in turn'[t].pend, "lead" \notin turn[t].pend
                 PROVE  /\ HasConversation(t)
                        /\ k \in DOMAIN convs => convs[k].leads = 0
      OBVIOUS
    <3>1. turn[t].pc = "agent" /\ ClientOf(t) \in Social /\ PendingLeads(t) = 0
      BY <2>3
    <3>2. k \in DOMAIN convs => convs[k].leads = 0
      BY <3>1 DEF PendingLeads, Frame, TypeOK, Row
    <3> QED BY <1>1, <2>2, <3>1, <3>2 DEF Steady
  <2>8. Grounded(t)'
    BY <1>1, <2>1, <2>2, <2>3, <2>6, <2>7 DEF Grounded
  <2>9. Remembers(t)'
    BY <1>1, <2>2, <2>3 DEF Remembers
  <2>10. Steady(t)'
    BY <1>1, <2>1, <2>2, <2>3, <2>6 DEF Steady
  <2> QED BY <2>5, <2>8, <2>9, <2>10
<1>7. CASE Commits(t)
  <2> DEFINE k == turn[t].conv
  <2>1. ClientOf(t)' = ClientOf(t)
    BY <1>2, <1>7 DEF Commits, ClientOf
  <2>2. /\ InAgent(t) /\ Active(t) /\ Busy(t)
        /\ \/ turn'[t].pc = "agent" /\ ClientOf(t) \notin Social
           \/ turn'[t].pc = "reply"
        /\ turn'[t].msg = turn[t].msg /\ turn'[t].conv = k
        /\ turn'[t].pend = {} /\ ~turn'[t].row
        /\ turn'[t].undone = turn[t].undone
        /\ stored' = Stored(t)
    BY <1>7 DEF Commits, Active, InAgent, Busy
  <2>3. k \in DOMAIN convs' => convs'[k].client = ClientOf(t)
    BY <1>7, CommittedRows DEF Commits, Frame
  <2>4. Locking(t)'
    BY <2>2 DEF Locking
  <2>5. Grounded(t)'
    BY <1>1, <2>1, <2>2, <2>3 DEF Grounded
  <2>6. Remembers(t)'
    BY <1>1, <2>2 DEF Remembers, Stored
  <2>7. Steady(t)'
    BY <2>1, <2>2 DEF Steady
  <2> QED BY <2>4, <2>5, <2>6, <2>7
<1>8. CASE RollsBack(t)
  <2>1. ClientOf(t)' = ClientOf(t)
    BY <1>2, <1>8 DEF RollsBack, ClientOf
  <2>2. /\ InAgent(t) /\ Active(t) /\ Busy(t)
        /\ turn'[t].pc = "agent" /\ ClientOf(t) \notin Social
        /\ turn'[t].msg = turn[t].msg /\ turn'[t].conv = turn[t].conv
        /\ turn'[t].pend = {} /\ ~turn'[t].row
        /\ turn'[t].undone <=> turn[t].undone \/ "message" \in turn[t].pend
        /\ stored' = stored /\ convs' = convs
    BY <1>8 DEF RollsBack, Active, InAgent, Busy
  <2>3. Locking(t)'
    BY <2>2 DEF Locking
  <2>4. Grounded(t)'
    BY <1>1, <2>1, <2>2 DEF Grounded
  <2>5. Remembers(t)'
    BY <1>1, <2>2 DEF Remembers
  <2>6. Steady(t)'
    BY <2>1, <2>2 DEF Steady
  <2> QED BY <2>3, <2>4, <2>5, <2>6
<1> QED BY <1>3, <1>4, <1>5, <1>6, <1>7, <1>8 DEF StepOf

\* The turn that takes the step stays apart from the others.
LEMMA OwnApart ==
  ASSUME Frame, NEW t \in Turns, StepOf(t), NEW u \in Turns, u # t
  PROVE  Apart(t, u)'
<1>1. /\ turn'[u] = turn[u]
      /\ Apart(t, u)
  BY DEF StepOf, Others, Frame, AllApart
<1>2. ClientOf(u)' = ClientOf(u)
  BY <1>1, StoredGrows DEF ClientOf
<1>3. /\ (Busy(u)' <=> Busy(u))
      /\ (Active(u)' <=> Active(u))
  BY <1>1 DEF Busy, InAgent, Active
<1>4. DOMAIN convs \subseteq DOMAIN convs'
  BY ConvsGrow
<1>5. CASE Ends(t) \/ Begins(t)
  BY <1>5 DEF Ends, Begins, Idle, Apart, Busy, Active, InAgent
<1>6. CASE Admits(t)
  <2>1. ClientOf(t)' = ClientOf(t)
    BY <1>6, StoredGrows DEF Admits, ClientOf
  <2>2. Busy(u) /\ turn[u].row => ClientOf(u) # ClientOf(t)
    BY <1>6 DEF Admits, RowFree, Busy
  <2>3. Active(u) /\ turn'[t].conv = turn[u].conv => turn'[t].conv \in DOMAIN convs
    BY <1>6 DEF Admits, OpenConvs, Unused, Active, InAgent
  <2> QED BY <1>1, <1>2, <1>3, <1>4, <2>1, <2>2, <2>3 DEF Apart
<1>7. CASE Works(t) \/ Commits(t) \/ RollsBack(t)
  <2>1. ClientOf(t)' = ClientOf(t)
    BY <1>7, StoredGrows DEF Works, Commits, RollsBack, ClientOf
  <2>2. /\ Active(t) /\ Busy(t)
        /\ turn'[t].row => turn[t].row
        /\ turn'[t].conv = turn[t].conv
    BY <1>7 DEF Works, Commits, RollsBack, Active, InAgent, Busy
  <2> QED BY <1>1, <1>2, <1>3, <1>4, <2>1, <2>2 DEF Apart
<1> QED BY <1>5, <1>6, <1>7 DEF StepOf

LEMMA FrameKept ==
  ASSUME Frame, [Next]_vars
  PROVE  Frame'
<1>1. TypeOK'
  BY StepTypes
<1>2. CASE Quiet
  BY <1>1, <1>2 DEF Quiet, Frame, Each, AllApart, Apart, Locking, Grounded, Remembers,
     Steady, Busy, Active, InAgent, ClientOf, HasConversation
<1>3. ASSUME NEW t \in Turns, StepOf(t)
      PROVE  Frame'
  <2>1. Each'
    BY <1>3, OwnKept, OthersKept DEF Each
  <2>2. ASSUME NEW u \in Turns, NEW v \in Turns, u # v
        PROVE  Apart(u, v)'
    <3>1. CASE u = t
      BY <1>3, <2>2, <3>1, OwnApart
    <3>2. CASE v = t
      <4>1. Apart(v, u)'
        BY <1>3, <2>2, <3>2, OwnApart
      <4> QED BY <4>1 DEF Apart
    <3>3. CASE u # t /\ v # t
      <4>1. /\ turn'[u] = turn[u] /\ turn'[v] = turn[v]
            /\ Apart(u, v)
        BY <1>3, <2>2, <3>3 DEF StepOf, Others, Frame, AllApart
      <4>2. from' = from /\ DOMAIN convs \subseteq DOMAIN convs'
        BY <1>3, StoredGrows, ConvsGrow
      <4>3. /\ ClientOf(u)' = ClientOf(u) /\ ClientOf(v)' = ClientOf(v)
            /\ (Busy(u)' <=> Busy(u)) /\ (Busy(v)' <=> Busy(v))
            /\ (Active(u)' <=> Active(u)) /\ (Active(v)' <=> Active(v))
        BY <4>1, <4>2 DEF Busy, Active, InAgent, ClientOf
      <4> QED BY <4>1, <4>2, <4>3 DEF Apart
    <3> QED BY <3>1, <3>2, <3>3
  <2> QED BY <1>1, <2>1, <2>2 DEF Frame, AllApart
<1> QED BY <1>2, <1>3, StepTypes

----------------------------------------------------------------------------
(* The steps keep what is promised of leads and messages.                  *)

LEMMA LeadsKept ==
  ASSUME Frame, LeadQueuedOnce, NEW t \in Turns, StepOf(t)
  PROVE  LeadQueuedOnce'
<1>1. CASE Commits(t)
  <2> DEFINE C == Committed(t)
             j == turn[t].conv
  <2>1. /\ InAgent(t)
        /\ DOMAIN convs' = DOMAIN C
        /\ \A k \in DOMAIN convs' : convs'[k].leads = C[k].leads
    BY <1>1 DEF Commits
  <2>2. /\ DOMAIN C \subseteq DOMAIN convs \cup {j}
        /\ \A k \in DOMAIN convs : k # j => C[k].leads = convs[k].leads
        /\ j \in DOMAIN C =>
             C[j].leads = (IF j \in DOMAIN convs THEN convs[j].leads ELSE 0)
                          + (IF "lead" \in turn[t].pend THEN 1 ELSE 0)
    BY <2>1, CommittedRows DEF Frame
  <2>3. "lead" \in turn[t].pend /\ j \in DOMAIN convs => convs[j].leads = 0
    BY <2>1 DEF Frame, Each, Grounded, Active
  <2>4. \A k \in DOMAIN convs : convs[k].leads \in Nat /\ convs[k].leads <= 1
    BY DEF Frame, TypeOK, Row, LeadQueuedOnce
  <2> HIDE DEF C, j
  <2> QED BY <2>1, <2>2, <2>3, <2>4 DEF LeadQueuedOnce
<1>2. CASE ~Commits(t)
  BY <1>2 DEF StepOf, Begins, Admits, Works, RollsBack, Ends, LeadQueuedOnce
<1> QED BY <1>1, <1>2

\* The claims on a message, as one turn starts or ends.
LEMMA ClaimsFinite ==
  ASSUME NEW m
  PROVE  /\ IsFiniteSet(Claims(m))
         /\ Cardinality(Claims(m)) \in Nat
<1>1. Claims(m) \subseteq Turns
  BY DEF Claims
<1> QED BY <1>1, InboundAssumption, FS_Subset, FS_CardinalityType

LEMMA ClaimsMove ==
  ASSUME Frame, NEW t \in Turns, StepOf(t), NEW m \in Messages
  PROVE  /\ Admits(t) /\ turn[t].msg = m =>
              /\ t \notin Claims(m)
              /\ Claims(m)' = Claims(m) \cup {t}
         /\ Ends(t) => Claims(m)' = Claims(m) \ {t}
         /\ ~Ends(t) /\ ~(Admits(t) /\ turn[t].msg = m) => Claims(m)' = Claims(m)
<1>1. /\ Claims(m) = {u \in Turns : Active(u) /\ turn[u].msg = m}
      /\ Claims(m)' = {u \in Turns : Active(u)' /\ turn'[u].msg = m}
  BY DEF Claims
<1>2. \A u \in Turns \ {t} : /\ Active(u)' <=> Active(u)
                             /\ turn'[u].msg = turn[u].msg
  BY DEF StepOf, Others, Active, InAgent
<1>3. Admits(t) => ~Active(t) /\ Active(t)' /\ turn'[t].msg = turn[t].msg
  BY DEF Admits, Active, InAgent
<1>4. Ends(t) => ~Active(t)'
  BY DEF Ends, Active, InAgent, Idle
<1>5. Begins(t) => ~Active(t) /\ ~Active(t)'
  BY DEF Begins, Active, InAgent, Busy
<1>6. Works(t) \/ Commits(t) \/ RollsBack(t) =>
        Active(t) /\ Active(t)' /\ turn'[t].msg = turn[t].msg
  BY DEF Works, Commits, RollsBack, Active, InAgent
<1>7. Begins(t) \/ Admits(t) \/ Works(t) \/ Commits(t) \/ RollsBack(t) \/ Ends(t)
  BY DEF StepOf
<1>8. Admits(t) /\ turn[t].msg = m => /\ t \notin Claims(m)
                                      /\ Claims(m)' = Claims(m) \cup {t}
  BY <1>1, <1>2, <1>3
<1>9. Ends(t) => Claims(m)' = Claims(m) \ {t}
  BY <1>1, <1>2, <1>4
<1>10. ~Ends(t) /\ ~(Admits(t) /\ turn[t].msg = m) => Claims(m)' = Claims(m)
  BY <1>1, <1>2, <1>3, <1>5, <1>6, <1>7
<1> QED BY <1>8, <1>9, <1>10

LEMMA BudgetKept ==
  ASSUME Frame, NEW t \in Turns, StepOf(t), NEW m \in Messages, Budget(m)
  PROVE  Budget(m)'
<1> DEFINE P == m \in stored \/ Pending(m)
<1>1. /\ tally[m].answered \in Nat /\ tally[m].undone \in Nat
      /\ Cardinality(Claims(m)) \in Nat
      /\ IsFiniteSet(Claims(m))
  BY ClaimsFinite DEF Frame, TypeOK, Tally
<1>2. tally[m].answered + Cardinality(Claims(m)) <= tally[m].undone + (IF P THEN 1 ELSE 0)
  BY DEF Budget
<1>3. SUFFICES tally'[m].answered + Cardinality(Claims(m)')
                 <= tally'[m].undone + (IF P' THEN 1 ELSE 0)
  BY DEF Budget
\* The turns that do not take the step keep their claims.
<1>4. \A u \in Claims(m) \ {t} : /\ u \in Claims(m)'
                                 /\ turn'[u] = turn[u]
  BY DEF StepOf, Others, Claims, Active, InAgent
<1>5. t \in Claims(m) => /\ turn[t].msg = m
                         /\ Active(t)
  BY DEF Claims
<1>6. CASE Admits(t) /\ turn[t].msg = m
  <2>1. ~P
    <3>1. m \notin stored
      BY <1>6 DEF Admits
    <3>2. ASSUME NEW u \in Claims(m), "message" \in turn[u].pend
          PROVE  FALSE
      <4>1. u \in Turns /\ Active(u) /\ Busy(u) /\ turn[u].msg = m
        BY <3>2 DEF Claims, Active, InAgent, Busy
      <4>2. u # t
        BY <1>6, <4>1 DEF Admits, Active, InAgent
      <4>3. turn[u].row
        BY <3>2, <4>1 DEF Frame, Each, Locking
      <4>4. ClientOf(u) = ClientOf(t)
        BY <1>6, <4>1 DEF ClientOf
      <4> QED BY <1>6, <4>1, <4>2, <4>3, <4>4 DEF Admits, RowFree, Busy
    <3> QED BY <3>1, <3>2 DEF Pending
  <2>2. Cardinality(Claims(m)') = Cardinality(Claims(m)) + 1
    BY <1>1, <1>6, ClaimsMove, FS_AddElement
  <2>3. P'
    <3>1. t \in Claims(m)' /\ "message" \in turn'[t].pend
      BY <1>6, ClaimsMove DEF Admits
    <3> QED BY <3>1 DEF Pending
  <2>4. tally' = tally
    BY <1>6 DEF Admits
  <2> QED BY <1>1, <1>2, <2>1, <2>2, <2>3, <2>4
<1>7. CASE Ends(t)
  <2>1. Claims(m)' = Claims(m) \ {t}
    BY <1>7, ClaimsMove
  <2>2. stored' = stored
    BY <1>7 DEF Ends
  <2>3. /\ tally'[m].undone = tally[m].undone
        /\ \/ tally'[m].answered = tally[m].answered
           \/ /\ tally'[m].answered = tally[m].answered + 1
              /\ turn[t].pc = "reply" /\ turn[t].msg = m
    BY <1>7 DEF Ends, Frame, TypeOK, Tally
  <2>4. CASE t \notin Claims(m)
    <3>1. Claims(m)' = Claims(m)
      BY <2>1, <2>4
    <3>2. P => P'
      BY <1>4, <2>2, <2>4 DEF Pending
    <3>3. tally'[m].answered = tally[m].answered
      BY <2>3, <2>4 DEF Claims, Active
    <3> QED BY <1>1, <1>2, <2>3, <3>1, <3>2, <3>3
  <2>5. CASE t \in Claims(m)
    <3>1. Cardinality(Claims(m)') = Cardinality(Claims(m)) - 1
      BY <1>1, <2>1, <2>5, FS_RemoveElement
    <3>2. CASE tally'[m].answered = tally[m].answered
      BY <1>1, <1>2, <2>3, <3>1, <3>2
    <3>3. CASE turn[t].pc = "reply"
      <4>1. "message" \notin turn[t].pend
        BY <3>3 DEF Frame, Each, Locking, Busy, InAgent
      <4>2. P => P'
        BY <1>4, <2>2, <4>1 DEF Pending
      <4> QED BY <1>1, <1>2, <2>3, <3>1, <4>2
    <3> QED BY <2>3, <3>2, <3>3
  <2> QED BY <2>4, <2>5
<1>8. CASE RollsBack(t) /\ t \in Claims(m) /\ "message" \in turn[t].pend
  <2>1. Claims(m)' = Claims(m)
    <3>1. turn'[t].pc = "agent" /\ InAgent(t)
      BY <1>8 DEF RollsBack
    <3>2. ~Ends(t) /\ ~Admits(t)
      BY <3>1 DEF Ends, Admits, InAgent, Idle
    <3> QED BY <3>2, ClaimsMove
  <2>2. /\ tally'[m].undone = tally[m].undone + 1
        /\ tally'[m].answered = tally[m].answered
    BY <1>5, <1>8 DEF RollsBack, Frame, TypeOK, Tally
  <2> QED BY <1>1, <1>2, <2>1, <2>2
<1>9. CASE /\ ~(Admits(t) /\ turn[t].msg = m) /\ ~Ends(t)
           /\ ~(RollsBack(t) /\ t \in Claims(m) /\ "message" \in turn[t].pend)
  <2>1. Claims(m)' = Claims(m)
    BY <1>9, ClaimsMove
  <2>2. tally'[m] = tally[m]
    <3>1. CASE RollsBack(t) /\ "message" \in turn[t].pend
      <4>1. turn[t].msg # m
        BY <1>9, <3>1 DEF Claims, RollsBack, Active
      <4> QED BY <3>1, <4>1 DEF RollsBack, Frame, TypeOK
    <3>2. CASE ~(RollsBack(t) /\ "message" \in turn[t].pend)
      BY <1>9, <3>2 DEF StepOf, Begins, Admits, Works, Commits, RollsBack
    <3> QED BY <3>1, <3>2
  <2>3. ASSUME t \in Claims(m), "message" \in turn[t].pend
        PROVE  P'
    <3>1. CASE Commits(t)
      BY <1>5, <2>3, <3>1 DEF Commits, Stored
    <3>2. CASE Works(t)
      <4>1. t \in Claims(m)' /\ "message" \in turn'[t].pend
        BY <2>1, <2>3, <3>2 DEF Works
      <4> QED BY <4>1 DEF Pending
    <3>3. ~Begins(t) /\ ~Admits(t)
      BY <1>5, <2>3 DEF Begins, Admits, Busy, Active, InAgent
    <3> QED BY <1>9, <2>3, <3>1, <3>2, <3>3 DEF StepOf
  <2>4. P => P'
    BY <1>4, <2>3, StoredGrows DEF Pending
  <2> QED BY <1>1, <1>2, <2>1, <2>2, <2>4
<1> QED BY <1>6, <1>7, <1>8, <1>9

LEMMA KeptKept ==
  ASSUME Frame, NEW t \in Turns, StepOf(t), NEW m \in Messages, Kept(m)
  PROVE  Kept(m)'
<1> SUFFICES ASSUME m \in stored'
             PROVE  \/ tally'[m].answered > 0
                    \/ tally'[m].lost
                    \/ \E u \in Claims(m)' : turn'[u].conv \in DOMAIN convs'
  BY DEF Kept
<1>1. DOMAIN convs \subseteq DOMAIN convs'
  BY ConvsGrow
<1>2. tally[m].answered \in Nat
  BY DEF Frame, TypeOK, Tally
<1>3. \A u \in Claims(m) \ {t} : u \in Claims(m)' /\ turn'[u] = turn[u]
  BY DEF StepOf, Others, Claims, Active, InAgent
<1>4. t \in Claims(m) => turn[t].msg = m /\ Active(t)
  BY DEF Claims
\* What was answered or lost remains so.
<1>5. /\ tally[m].answered > 0 => tally'[m].answered > 0
      /\ tally[m].lost => tally'[m].lost
  <2>1. CASE Begins(t) \/ Admits(t) \/ Works(t) \/ Commits(t)
    BY <2>1 DEF Begins, Admits, Works, Commits
  <2>2. CASE RollsBack(t)
    BY <2>2 DEF RollsBack, Frame, TypeOK, Tally
  <2>3. CASE Ends(t)
    BY <1>2, <2>3 DEF Ends, Frame, TypeOK, Tally
  <2> QED BY <2>1, <2>2, <2>3 DEF StepOf
<1>6. CASE Commits(t) /\ t \in Claims(m) /\ "message" \in turn[t].pend
  <2>1. turn[t].conv \in DOMAIN convs'
    <3>1. HasConversation(t)
      BY <1>4, <1>6 DEF Frame, Each, Grounded
    <3> QED BY <1>1, <1>6, <3>1, CommittedRows DEF HasConversation, Commits, Frame
  <2>2. t \in Claims(m)' /\ turn'[t].conv = turn[t].conv
    BY <1>4, <1>6 DEF Commits, Claims, Active, InAgent
  <2> QED BY <2>1, <2>2
<1>7. CASE ~(Commits(t) /\ t \in Claims(m) /\ "message" \in turn[t].pend)
  <2>1. m \in stored
    <3>1. CASE Commits(t)
      BY <1>7, <3>1 DEF Commits, Stored, Claims, Active
    <3>2. CASE ~Commits(t)
      BY <3>2 DEF StepOf, Begins, Admits, Works, RollsBack, Ends
    <3> QED BY <3>1, <3>2
  <2>2. SUFFICES ASSUME NEW u \in Claims(m), turn[u].conv \in DOMAIN convs
                 PROVE  \/ tally'[m].answered > 0
                        \/ tally'[m].lost
                        \/ \E v \in Claims(m)' : turn'[v].conv \in DOMAIN convs'
    BY <1>5, <2>1 DEF Kept
  <2>3. CASE u # t
    BY <1>1, <1>3, <2>2, <2>3
  <2>4. CASE u = t /\ Ends(t)
    <3>1. m = turn[t].msg /\ Active(t) /\ HasConversation(t)
      BY <1>4, <2>2, <2>4 DEF HasConversation
    <3>2. \/ tally' = [tally EXCEPT ![m].answered = @ + 1]
          \/ tally' = [tally EXCEPT ![m].lost = TRUE]
      BY <2>4, <3>1 DEF Ends, Active, InAgent
    <3> QED BY <1>2, <3>2 DEF Frame, TypeOK, Tally
  <2>5. CASE u = t /\ ~Ends(t)
    <3>1. InAgent(t) \/ turn[t].pc = "reply"
      BY <1>4, <2>5 DEF Active
    <3>2. Works(t) \/ Commits(t) \/ RollsBack(t)
      BY <2>5, <3>1 DEF StepOf, Begins, Admits, Busy, InAgent
    <3>3. /\ turn'[t].msg = turn[t].msg /\ turn'[t].conv = turn[t].conv
          /\ Active(t)'
      BY <3>2 DEF Works, Commits, RollsBack, Active, InAgent
    <3>4. t \in Claims(m)'
      BY <1>4, <2>5, <3>3 DEF Claims
    <3> QED BY <1>1, <2>2, <2>5, <3>3, <3>4
  <2> QED BY <2>3, <2>4, <2>5
<1> QED BY <1>6, <1>7

----------------------------------------------------------------------------
(* The theorems.                                                           *)

LEMMA InitInv == Init => InbInv
<1> SUFFICES ASSUME Init
             PROVE  InbInv
  OBVIOUS
<1>1. TypeOK
  BY InboundAssumption DEF Init, TypeOK, Tally, Idle
<1>2. \A t \in Turns : ~Busy(t) /\ ~Active(t)
  BY DEF Init, Idle, Busy, Active, InAgent
<1>3. Each /\ AllApart
  BY <1>2 DEF Each, AllApart, Locking, Grounded, Remembers, Steady, Apart
<1>4. LeadQueuedOnce /\ AllKept
  BY DEF Init, LeadQueuedOnce, AllKept, Kept
<1>5. ASSUME NEW m \in Messages
      PROVE  Budget(m)
  <2>1. Claims(m) = {}
    BY <1>2 DEF Claims
  <2>2. Cardinality(Claims(m)) = 0
    BY <2>1, FS_EmptySet
  <2>3. tally[m].answered = 0 /\ tally[m].undone = 0
    BY DEF Init
  <2> QED BY <2>2, <2>3 DEF Budget
<1> QED BY <1>1, <1>3, <1>4, <1>5 DEF InbInv, Frame, InBudget

LEMMA InvKept ==
  ASSUME InbInv, [Next]_vars
  PROVE  InbInv'
<1> USE DEF InbInv
<1>1. Frame'
  BY FrameKept
<1>2. CASE Quiet
  <2>1. \A m \in Messages : Claims(m)' = Claims(m)
    BY <1>2 DEF Quiet, Claims, Active, InAgent
  <2>2. InBudget'
    BY <1>2, <2>1 DEF Quiet, InBudget, Budget, Pending
  <2>3. AllKept'
    BY <1>2, <2>1 DEF Quiet, AllKept, Kept
  <2> QED BY <1>1, <1>2, <2>2, <2>3 DEF Quiet, LeadQueuedOnce
<1>3. ASSUME NEW t \in Turns, StepOf(t)
      PROVE  InbInv'
  BY <1>1, <1>3, LeadsKept, BudgetKept, KeptKept DEF InBudget, AllKept
<1> QED BY <1>2, <1>3, StepTypes

THEOREM Invariance == Spec => []InbInv
<1>1. InbInv /\ UNCHANGED vars => InbInv'
  BY InvKept
<1> QED BY InitInv, InvKept, PTL DEF Spec

\* The variables keep their types, whatever the turns do (TypeOK of Inbound).
THEOREM TypeCorrect == Spec => []TypeOK
<1>1. InbInv => TypeOK
  BY DEF InbInv, Frame
<1> QED BY <1>1, Invariance, PTL

\* No message is answered more often than it was taken out of the history by a
\* failed tool, plus once: redeliveries are stopped even while the first turn is
\* still running.
THEOREM Answered == Spec => []AnsweredOnce
<1>1. ASSUME InbInv
      PROVE  AnsweredOnce
  <2> SUFFICES ASSUME NEW m \in Messages
               PROVE  tally[m].answered <= 1 + tally[m].undone
    BY DEF AnsweredOnce
  <2>1. /\ Cardinality(Claims(m)) \in Nat
        /\ tally[m].answered \in Nat /\ tally[m].undone \in Nat
    BY <1>1, ClaimsFinite DEF InbInv, Frame, TypeOK, Tally
  <2> QED BY <1>1, <2>1 DEF InbInv, InBudget, Budget
<1> QED BY <1>1, Invariance, PTL

\* What a tool commits is committed with the message it answers, so that no
\* redelivery repeats it.
THEOREM Remembered == Spec => []ActsAreRemembered
<1>1. ASSUME InbInv
      PROVE  ActsAreRemembered
  <2> SUFFICES ASSUME NEW t \in Turns, Busy(t), turn[t].acted, ~turn[t].undone
               PROVE  turn[t].msg \in stored
    BY DEF ActsAreRemembered, Busy
  <2>1. Active(t)
    BY <1>1 DEF InbInv, Frame, Each, Locking, TypeOK, Working, Idle, Busy, Active, InAgent
  <2> QED BY <1>1, <2>1 DEF InbInv, Frame, Each, Locking, Remembers, Busy
<1> QED BY <1>1, Invariance, PTL

\* A message that was kept in the history was answered, or lost to a crash or
\* to the channel, once no turn works on it.
THEOREM StoredAnswered == Spec => []StoredIsAnswered
<1>1. ASSUME InbInv
      PROVE  StoredIsAnswered
  BY <1>1 DEF InbInv, Frame, TypeOK, AllKept, Kept, Claims, Active, InAgent, StoredIsAnswered
<1> QED BY <1>1, Invariance, PTL

\* However many turns of a client run at the same time, a conversation has at
\* most one lead in the queue.
THEOREM OneLead == Spec => []LeadQueuedOnce
<1>1. InbInv => LeadQueuedOnce
  BY DEF InbInv
<1> QED BY <1>1, Invariance, PTL

\* On a social channel no turn writes a conversation that was handed over back
\* to the bot.
THEOREM HandoversStick == Spec => HandoverSticks
<1> DEFINE A == \A k \in DOMAIN convs :
                  convs[k].client \in Social /\ convs[k].escalated => convs'[k].escalated
<1>1. ASSUME InbInv, [Next]_vars
      PROVE  A
  <2> SUFFICES ASSUME NEW t \in Turns, StepOf(t), NEW k \in DOMAIN convs,
                      convs[k].client \in Social, convs[k].escalated,
                      InAgent(t), k = turn[t].conv,
                      turn[t].pc = "agent" \/ ClientOf(t) \notin Social
               PROVE  FALSE
    BY <1>1, StepTypes, ConvsGrow DEF InbInv, Quiet
  <2>1. ClientOf(t) = convs[k].client
    BY <1>1 DEF InbInv, Frame, Each, Grounded, Active
  <2> QED BY <1>1, <2>1 DEF InbInv, Frame, Each, Steady, InAgent, Busy
<1>2. InbInv /\ [Next]_vars => [A]_vars
  BY <1>1
<1> QED BY <1>2, Invariance, PTL DEF Spec, HandoverSticks

=============================================================================
