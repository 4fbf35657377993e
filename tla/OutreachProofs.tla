--------------------------- MODULE OutreachProofs ---------------------------
(***************************************************************************)
(* Theorems about the two schedulers.                                      *)
(*                                                                         *)
(* Campaigns, for any number of instances, clients and businesses, and any *)
(* cap: the types, that no client is written to twice about one thing, and *)
(* that claims are lost by aborted passes only.                            *)
(*                                                                         *)
(* Reminders, for any number of instances and appointments, any window and *)
(* any interval that fits it: the types, that no appointment slips through *)
(* between two polls, and that messages are repeated by faults and by the  *)
(* number of instances only.                                               *)
(***************************************************************************)
EXTENDS Campaigns, Reminders, FiniteSetTheorems, TLAPS

ReminderSpec == ReminderInit /\ [][ReminderNext]_reminderVars

----------------------------------------------------------------------------
(* Campaigns: the inductive invariant.                                     *)

\* What a pass still has to do: the ends of the plans it will write about are
\* known, and the message under way is claimed and below the cap.
Prepared(p) ==
  /\ p.kind = "membership_expiring" => \A c \in p.left : p.until[c] \in 0 .. MaxEnd
  /\ p.pc \in {"send", "stamp"} => /\ p.key \in claims
                                   /\ p.sent[BusinessOf[p.key.client]] < Cap

\* The message of a claim is sent after the claim and by its pass alone.
Exclusive ==
  /\ \A i \in Instances : pass[i].pc = "send" => posted[pass[i].key] = 0
  /\ \A i, j \in Instances :
       (pass[i].pc = "send" /\ pass[j].pc = "send" /\ pass[i].key = pass[j].key) => i = j

\* What waits for its stamp was sent.
StampedLast == \A i \in Instances : pass[i].pc = "stamp" => pass[i].key \in tried

\* The claims without an attempt to send them that no pass is about to send.
Abandoned ==
  {k \in claims \ tried : \A i \in Instances : pass[i].pc # "send" \/ pass[i].key # k}

CampaignInv ==
  /\ CampaignTypeOK
  /\ \A i \in Instances : Prepared(pass[i])
  /\ Exclusive
  /\ StampedLast
  /\ NeverTwice
  /\ IsFiniteSet(claims)
  /\ Cardinality(Abandoned) <= aborts

----------------------------------------------------------------------------
(* Lemmas about the state of one pass.                                     *)

\* A client who is listed is one of the clients, and its plan ends on a day.
LEMMA WantedSound ==
  ASSUME CampaignTypeOK, NEW kind \in Kinds
  PROVE  /\ Wanted(kind) \subseteq Clients
         /\ kind = "membership_expiring" =>
              \A c \in Wanted(kind) : ends[c] \in 0 .. MaxEnd
<1>1. kind # "winback" => \A c \in Wanted(kind) : EndsSoon(c)
  BY DEF Wanted
<1>2. \A c \in Clients : EndsSoon(c) => ends[c] \in 0 .. MaxEnd
  BY CampaignsAssumption DEF CampaignTypeOK, EndsSoon, None
<1> QED
  BY <1>1, <1>2 DEF Wanted

\* The pass over what a campaign finds.
LEMMA TodaySound ==
  ASSUME CampaignTypeOK, NEW kind \in Kinds
  PROVE  LET p == Today(kind, Wanted(kind)) IN
         p \in Pass /\ p.pc = "list" /\ Prepared(p)
<1> DEFINE p == Today(kind, Wanted(kind))
<1>1. Asleep \in Pass
  BY CampaignsAssumption DEF Asleep, Pass, None, Kinds
<1>2. [c \in Clients |-> IF c \in Wanted(kind) THEN ends[c] ELSE None]
        \in [Clients -> {None} \cup 0 .. MaxEnd]
  BY DEF CampaignTypeOK
<1>3. /\ p.pc = "list" /\ p.kind = kind /\ p.left = Wanted(kind)
      /\ p.until = [c \in Clients |-> IF c \in Wanted(kind) THEN ends[c] ELSE None]
  BY DEF Today, Asleep
<1>4. p \in Pass
  BY <1>1, <1>2, WantedSound DEF Today, Pass, CampaignTypeOK
<1>5. Prepared(p)
  BY <1>3, WantedSound DEF Prepared
<1> QED
  BY <1>3, <1>4, <1>5

\* A pass at rest has nothing to do.
LEMMA AsleepSound == Asleep \in Pass /\ Asleep.pc = "asleep" /\ Prepared(Asleep)
<1>1. Asleep \in Pass
  BY CampaignsAssumption DEF Asleep, Pass, None, Kinds
<1> QED
  BY <1>1 DEF Asleep, Prepared

\* Being done with a client leaves the others as they were.
LEMMA DropSound ==
  ASSUME NEW p \in Pass, NEW c \in Clients, Prepared(p)
  PROVE  Drop(p, c) \in Pass /\ Drop(p, c).pc = "list" /\ Prepared(Drop(p, c))
<1> DEFINE q == Drop(p, c)
<1>1. [p.until EXCEPT ![c] = None] \in [Clients -> {None} \cup 0 .. MaxEnd]
  BY DEF Pass
<1>2. /\ q.pc = "list" /\ q.kind = p.kind /\ q.left = p.left \ {c}
      /\ q.until = [p.until EXCEPT ![c] = None]
  BY DEF Drop, Pass
<1>3. q \in Pass
  BY <1>1 DEF Drop, Pass
<1>4. \A x \in p.left \ {c} : q.until[x] = p.until[x]
  BY <1>2 DEF Pass
<1>5. Prepared(q)
  BY <1>2, <1>4 DEF Prepared
<1> QED
  BY <1>2, <1>3, <1>5

\* The key that is claimed for a client who is left.
LEMMA KeyOfSound ==
  ASSUME NEW p \in Pass, Prepared(p), NEW c \in p.left
  PROVE  KeyOf(p, c) \in Key
<1>1. CASE p.kind = "winback"
  BY <1>1, CampaignsAssumption DEF KeyOf, Key, Pass, Kinds
<1>2. CASE p.kind # "winback"
  <2>1. p.until[c] \in Nat
    BY <1>2, CampaignsAssumption DEF Prepared, Pass, Kinds
  <2> QED
    BY <1>2, <2>1 DEF KeyOf, Key, Pass, Kinds
<1> QED
  BY <1>1, <1>2

\* What writing the pass of one instance does to the passes of all.
LEMMA SetOne ==
  ASSUME CampaignTypeOK, NEW i \in Instances, NEW p \in Pass, Set(i, p)
  PROVE  /\ pass' \in [Instances -> Pass]
         /\ pass'[i] = p
         /\ \A j \in Instances \ {i} : pass'[j] = pass[j]
BY DEF Set, CampaignTypeOK

----------------------------------------------------------------------------
(* Lemmas about the claims and the messages, one per way a step moves them. *)

\* A step that sends and claims nothing: it takes a pass to another place, and
\* at most stamps a claim whose message was tried.
LEMMA QuietStep ==
  ASSUME CampaignInv, NEW i \in Instances, NEW p \in Pass, Set(i, p),
         pass[i].pc # "send", p.pc \in {"asleep", "list"}, Prepared(p),
         stamped' = stamped \/ (stamped' = stamped \cup {pass[i].key} /\ pass[i].key \in tried),
         UNCHANGED <<day, clientVars, claims, historyVars>>
  PROVE  CampaignInv'
<1> USE DEF CampaignInv
<1>1. /\ pass' \in [Instances -> Pass]
      /\ pass'[i] = p
      /\ \A j \in Instances \ {i} : pass'[j] = pass[j]
  BY SetOne
<1>2. CampaignTypeOK'
  BY <1>1 DEF CampaignTypeOK, clientVars, historyVars
<1>3. \A j \in Instances : Prepared(pass[j])'
  BY <1>1 DEF Prepared, historyVars
<1>4. Exclusive' /\ StampedLast'
  BY <1>1 DEF Exclusive, StampedLast, historyVars
<1>5. NeverTwice' /\ IsFiniteSet(claims)'
  BY DEF NeverTwice, historyVars
<1>6. Abandoned' = Abandoned
  BY <1>1 DEF Abandoned, historyVars
<1> QED
  BY <1>2, <1>3, <1>4, <1>5, <1>6 DEF historyVars

\* A step beside the loop.
LEMMA StepAside ==
  ASSUME CampaignInv, CampaignTypeOK',
         UNCHANGED <<claims, stamped, pass, historyVars>>
  PROVE  CampaignInv'
<1>1. (\A i \in Instances : Prepared(pass[i]))'
  BY DEF CampaignInv, Prepared
<1>2. Exclusive' /\ StampedLast' /\ NeverTwice' /\ IsFiniteSet(claims)'
  BY DEF CampaignInv, Exclusive, StampedLast, NeverTwice, historyVars
<1>3. Abandoned' = Abandoned
  BY DEF Abandoned, historyVars
<1> QED
  BY <1>1, <1>2, <1>3 DEF CampaignInv, historyVars

\* What is sent was claimed, and is sent once: the key leaves the pass with it.
LEMMA SendStep ==
  ASSUME CampaignInv, NEW i \in Instances, NEW p \in Pass, Set(i, p),
         pass[i].pc = "send", p.pc # "send", Prepared(p),
         p.pc = "stamp" => p.key = pass[i].key,
         tried' = tried \cup {pass[i].key},
         posted' = posted \/ posted' = [posted EXCEPT ![pass[i].key] = @ + 1],
         UNCHANGED <<day, clientVars, claims, stamped, aborts>>
  PROVE  CampaignInv'
<1> USE DEF CampaignInv
<1> DEFINE k == pass[i].key
<1>1. /\ pass' \in [Instances -> Pass]
      /\ pass'[i] = p
      /\ \A j \in Instances \ {i} : pass'[j] = pass[j]
  BY SetOne
<1>2. k \in claims /\ posted[k] = 0
  BY DEF Prepared, Exclusive
<1>3. /\ posted' \in [claims -> Nat]
      /\ posted'[k] <= 1
      /\ \A x \in claims \ {k} : posted'[x] = posted[x]
  BY <1>2 DEF CampaignTypeOK
<1>4. CampaignTypeOK'
  BY <1>1, <1>2, <1>3 DEF CampaignTypeOK, clientVars
<1>5. (\A j \in Instances : Prepared(pass[j]))'
  BY <1>1 DEF Prepared
<1>6. \A j \in Instances : pass'[j].pc = "send" =>
        j # i /\ pass'[j] = pass[j] /\ pass[j].key \in claims \ {k}
  BY <1>1 DEF Exclusive, Prepared
<1>7. Exclusive'
  BY <1>3, <1>6 DEF Exclusive
<1>8. StampedLast' /\ NeverTwice'
  BY <1>1, <1>2, <1>3 DEF StampedLast, NeverTwice
<1>9. Abandoned' = Abandoned
  <2>1. ASSUME NEW x \in Abandoned PROVE x \in Abandoned'
    BY <1>6, <2>1 DEF Abandoned
  <2>2. ASSUME NEW x \in Abandoned' PROVE x \in Abandoned
    BY <1>1, <1>6, <2>2 DEF Abandoned
  <2> QED
    BY <2>1, <2>2
<1> QED
  BY <1>4, <1>5, <1>7, <1>8, <1>9

\* A claim is new, and the pass that makes it is the one to send it.
LEMMA ClaimStep ==
  ASSUME CampaignInv, NEW i \in Instances, NEW c \in Clients, Claim(i, c)
  PROVE  CampaignInv'
<1> USE DEF CampaignInv
<1> DEFINE k == KeyOf(pass[i], c)
           p == [pass[i] EXCEPT !.pc = "send", !.key = k]
<1>1. /\ pass[i] \in Pass /\ Prepared(pass[i]) /\ pass[i].pc = "list"
      /\ c \in pass[i].left
      /\ pass[i].sent[BusinessOf[c]] < Cap
      /\ claims' = claims \cup {k} /\ k \notin claims
      /\ Set(i, p)
  <2>1. pass[i] \in Pass /\ Prepared(pass[i])
    BY DEF CampaignTypeOK
  <2>2. pass[i].sent[BusinessOf[c]] \in Nat
    BY <2>1, CampaignsAssumption DEF Pass
  <2> QED
    BY <2>1, <2>2, CampaignsAssumption DEF Claim, CapReached, Free
<1>2. k \in Key /\ k.client = c
  BY <1>1, KeyOfSound DEF KeyOf
<1>3. /\ p \in Pass /\ p.pc = "send" /\ p.key = k
      /\ p.kind = pass[i].kind /\ p.left = pass[i].left
      /\ p.until = pass[i].until /\ p.sent = pass[i].sent
  BY <1>1, <1>2 DEF Pass
<1>4. /\ pass' \in [Instances -> Pass]
      /\ pass'[i] = p
      /\ \A j \in Instances \ {i} : pass'[j] = pass[j]
  BY <1>1, <1>3, SetOne
<1>5. /\ posted' \in [claims' -> Nat]
      /\ posted'[k] = 0
      /\ \A x \in claims : posted'[x] = posted[x]
  BY <1>1 DEF Claim, CampaignTypeOK
<1>6. CampaignTypeOK'
  BY <1>1, <1>2, <1>4, <1>5 DEF CampaignTypeOK, Claim, clientVars
<1> HIDE DEF k, p
<1>7. (\A j \in Instances : Prepared(pass[j]))'
  BY <1>1, <1>2, <1>3, <1>4 DEF Prepared
<1>8. \A j \in Instances \ {i} : pass'[j].pc = "send" =>
        pass[j].pc = "send" /\ pass'[j].key = pass[j].key /\ pass[j].key \in claims
  BY <1>4 DEF Prepared
<1>9. Exclusive'
  <2>1. \A j \in Instances : pass'[j].pc = "send" => posted'[pass'[j].key] = 0
    BY <1>3, <1>4, <1>5, <1>8 DEF Exclusive
  <2>2. \A j, l \in Instances :
          (pass'[j].pc = "send" /\ pass'[l].pc = "send" /\ pass'[j].key = pass'[l].key)
            => j = l
    BY <1>1, <1>3, <1>4, <1>8 DEF Exclusive
  <2> QED
    BY <2>1, <2>2 DEF Exclusive
<1>10. StampedLast' /\ NeverTwice'
  BY <1>1, <1>3, <1>4, <1>5 DEF StampedLast, NeverTwice, Claim
<1>11. IsFiniteSet(claims)'
  BY <1>1, FS_AddElement
<1>12. Abandoned' = Abandoned
  <2>1. tried' = tried
    BY DEF Claim
  <2>2. ASSUME NEW x \in Abandoned PROVE x \in Abandoned'
    BY <1>1, <1>3, <1>4, <2>1, <2>2 DEF Abandoned
  <2>3. ASSUME NEW x \in Abandoned' PROVE x \in Abandoned
    BY <1>1, <1>3, <1>4, <2>1, <2>3 DEF Abandoned
  <2> QED
    BY <2>2, <2>3
<1> QED
  BY <1>6, <1>7, <1>9, <1>10, <1>11, <1>12 DEF Claim

\* A pass that is cut short leaves one claim at most.
LEMMA AbortStep ==
  ASSUME CampaignInv, NEW i \in Instances, Abort(i)
  PROVE  CampaignInv'
<1> USE DEF CampaignInv
<1>1. /\ pass' \in [Instances -> Pass]
      /\ pass'[i] = Asleep
      /\ \A j \in Instances \ {i} : pass'[j] = pass[j]
  BY AsleepSound, SetOne DEF Abort
<1>2. /\ aborts \in Nat /\ aborts' = aborts + 1 /\ aborts' \in 0 .. MaxAborts
      /\ UNCHANGED <<day, clientVars, claims, stamped, posted, tried>>
  BY CampaignsAssumption DEF Abort, CampaignTypeOK
<1>3. CampaignTypeOK'
  BY <1>1, <1>2 DEF CampaignTypeOK, clientVars
<1>4. (\A j \in Instances : Prepared(pass[j]))'
  BY <1>1, <1>2, AsleepSound DEF Prepared
<1>5. Exclusive' /\ StampedLast'
  BY <1>1, <1>2, AsleepSound DEF Exclusive, StampedLast
<1>6. NeverTwice' /\ IsFiniteSet(claims)'
  BY <1>2 DEF NeverTwice
<1>7. Cardinality(Abandoned') <= aborts'
  <2>1. Abandoned' \subseteq Abandoned \cup {pass[i].key}
    BY <1>1, <1>2 DEF Abandoned
  <2>2. IsFiniteSet(Abandoned)
    BY FS_Subset DEF Abandoned
  <2>3. /\ IsFiniteSet(Abandoned \cup {pass[i].key})
        /\ Cardinality(Abandoned \cup {pass[i].key}) <= Cardinality(Abandoned) + 1
    <3> HIDE DEF CampaignInv
    <3>1. Cardinality(Abandoned) \in Nat
      BY <2>2, FS_CardinalityType
    <3>2. /\ IsFiniteSet(Abandoned \cup {pass[i].key})
          /\ \/ Cardinality(Abandoned \cup {pass[i].key}) = Cardinality(Abandoned)
             \/ Cardinality(Abandoned \cup {pass[i].key}) = Cardinality(Abandoned) + 1
      BY <2>2, FS_AddElement
    <3> QED
      BY <3>1, <3>2
  <2>4. Cardinality(Abandoned') <= Cardinality(Abandoned \cup {pass[i].key})
    BY <2>1, <2>3, FS_Subset
  <2>5. /\ Cardinality(Abandoned) \in Nat
        /\ Cardinality(Abandoned \cup {pass[i].key}) \in Nat
        /\ Cardinality(Abandoned') \in Nat
    BY <2>1, <2>2, <2>3, FS_Subset, FS_CardinalityType
  <2> QED
    BY <1>2, <2>3, <2>4, <2>5
<1> QED
  BY <1>3, <1>4, <1>5, <1>6, <1>7

----------------------------------------------------------------------------
(* The steps of the loop.                                                  *)

\* What the invariant says of the pass of an instance.
LEMMA PassSound ==
  ASSUME CampaignInv, NEW i \in Instances
  PROVE  /\ pass[i] \in Pass /\ Prepared(pass[i])
         /\ pass[i].left \subseteq Clients
         /\ pass[i].pc \in {"send", "stamp"} =>
              pass[i].key \in Key /\ pass[i].key.client \in Clients
<1>1. pass[i] \in Pass /\ Prepared(pass[i])
  BY DEF CampaignInv, CampaignTypeOK
<1>2. pass[i].pc \in {"send", "stamp"} => pass[i].key \in Key
  BY <1>1 DEF CampaignInv, CampaignTypeOK, Prepared
<1> QED
  BY <1>1, <1>2 DEF Pass, Key

LEMMA SendSkipped ==
  ASSUME CampaignInv, NEW i \in Instances, SkipSend(i)
  PROVE  CampaignInv'
<1> DEFINE p == Drop(pass[i], pass[i].key.client)
<1>1. p \in Pass /\ p.pc = "list" /\ Prepared(p)
  BY PassSound, DropSound DEF SkipSend
<1> HIDE DEF p
<1>2. /\ pass[i].pc = "send" /\ tried' = tried \cup {pass[i].key} /\ posted' = posted
      /\ Set(i, p)
      /\ UNCHANGED <<day, clientVars, claims, stamped, aborts>>
  BY DEF SkipSend, p
<1> QED
  BY <1>1, <1>2, SendStep

\* Refused, or posted without an answer: the pass goes on to the next client.
LEMMA SendUnconfirmed ==
  ASSUME CampaignInv, NEW i \in Instances, SendRefused(i) \/ SendUnanswered(i)
  PROVE  CampaignInv'
<1> DEFINE p == Drop(pass[i], pass[i].key.client)
<1>1. p \in Pass /\ p.pc = "list" /\ Prepared(p)
  BY PassSound, DropSound DEF SendRefused, SendUnanswered, Sending
<1> HIDE DEF p
<1>2. /\ pass[i].pc = "send" /\ tried' = tried \cup {pass[i].key}
      /\ posted' = posted \/ posted' = [posted EXCEPT ![pass[i].key] = @ + 1]
      /\ Set(i, p)
      /\ UNCHANGED <<day, clientVars, claims, stamped, aborts>>
  BY DEF SendRefused, SendUnanswered, Sending, Post, p
<1> QED
  BY <1>1, <1>2, SendStep

LEMMA SendConfirmed ==
  ASSUME CampaignInv, NEW i \in Instances, SendAccepted(i)
  PROVE  CampaignInv'
<1> DEFINE p == [pass[i] EXCEPT !.pc = "stamp"]
<1>1. /\ pass[i].pc = "send" /\ tried' = tried \cup {pass[i].key}
      /\ posted' = [posted EXCEPT ![pass[i].key] = @ + 1]
      /\ Set(i, p)
      /\ UNCHANGED <<day, clientVars, claims, stamped, aborts>>
  BY DEF SendAccepted, Sending, Post
<1>2. /\ p \in Pass /\ p.pc = "stamp" /\ p.key = pass[i].key /\ p.kind = pass[i].kind
      /\ p.left = pass[i].left /\ p.until = pass[i].until /\ p.sent = pass[i].sent
  BY PassSound DEF Pass
<1> HIDE DEF p
<1>3. Prepared(p)
  BY <1>1, <1>2, PassSound DEF Prepared
<1> QED
  BY <1>1, <1>2, <1>3, SendStep

\* The counter of the business stays within the cap: it was below it.
LEMMA Stamped ==
  ASSUME CampaignInv, NEW i \in Instances, Stamp(i)
  PROVE  CampaignInv'
<1> DEFINE k == pass[i].key
           q == Drop(pass[i], k.client)
           p == [q EXCEPT !.sent[BusinessOf[k.client]] = @ + 1]
<1>1. pass[i].pc = "stamp" /\ k \in claims /\ k \in tried /\ k.client \in Clients
  BY PassSound DEF Stamp, Prepared, CampaignInv, StampedLast
<1>2. q \in Pass /\ q.pc = "list" /\ Prepared(q) /\ q.sent = pass[i].sent
  <2>1. q \in Pass /\ q.pc = "list" /\ Prepared(q)
    BY <1>1, PassSound, DropSound
  <2>2. q.sent = pass[i].sent
    BY <1>1, PassSound DEF Drop, Pass
  <2> QED
    BY <2>1, <2>2
<1>3. /\ BusinessOf[k.client] \in Businesses
      /\ q.sent[BusinessOf[k.client]] + 1 \in 0 .. Cap
  <2>1. BusinessOf[k.client] \in Businesses
    BY <1>1, CampaignsAssumption
  <2>2. q.sent[BusinessOf[k.client]] < Cap
    BY <1>1, <1>2, PassSound DEF Prepared
  <2>3. q.sent[BusinessOf[k.client]] \in 0 .. Cap
    BY <1>2, <2>1 DEF Pass
  <2> HIDE DEF q, k
  <2> QED
    BY <2>1, <2>2, <2>3, CampaignsAssumption
<1>4. Set(i, p) /\ stamped' = stamped \cup {k} /\ UNCHANGED <<day, clientVars, claims, historyVars>>
  BY DEF Stamp
<1> HIDE DEF k, q
<1>5. /\ p \in Pass /\ p.pc = q.pc /\ p.kind = q.kind
      /\ p.left = q.left /\ p.until = q.until
  BY <1>2, <1>3 DEF Pass
<1> HIDE DEF p
<1>6. Prepared(p)
  BY <1>2, <1>5 DEF Prepared
<1> QED
  BY <1>1, <1>2, <1>4, <1>5, <1>6, QuietStep DEF k

----------------------------------------------------------------------------
(* The theorems.                                                           *)

LEMMA CampaignInvInit == CampaignInit => CampaignInv
<1> SUFFICES ASSUME CampaignInit PROVE CampaignInv
  OBVIOUS
<1>1. CampaignTypeOK
  BY AsleepSound, CampaignsAssumption DEF CampaignInit, CampaignTypeOK, None
<1>2. \A i \in Instances : Prepared(pass[i]) /\ pass[i].pc = "asleep"
  BY AsleepSound DEF CampaignInit
<1>3. Exclusive /\ StampedLast /\ NeverTwice
  BY <1>2 DEF CampaignInit, Exclusive, StampedLast, NeverTwice
<1>4. IsFiniteSet(claims) /\ Abandoned = {}
  BY FS_EmptySet DEF CampaignInit, Abandoned
<1>5. Cardinality(Abandoned) <= aborts
  BY <1>4, FS_EmptySet DEF CampaignInit
<1> QED
  BY <1>1, <1>2, <1>3, <1>4, <1>5 DEF CampaignInv

\* The steps of one instance.
LEMMA WorkInv ==
  ASSUME CampaignInv, NEW i \in Instances, Work(i)
  PROVE  CampaignInv'
<1>1. CASE Wake(i) \/ StartWinback(i)
  <2> DEFINE kind == IF pass[i].pc = "asleep" THEN "membership_expiring" ELSE "winback"
             p == Today(kind, Wanted(kind))
  <2>1. /\ pass[i].pc # "send" /\ Set(i, p) /\ stamped' = stamped
        /\ UNCHANGED <<day, clientVars, claims, historyVars>>
    BY <1>1 DEF Wake, StartWinback, Listed
  <2>2. kind \in Kinds
    BY DEF Kinds
  <2> HIDE DEF kind
  <2>3. p \in Pass /\ p.pc = "list" /\ Prepared(p)
    BY <2>2, TodaySound DEF CampaignInv
  <2> HIDE DEF p
  <2> QED
    BY <2>1, <2>3, QuietStep
<1>2. CASE Sleep(i)
  BY <1>2, AsleepSound, QuietStep DEF Sleep, historyVars
<1>3. ASSUME NEW c \in Clients, PassOver(i, c) PROVE CampaignInv'
  <2> DEFINE p == Drop(pass[i], c)
  <2>1. /\ pass[i].pc # "send" /\ Set(i, p) /\ stamped' = stamped
        /\ UNCHANGED <<day, clientVars, claims, historyVars>>
    BY <1>3 DEF PassOver
  <2>2. p \in Pass /\ p.pc = "list" /\ Prepared(p)
    BY PassSound, DropSound
  <2> HIDE DEF p
  <2> QED
    BY <2>1, <2>2, QuietStep
<1>4. ASSUME NEW c \in Clients, Claim(i, c) PROVE CampaignInv'
  BY <1>4, ClaimStep
<1>5. CASE SkipSend(i)
  BY <1>5, SendSkipped
<1>6. CASE SendAccepted(i)
  BY <1>6, SendConfirmed
<1>7. CASE SendRefused(i) \/ SendUnanswered(i)
  BY <1>7, SendUnconfirmed
<1>8. CASE Stamp(i)
  BY <1>8, Stamped
<1> QED
  BY <1>1, <1>2, <1>3, <1>4, <1>5, <1>6, <1>7, <1>8 DEF Work

\* What the clients and the businesses do touches no claim and no pass.
LEMMA BesideInv ==
  ASSUME CampaignInv,
         \/ NextDay
         \/ \E c \in Clients : RenewPlan(c) \/ ComeBack(c)
         \/ \E b \in Businesses : Connect(b) \/ Close(b)
  PROVE  CampaignInv'
<1>1. UNCHANGED <<claims, stamped, pass, historyVars>>
  BY DEF NextDay, RenewPlan, ComeBack, Connect, Close
<1>2. /\ day' \in 0 .. Horizon
      /\ ends' \in [Clients -> {None} \cup 0 .. MaxEnd]
      /\ seen' \in [Clients -> Int]
      /\ templates' = templates /\ open' \subseteq Businesses /\ connected' \subseteq Businesses
  <2> USE CampaignsAssumption DEF CampaignInv, CampaignTypeOK
  <2>1. CASE NextDay
    BY <2>1 DEF NextDay, clientVars
  <2>2. ASSUME NEW c \in Clients, RenewPlan(c)
        PROVE  UNCHANGED <<day, templates, seen, open, connected>>
               /\ ends' \in [Clients -> {None} \cup 0 .. MaxEnd]
    BY <2>2 DEF RenewPlan, None
  <2>3. ASSUME NEW c \in Clients, ComeBack(c)
        PROVE  UNCHANGED <<day, templates, ends, open, connected>>
               /\ seen' \in [Clients -> Int]
    BY <2>3 DEF ComeBack
  <2>4. ASSUME NEW b \in Businesses, Connect(b) \/ Close(b)
        PROVE  /\ UNCHANGED <<day, templates, ends, seen>>
               /\ open' \subseteq Businesses /\ connected' \subseteq Businesses
    BY <2>4 DEF Connect, Close
  <2> QED
    BY <2>1, <2>2, <2>3, <2>4
<1>3. CampaignTypeOK'
  BY <1>1, <1>2 DEF CampaignInv, CampaignTypeOK, historyVars
<1> QED
  BY <1>1, <1>3, StepAside

LEMMA CampaignInvNext == CampaignInv /\ [CampaignNext]_campaignVars => CampaignInv'
<1> SUFFICES ASSUME CampaignInv, [CampaignNext]_campaignVars PROVE CampaignInv'
  OBVIOUS
<1>1. CASE UNCHANGED campaignVars
  <2>1. CampaignTypeOK'
    BY <1>1 DEF campaignVars, clientVars, historyVars, CampaignInv, CampaignTypeOK
  <2> QED
    BY <1>1, <2>1, StepAside DEF campaignVars
<1>2. ASSUME NEW i \in Instances, Work(i) \/ Abort(i) PROVE CampaignInv'
  BY <1>2, WorkInv, AbortStep
<1> QED
  BY <1>1, <1>2, BesideInv DEF CampaignNext

\* The inductive invariant of the campaigns.
THEOREM CampaignInvariant == CampaignSpec => []CampaignInv
BY CampaignInvInit, CampaignInvNext, PTL DEF CampaignSpec

\* Every variable of a campaign has its type: no instance confirms more messages
\* of one pass for a business than the cap (campaign_scheduler.py:114).
THEOREM CampaignTypes == CampaignSpec => []CampaignTypeOK
<1>1. CampaignInv => CampaignTypeOK
  BY DEF CampaignInv
<1> QED
  BY <1>1, CampaignInvariant, PTL

\* Whatever the number of instances, their passes and restarts, no client is
\* written to twice about one end of a plan, or in one week's name.
THEOREM NobodyTwice == CampaignSpec => []NeverTwice
<1>1. CampaignInv => NeverTwice
  BY DEF CampaignInv
<1> QED
  BY <1>1, CampaignInvariant, PTL

\* A claim that no message follows is the price of a pass that was cut short, and
\* each of those costs one.
THEOREM LostByAbortsOnly == CampaignSpec => []LostOnlyByAbort
<1>1. CampaignInv => LostOnlyByAbort
  BY DEF CampaignInv, LostOnlyByAbort, Abandoned
<1> QED
  BY <1>1, CampaignInvariant, PTL

----------------------------------------------------------------------------
(* Reminders: the inductive invariant.                                     *)

\* A poll is due now or later, and within the interval.
Clocked ==
  \A i \in Pollers : poll[i].pc = "asleep" => poll[i].wake \in tick .. (tick + PollInterval)

\* What is marked, and what is about to be, was tried.
Tracked ==
  /\ \A a \in Apts : agenda[a].marked => a \in reached
  /\ \A i \in Pollers : poll[i].apt \subseteq reached

\* Nobody knows an appointment that is not made yet.
Unmade ==
  \A a \in Apts : agenda[a].status = "none" =>
    /\ ~agenda[a].marked
    /\ reminded[a] = 0
    /\ \A i \in Pollers : a \notin poll[i].left \cup poll[i].apt

\* The first tick at which a poll finds a.
Opens(a) == agenda[a].at - HoursBefore - HalfWindow

\* To be tried in time.
Owed(a) ==
  /\ agenda[a].status \in Due
  /\ a \notin reached
  /\ faults = 0
  /\ since[a] + PollInterval <= Ends(a)

\* The next poll of an instance is in time for a; the one under way has found it, or
\* was too early for it.
InTime ==
  \A a \in Apts : Owed(a) =>
    /\ tick <= Ends(a)
    /\ \A i \in Pollers :
         IF poll[i].pc = "asleep" THEN poll[i].wake <= Ends(a)
         ELSE a \in poll[i].left \/ tick < Opens(a) \/ tick = since[a]

\* The instances that are about to mark a, and those that may still send to it.
Marking(a) == {i \in Pollers : a \in poll[i].apt}

StillToSend(a) == {i \in Pollers : a \in poll[i].left \ poll[i].apt}

\* Before a is marked, whoever has sent is about to mark it; from then on each
\* instance that found it earlier may send once more.
Counted ==
  \A a \in Apts :
    IF agenda[a].marked
    THEN reminded[a] + Cardinality(StillToSend(a)) <= Cardinality(Pollers) + faults
    ELSE reminded[a] <= Cardinality(Marking(a)) + faults

RemInv ==
  /\ ReminderTypeOK
  /\ Clocked
  /\ Tracked
  /\ Unmade
  /\ InTime
  /\ Counted

----------------------------------------------------------------------------
(* Lemmas.                                                                 *)

\* Sets of instances are finite, and smaller ones have fewer members.
LEMMA PollersCounted ==
  ASSUME NEW S \in SUBSET Pollers
  PROVE  /\ IsFiniteSet(S)
         /\ Cardinality(S) \in Nat
         /\ Cardinality(Pollers) \in Nat
         /\ Cardinality(S) <= Cardinality(Pollers)
         /\ \A T \in SUBSET S : Cardinality(T) <= Cardinality(S)
<1>1. IsFiniteSet(Pollers)
  BY RemindersAssumption
<1>2. IsFiniteSet(S)
  BY <1>1, FS_Subset
<1> QED
  BY <1>1, <1>2, FS_Subset, FS_CardinalityType

\* Steps that send and mark nothing: nobody gets more to send, or forgets a mark.
LEMMA CountStep ==
  ASSUME RemInv, NEW a \in Apts, NEW mine \in SUBSET Pollers, NEW yours \in SUBSET Pollers,
         Marking(a) \subseteq mine, yours \subseteq StillToSend(a),
         agenda'[a].marked = agenda[a].marked, reminded'[a] = reminded[a],
         faults' \in Nat, faults <= faults'
  PROVE  IF agenda'[a].marked
         THEN reminded'[a] + Cardinality(yours) <= Cardinality(Pollers) + faults'
         ELSE reminded'[a] <= Cardinality(mine) + faults'
<1>1. Marking(a) \in SUBSET Pollers /\ StillToSend(a) \in SUBSET Pollers
  BY DEF Marking, StillToSend
<1>2. /\ Cardinality(Marking(a)) <= Cardinality(mine)
      /\ Cardinality(yours) <= Cardinality(StillToSend(a))
  BY <1>1, PollersCounted, Zenon
<1>3. /\ Cardinality(Marking(a)) \in Nat /\ Cardinality(mine) \in Nat
      /\ Cardinality(yours) \in Nat /\ Cardinality(StillToSend(a)) \in Nat
      /\ Cardinality(Pollers) \in Nat
  BY <1>1, PollersCounted
<1>4. reminded[a] \in Nat /\ faults \in Nat
  BY RemindersAssumption DEF RemInv, ReminderTypeOK
<1>5. IF agenda[a].marked
      THEN reminded[a] + Cardinality(StillToSend(a)) <= Cardinality(Pollers) + faults
      ELSE reminded[a] <= Cardinality(Marking(a)) + faults
  BY DEF RemInv, Counted
<1> QED
  BY <1>2, <1>3, <1>4, <1>5

\* A step of the loop of one instance: all but the counting.
LEMMA LoopStep ==
  ASSUME RemInv, NEW i \in Pollers, NEW p \in Poll, SetPoll(i, p), UNCHANGED <<tick, since>>,
         IF p.pc = "mark" THEN \E a \in Apts : p.apt = {a} ELSE p.apt = {},
         agenda' \in [Apts -> Apt],
         \A a \in Apts :
           /\ agenda'[a].status = agenda[a].status
           /\ agenda'[a].at = agenda[a].at
           /\ agenda'[a].marked => agenda[a].marked \/ a \in poll[i].apt,
         reached \subseteq reached', reached' \subseteq Apts, p.apt \subseteq reached',
         reminded' \in [Apts -> Nat],
         \A a \in Apts : agenda[a].status = "none" =>
           reminded'[a] = reminded[a] /\ a \notin p.left \cup p.apt,
         p.pc = "asleep" => p.wake \in tick .. (tick + PollInterval),
         faults' \in 0 .. MaxFaults, faults <= faults',
         \A a \in Apts : (Owed(a) /\ faults' = 0 /\ a \notin reached') =>
           IF p.pc = "asleep" THEN p.wake <= Ends(a)
           ELSE a \in p.left \/ tick < Opens(a) \/ tick = since[a]
  PROVE  ReminderTypeOK' /\ Clocked' /\ Tracked' /\ Unmade' /\ InTime'
<1>1. /\ poll' \in [Pollers -> Poll]
      /\ poll'[i] = p
      /\ \A j \in Pollers \ {i} : poll'[j] = poll[j]
  BY DEF SetPoll, RemInv, ReminderTypeOK
<1>2. ReminderTypeOK'
  BY <1>1 DEF RemInv, ReminderTypeOK
<1>3. Clocked'
  BY <1>1 DEF RemInv, Clocked
<1>4. Tracked'
  BY <1>1 DEF RemInv, Tracked
<1>5. Unmade'
  BY <1>1 DEF RemInv, Unmade
<1>6. InTime'
  <2> SUFFICES ASSUME NEW a \in Apts, Owed(a)'
               PROVE  /\ tick <= Ends(a)'
                      /\ \A j \in Pollers :
                           IF poll'[j].pc = "asleep" THEN poll'[j].wake <= Ends(a)'
                           ELSE a \in poll'[j].left \/ tick < Opens(a)' \/ tick = since[a]
    BY DEF InTime
  <2>1. Ends(a)' = Ends(a) /\ Opens(a)' = Opens(a)
    BY DEF Ends, Opens
  <2>2. a \notin reached' /\ faults' = 0 /\ faults = 0
    BY RemindersAssumption DEF Owed, RemInv, ReminderTypeOK
  <2>3. Owed(a)
    BY <2>1, <2>2 DEF Owed
  <2>4. /\ tick <= Ends(a)
        /\ \A j \in Pollers :
             IF poll[j].pc = "asleep" THEN poll[j].wake <= Ends(a)
             ELSE a \in poll[j].left \/ tick < Opens(a) \/ tick = since[a]
    BY <2>3 DEF RemInv, InTime
  <2>5. IF p.pc = "asleep" THEN p.wake <= Ends(a)
        ELSE a \in p.left \/ tick < Opens(a) \/ tick = since[a]
    BY <2>2, <2>3
  <2> QED
    BY <2>1, <2>4, <2>5, <1>1
<1> QED
  BY <1>2, <1>3, <1>4, <1>5, <1>6

\* What is known of the loop of an instance.
LEMMA LoopFacts ==
  ASSUME RemInv, NEW i \in Pollers
  PROVE  /\ poll[i] \in Poll
         /\ poll[i].pc # "mark" => poll[i].apt = {}
         /\ poll[i].pc = "mark" => \E a \in Apts : poll[i].apt = {a}
         /\ tick \in 0 .. LastTick
         /\ faults \in 0 .. MaxFaults
         /\ MaxFaults \in Nat /\ LastTick \in Nat /\ PollInterval \in Nat
         /\ agenda \in [Apts -> Apt] /\ reminded \in [Apts -> Nat] /\ reached \subseteq Apts
BY RemindersAssumption DEF RemInv, ReminderTypeOK

\* The times of the window, as numbers.
LEMMA WindowFacts ==
  ASSUME RemInv, NEW a \in Apts
  PROVE  /\ Ends(a) \in Int /\ Opens(a) \in Int
         /\ Ends(a) = Opens(a) + 2 * HalfWindow
         /\ PollInterval <= 2 * HalfWindow
         /\ PollInterval \in Nat /\ HalfWindow \in Nat /\ tick \in Nat /\ since[a] \in Nat
         /\ InWindow(a) <=> tick >= Opens(a) /\ tick <= Ends(a)
<1>1. agenda[a].at \in Nat
  <2>1. agenda[a] \in Apt
    BY DEF RemInv, ReminderTypeOK
  <2>2. agenda[a].at \in Times \cup {0}
    BY <2>1 DEF Apt
  <2>3. Times \cup {0} \subseteq Nat
    BY RemindersAssumption
  <2> QED
    BY <2>2, <2>3, Zenon
<1>2. /\ HoursBefore \in Nat /\ HalfWindow \in Nat /\ PollInterval \in Nat
      /\ PollInterval <= 2 * HalfWindow /\ tick \in Nat /\ since[a] \in Nat
  BY RemindersAssumption DEF RemInv, ReminderTypeOK
<1> QED
  BY <1>1, <1>2 DEF Ends, Opens, InWindow

----------------------------------------------------------------------------
(* One lemma for each step.                                                *)

\* Another record for an instance, and nobody gets more to send or forgets a mark.
LEMMA QuietLoop ==
  ASSUME RemInv, NEW i \in Pollers, NEW p \in Poll, SetPoll(i, p), UNCHANGED <<agenda, reminded>>,
         \A a \in Apts : agenda[a].marked /\ a \in p.left \ p.apt => a \in poll[i].left \ poll[i].apt,
         poll[i].apt \subseteq p.apt,
         faults' \in Nat, faults <= faults'
  PROVE  Counted'
<1>1. /\ poll'[i] = p
      /\ \A j \in Pollers \ {i} : poll'[j] = poll[j]
  BY DEF SetPoll, RemInv, ReminderTypeOK
<1> SUFFICES ASSUME NEW a \in Apts
             PROVE  IF agenda[a].marked
                    THEN reminded[a] + Cardinality(StillToSend(a)') <= Cardinality(Pollers) + faults'
                    ELSE reminded[a] <= Cardinality(Marking(a)') + faults'
  BY DEF Counted
<1>2. Marking(a) \subseteq Marking(a)' /\ Marking(a)' \in SUBSET Pollers
  BY <1>1 DEF Marking
<1>3. StillToSend(a)' \in SUBSET Pollers
  BY DEF StillToSend
<1>4. CASE agenda[a].marked
  <2>1. StillToSend(a)' \subseteq StillToSend(a)
    BY <1>1, <1>4 DEF StillToSend
  <2> QED
    BY <2>1, <1>2, <1>3, CountStep
<1>5. CASE ~agenda[a].marked
  BY <1>2, <1>5, CountStep DEF StillToSend
<1> QED
  BY <1>4, <1>5

\* A poll begins: what it has not found is not owed yet.
LEMMA Starts ==
  ASSUME RemInv, NEW i \in Pollers, StartPoll(i)
  PROVE  RemInv'
<1> DEFINE p == [poll[i] EXCEPT !.pc = "list", !.left = Found]
<1>1. poll[i] \in Poll /\ poll[i].apt = {} /\ Found \subseteq Apts
  BY LoopFacts DEF StartPoll, Found
<1>2. p \in Poll /\ p.pc = "list" /\ p.left = Found /\ p.apt = {}
  BY <1>1 DEF Poll
<1>3. SetPoll(i, p) /\ UNCHANGED <<tick, agenda, reminded, reached, since, faults>>
  BY DEF StartPoll
<1>4. ASSUME NEW a \in Apts, Owed(a)
      PROVE  a \in p.left \/ tick < Opens(a)
  <2>1. tick <= Ends(a)
    BY <1>4 DEF RemInv, InTime
  <2>2. ~agenda[a].marked /\ agenda[a].status \in Due
    BY <1>4 DEF Owed, RemInv, Tracked
  <2> QED
    BY <1>2, <2>1, <2>2, WindowFacts DEF Found
<1>5. \A a \in Apts : agenda[a].status = "none" => a \notin p.left \cup p.apt
  BY <1>2 DEF Found, Due
<1>6. ReminderTypeOK' /\ Clocked' /\ Tracked' /\ Unmade' /\ InTime'
  <2> HIDE DEF p
  <2> QED
    BY <1>2, <1>3, <1>4, <1>5, LoopFacts, LoopStep
<1>7. Counted'
  <2>1. \A a \in Apts : agenda[a].marked => a \notin p.left
    BY <1>2 DEF Found
  <2> HIDE DEF p
  <2> QED
    BY <1>1, <1>2, <1>3, <2>1, LoopFacts, QuietLoop
<1> QED
  BY <1>6, <1>7 DEF RemInv

\* A poll ends: what it has not tried can wait for the next one.
LEMMA Stops ==
  ASSUME RemInv, NEW i \in Pollers, EndPoll(i)
  PROVE  RemInv'
<1> DEFINE p == [poll[i] EXCEPT !.pc = "asleep", !.wake = tick + PollInterval]
<1>1. poll[i] \in Poll /\ poll[i].pc = "list" /\ poll[i].left = {} /\ poll[i].apt = {}
  BY LoopFacts DEF EndPoll
<1>2. p \in Poll /\ p.pc = "asleep" /\ p.wake = tick + PollInterval /\ p.left = {} /\ p.apt = {}
  <2>1. tick + PollInterval \in 0 .. (LastTick + PollInterval)
    BY LoopFacts
  <2> QED
    BY <1>1, <2>1 DEF Poll
<1>3. SetPoll(i, p) /\ UNCHANGED <<tick, agenda, reminded, reached, since, faults>>
  BY DEF EndPoll
<1>4. ASSUME NEW a \in Apts, Owed(a)
      PROVE  p.wake <= Ends(a)
  <2>1. tick < Opens(a) \/ tick = since[a]
    BY <1>1, <1>4 DEF RemInv, InTime
  <2>2. since[a] + PollInterval <= Ends(a)
    BY <1>4 DEF Owed
  <2> QED
    BY <1>2, <2>1, <2>2, WindowFacts
<1> HIDE DEF p
<1>5. ReminderTypeOK' /\ Clocked' /\ Tracked' /\ Unmade' /\ InTime'
  <2>1. p.wake \in tick .. (tick + PollInterval)
    BY <1>2, LoopFacts
  <2> QED
    BY <1>2, <1>3, <1>4, <2>1, LoopFacts, LoopStep
<1>6. Counted'
  BY <1>1, <1>2, <1>3, LoopFacts, QuietLoop
<1> QED
  BY <1>5, <1>6 DEF RemInv

\* A message is tried: refused, or taken without an answer.
LEMMA Fails ==
  ASSUME RemInv, NEW i \in Pollers, NEW a \in Apts, RemindRefused(i, a) \/ RemindUnanswered(i, a)
  PROVE  RemInv'
<1> DEFINE p == Next_(poll[i], a)
<1>1. poll[i] \in Poll /\ poll[i].pc = "list" /\ poll[i].apt = {} /\ a \in poll[i].left
  BY LoopFacts DEF RemindRefused, RemindUnanswered, Trying
<1>2. p \in Poll /\ p.pc = "list" /\ p.left = poll[i].left \ {a} /\ p.apt = {}
  BY <1>1 DEF Poll, Next_
<1>3. /\ SetPoll(i, p) /\ UNCHANGED <<tick, agenda, since>> /\ reached' = reached \cup {a}
      /\ \/ UNCHANGED <<reminded, faults>>
         \/ /\ faults < MaxFaults /\ faults' = faults + 1
            /\ reminded' = [reminded EXCEPT ![a] = @ + 1]
  BY DEF RemindRefused, RemindUnanswered, Trying
<1>4. agenda[a].status # "none"
  BY <1>1 DEF RemInv, Unmade
<1> HIDE DEF p
<1>5. ReminderTypeOK' /\ Clocked' /\ Tracked' /\ Unmade' /\ InTime'
  <2>1. /\ faults' \in 0 .. MaxFaults /\ faults <= faults' /\ reminded' \in [Apts -> Nat]
        /\ reached \subseteq reached' /\ reached' \subseteq Apts
        /\ agenda' \in [Apts -> Apt]
    BY <1>3, LoopFacts
  <2>2. \A b \in Apts : agenda[b].status = "none" =>
          reminded'[b] = reminded[b] /\ b \notin p.left \cup p.apt
    BY <1>2, <1>3, <1>4 DEF RemInv, Unmade, ReminderTypeOK
  <2>3. ASSUME NEW b \in Apts, Owed(b), b \notin reached'
        PROVE  b \in p.left \/ tick < Opens(b) \/ tick = since[b]
    <3>1. b # a
      BY <1>3, <2>3
    <3> QED
      BY <1>1, <1>2, <2>3, <3>1 DEF RemInv, InTime
  <2> QED
    BY <1>2, <1>3, <2>1, <2>2, <2>3, LoopStep
<1>6. Counted'
  <2>1. CASE UNCHANGED <<reminded, faults>>
    BY <1>1, <1>2, <1>3, <2>1, LoopFacts, QuietLoop
  <2>2. CASE faults' = faults + 1 /\ reminded' = [reminded EXCEPT ![a] = @ + 1]
    <3> SUFFICES ASSUME NEW b \in Apts
                 PROVE  IF agenda[b].marked
                        THEN reminded'[b] + Cardinality(StillToSend(b)') <= Cardinality(Pollers) + faults'
                        ELSE reminded'[b] <= Cardinality(Marking(b)') + faults'
      BY <1>3 DEF Counted
    <3>1. /\ Marking(b)' = Marking(b) /\ StillToSend(b)' \subseteq StillToSend(b)
          /\ StillToSend(b) \in SUBSET Pollers /\ Marking(b) \in SUBSET Pollers
      BY <1>1, <1>2, <1>3 DEF SetPoll, RemInv, ReminderTypeOK, Marking, StillToSend
    <3>2. /\ Cardinality(StillToSend(b)') <= Cardinality(StillToSend(b))
          /\ Cardinality(StillToSend(b)) \in Nat /\ Cardinality(StillToSend(b)') \in Nat
          /\ Cardinality(Marking(b)) \in Nat /\ Cardinality(Pollers) \in Nat
      BY <3>1, PollersCounted
    <3>3. reminded[b] \in Nat /\ reminded'[b] \in Nat /\ reminded'[b] <= reminded[b] + 1
          /\ faults \in Nat
      BY <2>2, LoopFacts
    <3>4. IF agenda[b].marked
          THEN reminded[b] + Cardinality(StillToSend(b)) <= Cardinality(Pollers) + faults
          ELSE reminded[b] <= Cardinality(Marking(b)) + faults
      BY DEF RemInv, Counted
    <3> QED
      BY <2>2, <3>1, <3>2, <3>3, <3>4
  <2> QED
    BY <1>3, <2>1, <2>2
<1> QED
  BY <1>5, <1>6 DEF RemInv

\* A message is taken: the instance is about to mark it, and will not send it again.
LEMMA Accepts ==
  ASSUME RemInv, NEW i \in Pollers, NEW a \in Apts, RemindAccepted(i, a)
  PROVE  RemInv'
<1> DEFINE p == [poll[i] EXCEPT !.pc = "mark", !.apt = {a}]
<1>1. poll[i] \in Poll /\ poll[i].pc = "list" /\ poll[i].apt = {} /\ a \in poll[i].left
  BY LoopFacts DEF RemindAccepted, Trying
<1>2. p \in Poll /\ p.pc = "mark" /\ p.left = poll[i].left /\ p.apt = {a}
  BY <1>1 DEF Poll
<1>3. /\ SetPoll(i, p) /\ UNCHANGED <<tick, agenda, since, faults>> /\ reached' = reached \cup {a}
      /\ reminded' = [reminded EXCEPT ![a] = @ + 1]
  BY DEF RemindAccepted, Trying
<1>4. agenda[a].status # "none"
  BY <1>1 DEF RemInv, Unmade
<1> HIDE DEF p
<1>5. ReminderTypeOK' /\ Clocked' /\ Tracked' /\ Unmade' /\ InTime'
  <2>1. /\ faults' \in 0 .. MaxFaults /\ faults <= faults' /\ reminded' \in [Apts -> Nat]
        /\ reached \subseteq reached' /\ reached' \subseteq Apts /\ p.apt \subseteq reached'
        /\ agenda' \in [Apts -> Apt]
    BY <1>2, <1>3, LoopFacts
  <2>2. \A b \in Apts : agenda[b].status = "none" =>
          reminded'[b] = reminded[b] /\ b \notin p.left \cup p.apt
    BY <1>2, <1>3, <1>4 DEF RemInv, Unmade, ReminderTypeOK
  <2>3. ASSUME NEW b \in Apts, Owed(b)
        PROVE  b \in p.left \/ tick < Opens(b) \/ tick = since[b]
    BY <1>1, <1>2, <2>3 DEF RemInv, InTime
  <2> QED
    BY <1>2, <1>3, <2>1, <2>2, <2>3, LoopStep
<1>6. Counted'
  <2> SUFFICES ASSUME NEW b \in Apts
               PROVE  IF agenda[b].marked
                      THEN reminded'[b] + Cardinality(StillToSend(b)') <= Cardinality(Pollers) + faults
                      ELSE reminded'[b] <= Cardinality(Marking(b)') + faults
    BY <1>3 DEF Counted
  <2>1. IF agenda[b].marked
        THEN reminded[b] + Cardinality(StillToSend(b)) <= Cardinality(Pollers) + faults
        ELSE reminded[b] <= Cardinality(Marking(b)) + faults
    BY DEF RemInv, Counted
  <2>2. StillToSend(b) \in SUBSET Pollers /\ Marking(b) \in SUBSET Pollers
    BY DEF StillToSend, Marking
  <2>3. CASE b = a
    <3>1. /\ Marking(a)' = Marking(a) \cup {i} /\ i \notin Marking(a)
          /\ StillToSend(a)' = StillToSend(a) \ {i} /\ i \in StillToSend(a)
      BY <1>1, <1>2, <1>3 DEF SetPoll, RemInv, ReminderTypeOK, Marking, StillToSend
    <3>2. IsFiniteSet(Marking(a)) /\ IsFiniteSet(StillToSend(a))
      BY <2>2, <2>3, PollersCounted
    <3>3. /\ Cardinality(Marking(a)') = Cardinality(Marking(a)) + 1
          /\ Cardinality(StillToSend(a)') = Cardinality(StillToSend(a)) - 1
      <4>1. Cardinality(Marking(a) \cup {i}) = Cardinality(Marking(a)) + 1
        BY <3>1, <3>2, FS_AddElement
      <4>2. Cardinality(StillToSend(a) \ {i}) = Cardinality(StillToSend(a)) - 1
        BY <3>1, <3>2, FS_RemoveElement
      <4> QED
        BY <3>1, <4>1, <4>2
    <3>4. reminded[a] \in Nat /\ faults \in Nat /\ reminded'[a] = reminded[a] + 1
      BY <1>3, LoopFacts
    <3>5. Cardinality(Marking(a)) \in Nat /\ Cardinality(StillToSend(a)) \in Nat
          /\ Cardinality(Pollers) \in Nat
      BY <2>2, <2>3, PollersCounted
    <3> QED
      BY <2>1, <2>3, <3>3, <3>4, <3>5
  <2>4. CASE b # a
    <3>1. Marking(b)' = Marking(b) /\ StillToSend(b)' = StillToSend(b)
      BY <1>1, <1>2, <1>3, <2>4 DEF SetPoll, RemInv, ReminderTypeOK, Marking, StillToSend
    <3>2. reminded'[b] = reminded[b]
      BY <1>3, <2>4, LoopFacts
    <3> QED
      BY <2>1, <3>1, <3>2
  <2> QED
    BY <2>3, <2>4
<1> QED
  BY <1>5, <1>6 DEF RemInv

\* The mark: the instances that have it before them are at most the others.
LEMMA Marks ==
  ASSUME RemInv, NEW i \in Pollers, Mark(i)
  PROVE  RemInv'
<1>1. PICK a \in Apts : poll[i].apt = {a} /\ poll[i] \in Poll /\ poll[i].pc = "mark"
  BY LoopFacts DEF Mark
<1> DEFINE p == Next_(poll[i], a)
<1>2. p \in Poll /\ p.pc = "list" /\ p.left = poll[i].left \ {a} /\ p.apt = {}
  BY <1>1 DEF Poll, Next_
<1>3. /\ SetPoll(i, p) /\ SetApt(a, [agenda[a] EXCEPT !.marked = TRUE])
      /\ UNCHANGED <<tick, reminded, reached, since, faults>>
  BY <1>1 DEF Mark
<1>4. /\ agenda' \in [Apts -> Apt]
      /\ agenda'[a].marked
      /\ \A b \in Apts :
           /\ agenda'[b].status = agenda[b].status /\ agenda'[b].at = agenda[b].at
           /\ b # a => agenda'[b] = agenda[b]
  <2>1. agenda \in [Apts -> Apt]
    BY LoopFacts
  <2>2. [agenda[a] EXCEPT !.marked = TRUE] \in Apt
    BY <2>1 DEF Apt
  <2> QED
    BY <1>3, <2>1, <2>2 DEF SetApt, Apt
<1> HIDE DEF p
<1>5. ReminderTypeOK' /\ Clocked' /\ Tracked' /\ Unmade' /\ InTime'
  <2>1. \A b \in Apts : agenda[b].status = "none" => b \notin p.left \cup p.apt
    BY <1>2 DEF RemInv, Unmade
  <2>2. ASSUME NEW b \in Apts, Owed(b)
        PROVE  b \in p.left \/ tick < Opens(b) \/ tick = since[b]
    <3>1. b # a
      BY <1>1, <2>2 DEF RemInv, Tracked, Owed
    <3> QED
      BY <1>1, <1>2, <2>2, <3>1 DEF RemInv, InTime
  <2>3. \A b \in Apts : agenda'[b].marked => agenda[b].marked \/ b \in poll[i].apt
    BY <1>1, <1>4
  <2>4. p.apt \subseteq reached' /\ reached \subseteq reached' /\ reached' \subseteq Apts
    BY <1>2, <1>3, LoopFacts
  <2>5. reminded' \in [Apts -> Nat] /\ faults' \in 0 .. MaxFaults /\ faults <= faults'
    BY <1>3, LoopFacts
  <2> QED
    BY <1>2, <1>3, <1>4, <2>1, <2>2, <2>3, <2>4, <2>5, LoopStep
<1>6. Counted'
  <2> SUFFICES ASSUME NEW b \in Apts
               PROVE  IF agenda'[b].marked
                      THEN reminded[b] + Cardinality(StillToSend(b)') <= Cardinality(Pollers) + faults
                      ELSE reminded[b] <= Cardinality(Marking(b)') + faults
    BY <1>3 DEF Counted
  <2>1. IF agenda[b].marked
        THEN reminded[b] + Cardinality(StillToSend(b)) <= Cardinality(Pollers) + faults
        ELSE reminded[b] <= Cardinality(Marking(b)) + faults
    BY DEF RemInv, Counted
  <2>2. StillToSend(b) \in SUBSET Pollers /\ Marking(b) \in SUBSET Pollers
    BY DEF StillToSend, Marking
  <2>3. StillToSend(b)' = StillToSend(b)
    BY <1>1, <1>2, <1>3 DEF SetPoll, RemInv, ReminderTypeOK, StillToSend
  <2>4. CASE b = a
    <3>1. Marking(b) \cap StillToSend(b) = {}
      BY DEF Marking, StillToSend
    <3>2. Cardinality(Marking(b)) + Cardinality(StillToSend(b)) <= Cardinality(Pollers)
      <4>1. IsFiniteSet(Marking(b)) /\ IsFiniteSet(StillToSend(b)) /\ IsFiniteSet(Pollers)
        BY <2>2, PollersCounted, RemindersAssumption
      <4>2. Cardinality(Marking(b) \cup StillToSend(b)) =
              Cardinality(Marking(b)) + Cardinality(StillToSend(b))
        <5>1. /\ Cardinality(Marking(b) \cup StillToSend(b)) =
                   Cardinality(Marking(b)) + Cardinality(StillToSend(b))
                     - Cardinality(Marking(b) \cap StillToSend(b))
          BY <4>1, FS_Union
        <5>2. Cardinality(Marking(b) \cap StillToSend(b)) = 0
          BY <3>1, FS_EmptySet
        <5>3. Cardinality(Marking(b)) \in Nat /\ Cardinality(StillToSend(b)) \in Nat
          BY <2>2, PollersCounted
        <5> QED
          BY <5>1, <5>2, <5>3
      <4>3. Marking(b) \cup StillToSend(b) \in SUBSET Pollers
        BY <2>2
      <4>4. Cardinality(Marking(b) \cup StillToSend(b)) <= Cardinality(Pollers)
        BY <4>3, PollersCounted
      <4> QED
        BY <4>2, <4>4
    <3>3. reminded[b] \in Nat /\ faults \in Nat
      BY LoopFacts
    <3>4. Cardinality(Marking(b)) \in Nat /\ Cardinality(StillToSend(b)) \in Nat
          /\ Cardinality(Pollers) \in Nat
      BY <2>2, PollersCounted
    <3> QED
      BY <1>4, <2>1, <2>3, <2>4, <3>2, <3>3, <3>4
  <2>5. CASE b # a
    <3>1. Marking(b)' = Marking(b)
      BY <1>1, <1>2, <1>3, <2>5 DEF SetPoll, RemInv, ReminderTypeOK, Marking
    <3> QED
      BY <1>4, <2>1, <2>3, <2>5, <3>1
  <2> QED
    BY <2>4, <2>5
<1> QED
  BY <1>5, <1>6 DEF RemInv

\* A pass that is cut short may leave one message unmarked.
LEMMA Aborts ==
  ASSUME RemInv, NEW i \in Pollers, AbortPoll(i)
  PROVE  RemInv'
<1>1. PICK wake \in {tick, tick + PollInterval} :
        SetPoll(i, [pc |-> "asleep", wake |-> wake, left |-> {}, apt |-> {}])
  BY DEF AbortPoll
<1> DEFINE p == [pc |-> "asleep", wake |-> wake, left |-> {}, apt |-> {}]
<1>2. p \in Poll /\ p.wake \in tick .. (tick + PollInterval)
  <2>1. wake \in 0 .. (LastTick + PollInterval) /\ wake \in tick .. (tick + PollInterval)
    BY LoopFacts
  <2> QED
    BY <2>1 DEF Poll
<1>3. /\ faults' = faults + 1 /\ faults < MaxFaults /\ SetPoll(i, p)
      /\ UNCHANGED <<tick, agenda, reminded, reached, since>>
      /\ p.pc = "asleep" /\ p.left = {} /\ p.apt = {}
  BY <1>1 DEF AbortPoll
<1> HIDE DEF p
<1>4. ReminderTypeOK' /\ Clocked' /\ Tracked' /\ Unmade' /\ InTime'
  <2>1. faults' \in 0 .. MaxFaults /\ faults <= faults' /\ faults' # 0
    BY <1>3, LoopFacts
  <2> QED
    BY <1>2, <1>3, <2>1, LoopFacts, LoopStep
<1>5. Counted'
  <2> SUFFICES ASSUME NEW b \in Apts
               PROVE  IF agenda[b].marked
                      THEN reminded[b] + Cardinality(StillToSend(b)') <= Cardinality(Pollers) + faults'
                      ELSE reminded[b] <= Cardinality(Marking(b)') + faults'
    BY <1>3 DEF Counted
  <2>1. IF agenda[b].marked
        THEN reminded[b] + Cardinality(StillToSend(b)) <= Cardinality(Pollers) + faults
        ELSE reminded[b] <= Cardinality(Marking(b)) + faults
    BY DEF RemInv, Counted
  <2>2. StillToSend(b) \in SUBSET Pollers /\ Marking(b) \in SUBSET Pollers
    BY DEF StillToSend, Marking
  <2>3. StillToSend(b)' \subseteq StillToSend(b) /\ Marking(b)' = Marking(b) \ {i}
    BY <1>3 DEF SetPoll, RemInv, ReminderTypeOK, StillToSend, Marking
  <2>4. IsFiniteSet(Marking(b)) /\ Cardinality(Marking(b)) \in Nat /\ Cardinality(Pollers) \in Nat
    BY <2>2, PollersCounted
  <2>5. Cardinality(Marking(b)) <= Cardinality(Marking(b)') + 1 /\ Cardinality(Marking(b)') \in Nat
    <3>1. Cardinality(Marking(b)') =
            IF i \in Marking(b) THEN Cardinality(Marking(b)) - 1 ELSE Cardinality(Marking(b))
      BY <2>3, <2>4, FS_RemoveElement
    <3>2. Marking(b)' \in SUBSET Pollers
      BY <2>2, <2>3
    <3>3. Cardinality(Marking(b)') \in Nat
      BY <3>2, PollersCounted
    <3> QED
      BY <3>1, <3>3, <2>4
  <2>6. /\ Cardinality(StillToSend(b)') <= Cardinality(StillToSend(b))
        /\ Cardinality(StillToSend(b)) \in Nat /\ Cardinality(StillToSend(b)') \in Nat
    BY <2>2, <2>3, PollersCounted
  <2>7. reminded[b] \in Nat /\ faults \in Nat
    BY LoopFacts
  <2> QED
    BY <1>3, <2>1, <2>4, <2>5, <2>6, <2>7
<1> QED
  BY <1>4, <1>5 DEF RemInv

\* The clock moves while all sleep, and not past the next poll.
LEMMA Ticks ==
  ASSUME RemInv, Advance
  PROVE  RemInv'
<1>1. /\ tick' = tick + 1 /\ tick < LastTick
      /\ \A i \in Pollers : poll[i].pc = "asleep" /\ poll[i].wake > tick
      /\ UNCHANGED <<agenda, poll, reminded, reached, since, faults>>
  BY DEF Advance
<1>2. ReminderTypeOK'
  BY <1>1, RemindersAssumption DEF RemInv, ReminderTypeOK
<1>3. ASSUME NEW i \in Pollers
      PROVE  poll[i].wake \in (tick + 1) .. (tick + 1 + PollInterval)
  <2>1. poll[i].wake \in tick .. (tick + PollInterval) /\ poll[i].wake > tick
    BY <1>1 DEF RemInv, Clocked
  <2> QED
    BY <2>1, LoopFacts
<1>4. Clocked' /\ Tracked' /\ Unmade'
  BY <1>1, <1>3 DEF RemInv, Clocked, Tracked, Unmade
<1>5. InTime'
  <2> SUFFICES ASSUME NEW a \in Apts, Owed(a)'
               PROVE  /\ tick + 1 <= Ends(a)
                      /\ \A i \in Pollers : poll[i].wake <= Ends(a)
    BY <1>1 DEF InTime, Ends
  <2>1. Owed(a)
    BY <1>1 DEF Owed, Ends
  <2>2. \A i \in Pollers : poll[i].wake <= Ends(a)
    BY <1>1, <2>1 DEF RemInv, InTime
  <2>3. PICK i \in Pollers : TRUE
    BY RemindersAssumption
  <2>4. tick + 1 <= poll[i].wake /\ poll[i].wake \in Int /\ Ends(a) \in Int /\ tick \in Nat
    BY <1>3, LoopFacts, WindowFacts
  <2> QED
    BY <2>2, <2>4
<1>6. Counted'
  BY <1>1 DEF RemInv, Counted, Marking, StillToSend
<1> QED
  BY <1>2, <1>4, <1>5, <1>6 DEF RemInv

\* The row of an appointment: none is un-made, or loses its mark.
LEMMA AptStep ==
  ASSUME RemInv, NEW a \in Apts, NEW new \in Apt, SetApt(a, new),
         UNCHANGED <<tick, poll, reminded, reached, faults>>,
         new.status # "none", new.marked = agenda[a].marked,
         since' \in [Apts -> 0 .. LastTick], \A b \in Apts \ {a} : since'[b] = since[b],
         \/ /\ agenda[a].status = "none" /\ new.status \in Due
            /\ since'[a] = tick
         \/ new.status \notin Due
         \/ agenda[a].status \in Due /\ new.at = agenda[a].at /\ since'[a] = since[a]
  PROVE  RemInv'
<1>1. /\ agenda' \in [Apts -> Apt] /\ agenda'[a] = new
      /\ \A b \in Apts \ {a} : agenda'[b] = agenda[b]
  BY DEF SetApt, RemInv, ReminderTypeOK
<1>2. ReminderTypeOK'
  BY <1>1 DEF RemInv, ReminderTypeOK
<1>3. Clocked' /\ Tracked' /\ Unmade'
  BY <1>1 DEF RemInv, Clocked, Tracked, Unmade
<1>4. Counted'
  BY <1>1 DEF RemInv, Counted, Marking, StillToSend
<1>5. InTime'
  <2> SUFFICES ASSUME NEW b \in Apts, Owed(b)'
               PROVE  /\ tick <= Ends(b)'
                      /\ \A i \in Pollers :
                           IF poll[i].pc = "asleep" THEN poll[i].wake <= Ends(b)'
                           ELSE b \in poll[i].left \/ tick < Opens(b)' \/ tick = since'[b]
    BY DEF InTime
  <2>1. CASE agenda'[b].at = agenda[b].at /\ since'[b] = since[b] /\ agenda[b].status \in Due
    <3>1. Ends(b)' = Ends(b) /\ Opens(b)' = Opens(b)
      BY <2>1 DEF Ends, Opens
    <3>2. Owed(b)
      BY <2>1, <3>1 DEF Owed
    <3> QED
      BY <2>1, <3>1, <3>2 DEF RemInv, InTime
  <2>2. CASE since'[b] = tick
    <3>1. Ends(b)' \in Int
      <4>1. agenda'[b] \in Apt
        BY <1>1
      <4>2. agenda'[b].at \in Times \cup {0}
        BY <4>1 DEF Apt
      <4>3. Times \cup {0} \subseteq Nat /\ HoursBefore \in Nat /\ HalfWindow \in Nat
        BY RemindersAssumption
      <4>4. agenda'[b].at \in Nat
        BY <4>2, <4>3, Zenon
      <4> QED
        BY <4>3, <4>4 DEF Ends
    <3>2. tick + PollInterval <= Ends(b)'
      BY <2>2 DEF Owed
    <3>3. \A i \in Pollers :
            poll[i].pc = "asleep" => poll[i].wake \in tick .. (tick + PollInterval)
      BY DEF RemInv, Clocked
    <3>4. tick \in Nat /\ PollInterval \in Nat
      BY WindowFacts
    <3> QED
      BY <2>2, <3>1, <3>2, <3>3, <3>4
  <2> QED
    BY <1>1, <2>1, <2>2 DEF Owed
<1> QED
  BY <1>2, <1>3, <1>4, <1>5 DEF RemInv

\* What happens to appointments beside the loop.
LEMMA AptSteps ==
  ASSUME RemInv, NEW a \in Apts, MakeApt(a) \/ ConfirmApt(a) \/ MoveApt(a) \/ CloseApt(a)
  PROVE  RemInv'
<1>1. agenda[a] \in Apt /\ since \in [Apts -> 0 .. LastTick] /\ tick \in 0 .. LastTick
  BY DEF RemInv, ReminderTypeOK
<1>2. CASE MakeApt(a)
  <2>1. PICK at \in Times : SetApt(a, [status |-> "pending", at |-> at, marked |-> FALSE])
    BY <1>2 DEF MakeApt
  <2> DEFINE new == [status |-> "pending", at |-> at, marked |-> FALSE]
  <2>2. new \in Apt /\ new.status = "pending" /\ new.marked = FALSE
    BY DEF Apt, Due
  <2>3. agenda[a].status = "none" /\ agenda[a].marked = FALSE
    <3>1. agenda[a].status = "none" /\ agenda[a].marked \in BOOLEAN
      BY <1>1, <1>2 DEF MakeApt, Apt
    <3> QED
      BY <3>1 DEF RemInv, Unmade
  <2>4. /\ since' \in [Apts -> 0 .. LastTick] /\ since'[a] = tick
        /\ \A b \in Apts \ {a} : since'[b] = since[b]
        /\ UNCHANGED <<tick, poll, reminded, reached, faults>>
    BY <1>1, <1>2 DEF MakeApt
  <2>5. SetApt(a, new)
    BY <2>1
  <2> HIDE DEF new
  <2> QED
    BY <2>2, <2>3, <2>4, <2>5, AptStep DEF Due
<1>3. CASE ConfirmApt(a)
  <2> DEFINE new == [agenda[a] EXCEPT !.status = "confirmed"]
  <2>1. new \in Apt /\ new.status = "confirmed" /\ new.marked = agenda[a].marked
        /\ new.at = agenda[a].at
    BY <1>1 DEF Apt, Due
  <2>2. SetApt(a, new) /\ UNCHANGED <<tick, poll, reminded, reached, since, faults>>
        /\ agenda[a].status \in Due
    BY <1>3 DEF ConfirmApt, Due
  <2> HIDE DEF new
  <2> QED
    BY <1>1, <2>1, <2>2, AptStep
<1>4. CASE MoveApt(a)
  <2>1. PICK at \in Times :
          SetApt(a, [agenda[a] EXCEPT !.status = "rescheduled", !.at = at])
    BY <1>4 DEF MoveApt
  <2> DEFINE new == [agenda[a] EXCEPT !.status = "rescheduled", !.at = at]
  <2>2. new \in Apt /\ new.status = "rescheduled" /\ new.marked = agenda[a].marked
    BY <1>1 DEF Apt
  <2>3. SetApt(a, new) /\ UNCHANGED <<tick, poll, reminded, reached, since, faults>>
    BY <1>4, <2>1 DEF MoveApt
  <2> HIDE DEF new
  <2> QED
    BY <1>1, <2>2, <2>3, AptStep DEF Due
<1>5. CASE CloseApt(a)
  <2> DEFINE new == [agenda[a] EXCEPT !.status = "closed"]
  <2>1. new \in Apt /\ new.status = "closed" /\ new.marked = agenda[a].marked
    BY <1>1 DEF Apt
  <2>2. SetApt(a, new) /\ UNCHANGED <<tick, poll, reminded, reached, since, faults>>
    BY <1>5 DEF CloseApt
  <2> HIDE DEF new
  <2> QED
    BY <1>1, <2>1, <2>2, AptStep DEF Due
<1> QED
  BY <1>2, <1>3, <1>4, <1>5

----------------------------------------------------------------------------
(* The theorems.                                                           *)

\* No appointment is made, and every instance polls within the interval.
LEMMA ReminderInvInit == ReminderInit => RemInv
<1> SUFFICES ASSUME ReminderInit PROVE RemInv
  OBVIOUS
<1>0. /\ PollInterval \in Nat /\ LastTick \in Nat /\ MaxFaults \in Nat
  BY RemindersAssumption
<1>1. /\ tick = 0 /\ reached = {} /\ faults = 0
      /\ reminded = [a \in Apts |-> 0] /\ since = [a \in Apts |-> 0]
      /\ agenda = [a \in Apts |-> [status |-> "none", at |-> 0, marked |-> FALSE]]
  BY DEF ReminderInit
<1>2. ASSUME NEW i \in Pollers
      PROVE  /\ poll[i].pc = "asleep" /\ poll[i].wake \in 0 .. PollInterval
             /\ poll[i].left = {} /\ poll[i].apt = {} /\ poll[i] \in Poll
  <2>1. poll[i] \in [pc : {"asleep"}, wake : 0 .. (PollInterval - 1), left : {{}}, apt : {{}}]
    BY DEF ReminderInit
  <2>2. \A w \in 0 .. (PollInterval - 1) :
          w \in 0 .. PollInterval /\ w \in 0 .. (LastTick + PollInterval)
    BY <1>0
  <2> QED
    BY <2>1, <2>2 DEF Poll
<1>3. ReminderTypeOK
  <2>1. poll \in [Pollers -> Poll]
    BY <1>2 DEF ReminderInit
  <2> QED
    BY <1>0, <1>1, <1>2, <2>1 DEF ReminderTypeOK, Apt
<1>4. Clocked
  BY <1>0, <1>1, <1>2 DEF Clocked
<1>5. Tracked /\ Unmade
  BY <1>1, <1>2 DEF Tracked, Unmade
<1>6. InTime
  BY <1>1 DEF InTime, Owed, Due
<1>7. Counted
  <2> SUFFICES ASSUME NEW a \in Apts PROVE 0 <= Cardinality(Marking(a)) + 0
    BY <1>1 DEF Counted
  <2>1. Marking(a) \in SUBSET Pollers
    BY DEF Marking
  <2> QED
    BY <2>1, PollersCounted
<1> QED
  BY <1>3, <1>4, <1>5, <1>6, <1>7 DEF RemInv

\* Every step keeps the invariant.
LEMMA ReminderInvNext == RemInv /\ [ReminderNext]_reminderVars => RemInv'
<1> SUFFICES ASSUME RemInv, [ReminderNext]_reminderVars PROVE RemInv'
  OBVIOUS
<1>1. ASSUME NEW i \in Pollers, Polling(i) PROVE RemInv'
  BY <1>1, Starts, Stops, Accepts, Fails, Marks, Aborts DEF Polling
<1>2. CASE Advance
  BY <1>2, Ticks
<1>3. ASSUME NEW a \in Apts, MakeApt(a) \/ ConfirmApt(a) \/ MoveApt(a) \/ CloseApt(a)
      PROVE  RemInv'
  BY <1>3, AptSteps
<1>4. CASE UNCHANGED reminderVars
  <2>1. ReminderTypeOK' /\ Clocked' /\ Tracked' /\ Unmade'
    BY <1>4 DEF reminderVars, RemInv, ReminderTypeOK, Clocked, Tracked, Unmade
  <2>2. InTime' /\ Counted'
    BY <1>4
       DEF reminderVars, RemInv, InTime, Owed, Ends, Opens, Counted, Marking, StillToSend
  <2> QED
    BY <2>1, <2>2 DEF RemInv
<1> QED
  BY <1>1, <1>2, <1>3, <1>4 DEF ReminderNext

\* The invariant holds of every behaviour of the reminder scheduler.
THEOREM ReminderInvariant == ReminderSpec => []RemInv
BY ReminderInvInit, ReminderInvNext, PTL DEF ReminderSpec

\* Every variable of the reminders has its type.
THEOREM ReminderTypes == ReminderSpec => []ReminderTypeOK
<1>1. RemInv => ReminderTypeOK
  BY DEF RemInv
<1> QED
  BY <1>1, ReminderInvariant, PTL

\* An appointment that was made an interval before its window closes is tried by some
\* instance, whatever the phases of the instances.
THEOREM AllAreTried == ReminderSpec => []NoneSlipsThrough
<1>1. RemInv => NoneSlipsThrough
  <2> SUFFICES ASSUME RemInv, NEW a \in Apts, Owed(a), tick > Ends(a) PROVE FALSE
    BY DEF NoneSlipsThrough, Owed
  <2>1. tick <= Ends(a)
    BY DEF RemInv, InTime
  <2> QED
    BY <2>1, WindowFacts
<1> QED
  BY <1>1, ReminderInvariant, PTL

\* A client is reminded of an appointment as often as there are instances, plus once
\* for each aborted pass and lost answer, and not more.
THEOREM RepeatsBounded == ReminderSpec => []RepeatsNeedFaults
<1>1. RemInv => RepeatsNeedFaults
  <2> SUFFICES ASSUME RemInv, NEW a \in Apts
               PROVE  reminded[a] <= Cardinality(Pollers) + faults
    BY DEF RepeatsNeedFaults
  <2>1. Marking(a) \in SUBSET Pollers /\ StillToSend(a) \in SUBSET Pollers
    BY DEF Marking, StillToSend
  <2>2. /\ Cardinality(Marking(a)) \in Nat /\ Cardinality(StillToSend(a)) \in Nat
        /\ Cardinality(Pollers) \in Nat
        /\ Cardinality(Marking(a)) <= Cardinality(Pollers)
    BY <2>1, PollersCounted
  <2>3. reminded[a] \in Nat /\ faults \in Nat
    BY RemindersAssumption DEF RemInv, ReminderTypeOK
  <2>4. IF agenda[a].marked
        THEN reminded[a] + Cardinality(StillToSend(a)) <= Cardinality(Pollers) + faults
        ELSE reminded[a] <= Cardinality(Marking(a)) + faults
    BY DEF RemInv, Counted
  <2> QED
    BY <2>2, <2>3, <2>4
<1> QED
  BY <1>1, ReminderInvariant, PTL
=============================================================================
