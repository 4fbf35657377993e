--------------------------- MODULE BookingProofs ---------------------------
(***************************************************************************)
(* Proofs about Booking for any catalogue, any number of concurrent        *)
(* requests, any pool of identifiers and any set of start times.           *)
(***************************************************************************)
EXTENDS Availability, FiniteSetTheorems, TLAPS

----------------------------------------------------------------------------
(* Lemmas about the occupancy rule and about rooms, for arbitrary rows.    *)

\* The part of a row the occupancy rule reads.
Seatable(f, act) ==
  \A a \in act : f[a].service \in Services /\ f[a].start \in Nat

\* Two sessions of one service that start together overlap: a session lasts.
LEMMA SameStartOverlaps ==
  ASSUME NEW r, NEW q, r.service \in Services, q.service = r.service,
         r.start \in Nat, q.start = r.start
  PROVE  Overlap(r, q)
BY CatalogueAssumption DEF Overlap, EndsAt

\* Sharing time is symmetric.
LEMMA OverlapSymmetric ==
  ASSUME NEW r, NEW q, r.service \in Services, q.service \in Services,
         r.start \in Nat, q.start \in Nat, Overlap(r, q)
  PROVE  Overlap(q, r)
BY CatalogueAssumption DEF Overlap, EndsAt

\* What evaluate_slot promises: when the verdict on a candidate, taken with the
\* capacity of its service over a set that includes the appointments of its
\* professional, is bookable, then its session has room for it.
LEMMA BookableHasRoom ==
  ASSUME NEW f, NEW act, IsFiniteSet(act), Seatable(f, act),
         NEW booked \in SUBSET act, NEW r, NEW x,
         r.service \in Services, r.start \in Nat,
         \A a \in act : f[a].service = r.service /\ f[a].prof = r.prof => a \in booked,
         IsBookable(EvaluateSlot(r, Capacity[r.service], f, booked, x))
  PROVE  HasRoom(f, act, r, x)
<1> DEFINE cap    == Capacity[r.service]
           over   == Overlapping(r, f, booked, x)
           others == {a \in act \ {x} : f[a].service = r.service /\ f[a].prof = r.prof}
           same   == {a \in others : f[a].start = r.start}
           taken  == {a \in over : SameSession(r, f[a])}
<1>1. cap \in Nat \ {0}
  BY CatalogueAssumption
<1>2. ~Blocked(r, cap, f, over) /\ Remaining(r, cap, f, over) > 0
  BY DEF IsBookable, EvaluateSlot
<1>3. \A a \in others : Overlap(r, f[a]) => a \in over
  BY DEF Overlapping
<1>4. \A a \in same : Overlap(r, f[a]) /\ a \in over
  <2> TAKE a \in same
  <2>1. Overlap(r, f[a])
    BY SameStartOverlaps
  <2> QED BY <2>1, <1>3
<1>5. IsFiniteSet(taken) /\ IsFiniteSet(same)
  <2>1. taken \subseteq act /\ same \subseteq act
    BY DEF Overlapping
  <2> QED BY <2>1, FS_Subset
<1>6. CASE cap <= 1
  <2>1. over = {}
    BY <1>2, <1>6 DEF Blocked
  <2>2. same = {}
    BY <2>1, <1>4
  <2>3. Cardinality(same) = 0
    BY <2>2, FS_EmptySet
  <2> QED BY <1>1, <1>3, <2>1, <2>3 DEF HasRoom
<1>7. CASE ~(cap <= 1)
  <2>1. \A a \in over : ~Misaligned(r, f[a])
    BY <1>2, <1>7 DEF Blocked
  <2>2. \A a \in others : Overlap(r, f[a]) => f[a].start = r.start
    BY <2>1, <1>3 DEF Misaligned
  <2>3. Max0(cap - Cardinality(taken)) > 0
    BY <1>2, <1>7 DEF Remaining
  <2>4. Cardinality(taken) \in Nat
    BY <1>5, FS_CardinalityType
  <2>5. Cardinality(taken) < cap
    BY <2>3, <2>4, <1>1 DEF Max0
  <2>6. same \subseteq taken
    BY <1>4 DEF SameSession
  <2>7. Cardinality(same) <= Cardinality(taken) /\ Cardinality(same) \in Nat
    BY <2>6, <1>5, FS_Subset, FS_CardinalityType
  <2> QED BY <2>2, <2>5, <2>7, <2>4, <1>1 DEF HasRoom
<1> QED BY <1>6, <1>7

\* Room is not lost when the appointments around it go away or are untouched.
LEMMA RoomShrinks ==
  ASSUME NEW f, NEW act, IsFiniteSet(act), NEW g, NEW actg, NEW r, NEW x,
         r.service \in Services, HasRoom(f, act, r, x),
         \A a \in actg \ {x} :
            g[a].service = r.service /\ g[a].prof = r.prof => a \in act /\ g[a] = f[a]
  PROVE  HasRoom(g, actg, r, x)
<1> DEFINE others == {a \in act \ {x} : f[a].service = r.service /\ f[a].prof = r.prof}
           otherg == {a \in actg \ {x} : g[a].service = r.service /\ g[a].prof = r.prof}
           same   == {a \in others : f[a].start = r.start}
           sameg  == {a \in otherg : g[a].start = r.start}
<1>1. /\ Cardinality(same) < Capacity[r.service]
      /\ \A a \in others : Overlap(r, f[a]) => f[a].start = r.start
  BY DEF HasRoom
<1>2. \A a \in otherg : a \in others /\ g[a] = f[a]
  OBVIOUS
<1>3. sameg \subseteq same /\ same \subseteq act
  BY <1>2
<1>4. IsFiniteSet(same)
  BY <1>3, FS_Subset
<1>5. /\ Cardinality(sameg) <= Cardinality(same)
      /\ Cardinality(sameg) \in Nat /\ Cardinality(same) \in Nat
  <2>1. IsFiniteSet(sameg)
    BY <1>3, <1>4, FS_Subset
  <2> QED BY <1>3, <1>4, <2>1, FS_Subset, FS_CardinalityType
<1>6. Capacity[r.service] \in Nat
  BY CatalogueAssumption
<1>7. Cardinality(sameg) < Capacity[r.service]
  BY <1>1, <1>5, <1>6
<1>8. \A a \in otherg : Overlap(r, g[a]) => g[a].start = r.start
  BY <1>1, <1>2
<1> QED BY <1>7, <1>8 DEF HasRoom

\* An appointment put where there is room leaves everybody with room.
LEMMA SeatTaken ==
  ASSUME NEW f, NEW act, IsFiniteSet(act), Seatable(f, act), Seated(f, act),
         NEW r, NEW x, r.service \in Services, r.start \in Nat,
         HasRoom(f, act, r, x),
         NEW g, g[x] = r, \A a \in act \ {x} : g[a] = f[a]
  PROVE  Seated(g, act \cup {x})
<1> DEFINE after == act \cup {x}
<1> SUFFICES ASSUME NEW a \in after
             PROVE  HasRoom(g, after, g[a], a)
  BY DEF Seated
<1>1. CASE a = x
  <2>1. \A b \in after \ {x} : b \in act /\ g[b] = f[b]
    OBVIOUS
  <2>2. HasRoom(g, after, r, x)
    BY <2>1, RoomShrinks
  <2> QED BY <1>1, <2>2
<1>2. CASE a # x
  <2>1. a \in act /\ g[a] = f[a] /\ HasRoom(f, act, f[a], a)
    BY <1>2 DEF Seated
  <2>2. f[a].service \in Services /\ f[a].start \in Nat
    BY <2>1 DEF Seatable
  <2>3. CASE ~(r.service = f[a].service /\ r.prof = f[a].prof)
    <3>1. \A b \in after \ {a} :
             g[b].service = f[a].service /\ g[b].prof = f[a].prof
               => b \in act /\ g[b] = f[b]
      BY <2>3
    <3>2. HasRoom(g, after, f[a], a)
      BY <3>1, <2>1, <2>2, RoomShrinks
    <3> QED BY <3>2, <2>1
  <2>4. CASE r.service = f[a].service /\ r.prof = f[a].prof
    <3> DEFINE cap    == Capacity[f[a].service]
               otherf == {b \in act \ {a} : f[b].service = f[a].service /\ f[b].prof = f[a].prof}
               otherg == {b \in after \ {a} : g[b].service = f[a].service /\ g[b].prof = f[a].prof}
               otherx == {b \in act \ {x} : f[b].service = r.service /\ f[b].prof = r.prof}
               samef  == {b \in otherf : f[b].start = f[a].start}
               sameg  == {b \in otherg : g[b].start = f[a].start}
               samex  == {b \in otherx : f[b].start = r.start}
    <3>1. /\ Cardinality(samef) < cap
          /\ \A b \in otherf : Overlap(f[a], f[b]) => f[b].start = f[a].start
      BY <2>1 DEF HasRoom
    <3>2. /\ Cardinality(samex) < cap
          /\ \A b \in otherx : Overlap(r, f[b]) => f[b].start = r.start
      BY <2>4 DEF HasRoom
    <3>3. a \in otherx
      BY <2>1, <2>4, <1>2
    <3>4. \A b \in otherg \ {x} : b \in otherf /\ g[b] = f[b]
      OBVIOUS
    <3>5. \A b \in otherg : Overlap(f[a], g[b]) => g[b].start = f[a].start
      <4> SUFFICES ASSUME NEW b \in otherg, Overlap(f[a], g[b])
                   PROVE  g[b].start = f[a].start
        OBVIOUS
      <4>1. CASE b = x
        <5>1. Overlap(r, f[a])
          BY <4>1, <2>2, OverlapSymmetric
        <5> QED BY <5>1, <3>2, <3>3, <4>1
      <4>2. CASE b # x
        BY <4>2, <3>4, <3>1
      <4> QED BY <4>1, <4>2
    <3>6. IsFiniteSet(samef) /\ IsFiniteSet(samex)
      <4>1. samef \subseteq act /\ samex \subseteq act
        OBVIOUS
      <4> QED BY <4>1, FS_Subset
    <3>7. cap \in Nat
      BY <2>2, CatalogueAssumption
    <3>8. CASE r.start # f[a].start
      <4>1. sameg \subseteq samef
        BY <3>8, <3>4
      <4>2. Cardinality(sameg) <= Cardinality(samef)
        BY <4>1, <3>6, FS_Subset
      <4>3. Cardinality(sameg) \in Nat /\ Cardinality(samef) \in Nat
        BY <4>1, <3>6, FS_Subset, FS_CardinalityType
      <4>4. Cardinality(sameg) < cap
        BY <4>2, <4>3, <3>1, <3>7
      <4> QED BY <4>4, <3>5, <2>1 DEF HasRoom
    <3>9. CASE r.start = f[a].start
      <4> DEFINE rest == samex \ {a}
      <4>1. a \in samex
        BY <3>3, <3>9
      <4>2. sameg \subseteq rest \cup {x}
        BY <3>9, <2>4
      <4>3. x \notin rest
        OBVIOUS
      <4>4. IsFiniteSet(rest) /\ Cardinality(rest) = Cardinality(samex) - 1
        BY <4>1, <3>6, FS_RemoveElement
      <4>5. /\ IsFiniteSet(rest \cup {x})
            /\ Cardinality(rest \cup {x}) = Cardinality(rest) + 1
        BY <4>3, <4>4, FS_AddElement
      <4>6. Cardinality(sameg) <= Cardinality(rest \cup {x}) /\ IsFiniteSet(sameg)
        BY <4>2, <4>5, FS_Subset
      <4>7. Cardinality(sameg) \in Nat /\ Cardinality(samex) \in Nat
        BY <4>6, <3>6, FS_CardinalityType
      <4>8. Cardinality(sameg) < cap
        BY <4>4, <4>5, <4>6, <4>7, <3>2, <3>7
      <4> QED BY <4>8, <3>5, <2>1 DEF HasRoom
    <3> QED BY <3>8, <3>9
  <2> QED BY <2>3, <2>4
<1> QED BY <1>1, <1>2

----------------------------------------------------------------------------
(* What arrives, what a step does, and what is written.                    *)

\* Storing a row in the table adds or replaces exactly that row.
LEMMA StoreRow ==
  ASSUME NEW a \in AptIds, NEW row \in Row, TypeOK, Store(a, row)
  PROVE  /\ DOMAIN appts' = DOMAIN appts \cup {a}
         /\ DOMAIN appts' \subseteq AptIds
         /\ appts' \in [DOMAIN appts' -> Row]
         /\ appts'[a] = row
         /\ \A b \in DOMAIN appts \ {a} : appts'[b] = appts[b]
BY DEF TypeOK, Store

\* A request that is under way is a proper one.
LEMMA RequestTyped ==
  ASSUME NEW t \in Txns, TypeOK, txn[t].pc # "idle"
  PROVE  txn[t] \in Request
BY DEF TypeOK, Idle

\* The end of a request: the others go on as they were.
LEMMA EndTyped ==
  ASSUME NEW t \in Txns, TypeOK, End(t)
  PROVE  /\ lock' \in [Services -> Txns \cup {NoTxn}]
         /\ txn' \in [Txns -> Request \cup {Idle}]
         /\ now' \in 0 .. MaxTime
         /\ txn'[t].pc = "idle"
         /\ \A u \in Txns \ {t} : txn'[u] = txn[u]
BY DEF TypeOK, End, Idle

\* A merge writes columns of the object over the stored row, and no others.
LEMMA MergedRow ==
  ASSUME NEW stored \in Row, NEW row \in Row, NEW diff
  PROVE  /\ Merged(stored, row, diff) \in Row
         /\ Merged(stored, row, diff).service = stored.service
         /\ Merged(stored, row, diff).client = stored.client
         /\ Merged(stored, row, diff).prof = stored.prof
         /\ Merged(stored, row, diff).start
              = IF "start" \in diff THEN row.start ELSE stored.start
         /\ Merged(stored, row, diff).status
              = IF "status" \in diff THEN row.status ELSE stored.status
         /\ Merged(stored, row, diff).amount
              = IF "amount" \in diff THEN row.amount ELSE stored.amount
<1>1. PICK x : x = IF "start" \in diff THEN row.start ELSE stored.start
  OBVIOUS
<1>2. PICK st : st = IF "status" \in diff THEN row.status ELSE stored.status
  OBVIOUS
<1>3. PICK am : am = IF "amount" \in diff THEN row.amount ELSE stored.amount
  OBVIOUS
<1>4. x \in Starts /\ st \in Statuses /\ am \in Amounts \cup {NoAmount}
  BY <1>1, <1>2, <1>3 DEF Row
<1>5. Merged(stored, row, diff) = [stored EXCEPT !.start = x, !.status = st, !.amount = am]
  BY <1>1, <1>2, <1>3 DEF Merged
<1>6. /\ [stored EXCEPT !.start = x, !.status = st, !.amount = am] \in Row
      /\ [stored EXCEPT !.start = x, !.status = st, !.amount = am].service = stored.service
      /\ [stored EXCEPT !.start = x, !.status = st, !.amount = am].client = stored.client
      /\ [stored EXCEPT !.start = x, !.status = st, !.amount = am].prof = stored.prof
      /\ [stored EXCEPT !.start = x, !.status = st, !.amount = am].start = x
      /\ [stored EXCEPT !.start = x, !.status = st, !.amount = am].status = st
      /\ [stored EXCEPT !.start = x, !.status = st, !.amount = am].amount = am
  BY <1>4 DEF Row
<1> QED BY <1>1, <1>2, <1>3, <1>5, <1>6

\* A request begins as its kind asks.  A booking begins without a duplicate, for
\* somebody who may perform it; any other request begins on an active
\* appointment, of which only a move changes the start and only a closing the
\* amount.
BeginsSoundly(q) ==
  /\ q.op \in Writers
  /\ q.pc # "flush"
  /\ q.row.status = AskedStatus(q.op)
  /\ q.op = "complete" => q.row.amount \in Amounts
  /\ q.op \in Moves \cup {"book"} => q.pc # "write"
  /\ IF q.op = "book"
     THEN /\ q.apt = NoApt
          /\ MayPerform(q.row.prof, q.row.service)
          /\ ~HasActiveAt(q.row.client, q.row.service, q.row.start)
     ELSE /\ q.apt \in Active
          /\ q.row.service = appts[q.apt].service
          /\ q.row.prof = appts[q.apt].prof
          /\ q.op \notin Moves => q.row.start = appts[q.apt].start
          /\ q.op # "complete" => q.row.amount = appts[q.apt].amount

LEMMA ArrivesSoundly ==
  ASSUME NEW t \in Txns, TypeOK, Arrive(t)
  PROVE  \E q \in Request : Begin(t, q) /\ BeginsSoundly(q)
<1>1. CASE BeginBook(t)
  <2>1. PICK s \in Services, c \in Clients, p \in Professionals \cup {NoProf}, x \in Starts :
          /\ MayPerform(p, s)
          /\ ~HasActiveAt(c, s, x)
          /\ Begin(t, [pc   |-> IF c \in DOMAIN visits THEN "slot" ELSE "client",
                       op   |-> "book",
                       apt  |-> NoApt,
                       row  |-> [service |-> s, client |-> c, prof |-> p, start |-> x,
                                 status |-> "pending", amount |-> NoAmount],
                       seen |-> IF c \in DOMAIN visits THEN visits[c] ELSE 0,
                       diff |-> {}])
    BY <1>1 DEF BeginBook, Requested
  <2> DEFINE row  == [service |-> s, client |-> c, prof |-> p, start |-> x,
                      status |-> "pending", amount |-> NoAmount]
             seen == IF c \in DOMAIN visits THEN visits[c] ELSE 0
             pc   == IF c \in DOMAIN visits THEN "slot" ELSE "client"
             q    == [pc |-> pc, op |-> "book", apt |-> NoApt, row |-> row, seen |-> seen,
                      diff |-> {}]
  <2>2. /\ row \in Row /\ row.status = "pending"
        /\ row.service = s /\ row.client = c /\ row.prof = p /\ row.start = x
    BY DEF Row, Statuses
  <2>3. seen \in Nat
    BY DEF TypeOK
  <2>4. pc \in {"client", "slot", "write", "flush"} /\ pc # "write" /\ pc # "flush"
    OBVIOUS
  <2>5. Begin(t, q)
    BY <2>1
  <2> HIDE DEF row, seen, pc
  <2>6. q \in Request
    BY <2>2, <2>3, <2>4 DEF Request, Ops
  <2>7. q.op \in Writers
    BY <2>5 DEF Begin
  <2>8. BeginsSoundly(q)
    BY <2>1, <2>2, <2>4, <2>7 DEF BeginsSoundly, AskedStatus
  <2> QED BY <2>5, <2>6, <2>8
<1>2. ASSUME NEW a \in Active, NEW row \in Row, NEW op \in Ops \ {"book"},
             NEW pc \in {"slot", "write"},
             row.status = AskedStatus(op),
             row.service = appts[a].service, row.prof = appts[a].prof,
             op \in Moves => pc = "slot",
             op \notin Moves => row.start = appts[a].start,
             IF op = "complete" THEN row.amount \in Amounts ELSE row.amount = appts[a].amount,
             Begin(t, [pc |-> pc, op |-> op, apt |-> a, row |-> row, seen |-> 0,
                       diff |-> {}])
      PROVE  \E q \in Request : Begin(t, q) /\ BeginsSoundly(q)
  <2> DEFINE q == [pc |-> pc, op |-> op, apt |-> a, row |-> row, seen |-> 0, diff |-> {}]
  <2>1. a \in AptIds
    BY DEF TypeOK, Active
  <2>2. q \in Request
    BY <2>1 DEF Request
  <2>3. q.op \in Writers
    BY <1>2 DEF Begin
  <2>4. BeginsSoundly(q)
    BY <1>2, <2>3 DEF BeginsSoundly
  <2> QED BY <1>2, <2>2, <2>4
<1>3. ASSUME NEW a \in DOMAIN appts
      PROVE  appts[a] \in Row
  BY DEF TypeOK
<1>4. ASSUME NEW a \in DOMAIN appts, NEW st \in Statuses
      PROVE  /\ [appts[a] EXCEPT !.status = st] \in Row
             /\ [appts[a] EXCEPT !.status = st].status = st
             /\ [appts[a] EXCEPT !.status = st].service = appts[a].service
             /\ [appts[a] EXCEPT !.status = st].prof = appts[a].prof
             /\ [appts[a] EXCEPT !.status = st].start = appts[a].start
             /\ [appts[a] EXCEPT !.status = st].amount = appts[a].amount
  BY <1>3 DEF Row
<1>5. \A a \in DOMAIN appts :
        MayChange(appts[a]) \/ MayClose(appts[a]) \/ appts[a].status \in {"pending", "confirmed"}
          => a \in Active
  BY <1>3 DEF MayChange, MayClose, Active, ActiveStatuses, Row, Statuses
<1>6. CASE BeginReschedule(t)
  <2>1. PICK op \in Moves, a \in DOMAIN appts, x \in Starts :
          /\ MayChange(appts[a])
          /\ Begin(t, [pc |-> "slot", op |-> op, apt |-> a,
                       row |-> [appts[a] EXCEPT !.start = x, !.status = "rescheduled"],
                       seen |-> 0, diff |-> {}])
    BY <1>6 DEF BeginReschedule, Moved
  <2> DEFINE row == [appts[a] EXCEPT !.start = x, !.status = "rescheduled"]
  <2>2. /\ row \in Row /\ row.status = "rescheduled" /\ row.amount = appts[a].amount
        /\ row.service = appts[a].service /\ row.prof = appts[a].prof
    BY <1>3 DEF Row, Statuses
  <2>3. op \in Ops \ {"book"} /\ a \in Active /\ op # "complete" /\ AskedStatus(op) = "rescheduled"
    BY <1>5, <2>1 DEF Moves, Ops, AskedStatus
  <2>4. Begin(t, [pc |-> "slot", op |-> op, apt |-> a, row |-> row, seen |-> 0, diff |-> {}])
    BY <2>1
  <2> HIDE DEF row
  <2>5. "slot" \in {"slot", "write"} /\ (op \in Moves => "slot" = "slot") /\ ~(op \notin Moves)
    BY <2>1
  <2> QED BY <1>2, <2>2, <2>3, <2>4, <2>5
<1>7. CASE BeginCancel(t)
  <2>1. PICK a \in DOMAIN appts :
          /\ MayChange(appts[a])
          /\ Begin(t, [pc |-> "write", op |-> "cancel", apt |-> a,
                       row |-> [appts[a] EXCEPT !.status = "cancelled"], seen |-> 0,
                       diff |-> {}])
    BY <1>7 DEF BeginCancel, Cancelled
  <2> DEFINE row == [appts[a] EXCEPT !.status = "cancelled"]
  <2>2. /\ a \in Active /\ row \in Row /\ row.start = appts[a].start /\ row.status = "cancelled"
        /\ row.service = appts[a].service /\ row.prof = appts[a].prof
        /\ row.amount = appts[a].amount
    BY <2>1, <1>4, <1>5 DEF Statuses
  <2>3. /\ "cancel" \in Ops \ {"book"} /\ "cancel" \notin Moves /\ "cancel" # "complete"
        /\ AskedStatus("cancel") = "cancelled"
    BY DEF Ops, Moves, AskedStatus
  <2> QED BY <2>1, <2>2, <2>3, <1>2
<1>8. CASE BeginComplete(t)
  <2>1. PICK a \in DOMAIN appts, amount \in Amounts :
          /\ MayClose(appts[a])
          /\ Begin(t, [pc |-> "write", op |-> "complete", apt |-> a,
                       row |-> [appts[a] EXCEPT !.status = "completed", !.amount = amount],
                       seen |-> 0, diff |-> {}])
    BY <1>8 DEF BeginComplete, Completed
  <2> DEFINE row == [appts[a] EXCEPT !.status = "completed", !.amount = amount]
  <2>2. /\ a \in Active /\ row \in Row /\ row.start = appts[a].start /\ row.status = "completed"
        /\ row.service = appts[a].service /\ row.prof = appts[a].prof
        /\ row.amount \in Amounts
    BY <2>1, <1>3, <1>5 DEF Row, Statuses
  <2>3. /\ "complete" \in Ops \ {"book"} /\ "complete" \notin Moves
        /\ AskedStatus("complete") = "completed"
    BY DEF Ops, Moves, AskedStatus
  <2> QED BY <2>1, <2>2, <2>3, <1>2
<1>9. CASE BeginButton(t)
  <2>1. PICK a \in DOMAIN appts :
          /\ appts[a].status \in {"pending", "confirmed"}
          /\ \/ Begin(t, [pc |-> "write", op |-> "button_confirm", apt |-> a,
                          row |-> [appts[a] EXCEPT !.status = "confirmed"], seen |-> 0,
                          diff |-> {}])
             \/ Begin(t, [pc |-> "write", op |-> "button_cancel", apt |-> a,
                          row |-> [appts[a] EXCEPT !.status = "cancelled"], seen |-> 0,
                          diff |-> {}])
    BY <1>9 DEF BeginButton
  <2> DEFINE row(st) == [appts[a] EXCEPT !.status = st]
  <2>2. /\ a \in Active
        /\ \A st \in {"confirmed", "cancelled"} :
             /\ row(st) \in Row /\ row(st).start = appts[a].start /\ row(st).status = st
             /\ row(st).service = appts[a].service /\ row(st).prof = appts[a].prof
             /\ row(st).amount = appts[a].amount
    <3>1. a \in Active
      BY <2>1, <1>5
    <3>2. {"confirmed", "cancelled"} \subseteq Statuses
      BY DEF Statuses
    <3> QED BY <3>1, <3>2, <1>4
  <2>3. /\ {"button_confirm", "button_cancel"} \subseteq Ops \ (Moves \cup {"book", "complete"})
        /\ AskedStatus("button_confirm") = "confirmed"
        /\ AskedStatus("button_cancel") = "cancelled"
    BY DEF Ops, Moves, AskedStatus
  <2>4. CASE Begin(t, [pc |-> "write", op |-> "button_confirm", apt |-> a,
                       row |-> row("confirmed"), seen |-> 0, diff |-> {}])
    BY <2>2, <2>3, <2>4, <1>2
  <2>5. CASE Begin(t, [pc |-> "write", op |-> "button_cancel", apt |-> a,
                       row |-> row("cancelled"), seen |-> 0, diff |-> {}])
    BY <2>2, <2>3, <2>5, <1>2
  <2> QED BY <2>1, <2>4, <2>5
<1> QED BY <1>1, <1>6, <1>7, <1>8, <1>9 DEF Arrive

\* What a request that begins leaves as it was.
LEMMA BeginLeaves ==
  ASSUME NEW t \in Txns, TypeOK, NEW q, Begin(t, q)
  PROVE  /\ txn[t].pc = "idle" /\ txn'[t] = q
         /\ \A u \in Txns \ {t} : txn'[u] = txn[u]
         /\ appts' = appts /\ visits' = visits /\ lock' = lock /\ now' = now
         /\ Active' = Active
BY DEF TypeOK, Begin, Active

\* A step goes on with the request, gives it up, or stores one row and ends.
GoesOn(t) ==
  /\ UNCHANGED <<appts, visits, now>>
  /\ \/ /\ txn[t].pc = "client"
        /\ txn' = [txn EXCEPT ![t].pc = "slot"]
        /\ lock' = lock
     \/ /\ txn[t].pc = "slot" /\ ServiceAvailable(txn[t]) /\ SlotFree(txn[t])
        /\ txn' = [txn EXCEPT ![t].pc = "write"]
        /\ lock' = Locked(t, txn[t])
     \/ /\ txn[t].pc = "write" /\ txn[t].op \in Merges \cup {"book"}
        /\ \E diff \in SUBSET (Columns \cup {"visits"}) :
             /\ txn' = [txn EXCEPT ![t].pc = "flush", ![t].diff = diff]
             /\ txn[t].op \in Merges => diff = Differing(txn[t].row, appts[txn[t].apt])
        /\ lock' = lock

\* The columns that a request which changes an appointment writes, and the row
\* that they make.
Written(t) == IF txn[t].op \in Merges THEN txn[t].diff ELSE {"status"}

NewRow(t) == Merged(appts[txn[t].apt], txn[t].row, Written(t))

StoresOne(t) ==
  /\ End(t)
  /\ txn[t].pc = IF txn[t].op \in Merges \cup {"book"} THEN "flush" ELSE "write"
  /\ IF txn[t].op = "book"
     THEN \E a \in AptIds \ DOMAIN appts : Store(a, txn[t].row)
     ELSE Store(txn[t].apt, NewRow(t)) /\ UNCHANGED visits

LEMMA StepKinds ==
  ASSUME NEW t \in Txns, TypeOK, Targets, Step(t)
  PROVE  GoesOn(t) \/ Rollback(t) \/ StoresOne(t)
<1>1. CASE AddClient(t)
  BY <1>1 DEF AddClient, GoesOn
<1>2. CASE CheckSlot(t)
  BY <1>2 DEF CheckSlot, GoesOn
<1>3. CASE MergeClient(t)
  <2>1. PICK diff \in SUBSET (Columns \cup {"visits"}) :
          txn' = [txn EXCEPT ![t].pc = "flush", ![t].diff = diff]
    BY <1>3 DEF MergeClient
  <2> QED BY <1>3, <2>1 DEF MergeClient, GoesOn, Merges, Moves
<1>4. CASE Merge(t)
  <2>1. Differing(txn[t].row, appts[txn[t].apt]) \in SUBSET (Columns \cup {"visits"})
    BY DEF Differing
  <2> QED BY <1>4, <2>1 DEF Merge, GoesOn
<1>5. CASE RejectClient(t) \/ RejectSlot(t) \/ RejectPast(t)
  BY <1>5 DEF RejectClient, RejectSlot, RejectPast
<1>6. CASE WriteBooking(t)
  BY <1>6 DEF WriteBooking, StoresOne
<1>7. CASE WriteAppointment(t)
  BY <1>7 DEF WriteAppointment, StoresOne, NewRow, Written, Merges, Moves
<1>8. CASE WriteStatus(t)
  <2>1. /\ txn[t] \in Request /\ txn[t].op # "book" /\ txn[t].op \notin Merges
        /\ txn[t].apt \in DOMAIN appts
    BY <1>8, RequestTyped DEF WriteStatus, Targets, Merges, Moves
  <2>2. appts[txn[t].apt] \in Row
    BY <2>1 DEF TypeOK
  <2>3. NewRow(t) = [appts[txn[t].apt] EXCEPT !.status = txn[t].row.status]
    BY <2>1, <2>2 DEF NewRow, Merged, Written, Row
  <2> QED BY <1>8, <2>1, <2>3 DEF WriteStatus, StoresOne
<1> QED BY <1>1, <1>2, <1>3, <1>4, <1>5, <1>6, <1>7, <1>8 DEF Step

\* What a request that goes on leaves as it was, and what it finds.
LEMMA GoesOnLeaves ==
  ASSUME NEW t \in Txns, TypeOK, GoesOn(t)
  PROVE  /\ txn[t].pc # "idle" /\ txn[t] \in Request /\ txn'[t] \in Request
         /\ txn'[t].op = txn[t].op /\ txn'[t].row = txn[t].row /\ txn'[t].apt = txn[t].apt
         /\ txn'[t].pc \in {"slot", "write", "flush"}
         /\ txn'[t].pc = "write" => txn[t].pc = "slot" /\ SlotFree(txn[t])
         /\ txn'[t].pc = "flush" =>
              /\ txn[t].pc = "write" /\ txn[t].op \in Merges \cup {"book"}
              /\ txn[t].op \in Merges =>
                   \A k \in Columns :
                     k \in txn'[t].diff <=> txn[t].row[k] # appts[txn[t].apt][k]
         /\ \A u \in Txns \ {t} : txn'[u] = txn[u]
         /\ appts' = appts /\ visits' = visits /\ now' = now /\ Active' = Active
<1>1. txn[t].pc # "idle" /\ txn[t] \in Request
  BY RequestTyped DEF GoesOn
<1>2. appts' = appts /\ visits' = visits /\ now' = now /\ Active' = Active
  BY DEF GoesOn, Active
<1>3. CASE /\ txn[t].pc = "client"
           /\ txn' = [txn EXCEPT ![t].pc = "slot"]
  BY <1>1, <1>2, <1>3 DEF TypeOK, Request
<1>4. CASE /\ txn[t].pc = "slot" /\ SlotFree(txn[t])
           /\ txn' = [txn EXCEPT ![t].pc = "write"]
  BY <1>1, <1>2, <1>4 DEF TypeOK, Request
<1>5. CASE /\ txn[t].pc = "write" /\ txn[t].op \in Merges \cup {"book"}
           /\ \E diff \in SUBSET (Columns \cup {"visits"}) :
                /\ txn' = [txn EXCEPT ![t].pc = "flush", ![t].diff = diff]
                /\ txn[t].op \in Merges => diff = Differing(txn[t].row, appts[txn[t].apt])
  <2>1. PICK diff \in SUBSET (Columns \cup {"visits"}) :
          /\ txn' = [txn EXCEPT ![t].pc = "flush", ![t].diff = diff]
          /\ txn[t].op \in Merges => diff = Differing(txn[t].row, appts[txn[t].apt])
    BY <1>5
  <2>2. /\ txn'[t] = [txn[t] EXCEPT !.pc = "flush", !.diff = diff]
        /\ \A u \in Txns \ {t} : txn'[u] = txn[u]
    BY <2>1 DEF TypeOK
  <2>3. /\ txn'[t] \in Request /\ txn'[t].op = txn[t].op /\ txn'[t].row = txn[t].row
        /\ txn'[t].apt = txn[t].apt /\ txn'[t].pc = "flush" /\ txn'[t].diff = diff
    BY <1>1, <2>2 DEF Request
  <2>4. txn[t].op \in Merges =>
          \A k \in Columns : k \in diff <=> txn[t].row[k] # appts[txn[t].apt][k]
    BY <2>1 DEF Differing
  <2> QED BY <1>1, <1>2, <1>5, <2>2, <2>3, <2>4
<1> QED BY <1>3, <1>4, <1>5 DEF GoesOn

----------------------------------------------------------------------------
(* Type correctness.                                                       *)

\* Nothing is stored: the requests are other ones, or at another step.
LEMMA TypedUnstored ==
  ASSUME TypeInv, appts' = appts, visits' = visits, now' = now,
         lock' \in [Services -> Txns \cup {NoTxn}],
         txn' \in [Txns -> Request \cup {Idle}],
         \A t \in Txns : txn'[t].pc # "idle" =>
           \/ /\ txn[t].pc # "idle" /\ txn'[t].op = txn[t].op
              /\ txn'[t].apt = txn[t].apt /\ txn'[t].row = txn[t].row
           \/ IF txn'[t].op = "book"
              THEN txn'[t].apt = NoApt
              ELSE /\ txn'[t].apt \in DOMAIN appts
                   /\ txn'[t].row.service = appts[txn'[t].apt].service
                   /\ txn'[t].row.prof = appts[txn'[t].apt].prof
  PROVE  TypeInv'
<1>1. TypeOK'
  BY DEF TypeInv, TypeOK
<1>2. Targets'
  <2> SUFFICES ASSUME NEW t \in Txns, txn'[t].pc # "idle"
               PROVE  IF txn'[t].op = "book"
                      THEN txn'[t].apt = NoApt
                      ELSE /\ txn'[t].apt \in DOMAIN appts
                           /\ txn'[t].row.service = appts[txn'[t].apt].service
                           /\ txn'[t].row.prof = appts[txn'[t].apt].prof
    BY DEF Targets
  <2> QED BY DEF TypeInv, Targets
<1> QED BY <1>1, <1>2 DEF TypeInv

\* A request that is rolled back leaves the types and the targets as they were.
LEMMA RollbackTyped ==
  ASSUME NEW t \in Txns, TypeInv, Rollback(t)
  PROVE  TypeInv'
BY EndTyped, TypedUnstored DEF Rollback, TypeInv, TypeOK, End

\* Every request begins well formed, on a row that is stored.
LEMMA ArriveTyped ==
  ASSUME NEW t \in Txns, TypeInv, Arrive(t)
  PROVE  TypeInv'
<1>1. PICK q \in Request : Begin(t, q) /\ BeginsSoundly(q)
  BY ArrivesSoundly DEF TypeInv
<1>2. /\ txn'[t] = q
      /\ \A u \in Txns \ {t} : txn'[u] = txn[u]
      /\ appts' = appts /\ visits' = visits /\ now' = now /\ lock' = lock
  BY <1>1, BeginLeaves DEF TypeInv
<1>3. txn' \in [Txns -> Request \cup {Idle}]
  BY <1>1 DEF Begin, TypeInv, TypeOK
<1>4. lock' \in [Services -> Txns \cup {NoTxn}]
  BY <1>2 DEF TypeInv, TypeOK
<1> QED BY <1>1, <1>2, <1>3, <1>4, TypedUnstored DEF BeginsSoundly, Active

\* A request that goes on keeps its kind, its row and its target.
LEMMA GoesOnTyped ==
  ASSUME NEW t \in Txns, TypeInv, GoesOn(t)
  PROVE  TypeInv'
<1>1. /\ txn[t].pc # "idle" /\ txn'[t] \in Request
      /\ txn'[t].op = txn[t].op /\ txn'[t].row = txn[t].row /\ txn'[t].apt = txn[t].apt
      /\ \A u \in Txns \ {t} : txn'[u] = txn[u]
      /\ appts' = appts /\ visits' = visits /\ now' = now
  BY GoesOnLeaves DEF TypeInv
<1>2. txn' \in [Txns -> Request \cup {Idle}]
  <2>1. /\ DOMAIN txn' = Txns
        /\ txn' = [u \in Txns |-> txn'[u]]
    BY DEF GoesOn, TypeInv, TypeOK
  <2>2. \A u \in Txns : txn'[u] \in Request \cup {Idle}
    BY <1>1 DEF TypeInv, TypeOK
  <2> QED BY <2>1, <2>2
<1>3. lock' \in [Services -> Txns \cup {NoTxn}]
  BY DEF GoesOn, Locked, TypeInv, TypeOK
<1> QED BY <1>1, <1>2, <1>3, TypedUnstored

\* The row that a change of a stored appointment makes.
LEMMA NewRowTyped ==
  ASSUME NEW t \in Txns, TypeInv, StoresOne(t), txn[t].op # "book"
  PROVE  /\ txn[t] \in Request /\ txn[t].pc # "idle"
         /\ txn[t].apt \in AptIds /\ txn[t].apt \in DOMAIN appts
         /\ appts[txn[t].apt] \in Row /\ txn[t].row \in Row /\ NewRow(t) \in Row
         /\ txn[t].row.service = appts[txn[t].apt].service
         /\ txn[t].row.prof = appts[txn[t].apt].prof
         /\ NewRow(t).service = appts[txn[t].apt].service
         /\ NewRow(t).client = appts[txn[t].apt].client
         /\ NewRow(t).prof = appts[txn[t].apt].prof
         /\ NewRow(t).start
              = IF "start" \in Written(t) THEN txn[t].row.start ELSE appts[txn[t].apt].start
         /\ NewRow(t).status
              = IF "status" \in Written(t) THEN txn[t].row.status ELSE appts[txn[t].apt].status
         /\ NewRow(t).amount
              = IF "amount" \in Written(t) THEN txn[t].row.amount ELSE appts[txn[t].apt].amount
<1>0. TypeOK /\ Targets
  BY DEF TypeInv
<1>1. txn[t].pc # "idle"
  BY DEF StoresOne
<1>2. txn[t] \in Request /\ txn[t].row \in Row
  BY <1>0, <1>1, RequestTyped DEF Request
<1>3. /\ txn[t].apt \in DOMAIN appts /\ txn[t].apt \in AptIds
      /\ txn[t].row.service = appts[txn[t].apt].service
      /\ txn[t].row.prof = appts[txn[t].apt].prof
  BY <1>0, <1>1 DEF Targets, TypeOK
<1>4. appts[txn[t].apt] \in Row
  BY <1>0, <1>3 DEF TypeOK
<1> QED BY <1>1, <1>2, <1>3, <1>4, MergedRow DEF NewRow

\* A commit stores one well-formed row, which keeps the service and the
\* professional of the row it replaces; the others stay as they were.
LEMMA StoresRow ==
  ASSUME NEW t \in Txns, TypeInv, StoresOne(t)
  PROVE  \E a \in AptIds, row \in Row :
           /\ Store(a, row)
           /\ txn[t].op = "book" => a \notin DOMAIN appts /\ row = txn[t].row
           /\ txn[t].op # "book" => a = txn[t].apt /\ a \in DOMAIN appts /\ row = NewRow(t)
           /\ a \in DOMAIN appts => /\ row.service = appts[a].service
                                    /\ row.prof = appts[a].prof
           /\ DOMAIN appts' = DOMAIN appts \cup {a}
           /\ DOMAIN appts' \subseteq AptIds
           /\ appts' \in [DOMAIN appts' -> Row]
           /\ appts'[a] = row
           /\ \A b \in DOMAIN appts \ {a} : appts'[b] = appts[b]
<1>0. TypeOK /\ Targets
  BY DEF TypeInv
<1>1. CASE txn[t].op = "book"
  <2>1. txn[t] \in Request /\ txn[t].row \in Row
    BY <1>0, <1>1, RequestTyped DEF StoresOne, Request
  <2>2. PICK a \in AptIds \ DOMAIN appts : Store(a, txn[t].row)
    BY <1>1 DEF StoresOne
  <2> QED BY <1>0, <1>1, <2>1, <2>2, StoreRow
<1>2. CASE txn[t].op # "book"
  <2>1. /\ txn[t].apt \in AptIds /\ txn[t].apt \in DOMAIN appts /\ NewRow(t) \in Row
        /\ NewRow(t).service = appts[txn[t].apt].service
        /\ NewRow(t).prof = appts[txn[t].apt].prof
    BY <1>2, NewRowTyped
  <2>2. Store(txn[t].apt, NewRow(t))
    BY <1>2 DEF StoresOne
  <2> QED BY <1>0, <1>2, <2>1, <2>2, StoreRow
<1> QED BY <1>1, <1>2

\* The clients are counted by the bookings.
LEMMA VisitsTyped ==
  ASSUME NEW t \in Txns, TypeOK, Step(t)
  PROVE  DOMAIN visits' \subseteq Clients /\ visits' \in [DOMAIN visits' -> Nat]
<1>1. CASE visits' = visits
  BY <1>1 DEF TypeOK
<1>2. CASE WriteBooking(t)
  <2> DEFINE r == txn[t].row
  <2>1. txn[t] \in Request
    BY <1>2, RequestTyped DEF WriteBooking
  <2>2. txn[t].seen \in Nat /\ r.client \in Clients
    BY <2>1 DEF Request, Row
  <2>3. visits' = [c \in DOMAIN visits \cup {r.client} |->
                     IF c = r.client /\ "visits" \in txn[t].diff
                     THEN txn[t].seen + 1 ELSE CountStored(c)]
    BY <1>2 DEF WriteBooking
  <2>4. \A c \in DOMAIN visits \cup {r.client} : CountStored(c) \in Nat
    BY DEF CountStored, TypeOK
  <2> QED BY <2>2, <2>3, <2>4 DEF TypeOK
<1>3. WriteBooking(t) \/ visits' = visits
  BY DEF Step, AddClient, RejectClient, CheckSlot, RejectSlot, RejectPast, MergeClient,
         Merge, WriteAppointment, WriteStatus, Rollback
<1> QED BY <1>1, <1>2, <1>3

LEMMA StoresTyped ==
  ASSUME NEW t \in Txns, TypeInv, StoresOne(t),
         DOMAIN visits' \subseteq Clients, visits' \in [DOMAIN visits' -> Nat]
  PROVE  TypeInv'
<1>0. TypeOK /\ Targets
  BY DEF TypeInv
<1>1. PICK a \in AptIds, row \in Row :
        /\ a \in DOMAIN appts => /\ row.service = appts[a].service
                                 /\ row.prof = appts[a].prof
        /\ DOMAIN appts' = DOMAIN appts \cup {a}
        /\ DOMAIN appts' \subseteq AptIds
        /\ appts' \in [DOMAIN appts' -> Row]
        /\ appts'[a] = row
        /\ \A b \in DOMAIN appts \ {a} : appts'[b] = appts[b]
  BY StoresRow
<1>2. /\ lock' \in [Services -> Txns \cup {NoTxn}]
      /\ txn' \in [Txns -> Request \cup {Idle}]
      /\ now' \in 0 .. MaxTime
      /\ txn'[t].pc = "idle"
      /\ \A u \in Txns \ {t} : txn'[u] = txn[u]
  BY <1>0, EndTyped DEF StoresOne
<1>3. TypeOK'
  BY <1>1, <1>2 DEF TypeOK
<1>4. Targets'
  BY <1>0, <1>1, <1>2 DEF Targets
<1> QED BY <1>3, <1>4 DEF TypeInv

\* The empty tables are well typed.
LEMMA TypeInvInit == Init => TypeInv
BY BookingAssumption DEF Init, TypeInv, TypeOK, Targets, Request, Idle

\* The types and the targets are inductive.
LEMMA TypeInvNext == TypeInv /\ [Next]_vars => TypeInv'
<1> SUFFICES ASSUME TypeInv, [Next]_vars PROVE TypeInv'
  OBVIOUS
<1>1. CASE Tick
  <2>1. TypeOK'
    BY <1>1, BookingAssumption DEF Tick, TypeInv, TypeOK
  <2>2. Targets'
    BY <1>1 DEF Tick, TypeInv, Targets
  <2> QED BY <2>1, <2>2 DEF TypeInv
<1>2. ASSUME NEW t \in Txns, Arrive(t) PROVE TypeInv'
  BY <1>2, ArriveTyped
<1>3. ASSUME NEW t \in Txns, Step(t) PROVE TypeInv'
  <2>1. GoesOn(t) \/ Rollback(t) \/ StoresOne(t)
    BY <1>3, StepKinds DEF TypeInv
  <2>2. CASE StoresOne(t)
    BY <1>3, <2>2, VisitsTyped, StoresTyped DEF TypeInv
  <2> QED BY <2>1, <2>2, GoesOnTyped, RollbackTyped
<1>4. ASSUME NEW t \in Txns, Disconnect(t) PROVE TypeInv'
  BY <1>4, RollbackTyped DEF Disconnect
<1>5. CASE UNCHANGED vars
  BY <1>5 DEF vars, TypeInv, TypeOK, Targets
<1> QED BY <1>1, <1>2, <1>3, <1>4, <1>5 DEF Next

\* Whatever the writers in use, the table only ever holds well-formed rows, the
\* clients and locks are what they should be, and a request that is not a
\* booking always changes a row that is stored.
THEOREM BookingTyped == Spec => []TypeOK
<1>1. Spec => []TypeInv
  BY TypeInvInit, TypeInvNext, PTL DEF Spec
<1> QED BY <1>1, PTL DEF TypeInv

\* Every step, by what it does.
LEMMA NextKinds ==
  ASSUME TypeInv, [Next]_vars
  PROVE  \/ UNCHANGED <<appts, visits, lock, txn>>
         \/ \E t \in Txns : \/ \E q \in Request : Begin(t, q) /\ BeginsSoundly(q)
                            \/ GoesOn(t)
                            \/ Rollback(t)
                            \/ StoresOne(t)
<1>1. CASE Tick \/ UNCHANGED vars
  BY <1>1 DEF Tick, vars
<1>2. ASSUME NEW t \in Txns, Arrive(t)
      PROVE  \E q \in Request : Begin(t, q) /\ BeginsSoundly(q)
  BY <1>2, ArrivesSoundly DEF TypeInv
<1>3. ASSUME NEW t \in Txns, Step(t)
      PROVE  GoesOn(t) \/ Rollback(t) \/ StoresOne(t)
  BY <1>3, StepKinds DEF TypeInv
<1>4. ASSUME NEW t \in Txns, Disconnect(t)
      PROVE  Rollback(t)
  BY <1>4 DEF Disconnect
<1> QED BY <1>1, <1>2, <1>3, <1>4 DEF Next

----------------------------------------------------------------------------
(* Two requests on one appointment.                                        *)

\* What a commit leaves to the other request on the appointment it changes: it
\* is the only one left, and the appointment was active.
LEMMA TheOtherOne ==
  ASSUME TypeInv, PairsOnActive, NEW t \in Txns, StoresOne(t), txn[t].op # "book",
         NEW u \in Txns \ {t}, Changes(u, txn[t].apt)
  PROVE  txn[t].apt \in Active
<1>1. Changes(t, txn[t].apt) /\ txn[t].apt \in AptIds
  BY NewRowTyped DEF Changes
<1> QED BY <1>1 DEF PairsOnActive

\* The requests that are left when one stores a row: they are as they were, and
\* what they change is as it was unless it is the row that was stored.
LEMMA StoresOthers ==
  ASSUME TypeInv, NEW t \in Txns, StoresOne(t), NEW u \in Txns, txn'[u].pc # "idle"
  PROVE  /\ u # t /\ txn'[u] = txn[u] /\ txn[u] \in Request
         /\ txn[u].op # "book" =>
              /\ txn[u].apt \in AptIds /\ txn[u].apt \in DOMAIN appts
              /\ appts[txn[u].apt] \in Row
              /\ \/ /\ txn[t].op # "book" /\ txn[t].apt = txn[u].apt
                    /\ appts'[txn[u].apt] = NewRow(t)
                 \/ /\ txn[t].op = "book" \/ txn[t].apt # txn[u].apt
                    /\ appts'[txn[u].apt] = appts[txn[u].apt]
              /\ txn[u].apt \in Active'
                   <=> appts'[txn[u].apt].status \in ActiveStatuses
<1>0. TypeOK /\ Targets
  BY DEF TypeInv
<1>1. u # t /\ txn'[u] = txn[u]
  BY <1>0, EndTyped DEF StoresOne
<1>2. txn[u] \in Request
  BY <1>0, <1>1, RequestTyped
<1>3. ASSUME txn[u].op # "book"
      PROVE  txn[u].apt \in AptIds /\ txn[u].apt \in DOMAIN appts /\ appts[txn[u].apt] \in Row
  BY <1>0, <1>1, <1>3 DEF Targets, TypeOK
<1>4. PICK a \in AptIds, row \in Row :
        /\ txn[t].op = "book" => a \notin DOMAIN appts /\ row = txn[t].row
        /\ txn[t].op # "book" => a = txn[t].apt /\ a \in DOMAIN appts /\ row = NewRow(t)
        /\ DOMAIN appts' = DOMAIN appts \cup {a}
        /\ appts'[a] = row
        /\ \A b \in DOMAIN appts \ {a} : appts'[b] = appts[b]
  BY StoresRow
<1> QED BY <1>1, <1>2, <1>3, <1>4 DEF Active

LEMMA PairBegins ==
  ASSUME PairInv, NEW t \in Txns, NEW q \in Request, Begin(t, q), BeginsSoundly(q)
  PROVE  KindInUse' /\ AsAsked' /\ PairsOnActive' /\ ClosedStays'
<1>1. /\ txn[t].pc = "idle" /\ txn'[t] = q
      /\ \A u \in Txns \ {t} : txn'[u] = txn[u]
      /\ appts' = appts /\ Active' = Active
  BY BeginLeaves DEF PairInv, TypeInv
<1>2. KindInUse' /\ AsAsked'
  <2> SUFFICES ASSUME NEW u \in Txns, txn'[u].pc # "idle"
               PROVE  /\ txn'[u].op \in Writers
                      /\ txn'[u].row.status = AskedStatus(txn'[u].op)
                      /\ txn'[u].op = "complete" => txn'[u].row.amount \in Amounts
    BY DEF KindInUse, AsAsked
  <2>1. CASE u = t
    BY <1>1, <2>1 DEF BeginsSoundly
  <2>2. CASE u # t
    BY <1>1, <2>2 DEF PairInv, KindInUse, AsAsked
  <2> QED BY <2>1, <2>2
<1>3. PairsOnActive'
  <2> SUFFICES ASSUME NEW a \in AptIds, NEW u \in Txns, NEW v \in Txns, u # v,
                      Changes(u, a)', Changes(v, a)'
               PROVE  a \in Active
    BY <1>1 DEF PairsOnActive
  <2>1. CASE u = t \/ v = t
    BY <1>1, <2>1 DEF Changes, BeginsSoundly
  <2>2. CASE u # t /\ v # t
    BY <1>1, <2>2 DEF Changes, PairInv, PairsOnActive
  <2> QED BY <2>1, <2>2
<1>4. ClosedStays'
  BY <1>1 DEF BeginsSoundly, PairInv, ClosedStays
<1> QED BY <1>2, <1>3, <1>4

LEMMA PairGoesOn ==
  ASSUME PairInv, NEW t \in Txns, GoesOn(t)
  PROVE  KindInUse' /\ AsAsked' /\ PairsOnActive' /\ ClosedStays'
<1>1. /\ txn[t].pc # "idle" /\ txn[t] \in Request
      /\ txn'[t].op = txn[t].op /\ txn'[t].row = txn[t].row /\ txn'[t].apt = txn[t].apt
      /\ \A u \in Txns \ {t} : txn'[u] = txn[u]
      /\ appts' = appts /\ Active' = Active
  BY GoesOnLeaves DEF PairInv, TypeInv
<1>2. txn'[t].pc = "flush" /\ txn[t].op \in Merges =>
        ("status" \in txn'[t].diff <=> txn[t].row.status # appts[txn[t].apt].status)
  BY GoesOnLeaves DEF PairInv, TypeInv, Columns
<1>3. KindInUse' /\ AsAsked'
  BY <1>1 DEF PairInv, KindInUse, AsAsked
<1>4. PairsOnActive'
  BY <1>1 DEF PairInv, PairsOnActive, Changes
<1>5. ClosedStays'
  <2> SUFFICES ASSUME NEW u \in Txns, txn'[u].pc = "flush",
                      txn'[u].op \in {"cancel", "complete"}, "status" \notin txn'[u].diff
               PROVE  txn'[u].apt \notin Active
    BY <1>1 DEF ClosedStays
  <2>1. CASE u = t
    <3>1. txn[t].op \in Merges /\ txn[t].row.status \in {"cancelled", "completed"}
      BY <1>1, <2>1 DEF Merges, Moves, PairInv, AsAsked, AskedStatus
    <3>2. appts[txn[t].apt].status \in {"cancelled", "completed"}
      BY <1>2, <2>1, <3>1
    <3> QED BY <1>1, <2>1, <3>2 DEF Active, ActiveStatuses
  <2>2. CASE u # t
    BY <1>1, <2>2 DEF PairInv, ClosedStays
  <2> QED BY <2>1, <2>2
<1> QED BY <1>3, <1>4, <1>5

LEMMA PairStores ==
  ASSUME AtMostTwoEach, PairInv, NEW t \in Txns, StoresOne(t)
  PROVE  KindInUse' /\ AsAsked' /\ PairsOnActive' /\ ClosedStays'
<1>0. TypeInv /\ PairsOnActive
  BY DEF PairInv
<1>1. ASSUME NEW u \in Txns, txn'[u].pc # "idle"
      PROVE  u # t /\ txn'[u] = txn[u]
  BY <1>0, <1>1, StoresOthers
<1>2. KindInUse' /\ AsAsked'
  BY <1>1 DEF PairInv, KindInUse, AsAsked
<1>3. ASSUME NEW u \in Txns, txn'[u].pc # "idle", txn[u].op # "book", txn[u].apt \in Active,
             ~(txn[t].op # "book" /\ txn[t].apt = txn[u].apt)
      PROVE  txn[u].apt \in Active'
  <2>1. /\ appts'[txn[u].apt] = appts[txn[u].apt]
        /\ txn[u].apt \in Active' <=> appts'[txn[u].apt].status \in ActiveStatuses
    BY <1>0, <1>3, StoresOthers
  <2> QED BY <1>3, <2>1 DEF Active
<1>4. PairsOnActive'
  <2> SUFFICES ASSUME NEW a \in AptIds, NEW u \in Txns, NEW v \in Txns, u # v,
                      Changes(u, a)', Changes(v, a)'
               PROVE  a \in Active'
    BY DEF PairsOnActive
  <2>1. /\ u # t /\ v # t /\ txn'[u] = txn[u] /\ txn'[v] = txn[v]
        /\ txn'[u].pc # "idle"
        /\ Changes(u, a) /\ Changes(v, a) /\ a = txn[u].apt
    BY <1>1 DEF Changes
  <2>2. ~Changes(t, a)
    BY <2>1 DEF AtMostTwoEach
  <2>3. ~(txn[t].op # "book" /\ txn[t].apt = a)
    BY <2>2 DEF Changes, StoresOne
  <2>4. a \in Active
    BY <1>0, <2>1 DEF PairsOnActive
  <2> QED BY <1>3, <2>1, <2>3, <2>4 DEF Changes
<1>5. ClosedStays'
  <2> SUFFICES ASSUME NEW u \in Txns, txn'[u].pc = "flush",
                      txn'[u].op \in {"cancel", "complete"}, "status" \notin txn'[u].diff
               PROVE  txn'[u].apt \notin Active'
    BY DEF ClosedStays
  <2>1. u # t /\ txn'[u] = txn[u] /\ txn[u].op # "book" /\ txn'[u].pc # "idle"
    BY <1>1
  <2>2. txn[u].apt \notin Active
    BY <2>1 DEF PairInv, ClosedStays
  <2>3. ~(txn[t].op # "book" /\ txn[t].apt = txn[u].apt)
    BY <1>0, <2>1, <2>2, TheOtherOne DEF Changes
  <2>4. /\ appts'[txn[u].apt] = appts[txn[u].apt] /\ txn[u].apt \in DOMAIN appts
        /\ txn[u].apt \in Active' <=> appts'[txn[u].apt].status \in ActiveStatuses
    BY <1>0, <2>1, <2>3, StoresOthers
  <2> QED BY <2>1, <2>2, <2>4 DEF Active
<1> QED BY <1>2, <1>4, <1>5

\* A request that is rolled back: the others are as they were.
LEMMA RollbackLeaves ==
  ASSUME NEW t \in Txns, TypeOK, Rollback(t)
  PROVE  /\ txn'[t].pc = "idle"
         /\ \A u \in Txns \ {t} : txn'[u] = txn[u]
         /\ appts' = appts /\ visits' = visits /\ Active' = Active
BY EndTyped DEF Rollback, Active

LEMMA PairInvNext == AtMostTwoEach /\ PairInv /\ [Next]_vars => PairInv'
<1> SUFFICES ASSUME AtMostTwoEach, PairInv, [Next]_vars PROVE PairInv'
  OBVIOUS
<1>1. TypeInv'
  BY TypeInvNext DEF PairInv
<1>2. KindInUse' /\ AsAsked' /\ PairsOnActive' /\ ClosedStays'
  <2>1. CASE UNCHANGED <<appts, visits, lock, txn>>
    BY <2>1 DEF PairInv, KindInUse, AsAsked, PairsOnActive, ClosedStays, Changes, Active
  <2>2. ASSUME NEW t \in Txns, Rollback(t)
        PROVE  KindInUse' /\ AsAsked' /\ PairsOnActive' /\ ClosedStays'
    <3>1. /\ txn'[t].pc = "idle"
          /\ \A u \in Txns \ {t} : txn'[u] = txn[u]
          /\ appts' = appts /\ Active' = Active
      BY <2>2, RollbackLeaves DEF PairInv, TypeInv
    <3>2. ASSUME NEW u \in Txns, txn'[u].pc # "idle" PROVE txn'[u] = txn[u]
      BY <3>1, <3>2
    <3>3. KindInUse' /\ AsAsked'
      BY <3>2 DEF PairInv, KindInUse, AsAsked
    <3>4. PairsOnActive'
      BY <3>1, <3>2 DEF PairInv, PairsOnActive, Changes
    <3>5. ClosedStays'
      BY <3>1, <3>2 DEF PairInv, ClosedStays
    <3> QED BY <3>3, <3>4, <3>5
  <2>3. TypeInv
    BY DEF PairInv
  <2> QED BY <2>1, <2>2, <2>3, NextKinds, PairBegins, PairGoesOn, PairStores
<1> QED BY <1>1, <1>2 DEF PairInv

LEMMA PairInvInit == Init => PairInv
<1> SUFFICES ASSUME Init PROVE PairInv
  OBVIOUS
<1>1. \A t \in Txns : txn[t].pc = "idle"
  BY DEF Init, Idle
<1> QED BY <1>1, TypeInvInit
        DEF PairInv, KindInUse, AsAsked, PairsOnActive, ClosedStays, Changes

LEMMA PairInvCorrect == Spec /\ []AtMostTwoEach => []PairInv
BY PairInvInit, PairInvNext, PTL DEF Spec

----------------------------------------------------------------------------
(* The locked writers: what a merge makes of an appointment.               *)

\* The requests that the locked writers make.
LEMMA LockedKinds ==
  ASSUME Writers \subseteq LockedWriters, PairInv, NEW t \in Txns, txn[t].pc # "idle"
  PROVE  /\ txn[t] \in Request
         /\ txn[t].op \in {"book", "reschedule", "cancel", "complete", "button_cancel"}
         /\ txn[t].row.status = AskedStatus(txn[t].op)
<1>1. txn[t] \in Request
  BY RequestTyped DEF PairInv, TypeInv
<1>2. txn[t].op \in LockedWriters /\ txn[t].row.status = AskedStatus(txn[t].op)
  BY DEF PairInv, KindInUse, AsAsked
<1> QED BY <1>1, <1>2 DEF LockedWriters, Ops

\* What the locked writers write is never a fresh status.
LEMMA NewRowNotFresh ==
  ASSUME Writers \subseteq LockedWriters, PairInv, NotFresh, NEW t \in Txns, StoresOne(t),
         txn[t].op # "book"
  PROVE  NewRow(t).status \notin Fresh
<1>1. /\ txn[t].pc # "idle"
      /\ NewRow(t).status
           = IF "status" \in Written(t) THEN txn[t].row.status ELSE appts[txn[t].apt].status
  BY NewRowTyped DEF PairInv
<1>2. /\ txn[t].op \in {"reschedule", "cancel", "complete", "button_cancel"}
      /\ txn[t].row.status = AskedStatus(txn[t].op)
  BY <1>1, LockedKinds
<1>3. txn[t].row.status \notin Fresh
  BY <1>2 DEF AskedStatus, Moves, Fresh
<1>4. ASSUME "status" \notin Written(t)
      PROVE  appts[txn[t].apt].status \notin Fresh
  <2>1. txn[t].op \in Merges /\ "status" \notin txn[t].diff
    BY <1>4 DEF Written
  <2> QED BY <2>1 DEF NotFresh, StoresOne
<1> QED BY <1>1, <1>3, <1>4

LEMMA MergeBegins ==
  ASSUME PairInv, MergeInv, NEW t \in Txns, NEW q \in Request, Begin(t, q), BeginsSoundly(q)
  PROVE  MergeInv'
<1>1. /\ txn'[t] = q /\ appts' = appts
      /\ \A u \in Txns \ {t} : txn'[u] = txn[u]
  BY BeginLeaves DEF PairInv, TypeInv
<1>2. Unmoved'
  BY <1>1 DEF MergeInv, Unmoved, BeginsSoundly, Moves
<1>3. NotFresh'
  BY <1>1 DEF MergeInv, NotFresh, BeginsSoundly
<1>4. MoveLands'
  BY <1>1 DEF MergeInv, MoveLands, BeginsSoundly
<1> QED BY <1>2, <1>3, <1>4 DEF MergeInv

LEMMA MergeGoesOn ==
  ASSUME Writers \subseteq LockedWriters, PairInv, MergeInv, NEW t \in Txns, GoesOn(t)
  PROVE  MergeInv'
<1>1. /\ txn[t].pc # "idle"
      /\ txn'[t].op = txn[t].op /\ txn'[t].row = txn[t].row /\ txn'[t].apt = txn[t].apt
      /\ \A u \in Txns \ {t} : txn'[u] = txn[u]
      /\ appts' = appts
  BY GoesOnLeaves DEF PairInv, TypeInv
<1>2. txn'[t].pc = "flush" /\ txn[t].op \in Merges =>
        /\ "status" \in txn'[t].diff <=> txn[t].row.status # appts[txn[t].apt].status
        /\ "start" \in txn'[t].diff <=> txn[t].row.start # appts[txn[t].apt].start
  BY GoesOnLeaves DEF PairInv, TypeInv, Columns
<1>3. txn[t].row.status = AskedStatus(txn[t].op)
  BY <1>1 DEF PairInv, AsAsked
<1>4. Unmoved'
  BY <1>1 DEF MergeInv, Unmoved
<1>5. NotFresh'
  <2> SUFFICES ASSUME NEW u \in Txns, txn'[u].pc = "flush", txn'[u].op \in Merges,
                      "status" \notin txn'[u].diff
               PROVE  appts[txn'[u].apt].status \notin Fresh
    BY <1>1 DEF NotFresh
  <2>1. CASE u = t
    <3>1. txn[t].op \in Merges /\ appts[txn[t].apt].status = txn[t].row.status
      BY <1>1, <1>2, <2>1
    <3>2. AskedStatus(txn[t].op) \notin Fresh
      BY <3>1 DEF Merges, Moves, AskedStatus, Fresh
    <3> QED BY <1>1, <1>3, <2>1, <3>1, <3>2
  <2>2. CASE u # t
    BY <1>1, <2>2 DEF MergeInv, NotFresh
  <2> QED BY <2>1, <2>2
<1>6. MoveLands'
  <2> SUFFICES ASSUME NEW u \in Txns, txn'[u].pc = "flush", txn'[u].op = "reschedule",
                      "status" \in txn'[u].diff
               PROVE  /\ appts[txn'[u].apt].status # "rescheduled"
                      /\ "start" \notin txn'[u].diff
                           => appts[txn'[u].apt].start = txn'[u].row.start
    BY <1>1 DEF MoveLands
  <2>1. CASE u = t
    <3>1. txn[t].op \in Merges /\ AskedStatus(txn[t].op) = "rescheduled"
      BY <1>1, <2>1 DEF Merges, Moves, AskedStatus
    <3> QED BY <1>1, <1>2, <1>3, <2>1, <3>1
  <2>2. CASE u # t
    BY <1>1, <2>2 DEF MergeInv, MoveLands
  <2> QED BY <2>1, <2>2
<1> QED BY <1>4, <1>5, <1>6 DEF MergeInv

\* Two reschedules of one appointment are never both past their check.
LEMMA OneMoveAtATime ==
  ASSUME PairInv, LocksHeld, NEW t \in Txns, NEW u \in Txns, t # u,
         txn[t].op = "reschedule", txn[u].op = "reschedule",
         txn[t].pc = "flush", txn[u].pc = "flush", txn[t].apt = txn[u].apt
  PROVE  FALSE
<1>1. Admitted(t) /\ Admitted(u)
  BY DEF Admitted, TakesLock
<1>2. txn[t].row.service = txn[u].row.service
  BY DEF PairInv, TypeInv, Targets
<1> QED BY <1>1, <1>2 DEF LocksHeld

LEMMA MergeStores ==
  ASSUME Writers \subseteq LockedWriters, PairInv, LocksHeld, MergeInv,
         NEW t \in Txns, StoresOne(t)
  PROVE  MergeInv'
<1>0. TypeInv /\ PairsOnActive /\ Unmoved /\ NotFresh /\ MoveLands
  BY DEF PairInv, MergeInv
<1>1. ASSUME NEW u \in Txns, txn'[u].pc # "idle", txn[u].op # "book"
      PROVE  /\ u # t /\ txn'[u] = txn[u]
             /\ \/ appts'[txn[u].apt] = appts[txn[u].apt]
                \/ /\ txn[t].op # "book" /\ txn[t].apt = txn[u].apt
                   /\ appts'[txn[u].apt] = NewRow(t)
                   /\ NewRow(t).status \notin Fresh
                   /\ txn[u].apt \in Active
  <2>1. /\ u # t /\ txn'[u] = txn[u]
        /\ \/ /\ txn[t].op # "book" /\ txn[t].apt = txn[u].apt
              /\ appts'[txn[u].apt] = NewRow(t)
           \/ appts'[txn[u].apt] = appts[txn[u].apt]
    BY <1>0, <1>1, StoresOthers
  <2>2. CASE txn[t].op # "book" /\ txn[t].apt = txn[u].apt
    <3>1. Changes(u, txn[t].apt)
      BY <1>1, <2>1, <2>2 DEF Changes
    <3> QED BY <1>0, <2>1, <2>2, <3>1, TheOtherOne, NewRowNotFresh
  <2> QED BY <2>1, <2>2
<1>2. ASSUME NEW u \in Txns PROVE txn'[u] = txn[u] \/ txn'[u].pc = "idle"
  BY <1>0, <1>2, StoresOthers
<1>3. Unmoved'
  <2> SUFFICES ASSUME NEW u \in Txns, txn'[u].pc # "idle",
                      txn'[u].op \notin Moves \cup {"book"},
                      appts'[txn'[u].apt].status \in Fresh
               PROVE  txn'[u].row.start = appts'[txn'[u].apt].start
    BY DEF Unmoved
  <2>1. txn'[u] = txn[u] /\ txn[u].op # "book"
    BY <1>2
  <2>2. appts'[txn[u].apt] = appts[txn[u].apt]
    BY <1>1, <2>1
  <2> QED BY <1>0, <2>1, <2>2 DEF Unmoved
<1>4. NotFresh'
  <2> SUFFICES ASSUME NEW u \in Txns, txn'[u].pc = "flush", txn'[u].op \in Merges,
                      "status" \notin txn'[u].diff
               PROVE  appts'[txn'[u].apt].status \notin Fresh
    BY DEF NotFresh
  <2>1. txn'[u] = txn[u] /\ txn[u].op # "book" /\ txn'[u].pc # "idle"
    BY <1>2 DEF Merges, Moves
  <2> QED BY <1>0, <1>1, <2>1 DEF NotFresh
<1>5. MoveLands'
  <2> SUFFICES ASSUME NEW u \in Txns, txn'[u].pc = "flush", txn'[u].op = "reschedule",
                      "status" \in txn'[u].diff
               PROVE  /\ appts'[txn'[u].apt].status # "rescheduled"
                      /\ "start" \notin txn'[u].diff
                           => appts'[txn'[u].apt].start = txn'[u].row.start
    BY DEF MoveLands
  <2>1. txn'[u] = txn[u] /\ txn[u].op # "book" /\ txn'[u].pc # "idle"
    BY <1>2
  <2>2. /\ appts[txn[u].apt].status # "rescheduled"
        /\ "start" \notin txn[u].diff => appts[txn[u].apt].start = txn[u].row.start
    BY <1>0, <2>1 DEF MoveLands
  <2>3. CASE appts'[txn[u].apt] = appts[txn[u].apt]
    BY <2>1, <2>2, <2>3
  <2>4. CASE /\ txn[t].op # "book" /\ txn[t].apt = txn[u].apt
             /\ appts'[txn[u].apt] = NewRow(t) /\ txn[u].apt \in Active
    <3>1. /\ txn[t].pc # "idle"
          /\ NewRow(t).start
               = IF "start" \in Written(t) THEN txn[t].row.start ELSE appts[txn[t].apt].start
          /\ NewRow(t).status
               = IF "status" \in Written(t) THEN txn[t].row.status ELSE appts[txn[t].apt].status
      BY <1>0, <2>4, NewRowTyped
    <3>2. u # t
      BY <1>1, <2>1
    <3>3. txn[t].op # "reschedule"
      <4> SUFFICES ASSUME txn[t].op = "reschedule" PROVE FALSE
        OBVIOUS
      <4>1. txn[t].pc = "flush"
        BY DEF StoresOne, Merges, Moves
      <4> QED BY <2>1, <2>4, <3>2, <4>1, OneMoveAtATime
    <3>4. /\ txn[t].op \in {"cancel", "complete", "button_cancel"}
          /\ txn[t].row.status \in {"cancelled", "completed"}
      BY <2>4, <3>1, <3>3, LockedKinds DEF AskedStatus, Moves
    <3>5. appts[txn[t].apt].status \in Fresh
      BY <2>2, <2>4 DEF Active, ActiveStatuses, Fresh
    <3>6. txn[t].row.start = appts[txn[t].apt].start
      BY <1>0, <3>1, <3>4, <3>5 DEF Unmoved, Moves
    <3>7. appts'[txn[u].apt].status # "rescheduled"
      BY <2>2, <2>4, <3>1, <3>4
    <3>8. appts'[txn[u].apt].start = appts[txn[u].apt].start
      BY <2>4, <3>1, <3>6
    <3> QED BY <2>1, <2>2, <3>7, <3>8
  <2> QED BY <1>1, <2>1, <2>3, <2>4
<1> QED BY <1>3, <1>4, <1>5 DEF MergeInv

----------------------------------------------------------------------------
(* The seats of the locked writers.                                        *)

\* The active appointments are finitely many and have a service and a start.
LEMMA ActiveFinite ==
  ASSUME TypeOK
  PROVE  IsFiniteSet(Active) /\ Active \subseteq DOMAIN appts /\ Seatable(appts, Active)
<1>1. Active \subseteq DOMAIN appts /\ DOMAIN appts \subseteq AptIds
  BY DEF Active, TypeOK
<1>2. IsFiniteSet(Active)
  <2>1. Active \subseteq AptIds
    BY <1>1
  <2> QED BY <2>1, FS_Subset, BookingAssumption
<1>3. Seatable(appts, Active)
  BY <1>1, BookingAssumption DEF Seatable, TypeOK, Row
<1> QED BY <1>1, <1>2, <1>3

\* Room is a matter of services, professionals and starts.
LEMMA SameRoom ==
  ASSUME NEW f, NEW g, NEW act, NEW x, NEW r, NEW q,
         q.service = r.service, q.prof = r.prof, q.start = r.start,
         \A a \in act : /\ g[a].service = f[a].service /\ g[a].prof = f[a].prof
                        /\ g[a].start = f[a].start,
         HasRoom(f, act, r, x)
  PROVE  HasRoom(g, act, q, x)
<1> DEFINE othersf == {a \in act \ {x} : f[a].service = r.service /\ f[a].prof = r.prof}
           othersg == {a \in act \ {x} : g[a].service = q.service /\ g[a].prof = q.prof}
<1>1. othersg = othersf
  OBVIOUS
<1>2. {a \in othersg : g[a].start = q.start} = {a \in othersf : f[a].start = r.start}
  BY <1>1
<1>3. \A a \in othersf : Overlap(q, g[a]) <=> Overlap(r, f[a])
  BY DEF Overlap, EndsAt
<1> QED BY <1>1, <1>2, <1>3 DEF HasRoom

\* When a request ends, the admitted requests are others, and unchanged.
LEMMA EndAdmitted ==
  ASSUME NEW t \in Txns, TypeOK, LocksHeld, End(t)
  PROVE  /\ LocksHeld'
         /\ \A u \in Txns : Admitted(u)' =>
              u # t /\ txn'[u] = txn[u] /\ Admitted(u) /\ txn[u].row.service \in Services
<1>1. /\ txn'[t].pc = "idle"
      /\ \A u \in Txns \ {t} : txn'[u] = txn[u]
  BY EndTyped
<1>2. \A u \in Txns : Admitted(u)' =>
        u # t /\ txn'[u] = txn[u] /\ Admitted(u) /\ txn[u].row.service \in Services
  <2> SUFFICES ASSUME NEW u \in Txns, Admitted(u)'
               PROVE  u # t /\ txn'[u] = txn[u] /\ Admitted(u) /\ txn[u].row.service \in Services
    OBVIOUS
  <2>1. u # t /\ txn'[u] = txn[u] /\ Admitted(u)
    BY <1>1 DEF Admitted
  <2>2. txn[u] \in Request
    BY <2>1, RequestTyped DEF Admitted
  <2> QED BY <2>1, <2>2 DEF Request, Row
<1>3. LocksHeld'
  <2> SUFFICES ASSUME NEW u \in Txns, Admitted(u)'
               PROVE  lock'[txn'[u].row.service] = u
    BY DEF LocksHeld
  <2>1. u # t /\ txn'[u] = txn[u] /\ Admitted(u) /\ txn[u].row.service \in Services
    BY <1>2
  <2>2. lock[txn[u].row.service] = u
    BY <2>1 DEF LocksHeld
  <2> QED BY <2>1, <2>2 DEF End
<1> QED BY <1>2, <1>3

\* Nothing is committed: the rooms are what they were.
LEMMA RollbackSeats ==
  ASSUME NEW t \in Txns, TypeOK, SeatInv, Rollback(t)
  PROVE  SeatInv'
<1>1. appts' = appts /\ Active' = Active
  BY DEF Rollback, Active
<1>2. /\ LocksHeld'
      /\ \A u \in Txns : Admitted(u)' => u # t /\ txn'[u] = txn[u] /\ Admitted(u)
  BY EndAdmitted DEF SeatInv, Rollback
<1>3. RoomKept'
  BY <1>1, <1>2 DEF SeatInv, RoomKept
<1>4. Seated(appts, Active)'
  BY <1>1 DEF SeatInv
<1> QED BY <1>2, <1>3, <1>4 DEF SeatInv

\* A row that does not count as active takes the place of whatever was stored.
LEMMA RemovalSeats ==
  ASSUME NEW t \in Txns, TypeOK, SeatInv, NEW a \in AptIds, NEW row \in Row,
         row.status \notin ActiveStatuses, Store(a, row), End(t)
  PROVE  SeatInv'
<1>1. /\ Active' = Active \ {a}
      /\ \A b \in Active' : appts'[b] = appts[b] /\ b \in Active
  BY StoreRow DEF Active
<1>2. /\ LocksHeld'
      /\ \A u \in Txns : Admitted(u)' =>
           u # t /\ txn'[u] = txn[u] /\ Admitted(u) /\ txn[u].row.service \in Services
  BY EndAdmitted DEF SeatInv
<1>3. IsFiniteSet(Active) /\ Seatable(appts, Active)
  BY ActiveFinite
<1>4. ASSUME NEW r, NEW x, r.service \in Services, HasRoom(appts, Active, r, x)
      PROVE  HasRoom(appts', Active', r, x)
  BY <1>1, <1>3, <1>4, RoomShrinks
<1>5. RoomKept'
  BY <1>2, <1>4 DEF SeatInv, RoomKept
<1>6. Seated(appts', Active')
  <2> SUFFICES ASSUME NEW b \in Active'
               PROVE  HasRoom(appts', Active', appts'[b], b)
    BY DEF Seated
  <2>1. HasRoom(appts, Active, appts[b], b)
    BY <1>1 DEF SeatInv, Seated
  <2>2. appts[b].service \in Services
    BY <1>1, <1>3 DEF Seatable
  <2> QED BY <1>1, <1>4, <2>1, <2>2
<1> QED BY <1>2, <1>5, <1>6 DEF SeatInv

\* An admitted transaction stores a row where it has room.
LEMMA AdmittedSeats ==
  ASSUME NEW t \in Txns, TypeOK, SeatInv, Admitted(t), NEW x \in AptIds, NEW r \in Row,
         r.service = txn[t].row.service, r.status \in ActiveStatuses,
         HasRoom(appts, Active, r, x), Store(x, r), End(t)
  PROVE  SeatInv'
<1>1. r.service \in Services /\ r.start \in Nat
  BY BookingAssumption DEF Row
<1>2. /\ Active' = Active \cup {x}
      /\ appts'[x] = r
      /\ \A b \in Active \ {x} : appts'[b] = appts[b]
  BY StoreRow DEF Active
<1>3. /\ LocksHeld'
      /\ \A u \in Txns : Admitted(u)' =>
           u # t /\ txn'[u] = txn[u] /\ Admitted(u) /\ txn[u].row.service \in Services
  BY EndAdmitted DEF SeatInv
<1>4. IsFiniteSet(Active) /\ Seatable(appts, Active) /\ Seated(appts, Active)
  BY ActiveFinite DEF SeatInv
<1>5. Seated(appts', Active')
  BY <1>1, <1>2, <1>4, SeatTaken
<1>6. RoomKept'
  <2> SUFFICES ASSUME NEW u \in Txns, Admitted(u)'
               PROVE  HasRoom(appts', Active', txn'[u].row, txn'[u].apt)
    BY DEF RoomKept
  <2> DEFINE q == txn[u].row
             y == txn[u].apt
  <2>1. u # t /\ txn'[u] = txn[u] /\ Admitted(u) /\ q.service \in Services
    BY <1>3
  <2>2. HasRoom(appts, Active, q, y)
    BY <2>1 DEF SeatInv, RoomKept
  <2>3. q.service # r.service
    BY <2>1 DEF SeatInv, LocksHeld
  <2>4. \A b \in Active' \ {y} :
          appts'[b].service = q.service /\ appts'[b].prof = q.prof
            => b \in Active /\ appts'[b] = appts[b]
    BY <1>2, <2>3
  <2>5. HasRoom(appts', Active', q, y)
    BY <1>4, <2>1, <2>2, <2>4, RoomShrinks
  <2> QED BY <2>1, <2>5
<1> QED BY <1>3, <1>5, <1>6 DEF SeatInv

\* A row that stays where it is, active as it was.
LEMMA StayingSeats ==
  ASSUME NEW t \in Txns, TypeOK, SeatInv, NEW x \in Active, NEW r \in Row,
         r.status \in ActiveStatuses, r.service = appts[x].service,
         r.prof = appts[x].prof, r.start = appts[x].start, Store(x, r), End(t)
  PROVE  SeatInv' /\ SeatPlan' = SeatPlan
<1>1. x \in AptIds /\ x \in DOMAIN appts
  BY DEF TypeOK, Active
<1>2. /\ DOMAIN appts' = DOMAIN appts /\ appts'[x] = r
      /\ \A b \in DOMAIN appts \ {x} : appts'[b] = appts[b]
  BY <1>1, StoreRow
<1>3. /\ Active' = Active
      /\ \A a \in Active : /\ appts'[a].service = appts[a].service
                           /\ appts'[a].prof = appts[a].prof
                           /\ appts'[a].start = appts[a].start
  BY <1>2 DEF Active
<1>4. /\ LocksHeld'
      /\ \A u \in Txns : Admitted(u)' => u # t /\ txn'[u] = txn[u] /\ Admitted(u)
  BY EndAdmitted DEF SeatInv
<1>5. RoomKept'
  <2> SUFFICES ASSUME NEW u \in Txns, Admitted(u)'
               PROVE  HasRoom(appts', Active', txn'[u].row, txn'[u].apt)
    BY DEF RoomKept
  <2>1. txn'[u] = txn[u] /\ HasRoom(appts, Active, txn[u].row, txn[u].apt)
    BY <1>4 DEF SeatInv, RoomKept
  <2> QED BY <1>3, <2>1, SameRoom
<1>6. Seated(appts', Active')
  <2> SUFFICES ASSUME NEW a \in Active
               PROVE  HasRoom(appts', Active', appts'[a], a)
    BY <1>3 DEF Seated
  <2>1. HasRoom(appts, Active, appts[a], a)
    BY DEF SeatInv, Seated
  <2> QED BY <1>3, <2>1, SameRoom
<1>7. SeatPlan' = SeatPlan
  BY <1>3 DEF SeatPlan
<1> QED BY <1>4, <1>5, <1>6, <1>7 DEF SeatInv

\* A request that begins is not admitted yet.
LEMMA BeginSeats ==
  ASSUME NEW t \in Txns, TypeOK, SeatInv, NEW q, Begin(t, q), BeginsSoundly(q)
  PROVE  SeatInv'
<1>1. /\ txn'[t] = q
      /\ \A u \in Txns \ {t} : txn'[u] = txn[u]
      /\ lock' = lock /\ appts' = appts /\ Active' = Active
  BY BeginLeaves
<1>2. \A u \in Txns : Admitted(u)' => txn'[u] = txn[u] /\ Admitted(u)
  BY <1>1 DEF Admitted, TakesLock, BeginsSoundly, Moves
<1>3. LocksHeld'
  BY <1>1, <1>2 DEF SeatInv, LocksHeld
<1>4. RoomKept'
  BY <1>1, <1>2 DEF SeatInv, RoomKept
<1>5. Seated(appts, Active)'
  BY <1>1 DEF SeatInv
<1> QED BY <1>3, <1>4, <1>5 DEF SeatInv

\* The slot check: the lock is free, and the verdict is taken on the agenda as
\* it is at this instant.
LEMMA CheckedHasRoom ==
  ASSUME NEW t \in Txns, TypeOK, txn[t].pc = "slot", TakesLock(txn[t].op), SlotFree(txn[t])
  PROVE  HasRoom(appts, Active, txn[t].row, txn[t].apt)
<1> DEFINE r == txn[t].row
           x == txn[t].apt
<1>1. txn[t] \in Request
  BY RequestTyped
<1>2. r \in Row /\ r.service \in Services /\ r.start \in Nat
  BY <1>1, BookingAssumption DEF Request, Row
<1>3. CapacityUsed(txn[t].op, r.service) = Capacity[r.service]
  BY DEF TakesLock, CapacityUsed
<1>4. IsBookable(EvaluateSlot(r, Capacity[r.service], appts, Booked(r.prof), x))
  BY <1>3 DEF SlotFree
<1>5. IsFiniteSet(Active) /\ Seatable(appts, Active)
  BY ActiveFinite
<1>6. /\ Booked(r.prof) \in SUBSET Active
      /\ \A a \in Active : appts[a].service = r.service /\ appts[a].prof = r.prof
                          => a \in Booked(r.prof)
  BY DEF Booked
<1> QED BY <1>2, <1>4, <1>5, <1>6, BookableHasRoom

LEMMA GoesOnSeats ==
  ASSUME NEW t \in Txns, TypeOK, SeatInv, GoesOn(t)
  PROVE  SeatInv'
<1>1. /\ txn[t].pc # "idle" /\ txn[t] \in Request
      /\ txn'[t].op = txn[t].op /\ txn'[t].row = txn[t].row /\ txn'[t].apt = txn[t].apt
      /\ txn'[t].pc = "write" => txn[t].pc = "slot" /\ SlotFree(txn[t])
      /\ txn'[t].pc = "flush" => txn[t].pc = "write"
      /\ \A u \in Txns \ {t} : txn'[u] = txn[u]
      /\ appts' = appts /\ Active' = Active
  BY GoesOnLeaves
<1>2. txn[t].row.service \in Services
  BY <1>1 DEF Request, Row
<1>3. \/ lock' = lock /\ txn'[t].pc # "write"
      \/ ServiceAvailable(txn[t]) /\ lock' = Locked(t, txn[t])
  BY <1>1 DEF GoesOn, Request
<1>4. \A u \in Txns \ {t} : Admitted(u)' => txn'[u] = txn[u] /\ Admitted(u)
  BY <1>1 DEF Admitted
<1>5. LocksHeld'
  <2> SUFFICES ASSUME NEW u \in Txns, Admitted(u)'
               PROVE  lock'[txn'[u].row.service] = u
    BY DEF LocksHeld
  <2>1. CASE u = t
    <3>1. CASE lock' = lock /\ txn'[t].pc # "write"
      BY <1>1, <2>1, <3>1 DEF Admitted, SeatInv, LocksHeld
    <3>2. CASE lock' = Locked(t, txn[t])
      BY <1>1, <1>2, <2>1, <3>2 DEF Admitted, Locked, TypeOK
    <3> QED BY <1>3, <3>1, <3>2
  <2>2. CASE u # t
    <3>1. txn'[u] = txn[u] /\ lock[txn[u].row.service] = u
      BY <1>4, <2>2 DEF SeatInv, LocksHeld
    <3>2. CASE lock' = lock
      BY <3>1, <3>2
    <3>3. CASE ServiceAvailable(txn[t]) /\ lock' = Locked(t, txn[t])
      <4>1. TakesLock(txn[t].op) => txn[u].row.service # txn[t].row.service
        BY <3>1, <3>3, BookingAssumption DEF ServiceAvailable
      <4>2. lock'[txn[u].row.service] = lock[txn[u].row.service]
        BY <3>3, <4>1 DEF Locked, TypeOK
      <4> QED BY <3>1, <4>2
    <3> QED BY <1>3, <3>2, <3>3
  <2> QED BY <2>1, <2>2
<1>6. RoomKept'
  <2> SUFFICES ASSUME NEW u \in Txns, Admitted(u)'
               PROVE  HasRoom(appts, Active, txn'[u].row, txn'[u].apt)
    BY <1>1 DEF RoomKept
  <2>1. CASE u = t /\ txn'[t].pc = "write"
    BY <1>1, <2>1, CheckedHasRoom DEF Admitted
  <2>2. CASE u = t /\ txn'[t].pc # "write"
    BY <1>1, <2>2 DEF Admitted, SeatInv, RoomKept
  <2>3. CASE u # t
    BY <1>4, <2>3 DEF SeatInv, RoomKept
  <2> QED BY <2>1, <2>2, <2>3
<1>7. Seated(appts, Active)'
  BY <1>1 DEF SeatInv
<1> QED BY <1>5, <1>6, <1>7 DEF SeatInv

\* Where a commit of the locked writers puts an appointment: out of the agenda,
\* where it was, or where it was admitted.
Lands(t) ==
  \/ NewRow(t).status \notin ActiveStatuses
  \/ /\ txn[t].apt \in Active
     /\ NewRow(t).start = appts[txn[t].apt].start
  \/ /\ Admitted(t)
     /\ NewRow(t).start = txn[t].row.start

LEMMA NewRowPlaces ==
  ASSUME Writers \subseteq LockedWriters, PairInv, MergeInv, NEW t \in Txns, StoresOne(t),
         txn[t].op # "book"
  PROVE  Lands(t)
<1>1. /\ txn[t].pc # "idle" /\ txn[t].apt \in DOMAIN appts
      /\ NewRow(t).start
           = IF "start" \in Written(t) THEN txn[t].row.start ELSE appts[txn[t].apt].start
      /\ NewRow(t).status
           = IF "status" \in Written(t) THEN txn[t].row.status ELSE appts[txn[t].apt].status
  BY NewRowTyped DEF PairInv
<1>2. /\ txn[t].op \in {"reschedule", "cancel", "complete", "button_cancel"}
      /\ txn[t].row.status = AskedStatus(txn[t].op)
  BY <1>1, LockedKinds
<1>3. CASE txn[t].op = "button_cancel"
  BY <1>1, <1>2, <1>3 DEF Lands, Written, Merges, Moves, AskedStatus, ActiveStatuses
<1>4. CASE txn[t].op \in {"cancel", "complete"}
  <2>1. Written(t) = txn[t].diff /\ txn[t].pc = "flush"
    BY <1>4 DEF Written, Merges, StoresOne
  <2>2. txn[t].row.status \notin ActiveStatuses
    BY <1>2, <1>4 DEF AskedStatus, Moves, ActiveStatuses
  <2>3. ASSUME "status" \notin txn[t].diff
        PROVE  appts[txn[t].apt].status \notin ActiveStatuses
    BY <1>1, <1>4, <2>1, <2>3 DEF PairInv, ClosedStays, Active
  <2> QED BY <1>1, <2>1, <2>2, <2>3 DEF Lands
<1>5. CASE txn[t].op = "reschedule"
  <2>1. Written(t) = txn[t].diff /\ txn[t].pc = "flush" /\ Admitted(t)
    BY <1>5 DEF Written, Merges, Moves, StoresOne, Admitted, TakesLock
  <2>2. CASE "start" \in txn[t].diff
    BY <1>1, <2>1, <2>2 DEF Lands
  <2>3. CASE "start" \notin txn[t].diff /\ "status" \in txn[t].diff
    BY <1>1, <1>5, <2>1, <2>3 DEF Lands, MergeInv, MoveLands
  <2>4. CASE "start" \notin txn[t].diff /\ "status" \notin txn[t].diff
    BY <1>1, <2>1, <2>4 DEF Lands, Active
  <2> QED BY <2>2, <2>3, <2>4
<1> QED BY <1>2, <1>3, <1>4, <1>5

\* A booking is stored where it was admitted.
LEMMA BookingHasRoom ==
  ASSUME TypeInv, SeatInv, NEW t \in Txns, StoresOne(t), txn[t].op = "book",
         NEW a \in AptIds \ DOMAIN appts
  PROVE  Admitted(t) /\ HasRoom(appts, Active, txn[t].row, a)
<1>1. Admitted(t) /\ txn[t].apt = NoApt
  BY DEF StoresOne, Admitted, TakesLock, TypeInv, Targets
<1>2. HasRoom(appts, Active, txn[t].row, NoApt)
  BY <1>1 DEF SeatInv, RoomKept
<1>3. Active \ {NoApt} = Active /\ Active \ {a} = Active
  BY BookingAssumption DEF TypeInv, TypeOK, Active
<1> QED BY <1>1, <1>2, <1>3 DEF HasRoom

LEMMA MovedHasRoom ==
  ASSUME TypeInv, SeatInv, NEW t \in Txns, StoresOne(t), txn[t].op # "book",
         Admitted(t), NewRow(t).start = txn[t].row.start
  PROVE  HasRoom(appts, Active, NewRow(t), txn[t].apt)
<1>1. HasRoom(appts, Active, txn[t].row, txn[t].apt)
  BY DEF SeatInv, RoomKept
<1>2. NewRow(t).service = txn[t].row.service /\ NewRow(t).prof = txn[t].row.prof
  BY NewRowTyped
<1> QED BY <1>1, <1>2, SameRoom

LEMMA StoresSeats ==
  ASSUME Writers \subseteq LockedWriters, PairInv, SeatInv, MergeInv,
         NEW t \in Txns, StoresOne(t)
  PROVE  SeatInv'
<1>0. TypeInv /\ TypeOK /\ End(t)
  BY DEF PairInv, TypeInv, StoresOne
<1>1. CASE txn[t].op = "book"
  <2>1. PICK a \in AptIds \ DOMAIN appts : Store(a, txn[t].row)
    BY <1>1 DEF StoresOne
  <2>2. Admitted(t) /\ HasRoom(appts, Active, txn[t].row, a)
    BY <1>0, <1>1, BookingHasRoom
  <2>3. txn[t] \in Request /\ txn[t].row \in Row
    BY <1>0, <2>2, RequestTyped DEF Admitted, Request
  <2>4. txn[t].row.status \in ActiveStatuses
    BY <1>1, <2>2 DEF PairInv, AsAsked, AskedStatus, ActiveStatuses, Admitted
  <2> QED BY <1>0, <2>1, <2>2, <2>3, <2>4, AdmittedSeats
<1>2. CASE txn[t].op # "book"
  <2>1. /\ txn[t].apt \in AptIds /\ NewRow(t) \in Row
        /\ NewRow(t).service = txn[t].row.service
        /\ NewRow(t).service = appts[txn[t].apt].service
        /\ NewRow(t).prof = appts[txn[t].apt].prof
    BY <1>0, <1>2, NewRowTyped
  <2>2. Store(txn[t].apt, NewRow(t))
    BY <1>2 DEF StoresOne
  <2>3. Lands(t)
    BY <1>2, NewRowPlaces
  <2>4. CASE NewRow(t).status \notin ActiveStatuses
    BY <1>0, <2>1, <2>2, <2>4, RemovalSeats
  <2>5. CASE /\ NewRow(t).status \in ActiveStatuses /\ txn[t].apt \in Active
             /\ NewRow(t).start = appts[txn[t].apt].start
    BY <1>0, <2>1, <2>2, <2>5, StayingSeats
  <2>6. CASE /\ NewRow(t).status \in ActiveStatuses /\ Admitted(t)
             /\ NewRow(t).start = txn[t].row.start
    BY <1>0, <1>2, <2>1, <2>2, <2>6, MovedHasRoom, AdmittedSeats
  <2> QED BY <2>3, <2>4, <2>5, <2>6 DEF Lands
<1> QED BY <1>1, <1>2

\* The invariant of the locked writers is inductive.
LEMMA SeatInvInit == Init => SeatInv /\ MergeInv
<1> SUFFICES ASSUME Init PROVE SeatInv /\ MergeInv
  OBVIOUS
<1>1. Active = {}
  BY DEF Init, Active
<1>2. \A t \in Txns : txn[t].pc = "idle"
  BY DEF Init, Idle
<1>3. SeatInv
  BY <1>1, <1>2 DEF SeatInv, LocksHeld, RoomKept, Seated, Admitted
<1>4. MergeInv
  BY <1>2 DEF MergeInv, Unmoved, NotFresh, MoveLands
<1> QED BY <1>3, <1>4

LEMMA SeatInvNext ==
  ASSUME Writers \subseteq LockedWriters
  PROVE  PairInv /\ SeatInv /\ MergeInv /\ [Next]_vars => SeatInv' /\ MergeInv'
<1> SUFFICES ASSUME PairInv, SeatInv, MergeInv, [Next]_vars PROVE SeatInv' /\ MergeInv'
  OBVIOUS
<1>0. TypeInv /\ TypeOK /\ LocksHeld
  BY DEF PairInv, TypeInv, SeatInv
<1>1. CASE UNCHANGED <<appts, visits, lock, txn>>
  <2>1. Active' = Active
    BY <1>1 DEF Active
  <2>2. SeatInv'
    BY <1>1, <2>1 DEF SeatInv, LocksHeld, RoomKept, Admitted
  <2>3. MergeInv'
    BY <1>1 DEF MergeInv, Unmoved, NotFresh, MoveLands
  <2> QED BY <2>2, <2>3
<1>2. ASSUME NEW t \in Txns, Rollback(t) PROVE SeatInv' /\ MergeInv'
  <2>1. /\ txn'[t].pc = "idle"
        /\ \A u \in Txns \ {t} : txn'[u] = txn[u]
        /\ appts' = appts
    BY <1>0, <1>2, RollbackLeaves
  <2>2. ASSUME NEW u \in Txns, txn'[u].pc # "idle" PROVE txn'[u] = txn[u]
    BY <2>1, <2>2
  <2>3. Unmoved'
    BY <2>1, <2>2 DEF MergeInv, Unmoved
  <2>4. NotFresh'
    BY <2>1, <2>2 DEF MergeInv, NotFresh
  <2>5. MoveLands'
    BY <2>1, <2>2 DEF MergeInv, MoveLands
  <2> QED BY <1>0, <1>2, <2>3, <2>4, <2>5, RollbackSeats DEF MergeInv
<1>3. ASSUME NEW t \in Txns, NEW q \in Request, Begin(t, q), BeginsSoundly(q)
      PROVE  SeatInv' /\ MergeInv'
  BY <1>0, <1>3, BeginSeats, MergeBegins
<1>4. ASSUME NEW t \in Txns, GoesOn(t) PROVE SeatInv' /\ MergeInv'
  BY <1>0, <1>4, GoesOnSeats, MergeGoesOn
<1>5. ASSUME NEW t \in Txns, StoresOne(t) PROVE SeatInv' /\ MergeInv'
  BY <1>0, <1>5, StoresSeats, MergeStores
<1> QED BY <1>0, <1>1, <1>2, <1>3, <1>4, <1>5, NextKinds

LEMMA SeatInvCorrect ==
  ASSUME Writers \subseteq LockedWriters
  PROVE  Spec /\ []AtMostTwoEach => [](PairInv /\ SeatInv /\ MergeInv)
<1>1. Init => PairInv /\ SeatInv /\ MergeInv
  BY PairInvInit, SeatInvInit
<1>2. AtMostTwoEach /\ PairInv /\ SeatInv /\ MergeInv /\ [Next]_vars
        => PairInv' /\ SeatInv' /\ MergeInv'
  BY PairInvNext, SeatInvNext
<1> QED BY <1>1, <1>2, PTL DEF Spec

\* As long as every request in use that puts an appointment into the agenda
\* does so under the service lock, and an appointment has two requests in
\* progress at most, a slot that was free when it was checked is free when it is
\* written.
THEOREM RoomIsKept ==
  ASSUME Writers \subseteq LockedWriters
  PROVE  Spec /\ []AtMostTwoEach => []RoomKept
BY SeatInvCorrect, PTL DEF SeatInv

\* What the rooms mean: nobody overlaps within a service and a professional
\* except in a session of a class, and no session is overbooked.
LEMMA SeatedSessions ==
  ASSUME TypeOK, Seated(appts, Active)
  PROVE  SessionWithinCapacity /\ NoOverlapWithinService
<1>0. IsFiniteSet(Active) /\ Seatable(appts, Active)
  BY ActiveFinite
<1>1. SessionWithinCapacity
  <2> SUFFICES ASSUME NEW a \in Active
               PROVE  Cardinality(Session(appts[a])) <= Capacity[appts[a].service]
    BY DEF SessionWithinCapacity
  <2> DEFINE cap    == Capacity[appts[a].service]
             others == {b \in Active \ {a} : /\ appts[b].service = appts[a].service
                                            /\ appts[b].prof = appts[a].prof}
             same   == {b \in others : appts[b].start = appts[a].start}
  <2>1. Cardinality(same) < cap
    BY DEF Seated, HasRoom
  <2>2. Session(appts[a]) = same \cup {a}
    BY DEF Session
  <2>3. IsFiniteSet(same)
    <3>1. same \subseteq Active
      OBVIOUS
    <3> QED BY <3>1, <1>0, FS_Subset
  <2>4. Cardinality(same \cup {a}) = Cardinality(same) + 1 /\ Cardinality(same) \in Nat
    <3>1. a \notin same
      OBVIOUS
    <3> QED BY <3>1, <2>3, FS_AddElement, FS_CardinalityType
  <2>5. cap \in Nat
    BY <1>0, CatalogueAssumption DEF Seatable
  <2> QED BY <2>1, <2>2, <2>4, <2>5
<1>2. NoOverlapWithinService
  <2> SUFFICES ASSUME NEW a \in Active, NEW b \in Active, a # b,
                      appts[a].service = appts[b].service,
                      appts[a].prof = appts[b].prof,
                      Overlap(appts[a], appts[b])
               PROVE  /\ appts[a].start = appts[b].start
                      /\ ~Exclusive(appts[a].service)
    BY DEF NoOverlapWithinService
  <2> DEFINE others == {c \in Active \ {a} : /\ appts[c].service = appts[a].service
                                            /\ appts[c].prof = appts[a].prof}
             same   == {c \in others : appts[c].start = appts[a].start}
  <2>1. HasRoom(appts, Active, appts[a], a)
    BY DEF Seated
  <2>2. b \in others /\ appts[b].start = appts[a].start
    BY <2>1 DEF HasRoom
  <2>3. Cardinality(same) < Capacity[appts[a].service]
    BY <2>1 DEF HasRoom
  <2>4. Cardinality(same) \in Nat /\ Cardinality(same) # 0
    <3>1. same \subseteq Active /\ b \in same
      BY <2>2
    <3>2. IsFiniteSet(same)
      BY <3>1, <1>0, FS_Subset
    <3> QED BY <3>1, <3>2, FS_EmptySet, FS_CardinalityType
  <2>5. Capacity[appts[a].service] \in Nat
    BY <1>0, CatalogueAssumption DEF Seatable
  <2> QED BY <2>2, <2>3, <2>4, <2>5 DEF Exclusive
<1> QED BY <1>1, <1>2

\* No session is ever overbooked by the locked writers, two of which may be at
\* work on one appointment.
THEOREM SessionsWithinCapacity ==
  ASSUME Writers \subseteq LockedWriters
  PROVE  Spec /\ []AtMostTwoEach => []SessionWithinCapacity
<1>1. PairInv /\ SeatInv => SessionWithinCapacity
  BY SeatedSessions DEF PairInv, SeatInv, TypeInv
<1> QED BY <1>1, SeatInvCorrect, PTL

\* The locked writers never make two sessions of one service and one
\* professional overlap, unless they are one session of a group class, when two
\* of them at most are at work on an appointment.
THEOREM ServiceNeverOverlapsItself ==
  ASSUME Writers \subseteq LockedWriters
  PROVE  Spec /\ []AtMostTwoEach => []NoOverlapWithinService
<1>1. PairInv /\ SeatInv => NoOverlapWithinService
  BY SeatedSessions DEF PairInv, SeatInv, TypeInv
<1> QED BY <1>1, SeatInvCorrect, PTL

----------------------------------------------------------------------------
(* What was collected, for every writer.                                   *)

\* What an appointment that another request changes too is left with: its amount,
\* unless a closing wrote its own.
LEMMA NewAmount ==
  ASSUME PairInv, AmountInv, NEW t \in Txns, StoresOne(t), txn[t].op # "book"
  PROVE  /\ NewRow(t).amount \in Amounts \/ NewRow(t).amount = appts[txn[t].apt].amount
              \/ txn[t].apt \notin Active
         /\ txn[t].apt \in Active /\ NewRow(t).status \in ActiveStatuses
              => NewRow(t).amount = appts[txn[t].apt].amount
         /\ RevenueJustified /\ NewRow(t).status = "completed"
              => NewRow(t).amount \in Amounts
<1> DEFINE a == txn[t].apt
<1>1. /\ txn[t].pc # "idle" /\ txn[t] \in Request /\ a \in DOMAIN appts
      /\ NewRow(t).status
           = IF "status" \in Written(t) THEN txn[t].row.status ELSE appts[a].status
      /\ NewRow(t).amount
           = IF "amount" \in Written(t) THEN txn[t].row.amount ELSE appts[a].amount
  BY NewRowTyped DEF PairInv
<1>2. /\ txn[t].row.status = AskedStatus(txn[t].op)
      /\ txn[t].op = "complete" => txn[t].row.amount \in Amounts
  BY <1>1 DEF PairInv, AsAsked
<1>3. appts[a].status \in ActiveStatuses <=> a \in Active
  BY <1>1 DEF Active
<1>4. RevenueJustified /\ appts[a].status = "completed" => appts[a].amount \in Amounts
  BY <1>1 DEF RevenueJustified
<1>5. CASE txn[t].op \notin Merges
  <2>1. Written(t) = {"status"} /\ txn[t].row.status \in {"confirmed", "cancelled"}
    BY <1>1, <1>2, <1>5 DEF Written, Request, Ops, Merges, Moves, AskedStatus
  <2> QED BY <1>1, <1>3, <2>1
<1>6. CASE txn[t].op = "complete"
  <2>1. Written(t) = txn[t].diff /\ txn[t].pc = "flush" /\ txn[t].row.status = "completed"
    BY <1>2, <1>6 DEF Written, Merges, Moves, StoresOne, AskedStatus
  <2>2. "status" \notin txn[t].diff => a \notin Active
    BY <1>6, <2>1 DEF PairInv, ClosedStays
  <2>3. "amount" \notin txn[t].diff => appts[a].amount \in Amounts
    BY <1>6, <2>1 DEF AmountInv, AmountFound
  <2>4. NewRow(t).amount \in Amounts
    BY <1>1, <1>2, <1>6, <2>1, <2>3
  <2>5. a \in Active => NewRow(t).status \notin ActiveStatuses
    BY <1>1, <2>1, <2>2 DEF ActiveStatuses
  <2> QED BY <2>4, <2>5
<1>7. CASE txn[t].op \in Merges \ {"complete"}
  <2>1. /\ Written(t) = txn[t].diff /\ txn[t].pc = "flush"
        /\ txn[t].row.status \in {"rescheduled", "cancelled"}
    BY <1>2, <1>7 DEF Written, Merges, Moves, StoresOne, AskedStatus
  <2>2. "amount" \in txn[t].diff =>
          a \notin Active /\ ("status" \in txn[t].diff \/ appts[a].status # "completed")
    BY <1>7, <2>1 DEF AmountInv, AmountStale
  <2>3. NewRow(t).amount = appts[a].amount \/ a \notin Active
    BY <1>1, <2>1, <2>2
  <2>4. NewRow(t).status = "completed"
          => appts[a].status = "completed" /\ NewRow(t).amount = appts[a].amount
    BY <1>1, <2>1, <2>2
  <2> QED BY <1>4, <2>3, <2>4
<1> QED BY <1>1, <1>5, <1>6, <1>7

LEMMA AmountBegins ==
  ASSUME PairInv, AmountInv, NEW t \in Txns, NEW q \in Request, Begin(t, q), BeginsSoundly(q)
  PROVE  AmountInv'
<1>1. /\ txn'[t] = q /\ appts' = appts /\ Active' = Active
      /\ \A u \in Txns \ {t} : txn'[u] = txn[u]
  BY BeginLeaves DEF PairInv, TypeInv
<1>2. AmountRead'
  BY <1>1 DEF AmountInv, AmountRead, BeginsSoundly, Merges, Moves
<1>3. AmountFound'
  BY <1>1 DEF AmountInv, AmountFound, BeginsSoundly
<1>4. AmountStale'
  BY <1>1 DEF AmountInv, AmountStale, BeginsSoundly
<1> QED BY <1>2, <1>3, <1>4 DEF AmountInv

LEMMA AmountGoesOn ==
  ASSUME PairInv, AmountInv, NEW t \in Txns, GoesOn(t)
  PROVE  AmountInv'
<1>1. /\ txn[t].pc # "idle"
      /\ txn'[t].op = txn[t].op /\ txn'[t].row = txn[t].row /\ txn'[t].apt = txn[t].apt
      /\ \A u \in Txns \ {t} : txn'[u] = txn[u]
      /\ appts' = appts /\ Active' = Active
  BY GoesOnLeaves DEF PairInv, TypeInv
<1>2. txn'[t].pc = "flush" /\ txn[t].op \in Merges =>
        /\ "status" \in txn'[t].diff <=> txn[t].row.status # appts[txn[t].apt].status
        /\ "amount" \in txn'[t].diff <=> txn[t].row.amount # appts[txn[t].apt].amount
  BY GoesOnLeaves DEF PairInv, TypeInv, Columns
<1>3. /\ txn[t].row.status = AskedStatus(txn[t].op)
      /\ txn[t].op = "complete" => txn[t].row.amount \in Amounts
  BY <1>1 DEF PairInv, AsAsked
<1>4. AmountRead'
  BY <1>1 DEF AmountInv, AmountRead
<1>5. AmountFound'
  <2> SUFFICES ASSUME NEW u \in Txns, txn'[u].pc = "flush", txn'[u].op = "complete",
                      "amount" \notin txn'[u].diff
               PROVE  appts[txn'[u].apt].amount \in Amounts
    BY <1>1 DEF AmountFound
  <2>1. CASE u = t
    BY <1>1, <1>2, <1>3, <2>1 DEF Merges
  <2>2. CASE u # t
    BY <1>1, <2>2 DEF AmountInv, AmountFound
  <2> QED BY <2>1, <2>2
<1>6. AmountStale'
  <2> SUFFICES ASSUME NEW u \in Txns, txn'[u].pc = "flush",
                      txn'[u].op \in Merges \ {"complete"}, "amount" \in txn'[u].diff
               PROVE  /\ txn'[u].apt \notin Active
                      /\ "status" \in txn'[u].diff
                           \/ appts[txn'[u].apt].status # "completed"
    BY <1>1 DEF AmountStale
  <2>1. CASE u = t
    <3>1. txn[t].op \in Merges \ {"complete"} /\ txn[t].row.status # "completed"
      BY <1>1, <1>3, <2>1 DEF Merges, Moves, AskedStatus
    <3>2. txn[t].row.amount # appts[txn[t].apt].amount
      BY <1>1, <1>2, <2>1, <3>1
    <3>3. txn[t].apt \notin Active
      BY <1>1, <3>1, <3>2 DEF AmountInv, AmountRead
    <3> QED BY <1>1, <1>2, <2>1, <3>1, <3>3
  <2>2. CASE u # t
    BY <1>1, <2>2 DEF AmountInv, AmountStale
  <2> QED BY <2>1, <2>2
<1> QED BY <1>4, <1>5, <1>6 DEF AmountInv

LEMMA AmountStores ==
  ASSUME PairInv, AmountInv, NEW t \in Txns, StoresOne(t)
  PROVE  AmountInv'
<1>0. TypeInv /\ PairsOnActive /\ AmountRead /\ AmountFound /\ AmountStale
  BY DEF PairInv, AmountInv
<1>1. ASSUME NEW u \in Txns, txn'[u].pc # "idle"
      PROVE  txn'[u] = txn[u]
  BY <1>0, <1>1, StoresOthers
<1>2. ASSUME NEW u \in Txns, txn'[u].pc # "idle", txn[u].op # "book"
      PROVE  \/ /\ appts'[txn[u].apt] = appts[txn[u].apt]
                /\ txn[u].apt \in Active' <=> txn[u].apt \in Active
             \/ /\ txn[u].apt \in Active
                /\ appts'[txn[u].apt].amount \in Amounts
                     \/ appts'[txn[u].apt].amount = appts[txn[u].apt].amount
                /\ txn[u].apt \in Active'
                     => appts'[txn[u].apt].amount = appts[txn[u].apt].amount
  <2>1. /\ u # t /\ txn'[u] = txn[u] /\ txn[u].apt \in DOMAIN appts
        /\ \/ /\ txn[t].op # "book" /\ txn[t].apt = txn[u].apt
              /\ appts'[txn[u].apt] = NewRow(t)
           \/ appts'[txn[u].apt] = appts[txn[u].apt]
        /\ txn[u].apt \in Active' <=> appts'[txn[u].apt].status \in ActiveStatuses
    BY <1>0, <1>2, StoresOthers
  <2>2. CASE appts'[txn[u].apt] = appts[txn[u].apt]
    BY <2>1, <2>2 DEF Active
  <2>3. CASE /\ txn[t].op # "book" /\ txn[t].apt = txn[u].apt
             /\ appts'[txn[u].apt] = NewRow(t)
    <3>1. Changes(u, txn[t].apt)
      BY <1>2, <2>1, <2>3 DEF Changes
    <3>2. txn[u].apt \in Active
      BY <1>0, <2>1, <2>3, <3>1, TheOtherOne
    <3> QED BY <2>1, <2>3, <3>2, NewAmount
  <2> QED BY <2>1, <2>2, <2>3
<1>3. AmountRead'
  <2> SUFFICES ASSUME NEW u \in Txns, txn'[u].pc # "idle",
                      txn'[u].op \in Merges \ {"complete"}, txn'[u].apt \in Active'
               PROVE  txn'[u].row.amount = appts'[txn'[u].apt].amount
    BY DEF AmountRead
  <2>1. txn'[u] = txn[u] /\ txn[u].op # "book" /\ txn[u].op \in Merges \ {"complete"}
    BY <1>1 DEF Merges, Moves
  <2>2. /\ txn[u].apt \in Active
        /\ appts'[txn[u].apt].amount = appts[txn[u].apt].amount
    BY <1>2, <2>1
  <2>3. txn[u].row.amount = appts[txn[u].apt].amount
    BY <1>0, <2>1, <2>2 DEF AmountRead
  <2> QED BY <2>1, <2>2, <2>3
<1>4. AmountFound'
  <2> SUFFICES ASSUME NEW u \in Txns, txn'[u].pc = "flush", txn'[u].op = "complete",
                      "amount" \notin txn'[u].diff
               PROVE  appts'[txn'[u].apt].amount \in Amounts
    BY DEF AmountFound
  <2>1. txn'[u] = txn[u] /\ txn[u].op # "book" /\ txn'[u].pc # "idle"
    BY <1>1
  <2>2. appts[txn[u].apt].amount \in Amounts
    BY <1>0, <2>1 DEF AmountFound
  <2> QED BY <1>2, <2>1, <2>2
<1>5. AmountStale'
  <2> SUFFICES ASSUME NEW u \in Txns, txn'[u].pc = "flush",
                      txn'[u].op \in Merges \ {"complete"}, "amount" \in txn'[u].diff
               PROVE  /\ txn'[u].apt \notin Active'
                      /\ "status" \in txn'[u].diff
                           \/ appts'[txn'[u].apt].status # "completed"
    BY DEF AmountStale
  <2>1. /\ txn'[u] = txn[u] /\ txn'[u].pc # "idle"
        /\ txn[u].op # "book" /\ txn[u].op \in Merges \ {"complete"}
    BY <1>1 DEF Merges, Moves
  <2>2. /\ txn[u].apt \notin Active
        /\ "status" \in txn[u].diff \/ appts[txn[u].apt].status # "completed"
    BY <1>0, <2>1 DEF AmountStale
  <2>3. /\ appts'[txn[u].apt] = appts[txn[u].apt]
        /\ txn[u].apt \in Active' <=> txn[u].apt \in Active
    BY <1>2, <2>1, <2>2
  <2> QED BY <2>1, <2>2, <2>3
<1> QED BY <1>3, <1>4, <1>5 DEF AmountInv

LEMMA ChargedStores ==
  ASSUME PairInv, AmountInv, RevenueJustified, NEW t \in Txns, StoresOne(t)
  PROVE  RevenueJustified'
<1>0. TypeInv
  BY DEF PairInv
<1>1. PICK a \in AptIds, row \in Row :
        /\ txn[t].op = "book" => a \notin DOMAIN appts /\ row = txn[t].row
        /\ txn[t].op # "book" => a = txn[t].apt /\ a \in DOMAIN appts /\ row = NewRow(t)
        /\ DOMAIN appts' = DOMAIN appts \cup {a}
        /\ appts'[a] = row
        /\ \A b \in DOMAIN appts \ {a} : appts'[b] = appts[b]
  BY <1>0, StoresRow
<1>2. row.status = "completed" => row.amount \in Amounts
  <2>1. CASE txn[t].op = "book"
    BY <1>1, <2>1 DEF PairInv, AsAsked, AskedStatus, StoresOne
  <2>2. CASE txn[t].op # "book"
    BY <1>1, <2>2, NewAmount
  <2> QED BY <2>1, <2>2
<1> QED BY <1>1, <1>2 DEF RevenueJustified

\* An appointment that is closed carries what was collected, whichever writers
\* are in use and however their stale rows overwrite each other, as long as two
\* requests at most are at work on one appointment.  (Three are enough to break
\* it: see SilentNull.cfg.)
THEOREM ClosedIsCharged == Spec /\ []AtMostTwoEach => []RevenueJustified
<1> DEFINE Inv == AmountInv /\ RevenueJustified
<1>1. Init => PairInv /\ Inv
  <2> SUFFICES ASSUME Init PROVE PairInv /\ Inv
    OBVIOUS
  <2>1. \A t \in Txns : txn[t].pc = "idle"
    BY DEF Init, Idle
  <2>2. AmountInv
    BY <2>1 DEF AmountInv, AmountRead, AmountFound, AmountStale
  <2>3. RevenueJustified
    BY DEF Init, RevenueJustified
  <2> QED BY <2>2, <2>3, PairInvInit
<1>2. PairInv /\ Inv /\ [Next]_vars => Inv'
  <2> SUFFICES ASSUME PairInv, Inv, [Next]_vars PROVE Inv'
    OBVIOUS
  <2>0. TypeInv /\ TypeOK /\ AmountInv /\ RevenueJustified
    BY DEF PairInv, TypeInv
  <2>1. CASE UNCHANGED <<appts, visits, lock, txn>>
    <3>1. Active' = Active
      BY <2>1 DEF Active
    <3>2. AmountInv'
      BY <2>1, <3>1 DEF AmountInv, AmountRead, AmountFound, AmountStale
    <3>3. RevenueJustified'
      BY <2>1 DEF RevenueJustified
    <3> QED BY <3>2, <3>3
  <2>2. ASSUME NEW t \in Txns, Rollback(t) PROVE Inv'
    <3>1. /\ txn'[t].pc = "idle"
          /\ \A u \in Txns \ {t} : txn'[u] = txn[u]
          /\ appts' = appts /\ Active' = Active
      BY <2>0, <2>2, RollbackLeaves
    <3>2. ASSUME NEW u \in Txns, txn'[u].pc # "idle" PROVE txn'[u] = txn[u]
      BY <3>1, <3>2
    <3>3. AmountRead'
      BY <3>1, <3>2 DEF AmountInv, AmountRead
    <3>4. AmountFound'
      BY <3>1, <3>2 DEF AmountInv, AmountFound
    <3>5. AmountStale'
      BY <3>1, <3>2 DEF AmountInv, AmountStale
    <3>6. RevenueJustified'
      BY <3>1 DEF RevenueJustified
    <3> QED BY <3>3, <3>4, <3>5, <3>6 DEF AmountInv
  <2>3. ASSUME NEW t \in Txns, NEW q \in Request, Begin(t, q), BeginsSoundly(q)
        PROVE  Inv'
    <3>1. appts' = appts
      BY <2>3 DEF Begin
    <3>2. RevenueJustified'
      BY <3>1 DEF RevenueJustified
    <3> QED BY <2>0, <2>3, <3>2, AmountBegins
  <2>4. ASSUME NEW t \in Txns, GoesOn(t) PROVE Inv'
    <3>1. appts' = appts
      BY <2>4 DEF GoesOn
    <3>2. RevenueJustified'
      BY <3>1 DEF RevenueJustified
    <3> QED BY <2>0, <2>4, <3>2, AmountGoesOn
  <2>5. ASSUME NEW t \in Txns, StoresOne(t) PROVE Inv'
    BY <2>0, <2>5, AmountStores, ChargedStores
  <2> HIDE DEF Inv
  <2> QED BY <2>0, <2>1, <2>2, <2>3, <2>4, <2>5, NextKinds
<1>3. Inv => RevenueJustified
  OBVIOUS
<1> HIDE DEF Inv
<1> QED BY <1>1, <1>2, <1>3, PairInvCorrect, PTL DEF Spec

----------------------------------------------------------------------------
(* The locked writers implement SessionSeats.                              *)

SessionOf(row) == [service |-> row.service, prof |-> row.prof, start |-> row.start]

\* Where there is room, the abstract session admits.
LEMMA RoomAdmits ==
  ASSUME TypeOK, NEW row \in Row, NEW x, HasRoom(appts, Active, row, x)
  PROVE  Seats!Admits(x, SessionOf(row))
<1> DEFINE k      == SessionOf(row)
           others == {a \in Active \ {x} : appts[a].service = row.service /\ appts[a].prof = row.prof}
           same   == {a \in others : appts[a].start = row.start}
<1>1. DOMAIN SeatPlan = Active /\ \A a \in Active : SeatPlan[a] = SessionOf(appts[a])
  BY DEF SeatPlan, SessionOf
<1>2. IsFiniteSet(Active) /\ Seatable(appts, Active)
  BY ActiveFinite
<1>3. /\ Cardinality(same) < Capacity[row.service]
      /\ \A a \in others : Overlap(row, appts[a]) => appts[a].start = row.start
  BY DEF HasRoom
<1>4. row.service \in Services /\ row.start \in Nat
  BY BookingAssumption DEF Row
<1>5. Seats!Peers(x, k) \subseteq others
  BY <1>1 DEF Seats!Peers, Seats!Touch, SessionOf
<1>6. \A a \in Seats!Peers(x, k) : appts[a].start = row.start
  <2> TAKE a \in Seats!Peers(x, k)
  <2>1. a \in others /\ Seats!Touch(k, SeatPlan[a]) /\ SeatPlan[a] = SessionOf(appts[a])
    BY <1>1, <1>5 DEF Seats!Peers
  <2>2. appts[a].service \in Services /\ appts[a].start \in Nat
    BY <1>2, <2>1 DEF Seatable
  <2>3. Overlap(row, appts[a])
    BY <1>4, <2>1, <2>2, CatalogueAssumption DEF Seats!Touch, SessionOf, Overlap, EndsAt
  <2> QED BY <1>3, <2>1, <2>3
<1>7. Seats!Peers(x, k) \subseteq same
  BY <1>5, <1>6
<1>8. IsFiniteSet(same)
  <2>1. same \subseteq Active
    OBVIOUS
  <2> QED BY <2>1, <1>2, FS_Subset
<1>9. Cardinality(Seats!Peers(x, k)) < Capacity[k.service]
  <2>1. /\ Cardinality(Seats!Peers(x, k)) <= Cardinality(same)
        /\ Cardinality(same) \in Nat /\ Cardinality(Seats!Peers(x, k)) \in Nat
    BY <1>7, <1>8, FS_Subset, FS_CardinalityType
  <2>2. k.service = row.service /\ Capacity[row.service] \in Nat
    BY <1>4, CatalogueAssumption DEF SessionOf
  <2> QED BY <1>3, <2>1, <2>2
<1>10. \A a \in Seats!Peers(x, k) : SeatPlan[a].start = k.start
  BY <1>1, <1>5, <1>6 DEF SessionOf
<1>11. Seats!Cardinality(Seats!Peers(x, k)) = Cardinality(Seats!Peers(x, k))
  BY DEF Seats!Cardinality, Cardinality
<1> QED BY <1>9, <1>10, <1>11 DEF Seats!Admits

\* Storing a row seats an appointment, removes one, or changes no seat.
LEMMA CommitSeating ==
  ASSUME TypeOK, NEW x \in AptIds, NEW row \in Row, Store(x, row),
         row.status \in ActiveStatuses => HasRoom(appts, Active, row, x)
  PROVE  [Seats!Next]_SeatPlan
<1> DEFINE k == SessionOf(row)
<1>1. /\ DOMAIN appts' = DOMAIN appts \cup {x}
      /\ appts'[x] = row
      /\ \A b \in DOMAIN appts \ {x} : appts'[b] = appts[b]
  BY StoreRow
<1>2. /\ SeatPlan  = [b \in Active  |-> SessionOf(appts[b])]
      /\ SeatPlan' = [b \in Active' |-> SessionOf(appts'[b])]
      /\ DOMAIN SeatPlan = Active
  BY DEF SeatPlan, SessionOf
<1>3. CASE row.status \in ActiveStatuses
  <2>1. Active' = Active \cup {x} /\ \A b \in Active \ {x} : appts'[b] = appts[b]
    BY <1>1, <1>3 DEF Active
  <2>2. SeatPlan' = [b \in DOMAIN SeatPlan \cup {x} |-> IF b = x THEN k ELSE SeatPlan[b]]
    BY <1>1, <1>2, <2>1
  <2>3. Seats!Sit(x, k)
    BY <1>3, <2>2, RoomAdmits DEF Seats!Sit
  <2>4. k \in [service : Services, prof : Professionals \cup {NoProf}, start : Starts]
    BY DEF SessionOf, Row
  <2> QED BY <2>3, <2>4 DEF Seats!Next
<1>4. CASE row.status \notin ActiveStatuses
  <2>1. Active' = Active \ {x} /\ \A b \in Active' : appts'[b] = appts[b] /\ b \in Active
    BY <1>1, <1>4 DEF Active
  <2>2. SeatPlan' = [b \in DOMAIN SeatPlan \ {x} |-> SeatPlan[b]]
    BY <1>2, <2>1
  <2>3. CASE x \in Active
    BY <1>2, <2>2, <2>3 DEF Seats!Next, Seats!Leave
  <2>4. CASE x \notin Active
    <3>1. Active' = Active
      BY <2>1, <2>4
    <3>2. SeatPlan' = SeatPlan
      BY <1>2, <2>1, <3>1
    <3> QED BY <3>2
  <2> QED BY <2>3, <2>4
<1> QED BY <1>3, <1>4

\* A step is a step or a stutter of SessionSeats.
LEMMA StepSeating ==
  ASSUME Writers \subseteq LockedWriters, PairInv, SeatInv, MergeInv,
         NEW t \in Txns, StoresOne(t)
  PROVE  [Seats!Next]_SeatPlan
<1>0. TypeInv /\ TypeOK /\ End(t)
  BY DEF PairInv, TypeInv, StoresOne
<1>1. CASE txn[t].op = "book"
  <2>1. PICK a \in AptIds \ DOMAIN appts : Store(a, txn[t].row)
    BY <1>1 DEF StoresOne
  <2>2. Admitted(t) /\ HasRoom(appts, Active, txn[t].row, a)
    BY <1>0, <1>1, BookingHasRoom
  <2>3. txn[t].row \in Row
    BY <1>0, <2>2, RequestTyped DEF Admitted, Request
  <2> QED BY <1>0, <2>1, <2>2, <2>3, CommitSeating
<1>2. CASE txn[t].op # "book"
  <2>1. /\ txn[t].apt \in AptIds /\ NewRow(t) \in Row
        /\ NewRow(t).service = appts[txn[t].apt].service
        /\ NewRow(t).prof = appts[txn[t].apt].prof
    BY <1>0, <1>2, NewRowTyped
  <2>2. Store(txn[t].apt, NewRow(t))
    BY <1>2 DEF StoresOne
  <2>3. Lands(t)
    BY <1>2, NewRowPlaces
  <2>4. CASE NewRow(t).status \notin ActiveStatuses
    BY <1>0, <2>1, <2>2, <2>4, CommitSeating
  <2>5. CASE /\ NewRow(t).status \in ActiveStatuses /\ txn[t].apt \in Active
             /\ NewRow(t).start = appts[txn[t].apt].start
    BY <1>0, <2>1, <2>2, <2>5, StayingSeats
  <2>6. CASE Admitted(t) /\ NewRow(t).start = txn[t].row.start
    BY <1>0, <1>2, <2>1, <2>2, <2>6, MovedHasRoom, CommitSeating
  <2> QED BY <2>3, <2>4, <2>5, <2>6 DEF Lands
<1> QED BY <1>1, <1>2

\* The locked writers keep the promise of SessionSeats, with two of them at most
\* at work on an appointment: a seat is only ever given in a session that admits
\* it, one commit at a time.
THEOREM BookingSeatsClients ==
  ASSUME Writers \subseteq LockedWriters
  PROVE  Spec /\ []AtMostTwoEach => ImplementsSessionSeats
<1>1. Init => Seats!Init
  <2> SUFFICES ASSUME Init PROVE Seats!Init
    OBVIOUS
  <2>1. Active = {}
    BY DEF Init, Active
  <2>2. SeatPlan = <<>>
    BY <2>1 DEF SeatPlan
  <2> QED BY <2>2 DEF Seats!Init
<1>2. PairInv /\ SeatInv /\ MergeInv /\ [Next]_vars => [Seats!Next]_SeatPlan
  <2> SUFFICES ASSUME PairInv, SeatInv, MergeInv, [Next]_vars PROVE [Seats!Next]_SeatPlan
    OBVIOUS
  <2>1. CASE appts' = appts
    BY <2>1 DEF SeatPlan, Active
  <2>2. ASSUME NEW t \in Txns, StoresOne(t) PROVE [Seats!Next]_SeatPlan
    BY <2>2, StepSeating
  <2>3. appts' = appts \/ \E t \in Txns : StoresOne(t)
    BY NextKinds DEF PairInv, Begin, GoesOn, Rollback
  <2> QED BY <2>1, <2>2, <2>3
<1> QED BY <1>1, <1>2, SeatInvCorrect, PTL DEF Spec, ImplementsSessionSeats, Seats!Spec

----------------------------------------------------------------------------
(* One request at a time, of any kind: what a request has read is still    *)
(* what is stored when it writes.                                          *)

Serial == \A t, u \in Txns : t = u

\* A bookable slot, looked at with the capacity of the service or with the
\* default, shares time with a session of the professional only when both are
\* classes.
LEMMA BookableIsClear ==
  ASSUME NEW f, NEW booked, NEW r, NEW x, NEW capacity,
         r.service \in Services, capacity \in {1, Capacity[r.service]},
         IsBookable(EvaluateSlot(r, capacity, f, booked, x)),
         NEW a \in booked \ {x}, Overlap(r, f[a])
  PROVE  ~Exclusive(r.service) /\ ~Exclusive(f[a].service)
<1>1. ~Blocked(r, capacity, f, Overlapping(r, f, booked, x))
  BY DEF IsBookable, EvaluateSlot
<1>2. a \in Overlapping(r, f, booked, x)
  BY DEF Overlapping
<1> QED BY <1>1, <1>2 DEF Blocked, Exclusive

\* The professional of r, wherever x is, is free at its time.
Clear(r, x) ==
  r.prof # NoProf =>
    \A a \in Active \ {x} :
      appts[a].prof = r.prof /\ Overlap(r, appts[a])
        => ~Exclusive(r.service) /\ ~Exclusive(appts[a].service)

\* What a request found when it began, and when it checked its slot, still holds.
StillTrue(t) ==
  /\ IF txn[t].op = "book"
     THEN ~HasActiveAt(txn[t].row.client, txn[t].row.service, txn[t].row.start)
     ELSE /\ txn[t].apt \in Active
          /\ txn[t].op \notin Moves => txn[t].row.start = appts[txn[t].apt].start
  /\ txn[t].pc \in {"write", "flush"} /\ txn[t].op \in Moves \cup {"book"}
       => Clear(txn[t].row, txn[t].apt)

SerialInv ==
  /\ TypeInv
  /\ \A t \in Txns : txn[t].pc # "idle" => StillTrue(t)
  /\ ProfessionalNotDoubleBooked

\* When the only request ends, nothing is under way.
LEMMA EndAlone ==
  ASSUME Serial, NEW t \in Txns, TypeInv, End(t), TypeInv', ProfessionalNotDoubleBooked'
  PROVE  SerialInv'
<1>1. txn'[t].pc = "idle"
  BY DEF TypeInv, TypeOK, End, Idle
<1> QED BY <1>1 DEF SerialInv, Serial

\* A row that is stored where its professional is free keeps the professionals
\* from being double-booked; the others are where they were.
LEMMA StoreClear ==
  ASSUME TypeInv, ProfessionalNotDoubleBooked, NEW x \in AptIds, NEW row \in Row,
         Store(x, row), Clear(row, x)
  PROVE  ProfessionalNotDoubleBooked'
<1>1. /\ DOMAIN appts' = DOMAIN appts \cup {x}
      /\ appts'[x] = row
      /\ \A b \in DOMAIN appts \ {x} : appts'[b] = appts[b]
  BY StoreRow DEF TypeInv
<1>2. \A b \in Active' \ {x} : b \in Active \ {x} /\ appts'[b] = appts[b]
  BY <1>1 DEF Active
<1> SUFFICES ASSUME NEW a \in Active', NEW b \in Active', a # b,
                    appts'[a].prof = appts'[b].prof, appts'[a].prof # NoProf,
                    Overlap(appts'[a], appts'[b])
             PROVE  ~Exclusive(appts'[a].service) /\ ~Exclusive(appts'[b].service)
  BY DEF ProfessionalNotDoubleBooked
<1>3. CASE a = x
  BY <1>1, <1>2, <1>3 DEF Clear
<1>4. CASE b = x
  <2>1. appts'[a] = appts[a] /\ a \in Active \ {x} /\ appts'[b] = row
    BY <1>1, <1>2, <1>4
  <2>2. appts[a] \in Row
    BY <2>1 DEF Active, TypeInv, TypeOK
  <2>3. Overlap(row, appts[a])
    BY <2>1, <2>2, BookingAssumption, OverlapSymmetric DEF Row
  <2> QED BY <2>1, <2>3 DEF Clear
<1>5. CASE a # x /\ b # x
  <2>1. /\ a \in Active /\ b \in Active
        /\ appts'[a] = appts[a] /\ appts'[b] = appts[b]
    BY <1>2, <1>5
  <2> QED BY <2>1 DEF ProfessionalNotDoubleBooked
<1> QED BY <1>3, <1>4, <1>5

\* Whoever keeps its place and time stays clear.
LEMMA StaysClear ==
  ASSUME TypeInv, ProfessionalNotDoubleBooked, NEW x \in Active, NEW row,
         row.service = appts[x].service, row.prof = appts[x].prof,
         row.start = appts[x].start
  PROVE  Clear(row, x)
<1>1. \A a \in Active : Overlap(row, appts[a]) <=> Overlap(appts[x], appts[a])
  BY DEF Overlap, EndsAt
<1> QED BY <1>1 DEF Clear, ProfessionalNotDoubleBooked

\* A slot check by the only request leaves its slot clear.
LEMMA CheckClear ==
  ASSUME TypeInv, NEW t \in Txns, txn[t].pc = "slot", SlotFree(txn[t])
  PROVE  Clear(txn[t].row, txn[t].apt)
<1> DEFINE r == txn[t].row
           capacity == CapacityUsed(txn[t].op, r.service)
<1>1. r.service \in Services
  BY RequestTyped DEF TypeInv, Request, Row
<1>2. capacity \in {1, Capacity[r.service]}
  BY DEF CapacityUsed
<1>3. IsBookable(EvaluateSlot(r, capacity, appts, Booked(r.prof), txn[t].apt))
  BY DEF SlotFree
<1> HIDE DEF capacity
<1>4. ASSUME r.prof # NoProf, NEW a \in Active \ {txn[t].apt}, appts[a].prof = r.prof,
             Overlap(r, appts[a])
      PROVE  ~Exclusive(r.service) /\ ~Exclusive(appts[a].service)
  <2>1. a \in Booked(r.prof) \ {txn[t].apt}
    BY <1>4 DEF Booked
  <2> QED BY <2>1, <1>1, <1>2, <1>3, <1>4, BookableIsClear
<1> QED BY <1>4 DEF Clear

LEMMA SerialStep ==
  ASSUME Serial, NEW t \in Txns, SerialInv, Step(t), TypeInv'
  PROVE  SerialInv'
<1>0. TypeInv /\ TypeOK /\ Targets /\ ProfessionalNotDoubleBooked
  BY DEF SerialInv, TypeInv
<1>1. CASE GoesOn(t)
  <2>1. /\ txn[t].pc # "idle"
        /\ txn'[t].op = txn[t].op /\ txn'[t].row = txn[t].row /\ txn'[t].apt = txn[t].apt
        /\ txn'[t].pc = "write" => txn[t].pc = "slot" /\ SlotFree(txn[t])
        /\ txn'[t].pc = "flush" => txn[t].pc = "write"
        /\ appts' = appts /\ Active' = Active
    BY <1>0, <1>1, GoesOnLeaves
  <2>2. txn'[t].pc = "write" => Clear(txn[t].row, txn[t].apt)
    BY <1>0, <2>1, CheckClear
  <2>3. ProfessionalNotDoubleBooked'
    BY <1>0, <2>1 DEF ProfessionalNotDoubleBooked
  <2>4. StillTrue(t)'
    BY <2>1, <2>2 DEF SerialInv, StillTrue, HasActiveAt, Clear
  <2> QED BY <2>3, <2>4 DEF SerialInv, Serial
<1>2. CASE Rollback(t)
  <2>1. ProfessionalNotDoubleBooked'
    BY <1>0, <1>2 DEF Rollback, ProfessionalNotDoubleBooked, Active
  <2> QED BY <1>0, <1>2, <2>1, EndAlone DEF Rollback
<1>3. CASE StoresOne(t)
  <2>1. txn[t] \in Request /\ txn[t].row \in Row /\ txn[t].pc # "idle" /\ StillTrue(t)
    BY <1>0, <1>3, RequestTyped DEF StoresOne, SerialInv, Request
  <2>2. PICK x \in AptIds, row \in Row : Store(x, row) /\ Clear(row, x)
    <3>1. CASE txn[t].op = "book"
      <4>1. PICK a \in AptIds \ DOMAIN appts : Store(a, txn[t].row)
        BY <1>3, <3>1 DEF StoresOne
      <4>2. Clear(txn[t].row, a)
        <5>1. txn[t].apt \notin Active
          BY <1>0, <2>1, <3>1, BookingAssumption DEF Targets, TypeOK, Active
        <5>2. Clear(txn[t].row, txn[t].apt)
          BY <1>3, <2>1, <3>1 DEF StillTrue, StoresOne
        <5> QED BY <5>1, <5>2 DEF Clear
      <4> QED BY <2>1, <4>1, <4>2
    <3>2. CASE txn[t].op # "book"
      <4> DEFINE a == txn[t].apt
      <4>1. /\ a \in AptIds /\ NewRow(t) \in Row
            /\ NewRow(t).service = appts[a].service /\ NewRow(t).service = txn[t].row.service
            /\ NewRow(t).prof = appts[a].prof /\ NewRow(t).prof = txn[t].row.prof
            /\ NewRow(t).start
                 = IF "start" \in Written(t) THEN txn[t].row.start ELSE appts[a].start
        BY <1>0, <1>3, <3>2, NewRowTyped
      <4>2. a \in Active /\ Store(a, NewRow(t))
        BY <1>3, <2>1, <3>2 DEF StillTrue, StoresOne
      <4>3. CASE NewRow(t).start = appts[a].start
        BY <1>0, <4>1, <4>2, <4>3, StaysClear
      <4>4. CASE NewRow(t).start = txn[t].row.start /\ txn[t].op \in Moves
        <5>1. Clear(txn[t].row, a)
          BY <1>3, <2>1, <4>4 DEF StillTrue, StoresOne, Merges
        <5>2. \A b : Overlap(NewRow(t), appts[b]) <=> Overlap(txn[t].row, appts[b])
          BY <4>1, <4>4 DEF Overlap, EndsAt
        <5> QED BY <4>1, <4>2, <5>1, <5>2 DEF Clear
      <4>5. CASE txn[t].op \notin Moves
        BY <2>1, <3>2, <4>1, <4>3, <4>5 DEF StillTrue
      <4> QED BY <4>1, <4>3, <4>4, <4>5
    <3> QED BY <3>1, <3>2
  <2>3. ProfessionalNotDoubleBooked'
    BY <1>0, <2>2, StoreClear
  <2> QED BY <1>0, <1>3, <2>3, EndAlone DEF StoresOne
<1> QED BY <1>0, <1>1, <1>2, <1>3, StepKinds

LEMMA SerialInvCorrect ==
  ASSUME Serial
  PROVE  Spec => []SerialInv
<1>1. Init => SerialInv
  BY TypeInvInit DEF Init, SerialInv, ProfessionalNotDoubleBooked, Active, Idle
<1>2. SerialInv /\ [Next]_vars => SerialInv'
  <2> SUFFICES ASSUME SerialInv, [Next]_vars PROVE SerialInv'
    OBVIOUS
  <2>1. TypeInv'
    BY TypeInvNext DEF SerialInv
  <2>2. CASE Tick \/ UNCHANGED vars
    BY <2>1, <2>2 DEF Tick, vars, SerialInv, ProfessionalNotDoubleBooked, Active,
                      StillTrue, HasActiveAt, Clear
  <2>3. ASSUME NEW t \in Txns, Arrive(t) PROVE SerialInv'
    <3>1. PICK q \in Request : Begin(t, q) /\ BeginsSoundly(q)
      BY <2>3, ArrivesSoundly DEF SerialInv, TypeInv
    <3>2. txn'[t] = q /\ appts' = appts
      BY <3>1 DEF Begin, SerialInv, TypeInv, TypeOK
    <3>3. ProfessionalNotDoubleBooked'
      BY <3>2 DEF SerialInv, ProfessionalNotDoubleBooked, Active
    <3>4. StillTrue(t)'
      BY <3>1, <3>2 DEF BeginsSoundly, StillTrue, HasActiveAt, Active, Moves
    <3> QED BY <2>1, <3>3, <3>4 DEF SerialInv, Serial
  <2>4. ASSUME NEW t \in Txns, Disconnect(t) PROVE SerialInv'
    <3>1. ProfessionalNotDoubleBooked' /\ End(t)
      BY <2>4 DEF Disconnect, Rollback, SerialInv, ProfessionalNotDoubleBooked, Active
    <3> QED BY <2>1, <3>1, EndAlone DEF SerialInv
  <2> QED BY <2>1, <2>2, <2>3, <2>4, SerialStep DEF Next
<1> QED BY <1>1, <1>2, PTL DEF Spec

\* One request at a time, whatever its kind, a professional is never given two
\* appointments that share time unless both are classes: the check before every
\* move into the agenda is enough as long as nothing comes between it and the
\* write.  (Concurrent requests on two services break this: see DoubleBooked.cfg
\* and OneServiceEach.)
THEOREM NotDoubleBookedAlone ==
  ASSUME Serial
  PROVE  Spec => []ProfessionalNotDoubleBooked
<1>1. SerialInv => ProfessionalNotDoubleBooked
  BY DEF SerialInv
<1> QED BY <1>1, SerialInvCorrect, PTL

\* One request at a time, a booking never adds a second active appointment of the
\* same client, service and start: the idempotency check of a booking, read before
\* anything is locked, still holds at its write.
THEOREM BookedOnceAlone ==
  ASSUME Serial
  PROVE  Spec => BookingIsIdempotent
<1> DEFINE New == \A a \in DOMAIN appts' \ DOMAIN appts, b \in Active :
                    appts[b].client = appts'[a].client /\ appts[b].service = appts'[a].service
                      => appts[b].start # appts'[a].start
<1>1. SerialInv /\ [Next]_vars => [New]_vars
  <2> SUFFICES ASSUME SerialInv, Next,
                      NEW a \in DOMAIN appts' \ DOMAIN appts, NEW b \in Active,
                      appts[b].client = appts'[a].client, appts[b].service = appts'[a].service
               PROVE  appts[b].start # appts'[a].start
    OBVIOUS
  <2>0. TypeInv /\ TypeOK /\ Targets
    BY DEF SerialInv, TypeInv
  <2>1. appts' # appts
    OBVIOUS
  <2>2. PICK t \in Txns : StoresOne(t)
    BY <2>0, <2>1, NextKinds DEF Begin, GoesOn, Rollback
  <2>3. txn[t] \in Request /\ txn[t].row \in Row /\ StillTrue(t)
    BY <2>0, <2>2, RequestTyped DEF StoresOne, SerialInv, Request
  <2>4. CASE txn[t].op = "book"
    <3>1. PICK x \in AptIds \ DOMAIN appts : Store(x, txn[t].row)
      BY <2>2, <2>4 DEF StoresOne, Merges, Moves
    <3>2. appts'[a] = txn[t].row
      BY <2>0, <2>3, <3>1, StoreRow
    <3> QED BY <2>3, <2>4, <3>2 DEF StillTrue, HasActiveAt
  <2>5. CASE txn[t].op # "book"
    <3>1. txn[t].apt \in DOMAIN appts
      BY <2>0, <2>2, <2>5 DEF StoresOne, Targets
    <3>2. DOMAIN appts' = DOMAIN appts
      BY <2>2, <2>5, <3>1 DEF StoresOne, Store
    <3> QED BY <3>2
  <2> QED BY <2>4, <2>5
<1>2. Spec => []SerialInv
  BY SerialInvCorrect
<1> QED BY <1>1, <1>2, PTL DEF Spec, BookingIsIdempotent

----------------------------------------------------------------------------
(* Concurrent requests, for professionals who perform one service each.    *)

\* Every professional is assigned to one service at most, and none is open to
\* whoever comes.
OneServiceEach ==
  \A s, z \in Services :
    /\ Performers[s] # {}
    /\ s # z => Performers[s] \cap Performers[z] = {}

\* What is stored, and what a booking will store, was asked of somebody who may
\* perform it.
Assigned ==
  /\ \A a \in DOMAIN appts : MayPerform(appts[a].prof, appts[a].service)
  /\ \A t \in Txns :
       txn[t].pc # "idle" /\ txn[t].op = "book" => MayPerform(txn[t].row.prof, txn[t].row.service)

LEMMA AssignedNext == TypeInv /\ Assigned /\ [Next]_vars => Assigned'
<1> SUFFICES ASSUME TypeInv, Assigned, [Next]_vars PROVE Assigned'
  OBVIOUS
<1>0. TypeOK
  BY DEF TypeInv
<1>1. CASE UNCHANGED <<appts, visits, lock, txn>>
  BY <1>1 DEF Assigned, MayPerform
<1>2. ASSUME NEW t \in Txns, NEW q \in Request, Begin(t, q), BeginsSoundly(q)
      PROVE  Assigned'
  <2>1. /\ txn'[t] = q /\ appts' = appts
        /\ \A u \in Txns \ {t} : txn'[u] = txn[u]
    BY <1>0, <1>2, BeginLeaves
  <2> QED BY <1>2, <2>1 DEF BeginsSoundly, Assigned, MayPerform
<1>3. ASSUME NEW t \in Txns, GoesOn(t) PROVE Assigned'
  <2>1. /\ appts' = appts /\ txn[t].pc # "idle"
        /\ txn'[t].op = txn[t].op /\ txn'[t].row = txn[t].row
        /\ \A u \in Txns \ {t} : txn'[u] = txn[u]
    BY <1>0, <1>3, GoesOnLeaves
  <2>2. ASSUME NEW u \in Txns, txn'[u].pc # "idle", txn'[u].op = "book"
        PROVE  MayPerform(txn[u].row.prof, txn[u].row.service) /\ txn'[u].row = txn[u].row
    <3>1. txn[u].pc # "idle" /\ txn[u].op = "book" /\ txn'[u].row = txn[u].row
      BY <2>1, <2>2
    <3> QED BY <3>1 DEF Assigned
  <2>3. \A a \in DOMAIN appts : MayPerform(appts[a].prof, appts[a].service)
    BY DEF Assigned
  <2> QED BY <2>1, <2>2, <2>3 DEF Assigned, MayPerform
<1>4. ASSUME NEW t \in Txns, Rollback(t) PROVE Assigned'
  <2>1. /\ appts' = appts /\ txn'[t].pc = "idle"
        /\ \A u \in Txns \ {t} : txn'[u] = txn[u]
    BY <1>0, <1>4, RollbackLeaves
  <2> QED BY <2>1 DEF Assigned, MayPerform
<1>5. ASSUME NEW t \in Txns, StoresOne(t) PROVE Assigned'
  <2>1. PICK x \in AptIds, row \in Row :
          /\ txn[t].op = "book" => row = txn[t].row
          /\ txn[t].op # "book" => x \in DOMAIN appts
          /\ x \in DOMAIN appts => row.service = appts[x].service /\ row.prof = appts[x].prof
          /\ DOMAIN appts' = DOMAIN appts \cup {x}
          /\ appts'[x] = row
          /\ \A b \in DOMAIN appts \ {x} : appts'[b] = appts[b]
    BY <1>5, StoresRow
  <2>2. MayPerform(row.prof, row.service)
    BY <1>5, <2>1 DEF Assigned, StoresOne
  <2>3. /\ txn'[t].pc = "idle"
        /\ \A u \in Txns \ {t} : txn'[u] = txn[u]
    BY <1>0, <1>5, EndTyped DEF StoresOne
  <2>4. \A a \in DOMAIN appts' : MayPerform(appts'[a].prof, appts'[a].service)
    BY <2>1, <2>2 DEF Assigned
  <2> QED BY <2>3, <2>4 DEF Assigned, MayPerform
<1> QED BY <1>1, <1>2, <1>3, <1>4, <1>5, NextKinds

\* However requests interleave, as long as those that move an appointment into the
\* agenda do so under the lock of its service, two requests at most are at work on
\* an appointment and every professional performs one service, nobody is
\* double-booked: the lock of a service is then the lock of its professionals.
THEOREM NotDoubleBookedInOneService ==
  ASSUME Writers \subseteq LockedWriters, OneServiceEach
  PROVE  Spec /\ []AtMostTwoEach => []ProfessionalNotDoubleBooked
<1>1. Init => Assigned
  BY DEF Init, Assigned, Idle
<1>2. TypeInv /\ SeatInv /\ Assigned => ProfessionalNotDoubleBooked
  <2> SUFFICES ASSUME TypeInv, SeatInv, Assigned, NEW a \in Active, NEW b \in Active, a # b,
                      appts[a].prof = appts[b].prof, appts[a].prof # NoProf,
                      Overlap(appts[a], appts[b])
               PROVE  ~Exclusive(appts[a].service) /\ ~Exclusive(appts[b].service)
    BY DEF ProfessionalNotDoubleBooked
  <2>1. appts[a].service \in Services /\ appts[b].service \in Services
    BY ActiveFinite DEF TypeInv, Seatable
  <2>2. /\ MayPerform(appts[a].prof, appts[a].service)
        /\ MayPerform(appts[a].prof, appts[b].service)
    BY DEF Assigned, Active
  <2>3. appts[a].service = appts[b].service
    BY <2>1, <2>2 DEF MayPerform, OneServiceEach
  <2>4. NoOverlapWithinService
    BY SeatedSessions DEF SeatInv, TypeInv
  <2> QED BY <2>3, <2>4 DEF NoOverlapWithinService
<1>3. Spec => []TypeInv
  BY TypeInvInit, TypeInvNext, PTL DEF Spec
<1>4. Spec /\ []AtMostTwoEach => []SeatInv
  BY SeatInvCorrect, PTL
<1>5. TypeInv /\ Assigned /\ [Next]_vars => Assigned'
  BY AssignedNext
<1> QED BY <1>1, <1>2, <1>3, <1>4, <1>5, PTL DEF Spec

----------------------------------------------------------------------------
(* The list of offered starts.                                             *)

\* A candidate of the grid lies within the day.
LEMMA GridWithinDay ==
  ASSUME NEW s \in Services, NEW x \in Grid(s)
  PROVE  x \in Int /\ DayStart <= x /\ x + Duration[s] <= DayEnd
<1>1. PICK h \in Hours, k \in 0 .. (DayEnd - DayStart) :
        x = h.open + k * GridStep(s) /\ x + Duration[s] <= h.close
  BY DEF Grid, RangeStarts
<1>2. /\ h.open \in Nat /\ DayStart <= h.open /\ h.close \in Int /\ h.close <= DayEnd
      /\ DayStart \in Nat /\ DayEnd \in Nat
  BY AvailabilityAssumption
<1>3. GridStep(s) \in Nat /\ Duration[s] \in Nat
  BY AvailabilityAssumption, CatalogueAssumption DEF GridStep
<1>4. k \in Nat /\ k * GridStep(s) \in Nat
  BY <1>2, <1>3
<1> QED BY <1>1, <1>2, <1>3, <1>4

\* What shares time with a candidate of the grid is in the agenda of the day.
LEMMA DayIsEnough ==
  ASSUME TypeOK, NEW s \in Services, NEW p, NEW x \in Grid(s), NEW cand,
         cand.service = s, cand.start = x
  PROVE  Overlapping(cand, appts, DayBooked(p), NoApt)
           = Overlapping(cand, appts, Booked(p), NoApt)
<1>1. x \in Int /\ DayStart <= x /\ x + Duration[s] <= DayEnd
  BY GridWithinDay
<1>2. DayStart \in Int /\ DayEnd \in Int /\ Duration[s] \in Nat
  BY AvailabilityAssumption, CatalogueAssumption
<1>3. ASSUME NEW a \in Booked(p), Overlap(cand, appts[a])
      PROVE  a \in DayBooked(p)
  <2>1. appts[a].start \in Int /\ appts[a].service \in Services
    BY ActiveFinite, BookingAssumption DEF Booked, Seatable
  <2>2. EndsAt(appts[a]) \in Int /\ EndsAt(cand) = x + Duration[s]
    BY <2>1, CatalogueAssumption DEF EndsAt
  <2>3. x < EndsAt(appts[a]) /\ x + Duration[s] > appts[a].start
    BY <1>3, <2>2 DEF Overlap
  <2> QED BY <1>1, <1>2, <2>1, <2>2, <2>3 DEF DayBooked
<1>4. DayBooked(p) \subseteq Booked(p)
  BY DEF DayBooked
<1> QED BY <1>3, <1>4 DEF Overlapping

\* Whatever is stored and whoever wrote it, a start of the grid is offered exactly
\* when the slot check of a booking accepts it: looking at the day loses nothing
\* that looking at the candidate sees.
THEOREM OffersAreBookable == Spec => []OffersAgreeWithBooking
<1>1. TypeOK => OffersAgreeWithBooking
  <2> SUFFICES ASSUME TypeOK, NEW s \in Services, NEW p \in Professionals \cup {NoProf},
                      NEW x \in Grid(s)
               PROVE  x \in Offered(s, p) <=> Bookable(s, p, x)
    BY DEF OffersAgreeWithBooking
  <2> DEFINE cand == [service |-> s, start |-> x]
             row  == [service |-> s, prof |-> p, start |-> x]
  <2>1. x \in Offered(s, p)
          <=> IsBookable(EvaluateSlot(cand, Capacity[s], appts, DayBooked(p), NoApt))
    BY DEF Offered
  <2>2. Bookable(s, p, x)
          <=> IsBookable(EvaluateSlot(row, Capacity[s], appts, Booked(p), NoApt))
    BY DEF Bookable, SlotFree, CapacityUsed
  <2>3. Overlapping(cand, appts, DayBooked(p), NoApt)
          = Overlapping(cand, appts, Booked(p), NoApt)
    BY DayIsEnough
  <2>4. Overlapping(cand, appts, Booked(p), NoApt) = Overlapping(row, appts, Booked(p), NoApt)
    BY DEF Overlapping, Overlap, EndsAt
  <2>5. ASSUME NEW over
        PROVE  /\ Blocked(cand, Capacity[s], appts, over) = Blocked(row, Capacity[s], appts, over)
               /\ Remaining(cand, Capacity[s], appts, over)
                    = Remaining(row, Capacity[s], appts, over)
    <3>1. \A a : /\ Misaligned(cand, appts[a]) <=> Misaligned(row, appts[a])
                 /\ SameSession(cand, appts[a]) <=> SameSession(row, appts[a])
      BY DEF Misaligned, SameSession
    <3>2. Blocked(cand, Capacity[s], appts, over) <=> Blocked(row, Capacity[s], appts, over)
      BY <3>1 DEF Blocked
    <3>3. {a \in over : SameSession(cand, appts[a])} = {a \in over : SameSession(row, appts[a])}
      BY <3>1
    <3> QED BY <3>2, <3>3 DEF Remaining, Blocked
  <2> QED BY <2>1, <2>2, <2>3, <2>4, <2>5 DEF IsBookable, EvaluateSlot
<1> QED BY <1>1, BookingTyped, PTL
=============================================================================
