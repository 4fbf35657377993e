-------------------------- MODULE MembershipProofs --------------------------
(***************************************************************************)
(* Proofs about Membership for any number of clients and memberships, any  *)
(* billing periods and any length of the day.  What the table and the      *)
(* unraced rows keep is proved for any number of concurrent requests; what *)
(* also covers the rows over which requests raced, for two requests at a   *)
(* time on each membership: a third one can be mixed into a merge.         *)
(***************************************************************************)
EXTENDS Membership, FiniteSetTheorems, TLAPS

----------------------------------------------------------------------------
(* The inductive invariant for any number of requests.                     *)

\* A membership ends no earlier than it starts, and was not frozen in the future.
Sound(r) ==
  /\ r.starts <= r.ends
  /\ r.status = "frozen" => r.frozen_at \in Int /\ r.frozen_at <= now

\* The member did not lose anything.
Enough(r, account) ==
  r.status # "cancelled" => account.used + Left(r) >= account.paid

\* The row a request is about to write is a command applied to the row it read.
Command(q) ==
  \/ /\ q.op = "renew"
     /\ q.seen.status = "active"
     /\ q.row = Renewed(q.seen, q.row.period)
  \/ /\ q.op = "freeze"
     /\ q.seen.status = "active"
     /\ q.row = Frozen(q.seen)
  \/ /\ q.op = "unfreeze"
     /\ q.seen.status = "frozen"
     /\ q.row = Resumed(q.seen)
  \/ /\ q.op = "cancel"
     /\ q.row = Cancelled(q.seen)

Inserting(q) ==
  /\ q.op = "grant"
  /\ q.row.status = "active"
  /\ q.row.ends = q.row.starts + q.row.period
  /\ q.row.frozen_at = NoTime

Updating(q) == q.id \in DOMAIN rows /\ Command(q)

Prepared ==
  \A t \in Txns : /\ txn[t].pc = "insert" => Inserting(txn[t])
                  /\ txn[t].pc \in {"update", "flush"} => Updating(txn[t])

OneLive == \A m, n \in DOMAIN rows :
  /\ rows[m].status \in Live
  /\ rows[n].status \in Live
  /\ rows[m].client = rows[n].client
  => m = n

NothingLost == \A m \in DOMAIN rows \ raced : Sound(rows[m]) /\ Enough(rows[m], ledger[m])

MemInv ==
  /\ TypeOK
  /\ Prepared
  /\ OneLive
  /\ NothingLost

----------------------------------------------------------------------------
(* What two requests at a time on each membership keep besides.            *)

\* What a membership would have left if it were resumed right now, by the tick.
Potential(r) ==
  IF r.status = "frozen"
    THEN Later(0, r.ends + (now - r.frozen_at) - Later(now, r.starts))
    ELSE Left(r)

\* The member did not gain too much.
Limited(r, account) ==
  account.used + Potential(r) <= account.paid + account.idle + Day * account.thaws

\* Only a pause, or a cancelled one, says when it began.
Proper(r) == Sound(r) /\ (r.status = "active" => r.frozen_at = NoTime)

\* A pause that began before this tick: whatever is in progress began during it.
OldPause(r) == r.status = "frozen" /\ r.frozen_at < now

\* A cancellation of what is cancelled, that writes nothing.
Noop(q) ==
  /\ q.op = "cancel"
  /\ q.row = rows[q.id]
  /\ q.seen = rows[q.id]
  /\ q.pc = "flush" => q.diff = {}

\* What a request on a membership would leave of its account.
Bounded(q) ==
  /\ Proper(q.seen)
  /\ q.seen.starts = rows[q.id].starts
  /\ Limited(q.row, Booked(ledger[q.id], q))

\* Nobody wrote over an old pause since a request read it.
Fresh(q) ==
  OldPause(rows[q.id]) =>
    /\ q.seen = rows[q.id]
    /\ q.pc = "flush" => q.diff = Differing(q.row, rows[q.id])

\* The status and the beginning of the pause are written together, or not at all,
\* but for a membership that is cancelled.
Paired(q) ==
  q.pc = "flush" =>
    /\ q.op # "cancel" /\ "status" \notin q.diff => "frozen_at" \notin q.diff
    /\ q.op # "cancel" /\ "status" \in q.diff /\ "frozen_at" \notin q.diff =>
         rows[q.id].status = "cancelled" /\ rows[q.id].frozen_at = q.row.frozen_at
    /\ q.op = "cancel" /\ "status" \notin q.diff =>
         q.diff = {} \/ rows[q.id].status = "cancelled"

RowsKept == \A m \in DOMAIN rows : Proper(rows[m]) /\ Limited(rows[m], ledger[m])

RequestsKept ==
  \A t \in Txns : txn[t].pc \in {"update", "flush"} =>
    Bounded(txn[t]) /\ Fresh(txn[t]) /\ Paired(txn[t])

\* Of two requests on a cancelled membership, one writes nothing.
OneWrites ==
  \A t, u \in Txns :
    /\ t # u
    /\ txn[t].pc \in {"update", "flush"}
    /\ txn[u].pc \in {"update", "flush"}
    /\ txn[t].id = txn[u].id
    /\ rows[txn[t].id].status = "cancelled"
    => Noop(txn[t]) \/ Noop(txn[u])

TwoInv == RowsKept /\ RequestsKept /\ OneWrites

----------------------------------------------------------------------------
(* The commands, on any row.                                               *)

\* What time computations need to know of a row.
Timed(r) ==
  /\ r.starts \in Int
  /\ r.ends \in Int
  /\ r.period \in Nat \ {0}

\* Counting in whole days adds less than a day.
LEMMA WholeDaysRounds ==
  ASSUME NEW n \in Int
  PROVE  /\ WholeDays(n) \in Int
         /\ n <= WholeDays(n)
         /\ WholeDays(n) < n + Day
<1>1. (-n) % Day \in 0 .. (Day - 1)
  BY MembershipAssumption
<1> QED BY <1>1, MembershipAssumption DEF WholeDays

\* A row of the table is timed.
LEMMA RowTimed ==
  ASSUME NEW r \in Row
  PROVE  Timed(r)
BY MembershipAssumption DEF Row, Timed

\* A pause never counts for less than nothing, and when it is known when it began,
\* for less than a day more than it lasted.
LEMMA PauseCounted ==
  ASSUME now \in Int, NEW r \in Row
  PROVE  /\ FrozenDays(r) \in Nat
         /\ Sound(r) /\ r.status = "frozen" =>
              /\ now - r.frozen_at <= FrozenDays(r)
              /\ FrozenDays(r) < now - r.frozen_at + Day
<1>1. CASE r.frozen_at = NoTime
  BY <1>1, MembershipAssumption DEF FrozenDays, Sound
<1>2. CASE r.frozen_at # NoTime
  <2> DEFINE n == now - r.frozen_at
             w == WholeDays(n)
  <2>1. r.frozen_at \in Int /\ n \in Int
    BY <1>2 DEF Row
  <2>2. w \in Int /\ n <= w /\ w < n + Day
    BY <2>1, WholeDaysRounds
  <2>3. FrozenDays(r) = Later(0, w)
    BY <1>2 DEF FrozenDays
  <2>4. Sound(r) /\ r.status = "frozen" => n >= 0
    BY <2>1 DEF Sound
  <2> HIDE DEF n, w
  <2>5. n = now - r.frozen_at
    BY DEF n
  <2>6. Later(0, w) \in Nat /\ (n >= 0 => n <= Later(0, w) /\ Later(0, w) < n + Day)
    BY <2>1, <2>2, MembershipAssumption DEF Later
  <2> QED BY <2>3, <2>4, <2>5, <2>6
<1> QED BY <1>1, <1>2

\* Every command makes a row of a row.
LEMMA CommandTyped ==
  ASSUME now \in Int, NEW r \in Row, NEW p \in Periods
  PROVE  /\ Renewed(r, p) \in Row
         /\ Frozen(r) \in Row
         /\ Resumed(r) \in Row
         /\ Cancelled(r) \in Row
<1>1. Later(r.ends, now) + p \in Int
  BY MembershipAssumption, RowTimed DEF Later, Timed
<1>2. r.ends + FrozenDays(r) \in Int
  BY PauseCounted, RowTimed DEF Timed
<1>3. Renewed(r, p) \in Row
  BY <1>1 DEF Renewed, Row, Live
<1>4. Resumed(r) \in Row
  BY <1>2 DEF Resumed, Row, Live
<1> QED BY <1>3, <1>4 DEF Frozen, Cancelled, Row, Live

\* Buying a period of p adds exactly p to what is left of an active membership.
LEMMA RenewedLeft ==
  ASSUME now \in Int, NEW r \in Row, Sound(r), r.status = "active", NEW p \in Periods
  PROVE  /\ Sound(Renewed(r, p))
         /\ Renewed(r, p).period = p
         /\ Left(Renewed(r, p)) = Left(r) + p
         /\ Potential(Renewed(r, p)) = Potential(r) + p
<1> DEFINE q == Renewed(r, p)
<1>1. /\ Timed(r)
      /\ r.starts <= r.ends
      /\ p \in Nat \ {0}
  BY RowTimed, MembershipAssumption DEF Sound
<1>2. /\ q.starts = r.starts
      /\ q.status = "active"
      /\ q.period = p
      /\ q.ends = Later(r.ends, now) + p
  BY DEF Renewed, Row
<1> HIDE DEF q
<1>4. Left(q) = Left(r) + p
  BY <1>1, <1>2 DEF Left, Clock, Later, Timed
<1>5. Sound(q)
  BY <1>1, <1>2 DEF Sound, Later, Timed
<1> QED BY <1>2, <1>4, <1>5 DEF Potential, q

\* Freezing changes nothing of what is left.
LEMMA FrozenLeft ==
  ASSUME now \in Int, NEW r \in Row, Sound(r), r.status = "active"
  PROVE  /\ Sound(Frozen(r))
         /\ Left(Frozen(r)) = Left(r)
         /\ Potential(Frozen(r)) = Potential(r)
<1> DEFINE q == Frozen(r)
<1>1. /\ Timed(r)
      /\ r.starts <= r.ends
      /\ now # NoTime
  BY RowTimed, MembershipAssumption DEF Sound
<1>2. /\ q.starts = r.starts
      /\ q.ends = r.ends
      /\ q.status = "frozen"
      /\ q.frozen_at = now
  BY DEF Frozen, Row
<1> HIDE DEF q
<1>4. Left(q) = Left(r) /\ Potential(q) = Left(r)
  BY <1>1, <1>2 DEF Left, Clock, Potential, Later, Timed
<1>5. Sound(q)
  BY <1>1, <1>2 DEF Sound
<1> QED BY <1>4, <1>5 DEF Potential, q

\* Resuming loses nothing, gains less than a day over the pause itself, and gains
\* nothing at all when the end does not move.
LEMMA ResumedLeft ==
  ASSUME now \in Int, NEW r \in Row, Sound(r), r.status = "frozen"
  PROVE  /\ Sound(Resumed(r))
         /\ Left(Resumed(r)) >= Left(r)
         /\ Potential(Resumed(r)) <= Potential(r) + Day
         /\ Resumed(r).ends <= r.ends => Potential(Resumed(r)) <= Potential(r)
<1> DEFINE q == Resumed(r)
           n == now - r.frozen_at
           w == FrozenDays(r)
<1>1. /\ Timed(r)
      /\ r.starts <= r.ends
      /\ r.frozen_at \in Int
      /\ r.frozen_at # NoTime
      /\ n \in Int
      /\ n >= 0
  BY RowTimed, MembershipAssumption DEF Sound
<1>2. w \in Nat /\ n <= w /\ w < n + Day
  BY PauseCounted
<1>3. /\ q.starts = r.starts
      /\ q.ends = r.ends + w
      /\ q.status = "active"
  BY DEF Resumed, Row
<1> HIDE DEF q, w
<1>5. Left(q) >= Left(r)
  BY <1>1, <1>2, <1>3 DEF Left, Clock, Later, Timed
<1>6. Potential(q) <= Potential(r) + Day
  BY <1>1, <1>2, <1>3, MembershipAssumption DEF Left, Clock, Potential, Later, Timed
<1>7. ASSUME q.ends <= r.ends PROVE Potential(q) <= Potential(r)
  BY <1>1, <1>2, <1>3, <1>7 DEF Left, Clock, Potential, Later, Timed
<1>8. Sound(q)
  BY <1>1, <1>2, <1>3 DEF Sound, Timed
<1> QED BY <1>5, <1>6, <1>7, <1>8 DEF q

\* Cancelling leaves no more than there would have been.
LEMMA CancelledLeft ==
  ASSUME now \in Int, NEW r \in Row, Sound(r)
  PROVE  /\ Sound(Cancelled(r))
         /\ Potential(Cancelled(r)) <= Potential(r)
<1> DEFINE q == Cancelled(r)
<1>1. /\ Timed(r)
      /\ r.starts <= r.ends
      /\ r.status = "frozen" => r.frozen_at \in Int /\ r.frozen_at <= now
  BY RowTimed DEF Sound
<1>2. /\ q.starts = r.starts
      /\ q.ends = r.ends
      /\ q.status = "cancelled"
  BY DEF Cancelled, Row
<1> HIDE DEF q
<1>3. Potential(q) <= Potential(r)
  <2>1. CASE r.status = "frozen"
    BY <1>1, <1>2, <2>1 DEF Left, Clock, Potential, Later, Timed
  <2>2. CASE r.status # "frozen"
    BY <1>1, <1>2, <2>2 DEF Left, Clock, Potential, Later, Timed
  <2> QED BY <2>1, <2>2
<1>4. Sound(q)
  BY <1>1, <1>2 DEF Sound
<1> QED BY <1>3, <1>4 DEF q

\* The times that are left, and that would be, are natural numbers.
LEMMA LeftNat ==
  ASSUME now \in Int, NEW r \in Row, Sound(r)
  PROVE  /\ Left(r) \in Nat
         /\ Potential(r) \in Nat
         /\ Left(r) <= Potential(r)
<1>1. Timed(r)
  BY RowTimed
<1>2. CASE r.status = "frozen"
  <2>1. r.frozen_at \in Int /\ r.frozen_at # NoTime /\ r.frozen_at <= now
    BY <1>2, MembershipAssumption DEF Sound
  <2> QED BY <1>1, <1>2, <2>1 DEF Left, Clock, Potential, Later, Timed
<1>3. CASE r.status # "frozen"
  BY <1>1, <1>3 DEF Left, Clock, Potential, Later, Timed
<1> QED BY <1>2, <1>3

----------------------------------------------------------------------------
(* What is booked for a request.                                           *)

\* What is booked for a request leaves an account an account.
LEMMA BookedAccount ==
  ASSUME NEW a \in Account, NEW q \in Begun
  PROVE  /\ Booked(a, q) \in Account
         /\ Booked(a, q).used = a.used
         /\ Booked(a, q).idle = a.idle
         /\ Booked(a, q).paid = a.paid + (IF q.op = "renew" THEN q.row.period ELSE 0)
         /\ Booked(a, q).thaws =
              a.thaws + (IF q.op = "unfreeze" /\ q.row.ends > q.seen.ends THEN 1 ELSE 0)
<1> DEFINE paid  == IF q.op = "renew" THEN a.paid + q.row.period ELSE a.paid
           thaws == IF q.op = "unfreeze" /\ q.row.ends > q.seen.ends
                      THEN a.thaws + 1 ELSE a.thaws
<1>1. q.row.period \in Nat
  BY MembershipAssumption DEF Begun, Row
<1>2. paid \in Nat /\ thaws \in Nat
  BY <1>1 DEF Account
<1>3. Booked(a, q) = [a EXCEPT !.paid = paid, !.thaws = thaws]
  BY DEF Booked, Account
<1>4. /\ paid = a.paid + (IF q.op = "renew" THEN q.row.period ELSE 0)
      /\ thaws = a.thaws + (IF q.op = "unfreeze" /\ q.row.ends > q.seen.ends THEN 1 ELSE 0)
  BY <1>1 DEF Account
<1> HIDE DEF paid, thaws
<1> QED BY <1>2, <1>3, <1>4 DEF Account

\* A command applied to a row with the account of that row: the row is well
\* formed, nothing is lost and what is gained is booked.
LEMMA CommandKeeps ==
  ASSUME now \in Int, NEW q \in Begun, Sound(q.seen), Command(q), NEW a \in Account
  PROVE  /\ Sound(q.row)
         /\ Enough(q.seen, a) => Enough(q.row, Booked(a, q))
         /\ Limited(q.seen, a) => Limited(q.row, Booked(a, q))
<1> DEFINE r == q.seen
           b == Booked(a, q)
<1>0. r \in Row /\ q.row \in Row /\ Day \in Nat \ {0}
  BY MembershipAssumption DEF Begun
<1>1. Left(r) \in Nat /\ Potential(r) \in Nat
  BY <1>0, LeftNat
<1>2. /\ b.used = a.used
      /\ b.idle = a.idle
      /\ b.paid = a.paid + (IF q.op = "renew" THEN q.row.period ELSE 0)
      /\ b.thaws =
           a.thaws + (IF q.op = "unfreeze" /\ q.row.ends > r.ends THEN 1 ELSE 0)
  BY BookedAccount
<1>3. /\ a.used \in Nat
      /\ a.idle \in Nat
      /\ a.paid \in Nat
      /\ a.thaws \in Nat
      /\ Day * a.thaws \in Nat
  BY <1>0 DEF Account
<1>4. CASE q.op = "renew"
  <2>1. /\ r.status = "active"
        /\ q.row = Renewed(r, q.row.period)
        /\ q.row.period \in Periods
    BY <1>0, <1>4 DEF Command, Row
  <2>2. /\ Sound(q.row)
        /\ Left(q.row) = Left(r) + q.row.period
        /\ Potential(q.row) = Potential(r) + q.row.period
    BY <1>0, <2>1, RenewedLeft
  <2>3. q.row.period \in Nat
    BY <2>1, MembershipAssumption
  <2> HIDE DEF b, r
  <2>4. b.paid = a.paid + q.row.period /\ b.thaws = a.thaws
    BY <1>2, <1>3, <1>4
  <2>5. Enough(r, a) => Enough(q.row, b)
    BY <1>1, <1>2, <1>3, <2>1, <2>2, <2>3, <2>4 DEF Enough
  <2>6. Limited(r, a) => Limited(q.row, b)
    BY <1>0, <1>1, <1>2, <1>3, <2>1, <2>2, <2>3, <2>4 DEF Limited
  <2> QED BY <2>2, <2>5, <2>6 DEF b, r
<1>5. CASE q.op = "freeze"
  <2>1. r.status = "active" /\ q.row = Frozen(r)
    BY <1>5 DEF Command
  <2>2. /\ Sound(q.row)
        /\ Left(q.row) = Left(r)
        /\ Potential(q.row) = Potential(r)
    BY <1>0, <2>1, FrozenLeft
  <2>3. b.paid = a.paid /\ b.thaws = a.thaws
    BY <1>2, <1>3, <1>5
  <2>4. Enough(r, a) => Enough(q.row, b)
    BY <1>2, <2>1, <2>2, <2>3 DEF Enough
  <2>5. Limited(r, a) => Limited(q.row, b)
    BY <1>2, <2>1, <2>2, <2>3 DEF Limited
  <2> QED BY <2>2, <2>4, <2>5
<1>6. CASE q.op = "unfreeze"
  <2>1. r.status = "frozen" /\ q.row = Resumed(r)
    BY <1>6 DEF Command
  <2>2. /\ Sound(q.row)
        /\ Left(q.row) >= Left(r)
        /\ Potential(q.row) <= Potential(r) + Day
        /\ q.row.ends <= r.ends => Potential(q.row) <= Potential(r)
    BY <1>0, <2>1, ResumedLeft
  <2>3. Left(q.row) \in Nat /\ Potential(q.row) \in Nat
    BY <1>0, <2>2, LeftNat
  <2>4. q.row.ends \in Int /\ r.ends \in Int
    BY <1>0, RowTimed DEF Timed
  <2> HIDE DEF b, r
  <2>5. /\ b.paid = a.paid
        /\ b.thaws = a.thaws + (IF q.row.ends > r.ends THEN 1 ELSE 0)
    BY <1>2, <1>3, <1>6
  <2>6. Enough(r, a) => Enough(q.row, b)
    BY <1>1, <1>2, <1>3, <2>1, <2>2, <2>3, <2>5 DEF Enough
  <2>7. Limited(r, a) => Limited(q.row, b)
    <3>1. CASE q.row.ends > r.ends
      <4>1. Day * (a.thaws + 1) = Day * a.thaws + Day
        BY <1>0, <1>3
      <4>2. b.thaws = a.thaws + 1
        BY <2>5, <3>1
      <4> QED BY <1>0, <1>1, <1>2, <1>3, <2>2, <2>3, <2>5, <4>1, <4>2 DEF Limited
    <3>2. CASE ~(q.row.ends > r.ends)
      <4>1. b.thaws = a.thaws /\ q.row.ends <= r.ends
        BY <1>3, <2>4, <2>5, <3>2
      <4> QED BY <1>1, <1>2, <1>3, <2>2, <2>3, <2>5, <4>1 DEF Limited
    <3> QED BY <3>1, <3>2
  <2> QED BY <2>2, <2>6, <2>7 DEF b, r
<1>7. CASE q.op = "cancel"
  <2>1. q.row = Cancelled(r)
    BY <1>7 DEF Command
  <2>2. q.row.status = "cancelled"
    BY <1>0, <2>1 DEF Cancelled, Row
  <2>3. Sound(q.row) /\ Potential(q.row) <= Potential(r)
    BY <1>0, <2>1, CancelledLeft
  <2>4. Potential(q.row) \in Nat
    BY <1>0, <2>3, LeftNat
  <2>5. b.paid = a.paid /\ b.thaws = a.thaws
    BY <1>2, <1>3, <1>7
  <2> HIDE DEF b, r
  <2>6. Limited(r, a) => Limited(q.row, b)
    BY <1>1, <1>2, <1>3, <2>3, <2>4, <2>5 DEF Limited
  <2> QED BY <2>2, <2>3, <2>6 DEF Enough, b, r
<1> QED BY <1>4, <1>5, <1>6, <1>7 DEF Command

\* A larger account allows what a smaller one did.
LEMMA LimitedMore ==
  ASSUME now \in Int, NEW r \in Row, Sound(r), NEW a \in Account, NEW b \in Account,
         b.used = a.used, b.idle = a.idle, b.paid >= a.paid, b.thaws >= a.thaws,
         Limited(r, a)
  PROVE  Limited(r, b)
<1>1. Day \in Nat /\ Potential(r) \in Nat
  BY MembershipAssumption, LeftNat
<1>2. /\ a.thaws \in Nat /\ b.thaws \in Nat
      /\ a.paid \in Nat /\ b.paid \in Nat
      /\ a.used \in Nat /\ a.idle \in Nat
  BY DEF Account
<1>3. /\ Day * a.thaws \in Nat /\ Day * b.thaws \in Nat
      /\ Day * a.thaws <= Day * b.thaws
  BY <1>1, <1>2
<1> QED BY <1>1, <1>2, <1>3 DEF Limited

\* Booking a request makes an account no smaller, nor what another one makes of it.
LEMMA BookedMore ==
  ASSUME NEW a \in Account, NEW q \in Begun, NEW p \in Begun
  PROVE  /\ Booked(a, q).paid >= a.paid
         /\ Booked(a, q).thaws >= a.thaws
         /\ Booked(Booked(a, q), p) \in Account
         /\ Booked(Booked(a, q), p).used = Booked(a, p).used
         /\ Booked(Booked(a, q), p).idle = Booked(a, p).idle
         /\ Booked(Booked(a, q), p).paid >= Booked(a, p).paid
         /\ Booked(Booked(a, q), p).thaws >= Booked(a, p).thaws
<1> DEFINE d == Booked(a, q)
<1>1. q.row.period \in Nat /\ p.row.period \in Nat
  BY MembershipAssumption DEF Begun, Row
<1>2. /\ d \in Account /\ d.used = a.used /\ d.idle = a.idle
      /\ d.paid = a.paid + (IF q.op = "renew" THEN q.row.period ELSE 0)
      /\ d.thaws =
           a.thaws + (IF q.op = "unfreeze" /\ q.row.ends > q.seen.ends THEN 1 ELSE 0)
  BY BookedAccount
<1>3. a.paid \in Nat /\ a.thaws \in Nat
  BY DEF Account
<1> HIDE DEF d
<1>4. d.paid \in Nat /\ d.thaws \in Nat /\ d.paid >= a.paid /\ d.thaws >= a.thaws
  BY <1>1, <1>2, <1>3
<1>5. /\ Booked(d, p) \in Account
      /\ Booked(d, p).used = d.used
      /\ Booked(d, p).idle = d.idle
      /\ Booked(d, p).paid = d.paid + (IF p.op = "renew" THEN p.row.period ELSE 0)
      /\ Booked(d, p).thaws =
           d.thaws + (IF p.op = "unfreeze" /\ p.row.ends > p.seen.ends THEN 1 ELSE 0)
  BY <1>2, BookedAccount
<1>6. /\ Booked(a, p).used = a.used
      /\ Booked(a, p).idle = a.idle
      /\ Booked(a, p).paid = a.paid + (IF p.op = "renew" THEN p.row.period ELSE 0)
      /\ Booked(a, p).thaws =
           a.thaws + (IF p.op = "unfreeze" /\ p.row.ends > p.seen.ends THEN 1 ELSE 0)
  BY BookedAccount
<1>7. /\ Booked(d, p).paid >= Booked(a, p).paid
      /\ Booked(d, p).thaws >= Booked(a, p).thaws
  <2> DEFINE x == Booked(d, p)
             y == Booked(a, p)
  <2>1. /\ x.paid = d.paid + (IF p.op = "renew" THEN p.row.period ELSE 0)
        /\ y.paid = a.paid + (IF p.op = "renew" THEN p.row.period ELSE 0)
        /\ x.thaws =
             d.thaws + (IF p.op = "unfreeze" /\ p.row.ends > p.seen.ends THEN 1 ELSE 0)
        /\ y.thaws =
             a.thaws + (IF p.op = "unfreeze" /\ p.row.ends > p.seen.ends THEN 1 ELSE 0)
    BY <1>5, <1>6
  <2> HIDE DEF x, y
  <2>2. x.paid >= y.paid /\ x.thaws >= y.thaws
    BY <1>1, <1>3, <1>4, <2>1
  <2> QED BY <2>2 DEF x, y
<1> QED BY <1>2, <1>4, <1>5, <1>6, <1>7 DEF d

----------------------------------------------------------------------------
(* The steps, for any number of requests.                                  *)

\* What a merge leaves, column by column.
LEMMA MergedRow ==
  ASSUME NEW s \in Row, NEW r \in Row, NEW d
  PROVE  /\ Merged(s, r, d) \in Row
         /\ Merged(s, r, d).client = s.client
         /\ Merged(s, r, d).starts = s.starts
         /\ Merged(s, r, d).status = IF "status" \in d THEN r.status ELSE s.status
         /\ Merged(s, r, d).ends = IF "ends" \in d THEN r.ends ELSE s.ends
         /\ Merged(s, r, d).frozen_at =
              IF "frozen_at" \in d THEN r.frozen_at ELSE s.frozen_at
<1>1. PICK status : status = IF "status" \in d THEN r.status ELSE s.status
  OBVIOUS
<1>2. PICK ends : ends = IF "ends" \in d THEN r.ends ELSE s.ends
  OBVIOUS
<1>3. PICK period : period = IF "period" \in d THEN r.period ELSE s.period
  OBVIOUS
<1>4. PICK frozen_at : frozen_at = IF "frozen_at" \in d THEN r.frozen_at ELSE s.frozen_at
  OBVIOUS
<1>5. Merged(s, r, d) = [s EXCEPT !.status = status, !.ends = ends, !.period = period,
                                  !.frozen_at = frozen_at]
  BY <1>1, <1>2, <1>3, <1>4 DEF Merged, Row
<1>6. /\ status \in Live \cup {"cancelled"}
      /\ ends \in Int
      /\ period \in Periods
      /\ frozen_at \in Int \cup {NoTime}
  BY <1>1, <1>2, <1>3, <1>4 DEF Row
<1> QED BY <1>1, <1>2, <1>4, <1>5, <1>6 DEF Row

\* A request in progress is a record of the right shape.
LEMMA RequestTyped ==
  ASSUME TypeOK, NEW t \in Txns, txn[t].pc # "idle"
  PROVE  txn[t] \in Begun
BY DEF TypeOK, Idle

\* A request that begins, or that ends without writing, changes no table.
LEMMA RequestKeeps ==
  ASSUME NEW t \in Txns, MemInv, NEW q \in Begun \cup {Idle},
         q.pc = "insert" => Inserting(q),
         q.pc \in {"update", "flush"} => Updating(q),
         txn' = [txn EXCEPT ![t] = q],
         UNCHANGED <<rows, now, ledger, raced>>
  PROVE  MemInv'
<1>1. TypeOK /\ Prepared
  BY DEF MemInv
<1>2. TypeOK'
  BY <1>1 DEF TypeOK, Row, Account
<1>3. /\ \A u \in Txns \ {t} : txn'[u] = txn[u]
      /\ txn'[t] = q
  BY <1>1 DEF TypeOK
<1>4. \A p : Updating(p)' <=> Updating(p)
  BY DEF Updating, Command, Renewed, Frozen, Resumed, FrozenDays, Cancelled
<1>5. \A p : Inserting(p)' <=> Inserting(p)
  BY DEF Inserting
<1>6. Prepared'
  BY <1>1, <1>3, <1>4, <1>5 DEF Prepared
<1>7. OneLive' /\ NothingLost'
  BY DEF MemInv, OneLive, NothingLost, Sound, Enough, Left, Clock
<1> QED BY <1>2, <1>6, <1>7 DEF MemInv

\* A grant prepares a fresh active membership.
LEMMA GrantKeeps ==
  ASSUME NEW t \in Txns, MemInv, BeginGrant(t)
  PROVE  MemInv'
<1>1. PICK c \in Clients, p \in Periods, d \in Offsets :
        Begin(t, "insert", "grant", NoMem, Granted(c, p, now + d), Granted(c, p, now + d))
  BY DEF BeginGrant
<1> DEFINE row == Granted(c, p, now + d)
           q   == [pc |-> "insert", op |-> "grant", id |-> NoMem, seen |-> row, row |-> row,
                   diff |-> {}]
<1>2. now + d \in Int /\ now + d + p \in Int
  BY MembershipAssumption DEF MemInv, TypeOK
<1>3. /\ row \in Row
      /\ row.status = "active"
      /\ row.ends = row.starts + row.period
      /\ row.frozen_at = NoTime
  BY <1>2 DEF Granted, Row, Live
<1> HIDE DEF row
<1>4. q \in Begun
  BY <1>3 DEF Begun
<1>5. Inserting(q)
  BY <1>3 DEF Inserting
<1>6. txn' = [txn EXCEPT ![t] = q] /\ UNCHANGED <<rows, now, ledger, raced>>
  BY <1>1 DEF Begin, row
<1> QED BY <1>4, <1>5, <1>6, RequestKeeps

\* A command begins with the row as it is stored, and changes no table.
Begins(t, q) ==
  /\ q \in Begun
  /\ q.pc = "update"
  /\ q.id \in DOMAIN rows
  /\ q.seen = rows[q.id]
  /\ Command(q)
  /\ txn' = [txn EXCEPT ![t] = q]
  /\ UNCHANGED <<rows, now, ledger, raced>>

\* A command on a stored membership.
LEMMA CommandBegins ==
  ASSUME NEW t \in Txns, TypeOK, NEW m \in DOMAIN rows, NEW row \in Row,
         NEW op \in {"renew", "freeze", "unfreeze", "cancel"},
         Command([pc |-> "update", op |-> op, id |-> m, seen |-> rows[m], row |-> row,
                  diff |-> {}]),
         Begin(t, "update", op, m, rows[m], row)
  PROVE  \E q : Begins(t, q)
<1> DEFINE q == [pc |-> "update", op |-> op, id |-> m, seen |-> rows[m], row |-> row,
                 diff |-> {}]
<1>1. m \in MemIds /\ rows[m] \in Row
  BY DEF TypeOK
<1>2. q \in Begun
  BY <1>1 DEF Begun
<1>3. txn' = [txn EXCEPT ![t] = q] /\ UNCHANGED <<rows, now, ledger, raced>>
  BY DEF Begin
<1>4. q.pc = "update" /\ q.id = m /\ q.seen = rows[m] /\ Command(q)
  OBVIOUS
<1> HIDE DEF q
<1>5. Begins(t, q)
  BY <1>2, <1>3, <1>4 DEF Begins
<1> QED BY <1>5

\* The four commands on a stored membership.
LEMMA CommandsBegin ==
  ASSUME NEW t \in Txns, TypeOK, Commands(t)
  PROVE  \E q : Begins(t, q)
<1>0. /\ now \in Int
      /\ \A m \in DOMAIN rows : rows[m] \in Row
  BY DEF TypeOK
<1>1. CASE BeginRenew(t)
  <2>1. PICK m \in DOMAIN rows, p \in Periods :
          /\ rows[m].status = "active"
          /\ Begin(t, "update", "renew", m, rows[m], Renewed(rows[m], p))
    BY <1>1 DEF BeginRenew
  <2>2. Renewed(rows[m], p) \in Row
    BY <1>0, CommandTyped
  <2>3. Renewed(rows[m], p).period = p
    BY <1>0 DEF Renewed, Row
  <2> QED BY <2>1, <2>2, <2>3, CommandBegins DEF Command
<1>2. CASE BeginFreeze(t)
  <2>1. PICK m \in DOMAIN rows :
          /\ rows[m].status = "active"
          /\ Begin(t, "update", "freeze", m, rows[m], Frozen(rows[m]))
    BY <1>2 DEF BeginFreeze
  <2>2. Frozen(rows[m]) \in Row
    BY <1>0 DEF Frozen, Row, Live
  <2> QED BY <2>1, <2>2, CommandBegins DEF Command
<1>3. CASE BeginUnfreeze(t)
  <2>1. PICK m \in DOMAIN rows :
          /\ rows[m].status = "frozen"
          /\ Begin(t, "update", "unfreeze", m, rows[m], Resumed(rows[m]))
    BY <1>3 DEF BeginUnfreeze
  <2>2. rows[m].period \in Periods
    BY <1>0 DEF Row
  <2>3. Resumed(rows[m]) \in Row
    BY <1>0, <2>2, CommandTyped
  <2> QED BY <2>1, <2>3, CommandBegins DEF Command
<1>4. CASE BeginCancel(t)
  <2>1. PICK m \in DOMAIN rows :
          Begin(t, "update", "cancel", m, rows[m], Cancelled(rows[m]))
    BY <1>4 DEF BeginCancel
  <2>2. Cancelled(rows[m]) \in Row
    BY <1>0 DEF Cancelled, Row
  <2> QED BY <2>1, <2>2, CommandBegins DEF Command
<1> QED BY <1>1, <1>2, <1>3, <1>4 DEF Commands

\* The SELECT of a merge.
LEMMA MergeNotes ==
  ASSUME NEW t \in Txns, TypeOK, Merge(t)
  PROVE  \E q \in Begun :
           /\ txn[t] \in Begun
           /\ txn[t].pc = "update"
           /\ q.pc = "flush"
           /\ q.id = txn[t].id
           /\ q.op = txn[t].op
           /\ q.seen = txn[t].seen
           /\ q.row = txn[t].row
           /\ q.diff = Differing(txn[t].row, rows[txn[t].id])
           /\ txn' = [txn EXCEPT ![t] = q]
           /\ UNCHANGED <<rows, now, ledger, raced>>
<1>1. PICK d : d = Differing(txn[t].row, rows[txn[t].id])
  OBVIOUS
<1>2. txn[t] \in Begun /\ txn[t].pc = "update" /\ d \in SUBSET Columns
  BY <1>1, RequestTyped DEF Merge, Differing
<1> DEFINE q == [txn[t] EXCEPT !.pc = "flush", !.diff = d]
<1>3. q \in Begun
  BY <1>2 DEF Begun
<1>4. txn' = [txn EXCEPT ![t] = q] /\ UNCHANGED <<rows, now, ledger, raced>>
  BY <1>1 DEF Merge, TypeOK
<1>5. /\ q.pc = "flush" /\ q.id = txn[t].id /\ q.op = txn[t].op
      /\ q.seen = txn[t].seen /\ q.row = txn[t].row /\ q.diff = d
  BY <1>2 DEF Begun
<1> HIDE DEF q
<1> QED BY <1>1, <1>2, <1>3, <1>4, <1>5

\* The unique index: a row that it lets in does not make a second live one.
LEMMA IndexKeepsOneLive ==
  ASSUME OneLive, NEW m, NEW r, IndexAdmits(m, r),
         DOMAIN rows' = DOMAIN rows \cup {m}, rows'[m] = r,
         \A n \in DOMAIN rows \ {m} : rows'[n] = rows[n]
  PROVE  OneLive'
<1> SUFFICES ASSUME NEW a \in DOMAIN rows', NEW b \in DOMAIN rows',
                    rows'[a].status \in Live, rows'[b].status \in Live,
                    rows'[a].client = rows'[b].client
             PROVE  a = b
  BY DEF OneLive, Live
<1>1. CASE a # m /\ b # m
  BY <1>1 DEF OneLive
<1>2. CASE a = m /\ b # m
  <2>1. b \in LiveOf(r.client)
    BY <1>2 DEF LiveOf
  <2> QED BY <1>2, <2>1 DEF IndexAdmits
<1>3. CASE a # m /\ b = m
  <2>1. a \in LiveOf(r.client)
    BY <1>3 DEF LiveOf
  <2> QED BY <1>3, <2>1 DEF IndexAdmits
<1> QED BY <1>1, <1>2, <1>3

\* A new membership: nothing of it is lost or gained yet.
LEMMA OpenedBalanced ==
  ASSUME now \in Int, NEW r \in Row, r.status = "active", r.ends = r.starts + r.period
  PROVE  /\ Opened(r) \in Account
         /\ Sound(r)
         /\ Enough(r, Opened(r))
         /\ Limited(r, Opened(r))
<1> DEFINE a == Opened(r)
<1>1. Timed(r) /\ Day \in Nat
  BY RowTimed, MembershipAssumption
<1>2. /\ a.paid = r.period
      /\ a.used = (IF r.ends <= now THEN r.period ELSE Later(0, now - r.starts))
      /\ a.idle = 0
      /\ a.thaws = 0
  BY DEF Opened
<1>3. a \in Account
  BY <1>1 DEF Opened, Account, Later, Timed
<1> HIDE DEF a
<1>4. Sound(r)
  BY <1>1 DEF Sound, Timed
<1>5. a.used + Left(r) = a.paid /\ Potential(r) = Left(r)
  BY <1>1, <1>2 DEF Left, Clock, Later, Timed, Potential
<1>6. Left(r) \in Nat
  BY <1>4, LeftNat
<1>7. Day * a.thaws = 0
  BY <1>1, <1>2
<1>8. Enough(r, a) /\ Limited(r, a)
  BY <1>1, <1>2, <1>3, <1>5, <1>6, <1>7 DEF Enough, Limited, Account
<1> QED BY <1>3, <1>4, <1>8 DEF a

\* The insert of a granted membership: one more row and its account.
LEMMA InsertStores ==
  ASSUME NEW t \in Txns, TypeOK, Prepared, Insert(t)
  PROVE  \E m \in MemIds \ DOMAIN rows, r \in Row :
           /\ r = txn[t].row
           /\ r.status = "active"
           /\ r.ends = r.starts + r.period
           /\ r.frozen_at = NoTime
           /\ IndexAdmits(m, r)
           /\ Opened(r) \in Account
           /\ rows' = [n \in DOMAIN rows \cup {m} |-> IF n = m THEN r ELSE rows[n]]
           /\ ledger' = [n \in DOMAIN rows \cup {m} |-> IF n = m THEN Opened(r) ELSE ledger[n]]
           /\ txn' = [txn EXCEPT ![t] = Idle]
           /\ now' = now
           /\ raced' = raced
<1>1. txn[t] \in Begun /\ Inserting(txn[t]) /\ now \in Int
  BY RequestTyped DEF Insert, Prepared, TypeOK
<1>2. /\ txn[t].row \in Row /\ txn[t].row.status = "active"
      /\ txn[t].row.ends = txn[t].row.starts + txn[t].row.period
      /\ txn[t].row.frozen_at = NoTime
  BY <1>1 DEF Begun, Inserting
<1>3. Opened(txn[t].row) \in Account
  BY <1>1, <1>2, OpenedBalanced
<1> QED BY <1>2, <1>3 DEF Insert

\* The insert keeps the invariant.
LEMMA InsertKeeps ==
  ASSUME NEW t \in Txns, MemInv, Insert(t)
  PROVE  MemInv'
<1>1. TypeOK /\ now \in Int /\ Prepared /\ OneLive /\ NothingLost
  BY DEF MemInv, TypeOK
<1>2. PICK m \in MemIds \ DOMAIN rows, r \in Row :
        /\ r = txn[t].row
        /\ r.status = "active"
        /\ r.ends = r.starts + r.period
        /\ r.frozen_at = NoTime
        /\ IndexAdmits(m, r)
        /\ Opened(r) \in Account
        /\ rows' = [n \in DOMAIN rows \cup {m} |-> IF n = m THEN r ELSE rows[n]]
        /\ ledger' = [n \in DOMAIN rows \cup {m} |-> IF n = m THEN Opened(r) ELSE ledger[n]]
        /\ txn' = [txn EXCEPT ![t] = Idle]
        /\ now' = now
        /\ raced' = raced
  BY <1>1, InsertStores
<1>3. Sound(r) /\ Enough(r, Opened(r))
  BY <1>1, <1>2, OpenedBalanced
<1>4. /\ DOMAIN rows' = DOMAIN rows \cup {m}
      /\ rows'[m] = r
      /\ ledger'[m] = Opened(r)
      /\ \A n \in DOMAIN rows : n # m /\ rows'[n] = rows[n] /\ ledger'[n] = ledger[n]
  BY <1>2
<1>5. TypeOK'
  <2>1. /\ DOMAIN rows' \subseteq MemIds
        /\ rows' \in [DOMAIN rows' -> Row]
    BY <1>1, <1>2 DEF TypeOK
  <2>2. ledger' \in [DOMAIN rows' -> Account]
    BY <1>1, <1>2 DEF TypeOK
  <2>3. txn' \in [Txns -> Begun \cup {Idle}]
    BY <1>1, <1>2 DEF TypeOK
  <2>4. now' \in 0 .. MaxTime /\ raced' \subseteq DOMAIN rows'
    BY <1>1, <1>2, <1>4 DEF TypeOK
  <2> QED BY <2>1, <2>2, <2>3, <2>4 DEF TypeOK, Row, Account
<1>6. /\ \A u \in Txns \ {t} : txn'[u] = txn[u]
      /\ txn'[t].pc = "idle"
  BY <1>1, <1>2 DEF TypeOK, Idle
<1>7. Prepared'
  <2>1. \A p : Updating(p) => Updating(p)'
    BY <1>2, <1>4 DEF Updating, Command, Renewed, Frozen, Resumed, FrozenDays, Cancelled
  <2>2. \A p : Inserting(p) => Inserting(p)'
    BY DEF Inserting
  <2> QED BY <1>1, <1>6, <2>1, <2>2 DEF Prepared
<1>8. OneLive'
  BY <1>1, <1>2, <1>4, IndexKeepsOneLive
<1>9. NothingLost'
  <2>1. \A x : Sound(x) => Sound(x)'
    BY <1>2 DEF Sound
  <2>2. \A x, a : Enough(x, a) => Enough(x, a)'
    BY <1>2 DEF Enough, Left, Clock
  <2> QED BY <1>1, <1>2, <1>3, <1>4, <2>1, <2>2 DEF NothingLost
<1> QED BY <1>5, <1>7, <1>8, <1>9 DEF MemInv

\* The UPDATE of a merge: one row, merged, and what is booked for it.
LEMMA UpdateStores ==
  ASSUME NEW t \in Txns, TypeOK, Prepared, Update(t)
  PROVE  \E q \in Begun, new \in Row, b \in Account :
           /\ q = txn[t]
           /\ q.pc = "flush"
           /\ Updating(q)
           /\ q.id \in DOMAIN rows
           /\ rows[q.id] \in Row
           /\ ledger[q.id] \in Account
           /\ new = Merged(rows[q.id], q.row, q.diff)
           /\ b = Booked(ledger[q.id], q)
           /\ IndexAdmits(q.id, new)
           /\ DOMAIN rows' = DOMAIN rows
           /\ rows'[q.id] = new
           /\ ledger'[q.id] = b
           /\ \A n \in DOMAIN rows \ {q.id} : rows'[n] = rows[n] /\ ledger'[n] = ledger[n]
           /\ rows' = [rows EXCEPT ![q.id] = new]
           /\ ledger' = [ledger EXCEPT ![q.id] = b]
           /\ raced' = IF rows[q.id] = q.seen /\ new = q.row THEN raced
                                                             ELSE raced \cup {q.id}
           /\ txn' = [txn EXCEPT ![t] = Idle]
           /\ now' = now
<1>1. PICK q \in Begun : q = txn[t] /\ q.pc = "flush" /\ Updating(q)
  BY RequestTyped DEF Update, Prepared
<1>2. /\ q.id \in DOMAIN rows /\ rows[q.id] \in Row /\ ledger[q.id] \in Account
      /\ q.row \in Row /\ DOMAIN ledger = DOMAIN rows
  BY <1>1 DEF Updating, TypeOK, Begun
<1>3. PICK new \in Row : new = Merged(rows[q.id], q.row, q.diff)
  BY <1>2, MergedRow
<1>4. PICK b \in Account : b = Booked(ledger[q.id], q)
  BY <1>2, BookedAccount
<1>5. /\ IndexAdmits(q.id, new)
      /\ rows' = [rows EXCEPT ![q.id] = new]
      /\ raced' = IF rows[q.id] = q.seen /\ new = q.row THEN raced
                                                        ELSE raced \cup {q.id}
      /\ txn' = [txn EXCEPT ![t] = Idle]
      /\ now' = now
  BY <1>1, <1>3 DEF Update
<1>6. ledger' = [ledger EXCEPT ![q.id] = b]
  BY <1>1, <1>4 DEF Update
<1>7. /\ DOMAIN rows' = DOMAIN rows
      /\ rows'[q.id] = new
      /\ ledger'[q.id] = b
      /\ \A n \in DOMAIN rows \ {q.id} : rows'[n] = rows[n] /\ ledger'[n] = ledger[n]
  BY <1>2, <1>5, <1>6
<1> QED BY <1>1, <1>2, <1>3, <1>4, <1>5, <1>6, <1>7

\* The update of a membership, over whatever is stored by then.
LEMMA UpdateKeeps ==
  ASSUME NEW t \in Txns, MemInv, Update(t)
  PROVE  MemInv'
<1>1. TypeOK /\ now \in Int /\ Prepared /\ OneLive /\ NothingLost
  BY DEF MemInv, TypeOK
<1>2. PICK q \in Begun, new \in Row, b \in Account :
        /\ q = txn[t]
        /\ Updating(q)
        /\ q.id \in DOMAIN rows
        /\ ledger[q.id] \in Account
        /\ b = Booked(ledger[q.id], q)
        /\ IndexAdmits(q.id, new)
        /\ DOMAIN rows' = DOMAIN rows
        /\ rows'[q.id] = new
        /\ ledger'[q.id] = b
        /\ \A n \in DOMAIN rows \ {q.id} : rows'[n] = rows[n] /\ ledger'[n] = ledger[n]
        /\ rows' = [rows EXCEPT ![q.id] = new]
        /\ ledger' = [ledger EXCEPT ![q.id] = b]
        /\ raced' = IF rows[q.id] = q.seen /\ new = q.row THEN raced
                                                          ELSE raced \cup {q.id}
        /\ txn' = [txn EXCEPT ![t] = Idle]
        /\ now' = now
  BY <1>1, UpdateStores
<1>3. TypeOK'
  <2>1. /\ DOMAIN rows' \subseteq MemIds
        /\ rows' \in [DOMAIN rows' -> Row]
    BY <1>1, <1>2 DEF TypeOK
  <2>2. ledger' \in [DOMAIN rows' -> Account]
    BY <1>1, <1>2 DEF TypeOK
  <2>3. txn' \in [Txns -> Begun \cup {Idle}]
    BY <1>1, <1>2 DEF TypeOK
  <2>4. now' \in 0 .. MaxTime /\ raced' \subseteq DOMAIN rows'
    BY <1>1, <1>2 DEF TypeOK
  <2> QED BY <2>1, <2>2, <2>3, <2>4 DEF TypeOK, Row, Account
<1>4. /\ \A u \in Txns \ {t} : txn'[u] = txn[u]
      /\ txn'[t].pc = "idle"
  BY <1>1, <1>2 DEF TypeOK, Idle
<1>5. Prepared'
  <2>1. \A p : Updating(p) => Updating(p)'
    BY <1>2 DEF Updating, Command, Renewed, Frozen, Resumed, FrozenDays, Cancelled
  <2>2. \A p : Inserting(p) => Inserting(p)'
    BY DEF Inserting
  <2> QED BY <1>1, <1>4, <2>1, <2>2 DEF Prepared
<1>6. OneLive'
  BY <1>1, <1>2, IndexKeepsOneLive
<1>7. NothingLost'
  <2>1. \A x : Sound(x) => Sound(x)'
    BY <1>2 DEF Sound
  <2>2. \A x, a : Enough(x, a) => Enough(x, a)'
    BY <1>2 DEF Enough, Left, Clock
  <2>3. q.id \notin raced' => Sound(new) /\ Enough(new, b)
    <3> HAVE q.id \notin raced'
    <3>1. q.id \notin raced /\ rows[q.id] = q.seen /\ new = q.row
      BY <1>2
    <3>2. Sound(q.seen) /\ Enough(q.seen, ledger[q.id])
      BY <1>1, <1>2, <3>1 DEF NothingLost
    <3> QED BY <1>1, <1>2, <3>1, <3>2, CommandKeeps DEF Updating
  <2>4. raced \subseteq raced'
    BY <1>2
  <2> QED BY <1>1, <1>2, <2>1, <2>2, <2>3, <2>4 DEF NothingLost
<1> QED BY <1>3, <1>5, <1>6, <1>7 DEF MemInv

\* A tick: one more is used of a membership in force, and a pause that has not
\* started yet is booked as idle.
LEMMA TickBooks ==
  ASSUME TypeOK, Tick, NEW m \in DOMAIN rows
  PROVE  /\ rows[m] \in Row
         /\ ledger[m] \in Account
         /\ ledger'[m] \in Account
         /\ ledger'[m].paid = ledger[m].paid
         /\ ledger'[m].thaws = ledger[m].thaws
         /\ ledger'[m].used = ledger[m].used + (IF IsCurrent(rows[m]) THEN 1 ELSE 0)
         /\ ledger'[m].idle =
              ledger[m].idle + (IF rows[m].status = "frozen" /\ now < rows[m].starts
                                  THEN 1 ELSE 0)
<1>1. PICK used : used = IF IsCurrent(rows[m]) THEN ledger[m].used + 1 ELSE ledger[m].used
  OBVIOUS
<1>2. PICK idle : idle = IF rows[m].status = "frozen" /\ now < rows[m].starts
                           THEN ledger[m].idle + 1 ELSE ledger[m].idle
  OBVIOUS
<1>3. rows[m] \in Row /\ ledger[m] \in Account
  BY DEF TypeOK
<1>4. ledger'[m] = [ledger[m] EXCEPT !.used = used, !.idle = idle]
  BY <1>1, <1>2, <1>3 DEF Tick, Account
<1>5. ledger[m].used \in Nat /\ ledger[m].idle \in Nat
  BY <1>3 DEF Account
<1>6. /\ used \in Nat /\ idle \in Nat
      /\ used = ledger[m].used + (IF IsCurrent(rows[m]) THEN 1 ELSE 0)
      /\ idle = ledger[m].idle + (IF rows[m].status = "frozen" /\ now < rows[m].starts
                                    THEN 1 ELSE 0)
  BY <1>1, <1>2, <1>5
<1> QED BY <1>3, <1>4, <1>6 DEF Account

\* A tick keeps the types.
LEMMA TickTyped ==
  ASSUME TypeOK, Tick
  PROVE  TypeOK'
<1>1. rows' = rows /\ txn' = txn /\ raced' = raced /\ now' = now + 1 /\ now < MaxTime
  BY DEF Tick
<1>2. ledger' \in [DOMAIN rows' -> Account]
  <2>1. /\ DOMAIN ledger' = DOMAIN rows
        /\ ledger' = [m \in DOMAIN rows |-> ledger'[m]]
    BY DEF Tick
  <2>2. \A m \in DOMAIN rows : ledger'[m] \in Account
    BY TickBooks
  <2> QED BY <1>1, <2>1, <2>2
<1>3. now' \in 0 .. MaxTime
  BY <1>1, MembershipAssumption DEF TypeOK
<1> QED BY <1>1, <1>2, <1>3 DEF TypeOK, Row, Account

\* What a tick takes from what is left is what the member used, and a pause, or a
\* membership that has not begun, gives nothing.
LEMMA TickLeaves ==
  ASSUME now \in Int, now' = now + 1, NEW r \in Row, Sound(r)
  PROVE  /\ Sound(r)'
         /\ Left(r)' \in Int
         /\ Potential(r)' \in Int
         /\ r.status # "cancelled" =>
              Left(r)' >= Left(r) - (IF IsCurrent(r) THEN 1 ELSE 0)
         /\ Potential(r)' + (IF IsCurrent(r) THEN 1 ELSE 0)
              <= Potential(r) + (IF r.status = "frozen" /\ now < r.starts THEN 1 ELSE 0)
<1>1. Timed(r) /\ r.starts <= r.ends
  BY RowTimed DEF Sound
<1>2. CASE r.status = "frozen"
  <2>1. r.frozen_at \in Int /\ r.frozen_at # NoTime /\ r.frozen_at <= now
    BY <1>2, MembershipAssumption DEF Sound
  <2> QED BY <1>1, <1>2, <2>1
          DEF Potential, Left, Clock, Later, Timed, Sound, IsCurrent, EffectiveStatus
<1>3. CASE r.status # "frozen"
  <2>1. Potential(r) = Left(r) /\ Potential(r)' = Left(r)'
    BY <1>3 DEF Potential
  <2>2. Left(r) = Later(0, r.ends - Later(now, r.starts))
    BY <1>3 DEF Left, Clock
  <2>3. Left(r)' = Later(0, r.ends - Later(now + 1, r.starts))
    BY <1>3 DEF Left, Clock
  <2>4. IsCurrent(r) => r.starts <= now /\ now < r.ends
    BY DEF IsCurrent
  <2>5. Sound(r)'
    BY <1>1, <1>3 DEF Sound
  <2>6. Left(r)' \in Int /\ Left(r)' >= Left(r) - 1 /\ Left(r)' <= Left(r)
    BY <1>1, <2>2, <2>3 DEF Later, Timed
  <2>7. r.starts <= now /\ now < r.ends => Left(r)' = Left(r) - 1
    BY <1>1, <2>2, <2>3 DEF Later, Timed
  <2>8. IsCurrent(r) <=> r.status = "active" /\ r.starts <= now /\ now < r.ends
    BY <1>1, <1>3 DEF IsCurrent, EffectiveStatus, Timed
  <2>9. CASE r.status = "active"
    <3>1. ~(r.starts <= now /\ now < r.ends) => Left(r)' = Left(r)
      BY <1>1, <2>2, <2>3 DEF Later, Timed
    <3>2. Left(r) \in Int
      BY <1>1, <2>2 DEF Later, Timed
    <3>3. CASE r.starts <= now /\ now < r.ends
      BY <1>3, <2>1, <2>5, <2>6, <2>7, <2>8, <2>9, <3>2, <3>3
    <3>4. CASE ~(r.starts <= now /\ now < r.ends)
      BY <1>3, <2>1, <2>5, <2>6, <2>8, <3>1, <3>2, <3>4
    <3> QED BY <3>3, <3>4
  <2>10. CASE r.status # "active"
    <3>1. ~IsCurrent(r)
      BY <2>8, <2>10
    <3>2. r.status = "cancelled"
      BY <1>3, <2>10 DEF Row, Live
    <3>3. Left(r) \in Int
      BY <1>1, <2>2 DEF Later, Timed
    <3> QED BY <1>3, <2>1, <2>5, <2>6, <3>1, <3>2, <3>3
  <2> QED BY <2>9, <2>10
<1> QED BY <1>2, <1>3

\* A tick keeps the invariant.
LEMMA TickKeeps ==
  ASSUME MemInv, Tick
  PROVE  MemInv'
<1>1. TypeOK /\ now \in Int /\ OneLive /\ NothingLost
  BY DEF MemInv, TypeOK
<1>2. rows' = rows /\ txn' = txn /\ raced' = raced /\ now' = now + 1
      /\ \A u \in Txns : txn[u].pc = "idle"
  BY DEF Tick
<1>3. TypeOK'
  BY <1>1, TickTyped
<1>4. OneLive' /\ Prepared'
  BY <1>1, <1>2 DEF OneLive, Prepared
<1>5. NothingLost'
  <2> SUFFICES ASSUME NEW m \in DOMAIN rows \ raced
               PROVE  Sound(rows[m])' /\ Enough(rows[m], ledger[m])'
    BY <1>2 DEF NothingLost
  <2>1. Sound(rows[m]) /\ Enough(rows[m], ledger[m])
    BY <1>1 DEF NothingLost
  <2>2. PICK r : r = rows[m]
    OBVIOUS
  <2>3. /\ r \in Row /\ ledger[m] \in Account /\ ledger'[m] \in Account
        /\ ledger'[m].paid = ledger[m].paid
        /\ ledger'[m].used = ledger[m].used + (IF IsCurrent(r) THEN 1 ELSE 0)
    BY <1>1, <2>2, TickBooks
  <2>4. /\ Sound(r)' /\ Left(r)' \in Int
        /\ r.status # "cancelled" =>
             Left(r)' >= Left(r) - (IF IsCurrent(r) THEN 1 ELSE 0)
    BY <1>1, <1>2, <2>1, <2>2, <2>3, TickLeaves
  <2>5. Left(r) \in Nat
    BY <1>1, <2>1, <2>2, <2>3, LeftNat
  <2>6. r.status # "cancelled" => ledger'[m].used + Left(r)' >= ledger'[m].paid
    <3> HAVE r.status # "cancelled"
    <3>1. ledger[m].used + Left(r) >= ledger[m].paid
      BY <2>1, <2>2 DEF Enough
    <3>2. /\ ledger[m].used \in Nat /\ ledger[m].paid \in Nat
      BY <2>3 DEF Account
    <3>3. CASE IsCurrent(r)
      BY <2>3, <2>4, <2>5, <3>1, <3>2, <3>3
    <3>4. CASE ~IsCurrent(r)
      BY <2>3, <2>4, <2>5, <3>1, <3>2, <3>4
    <3> QED BY <3>3, <3>4
  <2>7. Enough(r, ledger[m])'
    BY <2>6 DEF Enough
  <2>8. r = rows'[m]
    BY <1>2, <2>2
  <2> QED BY <1>2, <2>2, <2>4, <2>7
<1> QED BY <1>3, <1>4, <1>5 DEF MemInv

\* The empty table satisfies the invariant.
LEMMA MemInvInit == Init => MemInv
BY MembershipAssumption DEF Init, MemInv, TypeOK, Prepared, OneLive, NothingLost, Idle

\* Every step keeps the invariant.
LEMMA MemInvNext == MemInv /\ [Next]_vars => MemInv'
<1> SUFFICES ASSUME MemInv, [Next]_vars PROVE MemInv'
  OBVIOUS
<1>0. TypeOK /\ Prepared
  BY DEF MemInv
<1>1. CASE Tick
  BY <1>1, TickKeeps
<1>2. ASSUME NEW t \in Txns, BeginGrant(t) PROVE MemInv'
  BY <1>2, GrantKeeps
<1>3. ASSUME NEW t \in Txns, Commands(t) PROVE MemInv'
  <2>1. PICK q : Begins(t, q)
    BY <1>0, <1>3, CommandsBegin
  <2>2. Updating(q)
    BY <2>1 DEF Begins, Updating
  <2> QED BY <2>1, <2>2, RequestKeeps DEF Begins
<1>4. ASSUME NEW t \in Txns, Insert(t) PROVE MemInv'
  BY <1>4, InsertKeeps
<1>5. ASSUME NEW t \in Txns, Merge(t) PROVE MemInv'
  <2>1. PICK q \in Begun :
          /\ txn[t].pc = "update"
          /\ q.pc = "flush"
          /\ q.id = txn[t].id
          /\ q.op = txn[t].op
          /\ q.seen = txn[t].seen
          /\ q.row = txn[t].row
          /\ txn' = [txn EXCEPT ![t] = q]
          /\ UNCHANGED <<rows, now, ledger, raced>>
    BY <1>0, <1>5, MergeNotes
  <2>2. Updating(q)
    BY <1>0, <2>1 DEF Prepared, Updating, Command
  <2> QED BY <2>1, <2>2, RequestKeeps
<1>6. ASSUME NEW t \in Txns, Update(t) PROVE MemInv'
  BY <1>6, UpdateKeeps
<1>7. ASSUME NEW t \in Txns, Abandon(t) PROVE MemInv'
  <2>1. Idle.pc = "idle"
    BY DEF Idle
  <2> QED BY <1>7, <2>1, RequestKeeps DEF Abandon
<1>8. CASE UNCHANGED vars
  <2>1. /\ rows' = rows /\ txn' = txn /\ now' = now
        /\ ledger' = ledger /\ raced' = raced
    BY <1>8 DEF vars
  <2>2. TypeOK' /\ OneLive'
    BY <2>1 DEF MemInv, TypeOK, OneLive
  <2>3. NothingLost'
    BY <2>1 DEF MemInv, NothingLost, Sound, Enough, Left, Clock
  <2>4. \A p : Updating(p) => Updating(p)'
    BY <2>1 DEF Updating, Command, Renewed, Frozen, Resumed, FrozenDays, Cancelled
  <2>5. \A p : Inserting(p) => Inserting(p)'
    BY DEF Inserting
  <2>6. Prepared'
    BY <1>0, <2>1, <2>4, <2>5 DEF Prepared
  <2> QED BY <2>2, <2>3, <2>6 DEF MemInv
<1> QED BY <1>1, <1>2, <1>3, <1>4, <1>5, <1>6, <1>7, <1>8 DEF Next

----------------------------------------------------------------------------
(* The steps, for two requests at a time on each membership.               *)

\* What the row that a command made is like.
LEMMA CommandRow ==
  ASSUME now \in Int, NEW q \in Begun, Command(q), Proper(q.seen)
  PROVE  /\ q.row.starts = q.seen.starts
         /\ q.op # "cancel" /\ q.op # "freeze" =>
              q.row.status = "active" /\ q.row.frozen_at = NoTime
         /\ q.op = "freeze" =>
              /\ q.seen.status = "active"
              /\ q.row.status = "frozen"
              /\ q.row.frozen_at = now
         /\ q.op = "cancel" => q.row.status = "cancelled"
<1>1. q.seen \in Row
  BY DEF Begun
<1>2. q.seen.status = "active" => q.seen.frozen_at = NoTime
  BY DEF Proper
<1> QED BY <1>1, <1>2 DEF Command, Renewed, Frozen, Resumed, Cancelled, Row

\* A request that begins, notes what it will write, or ends, changes no row: what
\* the others rely on stays as it is.
LEMMA RequestFits ==
  ASSUME NEW t \in Txns, TypeOK, TwoInv, NEW q \in Begun \cup {Idle},
         q.pc \in {"update", "flush"} =>
           /\ Bounded(q) /\ Fresh(q) /\ Paired(q)
           /\ rows[q.id].status = "cancelled" =>
                \A u \in Txns \ {t} :
                  txn[u].pc \in {"update", "flush"} /\ txn[u].id = q.id =>
                    Noop(q) \/ Noop(txn[u]),
         txn' = [txn EXCEPT ![t] = q],
         UNCHANGED <<rows, now, ledger, raced>>
  PROVE  TwoInv'
<1>1. /\ \A u \in Txns \ {t} : txn'[u] = txn[u]
      /\ txn'[t] = q
  BY DEF TypeOK
<1>2. /\ \A p : Bounded(p)' <=> Bounded(p)
      /\ \A p : Fresh(p)' <=> Fresh(p)
      /\ \A p : Paired(p)' <=> Paired(p)
      /\ \A p : Noop(p)' <=> Noop(p)
  BY DEF Bounded, Proper, Sound, Limited, Potential, Left, Clock, Fresh, OldPause, Paired, Noop
<1>3. RowsKept'
  BY DEF TwoInv, RowsKept, Proper, Sound, Limited, Potential, Left, Clock
<1>4. RequestsKept'
  BY <1>1, <1>2 DEF TwoInv, RequestsKept
<1>5. OneWrites'
  <2> SUFFICES ASSUME NEW u \in Txns, NEW v \in Txns, u # v,
                      txn'[u].pc \in {"update", "flush"}, txn'[v].pc \in {"update", "flush"},
                      txn'[u].id = txn'[v].id, rows[txn'[u].id].status = "cancelled"
               PROVE  Noop(txn'[u]) \/ Noop(txn'[v])
    BY <1>1, <1>2 DEF OneWrites
  <2>1. CASE u = t
    BY <1>1, <2>1
  <2>2. CASE v = t
    BY <1>1, <2>2
  <2>3. CASE u # t /\ v # t
    BY <1>1, <2>3 DEF TwoInv, OneWrites
  <2> QED BY <2>1, <2>2, <2>3
<1> QED BY <1>3, <1>4, <1>5 DEF TwoInv

\* A command that begins read the row as it is.
LEMMA BeginFits ==
  ASSUME NEW t \in Txns, MemInv, TwoInv, NEW q, Begins(t, q)
  PROVE  TwoInv'
<1>1. /\ TypeOK /\ now \in Int
      /\ q \in Begun /\ q.pc = "update" /\ q.id \in DOMAIN rows
      /\ q.seen = rows[q.id] /\ Command(q)
      /\ txn' = [txn EXCEPT ![t] = q]
      /\ UNCHANGED <<rows, now, ledger, raced>>
  BY DEF Begins, MemInv, TypeOK
<1>2. Proper(q.seen) /\ Limited(q.seen, ledger[q.id]) /\ ledger[q.id] \in Account
  BY <1>1 DEF TwoInv, RowsKept, TypeOK
<1>3. Bounded(q)
  BY <1>1, <1>2, CommandKeeps DEF Bounded, Proper
<1>4. Fresh(q) /\ Paired(q)
  BY <1>1 DEF Fresh, Paired
<1>5. rows[q.id].status = "cancelled" => Noop(q)
  <2> HAVE rows[q.id].status = "cancelled"
  <2>1. q.seen \in Row /\ q.seen.status = "cancelled"
    BY <1>1 DEF Begun
  <2>2. q.op = "cancel" /\ q.row = Cancelled(q.seen)
    BY <1>1, <2>1 DEF Command
  <2>3. Cancelled(q.seen) = q.seen
    BY <2>1 DEF Cancelled, Row
  <2> QED BY <1>1, <2>2, <2>3 DEF Noop
<1> QED BY <1>1, <1>3, <1>4, <1>5, RequestFits

\* The SELECT of a merge notes the status and the beginning of a pause together.
LEMMA MergeFits ==
  ASSUME NEW t \in Txns, MemInv, TwoInv, Merge(t)
  PROVE  TwoInv'
<1>1. TypeOK /\ now \in Int /\ now # NoTime /\ Prepared
  BY MembershipAssumption DEF MemInv, TypeOK
<1>2. PICK q \in Begun :
        /\ txn[t] \in Begun
        /\ txn[t].pc = "update"
        /\ q.pc = "flush"
        /\ q.id = txn[t].id
        /\ q.op = txn[t].op
        /\ q.seen = txn[t].seen
        /\ q.row = txn[t].row
        /\ q.diff = Differing(txn[t].row, rows[txn[t].id])
        /\ txn' = [txn EXCEPT ![t] = q]
        /\ UNCHANGED <<rows, now, ledger, raced>>
  BY <1>1, MergeNotes
<1>3. /\ q.id \in DOMAIN rows /\ Command(q)
      /\ Bounded(txn[t]) /\ Fresh(txn[t])
  BY <1>1, <1>2 DEF Prepared, Updating, Command, TwoInv, RequestsKept
<1>4. Bounded(q) /\ Fresh(q)
  <2>1. Booked(ledger[q.id], q) = Booked(ledger[q.id], txn[t])
    BY <1>2 DEF Booked
  <2> QED BY <1>2, <1>3, <2>1 DEF Bounded, Fresh
<1>5. PICK s \in Row : s = rows[q.id] /\ Proper(s)
  BY <1>1, <1>3 DEF TypeOK, TwoInv, RowsKept
<1>6. q.diff = Differing(q.row, s)
  BY <1>2, <1>5
<1>7. Paired(q)
  <2>1. /\ "status" \in q.diff <=> q.row.status # s.status
        /\ "frozen_at" \in q.diff <=> q.row.frozen_at # s.frozen_at
    BY <1>6 DEF Differing, Columns
  <2>2. /\ q.op # "cancel" /\ q.op # "freeze" =>
             q.row.status = "active" /\ q.row.frozen_at = NoTime
        /\ q.op = "freeze" =>
             /\ q.seen.status = "active"
             /\ q.row.status = "frozen"
             /\ q.row.frozen_at = now
        /\ q.op = "cancel" => q.row.status = "cancelled"
    BY <1>1, <1>3, <1>4, CommandRow DEF Bounded
  <2>3. s.status \in {"active", "frozen", "cancelled"}
    BY DEF Row, Live
  <2>4. s.status = "active" => s.frozen_at = NoTime
    BY <1>5 DEF Proper
  <2>5. s.status = "frozen" => s.frozen_at \in Int /\ s.frozen_at # NoTime /\ s.frozen_at <= now
    BY <1>5, MembershipAssumption DEF Proper, Sound
  <2>6. q.op = "freeze" /\ s.status = "frozen" => s.frozen_at = now
    <3> HAVE q.op = "freeze" /\ s.status = "frozen"
    <3>1. q.seen # s
      BY <2>2
    <3>2. ~OldPause(s)
      BY <1>4, <1>5, <3>1 DEF Fresh
    <3> QED BY <1>1, <2>5, <3>2 DEF OldPause
  <2>7. q.op # "cancel" /\ "status" \notin q.diff => "frozen_at" \notin q.diff
    BY <2>1, <2>2, <2>3, <2>4, <2>6
  <2>8. q.op # "cancel" /\ "status" \in q.diff /\ "frozen_at" \notin q.diff =>
          s.status = "cancelled" /\ s.frozen_at = q.row.frozen_at
    BY <1>1, <2>1, <2>2, <2>3, <2>4, <2>5
  <2>9. q.op = "cancel" /\ "status" \notin q.diff => s.status = "cancelled"
    BY <2>1, <2>2
  <2> QED BY <1>5, <2>7, <2>8, <2>9 DEF Paired
<1>8. Noop(txn[t]) => Noop(q)
  <2> HAVE Noop(txn[t])
  <2>1. q.op = "cancel" /\ q.row = rows[q.id] /\ q.seen = rows[q.id]
    BY <1>2 DEF Noop
  <2>2. q.diff = {}
    BY <1>5, <1>6, <2>1 DEF Differing
  <2> QED BY <2>1, <2>2 DEF Noop
<1>9. \A u \in Txns \ {t} :
        txn[u].pc \in {"update", "flush"} /\ txn[u].id = q.id
          /\ rows[q.id].status = "cancelled" => Noop(q) \/ Noop(txn[u])
  BY <1>2, <1>8 DEF TwoInv, OneWrites
<1> QED BY <1>1, <1>2, <1>4, <1>7, <1>9, RequestFits

\* What a step that leaves the clock alone keeps of a request, if it leaves the row
\* and the account of its membership alone.
LEMMA OthersFit ==
  ASSUME now' = now, NEW p, rows'[p.id] = rows[p.id], ledger'[p.id] = ledger[p.id]
  PROVE  /\ Bounded(p) => Bounded(p)'
         /\ Fresh(p) => Fresh(p)'
         /\ Paired(p) => Paired(p)'
         /\ Noop(p) => Noop(p)'
<1>1. Proper(p.seen) => Proper(p.seen)'
  BY DEF Proper, Sound
<1>2. Limited(p.row, Booked(ledger[p.id], p)) => Limited(p.row, Booked(ledger[p.id], p))'
  BY DEF Limited, Potential, Left, Clock
<1>3. Bounded(p) => Bounded(p)'
  BY <1>1, <1>2 DEF Bounded
<1> QED BY <1>3 DEF Fresh, OldPause, Paired, Noop

\* A grant concerns nobody else.
LEMMA InsertFits ==
  ASSUME NEW t \in Txns, MemInv, TwoInv, Insert(t)
  PROVE  TwoInv'
<1>1. TypeOK /\ now \in Int /\ Prepared
  BY DEF MemInv, TypeOK
<1>2. PICK m \in MemIds \ DOMAIN rows, r \in Row :
        /\ r = txn[t].row
        /\ r.status = "active"
        /\ r.ends = r.starts + r.period
        /\ r.frozen_at = NoTime
        /\ IndexAdmits(m, r)
        /\ Opened(r) \in Account
        /\ rows' = [n \in DOMAIN rows \cup {m} |-> IF n = m THEN r ELSE rows[n]]
        /\ ledger' = [n \in DOMAIN rows \cup {m} |-> IF n = m THEN Opened(r) ELSE ledger[n]]
        /\ txn' = [txn EXCEPT ![t] = Idle]
        /\ now' = now
        /\ raced' = raced
  BY <1>1, InsertStores
<1>3. Proper(r) /\ Limited(r, Opened(r))
  BY <1>1, <1>2, OpenedBalanced DEF Proper
<1>4. /\ DOMAIN rows' = DOMAIN rows \cup {m}
      /\ rows'[m] = r
      /\ ledger'[m] = Opened(r)
      /\ \A n \in DOMAIN rows : n # m /\ rows'[n] = rows[n] /\ ledger'[n] = ledger[n]
  BY <1>2
<1>5. RowsKept'
  <2>1. \A x : Proper(x) => Proper(x)'
    BY <1>2 DEF Proper, Sound
  <2>2. \A x, a : Limited(x, a) => Limited(x, a)'
    BY <1>2 DEF Limited, Potential, Left, Clock
  <2> QED BY <1>3, <1>4, <2>1, <2>2 DEF TwoInv, RowsKept
<1>6. ASSUME NEW u \in Txns, txn'[u].pc \in {"update", "flush"}
      PROVE  /\ u # t /\ txn'[u] = txn[u]
             /\ txn[u].id \in DOMAIN rows
             /\ rows'[txn[u].id] = rows[txn[u].id]
             /\ ledger'[txn[u].id] = ledger[txn[u].id]
  <2>1. u # t /\ txn'[u] = txn[u]
    BY <1>1, <1>2, <1>6 DEF TypeOK, Idle
  <2>2. txn[u].id \in DOMAIN rows
    BY <1>1, <1>6, <2>1 DEF Prepared, Updating
  <2> QED BY <1>4, <2>1, <2>2
<1>7. RequestsKept'
  <2> SUFFICES ASSUME NEW u \in Txns, txn'[u].pc \in {"update", "flush"}
               PROVE  Bounded(txn[u])' /\ Fresh(txn[u])' /\ Paired(txn[u])'
    BY <1>6 DEF RequestsKept
  <2>1. PICK p : p = txn[u]
    OBVIOUS
  <2>2. p = txn'[u]
    BY <1>6, <2>1
  <2>3. Bounded(p) /\ Fresh(p) /\ Paired(p)
    BY <1>6, <2>1 DEF TwoInv, RequestsKept
  <2>4. Bounded(p)' /\ Fresh(p)' /\ Paired(p)'
    BY <1>2, <1>6, <2>1, <2>3, OthersFit
  <2> QED BY <2>1, <2>2, <2>4
<1>8. OneWrites'
  <2> SUFFICES ASSUME NEW u \in Txns, NEW v \in Txns, u # v,
                      txn'[u].pc \in {"update", "flush"}, txn'[v].pc \in {"update", "flush"},
                      txn'[u].id = txn'[v].id, rows'[txn'[u].id].status = "cancelled"
               PROVE  Noop(txn[u])' \/ Noop(txn[v])'
    BY DEF OneWrites
  <2>1. PICK p, q : p = txn[u] /\ q = txn[v]
    OBVIOUS
  <2>2. Noop(p) \/ Noop(q)
    BY <1>6, <2>1 DEF TwoInv, OneWrites
  <2>3. p = txn'[u] /\ q = txn'[v]
    BY <1>6, <2>1
  <2>4. Noop(p)' \/ Noop(q)'
    BY <1>2, <1>6, <2>1, <2>2, OthersFit
  <2> QED BY <2>3, <2>4
<1> QED BY <1>5, <1>7, <1>8 DEF TwoInv

\* What is left of a membership from now on is the least it would have, and what it
\* would have unless it has been paused for a while.
LEMMA RestLeast ==
  ASSUME now \in Int, NEW r \in Row, Sound(r)
  PROVE  /\ Later(0, r.ends - Later(now, r.starts)) <= Potential(r)
         /\ ~OldPause(r) => Potential(r) = Later(0, r.ends - Later(now, r.starts))
<1>1. Timed(r)
  BY RowTimed
<1>2. CASE r.status = "frozen"
  <2>1. r.frozen_at \in Int /\ r.frozen_at <= now
    BY <1>2 DEF Sound
  <2>2. Potential(r) = Later(0, r.ends + (now - r.frozen_at) - Later(now, r.starts))
    BY <1>2 DEF Potential
  <2>3. ~OldPause(r) => r.frozen_at = now
    BY <1>2, <2>1 DEF OldPause
  <2> QED BY <1>1, <2>1, <2>2, <2>3 DEF Later, Timed
<1>3. CASE r.status # "frozen"
  <2>1. Potential(r) = Later(0, r.ends - Later(now, r.starts))
    BY <1>3 DEF Potential, Left, Clock
  <2> QED BY <1>1, <2>1 DEF Later, Timed
<1> QED BY <1>2, <1>3

\* What a merge leaves is in order, is no pause of before this tick, and has no more
\* left than the stored row or the request's.
LEMMA MergeProper ==
  ASSUME now \in Int, NEW q \in Begun, q.pc = "flush", NEW s \in Row, s = rows[q.id],
         Proper(s), Command(q), Bounded(q), Fresh(q), Paired(q),
         NEW new \in Row, new = Merged(s, q.row, q.diff),
         Sound(q.row)
  PROVE  /\ Proper(new)
         /\ ~OldPause(new)
         /\ new.starts = s.starts
         /\ Potential(new) <= Potential(s) \/ Potential(new) <= Potential(q.row)
<1>0. q.row \in Row /\ now # NoTime
  BY MembershipAssumption DEF Begun
<1>1. /\ new.starts = s.starts
      /\ new.status = IF "status" \in q.diff THEN q.row.status ELSE s.status
      /\ new.ends = IF "ends" \in q.diff THEN q.row.ends ELSE s.ends
      /\ new.frozen_at = IF "frozen_at" \in q.diff THEN q.row.frozen_at ELSE s.frozen_at
  BY <1>0, MergedRow
<1>2. /\ q.row.starts = q.seen.starts
      /\ q.op # "cancel" /\ q.op # "freeze" =>
           q.row.status = "active" /\ q.row.frozen_at = NoTime
      /\ q.op = "freeze" =>
           /\ q.seen.status = "active"
           /\ q.row.status = "frozen"
           /\ q.row.frozen_at = now
      /\ q.op = "cancel" => q.row.status = "cancelled"
  BY CommandRow DEF Bounded
<1>3. /\ q.op # "cancel" /\ "status" \notin q.diff => "frozen_at" \notin q.diff
      /\ q.op # "cancel" /\ "status" \in q.diff /\ "frozen_at" \notin q.diff =>
           s.status = "cancelled" /\ s.frozen_at = q.row.frozen_at
      /\ q.op = "cancel" /\ "status" \notin q.diff => q.diff = {} \/ s.status = "cancelled"
  BY DEF Paired
<1>4. /\ s.status = "active" => s.frozen_at = NoTime
      /\ s.status = "frozen" => s.frozen_at \in Int /\ s.frozen_at <= now
  BY DEF Proper, Sound
<1>5. OldPause(s) => "status" \in q.diff
  <2> HAVE OldPause(s)
  <2>1. q.seen = s /\ q.diff = Differing(q.row, s)
    BY DEF Fresh
  <2>2. q.row.status # s.status
    BY <1>2, <2>1 DEF OldPause, Command
  <2> QED BY <2>1, <2>2 DEF Differing, Columns
<1>6. q.op = "freeze" /\ s.status = "frozen" => s.frozen_at = now
  <2> HAVE q.op = "freeze" /\ s.status = "frozen"
  <2>1. ~OldPause(s)
    BY <1>2 DEF Fresh
  <2> QED BY <1>4, <2>1 DEF OldPause
<1>7. /\ new.status = "active" => new.frozen_at = NoTime
      /\ new.status = "frozen" => new.frozen_at \in Int /\ new.frozen_at <= now
      /\ ~OldPause(new)
  <2>1. CASE q.op = "cancel"
    <3>1. CASE "status" \in q.diff
      BY <1>1, <1>2, <2>1, <3>1 DEF OldPause
    <3>2. CASE "status" \notin q.diff /\ s.status = "cancelled"
      BY <1>1, <3>2 DEF OldPause
    <3>3. CASE "status" \notin q.diff /\ s.status # "cancelled"
      <4>1. "frozen_at" \notin q.diff
        BY <1>3, <2>1, <3>3
      <4> QED BY <1>1, <1>4, <1>5, <3>3, <4>1 DEF OldPause
    <3> QED BY <3>1, <3>2, <3>3
  <2>2. CASE q.op = "freeze"
    <3>1. CASE "status" \in q.diff
      <4>1. new.status = "frozen" /\ new.frozen_at = now
        BY <1>1, <1>2, <1>3, <2>2, <3>1
      <4> QED BY <4>1 DEF OldPause
    <3>2. CASE "status" \notin q.diff
      <4>1. new.status = s.status /\ new.frozen_at = s.frozen_at
        BY <1>1, <1>3, <2>2, <3>2
      <4> QED BY <1>4, <1>5, <3>2, <4>1 DEF OldPause
    <3> QED BY <3>1, <3>2
  <2>3. CASE q.op # "cancel" /\ q.op # "freeze"
    <3>1. CASE "status" \in q.diff
      <4>1. new.status = "active" /\ new.frozen_at = NoTime
        BY <1>1, <1>2, <1>3, <2>3, <3>1
      <4> QED BY <4>1 DEF OldPause
    <3>2. CASE "status" \notin q.diff
      <4>1. new.status = s.status /\ new.frozen_at = s.frozen_at
        BY <1>1, <1>3, <2>3, <3>2
      <4> QED BY <1>4, <1>5, <3>2, <4>1 DEF OldPause
    <3> QED BY <3>1, <3>2
  <2> QED BY <2>1, <2>2, <2>3
<1>8. q.row.starts = s.starts
  BY <1>2 DEF Bounded
<1>9. new.starts <= new.ends
  <2>1. s.starts <= s.ends /\ q.row.starts <= q.row.ends
    BY DEF Proper, Sound
  <2> QED BY <1>1, <1>8, <2>1
<1>10. Proper(new)
  BY <1>7, <1>9 DEF Proper, Sound
<1>11. Potential(new) <= Potential(s) \/ Potential(new) <= Potential(q.row)
  <2>1. Potential(new) = Later(0, new.ends - Later(now, new.starts))
    BY <1>7, <1>10, RestLeast DEF Proper
  <2>2. Later(0, s.ends - Later(now, s.starts)) <= Potential(s)
    BY RestLeast DEF Proper
  <2>3. Later(0, q.row.ends - Later(now, q.row.starts)) <= Potential(q.row)
    BY <1>0, RestLeast
  <2>4. CASE "ends" \in q.diff
    BY <1>1, <1>8, <2>1, <2>3, <2>4
  <2>5. CASE "ends" \notin q.diff
    BY <1>1, <2>1, <2>2, <2>5
  <2> QED BY <2>4, <2>5
<1> QED BY <1>1, <1>7, <1>10, <1>11

\* The UPDATE of a merge: the row is in order, its account covers it, and the other
\* request on the membership still can be merged.
LEMMA UpdateFits ==
  ASSUME NEW t \in Txns, MemInv, TwoInv, AtMostTwoEach, Update(t)
  PROVE  TwoInv'
<1>1. TypeOK /\ now \in Int /\ Prepared
  BY DEF MemInv, TypeOK
<1>2. PICK q \in Begun, new \in Row, b \in Account :
        /\ q = txn[t]
        /\ q.pc = "flush"
        /\ Updating(q)
        /\ q.id \in DOMAIN rows
        /\ rows[q.id] \in Row
        /\ ledger[q.id] \in Account
        /\ new = Merged(rows[q.id], q.row, q.diff)
        /\ b = Booked(ledger[q.id], q)
        /\ rows'[q.id] = new
        /\ ledger'[q.id] = b
        /\ DOMAIN rows' = DOMAIN rows
        /\ \A n \in DOMAIN rows \ {q.id} : rows'[n] = rows[n] /\ ledger'[n] = ledger[n]
        /\ txn' = [txn EXCEPT ![t] = Idle]
        /\ now' = now
  BY <1>1, UpdateStores
<1>3. PICK s \in Row, a \in Account : s = rows[q.id] /\ a = ledger[q.id]
  BY <1>2
<1>4. /\ Proper(s) /\ Limited(s, a)
      /\ Command(q) /\ Bounded(q) /\ Fresh(q) /\ Paired(q)
      /\ Limited(q.row, b) /\ q.row \in Row
  BY <1>2, <1>3 DEF TwoInv, RowsKept, RequestsKept, Bounded, Updating, Begun
<1>5. Sound(q.row)
  BY <1>1, <1>3, <1>4, CommandKeeps DEF Bounded, Proper
<1>6. /\ Proper(new)
      /\ ~OldPause(new)
      /\ new.starts = s.starts
      /\ Potential(new) <= Potential(s) \/ Potential(new) <= Potential(q.row)
  BY <1>1, <1>2, <1>3, <1>4, <1>5, MergeProper
<1>7. Limited(new, b)
  <2>1. Limited(s, b)
    <3>1. /\ b.used = a.used /\ b.idle = a.idle
          /\ b.paid >= a.paid /\ b.thaws >= a.thaws
      BY <1>2, <1>3, BookedAccount, BookedMore
    <3> QED BY <1>1, <1>4, <3>1, LimitedMore DEF Proper
  <2>2. /\ Potential(new) \in Nat /\ Potential(s) \in Nat /\ Potential(q.row) \in Nat
    BY <1>1, <1>4, <1>5, <1>6, LeftNat DEF Proper
  <2>3. /\ b.used \in Nat /\ b.paid + b.idle + Day * b.thaws \in Nat
    <3>1. b.used \in Nat /\ b.paid \in Nat /\ b.idle \in Nat /\ b.thaws \in Nat /\ Day \in Nat
      BY MembershipAssumption DEF Account
    <3> QED BY <3>1
  <2> QED BY <1>4, <1>6, <2>1, <2>2, <2>3 DEF Limited
<1>8. RowsKept'
  <2>1. \A x : Proper(x) => Proper(x)'
    BY <1>2 DEF Proper, Sound
  <2>2. \A x, y : Limited(x, y) => Limited(x, y)'
    BY <1>2 DEF Limited, Potential, Left, Clock
  <2> QED BY <1>2, <1>6, <1>7, <2>1, <2>2 DEF TwoInv, RowsKept
<1>9. ASSUME NEW u \in Txns, txn'[u].pc \in {"update", "flush"}
      PROVE  /\ u # t /\ txn'[u] = txn[u]
             /\ txn[u] \in Begun
             /\ txn[u].id \in DOMAIN rows
             /\ Command(txn[u])
             /\ Bounded(txn[u]) /\ Fresh(txn[u]) /\ Paired(txn[u])
             /\ txn[u].id # q.id => rows'[txn[u].id] = rows[txn[u].id]
                                    /\ ledger'[txn[u].id] = ledger[txn[u].id]
  <2>1. u # t /\ txn'[u] = txn[u]
    BY <1>1, <1>2, <1>9 DEF TypeOK, Idle
  <2>2. txn[u] \in Begun /\ Updating(txn[u])
    BY <1>1, <1>9, <2>1, RequestTyped DEF Prepared
  <2>3. Bounded(txn[u]) /\ Fresh(txn[u]) /\ Paired(txn[u])
    BY <1>9, <2>1 DEF TwoInv, RequestsKept
  <2> QED BY <1>2, <2>1, <2>2, <2>3 DEF Updating
<1>10. ASSUME NEW p \in Begun, p.id = q.id, Command(p), Bounded(p), Paired(p),
              s.status = "cancelled" => Noop(p) \/ Noop(q)
       PROVE  Bounded(p)' /\ Fresh(p)' /\ Paired(p)'
  <2>1. Bounded(p)'
    <3>1. Proper(p.seen)'
      BY <1>2, <1>10 DEF Bounded, Proper, Sound
    <3>2. p.seen.starts = rows'[p.id].starts
      BY <1>2, <1>3, <1>6, <1>10 DEF Bounded
    <3>3. Limited(p.row, Booked(b, p))
      <4>1. Sound(p.row) /\ p.row \in Row
        BY <1>1, <1>3, <1>10, CommandKeeps DEF Bounded, Proper, Begun
      <4>2. Limited(p.row, Booked(a, p))
        BY <1>3, <1>10 DEF Bounded
      <4>3. PICK x \in Account : x = Booked(a, p)
        BY <1>3, BookedAccount
      <4>4. PICK y \in Account : y = Booked(b, p)
        BY <1>2, BookedAccount
      <4>5. /\ y.used = x.used /\ y.idle = x.idle
            /\ y.paid >= x.paid /\ y.thaws >= x.thaws
        BY <1>2, <1>3, <1>10, <4>3, <4>4, BookedMore
      <4>6. Limited(p.row, y)
        BY <1>1, <4>1, <4>2, <4>3, <4>4, <4>5, LimitedMore
      <4> QED BY <4>4, <4>6
    <3>4. Limited(p.row, Booked(b, p))'
      BY <1>2, <3>3 DEF Limited, Potential, Left, Clock
    <3>5. b = ledger'[p.id]
      BY <1>2, <1>10
    <3> QED BY <3>1, <3>2, <3>4, <3>5 DEF Bounded
  <2>2. Fresh(p)'
    <3>1. ~OldPause(new)'
      BY <1>2, <1>6 DEF OldPause
    <3>2. new = rows'[p.id]
      BY <1>2, <1>10
    <3> QED BY <3>1, <3>2 DEF Fresh
  <2>3. Paired(p)'
    <3>1. CASE s.status # "cancelled"
      BY <1>2, <1>3, <1>10, <3>1 DEF Paired
    <3>2. CASE s.status = "cancelled" /\ Noop(p)
      BY <3>2 DEF Noop, Paired
    <3>3. CASE s.status = "cancelled" /\ Noop(q)
      <4>1. q.diff = {}
        BY <1>2, <3>3 DEF Noop
      <4>2. new.status = s.status /\ new.frozen_at = s.frozen_at
        BY <1>2, <1>3, <1>4, <4>1, MergedRow
      <4> QED BY <1>2, <1>3, <1>10, <4>2 DEF Paired
    <3> QED BY <1>10, <3>1, <3>2, <3>3
  <2> QED BY <2>1, <2>2, <2>3
<1>11. RequestsKept'
  <2> SUFFICES ASSUME NEW u \in Txns, txn'[u].pc \in {"update", "flush"}
               PROVE  Bounded(txn[u])' /\ Fresh(txn[u])' /\ Paired(txn[u])'
    BY <1>9 DEF RequestsKept
  <2>1. PICK p \in Begun : p = txn[u]
    BY <1>9
  <2>2. p = txn'[u] /\ Command(p) /\ Bounded(p) /\ Fresh(p) /\ Paired(p)
    BY <1>9, <2>1
  <2>3. CASE p.id # q.id
    <3>1. Bounded(p)' /\ Fresh(p)' /\ Paired(p)'
      BY <1>2, <1>9, <2>1, <2>2, <2>3, OthersFit
    <3> QED BY <2>1, <2>2, <3>1
  <2>4. CASE p.id = q.id
    <3>1. s.status = "cancelled" => Noop(p) \/ Noop(q)
      BY <1>2, <1>3, <1>9, <2>1, <2>2, <2>4 DEF TwoInv, OneWrites
    <3>2. Bounded(p)' /\ Fresh(p)' /\ Paired(p)'
      BY <1>10, <2>2, <2>4, <3>1
    <3> QED BY <2>1, <2>2, <3>2
  <2> QED BY <2>3, <2>4
<1>12. OneWrites'
  <2> SUFFICES ASSUME NEW u \in Txns, NEW v \in Txns, u # v,
                      txn'[u].pc \in {"update", "flush"}, txn'[v].pc \in {"update", "flush"},
                      txn'[u].id = txn'[v].id, rows'[txn'[u].id].status = "cancelled"
               PROVE  Noop(txn[u])' \/ Noop(txn[v])'
    BY DEF OneWrites
  <2>1. PICK p, r : p = txn[u] /\ r = txn[v]
    OBVIOUS
  <2>2. p = txn'[u] /\ r = txn'[v] /\ u # t /\ v # t
    BY <1>9, <2>1
  <2>3. p.id # q.id
    <3> SUFFICES ASSUME p.id = q.id PROVE FALSE
      OBVIOUS
    <3>1. Changes(t, q.id) /\ Changes(u, q.id) /\ Changes(v, q.id)
      BY <1>2, <2>1, <2>2 DEF Changes
    <3>2. q.id \in MemIds
      BY <1>1, <1>2 DEF TypeOK
    <3> QED BY <2>2, <3>1, <3>2 DEF AtMostTwoEach
  <2>4. Noop(p) \/ Noop(r)
    BY <1>9, <2>1, <2>2, <2>3 DEF TwoInv, OneWrites
  <2>5. Noop(p)' \/ Noop(r)'
    BY <1>2, <1>9, <2>1, <2>2, <2>3, <2>4, OthersFit
  <2> QED BY <2>2, <2>5
<1> QED BY <1>8, <1>11, <1>12 DEF TwoInv

\* A tick: no request is in progress, and no more is left than was booked.
LEMMA TickFits ==
  ASSUME MemInv, TwoInv, Tick
  PROVE  TwoInv'
<1>1. TypeOK /\ now \in Int /\ Day \in Nat
  BY MembershipAssumption DEF MemInv, TypeOK
<1>2. rows' = rows /\ txn' = txn /\ now' = now + 1
      /\ \A u \in Txns : txn[u].pc = "idle"
  BY DEF Tick
<1>3. RequestsKept' /\ OneWrites'
  BY <1>2 DEF RequestsKept, OneWrites
<1>4. RowsKept'
  <2> SUFFICES ASSUME NEW m \in DOMAIN rows
               PROVE  Proper(rows[m])' /\ Limited(rows[m], ledger[m])'
    BY <1>2 DEF RowsKept
  <2>1. PICK r : r = rows[m]
    OBVIOUS
  <2>2. Proper(r) /\ Limited(r, ledger[m])
    BY <2>1 DEF TwoInv, RowsKept
  <2>3. /\ r \in Row /\ ledger[m] \in Account /\ ledger'[m] \in Account
        /\ ledger'[m].paid = ledger[m].paid
        /\ ledger'[m].thaws = ledger[m].thaws
        /\ ledger'[m].used = ledger[m].used + (IF IsCurrent(r) THEN 1 ELSE 0)
        /\ ledger'[m].idle =
             ledger[m].idle + (IF r.status = "frozen" /\ now < r.starts THEN 1 ELSE 0)
    BY <1>1, <2>1, TickBooks
  <2>4. /\ Sound(r)' /\ Potential(r)' \in Int
        /\ Potential(r)' + (IF IsCurrent(r) THEN 1 ELSE 0)
             <= Potential(r) + (IF r.status = "frozen" /\ now < r.starts THEN 1 ELSE 0)
    BY <1>1, <1>2, <2>2, <2>3, TickLeaves DEF Proper
  <2>5. Potential(r) \in Nat
    BY <1>1, <2>2, <2>3, LeftNat DEF Proper
  <2>6. ledger'[m].used + Potential(r)'
          <= ledger'[m].paid + ledger'[m].idle + Day * ledger'[m].thaws
    <3>1. PICK i \in {0, 1} : i = IF IsCurrent(r) THEN 1 ELSE 0
      OBVIOUS
    <3>2. PICK j \in {0, 1} : j = IF r.status = "frozen" /\ now < r.starts THEN 1 ELSE 0
      OBVIOUS
    <3>3. /\ ledger[m].used \in Nat /\ ledger[m].paid \in Nat
          /\ ledger[m].idle \in Nat /\ Day * ledger[m].thaws \in Nat
      BY <1>1, <2>3 DEF Account
    <3>4. ledger[m].used + Potential(r)
            <= ledger[m].paid + ledger[m].idle + Day * ledger[m].thaws
      BY <2>2 DEF Limited
    <3>5. /\ ledger'[m].used = ledger[m].used + i
          /\ ledger'[m].idle = ledger[m].idle + j
          /\ Potential(r)' + i <= Potential(r) + j
          /\ Day * ledger'[m].thaws = Day * ledger[m].thaws
      BY <2>3, <2>4, <3>1, <3>2
    <3> QED BY <2>3, <2>4, <2>5, <3>3, <3>4, <3>5
  <2>7. Proper(r)' /\ Limited(r, ledger[m])'
    BY <2>2, <2>4, <2>6 DEF Proper, Limited
  <2>8. r = rows'[m]
    BY <1>2, <2>1
  <2> QED BY <1>2, <2>1, <2>7
<1> QED BY <1>3, <1>4 DEF TwoInv

\* The empty table has nothing to keep.
LEMMA TwoInvInit == Init => TwoInv
BY DEF Init, TwoInv, RowsKept, RequestsKept, OneWrites, Idle

\* Every step keeps what two requests at a time keep.
LEMMA TwoInvNext == MemInv /\ TwoInv /\ AtMostTwoEach /\ [Next]_vars => TwoInv'
<1> SUFFICES ASSUME MemInv, TwoInv, AtMostTwoEach, [Next]_vars PROVE TwoInv'
  OBVIOUS
<1>0. TypeOK
  BY DEF MemInv
<1>1. CASE Tick
  BY <1>1, TickFits
<1>2. ASSUME NEW t \in Txns, BeginGrant(t) PROVE TwoInv'
  <2>1. PICK c \in Clients, p \in Periods, d \in Offsets :
          Begin(t, "insert", "grant", NoMem, Granted(c, p, now + d), Granted(c, p, now + d))
    BY <1>2 DEF BeginGrant
  <2> DEFINE row == Granted(c, p, now + d)
             q   == [pc |-> "insert", op |-> "grant", id |-> NoMem, seen |-> row, row |-> row,
                     diff |-> {}]
  <2>2. row \in Row
    BY <1>0, MembershipAssumption DEF TypeOK, Granted, Row, Live
  <2>3. q \in Begun
    <3> HIDE DEF row
    <3> QED BY <2>2 DEF Begun
  <2>4. txn' = [txn EXCEPT ![t] = q] /\ UNCHANGED <<rows, now, ledger, raced>>
    BY <2>1 DEF Begin
  <2>5. q.pc = "insert"
    OBVIOUS
  <2> HIDE DEF q
  <2> QED BY <1>0, <2>3, <2>4, <2>5, RequestFits
<1>3. ASSUME NEW t \in Txns, Commands(t) PROVE TwoInv'
  BY <1>0, <1>3, CommandsBegin, BeginFits
<1>4. ASSUME NEW t \in Txns, Insert(t) PROVE TwoInv'
  BY <1>4, InsertFits
<1>5. ASSUME NEW t \in Txns, Merge(t) PROVE TwoInv'
  BY <1>5, MergeFits
<1>6. ASSUME NEW t \in Txns, Update(t) PROVE TwoInv'
  BY <1>6, UpdateFits
<1>7. ASSUME NEW t \in Txns, Abandon(t) PROVE TwoInv'
  <2>1. Idle.pc = "idle"
    BY DEF Idle
  <2> QED BY <1>0, <1>7, <2>1, RequestFits DEF Abandon
<1>8. CASE UNCHANGED vars
  <2>1. /\ rows' = rows /\ txn' = txn /\ now' = now /\ ledger' = ledger
    BY <1>8 DEF vars
  <2>2. RowsKept'
    BY <2>1 DEF TwoInv, RowsKept, Proper, Sound, Limited, Potential, Left, Clock
  <2>3. \A p : /\ Bounded(p) => Bounded(p)'
               /\ Fresh(p) => Fresh(p)'
               /\ Paired(p) => Paired(p)'
               /\ Noop(p) => Noop(p)'
    BY <2>1, OthersFit
  <2>4. RequestsKept'
    BY <2>1, <2>3 DEF TwoInv, RequestsKept
  <2>5. OneWrites'
    BY <2>1, <2>3 DEF TwoInv, OneWrites
  <2> QED BY <2>2, <2>4, <2>5 DEF TwoInv
<1> QED BY <1>1, <1>2, <1>3, <1>4, <1>5, <1>6, <1>7, <1>8 DEF Next

----------------------------------------------------------------------------
\* The invariant gives the properties that hold for any number of requests.
LEMMA MemInvCorrect ==
  MemInv => TypeOK /\ OneLivePerClient /\ NoTimeLost /\ CurrentIsReported
<1> SUFFICES ASSUME MemInv
             PROVE  OneLivePerClient /\ NoTimeLost /\ CurrentIsReported
  BY DEF MemInv
<1>1. OneLivePerClient
  <2> SUFFICES ASSUME NEW c \in Clients PROVE Cardinality(LiveOf(c)) <= 1
    BY DEF OneLivePerClient
  <2>1. CASE LiveOf(c) = {}
    BY <2>1, FS_EmptySet
  <2>2. CASE LiveOf(c) # {}
    <3>1. PICK m : m \in LiveOf(c)
      BY <2>2
    <3>2. LiveOf(c) = {m}
      BY <3>1 DEF LiveOf, MemInv, OneLive
    <3>3. Cardinality(LiveOf(c)) = 1
      BY <3>2, FS_Singleton
    <3> QED BY <3>3
  <2> QED BY <2>1, <2>2
<1>2. NoTimeLost
  BY DEF MemInv, NothingLost, Enough, NoTimeLost
<1>3. CurrentIsReported
  <2> SUFFICES ASSUME NEW m \in DOMAIN rows, IsCurrent(rows[m])
               PROVE  Reported(rows[m].client) = {m}
    BY DEF CurrentIsReported
  <2>1. m \in LiveOf(rows[m].client)
    BY DEF IsCurrent, EffectiveStatus, LiveOf, Live
  <2>2. LiveOf(rows[m].client) = {m}
    BY <2>1 DEF LiveOf, MemInv, OneLive
  <2>3. rows[m].ends >= rows[m].ends
    BY DEF MemInv, TypeOK, Row
  <2> QED BY <2>2, <2>3 DEF Reported
<1> QED BY <1>1, <1>2, <1>3

\* And the one that holds for two at a time.
LEMMA TwoInvCorrect == MemInv /\ TwoInv => FreeTimeBounded
<1> SUFFICES ASSUME MemInv, TwoInv, NEW m \in DOMAIN rows
             PROVE  ledger[m].used + Left(rows[m])
                      <= ledger[m].paid + ledger[m].idle + Day * ledger[m].thaws
  BY DEF FreeTimeBounded
<1>1. /\ now \in Int /\ rows[m] \in Row /\ Sound(rows[m])
      /\ ledger[m] \in Account /\ Limited(rows[m], ledger[m])
  BY DEF MemInv, TypeOK, TwoInv, RowsKept, Proper
<1>2. /\ Left(rows[m]) \in Nat
      /\ Potential(rows[m]) \in Nat
      /\ Left(rows[m]) <= Potential(rows[m])
  BY <1>1, LeftNat
<1>3. Day * ledger[m].thaws \in Nat
  BY <1>1, MembershipAssumption DEF Account
<1> QED BY <1>1, <1>2, <1>3 DEF Limited, Account

\* The tables and requests are always well typed, whatever a merge mixes, for any
\* number of requests at a time.
THEOREM MembershipTyped == Spec => []TypeOK
BY MemInvInit, MemInvNext, MemInvCorrect, PTL DEF Spec

\* The unique index keeps every client at one live membership, whatever the
\* requests that race and the columns they mix.
THEOREM OneMembershipEach == Spec => []OneLivePerClient
BY MemInvInit, MemInvNext, MemInvCorrect, PTL DEF Spec

\* The membership in force is the one that is reported, whatever older ones the
\* client has and whatever races.
THEOREM ReportedIsCurrent == Spec => []CurrentIsReported
BY MemInvInit, MemInvNext, MemInvCorrect, PTL DEF Spec

\* Without a race, what a member used and has left covers what was paid, for
\* every period, every length of the day and every sequence of commands.
THEOREM PaidIsKept == Spec => []NoTimeLost
BY MemInvInit, MemInvNext, MemInvCorrect, PTL DEF Spec

\* Races included, as long as a membership has two requests in progress at most, a
\* member never gets more than what was paid, the time frozen before the start and
\* a day for each pause.  A third request can set the beginning of a pause back.
THEOREM GiftsAreBounded == Spec /\ []AtMostTwoEach => []FreeTimeBounded
<1>1. Spec => []MemInv
  BY MemInvInit, MemInvNext, PTL DEF Spec
<1> QED BY <1>1, TwoInvInit, TwoInvNext, TwoInvCorrect, PTL DEF Spec
=============================================================================
