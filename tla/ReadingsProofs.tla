-------------------------- MODULE ReadingsProofs --------------------------
(***************************************************************************)
(* Proofs about what only reads: the loop over the agenda, the reports,    *)
(* the paginated lists and the dates that are looked up, for any           *)
(* catalogue, table, range, page and order, and any number of years.       *)
(* Each rests on an induction over numbers or over finite sets, which is   *)
(* drawn here from the well-foundedness of strict inclusion.               *)
(***************************************************************************)
EXTENDS SlotLoop, Reports, Dates, Listings, BookingProofs, FiniteSetTheorems,
        WellFoundedInduction, TLAPS

----------------------------------------------------------------------------
(* Induction over the natural numbers, from sets: a set of numbers has a   *)
(* least one, because the intervals 0 .. m of its numbers m are ordered by *)
(* strict inclusion.                                                       *)

\* Strict inclusion is well-founded on finite sets, and so is the order of numbers.
LEMMA LeastNumber ==
  ASSUME NEW S, S \subseteq Nat, S # {}
  PROVE  \E n \in S : \A m \in S : n <= m
<1>1. PICK k \in S : TRUE
  OBVIOUS
<1> DEFINE T == {0 .. m : m \in S \cap (0 .. k)}
<1>2. T \subseteq SUBSET (0 .. k) /\ T # {}
  BY <1>1
<1>3. IsFiniteSet(0 .. k)
  BY FS_Interval, <1>1
<1>4. IsWellFoundedOn(StrictSubsetOrdering(0 .. k), SUBSET (0 .. k))
  BY <1>3, FS_StrictSubsetOrderingWellFounded, FS_FiniteSubsetsOfFinite
<1>5. \E x \in T : \A y \in T : ~(<<y, x>> \in StrictSubsetOrdering(0 .. k))
  <2> HIDE DEF T
  <2> QED BY <1>2, <1>4, WFMin
<1>6. PICK n \in S \cap (0 .. k) :
        \A y \in T : <<y, 0 .. n>> \notin StrictSubsetOrdering(0 .. k)
  BY <1>5
<1>7. ASSUME NEW m \in S, m < n
      PROVE  FALSE
  <2>1. 0 .. m \in T
    BY <1>6, <1>7
  <2>2. 0 .. m \subseteq 0 .. n /\ 0 .. m # 0 .. n
    BY <1>6, <1>7
  <2>3. 0 .. m \in SUBSET (0 .. k) /\ 0 .. n \in SUBSET (0 .. k)
    BY <1>6, <1>7
  <2>4. <<0 .. m, 0 .. n>> \in StrictSubsetOrdering(0 .. k)
    BY <2>2, <2>3 DEF StrictSubsetOrdering
  <2> HIDE DEF T
  <2> QED BY <1>6, <2>1, <2>4
<1> QED BY <1>6, <1>7

\* A set of numbers that has 0 and the successor of each of its members has all.
LEMMA AllNumbers ==
  ASSUME NEW S, S \subseteq Nat, 0 \in S, \A n \in S : n + 1 \in S
  PROVE  S = Nat
<1> SUFFICES ASSUME S # Nat
             PROVE  FALSE
  OBVIOUS
<1>1. Nat \ S \subseteq Nat /\ Nat \ S # {}
  OBVIOUS
<1>2. PICK n \in Nat \ S : \A m \in Nat \ S : n <= m
  BY <1>1, LeastNumber
<1>3. n - 1 \in Nat /\ n - 1 \in S
  BY <1>2
<1> QED BY <1>2, <1>3

----------------------------------------------------------------------------
(* The loop of evaluate_slot.                                              *)

\* What makes the loop return: an overlapping one-to-one session, or another
\* session of the same class.
Blocks(cand, row) ==
  Overlap(cand, row) /\ (Exclusive(row.service) \/ Misaligned(cand, row))

\* Who has been counted after n appointments: who takes a place in the session of
\* the candidate before anything blocks.
Counted(cand, rows, n) ==
  {i \in 1 .. n : /\ Overlap(cand, rows[i])
                  /\ SameSession(cand, rows[i])
                  /\ \A j \in 1 .. i : ~Blocks(cand, rows[j])}

\* The state of the loop, without the loop.
LoopState(cand, rows, n) ==
  [blocked |-> \E i \in 1 .. n : Blocks(cand, rows[i]),
   taken   |-> Cardinality(Counted(cand, rows, n))]

\* The places counted so far are finitely many.
LEMMA CountedFinite ==
  ASSUME NEW cand, NEW rows, NEW n \in Nat
  PROVE  /\ IsFiniteSet(Counted(cand, rows, n))
         /\ Cardinality(Counted(cand, rows, n)) \in Nat
<1>1. IsFiniteSet(1 .. n)
  BY FS_Interval
<1>2. Counted(cand, rows, n) \subseteq 1 .. n
  BY DEF Counted
<1> QED BY <1>1, <1>2, FS_Subset, FS_CardinalityType

\* Before the first appointment the closed form is the state the loop starts in.
LEMMA LoopStateBegins ==
  ASSUME NEW cand, NEW rows
  PROVE  LoopState(cand, rows, 0) = [blocked |-> FALSE, taken |-> 0]
<1>1. Counted(cand, rows, 0) = {}
  BY DEF Counted
<1>2. Cardinality(Counted(cand, rows, 0)) = 0
  BY <1>1, FS_EmptySet
<1>3. (\E i \in 1 .. 0 : Blocks(cand, rows[i])) = FALSE
  OBVIOUS
<1> QED BY <1>2, <1>3 DEF LoopState

\* Setting a flag of a record of two fields.
LEMMA BlockedState ==
  ASSUME NEW state, NEW blocked, NEW taken, state = [blocked |-> blocked, taken |-> taken]
  PROVE  [state EXCEPT !.blocked = TRUE] = [blocked |-> TRUE, taken |-> taken]
<1>1. ASSUME NEW b
      PROVE  [state EXCEPT !.blocked = b] = [blocked |-> b, taken |-> taken]
  OBVIOUS
<1> QED BY <1>1, Zenon

\* One appointment takes the closed form to the next state of the loop.
LEMMA LoopStateSteps ==
  ASSUME NEW cand, NEW rows, NEW n \in Nat
  PROVE  LoopState(cand, rows, n + 1)
           = LoopStep(cand, LoopState(cand, rows, n), rows[n + 1])
<1> DEFINE C(m) == Counted(cand, rows, m)
           B(m) == \E i \in 1 .. m : Blocks(cand, rows[i])
           row  == rows[n + 1]
<1>1. 1 .. (n + 1) = (1 .. n) \cup {n + 1} /\ n + 1 \notin 1 .. n
  OBVIOUS
<1>2. B(n + 1) = (B(n) \/ Blocks(cand, row))
  BY <1>1
<1>3. C(n) \subseteq C(n + 1) /\ C(n + 1) \subseteq C(n) \cup {n + 1} /\ n + 1 \notin C(n)
  BY <1>1 DEF Counted
<1>4. n + 1 \in C(n + 1)
        <=> Overlap(cand, row) /\ SameSession(cand, row) /\ ~B(n + 1)
  BY <1>1 DEF Counted
<1>5. IsFiniteSet(C(n)) /\ Cardinality(C(n)) \in Nat
  BY CountedFinite
<1>6. B(n) \in BOOLEAN /\ B(n + 1) \in BOOLEAN
  OBVIOUS
<1>7. /\ LoopState(cand, rows, n) = [blocked |-> B(n), taken |-> Cardinality(C(n))]
      /\ LoopState(cand, rows, n + 1)
           = [blocked |-> B(n + 1), taken |-> Cardinality(C(n + 1))]
  BY DEF LoopState
<1> HIDE DEF C, B
<1>8. CASE n + 1 \in C(n + 1)
  <2>1. C(n + 1) = C(n) \cup {n + 1}
    BY <1>3, <1>8
  <2>2. Cardinality(C(n + 1)) = Cardinality(C(n)) + 1
    BY <1>3, <1>5, <2>1, FS_AddElement
  <2>3. /\ Overlap(cand, row) /\ ~B(n) /\ ~B(n + 1) /\ ~Exclusive(row.service)
        /\ row.service = cand.service /\ row.start = cand.start
    BY <1>2, <1>4, <1>8 DEF Blocks, SameSession
  <2> QED BY <1>6, <1>7, <2>2, <2>3 DEF LoopStep
<1>9. CASE n + 1 \notin C(n + 1)
  <2>1. C(n + 1) = C(n)
    BY <1>3, <1>9
  <2>2. CASE B(n) \/ ~Overlap(cand, row)
    <3>1. B(n + 1) = B(n)
      BY <1>2, <1>6, <2>2 DEF Blocks
    <3> QED BY <1>7, <2>1, <2>2, <3>1 DEF LoopStep
  <2>3. CASE ~B(n) /\ Blocks(cand, row)
    <3>1. Overlap(cand, row) /\ B(n + 1)
      BY <1>2, <2>3 DEF Blocks
    <3>2. Exclusive(row.service)
            \/ (row.service = cand.service /\ row.start # cand.start)
      BY <2>3 DEF Blocks, Misaligned
    <3>3. LoopStep(cand, LoopState(cand, rows, n), row)
            = [LoopState(cand, rows, n) EXCEPT !.blocked = TRUE]
      BY <1>7, <2>3, <3>1, <3>2 DEF LoopStep
    <3>4. [LoopState(cand, rows, n) EXCEPT !.blocked = TRUE]
            = [blocked |-> TRUE, taken |-> Cardinality(C(n))]
      BY <1>7, BlockedState
    <3>5. B(n + 1) = TRUE
      BY <1>6, <3>1
    <3>6. LoopState(cand, rows, n + 1) = [blocked |-> TRUE, taken |-> Cardinality(C(n))]
      BY <1>7, <2>1, <3>5
    <3> QED BY <3>3, <3>4, <3>6
  <2>4. CASE ~B(n) /\ Overlap(cand, row) /\ ~Blocks(cand, row)
    <3>1. ~B(n + 1) /\ ~Exclusive(row.service) /\ row.service # cand.service
      BY <1>2, <1>4, <1>9, <2>4 DEF Blocks, Misaligned, SameSession
    <3> QED BY <1>6, <1>7, <2>1, <2>4, <3>1 DEF LoopStep
  <2> QED BY <2>2, <2>3, <2>4
<1> QED BY <1>8, <1>9

\* The recursive definition of the loop is that state, step by step.
LEMMA LoopIsState ==
  ASSUME NEW cand, NEW S, NEW rows \in Seq(S), NEW n \in 0 .. Len(rows)
  PROVE  Loop(cand, rows)[n] = LoopState(cand, rows, n)
<1> DEFINE N == 0 .. Len(rows)
           Begin0 == [blocked |-> FALSE, taken |-> 0]
           Next0(f) == [k \in N |-> IF k = 0 THEN Begin0
                                    ELSE LoopStep(cand, f[k - 1], rows[k])]
           w == [k \in N |-> LoopState(cand, rows, k)]
           f == Loop(cand, rows)
<1>1. Len(rows) \in Nat
  OBVIOUS
<1>2. w = Next0(w)
  <2>1. ASSUME NEW k \in N
        PROVE  w[k] = IF k = 0 THEN Begin0 ELSE LoopStep(cand, w[k - 1], rows[k])
    <3>1. CASE k = 0
      BY <3>1, LoopStateBegins
    <3>2. CASE k # 0
      <4>1. k - 1 \in N /\ k - 1 \in Nat /\ (k - 1) + 1 = k
        BY <1>1, <3>2
      <4>2. LoopState(cand, rows, k) = LoopStep(cand, LoopState(cand, rows, k - 1), rows[k])
        BY <4>1, LoopStateSteps
      <4> QED BY <3>2, <4>1, <4>2
    <3> QED BY <3>1, <3>2
  <2> QED BY <2>1
<1>3. f = CHOOSE g : g = Next0(g)
  BY DEF Loop
<1>4. f = Next0(f)
  <2> HIDE DEF Next0, w, f
  <2> QED BY <1>2, <1>3
<1> DEFINE Same == {k \in Nat : k \in N => f[k] = w[k]}
<1>5. 0 \in Same
  <2>1. f[0] = Next0(f)[0] /\ w[0] = Next0(w)[0]
    BY <1>2, <1>4
  <2>2. 0 \in N
    BY <1>1
  <2> HIDE DEF f, w
  <2> QED BY <2>1, <2>2
<1>6. ASSUME NEW k \in Same
      PROVE  k + 1 \in Same
  <2> SUFFICES ASSUME k + 1 \in N PROVE f[k + 1] = w[k + 1]
    OBVIOUS
  <2>1. k \in N /\ k + 1 # 0 /\ (k + 1) - 1 = k
    BY <1>1
  <2>2. f[k] = w[k]
    BY <2>1
  <2>3. f[k + 1] = Next0(f)[k + 1] /\ w[k + 1] = Next0(w)[k + 1]
    BY <1>2, <1>4
  <2> HIDE DEF f, w
  <2>4. Next0(f)[k + 1] = LoopStep(cand, f[k], rows[k + 1])
    BY <2>1
  <2>5. Next0(w)[k + 1] = LoopStep(cand, w[k], rows[k + 1])
    BY <2>1
  <2> QED BY <2>2, <2>3, <2>4, <2>5
<1>7. Same = Nat
  <2> HIDE DEF f, w
  <2>1. Same \subseteq Nat
    OBVIOUS
  <2> HIDE DEF Same
  <2> QED BY <1>5, <1>6, <2>1, AllNumbers
<1>8. f[n] = w[n]
  <2> HIDE DEF f, w
  <2>1. n \in Nat
    BY <1>1
  <2> QED BY <1>7, <2>1
<1> QED BY <1>8

\* Whatever appointments a day holds, in whatever order the query returns them,
\* however many: the loop of evaluate_slot, which returns at the first one that
\* blocks, gives the verdict of the rule over their set.
THEOREM LoopIsTheRule ==
  ASSUME NEW S, NEW rows \in Seq(S), NEW cand, NEW capacity
  PROVE  EvaluateLoop(cand, capacity, rows) = At(cand, capacity, rows)
<1> DEFINE N    == Len(rows)
           last == Loop(cand, rows)[N]
           over == Overlapping(cand, rows, DOMAIN rows, 0)
           some == \E n \in DOMAIN rows : Overlap(cand, rows[n])
<1>1. N \in Nat /\ DOMAIN rows = 1 .. N
  OBVIOUS
<1>2. over = {i \in 1 .. N : Overlap(cand, rows[i])}
  BY <1>1 DEF Overlapping
<1>3. At(cand, capacity, rows)
        = [blocked |-> Blocked(cand, capacity, rows, over),
           remaining |-> Remaining(cand, capacity, rows, over)]
  BY DEF At, EvaluateSlot
<1>4. CASE capacity <= 1
  <2>1. EvaluateLoop(cand, capacity, rows)
          = [blocked |-> some, remaining |-> IF some THEN 0 ELSE 1]
    BY <1>4 DEF EvaluateLoop
  <2>2. some = (over # {})
    BY <1>1, <1>2
  <2>3. Blocked(cand, capacity, rows, over) = (over # {})
    BY <1>4 DEF Blocked
  <2>4. Remaining(cand, capacity, rows, over) = IF over # {} THEN 0 ELSE 1
    BY <1>4, <2>3 DEF Remaining
  <2> HIDE DEF some, over
  <2> QED BY <1>3, <2>1, <2>2, <2>3, <2>4
<1>5. CASE ~(capacity <= 1)
  <2> DEFINE bad == \E i \in 1 .. N : Blocks(cand, rows[i])
  <2>1. last = LoopState(cand, rows, N)
    BY <1>1, LoopIsState
  <2>2. last.blocked = bad /\ last.taken = Cardinality(Counted(cand, rows, N))
    BY <2>1 DEF LoopState
  <2>3. EvaluateLoop(cand, capacity, rows)
          = [blocked   |-> last.blocked,
             remaining |-> IF last.blocked THEN 0 ELSE Max0(capacity - last.taken)]
    BY <1>5 DEF EvaluateLoop
  <2>4. Blocked(cand, capacity, rows, over) = bad
    BY <1>2, <1>5 DEF Blocked, Blocks
  <2>5. CASE bad
    BY <1>3, <2>2, <2>3, <2>4, <2>5 DEF Remaining
  <2>6. CASE ~bad
    <3>1. Counted(cand, rows, N) = {a \in over : SameSession(cand, rows[a])}
      BY <1>1, <1>2, <2>6 DEF Counted
    <3>2. Remaining(cand, capacity, rows, over) = Max0(capacity - last.taken)
      BY <1>5, <2>2, <2>4, <2>6, <3>1 DEF Remaining
    <3> HIDE DEF bad, last, over
    <3> QED BY <1>3, <2>2, <2>3, <2>4, <2>6, <3>2
  <2> QED BY <2>5, <2>6
<1> QED BY <1>4, <1>5

\* The agenda is a list of appointments.
AgendaTyped == agenda \in Seq(AgendaRow)

\* The loop gives the verdict of the rule on every agenda that can come about.
THEOREM LoopHolds == AgendaSpec => []LoopMatchesRule
<1>1. AgendaInit => AgendaTyped
  BY DEF AgendaInit, AgendaTyped
<1>2. AgendaTyped /\ [AppointmentAppears]_agenda => AgendaTyped'
  BY DEF AppointmentAppears, AgendaTyped
<1>3. AgendaTyped => LoopMatchesRule
  BY LoopIsTheRule DEF AgendaTyped, LoopMatchesRule
<1> QED BY <1>1, <1>2, <1>3, PTL DEF AgendaSpec

----------------------------------------------------------------------------
(* Sums over finite sets.                                                  *)

\* A property of sets that passes from all proper subsets of a set to the set
\* holds of all subsets of a finite set.
LEMMA AllSubsets ==
  ASSUME NEW S, IsFiniteSet(S), NEW G,
         \A T \in SUBSET S : (\A U \in SUBSET T : U # T => U \in G) => T \in G
  PROVE  \A T \in SUBSET S : T \in G
<1> DEFINE bad == {T \in SUBSET S : T \notin G}
<1> SUFFICES ASSUME bad # {}
             PROVE  FALSE
  OBVIOUS
<1>1. IsWellFoundedOn(StrictSubsetOrdering(S), SUBSET S)
  <2>1. IsWellFoundedOn(StrictSubsetOrdering(S), FiniteSubsetsOf(S))
    BY FS_StrictSubsetOrderingWellFounded
  <2>2. FiniteSubsetsOf(S) = SUBSET S
    BY FS_FiniteSubsetsOfFinite
  <2> QED BY <2>1, <2>2
<1>2. bad \subseteq SUBSET S
  OBVIOUS
<1>3. \E T \in bad : \A U \in bad : ~(<<U, T>> \in StrictSubsetOrdering(S))
  <2> HIDE DEF bad
  <2> QED BY <1>1, <1>2, WFMin
<1>4. PICK T \in bad : \A U \in bad : ~(<<U, T>> \in StrictSubsetOrdering(S))
  BY <1>3
<1>5. ASSUME NEW U \in SUBSET T, U # T
      PROVE  U \in G
  <2>1. U \in SUBSET S /\ T \in SUBSET S
    BY <1>5, <1>4
  <2>2. <<U, T>> \in StrictSubsetOrdering(S)
    BY <1>5, <2>1 DEF StrictSubsetOrdering
  <2> QED BY <1>4, <2>1, <2>2
<1> QED BY <1>4, <1>5

Sum(f, S) == SumFunctionOnSet(f, S)

\* The element that the fold takes next.
First(S) == CHOOSE x \in S : TRUE

\* The recursion that defines the fold, and its unfolding.
Folds(f, S, g) ==
  g = [T \in SUBSET S |-> IF T = {} THEN 0 ELSE f[First(T)] + g[T \ {First(T)}]]

Unfolded(f, S) == IF S = {} THEN 0 ELSE f[First(S)] + Sum(f, S \ {First(S)})

\* The sum of the library is a recursive function on the subsets of its set.
LEMMA SumIsFold ==
  ASSUME NEW f, NEW S
  PROVE  Sum(f, S) = (CHOOSE g : Folds(f, S, g))[S]
BY DEF Sum, SumFunctionOnSet, FoldFunctionOnSet, MapThenFoldSet, Folds, First

\* The unfolding satisfies the recursion, and nothing else does.
LEMMA SumUnfolds ==
  ASSUME NEW f, NEW S, IsFiniteSet(S)
  PROVE  Sum(f, S) = Unfolded(f, S)
<1> DEFINE G == {T \in SUBSET S : Sum(f, T) = Unfolded(f, T)}
<1>1. ASSUME NEW T \in SUBSET S, \A U \in SUBSET T : U # T => U \in G
      PROVE  T \in G
  <2> DEFINE V == [U \in SUBSET T |-> Unfolded(f, U)]
             h == CHOOSE g : Folds(f, T, g)
             Same == {U \in SUBSET T : h[U] = V[U]}
  <2>1. ASSUME NEW U \in SUBSET T, U # {}
        PROVE  /\ First(U) \in U
               /\ U \ {First(U)} \in SUBSET T
               /\ U \ {First(U)} # U
               /\ V[U] = f[First(U)] + V[U \ {First(U)}]
    <3>1. First(U) \in U
      BY <2>1 DEF First
    <3>2. /\ U \ {First(U)} \in SUBSET T /\ U \ {First(U)} # U
          /\ U \ {First(U)} # T
      BY <3>1
    <3>3. Unfolded(f, U \ {First(U)}) = Sum(f, U \ {First(U)})
      BY <1>1, <3>2
    <3>4. V[U] = Unfolded(f, U) /\ V[U \ {First(U)}] = Unfolded(f, U \ {First(U)})
      BY <3>2
    <3>5. Unfolded(f, U) = f[First(U)] + Sum(f, U \ {First(U)})
      BY <2>1 DEF Unfolded
    <3> HIDE DEF V
    <3> QED BY <3>1, <3>2, <3>3, <3>4, <3>5
  <2>2. {} \in SUBSET T /\ V[{}] = 0
    BY DEF Unfolded
  <2>3. Folds(f, T, V)
    <3> DEFINE W == [U \in SUBSET T |->
                       IF U = {} THEN 0 ELSE f[First(U)] + V[U \ {First(U)}]]
    <3>1. ASSUME NEW U \in SUBSET T
          PROVE  V[U] = W[U]
      <4> HIDE DEF V
      <4> QED BY <2>1, <2>2
    <3>2. V = [U \in SUBSET T |-> V[U]] /\ W = [U \in SUBSET T |-> W[U]]
      OBVIOUS
    <3>3. V = W
      <4> HIDE DEF V, W
      <4> QED BY <3>1, <3>2
    <3> QED BY <3>3 DEF Folds
  <2>4. Folds(f, T, h)
    <3> HIDE DEF V
    <3> QED BY <2>3
  <2>5. ASSUME NEW U \in SUBSET T
        PROVE  h[U] = IF U = {} THEN 0 ELSE f[First(U)] + h[U \ {First(U)}]
    <3> HIDE DEF h
    <3> QED BY <2>4 DEF Folds
  <2>6. ASSUME NEW U \in SUBSET T, \A R \in SUBSET U : R # U => R \in Same
        PROVE  U \in Same
    <3> HIDE DEF h, V
    <3>1. CASE U = {}
      BY <2>2, <2>5, <3>1
    <3>2. CASE U # {}
      <4>1. /\ U \ {First(U)} \in SUBSET U /\ U \ {First(U)} # U
            /\ V[U] = f[First(U)] + V[U \ {First(U)}]
        BY <2>1, <3>2
      <4>2. h[U \ {First(U)}] = V[U \ {First(U)}]
        BY <2>6, <4>1
      <4>3. h[U] = f[First(U)] + h[U \ {First(U)}]
        BY <2>5, <3>2
      <4> QED BY <4>1, <4>2, <4>3
    <3> QED BY <3>1, <3>2
  <2>7. T \in Same
    <3>1. IsFiniteSet(T) /\ T \in SUBSET T
      BY FS_Subset
    <3> HIDE DEF Same
    <3> QED BY <2>6, <3>1, AllSubsets
  <2>8. Sum(f, T) = h[T] /\ V[T] = Unfolded(f, T)
    BY SumIsFold
  <2>9. h[T] = V[T]
    BY <2>7
  <2> HIDE DEF h, V
  <2> QED BY <2>8, <2>9
<1>2. S \in G
  <2> HIDE DEF G
  <2> QED BY <1>1, AllSubsets
<1> QED BY <1>2

\* Nothing adds up to zero.
LEMMA SumOfNone ==
  ASSUME NEW f
  PROVE  Sum(f, {}) = 0
BY SumUnfolds, FS_EmptySet DEF Unfolded

\* Natural numbers add up to one.
LEMMA SumNat ==
  ASSUME NEW f, NEW S, IsFiniteSet(S), \A x \in S : f[x] \in Nat
  PROVE  Sum(f, S) \in Nat
<1> DEFINE G == {T \in SUBSET S : Sum(f, T) \in Nat}
<1>1. ASSUME NEW T \in SUBSET S, \A U \in SUBSET T : U # T => U \in G
      PROVE  T \in G
  <2>1. CASE T = {}
    BY <2>1, SumOfNone
  <2>2. CASE T # {}
    <3>1. First(T) \in T
      BY <2>2 DEF First
    <3>2. T \ {First(T)} \in SUBSET T /\ T \ {First(T)} # T
      BY <3>1
    <3>3. Sum(f, T) = f[First(T)] + Sum(f, T \ {First(T)})
      BY <2>2, SumUnfolds, FS_Subset DEF Unfolded
    <3>4. Sum(f, T \ {First(T)}) \in Nat /\ f[First(T)] \in Nat
      BY <1>1, <3>1, <3>2
    <3> QED BY <3>3, <3>4
  <2> QED BY <2>1, <2>2
<1>2. S \in G
  <2> HIDE DEF G
  <2> QED BY <1>1, AllSubsets
<1> QED BY <1>2

\* Whichever element the fold takes first, any other could have been.
LEMMA SumTakes ==
  ASSUME NEW f, NEW S, IsFiniteSet(S), \A x \in S : f[x] \in Nat, NEW x \in S
  PROVE  Sum(f, S) = f[x] + Sum(f, S \ {x})
<1> DEFINE G == {T \in SUBSET S : \A y \in T : Sum(f, T) = f[y] + Sum(f, T \ {y})}
<1>1. ASSUME NEW T \in SUBSET S, \A U \in SUBSET T : U # T => U \in G
      PROVE  T \in G
  <2> SUFFICES ASSUME NEW y \in T
               PROVE  Sum(f, T) = f[y] + Sum(f, T \ {y})
    OBVIOUS
  <2> DEFINE z == First(T)
  <2>1. z \in T
    BY DEF First
  <2>2. IsFiniteSet(T) /\ \A v \in T : f[v] \in Nat
    BY FS_Subset
  <2>3. Sum(f, T) = f[z] + Sum(f, T \ {z})
    BY <2>2, SumUnfolds DEF Unfolded
  <2> HIDE DEF z
  <2>4. CASE y = z
    BY <2>3, <2>4
  <2>5. CASE y # z
    <3> DEFINE rest == T \ {y, z}
    <3>1. /\ T \ {z} \in SUBSET T /\ T \ {z} # T /\ y \in T \ {z}
          /\ T \ {y} \in SUBSET T /\ T \ {y} # T /\ z \in T \ {y}
          /\ (T \ {z}) \ {y} = rest /\ (T \ {y}) \ {z} = rest
      BY <2>1, <2>5
    <3>2. Sum(f, T \ {z}) = f[y] + Sum(f, rest)
      BY <1>1, <3>1
    <3>3. Sum(f, T \ {y}) = f[z] + Sum(f, rest)
      BY <1>1, <3>1
    <3>4. f[y] \in Nat /\ f[z] \in Nat
      BY <2>1, <2>2
    <3>5. Sum(f, rest) \in Nat
      BY <2>2, SumNat, FS_Subset
    <3> HIDE DEF rest
    <3> QED BY <2>3, <3>2, <3>3, <3>4, <3>5
  <2> QED BY <2>4, <2>5
<1>2. S \in G
  <2> HIDE DEF G
  <2> QED BY <1>1, AllSubsets
<1> QED BY <1>2

\* A sum depends on the values it adds.
LEMMA SumSame ==
  ASSUME NEW f, NEW g, NEW S, IsFiniteSet(S), \A x \in S : f[x] = g[x]
  PROVE  Sum(f, S) = Sum(g, S)
<1> DEFINE G == {T \in SUBSET S : Sum(f, T) = Sum(g, T)}
<1>1. ASSUME NEW T \in SUBSET S, \A U \in SUBSET T : U # T => U \in G
      PROVE  T \in G
  <2>1. CASE T = {}
    BY <2>1, SumOfNone
  <2>2. CASE T # {}
    <3>1. First(T) \in T
      BY <2>2 DEF First
    <3>2. T \ {First(T)} \in SUBSET T /\ T \ {First(T)} # T
      BY <3>1
    <3>3. IsFiniteSet(T)
      BY FS_Subset
    <3>4. /\ Sum(f, T) = f[First(T)] + Sum(f, T \ {First(T)})
          /\ Sum(g, T) = g[First(T)] + Sum(g, T \ {First(T)})
      BY <2>2, <3>3, SumUnfolds DEF Unfolded
    <3>5. Sum(f, T \ {First(T)}) = Sum(g, T \ {First(T)})
      BY <1>1, <3>2
    <3>6. f[First(T)] = g[First(T)]
      BY <3>1
    <3> QED BY <3>4, <3>5, <3>6
  <2> QED BY <2>1, <2>2
<1>2. S \in G
  <2> HIDE DEF G
  <2> QED BY <1>1, AllSubsets
<1> QED BY <1>2

\* The sum over a set in two parts.
LEMMA SumSplits ==
  ASSUME NEW f, NEW A, NEW B, IsFiniteSet(A), IsFiniteSet(B), A \cap B = {},
         \A x \in A \cup B : f[x] \in Nat
  PROVE  Sum(f, A \cup B) = Sum(f, A) + Sum(f, B)
<1> DEFINE G == {T \in SUBSET B : Sum(f, A \cup T) = Sum(f, A) + Sum(f, T)}
<1>1. Sum(f, A) \in Nat
  BY SumNat
<1>2. ASSUME NEW T \in SUBSET B, \A U \in SUBSET T : U # T => U \in G
      PROVE  T \in G
  <2>1. CASE T = {}
    <3>1. A \cup T = A
      BY <2>1
    <3> QED BY <1>1, <2>1, <3>1, SumOfNone
  <2>2. CASE T # {}
    <3>1. PICK y \in T : TRUE
      BY <2>2
    <3> DEFINE rest == T \ {y}
    <3>2. rest \in SUBSET T /\ rest # T /\ (A \cup T) \ {y} = A \cup rest
      BY <3>1
    <3>3. IsFiniteSet(T) /\ IsFiniteSet(A \cup T)
      BY FS_Subset, FS_Union
    <3>4. /\ \A x \in T : f[x] \in Nat
          /\ \A x \in A \cup T : f[x] \in Nat
          /\ y \in A \cup T
      BY <3>1
    <3>5. Sum(f, A \cup T) = f[y] + Sum(f, (A \cup T) \ {y})
      BY <3>3, <3>4, SumTakes
    <3>6. Sum(f, T) = f[y] + Sum(f, rest)
      BY <3>1, <3>3, <3>4, SumTakes
    <3>7. Sum(f, A \cup rest) = Sum(f, A) + Sum(f, rest)
      BY <1>2, <3>2
    <3>8. Sum(f, rest) \in Nat /\ f[y] \in Nat
      BY <3>1, <3>3, <3>4, SumNat, FS_Subset
    <3> HIDE DEF rest
    <3> QED BY <1>1, <3>2, <3>5, <3>6, <3>7, <3>8
  <2> QED BY <2>1, <2>2
<1>3. B \in G
  <2> HIDE DEF G
  <2> QED BY <1>2, AllSubsets
<1> QED BY <1>3

\* More to add makes no less.
LEMMA SumOfMore ==
  ASSUME NEW f, NEW S, IsFiniteSet(S), \A x \in S : f[x] \in Nat, NEW T \in SUBSET S
  PROVE  Sum(f, T) \in Nat /\ Sum(f, S) \in Nat /\ Sum(f, T) <= Sum(f, S)
<1>1. IsFiniteSet(T) /\ IsFiniteSet(S \ T) /\ T \cap (S \ T) = {} /\ T \cup (S \ T) = S
  BY FS_Subset
<1>2. Sum(f, S) = Sum(f, T) + Sum(f, S \ T)
  BY <1>1, SumSplits
<1>3. Sum(f, T) \in Nat /\ Sum(f, S \ T) \in Nat
  BY <1>1, SumNat
<1> QED BY <1>2, <1>3

\* Counting is adding ones.
LEMMA SumCounts ==
  ASSUME NEW f, NEW S, IsFiniteSet(S), \A x \in S : f[x] = 1
  PROVE  Sum(f, S) = Cardinality(S)
<1> DEFINE G == {T \in SUBSET S : Sum(f, T) = Cardinality(T)}
<1>1. ASSUME NEW T \in SUBSET S, \A U \in SUBSET T : U # T => U \in G
      PROVE  T \in G
  <2>1. CASE T = {}
    BY <2>1, SumOfNone, FS_EmptySet
  <2>2. CASE T # {}
    <3>1. PICK y \in T : TRUE
      BY <2>2
    <3> DEFINE rest == T \ {y}
    <3>2. rest \in SUBSET T /\ rest # T
      BY <3>1
    <3>3. IsFiniteSet(T) /\ \A x \in T : f[x] = 1 /\ f[x] \in Nat
      BY FS_Subset
    <3>4. Sum(f, T) = 1 + Sum(f, rest)
      BY <3>1, <3>3, SumTakes
    <3>5. Cardinality(rest) = Cardinality(T) - 1 /\ Cardinality(T) \in Nat
      BY <3>1, <3>3, FS_RemoveElement, FS_CardinalityType
    <3>6. Sum(f, rest) = Cardinality(rest)
      BY <1>1, <3>2
    <3> HIDE DEF rest
    <3> QED BY <3>4, <3>5, <3>6
  <2> QED BY <2>1, <2>2
<1>2. S \in G
  <2> HIDE DEF G
  <2> QED BY <1>1, AllSubsets
<1> QED BY <1>2

\* The values of a column over some rows, and the rows that share one.
Values(key, B) == {key[b] : b \in B}

Sharing(B, key, k) == {b \in B : key[b] = k}

\* The sums over groups add up to the sum over all.
LEMMA SumOfGroups ==
  ASSUME NEW f, NEW B, IsFiniteSet(B), \A b \in B : f[b] \in Nat,
         NEW key, NEW K, IsFiniteSet(K), \A b \in B : key[b] \in K,
         NEW g, \A k \in K : g[k] = Sum(f, Sharing(B, key, k))
  PROVE  Sum(g, K) = Sum(f, B)
<1> DEFINE Of(T) == {b \in B : key[b] \in T}
           G == {T \in SUBSET K : Sum(g, T) = Sum(f, Of(T))}
<1>1. ASSUME NEW T
      PROVE  IsFiniteSet(Of(T)) /\ Sum(f, Of(T)) \in Nat /\ \A b \in Of(T) : f[b] \in Nat
  <2>1. IsFiniteSet(Of(T)) /\ \A b \in Of(T) : f[b] \in Nat
    BY FS_Subset
  <2> HIDE DEF Of
  <2> QED BY <2>1, SumNat
<1>2. ASSUME NEW k \in K
      PROVE  g[k] = Sum(f, Of({k})) /\ g[k] \in Nat
  <2>1. Sharing(B, key, k) = Of({k})
    BY DEF Sharing
  <2> HIDE DEF Of
  <2> QED BY <1>1, <2>1
<1>3. ASSUME NEW T \in SUBSET K, \A U \in SUBSET T : U # T => U \in G
      PROVE  T \in G
  <2>1. CASE T = {}
    <3>1. Of(T) = {}
      BY <2>1
    <3> HIDE DEF Of
    <3> QED BY <2>1, <3>1, SumOfNone
  <2>2. CASE T # {}
    <3>1. PICK k \in T : TRUE
      BY <2>2
    <3> DEFINE rest == T \ {k}
    <3>2. rest \in SUBSET T /\ rest # T
      BY <3>1
    <3>3. IsFiniteSet(T) /\ \A x \in T : g[x] \in Nat
      BY <1>2, FS_Subset
    <3>4. Sum(g, T) = g[k] + Sum(g, rest)
      BY <3>1, <3>3, SumTakes
    <3>5. Of(rest) \cup Of({k}) = Of(T) /\ Of(rest) \cap Of({k}) = {}
      BY <3>1
    <3>6. Sum(g, rest) = Sum(f, Of(rest))
      BY <1>3, <3>2
    <3> HIDE DEF Of, rest
    <3>7. Sum(f, Of(T)) = Sum(f, Of(rest)) + Sum(f, Of({k}))
      <4> DEFINE P == Of(rest)
                 Q == Of({k})
      <4>1. \A x \in P \cup Q : f[x] \in Nat
        BY <1>1
      <4>2. IsFiniteSet(P) /\ IsFiniteSet(Q) /\ P \cap Q = {}
        BY <1>1, <3>5
      <4>3. Sum(f, P \cup Q) = Sum(f, P) + Sum(f, Q)
        <5> HIDE DEF P, Q
        <5> QED BY <4>1, <4>2, SumSplits
      <4> QED BY <3>5, <4>3
    <3>8. Sum(f, Of(rest)) \in Nat /\ Sum(f, Of({k})) \in Nat /\ g[k] = Sum(f, Of({k}))
      BY <1>1, <1>2, <3>1
    <3> QED BY <3>4, <3>6, <3>7, <3>8
  <2> QED BY <2>1, <2>2
<1>4. K \in G
  <2> HIDE DEF G
  <2> QED BY <1>3, AllSubsets
<1>5. Of(K) = B
  OBVIOUS
<1> QED BY <1>4, <1>5

\* As many values, none of them larger, add up to no more.
LEMMA SumDominated ==
  ASSUME NEW f, NEW X, NEW Y, IsFiniteSet(X), IsFiniteSet(Y),
         \A x \in X \cup Y : f[x] \in Nat,
         \A x \in X, y \in Y : f[x] <= f[y],
         Cardinality(X) <= Cardinality(Y)
  PROVE  Sum(f, X) <= Sum(f, Y)
<1> DEFINE G == {T \in SUBSET X : \A V \in SUBSET Y :
                   Cardinality(T) <= Cardinality(V) => Sum(f, T) <= Sum(f, V)}
<1>0. ASSUME NEW V \in SUBSET Y
      PROVE  IsFiniteSet(V) /\ Cardinality(V) \in Nat /\ Sum(f, V) \in Nat
             /\ \A x \in V : f[x] \in Nat
  <2>1. IsFiniteSet(V) /\ \A x \in V : f[x] \in Nat
    BY FS_Subset
  <2> QED BY <2>1, SumNat, FS_CardinalityType
<1>1. ASSUME NEW T \in SUBSET X, \A U \in SUBSET T : U # T => U \in G
      PROVE  T \in G
  <2> SUFFICES ASSUME NEW V \in SUBSET Y, Cardinality(T) <= Cardinality(V)
               PROVE  Sum(f, T) <= Sum(f, V)
    OBVIOUS
  <2>1. CASE T = {}
    BY <1>0, <2>1, SumOfNone
  <2>2. CASE T # {}
    <3>1. PICK x \in T : TRUE
      BY <2>2
    <3>2. IsFiniteSet(T) /\ Cardinality(T) \in Nat /\ \A z \in T : f[z] \in Nat
      BY FS_Subset, FS_CardinalityType
    <3>3. Cardinality(T \ {x}) = Cardinality(T) - 1 /\ Cardinality(T) # 0
      BY <2>2, <3>1, <3>2, FS_RemoveElement, FS_EmptySet
    <3>4. V # {}
      BY <1>0, <3>2, <3>3, FS_EmptySet
    <3>5. PICK y \in V : TRUE
      BY <3>4
    <3>6. Cardinality(V \ {y}) = Cardinality(V) - 1
      BY <1>0, <3>5, FS_RemoveElement
    <3>7. /\ Sum(f, T) = f[x] + Sum(f, T \ {x})
          /\ Sum(f, V) = f[y] + Sum(f, V \ {y})
      BY <1>0, <3>1, <3>2, <3>5, SumTakes
    <3>8. T \ {x} \in G
      BY <1>1, <3>1
    <3>9. Sum(f, T \ {x}) <= Sum(f, V \ {y})
      BY <1>0, <3>2, <3>3, <3>6, <3>8
    <3>10. f[x] <= f[y] /\ f[x] \in Nat /\ f[y] \in Nat
      BY <3>1, <3>5
    <3>11. Sum(f, T \ {x}) \in Nat /\ Sum(f, V \ {y}) \in Nat
      <4>1. IsFiniteSet(T \ {x}) /\ \A z \in T \ {x} : f[z] \in Nat
        BY <3>2, FS_Subset
      <4> QED BY <1>0, <4>1, SumNat
    <3> HIDE DEF G
    <3> QED BY <3>7, <3>9, <3>10, <3>11
  <2> QED BY <2>1, <2>2
<1>2. X \in G
  <2> HIDE DEF G
  <2> QED BY <1>1, AllSubsets
<1> QED BY <1>2

----------------------------------------------------------------------------
(* Reports: what the statements answer for one range.                      *)

\* A range holds finitely many appointments, all of them rows of the table.
LEMMA RangeFinite ==
  ASSUME TypeOK, NEW r
  PROVE  /\ In(r) \subseteq DOMAIN appts
         /\ IsFiniteSet(In(r)) /\ IsFiniteSet(DOMAIN appts)
         /\ \A a \in DOMAIN appts : appts[a] \in Row
<1>1. DOMAIN appts \subseteq AptIds /\ IsFiniteSet(AptIds)
  BY BookingAssumption DEF TypeOK
<1>2. IsFiniteSet(DOMAIN appts)
  BY <1>1, FS_Subset
<1>3. In(r) \subseteq DOMAIN appts
  BY DEF In
<1>4. IsFiniteSet(In(r))
  BY <1>2, <1>3, FS_Subset
<1> QED BY <1>2, <1>3, <1>4 DEF TypeOK

\* What was paid is a number of cents.
LEMMA PaidNat ==
  ASSUME TypeOK, NEW A, A \subseteq DOMAIN appts
  PROVE  /\ IsFiniteSet(A) /\ IsFiniteSet(Paid(A)) /\ Paid(A) \subseteq A
         /\ \A a \in Paid(A) : Amount[a] \in Nat
         /\ Revenue(A) = Sum(Amount, Paid(A)) /\ Revenue(A) \in Nat
<1>1. IsFiniteSet(A)
  BY RangeFinite, FS_Subset
<1>2. Paid(A) \subseteq A
  BY DEF Paid
<1>3. IsFiniteSet(Paid(A))
  BY <1>1, <1>2, FS_Subset
<1>4. ASSUME NEW a \in Paid(A)
      PROVE  Amount[a] \in Nat
  <2>1. appts[a] \in Row /\ appts[a].amount # NoAmount
    BY RangeFinite, <1>4 DEF Paid
  <2>2. appts[a].amount \in Amounts
    BY <2>1 DEF Row
  <2> QED BY <1>2, <2>2, ReportAssumption DEF Amount
<1>5. Revenue(A) = Sum(Amount, Paid(A))
  BY DEF Revenue, Sum
<1>6. Sum(Amount, Paid(A)) \in Nat
  BY <1>3, <1>4, SumNat
<1> QED BY <1>1, <1>2, <1>3, <1>4, <1>5, <1>6

\* The groups of a set of appointments, for any column.
LEMMA GroupFacts ==
  ASSUME TypeOK, NEW A, A \subseteq DOMAIN appts, NEW key, NEW statuses
  PROVE  /\ IsFiniteSet(Values(key, A))
         /\ DOMAIN GroupBy(A, key, statuses) = Values(key, A)
         /\ DOMAIN Totals(GroupBy(A, key, statuses)) = Values(key, A)
         /\ DOMAIN Revenues(GroupBy(A, key, statuses)) = Values(key, A)
         /\ \A k \in Values(key, A) :
              /\ Cardinality(Sharing(A, key, k)) \in Nat
              /\ GroupBy(A, key, statuses)[k].total = Cardinality(Sharing(A, key, k))
              /\ Totals(GroupBy(A, key, statuses))[k] = Cardinality(Sharing(A, key, k))
              /\ Revenues(GroupBy(A, key, statuses))[k] = Revenue(Sharing(A, key, k))
<1> DEFINE groups == GroupBy(A, key, statuses)
           K == {key[a] : a \in A}
           of(k) == {a \in A : key[a] = k}
           f == [a \in A |-> key[a]]
<1>1. IsFiniteSet(A)
  BY PaidNat
<1>2. f \in Surjection(A, K)
  BY DEF Surjection
<1>3. IsFiniteSet(K)
  BY <1>1, <1>2, FS_Surjection
<1>4. groups = [k \in K |-> Figures(of(k), statuses)]
  BY DEF GroupBy
<1>5. DOMAIN groups = K
  BY <1>4
<1>6. ASSUME NEW k \in K
      PROVE  /\ groups[k].total = Cardinality(of(k))
             /\ groups[k].revenue = Revenue(of(k))
             /\ Cardinality(of(k)) \in Nat
  <2>1. groups[k] = Figures(of(k), statuses)
    BY <1>4
  <2>2. of(k) \subseteq A
    OBVIOUS
  <2>3. Cardinality(of(k)) \in Nat
    BY <1>1, <2>2, FS_Subset, FS_CardinalityType
  <2> HIDE DEF of, groups
  <2> QED BY <2>1, <2>3 DEF Figures
<1>7. /\ Totals(groups) = [k \in K |-> groups[k].total]
      /\ Revenues(groups) = [k \in K |-> groups[k].revenue]
  BY <1>5 DEF Totals, Revenues
<1> HIDE DEF groups, of
<1>8. /\ DOMAIN Totals(groups) = K /\ DOMAIN Revenues(groups) = K
      /\ \A k \in K : /\ Totals(groups)[k] = Cardinality(of(k))
                      /\ Revenues(groups)[k] = Revenue(of(k))
  BY <1>6, <1>7
<1>9. /\ IsFiniteSet(K) /\ DOMAIN groups = K
      /\ DOMAIN Totals(groups) = K /\ DOMAIN Revenues(groups) = K
      /\ \A k \in K : /\ Cardinality(of(k)) \in Nat
                      /\ groups[k].total = Cardinality(of(k))
                      /\ Totals(groups)[k] = Cardinality(of(k))
                      /\ Revenues(groups)[k] = Revenue(of(k))
  BY <1>3, <1>5, <1>6, <1>8
<1> QED BY <1>9, Zenon DEF groups, of, Values, Sharing

\* Groups by any column add up to the whole.
LEMMA GroupsArePartition ==
  ASSUME TypeOK, NEW r, NEW key, NEW statuses
  PROVE  Shares(GroupBy(In(r), key, statuses), SummaryBlock(r))
<1> DEFINE A == In(r)
           groups == GroupBy(A, key, statuses)
           K == Values(key, A)
           one == [a \in A |-> 1]
           block == SummaryBlock(r)
<1>1. A \subseteq DOMAIN appts /\ IsFiniteSet(A)
  BY RangeFinite
<1>2. block.total = Cardinality(A) /\ block.revenue = Revenue(A)
  BY DEF SummaryBlock, Figures
<1>3. /\ DOMAIN Totals(groups) = K /\ DOMAIN Revenues(groups) = K /\ IsFiniteSet(K)
      /\ \A k \in K : /\ Totals(groups)[k] = Cardinality(Sharing(A, key, k))
                      /\ Revenues(groups)[k] = Revenue(Sharing(A, key, k))
  <2> HIDE DEF A
  <2> QED BY <1>1, GroupFacts
<1>4. Sum(Totals(groups), K) = Cardinality(A)
  <2>1. ASSUME NEW k \in K
        PROVE  Totals(groups)[k] = Sum(one, Sharing(A, key, k))
    <3> DEFINE of == Sharing(A, key, k)
    <3>1. IsFiniteSet(of) /\ \A a \in of : one[a] = 1
      BY <1>1, FS_Subset DEF Sharing
    <3>2. Totals(groups)[k] = Cardinality(of)
      BY <1>3
    <3>3. Sum(one, of) = Cardinality(of)
      <4> HIDE DEF of, one
      <4> QED BY <3>1, SumCounts
    <3> QED BY <3>2, <3>3
  <2>2. /\ \A a \in A : one[a] = 1 /\ one[a] \in Nat
        /\ \A a \in A : key[a] \in K
    BY DEF Values
  <2> HIDE DEF one, K, A, groups
  <2>3. Sum(Totals(groups), K) = Sum(one, A)
    BY <1>1, <1>3, <2>1, <2>2, SumOfGroups
  <2>4. Sum(one, A) = Cardinality(A)
    BY <1>1, <2>2, SumCounts
  <2> QED BY <2>3, <2>4
<1>5. Sum(Revenues(groups), K) = Revenue(A)
  <2> DEFINE B == Paid(A)
  <2>1. /\ IsFiniteSet(B) /\ \A a \in B : Amount[a] \in Nat
        /\ B \subseteq A /\ Revenue(A) = Sum(Amount, B)
    BY <1>1, PaidNat
  <2>2. ASSUME NEW k \in K
        PROVE  Revenues(groups)[k] = Sum(Amount, Sharing(B, key, k))
    <3> DEFINE of == Sharing(A, key, k)
    <3>1. Revenues(groups)[k] = Revenue(of)
      BY <1>3
    <3>2. of \subseteq DOMAIN appts
      BY <1>1 DEF Sharing
    <3>3. Revenue(of) = Sum(Amount, Paid(of))
      <4> HIDE DEF of
      <4> QED BY <3>2, PaidNat
    <3>4. Paid(of) = Sharing(B, key, k)
      BY DEF Paid, Sharing
    <3> QED BY <3>1, <3>3, <3>4
  <2>3. \A b \in B : key[b] \in K
    BY <2>1 DEF Values
  <2> HIDE DEF B, K, A, groups
  <2> QED BY <1>3, <2>1, <2>2, <2>3, SumOfGroups
<1> HIDE DEF groups, K, A, block
<1>6. /\ SumFunction(Totals(groups)) = Sum(Totals(groups), K)
      /\ SumFunction(Revenues(groups)) = Sum(Revenues(groups), K)
  BY <1>3 DEF SumFunction, Sum
<1>7. Shares(groups, block)
  BY <1>2, <1>4, <1>5, <1>6 DEF Partition, Shares
<1> QED BY <1>7 DEF groups, A, block

\* Groups that say nothing of what was collected add up to the same.
LEMMA CountsArePartition ==
  ASSUME TypeOK, NEW r, NEW key, NEW statuses
  PROVE  Partition(CountBy(In(r), key, statuses), SummaryBlock(r))
<1> DEFINE A == In(r)
           K == {key[a] : a \in A}
           of(k) == {a \in A : key[a] = k}
           counts == CountBy(A, key, statuses)
           groups == GroupBy(A, key, statuses)
<1>1. /\ counts = [k \in K |-> Tally(of(k), statuses)]
      /\ groups = [k \in K |-> Figures(of(k), statuses)]
  BY DEF CountBy, GroupBy
<1>2. DOMAIN counts = K /\ DOMAIN groups = K
  BY <1>1
<1>3. ASSUME NEW k \in K
      PROVE  counts[k].total = groups[k].total
  <2>1. counts[k] = Tally(of(k), statuses) /\ groups[k] = Figures(of(k), statuses)
    BY <1>1
  <2> HIDE DEF of, counts, groups
  <2> QED BY <2>1 DEF Tally, Figures
<1>4. Partition(groups, SummaryBlock(r))
  BY GroupsArePartition DEF Shares
<1> HIDE DEF counts, groups
<1>5. Totals(counts) = Totals(groups)
  BY <1>2, <1>3 DEF Totals
<1>6. Partition(counts, SummaryBlock(r))
  BY <1>4, <1>5 DEF Partition
<1> QED BY <1>6 DEF counts

\* No groups, as many at most, hold more than a top list does.
LEMMA TopIsLargest ==
  ASSUME TypeOK, NEW r, NEW key, NEW statuses, NEW limit \in Nat,
         NEW best \in Top(GroupBy(In(r), key, statuses), limit)
  PROVE  Largest(GroupBy(In(r), key, statuses), best, limit)
<1> DEFINE groups == GroupBy(In(r), key, statuses)
           keys == Values(key, In(r))
           K == DOMAIN groups
           f == Totals(groups)
<1>1. IsFiniteSet(K) /\ \A k \in K : f[k] = groups[k].total /\ f[k] \in Nat
  <2>1. In(r) \subseteq DOMAIN appts
    BY RangeFinite
  <2>2. /\ IsFiniteSet(keys) /\ DOMAIN groups = keys
        /\ \A k \in keys : /\ groups[k].total = Cardinality(Sharing(In(r), key, k))
                           /\ f[k] = Cardinality(Sharing(In(r), key, k))
                           /\ Cardinality(Sharing(In(r), key, k)) \in Nat
    BY <2>1, GroupFacts
  <2> HIDE DEF groups, keys, f
  <2> QED BY <2>2
<1> HIDE DEF groups
<1>2. /\ best \in SUBSET K
      /\ Cardinality(best) <= limit
      /\ best # K => Cardinality(best) = limit
      /\ \A k \in best, other \in K \ best : groups[k].total >= groups[other].total
  BY DEF Top, groups
<1> SUFFICES ASSUME NEW other \in SUBSET K, Cardinality(other) <= limit
             PROVE  Sum(f, other) <= Sum(f, best)
  BY DEF Largest, Sum, groups
<1> DEFINE both == other \cap best
           X == other \ best
           Y == best \ other
<1>3. /\ IsFiniteSet(other) /\ IsFiniteSet(best)
      /\ IsFiniteSet(both) /\ IsFiniteSet(X) /\ IsFiniteSet(Y)
  BY <1>1, <1>2, FS_Subset
<1>4. /\ Cardinality(X) = Cardinality(other) - Cardinality(both)
      /\ Cardinality(Y) = Cardinality(best) - Cardinality(both)
  <2>1. Cardinality(other \ best) = Cardinality(other) - Cardinality(other \cap best)
    BY <1>3, FS_Difference
  <2>2. Cardinality(best \ other) = Cardinality(best) - Cardinality(best \cap other)
    BY <1>3, FS_Difference
  <2>3. best \cap other = other \cap best
    OBVIOUS
  <2> QED BY <2>1, <2>2, <2>3
<1>5. /\ Cardinality(other) \in Nat /\ Cardinality(best) \in Nat /\ Cardinality(both) \in Nat
      /\ Cardinality(X) \in Nat
  BY <1>3, FS_CardinalityType
<1>6. Cardinality(X) <= Cardinality(Y)
  <2>1. CASE best = K
    <3>1. X = {}
      BY <2>1
    <3>2. Cardinality(X) = 0 /\ Cardinality(Y) \in Nat
      BY <1>3, <3>1, FS_EmptySet, FS_CardinalityType
    <3> QED BY <3>2
  <2>2. CASE best # K
    <3>1. Cardinality(best) = limit
      BY <1>2, <2>2
    <3> HIDE DEF X, Y, both
    <3> QED BY <1>4, <1>5, <3>1
  <2> QED BY <2>1, <2>2
<1>7. /\ \A x \in X \cup Y : f[x] \in Nat
      /\ \A x \in both : f[x] \in Nat
      /\ \A x \in X, y \in Y : f[x] <= f[y]
  <2> HIDE DEF f
  <2> QED BY <1>1, <1>2
<1>8. Sum(f, X) <= Sum(f, Y)
  <2> HIDE DEF f, X, Y
  <2> QED BY <1>3, <1>6, <1>7, SumDominated
<1>9. /\ both \cup X = other /\ both \cap X = {}
      /\ both \cup Y = best /\ both \cap Y = {}
  BY <1>2
<1>10. /\ Sum(f, other) = Sum(f, both) + Sum(f, X)
       /\ Sum(f, best) = Sum(f, both) + Sum(f, Y)
  <2>1. /\ \A x \in both \cup X : f[x] \in Nat
        /\ \A x \in both \cup Y : f[x] \in Nat
    BY <1>7
  <2>2. Sum(f, both \cup X) = Sum(f, both) + Sum(f, X)
    <3> HIDE DEF f, X, Y, both
    <3> QED BY <1>3, <1>9, <2>1, SumSplits
  <2>3. Sum(f, both \cup Y) = Sum(f, both) + Sum(f, Y)
    <3> HIDE DEF f, X, Y, both
    <3> QED BY <1>3, <1>9, <2>1, SumSplits
  <2> QED BY <1>9, <2>2, <2>3
<1>11. Sum(f, both) \in Nat /\ Sum(f, X) \in Nat /\ Sum(f, Y) \in Nat
  <2> HIDE DEF f, X, Y, both
  <2> QED BY <1>3, <1>7, SumNat
<1> HIDE DEF f, X, Y, both
<1> QED BY <1>8, <1>10, <1>11

\* The counters of a summary leave out what was rescheduled, and nothing else.
LEMMA PartsAndRest ==
  ASSUME TypeOK, NEW r
  PROVE  SummaryBlock(r).total = Parts(SummaryBlock(r)) + Count(In(r), "rescheduled")
<1> DEFINE A == In(r)
           five == {"pending", "confirmed", "completed", "cancelled", "no_show"}
           B == {a \in A : appts[a].status \in five}
           rest == {a \in A : appts[a].status = "rescheduled"}
           one == [a \in A |-> 1]
           status == [a \in A |-> appts[a].status]
           of == [s \in five |-> Count(A, s)]
<1>1. IsFiniteSet(A) /\ \A a \in A : appts[a].status \in Statuses
  BY RangeFinite DEF Row
<1>2. B \cup rest = A /\ B \cap rest = {}
  BY <1>1 DEF Statuses
<1>3. IsFiniteSet(B) /\ IsFiniteSet(rest)
  BY <1>1, FS_Subset
<1>4. SummaryBlock(r).total = Cardinality(A) /\ SummaryBlock(r).of = of
  BY DEF SummaryBlock, Figures
<1>5. Cardinality(A) = Cardinality(B) + Cardinality(rest)
  <2>1. Cardinality(B \cup rest) = Cardinality(B) + Cardinality(rest) - Cardinality(B \cap rest)
    BY <1>3, FS_Union
  <2>2. Cardinality(B \cap rest) = 0
    BY <1>2, FS_EmptySet
  <2>3. Cardinality(B) \in Nat /\ Cardinality(rest) \in Nat
    BY <1>3, FS_CardinalityType
  <2>4. Cardinality(A) = Cardinality(B \cup rest)
    BY <1>2
  <2> HIDE DEF A, B, rest
  <2> QED BY <2>1, <2>2, <2>3, <2>4
<1>6. Sum(of, five) = Cardinality(B)
  <2>1. IsFiniteSet(five)
    <3>1. IsFiniteSet({"pending"} \cup {"confirmed"} \cup {"completed"}
                       \cup {"cancelled"} \cup {"no_show"})
      BY FS_Singleton, FS_Union
    <3>2. five = {"pending"} \cup {"confirmed"} \cup {"completed"}
                   \cup {"cancelled"} \cup {"no_show"}
      OBVIOUS
    <3> QED BY <3>1, <3>2
  <2>2. \A a \in B : one[a] = 1 /\ one[a] \in Nat /\ status[a] \in five
    OBVIOUS
  <2>3. ASSUME NEW s \in five
        PROVE  of[s] = Sum(one, Sharing(B, status, s))
    <3> DEFINE C == Sharing(B, status, s)
    <3>1. C = {a \in A : appts[a].status = s}
      BY <2>3 DEF Sharing
    <3>2. of[s] = Cardinality({a \in A : appts[a].status = s})
      BY DEF Count
    <3>3. of[s] = Cardinality(C)
      BY <3>1, <3>2
    <3>4. IsFiniteSet(C) /\ \A a \in C : one[a] = 1
      BY <1>3, FS_Subset DEF Sharing
    <3>5. Sum(one, C) = Cardinality(C)
      <4> HIDE DEF C, one
      <4> QED BY <3>4, SumCounts
    <3> QED BY <3>3, <3>5
  <2> HIDE DEF five, B, one, status, of
  <2>a. /\ \A b \in B : one[b] \in Nat
        /\ \A b \in B : status[b] \in five
        /\ \A s \in five : of[s] = Sum(one, Sharing(B, status, s))
    BY <2>2, <2>3
  <2>4. Sum(of, five) = Sum(one, B)
    BY <1>3, <2>1, <2>a, SumOfGroups
  <2>5. Sum(one, B) = Cardinality(B)
    BY <1>3, <2>2, SumCounts
  <2> QED BY <2>4, <2>5
<1>7. Parts(SummaryBlock(r)) = Sum(of, five)
  <2>1. DOMAIN of = five
    OBVIOUS
  <2> HIDE DEF of, five
  <2> QED BY <1>4, <2>1 DEF Parts, SumFunction, Sum
<1>8. Count(A, "rescheduled") = Cardinality(rest)
  BY DEF Count
<1> HIDE DEF A, B, rest, five, of
<1> QED BY <1>4, <1>5, <1>6, <1>7, <1>8 DEF A

----------------------------------------------------------------------------
(* Reports: ranges, adjacent periods, and when clients were made.          *)

\* A range that begins before it ends.
Proper(r) == r.from \in Int /\ r.to \in Int /\ r.from < r.to

\* Of two days, the later one begins later.
LEMMA Midnights ==
  ASSUME NEW d \in Int, NEW e \in Int, d < e
  PROVE  MidnightOf(d) \in Int /\ MidnightOf(e) \in Int /\ MidnightOf(d) < MidnightOf(e)
<1>1. PICK n \in Nat \ {0} : DaySlots = n
  BY ReportAssumption
<1>2. d * n \in Int /\ e * n \in Int /\ LocalZero \in Int
  BY <1>1, ReportAssumption
<1>3. PICK k \in Nat \ {0} : e = d + k
  <2>1. e - d \in Nat \ {0} /\ e = d + (e - d)
    OBVIOUS
  <2> QED BY <2>1
<1>4. e * n = d * n + k * n
  BY <1>1, <1>3
<1>5. k * n > 0 /\ k * n \in Int
  BY <1>1, <1>3
<1>6. d * n < e * n
  BY <1>2, <1>4, <1>5
<1> QED BY <1>1, <1>2, <1>6 DEF MidnightOf

\* Every range that is answered is proper.
LEMMA RangeProper ==
  ASSUME TypeOK, NEW from \in Days \cup {NoDay}, NEW to \in Days \cup {NoDay},
         FirstOf(from, to) <= LastOf(to)
  PROVE  Proper(RangeOf(from, to))
<1>1. LocalDay(now) \in Int
  <2>1. now \in Int /\ LocalZero \in Int /\ DaySlots \in Nat \ {0}
    BY ReportAssumption, BookingAssumption DEF TypeOK
  <2> QED BY <2>1 DEF LocalDay
<1>2. LastOf(to) \in Int
  BY <1>1, ReportAssumption DEF LastOf
<1>3. FirstOf(from, to) \in Int
  BY <1>2, ReportAssumption DEF FirstOf
<1>4. FirstOf(from, to) < LastOf(to) + 1 /\ LastOf(to) + 1 \in Int
  BY <1>2, <1>3
<1>5. /\ RangeOf(from, to).from = MidnightOf(FirstOf(from, to))
      /\ RangeOf(from, to).to = MidnightOf(LastOf(to) + 1)
  BY DEF RangeOf
<1>6. /\ MidnightOf(FirstOf(from, to)) \in Int /\ MidnightOf(LastOf(to) + 1) \in Int
      /\ MidnightOf(FirstOf(from, to)) < MidnightOf(LastOf(to) + 1)
  BY <1>3, <1>4, Midnights
<1> QED BY <1>5, <1>6 DEF Proper

\* Every range that is asked for is at least a day long.
LEMMA AskedProper ==
  ASSUME TypeOK, NEW asked \in Asked
  PROVE  Proper(RangeOf(asked[1], asked[2]))
<1>1. CASE asked \in Days \X Days /\ asked[1] <= asked[2]
  <2>1. /\ asked[1] \in Days \cup {NoDay} /\ asked[2] \in Days \cup {NoDay}
        /\ asked[1] # NoDay /\ asked[2] # NoDay
    BY <1>1, ReportAssumption
  <2>2. FirstOf(asked[1], asked[2]) <= LastOf(asked[2])
    BY <1>1, <2>1 DEF FirstOf, LastOf
  <2> QED BY <2>1, <2>2, RangeProper
<1>2. CASE asked = <<NoDay, NoDay>>
  <2>1. asked[1] = NoDay /\ asked[2] = NoDay
    BY <1>2
  <2>2. LocalDay(now) \in Int
    <3>1. now \in Int /\ LocalZero \in Int /\ DaySlots \in Nat \ {0}
      BY ReportAssumption, BookingAssumption DEF TypeOK
    <3> QED BY <3>1 DEF LocalDay
  <2>3. FirstOf(NoDay, NoDay) <= LastOf(NoDay)
    BY <2>2, ReportAssumption DEF FirstOf, LastOf
  <2> QED BY <2>1, <2>3, RangeProper
<1> QED BY <1>1, <1>2 DEF Asked

\* Two periods, one right after the other, hold together what both hold.
LEMMA PeriodsAddUp ==
  ASSUME TypeOK, NEW r, Proper(r)
  PROVE  LET before == SummaryBlock(Previous(r))
             both   == SummaryBlock([from |-> Previous(r).from, to |-> r.to])
         IN  /\ before.total + SummaryBlock(r).total = both.total
             /\ before.revenue + SummaryBlock(r).revenue = both.revenue
<1> DEFINE p == Previous(r)
           w == [from |-> p.from, to |-> r.to]
           A == In(p)
           B == In(r)
           C == In(w)
<1>1. /\ p.to = r.from /\ p.from \in Int /\ p.from < r.from
      /\ w.from = p.from /\ w.to = r.to
      /\ r.from \in Int /\ r.to \in Int /\ r.from < r.to
  BY DEF Proper, Previous
<1>2. \A a \in DOMAIN appts : appts[a].start \in Nat
  BY RangeFinite, BookingAssumption DEF Row
<1>3. ASSUME NEW a \in DOMAIN appts
      PROVE  /\ a \in C <=> a \in A \/ a \in B
             /\ ~(a \in A /\ a \in B)
  <2> DEFINE x == appts[a].start
  <2>1. x \in Nat
    BY <1>2
  <2>2. /\ a \in A <=> x >= p.from /\ x < p.to
        /\ a \in B <=> x >= r.from /\ x < r.to
        /\ a \in C <=> x >= w.from /\ x < w.to
    BY DEF In, Within
  <2> HIDE DEF x, A, B, C, p, w
  <2> QED BY <1>1, <2>1, <2>2
<1>4. /\ A \subseteq DOMAIN appts /\ B \subseteq DOMAIN appts /\ C \subseteq DOMAIN appts
      /\ IsFiniteSet(A) /\ IsFiniteSet(B) /\ IsFiniteSet(C)
  BY RangeFinite
<1>5. /\ SummaryBlock(p).total = Cardinality(A) /\ SummaryBlock(p).revenue = Revenue(A)
      /\ SummaryBlock(r).total = Cardinality(B) /\ SummaryBlock(r).revenue = Revenue(B)
      /\ SummaryBlock(w).total = Cardinality(C) /\ SummaryBlock(w).revenue = Revenue(C)
  BY DEF SummaryBlock, Figures
<1> HIDE DEF A, B, C, w, p
<1>6. C = A \cup B /\ A \cap B = {}
  BY <1>3, <1>4
<1>7. Cardinality(C) = Cardinality(A) + Cardinality(B)
  <2>1. Cardinality(A \cup B) = Cardinality(A) + Cardinality(B) - Cardinality(A \cap B)
    BY <1>4, FS_Union
  <2>2. Cardinality(A \cap B) = 0 /\ Cardinality(A) \in Nat /\ Cardinality(B) \in Nat
    BY <1>4, <1>6, FS_EmptySet, FS_CardinalityType
  <2> QED BY <1>6, <2>1, <2>2
<1>8. Revenue(C) = Revenue(A) + Revenue(B)
  <2>1. /\ IsFiniteSet(Paid(A)) /\ IsFiniteSet(Paid(B))
        /\ Revenue(A) = Sum(Amount, Paid(A)) /\ Revenue(B) = Sum(Amount, Paid(B))
        /\ Revenue(C) = Sum(Amount, Paid(C))
        /\ \A a \in Paid(A) \cup Paid(B) : Amount[a] \in Nat
    BY <1>4, PaidNat
  <2>2. Paid(C) = Paid(A) \cup Paid(B) /\ Paid(A) \cap Paid(B) = {}
    BY <1>6 DEF Paid
  <2>3. Sum(Amount, Paid(A) \cup Paid(B)) = Sum(Amount, Paid(A)) + Sum(Amount, Paid(B))
    BY <2>1, <2>2, SumSplits
  <2> QED BY <2>1, <2>2, <2>3
<1>9. Cardinality(A) + Cardinality(B) = Cardinality(C) /\ Revenue(A) + Revenue(B) = Revenue(C)
  BY <1>7, <1>8
<1> QED BY <1>5, <1>9 DEF p, w

\* When clients were made: never later than now.
Ages ==
  /\ DOMAIN since = DOMAIN visits
  /\ \A c \in DOMAIN since : since[c] \in Nat /\ since[c] <= now
  /\ made \in [Txns -> Nat]
  /\ \A t \in Txns : made[t] <= now

\* Nobody has an appointment before being a client.
KnownClients ==
  \A a \in DOMAIN appts : /\ appts[a].client \in DOMAIN since
                          /\ since[appts[a].client] < appts[a].start

\* Hence the clients of a range are the new ones and the returning ones.
LEMMA ClientsSplit ==
  ASSUME TypeOK, Ages, KnownClients, NEW r, Proper(r)
  PROVE  /\ NewClients(r) \cup ReturningClients(r) = DOMAIN ByClient(r)
         /\ NewClients(r) \cap ReturningClients(r) = {}
<1> DEFINE client == [a \in DOMAIN appts |-> appts[a].client]
           N == NewClients(r)
           R == ReturningClients(r)
           K == {c \in DOMAIN since : \E a \in In(r) : appts[a].client = c}
<1>1. In(r) \subseteq DOMAIN appts
  BY DEF In
<1>2. DOMAIN ByClient(r) = K
  <2>1. DOMAIN GroupBy(In(r), client, {}) = Values(client, In(r))
    <3> HIDE DEF client
    <3> QED BY <1>1, GroupFacts
  <2>2. Values(client, In(r)) = K
    BY <1>1 DEF Values, KnownClients
  <2>3. ByClient(r) = GroupBy(In(r), client, {})
    BY DEF ByClient
  <2> QED BY <2>1, <2>2, <2>3
<1>3. ASSUME NEW c \in K
      PROVE  /\ c \in N <=> ~(since[c] < r.from)
             /\ c \in R <=> since[c] < r.from
  <2>1. PICK a \in In(r) : appts[a].client = c
    OBVIOUS
  <2>2. appts[a].start < r.to /\ appts[a].start \in Nat /\ a \in DOMAIN appts
    BY <2>1, <1>1, RangeFinite, BookingAssumption DEF In, Within, Row
  <2>3. since[c] < appts[a].start /\ since[c] \in Nat /\ c \in DOMAIN since
    BY <2>1, <2>2 DEF KnownClients, Ages
  <2>4. since[c] < r.to /\ (since[c] >= r.from <=> ~(since[c] < r.from))
    BY <2>2, <2>3 DEF Proper
  <2> QED BY <2>1, <2>3, <2>4 DEF NewClients, ReturningClients
<1>4. N \subseteq K /\ R \subseteq K
  BY DEF NewClients, ReturningClients
<1> HIDE DEF N, R, K
<1>5. N \cup R = K /\ N \cap R = {}
  BY <1>3, <1>4
<1> QED BY <1>2, <1>5 DEF N, R

\* The six reports agree whenever ages and clients are as the invariant says.
LEMMA ReportsAgreeNow ==
  ASSUME TypeOK, Ages, KnownClients
  PROVE  ReportsAgree
<1> SUFFICES ASSUME NEW asked \in Asked
             PROVE  LET from  == asked[1]
                        to    == asked[2]
                        r     == RangeOf(from, to)
                        block == SummaryBlock(r)
                    IN
                    /\ Partition(GetTrend(from, to), block)
                    /\ Partition(GetHeatmap(from, to), block)
                    /\ Partition(GetStatuses(from, to), block)
                    /\ Shares(GetPerformance(from, to), block)
                    /\ Shares(ByService(r), block)
                    /\ Shares(ByClient(r), block)
                    /\ \A limit \in Limits :
                         /\ \A best \in GetTopServices(from, to, limit) :
                              Largest(ByService(r), best, limit)
                         /\ \A best \in GetTopClients(from, to, limit) :
                              Largest(ByClient(r), best, limit)
                    /\ block.total = Parts(block) + Count(In(r), "rescheduled")
                    /\ LET before == SummaryBlock(Previous(r))
                           both   == SummaryBlock([from |-> Previous(r).from, to |-> r.to])
                       IN  /\ before.total + block.total = both.total
                           /\ before.revenue + block.revenue = both.revenue
                    /\ NewClients(r) \cup ReturningClients(r) = DOMAIN ByClient(r)
                    /\ NewClients(r) \cap ReturningClients(r) = {}
  BY DEF ReportsAgree
<1> DEFINE from  == asked[1]
           to    == asked[2]
           r     == RangeOf(from, to)
           block == SummaryBlock(r)
<1>1. Proper(r)
  BY AskedProper
<1> HIDE DEF r
<1>2. /\ Partition(Trend(r), block) /\ Partition(Heatmap(r), block)
      /\ Partition(StatusDistribution(r), block)
      /\ Shares(ProfessionalPerformance(r), block)
      /\ Shares(ByService(r), block) /\ Shares(ByClient(r), block)
  BY GroupsArePartition, CountsArePartition
     DEF Trend, Heatmap, ProfessionalPerformance, StatusDistribution, ByService, ByClient
<1>3. ASSUME NEW limit \in Limits
      PROVE  /\ \A best \in TopServices(r, limit) : Largest(ByService(r), best, limit)
             /\ \A best \in TopClients(r, limit) : Largest(ByClient(r), best, limit)
  <2>1. limit \in Nat
    BY ReportAssumption
  <2> QED BY <2>1, TopIsLargest DEF TopServices, TopClients, ByService, ByClient
<1>4. block.total = Parts(block) + Count(In(r), "rescheduled")
  BY PartsAndRest
<1>5. LET before == SummaryBlock(Previous(r))
          both   == SummaryBlock([from |-> Previous(r).from, to |-> r.to])
      IN  before.total + block.total = both.total /\ before.revenue + block.revenue = both.revenue
  BY <1>1, PeriodsAddUp
<1>6. /\ NewClients(r) \cup ReturningClients(r) = DOMAIN ByClient(r)
      /\ NewClients(r) \cap ReturningClients(r) = {}
  BY <1>1, ClientsSplit
<1>7. /\ GetTrend(from, to) = Trend(r) /\ GetHeatmap(from, to) = Heatmap(r)
      /\ GetPerformance(from, to) = ProfessionalPerformance(r)
      /\ GetStatuses(from, to) = StatusDistribution(r)
      /\ \A limit : /\ GetTopServices(from, to, limit) = TopServices(r, limit)
                    /\ GetTopClients(from, to, limit) = TopClients(r, limit)
  BY DEF GetTrend, GetHeatmap, GetPerformance, GetStatuses, GetTopServices, GetTopClients, r
<1> HIDE DEF block
<1>8. /\ Partition(GetTrend(from, to), block)
      /\ Partition(GetHeatmap(from, to), block)
      /\ Partition(GetStatuses(from, to), block)
      /\ Shares(GetPerformance(from, to), block)
  BY <1>2, <1>7
<1>9. \A limit \in Limits :
        /\ \A best \in GetTopServices(from, to, limit) : Largest(ByService(r), best, limit)
        /\ \A best \in GetTopClients(from, to, limit) : Largest(ByClient(r), best, limit)
  BY <1>3, <1>7
<1> QED BY <1>2, <1>4, <1>5, <1>6, <1>8, <1>9, Zenon DEF r, block

----------------------------------------------------------------------------
(* Reports: the invariant, step by step.                                   *)

\* What a request under way carries: a booking is pending; any other request has
\* the client of the stored row that it changes, and a start later than that client
\* was made, once it is about to write one.
Carries(q) ==
  IF q.op = "book"
  THEN q.row.status = "pending"
  ELSE /\ q.row.client \in DOMAIN since
       /\ q.row.client = appts[q.apt].client
       /\ q.op \notin Moves \/ q.pc = "flush" => since[q.row.client] < q.row.start

Carried == \A t \in Txns : txn[t].pc # "idle" => Carries(txn[t])

\* The created_at of the client that a booking is for, whoever commits it.
CreatedAt(t) ==
  IF txn[t].row.client \in DOMAIN since THEN since[txn[t].row.client] ELSE made[t]

\* A booking about to be committed is for a client made before its start.
FirstVisits ==
  \A t \in Txns : txn[t].pc = "flush" /\ txn[t].op = "book" => CreatedAt(t) < txn[t].row.start

\* A booking that has inserted its client, and not committed.
Inserts(t) ==
  /\ txn[t].pc \in {"slot", "write", "flush"}
  /\ txn[t].op = "book"
  /\ txn[t].row.client \notin DOMAIN visits

\* The unique key lets one of them at a time insert a client.
OneInserter ==
  \A t, u \in Txns : Inserts(t) /\ Inserts(u) /\ txn[t].row.client = txn[u].row.client => t = u

ReportInv == TypeInv /\ Ages /\ KnownClients /\ Carried /\ FirstVisits /\ OneInserter

\* A request that arrives carries a client who was known before the start it asks for.
ArrivesKnown(q) ==
  /\ Carries(q)
  /\ q.pc # "flush"
  /\ q.op = "book" /\ q.pc # "client" => q.row.client \in DOMAIN visits

LEMMA ReportArrives ==
  ASSUME NEW t \in Txns, TypeInv, KnownClients, Arrive(t)
  PROVE  \E q : Begin(t, q) /\ ArrivesKnown(q)
<1>0. ASSUME NEW a \in DOMAIN appts
      PROVE  /\ appts[a] \in Row /\ appts[a].client \in DOMAIN since
             /\ since[appts[a].client] < appts[a].start
  BY DEF TypeInv, TypeOK, KnownClients
<1>1. CASE BeginBook(t)
  <2>1. PICK s \in Services, c \in Clients, p \in Professionals \cup {NoProf}, x \in Starts :
          Begin(t, [pc   |-> IF c \in DOMAIN visits THEN "slot" ELSE "client",
                    op   |-> "book",
                    apt  |-> NoApt,
                    row  |-> [service |-> s, client |-> c, prof |-> p, start |-> x,
                              status |-> "pending", amount |-> NoAmount],
                    seen |-> IF c \in DOMAIN visits THEN visits[c] ELSE 0,
                    diff |-> {}])
    BY <1>1 DEF BeginBook, Requested
  <2>2. PICK pc : pc = IF c \in DOMAIN visits THEN "slot" ELSE "client"
    OBVIOUS
  <2>3. PICK row : row = [service |-> s, client |-> c, prof |-> p, start |-> x,
                          status |-> "pending", amount |-> NoAmount]
    OBVIOUS
  <2>4. PICK q : /\ Begin(t, q)
                 /\ q = [pc |-> pc, op |-> "book", apt |-> NoApt, row |-> row,
                         seen |-> IF c \in DOMAIN visits THEN visits[c] ELSE 0, diff |-> {}]
    BY <2>1, <2>2, <2>3
  <2>5. q.op = "book" /\ q.row = row /\ q.pc = pc
    BY <2>4
  <2>6. row.status = "pending" /\ row.client = c
    BY <2>3
  <2> QED BY <2>2, <2>4, <2>5, <2>6 DEF ArrivesKnown, Carries
<1>2. ASSUME NEW a \in DOMAIN appts, NEW row \in Row, NEW op \in Ops \ {"book"},
             NEW pc \in {"slot", "write"},
             row.client = appts[a].client, op \notin Moves => row.start = appts[a].start,
             Begin(t, [pc |-> pc, op |-> op, apt |-> a, row |-> row, seen |-> 0,
                       diff |-> {}])
      PROVE  \E q : Begin(t, q) /\ ArrivesKnown(q)
  <2> DEFINE q == [pc |-> pc, op |-> op, apt |-> a, row |-> row, seen |-> 0, diff |-> {}]
  <2>1. q.pc = pc /\ q.op = op /\ q.apt = a /\ q.row = row
    OBVIOUS
  <2> HIDE DEF q
  <2>2. ArrivesKnown(q)
    BY <1>0, <1>2, <2>1 DEF Carries, ArrivesKnown
  <2> QED BY <1>2, <2>2 DEF q
<1>3. ASSUME NEW a \in DOMAIN appts, NEW st \in Statuses
      PROVE  /\ [appts[a] EXCEPT !.status = st] \in Row
             /\ [appts[a] EXCEPT !.status = st].client = appts[a].client
             /\ [appts[a] EXCEPT !.status = st].start = appts[a].start
  BY <1>0 DEF Row
<1>4. CASE BeginReschedule(t)
  <2>1. PICK op \in Moves, a \in DOMAIN appts, x \in Starts :
          Begin(t, [pc |-> "slot", op |-> op, apt |-> a,
                    row |-> [appts[a] EXCEPT !.start = x, !.status = "rescheduled"],
                    seen |-> 0, diff |-> {}])
    BY <1>4 DEF BeginReschedule, MayChange, Moved
  <2> DEFINE row == [appts[a] EXCEPT !.start = x, !.status = "rescheduled"]
  <2>2. row \in Row /\ row.client = appts[a].client
    BY <1>0 DEF Row, Statuses
  <2>3. op \in Ops \ {"book"}
    BY DEF Moves, Ops
  <2> QED BY <2>1, <2>2, <2>3, <1>2
<1>5. CASE BeginCancel(t)
  <2>1. PICK a \in DOMAIN appts :
          Begin(t, [pc |-> "write", op |-> "cancel", apt |-> a,
                    row |-> [appts[a] EXCEPT !.status = "cancelled"], seen |-> 0,
                    diff |-> {}])
    BY <1>5 DEF BeginCancel, MayChange, Cancelled
  <2>2. "cancelled" \in Statuses /\ "cancel" \in Ops \ {"book"}
    BY DEF Statuses, Ops
  <2> QED BY <2>1, <2>2, <1>2, <1>3
<1>6. CASE BeginComplete(t)
  <2>1. PICK a \in DOMAIN appts, amount \in Amounts :
          Begin(t, [pc |-> "write", op |-> "complete", apt |-> a,
                    row |-> [appts[a] EXCEPT !.status = "completed", !.amount = amount],
                    seen |-> 0, diff |-> {}])
    BY <1>6 DEF BeginComplete, MayClose, Completed
  <2> DEFINE row == [appts[a] EXCEPT !.status = "completed", !.amount = amount]
  <2>2. row \in Row /\ row.client = appts[a].client /\ row.start = appts[a].start
    BY <1>0 DEF Row, Statuses
  <2>3. "complete" \in Ops \ {"book"}
    BY DEF Ops
  <2> QED BY <2>1, <2>2, <2>3, <1>2
<1>7. CASE BeginButton(t)
  <2>1. PICK a \in DOMAIN appts :
          \/ Begin(t, [pc |-> "write", op |-> "button_confirm", apt |-> a,
                       row |-> [appts[a] EXCEPT !.status = "confirmed"], seen |-> 0,
                       diff |-> {}])
          \/ Begin(t, [pc |-> "write", op |-> "button_cancel", apt |-> a,
                       row |-> [appts[a] EXCEPT !.status = "cancelled"], seen |-> 0,
                       diff |-> {}])
    BY <1>7 DEF BeginButton
  <2>2. /\ "confirmed" \in Statuses /\ "cancelled" \in Statuses
        /\ "button_confirm" \in Ops \ {"book"} /\ "button_cancel" \in Ops \ {"book"}
    BY DEF Statuses, Ops
  <2>3. CASE Begin(t, [pc |-> "write", op |-> "button_confirm", apt |-> a,
                       row |-> [appts[a] EXCEPT !.status = "confirmed"], seen |-> 0,
                       diff |-> {}])
    BY <2>2, <2>3, <1>2, <1>3
  <2>4. CASE Begin(t, [pc |-> "write", op |-> "button_cancel", apt |-> a,
                       row |-> [appts[a] EXCEPT !.status = "cancelled"], seen |-> 0,
                       diff |-> {}])
    BY <2>2, <2>4, <1>2, <1>3
  <2> QED BY <2>1, <2>3, <2>4
<1> QED BY <1>1, <1>4, <1>5, <1>6, <1>7 DEF Arrive

\* Seen from the booking tables, a report only reads.
LEMMA ReportSteps == [ReportNext]_<<vars, reportVars>> => [Next]_vars
BY DEF ReportNext, AskSummary, ReadPrevious, ReadNew, ReadReturning, Read, EditPrice, Later,
       Agenda, Next, vars

\* A request that goes on inserts a client whom nobody else is inserting, and does
\* not come to its write with a start that has passed.
LEMMA GoesOnInTime ==
  ASSUME NEW t \in Txns, TypeOK, Step(t), GoesOn(t)
  PROVE  /\ txn[t].pc = "client" => ~BeingInserted(txn[t].row.client)
         /\ txn'[t].pc = "flush" /\ txn[t].op \in Moves \cup {"book"} => txn[t].row.start > now
<1>1. txn'[t].pc \in {"slot", "write", "flush"} /\ (txn'[t].pc = "flush" => txn[t].pc = "write")
  BY GoesOnLeaves
<1>2. ~End(t)
  BY <1>1, EndTyped
<1>3. \/ AddClient(t) \/ CheckSlot(t) \/ MergeClient(t) \/ Merge(t)
  BY <1>2 DEF Step, RejectClient, RejectSlot, RejectPast, WriteBooking, WriteAppointment,
              WriteStatus, Rollback
<1>4. CASE AddClient(t)
  BY <1>1, <1>4 DEF AddClient
<1>5. CASE CheckSlot(t)
  BY <1>1, <1>5 DEF CheckSlot
<1>6. CASE MergeClient(t) \/ Merge(t)
  BY <1>6 DEF MergeClient, Merge, Merges
<1> QED BY <1>3, <1>4, <1>5, <1>6

\* A commit brings the client of its booking, and no other.
LEMMA StoresClient ==
  ASSUME NEW t \in Txns, TypeOK, Step(t), StoresOne(t), txn[t].op = "book"
  PROVE  DOMAIN visits' = DOMAIN visits \cup {txn[t].row.client}
<1>1. txn[t].pc = "flush" /\ txn'[t].pc = "idle"
  BY EndTyped DEF StoresOne
<1>2. WriteBooking(t)
  BY <1>1 DEF Step, AddClient, RejectClient, CheckSlot, RejectSlot, RejectPast, MergeClient,
              Merge, WriteAppointment, WriteStatus, Merges, Moves
<1> QED BY <1>2 DEF WriteBooking

\* What a request of the agenda does: it arrives, goes on, or ends, with or without
\* storing one row.
LEMMA AgendaKinds ==
  ASSUME NEW t \in Txns, TypeInv, KnownClients, Arrive(t) \/ Step(t) \/ Disconnect(t)
  PROVE  \/ \E q : Begin(t, q) /\ ArrivesKnown(q)
         \/ Step(t) /\ GoesOn(t)
         \/ Rollback(t)
         \/ Step(t) /\ StoresOne(t)
BY ReportArrives, StepKinds DEF TypeInv, Disconnect

\* Clients appear with the bookings that store them, and nobody else's request moves.
LEMMA AgendaLeaves ==
  ASSUME NEW t \in Txns, TypeInv, KnownClients, Arrive(t) \/ Step(t) \/ Disconnect(t)
  PROVE  /\ now' = now
         /\ \A u \in Txns \ {t} : txn'[u] = txn[u]
         /\ \/ appts' = appts /\ visits' = visits
            \/ Step(t) /\ StoresOne(t)
         /\ DOMAIN visits \subseteq DOMAIN visits'
         /\ \A c \in DOMAIN visits' \ DOMAIN visits :
              txn[t].op = "book" /\ txn[t].pc = "flush" /\ c = txn[t].row.client
<1>0. TypeOK
  BY DEF TypeInv
<1>1. ASSUME NEW q, Begin(t, q)
      PROVE  /\ now' = now /\ appts' = appts /\ visits' = visits
             /\ \A u \in Txns \ {t} : txn'[u] = txn[u]
  BY <1>0, <1>1, BeginLeaves
<1>2. ASSUME GoesOn(t)
      PROVE  /\ now' = now /\ appts' = appts /\ visits' = visits
             /\ \A u \in Txns \ {t} : txn'[u] = txn[u]
  BY <1>0, <1>2, GoesOnLeaves
<1>3. ASSUME Rollback(t)
      PROVE  /\ now' = now /\ appts' = appts /\ visits' = visits
             /\ \A u \in Txns \ {t} : txn'[u] = txn[u]
  BY <1>0, <1>3, EndTyped DEF Rollback, End
<1>4. CASE Step(t) /\ StoresOne(t)
  <2>1. now' = now /\ \A u \in Txns \ {t} : txn'[u] = txn[u]
    BY <1>0, <1>4, EndTyped DEF StoresOne, End
  <2>2. CASE txn[t].op = "book"
    <3>1. DOMAIN visits' = DOMAIN visits \cup {txn[t].row.client} /\ txn[t].pc = "flush"
      BY <1>0, <1>4, <2>2, StoresClient DEF StoresOne
    <3> QED BY <1>4, <2>1, <2>2, <3>1
  <2>3. CASE txn[t].op # "book"
    <3>1. visits' = visits
      BY <1>4, <2>3 DEF StoresOne
    <3> QED BY <1>4, <2>1, <3>1
  <2> QED BY <2>2, <2>3
<1> QED BY <1>1, <1>2, <1>3, <1>4, AgendaKinds

\* The clients stay as old as they are; the one a booking brings was made before.
LEMMA AgendaAges ==
  ASSUME NEW t \in Txns, ReportInv, Agenda(t)
  PROVE  /\ Ages'
         /\ \A c \in DOMAIN since : c \in DOMAIN since' /\ since'[c] = since[c]
         /\ \A u \in Txns \ {t} : made'[u] = made[u]
         /\ txn[t].pc # "client" /\ txn'[t].pc # "idle" => made'[t] = made[t]
<1>0. TypeOK /\ TypeInv /\ Ages /\ KnownClients
  BY DEF ReportInv, TypeInv
<1>1. now' = now /\ DOMAIN visits \subseteq DOMAIN visits'
  BY <1>0, AgendaLeaves DEF Agenda
<1>2. since' = [c \in DOMAIN visits' |-> IF c \in DOMAIN since THEN since[c] ELSE made[t]]
  BY DEF Agenda
<1>3. /\ made[t] \in Nat /\ made[t] <= now /\ now \in Nat
      /\ DOMAIN since = DOMAIN visits
      /\ \A c \in DOMAIN since : since[c] \in Nat /\ since[c] <= now
  BY <1>0, BookingAssumption DEF TypeOK, Ages
<1>4. /\ made' \in [Txns -> Nat]
      /\ \A u \in Txns : made'[u] <= now
      /\ \A u \in Txns \ {t} : made'[u] = made[u]
      /\ txn[t].pc # "client" /\ txn'[t].pc # "idle" => made'[t] = made[t]
  <2> DEFINE new == IF txn[t].pc = "client" /\ txn'[t].pc = "slot" THEN now
                    ELSE IF txn'[t].pc = "idle" THEN 0 ELSE made[t]
  <2>1. made' = [made EXCEPT ![t] = new]
    BY DEF Agenda
  <2>2. new \in Nat /\ new <= now
    BY <1>3
  <2>3. txn[t].pc # "client" /\ txn'[t].pc # "idle" => new = made[t]
    OBVIOUS
  <2> HIDE DEF new
  <2> QED BY <1>0, <2>1, <2>2, <2>3 DEF Ages
<1>5. DOMAIN since' = DOMAIN visits'
  BY <1>2
<1>6. \A c \in DOMAIN since' : since'[c] \in Nat /\ since'[c] <= now
  BY <1>2, <1>3
<1> QED BY <1>1, <1>2, <1>3, <1>4, <1>5, <1>6 DEF Ages

\* Two bookings never insert the same client.
LEMMA AgendaInserts ==
  ASSUME NEW t \in Txns, ReportInv, Agenda(t)
  PROVE  OneInserter'
<1>0. TypeOK /\ TypeInv /\ KnownClients /\ OneInserter
  BY DEF ReportInv, TypeInv
<1>1. /\ DOMAIN visits \subseteq DOMAIN visits'
      /\ \A u \in Txns \ {t} : txn'[u] = txn[u]
  BY <1>0, AgendaLeaves DEF Agenda
<1>2. ASSUME NEW u \in Txns \ {t}, Inserts(u)'
      PROVE  Inserts(u) /\ txn'[u].row = txn[u].row
  BY <1>1, <1>2 DEF Inserts
<1>3. ASSUME Inserts(t)', NEW u \in Txns \ {t}, Inserts(u)
      PROVE  txn'[t].row.client # txn[u].row.client
  <2>0. txn'[t].pc \in {"slot", "write", "flush"} /\ txn'[t].op = "book"
        /\ txn'[t].row.client \notin DOMAIN visits
    BY <1>1, <1>3 DEF Inserts
  <2>1. CASE \E q : Begin(t, q) /\ ArrivesKnown(q)
    <3>1. PICK q : Begin(t, q) /\ ArrivesKnown(q)
      BY <2>1
    <3>2. txn'[t] = q
      BY <1>0, <3>1, BeginLeaves
    <3> QED BY <2>0, <3>1, <3>2 DEF ArrivesKnown
  <2>2. CASE Step(t) /\ GoesOn(t)
    <3>1. /\ txn'[t].op = txn[t].op /\ txn'[t].row = txn[t].row
          /\ txn[t].pc \in {"client", "slot", "write"}
      BY <1>0, <2>2, GoesOnLeaves DEF GoesOn
    <3>2. CASE txn[t].pc = "client"
      <4>1. ~BeingInserted(txn[t].row.client)
        BY <1>0, <2>2, <3>2, GoesOnInTime
      <4> QED BY <1>3, <2>0, <3>1, <4>1 DEF BeingInserted, Inserts
    <3>3. CASE txn[t].pc # "client"
      <4>1. Inserts(t)
        BY <2>0, <3>1, <3>3 DEF Inserts
      <4> QED BY <1>0, <1>3, <3>1, <4>1 DEF OneInserter
    <3> QED BY <3>2, <3>3
  <2>3. CASE Rollback(t) \/ (Step(t) /\ StoresOne(t))
    <3>1. txn'[t].pc = "idle"
      BY <1>0, <2>3, EndTyped DEF Rollback, StoresOne
    <3> QED BY <2>0, <3>1
  <2> QED BY <1>0, <2>1, <2>2, <2>3, AgendaKinds DEF Agenda
<1>4. ASSUME NEW u \in Txns, NEW v \in Txns, Inserts(u)', Inserts(v)',
             txn'[u].row.client = txn'[v].row.client
      PROVE  u = v
  <2>1. CASE u # t /\ v # t
    BY <1>0, <1>2, <1>4, <2>1 DEF OneInserter
  <2>2. CASE u = t /\ v # t
    BY <1>2, <1>3, <1>4, <2>2
  <2>3. CASE u # t /\ v = t
    BY <1>2, <1>3, <1>4, <2>3
  <2> QED BY <2>1, <2>2, <2>3
<1>5. ASSUME NEW u \in Txns, NEW v \in Txns
      PROVE  (Inserts(u) /\ Inserts(v) /\ txn[u].row.client = txn[v].row.client => u = v)'
  BY <1>4
<1> QED BY <1>5 DEF OneInserter

\* A booking comes to its commit, and waits there, with a client made before its start.
LEMMA AgendaFirstVisits ==
  ASSUME NEW t \in Txns, ReportInv, Agenda(t)
  PROVE  FirstVisits'
<1>0. TypeOK /\ TypeInv /\ Ages /\ KnownClients /\ FirstVisits /\ OneInserter
  BY DEF ReportInv, TypeInv
<1>1. /\ now' = now
      /\ DOMAIN visits \subseteq DOMAIN visits'
      /\ \A c \in DOMAIN visits' \ DOMAIN visits :
           txn[t].op = "book" /\ txn[t].pc = "flush" /\ c = txn[t].row.client
      /\ \A u \in Txns \ {t} : txn'[u] = txn[u]
  BY <1>0, AgendaLeaves DEF Agenda
<1>2. /\ \A c \in DOMAIN since : c \in DOMAIN since' /\ since'[c] = since[c]
      /\ \A u \in Txns \ {t} : made'[u] = made[u]
      /\ txn[t].pc # "client" /\ txn'[t].pc # "idle" => made'[t] = made[t]
      /\ DOMAIN since = DOMAIN visits /\ DOMAIN since' = DOMAIN visits'
  BY <1>0, AgendaAges DEF Ages
<1>3. ASSUME NEW u \in Txns \ {t}, txn'[u].pc = "flush", txn'[u].op = "book"
      PROVE  (IF txn'[u].row.client \in DOMAIN since' THEN since'[txn'[u].row.client]
              ELSE made'[u]) < txn'[u].row.start
  <2> DEFINE c == txn[u].row.client
  <2>1. txn'[u] = txn[u] /\ CreatedAt(u) < txn[u].row.start
    BY <1>0, <1>1, <1>3 DEF FirstVisits
  <2>2. c \in DOMAIN since' => c \in DOMAIN since
    <3> SUFFICES ASSUME c \in DOMAIN since', c \notin DOMAIN since
                 PROVE  FALSE
      OBVIOUS
    <3>1. txn[t].op = "book" /\ txn[t].pc = "flush" /\ c = txn[t].row.client
      BY <1>1, <1>2
    <3>2. Inserts(t) /\ Inserts(u)
      BY <1>2, <1>3, <2>1, <3>1 DEF Inserts
    <3> QED BY <1>0, <3>1, <3>2 DEF OneInserter
  <2> QED BY <1>2, <2>1, <2>2 DEF CreatedAt
<1>4. ASSUME txn'[t].pc = "flush", txn'[t].op = "book"
      PROVE  (IF txn'[t].row.client \in DOMAIN since' THEN since'[txn'[t].row.client]
              ELSE made'[t]) < txn'[t].row.start
  <2>1. Step(t) /\ GoesOn(t)
    <3>1. ASSUME NEW q, Begin(t, q), ArrivesKnown(q)
          PROVE  FALSE
      BY <1>0, <1>4, <3>1, BeginLeaves DEF ArrivesKnown
    <3>2. ~Rollback(t) /\ ~StoresOne(t)
      BY <1>0, <1>4, EndTyped DEF Rollback, StoresOne
    <3> QED BY <1>0, <3>1, <3>2, AgendaKinds DEF Agenda
  <2>2. /\ txn'[t].row = txn[t].row /\ txn[t].op = "book"
        /\ txn[t].row.start > now
    BY <1>0, <1>4, <2>1, GoesOnLeaves, GoesOnInTime
  <2>3. txn[t].row.start \in Nat /\ now \in Nat
    BY <1>0, <2>1, GoesOnLeaves, BookingAssumption DEF TypeOK, Request, Row
  <2>4. (IF txn'[t].row.client \in DOMAIN since' THEN since'[txn'[t].row.client]
         ELSE made'[t]) \in Nat
        /\ (IF txn'[t].row.client \in DOMAIN since' THEN since'[txn'[t].row.client]
            ELSE made'[t]) <= now
    BY <1>1, AgendaAges DEF Ages
  <2> QED BY <2>2, <2>3, <2>4
<1>5. ASSUME NEW u \in Txns
      PROVE  (txn[u].pc = "flush" /\ txn[u].op = "book" => CreatedAt(u) < txn[u].row.start)'
  BY <1>3, <1>4 DEF CreatedAt
<1> QED BY <1>5 DEF FirstVisits

\* What a commit stores: the row of a client who was made before its start.
LEMMA StoresKnown ==
  ASSUME NEW t \in Txns, ReportInv, Agenda(t), Step(t), StoresOne(t)
  PROVE  \E a \in AptIds, row \in Row :
           /\ a \in DOMAIN appts => row.client = appts[a].client
           /\ row.client \in DOMAIN since' /\ since'[row.client] < row.start
           /\ DOMAIN appts' = DOMAIN appts \cup {a}
           /\ appts'[a] = row
           /\ \A b \in DOMAIN appts \ {a} : appts'[b] = appts[b]
<1>0. TypeOK /\ TypeInv /\ Ages /\ KnownClients /\ Carried /\ FirstVisits
  BY DEF ReportInv, TypeInv
<1>1. PICK a \in AptIds, row \in Row :
        /\ Store(a, row)
        /\ txn[t].op = "book" => a \notin DOMAIN appts /\ row = txn[t].row
        /\ txn[t].op # "book" => a = txn[t].apt /\ a \in DOMAIN appts /\ row = NewRow(t)
        /\ a \in DOMAIN appts => /\ row.service = appts[a].service
                                 /\ row.prof = appts[a].prof
        /\ DOMAIN appts' = DOMAIN appts \cup {a}
        /\ DOMAIN appts' \subseteq AptIds
        /\ appts' \in [DOMAIN appts' -> Row]
        /\ appts'[a] = row
        /\ \A b \in DOMAIN appts \ {a} : appts'[b] = appts[b]
  BY <1>0, StoresRow
<1>2. /\ \A c \in DOMAIN since : c \in DOMAIN since' /\ since'[c] = since[c]
      /\ since' = [c \in DOMAIN visits' |-> IF c \in DOMAIN since THEN since[c] ELSE made[t]]
  BY AgendaAges DEF Agenda
<1>3. CASE txn[t].op = "book"
  <2>1. DOMAIN visits' = DOMAIN visits \cup {row.client} /\ txn[t].pc = "flush"
    BY <1>0, <1>1, <1>3, StoresClient DEF StoresOne
  <2>2. CreatedAt(t) < row.start
    BY <1>0, <1>1, <1>3, <2>1 DEF FirstVisits
  <2>3. row.client \in DOMAIN since' /\ since'[row.client] = CreatedAt(t)
    BY <1>1, <1>2, <1>3, <2>1 DEF CreatedAt
  <2> QED BY <1>1, <1>3, <2>2, <2>3
<1>4. CASE txn[t].op # "book"
  <2>1. /\ txn[t].pc # "idle" /\ appts[txn[t].apt] \in Row /\ a = txn[t].apt
        /\ a \in DOMAIN appts /\ row = NewRow(t)
        /\ NewRow(t).client = appts[txn[t].apt].client
        /\ NewRow(t).start
             = IF "start" \in Written(t) THEN txn[t].row.start ELSE appts[txn[t].apt].start
    BY <1>0, <1>1, <1>4, NewRowTyped
  <2>2. row.client = appts[a].client
    BY <2>1
  <2>3. /\ appts[a].client \in DOMAIN since /\ since[appts[a].client] < appts[a].start
        /\ txn[t].row.client = appts[a].client
    BY <1>0, <1>4, <2>1 DEF KnownClients, Carried, Carries
  <2>4. row.client \in DOMAIN since' /\ since'[row.client] = since[appts[a].client]
    BY <1>2, <2>2, <2>3
  <2>5. since[appts[a].client] < row.start
    <3>1. CASE "start" \in Written(t)
      <4>1. txn[t].op \in Merges
        BY <3>1 DEF Written
      <4>2. since[appts[a].client] < txn[t].row.start
        BY <1>0, <1>4, <2>1, <2>3, <4>1 DEF StoresOne, Carried, Carries
      <4>3. row.start = txn[t].row.start
        BY <2>1, <3>1
      <4> QED BY <4>2, <4>3
    <3>2. CASE "start" \notin Written(t)
      <4>1. row.start = appts[a].start
        BY <2>1, <3>2
      <4> QED BY <2>3, <4>1
    <3> QED BY <3>1, <3>2
  <2>6. since'[row.client] < row.start
    BY <2>4, <2>5
  <2> QED BY <1>1, <2>2, <2>4, <2>6
<1> QED BY <1>3, <1>4

\* What booking does keeps clients older than their appointments, in the tables and
\* in the requests under way.
LEMMA AgendaCarries ==
  ASSUME NEW t \in Txns, ReportInv, Agenda(t)
  PROVE  /\ KnownClients' /\ Carried'
         /\ \A a \in DOMAIN appts : a \in DOMAIN appts' /\ appts'[a].client = appts[a].client
<1>0. TypeInv /\ TypeOK /\ Targets /\ Ages /\ KnownClients /\ Carried
  BY DEF ReportInv, TypeInv
<1>1. /\ Ages'
      /\ \A c \in DOMAIN since : c \in DOMAIN since' /\ since'[c] = since[c]
  BY AgendaAges
<1>2. /\ now' = now
      /\ \A u \in Txns \ {t} : txn'[u] = txn[u]
      /\ \/ appts' = appts /\ visits' = visits
         \/ Step(t) /\ StoresOne(t)
  BY <1>0, AgendaLeaves DEF Agenda
<1>3. /\ KnownClients'
      /\ \A a \in DOMAIN appts : a \in DOMAIN appts' /\ appts'[a].client = appts[a].client
  <2>1. CASE appts' = appts
    BY <1>0, <1>1, <2>1 DEF KnownClients
  <2>2. CASE Step(t) /\ StoresOne(t)
    <3>1. PICK a \in AptIds, row \in Row :
            /\ a \in DOMAIN appts => row.client = appts[a].client
            /\ row.client \in DOMAIN since' /\ since'[row.client] < row.start
            /\ DOMAIN appts' = DOMAIN appts \cup {a}
            /\ appts'[a] = row
            /\ \A b \in DOMAIN appts \ {a} : appts'[b] = appts[b]
      BY <2>2, StoresKnown
    <3>2. ASSUME NEW b \in DOMAIN appts'
          PROVE  /\ appts'[b].client \in DOMAIN since'
                 /\ since'[appts'[b].client] < appts'[b].start
      <4>1. CASE b = a
        BY <3>1, <4>1
      <4>2. CASE b # a
        BY <1>0, <1>1, <3>1, <4>2 DEF KnownClients
      <4> QED BY <4>1, <4>2
    <3> QED BY <3>1, <3>2 DEF KnownClients
  <2> QED BY <1>2, <2>1, <2>2
<1>4. ASSUME NEW q, Carries(q), q.op # "book" => q.apt \in DOMAIN appts
      PROVE  Carries(q)'
  BY <1>1, <1>3, <1>4 DEF Carries
<1>5. ASSUME NEW u \in Txns \ {t}, txn'[u].pc # "idle"
      PROVE  Carries(txn[u])'
  <2>1. PICK q : q = txn[u] /\ q = txn'[u]
    BY <1>2
  <2>2. Carries(q) /\ (q.op # "book" => q.apt \in DOMAIN appts)
    BY <1>0, <1>5, <2>1 DEF Carried, Targets
  <2>3. Carries(q)'
    BY <1>4, <2>2
  <2> QED BY <2>1, <2>3 DEF Carries
<1>6. ASSUME txn'[t].pc # "idle"
      PROVE  Carries(txn[t])'
  <2>1. PICK q : q = txn'[t]
    OBVIOUS
  <2>2. Carries(q) /\ (q.op # "book" => q.apt \in DOMAIN appts)
    <3>1. CASE \E p : Begin(t, p) /\ ArrivesKnown(p)
      <4>1. PICK p : Begin(t, p) /\ ArrivesKnown(p)
        BY <3>1
      <4>2. txn'[t] = p /\ appts' = appts
        BY <1>0, <4>1, BeginLeaves
      <4>3. TypeInv'
        BY ReportSteps, TypeInvNext DEF ReportInv, Agenda, ReportNext
      <4> QED BY <1>6, <2>1, <4>1, <4>2, <4>3 DEF ArrivesKnown, TypeInv, Targets
    <3>2. CASE Step(t) /\ GoesOn(t)
      <4>1. /\ txn[t].pc # "idle" /\ txn'[t].op = txn[t].op /\ txn'[t].row = txn[t].row
            /\ txn'[t].apt = txn[t].apt /\ (txn'[t].pc = "flush" => txn[t].pc = "write")
            /\ txn[t] \in Request
        BY <1>0, <3>2, GoesOnLeaves
      <4>2. Carries(txn[t]) /\ (txn[t].op # "book" => txn[t].apt \in DOMAIN appts)
        BY <1>0, <4>1 DEF Carried, Targets
      <4>3. ASSUME txn[t].op \in Moves, txn'[t].pc = "flush"
            PROVE  since[txn[t].row.client] < txn[t].row.start
        <5>1. txn[t].row.start > now /\ txn[t].op # "book"
          BY <1>0, <3>2, <4>3, GoesOnInTime DEF Moves
        <5>2. since[txn[t].row.client] \in Nat /\ since[txn[t].row.client] <= now
          BY <1>0, <4>2, <5>1 DEF Carries, Ages
        <5>3. txn[t].row.start \in Nat /\ now \in Nat
          BY <1>0, <4>1, BookingAssumption DEF Request, Row, TypeOK
        <5> QED BY <5>1, <5>2, <5>3
      <4> QED BY <2>1, <4>1, <4>2, <4>3 DEF Carries
    <3>3. CASE Rollback(t) \/ (Step(t) /\ StoresOne(t))
      BY <1>0, <1>6, <3>3, EndTyped DEF Rollback, StoresOne
    <3> QED BY <1>0, <3>1, <3>2, <3>3, AgendaKinds DEF Agenda
  <2>3. Carries(q)'
    BY <1>4, <2>2
  <2> QED BY <2>1, <2>3 DEF Carries
<1>7. Carried'
  BY <1>5, <1>6 DEF Carried
<1> QED BY <1>3, <1>7

\* What the reports read is well founded from the start, and stays so.
LEMMA ReportInvInit == ReportInit => ReportInv
<1> SUFFICES ASSUME ReportInit PROVE ReportInv
  OBVIOUS
<1>1. TypeInv
  BY TypeInvInit DEF ReportInit
<1>2. Ages /\ KnownClients /\ Carried /\ FirstVisits /\ OneInserter
  BY DEF ReportInit, Init, Idle, Ages, KnownClients, Carried, FirstVisits, OneInserter, Inserts
<1> QED BY <1>1, <1>2 DEF ReportInv

\* Every step of the reports keeps the invariant.
LEMMA ReportInvNext == ReportInv /\ [ReportNext]_<<vars, reportVars>> => ReportInv'
<1> SUFFICES ASSUME ReportInv, [ReportNext]_<<vars, reportVars>> PROVE ReportInv'
  OBVIOUS
<1>1. TypeInv'
  BY ReportSteps, TypeInvNext DEF ReportInv
<1>2. CASE \E t \in Txns : Agenda(t)
  BY <1>1, <1>2, AgendaAges, AgendaCarries, AgendaFirstVisits, AgendaInserts DEF ReportInv
<1>3. ASSUME UNCHANGED <<appts, visits, txn, since, made>>, now' = now \/ now' = now + 1
      PROVE  Ages' /\ KnownClients' /\ Carried' /\ FirstVisits' /\ OneInserter'
  <2>1. KnownClients' /\ Carried'
    BY <1>3 DEF ReportInv, KnownClients, Carried, Carries
  <2>2. FirstVisits' /\ OneInserter'
    BY <1>3 DEF ReportInv, FirstVisits, CreatedAt, OneInserter, Inserts
  <2>3. now \in Nat
    BY BookingAssumption DEF ReportInv, TypeInv, TypeOK
  <2>4. Ages'
    BY <1>3, <2>3 DEF ReportInv, Ages
  <2> QED BY <2>1, <2>2, <2>4
<1>4. CASE Later
  <2>1. UNCHANGED <<appts, visits, txn, since, made>> /\ now' = now + 1
    BY <1>4 DEF Later, Tick, reportVars
  <2> QED BY <1>1, <1>3, <2>1 DEF ReportInv
<1>5. CASE AskSummary \/ ReadPrevious \/ ReadNew \/ ReadReturning \/ EditPrice
  <2>1. UNCHANGED <<appts, visits, txn, since, made>> /\ now' = now
    BY <1>5 DEF AskSummary, ReadPrevious, ReadNew, ReadReturning, Read, EditPrice, vars
  <2> QED BY <1>1, <1>3, <2>1 DEF ReportInv
<1>6. CASE UNCHANGED <<vars, reportVars>>
  <2>1. UNCHANGED <<appts, visits, txn, since, made>> /\ now' = now
    BY <1>6 DEF vars, reportVars
  <2> QED BY <1>1, <1>3, <2>1 DEF ReportInv
<1> QED BY <1>2, <1>4, <1>5, <1>6 DEF ReportNext

\* What the reports of one range say about a period is one story, whoever writes and
\* in whatever order: by day, hour, professional, status, service and client the
\* appointments, and the money where it is told, add up to the summary, no list of as
\* many entries is larger than a top list, adjacent periods add up, what the five
\* counters leave out is what was rescheduled, and every client is either new or
\* returning.
THEOREM ReportsTellOneStory == ReportSpec => []ReportsAgree
<1>1. ReportInv => ReportsAgree
  BY ReportsAgreeNow DEF ReportInv, TypeInv
<1> QED BY <1>1, ReportInvInit, ReportInvNext, PTL DEF ReportSpec

----------------------------------------------------------------------------
(* Reports: the four statements of a summary.                              *)

\* A table of well-formed rows.
Table(f) == IsFiniteSet(DOMAIN f) /\ \A a \in DOMAIN f : f[a] \in Row

\* The table of appointments is one, before and after a step.
LEMMA TablesAround ==
  ASSUME TypeOK, TypeOK'
  PROVE  Table(appts) /\ Table(appts')
<1>1. /\ DOMAIN appts \subseteq AptIds /\ DOMAIN appts' \subseteq AptIds /\ IsFiniteSet(AptIds)
  BY BookingAssumption DEF TypeOK
<1>2. IsFiniteSet(DOMAIN appts) /\ IsFiniteSet(DOMAIN appts')
  BY <1>1, FS_Subset
<1> QED BY <1>2 DEF TypeOK, Table

\* The clients of a range are finitely many.
LEMMA ClienteleFinite ==
  ASSUME NEW f, Table(f), NEW r
  PROVE  IsFiniteSet(Clientele(f, r))
<1> DEFINE B == {b \in DOMAIN f : Within(f[b], r)}
           g == [b \in B |-> f[b].client]
<1>1. IsFiniteSet(B)
  BY FS_Subset DEF Table
<1>2. g \in Surjection(B, Clientele(f, r))
  BY DEF Surjection, Clientele
<1> HIDE DEF B, g
<1> QED BY <1>1, <1>2, FS_Surjection

\* Of the clients C, those made in a range or since, and those made before it.
Young(C, r) == {c \in C : since[c] >= r.from}
Old(C, r)   == {c \in C : ~(since[c] >= r.from)}

\* A smaller set of clients has fewer of both.
LEMMA FewerClients ==
  ASSUME NEW C, IsFiniteSet(C), NEW D \in SUBSET C, NEW r
  PROVE  /\ Cardinality(Young(D, r)) <= Cardinality(Young(C, r))
         /\ Cardinality(Old(D, r)) <= Cardinality(Old(C, r))
         /\ Cardinality(Young(C, r)) \in Nat /\ Cardinality(Old(C, r)) \in Nat
         /\ Cardinality(Young(D, r)) \in Nat /\ Cardinality(Old(D, r)) \in Nat
         /\ Cardinality(C) = Cardinality(Young(C, r)) + Cardinality(Old(C, r))
<1>1. /\ Young(D, r) \subseteq Young(C, r) /\ Young(C, r) \subseteq C
      /\ Old(D, r) \subseteq Old(C, r) /\ Old(C, r) \subseteq C
      /\ Young(C, r) \cup Old(C, r) = C /\ Young(C, r) \cap Old(C, r) = {}
  BY DEF Young, Old
<1>2. /\ IsFiniteSet(Young(C, r)) /\ IsFiniteSet(Old(C, r))
      /\ IsFiniteSet(Young(D, r)) /\ IsFiniteSet(Old(D, r))
  BY <1>1, FS_Subset
<1>3. Cardinality(Young(C, r) \cup Old(C, r))
        = Cardinality(Young(C, r)) + Cardinality(Old(C, r)) - Cardinality(Young(C, r) \cap Old(C, r))
  BY <1>2, FS_Union
<1>4. Cardinality(Young(C, r) \cap Old(C, r)) = 0
  BY <1>1, FS_EmptySet
<1>5. /\ Cardinality(Young(C, r)) \in Nat /\ Cardinality(Old(C, r)) \in Nat
      /\ Cardinality(Young(D, r)) \in Nat /\ Cardinality(Old(D, r)) \in Nat
  BY <1>2, FS_CardinalityType
<1>6. /\ Cardinality(Young(D, r)) <= Cardinality(Young(C, r))
      /\ Cardinality(Old(D, r)) <= Cardinality(Old(C, r))
  BY <1>1, <1>2, FS_Subset
<1>7. Cardinality(C) = Cardinality(Young(C, r)) + Cardinality(Old(C, r))
  <2>1. PICK y, o : y = Young(C, r) /\ o = Old(C, r)
    OBVIOUS
  <2>2. Cardinality(y \cup o) = Cardinality(y) + Cardinality(o) - 0
    BY <1>3, <1>4, <2>1
  <2>3. y \cup o = C /\ Cardinality(y) \in Nat /\ Cardinality(o) \in Nat
    BY <1>1, <1>5, <2>1
  <2>4. Cardinality(C) = Cardinality(y) + Cardinality(o)
    BY <2>2, <2>3
  <2> QED BY <2>1, <2>4
<1> QED BY <1>5, <1>6, <1>7

\* The two statements about clients divide those who have an appointment in the range.
LEMMA ClienteleSplit ==
  ASSUME TypeOK, Ages, KnownClients, NEW r, Proper(r)
  PROVE  /\ NewClients(r) = Young(Clientele(appts, r), r)
         /\ ReturningClients(r) = Old(Clientele(appts, r), r)
         /\ Clientele(appts, r) \subseteq DOMAIN since
<1>1. ASSUME NEW a \in In(r)
      PROVE  /\ appts[a].client \in DOMAIN since
             /\ since[appts[a].client] < r.to
             /\ since[appts[a].client] >= r.from <=> ~(since[appts[a].client] < r.from)
  <2>1. /\ a \in DOMAIN appts /\ appts[a].start < r.to
        /\ appts[a].start \in Nat
    BY RangeFinite, BookingAssumption DEF In, Within, Row
  <2>2. /\ appts[a].client \in DOMAIN since
        /\ since[appts[a].client] < appts[a].start
        /\ since[appts[a].client] \in Nat
    BY <2>1 DEF KnownClients, Ages
  <2> QED BY <2>1, <2>2 DEF Proper
<1>2. \A c : c \in Clientele(appts, r) <=> \E a \in In(r) : appts[a].client = c
  BY DEF Clientele, In
<1>3. Clientele(appts, r) \subseteq DOMAIN since
  BY <1>1, <1>2
<1>4. NewClients(r) = Young(Clientele(appts, r), r)
  BY <1>1, <1>2, <1>3 DEF NewClients, Young
<1>5. ReturningClients(r) = Old(Clientele(appts, r), r)
  BY <1>1, <1>2, <1>3 DEF ReturningClients, Old
<1> QED BY <1>3, <1>4, <1>5

\* The fields that a summary has by now.
Fields(pc) ==
  {"pc"} \cup (IF pc = "none" THEN {} ELSE {"range", "kept", "met"})
         \cup (IF pc \in {"returning", "done"} THEN {"new"} ELSE {})
         \cup (IF pc = "done" THEN {"returning"} ELSE {})

\* Whom a summary is about: clients who are there, between those who kept an
\* appointment and those who had one.
About(s) ==
  /\ Proper(s.range)
  /\ s.kept \subseteq Clientele(appts, s.range)
  /\ Clientele(appts, s.range) \subseteq s.met
  /\ s.met \subseteq DOMAIN since
  /\ IsFiniteSet(s.met)

\* What it has counted of them so far.
Brackets(s) ==
  /\ s.pc = "returning" =>
       /\ s.new \in Nat
       /\ Cardinality(Young(s.kept, s.range)) <= s.new
       /\ s.new <= Cardinality(Young(s.met, s.range))
  /\ s.pc = "done" =>
       /\ s.new + s.returning \in Nat
       /\ Cardinality(s.kept) <= s.new + s.returning
       /\ s.new + s.returning <= Cardinality(s.met)

SummaryInv ==
  /\ summary.pc \in {"none", "previous", "new", "returning", "done"}
  /\ Fields(summary.pc) \subseteq DOMAIN summary
  /\ summary.pc # "none" => About(summary) /\ Brackets(summary)

\* A summary that has taken another statement.
LEMMA ReadTakes ==
  ASSUME SummaryInv, NEW step \in {"previous", "new", "returning"},
         NEW next \in {"new", "returning", "done"},
         NEW name \in {"previous", "new", "returning"}, NEW answer,
         Read(step, next, name, answer),
         Fields(next) \subseteq Fields(step) \cup {name}
  PROVE  /\ summary.pc = step /\ summary'.pc = next
         /\ summary'[name] = answer
         /\ Fields(next) \subseteq DOMAIN summary'
         /\ \A x \in DOMAIN summary \ {"pc", name} : summary'[x] = summary[x]
         /\ summary'.range = summary.range /\ summary'.kept = summary.kept
         /\ summary'.met = summary.met
         /\ {"range", "kept", "met"} \subseteq DOMAIN summary
         /\ UNCHANGED <<appts, since>>
<1>1. /\ summary.pc = step
      /\ summary' = [x \in DOMAIN summary \cup {name} |->
                       IF x = "pc" THEN next ELSE IF x = name THEN answer ELSE summary[x]]
      /\ UNCHANGED <<appts, since>>
  BY DEF Read, vars
<1>2. Fields(step) \subseteq DOMAIN summary /\ {"pc", "range", "kept", "met"} \subseteq Fields(step)
  BY <1>1 DEF SummaryInv, Fields
<1> QED BY <1>1, <1>2

\* Asking, and each of the three statements that follow.
LEMMA SummaryReads ==
  ASSUME ReportInv, SummaryInv, AskSummary \/ ReadPrevious \/ ReadNew \/ ReadReturning
  PROVE  SummaryInv'
<1>0. TypeOK /\ Ages /\ KnownClients
  BY DEF ReportInv, TypeInv
<1>1. CASE AskSummary
  <2>1. PICK from \in Days \cup {NoDay}, to \in Days \cup {NoDay} :
          /\ FirstOf(from, to) <= LastOf(to)
          /\ summary' = [pc |-> "previous", range |-> RangeOf(from, to),
                         block |-> SummaryBlock(RangeOf(from, to)),
                         kept |-> Clientele(appts, RangeOf(from, to)),
                         met |-> Clientele(appts, RangeOf(from, to))]
    BY <1>1 DEF AskSummary
  <2>2. PICK r, block, C : /\ r = RangeOf(from, to) /\ block = SummaryBlock(r)
                           /\ C = Clientele(appts, r)
    OBVIOUS
  <2>3. summary' = [pc |-> "previous", range |-> r, block |-> block, kept |-> C, met |-> C]
    BY <2>1, <2>2
  <2>4. /\ summary'.pc = "previous" /\ summary'.range = r /\ summary'.kept = C /\ summary'.met = C
        /\ Fields("previous") \subseteq DOMAIN summary'
    BY <2>3 DEF Fields
  <2>5. Proper(r)
    BY <1>0, <2>1, <2>2, RangeProper
  <2>6. C \subseteq DOMAIN since
    BY <1>0, <2>2, <2>5, ClienteleSplit
  <2>7. IsFiniteSet(C)
    <3>1. Table(appts)
      BY <1>0, RangeFinite DEF Table
    <3> QED BY <2>2, <3>1, ClienteleFinite
  <2>8. appts' = appts /\ since' = since
    BY <1>1 DEF AskSummary, vars
  <2>9. Clientele(appts', r) = C
    BY <2>2, <2>8
  <2>10. About(summary)'
    BY <2>4, <2>5, <2>6, <2>7, <2>8, <2>9 DEF About
  <2>11. Brackets(summary)'
    BY <2>4 DEF Brackets
  <2> QED BY <2>4, <2>10, <2>11 DEF SummaryInv
<1>2. ASSUME summary.pc \in {"previous", "new", "returning"},
             UNCHANGED <<appts, since>>,
             summary'.range = summary.range, summary'.kept = summary.kept,
             summary'.met = summary.met
      PROVE  About(summary)'
  <2>1. About(summary)
    BY <1>2 DEF SummaryInv
  <2>2. PICK s : s = summary'
    OBVIOUS
  <2>3. s.range = summary.range /\ s.kept = summary.kept /\ s.met = summary.met
    BY <1>2, <2>2
  <2>4. About(s)
    BY <2>1, <2>3 DEF About
  <2>5. About(s)'
    BY <1>2, <2>4 DEF About
  <2> QED BY <2>2, <2>5 DEF About
<1>3. CASE ReadPrevious
  <2>1. PICK answer : Read("previous", "new", "previous", answer)
    BY <1>3 DEF ReadPrevious
  <2>2. Fields("new") \subseteq Fields("previous") \cup {"previous"}
    BY DEF Fields
  <2>3. /\ summary.pc = "previous" /\ summary'.pc = "new"
        /\ Fields("new") \subseteq DOMAIN summary'
        /\ summary'.range = summary.range /\ summary'.kept = summary.kept
        /\ summary'.met = summary.met /\ UNCHANGED <<appts, since>>
    BY <2>1, <2>2, ReadTakes
  <2>4. Brackets(summary)'
    BY <2>3 DEF Brackets
  <2> QED BY <1>2, <2>3, <2>4 DEF SummaryInv
<1>4. CASE ReadNew
  <2>1. PICK answer : /\ Read("new", "returning", "new", answer)
                      /\ answer = Cardinality(NewClients(summary.range))
    BY <1>4 DEF ReadNew
  <2>2. Fields("returning") \subseteq Fields("new") \cup {"new"}
    BY DEF Fields
  <2>3. /\ summary.pc = "new" /\ summary'.pc = "returning" /\ summary'.new = answer
        /\ Fields("returning") \subseteq DOMAIN summary'
        /\ summary'.range = summary.range /\ summary'.kept = summary.kept
        /\ summary'.met = summary.met /\ UNCHANGED <<appts, since>>
    BY <2>1, <2>2, ReadTakes
  <2>4. PICK r, K, M, C : /\ r = summary.range /\ K = summary.kept /\ M = summary.met
                          /\ C = Clientele(appts, r)
    OBVIOUS
  <2>5. /\ Proper(r) /\ K \subseteq C /\ C \subseteq M /\ IsFiniteSet(M)
    BY <2>3, <2>4 DEF SummaryInv, About
  <2>6. answer = Cardinality(Young(C, r))
    BY <1>0, <2>1, <2>4, <2>5, ClienteleSplit
  <2>7. /\ IsFiniteSet(C) /\ K \in SUBSET C /\ C \in SUBSET M
    BY <2>5, FS_Subset
  <2>8. /\ Cardinality(Young(K, r)) <= answer /\ answer <= Cardinality(Young(M, r))
        /\ answer \in Nat
    BY <2>5, <2>6, <2>7, FewerClients
  <2>9. Brackets(summary)'
    <3>1. Young(K, r)' = Young(K, r) /\ Young(M, r)' = Young(M, r)
      BY <2>3 DEF Young
    <3>2. /\ summary'.pc = "returning" /\ summary'.new = answer /\ summary'.range = r
          /\ summary'.kept = K /\ summary'.met = M
      BY <2>3, <2>4
    <3>3. /\ Young(summary.kept, summary.range)' = Young(K, r)'
          /\ Young(summary.met, summary.range)' = Young(M, r)'
      BY <3>2 DEF Young
    <3> QED BY <2>8, <3>1, <3>2, <3>3 DEF Brackets
  <2> QED BY <1>2, <2>3, <2>9 DEF SummaryInv
<1>5. CASE ReadReturning
  <2>1. PICK answer : /\ Read("returning", "done", "returning", answer)
                      /\ answer = Cardinality(ReturningClients(summary.range))
    BY <1>5 DEF ReadReturning
  <2>2. Fields("done") \subseteq Fields("returning") \cup {"returning"}
    BY DEF Fields
  <2>3. /\ summary.pc = "returning" /\ summary'.pc = "done" /\ summary'.returning = answer
        /\ Fields("done") \subseteq DOMAIN summary'
        /\ summary'.range = summary.range /\ summary'.kept = summary.kept
        /\ summary'.met = summary.met /\ UNCHANGED <<appts, since>>
        /\ \A x \in DOMAIN summary \ {"pc", "returning"} : summary'[x] = summary[x]
    BY <2>1, <2>2, ReadTakes
  <2>4. PICK r, K, M, C : /\ r = summary.range /\ K = summary.kept /\ M = summary.met
                          /\ C = Clientele(appts, r)
    OBVIOUS
  <2>5. /\ Proper(r) /\ K \subseteq C /\ C \subseteq M /\ IsFiniteSet(M)
        /\ summary.new \in Nat
        /\ Cardinality(Young(K, r)) <= summary.new /\ summary.new <= Cardinality(Young(M, r))
    BY <2>3, <2>4 DEF SummaryInv, About, Brackets
  <2>6. answer = Cardinality(Old(C, r))
    BY <1>0, <2>1, <2>4, <2>5, ClienteleSplit
  <2>7. /\ IsFiniteSet(C) /\ IsFiniteSet(K) /\ K \in SUBSET C /\ C \in SUBSET M
        /\ K \in SUBSET K
    BY <2>5, FS_Subset
  <2>8. /\ Cardinality(Old(K, r)) <= answer /\ answer <= Cardinality(Old(M, r))
        /\ answer \in Nat /\ Cardinality(Old(K, r)) \in Nat /\ Cardinality(Old(M, r)) \in Nat
        /\ Cardinality(M) = Cardinality(Young(M, r)) + Cardinality(Old(M, r))
        /\ Cardinality(Young(M, r)) \in Nat
    BY <2>5, <2>6, <2>7, FewerClients
  <2>9. /\ Cardinality(K) = Cardinality(Young(K, r)) + Cardinality(Old(K, r))
        /\ Cardinality(Young(K, r)) \in Nat
    BY <2>7, FewerClients
  <2>10. "new" \in DOMAIN summary
    BY <2>3 DEF SummaryInv, Fields
  <2>11. /\ summary'.new = summary.new /\ summary'.kept = K /\ summary'.met = M
         /\ summary'.returning = answer /\ summary'.pc = "done"
    BY <2>3, <2>4, <2>10
  <2>12. PICK n : n = summary.new
    OBVIOUS
  <2>13. /\ n + answer \in Nat /\ Cardinality(K) <= n + answer /\ n + answer <= Cardinality(M)
    BY <2>5, <2>8, <2>9, <2>12
  <2>14. Brackets(summary)'
    BY <2>11, <2>12, <2>13 DEF Brackets
  <2> QED BY <1>2, <2>3, <2>14 DEF SummaryInv
<1> QED BY <1>1, <1>3, <1>4, <1>5

\* What the agenda does meanwhile.
LEMMA SummaryStands ==
  ASSUME ReportInv, ReportInv', SummaryInv, NEW t \in Txns, Agenda(t)
  PROVE  SummaryInv'
<1>1. CASE summary.pc = "none"
  <2>1. summary' = summary
    BY <1>1 DEF Agenda, Seen
  <2> QED BY <1>1, <2>1 DEF SummaryInv
<1>2. CASE summary.pc # "none"
  <2>1. PICK r, K, M, C, pc, E : /\ r = summary.range /\ K = summary.kept /\ M = summary.met
                                 /\ C = Clientele(appts, r) /\ pc = summary.pc
                                 /\ E = Clientele(appts', r)
    OBVIOUS
  <2>2. /\ Proper(r) /\ K \subseteq C /\ C \subseteq M /\ M \subseteq DOMAIN since
        /\ IsFiniteSet(M)
    BY <1>2, <2>1 DEF SummaryInv, About
  <2>3. summary' = [summary EXCEPT !.kept = K \cap E, !.met = M \cup E]
    BY <1>2, <2>1 DEF Agenda, Seen
  <2>4. /\ Fields(pc) \subseteq DOMAIN summary /\ {"pc", "range", "kept", "met"} \subseteq Fields(pc)
        /\ pc \in {"previous", "new", "returning", "done"}
    BY <1>2, <2>1 DEF SummaryInv, Fields
  <2>5. /\ DOMAIN summary' = DOMAIN summary
        /\ summary'.kept = K \cap E /\ summary'.met = M \cup E
        /\ \A x \in DOMAIN summary \ {"kept", "met"} : summary'[x] = summary[x]
    BY <2>3, <2>4
  <2>6. summary'.pc = pc /\ summary'.range = r
    BY <2>1, <2>4, <2>5
  <2>7. \A c \in DOMAIN since : c \in DOMAIN since' /\ since'[c] = since[c]
    BY AgendaAges
  <2>8. IsFiniteSet(E)
    <3>1. Table(appts')
      BY TablesAround DEF ReportInv, TypeInv
    <3> QED BY <2>1, <3>1, ClienteleFinite
  <2>9. E \subseteq DOMAIN since'
    <3>1. \A a \in DOMAIN appts' : appts'[a].client \in DOMAIN since'
      BY DEF ReportInv, KnownClients
    <3> QED BY <2>1, <3>1 DEF Clientele
  <2>10. IsFiniteSet(M \cup E) /\ M \cup E \subseteq DOMAIN since'
    BY <2>2, <2>7, <2>8, <2>9, FS_Union
  <2>11. About(summary)'
    <3>1. Clientele(appts, summary.range)' = E
      BY <2>1, <2>6
    <3> QED BY <2>2, <2>5, <2>6, <2>10, <3>1 DEF About
  <2>12. PICK YK, YM : YK = Young(K \cap E, r)' /\ YM = Young(M \cup E, r)'
    OBVIOUS
  <2>13. /\ YK \subseteq Young(K, r) /\ Young(M, r) \subseteq YM /\ YM \subseteq M \cup E
    BY <2>2, <2>7, <2>12 DEF Young
  <2>14. /\ IsFiniteSet(K) /\ IsFiniteSet(Young(K, r)) /\ IsFiniteSet(YM)
    BY <2>2, <2>10, <2>13, FS_Subset DEF Young
  <2>15. /\ Cardinality(YK) <= Cardinality(Young(K, r))
         /\ Cardinality(Young(M, r)) <= Cardinality(YM)
         /\ Cardinality(K \cap E) <= Cardinality(K)
         /\ Cardinality(M) <= Cardinality(M \cup E)
    BY <2>10, <2>13, <2>14, FS_Subset
  <2>16. /\ Cardinality(YK) \in Nat /\ Cardinality(Young(K, r)) \in Nat
         /\ Cardinality(Young(M, r)) \in Nat /\ Cardinality(YM) \in Nat
         /\ Cardinality(K \cap E) \in Nat /\ Cardinality(K) \in Nat
         /\ Cardinality(M) \in Nat /\ Cardinality(M \cup E) \in Nat
    <3>1. IsFiniteSet(YK) /\ IsFiniteSet(Young(M, r)) /\ IsFiniteSet(K \cap E)
      BY <2>13, <2>14, FS_Subset
    <3> QED BY <2>2, <2>10, <2>14, <3>1, FS_CardinalityType
  <2>17. Brackets(summary)'
    <3>1. ASSUME pc = "returning"
          PROVE  /\ summary'.new = summary.new /\ summary.new \in Nat
                 /\ Cardinality(YK) <= summary.new /\ summary.new <= Cardinality(YM)
      <4>1. "new" \in DOMAIN summary
        BY <2>4, <3>1 DEF Fields
      <4>2. summary'.new = summary.new
        BY <2>5, <4>1
      <4>3. /\ summary.new \in Nat
            /\ Cardinality(Young(K, r)) <= summary.new /\ summary.new <= Cardinality(Young(M, r))
        BY <1>2, <2>1, <3>1 DEF SummaryInv, Brackets
      <4>4. PICK n : n = summary.new
        OBVIOUS
      <4> QED BY <2>15, <2>16, <4>2, <4>3, <4>4
    <3>2. ASSUME pc = "done"
          PROVE  /\ summary'.new + summary'.returning \in Nat
                 /\ Cardinality(K \cap E) <= summary'.new + summary'.returning
                 /\ summary'.new + summary'.returning <= Cardinality(M \cup E)
      <4>1. "new" \in DOMAIN summary /\ "returning" \in DOMAIN summary
        BY <2>4, <3>2 DEF Fields
      <4>2. summary'.new = summary.new /\ summary'.returning = summary.returning
        BY <2>5, <4>1
      <4>3. /\ summary.new + summary.returning \in Nat
            /\ Cardinality(K) <= summary.new + summary.returning
            /\ summary.new + summary.returning <= Cardinality(M)
        BY <1>2, <2>1, <3>2 DEF SummaryInv, Brackets
      <4>4. PICK n : n = summary.new + summary.returning
        OBVIOUS
      <4>5. n \in Nat /\ Cardinality(K \cap E) <= n /\ n <= Cardinality(M \cup E)
        BY <2>15, <2>16, <4>3, <4>4
      <4> QED BY <4>2, <4>4, <4>5
    <3>3. /\ Young(summary.kept, summary.range)' = YK
          /\ Young(summary.met, summary.range)' = YM
      <4>1. Young(summary.kept, summary.range)' = Young(K \cap E, r)'
        BY <2>5, <2>6 DEF Young
      <4>2. Young(summary.met, summary.range)' = Young(M \cup E, r)'
        BY <2>5, <2>6 DEF Young
      <4> QED BY <2>12, <4>1, <4>2
    <3> QED BY <2>5, <2>6, <3>1, <3>2, <3>3 DEF Brackets
  <2> QED BY <2>4, <2>5, <2>6, <2>11, <2>17 DEF SummaryInv
<1> QED BY <1>1, <1>2

\* Every step keeps what a summary has counted within its bounds.
LEMMA SummaryInvNext ==
  ReportInv /\ ReportInv' /\ SummaryInv /\ [ReportNext]_<<vars, reportVars>> => SummaryInv'
<1> SUFFICES ASSUME ReportInv, ReportInv', SummaryInv, [ReportNext]_<<vars, reportVars>>
             PROVE  SummaryInv'
  OBVIOUS
<1>1. CASE AskSummary \/ ReadPrevious \/ ReadNew \/ ReadReturning
  BY <1>1, SummaryReads
<1>2. CASE \E t \in Txns : Agenda(t)
  BY <1>2, SummaryStands
<1>3. CASE EditPrice \/ Later \/ UNCHANGED <<vars, reportVars>>
  <2>1. UNCHANGED <<appts, since, summary>>
    BY <1>3 DEF EditPrice, Later, Tick, vars, reportVars
  <2> QED BY <2>1 DEF SummaryInv, About, Brackets, Young
<1> QED BY <1>1, <1>2, <1>3 DEF ReportNext

\* The clients that a summary counts, by two statements over an agenda that goes on,
\* are never fewer than those who had an appointment in its range all the time, nor
\* more than those who had one at some moment: for every range, every interleaving
\* and any number of writers.
THEOREM SummaryIsBracketed == ReportSpec => []SummaryBrackets
<1>1. ReportInit => SummaryInv
  BY DEF ReportInit, NoSummary, SummaryInv, Fields
<1>2. SummaryInv => SummaryBrackets
  BY DEF SummaryInv, Brackets, SummaryBrackets
<1> QED BY <1>1, <1>2, ReportInvInit, ReportInvNext, SummaryInvNext, PTL DEF ReportSpec

----------------------------------------------------------------------------
(* Reports: what moves the revenue of a period.                            *)

\* What a table of appointments f says that a period has taken.
Taking(f, r) ==
  {a \in {b \in DOMAIN f : Within(f[b], r)} : f[a].status = "completed" /\ f[a].amount # NoAmount}

Collected(f) == [a \in DOMAIN f |-> f[a].amount]

RevenueOf(f, r) == Sum(Collected(f), Taking(f, r))

\* What a period takes is a finite sum of natural numbers.
LEMMA TakingNat ==
  ASSUME NEW f, Table(f), NEW r
  PROVE  /\ IsFiniteSet(Taking(f, r)) /\ Taking(f, r) \subseteq DOMAIN f
         /\ \A a \in Taking(f, r) : Collected(f)[a] \in Nat /\ Collected(f)[a] = f[a].amount
<1>1. Taking(f, r) \subseteq DOMAIN f
  BY DEF Taking
<1>2. IsFiniteSet(Taking(f, r))
  BY <1>1, FS_Subset DEF Table
<1>3. ASSUME NEW a \in Taking(f, r)
      PROVE  Collected(f)[a] \in Nat /\ Collected(f)[a] = f[a].amount
  <2>1. f[a] \in Row /\ f[a].amount # NoAmount /\ Collected(f)[a] = f[a].amount
    BY <1>1 DEF Table, Taking, Collected
  <2>2. f[a].amount \in Amounts
    BY <2>1 DEF Row
  <2> QED BY <2>1, <2>2, ReportAssumption
<1> QED BY <1>1, <1>2, <1>3

\* Two tables that differ in one row: the one where it pays nothing has no more.
LEMMA RevenueOfOneLess ==
  ASSUME NEW f, NEW g, Table(f), Table(g), NEW r, NEW x,
         DOMAIN f \ {x} = DOMAIN g \ {x}, \A a \in DOMAIN f \ {x} : f[a] = g[a],
         x \notin Taking(g, r)
  PROVE  RevenueOf(g, r) <= RevenueOf(f, r)
<1> DEFINE P == Taking(f, r)
           Q == Taking(g, r)
<1>1. Q \subseteq P
  BY DEF Taking
<1>2. /\ IsFiniteSet(P) /\ \A a \in P : Collected(f)[a] \in Nat /\ Collected(f)[a] = f[a].amount
      /\ IsFiniteSet(Q) /\ \A a \in Q : Collected(g)[a] = g[a].amount
      /\ P \subseteq DOMAIN f
  BY TakingNat
<1>3. \A a \in Q : Collected(g)[a] = Collected(f)[a]
  BY <1>1, <1>2
<1> HIDE DEF P, Q
<1>4. Sum(Collected(g), Q) = Sum(Collected(f), Q)
  BY <1>2, <1>3, SumSame
<1>5. Sum(Collected(f), Q) <= Sum(Collected(f), P)
  BY <1>1, <1>2, SumOfMore
<1> QED BY <1>4, <1>5 DEF RevenueOf, P, Q

\* A month that has been reported is rewritten only by closing an appointment of it,
\* or by a stale request over one that had been closed: for every range, every
\* interleaving and every mix of writers.
THEOREM RevenueIsMovedByClosing == ReportSpec => RevenueMovesByClosing
<1> DEFINE Ranges == {RangeOf(asked[1], asked[2]) : asked \in Asked \ {<<NoDay, NoDay>>}}
           Moved0 == \A r \in Ranges :
             /\ Revenue(In(r))' > Revenue(In(r)) =>
                  \E a \in DOMAIN appts : /\ appts'[a].status = "completed"
                                          /\ appts'[a] # appts[a]
                                          /\ Within(appts'[a], r)
             /\ Revenue(In(r))' < Revenue(In(r)) =>
                  \E t \in Txns : /\ txn[t].pc \in {"write", "flush"}
                                  /\ txn'[t].pc = "idle"
                                  /\ txn[t].apt \in In(r)
                                  /\ appts[txn[t].apt].status = "completed"
<1>1. ReportInv /\ ReportInv' /\ [ReportNext]_<<vars, reportVars>> => [Moved0]_<<vars, reportVars>>
  <2> SUFFICES ASSUME ReportInv, ReportInv', ReportNext, NEW r
               PROVE  /\ Revenue(In(r))' > Revenue(In(r)) =>
                           \E a \in DOMAIN appts : /\ appts'[a].status = "completed"
                                                   /\ appts'[a] # appts[a]
                                                   /\ Within(appts'[a], r)
                      /\ Revenue(In(r))' < Revenue(In(r)) =>
                           \E t \in Txns : /\ txn[t].pc \in {"write", "flush"}
                                           /\ txn'[t].pc = "idle"
                                           /\ txn[t].apt \in In(r)
                                           /\ appts[txn[t].apt].status = "completed"
    OBVIOUS
  <2>1. PICK f, g : f = appts /\ g = appts'
    OBVIOUS
  <2>2. Revenue(In(r)) = RevenueOf(f, r) /\ Revenue(In(r))' = RevenueOf(g, r)
    BY <2>1 DEF Revenue, Sum, Amount, Paid, In, RevenueOf, Collected, Taking
  <2>3. Table(f) /\ Table(g)
    <3>1. Table(appts) /\ Table(appts')
      BY TablesAround DEF ReportInv, TypeInv
    <3> QED BY <2>1, <3>1
  <2>4. RevenueOf(f, r) \in Nat /\ RevenueOf(g, r) \in Nat
    BY <2>3, TakingNat, SumNat DEF RevenueOf
  <2>5. CASE appts' = appts
    BY <2>1, <2>2, <2>4, <2>5
  <2>6. CASE appts' # appts
    <3>1. PICK t \in Txns : Agenda(t)
      BY <2>6 DEF ReportNext, AskSummary, ReadPrevious, ReadNew, ReadReturning, Read,
                  EditPrice, Later, Tick, vars
    <3>2. TypeInv /\ TypeOK /\ KnownClients /\ Carried
      BY DEF ReportInv, TypeInv
    <3>3. StoresOne(t)
      BY <2>6, <3>1, <3>2, AgendaLeaves DEF Agenda
    <3>4. PICK x \in AptIds, row \in Row :
            /\ Store(x, row)
            /\ txn[t].op = "book" => x \notin DOMAIN appts /\ row = txn[t].row
            /\ txn[t].op # "book" => x = txn[t].apt /\ x \in DOMAIN appts /\ row = NewRow(t)
            /\ x \in DOMAIN appts => /\ row.service = appts[x].service
                                     /\ row.prof = appts[x].prof
            /\ DOMAIN appts' = DOMAIN appts \cup {x}
            /\ DOMAIN appts' \subseteq AptIds
            /\ appts' \in [DOMAIN appts' -> Row]
            /\ appts'[x] = row
            /\ \A b \in DOMAIN appts \ {x} : appts'[b] = appts[b]
      BY <3>2, <3>3, StoresRow
    <3>5. DOMAIN f \ {x} = DOMAIN g \ {x} /\ \A b \in DOMAIN g \ {x} : g[b] = f[b]
      BY <2>1, <3>4
    <3>6. ASSUME Revenue(In(r))' > Revenue(In(r))
          PROVE  \E a \in DOMAIN appts : /\ appts'[a].status = "completed"
                                         /\ appts'[a] # appts[a]
                                         /\ Within(appts'[a], r)
      <4>1. x \in Taking(g, r)
        <5>1. ASSUME x \notin Taking(g, r)
              PROVE  RevenueOf(g, r) <= RevenueOf(f, r)
          BY <2>3, <3>4, <3>5, <5>1, RevenueOfOneLess
        <5> QED BY <2>2, <2>4, <3>6, <5>1
      <4>2. g[x].status = "completed" /\ Within(g[x], r)
        BY <4>1 DEF Taking
      <4>3. x \in DOMAIN appts
        <5>1. txn[t].op = "book" => row.status = "pending"
          BY <3>2, <3>3, <3>4 DEF StoresOne, Carried, Carries
        <5> QED BY <2>1, <3>4, <4>2, <5>1
      <4>4. g[x] # f[x]
        <5>1. ASSUME g[x] = f[x]
              PROVE  f = g
          <6>1. DOMAIN g = DOMAIN f /\ \A b \in DOMAIN f : g[b] = f[b]
            BY <2>1, <3>4, <4>3, <5>1
          <6>2. f = [b \in DOMAIN f |-> f[b]] /\ g = [b \in DOMAIN g |-> g[b]]
            BY <2>1, <3>2, <3>4 DEF TypeOK
          <6> QED BY <6>1, <6>2
        <5> QED BY <2>1, <2>6, <5>1
      <4> QED BY <2>1, <4>2, <4>3, <4>4
    <3>7. ASSUME Revenue(In(r))' < Revenue(In(r))
          PROVE  \E u \in Txns : /\ txn[u].pc \in {"write", "flush"}
                                 /\ txn'[u].pc = "idle"
                                 /\ txn[u].apt \in In(r)
                                 /\ appts[txn[u].apt].status = "completed"
      <4>1. x \in Taking(f, r)
        <5>1. ASSUME x \notin Taking(f, r)
              PROVE  RevenueOf(f, r) <= RevenueOf(g, r)
          BY <2>3, <3>5, <5>1, RevenueOfOneLess
        <5> QED BY <2>2, <2>4, <3>7, <5>1
      <4>2. x \in DOMAIN appts /\ appts[x].status = "completed" /\ x \in In(r)
        BY <2>1, <4>1 DEF Taking, In
      <4>3. txn[t].pc \in {"write", "flush"} /\ x = txn[t].apt
        BY <3>3, <3>4, <4>2 DEF StoresOne
      <4>4. txn'[t].pc = "idle"
        BY <3>2, <3>3, EndTyped DEF StoresOne
      <4> QED BY <4>2, <4>3, <4>4
    <3> QED BY <3>6, <3>7
  <2> QED BY <2>5, <2>6
<1> HIDE DEF Moved0
<1>2. ReportSpec => [][Moved0]_<<vars, reportVars>>
  BY <1>1, ReportInvInit, ReportInvNext, PTL DEF ReportSpec
<1> QED BY <1>2, PTL DEF RevenueMovesByClosing, Moved0

----------------------------------------------------------------------------
(* Lists: where a row stands in any order that the query allows.           *)

WalkRow ==
  [pc : {"list", "count", "done"}, list : Lists, page : Nat \ {0}, size : Sizes,
   seen : [Rows -> 0 .. 2], stay : SUBSET Rows, tied : SUBSET Rows,
   lost : BOOLEAN, grown : BOOLEAN, changes : Nat]

ListingTyped ==
  /\ shelf \in [Rows -> [on : BOOLEAN, key : Keys]]
  /\ walk \in WalkRow \cup {[pc |-> "idle"]}

\* The rows that come before r for certain.
InFront(list, r) == {q \in Listed : By(list, q) < By(list, r)}

\* The place in a list's order is zero, the key or its opposite.
LEMMA ByKey ==
  ASSUME ListingTyped, NEW list \in Lists, NEW r \in Rows
  PROVE  /\ By(list, r) \in Int
         /\ shelf[r].key \in Int
         /\ By(list, r) = IF list \in {"services", "businesses", "professionals"} THEN 0
                          ELSE IF list \in {"conversations", "transfers"} THEN - shelf[r].key
                          ELSE shelf[r].key
<1>1. shelf[r].key \in Int
  <2>1. shelf[r] \in [on : BOOLEAN, key : Keys]
    BY DEF ListingTyped
  <2>2. shelf[r].key \in Keys
    BY <2>1
  <2>3. \A k \in Keys : k \in Int
    BY ListingAssumption
  <2> QED BY <2>2, <2>3
<1>2. By(list, r) = IF list \in {"services", "businesses", "professionals"} THEN 0
                    ELSE IF list \in {"conversations", "transfers"} THEN - shelf[r].key
                    ELSE shelf[r].key
  BY DEF Lists, By, ServicesBy, BusinessesBy, ProfessionalsBy, AppointmentsBy, PlansBy,
         MembershipsBy, ConversationsBy, TransfersBy
<1> QED BY <1>1, <1>2

\* Finitely many rows are listed, and finitely many stand in front of one.
LEMMA InFrontFinite ==
  ASSUME NEW list, NEW r
  PROVE  /\ IsFiniteSet(Listed) /\ IsFiniteSet(InFront(list, r))
         /\ Cardinality(Listed) \in Nat /\ Cardinality(InFront(list, r)) \in Nat
<1>1. IsFiniteSet(Listed)
  <2>1. Listed \subseteq Rows
    BY DEF Listed
  <2> QED BY <2>1, FS_Subset, ListingAssumption
<1>2. InFront(list, r) \subseteq Listed
  BY DEF InFront
<1>3. IsFiniteSet(InFront(list, r))
  BY <1>1, <1>2, FS_Subset
<1> QED BY <1>1, <1>3, FS_CardinalityType

\* A listed row that shares its place with no other stands right after those that
\* come before it for certain, whatever the order.
LEMMA PositionOf ==
  ASSUME ListingTyped, NEW list \in Lists, NEW f \in Orders(list), NEW r \in Listed,
         \A q \in Listed \ {r} : By(list, q) # By(list, r),
         NEW S
  PROVE  r \in {f[i] : i \in S \cap DOMAIN f} <=> Cardinality(InFront(list, r)) + 1 \in S
<1> DEFINE n == Cardinality(Listed)
           b == Cardinality(InFront(list, r))
<1>1. n \in Nat /\ b \in Nat /\ IsFiniteSet(Listed)
  BY InFrontFinite
<1>2. /\ f \in [1 .. n -> Listed] /\ DOMAIN f = 1 .. n
      /\ \A i, j \in 1 .. n : i < j => f[i] # f[j] /\ By(list, f[i]) <= By(list, f[j])
  BY DEF Orders
<1>3. \A q \in Listed : By(list, q) \in Int
  BY ByKey DEF Listed
<1>4. ASSUME NEW i \in 1 .. n, NEW j \in 1 .. n, f[i] = f[j]
      PROVE  i = j
  BY <1>1, <1>2, <1>4
<1>5. f \in Surjection(1 .. n, Listed)
  <2>1. f \in Injection(1 .. n, Listed)
    BY <1>2, <1>4 DEF Injection, IsInjective
  <2>2. Cardinality(1 .. n) = n
    BY <1>1, FS_Interval
  <2> HIDE DEF n
  <2>3. Cardinality(1 .. n) = Cardinality(Listed)
    BY <2>2 DEF n
  <2> QED BY <1>1, <2>1, <2>3, FS_Injection
<1>6. \A q \in Listed : \E i \in 1 .. n : f[i] = q
  BY <1>5 DEF Surjection
<1>7. PICK k \in 1 .. n : f[k] = r
  BY <1>6
<1> DEFINE front == 1 .. (k - 1)
           g == [i \in front |-> f[i]]
<1>8. g \in Bijection(front, InFront(list, r))
  <2>1. ASSUME NEW i \in front
        PROVE  f[i] \in InFront(list, r)
    <3>1. i \in 1 .. n /\ i < k
      BY <1>1, <1>7, <2>1
    <3>2. f[i] \in Listed /\ f[i] # r /\ By(list, f[i]) <= By(list, r)
      BY <1>2, <1>7, <3>1
    <3>3. By(list, f[i]) # By(list, r)
      BY <3>2
    <3> QED BY <1>3, <3>2, <3>3 DEF InFront
  <2>2. ASSUME NEW q \in InFront(list, r)
        PROVE  \E i \in front : f[i] = q
    <3>1. q \in Listed /\ By(list, q) < By(list, r)
      BY DEF InFront
    <3>2. PICK i \in 1 .. n : f[i] = q
      BY <1>6, <3>1
    <3>3. ~(k < i) /\ i # k
      <4>1. By(list, q) \in Int /\ By(list, r) \in Int
        BY <1>3, <3>1
      <4>2. ~(By(list, r) <= By(list, q))
        BY <3>1, <4>1
      <4> QED BY <1>2, <1>7, <3>2, <4>2, <3>1, <4>1
    <3>4. i \in front
      BY <1>1, <1>7, <3>2, <3>3
    <3> QED BY <3>2, <3>4
  <2>3. \A i \in front : i \in 1 .. n
    BY <1>1, <1>7
  <2>4. g \in [front -> InFront(list, r)]
    BY <2>1
  <2>5. \A i, j \in front : g[i] = g[j] => i = j
    BY <1>4, <2>3
  <2>6. \A q \in InFront(list, r) : \E i \in front : g[i] = q
    BY <2>2
  <2> HIDE DEF g, front
  <2> QED BY <2>4, <2>5, <2>6 DEF Bijection, Injection, IsInjective, Surjection
<1>9. b = k - 1
  <2>1. IsFiniteSet(front) /\ Cardinality(front) = k - 1
    <3>1. k - 1 \in Nat /\ (k - 1) - 1 + 1 = k - 1
      BY <1>1, <1>7
    <3>2. /\ IsFiniteSet(1 .. (k - 1))
          /\ Cardinality(1 .. (k - 1)) = IF 1 > k - 1 THEN 0 ELSE (k - 1) - 1 + 1
      BY <3>1, FS_Interval
    <3> QED BY <3>1, <3>2
  <2>2. ExistsBijection(front, InFront(list, r))
    BY <1>8 DEF ExistsBijection
  <2> HIDE DEF front
  <2> QED BY <2>1, <2>2, FS_Bijection
<1>10. r \in {f[i] : i \in S \cap DOMAIN f} <=> k \in S
  BY <1>2, <1>4, <1>7
<1>11. b + 1 = k
  BY <1>1, <1>7, <1>9
<1> QED BY <1>10, <1>11

----------------------------------------------------------------------------
(* Lists: what a reader has seen of the rows that stayed.                  *)

\* How many places the walk has read.
ReadSoFar == IF walk.pc = "list" THEN (walk.page - 1) * walk.size ELSE walk.page * walk.size

\* A row that stayed and shares its place with no other is listed; as long as nothing
\* left the part already read, it has been seen if it stands in that part, and as
\* long as nothing joined that part, it has been seen once, if at all, and there.
StayInPlace ==
  \A r \in walk.stay \ walk.tied :
    /\ r \in Listed
    /\ ~walk.lost /\ walk.seen[r] = 0
         => Cardinality(InFront(walk.list, r)) >= ReadSoFar
    /\ ~walk.grown /\ walk.seen[r] > 0
         => walk.seen[r] = 1 /\ Cardinality(InFront(walk.list, r)) < ReadSoFar

\* A walk ends when the pages hold all rows.
WalkEnds == walk.pc = "done" => Cardinality(Listed) <= walk.page * walk.size

ListingInv ==
  /\ ListingTyped
  /\ walk.pc # "idle" => StayInPlace /\ WalkEnds

\* Products of page numbers and sizes.
LEMMA PageProducts ==
  ASSUME NEW page \in Nat \ {0}, NEW size \in 1 .. 100
  PROVE  /\ page * size \in Nat /\ (page - 1) * size \in Nat
         /\ page * size = (page - 1) * size + size
         /\ ((page + 1) - 1) * size = page * size
<1>1. page - 1 \in Nat /\ (page + 1) - 1 = page /\ size \in Nat
  OBVIOUS
<1>2. page * size \in Nat /\ (page - 1) * size \in Nat
  BY <1>1
<1>3. page * size = (page - 1) * size + size
  BY <1>1
<1> QED BY <1>1, <1>2, <1>3

\* The last page is the one after which no rows are left.
LEMMA LastPage ==
  ASSUME NEW page \in Nat \ {0}, NEW size \in 1 .. 100, NEW total \in Nat,
         ~(page < Pages(total, size))
  PROVE  total <= page * size
<1> DEFINE m == total + size - 1
           q == m \div size
<1>1. m \in Nat /\ size \in Nat \ {0}
  OBVIOUS
<1>2. q \in Nat /\ m = q * size + (m % size) /\ m % size \in 0 .. size - 1
  BY <1>1
<1>3. q <= page
  BY <1>2 DEF Pages
<1>4. PICK d \in Nat : page = q + d
  <2>1. page - q \in Nat /\ page = q + (page - q)
    BY <1>2, <1>3
  <2> QED BY <2>1
<1>5. page * size = q * size + d * size /\ d * size \in Nat /\ q * size \in Nat
  BY <1>1, <1>2, <1>4
<1>6. total <= q * size
  <2>1. total = m - size + 1
    OBVIOUS
  <2>2. m <= q * size + (size - 1)
    BY <1>1, <1>2, <1>5
  <2> HIDE DEF m, q
  <2> QED BY <1>1, <1>2, <1>5, <2>1, <2>2
<1> HIDE DEF m, q
<1> QED BY <1>5, <1>6

\* The page of a list is the slice of its order that the request names.
LEMMA PlacesAreSlice ==
  ASSUME NEW list \in Lists, NEW page \in Nat \ {0}, NEW size \in 1 .. 100
  PROVE  Places(list, page, size) = (page - 1) * size + 1 .. (page - 1) * size + size
<1>1. AtLeast1(page) = page /\ Size(size) = size
  BY DEF AtLeast1, Size
<1>2. Places(list, page, size) = Slice(page, size)
  BY <1>1 DEF Lists, Places, ListServices, ListBusinesses, ListProfessionals, ListPlans,
              ListMemberships, ListAppointments, ListConversations, ListTransfers
<1> QED BY <1>2 DEF Slice, Offset

\* A reader who is under way.
LEMMA WalkTyped ==
  ASSUME ListingTyped, walk.pc # "idle"
  PROVE  walk \in WalkRow /\ walk.list \in Lists /\ walk.page \in Nat \ {0}
         /\ walk.size \in 1 .. 100 /\ walk.stay \subseteq Rows
         /\ walk.seen \in [Rows -> 0 .. 2]
<1>1. walk \in WalkRow
  BY DEF ListingTyped
<1>2. walk.size \in Sizes
  BY <1>1 DEF WalkRow
<1> QED BY <1>1, <1>2, ListingAssumption DEF WalkRow

\* Every step keeps the types of the lists and of the reader.
LEMMA ListingTypedNext == ListingTyped /\ [ListingNext]_listVars => ListingTyped'
<1> SUFFICES ASSUME ListingTyped, [ListingNext]_listVars PROVE ListingTyped'
  OBVIOUS
<1>1. ASSUME NEW list \in Lists, NEW size \in Sizes, StartWalk(list, size)
      PROVE  ListingTyped'
  <2>1. Listed \in SUBSET Rows
    BY DEF Listed
  <2>2. [r \in Rows |-> 0] \in [Rows -> 0 .. 2]
    OBVIOUS
  <2>3. walk' \in WalkRow
    BY <1>1, <2>1, <2>2 DEF StartWalk, WalkRow
  <2> QED BY <1>1, <2>3 DEF StartWalk, ListingTyped
<1>2. CASE ReadPage
  <2>1. walk \in WalkRow
    BY <1>2, WalkTyped DEF ReadPage
  <2>2. PICK page, tied :
          /\ walk' = [walk EXCEPT
                        !.pc = "count",
                        !.seen = [r \in Rows |-> IF r \in page /\ walk.seen[r] < 2
                                                 THEN walk.seen[r] + 1 ELSE walk.seen[r]],
                        !.tied = walk.tied \cup tied]
          /\ tied \in SUBSET Rows
    <3>1. PICK f \in Orders(walk.list) :
            walk' = [walk EXCEPT
              !.pc = "count",
              !.seen = [r \in Rows |->
                          IF /\ r \in {f[i] : i \in Places(walk.list, walk.page, walk.size)
                                                     \cap DOMAIN f}
                             /\ walk.seen[r] < 2
                          THEN walk.seen[r] + 1 ELSE walk.seen[r]],
              !.tied = walk.tied \cup {r \in Listed :
                                 \E q \in Listed \ {r} : By(walk.list, q) = By(walk.list, r)}]
      BY <1>2 DEF ReadPage
    <3>2. {r \in Listed : \E q \in Listed \ {r} : By(walk.list, q) = By(walk.list, r)}
            \in SUBSET Rows
      BY DEF Listed
    <3> QED BY <3>1, <3>2
  <2>3. [r \in Rows |-> IF r \in page /\ walk.seen[r] < 2
                        THEN walk.seen[r] + 1 ELSE walk.seen[r]] \in [Rows -> 0 .. 2]
    BY <2>1 DEF WalkRow
  <2>4. walk' \in WalkRow
    BY <2>1, <2>2, <2>3 DEF WalkRow
  <2> QED BY <1>2, <2>4 DEF ReadPage, ListingTyped
<1>3. CASE CountRows
  <2>1. walk \in WalkRow
    BY <1>3, WalkTyped DEF CountRows
  <2>2. CASE walk.page < Pages(Cardinality(Listed), walk.size)
    <3>1. walk' = [walk EXCEPT !.pc = "list", !.page = walk.page + 1]
      BY <1>3, <2>2 DEF CountRows
    <3>2. walk.page + 1 \in Nat \ {0}
      BY <2>1 DEF WalkRow
    <3>3. walk' \in WalkRow
      BY <2>1, <3>1, <3>2 DEF WalkRow
    <3> QED BY <1>3, <3>3 DEF CountRows, ListingTyped
  <2>3. CASE ~(walk.page < Pages(Cardinality(Listed), walk.size))
    <3>1. walk' = [walk EXCEPT !.pc = "done"]
      BY <1>3, <2>3 DEF CountRows
    <3>2. walk' \in WalkRow
      BY <2>1, <3>1 DEF WalkRow
    <3> QED BY <1>3, <3>2 DEF CountRows, ListingTyped
  <2> QED BY <2>2, <2>3
<1>4. ASSUME NEW new \in [Rows -> [on : BOOLEAN, key : Keys]], NEW stay, NEW lost \in BOOLEAN,
             NEW grown \in BOOLEAN, Meanwhile, Change(new, stay, lost, grown)
      PROVE  ListingTyped'
  <2>1. walk \in WalkRow
    BY <1>4, WalkTyped DEF Meanwhile
  <2>2. PICK s, a, b, c : /\ s = walk.stay \cap stay
                          /\ a = (walk.lost \/ lost) /\ b = (walk.grown \/ grown)
                          /\ c = walk.changes + 1
    OBVIOUS
  <2>3. /\ walk' = [walk EXCEPT !.stay = s, !.lost = a, !.grown = b, !.changes = c]
        /\ shelf' = new
    BY <1>4, <2>2 DEF Change
  <2>4. s \in SUBSET Rows /\ c \in Nat
    BY <2>1, <2>2 DEF WalkRow
  <2>5. a \in BOOLEAN /\ b \in BOOLEAN
    BY <2>2
  <2>6. walk' \in WalkRow
    BY <2>1, <2>3, <2>4, <2>5 DEF WalkRow
  <2> QED BY <1>4, <2>3, <2>6 DEF ListingTyped
<1>5. ASSUME NEW r \in Rows, Appear(r) \/ Disappear(r) \/ MoveRow(r)
      PROVE  ListingTyped'
  <2>1. shelf \in [Rows -> [on : BOOLEAN, key : Keys]]
    BY DEF ListingTyped
  <2>2. CASE Appear(r)
    <3>1. PICK k \in Keys :
            /\ Meanwhile
            /\ Change([shelf EXCEPT ![r] = [on |-> TRUE, key |-> k]], Rows \ {r}, FALSE, TRUE)
      BY <2>2 DEF Appear
    <3>2. [shelf EXCEPT ![r] = [on |-> TRUE, key |-> k]]
            \in [Rows -> [on : BOOLEAN, key : Keys]]
      BY <2>1
    <3> QED BY <1>4, <3>1, <3>2
  <2>3. CASE Disappear(r)
    <3>1. Meanwhile /\ Change([shelf EXCEPT ![r].on = FALSE], Rows \ {r}, TRUE, FALSE)
      BY <2>3 DEF Disappear
    <3>2. [shelf EXCEPT ![r].on = FALSE] \in [Rows -> [on : BOOLEAN, key : Keys]]
      BY <2>1
    <3> QED BY <1>4, <3>1, <3>2
  <2>4. CASE MoveRow(r)
    <3>1. PICK k \in Keys :
            Meanwhile /\ Change([shelf EXCEPT ![r].key = k], Rows \ {r}, TRUE, TRUE)
      BY <2>4 DEF MoveRow
    <3>2. [shelf EXCEPT ![r].key = k] \in [Rows -> [on : BOOLEAN, key : Keys]]
      BY <2>1
    <3> QED BY <1>4, <3>1, <3>2
  <2> QED BY <1>5, <2>2, <2>3, <2>4
<1>6. CASE UNCHANGED listVars
  BY <1>6 DEF listVars, ListingTyped
<1> QED BY <1>1, <1>2, <1>3, <1>5, <1>6 DEF ListingNext

\* What happens to one row changes who stands in front of another one only by
\* joining or leaving the front.
LEMMA FrontChanges ==
  ASSUME ListingTyped, ListingTyped', NEW list \in Lists, NEW q \in Rows, NEW r \in Rows \ {q},
         \A x \in Rows \ {q} : shelf'[x] = shelf[x]
  PROVE  /\ Listed' \ {q} = Listed \ {q}
         /\ InFront(list, r)' \ {q} = InFront(list, r) \ {q}
<1>1. ASSUME NEW x \in Rows \ {q}
      PROVE  By(list, x)' = By(list, x)
  BY <1>1 DEF By, ServicesBy, BusinessesBy, ProfessionalsBy, AppointmentsBy, PlansBy,
              MembershipsBy, ConversationsBy, TransfersBy
<1>2. ASSUME NEW x \in Rows \ {q}
      PROVE  x \in Listed' <=> x \in Listed
  BY DEF Listed
<1>3. Listed \subseteq Rows /\ Listed' \subseteq Rows
  BY DEF Listed
<1>4. ASSUME NEW x \in Rows \ {q}
      PROVE  x \in InFront(list, r)' <=> x \in InFront(list, r)
  <2>1. By(list, x)' = By(list, x) /\ By(list, r)' = By(list, r)
    BY <1>1
  <2> QED BY <1>2, <2>1 DEF InFront
<1>5. InFront(list, r) \subseteq Rows /\ InFront(list, r)' \subseteq Rows
  BY <1>3 DEF InFront
<1> QED BY <1>2, <1>3, <1>4, <1>5

\* A change of another row keeps what is known of the rows that stayed: only a row
\* that is there afterwards can push them back, only one that was there can let them
\* move up.
LEMMA ChangeKeepsPlaces ==
  ASSUME ListingTyped, ListingTyped', StayInPlace, Meanwhile, NEW q \in Rows,
         NEW new, NEW lost \in BOOLEAN, NEW grown \in BOOLEAN,
         Change(new, Rows \ {q}, lost, grown),
         \A x \in Rows \ {q} : new[x] = shelf[x],
         lost \/ q \notin Listed,
         grown \/ q \notin Listed'
  PROVE  StayInPlace'
<1>1. /\ walk \in WalkRow /\ walk.list \in Lists /\ walk.page \in Nat \ {0}
      /\ walk.size \in 1 .. 100 /\ walk.stay \subseteq Rows
  BY WalkTyped DEF Meanwhile
<1>2. PICK s, a, b, c : /\ s = walk.stay \cap (Rows \ {q})
                        /\ a = (walk.lost \/ lost) /\ b = (walk.grown \/ grown)
                        /\ c = walk.changes + 1
  OBVIOUS
<1>3. /\ walk' = [walk EXCEPT !.stay = s, !.lost = a, !.grown = b, !.changes = c]
      /\ shelf' = new
  BY <1>2 DEF Change
<1>4. /\ walk'.stay = s /\ walk'.lost = a /\ walk'.grown = b
      /\ walk'.pc = walk.pc /\ walk'.list = walk.list /\ walk'.page = walk.page
      /\ walk'.size = walk.size /\ walk'.seen = walk.seen /\ walk'.tied = walk.tied
  BY <1>1, <1>3 DEF WalkRow
<1>5. ReadSoFar' = ReadSoFar /\ ReadSoFar \in Nat
  <2>1. ReadSoFar' = ReadSoFar
    BY <1>4 DEF ReadSoFar
  <2>2. walk.page * walk.size \in Nat /\ (walk.page - 1) * walk.size \in Nat
    BY <1>1, PageProducts
  <2> QED BY <2>1, <2>2 DEF ReadSoFar
<1>6. (~a => ~walk.lost /\ ~lost) /\ (~b => ~walk.grown /\ ~grown)
  BY <1>2, Zenon
<1> SUFFICES ASSUME NEW r \in s \ walk.tied
             PROVE  /\ r \in Listed'
                    /\ ~a /\ walk.seen[r] = 0
                         => Cardinality(InFront(walk.list, r)') >= ReadSoFar
                    /\ ~b /\ walk.seen[r] > 0
                         => /\ walk.seen[r] = 1
                            /\ Cardinality(InFront(walk.list, r)') < ReadSoFar
  <2>1. PICK l : l = walk.list
    OBVIOUS
  <2>2. ASSUME NEW r
        PROVE  InFront(walk.list, r)' = InFront(l, r)' /\ InFront(l, r) = InFront(walk.list, r)
    BY <1>4, <2>1
  <2> QED BY <1>4, <1>5 DEF StayInPlace, InFront
<1>7. r \in walk.stay \ walk.tied /\ r \in Rows \ {q}
  BY <1>1, <1>2
<1>8. PICK l \in Lists : l = walk.list
  BY <1>1
<1>9. /\ Listed' \ {q} = Listed \ {q}
      /\ InFront(l, r)' \ {q} = InFront(l, r) \ {q}
  BY <1>3, <1>7, FrontChanges
<1>10. /\ r \in Listed
       /\ ~walk.lost /\ walk.seen[r] = 0 => Cardinality(InFront(l, r)) >= ReadSoFar
       /\ ~walk.grown /\ walk.seen[r] > 0
            => walk.seen[r] = 1 /\ Cardinality(InFront(l, r)) < ReadSoFar
  BY <1>7, <1>8 DEF StayInPlace
<1>11. PICK F, G : F = InFront(l, r) /\ G = InFront(l, r)'
  OBVIOUS
<1>12. InFront(walk.list, r)' = G
  BY <1>4, <1>8, <1>11 DEF InFront
<1>13. /\ IsFiniteSet(F) /\ IsFiniteSet(G)
       /\ Cardinality(F) \in Nat /\ Cardinality(G) \in Nat
  <2>1. IsFiniteSet(F)
    BY <1>11, InFrontFinite
  <2>2. G \subseteq Rows
    BY <1>11 DEF InFront, Listed
  <2>3. IsFiniteSet(G)
    BY <2>2, FS_Subset, ListingAssumption
  <2> QED BY <2>1, <2>3, FS_CardinalityType
<1>14. ASSUME ~lost
       PROVE  Cardinality(F) <= Cardinality(G)
  <2>1. q \notin F
    BY <1>11, <1>14 DEF InFront
  <2>2. F \subseteq G
    BY <1>9, <1>11, <2>1
  <2> QED BY <1>13, <2>2, FS_Subset
<1>15. ASSUME ~grown
       PROVE  Cardinality(G) <= Cardinality(F)
  <2>1. q \notin G
    BY <1>11, <1>15 DEF InFront
  <2>2. G \subseteq F
    BY <1>9, <1>11, <2>1
  <2> QED BY <1>13, <2>2, FS_Subset
<1>16. r \in Listed'
  BY <1>7, <1>9, <1>10
<1>17. ASSUME ~a, walk.seen[r] = 0
       PROVE  Cardinality(G) >= ReadSoFar
  BY <1>5, <1>6, <1>10, <1>11, <1>13, <1>14, <1>17
<1>18. ASSUME ~b, walk.seen[r] > 0
       PROVE  walk.seen[r] = 1 /\ Cardinality(G) < ReadSoFar
  BY <1>5, <1>6, <1>10, <1>11, <1>13, <1>15, <1>18
<1> QED BY <1>12, <1>16, <1>17, <1>18

\* Reading a page: of the rows that stayed and have a place of their own, it shows
\* those that stand in its slice.
LEMMA PageKeepsPlaces ==
  ASSUME ListingTyped, StayInPlace, ReadPage
  PROVE  StayInPlace'
<1>1. /\ walk \in WalkRow /\ walk.list \in Lists /\ walk.page \in Nat \ {0}
      /\ walk.size \in 1 .. 100 /\ walk.stay \subseteq Rows /\ walk.pc = "list"
      /\ walk.seen \in [Rows -> 0 .. 2]
  BY WalkTyped DEF ReadPage
<1> DEFINE S == Places(walk.list, walk.page, walk.size)
           shared == {r \in Listed : \E q \in Listed \ {r} : By(walk.list, q) = By(walk.list, r)}
<1>2. PICK f \in Orders(walk.list) :
        walk' = [walk EXCEPT
          !.pc = "count",
          !.seen = [r \in Rows |-> IF r \in {f[i] : i \in S \cap DOMAIN f} /\ walk.seen[r] < 2
                                   THEN walk.seen[r] + 1 ELSE walk.seen[r]],
          !.tied = walk.tied \cup shared]
  BY DEF ReadPage
<1> DEFINE page == {f[i] : i \in S \cap DOMAIN f}
           seen == [r \in Rows |-> IF r \in page /\ walk.seen[r] < 2
                                   THEN walk.seen[r] + 1 ELSE walk.seen[r]]
<1>3. /\ walk'.pc = "count" /\ walk'.seen = seen /\ walk'.tied = walk.tied \cup shared
      /\ walk'.list = walk.list /\ walk'.page = walk.page /\ walk'.size = walk.size
      /\ walk'.stay = walk.stay /\ walk'.lost = walk.lost /\ walk'.grown = walk.grown
  <2> HIDE DEF seen, shared, S
  <2>1. walk' = [walk EXCEPT !.pc = "count", !.seen = seen, !.tied = walk.tied \cup shared]
    BY <1>2 DEF seen
  <2> QED BY <1>1, <2>1 DEF WalkRow
<1>4. shelf' = shelf
  BY DEF ReadPage
<1> DEFINE from == (walk.page - 1) * walk.size
           upto == walk.page * walk.size
<1>5. /\ from \in Nat /\ upto \in Nat /\ upto = from + walk.size
      /\ ReadSoFar = from /\ ReadSoFar' = upto
  <2>1. from \in Nat /\ upto \in Nat /\ upto = from + walk.size
    BY <1>1, PageProducts
  <2>2. ReadSoFar = from
    <3> HIDE DEF S, shared, page, seen, upto
    <3> QED BY <1>1 DEF ReadSoFar
  <2>3. ReadSoFar' = upto
    <3> HIDE DEF S, shared, page, seen, from
    <3> QED BY <1>3 DEF ReadSoFar
  <2> HIDE DEF from, upto
  <2> QED BY <2>1, <2>2, <2>3
<1>6. S = from + 1 .. from + walk.size
  <2> HIDE DEF seen, shared, page, upto
  <2>1. Places(walk.list, walk.page, walk.size)
          = (walk.page - 1) * walk.size + 1 .. (walk.page - 1) * walk.size + walk.size
    <3> DEFINE Cut(p, n) == (p - 1) * n + 1 .. (p - 1) * n + n
    <3>1. \A l \in Lists, p \in Nat \ {0}, n \in 1 .. 100 : Places(l, p, n) = Cut(p, n)
      BY PlacesAreSlice
    <3>2. walk.list \in Lists /\ walk.page \in Nat \ {0} /\ walk.size \in 1 .. 100
      BY <1>1
    <3> HIDE DEF S, from, Cut
    <3>3. Places(walk.list, walk.page, walk.size) = Cut(walk.page, walk.size)
      BY <3>1, <3>2
    <3> QED BY <3>3 DEF Cut
  <2> QED BY <2>1
<1> HIDE DEF seen, S, shared, page, from, upto
<1> SUFFICES ASSUME NEW r \in walk.stay \ (walk.tied \cup shared)
             PROVE  /\ r \in Listed
                    /\ ~walk.lost /\ seen[r] = 0
                         => Cardinality(InFront(walk.list, r)) >= upto
                    /\ ~walk.grown /\ seen[r] > 0
                         => seen[r] = 1 /\ Cardinality(InFront(walk.list, r)) < upto
  <2>1. Listed' = Listed
    BY <1>4 DEF Listed
  <2>2. ASSUME NEW r
        PROVE  InFront(walk.list, r)' = InFront(walk.list, r)
    BY <1>3, <1>4 DEF InFront, Listed, By, ServicesBy, BusinessesBy, ProfessionalsBy,
       AppointmentsBy, PlansBy, MembershipsBy, ConversationsBy, TransfersBy
  <2> QED BY <1>3, <1>5, <2>1, <2>2 DEF StayInPlace
<1>7. /\ r \in Listed /\ r \in Rows
      /\ ~walk.lost /\ walk.seen[r] = 0 => Cardinality(InFront(walk.list, r)) >= from
      /\ ~walk.grown /\ walk.seen[r] > 0
           => walk.seen[r] = 1 /\ Cardinality(InFront(walk.list, r)) < from
  <2>1. r \in walk.stay \ walk.tied /\ r \in Rows
    BY <1>1
  <2>2. ReadSoFar = from
    BY <1>5
  <2> QED BY <2>1, <2>2 DEF StayInPlace
<1>8. \A q \in Listed \ {r} : By(walk.list, q) # By(walk.list, r)
  BY <1>7 DEF shared
<1>9. r \in page <=> Cardinality(InFront(walk.list, r)) + 1 \in S
  BY <1>1, <1>7, <1>8, PositionOf DEF page
<1>10. PICK b \in Nat : b = Cardinality(InFront(walk.list, r))
  BY InFrontFinite
<1>11. r \in page <=> b >= from /\ b < upto
  BY <1>1, <1>5, <1>6, <1>9, <1>10
<1>12. /\ seen[r] = IF r \in page /\ walk.seen[r] < 2 THEN walk.seen[r] + 1 ELSE walk.seen[r]
       /\ walk.seen[r] \in 0 .. 2
  BY <1>1, <1>7 DEF seen
<1>13. ASSUME ~walk.lost, seen[r] = 0
       PROVE  b >= upto
  BY <1>1, <1>5, <1>7, <1>10, <1>11, <1>12, <1>13
<1>14. ASSUME ~walk.grown, seen[r] > 0
       PROVE  seen[r] = 1 /\ b < upto
  <2>1. CASE walk.seen[r] = 0
    BY <1>11, <1>12, <1>14, <2>1
  <2>2. CASE walk.seen[r] > 0
    BY <1>1, <1>5, <1>7, <1>10, <1>11, <1>12, <1>14, <2>2
  <2> QED BY <1>12, <2>1, <2>2
<1> QED BY <1>7, <1>10, <1>13, <1>14

\* Before the first page nothing has been shown and nobody has stayed.
LEMMA ListingInvInit == ListingInit => ListingInv
BY DEF ListingInit, ListingInv, ListingTyped

\* Every step of the reader, and every change under its feet, keeps the invariant.
LEMMA ListingInvNext == ListingInv /\ [ListingNext]_listVars => ListingInv'
<1> SUFFICES ASSUME ListingInv, ListingNext
             PROVE  walk'.pc # "idle" => StayInPlace' /\ WalkEnds'
  <2>1. ListingTyped /\ [ListingNext]_listVars => ListingTyped'
    BY ListingTypedNext
  <2>2. UNCHANGED listVars => (ListingInv => ListingInv')
    BY DEF listVars, ListingInv, ListingTyped, StayInPlace, WalkEnds, Listed, InFront, By,
           ServicesBy, BusinessesBy, ProfessionalsBy, AppointmentsBy, PlansBy,
           MembershipsBy, ConversationsBy, TransfersBy, ReadSoFar
  <2> QED BY <2>1, <2>2 DEF ListingInv
<1>0. ListingTyped /\ ListingTyped'
  BY ListingTypedNext DEF ListingInv
<1>1. ASSUME NEW list \in Lists, NEW size \in Sizes, StartWalk(list, size)
      PROVE  StayInPlace' /\ WalkEnds'
  <2>1. /\ walk'.pc = "list" /\ walk'.page = 1 /\ walk'.size = size
        /\ walk'.stay = Listed /\ walk'.seen = [r \in Rows |-> 0]
        /\ shelf' = shelf
    BY <1>1 DEF StartWalk
  <2>2. size \in Nat
    BY ListingAssumption
  <2>3. ReadSoFar' = 0
    <3>1. (1 - 1) * size = 0
      BY <2>2
    <3> QED BY <2>1, <3>1 DEF ReadSoFar
  <2>4. Listed' = Listed /\ Listed \subseteq Rows
    BY <2>1 DEF Listed
  <2>5. ASSUME NEW r \in Listed
        PROVE  Cardinality(InFront(walk.list, r)') >= 0 /\ walk'.seen[r] = 0
    <3>1. PICK F : F = InFront(walk.list, r)'
      OBVIOUS
    <3>2. F \subseteq Rows
      BY <2>4, <3>1 DEF InFront
    <3>3. Cardinality(F) \in Nat
      BY <3>2, FS_Subset, FS_CardinalityType, ListingAssumption
    <3> QED BY <2>1, <2>4, <3>1, <3>3
  <2>6. StayInPlace'
    BY <2>1, <2>3, <2>4, <2>5 DEF StayInPlace
  <2> QED BY <2>1, <2>6 DEF WalkEnds
<1>2. ASSUME walk.pc # "idle"
      PROVE  /\ walk \in WalkRow /\ walk.list \in Lists /\ walk.page \in Nat \ {0}
             /\ walk.size \in 1 .. 100 /\ StayInPlace
  BY <1>0, <1>2, WalkTyped DEF ListingInv
<1>3. CASE ReadPage
  <2>1. StayInPlace'
    BY <1>0, <1>2, <1>3, PageKeepsPlaces DEF ReadPage
  <2>2. walk'.pc = "count"
    BY <1>2, <1>3 DEF ReadPage, WalkRow
  <2> QED BY <2>1, <2>2 DEF WalkEnds
<1>4. CASE CountRows
  <2>1. walk.pc = "count" /\ shelf' = shelf
    BY <1>4 DEF CountRows
  <2>2. /\ walk'.page * walk'.size \in Nat
        /\ ReadSoFar' = ReadSoFar
        /\ walk'.list = walk.list /\ walk'.stay = walk.stay /\ walk'.tied = walk.tied
        /\ walk'.seen = walk.seen /\ walk'.lost = walk.lost /\ walk'.grown = walk.grown
        /\ walk'.pc = "done" => Cardinality(Listed) <= walk'.page * walk'.size
    <3>0. /\ walk.page * walk.size \in Nat
          /\ ((walk.page + 1) - 1) * walk.size = walk.page * walk.size
          /\ walk.page + 1 \in Nat \ {0}
      BY <1>2, <2>1, PageProducts
    <3>1. CASE walk.page < Pages(Cardinality(Listed), walk.size)
      <4>1. walk' = [walk EXCEPT !.pc = "list", !.page = walk.page + 1]
        BY <1>4, <3>1 DEF CountRows
      <4>2. /\ walk'.pc = "list" /\ walk'.page = walk.page + 1 /\ walk'.size = walk.size
            /\ walk'.list = walk.list /\ walk'.stay = walk.stay /\ walk'.tied = walk.tied
            /\ walk'.seen = walk.seen /\ walk'.lost = walk.lost /\ walk'.grown = walk.grown
        BY <1>2, <2>1, <4>1 DEF WalkRow
      <4>3. (walk.page + 1) * walk.size \in Nat
        BY <1>2, <2>1, <3>0, PageProducts
      <4> QED BY <2>1, <3>0, <4>2, <4>3 DEF ReadSoFar
    <3>2. CASE ~(walk.page < Pages(Cardinality(Listed), walk.size))
      <4>1. walk' = [walk EXCEPT !.pc = "done"]
        BY <1>4, <3>2 DEF CountRows
      <4>2. /\ walk'.pc = "done" /\ walk'.page = walk.page /\ walk'.size = walk.size
            /\ walk'.list = walk.list /\ walk'.stay = walk.stay /\ walk'.tied = walk.tied
            /\ walk'.seen = walk.seen /\ walk'.lost = walk.lost /\ walk'.grown = walk.grown
        BY <1>2, <2>1, <4>1 DEF WalkRow
      <4>3. Cardinality(Listed) \in Nat
        BY InFrontFinite
      <4>4. Cardinality(Listed) <= walk.page * walk.size
        BY <1>2, <2>1, <3>2, <4>3, LastPage
      <4> QED BY <2>1, <3>0, <4>2, <4>4 DEF ReadSoFar
    <3> QED BY <3>1, <3>2
  <2>3. Listed' = Listed
    BY <2>1 DEF Listed
  <2>4. ASSUME NEW r
        PROVE  InFront(walk.list, r)' = InFront(walk.list, r)
    BY <2>1, <2>2 DEF InFront, Listed, By, ServicesBy, BusinessesBy, ProfessionalsBy,
       AppointmentsBy, PlansBy, MembershipsBy, ConversationsBy, TransfersBy
  <2>5. StayInPlace'
    BY <1>2, <2>1, <2>2, <2>3, <2>4 DEF StayInPlace
  <2>6. WalkEnds'
    BY <2>2, <2>3 DEF WalkEnds
  <2> QED BY <2>5, <2>6
<1>5. ASSUME NEW q \in Rows, NEW new, NEW lost \in BOOLEAN, NEW grown \in BOOLEAN,
             Meanwhile, Change(new, Rows \ {q}, lost, grown),
             \A x \in Rows \ {q} : new[x] = shelf[x],
             lost \/ q \notin Listed, grown \/ q \notin Listed'
      PROVE  StayInPlace' /\ WalkEnds'
  <2>1. StayInPlace
    BY <1>2, <1>5 DEF Meanwhile
  <2>2. StayInPlace'
    BY <1>0, <1>5, <2>1, ChangeKeepsPlaces
  <2>3. walk'.pc # "done"
    BY <1>2, <1>5 DEF Change, Meanwhile, WalkRow
  <2> QED BY <2>2, <2>3 DEF WalkEnds
<1>6. ASSUME NEW q \in Rows, Appear(q) \/ Disappear(q) \/ MoveRow(q)
      PROVE  StayInPlace' /\ WalkEnds'
  <2>1. shelf \in [Rows -> [on : BOOLEAN, key : Keys]]
    BY <1>0 DEF ListingTyped
  <2>2. CASE Appear(q)
    <3>1. PICK k \in Keys :
            /\ Meanwhile /\ q \notin Listed
            /\ Change([shelf EXCEPT ![q] = [on |-> TRUE, key |-> k]], Rows \ {q}, FALSE, TRUE)
      BY <2>2 DEF Appear
    <3>2. \A x \in Rows \ {q} : [shelf EXCEPT ![q] = [on |-> TRUE, key |-> k]][x] = shelf[x]
      BY <2>1
    <3> QED BY <1>5, <3>1, <3>2
  <2>3. CASE Disappear(q)
    <3>1. /\ Meanwhile
          /\ Change([shelf EXCEPT ![q].on = FALSE], Rows \ {q}, TRUE, FALSE)
      BY <2>3 DEF Disappear
    <3>2. \A x \in Rows \ {q} : [shelf EXCEPT ![q].on = FALSE][x] = shelf[x]
      BY <2>1
    <3>3. q \notin Listed'
      <4>1. shelf' = [shelf EXCEPT ![q].on = FALSE]
        BY <3>1 DEF Change
      <4> QED BY <2>1, <4>1 DEF Listed
    <3> QED BY <1>5, <3>1, <3>2, <3>3
  <2>4. CASE MoveRow(q)
    <3>1. PICK k \in Keys :
            Meanwhile /\ Change([shelf EXCEPT ![q].key = k], Rows \ {q}, TRUE, TRUE)
      BY <2>4 DEF MoveRow
    <3>2. \A x \in Rows \ {q} : [shelf EXCEPT ![q].key = k][x] = shelf[x]
      BY <2>1
    <3> QED BY <1>5, <3>1, <3>2
  <2> QED BY <1>6, <2>2, <2>3, <2>4
<1> QED BY <1>1, <1>3, <1>4, <1>6 DEF ListingNext

\* Whatever the rows, the pages and the changes: who walks through all pages of a list
\* misses a row that stayed only if another one left or moved meanwhile, and gets it
\* twice only if one joined or moved, unless the query does not order it.
THEOREM WalksShiftOnly == ListingSpec => []WalkShiftsOnly
<1>1. ListingInv => WalkShiftsOnly
  <2> SUFFICES ASSUME ListingInv, walk.pc = "done", NEW r \in walk.stay \ walk.tied
               PROVE  /\ walk.seen[r] = 0 => walk.lost
                      /\ walk.seen[r] > 1 => walk.grown
    BY DEF WalkShiftsOnly
  <2>1. /\ ListingTyped /\ StayInPlace /\ Cardinality(Listed) <= walk.page * walk.size
    BY DEF ListingInv, WalkEnds
  <2>2. /\ walk.page \in Nat \ {0} /\ walk.size \in 1 .. 100 /\ walk.stay \subseteq Rows
        /\ walk.seen \in [Rows -> 0 .. 2]
    BY <2>1, WalkTyped
  <2>3. walk.seen[r] \in 0 .. 2
    BY <2>2
  <2>4. walk.page * walk.size \in Nat /\ ReadSoFar = walk.page * walk.size
    BY <2>2, PageProducts DEF ReadSoFar
  <2>5. /\ r \in Listed
        /\ ~walk.lost /\ walk.seen[r] = 0
             => Cardinality(InFront(walk.list, r)) >= walk.page * walk.size
        /\ ~walk.grown /\ walk.seen[r] > 0 => walk.seen[r] = 1
    BY <2>1, <2>4 DEF StayInPlace
  <2>6. Cardinality(InFront(walk.list, r)) < Cardinality(Listed)
    <3>1. PICK F : F = InFront(walk.list, r)
      OBVIOUS
    <3>2. F \subseteq Listed \ {r}
      <4>1. By(walk.list, r) \in Int
        BY <2>1, <2>2, WalkTyped, ByKey
      <4> QED BY <3>1, <4>1 DEF InFront
    <3>3. /\ IsFiniteSet(Listed) /\ Cardinality(Listed) \in Nat
      BY InFrontFinite
    <3>4. IsFiniteSet(Listed \ {r}) /\ Cardinality(Listed \ {r}) = Cardinality(Listed) - 1
      BY <2>5, <3>3, FS_RemoveElement
    <3>5. Cardinality(F) <= Cardinality(Listed \ {r})
      BY <3>2, <3>4, FS_Subset
    <3>6. Cardinality(F) \in Nat
      BY <3>1, InFrontFinite
    <3> QED BY <3>1, <3>3, <3>4, <3>5, <3>6
  <2>7. Cardinality(InFront(walk.list, r)) \in Nat /\ Cardinality(Listed) \in Nat
    BY InFrontFinite
  <2>8. ~(Cardinality(InFront(walk.list, r)) >= walk.page * walk.size)
    BY <2>1, <2>4, <2>6, <2>7
  <2>9. walk.seen[r] = 0 => walk.lost
    BY <2>5, <2>8
  <2>10. walk.seen[r] > 1 => walk.grown
    BY <2>3, <2>5
  <2> QED BY <2>9, <2>10
<1> QED BY <1>1, ListingInvInit, ListingInvNext, PTL DEF ListingSpec

----------------------------------------------------------------------------
(* Dates: one day after another, and what is said of them.                 *)

\* A day that the calendar has.
Date == {x \in [y : Nat \ {0}, m : 1 .. 12, d : 1 .. 31] : Valid(x)}

\* The day after is a day, and comes after.
LEMMA NextDayLater ==
  ASSUME NEW x \in Date
  PROVE  NextDay(x) \in Date /\ Before(x, NextDay(x))
<1>1. x \in [y : Nat \ {0}, m : 1 .. 12, d : 1 .. 31] /\ x.d \in 1 .. MonthLength(x.y, x.m)
  BY DEF Date, Valid
<1>2. PICK y \in Nat \ {0}, m \in 1 .. 12, d \in 1 .. 31 : x = [y |-> y, m |-> m, d |-> d]
  BY <1>1
<1>3. x.y = y /\ x.m = m /\ x.d = d
  BY <1>2
<1>4. \A a, b : MonthLength(a, b) \in 28 .. 31
  BY DEF MonthLength
<1>5. CASE d < MonthLength(y, m)
  <2>1. NextDay(x) = [y |-> y, m |-> m, d |-> d + 1]
    BY <1>2, <1>3, <1>5 DEF NextDay
  <2>2. d + 1 \in 1 .. 31 /\ d + 1 \in 1 .. MonthLength(y, m)
    BY <1>4, <1>5
  <2> QED BY <1>3, <2>1, <2>2 DEF Date, Valid, Before
<1>6. CASE ~(d < MonthLength(y, m)) /\ m < 12
  <2>1. NextDay(x) = [y |-> y, m |-> m + 1, d |-> 1]
    BY <1>2, <1>3, <1>6 DEF NextDay
  <2>2. m + 1 \in 1 .. 12 /\ 1 \in 1 .. MonthLength(y, m + 1)
    BY <1>4, <1>6
  <2> QED BY <1>3, <2>1, <2>2 DEF Date, Valid, Before
<1>7. CASE ~(d < MonthLength(y, m)) /\ ~(m < 12)
  <2>1. NextDay(x) = [y |-> y + 1, m |-> 1, d |-> 1]
    BY <1>2, <1>3, <1>7 DEF NextDay
  <2>2. 1 \in 1 .. MonthLength(y + 1, 1)
    BY <1>4
  <2> QED BY <1>3, <2>1, <2>2 DEF Date, Valid, Before
<1> QED BY <1>5, <1>6, <1>7

\* No day is before itself, and of three days the first is before the last.
LEMMA BeforeOrders ==
  ASSUME NEW x \in Date, NEW y \in Date, NEW z \in Date
  PROVE  ~Before(x, x) /\ (Before(x, y) /\ Before(y, z) => Before(x, z))
<1>1. /\ x.y \in Nat /\ x.m \in Nat /\ x.d \in Nat
      /\ y.y \in Nat /\ y.m \in Nat /\ y.d \in Nat
      /\ z.y \in Nat /\ z.m \in Nat /\ z.d \in Nat
  BY DEF Date
<1> QED BY <1>1 DEF Before

\* A table of the days after x.
DayTable(x, n, f) == f = [k \in 0 .. n |-> IF k = 0 THEN x ELSE NextDay(f[k - 1])]

\* There is one for each number of days.
LEMMA TableOfDays ==
  ASSUME NEW x, NEW n \in Nat
  PROVE  \E f : DayTable(x, n, f)
<1> DEFINE G == {m \in Nat : \E f : DayTable(x, m, f)}
<1>1. 0 \in G
  <2> DEFINE g == [k \in 0 .. 0 |-> x]
  <2>1. g = [k \in 0 .. 0 |-> IF k = 0 THEN x ELSE NextDay(g[k - 1])]
    OBVIOUS
  <2> HIDE DEF g
  <2>2. DayTable(x, 0, g)
    BY <2>1 DEF DayTable
  <2> QED BY <2>2
<1>2. ASSUME NEW m \in G
      PROVE  m + 1 \in G
  <2>1. PICK f : DayTable(x, m, f)
    OBVIOUS
  <2> DEFINE g == [k \in 0 .. m + 1 |-> IF k = m + 1 THEN NextDay(f[m]) ELSE f[k]]
             h == [k \in 0 .. m + 1 |-> IF k = 0 THEN x ELSE NextDay(g[k - 1])]
  <2>2. ASSUME NEW k \in 0 .. m + 1
        PROVE  g[k] = h[k]
    <3>1. CASE k = m + 1
      <4>1. k # 0 /\ k - 1 = m /\ m \in 0 .. m + 1 /\ m # m + 1
        BY <3>1
      <4>2. g[k] = NextDay(f[m]) /\ g[m] = f[m]
        BY <3>1, <4>1
      <4>3. h[k] = NextDay(g[m])
        <5> HIDE DEF g
        <5> QED BY <4>1
      <4> QED BY <4>2, <4>3
    <3>2. CASE k # m + 1
      <4>1. k \in 0 .. m /\ (k # 0 => k - 1 \in 0 .. m /\ k - 1 \in 0 .. m + 1 /\ k - 1 # m + 1)
        BY <3>2
      <4>2. f[k] = IF k = 0 THEN x ELSE NextDay(f[k - 1])
        BY <2>1, <4>1 DEF DayTable
      <4>3. g[k] = f[k] /\ (k # 0 => g[k - 1] = f[k - 1])
        BY <3>2, <4>1
      <4>4. h[k] = IF k = 0 THEN x ELSE NextDay(g[k - 1])
        <5> HIDE DEF g
        <5> QED OBVIOUS
      <4> QED BY <4>2, <4>3, <4>4
    <3> QED BY <3>1, <3>2
  <2>3. g = h
    BY <2>2
  <2> HIDE DEF g
  <2>4. DayTable(x, m + 1, g)
    BY <2>3 DEF DayTable
  <2> QED BY <2>4
<1>3. G = Nat
  <2>1. G \subseteq Nat
    OBVIOUS
  <2> HIDE DEF G
  <2> QED BY <1>1, <1>2, <2>1, AllNumbers
<1> QED BY <1>3

\* And no more than one: a longer table goes on where a shorter one ends.
LEMMA TablesAgree ==
  ASSUME NEW x, NEW n \in Nat, NEW f, DayTable(x, n, f), NEW g, DayTable(x, n + 1, g)
  PROVE  g[n] = f[n]
<1> DEFINE G == {k \in Nat : k <= n => g[k] = f[k]}
<1>1. 0 \in G
  BY DEF DayTable
<1>2. ASSUME NEW k \in G
      PROVE  k + 1 \in G
  <2> SUFFICES ASSUME k + 1 <= n PROVE g[k + 1] = f[k + 1]
    OBVIOUS
  <2>1. k <= n /\ k + 1 \in 0 .. n /\ k + 1 \in 0 .. n + 1 /\ k + 1 # 0 /\ (k + 1) - 1 = k
    OBVIOUS
  <2>2. f[k + 1] = NextDay(f[k]) /\ g[k + 1] = NextDay(g[k])
    BY <2>1 DEF DayTable
  <2> QED BY <2>1, <2>2
<1>3. G = Nat
  <2>1. G \subseteq Nat
    OBVIOUS
  <2> HIDE DEF G
  <2> QED BY <1>1, <1>2, <2>1, AllNumbers
<1> QED BY <1>3

\* A day is no days after itself, and each day is followed by the next.
LEMMA DaysAfterStep ==
  ASSUME NEW x
  PROVE  /\ DaysAfter(x, 0) = x
         /\ \A n \in Nat : DaysAfter(x, n + 1) = NextDay(DaysAfter(x, n))
<1>1. ASSUME NEW n \in Nat
      PROVE  \E f : DayTable(x, n, f) /\ DaysAfter(x, n) = f[n]
  <2> DEFINE f == CHOOSE f : DayTable(x, n, f)
  <2>1. DayTable(x, n, f)
    BY TableOfDays
  <2>2. DaysAfter(x, n) = f[n]
    BY DEF DaysAfter, DayTable
  <2> QED BY <2>1, <2>2
<1>2. DaysAfter(x, 0) = x
  <2>1. PICK f : DayTable(x, 0, f) /\ DaysAfter(x, 0) = f[0]
    BY <1>1
  <2> QED BY <2>1 DEF DayTable
<1>3. ASSUME NEW n \in Nat
      PROVE  DaysAfter(x, n + 1) = NextDay(DaysAfter(x, n))
  <2>1. PICK f : DayTable(x, n, f) /\ DaysAfter(x, n) = f[n]
    BY <1>1
  <2>2. PICK g : DayTable(x, n + 1, g) /\ DaysAfter(x, n + 1) = g[n + 1]
    BY <1>1
  <2>3. g[n] = f[n]
    BY <2>1, <2>2, TablesAgree
  <2>4. g[n + 1] = NextDay(g[n])
    <3>1. n + 1 \in 0 .. n + 1 /\ n + 1 # 0 /\ (n + 1) - 1 = n
      OBVIOUS
    <3> QED BY <2>2, <3>1 DEF DayTable
  <2> QED BY <2>1, <2>2, <2>3, <2>4
<1> QED BY <1>2, <1>3

\* The days after a day are days, later and later.
LEMMA DaysAfterLater ==
  ASSUME NEW x \in Date, NEW i \in Nat, NEW j \in Nat
  PROVE  /\ DaysAfter(x, i) \in Date
         /\ i < j => Before(DaysAfter(x, i), DaysAfter(x, j))
<1> DEFINE G == {n \in Nat : DaysAfter(x, n) \in Date}
<1>1. G = Nat
  <2>1. 0 \in G
    BY DaysAfterStep
  <2>2. ASSUME NEW n \in G
        PROVE  n + 1 \in G
    <3>1. n \in Nat /\ DaysAfter(x, n) \in Date
      BY <2>2
    <3>2. NextDay(DaysAfter(x, n)) \in Date
      BY <3>1, NextDayLater
    <3>3. DaysAfter(x, n + 1) \in Date
      BY <3>1, <3>2, DaysAfterStep
    <3> QED BY <3>1, <3>3
  <2>3. G \subseteq Nat
    OBVIOUS
  <2> HIDE DEF G
  <2> QED BY <2>1, <2>2, <2>3, AllNumbers
<1> DEFINE H == {n \in Nat : Before(DaysAfter(x, i), DaysAfter(x, i + 1 + n))}
<1>2. H = Nat
  <2>1. 0 \in H
    BY <1>1, DaysAfterStep, NextDayLater
  <2>2. ASSUME NEW n \in H
        PROVE  n + 1 \in H
    <3>1. i + 1 + n \in Nat /\ i + 1 + (n + 1) = (i + 1 + n) + 1
      OBVIOUS
    <3>2. DaysAfter(x, i + 1 + (n + 1)) = NextDay(DaysAfter(x, i + 1 + n))
      BY <3>1, DaysAfterStep
    <3>3. /\ DaysAfter(x, i) \in Date /\ DaysAfter(x, i + 1 + n) \in Date
          /\ DaysAfter(x, i + 1 + (n + 1)) \in Date
      BY <1>1, <3>1
    <3> QED BY <3>2, <3>3, NextDayLater, BeforeOrders
  <2>3. H \subseteq Nat
    OBVIOUS
  <2> HIDE DEF H
  <2> QED BY <2>1, <2>2, <2>3, AllNumbers
<1>3. ASSUME i < j
      PROVE  Before(DaysAfter(x, i), DaysAfter(x, j))
  <2>1. PICK n \in Nat : j = i + 1 + n
    <3>1. j - (i + 1) \in Nat /\ j = i + 1 + (j - (i + 1))
      BY <1>3
    <3> QED BY <3>1
  <2> QED BY <1>2, <2>1
<1> QED BY <1>1, <1>3

\* Nothing lies between a day and the next.
LEMMA NothingBetween ==
  ASSUME NEW x \in Date, NEW z \in Date, Before(z, NextDay(x))
  PROVE  z = x \/ Before(z, x)
<1>1. PICK y \in Nat \ {0}, m \in 1 .. 12, d \in 1 .. 31 : x = [y |-> y, m |-> m, d |-> d]
  BY DEF Date
<1>2. PICK zy \in Nat \ {0}, zm \in 1 .. 12, zd \in 1 .. 31 : z = [y |-> zy, m |-> zm, d |-> zd]
  BY DEF Date
<1>3. x.y = y /\ x.m = m /\ x.d = d /\ z.y = zy /\ z.m = zm /\ z.d = zd
  BY <1>1, <1>2
<1>4. zd <= MonthLength(zy, zm) /\ MonthLength(zy, zm) \in Nat /\ MonthLength(y, m) \in Nat
  BY <1>3 DEF Date, Valid, MonthLength
<1>5. \/ zy < y \/ (zy = y /\ zm < m) \/ (zy = y /\ zm = m /\ zd < d)
      \/ (zy = y /\ zm = m /\ zd = d)
  <2>1. CASE d < MonthLength(y, m)
    <3>1. NextDay(x) = [y |-> y, m |-> m, d |-> d + 1]
      BY <1>1, <1>3, <2>1 DEF NextDay
    <3>2. NextDay(x).y = y /\ NextDay(x).m = m /\ NextDay(x).d = d + 1
      BY <3>1
    <3>3. zy < y \/ (zy = y /\ zm < m) \/ (zy = y /\ zm = m /\ zd < d + 1)
      BY <1>3, <3>2 DEF Before
    <3> QED BY <3>3
  <2>2. CASE ~(d < MonthLength(y, m)) /\ m < 12
    <3>1. NextDay(x) = [y |-> y, m |-> m + 1, d |-> 1]
      BY <1>1, <1>3, <2>2 DEF NextDay
    <3>2. NextDay(x).y = y /\ NextDay(x).m = m + 1 /\ NextDay(x).d = 1
      BY <3>1
    <3>3. zy < y \/ (zy = y /\ zm < m + 1)
      BY <1>3, <3>2 DEF Before
    <3>4. zy = y /\ zm = m => zd <= d
      BY <1>4, <2>2
    <3> QED BY <3>3, <3>4
  <2>3. CASE ~(d < MonthLength(y, m)) /\ ~(m < 12)
    <3>1. NextDay(x) = [y |-> y + 1, m |-> 1, d |-> 1]
      BY <1>1, <1>3, <2>3 DEF NextDay
    <3>2. NextDay(x).y = y + 1 /\ NextDay(x).m = 1 /\ NextDay(x).d = 1
      BY <3>1
    <3>3. zy < y + 1
      BY <1>3, <3>2 DEF Before
    <3>4. zy = y /\ zm = m => zd <= d
      BY <1>4, <2>3
    <3> QED BY <2>3, <3>3, <3>4
  <2> QED BY <2>1, <2>2, <2>3
<1> QED BY <1>1, <1>2, <1>3, <1>5 DEF Before

\* What stays true of the calendar: today is a day of the years that are stepped
\* through, and has a day of the week; the day of the business is today or the last.
DateInv ==
  /\ today \in Date
  /\ today.y \in FirstYear .. LastYear
  /\ weekday \in 0 .. 6
  /\ local \in Date
  /\ local.y \in FirstYear .. LastYear
  /\ local = today \/ NextDay(local) = today

\* No day is the answer for words that cannot be read.
LEMMA DaysAreDates ==
  ASSUME NEW x \in Date, NEW n \in Nat
  PROVE  DaysAfter(x, n) # NoDate /\ DaysAfter(x, n) \in Date
<1>1. DaysAfter(x, n) \in Date
  BY DaysAfterLater
<1>2. DaysAfter(x, n).y # 0
  BY <1>1 DEF Date
<1>3. NoDate.y = 0
  BY DEF NoDate
<1> QED BY <1>1, <1>2, <1>3

\* Two days after a day are the same one only at the same distance.
LEMMA DaysDiffer ==
  ASSUME NEW x \in Date, NEW i \in Nat, NEW j \in Nat, DaysAfter(x, i) = DaysAfter(x, j)
  PROVE  i = j
<1>1. DaysAfter(x, i) \in Date /\ ~Before(DaysAfter(x, i), DaysAfter(x, i))
  BY DaysAreDates, BeforeOrders
<1>2. ~(i < j) /\ ~(j < i)
  BY <1>1, DaysAfterLater
<1> QED BY <1>2

\* Between the two midnights, the client counts from the day before.
LEMMA DayBehind ==
  ASSUME DateInv, local # today
  PROVE  Meant(0) # FromToday(0) /\ \A n \in Nat : Meant(n + 1) = FromToday(n)
<1> DEFINE G == {n \in Nat : DaysAfter(local, n + 1) = DaysAfter(today, n)}
<1>1. 0 \in G
  <2>1. DaysAfter(local, 0 + 1) = NextDay(DaysAfter(local, 0)) /\ DaysAfter(local, 0) = local
    BY DaysAfterStep
  <2>2. DaysAfter(today, 0) = today
    BY DaysAfterStep
  <2> QED BY <2>1, <2>2 DEF DateInv
<1>2. ASSUME NEW n \in G
      PROVE  n + 1 \in G
  <2>1. DaysAfter(local, (n + 1) + 1) = NextDay(DaysAfter(local, n + 1))
    <3>1. n + 1 \in Nat
      OBVIOUS
    <3> QED BY <3>1, DaysAfterStep
  <2>2. DaysAfter(today, n + 1) = NextDay(DaysAfter(today, n))
    BY DaysAfterStep
  <2> QED BY <2>1, <2>2
<1>3. G = Nat
  <2>1. G \subseteq Nat
    OBVIOUS
  <2> HIDE DEF G
  <2> QED BY <1>1, <1>2, <2>1, AllNumbers
<1>4. Meant(0) = local /\ FromToday(0) = today
  BY DaysAfterStep DEF Meant, FromToday
<1> QED BY <1>3, <1>4 DEF Meant, FromToday

\* A number of days: found unless the client's own day is the day before.
LEMMA NumberOfDaysFound ==
  ASSUME DateInv, NEW text \in Texts, text.kind = "days"
  PROVE  DateLookedUp(text) = Meant(text.n) <=> local = today
<1>1. text.n \in Nat
  BY DEF Texts
<1>2. ParseDate(text) = FromToday(text.n)
  BY DEF ParseDate
<1>3. DateLookedUp(text) = FromToday(text.n)
  BY <1>1, <1>2, DaysAreDates DEF DateLookedUp, FromToday, DateInv
<1>4. CASE local = today
  BY <1>3, <1>4 DEF Meant, FromToday
<1>5. CASE local # today /\ text.n = 0
  BY <1>3, <1>5, DayBehind
<1>6. CASE local # today /\ text.n # 0
  <2>1. text.n - 1 \in Nat /\ text.n - 1 # text.n /\ (text.n - 1) + 1 = text.n
    BY <1>1, <1>6
  <2>2. Meant(text.n) = FromToday(text.n - 1)
    BY <1>6, <2>1, DayBehind
  <2> QED BY <1>1, <1>3, <1>6, <2>1, <2>2, DaysDiffer DEF FromToday, DateInv
<1> QED BY <1>4, <1>5, <1>6

\* A day of the week: the coming one, or the one after, unless it has begun already
\* and is not over where the client is.
LEMMA DayOfWeekFound ==
  ASSUME DateInv, NEW text \in Texts, text.kind = "weekday"
  PROVE  LET x == DateLookedUp(text)
             delta == (text.w - weekday) % 7
         IN /\ \E n \in IF text.next THEN 7 .. 13 ELSE 1 .. 7 :
                 n % 7 = delta /\ x = FromToday(n)
            /\ ~text.next =>
                 ((\E n \in 1 .. 7 : x = Meant(n)) <=> ~(local # today /\ delta = 0))
<1> DEFINE delta == (text.w - weekday) % 7
           ahead == IF delta = 0 \/ text.next THEN delta + 7 ELSE delta
<1>1. text.w \in 0 .. 6 /\ text.next \in BOOLEAN /\ weekday \in 0 .. 6
  BY DEF Texts, DateInv
<1>2. delta \in 0 .. 6
  BY <1>1
<1>3. ParseDate(text) = FromToday(ahead)
  BY DEF ParseDate, Weekday
<1> HIDE DEF delta
<1>4. /\ ahead \in 1 .. 13 /\ ahead % 7 = delta
      /\ ahead \in IF text.next THEN 7 .. 13 ELSE 1 .. 7
  BY <1>1, <1>2
<1>5. DateLookedUp(text) = FromToday(ahead)
  <2>1. ahead \in Nat
    BY <1>4
  <2> HIDE DEF ahead
  <2> QED BY <1>3, <2>1, DaysAreDates DEF DateLookedUp, FromToday, DateInv
<1>6. ASSUME ~text.next
      PROVE  (\E n \in 1 .. 7 : DateLookedUp(text) = Meant(n)) <=> ~(local # today /\ delta = 0)
  <2>1. ahead \in 1 .. 7 /\ (ahead = 7 <=> delta = 0)
    BY <1>2, <1>6
  <2> HIDE DEF ahead
  <2>2. CASE local = today
    <3>1. Meant(ahead) = FromToday(ahead)
      BY <2>2 DEF Meant, FromToday
    <3> QED BY <1>5, <2>1, <2>2, <3>1
  <2>3. CASE local # today
    <3>1. \A n \in 1 .. 7 : Meant(n) = FromToday(n - 1) /\ n - 1 \in Nat
      <4> TAKE n \in 1 .. 7
      <4>1. n - 1 \in Nat /\ (n - 1) + 1 = n
        OBVIOUS
      <4> QED BY <2>3, <4>1, DayBehind
    <3>2. CASE delta = 0
      <4>1. \A n \in 1 .. 7 : n - 1 # ahead
        BY <2>1, <3>2
      <4>2. \A n \in 1 .. 7 : FromToday(ahead) # Meant(n)
        BY <2>1, <3>1, <4>1, DaysDiffer DEF FromToday, DateInv
      <4> QED BY <1>5, <2>3, <3>2, <4>2
    <3>3. CASE delta # 0
      <4>1. ahead + 1 \in 1 .. 7 /\ (ahead + 1) - 1 = ahead
        BY <2>1, <3>3
      <4>2. Meant(ahead + 1) = FromToday(ahead)
        BY <3>1, <4>1
      <4> QED BY <1>5, <3>3, <4>1, <4>2
    <3> QED BY <3>2, <3>3
  <2> QED BY <2>2, <2>3
<1> HIDE DEF ahead
<1> QED BY <1>4, <1>5, <1>6 DEF delta

\* The parts of today, and of the day before.
LEMMA TodayParts ==
  ASSUME DateInv
  PROVE  \E ty \in Nat \ {0}, tm \in 1 .. 12, td \in 1 .. 31,
            ly \in Nat \ {0}, lm \in 1 .. 12, ld \in 1 .. 31 :
           /\ today = [y |-> ty, m |-> tm, d |-> td]
           /\ local = [y |-> ly, m |-> lm, d |-> ld]
           /\ ty <= LastYear /\ ty >= FirstYear /\ ly <= LastYear /\ ly >= FirstYear
           /\ \/ ty = ly /\ tm = lm /\ td = ld
              \/ ty = ly /\ tm = lm /\ td = ld + 1
              \/ ty = ly /\ tm = lm + 1 /\ td = 1
              \/ ty = ly + 1 /\ tm = 1 /\ td = 1 /\ lm = 12
<1>1. PICK ly \in Nat \ {0}, lm \in 1 .. 12, ld \in 1 .. 31 : local = [y |-> ly, m |-> lm, d |-> ld]
  BY DEF DateInv, Date
<1>2. PICK ty \in Nat \ {0}, tm \in 1 .. 12, td \in 1 .. 31 : today = [y |-> ty, m |-> tm, d |-> td]
  BY DEF DateInv, Date
<1>3. local.y = ly /\ local.m = lm /\ local.d = ld /\ today.y = ty /\ today.m = tm /\ today.d = td
  BY <1>1, <1>2
<1>4. ty <= LastYear /\ ty >= FirstYear /\ ly <= LastYear /\ ly >= FirstYear
  BY <1>3, CalendarAssumption DEF DateInv
<1>5. \/ ty = ly /\ tm = lm /\ td = ld
      \/ ty = ly /\ tm = lm /\ td = ld + 1
      \/ ty = ly /\ tm = lm + 1 /\ td = 1
      \/ ty = ly + 1 /\ tm = 1 /\ td = 1 /\ lm = 12
  <2>1. CASE local = today
    BY <1>3, <2>1
  <2>2. CASE NextDay(local) = today /\ ld < MonthLength(ly, lm)
    <3>1. today = [y |-> ly, m |-> lm, d |-> ld + 1]
      BY <1>1, <1>3, <2>2 DEF NextDay
    <3> QED BY <1>3, <3>1
  <2>3. CASE NextDay(local) = today /\ ~(ld < MonthLength(ly, lm)) /\ lm < 12
    <3>1. today = [y |-> ly, m |-> lm + 1, d |-> 1]
      BY <1>1, <1>3, <2>3 DEF NextDay
    <3> QED BY <1>3, <3>1
  <2>4. CASE NextDay(local) = today /\ ~(ld < MonthLength(ly, lm)) /\ ~(lm < 12)
    <3>1. today = [y |-> ly + 1, m |-> 1, d |-> 1]
      BY <1>1, <1>3, <2>4 DEF NextDay
    <3> QED BY <1>3, <2>4, <3>1
  <2> QED BY <2>1, <2>2, <2>3, <2>4 DEF DateInv
<1> QED BY <1>1, <1>2, <1>4, <1>5

\* The first 28 days are in every month, and 31 in January.
LEMMA MonthHas ==
  ASSUME NEW y, NEW m \in 1 .. 12, NEW d \in 1 .. 31
  PROVE  /\ d <= 28 => Valid([y |-> y, m |-> m, d |-> d])
         /\ m = 1 => Valid([y |-> y, m |-> m, d |-> d])
BY DEF Valid, MonthLength

\* What a named date is.
LEMMA NamedDates ==
  ASSUME NEW text \in Texts, text.kind \in {"day", "day_month", "slash"},
         NEW z \in Named(text)
  PROVE  /\ z \in Date /\ z.d = text.d /\ text.d \in 1 .. 31
         /\ text.kind # "day" => z.m = text.m
         /\ z.y \in Nat /\ z.m \in 1 .. 12
         /\ z = [y |-> z.y, m |-> z.m, d |-> z.d]
<1>1. text.d \in 0 .. 32 /\ (text.kind # "day" => text.m \in 1 .. 12)
  BY DEF Texts
<1>2. /\ z \in [y : FirstYear .. LastYear + 1, d : {text.d},
                m : IF text.kind = "day" THEN 1 .. 12 ELSE {text.m}]
      /\ Valid(z)
  BY DEF Named
<1>3. z.m \in 1 .. 12 /\ z.y \in Nat \ {0} /\ z.d = text.d /\ (text.kind # "day" => z.m = text.m)
  BY <1>1, <1>2, CalendarAssumption
<1>4. text.d \in 1 .. 31
  BY <1>1, <1>2, <1>3 DEF Valid, MonthLength
<1>5. z = [y |-> z.y, m |-> z.m, d |-> z.d]
  BY <1>2
<1>6. z \in [y : Nat \ {0}, m : 1 .. 12, d : 1 .. 31]
  <2>1. PICK a, b, c : a = z.y /\ b = z.m /\ c = z.d
    OBVIOUS
  <2> QED BY <1>3, <1>4, <1>5, <2>1
<1> QED BY <1>2, <1>3, <1>4, <1>5, <1>6 DEF Date

\* The answer to a day number, to a day of a month and to a day with a slash: the
\* date that is meant, except exactly for the slips.
LEMMA DayNumberFound ==
  ASSUME DateInv, NEW text \in Texts, text.kind \in {"day", "day_month", "slash"}
  PROVE  IsFirst(DateLookedUp(text), text) <=>
           ~(\/ OwnDay(text)
             \/ PastJanuary(text)
             \/ MonthNotRead(text)
             \/ ParseDate(text) = NoDate)
<1>1. text.d \in 0 .. 32 /\ (text.kind # "day" => text.m \in 1 .. 12)
  BY DEF Texts
<1>2. PICK ty \in Nat \ {0}, tm \in 1 .. 12, td \in 1 .. 31,
           ly \in Nat \ {0}, lm \in 1 .. 12, ld \in 1 .. 31 :
        /\ today = [y |-> ty, m |-> tm, d |-> td]
        /\ local = [y |-> ly, m |-> lm, d |-> ld]
        /\ ty <= LastYear /\ ty >= FirstYear /\ ly <= LastYear /\ ly >= FirstYear
        /\ \/ ty = ly /\ tm = lm /\ td = ld
           \/ ty = ly /\ tm = lm /\ td = ld + 1
           \/ ty = ly /\ tm = lm + 1 /\ td = 1
           \/ ty = ly + 1 /\ tm = 1 /\ td = 1 /\ lm = 12
  BY TodayParts
<1>3. /\ today.y = ty /\ today.m = tm /\ today.d = td
      /\ local.y = ly /\ local.m = lm /\ local.d = ld
      /\ local # today => ~(ty = ly /\ tm = lm /\ td = ld)
  BY <1>2
<1> DEFINE alone == text.kind \in {"day", "slash"}
           month == IF alone THEN IF text.d >= td THEN tm ELSE (tm % 12) + 1 ELSE text.m
           year  == IF alone THEN ty
                    ELSE IF text.m > tm \/ (text.m = tm /\ text.d >= td) THEN ty ELSE ty + 1
           x     == [y |-> year, m |-> month, d |-> text.d]
<1>4. month \in 1 .. 12 /\ year \in Nat \ {0} /\ year \in FirstYear .. LastYear + 1
  BY <1>1, <1>2, CalendarAssumption
<1>5. ParseDate(text) = OrNone(x)
  <2>1. CASE alone
    BY <1>3, <2>1 DEF ParseDate, DayAlone
  <2>2. CASE ~alone
    BY <1>3, <2>2 DEF ParseDate, DayOfMonth
  <2> QED BY <2>1, <2>2
<1>6. x # NoDate
  <2>1. x.y # 0
    BY <1>4
  <2>2. NoDate.y = 0
    BY DEF NoDate
  <2> HIDE DEF x
  <2> QED BY <2>1, <2>2
<1>7. x.y = year /\ x.m = month /\ x.d = text.d
  OBVIOUS
<1>8. CASE ~Valid(x)
  <2>1. ParseDate(text) = NoDate /\ DateLookedUp(text) = today
    BY <1>5, <1>8 DEF DateLookedUp, OrNone
  <2>2. ASSUME today \in Named(text)
        PROVE  FALSE
    <3>1. td = text.d /\ (text.kind # "day" => tm = text.m) /\ Valid(today)
      BY <1>3, <2>2 DEF Named
    <3>2. month = tm /\ year = ty
      BY <1>1, <1>2, <3>1
    <3>3. x = today
      <4> HIDE DEF month, year
      <4> QED BY <1>2, <3>1, <3>2
    <3> QED BY <1>8, <3>1, <3>3
  <2> QED BY <2>1, <2>2 DEF IsFirst
<1>9. CASE Valid(x)
  <2>1. DateLookedUp(text) = x /\ ParseDate(text) = x /\ ParseDate(text) # NoDate
    <3> HIDE DEF x
    <3> QED BY <1>5, <1>6, <1>9 DEF DateLookedUp, OrNone
  <2>2. x \in Named(text) <=> (text.kind # "day" => month = text.m)
    <3> HIDE DEF year, month
    <3> QED BY <1>1, <1>4, <1>9 DEF Named
  <2>3. text.d \in 1 .. 31
    BY <1>1, <1>7, <1>9 DEF Valid, MonthLength
  <2>4. CASE OwnDay(text)
    <3>1. text.d = ld /\ (text.kind # "day" => text.m = lm) /\ ~(ty = ly /\ tm = lm /\ td = ld)
      BY <1>3, <2>4 DEF OwnDay
    <3>2. ASSUME IsFirst(x, text)
          PROVE  FALSE
      <4>1. local \in Named(text)
        <5>1. ly \in FirstYear .. LastYear + 1 /\ ld \in {text.d}
          BY <1>2, <3>1, CalendarAssumption
        <5>2. lm \in IF text.kind = "day" THEN 1 .. 12 ELSE {text.m}
          BY <1>2, <3>1
        <5>3. local \in [y : FirstYear .. LastYear + 1, d : {text.d},
                         m : IF text.kind = "day" THEN 1 .. 12 ELSE {text.m}]
          BY <1>2, <5>1, <5>2
        <5> QED BY <5>3 DEF Named, DateInv, Date
      <4>2. ~Before(x, local) /\ (Before(local, x) => Before(local, local))
        BY <3>2, <4>1 DEF IsFirst
      <4>3. ~Before(local, local)
        BY BeforeOrders DEF DateInv
      <4>4. year = ly /\ month = lm
        <5> HIDE DEF year, month
        <5> QED BY <1>3, <1>4, <1>7, <3>1, <4>2, <4>3 DEF Before
      <4>5. CASE alone
        BY <1>2, <2>3, <3>1, <4>4, <4>5
      <4>6. CASE ~alone
        BY <1>2, <2>3, <3>1, <4>4, <4>6
      <4> QED BY <4>5, <4>6
    <3> QED BY <2>1, <2>4, <3>2
  <2>5. CASE PastJanuary(text)
    <3>1. alone /\ tm = 12 /\ text.d < td
      BY <1>3, <2>5 DEF PastJanuary
    <3>2. month = 1 /\ year = ty /\ lm = 12 /\ ly = ty
      BY <1>2, <2>3, <3>1
    <3>3. Before(x, local)
      BY <1>3, <1>7, <3>2 DEF Before
    <3> QED BY <2>1, <2>5, <3>3 DEF IsFirst
  <2>6. CASE MonthNotRead(text)
    <3>1. text.kind = "slash" /\ month # text.m
      BY <1>7, <2>1, <2>6 DEF MonthNotRead
    <3> QED BY <2>1, <2>2, <2>6, <3>1 DEF IsFirst
  <2>7. CASE ~OwnDay(text) /\ ~PastJanuary(text) /\ ~MonthNotRead(text)
    <3>1. text.kind # "day" => month = text.m
      BY <1>7, <2>1, <2>7 DEF MonthNotRead
    <3>2. alone => ~(tm = 12 /\ text.d < td)
      BY <1>3, <2>7 DEF PastJanuary
    <3>3. x \in Named(text)
      BY <2>2, <3>1
    <3>4. ~Before(x, local) /\ ~Before(x, today)
      <4>1. \/ year > ty \/ (year = ty /\ month > tm)
            \/ (year = ty /\ month = tm /\ text.d >= td)
        BY <1>1, <1>2, <3>2
      <4> HIDE DEF year, month
      <4> QED BY <1>2, <1>3, <1>4, <1>7, <2>3, <4>1 DEF Before
    <3>5. ASSUME NEW z \in Named(text), Before(z, x)
          PROVE  Before(z, local)
      <4>1. /\ z \in Date /\ z.d = text.d /\ (text.kind # "day" => z.m = text.m)
            /\ z.y \in Nat /\ z.m \in 1 .. 12
        BY NamedDates
      <4>2. PICK zy \in Nat, zm \in 1 .. 12 : zy = z.y /\ zm = z.m
        BY <4>1
      <4>3. zy < year \/ (zy = year /\ zm < month)
        <5> HIDE DEF year, month
        <5> QED BY <1>4, <1>7, <2>3, <3>5, <4>1, <4>2 DEF Before
      <4>4. \/ zy < ty \/ (zy = ty /\ zm < tm)
            \/ (zy = ty /\ zm = tm /\ text.d < td)
        BY <1>1, <1>2, <3>1, <3>2, <4>1, <4>2, <4>3
      <4>5. Before(z, today)
        BY <1>3, <4>1, <4>2, <4>4 DEF Before
      <4>6. CASE local = today
        BY <4>5, <4>6
      <4>7. CASE local # today
        <5>1. z = local \/ Before(z, local)
          BY <4>1, <4>5, <4>7, NothingBetween DEF DateInv
        <5>2. z # local
          BY <2>7, <4>1, <4>7 DEF OwnDay
        <5> QED BY <5>1, <5>2
      <4> QED BY <4>6, <4>7
    <3> QED BY <2>1, <2>7, <3>3, <3>4, <3>5 DEF IsFirst
  <2> QED BY <2>4, <2>5, <2>6, <2>7
<1> QED BY <1>8, <1>9

\* The calendar is stepped through day by day.
LEMMA DateInvariant == DateSpec => []DateInv
<1>1. DateInit => DateInv
  <2> SUFFICES ASSUME DateInit PROVE DateInv
    OBVIOUS
  <2>1. today = [y |-> FirstYear, m |-> 1, d |-> 1] /\ FirstYear = 2023 /\ LastYear >= 2023
    BY CalendarAssumption DEF DateInit
  <2>2. Valid(today)
    <3>1. FirstYear \in Nat \ {0} /\ 1 \in 1 .. 12 /\ 1 \in 1 .. 31 /\ 1 <= 28
      BY <2>1
    <3>2. Valid([y |-> FirstYear, m |-> 1, d |-> 1])
      BY <3>1, MonthHas
    <3> QED BY <2>1, <3>2
  <2>3. today \in Date /\ today.y \in FirstYear .. LastYear
    BY <2>1, <2>2, CalendarAssumption DEF Date
  <2>4. weekday \in 0 .. 6 /\ local = today
    BY DEF DateInit
  <2> QED BY <2>3, <2>4 DEF DateInv
<1>2. DateInv /\ [DateNext]_dateVars => DateInv'
  <2> SUFFICES ASSUME DateInv, [DateNext]_dateVars PROVE DateInv'
    OBVIOUS
  <2>1. CASE DayBegins
    <3>1. NextDay(today) \in Date /\ NextDay(today).y \in FirstYear .. LastYear
      <4>1. /\ NextDay(today) \in Date /\ Before(today, NextDay(today))
            /\ NextDay(today).y <= LastYear
        BY <2>1, NextDayLater DEF DayBegins, DateInv
      <4>2. NextDay(today).y \in Nat /\ today.y \in FirstYear .. LastYear
        BY <4>1 DEF Date, DateInv
      <4> QED BY <4>1, <4>2, CalendarAssumption DEF Before
    <3>2. (weekday + 1) % 7 \in 0 .. 6
      BY DEF DateInv
    <3>3. /\ today' = NextDay(today) /\ weekday' = (weekday + 1) % 7
          /\ local' = local /\ local = today
      BY <2>1 DEF DayBegins
    <3>4. PICK z : z = NextDay(today)
      OBVIOUS
    <3>5. z \in Date /\ z.y \in FirstYear .. LastYear /\ today' = z
      BY <3>1, <3>3, <3>4
    <3>6. today' \in Date' /\ local' \in Date' /\ NextDay(local)' = today'
      <4>1. NextDay(local') = today'
        BY <3>3
      <4>2. NextDay(local)' = NextDay(local')
        BY DEF NextDay, MonthLength, Leap
      <4>3. Date' = Date
        BY DEF Date, Valid, MonthLength, Leap
      <4> QED BY <3>3, <3>5, <4>1, <4>2, <4>3 DEF DateInv
    <3> QED BY <3>2, <3>3, <3>5, <3>6 DEF DateInv
  <2>2. CASE DayArrives
    <3>1. today' = today /\ weekday' = weekday /\ local' = today
      BY <2>2 DEF DayArrives
    <3> QED BY <3>1 DEF DateInv, Date, Valid, MonthLength, Leap
  <2>3. CASE Ask \/ UNCHANGED dateVars
    <3>1. today' = today /\ weekday' = weekday /\ local' = local
      BY <2>3 DEF Ask, dateVars
    <3> QED BY <3>1 DEF DateInv, Date, Valid, MonthLength, Leap, NextDay
  <2> QED BY <2>1, <2>2, <2>3 DEF DateNext
<1> QED BY <1>1, <1>2, PTL DEF DateSpec

\* Over any number of years, on every day and on either side of the midnight of UTC,
\* what is said is looked up on the day that is meant where the business is, except
\* exactly in the cases that DatesAreFound names.
THEOREM DatesMeant == DateSpec => []DatesAreFound
<1>1. DateInv => DatesAreFound
  <2> SUFFICES ASSUME DateInv, NEW text \in Texts
               PROVE  LET x == DateLookedUp(text)
                          delta == (text.w - weekday) % 7
                      IN
                      /\ text.kind = "days" => (x = Meant(text.n) <=> local = today)
                      /\ text.kind = "weekday" =>
                           /\ \E n \in IF text.next THEN 7 .. 13 ELSE 1 .. 7 :
                                n % 7 = delta /\ x = FromToday(n)
                           /\ ~text.next => ((\E n \in 1 .. 7 : x = Meant(n))
                                               <=> ~(local # today /\ delta = 0))
                      /\ text.kind \in {"day", "day_month", "slash"} =>
                           (IsFirst(x, text) <=>
                              ~(\/ OwnDay(text)
                                \/ PastJanuary(text)
                                \/ MonthNotRead(text)
                                \/ ParseDate(text) = NoDate))
    BY DEF DatesAreFound
  <2>1. ASSUME text.kind = "weekday"
        PROVE  /\ \E n \in IF text.next THEN 7 .. 13 ELSE 1 .. 7 :
                    n % 7 = (text.w - weekday) % 7 /\ DateLookedUp(text) = FromToday(n)
               /\ ~text.next => ((\E n \in 1 .. 7 : DateLookedUp(text) = Meant(n))
                                   <=> ~(local # today /\ (text.w - weekday) % 7 = 0))
    BY <2>1, DayOfWeekFound
  <2>2. ASSUME text.kind \in {"day", "day_month", "slash"}
        PROVE  IsFirst(DateLookedUp(text), text) <=>
                 ~(\/ OwnDay(text)
                   \/ PastJanuary(text)
                   \/ MonthNotRead(text)
                   \/ ParseDate(text) = NoDate)
    BY <2>2, DayNumberFound
  <2> QED BY <2>1, <2>2, NumberOfDaysFound
<1> QED BY <1>1, DateInvariant, PTL
=============================================================================
