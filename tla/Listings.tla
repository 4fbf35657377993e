------------------------------ MODULE Listings ------------------------------
(***************************************************************************)
(* The paginated lists of the panel.  Every page is a request of its own:  *)
(* a SELECT with LIMIT and OFFSET, then a SELECT that counts, and nothing  *)
(* holds the rows still in between.  Three lists have no ORDER BY and the  *)
(* others order by a column that may repeat, so each page is cut from any  *)
(* order that the query allows.                                            *)
(*                                                                         *)
(* A row is there or not (it exists and passes the filter of the list) and *)
(* has one key, the column some list orders by.                            *)
(***************************************************************************)
EXTENDS Integers, FiniteSets

CONSTANTS
  Rows,          \* rows that may be in the list
  Keys,          \* values of the column it is ordered by
  Sizes,         \* page sizes asked for
  MaxChanges     \* bound of the changes during a walk

Lists == {"services", "businesses", "professionals", "appointments", "plans",
          "memberships", "conversations", "transfers"}

ASSUME ListingAssumption ==
  /\ IsFiniteSet(Rows)
  /\ Keys \subseteq Nat
  /\ Sizes \subseteq 1 .. 100
  /\ MaxChanges \in Nat

VARIABLES
  shelf,   \* shelf[r]: whether the row is listed, and its key
  walk     \* a reader that goes through all pages of one list

listVars == <<shelf, walk>>

Listed == {r \in Rows : shelf[r].on}

----------------------------------------------------------------------------
(* What each query orders by.                                              *)

ServicesBy(r)      == 0
BusinessesBy(r)    == 0
ProfessionalsBy(r) == 0
AppointmentsBy(r)  == shelf[r].key      \* scheduled_at
PlansBy(r)         == shelf[r].key      \* price
MembershipsBy(r)   == shelf[r].key      \* ends_at
ConversationsBy(r) == - shelf[r].key    \* last_message_at, newest first
TransfersBy(r)     == - shelf[r].key    \* created_at, newest first

By(list, r) ==
  CASE list = "services"      -> ServicesBy(r)
    [] list = "businesses"    -> BusinessesBy(r)
    [] list = "professionals" -> ProfessionalsBy(r)
    [] list = "appointments"  -> AppointmentsBy(r)
    [] list = "plans"         -> PlansBy(r)
    [] list = "memberships"   -> MembershipsBy(r)
    [] list = "conversations" -> ConversationsBy(r)
    [] list = "transfers"     -> TransfersBy(r)

\* The orders in which the database may return the rows.
Orders(list) ==
  LET n == Cardinality(Listed) IN
  {f \in [1 .. n -> Listed] :
     \A i, j \in 1 .. n : i < j => f[i] # f[j] /\ By(list, f[i]) <= By(list, f[j])}

----------------------------------------------------------------------------
(* The page that a request gets: after the clamp of the use case, when it  *)
(* has one; the others leave the limits to the route.                      *)

AtLeast1(n) == IF n < 1 THEN 1 ELSE n

Size(n) == AtLeast1(IF n > 100 THEN 100 ELSE n)

\* Slip: the pages are counted from zero.
OffsetFromZero(page, size) == page * size

Offset(page, size) == (page - 1) * size

Slice(page, size) == Offset(page, size) + 1 .. Offset(page, size) + size

ListServices(page, size)      == Slice(AtLeast1(page), Size(size))
ListBusinesses(page, size)    == Slice(AtLeast1(page), Size(size))
ListProfessionals(page, size) == Slice(AtLeast1(page), Size(size))
ListPlans(page, size)         == Slice(AtLeast1(page), Size(size))
ListMemberships(page, size)   == Slice(AtLeast1(page), Size(size))
ListAppointments(page, size)  == Slice(page, size)
ListConversations(page, size) == Slice(page, size)
ListTransfers(page, size)     == Slice(page, size)

Places(list, page, size) ==
  CASE list = "services"      -> ListServices(page, size)
    [] list = "businesses"    -> ListBusinesses(page, size)
    [] list = "professionals" -> ListProfessionals(page, size)
    [] list = "appointments"  -> ListAppointments(page, size)
    [] list = "plans"         -> ListPlans(page, size)
    [] list = "memberships"   -> ListMemberships(page, size)
    [] list = "conversations" -> ListConversations(page, size)
    [] list = "transfers"     -> ListTransfers(page, size)

Pages(total, size) == (total + size - 1) \div size

----------------------------------------------------------------------------
(* The reader: page after page, as long as the last answer says there are  *)
(* more.  stay: rows listed all the while and never moved; tied: rows that *)
(* shared their place in the order with another one; lost and grown:       *)
(* something left, or joined, the part already read.                       *)

StartWalk(list, size) ==
  /\ walk.pc = "idle"
  /\ walk' = [pc |-> "list", list |-> list, page |-> 1, size |-> size,
              seen |-> [r \in Rows |-> 0], stay |-> Listed, tied |-> {},
              lost |-> FALSE, grown |-> FALSE, changes |-> 0]
  /\ UNCHANGED shelf

ReadPage ==
  /\ walk.pc = "list"
  /\ \E f \in Orders(walk.list) :
       LET page == {f[i] : i \in Places(walk.list, walk.page, walk.size) \cap DOMAIN f}
       IN  walk' = [walk EXCEPT
             !.pc = "count",
             !.seen = [r \in Rows |-> IF r \in page /\ @[r] < 2 THEN @[r] + 1 ELSE @[r]],
             !.tied = @ \cup {r \in Listed :
                                \E q \in Listed \ {r} : By(walk.list, q) = By(walk.list, r)}]
  /\ UNCHANGED shelf

\* The total is counted after the page was read; the answer says how many pages
\* there are.
CountRows ==
  /\ walk.pc = "count"
  /\ walk' = IF walk.page < Pages(Cardinality(Listed), walk.size)
             THEN [walk EXCEPT !.pc = "list", !.page = @ + 1]
             ELSE [walk EXCEPT !.pc = "done"]
  /\ UNCHANGED shelf

----------------------------------------------------------------------------
(* What happens to the rows meanwhile.                                     *)

Meanwhile == walk.pc \in {"list", "count"} /\ walk.changes < MaxChanges

Change(new, stay, lost, grown) ==
  /\ shelf' = new
  /\ walk' = [walk EXCEPT !.stay = @ \cap stay, !.lost = @ \/ lost, !.grown = @ \/ grown,
                          !.changes = @ + 1]

\* A row is created or passes the filter again; a new conversation and a new
\* transfer are the newest ones.
Appear(r) ==
  \E k \in Keys :
    /\ Meanwhile
    /\ r \notin Listed
    /\ walk.list \in {"conversations", "transfers"} => \A q \in Listed : shelf[q].key <= k
    /\ Change([shelf EXCEPT ![r] = [on |-> TRUE, key |-> k]], Rows \ {r}, FALSE, TRUE)

\* It is deactivated or leaves the filter (day, status); nothing hides a
\* conversation, and no transfer is resolved in the database.
Disappear(r) ==
  /\ Meanwhile
  /\ r \in Listed
  /\ walk.list \notin {"conversations", "transfers"}
  /\ Change([shelf EXCEPT ![r].on = FALSE], Rows \ {r}, TRUE, FALSE)

\* Its key changes: a reschedule, a new price, a renewal, a new message.
MoveRow(r) ==
  \E k \in Keys :
    /\ Meanwhile
    /\ r \in Listed
    /\ k # shelf[r].key
    /\ walk.list \in {"appointments", "plans", "memberships", "conversations"}
    /\ walk.list = "conversations" => \A q \in Listed : shelf[q].key <= k
    /\ Change([shelf EXCEPT ![r].key = k], Rows \ {r}, TRUE, TRUE)

ListingInit ==
  /\ shelf \in [Rows -> [on : BOOLEAN, key : Keys]]
  /\ \A r \in Rows : ~shelf[r].on => shelf[r].key = CHOOSE k \in Keys : TRUE
  /\ walk = [pc |-> "idle"]

ListingNext ==
  \/ \E list \in Lists, size \in Sizes : StartWalk(list, size)
  \/ ReadPage
  \/ CountRows
  \/ \E r \in Rows : Appear(r) \/ Disappear(r) \/ MoveRow(r)

ListingSpec == ListingInit /\ [][ListingNext]_listVars

----------------------------------------------------------------------------
\* Whoever goes through all pages of a list misses a row that was there all the time
\* only if another row left or moved meanwhile, and gets it twice only if one joined
\* or moved, unless the order of the query does not tell it from another row: the
\* pages of services, businesses and professionals, which have no order, promise
\* nothing as soon as there are two rows.
WalkShiftsOnly ==
  walk.pc = "done" =>
    \A r \in walk.stay \ walk.tied :
      /\ walk.seen[r] = 0 => walk.lost
      /\ walk.seen[r] > 1 => walk.grown
=============================================================================
