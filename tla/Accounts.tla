------------------------------ MODULE Accounts ------------------------------
(***************************************************************************)
(* From signing up to a business that takes bookings: a tenant and its     *)
(* administrator are registered, the address is verified with the token of *)
(* a message, and the wizard furnishes a business and makes the tenant     *)
(* active.  Beside it, the administrator creates businesses with the form, *)
(* which asks for no status, signs in, and keeps a session alive with      *)
(* refresh tokens.  What becomes of a business afterwards (edits, hours,   *)
(* services, deletion) is in Edits and Replacement: nothing here reads it. *)
(*                                                                         *)
(* Every request is one database transaction at READ COMMITTED, or a few   *)
(* calls to Redis.  A request in txn has read what it carries and has not  *)
(* committed anything yet, but for one that is about to send its message.  *)
(*                                                                         *)
(* knew is a history variable: what was stored when the request that       *)
(* created a row looked.  So is the field by of a business.                *)
(***************************************************************************)
EXTENDS Integers, Sequences, FiniteSets

CONSTANTS
  Tenants,      \* pool of tenant identifiers (bounds the registrations)
  Businesses,   \* pool of business identifiers
  Emails,       \* addresses as they are typed
  Lower,        \* Lower[e]: the address in lower case
  Names,        \* names a slug is made from
  Slugs,
  SlugsOf,      \* SlugsOf[name]: the slugs tried for a name (bounds the suffixes)
  Tokens,       \* pool of refresh tokens
  Txns

ASSUME AccountsAssumption ==
  /\ Lower \in [Emails -> Emails]
  /\ SlugsOf \in [Names -> Seq(Slugs) \ {<<>>}]
  /\ Tenants \cap Businesses = {}

VARIABLES
  tenants,    \* committed rows of the tenants table
  users,      \* committed administrators, by tenant
  inbox,      \* tenants whose verification message arrived
  places,     \* committed businesses, as they were created
  access,     \* tenants whose administrator holds a valid access token
  sessions,   \* refresh tokens in Redis, and whose they are
  txn,        \* requests in progress
  knew

vars == <<tenants, users, inbox, places, access, sessions, txn, knew>>

Statuses == {"pending_verification", "onboarding", "active"}

TenantRow == [email : Emails, slug : Slugs, status : Statuses]

\* token: the verification token in the row, if any, and whether its day is over.
UserRow == [email : Emails, token : {"none", "fresh", "expired"}, verified : BOOLEAN]

Days == 0 .. 6

Place == [tenant : Tenants, by : {"form", "wizard"}, open : SUBSET Days, services : Nat]

Idle == [pc |-> "idle"]

Signup == [pc : {"slug", "insert", "commit"}, email : Emails, name : Names,
           slug : Slugs, known : SUBSET Tenants]

Message == [pc : {"mail"}, tenant : Tenants]

Verification == [pc : {"consume", "transition", "verify"}, tenant : Tenants,
                 row : TenantRow]

Setup == [pc : {"furnish"}, tenant : Tenants, row : TenantRow,
          known : SUBSET Businesses]

TypeOK ==
  /\ DOMAIN tenants \subseteq Tenants
  /\ tenants \in [DOMAIN tenants -> TenantRow]
  /\ users \in [DOMAIN tenants -> UserRow]
  /\ inbox \subseteq DOMAIN tenants
  /\ DOMAIN places \subseteq Businesses
  /\ places \in [DOMAIN places -> Place]
  /\ access \subseteq DOMAIN tenants
  /\ DOMAIN sessions \subseteq Tokens
  /\ sessions \in [DOMAIN sessions -> DOMAIN tenants]
  /\ txn \in [Txns -> Signup \cup Message \cup Verification \cup Setup \cup {Idle}]
  /\ knew \in [DOMAIN tenants \cup DOMAIN places -> SUBSET (Tenants \cup Businesses)]

----------------------------------------------------------------------------
\* Slip: the address is compared as it was typed.
EmailExistsAsTyped(e) == \E t \in DOMAIN tenants : tenants[t].email = e

\* email_exists: tenants keep the address in lower case.
EmailExists(e) == \E t \in DOMAIN tenants : tenants[t].email = Lower[e]

SlugExists(slug) == \E t \in DOMAIN tenants : tenants[t].slug = slug

\* The first suffix whose slug is free; too many of them are refused.
FirstFree(name) ==
  {k \in DOMAIN SlugsOf[name] :
     /\ ~SlugExists(SlugsOf[name][k])
     /\ \A j \in 1 .. (k - 1) : SlugExists(SlugsOf[name][j])}

\* Registrations in progress never outnumber the identifiers left.
IdsLeft ==
  Cardinality(DOMAIN tenants)
    + Cardinality({r \in Txns : txn[r].pc \in {"slug", "insert", "commit"}})
    < Cardinality(Tenants)

\* Neither do the wizards.
PlacesLeft ==
  Cardinality(DOMAIN places) + Cardinality({r \in Txns : txn[r].pc = "furnish"})
    < Cardinality(Businesses)

PlacesOf(t) == {b \in DOMAIN places : places[b].tenant = t}

ByWizard(b) == places[b].by = "wizard"

\* The next identifier of a pool, if any: which one it is makes no difference.
NextOf(pool, used) == {x \in pool \ used : x = CHOOSE y \in pool \ used : TRUE}

Extended(f, x, v) == [y \in DOMAIN f \cup {x} |-> IF y = x THEN v ELSE f[y]]

Without(f, x) == [y \in DOMAIN f \ {x} |-> f[y]]

----------------------------------------------------------------------------
Step(r, request) == txn' = [txn EXCEPT ![r] = request]

Rollback(r) ==
  /\ Step(r, Idle)
  /\ UNCHANGED <<tenants, users, inbox, places, access, sessions, knew>>

Begin(r, request) ==
  /\ txn[r].pc = "idle"
  /\ Step(r, request)
  /\ UNCHANGED <<tenants, users, inbox, places, access, sessions, knew>>

Proceed(r, request) ==
  /\ Step(r, request)
  /\ UNCHANGED <<tenants, users, inbox, places, access, sessions, knew>>

----------------------------------------------------------------------------
(* Registration.                                                           *)

BeginSignup(r) ==
  \E e \in Emails, n \in Names, s \in Slugs :
    /\ IdsLeft
    /\ ~EmailExists(e)
    /\ s = SlugsOf[n][1]
    /\ Begin(r, [pc |-> "slug", email |-> e, name |-> n, slug |-> s,
                 known |-> DOMAIN tenants])

ResolveSlug(r) ==
  /\ txn[r].pc = "slug"
  /\ \E k \in FirstFree(txn[r].name) :
       Proceed(r, [txn[r] EXCEPT !.pc = "insert", !.slug = SlugsOf[txn[r].name][k]])

RejectSlug(r) ==
  /\ txn[r].pc = "slug"
  /\ FirstFree(txn[r].name) = {}
  /\ Rollback(r)

\* Another registration has inserted this slug and not committed yet.
SlugTaken(r) ==
  \E q \in Txns : txn[q].pc = "commit" /\ txn[q].slug = txn[r].slug

\* The unique index on slugs makes the insert wait for the other one.
InsertTenant(r) ==
  /\ txn[r].pc = "insert"
  /\ ~SlugExists(txn[r].slug)
  /\ ~SlugTaken(r)
  /\ Proceed(r, [txn[r] EXCEPT !.pc = "commit"])

RejectInsert(r) ==
  /\ txn[r].pc = "insert"
  /\ SlugExists(txn[r].slug)
  /\ Rollback(r)

Registered(r) ==
  [email |-> Lower[txn[r].email], slug |-> txn[r].slug, status |-> "pending_verification"]

\* The user keeps the address as it was typed.
AdminUser(r) == [email |-> txn[r].email, token |-> "none", verified |-> FALSE]

\* issue_for: a token for the administrator, good for a day.
Issued(user) == [user EXCEPT !.token = "fresh"]

CommitSignup(r) ==
  /\ txn[r].pc = "commit"
  /\ \E t \in NextOf(Tenants, DOMAIN tenants) :
       /\ tenants' = Extended(tenants, t, Registered(r))
       /\ users' = Extended(users, t, Issued(AdminUser(r)))
       /\ knew' = Extended(knew, t, txn[r].known)
       /\ Step(r, [pc |-> "mail", tenant |-> t])
  /\ UNCHANGED <<inbox, places, access, sessions>>

\* The message is sent after the commit; when that fails it is only logged.
SendMail(r) ==
  /\ txn[r].pc = "mail"
  /\ inbox' \in {inbox, inbox \cup {txn[r].tenant}}
  /\ Step(r, Idle)
  /\ UNCHANGED <<tenants, users, places, access, sessions, knew>>

----------------------------------------------------------------------------
(* Verification of the address.                                            *)

Usable(t) == users[t].token = "fresh"

BeginVerify(r) ==
  \E t \in inbox :
    /\ Usable(t)
    /\ Begin(r, [pc |-> "consume", tenant |-> t, row |-> tenants[t]])

\* Slip: whoever has found the token counts as holding the row.
UserLockedByReaders(t) ==
  \E q \in Txns : txn[q].pc \in {"consume", "transition", "verify"} /\ txn[q].tenant = t

UserLocked(t) ==
  \E q \in Txns : txn[q].pc \in {"transition", "verify"} /\ txn[q].tenant = t

\* The token is cleared, not committed: the row of the user stays locked.
Consume(r) ==
  /\ txn[r].pc = "consume"
  /\ ~UserLocked(txn[r].tenant)
  /\ Proceed(r, [txn[r] EXCEPT !.pc = "transition"])

Verified(row) == [row EXCEPT !.status = "onboarding"]

\* Slip: the tenant is used as it was when the link was opened.
ReadTenantEarly(r) ==
  /\ txn[r].pc = "transition"
  /\ txn[r].row.status = "pending_verification"
  /\ Proceed(r, [txn[r] EXCEPT !.pc = "verify", !.row = Verified(@)])

ReadTenant(r) ==
  LET row == tenants[txn[r].tenant] IN
  /\ txn[r].pc = "transition"
  /\ row.status = "pending_verification"
  /\ Proceed(r, [txn[r] EXCEPT !.pc = "verify", !.row = Verified(row)])

\* A tenant verified meanwhile: the token is not consumed after all.
RejectVerify(r) ==
  /\ txn[r].pc = "transition"
  /\ tenants[txn[r].tenant].status # "pending_verification"
  /\ Rollback(r)

\* Slip: the token was committed on its own, and the tenant is left for later.
CommitTokenOnly(r) ==
  LET t == txn[r].tenant IN
  /\ txn[r].pc = "verify"
  /\ users' = [users EXCEPT ![t] = [@ EXCEPT !.token = "none", !.verified = TRUE]]
  /\ Step(r, Idle)
  /\ UNCHANGED <<tenants, inbox, places, access, sessions, knew>>

CommitVerify(r) ==
  LET t == txn[r].tenant IN
  /\ txn[r].pc = "verify"
  /\ users' = [users EXCEPT ![t] = [@ EXCEPT !.token = "none", !.verified = TRUE]]
  /\ tenants' = [tenants EXCEPT ![t] = txn[r].row]
  /\ Step(r, Idle)
  /\ UNCHANGED <<inbox, places, access, sessions, knew>>

ExpireToken(t) ==
  /\ users[t].token = "fresh"
  /\ users' = [users EXCEPT ![t].token = "expired"]
  /\ UNCHANGED <<tenants, inbox, places, access, sessions, txn, knew>>

----------------------------------------------------------------------------
(* The wizard.                                                             *)

Activated(row) == [row EXCEPT !.status = "active"]

\* The tenant is read, and moved in memory, before the transaction writes.
BeginSetup(r) ==
  \E t \in access :
    /\ PlacesLeft
    /\ tenants[t].status = "onboarding"
    /\ Begin(r, [pc |-> "furnish", tenant |-> t,
                 row |-> Activated(tenants[t]),
                 known |-> PlacesOf(t)])

\* Monday to Saturday; every industry has at least one service to start with.
DefaultPlace(t) == [tenant |-> t, by |-> "wizard", open |-> Days \ {6}, services |-> 1]

\* Slip: the unit of work ends before the tenant is updated.
FurnishOnly(r) ==
  LET t == txn[r].tenant IN
  /\ txn[r].pc = "furnish"
  /\ \E b \in NextOf(Businesses, DOMAIN places) :
       /\ places' = Extended(places, b, DefaultPlace(t))
       /\ knew' = Extended(knew, b, txn[r].known)
  /\ Step(r, Idle)
  /\ UNCHANGED <<tenants, users, inbox, access, sessions>>

Furnish(r) ==
  LET t == txn[r].tenant IN
  /\ txn[r].pc = "furnish"
  /\ \E b \in NextOf(Businesses, DOMAIN places) :
       /\ places' = Extended(places, b, DefaultPlace(t))
       /\ knew' = Extended(knew, b, txn[r].known)
  /\ tenants' = [tenants EXCEPT ![t] = txn[r].row]
  /\ Step(r, Idle)
  /\ UNCHANGED <<users, inbox, access, sessions>>

BarePlace(t) == [tenant |-> t, by |-> "form", open |-> {}, services |-> 0]

\* The form: whatever the status of the tenant is, and nothing changes it.
CreateBusiness(t) ==
  /\ PlacesLeft
  /\ \E b \in NextOf(Businesses, DOMAIN places) :
       /\ places' = Extended(places, b, BarePlace(t))
       /\ knew' = Extended(knew, b, {})
  /\ UNCHANGED <<tenants, users, inbox, access, sessions, txn>>

----------------------------------------------------------------------------
(* Signing in.                                                             *)

\* get_by_email, as typed at registration; two matches are an error.
UserByEmail(e) ==
  LET found == {t \in DOMAIN users : users[t].email = e}
  IN  IF Cardinality(found) = 1 THEN found ELSE {}

Login ==
  \E e \in Emails, x \in Tokens \ DOMAIN sessions : \E t \in UserByEmail(e) :
    /\ access' = access \cup {t}
    /\ sessions' = Extended(sessions, x, t)
    /\ UNCHANGED <<tenants, users, inbox, places, txn, knew>>

Forget(x) ==
  /\ sessions' = Without(sessions, x)
  /\ UNCHANGED <<tenants, users, inbox, places, access, txn, knew>>

\* The old token is deleted, and then the new access token is asked for without the
\* address it needs: the request fails before a new refresh token is stored.
Refresh(x) == Forget(x)

Logout(x) == Forget(x)

\* Seven days without use.
ExpireSession(x) == Forget(x)

ExpireAccess(t) ==
  /\ access' = access \ {t}
  /\ UNCHANGED <<tenants, users, inbox, places, sessions, txn, knew>>

----------------------------------------------------------------------------
\* The client goes away or the process dies.
Disconnect(r) == txn[r].pc # "idle" /\ Rollback(r)

Init ==
  /\ tenants = <<>>
  /\ users = <<>>
  /\ inbox = {}
  /\ places = <<>>
  /\ access = {}
  /\ sessions = <<>>
  /\ txn = [r \in Txns |-> Idle]
  /\ knew = <<>>

Arrive(r) == BeginSignup(r) \/ BeginVerify(r) \/ BeginSetup(r)

Run(r) ==
  \/ ResolveSlug(r)
  \/ RejectSlug(r)
  \/ InsertTenant(r)
  \/ RejectInsert(r)
  \/ CommitSignup(r)
  \/ SendMail(r)
  \/ Consume(r)
  \/ ReadTenant(r)
  \/ RejectVerify(r)
  \/ CommitVerify(r)
  \/ Furnish(r)

Next ==
  \/ \E r \in Txns : Arrive(r) \/ Run(r) \/ Disconnect(r)
  \/ \E t \in DOMAIN tenants : ExpireToken(t)
  \/ \E t \in access : CreateBusiness(t) \/ ExpireAccess(t)
  \/ \E x \in DOMAIN sessions : Refresh(x) \/ Logout(x) \/ ExpireSession(x)
  \/ Login

Spec == Init /\ [][Next]_vars

\* The database runs what it is asked to run, and gives a row or a key that is
\* waited for to each waiter in turn.
Fairness == \A r \in Txns : SF_vars(Run(r))

FairSpec == Spec /\ Fairness

----------------------------------------------------------------------------
\* The link of the message is used up exactly when the account is verified: an
\* attempt that fails, or loses the race against another one, leaves neither
\* half of the change behind.
VerifiedTogether ==
  \A t \in DOMAIN tenants :
    /\ users[t].verified <=> users[t].token = "none"
    /\ users[t].verified <=> tenants[t].status # "pending_verification"

Rank(status) ==
  CASE status = "pending_verification" -> 0 [] status = "onboarding" -> 1 [] OTHER -> 2

\* The lifecycle of a tenant never runs backwards, although its row is written
\* from what a request read before: the lock on the user orders two verifications,
\* and the wizard only starts from what a verification committed.
NoStepBack ==
  [][\A t \in DOMAIN tenants : Rank(tenants'[t].status) >= Rank(tenants[t].status)]_vars

\* Neither the address of an account nor the one business of the wizard has a
\* unique key.  Two accounts with one address, however it is spelt, and a second
\* business from the wizard, come from requests that both looked before either
\* stored anything, and from nothing else.
DuplicatesNeedARace ==
  /\ \A t, u \in DOMAIN tenants :
       t # u /\ tenants[t].email = tenants[u].email => t \notin knew[u]
  /\ \A b, c \in DOMAIN places :
       b # c /\ places[b].tenant = places[c].tenant /\ ByWizard(b) /\ ByWizard(c)
         => b \notin knew[c]

\* The wizard is all or nothing: a tenant is active exactly when a wizard has
\* stored a business for it, created with a day to book on and a service to book,
\* and one that is cut short, or runs beside another one or beside a verification,
\* leaves neither half.  A business of the form makes nobody active.  (What the
\* administrator closes or deletes later is not the wizard's.)
ActiveByWizard ==
  /\ \A t \in DOMAIN tenants :
       tenants[t].status = "active" <=> \E b \in PlacesOf(t) : ByWizard(b)
  /\ \A b \in DOMAIN places :
       ByWizard(b) => places[b].open # {} /\ places[b].services > 0

\* Every request ends, whatever it waits for.
EveryRequestEnds ==
  \A r \in Txns : (txn[r].pc # "idle") ~> (txn[r].pc = "idle")
=============================================================================
