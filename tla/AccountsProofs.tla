--------------------------- MODULE AccountsProofs ---------------------------
(***************************************************************************)
(* Theorems about Accounts, for any number of tenants and of requests at   *)
(* a time: the types, that the two halves of a verification go together,   *)
(* that a tenant never steps back, that the wizard is all or nothing, and  *)
(* where duplicates come from.                                             *)
(***************************************************************************)
EXTENDS Accounts, TLAPS

----------------------------------------------------------------------------
(* The inductive invariant.                                                *)

SignupPCs == {"slug", "insert", "commit"}

LockPCs == {"transition", "verify"}

VerifyPCs == {"consume"} \cup LockPCs

\* The businesses of the form.
Forms == {b \in DOMAIN places : ~ByWizard(b)}

\* What a request in progress has read still describes the rows it will write.
Sound(q) ==
  /\ q.pc \in SignupPCs =>
       /\ q \in Signup
       /\ q.known \subseteq DOMAIN tenants
       /\ \A t \in q.known : tenants[t].email # Lower[q.email]
  /\ q.pc = "mail" => q \in Message /\ q.tenant \in DOMAIN tenants
  /\ q.pc \in VerifyPCs => q \in Verification /\ q.tenant \in DOMAIN tenants
  /\ q.pc = "verify" =>
       /\ tenants[q.tenant].status = "pending_verification"
       /\ q.row = Verified(tenants[q.tenant])
  /\ q.pc = "furnish" =>
       /\ q \in Setup
       /\ q.tenant \in DOMAIN tenants
       /\ tenants[q.tenant].status # "pending_verification"
       /\ q.row = Activated(tenants[q.tenant])
       /\ q.known \subseteq Forms

\* One request holds the row of a user.
OneHolder ==
  \A r, q \in Txns :
    (txn[r].pc \in LockPCs /\ txn[q].pc \in LockPCs /\ txn[r].tenant = txn[q].tenant)
      => r = q

\* Businesses belong to tenants; what was known was there; a wizard knew of no
\* business of another wizard.
Rooted ==
  /\ \A b \in DOMAIN places : places[b].tenant \in DOMAIN tenants /\ knew[b] \subseteq Forms
  /\ \A t \in DOMAIN tenants : knew[t] \subseteq DOMAIN tenants

Requests == Signup \cup Message \cup Verification \cup Setup \cup {Idle}

AccountInv ==
  /\ TypeOK
  /\ \A r \in Txns : Sound(txn[r])
  /\ OneHolder
  /\ Rooted
  /\ VerifiedTogether
  /\ ActiveByWizard
  /\ DuplicatesNeedARace

----------------------------------------------------------------------------
(* Lemmas about requests.                                                  *)

\* Taking up, carrying on and giving up a request write no row.
LEMMA RequestStep ==
  ASSUME AccountInv, NEW r \in Txns, NEW q \in Requests,
         txn' = [txn EXCEPT ![r] = q], Sound(q),
         q.pc \in LockPCs =>
           \A s \in Txns \ {r} : txn[s].pc \in LockPCs => txn[s].tenant # q.tenant,
         inbox' \subseteq DOMAIN tenants, access' \subseteq DOMAIN tenants,
         DOMAIN sessions' \subseteq Tokens,
         sessions' \in [DOMAIN sessions' -> DOMAIN tenants],
         UNCHANGED <<tenants, users, places, knew>>
  PROVE  AccountInv'
<1>1. /\ txn' \in [Txns -> Requests]
      /\ txn'[r] = q
      /\ \A s \in Txns \ {r} : txn'[s] = txn[s]
  BY DEF AccountInv, TypeOK, Requests
<1>2. TypeOK'
  BY <1>1 DEF AccountInv, TypeOK, Requests
<1>3. (\A s \in Txns : Sound(txn[s]))'
  BY <1>1 DEF AccountInv, Sound, Forms, ByWizard
<1>4. OneHolder'
  BY <1>1 DEF AccountInv, OneHolder
<1>5. Rooted' /\ VerifiedTogether'
  BY DEF AccountInv, Rooted, VerifiedTogether, Forms, ByWizard
<1>6. ActiveByWizard' /\ DuplicatesNeedARace'
  BY DEF AccountInv, ActiveByWizard, PlacesOf, ByWizard, DuplicatesNeedARace
<1> QED
  BY <1>2, <1>3, <1>4, <1>5, <1>6 DEF AccountInv

\* Nothing is taken up: sessions and access come and go.
LEMMA SessionStep ==
  ASSUME AccountInv,
         access' \subseteq DOMAIN tenants, DOMAIN sessions' \subseteq Tokens,
         sessions' \in [DOMAIN sessions' -> DOMAIN tenants],
         UNCHANGED <<tenants, users, inbox, places, txn, knew>>
  PROVE  AccountInv'
<1>1. TypeOK'
  BY DEF AccountInv, TypeOK
<1>2. (\A s \in Txns : Sound(txn[s]))'
  BY DEF AccountInv, Sound, Forms, ByWizard
<1>3. OneHolder' /\ Rooted' /\ VerifiedTogether'
  BY DEF AccountInv, OneHolder, Rooted, VerifiedTogether, Forms, ByWizard
<1>4. ActiveByWizard' /\ DuplicatesNeedARace'
  BY DEF AccountInv, ActiveByWizard, PlacesOf, ByWizard, DuplicatesNeedARace
<1> QED
  BY <1>1, <1>2, <1>3, <1>4 DEF AccountInv

\* A request that goes on without touching anything else.
LEMMA ProceedStep ==
  ASSUME AccountInv, NEW r \in Txns, NEW q \in Requests, Proceed(r, q), Sound(q),
         q.pc \in LockPCs =>
           \A s \in Txns \ {r} : txn[s].pc \in LockPCs => txn[s].tenant # q.tenant
  PROVE  AccountInv'
<1>1. /\ txn' = [txn EXCEPT ![r] = q]
      /\ UNCHANGED <<tenants, users, inbox, places, access, sessions, knew>>
  BY DEF Proceed, Step
<1>2. /\ inbox' \subseteq DOMAIN tenants /\ access' \subseteq DOMAIN tenants
      /\ DOMAIN sessions' \subseteq Tokens
      /\ sessions' \in [DOMAIN sessions' -> DOMAIN tenants]
  BY <1>1 DEF AccountInv, TypeOK
<1> QED
  BY <1>1, <1>2, RequestStep

LEMMA IdleSound == Idle \in Requests /\ Idle.pc = "idle" /\ Sound(Idle)
BY DEF Idle, Requests, Sound, SignupPCs, VerifyPCs, LockPCs

LEMMA RollbackStep ==
  ASSUME AccountInv, NEW r \in Txns, Rollback(r)
  PROVE  AccountInv'
<1>1. Proceed(r, Idle)
  BY DEF Rollback, Proceed
<1>2. Idle.pc \notin LockPCs
  BY IdleSound DEF LockPCs
<1> QED
  BY <1>1, <1>2, IdleSound, ProceedStep

\* What a request in progress is, by where it stands.
LEMMA RequestSound ==
  ASSUME AccountInv, NEW r \in Txns
  PROVE  /\ Sound(txn[r])
         /\ txn[r].pc \in SignupPCs => txn[r] \in Signup
         /\ txn[r].pc \in VerifyPCs => txn[r] \in Verification
         /\ \A t \in DOMAIN tenants :
              tenants[t] \in TenantRow /\ users[t] \in UserRow /\ t \in Tenants
BY DEF AccountInv, Sound, TypeOK

----------------------------------------------------------------------------
(* The steps before a commit.                                              *)

\* What is known when a registration starts has no tenant of its address.
LEMMA SignupBegins ==
  ASSUME AccountInv, NEW r \in Txns, BeginSignup(r)
  PROVE  AccountInv'
<1>1. PICK e \in Emails, n \in Names, s \in Slugs :
        /\ ~EmailExists(e)
        /\ Begin(r, [pc |-> "slug", email |-> e, name |-> n, slug |-> s,
                     known |-> DOMAIN tenants])
  BY DEF BeginSignup
<1> DEFINE q == [pc |-> "slug", email |-> e, name |-> n, slug |-> s,
                 known |-> DOMAIN tenants]
<1>2. q \in Signup
  BY DEF Signup, AccountInv, TypeOK
<1>3. Sound(q)
  BY <1>1, <1>2 DEF Sound, EmailExists, VerifyPCs, LockPCs
<1>4. q \in Requests /\ q.pc \notin LockPCs /\ Proceed(r, q)
  BY <1>1, <1>2 DEF Requests, LockPCs, Begin, Proceed
<1> QED
  BY <1>3, <1>4, ProceedStep

\* A slug is found, or the row is inserted.
LEMMA SignupProceeds ==
  ASSUME AccountInv, NEW r \in Txns, ResolveSlug(r) \/ InsertTenant(r)
  PROVE  AccountInv'
<1>1. txn[r].pc \in SignupPCs /\ txn[r] \in Signup
  BY RequestSound DEF ResolveSlug, InsertTenant, SignupPCs
<1>2. PICK pc \in SignupPCs, s \in Slugs :
        Proceed(r, [txn[r] EXCEPT !.pc = pc, !.slug = s])
  <2>1. CASE ResolveSlug(r)
    <3>1. PICK k \in FirstFree(txn[r].name) :
            Proceed(r, [txn[r] EXCEPT !.pc = "insert", !.slug = SlugsOf[txn[r].name][k]])
      BY <2>1 DEF ResolveSlug
    <3>2. SlugsOf[txn[r].name][k] \in Slugs
      BY <1>1, AccountsAssumption DEF FirstFree, Signup
    <3> QED
      BY <3>1, <3>2 DEF SignupPCs
  <2>2. CASE InsertTenant(r)
    <3>1. [txn[r] EXCEPT !.pc = "commit"]
            = [txn[r] EXCEPT !.pc = "commit", !.slug = txn[r].slug]
      BY <1>1 DEF Signup
    <3> QED
      BY <1>1, <2>2, <3>1 DEF InsertTenant, SignupPCs, Signup
  <2> QED
    BY <2>1, <2>2
<1> DEFINE q == [txn[r] EXCEPT !.pc = pc, !.slug = s]
<1>3. /\ q \in Signup /\ q.pc = pc
      /\ q.known = txn[r].known /\ q.email = txn[r].email
  BY <1>1, <1>2 DEF Signup, SignupPCs
<1> HIDE DEF q
<1>4. Sound(q)
  BY <1>1, <1>3, RequestSound DEF Sound, SignupPCs, VerifyPCs, LockPCs
<1>5. q \in Requests /\ q.pc \notin LockPCs /\ Proceed(r, q)
  BY <1>2, <1>3 DEF Requests, SignupPCs, LockPCs, q
<1> QED
  BY <1>4, <1>5, ProceedStep

LEMMA VerifyBegins ==
  ASSUME AccountInv, NEW r \in Txns, BeginVerify(r)
  PROVE  AccountInv'
<1>1. PICK t \in inbox :
        Begin(r, [pc |-> "consume", tenant |-> t, row |-> tenants[t]])
  BY DEF BeginVerify
<1> DEFINE q == [pc |-> "consume", tenant |-> t, row |-> tenants[t]]
<1>2. q \in Verification /\ t \in DOMAIN tenants
  BY DEF Verification, AccountInv, TypeOK
<1>3. Sound(q)
  BY <1>2 DEF Sound, SignupPCs, VerifyPCs, LockPCs
<1>4. q \in Requests /\ q.pc \notin LockPCs /\ Proceed(r, q)
  BY <1>1, <1>2 DEF Requests, LockPCs, Begin, Proceed
<1> QED
  BY <1>3, <1>4, ProceedStep

\* The row of the user is locked: nobody else is past this.
LEMMA Consumes ==
  ASSUME AccountInv, NEW r \in Txns, Consume(r)
  PROVE  AccountInv'
<1> DEFINE q == [txn[r] EXCEPT !.pc = "transition"]
<1>1. /\ txn[r] \in Verification /\ txn[r].tenant \in DOMAIN tenants
      /\ ~UserLocked(txn[r].tenant) /\ Proceed(r, q)
  BY RequestSound DEF Consume, Sound, VerifyPCs
<1>2. q \in Verification /\ q.pc = "transition" /\ q.tenant = txn[r].tenant
  BY <1>1 DEF Verification
<1> HIDE DEF q
<1>3. Sound(q)
  BY <1>1, <1>2 DEF Sound, SignupPCs, VerifyPCs, LockPCs
<1>4. q \in Requests
  BY <1>2 DEF Requests
<1>5. \A s \in Txns \ {r} : txn[s].pc \in LockPCs => txn[s].tenant # q.tenant
  BY <1>1, <1>2 DEF UserLocked, LockPCs
<1> QED
  BY <1>1, <1>3, <1>4, <1>5, ProceedStep

\* The tenant is read under the lock of its user.
LEMMA ReadsTenant ==
  ASSUME AccountInv, NEW r \in Txns, ReadTenant(r)
  PROVE  AccountInv'
<1> DEFINE row == tenants[txn[r].tenant]
           q == [txn[r] EXCEPT !.pc = "verify", !.row = Verified(row)]
<1>1. /\ txn[r].pc = "transition"
      /\ txn[r] \in Verification /\ txn[r].tenant \in DOMAIN tenants
      /\ row.status = "pending_verification" /\ Proceed(r, q)
  BY RequestSound DEF ReadTenant, Sound, VerifyPCs, LockPCs
<1>2. Verified(row) \in TenantRow
  BY <1>1, RequestSound DEF Verified, TenantRow, Statuses
<1>3. /\ q \in Verification /\ q.pc = "verify" /\ q.tenant = txn[r].tenant
      /\ q.row = Verified(row)
  BY <1>1, <1>2 DEF Verification
<1> HIDE DEF q
<1>4. Sound(q)
  BY <1>1, <1>3 DEF Sound, SignupPCs, VerifyPCs, LockPCs
<1>5. q \in Requests
  BY <1>3 DEF Requests
<1>6. \A s \in Txns \ {r} : txn[s].pc \in LockPCs => txn[s].tenant # q.tenant
  BY <1>1, <1>3 DEF AccountInv, OneHolder, LockPCs
<1> QED
  BY <1>1, <1>4, <1>5, <1>6, ProceedStep

\* A tenant that is onboarding has no business of a wizard yet.
LEMMA SetupBegins ==
  ASSUME AccountInv, NEW r \in Txns, BeginSetup(r)
  PROVE  AccountInv'
<1>1. PICK t \in access :
        /\ tenants[t].status = "onboarding"
        /\ Begin(r, [pc |-> "furnish", tenant |-> t, row |-> Activated(tenants[t]),
                     known |-> PlacesOf(t)])
  BY DEF BeginSetup
<1> DEFINE q == [pc |-> "furnish", tenant |-> t, row |-> Activated(tenants[t]),
                 known |-> PlacesOf(t)]
<1>2. t \in DOMAIN tenants /\ PlacesOf(t) \subseteq Forms
  BY <1>1 DEF AccountInv, TypeOK, ActiveByWizard, PlacesOf, Forms
<1>3. Activated(tenants[t]) \in TenantRow
  BY <1>2, RequestSound DEF Activated, TenantRow, Statuses
<1>4. q \in Setup
  BY <1>2, <1>3, RequestSound DEF Setup, Forms, AccountInv, TypeOK
<1>5. Sound(q)
  BY <1>1, <1>2, <1>4 DEF Sound, SignupPCs, VerifyPCs, LockPCs
<1>6. q \in Requests /\ q.pc \notin LockPCs /\ Proceed(r, q)
  BY <1>1, <1>4 DEF Requests, LockPCs, Begin, Proceed
<1> QED
  BY <1>5, <1>6, ProceedStep

----------------------------------------------------------------------------
(* The steps that commit.                                                  *)

\* The new tenant is unknown to every request and every row.
LEMMA SignupCommits ==
  ASSUME AccountInv, NEW r \in Txns, CommitSignup(r)
  PROVE  AccountInv'
<1>1. PICK t \in Tenants \ DOMAIN tenants :
        /\ tenants' = Extended(tenants, t, Registered(r))
        /\ users' = Extended(users, t, Issued(AdminUser(r)))
        /\ knew' = Extended(knew, t, txn[r].known)
        /\ txn' = [txn EXCEPT ![r] = [pc |-> "mail", tenant |-> t]]
        /\ UNCHANGED <<inbox, places, access, sessions>>
  BY DEF CommitSignup, Step, NextOf
<1> DEFINE q == [pc |-> "mail", tenant |-> t]
           new == Registered(r)
           admin == Issued(AdminUser(r))
<1>2. /\ txn[r] \in Signup
      /\ txn[r].known \subseteq DOMAIN tenants
      /\ \A u \in txn[r].known : tenants[u].email # Lower[txn[r].email]
  BY RequestSound DEF CommitSignup, Sound, SignupPCs
<1>3. /\ new \in TenantRow /\ new.status = "pending_verification"
      /\ new.email = Lower[txn[r].email]
  BY <1>2, AccountsAssumption DEF Registered, TenantRow, Statuses, Signup
<1>4. admin \in UserRow /\ admin.token = "fresh" /\ admin.verified = FALSE
  BY <1>2 DEF Issued, AdminUser, UserRow, Signup
<1> HIDE DEF q, new, admin
<1>5. /\ DOMAIN tenants' = DOMAIN tenants \cup {t} /\ tenants'[t] = new
      /\ \A u \in DOMAIN tenants : tenants'[u] = tenants[u]
  BY <1>1 DEF Extended, new
<1>6. /\ DOMAIN users = DOMAIN tenants
      /\ users' \in [DOMAIN tenants' -> UserRow] /\ users'[t] = admin
      /\ \A u \in DOMAIN tenants : users'[u] = users[u]
  <2>1. users \in [DOMAIN tenants -> UserRow]
    BY DEF AccountInv, TypeOK
  <2> QED
    BY <1>1, <1>4, <1>5, <2>1 DEF Extended, admin
<1>7. t \notin DOMAIN places
  BY AccountsAssumption DEF AccountInv, TypeOK
<1>8. /\ DOMAIN knew = DOMAIN tenants \cup DOMAIN places
      /\ knew' \in [DOMAIN tenants' \cup DOMAIN places ->
                      SUBSET (Tenants \cup Businesses)]
      /\ knew'[t] = txn[r].known
      /\ \A x \in DOMAIN tenants \cup DOMAIN places : knew'[x] = knew[x]
  <2>1. /\ knew \in [DOMAIN tenants \cup DOMAIN places -> SUBSET (Tenants \cup Businesses)]
        /\ txn[r].known \in SUBSET Tenants
    BY <1>2 DEF AccountInv, TypeOK
  <2> QED
    BY <1>1, <1>5, <1>7, <2>1 DEF Extended
<1>9. q \in Requests /\ q.pc = "mail" /\ q.tenant = t /\ q \in Message
  BY <1>1 DEF Requests, Message, q
<1>10. /\ txn' \in [Txns -> Requests]
       /\ txn'[r] = q
       /\ \A s \in Txns \ {r} : txn'[s] = txn[s]
  BY <1>1, <1>9 DEF AccountInv, TypeOK, Requests, q
<1>11. TypeOK'
  <2>1. DOMAIN tenants' \subseteq Tenants /\ tenants' \in [DOMAIN tenants' -> TenantRow]
    BY <1>1, <1>3, <1>5 DEF AccountInv, TypeOK, Extended, new
  <2>2. inbox' \subseteq DOMAIN tenants' /\ access' \subseteq DOMAIN tenants'
    BY <1>1, <1>5 DEF AccountInv, TypeOK
  <2>3. DOMAIN sessions' \subseteq Tokens /\ sessions' \in [DOMAIN sessions' -> DOMAIN tenants']
    BY <1>1, <1>5 DEF AccountInv, TypeOK
  <2>4. DOMAIN places' \subseteq Businesses /\ places' \in [DOMAIN places' -> Place]
    BY <1>1 DEF AccountInv, TypeOK
  <2> QED
    BY <1>1, <1>6, <1>8, <1>10, <2>1, <2>2, <2>3, <2>4 DEF TypeOK, Requests
<1>12. (\A s \in Txns : Sound(txn[s]))'
  <2>1. Sound(q)'
    BY <1>5, <1>9 DEF Sound, SignupPCs, VerifyPCs, LockPCs
  <2>2. ASSUME NEW s \in Txns \ {r} PROVE Sound(txn[s])'
    <3>1. Sound(txn[s]) /\ txn'[s] = txn[s]
      BY <1>10, RequestSound
    <3>2. Forms' = Forms
      BY <1>1 DEF Forms, ByWizard
    <3> QED
      BY <1>5, <3>1, <3>2 DEF Sound, SignupPCs, VerifyPCs, LockPCs
  <2> QED
    BY <1>10, <2>1, <2>2
<1>13. OneHolder'
  BY <1>9, <1>10 DEF AccountInv, OneHolder, LockPCs
<1>14. Rooted'
  <2>0. Forms' = Forms
    BY <1>1 DEF Forms, ByWizard
  <2>1. \A b \in DOMAIN places :
          places[b].tenant \in DOMAIN tenants' /\ knew'[b] \subseteq Forms'
    BY <1>5, <1>8, <2>0 DEF AccountInv, Rooted
  <2>2. \A u \in DOMAIN tenants : knew'[u] \subseteq DOMAIN tenants'
    BY <1>5, <1>8 DEF AccountInv, Rooted
  <2> QED
    BY <1>1, <1>2, <1>5, <1>8, <2>1, <2>2 DEF Rooted
<1>15. VerifiedTogether'
  BY <1>3, <1>4, <1>5, <1>6 DEF AccountInv, VerifiedTogether
<1>16. ActiveByWizard'
  <2>1. \A u \in DOMAIN tenants' : PlacesOf(u)' = PlacesOf(u)
    BY <1>1 DEF PlacesOf
  <2>2. PlacesOf(t) = {}
    BY DEF PlacesOf, AccountInv, Rooted
  <2>3. \A b : ByWizard(b)' = ByWizard(b)
    BY <1>1 DEF ByWizard
  <2> QED
    BY <1>1, <1>3, <1>5, <2>1, <2>2, <2>3 DEF AccountInv, ActiveByWizard
<1>17. DuplicatesNeedARace'
  <2>1. \A u \in DOMAIN tenants : tenants'[u].email = new.email => u \notin knew'[t]
    BY <1>2, <1>3, <1>5, <1>8
  <2>2. \A u \in DOMAIN tenants : t \notin knew'[u]
    BY <1>8 DEF AccountInv, Rooted
  <2>3. \A b, c \in DOMAIN places :
          b # c /\ places[b].tenant = places[c].tenant /\ ByWizard(b) /\ ByWizard(c)
            => b \notin knew'[c]
    BY <1>8 DEF AccountInv, DuplicatesNeedARace
  <2> QED
    BY <1>1, <1>5, <1>8, <2>1, <2>2, <2>3 DEF AccountInv, DuplicatesNeedARace, ByWizard
<1> QED
  BY <1>11, <1>12, <1>13, <1>14, <1>15, <1>16, <1>17 DEF AccountInv

\* Both halves of a verification are written under the lock of the user.
LEMMA VerifyCommits ==
  ASSUME AccountInv, NEW r \in Txns, CommitVerify(r)
  PROVE  AccountInv'
<1> DEFINE t == txn[r].tenant
           new == Verified(tenants[t])
           user == [users[t] EXCEPT !.token = "none", !.verified = TRUE]
<1>1. /\ txn[r].pc = "verify" /\ t \in DOMAIN tenants
      /\ tenants[t].status = "pending_verification" /\ txn[r].row = new
  BY RequestSound DEF CommitVerify, Sound, VerifyPCs, LockPCs
<1>2. /\ users' = [users EXCEPT ![t] = user]
      /\ tenants' = [tenants EXCEPT ![t] = new]
      /\ txn' = [txn EXCEPT ![r] = Idle]
      /\ UNCHANGED <<inbox, places, access, sessions, knew>>
  BY <1>1 DEF CommitVerify, Step
<1>3. /\ new \in TenantRow /\ new.status = "onboarding" /\ new.email = tenants[t].email
      /\ user \in UserRow /\ user.token = "none" /\ user.verified = TRUE
  <2>1. tenants[t] \in TenantRow /\ users[t] \in UserRow
    BY <1>1 DEF AccountInv, TypeOK
  <2>2. new \in TenantRow /\ new.status = "onboarding" /\ new.email = tenants[t].email
    <3> DEFINE old == tenants[t]
    <3> SUFFICES Verified(old) \in TenantRow /\ Verified(old).status = "onboarding"
                 /\ Verified(old).email = old.email
      OBVIOUS
    <3>1. old \in TenantRow
      BY <2>1
    <3> HIDE DEF old
    <3> QED
      BY <3>1 DEF Verified, TenantRow, Statuses
  <2> HIDE DEF new
  <2>3. user \in UserRow /\ user.token = "none" /\ user.verified = TRUE
    <3> DEFINE old == users[t]
    <3>1. old \in UserRow /\ user = [old EXCEPT !.token = "none", !.verified = TRUE]
      BY <2>1
    <3> HIDE DEF old, user
    <3> QED
      BY <3>1 DEF UserRow
  <2> QED
    BY <2>2, <2>3
<1> HIDE DEF t, new, user
<1>4. /\ DOMAIN tenants' = DOMAIN tenants /\ tenants'[t] = new
      /\ \A u \in DOMAIN tenants \ {t} : tenants'[u] = tenants[u]
      /\ tenants' \in [DOMAIN tenants -> TenantRow]
  BY <1>1, <1>2, <1>3 DEF AccountInv, TypeOK
<1>5. /\ users' \in [DOMAIN tenants -> UserRow] /\ users'[t] = user
      /\ \A u \in DOMAIN tenants \ {t} : users'[u] = users[u]
  BY <1>1, <1>2, <1>3 DEF AccountInv, TypeOK
<1>6. /\ txn' \in [Txns -> Requests]
      /\ txn'[r] = Idle
      /\ \A s \in Txns \ {r} : txn'[s] = txn[s]
  BY <1>2, IdleSound DEF AccountInv, TypeOK, Requests
<1>7. TypeOK'
  BY <1>2, <1>4, <1>5, <1>6 DEF AccountInv, TypeOK, Requests
<1>8. (\A s \in Txns : Sound(txn[s]))'
  <2>1. Sound(Idle)'
    BY IdleSound DEF Sound, SignupPCs, VerifyPCs, LockPCs
  <2>2. ASSUME NEW s \in Txns \ {r} PROVE Sound(txn[s])'
    <3>1. Sound(txn[s]) /\ txn'[s] = txn[s]
      BY <1>6, RequestSound
    <3>2. txn[s].pc \in LockPCs => txn[s].tenant # t
      BY <1>1 DEF AccountInv, OneHolder, LockPCs, t
    <3>3. \A u \in DOMAIN tenants : tenants'[u].email = tenants[u].email
      BY <1>3, <1>4
    <3>4. txn[s].pc = "furnish" => txn[s].tenant # t
      BY <1>1, <3>1 DEF Sound
    <3>5. Forms' = Forms
      BY <1>2 DEF Forms, ByWizard
    <3> QED
      BY <1>4, <3>1, <3>2, <3>3, <3>4, <3>5 DEF Sound, SignupPCs, VerifyPCs, LockPCs
  <2> QED
    BY <1>6, <2>1, <2>2
<1>9. OneHolder'
  BY <1>6, IdleSound DEF AccountInv, OneHolder, LockPCs
<1>10. Rooted'
  BY <1>2, <1>4 DEF AccountInv, Rooted, Forms, ByWizard
<1>11. VerifiedTogether'
  BY <1>1, <1>3, <1>4, <1>5 DEF AccountInv, VerifiedTogether
<1>12. ActiveByWizard'
  BY <1>1, <1>2, <1>3, <1>4 DEF AccountInv, ActiveByWizard, PlacesOf, ByWizard
<1>13. DuplicatesNeedARace'
  BY <1>2, <1>3, <1>4 DEF AccountInv, DuplicatesNeedARace, ByWizard
<1> QED
  BY <1>7, <1>8, <1>9, <1>10, <1>11, <1>12, <1>13 DEF AccountInv

\* The row that is written back is the row of a verified tenant, made active.
LEMMA Furnishes ==
  ASSUME AccountInv, NEW r \in Txns, Furnish(r)
  PROVE  AccountInv'
<1> DEFINE t == txn[r].tenant
           new == Activated(tenants[t])
           place == DefaultPlace(t)
<1>1. /\ txn[r].pc = "furnish" /\ t \in DOMAIN tenants /\ t \in Tenants
      /\ tenants[t].status # "pending_verification" /\ txn[r].row = new
      /\ txn[r].known \subseteq Forms
  BY RequestSound DEF Furnish, Sound
<1>2. PICK b \in Businesses \ DOMAIN places :
        /\ places' = Extended(places, b, place)
        /\ knew' = Extended(knew, b, txn[r].known)
        /\ tenants' = [tenants EXCEPT ![t] = new]
        /\ txn' = [txn EXCEPT ![r] = Idle]
        /\ UNCHANGED <<users, inbox, access, sessions>>
  BY <1>1 DEF Furnish, Step, NextOf
<1>3. /\ new \in TenantRow /\ new.status = "active" /\ new.email = tenants[t].email
      /\ Activated(new) = new
  BY <1>1, RequestSound DEF Activated, TenantRow, Statuses
<1>4. /\ place \in Place /\ place.tenant = t /\ place.by = "wizard"
      /\ place.open # {} /\ place.services > 0
  <2>1. 0 \in Days \ {6} /\ Days \ {6} \subseteq Days
    BY DEF Days
  <2> QED
    BY <1>1, <2>1 DEF DefaultPlace, Place
<1> HIDE DEF t, new, place
<1>5. /\ DOMAIN tenants' = DOMAIN tenants /\ tenants'[t] = new
      /\ \A u \in DOMAIN tenants \ {t} : tenants'[u] = tenants[u]
      /\ tenants' \in [DOMAIN tenants -> TenantRow]
  BY <1>1, <1>2, <1>3 DEF AccountInv, TypeOK
<1>6. /\ DOMAIN places' = DOMAIN places \cup {b} /\ places'[b] = place
      /\ \A c \in DOMAIN places : places'[c] = places[c]
      /\ DOMAIN places' \subseteq Businesses /\ places' \in [DOMAIN places' -> Place]
  BY <1>2, <1>4 DEF AccountInv, TypeOK, Extended
<1>7. b \notin DOMAIN tenants
  BY <1>2, AccountsAssumption DEF AccountInv, TypeOK
<1>8. /\ knew' \in [DOMAIN tenants \cup DOMAIN places' ->
                      SUBSET (Tenants \cup Businesses)]
      /\ knew'[b] = txn[r].known
      /\ \A x \in DOMAIN tenants \cup DOMAIN places : knew'[x] = knew[x]
  <2>1. knew \in [DOMAIN tenants \cup DOMAIN places -> SUBSET (Tenants \cup Businesses)]
    BY DEF AccountInv, TypeOK
  <2>2. txn[r].known \in SUBSET (Tenants \cup Businesses)
    BY <1>1 DEF Forms, AccountInv, TypeOK
  <2> QED
    BY <1>2, <1>6, <1>7, <2>1, <2>2 DEF Extended
<1>9. /\ txn' \in [Txns -> Requests]
      /\ txn'[r] = Idle
      /\ \A s \in Txns \ {r} : txn'[s] = txn[s]
  BY <1>2, IdleSound DEF AccountInv, TypeOK, Requests
<1>10. /\ \A c \in DOMAIN places : ByWizard(c)' = ByWizard(c)
       /\ ByWizard(b)' /\ Forms' = Forms
  BY <1>2, <1>4, <1>6 DEF ByWizard, Forms
<1>11. TypeOK'
  BY <1>2, <1>5, <1>6, <1>8, <1>9 DEF AccountInv, TypeOK, Requests
<1>12. (\A s \in Txns : Sound(txn[s]))'
  <2>1. Sound(Idle)'
    BY IdleSound DEF Sound, SignupPCs, VerifyPCs, LockPCs
  <2>2. ASSUME NEW s \in Txns \ {r} PROVE Sound(txn[s])'
    <3>1. Sound(txn[s]) /\ txn'[s] = txn[s]
      BY <1>9, RequestSound
    <3>2. txn[s].pc = "verify" => txn[s].tenant # t
      BY <1>1, <3>1 DEF Sound
    <3>3. \A u \in DOMAIN tenants : tenants'[u].email = tenants[u].email
      BY <1>3, <1>5
    <3>4. txn[s].pc = "furnish" =>
            /\ tenants'[txn[s].tenant].status # "pending_verification"
            /\ txn[s].row = Activated(tenants'[txn[s].tenant])
      <4>1. CASE txn[s].tenant = t
        BY <1>3, <1>5, <3>1, <4>1 DEF Sound, new
      <4>2. CASE txn[s].tenant # t
        BY <1>5, <3>1, <4>2 DEF Sound
      <4> QED
        BY <4>1, <4>2
    <3>5. txn[s].pc = "verify" =>
            /\ tenants'[txn[s].tenant].status = "pending_verification"
            /\ txn[s].row = Verified(tenants'[txn[s].tenant])
      BY <1>5, <3>1, <3>2 DEF Sound, VerifyPCs, LockPCs
    <3> QED
      BY <1>5, <1>10, <3>1, <3>3, <3>4, <3>5 DEF Sound, SignupPCs, VerifyPCs, LockPCs
  <2> QED
    BY <1>9, <2>1, <2>2
<1>13. OneHolder'
  BY <1>9, IdleSound DEF AccountInv, OneHolder, LockPCs
<1>14. Rooted'
  BY <1>1, <1>4, <1>5, <1>6, <1>8, <1>10 DEF AccountInv, Rooted
<1>15. VerifiedTogether'
  BY <1>1, <1>2, <1>3, <1>5 DEF AccountInv, VerifiedTogether
<1>16. ActiveByWizard'
  <2>1. \A u \in DOMAIN tenants :
          PlacesOf(u)' = IF u = t THEN PlacesOf(u) \cup {b} ELSE PlacesOf(u)
    BY <1>4, <1>6 DEF PlacesOf
  <2>2. \A c \in DOMAIN places : places'[c] = places[c]
    BY <1>6
  <2>3. \A u \in DOMAIN tenants : PlacesOf(u) \subseteq DOMAIN places
    BY DEF PlacesOf
  <2>4. \A u \in DOMAIN tenants' :
          tenants'[u].status = "active" <=> \E c \in PlacesOf(u)' : ByWizard(c)'
    BY <1>3, <1>5, <1>10, <2>1, <2>3 DEF AccountInv, ActiveByWizard
  <2>5. \A c \in DOMAIN places' :
          ByWizard(c)' => places'[c].open # {} /\ places'[c].services > 0
    BY <1>4, <1>6, <1>10, <2>2 DEF AccountInv, ActiveByWizard
  <2> QED
    BY <2>4, <2>5 DEF ActiveByWizard
<1>17. DuplicatesNeedARace'
  <2>1. \A u, v \in DOMAIN tenants' :
          u # v /\ tenants'[u].email = tenants'[v].email => u \notin knew'[v]
    BY <1>3, <1>5, <1>8 DEF AccountInv, DuplicatesNeedARace
  <2>2. \A c \in DOMAIN places' : knew'[c] \subseteq Forms'
    BY <1>14 DEF Rooted
  <2>3. \A c : ByWizard(c)' => c \notin Forms'
    BY DEF Forms
  <2> QED
    BY <2>1, <2>2, <2>3 DEF DuplicatesNeedARace
<1> QED
  BY <1>11, <1>12, <1>13, <1>14, <1>15, <1>16, <1>17 DEF AccountInv

\* A business of the form: the status of its tenant stays.
LEMMA BusinessCreated ==
  ASSUME AccountInv, NEW t \in access, CreateBusiness(t)
  PROVE  AccountInv'
<1> DEFINE place == BarePlace(t)
<1>1. PICK b \in Businesses \ DOMAIN places :
        /\ places' = Extended(places, b, place)
        /\ knew' = Extended(knew, b, {})
        /\ UNCHANGED <<tenants, users, inbox, access, sessions, txn>>
  BY DEF CreateBusiness, NextOf
<1>2. t \in DOMAIN tenants /\ t \in Tenants
  BY DEF AccountInv, TypeOK
<1>3. place \in Place /\ place.tenant = t /\ place.by = "form"
  BY <1>2 DEF BarePlace, Place
<1> HIDE DEF place
<1>4. /\ DOMAIN places' = DOMAIN places \cup {b} /\ places'[b] = place
      /\ \A c \in DOMAIN places : places'[c] = places[c]
      /\ DOMAIN places' \subseteq Businesses /\ places' \in [DOMAIN places' -> Place]
  BY <1>1, <1>3 DEF AccountInv, TypeOK, Extended
<1>5. b \notin DOMAIN tenants
  BY <1>1, AccountsAssumption DEF AccountInv, TypeOK
<1>6. /\ knew' \in [DOMAIN tenants \cup DOMAIN places' ->
                      SUBSET (Tenants \cup Businesses)]
      /\ knew'[b] = {}
      /\ \A x \in DOMAIN tenants \cup DOMAIN places : knew'[x] = knew[x]
  <2>1. knew \in [DOMAIN tenants \cup DOMAIN places -> SUBSET (Tenants \cup Businesses)]
    BY DEF AccountInv, TypeOK
  <2> QED
    BY <1>1, <1>4, <1>5, <2>1 DEF Extended
<1>7. /\ \A c \in DOMAIN places : ByWizard(c)' = ByWizard(c)
      /\ ~ByWizard(b)' /\ Forms' = Forms \cup {b}
  BY <1>1, <1>3, <1>4 DEF ByWizard, Forms
<1>8. TypeOK'
  BY <1>1, <1>4, <1>6 DEF AccountInv, TypeOK
<1>9. (\A s \in Txns : Sound(txn[s]))'
  BY <1>1, <1>7 DEF AccountInv, Sound
<1>10. OneHolder' /\ VerifiedTogether'
  BY <1>1 DEF AccountInv, OneHolder, VerifiedTogether
<1>11. Rooted'
  BY <1>1, <1>2, <1>3, <1>4, <1>6, <1>7 DEF AccountInv, Rooted
<1>12. ActiveByWizard'
  <2>1. \A u \in DOMAIN tenants :
          PlacesOf(u)' = IF u = t THEN PlacesOf(u) \cup {b} ELSE PlacesOf(u)
    BY <1>3, <1>4 DEF PlacesOf
  <2>2. \A u \in DOMAIN tenants : PlacesOf(u) \subseteq DOMAIN places
    BY DEF PlacesOf
  <2>3. \A u \in DOMAIN tenants' :
          tenants'[u].status = "active" <=> \E c \in PlacesOf(u)' : ByWizard(c)'
    BY <1>1, <1>7, <2>1, <2>2 DEF AccountInv, ActiveByWizard
  <2>4. \A c \in DOMAIN places' :
          ByWizard(c)' => places'[c].open # {} /\ places'[c].services > 0
    BY <1>4, <1>7 DEF AccountInv, ActiveByWizard
  <2> QED
    BY <2>3, <2>4 DEF ActiveByWizard
<1>13. DuplicatesNeedARace'
  <2>1. \A u, v \in DOMAIN tenants' :
          u # v /\ tenants'[u].email = tenants'[v].email => u \notin knew'[v]
    BY <1>1, <1>6 DEF AccountInv, DuplicatesNeedARace
  <2>2. \A c \in DOMAIN places' : knew'[c] \subseteq Forms'
    BY <1>11 DEF Rooted
  <2>3. \A c : ByWizard(c)' => c \notin Forms'
    BY DEF Forms
  <2> QED
    BY <2>1, <2>2, <2>3 DEF DuplicatesNeedARace
<1> QED
  BY <1>8, <1>9, <1>10, <1>11, <1>12, <1>13 DEF AccountInv

LEMMA TokenExpires ==
  ASSUME AccountInv, NEW t \in DOMAIN tenants, ExpireToken(t)
  PROVE  AccountInv'
<1>1. /\ users' \in [DOMAIN tenants -> UserRow]
      /\ users'[t].token = "expired" /\ users'[t].verified = users[t].verified
      /\ \A u \in DOMAIN tenants \ {t} : users'[u] = users[u]
  BY DEF ExpireToken, AccountInv, TypeOK, UserRow
<1>2. /\ users[t].token = "fresh"
      /\ UNCHANGED <<tenants, inbox, places, access, sessions, txn, knew>>
  BY DEF ExpireToken
<1>3. TypeOK'
  BY <1>1, <1>2 DEF AccountInv, TypeOK
<1>4. (\A s \in Txns : Sound(txn[s]))'
  BY <1>2 DEF AccountInv, Sound, Forms, ByWizard
<1>5. OneHolder' /\ Rooted' /\ DuplicatesNeedARace'
  BY <1>2 DEF AccountInv, OneHolder, Rooted, DuplicatesNeedARace, Forms, ByWizard
<1>6. VerifiedTogether'
  BY <1>1, <1>2 DEF AccountInv, VerifiedTogether
<1>7. ActiveByWizard'
  BY <1>2 DEF AccountInv, ActiveByWizard, PlacesOf, ByWizard
<1> QED
  BY <1>3, <1>4, <1>5, <1>6, <1>7 DEF AccountInv

----------------------------------------------------------------------------
(* The theorems.                                                           *)

LEMMA InitInv == Init => AccountInv
<1> SUFFICES ASSUME Init PROVE AccountInv
  OBVIOUS
<1>1. /\ DOMAIN tenants = {} /\ DOMAIN users = {} /\ DOMAIN places = {}
      /\ DOMAIN sessions = {} /\ DOMAIN knew = {} /\ inbox = {} /\ access = {}
  BY DEF Init
<1>2. /\ tenants \in [{} -> TenantRow] /\ users \in [{} -> UserRow]
      /\ places \in [{} -> Place] /\ sessions \in [{} -> {}]
      /\ knew \in [{} -> SUBSET (Tenants \cup Businesses)]
  BY DEF Init
<1>3. \A r \in Txns : txn[r] = Idle
  BY DEF Init
<1>4. TypeOK
  BY <1>1, <1>2 DEF Init, TypeOK
<1>5. (\A r \in Txns : Sound(txn[r])) /\ OneHolder
  BY <1>3, IdleSound DEF OneHolder, LockPCs
<1>6. Rooted /\ VerifiedTogether /\ ActiveByWizard /\ DuplicatesNeedARace
  BY <1>1 DEF Rooted, VerifiedTogether, ActiveByWizard, DuplicatesNeedARace
<1> QED
  BY <1>4, <1>5, <1>6 DEF AccountInv

\* The steps of one request.
LEMMA RunInv ==
  ASSUME AccountInv, NEW r \in Txns, Arrive(r) \/ Run(r) \/ Disconnect(r)
  PROVE  AccountInv'
<1>1. CASE Arrive(r)
  BY <1>1, SignupBegins, VerifyBegins, SetupBegins DEF Arrive
<1>2. CASE RejectSlug(r) \/ RejectInsert(r) \/ RejectVerify(r) \/ Disconnect(r)
  BY <1>2, RollbackStep DEF RejectSlug, RejectInsert, RejectVerify, Disconnect
<1>3. CASE SendMail(r)
  <2>1. txn[r].tenant \in DOMAIN tenants
    BY <1>3, RequestSound DEF SendMail, Sound
  <2>2. /\ txn' = [txn EXCEPT ![r] = Idle]
        /\ inbox' \subseteq DOMAIN tenants
        /\ UNCHANGED <<tenants, users, places, access, sessions, knew>>
    BY <1>3, <2>1 DEF SendMail, Step, AccountInv, TypeOK
  <2>3. /\ access' \subseteq DOMAIN tenants /\ DOMAIN sessions' \subseteq Tokens
        /\ sessions' \in [DOMAIN sessions' -> DOMAIN tenants]
    BY <2>2 DEF AccountInv, TypeOK
  <2>4. Idle.pc \notin LockPCs
    BY IdleSound DEF LockPCs
  <2> QED
    BY <2>2, <2>3, <2>4, IdleSound, RequestStep
<1>4. CASE Run(r) /\ ~RejectSlug(r) /\ ~RejectInsert(r) /\ ~RejectVerify(r)
                  /\ ~SendMail(r)
  BY <1>4, SignupProceeds, SignupCommits, Consumes, ReadsTenant, VerifyCommits,
     Furnishes DEF Run
<1> QED
  BY <1>1, <1>2, <1>3, <1>4

\* The steps that touch sessions only.
LEMMA SessionInv ==
  ASSUME AccountInv,
         \/ \E t \in access : ExpireAccess(t)
         \/ \E x \in DOMAIN sessions : Refresh(x) \/ Logout(x) \/ ExpireSession(x)
         \/ Login
  PROVE  AccountInv'
<1>1. CASE \E t \in access : ExpireAccess(t)
  <2>1. /\ access' \subseteq DOMAIN tenants
        /\ UNCHANGED <<tenants, users, inbox, places, sessions, txn, knew>>
    BY <1>1 DEF ExpireAccess, AccountInv, TypeOK
  <2>2. DOMAIN sessions' \subseteq Tokens /\ sessions' \in [DOMAIN sessions' -> DOMAIN tenants]
    BY <2>1 DEF AccountInv, TypeOK
  <2> QED
    BY <2>1, <2>2, SessionStep
<1>2. ASSUME NEW x \in DOMAIN sessions, Refresh(x) \/ Logout(x) \/ ExpireSession(x)
      PROVE  AccountInv'
  <2>1. /\ sessions' = Without(sessions, x)
        /\ UNCHANGED <<tenants, users, inbox, places, access, txn, knew>>
    BY <1>2 DEF Refresh, Logout, ExpireSession, Forget
  <2>2. /\ access' \subseteq DOMAIN tenants /\ DOMAIN sessions' \subseteq Tokens
        /\ sessions' \in [DOMAIN sessions' -> DOMAIN tenants]
    BY <2>1 DEF AccountInv, TypeOK, Without
  <2> QED
    BY <2>1, <2>2, SessionStep
<1>3. CASE Login
  <2>1. PICK e \in Emails, x \in Tokens \ DOMAIN sessions : \E t \in UserByEmail(e) :
          /\ access' = access \cup {t}
          /\ sessions' = Extended(sessions, x, t)
          /\ UNCHANGED <<tenants, users, inbox, places, txn, knew>>
    BY <1>3 DEF Login
  <2>2. PICK t \in UserByEmail(e) :
          /\ access' = access \cup {t}
          /\ sessions' = Extended(sessions, x, t)
          /\ UNCHANGED <<tenants, users, inbox, places, txn, knew>>
    BY <2>1
  <2>3. t \in DOMAIN tenants
    BY DEF UserByEmail, AccountInv, TypeOK
  <2>4. /\ access' \subseteq DOMAIN tenants /\ DOMAIN sessions' \subseteq Tokens
        /\ sessions' \in [DOMAIN sessions' -> DOMAIN tenants]
    BY <2>2, <2>3 DEF AccountInv, TypeOK, Extended
  <2> QED
    BY <2>2, <2>4, SessionStep
<1> QED
  BY <1>1, <1>2, <1>3

LEMMA StepInv == AccountInv /\ [Next]_vars => AccountInv'
<1> SUFFICES ASSUME AccountInv, [Next]_vars PROVE AccountInv'
  OBVIOUS
<1>1. CASE UNCHANGED vars
  <2>1. /\ access' \subseteq DOMAIN tenants /\ DOMAIN sessions' \subseteq Tokens
        /\ sessions' \in [DOMAIN sessions' -> DOMAIN tenants]
    BY <1>1 DEF vars, AccountInv, TypeOK
  <2> QED
    BY <1>1, <2>1, SessionStep DEF vars
<1>2. CASE \E r \in Txns : Arrive(r) \/ Run(r) \/ Disconnect(r)
  BY <1>2, RunInv
<1>3. CASE \E t \in DOMAIN tenants : ExpireToken(t)
  BY <1>3, TokenExpires
<1>4. CASE \E t \in access : CreateBusiness(t)
  BY <1>4, BusinessCreated
<1> QED
  BY <1>1, <1>2, <1>3, <1>4, SessionInv DEF Next

\* The inductive invariant of the accounts.
THEOREM AccountInvariant == Spec => []AccountInv
BY InitInv, StepInv, PTL DEF Spec

\* Rows, requests and sessions have their types.
THEOREM AccountTypes == Spec => []TypeOK
<1>1. AccountInv => TypeOK
  BY DEF AccountInv
<1> QED
  BY <1>1, AccountInvariant, PTL

\* A verification changes the user and the tenant, or neither, however many
\* requests carry the token of one message at a time.
THEOREM HalvesTogether == Spec => []VerifiedTogether
<1>1. AccountInv => VerifiedTogether
  BY DEF AccountInv
<1> QED
  BY <1>1, AccountInvariant, PTL

\* The wizard is all or nothing, whatever it runs beside: a tenant is active exactly
\* when a wizard has stored a business for it, which can be booked as it is created;
\* the businesses of the form make nobody active.
THEOREM WizardIsWhole == Spec => []ActiveByWizard
<1>1. AccountInv => ActiveByWizard
  BY DEF AccountInv
<1> QED
  BY <1>1, AccountInvariant, PTL

\* Two accounts of one address, and two businesses of the wizard, were created by
\* requests that both looked before either stored anything.
THEOREM DuplicatesRace == Spec => []DuplicatesNeedARace
<1>1. AccountInv => DuplicatesNeedARace
  BY DEF AccountInv
<1> QED
  BY <1>1, AccountInvariant, PTL

\* Only the commit of a verification and the wizard change a tenant's status.
LEMMA StepForward ==
  ASSUME AccountInv, [Next]_vars, NEW t \in DOMAIN tenants
  PROVE  Rank(tenants'[t].status) >= Rank(tenants[t].status)
<1>1. \A row \in TenantRow :
        /\ Rank(row.status) \in {0, 1, 2}
        /\ row.status = "pending_verification" => Rank(row.status) = 0
        /\ Rank(Activated(row).status) = 2
  BY DEF Rank, TenantRow, Statuses, Activated
<1>2. tenants[t] \in TenantRow
  BY DEF AccountInv, TypeOK
<1>3. CASE tenants'[t] = tenants[t]
  BY <1>1, <1>2, <1>3
<1>4. CASE \E r \in Txns : CommitVerify(r) /\ txn[r].tenant = t
  <2>1. tenants[t].status = "pending_verification"
    BY <1>4, RequestSound DEF CommitVerify, Sound
  <2>2. tenants'[t] \in TenantRow
    BY <1>4, RequestSound DEF CommitVerify, VerifyPCs, LockPCs, Verification, AccountInv, TypeOK
  <2> QED
    BY <1>1, <1>2, <2>1, <2>2
<1>5. CASE \E r \in Txns : Furnish(r) /\ txn[r].tenant = t
  <2>1. tenants'[t] = Activated(tenants[t])
    BY <1>5, RequestSound DEF Furnish, Sound
  <2> QED
    BY <1>1, <1>2, <2>1
<1>6. \/ tenants'[t] = tenants[t]
      \/ \E r \in Txns : (CommitVerify(r) \/ Furnish(r)) /\ txn[r].tenant = t
  <2>1. ASSUME NEW r \in Txns, Run(r)
        PROVE  \/ tenants'[t] = tenants[t]
               \/ (CommitVerify(r) \/ Furnish(r)) /\ txn[r].tenant = t
    <3>1. CASE CommitSignup(r)
      BY <3>1 DEF CommitSignup, NextOf, Extended
    <3>2. CASE CommitVerify(r) \/ Furnish(r)
      BY <3>2 DEF CommitVerify, Furnish
    <3>3. CASE ~CommitSignup(r) /\ ~CommitVerify(r) /\ ~Furnish(r)
      BY <2>1, <3>3 DEF Run, ResolveSlug, RejectSlug, InsertTenant, RejectInsert,
         SendMail, Consume, ReadTenant, RejectVerify, Proceed, Rollback
    <3> QED
      BY <3>1, <3>2, <3>3
  <2>2. ASSUME NEW r \in Txns, Arrive(r) \/ Disconnect(r)
        PROVE  tenants' = tenants
    BY <2>2 DEF Arrive, BeginSignup, BeginVerify, BeginSetup, Begin,
       Disconnect, Rollback
  <2>3. CASE \/ \E u \in DOMAIN tenants : ExpireToken(u)
             \/ \E u \in access : CreateBusiness(u) \/ ExpireAccess(u)
             \/ \E x \in DOMAIN sessions : Refresh(x) \/ Logout(x) \/ ExpireSession(x)
             \/ Login
             \/ UNCHANGED vars
    BY <2>3 DEF ExpireToken, ExpireAccess, CreateBusiness, Refresh, Logout,
       ExpireSession, Forget, Login, vars
  <2> QED
    BY <2>1, <2>2, <2>3 DEF Next
<1> QED
  BY <1>3, <1>4, <1>5, <1>6

\* A tenant's row is written from an earlier read, and yet its status
\* only moves on.
THEOREM NeverStepsBack == Spec => NoStepBack
<1>1. AccountInv /\ [Next]_vars =>
        [\A t \in DOMAIN tenants : Rank(tenants'[t].status) >= Rank(tenants[t].status)]_vars
  BY StepForward
<1> QED
  BY <1>1, AccountInvariant, PTL DEF Spec, NoStepBack

=============================================================================
