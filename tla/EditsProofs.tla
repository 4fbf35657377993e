---------------------------- MODULE EditsProofs ----------------------------
(***************************************************************************)
(* Theorems about Edits, for any number of rows and of requests: the types,*)
(* that no request changes a column it was not asked for unless it moved   *)
(* meanwhile, that no booking passes every capacity it could see, and that *)
(* twins are made by requests that met.                                    *)
(***************************************************************************)
EXTENDS Edits, TLAPS

EditSpec == EditInit /\ [][EditNext]_editVars

----------------------------------------------------------------------------
(* The inductive invariant.                                                *)

Unlike(f, g) == {c \in DOMAIN f : f[c] # g[c]}

Named == Shops \cup People

SameKind(t, u) == {t, u} \subseteq Shops \/ {t, u} \subseteq People

\* What the object of a request has to do with the row that it will write.
Sound(e) ==
  /\ e.made # "none" => e.pc = "done"
  /\ e.pc = "add" => e.thing \in Things \ DOMAIN row /\ e.copy \in Rows(e.thing)
  /\ e.pc \in {"call", "merge", "write"} =>
       /\ e.thing \in DOMAIN row
       /\ e.copy \in Rows(e.thing)
       /\ e.thing \in Named => e.copy.name = row[e.thing].name
  /\ e.pc = "call" => Unlike(e.copy, row[e.thing]) \subseteq e.moved
  /\ e.pc = "merge" => Unlike(e.copy, row[e.thing]) \subseteq DOMAIN e.asked \cup e.moved
  /\ e.pc = "write" =>
       /\ e.fresh \in Rows(e.thing)
       /\ Unlike(e.copy, e.fresh) \subseteq DOMAIN e.asked \cup e.moved
  /\ e.pc \in {"lock", "count", "take"} =>
       /\ e.thing \in Classes \cap DOMAIN row
       /\ e.copy \in Rows(e.thing)
       /\ e.copy.capacity <= e.sight

\* Who takes a place has found one, and holds the row.
Room(r) ==
  edit[r].pc = "take" => seats[edit[r].thing] < edit[r].copy.capacity

\* Identifiers are given out once.
OneMaker ==
  \A r, s \in Editors :
    (edit[r].pc = "add" /\ edit[s].pc = "add" /\ edit[r].thing = edit[s].thing) => r = s

\* Requests under way at the same time have met.
AllMet == \A r, s \in Editors : r # s /\ InFlight(r) /\ InFlight(s) => Met(r, s)

\* A row that has the name of one about to be added was made by a request it met.
Pending ==
  \A r \in Editors, u \in DOMAIN row :
    (/\ edit[r].pc = "add"
     /\ SameKind(edit[r].thing, u)
     /\ row[u].name = edit[r].copy.name
     /\ row[u].name # 0)
      => \E s \in Editors : edit[s].made = u /\ Met(r, s)

EditInv ==
  /\ EditTypeOK
  /\ \A r \in Editors : Sound(edit[r])
  /\ \A r \in Editors : Room(r)
  /\ OneMaker
  /\ AllMet
  /\ Pending
  /\ TwinsOnlyByMeeting

\* Services and professionals of one name were made by editors that met.
LEMMA Twins == EditInv => TwinsOnlyByMeeting
BY DEF EditInv

----------------------------------------------------------------------------
(* Lemmas about columns and rows.                                          *)

\* Which columns a row has for certain.
LEMMA ColumnFacts ==
  ASSUME NEW t \in Things
  PROVE  /\ "active" \in Columns(t)
         /\ Columns(t) \subseteq AllColumns
         /\ t \in Classes => "capacity" \in Columns(t)
         /\ t \in Named => "name" \in Columns(t)
BY EditsAssumption
   DEF Things, Columns, AllColumns, ServiceColumns, BusinessColumns, ProfessionalColumns,
       PlanColumns, Named

\* The values of a column are numbers, and not above the bound.
LEMMA ValueRange ==
  ASSUME NEW c
  PROVE  /\ Values(c) \subseteq 0 .. MaxValue + MaxName
         /\ c = "active" => Values(c) = {0, 1}
         /\ c \notin {"active", "name"} => 1 \in Values(c)
BY EditsAssumption DEF Values

\* What a row of Rows(t) is.
LEMMA RowFacts ==
  ASSUME NEW t \in Things, NEW f \in Rows(t)
  PROVE  /\ f \in [Columns(t) -> 0 .. MaxValue + MaxName]
         /\ \A c \in Columns(t) : f[c] \in Values(c)
         /\ f \in Objects
         /\ t \in Classes => f.capacity \in Nat
<1>1. f \in [Columns(t) -> 0 .. MaxValue + MaxName] /\ \A c \in Columns(t) : f[c] \in Values(c)
  BY DEF Rows
<1>2. f \in Objects
  BY DEF Objects
<1>3. t \in Classes => f.capacity \in Nat
  BY <1>1, ColumnFacts, EditsAssumption
<1> QED
  BY <1>1, <1>2, <1>3

\* The object of a request is a row that differs where it was asked to.
LEMMA ChangedFits ==
  ASSUME NEW t \in Things, NEW f \in Rows(t),
         NEW cs \in SUBSET AllColumns, NEW asked \in Asked(cs), "name" \notin cs
  PROVE  /\ Changed(f, asked) \in Rows(t)
         /\ Unlike(Changed(f, asked), f) \subseteq DOMAIN asked
         /\ \A c \in DOMAIN f \ cs : Changed(f, asked)[c] = f[c]
         /\ asked \in Wishes
         /\ DOMAIN asked = cs
         /\ t \in Named => Changed(f, asked).name = f.name
<1>1. DOMAIN asked = cs /\ \A c \in cs : asked[c] \in Values(c)
  BY DEF Asked
<1>2. DOMAIN f = Columns(t) /\ \A c \in Columns(t) : f[c] \in Values(c)
  BY RowFacts
<1>3. \A c \in Columns(t) : Changed(f, asked)[c] \in Values(c)
  BY <1>1, <1>2 DEF Changed
<1>4. Changed(f, asked) \in [Columns(t) -> 0 .. MaxValue + MaxName]
  BY <1>2, <1>3, ValueRange DEF Changed
<1>5. Changed(f, asked) \in Rows(t)
  BY <1>3, <1>4 DEF Rows
<1>6. Unlike(Changed(f, asked), f) \subseteq DOMAIN asked
  BY DEF Unlike, Changed
<1>7. \A c \in DOMAIN f \ cs : Changed(f, asked)[c] = f[c]
  BY <1>1 DEF Changed
<1>8. asked \in Wishes
  BY DEF Wishes
<1>9. t \in Named => Changed(f, asked).name = f.name
  BY <1>2, <1>7, ColumnFacts
<1> QED
  BY <1>1, <1>5, <1>6, <1>7, <1>8, <1>9

----------------------------------------------------------------------------
(* Lemmas about requests.                                                  *)

\* Meeting is mutual.
LEMMA Mutual ==
  ASSUME NEW r, NEW s
  PROVE  {r, s} = {s, r}
OBVIOUS

\* Beginning, carrying on and giving up, short of writing a row.
LEMMA RequestStep ==
  ASSUME EditInv, NEW r \in Editors, NEW q \in Requested, Put(r, q),
         edit[r].made = "none", q.made = "none", UNCHANGED row,
         Sound(q),
         q.pc \in {"count", "take"} => holder'[q.thing] = {r},
         q.pc = "take" => seats'[q.thing] < q.copy.capacity,
         q.pc = "add" =>
           /\ \A s \in Editors \ {r} : edit[s].pc = "add" => edit[s].thing # q.thing
           /\ \A u \in DOMAIN row :
                SameKind(q.thing, u) /\ row[u].name = q.copy.name /\ row[u].name # 0
                  => \E s \in Editors \ {r} : edit[s].made = u /\ Met(r, s)',
         q.pc \notin {"idle", "done", "failed"} =>
           \A s \in Editors \ {r} : InFlight(s) => Met(r, s)',
         \A s, x \in Editors : Met(s, x) => Met(s, x)', crossed' \subseteq SUBSET Editors,
         holder' \in [Things -> {{}} \cup {{s} : s \in Editors}],
         \A s \in Editors \ {r} : \A t \in Things : holder[t] = {s} => holder'[t] = {s},
         seats' \in [Classes -> Nat],
         \A s \in Editors \ {r} :
           edit[s].pc = "take" => seats'[edit[s].thing] <= seats[edit[s].thing]
  PROVE  EditInv'
<1>1. /\ edit' \in [Editors -> Requested]
      /\ edit'[r] = q
      /\ \A s \in Editors \ {r} : edit'[s] = edit[s]
  BY DEF EditInv, EditTypeOK, Put
<1>2. \A s \in Editors : edit[s].pc \in {"lock", "count", "take"} =>
        edit[s].thing \in Things /\ edit[s].thing \in Classes /\ edit[s].copy \in Rows(edit[s].thing)
  BY DEF EditInv, Sound, Things
<1>3. EditTypeOK'
  <2>1. ASSUME NEW s \in Editors, edit'[s].pc \in {"count", "take"}
        PROVE  holder'[edit'[s].thing] = {s}
    <3>1. CASE s = r
      BY <2>1, <3>1, <1>1
    <3>2. CASE s # r
      <4>1. edit'[s] = edit[s] /\ edit[s].thing \in Things
        BY <2>1, <3>2, <1>1, <1>2
      <4>2. holder[edit[s].thing] = {s}
        BY <2>1, <4>1 DEF EditInv, EditTypeOK
      <4> QED
        BY <3>2, <4>1, <4>2
    <3> QED
      BY <3>1, <3>2
  <2> QED
    BY <1>1, <2>1 DEF EditInv, EditTypeOK
<1>4. ASSUME NEW s \in Editors PROVE Sound(edit[s])'
  <2>1. CASE s = r
    BY <2>1, <1>1 DEF Sound
  <2>2. CASE s # r
    <3>1. Sound(edit[s]) /\ edit'[s] = edit[s]
      BY <2>2, <1>1 DEF EditInv
    <3> QED
      BY <3>1 DEF Sound
  <2> QED
    BY <2>1, <2>2
<1>5. ASSUME NEW s \in Editors PROVE Room(s)'
  <2>1. CASE s = r
    BY <2>1, <1>1 DEF Room
  <2>2. CASE s # r
    <3> SUFFICES ASSUME edit[s].pc = "take"
                 PROVE  seats'[edit[s].thing] < edit[s].copy.capacity
      BY <2>2, <1>1 DEF Room
    <3>1. /\ seats[edit[s].thing] < edit[s].copy.capacity
          /\ seats'[edit[s].thing] <= seats[edit[s].thing]
      BY <2>2 DEF EditInv, Room
    <3>2. /\ seats[edit[s].thing] \in Nat
          /\ seats'[edit[s].thing] \in Nat
          /\ edit[s].copy.capacity \in Nat
      BY <1>2, RowFacts DEF EditInv, EditTypeOK
    <3> QED
      BY <3>1, <3>2
  <2> QED
    BY <2>1, <2>2
<1>6. OneMaker'
  BY <1>1 DEF EditInv, OneMaker
<1>7. AllMet'
  <2> SUFFICES ASSUME NEW s \in Editors, NEW x \in Editors, s # x, InFlight(s)', InFlight(x)'
               PROVE  Met(s, x)'
    BY Zenon DEF AllMet
  <2>1. \A y \in Editors \ {r} : InFlight(y)' <=> InFlight(y)
    BY <1>1 DEF InFlight
  <2>2. CASE s = r
    BY <2>1, <2>2, <1>1 DEF InFlight
  <2>3. CASE x = r
    <3>1. Met(r, s)'
      BY <2>1, <2>3, <1>1 DEF InFlight
    <3> QED
      BY <2>3, <3>1, Mutual, Zenon DEF Met
  <2>4. CASE s # r /\ x # r
    BY <2>1, <2>4 DEF EditInv, AllMet
  <2> QED
    BY <2>2, <2>3, <2>4
<1>8. Pending'
  <2> SUFFICES ASSUME NEW s \in Editors, NEW u \in DOMAIN row',
                      edit'[s].pc = "add", SameKind(edit'[s].thing, u),
                      row'[u].name = edit'[s].copy.name, row'[u].name # 0
               PROVE  \E x \in Editors : edit'[x].made = u /\ Met(s, x)'
    BY Zenon DEF Pending
  <2>1. CASE s = r
    BY <2>1, <1>1
  <2>2. CASE s # r
    <3>0. edit[s].pc = "add" /\ SameKind(edit[s].thing, u) /\ u \in DOMAIN row
          /\ row[u].name = edit[s].copy.name /\ row[u].name # 0
      BY <2>2, <1>1
    <3>1. PICK x \in Editors : edit[x].made = u /\ Met(s, x)
      BY <3>0, Zenon DEF EditInv, Pending
    <3>2. x # r
      BY <3>1, EditsAssumption DEF EditInv, EditTypeOK
    <3> QED
      BY <3>1, <3>2, <1>1
  <2> QED
    BY <2>1, <2>2
<1>9. TwinsOnlyByMeeting'
  <2> SUFFICES ASSUME NEW t \in DOMAIN row', NEW u \in DOMAIN row', t # u,
                      {t, u} \subseteq Shops \/ {t, u} \subseteq People,
                      row'[t].name = row'[u].name, row'[t].name # 0
               PROVE  \E x, y \in Editors :
                        edit'[x].made = t /\ edit'[y].made = u /\ Met(x, y)'
    BY DEF TwinsOnlyByMeeting
  <2>0. row' = row
    OBVIOUS
  <2>1. PICK x \in Editors, y \in Editors :
          edit[x].made = t /\ edit[y].made = u /\ Met(x, y)
    <3>1. t \in DOMAIN row /\ u \in DOMAIN row /\ row[t].name = row[u].name /\ row[t].name # 0
      BY <2>0
    <3>2. TwinsOnlyByMeeting
      BY Twins
    <3> QED
      BY <3>1, <3>2 DEF TwinsOnlyByMeeting
  <2>2. x # r /\ y # r
    BY <2>1, EditsAssumption DEF EditInv, EditTypeOK
  <2> QED
    BY <2>1, <2>2, <1>1
<1> QED
  BY <1>3, <1>4, <1>5, <1>6, <1>7, <1>8, <1>9 DEF EditInv

\* A request that finishes without having written, or goes on with what it has.
LEMMA GoOn ==
  ASSUME EditInv, NEW r \in Editors, NEW q \in Requested, Put(r, q),
         edit[r].made = "none", q.made = "none", Sound(q), q.pc # "add",
         q.pc \notin {"idle", "done", "failed"} => InFlight(r),
         q.pc \in {"count", "take"} => holder'[q.thing] = {r},
         q.pc = "take" => seats[q.thing] < q.copy.capacity,
         UNCHANGED <<row, seats, crossed>>,
         holder' \in [Things -> {{}} \cup {{s} : s \in Editors}],
         \A s \in Editors \ {r} : \A t \in Things : holder[t] = {s} => holder'[t] = {s}
  PROVE  EditInv'
<1>1. \A s, x \in Editors : Met(s, x) => Met(s, x)'
  BY DEF Met
<1>2. crossed' \subseteq SUBSET Editors /\ seats' \in [Classes -> Nat]
  BY DEF EditInv, EditTypeOK
<1>3. \A s \in Editors \ {r} :
        edit[s].pc = "take" => seats'[edit[s].thing] <= seats[edit[s].thing]
  <2> SUFFICES ASSUME NEW s \in Editors, edit[s].pc = "take"
               PROVE  seats[edit[s].thing] \in Nat
    OBVIOUS
  <2> QED
    BY DEF EditInv, EditTypeOK, Sound
<1>4. q.pc \notin {"idle", "done", "failed"} =>
        \A s \in Editors \ {r} : InFlight(s) => Met(r, s)'
  BY <1>1 DEF EditInv, AllMet
<1> QED
  BY <1>1, <1>2, <1>3, <1>4, RequestStep, Zenon

\* What Finish makes of a request.
LEMMA FinishFacts ==
  ASSUME EditInv, NEW r \in Editors, edit[r].pc # "done", NEW how \in {"done", "failed"}
  PROVE  /\ Finish(r, how) \in Requested
         /\ Finish(r, how).made = "none"
         /\ Finish(r, how).pc = how
         /\ Sound(Finish(r, how))
<1>1. edit[r] \in Requested /\ edit[r].made = "none"
  BY DEF EditInv, EditTypeOK, Sound
<1>2. <<>> \in Objects /\ <<>> \in Wishes
  BY DEF Objects, Wishes
<1>3. Finish(r, how) \in Requested /\ Finish(r, how).made = "none" /\ Finish(r, how).pc = how
  BY <1>1, <1>2 DEF Finish, Requested
<1> QED
  BY <1>3 DEF Sound

\* Giving the lock back takes it from nobody else.
LEMMA UnlockFacts ==
  ASSUME EditInv, NEW r \in Editors, holder' = Unlocked(r)
  PROVE  /\ holder' \in [Things -> {{}} \cup {{s} : s \in Editors}]
         /\ \A s \in Editors \ {r} : \A t \in Things : holder[t] = {s} => holder'[t] = {s}
<1>1. \A t \in Things :
        holder[t] \ {r} \in {{}} \cup {{s} : s \in Editors}
  <2> SUFFICES ASSUME NEW t \in Things
               PROVE  holder[t] \ {r} \in {{}} \cup {{s} : s \in Editors}
    OBVIOUS
  <2>1. holder[t] \in {{}} \cup {{s} : s \in Editors}
    BY DEF EditInv, EditTypeOK
  <2>2. CASE holder[t] = {}
    BY <2>2
  <2>3. ASSUME NEW s \in Editors, holder[t] = {s}
        PROVE  holder[t] \ {r} \in {{}} \cup {{x} : x \in Editors}
    <3>1. CASE s = r
      BY <2>3, <3>1
    <3>2. CASE s # r
      <4>1. {s} \ {r} = {s}
        BY <3>2
      <4> QED
        BY <2>3, <4>1
    <3> QED
      BY <3>1, <3>2
  <2> QED
    BY <2>1, <2>2, <2>3
<1>2. \A t \in Things : \A s \in Editors \ {r} : holder[t] = {s} => holder[t] \ {r} = {s}
  OBVIOUS
<1> QED
  BY <1>1, <1>2 DEF Unlocked

\* Taking up a request: it meets those that are under way.
LEMMA Begin ==
  ASSUME EditInv, NEW r \in Editors, NEW q \in Requested, Put(r, q), Enter(r),
         edit[r].pc = "idle", q.made = "none", Sound(q), q.pc \notin {"count", "take"},
         q.pc = "add" =>
           /\ \A s \in Editors \ {r} : edit[s].pc = "add" => edit[s].thing # q.thing
           /\ \A u \in DOMAIN row :
                ~(SameKind(q.thing, u) /\ row[u].name = q.copy.name /\ row[u].name # 0),
         UNCHANGED <<row, seats, holder>>
  PROVE  EditInv'
<1>1. \A s, x \in Editors : Met(s, x) => Met(s, x)'
  BY DEF Met, Enter
<1>2. \A s \in Editors : InFlight(s) => Met(r, s)'
  BY DEF Met, Enter
<1>3. crossed' \subseteq SUBSET Editors
  BY DEF EditInv, EditTypeOK, Enter
<1>4. /\ seats' \in [Classes -> Nat]
      /\ holder' \in [Things -> {{}} \cup {{s} : s \in Editors}]
  BY DEF EditInv, EditTypeOK
<1>5. \A s \in Editors \ {r} :
        edit[s].pc = "take" => seats'[edit[s].thing] <= seats[edit[s].thing]
  <2> SUFFICES ASSUME NEW s \in Editors, edit[s].pc = "take"
               PROVE  seats[edit[s].thing] \in Nat
    OBVIOUS
  <2> QED
    BY DEF EditInv, EditTypeOK, Sound
<1>6. edit[r].made = "none"
  BY DEF EditInv, Sound
<1> QED
  BY <1>1, <1>2, <1>3, <1>4, <1>5, <1>6, RequestStep, Zenon

----------------------------------------------------------------------------
(* One lemma for each kind of step.                                        *)

\* The record that a request starts with.
LEMMA FreeFacts ==
  /\ Free \in Requested
  /\ Free.pc = "idle" /\ Free.made = "none"
  /\ Sound(Free)
<1>1. <<>> \in Objects /\ <<>> \in Wishes
  BY DEF Objects, Wishes
<1>2. Free \in Requested
  BY <1>1 DEF Free, Requested
<1> QED
  BY <1>2 DEF Free, Sound

\* A new row, with a name that no row has.
LEMMA Creates ==
  ASSUME EditInv, NEW r \in Editors, NEW t \in Things, NEW n \in 0 .. MaxName, Create(r, t, n),
         t \in Shops /\ n # 0 => ~NameTaken(Shops, n),
         t \in People /\ n # 0 => ~NameTaken(People, n)
  PROVE  EditInv'
<1> DEFINE new == [c \in Columns(t) |-> IF c = "name" THEN n ELSE 1]
           q == [Free EXCEPT !.pc = "add", !.thing = t, !.copy = new]
<1>1. \A c \in Columns(t) : new[c] \in Values(c)
  <2> SUFFICES ASSUME NEW c \in Columns(t) PROVE new[c] \in Values(c)
    OBVIOUS
  <2>1. CASE c = "name"
    BY <2>1 DEF Values
  <2>2. CASE c # "name"
    BY <2>2, ValueRange
  <2> QED
    BY <2>1, <2>2
<1>2. new \in Rows(t)
  BY <1>1, ValueRange DEF Rows
<1>3. /\ q \in Requested
      /\ q.pc = "add" /\ q.thing = t /\ q.copy = new /\ q.made = "none"
  <2>1. new \in Objects
    BY <1>2, RowFacts
  <2> QED
    BY <2>1, FreeFacts DEF Free, Requested
<1>4. t \notin DOMAIN row /\ \A s \in Editors : edit[s].pc = "add" => edit[s].thing # t
  BY DEF Create, New
<1>5. Sound(q)
  BY <1>2, <1>3, <1>4 DEF Sound
<1>6. ASSUME NEW u \in DOMAIN row, SameKind(t, u), row[u].name = new.name, row[u].name # 0
      PROVE  FALSE
  <2>1. t \in Named
    BY <1>6 DEF SameKind, Named
  <2>2. new.name = n
    BY <2>1, ColumnFacts
  <2>3. NameTaken(Shops, n) \/ t \notin Shops
    BY <1>6, <2>2, EditsAssumption DEF SameKind, NameTaken
  <2>4. NameTaken(People, n) \/ t \notin People
    BY <1>6, <2>2, EditsAssumption DEF SameKind, NameTaken
  <2> QED
    BY <1>6, <2>1, <2>2, <2>3, <2>4 DEF Named
<1>7. Put(r, q) /\ Enter(r) /\ edit[r].pc = "idle" /\ UNCHANGED <<row, seats, holder>>
  BY DEF Create
<1> HIDE DEF new, q
<1> QED
  BY <1>3, <1>4, <1>5, <1>6, <1>7, Begin

\* An edit asks for columns other than the name.
LEMMA Asks ==
  ASSUME EditInv, NEW r \in Editors, NEW t, Load(r, t),
         NEW cs \in SUBSET AllColumns, "name" \notin cs, NEW asked \in Asked(cs), Ask(r, t, asked)
  PROVE  EditInv'
<1> DEFINE q == [Free EXCEPT !.pc = "merge", !.thing = t, !.asked = asked,
                             !.copy = Changed(row[t], asked)]
<1>1. t \in Things /\ t \in DOMAIN row /\ row[t] \in Rows(t)
  BY DEF Load, EditInv, EditTypeOK
<1>2. /\ Changed(row[t], asked) \in Rows(t)
      /\ Unlike(Changed(row[t], asked), row[t]) \subseteq DOMAIN asked
      /\ asked \in Wishes
      /\ t \in Named => Changed(row[t], asked).name = row[t].name
  BY <1>1, ChangedFits
<1>3. /\ q \in Requested
      /\ q.pc = "merge" /\ q.thing = t /\ q.asked = asked /\ q.made = "none"
      /\ q.copy = Changed(row[t], asked)
  <2>1. Changed(row[t], asked) \in Objects
    BY <1>1, <1>2, RowFacts
  <2> QED
    BY <1>1, <1>2, <2>1, FreeFacts DEF Free, Requested
<1>4. Sound(q)
  BY <1>1, <1>2, <1>3 DEF Sound
<1>5. Put(r, q) /\ Enter(r) /\ edit[r].pc = "idle" /\ UNCHANGED <<row, seats, holder>>
  BY DEF Ask, Load
<1> HIDE DEF q
<1> QED
  BY <1>3, <1>4, <1>5, Begin

\* The forms never name a slug or a user.
LEMMA Updates ==
  ASSUME EditInv, NEW r \in Editors, NEW t,
         \/ UpdateService(r, t) \/ UpdateBusiness(r, t) \/ UpdateWhatsapp(r, t)
         \/ UpdateChannels(r, t) \/ UpdateProfessional(r, t) \/ UpdatePlan(r, t)
         \/ DeletePlan(r, t)
  PROVE  EditInv'
<1> DEFINE forms == ServiceForms \cup BusinessForms \cup WhatsappForms \cup ChannelForms
                      \cup ProfessionalForms \cup PlanForms
<1>1. \A cs \in forms : cs \in SUBSET AllColumns /\ "name" \notin cs
  BY DEF ServiceForms, BusinessForms, WhatsappForms, ChannelForms, ProfessionalForms, PlanForms,
         AllColumns, ServiceColumns, BusinessColumns, ProfessionalColumns, PlanColumns
<1>2. CASE DeletePlan(r, t)
  <2> DEFINE asked == [c \in {"active"} |-> 0]
  <2>1. asked \in Asked({"active"})
    BY EditsAssumption, ValueRange DEF Asked
  <2>2. {"active"} \in SUBSET AllColumns
    BY DEF AllColumns, PlanColumns
  <2>3. Load(r, t) /\ Ask(r, t, asked)
    BY <1>2 DEF DeletePlan
  <2> HIDE DEF asked
  <2> QED
    BY <2>1, <2>2, <2>3, Asks
<1>3. ASSUME NEW some \in SUBSET forms, Edit(r, t, some)
      PROVE  EditInv'
  <2>1. PICK cs \in some : \E asked \in Asked(cs) : Ask(r, t, asked)
    BY <1>3 DEF Edit
  <2>2. PICK asked \in Asked(cs) : Ask(r, t, asked)
    BY <2>1
  <2>3. cs \in SUBSET AllColumns /\ "name" \notin cs /\ Load(r, t)
    BY <1>1, <1>3 DEF Edit
  <2> QED
    BY <2>2, <2>3, Asks
<1> QED
  <2>1. /\ ServiceForms \in SUBSET forms /\ BusinessForms \in SUBSET forms
        /\ WhatsappForms \in SUBSET forms /\ ChannelForms \in SUBSET forms
        /\ ProfessionalForms \in SUBSET forms /\ PlanForms \in SUBSET forms
    OBVIOUS
  <2> HIDE DEF forms
  <2> QED
    BY <1>2, <1>3, <2>1
       DEF UpdateService, UpdateBusiness, UpdateWhatsapp, UpdateChannels,
           UpdateProfessional, UpdatePlan

\* An active business is loaded; an active class is read.
LEMMA Reads ==
  ASSUME EditInv, NEW r \in Editors, NEW t, LoadToConnect(r, t) \/ ReadClass(r, t)
  PROVE  EditInv'
<1>1. t \in Things /\ t \in DOMAIN row /\ row[t] \in Rows(t) /\ row[t] \in Objects
  BY RowFacts DEF LoadToConnect, ReadClass, Load, EditInv, EditTypeOK
<1>2. CASE LoadToConnect(r, t)
  <2> DEFINE q == [Free EXCEPT !.pc = "call", !.thing = t, !.copy = row[t]]
  <2>1. /\ q \in Requested
        /\ q.pc = "call" /\ q.thing = t /\ q.copy = row[t] /\ q.made = "none"
    BY <1>1, FreeFacts DEF Free, Requested
  <2>2. Unlike(row[t], row[t]) = {}
    BY DEF Unlike
  <2>3. Sound(q)
    BY <1>1, <2>1, <2>2 DEF Sound
  <2>4. Put(r, q) /\ Enter(r) /\ edit[r].pc = "idle" /\ UNCHANGED <<row, seats, holder>>
    BY <1>2 DEF LoadToConnect, Load
  <2> HIDE DEF q
  <2> QED
    BY <2>1, <2>3, <2>4, Begin
<1>3. CASE ReadClass(r, t)
  <2> DEFINE q == [Free EXCEPT !.pc = "lock", !.thing = t, !.copy = row[t],
                               !.sight = row[t].capacity]
  <2>1. t \in Classes /\ row[t].capacity \in Nat
    BY <1>1, <1>3, RowFacts DEF ReadClass
  <2>2. /\ q \in Requested
        /\ q.pc = "lock" /\ q.thing = t /\ q.copy = row[t] /\ q.made = "none"
        /\ q.sight = row[t].capacity
    BY <1>1, <2>1, FreeFacts DEF Free, Requested
  <2>3. Sound(q)
    BY <1>1, <2>1, <2>2 DEF Sound
  <2>4. Put(r, q) /\ Enter(r) /\ edit[r].pc = "idle" /\ UNCHANGED <<row, seats, holder>>
    BY <1>3 DEF ReadClass, Load
  <2> HIDE DEF q
  <2> QED
    BY <2>2, <2>3, <2>4, Begin
<1> QED
  BY <1>2, <1>3

\* A deletion has loaded the row and marked its copy.
LEMMA Deletes ==
  ASSUME EditInv, NEW r \in Editors, NEW t, Delete(r, t)
  PROVE  EditInv'
<1> DEFINE asked == [c \in {"active"} |-> 0]
           copy == [row[t] EXCEPT !.active = 0]
           q == [Free EXCEPT !.pc = IF row[t].active = 1 THEN "write" ELSE "done",
                             !.thing = t, !.asked = asked, !.fresh = row[t], !.copy = copy]
<1>1. t \in Things /\ t \in DOMAIN row /\ row[t] \in Rows(t) /\ row[t] \in Objects
  BY RowFacts DEF Delete, Load, EditInv, EditTypeOK
<1>2. DOMAIN row[t] = Columns(t) /\ \A c \in Columns(t) : row[t][c] \in Values(c)
  BY <1>1, RowFacts
<1>3. copy \in Rows(t)
  <2>1. \A c \in Columns(t) : copy[c] \in Values(c)
    BY <1>2, ValueRange
  <2>2. copy \in [Columns(t) -> 0 .. MaxValue + MaxName]
    BY <1>2, <2>1, ValueRange
  <2> QED
    BY <2>1, <2>2 DEF Rows
<1>4. asked \in Wishes
  <2>1. asked \in Asked({"active"})
    BY EditsAssumption, ValueRange DEF Asked
  <2>2. {"active"} \in SUBSET AllColumns
    BY DEF AllColumns, PlanColumns
  <2> QED
    BY <2>1, <2>2 DEF Wishes
<1>5. /\ q \in Requested
      /\ q.pc \in {"write", "done"} /\ q.thing = t /\ q.asked = asked /\ q.made = "none"
      /\ q.fresh = row[t] /\ q.copy = copy
  <2>1. copy \in Objects
    BY <1>1, <1>3, RowFacts
  <2> HIDE DEF copy, asked
  <2> QED
    BY <1>1, <1>4, <2>1, FreeFacts DEF Free, Requested
<1>6. Unlike(copy, row[t]) \subseteq DOMAIN asked
  BY DEF Unlike
<1>7. t \in Named => copy.name = row[t].name
  BY <1>1, <1>2, ColumnFacts
<1>8. Sound(q)
  BY <1>1, <1>3, <1>5, <1>6, <1>7 DEF Sound
<1>9. Put(r, q) /\ Enter(r) /\ edit[r].pc = "idle" /\ UNCHANGED <<row, seats, holder>>
  BY DEF Delete, Load
<1> HIDE DEF q
<1> QED
  BY <1>5, <1>8, <1>9, Begin

\* What holds of a request that is under way.
LEMMA UnderWay ==
  ASSUME EditInv, NEW r \in Editors, edit[r].pc \notin {"idle", "done", "failed"}
  PROVE  /\ edit[r] \in Requested
         /\ edit[r].made = "none"
         /\ Sound(edit[r])
         /\ InFlight(r)
         /\ edit[r].pc # "add" => edit[r].thing \in DOMAIN row
         /\ edit[r].thing \in DOMAIN row =>
              edit[r].thing \in Things /\ row[edit[r].thing] \in Rows(edit[r].thing)
<1>1. edit[r] \in Requested /\ Sound(edit[r])
  BY DEF EditInv, EditTypeOK
<1>2. edit[r].pc \in {"add", "call", "merge", "write", "lock", "count", "take"}
  BY <1>1 DEF Requested
<1> QED
  BY <1>1, <1>2 DEF EditInv, EditTypeOK, Sound, InFlight

\* The answers of Meta are put into the object that was loaded before.
LEMMA Answers ==
  ASSUME EditInv, NEW r \in Editors, Answered(r)
  PROVE  EditInv'
<1> DEFINE e == edit[r]
<1>1. PICK asked \in Asked(ConnectForm) :
        Put(r, [edit[r] EXCEPT !.pc = "merge", !.asked = asked, !.copy = Changed(@, asked)])
  BY DEF Answered
<1> DEFINE q == [e EXCEPT !.pc = "merge", !.asked = asked, !.copy = Changed(@, asked)]
<1>2. /\ e \in Requested /\ e.pc = "call" /\ e.made = "none" /\ InFlight(r)
      /\ e.thing \in DOMAIN row /\ e.thing \in Things /\ e.copy \in Rows(e.thing)
      /\ Unlike(e.copy, row[e.thing]) \subseteq e.moved
      /\ e.thing \in Named => e.copy.name = row[e.thing].name
  BY UnderWay DEF Answered, Sound
<1>3. ConnectForm \in SUBSET AllColumns /\ "name" \notin ConnectForm
  BY DEF ConnectForm, AllColumns, BusinessColumns
<1>4. /\ Changed(e.copy, asked) \in Rows(e.thing)
      /\ asked \in Wishes
      /\ DOMAIN asked = ConnectForm
      /\ \A c \in DOMAIN e.copy \ ConnectForm : Changed(e.copy, asked)[c] = e.copy[c]
      /\ e.thing \in Named => Changed(e.copy, asked).name = e.copy.name
  BY <1>2, <1>3, ChangedFits
<1>5. /\ q \in Requested
      /\ q.pc = "merge" /\ q.thing = e.thing /\ q.asked = asked /\ q.made = "none"
      /\ q.copy = Changed(e.copy, asked) /\ q.moved = e.moved
  <2>1. Changed(e.copy, asked) \in Objects
    BY <1>2, <1>4, RowFacts
  <2> HIDE DEF e
  <2> QED
    BY <1>2, <1>4, <2>1 DEF Requested
<1>6. Unlike(q.copy, row[q.thing]) \subseteq DOMAIN q.asked \cup q.moved
  <2>1. DOMAIN Changed(e.copy, asked) = DOMAIN e.copy
    BY DEF Changed
  <2> HIDE DEF q, e
  <2> QED
    BY <1>2, <1>4, <1>5, <2>1 DEF Unlike
<1>7. Sound(q)
  <2> HIDE DEF q, e
  <2> QED
    BY <1>2, <1>4, <1>5, <1>6 DEF Sound
<1>8. /\ Put(r, q) /\ UNCHANGED <<row, seats, crossed>>
      /\ holder' \in [Things -> {{}} \cup {{s} : s \in Editors}]
      /\ \A s \in Editors \ {r} : \A t \in Things : holder[t] = {s} => holder'[t] = {s}
  BY <1>1 DEF Answered, EditInv, EditTypeOK
<1> HIDE DEF q, e
<1> QED
  BY <1>2, <1>5, <1>7, <1>8, GoOn DEF e

\* merge loads the row: nothing moves under its object from now on.
LEMMA Merges ==
  ASSUME EditInv, NEW r \in Editors, Merge(r)
  PROVE  EditInv'
<1> DEFINE e == edit[r]
           q == [e EXCEPT !.pc = "write", !.fresh = row[e.thing]]
<1>1. /\ e \in Requested /\ e.pc = "merge" /\ e.made = "none" /\ InFlight(r) /\ Sound(e)
      /\ e.thing \in DOMAIN row /\ e.thing \in Things /\ row[e.thing] \in Rows(e.thing)
  BY UnderWay DEF Merge
<1>2. /\ q \in Requested
      /\ q.pc = "write" /\ q.thing = e.thing /\ q.asked = e.asked /\ q.made = "none"
      /\ q.copy = e.copy /\ q.moved = e.moved /\ q.fresh = row[e.thing]
  <2>1. row[e.thing] \in Objects
    BY <1>1, RowFacts
  <2> HIDE DEF e
  <2> QED
    BY <1>1, <2>1 DEF Requested
<1>3. Sound(q)
  <2> HIDE DEF q, e
  <2> QED
    BY <1>1, <1>2 DEF Sound
<1>4. /\ Put(r, q) /\ UNCHANGED <<row, seats, crossed>>
      /\ holder' \in [Things -> {{}} \cup {{s} : s \in Editors}]
      /\ \A s \in Editors \ {r} : \A t \in Things : holder[t] = {s} => holder'[t] = {s}
  BY DEF Merge, EditInv, EditTypeOK
<1> HIDE DEF q, e
<1> QED
  BY <1>1, <1>2, <1>3, <1>4, GoOn DEF e

\* A booking waits for the row and gets it.
LEMMA Locks ==
  ASSUME EditInv, NEW r \in Editors, LockClass(r)
  PROVE  EditInv'
<1> DEFINE e == edit[r]
           q == [e EXCEPT !.pc = "count"]
<1>1. /\ e \in Requested /\ e.pc = "lock" /\ e.made = "none" /\ InFlight(r) /\ Sound(e)
      /\ e.thing \in DOMAIN row /\ e.thing \in Things
  BY UnderWay DEF LockClass
<1>2. /\ q \in Requested
      /\ q.pc = "count" /\ q.thing = e.thing /\ q.made = "none"
      /\ q.copy = e.copy /\ q.sight = e.sight
  <2> HIDE DEF e
  <2> QED
    BY <1>1 DEF Requested
<1>3. Sound(q)
  <2> HIDE DEF q, e
  <2> QED
    BY <1>1, <1>2 DEF Sound
<1>4. holder[e.thing] = {} /\ holder' = [holder EXCEPT ![e.thing] = {r}]
  BY DEF LockClass
<1>5. /\ holder' \in [Things -> {{}} \cup {{s} : s \in Editors}]
      /\ holder'[e.thing] = {r}
      /\ \A s \in Editors \ {r} : \A t \in Things : holder[t] = {s} => holder'[t] = {s}
  <2>1. holder \in [Things -> {{}} \cup {{s} : s \in Editors}]
    BY DEF EditInv, EditTypeOK
  <2> HIDE DEF e
  <2> QED
    BY <2>1, <1>1, <1>4
<1>6. Put(r, q) /\ UNCHANGED <<row, seats, crossed>>
  BY DEF LockClass
<1> HIDE DEF q, e
<1> QED
  BY <1>1, <1>2, <1>3, <1>5, <1>6, GoOn DEF e

\* Giving up, with the lock if it is held.
LEMMA GivesUp ==
  ASSUME EditInv, NEW r \in Editors, edit[r].pc # "done",
         Put(r, Finish(r, "failed")), UNCHANGED <<row, seats, crossed>>,
         holder' = Unlocked(r) \/ holder' = holder
  PROVE  EditInv'
<1>1. /\ Finish(r, "failed") \in Requested /\ Finish(r, "failed").made = "none"
      /\ Finish(r, "failed").pc = "failed" /\ Sound(Finish(r, "failed"))
  BY FinishFacts
<1>2. edit[r].made = "none"
  BY DEF EditInv, Sound
<1>3. /\ holder' \in [Things -> {{}} \cup {{s} : s \in Editors}]
      /\ \A s \in Editors \ {r} : \A t \in Things : holder[t] = {s} => holder'[t] = {s}
  <2>1. CASE holder' = Unlocked(r)
    BY <2>1, UnlockFacts
  <2>2. CASE holder' = holder
    BY <2>2 DEF EditInv, EditTypeOK
  <2> QED
    BY <2>1, <2>2
<1> QED
  BY <1>1, <1>2, <1>3, GoOn

\* The places are counted against the capacity that was read.
LEMMA Counts ==
  ASSUME EditInv, NEW r \in Editors, Count(r)
  PROVE  EditInv'
<1> DEFINE e == edit[r]
<1>1. CASE e.pc = "count" /\ Put(r, Finish(r, "failed")) /\ holder' = Unlocked(r)
  BY <1>1, GivesUp DEF Count
<1>2. CASE /\ e.pc = "count" /\ seats[e.thing] < e.copy.capacity
           /\ Put(r, [e EXCEPT !.pc = "take"]) /\ UNCHANGED holder
  <2> DEFINE q == [e EXCEPT !.pc = "take"]
  <2>1. /\ e \in Requested /\ e.made = "none" /\ InFlight(r) /\ Sound(e)
        /\ e.thing \in Things
    BY <1>2, UnderWay
  <2>2. /\ q \in Requested
        /\ q.pc = "take" /\ q.thing = e.thing /\ q.made = "none"
        /\ q.copy = e.copy /\ q.sight = e.sight
    <3> HIDE DEF e
    <3> QED
      BY <2>1 DEF Requested
  <2>3. Sound(q)
    <3> HIDE DEF q, e
    <3> QED
      BY <1>2, <2>1, <2>2 DEF Sound
  <2>4. /\ holder'[e.thing] = {r}
        /\ holder' \in [Things -> {{}} \cup {{s} : s \in Editors}]
        /\ \A s \in Editors \ {r} : \A t \in Things : holder[t] = {s} => holder'[t] = {s}
    BY <1>2 DEF EditInv, EditTypeOK
  <2>5. UNCHANGED <<row, seats, crossed>>
    BY DEF Count
  <2> HIDE DEF q, e
  <2> QED
    BY <1>2, <2>1, <2>2, <2>3, <2>4, <2>5, GoOn DEF q, e
<1> QED
  BY <1>1, <1>2 DEF Count

\* The place that was counted is taken.
LEMMA Takes ==
  ASSUME EditInv, NEW r \in Editors, Take(r)
  PROVE  /\ EditInv'
         /\ edit[r].thing \in Classes
         /\ holder[edit[r].thing] = {r}
         /\ seats' = [seats EXCEPT ![edit[r].thing] = @ + 1]
         /\ seats[edit[r].thing] + 1 <= edit[r].sight
<1> DEFINE e == edit[r]
           q == Finish(r, "done")
<1>1. /\ e.pc = "take" /\ e.made = "none" /\ Sound(e) /\ e.thing \in Classes
      /\ e.copy \in Rows(e.thing) /\ e.copy.capacity <= e.sight /\ e.thing \in Things
      /\ e.sight \in Nat
  BY UnderWay DEF Take, Sound, Requested
<1>2. /\ q \in Requested /\ q.made = "none" /\ q.pc = "done" /\ Sound(q)
  BY <1>1, FinishFacts
<1>3. /\ holder' \in [Things -> {{}} \cup {{s} : s \in Editors}]
      /\ \A s \in Editors \ {r} : \A t \in Things : holder[t] = {s} => holder'[t] = {s}
  BY UnlockFacts DEF Take
<1>4. seats \in [Classes -> Nat] /\ seats' = [seats EXCEPT ![e.thing] = @ + 1]
      /\ holder[e.thing] = {r}
  BY <1>1 DEF Take, EditInv, EditTypeOK
<1>5. seats' \in [Classes -> Nat]
  BY <1>1, <1>4
<1>6. ASSUME NEW s \in Editors \ {r}, edit[s].pc = "take"
      PROVE  seats'[edit[s].thing] <= seats[edit[s].thing]
  <2>1. holder[edit[s].thing] = {s} /\ edit[s].thing \in Classes
    BY <1>6, UnderWay DEF EditInv, EditTypeOK, Sound
  <2>2. edit[s].thing # e.thing
    BY <2>1, <1>4
  <2> QED
    BY <2>1, <2>2, <1>4
<1>7. seats[e.thing] + 1 <= e.sight
  <2>1. seats[e.thing] < e.copy.capacity /\ e.copy.capacity \in Nat /\ seats[e.thing] \in Nat
    BY <1>1, <1>4, RowFacts DEF EditInv, Room
  <2> QED
    BY <2>1, <1>1
<1>8. \A s, x \in Editors : Met(s, x) => Met(s, x)'
  BY DEF Take, Met
<1>9. UNCHANGED row /\ Put(r, q) /\ crossed' \subseteq SUBSET Editors
  BY DEF Take, EditInv, EditTypeOK
<1> HIDE DEF q, e
<1>10. EditInv'
  <2>1. edit[r].made = "none"
    BY <1>1 DEF e
  <2> QED
    BY <1>2, <1>3, <1>5, <1>6, <1>8, <1>9, <2>1, RequestStep, Zenon
<1> QED
  BY <1>1, <1>4, <1>7, <1>10 DEF e

\* A place is given back.
LEMMA Cancels ==
  ASSUME EditInv, NEW t \in Classes, CancelSeat(t)
  PROVE  /\ EditInv'
         /\ \A u \in Classes : seats'[u] <= seats[u]
<1>1. /\ seats \in [Classes -> Nat] /\ seats[t] > 0
      /\ seats' = [seats EXCEPT ![t] = @ - 1]
      /\ UNCHANGED <<row, holder, edit, crossed>>
  BY DEF CancelSeat, EditInv, EditTypeOK
<1>2. seats' \in [Classes -> Nat] /\ \A u \in Classes : seats'[u] <= seats[u]
  BY <1>1
<1>3. EditTypeOK' /\ (\A r \in Editors : Sound(edit[r]))' /\ OneMaker' /\ Pending'
  BY <1>1, <1>2, Zenon DEF EditInv, EditTypeOK, Sound, OneMaker, Pending, Met
<1>4. AllMet' /\ TwinsOnlyByMeeting'
  <2>1. AllMet'
    BY <1>1 DEF EditInv, AllMet, Met, InFlight
  <2>2. TwinsOnlyByMeeting'
    <3>1. \A s, x \in Editors : Met(s, x)' = Met(s, x)
      BY <1>1 DEF Met
    <3>2. TwinsOnlyByMeeting
      BY DEF EditInv
    <3> QED
      BY <1>1, <3>1, <3>2 DEF TwinsOnlyByMeeting
  <2> QED
    BY <2>1, <2>2
<1>5. (\A r \in Editors : Room(r))'
  <2> SUFFICES ASSUME NEW r \in Editors, edit[r].pc = "take"
               PROVE  seats'[edit[r].thing] < edit[r].copy.capacity
    BY <1>1 DEF Room
  <2>1. edit[r].thing \in Classes /\ edit[r].thing \in Things /\ edit[r].copy \in Rows(edit[r].thing)
    BY UnderWay DEF Sound
  <2>2. seats[edit[r].thing] < edit[r].copy.capacity
    BY DEF EditInv, Room
  <2>3. edit[r].copy.capacity \in Nat
    BY <2>1, RowFacts
  <2>4. /\ seats'[edit[r].thing] <= seats[edit[r].thing]
        /\ seats[edit[r].thing] \in Nat /\ seats'[edit[r].thing] \in Nat
    BY <1>1, <1>2, <2>1
  <2> HIDE DEF Room
  <2> QED
    BY <2>2, <2>3, <2>4
<1> QED
  BY <1>2, <1>3, <1>4, <1>5 DEF EditInv

\* A new row: whoever has its name has met its maker.
LEMMA Adds ==
  ASSUME EditInv, NEW r \in Editors, Add(r)
  PROVE  EditInv'
<1> DEFINE t == edit[r].thing
           q == [Finish(r, "done") EXCEPT !.made = t]
<1>1. /\ edit[r].pc = "add" /\ edit[r].made = "none" /\ InFlight(r)
      /\ t \in Things /\ t \notin DOMAIN row /\ edit[r].copy \in Rows(t)
  BY UnderWay DEF Add, Sound
<1>2. q \in Requested /\ q.pc = "done" /\ q.made = t
  <2>1. Finish(r, "done") \in Requested /\ Finish(r, "done").pc = "done"
    BY <1>1, FinishFacts
  <2> HIDE DEF t
  <2> QED
    BY <1>1, <2>1 DEF Requested
<1>3. /\ DOMAIN row' = DOMAIN row \cup {t}
      /\ row'[t] = edit[r].copy
      /\ \A u \in DOMAIN row : row'[u] = row[u]
  BY <1>1 DEF Add
<1>4. /\ edit' \in [Editors -> Requested]
      /\ edit'[r] = q
      /\ \A s \in Editors \ {r} : edit'[s] = edit[s]
  BY <1>2 DEF Add, Put, EditInv, EditTypeOK
<1>5. UNCHANGED <<seats, holder, crossed>> /\ \A s, x \in Editors : Met(s, x) = Met(s, x)'
  BY DEF Add, Met
<1> HIDE DEF t, q
<1>6. EditTypeOK'
  <2>1. DOMAIN row' \subseteq Things /\ \A u \in DOMAIN row' : row'[u] \in Rows(u)
    BY <1>1, <1>3 DEF EditInv, EditTypeOK
  <2>2. \A s \in Editors : edit'[s].pc \in {"count", "take"} => holder'[edit'[s].thing] = {s}
    BY <1>2, <1>4, <1>5 DEF EditInv, EditTypeOK
  <2> QED
    BY <1>4, <1>5, <2>1, <2>2 DEF EditInv, EditTypeOK
<1>7. ASSUME NEW s \in Editors PROVE Sound(edit[s])'
  <2>1. CASE s = r
    BY <2>1, <1>2, <1>4 DEF Sound
  <2>2. CASE s # r
    <3>1. Sound(edit[s]) /\ edit'[s] = edit[s]
      BY <2>2, <1>4 DEF EditInv
    <3>2. edit[s].pc = "add" => edit[s].thing # t
      BY <2>2, <1>1 DEF EditInv, OneMaker, t
    <3> QED
      BY <3>1, <3>2, <1>3 DEF Sound
  <2> QED
    BY <2>1, <2>2
<1>8. (\A s \in Editors : Room(s))'
  BY <1>2, <1>4, <1>5 DEF EditInv, Room
<1>9. OneMaker'
  BY <1>2, <1>4 DEF EditInv, OneMaker
<1>10. AllMet'
  BY <1>2, <1>4, <1>5 DEF EditInv, AllMet, InFlight
<1>11. ASSUME NEW s \in Editors, NEW x \in Editors, Met(s, x)
       PROVE  Met(x, s)
  BY <1>11, Mutual, Zenon DEF Met
<1>12. \A x \in Editors, u \in DOMAIN row : edit[x].made = u => edit'[x].made = u
  BY <1>1, <1>4, EditsAssumption DEF EditInv, EditTypeOK
<1>13. Pending'
  <2> SUFFICES ASSUME NEW s \in Editors, NEW u \in DOMAIN row',
                      edit'[s].pc = "add", SameKind(edit'[s].thing, u),
                      row'[u].name = edit'[s].copy.name, row'[u].name # 0
               PROVE  \E x \in Editors : edit'[x].made = u /\ Met(s, x)'
    BY Zenon DEF Pending
  <2>1. s # r /\ edit'[s] = edit[s] /\ edit[s].pc = "add"
    BY <1>2, <1>4
  <2>2. CASE u = t
    <3>1. Met(s, r)
      BY <1>1, <2>1 DEF EditInv, AllMet, InFlight
    <3> QED
      BY <2>2, <3>1, <1>2, <1>4, <1>5
  <2>3. CASE u # t
    <3>1. u \in DOMAIN row /\ row'[u] = row[u]
      BY <2>3, <1>3
    <3>2. SameKind(edit[s].thing, u) /\ row[u].name = edit[s].copy.name /\ row[u].name # 0
      BY <2>1, <3>1
    <3>3. PICK x \in Editors : edit[x].made = u /\ Met(s, x)
      BY <2>1, <3>1, <3>2, Zenon DEF EditInv, Pending
    <3> QED
      BY <3>1, <3>3, <1>5, <1>12
  <2> QED
    BY <2>2, <2>3
<1>14. ASSUME NEW u \in DOMAIN row, SameKind(t, u), row[u].name = edit[r].copy.name, row[u].name # 0
       PROVE  \E s \in Editors : edit'[s].made = u /\ Met(r, s)'
  <2>1. PICK s \in Editors : edit[s].made = u /\ Met(r, s)
    BY <1>1, <1>14, Zenon DEF EditInv, Pending, t
  <2> QED
    BY <2>1, <1>5, <1>12
<1>15. TwinsOnlyByMeeting'
  <2> SUFFICES ASSUME NEW v \in DOMAIN row', NEW u \in DOMAIN row', v # u,
                      {v, u} \subseteq Shops \/ {v, u} \subseteq People,
                      row'[v].name = row'[u].name, row'[v].name # 0
               PROVE  \E x, y \in Editors :
                        edit'[x].made = v /\ edit'[y].made = u /\ Met(x, y)'
    BY DEF TwinsOnlyByMeeting
  <2>1. CASE v = t
    <3>1. u \in DOMAIN row /\ row'[u] = row[u] /\ SameKind(t, u)
      BY <2>1, <1>3 DEF SameKind
    <3>2. row[u].name = edit[r].copy.name /\ row[u].name # 0
      BY <2>1, <3>1, <1>3
    <3>3. PICK s \in Editors : edit'[s].made = u /\ Met(r, s)'
      BY <1>14, <3>1, <3>2
    <3> QED
      BY <2>1, <3>3, <1>2, <1>4
  <2>2. CASE u = t
    <3>1. v \in DOMAIN row /\ row'[v] = row[v] /\ SameKind(t, v)
      BY <2>2, <1>3 DEF SameKind
    <3>2. row[v].name = edit[r].copy.name /\ row[v].name # 0
      BY <2>2, <3>1, <1>3
    <3>3. PICK s \in Editors : edit'[s].made = v /\ Met(r, s)'
      BY <1>14, <3>1, <3>2
    <3>4. Met(s, r)'
      BY <3>3, <1>5, <1>11
    <3> QED
      BY <2>2, <3>3, <3>4, <1>2, <1>4
  <2>3. CASE v # t /\ u # t
    <3>1. v \in DOMAIN row /\ u \in DOMAIN row /\ row'[v] = row[v] /\ row'[u] = row[u]
      BY <2>3, <1>3
    <3>2. row[v].name = row[u].name /\ row[v].name # 0
      BY <3>1
    <3>3. PICK x \in Editors, y \in Editors :
            edit[x].made = v /\ edit[y].made = u /\ Met(x, y)
      BY <3>1, <3>2, Twins, Zenon DEF TwinsOnlyByMeeting
    <3>4. Met(x, y)'
      BY <3>3, <1>5
    <3>5. edit'[x].made = v /\ edit'[y].made = u
      BY <3>1, <3>3, <1>12
    <3> QED
      BY <3>4, <3>5
  <2> QED
    BY <2>1, <2>2, <2>3
<1> QED
  BY <1>6, <1>7, <1>8, <1>9, <1>10, <1>13, <1>15 DEF EditInv

\* What an UPDATE leaves of the row, and what the others notice of it.
LEMMA WriteFacts ==
  ASSUME EditInv, NEW r \in Editors, Write(r), NEW t, t = edit[r].thing
  PROVE  /\ t \in DOMAIN row /\ t \in Things
         /\ row' = [row EXCEPT ![t] = Merged(r)]
         /\ Merged(r) \in Rows(t)
         /\ t \in Named => Merged(r).name = row[t].name
         /\ \A c \in Columns(t) :
              row'[t][c] # row[t][c] => c \in DOMAIN edit[r].asked \cup edit[r].moved
<1> DEFINE e == edit[r]
<1>1. /\ e.pc = "write" /\ Sound(e) /\ t \in DOMAIN row /\ t \in Things
      /\ row[t] \in Rows(t) /\ e.copy \in Rows(t) /\ e.fresh \in Rows(t)
      /\ Unlike(e.copy, e.fresh) \subseteq DOMAIN e.asked \cup e.moved
      /\ t \in Named => e.copy.name = row[t].name
  BY UnderWay DEF Write, Sound
<1>2. DOMAIN e.copy = Columns(t)
      /\ \A c \in Columns(t) : e.copy[c] \in Values(c) /\ row[t][c] \in Values(c)
  BY <1>1, RowFacts
<1>3. Merged(r) = [c \in Columns(t) |-> IF e.copy[c] # e.fresh[c] THEN e.copy[c] ELSE row[t][c]]
  BY <1>2 DEF Merged
<1> HIDE DEF e
<1>4. Merged(r) \in Rows(t)
  <2>1. \A c \in Columns(t) : Merged(r)[c] \in Values(c)
    BY <1>2, <1>3
  <2>2. Merged(r) \in [Columns(t) -> 0 .. MaxValue + MaxName]
    BY <1>3, <2>1, ValueRange
  <2> QED
    BY <2>1, <2>2 DEF Rows
<1>5. t \in Named => Merged(r).name = row[t].name
  BY <1>1, <1>3, ColumnFacts
<1>6. row' = [row EXCEPT ![t] = Merged(r)]
  BY DEF Write
<1>7. ASSUME NEW c \in Columns(t), row'[t][c] # row[t][c]
      PROVE  c \in DOMAIN e.asked \cup e.moved
  <2>1. row'[t] = Merged(r)
    BY <1>1, <1>6
  <2>2. c \in Unlike(e.copy, e.fresh)
    BY <1>2, <1>3, <1>7, <2>1 DEF Unlike
  <2> QED
    BY <1>1, <2>2
<1> QED
  BY <1>1, <1>4, <1>5, <1>6, <1>7 DEF e

\* A request beside the one that writes keeps all but moved and sight.
LEMMA NoticeFacts ==
  ASSUME EditInv, NEW r \in Editors, Write(r), NEW s \in Editors, s # r
  PROVE  /\ edit'[s] \in Requested
         /\ edit'[s].pc = edit[s].pc /\ edit'[s].thing = edit[s].thing
         /\ edit'[s].asked = edit[s].asked /\ edit'[s].copy = edit[s].copy
         /\ edit'[s].fresh = edit[s].fresh /\ edit'[s].made = edit[s].made
         /\ edit[s].moved \subseteq edit'[s].moved
         /\ edit[s].sight <= edit'[s].sight
         /\ (edit[s].thing = edit[r].thing /\ edit[s].pc \in {"call", "merge"}) =>
              \A c \in Columns(edit[s].thing) :
                row'[edit[s].thing][c] # row[edit[s].thing][c] => c \in edit'[s].moved
<1> DEFINE t == edit[r].thing
           e == edit[s]
           moved == IF e.pc \in {"call", "merge"}
                    THEN e.moved \cup {c \in Columns(t) : row'[t][c] # row[t][c]} ELSE e.moved
           sight == IF e.pc \in {"lock", "count", "take"} /\ row'[t].capacity > e.sight
                    THEN row'[t].capacity ELSE e.sight
<1>1. /\ t \in DOMAIN row /\ t \in Things /\ row' = [row EXCEPT ![t] = Merged(r)]
      /\ Merged(r) \in Rows(t)
  BY WriteFacts
<1>2. e \in Requested /\ Sound(e)
  BY DEF EditInv, EditTypeOK
<1>3. edit'[s] = IF e.thing # t \/ ~InFlight(s) THEN e
                 ELSE [e EXCEPT !.moved = moved, !.sight = sight]
  BY DEF Write, Notice
<1>4. CASE e.thing # t \/ ~InFlight(s)
  <2>1. edit'[s] = e
    BY <1>3, <1>4
  <2>2. e.pc \in {"call", "merge"} => InFlight(s)
    BY DEF InFlight
  <2> HIDE DEF e
  <2>3. e.moved \subseteq edit'[s].moved /\ e.sight <= edit'[s].sight
    BY <1>2, <2>1 DEF Requested
  <2> QED
    BY <1>2, <1>4, <2>1, <2>2, <2>3 DEF e
<1>5. CASE e.thing = t /\ InFlight(s)
  <2>1. moved \in SUBSET AllColumns /\ e.moved \subseteq moved
    BY <1>1, <1>2, ColumnFacts DEF Requested
  <2>2. sight \in Nat /\ e.sight <= sight
    <3>1. e.pc \in {"lock", "count", "take"} => t \in Classes
      BY <1>2, <1>5 DEF Sound
    <3>2. row'[t] = Merged(r)
      BY <1>1
    <3>3. e.pc \in {"lock", "count", "take"} => row'[t].capacity \in Nat
      BY <1>1, <3>1, <3>2, RowFacts
    <3>4. e.sight \in Nat
      BY <1>2 DEF Requested
    <3> QED
      BY <3>3, <3>4
  <2>3. e.pc \in {"call", "merge"} =>
          \A c \in Columns(t) : row'[t][c] # row[t][c] => c \in moved
    OBVIOUS
  <2>4. edit'[s] = [e EXCEPT !.moved = moved, !.sight = sight]
    BY <1>3, <1>5
  <2> HIDE DEF e, t, moved, sight
  <2>5. /\ edit'[s] \in Requested
        /\ edit'[s].pc = e.pc /\ edit'[s].thing = e.thing
        /\ edit'[s].asked = e.asked /\ edit'[s].copy = e.copy
        /\ edit'[s].fresh = e.fresh /\ edit'[s].made = e.made
        /\ edit'[s].moved = moved /\ edit'[s].sight = sight
    BY <1>2, <2>1, <2>2, <2>4 DEF Requested
  <2> QED
    BY <1>5, <2>1, <2>2, <2>3, <2>5 DEF e, t
<1> QED
  BY <1>4, <1>5

\* An UPDATE of one row: the objects of the others fit it as before.
LEMMA Writes ==
  ASSUME EditInv, NEW r \in Editors, Write(r)
  PROVE  EditInv'
<1> DEFINE t == edit[r].thing
<1>1. /\ t \in DOMAIN row /\ t \in Things /\ row' = [row EXCEPT ![t] = Merged(r)]
      /\ Merged(r) \in Rows(t)
      /\ t \in Named => Merged(r).name = row[t].name
  BY WriteFacts
<1>2. /\ DOMAIN row' = DOMAIN row
      /\ row'[t] = Merged(r)
      /\ \A u \in DOMAIN row : u # t => row'[u] = row[u]
  BY <1>1
<1>3. \A u \in DOMAIN row : u \in Named => row'[u].name = row[u].name
  BY <1>1, <1>2
<1>4. /\ edit[r].pc = "write" /\ edit[r].made = "none"
      /\ edit'[r] = Finish(r, "done") /\ DOMAIN edit' = Editors
      /\ UNCHANGED <<seats, holder, crossed>>
  BY UnderWay DEF Write, Notice
<1>5. /\ edit'[r] \in Requested /\ edit'[r].made = "none" /\ edit'[r].pc = "done"
      /\ Sound(edit'[r])
  BY <1>4, FinishFacts
<1>6. \A s \in Editors : s # r =>
        /\ edit'[s] \in Requested
        /\ edit'[s].pc = edit[s].pc /\ edit'[s].thing = edit[s].thing
        /\ edit'[s].asked = edit[s].asked /\ edit'[s].copy = edit[s].copy
        /\ edit'[s].fresh = edit[s].fresh /\ edit'[s].made = edit[s].made
        /\ edit[s].moved \subseteq edit'[s].moved
        /\ edit[s].sight <= edit'[s].sight
        /\ (edit[s].thing = t /\ edit[s].pc \in {"call", "merge"}) =>
             \A c \in Columns(t) : row'[t][c] # row[t][c] => c \in edit'[s].moved
  BY NoticeFacts
<1>7. \A s, x \in Editors : Met(s, x)' = Met(s, x)
  BY <1>4 DEF Met
<1> HIDE DEF t
<1>8. EditTypeOK'
  <2>1. edit' \in [Editors -> Requested]
    <3>1. \A s \in Editors : edit'[s] \in Requested
      BY <1>5, <1>6
    <3> DEFINE noticed(s) ==
                 IF s = r THEN Finish(r, "done")
                 ELSE IF edit[s].thing # t \/ ~InFlight(s) THEN edit[s]
                 ELSE [edit[s] EXCEPT
                        !.moved = IF edit[s].pc \in {"call", "merge"}
                                  THEN @ \cup {c \in Columns(t) : row'[t][c] # row[t][c]} ELSE @,
                        !.sight = IF edit[s].pc \in {"lock", "count", "take"}
                                       /\ row'[t].capacity > @
                                  THEN row'[t].capacity ELSE @]
    <3>2. edit' = [s \in Editors |-> noticed(s)]
      BY DEF Write, Notice, t
    <3> HIDE DEF noticed
    <3> QED
      BY <3>1, <3>2
  <2>2. DOMAIN row' \subseteq Things /\ \A u \in DOMAIN row' : row'[u] \in Rows(u)
    BY <1>1, <1>2 DEF EditInv, EditTypeOK
  <2>3. \A s \in Editors : edit'[s].pc \in {"count", "take"} => holder'[edit'[s].thing] = {s}
    BY <1>4, <1>5, <1>6 DEF EditInv, EditTypeOK
  <2> QED
    BY <1>4, <2>1, <2>2, <2>3 DEF EditInv, EditTypeOK
<1>9. ASSUME NEW s \in Editors PROVE Sound(edit[s])'
  <2>1. CASE s = r
    BY <2>1, <1>5 DEF Sound
  <2>2. CASE s # r
    <3> SUFFICES ASSUME NEW e, NEW f, e = edit[s], f = edit'[s]
                 PROVE  Sound(edit[s])'
      OBVIOUS
    <3>1. Sound(e) /\ e \in Requested /\ f \in Requested
      BY <2>2, <1>6 DEF EditInv, EditTypeOK
    <3>2. /\ f.pc = e.pc /\ f.thing = e.thing /\ f.asked = e.asked /\ f.copy = e.copy
          /\ f.fresh = e.fresh /\ f.made = e.made /\ e.moved \subseteq f.moved
          /\ e.sight <= f.sight
          /\ (e.thing = t /\ e.pc \in {"call", "merge"}) =>
               \A c \in Columns(t) : row'[t][c] # row[t][c] => c \in f.moved
      BY <2>2, <1>6
    <3>3. e.thing \in DOMAIN row /\ e.thing \in Named => row'[e.thing].name = row[e.thing].name
      BY <1>3
    <3>4. ASSUME e.pc \in {"call", "merge"}
          PROVE  Unlike(f.copy, row'[f.thing]) \subseteq Unlike(e.copy, row[e.thing]) \cup f.moved
      <4>1. e.thing \in DOMAIN row /\ e.copy \in Rows(e.thing) /\ e.thing \in Things
        BY <3>1, <3>4 DEF Sound, EditInv, EditTypeOK
      <4>2. DOMAIN e.copy = Columns(e.thing)
        BY <4>1, RowFacts
      <4>3. CASE e.thing # t
        BY <4>1, <4>3, <3>2, <1>2 DEF Unlike
      <4>4. CASE e.thing = t
        BY <4>2, <4>4, <3>2, <3>4 DEF Unlike
      <4> QED
        BY <4>3, <4>4
    <3>5. e.pc \in {"lock", "count", "take"} => f.copy.capacity <= f.sight
      <4> SUFFICES ASSUME e.pc \in {"lock", "count", "take"}
                   PROVE  e.copy.capacity <= f.sight
        BY <3>2
      <4>1. e.thing \in Classes /\ e.thing \in Things /\ e.copy \in Rows(e.thing)
            /\ e.copy.capacity <= e.sight
        BY <3>1 DEF Sound, Things
      <4>2. e.copy.capacity \in Nat
        BY <4>1, RowFacts
      <4>3. e.sight \in Nat /\ f.sight \in Nat
        BY <3>1 DEF Requested
      <4> QED
        BY <4>1, <4>2, <4>3, <3>2
    <3> QED
      BY <3>1, <3>2, <3>3, <3>4, <3>5, <1>2 DEF Sound
  <2> QED
    BY <2>1, <2>2
<1>10. (\A s \in Editors : Room(s))'
  BY <1>4, <1>5, <1>6 DEF EditInv, Room
<1>11. OneMaker'
  BY <1>5, <1>6 DEF EditInv, OneMaker
<1>12. AllMet'
  BY <1>5, <1>6, <1>7 DEF EditInv, AllMet, InFlight
<1>13. \A x \in Editors : edit'[x].made = edit[x].made
  BY <1>4, <1>5, <1>6
<1>14. Pending'
  <2> SUFFICES ASSUME NEW s \in Editors, NEW u \in DOMAIN row',
                      edit'[s].pc = "add", SameKind(edit'[s].thing, u),
                      row'[u].name = edit'[s].copy.name, row'[u].name # 0
               PROVE  \E x \in Editors : edit'[x].made = u /\ Met(s, x)'
    BY Zenon DEF Pending
  <2>1. s # r /\ edit[s].pc = "add" /\ SameKind(edit[s].thing, u)
    BY <1>5, <1>6
  <2>2. u \in DOMAIN row /\ u \in Named
    BY <1>2, <2>1 DEF SameKind, Named
  <2>3. row[u].name = edit[s].copy.name /\ row[u].name # 0
    BY <2>1, <2>2, <1>3, <1>6
  <2>4. PICK x \in Editors : edit[x].made = u /\ Met(s, x)
    BY <2>1, <2>2, <2>3, Zenon DEF EditInv, Pending
  <2> QED
    BY <2>4, <1>7, <1>13
<1>15. TwinsOnlyByMeeting'
  <2> SUFFICES ASSUME NEW v \in DOMAIN row', NEW u \in DOMAIN row', v # u,
                      {v, u} \subseteq Shops \/ {v, u} \subseteq People,
                      row'[v].name = row'[u].name, row'[v].name # 0
               PROVE  \E x, y \in Editors :
                        edit'[x].made = v /\ edit'[y].made = u /\ Met(x, y)'
    BY DEF TwinsOnlyByMeeting
  <2>1. v \in DOMAIN row /\ u \in DOMAIN row /\ v \in Named /\ u \in Named
    BY <1>2 DEF Named
  <2>2. row[v].name = row[u].name /\ row[v].name # 0
    BY <2>1, <1>3
  <2>3. PICK x \in Editors, y \in Editors :
          edit[x].made = v /\ edit[y].made = u /\ Met(x, y)
    BY <2>1, <2>2, Twins, Zenon DEF TwinsOnlyByMeeting
  <2> QED
    BY <2>3, <1>7, <1>13
<1> QED
  BY <1>8, <1>9, <1>10, <1>11, <1>12, <1>14, <1>15 DEF EditInv

----------------------------------------------------------------------------
(* The invariant.                                                          *)

\* No request has begun, and the rows are as the assumption has them.
LEMMA InitInv == EditInit => EditInv
<1> SUFFICES ASSUME EditInit PROVE EditInv
  OBVIOUS
<1>1. /\ edit = [r \in Editors |-> Free] /\ row \in FirstRows /\ crossed = {}
      /\ seats = [t \in Classes |-> 0] /\ holder = [t \in Things |-> {}]
  BY DEF EditInit
<1>2. Free \in Requested /\ Free.pc = "idle" /\ Free.made = "none" /\ Sound(Free)
  BY FreeFacts
<1>3. EditTypeOK
  BY <1>1, <1>2, FirstRowsAssumption DEF EditTypeOK
<1>4. \A r \in Editors : Sound(edit[r])
  BY <1>1, <1>2
<1>5. OneMaker /\ AllMet /\ Pending /\ \A r \in Editors : Room(r)
  BY <1>1, <1>2 DEF OneMaker, AllMet, Pending, Room, InFlight
<1>6. TwinsOnlyByMeeting
  BY <1>1, FirstRowsAssumption DEF TwinsOnlyByMeeting
<1> QED
  BY <1>3, <1>4, <1>5, <1>6 DEF EditInv

\* What begins a request: a creation, an edit, a reading, a deletion.
Begins(r, t) ==
  \/ ServiceRequests(r, t) \/ BusinessRequests(r, t)
  \/ ProfessionalRequests(r, t) \/ PlanRequests(r, t)
  \/ ReadClass(r, t)

\* Whatever begins a request sets that request alone, and no row and no seat.
LEMMA BeginsFacts ==
  ASSUME EditInv, NEW r \in Editors, NEW t \in Things, Begins(r, t)
  PROVE  /\ EditInv'
         /\ edit[r].pc = "idle"
         /\ \E q : Put(r, q)
         /\ UNCHANGED <<row, seats>>
<1>1. CASE CreateService(r, t) \/ CreatePlan(r, t)
  <2>1. Create(r, t, 0)
    BY <1>1 DEF CreateService, CreatePlan
  <2>2. 0 \in 0 .. MaxName
    BY EditsAssumption
  <2>3. EditInv'
    BY <2>1, <2>2, Creates
  <2> QED
    BY <2>1, <2>3 DEF Create
<1>2. CASE CreateBusiness(r, t)
  <2>1. PICK n \in 1 .. MaxName : FreeSlug(n) /\ Create(r, t, n)
    BY <1>2 DEF CreateBusiness
  <2>2. t \notin People
    BY <1>2, EditsAssumption DEF CreateBusiness
  <2>3. n \in 0 .. MaxName
    BY EditsAssumption
  <2>4. ~NameTaken(Shops, n)
    BY <2>1, Zenon DEF FreeSlug
  <2>5. EditInv'
    BY <2>1, <2>2, <2>3, <2>4, Creates, Zenon
  <2> QED
    BY <2>1, <2>5 DEF Create
<1>3. CASE CreateProfessional(r, t)
  <2>1. PICK n \in 0 .. MaxName : UserFree(n) /\ Create(r, t, n)
    BY <1>3 DEF CreateProfessional
  <2>2. t \notin Shops
    BY <1>3, EditsAssumption DEF CreateProfessional
  <2>3. n = 0 \/ ~NameTaken(People, n)
    BY <2>1, Zenon DEF UserFree
  <2>4. EditInv'
    BY <2>1, <2>2, <2>3, Creates, Zenon
  <2> QED
    BY <2>1, <2>4 DEF Create
<1>4. CASE \/ UpdateService(r, t) \/ UpdateBusiness(r, t) \/ UpdateWhatsapp(r, t)
           \/ UpdateChannels(r, t) \/ UpdateProfessional(r, t) \/ UpdatePlan(r, t)
           \/ DeletePlan(r, t)
  <2>1. Load(r, t) /\ \E asked : Ask(r, t, asked)
    BY <1>4, Zenon
       DEF UpdateService, UpdateBusiness, UpdateWhatsapp, UpdateChannels, UpdateProfessional,
           UpdatePlan, DeletePlan, Edit
  <2> QED
    BY <1>4, <2>1, Updates DEF Load, Ask
<1>5. CASE LoadToConnect(r, t) \/ ReadClass(r, t)
  <2>1. EditInv'
    BY <1>5, Reads
  <2> QED
    BY <1>5, <2>1, Zenon DEF LoadToConnect, ReadClass, Load
<1>6. CASE DeleteService(r, t) \/ DeleteBusiness(r, t) \/ DeleteProfessional(r, t)
  <2>1. Delete(r, t)
    BY <1>6 DEF DeleteService, DeleteBusiness, DeleteProfessional
  <2> QED
    BY <2>1, Deletes, Zenon DEF Delete, Load
<1> QED
  BY <1>1, <1>2, <1>3, <1>4, <1>5, <1>6, Zenon
     DEF Begins, ServiceRequests, BusinessRequests, ProfessionalRequests, PlanRequests

\* Whatever gives a request up.
LEMMA EndsFacts ==
  ASSUME EditInv, NEW r \in Editors, Conflict(r) \/ Unanswered(r) \/ Break(r)
  PROVE  /\ EditInv'
         /\ Put(r, Finish(r, "failed"))
         /\ UNCHANGED <<row, seats>>
<1>1. /\ edit[r].pc # "done" /\ Put(r, Finish(r, "failed"))
      /\ UNCHANGED <<row, seats, crossed>>
      /\ holder' = Unlocked(r) \/ holder' = holder
  BY DEF Conflict, Unanswered, Break, InFlight
<1> QED
  BY <1>1, GivesUp

\* Every step keeps the invariant.
LEMMA StepInv == EditInv /\ [EditNext]_editVars => EditInv'
<1> SUFFICES ASSUME EditInv, [EditNext]_editVars PROVE EditInv'
  OBVIOUS
<1>1. ASSUME NEW r \in Editors, NEW t \in Things, Begins(r, t) PROVE EditInv'
  BY <1>1, BeginsFacts
<1>2. ASSUME NEW r \in Editors, Conflict(r) \/ Unanswered(r) \/ Break(r) PROVE EditInv'
  BY <1>2, EndsFacts
<1>3. ASSUME NEW r \in Editors, Continue(r) PROVE EditInv'
  BY <1>2, <1>3, Adds, Answers, Merges, Writes, Locks, Counts, Takes DEF Continue
<1>4. ASSUME NEW t \in Classes, CancelSeat(t) PROVE EditInv'
  BY <1>4, Cancels
<1>5. CASE UNCHANGED editVars
  <2>1. UNCHANGED <<row, seats, holder, edit, crossed>>
    BY <1>5 DEF editVars
  <2>2. \A s, x \in Editors : Met(s, x)' = Met(s, x)
    BY <2>1 DEF Met
  <2>3. EditTypeOK' /\ (\A r \in Editors : Sound(edit[r]))' /\ OneMaker'
    BY <2>1 DEF EditInv, EditTypeOK, Sound, OneMaker
  <2>4. AllMet' /\ (\A r \in Editors : Room(r))'
    BY <2>1, <2>2 DEF EditInv, AllMet, Room, InFlight
  <2>5. Pending' /\ TwinsOnlyByMeeting'
    <3>1. Pending /\ TwinsOnlyByMeeting
      BY DEF EditInv
    <3> QED
      BY <2>1, <2>2, <3>1 DEF Pending, TwinsOnlyByMeeting
  <2> QED
    BY <2>3, <2>4, <2>5 DEF EditInv
<1> QED
  BY <1>1, <1>2, <1>3, <1>4, <1>5, Zenon DEF EditNext, Begins

----------------------------------------------------------------------------
(* What a step may do.                                                     *)

\* Only an UPDATE takes a request from writing to its end.
LEMMA WroteByWrite ==
  ASSUME EditInv, [EditNext]_editVars, NEW r \in Editors, Wrote(r)
  PROVE  Write(r)
<1>1. edit[r].pc = "write" /\ edit'[r].pc = "done"
  BY DEF Wrote
<1>2. ASSUME NEW s \in Editors, NEW q, Put(s, q), s # r \/ q.pc # "done" PROVE FALSE
  BY <1>1, <1>2 DEF Put, EditInv, EditTypeOK
<1>3. ASSUME NEW s \in Editors, NEW t \in Things, Begins(s, t) PROVE FALSE
  <2>1. edit[s].pc = "idle" /\ \E q : Put(s, q)
    BY <1>3, BeginsFacts
  <2> QED
    BY <2>1, <1>1, <1>2
<1>4. ASSUME NEW s \in Editors, Conflict(s) \/ Unanswered(s) \/ Break(s) PROVE FALSE
  <2>1. Put(s, Finish(s, "failed"))
    BY <1>4, EndsFacts
  <2>2. s = r => Finish(s, "failed").pc # "done"
    BY <1>1, FinishFacts
  <2> QED
    BY <2>1, <2>2, <1>2
<1>5. ASSUME NEW s \in Editors, s # r, Write(s) PROVE FALSE
  <2>1. edit'[r].pc = edit[r].pc
    BY <1>5, NoticeFacts
  <2> QED
    BY <2>1, <1>1
<1>6. ASSUME NEW s \in Editors, edit[s].pc # "write",
             \/ Add(s) \/ Answered(s) \/ Merge(s) \/ LockClass(s) \/ Count(s) \/ Take(s)
      PROVE  FALSE
  <2>1. \E q : Put(s, q)
    BY <1>6, Zenon DEF Add, Answered, Merge, LockClass, Count, Take
  <2> QED
    BY <2>1, <1>1, <1>2, <1>6
<1>7. ASSUME NEW s \in Editors, Continue(s) PROVE Write(r)
  <2>1. CASE Write(s)
    BY <2>1, <1>5
  <2>2. CASE Unanswered(s)
    BY <2>2, <1>4
  <2>3. CASE \/ Add(s) \/ Answered(s) \/ Merge(s) \/ LockClass(s) \/ Count(s) \/ Take(s)
    <3>1. edit[s].pc # "write"
      BY <2>3 DEF Add, Answered, Merge, LockClass, Count, Take
    <3> QED
      BY <2>3, <3>1, <1>6
  <2> QED
    BY <1>7, <2>1, <2>2, <2>3 DEF Continue
<1>8. ASSUME UNCHANGED edit PROVE FALSE
  BY <1>1, <1>8
<1>9. ASSUME NEW t \in Classes, CancelSeat(t) PROVE FALSE
  BY <1>8, <1>9 DEF CancelSeat
<1>10. ASSUME UNCHANGED editVars PROVE FALSE
  BY <1>8, <1>10 DEF editVars
<1> QED
  BY <1>3, <1>4, <1>7, <1>9, <1>10, Zenon DEF EditNext, Begins

\* Only a booking adds to the places.
LEMMA SeatByTake ==
  ASSUME EditInv, [EditNext]_editVars, NEW t \in Classes, seats'[t] > seats[t]
  PROVE  \E r \in Editors : Take(r) /\ edit[r].thing = t
<1>0. seats[t] \in Nat
  BY DEF EditInv, EditTypeOK
<1>1. ASSUME UNCHANGED seats PROVE FALSE
  BY <1>0, <1>1
<1>2. ASSUME NEW s \in Editors, NEW u \in Things, Begins(s, u) PROVE FALSE
  BY <1>1, <1>2, BeginsFacts
<1>3. ASSUME NEW s \in Editors, Conflict(s) \/ Break(s) PROVE FALSE
  BY <1>1, <1>3, EndsFacts
<1>4. ASSUME NEW s \in Editors, Continue(s) PROVE Take(s) /\ edit[s].thing = t
  <2>1. CASE Take(s)
    <3>1. /\ edit[s].thing \in Classes
          /\ seats' = [seats EXCEPT ![edit[s].thing] = @ + 1]
      BY <2>1, Takes
    <3>2. edit[s].thing # t => seats'[t] = seats[t]
      BY <3>1 DEF EditInv, EditTypeOK
    <3> QED
      BY <2>1, <3>2, <1>0
  <2>2. CASE ~Take(s)
    <3>1. UNCHANGED seats
      BY <1>4, <2>2, Zenon
         DEF Continue, Add, Answered, Unanswered, Merge, Write, LockClass, Count
    <3> QED
      BY <3>1, <1>1
  <2> QED
    BY <2>1, <2>2
<1>5. ASSUME NEW u \in Classes, CancelSeat(u) PROVE FALSE
  <2>1. seats'[t] <= seats[t] /\ seats'[t] \in Nat
    BY <1>5, Cancels DEF EditInv, EditTypeOK
  <2> QED
    BY <2>1, <1>0
<1>6. ASSUME UNCHANGED editVars PROVE FALSE
  BY <1>1, <1>6 DEF editVars
<1> QED
  BY <1>2, <1>3, <1>4, <1>5, <1>6, Zenon DEF EditNext, Begins

----------------------------------------------------------------------------
(* The theorems.                                                           *)

\* The invariant holds of every behaviour of the panel's requests and bookings.
THEOREM EditInvariant == EditSpec => []EditInv
BY InitInv, StepInv, PTL DEF EditSpec

\* Rows keep their columns and values, and a booking that counts holds the row of its
\* class.
THEOREM EditTypes == EditSpec => []EditTypeOK
<1>1. EditInv => EditTypeOK
  BY DEF EditInv
<1> QED
  BY <1>1, EditInvariant, PTL

\* Two businesses of one slug, and two professionals of one user, were made by
\* requests that were under way at the same time.
THEOREM TwinsMeet == EditSpec => []TwinsOnlyByMeeting
<1>1. EditInv => TwinsOnlyByMeeting
  BY DEF EditInv
<1> QED
  BY <1>1, EditInvariant, PTL

\* An edit writes old values back over what others committed between its reading and
\* its merge, and over nothing else: whatever is edited, connected or deleted beside
\* it, an UPDATE changes what was asked for and what moved in that window.
THEOREM LossIsBounded == EditSpec => UndoesOnlyMissed
<1>1. ASSUME EditInv, [EditNext]_editVars, NEW r \in Editors, Wrote(r), NEW t, t = edit[r].thing,
             NEW c \in Columns(t), row'[t][c] # row[t][c]
      PROVE  c \in DOMAIN edit[r].asked \cup edit[r].moved
  <2>1. Write(r)
    BY <1>1, WroteByWrite
  <2> QED
    BY <1>1, <2>1, WriteFacts
<1>2. EditInv /\ [EditNext]_editVars =>
        [\A r \in Editors :
           Wrote(r) =>
             LET t == edit[r].thing IN
             \A c \in Columns(t) :
               row'[t][c] # row[t][c] => c \in DOMAIN edit[r].asked \cup edit[r].moved]_editVars
  BY <1>1
<1> QED
  BY <1>2, EditInvariant, PTL DEF EditSpec, UndoesOnlyMissed

\* A booking never passes every capacity that was in force while it was under way.
THEOREM WithinSight == EditSpec => NeverAboveSight
<1>1. ASSUME EditInv, [EditNext]_editVars, NEW r \in Editors, NEW t \in Classes,
             edit[r].pc = "take", edit[r].thing = t, seats'[t] > seats[t]
      PROVE  seats'[t] <= edit[r].sight
  <2>1. PICK s \in Editors : Take(s) /\ edit[s].thing = t
    BY <1>1, SeatByTake
  <2>2. /\ holder[t] = {s} /\ seats' = [seats EXCEPT ![t] = @ + 1]
        /\ seats[t] + 1 <= edit[s].sight
    BY <1>1, <2>1, Takes
  <2>3. s = r
    BY <1>1, <2>2 DEF EditInv, EditTypeOK
  <2> QED
    BY <2>2, <2>3, <1>1 DEF EditInv, EditTypeOK
<1>2. EditInv /\ [EditNext]_editVars =>
        [\A r \in Editors, t \in Classes :
           (edit[r].pc = "take" /\ edit[r].thing = t /\ seats'[t] > seats[t])
             => seats'[t] <= edit[r].sight]_editVars
  BY <1>1
<1> QED
  BY <1>2, EditInvariant, PTL DEF EditSpec, NeverAboveSight

=============================================================================
