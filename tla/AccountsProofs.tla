--------------------------- MODULE AccountsProofs ---------------------------
(***************************************************************************)
(* Proofs about Accounts, for any number of requests, accounts, passwords  *)
(* and sessions: the tables keep their shape, the last administrator       *)
(* stays, failures lock, and a session outlives a change of its password   *)
(* only where the code lets it.                                            *)
(***************************************************************************)
EXTENDS Accounts, FiniteSetTheorems, TLAPS

(***************************************************************************)
(* The inductive invariant.  What a request has read is worth what the     *)
(* code relies on: the counter until its transaction is stale, the         *)
(* password until a change excuses it, the row and the count until another *)
(* request has changed an account.                                         *)
(***************************************************************************)

AdminsIn(us) == {u \in DOMAIN us : us[u].role = "admin" /\ us[u].active}

\* Where a request decides about an account it has read, and where it acts on that.
Deciding == {"count", "update", "remove"}
Acting == {"update", "remove"}

\* Where it has named the account it is about.
Aiming == Deciding \cup {"unlock", "reset", "endReset", "endChanged"}

\* Where a request is about to give its user a session, now or after ending others.
Issuing == {"session", "endOthers", "renew"}

\* The counter that a transaction has read and may still commit on.
CounterIsFresh(r, us) ==
  r.pc = "countWrite" /\ ~r.stale => r.user \in DOMAIN us /\ r.attempts = us[r.user].attempts

PasswordIsKnown(r, us) ==
  r.pc \in Issuing =>
    /\ r.password \in Passwords
    /\ r.user \in DOMAIN us => r.excused \/ r.password = us[r.user].password

RowIsCurrent(r, us) ==
  r.pc \in Deciding /\ ~r.disturbed /\ r.target \in DOMAIN us =>
    us[r.target].role = r.row.role /\ us[r.target].active = r.row.active

AnotherAdmin(r, us) ==
  r.pc \in Acting /\ ~r.disturbed /\ Removes(r) => AdminsIn(us) \ {r.target} # {}

\* A request in state r, with the accounts us, n of them ever created.
Sound(r, us, n) ==
  /\ r \in Request
  /\ r.user <= n /\ r.target <= n
  /\ r.pc \in Aiming => r.target \in Ids
  /\ r.pc = "count" => r.op \in {"save", "delete"}
  /\ r.pc = "update" => r.op = "save"
  /\ r.pc = "remove" => r.op = "delete"
  /\ CounterIsFresh(r, us) /\ PasswordIsKnown(r, us)
  /\ RowIsCurrent(r, us) /\ AnotherAdmin(r, us)

RequestsSound == req \in [Handlers -> Request] /\ \A h \in Handlers : Sound(req[h], users, created)

\* The counter of a row is the number of failures committed, and reaching the limit
\* locks; ids that are not given yet have none.
CountersSound ==
  /\ counted \in [Ids -> Nat]
  /\ \A u \in DOMAIN users : users[u].attempts = counted[u]
  /\ \A u \in DOMAIN users : users[u].attempts >= MaxFailedLogins => users[u].lock # "none"
  /\ \A u \in Ids : u > created => counted[u] = 0

UsersTyped ==
  /\ DOMAIN users \subseteq 1..created /\ created \in 1..MaxUsers
  /\ \A u \in DOMAIN users : users[u] \in User

SessionsTyped ==
  /\ sessions \subseteq Session /\ issued \in 0..MaxSessions
  /\ \A s \in sessions : s.id <= issued /\ s.user \in DOMAIN users
  /\ \A s, t \in sessions : s.id = t.id => s = t

IInv ==
  /\ UsersTyped /\ SessionsTyped /\ CountersSound /\ RequestsSound
  /\ begun \in 0..MaxRequests /\ raced \in BOOLEAN
  /\ AdminRemains /\ SessionsKnowPassword

(***************************************************************************)
(* Requests.                                                               *)
(***************************************************************************)

LEMMA SomeId == 1 \in Ids /\ Ids \subseteq Nat /\ MaxUsers \in Nat
BY BoundsAssumption, SMT DEF Ids

LEMMA IdleSound ==
  ASSUME NEW us, NEW n \in Nat, 1 <= n
  PROVE  Sound(Idle, us, n)
<1>1. NoProfile \in Profile
  BY Zenon DEF NoProfile, Profile, AllRoles
<1>2. Idle \in Request
  <2>1. 0 \in Nat /\ 1 \in Ids
    BY SomeId, SMT
  <2> QED
    BY <1>1, <2>1, Zenon DEF Idle, Request, Points, Operations
<1>3. Idle.pc = "idle" /\ Idle.user = 1 /\ Idle.target = 0
  BY DEF Idle
<1> QED
  BY <1>2, <1>3, SMT DEF Sound, CounterIsFresh, PasswordIsKnown, RowIsCurrent, AnotherAdmin,
     Aiming, Deciding, Acting, Issuing

\* What the steps of others do to a request: they raise its flags.
Carried(q, p) ==
  /\ p \in Request
  /\ p.pc = q.pc /\ p.op = q.op /\ p.user = q.user /\ p.target = q.target
  /\ p.row = q.row /\ p.new = q.new /\ p.password = q.password /\ p.attempts = q.attempts
  /\ q.stale => p.stale
  /\ q.disturbed => p.disturbed
  /\ q.excused => p.excused

LEMMA CarriedBySelf ==
  ASSUME NEW q \in Request
  PROVE  Carried(q, q)
BY DEF Carried

LEMMA FlagsRaised ==
  ASSUME NEW q \in Request, NEW a \in BOOLEAN, NEW b \in BOOLEAN, NEW c \in BOOLEAN
  PROVE  /\ Carried(q, [q EXCEPT !.stale = @ \/ a])
         /\ Carried(q, [q EXCEPT !.stale = @ \/ a, !.disturbed = @ \/ b])
         /\ Carried(q, [q EXCEPT !.stale = @ \/ a, !.excused = @ \/ c])
<1>1. (q.stale \/ a) \in BOOLEAN /\ (q.disturbed \/ b) \in BOOLEAN /\ (q.excused \/ c) \in BOOLEAN
  BY DEF Request
<1>2. ASSUME NEW x \in BOOLEAN, NEW y \in BOOLEAN, NEW z \in BOOLEAN,
             q.stale => x, q.disturbed => y, q.excused => z
      PROVE  /\ Carried(q, [q EXCEPT !.stale = x])
             /\ Carried(q, [q EXCEPT !.stale = x, !.disturbed = y])
             /\ Carried(q, [q EXCEPT !.stale = x, !.excused = z])
  BY <1>2, Zenon DEF Carried, Request
<1> QED
  BY <1>1, <1>2, Zenon

LEMMA GivenBefore ==
  ASSUME NEW x \in Ids \cup {0}, NEW n \in Nat, NEW m \in Nat, n <= m, x <= n
  PROVE  x <= m
BY SomeId, SMT

\* A request others have carried stays sound when the accounts it relies on are as
\* it read them, or its flags say that they are not.
LEMMA CarriedSound ==
  ASSUME NEW q, NEW p, NEW us, NEW vs, NEW n \in Nat, NEW m \in Nat, n <= m,
         Sound(q, us, n), Carried(q, p),
         q.pc = "countWrite" /\ ~p.stale /\ q.user \in DOMAIN us =>
           q.user \in DOMAIN vs /\ vs[q.user].attempts = us[q.user].attempts,
         q.pc \in Issuing /\ ~p.excused /\ q.user \in DOMAIN vs =>
           q.user \in DOMAIN us /\ vs[q.user].password = us[q.user].password,
         q.pc \in Deciding /\ ~p.disturbed /\ q.target \in DOMAIN vs =>
           /\ q.target \in DOMAIN us
           /\ vs[q.target].role = us[q.target].role /\ vs[q.target].active = us[q.target].active,
         q.pc \in Deciding /\ ~p.disturbed => AdminsIn(us) \subseteq AdminsIn(vs)
  PROVE  Sound(p, vs, m)
<1>1. p \in Request /\ q \in Request
  BY DEF Carried, Sound
<1>2. p.user <= m /\ p.target <= m
  <2>1. p.user \in Ids /\ p.target \in Ids \cup {0}
    BY <1>1, Zenon DEF Request
  <2>2. p.user <= n /\ p.target <= n
    BY DEF Carried, Sound
  <2> QED
    BY <2>1, <2>2, GivenBefore
<1>3. /\ p.pc \in Aiming => p.target \in Ids
      /\ p.pc = "count" => p.op \in {"save", "delete"}
      /\ p.pc = "update" => p.op = "save"
      /\ p.pc = "remove" => p.op = "delete"
  BY DEF Carried, Sound
<1>4. CounterIsFresh(p, vs)
  BY DEF Carried, Sound, CounterIsFresh
<1>5. PasswordIsKnown(p, vs)
  BY DEF Carried, Sound, PasswordIsKnown
<1>6. RowIsCurrent(p, vs)
  BY DEF Carried, Sound, RowIsCurrent
<1>7. AnotherAdmin(p, vs)
  <2>1. Removes(p) => Removes(q)
    BY DEF Removes, Carried
  <2> QED
    BY <2>1 DEF Carried, Sound, AnotherAdmin, Acting, Deciding
<1> QED
  BY <1>1, <1>2, <1>3, <1>4, <1>5, <1>6, <1>7 DEF Sound

LEMMA SoundIsRequest ==
  ASSUME RequestsSound, NEW h \in Handlers
  PROVE  req[h] \in Request /\ Sound(req[h], users, created)
BY DEF RequestsSound

\* A step that writes no account.
LEMMA StepSound ==
  ASSUME RequestsSound, NEW h \in Handlers, NEW r, Sound(r, users, created), Step(h, r),
         UNCHANGED <<users, created>>
  PROVE  RequestsSound'
BY Zenon DEF RequestsSound, Step, Sound

\* A write that leaves role, access and password of every account alone.
KeepsAccounts ==
  /\ created' >= created
  /\ \A u \in DOMAIN users :
       /\ u \in DOMAIN users'
       /\ users'[u].role = users[u].role /\ users'[u].active = users[u].active
       /\ users'[u].password = users[u].password
  /\ \A u \in DOMAIN users' : u <= created => u \in DOMAIN users

LEMMA WroteSound ==
  ASSUME RequestsSound, created \in Nat, created' \in Nat, KeepsAccounts,
         NEW h \in Handlers, NEW r, Sound(r, users', created'), Wrote(h, r)
  PROVE  RequestsSound'
<1>1. ASSUME NEW g \in Handlers PROVE Sound(req'[g], users', created')
  <2>1. CASE g = h
    BY <1>1, <2>1, Zenon DEF Wrote
  <2>2. CASE g # h
    <3> DEFINE p == [req[g] EXCEPT !.stale = @ \/ req[g].pc = "countWrite"]
    <3>1. Sound(req[g], users, created) /\ req[g] \in Request
      BY <1>1, SoundIsRequest
    <3>2. Carried(req[g], p) /\ (req[g].pc = "countWrite" => p.stale)
      <4>1. (req[g].pc = "countWrite") \in BOOLEAN
        OBVIOUS
      <4>2. Carried(req[g], p)
        BY <3>1, <4>1, FlagsRaised, Zenon
      <4>3. req[g].pc = "countWrite" => p.stale
        BY <3>1, Zenon DEF Request
      <4> QED
        BY <4>2, <4>3
    <3>3. req'[g] = p
      BY <1>1, <2>2, Zenon DEF Wrote
    <3> HIDE DEF p
    <3>4. req[g].user <= created /\ req[g].target <= created
      BY <3>1 DEF Sound
    <3>5. AdminsIn(users) \subseteq AdminsIn(users')
      BY DEF KeepsAccounts, AdminsIn
    <3>6. Sound(p, users', created')
      <4>1. created <= created'
        BY SMT DEF KeepsAccounts
      <4>2. req[g].user \in DOMAIN users' =>
              req[g].user \in DOMAIN users /\ users'[req[g].user].password = users[req[g].user].password
        BY <3>4 DEF KeepsAccounts
      <4>3. req[g].target \in DOMAIN users' =>
              /\ req[g].target \in DOMAIN users
              /\ users'[req[g].target].role = users[req[g].target].role
              /\ users'[req[g].target].active = users[req[g].target].active
        BY <3>4 DEF KeepsAccounts
      <4> QED
        BY <3>1, <3>2, <3>5, <4>1, <4>2, <4>3, CarriedSound
    <3> QED
      BY <3>3, <3>6
  <2> QED
    BY <2>1, <2>2
<1>2. req' \in [Handlers -> Request]
  BY <1>1, Zenon DEF Wrote, Sound
<1> QED
  BY <1>1, <1>2 DEF RequestsSound

\* The password of v is replaced, and no role or access changes.
KeepsRoles(v) ==
  /\ DOMAIN users' = DOMAIN users /\ created' = created
  /\ \A u \in DOMAIN users :
       /\ users'[u].role = users[u].role /\ users'[u].active = users[u].active
       /\ u # v => users'[u].password = users[u].password

LEMMA WrotePasswordSound ==
  ASSUME RequestsSound, created \in Nat, NEW v, KeepsRoles(v),
         NEW h \in Handlers, NEW r, Sound(r, users', created'), WrotePassword(h, v, r)
  PROVE  RequestsSound'
<1>1. ASSUME NEW g \in Handlers PROVE Sound(req'[g], users', created')
  <2>1. CASE g = h
    BY <1>1, <2>1, Zenon DEF WrotePassword
  <2>2. CASE g # h
    <3> DEFINE b == req[g].pc = "countWrite"
               c == req[g].user = v /\ req[g].pc \in {"session", "endOthers", "renew"}
               p == [req[g] EXCEPT !.stale = @ \/ b, !.excused = @ \/ c]
    <3>1. Sound(req[g], users, created) /\ req[g] \in Request
      BY <1>1, SoundIsRequest
    <3>2. Carried(req[g], p) /\ (b => p.stale) /\ (c => p.excused)
      <4>1. b \in BOOLEAN /\ c \in BOOLEAN
        OBVIOUS
      <4> HIDE DEF b, c
      <4>2. Carried(req[g], p)
        BY <3>1, <4>1, FlagsRaised, Zenon
      <4>3. (b => p.stale) /\ (c => p.excused)
        BY <3>1, Zenon DEF Request
      <4> QED
        BY <4>2, <4>3
    <3>3. req'[g] = p
      BY <1>1, <2>2, Zenon DEF WrotePassword
    <3> HIDE DEF p
    <3>4. AdminsIn(users) \subseteq AdminsIn(users')
      BY DEF KeepsRoles, AdminsIn
    <3>5. Sound(p, users', created')
      <4>1. created <= created' /\ created' \in Nat
        BY SMT DEF KeepsRoles
      <4>2. req[g].pc \in Issuing /\ ~p.excused /\ req[g].user \in DOMAIN users' =>
              req[g].user \in DOMAIN users /\ users'[req[g].user].password = users[req[g].user].password
        BY <3>2 DEF KeepsRoles, Issuing
      <4>3. req[g].target \in DOMAIN users' =>
              /\ req[g].target \in DOMAIN users
              /\ users'[req[g].target].role = users[req[g].target].role
              /\ users'[req[g].target].active = users[req[g].target].active
        BY DEF KeepsRoles
      <4> QED
        BY <3>1, <3>2, <3>4, <4>1, <4>2, <4>3, CarriedSound
    <3> QED
      BY <3>3, <3>5
  <2> QED
    BY <2>1, <2>2
<1>2. req' \in [Handlers -> Request]
  BY <1>1, Zenon DEF WrotePassword, Sound
<1> QED
  BY <1>1, <1>2 DEF RequestsSound

\* Role and access may change and accounts go, but no password changes.
KeepsPasswords ==
  /\ DOMAIN users' \subseteq DOMAIN users /\ created' = created
  /\ \A u \in DOMAIN users' : users'[u].password = users[u].password

LEMMA WroteAccountSound ==
  ASSUME RequestsSound, created \in Nat, KeepsPasswords,
         NEW h \in Handlers, NEW r, Sound(r, users', created'), WroteAccount(h, r)
  PROVE  RequestsSound'
<1>1. ASSUME NEW g \in Handlers PROVE Sound(req'[g], users', created')
  <2>1. CASE g = h
    BY <1>1, <2>1, Zenon DEF WroteAccount
  <2>2. CASE g # h
    <3> DEFINE b == req[g].pc = "countWrite"
               d == req[g].pc \in {"count", "update", "remove"}
               p == [req[g] EXCEPT !.stale = @ \/ b, !.disturbed = @ \/ d]
    <3>1. Sound(req[g], users, created) /\ req[g] \in Request
      BY <1>1, SoundIsRequest
    <3>2. Carried(req[g], p) /\ (b => p.stale) /\ (d => p.disturbed)
      <4>1. b \in BOOLEAN /\ d \in BOOLEAN
        OBVIOUS
      <4> HIDE DEF b, d
      <4>2. Carried(req[g], p)
        BY <3>1, <4>1, FlagsRaised, Zenon
      <4>3. (b => p.stale) /\ (d => p.disturbed)
        BY <3>1, Zenon DEF Request
      <4> QED
        BY <4>2, <4>3
    <3>3. req'[g] = p
      BY <1>1, <2>2, Zenon DEF WroteAccount
    <3> HIDE DEF p
    <3>4. Sound(p, users', created')
      <4>1. created <= created' /\ created' \in Nat
        BY SMT DEF KeepsPasswords
      <4>2. req[g].user \in DOMAIN users' =>
              req[g].user \in DOMAIN users /\ users'[req[g].user].password = users[req[g].user].password
        BY DEF KeepsPasswords
      <4>3. req[g].pc \in Deciding => p.disturbed
        BY <3>2 DEF Deciding
      <4> QED
        BY <3>1, <3>2, <4>1, <4>2, <4>3, CarriedSound
    <3> QED
      BY <3>3, <3>4
  <2> QED
    BY <2>1, <2>2
<1>2. req' \in [Handlers -> Request]
  BY <1>1, Zenon DEF WroteAccount, Sound
<1> QED
  BY <1>1, <1>2 DEF RequestsSound

\* Whatever a step writes, it moves its own request and leaves the others where
\* they are.
Moves(h, r) ==
  Step(h, r) \/ Wrote(h, r) \/ WroteAccount(h, r) \/ \E v \in Ids : WrotePassword(h, v, r)

LEMMA OthersStay ==
  ASSUME RequestsSound, NEW h \in Handlers, NEW r, Moves(h, r)
  PROVE  /\ req'[h] = r
         /\ \A g \in Handlers \ {h} :
              /\ req'[g].pc = req[g].pc /\ req'[g].user = req[g].user
              /\ req'[g].target = req[g].target
<1>1. req \in [Handlers -> Request]
  BY DEF RequestsSound
<1>2. req'[h] = r
  BY <1>1, Zenon DEF Moves, Step, Wrote, WroteAccount, WrotePassword
<1>3. ASSUME NEW g \in Handlers \ {h}
      PROVE  /\ req'[g].pc = req[g].pc /\ req'[g].user = req[g].user
             /\ req'[g].target = req[g].target
  <2>1. req[g] \in Request
    BY <1>1, <1>3
  <2> DEFINE b == req[g].pc = "countWrite"
             d == req[g].pc \in {"count", "update", "remove"}
             c(v) == req[g].user = v /\ req[g].pc \in {"session", "endOthers", "renew"}
  <2>2. b \in BOOLEAN /\ d \in BOOLEAN /\ \A v \in Ids : c(v) \in BOOLEAN
    OBVIOUS
  <2>3. CASE Step(h, r)
    <3>1. req'[g] = req[g]
      BY <1>1, <1>3, <2>3, Zenon DEF Step
    <3> QED
      BY <3>1
  <2>4. CASE Wrote(h, r)
    <3>1. req'[g] = [req[g] EXCEPT !.stale = @ \/ b]
      BY <1>3, <2>4, Zenon DEF Wrote
    <3> HIDE DEF b
    <3>2. Carried(req[g], req'[g])
      BY <2>1, <2>2, <3>1, FlagsRaised, Zenon
    <3> QED
      BY <3>2 DEF Carried
  <2>5. CASE WroteAccount(h, r)
    <3>1. req'[g] = [req[g] EXCEPT !.stale = @ \/ b, !.disturbed = @ \/ d]
      BY <1>3, <2>5, Zenon DEF WroteAccount
    <3> HIDE DEF b, d
    <3>2. Carried(req[g], req'[g])
      BY <2>1, <2>2, <3>1, FlagsRaised, Zenon
    <3> QED
      BY <3>2 DEF Carried
  <2>6. ASSUME NEW v \in Ids, WrotePassword(h, v, r)
        PROVE  /\ req'[g].pc = req[g].pc /\ req'[g].user = req[g].user
               /\ req'[g].target = req[g].target
    <3>1. req'[g] = [req[g] EXCEPT !.stale = @ \/ b, !.excused = @ \/ c(v)]
      BY <1>3, <2>6, Zenon DEF WrotePassword
    <3> HIDE DEF b, c
    <3>2. Carried(req[g], req'[g])
      BY <2>1, <2>2, <2>6, <3>1, FlagsRaised, Zenon
    <3> QED
      BY <3>2 DEF Carried
  <2> HIDE DEF b, c, d
  <2> QED
    BY <2>3, <2>4, <2>5, <2>6 DEF Moves
<1> QED
  BY <1>2, <1>3

\* Only the step that ends them stops announcing that sessions are to be ended.
LEMMA EndingGoesOn ==
  ASSUME RequestsSound, NEW h \in Handlers, NEW r, Moves(h, r),
         req[h].pc \notin {"endOthers", "endReset"}, NEW u
  PROVE  Ending(u) => Ending(u)'
BY OthersStay DEF Ending

(***************************************************************************)
(* The table sessions.                                                     *)
(***************************************************************************)

\* Sessions that are the old ones, or fewer, or moved in time, of users whose
\* password has not changed.
LEMMA SessionsKept ==
  ASSUME UsersTyped, SessionsTyped, SessionsKnowPassword, issued' = issued,
         sessions' \subseteq Session,
         \A s \in sessions' : \E t \in sessions :
           s.id = t.id /\ s.user = t.user /\ s.knows = t.knows /\ (t.excused => s.excused),
         \A s, t \in sessions' : s.id = t.id => s = t,
         \A s \in sessions' : /\ s.user \in DOMAIN users'
                              /\ users'[s.user].password = users[s.user].password
                              /\ Ending(s.user) => s.excused \/ Ending(s.user)'
  PROVE  SessionsTyped' /\ SessionsKnowPassword'
<1>1. SessionsTyped'
  BY DEF SessionsTyped
<1>2. ASSUME NEW s \in sessions'
      PROVE  s.knows = users'[s.user].password \/ s.excused \/ Ending(s.user)'
  <2>1. PICK t \in sessions : s.user = t.user /\ s.knows = t.knows /\ (t.excused => s.excused)
    BY <1>2
  <2>2. t.knows = users[t.user].password \/ t.excused \/ Ending(t.user)
    BY DEF SessionsKnowPassword
  <2> QED
    BY <1>2, <2>1, <2>2
<1> QED
  BY <1>1, <1>2 DEF SessionsKnowPassword

LEMMA FewerSessions ==
  ASSUME UsersTyped, SessionsTyped, SessionsKnowPassword, issued' = issued,
         sessions' \subseteq sessions,
         \A s \in sessions' : /\ s.user \in DOMAIN users'
                              /\ users'[s.user].password = users[s.user].password
                              /\ Ending(s.user) => Ending(s.user)'
  PROVE  SessionsTyped' /\ SessionsKnowPassword'
<1>1. sessions' \subseteq Session /\ \A s, t \in sessions' : s.id = t.id => s = t
  BY DEF SessionsTyped
<1>2. \A s \in sessions' : \E t \in sessions :
        s.id = t.id /\ s.user = t.user /\ s.knows = t.knows /\ (t.excused => s.excused)
  OBVIOUS
<1> QED
  BY <1>1, <1>2, SessionsKept

(***************************************************************************)
(* The table users.                                                        *)
(***************************************************************************)

\* One row becomes row.
LEMMA OneRow ==
  ASSUME UsersTyped, created' = created, NEW u, NEW row, u \in DOMAIN users => row \in User,
         users' = [x \in DOMAIN users |-> IF x # u THEN users[x] ELSE row]
  PROVE  /\ UsersTyped' /\ DOMAIN users' = DOMAIN users
         /\ \A x \in DOMAIN users : users'[x] = IF x # u THEN users[x] ELSE row
BY DEF UsersTyped

\* Counters: cleared with the row's, or untouched with it.
LEMMA CountersCleared ==
  ASSUME UsersTyped, CountersSound, NEW u \in Ids, created' = created,
         DOMAIN users' = DOMAIN users, \A x \in DOMAIN users : x # u => users'[x] = users[x],
         u \in DOMAIN users => users'[u].attempts = 0,
         counted' = [counted EXCEPT ![u] = 0]
  PROVE  CountersSound'
<1>1. counted' \in [Ids -> Nat] /\ counted'[u] = 0 /\ \A x \in Ids \ {u} : counted'[x] = counted[x]
  BY DEF CountersSound
<1>2. DOMAIN users \subseteq Ids
  BY BoundsAssumption, SMT DEF UsersTyped, Ids
<1>3. ~(0 >= MaxFailedLogins)
  BY BoundsAssumption, SMT
<1>4. ASSUME NEW x \in DOMAIN users'
      PROVE  /\ users'[x].attempts = counted'[x]
             /\ users'[x].attempts >= MaxFailedLogins => users'[x].lock # "none"
  <2>1. CASE x = u
    BY <1>1, <1>3, <1>4, <2>1
  <2>2. CASE x # u
    BY <1>1, <1>2, <1>4, <2>2 DEF CountersSound
  <2> QED
    BY <2>1, <2>2
<1>5. \A x \in Ids : x > created' => counted'[x] = 0
  BY <1>1 DEF CountersSound
<1> QED
  BY <1>1, <1>4, <1>5 DEF CountersSound

LEMMA CountersKept ==
  ASSUME UsersTyped, CountersSound, UNCHANGED counted, created' = created,
         DOMAIN users' \subseteq DOMAIN users,
         \A x \in DOMAIN users' : users'[x].attempts = users[x].attempts,
         \A x \in DOMAIN users' : users[x].lock # "none" => users'[x].lock # "none"
  PROVE  CountersSound'
BY DEF CountersSound

LEMMA ClearedRow ==
  ASSUME NEW r \in User
  PROVE  /\ Cleared(r) \in User /\ Cleared(r).attempts = 0
         /\ Cleared(r).role = r.role /\ Cleared(r).active = r.active
         /\ Cleared(r).password = r.password
<1>1. 0 \in Nat
  OBVIOUS
<1> QED
  BY <1>1, Zenon DEF Cleared, User

LEMMA ClearFailuresKeeps ==
  ASSUME UsersTyped, CountersSound, created' = created, NEW u \in Ids,
         users' = ClearFailures(u), counted' = [counted EXCEPT ![u] = 0]
  PROVE  UsersTyped' /\ CountersSound' /\ KeepsAccounts
<1>1. u \in DOMAIN users => /\ Cleared(users[u]) \in User /\ Cleared(users[u]).attempts = 0
                            /\ Cleared(users[u]).role = users[u].role
                            /\ Cleared(users[u]).active = users[u].active
                            /\ Cleared(users[u]).password = users[u].password
  BY ClearedRow DEF UsersTyped
<1>2. users' = [x \in DOMAIN users |-> IF x # u THEN users[x] ELSE Cleared(users[u])]
  BY Zenon DEF ClearFailures
<1>3. /\ UsersTyped' /\ DOMAIN users' = DOMAIN users
      /\ \A x \in DOMAIN users : users'[x] = IF x # u THEN users[x] ELSE Cleared(users[u])
  BY <1>1, <1>2, OneRow
<1>4. CountersSound'
  BY <1>1, <1>3, CountersCleared
<1>5. KeepsAccounts
  <2>1. created' >= created
    BY BoundsAssumption, SMT DEF UsersTyped
  <2> QED
    BY <1>1, <1>3, <2>1 DEF KeepsAccounts
<1> QED
  BY <1>3, <1>4, <1>5

LEMMA SetPasswordKeeps ==
  ASSUME UsersTyped, CountersSound, created' = created, NEW u \in Ids, NEW pw \in Passwords,
         users' = SetPassword(u, pw), counted' = [counted EXCEPT ![u] = 0]
  PROVE  /\ UsersTyped' /\ CountersSound' /\ KeepsRoles(u)
         /\ u \in DOMAIN users => users'[u].password = pw
<1> DEFINE row == [Cleared(users[u]) EXCEPT !.password = pw, !.mustChange = FALSE]
<1>1. u \in DOMAIN users => /\ row \in User /\ row.attempts = 0 /\ row.password = pw
                            /\ row.role = users[u].role /\ row.active = users[u].active
  <2> SUFFICES ASSUME u \in DOMAIN users
               PROVE  /\ row \in User /\ row.attempts = 0 /\ row.password = pw
                      /\ row.role = users[u].role /\ row.active = users[u].active
    OBVIOUS
  <2>1. users[u] \in User
    BY DEF UsersTyped
  <2> DEFINE c == Cleared(users[u])
  <2>2. c \in User /\ c.attempts = 0 /\ c.role = users[u].role /\ c.active = users[u].active
    BY <2>1, ClearedRow
  <2> HIDE DEF c
  <2>3. [c EXCEPT !.password = pw, !.mustChange = FALSE] \in User
    BY <2>2, Zenon DEF User
  <2>4. LET d == [c EXCEPT !.password = pw, !.mustChange = FALSE]
        IN d.attempts = c.attempts /\ d.password = pw /\ d.role = c.role /\ d.active = c.active
    BY <2>2, Zenon DEF User
  <2> QED
    BY <2>2, <2>3, <2>4 DEF c
<1>2. users' = [x \in DOMAIN users |-> IF x # u THEN users[x] ELSE row]
  BY Zenon DEF SetPassword
<1> HIDE DEF row
<1>3. /\ UsersTyped' /\ DOMAIN users' = DOMAIN users
      /\ \A x \in DOMAIN users : users'[x] = IF x # u THEN users[x] ELSE row
  BY <1>1, <1>2, OneRow
<1>4. CountersSound'
  BY <1>1, <1>3, CountersCleared
<1>5. KeepsRoles(u)
  BY <1>1, <1>3 DEF KeepsRoles
<1> QED
  BY <1>1, <1>3, <1>4, <1>5

(***************************************************************************)
(* What is common to the steps.                                            *)
(***************************************************************************)

\* Where a request relies on nothing it has read.
Carefree == Points \ (Deciding \cup Issuing \cup {"countWrite"})

LEMMA CarefreeSound ==
  ASSUME NEW r \in Request, NEW us, NEW n, r.user <= n, r.target <= n, r.pc \in Carefree,
         r.pc \in Aiming => r.target \in Ids
  PROVE  Sound(r, us, n)
BY DEF Sound, CounterIsFresh, PasswordIsKnown, RowIsCurrent, AnotherAdmin, Carefree, Acting, Deciding

LEMMA GoSound ==
  ASSUME RequestsSound, NEW h \in Handlers, NEW p \in Carefree,
         p \in Aiming => req[h].target \in Ids
  PROVE  Sound(Go(h, p), users, created)
<1>1. req[h] \in Request /\ Sound(req[h], users, created) /\ p \in Points
  BY SoundIsRequest DEF Carefree
<1>2. /\ Go(h, p) \in Request /\ Go(h, p).pc = p
      /\ Go(h, p).user = req[h].user /\ Go(h, p).target = req[h].target
  BY <1>1, Zenon DEF Go, Request
<1> QED
  BY <1>1, <1>2, CarefreeSound DEF Sound

LEMMA IdleHere ==
  ASSUME UsersTyped
  PROVE  Sound(Idle, users, created) /\ created \in Nat
<1>1. created \in Nat /\ 1 <= created
  BY BoundsAssumption, SMT DEF UsersTyped
<1> QED
  BY <1>1, IdleSound

LEMMA BegunCounts ==
  ASSUME begun \in 0..MaxRequests, begun < MaxRequests, begun' = begun + 1
  PROVE  begun' \in 0..MaxRequests
BY BoundsAssumption, SMT

\* A step that writes neither accounts nor counters.
LEMMA Quiet ==
  ASSUME IInv, UNCHANGED <<users, created, counted, raced>>, RequestsSound',
         SessionsTyped', SessionsKnowPassword', begun' \in 0..MaxRequests
  PROVE  IInv'
BY DEF IInv, UsersTyped, CountersSound, AdminRemains, Admins

\* A step that writes nothing but its request, and none that must end sessions.
LEMMA OwnStep ==
  ASSUME IInv, NEW h \in Handlers, NEW r, Sound(r, users, created), Step(h, r) \/ Wrote(h, r),
         req[h].pc \notin {"endOthers", "endReset"},
         UNCHANGED <<users, created, issued, counted, raced>>, sessions' \subseteq sessions,
         begun' \in 0..MaxRequests
  PROVE  IInv'
<1>1. /\ RequestsSound /\ UsersTyped /\ SessionsTyped /\ SessionsKnowPassword
      /\ created \in Nat /\ created' \in Nat
  BY IdleHere DEF IInv
<1>2. KeepsAccounts
  BY <1>1, SMT DEF KeepsAccounts
<1>3. RequestsSound'
  BY <1>1, <1>2, StepSound, WroteSound
<1>4. Moves(h, r)
  BY DEF Moves
<1>5. SessionsTyped' /\ SessionsKnowPassword'
  BY <1>1, <1>4, EndingGoesOn, FewerSessions DEF SessionsTyped
<1> QED
  BY <1>3, <1>5, Quiet

(***************************************************************************)
(* Logins.                                                                 *)
(***************************************************************************)

LEMMA BeginLoginPreserves ==
  ASSUME IInv, NEW h \in Handlers, NEW u \in Ids, BeginLogin(h, u)
  PROVE  IInv'
<1>1. UsersTyped /\ begun \in 0..MaxRequests
  BY DEF IInv
<1>2. u \in DOMAIN users /\ users[u] \in User /\ u \in Nat /\ u <= created /\ created \in Nat
  <2>1. u \in DOMAIN users /\ created \in 0..MaxUsers /\ u \in 1..created
    BY <1>1, IdleHere DEF BeginLogin, UsersTyped
  <2> QED
    BY <1>1, <2>1 DEF UsersTyped
<1>3. begun' \in 0..MaxRequests
  BY <1>1, BegunCounts DEF BeginLogin
<1>4. PICK verified \in BOOLEAN :
        Step(h, [Idle EXCEPT !.pc = IF verified THEN "session" ELSE "countRead", !.user = u,
                             !.password = IF verified THEN users[u].password ELSE "none"])
  BY Zenon DEF BeginLogin
<1> DEFINE p == IF verified THEN "session" ELSE "countRead"
           w == IF verified THEN users[u].password ELSE "none"
           r == [Idle EXCEPT !.pc = p, !.user = u, !.password = w]
<1>5. /\ p \in Points /\ w \in Passwords \cup {"none"}
      /\ p \notin Deciding \cup {"countWrite"}
      /\ p \in Issuing => w \in Passwords /\ w = users[u].password
  BY <1>2 DEF Points, User, Issuing, Deciding
<1>6. Idle \in Request /\ Idle.target = 0
  BY <1>1, IdleHere DEF Sound, Idle
<1> HIDE DEF p, w
<1>7. /\ r \in Request /\ r.pc = p /\ r.user = u /\ r.password = w /\ r.target = 0
  BY <1>5, <1>6, Zenon DEF Request
<1> HIDE DEF r
<1>8. Sound(r, users, created)
  <2>1. r.user <= created /\ r.target <= created
    BY <1>2, <1>7, SMT
  <2>2. r.pc \notin {"count", "update", "remove"} /\ r.pc \notin Aiming
    BY <1>5, <1>7 DEF Deciding, Aiming, p
  <2> QED
    BY <1>5, <1>7, <2>1, <2>2
       DEF Sound, CounterIsFresh, PasswordIsKnown, RowIsCurrent, AnotherAdmin, Acting, Deciding
<1>9. Step(h, r) /\ req[h].pc = "idle"
  BY <1>4 DEF r, p, w, BeginLogin
<1> QED
  BY <1>3, <1>8, <1>9, OwnStep DEF BeginLogin

LEMMA CountReadPreserves ==
  ASSUME IInv, NEW h \in Handlers, CountRead(h)
  PROVE  IInv'
<1>1. /\ UsersTyped /\ begun \in 0..MaxRequests /\ RequestsSound
      /\ req[h].pc = "countRead" /\ req[h] \in Request /\ Sound(req[h], users, created)
  BY SoundIsRequest DEF IInv, CountRead
<1>2. CASE req[h].user \notin DOMAIN users
  <2>1. Step(h, Idle)
    BY <1>2 DEF CountRead
  <2> QED
    BY <1>1, <2>1, IdleHere, OwnStep DEF CountRead
<1>3. CASE req[h].user \in DOMAIN users
  <2> DEFINE n == users[req[h].user].attempts
             r == [Go(h, "countWrite") EXCEPT !.attempts = n]
  <2>1. n \in Nat
    BY <1>1, <1>3 DEF UsersTyped, User
  <2>2. Step(h, r)
    BY <1>3 DEF CountRead
  <2> HIDE DEF n
  <2>3. /\ r \in Request /\ r.pc = "countWrite" /\ r.attempts = n
        /\ r.user = req[h].user /\ r.target = req[h].target
    BY <1>1, <2>1, Zenon DEF Go, Request, Points
  <2> HIDE DEF r
  <2>4. Sound(r, users, created)
    BY <1>1, <1>3, <2>3
       DEF n, Sound, CounterIsFresh, PasswordIsKnown, RowIsCurrent, AnotherAdmin, Acting, Deciding, Issuing, Aiming
  <2> QED
    BY <1>1, <2>2, <2>4, OwnStep DEF CountRead
<1> QED
  BY <1>2, <1>3

\* A failure that is counted is counted on the present value.
LEMMA CountWritePreserves ==
  ASSUME IInv, NEW h \in Handlers, CountWrite(h)
  PROVE  IInv'
<1>1. /\ UsersTyped /\ begun \in 0..MaxRequests /\ RequestsSound /\ CountersSound
      /\ SessionsTyped /\ SessionsKnowPassword
      /\ req[h].pc = "countWrite" /\ req[h] \in Request /\ Sound(req[h], users, created)
  BY SoundIsRequest DEF IInv, CountWrite
<1>2. UNCHANGED <<created, sessions, issued, begun, raced>>
  BY DEF CountWrite
<1>3. CASE Step(h, Idle) /\ UNCHANGED <<users, counted>>
  BY <1>1, <1>2, <1>3, IdleHere, OwnStep
<1>4. CASE /\ Commits(req[h]) /\ users' = RegisterFailedLogin(req[h].user, req[h].attempts + 1)
           /\ counted' = [counted EXCEPT ![req[h].user] = @ + 1] /\ Wrote(h, Idle)
  <2> DEFINE u == req[h].user
             n == req[h].attempts + 1
             l == IF n >= MaxFailedLogins THEN "locked" ELSE users[u].lock
             row == [users[u] EXCEPT !.attempts = n, !.lock = l]
  <2>1. u \in DOMAIN users /\ users[u] \in User /\ req[h].attempts = users[u].attempts
    BY <1>1, <1>4 DEF Sound, CounterIsFresh, Commits, UsersTyped
  <2>2. u \in Ids /\ counted[u] \in Nat /\ n = counted[u] + 1
    <3>1. u \in Ids
      BY <1>1, Zenon DEF Request
    <3> QED
      BY <1>1, <2>1, <3>1 DEF CountersSound
  <2>3. n \in Nat /\ l \in {"none", "locked", "expired"}
    BY <2>1, <2>2 DEF User
  <2>4. users' = [x \in DOMAIN users |-> IF x # u THEN users[x] ELSE row]
    BY <1>4, Zenon DEF RegisterFailedLogin
  <2>5. n >= MaxFailedLogins => l = "locked"
    OBVIOUS
  <2> HIDE DEF n, l
  <2>6. /\ row \in User /\ row.attempts = n /\ row.lock = l /\ row.role = users[u].role
        /\ row.active = users[u].active /\ row.password = users[u].password
    BY <2>1, <2>3, Zenon DEF User
  <2> HIDE DEF row
  <2>7. /\ UsersTyped' /\ DOMAIN users' = DOMAIN users
        /\ \A x \in DOMAIN users : users'[x] = IF x # u THEN users[x] ELSE row
    BY <1>1, <1>2, <2>4, <2>6, OneRow
  <2>8. counted' \in [Ids -> Nat] /\ counted'[u] = n /\ \A x \in Ids \ {u} : counted'[x] = counted[x]
    BY <1>1, <1>4, <2>2, <2>3 DEF CountersSound
  <2>9. DOMAIN users \subseteq Ids /\ u <= created /\ created \in Nat
    BY <1>1, BoundsAssumption, IdleHere, SMT DEF UsersTyped, Ids, Sound
  <2>10. CountersSound'
    <3>1. \A x \in DOMAIN users' : users'[x].attempts = counted'[x]
      BY <1>1, <2>6, <2>7, <2>8, <2>9 DEF CountersSound
    <3>2. \A x \in DOMAIN users' : users'[x].attempts >= MaxFailedLogins => users'[x].lock # "none"
      BY <1>1, <2>5, <2>6, <2>7 DEF CountersSound
    <3>3. \A x \in Ids : x > created' => counted'[x] = 0
      <4>1. ~(u > created)
        <5>1. u \in Nat
          BY <2>2, SomeId
        <5> QED
          BY <2>9, <5>1, SMT
      <4> QED
        BY <1>1, <1>2, <2>8, <4>1 DEF CountersSound
    <3> QED
      BY <2>8, <3>1, <3>2, <3>3 DEF CountersSound
  <2>11. KeepsAccounts
    BY <1>2, <2>6, <2>7, <2>9, SMT DEF KeepsAccounts
  <2>12. RequestsSound'
    BY <1>1, <1>2, <1>4, <2>7, <2>9, <2>11, IdleHere, IdleSound, WroteSound DEF Sound, UsersTyped
  <2>13. Moves(h, Idle)
    BY <1>4 DEF Moves
  <2>14. SessionsTyped' /\ SessionsKnowPassword'
    <3>1. \A s \in sessions' : Ending(s.user) => Ending(s.user)'
      BY <1>1, <2>13, EndingGoesOn
    <3> QED
      BY <1>1, <1>2, <2>7, <2>11, <3>1, FewerSessions DEF SessionsTyped, KeepsAccounts
  <2>15. AdminRemains'
    BY <1>2, <2>6, <2>7 DEF IInv, AdminRemains, Admins
  <2> QED
    BY <1>1, <1>2, <2>7, <2>10, <2>12, <2>14, <2>15 DEF IInv
<1> QED
  BY <1>3, <1>4 DEF CountWrite

\* A new session has a number of its own, and its holder knows the password or was
\* overtaken by the change of it.
LEMMA IssueSessionPreserves ==
  ASSUME IInv, NEW h \in Handlers, IssueSession(h)
  PROVE  IInv'
<1> DEFINE u == req[h].user
           s0 == [id |-> issued + 1, user |-> u, expired |-> FALSE,
                  knows |-> req[h].password, excused |-> req[h].excused]
           r == IF req[h].pc = "session" /\ CanOwn(u) THEN Go(h, "success") ELSE Idle
<1>1. /\ UsersTyped /\ begun \in 0..MaxRequests /\ RequestsSound /\ SessionsTyped
      /\ SessionsKnowPassword /\ req[h] \in Request /\ Sound(req[h], users, created)
      /\ req[h].pc \in {"session", "renew"}
  BY SoundIsRequest DEF IInv, IssueSession
<1>2. UNCHANGED <<users, created, counted, raced>> /\ begun' \in 0..MaxRequests
  BY <1>1 DEF IssueSession
<1>3. Wrote(h, r) /\ Moves(h, r)
  BY Zenon DEF IssueSession, Moves
<1>4. Sound(r, users, created)
  BY <1>1, GoSound, IdleHere DEF Carefree, Points, Deciding, Issuing, Aiming
<1> HIDE DEF r
<1>5. created \in Nat /\ KeepsAccounts
  BY <1>1, <1>2, IdleHere, SMT DEF KeepsAccounts
<1>6. RequestsSound'
  BY <1>1, <1>2, <1>3, <1>4, <1>5, WroteSound
<1>7. \A v : Ending(v) => Ending(v)'
  BY <1>1, <1>3, EndingGoesOn
<1>8. /\ issued \in Nat /\ issued' = issued + 1 /\ issued' \in 0..MaxSessions
      /\ issued + 1 \in SessionIds
  BY <1>1, BoundsAssumption, SMT DEF IssueSession, SessionsTyped, SessionIds
<1>9. SessionsTyped' /\ SessionsKnowPassword'
  <2>1. CASE ~CanOwn(u)
    <3>1. sessions' = sessions
      BY <2>1 DEF IssueSession, CreateSession
    <3>2. \A s \in sessions : s.id <= issued' /\ s.id \in Nat
      <4>1. \A s \in sessions : s.id \in SessionIds
        BY <1>1 DEF SessionsTyped, Session
      <4> QED
        BY <1>1, <1>8, <4>1, BoundsAssumption, SMT DEF SessionsTyped, SessionIds
    <3>3. SessionsTyped'
      BY <1>1, <1>2, <1>8, <3>1, <3>2 DEF SessionsTyped
    <3> QED
      BY <1>1, <1>2, <1>7, <3>1, <3>3 DEF SessionsKnowPassword
  <2>2. CASE CanOwn(u)
    <3>1. sessions' = sessions \cup {s0} /\ u \in DOMAIN users
      BY <2>2 DEF IssueSession, CreateSession, CanOwn
    <3>2. /\ req[h].password \in Passwords
          /\ req[h].excused \/ req[h].password = users[u].password
      BY <1>1, <3>1 DEF Sound, PasswordIsKnown, Issuing
    <3>3. u \in Ids /\ req[h].excused \in BOOLEAN
      BY <1>1, Zenon DEF Request
    <3>4. /\ s0 \in Session /\ s0.id = issued + 1 /\ s0.user = u /\ s0.knows = req[h].password
          /\ s0.excused = req[h].excused
      BY <1>8, <3>2, <3>3 DEF Session
    <3> HIDE DEF s0
    <3>5. \A s \in sessions : s.id <= issued' /\ s.id # issued + 1
      <4>1. \A s \in sessions : s.id \in SessionIds /\ s.id <= issued
        BY <1>1 DEF SessionsTyped, Session
      <4> QED
        BY <1>8, <4>1, BoundsAssumption, SMT DEF SessionIds
    <3>6. sessions' \subseteq Session /\ \A s \in sessions' : s.id <= issued'
      BY <1>1, <1>8, <3>1, <3>4, <3>5, SMT DEF SessionsTyped
    <3>7. \A s \in sessions' : s.user \in DOMAIN users'
      BY <1>1, <1>2, <3>1, <3>4 DEF SessionsTyped
    <3>8. \A s, t \in sessions' : s.id = t.id => s = t
      BY <1>1, <3>1, <3>4, <3>5 DEF SessionsTyped
    <3>9. SessionsTyped'
      BY <1>8, <3>6, <3>7, <3>8 DEF SessionsTyped
    <3>10. SessionsKnowPassword'
      BY <1>1, <1>2, <1>7, <3>1, <3>2, <3>4 DEF SessionsKnowPassword
    <3> QED
      BY <3>9, <3>10
  <2> QED
    BY <2>1, <2>2
<1> QED
  BY <1>2, <1>6, <1>9, Quiet

\* A write that clears the failures of u and ends the request.
LEMMA ClearingPreserves ==
  ASSUME IInv, NEW h \in Handlers, NEW u \in Ids, req[h].pc \in {"success", "unlock"},
         users' = ClearFailures(u), counted' = [counted EXCEPT ![u] = 0], Wrote(h, Idle),
         UNCHANGED <<created, sessions, issued, begun, raced>>
  PROVE  IInv'
<1>1. /\ UsersTyped /\ CountersSound /\ RequestsSound /\ SessionsTyped /\ SessionsKnowPassword
      /\ AdminRemains /\ created \in Nat /\ created' \in Nat
  BY IdleHere DEF IInv
<1>2. UsersTyped' /\ CountersSound' /\ KeepsAccounts
  BY <1>1, ClearFailuresKeeps
<1>3. Sound(Idle, users', created')
  BY <1>1, <1>2, IdleHere, IdleSound, BoundsAssumption, SMT DEF UsersTyped
<1>4. RequestsSound'
  BY <1>1, <1>2, <1>3, WroteSound
<1>5. SessionsTyped' /\ SessionsKnowPassword'
  <2>1. \A v : Ending(v) => Ending(v)'
    BY <1>1, EndingGoesOn DEF Moves
  <2> QED
    BY <1>1, <1>2, <2>1, FewerSessions DEF SessionsTyped, KeepsAccounts
<1>6. AdminRemains'
  BY <1>1, <1>2 DEF AdminRemains, Admins, KeepsAccounts
<1> QED
  BY <1>2, <1>4, <1>5, <1>6 DEF IInv

LEMMA ClearPreserves ==
  ASSUME IInv, NEW h \in Handlers, RegisterSuccessfulLogin(h) \/ UnlockUser(h)
  PROVE  IInv'
<1>1. req[h] \in Request /\ Sound(req[h], users, created)
  BY SoundIsRequest DEF IInv
<1>2. CASE RegisterSuccessfulLogin(h)
  <2>1. req[h].user \in Ids
    BY <1>1, Zenon DEF Request
  <2> QED
    BY <1>2, <2>1, ClearingPreserves DEF RegisterSuccessfulLogin
<1>3. CASE UnlockUser(h)
  <2>1. req[h].target \in Ids
    BY <1>1, <1>3 DEF UnlockUser, Sound, Aiming
  <2> QED
    BY <1>3, <2>1, ClearingPreserves DEF UnlockUser
<1> QED
  BY <1>2, <1>3

(***************************************************************************)
(* Authenticated requests.                                                 *)
(***************************************************************************)

LEMMA LookupSessionPreserves ==
  ASSUME IInv, NEW h \in Handlers, NEW s \in sessions, NEW op \in Operations,
         LookupSession(h, s, op)
  PROVE  IInv'
<1>1. /\ UsersTyped /\ SessionsTyped /\ begun' \in 0..MaxRequests /\ req[h].pc = "idle"
      /\ UNCHANGED <<users, created, issued, counted, raced>>
  BY BegunCounts DEF IInv, LookupSession
<1>2. CASE sessions' = WithoutSession(s.id) /\ Wrote(h, Idle)
  BY <1>1, <1>2, IdleHere, OwnStep DEF WithoutSession
<1>3. CASE /\ Step(h, [Idle EXCEPT !.pc = "user", !.op = op, !.session = s.id, !.user = s.user])
           /\ UNCHANGED sessions
  <2> DEFINE i == s.id
             u == s.user
             r == [Idle EXCEPT !.pc = "user", !.op = op, !.session = i, !.user = u]
  <2>1. i \in SessionIds /\ u \in Ids /\ u \in DOMAIN users
    BY <1>1 DEF SessionsTyped, Session
  <2>2. Idle \in Request /\ Idle.target = 0 /\ created \in Nat
    BY <1>1, IdleHere DEF Sound, Idle
  <2>3. Step(h, r)
    BY <1>3
  <2> HIDE DEF i, u
  <2>4. r \in Request /\ r.pc = "user" /\ r.user = u /\ r.target = 0
    BY <2>1, <2>2, Zenon DEF Request, Points
  <2> HIDE DEF r
  <2>5. r.user <= created /\ r.target <= created
    BY <1>1, <2>1, <2>2, <2>4, SMT DEF UsersTyped
  <2>6. Sound(r, users, created)
    BY <2>4, <2>5, CarefreeSound DEF Carefree, Points, Deciding, Issuing, Aiming
  <2> QED
    BY <1>1, <1>3, <2>3, <2>6, OwnStep
<1> QED
  BY <1>2, <1>3 DEF LookupSession

LEMMA LoadUserPreserves ==
  ASSUME IInv, NEW h \in Handlers, LoadUser(h)
  PROVE  IInv'
<1>1. /\ UsersTyped /\ begun' \in 0..MaxRequests /\ req[h].pc = "user" /\ req[h] \in Request
      /\ Sound(req[h], users, created) /\ UNCHANGED <<users, created, issued, counted, raced>>
  BY SoundIsRequest DEF IInv, LoadUser
<1>2. CASE Step(h, Idle) /\ UNCHANGED sessions
  BY <1>1, <1>2, IdleHere, OwnStep
<1>3. CASE sessions' = WithoutSession(req[h].session) /\ Wrote(h, Idle)
  BY <1>1, <1>3, IdleHere, OwnStep DEF WithoutSession
<1>4. CASE /\ req[h].user \in DOMAIN users /\ UNCHANGED sessions
           /\ Step(h, [Go(h, "touch") EXCEPT !.row = ProfileOf(users[req[h].user]),
                   !.password = IF req[h].op = "password" THEN users[req[h].user].password ELSE "none"])
  <2> DEFINE row == ProfileOf(users[req[h].user])
             w == IF req[h].op = "password" THEN users[req[h].user].password ELSE "none"
             r == [Go(h, "touch") EXCEPT !.row = row, !.password = w]
  <2>1. users[req[h].user] \in User
    BY <1>1, <1>4 DEF UsersTyped
  <2>2. row \in Profile /\ w \in Passwords \cup {"none"}
    BY <2>1 DEF ProfileOf, Profile, User
  <2>3. Step(h, r)
    BY <1>4
  <2> HIDE DEF row, w
  <2>4. /\ r \in Request /\ r.pc = "touch" /\ r.user = req[h].user /\ r.target = req[h].target
    BY <1>1, <2>2, Zenon DEF Go, Request, Points
  <2> HIDE DEF r
  <2>5. Sound(r, users, created)
    BY <1>1, <2>4, CarefreeSound DEF Sound, Carefree, Points, Deciding, Issuing, Aiming
  <2> QED
    BY <1>1, <1>4, <2>3, <2>5, OwnStep
<1> QED
  BY <1>2, <1>3, <1>4 DEF LoadUser

\* Sliding the expiry touches no other column, and no session that is not there.
LEMMA TouchSessionPreserves ==
  ASSUME IInv, NEW h \in Handlers, TouchSession(h)
  PROVE  IInv'
<1> DEFINE p == Entry(req[h].op)
           q == [Go(h, p) EXCEPT !.row = NoProfile]
           r == IF Admitted(req[h].op, req[h].row) THEN q ELSE Idle
<1>1. /\ UsersTyped /\ begun' \in 0..MaxRequests /\ req[h].pc = "touch" /\ req[h] \in Request
      /\ Sound(req[h], users, created) /\ UNCHANGED <<users, created, issued, counted, raced>>
      /\ RequestsSound /\ SessionsTyped /\ SessionsKnowPassword
  BY SoundIsRequest DEF IInv, TouchSession
<1>2. p \in {"logout", "verify", "create", "target"}
  BY DEF Entry
<1>3. Sound(r, users, created)
  <2>1. NoProfile \in Profile
    BY Zenon DEF NoProfile, Profile, AllRoles
  <2>2. p \in Points
    BY <1>2 DEF Points
  <2> HIDE DEF p
  <2>3. q \in Request /\ q.pc = p /\ q.user = req[h].user /\ q.target = req[h].target
    BY <1>1, <2>1, <2>2, Zenon DEF Go, Request
  <2> HIDE DEF q
  <2>4. Sound(q, users, created)
    BY <1>1, <1>2, <2>3, CarefreeSound DEF Sound, Carefree, Points, Deciding, Issuing, Aiming
  <2> QED
    BY <1>1, <2>4, IdleHere
<1>4. CASE Step(h, r) /\ UNCHANGED sessions
  <2> HIDE DEF r
  <2> QED
    BY <1>1, <1>3, <1>4, OwnStep
<1>5. CASE sessions' = Slid(req[h]) /\ Wrote(h, r)
  <2> HIDE DEF r
  <2>1. Moves(h, r) /\ KeepsAccounts /\ created \in Nat
    BY <1>1, <1>5, IdleHere, SMT DEF Moves, KeepsAccounts
  <2>2. RequestsSound'
    BY <1>1, <1>3, <1>5, <2>1, WroteSound
  <2> DEFINE F(t) == IF t.id = req[h].session THEN [t EXCEPT !.expired = FALSE] ELSE t
  <2>3. ASSUME NEW s \in sessions'
        PROVE  \E t \in sessions : /\ s \in Session /\ s.id = t.id /\ s.user = t.user
                                   /\ s.knows = t.knows /\ s.excused = t.excused /\ s = F(t)
    <3>1. PICK t \in sessions : s = F(t)
      BY <1>5, <2>3, Zenon DEF Slid
    <3>2. t \in Session
      BY <1>1 DEF SessionsTyped
    <3>3. /\ F(t) \in Session /\ F(t).id = t.id /\ F(t).user = t.user
          /\ F(t).knows = t.knows /\ F(t).excused = t.excused
      BY <3>2, Zenon DEF Session
    <3> HIDE DEF F
    <3> QED
      BY <3>1, <3>3
  <2> HIDE DEF F
  <2>4. \A s, t \in sessions' : s.id = t.id => s = t
    BY <1>1, <2>3 DEF SessionsTyped
  <2>5. \A v : Ending(v) => Ending(v)'
    BY <1>1, <2>1, EndingGoesOn
  <2>6. SessionsTyped' /\ SessionsKnowPassword'
    <3>1. sessions' \subseteq Session /\ \A s \in sessions' : s.user \in DOMAIN users
      BY <1>1, <2>3 DEF SessionsTyped
    <3>2. \A s \in sessions' : \E t \in sessions :
            s.id = t.id /\ s.user = t.user /\ s.knows = t.knows /\ (t.excused => s.excused)
      BY <2>3
    <3> QED
      BY <1>1, <2>4, <2>5, <3>1, <3>2, SessionsKept
  <2> QED
    BY <1>1, <2>2, <2>6, Quiet
<1> QED
  BY <1>4, <1>5 DEF TouchSession

LEMMA LogoutPreserves ==
  ASSUME IInv, NEW h \in Handlers, Logout(h)
  PROVE  IInv'
<1>1. UsersTyped /\ begun' \in 0..MaxRequests /\ req[h].pc = "logout"
  BY DEF IInv, Logout
<1> QED
  BY <1>1, IdleHere, OwnStep DEF Logout, WithoutSession

\* The password of u is replaced, and the request goes on to end u's sessions.
ReplacesPassword(h, u, pw, r) ==
  /\ req[h].pc \in {"verify", "reset"}
  /\ (r.pc = "endOthers" /\ r.user = u) \/ (r.pc = "endReset" /\ r.target = u)
  /\ users' = SetPassword(u, pw) /\ counted' = [counted EXCEPT ![u] = 0]
  /\ WrotePassword(h, u, r)
  /\ UNCHANGED <<created, sessions, issued, begun, raced>>

LEMMA NewPasswordPreserves ==
  ASSUME IInv, NEW h \in Handlers, NEW u \in Ids, NEW pw \in Passwords, NEW r,
         ReplacesPassword(h, u, pw, r), Sound(r, users', created)
  PROVE  IInv'
<1>0. /\ req[h].pc \in {"verify", "reset"}
      /\ (r.pc = "endOthers" /\ r.user = u) \/ (r.pc = "endReset" /\ r.target = u)
      /\ users' = SetPassword(u, pw) /\ counted' = [counted EXCEPT ![u] = 0]
      /\ WrotePassword(h, u, r) /\ UNCHANGED <<created, sessions, issued, begun, raced>>
  BY DEF ReplacesPassword
<1>1. /\ UsersTyped /\ CountersSound /\ RequestsSound /\ SessionsTyped /\ SessionsKnowPassword
      /\ AdminRemains /\ created \in Nat /\ created' = created
  BY <1>0, IdleHere DEF IInv
<1>2. UsersTyped' /\ CountersSound' /\ KeepsRoles(u) /\ (u \in DOMAIN users => users'[u].password = pw)
  BY <1>0, <1>1, SetPasswordKeeps
<1>3. RequestsSound'
  BY <1>0, <1>1, <1>2, WrotePasswordSound
<1>4. Moves(h, r)
  BY <1>0 DEF Moves
<1>5. Ending(u)'
  <2>1. req'[h] = r
    BY <1>1, <1>4, OthersStay
  <2> QED
    BY <1>0, <2>1 DEF Ending
<1>6. \A v : Ending(v) => Ending(v)'
  BY <1>0, <1>1, <1>4, EndingGoesOn
<1>7. SessionsTyped'
  BY <1>0, <1>1, <1>2 DEF SessionsTyped, KeepsRoles
<1>8. SessionsKnowPassword'
  <2>1. ASSUME NEW s \in sessions'
        PROVE  s.knows = users'[s.user].password \/ s.excused \/ Ending(s.user)'
    <3>1. CASE s.user = u
      BY <1>5, <3>1
    <3>2. CASE s.user # u
      BY <1>0, <1>1, <1>2, <1>6, <2>1, <3>2 DEF SessionsKnowPassword, SessionsTyped, KeepsRoles
    <3> QED
      BY <3>1, <3>2
  <2> QED
    BY <2>1 DEF SessionsKnowPassword
<1>9. AdminRemains'
  BY <1>0, <1>1, <1>2 DEF AdminRemains, Admins, KeepsRoles
<1> QED
  BY <1>0, <1>1, <1>2, <1>3, <1>7, <1>8, <1>9 DEF IInv

LEMMA PasswordChangePreserves ==
  ASSUME IInv, NEW h \in Handlers, NEW next \in Passwords \cup {Weak}, PasswordChange(h, next)
  PROVE  IInv'
<1>1. /\ UsersTyped /\ RequestsSound /\ begun' \in 0..MaxRequests /\ req[h].pc = "verify"
      /\ req[h] \in Request /\ Sound(req[h], users, created)
      /\ UNCHANGED <<created, sessions, issued, begun, raced>>
  BY SoundIsRequest DEF IInv, PasswordChange
<1>2. CASE Step(h, Idle) /\ UNCHANGED <<users, counted>>
  BY <1>1, <1>2, IdleHere, OwnStep
<1>3. CASE /\ next \notin {Weak, req[h].password} /\ users' = SetPassword(req[h].user, next)
           /\ counted' = [counted EXCEPT ![req[h].user] = 0]
           /\ WrotePassword(h, req[h].user, [Go(h, "endOthers") EXCEPT !.password = next])
  <2> DEFINE u == req[h].user
             r == [Go(h, "endOthers") EXCEPT !.password = next]
  <2>1. next \in Passwords
    BY <1>3
  <2>2. /\ r \in Request /\ r.pc = "endOthers" /\ r.password = next /\ u \in Ids
        /\ r.user = u /\ r.target = req[h].target
    BY <1>1, <2>1, Zenon DEF Go, Request, Points
  <2>3. WrotePassword(h, u, r) /\ users' = SetPassword(u, next) /\ counted' = [counted EXCEPT ![u] = 0]
    BY <1>3
  <2> HIDE DEF r, u
  <2>4. KeepsRoles(u) /\ (u \in DOMAIN users => users'[u].password = next)
    BY <1>1, <2>1, <2>2, <2>3, SetPasswordKeeps DEF IInv
  <2>5. Sound(r, users', created)
    BY <1>1, <2>1, <2>2, <2>4 DEF u, KeepsRoles, Sound, CounterIsFresh, PasswordIsKnown, RowIsCurrent,
       AnotherAdmin, Acting, Deciding, Aiming
  <2>6. ReplacesPassword(h, u, next, r)
    BY <1>1, <2>2, <2>3 DEF ReplacesPassword
  <2> QED
    BY <2>1, <2>2, <2>5, <2>6, NewPasswordPreserves
<1> QED
  BY <1>2, <1>3 DEF PasswordChange

\* The sessions of u end, and with them what was announced about u.
LEMMA EndingPreserves ==
  ASSUME IInv, NEW h \in Handlers, NEW u, NEW r, Sound(r, users, created), Wrote(h, r),
         sessions' = WithoutUser(u), UNCHANGED <<users, created, issued, begun, counted, raced>>,
         req[h].pc = "endOthers" => req[h].user = u,
         req[h].pc = "endReset" => req[h].target = u
  PROVE  IInv'
<1>1. /\ UsersTyped /\ RequestsSound /\ SessionsTyped /\ SessionsKnowPassword
      /\ created \in Nat /\ created' \in Nat
  BY IdleHere DEF IInv
<1>2. KeepsAccounts
  BY <1>1, SMT DEF KeepsAccounts
<1>3. RequestsSound'
  BY <1>1, <1>2, WroteSound
<1>4. ASSUME NEW v, v # u, Ending(v) PROVE Ending(v)'
  <2>1. Moves(h, r)
    BY DEF Moves
  <2> QED
    BY <1>1, <1>4, <2>1, OthersStay DEF Ending
<1>5. \A s \in sessions' : Ending(s.user) => Ending(s.user)'
  BY <1>4 DEF WithoutUser
<1>6. SessionsTyped' /\ SessionsKnowPassword'
  BY <1>1, <1>5, FewerSessions DEF SessionsTyped, WithoutUser
<1> QED
  BY <1>3, <1>6, Quiet DEF IInv

\* The deletion fails: the sessions stay, and those it was to end are excused.
LEMMA FailingPreserves ==
  ASSUME IInv, NEW h \in Handlers, NEW u, NEW r, Sound(r, users, created), Step(h, r),
         sessions' = StillThere(u), UNCHANGED <<users, created, issued, begun, counted, raced>>,
         req[h].pc = "endOthers" => req[h].user = u,
         req[h].pc = "endReset" => req[h].target = u
  PROVE  IInv'
<1> DEFINE F(s) == [s EXCEPT !.excused = @ \/ (s.user = u /\ s.knows # users[u].password)]
<1>1. /\ UsersTyped /\ RequestsSound /\ SessionsTyped /\ SessionsKnowPassword
      /\ created \in Nat /\ created' \in Nat /\ sessions' = {F(s) : s \in sessions}
  BY IdleHere DEF IInv, StillThere
<1>2. KeepsAccounts
  BY <1>1, SMT DEF KeepsAccounts
<1>3. RequestsSound'
  BY <1>1, <1>2, StepSound
<1>4. \A s \in sessions :
        /\ F(s) \in Session /\ F(s).id = s.id /\ F(s).user = s.user /\ F(s).knows = s.knows
        /\ s.excused \/ (s.user = u /\ s.knows # users[u].password) => F(s).excused
  <2> TAKE s \in sessions
  <2> DEFINE x == s.excused \/ (s.user = u /\ s.knows # users[u].password)
  <2>1. s \in Session
    BY <1>1 DEF SessionsTyped
  <2>2. x \in BOOLEAN
    BY <2>1 DEF Session
  <2>3. F(s) = [s EXCEPT !.excused = x]
    OBVIOUS
  <2>4. s.excused \/ (s.user = u /\ s.knows # users[u].password) => x
    OBVIOUS
  <2> HIDE DEF F, x
  <2> QED
    BY <2>1, <2>2, <2>3, <2>4, Zenon DEF Session
<1> HIDE DEF F
<1>5. ASSUME NEW v, v # u, Ending(v) PROVE Ending(v)'
  <2>1. Moves(h, r)
    BY DEF Moves
  <2> QED
    BY <1>1, <1>5, <2>1, OthersStay DEF Ending
<1>6. SessionsTyped'
  BY <1>1, <1>4 DEF SessionsTyped
<1>7. ASSUME NEW s \in sessions'
      PROVE  s.knows = users'[s.user].password \/ s.excused \/ Ending(s.user)'
  <2>1. PICK t \in sessions : s = F(t)
    BY <1>1, <1>7
  <2>2. t.knows = users[t.user].password \/ t.excused \/ Ending(t.user)
    BY <1>1 DEF SessionsKnowPassword
  <2> QED
    BY <1>4, <1>5, <2>1, <2>2
<1>8. SessionsKnowPassword'
  BY <1>7 DEF SessionsKnowPassword
<1>9. begun' \in 0..MaxRequests
  BY DEF IInv
<1> QED
  BY <1>3, <1>6, <1>8, <1>9, Quiet

LEMMA CallFailsPreserves ==
  ASSUME IInv, NEW h \in Handlers, CallFails(h)
  PROVE  IInv'
<1>1. UsersTyped /\ begun' \in 0..MaxRequests /\ req[h].pc \notin {"endOthers", "endReset"}
  BY DEF IInv, CallFails
<1> QED
  BY <1>1, IdleHere, OwnStep DEF CallFails

LEMMA EndOtherSessionsPreserves ==
  ASSUME IInv, NEW h \in Handlers, EndOtherSessions(h)
  PROVE  IInv'
<1>1. /\ req[h].pc = "endOthers" /\ req[h] \in Request /\ Sound(req[h], users, created)
  BY SoundIsRequest DEF IInv, EndOtherSessions
<1> DEFINE r == Go(h, "renew")
<1>2. /\ r \in Request /\ r.pc = "renew" /\ r.user = req[h].user /\ r.target = req[h].target
      /\ r.password = req[h].password /\ r.excused = req[h].excused
  BY <1>1, Zenon DEF Go, Request, Points
<1>3. \/ Wrote(h, r) /\ sessions' = WithoutUser(req[h].user)
      \/ Step(h, Idle) /\ sessions' = StillThere(req[h].user)
  BY DEF EndOtherSessions
<1>5. Sound(Idle, users, created) /\ UNCHANGED <<users, created, issued, begun, counted, raced>>
  BY IdleHere DEF IInv, EndOtherSessions
<1> HIDE DEF r
<1>4. Sound(r, users, created)
  BY <1>1, <1>2 DEF Sound, CounterIsFresh, PasswordIsKnown, RowIsCurrent, AnotherAdmin,
     Issuing, Acting, Deciding, Aiming
<1> QED
  BY <1>1, <1>3, <1>4, <1>5, EndingPreserves, FailingPreserves

(***************************************************************************)
(* User administration.                                                    *)
(***************************************************************************)

LEMMA ResetPasswordPreserves ==
  ASSUME IInv, NEW h \in Handlers, NEW pw \in Passwords \cup {Weak}, ResetPassword(h, pw)
  PROVE  IInv'
<1>1. /\ UsersTyped /\ RequestsSound /\ begun' \in 0..MaxRequests /\ req[h].pc = "reset"
      /\ req[h] \in Request /\ Sound(req[h], users, created)
      /\ UNCHANGED <<created, sessions, issued, begun, raced>>
  BY SoundIsRequest DEF IInv, ResetPassword
<1>2. CASE Step(h, Idle) /\ UNCHANGED <<users, counted>>
  BY <1>1, <1>2, IdleHere, OwnStep
<1>3. CASE /\ pw # Weak /\ users' = SetPassword(req[h].target, pw)
           /\ counted' = [counted EXCEPT ![req[h].target] = 0]
           /\ WrotePassword(h, req[h].target, Go(h, "endReset"))
  <2> DEFINE u == req[h].target
             r == Go(h, "endReset")
  <2>1. pw \in Passwords /\ u \in Ids
    BY <1>1, <1>3 DEF Sound, Aiming
  <2>2. /\ r \in Request /\ r.pc = "endReset" /\ r.user = req[h].user /\ r.target = u
    BY <1>1, Zenon DEF Go, Request, Points
  <2>3. WrotePassword(h, u, r) /\ users' = SetPassword(u, pw) /\ counted' = [counted EXCEPT ![u] = 0]
    BY <1>3
  <2> HIDE DEF r, u
  <2>4. Sound(r, users', created)
    BY <1>1, <2>1, <2>2, CarefreeSound DEF u, Sound, Carefree, Points, Deciding, Issuing, Aiming
  <2>5. ReplacesPassword(h, u, pw, r)
    BY <1>1, <2>2, <2>3 DEF ReplacesPassword
  <2> QED
    BY <2>1, <2>4, <2>5, NewPasswordPreserves
<1> QED
  BY <1>2, <1>3 DEF ResetPassword

LEMMA EndSessionsPreserves ==
  ASSUME IInv, NEW h \in Handlers, EndSessions(h)
  PROVE  IInv'
<1> DEFINE r == IF req[h].pc = "endReset" /\ Changes(req[h]) THEN Go(h, "endChanged") ELSE Idle
<1>1. /\ UsersTyped /\ RequestsSound /\ req[h].pc \in {"endReset", "endChanged"}
      /\ req[h] \in Request /\ Sound(req[h], users, created)
  BY SoundIsRequest DEF IInv, EndSessions
<1>2. Sound(r, users, created)
  BY <1>1, GoSound, IdleHere DEF Sound, Carefree, Points, Deciding, Issuing, Aiming
<1>3. /\ \/ Wrote(h, r) /\ sessions' = WithoutUser(req[h].target)
         \/ Step(h, r) /\ sessions' = StillThere(req[h].target)
      /\ UNCHANGED <<users, created, issued, begun, counted, raced>>
  BY DEF EndSessions
<1> HIDE DEF r
<1> QED
  BY <1>1, <1>2, <1>3, EndingPreserves, FailingPreserves

(***************************************************************************)
(* Time and housekeeping.                                                  *)
(***************************************************************************)

\* A lock that has run out is still one: the counter goes on from where it was.
LEMMA LockEndsPreserves ==
  ASSUME IInv, NEW u \in Ids, LockEnds(u)
  PROVE  IInv'
<1> DEFINE row == [users[u] EXCEPT !.lock = "expired"]
<1>1. /\ UsersTyped /\ CountersSound /\ RequestsSound /\ SessionsTyped /\ SessionsKnowPassword
      /\ AdminRemains
  BY DEF IInv
<1>2. u \in DOMAIN users /\ users[u] \in User
  BY <1>1 DEF LockEnds, UsersTyped
<1>3. users' = [users EXCEPT ![u] = row]
  BY DEF LockEnds
<1>4. UNCHANGED <<created, sessions, issued, req, begun, counted, raced>>
  BY DEF LockEnds
<1>5. /\ row \in User /\ row.lock = "expired" /\ row.attempts = users[u].attempts
      /\ row.role = users[u].role /\ row.active = users[u].active
      /\ row.password = users[u].password
  BY <1>2, Zenon DEF User
<1> HIDE DEF row
<1>6. /\ DOMAIN users' = DOMAIN users
      /\ \A x \in DOMAIN users : /\ x # u => users'[x] = users[x]
                                 /\ x = u => users'[x] = row
  BY <1>3
<1>7. UsersTyped'
  BY <1>1, <1>4, <1>5, <1>6 DEF UsersTyped
<1>8. CountersSound'
  <2>1. \A x \in DOMAIN users' : users'[x].attempts = users[x].attempts
    BY <1>5, <1>6
  <2>2. \A x \in DOMAIN users' : users[x].lock # "none" => users'[x].lock # "none"
    BY <1>5, <1>6
  <2> QED
    BY <1>1, <1>4, <1>6, <2>1, <2>2, CountersKept
<1>9. \A x \in DOMAIN users : /\ users'[x].role = users[x].role
                              /\ users'[x].active = users[x].active
                              /\ users'[x].password = users[x].password
                              /\ users'[x].attempts = users[x].attempts
  BY <1>5, <1>6
<1>10. RequestsSound'
  <2>1. created \in Nat
    BY <1>1, IdleHere
  <2>2. AdminsIn(users) \subseteq AdminsIn(users')
    BY <1>6, <1>9 DEF AdminsIn
  <2>3. ASSUME NEW g \in Handlers PROVE Sound(req'[g], users', created')
    <3>1. Sound(req[g], users, created) /\ Carried(req[g], req[g])
      BY <1>1, SoundIsRequest, CarriedBySelf
    <3>2. Sound(req[g], users', created)
      BY <1>6, <1>9, <2>1, <2>2, <3>1, CarriedSound
    <3> QED
      BY <1>4, <3>2
  <2> QED
    BY <1>1, <1>4, <2>3 DEF RequestsSound
<1>11. SessionsTyped' /\ SessionsKnowPassword'
  <2>1. \A v : Ending(v) => Ending(v)'
    BY <1>4 DEF Ending
  <2> QED
    BY <1>1, <1>4, <1>6, <1>9, <2>1, FewerSessions DEF SessionsTyped
<1>12. AdminRemains'
  BY <1>1, <1>4, <1>6, <1>9 DEF AdminRemains, Admins
<1> QED
  BY <1>1, <1>4, <1>7, <1>8, <1>10, <1>11, <1>12 DEF IInv

LEMMA SessionEndsPreserves ==
  ASSUME IInv, NEW s \in sessions, SessionEnds(s)
  PROVE  IInv'
<1> DEFINE e == [s EXCEPT !.expired = TRUE]
<1>1. /\ UsersTyped /\ RequestsSound /\ SessionsTyped /\ SessionsKnowPassword
      /\ begun' \in 0..MaxRequests
      /\ UNCHANGED <<users, created, issued, req, counted, raced>>
  BY BegunCounts DEF IInv, SessionEnds
<1>2. s \in Session
  BY <1>1 DEF SessionsTyped
<1>3. /\ e \in Session /\ e.id = s.id /\ e.user = s.user /\ e.knows = s.knows
      /\ e.excused = s.excused
  BY <1>2, Zenon DEF Session
<1>4. sessions' = (sessions \ {s}) \cup {e}
  BY DEF SessionEnds
<1> HIDE DEF e
<1>5. sessions' \subseteq Session /\ \A t \in sessions' : t.user \in DOMAIN users
  BY <1>1, <1>3, <1>4 DEF SessionsTyped
<1>6. \A t, v \in sessions' : t.id = v.id => t = v
  BY <1>1, <1>3, <1>4 DEF SessionsTyped
<1>7. \A t \in sessions' : \E v \in sessions :
        t.id = v.id /\ t.user = v.user /\ t.knows = v.knows /\ (v.excused => t.excused)
  BY <1>3, <1>4
<1>8. \A v : Ending(v) => Ending(v)'
  BY <1>1 DEF Ending
<1>9. SessionsTyped' /\ SessionsKnowPassword'
  BY <1>1, <1>5, <1>6, <1>7, <1>8, SessionsKept
<1>10. RequestsSound'
  BY <1>1 DEF RequestsSound
<1> QED
  BY <1>1, <1>9, <1>10, Quiet

LEMMA PurgePreserves ==
  ASSUME IInv, PurgeExpiredSessions
  PROVE  IInv'
<1>1. /\ UsersTyped /\ RequestsSound /\ SessionsTyped /\ SessionsKnowPassword
      /\ begun' \in 0..MaxRequests /\ created \in Nat
      /\ UNCHANGED <<users, created, issued, counted, raced>>
  BY IdleHere DEF IInv, PurgeExpiredSessions
<1>2. ASSUME NEW g \in Handlers
      PROVE  Carried(req[g], req'[g]) /\ Sound(req'[g], users, created)
  <2> DEFINE b == req[g].pc = "countWrite"
  <2>1. req[g] \in Request /\ Sound(req[g], users, created) /\ b \in BOOLEAN
    BY <1>1, SoundIsRequest
  <2>2. req'[g] = [req[g] EXCEPT !.stale = @ \/ b]
    BY <1>2, Zenon DEF PurgeExpiredSessions
  <2> HIDE DEF b
  <2>3. Carried(req[g], req'[g])
    BY <2>1, <2>2, FlagsRaised, Zenon
  <2>4. Sound(req'[g], users, created)
    <3>1. req[g].pc = "countWrite" /\ req[g].user \in DOMAIN users =>
            req[g].user \in DOMAIN users /\ users[req[g].user].attempts = users[req[g].user].attempts
      OBVIOUS
    <3> DEFINE q == req[g]
               p == req'[g]
    <3>2. Sound(q, users, created) /\ Carried(q, p)
      BY <2>1, <2>3
    <3> HIDE DEF p, q
    <3>3. Sound(p, users, created)
      BY <1>1, <3>2, CarriedSound
    <3> QED
      BY <3>3 DEF p
  <2> QED
    BY <2>3, <2>4
<1>3. RequestsSound'
  <2>1. req' \in [Handlers -> Request]
    BY <1>2, Zenon DEF PurgeExpiredSessions, Carried
  <2> QED
    BY <1>1, <1>2, <2>1 DEF RequestsSound
<1>4. \A v : Ending(v) => Ending(v)'
  BY <1>2 DEF Ending, Carried
<1>5. SessionsTyped' /\ SessionsKnowPassword'
  BY <1>1, <1>4, FewerSessions DEF SessionsTyped, PurgeExpiredSessions
<1> QED
  BY <1>1, <1>3, <1>5, Quiet

(***************************************************************************)
(* Accounts come, change and go.                                           *)
(***************************************************************************)

\* A row under a number no account ever had.
LEMMA NewRow ==
  ASSUME UsersTyped, CountersSound, created < MaxUsers, created' = created + 1, UNCHANGED counted,
         DOMAIN users' = DOMAIN users \cup {created + 1},
         \A x \in DOMAIN users : users'[x] = users[x],
         users'[created + 1] \in User, users'[created + 1].attempts = 0
  PROVE  /\ UsersTyped' /\ CountersSound' /\ KeepsAccounts
         /\ created \in Nat /\ created' \in Nat /\ created <= created' /\ 1 <= created'
<1>1. /\ created \in Nat /\ created' \in Nat /\ created <= created' /\ 1 <= created'
      /\ created' \in 1..MaxUsers /\ created + 1 \in Ids /\ created + 1 > created
      /\ ~(created + 1 <= created) /\ 1..created \subseteq 1..created' /\ created + 1 \in 1..created'
      /\ created + 1 \notin 1..created
  BY BoundsAssumption, SMT DEF UsersTyped, Ids
<1>2. UsersTyped'
  BY <1>1 DEF UsersTyped
<1>3. created + 1 \notin DOMAIN users
  BY <1>1 DEF UsersTyped
<1>4. counted[created + 1] = 0
  BY <1>1 DEF CountersSound
<1>5. ~(0 >= MaxFailedLogins)
  BY BoundsAssumption, SMT
<1>6. \A x \in Ids : x > created' => x > created
  BY <1>1, SMT DEF Ids
<1>7. CountersSound'
  BY <1>4, <1>5, <1>6 DEF CountersSound
<1>8. KeepsAccounts
  <2>1. created' >= created
    BY <1>1, SMT
  <2> QED
    BY <1>1, <2>1 DEF KeepsAccounts
<1> QED
  BY <1>1, <1>2, <1>7, <1>8

LEMMA NewUserTyped ==
  ASSUME NEW role \in AllRoles, NEW pw \in Passwords, NEW must \in BOOLEAN
  PROVE  /\ NewUser(role, pw, must) \in User /\ NewUser(role, pw, must).attempts = 0
         /\ NewUser(role, pw, must).lock = "none" /\ NewUser(role, pw, must).role = role
         /\ NewUser(role, pw, must).active /\ NewUser(role, pw, must).password = pw
<1>1. 0 \in Nat
  OBVIOUS
<1> QED
  BY <1>1, Zenon DEF NewUser, User

LEMMA CreateUserPreserves ==
  ASSUME IInv, NEW h \in Handlers, CreateUser(h)
  PROVE  IInv'
<1>1. /\ UsersTyped /\ CountersSound /\ RequestsSound /\ SessionsTyped /\ SessionsKnowPassword
      /\ AdminRemains /\ begun \in 0..MaxRequests
      /\ req[h].pc = "create" /\ created < MaxUsers
      /\ UNCHANGED <<sessions, issued, begun, counted, raced>>
  BY DEF IInv, CreateUser
<1>2. CASE Step(h, Idle) /\ UNCHANGED <<users, created>>
  BY <1>1, <1>2, IdleHere, OwnStep
<1>3. ASSUME NEW role \in AllRoles, NEW pw \in Passwords, NEW must \in BOOLEAN,
             created' = created + 1, Wrote(h, Idle),
             users' = [x \in DOMAIN users \cup {created + 1} |->
                         IF x \in DOMAIN users THEN users[x] ELSE NewUser(role, pw, must)]
      PROVE  IInv'
  <2> DEFINE row == NewUser(role, pw, must)
  <2>1. row \in User /\ row.attempts = 0
    BY NewUserTyped
  <2>2. users' = [x \in DOMAIN users \cup {created + 1} |-> IF x \in DOMAIN users THEN users[x] ELSE row]
    BY <1>3
  <2> HIDE DEF row
  <2>3. created + 1 \notin DOMAIN users
    BY <1>1, SMT DEF UsersTyped
  <2>4. /\ DOMAIN users' = DOMAIN users \cup {created + 1} /\ users'[created + 1] = row
        /\ \A x \in DOMAIN users : users'[x] = users[x]
    BY <2>2, <2>3
  <2>5. /\ UsersTyped' /\ CountersSound' /\ KeepsAccounts
        /\ created \in Nat /\ created' \in Nat /\ 1 <= created'
    BY <1>1, <1>3, <2>1, <2>4, NewRow
  <2>6. RequestsSound'
    BY <1>1, <1>3, <2>5, IdleSound, WroteSound
  <2>7. SessionsTyped' /\ SessionsKnowPassword'
    <3>1. \A v : Ending(v) => Ending(v)'
      BY <1>1, <1>3, EndingGoesOn DEF Moves
    <3> QED
      BY <1>1, <2>4, <3>1, FewerSessions DEF SessionsTyped
  <2>8. AdminRemains'
    BY <1>1, <2>4 DEF AdminRemains, Admins
  <2> QED
    BY <1>1, <2>5, <2>6, <2>7, <2>8 DEF IInv
<1> QED
  BY <1>2, <1>3 DEF CreateUser

\* A request that has just read the account it is about.
LEMMA ReadSound ==
  ASSUME IInv, NEW h \in Handlers, NEW t \in DOMAIN users, NEW q \in Request,
         q.user = req[h].user, q.target = t, q.row = ProfileOf(users[t]),
         q.pc \in {"count", "update", "remove", "unlock"},
         q.pc = "count" => q.op \in {"save", "delete"},
         q.pc = "update" => q.op = "save",
         q.pc = "remove" => q.op = "delete",
         q.pc \in Acting => ~Removes(q)
  PROVE  Sound(q, users, created)
<1>1. UsersTyped /\ Sound(req[h], users, created) /\ created \in Nat
  BY SoundIsRequest, IdleHere DEF IInv
<1>2. t \in Ids /\ t <= created
  BY <1>1, BoundsAssumption, SMT DEF UsersTyped, Ids
<1>3. users[t].role = q.row.role /\ users[t].active = q.row.active
  BY DEF ProfileOf
<1> QED
  BY <1>1, <1>2, <1>3 DEF Sound, CounterIsFresh, PasswordIsKnown, RowIsCurrent, AnotherAdmin, Issuing

LEMMA GetTargetPreserves ==
  ASSUME IInv, NEW h \in Handlers, NEW t \in Ids, GetTarget(h, t)
  PROVE  IInv'
<1> DEFINE row == ProfileOf(users[t])
           read == [req[h] EXCEPT !.target = t, !.row = row]
<1>1. /\ UsersTyped /\ begun' \in 0..MaxRequests /\ req[h].pc = "target" /\ req[h] \in Request
      /\ t \in DOMAIN users /\ UNCHANGED <<users, created, sessions, issued, counted, raced>>
  BY SoundIsRequest DEF IInv, GetTarget
<1>2. row \in Profile
  <2>1. users[t] \in User
    BY <1>1 DEF UsersTyped
  <2> QED
    BY <2>1 DEF ProfileOf, Profile, User
<1>3. ASSUME NEW q, Sound(q, users, created), Step(h, q)
      PROVE  IInv'
  BY <1>1, <1>3, OwnStep
<1>4. CASE Step(h, Idle)
  BY <1>1, <1>3, <1>4, IdleHere
<1>5. CASE Step(h, [read EXCEPT !.pc = "unlock"])
  <2> DEFINE q == [read EXCEPT !.pc = "unlock"]
  <2> HIDE DEF row
  <2>1. q \in Request /\ q.pc = "unlock" /\ q.user = req[h].user /\ q.target = t /\ q.row = row
    BY <1>1, <1>2, Zenon DEF Request, Points
  <2>2. Step(h, q)
    BY <1>5 DEF row
  <2> HIDE DEF q
  <2>3. Sound(q, users, created)
    BY <1>1, <2>1, ReadSound DEF row, Acting
  <2> QED
    BY <1>3, <2>2, <2>3
<1>6. CASE req[h].op = "delete" /\ Step(h, [read EXCEPT !.pc = IF Removes(read) THEN "count" ELSE "remove"])
  <2> DEFINE p == IF Removes(read) THEN "count" ELSE "remove"
             q == [read EXCEPT !.pc = p]
  <2>1. p \in {"count", "remove"} /\ (p = "remove" => ~Removes(read))
    OBVIOUS
  <2>2. Step(h, q)
    BY <1>6
  <2> HIDE DEF row, p
  <2>3. /\ q \in Request /\ q.pc = p /\ q.user = req[h].user /\ q.op = req[h].op /\ q.target = t
        /\ q.row = row /\ q.new = req[h].new
        /\ read.row = row /\ read.op = req[h].op /\ read.new = req[h].new
    <3>1. p \in Points
      BY <2>1 DEF Points
    <3> QED
      BY <1>1, <1>2, <3>1, Zenon DEF Request
  <2> HIDE DEF q, read
  <2>4. Removes(q) => Removes(read)
    BY <2>3 DEF Removes
  <2>5. Sound(q, users, created)
    BY <1>1, <1>6, <2>1, <2>3, <2>4, ReadSound DEF row, Acting
  <2> QED
    BY <1>3, <2>2, <2>5
<1>7. ASSUME NEW role \in AllRoles, NEW active \in BOOLEAN, req[h].op = "save"
      PROVE  LET form == [read EXCEPT !.new = [role |-> role, active |-> active, mustChange |-> FALSE]]
             IN  /\ Step(h, [form EXCEPT !.pc = "count"]) => IInv'
                 /\ ~Removes(form) /\ Step(h, [form EXCEPT !.pc = "update"]) => IInv'
  <2> DEFINE n == [role |-> role, active |-> active, mustChange |-> FALSE]
             form == [read EXCEPT !.new = n]
  <2>1. n \in Profile
    BY DEF Profile
  <2>2. ASSUME NEW p \in {"count", "update"}, p = "update" => ~Removes(form),
               Step(h, [form EXCEPT !.pc = p])
        PROVE  IInv'
    <3> DEFINE q == [form EXCEPT !.pc = p]
    <3>1. Step(h, q)
      BY <2>2
    <3>2. p \in Points
      BY DEF Points
    <3> HIDE DEF row, n
    <3>3. /\ q \in Request /\ q.pc = p /\ q.user = req[h].user /\ q.op = req[h].op /\ q.target = t
          /\ q.row = row /\ q.new = n /\ form.row = row /\ form.op = req[h].op /\ form.new = n
      BY <1>1, <1>2, <2>1, <3>2, Zenon DEF Request
    <3> HIDE DEF q, form
    <3>4. Removes(q) => Removes(form)
      BY <3>3 DEF Removes
    <3>5. Sound(q, users, created)
      BY <1>1, <1>7, <2>2, <3>3, <3>4, ReadSound DEF row, Acting
    <3> QED
      BY <1>3, <3>1, <3>5
  <2> HIDE DEF form
  <2>3. /\ Step(h, [form EXCEPT !.pc = "count"]) => IInv'
        /\ ~Removes(form) /\ Step(h, [form EXCEPT !.pc = "update"]) => IInv'
    BY <2>2, Zenon
  <2> QED
    BY <2>3 DEF form
<1>8. CASE req[h].op = "save" /\
            \E role \in AllRoles, active \in BOOLEAN :
              LET form == [read EXCEPT !.new = [role |-> role, active |-> active, mustChange |-> FALSE]] IN
              Step(h, IF Removes(form) THEN [form EXCEPT !.pc = "count"]
                      ELSE IF SelfDisabled(form) THEN Idle ELSE [form EXCEPT !.pc = "update"])
  <2> DEFINE form(role, active) ==
               [read EXCEPT !.new = [role |-> role, active |-> active, mustChange |-> FALSE]]
  <2>1. PICK role \in AllRoles, active \in BOOLEAN :
          Step(h, IF Removes(form(role, active)) THEN [form(role, active) EXCEPT !.pc = "count"]
                  ELSE IF SelfDisabled(form(role, active)) THEN Idle
                  ELSE [form(role, active) EXCEPT !.pc = "update"])
    BY <1>8, Zenon
  <2>2. /\ Step(h, [form(role, active) EXCEPT !.pc = "count"]) => IInv'
        /\ ~Removes(form(role, active)) /\ Step(h, [form(role, active) EXCEPT !.pc = "update"]) => IInv'
    BY <1>7, <1>8, Zenon
  <2> HIDE DEF form, read
  <2>3. CASE Removes(form(role, active))
    BY <2>1, <2>2, <2>3
  <2>4. CASE ~Removes(form(role, active)) /\ SelfDisabled(form(role, active))
    BY <1>4, <2>1, <2>4
  <2>5. CASE ~Removes(form(role, active)) /\ ~SelfDisabled(form(role, active))
    BY <2>1, <2>2, <2>5
  <2> QED
    BY <2>3, <2>4, <2>5
<1>9. CASE req[h].op = "delete" /\
            Step(h, IF t = req[h].user THEN Idle
                    ELSE [read EXCEPT !.pc = IF Removes(read) THEN "count" ELSE "remove"])
  BY <1>4, <1>6, <1>9
<1> QED
  BY <1>5, <1>8, <1>9, Zenon DEF GetTarget

\* Counting more than one administrator leaves one beside the account in question.
LEMMA OneBeside ==
  ASSUME NEW S, IsFiniteSet(S), Cardinality(S) > 1, NEW x
  PROVE  S \ {x} # {}
<1> SUFFICES ASSUME S \ {x} = {} PROVE FALSE
  OBVIOUS
<1>1. S \subseteq {x}
  OBVIOUS
<1>2. IsFiniteSet({x}) /\ Cardinality({x}) = 1
  BY FS_Singleton
<1>3. Cardinality(S) <= Cardinality({x})
  BY <1>1, <1>2, FS_Subset
<1>4. Cardinality(S) \in Nat
  BY FS_CardinalityType
<1> QED
  BY <1>2, <1>3, <1>4, SMT

LEMMA AdminsFinite ==
  ASSUME UsersTyped
  PROVE  IsFiniteSet(Admins) /\ Cardinality(Admins) \in Nat
<1>1. created \in Int
  BY BoundsAssumption, SMT DEF UsersTyped
<1>2. IsFiniteSet(1..created)
  BY <1>1, FS_Interval
<1>3. Admins \subseteq 1..created
  BY DEF Admins, UsersTyped
<1>4. IsFiniteSet(Admins)
  BY <1>2, <1>3, FS_Subset
<1> QED
  BY <1>4, FS_CardinalityType

LEMMA CountAdminsPreserves ==
  ASSUME IInv, NEW h \in Handlers, CountAdmins(h)
  PROVE  IInv'
<1>1. /\ UsersTyped /\ begun' \in 0..MaxRequests /\ req[h].pc = "count" /\ req[h] \in Request
      /\ Sound(req[h], users, created)
      /\ UNCHANGED <<users, created, sessions, issued, counted, raced>>
  BY SoundIsRequest DEF IInv, CountAdmins
<1>2. CASE Step(h, Idle)
  BY <1>1, <1>2, IdleHere, OwnStep
<1>3. CASE ~LastAdmin /\ Step(h, Go(h, IF req[h].op = "save" THEN "update" ELSE "remove"))
  <2> DEFINE p == IF req[h].op = "save" THEN "update" ELSE "remove"
             r == Go(h, p)
  <2>1. Admins \ {req[h].target} # {}
    <3>1. IsFiniteSet(Admins) /\ Cardinality(Admins) \in Nat
      BY <1>1, AdminsFinite
    <3>2. Cardinality(Admins) > 1
      BY <1>3, <3>1, SMT DEF LastAdmin
    <3> QED
      BY <3>1, <3>2, OneBeside
  <2>2. /\ p \in Points /\ (p = "update" => req[h].op = "save") /\ (p = "remove" => req[h].op = "delete")
        /\ p \in {"update", "remove"}
    BY <1>1 DEF Points, Sound
  <2>3. Step(h, r)
    BY <1>3
  <2> HIDE DEF p
  <2>4. /\ r \in Request /\ r.pc = p /\ r.op = req[h].op /\ r.user = req[h].user
        /\ r.target = req[h].target /\ r.row = req[h].row /\ r.new = req[h].new
        /\ r.disturbed = req[h].disturbed
    BY <1>1, <2>2, Zenon DEF Go, Request
  <2> HIDE DEF r
  <2>5. Sound(r, users, created)
    BY <1>1, <2>1, <2>2, <2>4 DEF Sound, CounterIsFresh, PasswordIsKnown, RowIsCurrent,
       AnotherAdmin, Issuing, Aiming, Deciding, Admins, AdminsIn
  <2> QED
    BY <1>1, <2>3, <2>5, OwnStep
<1> QED
  BY <1>2, <1>3 DEF CountAdmins

LEMMA GoCarefree ==
  ASSUME RequestsSound, NEW h \in Handlers, NEW p \in Carefree, NEW us,
         p \in Aiming => req[h].target \in Ids
  PROVE  Sound(Go(h, p), us, created)
<1>1. req[h] \in Request /\ Sound(req[h], users, created) /\ p \in Points
  BY SoundIsRequest DEF Carefree
<1>2. /\ Go(h, p) \in Request /\ Go(h, p).pc = p
      /\ Go(h, p).user = req[h].user /\ Go(h, p).target = req[h].target
  BY <1>1, Zenon DEF Go, Request
<1> QED
  BY <1>1, <1>2, CarefreeSound DEF Sound

\* The form is written to a row that may have changed or gone since it was read:
\* unless that was under this decision, an administrator is left.
LEMMA SaveUserPreserves ==
  ASSUME IInv, NEW h \in Handlers, SaveUser(h)
  PROVE  IInv'
<1> DEFINE t == req[h].target
           n == req[h].new
<1>1. /\ UsersTyped /\ CountersSound /\ RequestsSound /\ SessionsTyped /\ SessionsKnowPassword
      /\ AdminRemains /\ begun' \in 0..MaxRequests /\ created \in Nat /\ raced \in BOOLEAN
      /\ req[h].pc = "update" /\ req[h] \in Request /\ Sound(req[h], users, created)
      /\ UNCHANGED <<created, sessions, issued, begun, counted>>
      /\ raced' = (raced \/ req[h].disturbed)
  BY SoundIsRequest, IdleHere DEF IInv, SaveUser
<1>2. PICK must, reset \in BOOLEAN :
        /\ users' = UpdateUser(t, [n EXCEPT !.mustChange = must])
        /\ WroteAccount(h, IF reset THEN Go(h, "reset")
                           ELSE IF Changes(req[h]) THEN Go(h, "endChanged") ELSE Idle)
  BY Zenon DEF SaveUser
<1> DEFINE r == IF reset THEN Go(h, "reset")
                ELSE IF Changes(req[h]) THEN Go(h, "endChanged") ELSE Idle
           row == [users[t] EXCEPT !.role = n.role, !.active = n.active, !.mustChange = must]
<1>3. n \in Profile /\ t \in Ids /\ req[h].op = "save" /\ req[h].disturbed \in BOOLEAN
  <2>1. n \in Profile /\ req[h].disturbed \in BOOLEAN
    BY <1>1, Zenon DEF Request
  <2> QED
    BY <1>1, <2>1 DEF Sound, Aiming, Deciding
<1>4. t \in DOMAIN users =>
        /\ row \in User /\ row.role = n.role /\ row.active = n.active
        /\ row.password = users[t].password /\ row.attempts = users[t].attempts
        /\ row.lock = users[t].lock
  <2> SUFFICES ASSUME t \in DOMAIN users
               PROVE  /\ row \in User /\ row.role = n.role /\ row.active = n.active
                      /\ row.password = users[t].password /\ row.attempts = users[t].attempts
                      /\ row.lock = users[t].lock
    OBVIOUS
  <2>1. users[t] \in User
    BY <1>1 DEF UsersTyped
  <2>2. n.role \in AllRoles /\ n.active \in BOOLEAN
    BY <1>3 DEF Profile
  <2> HIDE DEF n, t
  <2> QED
    BY <2>1, <2>2, Zenon DEF User
<1>5. users' = [x \in DOMAIN users |-> IF x # t THEN users[x] ELSE row]
  <2> DEFINE m == [n EXCEPT !.mustChange = must]
  <2>1. m.role = n.role /\ m.active = n.active /\ m.mustChange = must
    BY <1>3, Zenon DEF Profile
  <2>2. users' = UpdateUser(t, m)
    BY <1>2
  <2> HIDE DEF m, n, t
  <2> QED
    BY <2>1, <2>2, Zenon DEF UpdateUser
<1> HIDE DEF row
<1>6. /\ UsersTyped' /\ DOMAIN users' = DOMAIN users
      /\ \A x \in DOMAIN users : users'[x] = IF x # t THEN users[x] ELSE row
  BY <1>1, <1>4, <1>5, OneRow
<1>7. CountersSound'
  <2>1. \A x \in DOMAIN users' : users'[x].attempts = users[x].attempts
    BY <1>4, <1>6
  <2>2. \A x \in DOMAIN users' : users[x].lock # "none" => users'[x].lock # "none"
    BY <1>4, <1>6
  <2> QED
    BY <1>1, <1>6, <2>1, <2>2, CountersKept
<1>8. KeepsPasswords
  BY <1>1, <1>4, <1>6 DEF KeepsPasswords
<1>9. Sound(r, users', created')
  <2>1. Sound(Idle, users', created)
    BY <1>1, IdleSound, BoundsAssumption, SMT DEF UsersTyped
  <2>2. Sound(Go(h, "reset"), users', created) /\ Sound(Go(h, "endChanged"), users', created)
    BY <1>1, <1>3, GoCarefree DEF Carefree, Points, Deciding, Issuing
  <2> QED
    BY <1>1, <2>1, <2>2
<1>10. WroteAccount(h, r)
  BY <1>2
<1> HIDE DEF r
<1>11. RequestsSound'
  BY <1>1, <1>8, <1>9, <1>10, WroteAccountSound
<1>12. SessionsTyped' /\ SessionsKnowPassword'
  <2>1. \A v : Ending(v) => Ending(v)'
    BY <1>1, <1>10, EndingGoesOn DEF Moves
  <2> QED
    BY <1>1, <1>6, <1>8, <2>1, FewerSessions DEF SessionsTyped, KeepsPasswords
<1>13. AdminRemains'
  <2> SUFFICES ASSUME ~raced, ~req[h].disturbed PROVE Admins' # {}
    BY <1>1, <1>3 DEF AdminRemains
  <2>1. PICK a \in DOMAIN users : users[a].role = "admin" /\ users[a].active
    BY <1>1 DEF AdminRemains, Admins
  <2>2. CASE Removes(req[h])
    <3>1. PICK b \in DOMAIN users : b # t /\ users[b].role = "admin" /\ users[b].active
      BY <1>1, <2>2 DEF Sound, AnotherAdmin, Acting, AdminsIn
    <3> QED
      BY <1>6, <3>1 DEF Admins
  <2>3. CASE ~Removes(req[h]) /\ a # t
    BY <1>6, <2>1, <2>3 DEF Admins
  <2>4. CASE ~Removes(req[h]) /\ a = t
    <3>1. req[h].row.role = "admin"
      BY <1>1, <2>1, <2>4 DEF Sound, RowIsCurrent, Deciding
    <3>2. n.role = "admin" /\ n.active
      BY <2>4, <3>1 DEF Removes
    <3> QED
      BY <1>4, <1>6, <2>1, <2>4, <3>2 DEF Admins
  <2> QED
    BY <2>2, <2>3, <2>4
<1> QED
  BY <1>1, <1>3, <1>6, <1>7, <1>11, <1>12, <1>13 DEF IInv

LEMMA DeleteUserPreserves ==
  ASSUME IInv, NEW h \in Handlers, DeleteUser(h)
  PROVE  IInv'
<1> DEFINE t == req[h].target
<1>1. /\ UsersTyped /\ CountersSound /\ RequestsSound /\ SessionsTyped /\ SessionsKnowPassword
      /\ AdminRemains /\ begun' \in 0..MaxRequests /\ created \in Nat /\ raced \in BOOLEAN
      /\ req[h].pc = "remove" /\ req[h] \in Request /\ Sound(req[h], users, created)
      /\ UNCHANGED <<created, issued, begun, counted>>
      /\ raced' = (raced \/ req[h].disturbed) /\ WroteAccount(h, Idle)
      /\ sessions' = WithoutUser(t)
  BY SoundIsRequest, IdleHere DEF IInv, DeleteUser
<1>2. req[h].op = "delete" /\ req[h].disturbed \in BOOLEAN
  <2>1. req[h].disturbed \in BOOLEAN
    BY <1>1, Zenon DEF Request
  <2> QED
    BY <1>1, <2>1 DEF Sound
<1>3. /\ DOMAIN users' = DOMAIN users \ {t}
      /\ \A x \in DOMAIN users \ {t} : users'[x] = users[x]
  BY DEF DeleteUser
<1>4. UsersTyped'
  BY <1>1, <1>3 DEF UsersTyped
<1>5. CountersSound'
  BY <1>1, <1>3, CountersKept
<1>6. KeepsPasswords
  BY <1>1, <1>3 DEF KeepsPasswords
<1>7. Sound(Idle, users', created')
  BY <1>1, IdleSound, BoundsAssumption, SMT DEF UsersTyped
<1>8. RequestsSound'
  BY <1>1, <1>6, <1>7, WroteAccountSound
<1>9. SessionsTyped' /\ SessionsKnowPassword'
  <2>1. \A v : Ending(v) => Ending(v)'
    BY <1>1, EndingGoesOn DEF Moves
  <2>2. \A s \in sessions' : s \in sessions /\ s.user \in DOMAIN users \ {t}
    BY <1>1 DEF SessionsTyped, WithoutUser
  <2> QED
    BY <1>1, <1>3, <2>1, <2>2, FewerSessions
<1>10. AdminRemains'
  <2> SUFFICES ASSUME ~raced, ~req[h].disturbed PROVE Admins' # {}
    BY <1>1, <1>2 DEF AdminRemains
  <2>1. PICK a \in DOMAIN users : users[a].role = "admin" /\ users[a].active
    BY <1>1 DEF AdminRemains, Admins
  <2>2. CASE Removes(req[h])
    <3>1. PICK b \in DOMAIN users : b # t /\ users[b].role = "admin" /\ users[b].active
      BY <1>1, <2>2 DEF Sound, AnotherAdmin, Acting, AdminsIn
    <3> QED
      BY <1>3, <3>1 DEF Admins
  <2>3. CASE ~Removes(req[h])
    <3>1. req[h].row.role # "admin"
      BY <1>2, <2>3 DEF Removes
    <3>2. a # t
      BY <1>1, <2>1, <3>1 DEF Sound, RowIsCurrent, Deciding
    <3> QED
      BY <1>3, <2>1, <3>2 DEF Admins
  <2> QED
    BY <2>2, <2>3
<1> QED
  BY <1>1, <1>2, <1>4, <1>5, <1>8, <1>9, <1>10 DEF IInv

(***************************************************************************)
(* The program started, and started again.                                 *)
(***************************************************************************)

\* What was to be ended when the program stopped is excused; an administrator is
\* created only when there is no user, and so no session, at all.
LEMMA RestartPreserves ==
  ASSUME IInv, Restart
  PROVE  IInv'
<1> DEFINE F(s) == [s EXCEPT !.excused = @ \/ Ending(s.user)]
<1>1. /\ UsersTyped /\ CountersSound /\ RequestsSound /\ SessionsTyped /\ SessionsKnowPassword
      /\ AdminRemains /\ begun' \in 0..MaxRequests /\ created \in Nat /\ raced \in BOOLEAN
      /\ UNCHANGED <<issued, counted, raced>> /\ req' = [g \in Handlers |-> Idle]
      /\ sessions' = {F(s) : s \in sessions}
  BY BegunCounts, IdleHere DEF IInv, Restart
<1>2. \A s \in sessions : /\ F(s) \in Session /\ F(s).id = s.id /\ F(s).user = s.user
                          /\ F(s).knows = s.knows
                          /\ s.excused \/ Ending(s.user) => F(s).excused
  <2> TAKE s \in sessions
  <2> DEFINE x == s.excused \/ Ending(s.user)
  <2>1. s \in Session
    BY <1>1 DEF SessionsTyped
  <2>2. x \in BOOLEAN
    BY <2>1 DEF Session, Ending
  <2>3. F(s) = [s EXCEPT !.excused = x]
    OBVIOUS
  <2>4. s.excused \/ Ending(s.user) => x
    OBVIOUS
  <2> HIDE DEF F, x
  <2> QED
    BY <2>1, <2>2, <2>3, <2>4, Zenon DEF Session
<1> HIDE DEF F
<1>3. /\ sessions' \subseteq Session
      /\ \A s \in sessions' : \E t \in sessions :
           /\ s.id = t.id /\ s.user = t.user /\ s.knows = t.knows
           /\ t.excused \/ Ending(t.user) => s.excused
      /\ \A s, t \in sessions' : s.id = t.id => s = t
  BY <1>1, <1>2 DEF SessionsTyped
<1>4. ASSUME \A s \in sessions : /\ s.user \in DOMAIN users'
                                 /\ users'[s.user].password = users[s.user].password
      PROVE  SessionsTyped' /\ SessionsKnowPassword'
  <2>1. \A s \in sessions' : \E t \in sessions :
          s.id = t.id /\ s.user = t.user /\ s.knows = t.knows /\ (t.excused => s.excused)
    BY <1>3
  <2>2. \A s \in sessions' : /\ s.user \in DOMAIN users'
                             /\ users'[s.user].password = users[s.user].password
                             /\ Ending(s.user) => s.excused \/ Ending(s.user)'
    BY <1>3, <1>4
  <2> QED
    BY <1>1, <1>3, <2>1, <2>2, SessionsKept
<1>5. ASSUME created' \in Nat, 1 <= created'
      PROVE  RequestsSound'
  BY <1>1, <1>5, IdleSound DEF RequestsSound, Sound
<1>6. CASE UNCHANGED <<users, created>>
  <2>1. UsersTyped' /\ CountersSound' /\ AdminRemains'
    BY <1>1, <1>6 DEF UsersTyped, CountersSound, AdminRemains, Admins
  <2>2. RequestsSound'
    BY <1>1, <1>5, <1>6, BoundsAssumption, SMT DEF UsersTyped
  <2>3. SessionsTyped' /\ SessionsKnowPassword'
    BY <1>1, <1>4, <1>6 DEF SessionsTyped
  <2> QED
    BY <1>1, <2>1, <2>2, <2>3 DEF IInv
<1>7. ASSUME NEW pw \in Passwords, users = <<>>, created < MaxUsers, created' = created + 1,
             users' = [x \in {created + 1} |-> NewUser("admin", pw, TRUE)]
      PROVE  IInv'
  <2> DEFINE row == NewUser("admin", pw, TRUE)
  <2>1. DOMAIN users = {}
    BY <1>7
  <2>2. row \in User /\ row.attempts = 0 /\ row.role = "admin" /\ row.active
    BY NewUserTyped DEF AllRoles
  <2>3. users' = [x \in {created + 1} |-> row]
    BY <1>7
  <2> HIDE DEF row
  <2>4. DOMAIN users' = {created + 1} /\ users'[created + 1] = row
    BY <2>3
  <2>5. UsersTyped' /\ CountersSound' /\ created' \in Nat /\ 1 <= created'
    BY <1>1, <1>7, <2>1, <2>2, <2>4, NewRow
  <2>6. AdminRemains'
    BY <2>2, <2>4 DEF AdminRemains, Admins
  <2>7. SessionsTyped' /\ SessionsKnowPassword'
    BY <1>1, <1>4, <2>1 DEF SessionsTyped
  <2> QED
    BY <1>1, <1>5, <2>5, <2>6, <2>7 DEF IInv
<1> QED
  BY <1>6, <1>7 DEF Restart

LEMMA InitSound ==
  ASSUME Init
  PROVE  IInv
<1>1. PICK p \in Passwords :
        /\ users = [u \in 1..Founders |-> NewUser("admin", p, FALSE)]
        /\ sessions = {[id |-> u, user |-> u, expired |-> FALSE, knows |-> p,
                        excused |-> FALSE] : u \in 1..Founders}
  BY DEF Init
<1>2. /\ created = Founders /\ issued = Founders /\ req = [h \in Handlers |-> Idle] /\ begun = 0
      /\ counted = [u \in Ids |-> 0] /\ raced = FALSE
  BY DEF Init
<1>3. /\ Founders \in 1..MaxUsers /\ Founders \in 0..MaxSessions /\ Founders \in Nat /\ 1 <= Founders
      /\ 1..Founders \subseteq Ids /\ 1..Founders \subseteq SessionIds /\ 1 \in 1..Founders
      /\ 0 \in 0..MaxRequests /\ ~(0 >= MaxFailedLogins) /\ 0 \in Nat
      /\ \A u \in 1..Founders : u <= Founders
  BY BoundsAssumption, SMT DEF Ids, SessionIds
<1> DEFINE row == NewUser("admin", p, FALSE)
<1>4. /\ row \in User /\ row.attempts = 0 /\ row.role = "admin" /\ row.active /\ row.password = p
  BY NewUserTyped DEF AllRoles
<1>5. users = [u \in 1..Founders |-> row]
  BY <1>1
<1> HIDE DEF row
<1>6. UsersTyped
  BY <1>2, <1>3, <1>4, <1>5 DEF UsersTyped
<1>7. CountersSound
  <2>1. counted \in [Ids -> Nat] /\ \A u \in Ids : counted[u] = 0
    BY <1>2, <1>3
  <2> QED
    BY <1>3, <1>4, <1>5, <2>1 DEF CountersSound
<1>8. SessionsTyped /\ SessionsKnowPassword
  <2> DEFINE S(u) == [id |-> u, user |-> u, expired |-> FALSE, knows |-> p, excused |-> FALSE]
  <2>1. \A u \in 1..Founders : S(u) \in Session /\ S(u).id = u /\ S(u).user = u /\ S(u).knows = p
    BY <1>3 DEF Session
  <2>2. sessions = {S(u) : u \in 1..Founders}
    BY <1>1
  <2> HIDE DEF S
  <2> QED
    BY <1>2, <1>3, <1>4, <1>5, <2>1, <2>2 DEF SessionsTyped, SessionsKnowPassword
<1>9. RequestsSound
  BY <1>2, <1>3, IdleSound DEF RequestsSound, Sound
<1>10. AdminRemains
  BY <1>3, <1>4, <1>5 DEF AdminRemains, Admins
<1> QED
  BY <1>2, <1>3, <1>6, <1>7, <1>8, <1>9, <1>10 DEF IInv

LEMMA StutterPreserves ==
  ASSUME IInv, UNCHANGED vars
  PROVE  IInv'
BY DEF IInv, vars, UsersTyped, SessionsTyped, CountersSound, RequestsSound, AdminRemains, Admins,
   SessionsKnowPassword, Ending

LEMMA NextPreserves ==
  ASSUME IInv, [Next]_vars
  PROVE  IInv'
<1>1. ASSUME NEW h \in Handlers, Handle(h) PROVE IInv'
  BY <1>1, BeginLoginPreserves, GetTargetPreserves, CountReadPreserves, CountWritePreserves,
     IssueSessionPreserves, ClearPreserves, LookupSessionPreserves, LoadUserPreserves,
     TouchSessionPreserves, LogoutPreserves, PasswordChangePreserves, ResetPasswordPreserves,
     EndOtherSessionsPreserves, CreateUserPreserves, CountAdminsPreserves, SaveUserPreserves,
     EndSessionsPreserves, DeleteUserPreserves, CallFailsPreserves DEF Handle
<1>2. ASSUME NEW u \in Ids, LockEnds(u) PROVE IInv'
  BY <1>2, LockEndsPreserves
<1>3. ASSUME NEW s \in sessions, SessionEnds(s) PROVE IInv'
  BY <1>3, SessionEndsPreserves
<1> QED
  BY <1>1, <1>2, <1>3, PurgePreserves, RestartPreserves, StutterPreserves DEF Next

(***************************************************************************)
(* The theorems.                                                           *)
(***************************************************************************)

\* Every request rests on what it has read, or its flags say that it no longer does.
THEOREM InductiveInvariant == Spec => []IInv
BY InitSound, NextPreserves, PTL DEF Spec

\* The tables and the requests keep their shape: session ids are unique and drawn,
\* every session has an owner.
THEOREM TypeCorrect == Spec => []TypeOK
<1>1. IInv => TypeOK
  BY BoundsAssumption, SMT DEF IInv, UsersTyped, SessionsTyped, CountersSound, RequestsSound, TypeOK
<1> QED
  BY <1>1, InductiveInvariant, PTL

\* "Never let the last administrator lose access, including to themselves"
\* (handlers_admin.go:96), while no account changes under the decision of another.
THEOREM LastAdminRemains == Spec => []AdminRemains
<1>1. IInv => AdminRemains
  BY DEF IInv
<1> QED
  BY <1>1, InductiveInvariant, PTL

\* No failed login that was committed is forgotten (RegisterFailedLogin): the limit locks.
THEOREM FailuresLockAccounts == Spec => []FailuresLock
<1>1. IInv => FailuresLock
  BY DEF IInv, CountersSound, FailuresLock
<1> QED
  BY <1>1, InductiveInvariant, PTL

\* "Changing a password invalidates every other session for this account"
\* (handlers_auth.go:204), but for one that was being issued, or is about to be ended, or
\* whose deletion failed or was prevented by the end of the program.
THEOREM SessionsKnow == Spec => []SessionsKnowPassword
<1>1. IInv => SessionsKnowPassword
  BY DEF IInv
<1> QED
  BY <1>1, InductiveInvariant, PTL

\* A step that leaves the sessions, ends some, issues one or slides one.
LEMMA OnlyIssued ==
  ASSUME IInv, Next
  PROVE  \A s \in sessions' : (\E t \in sessions : t.id = s.id) \/ s.id = issued + 1
<1> DEFINE Good == \A s \in sessions' : (\E t \in sessions : t.id = s.id) \/ s.id = issued + 1
<1> SUFFICES Good
  OBVIOUS
<1>1. sessions \subseteq Session
  BY DEF IInv, SessionsTyped
<1>2. \A s \in sessions : \A x \in BOOLEAN :
        [s EXCEPT !.expired = x].id = s.id /\ [s EXCEPT !.excused = x].id = s.id
  BY <1>1, Zenon DEF Session
<1>3. ASSUME sessions' \subseteq sessions PROVE Good
  BY <1>3
<1>9. ASSUME NEW u, sessions' = StillThere(u) PROVE Good
  <2>1. ASSUME NEW s \in sessions' PROVE \E t \in sessions : t.id = s.id
    <3>1. PICK t \in sessions :
            s = [t EXCEPT !.excused = @ \/ (t.user = u /\ t.knows # users[u].password)]
      BY <1>9, <2>1, Zenon DEF StillThere
    <3> DEFINE x == t.excused \/ (t.user = u /\ t.knows # users[u].password)
    <3>2. x \in BOOLEAN
      BY <1>1 DEF Session
    <3>3. s = [t EXCEPT !.excused = x]
      BY <3>1
    <3> HIDE DEF x
    <3> QED
      BY <1>2, <3>2, <3>3, Zenon
  <2> QED
    BY <2>1
<1>4. ASSUME NEW h \in Handlers, Handle(h) PROVE Good
  <2>1. CASE IssueSession(h)
    <3> DEFINE s0 == [id |-> issued + 1, user |-> req[h].user, expired |-> FALSE,
                      knows |-> req[h].password, excused |-> req[h].excused]
    <3>1. sessions' = sessions \/ sessions' = sessions \cup {s0}
      BY <2>1 DEF IssueSession, CreateSession
    <3>2. s0.id = issued + 1
      OBVIOUS
    <3> HIDE DEF s0
    <3> QED
      BY <3>1, <3>2
  <2>2. CASE TouchSession(h)
    <3>1. sessions' = sessions \/ sessions' = Slid(req[h])
      BY <2>2, Zenon DEF TouchSession
    <3>2. ASSUME NEW s \in Slid(req[h]) PROVE \E t \in sessions : t.id = s.id
      <4>1. PICK t \in sessions : s = t \/ s = [t EXCEPT !.expired = FALSE]
        BY <3>2, Zenon DEF Slid
      <4> QED
        BY <1>2, <4>1, Zenon
    <3> QED
      BY <3>1, <3>2
  <2>3. CASE \/ \E u \in Ids : BeginLogin(h, u) \/ GetTarget(h, u)
             \/ CountRead(h) \/ CountWrite(h) \/ RegisterSuccessfulLogin(h)
             \/ \E next \in Passwords \cup {Weak} : PasswordChange(h, next) \/ ResetPassword(h, next)
             \/ CreateUser(h) \/ CountAdmins(h) \/ SaveUser(h) \/ UnlockUser(h)
             \/ CallFails(h)
    BY <1>3, <2>3 DEF CallFails, BeginLogin, GetTarget, CountRead, CountWrite, RegisterSuccessfulLogin,
       PasswordChange, ResetPassword, CreateUser, CountAdmins, SaveUser, UnlockUser
  <2>4. CASE \/ \E s \in sessions, op \in Operations : LookupSession(h, s, op)
             \/ LoadUser(h) \/ Logout(h) \/ DeleteUser(h)
    BY <1>3, <2>4 DEF LookupSession, LoadUser, Logout, DeleteUser, WithoutSession, WithoutUser
  <2>5. CASE EndOtherSessions(h) \/ EndSessions(h)
    <3>1. (\E u : sessions' = StillThere(u)) \/ sessions' \subseteq sessions
      BY <2>5 DEF EndOtherSessions, EndSessions, WithoutUser
    <3> QED
      BY <1>3, <1>9, <3>1
  <2> HIDE DEF Good
  <2> QED
    BY <1>4, <2>1, <2>2, <2>3, <2>4, <2>5 DEF Handle
<1>5. ASSUME NEW u \in Ids, LockEnds(u) PROVE Good
  BY <1>3, <1>5 DEF LockEnds
<1>6. ASSUME NEW s \in sessions, SessionEnds(s) PROVE Good
  <2>1. sessions' \subseteq sessions \cup {[s EXCEPT !.expired = TRUE]}
    BY <1>6 DEF SessionEnds
  <2> QED
    BY <1>2, <2>1
<1>7. CASE PurgeExpiredSessions
  BY <1>3, <1>7 DEF PurgeExpiredSessions
<1>8. CASE Restart
  <2>1. ASSUME NEW s \in sessions' PROVE \E t \in sessions : t.id = s.id
    <3>1. PICK t \in sessions : s = [t EXCEPT !.excused = @ \/ Ending(t.user)]
      BY <1>8, <2>1, Zenon DEF Restart
    <3> DEFINE x == t.excused \/ Ending(t.user)
    <3>2. x \in BOOLEAN
      BY <1>1 DEF Session, Ending
    <3>3. s = [t EXCEPT !.excused = x]
      BY <3>1
    <3> HIDE DEF x
    <3> QED
      BY <1>2, <3>2, <3>3, Zenon
  <2> QED
    BY <2>1
<1> HIDE DEF Good
<1> QED
  BY <1>4, <1>5, <1>6, <1>7, <1>8 DEF Next

\* An ended session does not come back, not by the sliding of its expiry in a request
\* that was admitted before: the only number that appears is one never drawn.
THEOREM SessionsStayEnded == Spec => EndedForGood
<1>1. IInv /\ [Next]_vars =>
        [\A s \in sessions' : (\E t \in sessions : t.id = s.id) \/ s.id = issued + 1]_vars
  BY OnlyIssued
<1> QED
  BY <1>1, InductiveInvariant, PTL DEF Spec, EndedForGood
=============================================================================
