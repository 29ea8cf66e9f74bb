------------------------------ MODULE Accounts ------------------------------
(***************************************************************************)
(* Users and sessions of the panel: internal/store/users.go, sessions.go   *)
(* and bootstrap.go, and the handlers that call them (handlers_auth.go,    *)
(* handlers_admin.go, middleware.go).  Every request is a process and      *)
(* every call of the store one action: nothing holds a lock over two       *)
(* calls, so the handlers check and then act on rows that others change.   *)
(*                                                                         *)
(* A user is its id, a password stands for its hash, and whether a lock or *)
(* a session has run out is a flag that time sets.                         *)
(***************************************************************************)
EXTENDS Integers, FiniteSets

CONSTANTS
  Handlers,      \* HTTP requests
  Passwords,     \* passwords the policy accepts
  Weak,          \* one it refuses
  Roles,         \* roles besides "admin"
  Founders,      \* number of administrators at the start
  MaxUsers,      \* bound: accounts ever created
  MaxSessions,   \* bound: sessions ever created
  MaxRequests,   \* bound: requests begun, restarts and sessions that run out
  MaxFailedLogins

ASSUME InputsAssumption ==
  Weak \notin Passwords /\ "none" \notin Passwords /\ "admin" \notin Roles
ASSUME BoundsAssumption ==
  /\ MaxFailedLogins \in Nat \ {0} /\ Founders \in Nat \ {0}
  /\ MaxUsers \in Nat /\ MaxSessions \in Nat /\ MaxRequests \in Nat
  /\ Founders <= MaxUsers /\ Founders <= MaxSessions

VARIABLES
  users,        \* table users: the rows by id
  created,      \* the AUTOINCREMENT counter of users
  sessions,     \* table sessions
  issued,       \* session ids drawn so far
  req,          \* req[h]: the local state of request h
  begun,        \* how many of those there were
  counted,      \* history: failures committed since the counter was last cleared
  raced         \* history: an account was changed under a decision about accounts

vars == <<users, created, sessions, issued, req, begun, counted, raced>>

Ids == 1..MaxUsers
SessionIds == 1..MaxSessions
AllRoles == Roles \cup {"admin"}

User == [role : AllRoles, active : BOOLEAN, mustChange : BOOLEAN, password : Passwords,
         attempts : Nat, lock : {"none", "locked", "expired"}]
\* What the guards and the form of handleUserSave are about.
Profile == [role : AllRoles, active : BOOLEAN, mustChange : BOOLEAN]
\* knows and excused are history: the password the holder gave or chose, and
\* whether it was replaced while the session was being made, or the deletion that
\* was to end the session failed.
Session == [id : SessionIds, user : Ids, expired : BOOLEAN,
            knows : Passwords, excused : BOOLEAN]
Operations == {"login", "logout", "password", "create", "save", "delete", "unlock"}
Points == {"idle", "user", "touch", "logout", "verify", "endOthers", "renew", "create", "target",
           "count", "update", "reset", "endReset", "endChanged", "remove", "unlock",
           "countRead", "countWrite", "session", "success"}
\* user is who signs in or acts; row, password and attempts are what the request
\* has read, new is the form; session 0 and target 0 are none.
Request == [pc : Points, op : Operations, session : SessionIds \cup {0}, user : Ids,
            target : Ids \cup {0}, row : Profile, new : Profile,
            password : Passwords \cup {"none"}, attempts : Nat,
            stale : BOOLEAN, disturbed : BOOLEAN, excused : BOOLEAN]

NewUser(role, pw, must) == [role |-> role, active |-> TRUE, mustChange |-> must,
                            password |-> pw, attempts |-> 0, lock |-> "none"]
ProfileOf(u) == [role |-> u.role, active |-> u.active, mustChange |-> u.mustChange]
NoProfile == [role |-> "admin", active |-> FALSE, mustChange |-> FALSE]
Idle == [pc |-> "idle", op |-> "login", session |-> 0, user |-> 1, target |-> 0,
         row |-> NoProfile, new |-> NoProfile, password |-> "none", attempts |-> 0,
         stale |-> FALSE, disturbed |-> FALSE, excused |-> FALSE]

Admins == {u \in DOMAIN users : users[u].role = "admin" /\ users[u].active}

-----------------------------------------------------------------------------
(* Statements of the store.  An UPDATE whose row is gone changes nothing. *)

Cleared(r) == [r EXCEPT !.attempts = 0, !.lock = "none"]

UpdateUser(u, n) ==
  [x \in DOMAIN users |-> IF x # u THEN users[x]
     ELSE [users[x] EXCEPT !.role = n.role, !.active = n.active, !.mustChange = n.mustChange]]

SetPassword(u, p) ==
  [x \in DOMAIN users |-> IF x # u THEN users[x]
     ELSE [Cleared(users[x]) EXCEPT !.password = p, !.mustChange = FALSE]]

ClearFailures(u) == [x \in DOMAIN users |-> IF x # u THEN users[x] ELSE Cleared(users[x])]

\* The read and the write are one transaction, which SQLite aborts when
\* another connection has committed since the read.
RegisterFailedLogin(u, attempts) ==
  [x \in DOMAIN users |-> IF x # u THEN users[x]
     ELSE [users[x] EXCEPT !.attempts = attempts,
             !.lock = IF attempts >= MaxFailedLogins THEN "locked" ELSE @]]

\* Mutant: no foreign key.
OwnUnchecked(u) == TRUE

\* The foreign key refuses a session of a user that is gone.
CanOwn(u) == u \in DOMAIN users

CreateSession(u, p, ex) ==
  IF CanOwn(u) THEN sessions \cup {[id |-> issued + 1, user |-> u, expired |-> FALSE,
                                    knows |-> p, excused |-> ex]}
  ELSE sessions

WithoutUser(u) == {s \in sessions : s.user # u}
\* DeleteUserSessions fails: the sessions of u stay.  Those that know another password
\* than the present one are excused (a history).
StillThere(u) ==
  {[s EXCEPT !.excused = @ \/ (s.user = u /\ s.knows # users[u].password)] : s \in sessions}
WithoutSession(i) == {s \in sessions : s.id # i}

-----------------------------------------------------------------------------
(* Requests.  Step is a step that writes nothing; a write of the database  *)
(* aborts the transactions that are open.                                  *)

Step(h, r) == req' = [req EXCEPT ![h] = r]
Wrote(h, r) ==
  req' = [g \in Handlers |-> IF g = h THEN r
            ELSE [req[g] EXCEPT !.stale = @ \/ req[g].pc = "countWrite"]]
\* An account is changed or deleted: others that have read accounts to decide
\* about one are disturbed.
WroteAccount(h, r) ==
  req' = [g \in Handlers |-> IF g = h THEN r
            ELSE [req[g] EXCEPT !.stale = @ \/ req[g].pc = "countWrite",
                    !.disturbed = @ \/ req[g].pc \in {"count", "update", "remove"}]]
\* The password of u is replaced: whoever is about to issue a session of u is excused.
WrotePassword(h, u, r) ==
  req' = [g \in Handlers |-> IF g = h THEN r
            ELSE [req[g] EXCEPT !.stale = @ \/ req[g].pc = "countWrite",
                    !.excused = @ \/ (req[g].user = u /\ req[g].pc \in {"session", "endOthers", "renew"})]]

Go(h, p) == [req[h] EXCEPT !.pc = p]

\* handleLogin up to the password: no such user, a disabled or a locked one and
\* an empty form end the request and change nothing.
BeginLogin(h, u) ==
  /\ req[h].pc = "idle" /\ begun < MaxRequests
  /\ u \in DOMAIN users /\ users[u].active /\ users[u].lock # "locked"
  /\ begun' = begun + 1
  /\ \E verified \in BOOLEAN :
       Step(h, [Idle EXCEPT !.pc = IF verified THEN "session" ELSE "countRead",
                            !.user = u,
                            !.password = IF verified THEN users[u].password ELSE "none"])
  /\ UNCHANGED <<users, created, sessions, issued, counted, raced>>

\* Mutant: the failure counter is read and written without a transaction.
CommitAnyway(r) == TRUE

Commits(r) == ~r.stale

CountRead(h) ==
  /\ req[h].pc = "countRead"
  /\ Step(h, IF req[h].user \in DOMAIN users
             THEN [Go(h, "countWrite") EXCEPT !.attempts = users[req[h].user].attempts] ELSE Idle)
  /\ UNCHANGED <<users, created, sessions, issued, begun, counted, raced>>

\* The handler drops the error of the transaction; the writes of other parts of
\* the panel abort it too.
CountWrite(h) ==
  LET u == req[h].user  r == req[h] IN
  /\ r.pc = "countWrite"
  /\ \/ Step(h, Idle) /\ UNCHANGED <<users, counted>>
     \/ /\ Commits(r)
        /\ users' = RegisterFailedLogin(u, r.attempts + 1)
        /\ counted' = [counted EXCEPT ![u] = @ + 1]
        /\ Wrote(h, Idle)
  /\ UNCHANGED <<created, sessions, issued, begun, raced>>

IssueSession(h) ==
  LET u == req[h].user  r == req[h] IN
  /\ r.pc \in {"session", "renew"} /\ issued < MaxSessions
  /\ issued' = issued + 1
  /\ sessions' = CreateSession(u, r.password, r.excused)
  /\ Wrote(h, IF r.pc = "session" /\ CanOwn(u) THEN Go(h, "success") ELSE Idle)
  /\ UNCHANGED <<users, created, begun, counted, raced>>

RegisterSuccessfulLogin(h) ==
  /\ req[h].pc = "success"
  /\ users' = ClearFailures(req[h].user)
  /\ counted' = [counted EXCEPT ![req[h].user] = 0]
  /\ Wrote(h, Idle)
  /\ UNCHANGED <<created, sessions, issued, begun, raced>>

\* A call of the store fails (the database is busy, the client has left): the handler
\* returns, whether it reports the error or drops it as the logout does.
CallFails(h) ==
  /\ req[h].pc \in {"user", "logout", "verify", "renew", "create", "target", "count", "update",
                   "reset", "remove", "unlock", "session", "success"}
  /\ Step(h, Idle)
  /\ UNCHANGED <<users, created, sessions, issued, begun, counted, raced>>

-----------------------------------------------------------------------------
(* Authenticated requests: the session, then its user, then the guards of  *)
(* the route.                                                              *)

LookupSession(h, s, op) ==
  /\ req[h].pc = "idle" /\ begun < MaxRequests /\ s \in sessions /\ op # "login"
  /\ begun' = begun + 1
  /\ IF s.expired THEN sessions' = WithoutSession(s.id) /\ Wrote(h, Idle)
     ELSE /\ Step(h, [Idle EXCEPT !.pc = "user", !.op = op, !.session = s.id, !.user = s.user])
          /\ UNCHANGED sessions
  /\ UNCHANGED <<users, created, issued, counted, raced>>

LoadUser(h) ==
  LET u == req[h].user  r == req[h] IN
  /\ r.pc = "user"
  /\ IF u \notin DOMAIN users THEN Step(h, Idle) /\ UNCHANGED sessions
     ELSE IF ~users[u].active THEN sessions' = WithoutSession(r.session) /\ Wrote(h, Idle)
     ELSE /\ Step(h, [Go(h, "touch") EXCEPT !.row = ProfileOf(users[u]),
                   !.password = IF r.op = "password" THEN users[u].password ELSE "none"])
          /\ UNCHANGED sessions
  /\ UNCHANGED <<users, created, issued, begun, counted, raced>>

\* requireAuth and requireAdmin: a forced password change leaves the profile
\* and the logout, and accounts are for administrators.
Admitted(op, row) ==
  /\ row.mustChange => op \in {"password", "logout"}
  /\ row.role = "admin" \/ op \in {"password", "logout"}

Entry(op) == CASE op = "logout" -> "logout" [] op = "password" -> "verify"
               [] op = "create" -> "create" [] OTHER -> "target"

\* Mutant: the row is replaced instead of updated.
SlidReplaced(r) ==
  {s \in sessions : s.id # r.session} \cup
  {[id |-> r.session, user |-> r.user, expired |-> FALSE, excused |-> TRUE,
    knows |-> CHOOSE p \in Passwords : TRUE]}

\* The expiry slides when the session was last seen a minute ago or more.
Slid(r) == {IF s.id = r.session THEN [s EXCEPT !.expired = FALSE] ELSE s : s \in sessions}

TouchSession(h) ==
  LET r == req[h]
      next == IF Admitted(r.op, r.row) THEN [Go(h, Entry(r.op)) EXCEPT !.row = NoProfile]
              ELSE Idle IN
  /\ r.pc = "touch"
  /\ \/ Step(h, next) /\ UNCHANGED sessions
     \/ sessions' = Slid(r) /\ Wrote(h, next)
  /\ UNCHANGED <<users, created, issued, begun, counted, raced>>

Logout(h) ==
  /\ req[h].pc = "logout"
  /\ sessions' = WithoutSession(req[h].session)
  /\ Wrote(h, Idle)
  /\ UNCHANGED <<users, created, issued, begun, counted, raced>>

\* handlePasswordChange: the current password is compared with the row read by
\* LoadUser; a wrong one, the same one or a weak one ends the request.
PasswordChange(h, next) ==
  LET u == req[h].user IN
  /\ req[h].pc = "verify"
  /\ IF next \in {Weak, req[h].password} THEN Step(h, Idle) /\ UNCHANGED <<users, counted>>
     ELSE /\ users' = SetPassword(u, next)
          /\ counted' = [counted EXCEPT ![u] = 0]
          /\ WrotePassword(h, u, [Go(h, "endOthers") EXCEPT !.password = next])
  /\ UNCHANGED <<created, sessions, issued, begun, raced>>

\* Mutant: only the session of the request is replaced.
EndThisSession(h) ==
  /\ req[h].pc = "endOthers"
  /\ sessions' = WithoutSession(req[h].session)
  /\ Wrote(h, Go(h, "renew"))
  /\ UNCHANGED <<users, created, issued, begun, counted, raced>>

\* Only a deletion that succeeded is followed by a new session for the request; one
\* that failed is not reported.
EndOtherSessions(h) ==
  /\ req[h].pc = "endOthers"
  /\ \/ sessions' = WithoutUser(req[h].user) /\ Wrote(h, Go(h, "renew"))
     \/ sessions' = StillThere(req[h].user) /\ Step(h, Idle)
  /\ UNCHANGED <<users, created, issued, begun, counted, raced>>

-----------------------------------------------------------------------------
(* User administration.                                                    *)

CreateUser(h) ==
  /\ req[h].pc = "create" /\ created < MaxUsers
  /\ \E role \in AllRoles, pw \in Passwords \cup {Weak}, must \in BOOLEAN :
       IF pw = Weak THEN Step(h, Idle) /\ UNCHANGED <<users, created>>
       ELSE /\ created' = created + 1
            /\ users' = [x \in DOMAIN users \cup {created + 1} |->
                           IF x \in DOMAIN users THEN users[x] ELSE NewUser(role, pw, must)]
            /\ Wrote(h, Idle)
  /\ UNCHANGED <<sessions, issued, begun, counted, raced>>

SelfDisabled(r) == r.target = r.user /\ ~r.new.active

\* An administrator loses the role, the account or access.
Removes(r) == r.row.role = "admin" /\ (r.op = "delete" \/ r.new.role # "admin" \/ ~r.new.active)

\* handleUserSave, handleUserDelete and handleUserUnlock up to GetUser; nobody
\* disables or deletes himself.
GetTarget(h, t) ==
  LET r == req[h]
      read == [r EXCEPT !.target = t, !.row = ProfileOf(users[t])] IN
  /\ r.pc = "target" /\ t \in DOMAIN users
  /\ \/ /\ r.op = "unlock" /\ Step(h, [read EXCEPT !.pc = "unlock"])
     \/ /\ r.op = "delete"
        /\ Step(h, IF t = r.user THEN Idle
                   ELSE [read EXCEPT !.pc = IF Removes(read) THEN "count" ELSE "remove"])
     \/ /\ r.op = "save"
        /\ \E role \in AllRoles, active \in BOOLEAN :
             LET form == [read EXCEPT !.new = [role |-> role, active |-> active,
                                               mustChange |-> FALSE]] IN
             Step(h, IF Removes(form) THEN [form EXCEPT !.pc = "count"]
                     ELSE IF SelfDisabled(form) THEN Idle ELSE [form EXCEPT !.pc = "update"])
  /\ UNCHANGED <<users, created, sessions, issued, begun, counted, raced>>

\* Mutant: the count is compared with none left.
NoAdmin == Cardinality(Admins) < 1

LastAdmin == Cardinality(Admins) <= 1

CountAdmins(h) ==
  LET r == req[h] IN
  /\ r.pc = "count"
  /\ Step(h, IF LastAdmin \/ (r.op = "save" /\ SelfDisabled(r)) THEN Idle
             ELSE Go(h, IF r.op = "save" THEN "update" ELSE "remove"))
  /\ UNCHANGED <<users, created, sessions, issued, begun, counted, raced>>

\* The role changes or the account is disabled.
Changes(r) == r.row.role # r.new.role \/ (r.row.active /\ ~r.new.active)

SaveUser(h) ==
  LET r == req[h] IN
  /\ r.pc = "update"
  /\ \E must, reset \in BOOLEAN :
       /\ users' = UpdateUser(r.target, [r.new EXCEPT !.mustChange = must])
       /\ WroteAccount(h, IF reset THEN Go(h, "reset")
                          ELSE IF Changes(r) THEN Go(h, "endChanged") ELSE Idle)
  /\ raced' = (raced \/ r.disturbed)
  /\ UNCHANGED <<created, sessions, issued, begun, counted>>

\* A password the policy refuses ends the request with the rest of the form saved.
ResetPassword(h, pw) ==
  LET r == req[h] IN
  /\ r.pc = "reset"
  /\ IF pw = Weak THEN Step(h, Idle) /\ UNCHANGED <<users, counted>>
     ELSE /\ users' = SetPassword(r.target, pw)
          /\ counted' = [counted EXCEPT ![r.target] = 0]
          /\ WrotePassword(h, r.target, Go(h, "endReset"))
  /\ UNCHANGED <<created, sessions, issued, begun, raced>>

\* An error of the deletion is dropped.
EndSessions(h) ==
  LET r == req[h]
      next == IF r.pc = "endReset" /\ Changes(r) THEN Go(h, "endChanged") ELSE Idle IN
  /\ r.pc \in {"endReset", "endChanged"}
  /\ \/ sessions' = WithoutUser(r.target) /\ Wrote(h, next)
     \/ sessions' = StillThere(r.target) /\ Step(h, next)
  /\ UNCHANGED <<users, created, issued, begun, counted, raced>>

DeleteUser(h) ==
  LET r == req[h] IN
  /\ r.pc = "remove"
  /\ users' = [x \in DOMAIN users \ {r.target} |-> users[x]]
  /\ sessions' = WithoutUser(r.target)
  /\ raced' = (raced \/ r.disturbed)
  /\ WroteAccount(h, Idle)
  /\ UNCHANGED <<created, issued, begun, counted>>

UnlockUser(h) ==
  /\ req[h].pc = "unlock"
  /\ users' = ClearFailures(req[h].target)
  /\ counted' = [counted EXCEPT ![req[h].target] = 0]
  /\ Wrote(h, Idle)
  /\ UNCHANGED <<created, sessions, issued, begun, raced>>

-----------------------------------------------------------------------------
(* Time, housekeeping, and the program started again.                      *)

LockEnds(u) ==
  /\ u \in DOMAIN users /\ users[u].lock = "locked"
  /\ users' = [users EXCEPT ![u].lock = "expired"]
  /\ UNCHANGED <<created, sessions, issued, req, begun, counted, raced>>

SessionEnds(s) ==
  /\ begun < MaxRequests /\ s \in sessions /\ ~s.expired
  /\ begun' = begun + 1
  /\ sessions' = (sessions \ {s}) \cup {[s EXCEPT !.expired = TRUE]}
  /\ UNCHANGED <<users, created, issued, req, counted, raced>>

PurgeExpiredSessions ==
  /\ \E s \in sessions : s.expired
  /\ sessions' = {s \in sessions : ~s.expired}
  /\ req' = [g \in Handlers |-> [req[g] EXCEPT !.stale = @ \/ req[g].pc = "countWrite"]]
  /\ UNCHANGED <<users, created, issued, begun, counted, raced>>

\* Sessions of u are about to be ended because its password was replaced.
Ending(u) == \E g \in Handlers : \/ req[g].pc = "endOthers" /\ req[g].user = u
                                 \/ req[g].pc = "endReset" /\ req[g].target = u

\* main: EnsureAdmin creates an administrator only when there is no user at all.
Restart ==
  /\ begun < MaxRequests /\ begun' = begun + 1
  /\ req' = [g \in Handlers |-> Idle]
  /\ sessions' = {[s EXCEPT !.excused = @ \/ Ending(s.user)] : s \in sessions}
  /\ IF users = <<>> /\ created < MaxUsers
     THEN \E pw \in Passwords :
            /\ created' = created + 1
            /\ users' = [x \in {created + 1} |-> NewUser("admin", pw, TRUE)]
     ELSE UNCHANGED <<users, created>>
  /\ UNCHANGED <<issued, counted, raced>>

Handle(h) ==
  \/ \E u \in Ids : BeginLogin(h, u) \/ GetTarget(h, u)
  \/ CallFails(h) \/ CountRead(h) \/ CountWrite(h) \/ IssueSession(h) \/ RegisterSuccessfulLogin(h)
  \/ \E s \in sessions, op \in Operations : LookupSession(h, s, op)
  \/ LoadUser(h) \/ TouchSession(h) \/ Logout(h)
  \/ \E next \in Passwords \cup {Weak} : PasswordChange(h, next) \/ ResetPassword(h, next)
  \/ EndOtherSessions(h)
  \/ CreateUser(h) \/ CountAdmins(h) \/ SaveUser(h)
  \/ EndSessions(h) \/ DeleteUser(h) \/ UnlockUser(h)

Init ==
  /\ \E p \in Passwords :
       /\ users = [u \in 1..Founders |-> NewUser("admin", p, FALSE)]
       /\ sessions = {[id |-> u, user |-> u, expired |-> FALSE, knows |-> p,
                       excused |-> FALSE] : u \in 1..Founders}
  /\ created = Founders /\ issued = Founders
  /\ req = [h \in Handlers |-> Idle] /\ begun = 0
  /\ counted = [u \in Ids |-> 0] /\ raced = FALSE

Next ==
  \/ \E h \in Handlers : Handle(h)
  \/ \E u \in Ids : LockEnds(u)
  \/ \E s \in sessions : SessionEnds(s)
  \/ PurgeExpiredSessions \/ Restart

Spec == Init /\ [][Next]_vars

-----------------------------------------------------------------------------
\* The shapes of the tables and of the requests; the ids in use are those drawn,
\* session ids are unique, and every session has an owner.
TypeOK ==
  /\ DOMAIN users \subseteq 1..created /\ created \in 0..MaxUsers
  /\ \A u \in DOMAIN users : users[u] \in User
  /\ sessions \subseteq Session /\ issued \in 0..MaxSessions
  /\ \A s \in sessions : s.id <= issued /\ s.user \in DOMAIN users
  /\ \A s, t \in sessions : s.id = t.id => s = t
  /\ req \in [Handlers -> Request] /\ begun \in 0..MaxRequests
  /\ counted \in [Ids -> Nat] /\ raced \in BOOLEAN

\* "Never let the last administrator lose access, including to themselves"
\* (handlers_admin.go:96): as long as no account was changed between the checks
\* and the write of another request about accounts, an active administrator is left.
AdminRemains == raced \/ Admins # {}

\* No failed login that was committed is forgotten: when as many as the limit
\* have been since the counter was last cleared, the account has been locked
\* (RegisterFailedLogin), however the logins, unlocks and resets interleave.
FailuresLock ==
  \A u \in DOMAIN users : counted[u] >= MaxFailedLogins => users[u].lock # "none"

\* "Changing a password invalidates every other session for this account"
\* (handlers_auth.go:204, handlers_admin.go:119): a session whose holder knew
\* another password than the present one was being issued while the password
\* changed, or is about to be ended, or the program ended first, or the deletion that
\* was to end it failed: the two handlers drop that error.
SessionsKnowPassword ==
  \A s \in sessions : s.knows = users[s.user].password \/ s.excused \/ Ending(s.user)

\* A session that has ended does not come back: not by the sliding of its expiry
\* in a request that was already admitted.
EndedForGood ==
  [][\A s \in sessions' : (\E t \in sessions : t.id = s.id) \/ s.id = issued + 1]_vars
=============================================================================
