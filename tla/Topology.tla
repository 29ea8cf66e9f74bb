------------------------------ MODULE Topology ------------------------------
(***************************************************************************)
(* The proxy configuration in the database: frontends, backends and what   *)
(* belongs to them, with the schema of internal/db/db.go, the statements   *)
(* of internal/store, the forms of internal/web and the tools of the       *)
(* assistant that change it, and the renderer that reads it table by table *)
(* while it changes.  A form is one statement or transaction; whoever      *)
(* reads first and writes later (a delete of a backend, a move of a rule,  *)
(* a tool, the renderer) is a process.                                     *)
(***************************************************************************)
EXTENDS Integers, FiniteSets

CONSTANTS
  Workers,      \* requests and tool calls that read before they write
  Names,        \* names of frontends, backends and servers
  Start,        \* the rows at the start
  MaxId,        \* bound: ids ever given in each table
  MaxEdits,     \* bound: forms saved or rows deleted
  MaxWork       \* bound: reads begun by the workers

Tables == {"frontends", "backends", "binds", "servers", "domains", "acls", "rules"}
Owners == {"frontends", "backends"}

ASSUME BoundsAssumption ==
  MaxId \in [Tables -> Nat] /\ MaxEdits \in Nat /\ MaxWork \in Nat

VARIABLES
  db,      \* db[t]: the rows of table t by id
  last,    \* last[t]: the AUTOINCREMENT counter of table t
  work,    \* work[w]: the local state of worker w
  edits, begun,
  raced    \* history: a backend was deleted after a check that failed or was overtaken

vars == <<db, last, work, edits, begun, raced>>

Ids(t) == 1..MaxId[t]
NULL == 0

-----------------------------------------------------------------------------
(* The schema.  Columns no reference, order or selection depends on are    *)
(* left out; redirects tells whether redirect_to is set.                   *)

Frontend == [name : Names, enabled : BOOLEAN, default : Ids("backends") \cup {NULL}]
Bind == [frontend : Ids("frontends")]
Backend == [name : Names, enabled : BOOLEAN]
ServerRow == [backend : Ids("backends"), name : Names]
Domain == [frontend : Ids("frontends"), backend : Ids("backends") \cup {NULL},
             redirects : BOOLEAN, enabled : BOOLEAN]
Acl == [scope : Owners, owner : Ids("frontends") \cup Ids("backends")]
Rule == [scope : Owners, owner : Ids("frontends") \cup Ids("backends"), order : Nat]

RowsOf(t) == CASE t = "frontends" -> Frontend [] t = "backends" -> Backend
               [] t = "binds" -> Bind [] t = "servers" -> ServerRow
               [] t = "domains" -> Domain [] t = "acls" -> Acl [] t = "rules" -> Rule

\* REFERENCES ... ON DELETE CASCADE, and ON DELETE SET NULL.
Cascades == {<<"binds", "frontend", "frontends">>, <<"servers", "backend", "backends">>,
             <<"domains", "frontend", "frontends">>}
SetsNull == {<<"frontends", "default", "backends">>, <<"domains", "backend", "backends">>}

\* Rows that reference row id of table t through r = <<table, column, t>>.
Refer(r, t, id) == {i \in DOMAIN db[r[1]] : r[3] = t /\ db[r[1]][i][r[2]] = id}

\* ACLs and rules name their owner without a foreign key.
Owned(t, o, id) == {i \in DOMAIN db[t] : t \in {"acls", "rules"} /\ db[t][i].scope = o
                                         /\ db[t][i].owner = id}

\* Mutant: a cascade deletes, nothing is set to NULL.
RowKept(c, row, t, id) == row

RowAfter(c, row, t, id) ==
  IF \E r \in SetsNull : r[1] = c /\ r[3] = t /\ row[r[2]] = id
  THEN [row EXCEPT ![(CHOOSE r \in SetsNull : r[1] = c /\ r[3] = t)[2]] = NULL] ELSE row

\* A DELETE of one row, with what the foreign keys do; more[c] goes in the same
\* transaction.
Without(t, id, more) ==
  [c \in Tables |->
     LET gone == more[c] \cup (IF c = t THEN {id} ELSE {})
                 \cup UNION {Refer(r, t, id) : r \in {r \in Cascades : r[1] = c}}
     IN [i \in DOMAIN db[c] \ gone |-> RowAfter(c, db[c][i], t, id)]]

\* What the constraints refuse: a reference to no row, and a name twice.
References(d, t, row) ==
  /\ \A r \in Cascades : r[1] = t => row[r[2]] \in DOMAIN d[r[3]]
  /\ \A r \in SetsNull : r[1] = t => row[r[2]] \in DOMAIN d[r[3]] \cup {NULL}
SameKey(t, a, b) ==
  \/ t \in Owners /\ a.name = b.name
  \/ t = "servers" /\ a.name = b.name /\ a.backend = b.backend
Unique(d, t, id, row) == \A i \in DOMAIN d[t] \ {id} : ~SameKey(t, d[t][i], row)

\* Tables d with the counters n: rows have the shape of their table, refer to rows
\* that exist and respect the keys; owners have been given their ids; and a route has
\* a backend or a redirect.
Shaped(d, n) ==
  /\ DOMAIN d = Tables /\ DOMAIN n = Tables
  /\ \A t \in Tables :
       /\ n[t] \in 0..MaxId[t] /\ DOMAIN d[t] \subseteq 1..n[t]
       /\ \A i \in DOMAIN d[t] :
            d[t][i] \in RowsOf(t) /\ References(d, t, d[t][i]) /\ Unique(d, t, i, d[t][i])
OwnersGiven(d, n) ==
  \A t \in {"acls", "rules"} : \A i \in DOMAIN d[t] : d[t][i].owner \in 1..n[d[t][i].scope]
RoutesLead(d) ==
  \A i \in DOMAIN d["domains"] : d["domains"][i].backend # NULL \/ d["domains"][i].redirects

\* The counter of a table that was only ever filled.
Given(d) == [t \in Tables |-> Cardinality(DOMAIN d[t])]

ASSUME StartAssumption ==
  Shaped(Start, Given(Start)) /\ OwnersGiven(Start, Given(Start)) /\ RoutesLead(Start)

\* Mutant: ids of deleted rows are given again, as without AUTOINCREMENT.
FreeId(t) == CHOOSE i \in 1..(last[t] + 1) :
               i \notin DOMAIN db[t] /\ \A j \in 1..(i - 1) : j \in DOMAIN db[t]

NewId(t) == last[t] + 1

\* The INSERT (id is NULL) or UPDATE of a Save method; an UPDATE of a row that
\* is gone changes nothing, and a constraint that refuses it neither.
Save(t, id, row) ==
  IF ~References(db, t, row) \/ ~Unique(db, t, id, row) THEN UNCHANGED <<db, last>>
  ELSE IF id = NULL
  THEN /\ last[t] < MaxId[t]
       /\ db' = [db EXCEPT ![t] = [i \in DOMAIN db[t] \cup {NewId(t)} |->
                                     IF i = NewId(t) THEN row ELSE db[t][i]]]
       /\ last' = [last EXCEPT ![t] = @ + 1]
  ELSE /\ db' = IF id \in DOMAIN db[t] THEN [db EXCEPT ![t][id] = row] ELSE db
       /\ UNCHANGED last

-----------------------------------------------------------------------------
(* The store.                                                              *)

Nothing == [c \in Tables |-> {}]

SaveFrontend(id, row) == Save("frontends", id, row)
SaveBackend(id, row) == Save("backends", id, row)
SaveBind(id, row) == Save("binds", id, row)
SaveServer(id, row) == Save("servers", id, row)
\* A route has a backend or a redirect.
SaveDomain(id, row) ==
  IF row.backend = NULL /\ ~row.redirects THEN UNCHANGED <<db, last>>
  ELSE Save("domains", id, row)
\* An UPDATE of an ACL or rule leaves its owner alone.
SaveACL(id, row) ==
  Save("acls", id, IF id \in DOMAIN db["acls"] THEN db["acls"][id] ELSE row)
SaveRule(id, row) ==
  Save("rules", id, IF id \in DOMAIN db["rules"]
                    THEN [db["rules"][id] EXCEPT !.order = row.order] ELSE row)

DeleteFrontend(id) ==
  LET owned == [c \in Tables |-> Owned(c, "frontends", id)]
  IN db' = Without("frontends", id, owned) /\ UNCHANGED last
DeleteBackend(id) ==
  LET owned == [c \in Tables |-> Owned(c, "backends", id)]
  IN db' = Without("backends", id, owned) /\ UNCHANGED last
DeleteRow(t, id) == db' = Without(t, id, Nothing) /\ UNCHANGED last

\* Mutant: only frontends are asked.
ReferencesDefault(t, id) == t = "frontends" /\ Refer(<<t, "default", "backends">>, "backends", id) # {}

\* One of the two queries of BackendReferences.
BackendReferences(t, id) ==
  \E r \in SetsNull : r[1] = t /\ Refer(r, "backends", id) # {}

\* ListRules: the rules of an owner by order_index and id, as the place of each.
RulesOf(d, o, id) == {i \in DOMAIN d["rules"] : d["rules"][i].scope = o /\ d["rules"][i].owner = id}

Before(d, i, j) == \/ d["rules"][i].order < d["rules"][j].order
                   \/ d["rules"][i].order = d["rules"][j].order /\ i < j
ListRules(d, o, id) ==
  [i \in RulesOf(d, o, id) |-> Cardinality({j \in RulesOf(d, o, id) : Before(d, j, i)})]

\* Mutant: the rule takes the place, and nothing takes its own.
Overtaken(places, id, delta) ==
  IF places[id] + delta \notin 0..(Cardinality(DOMAIN places) - 1) THEN places
  ELSE [places EXCEPT ![id] = @ + delta]

\* Rule id and the one delta places on change places; at either end nothing moves.
Swapped(places, id, delta) ==
  [i \in DOMAIN places |->
     IF places[id] + delta \notin 0..(Cardinality(DOMAIN places) - 1) THEN places[i]
     ELSE IF i = id THEN places[id] + delta
     ELSE IF places[i] = places[id] + delta THEN places[id] ELSE places[i]]

-----------------------------------------------------------------------------
(* The forms.  Ids come from pages loaded earlier: rows that exist or did. *)

Known(t) == 1..last[t]

FrontendForm == [name : Names, enabled : BOOLEAN, default : Known("backends") \cup {NULL}]
BackendForm == [name : Names, enabled : BOOLEAN]
BindForm == [frontend : Known("frontends")]
ServerForm == [backend : Known("backends"), name : Names]
DomainForm == [frontend : Known("frontends"), backend : Known("backends") \cup {NULL},
               redirects : BOOLEAN, enabled : BOOLEAN]
OwnerForm == UNION {[scope : {o}, owner : Known(o)] : o \in Owners}
RuleForm == UNION {[scope : {o}, owner : Known(o), order : {0, 1}] : o \in Owners}

HandleFrontendSave == \E id \in Known("frontends") \cup {NULL}, f \in FrontendForm : SaveFrontend(id, f)
HandleBackendSave == \E id \in Known("backends") \cup {NULL}, f \in BackendForm : SaveBackend(id, f)
HandleBindSave == \E id \in Known("binds") \cup {NULL}, f \in BindForm : SaveBind(id, f)
HandleServerSave == \E id \in Known("servers") \cup {NULL}, f \in ServerForm : SaveServer(id, f)
HandleDomainSave == \E id \in Known("domains") \cup {NULL}, f \in DomainForm : SaveDomain(id, f)
HandleACLSave == \E id \in Known("acls") \cup {NULL}, f \in OwnerForm : SaveACL(id, f)
HandleRuleSave == \E id \in Known("rules") \cup {NULL}, f \in RuleForm : SaveRule(id, f)

HandleFrontendDelete == \E id \in DOMAIN db["frontends"] : DeleteFrontend(id)
HandleBindDelete == \E id \in DOMAIN db["binds"] : DeleteRow("binds", id)
HandleServerDelete == \E id \in DOMAIN db["servers"] : DeleteRow("servers", id)
HandleDomainDelete == \E id \in DOMAIN db["domains"] : DeleteRow("domains", id)
HandleACLDelete == \E id \in DOMAIN db["acls"] : DeleteRow("acls", id)
HandleRuleDelete == \E id \in DOMAIN db["rules"] : DeleteRow("rules", id)

\* The one tool that saves without reading first.
ToolCreateBackend == \E n \in Names : SaveBackend(NULL, [name |-> n, enabled |-> TRUE])

\* A table has changed: whoever decides by it is disturbed.
Watched(op) == CASE op = "delete" -> {"frontends", "domains"}
                 [] op = "move" -> {"rules"} [] OTHER -> {"frontends"}
Disturb(r) == [r EXCEPT !.disturbed = @ \/ \E t \in Watched(r.op) : db'[t] # db[t]]

Edit ==
  /\ edits < MaxEdits /\ edits' = edits + 1
  /\ \/ HandleFrontendSave \/ HandleBackendSave \/ HandleBindSave \/ HandleServerSave
     \/ HandleDomainSave \/ HandleACLSave \/ HandleRuleSave
     \/ HandleFrontendDelete \/ HandleBindDelete \/ HandleServerDelete
     \/ HandleDomainDelete \/ HandleACLDelete \/ HandleRuleDelete
     \/ ToolCreateBackend
  /\ db' # db
  /\ work' = [g \in Workers |-> IF work[g].pc = "idle" THEN work[g] ELSE Disturb(work[g])]
  /\ UNCHANGED <<begun, raced>>

-----------------------------------------------------------------------------
(* Workers.                                                                *)

NoRow == [name |-> "none", enabled |-> FALSE, default |-> NULL]
Idle == [pc |-> "idle", op |-> "none", id |-> NULL, other |-> NULL, row |-> NoRow,
         places |-> <<>>, delta |-> 1, read |-> [f \in {} |-> {}], todo |-> {}, lines |-> {},
         disturbed |-> FALSE]

Begin(w, r) ==
  /\ work[w].pc = "idle" /\ begun < MaxWork /\ begun' = begun + 1
  /\ work' = [work EXCEPT ![w] = r]
  /\ UNCHANGED <<db, last, edits, raced>>

Read(w, r) ==
  /\ work' = [work EXCEPT ![w] = r]
  /\ UNCHANGED <<db, last, edits, begun, raced>>

Wrote(w) ==
  /\ work' = [g \in Workers |-> IF g = w THEN Idle
                ELSE IF work[g].pc = "idle" THEN work[g] ELSE Disturb(work[g])]
  /\ UNCHANGED <<edits, begun>>

\* handleBackendDelete and the tool delete_backend: refused while something
\* routes to the backend.  A query that fails refuses nothing.
Unasked(b) == [Idle EXCEPT !.pc = "delete", !.op = "delete", !.id = b, !.disturbed = TRUE]

AskFrontends(w, b) ==
  /\ b \in DOMAIN db["backends"]
  /\ \/ Begin(w, IF BackendReferences("frontends", b) THEN Idle
                 ELSE [Idle EXCEPT !.pc = "askDomains", !.op = "delete", !.id = b])
     \/ Begin(w, Unasked(b))

AskDomains(w) ==
  /\ work[w].pc = "askDomains"
  /\ \/ Read(w, IF BackendReferences("domains", work[w].id) THEN Idle
                ELSE [work[w] EXCEPT !.pc = "delete"])
     \/ Read(w, Unasked(work[w].id))

BackendDelete(w) ==
  /\ work[w].pc = "delete"
  /\ DeleteBackend(work[w].id)
  /\ raced' = (raced \/ work[w].disturbed)
  /\ Wrote(w)

\* handleRuleMove: GetRule and ListRules outside the transaction that renumbers.
BeginMove(w, i, delta) ==
  /\ i \in DOMAIN db["rules"]
  /\ LET r == db["rules"][i] IN
     Begin(w, [Idle EXCEPT !.pc = "move", !.op = "move", !.id = i, !.delta = delta,
                           !.places = ListRules(db, r.scope, r.owner)])

MoveRule(w) ==
  LET places == Swapped(work[w].places, work[w].id, work[w].delta) IN
  /\ work[w].pc = "move"
  /\ db' = [db EXCEPT !["rules"] = [i \in DOMAIN @ |-> IF i \in DOMAIN places
              THEN [@[i] EXCEPT !.order = places[i]] ELSE @[i]]]
  /\ Wrote(w)
  /\ UNCHANGED <<last, raced>>

\* A tool resolves a frontend and a backend by name, then saves.
ResolveNames(w, f, b) ==
  /\ f \in DOMAIN db["frontends"] /\ b \in DOMAIN db["backends"]
  /\ Begin(w, [Idle EXCEPT !.pc = "tool", !.op = "tool", !.id = f, !.other = b,
                           !.row = db["frontends"][f]])

\* The tool writes back the whole row it has read.
\* Mutant: with what it knows of an enabled frontend.
EnabledRow(r) == [r.row EXCEPT !.default = r.other, !.enabled = TRUE]

DefaultRow(r) == [r.row EXCEPT !.default = r.other]

ToolSetDefaultBackend(r) == SaveFrontend(r.id, DefaultRow(r))
ToolCreateFrontend(r) ==
  \E n \in Names, b \in {r.other, NULL} :
    SaveFrontend(NULL, [name |-> n, enabled |-> TRUE, default |-> b])
ToolAddServer(r) == \E n \in Names : SaveServer(NULL, [backend |-> r.other, name |-> n])
ToolAddBind(r) == SaveBind(NULL, [frontend |-> r.id])
ToolAddRoute(r) ==
  \E b \in {r.other, NULL}, to \in BOOLEAN :
    SaveDomain(NULL, [frontend |-> r.id, backend |-> b, redirects |-> to, enabled |-> TRUE])
ResolveOwner(r) == {[scope |-> "frontends", owner |-> r.id], [scope |-> "backends", owner |-> r.other]}
ToolAddACL(r) == \E o \in ResolveOwner(r) : SaveACL(NULL, o)
ToolAddRule(r) ==
  \E o \in ResolveOwner(r) : SaveRule(NULL, [scope |-> o.scope, owner |-> o.owner, order |-> 100])
ToolDeleteFrontend(r) == DeleteFrontend(r.id)

ToolSaves(w) ==
  LET r == work[w] IN
  /\ r.pc = "tool"
  /\ \/ ToolSetDefaultBackend(r) \/ ToolCreateFrontend(r) \/ ToolAddServer(r) \/ ToolAddBind(r)
     \/ ToolAddRoute(r) \/ ToolAddACL(r) \/ ToolAddRule(r) \/ ToolDeleteFrontend(r)
  /\ Wrote(w)
  /\ UNCHANGED raced

\* Render: all frontends, then all backends, then the routes of each enabled
\* frontend, each with a query of its own.
ListFrontends(w) ==
  Begin(w, [Idle EXCEPT !.pc = "backends", !.op = "render",
                        !.todo = {f \in DOMAIN db["frontends"] : db["frontends"][f].enabled},
                        !.places = [f \in DOMAIN db["frontends"] |-> db["frontends"][f].default]])

ListBackends(w) ==
  /\ work[w].pc = "backends"
  /\ Read(w, [work[w] EXCEPT !.pc = "frontends", !.read = db["backends"]])

\* Mutant: the backend of a route is looked up when the route is written.
NamedNow(r, b) == IF b \in DOMAIN db["backends"] THEN {db["backends"][b].name} ELSE {}

\* A route or default whose backend is missing or disabled is left out.
NamedBackend(r, b) == IF b \in DOMAIN r.read /\ r.read[b].enabled THEN {r.read[b].name} ELSE {}

RenderFrontend(w, f) ==
  LET r == work[w]
      routes == {d \in DOMAIN db["domains"] : db["domains"][d].frontend = f /\ db["domains"][d].enabled}
  IN /\ r.pc = "frontends" /\ f \in r.todo
     /\ Read(w, [r EXCEPT !.todo = @ \ {f},
                   !.lines = @ \cup NamedBackend(r, r.places[f])
                               \cup UNION {NamedBackend(r, db["domains"][d].backend) : d \in routes}])

RenderBackends(w) ==
  /\ work[w].pc = "frontends" /\ work[w].todo = {}
  /\ Read(w, [work[w] EXCEPT !.pc = "rendered"])

\* The proxy sections of the text: one for each enabled backend listed.
Sections(r) == {r.read[b].name : b \in {b \in DOMAIN r.read : r.read[b].enabled}}

Rendered(w) == work[w].pc = "rendered" /\ Read(w, Idle)

Work(w) ==
  \/ \E b \in Ids("backends") : AskFrontends(w, b)
  \/ AskDomains(w) \/ BackendDelete(w)
  \/ \E i \in Ids("rules"), delta \in {-1, 1} : BeginMove(w, i, delta)
  \/ MoveRule(w)
  \/ \E f \in Ids("frontends"), b \in Ids("backends") : ResolveNames(w, f, b)
  \/ ToolSaves(w)
  \/ ListFrontends(w) \/ ListBackends(w)
  \/ \E f \in Ids("frontends") : RenderFrontend(w, f)
  \/ RenderBackends(w) \/ Rendered(w)

Init ==
  /\ db = Start /\ last = Given(Start)
  /\ work = [w \in Workers |-> Idle] /\ edits = 0 /\ begun = 0 /\ raced = FALSE

Next == Edit \/ \E w \in Workers : Work(w)
Spec == Init /\ [][Next]_vars

-----------------------------------------------------------------------------
\* Rows have the shape of their table, refer to rows that exist, and respect the
\* keys: what the schema of db.go promises the store.
TypeOK ==
  /\ Shaped(db, last)
  /\ edits \in 0..MaxEdits /\ begun \in 0..MaxWork /\ raced \in BOOLEAN

\* "A route must either point at a backend or specify a redirect target"
\* (routing.go:123), and a backend in use is not deleted, "rather than silently
\* breaking that route" (handlers_proxy.go:400): a route that leads nowhere needs
\* a reference made between the check and the delete, or a check that failed.
EveryRouteLeads == raced \/ RoutesLead(db)

\* Whatever was edited while the database was read, every backend the rendered
\* text names has a section in it: HAProxy refuses the file otherwise.
RenderedReferencesResolve ==
  \A w \in Workers : work[w].pc = "rendered" => work[w].lines \subseteq Sections(work[w])

\* ACLs and rules have no foreign key, and a form may save one for an owner that
\* has just been deleted: such a row is never taken over by a new frontend or backend.
NewOwnersStartEmpty ==
  [][\A o \in Owners : \A id \in DOMAIN db'[o] \ DOMAIN db[o] :
       \A t \in {"acls", "rules"} : \A i \in DOMAIN db'[t] :
         ~(db'[t][i].scope = o /\ db'[t][i].owner = id)]_vars

\* A move exchanges the rule with its neighbour and leaves the order of all
\* others alone, unless the rules were changed since the move read them.
MoveSwaps ==
  [][\A w \in Workers :
       work[w].pc = "move" /\ work'[w].pc = "idle" /\ ~work[w].disturbed =>
         LET r == db["rules"][work[w].id]
             old == ListRules(db, r.scope, r.owner)
             new == ListRules(db', r.scope, r.owner)
             there == old[work[w].id] + work[w].delta
         IN IF \E j \in DOMAIN old : old[j] = there
            THEN /\ new[work[w].id] = there
                 /\ \A j \in DOMAIN old \ {work[w].id} :
                      new[j] = IF old[j] = there THEN old[work[w].id] ELSE old[j]
            ELSE new = old]_vars

\* set_default_backend rewrites the whole frontend: unless it was edited in
\* between, nothing but its default backend changes.
ToolKeepsFrontend ==
  [][\A w \in Workers, f \in DOMAIN db["frontends"] \cap DOMAIN db'["frontends"] :
       work[w].pc = "tool" /\ work'[w].pc = "idle" /\ ~work[w].disturbed =>
         /\ db'["frontends"][f].name = db["frontends"][f].name
         /\ db'["frontends"][f].enabled = db["frontends"][f].enabled]_vars
=============================================================================
