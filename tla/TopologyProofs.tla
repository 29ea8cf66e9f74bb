--------------------------- MODULE TopologyProofs ---------------------------
(***************************************************************************)
(* What holds of the proxy configuration for any rows at the start, any    *)
(* workers and any bounds: the tables keep the promises of their schema,   *)
(* routes lead somewhere, what is rendered resolves, and ids are never     *)
(* given twice.                                                            *)
(***************************************************************************)
EXTENDS Topology, FiniteSetTheorems, TLAPS

-----------------------------------------------------------------------------
(* The inductive invariant.                                                *)

\* No row of the frontends, or of the domains, names backend b.
FrontendsSpare(d, b) == \A i \in DOMAIN d["frontends"] : d["frontends"][i].default # b
DomainsSpare(d, b) == \A i \in DOMAIN d["domains"] : d["domains"][i].backend # b

Steps == {"idle", "askDomains", "delete", "move", "tool", "backends", "frontends", "rendered"}

\* The operation is the one the worker's tables are watched for.
OpFollows(r) ==
  /\ r.pc \in {"askDomains", "delete"} => r.op = "delete"
  /\ r.pc = "move" => r.op = "move"
  /\ r.pc = "tool" => r.op = "tool"

\* The places of a rule among those of its owner.
Placed(r, d) ==
  /\ r.id \in DOMAIN d["rules"]
  /\ r.places = ListRules(d, d["rules"][r.id].scope, d["rules"][r.id].owner)

\* What a worker has read still holds until it is disturbed.
Current(r, d) ==
  /\ (r.pc = "move" /\ ~r.disturbed) => Placed(r, d)
  /\ (r.pc \in {"askDomains", "delete"} /\ ~r.disturbed) => FrontendsSpare(d, r.id)
  /\ (r.pc = "delete" /\ ~r.disturbed) => DomainsSpare(d, r.id)
  /\ (r.pc = "tool" /\ ~r.disturbed) =>
       r.id \in DOMAIN d["frontends"] /\ r.row = d["frontends"][r.id]

\* What it carries has the shape of what it will write.
Carries(r, n) ==
  /\ r.pc = "tool" =>
       r.row \in Frontend /\ r.id \in 1..n["frontends"] /\ r.other \in 1..n["backends"]
  /\ r.pc = "move" => /\ r.id \in DOMAIN r.places /\ IsFiniteSet(DOMAIN r.places)
                       /\ \A i \in DOMAIN r.places : r.places[i] \in Nat

\* What it has rendered resolves in what it has read.
Resolves(r) ==
  /\ r.pc = "backends" => r.lines = {}
  /\ r.pc \in {"frontends", "rendered"} => r.lines \subseteq Sections(r)

WorkerFine(r, d, n) ==
  /\ DOMAIN r = DOMAIN Idle /\ r.pc \in Steps /\ r.disturbed \in BOOLEAN
  /\ OpFollows(r) /\ Current(r, d) /\ Carries(r, n) /\ Resolves(r)

WorkersFine == DOMAIN work = Workers /\ \A w \in Workers : WorkerFine(work[w], db, last)

IInv == TypeOK /\ OwnersGiven(db, last) /\ EveryRouteLeads /\ WorkersFine

-----------------------------------------------------------------------------
(* The schema, table by table.                                             *)

LEMMA ReferencesAre ==
  ASSUME NEW d, NEW t \in Tables, NEW row
  PROVE  References(d, t, row) <=>
           /\ t = "binds" => row.frontend \in DOMAIN d["frontends"]
           /\ t = "servers" => row.backend \in DOMAIN d["backends"]
           /\ t = "domains" => /\ row.frontend \in DOMAIN d["frontends"]
                               /\ row.backend \in DOMAIN d["backends"] \cup {NULL}
           /\ t = "frontends" => row.default \in DOMAIN d["backends"] \cup {NULL}
BY DEF References, Cascades, SetsNull, Tables

LEMMA KeysSymmetric ==
  ASSUME NEW t, NEW a, NEW b, SameKey(t, a, b)
  PROVE  SameKey(t, b, a)
BY DEF SameKey

\* What ON DELETE SET NULL makes of a row.
LEMMA RowAfterIs ==
  ASSUME NEW c \in Tables, NEW row, NEW t \in Tables, NEW id
  PROVE  RowAfter(c, row, t, id) =
           IF c = "frontends" /\ t = "backends" /\ row.default = id
           THEN [row EXCEPT !.default = NULL]
           ELSE IF c = "domains" /\ t = "backends" /\ row.backend = id
           THEN [row EXCEPT !.backend = NULL] ELSE row
<1> DEFINE Fits(r) == r[1] = c /\ r[3] = t
<1>1. CASE c = "frontends" /\ t = "backends"
  <2>1. (CHOOSE r \in SetsNull : Fits(r)) = <<"frontends", "default", "backends">>
    BY <1>1 DEF SetsNull
  <2>2. (\E r \in SetsNull : Fits(r) /\ row[r[2]] = id) <=> row.default = id
    BY <1>1 DEF SetsNull
  <2> DEFINE key == (CHOOSE r \in SetsNull : Fits(r))
  <2>3. RowAfter(c, row, t, id) =
          IF \E r \in SetsNull : Fits(r) /\ row[r[2]] = id THEN [row EXCEPT ![key[2]] = NULL] ELSE row
    BY Zenon DEF RowAfter
  <2>4. key[2] = "default"
    <3>1. key = <<"frontends", "default", "backends">> BY <2>1, Zenon
    <3> HIDE DEF key
    <3> QED BY <3>1
  <2> HIDE DEF key, Fits
  <2>5. RowAfter(c, row, t, id) = IF row.default = id THEN [row EXCEPT !.default = NULL] ELSE row
    BY <2>2, <2>3, <2>4
  <2> QED BY <1>1, <2>5
<1>2. CASE c = "domains" /\ t = "backends"
  <2>1. (CHOOSE r \in SetsNull : Fits(r)) = <<"domains", "backend", "backends">>
    BY <1>2 DEF SetsNull
  <2>2. (\E r \in SetsNull : Fits(r) /\ row[r[2]] = id) <=> row.backend = id
    BY <1>2 DEF SetsNull
  <2> DEFINE key == (CHOOSE r \in SetsNull : Fits(r))
  <2>3. RowAfter(c, row, t, id) =
          IF \E r \in SetsNull : Fits(r) /\ row[r[2]] = id THEN [row EXCEPT ![key[2]] = NULL] ELSE row
    BY Zenon DEF RowAfter
  <2>4. key[2] = "backend"
    <3>1. key = <<"domains", "backend", "backends">> BY <2>1, Zenon
    <3> HIDE DEF key
    <3> QED BY <3>1
  <2> HIDE DEF key, Fits
  <2>5. RowAfter(c, row, t, id) = IF row.backend = id THEN [row EXCEPT !.backend = NULL] ELSE row
    BY <2>2, <2>3, <2>4
  <2> QED BY <1>2, <2>5
<1>3. CASE ~(c \in {"frontends", "domains"} /\ t = "backends")
  <2>1. ~ \E r \in SetsNull : Fits(r) /\ row[r[2]] = id BY <1>3 DEF SetsNull
  <2>2. RowAfter(c, row, t, id) = row BY <2>1 DEF RowAfter
  <2> QED BY <1>3, <2>2
<1> QED BY <1>1, <1>2, <1>3

-----------------------------------------------------------------------------
(* What a statement leaves.                                                *)

\* Rows that were there, and rows that are row.
Grew(t, id, row) ==
  /\ \A c \in Tables : last'[c] \in Nat /\ last[c] <= last'[c]
  /\ \A c \in Tables \ {t} : db'[c] = db[c]
  /\ \A i \in DOMAIN db'[t] : (i \in DOMAIN db[t] /\ db'[t][i] = db[t][i]) \/ db'[t][i] = row
  /\ \A i \in DOMAIN db[t] \ {id} : i \in DOMAIN db'[t] /\ db'[t][i] = db[t][i]
  /\ \A i \in DOMAIN db'[t] \ DOMAIN db[t] : i = last[t] + 1

LEMMA ShapedRows ==
  ASSUME NEW d, NEW n, Shaped(d, n), NEW t \in Tables
  PROVE  /\ n[t] \in 0..MaxId[t] /\ MaxId[t] \in Nat /\ DOMAIN d[t] \subseteq 1..n[t]
         /\ \A i \in DOMAIN d[t] :
              d[t][i] \in RowsOf(t) /\ References(d, t, d[t][i]) /\ Unique(d, t, i, d[t][i])
BY BoundsAssumption DEF Shaped

\* More rows to refer to, and the same rows otherwise.
LEMMA ReferencesGrow ==
  ASSUME NEW d, NEW e, NEW t \in Tables, NEW row, References(d, t, row),
         \A c \in Tables : DOMAIN d[c] \subseteq DOMAIN e[c]
  PROVE  References(e, t, row)
<1>1. DOMAIN d["frontends"] \subseteq DOMAIN e["frontends"]
      /\ DOMAIN d["backends"] \subseteq DOMAIN e["backends"]
  BY DEF Tables
<1> QED BY <1>1, ReferencesAre

\* A row put in a table that it fits: a new one, or another in the place of one.
LEMMA PutKeeps ==
  ASSUME NEW d, NEW n, NEW e, NEW m, Shaped(d, n), NEW t \in Tables, NEW id, NEW row,
         row \in RowsOf(t), References(d, t, row), Unique(d, t, id, row),
         DOMAIN e = Tables, DOMAIN m = Tables, \A c \in Tables \ {t} : e[c] = d[c],
         DOMAIN e[t] = DOMAIN d[t] \cup {id}, e[t][id] = row,
         \A i \in DOMAIN d[t] \ {id} : e[t][i] = d[t][i],
         \A c \in Tables : m[c] \in 0..MaxId[c] /\ n[c] <= m[c],
         id \in 1..m[t]
  PROVE  Shaped(e, m)
<1>1. \A c \in Tables : DOMAIN d[c] \subseteq DOMAIN e[c]
  OBVIOUS
<1> SUFFICES ASSUME NEW c \in Tables
             PROVE  /\ m[c] \in 0..MaxId[c] /\ DOMAIN e[c] \subseteq 1..m[c]
                    /\ \A i \in DOMAIN e[c] : /\ e[c][i] \in RowsOf(c)
                                              /\ References(e, c, e[c][i])
                                              /\ Unique(e, c, i, e[c][i])
  BY DEF Shaped
<1>2. n[c] \in Nat /\ DOMAIN d[c] \subseteq 1..n[c]
      /\ \A i \in DOMAIN d[c] :
           d[c][i] \in RowsOf(c) /\ References(d, c, d[c][i]) /\ Unique(d, c, i, d[c][i])
  BY ShapedRows
<1>3. m[c] \in 0..MaxId[c] /\ m[c] \in Nat /\ n[c] <= m[c]
  BY BoundsAssumption
<1>4. DOMAIN e[c] \subseteq 1..m[c]
  <2>1. DOMAIN d[c] \subseteq 1..m[c] BY <1>2, <1>3
  <2> QED BY <2>1
<1>5. ASSUME NEW i \in DOMAIN e[c]
      PROVE  e[c][i] \in RowsOf(c) /\ References(e, c, e[c][i]) /\ Unique(e, c, i, e[c][i])
  <2>1. \/ c = t /\ i = id /\ e[c][i] = row
        \/ i \in DOMAIN d[c] /\ e[c][i] = d[c][i] /\ (c = t => i # id)
    OBVIOUS
  <2>2. e[c][i] \in RowsOf(c) /\ References(d, c, e[c][i])
    BY <2>1, <1>2, Zenon
  <2>3. References(e, c, e[c][i])
    BY <2>2, <1>1, ReferencesGrow, Zenon
  <2>4. ASSUME NEW j \in DOMAIN e[c] \ {i} PROVE ~SameKey(c, e[c][j], e[c][i])
    <3>1. \/ c = t /\ j = id /\ e[c][j] = row
          \/ j \in DOMAIN d[c] /\ e[c][j] = d[c][j] /\ (c = t => j # id)
      OBVIOUS
    <3>2. CASE c = t /\ i = id
      BY <3>1, <3>2, <2>1 DEF Unique
    <3>3. CASE c = t /\ j = id /\ i # id
      <4>1. ~SameKey(t, d[t][i], row) BY <3>3, <2>1 DEF Unique
      <4>2. ~SameKey(t, row, d[t][i]) BY <4>1, KeysSymmetric
      <4> QED BY <4>2, <3>3, <2>1
    <3>4. CASE ~(c = t /\ i = id) /\ ~(c = t /\ j = id)
      <4>1. i \in DOMAIN d[c] /\ j \in DOMAIN d[c] \ {i} /\ e[c][i] = d[c][i] /\ e[c][j] = d[c][j]
        BY <3>1, <3>4, <2>1
      <4>2. Unique(d, c, i, d[c][i]) BY <4>1, <1>2
      <4> QED BY <4>1, <4>2 DEF Unique
    <3> QED BY <3>2, <3>3, <3>4
  <2> QED BY <2>2, <2>3, <2>4 DEF Unique
<1> QED BY <1>3, <1>4, <1>5

LEMMA SaveKeeps ==
  ASSUME Shaped(db, last), NEW t \in Tables, NEW id, NEW row,
         References(db, t, row) /\ Unique(db, t, id, row) => row \in RowsOf(t),
         Save(t, id, row)
  PROVE  Shaped(db, last)' /\ Grew(t, id, row)
<1> DEFINE new == NewId(t)
<1>1. DOMAIN db = Tables /\ DOMAIN last = Tables /\ \A c \in Tables : last[c] \in Nat
  BY ShapedRows DEF Shaped
<1>2. CASE UNCHANGED <<db, last>>
  BY <1>1, <1>2 DEF Shaped, Grew
<1>3. CASE /\ References(db, t, row) /\ Unique(db, t, id, row) /\ id = NULL /\ last[t] < MaxId[t]
           /\ db' = [db EXCEPT ![t] = [i \in DOMAIN db[t] \cup {new} |->
                                         IF i = new THEN row ELSE db[t][i]]]
           /\ last' = [last EXCEPT ![t] = @ + 1]
  <2>1. new = last[t] + 1 /\ new \notin DOMAIN db[t] /\ 0 \notin DOMAIN db[t]
    BY <1>1, ShapedRows DEF NewId
  <2> HIDE DEF new
  <2>2. /\ DOMAIN db' = Tables /\ \A c \in Tables \ {t} : db'[c] = db[c]
        /\ DOMAIN db'[t] = DOMAIN db[t] \cup {new} /\ db'[t][new] = row
        /\ \A i \in DOMAIN db[t] \ {new} : db'[t][i] = db[t][i]
    BY <1>1, <1>3, <2>1
  <2>3. \A c \in Tables : last'[c] \in 0..MaxId[c] /\ last[c] <= last'[c]
    BY <1>1, <1>3, ShapedRows, BoundsAssumption
  <2>4. new \in 1..last'[t] /\ row \in RowsOf(t) /\ DOMAIN last' = Tables
    BY <1>1, <1>3, <2>1
  <2>5. References(db, t, row) /\ Unique(db, t, new, row)
    BY <1>3, <2>1 DEF Unique, NULL
  <2> DEFINE e == db' m == last'
  <2> HIDE DEF e, m
  <2>6. Shaped(e, m)
    BY <2>2, <2>3, <2>4, <2>5, PutKeeps DEF e, m
  <2> QED BY <1>1, <2>1, <2>2, <2>3, <2>6, <1>3 DEF Grew, e, m
<1>4. CASE /\ References(db, t, row) /\ Unique(db, t, id, row) /\ id \in DOMAIN db[t]
           /\ db' = [db EXCEPT ![t][id] = row] /\ UNCHANGED last
  <2>1. /\ DOMAIN db' = Tables /\ \A c \in Tables \ {t} : db'[c] = db[c]
        /\ DOMAIN db'[t] = DOMAIN db[t] /\ db'[t][id] = row
        /\ \A i \in DOMAIN db[t] \ {id} : db'[t][i] = db[t][i]
    BY <1>1, <1>4
  <2>2. \A c \in Tables : last'[c] \in 0..MaxId[c] /\ last[c] <= last'[c]
    BY <1>1, <1>4, ShapedRows
  <2>3. id \in 1..last'[t] /\ row \in RowsOf(t) /\ DOMAIN last' = Tables
    BY <1>1, <1>4, ShapedRows
  <2>4. DOMAIN db'[t] = DOMAIN db[t] \cup {id}
    BY <2>1, <1>4
  <2> DEFINE e == db' m == last'
  <2> HIDE DEF e, m
  <2>5. Shaped(e, m)
    BY <1>4, <2>1, <2>2, <2>3, <2>4, PutKeeps, Zenon DEF e, m
  <2> QED BY <1>1, <2>1, <2>2, <2>5, <1>4 DEF Grew, e, m
<1> QED BY <1>2, <1>3, <1>4 DEF Save

LEMMA RowAfterFits ==
  ASSUME NEW c \in Tables, NEW row \in RowsOf(c), NEW t \in Tables, NEW id
  PROVE  /\ RowAfter(c, row, t, id) \in RowsOf(c)
         /\ c \notin {"frontends", "domains"} => RowAfter(c, row, t, id) = row
         /\ c = "frontends" =>
              /\ RowAfter(c, row, t, id).name = row.name
              /\ RowAfter(c, row, t, id).enabled = row.enabled
              /\ RowAfter(c, row, t, id).default =
                   IF t = "backends" /\ row.default = id THEN NULL ELSE row.default
         /\ c = "domains" =>
              /\ RowAfter(c, row, t, id).frontend = row.frontend
              /\ RowAfter(c, row, t, id).redirects = row.redirects
              /\ RowAfter(c, row, t, id).backend =
                   IF t = "backends" /\ row.backend = id THEN NULL ELSE row.backend
<1> DEFINE new == RowAfter(c, row, t, id)
<1>1. CASE c = "frontends"
  <2>1. row \in Frontend /\ RowsOf(c) = Frontend BY <1>1 DEF RowsOf
  <2>2. new = IF t = "backends" /\ row.default = id THEN [row EXCEPT !.default = NULL] ELSE row
    BY <1>1, RowAfterIs
  <2> HIDE DEF new
  <2>3. /\ new \in Frontend /\ new.name = row.name /\ new.enabled = row.enabled
        /\ new.default = IF t = "backends" /\ row.default = id THEN NULL ELSE row.default
    BY <2>1, <2>2 DEF Frontend
  <2> QED BY <1>1, <2>1, <2>3 DEF new
<1>2. CASE c = "domains"
  <2>1. row \in Domain /\ RowsOf(c) = Domain BY <1>2 DEF RowsOf
  <2>2. new = IF t = "backends" /\ row.backend = id THEN [row EXCEPT !.backend = NULL] ELSE row
    BY <1>2, RowAfterIs
  <2> HIDE DEF new
  <2>3. /\ new \in Domain /\ new.frontend = row.frontend /\ new.redirects = row.redirects
        /\ new.backend = IF t = "backends" /\ row.backend = id THEN NULL ELSE row.backend
    BY <2>1, <2>2 DEF Domain
  <2> QED BY <1>2, <2>1, <2>3 DEF new
<1>3. CASE c \notin {"frontends", "domains"}
  <2>1. c # "frontends" /\ c # "domains" BY <1>3
  <2>2. RowAfter(c, row, t, id) = row 
    <3>1. ~ \E r \in SetsNull : r[1] = c /\ r[3] = t /\ row[r[2]] = id BY <2>1 DEF SetsNull
    <3> QED BY <3>1 DEF RowAfter
  <2> HIDE DEF new
  <2> QED BY <2>1, <2>2
<1> QED BY <1>1, <1>2, <1>3

\* The rows a DELETE leaves, and the rows that go with it.
LEMMA WithoutIs ==
  ASSUME NEW t \in Tables, NEW id, NEW more,
         \A c \in Tables \ {"acls", "rules"} : more[c] = {}
  PROVE  LET e == Without(t, id, more) IN
         /\ DOMAIN e = Tables
         /\ \A c \in Tables : /\ DOMAIN e[c] \subseteq DOMAIN db[c]
                              /\ \A i \in DOMAIN e[c] : e[c][i] = RowAfter(c, db[c][i], t, id)
         /\ \A c \in Owners : DOMAIN db[c] \subseteq DOMAIN e[c] \cup {id}
         /\ \A c \in Owners \ {t} : DOMAIN e[c] = DOMAIN db[c]
         /\ \A i \in DOMAIN e[t] : i # id
         /\ t = "frontends" => /\ \A i \in DOMAIN e["binds"] : db["binds"][i].frontend # id
                               /\ \A i \in DOMAIN e["domains"] : db["domains"][i].frontend # id
         /\ t = "backends" => \A i \in DOMAIN e["servers"] : db["servers"][i].backend # id
<1> DEFINE e == Without(t, id, more)
           Gone(c) == more[c] \cup (IF c = t THEN {id} ELSE {})
                      \cup UNION {Refer(r, t, id) : r \in {r \in Cascades : r[1] = c}}
<1>1. e = [c \in Tables |-> [i \in DOMAIN db[c] \ Gone(c) |-> RowAfter(c, db[c][i], t, id)]]
  BY Zenon DEF Without
<1>2. \A c \in Owners : Gone(c) = IF c = t THEN {id} ELSE {}
  <2>1. \A c \in Owners : {r \in Cascades : r[1] = c} = {} BY DEF Cascades, Owners
  <2>2. \A c \in Owners : more[c] = {} BY DEF Owners, Tables
  <2> QED BY <2>1, <2>2
<1>3. t \in Tables => id \in Gone(t)
  OBVIOUS
<1>4. \A r \in Cascades : Refer(r, t, id) \subseteq Gone(r[1])
  OBVIOUS
<1>5. t = "frontends" => /\ Refer(<<"binds", "frontend", "frontends">>, t, id) \subseteq Gone("binds")
                         /\ Refer(<<"domains", "frontend", "frontends">>, t, id) \subseteq Gone("domains")
  BY <1>4 DEF Cascades
<1>6. t = "backends" => Refer(<<"servers", "backend", "backends">>, t, id) \subseteq Gone("servers")
  BY <1>4 DEF Cascades
<1> HIDE DEF Gone, e
<1>7. \A c \in Tables : DOMAIN e[c] = DOMAIN db[c] \ Gone(c)
                        /\ \A i \in DOMAIN e[c] : e[c][i] = RowAfter(c, db[c][i], t, id)
  BY <1>1
<1>8. \A c \in Owners : DOMAIN db[c] \subseteq DOMAIN e[c] \cup {id}
  BY <1>2, <1>7 DEF Owners, Tables
<1>9. \A c \in Owners \ {t} : DOMAIN e[c] = DOMAIN db[c]
  BY <1>2, <1>7 DEF Owners, Tables
<1>10. t = "frontends" => /\ \A i \in DOMAIN e["binds"] : db["binds"][i].frontend # id
                          /\ \A i \in DOMAIN e["domains"] : db["domains"][i].frontend # id
  BY <1>5, <1>7 DEF Refer, Tables
<1>11. t = "backends" => \A i \in DOMAIN e["servers"] : db["servers"][i].backend # id
  BY <1>6, <1>7 DEF Refer, Tables
<1>12. DOMAIN e = Tables BY <1>1
<1>13. \A i \in DOMAIN e[t] : i # id BY <1>3, <1>7
<1> QED BY <1>7, <1>8, <1>9, <1>10, <1>11, <1>12, <1>13 DEF e

\* Rows of one table that are two stay two when they lose a reference.
LEMMA KeysStay ==
  ASSUME NEW c \in Tables, NEW a \in RowsOf(c), NEW b \in RowsOf(c), NEW t \in Tables, NEW id,
         ~SameKey(c, a, b)
  PROVE  ~SameKey(c, RowAfter(c, a, t, id), RowAfter(c, b, t, id))
<1> DEFINE a2 == RowAfter(c, a, t, id) b2 == RowAfter(c, b, t, id)
<1>1. CASE c = "frontends"
  <2>1. a2.name = a.name /\ b2.name = b.name BY <1>1, RowAfterFits
  <2> HIDE DEF a2, b2
  <2> QED BY <1>1, <2>1 DEF SameKey, a2, b2
<1>2. CASE c = "domains"
  BY <1>2 DEF SameKey, Owners
<1>3. CASE c \notin {"frontends", "domains"}
  <2>1. a2 = a /\ b2 = b BY <1>3, RowAfterFits
  <2> QED BY <2>1
<1> QED BY <1>1, <1>2, <1>3

LEMMA WithoutKeeps ==
  ASSUME Shaped(db, last), NEW t \in Tables, NEW id, NEW more,
         \A c \in Tables \ {"acls", "rules"} : more[c] = {}
  PROVE  Shaped(Without(t, id, more), last)
<1> DEFINE e == Without(t, id, more)
<1>1. /\ DOMAIN e = Tables
      /\ \A c \in Tables : /\ DOMAIN e[c] \subseteq DOMAIN db[c]
                           /\ \A i \in DOMAIN e[c] : e[c][i] = RowAfter(c, db[c][i], t, id)
      /\ \A c \in Owners : DOMAIN db[c] \subseteq DOMAIN e[c] \cup {id}
      /\ \A c \in Owners \ {t} : DOMAIN e[c] = DOMAIN db[c]
      /\ \A i \in DOMAIN e[t] : i # id
      /\ t = "frontends" => /\ \A i \in DOMAIN e["binds"] : db["binds"][i].frontend # id
                            /\ \A i \in DOMAIN e["domains"] : db["domains"][i].frontend # id
      /\ t = "backends" => \A i \in DOMAIN e["servers"] : db["servers"][i].backend # id
  BY WithoutIs
<1> HIDE DEF e
<1> SUFFICES ASSUME NEW c \in Tables
             PROVE  /\ last[c] \in 0..MaxId[c] /\ DOMAIN e[c] \subseteq 1..last[c]
                    /\ \A i \in DOMAIN e[c] : /\ e[c][i] \in RowsOf(c)
                                              /\ References(e, c, e[c][i])
                                              /\ Unique(e, c, i, e[c][i])
  BY <1>1 DEF Shaped, e
<1>2. /\ last[c] \in 0..MaxId[c] /\ DOMAIN db[c] \subseteq 1..last[c]
      /\ \A i \in DOMAIN db[c] :
           db[c][i] \in RowsOf(c) /\ References(db, c, db[c][i]) /\ Unique(db, c, i, db[c][i])
  BY ShapedRows
<1>3. ASSUME NEW i \in DOMAIN e[c]
      PROVE  e[c][i] \in RowsOf(c) /\ References(e, c, e[c][i]) /\ Unique(e, c, i, e[c][i])
  <2>1. i \in DOMAIN db[c] /\ e[c][i] = RowAfter(c, db[c][i], t, id)
        /\ db[c][i] \in RowsOf(c) /\ References(db, c, db[c][i])
    BY <1>1, <1>2
  <2>2. e[c][i] \in RowsOf(c) BY <2>1, RowAfterFits
  <2>3. References(e, c, e[c][i])
    <3>1. CASE c = "binds"
      <4>1. e[c][i] = db[c][i] BY <2>1, <3>1, RowAfterFits
      <4>2. db[c][i].frontend \in DOMAIN db["frontends"] BY <2>1, <3>1, ReferencesAre
      <4>3. t = "frontends" => db[c][i].frontend # id BY <1>1, <3>1
      <4>4. db[c][i].frontend \in DOMAIN e["frontends"] BY <4>2, <4>3, <1>1 DEF Owners
      <4> QED BY <3>1, <4>1, <4>4, ReferencesAre
    <3>2. CASE c = "servers"
      <4>1. e[c][i] = db[c][i] BY <2>1, <3>2, RowAfterFits
      <4>2. db[c][i].backend \in DOMAIN db["backends"] BY <2>1, <3>2, ReferencesAre
      <4>3. t = "backends" => db[c][i].backend # id BY <1>1, <3>2
      <4>4. db[c][i].backend \in DOMAIN e["backends"] BY <4>2, <4>3, <1>1 DEF Owners
      <4> QED BY <3>2, <4>1, <4>4, ReferencesAre
    <3>3. CASE c = "domains"
      <4>1. /\ e[c][i].frontend = db[c][i].frontend
            /\ e[c][i].backend = IF t = "backends" /\ db[c][i].backend = id THEN NULL
                                 ELSE db[c][i].backend
        BY <2>1, <3>3, RowAfterFits
      <4>2. /\ db[c][i].frontend \in DOMAIN db["frontends"]
            /\ db[c][i].backend \in DOMAIN db["backends"] \cup {NULL}
        BY <2>1, <3>3, ReferencesAre
      <4>3. t = "frontends" => db[c][i].frontend # id BY <1>1, <3>3
      <4>4. e[c][i].frontend \in DOMAIN e["frontends"] BY <4>1, <4>2, <4>3, <1>1 DEF Owners
      <4>5. e[c][i].backend \in DOMAIN e["backends"] \cup {NULL} BY <4>1, <4>2, <1>1 DEF Owners
      <4> QED BY <3>3, <4>4, <4>5, ReferencesAre
    <3>4. CASE c = "frontends"
      <4>1. e[c][i].default = IF t = "backends" /\ db[c][i].default = id THEN NULL
                              ELSE db[c][i].default
        BY <2>1, <3>4, RowAfterFits
      <4>2. db[c][i].default \in DOMAIN db["backends"] \cup {NULL}
        BY <2>1, <3>4, ReferencesAre
      <4>5. e[c][i].default \in DOMAIN e["backends"] \cup {NULL} BY <4>1, <4>2, <1>1 DEF Owners
      <4> QED BY <3>4, <4>5, ReferencesAre
    <3>5. CASE c \notin {"binds", "servers", "domains", "frontends"}
      BY <3>5, ReferencesAre
    <3> QED BY <3>1, <3>2, <3>3, <3>4, <3>5
  <2>4. ASSUME NEW j \in DOMAIN e[c] \ {i} PROVE ~SameKey(c, e[c][j], e[c][i])
    <3>1. j \in DOMAIN db[c] \ {i} /\ e[c][j] = RowAfter(c, db[c][j], t, id) /\ db[c][j] \in RowsOf(c)
      BY <1>1, <1>2
    <3>2. ~SameKey(c, db[c][j], db[c][i]) BY <3>1, <2>1, <1>2 DEF Unique
    <3> QED BY <2>1, <3>1, <3>2, KeysStay
  <2> QED BY <2>2, <2>3, <2>4 DEF Unique
<1> QED BY <1>1, <1>2, <1>3

-----------------------------------------------------------------------------
(* Workers.                                                                *)

\* An idle worker decides by nothing.
LEMMA IdleFine ==
  ASSUME NEW r, NEW d, NEW n, DOMAIN r = DOMAIN Idle, r.pc = "idle", r.disturbed \in BOOLEAN
  PROVE  WorkerFine(r, d, n)
BY DEF WorkerFine, Steps, OpFollows, Current, Carries, Resolves

\* The one flag of the record that a change of the tables sets.
LEMMA DisturbIs ==
  ASSUME NEW r, DOMAIN r = DOMAIN Idle, r.disturbed \in BOOLEAN
  PROVE  LET s == Disturb(r) IN
         /\ DOMAIN s = DOMAIN Idle /\ s.disturbed \in BOOLEAN
         /\ s.pc = r.pc /\ s.op = r.op /\ s.id = r.id /\ s.other = r.other /\ s.row = r.row
         /\ s.places = r.places /\ s.read = r.read /\ s.lines = r.lines
         /\ ~s.disturbed => ~r.disturbed /\ \A t \in Watched(r.op) : db'[t] = db[t]
<1> DEFINE b == r.disturbed \/ \E t \in Watched(r.op) : db'[t] # db[t]
           s == Disturb(r)
<1>1. s = [r EXCEPT !.disturbed = b] BY Zenon DEF Disturb
<1>2. b \in BOOLEAN OBVIOUS
<1>3. ~b => ~r.disturbed /\ \A t \in Watched(r.op) : db'[t] = db[t] OBVIOUS
<1> HIDE DEF b, s
<1>4. /\ DOMAIN s = DOMAIN Idle /\ s.disturbed = b
      /\ s.pc = r.pc /\ s.op = r.op /\ s.id = r.id /\ s.other = r.other /\ s.row = r.row
      /\ s.places = r.places /\ s.read = r.read /\ s.lines = r.lines
  BY <1>1, Zenon DEF Idle
<1> QED BY <1>2, <1>3, <1>4 DEF s

\* The order of the rules is a matter of their table.
LEMMA RulesAlone ==
  ASSUME NEW d, NEW e, e["rules"] = d["rules"], NEW o, NEW k
  PROVE  ListRules(e, o, k) = ListRules(d, o, k)
BY DEF ListRules, RulesOf, Before

\* Whoever decides by what has changed is disturbed, and nobody else need care.
LEMMA DisturbFine ==
  ASSUME NEW r, WorkerFine(r, db, last),
         \A c \in Tables : last[c] \in Nat /\ last'[c] \in Nat /\ last[c] <= last'[c]
  PROVE  WorkerFine(Disturb(r), db', last')
<1> DEFINE s == Disturb(r)
<1>1. DOMAIN r = DOMAIN Idle /\ r.disturbed \in BOOLEAN /\ r.pc \in Steps
      /\ OpFollows(r) /\ Current(r, db) /\ Carries(r, last) /\ Resolves(r)
  BY DEF WorkerFine
<1>2. /\ DOMAIN s = DOMAIN Idle /\ s.disturbed \in BOOLEAN
      /\ s.pc = r.pc /\ s.op = r.op /\ s.id = r.id /\ s.other = r.other /\ s.row = r.row
      /\ s.places = r.places /\ s.read = r.read /\ s.lines = r.lines
      /\ ~s.disturbed => ~r.disturbed /\ \A t \in Watched(r.op) : db'[t] = db[t]
  BY <1>1, DisturbIs
<1> HIDE DEF s
<1>3. OpFollows(s) /\ Resolves(s) BY <1>1, <1>2 DEF OpFollows, Resolves, Sections
<1>4. Carries(s, last')
  <2>1. r.pc = "tool" => s.id \in 1..last'["frontends"] /\ s.other \in 1..last'["backends"]
    BY <1>1, <1>2 DEF Carries, Tables
  <2> QED BY <1>1, <1>2, <2>1 DEF Carries
<1>5. Current(s, db')
  <2>1. CASE s.disturbed BY <2>1 DEF Current
  <2>2. CASE r.pc \in {"askDomains", "delete"} /\ ~s.disturbed
    <3>1. db'["frontends"] = db["frontends"] /\ db'["domains"] = db["domains"]
      BY <2>2, <1>1, <1>2 DEF OpFollows, Watched
    <3> QED BY <2>2, <3>1, <1>1, <1>2 DEF Current, FrontendsSpare, DomainsSpare
  <2>3. CASE r.pc = "tool" /\ ~s.disturbed
    <3>1. db'["frontends"] = db["frontends"]
      BY <2>3, <1>1, <1>2 DEF OpFollows, Watched
    <3> QED BY <2>3, <3>1, <1>1, <1>2 DEF Current
  <2>4. CASE r.pc = "move" /\ ~s.disturbed
    <3>1. db'["rules"] = db["rules"]
      BY <2>4, <1>1, <1>2 DEF OpFollows, Watched
    <3>2. Placed(r, db) BY <2>4, <1>1, <1>2 DEF Current
    <3> DEFINE o == db["rules"][r.id].scope
               k == db["rules"][r.id].owner
    <3>3. ListRules(db', o, k) = ListRules(db, o, k) BY <3>1, RulesAlone
    <3>4. Placed(s, db') BY <3>1, <3>2, <3>3, <1>2 DEF Placed
    <3> QED BY <2>4, <3>4, <1>2 DEF Current
  <2>5. CASE r.pc \notin {"askDomains", "delete", "tool", "move"} BY <2>5, <1>2 DEF Current
  <2> QED BY <2>1, <2>2, <2>3, <2>4, <2>5, <1>2
<1>6. WorkerFine(s, db', last')
  BY <1>1, <1>2, <1>3, <1>4, <1>5 DEF WorkerFine
<1> QED BY <1>6 DEF s

\* After a change of the tables: one worker is done, the others are disturbed.
LEMMA OthersFine ==
  ASSUME WorkersFine, DOMAIN work' = Workers,
         \A c \in Tables : last[c] \in Nat /\ last'[c] \in Nat /\ last[c] <= last'[c],
         \A g \in Workers : \/ work'[g] = Idle
                            \/ work[g].pc = "idle" /\ work'[g] = work[g]
                            \/ work'[g] = Disturb(work[g])
  PROVE  WorkersFine'
<1> SUFFICES ASSUME NEW g \in Workers PROVE WorkerFine(work'[g], db', last')
  BY DEF WorkersFine
<1>1. WorkerFine(work[g], db, last) BY DEF WorkersFine
<1>2. CASE work'[g] = Idle
  <2>1. Idle.pc = "idle" /\ Idle.disturbed \in BOOLEAN BY DEF Idle
  <2> QED BY <1>2, <2>1, IdleFine
<1>3. CASE work[g].pc = "idle" /\ work'[g] = work[g]
  BY <1>1, <1>3, IdleFine DEF WorkerFine
<1>4. CASE work'[g] = Disturb(work[g])
  BY <1>1, <1>4, DisturbFine
<1> QED BY <1>2, <1>3, <1>4

-----------------------------------------------------------------------------
(* The statements of the store.                                            *)

\* A new frontend or backend has no ACLs and rules yet.
OwnersStartEmpty ==
  \A o \in Owners : \A id \in DOMAIN db'[o] \ DOMAIN db[o] :
    \A t \in {"acls", "rules"} : \A i \in DOMAIN db'[t] :
      ~(db'[t][i].scope = o /\ db'[t][i].owner = id)

\* What every statement leaves of the tables, whoever runs it.
Kept ==
  /\ Shaped(db, last)' /\ OwnersGiven(db, last)' /\ OwnersStartEmpty
  /\ \A c \in Tables : last[c] \in Nat /\ last'[c] \in Nat /\ last[c] <= last'[c]

LEMMA KnownIsId ==
  ASSUME Shaped(db, last), NEW t \in Tables
  PROVE  Known(t) \subseteq Ids(t) /\ Known(t) = 1..last[t] /\ last[t] \in Nat
BY ShapedRows DEF Known, Ids

LEMMA SaveOwned ==
  ASSUME Shaped(db, last), OwnersGiven(db, last), NEW t \in Tables, NEW id, NEW row \in RowsOf(t),
         t \in {"acls", "rules"} => row.owner \in 1..last[row.scope],
         Save(t, id, row)
  PROVE  Kept /\ Grew(t, id, row)
<1>1. Shaped(db, last)' /\ Grew(t, id, row) BY SaveKeeps
<1>2. \A c \in Tables : last[c] \in Nat /\ last'[c] \in Nat /\ last[c] <= last'[c]
  BY <1>1, ShapedRows DEF Grew
<1>3. OwnersGiven(db, last)'
  <2> SUFFICES ASSUME NEW c \in {"acls", "rules"}, NEW i \in DOMAIN db'[c]
               PROVE  db'[c][i].owner \in 1..last'[db'[c][i].scope]
    BY DEF OwnersGiven
  <2> DEFINE now == db'[c][i]
  <2>1. \/ i \in DOMAIN db[c] /\ now = db[c][i]
        \/ c = t /\ now = row
    BY <1>1 DEF Grew, Tables
  <2>2. now \in RowsOf(c)
    BY <2>1, ShapedRows DEF Tables
  <2>3. now.owner \in 1..last[now.scope]
    BY <2>1 DEF OwnersGiven
  <2> HIDE DEF now
  <2>4. now.scope \in Tables
    BY <2>2 DEF RowsOf, Acl, Rule, Owners, Tables
  <2>5. now.owner \in 1..last'[now.scope]
    BY <2>3, <2>4, <1>2
  <2> QED BY <2>5 DEF now
<1>4. OwnersStartEmpty
  <2> SUFFICES ASSUME NEW o \in Owners, NEW k \in DOMAIN db'[o] \ DOMAIN db[o],
                      NEW c \in {"acls", "rules"}, NEW i \in DOMAIN db'[c],
                      db'[c][i].scope = o
               PROVE  db'[c][i].owner # k
    BY DEF OwnersStartEmpty
  <2>1. o = t BY <1>1 DEF Grew, Owners, Tables
  <2>2. k = last[o] + 1 BY <2>1, <1>1 DEF Grew
  <2>3. db'[c] = db[c] BY <2>1, <1>1 DEF Grew, Owners, Tables
  <2>4. db'[c][i].owner \in 1..last[o] BY <2>3 DEF OwnersGiven
  <2>5. last[o] \in Nat BY <1>2 DEF Owners, Tables
  <2> QED BY <2>2, <2>4, <2>5
<1> QED BY <1>1, <1>2, <1>3, <1>4 DEF Kept

LEMMA FrontendSaved ==
  ASSUME Shaped(db, last), OwnersGiven(db, last), RoutesLead(db) \/ raced, NEW id,
         NEW row \in Frontend, SaveFrontend(id, row)
  PROVE  Kept /\ (RoutesLead(db') \/ raced) /\ Grew("frontends", id, row)
<1>1. Kept /\ Grew("frontends", id, row)
  BY SaveOwned DEF SaveFrontend, RowsOf, Tables
<1>2. db'["domains"] = db["domains"] BY <1>1 DEF Grew, Tables
<1> QED BY <1>1, <1>2 DEF RoutesLead

LEMMA BackendSaved ==
  ASSUME Shaped(db, last), OwnersGiven(db, last), RoutesLead(db) \/ raced, NEW id,
         NEW row \in Backend, SaveBackend(id, row)
  PROVE  Kept /\ (RoutesLead(db') \/ raced)
<1>1. Kept /\ Grew("backends", id, row)
  BY SaveOwned DEF SaveBackend, RowsOf, Tables
<1>2. db'["domains"] = db["domains"] BY <1>1 DEF Grew, Tables
<1> QED BY <1>1, <1>2 DEF RoutesLead

LEMMA BindSaved ==
  ASSUME Shaped(db, last), OwnersGiven(db, last), RoutesLead(db) \/ raced, NEW id,
         NEW row \in Bind, SaveBind(id, row)
  PROVE  Kept /\ (RoutesLead(db') \/ raced) /\ db'["frontends"] = db["frontends"]
<1>1. Kept /\ Grew("binds", id, row)
  BY SaveOwned DEF SaveBind, RowsOf, Tables
<1>2. db'["domains"] = db["domains"] /\ db'["frontends"] = db["frontends"]
  BY <1>1 DEF Grew, Tables
<1> QED BY <1>1, <1>2 DEF RoutesLead

LEMMA ServerSaved ==
  ASSUME Shaped(db, last), OwnersGiven(db, last), RoutesLead(db) \/ raced, NEW id,
         NEW row \in ServerRow, SaveServer(id, row)
  PROVE  Kept /\ (RoutesLead(db') \/ raced) /\ db'["frontends"] = db["frontends"]
<1>1. Kept /\ Grew("servers", id, row)
  BY SaveOwned DEF SaveServer, RowsOf, Tables
<1>2. db'["domains"] = db["domains"] /\ db'["frontends"] = db["frontends"]
  BY <1>1 DEF Grew, Tables
<1> QED BY <1>1, <1>2 DEF RoutesLead

\* A route that leads nowhere is refused before it is written.
LEMMA DomainSaved ==
  ASSUME Shaped(db, last), OwnersGiven(db, last), RoutesLead(db) \/ raced, NEW id,
         NEW row \in Domain, SaveDomain(id, row)
  PROVE  Kept /\ (RoutesLead(db') \/ raced) /\ db'["frontends"] = db["frontends"]
<1>1. CASE row.backend = NULL /\ ~row.redirects
  <2>1. UNCHANGED <<db, last>> BY <1>1 DEF SaveDomain
  <2>2. \A c \in Tables : last[c] \in Nat BY ShapedRows
  <2> QED BY <2>1, <2>2 DEF Kept, OwnersStartEmpty
<1>2. CASE ~(row.backend = NULL /\ ~row.redirects)
  <2>1. Kept /\ Grew("domains", id, row)
    BY <1>2, SaveOwned DEF SaveDomain, RowsOf, Tables
  <2>2. \A i \in DOMAIN db'["domains"] :
          \/ i \in DOMAIN db["domains"] /\ db'["domains"][i] = db["domains"][i]
          \/ db'["domains"][i] = row
    BY <2>1 DEF Grew
  <2>3. db'["frontends"] = db["frontends"] BY <2>1 DEF Grew, Tables
  <2> QED BY <1>2, <2>1, <2>2, <2>3 DEF RoutesLead
<1> QED BY <1>1, <1>2

\* An UPDATE leaves the owner alone.
LEMMA ACLSaved ==
  ASSUME Shaped(db, last), OwnersGiven(db, last), RoutesLead(db) \/ raced, NEW id,
         NEW row \in Acl, row.owner \in 1..last[row.scope], SaveACL(id, row)
  PROVE  Kept /\ (RoutesLead(db') \/ raced) /\ db'["frontends"] = db["frontends"]
<1> DEFINE put == IF id \in DOMAIN db["acls"] THEN db["acls"][id] ELSE row
<1>1. put \in Acl /\ put.owner \in 1..last[put.scope]
  BY ShapedRows DEF OwnersGiven, RowsOf, Tables
<1>2. Save("acls", id, put) BY DEF SaveACL
<1> HIDE DEF put
<1>3. Kept /\ Grew("acls", id, put)
  BY <1>1, <1>2, SaveOwned DEF RowsOf, Tables
<1>4. db'["domains"] = db["domains"] /\ db'["frontends"] = db["frontends"]
  BY <1>3 DEF Grew, Tables
<1> QED BY <1>3, <1>4 DEF RoutesLead

LEMMA RuleSaved ==
  ASSUME Shaped(db, last), OwnersGiven(db, last), RoutesLead(db) \/ raced, NEW id,
         NEW row \in Rule, row.owner \in 1..last[row.scope], SaveRule(id, row)
  PROVE  Kept /\ (RoutesLead(db') \/ raced) /\ db'["frontends"] = db["frontends"]
<1> DEFINE put == IF id \in DOMAIN db["rules"] THEN [db["rules"][id] EXCEPT !.order = row.order]
                  ELSE row
<1>1. put \in Rule /\ put.owner \in 1..last[put.scope]
  <2>1. CASE id \in DOMAIN db["rules"]
    <3> DEFINE old == db["rules"][id]
    <3>1. old \in Rule /\ old.owner \in 1..last[old.scope]
      BY <2>1, ShapedRows DEF OwnersGiven, RowsOf, Tables
    <3>2. put = [old EXCEPT !.order = row.order] BY <2>1
    <3>3. row.order \in Nat BY DEF Rule
    <3> HIDE DEF put, old
    <3>4. put \in Rule /\ put.owner = old.owner /\ put.scope = old.scope
      BY <3>1, <3>2, <3>3 DEF Rule
    <3> QED BY <3>1, <3>4
  <2>2. CASE id \notin DOMAIN db["rules"] BY <2>2
  <2> QED BY <2>1, <2>2
<1>2. Save("rules", id, put) BY DEF SaveRule
<1> HIDE DEF put
<1>3. Kept /\ Grew("rules", id, put)
  BY <1>1, <1>2, SaveOwned DEF RowsOf, Tables
<1>4. db'["domains"] = db["domains"] /\ db'["frontends"] = db["frontends"]
  BY <1>3 DEF Grew, Tables
<1> QED BY <1>3, <1>4 DEF RoutesLead

LEMMA DeleteKeeps ==
  ASSUME Shaped(db, last), OwnersGiven(db, last), NEW t \in Tables, NEW id, NEW more,
         \A c \in Tables \ {"acls", "rules"} : more[c] = {},
         db' = Without(t, id, more), UNCHANGED last
  PROVE  /\ Kept
         /\ ((t # "backends" \/ DomainsSpare(db, id)) /\ RoutesLead(db)) => RoutesLead(db')
         /\ \A o \in Owners : DOMAIN db'[o] \subseteq DOMAIN db[o]
         /\ \A i \in DOMAIN db'["frontends"] :
              /\ db'["frontends"][i].name = db["frontends"][i].name
              /\ db'["frontends"][i].enabled = db["frontends"][i].enabled
<1>1. \A c \in Tables : /\ DOMAIN db'[c] \subseteq DOMAIN db[c]
                        /\ \A i \in DOMAIN db'[c] : db'[c][i] = RowAfter(c, db[c][i], t, id)
  BY WithoutIs
<1>2. Shaped(db, last)'
  BY WithoutKeeps
<1>3. \A c \in Tables : \A i \in DOMAIN db[c] : db[c][i] \in RowsOf(c)
  BY ShapedRows
<1>4. \A c \in {"acls", "rules"} : \A i \in DOMAIN db'[c] : db'[c][i] = db[c][i]
  BY <1>1, <1>3, RowAfterFits DEF Tables
<1>5. OwnersGiven(db, last)'
  <2>1. \A c \in {"acls", "rules"} : DOMAIN db'[c] \subseteq DOMAIN db[c] BY <1>1 DEF Tables
  <2> QED BY <1>4, <2>1 DEF OwnersGiven
<1>6. \A c \in Tables : last[c] \in Nat /\ last'[c] \in Nat /\ last[c] <= last'[c]
  BY ShapedRows
<1>7. ASSUME t # "backends" \/ DomainsSpare(db, id), RoutesLead(db) PROVE RoutesLead(db')
  <2> SUFFICES ASSUME NEW i \in DOMAIN db'["domains"]
               PROVE  db'["domains"][i].backend # NULL \/ db'["domains"][i].redirects
    BY DEF RoutesLead
  <2>1. i \in DOMAIN db["domains"] /\ db'["domains"][i] = RowAfter("domains", db["domains"][i], t, id)
        /\ db["domains"][i] \in RowsOf("domains")
    BY <1>1, <1>3 DEF Tables
  <2>2. /\ db'["domains"][i].redirects = db["domains"][i].redirects
        /\ db'["domains"][i].backend = IF t = "backends" /\ db["domains"][i].backend = id THEN NULL
                                       ELSE db["domains"][i].backend
    BY <2>1, RowAfterFits DEF Tables
  <2>3. db'["domains"][i].backend = db["domains"][i].backend
    BY <1>7, <2>1, <2>2 DEF DomainsSpare
  <2> QED BY <1>7, <2>1, <2>2, <2>3 DEF RoutesLead
<1>8. ASSUME NEW i \in DOMAIN db'["frontends"]
      PROVE  /\ db'["frontends"][i].name = db["frontends"][i].name
             /\ db'["frontends"][i].enabled = db["frontends"][i].enabled
  <2>1. /\ db'["frontends"][i] = RowAfter("frontends", db["frontends"][i], t, id)
        /\ db["frontends"][i] \in RowsOf("frontends")
    BY <1>1, <1>3 DEF Tables
  <2> QED BY <2>1, RowAfterFits DEF Tables
<1>9. \A o \in Owners : DOMAIN db'[o] \subseteq DOMAIN db[o]
  BY <1>1 DEF Owners, Tables
<1> QED BY <1>2, <1>5, <1>6, <1>7, <1>8, <1>9 DEF Kept, OwnersStartEmpty

LEMMA FrontendDeleted ==
  ASSUME Shaped(db, last), OwnersGiven(db, last), RoutesLead(db) \/ raced, NEW id,
         DeleteFrontend(id)
  PROVE  /\ Kept /\ (RoutesLead(db') \/ raced)
         /\ \A o \in Owners : DOMAIN db'[o] \subseteq DOMAIN db[o]
         /\ \A i \in DOMAIN db'["frontends"] :
              /\ db'["frontends"][i].name = db["frontends"][i].name
              /\ db'["frontends"][i].enabled = db["frontends"][i].enabled
<1> DEFINE owned == [c \in Tables |-> Owned(c, "frontends", id)]
<1>1. db' = Without("frontends", id, owned) /\ UNCHANGED last BY DEF DeleteFrontend
<1>2. \A c \in Tables \ {"acls", "rules"} : owned[c] = {} BY DEF Owned
<1>3. "frontends" \in Tables /\ "frontends" # "backends" BY DEF Tables
<1> HIDE DEF owned
<1> QED BY <1>1, <1>2, <1>3, DeleteKeeps

LEMMA BackendDeleted ==
  ASSUME Shaped(db, last), OwnersGiven(db, last), NEW id, DeleteBackend(id)
  PROVE  /\ Kept
         /\ (DomainsSpare(db, id) /\ RoutesLead(db)) => RoutesLead(db')
         /\ \A o \in Owners : DOMAIN db'[o] \subseteq DOMAIN db[o]
<1> DEFINE owned == [c \in Tables |-> Owned(c, "backends", id)]
<1>1. db' = Without("backends", id, owned) /\ UNCHANGED last BY DEF DeleteBackend
<1>2. \A c \in Tables \ {"acls", "rules"} : owned[c] = {} BY DEF Owned
<1>3. "backends" \in Tables BY DEF Tables
<1> HIDE DEF owned
<1> QED BY <1>1, <1>2, <1>3, DeleteKeeps

LEMMA RowDeleted ==
  ASSUME Shaped(db, last), OwnersGiven(db, last), RoutesLead(db) \/ raced, NEW id,
         NEW t \in Tables \ Owners, DeleteRow(t, id)
  PROVE  /\ Kept /\ (RoutesLead(db') \/ raced)
         /\ \A o \in Owners : DOMAIN db'[o] \subseteq DOMAIN db[o]
<1>1. db' = Without(t, id, Nothing) /\ UNCHANGED last BY DEF DeleteRow
<1>2. \A c \in Tables \ {"acls", "rules"} : Nothing[c] = {} BY DEF Nothing
<1>3. t # "backends" BY DEF Owners
<1> QED BY <1>1, <1>2, <1>3, DeleteKeeps

-----------------------------------------------------------------------------
(* The forms.                                                              *)

\* Whatever a page asks for has the shape of its table.
LEMMA FormsFit ==
  ASSUME Shaped(db, last)
  PROVE  /\ FrontendForm \subseteq Frontend /\ BackendForm \subseteq Backend
         /\ BindForm \subseteq Bind /\ ServerForm \subseteq ServerRow
         /\ DomainForm \subseteq Domain
         /\ \A f \in OwnerForm : f \in Acl /\ f.owner \in 1..last[f.scope]
         /\ \A f \in RuleForm : f \in Rule /\ f.owner \in 1..last[f.scope]
<1>1. /\ Known("frontends") \subseteq Ids("frontends") /\ Known("frontends") = 1..last["frontends"]
      /\ Known("backends") \subseteq Ids("backends") /\ Known("backends") = 1..last["backends"]
  BY KnownIsId DEF Tables
<1>2. FrontendForm \subseteq Frontend BY <1>1 DEF FrontendForm, Frontend
<1>3. BackendForm \subseteq Backend BY DEF BackendForm, Backend
<1>4. BindForm \subseteq Bind BY <1>1 DEF BindForm, Bind
<1>5. ServerForm \subseteq ServerRow BY <1>1 DEF ServerForm, ServerRow
<1>6. DomainForm \subseteq Domain BY <1>1 DEF DomainForm, Domain
<1>7. ASSUME NEW f \in OwnerForm PROVE f \in Acl /\ f.owner \in 1..last[f.scope]
  <2>1. \/ f \in [scope : {"frontends"}, owner : Known("frontends")]
        \/ f \in [scope : {"backends"}, owner : Known("backends")]
    BY <1>7 DEF OwnerForm, Owners
  <2>2. CASE f \in [scope : {"frontends"}, owner : Known("frontends")]
    BY <2>2, <1>1 DEF Acl, Owners
  <2>3. CASE f \in [scope : {"backends"}, owner : Known("backends")]
    BY <2>3, <1>1 DEF Acl, Owners
  <2> QED BY <2>1, <2>2, <2>3
<1>8. ASSUME NEW f \in RuleForm PROVE f \in Rule /\ f.owner \in 1..last[f.scope]
  <2>1. \/ f \in [scope : {"frontends"}, owner : Known("frontends"), order : {0, 1}]
        \/ f \in [scope : {"backends"}, owner : Known("backends"), order : {0, 1}]
    BY <1>8 DEF RuleForm, Owners
  <2>2. CASE f \in [scope : {"frontends"}, owner : Known("frontends"), order : {0, 1}]
    <3>1. f \in [scope : {"frontends"}, owner : Known("frontends"), order : Nat]
      BY <2>2, {0, 1} \subseteq Nat
    <3> QED BY <3>1, <1>1 DEF Rule, Owners
  <2>3. CASE f \in [scope : {"backends"}, owner : Known("backends"), order : {0, 1}]
    <3>1. f \in [scope : {"backends"}, owner : Known("backends"), order : Nat]
      BY <2>3, {0, 1} \subseteq Nat
    <3> QED BY <3>1, <1>1 DEF Rule, Owners
  <2> QED BY <2>1, <2>2, <2>3
<1> QED BY <1>2, <1>3, <1>4, <1>5, <1>6, <1>7, <1>8

LEMMA FormsKeep ==
  ASSUME Shaped(db, last), OwnersGiven(db, last), RoutesLead(db) \/ raced,
         \/ HandleFrontendSave \/ HandleBackendSave \/ HandleBindSave \/ HandleServerSave
         \/ HandleDomainSave \/ HandleACLSave \/ HandleRuleSave
         \/ HandleFrontendDelete \/ HandleBindDelete \/ HandleServerDelete
         \/ HandleDomainDelete \/ HandleACLDelete \/ HandleRuleDelete
         \/ ToolCreateBackend
  PROVE  Kept /\ (RoutesLead(db') \/ raced)
<1>1. CASE HandleFrontendSave
  <2>1. PICK id \in Known("frontends") \cup {NULL}, f \in Frontend : SaveFrontend(id, f)
    BY <1>1, FormsFit DEF HandleFrontendSave
  <2> QED BY <2>1, FrontendSaved
<1>2. CASE HandleBackendSave
  <2>1. PICK id \in Known("backends") \cup {NULL}, f \in Backend : SaveBackend(id, f)
    BY <1>2, FormsFit DEF HandleBackendSave
  <2> QED BY <2>1, BackendSaved
<1>3. CASE HandleBindSave
  <2>1. PICK id \in Known("binds") \cup {NULL}, f \in Bind : SaveBind(id, f)
    BY <1>3, FormsFit DEF HandleBindSave
  <2> QED BY <2>1, BindSaved
<1>4. CASE HandleServerSave
  <2>1. PICK id \in Known("servers") \cup {NULL}, f \in ServerRow : SaveServer(id, f)
    BY <1>4, FormsFit DEF HandleServerSave
  <2> QED BY <2>1, ServerSaved
<1>5. CASE HandleDomainSave
  <2>1. PICK id \in Known("domains") \cup {NULL}, f \in Domain : SaveDomain(id, f)
    BY <1>5, FormsFit DEF HandleDomainSave
  <2> QED BY <2>1, DomainSaved
<1>6. CASE HandleACLSave
  <2>1. PICK id \in Known("acls") \cup {NULL}, f \in OwnerForm : SaveACL(id, f)
    BY <1>6 DEF HandleACLSave
  <2>2. f \in Acl /\ f.owner \in 1..last[f.scope] BY FormsFit
  <2> QED BY <2>1, <2>2, ACLSaved
<1>7. CASE HandleRuleSave
  <2>1. PICK id \in Known("rules") \cup {NULL}, f \in RuleForm : SaveRule(id, f)
    BY <1>7 DEF HandleRuleSave
  <2>2. f \in Rule /\ f.owner \in 1..last[f.scope] BY FormsFit
  <2> QED BY <2>1, <2>2, RuleSaved
<1>8. CASE HandleFrontendDelete
  <2>1. PICK id : DeleteFrontend(id) BY <1>8 DEF HandleFrontendDelete
  <2> QED BY <2>1, FrontendDeleted
<1>9. CASE \/ HandleBindDelete \/ HandleServerDelete
           \/ HandleDomainDelete \/ HandleACLDelete \/ HandleRuleDelete
  <2>1. PICK t \in Tables \ Owners : \E id \in DOMAIN db[t] : DeleteRow(t, id)
    BY <1>9 DEF HandleBindDelete, HandleServerDelete, HandleDomainDelete, HandleACLDelete,
                HandleRuleDelete, Tables, Owners
  <2> QED BY <2>1, RowDeleted
<1>10. CASE ToolCreateBackend
  <2>1. PICK n \in Names : SaveBackend(NULL, [name |-> n, enabled |-> TRUE])
    BY <1>10 DEF ToolCreateBackend
  <2>2. [name |-> n, enabled |-> TRUE] \in Backend BY DEF Backend
  <2> QED BY <2>1, <2>2, BackendSaved
<1> QED BY <1>1, <1>2, <1>3, <1>4, <1>5, <1>6, <1>7, <1>8, <1>9, <1>10

-----------------------------------------------------------------------------
(* Steps.                                                                  *)

\* A tool that ends undisturbed has kept the names and switches of frontends.
ToolsKeep ==
  \A w \in Workers, f \in DOMAIN db["frontends"] \cap DOMAIN db'["frontends"] :
    work[w].pc = "tool" /\ work'[w].pc = "idle" /\ ~work[w].disturbed =>
      /\ db'["frontends"][f].name = db["frontends"][f].name
      /\ db'["frontends"][f].enabled = db["frontends"][f].enabled

\* What a step keeps: the invariant, and what it may never do.
Held == IInv' /\ OwnersStartEmpty /\ ToolsKeep

LEMMA EditHeld ==
  ASSUME IInv, Edit
  PROVE  Held
<1>1. Shaped(db, last) /\ OwnersGiven(db, last) /\ (RoutesLead(db) \/ raced) /\ WorkersFine
  BY DEF IInv, TypeOK, EveryRouteLeads
<1>2. Kept /\ (RoutesLead(db') \/ raced)
  BY <1>1, FormsKeep DEF Edit
<1>3. edits' \in 0..MaxEdits /\ begun' \in 0..MaxWork /\ raced' \in BOOLEAN /\ raced' = raced
  BY BoundsAssumption DEF IInv, TypeOK, Edit
<1>4. DOMAIN work' = Workers
      /\ \A g \in Workers : work'[g] = IF work[g].pc = "idle" THEN work[g] ELSE Disturb(work[g])
  BY DEF Edit
<1>5. WorkersFine'
  BY <1>1, <1>2, <1>4, OthersFine DEF Kept
<1>6. IInv'
  BY <1>2, <1>3, <1>5 DEF IInv, TypeOK, EveryRouteLeads, Kept
<1>7. ToolsKeep
  <2>1. ASSUME NEW w \in Workers, work[w].pc = "tool" PROVE work'[w].pc = "tool"
    <3>1. work'[w] = Disturb(work[w]) BY <2>1, <1>4
    <3>2. DOMAIN work[w] = DOMAIN Idle /\ work[w].disturbed \in BOOLEAN
      BY <1>1 DEF WorkersFine, WorkerFine
    <3> QED BY <3>1, <3>2, <2>1, DisturbIs
  <2> QED BY <2>1 DEF ToolsKeep
<1> QED BY <1>2, <1>6, <1>7 DEF Held, Kept

LEMMA StillHeld ==
  ASSUME IInv, UNCHANGED <<db, last, raced>>, edits' \in 0..MaxEdits, begun' \in 0..MaxWork, WorkersFine'
  PROVE  Held
<1>1. OwnersStartEmpty /\ ToolsKeep BY DEF OwnersStartEmpty, ToolsKeep
<1>2. Shaped(db, last)' /\ OwnersGiven(db, last)' /\ (raced' \/ RoutesLead(db'))
  BY DEF IInv, TypeOK, EveryRouteLeads
<1> QED BY <1>1, <1>2 DEF Held, IInv, TypeOK, EveryRouteLeads

LEMMA OneFine ==
  ASSUME WorkersFine, UNCHANGED <<db, last>>, NEW w \in Workers, NEW r, WorkerFine(r, db, last),
         work' = [work EXCEPT ![w] = r]
  PROVE  WorkersFine'
<1>1. DOMAIN work' = Workers /\ \A g \in Workers : work'[g] = IF g = w THEN r ELSE work[g]
  BY DEF WorkersFine
<1>2. \A g \in Workers : WorkerFine(work'[g], db', last')
  BY <1>1 DEF WorkersFine
<1> QED BY <1>1, <1>2 DEF WorkersFine

LEMMA ReadHeld ==
  ASSUME IInv, NEW w \in Workers, NEW r, WorkerFine(r, db, last), Read(w, r)
  PROVE  Held
<1>1. WorkersFine' BY OneFine DEF Read, IInv
<1>2. edits' \in 0..MaxEdits /\ begun' \in 0..MaxWork BY DEF Read, IInv, TypeOK
<1> QED BY <1>1, <1>2, StillHeld DEF Read

LEMMA BeginHeld ==
  ASSUME IInv, NEW w \in Workers, NEW r, WorkerFine(r, db, last), Begin(w, r)
  PROVE  Held
<1>1. WorkersFine' BY OneFine DEF Begin, IInv
<1>2. edits' \in 0..MaxEdits /\ begun' \in 0..MaxWork
  BY BoundsAssumption DEF Begin, IInv, TypeOK
<1> QED BY <1>1, <1>2, StillHeld DEF Begin

LEMMA IdleIsFine == WorkerFine(Idle, db, last)
<1>1. Idle.pc = "idle" /\ Idle.disturbed \in BOOLEAN BY DEF Idle
<1> QED BY <1>1, IdleFine

\* A table that refuses nothing has no row that names the backend.
LEMMA SpareFrontends ==
  ASSUME NEW b, ~BackendReferences("frontends", b)
  PROVE  FrontendsSpare(db, b)
BY DEF BackendReferences, SetsNull, Refer, FrontendsSpare

LEMMA SpareDomains ==
  ASSUME NEW b, ~BackendReferences("domains", b)
  PROVE  DomainsSpare(db, b)
BY DEF BackendReferences, SetsNull, Refer, DomainsSpare

LEMMA UnaskedFine ==
  ASSUME NEW b
  PROVE  WorkerFine(Unasked(b), db, last)
<1> DEFINE s == Unasked(b)
<1>1. DOMAIN s = DOMAIN Idle /\ s.pc = "delete" /\ s.op = "delete" /\ s.disturbed = TRUE
  BY Zenon DEF Unasked, Idle
<1> HIDE DEF s
<1>2. WorkerFine(s, db, last)
  BY <1>1 DEF WorkerFine, Steps, OpFollows, Current, Carries, Resolves
<1> QED BY <1>2 DEF s

LEMMA AskFrontendsHeld ==
  ASSUME IInv, NEW w \in Workers, NEW b, AskFrontends(w, b)
  PROVE  Held
<1>1. CASE Begin(w, Unasked(b)) BY <1>1, UnaskedFine, BeginHeld
<1>2. CASE Begin(w, IF BackendReferences("frontends", b) THEN Idle
                    ELSE [Idle EXCEPT !.pc = "askDomains", !.op = "delete", !.id = b])
  <2> DEFINE asked == [Idle EXCEPT !.pc = "askDomains", !.op = "delete", !.id = b]
  <2>1. CASE BackendReferences("frontends", b)
    <3>1. Begin(w, Idle) BY <1>2, <2>1
    <3> QED BY <3>1, IdleIsFine, BeginHeld
  <2>2. CASE ~BackendReferences("frontends", b)
    <3>1. Begin(w, asked) BY <1>2, <2>2
    <3>2. /\ DOMAIN asked = DOMAIN Idle /\ asked.pc = "askDomains" /\ asked.op = "delete"
          /\ asked.id = b /\ asked.disturbed = FALSE
      BY Zenon DEF Idle
    <3> HIDE DEF asked
    <3>3. FrontendsSpare(db, asked.id) BY <3>2, <2>2, SpareFrontends
    <3>4. WorkerFine(asked, db, last)
      BY <3>2, <3>3 DEF WorkerFine, Steps, OpFollows, Current, Carries, Resolves
    <3> QED BY <3>1, <3>4, BeginHeld
  <2> QED BY <2>1, <2>2
<1> QED BY <1>1, <1>2 DEF AskFrontends

LEMMA AskDomainsHeld ==
  ASSUME IInv, NEW w \in Workers, AskDomains(w)
  PROVE  Held
<1> DEFINE r == work[w] asked == [r EXCEPT !.pc = "delete"]
<1>1. WorkerFine(r, db, last) /\ r.pc = "askDomains" BY DEF AskDomains, IInv, WorkersFine
<1>2. CASE Read(w, Unasked(r.id)) BY <1>2, UnaskedFine, ReadHeld
<1>3. CASE Read(w, IF BackendReferences("domains", r.id) THEN Idle ELSE asked)
  <2>1. CASE BackendReferences("domains", r.id)
    <3>1. Read(w, Idle) BY <1>3, <2>1
    <3> QED BY <3>1, IdleIsFine, ReadHeld
  <2>2. CASE ~BackendReferences("domains", r.id)
    <3>1. Read(w, asked) BY <1>3, <2>2
    <3>2. DomainsSpare(db, r.id) BY <2>2, SpareDomains
    <3> HIDE DEF r
    <3>3. /\ DOMAIN asked = DOMAIN Idle /\ asked.pc = "delete" /\ asked.op = r.op
          /\ asked.id = r.id /\ asked.disturbed = r.disturbed
      BY <1>1, Zenon DEF Idle, WorkerFine
    <3> HIDE DEF asked
    <3>4. WorkerFine(asked, db, last)
      BY <1>1, <3>2, <3>3 DEF WorkerFine, Steps, OpFollows, Current, Carries, Resolves
    <3> QED BY <3>1, <3>4, ReadHeld
  <2> QED BY <2>1, <2>2
<1> QED BY <1>2, <1>3 DEF AskDomains

\* Whoever writes is done, and the others are disturbed by what it changed.
LEMMA WroteHeld ==
  ASSUME IInv, NEW w \in Workers, Wrote(w), Kept, raced' \in BOOLEAN, RoutesLead(db') \/ raced',
         \A f \in DOMAIN db["frontends"] \cap DOMAIN db'["frontends"] :
           work[w].pc = "tool" /\ ~work[w].disturbed =>
             /\ db'["frontends"][f].name = db["frontends"][f].name
             /\ db'["frontends"][f].enabled = db["frontends"][f].enabled
  PROVE  Held
<1>1. DOMAIN work' = Workers
      /\ \A g \in Workers : work'[g] = IF g = w THEN Idle
                                       ELSE IF work[g].pc = "idle" THEN work[g] ELSE Disturb(work[g])
  BY DEF Wrote
<1>2. WorkersFine'
  BY <1>1, OthersFine DEF Kept, IInv
<1>3. IInv'
  BY <1>2 DEF IInv, TypeOK, EveryRouteLeads, Kept, Wrote
<1>4. ASSUME NEW g \in Workers, g # w, work[g].pc = "tool" PROVE work'[g].pc = "tool"
  <2>1. work'[g] = Disturb(work[g]) BY <1>4, <1>1
  <2>2. DOMAIN work[g] = DOMAIN Idle /\ work[g].disturbed \in BOOLEAN
    BY DEF IInv, WorkersFine, WorkerFine
  <2> QED BY <2>1, <2>2, <1>4, DisturbIs
<1>5. ToolsKeep BY <1>4 DEF ToolsKeep
<1> QED BY <1>3, <1>5 DEF Held, Kept

LEMMA BackendDeleteHeld ==
  ASSUME IInv, NEW w \in Workers, BackendDelete(w)
  PROVE  Held
<1> DEFINE r == work[w]
<1>1. WorkerFine(r, db, last) /\ r.pc = "delete" BY DEF BackendDelete, IInv, WorkersFine
<1>2. Shaped(db, last) /\ OwnersGiven(db, last) /\ (RoutesLead(db) \/ raced) /\ raced \in BOOLEAN
  BY DEF IInv, TypeOK, EveryRouteLeads
<1>3. DeleteBackend(r.id) /\ raced' = (raced \/ r.disturbed) /\ Wrote(w) BY DEF BackendDelete
<1> HIDE DEF r
<1>4. Kept /\ ((DomainsSpare(db, r.id) /\ RoutesLead(db)) => RoutesLead(db'))
  BY <1>2, <1>3, BackendDeleted
<1>5. r.disturbed \/ DomainsSpare(db, r.id) BY <1>1 DEF WorkerFine, Current
<1>6. RoutesLead(db') \/ raced' BY <1>2, <1>3, <1>4, <1>5
<1>7. raced' \in BOOLEAN BY <1>1, <1>2, <1>3 DEF WorkerFine
<1> QED BY <1>1, <1>3, <1>4, <1>6, <1>7, WroteHeld DEF r

\* The places of the rules of an owner.
LEMMA PlacesAre ==
  ASSUME Shaped(db, last), NEW o, NEW k
  PROVE  LET places == ListRules(db, o, k) IN
         /\ DOMAIN places = RulesOf(db, o, k) /\ IsFiniteSet(DOMAIN places)
         /\ \A i \in DOMAIN places : places[i] \in Nat
<1> DEFINE rules == RulesOf(db, o, k)
           ahead(i) == {j \in rules : Before(db, j, i)}
<1>1. rules \subseteq 1..last["rules"] /\ last["rules"] \in Nat
  BY ShapedRows DEF RulesOf, Tables
<1>2. IsFiniteSet(rules)
  <2>1. IsFiniteSet(1..last["rules"]) BY <1>1, FS_Interval
  <2> QED BY <1>1, <2>1, FS_Subset
<1>3. ListRules(db, o, k) = [i \in rules |-> Cardinality(ahead(i))]
  BY Zenon DEF ListRules
<1>4. \A i \in rules : Cardinality(ahead(i)) \in Nat
  <2> TAKE i \in rules
  <2>1. ahead(i) \subseteq rules OBVIOUS
  <2> HIDE DEF ahead, rules
  <2>2. IsFiniteSet(ahead(i)) BY <2>1, <1>2, FS_Subset
  <2> QED BY <2>2, FS_CardinalityType
<1> HIDE DEF ahead
<1> QED BY <1>2, <1>3, <1>4

LEMMA BeginMoveHeld ==
  ASSUME IInv, NEW w \in Workers, NEW i, NEW delta, BeginMove(w, i, delta)
  PROVE  Held
<1> DEFINE o == db["rules"][i].scope
           k == db["rules"][i].owner
           places == ListRules(db, o, k)
           r == [Idle EXCEPT !.pc = "move", !.op = "move", !.id = i, !.delta = delta,
                             !.places = places]
<1>1. i \in DOMAIN db["rules"] /\ Begin(w, r) BY DEF BeginMove
<1>2. i \in RulesOf(db, o, k) BY <1>1 DEF RulesOf
<1>3. i \in DOMAIN places /\ IsFiniteSet(DOMAIN places) /\ \A j \in DOMAIN places : places[j] \in Nat
  <2> HIDE DEF o, k
  <2> QED BY <1>2, PlacesAre DEF IInv, TypeOK
<1> HIDE DEF places
<1>4. /\ DOMAIN r = DOMAIN Idle /\ r.pc = "move" /\ r.op = "move"
      /\ r.id = i /\ r.places = places /\ r.disturbed = FALSE
  BY Zenon DEF Idle
<1> HIDE DEF r
<1>5. Placed(r, db) BY <1>1, <1>4 DEF Placed, places
<1>6. WorkerFine(r, db, last)
  BY <1>3, <1>4, <1>5 DEF WorkerFine, Steps, OpFollows, Current, Carries, Resolves
<1> QED BY <1>1, <1>6, BeginHeld

\* A move exchanges places and makes none up.
LEMMA SwappedPlaces ==
  ASSUME NEW places, NEW id \in DOMAIN places, NEW delta, IsFiniteSet(DOMAIN places),
         \A i \in DOMAIN places : places[i] \in Nat
  PROVE  LET s == Swapped(places, id, delta) IN
         DOMAIN s = DOMAIN places /\ \A i \in DOMAIN s : s[i] \in Nat
<1>1. Cardinality(DOMAIN places) \in Nat BY FS_CardinalityType
<1> DEFINE c == Cardinality(DOMAIN places)
           there == places[id] + delta
<1>2. Swapped(places, id, delta) =
        [i \in DOMAIN places |->
           IF there \notin 0..(c - 1) THEN places[i]
           ELSE IF i = id THEN there
           ELSE IF places[i] = there THEN places[id] ELSE places[i]]
  BY Zenon DEF Swapped
<1>3. there \in 0..(c - 1) => there \in Nat BY <1>1
<1> HIDE DEF there, c
<1> QED BY <1>2, <1>3

\* Rules that are given another order keep the schema and their owners.
LEMMA OrderKeeps ==
  ASSUME Shaped(db, last), OwnersGiven(db, last), NEW places,
         \A i \in DOMAIN places : places[i] \in Nat,
         db' = [db EXCEPT !["rules"] = [i \in DOMAIN @ |-> IF i \in DOMAIN places
                  THEN [@[i] EXCEPT !.order = places[i]] ELSE @[i]]],
         UNCHANGED last
  PROVE  Kept /\ \A c \in Tables \ {"rules"} : db'[c] = db[c]
<1> DEFINE old == db["rules"]
           new == [i \in DOMAIN old |-> IF i \in DOMAIN places
                     THEN [old[i] EXCEPT !.order = places[i]] ELSE old[i]]
<1>1. db' = [db EXCEPT !["rules"] = new] /\ DOMAIN db = Tables BY DEF Shaped
<1>2. \A i \in DOMAIN old : old[i] \in Rule BY ShapedRows DEF Tables, RowsOf
<1>3. ASSUME NEW i \in DOMAIN old
      PROVE  new[i] \in Rule /\ new[i].scope = old[i].scope /\ new[i].owner = old[i].owner
  <2>1. CASE i \in DOMAIN places
    <3>1. new[i] = [old[i] EXCEPT !.order = places[i]] BY <2>1
    <3>2. old[i] \in Rule /\ places[i] \in Nat BY <1>2, <2>1
    <3> DEFINE a == old[i] b == new[i]
    <3> HIDE DEF a, b
    <3>3. b = [a EXCEPT !.order = places[i]] /\ a \in Rule BY <3>1, <3>2 DEF a, b
    <3>4. b \in Rule /\ b.scope = a.scope /\ b.owner = a.owner BY <3>2, <3>3 DEF Rule
    <3> QED BY <3>4 DEF a, b
  <2>2. CASE i \notin DOMAIN places BY <2>2, <1>2
  <2> QED BY <2>1, <2>2
<1>4. DOMAIN new = DOMAIN old OBVIOUS
<1> HIDE DEF new
<1>5. db'["rules"] = new /\ DOMAIN db' = Tables /\ \A c \in Tables \ {"rules"} : db'[c] = db[c]
  BY <1>1 DEF Tables
<1>6. \A c \in Tables : DOMAIN db'[c] = DOMAIN db[c] BY <1>4, <1>5
<1>7. Shaped(db, last)'
  <2> DEFINE e == db'
  <2> HIDE DEF e
  <2> SUFFICES ASSUME NEW c \in Tables
               PROVE  /\ last[c] \in 0..MaxId[c] /\ DOMAIN e[c] \subseteq 1..last[c]
                      /\ \A i \in DOMAIN e[c] : /\ e[c][i] \in RowsOf(c)
                                                /\ References(e, c, e[c][i])
                                                /\ Unique(e, c, i, e[c][i])
    <3>1. DOMAIN last = Tables BY DEF Shaped
    <3> QED BY <1>5, <3>1 DEF Shaped, e
  <2>1. /\ last[c] \in 0..MaxId[c] /\ DOMAIN db[c] \subseteq 1..last[c]
        /\ \A i \in DOMAIN db[c] :
             db[c][i] \in RowsOf(c) /\ References(db, c, db[c][i]) /\ Unique(db, c, i, db[c][i])
    BY ShapedRows
  <2>2. \A b \in Tables : DOMAIN db[b] \subseteq DOMAIN e[b] BY <1>6 DEF e
  <2>3. CASE c = "rules"
    <3>1. \A i \in DOMAIN e[c] : e[c][i] \in RowsOf(c)
      BY <2>3, <1>3, <1>4, <1>5 DEF RowsOf, e
    <3>2. \A i \in DOMAIN e[c] : References(e, c, e[c][i]) BY <2>3, ReferencesAre
    <3>3. \A i \in DOMAIN e[c] : Unique(e, c, i, e[c][i]) BY <2>3 DEF Unique, SameKey, Owners
    <3> QED BY <2>1, <3>1, <3>2, <3>3, <1>6 DEF e
  <2>4. CASE c # "rules"
    <3>1. e[c] = db[c] BY <2>4, <1>5 DEF e
    <3>2. \A i \in DOMAIN e[c] : References(e, c, e[c][i]) BY <2>1, <2>2, <3>1, ReferencesGrow
    <3>3. \A i \in DOMAIN e[c] : Unique(e, c, i, e[c][i]) BY <2>1, <3>1 DEF Unique
    <3> QED BY <2>1, <3>1, <3>2, <3>3
  <2> QED BY <2>3, <2>4
<1>8. \A c \in Tables : last[c] \in Nat /\ last'[c] \in Nat /\ last[c] <= last'[c]
  BY ShapedRows
<1>9. OwnersGiven(db, last)'
  <2>1. \A i \in DOMAIN db'["acls"] : db'["acls"][i].owner \in 1..last[db'["acls"][i].scope]
    BY <1>5 DEF OwnersGiven, Tables
  <2>2. \A i \in DOMAIN new : new[i].owner \in 1..last[new[i].scope]
    BY <1>3, <1>4 DEF OwnersGiven
  <2> QED BY <1>5, <2>1, <2>2 DEF OwnersGiven
<1>10. OwnersStartEmpty
  BY <1>6 DEF OwnersStartEmpty, Owners, Tables
<1> QED BY <1>5, <1>7, <1>8, <1>9, <1>10 DEF Kept

LEMMA MoveRuleHeld ==
  ASSUME IInv, NEW w \in Workers, MoveRule(w)
  PROVE  Held
<1> DEFINE r == work[w]
           places == Swapped(r.places, r.id, r.delta)
<1>1. /\ r.pc = "move" /\ Wrote(w) /\ UNCHANGED <<last, raced>>
      /\ db' = [db EXCEPT !["rules"] = [i \in DOMAIN @ |-> IF i \in DOMAIN places
                  THEN [@[i] EXCEPT !.order = places[i]] ELSE @[i]]]
  BY DEF MoveRule
<1>2. WorkerFine(r, db, last) BY DEF IInv, WorkersFine
<1> HIDE DEF r
<1>3. \A i \in DOMAIN places : places[i] \in Nat
  BY <1>1, <1>2, SwappedPlaces DEF WorkerFine, Carries
<1> HIDE DEF places
<1>4. Shaped(db, last) /\ OwnersGiven(db, last) /\ (RoutesLead(db) \/ raced) /\ raced \in BOOLEAN
  BY DEF IInv, TypeOK, EveryRouteLeads
<1>5. Kept /\ \A c \in Tables \ {"rules"} : db'[c] = db[c]
  BY <1>1, <1>3, <1>4, OrderKeeps
<1>6. db'["frontends"] = db["frontends"] /\ db'["domains"] = db["domains"]
  BY <1>5 DEF Tables
<1>7. RoutesLead(db') \/ raced' BY <1>1, <1>4, <1>6 DEF RoutesLead
<1>8. raced' \in BOOLEAN BY <1>1, <1>4
<1> QED BY <1>1, <1>5, <1>6, <1>7, <1>8, WroteHeld DEF r

\* What a tool writes, from what it has resolved.
LEMMA ToolWrites ==
  ASSUME Shaped(db, last), OwnersGiven(db, last), RoutesLead(db) \/ raced,
         NEW r, WorkerFine(r, db, last), r.pc = "tool",
         \/ ToolSetDefaultBackend(r) \/ ToolCreateFrontend(r) \/ ToolAddServer(r) \/ ToolAddBind(r)
         \/ ToolAddRoute(r) \/ ToolAddACL(r) \/ ToolAddRule(r) \/ ToolDeleteFrontend(r)
  PROVE  /\ Kept /\ (RoutesLead(db') \/ raced)
         /\ \A f \in DOMAIN db["frontends"] \cap DOMAIN db'["frontends"] :
              ~r.disturbed => /\ db'["frontends"][f].name = db["frontends"][f].name
                              /\ db'["frontends"][f].enabled = db["frontends"][f].enabled
<1>1. /\ r.row \in Frontend /\ r.id \in 1..last["frontends"] /\ r.other \in 1..last["backends"]
      /\ ~r.disturbed => r.id \in DOMAIN db["frontends"] /\ r.row = db["frontends"][r.id]
  BY DEF WorkerFine, Carries, Current
<1>2. /\ last["frontends"] \in Nat /\ 1..last["frontends"] \subseteq Ids("frontends")
      /\ last["backends"] \in Nat /\ 1..last["backends"] \subseteq Ids("backends")
      /\ 0 \notin DOMAIN db["frontends"]
  BY KnownIsId, ShapedRows DEF Tables
<1>3. r.id \in Ids("frontends") /\ r.other \in Ids("backends") BY <1>1, <1>2
<1>4. CASE ToolSetDefaultBackend(r)
  <2> DEFINE row == DefaultRow(r)
  <2>1. row = [r.row EXCEPT !.default = r.other] BY Zenon DEF DefaultRow
  <2>2. SaveFrontend(r.id, row) BY <1>4 DEF ToolSetDefaultBackend
  <2> HIDE DEF row
  <2>3. row \in Frontend /\ row.name = r.row.name /\ row.enabled = r.row.enabled
    BY <1>1, <1>3, <2>1 DEF Frontend
  <2>4. Kept /\ (RoutesLead(db') \/ raced) /\ Grew("frontends", r.id, row)
    BY <2>2, <2>3, FrontendSaved
  <2>5. ASSUME NEW f \in DOMAIN db["frontends"] \cap DOMAIN db'["frontends"], ~r.disturbed
        PROVE  /\ db'["frontends"][f].name = db["frontends"][f].name
               /\ db'["frontends"][f].enabled = db["frontends"][f].enabled
    <3>1. CASE f = r.id
      <4>1. db'["frontends"][f] = db["frontends"][f] \/ db'["frontends"][f] = row
        BY <2>4 DEF Grew
      <4> QED BY <3>1, <4>1, <2>3, <2>5, <1>1
    <3>2. CASE f # r.id
      BY <2>4, <3>2 DEF Grew
    <3> QED BY <3>1, <3>2
  <2> QED BY <2>4, <2>5
<1>5. CASE ToolCreateFrontend(r)
  <2>1. PICK n \in Names, b \in {r.other, NULL} :
          SaveFrontend(NULL, [name |-> n, enabled |-> TRUE, default |-> b])
    BY <1>5 DEF ToolCreateFrontend
  <2> DEFINE row == [name |-> n, enabled |-> TRUE, default |-> b]
  <2>2. row \in Frontend BY <1>3 DEF Frontend
  <2> HIDE DEF row
  <2>3. Kept /\ (RoutesLead(db') \/ raced) /\ Grew("frontends", NULL, row)
    BY <2>1, <2>2, FrontendSaved DEF row
  <2>4. \A f \in DOMAIN db["frontends"] : db'["frontends"][f] = db["frontends"][f]
    BY <2>3, <1>2 DEF Grew, NULL
  <2> QED BY <2>3, <2>4
<1>6. CASE ToolAddServer(r)
  <2>1. PICK n \in Names : SaveServer(NULL, [backend |-> r.other, name |-> n])
    BY <1>6 DEF ToolAddServer
  <2>2. [backend |-> r.other, name |-> n] \in ServerRow BY <1>3 DEF ServerRow
  <2> QED BY <2>1, <2>2, ServerSaved
<1>7. CASE ToolAddBind(r)
  <2>1. SaveBind(NULL, [frontend |-> r.id]) BY <1>7 DEF ToolAddBind
  <2>2. [frontend |-> r.id] \in Bind BY <1>3 DEF Bind
  <2> QED BY <2>1, <2>2, BindSaved
<1>8. CASE ToolAddRoute(r)
  <2>1. PICK b \in {r.other, NULL}, to \in BOOLEAN :
          SaveDomain(NULL, [frontend |-> r.id, backend |-> b, redirects |-> to, enabled |-> TRUE])
    BY <1>8 DEF ToolAddRoute
  <2>2. [frontend |-> r.id, backend |-> b, redirects |-> to, enabled |-> TRUE] \in Domain
    BY <1>3 DEF Domain
  <2> QED BY <2>1, <2>2, DomainSaved
<1>9. CASE ToolAddACL(r)
  <2>1. PICK o \in ResolveOwner(r) : SaveACL(NULL, o) BY <1>9 DEF ToolAddACL
  <2>2. \/ o = [scope |-> "frontends", owner |-> r.id]
        \/ o = [scope |-> "backends", owner |-> r.other]
    BY <2>1 DEF ResolveOwner
  <2>3. o \in Acl /\ o.owner \in 1..last[o.scope] BY <2>2, <1>1, <1>3 DEF Acl, Owners
  <2> QED BY <2>1, <2>3, ACLSaved
<1>10. CASE ToolAddRule(r)
  <2>1. PICK o \in ResolveOwner(r) :
          SaveRule(NULL, [scope |-> o.scope, owner |-> o.owner, order |-> 100])
    BY <1>10 DEF ToolAddRule
  <2> DEFINE row == [scope |-> o.scope, owner |-> o.owner, order |-> 100]
  <2>2. \/ o = [scope |-> "frontends", owner |-> r.id]
        \/ o = [scope |-> "backends", owner |-> r.other]
    BY <2>1 DEF ResolveOwner
  <2>3. row \in Rule /\ row.owner \in 1..last[row.scope] BY <2>2, <1>1, <1>3 DEF Rule, Owners
  <2> HIDE DEF row
  <2> QED BY <2>1, <2>3, RuleSaved DEF row
<1>11. CASE ToolDeleteFrontend(r)
  BY <1>11, FrontendDeleted DEF ToolDeleteFrontend
<1> QED BY <1>4, <1>5, <1>6, <1>7, <1>8, <1>9, <1>10, <1>11

LEMMA ToolSavesHeld ==
  ASSUME IInv, NEW w \in Workers, ToolSaves(w)
  PROVE  Held
<1> DEFINE r == work[w]
<1>1. /\ r.pc = "tool" /\ Wrote(w) /\ UNCHANGED raced
      /\ \/ ToolSetDefaultBackend(r) \/ ToolCreateFrontend(r) \/ ToolAddServer(r) \/ ToolAddBind(r)
         \/ ToolAddRoute(r) \/ ToolAddACL(r) \/ ToolAddRule(r) \/ ToolDeleteFrontend(r)
  BY DEF ToolSaves
<1>2. WorkerFine(r, db, last) BY DEF IInv, WorkersFine
<1>3. Shaped(db, last) /\ OwnersGiven(db, last) /\ (RoutesLead(db) \/ raced) /\ raced \in BOOLEAN
  BY DEF IInv, TypeOK, EveryRouteLeads
<1> HIDE DEF r
<1>4. /\ Kept /\ (RoutesLead(db') \/ raced)
      /\ \A f \in DOMAIN db["frontends"] \cap DOMAIN db'["frontends"] :
           ~r.disturbed => /\ db'["frontends"][f].name = db["frontends"][f].name
                           /\ db'["frontends"][f].enabled = db["frontends"][f].enabled
  BY <1>1, <1>2, <1>3, ToolWrites
<1>5. raced' \in BOOLEAN /\ (RoutesLead(db') \/ raced') BY <1>1, <1>3, <1>4
<1> QED BY <1>1, <1>4, <1>5, WroteHeld DEF r

LEMMA ResolveNamesHeld ==
  ASSUME IInv, NEW w \in Workers, NEW f, NEW b, ResolveNames(w, f, b)
  PROVE  Held
<1> DEFINE row == db["frontends"][f]
           r == [Idle EXCEPT !.pc = "tool", !.op = "tool", !.id = f, !.other = b, !.row = row]
<1>1. f \in DOMAIN db["frontends"] /\ b \in DOMAIN db["backends"] /\ Begin(w, r)
  BY DEF ResolveNames
<1>2. row \in Frontend /\ f \in 1..last["frontends"] /\ b \in 1..last["backends"]
  BY <1>1, ShapedRows DEF IInv, TypeOK, Tables, RowsOf
<1>3. f \in DOMAIN db["frontends"] /\ row = db["frontends"][f] BY <1>1
<1> HIDE DEF row
<1>4. /\ DOMAIN r = DOMAIN Idle /\ r.pc = "tool" /\ r.op = "tool" /\ r.id = f /\ r.other = b
      /\ r.row = row /\ r.disturbed = FALSE
  BY Zenon DEF Idle
<1> HIDE DEF r
<1>5. WorkerFine(r, db, last)
  BY <1>2, <1>3, <1>4 DEF WorkerFine, Steps, OpFollows, Current, Carries, Resolves
<1> QED BY <1>1, <1>5, BeginHeld

LEMMA ListFrontendsHeld ==
  ASSUME IInv, NEW w \in Workers, ListFrontends(w)
  PROVE  Held
<1> DEFINE todo == {f \in DOMAIN db["frontends"] : db["frontends"][f].enabled}
           places == [f \in DOMAIN db["frontends"] |-> db["frontends"][f].default]
           r == [Idle EXCEPT !.pc = "backends", !.op = "render", !.todo = todo, !.places = places]
<1>1. Begin(w, r) BY DEF ListFrontends
<1> HIDE DEF todo, places
<1>2. /\ DOMAIN r = DOMAIN Idle /\ r.pc = "backends" /\ r.lines = {} /\ r.disturbed = FALSE
  BY Zenon DEF Idle
<1> HIDE DEF r
<1>3. WorkerFine(r, db, last)
  BY <1>2 DEF WorkerFine, Steps, OpFollows, Current, Carries, Resolves
<1> QED BY <1>1, <1>3, BeginHeld

LEMMA ListBackendsHeld ==
  ASSUME IInv, NEW w \in Workers, ListBackends(w)
  PROVE  Held
<1> DEFINE r == work[w]
           listed == db["backends"]
           s == [r EXCEPT !.pc = "frontends", !.read = listed]
<1>1. Read(w, s) /\ r.pc = "backends" BY DEF ListBackends
<1>2. WorkerFine(r, db, last) BY DEF IInv, WorkersFine
<1> HIDE DEF r, listed
<1>3. /\ DOMAIN s = DOMAIN Idle /\ s.pc = "frontends" /\ s.lines = r.lines
      /\ s.disturbed = r.disturbed
  BY <1>2, Zenon DEF Idle, WorkerFine
<1> HIDE DEF s
<1>4. s.lines = {} /\ s.disturbed \in BOOLEAN BY <1>1, <1>2, <1>3 DEF WorkerFine, Resolves
<1>5. WorkerFine(s, db, last)
  BY <1>3, <1>4 DEF WorkerFine, Steps, OpFollows, Current, Carries, Resolves
<1> QED BY <1>1, <1>5, ReadHeld

\* Whatever the id read from another query, a backend is named only if it was listed
\* and enabled: it has a section.
LEMMA NamedHasSection ==
  ASSUME NEW r, NEW b
  PROVE  NamedBackend(r, b) \subseteq Sections(r)
BY DEF NamedBackend, Sections

LEMMA RenderFrontendHeld ==
  ASSUME IInv, NEW w \in Workers, NEW f, RenderFrontend(w, f)
  PROVE  Held
<1> DEFINE r == work[w]
           routes == {d \in DOMAIN db["domains"] :
                        db["domains"][d].frontend = f /\ db["domains"][d].enabled}
           todo == r.todo \ {f}
           lines == r.lines \cup NamedBackend(r, r.places[f])
                      \cup UNION {NamedBackend(r, db["domains"][d].backend) : d \in routes}
           s == [r EXCEPT !.todo = todo, !.lines = lines]
<1>1. r.pc = "frontends" BY DEF RenderFrontend
<1>2. WorkerFine(r, db, last) BY DEF IInv, WorkersFine
<1>3. Read(w, s)
  <2> DEFINE t == [r EXCEPT !.todo = @ \ {f},
                    !.lines = @ \cup NamedBackend(r, r.places[f])
                                \cup UNION {NamedBackend(r, db["domains"][d].backend) : d \in routes}]
  <2>1. Read(w, t) BY Zenon DEF RenderFrontend
  <2>2. t = s BY Zenon, <1>2 DEF WorkerFine, Idle
  <2> QED BY <2>1, <2>2, Zenon
<1>4. lines \subseteq Sections(r)
  <2>1. r.lines \subseteq Sections(r) BY <1>1, <1>2 DEF WorkerFine, Resolves
  <2> HIDE DEF routes, r
  <2>2. \A b : NamedBackend(r, b) \subseteq Sections(r) BY NamedHasSection
  <2> QED BY <2>1, <2>2
<1> HIDE DEF r, todo, lines
<1>5. /\ DOMAIN s = DOMAIN Idle /\ s.pc = r.pc /\ s.lines = lines /\ s.read = r.read
      /\ s.disturbed = r.disturbed
  BY <1>2, Zenon DEF Idle, WorkerFine
<1> HIDE DEF s
<1>6. s.lines \subseteq Sections(s) /\ s.disturbed \in BOOLEAN
  BY <1>2, <1>4, <1>5 DEF WorkerFine, Sections
<1>7. WorkerFine(s, db, last)
  BY <1>1, <1>5, <1>6 DEF WorkerFine, Steps, OpFollows, Current, Carries, Resolves
<1> QED BY <1>3, <1>7, ReadHeld

LEMMA RenderBackendsHeld ==
  ASSUME IInv, NEW w \in Workers, RenderBackends(w)
  PROVE  Held
<1> DEFINE r == work[w]
           s == [r EXCEPT !.pc = "rendered"]
<1>1. Read(w, s) /\ r.pc = "frontends" BY DEF RenderBackends
<1>2. WorkerFine(r, db, last) BY DEF IInv, WorkersFine
<1> HIDE DEF r
<1>3. /\ DOMAIN s = DOMAIN Idle /\ s.pc = "rendered" /\ s.lines = r.lines /\ s.read = r.read
      /\ s.disturbed = r.disturbed
  BY <1>2, Zenon DEF Idle, WorkerFine
<1> HIDE DEF s
<1>4. s.lines \subseteq Sections(s) /\ s.disturbed \in BOOLEAN
  BY <1>1, <1>2, <1>3 DEF WorkerFine, Resolves, Sections
<1>5. WorkerFine(s, db, last)
  BY <1>3, <1>4 DEF WorkerFine, Steps, OpFollows, Current, Carries, Resolves
<1> QED BY <1>1, <1>5, ReadHeld

LEMMA WorkHeld ==
  ASSUME IInv, NEW w \in Workers, Work(w)
  PROVE  Held
<1>1. CASE \E b \in Ids("backends") : AskFrontends(w, b) BY <1>1, AskFrontendsHeld
<1>2. CASE AskDomains(w) BY <1>2, AskDomainsHeld
<1>3. CASE BackendDelete(w) BY <1>3, BackendDeleteHeld
<1>4. CASE \E i \in Ids("rules"), delta \in {-1, 1} : BeginMove(w, i, delta)
  BY <1>4, BeginMoveHeld
<1>5. CASE MoveRule(w) BY <1>5, MoveRuleHeld
<1>6. CASE \E f \in Ids("frontends"), b \in Ids("backends") : ResolveNames(w, f, b)
  BY <1>6, ResolveNamesHeld
<1>7. CASE ToolSaves(w) BY <1>7, ToolSavesHeld
<1>8. CASE ListFrontends(w) BY <1>8, ListFrontendsHeld
<1>9. CASE ListBackends(w) BY <1>9, ListBackendsHeld
<1>10. CASE \E f \in Ids("frontends") : RenderFrontend(w, f) BY <1>10, RenderFrontendHeld
<1>11. CASE RenderBackends(w) BY <1>11, RenderBackendsHeld
<1>12. CASE Rendered(w)
  <2>1. Read(w, Idle) BY <1>12 DEF Rendered
  <2> QED BY <2>1, IdleIsFine, ReadHeld
<1> QED
  BY <1>1, <1>2, <1>3, <1>4, <1>5, <1>6, <1>7, <1>8, <1>9, <1>10, <1>11, <1>12 DEF Work

LEMMA StepHeld ==
  ASSUME IInv, Next
  PROVE  Held
BY EditHeld, WorkHeld DEF Next

-----------------------------------------------------------------------------
(* Moves.                                                                  *)

\* Counting those below it gives the value of a numbering.
LEMMA RankIsNumber ==
  ASSUME NEW S, IsFiniteSet(S), NEW n \in Nat, NEW q \in Injection(S, 0..(n - 1)),
         q \in Surjection(S, 0..(n - 1)), NEW i \in S
  PROVE  Cardinality({j \in S : q[j] < q[i]}) = q[i]
<1> DEFINE T == {j \in S : q[j] < q[i]}
           m == q[i]
           g == [j \in T |-> q[j]]
<1>1. /\ q \in [S -> 0..(n - 1)]
      /\ \A a, b \in S : q[a] = q[b] => a = b
      /\ \A v \in 0..(n - 1) : \E a \in S : q[a] = v
  BY DEF Injection, Surjection, IsInjective
<1>2. m \in Nat /\ m \in 0..(n - 1) BY <1>1
<1>3. IsFiniteSet(T) BY FS_Subset
<1>4. g \in [T -> 0..(m - 1)] BY <1>1, <1>2
<1>5. \A a, b \in T : g[a] = g[b] => a = b BY <1>1
<1>6. \A v \in 0..(m - 1) : \E a \in T : g[a] = v
  <2> TAKE v \in 0..(m - 1)
  <2>1. v \in 0..(n - 1) /\ v < m BY <1>2
  <2>2. PICK a \in S : q[a] = v BY <1>1, <2>1
  <2> QED BY <2>1, <2>2
<1> HIDE DEF g, T, m
<1>7. g \in Bijection(T, 0..(m - 1))
  BY <1>4, <1>5, <1>6 DEF Bijection, Injection, Surjection, IsInjective
<1>8. ExistsBijection(T, 0..(m - 1)) BY <1>7 DEF ExistsBijection
<1>9. Cardinality(0..(m - 1)) = Cardinality(T) BY <1>3, <1>8, FS_Bijection
<1>10. Cardinality(0..(m - 1)) = m BY <1>2, FS_Interval
<1> QED BY <1>9, <1>10 DEF T, m

\* The rules of an owner are numbered from 0 on, in their order.
LEMMA PlacesNumber ==
  ASSUME NEW d, NEW o, NEW k, IsFiniteSet(RulesOf(d, o, k)), RulesOf(d, o, k) \subseteq Nat,
         \A i \in RulesOf(d, o, k) : d["rules"][i].order \in Nat
  PROVE  LET places == ListRules(d, o, k)
             top == Cardinality(RulesOf(d, o, k)) - 1
         IN places \in Injection(RulesOf(d, o, k), 0..top)
            /\ places \in Surjection(RulesOf(d, o, k), 0..top)
<1> DEFINE rules == RulesOf(d, o, k)
           ahead(i) == {j \in rules : Before(d, j, i)}
           places == ListRules(d, o, k)
           n == Cardinality(rules)
<1>1. places = [i \in rules |-> Cardinality(ahead(i))] BY Zenon DEF ListRules
<1>2. n \in Nat BY FS_CardinalityType
<1>3. \A i \in rules : d["rules"][i].order \in Nat /\ i \in Nat OBVIOUS
<1>4. ASSUME NEW i \in rules
      PROVE  IsFiniteSet(ahead(i)) /\ Cardinality(ahead(i)) \in 0..(n - 1)
  <2>1. IsFiniteSet(rules \ {i}) /\ Cardinality(rules \ {i}) = n - 1 BY FS_RemoveElement
  <2>2. i \notin ahead(i) BY <1>3 DEF Before
  <2>3. ahead(i) \subseteq rules \ {i} BY <2>2
  <2> HIDE DEF ahead, rules
  <2>4. IsFiniteSet(ahead(i)) /\ Cardinality(ahead(i)) <= n - 1 BY <2>1, <2>3, FS_Subset
  <2>5. Cardinality(ahead(i)) \in Nat BY <2>4, FS_CardinalityType
  <2> QED BY <1>2, <2>4, <2>5
<1>5. ASSUME NEW i \in rules, NEW j \in rules, Before(d, i, j)
      PROVE  Cardinality(ahead(i)) < Cardinality(ahead(j))
  <2>1. ahead(i) \subseteq ahead(j) /\ i \in ahead(j) /\ i \notin ahead(i)
    BY <1>3, <1>5 DEF Before
  <2>2. /\ IsFiniteSet(ahead(i)) /\ IsFiniteSet(ahead(j))
        /\ Cardinality(ahead(i)) \in 0..(n - 1) /\ Cardinality(ahead(j)) \in 0..(n - 1)
    BY <1>4
  <2> HIDE DEF ahead, n
  <2>3. Cardinality(ahead(i)) <= Cardinality(ahead(j))
        /\ (Cardinality(ahead(i)) = Cardinality(ahead(j)) => ahead(i) = ahead(j))
    BY <2>1, <2>2, FS_Subset
  <2> QED BY <1>2, <2>1, <2>2, <2>3
<1>6. \A i, j \in rules : i # j => Before(d, i, j) \/ Before(d, j, i)
  BY <1>3 DEF Before
<1>7. \A i \in rules : Cardinality(ahead(i)) \in 0..(n - 1) BY <1>4
<1>8. \A i, j \in rules : Cardinality(ahead(i)) = Cardinality(ahead(j)) => i = j
  <2> SUFFICES ASSUME NEW i \in rules, NEW j \in rules, i # j,
                      Cardinality(ahead(i)) = Cardinality(ahead(j))
               PROVE  FALSE
    OBVIOUS
  <2>1. Cardinality(ahead(i)) < Cardinality(ahead(j)) \/ Cardinality(ahead(j)) < Cardinality(ahead(i))
    BY <1>5, <1>6
  <2>2. Cardinality(ahead(i)) \in 0..(n - 1) BY <1>4
  <2> HIDE DEF ahead, n
  <2> QED BY <1>2, <2>1, <2>2
<1> HIDE DEF ahead, places
<1>9. places \in [rules -> 0..(n - 1)] BY <1>1, <1>7
<1>10. \A i, j \in rules : places[i] = places[j] => i = j BY <1>1, <1>8
<1>11. places \in Injection(rules, 0..(n - 1))
  BY <1>9, <1>10 DEF Injection, IsInjective
<1>12. IsFiniteSet(0..(n - 1)) /\ Cardinality(0..(n - 1)) = n
  BY <1>2, FS_Interval
<1> HIDE DEF n
<1>13. places \in Surjection(rules, 0..(n - 1))
  BY <1>11, <1>12, FS_Injection DEF n
<1> QED BY <1>11, <1>13 DEF n, places

\* Exchanging two numbers leaves a numbering.
LEMMA SwappedNumber ==
  ASSUME NEW S, IsFiniteSet(S), NEW places, NEW id \in S, NEW delta,
         places \in Injection(S, 0..(Cardinality(S) - 1)),
         places \in Surjection(S, 0..(Cardinality(S) - 1))
  PROVE  LET q == Swapped(places, id, delta)
             there == places[id] + delta
         IN /\ q \in Injection(S, 0..(Cardinality(S) - 1))
            /\ q \in Surjection(S, 0..(Cardinality(S) - 1))
            /\ IF \E j \in S : places[j] = there
               THEN q[id] = there
                    /\ \A j \in S \ {id} : q[j] = IF places[j] = there THEN places[id] ELSE places[j]
               ELSE q = places
<1> DEFINE n == Cardinality(S)
           q == Swapped(places, id, delta)
           there == places[id] + delta
<1>1. n \in Nat BY FS_CardinalityType
<1>2. /\ places \in [S -> 0..(n - 1)]
      /\ \A a, b \in S : places[a] = places[b] => a = b
      /\ \A v \in 0..(n - 1) : \E a \in S : places[a] = v
  BY DEF Injection, Surjection, IsInjective
<1>3. q = [i \in S |-> IF there \notin 0..(n - 1) THEN places[i]
                       ELSE IF i = id THEN there
                       ELSE IF places[i] = there THEN places[id] ELSE places[i]]
  <2>1. DOMAIN places = S BY <1>2
  <2> QED BY <2>1, Zenon DEF Swapped
<1>4. IsFiniteSet(0..(n - 1)) /\ Cardinality(0..(n - 1)) = n
  BY <1>1, FS_Interval
<1> HIDE DEF n, there, q
<1>5. CASE there \notin 0..(n - 1)
  <2>1. q = places BY <1>2, <1>3, <1>5
  <2>2. ~ \E j \in S : places[j] = there BY <1>2, <1>5
  <2> QED BY <2>1, <2>2 DEF n, q, there
<1>6. CASE there \in 0..(n - 1)
  <2>1. \E j \in S : places[j] = there BY <1>2, <1>6
  <2>2. /\ DOMAIN q = S
        /\ \A i \in S : q[i] = IF i = id THEN there
                               ELSE IF places[i] = there THEN places[id] ELSE places[i]
    BY <1>3, <1>6
  <2>3. q \in [S -> 0..(n - 1)]
    <3>1. \A i \in S : q[i] \in 0..(n - 1) BY <2>2, <1>2, <1>6
    <3>2. q = [i \in S |-> q[i]] BY <1>3
    <3> QED BY <3>1, <3>2
  <2>4. \A a, b \in S : q[a] = q[b] => a = b
    BY <2>2, <1>2
  <2>5. q \in Injection(S, 0..(n - 1)) BY <2>3, <2>4 DEF Injection, IsInjective
  <2>6. q \in Surjection(S, 0..(n - 1)) BY <2>5, <1>4, FS_Injection DEF n
  <2>7. q[id] = there
        /\ \A j \in S \ {id} : q[j] = IF places[j] = there THEN places[id] ELSE places[j]
    BY <2>2
  <2> QED BY <2>1, <2>5, <2>6, <2>7 DEF n, q, there
<1> QED BY <1>5, <1>6

\* The rules of an owner are finitely many natural numbers with natural orders.
LEMMA RulesNumbered ==
  ASSUME Shaped(db, last), NEW o, NEW k
  PROVE  LET rules == RulesOf(db, o, k) IN
         /\ IsFiniteSet(rules) /\ rules \subseteq Nat /\ rules \subseteq DOMAIN db["rules"]
         /\ \A i \in rules : db["rules"][i].order \in Nat
<1> DEFINE rules == RulesOf(db, o, k)
<1>1. /\ rules \subseteq DOMAIN db["rules"] /\ DOMAIN db["rules"] \subseteq 1..last["rules"]
      /\ last["rules"] \in Nat
  BY ShapedRows DEF RulesOf, Tables
<1>2. IsFiniteSet(rules)
  <2>1. IsFiniteSet(1..last["rules"]) BY <1>1, FS_Interval
  <2> QED BY <1>1, <2>1, FS_Subset
<1>3. \A i \in DOMAIN db["rules"] : db["rules"][i] \in Rule
  BY ShapedRows DEF Tables, RowsOf
<1>4. \A i \in DOMAIN db["rules"] : db["rules"][i].order \in Nat
  BY <1>3 DEF Rule
<1> QED BY <1>1, <1>2, <1>4

\* An undisturbed move leaves the rules of the owner numbered as swapped.
LEMMA MoveRuleSwaps ==
  ASSUME IInv, NEW w \in Workers, MoveRule(w), ~work[w].disturbed
  PROVE  LET r == db["rules"][work[w].id]
             old == ListRules(db, r.scope, r.owner)
             new == ListRules(db', r.scope, r.owner)
             there == old[work[w].id] + work[w].delta
         IN IF \E j \in DOMAIN old : old[j] = there
            THEN /\ new[work[w].id] = there
                 /\ \A j \in DOMAIN old \ {work[w].id} :
                      new[j] = IF old[j] = there THEN old[work[w].id] ELSE old[j]
            ELSE new = old
<1> DEFINE s == work[w]
           o == db["rules"][s.id].scope
           k == db["rules"][s.id].owner
           rules == RulesOf(db, o, k)
           old == ListRules(db, o, k)
           new == ListRules(db', o, k)
           there == old[s.id] + s.delta
           q == Swapped(old, s.id, s.delta)
           n == Cardinality(rules)
<1>1. WorkerFine(s, db, last) /\ s.pc = "move" /\ Shaped(db, last)
  BY DEF MoveRule, IInv, WorkersFine, TypeOK
<1>2. s.id \in DOMAIN db["rules"] /\ s.places = old
  BY <1>1 DEF WorkerFine, Current, Placed
<1>3. db' = [db EXCEPT !["rules"] = [i \in DOMAIN @ |-> IF i \in DOMAIN q
               THEN [@[i] EXCEPT !.order = q[i]] ELSE @[i]]]
  BY <1>2 DEF MoveRule
<1>4. s.id \in rules BY <1>2 DEF RulesOf
<1>5. /\ IsFiniteSet(rules) /\ rules \subseteq Nat /\ rules \subseteq DOMAIN db["rules"]
      /\ \A i \in rules : db["rules"][i].order \in Nat
  <2> HIDE DEF o, k
  <2> QED BY <1>1, RulesNumbered
<1>6. old \in Injection(rules, 0..(n - 1)) /\ old \in Surjection(rules, 0..(n - 1))
  <2> HIDE DEF o, k
  <2> QED BY <1>5, PlacesNumber
<1>7. /\ q \in Injection(rules, 0..(n - 1)) /\ q \in Surjection(rules, 0..(n - 1))
      /\ IF \E j \in rules : old[j] = there
         THEN q[s.id] = there
              /\ \A j \in rules \ {s.id} : q[j] = IF old[j] = there THEN old[s.id] ELSE old[j]
         ELSE q = old
  <2> DEFINE id == s.id delta == s.delta
  <2> HIDE DEF old, rules, id, delta
  <2>1. IsFiniteSet(rules) /\ id \in rules BY <1>4, <1>5 DEF id
  <2>2. /\ Swapped(old, id, delta) \in Injection(rules, 0..(Cardinality(rules) - 1))
        /\ Swapped(old, id, delta) \in Surjection(rules, 0..(Cardinality(rules) - 1))
        /\ IF \E j \in rules : old[j] = old[id] + delta
           THEN Swapped(old, id, delta)[id] = old[id] + delta
                /\ \A j \in rules \ {id} : Swapped(old, id, delta)[j] =
                     IF old[j] = old[id] + delta THEN old[id] ELSE old[j]
           ELSE Swapped(old, id, delta) = old
    BY <2>1, <1>6, SwappedNumber
  <2> QED BY <2>2 DEF id, delta
<1>8. n \in Nat BY <1>5, FS_CardinalityType
<1>9. DOMAIN q = rules /\ DOMAIN old = rules /\ \A i \in rules : q[i] \in Nat
  <2> HIDE DEF q, old, rules, n
  <2>1. q \in [rules -> 0..(n - 1)] /\ old \in [rules -> 0..(n - 1)]
    BY <1>6, <1>7 DEF Injection
  <2> QED BY <2>1, <1>8
<1>10. /\ DOMAIN db'["rules"] = DOMAIN db["rules"]
       /\ \A i \in DOMAIN db["rules"] :
            db'["rules"][i] = IF i \in rules THEN [db["rules"][i] EXCEPT !.order = q[i]]
                              ELSE db["rules"][i]
  <2>1. "rules" \in DOMAIN db BY <1>1 DEF Shaped, Tables
  <2> HIDE DEF q, rules, old, there, n, o, k
  <2> QED BY <1>3, <1>9, <2>1
<1>11. \A i \in DOMAIN db["rules"] : db["rules"][i] \in Rule
  BY <1>1, ShapedRows DEF Tables, RowsOf
<1> HIDE DEF q, o, k
<1>12. \A i \in DOMAIN db["rules"] :
         /\ db'["rules"][i].scope = db["rules"][i].scope
         /\ db'["rules"][i].owner = db["rules"][i].owner
         /\ i \in rules => db'["rules"][i].order = q[i]
  BY <1>10, <1>11, <1>9 DEF Rule
<1>13. RulesOf(db', o, k) = rules
  BY <1>10, <1>12 DEF RulesOf
<1>14. ASSUME NEW i \in rules
       PROVE  Cardinality({j \in rules : Before(db', j, i)}) = q[i]
  <2>1. \A j \in rules : Before(db', j, i) <=> q[j] < q[i]
    <3>1. \A j \in rules : q[j] = q[i] => j = i
      BY <1>7 DEF Injection, IsInjective
    <3>2. \A j \in rules : db'["rules"][j].order = q[j] BY <1>5, <1>12
    <3> HIDE DEF rules
    <3> QED BY <3>1, <3>2, <1>5, <1>9 DEF Before
  <2>2. {j \in rules : Before(db', j, i)} = {j \in rules : q[j] < q[i]} BY <2>1
  <2> HIDE DEF rules
  <2>3. Cardinality({j \in rules : q[j] < q[i]}) = q[i]
    BY <1>5, <1>7, <1>8, RankIsNumber
  <2> QED BY <2>2, <2>3
<1>15. new = q
  <2>1. new = [i \in rules |-> Cardinality({j \in rules : Before(db', j, i)})]
    BY <1>13, Zenon DEF ListRules
  <2> HIDE DEF rules, new
  <2>2. new = [i \in rules |-> q[i]] BY <1>14, <2>1
  <2>3. q = [i \in rules |-> q[i]] BY <1>7 DEF Injection
  <2> QED BY <2>2, <2>3
<1> QED BY <1>7, <1>9, <1>15 DEF q, o, k

\* Only its own step ends a move.
LEMMA MovesEnd ==
  ASSUME IInv, Next, NEW w \in Workers, work[w].pc = "move", work'[w].pc = "idle"
  PROVE  MoveRule(w)
<1>1. DOMAIN work = Workers /\ DOMAIN work[w] = DOMAIN Idle /\ work[w].disturbed \in BOOLEAN
  BY DEF IInv, WorkersFine, WorkerFine
<1>2. Disturb(work[w]).pc = "move" BY <1>1, DisturbIs
<1>3. CASE Edit
  BY <1>2, <1>3 DEF Edit
<1>4. ASSUME NEW g \in Workers, Work(g), g # w PROVE FALSE
  <2>1. \/ \E r : Begin(g, r) \/ Read(g, r)
        \/ Wrote(g)
    BY <1>4 DEF Work, AskFrontends, AskDomains, BackendDelete, BeginMove, MoveRule, ResolveNames,
                ToolSaves, ListFrontends, ListBackends, RenderFrontend, RenderBackends, Rendered
  <2>2. work'[w] = work[w] \/ work'[w] = Disturb(work[w])
    BY <1>1, <1>4, <2>1 DEF Begin, Read, Wrote
  <2> QED BY <1>2, <2>2
<1>5. CASE Work(w)
  BY <1>5 DEF Work, AskFrontends, AskDomains, BackendDelete, BeginMove, ResolveNames,
              ToolSaves, ListFrontends, ListBackends, RenderFrontend, RenderBackends, Rendered, Begin
<1> QED BY <1>3, <1>4, <1>5 DEF Next

-----------------------------------------------------------------------------
(* The theorems.                                                           *)

\* The tables at the start are those of a database that was only ever filled.
LEMMA InitHolds == Init => IInv
<1> SUFFICES ASSUME Init PROVE IInv
  OBVIOUS
<1>1. Shaped(db, last) /\ OwnersGiven(db, last) /\ RoutesLead(db)
  BY StartAssumption DEF Init
<1>2. edits \in 0..MaxEdits /\ begun \in 0..MaxWork /\ raced \in BOOLEAN
  <2>1. edits = 0 /\ begun = 0 /\ raced = FALSE BY Zenon DEF Init
  <2>2. MaxEdits \in Nat /\ MaxWork \in Nat BY BoundsAssumption
  <2>3. raced \in BOOLEAN BY <2>1
  <2> QED BY <2>1, <2>2, <2>3
<1>3. WorkersFine
  BY IdleIsFine DEF Init, WorkersFine
<1> QED BY <1>1, <1>2, <1>3 DEF IInv, TypeOK, EveryRouteLeads

\* Every reachable state satisfies the inductive invariant: besides the schema, what each
\* worker has read still holds of the database unless it has been disturbed.
THEOREM InductiveInvariant == Spec => []IInv
<1>1. IInv /\ [Next]_vars => IInv'
  <2> SUFFICES ASSUME IInv, [Next]_vars PROVE IInv'
    OBVIOUS
  <2>1. CASE Next BY <2>1, StepHeld DEF Held
  <2>2. CASE UNCHANGED vars
    BY <2>2 DEF vars, IInv, TypeOK, EveryRouteLeads, WorkersFine
  <2> QED BY <2>1, <2>2
<1> QED BY <1>1, InitHolds, PTL DEF Spec

\* Whatever forms, tools, deletes and moves run in whatever order, rows refer to rows
\* that exist and respect the keys: the statements need the schema of db.go only.
THEOREM TypeCorrect == Spec => []TypeOK
<1>1. IInv => TypeOK BY DEF IInv
<1> QED BY <1>1, InductiveInvariant, PTL

\* A route that leads nowhere needs a reference made between the check and the delete of
\* a backend, or a check that failed: no other order of forms and tools leaves one.
THEOREM RoutesAlwaysLead == Spec => []EveryRouteLeads
<1>1. IInv => EveryRouteLeads BY DEF IInv
<1> QED BY <1>1, InductiveInvariant, PTL

\* The renderer's queries may each see another database, yet every backend it names has
\* a section in the text.
THEOREM RenderedResolves == Spec => []RenderedReferencesResolve
<1>1. IInv => RenderedReferencesResolve
  BY DEF IInv, WorkersFine, WorkerFine, Resolves, RenderedReferencesResolve
<1> QED BY <1>1, InductiveInvariant, PTL

\* Ids are never given again, so an ACL or rule saved for an owner that has gone never
\* becomes part of a new one.
THEOREM NewOwnersEmpty == Spec => NewOwnersStartEmpty
<1>1. IInv /\ [Next]_vars =>
        [\A o \in Owners : \A id \in DOMAIN db'[o] \ DOMAIN db[o] :
           \A t \in {"acls", "rules"} : \A i \in DOMAIN db'[t] :
             ~(db'[t][i].scope = o /\ db'[t][i].owner = id)]_vars
  <2> SUFFICES ASSUME IInv, Next PROVE OwnersStartEmpty
    BY DEF OwnersStartEmpty
  <2> QED BY StepHeld DEF Held
<1> QED BY <1>1, InductiveInvariant, PTL DEF Spec, NewOwnersStartEmpty

\* set_default_backend writes back the whole row it has read: unless the frontends were
\* changed in between, their names and switches stay.
THEOREM ToolsKeepFrontends == Spec => ToolKeepsFrontend
<1>1. IInv /\ [Next]_vars =>
        [\A w \in Workers, f \in DOMAIN db["frontends"] \cap DOMAIN db'["frontends"] :
           work[w].pc = "tool" /\ work'[w].pc = "idle" /\ ~work[w].disturbed =>
             /\ db'["frontends"][f].name = db["frontends"][f].name
             /\ db'["frontends"][f].enabled = db["frontends"][f].enabled]_vars
  <2> SUFFICES ASSUME IInv, Next PROVE ToolsKeep
    BY DEF ToolsKeep
  <2> QED BY StepHeld DEF Held
<1> QED BY <1>1, InductiveInvariant, PTL DEF Spec, ToolKeepsFrontend

\* A move exchanges a rule with its neighbour: counting the rules before each one in the
\* new order gives the places it was given, those of all other rules unchanged.
THEOREM MovesSwap == Spec => MoveSwaps
<1>1. IInv /\ [Next]_vars =>
        [\A w \in Workers :
           work[w].pc = "move" /\ work'[w].pc = "idle" /\ ~work[w].disturbed =>
             LET r == db["rules"][work[w].id]
                 old == ListRules(db, r.scope, r.owner)
                 new == ListRules(db', r.scope, r.owner)
                 there == old[work[w].id] + work[w].delta
             IN IF \E j \in DOMAIN old : old[j] = there
                THEN /\ new[work[w].id] = there
                     /\ \A j \in DOMAIN old \ {work[w].id} :
                          new[j] = IF old[j] = there THEN old[work[w].id] ELSE old[j]
                ELSE new = old]_vars
  <2> SUFFICES ASSUME IInv, Next, NEW w \in Workers,
                      work[w].pc = "move", work'[w].pc = "idle", ~work[w].disturbed
               PROVE  LET r == db["rules"][work[w].id]
                          old == ListRules(db, r.scope, r.owner)
                          new == ListRules(db', r.scope, r.owner)
                          there == old[work[w].id] + work[w].delta
                      IN IF \E j \in DOMAIN old : old[j] = there
                         THEN /\ new[work[w].id] = there
                              /\ \A j \in DOMAIN old \ {work[w].id} :
                                   new[j] = IF old[j] = there THEN old[work[w].id] ELSE old[j]
                         ELSE new = old
    BY Zenon
  <2>1. MoveRule(w) BY MovesEnd
  <2> QED BY <2>1, MoveRuleSwaps, Zenon
<1> QED BY <1>1, InductiveInvariant, PTL DEF Spec, MoveSwaps
=============================================================================
