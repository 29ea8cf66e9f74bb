------------------------------ MODULE Routing ------------------------------
(***************************************************************************)
(* What the renderer writes (hap/render.go, hap/render_proxy.go) and what  *)
(* HAProxy then does with a request.  The file is a sequence of sections,  *)
(* a section a sequence of directives; of a directive only what decides    *)
(* where a request goes is kept.  HAProxy's reading of the file is         *)
(* external, and so is the regular expression engine.                      *)
(*                                                                         *)
(* A hostname is a sequence of labels and a path a sequence of characters, *)
(* so that suffix and prefix mean what they mean in the file.  One         *)
(* frontend is enough: routes, rules and binds belong to one.              *)
(***************************************************************************)
EXTENDS Integers, Sequences, FiniteSets, SequencesExt

CONSTANTS
  Hostnames,    \* the routes' hostnames, in the order the database sorts them
  Regex,        \* Regex[n]: hosts Hostnames[n] matches as a regular expression
  Requests,     \* requests: host, path, over TLS or not, above the rate or not
  Families      \* contents of the database to render: a sequence of sets

None == "none"

VARIABLES
  config,       \* what the database holds
  file,         \* the rendered file, empty before Render
  warnings      \* the warnings of Result

vars == <<config, file, warnings>>

\* A row of the table domains.  One that lost its backend (ON DELETE SET NULL)
\* may have neither a backend nor a redirect.
Domain(backends) ==
  [id : Nat, hostname : DOMAIN Hostnames, match : {"exact", "subdomain", "wildcard", "regex"},
   path : Seq(STRING), redirect : BOOLEAN, force : BOOLEAN, backend : backends \cup {None},
   enabled : BOOLEAN, order : Int]

SectionTypes ==
  {"global-extra", "defaults-extra", "listen", "resolvers", "peers", "userlist", "cache", "ring",
   "mailers", "http-errors", "program", "fcgi-app", "log-forward", "crt-store", "traces", "raw"}

Snippet == [id : Nat, section : SectionTypes, enabled : BOOLEAN]

Backend ==
  [rank : Int, enabled : BOOLEAN, cookie : BOOLEAN,
   servers : Seq([enabled : BOOLEAN, cookie : BOOLEAN])]

\* The shapes of the tables, and their keys: ids are unique, and so are the names
\* the backends are listed by.
WellFormed(c) ==
  /\ IsFiniteSet(c.routes) /\ c.routes \subseteq Domain(DOMAIN c.backends)
  /\ \A d, e \in c.routes : d.id = e.id => d = e
  /\ c.frontend \in
       [http : BOOLEAN, force : BOOLEAN, limited : BOOLEAN,
        default : DOMAIN c.backends \cup {None}, binds : Seq([enabled : BOOLEAN]),
        rules : Seq([enabled : BOOLEAN, directive : {"http-request", "use_backend"},
                     arg : STRING, on : {"any", "clear"}])]
  /\ IsFiniteSet(DOMAIN c.backends) /\ None \notin DOMAIN c.backends
  /\ c.backends \in [DOMAIN c.backends -> Backend]
  /\ \A a, b \in DOMAIN c.backends : c.backends[a].rank = c.backends[b].rank => a = b
  /\ c.defaults \in Seq([enabled : BOOLEAN, id : Nat])
  /\ c.snippets \in Seq(Snippet)
  /\ \A i, j \in DOMAIN c.snippets : c.snippets[i].id = c.snippets[j].id => i = j

ASSUME HostnamesAssumption == Hostnames \in Seq(Seq(STRING))
ASSUME RequestsAssumption ==
  \A req \in Requests :
    req \in [host : Seq(STRING), path : Seq(STRING), tls : BOOLEAN, fast : BOOLEAN]
ASSUME FamiliesAssumption == \A k \in DOMAIN Families : \A c \in Families[k] : WellFormed(c)

-----------------------------------------------------------------------------
(* Directives.                                                             *)

Opt(b, lines) == IF b THEN lines ELSE <<>>

\* What a loop over rows writes that passes over the disabled ones.
Written(rows, lines(_)) ==
  FlattenSeq([k \in DOMAIN rows |-> Opt(rows[k].enabled, lines(rows[k]))])

AnyEnabled(rows) == \E k \in DOMAIN rows : rows[k].enabled
AclLine(name, how, arg) == [kind |-> "acl", name |-> name, how |-> how, arg |-> arg]

Bare(h) == IF h # <<>> /\ h[1] = "*" THEN Tail(h) ELSE h

\* Mutant: two routes for the same host share their names.
NameOfHost(prefix, d) == <<prefix, Bare(Hostnames[d.hostname])>>

\* Sanitizing a hostname drops the star and confuses hostnames that differ in
\* punctuation: only the id tells routes apart.
AclName(prefix, d) == <<prefix, Bare(Hostnames[d.hostname]), d.id>>

HostACLLines(name, d) ==
  LET h == Hostnames[d.hostname] IN
  CASE d.match = "subdomain" -> <<AclLine(name, "str", Bare(h)), AclLine(name, "end", Bare(h))>>
    [] d.match = "wildcard" -> <<AclLine(name, "end", Bare(h))>>
    [] d.match = "regex" -> <<AclLine(name, "reg", d.hostname)>>
    [] OTHER -> <<AclLine(name, "str", h)>>

RouteACLs(d) ==
  HostACLLines(AclName("host", d), d)
    \o Opt(d.path # <<>>, <<AclLine(AclName("path", d), "beg", d.path)>>)

Cond(d) == {AclName("host", d)} \cup IF d.path = <<>> THEN {} ELSE {AclName("path", d)}

\* An http-request, use_backend or default_backend line: what it does, the ACLs
\* it needs, and the connections it is for.
Act(kind, do, cond, on) == [kind |-> kind, do |-> do, cond |-> cond, on |-> on]

RouteRedirects(f, d) ==
  Opt(d.force /\ ~f.force /\ f.http, <<Act("http-request", <<"https">>, Cond(d), "clear")>>)
    \o Opt(d.redirect, <<Act("http-request", <<"location", d.id>>, Cond(d), "any")>>)

\* Mutant: the parts of a rule are joined in the wrong order.
ArgumentFirst(r) == Act(r.arg, <<r.directive>>, {}, r.on)

RenderRule(r) ==
  Act(r.directive, IF r.directive = "use_backend" THEN <<"backend", r.arg>> ELSE <<"deny">>,
      {}, r.on)

BackendUp(b) == b \in DOMAIN config.backends /\ config.backends[b].enabled

UseBackend(d) == Opt(d.backend # None /\ BackendUp(d.backend),
                     <<Act("use_backend", <<"backend", d.backend>>, Cond(d), "any")>>)

-----------------------------------------------------------------------------
(* Sections.                                                               *)

Section(kind, name, lines) == [kind |-> kind, name |-> name, lines |-> lines]
SnippetLine(s) == [kind |-> "snippet", id |-> s.id]
OfKind(kind, lines(_)) == Written(config.snippets, LAMBDA s : Opt(s.section = kind, lines(s)))
SnippetLines(kind) == OfKind(kind, LAMBDA s : <<SnippetLine(s)>>)
OwnSection(s) == Section(s.section, s.id, <<SnippetLine(s)>>)

RenderGlobal == Section("global", None, SnippetLines("global-extra"))
RenderDefaults(d) == Section("defaults", d.id, SnippetLines("defaults-extra"))

\* Mutant: a kind of section nobody added here.
OrderWithoutTraces ==
  <<"crt-store", "resolvers", "userlist", "peers", "cache", "ring", "mailers", "log-forward",
    "program", "fcgi-app">>

SectionOrder ==
  <<"crt-store", "resolvers", "userlist", "peers", "cache", "ring", "mailers", "log-forward",
    "program", "fcgi-app", "traces">>

OwnSections(kind) == OfKind(kind, LAMBDA s : <<OwnSection(s)>>)
InOrder(kinds) == FlattenSeq([k \in DOMAIN kinds |-> OwnSections(kinds[k])])
RenderSectionSnippets == InOrder(SectionOrder)
RenderTrailingSnippets == InOrder(<<"listen", "raw", "http-errors">>)

RenderFrontend(f, routes) ==
  Section("frontend", "f",
    Written(f.binds, LAMBDA b : <<[kind |-> "bind"]>>)
    \o Opt(f.limited, <<Act("http-request", <<"deny">>, {}, "fast")>>)
    \o Written(routes, RouteACLs)
    \o Opt(f.http /\ f.force, <<Act("http-request", <<"https">>, {}, "clear")>>)
    \o Written(routes, LAMBDA d : RouteRedirects(f, d))
    \o Written(f.rules, LAMBDA r : <<RenderRule(r)>>)
    \o Written(routes, UseBackend)
    \o Opt(f.default # None /\ BackendUp(f.default),
           <<Act("default_backend", <<"backend", f.default>>, {}, "any")>>))

\* Mutant: a skipped route is not reported.
SkipInSilence(routes) == {}

SkippedRoutes(routes) ==
  {<<"skipped", routes[k].id>> :
     k \in {k \in DOMAIN routes :
             routes[k].enabled /\ routes[k].backend # None /\ ~BackendUp(routes[k].backend)}}

Warn(b, w) == IF b THEN {w} ELSE {}

FrontendWarnings(f, routes) ==
  Warn(~AnyEnabled(f.binds), <<"no bind">>) \cup SkippedRoutes(routes)
    \cup Warn(f.default \in DOMAIN config.backends /\ ~BackendUp(f.default), <<"default disabled">>)
    \cup Warn(f.default = None /\ ~AnyEnabled(routes), <<"no destination">>)

\* A server's cookie is written only in a backend that sets one.
ServerLine(bk, sv) == [kind |-> "server", cookie |-> sv.cookie /\ bk.cookie]

RenderBackend(b) ==
  LET bk == config.backends[b] IN
  Section("backend", b, Written(bk.servers, LAMBDA sv : <<ServerLine(bk, sv)>>))

BackendWarnings(b) ==
  LET bk == config.backends[b]  servers == bk.servers IN
  Warn(~AnyEnabled(servers), <<"no server", b>>)
    \cup Warn(bk.cookie /\ \E k \in DOMAIN servers : servers[k].enabled /\ ~servers[k].cookie,
              <<"no cookie", b>>)

-----------------------------------------------------------------------------
(* Rendering.                                                              *)

Before(d, e) == d.order < e.order \/ (d.order = e.order /\ d.hostname <= e.hostname)

\* ORDER BY order_index, hostname: rows equal in both come in any order.
ListDomainsByFrontend ==
  {list \in SetToSeqs(config.routes) :
     \A i, j \in DOMAIN list : i < j => Before(list[i], list[j])}

\* ORDER BY order_index, name, which rank stands for; those that are rendered.
ListBackends ==
  {list \in SetToSeqs({b \in DOMAIN config.backends : config.backends[b].enabled}) :
     \A i, j \in DOMAIN list :
       i < j => config.backends[list[i]].rank < config.backends[list[j]].rank}

Content(routes, backends) ==
  <<RenderGlobal>> \o RenderSectionSnippets
    \o Written(config.defaults, LAMBDA d : <<RenderDefaults(d)>>)
    \o <<RenderFrontend(config.frontend, routes)>>
    \o [k \in DOMAIN backends |-> RenderBackend(backends[k])] \o RenderTrailingSnippets

Warnings(routes, backends) ==
  FrontendWarnings(config.frontend, routes)
    \cup UNION {BackendWarnings(backends[k]) : k \in DOMAIN backends}

Render ==
  \E routes \in ListDomainsByFrontend, backends \in ListBackends :
    /\ file = <<>>
    /\ file' = Content(routes, backends)
    /\ warnings' = Warnings(routes, backends)
    /\ UNCHANGED config

Init == (\E k \in DOMAIN Families : config \in Families[k]) /\ file = <<>> /\ warnings = {}
Next == Render
Spec == Init /\ [][Next]_vars

-----------------------------------------------------------------------------
(* HAProxy on the file.  An ACL written twice holds when either line does; *)
(* a line acts when all its ACLs hold; the first http-request that acts    *)
(* wins, then the first use_backend, then the default.                     *)

Frontend == file[CHOOSE k \in DOMAIN file : file[k].kind = "frontend"].lines

StrictSuffix(tail, host) == Len(tail) < Len(host) /\ IsSuffix(tail, host)

Tests(l, req) ==
  CASE l.how = "str" -> req.host = l.arg
    [] l.how = "end" -> StrictSuffix(l.arg, req.host)
    [] l.how = "reg" -> req.host \in Regex[l.arg]
    [] OTHER -> IsPrefix(l.arg, req.path)

Holds(name, req) ==
  \E k \in DOMAIN Frontend :
    Frontend[k].kind = "acl" /\ Frontend[k].name = name /\ Tests(Frontend[k], req)

On(on, req) == CASE on = "clear" -> ~req.tls [] on = "fast" -> req.fast [] OTHER -> TRUE
Acts(l, req) == On(l.on, req) /\ \A name \in l.cond : Holds(name, req)

Acting(kind, req) ==
  {k \in DOMAIN Frontend : Frontend[k].kind = kind /\ Acts(Frontend[k], req)}

Answer(req) ==
  LET first(kind) == Frontend[Min(Acting(kind, req))].do IN
  IF Acting("http-request", req) # {} THEN first("http-request")
  ELSE IF Acting("use_backend", req) # {} THEN first("use_backend")
  ELSE IF Acting("default_backend", req) # {} THEN first("default_backend") ELSE <<None>>

\* The check of the file before it is put in service.
Accepted ==
  \A k \in DOMAIN Frontend :
    Frontend[k].kind \in {"use_backend", "default_backend"} =>
      \E s \in DOMAIN file : file[s].kind = "backend" /\ file[s].name = Frontend[k].do[2]

-----------------------------------------------------------------------------
(* What the rows mean.                                                     *)

MatchesHost(d, host) ==
  LET h == Hostnames[d.hostname] IN
  \/ d.match = "exact" /\ host = h
  \/ d.match = "subdomain" /\ IsSuffix(Bare(h), host)
  \/ d.match = "wildcard" /\ StrictSuffix(Bare(h), host)
  \/ d.match = "regex" /\ host \in Regex[d.hostname]

Covering(req) ==
  {d \in config.routes : d.enabled /\ MatchesHost(d, req.host) /\ IsPrefix(d.path, req.path)}

First(routes) == {d \in routes : \A e \in routes : Before(d, e)}

FirstRule(kind, req) ==
  LET rules == config.frontend.rules
      acting == {k \in DOMAIN rules :
                   rules[k].enabled /\ rules[k].directive = kind /\ On(rules[k].on, req)}
  IN IF acting = {} THEN {} ELSE {rules[Min(acting)]}

\* Where the rows send a request: the rate limit, the frontend's redirect, the
\* first route that redirects, the operator's rules, the first route with an
\* enabled backend, the default.  Redirects "must precede routing decisions"
\* (render_proxy.go:146): the routes' order compares redirects with redirects and
\* backends with backends, and a redirect goes before any backend whatever its
\* order.  The form of a route promises more: LowerIsMatchedFirst below.
Intended(req) ==
  LET f == config.frontend
      insists(d) == d.force /\ ~req.tls
      redirecting == {d \in Covering(req) : insists(d) \/ d.redirect}
      serving == {d \in Covering(req) : d.backend # None /\ BackendUp(d.backend)}
  IN IF f.limited /\ req.fast THEN {<<"deny">>}
     ELSE IF f.force /\ ~req.tls THEN {<<"https">>}
     ELSE IF redirecting # {}
       THEN {IF insists(d) THEN <<"https">> ELSE <<"location", d.id>> : d \in First(redirecting)}
     ELSE IF FirstRule("http-request", req) # {} THEN {<<"deny">>}
     ELSE IF FirstRule("use_backend", req) # {}
       THEN {<<"backend", r.arg>> : r \in FirstRule("use_backend", req)}
     ELSE IF serving # {} THEN {<<"backend", d.backend>> : d \in First(serving)}
     ELSE IF f.default # None /\ BackendUp(f.default) THEN {<<"backend", f.default>>}
     ELSE {<<None>>}

-----------------------------------------------------------------------------
\* Rows have their shape, and every directive of the frontend is of a known kind.
TypeOK ==
  /\ \A d \in config.routes : d \in Domain(DOMAIN config.backends)
  /\ \A k \in DOMAIN config.snippets : config.snippets[k] \in Snippet
  /\ file # <<>> =>
       /\ \E k \in DOMAIN file : \A q \in DOMAIN file : file[q].kind = "frontend" <=> q = k
       /\ \A k \in DOMAIN Frontend :
            Frontend[k].kind \in {"bind", "acl", "http-request", "use_backend", "default_backend"}

\* The same read off the order of the routes alone.  Of those that cover a request and
\* have something to do with it, the first in order decides.
Redirects(d, req) == (d.force /\ ~req.tls) \/ d.redirect
Deciding(req) ==
  {d \in Covering(req) : Redirects(d, req) \/ (d.backend # None /\ BackendUp(d.backend))}
Destination(d, req) ==
  IF d.force /\ ~req.tls THEN <<"https">>
  ELSE IF d.redirect THEN <<"location", d.id>> ELSE <<"backend", d.backend>>
FirstDecides(req) ==
  Deciding(req) # {} => Answer(req) \in {Destination(d, req) : d \in First(Deciding(req))}

\* A redirect that goes before a route it should come after.
Overtaken(req) ==
  /\ \E d \in Deciding(req) : Redirects(d, req)
  /\ \A d \in First(Deciding(req)) : ~Redirects(d, req)

\* A frontend with no rate limit, no redirect and no rules of its own.
Plain == LET f == config.frontend IN ~f.limited /\ ~f.force /\ f.rules = <<>>

\* HAProxy, reading the rendered frontend, sends every request where the rows of
\* the database say: no route catches a request of another one, whatever their
\* hostnames, match types and paths.  Where nothing but the routes has a say, the
\* first in order decides, unless it is overtaken by a redirect.
RoutedAsStored ==
  file # <<>> /\ config.frontend.http =>
    \A req \in Requests :
      Answer(req) \in Intended(req) /\ (Plain => FirstDecides(req) \/ Overtaken(req))

\* "Lower values are matched first" (domain_edit.html:69, the hint of a route's order):
\* one with the lowest value decides, without the exception.  The code does not give it:
\* it writes every redirect before every backend.
LowerIsMatchedFirst ==
  file # <<>> /\ config.frontend.http /\ Plain =>
    \A req \in Requests :
      LET S == Deciding(req)  lowest == {d \in S : \A e \in S : d.order <= e.order} IN
      S # {} => Answer(req) \in {Destination(d, req) : d \in lowest}

Appears(s) ==
  UNION {{<<k, j>> : j \in {j \in DOMAIN file[k].lines : file[k].lines[j] = SnippetLine(s)}} :
           k \in DOMAIN file}

Home(s) == CASE s.section = "global-extra" -> "global" [] s.section = "defaults-extra" -> "defaults"
             [] OTHER -> s.section

Times(s) == IF ~s.enabled THEN 0
            ELSE IF s.section = "defaults-extra"
              THEN Cardinality({k \in DOMAIN config.defaults : config.defaults[k].enabled})
              ELSE 1

\* Every enabled snippet of every kind the panel offers is written once, in its own
\* kind of section (in every defaults section for defaults-extra), a disabled one
\* nowhere, and "sections that others reference are emitted before the proxies
\* that use them" (render.go:275).
SnippetsInPlace ==
  file # <<>> =>
    \A k \in DOMAIN config.snippets :
      LET s == config.snippets[k] IN
      /\ Cardinality(Appears(s)) = Times(s)
      /\ \A p \in Appears(s) :
           /\ file[p[1]].kind = Home(s)
           /\ s.section \notin {"listen", "raw", "http-errors"} =>
                \A q \in DOMAIN file : file[q].kind \in {"frontend", "backend"} => p[1] < q

HasDestination(d) == d.redirect \/ d.backend # None

\* A file that is accepted and rendered without a warning serves: HAProxy listens,
\* and a request that an enabled route with a destination covers is redirected,
\* denied by a rule, or reaches a backend with a server; and where a backend sets a
\* cookie, every server has one to stick to.
QuietMeansServed ==
  file # <<>> /\ config.frontend.http /\ Accepted /\ warnings = {} =>
    /\ \E k \in DOMAIN Frontend : Frontend[k].kind = "bind"
    /\ \A req \in Requests :
         (\E d \in Covering(req) : HasDestination(d)) =>
           /\ Answer(req) # <<None>>
           /\ Answer(req)[1] = "backend" =>
                \E s \in DOMAIN file : file[s].kind = "backend" /\ file[s].name = Answer(req)[2]
                                        /\ file[s].lines # <<>>
    /\ \A s \in DOMAIN file : file[s].kind = "backend" /\ config.backends[file[s].name].cookie =>
         \A k \in DOMAIN file[s].lines : file[s].lines[k].cookie
=============================================================================
