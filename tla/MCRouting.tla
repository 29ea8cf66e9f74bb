----------------------------- MODULE MCRouting -----------------------------
(***************************************************************************)
(* Three families of configurations: two routes of every kind that may     *)
(* overlap; one route with every state of binds, rules, backends and       *)
(* servers; two snippets of every pair of kinds.                           *)
(***************************************************************************)
EXTENDS Routing

Shop == <<"shop">>
WwwShop == <<"www", "shop">>
DeepShop == <<"a", "www", "shop">>

MCHostnames == <<<<"*", "shop">>, Shop, WwwShop>>
\* Only the last two are regular expressions; they match anywhere in the host.
MCRegex == <<{}, {Shop, WwwShop, DeepShop, <<"myshop">>}, {WwwShop, DeepShop}>>

MCRequests ==
  [host : {Shop, WwwShop, DeepShop, <<"myshop">>}, path : {<<"x">>, <<"a", "b">>},
   tls : BOOLEAN, fast : {FALSE}]
  \cup [host : {Shop}, path : {<<"x">>}, tls : BOOLEAN, fast : {TRUE}]

Row(id, host, path, dest, force, order, enabled) ==
  [id |-> id, hostname |-> host[1], match |-> host[2], path |-> path, redirect |-> dest[1],
   force |-> force, backend |-> dest[2], enabled |-> enabled, order |-> order]

Hosts == (1..3) \X {"exact", "subdomain", "wildcard", "regex"} \ {<<1, "regex">>}
Paths == {<<>>, <<"a">>}
Dests == {<<TRUE, None>>, <<FALSE, "up">>, <<FALSE, "down">>, <<FALSE, None>>, <<TRUE, "up">>}

Server(on, cookie) == [enabled |-> on, cookie |-> cookie]
BackendRow(rank, on, cookie, servers) ==
  [rank |-> rank, enabled |-> on, cookie |-> cookie, servers |-> servers]
On1 == <<[enabled |-> TRUE]>>
Backends == [up |-> BackendRow(2, TRUE, FALSE, <<Server(TRUE, FALSE)>>),
             other |-> BackendRow(1, TRUE, FALSE, <<Server(TRUE, TRUE)>>),
             down |-> BackendRow(3, FALSE, FALSE, <<>>)]
Default(on, id) == [enabled |-> on, id |-> id]

FrontendRow(http, force, limited, default, binds, rules) ==
  [http |-> http, force |-> force, limited |-> limited, default |-> default, binds |-> binds,
   rules |-> rules]

RoutePairs ==
  {{r, q} :
     r \in {Row(1, host, path, dest, force, 1, TRUE) :
              host \in Hosts, path \in Paths, dest \in Dests, force \in BOOLEAN},
     q \in {Row(2, host, path, dest, FALSE, order, TRUE) :
              host \in Hosts, path \in Paths, order \in {0, 1},
              dest \in {<<TRUE, None>>, <<FALSE, "down">>, <<FALSE, "other">>}}}

RouteFamily ==
  [frontend : {FrontendRow(TRUE, FALSE, FALSE, "other", On1, <<>>),
               FrontendRow(TRUE, TRUE, FALSE, None, On1, <<>>),
               FrontendRow(TRUE, FALSE, FALSE, "down", On1, <<>>)},
   routes : RoutePairs, backends : {Backends}, defaults : {<<Default(TRUE, 1)>>}, snippets : {<<>>}]

Rule(on, directive, arg, where) ==
  [enabled |-> on, directive |-> directive, arg |-> arg, on |-> where]

ServiceFamily ==
  [frontend :
     {FrontendRow(http, FALSE, limited, default, binds, rules) :
        http \in BOOLEAN, limited \in BOOLEAN, default \in {None, "up", "down"},
        binds \in {<<>>, <<[enabled |-> FALSE]>>, On1},
        rules \in {<<>>, <<Rule(TRUE, "http-request", None, "clear")>>,
                   <<Rule(FALSE, "http-request", None, "any"),
                     Rule(TRUE, "use_backend", "up", "any")>>,
                   <<Rule(TRUE, "use_backend", "down", "clear")>>}},
   routes : {{Row(1, <<2, "exact">>, <<>>, dest, FALSE, 0, on)} : dest \in Dests, on \in BOOLEAN},
   backends :
     {[up |-> BackendRow(1, TRUE, cookie, servers), down |-> BackendRow(2, FALSE, FALSE, <<>>)] :
        cookie \in BOOLEAN,
        servers \in {<<>>, <<Server(FALSE, TRUE)>>, <<Server(TRUE, FALSE)>>,
                     <<Server(TRUE, TRUE), Server(FALSE, FALSE)>>}},
   defaults : {<<>>}, snippets : {<<>>}]

SnippetFamily ==
  [frontend : {FrontendRow(TRUE, FALSE, FALSE, "up", On1, <<>>)}, routes : {{}},
   backends : {Backends},
   defaults : {<<>>, <<Default(TRUE, 1)>>, <<Default(TRUE, 1), Default(FALSE, 2)>>,
               <<Default(TRUE, 1), Default(TRUE, 2)>>},
   snippets : {<<[id |-> 1, section |-> a, enabled |-> TRUE],
                 [id |-> 2, section |-> b, enabled |-> on]>> :
                 a \in SectionTypes, b \in SectionTypes, on \in BOOLEAN}]

MCFamilies == <<RouteFamily, ServiceFamily, SnippetFamily>>
=============================================================================
