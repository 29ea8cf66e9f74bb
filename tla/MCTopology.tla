----------------------------- MODULE MCTopology -----------------------------
(***************************************************************************)
(* One frontend with a default backend and a route, a second backend that  *)
(* nothing uses, and two rules: every reference and every order is there   *)
(* to be broken.  The workers are interchangeable.                         *)
(***************************************************************************)
EXTENDS Topology, TLC

CONSTANTS n1, n2

MCStart ==
  [t \in {"frontends", "backends", "binds", "servers", "domains", "acls", "rules"} |->
     CASE t = "frontends" -> <<[name |-> n1, enabled |-> TRUE, default |-> 1]>>
       [] t = "backends" -> <<[name |-> n1, enabled |-> TRUE], [name |-> n2, enabled |-> TRUE]>>
       [] t = "domains" -> <<[frontend |-> 1, backend |-> 1, redirects |-> FALSE, enabled |-> TRUE]>>
       [] t = "rules" -> [i \in 1..2 |-> [scope |-> "frontends", owner |-> 1, order |-> 0]]
       [] OTHER -> <<>>]
MCMaxId ==
  [t \in {"frontends", "backends", "binds", "servers", "domains", "acls", "rules"} |->
     CASE t = "frontends" -> 2 [] t = "backends" -> 3 [] t = "domains" -> 2
       [] t = "rules" -> 3 [] OTHER -> 1]
Interchangeable == Permutations(Workers)
=============================================================================
