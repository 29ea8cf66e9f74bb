---------------------------- MODULE AtomicDeploy ----------------------------
(***************************************************************************)
(* What Save & Apply and Roll back promise an operator who works alone:    *)
(* haproxy.cfg and the version log change together, in one step per        *)
(* request.  disk is the content of haproxy.cfg, log the versions by id.   *)
(***************************************************************************)
EXTENDS Integers, Sequences

CONSTANTS Contents, Nothing, VersionKeep
VARIABLES disk, log

\* The log with one more entry, as the newest.
Plus(c, s) == Append(log, [content |-> c, status |-> s])

Kept(l) == [v \in DOMAIN l |->
              IF v + VersionKeep <= Len(l) THEN [l[v] EXCEPT !.status = "deleted"] ELSE l[v]]

Init == disk = Nothing /\ log = << >>

\* The configuration is on disk and the log says so; old entries go.
Applied(c) == disk' = c /\ log' = Kept(Plus(c, "applied"))

\* The check refused it: nothing but the log knows.
Rejected(c) == disk' = disk /\ log' = Plus(c, "failed")

\* HAProxy refused it: the file is as before.  With no file before, it stays.
Undone(c) ==
  /\ disk' = IF disk = Nothing THEN c ELSE disk
  /\ log' = Plus(c, "failed")

\* An old version is on disk again, as a new entry.
RolledBack(v) ==
  /\ log[v].status # "deleted"
  /\ disk' = log[v].content
  /\ log' = [Plus(log[v].content, "applied") EXCEPT ![v].status = "rolled_back"]

\* HAProxy refused the old version: the file stays replaced, the log says nothing.
NotRolledBack(v) ==
  /\ log[v].status # "deleted"
  /\ disk' = log[v].content
  /\ log' = log

Next ==
  \/ \E c \in Contents : Applied(c) \/ Rejected(c) \/ Undone(c)
  \/ \E v \in DOMAIN log : RolledBack(v) \/ NotRolledBack(v)

Spec == Init /\ [][Next]_<<disk, log>>
=============================================================================
