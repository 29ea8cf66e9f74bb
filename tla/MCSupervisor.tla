---------------------------- MODULE MCSupervisor ----------------------------
(***************************************************************************)
(* Supervisor with two concurrent requests and the shutdown of the         *)
(* controller.  One of them reloads, the other reloads or restarts: that   *)
(* leaves out two restarts at once, and each pair a second time with the   *)
(* requests exchanged.  The proofs are about any number of requests that   *)
(* may each do both.                                                       *)
(***************************************************************************)
EXTENDS Supervisor, TLC

CONSTANTS h1, h2

MCOffered == (h1 :> {"reload"}) @@ (h2 :> {"reload", "restart"})
=============================================================================
