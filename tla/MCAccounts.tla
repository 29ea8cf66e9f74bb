----------------------------- MODULE MCAccounts -----------------------------
(***************************************************************************)
(* Two administrators and two requests at a time: every pair of requests   *)
(* about accounts meets.  The handlers are interchangeable, and so are the *)
(* passwords; no property names one.                                       *)
(***************************************************************************)
EXTENDS Accounts, TLC

Interchangeable == Permutations(Handlers) \cup Permutations(Passwords)
=============================================================================
