----------------------------- MODULE MCDeployer -----------------------------
(***************************************************************************)
(* Two requests at a time, failures and crashes: a needs a certificate, b  *)
(* has an error page instead.  The check refuses either when its files     *)
(* were edited away since it was rendered, or when it cannot be run.  The  *)
(* handlers are interchangeable, and no property names one.                *)
(***************************************************************************)
EXTENDS Deployer, TLC

CONSTANTS a, b, page, cert

MCFilesOf == [x \in Contents |-> IF x = a THEN {cert} ELSE IF x = b THEN {page} ELSE {}]
HandlerSymmetry == Permutations(Handlers)
=============================================================================
