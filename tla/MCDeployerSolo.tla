--------------------------- MODULE MCDeployerSolo ---------------------------
(***************************************************************************)
(* One request at a time: a needs a certificate, b has an error page       *)
(* instead, c is rejected by the check.                                    *)
(***************************************************************************)
EXTENDS DeployerAtomic

CONSTANTS a, b, c, page, cert

MCFilesOf == [x \in Contents |-> IF x = a THEN {cert} ELSE IF x = b THEN {page} ELSE {}]
=============================================================================
