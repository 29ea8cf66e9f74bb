--------------------------- MODULE DeployerAtomic ---------------------------
(***************************************************************************)
(* A single request at a time deploys atomically: Deployer with one        *)
(* handler and no failing file system or database implements AtomicDeploy, *)
(* whatever the process manager answers, true or not.                      *)
(* Until a request returns, the abstract file is the one it found, and the *)
(* abstract log lacks the version it has added.                            *)
(***************************************************************************)
EXTENDS Deployer

ASSUME SoloAssumption == (\E h \in Handlers : Handlers = {h}) /\ ~Faults /\ ~EditsInFlight

solo == CHOOSE h \in Handlers : TRUE

\* The live file has been replaced by a request that may still undo it.
Replaced == req[solo].pc \in {"record", "reload", "status", "mark", "restore", "undoReload",
                              "addRolledBack", "markRolledBack", "trim"}
              /\ req[solo].op \in {"apply", "rollback"}

\* The request in flight has added its version.
Recorded ==
  \/ req[solo].op = "apply" /\ req[solo].pc \in {"reload", "status", "mark", "restore",
                                                 "undoReload", "trim"}
  \/ req[solo].op = "rollback" /\ req[solo].pc = "markRolledBack"

AbstractDisk == IF Replaced THEN req[solo].previous ELSE cfg
AbstractLog == IF Recorded THEN SubSeq(versions, 1, Len(versions) - 1) ELSE versions

Abstract == INSTANCE AtomicDeploy WITH disk <- AbstractDisk, log <- AbstractLog

\* To an operator who works alone, every Apply and every Rollback is one step of
\* AtomicDeploy: no order of reload failures, wrong answers, HAProxy deaths and edits leaves a
\* half-made deployment in the file or in the log.
DeploysAtomically == Abstract!Spec
=============================================================================
