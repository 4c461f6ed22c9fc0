------------------------------- MODULE MCStatus -------------------------------
(***************************************************************************)
(* Instances of Status, with the chains of MCIndexerRuns.                  *)
(***************************************************************************)
EXTENDS MCIndexerRuns, Status

(* Bound: faults, or one request of the status.                            *)
BoundedSpec == StatusInit /\ [][StatusNext /\ (request' = Unread \/ faults' = 0)]_statusVars
=============================================================================
