--------------------------- MODULE MCPullExecutor ---------------------------
(* Two successive requests of one operation and one of another operation.  *)
EXTENDS PullExecutor
CONSTANTS r1, r2, r3, registration, integration
MCRequests == {r1, r2, r3}
LiveRequests == {r1, r3}
MCJobIDs   == {registration, integration}
MCJobID    == [r \in Requests |-> IF r = r3 THEN integration ELSE registration]
=============================================================================
