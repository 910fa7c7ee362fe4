------------------------------ MODULE MCDeploy ------------------------------
(* Two or three deployments; d1 and d2 are the same intent (a double click). *)
(* StaleAfter < LockWindow: the overview gives up a tick before the lock.    *)
EXTENDS Deploy, TLC

CONSTANTS d1, d2, d3
DoubleClick == [d \in Deps |-> IF d = d3 THEN {} ELSE {d1, d2} \ {d}]
Distinct    == [d \in Deps |-> {}]
=============================================================================
