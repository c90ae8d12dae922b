------------------------------- MODULE MCStore ------------------------------
(***************************************************************************)
(* A few tasks on three pods, for TLC.                                     *)
(***************************************************************************)
EXTENDS StoreProperties

CONSTANTS t1, t2, r, a, b, c

\* A task on the second pod; another and the reaper are on the first.
MCPodOf == [t \in Task |-> IF t = t2 THEN b ELSE a]

\* Between them they ask for everything.
MCAsks == [t \in {t1, t2} |-> IF t = t1 THEN {"step"} ELSE {"create", "try", "check"}]
=============================================================================
