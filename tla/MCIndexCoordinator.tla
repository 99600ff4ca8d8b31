------------------------ MODULE MCIndexCoordinator ------------------------
(* Small instances of IndexCoordinator for TLC: an API process with up to   *)
(* three tasks and a second process with up to two.                         *)
EXTENDS IndexCoordinator

CONSTANTS a1, a2, a3, b1, b2, api, worker

Homes == [t \in Tasks |-> IF t \in {b1, b2} THEN worker ELSE api]

(* Every API task may do anything, the worker's reindex fails fast.         *)
AnyKinds ==
    [t \in Tasks |-> IF t = b1 THEN {"try"} ELSE {"write", "queue", "try"}]

(* One maintenance task, all others are short writers.                      *)
OneMaintainer ==
    [t \in Tasks |-> IF t = a1 THEN {"queue"} ELSE {"write"}]
===========================================================================
