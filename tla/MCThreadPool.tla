---------------------------- MODULE MCThreadPool ----------------------------
(* Small instances of ThreadPool for TLC.                                  *)
EXTENDS ThreadPool, TLC

CONSTANTS t1, t2

TwoTasks == {t1, t2}
PriorityOfTask == (t1 :> 1) @@ (t2 :> 0)
=============================================================================
