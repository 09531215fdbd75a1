---------------------------- MODULE MCNodeTasks ----------------------------
(* Model-checking instance of NodeTasks: three tasks for the pool to hand out. *)
EXTENDS NodeTasks

CONSTANTS t1, t2, t3

MCTasks == {t1, t2, t3}
=============================================================================
