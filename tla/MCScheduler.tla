---------------------------- MODULE MCScheduler ----------------------------
(* Two tasks besides task[0], delays of one tick, and a step that raises    *)
(* the priority of one task.                                                *)
EXTENDS Scheduler

MCIncrements == {-1}

\* Bound: only task 1 calls sys_nice().
OneIsNice == \A t \in Tasks \ {1} : priority'[t] = priority[t]

MCSpec == Init /\ [][Next /\ OneIsNice]_vars /\ Fairness
=============================================================================
