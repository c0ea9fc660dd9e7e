--------------------------- MODULE MC_TimeManager ---------------------------
(* Safety: two tasks, one of them extended; its callback manages both, so  *)
(* that it may remove the task TimerInterrupt looks at next.  Liveness:    *)
(* one extended task that manages itself, and more time.                   *)
EXTENDS TimeManager

CONSTANTS t1, t2

MCTasks    == {t1, t2}
MCExtended == {t1}
MCMayCall  == [t \in MCTasks |-> IF t = t1 THEN MCTasks ELSE {}]
MCDelays   == {0, -1}

OneTask     == {t1}
OneMayCall  == [t \in OneTask |-> OneTask]
MoreDelays  == {0, -1, 1}
=============================================================================
