---------------------------- MODULE TimerService ----------------------------
(***************************************************************************)
(* What the Time Manager promises to the Mac: a task that was primed is    *)
(* called back once, not before its time, unless it is removed or primed   *)
(* again first; and one callback runs at a time.  The promise has one      *)
(* condition: a callback that removes another task may leave the service   *)
(* astray, and any task may be called next.  TimeManager, with its two     *)
(* threads, its signals and its lock, is shown to implement this.          *)
(***************************************************************************)
EXTENDS Integers

CONSTANTS Tasks,        \* the TMTask records of the Mac
          MayCall,      \* MayCall[t]: the tasks the callback of t manages
          NoTask

VARIABLES now,          \* the host clock
          armed,        \* the tasks that are to be called
          due,          \* when, for those; 0 for the others
          calling,      \* the task whose callback is running
          astray        \* a task was removed that should have been next

vars == <<now, armed, due, calling, astray>>

Init == /\ now = 0
        /\ armed = {}
        /\ due = [t \in Tasks |-> 0]
        /\ calling = NoTask
        /\ astray = FALSE

\* The tasks that the code which is running may manage.
Manageable == IF calling = NoTask THEN Tasks ELSE MayCall[calling]

\* PrimeTime: a task that is primed again gets a new time.
Arm(t) == /\ t \in Manageable
          /\ armed' = armed \cup {t}
          /\ due'[t] \in Int
          /\ due' = [due EXCEPT ![t] = due'[t]]
          /\ UNCHANGED <<now, calling, astray>>

Disarm(S) == /\ armed' = armed \ S
             /\ due' = [t \in Tasks |-> IF t \in S THEN 0 ELSE due[t]]
             /\ UNCHANGED <<now, calling>>

\* InsTime and RmvTime of a task, which may lead astray if the callback of another
\* one does it; a reset of the Mac, which no callback makes.
Cancel(t) == /\ t \in Manageable
             /\ Disarm({t})
             /\ astray' # astray => astray' /\ calling \notin {NoTask, t}
Reset     == calling = NoTask /\ Disarm(Tasks) /\ UNCHANGED astray

Enter(t) == /\ calling = NoTask
            /\ armed' = armed \ {t}
            /\ due' = [due EXCEPT ![t] = 0]
            /\ calling' = t
            /\ UNCHANGED now

\* The callback, once for each time the task was armed.
Call(t) == Enter(t) /\ t \in armed /\ due[t] <= now /\ UNCHANGED astray

\* A callback from the remains of a task that was removed.
StrayCall(t) == Enter(t) /\ astray /\ astray' \in BOOLEAN

Return == /\ calling # NoTask
          /\ calling' = NoTask
          /\ astray' => astray
          /\ UNCHANGED <<now, armed, due>>

\* The service finds back to its tasks.
Recover == astray /\ ~astray' /\ UNCHANGED <<now, armed, due, calling>>

Tick == now' > now /\ UNCHANGED <<armed, due, calling, astray>>

Next == \/ \E t \in Tasks : Arm(t) \/ Cancel(t) \/ Call(t) \/ StrayCall(t)
        \/ Reset
        \/ Return
        \/ Recover
        \/ Tick

Spec == Init /\ [][Next]_vars
=============================================================================
