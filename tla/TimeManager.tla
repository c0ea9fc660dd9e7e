---------------------------- MODULE TimeManager ----------------------------
(***************************************************************************)
(* The Time Manager (src/src/timer.cpp, POSIX precise timing): the         *)
(* emulation thread, which runs the Mac's InsTime, RmvTime, PrimeTime and  *)
(* the Time Manager interrupt with the callbacks it makes, and the host    *)
(* timer thread, which sleeps until wakeup_time and raises INTFLAG_TIMER.  *)
(*                                                                         *)
(* Every change of wakeup_time by the emulation thread is bracketed by     *)
(* timer_thread_suspend and timer_thread_resume: signal the thread, wait   *)
(* for its acknowledgement, take wakeup_time_lock, recompute, unlock,      *)
(* signal it again.  Host times are counted in microseconds.  A local      *)
(* variable, or a field of a freed descriptor, is 0 when its value is dead.*)
(***************************************************************************)
EXTENDS TimeConversions, Sequences

CONSTANTS Tasks,          \* the TMTask records of the Mac
          Extended,       \* those installed with InsXTime
          MayCall,        \* MayCall[t]: the tasks the callback of t manages
          Delays,         \* the Mac delays passed to PrimeTime
          MaxTime,        \* bound of the clock
          MaxWakeup,      \* bound of a wakeup time
          wakeup_time_max,
          NoTask

ASSUME TasksAssumption ==
  /\ NoTask \notin Tasks /\ "freed" \notin Tasks \cup {NoTask}
  /\ Extended \subseteq Tasks
  /\ MayCall \in [Tasks -> SUBSET Tasks]

ASSUME TimeAssumption ==
  /\ Delays \subseteq Int32
  /\ MaxTime \in Nat
  /\ MaxWakeup \in Nat
  /\ wakeup_time_max \in Nat
  /\ MaxTime < wakeup_time_max
  /\ MaxWakeup < wakeup_time_max

VARIABLES
  now,            \* the host clock
  tmDescList,     \* the list of descriptors, by their tasks, newest first
  wakeup,         \* desc->wakeup of each task
  active,         \* the tasks with bit 15 of qType set
  tmWakeUp,       \* the tasks with a nonzero tmWakeUp
  tmCount,        \* tmCount of each task, a Mac time
  wakeup_time,    \* when the timer thread is to wake up
  timerFlag,      \* INTFLAG_TIMER is set and an interrupt was triggered
  epc, op,        \* the emulation thread: where it is, in which call
  callee,         \* the task whose callback TimerInterrupt is running
  cursor,         \* desc in TimerInterrupt's walk (next, during a callback)
  irqNow,         \* now in TimerInterrupt
  suspend_count,
  tpc,            \* the timer thread: where it is
  deadline,       \* what clock_nanosleep was told
  systemTime,     \* system_time in timer_func
  mode,           \* the thread runs, has acknowledged a suspend, is suspended
  sigSuspend,     \* SIGSUSPEND is pending for it
  sigResume,      \* SIGRESUME is pending for it
  suspendAck,     \* suspend_ack_sem
  lockOwner,      \* of wakeup_time_lock
  cancelled       \* timer_thread_cancel

macVars    == <<tmDescList, wakeup, active, tmWakeUp, tmCount>>
walkVars   == <<callee, cursor, irqNow>>
threadVars == <<tpc, deadline, systemTime>>
signalVars == <<mode, sigSuspend, sigResume, suspendAck>>
emulVars   == <<macVars, epc, op, walkVars, suspend_count>>
vars == <<now, macVars, wakeup_time, timerFlag, epc, op, walkVars,
          suspend_count, threadVars, signalVars, lockOwner, cancelled>>

Range(s)  == {s[i] : i \in DOMAIN s}
Installed == Range(tmDescList)
Freed     == "freed"       \* a descriptor that RmvTime has deleted

EmulPcs == {"mac", "suspend", "ack", "lock", "update", "resume", "walk",
            "callback", "join", "exited"}
ThreadPcs == {"loop", "sleep", "clock", "compare", "lock", "critical",
              "trigger", "done"}

MacTypes ==
  /\ tmDescList \in Seq(Tasks)
  /\ wakeup \in [Tasks -> Int]
  /\ active \subseteq Tasks
  /\ tmWakeUp \subseteq Tasks
  /\ tmCount \in [Tasks -> Int]

EmulTypes ==
  /\ epc \in EmulPcs
  /\ op \in [name : {"none", "PrimeTime", "RmvTime", "TimerInterrupt"},
             task : Tasks \cup {NoTask}]
  /\ callee \in Tasks \cup {NoTask}
  /\ cursor \in Tasks \cup {NoTask, Freed}
  /\ irqNow \in 0 .. MaxTime
  /\ suspend_count \in {0, 1}

ThreadTypes ==
  /\ tpc \in ThreadPcs
  /\ deadline \in Int
  /\ systemTime \in 0 .. MaxTime
  /\ mode \in {"run", "acked", "suspended"}
  /\ sigSuspend \in BOOLEAN
  /\ sigResume \in BOOLEAN
  /\ suspendAck \in {0, 1}
  /\ lockOwner \in {"none", "emul", "timer"}

SharedTypes ==
  /\ now \in 0 .. MaxTime
  /\ wakeup_time \in Int
  /\ timerFlag \in BOOLEAN
  /\ cancelled \in BOOLEAN

TypeOK == MacTypes /\ EmulTypes /\ ThreadTypes /\ SharedTypes

NoOp == [name |-> "none", task |-> NoTask]

\* TimerInit: no descriptors, a running thread that has nothing to wake up for.
Init ==
  /\ now = 0
  /\ tmDescList = <<>>
  /\ wakeup = [t \in Tasks |-> 0]
  /\ active = {}
  /\ tmWakeUp = {}
  /\ tmCount = [t \in Tasks |-> 0]
  /\ wakeup_time = wakeup_time_max
  /\ timerFlag = FALSE
  /\ epc = "mac" /\ op = NoOp
  /\ callee = NoTask /\ cursor = NoTask /\ irqNow = 0
  /\ suspend_count = 0
  /\ tpc = "loop" /\ deadline = 0 /\ systemTime = 0
  /\ mode = "run" /\ sigSuspend = FALSE /\ sigResume = FALSE /\ suspendAck = 0
  /\ lockOwner = "none"
  /\ cancelled = FALSE

-----------------------------------------------------------------------------
\* Times.

Microseconds(t) == t.sec * UsPerSec + t.nsec \div NsPerUs
DelayOf(mac)    == Microseconds(timer_mac2host_time(mac))
SavedCount(us)  == timer_host2mac_time(
                     HostTime(us \div UsPerSec, (us % UsPerSec) * NsPerUs))

\* "Look for next task to be called and set wakeup_time"
SetWakeupTime(activeTasks) ==
  LET times == {wakeup_time_max} \cup {wakeup[t] : t \in activeTasks \cap Installed}
  IN  /\ wakeup_time' \in times
      /\ \A time \in times : wakeup_time' <= time

-----------------------------------------------------------------------------
\* The emulation thread: calls of the Mac, at top level or from a callback.

Callable == {t \in Tasks : epc = "mac" \/ (epc = "callback" /\ t \in MayCall[callee])}

\* A new descriptor's wakeup is not initialised.
InsTime(t) ==
  /\ t \in Callable
  /\ active' = active \ {t}
  /\ \/ /\ t \in Installed
        /\ UNCHANGED <<tmDescList, wakeup>>
     \/ /\ t \notin Installed
        /\ tmDescList' = <<t>> \o tmDescList
        /\ \E garbage \in 0 .. MaxTime : wakeup' = [wakeup EXCEPT ![t] = garbage]
  /\ UNCHANGED <<now, tmWakeUp, tmCount, wakeup_time, timerFlag, epc, op, walkVars,
                 suspend_count, threadVars, signalVars, lockOwner, cancelled>>

\* The descriptor is found and its wakeup time set before the thread is
\* suspended.  An extended task counts from its last wakeup time, and a delay
\* of 0 continues with the delay read from the upper half of tmCount.
PrimeTime(t, time) ==
  /\ t \in Callable \cap Installed
  /\ LET again == t \in Extended \cap tmWakeUp
         delay == DelayOf(IF again /\ time = 0 THEN ReadMacInt16(tmCount[t]) ELSE time)
         at    == (IF again THEN wakeup[t] ELSE now) + delay
     IN  /\ at <= MaxWakeup
         /\ wakeup' = [wakeup EXCEPT ![t] = at]
  /\ tmWakeUp' = tmWakeUp \cup ({t} \cap Extended)
  /\ op' = [name |-> "PrimeTime", task |-> t]
  /\ epc' = "suspend"
  /\ UNCHANGED <<now, tmDescList, active, tmCount, wakeup_time, timerFlag, walkVars,
                 suspend_count, threadVars, signalVars, lockOwner, cancelled>>

RmvTime(t) ==
  /\ t \in Callable \cap Installed
  /\ op' = [name |-> "RmvTime", task |-> t]
  /\ epc' = "suspend"
  /\ UNCHANGED <<now, macVars, wakeup_time, timerFlag, walkVars,
                 suspend_count, threadVars, signalVars, lockOwner, cancelled>>

\* OP_RESET of the Mac: the descriptors go, wakeup_time stays.
TimerReset ==
  /\ epc = "mac"
  /\ tmDescList' = <<>>
  /\ wakeup' = [t \in Tasks |-> 0]
  /\ UNCHANGED <<now, active, tmWakeUp, tmCount, wakeup_time, timerFlag, epc, op,
                 walkVars, suspend_count, threadVars, signalVars, lockOwner, cancelled>>

-----------------------------------------------------------------------------
\* The section in which the emulation thread changes wakeup_time.

\* Mutant: the thread is counted as suspended but never told.
SuspendNotSent ==
  /\ epc = "suspend"
  /\ suspend_count' = 1
  /\ epc' = "lock"
  /\ UNCHANGED <<now, macVars, wakeup_time, timerFlag, op, walkVars, threadVars,
                 signalVars, lockOwner, cancelled>>

timer_thread_suspend ==
  /\ epc = "suspend"
  /\ IF suspend_count = 0
     THEN suspend_count' = 1 /\ sigSuspend' = TRUE /\ epc' = "ack"
     ELSE epc' = "lock" /\ UNCHANGED <<suspend_count, sigSuspend>>
  /\ UNCHANGED <<now, macVars, wakeup_time, timerFlag, op, walkVars, threadVars,
                 mode, sigResume, suspendAck, lockOwner, cancelled>>

\* Mutant: SIGSUSPEND is sent but its acknowledgement not awaited.
NoAwait ==
  /\ epc = "ack"
  /\ epc' = "lock"
  /\ UNCHANGED <<now, macVars, wakeup_time, timerFlag, op, walkVars, suspend_count,
                 threadVars, signalVars, lockOwner, cancelled>>

AwaitSuspendAck ==
  /\ epc = "ack"
  /\ suspendAck > 0
  /\ suspendAck' = suspendAck - 1
  /\ epc' = "lock"
  /\ UNCHANGED <<now, macVars, wakeup_time, timerFlag, op, walkVars, suspend_count,
                 threadVars, mode, sigSuspend, sigResume, lockOwner, cancelled>>

LockWakeupTime ==
  /\ epc = "lock"
  /\ lockOwner = "none"
  /\ lockOwner' = "emul"
  /\ epc' = "update"
  /\ UNCHANGED <<now, macVars, wakeup_time, timerFlag, op, walkVars, suspend_count,
                 threadVars, signalVars, cancelled>>

\* What PrimeTime, RmvTime and TimerInterrupt do under the lock.
Update ==
  /\ epc = "update"
  /\ \/ /\ op.name = "PrimeTime"
        /\ active' = active \cup {op.task}
        /\ SetWakeupTime(active')
        /\ UNCHANGED tmCount
     \/ /\ op.name = "RmvTime" /\ op.task \in active
        /\ active' = active \ {op.task}
        /\ SetWakeupTime(active')
        /\ tmCount' = [tmCount EXCEPT ![op.task] = SavedCount(wakeup[op.task] - now)]
     \/ /\ op.name = "RmvTime" /\ op.task \notin active
        /\ tmCount' = [tmCount EXCEPT ![op.task] = 0]
        /\ UNCHANGED <<active, wakeup_time>>
     \/ /\ op.name = "TimerInterrupt"
        /\ SetWakeupTime(active)
        /\ UNCHANGED <<active, tmCount>>
  /\ lockOwner' = "none"
  /\ epc' = "resume"
  /\ UNCHANGED <<now, tmDescList, wakeup, tmWakeUp, timerFlag, op, walkVars,
                 suspend_count, threadVars, signalVars, cancelled>>

free_desc(t) ==
  \E i \in DOMAIN tmDescList :
    /\ tmDescList[i] = t
    /\ tmDescList' = SubSeq(tmDescList, 1, i - 1)
                       \o SubSeq(tmDescList, i + 1, Len(tmDescList))
    /\ wakeup' = [wakeup EXCEPT ![t] = 0]

\* timer_thread_resume and the return; RmvTime frees the descriptor last.
timer_thread_resume ==
  /\ epc = "resume"
  /\ suspend_count' = 0
  /\ sigResume' = TRUE
  /\ IF op.name = "RmvTime"
     THEN /\ free_desc(op.task)
          /\ cursor' = IF cursor = op.task THEN Freed ELSE cursor
     ELSE UNCHANGED <<tmDescList, wakeup, cursor>>
  /\ epc' = IF callee = NoTask THEN "mac" ELSE "callback"
  /\ op' = NoOp
  /\ UNCHANGED <<now, active, tmWakeUp, tmCount, wakeup_time, timerFlag, callee,
                 irqNow, threadVars, mode, sigSuspend, suspendAck, lockOwner, cancelled>>

-----------------------------------------------------------------------------
\* TimerInterrupt, called by OP_IRQ, which clears the flag first.

NextDesc(t) ==
  IF \E i \in DOMAIN tmDescList : tmDescList[i] = t /\ i < Len(tmDescList)
  THEN tmDescList[(CHOOSE i \in DOMAIN tmDescList : tmDescList[i] = t) + 1]
  ELSE NoTask

TimerInterrupt ==
  /\ epc = "mac"
  /\ timerFlag
  /\ timerFlag' = FALSE
  /\ irqNow' = now
  /\ cursor' = IF tmDescList = <<>> THEN NoTask ELSE Head(tmDescList)
  /\ epc' = "walk"
  /\ UNCHANGED <<now, macVars, wakeup_time, op, callee, suspend_count, threadVars,
                 signalVars, lockOwner, cancelled>>

\* Mutant: the task stays active during its callback.
CallTaskKeepsActive ==
  /\ epc = "walk"
  /\ cursor \in active
  /\ wakeup[cursor] <= irqNow
  /\ callee' = cursor
  /\ cursor' = NextDesc(cursor)
  /\ epc' = "callback"
  /\ UNCHANGED <<now, macVars, wakeup_time, timerFlag, op, irqNow, suspend_count,
                 threadVars, signalVars, lockOwner, cancelled>>

\* The cursor's successor is read before the callback is made.
CallTask ==
  /\ epc = "walk"
  /\ cursor \in active
  /\ wakeup[cursor] <= irqNow
  /\ active' = active \ {cursor}
  /\ callee' = cursor
  /\ cursor' = NextDesc(cursor)
  /\ epc' = "callback"
  /\ UNCHANGED <<now, tmDescList, wakeup, tmWakeUp, tmCount, wakeup_time, timerFlag, op,
                 irqNow, suspend_count, threadVars, signalVars, lockOwner, cancelled>>

ReturnFromTask ==
  /\ epc = "callback"
  /\ callee' = NoTask
  /\ epc' = "walk"
  /\ UNCHANGED <<now, macVars, wakeup_time, timerFlag, op, cursor, irqNow,
                 suspend_count, threadVars, signalVars, lockOwner, cancelled>>

SkipTask ==
  /\ epc = "walk"
  /\ cursor \in Tasks
  /\ ~(cursor \in active /\ wakeup[cursor] <= irqNow)
  /\ cursor' = NextDesc(cursor)
  /\ UNCHANGED <<now, macVars, wakeup_time, timerFlag, epc, op, callee, irqNow,
                 suspend_count, threadVars, signalVars, lockOwner, cancelled>>

\* The callback has freed the descriptor that was to be next.  Its task, wakeup
\* and next are read all the same and may be anything: a task of the Mac, which is
\* called if it is active and the wakeup is not later than now, whatever the task's
\* own time is; and a descriptor, the end, or again no descriptor.  Memory that
\* is not a task is taken not to look like an active one.
WalkFreedDesc ==
  /\ epc = "walk"
  /\ cursor = Freed
  /\ cursor' \in Installed \cup {NoTask, Freed}
  /\ \/ UNCHANGED <<active, callee, epc>>
     \/ \E t \in active :
          /\ active' = active \ {t}
          /\ callee' = t
          /\ epc' = "callback"
  /\ UNCHANGED <<now, tmDescList, wakeup, tmWakeUp, tmCount, wakeup_time, timerFlag, op,
                 irqNow, suspend_count, threadVars, signalVars, lockOwner, cancelled>>

\* Mutant: the interrupt returns without looking for the next task.
EndWithoutUpdate ==
  /\ epc = "walk"
  /\ cursor = NoTask
  /\ epc' = "mac"
  /\ UNCHANGED <<now, macVars, wakeup_time, timerFlag, op, walkVars, suspend_count,
                 threadVars, signalVars, lockOwner, cancelled>>

EndOfWalk ==
  /\ epc = "walk"
  /\ cursor = NoTask
  /\ op' = [name |-> "TimerInterrupt", task |-> NoTask]
  /\ epc' = "suspend"
  /\ irqNow' = 0
  /\ UNCHANGED <<now, macVars, wakeup_time, timerFlag, callee, cursor, suspend_count,
                 threadVars, signalVars, lockOwner, cancelled>>

\* timer_thread_kill: the flag, pthread_cancel and pthread_join.
TimerExit ==
  /\ epc = "mac"
  /\ cancelled' = TRUE
  /\ epc' = "join"
  /\ UNCHANGED <<now, macVars, wakeup_time, timerFlag, op, walkVars, suspend_count,
                 threadVars, signalVars, lockOwner>>

JoinTimerThread ==
  /\ epc = "join"
  /\ tpc = "done"
  /\ epc' = "exited"
  /\ UNCHANGED <<now, macVars, wakeup_time, timerFlag, op, walkVars, suspend_count,
                 threadVars, signalVars, lockOwner, cancelled>>

-----------------------------------------------------------------------------
\* timer_func, the timer thread.

EnterSleep ==
  /\ mode = "run" /\ tpc = "loop"
  /\ IF cancelled
     THEN tpc' = "done" /\ UNCHANGED deadline
     ELSE tpc' = "sleep" /\ deadline' = wakeup_time
  /\ UNCHANGED <<now, wakeup_time, timerFlag, emulVars, systemTime, signalVars, lockOwner, cancelled>>

\* Mutant: no pthread_cancel, the thread sleeps on.
SleepIgnoresCancel ==
  /\ mode = "run" /\ tpc = "sleep"
  /\ now >= deadline /\ tpc' = "clock"
  /\ deadline' = 0
  /\ UNCHANGED <<now, wakeup_time, timerFlag, emulVars, systemTime, signalVars,
                 lockOwner, cancelled>>

\* clock_nanosleep returns at the deadline and is a cancellation point.
LeaveSleep ==
  /\ mode = "run" /\ tpc = "sleep"
  /\ \/ now >= deadline /\ tpc' = "clock"
     \/ cancelled /\ tpc' = "done"
  /\ deadline' = 0
  /\ UNCHANGED <<now, wakeup_time, timerFlag, emulVars, systemTime, signalVars,
                 lockOwner, cancelled>>

ReadClock ==
  /\ mode = "run" /\ tpc = "clock"
  /\ systemTime' = now
  /\ tpc' = "compare"
  /\ UNCHANGED <<now, wakeup_time, timerFlag, emulVars, deadline, signalVars, lockOwner, cancelled>>

\* The comparison is made without the lock.
CompareTime ==
  /\ mode = "run" /\ tpc = "compare"
  /\ tpc' = IF wakeup_time < systemTime THEN "lock" ELSE "loop"
  /\ systemTime' = 0
  /\ UNCHANGED <<now, wakeup_time, timerFlag, emulVars, deadline, signalVars,
                 lockOwner, cancelled>>

ThreadLocks ==
  /\ mode = "run" /\ tpc = "lock"
  /\ lockOwner = "none"
  /\ lockOwner' = "timer"
  /\ tpc' = "critical"
  /\ UNCHANGED <<now, wakeup_time, timerFlag, emulVars, deadline, systemTime, signalVars, cancelled>>

ClearWakeupTime ==
  /\ mode = "run" /\ tpc = "critical"
  /\ wakeup_time' = wakeup_time_max
  /\ lockOwner' = "none"
  /\ tpc' = "trigger"
  /\ UNCHANGED <<now, timerFlag, emulVars, deadline, systemTime, signalVars, cancelled>>

\* SetInterruptFlag(INTFLAG_TIMER) and TriggerInterrupt.
TriggerTimerInterrupt ==
  /\ mode = "run" /\ tpc = "trigger"
  /\ timerFlag' = TRUE
  /\ tpc' = "loop"
  /\ UNCHANGED <<now, wakeup_time, emulVars, deadline, systemTime, signalVars, lockOwner, cancelled>>

\* SIGSUSPEND is delivered wherever the thread is, and ends clock_nanosleep.
sigsuspend_handler ==
  /\ mode = "run" /\ sigSuspend /\ tpc # "done"
  /\ sigSuspend' = FALSE
  /\ suspendAck' = suspendAck + 1
  /\ mode' = "acked"
  /\ tpc' = IF tpc = "sleep" THEN "clock" ELSE tpc
  /\ deadline' = 0
  /\ UNCHANGED <<now, wakeup_time, timerFlag, emulVars, systemTime, sigResume,
                 lockOwner, cancelled>>

\* Mutant: SIGRESUME is not in the handler's mask and is lost if it comes early.
EarlyResumeLost ==
  /\ mode = "acked"
  /\ mode' = "suspended"
  /\ sigResume' = FALSE
  /\ UNCHANGED <<now, wakeup_time, timerFlag, emulVars, threadVars, sigSuspend,
                 suspendAck, lockOwner, cancelled>>

\* SIGRESUME is blocked until sigsuspend waits for it.
SigSuspendWaits ==
  /\ mode = "acked"
  /\ mode' = "suspended"
  /\ UNCHANGED <<now, wakeup_time, timerFlag, emulVars, threadVars, sigSuspend, sigResume,
                 suspendAck, lockOwner, cancelled>>

sigresume_handler ==
  /\ mode = "suspended" /\ sigResume
  /\ sigResume' = FALSE
  /\ mode' = "run"
  /\ UNCHANGED <<now, wakeup_time, timerFlag, emulVars, threadVars, sigSuspend, suspendAck,
                 lockOwner, cancelled>>

\* The host clock.
Tick ==
  /\ now < MaxTime
  /\ now' = now + 1
  /\ UNCHANGED <<wakeup_time, timerFlag, emulVars, threadVars, signalVars, lockOwner, cancelled>>

-----------------------------------------------------------------------------

MacCall ==
  \/ \E t \in Tasks : InsTime(t) \/ RmvTime(t)
  \/ \E t \in Tasks, time \in Delays : PrimeTime(t, time)
  \/ TimerReset
  \/ TimerExit

WakeupSection ==
  \/ timer_thread_suspend
  \/ AwaitSuspendAck
  \/ LockWakeupTime
  \/ Update
  \/ timer_thread_resume

InterruptWalk == CallTask \/ SkipTask \/ WalkFreedDesc \/ EndOfWalk

TimerThread ==          \* timer_func itself
  \/ EnterSleep
  \/ LeaveSleep
  \/ ReadClock
  \/ CompareTime
  \/ ThreadLocks
  \/ ClearWakeupTime
  \/ TriggerTimerInterrupt

TimerSignals ==
  \/ sigsuspend_handler
  \/ SigSuspendWaits
  \/ sigresume_handler

Next ==
  \/ MacCall
  \/ WakeupSection
  \/ TimerInterrupt
  \/ InterruptWalk
  \/ ReturnFromTask
  \/ JoinTimerThread
  \/ TimerThread
  \/ TimerSignals
  \/ Tick

Spec == Init /\ [][Next]_vars

\* Both threads are scheduled and the clock runs.  The timer thread gets to run
\* between two suspensions, an interrupt that stays pending is taken although
\* the Mac keeps calling (the emulator polls between blocks), and a callback
\* returns although it may make calls of its own.
Fairness ==
  /\ WF_vars(WakeupSection)
  /\ WF_vars(InterruptWalk)
  /\ WF_vars(JoinTimerThread)
  /\ WF_vars(TimerSignals)
  /\ WF_vars(Tick)
  /\ SF_vars(TimerThread)
  /\ SF_vars(TimerInterrupt)
  /\ SF_vars(ReturnFromTask)

FairSpec == Spec /\ Fairness

-----------------------------------------------------------------------------
\* Properties.

\* The emulation thread is on its way to recompute wakeup_time (RmvTime does so
\* for an active task only), or is walking the list, which ends with that.
WillRecompute ==
  \/ /\ epc \in {"suspend", "ack", "lock", "update"}
     /\ op.name = "RmvTime" => op.task \in active
  \/ epc = "walk"
  \/ callee # NoTask

\* No wakeup is lost: for every active task, the timer thread is to wake up no
\* later than the task asks, or a Time Manager interrupt is on its way or in
\* progress.  The thread resets wakeup_time after an unlocked comparison, so it
\* may throw away a time that PrimeTime has just stored.
NoLostWakeup ==
  \A t \in active \cap Installed :
    \/ wakeup_time <= wakeup[t]
    \/ timerFlag
    \/ tpc = "trigger"
    \/ WillRecompute

\* A sleeping thread sleeps until the current wakeup_time: whoever changes it
\* has interrupted the sleep.
SleepsUntilWakeupTime == tpc = "sleep" => deadline = wakeup_time

\* While the emulation thread writes the two words of wakeup_time, the timer
\* thread, which reads them without the lock, is stopped.
StoppedDuringUpdate == epc \in {"lock", "update"} => mode # "run"

-----------------------------------------------------------------------------
\* The inductive invariant behind these three.

\* Where the emulation thread is in the suspend protocol, and what the thread
\* and the signals look like from there.
Protocol ==
  /\ suspend_count = IF epc \in {"ack", "lock", "update", "resume"} THEN 1 ELSE 0
  /\ IF epc \in {"lock", "update", "resume"} \/ suspendAck > 0
     THEN mode # "run" /\ ~sigResume /\ ~sigSuspend
     ELSE mode # "run" <=> sigResume
  /\ sigSuspend => epc = "ack"
  /\ suspendAck > 0 => epc = "ack" /\ suspendAck = 1
  /\ mode # "run" => tpc # "sleep"

Locking ==
  /\ lockOwner = "emul" <=> epc = "update"
  /\ lockOwner = "timer" <=> tpc = "critical"

\* A callback is running exactly while TimerInterrupt is at one, and a call is
\* in progress exactly while the emulation thread is in the section.
Calls ==
  /\ epc \in {"mac", "walk", "join", "exited"} => callee = NoTask
  /\ epc = "callback" => callee # NoTask
  /\ op.name # "none" <=> epc \in {"suspend", "ack", "lock", "update", "resume"}
  /\ op.name = "TimerInterrupt" => callee = NoTask
  /\ op.name \in {"PrimeTime", "RmvTime"} => op.task \in Installed

NoDuplicates ==
  \A i, j \in DOMAIN tmDescList : tmDescList[i] = tmDescList[j] => i = j

IndInv ==
  /\ TypeOK
  /\ Protocol
  /\ Locking
  /\ Calls
  /\ NoDuplicates
  /\ NoLostWakeup
  /\ SleepsUntilWakeupTime

-----------------------------------------------------------------------------

\* The thread was suspended inside its critical section: nobody gets the lock.
Wedged == lockOwner = "timer" /\ mode # "run" /\ ~sigResume /\ epc = "lock"

Overdue(t) == t \in active \cap Installed /\ wakeup[t] < now

\* A task that is overdue is called, removed or rescheduled (or the emulator
\* exits), unless the two threads are stuck as Wedged says.
OverdueTaskServed ==
  \A t \in Tasks : Overdue(t) ~> (~Overdue(t) \/ Wedged \/ cancelled)

\* Every PrimeTime returns with the task active ("Make task active").
PrimeTimeReturns ==
  \A t \in Tasks :
    (op.name = "PrimeTime" /\ op.task = t) ~> (op.name # "PrimeTime")

\* TimerExit ends the timer thread and returns.
ExitJoins == cancelled ~> (epc = "exited")

-----------------------------------------------------------------------------
\* What the Mac sees of all this.

Armed == active \cap Installed

\* The walk goes on at a descriptor that was freed, or, having come from one, at
\* the task that is being called.
Astray == cursor = Freed \/ (callee # NoTask /\ cursor = callee)

Service == INSTANCE TimerService WITH
             armed   <- Armed,
             due     <- [t \in Tasks |-> IF t \in Armed THEN wakeup[t] ELSE 0],
             calling <- callee,
             astray  <- Astray

\* The Time Manager keeps its promise: whatever the timer thread, the signals
\* and the unlocked comparison do, a callback is made only for a task that was
\* primed and not removed since, not before its time, once for each PrimeTime,
\* and never while another one runs.  Only a callback that removes another task
\* can break this, because TimerInterrupt may go on with that task's descriptor;
\* a callback may remove or prime its own task, and prime any other.
ImplementsTimerService == Service!Spec
=============================================================================
