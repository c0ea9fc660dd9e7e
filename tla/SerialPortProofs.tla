-------------------------- MODULE SerialPortProofs --------------------------
(***************************************************************************)
(* Proofs about one port of the serial driver: whatever the two I/O        *)
(* threads, the interrupt and the routines of the driver do, a request the *)
(* Mac waits for is tracked, is completed with the result of its own I/O,  *)
(* and no thread does I/O for a request that is over.                      *)
(***************************************************************************)
EXTENDS SerialPort, TLAPS

\* A command was accepted and its semaphore is not yet posted.
Unposted(d) == epc = "prime" /\ dir = d

\* A thread is told to quit only inside SerialClose; afterwards both threads
\* have ended, and the port is not open.  An open port has both its threads.
Closing ==
  /\ quitting => \/ epc = "close" /\ is_open
                 \/ ~is_open /\ \A d \in Dirs : tpc[d] = "none"
  /\ epc = "close" => quitting
  /\ epc = "close" /\ dir = "out" => tpc["in"] = "none"
  /\ is_open /\ epc \notin {"close", "exit", "exited"} =>
       ~quitting /\ \A d \in Dirs : tpc[d] # "none"

\* A thread that works has the one pending command of its direction; what is in
\* the semaphore of a running thread is that command, not yet taken, or the post
\* of SerialClose.
Commands ==
  \A d \in Dirs :
    /\ tpc[d] \in Working =>
         /\ pending[d] /\ ~done[d] /\ ~Unposted(d)
         /\ signal[d] = 0 \/ (signal[d] = 1 /\ quitting)
    /\ signal[d] > 0 /\ ~quitting /\ tpc[d] # "none" =>
         signal[d] = 1 /\ pending[d] /\ ~done[d] /\ ~Unposted(d)
    /\ Unposted(d) => pending[d] /\ ~done[d] /\ signal[d] = 0 /\ is_open /\ ~quitting
    /\ epc = "close" /\ dir = "in" /\ d = "out" =>
         signal[d] = 0 \/ (signal[d] = 1 /\ tpc[d] \notin Working)

\* A command is killed only while KillIO waits, and no deferred task is queued
\* while KillIO or SerialClose waits.
Killing ==
  /\ io_killed => epc = "kill"
  /\ epc = "kill" => is_open
  /\ epc \in {"kill", "close"} => dtQueue = {}
  /\ \A d \in Dirs : tpc[d] = "abort" => io_killed

\* A request that is pending in an open port, or whose deferred task is queued,
\* is one the Mac waits for; a reported result is the one of the last I/O.
Completion ==
  /\ ~is_open => dtQueue = {} /\ \A d \in Dirs : request[d] # "active"
  /\ epc = "clear" => is_open /\ dir \in dtQueue
  /\ \A d \in Dirs :
       /\ is_open /\ pending[d] => request[d] = "active"
       /\ is_open /\ request[d] = "active" => pending[d] \/ d \in dtQueue
       /\ done[d] \/ d \in dtQueue \/ tpc[d] = "report" => dtResult[d] = actual[d]
       /\ d \in dtQueue =>
            /\ request[d] = "active"
            /\ tpc[d] \notin Working
            /\ signal[d] = 0
            /\ pending[d] => epc = "clear" /\ dir = d /\ done[d]

IndInv == TypeOK /\ Closing /\ Commands /\ Killing /\ Completion

-----------------------------------------------------------------------------

\* The invariant holds when the emulator starts.
LEMMA InitIndInv == Init => IndInv
<1> SUFFICES ASSUME Init PROVE IndInv
  OBVIOUS
<1>1. TypeOK
  <2>1. /\ Each(FALSE) \in [Dirs -> BOOLEAN] /\ Each(0) \in [Dirs -> 0 .. 2]
        /\ Each("noErr") \in [Dirs -> Results]
    BY DEF Each, Results
  <2>2. /\ Each("none") \in [Dirs -> {"none", "wait", "io", "check", "abort", "store",
                                      "report", "trigger"}]
        /\ Each("none") \in [Dirs -> {"none", "active", "aborted", "lost"}]
    BY DEF Each
  <2> QED
    BY <2>1, <2>2 DEF Init, TypeOK, Dirs
<1>2. Closing
  BY DEF Init, Closing
<1>3. Commands
  BY DEF Init, Each, Commands, Unposted, Working
<1>4. Killing
  BY DEF Init, Each, Killing
<1>5. Completion
  BY DEF Init, Each, Completion
<1> QED
  BY <1>1, <1>2, <1>3, <1>4, <1>5 DEF IndInv

\* Every step of the emulation thread and of the I/O threads keeps it.
LEMMA StepIndInv == IndInv /\ [Next]_vars => IndInv'
<1> SUFFICES ASSUME IndInv, [Next]_vars PROVE IndInv'
  OBVIOUS
<1> USE DEF IndInv, Dirs, vars, portVars, threadVars
<1>1. CASE SerialOpen
  <2>1. TypeOK'
    <3>1. /\ Each(FALSE) \in [Dirs -> BOOLEAN] /\ Each(0) \in [Dirs -> 0 .. 2]
          /\ Each("wait") \in [Dirs -> {"none", "wait", "io", "check", "abort", "store",
                                        "report", "trigger"}]
      BY DEF Each
    <3> QED
      BY <1>1, <3>1 DEF SerialOpen, TypeOK
  <2>2. Closing'
    BY <1>1 DEF SerialOpen, Each, Closing
  <2>3. Commands'
    BY <1>1 DEF SerialOpen, Each, thread_active, Commands, Unposted, Working
  <2>4. Killing'
    BY <1>1 DEF SerialOpen, Each, Killing
  <2>5. Completion'
    BY <1>1 DEF SerialOpen, Each, Completion
  <2> QED
    BY <2>1, <2>2, <2>3, <2>4, <2>5
<1>2. CASE SerialClose
  <2>1. TypeOK'
    BY <1>2 DEF SerialClose, TypeOK, Results, Closing, Commands, Unposted, Completion
  <2>2. Closing'
    BY <1>2 DEF SerialClose, Closing
  <2>3. Commands'
    BY <1>2 DEF SerialClose, TypeOK, Closing, Commands, Unposted
  <2>4. Killing'
    BY <1>2 DEF SerialClose, Killing
  <2>5. Completion'
    BY <1>2 DEF SerialClose, Completion
  <2> QED
    BY <2>1, <2>2, <2>3, <2>4, <2>5
<1>3. CASE CloseJoins
  <2>1. TypeOK'
    <3>1. CASE dir = "in"
      <4>1. signal["out"] \in 0 .. 1
        BY <1>3, <3>1 DEF CloseJoins, Commands
      <4>2. signal' \in [Dirs -> 0 .. 2]
        BY <1>3, <3>1, <4>1 DEF CloseJoins, TypeOK
      <4> QED
        BY <1>3, <3>1, <4>2 DEF CloseJoins, TypeOK
    <3>2. CASE dir = "out"
      <4>1. request' \in [Dirs -> {"none", "active", "aborted", "lost"}]
        BY <1>3, <3>2 DEF CloseJoins, TypeOK
      <4> QED
        BY <1>3, <3>2, <4>1 DEF CloseJoins, TypeOK
    <3> QED
      BY <1>3, <3>1, <3>2 DEF CloseJoins
  <2>2. Closing'
    BY <1>3 DEF CloseJoins, thread_active, Closing
  <2>3. Commands'
    <3>1. /\ \A d \in Dirs : tpc'[d] = tpc[d] /\ pending'[d] = pending[d] /\ done'[d] = done[d]
          /\ quitting' /\ quitting /\ ~Unposted("in")' /\ ~Unposted("out")'
          /\ signal'["in"] = signal["in"]
          /\ tpc[dir] = "none"
      BY <1>3 DEF CloseJoins, thread_active, TypeOK, Closing, Unposted
    <3>2. CASE dir = "in"
      <4>1. /\ signal'["out"] = signal["out"] + 1
            /\ signal["out"] = 0 \/ (signal["out"] = 1 /\ tpc["out"] \notin Working)
        BY <1>3, <3>2 DEF CloseJoins, TypeOK, Commands
      <4>2. epc' = "close" /\ dir' = "out"
        BY <1>3, <3>2 DEF CloseJoins
      <4> QED
        BY <3>1, <3>2, <4>1, <4>2 DEF Commands
    <3>3. CASE dir = "out"
      BY <1>3, <3>1, <3>3 DEF CloseJoins, Commands
    <3> QED
      BY <3>2, <3>3 DEF TypeOK
  <2>4. Killing'
    BY <1>3 DEF CloseJoins, Killing
  <2>5. Completion'
    BY <1>3 DEF CloseJoins, Killing, Completion
  <2> QED
    BY <2>1, <2>2, <2>3, <2>4, <2>5
<1>4. CASE SerialExit
  <2>1. TypeOK'
    BY <1>4 DEF SerialExit, TypeOK, Results
  <2>2. Closing'
    BY <1>4 DEF SerialExit, Closing
  <2>3. Commands'
    BY <1>4 DEF SerialExit, Commands, Unposted
  <2>4. Killing'
    BY <1>4 DEF SerialExit, Killing
  <2>5. Completion'
    BY <1>4 DEF SerialExit, Completion
  <2> QED
    BY <2>1, <2>2, <2>3, <2>4, <2>5
<1>5. CASE ExitJoins
  <2>1. TypeOK'
    BY <1>5 DEF ExitJoins, thread_active, TypeOK, Results
  <2>2. Closing'
    BY <1>5 DEF ExitJoins, Closing
  <2>3. Commands'
    BY <1>5 DEF ExitJoins, Commands, Unposted
  <2>4. Killing'
    BY <1>5 DEF ExitJoins, Killing
  <2>5. Completion'
    BY <1>5 DEF ExitJoins, Completion
  <2> QED
    BY <2>1, <2>2, <2>3, <2>4, <2>5
<1>6. CASE PrimePost
  <2>1. TypeOK'
    BY <1>6 DEF PrimePost, TypeOK, Results, Closing, Commands, Unposted, Completion
  <2>2. Closing'
    BY <1>6 DEF PrimePost, Closing
  <2>3. Commands'
    BY <1>6 DEF PrimePost, Commands, Unposted
  <2>4. Killing'
    BY <1>6 DEF PrimePost, Killing
  <2>5. Completion'
    BY <1>6 DEF PrimePost, Commands, Completion, Unposted
  <2> QED
    BY <2>1, <2>2, <2>3, <2>4, <2>5
<1>7. CASE KillReturns
  <2>1. TypeOK'
    BY <1>7 DEF KillReturns, TypeOK, Results
  <2>2. Closing'
    BY <1>7 DEF KillReturns, Closing
  <2>3. Commands'
    BY <1>7 DEF KillReturns, Commands, Unposted
  <2>4. Killing'
    BY <1>7 DEF KillReturns, Killing, Commands, Working
  <2>5. Completion'
    BY <1>7 DEF KillReturns, Killing, Completion
  <2> QED
    BY <2>1, <2>2, <2>3, <2>4, <2>5
<1>8. CASE SerialInterrupt
  <2>1. TypeOK'
    BY <1>8 DEF SerialInterrupt, TypeOK, Results
  <2>2. Closing'
    BY <1>8 DEF SerialInterrupt, Closing
  <2>3. Commands'
    BY <1>8 DEF SerialInterrupt, Commands, Unposted
  <2>4. Killing'
    BY <1>8 DEF SerialInterrupt, Killing
  <2>5. Completion'
    BY <1>8 DEF SerialInterrupt, Completion
  <2> QED
    BY <2>1, <2>2, <2>3, <2>4, <2>5
<1>9. CASE EnqueueDone
  <2>1. TypeOK'
    BY <1>9 DEF EnqueueDone, NextSide, TypeOK, Results
  <2>2. Closing'
    BY <1>9 DEF EnqueueDone, NextSide, Closing
  <2>3. Commands'
    BY <1>9 DEF EnqueueDone, NextSide, Commands, Unposted
  <2>4. Killing'
    BY <1>9 DEF EnqueueDone, NextSide, Killing
  <2>5. Completion'
    <3>1. CASE is_open /\ pending[dir] /\ done[dir]
      <4>1. /\ dtQueue' = dtQueue \cup {dir} /\ epc' = "clear" /\ dir' = dir
            /\ UNCHANGED <<is_open, pending, done, dtResult, actual, signal, tpc, request>>
        BY <1>9, <3>1 DEF EnqueueDone
      <4>2. tpc[dir] \notin Working /\ tpc[dir] # "none" /\ ~quitting
        BY <1>9, <3>1 DEF EnqueueDone, TypeOK, Commands, Closing
      <4>3. signal[dir] = 0 /\ request[dir] = "active"
        BY <3>1, <4>2 DEF TypeOK, Commands, Completion
      <4>4. \A d \in Dirs : d # dir => ~(d \in dtQueue /\ pending[d])
        BY <1>9 DEF Completion
      <4> QED
        BY <3>1, <4>1, <4>2, <4>3, <4>4 DEF Completion
    <3>2. CASE ~(is_open /\ pending[dir] /\ done[dir])
      BY <1>9, <3>2 DEF EnqueueDone, NextSide, Completion
    <3> QED
      BY <3>1, <3>2
  <2> QED
    BY <2>1, <2>2, <2>3, <2>4, <2>5
<1>10. CASE ClearPending
  <2>1. TypeOK'
    BY <1>10 DEF ClearPending, NextSide, TypeOK, Results
  <2>2. Closing'
    BY <1>10 DEF ClearPending, NextSide, Closing
  <2>3. Commands'
    <3>1. signal[dir] = 0 /\ tpc[dir] \notin Working /\ epc' \in {"irq", "run"}
      BY <1>10 DEF ClearPending, NextSide, TypeOK, Completion
    <3> QED
      BY <1>10, <3>1 DEF ClearPending, Commands, Unposted
  <2>4. Killing'
    BY <1>10 DEF ClearPending, NextSide, Killing
  <2>5. Completion'
    BY <1>10 DEF ClearPending, NextSide, TypeOK, Completion
  <2> QED
    BY <2>1, <2>2, <2>3, <2>4, <2>5
<1>11. ASSUME NEW d \in Dirs, SerialPrime(d) PROVE IndInv'
  <2>1. TypeOK'
    BY <1>11 DEF SerialPrime, TypeOK, Results
  <2>2. Closing'
    BY <1>11 DEF SerialPrime, Closing
  <2>3. Commands'
    BY <1>11 DEF SerialPrime, TypeOK, Closing, Commands, Unposted
  <2>4. Killing'
    BY <1>11 DEF SerialPrime, Killing
  <2>5. Completion'
    BY <1>11 DEF SerialPrime, TypeOK, Completion
  <2> QED
    BY <2>1, <2>2, <2>3, <2>4, <2>5
<1>12. ASSUME NEW d \in Dirs, KillIO(d) PROVE IndInv'
  <2>1. TypeOK'
    BY <1>12 DEF KillIO, TypeOK, Results
  <2>2. Closing'
    BY <1>12 DEF KillIO, Closing
  <2>3. Commands'
    BY <1>12 DEF KillIO, Commands, Unposted
  <2>4. Killing'
    BY <1>12 DEF KillIO, Killing
  <2>5. Completion'
    BY <1>12 DEF KillIO, Completion
  <2> QED
    BY <2>1, <2>2, <2>3, <2>4, <2>5
<1>13. ASSUME NEW d \in Dirs, DeferredTask(d) PROVE IndInv'
  <2>1. TypeOK'
    BY <1>13 DEF DeferredTask, TypeOK, Results
  <2>2. Closing'
    BY <1>13 DEF DeferredTask, Closing
  <2>3. Commands'
    BY <1>13 DEF DeferredTask, Commands, Unposted
  <2>4. Killing'
    BY <1>13 DEF DeferredTask, Killing
  <2>5. Completion'
    BY <1>13 DEF DeferredTask, TypeOK, Completion
  <2> QED
    BY <2>1, <2>2, <2>3, <2>4, <2>5
<1>14. ASSUME NEW d \in Dirs, AwaitCommand(d) PROVE IndInv'
  <2>1. TypeOK'
    BY <1>14 DEF AwaitCommand, ThreadStep, TypeOK, Results
  <2>2. Closing'
    BY <1>14 DEF AwaitCommand, ThreadStep, Closing
  <2>3. Commands'
    BY <1>14 DEF AwaitCommand, ThreadStep, TypeOK, Commands, Unposted, Working
  <2>4. Killing'
    BY <1>14 DEF AwaitCommand, ThreadStep, Killing
  <2>5. Completion'
    BY <1>14 DEF AwaitCommand, ThreadStep, TypeOK, Completion, Working
  <2> QED
    BY <2>1, <2>2, <2>3, <2>4, <2>5
<1>15. ASSUME NEW d \in Dirs, DoIO(d) PROVE IndInv'
  <2>1. TypeOK'
    BY <1>15 DEF DoIO, ThreadStep, TypeOK, Results
  <2>2. Closing'
    BY <1>15 DEF DoIO, ThreadStep, Closing
  <2>3. Commands'
    BY <1>15 DEF DoIO, ThreadStep, Commands, Unposted, Working
  <2>4. Killing'
    BY <1>15 DEF DoIO, ThreadStep, Killing
  <2>5. Completion'
    BY <1>15 DEF DoIO, ThreadStep, Commands, Completion, Working
  <2> QED
    BY <2>1, <2>2, <2>3, <2>4, <2>5
<1>16. ASSUME NEW d \in Dirs, CheckKilled(d) PROVE IndInv'
  <2>1. TypeOK'
    BY <1>16 DEF CheckKilled, ThreadStep, TypeOK, Results
  <2>2. Closing'
    BY <1>16 DEF CheckKilled, ThreadStep, Closing
  <2>3. Commands'
    BY <1>16 DEF CheckKilled, ThreadStep, Commands, Unposted, Working
  <2>4. Killing'
    BY <1>16 DEF CheckKilled, ThreadStep, Killing
  <2>5. Completion'
    BY <1>16 DEF CheckKilled, ThreadStep, Completion, Working
  <2> QED
    BY <2>1, <2>2, <2>3, <2>4, <2>5
<1>17. ASSUME NEW d \in Dirs, AbortCommand(d) PROVE IndInv'
  <2>1. TypeOK'
    BY <1>17 DEF AbortCommand, ThreadStep, TypeOK, Results
  <2>2. Closing'
    BY <1>17 DEF AbortCommand, ThreadStep, Closing
  <2>3. Commands'
    BY <1>17 DEF AbortCommand, ThreadStep, TypeOK, Commands, Unposted, Working
  <2>4. Killing'
    BY <1>17 DEF AbortCommand, ThreadStep, Killing
  <2>5. Completion'
    BY <1>17 DEF AbortCommand, ThreadStep, TypeOK, Completion, Working
  <2> QED
    BY <2>1, <2>2, <2>3, <2>4, <2>5
<1>18. ASSUME NEW d \in Dirs, ReportDone(d) PROVE IndInv'
  <2>1. CASE ThreadStep(d, "store", "report") /\ StoreResult(d)
    <3>1. TypeOK'
      BY <1>18, <2>1 DEF ReportDone, StoreResult, ThreadStep, TypeOK, Results
    <3>2. Closing'
      BY <1>18, <2>1 DEF ReportDone, ThreadStep, Closing
    <3>3. Commands'
      BY <1>18, <2>1 DEF ReportDone, StoreResult, ThreadStep, TypeOK, Commands, Unposted, Working
    <3>4. Killing'
      BY <1>18, <2>1 DEF ReportDone, ThreadStep, Killing
    <3>5. Completion'
      BY <1>18, <2>1 DEF ReportDone, StoreResult, ThreadStep, TypeOK, Completion, Working
    <3> QED
      BY <3>1, <3>2, <3>3, <3>4, <3>5
  <2>2. CASE ThreadStep(d, "report", "trigger") /\ MarkDone(d)
    <3>1. TypeOK'
      BY <1>18, <2>2 DEF ReportDone, MarkDone, ThreadStep, TypeOK, Results
    <3>2. Closing'
      BY <1>18, <2>2 DEF ReportDone, ThreadStep, Closing
    <3>3. Commands'
      BY <1>18, <2>2 DEF ReportDone, MarkDone, ThreadStep, TypeOK, Commands, Unposted, Working
    <3>4. Killing'
      BY <1>18, <2>2 DEF ReportDone, ThreadStep, Killing
    <3>5. Completion'
      BY <1>18, <2>2 DEF ReportDone, MarkDone, ThreadStep, TypeOK, Completion, Working
    <3> QED
      BY <3>1, <3>2, <3>3, <3>4, <3>5
  <2> QED
    BY <1>18, <2>1, <2>2 DEF ReportDone
<1>19. ASSUME NEW d \in Dirs, TriggerSerial(d) PROVE IndInv'
  <2>1. TypeOK'
    BY <1>19 DEF TriggerSerial, ThreadStep, TypeOK, Results
  <2>2. Closing'
    BY <1>19 DEF TriggerSerial, ThreadStep, Closing
  <2>3. Commands'
    BY <1>19 DEF TriggerSerial, ThreadStep, Commands, Unposted, Working
  <2>4. Killing'
    BY <1>19 DEF TriggerSerial, ThreadStep, Killing
  <2>5. Completion'
    BY <1>19 DEF TriggerSerial, ThreadStep, Completion, Working
  <2> QED
    BY <2>1, <2>2, <2>3, <2>4, <2>5
<1>20. ASSUME NEW d \in Dirs, CancelThread(d) PROVE IndInv'
  <2>1. TypeOK'
    BY <1>20 DEF CancelThread, ThreadStep, TypeOK, Results
  <2>2. Closing'
    BY <1>20 DEF CancelThread, Closing
  <2>3. Commands'
    BY <1>20 DEF CancelThread, ThreadStep, Commands, Unposted, Working
  <2>4. Killing'
    BY <1>20 DEF CancelThread, ThreadStep, Killing
  <2>5. Completion'
    BY <1>20 DEF CancelThread, ThreadStep, Completion, Working
  <2> QED
    BY <2>1, <2>2, <2>3, <2>4, <2>5
<1>21. CASE UNCHANGED vars
  <2>1. TypeOK'
    BY <1>21 DEF TypeOK, Results
  <2>2. Closing'
    BY <1>21 DEF Closing
  <2>3. Commands'
    BY <1>21 DEF Commands, Unposted
  <2>4. Killing'
    BY <1>21 DEF Killing
  <2>5. Completion'
    BY <1>21 DEF Completion
  <2> QED
    BY <2>1, <2>2, <2>3, <2>4, <2>5
<1> QED
  BY <1>1, <1>2, <1>3, <1>4, <1>5, <1>6, <1>7, <1>8, <1>9, <1>10, <1>11, <1>12, <1>13,
     <1>14, <1>15, <1>16, <1>17, <1>18, <1>19, <1>20, <1>21
     DEF Next, Emulation, Thread

\* The inductive invariant holds in every state that the driver reaches.
THEOREM Invariance == Spec => []IndInv
<1>1. Init => IndInv
  BY InitIndInv
<1>2. IndInv /\ [Next]_vars => IndInv'
  BY StepIndInv
<1> QED
  BY <1>1, <1>2, PTL DEF Spec

\* Every variable of the port keeps its type; in particular a command semaphore
\* is never posted more than twice (a command and the post of SerialClose).
THEOREM TypeCorrect == Spec => []TypeOK
<1>1. IndInv => TypeOK
  BY DEF IndInv
<1> QED
  BY <1>1, Invariance, PTL

\* A request that the Mac waits for is pending in the driver or queued for its
\* completion, never both outside SerialInterrupt: IODone is called once for it.
THEOREM RequestsTracked == Spec => []RequestTracked
<1>1. IndInv => RequestTracked
  BY DEF IndInv, RequestTracked, Completion, Dirs
<1> QED
  BY <1>1, Invariance, PTL

\* A deferred task completes the request whose I/O was done, with its result.
THEOREM CompletionsDue == Spec => []CompletionDue
<1>1. IndInv => CompletionDue
  BY DEF IndInv, CompletionDue, TypeOK, Completion, Dirs
<1> QED
  BY <1>1, Invariance, PTL

\* An I/O thread works for a request that is pending and not reported: KillIO,
\* SerialClose and a new Prime never overtake it.
THEOREM ThreadsHaveRequests == Spec => []ThreadHasRequest
<1>1. IndInv => ThreadHasRequest
  BY DEF IndInv, ThreadHasRequest, Commands, Dirs
<1> QED
  BY <1>1, Invariance, PTL

-----------------------------------------------------------------------------
(* The waits of the emulation thread in KillIO and SerialClose. *)

\* A command that was accepted and is not reported is posted next, waits in the
\* semaphore of its thread, or is being worked on; and the thread that SerialClose
\* joins has ended or finds a post in its semaphore.
Underway ==
  /\ \A d \in Dirs :
       is_open /\ epc \notin {"close", "exit", "exited"} /\ pending[d] /\ ~done[d] =>
         \/ Unposted(d)
         \/ tpc[d] \in Working
         \/ signal[d] = 1 /\ tpc[d] \in {"wait", "trigger"}
  /\ epc = "close" => tpc[dir] = "none" \/ signal[dir] > 0

\* What KillIO and SerialClose wait for is on its way.
WaitsMove ==
  /\ epc = "kill" => \/ Wedged
                     \/ \A d \in Dirs : pending[d] =>
                          tpc[d] \in Working \/ (signal[d] = 1 /\ tpc[d] \in {"wait", "trigger"})
  /\ epc = "close" => tpc[dir] = "none" \/ signal[dir] > 0

\* Every step keeps commands on their way, and KillIO wedged.
LEMMA StepUnderway ==
  IndInv /\ Underway /\ [Next]_vars => Underway' /\ (Wedged => Wedged')
<1> SUFFICES ASSUME IndInv, Underway, [Next]_vars PROVE Underway' /\ (Wedged => Wedged')
  OBVIOUS
<1> USE DEF IndInv, TypeOK, Closing, Commands, Killing, Unposted, Working, Underway, Wedged, Dirs, vars,
            portVars, threadVars
<1>1. CASE SerialOpen
  BY <1>1 DEF SerialOpen, Each, thread_active
<1>2. CASE SerialClose
  BY <1>2 DEF SerialClose
<1>3. CASE CloseJoins
  BY <1>3 DEF CloseJoins, thread_active
<1>4. CASE SerialExit
  BY <1>4 DEF SerialExit
<1>5. CASE ExitJoins
  BY <1>5 DEF ExitJoins, thread_active
<1>6. CASE PrimePost
  BY <1>6 DEF PrimePost
<1>7. CASE KillReturns
  BY <1>7 DEF KillReturns
<1>8. CASE SerialInterrupt
  BY <1>8 DEF SerialInterrupt
<1>9. CASE EnqueueDone
  BY <1>9 DEF EnqueueDone, NextSide
<1>10. CASE ClearPending
  BY <1>10 DEF ClearPending, NextSide
<1>11. ASSUME NEW d \in Dirs, SerialPrime(d) PROVE Underway' /\ (Wedged => Wedged')
  BY <1>11 DEF SerialPrime
<1>12. ASSUME NEW d \in Dirs, KillIO(d) PROVE Underway' /\ (Wedged => Wedged')
  BY <1>12 DEF KillIO
<1>13. ASSUME NEW d \in Dirs, DeferredTask(d) PROVE Underway' /\ (Wedged => Wedged')
  BY <1>13 DEF DeferredTask
<1>14. ASSUME NEW d \in Dirs, AwaitCommand(d) PROVE Underway' /\ (Wedged => Wedged')
  BY <1>14 DEF AwaitCommand, ThreadStep
<1>15. ASSUME NEW d \in Dirs, DoIO(d) PROVE Underway' /\ (Wedged => Wedged')
  BY <1>15 DEF DoIO, ThreadStep
<1>16. ASSUME NEW d \in Dirs, CheckKilled(d) PROVE Underway' /\ (Wedged => Wedged')
  BY <1>16 DEF CheckKilled, ThreadStep
<1>17. ASSUME NEW d \in Dirs, AbortCommand(d) PROVE Underway' /\ (Wedged => Wedged')
  BY <1>17 DEF AbortCommand, ThreadStep
<1>18. ASSUME NEW d \in Dirs, ReportDone(d) PROVE Underway' /\ (Wedged => Wedged')
  BY <1>18 DEF ReportDone, StoreResult, MarkDone, ThreadStep
<1>19. ASSUME NEW d \in Dirs, TriggerSerial(d) PROVE Underway' /\ (Wedged => Wedged')
  BY <1>19 DEF TriggerSerial, ThreadStep
<1>20. ASSUME NEW d \in Dirs, CancelThread(d) PROVE Underway' /\ (Wedged => Wedged')
  BY <1>20 DEF CancelThread, ThreadStep
<1>21. CASE UNCHANGED vars
  BY <1>21
<1> QED
  BY <1>1, <1>2, <1>3, <1>4, <1>5, <1>6, <1>7, <1>8, <1>9, <1>10,
     <1>11, <1>12, <1>13, <1>14, <1>15, <1>16, <1>17, <1>18, <1>19, <1>20, <1>21
     DEF Next, Emulation, Thread

\* KillIO and SerialClose wait for a thread that has, or is about to get, what it needs
\* to go on; only a KillIO that found a reported command waits for something else,
\* the interrupt that it keeps out itself.
THEOREM NoOtherWedge == Spec => []WaitsMove
<1>1. Init => Underway
  BY DEF Init, Each, Underway
<1>2. IndInv /\ Underway => WaitsMove
  BY DEF IndInv, TypeOK, Killing, Unposted, Underway, WaitsMove, Wedged, Dirs
<1> QED
  BY <1>1, <1>2, StepUnderway, Invariance, PTL DEF Spec

\* A wedged KillIO never returns, whatever the I/O threads do.
THEOREM WedgeLasts == Spec => [][Wedged => Wedged']_vars
<1>1. Init => Underway
  BY DEF Init, Each, Underway
<1> QED
  BY <1>1, StepUnderway, Invariance, PTL DEF Spec
=============================================================================
