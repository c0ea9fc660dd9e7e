----------------------------- MODULE SerialPort -----------------------------
(***************************************************************************)
(* One port of the serial driver (serial.cpp) with its input and output    *)
(* thread (Unix/serial_unix.cpp).  The Mac calls the driver from the       *)
(* emulation thread; a Prime command is handed to the thread of its        *)
(* direction, which does the I/O, marks the command as done and triggers   *)
(* the serial interrupt, and SerialInterrupt queues the deferred task that *)
(* completes the request.  KillIO and Close wait for the threads.          *)
(*                                                                         *)
(* The two directions run the same code on variables of their own.  The    *)
(* Device Manager (external) gives the driver of a direction one request   *)
(* at a time and completes those of a direction after its KillIO.          *)
(***************************************************************************)
EXTENDS Naturals

Dirs == {"in", "out"}

VARIABLES
  is_open,
  pending, done,          \* read_pending, write_pending; read_done, write_done
  io_killed, quitting,
  signal,                 \* the command semaphores of the threads
  tpc,                    \* where the threads are
  actual,                 \* what the last read() or write() returned
  dtResult,               \* the result in the deferred task structure
  dtQueue,                \* the deferred tasks that are queued
  irq,                    \* INTFLAG_SERIAL
  request,                \* the request of the Device Manager
  epc, dir                \* where the emulation thread is, and for which direction

threadVars == <<signal, tpc, actual>>
portVars   == <<is_open, quitting>>
vars == <<portVars, pending, done, io_killed, threadVars, dtResult, dtQueue, irq,
          request, epc, dir>>

Results == {"noErr", "error"}

TypeOK ==
  /\ is_open \in BOOLEAN
  /\ pending \in [Dirs -> BOOLEAN]
  /\ done \in [Dirs -> BOOLEAN]
  /\ io_killed \in BOOLEAN
  /\ quitting \in BOOLEAN
  /\ signal \in [Dirs -> 0 .. 2]
  /\ tpc \in [Dirs -> {"none", "wait", "io", "check", "abort", "store", "report", "trigger"}]
  /\ actual \in [Dirs -> Results]
  /\ dtResult \in [Dirs -> Results]
  /\ dtQueue \subseteq Dirs
  /\ irq \in BOOLEAN
  /\ request \in [Dirs -> {"none", "active", "aborted", "lost"}]
  /\ epc \in {"run", "prime", "kill", "irq", "clear", "close", "exit", "exited"}
  /\ dir \in Dirs

Each(v) == [d \in Dirs |-> v]

Init ==
  /\ is_open = FALSE /\ pending = Each(FALSE) /\ done = Each(FALSE)
  /\ io_killed = FALSE /\ quitting = FALSE
  /\ signal = Each(0) /\ tpc = Each("none")
  /\ actual = Each("noErr") /\ dtResult = Each("noErr")
  /\ dtQueue = {} /\ irq = FALSE /\ request = Each("none")
  /\ epc = "run" /\ dir = "in"

thread_active(d) == tpc[d] # "none"

-----------------------------------------------------------------------------
\* The driver's routines, on the emulation thread.

\* SerialOpen: the port may fail to open, its threads are then cancelled, and
\* the deferred tasks may fail to be allocated, after which the threads run but
\* the port is not open.  Another SerialOpen would initialise semaphores that
\* these threads wait for: it is not followed.
SerialOpen ==
  /\ epc = "run" /\ ~is_open
  /\ \A d \in Dirs : ~thread_active(d)
  /\ pending' = Each(FALSE) /\ done' = Each(FALSE)
  /\ io_killed' = FALSE /\ quitting' = FALSE
  /\ \/ UNCHANGED <<is_open, signal, tpc>>
     \/ /\ is_open' \in BOOLEAN
        /\ signal' = Each(0)
        /\ tpc' = Each("wait")
  /\ UNCHANGED <<actual, dtResult, dtQueue, irq, request, epc, dir>>

\* SerialPrimeIn and SerialPrimeOut up to the semaphore.  If the port is not
\* open or a command is pending, the request is completed with an error.
SerialPrime(d) ==
  /\ epc = "run"
  /\ request[d] = "none"
  /\ is_open /\ ~pending[d]
  /\ request' = [request EXCEPT ![d] = "active"]
  /\ done' = [done EXCEPT ![d] = FALSE]
  /\ pending' = [pending EXCEPT ![d] = TRUE]
  /\ epc' = "prime" /\ dir' = d
  /\ UNCHANGED <<portVars, io_killed, threadVars, dtResult, dtQueue, irq>>

PrimePost ==
  /\ epc = "prime"
  /\ signal' = [signal EXCEPT ![dir] = @ + 1]
  /\ epc' = "run"
  /\ UNCHANGED <<portVars, pending, done, io_killed, tpc, actual, dtResult, dtQueue, irq,
                 request, dir>>

\* SerialControl with KillIO.  Deferred tasks run before the code that was
\* interrupted goes on, so that none is queued when the Mac calls it.
KillIO(d) ==
  /\ epc = "run" /\ dtQueue = {}
  /\ is_open
  /\ io_killed' = TRUE
  /\ epc' = "kill" /\ dir' = d
  /\ UNCHANGED <<portVars, pending, done, threadVars, dtResult, dtQueue, irq, request>>

\* It waits until no command is pending; the Device Manager then completes the
\* request of the direction it was called for.
KillReturns ==
  /\ epc = "kill"
  /\ \A d \in Dirs : ~pending[d]
  /\ io_killed' = FALSE
  /\ request' = [request EXCEPT ![dir] = "none"]
  /\ epc' = "run"
  /\ UNCHANGED <<portVars, pending, done, threadVars, dtResult, dtQueue, irq, dir>>

\* SerialClose, called by the output driver when it has no request.
SerialClose ==
  /\ epc = "run" /\ dtQueue = {}
  /\ is_open
  /\ request["out"] # "active"
  /\ quitting' = TRUE
  /\ signal' = [signal EXCEPT !["in"] = @ + 1]
  /\ epc' = "close" /\ dir' = "in"
  /\ UNCHANGED <<is_open, pending, done, io_killed, tpc, actual, dtResult, dtQueue, irq,
                 request>>

\* The input thread is joined, then the output thread.  A request of the input
\* driver that was pending is lost: SerialInterrupt looks at open ports only.
CloseJoins ==
  /\ epc = "close" /\ ~thread_active(dir)
  /\ \/ /\ dir = "in"
        /\ dir' = "out"
        /\ signal' = [signal EXCEPT !["out"] = @ + 1]
        /\ UNCHANGED <<is_open, epc, request>>
     \/ /\ dir = "out"
        /\ is_open' = FALSE
        /\ epc' = "run"
        /\ request' = [d \in Dirs |-> IF request[d] = "active" THEN "lost" ELSE request[d]]
        /\ UNCHANGED <<signal, dir>>
  /\ UNCHANGED <<quitting, pending, done, io_killed, tpc, actual, dtResult, dtQueue, irq>>

\* SerialExit: the threads that are active are cancelled and joined in turn.
SerialExit ==
  /\ epc = "run"
  /\ epc' = "exit" /\ dir' = "in"
  /\ UNCHANGED <<portVars, pending, done, io_killed, threadVars, dtResult, dtQueue, irq,
                 request>>

ExitJoins ==
  /\ epc = "exit" /\ ~thread_active(dir)
  /\ \/ dir = "in"  /\ dir' = "out" /\ UNCHANGED epc
     \/ dir = "out" /\ epc' = "exited" /\ UNCHANGED dir
  /\ UNCHANGED <<portVars, pending, done, io_killed, threadVars, dtResult, dtQueue, irq,
                 request>>

-----------------------------------------------------------------------------
\* SerialInterrupt: OP_IRQ clears the flag before it calls the handler.

SerialInterrupt ==
  /\ epc = "run" /\ irq
  /\ irq' = FALSE
  /\ epc' = "irq" /\ dir' = "in"
  /\ UNCHANGED <<portVars, pending, done, io_killed, threadVars, dtResult, dtQueue, request>>

\* The input side is looked at before the output side.
NextSide ==
  IF dir = "in" THEN epc' = "irq" /\ dir' = "out" ELSE epc' = "run" /\ UNCHANGED dir

\* Mutant: a command that is pending is completed whether it is done or not.
EnqueueUndone ==
  /\ epc = "irq"
  /\ IF is_open /\ pending[dir]
     THEN dtQueue' = dtQueue \cup {dir} /\ epc' = "clear" /\ UNCHANGED dir
     ELSE NextSide /\ UNCHANGED dtQueue
  /\ UNCHANGED <<portVars, pending, done, io_killed, threadVars, dtResult, irq, request>>

EnqueueDone ==
  /\ epc = "irq"
  /\ IF is_open /\ pending[dir] /\ done[dir]
     THEN dtQueue' = dtQueue \cup {dir} /\ epc' = "clear" /\ UNCHANGED dir
     ELSE NextSide /\ UNCHANGED dtQueue
  /\ UNCHANGED <<portVars, pending, done, io_killed, threadVars, dtResult, irq, request>>

\* Mutant: the command stays pending.
ClearDoneOnly ==
  /\ epc = "clear"
  /\ done' = [done EXCEPT ![dir] = FALSE]
  /\ NextSide
  /\ UNCHANGED <<portVars, pending, io_killed, threadVars, dtResult, dtQueue, irq, request>>

ClearPending ==
  /\ epc = "clear"
  /\ pending' = [pending EXCEPT ![dir] = FALSE]
  /\ done' = [done EXCEPT ![dir] = FALSE]
  /\ NextSide
  /\ UNCHANGED <<portVars, io_killed, threadVars, dtResult, dtQueue, irq, request>>

\* The deferred task calls IODone, which completes the request of its direction.
DeferredTask(d) ==
  /\ epc = "run" /\ d \in dtQueue
  /\ dtQueue' = dtQueue \ {d}
  /\ request' = [request EXCEPT ![d] = "none"]
  /\ UNCHANGED <<portVars, pending, done, io_killed, threadVars, dtResult, irq, epc, dir>>

-----------------------------------------------------------------------------
\* input_func and output_func.

ThreadStep(d, from, to) == tpc[d] = from /\ tpc' = [tpc EXCEPT ![d] = to]

\* Mutant: a thread that is told to quit does not.
QuitIgnored(d) ==
  /\ ThreadStep(d, "wait", "io")
  /\ signal[d] > 0
  /\ signal' = [signal EXCEPT ![d] = @ - 1]
  /\ UNCHANGED <<portVars, pending, done, io_killed, actual, dtResult, dtQueue, irq, request,
                 epc, dir>>

AwaitCommand(d) ==
  /\ ThreadStep(d, "wait", IF quitting THEN "none" ELSE "io")
  /\ signal[d] > 0
  /\ signal' = [signal EXCEPT ![d] = @ - 1]
  /\ UNCHANGED <<portVars, pending, done, io_killed, actual, dtResult, dtQueue, irq, request,
                 epc, dir>>

DoIO(d) ==
  /\ ThreadStep(d, "io", "check")
  /\ \E r \in Results : actual' = [actual EXCEPT ![d] = r]
  /\ UNCHANGED <<portVars, pending, done, io_killed, signal, dtResult, dtQueue, irq, request,
                 epc, dir>>

CheckKilled(d) ==
  /\ ThreadStep(d, "check", IF io_killed THEN "abort" ELSE "store")
  /\ UNCHANGED <<portVars, pending, done, io_killed, signal, actual, dtResult, dtQueue, irq,
                 request, epc, dir>>

\* abortErr is stored in the request, but nothing completes it here.
AbortCommand(d) ==
  /\ ThreadStep(d, "abort", "wait")
  /\ request' = [request EXCEPT ![d] = "aborted"]
  /\ pending' = [pending EXCEPT ![d] = FALSE]
  /\ done' = [done EXCEPT ![d] = FALSE]
  /\ UNCHANGED <<portVars, io_killed, signal, actual, dtResult, dtQueue, irq, epc, dir>>

StoreResult(d) == dtResult' = [dtResult EXCEPT ![d] = actual[d]] /\ UNCHANGED done
MarkDone(d)    == done' = [done EXCEPT ![d] = TRUE] /\ UNCHANGED dtResult

\* Mutant: the command is marked as done before its result is stored.
ReportBeforeStore(d) ==
  /\ \/ ThreadStep(d, "store", "report") /\ MarkDone(d)
     \/ ThreadStep(d, "report", "trigger") /\ StoreResult(d)
  /\ UNCHANGED <<portVars, pending, io_killed, signal, actual, dtQueue, irq, request, epc, dir>>

\* The result is stored, then the command marked as done: the serial interrupt of
\* the other direction may come between.
ReportDone(d) ==
  /\ \/ ThreadStep(d, "store", "report") /\ StoreResult(d)
     \/ ThreadStep(d, "report", "trigger") /\ MarkDone(d)
  /\ UNCHANGED <<portVars, pending, io_killed, signal, actual, dtQueue, irq, request, epc, dir>>

\* Mutant: no interrupt is triggered.
NoTrigger(d) ==
  /\ ThreadStep(d, "trigger", "wait")
  /\ UNCHANGED <<portVars, pending, done, io_killed, signal, actual, dtResult, dtQueue, irq,
                 request, epc, dir>>

TriggerSerial(d) ==
  /\ ThreadStep(d, "trigger", "wait")
  /\ irq' = TRUE
  /\ UNCHANGED <<portVars, pending, done, io_killed, signal, actual, dtResult, dtQueue, request,
                 epc, dir>>

\* A cancelled thread ends where it waits or does I/O.
CancelThread(d) ==
  /\ epc = "exit" /\ dir = d
  /\ ThreadStep(d, tpc[d], "none") /\ tpc[d] \in {"wait", "io"}
  /\ UNCHANGED <<portVars, pending, done, io_killed, signal, actual, dtResult, dtQueue, irq,
                 request, epc, dir>>

-----------------------------------------------------------------------------

Emulation ==
  \/ SerialOpen \/ SerialClose \/ CloseJoins \/ SerialExit \/ ExitJoins
  \/ PrimePost \/ KillReturns \/ SerialInterrupt \/ EnqueueDone \/ ClearPending
  \/ \E d \in Dirs : SerialPrime(d) \/ KillIO(d) \/ DeferredTask(d)

Thread(d) ==
  \/ AwaitCommand(d) \/ DoIO(d) \/ CheckKilled(d) \/ AbortCommand(d) \/ ReportDone(d)
  \/ TriggerSerial(d) \/ CancelThread(d)

Next == Emulation \/ \E d \in Dirs : Thread(d)

Spec == Init /\ [][Next]_vars

\* The threads run and their reads and writes return; the emulation thread runs
\* the routine it is in, the serial interrupt and the deferred tasks.
Fairness ==
  /\ \A d \in Dirs : WF_vars(Thread(d)) /\ SF_vars(DeferredTask(d))
  /\ WF_vars(\/ PrimePost \/ KillReturns \/ EnqueueDone \/ ClearPending \/ CloseJoins
             \/ ExitJoins)
  /\ SF_vars(SerialInterrupt)

FairSpec == Spec /\ Fairness

-----------------------------------------------------------------------------
\* Properties.

\* The thread has taken a command and not yet answered it.
Working == {"io", "check", "abort", "store", "report"}

\* A request the Mac waits for is not forgotten: while the port is open it is
\* pending in the driver or its deferred task is queued, never both (IODone would
\* be called twice), except between the two statements of SerialInterrupt.
RequestTracked ==
  \A d \in Dirs :
    /\ is_open /\ request[d] = "active" => pending[d] \/ d \in dtQueue
    /\ d \in dtQueue /\ pending[d] => epc = "clear" /\ dir = d

\* A deferred task completes the request whose I/O was done, with its result: its
\* I/O thread is not working on another command at that time.
CompletionDue ==
  \A d \in dtQueue :
    /\ request[d] = "active"
    /\ dtResult[d] = actual[d]
    /\ tpc[d] \notin Working

\* A thread does I/O into the buffer of a request that is still pending and has
\* not been reported: neither KillIO nor Close returns, and no new request is
\* accepted, while the thread works on the old one.
ThreadHasRequest ==
  \A d \in Dirs :
    tpc[d] \in Working => pending[d] /\ ~done[d] /\ signal[d] <= 1

\* KillIO waits for a command that its thread has reported, which only the
\* interrupt that KillIO keeps out could complete.
Wedged == epc = "kill" /\ \E d \in Dirs : pending[d] /\ done[d]

\* Every request is completed or aborted, as long as reads and writes return,
\* unless the port is closed under it, the program ends or KillIO is wedged.
RequestEnds ==
  \A d \in Dirs :
    request[d] = "active" ~> \/ request[d] # "active" \/ ~is_open \/ Wedged
                             \/ epc \in {"close", "exit", "exited"}

\* SerialClose and SerialExit join both threads.
ClosingEnds == epc \in {"close", "exit"} ~> epc \notin {"close", "exit"}

\* What the declaration of io_killed says: "KillIO called, I/O threads must not
\* call deferred tasks".  No thread reports a command after KillIO was called.
KilledNotReported ==
  [][\A d \in Dirs : io_killed /\ done'[d] => done[d]]_vars
=============================================================================
