----------------------------- MODULE Interrupts -----------------------------
(***************************************************************************)
(* Interrupt delivery of the emulated PowerPC build.  Host threads (60Hz   *)
(* tick, timer, Ethernet, audio...) set a bit of InterruptFlags and        *)
(* trigger the CPU; the emulation thread polls its special flags between   *)
(* blocks of PowerPC code, HandleInterrupt makes the 68k emulator take a   *)
(* level 1 interrupt, and the EMUL_OP OP_IRQ serves the flags that are set.*)
(* An interrupt that comes at the wrong time is dropped: only its flag     *)
(* stays, until the next trigger.                                          *)
(*                                                                         *)
(* The emulation thread is the stack of its nested activations:            *)
(*   68k        68k code (the base, or called with Execute68k)             *)
(*   native     native PowerPC code, MODE_NATIVE                           *)
(*   kernel     the nanokernel, entered to switch between these            *)
(*   emulop     an EMUL_OP routine                                         *)
(*   macos      PowerPC code called by an EMUL_OP routine, MODE_EMUL_OP    *)
(*   disabled   a video mode switch, between Disable- and EnableInterrupt  *)
(*   idle       idle_wait in OP_IDLE_TIME                                  *)
(*   nkirq      the nanokernel, entered by HandleInterrupt                 *)
(*   nk68k      the 68k emulator it activates                              *)
(*   handler, handlerEnd   the level 1 handler before and after OP_IRQ     *)
(*   irq        OP_IRQ                                                     *)
(***************************************************************************)
EXTENDS Integers, Sequences, FiniteSets

CONSTANTS Order,      \* the devices in the order OP_IRQ looks at their flags
          Acking,     \* those whose thread waits for an acknowledgement
          Tick,       \* the device of the 60Hz thread (VIA)
          MaxDepth    \* bound of the nesting of EMUL_OPs and Mac code

Devices == {Order[i] : i \in 1 .. Len(Order)}

ASSUME OrderAssumption == /\ Len(Order) \in Nat
                          /\ \A i, j \in 1 .. Len(Order) : Order[i] = Order[j] => i = j
ASSUME DevicesAssumption == Acking \subseteq Devices /\ Tick \in Devices \ Acking
ASSUME DepthAssumption == MaxDepth \in Nat

VARIABLES
  InterruptFlags,   \* the devices whose flag is set
  spcTrigger,       \* SPCFLAG_CPU_TRIGGER_INTERRUPT
  spcHandle,        \* SPCFLAG_CPU_HANDLE_INTERRUPT
  processing,       \* processing_interrupt in check_spcflags
  IRQ_NEST,         \* XLM_IRQ_NEST
  pending,          \* the level 1 interrupt request of the 68k emulator
  level,            \* the 68k interrupt level is 0 or above
  stack,            \* the activations, the current one last
  todo, serving,    \* OP_IRQ: the next flag to test, its handler is running
  macStarted,       \* HasMacStarted()
  dpc,              \* where each device's thread is
  ack               \* the acknowledge semaphores

cpuVars    == <<processing, IRQ_NEST, pending, level>>
irqVars    == <<todo, serving>>
deviceVars == <<dpc, ack>>
vars == <<InterruptFlags, spcTrigger, spcHandle, cpuVars, stack, irqVars,
          macStarted, deviceVars>>

Frames == {"68k", "native", "kernel", "emulop", "macos", "disabled", "idle",
           "nkirq", "nk68k", "handler", "handlerEnd", "irq"}

TypeOK ==
  /\ InterruptFlags \subseteq Devices
  /\ spcTrigger \in BOOLEAN
  /\ spcHandle \in BOOLEAN
  /\ processing \in BOOLEAN
  /\ IRQ_NEST \in Nat
  /\ pending \in BOOLEAN
  /\ level \in {0, 1}
  /\ stack \in Seq(Frames) /\ stack # <<>>
  /\ todo \in 1 .. Len(Order) + 1
  /\ serving \in BOOLEAN
  /\ macStarted \in BOOLEAN
  /\ dpc \in [Devices -> {"work", "trigger", "wait"}]
  /\ ack \in [Acking -> {0, 1}]

Init ==
  /\ InterruptFlags = {}
  /\ spcTrigger = FALSE /\ spcHandle = FALSE
  /\ processing = FALSE /\ IRQ_NEST = 0 /\ pending = FALSE /\ level = 0
  /\ stack = <<"68k">>
  /\ todo = Len(Order) + 1 /\ serving = FALSE
  /\ macStarted = FALSE
  /\ dpc = [d \in Devices |-> "work"]
  /\ ack = [d \in Acking |-> 0]

-----------------------------------------------------------------------------
\* The activations of the emulation thread.

Top     == stack[Len(stack)]
Below   == SubSeq(stack, 1, Len(stack) - 1)
Push(f) == stack' = Append(stack, f)
Pop     == stack' = Below
Become(f) == stack' = Append(Below, f)

\* The frames that execute PowerPC code, and those of them in MODE_68K.
Polling == {"68k", "native", "kernel", "macos", "nkirq", "nk68k", "handler", "handlerEnd"}
Mode68k == {"68k", "nk68k", "handler", "handlerEnd"}

-----------------------------------------------------------------------------
\* The host threads.

\* Mutant: the flags are stored instead of or'ed.
StoreInterruptFlag(d) ==
  /\ dpc[d] = "work"
  /\ d = Tick => IRQ_NEST = 0
  /\ InterruptFlags' = {d}
  /\ dpc' = [dpc EXCEPT ![d] = "trigger"]
  /\ UNCHANGED <<spcTrigger, spcHandle, cpuVars, stack, irqVars, macStarted, ack>>

\* SetInterruptFlag.  The 60Hz thread looks at XLM_IRQ_NEST first.
SetInterruptFlag(d) ==
  /\ dpc[d] = "work"
  /\ d = Tick => IRQ_NEST = 0
  /\ InterruptFlags' = InterruptFlags \cup {d}
  /\ dpc' = [dpc EXCEPT ![d] = "trigger"]
  /\ UNCHANGED <<spcTrigger, spcHandle, cpuVars, stack, irqVars, macStarted, ack>>

\* Mutant: the trigger does not wake a waiting emulation thread.
TriggerWithoutResume(d) ==
  /\ dpc[d] = "trigger"
  /\ spcTrigger' = TRUE
  /\ dpc' = [dpc EXCEPT ![d] = IF d \in Acking THEN "wait" ELSE "work"]
  /\ UNCHANGED <<InterruptFlags, spcHandle, cpuVars, stack, irqVars, macStarted, ack>>

\* TriggerInterrupt: idle_resume wakes a waiting emulation thread, and a signal
\* that nobody waits for is forgotten.
TriggerInterrupt(d) ==
  /\ dpc[d] = "trigger"
  /\ spcTrigger' = TRUE
  /\ stack' = IF Top = "idle" THEN Below ELSE stack
  /\ dpc' = [dpc EXCEPT ![d] = IF d \in Acking THEN "wait" ELSE "work"]
  /\ UNCHANGED <<InterruptFlags, spcHandle, cpuVars, irqVars, macStarted, ack>>

\* The thread's wait for the acknowledgement of its interrupt ends.
AwaitAck(d) ==
  /\ dpc[d] = "wait"
  /\ ack[d] > 0
  /\ ack' = [ack EXCEPT ![d] = @ - 1]
  /\ dpc' = [dpc EXCEPT ![d] = "work"]
  /\ UNCHANGED <<InterruptFlags, spcTrigger, spcHandle, cpuVars, stack, irqVars, macStarted>>

-----------------------------------------------------------------------------
\* check_spcflags and HandleInterrupt.

\* The trigger is turned into a request to handle it at the next poll.
PromoteTrigger ==
  /\ Top \in Polling
  /\ spcTrigger
  /\ spcTrigger' = FALSE
  /\ spcHandle' = TRUE
  /\ UNCHANGED <<InterruptFlags, cpuVars, stack, irqVars, macStarted, deviceVars>>

\* The request is forgotten: another one is being processed, interrupts are
\* disabled, or an EMUL_OP runs at a raised interrupt level.
Dropped ==
  \/ processing
  \/ IRQ_NEST > 0
  \/ Top = "macos" /\ level > 0

DropInterrupt ==
  /\ Top \in Polling
  /\ spcHandle
  /\ Dropped
  /\ spcHandle' = FALSE
  /\ UNCHANGED <<InterruptFlags, spcTrigger, cpuVars, stack, irqVars, macStarted, deviceVars>>

\* The three cases of HandleInterrupt by XLM_RUN_MODE.
In68k ==
  /\ Top \in Mode68k
  /\ pending' = TRUE
  /\ UNCHANGED <<processing, IRQ_NEST, level, stack>>

\* Mutant: the nanokernel is entered with interrupts enabled.
InNativeEnabled ==
  /\ Top = "native"
  /\ pending' = TRUE
  /\ processing' = TRUE
  /\ Push("nkirq")
  /\ UNCHANGED <<IRQ_NEST, level>>

InNative ==
  /\ Top = "native"
  /\ pending' = TRUE
  /\ processing' = TRUE
  /\ IRQ_NEST' = IRQ_NEST + 1          \* DisableInterrupt
  /\ Push("nkirq")
  /\ UNCHANGED level

InEmulOp ==
  /\ Top = "macos"
  /\ processing' = TRUE
  /\ level' = 1
  /\ Push("handler")
  /\ UNCHANGED <<IRQ_NEST, pending>>

HandleInterrupt ==
  /\ Top \in Polling
  /\ spcHandle
  /\ ~Dropped
  /\ spcHandle' = FALSE
  /\ In68k \/ InNative \/ InEmulOp
  /\ UNCHANGED <<InterruptFlags, spcTrigger, irqVars, macStarted, deviceVars>>

\* The 68k emulator takes the level 1 interrupt.
TakeLevel1 ==
  /\ Top \in {"68k", "nk68k"}
  /\ pending /\ level = 0
  /\ level' = 1
  /\ Push("handler")
  /\ UNCHANGED <<InterruptFlags, spcTrigger, spcHandle, processing, IRQ_NEST, pending,
                 irqVars, macStarted, deviceVars>>

\* The handler ends: the interrupt level is restored, and where HandleInterrupt
\* had called it, check_spcflags is left.
HandlerReturns ==
  /\ Top = "handlerEnd"
  /\ level' = 0
  /\ processing' = IF Below[Len(Below)] = "macos" THEN FALSE ELSE processing
  /\ Pop
  /\ UNCHANGED <<InterruptFlags, spcTrigger, spcHandle, IRQ_NEST, pending, irqVars,
                 macStarted, deviceVars>>

\* The nanokernel returns to the interrupted native code.
NativeResumes ==
  /\ Top = "nk68k"
  /\ ~(pending /\ level = 0)
  /\ processing' = FALSE
  /\ Pop
  /\ UNCHANGED <<InterruptFlags, spcTrigger, spcHandle, IRQ_NEST, pending, level, irqVars,
                 macStarted, deviceVars>>

-----------------------------------------------------------------------------
\* OP_IRQ.  Before the Mac has started it serves no flag.

OpIrq ==
  /\ Top = "handler"
  /\ pending' = FALSE
  /\ stack' = Below \o <<"handlerEnd", "irq">>
  /\ todo' = IF macStarted THEN 1 ELSE Len(Order) + 1
  /\ UNCHANGED <<InterruptFlags, spcTrigger, spcHandle, processing, IRQ_NEST, level,
                 serving, macStarted, deviceVars>>

\* Mutant: the flag is not cleared.
TestFlagKeeps ==
  /\ Top = "irq"
  /\ todo <= Len(Order) /\ ~serving
  /\ IF Order[todo] \in InterruptFlags
     THEN serving' = TRUE /\ UNCHANGED todo
     ELSE todo' = todo + 1 /\ UNCHANGED serving
  /\ UNCHANGED <<InterruptFlags, spcTrigger, spcHandle, cpuVars, stack, macStarted, deviceVars>>

TestFlag ==
  /\ Top = "irq"
  /\ todo <= Len(Order) /\ ~serving
  /\ IF Order[todo] \in InterruptFlags
     THEN /\ InterruptFlags' = InterruptFlags \ {Order[todo]}     \* ClearInterruptFlag
          /\ serving' = TRUE
          /\ UNCHANGED todo
     ELSE todo' = todo + 1 /\ UNCHANGED <<InterruptFlags, serving>>
  /\ UNCHANGED <<spcTrigger, spcHandle, cpuVars, stack, macStarted, deviceVars>>

\* Mutant: the handler returns without the acknowledgement.
HandlerDoneSilently ==
  /\ Top = "irq" /\ serving
  /\ serving' = FALSE
  /\ todo' = todo + 1
  /\ UNCHANGED <<InterruptFlags, spcTrigger, spcHandle, cpuVars, stack, macStarted, deviceVars>>

\* A device's handler returns; EtherIRQ and DeviceInterrupt acknowledge.
HandlerDone ==
  /\ Top = "irq" /\ serving
  /\ serving' = FALSE
  /\ todo' = todo + 1
  /\ ack' = [d \in Acking |-> IF d = Order[todo] THEN ack[d] + 1 ELSE ack[d]]
  /\ UNCHANGED <<InterruptFlags, spcTrigger, spcHandle, cpuVars, stack, macStarted, dpc>>

IrqReturns ==
  /\ Top = "irq" /\ todo > Len(Order)
  /\ Pop
  /\ UNCHANGED <<InterruptFlags, spcTrigger, spcHandle, cpuVars, irqVars, macStarted, deviceVars>>

-----------------------------------------------------------------------------
\* What the Mac does.

Calls(from, to) ==
  /\ Top \in from
  /\ Len(stack) < MaxDepth
  /\ Push(to)
  /\ UNCHANGED <<InterruptFlags, spcTrigger, spcHandle, cpuVars, irqVars, macStarted, deviceVars>>

\* execute_emul_op, execute_macos_code, and Execute68k by an EMUL_OP routine or
\* by the handler of a device.
EmulOp    == Calls({"68k"}, "emulop")
CallMacOS == Calls({"emulop"}, "macos")
\* Mutant: the 68k code starts at interrupt level 0 instead of XLM_68K_R25's.
Execute68kAtLevel0 ==
  /\ Top = "irq" => serving
  /\ Top \in {"emulop", "irq"}
  /\ Len(stack) < MaxDepth
  /\ Push("68k")
  /\ level' = 0
  /\ UNCHANGED <<InterruptFlags, spcTrigger, spcHandle, processing, IRQ_NEST, pending, irqVars,
                 macStarted, deviceVars>>

Execute68k == (Top = "irq" => serving) /\ Calls({"emulop", "irq"}, "68k")

CallReturns ==
  /\ \/ Top \in {"emulop", "macos"}
     \/ Top = "68k" /\ Len(stack) > 1
  /\ Pop
  /\ UNCHANGED <<InterruptFlags, spcTrigger, spcHandle, cpuVars, irqVars, macStarted, deviceVars>>

\* OP_IDLE_TIME with no event pending.
idle_wait == Calls({"emulop"}, "idle")

\* Mixed Mode and the return to the 68k emulator go through the nanokernel,
\* whose entry and exit patches count XLM_IRQ_NEST up and down.
EnterKernel ==
  /\ Top \in {"68k", "native"}
  /\ Become("kernel")
  /\ IRQ_NEST' = IRQ_NEST + 1
  /\ UNCHANGED <<InterruptFlags, spcTrigger, spcHandle, processing, pending, level, irqVars,
                 macStarted, deviceVars>>

LeaveKernel ==
  /\ \/ Top = "kernel" /\ \E f \in {"68k", "native"} : Become(f)
     \/ Top = "nkirq" /\ Become("nk68k")
  /\ IRQ_NEST' = IRQ_NEST - 1
  /\ UNCHANGED <<InterruptFlags, spcTrigger, spcHandle, processing, pending, level, irqVars,
                 macStarted, deviceVars>>

\* A video mode switch by the native video driver.
DisableInterrupt ==
  /\ Top = "native"
  /\ Len(stack) < MaxDepth
  /\ Push("disabled")
  /\ IRQ_NEST' = IRQ_NEST + 1
  /\ UNCHANGED <<InterruptFlags, spcTrigger, spcHandle, processing, pending, level, irqVars,
                 macStarted, deviceVars>>

EnableInterrupt ==
  /\ Top = "disabled"
  /\ Pop
  /\ IRQ_NEST' = IRQ_NEST - 1
  /\ UNCHANGED <<InterruptFlags, spcTrigger, spcHandle, processing, pending, level, irqVars,
                 macStarted, deviceVars>>

\* The Mac's own 68k code masks and unmasks interrupts.  Code called with
\* Execute68k returns at the level at which it was called (execute_68k restores
\* the register that holds it).
SetLevel(l) ==
  /\ stack = <<"68k">>
  /\ level' = l
  /\ UNCHANGED <<InterruptFlags, spcTrigger, spcHandle, processing, IRQ_NEST, pending, stack,
                 irqVars, macStarted, deviceVars>>

MacStarts ==
  /\ Top = "68k"
  /\ macStarted' = TRUE
  /\ UNCHANGED <<InterruptFlags, spcTrigger, spcHandle, cpuVars, stack, irqVars, deviceVars>>

-----------------------------------------------------------------------------

MacCalls == EmulOp \/ CallMacOS \/ Execute68k \/ idle_wait \/ DisableInterrupt \/ EnterKernel

Next ==
  \/ \E d \in Devices : SetInterruptFlag(d) \/ TriggerInterrupt(d)
  \/ \E d \in Acking : AwaitAck(d)
  \/ PromoteTrigger \/ DropInterrupt \/ HandleInterrupt
  \/ TakeLevel1 \/ HandlerReturns \/ NativeResumes
  \/ OpIrq \/ TestFlag \/ HandlerDone \/ IrqReturns
  \/ MacCalls \/ CallReturns \/ LeaveKernel \/ EnableInterrupt
  \/ \E l \in {0, 1} : SetLevel(l)
  \/ MacStarts

Spec == Init /\ [][Next]_vars

\* A step with which the Mac masks interrupts.
Masks == EnterKernel \/ DisableInterrupt \/ SetLevel(1)

\* The host threads run, the Mac starts, its activations return and lower the
\* interrupt level.  A request that is dropped is not repeated by its device,
\* only by the 60Hz thread, so that a Mac which masks interrupts at each of its
\* ticks is never interrupted; from some time on the Mac does not, and its
\* native code runs at level 0.
Fairness ==
  /\ WF_vars(SetInterruptFlag(Tick) \/ TriggerInterrupt(Tick))
  /\ \A d \in Acking : WF_vars(TriggerInterrupt(d) \/ AwaitAck(d))
  /\ SF_vars(PromoteTrigger) /\ SF_vars(HandleInterrupt) /\ SF_vars(TakeLevel1)
  /\ WF_vars(\/ OpIrq \/ TestFlag \/ IrqReturns \/ HandlerReturns \/ NativeResumes
             \/ LeaveKernel \/ EnableInterrupt)
  /\ SF_vars(HandlerDone)
  /\ \A n \in 2 .. MaxDepth : SF_vars(CallReturns /\ Len(stack) = n)
  /\ SF_vars(SetLevel(0))
  /\ <>macStarted /\ <>[][~Masks]_vars /\ <>[](Top = "native" => level = 0)

FairSpec == Spec /\ Fairness

-----------------------------------------------------------------------------
\* Properties.

Count(F) == Cardinality({i \in 1 .. Len(stack) : stack[i] \in F})

\* OP_IRQ does not interrupt itself: the handlers of the devices (TimerInterrupt
\* walks a list, SerialInterrupt tests and clears flags) are not reentrant.
NoNestedIrq == Count({"irq"}) <= 1

\* A thread that waits for its acknowledgement still has its flag set, is being
\* served, or has been acknowledged: no request is lost on the way.
RequestNotLost ==
  \A d \in Acking :
    dpc[d] = "wait" => \/ d \in InterruptFlags
                       \/ serving /\ Order[todo] = d
                       \/ ack[d] = 1

\* XLM_IRQ_NEST counts the activations that disabled interrupts: it comes back
\* to 0, and an emulation thread that sleeps in idle_wait has interrupts enabled
\* (the 60Hz thread, which wakes it, does nothing while they are disabled).
NestBalanced ==
  /\ IRQ_NEST = Count({"kernel", "nkirq", "disabled"})
  /\ Top = "idle" => IRQ_NEST = 0

\* A device's thread is released from its wait.
DeviceReleased == \A d \in Acking : dpc[d] = "wait" ~> dpc[d] # "wait"

\* The emulation thread wakes up from idle_wait, although the condition variable
\* has no predicate and a signal sent too early is lost.
IdleWakes == Top = "idle" ~> Top # "idle"
=============================================================================
