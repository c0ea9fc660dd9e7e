-------------------------- MODULE InterruptsProofs --------------------------
(***************************************************************************)
(* Proofs about interrupt delivery, for every set of devices and every     *)
(* depth of nesting: OP_IRQ does not interrupt itself, XLM_IRQ_NEST counts *)
(* the activations that disabled interrupts, and no request of a device    *)
(* that waits for its acknowledgement is lost.                             *)
(***************************************************************************)
EXTENDS Interrupts, FiniteSetTheorems, TLAPS

\* The frames of the level 1 handler, and those that disable interrupts.
HandlerFrames == {"handler", "handlerEnd"}
DisabledFrames == {"kernel", "nkirq", "disabled"}

\* The first activation is never popped, and interrupts are disabled by the
\* current activation or by none: nothing is called from a frame that does it.
Nesting ==
  /\ stack[1] \in {"68k", "native", "kernel"}
  /\ \A i \in 1 .. Len(stack) - 1 : stack[i] \notin DisabledFrames
  /\ IRQ_NEST = IF Top \in DisabledFrames THEN 1 ELSE 0

\* One level 1 handler runs at a time, at a raised level; OP_IRQ runs inside it,
\* and serves a device only there.
Handlers ==
  /\ \A i, j \in 1 .. Len(stack) :
       stack[i] \in HandlerFrames /\ stack[j] \in HandlerFrames => i = j
  /\ \A i \in 1 .. Len(stack) : stack[i] \in HandlerFrames => level = 1
  /\ \A i \in 1 .. Len(stack) : stack[i] = "irq" => i > 1 /\ stack[i - 1] = "handlerEnd"
  /\ serving => todo <= Len(Order) /\ \E i \in 1 .. Len(stack) : stack[i] = "irq"

\* The request of a device is in one place: its flag, its handler or its
\* acknowledgement; a device that does its own work has none.
Served(d) == serving /\ Order[todo] = d

Requests ==
  \A d \in Acking :
    /\ dpc[d] = "work" => d \notin InterruptFlags /\ ~Served(d) /\ ack[d] = 0
    /\ dpc[d] # "work" => \/ d \in InterruptFlags /\ ~Served(d) /\ ack[d] = 0
                          \/ d \notin InterruptFlags /\ Served(d) /\ ack[d] = 0
                          \/ d \notin InterruptFlags /\ ~Served(d) /\ ack[d] = 1

IndInv == TypeOK /\ Nesting /\ Handlers /\ Requests

-----------------------------------------------------------------------------
(* The operations on the stack of activations. *)

\* The current activation is one of the frames.
LEMMA TopFacts ==
  ASSUME stack \in Seq(Frames), stack # <<>>
  PROVE  Len(stack) \in Nat /\ Len(stack) >= 1 /\ Top = stack[Len(stack)] /\ Top \in Frames
  BY DEF Top

\* Only the code that a switch can reach is the first activation.
LEMMA BottomFacts ==
  ASSUME IndInv, Top \notin {"68k", "native", "kernel"}
  PROVE  Len(stack) > 1
<1>1. Len(stack) \in Nat /\ Len(stack) >= 1 /\ Top = stack[Len(stack)]
  BY TopFacts DEF IndInv, TypeOK
<1>2. Len(stack) # 1
  BY <1>1 DEF IndInv, Nesting
<1> QED
  BY <1>1, <1>2

\* A call: the activations below stay as they are.
LEMMA PushFacts ==
  ASSUME NEW f \in Frames, stack \in Seq(Frames), Push(f)
  PROVE  /\ stack' \in Seq(Frames) /\ Len(stack') = Len(stack) + 1 /\ stack' # <<>>
         /\ \A i \in 1 .. Len(stack) : stack'[i] = stack[i]
         /\ stack'[Len(stack) + 1] = f
  BY DEF Push

\* What is below the current activation.
LEMMA BelowFacts ==
  ASSUME stack \in Seq(Frames), stack # <<>>
  PROVE  /\ Below \in Seq(Frames) /\ Len(Below) = Len(stack) - 1
         /\ \A i \in 1 .. Len(stack) - 1 : Below[i] = stack[i]
<1>1. Len(stack) \in Nat /\ Len(stack) >= 1
  BY TopFacts
<1>2. Below = [i \in 1 .. Len(stack) - 1 |-> stack[i]]
  BY <1>1 DEF Below
<1>3. \A i \in 1 .. Len(stack) - 1 : stack[i] \in Frames
  BY <1>1
<1>4. Below \in [1 .. Len(stack) - 1 -> Frames]
  BY <1>2, <1>3
<1>5. Below \in Seq(Frames)
  BY <1>1, <1>4
<1>6. Len(Below) = Len(stack) - 1
  BY <1>1, <1>2
<1> QED
  BY <1>2, <1>5, <1>6

\* A return.
LEMMA PopFacts ==
  ASSUME stack \in Seq(Frames), Len(stack) > 1, Pop
  PROVE  /\ stack' \in Seq(Frames) /\ Len(stack') = Len(stack) - 1 /\ stack' # <<>>
         /\ \A i \in 1 .. Len(stack) - 1 : stack'[i] = stack[i]
<1>1. stack # <<>> /\ Len(stack) \in Nat
  OBVIOUS
<1>2. /\ stack' \in Seq(Frames) /\ Len(stack') = Len(stack) - 1
      /\ \A i \in 1 .. Len(stack) - 1 : stack'[i] = stack[i]
  BY <1>1, BelowFacts DEF Pop
<1> QED
  BY <1>1, <1>2

\* A switch of the current activation.
LEMMA BecomeFacts ==
  ASSUME NEW f \in Frames, stack \in Seq(Frames), stack # <<>>, Become(f)
  PROVE  /\ stack' \in Seq(Frames) /\ Len(stack') = Len(stack) /\ stack' # <<>>
         /\ \A i \in 1 .. Len(stack) - 1 : stack'[i] = stack[i]
         /\ stack'[Len(stack)] = f
<1>1. Len(stack) \in Nat /\ Len(stack) >= 1
  BY TopFacts
<1> QED
  BY <1>1, BelowFacts DEF Become

\* OP_IRQ is entered.
LEMMA OpIrqFacts ==
  ASSUME stack \in Seq(Frames), stack # <<>>, OpIrq
  PROVE  /\ stack' \in Seq(Frames) /\ Len(stack') = Len(stack) + 1 /\ stack' # <<>>
         /\ \A i \in 1 .. Len(stack) - 1 : stack'[i] = stack[i]
         /\ stack'[Len(stack)] = "handlerEnd" /\ stack'[Len(stack) + 1] = "irq"
<1>1. <<"handlerEnd", "irq">> \in Seq(Frames)
  BY DEF Frames
<1>2. Len(stack) \in Nat /\ Len(stack) >= 1
  BY TopFacts
<1> QED
  BY <1>1, <1>2, BelowFacts DEF OpIrq

-----------------------------------------------------------------------------
(* What calls, returns and switches do to the invariants of the stack.     *)

\* The frames whose calls and returns are not those of the level 1 handler.
Plain == Frames \ (HandlerFrames \cup {"irq"})

\* A call of anything but the level 1 handler, with interrupts enabled.
LEMMA CallKeeps ==
  ASSUME IndInv, NEW f \in Plain, Push(f), Top \notin DisabledFrames,
         IRQ_NEST' = IF f \in DisabledFrames THEN 1 ELSE 0,
         level' = level, todo' = todo, serving' = serving
  PROVE  stack' \in Seq(Frames) /\ stack' # <<>> /\ Nesting' /\ Handlers'
<1>0. stack \in Seq(Frames) /\ Len(stack) \in Nat /\ Len(stack) >= 1 /\ Top = stack[Len(stack)]
  BY TopFacts DEF IndInv, TypeOK
<1>1. /\ stack' \in Seq(Frames) /\ Len(stack') = Len(stack) + 1 /\ stack' # <<>>
      /\ \A i \in 1 .. Len(stack) : stack'[i] = stack[i]
      /\ stack'[Len(stack) + 1] = f
  BY <1>0, PushFacts DEF Plain
<1>2. Nesting'
  BY <1>0, <1>1 DEF IndInv, Nesting, Top
<1>3. f \notin HandlerFrames /\ f # "irq"
  BY DEF Plain
<1>4. \A i \in 1 .. Len(stack') : i \in 1 .. Len(stack) \/ i = Len(stack) + 1
  BY <1>0, <1>1
<1>5. Handlers'
  BY <1>0, <1>1, <1>3, <1>4 DEF IndInv, Handlers, HandlerFrames
<1> QED
  BY <1>1, <1>2, <1>5

\* A return of anything but the level 1 handler and OP_IRQ.
LEMMA ReturnKeeps ==
  ASSUME IndInv, Pop, Top \in Plain, Len(stack) > 1, IRQ_NEST' = 0,
         level' = level, todo' = todo, serving' = serving
  PROVE  stack' \in Seq(Frames) /\ stack' # <<>> /\ Nesting' /\ Handlers'
<1>0. stack \in Seq(Frames) /\ Len(stack) \in Nat /\ Len(stack) >= 1 /\ Top = stack[Len(stack)]
  BY TopFacts DEF IndInv, TypeOK
<1>1. /\ stack' \in Seq(Frames) /\ Len(stack') = Len(stack) - 1 /\ stack' # <<>>
      /\ \A i \in 1 .. Len(stack) - 1 : stack'[i] = stack[i]
  BY <1>0, PopFacts
<1>2. Nesting'
  BY <1>0, <1>1 DEF IndInv, Nesting, Top
<1>3. stack[Len(stack)] \notin HandlerFrames /\ stack[Len(stack)] # "irq"
  BY <1>0 DEF Plain
<1>4. \A i \in 1 .. Len(stack) : i \in 1 .. Len(stack') \/ i = Len(stack)
  BY <1>0, <1>1
<1>5. \A i \in 1 .. Len(stack') : i \in 1 .. Len(stack) /\ stack'[i] = stack[i]
  BY <1>0, <1>1
<1>6. Handlers'
  <2>1. \A i, j \in 1 .. Len(stack') :
          stack'[i] \in HandlerFrames /\ stack'[j] \in HandlerFrames => i = j
    BY <1>5 DEF IndInv, Handlers
  <2>2. \A i \in 1 .. Len(stack') : stack'[i] \in HandlerFrames => level' = 1
    BY <1>5 DEF IndInv, Handlers
  <2>3. \A i \in 1 .. Len(stack') : i > 1 => i - 1 \in 1 .. Len(stack')
    BY <1>0, <1>1
  <2>4. \A i \in 1 .. Len(stack') : stack'[i] = "irq" => i > 1 /\ stack'[i - 1] = "handlerEnd"
    BY <1>5, <2>3 DEF IndInv, Handlers
  <2>5. serving' => todo' <= Len(Order) /\ \E i \in 1 .. Len(stack') : stack'[i] = "irq"
    BY <1>3, <1>4, <1>5 DEF IndInv, Handlers
  <2> QED
    BY <2>1, <2>2, <2>4, <2>5 DEF Handlers
<1> QED
  BY <1>1, <1>2, <1>6

\* A switch between frames that are not those of the level 1 handler.
LEMMA SwitchKeeps ==
  ASSUME IndInv, NEW f \in Plain, Become(f), Top \in Plain,
         Len(stack) = 1 => f \in {"68k", "native", "kernel"},
         IRQ_NEST' = IF f \in DisabledFrames THEN 1 ELSE 0,
         level' = level, todo' = todo, serving' = serving
  PROVE  stack' \in Seq(Frames) /\ stack' # <<>> /\ Nesting' /\ Handlers'
<1>0. /\ stack \in Seq(Frames) /\ stack # <<>> /\ Len(stack) \in Nat /\ Len(stack) >= 1
      /\ Top = stack[Len(stack)]
  BY TopFacts DEF IndInv, TypeOK
<1>1. /\ stack' \in Seq(Frames) /\ Len(stack') = Len(stack) /\ stack' # <<>>
      /\ \A i \in 1 .. Len(stack) - 1 : stack'[i] = stack[i]
      /\ stack'[Len(stack)] = f
  BY <1>0, BecomeFacts DEF Plain
<1>2. Nesting'
  <2>1. stack'[1] \in {"68k", "native", "kernel"}
    BY <1>0, <1>1 DEF IndInv, Nesting
  <2>2. \A i \in 1 .. Len(stack') - 1 : stack'[i] \notin DisabledFrames
    BY <1>0, <1>1 DEF IndInv, Nesting
  <2> QED
    BY <1>1, <2>1, <2>2 DEF Nesting, Top
<1>3. /\ stack[Len(stack)] \notin HandlerFrames /\ stack[Len(stack)] # "irq"
      /\ f \notin HandlerFrames /\ f # "irq"
  BY <1>0 DEF Plain
<1>4. \A i \in 1 .. Len(stack) : i \in 1 .. Len(stack) - 1 \/ i = Len(stack)
  BY <1>0
<1>5. \A i \in 1 .. Len(stack) : i > 1 => i - 1 \in 1 .. Len(stack) - 1
  BY <1>0
<1>6. Handlers'
  BY <1>0, <1>1, <1>3, <1>4, <1>5 DEF IndInv, Handlers, HandlerFrames
<1> QED
  BY <1>1, <1>2, <1>6

\* The level 1 handler is entered, at level 0 and with interrupts enabled.
LEMMA HandlerEntered ==
  ASSUME IndInv, Push("handler"), Top \notin DisabledFrames, level = 0, level' = 1,
         IRQ_NEST' = IRQ_NEST, todo' = todo, serving' = serving
  PROVE  stack' \in Seq(Frames) /\ stack' # <<>> /\ Nesting' /\ Handlers'
<1>0. stack \in Seq(Frames) /\ Len(stack) \in Nat /\ Len(stack) >= 1 /\ Top = stack[Len(stack)]
  BY TopFacts DEF IndInv, TypeOK
<1>1. /\ stack' \in Seq(Frames) /\ Len(stack') = Len(stack) + 1 /\ stack' # <<>>
      /\ \A i \in 1 .. Len(stack) : stack'[i] = stack[i]
      /\ stack'[Len(stack) + 1] = "handler"
  BY <1>0, PushFacts DEF Frames
<1>2. Nesting'
  BY <1>0, <1>1 DEF IndInv, Nesting, Top, DisabledFrames
<1>3. \A i \in 1 .. Len(stack) : stack[i] \notin HandlerFrames
  BY DEF IndInv, Handlers
<1>4. \A i \in 1 .. Len(stack) : stack[i] # "irq"
  BY <1>0, <1>3 DEF IndInv, Handlers, HandlerFrames
<1>5. \A i \in 1 .. Len(stack') : i \in 1 .. Len(stack) \/ i = Len(stack) + 1
  BY <1>0, <1>1
<1>6. \A i \in 1 .. Len(stack') : stack'[i] \in HandlerFrames => i = Len(stack) + 1
  BY <1>1, <1>3, <1>5
<1>7. \A i \in 1 .. Len(stack') : stack'[i] # "irq"
  BY <1>1, <1>4, <1>5
<1>8. ~serving
  BY <1>4 DEF IndInv, Handlers
<1>9. Handlers'
  BY <1>6, <1>7, <1>8 DEF Handlers
<1> QED
  BY <1>1, <1>2, <1>9

-----------------------------------------------------------------------------

\* The invariant holds when the emulation starts.
LEMMA InitIndInv == Init => IndInv
<1> SUFFICES ASSUME Init PROVE IndInv
  OBVIOUS
<1>1. Len(stack) = 1 /\ stack[1] = "68k" /\ stack \in Seq(Frames) /\ stack # <<>>
  BY DEF Init, Frames
<1>2. TypeOK
  <2>1. todo \in 1 .. Len(Order) + 1
    BY OrderAssumption DEF Init
  <2>2. dpc \in [Devices -> {"work", "trigger", "wait"}] /\ ack \in [Acking -> {0, 1}]
    BY DEF Init
  <2> QED
    BY <1>1, <2>1, <2>2 DEF Init, TypeOK
<1>3. Nesting
  BY <1>1 DEF Init, Nesting, Top, DisabledFrames
<1>4. Handlers
  BY <1>1 DEF Init, Handlers, HandlerFrames
<1>5. Requests
  BY DevicesAssumption DEF Init, Requests, Served
<1> QED
  BY <1>2, <1>3, <1>4, <1>5 DEF IndInv

\* Every step of the host threads and of the emulation thread keeps it.
LEMMA StepIndInv == IndInv /\ [Next]_vars => IndInv'
<1> SUFFICES ASSUME IndInv, [Next]_vars PROVE IndInv'
  OBVIOUS
<1> USE DEF IndInv, cpuVars, irqVars, deviceVars, vars
<1>0. /\ stack \in Seq(Frames) /\ stack # <<>> /\ Len(stack) \in Nat /\ Len(stack) >= 1
      /\ Top = stack[Len(stack)] /\ Top \in Frames
  BY TopFacts DEF TypeOK
<1>a. Len(stack) \in 1 .. Len(stack)
  BY <1>0
<1>1. ASSUME NEW d \in Devices, SetInterruptFlag(d) PROVE IndInv'
  <2>1. TypeOK'
    BY <1>1 DEF SetInterruptFlag, TypeOK
  <2>2. Nesting'
    BY <1>1 DEF SetInterruptFlag, Nesting, Top
  <2>3. Handlers'
    BY <1>1 DEF SetInterruptFlag, Handlers
  <2>4. Requests'
    BY <1>1 DEF SetInterruptFlag, TypeOK, Requests, Served
  <2> QED
    BY <2>1, <2>2, <2>3, <2>4
<1>2. ASSUME NEW d \in Devices, TriggerInterrupt(d) PROVE IndInv'
  <2>1. stack' \in Seq(Frames) /\ stack' # <<>> /\ Nesting' /\ Handlers'
    <3>1. CASE Top = "idle"
      <4>1. Len(stack) > 1
        BY <3>1, BottomFacts
      <4>2. Pop /\ Top \in Plain /\ IRQ_NEST' = 0
        BY <1>2, <3>1
           DEF TriggerInterrupt, Pop, Nesting, Plain, Frames, HandlerFrames, DisabledFrames
      <4> QED
        BY <1>2, <4>1, <4>2, ReturnKeeps DEF TriggerInterrupt
    <3>2. CASE Top # "idle"
      <4>1. stack' = stack
        BY <1>2, <3>2 DEF TriggerInterrupt
      <4>2. Nesting'
        BY <1>2, <4>1 DEF TriggerInterrupt, Nesting, Top
      <4>3. Handlers'
        BY <1>2, <4>1 DEF TriggerInterrupt, Handlers
      <4> QED
        BY <1>0, <4>1, <4>2, <4>3
    <3> QED
      BY <3>1, <3>2
  <2>2. TypeOK'
    BY <1>2, <2>1 DEF TriggerInterrupt, TypeOK
  <2>3. Requests'
    BY <1>2, DevicesAssumption DEF TriggerInterrupt, TypeOK, Requests, Served
  <2> QED
    BY <2>1, <2>2, <2>3
<1>3. ASSUME NEW d \in Acking, AwaitAck(d) PROVE IndInv'
  <2>0. /\ d \in Devices /\ ack[d] = 1 /\ ack'[d] = 0 /\ dpc'[d] = "work"
        /\ \A e \in Acking \ {d} : ack'[e] = ack[e] /\ dpc'[e] = dpc[e]
    BY <1>3, DevicesAssumption DEF AwaitAck, TypeOK
  <2>1. TypeOK'
    BY <1>3, <2>0 DEF AwaitAck, TypeOK
  <2>2. Nesting'
    BY <1>3 DEF AwaitAck, Nesting, Top
  <2>3. Handlers'
    BY <1>3 DEF AwaitAck, Handlers
  <2>4. Requests'
    BY <1>3, <2>0 DEF AwaitAck, Requests, Served
  <2> QED
    BY <2>1, <2>2, <2>3, <2>4
<1>4. CASE PromoteTrigger
  <2>1. TypeOK'
    BY <1>4 DEF PromoteTrigger, TypeOK
  <2>2. Nesting'
    BY <1>4 DEF PromoteTrigger, Nesting, Top
  <2>3. Handlers'
    BY <1>4 DEF PromoteTrigger, Handlers
  <2>4. Requests'
    BY <1>4 DEF PromoteTrigger, Requests, Served
  <2> QED
    BY <2>1, <2>2, <2>3, <2>4
<1>5. CASE DropInterrupt
  <2>1. TypeOK'
    BY <1>5 DEF DropInterrupt, TypeOK
  <2>2. Nesting'
    BY <1>5 DEF DropInterrupt, Nesting, Top
  <2>3. Handlers'
    BY <1>5 DEF DropInterrupt, Handlers
  <2>4. Requests'
    BY <1>5 DEF DropInterrupt, Requests, Served
  <2> QED
    BY <2>1, <2>2, <2>3, <2>4
<1>6. CASE HandleInterrupt
  <2>1. ASSUME In68k PROVE stack' \in Seq(Frames) /\ stack' # <<>> /\ Nesting' /\ Handlers'
    <3>1. Nesting'
      BY <2>1 DEF In68k, Nesting, Top
    <3>2. Handlers'
      BY <1>6, <2>1 DEF HandleInterrupt, In68k, Handlers
    <3> QED
      BY <1>0, <2>1, <3>1, <3>2 DEF In68k
  <2>2. ASSUME InNative PROVE stack' \in Seq(Frames) /\ stack' # <<>> /\ Nesting' /\ Handlers'
    BY <1>6, <2>2, CallKeeps DEF HandleInterrupt, InNative, Nesting, Plain, Frames,
       HandlerFrames, DisabledFrames
  <2>3. ASSUME InEmulOp PROVE stack' \in Seq(Frames) /\ stack' # <<>> /\ Nesting' /\ Handlers'
    BY <1>6, <2>3, HandlerEntered DEF HandleInterrupt, Dropped, InEmulOp, TypeOK,
                                      DisabledFrames
  <2>4. stack' \in Seq(Frames) /\ stack' # <<>> /\ Nesting' /\ Handlers'
    BY <1>6, <2>1, <2>2, <2>3 DEF HandleInterrupt
  <2>5. TypeOK'
    <3>1. processing' \in BOOLEAN /\ pending' \in BOOLEAN /\ level' \in {0, 1}
      BY <1>6 DEF HandleInterrupt, In68k, InNative, InEmulOp, TypeOK
    <3>2. IRQ_NEST' \in Nat
      BY <2>4 DEF Nesting
    <3> QED
      BY <1>6, <2>4, <3>1, <3>2 DEF HandleInterrupt, TypeOK
  <2>6. Requests'
    BY <1>6 DEF HandleInterrupt, Requests, Served
  <2> QED
    BY <2>4, <2>5, <2>6
<1>7. CASE TakeLevel1
  <2>1. stack' \in Seq(Frames) /\ stack' # <<>> /\ Nesting' /\ Handlers'
    BY <1>0, <1>7, HandlerEntered DEF TakeLevel1, Nesting, DisabledFrames
  <2>2. TypeOK'
    BY <1>7, <2>1 DEF TakeLevel1, TypeOK, Nesting
  <2>3. Requests'
    BY <1>7 DEF TakeLevel1, Requests, Served
  <2> QED
    BY <2>1, <2>2, <2>3
<1>8. CASE HandlerReturns
  <2>1. Len(stack) > 1
    BY <1>8, BottomFacts DEF HandlerReturns
  <2>2. /\ stack' \in Seq(Frames) /\ Len(stack') = Len(stack) - 1 /\ stack' # <<>>
        /\ \A i \in 1 .. Len(stack) - 1 : stack'[i] = stack[i]
    BY <1>0, <1>8, <2>1, PopFacts DEF HandlerReturns
  <2>3. \A i \in 1 .. Len(stack) : stack[i] \in HandlerFrames => i = Len(stack)
    BY <1>0, <1>a, <1>8 DEF HandlerReturns, Handlers, HandlerFrames
  <2>4. \A i \in 1 .. Len(stack) : stack[i] # "irq"
    BY <1>0, <1>8, <2>3 DEF HandlerReturns, Handlers, HandlerFrames
  <2>5. \A i \in 1 .. Len(stack') : stack'[i] \notin HandlerFrames /\ stack'[i] # "irq"
    BY <1>0, <2>2, <2>3, <2>4
  <2>6. Handlers'
    BY <1>8, <2>4, <2>5 DEF HandlerReturns, Handlers
  <2>7. Nesting'
    BY <1>0, <1>8, <2>1, <2>2 DEF HandlerReturns, Nesting, Top, DisabledFrames
  <2>8. TypeOK'
    BY <1>8, <2>2 DEF HandlerReturns, TypeOK
  <2>9. Requests'
    BY <1>8 DEF HandlerReturns, Requests, Served
  <2> QED
    BY <2>6, <2>7, <2>8, <2>9
<1>9. CASE NativeResumes
  <2>1. stack' \in Seq(Frames) /\ stack' # <<>> /\ Nesting' /\ Handlers'
    BY <1>0, <1>9, ReturnKeeps, BottomFacts DEF NativeResumes, Nesting, Plain, Frames,
                                                HandlerFrames, DisabledFrames
  <2>2. TypeOK'
    BY <1>9, <2>1 DEF NativeResumes, TypeOK, Nesting
  <2>3. Requests'
    BY <1>9 DEF NativeResumes, Requests, Served
  <2> QED
    BY <2>1, <2>2, <2>3
<1>10. CASE OpIrq
  <2>1. /\ stack' \in Seq(Frames) /\ Len(stack') = Len(stack) + 1 /\ stack' # <<>>
        /\ \A i \in 1 .. Len(stack) - 1 : stack'[i] = stack[i]
        /\ stack'[Len(stack)] = "handlerEnd" /\ stack'[Len(stack) + 1] = "irq"
    BY <1>0, <1>10, OpIrqFacts
  <2>2. \A i \in 1 .. Len(stack) : stack[i] \in HandlerFrames => i = Len(stack)
    BY <1>0, <1>a, <1>10 DEF OpIrq, Handlers, HandlerFrames
  <2>3. level = 1
    BY <1>0, <1>a, <1>10 DEF OpIrq, Handlers, HandlerFrames
  <2>4. \A i \in 1 .. Len(stack) : stack[i] # "irq"
    BY <1>0, <1>10, <2>2 DEF OpIrq, Handlers, HandlerFrames
  <2>5. ~serving
    BY <2>4 DEF Handlers
  <2>6. \A i \in 1 .. Len(stack') : \/ i \in 1 .. Len(stack) - 1
                                    \/ i = Len(stack) \/ i = Len(stack) + 1
    BY <1>0, <2>1
  <2>7. \A i \in 1 .. Len(stack) - 1 : stack'[i] \notin HandlerFrames /\ stack'[i] # "irq"
    BY <1>0, <2>1, <2>2, <2>4
  <2>8. Handlers'
    <3>1. \A i \in 1 .. Len(stack') : stack'[i] \in HandlerFrames => i = Len(stack)
      BY <2>1, <2>6, <2>7 DEF HandlerFrames
    <3>2. \A i \in 1 .. Len(stack') : stack'[i] = "irq" => i = Len(stack) + 1
      BY <2>1, <2>6, <2>7
    <3>3. \A i \in 1 .. Len(stack') : stack'[i] = "irq" => i > 1 /\ stack'[i - 1] = "handlerEnd"
      BY <1>0, <2>1, <3>2
    <3>4. level' = 1 /\ ~serving'
      BY <1>10, <2>3, <2>5 DEF OpIrq
    <3> QED
      BY <3>1, <3>3, <3>4 DEF Handlers
  <2>9. Nesting'
    <3>1. IRQ_NEST' = 0
      BY <1>10 DEF OpIrq, Nesting, DisabledFrames
    <3>2. stack'[1] \in {"68k", "native", "kernel"}
      <4>1. Len(stack) > 1
        BY <1>10, BottomFacts DEF OpIrq
      <4> QED
        BY <1>0, <2>1, <4>1 DEF Nesting
    <3>3. \A i \in 1 .. Len(stack') - 1 : stack'[i] \notin DisabledFrames
      BY <1>0, <2>1 DEF Nesting, DisabledFrames
    <3> QED
      BY <2>1, <3>1, <3>2, <3>3 DEF Nesting, Top, DisabledFrames
  <2>10. TypeOK'
    <3>1. todo' \in 1 .. Len(Order) + 1
      BY <1>10, OrderAssumption DEF OpIrq
    <3> QED
      BY <1>10, <2>1, <3>1 DEF OpIrq, TypeOK
  <2>11. Requests'
    BY <1>10, <2>5 DEF OpIrq, Requests, Served
  <2> QED
    BY <2>8, <2>9, <2>10, <2>11
<1>11. CASE TestFlag
  <2>1. TypeOK'
    <3>1. todo' \in 1 .. Len(Order) + 1
      BY <1>11, OrderAssumption DEF TestFlag, TypeOK
    <3> QED
      BY <1>11, <3>1 DEF TestFlag, TypeOK
  <2>2. Nesting'
    BY <1>11 DEF TestFlag, Nesting, Top
  <2>3. Handlers'
    BY <1>0, <1>a, <1>11 DEF TestFlag, Handlers
  <2>4. Requests'
    BY <1>11 DEF TestFlag, TypeOK, Requests, Served
  <2> QED
    BY <2>1, <2>2, <2>3, <2>4
<1>12. CASE HandlerDone
  <2>1. Requests' /\ ack' \in [Acking -> {0, 1}]
    BY <1>12 DEF HandlerDone, TypeOK, Requests, Served
  <2>2. TypeOK'
    <3>1. todo' \in 1 .. Len(Order) + 1
      BY <1>12, OrderAssumption DEF HandlerDone, TypeOK, Handlers
    <3> QED
      BY <1>12, <2>1, <3>1 DEF HandlerDone, TypeOK
  <2>3. Nesting'
    BY <1>12 DEF HandlerDone, Nesting, Top
  <2>4. Handlers'
    BY <1>12 DEF HandlerDone, Handlers
  <2> QED
    BY <2>1, <2>2, <2>3, <2>4
<1>13. CASE IrqReturns
  <2>1. Len(stack) > 1 /\ ~serving
    BY <1>13, BottomFacts, OrderAssumption DEF IrqReturns, Handlers, TypeOK
  <2>2. /\ stack' \in Seq(Frames) /\ Len(stack') = Len(stack) - 1 /\ stack' # <<>>
        /\ \A i \in 1 .. Len(stack) - 1 : stack'[i] = stack[i]
    BY <1>0, <1>13, <2>1, PopFacts DEF IrqReturns
  <2>3. \A i \in 1 .. Len(stack') : /\ i \in 1 .. Len(stack) /\ stack'[i] = stack[i]
                                    /\ i > 1 => i - 1 \in 1 .. Len(stack')
    BY <1>0, <2>2
  <2>4. Handlers'
    <3>1. \A i, j \in 1 .. Len(stack') :
            stack'[i] \in HandlerFrames /\ stack'[j] \in HandlerFrames => i = j
      BY <2>3 DEF Handlers
    <3>2. \A i \in 1 .. Len(stack') : stack'[i] \in HandlerFrames => level' = 1
      BY <1>13, <2>3 DEF IrqReturns, Handlers
    <3>3. \A i \in 1 .. Len(stack') :
            stack'[i] = "irq" => i > 1 /\ stack'[i - 1] = "handlerEnd"
      BY <2>3 DEF Handlers
    <3> QED
      BY <1>13, <2>1, <3>1, <3>2, <3>3 DEF IrqReturns, Handlers
  <2>5. Nesting'
    BY <1>0, <1>13, <2>1, <2>2 DEF IrqReturns, Nesting, Top, DisabledFrames
  <2>6. TypeOK'
    BY <1>13, <2>2 DEF IrqReturns, TypeOK
  <2>7. Requests'
    BY <1>13 DEF IrqReturns, Requests, Served
  <2> QED
    BY <2>4, <2>5, <2>6, <2>7
<1>14. CASE EmulOp
  <2>1. stack' \in Seq(Frames) /\ stack' # <<>> /\ Nesting' /\ Handlers'
    BY <1>0, <1>14, CallKeeps DEF EmulOp, Calls, Nesting, Plain, Frames, HandlerFrames,
                                  DisabledFrames
  <2>2. TypeOK'
    BY <1>14, <2>1 DEF EmulOp, Calls, TypeOK, Nesting
  <2>3. Requests'
    BY <1>14 DEF EmulOp, Calls, Requests, Served
  <2> QED
    BY <2>1, <2>2, <2>3
<1>15. CASE CallMacOS
  <2>1. stack' \in Seq(Frames) /\ stack' # <<>> /\ Nesting' /\ Handlers'
    BY <1>0, <1>15, CallKeeps DEF CallMacOS, Calls, Nesting, Plain, Frames, HandlerFrames,
                                  DisabledFrames
  <2>2. TypeOK'
    BY <1>15, <2>1 DEF CallMacOS, Calls, TypeOK, Nesting
  <2>3. Requests'
    BY <1>15 DEF CallMacOS, Calls, Requests, Served
  <2> QED
    BY <2>1, <2>2, <2>3
<1>16. CASE Execute68k
  <2>1. stack' \in Seq(Frames) /\ stack' # <<>> /\ Nesting' /\ Handlers'
    BY <1>0, <1>16, CallKeeps DEF Execute68k, Calls, Nesting, Plain, Frames, HandlerFrames,
                                  DisabledFrames
  <2>2. TypeOK'
    BY <1>16, <2>1 DEF Execute68k, Calls, TypeOK, Nesting
  <2>3. Requests'
    BY <1>16 DEF Execute68k, Calls, Requests, Served
  <2> QED
    BY <2>1, <2>2, <2>3
<1>17. CASE idle_wait
  <2>1. stack' \in Seq(Frames) /\ stack' # <<>> /\ Nesting' /\ Handlers'
    BY <1>0, <1>17, CallKeeps DEF idle_wait, Calls, Nesting, Plain, Frames, HandlerFrames,
                                  DisabledFrames
  <2>2. TypeOK'
    BY <1>17, <2>1 DEF idle_wait, Calls, TypeOK, Nesting
  <2>3. Requests'
    BY <1>17 DEF idle_wait, Calls, Requests, Served
  <2> QED
    BY <2>1, <2>2, <2>3
<1>18. CASE DisableInterrupt
  <2>1. stack' \in Seq(Frames) /\ stack' # <<>> /\ Nesting' /\ Handlers'
    BY <1>0, <1>18, CallKeeps DEF DisableInterrupt, Nesting, Plain, Frames, HandlerFrames,
                                  DisabledFrames
  <2>2. TypeOK'
    BY <1>18, <2>1 DEF DisableInterrupt, TypeOK, Nesting
  <2>3. Requests'
    BY <1>18 DEF DisableInterrupt, Requests, Served
  <2> QED
    BY <2>1, <2>2, <2>3
<1>19. CASE EnterKernel
  <2>1. stack' \in Seq(Frames) /\ stack' # <<>> /\ Nesting' /\ Handlers'
    BY <1>0, <1>19, SwitchKeeps DEF EnterKernel, Nesting, Plain, Frames, HandlerFrames,
                                    DisabledFrames
  <2>2. TypeOK'
    BY <1>19, <2>1 DEF EnterKernel, TypeOK, Nesting
  <2>3. Requests'
    BY <1>19 DEF EnterKernel, Requests, Served
  <2> QED
    BY <2>1, <2>2, <2>3
<1>20. CASE CallReturns
  <2>1. stack' \in Seq(Frames) /\ stack' # <<>> /\ Nesting' /\ Handlers'
    BY <1>0, <1>20, ReturnKeeps, BottomFacts DEF CallReturns, Nesting, Plain, Frames,
                                                 HandlerFrames, DisabledFrames
  <2>2. TypeOK'
    BY <1>20, <2>1 DEF CallReturns, TypeOK, Nesting
  <2>3. Requests'
    BY <1>20 DEF CallReturns, Requests, Served
  <2> QED
    BY <2>1, <2>2, <2>3
<1>21. CASE LeaveKernel
  <2>1. stack' \in Seq(Frames) /\ stack' # <<>> /\ Nesting' /\ Handlers'
    BY <1>0, <1>21, SwitchKeeps DEF LeaveKernel, Nesting, Plain, Frames, HandlerFrames,
                                    DisabledFrames
  <2>2. TypeOK'
    BY <1>21, <2>1 DEF LeaveKernel, TypeOK, Nesting
  <2>3. Requests'
    BY <1>21 DEF LeaveKernel, Requests, Served
  <2> QED
    BY <2>1, <2>2, <2>3
<1>22. CASE EnableInterrupt
  <2>1. stack' \in Seq(Frames) /\ stack' # <<>> /\ Nesting' /\ Handlers'
    BY <1>0, <1>22, ReturnKeeps, BottomFacts DEF EnableInterrupt, Nesting, Plain, Frames,
                                                 HandlerFrames, DisabledFrames
  <2>2. TypeOK'
    BY <1>22, <2>1 DEF EnableInterrupt, TypeOK, Nesting
  <2>3. Requests'
    BY <1>22 DEF EnableInterrupt, Requests, Served
  <2> QED
    BY <2>1, <2>2, <2>3
<1>23. ASSUME NEW l \in {0, 1}, SetLevel(l) PROVE IndInv'
  <2>1. TypeOK'
    BY <1>23 DEF SetLevel, TypeOK
  <2>2. Nesting'
    BY <1>23 DEF SetLevel, Nesting, Top
  <2>3. Handlers'
    BY <1>23 DEF SetLevel, Handlers, HandlerFrames
  <2>4. Requests'
    BY <1>23 DEF SetLevel, Requests, Served
  <2> QED
    BY <2>1, <2>2, <2>3, <2>4
<1>24. CASE MacStarts
  <2>1. TypeOK'
    BY <1>24 DEF MacStarts, TypeOK
  <2>2. Nesting'
    BY <1>24 DEF MacStarts, Nesting, Top
  <2>3. Handlers'
    BY <1>24 DEF MacStarts, Handlers
  <2>4. Requests'
    BY <1>24 DEF MacStarts, Requests, Served
  <2> QED
    BY <2>1, <2>2, <2>3, <2>4
<1>25. CASE UNCHANGED vars
  BY <1>25 DEF TypeOK, Nesting, Top, Handlers, Requests, Served
<1> QED
  BY <1>1, <1>2, <1>3, <1>4, <1>5, <1>6, <1>7, <1>8, <1>9, <1>10, <1>11, <1>12, <1>13,
     <1>14, <1>15, <1>16, <1>17, <1>18, <1>19, <1>20, <1>21, <1>22, <1>23, <1>24, <1>25
     DEF Next, MacCalls

\* The inductive invariant holds in every state of the emulation.
THEOREM Invariance == Spec => []IndInv
<1> QED
  BY InitIndInv, StepIndInv, PTL DEF Spec

\* Every variable keeps its type; in particular the emulation thread never runs
\* out of activations and no device is acknowledged twice.
THEOREM TypeCorrect == Spec => []TypeOK
<1>1. IndInv => TypeOK
  BY DEF IndInv
<1> QED
  BY <1>1, Invariance, PTL

\* How many activations are in a set of frames, when there is at most one.
LEMMA CountFacts ==
  ASSUME NEW F
  PROVE  /\ (\A i \in 1 .. Len(stack) : stack[i] \notin F) => Count(F) = 0
         /\ \A k \in 1 .. Len(stack) :
              (\A i \in 1 .. Len(stack) : stack[i] \in F <=> i = k) => Count(F) = 1
<1>1. ASSUME \A i \in 1 .. Len(stack) : stack[i] \notin F PROVE Count(F) = 0
  <2>1. {i \in 1 .. Len(stack) : stack[i] \in F} = {}
    BY <1>1
  <2> QED
    BY <2>1, FS_EmptySet DEF Count
<1>2. ASSUME NEW k \in 1 .. Len(stack), \A i \in 1 .. Len(stack) : stack[i] \in F <=> i = k
      PROVE  Count(F) = 1
  <2>1. {i \in 1 .. Len(stack) : stack[i] \in F} = {k}
    BY <1>2
  <2> QED
    BY <2>1, FS_Singleton DEF Count
<1> QED
  BY <1>1, <1>2

\* OP_IRQ does not interrupt itself, however deep the Mac nests its calls.
THEOREM IrqNotNested == Spec => []NoNestedIrq
<1>1. ASSUME IndInv PROVE NoNestedIrq
  <2>1. \A i, j \in 1 .. Len(stack) : stack[i] = "irq" /\ stack[j] = "irq" => i = j
    <3> SUFFICES ASSUME NEW i \in 1 .. Len(stack), NEW j \in 1 .. Len(stack),
                        stack[i] = "irq", stack[j] = "irq"
                 PROVE  i = j
      OBVIOUS
    <3>1. Len(stack) \in Nat
      BY <1>1 DEF IndInv, TypeOK
    <3>2. i > 1 /\ stack[i - 1] = "handlerEnd" /\ j > 1 /\ stack[j - 1] = "handlerEnd"
      BY <1>1 DEF IndInv, Handlers
    <3>3. i - 1 \in 1 .. Len(stack) /\ j - 1 \in 1 .. Len(stack)
      BY <3>1, <3>2
    <3>4. i - 1 = j - 1
      BY <1>1, <3>2, <3>3 DEF IndInv, Handlers, HandlerFrames
    <3> QED
      BY <3>4
  <2>2. CASE \E k \in 1 .. Len(stack) : stack[k] = "irq"
    <3>1. PICK k \in 1 .. Len(stack) : stack[k] = "irq"
      BY <2>2
    <3>2. \A i \in 1 .. Len(stack) : stack[i] \in {"irq"} <=> i = k
      BY <2>1, <3>1
    <3>3. Count({"irq"}) = 1
      BY <3>2, CountFacts
    <3> QED
      BY <3>3 DEF NoNestedIrq
  <2>3. CASE ~ \E k \in 1 .. Len(stack) : stack[k] = "irq"
    <3>1. Count({"irq"}) = 0
      BY <2>3, CountFacts
    <3> QED
      BY <3>1 DEF NoNestedIrq
  <2> QED
    BY <2>2, <2>3
<1> QED
  BY <1>1, Invariance, PTL

\* The request of a device whose thread waits is flagged, served or acknowledged.
THEOREM RequestsNotLost == Spec => []RequestNotLost
<1>1. IndInv => RequestNotLost
  BY DEF IndInv, TypeOK, Requests, Served, RequestNotLost
<1> QED
  BY <1>1, Invariance, PTL

\* XLM_IRQ_NEST is the number of activations that disabled interrupts, and a
\* thread that sleeps in idle_wait has them enabled.
THEOREM NestingBalanced == Spec => []NestBalanced
<1>1. ASSUME IndInv PROVE NestBalanced
  <2>1. /\ Len(stack) \in Nat /\ Len(stack) >= 1 /\ Top = stack[Len(stack)]
        /\ \A i \in 1 .. Len(stack) - 1 : stack[i] \notin DisabledFrames
        /\ IRQ_NEST = IF Top \in DisabledFrames THEN 1 ELSE 0
    BY <1>1, TopFacts DEF IndInv, TypeOK, Nesting
  <2>2. CASE Top \in DisabledFrames
    <3>1. \A i \in 1 .. Len(stack) : stack[i] \in DisabledFrames <=> i = Len(stack)
      BY <2>1, <2>2
    <3>2. Len(stack) \in 1 .. Len(stack)
      BY <2>1
    <3>3. Count(DisabledFrames) = 1
      BY <3>1, <3>2, CountFacts
    <3> QED
      BY <2>1, <2>2, <3>3 DEF NestBalanced, DisabledFrames
  <2>3. CASE Top \notin DisabledFrames
    <3>1. \A i \in 1 .. Len(stack) : stack[i] \notin DisabledFrames
      BY <2>1, <2>3
    <3>2. Count(DisabledFrames) = 0
      BY <3>1, CountFacts
    <3> QED
      BY <2>1, <2>3, <3>2 DEF NestBalanced, DisabledFrames
  <2> QED
    BY <2>2, <2>3
<1> QED
  BY <1>1, Invariance, PTL
=============================================================================
