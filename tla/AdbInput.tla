------------------------------ MODULE AdbInput ------------------------------
(***************************************************************************)
(* Mouse and keyboard input (src/src/adb.cpp).  The window's thread stores *)
(* what the user does, sets INTFLAG_ADB and triggers the CPU; OP_IRQ on    *)
(* the emulation thread clears the flag and ADBInput::Interrupt hands the  *)
(* input to the Mac's ADB handlers.  The mouse state is under gMouseLock,  *)
(* the buttons and the key buffer are not.                                 *)
(*                                                                         *)
(* One axis of the mouse and one button stand for two and three, which are *)
(* stored, compared and sent together.  Stores of a thread are seen in     *)
(* program order.                                                          *)
(***************************************************************************)
EXTENDS Integers, Sequences

CONSTANTS KEY_BUFFER_SIZE,
          KeyCodes,        \* the codes of keys pressed and released
          Positions,       \* the mouse positions, or distances, of the host
          MaxCoord,        \* bound of the distance that accumulates
          Delta7,          \* half the range of a distance of 7 bits
          Delta10,         \* half the range of a distance of 10 bits
          NoKey            \* in a slot whose content is dead

ASSUME AdbAssumption ==
  /\ KEY_BUFFER_SIZE \in Nat \ {0, 1}
  /\ Positions \subseteq Int
  /\ MaxCoord \in Nat
  /\ Delta7 \in Nat \ {0} /\ Delta10 \in Nat \ {0} /\ Delta10 % Delta7 = 0
  /\ NoKey \notin KeyCodes

VARIABLES
  fMouseRelative, fMouseCoord, fMouseOldCoord,
  fMouseButton, fMouseOldButton,
  fKeyBuffer, fKeyReadPtr, fKeyWritePtr,
  mouseHandler,     \* the handler ID in fMouseRegister3; 2 is like 1
  adbFlag,          \* INTFLAG_ADB is set and an interrupt was triggered
  ipc,              \* the window's thread: where it is in a call
  apc,              \* the emulation thread: where it is in Interrupt
  mx, mb,           \* the mouse state that Interrupt has read
  adbReady,         \* the Mac has set up ADB (the low memory global 0xcf8)
  owedKeys,         \* history: the keys stored and not delivered
  owedMotion,       \* history: the relative motion not delivered
  clipped,          \* history: a distance did not fit in the ADB data
  unannounced       \* history: input was taken or changed without a report

mouseVars   == <<fMouseRelative, fMouseCoord, fMouseOldCoord, fMouseButton, fMouseOldButton>>
keyVars     == <<fKeyBuffer, fKeyReadPtr, fKeyWritePtr>>
motionVars  == <<owedMotion, clipped>>
adbVars == <<mouseVars, keyVars, mouseHandler, adbFlag, ipc, apc, mx, mb, adbReady,
             owedKeys, motionVars, unannounced>>

KeySlots == 0 .. KEY_BUFFER_SIZE - 1

AdbTypeOK ==
  /\ fMouseRelative \in BOOLEAN
  /\ fMouseCoord \in Int /\ fMouseOldCoord \in Int
  /\ fMouseButton \in BOOLEAN /\ fMouseOldButton \in BOOLEAN
  /\ fKeyBuffer \in [KeySlots -> KeyCodes \cup {NoKey}]
  /\ fKeyReadPtr \in KeySlots /\ fKeyWritePtr \in KeySlots
  /\ mouseHandler \in {1, 4}
  /\ adbFlag \in BOOLEAN /\ adbReady \in BOOLEAN
  /\ ipc \in {"idle", "key", "flag"}
  /\ apc \in {"mac", "read", "mouse", "keys"}
  /\ mx \in Int /\ mb \in BOOLEAN
  /\ owedKeys \in Seq(KeyCodes)
  /\ owedMotion \in Int
  /\ clipped \in BOOLEAN /\ unannounced \in BOOLEAN

AdbInit ==
  /\ fMouseRelative = FALSE
  /\ fMouseCoord = 0 /\ fMouseOldCoord = 0
  /\ fMouseButton = FALSE /\ fMouseOldButton = FALSE
  /\ fKeyBuffer = [i \in KeySlots |-> NoKey]
  /\ fKeyReadPtr = 0 /\ fKeyWritePtr = 0
  /\ mouseHandler = 1
  /\ adbFlag = FALSE
  /\ ipc = "idle" /\ apc = "mac"
  /\ mx = 0 /\ mb = FALSE
  /\ adbReady = FALSE
  /\ owedKeys = <<>> /\ owedMotion = 0
  /\ clipped = FALSE /\ unannounced = FALSE

-----------------------------------------------------------------------------
\* The window's thread: handle_events calls one of these for an event.

\* Mutant: the pointer does not wrap.
NextSlotRunsOff(i) == i + 1

NextSlot(i) == (i + 1) % KEY_BUFFER_SIZE

\* Mutant: a relative distance replaces the one that is still to be read.
MouseMovedStores(x) ==
  /\ ipc = "idle"
  /\ fMouseCoord' = x
  /\ owedMotion' = IF fMouseRelative THEN owedMotion + x ELSE owedMotion
  /\ ipc' = "flag"
  /\ UNCHANGED <<fMouseRelative, fMouseOldCoord, fMouseButton, fMouseOldButton, keyVars,
                 mouseHandler, adbFlag, apc, mx, mb, adbReady, owedKeys, clipped, unannounced>>

MouseMoved(x) ==
  /\ ipc = "idle"
  /\ fMouseCoord' = IF fMouseRelative THEN fMouseCoord + x ELSE x
  /\ owedMotion' = IF fMouseRelative THEN owedMotion + x ELSE owedMotion
  /\ fMouseCoord' \in -MaxCoord .. MaxCoord /\ owedMotion' \in -MaxCoord .. MaxCoord
  /\ ipc' = "flag"
  /\ UNCHANGED <<fMouseRelative, fMouseOldCoord, fMouseButton, fMouseOldButton, keyVars,
                 mouseHandler, adbFlag, apc, mx, mb, adbReady, owedKeys, clipped, unannounced>>

\* MouseDown and MouseUp, without the lock.
MouseButton(down) ==
  /\ ipc = "idle"
  /\ fMouseButton' = down
  /\ ipc' = "flag"
  /\ UNCHANGED <<fMouseRelative, fMouseCoord, fMouseOldCoord, fMouseOldButton, keyVars,
                 mouseHandler, adbFlag, apc, mx, mb, adbReady, owedKeys, motionVars, unannounced>>

\* Mutant: the write pointer is moved before the code is stored.
StoreKeyAfter(code) ==
  /\ ipc = "idle"
  /\ fKeyBuffer' = [fKeyBuffer EXCEPT ![NextSlot(fKeyWritePtr)] = code]
  /\ owedKeys' = Append(owedKeys, code)
  /\ ipc' = "key"
  /\ UNCHANGED <<mouseVars, fKeyReadPtr, fKeyWritePtr, mouseHandler, adbFlag, apc, mx, mb,
                 adbReady, motionVars, unannounced>>

\* KeyDown and KeyUp: the code is stored, then the write pointer.
StoreKey(code) ==
  /\ ipc = "idle"
  /\ fKeyBuffer' = [fKeyBuffer EXCEPT ![fKeyWritePtr] = code]
  /\ owedKeys' = Append(owedKeys, code)
  /\ ipc' = "key"
  /\ UNCHANGED <<mouseVars, fKeyReadPtr, fKeyWritePtr, mouseHandler, adbFlag, apc, mx, mb,
                 adbReady, motionVars, unannounced>>

PublishKey ==
  /\ ipc = "key"
  /\ fKeyWritePtr' = NextSlot(fKeyWritePtr)
  /\ IF fKeyWritePtr' = fKeyReadPtr     \* a buffer that gets full is empty
     THEN fKeyBuffer' = [i \in KeySlots |-> NoKey] /\ owedKeys' = <<>>
     ELSE UNCHANGED <<fKeyBuffer, owedKeys>>
  /\ ipc' = "flag"
  /\ UNCHANGED <<mouseVars, fKeyReadPtr, mouseHandler, adbFlag, apc, mx, mb, adbReady,
                 motionVars, unannounced>>

\* SetInterruptFlag(INTFLAG_ADB) and TriggerInterrupt.
SetAdbFlag ==
  /\ ipc = "flag"
  /\ adbFlag' = TRUE
  /\ ipc' = "idle"
  /\ UNCHANGED <<mouseVars, keyVars, mouseHandler, apc, mx, mb, adbReady, owedKeys, motionVars,
                 unannounced>>

-----------------------------------------------------------------------------
\* The emulation thread.

\* OP_IRQ clears the flag; while the Mac has no ADB the call does nothing.
AdbInterrupt ==
  /\ apc = "mac"
  /\ adbFlag
  /\ adbFlag' = FALSE
  /\ apc' = IF adbReady THEN "read" ELSE "mac"
  /\ unannounced' = (unannounced \/ ~adbReady)
  /\ UNCHANGED <<mouseVars, keyVars, mouseHandler, ipc, mx, mb, adbReady, owedKeys, motionVars>>

ReadMouse ==
  /\ apc = "read"
  /\ mx' = fMouseCoord /\ mb' = fMouseButton
  /\ fMouseCoord' = IF fMouseRelative THEN 0 ELSE fMouseCoord
  /\ apc' = "mouse"
  /\ unannounced' = FALSE
  /\ UNCHANGED <<fMouseRelative, fMouseOldCoord, fMouseButton, fMouseOldButton, keyVars,
                 mouseHandler, adbFlag, ipc, adbReady, owedKeys, motionVars>>

\* A distance in the bits of the ADB data, as the Mac reads it.
Encoded(x) ==
  LET half == IF mouseHandler = 4 THEN Delta10 ELSE Delta7
  IN  ((x + half) % (2 * half)) - half

\* Distance and buttons, or CursorDeviceDispatch and then the buttons.
SendMouse ==
  /\ apc = "mouse"
  /\ IF fMouseRelative
     THEN /\ owedMotion' = owedMotion - Encoded(mx)
          /\ clipped' = (clipped \/ Encoded(mx) # mx)
          /\ UNCHANGED fMouseOldCoord
     ELSE fMouseOldCoord' = mx /\ UNCHANGED motionVars
  /\ fMouseOldButton' = mb
  /\ apc' = "keys"
  /\ mx' = 0 /\ mb' = FALSE
  /\ UNCHANGED <<fMouseRelative, fMouseCoord, fMouseButton, keyVars, mouseHandler, adbFlag, ipc,
                 adbReady, owedKeys, unannounced>>

TakeKey ==
  /\ apc = "keys"
  /\ fKeyReadPtr # fKeyWritePtr
  /\ fKeyBuffer' = [fKeyBuffer EXCEPT ![fKeyReadPtr] = NoKey]
  /\ fKeyReadPtr' = NextSlot(fKeyReadPtr)
  /\ owedKeys' = Tail(owedKeys)
  /\ UNCHANGED <<mouseVars, fKeyWritePtr, mouseHandler, adbFlag, ipc, mx, mb, adbReady,
                 motionVars, unannounced>>

\* Mutant: the interrupt sends one key and leaves the rest for the next.
SendOneKey == TakeKey /\ apc' = "mac"

SendKey == TakeKey /\ UNCHANGED apc

\* Mutant: the flag is cleared when the interrupt was served.
KeysSentClearsFlag ==
  /\ apc = "keys"
  /\ fKeyReadPtr = fKeyWritePtr
  /\ apc' = "mac"
  /\ adbFlag' = FALSE
  /\ UNCHANGED <<mouseVars, keyVars, mouseHandler, ipc, mx, mb, adbReady, owedKeys,
                 motionVars, unannounced>>

KeysSent ==
  /\ apc = "keys"
  /\ fKeyReadPtr = fKeyWritePtr
  /\ apc' = "mac"
  /\ UNCHANGED <<mouseVars, keyVars, mouseHandler, adbFlag, ipc, mx, mb, adbReady, owedKeys,
                 motionVars, unannounced>>

\* Op: a reset of the bus, and Listen to register 3 of the mouse.  The other
\* commands talk, or change addresses and lights.
ListenHandler(id) ==
  /\ apc = "mac"
  /\ mouseHandler' = id
  /\ UNCHANGED <<mouseVars, keyVars, adbFlag, ipc, apc, mx, mb, adbReady, owedKeys,
                 motionVars, unannounced>>

\* A switch of the video mode, while the window's thread is paused between two
\* events (RedrawPaused of VideoThread).  What the mouse did is forgotten.
SetRelMouseMode(relative) ==
  /\ apc = "mac" /\ ipc = "idle"
  /\ fMouseRelative # relative
  /\ fMouseRelative' = relative
  /\ fMouseCoord' = 0
  /\ owedMotion' = 0 /\ clipped' = FALSE
  /\ unannounced' = TRUE
  /\ UNCHANGED <<fMouseOldCoord, fMouseButton, fMouseOldButton, keyVars, mouseHandler, adbFlag, ipc,
                 apc, mx, mb, adbReady, owedKeys>>

\* The Mac's ADBReInit.
AdbStarts ==
  /\ apc = "mac"
  /\ adbReady' = TRUE
  /\ UNCHANGED <<mouseVars, keyVars, mouseHandler, adbFlag, ipc, apc, mx, mb, owedKeys,
                 motionVars, unannounced>>

-----------------------------------------------------------------------------

UserActs ==
  \/ \E x \in Positions : MouseMoved(x)
  \/ \E down \in BOOLEAN : MouseButton(down)
  \/ \E code \in KeyCodes : StoreKey(code)

InputThread == PublishKey \/ SetAdbFlag

ServeAdb == AdbInterrupt \/ ReadMouse \/ SendMouse \/ SendKey \/ KeysSent

MacControlsAdb ==
  \/ \E id \in {1, 4} : ListenHandler(id)
  \/ \E relative \in BOOLEAN : SetRelMouseMode(relative)
  \/ AdbStarts

AdbNext == UserActs \/ InputThread \/ ServeAdb \/ MacControlsAdb

AdbSpec == AdbInit /\ [][AdbNext]_adbVars

\* Both threads run: the emulation thread polls for interrupts, the thread of
\* the window finishes its calls.
AdbFairSpec == AdbSpec /\ WF_adbVars(InputThread) /\ WF_adbVars(ServeAdb)

-----------------------------------------------------------------------------
\* Properties.

BufferedKeys ==
  [i \in 1 .. (fKeyWritePtr - fKeyReadPtr) % KEY_BUFFER_SIZE |->
     fKeyBuffer[(fKeyReadPtr + i - 1) % KEY_BUFFER_SIZE]]

\* The ring buffer is a queue although the two threads share it without a lock:
\* what is between the pointers, and the key being stored, are the keys the Mac
\* is owed, in their order.
\* (KEY_BUFFER_SIZE keys without an interrupt are dropped, all of them.)
KeysInOrder ==
  owedKeys = BufferedKeys \o (IF ipc = "key" THEN <<fKeyBuffer[fKeyWritePtr]>> ELSE <<>>)

Announced == adbFlag \/ ipc = "flag" \/ unannounced

\* What the Mac has not seen yet is announced to it: an interrupt is pending or
\* about to be, or the one in progress is still going to look there.  (Except
\* input taken while the Mac had no ADB, and a change of the mouse mode: the
\* Mac sees those with the next event.)
InputAnnounced ==
  /\ fKeyReadPtr # fKeyWritePtr => Announced \/ apc # "mac"
  /\ fMouseButton # fMouseOldButton =>
       Announced \/ apc = "read" \/ (apc = "mouse" /\ mb = fMouseButton)
  /\ ~fMouseRelative /\ fMouseCoord # fMouseOldCoord =>
       Announced \/ apc = "read" \/ (apc = "mouse" /\ mx = fMouseCoord)
  /\ fMouseRelative /\ fMouseCoord # 0 => Announced \/ apc = "read"

\* Relative motion is neither lost nor told twice: what the user moved and the
\* Mac was not told is in the accumulator or in the interrupt's hands, unless a
\* distance was too large for the ADB data, which keep its low bits.
MotionConserved ==
  LET lost == owedMotion - (fMouseCoord + mx)
  IN  fMouseRelative => lost % (2 * Delta7) = 0 /\ (~clipped => lost = 0)

Undelivered ==
  \/ fKeyReadPtr # fKeyWritePtr
  \/ fMouseButton # fMouseOldButton
  \/ fMouseCoord # (IF fMouseRelative THEN 0 ELSE fMouseOldCoord)

\* When the user stops, the Mac comes to see all of the input.
InputReachesMac == <>[](ipc = "idle") => <>[](~Undelivered \/ unannounced)
=============================================================================
