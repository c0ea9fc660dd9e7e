--------------------------- MODULE DevicesProofs ----------------------------
(***************************************************************************)
(* Proofs about mouse and keyboard input, for every size of the key buffer *)
(* and every range of the ADB data: the ring buffer that two threads share *)
(* without a lock is a queue, input that the Mac has not seen is announced *)
(* to it, and relative motion is neither lost nor told twice.  With the    *)
(* proofs of VideoProofs and AudioEtherProofs this is what is known of     *)
(* each of the devices; the last section has it for their sum.             *)
(***************************************************************************)
EXTENDS MC_Devices, VideoProofs, AudioEtherProofs, TLAPS

-----------------------------------------------------------------------------
(* The arithmetic of the ring and of the distances. *)

N == KEY_BUFFER_SIZE

\* The remainder of a number that is out of the ring by less than one turn.
LEMMA Wrapping ==
  ASSUME NEW m \in Nat \ {0}
  PROVE  /\ \A x \in 0 .. m - 1 : x % m = x
         /\ \A x \in m .. 2 * m - 1 : x % m = x - m
         /\ \A x \in -m .. -1 : x % m = x + m
<1>1. \A x \in 0 .. m - 1 : x % m = x
  BY SMT
<1>2. \A x \in m .. 2 * m - 1 : x % m = x - m
  BY SMT
<1>3. \A x \in -m .. -1 : x % m = x + m
  BY SMT
<1> QED
  BY <1>1, <1>2, <1>3

\* Quotient and remainder make up the number.
LEMMA Division ==
  ASSUME NEW m \in Nat \ {0}, NEW x \in Int
  PROVE  x \div m \in Int /\ x = m * (x \div m) + (x % m)
  BY SMT

\* A multiple has no remainder.
LEMMA Multiple ==
  ASSUME NEW m \in Nat \ {0}, NEW k \in Int
  PROVE  (k * m) % m = 0
  BY SMT

\* Adding a multiple to a number without remainder leaves none.
LEMMA AddMultiple ==
  ASSUME NEW m \in Nat \ {0}, NEW k \in Int, NEW x \in Int, x % m = 0
  PROVE  (x + k * m) % m = 0
<1> DEFINE q == x \div m
<1>1. q \in Int /\ x = m * q
  BY Division, SMT
<1> HIDE DEF q
<1>2. x + k * m = (q + k) * m
  BY <1>1, SMT
<1>3. q + k \in Int
  BY <1>1
<1> QED
  BY <1>2, <1>3, Multiple

\* What the Mac reads from the bits of the ADB data differs from the distance by
\* a multiple of the smaller range.
LEMMA EncodedFacts ==
  ASSUME NEW x \in Int, mouseHandler \in {1, 4}
  PROVE  /\ Encoded(x) \in Int
         /\ \E k \in Int : x - Encoded(x) = k * (2 * Delta7)
<1> DEFINE half == IF mouseHandler = 4 THEN Delta10 ELSE Delta7
           a == Delta10 \div Delta7
           q == (x + half) \div (2 * half)
<1>1. half \in Nat \ {0}
  BY AdbAssumption
<1>2. a \in Int /\ Delta10 = Delta7 * a
  BY AdbAssumption, Division, SMT
<1>3. \E b \in Int : half = Delta7 * b
  <2>1. CASE mouseHandler = 4
    BY <2>1, <1>2
  <2>2. CASE mouseHandler # 4
    BY <2>2, AdbAssumption, SMT
  <2> QED
    BY <2>1, <2>2
<1>4. Encoded(x) = ((x + half) % (2 * half)) - half
  BY DEF Encoded
<1> HIDE DEF half, a
<1>5. PICK b \in Int : half = Delta7 * b
  BY <1>3
<1>6. x + half \in Int /\ 2 * half \in Nat \ {0}
  BY <1>1, SMT
<1>7. q \in Int /\ x + half = (2 * half) * q + ((x + half) % (2 * half))
  BY <1>6, Division
<1>8. (x + half) % (2 * half) \in Int
  BY <1>6, SMT
<1> HIDE DEF q
<1>9. Encoded(x) \in Int
  BY <1>1, <1>4, <1>8
<1>10. x - Encoded(x) = (2 * half) * q
  BY <1>1, <1>4, <1>7, <1>8, SMT
<1>11. (2 * half) * q = (b * q) * (2 * Delta7)
  BY <1>5, <1>7, AdbAssumption, SMT
<1>12. b * q \in Int
  BY <1>7, SMT
<1> QED
  BY <1>9, <1>10, <1>11, <1>12

\* A pointer moves to the next slot of the ring.
LEMMA NextSlotFacts ==
  ASSUME NEW i \in KeySlots
  PROVE  /\ NextSlot(i) \in KeySlots
         /\ NextSlot(i) = IF i = N - 1 THEN 0 ELSE i + 1
<1>1. N \in Nat \ {0, 1}
  BY AdbAssumption DEF N
<1>2. CASE i = N - 1
  <2>1. (i + 1) % N = 0
    BY <1>1, <1>2, Wrapping
  <2> QED
    BY <1>1, <1>2, <2>1 DEF NextSlot, KeySlots, N
<1>3. CASE i # N - 1
  <2>1. (i + 1) % N = i + 1
    BY <1>1, <1>3, Wrapping DEF KeySlots, N
  <2> QED
    BY <1>1, <1>3, <2>1 DEF NextSlot, KeySlots, N
<1> QED
  BY <1>2, <1>3

\* Sequences of the same length with the same elements are equal.
LEMMA SeqEqual ==
  ASSUME NEW S, NEW s \in Seq(S), NEW t \in Seq(S), Len(s) = Len(t),
         \A i \in 1 .. Len(t) : s[i] = t[i]
  PROVE  s = t
  OBVIOUS

-----------------------------------------------------------------------------
(* The inductive invariant. *)

\* The slots from the read pointer on, without remainders.
Slot(i) == IF fKeyReadPtr + i - 1 < N THEN fKeyReadPtr + i - 1 ELSE fKeyReadPtr + i - 1 - N

\* How many keys are between the pointers.
Buffered == IF fKeyReadPtr <= fKeyWritePtr THEN fKeyWritePtr - fKeyReadPtr
            ELSE fKeyWritePtr - fKeyReadPtr + N

\* The keys the Mac is owed lie from the read pointer on, the key that is being
\* stored last.
Queue ==
  /\ Len(owedKeys) = Buffered + (IF ipc = "key" THEN 1 ELSE 0)
  /\ \A i \in 1 .. Len(owedKeys) : owedKeys[i] = fKeyBuffer[Slot(i)]

\* What the interrupt has read of the mouse is current, or announced anew.
InHand ==
  /\ apc # "mouse" => mx = 0
  /\ apc = "mouse" /\ mb # fMouseButton => Announced
  /\ apc = "mouse" /\ ~fMouseRelative /\ mx # fMouseCoord => Announced

AdbIndInv == AdbTypeOK /\ Queue /\ InHand /\ InputAnnounced /\ MotionConserved

\* The slots from the read pointer on: the first free one is where the next key
\* is stored, those before it are others, and none but the first is read next.
LEMMA RingFacts ==
  ASSUME AdbTypeOK
  PROVE  /\ N \in Nat \ {0, 1}
         /\ fKeyReadPtr \in 0 .. N - 1 /\ fKeyWritePtr \in 0 .. N - 1
         /\ Buffered \in 0 .. N - 1
         /\ Slot(Buffered + 1) = fKeyWritePtr
         /\ \A i \in 1 .. Buffered : Slot(i) # fKeyWritePtr
         /\ \A i \in 1 .. N : Slot(i) \in KeySlots
         /\ \A i \in 2 .. N : Slot(i) # fKeyReadPtr
<1>1. N \in Nat \ {0, 1} /\ fKeyReadPtr \in 0 .. N - 1 /\ fKeyWritePtr \in 0 .. N - 1
  BY AdbAssumption DEF AdbTypeOK, KeySlots, N
<1>2. KeySlots = 0 .. N - 1
  BY DEF KeySlots, N
<1> QED
  BY <1>1, <1>2 DEF Slot, Buffered

-----------------------------------------------------------------------------

\* The invariant holds when the ADBInput was created.
LEMMA InitAdbInv == AdbInit => AdbIndInv
<1> SUFFICES ASSUME AdbInit PROVE AdbIndInv
  OBVIOUS
<1>1. AdbTypeOK
  <2>1. 0 \in KeySlots
    BY AdbAssumption DEF KeySlots
  <2>2. [i \in KeySlots |-> NoKey] \in [KeySlots -> KeyCodes \cup {NoKey}]
    OBVIOUS
  <2>3. <<>> \in Seq(KeyCodes)
    OBVIOUS
  <2> QED
    BY <2>1, <2>2, <2>3 DEF AdbInit, AdbTypeOK
<1>2. Queue
  BY DEF AdbInit, Queue, Slot, Buffered, N
<1>3. InHand
  BY DEF AdbInit, InHand, Announced
<1>4. InputAnnounced
  BY DEF AdbInit, InputAnnounced, Announced
<1>5. MotionConserved
  BY DEF AdbInit, MotionConserved
<1> QED
  BY <1>1, <1>2, <1>3, <1>4, <1>5 DEF AdbIndInv

\* Every step of the window's thread and of the emulation thread keeps it.
LEMMA StepAdbInv == AdbIndInv /\ [AdbNext]_adbVars => AdbIndInv'
<1> SUFFICES ASSUME AdbIndInv, [AdbNext]_adbVars PROVE AdbIndInv'
  OBVIOUS
<1> USE DEF AdbIndInv, mouseVars, keyVars, motionVars, adbVars
<1>1. ASSUME NEW x \in Positions, MouseMoved(x) PROVE AdbIndInv'
  <2>1. AdbTypeOK'
    BY <1>1 DEF MouseMoved, AdbTypeOK
  <2>2. Queue'
    BY <1>1 DEF MouseMoved, AdbTypeOK, Queue, Slot, Buffered, N
  <2>3. InHand'
    BY <1>1 DEF MouseMoved, AdbTypeOK, InHand, Announced
  <2>4. InputAnnounced'
    BY <1>1 DEF MouseMoved, AdbTypeOK, InHand, InputAnnounced, Announced
  <2>5. MotionConserved'
    <3>1. fMouseRelative' = fMouseRelative /\ clipped' = clipped
      BY <1>1 DEF MouseMoved
    <3>2. CASE fMouseRelative
      <4>1. x \in Int
        BY AdbAssumption
      <4>2. owedMotion' - (fMouseCoord' + mx') = owedMotion - (fMouseCoord + mx)
        BY <1>1, <3>2, <4>1 DEF MouseMoved, AdbTypeOK
      <4> QED
        BY <3>1, <4>2 DEF MotionConserved
    <3> QED
      BY <3>1, <3>2 DEF MotionConserved
  <2> QED
    BY <2>1, <2>2, <2>3, <2>4, <2>5
<1>2. ASSUME NEW down \in BOOLEAN, MouseButton(down) PROVE AdbIndInv'
  <2>1. AdbTypeOK'
    BY <1>2 DEF MouseButton, AdbTypeOK
  <2>2. Queue'
    BY <1>2 DEF MouseButton, AdbTypeOK, Queue, Slot, Buffered, N
  <2>3. InHand'
    BY <1>2 DEF MouseButton, AdbTypeOK, InHand, Announced
  <2>4. InputAnnounced'
    BY <1>2 DEF MouseButton, AdbTypeOK, InHand, InputAnnounced, Announced
  <2>5. MotionConserved'
    BY <1>2 DEF MouseButton, AdbTypeOK, InHand, MotionConserved
  <2> QED
    BY <2>1, <2>2, <2>3, <2>4, <2>5
<1>3. ASSUME NEW code \in KeyCodes, StoreKey(code) PROVE AdbIndInv'
  <2>1. AdbTypeOK'
    BY <1>3 DEF StoreKey, AdbTypeOK
  <2>2. Queue'
    <3>1. /\ ipc = "idle" /\ ipc' = "key"
          /\ owedKeys' = Append(owedKeys, code)
          /\ fKeyBuffer' = [fKeyBuffer EXCEPT ![fKeyWritePtr] = code]
      BY <1>3 DEF StoreKey
    <3>2. Buffered' = Buffered /\ \A i \in Nat : Slot(i)' = Slot(i)
      BY <1>3 DEF StoreKey, Buffered, Slot
    <3>3. Len(owedKeys) = Buffered
      BY <3>1, RingFacts DEF Queue
    <3>4. /\ Len(owedKeys') = Buffered + 1
          /\ \A i \in 1 .. Buffered : owedKeys'[i] = owedKeys[i]
          /\ owedKeys'[Buffered + 1] = code
      BY <3>1, <3>3 DEF AdbTypeOK
    <3>5. \A i \in 1 .. Buffered : owedKeys[i] = fKeyBuffer'[Slot(i)]
      BY <3>1, <3>3, RingFacts DEF AdbTypeOK, Queue
    <3>6. fKeyBuffer'[Slot(Buffered + 1)] = code
      BY <3>1, RingFacts DEF AdbTypeOK
    <3> QED
      BY <3>1, <3>2, <3>4, <3>5, <3>6, RingFacts DEF Queue
  <2>3. InHand'
    BY <1>3 DEF StoreKey, AdbTypeOK, InHand, Announced
  <2>4. InputAnnounced'
    BY <1>3 DEF StoreKey, AdbTypeOK, InHand, InputAnnounced, Announced
  <2>5. MotionConserved'
    BY <1>3 DEF StoreKey, AdbTypeOK, InHand, MotionConserved
  <2> QED
    BY <2>1, <2>2, <2>3, <2>4, <2>5
<1>4. CASE PublishKey
  <2>1. AdbTypeOK'
    <3>1. fKeyWritePtr' \in KeySlots
      BY <1>4, NextSlotFacts DEF PublishKey, AdbTypeOK
    <3>2. [i \in KeySlots |-> NoKey] \in [KeySlots -> KeyCodes \cup {NoKey}]
      OBVIOUS
    <3>3. fKeyBuffer' \in [KeySlots -> KeyCodes \cup {NoKey}]
      BY <1>4, <3>2 DEF PublishKey, AdbTypeOK
    <3>4. <<>> \in Seq(KeyCodes)
      OBVIOUS
    <3>5. owedKeys' \in Seq(KeyCodes)
      BY <1>4, <3>4 DEF PublishKey, AdbTypeOK
    <3> QED
      BY <1>4, <3>1, <3>3, <3>5 DEF PublishKey, AdbTypeOK
  <2>2. Queue'
    <3>1. /\ ipc = "key" /\ ipc' = "flag"
          /\ fKeyReadPtr' = fKeyReadPtr
          /\ fKeyWritePtr' = IF fKeyWritePtr = N - 1 THEN 0 ELSE fKeyWritePtr + 1
      BY <1>4, NextSlotFacts DEF PublishKey, AdbTypeOK
    <3>2. CASE fKeyWritePtr' = fKeyReadPtr
      <4>1. Len(owedKeys') = 0
        BY <1>4, <3>2 DEF PublishKey
      <4>2. Buffered' = 0
        BY <3>1, <3>2, RingFacts DEF Buffered
      <4> QED
        BY <3>1, <4>1, <4>2 DEF Queue
    <3>3. CASE fKeyWritePtr' # fKeyReadPtr
      <4>1. owedKeys' = owedKeys /\ fKeyBuffer' = fKeyBuffer
        BY <1>4, <3>3 DEF PublishKey
      <4>2. Buffered' = Buffered + 1 /\ \A i \in Nat : Slot(i)' = Slot(i)
        BY <3>1, <3>3, RingFacts DEF Buffered, Slot, N
      <4> QED
        BY <3>1, <4>1, <4>2, RingFacts DEF Queue
    <3> QED
      BY <3>2, <3>3
  <2>3. InHand'
    BY <1>4 DEF PublishKey, AdbTypeOK, InHand, Announced
  <2>4. InputAnnounced'
    BY <1>4 DEF PublishKey, AdbTypeOK, InHand, InputAnnounced, Announced
  <2>5. MotionConserved'
    BY <1>4 DEF PublishKey, AdbTypeOK, InHand, MotionConserved
  <2> QED
    BY <2>1, <2>2, <2>3, <2>4, <2>5
<1>5. CASE SetAdbFlag
  <2>1. AdbTypeOK'
    BY <1>5 DEF SetAdbFlag, AdbTypeOK
  <2>2. Queue'
    BY <1>5 DEF SetAdbFlag, AdbTypeOK, Queue, Slot, Buffered, N
  <2>3. InHand'
    BY <1>5 DEF SetAdbFlag, AdbTypeOK, InHand, Announced
  <2>4. InputAnnounced'
    BY <1>5 DEF SetAdbFlag, AdbTypeOK, InHand, InputAnnounced, Announced
  <2>5. MotionConserved'
    BY <1>5 DEF SetAdbFlag, AdbTypeOK, InHand, MotionConserved
  <2> QED
    BY <2>1, <2>2, <2>3, <2>4, <2>5
<1>6. CASE AdbInterrupt
  <2>1. AdbTypeOK'
    BY <1>6 DEF AdbInterrupt, AdbTypeOK
  <2>2. Queue'
    BY <1>6 DEF AdbInterrupt, AdbTypeOK, Queue, Slot, Buffered, N
  <2>3. InHand'
    BY <1>6 DEF AdbInterrupt, AdbTypeOK, InHand, Announced
  <2>4. InputAnnounced'
    BY <1>6 DEF AdbInterrupt, AdbTypeOK, InHand, InputAnnounced, Announced
  <2>5. MotionConserved'
    BY <1>6 DEF AdbInterrupt, AdbTypeOK, InHand, MotionConserved
  <2> QED
    BY <2>1, <2>2, <2>3, <2>4, <2>5
<1>7. CASE ReadMouse
  <2>1. AdbTypeOK'
    <3>1. mx' \in Int /\ fMouseCoord' \in Int
      BY <1>7 DEF ReadMouse, AdbTypeOK
    <3> QED
      BY <1>7, <3>1 DEF ReadMouse, AdbTypeOK
  <2>2. Queue'
    BY <1>7 DEF ReadMouse, AdbTypeOK, Queue, Slot, Buffered, N
  <2>3. InHand'
    BY <1>7 DEF ReadMouse, AdbTypeOK, InHand, Announced
  <2>4. InputAnnounced'
    BY <1>7 DEF ReadMouse, AdbTypeOK, InHand, InputAnnounced, Announced
  <2>5. MotionConserved'
    BY <1>7 DEF ReadMouse, AdbTypeOK, InHand, MotionConserved
  <2> QED
    BY <2>1, <2>2, <2>3, <2>4, <2>5
<1>8. CASE SendMouse
  <2>1. AdbTypeOK'
    <3>1. Encoded(mx) \in Int
      BY EncodedFacts DEF AdbTypeOK
    <3>2. owedMotion' \in Int /\ fMouseOldCoord' \in Int /\ mx' \in Int
      BY <1>8, <3>1 DEF SendMouse, AdbTypeOK
    <3>3. clipped' \in BOOLEAN
      BY <1>8 DEF SendMouse, AdbTypeOK
    <3> QED
      BY <1>8, <3>2, <3>3 DEF SendMouse, AdbTypeOK
  <2>2. Queue'
    BY <1>8 DEF SendMouse, AdbTypeOK, Queue, Slot, Buffered, N
  <2>3. InHand'
    BY <1>8 DEF SendMouse, AdbTypeOK, InHand, Announced
  <2>4. InputAnnounced'
    BY <1>8 DEF SendMouse, AdbTypeOK, InHand, InputAnnounced, Announced
  <2>5. MotionConserved'
    <3> DEFINE lost == owedMotion - (fMouseCoord + mx)
    <3>1. fMouseRelative' = fMouseRelative
      BY <1>8 DEF SendMouse
    <3>2. CASE fMouseRelative
      <4>1. Encoded(mx) \in Int
        BY EncodedFacts DEF AdbTypeOK
      <4>2. PICK k \in Int : mx - Encoded(mx) = k * (2 * Delta7)
        BY EncodedFacts DEF AdbTypeOK
      <4>3. lost' = lost + (mx - Encoded(mx))
        BY <1>8, <3>2, <4>1 DEF SendMouse, AdbTypeOK
      <4>4. lost \in Int /\ lost % (2 * Delta7) = 0 /\ (~clipped => lost = 0)
        BY <3>2 DEF AdbTypeOK, MotionConserved
      <4>5. 2 * Delta7 \in Nat \ {0}
        BY AdbAssumption, SMT
      <4>6. lost' % (2 * Delta7) = 0
        <5> HIDE DEF lost
        <5>1. (lost + k * (2 * Delta7)) % (2 * Delta7) = 0
          BY <4>4, <4>5, AddMultiple
        <5> QED
          BY <5>1, <4>2, <4>3
      <4>7. ~clipped' => ~clipped /\ Encoded(mx) = mx
        BY <1>8, <3>2 DEF SendMouse, AdbTypeOK
      <4>8. ~clipped' => lost' = 0
        BY <4>1, <4>3, <4>4, <4>7 DEF AdbTypeOK
      <4> QED
        BY <4>6, <4>8 DEF MotionConserved
    <3> QED
      BY <3>1, <3>2 DEF MotionConserved
  <2> QED
    BY <2>1, <2>2, <2>3, <2>4, <2>5
<1>9. CASE SendKey
  <2>1. AdbTypeOK'
    <3>1. fKeyReadPtr' \in KeySlots
      BY <1>9, NextSlotFacts DEF SendKey, TakeKey, AdbTypeOK
    <3>2. fKeyBuffer' \in [KeySlots -> KeyCodes \cup {NoKey}]
      BY <1>9 DEF SendKey, TakeKey, AdbTypeOK
    <3>3. owedKeys # <<>>
      BY <1>9, RingFacts DEF SendKey, TakeKey, Queue, Buffered
    <3>4. owedKeys' \in Seq(KeyCodes)
      BY <1>9, <3>3 DEF SendKey, TakeKey, AdbTypeOK
    <3> QED
      BY <1>9, <3>1, <3>2, <3>4 DEF SendKey, TakeKey, AdbTypeOK
  <2>2. Queue'
    <3>1. /\ fKeyReadPtr # fKeyWritePtr /\ fKeyWritePtr' = fKeyWritePtr /\ ipc' = ipc
          /\ owedKeys' = Tail(owedKeys)
          /\ fKeyBuffer' = [fKeyBuffer EXCEPT ![fKeyReadPtr] = NoKey]
          /\ fKeyReadPtr' = IF fKeyReadPtr = N - 1 THEN 0 ELSE fKeyReadPtr + 1
      BY <1>9, NextSlotFacts DEF SendKey, TakeKey, AdbTypeOK
    <3>2. Buffered > 0 /\ Buffered' = Buffered - 1
      BY <3>1, RingFacts DEF Buffered, N
    <3>3. \A i \in 1 .. N - 1 : Slot(i)' = Slot(i + 1)
      BY <3>1, RingFacts DEF Slot, N
    <3>4. Len(owedKeys) > 0 /\ Len(owedKeys) <= N
      BY <3>2, RingFacts DEF Queue
    <3>5. /\ Len(owedKeys') = Len(owedKeys) - 1
          /\ \A i \in 1 .. Len(owedKeys) - 1 : owedKeys'[i] = owedKeys[i + 1]
      BY <3>1, <3>4 DEF AdbTypeOK
    <3>6. \A i \in 2 .. Len(owedKeys) : owedKeys[i] = fKeyBuffer'[Slot(i)]
      <4> SUFFICES ASSUME NEW i \in 2 .. Len(owedKeys)
                   PROVE  owedKeys[i] = fKeyBuffer'[Slot(i)]
        OBVIOUS
      <4>1. i \in 1 .. Len(owedKeys) /\ i \in 2 .. N
        BY <3>4, RingFacts DEF AdbTypeOK
      <4>2. Slot(i) \in KeySlots /\ Slot(i) # fKeyReadPtr
        BY <4>1, RingFacts
      <4>3. fKeyBuffer'[Slot(i)] = fKeyBuffer[Slot(i)]
        BY <3>1, <4>2 DEF AdbTypeOK
      <4> QED
        BY <4>1, <4>3 DEF Queue
    <3>7. \A i \in 1 .. Len(owedKeys) - 1 : owedKeys'[i] = fKeyBuffer'[Slot(i)']
      <4> SUFFICES ASSUME NEW i \in 1 .. Len(owedKeys) - 1
                   PROVE  owedKeys'[i] = fKeyBuffer'[Slot(i)']
        OBVIOUS
      <4>1. i \in 1 .. N - 1 /\ i + 1 \in 2 .. Len(owedKeys)
        BY <3>4, RingFacts DEF AdbTypeOK
      <4> QED
        BY <3>3, <3>5, <3>6, <4>1
    <3>8. Len(owedKeys') = Buffered' + (IF ipc' = "key" THEN 1 ELSE 0)
      BY <3>1, <3>2, <3>5, RingFacts DEF Queue
    <3> QED
      BY <3>5, <3>7, <3>8 DEF Queue
  <2>3. InHand'
    BY <1>9 DEF SendKey, TakeKey, AdbTypeOK, InHand, Announced
  <2>4. InputAnnounced'
    BY <1>9 DEF SendKey, TakeKey, AdbTypeOK, InHand, InputAnnounced, Announced
  <2>5. MotionConserved'
    BY <1>9 DEF SendKey, TakeKey, AdbTypeOK, InHand, MotionConserved
  <2> QED
    BY <2>1, <2>2, <2>3, <2>4, <2>5
<1>10. CASE KeysSent
  <2>1. AdbTypeOK'
    BY <1>10 DEF KeysSent, AdbTypeOK
  <2>2. Queue'
    BY <1>10 DEF KeysSent, AdbTypeOK, Queue, Slot, Buffered, N
  <2>3. InHand'
    BY <1>10 DEF KeysSent, AdbTypeOK, InHand, Announced
  <2>4. InputAnnounced'
    BY <1>10 DEF KeysSent, AdbTypeOK, InHand, InputAnnounced, Announced
  <2>5. MotionConserved'
    BY <1>10 DEF KeysSent, AdbTypeOK, InHand, MotionConserved
  <2> QED
    BY <2>1, <2>2, <2>3, <2>4, <2>5
<1>11. ASSUME NEW id \in {1, 4}, ListenHandler(id) PROVE AdbIndInv'
  <2>1. AdbTypeOK'
    BY <1>11 DEF ListenHandler, AdbTypeOK
  <2>2. Queue'
    BY <1>11 DEF ListenHandler, AdbTypeOK, Queue, Slot, Buffered, N
  <2>3. InHand'
    BY <1>11 DEF ListenHandler, AdbTypeOK, InHand, Announced
  <2>4. InputAnnounced'
    BY <1>11 DEF ListenHandler, AdbTypeOK, InHand, InputAnnounced, Announced
  <2>5. MotionConserved'
    BY <1>11 DEF ListenHandler, AdbTypeOK, InHand, MotionConserved
  <2> QED
    BY <2>1, <2>2, <2>3, <2>4, <2>5
<1>12. ASSUME NEW relative \in BOOLEAN, SetRelMouseMode(relative) PROVE AdbIndInv'
  <2>1. AdbTypeOK'
    <3>1. fMouseCoord' \in Int /\ owedMotion' \in Int
      BY <1>12 DEF SetRelMouseMode
    <3> QED
      BY <1>12, <3>1 DEF SetRelMouseMode, AdbTypeOK
  <2>2. Queue'
    BY <1>12 DEF SetRelMouseMode, AdbTypeOK, Queue, Slot, Buffered, N
  <2>3. InHand'
    BY <1>12 DEF SetRelMouseMode, AdbTypeOK, InHand, Announced
  <2>4. InputAnnounced'
    BY <1>12 DEF SetRelMouseMode, AdbTypeOK, InHand, InputAnnounced, Announced
  <2>5. MotionConserved'
    <3>1. owedMotion' - (fMouseCoord' + mx') = 0
      BY <1>12 DEF SetRelMouseMode, InHand
    <3>2. 0 % (2 * Delta7) = 0
      BY AdbAssumption, SMT
    <3> QED
      BY <3>1, <3>2 DEF MotionConserved
  <2> QED
    BY <2>1, <2>2, <2>3, <2>4, <2>5
<1>13. CASE AdbStarts
  <2>1. AdbTypeOK'
    BY <1>13 DEF AdbStarts, AdbTypeOK
  <2>2. Queue'
    BY <1>13 DEF AdbStarts, AdbTypeOK, Queue, Slot, Buffered, N
  <2>3. InHand'
    BY <1>13 DEF AdbStarts, AdbTypeOK, InHand, Announced
  <2>4. InputAnnounced'
    BY <1>13 DEF AdbStarts, AdbTypeOK, InHand, InputAnnounced, Announced
  <2>5. MotionConserved'
    BY <1>13 DEF AdbStarts, AdbTypeOK, InHand, MotionConserved
  <2> QED
    BY <2>1, <2>2, <2>3, <2>4, <2>5
<1>14. CASE UNCHANGED adbVars
  <2>1. AdbTypeOK'
    BY <1>14 DEF AdbTypeOK
  <2>2. Queue'
    BY <1>14 DEF AdbTypeOK, Queue, Slot, Buffered, N
  <2>3. InHand'
    BY <1>14 DEF AdbTypeOK, InHand, Announced
  <2>4. InputAnnounced'
    BY <1>14 DEF AdbTypeOK, InHand, InputAnnounced, Announced
  <2>5. MotionConserved'
    BY <1>14 DEF AdbTypeOK, InHand, MotionConserved
  <2> QED
    BY <2>1, <2>2, <2>3, <2>4, <2>5
<1> QED
  BY <1>1, <1>2, <1>3, <1>4, <1>5, <1>6, <1>7, <1>8, <1>9, <1>10, <1>11, <1>12, <1>13, 
     <1>14
     DEF AdbNext, UserActs, InputThread, ServeAdb, MacControlsAdb

\* The inductive invariant holds in every state that the input reaches.
THEOREM AdbInvariance == AdbSpec => []AdbIndInv
<1> QED
  BY InitAdbInv, StepAdbInv, PTL DEF AdbSpec

\* Every variable keeps its type; in particular both pointers stay in the key
\* buffer.
THEOREM AdbTypeCorrect == AdbSpec => []AdbTypeOK
<1>1. AdbIndInv => AdbTypeOK
  BY DEF AdbIndInv
<1> QED
  BY <1>1, AdbInvariance, PTL

\* The key buffer is a queue although two threads share it without a lock.
THEOREM KeysKeepOrder == AdbSpec => []KeysInOrder
<1>1. ASSUME AdbIndInv PROVE KeysInOrder
  <2> DEFINE last == IF ipc = "key" THEN <<fKeyBuffer[fKeyWritePtr]>> ELSE <<>>
  <2>1. AdbTypeOK /\ Queue
    BY <1>1 DEF AdbIndInv
  <2>2. (fKeyWritePtr - fKeyReadPtr) % N = Buffered
    BY <2>1, RingFacts, Wrapping DEF Buffered
  <2>3. ASSUME NEW i \in 1 .. Buffered PROVE (fKeyReadPtr + i - 1) % N = Slot(i)
    <3>1. /\ N \in Nat \ {0} /\ Buffered \in 0 .. N - 1 /\ fKeyReadPtr \in 0 .. N - 1
          /\ fKeyReadPtr + i - 1 \in 0 .. 2 * N - 1
      BY <2>1, RingFacts
    <3> QED
      BY <3>1, Wrapping DEF Slot
  <2>4. BufferedKeys = [i \in 1 .. Buffered |-> fKeyBuffer[Slot(i)]]
    BY <2>2, <2>3 DEF BufferedKeys, N
  <2>5. BufferedKeys \in Seq(KeyCodes \cup {NoKey}) /\ Len(BufferedKeys) = Buffered
    BY <2>1, <2>4, RingFacts DEF AdbTypeOK
  <2>6. last \in Seq(KeyCodes \cup {NoKey}) /\ Len(last) = IF ipc = "key" THEN 1 ELSE 0
    <3>1. fKeyBuffer[fKeyWritePtr] \in KeyCodes \cup {NoKey}
      BY <2>1 DEF AdbTypeOK
    <3>2. /\ <<fKeyBuffer[fKeyWritePtr]>> \in Seq(KeyCodes \cup {NoKey})
          /\ Len(<<fKeyBuffer[fKeyWritePtr]>>) = 1
      BY <3>1
    <3>3. <<>> \in Seq(KeyCodes \cup {NoKey}) /\ Len(<<>>) = 0
      OBVIOUS
    <3>4. CASE ipc = "key"
      BY <3>2, <3>4
    <3>5. CASE ipc # "key"
      BY <3>3, <3>5
    <3> QED
      BY <3>4, <3>5
  <2>7. /\ owedKeys \in Seq(KeyCodes \cup {NoKey})
        /\ BufferedKeys \o last \in Seq(KeyCodes \cup {NoKey})
    BY <2>1, <2>5, <2>6 DEF AdbTypeOK
  <2>8. Len(BufferedKeys \o last) = Len(owedKeys)
    BY <2>1, <2>5, <2>6 DEF Queue
  <2>9. \A i \in 1 .. Len(owedKeys) : (BufferedKeys \o last)[i] = owedKeys[i]
    <3> SUFFICES ASSUME NEW i \in 1 .. Len(owedKeys)
                 PROVE  (BufferedKeys \o last)[i] = owedKeys[i]
      OBVIOUS
    <3>1. owedKeys[i] = fKeyBuffer[Slot(i)]
      BY <2>1 DEF Queue
    <3>2. CASE i \in 1 .. Buffered
      <4>1. (BufferedKeys \o last)[i] = BufferedKeys[i]
        <5> HIDE DEF last
        <5> QED
          BY <3>2, <2>5, <2>6
      <4> QED
        BY <3>1, <3>2, <4>1, <2>4
    <3>3. CASE i \notin 1 .. Buffered
      <4>1. ipc = "key" /\ i = Buffered + 1
        BY <2>1, <3>3, RingFacts DEF Queue
      <4>2. last[1] = fKeyBuffer[Slot(i)]
        BY <2>1, <4>1, RingFacts
      <4> QED
        BY <3>1, <4>1, <4>2, <2>5, <2>6
    <3> QED
      BY <3>2, <3>3
  <2> QED
    BY <2>7, <2>8, <2>9, SeqEqual DEF KeysInOrder
<1> QED
  BY <1>1, AdbInvariance, PTL

\* What the Mac has not seen is announced to it.
THEOREM InputIsAnnounced == AdbSpec => []InputAnnounced
<1>1. AdbIndInv => InputAnnounced
  BY DEF AdbIndInv
<1> QED
  BY <1>1, AdbInvariance, PTL

\* Relative motion is neither lost nor told twice.
THEOREM MotionIsConserved == AdbSpec => []MotionConserved
<1>1. AdbIndInv => MotionConserved
  BY DEF AdbIndInv
<1> QED
  BY <1>1, AdbInvariance, PTL

-----------------------------------------------------------------------------
(* The sum of the devices. *)

\* A step of the sum is a step of one device, and leaves the others alone.
LEMMA StepOfDevices ==
  ASSUME [DevicesNext]_deviceVars
  PROVE  /\ [AdbNext]_adbVars /\ [VosfNext]_vosfVars /\ [VideoNext]_videoVars
         /\ [AudioNext]_audioVars /\ [EtherNext]_etherVars
<1>1. CASE UNCHANGED deviceVars
  BY <1>1, Zenon DEF deviceVars
<1>2. CASE AdbStep(AdbNext)
  BY <1>2, Zenon DEF AdbStep
<1>3. CASE VosfStep(VosfNext)
  BY <1>3, Zenon DEF VosfStep
<1>4. CASE VideoStep(VideoNext)
  BY <1>4, Zenon DEF VideoStep
<1>5. CASE AudioStep(AudioNext)
  BY <1>5, Zenon DEF AudioStep
<1>6. CASE EtherStep(EtherNext)
  BY <1>6, Zenon DEF EtherStep
<1> QED
  BY <1>1, <1>2, <1>3, <1>4, <1>5, <1>6, Zenon DEF DevicesNext

\* The sum implements each of the devices: what is proved of one of them holds in
\* the behaviours that are checked together.
THEOREM DevicesImplement ==
  DevicesFairSpec => AdbSpec /\ VosfSpec /\ VideoSpec /\ AudioSpec /\ EtherSpec
<1>1. DevicesInit => AdbInit /\ VosfInit /\ VideoInit /\ AudioInit /\ EtherInit
  BY Zenon DEF DevicesInit
<1>2. [DevicesNext]_deviceVars =>
        /\ [AdbNext]_adbVars /\ [VosfNext]_vosfVars /\ [VideoNext]_videoVars
        /\ [AudioNext]_audioVars /\ [EtherNext]_etherVars
  BY StepOfDevices, Zenon
<1>3. DevicesFairSpec => DevicesInit /\ [][DevicesNext]_deviceVars
  BY PTL DEF DevicesFairSpec
<1> QED
  BY <1>1, <1>2, <1>3, PTL DEF AdbSpec, VosfSpec, VideoSpec, AudioSpec, EtherSpec

\* The variables of all devices keep their types: pointers stay inside the key
\* buffer, pages and lines inside the screen, and no semaphore, block or count of
\* streams runs away.
THEOREM DevicesTypeCorrect == DevicesFairSpec => []DevicesTypeOK
<1>1. AdbTypeOK /\ VosfTypeOK /\ VideoTypeOK /\ AudioTypeOK /\ EtherTypeOK => DevicesTypeOK
  BY Zenon DEF DevicesTypeOK
<1> QED
  BY <1>1, DevicesImplement, AdbTypeCorrect, VosfTypeCorrect, VideoTypeCorrect,
     AudioTypeCorrect, EtherTypeCorrect, PTL

\* So do their safety properties: input arrives once and in order, the display has
\* one owner and shows every change, blocks of sound are answers, and a stream gets
\* the packets it asked for.
THEOREM DevicesSafe ==
  DevicesFairSpec => [](/\ KeysInOrder /\ InputAnnounced /\ MotionConserved
                        /\ NoUpdateLost /\ OneOwnerOfDisplay
                        /\ BlockIsAnswer /\ DeliveredAsAsked)
  BY DevicesImplement, KeysKeepOrder, InputIsAnnounced, MotionIsConserved,
     UpdatesNotLost, DisplayHasOneOwner, BlocksAreAnswers, PacketsDeliveredAsAsked, PTL

=============================================================================
