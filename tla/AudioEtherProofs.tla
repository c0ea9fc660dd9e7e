-------------------------- MODULE AudioEtherProofs --------------------------
(***************************************************************************)
(* Proofs about sound output and the Ethernet driver.                      *)
(*                                                                         *)
(* AudioOutput, for every number of instances and sources: the thread of   *)
(* SDL and the audio interrupt keep their handshake, and the block that    *)
(* Stream reads is the answer to its own request.                          *)
(*                                                                         *)
(* EtherStreams, for every number of streams, protocols, groups and        *)
(* addresses: whatever sequence of DLPI messages and interrupts came       *)
(* before, a stream gets exactly the packets its client was told it gets.  *)
(***************************************************************************)
EXTENDS AudioOutput, EtherStreams, FiniteSetTheorems, TLAPS

-----------------------------------------------------------------------------
(* Sound output. *)

\* A Stream that waits has its interrupt pending or its answer posted, one of
\* the two; otherwise there is neither.
Handshake ==
  /\ spc = "wait" => (audioFlag <=> irqDone = 0)
  /\ spc # "wait" => ~audioFlag /\ irqDone = 0

\* An answer that was given is in the data area.  What may overwrite it comes only
\* without a mixer, and a block that was handed out keeps its mixer.
Block ==
  /\ answer # "due" => spc # "idle"
  /\ (irqDone = 1 \/ spc = "read") /\ ~pulledAway /\ ~stray => adatStreamInfo = answer
  /\ answer = "block" /\ ~pulledAway /\ ~stray => mixer # "none"
  /\ dpc = "openmixer" => mixer = "none"

\* The data area is there while somebody may use it: an instance, a source or a
\* Stream, unless it was released or reset under them.  A reset forgets the
\* instances and not open_count.
DataArea ==
  /\ instances <= open_count
  /\ instances > 0 => audio_data
  /\ dpc \in {"dispose", "closemixer"} => audio_data /\ open_count = 0
  /\ ~stray /\ num_sources # 0 => audio_data
  /\ ~stray /\ ~pulledAway /\ spc # "idle" => audio_data

AudioIndInv == AudioTypeOK /\ Handshake /\ Block /\ DataArea

-----------------------------------------------------------------------------

\* The invariant holds when the MacAudio was created.
LEMMA InitAudioInv == AudioInit => AudioIndInv
<1> SUFFICES ASSUME AudioInit PROVE AudioIndInv
  OBVIOUS
<1>1. AudioTypeOK
  <2>1. 0 \in 0 .. MaxOpen /\ 0 \in -MaxSources .. MaxSources
    BY AudioAssumption
  <2> QED
    BY <2>1 DEF AudioInit, AudioTypeOK
<1>2. Handshake
  BY DEF AudioInit, Handshake
<1>3. Block
  BY DEF AudioInit, Block
<1>4. DataArea
  BY DEF AudioInit, DataArea
<1> QED
  BY <1>1, <1>2, <1>3, <1>4 DEF AudioIndInv

\* Every step of the emulation thread and of the thread of SDL keeps it.
LEMMA StepAudioInv == AudioIndInv /\ [AudioNext]_audioVars => AudioIndInv'
<1> SUFFICES ASSUME AudioIndInv, [AudioNext]_audioVars PROVE AudioIndInv'
  OBVIOUS
<1> USE DEF AudioIndInv, statusVars, streamVars, audioHistory, audioVars
<1>1. CASE ComponentOpen
  <2>1. AudioTypeOK'
    <3>1. open_count' \in 0 .. MaxOpen /\ instances' \in 0 .. MaxOpen
      BY <1>1, AudioAssumption DEF ComponentOpen, AudioTypeOK
    <3>2. adatStreamInfo' \in {"none", "block", "old"} /\ audio_data' \in BOOLEAN
      BY <1>1, Zenon DEF ComponentOpen, AudioTypeOK
    <3>3. /\ UNCHANGED <<fAudioOpen, num_sources, adatMixer, mixer, macStarted>>
          /\ UNCHANGED <<audioFlag, irqDone, spc, dpc, answer, pulledAway, stray>>
      BY <1>1 DEF ComponentOpen
    <3> QED
      BY <3>1, <3>2, <3>3 DEF AudioTypeOK
  <2>2. Handshake'
    BY <1>1 DEF ComponentOpen, AudioTypeOK, Handshake, DataArea
  <2>3. DataArea'
    BY <1>1 DEF ComponentOpen, AudioTypeOK, Handshake, DataArea
  <2>4. Block'
    BY <1>1 DEF ComponentOpen, AudioTypeOK, Handshake, Block, DataArea
  <2> QED
    BY <2>1, <2>2, <2>3, <2>4
<1>2. CASE ComponentClose
  <2>1. AudioTypeOK'
    <3>1. /\ open_count' \in 0 .. MaxOpen /\ instances' \in 0 .. MaxOpen
          /\ num_sources' \in -MaxSources .. MaxSources
      BY <1>2, AudioAssumption DEF ComponentClose, AudioTypeOK, DataArea
    <3> QED
      BY <1>2, <3>1 DEF ComponentClose, AudioTypeOK
  <2>2. Handshake'
    BY <1>2 DEF ComponentClose, AudioTypeOK, Handshake, DataArea
  <2>3. DataArea'
    BY <1>2 DEF ComponentClose, AudioTypeOK, Handshake, DataArea
  <2>4. Block'
    BY <1>2 DEF ComponentClose, AudioTypeOK, Handshake, Block, DataArea
  <2> QED
    BY <2>1, <2>2, <2>3, <2>4
<1>3. CASE InitOutputDevice
  <2>1. AudioTypeOK'
    BY <1>3 DEF InitOutputDevice, AudioTypeOK, Handshake, DataArea
  <2>2. Handshake'
    BY <1>3 DEF InitOutputDevice, AudioTypeOK, Handshake, DataArea
  <2>3. DataArea'
    BY <1>3 DEF InitOutputDevice, AudioTypeOK, Handshake, DataArea
  <2>4. Block'
    BY <1>3 DEF InitOutputDevice, AudioTypeOK, Handshake, Block, DataArea
  <2> QED
    BY <2>1, <2>2, <2>3, <2>4
<1>4. CASE SetInfo
  <2>1. AudioTypeOK'
    BY <1>4 DEF SetInfo, AudioTypeOK, Handshake, DataArea
  <2>2. Handshake'
    BY <1>4 DEF SetInfo, AudioTypeOK, Handshake, DataArea
  <2>3. DataArea'
    BY <1>4 DEF SetInfo, AudioTypeOK, Handshake, DataArea
  <2>4. Block'
    BY <1>4 DEF SetInfo, AudioTypeOK, Handshake, Block, DataArea
  <2> QED
    BY <2>1, <2>2, <2>3, <2>4
<1>5. ASSUME NEW n \in {-1, 1}, AddSource(n) PROVE AudioIndInv'
  <2>1. AudioTypeOK'
    BY <1>5 DEF AddSource, AudioTypeOK, Handshake, DataArea
  <2>2. Handshake'
    BY <1>5 DEF AddSource, AudioTypeOK, Handshake, DataArea
  <2>3. DataArea'
    BY <1>5 DEF AddSource, AudioTypeOK, Handshake, DataArea
  <2>4. Block'
    BY <1>5 DEF AddSource, AudioTypeOK, Handshake, Block, DataArea
  <2> QED
    BY <2>1, <2>2, <2>3, <2>4
<1>6. CASE AudioReset
  <2>1. AudioTypeOK'
    <3>1. instances' \in 0 .. MaxOpen
      BY <1>6, AudioAssumption DEF AudioReset, AudioTypeOK
    <3> QED
      BY <1>6, <3>1 DEF AudioReset, AudioTypeOK
  <2>2. Handshake'
    BY <1>6 DEF AudioReset, AudioTypeOK, Handshake, DataArea
  <2>3. DataArea'
    BY <1>6 DEF AudioReset, AudioTypeOK, Handshake, DataArea
  <2>4. Block'
    BY <1>6 DEF AudioReset, AudioTypeOK, Handshake, Block, DataArea
  <2> QED
    BY <2>1, <2>2, <2>3, <2>4
<1>7. CASE AudioQuit
  <2>1. AudioTypeOK'
    BY <1>7 DEF AudioQuit, AudioTypeOK, Handshake, DataArea
  <2>2. Handshake'
    BY <1>7 DEF AudioQuit, AudioTypeOK, Handshake, DataArea
  <2>3. DataArea'
    BY <1>7 DEF AudioQuit, AudioTypeOK, Handshake, DataArea
  <2>4. Block'
    BY <1>7 DEF AudioQuit, AudioTypeOK, Handshake, Block, DataArea
  <2> QED
    BY <2>1, <2>2, <2>3, <2>4
<1>8. CASE MixerClosed
  <2>1. AudioTypeOK'
    BY <1>8 DEF MixerClosed, AudioTypeOK, Handshake, DataArea
  <2>2. Handshake'
    BY <1>8 DEF MixerClosed, AudioTypeOK, Handshake, DataArea
  <2>3. DataArea'
    BY <1>8 DEF MixerClosed, AudioTypeOK, Handshake, DataArea
  <2>4. Block'
    BY <1>8 DEF MixerClosed, AudioTypeOK, Handshake, Block, DataArea
  <2> QED
    BY <2>1, <2>2, <2>3, <2>4
<1>9. CASE Disposed
  <2>1. AudioTypeOK'
    <3>1. num_sources' \in -MaxSources .. MaxSources
      BY <1>9, AudioAssumption DEF Disposed, AudioTypeOK
    <3> QED
      BY <1>9, <3>1 DEF Disposed, AudioTypeOK
  <2>2. Handshake'
    BY <1>9 DEF Disposed, AudioTypeOK, Handshake, DataArea
  <2>3. pulledAway' <=> spc' # "idle"
    BY <1>9, Zenon DEF Disposed
  <2>4. DataArea'
    <3>1. ~(instances' > 0)
      BY <1>9 DEF Disposed, AudioTypeOK, DataArea
    <3>2. num_sources' = 0 /\ dpc' = "mac" /\ instances' <= open_count'
      BY <1>9 DEF Disposed, DataArea
    <3> QED
      BY <2>3, <3>1, <3>2 DEF DataArea
  <2>5. Block'
    <3>1. dpc' = "mac" /\ answer' = answer /\ spc' = spc /\ irqDone' = irqDone
      BY <1>9 DEF Disposed
    <3>2. irqDone' = 1 => spc' = "wait"
      BY <3>1 DEF Handshake
    <3> QED
      BY <2>3, <3>1, <3>2 DEF Block
  <2> QED
    BY <2>1, <2>2, <2>4, <2>5
<1>10. CASE MixerOpened
  <2>1. AudioTypeOK'
    BY <1>10 DEF MixerOpened, AudioTypeOK, Handshake, DataArea
  <2>2. Handshake'
    BY <1>10 DEF MixerOpened, AudioTypeOK, Handshake, DataArea
  <2>3. DataArea'
    BY <1>10 DEF MixerOpened, AudioTypeOK, Handshake, DataArea
  <2>4. Block'
    BY <1>10 DEF MixerOpened, AudioTypeOK, Handshake, Block, DataArea
  <2> QED
    BY <2>1, <2>2, <2>3, <2>4
<1>11. CASE DeviceReopened
  <2>1. AudioTypeOK'
    BY <1>11 DEF DeviceReopened, AudioTypeOK, Handshake, DataArea
  <2>2. Handshake'
    BY <1>11 DEF DeviceReopened, AudioTypeOK, Handshake, DataArea
  <2>3. DataArea'
    BY <1>11 DEF DeviceReopened, AudioTypeOK, Handshake, DataArea
  <2>4. Block'
    BY <1>11 DEF DeviceReopened, AudioTypeOK, Handshake, Block, DataArea
  <2> QED
    BY <2>1, <2>2, <2>3, <2>4
<1>12. CASE DeviceShutdown
  <2>1. AudioTypeOK'
    BY <1>12 DEF DeviceShutdown, AudioTypeOK, Handshake, DataArea
  <2>2. Handshake'
    BY <1>12 DEF DeviceShutdown, AudioTypeOK, Handshake, DataArea
  <2>3. DataArea'
    BY <1>12 DEF DeviceShutdown, AudioTypeOK, Handshake, DataArea
  <2>4. Block'
    BY <1>12 DEF DeviceShutdown, AudioTypeOK, Handshake, Block, DataArea
  <2> QED
    BY <2>1, <2>2, <2>3, <2>4
<1>13. CASE MacStarts
  <2>1. AudioTypeOK'
    BY <1>13 DEF MacStarts, AudioTypeOK, Handshake, DataArea
  <2>2. Handshake'
    BY <1>13 DEF MacStarts, AudioTypeOK, Handshake, DataArea
  <2>3. DataArea'
    BY <1>13 DEF MacStarts, AudioTypeOK, Handshake, DataArea
  <2>4. Block'
    BY <1>13 DEF MacStarts, AudioTypeOK, Handshake, Block, DataArea
  <2> QED
    BY <2>1, <2>2, <2>3, <2>4
<1>14. CASE StreamCalled
  <2>1. AudioTypeOK'
    BY <1>14 DEF StreamCalled, AudioTypeOK, Handshake, DataArea
  <2>2. Handshake'
    BY <1>14 DEF StreamCalled, AudioTypeOK, Handshake, DataArea
  <2>3. DataArea'
    BY <1>14 DEF StreamCalled, AudioTypeOK, Handshake, DataArea
  <2>4. Block'
    BY <1>14 DEF StreamCalled, AudioTypeOK, Handshake, Block, DataArea
  <2> QED
    BY <2>1, <2>2, <2>3, <2>4
<1>15. CASE AudioInterrupt
  <2>1. AudioTypeOK'
    <3>1. irqDone' \in {0, 1}
      BY <1>15, AudioAssumption DEF AudioInterrupt, GetSourceData, AudioTypeOK, Handshake
    <3>2. /\ adatStreamInfo' \in {"none", "block", "old"}
          /\ answer' \in {"due", "none", "block"}
      BY <1>15 DEF AudioInterrupt, GetSourceData, AudioTypeOK
    <3>3. audioFlag' = FALSE /\ UNCHANGED <<fAudioOpen, statusVars, macStarted, dpc, spc,
                                            pulledAway, stray>>
      BY <1>15 DEF AudioInterrupt
    <3> QED
      BY <3>1, <3>2, <3>3, Zenon DEF AudioTypeOK
  <2>2. Handshake'
    BY <1>15 DEF AudioInterrupt, GetSourceData, AudioTypeOK, Handshake, DataArea
  <2>3. DataArea'
    BY <1>15 DEF AudioInterrupt, GetSourceData, AudioTypeOK, Handshake, DataArea
  <2>4. Block'
    BY <1>15 DEF AudioInterrupt, GetSourceData, AudioTypeOK, Handshake, Block, DataArea
  <2> QED
    BY <2>1, <2>2, <2>3, <2>4
<1>16. CASE StreamAcked
  <2>1. AudioTypeOK'
    BY <1>16 DEF StreamAcked, AudioTypeOK, Handshake, DataArea
  <2>2. Handshake'
    BY <1>16 DEF StreamAcked, AudioTypeOK, Handshake, DataArea
  <2>3. DataArea'
    BY <1>16 DEF StreamAcked, AudioTypeOK, Handshake, DataArea
  <2>4. Block'
    BY <1>16 DEF StreamAcked, AudioTypeOK, Handshake, Block, DataArea
  <2> QED
    BY <2>1, <2>2, <2>3, <2>4
<1>17. CASE StreamReturns
  <2>1. AudioTypeOK'
    BY <1>17 DEF StreamReturns, AudioTypeOK, Handshake, DataArea
  <2>2. Handshake'
    BY <1>17 DEF StreamReturns, AudioTypeOK, Handshake, DataArea
  <2>3. DataArea'
    BY <1>17 DEF StreamReturns, AudioTypeOK, Handshake, DataArea
  <2>4. Block'
    BY <1>17 DEF StreamReturns, AudioTypeOK, Handshake, Block, DataArea
  <2> QED
    BY <2>1, <2>2, <2>3, <2>4
<1>18. CASE UNCHANGED audioVars
  <2>1. AudioTypeOK'
    BY <1>18 DEF AudioTypeOK, Handshake, DataArea
  <2>2. Handshake'
    BY <1>18 DEF AudioTypeOK, Handshake, DataArea
  <2>3. DataArea'
    BY <1>18 DEF AudioTypeOK, Handshake, DataArea
  <2>4. Block'
    BY <1>18 DEF AudioTypeOK, Handshake, Block, DataArea
  <2> QED
    BY <2>1, <2>2, <2>3, <2>4
<1> QED
  BY <1>1, <1>2, <1>3, <1>4, <1>5, <1>6, <1>7, <1>8, <1>9, <1>10, <1>11, <1>12, <1>13, 
     <1>14, <1>15, <1>16, <1>17, <1>18
     DEF AudioNext, MacCalls, EmulReturns, StreamThread

\* The inductive invariant holds in every state that sound output reaches.
THEOREM AudioInvariance == AudioSpec => []AudioIndInv
<1> QED
  BY InitAudioInv, StepAudioInv, PTL DEF AudioSpec

\* Every variable keeps its type; in particular audio_irq_done_sem is never posted
\* twice and open_count never drops below zero, although a reset forgets the
\* instances it counted.
THEOREM AudioTypeCorrect == AudioSpec => []AudioTypeOK
<1>1. AudioIndInv => AudioTypeOK
  BY DEF AudioIndInv
<1> QED
  BY <1>1, AudioInvariance, PTL

\* What Stream reads from the data area is what the interrupt put there for this
\* call, and the area exists, outside the windows that BlockIsAnswer names:
\* InitOutputDevice, which clears the word, cannot come between.
THEOREM BlocksAreAnswers == AudioSpec => []BlockIsAnswer
<1>1. AudioIndInv => BlockIsAnswer
  BY DEF AudioIndInv, Block, DataArea, BlockIsAnswer
<1> QED
  BY <1>1, AudioInvariance, PTL

-----------------------------------------------------------------------------
(* The deadlock of sound output. *)

\* After the device is closed for good no callback runs.
Silent == dpc = "ended" => spc = "idle"

\* What the callback and the emulation thread wait for is there or on its way, or
\* they wait for each other.
SoundMoves ==
  /\ spc = "wait" => \/ irqDone > 0
                     \/ audioFlag /\ dpc \notin {"reopen", "exit", "ended"}
                     \/ CloseDeadlock
  /\ dpc \in {"reopen", "exit"} => spc \in {"idle", "read"} \/ irqDone > 0 \/ CloseDeadlock

\* Every step keeps the silence, and the deadlock.
LEMMA StepSilent ==
  AudioIndInv /\ Silent /\ [AudioNext]_audioVars => Silent' /\ (CloseDeadlock => CloseDeadlock')
<1> SUFFICES ASSUME AudioIndInv, Silent, [AudioNext]_audioVars
             PROVE  Silent' /\ (CloseDeadlock => CloseDeadlock')
  OBVIOUS
<1> USE DEF AudioIndInv, AudioTypeOK, Handshake, Silent, CloseDeadlock, statusVars, streamVars,
            audioHistory, audioVars
<1>1. CASE ComponentOpen
  BY <1>1 DEF ComponentOpen
<1>2. CASE ComponentClose
  BY <1>2 DEF ComponentClose
<1>3. CASE InitOutputDevice
  BY <1>3 DEF InitOutputDevice
<1>4. CASE SetInfo
  BY <1>4 DEF SetInfo
<1>5. CASE AudioReset
  BY <1>5 DEF AudioReset
<1>6. CASE AudioQuit
  BY <1>6 DEF AudioQuit
<1>7. CASE MixerClosed
  BY <1>7 DEF MixerClosed
<1>8. CASE Disposed
  BY <1>8 DEF Disposed
<1>9. CASE MixerOpened
  BY <1>9 DEF MixerOpened
<1>10. CASE DeviceReopened
  BY <1>10 DEF DeviceReopened
<1>11. CASE DeviceShutdown
  BY <1>11 DEF DeviceShutdown
<1>12. CASE MacStarts
  BY <1>12 DEF MacStarts
<1>13. CASE StreamCalled
  BY <1>13 DEF StreamCalled
<1>14. CASE AudioInterrupt
  BY <1>14 DEF AudioInterrupt
<1>15. CASE StreamAcked
  BY <1>15 DEF StreamAcked
<1>16. CASE StreamReturns
  BY <1>16 DEF StreamReturns
<1>17. ASSUME NEW n \in {-1, 1}, AddSource(n) PROVE Silent' /\ (CloseDeadlock => CloseDeadlock')
  BY <1>17 DEF AddSource
<1>18. CASE UNCHANGED audioVars
  BY <1>18
<1> QED
  BY <1>1, <1>2, <1>3, <1>4, <1>5, <1>6, <1>7, <1>8, <1>9, <1>10,
     <1>11, <1>12, <1>13, <1>14, <1>15, <1>16, <1>17, <1>18
     DEF AudioNext, MacCalls, EmulReturns, StreamThread

\* Stream waits for an interrupt that is pending on a thread that takes interrupts, or
\* for an answer that is posted, and SDL_CloseAudio for a Stream that returns;
\* CloseDeadlock, where a closing thread keeps the interrupt waiting, is the only
\* other state.
THEOREM NoOtherSoundDeadlock == AudioSpec => []SoundMoves
<1>1. AudioInit => Silent
  BY DEF AudioInit, Silent
<1>2. AudioIndInv /\ Silent => SoundMoves
  BY DEF AudioIndInv, AudioTypeOK, Handshake, Silent, SoundMoves, CloseDeadlock
<1> QED
  BY <1>1, <1>2, StepSilent, AudioInvariance, PTL DEF AudioSpec

\* CloseDeadlock is a deadlock: no step of either thread leaves it.
THEOREM SoundDeadlockLasts == AudioSpec => [][CloseDeadlock => CloseDeadlock']_audioVars
<1>1. AudioInit => Silent
  BY DEF AudioInit, Silent
<1> QED
  BY <1>1, StepSilent, AudioInvariance, PTL DEF AudioSpec

-----------------------------------------------------------------------------
(* The streams of the Ethernet driver. *)

\* The streams that listen to a multicast address.
Listeners(a) == {s \in Streams : a \in Registered(s)}

\* What a client can have been told.
Answer == [all : BOOLEAN, groups : SUBSET Groups, snap : Snaps \cup {NoSnap}]

\* The types of the fields of a DLPIStream, of its queue and of its history.
StreamTypes ==
  /\ dlpi_state \in [Streams -> {"unbound", "idle"}]
  /\ dlsap \in [Streams -> {"none", "DIX", "SAP", "AA", "FF"}]
  /\ snap \in [Streams -> Snaps \cup {NoSnap}]
  /\ snapStream \in [Streams -> BOOLEAN] /\ acceptAll \in [Streams -> BOOLEAN]
  /\ acceptMulti \in [Streams -> BOOLEAN] /\ rdq \in [Streams -> BOOLEAN]
  /\ group_sap \in [Streams -> SUBSET (Groups \cup {"FF"})]
  /\ multicast_list \in [Streams -> SUBSET Multicasts]
  /\ asked \in [Streams -> Answer]
  /\ leftover \in [Streams -> SUBSET {"all", "group", "snap"}]

\* What the driver keeps of a stream that is bound, and of one that is not.
Bound ==
  \A s \in Streams :
    /\ dlpi_state[s] = "unbound" => dlsap[s] = "none" /\ asked[s] = NothingAsked
    /\ dlpi_state[s] = "idle" /\ dlsap[s] \in Basic8022 => "FF" \in group_sap[s]
    /\ dlpi_state[s] = "idle" /\ dlsap[s] \notin Basic8022 => group_sap[s] = {}
    /\ acceptMulti[s] <=> Registered(s) # {}

\* What the client of a bound stream was told, and where the stream differs.
Answers ==
  \A s \in Streams :
    /\ asked[s].all => acceptAll[s]
    /\ acceptAll[s] /\ "all" \notin leftover[s] => asked[s].all
    /\ asked[s].groups \subseteq group_sap[s]
    /\ dlpi_state[s] = "idle" /\ "group" \notin leftover[s] =>
         group_sap[s] \subseteq asked[s].groups \cup {"FF"}
    /\ dlpi_state[s] = "idle" /\ "snap" \notin leftover[s] =>
         asked[s].snap = IF snapStream[s] THEN snap[s] ELSE NoSnap
    /\ snapStream[s] => snap[s] \in Snaps

\* A stream that was unbound has an empty queue once it is flushed.
Flushed == \A s \in Streams : dlpi_state[s] = "unbound" /\ s \notin unbinding => ~rdq[s]

\* The host has enabled an address at least once for each of its listeners.
Listened == \A a \in Multicasts : hostMulti[a] >= Cardinality(Listeners(a))

\* A message disables one address, which is no longer in the list.
OneDisabled ==
  \A s \in Streams : \A a \in disabling[s] : a \notin multicast_list[s] /\ disabling[s] = {a}

EtherIndInv == EtherTypeOK /\ Bound /\ Answers /\ Flushed /\ Listened /\ OneDisabled

-----------------------------------------------------------------------------

\* Nothing is an answer too.
LEMMA NothingIsAnswer == NothingAsked \in Answer
<1>1. {} \in SUBSET Groups
  OBVIOUS
<1> QED
  BY <1>1 DEF NothingAsked, Answer

\* A stream that is cleared keeps the types.
LEMMA ClearedTypes ==
  ASSUME EtherTypeOK, NEW s \in Streams, Cleared(s)
  PROVE  StreamTypes'
<1>1. /\ dlpi_state' \in [Streams -> {"unbound", "idle"}]
      /\ dlsap' \in [Streams -> {"none", "DIX", "SAP", "AA", "FF"}]
      /\ snap' \in [Streams -> Snaps \cup {NoSnap}]
  BY DEF Cleared, EtherTypeOK
<1>2. /\ snapStream' \in [Streams -> BOOLEAN] /\ acceptAll' \in [Streams -> BOOLEAN]
      /\ acceptMulti' \in [Streams -> BOOLEAN] /\ rdq' \in [Streams -> BOOLEAN]
  BY DEF Cleared, EtherTypeOK
<1>3. /\ group_sap' \in [Streams -> SUBSET (Groups \cup {"FF"})]
      /\ multicast_list' \in [Streams -> SUBSET Multicasts]
      /\ leftover' \in [Streams -> SUBSET {"all", "group", "snap"}]
  BY DEF Cleared, EtherTypeOK
<1>4. asked' \in [Streams -> Answer]
  BY NothingIsAnswer DEF Cleared, EtherTypeOK, Answer
<1> QED
  BY <1>1, <1>2, <1>3, <1>4 DEF StreamTypes

\* A stream more, a stream less, or no change among the listeners of an address,
\* and how many there are.
LEMMA ListenerCount ==
  ASSUME NEW S, S \subseteq Streams
  PROVE  /\ Cardinality(S) \in Nat
         /\ \A T : T \subseteq S => Cardinality(T) <= Cardinality(S)
         /\ \A s : s \notin S => Cardinality(S \cup {s}) = Cardinality(S) + 1
         /\ \A s : s \in S => Cardinality(S) >= 1 /\ Cardinality(S \ {s}) = Cardinality(S) - 1
<1>1. IsFiniteSet(S)
  BY EtherAssumption, FS_Subset
<1>2. Cardinality(S) \in Nat
  BY <1>1, FS_CardinalityType
<1>3. \A T : T \subseteq S => Cardinality(T) <= Cardinality(S)
  BY <1>1, FS_Subset
<1>4. \A s : s \notin S => Cardinality(S \cup {s}) = Cardinality(S) + 1
  BY <1>1, FS_AddElement
<1>5. ASSUME NEW s, s \in S
      PROVE  Cardinality(S) >= 1 /\ Cardinality(S \ {s}) = Cardinality(S) - 1
  <2>1. IsFiniteSet(S \ {s}) /\ Cardinality(S \ {s}) = Cardinality(S) - 1
    BY <1>1, <1>5, FS_RemoveElement
  <2>2. Cardinality(S \ {s}) \in Nat
    BY <2>1, FS_CardinalityType
  <2> QED
    BY <1>2, <2>1, <2>2
<1> QED
  BY <1>2, <1>3, <1>4, <1>5

\* What is left to show when the enables of the host and the lists change.
LEMMA ListenersKept ==
  ASSUME EtherTypeOK, Listened, hostMulti' = hostMulti, 
         \A s \in Streams : Registered(s)' \subseteq Registered(s)
  PROVE  Listened'
<1> SUFFICES ASSUME NEW a \in Multicasts
             PROVE  hostMulti'[a] >= Cardinality(Listeners(a)')
  BY DEF Listened
<1>1. Listeners(a)' \subseteq Listeners(a)
  BY DEF Listeners
<1>2. Listeners(a) \subseteq Streams
  BY DEF Listeners
<1>3. /\ Cardinality(Listeners(a)') <= Cardinality(Listeners(a))
      /\ Cardinality(Listeners(a)) \in Nat /\ Cardinality(Listeners(a)') \in Nat
  BY <1>1, <1>2, ListenerCount
<1>4. hostMulti[a] \in Int /\ hostMulti[a] >= Cardinality(Listeners(a))
  BY DEF EtherTypeOK, Listened
<1> QED
  BY <1>3, <1>4

-----------------------------------------------------------------------------

\* The invariant holds before the driver is opened.
LEMMA InitEtherInv == EtherInit => EtherIndInv
<1> SUFFICES ASSUME EtherInit PROVE EtherIndInv
  OBVIOUS
<1>1. EtherTypeOK
  <2>1. /\ dlpi_state \in [Streams -> {"unbound", "idle"}]
        /\ dlsap \in [Streams -> {"none", "DIX", "SAP", "AA", "FF"}]
        /\ snap \in [Streams -> Snaps \cup {NoSnap}]
    BY DEF EtherInit
  <2>2. /\ snapStream \in [Streams -> BOOLEAN] /\ acceptAll \in [Streams -> BOOLEAN]
        /\ acceptMulti \in [Streams -> BOOLEAN] /\ rdq \in [Streams -> BOOLEAN]
    BY DEF EtherInit
  <2>3. /\ group_sap \in [Streams -> SUBSET (Groups \cup {"FF"})]
        /\ multicast_list \in [Streams -> SUBSET Multicasts]
        /\ disabling \in [Streams -> SUBSET Multicasts]
        /\ leftover \in [Streams -> SUBSET {"all", "group", "snap"}]
    BY DEF EtherInit
  <2>4. hostMulti \in [Multicasts -> 0 .. MaxMulti]
    BY EtherAssumption DEF EtherInit
  <2>5. asked \in [Streams -> Answer]
    BY NothingIsAnswer DEF EtherInit
  <2> QED
    BY <2>1, <2>2, <2>3, <2>4, <2>5 DEF EtherInit, EtherTypeOK, Answer
<1>2. Bound
  BY DEF EtherInit, Bound, Basic8022, NothingAsked, Registered
<1>3. Answers
  BY DEF EtherInit, Answers, NothingAsked, Basic8022
<1>4. Flushed
  BY DEF EtherInit, Flushed
<1>5. Listened
  <2> SUFFICES ASSUME NEW a \in Multicasts PROVE hostMulti[a] >= Cardinality(Listeners(a))
    BY DEF Listened
  <2>1. Listeners(a) = {}
    BY DEF Listeners, Registered, EtherInit
  <2> QED
    BY <2>1, FS_EmptySet DEF EtherInit
<1>6. OneDisabled
  BY DEF EtherInit, OneDisabled
<1> QED
  BY <1>1, <1>2, <1>3, <1>4, <1>5, <1>6 DEF EtherIndInv

\* Every message, every interrupt and every queue run keeps it.
LEMMA StepEtherInv == EtherIndInv /\ [EtherNext]_etherVars => EtherIndInv'
<1> SUFFICES ASSUME EtherIndInv, [EtherNext]_etherVars PROVE EtherIndInv'
  OBVIOUS
<1> USE DEF EtherIndInv, bindVars, multiVars, listVars, askedVars, etherVars
<1>1. CASE InitStreamModule
  <2>1. EtherTypeOK'
    BY <1>1 DEF InitStreamModule, EtherTypeOK
  <2>2. Bound'
    BY <1>1 DEF InitStreamModule, EtherTypeOK, Bound, Registered, Basic8022, NothingAsked
  <2>3. Answers'
    BY <1>1 DEF InitStreamModule, EtherTypeOK, Bound, Answers, NothingAsked, Basic8022
  <2>4. Flushed'
    BY <1>1 DEF InitStreamModule, EtherTypeOK, Flushed
  <2>5. Listened'
    BY <1>1 DEF InitStreamModule, EtherTypeOK, Listened, Listeners, Registered
  <2>6. OneDisabled'
    BY <1>1 DEF InitStreamModule, OneDisabled, EtherTypeOK
  <2> QED
    BY <2>1, <2>2, <2>3, <2>4, <2>5, <2>6
<1>2. CASE TerminateStreamModule
  <2>1. EtherTypeOK'
    BY <1>2 DEF TerminateStreamModule, EtherTypeOK
  <2>2. Bound'
    BY <1>2 DEF TerminateStreamModule, EtherTypeOK, Bound, Registered, Basic8022, NothingAsked
  <2>3. Answers'
    BY <1>2 DEF TerminateStreamModule, EtherTypeOK, Bound, Answers, NothingAsked, Basic8022
  <2>4. Flushed'
    BY <1>2 DEF TerminateStreamModule, EtherTypeOK, Flushed
  <2>5. Listened'
    BY <1>2 DEF TerminateStreamModule, EtherTypeOK, Listened, Listeners, Registered
  <2>6. OneDisabled'
    BY <1>2 DEF TerminateStreamModule, OneDisabled, EtherTypeOK
  <2> QED
    BY <2>1, <2>2, <2>3, <2>4, <2>5, <2>6
<1>3. ASSUME NEW s \in Streams, ether_open(s) PROVE EtherIndInv'
  <2>1. EtherTypeOK'
    <3>1. StreamTypes'
      BY <1>3, ClearedTypes DEF ether_open
    <3> QED
      BY <1>3, <3>1 DEF ether_open, StreamTypes, Answer, EtherTypeOK
  <2>2. Bound'
    <3>1. \A r \in Streams : Registered(r)' = IF r = s THEN {} ELSE Registered(r)
      BY <1>3 DEF ether_open, BetweenMessages, Cleared, EtherTypeOK, Registered
    <3> QED
      BY <1>3, <3>1 DEF ether_open, Cleared, EtherTypeOK, Bound, Basic8022
  <2>3. Answers'
    BY <1>3 DEF ether_open, Cleared, EtherTypeOK, Bound, Answers, NothingAsked, Basic8022
  <2>4. Flushed'
    BY <1>3 DEF ether_open, Cleared, EtherTypeOK, Flushed
  <2>5. Listened'
    <3>1. \A r \in Streams : Registered(r)' \subseteq Registered(r)
      BY <1>3 DEF ether_open, Cleared, Registered, EtherTypeOK
    <3> QED
      BY <1>3, <3>1, ListenersKept DEF ether_open
  <2>6. OneDisabled'
    BY <1>3 DEF ether_open, OneDisabled, EtherTypeOK, Cleared
  <2> QED
    BY <2>1, <2>2, <2>3, <2>4, <2>5, <2>6
<1>4. ASSUME NEW s \in Streams, ether_close(s) PROVE EtherIndInv'
  <2>1. EtherTypeOK'
    <3>1. StreamTypes'
      <4>1. CASE ether_driver_opened
        BY <1>4, <4>1, ClearedTypes DEF ether_close
      <4>2. CASE ~ether_driver_opened
        BY <1>4, <4>2 DEF ether_close, EtherTypeOK, StreamTypes, Answer
      <4> QED
        BY <4>1, <4>2
    <3>2. hostMulti' \in [Multicasts -> 0 .. MaxMulti]
      <4>1. CASE ~ether_driver_opened
        BY <1>4, <4>1 DEF ether_close, EtherTypeOK
      <4>2. CASE ether_driver_opened
        <5> SUFFICES ASSUME NEW a \in Multicasts
                     PROVE  (IF a \in multicast_list[s] THEN hostMulti[a] - 1 ELSE hostMulti[a])
                              \in 0 .. MaxMulti
          BY <1>4, <4>2 DEF ether_close
        <5>1. hostMulti[a] \in 0 .. MaxMulti /\ MaxMulti \in Nat
          BY EtherAssumption DEF EtherTypeOK
        <5>2. CASE a \in multicast_list[s]
          <6>1. s \in Listeners(a) /\ Listeners(a) \subseteq Streams
            BY <5>2 DEF Listeners, Registered
          <6>2. Cardinality(Listeners(a)) >= 1
            BY <6>1, ListenerCount
          <6>3. hostMulti[a] >= 1
            BY <5>1, <6>1, <6>2, ListenerCount DEF Listened
          <6> QED
            BY <5>1, <5>2, <6>3
        <5> QED
          BY <5>1, <5>2
      <4> QED
        BY <4>1, <4>2
    <3> QED
      BY <1>4, <3>1, <3>2 DEF ether_close, StreamTypes, Answer, EtherTypeOK
  <2>2. Bound'
    <3>1. CASE ether_driver_opened
      BY <1>4, <3>1 DEF ether_close, BetweenMessages, Cleared, EtherTypeOK, Bound, Registered,
                        Basic8022, NothingAsked
    <3>2. CASE ~ether_driver_opened
      BY <1>4, <3>2 DEF ether_close, Bound, Registered
    <3> QED
      BY <3>1, <3>2
  <2>3. Answers'
    BY <1>4 DEF ether_close, Cleared, EtherTypeOK, Bound, Answers, NothingAsked, Basic8022
  <2>4. Flushed'
    BY <1>4 DEF ether_close, Cleared, EtherTypeOK, Flushed
  <2>5. Listened'
    <3>1. CASE ether_driver_opened
      <4> SUFFICES ASSUME NEW a \in Multicasts
                   PROVE  hostMulti'[a] >= Cardinality(Listeners(a)')
        BY DEF Listened
      <4>1. Listeners(a)' = Listeners(a) \ {s}
        BY <1>4, <3>1 DEF ether_close, BetweenMessages, Cleared, Listeners, Registered, EtherTypeOK
      <4>2. hostMulti'[a] = IF a \in multicast_list[s] THEN hostMulti[a] - 1 ELSE hostMulti[a]
        BY <1>4, <3>1 DEF ether_close
      <4>3. Listeners(a) \subseteq Streams /\ (s \in Listeners(a) <=> a \in multicast_list[s])
        BY <1>4 DEF ether_close, BetweenMessages, Listeners, Registered
      <4>4. hostMulti[a] \in Int /\ hostMulti[a] >= Cardinality(Listeners(a))
        BY DEF EtherTypeOK, Listened
      <4>5. Cardinality(Listeners(a)) \in Nat
        BY <4>3, ListenerCount
      <4>6. CASE a \in multicast_list[s]
        <5>1. Cardinality(Listeners(a)') = Cardinality(Listeners(a)) - 1
          BY <4>1, <4>3, <4>6, ListenerCount
        <5> QED
          BY <4>2, <4>4, <4>5, <4>6, <5>1
      <4>7. CASE a \notin multicast_list[s]
        <5>1. Listeners(a)' = Listeners(a)
          BY <4>1, <4>3, <4>7
        <5> QED
          BY <4>2, <4>4, <4>7, <5>1
      <4> QED
        BY <4>6, <4>7
    <3>2. CASE ~ether_driver_opened
      <4>1. hostMulti' = hostMulti /\ \A r \in Streams : Registered(r)' = Registered(r)
        BY <1>4, <3>2 DEF ether_close, Registered
      <4> QED
        BY <4>1, ListenersKept
    <3> QED
      BY <3>1, <3>2
  <2>6. OneDisabled'
    BY <1>4 DEF ether_close, OneDisabled, EtherTypeOK, Cleared
  <2> QED
    BY <2>1, <2>2, <2>3, <2>4, <2>5, <2>6
<1>5. ASSUME NEW s \in Streams, NEW sap \in Protocols[s],
             DLPI_bind(s, sap)
      PROVE  EtherIndInv'
  <2>1. EtherTypeOK'
    <3>1. /\ dlpi_state' \in [Streams -> {"unbound", "idle"}]
          /\ snapStream' \in [Streams -> BOOLEAN] /\ snap' \in [Streams -> Snaps \cup {NoSnap}]
      BY <1>5 DEF DLPI_bind, EtherTypeOK
    <3>2. dlsap' \in [Streams -> {"none", "DIX", "SAP", "AA", "FF"}]
      <4>1. sap \in {"DIX", "SAP", "AA", "FF"}
        BY EtherAssumption
      <4> QED
        BY <1>5, <4>1 DEF DLPI_bind, EtherTypeOK
    <3>3. group_sap' \in [Streams -> SUBSET (Groups \cup {"FF"})]
      BY <1>5 DEF DLPI_bind, EtherTypeOK
    <3> QED
      BY <1>5, <3>1, <3>2, <3>3 DEF DLPI_bind, EtherTypeOK
  <2>2. Bound'
    BY <1>5 DEF DLPI_bind, Request, EtherTypeOK, Bound, Registered, Basic8022, NothingAsked
  <2>3. Answers'
    BY <1>5 DEF DLPI_bind, Request, EtherTypeOK, Bound, Answers, NothingAsked, Basic8022
  <2>4. Flushed'
    BY <1>5 DEF DLPI_bind, Request, EtherTypeOK, Flushed
  <2>5. Listened'
    BY <1>5 DEF DLPI_bind, Request, EtherTypeOK, Listened, Listeners, Registered
  <2>6. OneDisabled'
    BY <1>5 DEF DLPI_bind, OneDisabled, EtherTypeOK
  <2> QED
    BY <2>1, <2>2, <2>3, <2>4, <2>5, <2>6
<1>6. ASSUME NEW s \in Streams, DLPI_unbind(s) PROVE EtherIndInv'
  <2>1. EtherTypeOK'
    <3>1. /\ dlpi_state' \in [Streams -> {"unbound", "idle"}] /\ unbinding' \subseteq Streams
          /\ dlsap' \in [Streams -> {"none", "DIX", "SAP", "AA", "FF"}]
      BY <1>6 DEF DLPI_unbind, EtherTypeOK
    <3>2. asked' \in [Streams -> Answer]
      BY <1>6, NothingIsAnswer DEF DLPI_unbind, EtherTypeOK, Answer
    <3>3. leftover' \in [Streams -> SUBSET {"all", "group", "snap"}]
      BY <1>6 DEF DLPI_unbind, EtherTypeOK
    <3> QED
      BY <1>6, <3>1, <3>2, <3>3 DEF DLPI_unbind, Answer, EtherTypeOK
  <2>2. Bound'
    BY <1>6 DEF DLPI_unbind, Request, EtherTypeOK, Bound, Registered, Basic8022, NothingAsked
  <2>3. Answers'
    BY <1>6 DEF DLPI_unbind, Request, EtherTypeOK, Bound, Answers, NothingAsked, Basic8022
  <2>4. Flushed'
    BY <1>6 DEF DLPI_unbind, Request, EtherTypeOK, Flushed
  <2>5. Listened'
    BY <1>6 DEF DLPI_unbind, Request, EtherTypeOK, Listened, Listeners, Registered
  <2>6. OneDisabled'
    BY <1>6 DEF DLPI_unbind, OneDisabled, EtherTypeOK
  <2> QED
    BY <2>1, <2>2, <2>3, <2>4, <2>5, <2>6
<1>7. ASSUME NEW s \in Streams, NEW g \in Groups, NEW ack \in BOOLEAN,
             SubsBindGroup(s, g, ack)
      PROVE  EtherIndInv'
  <2>1. EtherTypeOK'
    <3>1. group_sap' \in [Streams -> SUBSET (Groups \cup {"FF"})]
      BY <1>7 DEF SubsBindGroup, EtherTypeOK
    <3>2. asked' \in [Streams -> [all : BOOLEAN, groups : SUBSET Groups, snap : Snaps \cup {NoSnap}]]
      BY <1>7 DEF SubsBindGroup, EtherTypeOK
    <3>3. leftover' \in [Streams -> SUBSET {"all", "group", "snap"}]
      BY <1>7 DEF SubsBindGroup, EtherTypeOK
    <3> QED
      BY <1>7, <3>1, <3>2, <3>3 DEF SubsBindGroup, EtherTypeOK
  <2>2. Bound'
    BY <1>7 DEF SubsBindGroup, Request, EtherTypeOK, Bound, Registered, Basic8022, NothingAsked
  <2>3. Answers'
    BY <1>7 DEF SubsBindGroup, Request, EtherTypeOK, Bound, Answers, NothingAsked, Basic8022
  <2>4. Flushed'
    BY <1>7 DEF SubsBindGroup, Request, EtherTypeOK, Flushed
  <2>5. Listened'
    BY <1>7 DEF SubsBindGroup, Request, EtherTypeOK, Listened, Listeners, Registered
  <2>6. OneDisabled'
    BY <1>7 DEF SubsBindGroup, OneDisabled, EtherTypeOK
  <2> QED
    BY <2>1, <2>2, <2>3, <2>4, <2>5, <2>6
<1>8. ASSUME NEW s \in Streams, NEW ack \in BOOLEAN, SubsBindAll(s, ack) PROVE EtherIndInv'
  <2>1. EtherTypeOK'
    <3>1. acceptAll' \in [Streams -> BOOLEAN]
      BY <1>8 DEF SubsBindAll, EtherTypeOK
    <3>2. asked' \in [Streams -> Answer]
      <4>1. asked \in [Streams -> Answer]
        BY DEF EtherTypeOK, Answer
      <4>2. [asked[s] EXCEPT !.all = TRUE] \in Answer
        BY <4>1 DEF Answer
      <4> QED
        BY <1>8, <4>1, <4>2 DEF SubsBindAll, Told
    <3>3. leftover' \in [Streams -> SUBSET {"all", "group", "snap"}]
      BY <1>8 DEF SubsBindAll, Told, EtherTypeOK
    <3> QED
      BY <1>8, <3>1, <3>2, <3>3 DEF SubsBindAll, Answer, EtherTypeOK
  <2>2. Bound'
    BY <1>8 DEF SubsBindAll, Request, Told, EtherTypeOK, Bound, Registered, Basic8022, NothingAsked
  <2>3. Answers'
    BY <1>8 DEF SubsBindAll, Request, Told, EtherTypeOK, Bound, Answers, NothingAsked,
                Basic8022
  <2>4. Flushed'
    BY <1>8 DEF SubsBindAll, Request, Told, EtherTypeOK, Flushed
  <2>5. Listened'
    BY <1>8 DEF SubsBindAll, Request, Told, EtherTypeOK, Listened, Listeners, Registered
  <2>6. OneDisabled'
    BY <1>8 DEF SubsBindAll, OneDisabled, EtherTypeOK
  <2> QED
    BY <2>1, <2>2, <2>3, <2>4, <2>5, <2>6
<1>9. ASSUME NEW s \in Streams, NEW x \in Snaps, NEW ack \in BOOLEAN,
             SubsBindSnap(s, x, ack)
      PROVE  EtherIndInv'
  <2>1. EtherTypeOK'
    <3>1. snapStream' \in [Streams -> BOOLEAN] /\ snap' \in [Streams -> Snaps \cup {NoSnap}]
      BY <1>9 DEF SubsBindSnap, EtherTypeOK
    <3>2. asked' \in [Streams -> Answer]
      <4>1. asked \in [Streams -> Answer]
        BY DEF EtherTypeOK, Answer
      <4>2. [asked[s] EXCEPT !.snap = x] \in Answer
        BY <4>1 DEF Answer
      <4> QED
        BY <1>9, <4>1, <4>2 DEF SubsBindSnap, Told
    <3>3. leftover' \in [Streams -> SUBSET {"all", "group", "snap"}]
      BY <1>9 DEF SubsBindSnap, Told, EtherTypeOK
    <3> QED
      BY <1>9, <3>1, <3>2, <3>3 DEF SubsBindSnap, Answer, EtherTypeOK
  <2>2. Bound'
    BY <1>9 DEF SubsBindSnap, Request, Told, EtherTypeOK, Bound, Registered, Basic8022, NothingAsked
  <2>3. Answers'
    BY <1>9 DEF SubsBindSnap, Request, Told, EtherTypeOK, Bound, Answers, NothingAsked,
                Basic8022
  <2>4. Flushed'
    BY <1>9 DEF SubsBindSnap, Request, Told, EtherTypeOK, Flushed
  <2>5. Listened'
    BY <1>9 DEF SubsBindSnap, Request, Told, EtherTypeOK, Listened, Listeners, Registered
  <2>6. OneDisabled'
    BY <1>9 DEF SubsBindSnap, OneDisabled, EtherTypeOK
  <2> QED
    BY <2>1, <2>2, <2>3, <2>4, <2>5, <2>6
<1>10. ASSUME NEW s \in Streams, NEW length \in {1, 2, 5}, NEW g \in Groups,
              SubsUnbind(s, length, g)
       PROVE  EtherIndInv'
  <2>1. EtherTypeOK'
    <3>1. snapStream' \in [Streams -> BOOLEAN] /\ snap' \in [Streams -> Snaps \cup {NoSnap}]
      BY <1>10 DEF SubsUnbind, EtherTypeOK
    <3>2. group_sap' \in [Streams -> SUBSET (Groups \cup {"FF"})]
      BY <1>10 DEF SubsUnbind, EtherTypeOK
    <3>3. asked' \in [Streams -> Answer]
      <4>1. asked \in [Streams -> Answer]
        BY DEF EtherTypeOK, Answer
      <4>2. asked[s] \in Answer
        BY <4>1
      <4>3. /\ [asked[s] EXCEPT !.snap = NoSnap] \in Answer
            /\ [asked[s] EXCEPT !.groups = @ \ {g}] \in Answer
        BY <4>2 DEF Answer
      <4> QED
        BY <1>10, <4>1, <4>3 DEF SubsUnbind
    <3>4. leftover' \in [Streams -> SUBSET {"all", "group", "snap"}]
      BY <1>10 DEF SubsUnbind, EtherTypeOK
    <3> QED
      BY <1>10, <3>1, <3>2, <3>3, <3>4 DEF SubsUnbind, Answer, EtherTypeOK
  <2>2. Bound'
    <3>1. "FF" \notin Groups
      BY EtherAssumption
    <3>2. /\ UNCHANGED <<dlpi_state, dlsap, acceptMulti, multicast_list, disabling>>
          /\ \A r \in Streams : "FF" \in group_sap[r] => "FF" \in group_sap'[r]
          /\ \A r \in Streams : group_sap[r] = {} => group_sap'[r] = {}
      BY <1>10, <3>1 DEF SubsUnbind, EtherTypeOK
    <3>3. dlpi_state[s] = "idle" /\ \A r \in Streams : r # s => asked'[r] = asked[r]
      BY <1>10 DEF SubsUnbind, EtherTypeOK
    <3> QED
      BY <3>2, <3>3 DEF Bound, Registered
  <2>3. Answers'
    BY <1>10 DEF SubsUnbind, Request, EtherTypeOK, Bound, Answers, NothingAsked, Basic8022
  <2>4. Flushed'
    BY <1>10 DEF SubsUnbind, Request, EtherTypeOK, Flushed
  <2>5. Listened'
    BY <1>10 DEF SubsUnbind, Request, EtherTypeOK, Listened, Listeners, Registered
  <2>6. OneDisabled'
    BY <1>10 DEF SubsUnbind, OneDisabled, EtherTypeOK
  <2> QED
    BY <2>1, <2>2, <2>3, <2>4, <2>5, <2>6
<1>11. ASSUME NEW s \in Streams, NEW a \in Multicasts,
              DLPI_enable_multi(s, a)
       PROVE  EtherIndInv'
  <2>1. EtherTypeOK'
    <3>1. hostMulti' \in [Multicasts -> 0 .. MaxMulti]
      BY <1>11, EtherAssumption DEF DLPI_enable_multi, EtherTypeOK
    <3>2. multicast_list' \in [Streams -> SUBSET Multicasts] /\ acceptMulti' \in [Streams -> BOOLEAN]
      BY <1>11 DEF DLPI_enable_multi, EtherTypeOK
    <3> QED
      BY <1>11, <3>1, <3>2 DEF DLPI_enable_multi, EtherTypeOK
  <2>2. Bound'
    BY <1>11 DEF DLPI_enable_multi, Request, EtherTypeOK, Bound, Registered, Basic8022, NothingAsked
  <2>3. Answers'
    BY <1>11 DEF DLPI_enable_multi, Request, EtherTypeOK, Bound, Answers, NothingAsked,
                 Basic8022
  <2>4. Flushed'
    BY <1>11 DEF DLPI_enable_multi, Request, EtherTypeOK, Flushed
  <2>5. Listened'
    <3> SUFFICES ASSUME NEW b \in Multicasts
                 PROVE  hostMulti'[b] >= Cardinality(Listeners(b)')
      BY DEF Listened
    <3>1. Listeners(b) \subseteq Streams /\ hostMulti[b] \in Int
          /\ hostMulti[b] >= Cardinality(Listeners(b))
      BY DEF Listeners, EtherTypeOK, Listened
    <3>2. Cardinality(Listeners(b)) \in Nat
      BY <3>1, ListenerCount
    <3>3. CASE b = a
      <4>1. Listeners(b)' = Listeners(b) \cup {s} /\ s \notin Listeners(b)
        BY <1>11, <3>3 DEF DLPI_enable_multi, Request, BetweenMessages, Listeners, Registered,
                           EtherTypeOK
      <4>2. hostMulti'[b] = hostMulti[b] + 1
        BY <1>11, <3>3 DEF DLPI_enable_multi, EtherTypeOK
      <4>3. Cardinality(Listeners(b)') = Cardinality(Listeners(b)) + 1
        BY <3>1, <4>1, ListenerCount
      <4> QED
        BY <3>1, <3>2, <4>2, <4>3
    <3>4. CASE b # a
      <4>1. Listeners(b)' = Listeners(b) /\ hostMulti'[b] = hostMulti[b]
        BY <1>11, <3>4 DEF DLPI_enable_multi, Listeners, Registered, EtherTypeOK
      <4> QED
        BY <3>1, <4>1
    <3> QED
      BY <3>3, <3>4
  <2>6. OneDisabled'
    BY <1>11 DEF DLPI_enable_multi, Request, BetweenMessages, OneDisabled, EtherTypeOK
  <2> QED
    BY <2>1, <2>2, <2>3, <2>4, <2>5, <2>6
<1>12. ASSUME NEW s \in Streams, NEW a \in Multicasts,
              DLPI_disable_multi(s, a)
       PROVE  EtherIndInv'
  <2>0. \A r \in Streams : Registered(r)' = Registered(r)
    BY <1>12 DEF DLPI_disable_multi, Registered, EtherTypeOK
  <2>1. EtherTypeOK'
    <3>1. multicast_list' \in [Streams -> SUBSET Multicasts]
      BY <1>12 DEF DLPI_disable_multi, EtherTypeOK
    <3>2. disabling' \in [Streams -> SUBSET Multicasts]
      BY <1>12 DEF DLPI_disable_multi, EtherTypeOK
    <3> QED
      BY <1>12, <3>1, <3>2 DEF DLPI_disable_multi, EtherTypeOK
  <2>2. Bound'
    <3>1. UNCHANGED <<dlpi_state, dlsap, asked, group_sap, acceptMulti>>
      BY <1>12 DEF DLPI_disable_multi
    <3> QED
      BY <2>0, <3>1 DEF Bound
  <2>3. Answers'
    BY <1>12 DEF DLPI_disable_multi, Answers
  <2>4. Flushed'
    BY <1>12 DEF DLPI_disable_multi, Flushed
  <2>5. Listened'
    BY <1>12, <2>0, ListenersKept DEF DLPI_disable_multi
  <2>6. OneDisabled'
    <3>1. \A r \in Streams : disabling[r] = {}
      BY <1>12 DEF DLPI_disable_multi, Request, BetweenMessages
    <3>2. \A r \in Streams : disabling'[r] = IF r = s THEN {a} ELSE {}
      BY <1>12, <3>1 DEF DLPI_disable_multi, EtherTypeOK
    <3>3. a \notin multicast_list'[s]
      BY <1>12 DEF DLPI_disable_multi, EtherTypeOK
    <3> QED
      BY <3>2, <3>3 DEF OneDisabled
  <2> QED
    BY <2>1, <2>2, <2>3, <2>4, <2>5, <2>6
<1>13. ASSUME NEW s \in Streams, UnbindFlushes(s) PROVE EtherIndInv'
  <2>1. EtherTypeOK'
    BY <1>13 DEF UnbindFlushes, EtherTypeOK
  <2>2. Bound'
    BY <1>13 DEF UnbindFlushes, EtherTypeOK, Bound, Registered, Basic8022, NothingAsked
  <2>3. Answers'
    BY <1>13 DEF UnbindFlushes, EtherTypeOK, Bound, Answers, NothingAsked, Basic8022
  <2>4. Flushed'
    BY <1>13 DEF UnbindFlushes, EtherTypeOK, Flushed
  <2>5. Listened'
    BY <1>13 DEF UnbindFlushes, EtherTypeOK, Listened, Listeners, Registered
  <2>6. OneDisabled'
    BY <1>13 DEF UnbindFlushes, OneDisabled, EtherTypeOK
  <2> QED
    BY <2>1, <2>2, <2>3, <2>4, <2>5, <2>6
<1>14. ASSUME NEW s \in Streams, ether_rsrv(s) PROVE EtherIndInv'
  <2>1. EtherTypeOK'
    BY <1>14 DEF ether_rsrv, EtherTypeOK
  <2>2. Bound'
    BY <1>14 DEF ether_rsrv, EtherTypeOK, Bound, Registered, Basic8022, NothingAsked
  <2>3. Answers'
    BY <1>14 DEF ether_rsrv, EtherTypeOK, Bound, Answers, NothingAsked, Basic8022
  <2>4. Flushed'
    BY <1>14 DEF ether_rsrv, EtherTypeOK, Flushed
  <2>5. Listened'
    BY <1>14 DEF ether_rsrv, EtherTypeOK, Listened, Listeners, Registered
  <2>6. OneDisabled'
    BY <1>14 DEF ether_rsrv, OneDisabled, EtherTypeOK
  <2> QED
    BY <2>1, <2>2, <2>3, <2>4, <2>5, <2>6
<1>15. CASE TriggerEther
  <2>1. EtherTypeOK'
    BY <1>15 DEF TriggerEther, EtherTypeOK
  <2>2. Bound'
    BY <1>15 DEF TriggerEther, EtherTypeOK, Bound, Registered, Basic8022, NothingAsked
  <2>3. Answers'
    BY <1>15 DEF TriggerEther, EtherTypeOK, Bound, Answers, NothingAsked, Basic8022
  <2>4. Flushed'
    BY <1>15 DEF TriggerEther, EtherTypeOK, Flushed
  <2>5. Listened'
    BY <1>15 DEF TriggerEther, EtherTypeOK, Listened, Listeners, Registered
  <2>6. OneDisabled'
    BY <1>15 DEF TriggerEther, OneDisabled, EtherTypeOK
  <2> QED
    BY <2>1, <2>2, <2>3, <2>4, <2>5, <2>6
<1>16. ASSUME NEW p \in Packets, EtherIRQ(p) PROVE EtherIndInv'
  <2>1. EtherTypeOK'
    BY <1>16 DEF EtherIRQ, Wants, EtherTypeOK
  <2>2. Bound'
    BY <1>16 DEF EtherIRQ, Wants, EtherTypeOK, Bound, Registered, Basic8022, NothingAsked
  <2>3. Answers'
    BY <1>16 DEF EtherIRQ, Wants, EtherTypeOK, Bound, Answers, NothingAsked, Basic8022
  <2>4. Flushed'
    BY <1>16 DEF EtherIRQ, Wants, EtherTypeOK, Flushed
  <2>5. Listened'
    BY <1>16 DEF EtherIRQ, Wants, EtherTypeOK, Listened, Listeners, Registered
  <2>6. OneDisabled'
    BY <1>16 DEF EtherIRQ, OneDisabled, EtherTypeOK
  <2> QED
    BY <2>1, <2>2, <2>3, <2>4, <2>5, <2>6
<1>17. ASSUME NEW s \in Streams, SubsUnbindAll(s) PROVE EtherIndInv'
  <2>1. EtherTypeOK'
    <3>1. snapStream' \in [Streams -> BOOLEAN] /\ snap' \in [Streams -> Snaps \cup {NoSnap}]
      BY <1>17 DEF SubsUnbindAll, EtherTypeOK
    <3>2. asked' \in [Streams -> Answer]
      <4>1. asked \in [Streams -> Answer]
        BY DEF EtherTypeOK, Answer
      <4>2. [asked[s] EXCEPT !.all = FALSE] \in Answer
        BY <4>1 DEF Answer
      <4> QED
        BY <1>17, <4>1, <4>2 DEF SubsUnbindAll
    <3>3. leftover' \in [Streams -> SUBSET {"all", "group", "snap"}]
      BY <1>17 DEF SubsUnbindAll, EtherTypeOK
    <3> QED
      BY <1>17, <3>1, <3>2, <3>3 DEF SubsUnbindAll, Answer, EtherTypeOK
  <2>2. Bound'
    BY <1>17 DEF SubsUnbindAll, EtherTypeOK, Bound, Registered, Basic8022, NothingAsked
  <2>3. Answers'
    BY <1>17 DEF SubsUnbindAll, EtherTypeOK, Bound, Answers, NothingAsked, Basic8022
  <2>4. Flushed'
    BY <1>17 DEF SubsUnbindAll, Flushed
  <2>5. Listened'
    BY <1>17 DEF SubsUnbindAll, EtherTypeOK, Listened, Listeners, Registered
  <2>6. OneDisabled'
    BY <1>17 DEF SubsUnbindAll, OneDisabled
  <2> QED
    BY <2>1, <2>2, <2>3, <2>4, <2>5, <2>6
<1>18. ASSUME NEW s \in Streams, NEW a \in Multicasts,
              MultiDisabled(s, a)
       PROVE  EtherIndInv'
  <2>1. EtherTypeOK'
    <3>1. hostMulti[a] \in 1 .. MaxMulti
      <4>1. s \in Listeners(a) /\ Listeners(a) \subseteq Streams
        BY <1>18 DEF MultiDisabled, Listeners, Registered
      <4>2. Cardinality(Listeners(a)) \in Nat /\ Cardinality(Listeners(a)) >= 1
        BY <4>1, ListenerCount
      <4> QED
        BY <4>2, EtherAssumption DEF Listened, EtherTypeOK
    <3>2. hostMulti' \in [Multicasts -> 0 .. MaxMulti]
      BY <1>18, <3>1, EtherAssumption DEF MultiDisabled, EtherTypeOK
    <3>3. disabling' \in [Streams -> SUBSET Multicasts]
      BY <1>18 DEF MultiDisabled, EtherTypeOK
    <3>4. acceptMulti' \in [Streams -> BOOLEAN]
      BY <1>18 DEF MultiDisabled, EtherTypeOK
    <3> QED
      BY <1>18, <3>1, <3>2, <3>3, <3>4 DEF MultiDisabled, EtherTypeOK
  <2>2. Bound'
    <3>1. UNCHANGED <<dlpi_state, dlsap, asked, group_sap>>
      BY <1>18 DEF MultiDisabled
    <3>2. \A r \in Streams : acceptMulti'[r] <=> Registered(r)' # {}
      <4>1. CASE disabling[s] = {a}
        <5>1. /\ Registered(s)' = multicast_list[s]
              /\ \A r \in Streams \ {s} : Registered(r)' = Registered(r)
          BY <1>18, <4>1 DEF MultiDisabled, EtherTypeOK, Registered
        <5>2. /\ acceptMulti'[s] = (multicast_list[s] # {})
              /\ \A r \in Streams \ {s} : acceptMulti'[r] = acceptMulti[r]
          BY <1>18 DEF MultiDisabled, EtherTypeOK
        <5> QED
          BY <5>1, <5>2 DEF Bound
      <4> QED
        BY <1>18, <4>1 DEF MultiDisabled, OneDisabled
    <3> QED
      BY <3>1, <3>2 DEF Bound
  <2>3. Answers'
    BY <1>18 DEF MultiDisabled, EtherTypeOK, Bound, Answers, NothingAsked,
                 Basic8022
  <2>4. Flushed'
    BY <1>18 DEF MultiDisabled, EtherTypeOK, Flushed
  <2>5. Listened'
    <3> SUFFICES ASSUME NEW b \in Multicasts
                 PROVE  hostMulti'[b] >= Cardinality(Listeners(b)')
      BY DEF Listened
    <3>1. Listeners(b) \subseteq Streams /\ hostMulti[b] \in Int
          /\ hostMulti[b] >= Cardinality(Listeners(b))
      BY DEF Listeners, EtherTypeOK, Listened
    <3>2. Cardinality(Listeners(b)) \in Nat
      BY <3>1, ListenerCount
    <3>3. CASE b = a
      <4>1. Listeners(b)' = Listeners(b) \ {s} /\ s \in Listeners(b)
        BY <1>18, <3>3 DEF MultiDisabled, OneDisabled, Listeners, Registered, EtherTypeOK
      <4>2. hostMulti'[b] = hostMulti[b] - 1
        BY <1>18, <3>3 DEF MultiDisabled, EtherTypeOK
      <4>3. Cardinality(Listeners(b)') = Cardinality(Listeners(b)) - 1
        BY <3>1, <4>1, ListenerCount
      <4> QED
        BY <3>1, <3>2, <4>2, <4>3
    <3>4. CASE b # a
      <4>1. Listeners(b)' = Listeners(b) /\ hostMulti'[b] = hostMulti[b]
        BY <1>18, <3>4 DEF MultiDisabled, Listeners, Registered, EtherTypeOK
      <4> QED
        BY <3>1, <4>1
    <3> QED
      BY <3>3, <3>4
  <2>6. OneDisabled'
    BY <1>18 DEF MultiDisabled, OneDisabled, EtherTypeOK
  <2> QED
    BY <2>1, <2>2, <2>3, <2>4, <2>5, <2>6
<1>19. CASE UNCHANGED etherVars
  <2>1. EtherTypeOK'
    BY <1>19 DEF EtherTypeOK
  <2>2. Bound'
    BY <1>19 DEF EtherTypeOK, Bound, Registered, Basic8022, NothingAsked
  <2>3. Answers'
    BY <1>19 DEF EtherTypeOK, Bound, Answers, NothingAsked, Basic8022
  <2>4. Flushed'
    BY <1>19 DEF EtherTypeOK, Flushed
  <2>5. Listened'
    BY <1>19 DEF EtherTypeOK, Listened, Listeners, Registered
  <2>6. OneDisabled'
    BY <1>19 DEF OneDisabled, EtherTypeOK
  <2> QED
    BY <2>1, <2>2, <2>3, <2>4, <2>5, <2>6
<1> QED
  BY <1>1, <1>2, <1>3, <1>4, <1>5, <1>6, <1>7, <1>8, <1>9, <1>10, <1>11, <1>12, <1>13, 
     <1>14, <1>15, <1>16, <1>17, <1>18, <1>19
     DEF EtherNext, WPut

\* The inductive invariant holds in every state that the driver reaches.
THEOREM EtherInvariance == EtherSpec => []EtherIndInv
<1> QED
  BY InitEtherInv, StepEtherInv, PTL DEF EtherSpec

\* Every variable keeps its type; in particular the host never disables a multicast
\* address more often than it was enabled.
THEOREM EtherTypeCorrect == EtherSpec => []EtherTypeOK
<1>1. EtherIndInv => EtherTypeOK
  BY DEF EtherIndInv
<1> QED
  BY <1>1, EtherInvariance, PTL

\* A stream gets exactly the packets its client was told it gets.
THEOREM PacketsDeliveredAsAsked == EtherSpec => []DeliveredAsAsked
<1>1. ASSUME EtherIndInv PROVE DeliveredAsAsked
  <2> USE <1>1 DEF EtherIndInv
  <2> DEFINE streams == dlpi_stream_list \cap opened
  <2>1. ASSUME NEW s \in Streams, NEW p \in Packets, Asked(s, p), "snap" \notin leftover[s],
               p.to \notin disabling[s]
        PROVE  Wants(s, p)
    <3>1. dlpi_state[s] # "unbound"
      BY <2>1 DEF Asked
    <3>2. p.to \in Multicasts /\ acceptMulti[s] => p.to \in multicast_list[s]
      BY <2>1 DEF Asked, Bound, Registered
    <3>3. CASE p.dsap = dlsap[s] /\ asked[s].snap \in {NoSnap, p.snap}
      <4>1. snapStream[s] => p.snap = snap[s]
        BY <2>1, <3>3, EtherAssumption DEF Asked, Answers
      <4> QED
        BY <3>1, <3>2, <3>3, <4>1 DEF Wants
    <3>4. CASE asked[s].all /\ Is8022(p.dsap)
      BY <3>1, <3>2, <3>4 DEF Wants, Answers
    <3>5. CASE ~p.ipx /\ dlsap[s] \in Basic8022 /\ p.dsap \in asked[s].groups \cup {"FF"}
      <4>1. p.dsap \in group_sap[s]
        BY <2>1, <3>5 DEF Asked, Bound, Answers
      <4>2. p.dsap # dlsap[s]
        BY <3>5, EtherAssumption DEF Basic8022, EtherTypeOK
      <4> QED
        BY <3>1, <3>2, <3>5, <4>1, <4>2 DEF Wants
    <3> QED
      BY <2>1, <3>3, <3>4, <3>5 DEF Asked
  <2>2. ASSUME NEW s \in Streams, NEW p \in Packets, Wants(s, p), leftover[s] = {}
        PROVE  Asked(s, p)
    <3>1. dlpi_state[s] = "idle"
      BY <2>2 DEF Wants, EtherTypeOK
    <3>2. p.to \in Multicasts => Registered(s) = {} \/ p.to \in Registered(s)
      BY <2>2 DEF Wants, Bound, Registered
    <3>3. CASE acceptAll[s] /\ Is8022(p.dsap)
      BY <2>2, <3>1, <3>2, <3>3 DEF Asked, Answers
    <3>4. CASE p.dsap = dlsap[s] /\ (snapStream[s] => p.snap = snap[s])
      <4>1. asked[s].snap \in {NoSnap, p.snap}
        BY <2>2, <3>1, <3>4 DEF Answers
      <4> QED
        BY <3>1, <3>2, <3>4, <4>1 DEF Asked
    <3>5. CASE p.dsap # dlsap[s] /\ ~p.ipx /\ p.dsap \in group_sap[s]
      <4>1. dlsap[s] \in Basic8022 /\ p.dsap \in asked[s].groups \cup {"FF"}
        BY <2>2, <3>1, <3>5 DEF Bound, Answers
      <4> QED
        BY <3>1, <3>2, <3>5, <4>1 DEF Asked
    <3> QED
      BY <2>2, <3>3, <3>4, <3>5 DEF Wants
  <2>3. ASSUME NEW a \in Multicasts
        PROVE  hostMulti[a] >= Cardinality({s \in streams : a \in Registered(s)})
    <3> DEFINE here == {s \in streams : a \in Registered(s)}
    <3>1. here \subseteq Listeners(a) /\ Listeners(a) \subseteq Streams /\ here \subseteq Streams
      BY DEF Listeners, EtherTypeOK
    <3>2. hostMulti[a] \in Int /\ hostMulti[a] >= Cardinality(Listeners(a))
      BY DEF EtherTypeOK, Listened
    <3> HIDE DEF here
    <3>3. /\ Cardinality(here) <= Cardinality(Listeners(a))
          /\ Cardinality(here) \in Nat /\ Cardinality(Listeners(a)) \in Nat
      BY <3>1, ListenerCount
    <3>4. hostMulti[a] >= Cardinality(here)
      BY <3>2, <3>3
    <3> QED
      BY <3>4 DEF here
  <2>4. streams \subseteq Streams
    BY DEF EtherTypeOK
  <2> QED
    BY <2>1, <2>2, <2>3, <2>4 DEF DeliveredAsAsked, Flushed
<1> QED
  BY <1>1, EtherInvariance, PTL
=============================================================================
