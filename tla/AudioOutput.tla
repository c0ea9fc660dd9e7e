---------------------------- MODULE AudioOutput ----------------------------
(***************************************************************************)
(* Sound output (src/src/audio.cpp, src/src/SDL/audio_sdl.cpp).  SDL calls *)
(* Stream on a thread of its own; while sources are active it triggers an  *)
(* audio interrupt and waits until the emulation thread has got a block of *)
(* samples from the Mac's mixer.  The Mac opens, closes and resets the     *)
(* sound component, and closes and reopens the device to change its        *)
(* format, at any time.  The mixer and the Component Manager are external. *)
(*                                                                         *)
(* Emulation thread: mac; openmixer, closemixer, dispose (Mac code runs    *)
(* inside a Dispatch, and may take interrupts); reopen, exit (it waits in  *)
(* SDL_CloseAudio for Stream to return); ended.                            *)
(***************************************************************************)
EXTENDS Integers

CONSTANTS MaxOpen,       \* bound of the instances and of open_count
          MaxSources     \* bound of the sources

ASSUME AudioAssumption == MaxOpen \in Nat \ {0} /\ MaxSources \in Nat \ {0}

VARIABLES
  fAudioOpen,
  open_count, num_sources,
  audio_data,       \* the global data area is allocated
  adatMixer,        \* the mixer's address is in it
  adatStreamInfo,   \* in it too: no block, a block of the mixer, or of an old mixer
  mixer,            \* "none", "open", or the address of one that is "lost"
  instances,        \* the instances of the component the Mac has open
  macStarted,       \* HasMacStarted
  audioFlag,        \* INTFLAG_AUDIO is set and an interrupt was triggered
  irqDone,          \* audio_irq_done_sem
  dpc,              \* the emulation thread
  spc,              \* Stream: idle, wait (for the interrupt), read
  answer,           \* history: what the interrupt has answered the current Stream
  pulledAway,       \* history: the data area or the mixer went away under it
  stray             \* history: an address outlived what it pointed at

statusVars  == <<open_count, num_sources, audio_data, adatMixer, mixer, instances>>
streamVars  == <<audioFlag, irqDone, spc, adatStreamInfo>>
audioHistory == <<answer, pulledAway, stray>>
audioVars == <<fAudioOpen, statusVars, macStarted, streamVars, dpc, audioHistory>>

AudioTypeOK ==
  /\ fAudioOpen \in BOOLEAN
  /\ open_count \in 0 .. MaxOpen /\ instances \in 0 .. MaxOpen
  /\ num_sources \in -MaxSources .. MaxSources
  /\ audio_data \in BOOLEAN /\ adatMixer \in BOOLEAN
  /\ mixer \in {"none", "open", "lost"}
  /\ macStarted \in BOOLEAN
  /\ audioFlag \in BOOLEAN /\ irqDone \in {0, 1}
  /\ dpc \in {"mac", "openmixer", "closemixer", "dispose", "reopen", "exit", "ended"}
  /\ spc \in {"idle", "wait", "read"}
  /\ adatStreamInfo \in {"none", "block", "old"}
  /\ answer \in {"due", "none", "block"} /\ pulledAway \in BOOLEAN /\ stray \in BOOLEAN

\* InitAll has created the MacAudio, whose device is open or failed to open.
AudioInit ==
  /\ fAudioOpen \in BOOLEAN
  /\ open_count = 0 /\ instances = 0 /\ num_sources = 0
  /\ audio_data = FALSE /\ adatMixer = FALSE /\ mixer = "none"
  /\ macStarted = FALSE
  /\ audioFlag = FALSE /\ irqDone = 0
  /\ dpc = "mac" /\ spc = "idle"
  /\ adatStreamInfo = "none"
  /\ answer = "due" /\ pulledAway = FALSE /\ stray = FALSE

-----------------------------------------------------------------------------
\* Dispatch.  The Component Manager passes calls on for open instances only.

\* A new data area is cleared.
ComponentOpen ==
  /\ dpc = "mac"
  /\ instances < MaxOpen /\ open_count < MaxOpen
  /\ \/ /\ audio_data' = TRUE
        /\ open_count' = open_count + 1 /\ instances' = instances + 1
        /\ adatStreamInfo' = IF audio_data THEN adatStreamInfo ELSE "none"
     \/ /\ ~audio_data                                               \* memFullErr
        /\ UNCHANGED <<audio_data, open_count, instances, adatStreamInfo>>
  /\ UNCHANGED <<fAudioOpen, num_sources, adatMixer, mixer, macStarted, audioFlag, irqDone,
                 spc, dpc, audioHistory>>

\* The last instance: the mixer is closed and the rest left as it is; without a
\* mixer the data area is released.
ComponentClose ==
  /\ dpc = "mac"
  /\ instances > 0
  /\ instances' = instances - 1
  /\ open_count' = open_count - 1
  /\ \/ open_count > 1 /\ UNCHANGED <<num_sources, dpc>>
     \/ open_count = 1 /\ ~audio_data /\ num_sources' = 0 /\ UNCHANGED dpc
     \/ /\ open_count = 1 /\ audio_data
        /\ dpc' = IF mixer = "none" THEN "dispose" ELSE "closemixer"
        /\ UNCHANGED num_sources
  /\ UNCHANGED <<fAudioOpen, audio_data, adatMixer, mixer, macStarted, streamVars,
                 audioHistory>>

\* The block that the mixer has handed out goes with it.
MixerClosed ==
  /\ dpc = "closemixer"
  /\ mixer' = "none"
  /\ adatStreamInfo' = IF adatStreamInfo = "block" THEN "old" ELSE adatStreamInfo
  /\ pulledAway' = (pulledAway \/ answer = "block")
  /\ dpc' = "mac"
  /\ UNCHANGED <<fAudioOpen, open_count, num_sources, audio_data, adatMixer, instances,
                 macStarted, audioFlag, irqDone, spc, answer, stray>>

Disposed ==
  /\ dpc = "dispose"
  /\ audio_data' = FALSE /\ adatMixer' = FALSE /\ adatStreamInfo' = "none"
  /\ num_sources' = 0
  /\ pulledAway' = (spc # "idle")
  /\ dpc' = "mac"
  /\ UNCHANGED <<fAudioOpen, open_count, mixer, instances, macStarted, audioFlag, irqDone,
                 spc, answer, stray>>

\* Mutant: the device is initialised although it has a mixer.
InitAgain ==
  /\ dpc = "mac"
  /\ instances > 0
  /\ fAudioOpen
  /\ adatStreamInfo' = "none"
  /\ dpc' = "openmixer"
  /\ UNCHANGED <<fAudioOpen, statusVars, macStarted, audioFlag, irqDone, spc, audioHistory>>

\* The data area is initialised, and the mixer opened for it.
InitOutputDevice ==
  /\ dpc = "mac"
  /\ instances > 0
  /\ fAudioOpen /\ mixer = "none"
  /\ adatStreamInfo' = "none"
  /\ dpc' = "openmixer"
  /\ UNCHANGED <<fAudioOpen, statusVars, macStarted, audioFlag, irqDone, spc, audioHistory>>

\* The result is read from the data area, also after a failure, where the
\* address of an earlier mixer may be left.
MixerOpened ==
  /\ dpc = "openmixer"
  /\ \/ mixer' = "open" /\ adatMixer' = TRUE /\ UNCHANGED stray
     \/ /\ mixer' = IF adatMixer THEN "lost" ELSE "none"
        /\ stray' = (stray \/ adatMixer)
        /\ UNCHANGED adatMixer
  /\ dpc' = "mac"
  /\ UNCHANGED <<fAudioOpen, open_count, num_sources, audio_data, instances, macStarted,
                 streamVars, answer, pulledAway>>

\* AddSource and RemoveSource count, and leave the rest to the mixer.
AddSource(n) ==
  /\ dpc = "mac"
  /\ instances > 0
  /\ num_sources' = num_sources + n
  /\ num_sources' \in -MaxSources .. MaxSources
  /\ UNCHANGED <<fAudioOpen, open_count, audio_data, adatMixer, mixer, instances, macStarted,
                 streamVars, dpc, audioHistory>>

\* SetInfo of another sample size, sample rate or number of channels: Close.
SetInfo ==
  /\ dpc = "mac"
  /\ instances > 0
  /\ num_sources = 0
  /\ dpc' = "reopen"
  /\ UNCHANGED <<fAudioOpen, statusVars, macStarted, streamVars, audioHistory>>

\* SDL_CloseAudio returns when Stream has; then Open.
DeviceReopened ==
  /\ dpc = "reopen"
  /\ spc = "idle"
  /\ fAudioOpen' \in BOOLEAN
  /\ dpc' = "mac"
  /\ UNCHANGED <<statusVars, macStarted, streamVars, audioHistory>>

\* OP_RESET, early in a restart of the Mac: the instances are gone.
AudioReset ==
  /\ dpc = "mac"
  /\ audio_data' = FALSE /\ adatMixer' = FALSE /\ adatStreamInfo' = "none"
  /\ instances' = 0
  /\ mixer' = IF mixer = "none" THEN "none" ELSE "lost"
  /\ stray' = (stray \/ mixer # "none" \/ num_sources # 0 \/ spc # "idle")
  /\ macStarted' \in {macStarted, FALSE}
  /\ UNCHANGED <<fAudioOpen, open_count, num_sources, audioFlag, irqDone, spc, dpc, answer,
                 pulledAway>>

MacStarts ==
  /\ dpc = "mac"
  /\ ~macStarted
  /\ macStarted' = TRUE
  /\ UNCHANGED <<fAudioOpen, statusVars, streamVars, dpc, audioHistory>>

\* delete gMacAudio: DeviceShutdown.
AudioQuit ==
  /\ dpc = "mac"
  /\ dpc' = "exit"
  /\ UNCHANGED <<fAudioOpen, statusVars, macStarted, streamVars, audioHistory>>

DeviceShutdown ==
  /\ dpc = "exit"
  /\ spc = "idle"
  /\ fAudioOpen' = FALSE
  /\ dpc' = "ended"
  /\ UNCHANGED <<statusVars, macStarted, streamVars, audioHistory>>

-----------------------------------------------------------------------------
\* Stream and the interrupt it waits for.

StreamCalled ==
  /\ spc = "idle"
  /\ fAudioOpen /\ dpc \notin {"reopen", "exit", "ended"}
  /\ num_sources # 0                  \* else it plays silence
  /\ audioFlag' = TRUE
  /\ spc' = "wait"
  /\ UNCHANGED <<fAudioOpen, statusVars, macStarted, irqDone, adatStreamInfo, dpc,
                 audioHistory>>

\* The block of the mixer, or none, is put into the data area.  Without one the
\* addresses are wild.
GetSourceData ==
  IF audio_data
  THEN \E block \in {"none", "block"} :
         /\ mixer = "none" => block = "none"
         /\ adatStreamInfo' = block /\ answer' = block
  ELSE UNCHANGED <<adatStreamInfo, answer>>

\* Mutant: without a mixer nobody is told.
InterruptOfMixer ==
  /\ dpc \in {"mac", "openmixer", "closemixer", "dispose"}
  /\ macStarted
  /\ audioFlag
  /\ audioFlag' = FALSE
  /\ GetSourceData
  /\ irqDone' = IF mixer = "none" THEN irqDone ELSE irqDone + 1
  /\ UNCHANGED <<fAudioOpen, statusVars, macStarted, dpc, spc, pulledAway, stray>>

\* OP_IRQ and AudioInterrupt.
AudioInterrupt ==
  /\ dpc \in {"mac", "openmixer", "closemixer", "dispose"}
  /\ macStarted
  /\ audioFlag
  /\ audioFlag' = FALSE
  /\ GetSourceData
  /\ irqDone' = irqDone + 1
  /\ UNCHANGED <<fAudioOpen, statusVars, macStarted, dpc, spc, pulledAway, stray>>

StreamAcked ==
  /\ spc = "wait"
  /\ irqDone > 0
  /\ irqDone' = irqDone - 1
  /\ spc' = "read"
  /\ UNCHANGED <<fAudioOpen, statusVars, macStarted, audioFlag, adatStreamInfo, dpc,
                 audioHistory>>

\* The block is read through audio_data and copied, or silence is played.
StreamReturns ==
  /\ spc = "read"
  /\ spc' = "idle"
  /\ answer' = "due" /\ pulledAway' = FALSE
  /\ UNCHANGED <<fAudioOpen, statusVars, macStarted, audioFlag, irqDone, adatStreamInfo, dpc,
                 stray>>

-----------------------------------------------------------------------------

MacCalls ==
  \/ ComponentOpen \/ ComponentClose \/ InitOutputDevice \/ SetInfo
  \/ \E n \in {-1, 1} : AddSource(n)
  \/ AudioReset \/ AudioQuit

EmulReturns == MixerClosed \/ Disposed \/ MixerOpened \/ DeviceReopened \/ DeviceShutdown

StreamThread == StreamAcked \/ StreamReturns

AudioNext ==
  MacCalls \/ EmulReturns \/ MacStarts \/ StreamCalled \/ AudioInterrupt \/ StreamThread

AudioSpec == AudioInit /\ [][AudioNext]_audioVars

\* Both threads run; a Mac that is reset starts and takes its interrupts before
\* the user resets it for ever.
AudioFairSpec ==
  /\ AudioSpec
  /\ WF_audioVars(EmulReturns) /\ WF_audioVars(StreamThread)
  /\ SF_audioVars(MacStarts) /\ SF_audioVars(AudioInterrupt)

-----------------------------------------------------------------------------
\* Properties.

\* When Stream reads the data area, the area exists and adatStreamInfo is what the
\* interrupt has put there for this call: no interrupt of another call, and no
\* InitOutputDevice, has come between.  The exceptions are the ones the code has:
\* the mixer whose block it is or the area is being released, or was while Stream
\* ran, or the Mac was reset in the middle of a sound, or a mixer that failed to
\* open left an old address.
BlockIsAnswer ==
  (spc = "read" /\ dpc \notin {"dispose", "closemixer"} /\ ~pulledAway /\ ~stray) =>
    (audio_data /\ adatStreamInfo = answer)

\* A device that is closed while its callback waits for the emulation thread.
CloseDeadlock == dpc \in {"reopen", "exit"} /\ spc = "wait" /\ audioFlag

\* Stream gets its answer and the emulation thread returns from SDL_CloseAudio,
\* unless each waits for the other; that is the only way either can hang.
SoundGoesOn ==
  (spc = "wait" \/ dpc \in {"reopen", "exit"}) ~>
    ((spc # "wait" /\ dpc \notin {"reopen", "exit"}) \/ CloseDeadlock)
=============================================================================
