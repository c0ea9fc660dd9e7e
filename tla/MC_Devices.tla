----------------------------- MODULE MC_Devices -----------------------------
(***************************************************************************)
(* The devices of the host, checked as a sum: a behaviour is one of        *)
(* AdbInput, Vosf, VideoThread, AudioOutput or EtherStreams, chosen at the *)
(* start.  They share no variable and meet only where a comment of theirs  *)
(* says so.                                                                *)
(***************************************************************************)
EXTENDS AdbInput, Vosf, VideoThread, AudioOutput, EtherStreams

VARIABLE part

deviceVars == <<adbVars, vosfVars, videoVars, audioVars, etherVars, part>>

MCPositions == {-1, 1}

\* Rows that are shorter and longer than a page, and share pages; the long one
\* fills several pages and is alone (Vosf!LosesOverlap).
MCGeometries == {[row |-> 2, lines |-> 4], [row |-> 7, lines |-> 1]}

\* A client that binds its stream to every kind of protocol.
MCProtocols == [s \in {"s1"} |-> {"DIX", "SAP", "AA", "FF"}]

DevicesInit ==
  /\ part \in {"keys", "mouse", "vosf", "video", "audio", "ether"}
  /\ AdbInit /\ VosfInit /\ VideoInit /\ AudioInit /\ EtherInit
  /\ part # "vosf" => geometry.lines = 1 /\ display_type = "window" /\ watched = 0
  /\ part # "video" => display = "window"
  /\ part # "audio" => fAudioOpen

\* A step A of one of the devices.  The user types, or moves the mouse, and in
\* both cases clicks.
AdbStep(A) ==
  /\ part \in {"keys", "mouse"}
  /\ A
  /\ part = "keys" => UNCHANGED fMouseCoord
  /\ part = "mouse" => UNCHANGED fKeyBuffer
  /\ UNCHANGED <<vosfVars, videoVars, audioVars, etherVars, part>>

VosfStep(A) ==
  part = "vosf" /\ A /\ UNCHANGED <<adbVars, videoVars, audioVars, etherVars, part>>

VideoStep(A) ==
  part = "video" /\ A /\ UNCHANGED <<adbVars, vosfVars, audioVars, etherVars, part>>

AudioStep(A) ==
  part = "audio" /\ A /\ UNCHANGED <<adbVars, vosfVars, videoVars, etherVars, part>>

EtherStep(A) ==
  part = "ether" /\ A /\ UNCHANGED <<adbVars, vosfVars, videoVars, audioVars, part>>

DevicesNext ==
  \/ AdbStep(AdbNext) \/ VosfStep(VosfNext) \/ VideoStep(VideoNext)
  \/ AudioStep(AudioNext) \/ EtherStep(EtherNext)

\* The fairness of the specifications that have one.  As a behaviour belongs to
\* one of them, a conjunct may take one action of each.
DevicesFairSpec ==
  /\ DevicesInit /\ [][DevicesNext]_deviceVars
  /\ WF_deviceVars(\/ AdbStep(InputThread) \/ VosfStep(UpdateDisplay)
                   \/ VideoStep(EmulWaits) \/ AudioStep(EmulReturns))
  /\ WF_deviceVars(\/ AdbStep(ServeAdb)
                   \/ VideoStep(RedrawThread) \/ AudioStep(StreamThread))
  /\ SF_deviceVars(\/ VosfStep(WriterWaits)
                   \/ VideoStep(EventsHandled /\ rpc' = "refresh") \/ AudioStep(MacStarts))
  /\ SF_deviceVars(\/ VosfStep(RetryWrite /\ wpc' = "run")
                   \/ VideoStep(EventsHandled /\ rpc' = "loop") \/ AudioStep(AudioInterrupt))

\* The variables of the devices keep their types: pointers stay inside the
\* key buffer, pages and lines inside the screen, and no semaphore or count
\* runs away, whatever the order of the steps.
DevicesTypeOK == AdbTypeOK /\ VosfTypeOK /\ VideoTypeOK /\ AudioTypeOK /\ EtherTypeOK
=============================================================================
