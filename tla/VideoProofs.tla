---------------------------- MODULE VideoProofs ----------------------------
(***************************************************************************)
(* Proofs about the video output, for screens of every size.               *)
(*                                                                         *)
(* VideoThread: the display is closed and opened only while the redraw     *)
(* thread is paused, and hidden by Ctrl-Tab only while the emulation       *)
(* thread stands in VideoVBL.                                              *)
(*                                                                         *)
(* Vosf: no change of the frame buffer is forgotten between the fault that *)
(* marks a page and the blit of its lines.                                 *)
(***************************************************************************)
EXTENDS VideoThread, Vosf, TLAPS

-----------------------------------------------------------------------------
(* The handshakes of VideoThread. *)


\* The acknowledgement and the request to resume are used once for each pause:
\* neither is left over for the next one.
Pausing ==
  /\ thread_stop_req => vpc = "await"
  /\ thread_stop_ack = 1 => vpc = "await" /\ rpc = "paused" /\ thread_resume_req = 0
  /\ vpc = "switch" => rpc = "paused" /\ thread_stop_ack = 0 /\ thread_resume_req = 0
  /\ thread_resume_req = 1 => rpc \in {"paused", "gone"}
  /\ redraw_thread_cancel => vpc \in {"join", "ended"}

\* The emulation thread has the frame buffer lock but in VideoVBL, where the
\* redraw thread may have it: it then has suspended the emulation.
Locks ==
  /\ frame_buffer_lock = "emul" <=> vpc \notin {"vbl", "ended"}
  /\ frame_buffer_lock = "redraw" <=> emul_suspended /\ rpc # "resumed"
  /\ rpc = "resumed" => emul_suspended
  /\ emul_suspended /\ rpc # "resumed" => vpc = "vbl"
  /\ vpc = "ended" => rpc = "gone"

VideoIndInv == VideoTypeOK /\ Pausing /\ Locks

-----------------------------------------------------------------------------

\* The invariant holds after VideoInit.
LEMMA InitVideoInv == VideoInit => VideoIndInv
<1> SUFFICES ASSUME VideoInit PROVE VideoIndInv
  OBVIOUS
<1>1. VideoTypeOK
  BY DEF VideoInit, VideoTypeOK
<1>2. Pausing
  BY DEF VideoInit, Pausing
<1>3. Locks
  BY DEF VideoInit, Locks
<1> QED
  BY <1>1, <1>2, <1>3 DEF VideoIndInv

\* Every step of the emulation thread and of the redraw thread keeps it.
LEMMA StepVideoInv == VideoIndInv /\ [VideoNext]_videoVars => VideoIndInv'
<1> SUFFICES ASSUME VideoIndInv, [VideoNext]_videoVars PROVE VideoIndInv'
  OBVIOUS
<1> USE DEF VideoIndInv, pauseVars, quitVars, videoVars
<1>1. CASE MacQuits
  <2>1. VideoTypeOK'
    BY <1>1 DEF MacQuits, QuitEmulator, VideoTypeOK, Pausing
  <2>2. Pausing'
    BY <1>1 DEF MacQuits, QuitEmulator, VideoTypeOK, Pausing, Locks
  <2>3. Locks'
    BY <1>1 DEF MacQuits, QuitEmulator, VideoTypeOK, Pausing, Locks
  <2> QED
    BY <2>1, <2>2, <2>3
<1>2. CASE VideoVBL
  <2>1. VideoTypeOK'
    BY <1>2 DEF VideoVBL, QuitEmulator, VideoTypeOK, Pausing
  <2>2. Pausing'
    BY <1>2 DEF VideoVBL, QuitEmulator, VideoTypeOK, Pausing, Locks
  <2>3. Locks'
    BY <1>2 DEF VideoVBL, QuitEmulator, VideoTypeOK, Pausing, Locks
  <2> QED
    BY <2>1, <2>2, <2>3
<1>3. CASE video_mode_change
  <2>1. VideoTypeOK'
    BY <1>3 DEF video_mode_change, VideoTypeOK, Pausing
  <2>2. Pausing'
    BY <1>3 DEF video_mode_change, VideoTypeOK, Pausing, Locks
  <2>3. Locks'
    BY <1>3 DEF video_mode_change, VideoTypeOK, Pausing, Locks
  <2> QED
    BY <2>1, <2>2, <2>3
<1>4. CASE FatalError
  <2>1. VideoTypeOK'
    BY <1>4 DEF FatalError, VideoTypeOK, Pausing
  <2>2. Pausing'
    BY <1>4 DEF FatalError, VideoTypeOK, Pausing, Locks
  <2>3. Locks'
    BY <1>4 DEF FatalError, VideoTypeOK, Pausing, Locks
  <2> QED
    BY <2>1, <2>2, <2>3
<1>5. CASE VBLLocks
  <2>1. VideoTypeOK'
    BY <1>5 DEF VBLLocks, VideoTypeOK, Pausing
  <2>2. Pausing'
    BY <1>5 DEF VBLLocks, VideoTypeOK, Pausing, Locks
  <2>3. Locks'
    BY <1>5 DEF VBLLocks, VideoTypeOK, Pausing, Locks
  <2> QED
    BY <2>1, <2>2, <2>3
<1>6. CASE RedrawPaused
  <2>1. VideoTypeOK'
    <3>1. thread_stop_ack = 1
      BY <1>6 DEF RedrawPaused, VideoTypeOK
    <3>2. thread_stop_ack' = 0
      BY <1>6, <3>1 DEF RedrawPaused
    <3> QED
      BY <1>6, <3>2 DEF RedrawPaused, VideoTypeOK
  <2>2. Pausing'
    BY <1>6 DEF RedrawPaused, VideoTypeOK, Pausing, Locks
  <2>3. Locks'
    BY <1>6 DEF RedrawPaused, VideoTypeOK, Pausing, Locks
  <2> QED
    BY <2>1, <2>2, <2>3
<1>7. ASSUME NEW type \in {"window", "screen"}, DisplayOpened(type) PROVE VideoIndInv'
  <2>1. VideoTypeOK'
    BY <1>7 DEF DisplayOpened, VideoTypeOK, Pausing
  <2>2. Pausing'
    BY <1>7 DEF DisplayOpened, VideoTypeOK, Pausing, Locks
  <2>3. Locks'
    BY <1>7 DEF DisplayOpened, VideoTypeOK, Pausing, Locks
  <2> QED
    BY <2>1, <2>2, <2>3
<1>8. ASSUME NEW type \in {"window", "screen"}, DisplayFails(type) PROVE VideoIndInv'
  <2>1. VideoTypeOK'
    BY <1>8 DEF DisplayFails, QuitEmulator, VideoTypeOK, Pausing
  <2>2. Pausing'
    BY <1>8 DEF DisplayFails, QuitEmulator, VideoTypeOK, Pausing, Locks
  <2>3. Locks'
    BY <1>8 DEF DisplayFails, QuitEmulator, VideoTypeOK, Pausing, Locks
  <2> QED
    BY <2>1, <2>2, <2>3
<1>9. CASE FullScreenLeft
  <2>1. VideoTypeOK'
    BY <1>9 DEF FullScreenLeft, QuitEmulator, VideoTypeOK, Pausing
  <2>2. Pausing'
    BY <1>9 DEF FullScreenLeft, QuitEmulator, VideoTypeOK, Pausing, Locks
  <2>3. Locks'
    BY <1>9 DEF FullScreenLeft, QuitEmulator, VideoTypeOK, Pausing, Locks
  <2> QED
    BY <2>1, <2>2, <2>3
<1>10. CASE VideoExit
  <2>1. VideoTypeOK'
    BY <1>10 DEF VideoExit, VideoTypeOK, Pausing
  <2>2. Pausing'
    BY <1>10 DEF VideoExit, VideoTypeOK, Pausing, Locks
  <2>3. Locks'
    BY <1>10 DEF VideoExit, VideoTypeOK, Pausing, Locks
  <2> QED
    BY <2>1, <2>2, <2>3
<1>11. CASE RedrawLoop
  <2>1. VideoTypeOK'
    BY <1>11 DEF RedrawLoop, VideoTypeOK, Pausing
  <2>2. Pausing'
    BY <1>11 DEF RedrawLoop, VideoTypeOK, Pausing, Locks
  <2>3. Locks'
    BY <1>11 DEF RedrawLoop, VideoTypeOK, Pausing, Locks
  <2> QED
    BY <2>1, <2>2, <2>3
<1>12. CASE RedrawResumed
  <2>1. VideoTypeOK'
    BY <1>12 DEF RedrawResumed, VideoTypeOK, Pausing
  <2>2. Pausing'
    BY <1>12 DEF RedrawResumed, VideoTypeOK, Pausing, Locks
  <2>3. Locks'
    BY <1>12 DEF RedrawResumed, VideoTypeOK, Pausing, Locks
  <2> QED
    BY <2>1, <2>2, <2>3
<1>13. CASE RedrawCancelled
  <2>1. VideoTypeOK'
    BY <1>13 DEF RedrawCancelled, VideoTypeOK, Pausing
  <2>2. Pausing'
    BY <1>13 DEF RedrawCancelled, VideoTypeOK, Pausing, Locks
  <2>3. Locks'
    BY <1>13 DEF RedrawCancelled, VideoTypeOK, Pausing, Locks
  <2> QED
    BY <2>1, <2>2, <2>3
<1>14. CASE Refresh
  <2>1. VideoTypeOK'
    BY <1>14 DEF Refresh, VideoTypeOK, Pausing
  <2>2. Pausing'
    BY <1>14 DEF Refresh, VideoTypeOK, Pausing, Locks
  <2>3. Locks'
    BY <1>14 DEF Refresh, VideoTypeOK, Pausing, Locks
  <2> QED
    BY <2>1, <2>2, <2>3
<1>15. CASE EventsHandled
  <2>1. VideoTypeOK'
    BY <1>15 DEF EventsHandled, VideoTypeOK, Pausing
  <2>2. Pausing'
    BY <1>15 DEF EventsHandled, VideoTypeOK, Pausing, Locks
  <2>3. Locks'
    BY <1>15 DEF EventsHandled, VideoTypeOK, Pausing, Locks
  <2> QED
    BY <2>1, <2>2, <2>3
<1>16. CASE suspend_emul
  <2>1. VideoTypeOK'
    BY <1>16 DEF suspend_emul, VideoTypeOK, Pausing
  <2>2. Pausing'
    BY <1>16 DEF suspend_emul, VideoTypeOK, Pausing, Locks
  <2>3. Locks'
    BY <1>16 DEF suspend_emul, VideoTypeOK, Pausing, Locks
  <2> QED
    BY <2>1, <2>2, <2>3
<1>17. CASE CtrlTab
  <2>1. VideoTypeOK'
    BY <1>17 DEF CtrlTab, VideoTypeOK, Pausing
  <2>2. Pausing'
    BY <1>17 DEF CtrlTab, VideoTypeOK, Pausing, Locks
  <2>3. Locks'
    BY <1>17 DEF CtrlTab, VideoTypeOK, Pausing, Locks
  <2> QED
    BY <2>1, <2>2, <2>3
<1>18. CASE CtrlEsc
  <2>1. VideoTypeOK'
    BY <1>18 DEF CtrlEsc, VideoTypeOK, Pausing
  <2>2. Pausing'
    BY <1>18 DEF CtrlEsc, VideoTypeOK, Pausing, Locks
  <2>3. Locks'
    BY <1>18 DEF CtrlEsc, VideoTypeOK, Pausing, Locks
  <2> QED
    BY <2>1, <2>2, <2>3
<1>19. CASE resume_emul
  <2>1. VideoTypeOK'
    BY <1>19 DEF resume_emul, VideoTypeOK, Pausing
  <2>2. Pausing'
    BY <1>19 DEF resume_emul, VideoTypeOK, Pausing, Locks
  <2>3. Locks'
    BY <1>19 DEF resume_emul, VideoTypeOK, Pausing, Locks
  <2> QED
    BY <2>1, <2>2, <2>3
<1>20. CASE EmulResumed
  <2>1. VideoTypeOK'
    BY <1>20 DEF EmulResumed, VideoTypeOK, Pausing
  <2>2. Pausing'
    BY <1>20 DEF EmulResumed, VideoTypeOK, Pausing, Locks
  <2>3. Locks'
    BY <1>20 DEF EmulResumed, VideoTypeOK, Pausing, Locks
  <2> QED
    BY <2>1, <2>2, <2>3
<1>21. CASE UNCHANGED videoVars
  <2>1. VideoTypeOK'
    BY <1>21 DEF VideoTypeOK, Pausing
  <2>2. Pausing'
    BY <1>21 DEF VideoTypeOK, Pausing, Locks
  <2>3. Locks'
    BY <1>21 DEF VideoTypeOK, Pausing, Locks
  <2> QED
    BY <2>1, <2>2, <2>3
<1> QED
  BY <1>1, <1>2, <1>3, <1>4, <1>5, <1>6, <1>7, <1>8, <1>9, <1>10,
     <1>11, <1>12, <1>13, <1>14, <1>15, <1>16, <1>17, <1>18, <1>19, <1>20, <1>21
     DEF VideoNext, EmulWaits, SwitchDisplay, RedrawThread, UserKeys

\* The inductive invariant holds in every state the two threads reach.
THEOREM VideoInvariance == VideoSpec => []VideoIndInv
<1> QED
  BY InitVideoInv, StepVideoInv, PTL DEF VideoSpec

\* Every variable keeps its type; in particular neither semaphore of the pause
\* is ever posted twice.
THEOREM VideoTypeCorrect == VideoSpec => []VideoTypeOK
<1>1. VideoIndInv => VideoTypeOK
  BY DEF VideoIndInv
<1> QED
  BY <1>1, VideoInvariance, PTL

\* The display belongs to one thread: video_mode_change closes and opens it only
\* while redraw_func waits for the request to resume, and suspend_emul hides it
\* only while the emulation thread stands between the unlock and the lock of
\* VideoVBL.
THEOREM DisplayHasOneOwner == VideoSpec => []OneOwnerOfDisplay
<1>1. VideoIndInv => OneOwnerOfDisplay
  BY DEF VideoIndInv, Pausing, Locks, OneOwnerOfDisplay
<1> QED
  BY <1>1, VideoInvariance, PTL

-----------------------------------------------------------------------------
(* The deadlocks of the two threads. *)

\* The emulation thread, and the redraw thread, can take a step.
EmulRuns ==
  \/ vpc \in {"run", "switch"}
  \/ vpc = "vbl" /\ frame_buffer_lock = "none"
  \/ vpc = "await" /\ thread_stop_ack > 0
  \/ vpc = "alert" /\ quit_full_screen_ack
  \/ vpc = "join" /\ rpc = "gone"

RedrawRuns ==
  \/ rpc \in {"loop", "events", "resumed", "refresh"}
  \/ rpc = "paused" /\ (thread_resume_req > 0 \/ redraw_thread_cancel)
  \/ rpc = "suspending" /\ frame_buffer_lock = "none"

\* Why the redraw thread is paused, and what its end and a suspension leave behind.
Waiting ==
  /\ rpc = "paused" => \/ thread_stop_ack = 1 \/ thread_resume_req = 1
                       \/ vpc \in {"switch", "alert", "join"}
  /\ vpc = "join" => redraw_thread_cancel
  /\ quit_full_screen_ack => rpc = "gone"
  /\ emul_suspended => rpc # "suspending"

\* Every step keeps it.
LEMMA StepWaiting == VideoIndInv /\ Waiting /\ [VideoNext]_videoVars => Waiting'
<1> SUFFICES ASSUME VideoIndInv, Waiting, [VideoNext]_videoVars PROVE Waiting'
  OBVIOUS
<1> USE DEF VideoIndInv, VideoTypeOK, Pausing, Locks, Waiting, pauseVars, quitVars, videoVars
<1>1. CASE MacQuits
  BY <1>1 DEF MacQuits, QuitEmulator
<1>2. CASE VideoVBL
  BY <1>2 DEF VideoVBL, QuitEmulator
<1>3. CASE video_mode_change
  BY <1>3 DEF video_mode_change
<1>4. CASE FatalError
  BY <1>4 DEF FatalError
<1>5. CASE VBLLocks
  BY <1>5 DEF VBLLocks
<1>6. CASE RedrawPaused
  BY <1>6 DEF RedrawPaused
<1>7. CASE FullScreenLeft
  BY <1>7 DEF FullScreenLeft, QuitEmulator
<1>8. CASE VideoExit
  BY <1>8 DEF VideoExit
<1>9. CASE RedrawLoop
  BY <1>9 DEF RedrawLoop
<1>10. CASE RedrawResumed
  BY <1>10 DEF RedrawResumed
<1>11. CASE RedrawCancelled
  BY <1>11 DEF RedrawCancelled
<1>12. CASE Refresh
  BY <1>12 DEF Refresh
<1>13. CASE EventsHandled
  BY <1>13 DEF EventsHandled
<1>14. CASE suspend_emul
  BY <1>14 DEF suspend_emul
<1>15. CASE CtrlTab
  BY <1>15 DEF CtrlTab
<1>16. CASE CtrlEsc
  BY <1>16 DEF CtrlEsc
<1>17. CASE resume_emul
  BY <1>17 DEF resume_emul
<1>18. ASSUME NEW type \in {"window", "screen"}, DisplayOpened(type) PROVE Waiting'
  BY <1>18 DEF DisplayOpened
<1>19. ASSUME NEW type \in {"window", "screen"}, DisplayFails(type) PROVE Waiting'
  BY <1>19 DEF DisplayFails, QuitEmulator
<1>20. CASE EmulResumed
  BY <1>20 DEF EmulResumed
<1>21. CASE UNCHANGED videoVars
  BY <1>21
<1> QED
  BY <1>1, <1>2, <1>3, <1>4, <1>5, <1>6, <1>7, <1>8, <1>9, <1>10,
     <1>11, <1>12, <1>13, <1>14, <1>15, <1>16, <1>17, <1>18, <1>19, <1>20, <1>21
     DEF VideoNext, EmulWaits, SwitchDisplay, RedrawThread, UserKeys

\* The deadlocks that Deadlocked names are the only ones: in every other state one of
\* the threads can take a step, until the emulator has ended.
THEOREM NoOtherDeadlock == VideoSpec => [](vpc = "ended" \/ EmulRuns \/ RedrawRuns \/ Deadlocked)
<1>1. VideoInit => Waiting
  BY DEF VideoInit, Waiting
<1>2. VideoIndInv /\ Waiting => vpc = "ended" \/ EmulRuns \/ RedrawRuns \/ Deadlocked
  BY DEF VideoIndInv, VideoTypeOK, Pausing, Locks, Waiting, EmulRuns, RedrawRuns, Deadlocked
<1> QED
  BY <1>1, <1>2, StepWaiting, VideoInvariance, PTL DEF VideoSpec

\* A deadlock is one: no step of any thread, and no key of the user, leaves it.
LEMMA StepDeadlocked ==
  VideoIndInv /\ Waiting /\ [VideoNext]_videoVars => (Deadlocked => Deadlocked')
<1> SUFFICES ASSUME VideoIndInv, Waiting, [VideoNext]_videoVars, Deadlocked PROVE Deadlocked'
  OBVIOUS
<1> USE DEF VideoIndInv, VideoTypeOK, Pausing, Locks, Waiting, Deadlocked, pauseVars, quitVars, videoVars
<1>1. CASE MacQuits
  BY <1>1 DEF MacQuits, QuitEmulator
<1>2. CASE VideoVBL
  BY <1>2 DEF VideoVBL, QuitEmulator
<1>3. CASE video_mode_change
  BY <1>3 DEF video_mode_change
<1>4. CASE FatalError
  BY <1>4 DEF FatalError
<1>5. CASE VBLLocks
  BY <1>5 DEF VBLLocks
<1>6. CASE RedrawPaused
  BY <1>6 DEF RedrawPaused
<1>7. CASE FullScreenLeft
  BY <1>7 DEF FullScreenLeft, QuitEmulator
<1>8. CASE VideoExit
  BY <1>8 DEF VideoExit
<1>9. CASE RedrawLoop
  BY <1>9 DEF RedrawLoop
<1>10. CASE RedrawResumed
  BY <1>10 DEF RedrawResumed
<1>11. CASE RedrawCancelled
  BY <1>11 DEF RedrawCancelled
<1>12. CASE Refresh
  BY <1>12 DEF Refresh
<1>13. CASE EventsHandled
  BY <1>13 DEF EventsHandled
<1>14. CASE suspend_emul
  BY <1>14 DEF suspend_emul
<1>15. CASE CtrlTab
  BY <1>15 DEF CtrlTab
<1>16. CASE CtrlEsc
  BY <1>16 DEF CtrlEsc
<1>17. CASE resume_emul
  BY <1>17 DEF resume_emul
<1>18. ASSUME NEW type \in {"window", "screen"}, DisplayOpened(type) PROVE Deadlocked'
  BY <1>18 DEF DisplayOpened
<1>19. ASSUME NEW type \in {"window", "screen"}, DisplayFails(type) PROVE Deadlocked'
  BY <1>19 DEF DisplayFails, QuitEmulator
<1>20. CASE EmulResumed
  BY <1>20 DEF EmulResumed
<1>21. CASE UNCHANGED videoVars
  BY <1>21
<1> QED
  BY <1>1, <1>2, <1>3, <1>4, <1>5, <1>6, <1>7, <1>8, <1>9, <1>10,
     <1>11, <1>12, <1>13, <1>14, <1>15, <1>16, <1>17, <1>18, <1>19, <1>20, <1>21
     DEF VideoNext, EmulWaits, SwitchDisplay, RedrawThread, UserKeys

\* The states of Deadlocked are deadlocks: once there, the emulation thread waits
\* for ever for its redraw thread, the end of the emulator included.
THEOREM DeadlocksLast == VideoSpec => [][Deadlocked => Deadlocked']_videoVars
<1>1. VideoInit => Waiting
  BY DEF VideoInit, Waiting
<1> QED
  BY <1>1, StepWaiting, StepDeadlocked, VideoInvariance, PTL DEF VideoSpec

-----------------------------------------------------------------------------
(* The inductive invariant of Vosf. *)

\* A write that faulted is one to the frame buffer.
Faulting == wpc \in {"fault", "retry"} => PageOf(waddr) \in Pages

\* The redraw thread in an update: nothing is marked behind it, the range it has
\* taken is not empty, and an update of the whole screen leaves nothing marked.
Updating ==
  /\ ~VosfLocked => first = 0 /\ page = 0 /\ last_scanline = -1
  /\ VosfLocked => \A p \in dirtyPages : p >= page
  /\ VosfLocked /\ display_type = "screen" => ~very_dirty
  /\ upc = "protect" => first < page
  /\ upc = "blit" => y2 < geometry.lines
  /\ full => /\ dirtyPages = {}
             /\ \/ upc = "protect" /\ first = 0 /\ page = pageCount
                \/ upc = "blit" /\ y2 = geometry.lines - 1

\* With rows no longer than a page, the line at which the last range ended is not
\* one of a page that comes after it.
Skipping ==
  display_type = "screen" /\ ~LosesOverlap /\ ~full /\ last_scanline # -1 =>
    IF upc = "protect"
    THEN last_scanline * geometry.row <= (first - 1) * PageSize
    ELSE last_scanline * geometry.row <= page * PageSize

\* A range of marked pages ends where the next page is not marked.
Ended == upc \in {"protect", "blit"} \/ last_scanline # -1 => page \notin dirtyPages

\* A byte of a full screen that is stale although the copy has it waits for new
\* colors, for which the whole screen is updated.
Colored ==
  display_type = "screen" /\ stale /\ copied =>
    \/ blank \/ very_dirty \/ wpc = "palette"
    \/ full /\ upc = "protect"
    \/ full /\ upc = "blit" /\ RowOf(watched) \in y .. y2

VosfIndInv == VosfTypeOK /\ Faulting /\ Updating /\ Skipping /\ Ended /\ Colored /\ NoUpdateLost

-----------------------------------------------------------------------------
(* Facts about quotients. *)

\* The quotient is the largest number that can be taken that often.
LEMMA Quotient ==
  ASSUME NEW a \in Nat, NEW b \in Nat, b >= 1
  PROVE  a \div b \in Nat /\ b * (a \div b) <= a /\ a < b * (a \div b) + b
  BY SMT

\* Products grow with their factors.
LEMMA Product ==
  ASSUME NEW b \in Nat, NEW p \in Int, NEW q \in Int, p <= q
  PROVE  b * p <= b * q
  BY SMT

\* A number below a product has a quotient below the factor, and conversely.
LEMMA QuotientBounds ==
  ASSUME NEW a \in Nat, NEW b \in Nat, b >= 1, NEW c \in Nat
  PROVE  /\ a < b * c => a \div b < c
         /\ b * c <= a => c <= a \div b
<1> DEFINE q == a \div b
<1>1. q \in Nat /\ b * q <= a /\ a < b * q + b
  BY Quotient
<1> HIDE DEF q
<1>2. ASSUME a < b * c, ~(q < c) PROVE FALSE
  <2>1. b * c <= b * q
    BY <1>1, <1>2, Product
  <2> QED
    BY <1>1, <1>2, <2>1
<1>3. ASSUME b * c <= a, ~(c <= q) PROVE FALSE
  <2>1. b * (q + 1) <= b * c
    BY <1>1, <1>3, Product
  <2>2. b * (q + 1) = b * q + b
    BY <1>1
  <2> QED
    BY <1>1, <1>3, <2>1, <2>2
<1> QED
  BY <1>2, <1>3 DEF q

-----------------------------------------------------------------------------
(* The pages and the lines of the screen. *)

\* The size of the screen, and the page and the line of the byte that is followed.
LEMMA ScreenFacts ==
  ASSUME VosfTypeOK
  PROVE  /\ PageSize \in Nat /\ PageSize >= 1
         /\ geometry.row \in Nat /\ geometry.row >= 1
         /\ geometry.lines \in Nat /\ geometry.lines >= 1
         /\ Bytes \in Nat /\ pageCount \in Nat /\ watched \in Nat
         /\ watched < geometry.row * geometry.lines /\ watched < Bytes
         /\ Bytes <= PageSize * pageCount
         /\ PageSize * pageCount < Bytes + PageSize
<1>1. PageSize \in Nat /\ PageSize >= 1
  BY VosfAssumption
<1>2. /\ geometry.row \in Nat /\ geometry.row >= 1
      /\ geometry.lines \in Nat /\ geometry.lines >= 1
  BY VosfAssumption DEF VosfTypeOK
<1>3. Bytes \in Nat /\ Bytes = geometry.row * geometry.lines
  BY <1>2 DEF Bytes
<1>4. watched \in Nat /\ watched < Bytes
  BY <1>3 DEF VosfTypeOK
<1>5. Bytes + PageSize - 1 \in Nat
  BY <1>1, <1>3
<1>6. /\ pageCount \in Nat
      /\ PageSize * pageCount <= Bytes + PageSize - 1
      /\ Bytes + PageSize - 1 < PageSize * pageCount + PageSize
  BY <1>1, <1>5, Quotient DEF pageCount
<1>7. PageSize * pageCount \in Nat
  BY <1>1, <1>6
<1> QED
  BY <1>1, <1>2, <1>3, <1>4, <1>6, <1>7

\* Every byte is in a page and in a line of the screen.
LEMMA WatchedFacts ==
  ASSUME VosfTypeOK
  PROVE  PageOf(watched) \in Pages /\ RowOf(watched) \in 0 .. geometry.lines - 1
<1>1. watched < PageSize * pageCount
  BY ScreenFacts
<1>2. PageOf(watched) \in Nat /\ PageOf(watched) < pageCount
  BY <1>1, ScreenFacts, Quotient, QuotientBounds DEF PageOf
<1>3. RowOf(watched) \in Nat /\ RowOf(watched) < geometry.lines
  BY ScreenFacts, Quotient, QuotientBounds DEF RowOf
<1> QED
  BY <1>2, <1>3, ScreenFacts DEF Pages

\* What the Mac writes to is in a page.
LEMMA WriteFacts ==
  ASSUME VosfTypeOK, NEW a \in {watched} \cup {p * PageSize : p \in Pages}
  PROVE  PageOf(a) \in Pages /\ a \in 0 .. pageCount * PageSize
<1>1. CASE a = watched
  <2>1. watched <= pageCount * PageSize
    BY ScreenFacts
  <2> QED
    BY <1>1, <2>1, ScreenFacts, WatchedFacts
<1>2. ASSUME NEW p \in Pages, a = p * PageSize
      PROVE  PageOf(a) \in Pages /\ a \in 0 .. pageCount * PageSize
  <2>1. p \in Nat /\ p <= pageCount - 1 /\ p + 1 \in Nat
    BY ScreenFacts DEF Pages
  <2>2. a \in Nat /\ a = PageSize * p
    BY <1>2, <2>1, ScreenFacts
  <2>3. PageSize * (p + 1) = PageSize * p + PageSize
    BY <2>1, ScreenFacts
  <2>4. a \div PageSize \in Nat /\ a \div PageSize < p + 1
    BY <2>1, <2>2, <2>3, ScreenFacts, Quotient, QuotientBounds
  <2>5. PageSize * p <= PageSize * pageCount
    BY <2>1, ScreenFacts, Product
  <2> QED
    BY <2>1, <2>2, <2>4, <2>5, ScreenFacts DEF PageOf, Pages
<1> QED
  BY <1>1, <1>2

\* The lines of a range of pages: they are on the screen, they are all that have
\* a byte in it, and they begin after the end of a range that is a page away.
LEMMA LineFacts ==
  ASSUME VosfTypeOK, first < page
  PROVE  /\ Top(first) \in Nat /\ Bottom(page - 1) \in Nat
         /\ Top(first) <= Bottom(page - 1) /\ Bottom(page - 1) < geometry.lines
         /\ Bottom(page - 1) * geometry.row <= page * PageSize
         /\ PageOf(watched) \in first .. page - 1 =>
              RowOf(watched) \in Top(first) .. Bottom(page - 1)
         /\ /\ geometry.row <= PageSize /\ last_scanline \in Nat
            /\ last_scanline * geometry.row <= (first - 1) * PageSize
            => last_scanline < Top(first)
<1> DEFINE row   == geometry.row
           lines == geometry.lines
           from  == first * PageSize
           to    == page * PageSize
<1>1. /\ first \in Nat /\ page \in Nat /\ first <= page - 1 /\ page <= pageCount
      /\ from \in Nat /\ to \in Nat
  BY ScreenFacts DEF VosfTypeOK
<1>2. row \in Nat /\ row >= 1 /\ lines \in Nat /\ lines >= 1 /\ PageSize \in Nat /\ PageSize >= 1
  BY ScreenFacts
<1>3. Top(first) = from \div row
  BY DEF Top
<1>4. Bottom(page - 1) = IF to \div row < lines THEN to \div row ELSE lines - 1
  <2>1. (page - 1) + 1 = page
    BY <1>1
  <2> QED
    BY <2>1 DEF Bottom
<1>5. from \div row \in Nat /\ row * (from \div row) <= from
  BY <1>1, <1>2, Quotient
<1>6. to \div row \in Nat /\ row * (to \div row) <= to /\ to < row * (to \div row) + row
  BY <1>1, <1>2, Quotient
<1>7. from + PageSize <= to
  <2>1. PageSize * first <= PageSize * (page - 1)
    BY <1>1, <1>2, Product
  <2>2. PageSize * (page - 1) = PageSize * page - PageSize
    BY <1>1, <1>2
  <2> QED
    BY <1>1, <1>2, <2>1, <2>2
<1>8. from < row * lines
  <2>1. PageSize * page <= PageSize * pageCount
    BY <1>1, <1>2, ScreenFacts, Product
  <2>2. from + PageSize < Bytes + PageSize
    BY <1>1, <1>2, <1>7, <2>1, ScreenFacts
  <2> QED
    BY <1>1, <1>2, <2>2, ScreenFacts DEF Bytes
<1>9. from \div row < lines
  BY <1>1, <1>2, <1>8, QuotientBounds
<1>10. from \div row <= to \div row
  BY <1>1, <1>2, <1>5, <1>7, QuotientBounds
<1>11. Bottom(page - 1) \in Nat /\ Bottom(page - 1) <= to \div row
  BY <1>2, <1>4, <1>6
<1>12. Bottom(page - 1) * row <= to
  <2>1. row * Bottom(page - 1) <= row * (to \div row)
    BY <1>2, <1>6, <1>11, Product
  <2> QED
    BY <1>1, <1>2, <1>6, <1>11, <2>1
<1>13. ASSUME PageOf(watched) \in first .. page - 1
       PROVE  RowOf(watched) \in Top(first) .. Bottom(page - 1)
  <2> DEFINE P == PageOf(watched)
             R == RowOf(watched)
  <2>1. P \in Nat /\ PageSize * P <= watched /\ watched < PageSize * P + PageSize
    BY <1>2, ScreenFacts, Quotient DEF PageOf
  <2>2. R \in Nat /\ row * R <= watched /\ watched < row * R + row /\ R < lines
    BY <1>2, ScreenFacts, Quotient, QuotientBounds DEF RowOf
  <2>3. first <= P /\ P + 1 <= page /\ P + 1 \in Nat
    BY <1>1, <1>13, <2>1
  <2> HIDE DEF P, R
  <2>4. from <= watched
    <3>1. PageSize * first <= PageSize * P
      BY <1>1, <1>2, <2>1, <2>3, Product
    <3> QED
      BY <1>1, <1>2, <2>1, <3>1, ScreenFacts
  <2>5. watched < to
    <3>1. PageSize * (P + 1) <= PageSize * page
      BY <1>1, <1>2, <2>3, Product
    <3>2. PageSize * (P + 1) = PageSize * P + PageSize
      BY <1>2, <2>1
    <3> QED
      BY <1>1, <1>2, <2>1, <3>1, <3>2, ScreenFacts
  <2>6. R = watched \div row
    BY DEF R, RowOf
  <2>7. row * (from \div row) <= watched
    BY <1>1, <1>2, <1>5, <2>4, ScreenFacts
  <2>8. from \div row <= R
    BY <1>2, <1>5, <2>6, <2>7, ScreenFacts, QuotientBounds
  <2>9. R <= to \div row
    <3>1. row * R <= to
      BY <1>1, <1>2, <2>2, <2>5, ScreenFacts
    <3> QED
      BY <1>1, <1>2, <2>2, <3>1, QuotientBounds
  <2> QED
    BY <1>2, <1>3, <1>4, <1>5, <1>6, <2>2, <2>8, <2>9 DEF R
<1>14. ASSUME row <= PageSize, last_scanline \in Nat, last_scanline * row <= (first - 1) * PageSize
       PROVE  last_scanline < Top(first)
  <2>1. row * (last_scanline + 1) = last_scanline * row + row
    BY <1>2, <1>14
  <2>2. (first - 1) * PageSize = from - PageSize
    BY <1>1, <1>2
  <2>3. row * (last_scanline + 1) <= from
    BY <1>1, <1>2, <1>14, <2>1, <2>2
  <2>4. last_scanline + 1 <= from \div row
    <3>1. last_scanline + 1 \in Nat
      BY <1>14
    <3> QED
      BY <1>1, <1>2, <2>3, <3>1, QuotientBounds
  <2> QED
    BY <1>3, <1>5, <1>14, <2>4
<1> QED
  BY <1>3, <1>4, <1>5, <1>9, <1>10, <1>11, <1>12, <1>13, <1>14, <1>2, <1>6

\* The lines ProtectPages sets out to blit: those of the range, as long as no row
\* is longer than a page, or the whole screen.
LEMMA RangeFacts ==
  ASSUME VosfIndInv, upc = "protect"
  PROVE  /\ RangeLines[1] \in Nat /\ RangeLines[2] \in Nat
         /\ full => RangeLines[1] = 0 /\ RangeLines[2] = geometry.lines - 1
         /\ ~full /\ ~LosesOverlap =>
              RangeLines[1] = Top(first) /\ RangeLines[2] = Bottom(page - 1)
<1> DEFINE skip(l) == IF display_type = "screen" /\ l <= last_scanline THEN l + 1 ELSE l
<1>1. /\ first < page /\ geometry.lines \in Nat /\ geometry.lines >= 1
      /\ last_scanline = -1 \/ last_scanline \in Nat
      /\ geometry.row \in Nat /\ PageSize \in Nat
  BY ScreenFacts DEF VosfIndInv, VosfTypeOK, Updating
<1>2. /\ Top(first) \in Nat /\ Bottom(page - 1) \in Nat /\ Top(first) <= Bottom(page - 1)
      /\ /\ geometry.row <= PageSize /\ last_scanline \in Nat
         /\ last_scanline * geometry.row <= (first - 1) * PageSize
         => last_scanline < Top(first)
  BY <1>1, LineFacts DEF VosfIndInv
<1>3. CASE full
  BY <1>1, <1>3 DEF RangeLines
<1>4. CASE ~full
  <2>1. RangeLines = <<skip(Top(first)), skip(Bottom(page - 1))>>
    BY <1>4 DEF RangeLines
  <2>2. skip(Top(first)) \in Nat /\ skip(Bottom(page - 1)) \in Nat
    BY <1>2
  <2>3. ASSUME ~LosesOverlap
        PROVE  skip(Top(first)) = Top(first) /\ skip(Bottom(page - 1)) = Bottom(page - 1)
    <3>1. CASE display_type # "screen"
      BY <3>1
    <3>2. CASE display_type = "screen"
      <4>1. geometry.row <= PageSize
        BY <1>1, <2>3, <3>2 DEF LosesOverlap
      <4>2. last_scanline # -1 => last_scanline * geometry.row <= (first - 1) * PageSize
        BY <1>4, <2>3, <3>2 DEF VosfIndInv, Skipping
      <4>3. last_scanline < Top(first)
        BY <1>1, <1>2, <4>1, <4>2
      <4> QED
        BY <1>1, <1>2, <4>3
    <3> QED
      BY <3>1, <3>2
  <2> QED
    BY <1>4, <2>1, <2>2, <2>3
<1> QED
  BY <1>3, <1>4

-----------------------------------------------------------------------------

\* The invariant holds after video_vosf_init.
LEMMA InitVosfInv == VosfInit => VosfIndInv
<1> SUFFICES ASSUME VosfInit PROVE VosfIndInv
  OBVIOUS
<1>1. /\ geometry.row \in Nat /\ geometry.row >= 1
      /\ geometry.lines \in Nat /\ geometry.lines >= 1 /\ PageSize \in Nat /\ PageSize >= 1
  BY VosfAssumption DEF VosfInit
<1>2. Bytes \in Nat
  BY <1>1 DEF Bytes
<1>3. pageCount \in Nat
  <2>1. Bytes + PageSize - 1 \in Nat
    BY <1>1, <1>2
  <2> QED
    BY <1>1, <2>1, Quotient DEF pageCount
<1>4. pageCount * PageSize \in Nat
  BY <1>1, <1>3
<1>5. VosfTypeOK
  <2>1. /\ waddr \in 0 .. pageCount * PageSize /\ first \in 0 .. pageCount
        /\ page \in 0 .. pageCount /\ y \in 0 .. geometry.lines /\ y2 \in 0 .. geometry.lines
        /\ last_scanline \in -1 .. geometry.lines
    BY <1>1, <1>3, <1>4 DEF VosfInit
  <2>2. /\ geometry \in Geometries /\ display_type \in {"window", "screen"}
        /\ watched \in 0 .. Bytes - 1 /\ dirtyPages \subseteq Pages /\ writable \subseteq Pages
        /\ wpc \in {"run", "fault", "retry", "palette"}
        /\ upc \in {"wait", "lock", "scan", "protect", "blit"}
    BY DEF VosfInit
  <2>3. /\ stale \in BOOLEAN /\ copied \in BOOLEAN /\ blank \in BOOLEAN
        /\ dirty \in BOOLEAN /\ very_dirty \in BOOLEAN /\ full \in BOOLEAN
    BY Zenon DEF VosfInit
  <2> QED
    BY <2>1, <2>2, <2>3 DEF VosfTypeOK
<1>6. Faulting /\ Updating /\ Skipping /\ Ended /\ Colored /\ NoUpdateLost
  BY DEF VosfInit, Faulting, Updating, VosfLocked, Skipping, Ended, Colored, NoUpdateLost
<1> QED
  BY <1>5, <1>6 DEF VosfIndInv

\* Every step of the emulation thread and of the redraw thread keeps it.
LEMMA StepVosfInv == VosfIndInv /\ [VosfNext]_vosfVars => VosfIndInv'
<1> SUFFICES ASSUME VosfIndInv, [VosfNext]_vosfVars PROVE VosfIndInv'
  OBVIOUS
<1> USE DEF VosfIndInv, bufferVars, shownVars, flagVars, writeVars, updateVars, vosfVars
<1>g. /\ PageOf(watched) \in Pages /\ RowOf(watched) \in 0 .. geometry.lines - 1
      /\ geometry.lines \in Nat /\ geometry.lines >= 1 /\ pageCount \in Nat /\ pageCount >= 1
      /\ geometry.row \in Nat /\ PageSize \in Nat /\ pageCount * PageSize \in Nat
      /\ Pages = 0 .. pageCount - 1
  BY ScreenFacts, WatchedFacts DEF Pages
<1>s. /\ geometry' = geometry /\ display_type' = display_type /\ watched' = watched
      /\ Bytes' = Bytes /\ pageCount' = pageCount /\ Pages' = Pages
      /\ RowOf(watched)' = RowOf(watched) /\ (LosesOverlap' <=> LosesOverlap)
  <2>1. geometry' = geometry /\ display_type' = display_type /\ watched' = watched
    BY DEF VosfNext, MacDraws, MacWrite, vosf_set_dirty_area, ChangeColors, WriterWaits,
       RetryWrite, Screen_fault_handler, RedrawColors, ForceRefresh, UpdateDisplay, RefreshDue,
       BeginUpdate, TakePages, ProtectPages, BlitLine, LinesDone, NoPageLeft
  <2> QED
    BY <2>1 DEF Bytes, pageCount, Pages, RowOf, LosesOverlap
<1>1. ASSUME NEW a \in {watched} \cup {p * PageSize : p \in Pages}, MacWrite(a)
      PROVE  VosfIndInv'
  <2>0. PageOf(a) \in Pages /\ a \in 0 .. pageCount * PageSize
    BY WriteFacts
  <2>1. VosfTypeOK'
    <3>1. /\ stale' \in BOOLEAN /\ copied' \in BOOLEAN /\ blank' \in BOOLEAN
          /\ dirty' \in BOOLEAN /\ very_dirty' \in BOOLEAN /\ full' \in BOOLEAN
      BY <1>1, Zenon DEF MacWrite, Write, VosfTypeOK
    <3>2. /\ first' \in 0 .. pageCount /\ page' \in 0 .. pageCount
          /\ y' \in 0 .. geometry.lines /\ y2' \in 0 .. geometry.lines
          /\ last_scanline' \in -1 .. geometry.lines
      BY <1>g, <1>1 DEF MacWrite, Write, VosfTypeOK
    <3>3. /\ waddr' \in 0 .. pageCount * PageSize /\ wpc' \in {"run", "fault", "retry", "palette"}
          /\ upc' \in {"wait", "lock", "scan", "protect", "blit"}
          /\ dirtyPages' \subseteq Pages /\ writable' \subseteq Pages
      BY <1>g, <1>1, <2>0 DEF MacWrite, Write, VosfTypeOK
    <3> QED
      BY <1>s, <3>1, <3>2, <3>3 DEF VosfTypeOK
  <2>2. Faulting'
    BY <1>s, <1>g, <1>1, <2>0 DEF MacWrite, Write, Faulting
  <2>3. Updating'
    BY <1>s, <1>g, <1>1, <2>0 DEF MacWrite, Write, Updating, VosfLocked
  <2>4. Skipping'
    BY <1>s, <1>g, <1>1, <2>0 DEF MacWrite, Write, Skipping, Updating, VosfLocked
  <2>5. Ended'
    BY <1>s, <1>g, <1>1, <2>0 DEF MacWrite, Write, Ended, Updating, VosfLocked
  <2>6. Colored'
    BY <1>s, <1>g, <1>1, <2>0 DEF MacWrite, Write, Colored, Updating, VosfLocked
  <2>7. NoUpdateLost'
    BY <1>s, <1>g, <1>1, <2>0 DEF MacWrite, Write, NoUpdateLost, Updating, VosfLocked,
                                  PageTaken, BlitComing
  <2> QED
    BY <2>1, <2>2, <2>3, <2>4, <2>5, <2>6, <2>7
<1>2. ASSUME NEW p1 \in Pages, NEW p2 \in Pages, vosf_set_dirty_area(p1, p2)
      PROVE  VosfIndInv'
  <2>1. VosfTypeOK'
    BY <1>s, <1>g, <1>2 DEF vosf_set_dirty_area, VosfTypeOK
  <2>2. Faulting'
    BY <1>s, <1>g, <1>2 DEF vosf_set_dirty_area, Faulting
  <2>3. Updating'
    BY <1>s, <1>g, <1>2 DEF vosf_set_dirty_area, Updating, VosfLocked
  <2>4. Skipping'
    BY <1>s, <1>g, <1>2 DEF vosf_set_dirty_area, Skipping, Updating, VosfLocked
  <2>5. Ended'
    BY <1>s, <1>g, <1>2 DEF vosf_set_dirty_area, Ended, Updating, VosfLocked
  <2>6. Colored'
    BY <1>s, <1>g, <1>2 DEF vosf_set_dirty_area, Colored, Updating, VosfLocked
  <2>7. NoUpdateLost'
    BY <1>s, <1>g, <1>2 DEF vosf_set_dirty_area, NoUpdateLost, Updating, VosfLocked,
                            PageTaken, BlitComing
  <2> QED
    BY <2>1, <2>2, <2>3, <2>4, <2>5, <2>6, <2>7
<1>3. CASE ChangeColors
  <2>1. VosfTypeOK'
    BY <1>s, <1>g, <1>3 DEF ChangeColors, VosfTypeOK
  <2>2. Faulting'
    BY <1>s, <1>g, <1>3 DEF ChangeColors, Faulting
  <2>3. Updating'
    BY <1>s, <1>g, <1>3 DEF ChangeColors, Updating, VosfLocked
  <2>4. Skipping'
    BY <1>s, <1>g, <1>3 DEF ChangeColors, Skipping, Updating, VosfLocked
  <2>5. Ended'
    BY <1>s, <1>g, <1>3 DEF ChangeColors, Ended, Updating, VosfLocked
  <2>6. Colored'
    BY <1>s, <1>g, <1>3 DEF ChangeColors, Colored, Updating, VosfLocked
  <2>7. NoUpdateLost'
    BY <1>s, <1>g, <1>3 DEF ChangeColors, NoUpdateLost, Updating, VosfLocked, PageTaken,
                            BlitComing
  <2> QED
    BY <2>1, <2>2, <2>3, <2>4, <2>5, <2>6, <2>7
<1>4. CASE RetryWrite
  <2>1. VosfTypeOK'
    <3>1. /\ stale' \in BOOLEAN /\ copied' \in BOOLEAN /\ blank' \in BOOLEAN
          /\ dirty' \in BOOLEAN /\ very_dirty' \in BOOLEAN /\ full' \in BOOLEAN
      BY <1>4, Zenon DEF RetryWrite, Write, VosfTypeOK
    <3>2. /\ first' \in 0 .. pageCount /\ page' \in 0 .. pageCount
          /\ y' \in 0 .. geometry.lines /\ y2' \in 0 .. geometry.lines
          /\ last_scanline' \in -1 .. geometry.lines
      BY <1>g, <1>4 DEF RetryWrite, Write, VosfTypeOK
    <3>3. /\ waddr' \in 0 .. pageCount * PageSize /\ wpc' \in {"run", "fault", "retry", "palette"}
          /\ upc' \in {"wait", "lock", "scan", "protect", "blit"}
          /\ dirtyPages' \subseteq Pages /\ writable' \subseteq Pages
      BY <1>g, <1>4 DEF RetryWrite, Write, VosfTypeOK
    <3> QED
      BY <1>s, <3>1, <3>2, <3>3 DEF VosfTypeOK
  <2>2. Faulting'
    BY <1>s, <1>g, <1>4 DEF RetryWrite, Write, Faulting
  <2>3. Updating'
    BY <1>s, <1>g, <1>4 DEF RetryWrite, Write, Updating, VosfLocked
  <2>4. Skipping'
    BY <1>s, <1>g, <1>4 DEF RetryWrite, Write, Skipping, Updating, VosfLocked
  <2>5. Ended'
    BY <1>s, <1>g, <1>4 DEF RetryWrite, Write, Ended, Updating, VosfLocked
  <2>6. Colored'
    BY <1>s, <1>g, <1>4 DEF RetryWrite, Write, Colored, Updating, VosfLocked
  <2>7. NoUpdateLost'
    BY <1>s, <1>g, <1>4 DEF RetryWrite, Write, NoUpdateLost, Updating, VosfLocked,
                            PageTaken, BlitComing
  <2> QED
    BY <2>1, <2>2, <2>3, <2>4, <2>5, <2>6, <2>7
<1>5. CASE Screen_fault_handler
  <2>1. VosfTypeOK'
    BY <1>s, <1>g, <1>5 DEF Screen_fault_handler, Faulting, VosfTypeOK
  <2>2. Faulting'
    BY <1>s, <1>g, <1>5 DEF Screen_fault_handler, Faulting, Faulting
  <2>3. Updating'
    BY <1>s, <1>g, <1>5 DEF Screen_fault_handler, Faulting, Updating, VosfLocked
  <2>4. Skipping'
    BY <1>s, <1>g, <1>5 DEF Screen_fault_handler, Faulting, Skipping, Updating, VosfLocked
  <2>5. Ended'
    BY <1>s, <1>g, <1>5 DEF Screen_fault_handler, Faulting, Ended, Updating, VosfLocked
  <2>6. Colored'
    BY <1>s, <1>g, <1>5 DEF Screen_fault_handler, Faulting, Colored, Updating, VosfLocked
  <2>7. NoUpdateLost'
    BY <1>s, <1>g, <1>5 DEF Screen_fault_handler, Faulting, NoUpdateLost, Updating,
                            VosfLocked, PageTaken, BlitComing
  <2> QED
    BY <2>1, <2>2, <2>3, <2>4, <2>5, <2>6, <2>7
<1>6. CASE RedrawColors
  <2>1. VosfTypeOK'
    BY <1>s, <1>g, <1>6 DEF RedrawColors, VosfTypeOK
  <2>2. Faulting'
    BY <1>s, <1>g, <1>6 DEF RedrawColors, Faulting
  <2>3. Updating'
    BY <1>s, <1>g, <1>6 DEF RedrawColors, Updating, VosfLocked
  <2>4. Skipping'
    BY <1>s, <1>g, <1>6 DEF RedrawColors, Skipping, Updating, VosfLocked
  <2>5. Ended'
    BY <1>s, <1>g, <1>6 DEF RedrawColors, Ended, Updating, VosfLocked
  <2>6. Colored'
    BY <1>s, <1>g, <1>6 DEF RedrawColors, Colored, Updating, VosfLocked
  <2>7. NoUpdateLost'
    BY <1>s, <1>g, <1>6 DEF RedrawColors, NoUpdateLost, Updating, VosfLocked, PageTaken,
                            BlitComing
  <2> QED
    BY <2>1, <2>2, <2>3, <2>4, <2>5, <2>6, <2>7
<1>7. ASSUME NEW black \in BOOLEAN, ForceRefresh(black) PROVE VosfIndInv'
  <2>1. VosfTypeOK'
    BY <1>s, <1>g, <1>7 DEF ForceRefresh, VosfTypeOK
  <2>2. Faulting'
    BY <1>s, <1>g, <1>7 DEF ForceRefresh, Faulting
  <2>3. Updating'
    BY <1>s, <1>g, <1>7 DEF ForceRefresh, Updating, VosfLocked
  <2>4. Skipping'
    BY <1>s, <1>g, <1>7 DEF ForceRefresh, Skipping, Updating, VosfLocked
  <2>5. Ended'
    BY <1>s, <1>g, <1>7 DEF ForceRefresh, Ended, Updating, VosfLocked
  <2>6. Colored'
    BY <1>s, <1>g, <1>7 DEF ForceRefresh, Colored, Updating, VosfLocked
  <2>7. NoUpdateLost'
    BY <1>s, <1>g, <1>7 DEF ForceRefresh, NoUpdateLost, Updating, VosfLocked, PageTaken,
                            BlitComing
  <2> QED
    BY <2>1, <2>2, <2>3, <2>4, <2>5, <2>6, <2>7
<1>8. CASE RefreshDue
  <2>1. VosfTypeOK'
    BY <1>s, <1>g, <1>8 DEF RefreshDue, VosfTypeOK
  <2>2. Faulting'
    BY <1>s, <1>g, <1>8 DEF RefreshDue, Faulting
  <2>3. Updating'
    BY <1>s, <1>g, <1>8 DEF RefreshDue, Updating, VosfLocked
  <2>4. Skipping'
    BY <1>s, <1>g, <1>8 DEF RefreshDue, Skipping, Updating, VosfLocked
  <2>5. Ended'
    BY <1>s, <1>g, <1>8 DEF RefreshDue, Ended, Updating, VosfLocked
  <2>6. Colored'
    BY <1>s, <1>g, <1>8 DEF RefreshDue, Colored, Updating, VosfLocked
  <2>7. NoUpdateLost'
    BY <1>s, <1>g, <1>8 DEF RefreshDue, NoUpdateLost, Updating, VosfLocked, PageTaken,
                            BlitComing
  <2> QED
    BY <2>1, <2>2, <2>3, <2>4, <2>5, <2>6, <2>7
<1>9. CASE BeginUpdate
  <2>1. VosfTypeOK'
    <3>1. /\ stale' \in BOOLEAN /\ copied' \in BOOLEAN /\ blank' \in BOOLEAN
          /\ dirty' \in BOOLEAN /\ very_dirty' \in BOOLEAN /\ full' \in BOOLEAN
      BY <1>9, Zenon DEF BeginUpdate, VosfTypeOK
    <3>2. /\ first' \in 0 .. pageCount /\ page' \in 0 .. pageCount
          /\ y' \in 0 .. geometry.lines /\ y2' \in 0 .. geometry.lines
          /\ last_scanline' \in -1 .. geometry.lines
      BY <1>g, <1>9 DEF BeginUpdate, VosfTypeOK
    <3>3. /\ waddr' \in 0 .. pageCount * PageSize /\ wpc' \in {"run", "fault", "retry", "palette"}
          /\ upc' \in {"wait", "lock", "scan", "protect", "blit"}
          /\ dirtyPages' \subseteq Pages /\ writable' \subseteq Pages
      BY <1>g, <1>9 DEF BeginUpdate, VosfTypeOK
    <3> QED
      BY <1>s, <3>1, <3>2, <3>3 DEF VosfTypeOK
  <2>2. Faulting'
    BY <1>s, <1>g, <1>9 DEF BeginUpdate, Faulting
  <2>3. Updating'
    <3>1. ~VosfLocked /\ first = 0 /\ page = 0 /\ last_scanline = -1 /\ ~full
      BY <1>9 DEF BeginUpdate, Updating, VosfLocked
    <3>2. \A p \in dirtyPages : p >= 0
      BY <1>g DEF VosfTypeOK
    <3>3. CASE display_type = "screen" /\ very_dirty
      BY <1>s, <1>g, <1>9, <3>1, <3>3 DEF BeginUpdate, Updating, VosfLocked
    <3>4. CASE ~(display_type = "screen" /\ very_dirty)
      BY <1>s, <1>9, <3>1, <3>2, <3>4 DEF BeginUpdate, Updating, VosfLocked
    <3> QED
      BY <3>3, <3>4
  <2>4. Skipping'
    BY <1>s, <1>g, <1>9 DEF BeginUpdate, Skipping, Updating, VosfLocked
  <2>5. Ended'
    BY <1>s, <1>g, <1>9 DEF BeginUpdate, Ended, Updating, VosfLocked
  <2>6. Colored'
    BY <1>s, <1>g, <1>9 DEF BeginUpdate, Colored, Updating, VosfLocked
  <2>7. NoUpdateLost'
    BY <1>s, <1>g, <1>9 DEF BeginUpdate, NoUpdateLost, Updating, VosfLocked, PageTaken,
                            BlitComing
  <2> QED
    BY <2>1, <2>2, <2>3, <2>4, <2>5, <2>6, <2>7
<1>10. CASE TakePages
  <2>0. PICK f \in dirtyPages, n \in page .. pageCount :
          /\ f >= page /\ \A p \in dirtyPages : p >= page => f <= p
          /\ n > f /\ n \notin dirtyPages /\ f .. n - 1 \subseteq dirtyPages
          /\ first' = f /\ page' = n
          /\ dirtyPages' = dirtyPages \ (f .. n - 1)
    BY <1>10 DEF TakePages
  <2>a. f \in Nat /\ n \in Nat /\ page \in Nat /\ \A p \in dirtyPages : p \in Int
    BY <1>g, <2>0 DEF VosfTypeOK
  <2>1. VosfTypeOK'
    BY <1>s, <1>g, <1>10, <2>0, <2>a DEF TakePages, VosfTypeOK
  <2>2. Faulting'
    BY <1>s, <1>g, <1>10, <2>0, <2>a DEF TakePages, Faulting
  <2>3. Updating'
    BY <1>s, <1>g, <1>10, <2>0, <2>a DEF TakePages, Updating, VosfLocked
  <2>4. Skipping'
    <3>1. SUFFICES ASSUME display_type = "screen", ~LosesOverlap, ~full, last_scanline # -1
                   PROVE  last_scanline * geometry.row <= (f - 1) * PageSize
      BY <1>s, <1>10, <2>0 DEF TakePages, Skipping
    <3>2. page <= f - 1
      BY <1>10, <2>0, <2>a, <3>1 DEF TakePages, Ended
    <3>3. PageSize * page <= PageSize * (f - 1)
      BY <1>g, <2>a, <3>2, Product
    <3>4. last_scanline * geometry.row <= page * PageSize
      BY <1>10, <3>1 DEF TakePages, Skipping
    <3>5. last_scanline * geometry.row \in Int
      BY <1>g DEF VosfTypeOK
    <3> QED
      BY <1>g, <2>a, <3>3, <3>4, <3>5
  <2>5. Ended'
    BY <1>s, <1>g, <1>10, <2>0, <2>a DEF TakePages, Ended, Updating, VosfLocked
  <2>6. Colored'
    BY <1>s, <1>g, <1>10, <2>0, <2>a DEF TakePages, Colored, Updating, VosfLocked
  <2>7. NoUpdateLost'
    BY <1>s, <1>g, <1>10, <2>0, <2>a DEF TakePages, NoUpdateLost, Updating, VosfLocked,
                                         PageTaken, BlitComing
  <2> QED
    BY <2>1, <2>2, <2>3, <2>4, <2>5, <2>6, <2>7
<1>11. CASE ProtectPages
  <2>0. /\ RangeLines[1] \in Nat /\ RangeLines[2] \in Nat
        /\ full => RangeLines[1] = 0 /\ RangeLines[2] = geometry.lines - 1
        /\ ~full /\ ~LosesOverlap =>
             RangeLines[1] = Top(first) /\ RangeLines[2] = Bottom(page - 1)
    BY <1>11, RangeFacts DEF ProtectPages
  <2>a. /\ first < page /\ Top(first) \in Nat /\ Bottom(page - 1) \in Nat
        /\ Top(first) <= Bottom(page - 1) /\ Bottom(page - 1) < geometry.lines
        /\ Bottom(page - 1) * geometry.row <= page * PageSize
        /\ PageOf(watched) \in first .. page - 1 =>
             RowOf(watched) \in Top(first) .. Bottom(page - 1)
    BY <1>11, LineFacts DEF ProtectPages, Updating
  <2>b. /\ first' = first /\ page' = page
        /\ \/ y' = y /\ y2' = y2 /\ last_scanline' = last_scanline
           \/ /\ y' \in 0 .. geometry.lines - 1 /\ y2' \in 0 .. geometry.lines - 1
              /\ last_scanline' = y2'
    BY <1>g, <1>11, <2>0 DEF ProtectPages
  <2>1. VosfTypeOK'
    <3>1. /\ stale' \in BOOLEAN /\ copied' \in BOOLEAN /\ blank' \in BOOLEAN
          /\ dirty' \in BOOLEAN /\ very_dirty' \in BOOLEAN /\ full' \in BOOLEAN
      BY <1>11, Zenon DEF ProtectPages, VosfTypeOK
    <3>2. /\ first' \in 0 .. pageCount /\ page' \in 0 .. pageCount
          /\ y' \in 0 .. geometry.lines /\ y2' \in 0 .. geometry.lines
          /\ last_scanline' \in -1 .. geometry.lines
      BY <1>g, <1>11, <2>b DEF ProtectPages, VosfTypeOK
    <3>3. /\ waddr' \in 0 .. pageCount * PageSize /\ wpc' \in {"run", "fault", "retry", "palette"}
          /\ upc' \in {"wait", "lock", "scan", "protect", "blit"}
          /\ dirtyPages' \subseteq Pages /\ writable' \subseteq Pages
      BY <1>g, <1>11 DEF ProtectPages, VosfTypeOK
    <3> QED
      BY <1>s, <3>1, <3>2, <3>3 DEF VosfTypeOK
  <2>2. Faulting'
    BY <1>s, <1>g, <1>11, <2>0, <2>a DEF ProtectPages, Faulting
  <2>3. Updating'
    BY <1>s, <1>g, <1>11, <2>0, <2>a DEF ProtectPages, Updating, VosfLocked
  <2>4. Skipping'
    BY <1>s, <1>g, <1>11, <2>0, <2>a DEF ProtectPages, Skipping, Updating, VosfLocked
  <2>5. Ended'
    BY <1>s, <1>g, <1>11, <2>0, <2>a DEF ProtectPages, Ended, Updating, VosfLocked
  <2>6. Colored'
    BY <1>s, <1>g, <1>11, <2>0, <2>a DEF ProtectPages, Colored, Updating, VosfLocked
  <2>7. NoUpdateLost'
    BY <1>s, <1>g, <1>11, <2>0, <2>a DEF ProtectPages, NoUpdateLost, Updating, VosfLocked,
                                         PageTaken, BlitComing
  <2> QED
    BY <2>1, <2>2, <2>3, <2>4, <2>5, <2>6, <2>7
<1>12. CASE BlitLine
  <2>1. VosfTypeOK'
    <3>1. /\ stale' \in BOOLEAN /\ copied' \in BOOLEAN /\ blank' \in BOOLEAN
          /\ dirty' \in BOOLEAN /\ very_dirty' \in BOOLEAN /\ full' \in BOOLEAN
      BY <1>12, Zenon DEF BlitLine, VosfTypeOK
    <3>2. /\ first' \in 0 .. pageCount /\ page' \in 0 .. pageCount
          /\ y' \in 0 .. geometry.lines /\ y2' \in 0 .. geometry.lines
          /\ last_scanline' \in -1 .. geometry.lines
      BY <1>g, <1>12 DEF BlitLine, VosfTypeOK, Updating
    <3>3. /\ waddr' \in 0 .. pageCount * PageSize /\ wpc' \in {"run", "fault", "retry", "palette"}
          /\ upc' \in {"wait", "lock", "scan", "protect", "blit"}
          /\ dirtyPages' \subseteq Pages /\ writable' \subseteq Pages
      BY <1>g, <1>12 DEF BlitLine, VosfTypeOK
    <3> QED
      BY <1>s, <3>1, <3>2, <3>3 DEF VosfTypeOK
  <2>2. Faulting'
    BY <1>s, <1>g, <1>12 DEF BlitLine, VosfTypeOK, Faulting
  <2>3. Updating'
    BY <1>s, <1>g, <1>12 DEF BlitLine, VosfTypeOK, Updating, VosfLocked
  <2>4. Skipping'
    BY <1>s, <1>g, <1>12 DEF BlitLine, VosfTypeOK, Skipping, Updating, VosfLocked
  <2>5. Ended'
    BY <1>s, <1>g, <1>12 DEF BlitLine, VosfTypeOK, Ended, Updating, VosfLocked
  <2>6. Colored'
    <3>1. CASE RowOf(watched) = y /\ (display_type = "window" \/ full \/ ~copied)
      BY <1>12, <3>1 DEF BlitLine, Colored
    <3>2. CASE ~(RowOf(watched) = y /\ (display_type = "window" \/ full \/ ~copied))
      <4>1. stale' = stale /\ copied' = copied /\ blank' = blank
        BY <1>12, <3>2 DEF BlitLine
      <4>2. full /\ RowOf(watched) \in y .. y2 => RowOf(watched) \in y + 1 .. y2
        BY <1>g, <3>2 DEF VosfTypeOK
      <4> QED
        BY <1>s, <1>12, <4>1, <4>2 DEF BlitLine, Colored
    <3> QED
      BY <3>1, <3>2
  <2>7. NoUpdateLost'
    BY <1>s, <1>g, <1>12 DEF BlitLine, VosfTypeOK, NoUpdateLost, Updating, VosfLocked,
                             PageTaken, BlitComing, Colored
  <2> QED
    BY <2>1, <2>2, <2>3, <2>4, <2>5, <2>6, <2>7
<1>13. CASE LinesDone
  <2>1. VosfTypeOK'
    <3>1. /\ stale' \in BOOLEAN /\ copied' \in BOOLEAN /\ blank' \in BOOLEAN
          /\ dirty' \in BOOLEAN /\ very_dirty' \in BOOLEAN /\ full' \in BOOLEAN
      BY <1>13, Zenon DEF LinesDone, EndUpdate, VosfTypeOK
    <3>2. /\ first' \in 0 .. pageCount /\ page' \in 0 .. pageCount
          /\ y' \in 0 .. geometry.lines /\ y2' \in 0 .. geometry.lines
          /\ last_scanline' \in -1 .. geometry.lines
      <4>1. /\ first' \in {0, first} /\ page' \in {0, page} /\ y' = 0 /\ y2' = 0
            /\ last_scanline' \in {-1, last_scanline}
        BY <1>13 DEF LinesDone, EndUpdate
      <4> QED
        BY <1>g, <4>1 DEF VosfTypeOK
    <3>3. /\ waddr' \in 0 .. pageCount * PageSize /\ wpc' \in {"run", "fault", "retry", "palette"}
          /\ upc' \in {"wait", "lock", "scan", "protect", "blit"}
          /\ dirtyPages' \subseteq Pages /\ writable' \subseteq Pages
      BY <1>g, <1>13 DEF LinesDone, EndUpdate, VosfTypeOK
    <3> QED
      BY <1>s, <3>1, <3>2, <3>3 DEF VosfTypeOK
  <2>2. Faulting'
    BY <1>s, <1>g, <1>13 DEF LinesDone, EndUpdate, VosfTypeOK, Faulting
  <2>3. Updating'
    BY <1>s, <1>g, <1>13 DEF LinesDone, EndUpdate, VosfTypeOK, Updating, VosfLocked
  <2>4. Skipping'
    BY <1>s, <1>g, <1>13 DEF LinesDone, EndUpdate, VosfTypeOK, Skipping, Updating,
                             VosfLocked
  <2>5. Ended'
    BY <1>s, <1>g, <1>13 DEF LinesDone, EndUpdate, VosfTypeOK, Ended, Updating, VosfLocked
  <2>6. Colored'
    BY <1>s, <1>g, <1>13 DEF LinesDone, EndUpdate, VosfTypeOK, Colored, Updating, VosfLocked
  <2>7. NoUpdateLost'
    BY <1>s, <1>g, <1>13 DEF LinesDone, EndUpdate, VosfTypeOK, NoUpdateLost, Updating,
                             VosfLocked, PageTaken, BlitComing
  <2> QED
    BY <2>1, <2>2, <2>3, <2>4, <2>5, <2>6, <2>7
<1>14. CASE NoPageLeft
  <2>1. VosfTypeOK'
    <3>1. /\ stale' \in BOOLEAN /\ copied' \in BOOLEAN /\ blank' \in BOOLEAN
          /\ dirty' \in BOOLEAN /\ very_dirty' \in BOOLEAN /\ full' \in BOOLEAN
      BY <1>14, Zenon DEF NoPageLeft, EndUpdate, VosfTypeOK
    <3>2. /\ first' \in 0 .. pageCount /\ page' \in 0 .. pageCount
          /\ y' \in 0 .. geometry.lines /\ y2' \in 0 .. geometry.lines
          /\ last_scanline' \in -1 .. geometry.lines
      BY <1>g, <1>14 DEF NoPageLeft, EndUpdate, VosfTypeOK
    <3>3. /\ waddr' \in 0 .. pageCount * PageSize /\ wpc' \in {"run", "fault", "retry", "palette"}
          /\ upc' \in {"wait", "lock", "scan", "protect", "blit"}
          /\ dirtyPages' \subseteq Pages /\ writable' \subseteq Pages
      BY <1>g, <1>14 DEF NoPageLeft, EndUpdate, VosfTypeOK
    <3> QED
      BY <1>s, <3>1, <3>2, <3>3 DEF VosfTypeOK
  <2>2. Faulting'
    BY <1>s, <1>g, <1>14 DEF NoPageLeft, EndUpdate, VosfTypeOK, Faulting
  <2>3. Updating'
    BY <1>s, <1>g, <1>14 DEF NoPageLeft, EndUpdate, VosfTypeOK, Updating, VosfLocked
  <2>4. Skipping'
    BY <1>s, <1>g, <1>14 DEF NoPageLeft, EndUpdate, VosfTypeOK, Skipping, Updating,
                             VosfLocked
  <2>5. Ended'
    BY <1>s, <1>g, <1>14 DEF NoPageLeft, EndUpdate, VosfTypeOK, Ended, Updating, VosfLocked
  <2>6. Colored'
    BY <1>s, <1>g, <1>14 DEF NoPageLeft, EndUpdate, VosfTypeOK, Colored, Updating,
                             VosfLocked
  <2>7. NoUpdateLost'
    BY <1>s, <1>g, <1>14 DEF NoPageLeft, EndUpdate, VosfTypeOK, NoUpdateLost, Updating,
                             VosfLocked, PageTaken, BlitComing
  <2> QED
    BY <2>1, <2>2, <2>3, <2>4, <2>5, <2>6, <2>7
<1>15. CASE UNCHANGED vosfVars
  <2>1. VosfTypeOK'
    BY <1>s, <1>g, <1>15 DEF VosfTypeOK
  <2>2. Faulting'
    BY <1>s, <1>g, <1>15 DEF Faulting
  <2>3. Updating'
    BY <1>s, <1>g, <1>15 DEF Updating, VosfLocked
  <2>4. Skipping'
    BY <1>s, <1>g, <1>15 DEF Skipping, Updating, VosfLocked
  <2>5. Ended'
    BY <1>s, <1>g, <1>15 DEF Ended, Updating, VosfLocked
  <2>6. Colored'
    BY <1>s, <1>g, <1>15 DEF Colored, Updating, VosfLocked
  <2>7. NoUpdateLost'
    BY <1>s, <1>g, <1>15 DEF NoUpdateLost, Updating, VosfLocked, PageTaken, BlitComing
  <2> QED
    BY <2>1, <2>2, <2>3, <2>4, <2>5, <2>6, <2>7
<1> QED
  BY <1>1, <1>2, <1>3, <1>4, <1>5, <1>6, <1>7, <1>8, <1>9, <1>10, <1>11, <1>12, <1>13,
     <1>14, <1>15
  DEF VosfNext, MacDraws, WriterWaits, UpdateDisplay

\* The inductive invariant holds of every behaviour.
THEOREM VosfInvariance == VosfSpec => []VosfIndInv
<1> QED
  BY InitVosfInv, StepVosfInv, PTL DEF VosfSpec

\* Pages and lines stay inside the screen, whatever its size.
THEOREM VosfTypeCorrect == VosfSpec => []VosfTypeOK
<1>1. VosfIndInv => VosfTypeOK
  BY DEF VosfIndInv
<1> QED
  BY <1>1, VosfInvariance, PTL

\* No change of the frame buffer is forgotten, on a screen of any size.
THEOREM UpdatesNotLost == VosfSpec => []NoUpdateLost
<1>1. VosfIndInv => NoUpdateLost
  BY DEF VosfIndInv
<1> QED
  BY <1>1, VosfInvariance, PTL
=============================================================================
