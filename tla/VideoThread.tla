---------------------------- MODULE VideoThread ----------------------------
(***************************************************************************)
(* The handshakes between the emulation thread and the redraw thread of    *)
(* src/src/Unix/video_x.cpp: a switch of the video mode pauses the redraw  *)
(* thread; Ctrl-Tab makes the redraw thread stop the emulation thread by   *)
(* taking the frame buffer lock, which that holds except for a moment in   *)
(* VideoVBL; Ctrl-Esc and a fatal error make it leave the full screen.     *)
(*                                                                         *)
(* Emulation thread: run; vbl (between unlock and lock in VideoVBL);       *)
(* await (the pause); switch (the display is closed and opened); alert     *)
(* (ErrorAlert waits until the full screen is left); join; ended.          *)
(* Redraw thread: loop; paused; events (handle_events); suspending (it     *)
(* waits for the frame buffer lock); resumed (it has released the lock);   *)
(* refresh; gone.                                                          *)
(***************************************************************************)
EXTENDS Naturals

VARIABLES
  vpc, rpc,                   \* the emulation and the redraw thread
  display,                    \* display_type: "window" or "screen"
  frame_buffer_lock,          \* its owner
  thread_stop_req, thread_stop_ack, thread_resume_req,
  quit_full_screen, quit_full_screen_ack,
  emerg_quit,
  emul_suspended,
  redraw_thread_cancel

pauseVars == <<thread_stop_req, thread_stop_ack, thread_resume_req>>
quitVars  == <<quit_full_screen, quit_full_screen_ack, emerg_quit>>
videoVars == <<vpc, rpc, display, frame_buffer_lock, pauseVars, quitVars,
               emul_suspended, redraw_thread_cancel>>

VideoTypeOK ==
  /\ vpc \in {"run", "vbl", "await", "switch", "alert", "join", "ended"}
  /\ rpc \in {"loop", "paused", "events", "suspending", "resumed", "refresh", "gone"}
  /\ display \in {"window", "screen"}
  /\ frame_buffer_lock \in {"none", "emul", "redraw"}
  /\ thread_stop_req \in BOOLEAN
  /\ thread_stop_ack \in {0, 1} /\ thread_resume_req \in {0, 1}
  /\ quit_full_screen \in BOOLEAN /\ quit_full_screen_ack \in BOOLEAN
  /\ emerg_quit \in BOOLEAN
  /\ emul_suspended \in BOOLEAN
  /\ redraw_thread_cancel \in BOOLEAN

\* VideoInit has opened the display, locked the frame buffer and started the
\* redraw thread.
VideoInit ==
  /\ vpc = "run" /\ rpc = "loop"
  /\ display \in {"window", "screen"}
  /\ frame_buffer_lock = "emul"
  /\ thread_stop_req = FALSE /\ thread_stop_ack = 0 /\ thread_resume_req = 0
  /\ quit_full_screen = FALSE /\ quit_full_screen_ack = FALSE
  /\ emerg_quit = FALSE
  /\ emul_suspended = FALSE
  /\ redraw_thread_cancel = FALSE

-----------------------------------------------------------------------------
\* The emulation thread.

\* QuitEmulator, as far as VideoExit's pthread_join.
QuitEmulator ==
  /\ redraw_thread_cancel' = TRUE
  /\ vpc' = "join"

MacQuits ==
  /\ vpc = "run"
  /\ QuitEmulator
  /\ UNCHANGED <<rpc, display, frame_buffer_lock, pauseVars, quitVars, emul_suspended>>

\* "this is the point where we are suspended when the user presses Ctrl-Tab"
VideoVBL ==
  /\ vpc = "run"
  /\ IF emerg_quit
     THEN QuitEmulator /\ UNCHANGED frame_buffer_lock
     ELSE /\ frame_buffer_lock' = "none"
          /\ vpc' = "vbl"
          /\ UNCHANGED redraw_thread_cancel
  /\ UNCHANGED <<rpc, display, pauseVars, quitVars, emul_suspended>>

VBLLocks ==
  /\ vpc = "vbl"
  /\ frame_buffer_lock = "none"
  /\ frame_buffer_lock' = "emul"
  /\ vpc' = "run"
  /\ UNCHANGED <<rpc, display, pauseVars, quitVars, emul_suspended, redraw_thread_cancel>>

video_mode_change ==
  /\ vpc = "run"
  /\ thread_stop_req' = TRUE
  /\ vpc' = "await"
  /\ UNCHANGED <<rpc, display, frame_buffer_lock, thread_stop_ack, thread_resume_req,
                 quitVars, emul_suspended, redraw_thread_cancel>>

\* Mutant: the acknowledgement is not awaited.
SwitchAtOnce ==
  /\ vpc = "await"
  /\ thread_stop_req' = FALSE
  /\ vpc' = "switch"
  /\ UNCHANGED <<rpc, display, frame_buffer_lock, thread_stop_ack, thread_resume_req,
                 quitVars, emul_suspended, redraw_thread_cancel>>

RedrawPaused ==
  /\ vpc = "await"
  /\ thread_stop_ack > 0
  /\ thread_stop_ack' = thread_stop_ack - 1
  /\ thread_stop_req' = FALSE
  /\ vpc' = "switch"
  /\ UNCHANGED <<rpc, display, frame_buffer_lock, thread_resume_req, quitVars,
                 emul_suspended, redraw_thread_cancel>>

\* Mutant: the redraw thread is not resumed.
DisplayOpenedOnly(type) ==
  /\ vpc = "switch"
  /\ display' = type
  /\ vpc' = "run"
  /\ UNCHANGED <<rpc, frame_buffer_lock, pauseVars, quitVars, emul_suspended,
                 redraw_thread_cancel>>

DisplayOpened(type) ==
  /\ vpc = "switch"
  /\ display' = type
  /\ thread_resume_req' = thread_resume_req + 1
  /\ vpc' = "run"
  /\ UNCHANGED <<rpc, frame_buffer_lock, thread_stop_req, thread_stop_ack, quitVars,
                 emul_suspended, redraw_thread_cancel>>

\* The display cannot be opened: ErrorAlert, with its own dialog, calls
\* VideoQuitFullScreen; then QuitEmulator.
DisplayFails(type) ==
  /\ vpc = "switch"
  /\ display' = type
  /\ \/ /\ type = "screen"
        /\ quit_full_screen' = TRUE
        /\ vpc' = "alert"
        /\ UNCHANGED redraw_thread_cancel
     \/ QuitEmulator /\ UNCHANGED quit_full_screen
  /\ UNCHANGED <<rpc, frame_buffer_lock, pauseVars, quit_full_screen_ack, emerg_quit,
                 emul_suspended>>

\* A fatal error elsewhere.
FatalError ==
  /\ vpc = "run"
  /\ display = "screen"
  /\ quit_full_screen' = TRUE
  /\ vpc' = "alert"
  /\ UNCHANGED <<rpc, display, frame_buffer_lock, pauseVars, quit_full_screen_ack,
                 emerg_quit, emul_suspended, redraw_thread_cancel>>

FullScreenLeft ==
  /\ vpc = "alert"
  /\ quit_full_screen_ack
  /\ QuitEmulator
  /\ UNCHANGED <<rpc, display, frame_buffer_lock, pauseVars, quitVars, emul_suspended>>

VideoExit ==
  /\ vpc = "join"
  /\ rpc = "gone"
  /\ frame_buffer_lock' = "none"
  /\ vpc' = "ended"
  /\ UNCHANGED <<rpc, display, pauseVars, quitVars, emul_suspended, redraw_thread_cancel>>

-----------------------------------------------------------------------------
\* redraw_func.

RedrawLoop ==
  /\ rpc = "loop"
  /\ \/ redraw_thread_cancel /\ rpc' = "gone" /\ UNCHANGED thread_stop_ack
     \/ /\ ~redraw_thread_cancel /\ thread_stop_req
        /\ thread_stop_ack' = thread_stop_ack + 1
        /\ rpc' = "paused"
     \/ /\ ~redraw_thread_cancel /\ ~thread_stop_req
        /\ rpc' = "events"
        /\ UNCHANGED thread_stop_ack
  /\ UNCHANGED <<vpc, display, frame_buffer_lock, thread_stop_req, thread_resume_req,
                 quitVars, emul_suspended, redraw_thread_cancel>>

RedrawResumed ==
  /\ rpc = "paused"
  /\ thread_resume_req > 0
  /\ thread_resume_req' = thread_resume_req - 1
  /\ rpc' = "events"
  /\ UNCHANGED <<vpc, display, frame_buffer_lock, thread_stop_req, thread_stop_ack,
                 quitVars, emul_suspended, redraw_thread_cancel>>

\* pthread_cancel acts on a thread that waits: for a semaphore or for events,
\* not for a mutex.
RedrawCancelled ==
  /\ redraw_thread_cancel
  /\ rpc \in {"paused", "events"}
  /\ rpc' = "gone"
  /\ UNCHANGED <<vpc, display, frame_buffer_lock, pauseVars, quitVars, emul_suspended,
                 redraw_thread_cancel>>

\* Ctrl-Tab, Ctrl-Esc, and the space that ends a suspension.
CtrlTab ==
  /\ rpc = "events"
  /\ ~emul_suspended
  /\ display = "screen"
  /\ rpc' = "suspending"
  /\ UNCHANGED <<vpc, display, frame_buffer_lock, pauseVars, quitVars, emul_suspended,
                 redraw_thread_cancel>>

CtrlEsc ==
  /\ rpc = "events"
  /\ ~emul_suspended
  /\ quit_full_screen' = TRUE /\ emerg_quit' = TRUE
  /\ UNCHANGED <<vpc, rpc, display, frame_buffer_lock, pauseVars, quit_full_screen_ack,
                 emul_suspended, redraw_thread_cancel>>

suspend_emul ==
  /\ rpc = "suspending"
  /\ frame_buffer_lock = "none"
  /\ frame_buffer_lock' = "redraw"
  /\ emul_suspended' = TRUE
  /\ rpc' = "events"
  /\ UNCHANGED <<vpc, display, pauseVars, quitVars, redraw_thread_cancel>>

\* The display is back before the lock is released.
resume_emul ==
  /\ rpc = "events"
  /\ emul_suspended
  /\ frame_buffer_lock' = "none"
  /\ rpc' = "resumed"
  /\ UNCHANGED <<vpc, display, pauseVars, quitVars, emul_suspended, redraw_thread_cancel>>

EmulResumed ==
  /\ rpc = "resumed"
  /\ emul_suspended' = FALSE
  /\ rpc' = "events"
  /\ UNCHANGED <<vpc, display, frame_buffer_lock, pauseVars, quitVars, redraw_thread_cancel>>

\* handle_events ends, before a refresh or after a wait for events.
EventsHandled ==
  /\ rpc = "events"
  /\ rpc' \in {"refresh", "loop"}
  /\ UNCHANGED <<vpc, display, frame_buffer_lock, pauseVars, quitVars, emul_suspended,
                 redraw_thread_cancel>>

Refresh ==
  /\ rpc = "refresh"
  /\ quit_full_screen' = FALSE
  /\ IF quit_full_screen /\ display = "screen"
     THEN rpc' = "gone" /\ quit_full_screen_ack' = TRUE
     ELSE rpc' = "loop" /\ UNCHANGED quit_full_screen_ack
  /\ UNCHANGED <<vpc, display, frame_buffer_lock, pauseVars, emerg_quit, emul_suspended,
                 redraw_thread_cancel>>

-----------------------------------------------------------------------------

SwitchDisplay ==
  \E type \in {"window", "screen"} : DisplayOpened(type) \/ DisplayFails(type)

\* The emulation thread waits for one of these.
EmulWaits == VBLLocks \/ RedrawPaused \/ SwitchDisplay \/ FullScreenLeft \/ VideoExit

\* Events end, so that a fair scheduler brings the thread to its refresh.
RedrawThread == RedrawLoop \/ RedrawResumed \/ RedrawCancelled \/ EmulResumed \/ Refresh

UserKeys == CtrlTab \/ CtrlEsc \/ resume_emul

VideoNext ==
  \/ MacQuits \/ VideoVBL \/ video_mode_change \/ FatalError
  \/ EmulWaits
  \/ RedrawThread \/ EventsHandled \/ suspend_emul \/ UserKeys

VideoSpec == VideoInit /\ [][VideoNext]_videoVars

\* Both threads run, the display is opened or not, and the refresh comes 60
\* times a second.  Nothing makes the user press a key, and nothing makes the
\* redraw thread get the frame buffer lock in the moment it is free.
VideoFairSpec ==
  /\ VideoSpec
  /\ WF_videoVars(EmulWaits) /\ WF_videoVars(RedrawThread)
  /\ SF_videoVars(EventsHandled /\ rpc' = "refresh")
  /\ SF_videoVars(EventsHandled /\ rpc' = "loop")

-----------------------------------------------------------------------------
\* Properties.

\* The display belongs to one thread: it is closed and opened (and the mouse
\* mode changed, without a lock) only while the redraw thread is paused, and
\* saved, hidden and restored by Ctrl-Tab only while the emulation thread stands in
\* VideoVBL, where it cannot draw.
OneOwnerOfDisplay ==
  /\ vpc = "switch" => rpc = "paused"
  /\ emul_suspended /\ rpc # "resumed" => vpc = "vbl"

\* The states in which the emulation thread waits for ever: the redraw thread waits
\* for the frame buffer lock, which the emulation thread keeps while it waits
\* for the redraw thread to pause or to end; the emulation thread waits for a
\* redraw thread that has left the full screen and returned; or for one that is
\* paused, with nobody to resume it, or gone, to leave the full screen; or for one
\* that left the full screen (Ctrl-Esc) when it had suspended the emulation
\* (Ctrl-Tab), and took the frame buffer lock along.
Deadlocked ==
  \/ rpc = "suspending" /\ vpc \in {"await", "alert", "join"}
  \/ rpc = "gone" /\ vpc = "await"
  \/ rpc = "gone" /\ vpc = "alert" /\ ~quit_full_screen_ack
  \/ rpc = "paused" /\ vpc = "alert" /\ thread_resume_req = 0
  \/ rpc = "gone" /\ emul_suspended

\* Whatever the emulation thread waits for comes, unless the user has suspended
\* it or the two are in one of the deadlocks above: there is no other.
EmulationGoesOn ==
  (vpc \in {"vbl", "await", "switch", "alert", "join"}) ~>
    (vpc \in {"run", "ended"} \/ emul_suspended \/ Deadlocked)
=============================================================================
