-------------------------------- MODULE Vosf --------------------------------
(***************************************************************************)
(* Video on SEGV signals (src/src/Unix/video_vosf.h).  The Mac's frame     *)
(* buffer is write protected; the first write to a page faults, and the    *)
(* handler marks the page and makes it writable.  The redraw thread looks  *)
(* for marked pages, protects them again and blits their lines: in a       *)
(* window all of them, on a full screen those that differ from a copy.     *)
(*                                                                         *)
(* What is on the host's screen is followed for one byte, any one.         *)
(***************************************************************************)
EXTENDS Integers

CONSTANTS PageSize,       \* bytes of a page
          Geometries      \* the screens: bytes of a row, number of rows

ASSUME VosfAssumption ==
  /\ PageSize \in Nat \ {0}
  /\ Geometries \subseteq [row : Nat \ {0}, lines : Nat \ {0}]

VARIABLES
  geometry,       \* of the current mode
  display_type,   \* "window" or "screen" (full screen, with the copy)
  watched,        \* the byte that is followed
  stale,          \* the host does not show what the Mac has there
  copied,         \* the_buffer_copy has what the Mac has there
  blank,          \* history: it was 0 when the copy was cleared
  dirtyPages,     \* the pages whose flag is SET
  dirty, very_dirty,
  writable,       \* the pages that are not write protected
  wpc, waddr,     \* the emulation thread: where it is, what it writes
  upc,            \* the redraw thread: where it is in an update
  first, page,    \* the range of pages it has taken
  y, y2,          \* the lines of them it has still to blit
  last_scanline,
  full            \* it updates the whole screen

bufferVars == <<geometry, display_type, watched>>
shownVars  == <<stale, copied, blank>>
flagVars   == <<dirtyPages, dirty, very_dirty>>
writeVars  == <<wpc, waddr>>
updateVars == <<upc, first, page, y, y2, last_scanline, full>>
vosfVars == <<bufferVars, shownVars, flagVars, writable, writeVars, updateVars>>

Bytes     == geometry.row * geometry.lines
pageCount == (Bytes + PageSize - 1) \div PageSize
Pages     == 0 .. pageCount - 1
PageOf(a) == a \div PageSize
RowOf(a)  == a \div geometry.row

\* vosf_lock is held for as long as the update lasts; the other sections that
\* take it are one action each.
VosfLocked == upc \notin {"wait", "lock"}

VosfTypeOK ==
  /\ geometry \in Geometries
  /\ display_type \in {"window", "screen"}
  /\ watched \in 0 .. Bytes - 1
  /\ stale \in BOOLEAN /\ copied \in BOOLEAN /\ blank \in BOOLEAN
  /\ dirtyPages \subseteq Pages /\ writable \subseteq Pages
  /\ dirty \in BOOLEAN /\ very_dirty \in BOOLEAN
  /\ wpc \in {"run", "fault", "retry", "palette"}
  /\ waddr \in 0 .. pageCount * PageSize
  /\ upc \in {"wait", "lock", "scan", "protect", "blit"}
  /\ first \in 0 .. pageCount /\ page \in 0 .. pageCount
  /\ y \in 0 .. geometry.lines /\ y2 \in 0 .. geometry.lines
  /\ last_scanline \in -1 .. geometry.lines
  /\ full \in BOOLEAN

\* video_vosf_init: everything is clean and write protected.
VosfInit ==
  /\ geometry \in Geometries
  /\ display_type \in {"window", "screen"}
  /\ watched \in 0 .. Bytes - 1
  /\ stale = FALSE /\ copied = TRUE /\ blank = FALSE
  /\ dirtyPages = {} /\ dirty = FALSE /\ very_dirty = FALSE
  /\ writable = {}
  /\ wpc = "run" /\ waddr = 0
  /\ upc = "wait" /\ first = 0 /\ page = 0 /\ y = 0 /\ y2 = 0
  /\ last_scanline = -1 /\ full = FALSE

-----------------------------------------------------------------------------
\* The emulation thread.

\* A write to a protected page faults.
Write(a) ==
  IF PageOf(a) \in writable
  THEN /\ stale' = (stale \/ a = watched)
       /\ copied' = (copied /\ a # watched)
       /\ blank' = (blank /\ a # watched)
       /\ wpc' = "run" /\ waddr' = 0
  ELSE /\ wpc' = "fault" /\ waddr' = a
       /\ UNCHANGED shownVars

\* Other bytes than the one that is followed are alike within a page.
MacWrite(a) ==
  /\ wpc = "run"
  /\ Write(a)
  /\ UNCHANGED <<bufferVars, flagVars, writable, updateVars>>

RetryWrite ==
  /\ wpc = "retry"
  /\ Write(waddr)
  /\ UNCHANGED <<bufferVars, flagVars, writable, updateVars>>

\* Mutant: the page is marked but not made writable.
FaultKeepsProtected ==
  /\ wpc = "fault"
  /\ ~VosfLocked
  /\ dirtyPages' = dirtyPages \cup {PageOf(waddr)}
  /\ dirty' = TRUE
  /\ wpc' = "retry"
  /\ UNCHANGED <<bufferVars, shownVars, very_dirty, writable, waddr, updateVars>>

\* A page that is marked already stays protected.
Screen_fault_handler ==
  /\ wpc = "fault"
  /\ ~VosfLocked
  /\ dirtyPages' = dirtyPages \cup {PageOf(waddr)}
  /\ writable' = writable \cup ({PageOf(waddr)} \ dirtyPages)
  /\ dirty' = TRUE
  /\ wpc' = "retry"
  /\ UNCHANGED <<bufferVars, shownVars, very_dirty, waddr, updateVars>>

\* QuickDraw acceleration announces the pages it is going to draw to.
vosf_set_dirty_area(p1, p2) ==
  /\ wpc = "run"
  /\ ~VosfLocked
  /\ dirtyPages' = dirtyPages \cup (p1 .. p2)
  /\ writable' = writable \cup ((p1 .. p2) \ dirtyPages)
  /\ dirty' = TRUE
  /\ UNCHANGED <<bufferVars, shownVars, very_dirty, writeVars, updateVars>>

\* video_set_palette: the colors change, then all has to be redrawn.
ChangeColors ==
  /\ wpc = "run"
  /\ stale' = TRUE
  /\ wpc' = "palette"
  /\ UNCHANGED <<bufferVars, copied, blank, flagVars, writable, waddr, updateVars>>

\* Mutant: a full screen is not redrawn whatever the copy says.
RedrawMarked ==
  /\ wpc = "palette"
  /\ ~VosfLocked
  /\ dirtyPages' = Pages /\ dirty' = TRUE
  /\ wpc' = "run"
  /\ UNCHANGED <<bufferVars, shownVars, very_dirty, writable, waddr, updateVars>>

RedrawColors ==
  /\ wpc = "palette"
  /\ ~VosfLocked
  /\ dirtyPages' = Pages /\ dirty' = TRUE
  /\ very_dirty' = (very_dirty \/ display_type = "screen")
  /\ wpc' = "run"
  /\ UNCHANGED <<bufferVars, shownVars, writable, waddr, updateVars>>

-----------------------------------------------------------------------------
\* The redraw thread.

\* Hidden parts of the window are exposed, or a suspended full screen comes
\* back (while the emulation thread stands in VideoVBL): all pages are marked
\* and the copy is cleared, which a black byte equals.
ForceRefresh(black) ==
  /\ upc = "wait"
  /\ display_type = "screen" => wpc = "run"
  /\ dirtyPages' = Pages /\ dirty' = TRUE
  /\ stale' = TRUE
  /\ copied' = black /\ blank' = black
  /\ UNCHANGED <<bufferVars, very_dirty, writable, writeVars, updateVars>>

\* The flag is tested without the lock.
RefreshDue ==
  /\ upc = "wait"
  /\ dirty
  /\ upc' = "lock"
  /\ UNCHANGED <<bufferVars, shownVars, flagVars, writable, writeVars, first, page, y, y2,
                 last_scanline, full>>

BeginUpdate ==
  /\ upc = "lock"
  /\ IF display_type = "screen" /\ very_dirty
     THEN /\ dirtyPages' = {} /\ dirty' = FALSE /\ very_dirty' = FALSE
          /\ first' = 0 /\ page' = pageCount
          /\ full' = TRUE
          /\ upc' = "protect"
     ELSE upc' = "scan" /\ UNCHANGED <<flagVars, first, page, full>>
  /\ UNCHANGED <<bufferVars, shownVars, writable, writeVars, y, y2, last_scanline>>

\* find_next_page_set and find_next_page_clear, with the two guard pages.
TakePages ==
  /\ upc = "scan"
  /\ \E f \in dirtyPages, n \in page .. pageCount :
       /\ f >= page /\ \A p \in dirtyPages : p >= page => f <= p
       /\ n > f /\ n \notin dirtyPages /\ f .. n - 1 \subseteq dirtyPages
       /\ first' = f /\ page' = n
       /\ dirtyPages' = dirtyPages \ (f .. n - 1)
  /\ upc' = "protect"
  /\ UNCHANGED <<bufferVars, shownVars, dirty, very_dirty, writable, writeVars, y, y2,
                 last_scanline, full>>

Bottom(p) == LET l == ((p + 1) * PageSize) \div geometry.row
             IN  IF l < geometry.lines THEN l ELSE geometry.lines - 1
Top(p)    == (p * PageSize) \div geometry.row

\* Mutant: the last line of the range is the one its last page begins with.
TopLines ==
  IF full THEN <<0, geometry.lines - 1>> ELSE <<Top(first), Top(page - 1)>>

\* The lines to blit; on a full screen one that was blitted in this update is
\* not blitted again.
RangeLines ==
  LET top    == Top(first)
      bottom == Bottom(page - 1)
      skip(l) == IF display_type = "screen" /\ l <= last_scanline THEN l + 1 ELSE l
  IN  IF full THEN <<0, geometry.lines - 1>> ELSE <<skip(top), skip(bottom)>>

\* The pages are protected before their lines are blitted.
ProtectPages ==
  /\ upc = "protect"
  /\ writable' = writable \ (first .. page - 1)
  /\ IF RangeLines[1] >= geometry.lines \/ RangeLines[2] >= geometry.lines
     THEN upc' = "scan" /\ UNCHANGED <<y, y2, last_scanline>>
     ELSE /\ y' = RangeLines[1] /\ y2' = RangeLines[2]
          /\ last_scanline' = RangeLines[2]
          /\ upc' = "blit"
  /\ UNCHANGED <<bufferVars, shownVars, flagVars, writeVars, first, page, full>>

EndUpdate ==
  /\ upc' = "wait"
  /\ first' = 0 /\ page' = 0 /\ last_scanline' = -1 /\ full' = FALSE

\* Screen_blit for a line: on a full screen, unless the whole is updated, for
\* what differs from the copy.
BlitLine ==
  /\ upc = "blit"
  /\ y <= y2
  /\ IF RowOf(watched) = y /\ (display_type = "window" \/ full \/ ~copied)
     THEN stale' = FALSE /\ copied' = TRUE /\ blank' = FALSE
     ELSE UNCHANGED shownVars
  /\ y' = y + 1
  /\ UNCHANGED <<bufferVars, flagVars, writable, writeVars, upc, first, page, y2,
                 last_scanline, full>>

LinesDone ==
  /\ upc = "blit"
  /\ y > y2
  /\ y' = 0 /\ y2' = 0
  /\ IF full
     THEN EndUpdate
     ELSE upc' = "scan" /\ UNCHANGED <<first, page, last_scanline, full>>
  /\ UNCHANGED <<bufferVars, shownVars, flagVars, writable, writeVars>>

NoPageLeft ==
  /\ upc = "scan"
  /\ \A p \in dirtyPages : p < page
  /\ dirty' = FALSE
  /\ EndUpdate
  /\ UNCHANGED <<bufferVars, shownVars, dirtyPages, very_dirty, writable, writeVars, y, y2>>

-----------------------------------------------------------------------------

MacDraws ==
  \/ \E a \in {watched} \cup {p * PageSize : p \in Pages} : MacWrite(a)
  \/ \E p1, p2 \in Pages : p1 <= p2 /\ vosf_set_dirty_area(p1, p2)
  \/ ChangeColors

UpdateDisplay ==
  \/ RefreshDue \/ BeginUpdate \/ TakePages \/ ProtectPages
  \/ BlitLine \/ LinesDone \/ NoPageLeft

WriterWaits == RetryWrite \/ Screen_fault_handler \/ RedrawColors

VosfNext ==
  \/ MacDraws
  \/ WriterWaits
  \/ \E black \in BOOLEAN : ForceRefresh(black)
  \/ UpdateDisplay

VosfSpec == VosfInit /\ [][VosfNext]_vosfVars

\* Both threads run.  The lock is free between two updates and a page that a
\* fault has made writable stays so until the next one, a 60th of a second
\* later: a thread that tries again and again gets there.
VosfFairSpec ==
  /\ VosfSpec
  /\ WF_vosfVars(UpdateDisplay)
  /\ SF_vosfVars(WriterWaits) /\ SF_vosfVars(RetryWrite /\ wpc' = "run")

-----------------------------------------------------------------------------
\* Properties.

\* A row that covers a page which is not marked, between two that are, is
\* blitted once on a full screen, before the second one is protected: what the
\* Mac writes there in between is lost.
LosesOverlap == display_type = "screen" /\ geometry.row > PageSize

\* The redraw thread is going to blit the line of the byte that is followed,
\* and no write to it gets through before.
BlitComing ==
  /\ PageOf(watched) \notin writable
  /\ upc = "blit" /\ RowOf(watched) \in y .. y2

\* The redraw thread has taken the page and is going to protect it and to blit
\* all of its lines.
PageTaken == upc = "protect" /\ PageOf(watched) \in first .. page - 1

\* No change of the frame buffer is forgotten: a byte the host does not show is
\* in a page that is marked, in a buffer that is known to be touched, or is being
\* brought to the screen; and a page that can be written without a fault is
\* marked, so that what is written next is not forgotten either.
NoUpdateLost ==
  LET marked == PageOf(watched) \in dirtyPages /\ (dirty \/ VosfLocked)
  IN  ~LosesOverlap =>
        /\ stale => marked \/ PageTaken \/ BlitComing \/ wpc = "palette" \/ blank
        /\ PageOf(watched) \in writable => marked \/ PageTaken

\* The screen comes to show what the Mac has drawn (except the rows above, and
\* black areas of a full screen that was suspended: nothing differs from the
\* copy there).
ScreenCatchesUp ==
  (stale /\ ~LosesOverlap) ~> (~stale \/ blank)

\* A write that faults gets through, although a page marked by ForceRefresh or
\* RedrawColors stays protected and the write faults until the redraw thread
\* has come by (unless parts of the window are exposed again and again).
WriteCompletes ==
  \/ []<><<\E black \in BOOLEAN : ForceRefresh(black)>>_vosfVars
  \/ (wpc \in {"fault", "retry"}) ~> (wpc = "run")
=============================================================================
