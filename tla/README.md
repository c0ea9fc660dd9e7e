# SheepShear: a TLA+ verification project

SheepShear (a fork of SheepShaver) runs classic Mac OS for PowerPC on Unix and
other hosts. Mac code runs on one *emulation thread*; timers, serial lines,
Ethernet, audio, video and input are host threads that talk to it through
interrupt flags, semaphores and shared structures. Most of what can go wrong
happens between these threads, or in state machines that the Mac drives with long
sequences of calls. That is what these modules are about.

Source paths below are relative to `src/src/`.

## 1. Inventory

| Part | State | Operations | Interacts with | Hard about it | Correct means |
|---|---|---|---|---|---|
| Time Manager (`timer.cpp`) | descriptor list, wakeup time and active bit per task, `wakeup_time`, suspend count, signals | `InsTime`, `RmvTime`, `PrimeTime`, `TimerReset`, `TimerInterrupt`, `timer_func`, suspend/resume by signals, exit | interrupt flags; callbacks of the Mac | a thread suspended by a signal at any instruction, unlocked reads, callbacks that call back | no wakeup lost, no stale sleep, calls return |
| Time conversions (`Unix/timer_unix.cpp`) | none | add, subtract, compare, Mac to host and back | Time Manager | carries, sign, change of unit, overflow | durations survive |
| Interrupt delivery (`Unix/main_unix.cpp`, `kpx_cpu/sheepshaver_glue.cpp`, `ppc-cpu.cpp`, `emul_op.cpp`, `Unix/timer_unix.cpp`) | `InterruptFlags`, special flags, `XLM_IRQ_NEST`, run mode, 68k level | set and clear flags, trigger, poll, `HandleInterrupt`, `OP_IRQ`, `idle_wait` | every device thread; nested Mac code | triggers are dropped, activations nest, sleeping without a predicate | no reentrance, no request lost, counter balanced, everyone released |
| Serial driver (`serial.cpp`, `Unix/serial_unix.cpp`) | pending and done flags, `io_killed`, `quitting`, two threads with semaphores, deferred tasks | open, prime, KillIO, close, interrupt, the threads | interrupt flags, Device Manager | unlocked flags on both sides, KillIO and close during I/O | each request completed exactly once, closing ends |
| SCSI Manager (`scsi.cpp`, `Unix/Linux/scsi_linux.cpp`) | phase, target, direction, scatter/gather table, TIB, reply buffer | `SCSIReset` ... `SCSIComplete`, `exec_tib`, the driver | the Mac's calls in any order | self-modifying TIBs, a full table, globals left by abandoned transactions | the bytes, target and direction of this transaction |
| ADB input (`adb.cpp`) | key ring, matrix, mouse state | key and mouse events, `Interrupt`, `Op` | input threads, interrupt flags | ring without lock or overrun check, flag cleared before the input is read | keys and motion arrive once, in order |
| Audio (`audio.cpp`, `SDL/audio_sdl.cpp`) | component status, sources, acknowledge semaphore | dispatch, stream callback, interrupt, open, close | interrupts | closing while the callback waits, memory released under it | callback released, with its own block |
| Ethernet (`ether.cpp`, `Unix/ether_unix.cpp`) | DLPI streams, reception thread, slirp pipes | stream calls, reception, transmission | interrupts, slirp | interrupts in the middle of a message, leftovers of earlier bindings | a stream gets the packets it asked for |
| Video (`video.cpp`, `SDL/video_sdl.cpp`, `Unix/video_x.cpp`, `Unix/video_vosf.h`) | modes, redraw thread, dirty pages | mode switch, redraw, page faults | interrupts | handshakes by semaphore, lock and spinning, faults against the redraw | no update lost, one owner of the display, nobody hangs |
| Disk drivers (`sony.cpp`, `disk.cpp`, `cdrom.cpp`) | drive list | prime, control, mount events | 1Hz part of the tick | drives removed and inserted | status matches the medium |
| Host file system (`extfs.cpp`) | FCBs, directory cache | HFS calls | host files | size | host and Mac view agree |
| XPRAM (`xpram.cpp`, `Unix/main_unix.cpp`) | 8 KB and its last saved copy | watchdog, save, load | the Mac | save while it changes | last state saved |

Not of interest here: preferences and dialogs, clipboard, memory mapping and fault
decoding, byte patches of the ROM, instruction semantics and generated code of
`kpx_cpu`, `slirp` (third-party), the Haiku, Mac OS X and Windows ports, dummies.
`PROJECT.json` lists every part with its reason, and the hazards line by line.

## 2. Plan

Done:

1. `TimeConversions`, `TimeArithmetic`: the time functions.
2. `TimeManager`: calls, interrupt, thread and signals; `TimeManagerProofs`.
3. `Interrupts`: delivery from device threads to `OP_IRQ`.
4. `SerialPort`: driver, threads and Device Manager.
5. `SCSIManager`: phases, TIB interpreter, Linux driver.

6. `TimerService`: what the Time Manager promises; `TimeManager` implements it.
7. `AdbInput`, `Vosf`, `VideoThread`, `AudioOutput`, `EtherStreams`: the devices
   behind the flags of `Interrupts`; `MC_Devices` checks them as a sum.

8. Theorems: the invariants of every component, the refinement of `TimerService`, and
   which hangs there are (section 6), in eight proof modules.

To come: nothing that the plan names. What the proofs leave to TLC, and why, is at the
end of section 6.

## 3. Modules and the code

Where a name exists in the source the definition has it. Operators introduced by a
comment "Mutant:" are wrong variants of the definition that follows. They are used
by no specification; each shows that some property notices that change.

**TimeConversions** holds the functions of `Unix/timer_unix.cpp`. The scales (1000
nanoseconds per microsecond and so on) and half the width of a Mac word are
constants, so that TLC can run over *every* word. C's division truncates, its
`int` wraps, and `ReadMacInt16` of a long is its upper half, unsigned.
**TimeArithmetic** chooses inputs and states what the results should denote.

**TimeManager** is the `PRECISE_TIMING_POSIX` build. `epc` says where the emulation
thread is, `tpc` where the timer thread is. A call of the Mac ends at the statement
where another thread can intervene: `PrimeTime` (which computes the descriptor's
wakeup first), `RmvTime` and the end of `TimerInterrupt` all go on with
`timer_thread_suspend`, `AwaitSuspendAck`, `LockWakeupTime`, `Update` (everything
done under the lock, by the name of the call) and `timer_thread_resume`, after which
`RmvTime` frees its descriptor. `timer_func` has one action per access to shared
state: `EnterSleep`, `LeaveSleep`, `ReadClock`, `CompareTime`, `ThreadLocks`,
`ClearWakeupTime`, `TriggerTimerInterrupt`. The signal handlers are actions that can
happen at any of them; SIGRESUME stays pending until `sigsuspend` unblocks it.
`TimerInterrupt` walks the list and makes callbacks, from which the tasks in
`MayCall` may be inserted, primed or removed. Two things in it are undefined in
C++ and arbitrary here: the wakeup of a new descriptor, and what the walk reads in a
descriptor that a callback freed. `WalkFreedDesc` runs the loop's body on it: its task
may be any active one, which is then called whatever its own time is, and its next any
descriptor, the end, or again memory that is none. One thing is assumed: memory that is
not a task of the Mac does not look like an active one. In the model a time is a number of
microseconds; the conversions at the Mac's side are those of `TimeConversions`.

**TimerService** is the promise: a set of armed tasks with their times, a callback
for an armed task that is due, one at a time and once per arming. The code keeps it
under one condition, which the service states as `astray`: a callback that removes
another task may lead the service astray, and until it recovers any armed task may be
called at any time (`StrayCall`). `TimeManager` implements it under the mapping at its
end: the active tasks are armed, a descriptor's wakeup is the time, the task whose
callback runs is the one called, and the service is astray while the walk is to go on
at a freed descriptor, or came from one to the task it has just called (`Astray`).
Threads, signals, lock and `wakeup_time` are invisible.

**Interrupts** is the `EMULATED_PPC` build. The emulation thread is the stack of its
activations (68k code, native code, nanokernel, EMUL_OP routines, Mac code they
call, the interrupt handler, `OP_IRQ`); see the module's header. Device threads set
their flag, trigger, and in the case of Ethernet and audio wait for an
acknowledgement. `PromoteTrigger`, `DropInterrupt` and `HandleInterrupt` are
`check_spcflags`, with the three run modes as disjuncts. The 68k emulator and the
nanokernel are in the ROM: their taking a level 1 interrupt, masking, and return are
external, as `HandleInterrupt`, `OP_IRQ` and the ROM patches use them.

**SerialPort** is one port. Both directions run the same code and are indexed by
`Dirs`. The threads have one action per access to a shared flag, and the store of a
result is a step before the one that marks the command as done (`ReportDone`); `SerialInterrupt` has
one for the test with the queueing and one for the clearing. The Device Manager is
external: one request per direction at a time, IODone ends it, and after a KillIO
it ends the request of the direction that KillIO was for.

**SCSIManager** has the calls of the Mac in any order, and `exec_tib` one
instruction at a time on a program whose words the instructions themselves change.
Addresses are numbers; instruction `i` of a TIB is at `10 (i - 1)`, as its 10 bytes
are in memory. The history variables record what a transaction asked for, to compare
with what the table and the globals say.

**AdbInput** is `ADBInput` between the window's thread (`ipc`) and
`ADBInput::Interrupt` on the emulation thread (`apc`). The stores of a key and of
the write pointer, and the interrupt's flag, are actions of their own; the mouse is
read under its lock in one. `Encoded` keeps the low bits of a distance as the ADB
data do. A buffer that gets full is an empty one, as in the code. `owedKeys`
and `owedMotion` are what the Mac has not been told.

**Vosf** is `video_vosf.h` with the parts of `video_x.cpp` that mark pages. It follows
one byte (`watched`, any) and whether the host shows it (`stale`) and the copy
of a full screen equals it (`copied`). A write to a protected page faults, the handler
marks the page and makes it writable, the write is retried; the redraw thread
takes a run of marked pages, protects them and blits their lines one by one, in the
window's way or the full screen's. A geometry is a row length and a number of
lines, so that rows share pages and pages share rows.

**VideoThread** is the rest of the redraw thread: the pause for a mode switch by two
semaphores, Ctrl-Tab and the frame buffer lock that `VideoVBL` offers, Ctrl-Esc,
`VideoQuitFullScreen` with its spinning, `VideoExit` with `pthread_cancel`. The end of a
suspension is two steps: the lock is released, and only then `emul_suspended` cleared. That
`pthread_cancel` acts where a thread waits for a semaphore or for events and not
for a mutex is POSIX.

**AudioOutput** is the sound output component and the SDL driver. `dpc` is where
`Dispatch` has called Mac code or SDL, which is where an interrupt or `Stream` can
come in between; `spc` is `Stream`. `adatStreamInfo` is the word of the data area that
the interrupt writes and `Stream` reads; `InitOutputDevice` clears it, and the block it
names goes with the mixer. `answer` is what the interrupt has put there for the current
`Stream`. The Component Manager (calls only for open
instances), the mixer (which may fail to open) and SDL (`SDL_CloseAudio` returns when
no callback runs) are external.

**EtherStreams** is `ether.cpp` as it is built into the Mac's driver. DLPI messages
come one after the other, for any open stream; an Ethernet interrupt may come where one
runs Mac code: while `DLPI_unbind` flushes, and while `DLPI_disable_multi` frees the
node it took out of the list, before `MultiDisabled` clears the flag that goes with it.
Protocols, group addresses and SNAPs are classes that the tests of
`ether_packet_received` tell apart. `asked` is what the client was told.

**MC_Devices** is a sum, not a product: a behaviour belongs to one of these modules.
They share no variable; where one relies on another (`SetRelMouseMode` on a paused
redraw thread, suspension on `VideoVBL`) the guard says so and the other module
checks it (`OneOwnerOfDisplay`).

## 4. Runs

| Run | Checks | Instance |
|---|---|---|
| `time_manager` | `TypeOK`, `NoLostWakeup`, `SleepsUntilWakeupTime`, `StoppedDuringUpdate`, `ImplementsTimerService` | two tasks, one extended, callbacks that call, clock to 1, wakeups to 2; 2.7 million states |
| `time_manager_live` | `OverdueTaskServed`, `ExitJoins` | one extended task, wakeups to 4 |
| `time_manager_suspend` | `PrimeTimeReturns` is violated | the same |
| `time_arithmetic` | `TimesExact`, `DelayRoundTrip`, `RemainingTimeKept` | 2 ns per us, 3 us per ms, 2 ms per s, words of 8 bits |
| `time_continue` | `SavedDelayIsContinued` is violated | the same |
| `interrupts` | `TypeOK`, `NoNestedIrq`, `RequestNotLost`, `NestBalanced` | tick, Ethernet, audio; nesting to 6 |
| `interrupts_live` | `DeviceReleased`, `IdleWakes` | tick and Ethernet; nesting to 3 |
| `serial` | `TypeOK`, `RequestTracked`, `CompletionDue`, `ThreadHasRequest`, `RequestEnds`, `ClosingEnds` | one port, no bounds |
| `serial_killio` | `KilledNotReported` is violated | the same |
| `scsi` | `TypeOK`, `TableIsTransfer`, `TibDenotes`, `TransferIsOwn`, `TibEnds` | two targets, ten TIBs, three table entries, words of 2 bits |
| `scsi_sense` | `SenseIsOfTarget` is violated | the same |
| `devices` | see below | the five device modules, 104,000 states |

`devices` checks, besides the types: `KeysInOrder`, `InputAnnounced`,
`MotionConserved` and `InputReachesMac` (what the user does reaches the Mac, once
and in order, although the ring has no lock and the flag is cleared before the input
is read); `NoUpdateLost`, `ScreenCatchesUp` and `WriteCompletes` (a changed byte is
always marked or about to be drawn, the screen catches up, and a faulting write gets
through); `OneOwnerOfDisplay` and `EmulationGoesOn` (who may touch the display, and
that the emulation thread hangs only in the deadlocks that `Deadlocked` names);
`BlockIsAnswer` and `SoundGoesOn` (`Stream` reads what the interrupt wrote for it,
although `InitOutputDevice` clears that word, and hangs only with `SDL_CloseAudio`); `DeliveredAsAsked` (a stream gets exactly
what its client was told).

*Bounds.* With a clock from 0 to 1 and wakeups from 0 to 2 an interrupt at 1 finds a task that is
overdue (its wakeup is 0, and the thread wakes a task only after its time), one that is due at that moment, or one
that is still in the future, which only a stray walk may call; two tasks are enough for one
to prime or remove the other during its callback, for the list to have a head and
a tail, and for the minimum to move from one to the other. With one task, as in
`time_manager_live`, no descriptor is freed under the walk, so the refinement is
checked with two. `MaxTime` and
`MaxWakeup` bound only the clock and the wakeups. The scaled words of
`TimeArithmetic` keep the order of the constants (a second is more than a
millisecond and less than the largest delay in milliseconds), so that every branch,
carry and wrap of the functions is taken. A nesting of 6 allows an interrupt in Mac
code called by an EMUL_OP, with 68k code called from its handler. The serial model is finite by itself. The TIBs have each
instruction, loops that start at 0, nested loops, a stride, a copied pointer,
an unimplemented and an unknown instruction; `MaxLength` stops a transaction only
after the table has been full and the buffer has had to grow. `Word = 4` lets a counter wrap within
a few rounds. Devices: a key buffer of three slots fills and wraps while it is
read; a distance of 2 does not fit 7 bits (scaled to `Delta7 = 1`) and fits 10;
pages of 3 bytes with rows of 2 (a row over two pages, a page with parts of three
rows) and one row of 7 (pages inside a row); two instances of the sound component
and one source either way, which is enough for a count that disagrees with the
mixer; one stream, since each is tested by itself, with every kind of protocol, one
group address, two SNAPs, so that a wrong one exists, and one multicast address. That two
streams with the same multicast address are counted twice is left to the theorem.

*Deadlock* is checked in `interrupts`, `interrupts_live` and `scsi`. In
`time_manager` the system may end (`TimerExit`) and may be wedged as the finding
says; the serial driver ends with `SerialExit` and may be wedged in KillIO; the
arithmetic runs take one step; the devices end with the program, or hang as `Deadlocked` and `CloseDeadlock` say.

*Fairness.* Time Manager: the host schedules both threads and the clock runs (weak
fairness); the timer thread is often suspended but runs between suspensions, and
an interrupt that stays pending is taken although the Mac keeps calling, because the
emulator polls between blocks (strong fairness); callbacks return. `OverdueTaskServed`
says "or wedged": the deadlock of the finding is the one exception.
Interrupts: threads run, activations return. That alone releases nobody: a dropped
request is repeated only by the next 60Hz tick, so a Mac that masks interrupts at
each tick would starve a device. The fairness therefore adds, as an assumption on
the Mac and not on the emulator, that it starts, and from some time on no longer
masks and runs native code at level 0. What the runs show is that a
request that was dropped any number of times before is still served then. Serial: the
threads run and reads and writes return (a read from a silent line does not, and
then neither does a close); interrupt and deferred tasks are served. SCSI: a call runs to its end. Devices: each
thread runs (weak fairness) and interrupts are served. Strong fairness stands for
three facts: a thread that tries for `vosf_lock` gets it, since it is free between two
updates, and a write that is retried gets through before the next update, a 60th
of a second later; the redraw thread, whose events end, comes both to a refresh
and to the end of its loop; and the Mac starts and takes audio interrupts although its
calls go on.

## 5. What disagrees with the code

Four runs end in a violation, each of something the source says of itself:

* `time_manager_suspend`: the timer thread can be suspended between taking and
  releasing `wakeup_time_lock`, and the suspender then takes that lock: PrimeTime,
  RmvTime and TimerInterrupt can hang (`timer.cpp:593-595` against `496-497`).
* `time_continue`: the remaining time is saved as a long and read as a word
  (`timer.cpp:400`, `459`).
* `serial_killio`: a thread that tested `io_killed` just before KillIO reports its
  command all the same, and KillIO then waits for ever (`Unix/serial_unix.cpp:748`, `319`).
* `scsi_sense`: a new target clears a bit that nothing reads; the sense data of the
  old one are returned (`Unix/Linux/scsi_linux.cpp:173`, `212`).

Met while modelling, and kept in the models as what the code does; the properties
name them as exceptions:

* A callback that removes the task after its own frees the descriptor with which
  `TimerInterrupt` goes on (`timer.cpp:617-620`): a task may be called before its
  time (`TimerService!StrayCall`).
* On a full screen whose rows are longer than a page, a row that was drawn in
  this update is skipped although a page of it was written since
  (`Unix/video_vosf.h:591-598`): the change is not shown (`LosesOverlap`).
* A resumed full screen clears the copy but does not set `very_dirty`: areas
  that are black equal the copy and are not drawn (`Unix/video_x.cpp:1802`).
* Ctrl-Tab during a mode switch, an error or the exit waits for the frame buffer
  lock, whose owner waits for the redraw thread; when a display cannot be opened,
  "Then bail out" (`Unix/video_x.cpp:2181`) may wait for a thread that is paused
  (`Deadlocked`).
* Ctrl-Esc and Ctrl-Tab that are handled in one batch of events, while the emulation
  thread stands in `VideoVBL`: the redraw thread suspends the emulation and then leaves
  its loop for the full screen's end, with the frame buffer lock it took; nobody
  resumes, and `VideoVBL` never returns (`Unix/video_x.cpp:2467-2485`; found in the
  proof that `Deadlocked` is complete).
* A change of the sample format, or the exit, during the wait of `Stream` hangs
  (`SDL/audio_sdl.cpp:137`, `CloseDeadlock`). SetInfo refuses a change only while
  there are sources, and the last one may be removed while the callback waits.
* `audio_data` may be released or reset, or the mixer with the block closed, while
  `Stream` is going to read it (`audio.cpp:483-489`); a reset keeps the mixer's address and the count of sources (`audio.cpp:89-93`).
* `kAcceptAll8022Packets` survives an unbind and a new binding, until the stream is closed
  (`ether.cpp:1403`, `1472`); an unbind of a two-byte address, which is how group
  addresses and the one of all packets are bound, is acknowledged without effect on them, and every successful unbind of a subsidiary
  address ends the SNAP binding (`ether.cpp:1549-1573`).
* While the last multicast address of a stream is being disabled its list is empty and the
  flag still set: a multicast packet that comes then is dropped (`ether.cpp:1644-1652`).

Seen beside the models: `audio_spec.channels` is indexed by the sample size
(`SDL/audio_sdl.cpp:79`); the callback may run before `gMacAudio` is assigned
(`SDL/audio_sdl.cpp:49`, `main.cpp:148`); `delete gADBInput` comes before the redraw
thread ends (`main.cpp:305`); slirp's packets lose their boundaries in a pipe
(`Unix/ether_unix.cpp:786`); `DLPI_disable_multi` frees a pointer into
the node that `RemoveMulticast` has just freed (`ether.cpp:1645`).

## 6. Proofs

TLC checks the small instances of section 4; the theorems below hold for every value
of the constants that the modules' assumptions allow. Each says that a component's
specification implies always the property of that name, so most rest on an
inductive invariant: it holds initially (`Init...`), every step keeps it
(`Step...`, one proof step per action and below it one per conjunct the action can
disturb), and it implies the properties. TLC checked each inductive invariant on the
instance before it was proved.

| Module | Theorems | For every |
|---|---|---|
| `TimeManagerProofs` | `TypeCorrect`, `WakeupsKept` (`NoLostWakeup`), `SleepCurrent` (`SleepsUntilWakeupTime`), `UpdateExclusive` (`StoppedDuringUpdate`), `NoOtherWedge`, `WedgeLasts`, `Refinement` (`ImplementsTimerService`) | set of tasks, relation of callbacks, delays, bounds |
| `TimeArithmeticProofs` | `TimesAreExact` (`TimesExact`), `DelaysSurvive` (`DelayRoundTrip`), `RemainderKept` (`RemainingTimeKept`) | scale, word size |
| `InterruptsProofs` | `TypeCorrect`, `IrqNotNested` (`NoNestedIrq`), `RequestsNotLost` (`RequestNotLost`), `NestingBalanced` (`NestBalanced`) | set of devices, depth of nesting |
| `SerialPortProofs` | `TypeCorrect`, `RequestsTracked` (`RequestTracked`), `CompletionsDue` (`CompletionDue`), `ThreadsHaveRequests` (`ThreadHasRequest`), `NoOtherWedge`, `WedgeLasts` | behaviour (the module has no bounds) |
| `SCSIManagerProofs` | `TransfersAreOwn` (`TransferIsOwn`), `ProgramsStay` (`ProgramOK`), `TypeCorrect`, `TablesAreTransfers` (`TableIsTransfer`) | targets, well-formed TIBs, sizes of word, table and buffer |
| `VideoProofs` | `VideoTypeCorrect`, `DisplayHasOneOwner` (`OneOwnerOfDisplay`), `NoOtherDeadlock`, `DeadlocksLast`; `VosfTypeCorrect`, `UpdatesNotLost` (`NoUpdateLost`) | row length, number of lines, page size |
| `AudioEtherProofs` | `AudioTypeCorrect`, `BlocksAreAnswers` (`BlockIsAnswer`), `NoOtherSoundDeadlock`, `SoundDeadlockLasts`; `EtherTypeCorrect`, `PacketsDeliveredAsAsked` (`DeliveredAsAsked`) | number of instances, sources, streams, protocols, groups, addresses |
| `DevicesProofs` | `AdbTypeCorrect`, `KeysKeepOrder` (`KeysInOrder`), `InputIsAnnounced` (`InputAnnounced`), `MotionIsConserved` (`MotionConserved`); `DevicesImplement`, `DevicesTypeCorrect` (`DevicesTypeOK`), `DevicesSafe` for the sum | size of the key buffer, positions and ranges of the mouse, and all of the two rows above |

*Assumptions* are those of the modules, which TLC evaluates on every run. Worth
knowing: scales and sizes are positive; delays fit a Mac word; `wakeup_time_max` is
later than the bounds of clock and wakeups; the names of tasks are not the marker
`"freed"`; the set of streams is finite (listeners are counted); the seconds of host
times are below 2^31 and a second has no more nanoseconds than an `int` holds, without
which the `int` of `timer_cmp_time` wraps. `TibAssumption` is the one that the Mac has
to keep and not the emulator: a TIB is well-formed (`WellFormed`) when its last
instruction ends it, its loops jump to its own instructions, and `scAdd` and `scMove`
change parameters, not jumps or addresses. `exec_tib` checks none of this and follows
any TIB anywhere, so that nothing could be said without it. `TypesOfPrograms` is
the weaker fact for other TIBs: the types hold as long as `ProgramOK` does.

**Time Manager.** None of the four invariants is inductive. `StoppedDuringUpdate`
depends on the state of the handshake at every point, so `Protocol` says, for each
place of the emulation thread, what is true of the suspend count, the two signals, the
semaphore and the thread's mode: from the acknowledgement to the resume the thread is
stopped and no signal is pending; elsewhere it is stopped exactly if a SIGRESUME is
pending. `SleepsUntilWakeupTime` follows: `wakeup_time` is written by `Update`, when
the thread is stopped and, since the signal has ended its sleep, not asleep, and by
the thread itself. `Locking` ties the mutex to the two places that hold it. For
`NoLostWakeup` the interesting steps are `ClearWakeupTime`, which forgets every
wakeup and owes an interrupt instead, and `TimerInterrupt`, which takes the flag
and owes a recomputation; `Calls` says that such a debt belongs to a call in
progress whose task is installed, and `NoDuplicates` that `free_desc` removes the
task altogether.

`Refinement` is proved step by step from the same invariant: a step of the threads
leaves the service's variables alone (`ServiceStutters`), PrimeTime and RmvTime arm and
disarm one task (`ServiceArms`, `ServiceDisarms`), and a callback is a `Call` of an armed
task that is due, or a `StrayCall` from a freed descriptor. That last step needs `Walk`, a
second invariant: the descriptor the interrupt stands at is installed, freed or the end of
the list, also after callbacks that changed the list; the moment it compares with is not
ahead of the clock; and a callback manages only the tasks it may. That the service goes
astray only when a callback removes another task is part of what is proved.

**Time functions.** There is no state to speak of, so the proofs are arithmetic: products
of symbolic scales are beyond a linear solver, and `Product`, `Division` and
`QuotientUnique` are the three facts everything else is reduced to. A normalised time is
determined by its nanoseconds (`NsUnique`), from which it follows that addition and
subtraction undo each other.

**Interrupts.** `NoNestedIrq` and `NestBalanced` speak of the whole stack of activations.
`Nesting` says that only the current activation can have interrupts disabled, because
nothing is called from one that has, so that `XLM_IRQ_NEST` is 0 or 1. `Handlers`
says that one level 1 handler runs at a time and at a raised level, and that `OP_IRQ` is
directly above it. `Requests` says that the request of a waiting device is in exactly
one place: its flag, its handler or its acknowledgement. The lemmas on pushing, popping
and replacing the top (`PushFacts`, `PopFacts`, `BecomeFacts`, `CountFacts`) carry the
reasoning about sequences, and `CallKeeps`, `ReturnKeeps` and `SwitchKeeps` say what
an action of that shape does to the invariant.

**Serial driver.** `Closing`, `Commands`, `Killing` and `Completion` say for each place of
the emulation thread and of an I/O thread which flags are set and how many posts its
semaphore has. `RequestTracked` and `ThreadHasRequest` need all four at once,
because KillIO and close are stopped in the middle by what a thread has not done yet.

**SCSI Manager.** `TransferIsOwn` relates phases to globals that other calls wrote.
`Fresh` says that between SCSIGet and the command nothing is left of an earlier
transaction, and `Executing` that a TIB runs only in a transfer. The bound of the table
is `PieceFits`: a piece is merged, or entered into a table that is not full. That a
program stays in its instructions is not obvious, as it changes itself: `StaysWellFormed`
says that well-formedness survives a change of the parameters, and `OtherParameter` and
`ExecStaysInProgram` that every instruction changes only those. `TableIsTransfer` compares
two ways to count bytes, so the invariant `Transfer` holds from SCSIGet on, where both
are empty. `BytesAppend` and `BytesMerge` are its two steps: a new entry adds its bytes at
the end, and a longer last entry adds the bytes that follow it. Both rest on what
`FlattenSeq` returns for a sequence that got longer, which is an induction over data; the
library's induction theorems cannot be used with these provers, so `ConcatenationsExist`
and `ConcatenationsAgree` argue by the least counterexample, which `WFMin` gives for the
set of lengths at which the claim fails (`LeastNumber`).

**ADB input.** The ring is a queue of which each thread owns one end; the invariant says
where the keys between the pointers are, also of a half-done store (`Queue`), and that
what the interrupt has read of the mouse is current or announced anew (`InHand`).

**Video.** `Pausing` and `Locks` say that neither semaphore of the pause is ever left
over for the next one, and who has the frame buffer lock. For VOSF the property itself
is a part of the inductive invariant. `Updating` adds that an update leaves nothing
marked behind it, `Ended` that the range it took ends at a page that is not marked,
`Skipping` that the line it skips as drawn is not one of a page to come (with rows no
longer than a page), `Colored` why a byte can be stale although the copy has it. As rows share pages and pages
share rows, the proof needs facts about quotients of the screen's sizes
(`QuotientBounds`, `LineFacts`, `RangeFacts`).

**Audio and Ethernet.** `Handshake`: a waiting `Stream` has either its interrupt pending
or its answer posted; `DataArea`: the data are there while somebody may read them,
but for the cases section 5 names; `Block`: what is in `adatStreamInfo` is the answer to
the current `Stream` as long as its mixer is there, and without a mixer there is nothing
that `InitOutputDevice` could wipe. `Bound`, `Answers`, `Flushed` and `Listened`: an
unbound stream keeps nothing but the leftovers that `leftover` records, what a client was
told is what the tests of reception compare, the queue of an unbound stream is empty, and
the host counts at least as many listeners as there are. An address in the middle of its
disabling still counts as registered; `OneDisabled` says that it is one and out of the list.

**Devices.** A step of the sum is a step of one device and leaves the others' variables
alone (`StepOfDevices`), hence the sum implements each device (`DevicesImplement`), and
their theorems hold in what the `devices` run checks.

**Deadlocks.** The liveness properties of four components make an exception of the states
in which threads hang: `Wedged` (Time Manager, serial driver), `Deadlocked` (video) and
`CloseDeadlock` (audio). Liveness itself is out of the prover's reach, but its core is
safety: outside these states, what a waiting thread waits for is there or in the hands of
one that can go on (`NoOtherWedge` twice, `NoOtherDeadlock`, `NoOtherSoundDeadlock`); and
these states are never left (`WedgeLasts` twice, `DeadlocksLast`, `SoundDeadlockLasts`),
so that the exceptions are hangs and not a way to excuse a delay. Each needs an
invariant of its own on top of the component's: a signal that is waited for is
on its way (`Signalled`), a command not done is posted or worked on (`Underway`), a paused
redraw thread has a reason to be and its end leaves a trace (`Waiting`), no callback outlives the device
(`Silent`). "Can go on" is written out as guards (`EmulRuns`, `RedrawRuns`,
`SuspendMoves`, `WaitsMove`, `SoundMoves`), since ENABLED is out of reach as well; for video TLC
confirmed that the guards are those of the threads' actions. This is where the proofs
changed the model: `Deadlocked` named a state that the pending resume still ends and
missed one that hangs (section 5).

Only model-checked:

* liveness (`OverdueTaskServed`, `ExitJoins`, `DeviceReleased`, `IdleWakes`, `RequestEnds`,
  `ClosingEnds`, `TibEnds` and those of `devices`): it needs fairness and ENABLED, of which
  the paragraph above proves what is safety;
* `TibDenotes`: it compares the bytes of particular programs with what they are
  said to denote, and is a matter of the instance.

## 7. Not modelled

The modules cover the parts of the program where threads meet and where the Mac drives
a state machine. That is a small share of its lines, and most of the
rest has no behaviour that a state machine would describe:

* `kpx_cpu`: instruction semantics, the decoder, the JIT compilers and their code
  generators (about a third of the repository), where an error is one wrong value;
* `slirp`, `sheep_net`, `sshpty`, the demangler and ELF tables: third-party code;
* the Haiku, Mac OS X and Windows ports, and the SDL, OSS and ESD variants of drivers
  whose other variant is modelled;
* byte patches of ROM and resources, the decoding of faulting instructions, blitters,
  acceleration, image formats, text conversion: tables and pixel or byte arithmetic;
* preferences, dialogs, the RPC channel: no part of the emulation;
* disk drivers, the host file system and the XPRAM watchdog: sequential calls on one
  thread over host files.

Of the modelled parts: the serial line's settings, volume and mute, sound input, the
DLPI messages that report or send, the classic Ethernet driver, the Mac's video
driver calls and the cursor; `PROJECT.json` says so at each component.
