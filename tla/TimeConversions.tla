-------------------------- MODULE TimeConversions --------------------------
(***************************************************************************)
(* The arithmetic of the Time Manager (src/src/Unix/timer_unix.cpp):       *)
(* addition, subtraction and comparison of host times and the conversion   *)
(* between host times and the Mac's 32-bit delay format, in which a        *)
(* positive value counts milliseconds and a negative one microseconds.     *)
(*                                                                         *)
(* The code's literals are constants, so that TLC can check small scales   *)
(* exhaustively: 1000 ns per us, 1000 us per ms, 1000 ms per s, and a      *)
(* half word of 2^16 values (a Mac long is two half words).                *)
(***************************************************************************)
EXTENDS Integers

CONSTANTS NsPerUs, UsPerMs, MsPerSec, HalfWord

ASSUME ScaleAssumption ==
  /\ NsPerUs \in Nat \ {0}
  /\ UsPerMs \in Nat \ {0}
  /\ MsPerSec \in Nat \ {0}

ASSUME HalfWordAssumption == HalfWord \in Nat /\ HalfWord >= 2 /\ HalfWord % 2 = 0

UsPerSec == UsPerMs * MsPerSec
NsPerSec == UsPerSec * NsPerUs

\* 0x7fffffff, written so that no intermediate value leaves 32 bits.
Int32Max == (HalfWord \div 2 - 1) * HalfWord + (HalfWord - 1)
Int32    == (-Int32Max - 1) .. Int32Max

\* Conversion of a longer integer to int (two's complement wrap-around).
ToInt32(x) == ((x + Int32Max + 1) % (2 * (Int32Max + 1))) - Int32Max - 1

\* A host time: struct timespec.  The seconds may be negative (a difference).
HostTime(sec, nsec) == [sec |-> sec, nsec |-> nsec]
Normalised(t) == t.nsec \in 0 .. NsPerSec - 1

-----------------------------------------------------------------------------

\* Mutant: the carry of an exact second is forgotten.
AddCarryLate(a, b) ==
  LET nsec == a.nsec + b.nsec
  IN  IF nsec > NsPerSec THEN HostTime(a.sec + b.sec + 1, nsec - NsPerSec)
                         ELSE HostTime(a.sec + b.sec, nsec)

timer_add_time(a, b) ==
  LET nsec == a.nsec + b.nsec
  IN  IF nsec >= NsPerSec THEN HostTime(a.sec + b.sec + 1, nsec - NsPerSec)
                          ELSE HostTime(a.sec + b.sec, nsec)

timer_sub_time(a, b) ==
  LET nsec == a.nsec - b.nsec
  IN  IF nsec < 0 THEN HostTime(a.sec - b.sec - 1, nsec + NsPerSec)
                  ELSE HostTime(a.sec - b.sec, nsec)

\* The difference of two 64-bit seconds is returned as an int.
timer_cmp_time(a, b) ==
  ToInt32(IF a.sec = b.sec THEN a.nsec - b.nsec ELSE a.sec - b.sec)

\* C's division and remainder by a positive number truncate towards zero.
CDiv(x, d) == IF x < 0 THEN -((-x) \div d) ELSE x \div d
CMod(x, d) == x - d * CDiv(x, d)

\* Mutant: a delay of one millisecond is taken for microseconds.
Mac2HostOffByOne(mactime) ==
  IF mactime > 1
  THEN HostTime(mactime \div MsPerSec, (mactime % MsPerSec) * UsPerMs * NsPerUs)
  ELSE LET us == ToInt32(-mactime)
       IN  HostTime(CDiv(us, UsPerSec), CMod(us, UsPerSec) * NsPerUs)

\* The negation of the most negative int is itself (two's complement build).
timer_mac2host_time(mactime) ==
  IF mactime > 0
  THEN HostTime(mactime \div MsPerSec, (mactime % MsPerSec) * UsPerMs * NsPerUs)
  ELSE LET us == ToInt32(-mactime)
       IN  HostTime(CDiv(us, UsPerSec), CMod(us, UsPerSec) * NsPerUs)

\* Mutant: an overdue time is not clamped to 0.
Host2MacUnclamped(t) ==
  LET us == t.sec * UsPerSec + t.nsec \div NsPerUs
  IN  ToInt32(IF us > Int32Max THEN us \div UsPerMs ELSE -us)

timer_host2mac_time(t) ==
  IF t.sec < 0
  THEN 0
  ELSE LET us == t.sec * UsPerSec + t.nsec \div NsPerUs
       IN  ToInt32(IF us > Int32Max THEN us \div UsPerMs ELSE -us)

\* ReadMacInt16 at the address of a big-endian long: its upper half, unsigned.
ReadMacInt16(long) == (long \div HalfWord) % HalfWord
=============================================================================
