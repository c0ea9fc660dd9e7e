--------------------------- MODULE TimeArithmetic ---------------------------
(***************************************************************************)
(* One call of each function of TimeConversions on inputs from small sets, *)
(* checked against what the results should denote in nanoseconds and       *)
(* microseconds.                                                           *)
(***************************************************************************)
EXTENDS TimeConversions

CONSTANTS Seconds      \* the seconds of the host times that are tried

\* Moments less than 2^31 seconds apart, beyond which timer_cmp_time wraps; and
\* the nanoseconds of a second fit an int.
ASSUME SecondsAssumption == Seconds \subseteq 0 .. Int32Max /\ NsPerSec <= Int32Max

VARIABLES a, b,        \* two host times
          mac,         \* a Mac delay
          called       \* the inputs are chosen

vars == <<a, b, mac, called>>

Zero      == HostTime(0, 0)
HostTimes == {HostTime(s, n) : s \in Seconds, n \in 0 .. NsPerSec - 1}

TypeOK ==
  /\ a \in HostTimes \cup {Zero}
  /\ b \in HostTimes \cup {Zero}
  /\ mac \in Int32
  /\ called \in BOOLEAN

Init == a = Zero /\ b = Zero /\ mac = 0 /\ called = FALSE

\* Two host times, for the functions that take two.
PickTimes ==
  /\ ~called
  /\ a' \in HostTimes
  /\ b' \in HostTimes
  /\ called' = TRUE
  /\ UNCHANGED mac

\* A Mac delay and the moment it is added to.
PickDelay ==
  /\ ~called
  /\ a' \in HostTimes
  /\ mac' \in Int32
  /\ called' = TRUE
  /\ UNCHANGED b

Next == PickTimes \/ PickDelay

Spec == Init /\ [][Next]_vars

-----------------------------------------------------------------------------
\* What a host time and a Mac delay denote.

Ns(t)    == t.sec * NsPerSec + t.nsec
Us(t)    == Ns(t) \div NsPerUs
MacUs(m) == IF m > 0 THEN m * UsPerMs ELSE -m

\* Adding and subtracting times carries between the two fields exactly once:
\* the result is normalised, denotes the sum or difference of the arguments
\* (negative differences too), and the two operations undo each other.  The
\* wakeup times of a periodic task are built from repeated additions.  And
\* timer_cmp_time orders times as the sign of their difference does, although
\* it returns a difference of seconds or of nanoseconds truncated to an int.
TimesExact ==
  LET sum  == timer_add_time(a, b)
      diff == timer_sub_time(a, b)
  IN  /\ Normalised(sum)  /\ Ns(sum)  = Ns(a) + Ns(b)
      /\ Normalised(diff) /\ Ns(diff) = Ns(a) - Ns(b)
      /\ timer_sub_time(sum, b) = a
      /\ timer_add_time(diff, b) = a
      /\ (timer_cmp_time(a, b) < 0) <=> (Ns(diff) < 0)
      /\ (timer_cmp_time(a, b) = 0) <=> (Ns(diff) = 0)

\* A Mac delay survives the two conversions as a duration, whether it was given
\* in milliseconds or in microseconds (PrimeTime converts it to a host time,
\* RmvTime converts what is left of it back).  The most negative int is
\* excluded: its negation overflows in timer_mac2host_time.
DelayRoundTrip ==
  mac # -Int32Max - 1 =>
    LET t == timer_mac2host_time(mac)
    IN  /\ Normalised(t) /\ t.sec >= 0
        /\ Ns(t) = MacUs(mac) * NsPerUs
        /\ MacUs(timer_host2mac_time(t)) = MacUs(mac)

\* The remaining time that RmvTime stores: nothing for a task that is overdue,
\* exact microseconds as long as they fit, and otherwise milliseconds, never
\* more than what was left and less than a millisecond short of it.  It is
\* claimed for what can be left of a Mac delay, at most Int32Max milliseconds.
RemainingTimeKept ==
  LET left  == timer_sub_time(a, b)
      saved == MacUs(timer_host2mac_time(left))
  IN  IF Ns(left) < 0 THEN saved = 0
      ELSE Us(left) \div UsPerMs <= Int32Max =>
             /\ saved <= Us(left)
             /\ IF Us(left) <= Int32Max THEN saved = Us(left)
                                        ELSE Us(left) - saved < UsPerMs

\* What the comment in PrimeTime says of a continued extended task: "The
\* remaining time was saved in tmCount by RmvTime()".  The delay PrimeTime(0)
\* reads back from tmCount is the one RmvTime left there.
SavedDelayIsContinued ==
  LET left == timer_sub_time(a, b)
  IN  (Ns(left) >= 0 /\ Us(left) <= Int32Max) =>
        Us(timer_mac2host_time(ReadMacInt16(timer_host2mac_time(left)))) = Us(left)
=============================================================================
