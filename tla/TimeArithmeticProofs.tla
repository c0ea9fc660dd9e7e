------------------------ MODULE TimeArithmeticProofs ------------------------
(***************************************************************************)
(* Proofs about the time functions, for every scale and every word size:   *)
(* what TLC checks for 12 ns per second and longs of 8 bits holds for the  *)
(* code's 10^9 ns per second and longs of 32 bits.                         *)
(***************************************************************************)
EXTENDS TimeArithmetic, TLAPS

-----------------------------------------------------------------------------
(* Facts about products and quotients. *)

\* Products grow with their factors.
LEMMA Product ==
  ASSUME NEW d \in Nat, NEW p \in Int, NEW q \in Int, p <= q
  PROVE  d * p <= d * q
  BY SMT

\* The quotient and the remainder of a division, multiplied out.
LEMMA Division ==
  ASSUME NEW x \in Nat, NEW d \in Nat, d >= 1
  PROVE  /\ x \div d \in Nat /\ x % d \in Nat /\ x % d < d
         /\ x = d * (x \div d) + (x % d)
  BY SMT

\* A number is its quotient times the divisor, and a rest: there is only one way.
LEMMA QuotientUnique ==
  ASSUME NEW x \in Int, NEW d \in Nat, d >= 1, NEW q \in Int, NEW r \in Int,
         0 <= r, r < d, x = d * q + r
  PROVE  x \div d = q
<1> DEFINE k == x \div d
<1>1. k \in Int /\ d * k <= x /\ x < d * k + d
  BY SMT
<1> HIDE DEF k
<1>2. ASSUME k <= q - 1 PROVE FALSE
  <2>1. d * k <= d * (q - 1)
    BY <1>1, <1>2, Product
  <2>2. d * (q - 1) = d * q - d
    BY SMT
  <2>3. d * k \in Int /\ d * q \in Int
    BY <1>1, SMT
  <2> QED
    BY <1>1, <2>1, <2>2, <2>3, SMT
<1>3. ASSUME q + 1 <= k PROVE FALSE
  <2>1. d * (q + 1) <= d * k
    BY <1>1, <1>3, Product
  <2>2. d * (q + 1) = d * q + d
    BY SMT
  <2>3. d * k \in Int /\ d * q \in Int
    BY <1>1, SMT
  <2> QED
    BY <1>1, <2>1, <2>2, <2>3, SMT
<1>4. k = q
  BY <1>1, <1>2, <1>3, SMT
<1> QED
  BY <1>4 DEF k

-----------------------------------------------------------------------------
(* The scales and the width of an int. *)

\* The scales are positive, and so is the largest int.
LEMMA Scales ==
  /\ NsPerUs \in Nat /\ NsPerUs >= 1
  /\ UsPerMs \in Nat /\ UsPerMs >= 1
  /\ MsPerSec \in Nat /\ MsPerSec >= 1
  /\ UsPerSec \in Nat /\ UsPerSec >= 1
  /\ NsPerSec \in Nat /\ NsPerSec >= 1
  /\ Int32Max \in Nat /\ Int32Max >= 1
<1>1. /\ NsPerUs \in Nat /\ NsPerUs >= 1
      /\ UsPerMs \in Nat /\ UsPerMs >= 1
      /\ MsPerSec \in Nat /\ MsPerSec >= 1
  BY ScaleAssumption, SMT
<1>2. UsPerSec \in Nat /\ UsPerSec >= 1
  BY <1>1, SMT DEF UsPerSec
<1>3. NsPerSec \in Nat /\ NsPerSec >= 1
  BY <1>1, <1>2, SMT DEF NsPerSec
<1>4. Int32Max \in Nat /\ Int32Max >= 1
  <2> DEFINE k == HalfWord \div 2 - 1
  <2>1. k \in Nat /\ HalfWord \in Nat /\ HalfWord >= 2
    BY HalfWordAssumption, SMT
  <2> HIDE DEF k
  <2>2. k * HalfWord \in Nat
    BY <2>1, SMT
  <2>3. k * HalfWord + (HalfWord - 1) \in Nat /\ k * HalfWord + (HalfWord - 1) >= 1
    BY <2>1, <2>2, SMT
  <2> QED
    BY <2>3 DEF Int32Max, k
<1> QED
  BY <1>1, <1>2, <1>3, <1>4

\* An integer that fits an int is not changed by the conversion to int.
LEMMA FitsInt == \A x \in Int32 : ToInt32(x) = x
<1> SUFFICES ASSUME NEW x \in Int32 PROVE ToInt32(x) = x
  OBVIOUS
<1> DEFINE n == Int32Max + 1
<1>1. n \in Nat /\ n >= 1 /\ x \in Int /\ -n <= x /\ x < n
  BY Scales, SMT DEF Int32
<1>2. ToInt32(x) = ((x + n) % (2 * n)) - n
  <2>1. x + Int32Max + 1 = x + n
    BY <1>1, Scales, SMT
  <2>2. (x + n) % (2 * n) \in Int
    BY <1>1, SMT
  <2> QED
    BY <2>1, <2>2, <1>1, Scales, SMT DEF ToInt32
<1> HIDE DEF n
<1>3. (x + n) % (2 * n) = x + n
  BY <1>1, SMT
<1> QED
  BY <1>1, <1>2, <1>3, SMT
-----------------------------------------------------------------------------
(* The host times that are tried. *)

\* Host times as struct timespec has them, with seconds that fit an int.
Moments == [sec : 0 .. Int32Max, nsec : 0 .. NsPerSec - 1]

\* The inputs have their types, also before they are chosen.
LEMMA Inputs == TypeOK => a \in Moments /\ b \in Moments /\ mac \in Int32
<1>1. HostTimes \cup {Zero} \subseteq Moments
  BY SecondsAssumption, Scales, SMT DEF HostTimes, Zero, HostTime, Moments
<1> QED
  BY <1>1 DEF TypeOK

\* Every input the calls can have is one of these.
LEMMA TypeInvariant == Spec => []TypeOK
<1>1. Init => TypeOK
  <2>1. 0 \in Int32
    BY Scales, SMT DEF Int32
  <2> QED
    BY <2>1 DEF Init, TypeOK
<1>2. TypeOK /\ [Next]_vars => TypeOK'
  <2> SUFFICES ASSUME TypeOK, [Next]_vars PROVE TypeOK'
    OBVIOUS
  <2>1. CASE PickTimes
    BY <2>1 DEF PickTimes, TypeOK
  <2>2. CASE PickDelay
    BY <2>2 DEF PickDelay, TypeOK
  <2>3. CASE UNCHANGED vars
    BY <2>3 DEF vars, TypeOK
  <2> QED
    BY <2>1, <2>2, <2>3 DEF Next
<1> QED
  BY <1>1, <1>2, PTL DEF Spec

-----------------------------------------------------------------------------
(* Addition, subtraction and comparison. *)

\* A sum denotes the sum.
LEMMA AddExact ==
  ASSUME NEW s \in [sec : Int, nsec : 0 .. NsPerSec - 1],
         NEW t \in [sec : Int, nsec : 0 .. NsPerSec - 1]
  PROVE  /\ timer_add_time(s, t) \in [sec : Int, nsec : 0 .. NsPerSec - 1]
         /\ Ns(timer_add_time(s, t)) = Ns(s) + Ns(t)
<1> DEFINE n == s.nsec + t.nsec
           c == IF n >= NsPerSec THEN 1 ELSE 0
           r == timer_add_time(s, t)
<1>1. /\ s.sec \in Int /\ s.nsec \in Int /\ 0 <= s.nsec /\ s.nsec < NsPerSec
      /\ t.sec \in Int /\ t.nsec \in Int /\ 0 <= t.nsec /\ t.nsec < NsPerSec
  BY Scales, SMT
<1>2. r = HostTime(s.sec + t.sec + c, n - NsPerSec * c)
  <2>1. CASE n >= NsPerSec
    BY <1>1, <2>1, Scales, SMT DEF timer_add_time, HostTime
  <2>2. CASE ~(n >= NsPerSec)
    BY <1>1, <2>2, Scales, SMT DEF timer_add_time, HostTime
  <2> QED
    BY <2>1, <2>2
<1>3. /\ c \in Int /\ n - NsPerSec * c \in 0 .. NsPerSec - 1
      /\ s.sec + t.sec + c \in Int
  BY <1>1, Scales, SMT
<1> HIDE DEF c, r
<1>4. /\ r \in [sec : Int, nsec : 0 .. NsPerSec - 1]
      /\ r.sec = s.sec + t.sec + c /\ r.nsec = n - NsPerSec * c
  BY <1>2, <1>3 DEF HostTime
<1>5. /\ Ns(r) = NsPerSec * r.sec + r.nsec
      /\ Ns(s) = NsPerSec * s.sec + s.nsec
      /\ Ns(t) = NsPerSec * t.sec + t.nsec
  BY <1>1, <1>3, <1>4, Scales, SMT DEF Ns
<1>6. NsPerSec * (s.sec + t.sec + c) = NsPerSec * s.sec + NsPerSec * t.sec + NsPerSec * c
  BY <1>1, <1>3, Scales, SMT
<1>7. NsPerSec * s.sec \in Int /\ NsPerSec * t.sec \in Int /\ NsPerSec * c \in Int
  BY <1>1, <1>3, Scales, SMT
<1>8. Ns(r) = Ns(s) + Ns(t)
  BY <1>1, <1>4, <1>5, <1>6, <1>7, SMT
<1> QED
  BY <1>4, <1>8 DEF r

\* A difference denotes the difference.
LEMMA SubExact ==
  ASSUME NEW s \in [sec : Int, nsec : 0 .. NsPerSec - 1],
         NEW t \in [sec : Int, nsec : 0 .. NsPerSec - 1]
  PROVE  /\ timer_sub_time(s, t) \in [sec : Int, nsec : 0 .. NsPerSec - 1]
         /\ Ns(timer_sub_time(s, t)) = Ns(s) - Ns(t)
<1> DEFINE n == s.nsec - t.nsec
           c == IF n < 0 THEN 1 ELSE 0
           r == timer_sub_time(s, t)
<1>1. /\ s.sec \in Int /\ s.nsec \in Int /\ 0 <= s.nsec /\ s.nsec < NsPerSec
      /\ t.sec \in Int /\ t.nsec \in Int /\ 0 <= t.nsec /\ t.nsec < NsPerSec
  BY Scales, SMT
<1>2. r = HostTime(s.sec - t.sec - c, n + NsPerSec * c)
  <2>1. CASE n < 0
    BY <1>1, <2>1, Scales, SMT DEF timer_sub_time, HostTime
  <2>2. CASE ~(n < 0)
    BY <1>1, <2>2, Scales, SMT DEF timer_sub_time, HostTime
  <2> QED
    BY <2>1, <2>2
<1>3. /\ c \in Int /\ n + NsPerSec * c \in 0 .. NsPerSec - 1
      /\ s.sec - t.sec - c \in Int
  BY <1>1, Scales, SMT
<1> HIDE DEF c, r
<1>4. /\ r \in [sec : Int, nsec : 0 .. NsPerSec - 1]
      /\ r.sec = s.sec - t.sec - c /\ r.nsec = n + NsPerSec * c
  BY <1>2, <1>3 DEF HostTime
<1>5. /\ Ns(r) = NsPerSec * r.sec + r.nsec
      /\ Ns(s) = NsPerSec * s.sec + s.nsec
      /\ Ns(t) = NsPerSec * t.sec + t.nsec
  BY <1>1, <1>3, <1>4, Scales, SMT DEF Ns
<1>6. NsPerSec * (s.sec - t.sec - c) = NsPerSec * s.sec - NsPerSec * t.sec - NsPerSec * c
  BY <1>1, <1>3, Scales, SMT
<1>7. NsPerSec * s.sec \in Int /\ NsPerSec * t.sec \in Int /\ NsPerSec * c \in Int
  BY <1>1, <1>3, Scales, SMT
<1>8. Ns(r) = Ns(s) - Ns(t)
  BY <1>1, <1>4, <1>5, <1>6, <1>7, SMT
<1> QED
  BY <1>4, <1>8 DEF r

\* A normalised time is determined by its nanoseconds, and they have the sign of
\* its seconds.
LEMMA NsUnique ==
  ASSUME NEW s \in [sec : Int, nsec : 0 .. NsPerSec - 1],
         NEW t \in [sec : Int, nsec : 0 .. NsPerSec - 1]
  PROVE  /\ Ns(s) = Ns(t) => s = t
         /\ Ns(s) < 0 <=> s.sec < 0
<1>1. /\ s.sec \in Int /\ s.nsec \in Int /\ 0 <= s.nsec /\ s.nsec < NsPerSec
      /\ t.sec \in Int /\ t.nsec \in Int /\ 0 <= t.nsec /\ t.nsec < NsPerSec
      /\ s = [sec |-> s.sec, nsec |-> s.nsec] /\ t = [sec |-> t.sec, nsec |-> t.nsec]
  BY Scales, SMT
<1>2. /\ Ns(s) = NsPerSec * s.sec + s.nsec /\ Ns(t) = NsPerSec * t.sec + t.nsec
      /\ NsPerSec * s.sec \in Int /\ NsPerSec * t.sec \in Int
  BY <1>1, Scales, SMT DEF Ns
<1>3. ASSUME Ns(s) = Ns(t) PROVE s = t
  <2>1. Ns(s) \in Int
    BY <1>1, <1>2, SMT
  <2>2. Ns(s) \div NsPerSec = s.sec
    BY <1>1, <1>2, <2>1, Scales, QuotientUnique
  <2>3. Ns(s) \div NsPerSec = t.sec
    BY <1>1, <1>2, <1>3, <2>1, Scales, QuotientUnique
  <2>4. s.sec = t.sec /\ s.nsec = t.nsec
    BY <1>1, <1>2, <1>3, <2>2, <2>3, SMT
  <2> QED
    BY <1>1, <2>4
<1>4. ASSUME s.sec < 0 PROVE Ns(s) < 0
  <2>1. NsPerSec * s.sec <= NsPerSec * (-1)
    BY <1>1, <1>4, Scales, Product
  <2> QED
    BY <1>1, <1>2, <2>1, Scales, SMT
<1>5. ASSUME ~(s.sec < 0) PROVE ~(Ns(s) < 0)
  <2>1. NsPerSec * 0 <= NsPerSec * s.sec
    BY <1>1, <1>5, Scales, Product
  <2> QED
    BY <1>1, <1>2, <2>1, Scales, SMT
<1> QED
  BY <1>3, <1>4, <1>5

\* The comparison of two moments has the sign of their distance.
LEMMA CompareExact ==
  ASSUME NEW s \in Moments, NEW t \in Moments
  PROVE  /\ (timer_cmp_time(s, t) < 0) <=> (Ns(s) - Ns(t) < 0)
         /\ (timer_cmp_time(s, t) = 0) <=> (Ns(s) - Ns(t) = 0)
<1>1. /\ s.sec \in Int /\ 0 <= s.sec /\ s.sec <= Int32Max
      /\ t.sec \in Int /\ 0 <= t.sec /\ t.sec <= Int32Max
      /\ s.nsec \in Int /\ 0 <= s.nsec /\ s.nsec < NsPerSec
      /\ t.nsec \in Int /\ 0 <= t.nsec /\ t.nsec < NsPerSec
  BY Scales, SMT DEF Moments
<1>2. /\ Ns(s) = NsPerSec * s.sec + s.nsec /\ Ns(t) = NsPerSec * t.sec + t.nsec
      /\ NsPerSec * s.sec \in Int /\ NsPerSec * t.sec \in Int
  BY <1>1, Scales, SMT DEF Ns
<1>3. CASE s.sec = t.sec
  <2>1. s.nsec - t.nsec \in Int32
    BY <1>1, SecondsAssumption, Scales, SMT DEF Int32
  <2>2. timer_cmp_time(s, t) = s.nsec - t.nsec
    BY <1>3, <2>1, FitsInt DEF timer_cmp_time
  <2> QED
    BY <1>1, <1>2, <1>3, <2>2, SMT
<1>4. CASE s.sec # t.sec
  <2>1. s.sec - t.sec \in Int32
    BY <1>1, Scales, SMT DEF Int32
  <2>2. timer_cmp_time(s, t) = s.sec - t.sec
    BY <1>4, <2>1, FitsInt DEF timer_cmp_time
  <2>3. CASE s.sec < t.sec
    <3>1. NsPerSec * (s.sec + 1) <= NsPerSec * t.sec
      BY <1>1, <2>3, Scales, Product
    <3>2. NsPerSec * (s.sec + 1) = NsPerSec * s.sec + NsPerSec
      BY <1>1, Scales, SMT
    <3> QED
      BY <1>1, <1>2, <2>2, <2>3, <3>1, <3>2, Scales, SMT
  <2>4. CASE t.sec < s.sec
    <3>1. NsPerSec * (t.sec + 1) <= NsPerSec * s.sec
      BY <1>1, <2>4, Scales, Product
    <3>2. NsPerSec * (t.sec + 1) = NsPerSec * t.sec + NsPerSec
      BY <1>1, Scales, SMT
    <3> QED
      BY <1>1, <1>2, <2>2, <2>4, <3>1, <3>2, Scales, SMT
  <2> QED
    BY <1>1, <1>4, <2>3, <2>4, SMT
<1> QED
  BY <1>3, <1>4

\* timer_add_time, timer_sub_time and timer_cmp_time are exact for every two
\* moments whose seconds fit an int: the carries are right, addition and subtraction
\* undo each other, and the int that the comparison returns has the right sign.
THEOREM TimesAreExact == Spec => []TimesExact
<1>1. TypeOK => TimesExact
  <2> SUFFICES ASSUME TypeOK PROVE TimesExact
    OBVIOUS
  <2> DEFINE H == [sec : Int, nsec : 0 .. NsPerSec - 1]
             sum == timer_add_time(a, b)
             diff == timer_sub_time(a, b)
  <2>1. a \in Moments /\ b \in Moments /\ a \in H /\ b \in H
    BY Inputs, Scales, SMT DEF Moments
  <2>2. sum \in H /\ Ns(sum) = Ns(a) + Ns(b) /\ diff \in H /\ Ns(diff) = Ns(a) - Ns(b)
    BY <2>1, AddExact, SubExact
  <2>3. Ns(a) \in Int /\ Ns(b) \in Int
    BY <2>1, Scales, SMT DEF Ns
  <2> HIDE DEF sum, diff
  <2>4. timer_sub_time(sum, b) = a
    <3>1. timer_sub_time(sum, b) \in H /\ Ns(timer_sub_time(sum, b)) = Ns(sum) - Ns(b)
      BY <2>1, <2>2, SubExact
    <3>2. Ns(timer_sub_time(sum, b)) = Ns(a)
      BY <2>2, <2>3, <3>1, SMT
    <3> QED
      BY <2>1, <3>1, <3>2, NsUnique
  <2>5. timer_add_time(diff, b) = a
    <3>1. timer_add_time(diff, b) \in H /\ Ns(timer_add_time(diff, b)) = Ns(diff) + Ns(b)
      BY <2>1, <2>2, AddExact
    <3>2. Ns(timer_add_time(diff, b)) = Ns(a)
      BY <2>2, <2>3, <3>1, SMT
    <3> QED
      BY <2>1, <3>1, <3>2, NsUnique
  <2>6. /\ (timer_cmp_time(a, b) < 0) <=> (Ns(diff) < 0)
        /\ (timer_cmp_time(a, b) = 0) <=> (Ns(diff) = 0)
    BY <2>1, <2>2, CompareExact
  <2>7. Normalised(sum) /\ Normalised(diff)
    BY <2>2 DEF Normalised
  <2> QED
    BY <2>2, <2>4, <2>5, <2>6, <2>7 DEF TimesExact, sum, diff
<1> QED
  BY <1>1, TypeInvariant, PTL

-----------------------------------------------------------------------------
(* The conversions. *)

\* The microseconds of a time that is not negative, as timer_host2mac_time
\* computes them.
LEMMA Microseconds ==
  ASSUME NEW t \in [sec : Nat, nsec : 0 .. NsPerSec - 1]
  PROVE  Us(t) \in Nat /\ t.sec * UsPerSec + t.nsec \div NsPerUs = Us(t)
<1> DEFINE q == t.nsec \div NsPerUs
           r == t.nsec % NsPerUs
           u == t.sec * UsPerSec
<1>1. t.sec \in Nat /\ t.nsec \in Nat
  BY Scales, SMT
<1>2. /\ q \in Nat /\ r \in Nat /\ r < NsPerUs
      /\ t.nsec = NsPerUs * q + r
  BY <1>1, Scales, Division
<1>3. u \in Nat
  BY <1>1, Scales, SMT
<1>4. Ns(t) = NsPerUs * u + t.nsec
  <2>1. t.sec * NsPerSec = NsPerUs * u
    BY <1>1, Scales, SMT DEF NsPerSec
  <2> QED
    BY <2>1 DEF Ns
<1> HIDE DEF q, r, u
<1>5. NsPerUs * (u + q) = NsPerUs * u + NsPerUs * q
  BY <1>2, <1>3, Scales, SMT
<1>6. NsPerUs * u \in Int /\ NsPerUs * q \in Int
  BY <1>2, <1>3, Scales, SMT
<1>7. Ns(t) = NsPerUs * (u + q) + r /\ Ns(t) \in Int /\ u + q \in Int /\ r \in Int
  BY <1>1, <1>2, <1>3, <1>4, <1>5, <1>6, SMT
<1>8. Ns(t) \div NsPerUs = u + q
  BY <1>2, <1>7, Scales, QuotientUnique
<1> QED
  BY <1>2, <1>3, <1>8, SMT DEF Us, q, u

\* What timer_host2mac_time returns for a time that is not negative.
LEMMA Host2Mac ==
  ASSUME NEW t \in [sec : Nat, nsec : 0 .. NsPerSec - 1],
         Us(t) \div UsPerMs <= Int32Max
  PROVE  MacUs(timer_host2mac_time(t)) =
           IF Us(t) > Int32Max THEN UsPerMs * (Us(t) \div UsPerMs) ELSE Us(t)
<1> DEFINE us == Us(t)
           ms == us \div UsPerMs
<1>1. us \in Nat /\ t.sec * UsPerSec + t.nsec \div NsPerUs = us /\ t.sec \in Nat
  BY Microseconds
<1>2. timer_host2mac_time(t) = ToInt32(IF us > Int32Max THEN ms ELSE -us)
  BY <1>1, SMT DEF timer_host2mac_time
<1>3. ms \in Nat /\ ms <= Int32Max
  BY <1>1, Scales, Division
<1> HIDE DEF us, ms
<1>4. CASE us > Int32Max
  <2>1. ms \in Int32
    BY <1>3, Scales, SMT DEF Int32
  <2>2. timer_host2mac_time(t) = ms
    BY <1>2, <1>4, <2>1, FitsInt
  <2>3. MacUs(ms) = UsPerMs * ms
    BY <1>3, Scales, SMT DEF MacUs
  <2> QED
    BY <1>4, <2>2, <2>3 DEF us, ms
<1>5. CASE ~(us > Int32Max)
  <2>1. -us \in Int32
    BY <1>1, <1>5, Scales, SMT DEF Int32
  <2>2. timer_host2mac_time(t) = -us
    BY <1>2, <1>5, <2>1, FitsInt
  <2>3. MacUs(-us) = us
    BY <1>1, SMT DEF MacUs
  <2> QED
    BY <1>5, <2>2, <2>3 DEF us
<1> QED
  BY <1>4, <1>5

\* A Mac delay in milliseconds, as a host time.
LEMMA Milliseconds ==
  ASSUME NEW m \in 1 .. Int32Max
  PROVE  LET t == timer_mac2host_time(m)
         IN  /\ t \in [sec : Nat, nsec : 0 .. NsPerSec - 1]
             /\ Ns(t) = NsPerUs * (m * UsPerMs)
<1> DEFINE q == m \div MsPerSec
           r == m % MsPerSec
           k == UsPerMs * NsPerUs
           t == timer_mac2host_time(m)
<1>1. m \in Nat /\ m > 0
  BY Scales, SMT
<1>2. q \in Nat /\ r \in Nat /\ r < MsPerSec /\ m = MsPerSec * q + r
  BY <1>1, Scales, Division
<1>3. t = HostTime(q, r * UsPerMs * NsPerUs)
  BY <1>1 DEF timer_mac2host_time
<1> HIDE DEF q, r, t
<1>4. k \in Nat /\ k >= 1 /\ NsPerSec = k * MsPerSec
  BY Scales, SMT DEF NsPerSec, UsPerSec
<1>5. r * UsPerMs * NsPerUs = k * r
  BY <1>2, Scales, SMT
<1>6. NsPerUs * (m * UsPerMs) = k * m
  BY <1>1, Scales, SMT
<1> HIDE DEF k
<1>7. k * r \in 0 .. NsPerSec - 1
  <2>1. k * r <= k * (MsPerSec - 1)
    BY <1>2, <1>4, Scales, Product
  <2>2. k * (MsPerSec - 1) = k * MsPerSec - k
    BY <1>4, Scales, SMT
  <2>3. k * r \in Nat /\ k * MsPerSec \in Nat
    BY <1>2, <1>4, Scales, SMT
  <2> QED
    BY <1>4, <2>1, <2>2, <2>3, SMT
<1>8. t \in [sec : Nat, nsec : 0 .. NsPerSec - 1] /\ t.sec = q /\ t.nsec = k * r
  BY <1>2, <1>3, <1>5, <1>7 DEF HostTime
<1>9. q * (k * MsPerSec) + k * r = k * (MsPerSec * q + r)
  BY <1>2, <1>4, Scales, SMT
<1>10. Ns(t) = k * m
  BY <1>2, <1>4, <1>8, <1>9 DEF Ns
<1> QED
  BY <1>6, <1>8, <1>10 DEF t

\* A Mac delay in microseconds, as a host time.
LEMMA NegatedMicroseconds ==
  ASSUME NEW m \in -Int32Max .. 0
  PROVE  LET t == timer_mac2host_time(m)
         IN  /\ t \in [sec : Nat, nsec : 0 .. NsPerSec - 1]
             /\ Ns(t) = NsPerUs * (-m)
<1> DEFINE u == -m
           q == u \div UsPerSec
           r == u % UsPerSec
           t == timer_mac2host_time(m)
<1>1. u \in Nat /\ ~(m > 0) /\ -m \in Int32
  BY Scales, SMT DEF Int32
<1>2. q \in Nat /\ r \in Nat /\ r < UsPerSec /\ u = UsPerSec * q + r
  BY <1>1, Scales, Division
<1>3. CDiv(u, UsPerSec) = q
  BY <1>1, SMT DEF CDiv
<1>4. t = HostTime(q, (u - UsPerSec * q) * NsPerUs)
  <2>1. ToInt32(-m) = u
    BY <1>1, FitsInt
  <2> QED
    BY <1>1, <1>3, <2>1 DEF timer_mac2host_time, CMod
<1> HIDE DEF u, q, r, t
<1>5. UsPerSec * q \in Nat
  BY <1>2, Scales, SMT
<1>6. u - UsPerSec * q = r
  BY <1>1, <1>2, <1>5, SMT
<1>7. r * NsPerUs \in 0 .. NsPerSec - 1
  <2>1. NsPerUs * r <= NsPerUs * (UsPerSec - 1)
    BY <1>2, Scales, Product
  <2>2. NsPerUs * (UsPerSec - 1) = NsPerSec - NsPerUs
    BY Scales, SMT DEF NsPerSec
  <2>3. r * NsPerUs \in Nat /\ r * NsPerUs = NsPerUs * r
    BY <1>2, Scales, SMT
  <2> QED
    BY <2>1, <2>2, <2>3, Scales, SMT
<1>8. t \in [sec : Nat, nsec : 0 .. NsPerSec - 1] /\ t.sec = q /\ t.nsec = r * NsPerUs
  BY <1>2, <1>4, <1>6, <1>7 DEF HostTime
<1>9. q * (UsPerSec * NsPerUs) + r * NsPerUs = NsPerUs * (UsPerSec * q + r)
  BY <1>2, Scales, SMT
<1>10. Ns(t) = NsPerUs * u
  BY <1>2, <1>8, <1>9 DEF Ns, NsPerSec
<1> QED
  BY <1>8, <1>10 DEF t, u

\* PrimeTime's conversion of a delay and RmvTime's conversion back keep the duration,
\* for every delay of a Mac long but the most negative, in either unit.
THEOREM DelaysSurvive == Spec => []DelayRoundTrip
<1>1. TypeOK => DelayRoundTrip
  <2> SUFFICES ASSUME TypeOK, mac # -Int32Max - 1 PROVE DelayRoundTrip
    BY DEF DelayRoundTrip
  <2> DEFINE t == timer_mac2host_time(mac)
             us == MacUs(mac)
             Exact == /\ t \in [sec : Nat, nsec : 0 .. NsPerSec - 1] /\ Ns(t) = NsPerUs * us
                      /\ us \in Nat /\ us \div UsPerMs <= Int32Max
                      /\ us > Int32Max => UsPerMs * (us \div UsPerMs) = us
  <2>1. mac \in Int /\ -Int32Max <= mac /\ mac <= Int32Max
    BY Inputs, Scales, SMT DEF Int32
  <2>2. ASSUME mac > 0 PROVE Exact
    <3>1. us = mac * UsPerMs /\ us = UsPerMs * mac + 0 /\ us \in Nat
      BY <2>1, <2>2, Scales, SMT DEF MacUs
    <3>2. t \in [sec : Nat, nsec : 0 .. NsPerSec - 1] /\ Ns(t) = NsPerUs * us
      <4>1. mac \in 1 .. Int32Max
        BY <2>1, <2>2, Scales, SMT
      <4> QED
        BY <3>1, <4>1, Milliseconds
    <3>3. us \div UsPerMs = mac
      BY <2>1, <3>1, Scales, QuotientUnique
    <3>4. UsPerMs * (us \div UsPerMs) = us /\ us \div UsPerMs <= Int32Max
      BY <2>1, <3>1, <3>3, Scales, SMT
    <3> QED
      BY <3>1, <3>2, <3>4
  <2>3. ASSUME ~(mac > 0) PROVE Exact
    <3>1. us = -mac /\ us \in Nat /\ us <= Int32Max
      BY <2>1, <2>3, Scales, SMT DEF MacUs
    <3>2. t \in [sec : Nat, nsec : 0 .. NsPerSec - 1] /\ Ns(t) = NsPerUs * us
      <4>1. mac \in -Int32Max .. 0
        BY <2>1, <2>3, Scales, SMT
      <4> QED
        BY <3>1, <4>1, NegatedMicroseconds
    <3>3. us \div UsPerMs <= Int32Max
      <4> DEFINE k == us \div UsPerMs
      <4>1. k \in Nat /\ us % UsPerMs \in Nat /\ us = UsPerMs * k + (us % UsPerMs)
        BY <3>1, Scales, Division
      <4> HIDE DEF k, us
      <4>2. k * 1 <= k * UsPerMs /\ k * UsPerMs = UsPerMs * k /\ UsPerMs * k \in Nat
        BY <4>1, Scales, SMT
      <4> QED
        BY <3>1, <4>1, <4>2, Scales, SMT DEF k
    <3>4. ~(us > Int32Max)
      BY <3>1, Scales, SMT
    <3> QED
      BY <3>1, <3>2, <3>3, <3>4
  <2>4. Exact
    BY <2>2, <2>3
  <2> HIDE DEF t, us
  <2>5. Us(t) = us
    <3>1. Ns(t) \in Int /\ Ns(t) = NsPerUs * us + 0
      BY <2>4, Scales, SMT
    <3> QED
      BY <2>4, <3>1, Scales, QuotientUnique DEF Us
  <2>6. MacUs(timer_host2mac_time(t)) = us
    BY <2>4, <2>5, Host2Mac
  <2>7. Normalised(t) /\ t.sec >= 0 /\ Ns(t) = us * NsPerUs
    BY <2>4, Scales, SMT DEF Normalised
  <2> QED
    BY <2>6, <2>7 DEF DelayRoundTrip, t, us
<1> QED
  BY <1>1, TypeInvariant, PTL

\* What RmvTime stores as the remaining time is 0 if the task is overdue, exact if
\* its microseconds fit a Mac long, and otherwise less than a millisecond short.
THEOREM RemainderKept == Spec => []RemainingTimeKept
<1>1. TypeOK => RemainingTimeKept
  <2> SUFFICES ASSUME TypeOK PROVE RemainingTimeKept
    OBVIOUS
  <2> DEFINE H == [sec : Int, nsec : 0 .. NsPerSec - 1]
             left == timer_sub_time(a, b)
             saved == MacUs(timer_host2mac_time(left))
             us == Us(left)
  <2>1. left \in H
    <3>1. a \in H /\ b \in H
      BY Inputs, Scales, SMT DEF Moments
    <3> QED
      BY <3>1, SubExact
  <2>2. Ns(left) < 0 <=> left.sec < 0
    BY <2>1, NsUnique
  <2>3. CASE Ns(left) < 0
    <3>1. timer_host2mac_time(left) = 0
      BY <2>2, <2>3 DEF timer_host2mac_time
    <3>2. saved = 0
      <4>1. \A n \in Nat : MacUs(-n) = n
        BY Scales, SMT DEF MacUs
      <4> QED
        BY <3>1, <4>1, SMT
    <3> QED
      BY <2>3, <3>2 DEF RemainingTimeKept
  <2>4. CASE ~(Ns(left) < 0)
    <3>1. left \in [sec : Nat, nsec : 0 .. NsPerSec - 1]
      BY <2>1, <2>2, <2>4, SMT
    <3> SUFFICES ASSUME us \div UsPerMs <= Int32Max
                 PROVE  /\ saved <= us
                        /\ IF us <= Int32Max THEN saved = us ELSE us - saved < UsPerMs
      BY <2>4 DEF RemainingTimeKept
    <3> DEFINE k == us \div UsPerMs
    <3>2. us \in Nat
      BY <3>1, Microseconds
    <3>3. saved = IF us > Int32Max THEN UsPerMs * k ELSE us
      BY <3>1, Host2Mac
    <3>4. /\ k \in Nat /\ us % UsPerMs \in Nat /\ us % UsPerMs < UsPerMs
          /\ us = UsPerMs * k + (us % UsPerMs)
      BY <3>2, Scales, Division
    <3>5. UsPerMs * k \in Nat
      BY <3>4, Scales, SMT
    <3> HIDE DEF us, saved, k
    <3> QED
      BY <3>2, <3>3, <3>4, <3>5, Scales, SMT
  <2> QED
    BY <2>3, <2>4
<1> QED
  BY <1>1, TypeInvariant, PTL
=============================================================================
