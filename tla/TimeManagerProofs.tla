------------------------- MODULE TimeManagerProofs -------------------------
(***************************************************************************)
(* Proofs about the Time Manager, for every set of tasks, every delay and  *)
(* every bound: no wakeup is lost, a sleeping timer thread sleeps until    *)
(* the current wakeup_time, and it is stopped while wakeup_time changes;   *)
(* and the two threads implement the service of TimerService.              *)
(***************************************************************************)
EXTENDS TimeManager, TLAPS

-----------------------------------------------------------------------------
(* Facts about the conversions. *)

\* The scale factors are positive integers, and so is the modulus of a long.
LEMMA ScaleFacts ==
  /\ UsPerSec \in Nat \ {0}
  /\ NsPerSec \in Nat \ {0}
  /\ Int32Max \in Nat \ {0}
<1>1. UsPerSec \in Nat \ {0}
  BY ScaleAssumption, SMT DEF UsPerSec
<1>2. NsPerSec \in Nat \ {0}
  BY <1>1, ScaleAssumption, SMT DEF NsPerSec
<1>3. Int32Max \in Nat \ {0}
  <2> DEFINE k == HalfWord \div 2 - 1
  <2>1. k \in Nat
    BY HalfWordAssumption, SMT
  <2>2. HalfWord \in Nat /\ HalfWord >= 2
    BY HalfWordAssumption
  <2> HIDE DEF k
  <2>3. k * HalfWord \in Nat
    BY <2>1, <2>2, SMT
  <2>4. k * HalfWord + (HalfWord - 1) \in Nat \ {0}
    BY <2>2, <2>3, SMT
  <2> QED
    BY <2>4 DEF Int32Max, k
<1> QED
  BY <1>1, <1>2, <1>3

\* ToInt32 returns an integer.
LEMMA ToInt32Int == \A x \in Int : ToInt32(x) \in Int
<1> SUFFICES ASSUME NEW x \in Int PROVE ToInt32(x) \in Int
  OBVIOUS
<1>1. 2 * (Int32Max + 1) \in Nat \ {0}
  BY ScaleFacts, SMT
<1>2. x + Int32Max + 1 \in Int
  BY ScaleFacts, SMT
<1>3. (x + Int32Max + 1) % (2 * (Int32Max + 1)) \in Int
  BY <1>1, <1>2, SMT
<1> QED
  BY <1>3, ScaleFacts, SMT DEF ToInt32

\* The delay PrimeTime adds is an integer number of microseconds.
LEMMA DelayInt == \A mac \in Int : DelayOf(mac) \in Int
<1> SUFFICES ASSUME NEW mac \in Int PROVE DelayOf(mac) \in Int
  OBVIOUS
<1> DEFINE t == timer_mac2host_time(mac)
<1> USE ScaleFacts, ScaleAssumption
<1>1. t.sec \in Int /\ t.nsec \in Int
  <2>1. CASE mac > 0
    <3>1. t = HostTime(mac \div MsPerSec, (mac % MsPerSec) * UsPerMs * NsPerUs)
      BY <2>1 DEF timer_mac2host_time
    <3>2. mac \div MsPerSec \in Int /\ mac % MsPerSec \in Int
      BY SMT
    <3>3. (mac % MsPerSec) * UsPerMs * NsPerUs \in Int
      BY <3>2, SMT
    <3> QED
      BY <3>1, <3>2, <3>3 DEF HostTime
  <2>2. CASE ~(mac > 0)
    <3> DEFINE us == ToInt32(-mac)
    <3>1. t = HostTime(CDiv(us, UsPerSec), CMod(us, UsPerSec) * NsPerUs)
      BY <2>2 DEF timer_mac2host_time
    <3>2. us \in Int
      BY ToInt32Int, SMT
    <3> HIDE DEF us
    <3>3. CDiv(us, UsPerSec) \in Int
      BY <3>2, SMT DEF CDiv
    <3>4. CMod(us, UsPerSec) * NsPerUs \in Int
      BY <3>2, <3>3, SMT DEF CMod
    <3> QED
      BY <3>1, <3>3, <3>4 DEF HostTime
  <2> QED
    BY <2>1, <2>2
<1> HIDE DEF t
<1>2. t.sec * UsPerSec \in Int /\ t.nsec \div NsPerUs \in Int
  BY <1>1, SMT
<1>3. t.sec * UsPerSec + t.nsec \div NsPerUs \in Int
  BY <1>2, SMT
<1> QED
  BY <1>3 DEF DelayOf, Microseconds, t

\* The remaining time RmvTime stores is an integer.
LEMMA SavedInt == \A us \in Int : SavedCount(us) \in Int
<1> SUFFICES ASSUME NEW us \in Int PROVE SavedCount(us) \in Int
  OBVIOUS
<1> USE ScaleFacts, ScaleAssumption
<1> DEFINE s == us \div UsPerSec
           n == (us % UsPerSec) * NsPerUs
           u == s * UsPerSec + n \div NsPerUs
<1>1. s \in Int /\ us % UsPerSec \in Int
  BY SMT
<1>2. n \in Int
  BY <1>1, SMT
<1>3. SavedCount(us) = IF s < 0 THEN 0
                       ELSE ToInt32(IF u > Int32Max THEN u \div UsPerMs ELSE -u)
  BY DEF SavedCount, timer_host2mac_time, HostTime
<1> HIDE DEF s, n
<1>4. u \in Int
  <2>1. s * UsPerSec \in Int /\ n \div NsPerUs \in Int
    BY <1>1, <1>2, SMT
  <2> QED
    BY <2>1, SMT
<1> HIDE DEF u
<1>5. u \div UsPerMs \in Int /\ -u \in Int
  BY <1>4, SMT
<1>6. ToInt32(u \div UsPerMs) \in Int /\ ToInt32(-u) \in Int
  BY <1>5, ToInt32Int
<1> QED
  BY <1>3, <1>6, SMT

\* What PrimeTime reads from tmCount is an integer.
LEMMA ReadInt == \A long \in Int : ReadMacInt16(long) \in Int
  BY HalfWordAssumption, SMT DEF ReadMacInt16

\* The delays that PrimeTime is called with are integers.
LEMMA DelaysInt == Delays \subseteq Int
  BY TimeAssumption, ScaleFacts, SMT DEF Int32

-----------------------------------------------------------------------------
(* Facts about the descriptor list. *)

\* Inserting a descriptor at the head of the list.
LEMMA InsertFacts ==
  ASSUME NEW S, NEW s \in Seq(S), NEW t \in S, t \notin Range(s),
         \A i, j \in DOMAIN s : s[i] = s[j] => i = j
  PROVE  LET r == <<t>> \o s
         IN  /\ r \in Seq(S)
             /\ Range(r) = Range(s) \cup {t}
             /\ \A i, j \in DOMAIN r : r[i] = r[j] => i = j
<1> DEFINE r == <<t>> \o s
<1>1. r \in Seq(S) /\ Len(r) = Len(s) + 1
  OBVIOUS
<1>2. r[1] = t /\ \A i \in 2 .. Len(s) + 1 : r[i] = s[i - 1]
  OBVIOUS
<1>3. DOMAIN r = 1 .. Len(s) + 1 /\ DOMAIN s = 1 .. Len(s) /\ Len(s) \in Nat
  BY <1>1
<1> HIDE DEF r
<1>4. Range(r) \subseteq Range(s) \cup {t}
  <2> SUFFICES ASSUME NEW i \in 1 .. Len(s) + 1 PROVE r[i] \in Range(s) \cup {t}
    BY <1>3 DEF Range
  <2>1. CASE i = 1
    BY <2>1, <1>2
  <2>2. CASE i # 1
    <3>1. i - 1 \in DOMAIN s /\ r[i] = s[i - 1]
      BY <2>2, <1>2, <1>3
    <3> QED
      BY <3>1 DEF Range
  <2> QED
    BY <2>1, <2>2
<1>5. Range(s) \cup {t} \subseteq Range(r)
  <2>1. t \in Range(r)
    <3>1. 1 \in DOMAIN r /\ r[1] = t
      BY <1>2, <1>3
    <3> QED
      BY <3>1 DEF Range
  <2>2. ASSUME NEW i \in DOMAIN s PROVE s[i] \in Range(r)
    <3>1. i + 1 \in DOMAIN r /\ r[i + 1] = s[i]
      BY <1>2, <1>3
    <3> QED
      BY <3>1 DEF Range
  <2> QED
    BY <2>1, <2>2 DEF Range
<1>6. ASSUME NEW i \in DOMAIN r, NEW j \in DOMAIN r, r[i] = r[j]
      PROVE  i = j
  <2>1. ASSUME NEW k \in DOMAIN r, k # 1
        PROVE  k - 1 \in DOMAIN s /\ r[k] = s[k - 1] /\ r[k] # t
    <3>1. k - 1 \in DOMAIN s /\ r[k] = s[k - 1]
      BY <2>1, <1>2, <1>3
    <3> QED
      BY <3>1 DEF Range
  <2>2. CASE i = 1 \/ j = 1
    BY <2>1, <2>2, <1>2, <1>6
  <2>3. CASE i # 1 /\ j # 1
    <3>1. i - 1 = j - 1
      BY <2>1, <2>3, <1>6
    <3> QED
      BY <3>1, <1>3
  <2> QED
    BY <2>2, <2>3
<1> QED
  BY <1>1, <1>4, <1>5, <1>6 DEF r

\* Removing the descriptor at a position of the list.
LEMMA RemoveFacts ==
  ASSUME NEW S, NEW s \in Seq(S), NEW k \in DOMAIN s,
         \A i, j \in DOMAIN s : s[i] = s[j] => i = j
  PROVE  LET r == SubSeq(s, 1, k - 1) \o SubSeq(s, k + 1, Len(s))
         IN  /\ r \in Seq(S)
             /\ Range(r) = Range(s) \ {s[k]}
             /\ \A i, j \in DOMAIN r : r[i] = r[j] => i = j
<1> DEFINE u == SubSeq(s, 1, k - 1)
           v == SubSeq(s, k + 1, Len(s))
           r == u \o v
           at(i) == IF i < k THEN i ELSE i + 1
<1>1. DOMAIN s = 1 .. Len(s) /\ Len(s) \in Nat /\ k \in 1 .. Len(s)
  OBVIOUS
<1>2. /\ u \in Seq(S) /\ Len(u) = k - 1
      /\ \A i \in 1 .. k - 1 : u[i] = s[i]
  BY <1>1
<1>3. /\ v \in Seq(S) /\ Len(v) = Len(s) - k
      /\ \A i \in 1 .. Len(s) - k : v[i] = s[i + k]
  BY <1>1
<1> HIDE DEF u, v
<1>4. r \in Seq(S) /\ Len(r) = Len(s) - 1
  <2>1. u \in Seq(S) /\ v \in Seq(S)
    BY <1>2, <1>3
  <2>2. r \in Seq(S)
    BY <2>1
  <2>3. Len(r) = Len(u) + Len(v)
    BY <2>1
  <2> QED
    BY <2>2, <2>3, <1>1, <1>2, <1>3
<1>5. DOMAIN r = 1 .. Len(s) - 1
  BY <1>4, <1>1
<1>6. \A i \in DOMAIN r : at(i) \in DOMAIN s /\ r[i] = s[at(i)] /\ at(i) # k
  <2> SUFFICES ASSUME NEW i \in 1 .. Len(s) - 1
               PROVE  at(i) \in DOMAIN s /\ r[i] = s[at(i)] /\ at(i) # k
    BY <1>5
  <2>1. CASE i < k
    <3>1. r[i] = u[i]
      BY <2>1, <1>1, <1>2, <1>3
    <3> QED
      BY <3>1, <2>1, <1>1, <1>2
  <2>2. CASE ~(i < k)
    <3>1. r[i] = v[i - (k - 1)]
      BY <2>2, <1>1, <1>2, <1>3
    <3>2. i - (k - 1) \in 1 .. Len(s) - k
      BY <2>2, <1>1
    <3>3. v[i - (k - 1)] = s[(i - (k - 1)) + k]
      BY <3>2, <1>3
    <3>4. (i - (k - 1)) + k = i + 1
      BY <1>1
    <3> QED
      BY <3>1, <3>3, <3>4, <2>2, <1>1
  <2> QED
    BY <2>1, <2>2
<1> HIDE DEF r
<1>7. Range(r) \subseteq Range(s) \ {s[k]}
  BY <1>6 DEF Range
<1>8. Range(s) \ {s[k]} \subseteq Range(r)
  <2> SUFFICES ASSUME NEW m \in DOMAIN s, m # k PROVE s[m] \in Range(r)
    BY DEF Range
  <2> DEFINE i == IF m < k THEN m ELSE m - 1
  <2>1. i \in DOMAIN r /\ at(i) = m
    BY <1>1, <1>5
  <2> QED
    BY <2>1, <1>6 DEF Range
<1>9. ASSUME NEW i \in DOMAIN r, NEW j \in DOMAIN r, r[i] = r[j]
      PROVE  i = j
  <2>1. at(i) = at(j)
    BY <1>6, <1>9
  <2> QED
    BY <2>1, <1>1, <1>5
<1> QED
  BY <1>4, <1>7, <1>8, <1>9 DEF r, u, v

-----------------------------------------------------------------------------
(* The inductive invariant is preserved by every step. *)

\* The initial states satisfy the inductive invariant.
LEMMA InitIndInv == Init => IndInv
<1> SUFFICES ASSUME Init PROVE IndInv
  OBVIOUS
<1> USE TimeAssumption, TasksAssumption DEF Init, NoOp
<1>1. TypeOK
  <2>1. MacTypes
    BY DEF MacTypes
  <2>2. EmulTypes
    BY DEF EmulTypes, EmulPcs
  <2>3. ThreadTypes
    <3>1. sigSuspend \in BOOLEAN /\ sigResume \in BOOLEAN
      BY Zenon
    <3> QED
      BY <3>1 DEF ThreadTypes, ThreadPcs
  <2>4. SharedTypes
    <3>1. timerFlag \in BOOLEAN /\ cancelled \in BOOLEAN
      BY Zenon
    <3> QED
      BY <3>1 DEF SharedTypes
  <2> QED
    BY <2>1, <2>2, <2>3, <2>4 DEF TypeOK
<1>2. Installed = {}
  BY DEF Installed, Range
<1>3. Protocol /\ Locking
  BY DEF Protocol, Locking
<1>4. Calls
  BY DEF Calls
<1>5. NoDuplicates
  BY DEF NoDuplicates
<1>6. NoLostWakeup /\ SleepsUntilWakeupTime
  BY <1>2 DEF NoLostWakeup, SleepsUntilWakeupTime
<1> QED
  BY <1>1, <1>3, <1>4, <1>5, <1>6 DEF IndInv

\* The successor of a descriptor is another installed task or the end of the list:
\* no task is in the list twice.
LEMMA NextDescInstalled ==
  ASSUME tmDescList \in Seq(Tasks), NoDuplicates, NEW t
  PROVE  /\ NextDesc(t) \in Installed \cup {NoTask}
         /\ t # NoTask => NextDesc(t) # t
<1>1. CASE \E i \in DOMAIN tmDescList : tmDescList[i] = t /\ i < Len(tmDescList)
  <2>1. PICK i \in DOMAIN tmDescList : tmDescList[i] = t /\ i < Len(tmDescList)
    BY <1>1
  <2> DEFINE j == CHOOSE k \in DOMAIN tmDescList : tmDescList[k] = t
  <2>2. j \in DOMAIN tmDescList /\ tmDescList[j] = t
    BY <2>1
  <2>3. j = i
    BY <2>1, <2>2 DEF NoDuplicates
  <2> HIDE DEF j
  <2>4. j + 1 \in DOMAIN tmDescList
    BY <2>1, <2>3
  <2>5. NextDesc(t) = tmDescList[j + 1]
    BY <1>1 DEF NextDesc, j
  <2>6. tmDescList[j + 1] # t
    BY <2>2, <2>4 DEF NoDuplicates
  <2> QED
    BY <2>4, <2>5, <2>6 DEF Installed, Range
<1>2. CASE ~ \E i \in DOMAIN tmDescList : tmDescList[i] = t /\ i < Len(tmDescList)
  BY <1>2 DEF NextDesc
<1> QED
  BY <1>1, <1>2

\* It is a task: the walk of TimerInterrupt stays inside the list.
LEMMA NextDescType ==
  ASSUME tmDescList \in Seq(Tasks), NoDuplicates, NEW t
  PROVE  NextDesc(t) \in Tasks \cup {NoTask}
BY NextDescInstalled DEF Installed, Range

\* InsTime adds at most one task to the list, and changes no other one.
LEMMA InsTimeList ==
  ASSUME IndInv, NEW t \in Tasks, InsTime(t)
  PROVE  /\ tmDescList' \in Seq(Tasks)
         /\ wakeup' \in [Tasks -> Int]
         /\ NoDuplicates'
         /\ Installed \subseteq Installed' /\ Installed' \subseteq Installed \cup {t}
         /\ \A u \in Tasks \ {t} : wakeup'[u] = wakeup[u]
<1> USE DEF IndInv, TypeOK, MacTypes
<1>1. CASE t \in Installed
  BY <1>1 DEF InsTime, NoDuplicates, Installed
<1>2. CASE t \notin Installed
  <2>1. tmDescList' = <<t>> \o tmDescList
    BY <1>2 DEF InsTime
  <2>2. /\ tmDescList' \in Seq(Tasks)
        /\ Range(tmDescList') = Range(tmDescList) \cup {t}
        /\ \A i, j \in DOMAIN tmDescList' : tmDescList'[i] = tmDescList'[j] => i = j
    <3>1. /\ t \in Tasks /\ tmDescList \in Seq(Tasks) /\ t \notin Range(tmDescList)
          /\ \A i, j \in DOMAIN tmDescList : tmDescList[i] = tmDescList[j] => i = j
      BY <1>2 DEF NoDuplicates, Installed
    <3> HIDE DEF IndInv, TypeOK, MacTypes
    <3>2. LET r == <<t>> \o tmDescList
          IN  /\ r \in Seq(Tasks)
              /\ Range(r) = Range(tmDescList) \cup {t}
              /\ \A i, j \in DOMAIN r : r[i] = r[j] => i = j
      BY ONLY <3>1, InsertFacts, Zenon
    <3> QED
      BY ONLY <3>2, <2>1, Zenon
  <2>3. PICK garbage \in 0 .. MaxTime : wakeup' = [wakeup EXCEPT ![t] = garbage]
    BY <1>2 DEF InsTime
  <2> QED
    BY <2>2, <2>3 DEF NoDuplicates, Installed
<1> QED
  BY <1>1, <1>2

\* RmvTime takes its task out of the list when it returns; the other calls keep it.
LEMMA ResumeList ==
  ASSUME IndInv, timer_thread_resume
  PROVE  /\ tmDescList' \in Seq(Tasks)
         /\ wakeup' \in [Tasks -> Int]
         /\ NoDuplicates'
         /\ Installed' = Installed \ (IF op.name = "RmvTime" THEN {op.task} ELSE {})
         /\ \A t \in Installed' : wakeup'[t] = wakeup[t]
<1> USE DEF IndInv, TypeOK, MacTypes
<1>1. CASE op.name = "RmvTime"
  <2>1. PICK k \in DOMAIN tmDescList :
          /\ tmDescList[k] = op.task
          /\ tmDescList' = SubSeq(tmDescList, 1, k - 1)
                             \o SubSeq(tmDescList, k + 1, Len(tmDescList))
          /\ wakeup' = [wakeup EXCEPT ![op.task] = 0]
    BY <1>1 DEF timer_thread_resume, free_desc
  <2>2. /\ tmDescList' \in Seq(Tasks)
        /\ Range(tmDescList') = Range(tmDescList) \ {op.task}
        /\ \A i, j \in DOMAIN tmDescList' : tmDescList'[i] = tmDescList'[j] => i = j
    <3> DEFINE r == SubSeq(tmDescList, 1, k - 1)
                      \o SubSeq(tmDescList, k + 1, Len(tmDescList))
    <3>1. tmDescList \in Seq(Tasks)
      OBVIOUS
    <3>2. \A i, j \in DOMAIN tmDescList : tmDescList[i] = tmDescList[j] => i = j
      BY DEF NoDuplicates
    <3>3. /\ r \in Seq(Tasks)
          /\ Range(r) = Range(tmDescList) \ {tmDescList[k]}
          /\ \A i, j \in DOMAIN r : r[i] = r[j] => i = j
      BY ONLY <2>1, <3>1, <3>2, RemoveFacts
    <3>4. tmDescList' = r
      BY <2>1
    <3> HIDE DEF r
    <3> QED
      BY <2>1, <3>3, <3>4
  <2>3. Range(tmDescList) \subseteq Tasks /\ op.task \in Tasks
    BY <2>1 DEF Range
  <2>4. wakeup' \in [Tasks -> Int] /\ \A t \in Tasks \ {op.task} : wakeup'[t] = wakeup[t]
    BY <2>1, <2>3
  <2>5. Installed' = Installed \ {op.task} /\ Installed' \subseteq Tasks \ {op.task}
    BY <2>2, <2>3 DEF Installed
  <2> QED
    BY <1>1, <2>2, <2>4, <2>5 DEF NoDuplicates
<1>2. CASE op.name # "RmvTime"
  BY <1>2 DEF timer_thread_resume, NoDuplicates, Installed, Range
<1> QED
  BY <1>1, <1>2

\* Every step preserves the inductive invariant.
LEMMA StepIndInv == IndInv /\ [Next]_vars => IndInv'
<1> SUFFICES ASSUME IndInv, [Next]_vars PROVE IndInv'
  OBVIOUS
<1> USE TimeAssumption, TasksAssumption
<1>1. ASSUME NEW t \in Tasks, InsTime(t) PROVE IndInv'
  <2>list. /\ tmDescList' \in Seq(Tasks)
           /\ wakeup' \in [Tasks -> Int]
           /\ NoDuplicates'
           /\ Installed \subseteq Installed' /\ Installed' \subseteq Installed \cup {t}
           /\ \A u \in Tasks \ {t} : wakeup'[u] = wakeup[u]
    BY <1>1, InsTimeList
  <2>1. TypeOK'
    <3>1. MacTypes'
      BY <1>1, <2>list DEF InsTime, IndInv, TypeOK, MacTypes
    <3>2. EmulTypes'
      BY <1>1 DEF InsTime, Callable, IndInv, TypeOK, MacTypes, EmulTypes, ThreadTypes,
         SharedTypes, macVars, walkVars, threadVars, signalVars, emulVars, EmulPcs
    <3>3. ThreadTypes'
      BY <1>1 DEF InsTime, Callable, IndInv, TypeOK, MacTypes, EmulTypes, ThreadTypes,
         SharedTypes, macVars, walkVars, threadVars, signalVars, emulVars, ThreadPcs,
         Protocol
    <3>4. SharedTypes'
      BY <1>1 DEF InsTime, Callable, IndInv, TypeOK, MacTypes, EmulTypes, ThreadTypes,
         SharedTypes, macVars, walkVars, threadVars, signalVars, emulVars
    <3> QED
      BY <3>1, <3>2, <3>3, <3>4 DEF TypeOK
  <2>2. Protocol'
    BY <1>1 DEF InsTime, Callable, IndInv, macVars, walkVars, threadVars, signalVars,
       emulVars, TypeOK, MacTypes, EmulTypes, ThreadTypes, SharedTypes, Protocol,
       Locking, Calls
  <2>3. Locking'
    BY <1>1 DEF InsTime, Callable, IndInv, macVars, walkVars, threadVars, signalVars,
       emulVars, TypeOK, MacTypes, EmulTypes, ThreadTypes, SharedTypes, Protocol,
       Locking, Calls
  <2>4. Calls'
    BY <1>1, <2>list DEF InsTime, walkVars, Callable, IndInv, TypeOK, EmulTypes, Calls
  <2>5. NoDuplicates'
    BY <2>list
  <2>6. NoLostWakeup'
    <3> SUFFICES ASSUME NEW u \in active' \cap Installed'
                 PROVE  \/ wakeup_time' <= wakeup'[u]
                        \/ timerFlag' \/ tpc' = "trigger" \/ WillRecompute'
      BY DEF NoLostWakeup
    <3>1. u \in active \cap Installed /\ u \in Tasks \ {t}
      BY <1>1, <2>list DEF InsTime, IndInv, TypeOK, MacTypes
    <3>2. wakeup'[u] = wakeup[u]
      BY <3>1, <2>list
    <3>3. WillRecompute' <=> WillRecompute
      BY <1>1 DEF InsTime, Callable, WillRecompute, walkVars, IndInv, Calls
    <3> QED
      BY <1>1, <3>1, <3>2, <3>3 DEF InsTime, threadVars, IndInv, NoLostWakeup
  <2>7. SleepsUntilWakeupTime'
    BY <1>1 DEF InsTime, Callable, IndInv, macVars, walkVars, threadVars, signalVars,
       emulVars, TypeOK, MacTypes, EmulTypes, ThreadTypes, SharedTypes, Protocol,
       Locking, Calls, SleepsUntilWakeupTime
  <2> QED
    BY <2>1, <2>2, <2>3, <2>4, <2>5, <2>6, <2>7 DEF IndInv
<1>2. ASSUME NEW t \in Tasks, NEW time \in Delays, PrimeTime(t, time) PROVE IndInv'
  <2>1. TypeOK'
    <3>1. MacTypes'
      <4> DEFINE again == t \in Extended \cap tmWakeUp
                 mac   == IF again /\ time = 0 THEN ReadMacInt16(tmCount[t]) ELSE time
                 at    == (IF again THEN wakeup[t] ELSE now) + DelayOf(mac)
      <4>1. wakeup' = [wakeup EXCEPT ![t] = at]
        BY <1>2 DEF PrimeTime
      <4>2. mac \in Int
        BY DelaysInt, ReadInt DEF IndInv, TypeOK, MacTypes
      <4> HIDE DEF mac
      <4>3. DelayOf(mac) \in Int
        BY <4>2, DelayInt
      <4>4. at \in Int
        BY <4>3 DEF IndInv, TypeOK, MacTypes, SharedTypes
      <4> HIDE DEF at
      <4> QED
        BY <1>2, <4>1, <4>4 DEF PrimeTime, IndInv, TypeOK, MacTypes
    <3>2. EmulTypes'
      BY <1>2 DEF PrimeTime, Callable, IndInv, TypeOK, MacTypes, EmulTypes,
         ThreadTypes, SharedTypes, macVars, walkVars, threadVars, signalVars, emulVars,
         EmulPcs
    <3>3. ThreadTypes'
      BY <1>2 DEF PrimeTime, Callable, IndInv, TypeOK, MacTypes, EmulTypes,
         ThreadTypes, SharedTypes, macVars, walkVars, threadVars, signalVars, emulVars,
         ThreadPcs, Protocol
    <3>4. SharedTypes'
      BY <1>2 DEF PrimeTime, Callable, IndInv, TypeOK, MacTypes, EmulTypes,
         ThreadTypes, SharedTypes, macVars, walkVars, threadVars, signalVars, emulVars
    <3> QED
      BY <3>1, <3>2, <3>3, <3>4 DEF TypeOK
  <2>2. Protocol'
    BY <1>2 DEF PrimeTime, Callable, IndInv, macVars, walkVars, threadVars, signalVars,
       emulVars, TypeOK, MacTypes, EmulTypes, ThreadTypes, SharedTypes, Protocol,
       Locking, Calls
  <2>3. Locking'
    BY <1>2 DEF PrimeTime, Callable, IndInv, macVars, walkVars, threadVars, signalVars,
       emulVars, TypeOK, MacTypes, EmulTypes, ThreadTypes, SharedTypes, Protocol,
       Locking, Calls
  <2>4. Calls'
    BY <1>2 DEF PrimeTime, Callable, IndInv, macVars, walkVars, threadVars, signalVars,
       emulVars, TypeOK, MacTypes, EmulTypes, ThreadTypes, SharedTypes, Protocol,
       Locking, Calls, Installed
  <2>5. NoDuplicates'
    BY <1>2 DEF PrimeTime, Callable, IndInv, macVars, walkVars, threadVars, signalVars,
       emulVars, TypeOK, MacTypes, EmulTypes, ThreadTypes, SharedTypes, Protocol,
       Locking, Calls, NoDuplicates
  <2>6. NoLostWakeup'
    BY <1>2 DEF PrimeTime, Callable, IndInv, macVars, walkVars, threadVars, signalVars,
       emulVars, TypeOK, MacTypes, EmulTypes, ThreadTypes, SharedTypes, Protocol,
       Locking, Calls, NoLostWakeup, WillRecompute, Installed
  <2>7. SleepsUntilWakeupTime'
    BY <1>2 DEF PrimeTime, Callable, IndInv, macVars, walkVars, threadVars, signalVars,
       emulVars, TypeOK, MacTypes, EmulTypes, ThreadTypes, SharedTypes, Protocol,
       Locking, Calls, SleepsUntilWakeupTime
  <2> QED
    BY <2>1, <2>2, <2>3, <2>4, <2>5, <2>6, <2>7 DEF IndInv
<1>3. ASSUME NEW t \in Tasks, RmvTime(t) PROVE IndInv'
  <2>1. TypeOK'
    <3>1. MacTypes'
      BY <1>3 DEF RmvTime, Callable, IndInv, TypeOK, MacTypes, EmulTypes, ThreadTypes,
         SharedTypes, macVars, walkVars, threadVars, signalVars, emulVars
    <3>2. EmulTypes'
      BY <1>3 DEF RmvTime, Callable, IndInv, TypeOK, MacTypes, EmulTypes, ThreadTypes,
         SharedTypes, macVars, walkVars, threadVars, signalVars, emulVars, EmulPcs
    <3>3. ThreadTypes'
      BY <1>3 DEF RmvTime, Callable, IndInv, TypeOK, MacTypes, EmulTypes, ThreadTypes,
         SharedTypes, macVars, walkVars, threadVars, signalVars, emulVars, ThreadPcs,
         Protocol
    <3>4. SharedTypes'
      BY <1>3 DEF RmvTime, Callable, IndInv, TypeOK, MacTypes, EmulTypes, ThreadTypes,
         SharedTypes, macVars, walkVars, threadVars, signalVars, emulVars
    <3> QED
      BY <3>1, <3>2, <3>3, <3>4 DEF TypeOK
  <2>2. Protocol'
    BY <1>3 DEF RmvTime, Callable, IndInv, macVars, walkVars, threadVars, signalVars,
       emulVars, TypeOK, MacTypes, EmulTypes, ThreadTypes, SharedTypes, Protocol,
       Locking, Calls
  <2>3. Locking'
    BY <1>3 DEF RmvTime, Callable, IndInv, macVars, walkVars, threadVars, signalVars,
       emulVars, TypeOK, MacTypes, EmulTypes, ThreadTypes, SharedTypes, Protocol,
       Locking, Calls
  <2>4. Calls'
    BY <1>3 DEF RmvTime, Callable, IndInv, macVars, walkVars, threadVars, signalVars,
       emulVars, TypeOK, MacTypes, EmulTypes, ThreadTypes, SharedTypes, Protocol,
       Locking, Calls, Installed
  <2>5. NoDuplicates'
    BY <1>3 DEF RmvTime, Callable, IndInv, macVars, walkVars, threadVars, signalVars,
       emulVars, TypeOK, MacTypes, EmulTypes, ThreadTypes, SharedTypes, Protocol,
       Locking, Calls, NoDuplicates
  <2>6. NoLostWakeup'
    BY <1>3 DEF RmvTime, Callable, IndInv, macVars, walkVars, threadVars, signalVars,
       emulVars, TypeOK, MacTypes, EmulTypes, ThreadTypes, SharedTypes, Protocol,
       Locking, Calls, NoLostWakeup, WillRecompute, Installed
  <2>7. SleepsUntilWakeupTime'
    BY <1>3 DEF RmvTime, Callable, IndInv, macVars, walkVars, threadVars, signalVars,
       emulVars, TypeOK, MacTypes, EmulTypes, ThreadTypes, SharedTypes, Protocol,
       Locking, Calls, SleepsUntilWakeupTime
  <2> QED
    BY <2>1, <2>2, <2>3, <2>4, <2>5, <2>6, <2>7 DEF IndInv
<1>4. CASE TimerReset
  <2>1. TypeOK'
    <3>1. MacTypes'
      BY <1>4 DEF TimerReset, IndInv, TypeOK, MacTypes, EmulTypes, ThreadTypes,
         SharedTypes, macVars, walkVars, threadVars, signalVars, emulVars
    <3>2. EmulTypes'
      BY <1>4 DEF TimerReset, IndInv, TypeOK, MacTypes, EmulTypes, ThreadTypes,
         SharedTypes, macVars, walkVars, threadVars, signalVars, emulVars, EmulPcs
    <3>3. ThreadTypes'
      BY <1>4 DEF TimerReset, IndInv, TypeOK, MacTypes, EmulTypes, ThreadTypes,
         SharedTypes, macVars, walkVars, threadVars, signalVars, emulVars, ThreadPcs,
         Protocol
    <3>4. SharedTypes'
      BY <1>4 DEF TimerReset, IndInv, TypeOK, MacTypes, EmulTypes, ThreadTypes,
         SharedTypes, macVars, walkVars, threadVars, signalVars, emulVars
    <3> QED
      BY <3>1, <3>2, <3>3, <3>4 DEF TypeOK
  <2>2. Protocol'
    BY <1>4 DEF TimerReset, IndInv, macVars, walkVars, threadVars, signalVars,
       emulVars, TypeOK, MacTypes, EmulTypes, ThreadTypes, SharedTypes, Protocol,
       Locking, Calls
  <2>3. Locking'
    BY <1>4 DEF TimerReset, IndInv, macVars, walkVars, threadVars, signalVars,
       emulVars, TypeOK, MacTypes, EmulTypes, ThreadTypes, SharedTypes, Protocol,
       Locking, Calls
  <2>4. Calls'
    BY <1>4 DEF TimerReset, IndInv, macVars, walkVars, threadVars, signalVars,
       emulVars, TypeOK, MacTypes, EmulTypes, ThreadTypes, SharedTypes, Protocol,
       Locking, Calls, Installed
  <2>5. NoDuplicates'
    BY <1>4 DEF TimerReset, IndInv, macVars, walkVars, threadVars, signalVars,
       emulVars, TypeOK, MacTypes, EmulTypes, ThreadTypes, SharedTypes, Protocol,
       Locking, Calls, NoDuplicates
  <2>6. NoLostWakeup'
    <3>1. Installed' = {}
      BY <1>4 DEF TimerReset, Installed, Range
    <3> QED
      BY <3>1 DEF NoLostWakeup
  <2>7. SleepsUntilWakeupTime'
    BY <1>4 DEF TimerReset, IndInv, macVars, walkVars, threadVars, signalVars,
       emulVars, TypeOK, MacTypes, EmulTypes, ThreadTypes, SharedTypes, Protocol,
       Locking, Calls, SleepsUntilWakeupTime
  <2> QED
    BY <2>1, <2>2, <2>3, <2>4, <2>5, <2>6, <2>7 DEF IndInv
<1>5. CASE TimerExit
  BY <1>5
  DEF TimerExit, IndInv, TypeOK, MacTypes, EmulTypes, ThreadTypes, SharedTypes,
  Protocol, Locking, Calls, NoDuplicates, NoLostWakeup,
      SleepsUntilWakeupTime, WillRecompute,
      EmulPcs, ThreadPcs, Installed, macVars, walkVars, threadVars, signalVars, emulVars
<1>6. CASE timer_thread_suspend
  BY <1>6
  DEF timer_thread_suspend, IndInv, TypeOK, MacTypes, EmulTypes, ThreadTypes,
  SharedTypes, Protocol, Locking, Calls, NoDuplicates, NoLostWakeup,
      SleepsUntilWakeupTime, WillRecompute,
      EmulPcs, ThreadPcs, Installed, macVars, walkVars, threadVars, signalVars, emulVars
<1>7. CASE AwaitSuspendAck
  BY <1>7
  DEF AwaitSuspendAck, IndInv, TypeOK, MacTypes, EmulTypes, ThreadTypes, SharedTypes,
  Protocol, Locking, Calls, NoDuplicates, NoLostWakeup,
      SleepsUntilWakeupTime, WillRecompute,
      EmulPcs, ThreadPcs, Installed, macVars, walkVars, threadVars, signalVars, emulVars
<1>8. CASE LockWakeupTime
  BY <1>8
  DEF LockWakeupTime, IndInv, TypeOK, MacTypes, EmulTypes, ThreadTypes, SharedTypes,
  Protocol, Locking, Calls, NoDuplicates, NoLostWakeup,
      SleepsUntilWakeupTime, WillRecompute,
      EmulPcs, ThreadPcs, Installed, macVars, walkVars, threadVars, signalVars, emulVars
<1>9. CASE Update
  <2>set. ASSUME NEW A, A \subseteq Tasks, SetWakeupTime(A)
        PROVE  /\ wakeup_time' \in Int
               /\ \A t \in A \cap Installed : wakeup_time' <= wakeup[t]
    <3> DEFINE times == {wakeup_time_max} \cup {wakeup[t] : t \in A \cap Installed}
    <3>1. times \subseteq Int
      BY <2>set DEF IndInv, TypeOK, MacTypes
    <3>2. wakeup_time' \in times /\ \A time \in times : wakeup_time' <= time
      BY <2>set DEF SetWakeupTime
    <3>3. \A t \in A \cap Installed : wakeup[t] \in times
      OBVIOUS
    <3> HIDE DEF times
    <3> QED
      BY <3>1, <3>2, <3>3
  <2>call. /\ op.name \in {"PrimeTime", "RmvTime", "TimerInterrupt"}
           /\ op.name # "TimerInterrupt" => op.task \in Tasks
    BY <1>9 DEF Update, IndInv, TypeOK, EmulTypes, MacTypes, Calls, Installed, Range
  <2>cases. \/ active' \subseteq Tasks /\ SetWakeupTime(active')
            \/ /\ op.name = "RmvTime" /\ op.task \notin active
               /\ active' = active /\ wakeup_time' = wakeup_time
    BY <1>9, <2>call DEF Update, IndInv, TypeOK, MacTypes
  <2>1. TypeOK'
    <3>1. MacTypes'
      <4>1. active' \subseteq Tasks
        BY <2>cases DEF IndInv, TypeOK, MacTypes
      <4>2. tmCount' \in [Tasks -> Int]
        <5>1. ASSUME op.task \in Tasks
              PROVE  SavedCount(wakeup[op.task] - now) \in Int
          BY <5>1, SavedInt DEF IndInv, TypeOK, MacTypes, SharedTypes
        <5> QED
          BY <1>9, <2>call, <5>1 DEF Update, IndInv, TypeOK, MacTypes
      <4> QED
        BY <1>9, <4>1, <4>2 DEF Update, IndInv, TypeOK, MacTypes
    <3>2. EmulTypes'
      BY <1>9 DEF Update, SetWakeupTime, IndInv, TypeOK, MacTypes, EmulTypes,
         ThreadTypes, SharedTypes, macVars, walkVars, threadVars, signalVars, emulVars,
         EmulPcs
    <3>3. ThreadTypes'
      BY <1>9 DEF Update, SetWakeupTime, IndInv, TypeOK, MacTypes, EmulTypes,
         ThreadTypes, SharedTypes, macVars, walkVars, threadVars, signalVars, emulVars,
         ThreadPcs, Protocol
    <3>4. SharedTypes'
      <4>1. wakeup_time' \in Int
        BY <2>set, <2>cases DEF IndInv, TypeOK, SharedTypes
      <4> QED
        BY <1>9, <4>1 DEF Update, IndInv, TypeOK, SharedTypes
    <3> QED
      BY <3>1, <3>2, <3>3, <3>4 DEF TypeOK
  <2>2. Protocol'
    BY <1>9 DEF Update, SetWakeupTime, IndInv, macVars, walkVars, threadVars,
       signalVars, emulVars, TypeOK, MacTypes, EmulTypes, ThreadTypes, SharedTypes,
       Protocol, Locking, Calls
  <2>3. Locking'
    BY <1>9 DEF Update, SetWakeupTime, IndInv, macVars, walkVars, threadVars,
       signalVars, emulVars, TypeOK, MacTypes, EmulTypes, ThreadTypes, SharedTypes,
       Protocol, Locking, Calls
  <2>4. Calls'
    BY <1>9 DEF Update, SetWakeupTime, IndInv, macVars, walkVars, threadVars,
       signalVars, emulVars, TypeOK, MacTypes, EmulTypes, ThreadTypes, SharedTypes,
       Protocol, Locking, Calls, Installed
  <2>5. NoDuplicates'
    BY <1>9 DEF Update, SetWakeupTime, IndInv, macVars, walkVars, threadVars,
       signalVars, emulVars, TypeOK, MacTypes, EmulTypes, ThreadTypes, SharedTypes,
       Protocol, Locking, Calls, NoDuplicates
  <2>6. NoLostWakeup'
    <3>1. CASE callee # NoTask
      BY <1>9, <3>1 DEF Update, walkVars, NoLostWakeup, WillRecompute
    <3>2. CASE active' \subseteq Tasks /\ SetWakeupTime(active')
      <4>1. \A t \in active' \cap Installed : wakeup_time' <= wakeup[t]
        BY <2>set, <3>2
      <4> QED
        BY <1>9, <4>1 DEF Update, NoLostWakeup, Installed
    <3>3. CASE /\ op.name = "RmvTime" /\ op.task \notin active /\ callee = NoTask
               /\ active' = active /\ wakeup_time' = wakeup_time
      <4>1. ~WillRecompute
        BY <1>9, <3>3 DEF Update, WillRecompute
      <4> QED
        BY <1>9, <3>3, <4>1 DEF Update, threadVars, NoLostWakeup, Installed, IndInv
    <3> QED
      BY <2>cases, <3>1, <3>2, <3>3
  <2>7. SleepsUntilWakeupTime'
    BY <1>9 DEF Update, SetWakeupTime, IndInv, macVars, walkVars, threadVars,
       signalVars, emulVars, TypeOK, MacTypes, EmulTypes, ThreadTypes, SharedTypes,
       Protocol, Locking, Calls, SleepsUntilWakeupTime
  <2> QED
    BY <2>1, <2>2, <2>3, <2>4, <2>5, <2>6, <2>7 DEF IndInv
<1>10. CASE timer_thread_resume
  <2>list. /\ tmDescList' \in Seq(Tasks)
           /\ wakeup' \in [Tasks -> Int]
           /\ NoDuplicates'
           /\ Installed' \subseteq Installed
           /\ \A t \in Installed' : wakeup'[t] = wakeup[t]
    BY <1>10, ResumeList
  <2>1. TypeOK'
    <3>1. MacTypes'
      BY <1>10, <2>list DEF timer_thread_resume, IndInv, TypeOK, MacTypes
    <3>2. EmulTypes'
      BY <1>10 DEF timer_thread_resume, free_desc, NoOp, IndInv, TypeOK, MacTypes,
         EmulTypes, ThreadTypes, SharedTypes, macVars, walkVars, threadVars,
         signalVars, emulVars, EmulPcs
    <3>3. ThreadTypes'
      BY <1>10 DEF timer_thread_resume, free_desc, NoOp, IndInv, TypeOK, MacTypes,
         EmulTypes, ThreadTypes, SharedTypes, macVars, walkVars, threadVars,
         signalVars, emulVars, ThreadPcs, Protocol
    <3>4. SharedTypes'
      BY <1>10 DEF timer_thread_resume, free_desc, NoOp, IndInv, TypeOK, MacTypes,
         EmulTypes, ThreadTypes, SharedTypes, macVars, walkVars, threadVars,
         signalVars, emulVars
    <3> QED
      BY <3>1, <3>2, <3>3, <3>4 DEF TypeOK
  <2>2. Protocol'
    BY <1>10 DEF timer_thread_resume, free_desc, NoOp, IndInv, macVars, walkVars,
       threadVars, signalVars, emulVars, TypeOK, MacTypes, EmulTypes, ThreadTypes,
       SharedTypes, Protocol, Locking, Calls
  <2>3. Locking'
    BY <1>10 DEF timer_thread_resume, free_desc, NoOp, IndInv, macVars, walkVars,
       threadVars, signalVars, emulVars, TypeOK, MacTypes, EmulTypes, ThreadTypes,
       SharedTypes, Protocol, Locking, Calls
  <2>4. Calls'
    BY <1>10 DEF timer_thread_resume, free_desc, NoOp, IndInv, macVars, walkVars,
       threadVars, signalVars, emulVars, TypeOK, MacTypes, EmulTypes, ThreadTypes,
       SharedTypes, Protocol, Locking, Calls, Installed
  <2>5. NoDuplicates'
    BY <2>list
  <2>6. NoLostWakeup'
    <3>1. CASE callee # NoTask
      BY <1>10, <3>1 DEF timer_thread_resume, NoLostWakeup, WillRecompute
    <3>2. CASE callee = NoTask
      <4>1. ~WillRecompute
        BY <1>10, <3>2 DEF timer_thread_resume, WillRecompute
      <4> QED
        BY <1>10, <4>1, <2>list DEF timer_thread_resume, threadVars, NoLostWakeup,
           IndInv
    <3> QED
      BY <3>1, <3>2
  <2>7. SleepsUntilWakeupTime'
    BY <1>10 DEF timer_thread_resume, free_desc, NoOp, IndInv, macVars, walkVars,
       threadVars, signalVars, emulVars, TypeOK, MacTypes, EmulTypes, ThreadTypes,
       SharedTypes, Protocol, Locking, Calls, SleepsUntilWakeupTime
  <2> QED
    BY <2>1, <2>2, <2>3, <2>4, <2>5, <2>6, <2>7 DEF IndInv
<1>11. CASE TimerInterrupt
  <2>1. TypeOK'
    <3>1. MacTypes'
      BY <1>11 DEF TimerInterrupt, IndInv, TypeOK, MacTypes, EmulTypes, ThreadTypes,
         SharedTypes, macVars, walkVars, threadVars, signalVars, emulVars
    <3>2. EmulTypes'
      BY <1>11 DEF TimerInterrupt, IndInv, TypeOK, MacTypes, EmulTypes, ThreadTypes,
         SharedTypes, macVars, walkVars, threadVars, signalVars, emulVars, EmulPcs
    <3>3. ThreadTypes'
      BY <1>11 DEF TimerInterrupt, IndInv, TypeOK, MacTypes, EmulTypes, ThreadTypes,
         SharedTypes, macVars, walkVars, threadVars, signalVars, emulVars, ThreadPcs,
         Protocol
    <3>4. SharedTypes'
      BY <1>11 DEF TimerInterrupt, IndInv, TypeOK, MacTypes, EmulTypes, ThreadTypes,
         SharedTypes, macVars, walkVars, threadVars, signalVars, emulVars
    <3> QED
      BY <3>1, <3>2, <3>3, <3>4 DEF TypeOK
  <2>2. Protocol'
    BY <1>11 DEF TimerInterrupt, IndInv, macVars, walkVars, threadVars, signalVars,
       emulVars, TypeOK, MacTypes, EmulTypes, ThreadTypes, SharedTypes, Protocol,
       Locking, Calls
  <2>3. Locking'
    BY <1>11 DEF TimerInterrupt, IndInv, macVars, walkVars, threadVars, signalVars,
       emulVars, TypeOK, MacTypes, EmulTypes, ThreadTypes, SharedTypes, Protocol,
       Locking, Calls
  <2>4. Calls'
    BY <1>11 DEF TimerInterrupt, IndInv, macVars, walkVars, threadVars, signalVars,
       emulVars, TypeOK, MacTypes, EmulTypes, ThreadTypes, SharedTypes, Protocol,
       Locking, Calls, Installed
  <2>5. NoDuplicates'
    BY <1>11 DEF TimerInterrupt, IndInv, macVars, walkVars, threadVars, signalVars,
       emulVars, TypeOK, MacTypes, EmulTypes, ThreadTypes, SharedTypes, Protocol,
       Locking, Calls, NoDuplicates
  <2>6. NoLostWakeup'
    BY <1>11 DEF TimerInterrupt, IndInv, macVars, walkVars, threadVars, signalVars,
       emulVars, TypeOK, MacTypes, EmulTypes, ThreadTypes, SharedTypes, Protocol,
       Locking, Calls, NoLostWakeup, WillRecompute, Installed
  <2>7. SleepsUntilWakeupTime'
    BY <1>11 DEF TimerInterrupt, IndInv, macVars, walkVars, threadVars, signalVars,
       emulVars, TypeOK, MacTypes, EmulTypes, ThreadTypes, SharedTypes, Protocol,
       Locking, Calls, SleepsUntilWakeupTime
  <2> QED
    BY <2>1, <2>2, <2>3, <2>4, <2>5, <2>6, <2>7 DEF IndInv
<1>12. CASE CallTask
  <2> USE DEF CallTask
  <2>1. TypeOK'
    <3>1. MacTypes'
      BY <1>12 DEF IndInv, TypeOK, MacTypes, EmulTypes, ThreadTypes, SharedTypes,
         macVars, walkVars, threadVars, signalVars, emulVars
    <3>2. EmulTypes'
      <4>1. NextDesc(cursor) \in Tasks \cup {NoTask}
        BY NextDescType DEF IndInv, TypeOK, MacTypes
      <4> QED
        BY <1>12, <4>1 DEF IndInv, TypeOK, MacTypes, EmulTypes, macVars, EmulPcs
    <3>3. ThreadTypes'
      BY <1>12 DEF IndInv, TypeOK, MacTypes, EmulTypes, ThreadTypes, SharedTypes,
         macVars, walkVars, threadVars, signalVars, emulVars, ThreadPcs,
         Protocol
    <3>4. SharedTypes'
      BY <1>12 DEF IndInv, TypeOK, MacTypes, EmulTypes, ThreadTypes, SharedTypes,
         macVars, walkVars, threadVars, signalVars, emulVars
    <3> QED
      BY <3>1, <3>2, <3>3, <3>4 DEF TypeOK
  <2>2. Protocol'
    BY <1>12 DEF IndInv, macVars, walkVars, threadVars, signalVars,
       emulVars, TypeOK, MacTypes, EmulTypes, ThreadTypes, SharedTypes,
       Protocol, Locking, Calls
  <2>3. Locking'
    BY <1>12 DEF IndInv, macVars, walkVars, threadVars, signalVars,
       emulVars, TypeOK, MacTypes, EmulTypes, ThreadTypes, SharedTypes,
       Protocol, Locking, Calls
  <2>4. Calls'
    BY <1>12 DEF IndInv, macVars, walkVars, threadVars, signalVars,
       emulVars, TypeOK, MacTypes, EmulTypes, ThreadTypes, SharedTypes,
       Protocol, Locking, Calls, Installed
  <2>5. NoDuplicates'
    BY <1>12 DEF IndInv, macVars, walkVars, threadVars, signalVars,
       emulVars, TypeOK, MacTypes, EmulTypes, ThreadTypes, SharedTypes,
       Protocol, Locking, Calls, NoDuplicates
  <2>6. NoLostWakeup'
    BY <1>12 DEF IndInv, macVars, walkVars, threadVars, signalVars,
       emulVars, TypeOK, MacTypes, EmulTypes, ThreadTypes, SharedTypes,
       Protocol, Locking, Calls, NoLostWakeup, WillRecompute, Installed
  <2>7. SleepsUntilWakeupTime'
    BY <1>12 DEF IndInv, macVars, walkVars, threadVars, signalVars,
       emulVars, TypeOK, MacTypes, EmulTypes, ThreadTypes, SharedTypes,
       Protocol, Locking, Calls, SleepsUntilWakeupTime
  <2> QED
    BY <2>1, <2>2, <2>3, <2>4, <2>5, <2>6, <2>7 DEF IndInv
<1>13. CASE SkipTask
  <2> USE DEF SkipTask
  <2>1. TypeOK'
    <3>1. MacTypes'
      BY <1>13 DEF IndInv, TypeOK, MacTypes, EmulTypes, ThreadTypes, SharedTypes,
         macVars, walkVars, threadVars, signalVars, emulVars
    <3>2. EmulTypes'
      <4>1. NextDesc(cursor) \in Tasks \cup {NoTask}
        BY NextDescType DEF IndInv, TypeOK, MacTypes
      <4> QED
        BY <1>13, <4>1 DEF IndInv, TypeOK, MacTypes, EmulTypes, macVars, EmulPcs
    <3>3. ThreadTypes'
      BY <1>13 DEF IndInv, TypeOK, MacTypes, EmulTypes, ThreadTypes, SharedTypes,
         macVars, walkVars, threadVars, signalVars, emulVars, ThreadPcs,
         Protocol
    <3>4. SharedTypes'
      BY <1>13 DEF IndInv, TypeOK, MacTypes, EmulTypes, ThreadTypes, SharedTypes,
         macVars, walkVars, threadVars, signalVars, emulVars
    <3> QED
      BY <3>1, <3>2, <3>3, <3>4 DEF TypeOK
  <2>2. Protocol'
    BY <1>13 DEF IndInv, macVars, walkVars, threadVars, signalVars,
       emulVars, TypeOK, MacTypes, EmulTypes, ThreadTypes, SharedTypes,
       Protocol, Locking, Calls
  <2>3. Locking'
    BY <1>13 DEF IndInv, macVars, walkVars, threadVars, signalVars,
       emulVars, TypeOK, MacTypes, EmulTypes, ThreadTypes, SharedTypes,
       Protocol, Locking, Calls
  <2>4. Calls'
    BY <1>13 DEF IndInv, macVars, walkVars, threadVars, signalVars,
       emulVars, TypeOK, MacTypes, EmulTypes, ThreadTypes, SharedTypes,
       Protocol, Locking, Calls, Installed
  <2>5. NoDuplicates'
    BY <1>13 DEF IndInv, macVars, walkVars, threadVars, signalVars,
       emulVars, TypeOK, MacTypes, EmulTypes, ThreadTypes, SharedTypes,
       Protocol, Locking, Calls, NoDuplicates
  <2>6. NoLostWakeup'
    BY <1>13 DEF IndInv, macVars, walkVars, threadVars, signalVars,
       emulVars, TypeOK, MacTypes, EmulTypes, ThreadTypes, SharedTypes,
       Protocol, Locking, Calls, NoLostWakeup, WillRecompute, Installed
  <2>7. SleepsUntilWakeupTime'
    BY <1>13 DEF IndInv, macVars, walkVars, threadVars, signalVars,
       emulVars, TypeOK, MacTypes, EmulTypes, ThreadTypes, SharedTypes,
       Protocol, Locking, Calls, SleepsUntilWakeupTime
  <2> QED
    BY <2>1, <2>2, <2>3, <2>4, <2>5, <2>6, <2>7 DEF IndInv
<1>14. CASE WalkFreedDesc
  <2>1. TypeOK'
    <3>1. MacTypes'
      BY <1>14 DEF WalkFreedDesc, IndInv, TypeOK, MacTypes, EmulTypes, ThreadTypes,
         SharedTypes, macVars, walkVars, threadVars, signalVars, emulVars
    <3>2. EmulTypes'
      <4>1. Installed \subseteq Tasks
        BY DEF IndInv, TypeOK, MacTypes, Installed, Range
      <4>2. active \subseteq Tasks
        BY DEF IndInv, TypeOK, MacTypes
      <4> QED
        BY <1>14, <4>1, <4>2 DEF WalkFreedDesc, IndInv, TypeOK, EmulTypes, EmulPcs
    <3>3. ThreadTypes'
      BY <1>14 DEF WalkFreedDesc, IndInv, TypeOK, MacTypes, EmulTypes, ThreadTypes,
         SharedTypes, macVars, walkVars, threadVars, signalVars, emulVars, ThreadPcs,
         Protocol
    <3>4. SharedTypes'
      BY <1>14 DEF WalkFreedDesc, IndInv, TypeOK, MacTypes, EmulTypes, ThreadTypes,
         SharedTypes, macVars, walkVars, threadVars, signalVars, emulVars
    <3> QED
      BY <3>1, <3>2, <3>3, <3>4 DEF TypeOK
  <2>2. Protocol'
    BY <1>14 DEF WalkFreedDesc, IndInv, macVars, walkVars, threadVars, signalVars,
       emulVars, TypeOK, MacTypes, EmulTypes, ThreadTypes, SharedTypes, Protocol,
       Locking, Calls
  <2>3. Locking'
    BY <1>14 DEF WalkFreedDesc, IndInv, macVars, walkVars, threadVars, signalVars,
       emulVars, TypeOK, MacTypes, EmulTypes, ThreadTypes, SharedTypes, Protocol,
       Locking, Calls
  <2>4. Calls'
    BY <1>14, TasksAssumption DEF WalkFreedDesc, IndInv, TypeOK, MacTypes, Calls, Installed
  <2>5. NoDuplicates'
    BY <1>14 DEF WalkFreedDesc, IndInv, macVars, walkVars, threadVars, signalVars,
       emulVars, TypeOK, MacTypes, EmulTypes, ThreadTypes, SharedTypes, Protocol,
       Locking, Calls, NoDuplicates
  <2>6. NoLostWakeup'
    BY <1>14 DEF WalkFreedDesc, IndInv, macVars, walkVars, threadVars, signalVars,
       emulVars, TypeOK, MacTypes, EmulTypes, ThreadTypes, SharedTypes, Protocol,
       Locking, Calls, NoLostWakeup, WillRecompute, Installed
  <2>7. SleepsUntilWakeupTime'
    BY <1>14 DEF WalkFreedDesc, IndInv, macVars, walkVars, threadVars, signalVars,
       emulVars, TypeOK, MacTypes, EmulTypes, ThreadTypes, SharedTypes, Protocol,
       Locking, Calls, SleepsUntilWakeupTime
  <2> QED
    BY <2>1, <2>2, <2>3, <2>4, <2>5, <2>6, <2>7 DEF IndInv
<1>15. CASE EndOfWalk
  BY <1>15
  DEF EndOfWalk, IndInv, TypeOK, MacTypes, EmulTypes, ThreadTypes, SharedTypes,
  Protocol, Locking, Calls, NoDuplicates, NoLostWakeup,
      SleepsUntilWakeupTime, WillRecompute,
      EmulPcs, ThreadPcs, Installed, macVars, walkVars, threadVars, signalVars, emulVars
<1>16. CASE ReturnFromTask
  BY <1>16
  DEF ReturnFromTask, IndInv, TypeOK, MacTypes, EmulTypes, ThreadTypes, SharedTypes,
  Protocol, Locking, Calls, NoDuplicates, NoLostWakeup,
      SleepsUntilWakeupTime, WillRecompute,
      EmulPcs, ThreadPcs, Installed, macVars, walkVars, threadVars, signalVars, emulVars
<1>17. CASE JoinTimerThread
  BY <1>17
  DEF JoinTimerThread, IndInv, TypeOK, MacTypes, EmulTypes, ThreadTypes, SharedTypes,
  Protocol, Locking, Calls, NoDuplicates, NoLostWakeup,
      SleepsUntilWakeupTime, WillRecompute,
      EmulPcs, ThreadPcs, Installed, macVars, walkVars, threadVars, signalVars, emulVars
<1>18. CASE EnterSleep
  BY <1>18
  DEF EnterSleep, IndInv, TypeOK, MacTypes, EmulTypes, ThreadTypes, SharedTypes,
  Protocol, Locking, Calls, NoDuplicates, NoLostWakeup,
      SleepsUntilWakeupTime, WillRecompute,
      EmulPcs, ThreadPcs, Installed, macVars, walkVars, threadVars, signalVars, emulVars
<1>19. CASE LeaveSleep
  BY <1>19
  DEF LeaveSleep, IndInv, TypeOK, MacTypes, EmulTypes, ThreadTypes, SharedTypes,
  Protocol, Locking, Calls, NoDuplicates, NoLostWakeup,
      SleepsUntilWakeupTime, WillRecompute,
      EmulPcs, ThreadPcs, Installed, macVars, walkVars, threadVars, signalVars, emulVars
<1>20. CASE ReadClock
  BY <1>20
  DEF ReadClock, IndInv, TypeOK, MacTypes, EmulTypes, ThreadTypes, SharedTypes,
  Protocol, Locking, Calls, NoDuplicates, NoLostWakeup,
      SleepsUntilWakeupTime, WillRecompute,
      EmulPcs, ThreadPcs, Installed, macVars, walkVars, threadVars, signalVars, emulVars
<1>21. CASE CompareTime
  BY <1>21
  DEF CompareTime, IndInv, TypeOK, MacTypes, EmulTypes, ThreadTypes, SharedTypes,
  Protocol, Locking, Calls, NoDuplicates, NoLostWakeup,
      SleepsUntilWakeupTime, WillRecompute,
      EmulPcs, ThreadPcs, Installed, macVars, walkVars, threadVars, signalVars, emulVars
<1>22. CASE ThreadLocks
  BY <1>22
  DEF ThreadLocks, IndInv, TypeOK, MacTypes, EmulTypes, ThreadTypes, SharedTypes,
  Protocol, Locking, Calls, NoDuplicates, NoLostWakeup,
      SleepsUntilWakeupTime, WillRecompute,
      EmulPcs, ThreadPcs, Installed, macVars, walkVars, threadVars, signalVars, emulVars
<1>23. CASE ClearWakeupTime
  BY <1>23
  DEF ClearWakeupTime, IndInv, TypeOK, MacTypes, EmulTypes, ThreadTypes, SharedTypes,
  Protocol, Locking, Calls, NoDuplicates, NoLostWakeup,
      SleepsUntilWakeupTime, WillRecompute,
      EmulPcs, ThreadPcs, Installed, macVars, walkVars, threadVars, signalVars, emulVars
<1>24. CASE TriggerTimerInterrupt
  BY <1>24
  DEF TriggerTimerInterrupt, IndInv, TypeOK, MacTypes, EmulTypes, ThreadTypes,
  SharedTypes, Protocol, Locking, Calls, NoDuplicates, NoLostWakeup,
      SleepsUntilWakeupTime, WillRecompute,
      EmulPcs, ThreadPcs, Installed, macVars, walkVars, threadVars, signalVars, emulVars
<1>25. CASE sigsuspend_handler
  <2>1. TypeOK'
    <3>1. MacTypes'
      BY <1>25 DEF sigsuspend_handler, IndInv, TypeOK, MacTypes, EmulTypes,
         ThreadTypes, SharedTypes, macVars, walkVars, threadVars, signalVars, emulVars
    <3>2. EmulTypes'
      BY <1>25 DEF sigsuspend_handler, IndInv, TypeOK, MacTypes, EmulTypes,
         ThreadTypes, SharedTypes, macVars, walkVars, threadVars, signalVars, emulVars,
         EmulPcs
    <3>3. ThreadTypes'
      <4>1. sigSuspend' \in BOOLEAN
        BY <1>25, Zenon DEF sigsuspend_handler
      <4>2. suspendAck' = 1
        BY <1>25 DEF sigsuspend_handler, IndInv, TypeOK, ThreadTypes, Protocol
      <4>3. tpc' \in ThreadPcs /\ deadline' \in Int /\ mode' \in {"run", "acked",
      "suspended"}
        BY <1>25 DEF sigsuspend_handler, IndInv, TypeOK, ThreadTypes, ThreadPcs
      <4> QED
        BY <1>25, <4>1, <4>2, <4>3 DEF sigsuspend_handler, IndInv, TypeOK, ThreadTypes
    <3>4. SharedTypes'
      BY <1>25 DEF sigsuspend_handler, IndInv, TypeOK, MacTypes, EmulTypes,
         ThreadTypes, SharedTypes, macVars, walkVars, threadVars, signalVars, emulVars
    <3> QED
      BY <3>1, <3>2, <3>3, <3>4 DEF TypeOK
  <2>2. Protocol'
    BY <1>25 DEF sigsuspend_handler, IndInv, macVars, walkVars, threadVars, signalVars,
       emulVars, TypeOK, MacTypes, EmulTypes, ThreadTypes, SharedTypes, Protocol,
       Locking, Calls
  <2>3. Locking'
    BY <1>25 DEF sigsuspend_handler, IndInv, macVars, walkVars, threadVars, signalVars,
       emulVars, TypeOK, MacTypes, EmulTypes, ThreadTypes, SharedTypes, Protocol,
       Locking, Calls
  <2>4. Calls'
    BY <1>25 DEF sigsuspend_handler, IndInv, macVars, walkVars, threadVars, signalVars,
       emulVars, TypeOK, MacTypes, EmulTypes, ThreadTypes, SharedTypes, Protocol,
       Locking, Calls, Installed
  <2>5. NoDuplicates'
    BY <1>25 DEF sigsuspend_handler, IndInv, macVars, walkVars, threadVars, signalVars,
       emulVars, TypeOK, MacTypes, EmulTypes, ThreadTypes, SharedTypes, Protocol,
       Locking, Calls, NoDuplicates
  <2>6. NoLostWakeup'
    BY <1>25 DEF sigsuspend_handler, IndInv, macVars, walkVars, threadVars, signalVars,
       emulVars, TypeOK, MacTypes, EmulTypes, ThreadTypes, SharedTypes, Protocol,
       Locking, Calls, NoLostWakeup, WillRecompute, Installed
  <2>7. SleepsUntilWakeupTime'
    BY <1>25 DEF sigsuspend_handler, IndInv, macVars, walkVars, threadVars, signalVars,
       emulVars, TypeOK, MacTypes, EmulTypes, ThreadTypes, SharedTypes, Protocol,
       Locking, Calls, SleepsUntilWakeupTime
  <2> QED
    BY <2>1, <2>2, <2>3, <2>4, <2>5, <2>6, <2>7 DEF IndInv
<1>26. CASE SigSuspendWaits
  BY <1>26
  DEF SigSuspendWaits, IndInv, TypeOK, MacTypes, EmulTypes, ThreadTypes, SharedTypes,
  Protocol, Locking, Calls, NoDuplicates, NoLostWakeup,
      SleepsUntilWakeupTime, WillRecompute,
      EmulPcs, ThreadPcs, Installed, macVars, walkVars, threadVars, signalVars, emulVars
<1>27. CASE sigresume_handler
  <2>1. TypeOK'
    <3>1. MacTypes'
      BY <1>27 DEF sigresume_handler, IndInv, TypeOK, MacTypes, EmulTypes, ThreadTypes,
         SharedTypes, macVars, walkVars, threadVars, signalVars, emulVars
    <3>2. EmulTypes'
      BY <1>27 DEF sigresume_handler, IndInv, TypeOK, MacTypes, EmulTypes, ThreadTypes,
         SharedTypes, macVars, walkVars, threadVars, signalVars, emulVars, EmulPcs
    <3>3. ThreadTypes'
      BY <1>27 DEF sigresume_handler, IndInv, TypeOK, MacTypes, EmulTypes, ThreadTypes,
         SharedTypes, macVars, walkVars, threadVars, signalVars, emulVars, ThreadPcs,
         Protocol
    <3>4. SharedTypes'
      BY <1>27 DEF sigresume_handler, IndInv, TypeOK, MacTypes, EmulTypes, ThreadTypes,
         SharedTypes, macVars, walkVars, threadVars, signalVars, emulVars
    <3> QED
      BY <3>1, <3>2, <3>3, <3>4 DEF TypeOK
  <2>2. Protocol'
    BY <1>27 DEF sigresume_handler, IndInv, macVars, walkVars, threadVars, signalVars,
       emulVars, TypeOK, MacTypes, EmulTypes, ThreadTypes, SharedTypes, Protocol,
       Locking, Calls
  <2>3. Locking'
    BY <1>27 DEF sigresume_handler, IndInv, macVars, walkVars, threadVars, signalVars,
       emulVars, TypeOK, MacTypes, EmulTypes, ThreadTypes, SharedTypes, Protocol,
       Locking, Calls
  <2>4. Calls'
    BY <1>27 DEF sigresume_handler, IndInv, macVars, walkVars, threadVars, signalVars,
       emulVars, TypeOK, MacTypes, EmulTypes, ThreadTypes, SharedTypes, Protocol,
       Locking, Calls, Installed
  <2>5. NoDuplicates'
    BY <1>27 DEF sigresume_handler, IndInv, macVars, walkVars, threadVars, signalVars,
       emulVars, TypeOK, MacTypes, EmulTypes, ThreadTypes, SharedTypes, Protocol,
       Locking, Calls, NoDuplicates
  <2>6. NoLostWakeup'
    BY <1>27 DEF sigresume_handler, IndInv, macVars, walkVars, threadVars, signalVars,
       emulVars, TypeOK, MacTypes, EmulTypes, ThreadTypes, SharedTypes, Protocol,
       Locking, Calls, NoLostWakeup, WillRecompute, Installed
  <2>7. SleepsUntilWakeupTime'
    BY <1>27 DEF sigresume_handler, IndInv, macVars, walkVars, threadVars, signalVars,
       emulVars, TypeOK, MacTypes, EmulTypes, ThreadTypes, SharedTypes, Protocol,
       Locking, Calls, SleepsUntilWakeupTime
  <2> QED
    BY <2>1, <2>2, <2>3, <2>4, <2>5, <2>6, <2>7 DEF IndInv
<1>28. CASE Tick
  BY <1>28
  DEF Tick, IndInv, TypeOK, MacTypes, EmulTypes, ThreadTypes, SharedTypes, Protocol,
  Locking, Calls, NoDuplicates, NoLostWakeup,
      SleepsUntilWakeupTime, WillRecompute,
      EmulPcs, ThreadPcs, Installed, macVars, walkVars, threadVars, signalVars, emulVars
<1>29. CASE UNCHANGED vars
  BY <1>29 DEF vars, IndInv, TypeOK, MacTypes, EmulTypes, ThreadTypes, SharedTypes,
     Protocol, Locking, Calls, NoDuplicates, NoLostWakeup,
      SleepsUntilWakeupTime, WillRecompute,
      Installed, macVars, walkVars, threadVars, signalVars, emulVars
<1> QED
  BY <1>1, <1>2, <1>3, <1>4, <1>5, <1>6, <1>7, <1>8, <1>9, <1>10, <1>11, <1>12, <1>13,
     <1>14, <1>15, <1>16, <1>17, <1>18, <1>19, <1>20, <1>21, <1>22, <1>23, <1>24,
     <1>25, <1>26, <1>27, <1>28, <1>29
  DEF Next, MacCall, WakeupSection, InterruptWalk, TimerThread, TimerSignals

-----------------------------------------------------------------------------
(* The theorems. *)

\* The inductive invariant holds of every behaviour.
THEOREM Invariance == Spec => []IndInv
<1>1. Init => IndInv
  BY InitIndInv
<1>2. IndInv /\ [Next]_vars => IndInv'
  BY StepIndInv
<1> QED
  BY <1>1, <1>2, PTL DEF Spec

\* The state variables of the Time Manager keep their types; in particular
\* suspend_ack_sem never counts past one acknowledgement.
THEOREM TypeCorrect == Spec => []TypeOK
<1>1. IndInv => TypeOK
  BY DEF IndInv
<1> QED
  BY <1>1, Invariance, PTL

\* No wakeup is lost although timer_func compares and resets wakeup_time
\* without holding the lock throughout.
THEOREM WakeupsKept == Spec => []NoLostWakeup
<1>1. IndInv => NoLostWakeup
  BY DEF IndInv
<1> QED
  BY <1>1, Invariance, PTL

\* A sleeping timer thread sleeps until the current wakeup_time.
THEOREM SleepCurrent == Spec => []SleepsUntilWakeupTime
<1>1. IndInv => SleepsUntilWakeupTime
  BY DEF IndInv
<1> QED
  BY <1>1, Invariance, PTL

\* The timer thread is stopped while PrimeTime, RmvTime and TimerInterrupt
\* change wakeup_time.
THEOREM UpdateExclusive == Spec => []StoppedDuringUpdate
<1>1. IndInv => StoppedDuringUpdate
  BY DEF IndInv, Protocol, StoppedDuringUpdate
<1> QED
  BY <1>1, Invariance, PTL

-----------------------------------------------------------------------------
(* The waits of the emulation thread. *)

\* A suspension that is not acknowledged has its signal pending; the timer thread
\* ends only when TimerExit has cancelled it.
Signalled ==
  /\ epc = "ack" => sigSuspend \/ suspendAck = 1
  /\ cancelled => epc \in {"join", "exited"}
  /\ tpc = "done" => cancelled

\* What the emulation thread waits for is there or on its way: the acknowledgement of
\* a thread that runs, or will when it takes its SIGRESUME; the lock; and the end of
\* a thread that nothing stops.  The exception is the thread that was stopped with the lock
\* in its hands.
SuspendMoves ==
  /\ epc = "ack" => suspendAck > 0 \/ (sigSuspend /\ tpc # "done" /\ (mode = "run" \/ sigResume))
  /\ epc = "lock" => lockOwner = "none" \/ Wedged
  /\ epc = "join" => (mode = "run" \/ sigResume) /\ lockOwner # "emul"

\* Every step keeps the signals on their way, and the two threads wedged.
LEMMA StepSignalled ==
  IndInv /\ Signalled /\ [Next]_vars => Signalled' /\ (Wedged => Wedged')
<1> SUFFICES ASSUME IndInv, Signalled, [Next]_vars PROVE Signalled' /\ (Wedged => Wedged')
  OBVIOUS
<1>0. /\ mode \in {"run", "acked", "suspended"} /\ suspendAck \in {0, 1}
      /\ tpc \in ThreadPcs /\ epc \in EmulPcs /\ Protocol /\ Locking
  BY DEF IndInv, TypeOK, ThreadTypes, EmulTypes
<1> USE <1>0 DEF Signalled, Wedged, Protocol, Locking, macVars, walkVars, emulVars, signalVars,
                 threadVars
<1>1. ASSUME NEW t \in Tasks, InsTime(t) PROVE Signalled' /\ (Wedged => Wedged')
  BY <1>1 DEF InsTime, Callable
<1>2. ASSUME NEW t \in Tasks, RmvTime(t) PROVE Signalled' /\ (Wedged => Wedged')
  BY <1>2 DEF RmvTime, Callable
<1>3. ASSUME NEW t \in Tasks, NEW time \in Delays, PrimeTime(t, time)
      PROVE  Signalled' /\ (Wedged => Wedged')
  BY <1>3 DEF PrimeTime, Callable
<1>4. CASE TimerReset
  BY <1>4 DEF TimerReset
<1>5. CASE TimerExit
  BY <1>5 DEF TimerExit
<1>6. CASE timer_thread_suspend
  BY <1>6 DEF timer_thread_suspend
<1>7. CASE AwaitSuspendAck
  BY <1>7 DEF AwaitSuspendAck
<1>8. CASE LockWakeupTime
  BY <1>8 DEF LockWakeupTime
<1>9. CASE Update
  BY <1>9 DEF Update
<1>10. CASE timer_thread_resume
  BY <1>10 DEF timer_thread_resume
<1>11. CASE TimerInterrupt
  BY <1>11 DEF TimerInterrupt
<1>12. CASE CallTask
  BY <1>12 DEF CallTask
<1>13. CASE SkipTask
  BY <1>13 DEF SkipTask
<1>14. CASE WalkFreedDesc
  BY <1>14 DEF WalkFreedDesc
<1>15. CASE EndOfWalk
  BY <1>15 DEF EndOfWalk
<1>16. CASE ReturnFromTask
  BY <1>16 DEF ReturnFromTask
<1>17. CASE JoinTimerThread
  BY <1>17 DEF JoinTimerThread
<1>18. CASE EnterSleep
  BY <1>18 DEF EnterSleep
<1>19. CASE LeaveSleep
  BY <1>19 DEF LeaveSleep
<1>20. CASE ReadClock
  BY <1>20 DEF ReadClock
<1>21. CASE CompareTime
  BY <1>21 DEF CompareTime
<1>22. CASE ThreadLocks
  BY <1>22 DEF ThreadLocks
<1>23. CASE ClearWakeupTime
  BY <1>23 DEF ClearWakeupTime
<1>24. CASE TriggerTimerInterrupt
  BY <1>24 DEF TriggerTimerInterrupt
<1>25. CASE sigsuspend_handler
  BY <1>25 DEF sigsuspend_handler
<1>26. CASE SigSuspendWaits
  BY <1>26 DEF SigSuspendWaits
<1>27. CASE sigresume_handler
  BY <1>27 DEF sigresume_handler
<1>28. CASE Tick
  BY <1>28 DEF Tick
<1>29. CASE UNCHANGED vars
  BY <1>29 DEF vars
<1> QED
  BY <1>1, <1>2, <1>3, <1>4, <1>5, <1>6, <1>7, <1>8, <1>9, <1>10,
     <1>11, <1>12, <1>13, <1>14, <1>15, <1>16, <1>17, <1>18, <1>19, <1>20,
     <1>21, <1>22, <1>23, <1>24, <1>25, <1>26, <1>27, <1>28, <1>29
     DEF Next, MacCall, WakeupSection, InterruptWalk, TimerThread, TimerSignals

\* The emulation thread waits for something that comes, in the suspend protocol, for
\* the lock and in TimerExit, unless the timer thread was suspended inside its
\* critical section.
THEOREM NoOtherWedge == Spec => []SuspendMoves
<1>1. Init => Signalled
  BY DEF Init, Signalled
<1>2. IndInv /\ Signalled => SuspendMoves
  BY DEF IndInv, TypeOK, ThreadTypes, Protocol, Locking, Signalled, SuspendMoves, Wedged
<1> QED
  BY <1>1, <1>2, StepSignalled, Invariance, PTL DEF Spec

\* Once wedged the two threads stay so: the lock is never released, the call of the
\* Mac never returns.
THEOREM WedgeLasts == Spec => [][Wedged => Wedged']_vars
<1>1. Init => Signalled
  BY DEF Init, Signalled
<1> QED
  BY <1>1, StepSignalled, Invariance, PTL DEF Spec

-----------------------------------------------------------------------------
(* The Time Manager implements the service of TimerService. *)

\* Where the walk of TimerInterrupt is: at an installed task, at a descriptor that
\* its callback has freed, or at the end; it does not look ahead of the clock, and
\* a callback only manages the tasks it may.
Walk ==
  /\ cursor \in Tasks => cursor \in Installed
  /\ callee = NoTask /\ epc # "walk" => cursor = NoTask
  /\ irqNow <= now
  /\ op.name \in {"PrimeTime", "RmvTime"} /\ callee # NoTask => op.task \in MayCall[callee]

\* The walk stays where it may be.
LEMMA StepWalk == IndInv /\ Walk /\ [Next]_vars => Walk'
<1> SUFFICES ASSUME IndInv, Walk, [Next]_vars PROVE Walk'
  OBVIOUS
<1> USE DEF Walk, macVars, walkVars, emulVars
<1>0. now \in Int /\ irqNow \in Int
  BY TimeAssumption DEF IndInv, TypeOK, EmulTypes, SharedTypes
<1>1. ASSUME NEW t \in Tasks, InsTime(t) PROVE Walk'
  BY <1>1, InsTimeList DEF InsTime
<1>2. ASSUME NEW t \in Tasks, NEW time \in Delays, PrimeTime(t, time) PROVE Walk'
  BY <1>2 DEF PrimeTime, Callable, Installed, IndInv, Calls
<1>3. ASSUME NEW t \in Tasks, RmvTime(t) PROVE Walk'
  BY <1>3 DEF RmvTime, Callable, Installed, IndInv, Calls
<1>4. CASE TimerReset
  BY <1>4, TasksAssumption DEF TimerReset, IndInv, Calls
<1>5. CASE TimerExit
  BY <1>5 DEF TimerExit, Installed
<1>6. CASE timer_thread_suspend
  BY <1>6 DEF timer_thread_suspend, Installed
<1>7. CASE AwaitSuspendAck
  BY <1>7 DEF AwaitSuspendAck, Installed
<1>8. CASE LockWakeupTime
  BY <1>8 DEF LockWakeupTime, Installed
<1>9. CASE Update
  BY <1>9 DEF Update, Installed
<1>10. CASE timer_thread_resume
  <2>1. Installed' = Installed \ (IF op.name = "RmvTime" THEN {op.task} ELSE {})
    BY <1>10, ResumeList
  <2>2. cursor' = IF op.name = "RmvTime" /\ cursor = op.task THEN Freed ELSE cursor
    BY <1>10 DEF timer_thread_resume
  <2>3. cursor' \in Tasks => cursor' \in Installed'
    BY <2>1, <2>2, TasksAssumption DEF Freed
  <2>4. op.name = "RmvTime" => op.task \in Tasks
    BY TasksAssumption DEF IndInv, TypeOK, MacTypes, Calls, Installed, Range
  <2>5. callee' = NoTask /\ epc' # "walk" => cursor' = NoTask
    BY <1>10, <2>2, <2>4, TasksAssumption DEF timer_thread_resume
  <2> QED
    BY <1>10, <2>3, <2>5 DEF timer_thread_resume, NoOp
<1>11. CASE TimerInterrupt
  <2>1. tmDescList \in Seq(Tasks)
    BY DEF IndInv, TypeOK, MacTypes
  <2>2. tmDescList # <<>> => Head(tmDescList) \in Installed
    BY <2>1 DEF Installed, Range
  <2>3. Installed' = Installed
    BY <1>11 DEF TimerInterrupt, Installed
  <2> QED
    BY <1>0, <1>11, <2>2, <2>3, TasksAssumption DEF TimerInterrupt, IndInv, Calls
<1>12. CASE CallTask
  <2>1. cursor' \in Installed' \cup {NoTask}
    BY <1>12, NextDescInstalled DEF CallTask, Installed, IndInv, TypeOK, MacTypes
  <2>2. callee' # NoTask /\ op'.name = "none"
    BY <1>12, TasksAssumption DEF CallTask, IndInv, TypeOK, MacTypes, Calls
  <2> QED
    BY <1>12, <2>1, <2>2, TasksAssumption DEF CallTask
<1>13. CASE SkipTask
  <2>1. cursor' \in Installed' \cup {NoTask}
    BY <1>13, NextDescInstalled DEF SkipTask, Installed, IndInv, TypeOK, MacTypes
  <2> QED
    BY <1>13, <2>1, TasksAssumption DEF SkipTask
<1>14. CASE WalkFreedDesc
  <2>1. cursor' \in Tasks => cursor' \in Installed'
    BY <1>14, TasksAssumption DEF WalkFreedDesc, Installed, Freed
  <2>2. op'.name = "none" /\ now' = now /\ irqNow' = irqNow
    BY <1>14 DEF WalkFreedDesc, IndInv, Calls
  <2>3. epc' = "walk" \/ callee' # NoTask
    BY <1>14, TasksAssumption DEF WalkFreedDesc, IndInv, TypeOK, MacTypes
  <2> QED
    BY <2>1, <2>2, <2>3
<1>15. CASE EndOfWalk
  BY <1>15, TasksAssumption, TimeAssumption DEF EndOfWalk, IndInv, TypeOK, SharedTypes,
                                                Installed
<1>16. CASE ReturnFromTask
  BY <1>16 DEF ReturnFromTask, IndInv, Calls, Installed
<1>17. CASE JoinTimerThread
  BY <1>17 DEF JoinTimerThread, Installed
<1>18. CASE TimerThread
  BY <1>18 DEF TimerThread, EnterSleep, LeaveSleep, ReadClock, CompareTime, ThreadLocks,
     ClearWakeupTime, TriggerTimerInterrupt, Installed
<1>19. CASE TimerSignals
  BY <1>19 DEF TimerSignals, sigsuspend_handler, SigSuspendWaits, sigresume_handler,
               Installed
<1>20. CASE Tick
  BY <1>0, <1>20 DEF Tick, Installed
<1>21. CASE UNCHANGED vars
  BY <1>21 DEF vars, Installed
<1> QED
  BY <1>1, <1>2, <1>3, <1>4, <1>5, <1>6, <1>7, <1>8, <1>9, <1>10, <1>11, <1>12, <1>13,
     <1>14, <1>15, <1>16, <1>17, <1>18, <1>19, <1>20, <1>21
  DEF Next, MacCall, WakeupSection, InterruptWalk

\* What the service shows changes only with the clock, the list, the wakeup times,
\* the active tasks, the callback, and where the walk is.
LEMMA ServiceStutters ==
  UNCHANGED <<now, tmDescList, wakeup, active, callee, cursor>> => UNCHANGED Service!vars
BY DEF Service!vars, Armed, Installed, Astray

\* Between callbacks, the walk changes nothing on its way from descriptor to descriptor.
LEMMA ServiceWalks ==
  ASSUME UNCHANGED <<now, tmDescList, wakeup, active>>, callee = NoTask, callee' = NoTask,
         cursor # Freed, cursor' # Freed
  PROVE  UNCHANGED Service!vars
BY DEF Service!vars, Armed, Installed, Astray

\* A task becomes armed, or gets a new time.
LEMMA ServiceArms ==
  ASSUME NEW t \in Tasks, t \in Service!Manageable, Armed' = Armed \cup {t},
         wakeup' \in [Tasks -> Int], \A u \in Tasks \ {t} : wakeup'[u] = wakeup[u],
         now' = now, callee' = callee, cursor' = cursor
  PROVE  Service!Arm(t)
BY DEF Service!Arm, Astray

\* Tasks are disarmed, and no other one changes.
LEMMA ServiceDisarms ==
  ASSUME NEW S \in SUBSET Tasks, Armed' = Armed \ S,
         \A u \in Armed \ S : wakeup'[u] = wakeup[u],
         now' = now, callee' = callee
  PROVE  Service!Disarm(S)
BY DEF Service!Disarm

\* Every step of the two threads is a step of the service, or changes nothing of it.
LEMMA StepService == IndInv /\ Walk /\ [Next]_vars => [Service!Next]_(Service!vars)
<1> SUFFICES ASSUME IndInv, Walk, [Next]_vars PROVE Service!Next \/ UNCHANGED Service!vars
  OBVIOUS
<1>0. /\ tmDescList \in Seq(Tasks) /\ wakeup \in [Tasks -> Int] /\ active \subseteq Tasks
      /\ Installed \subseteq Tasks /\ now \in Int /\ irqNow \in Int
  BY TimeAssumption
     DEF IndInv, TypeOK, MacTypes, EmulTypes, SharedTypes, Installed, Range
<1>a. Callable \subseteq Service!Manageable
  BY DEF Callable, Service!Manageable, IndInv, Calls
<1>b. ASSUME op.name \in {"PrimeTime", "RmvTime"}
      PROVE  \E t \in Tasks : t = op.task /\ t \in Installed /\ t \in Service!Manageable
  BY <1>0, <1>b DEF Service!Manageable, Walk, IndInv, Calls
<1>1. ASSUME NEW t \in Tasks, InsTime(t) PROVE Service!Next
  <2>1. /\ Installed \subseteq Installed' /\ Installed' \subseteq Installed \cup {t}
        /\ \A u \in Tasks \ {t} : wakeup'[u] = wakeup[u]
    BY <1>1, InsTimeList
  <2>2. Armed' = Armed \ {t} /\ now' = now /\ callee' = callee /\ t \in Callable
    BY <1>1, <2>1 DEF InsTime, Armed, walkVars
  <2>3. Service!Disarm({t})
    BY <1>0, <2>1, <2>2, ServiceDisarms DEF Armed
  <2>4. Astray' = Astray
    BY <1>1 DEF InsTime, walkVars, Astray
  <2> QED
    BY <1>a, <2>2, <2>3, <2>4 DEF Service!Cancel, Service!Next
<1>2. ASSUME NEW t \in Tasks, NEW time \in Delays, PrimeTime(t, time)
      PROVE  Service!Next \/ UNCHANGED Service!vars
  <2>1. /\ now' = now /\ callee' = callee /\ cursor' = cursor
        /\ tmDescList' = tmDescList /\ active' = active /\ t \in Callable
        /\ wakeup' \in [Tasks -> Int]
        /\ \A u \in Tasks \ {t} : wakeup'[u] = wakeup[u]
    <3>1. wakeup' \in [Tasks -> Int]
      BY StepIndInv, <1>2 DEF Next, MacCall, IndInv, TypeOK, MacTypes
    <3> QED
      BY <1>0, <1>2, <3>1 DEF PrimeTime, walkVars
  <2>2. Armed' = Armed
    BY <2>1 DEF Armed, Installed
  <2>3. CASE t \in Armed
    <3>1. Service!Arm(t)
      BY <1>a, <2>1, <2>2, <2>3, ServiceArms
    <3> QED
      BY <3>1 DEF Service!Next
  <2>4. CASE t \notin Armed
    <3>1. \A u \in Armed : wakeup'[u] = wakeup[u]
      BY <1>0, <2>1, <2>4 DEF Armed
    <3> QED
      BY <2>1, <2>2, <3>1 DEF Service!vars, Astray
  <2> QED
    BY <2>3, <2>4
<1>3. ASSUME NEW t \in Tasks, RmvTime(t) PROVE UNCHANGED Service!vars
  BY <1>3, ServiceStutters DEF RmvTime, macVars, walkVars
<1>4. CASE TimerReset
  <2>1. Installed' = {} /\ Armed' = Armed \ Tasks /\ now' = now /\ callee' = callee
    BY <1>0, <1>4 DEF TimerReset, Armed, Installed, Range, walkVars
  <2>2. Service!Disarm(Tasks)
    BY <1>0, <2>1, ServiceDisarms DEF Armed
  <2>3. Astray' = Astray
    BY <1>4 DEF TimerReset, walkVars, Astray
  <2> QED
    BY <1>4, <2>2, <2>3 DEF TimerReset, IndInv, Calls, Service!Reset, Service!Next
<1>5. CASE TimerExit
  BY <1>5, ServiceStutters DEF TimerExit, macVars, walkVars
<1>6. CASE timer_thread_suspend
  BY <1>6, ServiceStutters DEF timer_thread_suspend, macVars, walkVars
<1>7. CASE AwaitSuspendAck
  BY <1>7, ServiceStutters DEF AwaitSuspendAck, macVars, walkVars
<1>8. CASE LockWakeupTime
  BY <1>8, ServiceStutters DEF LockWakeupTime, macVars, walkVars
<1>9. CASE Update
  <2>0. /\ now' = now /\ callee' = callee /\ cursor' = cursor
        /\ tmDescList' = tmDescList /\ wakeup' = wakeup
    BY <1>9 DEF Update, walkVars
  <2>1. CASE op.name = "PrimeTime"
    <3>1. PICK t \in Tasks : t = op.task /\ t \in Installed /\ t \in Service!Manageable
      BY <1>b, <2>1
    <3>2. Armed' = Armed \cup {t}
      BY <1>9, <2>0, <2>1, <3>1 DEF Update, Armed, Installed
    <3>3. Service!Arm(t)
      BY <1>0, <2>0, <3>1, <3>2, ServiceArms
    <3> QED
      BY <3>3 DEF Service!Next
  <2>2. CASE op.name = "RmvTime" /\ op.task \in active
    <3>1. PICK t \in Tasks : t = op.task /\ t \in Installed /\ t \in Service!Manageable
      BY <1>b, <2>2
    <3>2. Armed' = Armed \ {t}
      BY <1>9, <2>0, <2>2, <3>1 DEF Update, Armed, Installed
    <3>3. Service!Disarm({t})
      BY <2>0, <3>2, ServiceDisarms
    <3>4. Astray' = Astray
      BY <2>0 DEF Astray
    <3> QED
      BY <3>1, <3>3, <3>4 DEF Service!Cancel, Service!Next
  <2>3. CASE op.name # "PrimeTime" /\ ~(op.name = "RmvTime" /\ op.task \in active)
    BY <1>9, <2>0, <2>3, ServiceStutters DEF Update
  <2> QED
    BY <2>1, <2>2, <2>3
<1>10. CASE timer_thread_resume
  <2>1. /\ Installed' = Installed \ (IF op.name = "RmvTime" THEN {op.task} ELSE {})
        /\ \A t \in Installed' : wakeup'[t] = wakeup[t]
    BY <1>10, ResumeList
  <2>2. now' = now /\ callee' = callee /\ active' = active
    BY <1>10 DEF timer_thread_resume
  <2>3. CASE op.name = "RmvTime"
    <3>1. PICK t \in Tasks : t = op.task /\ t \in Installed /\ t \in Service!Manageable
      BY <1>b, <2>3
    <3>2. Armed' = Armed \ {t} /\ \A u \in Armed \ {t} : wakeup'[u] = wakeup[u]
      BY <2>1, <2>2, <2>3, <3>1 DEF Armed
    <3>3. Service!Disarm({t})
      BY <2>2, <3>2, ServiceDisarms
    <3>4. CASE cursor # t \/ callee = t
      <4>1. Astray' = Astray
        BY <1>10, <2>2, <2>3, <3>1, <3>4, TasksAssumption DEF timer_thread_resume, Astray
      <4> QED
        BY <3>1, <3>3, <4>1 DEF Service!Cancel, Service!Next
    <3>5. CASE cursor = t /\ callee # t
      <4>1. callee # NoTask /\ callee # t
        BY <1>10, <3>1, <3>5, TasksAssumption DEF timer_thread_resume, Walk
      <4>2. Astray'
        BY <1>10, <2>3, <3>1, <3>5 DEF timer_thread_resume, Astray
      <4> QED
        BY <3>1, <3>3, <4>1, <4>2 DEF Service!Cancel, Service!Next
    <3> QED
      BY <3>4, <3>5
  <2>4. CASE op.name # "RmvTime"
    BY <1>10, <2>2, <2>4, ServiceStutters DEF timer_thread_resume
  <2> QED
    BY <2>3, <2>4
<1>11. CASE TimerInterrupt
  <2>1. callee = NoTask /\ callee' = NoTask /\ cursor = NoTask
    BY <1>11 DEF TimerInterrupt, IndInv, Calls, Walk
  <2>2. cursor' \in Tasks \cup {NoTask}
    BY <1>0, <1>11 DEF TimerInterrupt
  <2> QED
    BY <1>11, <2>1, <2>2, TasksAssumption, ServiceWalks DEF TimerInterrupt, macVars, Freed
<1>12. CASE CallTask
  <2>1. PICK t \in Tasks : /\ t = cursor /\ t \in Armed /\ wakeup[t] <= now
                           /\ callee = NoTask /\ callee' = t /\ now' = now
    BY <1>0, <1>12 DEF CallTask, Armed, Walk, IndInv, Calls
  <2>2. Armed' = Armed \ {t} /\ wakeup' = wakeup
    BY <1>12, <2>1 DEF CallTask, Armed, Installed
  <2>3. Astray' = Astray
    <3>1. cursor' # t /\ cursor' \in Tasks \cup {NoTask}
      BY <1>0, <1>12, <2>1, NextDescInstalled, TasksAssumption DEF CallTask, IndInv
    <3> QED
      BY <2>1, <3>1, TasksAssumption DEF Astray, Freed
  <2>4. Service!Enter(t)
    BY <1>0, <2>1, <2>2 DEF Service!Enter
  <2>5. Service!Call(t)
    <3> DEFINE due == [u \in Tasks |-> IF u \in Armed THEN wakeup[u] ELSE 0]
    <3>1. due[t] <= now
      BY <2>1
    <3> QED
      BY <2>1, <2>3, <2>4, <3>1, Zenon DEF Service!Call
  <2> QED
    BY <2>5 DEF Service!Next
<1>13. CASE SkipTask
  <2>1. callee = NoTask /\ callee' = NoTask /\ cursor # Freed
    BY <1>13, TasksAssumption DEF SkipTask, IndInv, Calls, Freed
  <2>2. cursor' \in Tasks \cup {NoTask}
    BY <1>0, <1>13, NextDescType DEF SkipTask, IndInv
  <2> QED
    BY <1>13, <2>1, <2>2, TasksAssumption, ServiceWalks DEF SkipTask, macVars, Freed
<1>14. CASE WalkFreedDesc
  <2>1. Astray /\ callee = NoTask /\ now' = now /\ wakeup' = wakeup /\ Installed' = Installed
    BY <1>14 DEF WalkFreedDesc, Astray, Installed, IndInv, Calls
  <2>2. CASE UNCHANGED <<active, callee>>
    <3>1. UNCHANGED <<now, Armed, callee>>
      BY <2>1, <2>2 DEF Armed
    <3>2. CASE Astray'
      BY <2>1, <3>1, <3>2 DEF Service!vars
    <3>3. CASE ~Astray'
      BY <2>1, <3>1, <3>3 DEF Service!Recover, Service!Next
    <3> QED
      BY <3>2, <3>3
  <2>3. ASSUME NEW t \in active, active' = active \ {t}, callee' = t
        PROVE  Service!Next
    <3>1. t \in Tasks /\ Armed' = Armed \ {t}
      BY <1>0, <2>1, <2>3 DEF Armed
    <3>2. Service!Enter(t)
      BY <1>0, <2>1, <2>3, <3>1 DEF Service!Enter
    <3>3. Service!StrayCall(t)
      BY <2>1, <3>2 DEF Service!StrayCall, Astray
    <3> QED
      BY <3>1, <3>3 DEF Service!Next
  <2> QED
    BY <1>14, <2>2, <2>3 DEF WalkFreedDesc
<1>15. CASE EndOfWalk
  BY <1>15, ServiceStutters DEF EndOfWalk, macVars
<1>16. CASE ReturnFromTask
  <2>1. Service!Return
    BY <1>16 DEF ReturnFromTask, macVars, IndInv, Calls, Service!Return, Armed, Installed,
                 Astray
  <2> QED
    BY <2>1 DEF Service!Next
<1>17. CASE JoinTimerThread
  BY <1>17, ServiceStutters DEF JoinTimerThread, macVars, walkVars
<1>18. CASE TimerThread
  BY <1>18, ServiceStutters DEF TimerThread, EnterSleep, LeaveSleep, ReadClock, CompareTime,
     ThreadLocks, ClearWakeupTime, TriggerTimerInterrupt, emulVars, macVars, walkVars
<1>19. CASE TimerSignals
  BY <1>19, ServiceStutters DEF TimerSignals, sigsuspend_handler, SigSuspendWaits,
     sigresume_handler, emulVars, macVars, walkVars
<1>20. CASE Tick
  <2>1. Service!Tick
    BY <1>0, <1>20
       DEF Tick, emulVars, macVars, walkVars, Service!Tick, Armed, Installed, Astray
  <2> QED
    BY <2>1 DEF Service!Next
<1>21. CASE UNCHANGED vars
  BY <1>21, ServiceStutters DEF vars, macVars, walkVars
<1> QED
  BY <1>1, <1>2, <1>3, <1>4, <1>5, <1>6, <1>7, <1>8, <1>9, <1>10, <1>11, <1>12, <1>13,
     <1>14, <1>15, <1>16, <1>17, <1>18, <1>19, <1>20, <1>21
  DEF Next, MacCall, WakeupSection, InterruptWalk

\* The Time Manager implements TimerService: what the Mac sees of the two threads,
\* their signals and their lock is that a task is called back once for each time
\* it was primed, not before its time, and not while another callback runs.  The
\* exception starts with a callback that removes another task, the one that
\* TimerInterrupt was to look at next, and ends when the walk is back in the list.
THEOREM Refinement == Spec => ImplementsTimerService
<1>1. Init => Walk
  BY TasksAssumption DEF Init, NoOp, Walk
<1>2. Init => Service!Init
  BY TasksAssumption DEF Init, Service!Init, Armed, Astray, Freed
<1> QED
  BY <1>1, <1>2, StepWalk, StepService, Invariance, PTL
  DEF Spec, ImplementsTimerService, Service!Spec
=============================================================================
