---------------------------- MODULE TimeoutsProofs ----------------------------
(***************************************************************************)
(* The list of timeouts keeps its shape, and each timer its place in it,   *)
(* for any timers, intervals and delays, and whatever the clock does.      *)
(***************************************************************************)
EXTENDS Timeouts, FiniteSetTheorems, SequenceTheorems, TLAPS

Distinct(list) ==
  \A i, j \in 1 .. Len(list) : list[i].h = list[j].h => i = j

Has(list, t) == \E i \in 1 .. Len(list) : list[i].h = t

-------------------------------------------------------------------------------
\* Time is closed under the code's unsigned arithmetic.
LEMMA AfterIsTime ==
  ASSUME NEW time \in Time, NEW n \in Nat
  PROVE  After(time, n) \in Time
BY TimeoutsAssumption DEF After, Time

LEMMA IntervalIsNat ==
  ASSUME NEW t \in Timers
  PROVE  Interval(t) \in Nat /\ Cap(t) \in Nat
BY TimeoutsAssumption DEF Interval, Cap

\* There are as many timers as elements of MEMP_SYS_TIMEOUT.
LEMMA TimersCount ==
  IsFiniteSet(Timers) /\ Cardinality(Timers) = MEMP_NUM_SYS_TIMEOUT
<1> DEFINE n == Len(lwip_cyclic_timers)
           f == [i \in 1 .. n |-> lwip_cyclic_timers[i]]
<1>1. n \in Nat
  BY TimeoutsAssumption
<1>2. f \in Bijection(1 .. n, Cyclic)
  BY TimeoutsAssumption DEF Cyclic, Bijection, Injection, Surjection, IsInjective
<1>3. ExistsBijection(1 .. n, Cyclic)
  BY <1>2 DEF ExistsBijection
<1>4. IsFiniteSet(Cyclic) /\ Cardinality(Cyclic) = n
  BY <1>1, <1>3, FS_NatBijection, FS_CountingElements
<1> QED
  BY <1>1, <1>4, FS_AddElement, TimeoutsAssumption DEF Timers, MEMP_NUM_SYS_TIMEOUT

LEMMA CountedInterval ==
  ASSUME NEW n \in Nat
  PROVE  Cardinality(1 .. n) = n
<1>1. Cardinality(1 .. n) = IF 1 > n THEN 0 ELSE n - 1 + 1
  BY FS_Interval
<1> QED
  BY <1>1

\* The pool has an element for a timer that is not in the list.
LEMMA PoolSuffices ==
  ASSUME NEW list \in Seq(Timeout), Distinct(list), NEW t \in Timers, ~Has(list, t)
  PROVE  Len(list) < MEMP_NUM_SYS_TIMEOUT
<1> DEFINE S == 1 .. Len(list)
           f == [i \in S |-> list[i].h]
<1>1. Len(list) \in Nat
  OBVIOUS
<1>2. f \in Injection(S, Timers \ {t})
  <2>1. \A i \in S : list[i] \in Timeout
    OBVIOUS
  <2>2. \A i \in S : list[i].h \in Timers \ {t}
    BY <2>1 DEF Has, Timeout
  <2> QED
    BY <2>2 DEF Injection, IsInjective, Distinct
<1>3. /\ IsFiniteSet(Timers \ {t})
      /\ Cardinality(Timers \ {t}) = MEMP_NUM_SYS_TIMEOUT - 1
  BY TimersCount, FS_RemoveElement
<1>4. Cardinality(S) <= Cardinality(Timers \ {t})
  BY <1>2, <1>3, FS_Injection
<1>5. Cardinality(S) = Len(list)
  BY <1>1, CountedInterval
<1>6. MEMP_NUM_SYS_TIMEOUT \in Nat
  BY TimeoutsAssumption DEF MEMP_NUM_SYS_TIMEOUT
<1> QED
  BY <1>1, <1>3, <1>4, <1>5, <1>6

\* A set of indices has a least one.
LEMMA LeastIndex ==
  ASSUME NEW S \in SUBSET Nat, S # {}
  PROVE  \E i \in S : \A j \in S : i <= j
<1> DEFINE R == OpToRel(<, Nat)
<1>1. IsWellFoundedOn(R, Nat)
  BY NatLessThanWellFounded
<1>2. \A i, j \in Nat : <<i, j>> \in R <=> i < j
  BY DEF OpToRel
<1> HIDE DEF R
<1>3. PICK i \in S : \A j \in S : ~(<<j, i>> \in R)
  BY <1>1, WFMin
<1>4. \A j \in S : ~(j < i)
  BY <1>2, <1>3
<1> QED
  BY <1>4

\* sys_timeout_abs finds a place in the list.
LEMMA PositionInList ==
  ASSUME NEW list \in Seq(Timeout), NEW time
  PROVE  Position(list, time) \in 1 .. Len(list) + 1
<1> DEFINE later == {i \in 1 .. Len(list) : TIME_LESS_THAN(time, list[i].time)}
<1>1. Len(list) \in Nat
  OBVIOUS
<1>2. CASE later = {}
  BY <1>1, <1>2 DEF Position
<1>3. CASE later # {}
  <2>1. later \in SUBSET Nat /\ later \subseteq 1 .. Len(list)
    BY <1>1
  <2>2. Position(list, time) = CHOOSE i \in later : \A j \in later : i <= j
    BY <1>3 DEF Position
  <2> HIDE DEF later
  <2>3. \E i \in later : \A j \in later : i <= j
    BY <1>3, <2>1, LeastIndex
  <2>4. Position(list, time) \in later
    BY <2>2, <2>3
  <2>5. Position(list, time) \in 1 .. Len(list)
    BY <2>1, <2>4
  <2>6. \A m \in Nat : 1 .. m \subseteq 1 .. m + 1
    OBVIOUS
  <2> QED
    BY <1>1, <2>5, <2>6
<1> QED
  BY <1>2, <1>3

\* Whatever place is chosen, the new timeout is in the list and the others stay.
LEMMA InsertedList ==
  ASSUME NEW list \in Seq(Timeout), NEW p \in 1 .. Len(list) + 1, NEW e \in Timeout,
         Distinct(list), ~Has(list, e.h)
  PROVE  /\ Inserted(list, p, e) \in Seq(Timeout)
         /\ Len(Inserted(list, p, e)) = Len(list) + 1
         /\ Distinct(Inserted(list, p, e))
         /\ \A u : Has(Inserted(list, p, e), u) <=> u = e.h \/ Has(list, u)
<1> DEFINE n == Len(list)
           new == Inserted(list, p, e)
<1>1. n \in Nat /\ p \in Nat /\ p >= 1 /\ p <= n + 1
  OBVIOUS
<1>2. \A i \in 1 .. n : list[i] \in Timeout
  OBVIOUS
<1>3. \A j \in 1 .. n + 1 : new[j] = IF j < p THEN list[j]
                                     ELSE IF j = p THEN e ELSE list[j - 1]
  BY DEF Inserted
<1>4. \A j \in 1 .. n + 1 : new[j] \in Timeout
  BY <1>1, <1>2, <1>3
<1>5. new = [j \in 1 .. n + 1 |-> new[j]]
  BY DEF Inserted
<1>6. new \in [1 .. n + 1 -> Timeout] /\ n + 1 \in Nat
  BY <1>1, <1>4, <1>5
<1>7. new \in Seq(Timeout) /\ Len(new) = n + 1
  BY <1>6, LenProperties, SeqDef
<1>8. \A i \in 1 .. n : list[i].h # e.h
  BY DEF Has
<1>9. Distinct(new)
  <2> SUFFICES ASSUME NEW i \in 1 .. n + 1, NEW j \in 1 .. n + 1, new[i].h = new[j].h
               PROVE  i = j
    BY <1>7 DEF Distinct
  <2> DEFINE from(k) == IF k < p THEN k ELSE k - 1
  <2>0. \A k \in 1 .. n + 1 : k # p => from(k) \in 1 .. n /\ new[k] = list[from(k)]
    BY <1>1, <1>3
  <2>1. CASE i = p
    BY <1>3, <1>8, <2>0, <2>1
  <2>2. CASE j = p
    BY <1>3, <1>8, <2>0, <2>2
  <2>3. CASE i # p /\ j # p
    <3>1. from(i) = from(j)
      BY <2>0, <2>3, SMTT(30) DEF Distinct
    <3> QED
      BY <1>1, <2>3, <3>1
  <2> QED
    BY <2>1, <2>2, <2>3
<1>10. ASSUME NEW u PROVE Has(new, u) <=> u = e.h \/ Has(list, u)
  <2>1. ASSUME Has(new, u) PROVE u = e.h \/ Has(list, u)
    <3>1. PICK j \in 1 .. n + 1 : new[j].h = u
      BY <1>7, <2>1 DEF Has
    <3>2. CASE j = p
      BY <1>3, <3>1, <3>2
    <3>3. CASE j < p
      BY <1>1, <1>3, <3>1, <3>3 DEF Has
    <3>4. CASE j > p
      <4>1. new[j] = list[j - 1] /\ j - 1 \in 1 .. n
        BY <1>1, <1>3, <3>4
      <4> QED
        BY <3>1, <4>1 DEF Has
    <3> QED
      BY <1>1, <3>2, <3>3, <3>4
  <2>2. ASSUME u = e.h PROVE Has(new, u)
    BY <1>1, <1>3, <1>7, <2>2 DEF Has
  <2>3. ASSUME Has(list, u) PROVE Has(new, u)
    <3>1. PICK i \in 1 .. n : list[i].h = u
      BY <2>3 DEF Has
    <3>2. CASE i < p
      <4>1. new[i] = list[i] /\ i \in 1 .. n + 1
        BY <1>1, <1>3, <3>2
      <4> QED
        BY <1>7, <3>1, <4>1 DEF Has
    <3>3. CASE i >= p
      <4>1. new[i + 1] = list[i] /\ i + 1 \in 1 .. n + 1
        BY <1>1, <1>3, <3>3
      <4> QED
        BY <1>7, <3>1, <4>1 DEF Has
    <3> QED
      BY <1>1, <3>2, <3>3
  <2> QED
    BY <2>1, <2>2, <2>3
<1> QED
  BY <1>7, <1>9, <1>10

\* What the tail of a list keeps.
LEMMA TailList ==
  ASSUME NEW list \in Seq(Timeout), list # <<>>, Distinct(list)
  PROVE  /\ Head(list) \in Timeout
         /\ Tail(list) \in Seq(Timeout) /\ Len(Tail(list)) = Len(list) - 1
         /\ Distinct(Tail(list))
         /\ \A u : Has(Tail(list), u) <=> u # Head(list).h /\ Has(list, u)
<1> DEFINE n == Len(list)
<1>1. n \in Nat \ {0} /\ Head(list) = list[1]
  OBVIOUS
<1>2. Head(list) \in Timeout /\ Tail(list) \in Seq(Timeout) /\ Len(Tail(list)) = n - 1
  OBVIOUS
<1>3. \A i \in 1 .. n - 1 : Tail(list)[i] = list[i + 1] /\ i + 1 \in 1 .. n
  BY <1>1
<1>4. Distinct(Tail(list))
  BY <1>1, <1>2, <1>3 DEF Distinct
<1>5. ASSUME NEW u PROVE Has(Tail(list), u) <=> u # list[1].h /\ Has(list, u)
  <2>1. ASSUME Has(Tail(list), u) PROVE u # list[1].h /\ Has(list, u)
    <3>1. PICK i \in 1 .. n - 1 : Tail(list)[i].h = u
      BY <1>2, <2>1 DEF Has
    <3>2. list[i + 1].h = u /\ i + 1 \in 1 .. n /\ i + 1 # 1 /\ 1 \in 1 .. n
      BY <1>1, <1>3, <3>1
    <3> QED
      BY <3>2 DEF Has, Distinct
  <2>2. ASSUME u # list[1].h, Has(list, u) PROVE Has(Tail(list), u)
    <3>1. PICK i \in 1 .. n : list[i].h = u
      BY <2>2 DEF Has
    <3>2. i - 1 \in 1 .. n - 1 /\ (i - 1) + 1 = i
      BY <1>1, <2>2, <3>1
    <3>3. Tail(list)[i - 1].h = u
      BY <1>3, <3>1, <3>2
    <3> QED
      BY <1>2, <3>2, <3>3 DEF Has
  <2> QED
    BY <2>1, <2>2
<1> QED
  BY <1>1, <1>2, <1>4, <1>5

-------------------------------------------------------------------------------
Inv == TypeOK /\ EachTimerOnce

\* The part of the invariant that speaks of the list and who is in it.
Places(list, active, run, some) ==
  /\ list \in Seq(Timeout) /\ Len(list) <= MEMP_NUM_SYS_TIMEOUT
  /\ Distinct(list)
  /\ \A t \in Cyclic : Has(list, t) <=> run # t
  /\ (Has(list, Tcp) \/ run = Tcp) <=> active
  /\ ~(Has(list, Tcp) /\ run = Tcp)
  /\ some => active

\* The other part.
Rest ==
  /\ clock \in Time /\ due \in Time
  /\ tcpip_tcp_timer_active \in BOOLEAN /\ pcbs \in BOOLEAN
  /\ now \in Time \cup {Null} /\ running \in Timers \cup {Null}
  /\ idle \in 0 .. MaxLate /\ steps \in 0 .. MaxSteps
  /\ waited \in [Timers -> Nat]

LEMMA InvParts ==
  Inv <=> Places(next_timeout, tcpip_tcp_timer_active, running, pcbs) /\ Rest
BY DEF Inv, TypeOK, EachTimerOnce, Places, Rest, Distinct, Has, Queued

\* sys_timeout_abs never finds the pool empty: the timer gets its place.
LEMMA TimeoutQueued ==
  ASSUME next_timeout \in Seq(Timeout), Distinct(next_timeout),
         NEW t \in Timers, NEW time \in Time, ~Has(next_timeout, t),
         SysTimeoutAbs(time, t)
  PROVE  /\ next_timeout' \in Seq(Timeout) /\ Len(next_timeout') <= MEMP_NUM_SYS_TIMEOUT
         /\ Distinct(next_timeout')
         /\ \A u : Has(next_timeout', u) <=> u = t \/ Has(next_timeout, u)
<1> DEFINE e == [h |-> t, time |-> time]
           p == Position(next_timeout, time)
<1>1. Len(next_timeout) < MEMP_NUM_SYS_TIMEOUT
  BY PoolSuffices
<1>2. Len(next_timeout) \in Nat /\ MEMP_NUM_SYS_TIMEOUT \in Nat
  BY TimeoutsAssumption DEF MEMP_NUM_SYS_TIMEOUT
<1>3. next_timeout' = Inserted(next_timeout, p, e)
  BY <1>1, <1>2 DEF SysTimeoutAbs
<1>4. e \in Timeout /\ e.h = t
  BY DEF Timeout
<1>5. p \in 1 .. Len(next_timeout) + 1
  BY PositionInList
<1> HIDE DEF e, p
<1> QED
  BY <1>1, <1>2, <1>3, <1>4, <1>5, InsertedList

LEMMA InitInv == Init => Inv
<1> SUFFICES ASSUME Init PROVE Places(next_timeout, FALSE, Null, FALSE) /\ Rest
  BY InvParts DEF Init
<1> DEFINE n == Len(lwip_cyclic_timers)
<1>1. Rest
  <2>1. 0 \in Time /\ 0 \in 0 .. MaxLate /\ 0 \in 0 .. MaxSteps
    BY TimeoutsAssumption DEF Time
  <2>2. waited \in [Timers -> Nat]
    BY DEF Init
  <2> QED
    BY <2>1, <2>2 DEF Init, Rest
<1>2. n \in Nat /\ \A i \in 1 .. n : lwip_cyclic_timers[i] \in Timers
  BY TimeoutsAssumption DEF Timers
<1>3. After(clock, CyclicInterval) \in Time
  BY TimeoutsAssumption, AfterIsTime DEF Init
<1>4. next_timeout \in [1 .. n -> Timeout]
  BY <1>2, <1>3 DEF Init, Timeout
<1>5. next_timeout \in Seq(Timeout) /\ Len(next_timeout) = n
  BY <1>2, <1>4, LenProperties, SeqDef
<1>6. \A i \in 1 .. n : next_timeout[i].h = lwip_cyclic_timers[i]
  BY DEF Init
<1>7. Distinct(next_timeout)
  BY <1>5, <1>6, TimeoutsAssumption DEF Distinct
<1>8. \A t : Has(next_timeout, t) <=> t \in Cyclic
  BY <1>5, <1>6 DEF Has, Cyclic
<1>9. Tcp \notin Cyclic /\ Null # Tcp /\ \A t \in Cyclic : Null # t
  BY TimeoutsAssumption DEF Timers
<1>10. n <= MEMP_NUM_SYS_TIMEOUT
  BY <1>2 DEF MEMP_NUM_SYS_TIMEOUT
<1> QED
  BY <1>1, <1>5, <1>7, <1>8, <1>9, <1>10 DEF Places

LEMMA NextInv == Inv /\ [Next]_vars => Inv'
<1> SUFFICES ASSUME Inv, [Next]_vars
             PROVE  /\ Places(next_timeout, tcpip_tcp_timer_active, running, pcbs)'
                    /\ Rest'
  BY InvParts, PTL
<1> USE DEF Places
<1>1. Places(next_timeout, tcpip_tcp_timer_active, running, pcbs) /\ Rest
  BY InvParts
<1>2. Tcp \in Timers /\ Tcp \notin Cyclic /\ Cyclic \subseteq Timers
      /\ Null \notin Timers /\ 0 \in Time
  BY TimeoutsAssumption DEF Timers, Time
<1>3. \A t \in Timers : Interval(t) \in Nat /\ Cap(t) \in Nat
  BY IntervalIsNat
<1>4. TcpInterval \in Nat /\ CyclicInterval \in Nat /\ MaxLate \in Nat /\ MaxSteps \in Nat
  BY TimeoutsAssumption
<1>5. CASE Tick
  <2>1. clock' \in Time
    BY <1>1, <1>5, AfterIsTime DEF Tick, Rest
  <2>2. waited' \in [Timers -> Nat]
    BY <1>1, <1>3, <1>5 DEF Tick, Rest
  <2> QED
    BY <1>1, <1>4, <1>5, <2>1, <2>2 DEF Tick, Rest
<1>6. CASE SetClock
  BY <1>1, <1>4, <1>6 DEF SetClock, Rest
<1>7. CASE TcpReg
  <2>1. CASE tcpip_tcp_timer_active
    BY <1>1, <1>7, <2>1 DEF TcpReg, Rest
  <2>2. CASE ~tcpip_tcp_timer_active
    <3>1. ~Has(next_timeout, Tcp) /\ running # Tcp
      BY <1>1, <2>2
    <3>2. SysTimeoutAbs(After(clock, TcpInterval), Tcp)
      BY <1>7, <2>2 DEF TcpReg, SysTimeout
    <3>3. After(clock, TcpInterval) \in Time
      BY <1>1, <1>4, AfterIsTime DEF Rest
    <3>4. /\ next_timeout' \in Seq(Timeout) /\ Len(next_timeout') <= MEMP_NUM_SYS_TIMEOUT
          /\ Distinct(next_timeout')
          /\ \A u : Has(next_timeout', u) <=> u = Tcp \/ Has(next_timeout, u)
      BY <1>1, <1>2, <3>1, <3>2, <3>3, TimeoutQueued
    <3>5. Rest'
      BY <1>1, <1>7, <2>2 DEF TcpReg, Rest
    <3> QED
      BY <1>1, <1>2, <1>7, <2>2, <3>1, <3>4, <3>5 DEF TcpReg
  <2> QED
    BY <2>1, <2>2
<1>8. CASE TcpRmv
  BY <1>1, <1>8 DEF TcpRmv, Rest
<1>9. CASE BeginPass
  BY <1>1, <1>4, <1>9 DEF BeginPass, Rest
<1>10. CASE Expire
  <2>1. next_timeout # <<>> /\ running = Null
    BY <1>10 DEF Expire, Expired
  <2>2. /\ Head(next_timeout) \in Timeout
        /\ Tail(next_timeout) \in Seq(Timeout)
        /\ Len(Tail(next_timeout)) = Len(next_timeout) - 1
        /\ Distinct(Tail(next_timeout))
        /\ \A u : Has(Tail(next_timeout), u)
                    <=> u # Head(next_timeout).h /\ Has(next_timeout, u)
    BY <1>1, <2>1, TailList
  <2>3. Head(next_timeout).h \in Timers /\ Head(next_timeout).time \in Time
    BY <2>2 DEF Timeout
  <2>4. Has(next_timeout, Head(next_timeout).h)
    BY <1>1, <2>1 DEF Has
  <2>5. Len(next_timeout') <= MEMP_NUM_SYS_TIMEOUT
    BY <1>1, <1>10, <2>2, TimeoutsAssumption DEF Expire, MEMP_NUM_SYS_TIMEOUT
  <2>6. Rest'
    BY <1>1, <1>4, <1>10, <2>3 DEF Expire, Rest
  <2>7. running' = Head(next_timeout).h /\ next_timeout' = Tail(next_timeout)
    BY <1>10 DEF Expire
  <2>8. UNCHANGED <<tcpip_tcp_timer_active, pcbs>>
    BY <1>10 DEF Expire
  <2> QED
    BY <1>1, <1>2, <2>1, <2>2, <2>3, <2>4, <2>5, <2>6, <2>7, <2>8
<1>11. CASE CyclicTimerEnds
  <2> DEFINE next == After(due, CyclicInterval)
             time == IF TIME_LESS_THAN(next, clock)
                     THEN After(clock, CyclicInterval) ELSE next
  <2>1. time \in Time
    BY <1>1, <1>4, AfterIsTime DEF Rest
  <2>2. running \in Cyclic /\ ~Has(next_timeout, running) /\ running' = Null
    BY <1>1, <1>11 DEF CyclicTimerEnds
  <2>3. SysTimeoutAbs(time, running)
    BY <1>11 DEF CyclicTimerEnds
  <2> HIDE DEF time
  <2>4. /\ next_timeout' \in Seq(Timeout) /\ Len(next_timeout') <= MEMP_NUM_SYS_TIMEOUT
        /\ Distinct(next_timeout')
        /\ \A u : Has(next_timeout', u) <=> u = running \/ Has(next_timeout, u)
    BY <1>1, <1>2, <2>1, <2>2, <2>3, TimeoutQueued
  <2>5. Rest'
    BY <1>1, <1>2, <1>11 DEF CyclicTimerEnds, Rest
  <2>6. UNCHANGED <<tcpip_tcp_timer_active, pcbs>>
    BY <1>11 DEF CyclicTimerEnds
  <2> QED
    BY <1>1, <1>2, <2>2, <2>4, <2>5, <2>6
<1>12. CASE TcpTimerEnds
  <2>1. running = Tcp /\ running' = Null /\ ~Has(next_timeout, Tcp)
    BY <1>1, <1>12 DEF TcpTimerEnds
  <2>2. Rest'
    BY <1>1, <1>2, <1>12 DEF TcpTimerEnds, Rest
  <2>3. tcpip_tcp_timer_active' = pcbs /\ pcbs' = pcbs
    BY <1>12 DEF TcpTimerEnds
  <2>4. CASE pcbs
    <3>1. SysTimeoutAbs(After(clock, TcpInterval), Tcp)
      BY <1>12, <2>4 DEF TcpTimerEnds, SysTimeout
    <3>2. After(clock, TcpInterval) \in Time
      BY <1>1, <1>4, AfterIsTime DEF Rest
    <3>3. /\ next_timeout' \in Seq(Timeout) /\ Len(next_timeout') <= MEMP_NUM_SYS_TIMEOUT
          /\ Distinct(next_timeout')
          /\ \A u : Has(next_timeout', u) <=> u = Tcp \/ Has(next_timeout, u)
      BY <1>1, <1>2, <2>1, <3>1, <3>2, TimeoutQueued
    <3> QED
      BY <1>1, <1>2, <2>1, <2>2, <2>3, <2>4, <3>3
  <2>5. CASE ~pcbs
    <3>1. next_timeout' = next_timeout
      BY <1>12, <2>5 DEF TcpTimerEnds
    <3> QED
      BY <1>1, <1>2, <2>1, <2>2, <2>3, <2>5, <3>1
  <2> QED
    BY <2>4, <2>5
<1>13. CASE EndPass
  BY <1>1, <1>13 DEF EndPass, Rest
<1>14. CASE UNCHANGED vars
  BY <1>1, <1>14 DEF vars, Rest
<1> QED
  BY <1>5, <1>6, <1>7, <1>8, <1>9, <1>10, <1>11, <1>12, <1>13, <1>14 DEF Next, TimerTask

LEMMA InvHolds == Spec => []Inv
BY InitInv, NextInv, PTL DEF Spec

\* The list, the pass and the clock keep their types, and the list never has more
\* timeouts than the pool has elements, for any timers and intervals.
THEOREM TimerTypes == Spec => []TypeOK
<1>1. Inv => TypeOK
  BY DEF Inv
<1> QED
  BY <1>1, InvHolds, PTL

\* However the clock is set and wherever it wraps, sys_timeout_abs neither loses a
\* timer that is on nor queues it twice, and pcbs never wait without the TCP
\* timer, for any timers and intervals.
THEOREM NoTimerLost == Spec => []EachTimerOnce
<1>1. Inv => EachTimerOnce
  BY DEF Inv
<1> QED
  BY <1>1, InvHolds, PTL

-------------------------------------------------------------------------------
\* How far time is ahead of c, or behind, on a clock that wraps: no timeout is
\* ever more than two delays behind.
Ahead(time, c) ==
  LET e == time - c
  IN  IF e >= Wrap - 2 * MaxLate THEN e - Wrap
      ELSE IF e < -(2 * MaxLate) THEN e + Wrap ELSE e

\* Timer t, which waits for time, has not waited for too long, and the TCP timer
\* has as long to wait as is left of its interval.
On(t, time, c, w) ==
  /\ w[t] + Ahead(time, c) <= Interval(t)
  /\ t = Tcp => w[t] + Ahead(time, c) = Interval(t)

\* It was at most so long due when the pass in progress, or the last one, began.
Entry(e, c, late, w, least) ==
  On(e.h, e.time, c, w) /\ Ahead(e.time, c) + late > least

Ordered(list, c) ==
  \A i, j \in 1 .. Len(list) :
    i < j => Ahead(list[i].time, c) <= Ahead(list[j].time, c)

\* A pass leaves no timeout that was due when it began.
Least(at) == IF at = Null THEN 0 ELSE -MaxLate

OnTime ==
  steps = 0 =>
    /\ now # Null => Ahead(now, clock) + idle = 0
    /\ \A i \in 1 .. Len(next_timeout) :
         Entry(next_timeout[i], clock, idle, waited, Least(now))
    /\ Ordered(next_timeout, clock)
    /\ running # Null =>
         /\ now # Null /\ On(running, due, clock, waited)
         /\ Ahead(due, clock) + idle <= 0 /\ Ahead(due, clock) + idle > -MaxLate

-------------------------------------------------------------------------------
\* Half a turn of the clock.
LEMMA HalfTurn ==
  /\ Wrap \in Nat /\ MaxLate \in Nat /\ LWIP_MAX_TIMEOUT \in Nat
  /\ 2 * LWIP_MAX_TIMEOUT + 2 <= Wrap /\ 2 * MaxLate <= LWIP_MAX_TIMEOUT
  /\ \A t \in Timers : /\ Interval(t) \in Nat /\ Interval(t) >= 1
                       /\ Interval(t) + 2 * MaxLate <= LWIP_MAX_TIMEOUT + 1
<1>1. Wrap \in Nat \ {0} /\ MaxLate \in Nat
  BY TimeoutsAssumption
<1>2. \A t \in Timers : /\ Interval(t) \in Nat /\ Interval(t) >= 1
                        /\ Interval(t) + 2 * MaxLate <= LWIP_MAX_TIMEOUT + 1
  BY TimeoutsAssumption DEF Interval
<1>3. LWIP_MAX_TIMEOUT \in Int /\ 2 * LWIP_MAX_TIMEOUT + 2 <= Wrap
  BY <1>1 DEF LWIP_MAX_TIMEOUT
<1>4. Tcp \in Timers
  BY DEF Timers
<1>5. LWIP_MAX_TIMEOUT \in Nat /\ 2 * MaxLate <= LWIP_MAX_TIMEOUT
  BY <1>1, <1>2, <1>3, <1>4
<1> QED
  BY <1>1, <1>2, <1>3, <1>5

\* One turn of the clock too many, or too few.
LEMMA Turn ==
  ASSUME NEW x \in Int, -Wrap <= x, x < 2 * Wrap
  PROVE  x % Wrap = IF x < 0 THEN x + Wrap ELSE IF x < Wrap THEN x ELSE x - Wrap
<1>1. Wrap \in Nat \ {0}
  BY TimeoutsAssumption
<1>2. CASE x < 0
  BY <1>1, <1>2
<1>3. CASE 0 <= x /\ x < Wrap
  BY <1>1, <1>3
<1>4. CASE Wrap <= x
  BY <1>1, <1>4
<1> QED
  BY <1>1, <1>2, <1>3, <1>4

LEMMA AheadFacts ==
  ASSUME NEW x \in Time, NEW c \in Time
  PROVE  /\ Ahead(x, c) \in Int
         /\ -(2 * MaxLate) <= Ahead(x, c) /\ Ahead(x, c) < Wrap - 2 * MaxLate
         /\ \/ Ahead(x, c) = x - c
            \/ Ahead(x, c) = (x - c) + Wrap
            \/ Ahead(x, c) = (x - c) - Wrap
<1>1. x \in Int /\ c \in Int /\ 0 <= x /\ x < Wrap /\ 0 <= c /\ c < Wrap
  BY HalfTurn DEF Time
<1> QED
  BY <1>1, HalfTurn DEF Ahead

\* A number of that kind in that range is how far x is ahead.
LEMMA AheadIs ==
  ASSUME NEW x \in Time, NEW c \in Time, NEW a \in Int,
         -(2 * MaxLate) <= a, a < Wrap - 2 * MaxLate,
         a = x - c \/ a = (x - c) + Wrap \/ a = (x - c) - Wrap
  PROVE  Ahead(x, c) = a
<1>1. x \in Int /\ c \in Int /\ 0 <= x /\ x < Wrap /\ 0 <= c /\ c < Wrap
  BY HalfTurn DEF Time
<1> QED
  BY <1>1, HalfTurn DEF Ahead

LEMMA AheadOfItself ==
  ASSUME NEW c \in Time
  PROVE  Ahead(c, c) = 0
<1>1. c \in Int
  BY HalfTurn DEF Time
<1> QED
  BY <1>1, HalfTurn, AheadIs

\* A tick brings every time nearer by one, wherever the clock wraps.
LEMMA AheadAfterTick ==
  ASSUME NEW x \in Time, NEW c \in Time, Ahead(x, c) > -(2 * MaxLate)
  PROVE  Ahead(x, After(c, 1)) = Ahead(x, c) - 1
<1>1. x \in Int /\ c \in Int /\ 0 <= x /\ x < Wrap /\ 0 <= c /\ c < Wrap
  BY HalfTurn DEF Time
<1>2. After(c, 1) \in Time
  BY AfterIsTime
<1>3. After(c, 1) = c + 1 \/ After(c, 1) = (c + 1) - Wrap
  BY <1>1, Turn, HalfTurn DEF After
<1>4. After(c, 1) \in Int
  BY <1>1, <1>3, HalfTurn
<1>5. 0 <= After(c, 1) /\ After(c, 1) < Wrap
  BY <1>2, HalfTurn DEF Time
<1>6. /\ Ahead(x, c) \in Int /\ Ahead(x, c) < Wrap - 2 * MaxLate
      /\ \/ Ahead(x, c) = x - c
         \/ Ahead(x, c) = (x - c) + Wrap
         \/ Ahead(x, c) = (x - c) - Wrap
  BY AheadFacts
<1> DEFINE a == Ahead(x, c)
           d == After(c, 1)
<1> HIDE DEF a, d
<1>7. a - 1 = x - d \/ a - 1 = (x - d) + Wrap \/ a - 1 = (x - d) - Wrap
  <2>1. a > -(2 * MaxLate)
    BY DEF a
  <2> QED
    BY <1>1, <1>3, <1>4, <1>5, <1>6, <2>1, HalfTurn DEF a, d
<1>8. a - 1 \in Int /\ -(2 * MaxLate) <= a - 1 /\ a - 1 < Wrap - 2 * MaxLate
  BY <1>6, HalfTurn DEF a
<1> QED
  BY <1>2, <1>7, <1>8, AheadIs DEF a, d

\* A time that is msecs later is msecs further ahead.
LEMMA AheadLater ==
  ASSUME NEW x \in Time, NEW c \in Time, NEW msecs \in Nat,
         Ahead(x, c) + msecs <= LWIP_MAX_TIMEOUT + 1, msecs <= LWIP_MAX_TIMEOUT + 1
  PROVE  Ahead(After(x, msecs), c) = Ahead(x, c) + msecs
<1>1. x \in Int /\ c \in Int /\ 0 <= x /\ x < Wrap /\ 0 <= c /\ c < Wrap
  BY HalfTurn DEF Time
<1>2. After(x, msecs) \in Time
  BY AfterIsTime
<1>3. After(x, msecs) = x + msecs \/ After(x, msecs) = (x + msecs) - Wrap
  BY <1>1, Turn, HalfTurn DEF After
<1>4. After(x, msecs) \in Int /\ 0 <= After(x, msecs) /\ After(x, msecs) < Wrap
  BY <1>2, HalfTurn DEF Time
<1>5. /\ Ahead(x, c) \in Int /\ Ahead(x, c) >= -(2 * MaxLate)
      /\ \/ Ahead(x, c) = x - c
         \/ Ahead(x, c) = (x - c) + Wrap
         \/ Ahead(x, c) = (x - c) - Wrap
  BY AheadFacts
<1> DEFINE a == Ahead(x, c) + msecs
           y == After(x, msecs)
<1>6. a \in Int /\ -(2 * MaxLate) <= a /\ a <= LWIP_MAX_TIMEOUT + 1
  BY <1>5, HalfTurn
<1>7. a < Wrap - 2 * MaxLate
  BY <1>6, HalfTurn
<1>8. a = y - c \/ a = (y - c) + Wrap \/ a = (y - c) - Wrap
  <2>1. CASE y = x + msecs
    BY <1>1, <1>4, <1>5, <1>6, <1>7, <2>1, HalfTurn
  <2>2. CASE y = (x + msecs) - Wrap
    BY <1>1, <1>4, <1>5, <1>6, <1>7, <2>2, HalfTurn
  <2> QED
    BY <1>3, <2>1, <2>2
<1> HIDE DEF a, y
<1>9. Ahead(y, c) = a
  BY <1>2, <1>6, <1>7, <1>8, AheadIs DEF y
<1> QED
  BY <1>9 DEF a, y

\* TIME_LESS_THAN tells which is ahead, of two times not too far apart.
LEMMA LessThanIs ==
  ASSUME NEW x \in Time, NEW y \in Time, NEW c \in Time,
         Ahead(x, c) - Ahead(y, c) <= LWIP_MAX_TIMEOUT,
         Ahead(y, c) - Ahead(x, c) <= LWIP_MAX_TIMEOUT + 1
  PROVE  TIME_LESS_THAN(x, y) <=> Ahead(x, c) < Ahead(y, c)
<1>1. /\ x \in Int /\ y \in Int /\ c \in Int
      /\ 0 <= x /\ x < Wrap /\ 0 <= y /\ y < Wrap /\ 0 <= c /\ c < Wrap
  BY HalfTurn DEF Time
<1> DEFINE a == Ahead(x, c)
           b == Ahead(y, c)
<1>2. a \in Int /\ b \in Int /\ a - b <= LWIP_MAX_TIMEOUT /\ b - a <= LWIP_MAX_TIMEOUT + 1
  BY AheadFacts
<1>3. /\ a = x - c \/ a = (x - c) + Wrap \/ a = (x - c) - Wrap
      /\ b = y - c \/ b = (y - c) + Wrap \/ b = (y - c) - Wrap
  BY AheadFacts
<1> HIDE DEF a, b
<1>4. (x - y) % Wrap = IF x - y < 0 THEN (x - y) + Wrap ELSE x - y
  BY <1>1, Turn, HalfTurn
<1>5. CASE a < b
  <2>1. (x - y) % Wrap = (a - b) + Wrap
    BY <1>1, <1>2, <1>3, <1>4, <1>5, HalfTurn
  <2>2. (x - y) % Wrap > LWIP_MAX_TIMEOUT
    BY <1>2, <2>1, HalfTurn
  <2> QED
    BY <1>5, <2>2 DEF TIME_LESS_THAN, a, b
<1>6. CASE b <= a
  <2>1. (x - y) % Wrap = a - b
    BY <1>1, <1>2, <1>3, <1>4, <1>6, HalfTurn
  <2>2. ~((x - y) % Wrap > LWIP_MAX_TIMEOUT)
    BY <1>2, <2>1, HalfTurn
  <2>3. ~(a < b)
    BY <1>2, <1>6
  <2> QED
    BY <2>2, <2>3 DEF TIME_LESS_THAN, a, b
<1> QED
  BY <1>2, <1>5, <1>6

\* Where the times of the list are.
Near(a) == a > -(2 * MaxLate) /\ a + 2 * MaxLate <= LWIP_MAX_TIMEOUT + 1

LEMMA NearLess ==
  ASSUME NEW x \in Time, NEW y \in Time, NEW c \in Time, Near(Ahead(x, c)), Near(Ahead(y, c))
  PROVE  TIME_LESS_THAN(x, y) <=> Ahead(x, c) < Ahead(y, c)
<1>1. Ahead(x, c) \in Int /\ Ahead(y, c) \in Int
  BY AheadFacts
<1>2. /\ Ahead(x, c) - Ahead(y, c) <= LWIP_MAX_TIMEOUT
      /\ Ahead(y, c) - Ahead(x, c) <= LWIP_MAX_TIMEOUT + 1
  BY <1>1, HalfTurn DEF Near
<1> QED
  BY <1>2, LessThanIs

\* sys_timeout_abs goes past the timeouts that are not later, and stops.
LEMMA PositionIs ==
  ASSUME NEW list \in Seq(Timeout), NEW time, NEW p, p = Position(list, time)
  PROVE  /\ \A i \in 1 .. Len(list) : i < p => ~TIME_LESS_THAN(time, list[i].time)
         /\ p <= Len(list) => TIME_LESS_THAN(time, list[p].time)
<1> DEFINE later == {i \in 1 .. Len(list) : TIME_LESS_THAN(time, list[i].time)}
<1>1. Len(list) \in Nat
  OBVIOUS
<1>2. CASE later = {}
  <2>1. p = Len(list) + 1
    BY <1>2 DEF Position
  <2> QED
    BY <1>1, <1>2, <2>1
<1>3. CASE later # {}
  <2>1. later \in SUBSET Nat /\ \A i \in later : i \in 1 .. Len(list)
    BY <1>1
  <2>2. p = CHOOSE i \in later : \A j \in later : i <= j
    BY <1>3 DEF Position
  <2>3. \E i \in later : \A j \in later : i <= j
    <3> HIDE DEF later
    <3> QED
      BY <1>3, <2>1, LeastIndex
  <2>4. p \in later /\ \A j \in later : p <= j
    <3> HIDE DEF later
    <3> QED
      BY <2>2, <2>3
  <2>5. \A j \in later : j \in Nat /\ ~(j < p)
    BY <1>1, <2>4
  <2>6. TIME_LESS_THAN(time, list[p].time)
    BY <2>4
  <2> QED
    BY <2>5, <2>6
<1> QED
  BY <1>2, <1>3

\* The list stays in order of time, and only the new timeout is added to it.
LEMMA InsertedInOrder ==
  ASSUME NEW c \in Time, NEW list \in Seq(Timeout), NEW e \in Timeout,
         Ordered(list, c), Near(Ahead(e.time, c)),
         \A i \in 1 .. Len(list) : Near(Ahead(list[i].time, c))
  PROVE  LET new == Inserted(list, Position(list, e.time), e)
         IN  /\ Ordered(new, c)
             /\ \A i \in 1 .. Len(new) :
                  new[i] = e \/ \E j \in 1 .. Len(list) : new[i] = list[j]
<1> DEFINE n == Len(list)
           p == Position(list, e.time)
           new == Inserted(list, p, e)
           at(i) == Ahead(list[i].time, c)
           a == Ahead(e.time, c)
<1>1. n \in Nat /\ e.time \in Time /\ \A i \in 1 .. n : list[i].time \in Time
  <2>1. n \in Nat /\ \A i \in 1 .. n : list[i] \in Timeout
    OBVIOUS
  <2> QED
    BY <2>1 DEF Timeout
<1>2. p \in Nat /\ 1 <= p /\ p <= n + 1
  BY <1>1, PositionInList
<1>3. a \in Int /\ \A i \in 1 .. n : at(i) \in Int
  BY <1>1, AheadFacts
<1>4. /\ \A i \in 1 .. n : i < p => ~TIME_LESS_THAN(e.time, list[i].time)
      /\ p <= n => TIME_LESS_THAN(e.time, list[p].time)
  BY PositionIs
<1>5. \A i \in 1 .. n : TIME_LESS_THAN(e.time, list[i].time) <=> a < at(i)
  BY <1>1, NearLess
<1>6. \A i, j \in 1 .. n : i < j => at(i) <= at(j)
  BY DEF Ordered
<1>7. Len(new) = n + 1
  <2>1. new = [j \in 1 .. n + 1 |-> new[j]] /\ n + 1 \in Nat
    BY <1>1 DEF Inserted
  <2> HIDE DEF new, n
  <2> QED
    BY <2>1, LenProperties, SeqDef
<1>8. \A i \in 1 .. n + 1 : new[i] = IF i < p THEN list[i] ELSE IF i = p THEN e ELSE list[i - 1]
  BY DEF Inserted
<1> HIDE DEF new, p, a, n
<1>9. \A i \in 1 .. n : (i < p => at(i) <= a) /\ (i >= p => a <= at(i))
  <2> TAKE i \in 1 .. n
  <2>1. i \in Nat /\ at(i) \in Int
    BY <1>1, <1>3
  <2>2. ASSUME i < p PROVE at(i) <= a
    BY <1>3, <1>4, <1>5, <2>1, <2>2
  <2>3. ASSUME i >= p PROVE a <= at(i)
    <3>1. p \in 1 .. n /\ p <= n
      BY <1>1, <1>2, <2>1, <2>3
    <3>2. a < at(p) /\ at(p) \in Int
      BY <1>3, <1>4, <1>5, <3>1
    <3>3. at(p) <= at(i)
      BY <1>2, <1>3, <1>6, <2>1, <2>3, <3>1
    <3> QED
      BY <1>3, <2>1, <3>2, <3>3
  <2> QED
    BY <2>2, <2>3
<1>10. \A i \in 1 .. n + 1 :
         \/ i < p /\ i \in 1 .. n /\ new[i] = list[i]
         \/ i = p /\ new[i] = e
         \/ i > p /\ i - 1 >= p /\ i - 1 \in 1 .. n /\ new[i] = list[i - 1]
  BY <1>1, <1>2, <1>8
<1>11. ASSUME NEW i \in 1 .. n + 1, NEW j \in 1 .. n + 1, i < j
       PROVE  Ahead(new[i].time, c) <= Ahead(new[j].time, c)
  <2>0. i \in Nat /\ j \in Nat
    BY <1>1
  <2>1. CASE j < p
    <3>1. i \in 1 .. n /\ j \in 1 .. n /\ new[i] = list[i] /\ new[j] = list[j]
      BY <1>2, <1>10, <1>11, <2>0, <2>1
    <3> QED
      BY <1>6, <1>11, <3>1
  <2>2. CASE j = p
    <3>1. i < p /\ i \in 1 .. n /\ new[i] = list[i] /\ new[j] = e
      BY <1>2, <1>10, <1>11, <2>0, <2>2
    <3> QED
      BY <1>9, <3>1 DEF a
  <2>3. CASE j > p
    <3>1. j - 1 >= p /\ j - 1 \in 1 .. n /\ new[j] = list[j - 1]
      BY <1>2, <1>10, <2>0, <2>3
    <3>2. CASE i < p
      <4>1. i \in 1 .. n /\ new[i] = list[i] /\ i < j - 1
        BY <1>2, <1>10, <2>0, <3>1, <3>2
      <4> QED
        BY <1>6, <3>1, <4>1
    <3>3. CASE i = p
      <4>1. new[i] = e
        BY <1>2, <1>10, <2>0, <3>3
      <4> QED
        BY <1>9, <3>1, <4>1 DEF a
    <3>4. CASE i > p
      <4>1. i - 1 \in 1 .. n /\ new[i] = list[i - 1] /\ i - 1 < j - 1
        BY <1>2, <1>10, <1>11, <2>0, <3>4
      <4> QED
        BY <1>6, <3>1, <4>1
    <3> QED
      BY <1>2, <2>0, <3>2, <3>3, <3>4
  <2> QED
    BY <1>2, <2>0, <2>1, <2>2, <2>3
<1>12. Ordered(new, c)
  BY <1>7, <1>11 DEF Ordered
<1>13. \A i \in 1 .. Len(new) : new[i] = e \/ \E j \in 1 .. n : new[i] = list[j]
  BY <1>7, <1>10
<1> QED
  BY <1>12, <1>13 DEF new, p, n

\* Nothing in the list is out of sight of TIME_LESS_THAN.
LEMMA EntryFacts ==
  ASSUME NEW c \in Time, NEW late \in 0 .. MaxLate, NEW w \in [Timers -> Nat],
         NEW e \in Timeout, NEW least \in {0, -MaxLate}, Entry(e, c, late, w, least)
  PROVE  Near(Ahead(e.time, c)) /\ w[e.h] < Interval(e.h) + 2 * MaxLate
<1>1. e.h \in Timers /\ e.time \in Time
  BY DEF Timeout
<1>2. Interval(e.h) \in Nat /\ Interval(e.h) + 2 * MaxLate <= LWIP_MAX_TIMEOUT + 1
  BY <1>1, HalfTurn
<1>3. w[e.h] \in Nat /\ Ahead(e.time, c) \in Int
  BY <1>1, AheadFacts
<1>4. w[e.h] + Ahead(e.time, c) <= Interval(e.h) /\ Ahead(e.time, c) + late > least
  BY DEF Entry, On
<1>5. late \in Nat /\ late <= MaxLate /\ MaxLate \in Nat /\ least >= -MaxLate /\ least \in Int
  BY HalfTurn
<1> QED
  BY <1>2, <1>3, <1>4, <1>5, HalfTurn DEF Near

\* So is the timeout whose handler is being run.
LEMMA DueFacts ==
  ASSUME Rest, steps = 0, OnTime, running # Null
  PROVE  /\ now # Null /\ running \in Timers
         /\ Ahead(due, clock) \in Int /\ Near(Ahead(due, clock))
         /\ On(running, due, clock, waited)
         /\ Ahead(due, clock) <= 0 /\ Ahead(due, clock) + idle <= 0
         /\ Ahead(due, clock) + idle > -MaxLate
         /\ waited[running] < Interval(running) + 2 * MaxLate
<1>1. running \in Timers /\ due \in Time /\ clock \in Time /\ waited \in [Timers -> Nat]
  BY DEF Rest
<1>2. /\ now # Null /\ On(running, due, clock, waited)
      /\ Ahead(due, clock) + idle <= 0 /\ Ahead(due, clock) + idle > -MaxLate
  BY DEF OnTime
<1>3. idle \in Nat /\ idle <= MaxLate /\ MaxLate \in Nat
  BY HalfTurn DEF Rest
<1>4. Ahead(due, clock) \in Int /\ waited[running] \in Nat
  BY <1>1, AheadFacts
<1>5. LWIP_MAX_TIMEOUT \in Nat /\ Interval(running) \in Nat /\ Interval(running) >= 1
      /\ Interval(running) + 2 * MaxLate <= LWIP_MAX_TIMEOUT + 1
  BY <1>1, HalfTurn
<1>6. waited[running] + Ahead(due, clock) <= Interval(running)
  BY <1>2 DEF On
<1>7. Near(Ahead(due, clock)) /\ waited[running] < Interval(running) + 2 * MaxLate
  BY <1>2, <1>3, <1>4, <1>5, <1>6 DEF Near
<1> QED
  BY <1>1, <1>2, <1>3, <1>4, <1>7

\* A list that is on time, in order, and of timers each at its place.
LEMMA ListFacts ==
  ASSUME Inv, steps = 0, OnTime
  PROVE  /\ next_timeout \in Seq(Timeout) /\ Len(next_timeout) \in Nat
         /\ clock \in Time /\ idle \in Nat /\ idle <= MaxLate /\ MaxLate \in Nat
         /\ waited \in [Timers -> Nat]
         /\ Ordered(next_timeout, clock)
         /\ \A i \in 1 .. Len(next_timeout) :
              /\ next_timeout[i] \in Timeout
              /\ next_timeout[i].h \in Timers /\ next_timeout[i].time \in Time
              /\ Ahead(next_timeout[i].time, clock) \in Int
              /\ Near(Ahead(next_timeout[i].time, clock))
              /\ Entry(next_timeout[i], clock, idle, waited, Least(now))
              /\ waited[next_timeout[i].h] < Interval(next_timeout[i].h) + 2 * MaxLate
<1>1. /\ clock \in Time /\ idle \in 0 .. MaxLate /\ waited \in [Timers -> Nat]
      /\ MaxLate \in Nat /\ idle \in Nat /\ idle <= MaxLate
  BY InvParts, HalfTurn DEF Rest
<1>2. next_timeout \in Seq(Timeout)
  BY InvParts DEF Places
<1>3. Least(now) \in {0, -MaxLate}
  BY DEF Least
<1>4. /\ Len(next_timeout) \in Nat
      /\ \A i \in 1 .. Len(next_timeout) :
           next_timeout[i] \in Timeout
           /\ next_timeout[i].h \in Timers /\ next_timeout[i].time \in Time
  <2>1. Len(next_timeout) \in Nat
        /\ \A i \in 1 .. Len(next_timeout) : next_timeout[i] \in Timeout
    BY <1>2
  <2> QED
    BY <2>1 DEF Timeout
<1>5. /\ Ordered(next_timeout, clock)
      /\ \A i \in 1 .. Len(next_timeout) :
           Entry(next_timeout[i], clock, idle, waited, Least(now))
  BY DEF OnTime
<1>6. \A i \in 1 .. Len(next_timeout) :
        /\ Near(Ahead(next_timeout[i].time, clock))
        /\ waited[next_timeout[i].h] < Interval(next_timeout[i].h) + 2 * MaxLate
  BY <1>1, <1>3, <1>4, <1>5, EntryFacts
<1>7. \A i \in 1 .. Len(next_timeout) : Ahead(next_timeout[i].time, clock) \in Int
  BY <1>1, <1>4, AheadFacts
<1> QED
  BY <1>1, <1>2, <1>4, <1>5, <1>6, <1>7

\* A list with a new timeout in it, whatever else changes for its timer alone.
LEMMA TimeoutOnTime ==
  ASSUME Inv, steps = 0, OnTime, NEW t \in Timers, NEW time \in Time,
         ~Has(next_timeout, t), SysTimeoutAbs(time, t), Near(Ahead(time, clock)),
         waited' = [waited EXCEPT ![t] = 0], UNCHANGED <<clock, idle, now>>,
         Ahead(time, clock) <= Interval(t), t = Tcp => Ahead(time, clock) = Interval(t),
         Ahead(time, clock) + idle > Least(now)
  PROVE  /\ \A i \in 1 .. Len(next_timeout') :
              Entry(next_timeout'[i], clock', idle', waited', Least(now'))
         /\ Ordered(next_timeout', clock')
<1> DEFINE e == [h |-> t, time |-> time]
<1>1. e \in Timeout /\ e.h = t /\ e.time = time
  BY DEF Timeout
<1> HIDE DEF e
<1>2. next_timeout' = Inserted(next_timeout, Position(next_timeout, time), e)
  <2>1. next_timeout \in Seq(Timeout) /\ Distinct(next_timeout)
    BY InvParts DEF Places
  <2>2. Len(next_timeout) < MEMP_NUM_SYS_TIMEOUT
    BY <2>1, PoolSuffices
  <2>3. Len(next_timeout) \in Nat /\ MEMP_NUM_SYS_TIMEOUT \in Nat
    BY <2>1, TimeoutsAssumption DEF MEMP_NUM_SYS_TIMEOUT
  <2> QED
    BY <2>2, <2>3 DEF SysTimeoutAbs, e
<1>3. /\ next_timeout \in Seq(Timeout) /\ clock \in Time /\ Ordered(next_timeout, clock)
      /\ \A i \in 1 .. Len(next_timeout) : Near(Ahead(next_timeout[i].time, clock))
  BY ListFacts
<1>4. /\ Ordered(next_timeout', clock)
      /\ \A i \in 1 .. Len(next_timeout') :
           next_timeout'[i] = e \/ \E j \in 1 .. Len(next_timeout) : next_timeout'[i] = next_timeout[j]
  BY <1>1, <1>2, <1>3, InsertedInOrder
<1>5. waited \in [Timers -> Nat] /\ waited'[t] = 0
  BY ListFacts
<1>6. Entry(e, clock, idle, waited', Least(now))
  <2>1. Ahead(time, clock) \in Int
    BY <1>3, AheadFacts
  <2> QED
    BY <1>1, <1>5, <2>1 DEF Entry, On
<1>7. ASSUME NEW j \in 1 .. Len(next_timeout)
      PROVE  Entry(next_timeout[j], clock, idle, waited', Least(now))
  <2>1. Entry(next_timeout[j], clock, idle, waited, Least(now)) /\ next_timeout[j].h \in Timers
    BY ListFacts
  <2>2. next_timeout[j].h # t
    BY DEF Has
  <2>3. waited'[next_timeout[j].h] = waited[next_timeout[j].h]
    BY <1>5, <2>1, <2>2
  <2> QED
    BY <2>1, <2>3 DEF Entry, On
<1>8. \A i \in 1 .. Len(next_timeout') : Entry(next_timeout'[i], clock, idle, waited', Least(now))
  BY <1>4, <1>6, <1>7
<1>9. clock' = clock /\ idle' = idle /\ Least(now') = Least(now)
  OBVIOUS
<1> QED
  BY <1>4, <1>8, <1>9

\* Whatever its timer, a timeout that is a tick nearer has waited a tick longer.
LEMMA OnAfterTick ==
  ASSUME NEW c \in Time, NEW w \in [Timers -> Nat], NEW t \in Timers, NEW time \in Time,
         Near(Ahead(time, c)), w[t] < Interval(t) + 2 * MaxLate, On(t, time, c, w),
         NEW v, v[t] = w[t] + 1
  PROVE  On(t, time, After(c, 1), v) /\ Ahead(time, After(c, 1)) = Ahead(time, c) - 1
<1>1. Ahead(time, After(c, 1)) = Ahead(time, c) - 1 /\ Ahead(time, c) \in Int
  BY AheadAfterTick, AheadFacts DEF Near
<1>2. w[t] \in Nat /\ Interval(t) \in Nat
  BY HalfTurn
<1>3. v[t] + Ahead(time, After(c, 1)) = w[t] + Ahead(time, c)
  BY <1>1, <1>2
<1> QED
  BY <1>1, <1>3 DEF On

LEMMA TickOnTime ==
  ASSUME Inv, OnTime, Tick
  PROVE  OnTime'
<1> SUFFICES ASSUME steps = 0
             PROVE  /\ now # Null => Ahead(now, clock') + idle' = 0
                    /\ \A i \in 1 .. Len(next_timeout) :
                         Entry(next_timeout[i], clock', idle', waited', Least(now))
                    /\ Ordered(next_timeout, clock')
                    /\ running # Null =>
                         /\ now # Null /\ On(running, due, clock', waited')
                         /\ Ahead(due, clock') + idle' <= 0
                         /\ Ahead(due, clock') + idle' > -MaxLate
  <2>1. UNCHANGED <<next_timeout, now, running, due, steps>>
    BY DEF Tick
  <2> QED
    BY <2>1 DEF OnTime
<1>1. clock' = After(clock, 1) /\ idle' = idle + 1 /\ idle < MaxLate
  BY DEF Tick
<1>2. /\ clock \in Time /\ idle \in Nat /\ MaxLate \in Nat /\ waited \in [Timers -> Nat]
  BY ListFacts
<1>3. \A t \in Timers : waited[t] < Interval(t) + 2 * MaxLate => waited'[t] = waited[t] + 1
  <2> TAKE t \in Timers
  <2>1. waited[t] \in Nat /\ Interval(t) \in Nat
    BY <1>2, HalfTurn
  <2>2. waited'[t] = IF waited[t] < Cap(t) THEN waited[t] + 1 ELSE Cap(t)
    BY DEF Tick
  <2> QED
    BY <1>2, <2>1, <2>2 DEF Cap
<1>4. ASSUME NEW i \in 1 .. Len(next_timeout)
      PROVE  /\ Entry(next_timeout[i], clock', idle', waited', Least(now))
             /\ Ahead(next_timeout[i].time, clock') = Ahead(next_timeout[i].time, clock) - 1
  <2> DEFINE e == next_timeout[i]
  <2>1. /\ e.h \in Timers /\ e.time \in Time
        /\ Ahead(e.time, clock) \in Int /\ Near(Ahead(e.time, clock))
        /\ Entry(e, clock, idle, waited, Least(now))
        /\ waited[e.h] < Interval(e.h) + 2 * MaxLate
    BY ListFacts
  <2> HIDE DEF e
  <2>2. On(e.h, e.time, clock, waited) /\ Ahead(e.time, clock) + idle > Least(now)
    BY <2>1 DEF Entry
  <2>3. On(e.h, e.time, clock', waited') /\ Ahead(e.time, clock') = Ahead(e.time, clock) - 1
    BY <1>1, <1>2, <1>3, <2>1, <2>2, OnAfterTick, SMTT(30)
  <2>4. Ahead(e.time, clock') + idle' = Ahead(e.time, clock) + idle
    BY <1>1, <1>2, <2>1, <2>3
  <2>5. Entry(e, clock', idle', waited', Least(now))
    BY <2>2, <2>3, <2>4 DEF Entry
  <2> QED
    BY <2>3, <2>5 DEF e
<1>5. Ordered(next_timeout, clock')
  <2> SUFFICES ASSUME NEW i \in 1 .. Len(next_timeout), NEW j \in 1 .. Len(next_timeout), i < j
               PROVE  Ahead(next_timeout[i].time, clock') <= Ahead(next_timeout[j].time, clock')
    BY DEF Ordered
  <2>1. /\ Ahead(next_timeout[i].time, clock) \in Int /\ Ahead(next_timeout[j].time, clock) \in Int
        /\ Ordered(next_timeout, clock)
    BY ListFacts
  <2>2. Ahead(next_timeout[i].time, clock) <= Ahead(next_timeout[j].time, clock)
    BY <2>1 DEF Ordered
  <2> QED
    BY <1>4, <2>1, <2>2
<1>6. ASSUME now # Null PROVE Ahead(now, clock') + idle' = 0
  <2>1. now \in Time
    BY <1>6, InvParts DEF Rest
  <2>2. Ahead(now, clock) + idle = 0 /\ Ahead(now, clock) \in Int
    BY <1>2, <1>6, <2>1, AheadFacts DEF OnTime
  <2>3. Ahead(now, clock) > -(2 * MaxLate)
    BY <1>1, <1>2, <2>2
  <2>4. Ahead(now, clock') = Ahead(now, clock) - 1
    BY <1>1, <1>2, <2>1, <2>3, AheadAfterTick
  <2> QED
    BY <1>1, <1>2, <2>2, <2>4
<1>7. ASSUME running # Null
      PROVE  /\ now # Null /\ On(running, due, clock', waited')
             /\ Ahead(due, clock') + idle' <= 0 /\ Ahead(due, clock') + idle' > -MaxLate
  <2>1. Rest /\ due \in Time
    BY InvParts DEF Rest
  <2>2. /\ now # Null /\ running \in Timers
        /\ Ahead(due, clock) \in Int /\ Near(Ahead(due, clock))
        /\ On(running, due, clock, waited)
        /\ Ahead(due, clock) + idle <= 0 /\ Ahead(due, clock) + idle > -MaxLate
        /\ waited[running] < Interval(running) + 2 * MaxLate
    BY <1>7, <2>1, DueFacts
  <2>3. On(running, due, clock', waited') /\ Ahead(due, clock') = Ahead(due, clock) - 1
    BY <1>1, <1>2, <1>3, <2>1, <2>2, OnAfterTick
  <2>4. Ahead(due, clock') + idle' = Ahead(due, clock) + idle
    BY <1>1, <1>2, <2>2, <2>3
  <2> QED
    BY <2>2, <2>3, <2>4
<1> QED
  BY <1>4, <1>5, <1>6, <1>7

LEMMA TcpRegOnTime ==
  ASSUME Inv, OnTime, TcpReg
  PROVE  OnTime'
<1>1. UNCHANGED <<clock, now, running, due, idle, steps>> /\ now = Null
  BY DEF TcpReg
<1>2. CASE tcpip_tcp_timer_active
  <2>1. UNCHANGED <<next_timeout, waited>>
    BY <1>2 DEF TcpReg
  <2> QED
    BY <1>1, <2>1 DEF OnTime
<1>3. CASE ~tcpip_tcp_timer_active
  <2> SUFFICES ASSUME steps = 0 PROVE OnTime'
    BY <1>1 DEF OnTime
  <2> DEFINE time == After(clock, TcpInterval)
  <2>1. /\ SysTimeoutAbs(time, Tcp) /\ waited' = [waited EXCEPT ![Tcp] = 0]
    BY <1>3 DEF TcpReg, SysTimeout
  <2>2. ~Has(next_timeout, Tcp) /\ Tcp \in Timers /\ Interval(Tcp) = TcpInterval
    BY <1>3, InvParts DEF Places, Timers, Interval
  <2>3. /\ clock \in Time /\ idle \in Nat /\ MaxLate \in Nat
        /\ TcpInterval \in Nat /\ TcpInterval >= 1
        /\ TcpInterval + 2 * MaxLate <= LWIP_MAX_TIMEOUT + 1
    BY <2>2, ListFacts, HalfTurn
  <2>4. time \in Time
    BY <2>3, AfterIsTime
  <2>5. Ahead(time, clock) = TcpInterval
    <3>1. Ahead(clock, clock) = 0
      BY <2>3, AheadOfItself
    <3>2. 0 + TcpInterval <= LWIP_MAX_TIMEOUT + 1 /\ TcpInterval <= LWIP_MAX_TIMEOUT + 1
          /\ 0 + TcpInterval = TcpInterval
      BY <2>3, HalfTurn
    <3> QED
      BY <2>3, <3>1, <3>2, AheadLater
  <2> HIDE DEF time
  <2>6. Near(Ahead(time, clock)) /\ Ahead(time, clock) + idle > Least(now)
    BY <1>1, <2>3, <2>5, HalfTurn DEF Near, Least
  <2>7. /\ \A i \in 1 .. Len(next_timeout') :
             Entry(next_timeout'[i], clock', idle', waited', Least(now'))
        /\ Ordered(next_timeout', clock')
    <3>1. Ahead(time, clock) <= Interval(Tcp) /\ Ahead(time, clock) = Interval(Tcp)
      BY <2>2, <2>3, <2>5
    <3> QED
      BY <1>1, <2>1, <2>2, <2>4, <2>6, <3>1, TimeoutOnTime
  <2>8. now' = Null /\ running' = Null
    <3>1. running = Null
      BY <1>1 DEF OnTime
    <3> QED
      BY <1>1, <3>1
  <2> QED
    BY <2>7, <2>8 DEF OnTime
<1> QED
  BY <1>2, <1>3

LEMMA BeginPassOnTime ==
  ASSUME Inv, OnTime, BeginPass
  PROVE  OnTime'
<1>1. /\ UNCHANGED <<clock, next_timeout, running, due, steps, waited>>
      /\ now = Null /\ now' = clock /\ idle' = 0
  BY DEF BeginPass
<1> SUFFICES ASSUME steps = 0
             PROVE  OnTime'
  BY <1>1 DEF OnTime
<1>2. clock \in Time /\ idle \in Nat /\ idle <= MaxLate /\ MaxLate \in Nat
      /\ Ordered(next_timeout, clock)
  BY ListFacts
<1>3. clock # Null /\ Ahead(clock, clock) = 0
  BY <1>2, AheadOfItself, TimeoutsAssumption DEF Time
<1>4. running = Null
  BY <1>1, <1>3 DEF OnTime
<1>5. ASSUME NEW i \in 1 .. Len(next_timeout)
      PROVE  Entry(next_timeout[i], clock, 0, waited, -MaxLate)
  <2>1. /\ Entry(next_timeout[i], clock, idle, waited, 0)
        /\ Ahead(next_timeout[i].time, clock) \in Int
    BY <1>1, ListFacts DEF Least
  <2> QED
    BY <1>2, <2>1 DEF Entry
<1>6. Least(clock) = -MaxLate
  BY <1>3 DEF Least
<1>7. /\ Ahead(now', clock') + idle' = 0
      /\ \A i \in 1 .. Len(next_timeout') :
           Entry(next_timeout'[i], clock', idle', waited', Least(now'))
      /\ Ordered(next_timeout', clock') /\ running' = Null
  BY <1>1, <1>2, <1>3, <1>4, <1>5, <1>6
<1> QED
  BY <1>7 DEF OnTime

\* What sys_check_timeouts sees of the head of the list: whether it is due.
LEMMA ExpiredIs ==
  ASSUME Inv, steps = 0, OnTime, now # Null, next_timeout # <<>>
  PROVE  /\ 1 \in 1 .. Len(next_timeout) /\ Head(next_timeout) = next_timeout[1]
         /\ Expired <=> Ahead(next_timeout[1].time, clock) + idle <= 0
<1>1. 1 \in 1 .. Len(next_timeout) /\ Head(next_timeout) = next_timeout[1]
  BY ListFacts
<1> DEFINE a == Ahead(next_timeout[1].time, clock)
           b == Ahead(now, clock)
<1>2. /\ clock \in Time /\ idle \in Nat /\ idle <= MaxLate /\ MaxLate \in Nat
      /\ next_timeout[1].time \in Time /\ a \in Int /\ Near(a)
  BY <1>1, ListFacts
<1>3. now \in Time
  BY InvParts DEF Rest
<1>4. b + idle = 0 /\ b \in Int
  BY <1>2, <1>3, AheadFacts DEF OnTime
<1>5. b - a <= LWIP_MAX_TIMEOUT /\ a - b <= LWIP_MAX_TIMEOUT + 1
  <2> HIDE DEF a, b
  <2> QED
    BY <1>2, <1>4, HalfTurn DEF Near
<1>6. TIME_LESS_THAN(now, next_timeout[1].time) <=> b < a
  BY <1>2, <1>3, <1>5, LessThanIs
<1>7. b < a <=> ~(a + idle <= 0)
  <2> HIDE DEF a, b
  <2> QED
    BY <1>2, <1>4
<1> QED
  BY <1>1, <1>6, <1>7 DEF Expired

LEMMA ExpireOnTime ==
  ASSUME Inv, OnTime, Expire
  PROVE  OnTime'
<1>1. /\ UNCHANGED <<clock, now, steps, waited>>
      /\ now # Null /\ running = Null /\ Expired /\ next_timeout # <<>>
      /\ running' = Head(next_timeout).h /\ due' = Head(next_timeout).time
      /\ next_timeout' = Tail(next_timeout)
      /\ idle' = IF (clock - now) % Wrap > MaxLate THEN 0 ELSE idle
  BY DEF Expire, Expired
<1> SUFFICES ASSUME steps = 0
             PROVE  OnTime'
  BY <1>1 DEF OnTime
<1> DEFINE e == next_timeout[1]
<1>2. /\ 1 \in 1 .. Len(next_timeout) /\ Head(next_timeout) = e
      /\ Ahead(e.time, clock) + idle <= 0
  BY <1>1, ExpiredIs
<1>3. clock \in Time /\ idle \in Nat /\ idle <= MaxLate /\ MaxLate \in Nat
      /\ Ordered(next_timeout, clock) /\ next_timeout \in Seq(Timeout)
  BY ListFacts
<1>4. now \in Time /\ Ahead(now, clock) + idle = 0
  BY <1>1, InvParts DEF Rest, OnTime
<1>5. idle' = idle
  <2>1. /\ Ahead(now, clock) \in Int
        /\ \/ Ahead(now, clock) = now - clock
           \/ Ahead(now, clock) = (now - clock) + Wrap
           \/ Ahead(now, clock) = (now - clock) - Wrap
    BY <1>3, <1>4, AheadFacts
  <2>2. now \in Int /\ 0 <= now /\ now < Wrap /\ clock \in Int /\ 0 <= clock /\ clock < Wrap
    BY <1>3, <1>4, HalfTurn DEF Time
  <2>3. Ahead(now, clock) = -idle
    BY <1>3, <1>4, <2>1
  <2>4. clock - now = idle \/ clock - now = idle - Wrap
    BY <1>3, <2>1, <2>2, <2>3, HalfTurn
  <2>5. idle < Wrap /\ clock - now \in Int /\ -Wrap <= clock - now /\ clock - now < Wrap
        /\ clock - now < 2 * Wrap
    BY <1>3, <2>2, HalfTurn
  <2>6. (clock - now) % Wrap = IF clock - now < 0 THEN (clock - now) + Wrap ELSE clock - now
    BY <2>5, Turn
  <2>7. (clock - now) % Wrap = idle
    BY <1>3, <2>4, <2>5, <2>6, HalfTurn
  <2> QED
    BY <1>1, <1>3, <2>7
<1>6. /\ Entry(e, clock, idle, waited, -MaxLate)
      /\ e.h \in Timers
  BY <1>1, <1>2, ListFacts DEF Least
<1>7. /\ running' = e.h /\ due' = e.time
      /\ On(e.h, e.time, clock, waited) /\ Ahead(e.time, clock) + idle > -MaxLate
  BY <1>1, <1>2, <1>6 DEF Entry
<1>8. \A i \in 1 .. Len(next_timeout') :
        i + 1 \in 1 .. Len(next_timeout) /\ next_timeout'[i] = next_timeout[i + 1]
  BY <1>1, <1>3
<1>9. \A i \in 1 .. Len(next_timeout') : Entry(next_timeout'[i], clock, idle, waited, Least(now))
  BY <1>8, ListFacts
<1>10. Ordered(next_timeout', clock)
  BY <1>3, <1>8 DEF Ordered
<1>11. clock' = clock /\ now' = now /\ waited' = waited
  BY <1>1
<1>12. On(running', due', clock', waited')
  BY <1>7, <1>11
<1>13. Ahead(due', clock') + idle' <= 0 /\ Ahead(due', clock') + idle' > -MaxLate
  BY <1>2, <1>5, <1>7, <1>11
<1>14. \A i \in 1 .. Len(next_timeout') :
         Entry(next_timeout'[i], clock', idle', waited', Least(now'))
  BY <1>5, <1>9, <1>11
<1>15. Ordered(next_timeout', clock') /\ Ahead(now', clock') + idle' = 0 /\ now' # Null
  BY <1>1, <1>4, <1>5, <1>10, <1>11
<1> QED
  BY <1>12, <1>13, <1>14, <1>15 DEF OnTime

LEMMA EndPassOnTime ==
  ASSUME Inv, OnTime, EndPass
  PROVE  OnTime'
<1>1. /\ UNCHANGED <<clock, next_timeout, running, due, idle, steps, waited>>
      /\ now # Null /\ now' = Null /\ running = Null /\ ~Expired
  BY DEF EndPass
<1> SUFFICES ASSUME steps = 0
             PROVE  OnTime'
  BY <1>1 DEF OnTime
<1>2. idle \in Nat /\ Ordered(next_timeout, clock) /\ Len(next_timeout) \in Nat
  BY ListFacts
<1>3. ASSUME NEW i \in 1 .. Len(next_timeout)
      PROVE  Entry(next_timeout[i], clock, idle, waited, 0)
  <2>1. next_timeout # <<>>
    BY <1>2
  <2>2. 1 \in 1 .. Len(next_timeout) /\ ~(Ahead(next_timeout[1].time, clock) + idle <= 0)
    BY <1>1, <2>1, ExpiredIs
  <2>3. /\ Ahead(next_timeout[1].time, clock) \in Int
        /\ Ahead(next_timeout[i].time, clock) \in Int
        /\ Entry(next_timeout[i], clock, idle, waited, Least(now))
    BY <2>2, ListFacts
  <2>4. Ahead(next_timeout[1].time, clock) <= Ahead(next_timeout[i].time, clock)
    <3>1. i = 1 \/ 1 < i
      BY <1>2
    <3> QED
      BY <1>2, <2>2, <2>3, <3>1 DEF Ordered
  <2>5. Ahead(next_timeout[i].time, clock) + idle > 0
    BY <1>2, <2>2, <2>3, <2>4
  <2> QED
    BY <2>3, <2>5 DEF Entry
<1>4. Least(now') = 0
  BY <1>1 DEF Least
<1>5. /\ now' = Null /\ running' = Null /\ Ordered(next_timeout', clock')
      /\ \A i \in 1 .. Len(next_timeout') :
           Entry(next_timeout'[i], clock', idle', waited', Least(now'))
  BY <1>1, <1>2, <1>3, <1>4
<1> QED
  BY <1>5 DEF OnTime

\* lwip_cyclic_timer: the next time is a whole number of intervals after the first,
\* or the timer was a whole interval too late and starts afresh.
LEMMA CyclicTimerEndsOnTime ==
  ASSUME Inv, OnTime, CyclicTimerEnds
  PROVE  OnTime'
<1> DEFINE next == After(due, CyclicInterval)
           time == IF TIME_LESS_THAN(next, clock) THEN After(clock, CyclicInterval) ELSE next
<1>1. /\ running \in Cyclic /\ SysTimeoutAbs(time, running)
      /\ running' = Null /\ waited' = [waited EXCEPT ![running] = 0]
      /\ UNCHANGED <<clock, now, idle, steps>>
  BY DEF CyclicTimerEnds
<1> SUFFICES ASSUME steps = 0
             PROVE  OnTime'
  BY <1>1 DEF OnTime
<1>2. running \in Timers /\ running # Null /\ running # Tcp
      /\ Interval(running) = CyclicInterval /\ ~Has(next_timeout, running)
  BY <1>1, InvParts, TimeoutsAssumption DEF Places, Timers, Interval
<1>3. /\ clock \in Time /\ due \in Time /\ idle \in Nat /\ idle <= MaxLate /\ MaxLate \in Nat
  BY ListFacts, InvParts DEF Rest
<1>4. /\ CyclicInterval \in Nat /\ CyclicInterval >= 1 /\ LWIP_MAX_TIMEOUT \in Nat
      /\ CyclicInterval + 2 * MaxLate <= LWIP_MAX_TIMEOUT + 1
      /\ CyclicInterval <= LWIP_MAX_TIMEOUT + 1
  <2>1. /\ CyclicInterval \in Nat /\ CyclicInterval >= 1 /\ LWIP_MAX_TIMEOUT \in Nat
        /\ CyclicInterval + 2 * MaxLate <= LWIP_MAX_TIMEOUT + 1
    BY <1>2, HalfTurn
  <2> QED
    BY <1>3, <2>1
<1>5. /\ now # Null /\ Ahead(due, clock) \in Int
      /\ Ahead(due, clock) <= 0 /\ Ahead(due, clock) + idle <= 0
      /\ Ahead(due, clock) + idle > -MaxLate
  BY <1>2, InvParts, DueFacts
<1>6. next \in Time /\ After(clock, CyclicInterval) \in Time
  BY <1>3, <1>4, AfterIsTime
<1>7. Ahead(next, clock) = Ahead(due, clock) + CyclicInterval
  <2>1. Ahead(due, clock) + CyclicInterval <= LWIP_MAX_TIMEOUT + 1
    BY <1>4, <1>5
  <2> QED
    BY <1>3, <1>4, <2>1, AheadLater
<1>8. Ahead(After(clock, CyclicInterval), clock) = CyclicInterval
  <2>1. Ahead(clock, clock) = 0 /\ 0 + CyclicInterval = CyclicInterval
    BY <1>3, <1>4, AheadOfItself
  <2> QED
    BY <1>3, <1>4, <2>1, AheadLater
<1>9. time \in Time /\ Ahead(time, clock) \in {CyclicInterval, Ahead(due, clock) + CyclicInterval}
  BY <1>6, <1>7, <1>8
<1> HIDE DEF time, next
<1>10. /\ Ahead(time, clock) \in Int /\ Ahead(time, clock) <= CyclicInterval
       /\ Ahead(time, clock) + idle > -MaxLate /\ Ahead(time, clock) > -(2 * MaxLate)
  BY <1>3, <1>4, <1>5, <1>9
<1>11. Near(Ahead(time, clock)) /\ Ahead(time, clock) + idle > Least(now)
  BY <1>3, <1>4, <1>5, <1>10 DEF Near, Least
<1>12. /\ \A i \in 1 .. Len(next_timeout') :
            Entry(next_timeout'[i], clock', idle', waited', Least(now'))
       /\ Ordered(next_timeout', clock')
  BY <1>1, <1>2, <1>9, <1>10, <1>11, TimeoutOnTime
<1>13. now' # Null => Ahead(now', clock') + idle' = 0
  BY <1>1 DEF OnTime
<1> QED
  BY <1>1, <1>12, <1>13 DEF OnTime

LEMMA TcpTimerEndsOnTime ==
  ASSUME Inv, OnTime, TcpTimerEnds
  PROVE  OnTime'
<1>1. /\ running = Tcp /\ running' = Null /\ waited' = [waited EXCEPT ![Tcp] = 0]
      /\ UNCHANGED <<clock, now, idle, steps>>
  BY DEF TcpTimerEnds
<1> SUFFICES ASSUME steps = 0
             PROVE  OnTime'
  BY <1>1 DEF OnTime
<1>2. Tcp \in Timers /\ Tcp # Null /\ Interval(Tcp) = TcpInterval /\ ~Has(next_timeout, Tcp)
  BY <1>1, InvParts, TimeoutsAssumption DEF Places, Timers, Interval
<1>3. /\ clock \in Time /\ idle \in Nat /\ idle <= MaxLate /\ MaxLate \in Nat
      /\ waited \in [Timers -> Nat] /\ Ordered(next_timeout, clock)
  BY ListFacts
<1>4. /\ TcpInterval \in Nat /\ TcpInterval >= 1 /\ LWIP_MAX_TIMEOUT \in Nat
      /\ TcpInterval + 2 * MaxLate <= LWIP_MAX_TIMEOUT + 1
      /\ TcpInterval <= LWIP_MAX_TIMEOUT + 1
  <2>1. /\ TcpInterval \in Nat /\ TcpInterval >= 1 /\ LWIP_MAX_TIMEOUT \in Nat
        /\ TcpInterval + 2 * MaxLate <= LWIP_MAX_TIMEOUT + 1
    BY <1>2, HalfTurn
  <2> QED
    BY <1>3, <2>1
<1>5. now' # Null => Ahead(now', clock') + idle' = 0
  BY <1>1 DEF OnTime
<1>6. CASE pcbs
  <2> DEFINE time == After(clock, TcpInterval)
  <2>1. SysTimeoutAbs(time, Tcp)
    BY <1>6 DEF TcpTimerEnds, SysTimeout
  <2>2. time \in Time
    BY <1>3, <1>4, AfterIsTime
  <2>3. Ahead(time, clock) = TcpInterval
    <3>1. Ahead(clock, clock) = 0 /\ 0 + TcpInterval = TcpInterval
      BY <1>3, <1>4, AheadOfItself
    <3> QED
      BY <1>3, <1>4, <3>1, AheadLater
  <2> HIDE DEF time
  <2>4. Near(Ahead(time, clock)) /\ Ahead(time, clock) + idle > Least(now)
    BY <1>3, <1>4, <2>3 DEF Near, Least
  <2>5. Ahead(time, clock) <= Interval(Tcp) /\ Ahead(time, clock) = Interval(Tcp)
    BY <1>2, <1>4, <2>3
  <2>6. /\ \A i \in 1 .. Len(next_timeout') :
             Entry(next_timeout'[i], clock', idle', waited', Least(now'))
        /\ Ordered(next_timeout', clock')
    BY <1>1, <1>2, <2>1, <2>2, <2>4, <2>5, TimeoutOnTime
  <2> QED
    BY <1>1, <1>5, <2>6 DEF OnTime
<1>7. CASE ~pcbs
  <2>1. next_timeout' = next_timeout
    BY <1>7 DEF TcpTimerEnds
  <2>2. ASSUME NEW i \in 1 .. Len(next_timeout)
        PROVE  Entry(next_timeout[i], clock, idle, waited', Least(now))
    <3>1. /\ Entry(next_timeout[i], clock, idle, waited, Least(now))
          /\ next_timeout[i].h \in Timers
      BY ListFacts
    <3>2. next_timeout[i].h # Tcp
      BY <1>2 DEF Has
    <3>3. waited'[next_timeout[i].h] = waited[next_timeout[i].h]
      BY <1>1, <1>3, <3>1, <3>2
    <3> QED
      BY <3>1, <3>3 DEF Entry, On
  <2>3. /\ \A i \in 1 .. Len(next_timeout') :
             Entry(next_timeout'[i], clock', idle', waited', Least(now'))
        /\ Ordered(next_timeout', clock')
    BY <1>1, <1>3, <2>1, <2>2
  <2> QED
    BY <1>1, <1>5, <2>3 DEF OnTime
<1> QED
  BY <1>6, <1>7

LEMMA InitOnTime == Init => OnTime
<1> SUFFICES ASSUME Init PROVE OnTime
  OBVIOUS
<1>1. /\ clock \in Time /\ now = Null /\ running = Null /\ idle = 0
      /\ waited = [t \in Timers |-> 0]
  BY DEF Init
<1> DEFINE time == After(clock, CyclicInterval)
<1>2. Len(next_timeout) = Len(lwip_cyclic_timers)
      /\ \A i \in 1 .. Len(next_timeout) :
           next_timeout[i].h \in Cyclic /\ next_timeout[i].time = time
  <2>1. Len(lwip_cyclic_timers) \in Nat
    BY TimeoutsAssumption
  <2>2. Inv
    BY InitInv
  <2>3. next_timeout \in Seq(Timeout)
    BY <2>2, InvParts DEF Places
  <2>4. next_timeout = [i \in 1 .. Len(lwip_cyclic_timers) |->
                          [h |-> lwip_cyclic_timers[i], time |-> time]]
    BY DEF Init
  <2>5. Len(next_timeout) = Len(lwip_cyclic_timers)
    <3> HIDE DEF time
    <3>1. DOMAIN next_timeout = 1 .. Len(next_timeout) /\ Len(next_timeout) \in Nat
      BY <2>3, LenProperties
    <3>2. DOMAIN next_timeout = 1 .. Len(lwip_cyclic_timers)
      BY <2>4
    <3> QED
      BY <2>1, <3>1, <3>2
  <2> HIDE DEF time
  <2> QED
    BY <2>4, <2>5 DEF Cyclic
<1>3. CyclicInterval \in Nat /\ Tcp \notin Cyclic
  BY TimeoutsAssumption
<1>4. ASSUME NEW i \in 1 .. Len(next_timeout)
      PROVE  Entry(next_timeout[i], clock, 0, waited, 0) /\ Ahead(next_timeout[i].time, clock) = CyclicInterval
  <2> DEFINE t == next_timeout[i].h
  <2>1. t \in Timers /\ t # Tcp /\ waited[t] = 0 /\ Interval(t) = CyclicInterval
    BY <1>1, <1>2, <1>3 DEF Timers, Interval
  <2>2. CyclicInterval >= 1 /\ CyclicInterval + 2 * MaxLate <= LWIP_MAX_TIMEOUT + 1
    BY <2>1, HalfTurn
  <2>3. CyclicInterval <= LWIP_MAX_TIMEOUT + 1
    BY <1>3, <2>2, HalfTurn
  <2>4. Ahead(time, clock) = CyclicInterval
    <3>1. Ahead(clock, clock) = 0 /\ 0 + CyclicInterval = CyclicInterval
      BY <1>1, <1>3, AheadOfItself
    <3> QED
      BY <1>1, <1>3, <2>3, <3>1, AheadLater
  <2>5. Ahead(next_timeout[i].time, clock) = CyclicInterval
    BY <1>2, <2>4
  <2> HIDE DEF t
  <2>6. On(t, next_timeout[i].time, clock, waited)
    BY <1>3, <2>1, <2>5 DEF On
  <2>7. Ahead(next_timeout[i].time, clock) + 0 > 0
    BY <1>3, <2>2, <2>5
  <2> QED
    BY <2>5, <2>6, <2>7 DEF Entry, t
<1>5. Ordered(next_timeout, clock)
  BY <1>3, <1>4 DEF Ordered
<1> QED
  BY <1>1, <1>4, <1>5 DEF OnTime, Least

LEMMA NextOnTime == Inv /\ OnTime /\ [Next]_vars => OnTime'
<1> SUFFICES ASSUME Inv, OnTime, [Next]_vars PROVE OnTime'
  OBVIOUS
<1>1. CASE SetClock
  <2>1. steps \in Nat /\ steps' = steps + 1
    BY <1>1, InvParts, TimeoutsAssumption DEF SetClock, Rest
  <2> QED
    BY <2>1 DEF OnTime
<1>2. CASE TcpRmv
  BY <1>2 DEF TcpRmv, OnTime
<1>3. CASE UNCHANGED vars
  BY <1>3 DEF vars, OnTime
<1> QED
  BY <1>1, <1>2, <1>3, TickOnTime, TcpRegOnTime, BeginPassOnTime, ExpireOnTime,
     CyclicTimerEndsOnTime, TcpTimerEndsOnTime, EndPassOnTime DEF Next, TimerTask

\* A timer that is on is in the list, or its handler is being run.
LEMMA OnTimePunctual ==
  ASSUME Inv, OnTime
  PROVE  Punctual
<1> SUFFICES ASSUME steps = 0
             PROVE  /\ \A t \in Timers : (t = Tcp => tcpip_tcp_timer_active)
                                           => waited[t] < Interval(t) + 2 * MaxLate
                    /\ running = Tcp => waited[Tcp] >= TcpInterval
  BY DEF Punctual
<1>1. Rest
  BY InvParts
<1>2. ASSUME NEW t \in Timers, t = Tcp => tcpip_tcp_timer_active
      PROVE  waited[t] < Interval(t) + 2 * MaxLate
  <2>1. Has(next_timeout, t) \/ running = t
    BY <1>2, InvParts DEF Places, Timers
  <2>2. CASE Has(next_timeout, t)
    <3>1. PICK i \in 1 .. Len(next_timeout) : next_timeout[i].h = t
      BY <2>2 DEF Has
    <3>2. waited[next_timeout[i].h] < Interval(next_timeout[i].h) + 2 * MaxLate
      BY ListFacts
    <3> QED
      BY <3>1, <3>2
  <2>3. CASE running = t
    <3>1. running # Null
      BY <2>3, TimeoutsAssumption
    <3>2. waited[running] < Interval(running) + 2 * MaxLate
      BY <1>1, <3>1, DueFacts
    <3> QED
      BY <2>3, <3>2
  <2> QED
    BY <2>1, <2>2, <2>3
<1>3. ASSUME running = Tcp PROVE waited[Tcp] >= TcpInterval
  <2>1. Tcp \in Timers /\ Tcp # Null /\ Interval(Tcp) = TcpInterval
    BY TimeoutsAssumption DEF Timers, Interval
  <2>2. /\ Ahead(due, clock) \in Int /\ Ahead(due, clock) <= 0
        /\ On(Tcp, due, clock, waited)
    BY <1>1, <1>3, <2>1, DueFacts
  <2>3. waited[Tcp] + Ahead(due, clock) = TcpInterval
    BY <2>1, <2>2 DEF On
  <2>4. waited[Tcp] \in Nat /\ TcpInterval \in Nat
    BY <1>1, <2>1, TimeoutsAssumption DEF Rest
  <2> QED
    BY <2>2, <2>3, <2>4
<1> QED
  BY <1>2, <1>3

\* With a clock that nobody sets, wherever it wraps and however late the timer
\* task is, within half a turn of the clock: no timer that is on waits for two
\* delays more than its interval, and tcp_tmr is never run early; for any
\* timers, intervals and delays.
THEOREM TimersArePunctual == Spec => []Punctual
<1>1. Inv /\ OnTime => Punctual
  BY OnTimePunctual
<1>2. Spec => [](Inv /\ OnTime)
  BY InitInv, InitOnTime, NextInv, NextOnTime, PTL DEF Spec
<1> QED
  BY <1>1, <1>2, PTL
===============================================================================
