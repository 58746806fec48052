------------------------------- MODULE Timeouts -------------------------------
(***************************************************************************)
(* src/src/lwip/core/timeouts.c, the clock of custom/sys_arch.c and the    *)
(* timer tasks of stack.rs.  The list of timeouts is ordered by absolute   *)
(* times of a clock that wraps.  A timer task holds LWIP_MUTEX during a    *)
(* pass of sys_check_timeouts, while time goes on; the TCP timer is        *)
(* switched on by whoever registers a pcb and off by itself.  The clock is *)
(* gettimeofday's: somebody may set it.                                    *)
(***************************************************************************)
EXTENDS Integers, Sequences, FiniteSets

CONSTANTS
  lwip_cyclic_timers,  \* sequence: ip_reass_tmr, nd6_tmr, ip6_reass_tmr
  Tcp,                 \* tcpip_tcp_timer
  CyclicInterval,      \* 1000 ms for each cyclic timer of this configuration
  TcpInterval,         \* 250 ms
  Wrap,                \* the clock counts modulo Wrap, which is 2^32
  MaxLate,             \* bound: ticks from the start of a pass to the next one's
  MaxSteps,            \* bound: how many times the clock is set
  Null

Cyclic == {lwip_cyclic_timers[i] : i \in 1 .. Len(lwip_cyclic_timers)}
Timers == Cyclic \cup {Tcp}
Interval(t) == IF t = Tcp THEN TcpInterval ELSE CyclicInterval

LWIP_MAX_TIMEOUT == (Wrap \div 2) - 1

\* One element of MEMP_SYS_TIMEOUT for each timer.
MEMP_NUM_SYS_TIMEOUT == Len(lwip_cyclic_timers) + 1

\* Passes are never 24 days apart: half a turn of the clock holds the longest
\* interval and the longest delay.
ASSUME TimeoutsAssumption ==
  /\ Wrap \in Nat \ {0} /\ MaxLate \in Nat /\ MaxSteps \in Nat
  /\ CyclicInterval \in Nat \ {0} /\ TcpInterval \in Nat \ {0}
  /\ \A t \in Timers : Interval(t) + 2 * MaxLate <= LWIP_MAX_TIMEOUT + 1
  /\ lwip_cyclic_timers \in Seq(Cyclic)
  /\ \A i, j \in 1 .. Len(lwip_cyclic_timers) :
       lwip_cyclic_timers[i] = lwip_cyclic_timers[j] => i = j
  /\ Tcp \notin Cyclic /\ Null \notin Timers \cup (0 .. Wrap - 1)

VARIABLES
  clock,         \* sys_now()
  next_timeout,  \* the list: handler and time of each timeout
  tcpip_tcp_timer_active,
  pcbs,          \* whether tcp_active_pcbs or tcp_tw_pcbs is not empty
  now,           \* Null, or what sys_check_timeouts read when its pass began
  running,       \* the timer whose handler is being run, or Null
  due,           \* current_timeout_due_time, kept while a handler is being run
  idle,          \* ticks since the last pass began or, when the clock was set
                 \* during it, since it called a handler
  steps,         \* how many times the clock was set
  waited         \* of each timer: ticks since its handler ended or it was switched
                 \* on; kept until the clock is set

vars == <<clock, next_timeout, tcpip_tcp_timer_active, pcbs, now, running, due,
          idle, steps, waited>>

Time == 0 .. Wrap - 1
Timeout == [h : Timers, time : Time]

\* Mutant of TIME_LESS_THAN: compared as if the clock never wrapped.
TimeLessThanPlain(t, compare_to) == t < compare_to

TIME_LESS_THAN(t, compare_to) == (t - compare_to) % Wrap > LWIP_MAX_TIMEOUT

\* Mutant of After: not cut to 32 bits.
AfterUncut(time, msecs) == time + msecs

After(time, msecs) == (time + msecs) % Wrap

\* Bound on waited, past all that Punctual allows.
Cap(t) == Interval(t) + 2 * MaxLate + 1

Init ==
  /\ clock \in Time
  /\ next_timeout = [i \in 1 .. Len(lwip_cyclic_timers) |->
       [h |-> lwip_cyclic_timers[i], time |-> After(clock, CyclicInterval)]]
  /\ tcpip_tcp_timer_active = FALSE /\ pcbs = FALSE
  /\ now = Null /\ running = Null /\ due = 0
  /\ idle = 0 /\ steps = 0
  /\ waited = [t \in Timers |-> 0]

-------------------------------------------------------------------------------
\* The place of a timeout in the list: before the first one that is later, or
\* at the end.
Position(list, time) ==
  LET later == {i \in 1 .. Len(list) : TIME_LESS_THAN(time, list[i].time)}
  IN  IF later = {} THEN Len(list) + 1
      ELSE CHOOSE i \in later : \A j \in later : i <= j

Inserted(list, i, e) ==
  [j \in 1 .. Len(list) + 1 |->
     IF j < i THEN list[j] ELSE IF j = i THEN e ELSE list[j - 1]]

\* sys_timeout_abs: with an empty pool nothing is queued.
SysTimeoutAbs(time, t) ==
  next_timeout' =
    IF Len(next_timeout) = MEMP_NUM_SYS_TIMEOUT THEN next_timeout
    ELSE Inserted(next_timeout, Position(next_timeout, time), [h |-> t, time |-> time])

SysTimeout(msecs, t) == SysTimeoutAbs(After(clock, msecs), t)

\* Time passes, during handlers too.
Tick ==
  /\ idle < MaxLate
  /\ clock' = After(clock, 1)
  /\ idle' = idle + 1
  /\ waited' = [t \in Timers |->
       IF steps # 0 THEN 0 ELSE IF waited[t] < Cap(t) THEN waited[t] + 1 ELSE Cap(t)]
  /\ UNCHANGED <<next_timeout, tcpip_tcp_timer_active, pcbs, now, running, due, steps>>

\* The user, or NTP, sets the clock.
SetClock ==
  /\ steps < MaxSteps
  /\ steps' = steps + 1
  /\ clock' \in Time
  /\ waited' = [t \in Timers |-> 0]
  /\ UNCHANGED <<next_timeout, tcpip_tcp_timer_active, pcbs, now, running, due, idle>>

\* TCP_REG, under the lock, then tcp_timer_needed.
TcpReg ==
  /\ now = Null
  /\ pcbs' = TRUE
  /\ IF tcpip_tcp_timer_active
     THEN UNCHANGED <<next_timeout, tcpip_tcp_timer_active, waited>>
     ELSE /\ tcpip_tcp_timer_active' = TRUE
          /\ SysTimeout(TcpInterval, Tcp)
          /\ waited' = [waited EXCEPT ![Tcp] = 0]
  /\ UNCHANGED <<clock, now, running, due, idle, steps>>

\* The last pcb goes, in a critical section of somebody else or in a handler.
TcpRmv ==
  /\ now = Null \/ running # Null
  /\ pcbs /\ pcbs' = FALSE
  /\ UNCHANGED <<clock, next_timeout, tcpip_tcp_timer_active, now, running, due,
                 idle, steps, waited>>

-------------------------------------------------------------------------------
\* sys_check_timeouts
BeginPass ==
  /\ now = Null
  /\ now' = clock /\ idle' = 0
  /\ UNCHANGED <<clock, next_timeout, tcpip_tcp_timer_active, pcbs, running, due,
                 steps, waited>>

\* Mutant of Expired: only at the very time.
ExpiredExactly == next_timeout # <<>> /\ now = Head(next_timeout).time

Expired == next_timeout # <<>> /\ ~TIME_LESS_THAN(now, Head(next_timeout).time)

\* The timeout is taken off the list and freed before its handler is called.  A
\* pass during which the clock is set may call many.
Expire ==
  /\ now # Null /\ running = Null /\ Expired
  /\ running' = Head(next_timeout).h
  /\ due' = Head(next_timeout).time
  /\ next_timeout' = Tail(next_timeout)
  /\ idle' = IF (clock - now) % Wrap > MaxLate THEN 0 ELSE idle
  /\ UNCHANGED <<clock, tcpip_tcp_timer_active, pcbs, now, steps, waited>>

\* The end of lwip_cyclic_timer: a whole interval too late, it starts afresh.
CyclicTimerEnds ==
  /\ running \in Cyclic
  /\ LET next == After(due, CyclicInterval)
     IN  SysTimeoutAbs(IF TIME_LESS_THAN(next, clock)
                       THEN After(clock, CyclicInterval) ELSE next, running)
  /\ running' = Null /\ due' = 0
  /\ waited' = [waited EXCEPT ![running] = 0]
  /\ UNCHANGED <<clock, tcpip_tcp_timer_active, pcbs, now, idle, steps>>

\* Mutant of TcpTimerEnds: the flag is not cleared.
TcpTimerEndsFlagged ==
  /\ running = Tcp
  /\ IF pcbs THEN SysTimeout(TcpInterval, Tcp) ELSE UNCHANGED next_timeout
  /\ running' = Null /\ due' = 0
  /\ waited' = [waited EXCEPT ![Tcp] = 0]
  /\ UNCHANGED <<clock, tcpip_tcp_timer_active, pcbs, now, idle, steps>>

\* The end of tcpip_tcp_timer, after tcp_tmr.
TcpTimerEnds ==
  /\ running = Tcp
  /\ IF pcbs THEN SysTimeout(TcpInterval, Tcp) ELSE UNCHANGED next_timeout
  /\ tcpip_tcp_timer_active' = pcbs
  /\ running' = Null /\ due' = 0
  /\ waited' = [waited EXCEPT ![Tcp] = 0]
  /\ UNCHANGED <<clock, pcbs, now, idle, steps>>

EndPass ==
  /\ now # Null /\ running = Null /\ ~Expired
  /\ now' = Null
  /\ UNCHANGED <<clock, next_timeout, tcpip_tcp_timer_active, pcbs, running, due,
                 idle, steps, waited>>

TimerTask == BeginPass \/ Expire \/ CyclicTimerEnds \/ TcpTimerEnds \/ EndPass

Next == Tick \/ SetClock \/ TcpReg \/ TcpRmv \/ TimerTask

\* Time passes, and the timer tasks loop for ever (stack.rs).
Spec == Init /\ [][Next]_vars /\ WF_vars(Tick) /\ WF_vars(TimerTask)

-------------------------------------------------------------------------------
\* The list, the pass in progress and the counters keep their types.
TypeOK ==
  /\ clock \in Time /\ due \in Time
  /\ next_timeout \in Seq(Timeout) /\ Len(next_timeout) <= MEMP_NUM_SYS_TIMEOUT
  /\ tcpip_tcp_timer_active \in BOOLEAN /\ pcbs \in BOOLEAN
  /\ now \in Time \cup {Null} /\ running \in Timers \cup {Null}
  /\ idle \in 0 .. MaxLate /\ steps \in 0 .. MaxSteps
  /\ waited \in [Timers -> Nat]

Queued(t) == \E i \in 1 .. Len(next_timeout) : next_timeout[i].h = t

\* However the clock behaves, no timer is lost or queued twice: each one that is
\* switched on is in the list once, or its handler is being run; and with a pcb
\* in the lists the TCP timer is on.  The pool therefore never runs out.
EachTimerOnce ==
  /\ \A i, j \in 1 .. Len(next_timeout) :
       next_timeout[i].h = next_timeout[j].h => i = j
  /\ \A t \in Cyclic : Queued(t) <=> running # t
  /\ (Queued(Tcp) \/ running = Tcp) <=> tcpip_tcp_timer_active
  /\ ~(Queued(Tcp) /\ running = Tcp)
  /\ pcbs => tcpip_tcp_timer_active

\* With a clock that nobody sets, wherever it wraps: a timer that is on is run
\* no later than two delays of the timer task after its interval is over, so
\* that the order of the list never holds one back behind a later one; and
\* tcp_tmr, whose ticks count timeouts, is never run before.
Punctual ==
  steps = 0 =>
    /\ \A t \in Timers : (t = Tcp => tcpip_tcp_timer_active)
                          => waited[t] < Interval(t) + 2 * MaxLate
    /\ running = Tcp => waited[Tcp] >= TcpInterval

\* Setting the clock delays timers, for up to half a turn of it, but stops none
\* for ever, nor does a pass that sees the clock go back loop for ever.
TimersRun ==
  /\ \A t \in Cyclic : []<>(running = t)
  /\ []<>(running = Tcp \/ ~tcpip_tcp_timer_active)
  /\ []<>(now = Null)
===============================================================================
