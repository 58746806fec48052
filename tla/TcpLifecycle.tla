----------------------------- MODULE TcpLifecycle -----------------------------
(***************************************************************************)
(* The life of the TCP protocol control blocks of lwIP (tcp.c, tcp_in.c)   *)
(* together with the Rust objects that hold raw pointers to them           *)
(* (tcp_listener.rs, tcp_stream.rs).                                       *)
(*                                                                         *)
(* A TcpStream keeps the address of its pcb and the pcb keeps the address  *)
(* of the stream's callback context; lwIP frees pcbs from timers, from     *)
(* segments and when another connection needs the memory, the application  *)
(* drops streams and listeners whenever it likes.  Every action is one     *)
(* critical section under LWIP_MUTEX.                                      *)
(*                                                                         *)
(* A segment is reduced to what decides the control flow: its flags, and   *)
(* whether it acknowledges everything sent.  Ages count slow-timer ticks   *)
(* since the pcb last heard from its peer.                                 *)
(***************************************************************************)
EXTENDS Integers, Sequences, FiniteSets

CONSTANTS
  Pcbs,          \* the elements of MEMP_TCP_PCB
  Streams,       \* heap addresses of TcpStream boxes
  Listeners,     \* heap addresses of TcpListener boxes
  Conns,         \* address and port pairs of the peers
  Null,
  MaxListen,     \* MEMP_NUM_TCP_PCB_LISTEN
  SynRcvdTicks,  \* TCP_SYN_RCVD_TIMEOUT in slow ticks
  MslTicks,      \* 2 * TCP_MSL in slow ticks
  RtxTicks,      \* silent ticks after which TCP_MAXRTX retransmissions are over
  PromptDrop     \* the application drops a fully closed stream before its pcb goes

ASSUME NullAssumption ==
  Null \notin Pcbs \cup Streams \cup Listeners \cup Conns
ASSUME NamesAssumption ==
  /\ Streams \cap Listeners = {}
  /\ {"none", "app"} \cap Listeners = {}
ASSUME BoundsAssumption ==
  /\ MaxListen \in Nat \ {0}
  /\ SynRcvdTicks \in Nat /\ MslTicks \in Nat /\ RtxTicks \in Nat
  /\ PromptDrop \in BOOLEAN

VARIABLES
  pcb,           \* struct tcp_pcb, by memp element
  stream,        \* TcpStream with its TcpStreamContext, by address
  lpcbs,         \* tcp_listen_pcbs, newest first
  timer_active,  \* tcpip_tcp_timer_active
  tcp_timer      \* the low bit of tcp_timer

vars == <<pcb, stream, lpcbs, timer_active, tcp_timer>>

States == {"FREE", "CLOSED", "SYN_RCVD", "ESTABLISHED", "FIN_WAIT_1", "FIN_WAIT_2",
           "CLOSE_WAIT", "CLOSING", "LAST_ACK", "TIME_WAIT"}

\* Older than every limit: the counter is cut there.
MaxAge == SynRcvdTicks + MslTicks + RtxTicks

\* cbs: recv, sent, err and poll are set to the stream's callbacks.
Pcb == [state : States, list : {"none", "bound", "active", "tw"},
        arg : Streams \cup Listeners \cup {Null}, cbs : BOOLEAN,
        listener : Listeners \cup {Null}, closepend : BOOLEAN,
        conn : Conns \cup {Null}, age : 0 .. MaxAge]

\* holder: nobody, the application, or the queue of a listener.
Stream == [holder : {"none", "app"} \cup Listeners, pcb : Pcbs \cup {Null},
           errored : BOOLEAN, closed : BOOLEAN, eof : BOOLEAN]

FreePcb == [state |-> "FREE", list |-> "none", arg |-> Null, cbs |-> FALSE,
            listener |-> Null, closepend |-> FALSE, conn |-> Null, age |-> 0]

NoStream == [holder |-> "none", pcb |-> Null, errored |-> FALSE, closed |-> FALSE,
             eof |-> FALSE]

\* A listener whose lpcb is still in tcp_listen_pcbs.
Listening(l) == \E i \in DOMAIN lpcbs : lpcbs[i] = l

Live(s) == stream[s].holder # "none"

Init ==
  /\ pcb = [p \in Pcbs |-> FreePcb]
  /\ stream = [s \in Streams |-> NoStream]
  /\ lpcbs = <<>>
  /\ timer_active = FALSE
  /\ tcp_timer = FALSE

-------------------------------------------------------------------------------
(* Pieces of the handlers, as functions of a pcb table P and a stream table S. *)

\* Mutant of ErrCb: the err callback is not invoked.
ErrCbSkipped(P, S, D) == S

\* TCP_EVENT_ERR for the pcbs of D: tcp_err_cb marks their streams.
ErrCb(P, S, D) ==
  [s \in Streams |-> IF \E p \in D : P[p].cbs /\ P[p].arg = s
                     THEN [S[s] EXCEPT !.errored = TRUE] ELSE S[s]]

\* tcp_pcb_remove and tcp_free.
Freed(P, D) == [p \in Pcbs |-> IF p \in D THEN FreePcb ELSE P[p]]

\* tcp_abort: tcp_abandon takes the pcb out of its list and frees it.
Aborted(P, p) == Freed(P, {p})

\* Mutant of EofCb: the end of file is not queued.
EofCbLost(p) == stream

\* TCP_EVENT_CLOSED: tcp_recv_cb with no pbuf queues the end of file.
EofCb(p) == [s \in Streams |-> IF pcb[p].cbs /\ pcb[p].arg = s
                               THEN [stream[s] EXCEPT !.eof = TRUE] ELSE stream[s]]

\* Mutant of CloseShutdownFin: without memory for the FIN nothing is remembered.
CloseShutdownFinForgets(q, ok) ==
  IF ~ok \/ q.state \notin {"SYN_RCVD", "ESTABLISHED", "CLOSE_WAIT"} THEN q
  ELSE [q EXCEPT !.state = IF @ = "CLOSE_WAIT" THEN "LAST_ACK" ELSE "FIN_WAIT_1"]

\* tcp_close_shutdown_fin: ok tells whether tcp_send_fin found memory.
CloseShutdownFin(q, ok) ==
  IF q.state \notin {"SYN_RCVD", "ESTABLISHED", "CLOSE_WAIT"} THEN q
  ELSE IF ~ok THEN [q EXCEPT !.closepend = TRUE]
  ELSE [q EXCEPT !.state = IF @ = "CLOSE_WAIT" THEN "LAST_ACK" ELSE "FIN_WAIT_1"]

ClosePending(P) == {p \in Pcbs : P[p].list = "active" /\ P[p].closepend}

\* Mutant of HandleClosepend: one retry only, the flag is not set again.
HandleClosependOnce(P, ok) ==
  [p \in Pcbs |-> IF p \notin ClosePending(P) THEN P[p]
                  ELSE IF p \in ok THEN CloseShutdownFin([P[p] EXCEPT !.closepend = FALSE], TRUE)
                  ELSE [P[p] EXCEPT !.closepend = FALSE]]

\* The loop over TF_CLOSEPEND of tcp_handle_closepend and of tcp_fasttmr; the
\* pcbs of ok find memory for their FIN.
HandleClosepend(P, ok) ==
  [p \in Pcbs |-> IF p \in ClosePending(P)
                  THEN CloseShutdownFin([P[p] EXCEPT !.closepend = FALSE], p \in ok)
                  ELSE P[p]]

Oldest(P, D) == {p \in D : \A q \in D : P[p].age >= P[q].age}

\* What tcp_alloc kills when the pool is empty: tcp_kill_timewait, then
\* tcp_kill_state(LAST_ACK), then tcp_kill_state(CLOSING).  tcp_kill_prio finds
\* nobody, since every pcb has the same priority.
Victims(P) ==
  LET In(st) == {p \in Pcbs : P[p].state = st}
  IN IF In("TIME_WAIT") # {} THEN Oldest(P, In("TIME_WAIT"))
     ELSE IF In("LAST_ACK") # {} THEN Oldest(P, In("LAST_ACK"))
     ELSE Oldest(P, In("CLOSING"))

\* Some stream that would still use pcb p without locking itself out first.
HeldBy(S, p) == \E s \in Streams : S[s].holder # "none" /\ ~S[s].errored /\ S[s].pcb = p

\* The assumption PromptDrop makes about the application.
MayReclaim(p) == PromptDrop => ~HeldBy(stream, p)

\* tcp_alloc: the slot it returns and the tables it leaves behind.
TcpAlloc ==
  LET free == {p \in Pcbs : pcb[p].state = "FREE"}
      After(ok) ==
        LET Q == HandleClosepend(pcb, ok)
        IN IF Victims(Q) = {} THEN {[slot |-> Null, pcb |-> Q, stream |-> stream]}
           ELSE {[slot |-> v, pcb |-> Freed(Q, {v}),
                  stream |-> IF Q[v].state = "TIME_WAIT" THEN stream
                             ELSE ErrCb(Q, stream, {v})] :
                 v \in {w \in Victims(Q) : Q[w].state = "TIME_WAIT" => MayReclaim(w)}}
  IN IF free # {} THEN {[slot |-> p, pcb |-> pcb, stream |-> stream] : p \in free}
     ELSE UNION {After(ok) : ok \in SUBSET ClosePending(pcb)}

-------------------------------------------------------------------------------
(* Segments: tcp_input finds the pcb and runs tcp_process on it. *)

Heard(q) == [q EXCEPT !.age = 0]

\* Mutant of Matching: the TIME_WAIT list is not searched.
MatchingActive(c) == {p \in Pcbs : pcb[p].list = "active" /\ pcb[p].conn = c}

\* The active and TIME_WAIT pcbs in which tcp_input finds this peer.
Matching(c) == {p \in Pcbs : pcb[p].list \in {"active", "tw"} /\ pcb[p].conn = c}

\* tcp_listen_input: what the new pcb starts with.
NewPcb(c, l) == [FreePcb EXCEPT !.state = "SYN_RCVD", !.list = "active",
                                !.arg = l, !.listener = l, !.conn = c]

\* tcp_listen_input: a SYN that matches no pcb goes to the newest listener.
\* Either the pool is exhausted, or the new pcb waits for the ACK, or there is
\* no memory for the SYN|ACK and tcp_abandon frees it again.
RecvSyn(c) ==
  /\ lpcbs # <<>>
  /\ Matching(c) = {}
  /\ \E o \in TcpAlloc :
       /\ stream' = o.stream
       /\ \/ o.slot = Null /\ pcb' = o.pcb /\ UNCHANGED timer_active
          \/ /\ o.slot # Null
             /\ timer_active' = TRUE
             /\ \/ pcb' = [o.pcb EXCEPT ![o.slot] = NewPcb(c, lpcbs[1])]
                \/ pcb' = o.pcb
  /\ UNCHANGED <<lpcbs, tcp_timer>>

\* TcpStream::new for pcb p, in the queue of listener l.
NewStream(p, l) == [NoStream EXCEPT !.holder = l, !.pcb = p]

\* SYN_RCVD, an acceptable ACK, the listener is there: tcp_accept_cb makes a
\* TcpStream (TcpStream::new sets every callback) and queues it; a FIN in the
\* same segment is delivered to it at once.
SynRcvdAccept(p, s, fin) ==
  /\ pcb[p].list = "active" /\ pcb[p].state = "SYN_RCVD"
  /\ pcb[p].listener # Null /\ pcb[p].arg # Null
  /\ ~Live(s)
  /\ pcb' = [pcb EXCEPT ![p] = [Heard(@) EXCEPT
                                  !.state = IF fin THEN "CLOSE_WAIT" ELSE "ESTABLISHED",
                                  !.arg = s, !.cbs = TRUE]]
  /\ stream' = [stream EXCEPT ![s] = [NewStream(p, pcb[p].arg) EXCEPT !.eof = fin]]
  /\ UNCHANGED <<lpcbs, timer_active, tcp_timer>>

\* SYN_RCVD, an acceptable ACK, but the listener was closed, or tcp_accept_cb
\* finds no argument: tcp_abort.
SynRcvdOrphan(p) ==
  /\ pcb[p].list = "active" /\ pcb[p].state = "SYN_RCVD"
  /\ pcb[p].listener = Null \/ pcb[p].arg = Null
  /\ pcb' = Aborted(pcb, p)
  /\ stream' = ErrCb(pcb, stream, {p})
  /\ UNCHANGED <<lpcbs, timer_active, tcp_timer>>

\* SYN_RCVD, anything else: a repeated SYN or a wrong ACK only shows the peer
\* is there.
SynRcvdOther(p) ==
  /\ pcb[p].list = "active" /\ pcb[p].state = "SYN_RCVD"
  /\ pcb' = [pcb EXCEPT ![p] = Heard(@)]
  /\ UNCHANGED <<stream, lpcbs, timer_active, tcp_timer>>

\* ESTABLISHED and CLOSE_WAIT: only the first takes a FIN.
EstablishedInput(p, fin) ==
  /\ pcb[p].list = "active" /\ pcb[p].state \in {"ESTABLISHED", "CLOSE_WAIT"}
  /\ fin => pcb[p].state = "ESTABLISHED"
  /\ pcb' = [pcb EXCEPT ![p] = IF fin THEN [Heard(@) EXCEPT !.state = "CLOSE_WAIT"]
                               ELSE Heard(@)]
  /\ stream' = IF fin THEN EofCb(p) ELSE stream
  /\ UNCHANGED <<lpcbs, timer_active, tcp_timer>>

\* TCP_RMV_ACTIVE, then TIME_WAIT, then TCP_REG on tcp_tw_pcbs.
ToTimeWait(q) == [Heard(q) EXCEPT !.state = "TIME_WAIT", !.list = "tw"]

\* FIN_WAIT_1; acked: everything sent, our FIN included, is acknowledged.
FinWait1Input(p, fin, acked) ==
  /\ pcb[p].list = "active" /\ pcb[p].state = "FIN_WAIT_1"
  /\ pcb' = [pcb EXCEPT ![p] =
               IF fin /\ acked THEN ToTimeWait(@)
               ELSE IF fin THEN [Heard(@) EXCEPT !.state = "CLOSING"]
               ELSE IF acked THEN [Heard(@) EXCEPT !.state = "FIN_WAIT_2"]
               ELSE Heard(@)]
  /\ stream' = IF fin THEN EofCb(p) ELSE stream
  /\ timer_active' = (timer_active \/ (fin /\ acked))
  /\ UNCHANGED <<lpcbs, tcp_timer>>

FinWait2Input(p, fin) ==
  /\ pcb[p].list = "active" /\ pcb[p].state = "FIN_WAIT_2"
  /\ pcb' = [pcb EXCEPT ![p] = IF fin THEN ToTimeWait(@) ELSE Heard(@)]
  /\ stream' = IF fin THEN EofCb(p) ELSE stream
  /\ timer_active' = (timer_active \/ fin)
  /\ UNCHANGED <<lpcbs, tcp_timer>>

ClosingInput(p, acked) ==
  /\ pcb[p].list = "active" /\ pcb[p].state = "CLOSING"
  /\ pcb' = [pcb EXCEPT ![p] = IF acked THEN ToTimeWait(@) ELSE Heard(@)]
  /\ timer_active' = (timer_active \/ acked)
  /\ UNCHANGED <<stream, lpcbs, tcp_timer>>

\* Mutant of LastAckInput: the test of TF_RXCLOSED inverted, no err callback.
LastAckInputSilent(p, acked) ==
  /\ pcb[p].list = "active" /\ pcb[p].state = "LAST_ACK"
  /\ pcb' = IF acked THEN Freed(pcb, {p}) ELSE [pcb EXCEPT ![p] = Heard(@)]
  /\ UNCHANGED <<stream, lpcbs, timer_active, tcp_timer>>

\* LAST_ACK: when our FIN is acknowledged tcp_input_delayed_close reports
\* ERR_CLSD through the err callback and frees the pcb.
LastAckInput(p, acked) ==
  /\ pcb[p].list = "active" /\ pcb[p].state = "LAST_ACK"
  /\ pcb' = IF acked THEN Freed(pcb, {p}) ELSE [pcb EXCEPT ![p] = Heard(@)]
  /\ stream' = IF acked THEN ErrCb(pcb, stream, {p}) ELSE stream
  /\ UNCHANGED <<lpcbs, timer_active, tcp_timer>>

\* tcp_timewait_input: a FIN restarts the 2MSL wait, the rest changes nothing.
TimewaitInput(p) ==
  /\ pcb[p].list = "tw"
  /\ pcb' = [pcb EXCEPT ![p] = Heard(@)]
  /\ UNCHANGED <<stream, lpcbs, timer_active, tcp_timer>>

\* An acceptable RST: err callback with ERR_RST, the pcb is freed.
RecvRst(p) ==
  /\ pcb[p].list = "active"
  /\ pcb' = Freed(pcb, {p})
  /\ stream' = ErrCb(pcb, stream, {p})
  /\ UNCHANGED <<lpcbs, timer_active, tcp_timer>>

-------------------------------------------------------------------------------
(* Timers: sys_check_timeouts runs tcpip_tcp_timer while it is armed. *)

Older(q) == [q EXCEPT !.age = IF @ = MaxAge THEN @ ELSE @ + 1]

FinOutstanding == {"FIN_WAIT_1", "CLOSING", "LAST_ACK"}

\* Mutant of TimedOut: TCP_SYN_RCVD_TIMEOUT is not applied.
TimedOutLate(P) ==
  {p \in Pcbs : P[p].list = "active"
     /\ \/ P[p].state = "LAST_ACK" /\ P[p].age >= MslTicks
        \/ P[p].state \in FinOutstanding /\ P[p].age >= RtxTicks}

\* The active pcbs tcp_slowtmr removes in any case: a handshake or a LAST_ACK
\* that takes too long, a FIN retransmitted TCP_MAXRTX times to a silent peer.
TimedOut(P) ==
  {p \in Pcbs : P[p].list = "active"
     /\ \/ P[p].state = "SYN_RCVD" /\ P[p].age >= SynRcvdTicks
        \/ P[p].state = "LAST_ACK" /\ P[p].age >= MslTicks
        \/ P[p].state \in FinOutstanding /\ P[p].age >= RtxTicks}

\* Those it may remove: data or a FIN was retransmitted or probed TCP_MAXRTX
\* times although the peer still sends something.
MayGiveUp(P) == {p \in Pcbs : P[p].list = "active" /\ P[p].state # "FIN_WAIT_2"}

\* TIME_WAIT pcbs whose 2MSL are over: freed with no callback at all.
TwExpired(P) == {p \in Pcbs : P[p].list = "tw" /\ P[p].age >= MslTicks}

\* tcp_slowtmr on the tables the fast timer left; dead: those given up.
SlowTmr(P, dead) ==
  LET gone == TimedOut(P) \cup dead
  IN /\ \A p \in TwExpired(P) : MayReclaim(p)
     /\ pcb' = [p \in Pcbs |-> IF p \in gone \cup TwExpired(P) THEN FreePcb
                               ELSE IF P[p].list \in {"active", "tw"} THEN Older(P[p])
                               ELSE P[p]]
     /\ stream' = ErrCb(P, stream, gone)

\* Mutant of StillNeeded: only active pcbs keep the timer.
StillNeededActive(P) == \E p \in Pcbs : P[p].list = "active"

\* The test tcpip_tcp_timer re-arms itself by.
StillNeeded(P) == \E p \in Pcbs : P[p].list \in {"active", "tw"}

\* tcpip_tcp_timer: tcp_fasttmr, every other time tcp_slowtmr, then re-armed
\* while there are active or TIME_WAIT pcbs.
TcpTmr ==
  /\ timer_active
  /\ tcp_timer' = ~tcp_timer
  /\ \E ok \in SUBSET ClosePending(pcb) :
       LET P == HandleClosepend(pcb, ok)
       IN \/ tcp_timer /\ pcb' = P /\ UNCHANGED stream
          \/ ~tcp_timer /\ \E dead \in SUBSET MayGiveUp(P) : SlowTmr(P, dead)
  /\ timer_active' = StillNeeded(pcb')
  /\ UNCHANGED lpcbs

-------------------------------------------------------------------------------
(* The application: the crate's types under LWIP_MUTEX. *)

\* Mutant of ListenPoolFull: one lpcb too many.
ListenPoolFullLate == Len(lpcbs) > MaxListen

\* memp_malloc(MEMP_TCP_PCB_LISTEN) fails.
ListenPoolFull == Len(lpcbs) >= MaxListen

\* TcpListener::new: tcp_new, tcp_bind, tcp_listen.  Without memory for a pcb
\* tcp_bind refuses; without memory for the lpcb the bound pcb stays behind.
NewListener(l) ==
  /\ ~Listening(l) /\ \A s \in Streams : stream[s].holder # l
  /\ \E o \in TcpAlloc :
       /\ stream' = o.stream
       /\ \/ o.slot = Null /\ pcb' = o.pcb /\ UNCHANGED lpcbs
          \/ /\ o.slot # Null /\ ~ListenPoolFull
             /\ pcb' = o.pcb
             /\ lpcbs' = <<l>> \o lpcbs
          \/ /\ o.slot # Null /\ ListenPoolFull
             /\ pcb' = [o.pcb EXCEPT ![o.slot] =
                          [FreePcb EXCEPT !.state = "CLOSED", !.list = "bound"]]
             /\ UNCHANGED lpcbs
  /\ UNCHANGED <<timer_active, tcp_timer>>

\* Mutant of ListenClosed: the pcbs keep their pointer to the freed lpcb.
ListenClosedNot(P, l) == P

\* tcp_listen_closed: the pcbs that refer to the lpcb forget it.
ListenClosed(P, l) ==
  [p \in Pcbs |-> IF P[p].listener = l THEN [P[p] EXCEPT !.listener = Null] ELSE P[p]]

\* TcpListener::drop: tcp_close on the i-th lpcb.
DropListener(i) ==
  /\ lpcbs' = [k \in 1 .. Len(lpcbs) - 1 |-> IF k < i THEN lpcbs[k] ELSE lpcbs[k + 1]]
  /\ pcb' = ListenClosed(pcb, lpcbs[i])
  /\ UNCHANGED <<stream, timer_active, tcp_timer>>

\* TcpListener::poll_next hands a queued stream over.
PollNext(s) ==
  /\ Live(s) /\ stream[s].holder # "app" /\ Listening(stream[s].holder)
  /\ stream' = [stream EXCEPT ![s].holder = "app"]
  /\ UNCHANGED <<pcb, lpcbs, timer_active, tcp_timer>>

\* TcpStream::poll_shutdown on a stream without error: tcp_shutdown(pcb, 0, 1),
\* which in any other state refuses with ERR_CONN and changes nothing.
PollShutdown(s) ==
  LET p == stream[s].pcb
  IN /\ stream[s].holder = "app" /\ ~stream[s].errored
     /\ pcb[p].state \in {"SYN_RCVD", "ESTABLISHED", "CLOSE_WAIT"}
     /\ \E ok \in BOOLEAN : pcb' = [pcb EXCEPT ![p] = CloseShutdownFin(@, ok)]
     /\ stream' = [stream EXCEPT ![s].closed = TRUE]
     /\ UNCHANGED <<lpcbs, timer_active, tcp_timer>>

\* Mutant of Detached: only the argument is cleared.
DetachedArg(P, p) == [P EXCEPT ![p].arg = Null]

\* tcp_arg, tcp_recv, tcp_sent, tcp_err and tcp_poll with null.
Detached(P, p) == [P EXCEPT ![p].arg = Null, ![p].cbs = FALSE]

\* TcpStream::drop, by the application or with the queue of a dropped listener:
\* unless errored the callbacks are cleared, and unless closed tcp_abort frees
\* the pcb (its err callback is gone by then).
DropStream(s) ==
  LET p == stream[s].pcb
  IN /\ Live(s) /\ ~Listening(stream[s].holder)
     /\ stream' = [stream EXCEPT ![s] = NoStream]
     /\ pcb' = IF stream[s].errored THEN pcb
               ELSE IF stream[s].closed THEN Detached(pcb, p)
               ELSE Aborted(Detached(pcb, p), p)
     /\ UNCHANGED <<lpcbs, timer_active, tcp_timer>>

-------------------------------------------------------------------------------
Segment ==
  \/ \E c \in Conns : RecvSyn(c)
  \/ \E p \in Pcbs :
       \/ \E s \in Streams, fin \in BOOLEAN : SynRcvdAccept(p, s, fin)
       \/ SynRcvdOrphan(p)
       \/ SynRcvdOther(p)
       \/ \E fin \in BOOLEAN : EstablishedInput(p, fin)
       \/ \E fin, acked \in BOOLEAN : FinWait1Input(p, fin, acked)
       \/ \E fin \in BOOLEAN : FinWait2Input(p, fin)
       \/ \E acked \in BOOLEAN : ClosingInput(p, acked)
       \/ \E acked \in BOOLEAN : LastAckInput(p, acked)
       \/ TimewaitInput(p)
       \/ RecvRst(p)

App ==
  \/ \E l \in Listeners : NewListener(l)
  \/ \E i \in DOMAIN lpcbs : DropListener(i)
  \/ \E s \in Streams : PollNext(s) \/ PollShutdown(s) \/ DropStream(s)

Next == Segment \/ TcpTmr \/ App

Spec == Init /\ [][Next]_vars

\* The stack's timer task calls sys_check_timeouts for ever (stack.rs), and the
\* application that drops fully closed streams in time does drop them.
Fairness ==
  /\ WF_vars(TcpTmr)
  /\ \A s \in Streams : WF_vars(Live(s) /\ pcb[stream[s].pcb].list = "tw" /\ DropStream(s))

FairSpec == Spec /\ Fairness

-------------------------------------------------------------------------------
(* Properties. *)

\* Types, and the size of the listener pool.
TypeOK ==
  /\ pcb \in [Pcbs -> Pcb]
  /\ stream \in [Streams -> Stream]
  /\ lpcbs \in Seq(Listeners) /\ Len(lpcbs) <= MaxListen
  /\ timer_active \in BOOLEAN /\ tcp_timer \in BOOLEAN

\* tcp_pcbs_sane and the assertions of tcp_slowtmr: each list holds only pcbs
\* in its states, and an element given back to the pool is in no list.
ListsSane ==
  \A p \in Pcbs :
    /\ pcb[p].list = "tw" <=> pcb[p].state = "TIME_WAIT"
    /\ pcb[p].list = "bound" <=> pcb[p].state = "CLOSED"
    /\ pcb[p].list = "none" <=> pcb[p].state = "FREE"

\* tcp_input never has two pcbs to choose from for one peer.
UniqueTuple ==
  LET Connected == {p \in Pcbs : pcb[p].list \in {"active", "tw"}}
  IN \A p, q \in Connected : pcb[p].conn = pcb[q].conn => p = q

\* A stream that is neither errored nor shut down still owns its pcb: the slot
\* was not freed or reused under it, is active, and calls back this stream.
OpenStreamOwnsPcb ==
  \A s \in Streams : Live(s) /\ ~stream[s].errored /\ ~stream[s].closed =>
    LET q == pcb[stream[s].pcb]
    IN q.state \in {"ESTABLISHED", "CLOSE_WAIT"} /\ q.arg = s /\ q.cbs

\* tcp_shutdown of the sending side "doesn't deallocate the PCB" (tcp.c:504):
\* a stream without error owns its pcb even after poll_shutdown, so every later
\* use of the raw pointer in poll_read, poll_write, poll_flush and drop is safe.
ShutdownKeepsPcb ==
  \A s \in Streams : Live(s) /\ ~stream[s].errored =>
    LET q == pcb[stream[s].pcb]
    IN q.list \in {"active", "tw"} /\ q.arg = s /\ q.cbs

\* lwIP never calls back into freed memory: callbacks are installed only while
\* their argument is a stream that is alive, has not been told of an error, and
\* believes in this very pcb (the unsafe dereferences of tcp_recv_cb,
\* tcp_sent_cb, tcp_err_cb and tcp_poll_cb).
CallbackArgLive ==
  \A p \in Pcbs : pcb[p].cbs =>
    \E s \in Streams : pcb[p].arg = s /\ Live(s) /\ ~stream[s].errored /\ stream[s].pcb = p

\* The raw pointers of the two sides, TcpStream to tcp_pcb and back, are good
\* whenever they may be used: all three.
StreamsOwnPcbs == OpenStreamOwnsPcb /\ ShutdownKeepsPcb /\ CallbackArgLive

\* tcp_accept_cb casts the argument to a TcpListener: a handshake that still
\* points to its listener's lpcb carries that live listener as argument.
AcceptArgLive ==
  \A p \in Pcbs : pcb[p].listener # Null /\ pcb[p].state = "SYN_RCVD" =>
    pcb[p].arg = pcb[p].listener /\ Listening(pcb[p].listener)

\* The stream was given the end of file exactly when the peer's FIN moved its
\* pcb past it, whichever segment carried the FIN (tcp_recv_cb with no pbuf).
EofIffPeerClosed ==
  \A s \in Streams : Live(s) /\ ~stream[s].errored =>
    (stream[s].eof <=> pcb[stream[s].pcb].state \in {"CLOSE_WAIT", "LAST_ACK", "CLOSING", "TIME_WAIT"})

\* poll_shutdown that returned Ok has sent the FIN, or left TF_CLOSEPEND for the
\* timer to send it: a closed stream's connection is never left half open.
ShutdownSendsFin ==
  \A s \in Streams : Live(s) /\ ~stream[s].errored /\ stream[s].closed =>
    LET q == pcb[stream[s].pcb]
    IN q.state \in {"ESTABLISHED", "CLOSE_WAIT"} => q.closepend

\* A connection nobody holds is on its way out: no established connection
\* survives the stream it was accepted for (TcpStream::drop).
OrphanIsClosing ==
  \A p \in Pcbs : pcb[p].list = "active" /\ ~pcb[p].cbs
                  /\ pcb[p].state \in {"ESTABLISHED", "CLOSE_WAIT"} => pcb[p].closepend

\* No end of a connection is forgotten on either side, whatever fails on the way:
\* all three.
ClosesKept == EofIffPeerClosed /\ ShutdownSendsFin /\ OrphanIsClosing

\* The TCP timer runs while a pcb depends on it (tcp_timer_needed,
\* tcpip_tcp_timer): otherwise retransmission and expiry would stop for ever.
TimerArmed ==
  (\E p \in Pcbs : pcb[p].list \in {"active", "tw"}) => timer_active

\* No segment arrives any more.
Quiet == <>[][~Segment]_vars

\* With a silent peer lwIP gives up by itself on a handshake, on an unanswered
\* FIN and on TIME_WAIT (tcp_slowtmr), so their pcbs return to the pool.
WaitsEnd ==
  Quiet => \A p \in Pcbs :
    LET Waits == pcb[p].state \in FinOutstanding \cup {"SYN_RCVD", "TIME_WAIT"}
    IN Waits ~> ~Waits

\* "Check if this PCB has stayed too long in FIN-WAIT-2" (tcp.c:1314): a pcb
\* whose stream is gone does not stay there for ever (fails: README, Divergences).
FinWait2Ends ==
  Quiet => \A p \in Pcbs :
    (pcb[p].state = "FIN_WAIT_2" /\ ~pcb[p].cbs) ~> (pcb[p].state # "FIN_WAIT_2")
===============================================================================
