------------------------------- MODULE TcpSend -------------------------------
(***************************************************************************)
(* The sending half of one established connection: src/src/tcp_stream.rs   *)
(* poll_write, poll_flush and poll_shutdown over src/src/lwip/core:        *)
(* tcp_write, tcp_send_fin, tcp_output, the ACK part of tcp_receive, the   *)
(* retransmission and persist timers, and a peer behind a network that     *)
(* loses, repeats and reorders.                                            *)
(*                                                                         *)
(* A byte is its position in the stream, so sequence numbers start at 0    *)
(* and do not wrap.  The queues unsent and unacked are sorted by sequence  *)
(* number and hold each number once (QueuesOrdered): they are sets here.   *)
(* TF_NODELAY is set on every stream, so Nagle's rule never holds a        *)
(* segment back and no segment is allocated larger than its data.  The     *)
(* peer sends no data, so only ackno and wnd of its segments matter.  The  *)
(* congestion window is cut at MaxWnd, which no other window exceeds; up   *)
(* to there it is in slow start, as ssthresh is at least 2 * MSS.          *)
(***************************************************************************)
EXTENDS Integers, FiniteSets, FiniteSetsExt

CONSTANTS
  MSS,       \* pcb->mss
  SndBuf,    \* TCP_SND_BUF
  QueueMax,  \* TCP_SND_QUEUELEN, in pbufs
  MaxRtx,    \* TCP_MAXRTX
  MaxBytes,  \* bound on the bytes the application writes
  MaxWnd,    \* bound on the window the peer announces
  DataMax,   \* bound on the segments in flight
  AckMax     \* bound on the ACKs in flight

ASSUME SendAssumption ==
  /\ {MSS, SndBuf, QueueMax, MaxRtx, MaxBytes, MaxWnd, DataMax, AckMax} \subseteq Nat \ {0}
  /\ MaxWnd <= 2 * MSS

VARIABLES
  pcb,    \* the fields of struct tcp_pcb that sending uses
  app,    \* the task that writes: what it is doing, and how much it wrote
  failed, \* the LWIP_ASSERT that stopped the process, or "none"
  data,   \* segments on their way to the peer
  acks,   \* segments on their way back
  peer    \* next byte expected, right edge announced, whether it saw a FIN

vars == <<pcb, app, failed, data, acks, peer>>

Lesser(a, b) == IF a <= b THEN a ELSE b
Greater(a, b) == IF a >= b THEN a ELSE b

\* A congestion window.
Cut(w) == Lesser(w, MaxWnd)

TcpLen(s) == s.len + IF s.fin THEN 1 ELSE 0
End(s) == s.seq + TcpLen(s)
First(Q) == CHOOSE s \in Q : \A t \in Q : s.seq <= t.seq
Last(Q) == CHOOSE s \in Q : \A t \in Q : t.seq <= s.seq
Queued(P) == P.unsent \cup P.unacked

\* A pcb whose peer announced the window wnd.
Fresh(wnd) ==
  [state |-> "ESTABLISHED", lastack |-> 0, snd_nxt |-> 0, snd_lbb |-> 0,
   snd_buf |-> SndBuf, snd_queuelen |-> 0, snd_wnd |-> wnd, snd_wnd_max |-> wnd,
   snd_wl2 |-> 0, cwnd |-> MaxWnd, unsent |-> {}, unacked |-> {},
   rtime |-> FALSE, nrtx |-> 0, dupacks |-> 0, infr |-> FALSE,
   persist |-> FALSE, persist_probe |-> 0, closepend |-> FALSE]

Init ==
  \E wnd \in 0..MaxWnd :
    /\ pcb = Fresh(wnd)
    /\ peer = [next |-> 0, edge |-> wnd, eof |-> FALSE]
    /\ app = [pc |-> "writing", written |-> 0]
    /\ failed = "none" /\ data = {} /\ acks = {}

-------------------------------------------------------------------------------
(* tcp_out.c: each operator gives the pcb, and what goes to the network.      *)

Wnd(P) == Lesser(P.snd_wnd, P.cwnd)
\* Mutant of Fits: only the first byte must be in the window.
FitsFirst(P, s) == s.seq - P.lastack <= Wnd(P)

Fits(P, s) == s.seq - P.lastack + s.len <= Wnd(P)

\* tcp_output sends the segments of unsent, in order, up to the first that
\* does not fit.
Sendable(P) == {s \in P.unsent : \A t \in P.unsent : t.seq <= s.seq => Fits(P, t)}

StartPersist(P) ==
  IF Wnd(P) = P.snd_wnd /\ P.unacked = {} /\ ~P.persist
  THEN [P EXCEPT !.persist = TRUE, !.persist_probe = 0] ELSE P

Output(P) ==
  LET out == Sendable(P)
  IN IF P.unsent = {} THEN P
     ELSE IF out = {} THEN StartPersist(P)
     ELSE [P EXCEPT !.persist = FALSE, !.rtime = TRUE,
                    !.unsent = @ \ out, !.unacked = @ \cup out,
                    !.snd_nxt = Greater(@, Max({End(s) : s \in out}))]

\* What tcp_output hands to the network.
Wire(S) == {[seq |-> s.seq, len |-> s.len, fin |-> s.fin] : s \in S}
OutputWire(P) == Wire(Sendable(P))

MssLocal(P) ==
  LET half == Lesser(MSS, P.snd_wnd_max \div 2) IN IF half = 0 THEN MSS ELSE half

\* The bytes of a write that go into the last unsent segment.
Concat(P, len) ==
  IF P.unsent # {} /\ Last(P.unsent).len > 0
  THEN Lesser(MssLocal(P) - Last(P.unsent).len, len) ELSE 0

\* The segments a write of len bytes makes for what does not fit there.
NewSegs(P, len) ==
  LET mss  == MssLocal(P)
      rest == len - Concat(P, len)
  IN {[seq |-> P.snd_lbb + Concat(P, len) + i * mss, len |-> Lesser(mss, rest - i * mss),
       fin |-> FALSE, n |-> 1] : i \in {j \in 0..rest : j * mss < rest}}

Pbufs(P, len) == Cardinality(NewSegs(P, len)) + IF Concat(P, len) > 0 THEN 1 ELSE 0

\* The assertion "mss_local is too small" holds.
WriteAsserts(P) == P.unsent # {} => Last(P.unsent).len <= MssLocal(P)

\* tcp_write_checks, and the limit on the queue while segments are made.
WriteRefused(P, len) ==
  \/ len > P.snd_buf
  \/ P.snd_queuelen >= QueueMax
  \/ /\ WriteAsserts(P) /\ NewSegs(P, len) # {}
     /\ P.snd_queuelen + Pbufs(P, len) > QueueMax

Extended(Q, k) ==
  IF k = 0 THEN Q
  ELSE (Q \ {Last(Q)}) \cup {[Last(Q) EXCEPT !.len = @ + k, !.n = @ + 1]}

Write(P, len) ==
  [P EXCEPT !.unsent = Extended(@, Concat(P, len)) \cup NewSegs(P, len),
            !.snd_lbb = @ + len, !.snd_buf = @ - len,
            !.snd_queuelen = @ + Pbufs(P, len)]

\* Mutant of SendFin: a FIN of its own is not counted in snd_queuelen.
SendFinUncounted(P) ==
  IF P.unsent # {} /\ ~Last(P.unsent).fin
  THEN [P EXCEPT !.unsent = (@ \ {Last(@)}) \cup {[Last(@) EXCEPT !.fin = TRUE]}]
  ELSE [P EXCEPT !.unsent = @ \cup {[seq |-> P.snd_lbb, len |-> 0, fin |-> TRUE, n |-> 1]},
                 !.snd_lbb = @ + 1]

\* tcp_send_fin with memory: the FIN joins the last unsent segment if there is
\* one, and snd_lbb does not count it then.
SendFin(P) ==
  IF P.unsent # {} /\ ~Last(P.unsent).fin
  THEN [P EXCEPT !.unsent = (@ \ {Last(@)}) \cup {[Last(@) EXCEPT !.fin = TRUE]}]
  ELSE [P EXCEPT !.unsent = @ \cup {[seq |-> P.snd_lbb, len |-> 0, fin |-> TRUE, n |-> 1]},
                 !.snd_lbb = @ + 1, !.snd_queuelen = @ + 1]

NeedsMemForFin(P) == P.unsent = {} \/ Last(P.unsent).fin

\* tcp_close_shutdown_fin.
ShutdownFin(P, mem) ==
  IF NeedsMemForFin(P) /\ ~mem THEN [P EXCEPT !.closepend = TRUE]
  ELSE Output([SendFin(P) EXCEPT !.state = "FIN_WAIT_1"])
ShutdownWire(P, mem) ==
  IF NeedsMemForFin(P) /\ ~mem THEN {} ELSE OutputWire(SendFin(P))

\* Mutant of Split: the head keeps all its bytes.
SplitKeepsHead(P, n) ==
  LET s    == First(P.unsent)
      tail == [seq |-> s.seq + P.snd_wnd, len |-> s.len - P.snd_wnd, fin |-> s.fin, n |-> 1]
  IN IF s.len <= P.snd_wnd THEN P
     ELSE [P EXCEPT !.unsent = @ \cup {tail}, !.snd_queuelen = @ + 1]

\* tcp_split_unsent_seg with memory; n pbufs stay with the head.  Its
\* TCPH_SET_FLAG only adds flags, so the head keeps the FIN the tail gets.
Split(P, n) ==
  LET s    == First(P.unsent)
      head == [s EXCEPT !.len = P.snd_wnd, !.n = n]
      tail == [seq |-> s.seq + P.snd_wnd, len |-> s.len - P.snd_wnd, fin |-> s.fin, n |-> 1]
  IN IF s.len <= P.snd_wnd THEN P
     ELSE [P EXCEPT !.unsent = (@ \ {s}) \cup {head, tail},
                    !.snd_queuelen = @ - s.n + n + 1]

\* tcp_zero_window_probe: one byte, or the FIN.
ProbeWire(P) ==
  LET s == First(P.unsent) IN {[seq |-> s.seq, len |-> IF s.len = 0 THEN 0 ELSE 1,
                                fin |-> s.fin /\ s.len = 0]}

\* Mutant of Probe: the byte of a probe is not counted as sent.
ProbeUncounted(P) == P

Probe(P) == [P EXCEPT !.snd_nxt = Greater(@, First(P.unsent).seq + 1)]

\* tcp_slowtmr, rtime >= rto: tcp_rexmit_rto_prepare, and the first half of
\* tcp_rexmit_rto_commit.
Rto(P) == [P EXCEPT !.unsent = @ \cup P.unacked, !.unacked = {}, !.rtime = TRUE,
                    !.cwnd = Cut(MSS), !.nrtx = @ + 1]

\* tcp_rexmit_fast.
RexmitFast(P) ==
  IF P.unacked = {} \/ P.infr THEN P
  ELSE LET s == First(P.unacked)
       IN [P EXCEPT !.unacked = @ \ {s}, !.unsent = @ \cup {s}, !.nrtx = @ + 1,
                    !.cwnd = MaxWnd, !.infr = TRUE, !.rtime = TRUE]

-------------------------------------------------------------------------------
(* tcp_in.c, for a segment without data.                                      *)

\* Mutant of Acked: a segment is freed when its first byte is acknowledged.
AckedStart(Q, ack) == {s \in Q : \A t \in Q : t.seq <= s.seq => t.seq < ack}

\* tcp_free_acked_segments stops at the first that is not wholly acknowledged.
Acked(Q, ack) == {s \in Q : \A t \in Q : t.seq <= s.seq => End(t) <= ack}
Bytes(Q) == MapThenSumSet(LAMBDA s : s.len, Q)
PbufsOf(Q) == MapThenSumSet(LAMBDA s : s.n, Q)

WindowUpdate(P, ack, wnd) ==
  IF P.snd_wl2 < ack \/ (P.snd_wl2 = ack /\ wnd > P.snd_wnd)
  THEN [P EXCEPT !.snd_wnd = wnd, !.snd_wnd_max = Greater(@, wnd), !.snd_wl2 = ack] ELSE P

\* Mutant of OldAck: the count of duplicates is not kept from overflowing.
OldAckUnsaturated(P, ack, edge) ==
  LET dup == P.snd_wl2 + P.snd_wnd = edge /\ P.rtime /\ P.lastack = ack
      Q   == [P EXCEPT !.dupacks = IF dup THEN @ + 1 ELSE 0,
                       !.cwnd = IF dup /\ P.dupacks >= 3 THEN Cut(@ + MSS) ELSE @]
  IN IF Q.dupacks >= 3 THEN RexmitFast(Q) ELSE Q

\* An ACK of nothing new; it is a duplicate if it leaves the right edge alone.  The
\* third starts the fast retransmission, and each one after it widens cwnd.
OldAck(P, ack, edge) ==
  LET dup == P.snd_wl2 + P.snd_wnd = edge /\ P.rtime /\ P.lastack = ack
      Q   == [P EXCEPT !.dupacks = IF dup THEN Lesser(@ + 1, 3) ELSE 0,
                       !.cwnd = IF dup /\ P.dupacks = 3 THEN Cut(@ + MSS) ELSE @]
  IN IF Q.dupacks = 3 THEN RexmitFast(Q) ELSE Q

Freed(P, ack) == Acked(P.unsent, ack) \cup Acked(P.unacked, ack)

\* Mutant of NewAck: the retransmission timer stops at every new ACK.
NewAckStopsTimer(P, ack) ==
  LET cwnd == IF P.infr THEN MaxWnd ELSE Cut(P.cwnd + Lesser(ack - P.lastack, MSS))
  IN [P EXCEPT !.infr = FALSE, !.nrtx = 0, !.dupacks = 0, !.lastack = ack, !.cwnd = cwnd,
               !.unacked = @ \ Acked(@, ack), !.unsent = @ \ Acked(@, ack),
               !.snd_queuelen = @ - PbufsOf(Freed(P, ack)),
               !.snd_buf = @ + Bytes(Freed(P, ack)),
               !.rtime = FALSE]

NewAck(P, ack) ==
  LET cwnd == IF P.infr THEN MaxWnd ELSE Cut(P.cwnd + Lesser(ack - P.lastack, MSS))
  IN [P EXCEPT !.infr = FALSE, !.nrtx = 0, !.dupacks = 0, !.lastack = ack, !.cwnd = cwnd,
               !.unacked = @ \ Acked(@, ack), !.unsent = @ \ Acked(@, ack),
               !.snd_queuelen = @ - PbufsOf(Freed(P, ack)),
               !.snd_buf = @ + Bytes(Freed(P, ack)),
               !.rtime = P.unacked # Acked(P.unacked, ack)]

\* tcp_receive.
Receive(P, ack, wnd) ==
  LET U == WindowUpdate(P, ack, wnd)
  IN IF ack <= P.lastack THEN OldAck(U, ack, P.snd_wl2 + P.snd_wnd)
     ELSE IF ack <= P.snd_nxt THEN NewAck(U, ack)
     ELSE U

\* Mutant of Process: unsent segments are forgotten in FIN_WAIT_1.
ProcessForgetsUnsent(P, ack, wnd) ==
  LET Q == Receive([P EXCEPT !.persist_probe = 0], ack, wnd)
  IN IF Q.state = "FIN_WAIT_1" /\ ack = Q.snd_nxt
     THEN [Q EXCEPT !.state = "FIN_WAIT_2"] ELSE Q

\* tcp_process.
Process(P, ack, wnd) ==
  LET Q == Receive([P EXCEPT !.persist_probe = 0], ack, wnd)
  IN IF Q.state = "FIN_WAIT_1" /\ ack = Q.snd_nxt /\ Q.unsent = {}
     THEN [Q EXCEPT !.state = "FIN_WAIT_2"] ELSE Q

-------------------------------------------------------------------------------
Running == failed = "none" /\ pcb.state # "gone"

\* A segment given to the network may be lost.
SendData(S) == \E kept \in SUBSET S : /\ Cardinality(data \cup kept) <= DataMax
                                      /\ data' = data \cup kept
SendAck(a) == acks' = acks \/ (acks' = acks \cup {a} /\ Cardinality(acks') <= AckMax)

\* The stream's write waker, if it waits.
Wake == app' = [app EXCEPT !.pc = IF @ \in {"full", "queue"} THEN "writing" ELSE @]

Fail(assertion) == failed' = assertion /\ UNCHANGED <<pcb, app, data, acks, peer>>

\* poll_write of len bytes; it takes at most snd_buf of them.  (If allocation
\* fails tcp_write has changed nothing, and the task waits for the poll timer.)
PollWrite(len) ==
  /\ Running /\ app.pc = "writing"
  /\ LET k == Lesser(len, pcb.snd_buf)
     IN \/ /\ k = 0
           /\ app' = [app EXCEPT !.pc = "full"]
           /\ UNCHANGED <<pcb, failed, data>>
        \/ /\ k > 0 /\ WriteRefused(pcb, k)
           /\ app' = [app EXCEPT !.pc = "queue"]
           /\ UNCHANGED <<pcb, failed, data>>
        \/ /\ k \in 1 .. MaxBytes - app.written
           /\ ~WriteRefused(pcb, k) /\ WriteAsserts(pcb)
           /\ pcb' = Output(Write(pcb, k))
           /\ SendData(OutputWire(Write(pcb, k)))
           /\ app' = [app EXCEPT !.written = @ + k]
           /\ UNCHANGED failed
  /\ UNCHANGED <<acks, peer>>

\* The same, with the last unsent segment longer than mss_local; MaxBytes does
\* not limit a write that stops the process.
PollWriteFails ==
  /\ Running /\ app.pc = "writing"
  /\ pcb.snd_buf > 0 /\ pcb.snd_queuelen < QueueMax /\ ~WriteAsserts(pcb)
  /\ Fail("mss_local is too small")

PollFlush ==
  /\ Running
  /\ pcb' = Output(pcb) /\ SendData(OutputWire(pcb))
  /\ UNCHANGED <<app, failed, acks, peer>>

\* poll_shutdown; the application writes no more.
PollShutdown(mem) ==
  /\ Running /\ app.pc = "writing"
  /\ pcb' = ShutdownFin(pcb, mem) /\ SendData(ShutdownWire(pcb, mem))
  /\ app' = [app EXCEPT !.pc = "shut"]
  /\ UNCHANGED <<failed, acks, peer>>

\* tcp_fasttmr retries a close that found no memory.
FastTmr(mem) ==
  /\ Running /\ pcb.closepend
  /\ LET P == [pcb EXCEPT !.closepend = FALSE]
     IN pcb' = ShutdownFin(P, mem) /\ SendData(ShutdownWire(P, mem))
  /\ UNCHANGED <<app, failed, acks, peer>>

\* tcp_input.
Input ==
  /\ Running
  /\ \E a \in acks :
       LET Q == Process(pcb, a.ack, a.wnd)
       IN /\ pcb' = Output(Q) /\ SendData(OutputWire(Q))
          /\ acks' \in {acks, acks \ {a}}
          /\ IF Bytes(Queued(Q)) < Bytes(Queued(pcb)) THEN Wake ELSE UNCHANGED app
  /\ UNCHANGED <<failed, peer>>

\* tcp_slowtmr gives the connection up and frees the pcb: tcp_err_cb.  What is
\* still on its way finds nothing.
GiveUp ==
  /\ Running
  /\ \/ pcb.nrtx >= MaxRtx
     \/ pcb.persist /\ pcb.unsent # {} /\ pcb.persist_probe >= MaxRtx
  /\ pcb' = [Fresh(0) EXCEPT !.state = "gone"]
  /\ Wake
  /\ data' = {} /\ acks' = {}
  /\ UNCHANGED <<failed, peer>>

\* The end of tcp_slowtmr for a pcb it keeps: tcp_poll_cb and tcp_output, on
\* every eighth tick.
Tick(P, wire) ==
  \/ pcb' = P /\ SendData(wire) /\ UNCHANGED app
  \/ pcb' = Output(P) /\ SendData(wire \cup OutputWire(P)) /\ Wake

Ticking == Running /\ pcb.nrtx < MaxRtx

\* Neither the persist timer nor the retransmission timer expires.
NothingDue == /\ Ticking
              /\ pcb.persist => pcb.unsent # {} /\ pcb.persist_probe < MaxRtx
              /\ Tick(pcb, {})
              /\ UNCHANGED <<failed, acks, peer>>

PersistTick ==
  /\ Ticking /\ pcb.persist /\ pcb.unsent # {} /\ pcb.unacked = {}
  /\ pcb.persist_probe < MaxRtx
  /\ \E mem \in BOOLEAN :
       \/ /\ pcb.snd_wnd = 0
          /\ LET P == [pcb EXCEPT !.persist_probe = @ + 1]
             IN IF mem THEN Tick(Probe(P), ProbeWire(P)) ELSE Tick(P, {})
       \/ /\ pcb.snd_wnd > 0 /\ mem
          /\ \E n \in 1..Lesser(pcb.snd_wnd, First(pcb.unsent).n) :
               LET P == Split(pcb, n) IN Tick(Output(P), OutputWire(P))
       \/ pcb.snd_wnd > 0 /\ ~mem /\ Tick(pcb, {})
  /\ UNCHANGED <<failed, acks, peer>>

\* The assertions on a pcb that persists.
PersistFails ==
  /\ Ticking /\ pcb.persist /\ ~(pcb.unacked = {} /\ pcb.unsent # {})
  /\ Fail(IF pcb.unacked = {} THEN "persist ticking with empty send buffer"
          ELSE "persist ticking with in-flight data")

RtoTick ==
  /\ Ticking /\ ~pcb.persist /\ pcb.rtime /\ Queued(pcb) # {}
  /\ Tick(Output(Rto(pcb)), OutputWire(Rto(pcb)))
  /\ UNCHANGED <<failed, acks, peer>>

-------------------------------------------------------------------------------
(* The peer: any window, but a right edge that never moves back; it keeps      *)
(* what comes in order and fits.  A segment comes twice when it is sent twice; *)
(* its ACK may be repeated.  The peer is not followed once the pcb is gone.    *)

PeerInput ==
  Running /\ \E s \in data :
    LET new  == ~peer.eof /\ s.seq <= peer.next
        next == IF new THEN Greater(peer.next, Lesser(s.seq + s.len, peer.edge)) ELSE peer.next
        fin  == new /\ s.fin /\ s.seq + s.len = next
    IN /\ data' = data \ {s}
       /\ peer' = [next |-> IF fin THEN next + 1 ELSE next, eof |-> peer.eof \/ fin,
                   edge |-> IF fin THEN Greater(peer.edge, next + 1) ELSE peer.edge]
       /\ SendAck([ack |-> peer'.next, wnd |-> peer'.edge - peer'.next])
       /\ UNCHANGED <<pcb, app, failed>>

PeerOpens ==
  /\ Running /\ ~peer.eof
  /\ \E e \in peer.edge + 1 .. peer.next + MaxWnd : peer' = [peer EXCEPT !.edge = e]
  /\ SendAck([ack |-> peer'.next, wnd |-> peer'.edge - peer'.next])
  /\ UNCHANGED <<pcb, app, failed, data>>

-------------------------------------------------------------------------------
Next ==
  \/ \E len \in 1..Lesser(MaxBytes, SndBuf) : PollWrite(len)
  \/ PollWriteFails \/ PollFlush
  \/ \E mem \in BOOLEAN : PollShutdown(mem) \/ FastTmr(mem)
  \/ Input
  \/ NothingDue \/ PersistTick \/ PersistFails \/ RtoTick \/ GiveUp
  \/ PeerInput \/ PeerOpens

Spec == Init /\ [][Next]_vars

-------------------------------------------------------------------------------
Segment == [seq : Nat, len : Nat, fin : BOOLEAN, n : Nat \ {0}]

\* The fields keep their ranges; a failed tcp_split_unsent_seg, a retried
\* close and a retransmission never push a counter below zero.
TypeOK ==
  /\ pcb.unsent \subseteq Segment /\ pcb.unacked \subseteq Segment
  /\ \A f \in {"lastack", "snd_nxt", "snd_lbb", "snd_wnd", "snd_wnd_max", "snd_wl2",
               "snd_queuelen", "nrtx", "persist_probe"} : pcb[f] \in Nat
  /\ pcb.snd_buf \in 0..SndBuf /\ pcb.cwnd \in Cut(MSS)..MaxWnd /\ pcb.dupacks \in 0..3
  /\ \A f \in {"rtime", "infr", "persist", "closepend"} : pcb[f] \in BOOLEAN
  /\ pcb.state \in {"ESTABLISHED", "FIN_WAIT_1", "FIN_WAIT_2", "gone"}
  /\ app.pc \in {"writing", "full", "queue", "shut"} /\ app.written \in 0..MaxBytes
  /\ data \subseteq [seq : Nat, len : Nat, fin : BOOLEAN]
  /\ acks \subseteq [ack : Nat, wnd : Nat]
  /\ peer.next \in Nat /\ peer.edge \in Nat /\ peer.eof \in BOOLEAN

\* Every byte that poll_write took and the peer has not acknowledged is in a
\* queue, through splits, probes, retransmissions and partial ACKs.
NothingLost ==
  pcb.state # "gone" =>
    \A b \in pcb.lastack .. app.written - 1 :
      \E s \in Queued(pcb) : s.seq <= b /\ b < s.seq + s.len

\* No byte is queued twice, and what is in flight precedes what is not: the
\* two lists of tcp_seg stay sorted wherever segments move between them.
QueuesOrdered ==
  /\ \A s \in pcb.unacked, t \in pcb.unsent : s.seq < t.seq
  /\ \A s, t \in Queued(pcb) : s # t => s.seq # t.seq /\ (s.seq < t.seq => s.seq + s.len <= t.seq)

\* snd_queuelen and snd_buf are what the queues hold (the assertions "valid
\* queue length" of tcp_write and tcp_receive).
BuffersExact ==
  pcb.state # "gone" => /\ pcb.snd_queuelen = PbufsOf(Queued(pcb))
                        /\ pcb.snd_buf = SndBuf - Bytes(Queued(pcb))

\* The queues are sorted and counted, whatever splits, merges and moves segments.
QueuesSound == QueuesOrdered /\ BuffersExact

\* However late and out of order the ACKs come, nothing is sent beyond the
\* right edge the peer announced, except the one byte of a probe.
WindowRespected ==
  \A s \in data : s.seq + s.len <= peer.edge \/ (s.len = 1 /\ s.seq <= peer.edge)

\* Nobody waits for ever: what is queued has a timer that sends it again (the
\* retransmission timer for what is in flight, while the persist timer is off,
\* which tcp_slowtmr asserts; one of the two for what is not), and poll_write
\* waits for space only while something is queued whose ACK wakes it.
NoStall ==
  /\ Running => /\ pcb.unacked # {} => pcb.rtime /\ ~pcb.persist
                /\ pcb.unsent # {} => pcb.rtime \/ pcb.persist
  /\ app.pc = "full" => pcb.snd_buf = 0 /\ Queued(pcb) # {}

\* tcp_receive recognises every ACK the peer sends, those of probes included,
\* as one of something that was sent.
AcksKnown == \A a \in acks : a.ack <= pcb.snd_nxt

\* FIN_WAIT_2 is entered only when the peer has everything that was written,
\* and the FIN.
FinWait2MeansDelivered ==
  pcb.state = "FIN_WAIT_2" => peer.eof /\ peer.next = app.written + 1

\* The two sides agree on what was sent and what has arrived: both.
PeerInStep == AcksKnown /\ FinWait2MeansDelivered

\* The peer sees the end of the stream after all that was written (fails: README,
\* Divergences).
EofAtEnd == peer.eof => peer.next = app.written + 1

\* The assertion of tcp_slowtmr "persist ticking with empty send buffer" (fails:
\* README, Divergences).
PersistHasData == failed # "persist ticking with empty send buffer"
===============================================================================
