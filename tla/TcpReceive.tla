------------------------------ MODULE TcpReceive ------------------------------
(***************************************************************************)
(* The receiving half of one established connection: src/src/tcp_stream.rs *)
(* tcp_recv_cb and poll_read over src/src/lwip/core: the data part of      *)
(* tcp_receive, the queue of out of order segments, the receive window     *)
(* (tcp_update_rcv_ann_wnd, tcp_recved) and the ACKs (tcp_ack,             *)
(* tcp_send_empty_ack, tcp_fasttmr).                                       *)
(*                                                                         *)
(* A byte is its position in the stream, counted from 0, and sequence      *)
(* numbers do not wrap.  The peer is any sender of the bytes 0..total-1    *)
(* and a FIN: whatever it could send may arrive now, which covers loss,    *)
(* repetition, reordering and every way to cut the stream into segments.   *)
(* LWIP_WND_SCALE and LWIP_TCP_SACK_OUT are off and no limit on ooseq is   *)
(* configured.  The connection is not closed from this side.               *)
(***************************************************************************)
EXTENDS Integers, Sequences, SequencesExt, FiniteSetsExt

CONSTANTS
  WND,       \* TCP_WND
  Step,      \* LWIP_MIN(TCP_WND / 2, pcb->mss), the least growth announced
  Threshold, \* TCP_WND_UPDATE_THRESHOLD, the growth announced at once
  SegMax,    \* bound on the bytes of a segment
  MaxBytes,  \* bound on the bytes of the stream
  MaxRead    \* bound on the buffer given to poll_read

ASSUME ReceiveAssumption ==
  /\ {WND, Step, Threshold, SegMax, MaxBytes, MaxRead} \subseteq Nat \ {0}
  /\ Step <= Threshold /\ Threshold <= WND

VARIABLES
  pcb,     \* the fields of struct tcp_pcb that receiving uses
  read_rx, \* the channel from tcp_recv_cb: each item the bytes of one Vec
  app,     \* the TcpStream and the poll_read in progress, if any
  wire,    \* what the last segment sent to the peer told it
  failed,  \* an LWIP_ASSERT stopped the process
  env      \* fixed: the length of the stream, whether the peer counts the FIN
           \* against the window, whether memory and output never fail

vars == <<pcb, read_rx, app, wire, failed, env>>

Lesser(a, b) == IF a <= b THEN a ELSE b

TcpLen(s) == s.len + IF s.fin THEN 1 ELSE 0
End(s) == s.seq + s.len
Data(s) == [i \in 1..s.len |-> s.seq + i - 1]

Init ==
  /\ pcb = [state |-> "ESTABLISHED", rcv_nxt |-> 0, rcv_wnd |-> WND, rcv_ann_wnd |-> WND,
            ann_right_edge |-> WND, delay |-> FALSE, now |-> FALSE, ooseq |-> <<>>]
  /\ read_rx = <<>>
  /\ app = [pc |-> "idle", room |-> 0, has_read |-> FALSE, write_buf |-> <<>>,
            is_eof |-> FALSE, read |-> 0, ended |-> FALSE]
  /\ wire = [ack |-> 0, edge |-> WND]
  /\ failed = FALSE
  /\ env \in [total : 0..MaxBytes, careful : BOOLEAN, plenty : BOOLEAN]

\* The lock is free: no poll_read is in its loop.
Idle == ~failed /\ app.pc = "idle"

-------------------------------------------------------------------------------
(* The announced window (tcp.c) and the ACKs (tcp_out.c).  A context is the   *)
(* pair of pcb and wire; sending gives the set of the possible outcomes.      *)

RightEdge(P) == P.rcv_nxt + P.rcv_wnd
Inflation(P) ==
  IF RightEdge(P) >= P.ann_right_edge + Step THEN RightEdge(P) - P.ann_right_edge ELSE 0

\* Mutant of UpdateAnnWnd: the window falls below zero when a probe of the peer
\* was taken beyond the announced edge.
UpdateAnnWndWraps(P) ==
  [P EXCEPT !.rcv_ann_wnd = IF Inflation(P) > 0 THEN P.rcv_wnd ELSE P.ann_right_edge - P.rcv_nxt]

\* Mutant of UpdateAnnWnd: the announced window is only ever raised.
UpdateAnnWndKeeps(P) == [P EXCEPT !.rcv_ann_wnd = IF Inflation(P) > 0 THEN P.rcv_wnd ELSE @]

\* Mutant of UpdateAnnWnd: growth too small to announce closes the window.
UpdateAnnWndCloses(P) == [P EXCEPT !.rcv_ann_wnd = IF Inflation(P) > 0 THEN P.rcv_wnd ELSE 0]

UpdateAnnWnd(P) ==
  [P EXCEPT !.rcv_ann_wnd =
     IF Inflation(P) > 0 THEN P.rcv_wnd
     ELSE IF P.rcv_nxt > P.ann_right_edge THEN 0
     ELSE P.ann_right_edge - P.rcv_nxt]

Announced(P) == [P EXCEPT !.ann_right_edge = P.rcv_nxt + P.rcv_ann_wnd]
AckFlags(P, on) == [P EXCEPT !.delay = on, !.now = on]

\* A segment that carries rcv_nxt and rcv_ann_wnd reached the network.
Sent(P) == [pcb |-> AckFlags(Announced(P), FALSE),
            wire |-> [ack |-> P.rcv_nxt, edge |-> P.rcv_nxt + P.rcv_ann_wnd]]

\* tcp_send_empty_ack: no pbuf, or an output that fails, leaves both flags.
SendEmptyAck(c) ==
  {Sent(c.pcb)} \cup
  IF env.plenty THEN {}
  ELSE {[c EXCEPT !.pcb = AckFlags(@, TRUE)], [c EXCEPT !.pcb = AckFlags(Announced(@), TRUE)]}

Output(c) == IF c.pcb.now THEN SendEmptyAck(c) ELSE {c}

AckNow(P) == [P EXCEPT !.now = TRUE]
\* Mutant of TcpAck: the second segment clears the delayed ACK and sends none.
TcpAckForgets(P) == [P EXCEPT !.delay = ~@]

TcpAck(P) == IF P.delay THEN AckNow([P EXCEPT !.delay = FALSE]) ELSE [P EXCEPT !.delay = TRUE]

Context(P) == [pcb |-> P, wire |-> wire]
Becomes(C) == \E c \in C : pcb' = c.pcb /\ wire' = c.wire

-------------------------------------------------------------------------------
(* tcp_receive (tcp_in.c).                                                    *)

\* The bytes below rcv_nxt are cut off a segment that reaches beyond it.
TrimFront(P, s) ==
  IF s.seq < P.rcv_nxt /\ P.rcv_nxt < s.seq + TcpLen(s)
  THEN [s EXCEPT !.seq = P.rcv_nxt, !.len = End(s) - P.rcv_nxt] ELSE s

InWindow(P, seq) == P.rcv_nxt <= seq /\ seq < RightEdge(P)

\* A segment cut at the right edge of the window loses its FIN.
TrimEnd(P, s) ==
  IF s.seq + TcpLen(s) > RightEdge(P) THEN [s EXCEPT !.len = RightEdge(P) - s.seq, !.fin = FALSE] ELSE s

\* ooseq is walked from its head up to the first segment of those in I.
First(Q, I) == Min(I \cup {Len(Q) + 1})
Until(Q, I) == SubSeq(Q, 1, First(Q, I) - 1)
From(Q, I) == SubSeq(Q, First(Q, I), Len(Q))

Beyond(Q, e) == From(Q, {i \in DOMAIN Q : End(Q[i]) > e})

\* s takes over the FIN of the segments it covers.
TakeFin(Q, s) == [s EXCEPT !.fin = \E i \in DOMAIN Q : Q[i].fin /\ End(Q[i]) <= End(s)]

\* s ends where the first segment of Q starts.
TrimToNext(Q, s) ==
  IF Q # <<>> /\ End(s) > Head(Q).seq THEN [s EXCEPT !.len = Head(Q).seq - s.seq] ELSE s

\* The segments of Q that s does not cover, after s; all of them if s has a FIN.
Splice(Q, s) ==
  IF s.fin THEN <<s>>
  ELSE LET rest == Beyond(Q, End(s)) IN <<TrimToNext(rest, TakeFin(Q, s))>> \o rest

\* Mutant of TrimLast: the segment before keeps its length.
TrimLastNot(Q, seq) == Q

TrimLast(Q, seq) ==
  IF Q # <<>> /\ End(Last(Q)) > seq THEN Front(Q) \o <<[Last(Q) EXCEPT !.len = seq - Last(Q).seq]>> ELSE Q

\* Where an out of order segment goes in ooseq; a shorter one than the segment
\* that starts at the same byte is ditched, and so is what follows a FIN.
Insert(P, s) ==
  LET stop   == {i \in DOMAIN P.ooseq : P.ooseq[i].seq >= s.seq}
      before == Until(P.ooseq, stop)
      after  == From(P.ooseq, stop)
      ditched == \/ after # <<>> /\ Head(after).seq = s.seq /\ s.len <= Head(after).len
                 \/ after = <<>> /\ before # <<>> /\ Last(before).fin
  IN IF ditched THEN P.ooseq
     ELSE TrimLast(before, s.seq) \o
          IF after = <<>> /\ before # <<>> THEN <<TrimEnd(P, s)>> ELSE Splice(after, s)

\* How many segments of L follow each other without a gap.
Run(L) == Max({n \in 1..Len(L) : \A j \in 2..n : L[j].seq = L[j - 1].seq + TcpLen(L[j - 1])})

\* The segments that a segment with the byte rcv_nxt puts in order, and the rest.
Spliced(P, s) == Splice(P.ooseq, TrimEnd(P, s))
InOrder(P, s) == SubSeq(Spliced(P, s), 1, Run(Spliced(P, s)))
Left(P, s) == SubSeq(Spliced(P, s), Run(Spliced(P, s)) + 1, Len(Spliced(P, s)))

Chunk(L) == FlattenSeq([i \in DOMAIN L |-> Data(L[i])])
GotFin(L) == \E i \in DOMAIN L : L[i].fin

\* rcv_nxt and rcv_wnd move over the segments L, and the ACK is scheduled.
Taken(P, s) ==
  LET L == InOrder(P, s)
      n == (Last(L).seq + TcpLen(Last(L))) - P.rcv_nxt
  IN TcpAck(UpdateAnnWnd([P EXCEPT !.rcv_nxt = @ + n, !.rcv_wnd = @ - n, !.ooseq = Left(P, s)]))

\* Mutant of TakenFin: the byte of the FIN is never given back to the window.
TakenFinKeepsByte(P) == [AckNow(P) EXCEPT !.state = "CLOSE_WAIT"]

\* tcp_process and tcp_input, once a FIN is taken.
TakenFin(P) ==
  [AckNow(P) EXCEPT !.state = "CLOSE_WAIT", !.rcv_wnd = IF @ # WND THEN @ + 1 ELSE @]

\* tcp_recv_cb: one Vec for the data, an empty one for the end of the stream.
RecvCb(chunk, fin) ==
  read_rx' = read_rx \o (IF chunk = <<>> THEN <<>> ELSE <<chunk>>)
                     \o (IF fin THEN << <<>> >> ELSE <<>>)

-------------------------------------------------------------------------------
(* tcp_input: a segment of the peer arrives.                                  *)

\* The peer respects the right edge it knows, counts the FIN against it if it
\* is careful, and probes a window of zero with one byte.
Arrives(s) ==
  /\ End(s) <= env.total
  /\ s.fin => End(s) = env.total
  /\ \/ (IF env.careful THEN s.seq + TcpLen(s) ELSE End(s)) <= wire.edge
     \/ wire.ack = wire.edge /\ s.seq = wire.edge /\ TcpLen(s) = 1

Segments == {s \in [seq : 0..MaxBytes, len : 0..SegMax, fin : BOOLEAN] : Arrives(s)}

HasText(s) == TcpLen(s) > 0 /\ pcb.state = "ESTABLISHED"

\* A segment without data or FIN, or after a FIN was taken.
InputNoText(s) ==
  /\ Idle /\ ~HasText(s)
  /\ Becomes(Output(Context(IF InWindow(pcb, s.seq) THEN pcb ELSE AckNow(pcb))))
  /\ UNCHANGED <<read_rx, app, failed, env>>

InputOutside(s) ==
  LET t == TrimFront(pcb, s)
      P == IF t.seq < pcb.rcv_nxt THEN AckNow(pcb) ELSE pcb
  IN /\ Idle /\ HasText(s) /\ ~InWindow(pcb, t.seq)
     /\ Becomes(UNION {Output(c) : c \in SendEmptyAck(Context(P))})
     /\ UNCHANGED <<read_rx, app, failed, env>>

\* The segment is copied into ooseq, unless memory fails.
InputOutOfOrder(s) ==
  /\ Idle /\ HasText(s) /\ InWindow(pcb, s.seq) /\ s.seq > pcb.rcv_nxt
  /\ \E Q \in {Insert(pcb, s)} \cup (IF env.plenty THEN {} ELSE {pcb.ooseq}) :
       Becomes(UNION {Output(c) : c \in SendEmptyAck(Context([pcb EXCEPT !.ooseq = Q]))})
  /\ UNCHANGED <<read_rx, app, failed, env>>

InputInOrder(s) ==
  LET t == TrimFront(pcb, s)
      L == InOrder(pcb, t)
      P == Taken(pcb, t)
  IN /\ Idle /\ HasText(s) /\ InWindow(pcb, t.seq) /\ t.seq = pcb.rcv_nxt
     /\ IF P.rcv_wnd < 0
        THEN failed' = TRUE /\ UNCHANGED <<pcb, wire, read_rx>>
        ELSE /\ Becomes(Output(Context(IF GotFin(L) THEN TakenFin(P) ELSE P)))
             /\ RecvCb(Chunk(L), GotFin(L))
             /\ UNCHANGED failed
     /\ UNCHANGED <<app, env>>

Input ==
  \E s \in Segments :
    InputNoText(s) \/ InputOutside(s) \/ InputOutOfOrder(s) \/ InputInOrder(s)

-------------------------------------------------------------------------------
(* Timer, the sending side, and the reader.                                   *)

\* tcp_fasttmr clears both flags whether or not the ACK went out.
FastTmr ==
  /\ Idle /\ pcb.delay
  /\ \E c \in Output(Context(AckNow(pcb))) : pcb' = AckFlags(c.pcb, FALSE) /\ wire' = c.wire
  /\ UNCHANGED <<read_rx, app, failed, env>>

\* A segment with data of this side goes out, or fails in ip_output.
SendData ==
  /\ Idle
  /\ Becomes({Sent(pcb)} \cup IF env.plenty THEN {} ELSE {Context(Announced(pcb))})
  /\ UNCHANGED <<read_rx, app, failed, env>>

\* Mutant of TcpRecved: a growth of exactly the threshold is not announced.
TcpRecvedAbove(P, len) ==
  LET Q == UpdateAnnWnd([P EXCEPT !.rcv_wnd = Lesser(@ + len, WND)])
  IN IF Inflation([P EXCEPT !.rcv_wnd = Lesser(@ + len, WND)]) > Threshold
     THEN Output(Context(AckNow(Q))) ELSE {Context(Q)}

TcpRecved(P, len) ==
  LET Q == UpdateAnnWnd([P EXCEPT !.rcv_wnd = Lesser(@ + len, WND)])
  IN IF Inflation([P EXCEPT !.rcv_wnd = Lesser(@ + len, WND)]) >= Threshold
     THEN Output(Context(AckNow(Q))) ELSE {Context(Q)}

\* poll_read takes the lock: what is left of an earlier Vec goes first.
PollRead(k) ==
  LET buf == app.write_buf
      n   == Lesser(k, Len(buf))
  IN /\ Idle /\ ~app.ended
     /\ IF buf = <<>> THEN app' = [app EXCEPT !.pc = "reading", !.room = k]
        ELSE app' = [app EXCEPT !.write_buf = SubSeq(buf, n + 1, Len(buf)), !.read = @ + n]
     /\ UNCHANGED <<pcb, read_rx, wire, failed, env>>

\* poll_read leaves its loop and releases the lock; Ok with no byte is the end.
Return(a) == [a EXCEPT !.pc = "idle", !.room = 0, !.has_read = FALSE]

ReadChunk ==
  LET data == Head(read_rx)
      n    == Lesser(app.room, Len(data))
      a    == [app EXCEPT !.read = @ + n, !.room = @ - n, !.has_read = TRUE,
                          !.write_buf = @ \o SubSeq(data, n + 1, Len(data))]
  IN /\ app.pc = "reading" /\ read_rx # <<>> /\ data # <<>>
     /\ Becomes(TcpRecved(pcb, Len(data)))
     /\ read_rx' = Tail(read_rx)
     /\ app' = IF n < Len(data) THEN Return(a) ELSE a
     /\ UNCHANGED <<failed, env>>

ReadEof ==
  /\ app.pc = "reading" /\ read_rx # <<>> /\ Head(read_rx) = <<>>
  /\ read_rx' = Tail(read_rx)
  /\ app' = Return([app EXCEPT !.is_eof = TRUE, !.ended = ~app.has_read])
  /\ UNCHANGED <<pcb, wire, failed, env>>

\* The channel is empty: Ok with what was read, the end, or Pending.
ReadEmpty ==
  /\ app.pc = "reading" /\ read_rx = <<>>
  /\ app' = Return([app EXCEPT !.ended = ~app.has_read /\ app.is_eof])
  /\ UNCHANGED <<pcb, read_rx, wire, failed, env>>

Next ==
  \/ Input \/ FastTmr \/ SendData
  \/ \E k \in 1..MaxRead : PollRead(k)
  \/ ReadChunk \/ ReadEof \/ ReadEmpty

Spec == Init /\ [][Next]_vars

-------------------------------------------------------------------------------

Unread == FlattenSeq(<<app.write_buf>> \o read_rx)
Finned == pcb.state = "CLOSE_WAIT"
Received == pcb.rcv_nxt - IF Finned THEN 1 ELSE 0

\* Types; rcv_ann_wnd, an unsigned number, never wraps below zero.
TypeOK ==
  /\ pcb \in [state : {"ESTABLISHED", "CLOSE_WAIT"}, rcv_nxt : 0..(MaxBytes + 1),
              rcv_wnd : 0..WND, rcv_ann_wnd : 0..WND, ann_right_edge : 0..(MaxBytes + 1 + WND),
              delay : BOOLEAN, now : BOOLEAN,
              ooseq : Seq([seq : 0..MaxBytes, len : 0..SegMax, fin : BOOLEAN])]
  /\ read_rx \in Seq(Seq(0..MaxBytes))
  /\ app \in [pc : {"idle", "reading"}, room : 0..MaxRead, has_read : BOOLEAN,
              write_buf : Seq(0..MaxBytes), is_eof : BOOLEAN, read : 0..MaxBytes,
              ended : BOOLEAN]
  /\ wire \in [ack : 0..(MaxBytes + 1), edge : 0..(MaxBytes + 1 + WND)]
  /\ failed \in BOOLEAN
  /\ env \in [total : 0..MaxBytes, careful : BOOLEAN, plenty : BOOLEAN]

\* Every byte that tcp_receive acknowledged is read by the application, waits in
\* write_buf or waits in the channel, once and in the order of the stream,
\* whatever was lost, repeated, reordered or overlapped; poll_read tells the end
\* of the stream after the last byte.
StreamInOrder ==
  /\ Received <= env.total
  /\ Unread = [i \in 1..(Received - app.read) |-> app.read + i - 1]
  /\ app.ended => Finned /\ app.read = env.total

\* rcv_wnd is TCP_WND less the bytes that wait in the unbounded channel, which
\* therefore never holds more than TCP_WND bytes.
WindowEquation == pcb.rcv_wnd = WND - Len(FlattenSeq(<< <<>> >> \o read_rx))

\* The right edge announced to the peer is never beyond what can be received; a
\* peer that obeys it, and counts its FIN as a byte, never makes an assertion on
\* the window fail (tcp_in.c:1559 and 1595).
EdgeHonest ==
  /\ wire.edge <= pcb.ann_right_edge /\ pcb.ann_right_edge <= RightEdge(pcb)
  /\ env.careful => ~failed

\* Neither the peer nor the reader's channel is promised room that is not there:
\* both.
WindowHonest == WindowEquation /\ EdgeHonest

\* The announced right edge never moves back.
EdgeNeverShrinks == [][wire'.edge >= wire.edge /\ pcb'.ann_right_edge >= pcb.ann_right_edge]_vars

\* When all is read the peer knows a window of more than TCP_WND less the
\* threshold: no reader leaves it with a window that stays closed.
WindowReopens ==
  Idle /\ env.plenty /\ ~Finned /\ read_rx = <<>> => wire.edge - pcb.rcv_nxt > WND - Threshold

\* What was received and not acknowledged yet has an ACK scheduled.
AckScheduled ==
  Idle /\ env.plenty => wire.ack = pcb.rcv_nxt \/ pcb.delay \/ pcb.now

\* The peer is told, now or by the timer, of all that was received and read:
\* both.
PeerIsTold == WindowReopens /\ AckScheduled
===============================================================================
