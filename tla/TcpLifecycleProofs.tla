-------------------------- MODULE TcpLifecycleProofs --------------------------
(***************************************************************************)
(* TcpLifecycle for any number of pcbs, streams, listeners and peers: its  *)
(* types, its peers and timer, and who owns a pcb.  The handlers compute   *)
(* new tables from old ones in several stages (tcp_alloc retries closes,   *)
(* kills, then allocates), so types and the ownership invariant are stated *)
(* of a pcb table P and a stream table S and each stage has its lemma.     *)
(***************************************************************************)
EXTENDS TcpLifecycle, TLAPS

-------------------------------------------------------------------------------
(* Types. *)

\* Beyond the types: a handshake's argument is no stream, and a live stream
\* has a pcb address.
TablesOK(P, S) ==
  /\ P \in [Pcbs -> Pcb]
  /\ S \in [Streams -> Stream]
  /\ \A p \in Pcbs : P[p].state = "SYN_RCVD" => P[p].arg \notin Streams
  /\ \A s \in Streams : S[s].holder # "none" => S[s].pcb \in Pcbs

TypeInv == TypeOK /\ TablesOK(pcb, stream)

\* The cut-off age is a number at least as large as every limit.
LEMMA MaxAgeNat ==
  MaxAge \in Nat /\ SynRcvdTicks \in Nat /\ MslTicks \in Nat /\ RtxTicks \in Nat
BY BoundsAssumption DEF MaxAge

\* A freed slot has the fields of a pcb.
LEMMA FreePcbType == FreePcb \in Pcb
BY MaxAgeNat DEF FreePcb, Pcb, States

\* tcp_free keeps the tables well typed.
LEMMA FreedType ==
  ASSUME NEW P, NEW S, TablesOK(P, S), NEW D PROVE TablesOK(Freed(P, D), S)
<1>1. Freed(P, D) \in [Pcbs -> Pcb]
  BY FreePcbType DEF TablesOK, Freed
<1>2. \A p \in Pcbs : Freed(P, D)[p].state = "SYN_RCVD" => Freed(P, D)[p].arg \notin Streams
  BY DEF TablesOK, Freed, FreePcb
<1> QED BY <1>1, <1>2 DEF TablesOK

\* tcp_err_cb keeps the tables well typed.
LEMMA ErrCbType ==
  ASSUME NEW P, NEW Q, NEW S, TablesOK(P, S), NEW D PROVE TablesOK(P, ErrCb(Q, S, D))
<1> DEFINE E == ErrCb(Q, S, D)
<1>1. ASSUME NEW s \in Streams
      PROVE E[s] \in Stream /\ E[s].holder = S[s].holder /\ E[s].pcb = S[s].pcb
  <2>1. S[s] \in Stream
    BY DEF TablesOK
  <2>2. E[s] = [S[s] EXCEPT !.errored = TRUE] \/ E[s] = S[s]
    BY DEF ErrCb
  <2>3. /\ [S[s] EXCEPT !.errored = TRUE] \in Stream
        /\ [S[s] EXCEPT !.errored = TRUE].holder = S[s].holder
        /\ [S[s] EXCEPT !.errored = TRUE].pcb = S[s].pcb
    BY <2>1 DEF Stream
  <2> HIDE DEF E
  <2> QED BY <2>1, <2>2, <2>3
<1>2. E \in [Streams -> Stream]
  BY <1>1 DEF ErrCb
<1> QED BY <1>1, <1>2 DEF TablesOK

\* tcp_close_shutdown_fin changes only the state and TF_CLOSEPEND of a pcb.
LEMMA CloseType ==
  ASSUME NEW q \in Pcb, NEW ok \in BOOLEAN
  PROVE /\ CloseShutdownFin(q, ok) \in Pcb
        /\ CloseShutdownFin(q, ok).state = "SYN_RCVD" => q.state = "SYN_RCVD"
        /\ CloseShutdownFin(q, ok).arg = q.arg
<1>1. CASE q.state \notin {"SYN_RCVD", "ESTABLISHED", "CLOSE_WAIT"}
  BY <1>1 DEF CloseShutdownFin
<1>2. CASE q.state \in {"SYN_RCVD", "ESTABLISHED", "CLOSE_WAIT"} /\ ~ok
  <2>1. CloseShutdownFin(q, ok) = [q EXCEPT !.closepend = TRUE]
    BY <1>2 DEF CloseShutdownFin
  <2> QED BY <2>1 DEF Pcb
<1>3. CASE q.state \in {"SYN_RCVD", "ESTABLISHED", "CLOSE_WAIT"} /\ ok
  <2>1. CloseShutdownFin(q, ok) =
          [q EXCEPT !.state = IF @ = "CLOSE_WAIT" THEN "LAST_ACK" ELSE "FIN_WAIT_1"]
    BY <1>3 DEF CloseShutdownFin
  <2> QED BY <2>1 DEF Pcb, States
<1> QED BY <1>1, <1>2, <1>3

\* Retrying the pending closes keeps the tables well typed.
LEMMA HandleClosependType ==
  ASSUME NEW P, NEW S, TablesOK(P, S), NEW ok PROVE TablesOK(HandleClosepend(P, ok), S)
<1> DEFINE H == HandleClosepend(P, ok)
<1>1. ASSUME NEW p \in Pcbs
      PROVE H[p] \in Pcb /\ (H[p].state = "SYN_RCVD" => H[p].arg \notin Streams)
  <2>1. P[p] \in Pcb
    BY DEF TablesOK
  <2>2. CASE p \in ClosePending(P)
    <3> DEFINE q == [P[p] EXCEPT !.closepend = FALSE]
    <3>1. q \in Pcb
      BY <2>1 DEF Pcb
    <3>2. q.state = P[p].state /\ q.arg = P[p].arg
      BY <2>1 DEF Pcb
    <3>3. H[p] = CloseShutdownFin(q, p \in ok)
      BY <2>2 DEF HandleClosepend
    <3> HIDE DEF q, H
    <3> DEFINE c == CloseShutdownFin(q, p \in ok)
    <3>4. (p \in ok) \in BOOLEAN
      OBVIOUS
    <3>5. c \in Pcb /\ (c.state = "SYN_RCVD" => q.state = "SYN_RCVD") /\ c.arg = q.arg
      BY <3>1, <3>4, CloseType
    <3> HIDE DEF c
    <3> QED BY <3>2, <3>3, <3>5 DEF TablesOK, c
  <2>3. CASE p \notin ClosePending(P)
    BY <2>3 DEF HandleClosepend, TablesOK
  <2> QED BY <2>2, <2>3
<1>2. H \in [Pcbs -> Pcb]
  BY <1>1 DEF HandleClosepend
<1> QED BY <1>1, <1>2 DEF TablesOK

\* Whoever tcp_alloc kills is a slot of the pool.
LEMMA VictimsSlots == ASSUME NEW P PROVE Victims(P) \subseteq Pcbs
BY DEF Victims, Oldest

\* tcp_alloc returns a slot or nothing, and well-typed tables.
LEMMA AllocType ==
  ASSUME TablesOK(pcb, stream), NEW o \in TcpAlloc
  PROVE o.slot \in Pcbs \cup {Null} /\ TablesOK(o.pcb, o.stream)
<1> DEFINE free == {p \in Pcbs : pcb[p].state = "FREE"}
<1>1. CASE free # {}
  <2>1. PICK p \in free : o = [slot |-> p, pcb |-> pcb, stream |-> stream]
    BY <1>1 DEF TcpAlloc
  <2> QED BY <2>1
<1>2. CASE free = {}
  <2>1. PICK ok \in SUBSET ClosePending(pcb) :
          LET Q == HandleClosepend(pcb, ok)
          IN \/ o = [slot |-> Null, pcb |-> Q, stream |-> stream]
             \/ \E v \in Victims(Q) :
                  o = [slot |-> v, pcb |-> Freed(Q, {v}),
                       stream |-> IF Q[v].state = "TIME_WAIT" THEN stream
                                  ELSE ErrCb(Q, stream, {v})]
    BY <1>2 DEF TcpAlloc
  <2> DEFINE Q == HandleClosepend(pcb, ok)
  <2>2. TablesOK(Q, stream)
    BY HandleClosependType
  <2>3. CASE o = [slot |-> Null, pcb |-> Q, stream |-> stream]
    BY <2>2, <2>3
  <2>4. ASSUME NEW v \in Victims(Q),
               o = [slot |-> v, pcb |-> Freed(Q, {v}),
                    stream |-> IF Q[v].state = "TIME_WAIT" THEN stream
                               ELSE ErrCb(Q, stream, {v})]
        PROVE o.slot \in Pcbs \cup {Null} /\ TablesOK(o.pcb, o.stream)
    <3>1. TablesOK(Freed(Q, {v}), stream)
      BY <2>2, FreedType
    <3>2. TablesOK(Freed(Q, {v}), ErrCb(Q, stream, {v}))
      BY <3>1, ErrCbType
    <3>3. v \in Pcbs
      BY VictimsSlots
    <3> HIDE DEF Q
    <3> QED BY <2>4, <3>1, <3>2, <3>3
  <2> QED BY <2>1, <2>3, <2>4
<1> QED BY <1>1, <1>2

\* Replacing one pcb.
LEMMA PutPcb ==
  ASSUME NEW P, NEW S, TablesOK(P, S), NEW p \in Pcbs, NEW q \in Pcb,
         q.state = "SYN_RCVD" => q.arg \notin Streams
  PROVE TablesOK([P EXCEPT ![p] = q], S)
BY DEF TablesOK

\* Replacing one stream.
LEMMA PutStream ==
  ASSUME NEW P, NEW S, TablesOK(P, S), NEW s \in Streams, NEW r \in Stream,
         r.holder # "none" => r.pcb \in Pcbs
  PROVE TablesOK(P, [S EXCEPT ![s] = r])
BY DEF TablesOK

\* A handshake starts with its listener as argument.
LEMMA NewPcbType ==
  ASSUME NEW c \in Conns, NEW l \in Listeners
  PROVE NewPcb(c, l) \in Pcb /\ NewPcb(c, l).arg = l
<1>1. ASSUME NEW q \in Pcb
      PROVE LET n == [q EXCEPT !.state = "SYN_RCVD", !.list = "active",
                               !.arg = l, !.listener = l, !.conn = c]
            IN n \in Pcb /\ n.arg = l
  BY <1>1 DEF Pcb, States
<1> QED BY <1>1, FreePcbType DEF NewPcb

\* Hearing from the peer resets the age only.
LEMMA HeardType ==
  ASSUME NEW q \in Pcb
  PROVE Heard(q) \in Pcb /\ Heard(q).state = q.state /\ Heard(q).arg = q.arg
BY MaxAgeNat DEF Heard, Pcb

\* Moving a pcb to another state keeps the rest of it.
LEMMA StateType ==
  ASSUME NEW q \in Pcb, NEW st \in States
  PROVE /\ [Heard(q) EXCEPT !.state = st] \in Pcb
        /\ [Heard(q) EXCEPT !.state = st].state = st
        /\ [Heard(q) EXCEPT !.state = st].arg = q.arg
BY HeardType DEF Pcb, Heard

\* Entering TIME_WAIT keeps the argument.
LEMMA TimeWaitType ==
  ASSUME NEW q \in Pcb
  PROVE ToTimeWait(q) \in Pcb /\ ToTimeWait(q).state = "TIME_WAIT" /\ ToTimeWait(q).arg = q.arg
BY HeardType DEF Pcb, Heard, ToTimeWait, States

\* Ageing touches only the age, and never passes MaxAge.
LEMMA OlderType ==
  ASSUME NEW q \in Pcb
  PROVE Older(q) \in Pcb /\ Older(q).state = q.state /\ Older(q).arg = q.arg
BY MaxAgeNat DEF Older, Pcb

\* The end of file sets one flag of one stream.
LEMMA EofType ==
  ASSUME TablesOK(pcb, stream), NEW P, TablesOK(P, stream), NEW p \in Pcbs
  PROVE TablesOK(P, EofCb(p))
<1> DEFINE E == EofCb(p)
<1>1. ASSUME NEW s \in Streams
      PROVE E[s] \in Stream /\ E[s].holder = stream[s].holder /\ E[s].pcb = stream[s].pcb
  <2>1. stream[s] \in Stream
    BY DEF TablesOK
  <2>2. E[s] = [stream[s] EXCEPT !.eof = TRUE] \/ E[s] = stream[s]
    BY DEF EofCb
  <2>3. /\ [stream[s] EXCEPT !.eof = TRUE] \in Stream
        /\ [stream[s] EXCEPT !.eof = TRUE].holder = stream[s].holder
        /\ [stream[s] EXCEPT !.eof = TRUE].pcb = stream[s].pcb
    BY <2>1 DEF Stream
  <2> HIDE DEF E
  <2> QED BY <2>1, <2>2, <2>3
<1>2. E \in [Streams -> Stream]
  BY <1>1 DEF EofCb
<1> QED BY <1>1, <1>2 DEF TablesOK

\* An empty entry has the fields of a stream.
LEMMA NoStreamType == NoStream \in Stream
BY DEF NoStream, Stream

\* The initial state is well typed.
LEMMA InitType == Init => TypeInv
<1> SUFFICES ASSUME Init PROVE TypeInv
  OBVIOUS
<1>1. pcb \in [Pcbs -> Pcb] /\ stream \in [Streams -> Stream]
  BY FreePcbType, NoStreamType DEF Init
<1>2. \A p \in Pcbs : pcb[p].state # "SYN_RCVD"
  BY DEF Init, FreePcb
<1>3. \A s \in Streams : stream[s].holder = "none"
  BY DEF Init, NoStream
<1>4. lpcbs \in Seq(Listeners) /\ Len(lpcbs) <= MaxListen
  BY BoundsAssumption DEF Init
<1> QED BY <1>1, <1>2, <1>3, <1>4 DEF Init, TypeInv, TypeOK, TablesOK

\* What a step that leaves the listeners alone has to show.
LEMMA SameListeners ==
  ASSUME TypeInv, UNCHANGED lpcbs, timer_active' \in BOOLEAN, tcp_timer' \in BOOLEAN,
         TablesOK(pcb', stream')
  PROVE TypeInv'
BY DEF TypeInv, TypeOK, TablesOK

\* The segment handlers keep the tables well typed.
LEMMA SegmentType == TypeInv /\ Segment => TypeInv'
<1> SUFFICES ASSUME TypeInv, Segment PROVE TypeInv'
  OBVIOUS
<1>a. /\ TablesOK(pcb, stream) /\ \A p \in Pcbs : pcb[p] \in Pcb
      /\ \A p \in Pcbs : pcb[p].state = "SYN_RCVD" => pcb[p].arg \notin Streams
      /\ timer_active \in BOOLEAN /\ tcp_timer \in BOOLEAN
      /\ lpcbs \in Seq(Listeners)
  BY DEF TypeInv, TypeOK, TablesOK
<1>b. \A p \in Pcbs : TablesOK(Freed(pcb, {p}), ErrCb(pcb, stream, {p}))
  BY <1>a, FreedType, ErrCbType
<1>c. \A p \in Pcbs, q \in Pcb :
        q.state # "SYN_RCVD" \/ (q.state = pcb[p].state /\ q.arg = pcb[p].arg) =>
          TablesOK([pcb EXCEPT ![p] = q], stream)
  BY <1>a, PutPcb
<1>d. \A p \in Pcbs, q \in Pcb :
        q.state # "SYN_RCVD" \/ (q.state = pcb[p].state /\ q.arg = pcb[p].arg) =>
          TablesOK([pcb EXCEPT ![p] = q], EofCb(p))
  BY <1>a, <1>c, EofType
<1>1. ASSUME NEW c \in Conns, RecvSyn(c) PROVE TypeInv'
  <2>1. PICK o \in TcpAlloc :
          /\ stream' = o.stream
          /\ \/ pcb' = o.pcb
             \/ o.slot # Null /\ pcb' = [o.pcb EXCEPT ![o.slot] = NewPcb(c, lpcbs[1])]
          /\ timer_active' = TRUE \/ timer_active' = timer_active
    BY <1>1 DEF RecvSyn
  <2>2. o.slot \in Pcbs \cup {Null} /\ TablesOK(o.pcb, o.stream)
    BY <1>a, AllocType
  <2>3. lpcbs[1] \in Listeners
    BY <1>a, <1>1 DEF RecvSyn
  <2>4. NewPcb(c, lpcbs[1]) \in Pcb
    BY <2>3, NewPcbType
  <2>5. NewPcb(c, lpcbs[1]).arg \notin Streams
    BY <2>3, NewPcbType, NamesAssumption
  <2>6. o.slot # Null => TablesOK([o.pcb EXCEPT ![o.slot] = NewPcb(c, lpcbs[1])], o.stream)
    BY <2>2, <2>4, <2>5, PutPcb
  <2>7. TablesOK(pcb', stream')
    BY <2>1, <2>2, <2>6
  <2> QED BY <1>a, <1>1, <2>1, <2>7, SameListeners DEF RecvSyn
<1>2. ASSUME NEW p \in Pcbs, NEW s \in Streams, NEW fin \in BOOLEAN, SynRcvdAccept(p, s, fin)
      PROVE TypeInv'
  <2> DEFINE q == [Heard(pcb[p]) EXCEPT
                     !.state = IF fin THEN "CLOSE_WAIT" ELSE "ESTABLISHED",
                     !.arg = s, !.cbs = TRUE]
             r == [NewStream(p, pcb[p].arg) EXCEPT !.eof = fin]
  <2>1. q \in Pcb /\ q.state # "SYN_RCVD"
    <3>1. Heard(pcb[p]) \in Pcb
      BY <1>a, HeardType
    <3> QED BY <3>1 DEF Pcb, States
  <2>2. pcb[p].arg \in Listeners
    BY <1>a, <1>2 DEF SynRcvdAccept, Pcb
  <2>3. r \in Stream /\ r.pcb = p
    BY <2>2 DEF NewStream, NoStream, Stream
  <2>4. pcb' = [pcb EXCEPT ![p] = q] /\ stream' = [stream EXCEPT ![s] = r]
    BY <1>2 DEF SynRcvdAccept
  <2>5. TablesOK([pcb EXCEPT ![p] = q], stream)
    BY <2>1, <1>c
  <2> HIDE DEF q, r
  <2>6. TablesOK(pcb', stream')
    BY <2>3, <2>4, <2>5, PutStream
  <2> QED BY <1>a, <1>2, <2>6, SameListeners DEF SynRcvdAccept
<1>3. ASSUME NEW p \in Pcbs, SynRcvdOrphan(p) PROVE TypeInv'
  BY <1>a, <1>b, <1>3, SameListeners DEF SynRcvdOrphan, Aborted
<1>4. ASSUME NEW p \in Pcbs, SynRcvdOther(p) PROVE TypeInv'
  BY <1>a, <1>c, <1>4, HeardType, SameListeners DEF SynRcvdOther
<1>5. ASSUME NEW p \in Pcbs, NEW fin \in BOOLEAN, EstablishedInput(p, fin) PROVE TypeInv'
  <2>1. PICK q \in Pcb : /\ pcb' = [pcb EXCEPT ![p] = q]
                         /\ q.state # "SYN_RCVD"
                         /\ stream' = EofCb(p) \/ stream' = stream
    <3>1. CASE fin
      BY <1>a, <1>5, <3>1, StateType DEF EstablishedInput, States
    <3>2. CASE ~fin
      BY <1>a, <1>5, <3>2, HeardType DEF EstablishedInput
    <3> QED BY <3>1, <3>2
  <2> QED BY <1>a, <1>c, <1>d, <1>5, <2>1, SameListeners, ZenonT(30) DEF EstablishedInput
<1>6. ASSUME NEW p \in Pcbs, NEW fin \in BOOLEAN, NEW acked \in BOOLEAN,
             FinWait1Input(p, fin, acked)
      PROVE TypeInv'
  <2>1. PICK q \in Pcb : /\ pcb' = [pcb EXCEPT ![p] = q]
                         /\ q.state # "SYN_RCVD"
                         /\ stream' = EofCb(p) \/ stream' = stream
    <3>1. CASE fin /\ acked
      BY <1>a, <1>6, <3>1, TimeWaitType DEF FinWait1Input
    <3>2. CASE fin /\ ~acked
      BY <1>a, <1>6, <3>2, StateType DEF FinWait1Input, States
    <3>3. CASE ~fin /\ acked
      BY <1>a, <1>6, <3>3, StateType DEF FinWait1Input, States
    <3>4. CASE ~fin /\ ~acked
      BY <1>a, <1>6, <3>4, HeardType DEF FinWait1Input
    <3> QED BY <3>1, <3>2, <3>3, <3>4
  <2>2. TablesOK(pcb', stream')
    BY <1>c, <1>d, <2>1
  <2>3. timer_active' \in BOOLEAN
    BY <1>6 DEF FinWait1Input
  <2> QED BY <1>a, <1>6, <2>2, <2>3, SameListeners DEF FinWait1Input
<1>7. ASSUME NEW p \in Pcbs, NEW fin \in BOOLEAN, FinWait2Input(p, fin) PROVE TypeInv'
  <2>1. PICK q \in Pcb : /\ pcb' = [pcb EXCEPT ![p] = q]
                         /\ q.state # "SYN_RCVD"
                         /\ stream' = EofCb(p) \/ stream' = stream
    BY <1>a, <1>7, HeardType, TimeWaitType DEF FinWait2Input
  <2> QED BY <1>a, <1>c, <1>d, <1>7, <2>1, SameListeners, ZenonT(30) DEF FinWait2Input
<1>8. ASSUME NEW p \in Pcbs, NEW acked \in BOOLEAN, ClosingInput(p, acked) PROVE TypeInv'
  <2>1. PICK q \in Pcb : pcb' = [pcb EXCEPT ![p] = q] /\ q.state # "SYN_RCVD"
    BY <1>a, <1>8, HeardType, TimeWaitType DEF ClosingInput
  <2> QED BY <1>a, <1>c, <1>8, <2>1, SameListeners DEF ClosingInput
<1>9. ASSUME NEW p \in Pcbs, NEW acked \in BOOLEAN, LastAckInput(p, acked) PROVE TypeInv'
  <2>1. TablesOK(pcb', stream')
    BY <1>a, <1>b, <1>c, <1>9, HeardType DEF LastAckInput
  <2> QED BY <1>a, <1>9, <2>1, SameListeners DEF LastAckInput
<1>10. ASSUME NEW p \in Pcbs, TimewaitInput(p) PROVE TypeInv'
  BY <1>a, <1>c, <1>10, HeardType, SameListeners DEF TimewaitInput
<1>11. ASSUME NEW p \in Pcbs, RecvRst(p) PROVE TypeInv'
  BY <1>a, <1>b, <1>11, SameListeners DEF RecvRst
<1> QED BY <1>1, <1>2, <1>3, <1>4, <1>5, <1>6, <1>7, <1>8, <1>9, <1>10, <1>11 DEF Segment

\* The timer keeps the tables well typed.
LEMMA TimerType == TypeInv /\ TcpTmr => TypeInv'
<1> SUFFICES ASSUME TypeInv, TcpTmr PROVE TypeInv'
  OBVIOUS
<1>1. PICK ok \in SUBSET ClosePending(pcb) :
        LET P == HandleClosepend(pcb, ok)
        IN \/ pcb' = P /\ UNCHANGED stream
           \/ \E dead \in SUBSET MayGiveUp(P) : SlowTmr(P, dead)
  BY DEF TcpTmr
<1> DEFINE P == HandleClosepend(pcb, ok)
<1>2. TablesOK(P, stream)
  BY HandleClosependType DEF TypeInv
<1>3. ASSUME NEW dead \in SUBSET MayGiveUp(P), SlowTmr(P, dead)
      PROVE TablesOK(pcb', stream')
  <2> HIDE DEF P
  <2> DEFINE gone == TimedOut(P) \cup dead
  <2>1. pcb' = [p \in Pcbs |-> IF p \in gone \cup TwExpired(P) THEN FreePcb
                               ELSE IF P[p].list \in {"active", "tw"} THEN Older(P[p])
                               ELSE P[p]]
    BY <1>3 DEF SlowTmr
  <2> HIDE DEF gone
  <2>2. ASSUME NEW p \in Pcbs
        PROVE pcb'[p] \in Pcb /\ (pcb'[p].state = "SYN_RCVD" => pcb'[p].arg \notin Streams)
    <3>1. P[p] \in Pcb /\ (P[p].state = "SYN_RCVD" => P[p].arg \notin Streams)
      BY <1>2 DEF TablesOK
    <3>2. Older(P[p]) \in Pcb /\ Older(P[p]).state = P[p].state /\ Older(P[p]).arg = P[p].arg
      BY <3>1, OlderType
    <3>3. FreePcb \in Pcb /\ FreePcb.state # "SYN_RCVD"
      BY FreePcbType DEF FreePcb
    <3> QED BY <2>1, <3>1, <3>2, <3>3
  <2>3. TablesOK(pcb', stream)
    BY <1>2, <2>1, <2>2 DEF TablesOK
  <2> QED BY <1>3, <2>3, ErrCbType DEF SlowTmr
<1>4. TablesOK(pcb', stream')
  BY <1>1, <1>2, <1>3
<1>5. UNCHANGED lpcbs /\ timer_active' \in BOOLEAN /\ tcp_timer' \in BOOLEAN
  BY DEF TcpTmr, StillNeeded
<1> QED BY <1>4, <1>5, SameListeners DEF TypeInv

\* Two pcb tables that agree on states and arguments are both well typed.
LEMMA SameStates ==
  ASSUME NEW P, NEW S, TablesOK(P, S), NEW Q \in [Pcbs -> Pcb],
         \A p \in Pcbs : Q[p].state = P[p].state /\ (Q[p].arg = P[p].arg \/ Q[p].arg = Null)
  PROVE TablesOK(Q, S)
BY NullAssumption DEF TablesOK

\* The application's calls keep the tables well typed.
LEMMA AppType == TypeInv /\ App => TypeInv'
<1> SUFFICES ASSUME TypeInv, App PROVE TypeInv'
  OBVIOUS
<1>a. /\ TablesOK(pcb, stream)
      /\ \A p \in Pcbs : pcb[p] \in Pcb
      /\ \A s \in Streams : stream[s] \in Stream
      /\ timer_active \in BOOLEAN /\ tcp_timer \in BOOLEAN
      /\ lpcbs \in Seq(Listeners) /\ Len(lpcbs) <= MaxListen
  BY DEF TypeInv, TypeOK, TablesOK
<1>1. ASSUME NEW l \in Listeners, NewListener(l) PROVE TypeInv'
  <2>1. PICK o \in TcpAlloc :
          /\ stream' = o.stream
          /\ \/ pcb' = o.pcb /\ UNCHANGED lpcbs
             \/ ~ListenPoolFull /\ pcb' = o.pcb /\ lpcbs' = <<l>> \o lpcbs
             \/ /\ o.slot # Null
                /\ pcb' = [o.pcb EXCEPT ![o.slot] =
                              [FreePcb EXCEPT !.state = "CLOSED", !.list = "bound"]]
                /\ UNCHANGED lpcbs
    BY <1>1 DEF NewListener
  <2>2. o.slot \in Pcbs \cup {Null} /\ TablesOK(o.pcb, o.stream)
    BY <1>a, AllocType
  <2>3. ASSUME NEW q \in Pcb
        PROVE LET b == [q EXCEPT !.state = "CLOSED", !.list = "bound"]
              IN b \in Pcb /\ b.state = "CLOSED"
    BY DEF Pcb, States
  <2>4. o.slot # Null =>
          TablesOK([o.pcb EXCEPT ![o.slot] =
                      [FreePcb EXCEPT !.state = "CLOSED", !.list = "bound"]], o.stream)
    BY <2>2, <2>3, FreePcbType, PutPcb
  <2>5. TablesOK(pcb', stream')
    BY <2>1, <2>2, <2>4
  <2>6. lpcbs' \in Seq(Listeners) /\ Len(lpcbs') <= MaxListen
    <3>1. CASE UNCHANGED lpcbs
      BY <1>a, <3>1
    <3>2. CASE ~ListenPoolFull /\ lpcbs' = <<l>> \o lpcbs
      <4>1. <<l>> \in Seq(Listeners) /\ Len(<<l>>) = 1
        OBVIOUS
      <4>2. lpcbs' \in Seq(Listeners) /\ Len(lpcbs') = 1 + Len(lpcbs)
        BY <1>a, <3>2, <4>1
      <4>3. Len(lpcbs) \in Nat /\ Len(lpcbs) < MaxListen
        BY <1>a, <3>2, BoundsAssumption DEF ListenPoolFull
      <4> QED BY <4>2, <4>3, BoundsAssumption
    <3> QED BY <2>1, <3>1, <3>2
  <2> QED BY <1>a, <1>1, <2>5, <2>6 DEF NewListener, TypeInv, TypeOK, TablesOK
<1>2. ASSUME NEW i \in DOMAIN lpcbs, DropListener(i) PROVE TypeInv'
  <2>1. lpcbs' \in Seq(Listeners) /\ Len(lpcbs') <= MaxListen
    <3>1. Len(lpcbs) \in Nat \ {0} /\ i \in 1 .. Len(lpcbs)
      BY <1>a
    <3>2. \A k \in 1 .. Len(lpcbs) - 1 :
            (IF k < i THEN lpcbs[k] ELSE lpcbs[k + 1]) \in Listeners
      BY <1>a, <3>1
    <3> QED BY <1>a, <1>2, <3>1, <3>2, BoundsAssumption DEF DropListener
  <2>2. ASSUME NEW q \in Pcb
        PROVE LET n == [q EXCEPT !.listener = Null]
              IN n \in Pcb /\ n.state = q.state /\ n.arg = q.arg
    BY DEF Pcb
  <2>3. \A p \in Pcbs : /\ pcb'[p] \in Pcb
                        /\ pcb'[p].state = pcb[p].state /\ pcb'[p].arg = pcb[p].arg
    BY <1>a, <1>2, <2>2 DEF DropListener, ListenClosed
  <2>4. pcb' \in [Pcbs -> Pcb]
    BY <1>2, <2>3 DEF DropListener, ListenClosed
  <2>5. TablesOK(pcb', stream)
    BY <1>a, <2>3, <2>4, SameStates
  <2> QED BY <1>a, <1>2, <2>1, <2>5 DEF DropListener, TypeInv, TypeOK, TablesOK
<1>3. ASSUME NEW s \in Streams, PollNext(s) PROVE TypeInv'
  <2>1. ASSUME NEW r \in Stream
        PROVE [r EXCEPT !.holder = "app"] \in Stream /\ [r EXCEPT !.holder = "app"].pcb = r.pcb
    BY DEF Stream
  <2>2. stream[s].pcb \in Pcbs
    BY <1>a, <1>3 DEF PollNext, Live, TablesOK
  <2>3. TablesOK(pcb, [stream EXCEPT ![s] = [stream[s] EXCEPT !.holder = "app"]])
    BY <1>a, <2>1, <2>2, PutStream
  <2>4. TablesOK(pcb', stream')
    BY <1>3, <2>3 DEF PollNext
  <2> QED BY <1>a, <1>3, <2>4, SameListeners DEF PollNext
<1>4. ASSUME NEW s \in Streams, PollShutdown(s) PROVE TypeInv'
  <2> DEFINE p == stream[s].pcb
  <2>1. p \in Pcbs
    BY <1>a, <1>4 DEF PollShutdown, TablesOK
  <2>2. ASSUME NEW r \in Stream
        PROVE /\ [r EXCEPT !.closed = TRUE] \in Stream
              /\ [r EXCEPT !.closed = TRUE].pcb = r.pcb
    BY DEF Stream
  <2>3. \A ok \in BOOLEAN : TablesOK([pcb EXCEPT ![p] = CloseShutdownFin(pcb[p], ok)], stream)
    <3> TAKE ok \in BOOLEAN
    <3> DEFINE c == CloseShutdownFin(pcb[p], ok)
    <3>1. pcb[p] \in Pcb /\ (pcb[p].state = "SYN_RCVD" => pcb[p].arg \notin Streams)
      BY <1>a, <2>1 DEF TablesOK
    <3>2. c \in Pcb /\ (c.state = "SYN_RCVD" => c.arg \notin Streams)
      BY <3>1, CloseType
    <3> HIDE DEF c, p
    <3>3. TablesOK([pcb EXCEPT ![p] = c], stream)
      BY <1>a, <2>1, <3>2, PutPcb
    <3> QED BY <3>3 DEF c
  <2>4. PICK Q : TablesOK(Q, stream) /\ pcb' = Q
    BY <1>a, <1>4, <2>3 DEF PollShutdown
  <2>5. PICK r \in Stream : r.pcb = p /\ stream' = [stream EXCEPT ![s] = r]
    <3>1. stream' = [stream EXCEPT ![s] = [stream[s] EXCEPT !.closed = TRUE]]
      BY <1>a, <1>4 DEF PollShutdown, TablesOK
    <3> QED BY <1>a, <2>2, <3>1
  <2> HIDE DEF p
  <2>6. TablesOK(pcb', stream')
    BY <2>1, <2>4, <2>5, PutStream
  <2> QED BY <1>a, <1>4, <2>6, SameListeners DEF PollShutdown
<1>5. ASSUME NEW s \in Streams, DropStream(s) PROVE TypeInv'
  <2> DEFINE p == stream[s].pcb
  <2>1. p \in Pcbs
    BY <1>a, <1>5 DEF DropStream, Live, TablesOK
  <2>2. ASSUME NEW q \in Pcb
        PROVE LET n == [q EXCEPT !.arg = Null, !.cbs = FALSE]
              IN n \in Pcb /\ n.state = q.state /\ n.arg = Null
    BY DEF Pcb
  <2>3. Detached(pcb, p) = [pcb EXCEPT ![p] = [pcb[p] EXCEPT !.arg = Null, !.cbs = FALSE]]
    BY <1>a, <2>1 DEF Detached, TablesOK
  <2>4. TablesOK(Detached(pcb, p), stream)
    <3> DEFINE n == [pcb[p] EXCEPT !.arg = Null, !.cbs = FALSE]
    <3>1. n \in Pcb /\ n.arg = Null
      BY <1>a, <2>1, <2>2
    <3>2. Null \notin Streams
      BY NullAssumption
    <3> HIDE DEF n, p
    <3>3. TablesOK([pcb EXCEPT ![p] = n], stream)
      BY <1>a, <2>1, <3>1, <3>2, PutPcb
    <3> QED BY <2>3, <3>3 DEF n
  <2>5. TablesOK(pcb', stream)
    BY <1>a, <1>5, <2>4, FreedType DEF DropStream, Aborted
  <2>6. NoStream \in Stream /\ NoStream.holder = "none"
    BY NoStreamType DEF NoStream
  <2>7. TablesOK(pcb', [stream EXCEPT ![s] = NoStream])
    BY <2>5, <2>6, PutStream
  <2> QED BY <1>a, <1>5, <2>7, SameListeners DEF DropStream
<1> QED BY <1>1, <1>2, <1>3, <1>4, <1>5 DEF App

\* TypeOK holds in every reachable state.
THEOREM TypeCorrect == Spec => []TypeOK
<1>1. TypeInv /\ UNCHANGED vars => TypeInv'
  BY DEF vars, TypeInv, TypeOK, TablesOK
<1>2. TypeInv /\ [Next]_vars => TypeInv'
  BY <1>1, SegmentType, TimerType, AppType DEF Next
<1>3. TypeInv => TypeOK
  BY DEF TypeInv
<1> QED BY InitType, <1>2, <1>3, PTL DEF Spec

-------------------------------------------------------------------------------
(* Connections: the pcbs tcp_input searches, the handshakes of a listener.     *)

Searched(q) == q.list \in {"active", "tw"}

\* A handshake tcp_accept_cb will be called for.
Awaited(q) == q.state = "SYN_RCVD" /\ q.listener # Null

\* A slot that held q and holds n holds no connection but q's.
Keeps(q, n) == Searched(n) => Searched(q) /\ n.conn = q.conn

\* Nor any handshake but q's, with q's listener and argument.
KeepsAccept(q, n) ==
  Awaited(n) => Awaited(q) /\ n.listener = q.listener /\ n.arg = q.arg

Same(q, n) == Keeps(q, n) /\ KeepsAccept(q, n)

\* A slot that does not change, or is given back, holds nothing new.
LEMMA OldSame == ASSUME NEW q PROVE Same(q, q) /\ Same(q, FreePcb)
BY DEF Same, Keeps, KeepsAccept, Searched, Awaited, FreePcb

\* Slots that hold nothing new one step after another hold nothing new.
LEMMA SameTransitive ==
  ASSUME NEW q, NEW m, NEW n, Same(q, m), Same(m, n) PROVE Same(q, n)
BY DEF Same, Keeps, KeepsAccept

\* Hearing from the peer, ageing and moving to a later state begin nothing new.
LEMMA MoveSame ==
  ASSUME NEW q \in Pcb, NEW st \in States \ {"SYN_RCVD"}
  PROVE /\ Same(q, Heard(q)) /\ Same(q, Older(q))
        /\ Same(q, [Heard(q) EXCEPT !.state = st])
        /\ Searched(q) => Same(q, ToTimeWait(q))
<1>1. LET n == Heard(q) IN n.state = q.state /\ n.list = q.list /\ n.conn = q.conn
                           /\ n.listener = q.listener /\ n.arg = q.arg
  BY DEF Heard, Pcb
<1>2. LET n == Older(q) IN n.state = q.state /\ n.list = q.list /\ n.conn = q.conn
                           /\ n.listener = q.listener /\ n.arg = q.arg
  BY DEF Older, Pcb
<1>3. LET n == [Heard(q) EXCEPT !.state = st]
      IN n.state = st /\ n.list = q.list /\ n.conn = q.conn
  BY DEF Heard, Pcb
<1>4. LET n == ToTimeWait(q) IN n.state = "TIME_WAIT" /\ n.conn = q.conn
  BY DEF Heard, ToTimeWait, Pcb
<1> QED BY <1>1, <1>2, <1>3, <1>4 DEF Same, Keeps, KeepsAccept, Searched, Awaited

\* Nor does closing.
LEMMA CloseSame ==
  ASSUME NEW q \in Pcb, NEW ok \in BOOLEAN, NEW b \in BOOLEAN
  PROVE /\ Same(q, CloseShutdownFin(q, ok))
        /\ Same(q, CloseShutdownFin([q EXCEPT !.closepend = b], ok))
<1>1. ASSUME NEW z \in Pcb PROVE Same(z, CloseShutdownFin(z, ok))
  <2> DEFINE n == CloseShutdownFin(z, ok)
  <2>1. CASE z.state \notin {"SYN_RCVD", "ESTABLISHED", "CLOSE_WAIT"}
    BY <2>1, OldSame DEF CloseShutdownFin
  <2>2. CASE z.state \in {"SYN_RCVD", "ESTABLISHED", "CLOSE_WAIT"} /\ ~ok
    <3>1. n = [z EXCEPT !.closepend = TRUE]
      BY <2>2 DEF CloseShutdownFin
    <3>2. n.state = z.state /\ n.list = z.list /\ n.conn = z.conn
          /\ n.listener = z.listener /\ n.arg = z.arg
      BY <3>1 DEF Pcb
    <3> QED BY <3>2 DEF Same, Keeps, KeepsAccept, Searched, Awaited
  <2>3. CASE z.state \in {"SYN_RCVD", "ESTABLISHED", "CLOSE_WAIT"} /\ ok
    <3>1. n = [z EXCEPT !.state = IF @ = "CLOSE_WAIT" THEN "LAST_ACK" ELSE "FIN_WAIT_1"]
      BY <2>3 DEF CloseShutdownFin
    <3>2. n.state # "SYN_RCVD" /\ n.list = z.list /\ n.conn = z.conn
      BY <3>1 DEF Pcb
    <3> QED BY <3>2 DEF Same, Keeps, KeepsAccept, Searched, Awaited
  <2> QED BY <2>1, <2>2, <2>3
<1> DEFINE z == [q EXCEPT !.closepend = b]
<1>2. z \in Pcb /\ z.state = q.state /\ z.list = q.list /\ z.conn = q.conn
      /\ z.listener = q.listener /\ z.arg = q.arg
  BY DEF Pcb
<1> HIDE DEF z
<1>3. Same(q, z)
  BY <1>2 DEF Same, Keeps, KeepsAccept, Searched, Awaited
<1>4. Same(z, CloseShutdownFin(z, ok))
  BY <1>1, <1>2
<1>5. Same(q, CloseShutdownFin(z, ok))
  BY <1>3, <1>4, SameTransitive
<1> QED BY <1>1, <1>5 DEF z

\* Retrying the pending closes begins nothing new.
LEMMA HandleClosependSame ==
  ASSUME NEW P, NEW S, TablesOK(P, S), NEW ok, NEW p \in Pcbs
  PROVE Same(P[p], HandleClosepend(P, ok)[p])
<1>1. P[p] \in Pcb /\ (p \in ok) \in BOOLEAN /\ FALSE \in BOOLEAN
  BY DEF TablesOK
<1>2. Same(P[p], CloseShutdownFin([P[p] EXCEPT !.closepend = FALSE], p \in ok))
  BY <1>1, CloseSame
<1>3. HandleClosepend(P, ok)[p] =
        IF p \in ClosePending(P)
        THEN CloseShutdownFin([P[p] EXCEPT !.closepend = FALSE], p \in ok) ELSE P[p]
  BY DEF HandleClosepend
<1> QED BY <1>2, <1>3, OldSame

\* tcp_alloc begins nothing new: it may retry, kill and free.
LEMMA AllocSame ==
  ASSUME TablesOK(pcb, stream), NEW o \in TcpAlloc, NEW p \in Pcbs
  PROVE Same(pcb[p], o.pcb[p])
<1>1. CASE o.pcb = pcb
  BY <1>1, OldSame
<1>2. ASSUME NEW ok, o.pcb = HandleClosepend(pcb, ok) PROVE Same(pcb[p], o.pcb[p])
  BY <1>2, HandleClosependSame
<1>3. ASSUME NEW ok, NEW v, o.pcb = Freed(HandleClosepend(pcb, ok), {v})
      PROVE Same(pcb[p], o.pcb[p])
  <2> DEFINE H == HandleClosepend(pcb, ok)
  <2>1. Same(pcb[p], H[p])
    BY HandleClosependSame
  <2> HIDE DEF H
  <2>2. o.pcb[p] = H[p] \/ o.pcb[p] = FreePcb
    BY <1>3 DEF Freed, H
  <2> QED BY <2>1, <2>2, OldSame
<1>4. \/ o.pcb = pcb
      \/ \E ok : o.pcb = HandleClosepend(pcb, ok)
      \/ \E ok, v : o.pcb = Freed(HandleClosepend(pcb, ok), {v})
  <2> DEFINE free == {x \in Pcbs : pcb[x].state = "FREE"}
  <2>1. CASE free # {}
    BY <2>1 DEF TcpAlloc
  <2>2. CASE free = {}
    <3>1. PICK ok \in SUBSET ClosePending(pcb) :
            LET Q == HandleClosepend(pcb, ok)
            IN \/ o = [slot |-> Null, pcb |-> Q, stream |-> stream]
               \/ \E v \in Victims(Q) :
                    o = [slot |-> v, pcb |-> Freed(Q, {v}),
                         stream |-> IF Q[v].state = "TIME_WAIT" THEN stream
                                    ELSE ErrCb(Q, stream, {v})]
      BY <2>2, ZenonT(30) DEF TcpAlloc
    <3> DEFINE Q == HandleClosepend(pcb, ok)
    <3>2. o.pcb = Q \/ \E v : o.pcb = Freed(Q, {v})
      <4> HIDE DEF Q
      <4> QED BY <3>1 DEF Q
    <3> QED BY <3>2
  <2> QED BY <2>1, <2>2
<1> QED BY <1>1, <1>2, <1>3, <1>4

\* Replacing one pcb.
LEMMA PutSame ==
  ASSUME NEW P, NEW S, TablesOK(P, S), NEW x, NEW n, x \in Pcbs => Same(P[x], n)
  PROVE \A p \in Pcbs : Same(P[p], [P EXCEPT ![x] = n][p])
<1>1. \A p \in Pcbs : [P EXCEPT ![x] = n][p] = IF p = x THEN n ELSE P[p]
  BY DEF TablesOK
<1> QED BY <1>1, OldSame

\* A segment for a pcb begins nothing new, whatever its state.
LEMMA InputSame ==
  ASSUME TypeInv, Segment, \A c \in Conns : ~RecvSyn(c)
  PROVE \A p \in Pcbs : Same(pcb[p], pcb'[p])
<1>a. TablesOK(pcb, stream) /\ \A p \in Pcbs : pcb[p] \in Pcb
  BY DEF TypeInv, TablesOK
<1>b. ASSUME NEW p \in Pcbs, NEW n, pcb' = [pcb EXCEPT ![p] = n], Same(pcb[p], n)
      PROVE \A x \in Pcbs : Same(pcb[x], pcb'[x])
  BY <1>a, <1>b, PutSame
<1>c. ASSUME NEW p \in Pcbs, pcb' = Freed(pcb, {p})
      PROVE \A x \in Pcbs : Same(pcb[x], pcb'[x])
  BY <1>c, OldSame DEF Freed
<1>d. ASSUME NEW p \in Pcbs
      PROVE /\ Same(pcb[p], Heard(pcb[p]))
            /\ \A st \in States \ {"SYN_RCVD"} : Same(pcb[p], [Heard(pcb[p]) EXCEPT !.state = st])
            /\ pcb[p].list = "active" => Same(pcb[p], ToTimeWait(pcb[p]))
  <2>1. "FREE" \in States \ {"SYN_RCVD"}
    BY DEF States
  <2> QED BY <1>a, <2>1, MoveSame DEF Searched
<1>1. ASSUME NEW p \in Pcbs, NEW s \in Streams, NEW fin \in BOOLEAN, SynRcvdAccept(p, s, fin)
      PROVE \A x \in Pcbs : Same(pcb[x], pcb'[x])
  <2> DEFINE n == [Heard(pcb[p]) EXCEPT
                     !.state = IF fin THEN "CLOSE_WAIT" ELSE "ESTABLISHED",
                     !.arg = s, !.cbs = TRUE]
  <2>1. pcb[p] \in Pcb /\ Heard(pcb[p]) \in Pcb
    BY <1>a, HeardType
  <2>2. Heard(pcb[p]).list = pcb[p].list /\ Heard(pcb[p]).conn = pcb[p].conn
    BY <2>1 DEF Heard, Pcb
  <2>3. n.state # "SYN_RCVD" /\ n.list = pcb[p].list /\ n.conn = pcb[p].conn
    BY <2>1, <2>2 DEF Pcb
  <2>4. pcb' = [pcb EXCEPT ![p] = n]
    BY <1>1 DEF SynRcvdAccept
  <2> HIDE DEF n
  <2>5. Same(pcb[p], n)
    BY <2>3 DEF Same, Keeps, KeepsAccept, Searched, Awaited
  <2> QED BY <1>b, <2>4, <2>5
<1>2. ASSUME NEW p \in Pcbs, SynRcvdOrphan(p) PROVE \A x \in Pcbs : Same(pcb[x], pcb'[x])
  BY <1>c, <1>2 DEF SynRcvdOrphan, Aborted
<1>3. ASSUME NEW p \in Pcbs, SynRcvdOther(p) PROVE \A x \in Pcbs : Same(pcb[x], pcb'[x])
  BY <1>b, <1>d, <1>3 DEF SynRcvdOther
<1>4. ASSUME NEW p \in Pcbs, NEW fin \in BOOLEAN, EstablishedInput(p, fin)
      PROVE \A x \in Pcbs : Same(pcb[x], pcb'[x])
  <2>1. CASE fin
    BY <1>b, <1>d, <1>4, <2>1 DEF EstablishedInput, States
  <2>2. CASE ~fin
    BY <1>b, <1>d, <1>4, <2>2 DEF EstablishedInput
  <2> QED BY <2>1, <2>2
<1>5. ASSUME NEW p \in Pcbs, NEW fin \in BOOLEAN, NEW acked \in BOOLEAN,
             FinWait1Input(p, fin, acked)
      PROVE \A x \in Pcbs : Same(pcb[x], pcb'[x])
  <2>1. CASE fin /\ acked
    BY <1>b, <1>d, <1>5, <2>1 DEF FinWait1Input
  <2>2. CASE fin /\ ~acked
    BY <1>b, <1>d, <1>5, <2>2 DEF FinWait1Input, States
  <2>3. CASE ~fin /\ acked
    BY <1>b, <1>d, <1>5, <2>3 DEF FinWait1Input, States
  <2>4. CASE ~fin /\ ~acked
    BY <1>b, <1>d, <1>5, <2>4 DEF FinWait1Input
  <2> QED BY <2>1, <2>2, <2>3, <2>4
<1>6. ASSUME NEW p \in Pcbs, NEW fin \in BOOLEAN, FinWait2Input(p, fin)
      PROVE \A x \in Pcbs : Same(pcb[x], pcb'[x])
  BY <1>b, <1>d, <1>6 DEF FinWait2Input
<1>7. ASSUME NEW p \in Pcbs, NEW acked \in BOOLEAN, ClosingInput(p, acked)
      PROVE \A x \in Pcbs : Same(pcb[x], pcb'[x])
  BY <1>b, <1>d, <1>7 DEF ClosingInput
<1>8. ASSUME NEW p \in Pcbs, NEW acked \in BOOLEAN, LastAckInput(p, acked)
      PROVE \A x \in Pcbs : Same(pcb[x], pcb'[x])
  BY <1>b, <1>c, <1>d, <1>8 DEF LastAckInput
<1>9. ASSUME NEW p \in Pcbs, TimewaitInput(p) PROVE \A x \in Pcbs : Same(pcb[x], pcb'[x])
  BY <1>b, <1>d, <1>9 DEF TimewaitInput
<1>10. ASSUME NEW p \in Pcbs, RecvRst(p) PROVE \A x \in Pcbs : Same(pcb[x], pcb'[x])
  BY <1>c, <1>10 DEF RecvRst
<1> QED BY <1>1, <1>2, <1>3, <1>4, <1>5, <1>6, <1>7, <1>8, <1>9, <1>10 DEF Segment

\* The timer begins nothing new.
LEMMA TimerSame ==
  ASSUME TypeInv, TcpTmr PROVE \A p \in Pcbs : Same(pcb[p], pcb'[p])
<1>1. PICK ok \in SUBSET ClosePending(pcb) :
        LET P == HandleClosepend(pcb, ok)
        IN \/ pcb' = P
           \/ \E dead \in SUBSET MayGiveUp(P) : SlowTmr(P, dead)
  BY DEF TcpTmr
<1> DEFINE P == HandleClosepend(pcb, ok)
<1>2. TablesOK(P, stream) /\ \A p \in Pcbs : Same(pcb[p], P[p])
  BY HandleClosependType, HandleClosependSame DEF TypeInv
<1> HIDE DEF P
<1>3. ASSUME NEW dead \in SUBSET MayGiveUp(P), SlowTmr(P, dead), NEW p \in Pcbs
      PROVE Same(pcb[p], pcb'[p])
  <2>1. pcb'[p] \in {FreePcb, Older(P[p]), P[p]}
    BY <1>3 DEF SlowTmr
  <2>2. P[p] \in Pcb /\ "FREE" \in States \ {"SYN_RCVD"}
    BY <1>2 DEF TablesOK, States
  <2>3. Same(P[p], Older(P[p]))
    BY <2>2, MoveSame
  <2> QED BY <1>2, <2>1, <2>3, OldSame, SameTransitive
<1> QED BY <1>1, <1>2, <1>3 DEF P

\* Nor does the application, unless it drops a stream.
LEMMA AppSame ==
  ASSUME TypeInv, App, \A s \in Streams : ~DropStream(s)
  PROVE \A p \in Pcbs : Same(pcb[p], pcb'[p])
<1>a. TablesOK(pcb, stream) /\ \A p \in Pcbs : pcb[p] \in Pcb
  BY DEF TypeInv, TablesOK
<1>1. ASSUME NEW l \in Listeners, NewListener(l) PROVE \A p \in Pcbs : Same(pcb[p], pcb'[p])
  <2> DEFINE n == [FreePcb EXCEPT !.state = "CLOSED", !.list = "bound"]
  <2>1. PICK o \in TcpAlloc : pcb' = o.pcb \/ pcb' = [o.pcb EXCEPT ![o.slot] = n]
    BY <1>1 DEF NewListener
  <2>2. TablesOK(o.pcb, o.stream) /\ \A p \in Pcbs : Same(pcb[p], o.pcb[p])
    BY <1>a, AllocType, AllocSame
  <2>3. n.list = "bound" /\ n.state = "CLOSED"
    BY DEF FreePcb
  <2> HIDE DEF n
  <2>4. \A q : Same(q, n)
    BY <2>3 DEF Same, Keeps, KeepsAccept, Searched, Awaited
  <2>5. \A p \in Pcbs : Same(o.pcb[p], [o.pcb EXCEPT ![o.slot] = n][p])
    BY <2>2, <2>4, PutSame
  <2> QED BY <2>1, <2>2, <2>5, SameTransitive
<1>2. ASSUME NEW i \in DOMAIN lpcbs, DropListener(i) PROVE \A p \in Pcbs : Same(pcb[p], pcb'[p])
  <2>1. ASSUME NEW p \in Pcbs PROVE Same(pcb[p], pcb'[p])
    <3>1. pcb'[p] = pcb[p] \/ pcb'[p] = [pcb[p] EXCEPT !.listener = Null]
      BY <1>2 DEF DropListener, ListenClosed
    <3>2. ASSUME NEW q \in Pcb
          PROVE LET n == [q EXCEPT !.listener = Null]
                IN n.list = q.list /\ n.conn = q.conn /\ n.listener = Null
      BY DEF Pcb
    <3>3. Same(pcb[p], [pcb[p] EXCEPT !.listener = Null])
      BY <1>a, <3>2 DEF Same, Keeps, KeepsAccept, Searched, Awaited
    <3> QED BY <3>1, <3>3, OldSame
  <2> QED BY <2>1
<1>3. ASSUME NEW s \in Streams, PollNext(s) PROVE \A p \in Pcbs : Same(pcb[p], pcb'[p])
  BY <1>3, OldSame DEF PollNext
<1>4. ASSUME NEW s \in Streams, PollShutdown(s) PROVE \A p \in Pcbs : Same(pcb[p], pcb'[p])
  <2>1. PICK ok \in BOOLEAN :
          pcb' = [pcb EXCEPT ![stream[s].pcb] = CloseShutdownFin(pcb[stream[s].pcb], ok)]
    BY <1>4 DEF PollShutdown
  <2>2. stream[s].pcb \in Pcbs =>
          Same(pcb[stream[s].pcb], CloseShutdownFin(pcb[stream[s].pcb], ok))
    BY <1>a, CloseSame
  <2> QED BY <1>a, <2>1, <2>2, PutSame
<1> QED BY <1>1, <1>2, <1>3, <1>4 DEF App

\* Dropping a stream touches no list but to take a pcb out of it.
LEMMA DropKeeps ==
  ASSUME TypeInv, NEW s \in Streams, DropStream(s)
  PROVE \A p \in Pcbs : Keeps(pcb[p], pcb'[p])
<1> SUFFICES ASSUME NEW p \in Pcbs PROVE Keeps(pcb[p], pcb'[p])
  OBVIOUS
<1> DEFINE d == stream[s].pcb
           n == [pcb[d] EXCEPT !.arg = Null, !.cbs = FALSE]
<1>1. d \in Pcbs /\ pcb \in [Pcbs -> Pcb]
  BY DEF TypeInv, TablesOK, DropStream, Live
<1>2. n.list = pcb[d].list /\ n.conn = pcb[d].conn
  BY <1>1 DEF Pcb
<1>3. Detached(pcb, d) = [pcb EXCEPT ![d] = n]
  BY <1>1 DEF Detached
<1> HIDE DEF n, d
<1>4. pcb'[p] \in {pcb[p], FreePcb} \/ (p = d /\ pcb'[p] = n)
  BY <1>1, <1>3 DEF DropStream, Aborted, Freed, d
<1> QED BY <1>2, <1>4 DEF Keeps, Searched, FreePcb

ConnInv == TypeInv /\ UniqueTuple /\ TimerArmed

\* Slots that hold nothing new stay distinct, and need the timer no more than
\* before.
LEMMA KeepsConn ==
  ASSUME UniqueTuple, \A p \in Pcbs : Keeps(pcb[p], pcb'[p])
  PROVE /\ UniqueTuple'
        /\ (\E p \in Pcbs : pcb'[p].list \in {"active", "tw"}) =>
             \E p \in Pcbs : pcb[p].list \in {"active", "tw"}
BY DEF UniqueTuple, Keeps, Searched

\* A handshake begins only for a peer tcp_input found no pcb of, and arms the
\* timer (TCP_REG_ACTIVE).
LEMMA SynConn == ASSUME ConnInv, NEW c \in Conns, RecvSyn(c) PROVE UniqueTuple' /\ TimerArmed'
<1>1. PICK o \in TcpAlloc :
        \/ pcb' = o.pcb /\ (timer_active' = timer_active \/ timer_active' = TRUE)
        \/ /\ o.slot # Null /\ pcb' = [o.pcb EXCEPT ![o.slot] = NewPcb(c, lpcbs[1])]
           /\ timer_active' = TRUE
  BY DEF RecvSyn
<1>2. /\ TablesOK(pcb, stream) /\ TablesOK(o.pcb, o.stream) /\ o.slot \in Pcbs \cup {Null}
      /\ \A p \in Pcbs : Keeps(pcb[p], o.pcb[p])
  BY AllocType, AllocSame DEF ConnInv, TypeInv, Same
<1>3. CASE pcb' = o.pcb /\ (timer_active' = timer_active \/ timer_active' = TRUE)
  BY <1>2, <1>3, KeepsConn DEF ConnInv, TimerArmed
<1>4. CASE /\ o.slot # Null /\ pcb' = [o.pcb EXCEPT ![o.slot] = NewPcb(c, lpcbs[1])]
           /\ timer_active' = TRUE
  <2>1. \A p \in Pcbs : Searched(pcb[p]) => pcb[p].conn # c
    BY DEF RecvSyn, Matching, Searched
  <2>2. \A p \in Pcbs : p # o.slot => Keeps(pcb[p], pcb'[p])
    BY <1>2, <1>4 DEF TablesOK
  <2>3. NewPcb(c, lpcbs[1]).conn = c
    BY DEF NewPcb, FreePcb
  <2>4. pcb'[o.slot].conn = c
    BY <1>2, <1>4, <2>3 DEF TablesOK
  <2>5. UniqueTuple'
    BY <2>1, <2>2, <2>4 DEF ConnInv, UniqueTuple, Keeps, Searched
  <2> QED BY <1>4, <2>5 DEF TimerArmed
<1> QED BY <1>1, <1>3, <1>4

\* Every step keeps the connections distinct and the timer armed.
LEMMA StepConn == ConnInv /\ [Next]_vars => UniqueTuple' /\ TimerArmed'
<1> SUFFICES ASSUME ConnInv, [Next]_vars PROVE UniqueTuple' /\ TimerArmed'
  OBVIOUS
<1>1. TypeInv
  BY DEF ConnInv
<1>2. CASE TcpTmr
  <2>1. \A p \in Pcbs : Keeps(pcb[p], pcb'[p])
    BY <1>1, <1>2, TimerSame DEF Same
  <2>2. timer_active' = \E p \in Pcbs : pcb'[p].list \in {"active", "tw"}
    BY <1>2 DEF TcpTmr, StillNeeded
  <2> QED BY <2>1, <2>2, KeepsConn DEF ConnInv, TimerArmed
<1>3. ASSUME \A p \in Pcbs : Keeps(pcb[p], pcb'[p]), timer_active => timer_active'
      PROVE UniqueTuple' /\ TimerArmed'
  BY <1>3, KeepsConn DEF ConnInv, TimerArmed
<1>4. CASE Segment /\ \A c \in Conns : ~RecvSyn(c)
  <2>1. timer_active => timer_active'
    BY <1>4 DEF Segment, SynRcvdAccept, SynRcvdOrphan, SynRcvdOther, EstablishedInput,
         FinWait1Input, FinWait2Input, ClosingInput, LastAckInput, TimewaitInput, RecvRst
  <2> QED BY <1>1, <1>3, <1>4, <2>1, InputSame DEF Same
<1>5. CASE App
  <2>1. timer_active => timer_active'
    BY <1>5 DEF App, NewListener, DropListener, PollNext, PollShutdown, DropStream
  <2>2. \A p \in Pcbs : Keeps(pcb[p], pcb'[p])
    BY <1>1, <1>5, AppSame, DropKeeps DEF Same
  <2> QED BY <1>3, <2>1, <2>2
<1>6. CASE UNCHANGED vars
  BY <1>6 DEF vars, ConnInv, UniqueTuple, TimerArmed
<1> QED BY <1>2, <1>4, <1>5, <1>6, SynConn DEF Next, Segment

\* Nothing is connected at the start.
LEMMA InitConn == Init => ConnInv
<1> SUFFICES ASSUME Init PROVE UniqueTuple /\ TimerArmed
  BY InitType DEF ConnInv
<1>1. \A p \in Pcbs : pcb[p].list = "none"
  BY DEF Init, FreePcb
<1> QED BY <1>1 DEF UniqueTuple, TimerArmed

\* The invariant, whatever the application does: PromptDrop is not assumed.
LEMMA ConnInvariant == Spec => []ConnInv
<1>1. TypeInv /\ [Next]_vars => TypeInv'
  BY SegmentType, TimerType, AppType DEF Next, vars, TypeInv, TypeOK, TablesOK
<1>2. ConnInv /\ [Next]_vars => ConnInv'
  BY <1>1, StepConn DEF ConnInv
<1> QED BY InitConn, <1>2, PTL DEF Spec

\* tcp_input finds at most one pcb for a peer, active or in TIME_WAIT, even if
\* the application keeps a stream whose pcb lwIP has given to another.
THEOREM OnePcbPerPeer == Spec => []UniqueTuple
<1>1. ConnInv => UniqueTuple
  BY DEF ConnInv
<1> QED BY <1>1, ConnInvariant, PTL

\* tcp_tmr stays scheduled as long as a pcb waits for it.
THEOREM TimerRuns == Spec => []TimerArmed
<1>1. ConnInv => TimerArmed
  BY DEF ConnInv
<1> QED BY <1>1, ConnInvariant, PTL

-------------------------------------------------------------------------------
(* Ownership.  A pcb and the stream that calls it its own agree on the phase of *)
(* the connection; the rest follows from that agreement.                        *)

Open == {"ESTABLISHED", "CLOSE_WAIT"}

PeerClosed == {"CLOSE_WAIT", "LAST_ACK", "CLOSING", "TIME_WAIT"}

Connected == Open \cup PeerClosed \cup {"FIN_WAIT_1", "FIN_WAIT_2"}

\* What a pcb q and the stream r that points to it agree on.
Fits(q, r) ==
  /\ q.state \in Connected
  /\ ~r.closed => q.state \in Open
  /\ r.eof <=> q.state \in PeerClosed
  /\ r.closed /\ q.state \in Open => q.closepend
  /\ q.closepend => r.closed

\* A pcb is in the list of its state, and nobody closes a handshake.
Sane(q) ==
  /\ q.state = "SYN_RCVD" => ~q.closepend
  /\ q.list = "tw" <=> q.state = "TIME_WAIT"
  /\ q.list = "bound" <=> q.state = "CLOSED"
  /\ q.list = "none" <=> q.state = "FREE"

\* A stream that is alive and was told of no error.
Holds(S, s) == S[s].holder # "none" /\ ~S[s].errored

Owns(P, S) ==
  /\ \A p \in Pcbs : Sane(P[p])
  /\ \A s \in Streams : Holds(S, s) =>
       /\ P[S[s].pcb].cbs /\ P[S[s].pcb].arg = s
       /\ Fits(P[S[s].pcb], S[s])
  /\ \A p \in Pcbs : P[p].cbs =>
       \E s \in Streams : P[p].arg = s /\ Holds(S, s) /\ S[s].pcb = p
  /\ \A p \in Pcbs : ~P[p].cbs /\ P[p].state \in Open => P[p].closepend

\* Streams told of the pcbs they lose keep the rest in order: E covers every
\* pcb of D that has callbacks, and no other pcb that has.
LEMMA FreedOwns ==
  ASSUME NEW P, NEW S, TablesOK(P, S), Owns(P, S), NEW D, NEW E,
         \A p \in Pcbs : P[p].cbs => (p \in D <=> p \in E),
         E \subseteq Pcbs
  PROVE Owns(Freed(P, D), ErrCb(P, S, E))
<1> DEFINE F == Freed(P, D)
          T == ErrCb(P, S, E)
<1>a. \A p \in Pcbs : IF p \in D THEN F[p] = FreePcb ELSE F[p] = P[p]
  BY DEF Freed
<1>b. FreePcb.state = "FREE" /\ FreePcb.list = "none" /\ ~FreePcb.cbs
  BY DEF FreePcb
<1>c. ASSUME NEW s \in Streams
      PROVE IF \E p \in E : P[p].cbs /\ P[p].arg = s THEN T[s].errored ELSE T[s] = S[s]
  <2>1. [S[s] EXCEPT !.errored = TRUE].errored
    BY DEF TablesOK, Stream
  <2> QED BY <2>1 DEF ErrCb
<1> HIDE DEF F, T
<1>1. ASSUME NEW p \in Pcbs PROVE Sane(F[p])
  BY <1>a, <1>b DEF Owns, Sane
<1>2. ASSUME NEW s \in Streams, Holds(T, s)
      PROVE F[T[s].pcb].cbs /\ F[T[s].pcb].arg = s /\ Fits(F[T[s].pcb], T[s])
  <2>1. T[s] = S[s] /\ ~(\E p \in E : P[p].cbs /\ P[p].arg = s)
    BY <1>2, <1>c DEF Holds
  <2>2. Holds(S, s)
    BY <1>2, <2>1 DEF Holds
  <2>3. P[S[s].pcb].cbs /\ P[S[s].pcb].arg = s /\ Fits(P[S[s].pcb], S[s]) /\ S[s].pcb \in Pcbs
    BY <2>2 DEF Owns, TablesOK, Holds
  <2>4. F[S[s].pcb] = P[S[s].pcb]
    BY <2>1, <2>3, <1>a
  <2> QED BY <2>1, <2>3, <2>4
<1>3. ASSUME NEW p \in Pcbs, F[p].cbs
      PROVE \E s \in Streams : F[p].arg = s /\ Holds(T, s) /\ T[s].pcb = p
  <2>1. F[p] = P[p] /\ p \notin D /\ P[p].cbs /\ p \notin E
    BY <1>3, <1>a, <1>b
  <2>2. PICK s \in Streams : P[p].arg = s /\ Holds(S, s) /\ S[s].pcb = p
    BY <2>1 DEF Owns
  <2>3. ASSUME NEW x \in E, P[x].cbs, P[x].arg = s PROVE FALSE
    <3>1. x = p
      BY <2>2, <2>3 DEF Owns
    <3> QED BY <3>1, <2>1, <2>3
  <2>4. T[s] = S[s]
    BY <2>3, <1>c
  <2> QED BY <2>1, <2>2, <2>4 DEF Holds
<1>4. ASSUME NEW p \in Pcbs, ~F[p].cbs, F[p].state \in Open PROVE F[p].closepend
  <2>1. F[p] = P[p]
    BY <1>4, <1>a, <1>b DEF Open
  <2> QED BY <2>1, <1>4 DEF Owns
<1> QED BY <1>1, <1>2, <1>3, <1>4 DEF Owns, F, T

\* A pcb table where every pcb follows its old self: same callbacks, its own
\* list, and still in agreement with whatever stream it agreed with.
Follows(q, n) ==
  /\ n.cbs <=> q.cbs
  /\ Sane(n)
  /\ q.cbs => n.arg = q.arg /\ \A r \in Stream : Fits(q, r) => Fits(n, r)
  /\ ~q.cbs /\ n.state \in Open => n.closepend

\* If every pcb follows its old self the tables still agree.
LEMMA FollowsOwns ==
  ASSUME NEW P, NEW S, TablesOK(P, S), Owns(P, S), NEW Q,
         \A p \in Pcbs : Follows(P[p], Q[p])
  PROVE Owns(Q, S)
<1>1. ASSUME NEW s \in Streams, Holds(S, s)
      PROVE Q[S[s].pcb].cbs /\ Q[S[s].pcb].arg = s /\ Fits(Q[S[s].pcb], S[s])
  <2>1. S[s].pcb \in Pcbs /\ S[s] \in Stream
    BY <1>1 DEF TablesOK, Holds
  <2>2. P[S[s].pcb].cbs /\ P[S[s].pcb].arg = s /\ Fits(P[S[s].pcb], S[s])
    BY <1>1 DEF Owns
  <2> QED BY <2>1, <2>2 DEF Follows
<1>2. ASSUME NEW p \in Pcbs, Q[p].cbs
      PROVE \E s \in Streams : Q[p].arg = s /\ Holds(S, s) /\ S[s].pcb = p
  <2>1. P[p].cbs /\ Q[p].arg = P[p].arg
    BY <1>2 DEF Follows
  <2> QED BY <2>1 DEF Owns
<1>3. \A p \in Pcbs : Sane(Q[p]) /\ (~Q[p].cbs /\ Q[p].state \in Open => Q[p].closepend)
  BY DEF Follows
<1> QED BY <1>1, <1>2, <1>3 DEF Owns

\* A pcb that does not change follows itself.
LEMMA SelfFollows ==
  ASSUME NEW P, NEW S, Owns(P, S), NEW p \in Pcbs PROVE Follows(P[p], P[p])
BY DEF Owns, Follows

\* Replacing one pcb by one that follows it.
LEMMA PutFollows ==
  ASSUME NEW P, NEW S, TablesOK(P, S), Owns(P, S), NEW p \in Pcbs, NEW n,
         Follows(P[p], n)
  PROVE Owns([P EXCEPT ![p] = n], S)
<1> DEFINE Q == [P EXCEPT ![p] = n]
<1>1. \A x \in Pcbs : Q[x] = IF x = p THEN n ELSE P[x]
  BY DEF TablesOK
<1>2. \A x \in Pcbs : Follows(P[x], Q[x])
  BY <1>1, SelfFollows
<1> HIDE DEF Q
<1>3. Owns(Q, S)
  BY <1>2, FollowsOwns
<1> QED BY <1>3 DEF Q

\* tcp_close_shutdown_fin on a pcb whose stream is closed, or which has none.
LEMMA CloseFollows ==
  ASSUME NEW q \in Pcb, Sane(q), q.closepend, NEW ok \in BOOLEAN
  PROVE Follows(q, CloseShutdownFin([q EXCEPT !.closepend = FALSE], ok))
<1> DEFINE z == [q EXCEPT !.closepend = FALSE]
          n == CloseShutdownFin(z, ok)
<1>1. /\ z \in Pcb /\ ~z.closepend
      /\ z.state = q.state /\ z.list = q.list /\ z.cbs = q.cbs /\ z.arg = q.arg
  BY DEF Pcb
<1> HIDE DEF z
<1>2. ASSUME z.state \notin {"SYN_RCVD", "ESTABLISHED", "CLOSE_WAIT"} PROVE Follows(q, n)
  <2>1. n = z
    BY <1>2 DEF CloseShutdownFin
  <2> HIDE DEF n
  <2> QED BY <1>1, <1>2, <2>1 DEF Follows, Sane, Fits, Open
<1>3. ASSUME z.state \in {"SYN_RCVD", "ESTABLISHED", "CLOSE_WAIT"}, ~ok PROVE Follows(q, n)
  <2>1. n = [z EXCEPT !.closepend = TRUE]
    BY <1>3 DEF CloseShutdownFin
  <2>2. n.closepend /\ n.state = z.state /\ n.list = z.list /\ n.cbs = z.cbs /\ n.arg = z.arg
    BY <1>1, <2>1 DEF Pcb
  <2> HIDE DEF n
  <2> QED BY <1>1, <2>2 DEF Follows, Sane, Fits
<1>4. ASSUME z.state \in {"SYN_RCVD", "ESTABLISHED", "CLOSE_WAIT"}, ok PROVE Follows(q, n)
  <2>1. n = [z EXCEPT !.state = IF @ = "CLOSE_WAIT" THEN "LAST_ACK" ELSE "FIN_WAIT_1"]
    BY <1>4 DEF CloseShutdownFin
  <2>2. /\ n.state = IF z.state = "CLOSE_WAIT" THEN "LAST_ACK" ELSE "FIN_WAIT_1"
        /\ ~n.closepend /\ n.list = z.list /\ n.cbs = z.cbs /\ n.arg = z.arg
    BY <1>1, <2>1 DEF Pcb
  <2> HIDE DEF n
  <2>3. Sane(n)
    BY <1>1, <1>4, <2>2 DEF Sane
  <2>4. ASSUME NEW r \in Stream, Fits(q, r) PROVE Fits(n, r)
    BY <1>1, <1>4, <2>2, <2>4 DEF Fits, Connected, Open, PeerClosed
  <2> QED BY <1>1, <2>2, <2>3, <2>4 DEF Follows, Open
<1>5. Follows(q, n)
  BY <1>2, <1>3, <1>4
<1> QED BY <1>5 DEF z

\* Retrying the pending closes keeps ownership.
LEMMA HandleClosependOwns ==
  ASSUME NEW P, NEW S, TablesOK(P, S), Owns(P, S), NEW ok
  PROVE Owns(HandleClosepend(P, ok), S)
<1> DEFINE H == HandleClosepend(P, ok)
<1>1. ASSUME NEW p \in Pcbs PROVE Follows(P[p], H[p])
  <2>1. CASE p \in ClosePending(P)
    <3>1. P[p] \in Pcb /\ Sane(P[p]) /\ P[p].closepend
      BY <2>1 DEF TablesOK, Owns, ClosePending
    <3>2. (p \in ok) \in BOOLEAN
      OBVIOUS
    <3>3. Follows(P[p], CloseShutdownFin([P[p] EXCEPT !.closepend = FALSE], p \in ok))
      BY <3>1, <3>2, CloseFollows
    <3> QED BY <2>1, <3>3 DEF HandleClosepend
  <2>2. CASE p \notin ClosePending(P)
    <3>1. H[p] = P[p]
      BY <2>2 DEF HandleClosepend
    <3> QED BY <3>1, SelfFollows
  <2> QED BY <2>1, <2>2
<1> HIDE DEF H
<1>2. Owns(H, S)
  BY <1>1, FollowsOwns
<1> QED BY <1>2 DEF H

\* A pcb in no connected state calls nobody back.
LEMMA NoCallbacks ==
  ASSUME NEW P, NEW S, Owns(P, S), NEW p \in Pcbs, P[p].state \notin Connected
  PROVE ~P[p].cbs
<1>1. SUFFICES ASSUME P[p].cbs PROVE FALSE
  OBVIOUS
<1>2. PICK s \in Streams : P[p].arg = s /\ Holds(S, s) /\ S[s].pcb = p
  BY <1>1 DEF Owns
<1>3. Fits(P[p], S[s])
  BY <1>2 DEF Owns
<1> QED BY <1>3 DEF Fits

\* A pcb nobody who would still use it calls its own has no callbacks.
LEMMA ReclaimNoCallbacks ==
  ASSUME PromptDrop, NEW P, Owns(P, stream), NEW p \in Pcbs, MayReclaim(p)
  PROVE ~P[p].cbs
BY DEF MayReclaim, HeldBy, Owns, Holds

\* tcp_alloc keeps ownership, and the slot it returns calls nobody back.
LEMMA AllocOwns ==
  ASSUME PromptDrop, TablesOK(pcb, stream), Owns(pcb, stream), NEW o \in TcpAlloc
  PROVE Owns(o.pcb, o.stream) /\ (o.slot # Null => ~o.pcb[o.slot].cbs)
<1> DEFINE free == {p \in Pcbs : pcb[p].state = "FREE"}
<1>1. CASE free # {}
  <2>1. PICK p \in free : o = [slot |-> p, pcb |-> pcb, stream |-> stream]
    BY <1>1 DEF TcpAlloc
  <2>2. ~pcb[p].cbs
    BY NoCallbacks DEF Connected, Open, PeerClosed
  <2> QED BY <2>1, <2>2
<1>2. CASE free = {}
  <2>1. PICK ok \in SUBSET ClosePending(pcb) :
          LET Q == HandleClosepend(pcb, ok)
          IN \/ o = [slot |-> Null, pcb |-> Q, stream |-> stream]
             \/ \E v \in Victims(Q) :
                  /\ Q[v].state = "TIME_WAIT" => MayReclaim(v)
                  /\ o = [slot |-> v, pcb |-> Freed(Q, {v}),
                          stream |-> IF Q[v].state = "TIME_WAIT" THEN stream
                                     ELSE ErrCb(Q, stream, {v})]
    BY <1>2 DEF TcpAlloc
  <2> DEFINE Q == HandleClosepend(pcb, ok)
  <2>2. TablesOK(Q, stream) /\ Owns(Q, stream)
    BY HandleClosependType, HandleClosependOwns
  <2> HIDE DEF Q
  <2>3. CASE o = [slot |-> Null, pcb |-> Q, stream |-> stream]
    BY <2>2, <2>3
  <2>4. ASSUME NEW v \in Victims(Q),
               Q[v].state = "TIME_WAIT" => MayReclaim(v),
               o = [slot |-> v, pcb |-> Freed(Q, {v}),
                    stream |-> IF Q[v].state = "TIME_WAIT" THEN stream
                               ELSE ErrCb(Q, stream, {v})]
        PROVE Owns(o.pcb, o.stream) /\ (o.slot # Null => ~o.pcb[o.slot].cbs)
    <3>1. v \in Pcbs
      BY VictimsSlots
    <3>2. ~Freed(Q, {v})[v].cbs
      BY <3>1 DEF Freed, FreePcb
    <3>3. CASE Q[v].state # "TIME_WAIT"
      <4>1. Owns(Freed(Q, {v}), ErrCb(Q, stream, {v}))
        BY <2>2, <3>1, FreedOwns
      <4> QED BY <2>4, <3>2, <3>3, <4>1
    <3>4. CASE Q[v].state = "TIME_WAIT"
      <4>1. ~Q[v].cbs
        BY <2>2, <2>4, <3>1, <3>4, ReclaimNoCallbacks
      <4>2. Owns(Freed(Q, {v}), ErrCb(Q, stream, {}))
        BY <2>2, <4>1, FreedOwns
      <4>3. ErrCb(Q, stream, {}) = stream
        BY <2>2 DEF ErrCb, TablesOK
      <4> QED BY <2>4, <3>2, <3>4, <4>2, <4>3
    <3> QED BY <3>3, <3>4
  <2> QED BY <2>1, <2>3, <2>4 DEF Q
<1> QED BY <1>1, <1>2

\* The end of file: one pcb goes past the peer's FIN and its stream is told.
LEMMA EofOwns ==
  ASSUME TablesOK(pcb, stream), Owns(pcb, stream), NEW p \in Pcbs, NEW n,
         n.cbs = pcb[p].cbs, n.arg = pcb[p].arg, Sane(n),
         \A r \in Stream : Fits(pcb[p], r) => Fits(n, [r EXCEPT !.eof = TRUE]),
         ~n.cbs /\ n.state \in Open => n.closepend
  PROVE Owns([pcb EXCEPT ![p] = n], EofCb(p))
<1> DEFINE Q == [pcb EXCEPT ![p] = n]
           T == EofCb(p)
<1>1. \A x \in Pcbs : Q[x] = IF x = p THEN n ELSE pcb[x]
  BY DEF TablesOK
<1>2. ASSUME NEW s \in Streams
      PROVE /\ T[s] = IF pcb[p].cbs /\ pcb[p].arg = s
                      THEN [stream[s] EXCEPT !.eof = TRUE] ELSE stream[s]
            /\ T[s].holder = stream[s].holder /\ T[s].pcb = stream[s].pcb
            /\ T[s].errored = stream[s].errored
            /\ stream[s] \in Stream
  <2>1. stream[s] \in Stream
    BY DEF TablesOK
  <2>2. T[s] = IF pcb[p].cbs /\ pcb[p].arg = s
               THEN [stream[s] EXCEPT !.eof = TRUE] ELSE stream[s]
    BY DEF EofCb
  <2> HIDE DEF T
  <2>3. ASSUME NEW r \in Stream
        PROVE LET e == [r EXCEPT !.eof = TRUE]
              IN e.holder = r.holder /\ e.pcb = r.pcb /\ e.errored = r.errored
    BY DEF Stream
  <2> QED BY <2>1, <2>2, <2>3
<1> HIDE DEF Q, T
<1>3. ASSUME NEW s \in Streams, Holds(T, s)
      PROVE Q[T[s].pcb].cbs /\ Q[T[s].pcb].arg = s /\ Fits(Q[T[s].pcb], T[s])
  <2> DEFINE x == stream[s].pcb
  <2>1. /\ Holds(stream, s) /\ T[s].pcb = x /\ x \in Pcbs
        /\ pcb[x].cbs /\ pcb[x].arg = s /\ Fits(pcb[x], stream[s])
    BY <1>2, <1>3 DEF Holds, Owns, TablesOK
  <2> HIDE DEF x
  <2>2. CASE x = p
    <3>1. Q[x] = n /\ T[s] = [stream[s] EXCEPT !.eof = TRUE]
      BY <1>1, <1>2, <2>1, <2>2
    <3>2. Fits(n, [stream[s] EXCEPT !.eof = TRUE])
      BY <1>2, <2>1, <2>2
    <3>3. n.cbs /\ n.arg = s
      BY <2>1, <2>2
    <3> QED BY <2>1, <3>1, <3>2, <3>3
  <2>3. CASE x # p
    <3>1. ~(pcb[p].cbs /\ pcb[p].arg = s)
      BY <2>1, <2>3 DEF Owns, x
    <3>2. Q[x] = pcb[x] /\ T[s] = stream[s]
      BY <1>1, <1>2, <2>1, <2>3, <3>1
    <3> QED BY <2>1, <3>2
  <2> QED BY <2>2, <2>3
<1>4. ASSUME NEW x \in Pcbs, Q[x].cbs
      PROVE \E s \in Streams : Q[x].arg = s /\ Holds(T, s) /\ T[s].pcb = x
  <2>1. pcb[x].cbs /\ Q[x].arg = pcb[x].arg
    BY <1>1, <1>4
  <2>2. PICK s \in Streams : pcb[x].arg = s /\ Holds(stream, s) /\ stream[s].pcb = x
    BY <2>1 DEF Owns
  <2>3. Holds(T, s) /\ T[s].pcb = x
    BY <1>2, <2>2 DEF Holds
  <2> QED BY <2>1, <2>2, <2>3
<1>5. ASSUME NEW x \in Pcbs
      PROVE Sane(Q[x]) /\ (~Q[x].cbs /\ Q[x].state \in Open => Q[x].closepend)
  BY <1>1 DEF Owns
<1> QED BY <1>3, <1>4, <1>5 DEF Owns, Q, T

\* A stream and a pcb that belong to each other, or to nobody, may change
\* together as long as they agree afterwards.
LEMMA PairOwns ==
  ASSUME NEW P, NEW S, TablesOK(P, S), Owns(P, S),
         NEW p \in Pcbs, NEW s \in Streams, NEW n, NEW r,
         \/ Holds(S, s) /\ S[s].pcb = p
         \/ ~Holds(S, s) /\ ~P[p].cbs,
         n.cbs, n.arg = s, Sane(n), Fits(n, r),
         r.holder # "none", ~r.errored, r.pcb = p
  PROVE Owns([P EXCEPT ![p] = n], [S EXCEPT ![s] = r])
<1> DEFINE Q == [P EXCEPT ![p] = n]
           T == [S EXCEPT ![s] = r]
<1>1. /\ \A x \in Pcbs : Q[x] = IF x = p THEN n ELSE P[x]
      /\ \A t \in Streams : T[t] = IF t = s THEN r ELSE S[t]
  BY DEF TablesOK
<1> HIDE DEF Q, T
<1>2. ASSUME NEW t \in Streams, Holds(T, t)
      PROVE Q[T[t].pcb].cbs /\ Q[T[t].pcb].arg = t /\ Fits(Q[T[t].pcb], T[t])
  <2>1. CASE t = s
    <3>1. T[t] = r /\ Q[p] = n
      BY <1>1, <2>1
    <3> QED BY <2>1, <3>1
  <2>2. CASE t # s
    <3>1. T[t] = S[t]
      BY <1>1, <2>2
    <3>2. Holds(S, t)
      BY <1>2, <3>1 DEF Holds
    <3>3. S[t].pcb \in Pcbs /\ P[S[t].pcb].cbs /\ P[S[t].pcb].arg = t /\ Fits(P[S[t].pcb], S[t])
      BY <3>2 DEF Owns, TablesOK, Holds
    <3>4. S[t].pcb # p
      BY <2>2, <3>3 DEF Owns
    <3>5. Q[S[t].pcb] = P[S[t].pcb]
      BY <1>1, <3>3, <3>4
    <3> QED BY <3>1, <3>3, <3>5
  <2> QED BY <2>1, <2>2
<1>3. ASSUME NEW x \in Pcbs, Q[x].cbs
      PROVE \E t \in Streams : Q[x].arg = t /\ Holds(T, t) /\ T[t].pcb = x
  <2>1. CASE x = p
    <3>1. Q[x] = n /\ T[s] = r
      BY <1>1, <2>1
    <3> QED BY <2>1, <3>1 DEF Holds
  <2>2. CASE x # p
    <3>1. Q[x] = P[x]
      BY <1>1, <2>2
    <3>2. PICK t \in Streams : P[x].arg = t /\ Holds(S, t) /\ S[t].pcb = x
      BY <1>3, <3>1 DEF Owns
    <3>3. T[t] = S[t]
      BY <1>1, <2>2, <3>2
    <3> QED BY <3>1, <3>2, <3>3 DEF Holds
  <2> QED BY <2>1, <2>2
<1>4. ASSUME NEW x \in Pcbs
      PROVE Sane(Q[x]) /\ (~Q[x].cbs /\ Q[x].state \in Open => Q[x].closepend)
  BY <1>1 DEF Owns
<1> QED BY <1>2, <1>3, <1>4 DEF Owns, Q, T

\* A stream lets go of its pcb: neither knows the other afterwards.
LEMMA UnpairOwns ==
  ASSUME NEW P, NEW S, TablesOK(P, S), Owns(P, S), NEW s \in Streams,
         Holds(S, s), NEW n,
         ~n.cbs, Sane(n), n.state \in Open => n.closepend
  PROVE Owns([P EXCEPT ![S[s].pcb] = n], [S EXCEPT ![s] = NoStream])
<1> DEFINE p == S[s].pcb
           Q == [P EXCEPT ![p] = n]
           T == [S EXCEPT ![s] = NoStream]
<1>1. p \in Pcbs /\ P[p].cbs /\ P[p].arg = s
  BY DEF Owns, TablesOK, Holds
<1>2. /\ \A x \in Pcbs : Q[x] = IF x = p THEN n ELSE P[x]
      /\ \A t \in Streams : T[t] = IF t = s THEN NoStream ELSE S[t]
  BY DEF TablesOK
<1>3. NoStream.holder = "none"
  BY DEF NoStream
<1> HIDE DEF Q, T
<1>4. ASSUME NEW t \in Streams, Holds(T, t)
      PROVE Q[T[t].pcb].cbs /\ Q[T[t].pcb].arg = t /\ Fits(Q[T[t].pcb], T[t])
  <2>1. t # s /\ T[t] = S[t]
    BY <1>2, <1>3, <1>4 DEF Holds
  <2>2. Holds(S, t)
    BY <1>4, <2>1 DEF Holds
  <2>3. S[t].pcb \in Pcbs /\ P[S[t].pcb].cbs /\ P[S[t].pcb].arg = t /\ Fits(P[S[t].pcb], S[t])
    BY <2>2 DEF Owns, TablesOK, Holds
  <2>4. S[t].pcb # p
    BY <1>1, <2>1, <2>3
  <2>5. Q[S[t].pcb] = P[S[t].pcb]
    BY <1>2, <2>3, <2>4
  <2> QED BY <2>1, <2>3, <2>5
<1>5. ASSUME NEW x \in Pcbs, Q[x].cbs
      PROVE \E t \in Streams : Q[x].arg = t /\ Holds(T, t) /\ T[t].pcb = x
  <2>1. x # p /\ Q[x] = P[x]
    BY <1>2, <1>5
  <2>2. PICK t \in Streams : P[x].arg = t /\ Holds(S, t) /\ S[t].pcb = x
    BY <1>5, <2>1 DEF Owns
  <2>3. T[t] = S[t]
    BY <1>2, <2>1, <2>2
  <2> QED BY <2>1, <2>2, <2>3 DEF Holds
<1>6. ASSUME NEW x \in Pcbs
      PROVE Sane(Q[x]) /\ (~Q[x].cbs /\ Q[x].state \in Open => Q[x].closepend)
  BY <1>2 DEF Owns
<1> QED BY <1>4, <1>5, <1>6 DEF Owns, Q, T

\* Forgetting a stream that was told of an error.
LEMMA ForgetOwns ==
  ASSUME NEW P, NEW S, TablesOK(P, S), Owns(P, S), NEW s \in Streams, ~Holds(S, s)
  PROVE Owns(P, [S EXCEPT ![s] = NoStream])
<1> DEFINE T == [S EXCEPT ![s] = NoStream]
<1>1. \A t \in Streams : Holds(T, t) => t # s /\ T[t] = S[t] /\ Holds(S, t)
  BY DEF TablesOK, Holds, NoStream
<1>2. \A t \in Streams : Holds(S, t) => T[t] = S[t] /\ Holds(T, t)
  BY DEF TablesOK, Holds
<1> HIDE DEF T
<1>3. Owns(P, T)
  BY <1>1, <1>2 DEF Owns
<1> QED BY <1>3 DEF T

\* What hearing from the peer, moving to a state and entering TIME_WAIT leave
\* of a pcb.
LEMMA MoveFields ==
  ASSUME NEW q \in Pcb, NEW st \in States
  PROVE /\ LET n == Heard(q)
           IN n.state = q.state /\ n.list = q.list /\ n.cbs = q.cbs /\ n.arg = q.arg
              /\ n.closepend = q.closepend
        /\ LET n == [Heard(q) EXCEPT !.state = st]
           IN n.state = st /\ n.list = q.list /\ n.cbs = q.cbs /\ n.arg = q.arg
              /\ n.closepend = q.closepend
        /\ LET n == ToTimeWait(q)
           IN n.state = "TIME_WAIT" /\ n.list = "tw" /\ n.cbs = q.cbs /\ n.arg = q.arg
              /\ n.closepend = q.closepend
BY DEF Pcb, Heard, ToTimeWait

\* A pcb with the same list, callbacks and TF_CLOSEPEND in a later state: when
\* the step is one of a connection being closed, or none, it follows its past.
LEMMA MoveFollows ==
  ASSUME NEW q \in Pcb, Sane(q), ~q.cbs /\ q.state \in Open => q.closepend,
         NEW n, n.cbs = q.cbs, n.arg = q.arg, n.closepend = q.closepend,
         \/ n.state = q.state /\ n.list = q.list
         \/ q.state = "FIN_WAIT_1" /\ n.state = "FIN_WAIT_2" /\ n.list = q.list
         \/ q.state = "CLOSING" /\ n.state = "TIME_WAIT" /\ n.list = "tw"
  PROVE Follows(q, n)
<1>1. Sane(n)
  BY DEF Sane
<1>2. ASSUME NEW r \in Stream, Fits(q, r) PROVE Fits(n, r)
  BY <1>2 DEF Fits, Connected, Open, PeerClosed
<1>3. ~n.cbs /\ n.state \in Open => n.closepend
  BY DEF Open
<1> QED BY <1>1, <1>2, <1>3 DEF Follows

\* The states a FIN of the peer leads to.
LEMMA FinFits ==
  ASSUME NEW q \in Pcb, NEW r \in Stream, Fits(q, r), NEW n, n.closepend = q.closepend,
         \/ q.state = "ESTABLISHED" /\ n.state = "CLOSE_WAIT"
         \/ q.state = "FIN_WAIT_1" /\ n.state \in {"CLOSING", "TIME_WAIT"}
         \/ q.state = "FIN_WAIT_2" /\ n.state = "TIME_WAIT"
  PROVE Fits(n, [r EXCEPT !.eof = TRUE])
<1>1. /\ [r EXCEPT !.eof = TRUE].eof
      /\ [r EXCEPT !.eof = TRUE].closed = r.closed
  BY DEF Stream
<1> QED BY <1>1 DEF Fits, Connected, Open, PeerClosed

\* A step that takes a FIN of the peer keeps ownership.
LEMMA FinOwns ==
  ASSUME TablesOK(pcb, stream), Owns(pcb, stream), NEW p \in Pcbs, NEW n,
         n.cbs = pcb[p].cbs, n.arg = pcb[p].arg, n.closepend = pcb[p].closepend,
         \/ pcb[p].state = "ESTABLISHED" /\ n.state = "CLOSE_WAIT" /\ n.list = pcb[p].list
         \/ pcb[p].state = "FIN_WAIT_1" /\ n.state = "CLOSING" /\ n.list = pcb[p].list
         \/ pcb[p].state \in {"FIN_WAIT_1", "FIN_WAIT_2"} /\ n.state = "TIME_WAIT" /\ n.list = "tw"
  PROVE Owns([pcb EXCEPT ![p] = n], EofCb(p))
<1>1. pcb[p] \in Pcb /\ Sane(pcb[p])
      /\ (~pcb[p].cbs /\ pcb[p].state \in Open => pcb[p].closepend)
  BY DEF TablesOK, Owns
<1>2. Sane(n) /\ (~n.cbs /\ n.state \in Open => n.closepend)
  BY <1>1 DEF Sane, Open
<1>3. \A r \in Stream : Fits(pcb[p], r) => Fits(n, [r EXCEPT !.eof = TRUE])
  BY <1>1, FinFits
<1> QED BY <1>2, <1>3, EofOwns

\* A step of one pcb that no stream has to hear of keeps ownership.
LEMMA MoveOwns ==
  ASSUME TablesOK(pcb, stream), Owns(pcb, stream), NEW p \in Pcbs, NEW n,
         n.cbs = pcb[p].cbs, n.arg = pcb[p].arg, n.closepend = pcb[p].closepend,
         \/ n.state = pcb[p].state /\ n.list = pcb[p].list
         \/ pcb[p].state = "FIN_WAIT_1" /\ n.state = "FIN_WAIT_2" /\ n.list = pcb[p].list
         \/ pcb[p].state = "CLOSING" /\ n.state = "TIME_WAIT" /\ n.list = "tw"
  PROVE Owns([pcb EXCEPT ![p] = n], stream)
<1>1. pcb[p] \in Pcb /\ Sane(pcb[p])
      /\ (~pcb[p].cbs /\ pcb[p].state \in Open => pcb[p].closepend)
  BY DEF TablesOK, Owns
<1>2. Follows(pcb[p], n)
  BY <1>1, MoveFollows
<1> QED BY <1>2, PutFollows

\* Putting a pcb nobody knows yet into a slot that calls nobody back.
LEMMA FreshOwns ==
  ASSUME NEW P, NEW S, TablesOK(P, S), Owns(P, S), NEW p \in Pcbs, ~P[p].cbs,
         NEW n, ~n.cbs, n.state \notin Open, Sane(n)
  PROVE Owns([P EXCEPT ![p] = n], S)
<1>1. Follows(P[p], n)
  BY DEF Follows
<1> QED BY <1>1, PutFollows

\* Segments keep ownership.
LEMMA SegmentOwns == PromptDrop /\ TypeInv /\ Owns(pcb, stream) /\ Segment => Owns(pcb', stream')
<1> SUFFICES ASSUME PromptDrop, TypeInv, Owns(pcb, stream), Segment PROVE Owns(pcb', stream')
  OBVIOUS
<1>a. /\ TablesOK(pcb, stream)
      /\ \A p \in Pcbs : pcb[p] \in Pcb
      /\ \A s \in Streams : stream[s] \in Stream
      /\ lpcbs \in Seq(Listeners)
  BY DEF TypeInv, TypeOK, TablesOK
<1>b. ASSUME NEW p \in Pcbs PROVE Owns(Freed(pcb, {p}), ErrCb(pcb, stream, {p}))
  BY <1>a, FreedOwns
<1>c. ASSUME NEW p \in Pcbs PROVE Owns([pcb EXCEPT ![p] = Heard(pcb[p])], stream)
  <2> DEFINE n == Heard(pcb[p])
  <2>1. /\ n.state = pcb[p].state /\ n.list = pcb[p].list /\ n.cbs = pcb[p].cbs
        /\ n.arg = pcb[p].arg /\ n.closepend = pcb[p].closepend
    BY <1>a, MoveFields DEF States
  <2> HIDE DEF n
  <2>2. Owns([pcb EXCEPT ![p] = n], stream)
    BY <1>a, <2>1, MoveOwns
  <2> QED BY <2>2 DEF n
<1>d. ASSUME NEW p \in Pcbs, pcb[p].state \in {"FIN_WAIT_1", "FIN_WAIT_2"}
      PROVE Owns([pcb EXCEPT ![p] = ToTimeWait(pcb[p])], EofCb(p))
  <2> DEFINE n == ToTimeWait(pcb[p])
  <2>1. /\ n.state = "TIME_WAIT" /\ n.list = "tw" /\ n.cbs = pcb[p].cbs
        /\ n.arg = pcb[p].arg /\ n.closepend = pcb[p].closepend
    BY <1>a, MoveFields DEF States
  <2> HIDE DEF n
  <2>2. Owns([pcb EXCEPT ![p] = n], EofCb(p))
    BY <1>a, <1>d, <2>1, FinOwns
  <2> QED BY <2>2 DEF n
<1>1. ASSUME NEW c \in Conns, RecvSyn(c) PROVE Owns(pcb', stream')
  <2>1. PICK o \in TcpAlloc :
          /\ stream' = o.stream
          /\ \/ pcb' = o.pcb
             \/ o.slot # Null /\ pcb' = [o.pcb EXCEPT ![o.slot] = NewPcb(c, lpcbs[1])]
    BY <1>1 DEF RecvSyn
  <2>2. /\ o.slot \in Pcbs \cup {Null} /\ TablesOK(o.pcb, o.stream)
        /\ Owns(o.pcb, o.stream) /\ (o.slot # Null => ~o.pcb[o.slot].cbs)
    BY <1>a, AllocType, AllocOwns
  <2> DEFINE n == NewPcb(c, lpcbs[1])
  <2>3. ASSUME NEW q \in Pcb, NEW l, q.cbs = FALSE, q.closepend = FALSE
        PROVE LET x == [q EXCEPT !.state = "SYN_RCVD", !.list = "active",
                                 !.arg = l, !.listener = l, !.conn = c]
              IN ~x.cbs /\ ~x.closepend /\ x.state = "SYN_RCVD" /\ x.list = "active"
    BY <2>3 DEF Pcb
  <2>4. FreePcb.cbs = FALSE /\ FreePcb.closepend = FALSE
    BY DEF FreePcb
  <2>5. ~n.cbs /\ ~n.closepend /\ n.state = "SYN_RCVD" /\ n.list = "active"
    BY <2>3, <2>4, FreePcbType DEF NewPcb
  <2> HIDE DEF n
  <2>6. Sane(n) /\ n.state \notin Open
    BY <2>5 DEF Sane, Open
  <2>7. o.slot # Null => Owns([o.pcb EXCEPT ![o.slot] = n], o.stream)
    BY <2>2, <2>5, <2>6, FreshOwns
  <2> QED BY <2>1, <2>2, <2>7 DEF n
<1>2. ASSUME NEW p \in Pcbs, NEW s \in Streams, NEW fin \in BOOLEAN, SynRcvdAccept(p, s, fin)
      PROVE Owns(pcb', stream')
  <2> DEFINE n == [Heard(pcb[p]) EXCEPT
                     !.state = IF fin THEN "CLOSE_WAIT" ELSE "ESTABLISHED",
                     !.arg = s, !.cbs = TRUE]
             r == [NewStream(p, pcb[p].arg) EXCEPT !.eof = fin]
  <2>1. /\ pcb[p].state = "SYN_RCVD" /\ pcb[p].list = "active" /\ ~Holds(stream, s)
        /\ pcb[p].arg \in Listeners
        /\ pcb' = [pcb EXCEPT ![p] = n] /\ stream' = [stream EXCEPT ![s] = r]
    BY <1>a, <1>2 DEF SynRcvdAccept, Live, Holds, Pcb, TablesOK
  <2>2. ~pcb[p].cbs /\ ~pcb[p].closepend
    <3>1. ~pcb[p].cbs
      BY <2>1, NoCallbacks DEF Connected, Open, PeerClosed
    <3> QED BY <2>1, <3>1 DEF Owns, Sane
  <2>3. Heard(pcb[p]) \in Pcb /\ ~Heard(pcb[p]).closepend /\ Heard(pcb[p]).list = "active"
    BY <1>a, <2>1, <2>2, HeardType, MoveFields DEF States
  <2>4. /\ n.state = IF fin THEN "CLOSE_WAIT" ELSE "ESTABLISHED"
        /\ n.arg = s /\ n.cbs /\ n.list = "active" /\ ~n.closepend
    BY <2>3 DEF Pcb
  <2>5. /\ r.holder \in Listeners /\ r.pcb = p /\ ~r.errored /\ ~r.closed
        /\ r.eof <=> fin
    BY <2>1 DEF NewStream, NoStream
  <2> HIDE DEF n, r
  <2>6. Sane(n)
    BY <2>4 DEF Sane
  <2>7. Fits(n, r)
    BY <2>4, <2>5 DEF Fits, Connected, Open, PeerClosed
  <2>8. r.holder # "none"
    BY <2>5, NamesAssumption
  <2>9. Owns([pcb EXCEPT ![p] = n], [stream EXCEPT ![s] = r])
    BY <1>a, <2>1, <2>2, <2>4, <2>5, <2>6, <2>7, <2>8, PairOwns
  <2> QED BY <2>1, <2>9
<1>3. ASSUME NEW p \in Pcbs, SynRcvdOrphan(p) PROVE Owns(pcb', stream')
  BY <1>b, <1>3 DEF SynRcvdOrphan, Aborted
<1>4. ASSUME NEW p \in Pcbs, SynRcvdOther(p) PROVE Owns(pcb', stream')
  BY <1>c, <1>4 DEF SynRcvdOther
<1>5. ASSUME NEW p \in Pcbs, NEW fin \in BOOLEAN, EstablishedInput(p, fin)
      PROVE Owns(pcb', stream')
  <2>1. CASE fin
    <3> DEFINE n == [Heard(pcb[p]) EXCEPT !.state = "CLOSE_WAIT"]
    <3>1. pcb' = [pcb EXCEPT ![p] = n] /\ stream' = EofCb(p) /\ pcb[p].state = "ESTABLISHED"
      BY <1>5, <2>1 DEF EstablishedInput
    <3>2. /\ n.state = "CLOSE_WAIT" /\ n.list = pcb[p].list /\ n.cbs = pcb[p].cbs
          /\ n.arg = pcb[p].arg /\ n.closepend = pcb[p].closepend
      BY <1>a, MoveFields DEF States
    <3> HIDE DEF n
    <3>3. Owns([pcb EXCEPT ![p] = n], EofCb(p))
      BY <1>a, <3>1, <3>2, FinOwns
    <3> QED BY <3>1, <3>3
  <2>2. CASE ~fin
    BY <1>c, <1>5, <2>2 DEF EstablishedInput
  <2> QED BY <2>1, <2>2
<1>6. ASSUME NEW p \in Pcbs, NEW fin \in BOOLEAN, NEW acked \in BOOLEAN,
             FinWait1Input(p, fin, acked)
      PROVE Owns(pcb', stream')
  <2>0. pcb[p].state = "FIN_WAIT_1"
    BY <1>6 DEF FinWait1Input
  <2>1. CASE fin /\ acked
    BY <1>d, <1>6, <2>0, <2>1 DEF FinWait1Input
  <2>2. CASE fin /\ ~acked
    <3> DEFINE n == [Heard(pcb[p]) EXCEPT !.state = "CLOSING"]
    <3>1. pcb' = [pcb EXCEPT ![p] = n] /\ stream' = EofCb(p)
      BY <1>6, <2>2 DEF FinWait1Input
    <3>2. /\ n.state = "CLOSING" /\ n.list = pcb[p].list /\ n.cbs = pcb[p].cbs
          /\ n.arg = pcb[p].arg /\ n.closepend = pcb[p].closepend
      BY <1>a, MoveFields DEF States
    <3> HIDE DEF n
    <3>3. Owns([pcb EXCEPT ![p] = n], EofCb(p))
      BY <1>a, <2>0, <3>2, FinOwns
    <3> QED BY <3>1, <3>3
  <2>3. CASE ~fin /\ acked
    <3> DEFINE n == [Heard(pcb[p]) EXCEPT !.state = "FIN_WAIT_2"]
    <3>1. pcb' = [pcb EXCEPT ![p] = n] /\ stream' = stream
      BY <1>6, <2>3 DEF FinWait1Input
    <3>2. /\ n.state = "FIN_WAIT_2" /\ n.list = pcb[p].list /\ n.cbs = pcb[p].cbs
          /\ n.arg = pcb[p].arg /\ n.closepend = pcb[p].closepend
      BY <1>a, MoveFields DEF States
    <3> HIDE DEF n
    <3>3. Owns([pcb EXCEPT ![p] = n], stream)
      BY <1>a, <2>0, <3>2, MoveOwns
    <3> QED BY <3>1, <3>3
  <2>4. CASE ~fin /\ ~acked
    BY <1>c, <1>6, <2>4 DEF FinWait1Input
  <2> QED BY <2>1, <2>2, <2>3, <2>4
<1>7. ASSUME NEW p \in Pcbs, NEW fin \in BOOLEAN, FinWait2Input(p, fin) PROVE Owns(pcb', stream')
  <2>1. CASE fin
    BY <1>d, <1>7, <2>1 DEF FinWait2Input
  <2>2. CASE ~fin
    BY <1>c, <1>7, <2>2 DEF FinWait2Input
  <2> QED BY <2>1, <2>2
<1>8. ASSUME NEW p \in Pcbs, NEW acked \in BOOLEAN, ClosingInput(p, acked) PROVE Owns(pcb', stream')
  <2>1. CASE acked
    <3> DEFINE n == ToTimeWait(pcb[p])
    <3>1. pcb' = [pcb EXCEPT ![p] = n] /\ stream' = stream /\ pcb[p].state = "CLOSING"
      BY <1>8, <2>1 DEF ClosingInput
    <3>2. /\ n.state = "TIME_WAIT" /\ n.list = "tw" /\ n.cbs = pcb[p].cbs
          /\ n.arg = pcb[p].arg /\ n.closepend = pcb[p].closepend
      BY <1>a, MoveFields DEF States
    <3> HIDE DEF n
    <3>3. Owns([pcb EXCEPT ![p] = n], stream)
      BY <1>a, <3>1, <3>2, MoveOwns
    <3> QED BY <3>1, <3>3
  <2>2. CASE ~acked
    BY <1>c, <1>8, <2>2 DEF ClosingInput
  <2> QED BY <2>1, <2>2
<1>9. ASSUME NEW p \in Pcbs, NEW acked \in BOOLEAN, LastAckInput(p, acked) PROVE Owns(pcb', stream')
  BY <1>b, <1>c, <1>9 DEF LastAckInput
<1>10. ASSUME NEW p \in Pcbs, TimewaitInput(p) PROVE Owns(pcb', stream')
  BY <1>c, <1>10 DEF TimewaitInput
<1>11. ASSUME NEW p \in Pcbs, RecvRst(p) PROVE Owns(pcb', stream')
  BY <1>b, <1>11 DEF RecvRst
<1> QED BY <1>1, <1>2, <1>3, <1>4, <1>5, <1>6, <1>7, <1>8, <1>9, <1>10, <1>11 DEF Segment

\* Ageing keeps ownership.
LEMMA OlderFollows ==
  ASSUME NEW q \in Pcb, Sane(q), ~q.cbs /\ q.state \in Open => q.closepend
  PROVE Follows(q, Older(q))
<1> DEFINE n == Older(q)
<1>1. /\ n.state = q.state /\ n.list = q.list /\ n.cbs = q.cbs /\ n.arg = q.arg
      /\ n.closepend = q.closepend
  BY DEF Older, Pcb
<1> HIDE DEF n
<1>2. Follows(q, n)
  BY <1>1, MoveFollows
<1> QED BY <1>2 DEF n

\* The timer keeps ownership.
LEMMA TimerOwns == PromptDrop /\ TypeInv /\ Owns(pcb, stream) /\ TcpTmr => Owns(pcb', stream')
<1> SUFFICES ASSUME PromptDrop, TypeInv, Owns(pcb, stream), TcpTmr PROVE Owns(pcb', stream')
  OBVIOUS
<1>1. PICK ok \in SUBSET ClosePending(pcb) :
        LET P == HandleClosepend(pcb, ok)
        IN \/ pcb' = P /\ UNCHANGED stream
           \/ \E dead \in SUBSET MayGiveUp(P) : SlowTmr(P, dead)
  BY DEF TcpTmr
<1> DEFINE P == HandleClosepend(pcb, ok)
<1>2. TablesOK(P, stream) /\ Owns(P, stream)
  BY HandleClosependType, HandleClosependOwns DEF TypeInv
<1>3. ASSUME NEW dead \in SUBSET MayGiveUp(P), SlowTmr(P, dead) PROVE Owns(pcb', stream')
  <2> HIDE DEF P
  <2> DEFINE gone == TimedOut(P) \cup dead
             D == gone \cup TwExpired(P)
             T == ErrCb(P, stream, gone)
  <2>1. /\ pcb' = [p \in Pcbs |-> IF p \in D THEN FreePcb
                                  ELSE IF P[p].list \in {"active", "tw"} THEN Older(P[p])
                                  ELSE P[p]]
        /\ stream' = T
        /\ \A p \in TwExpired(P) : MayReclaim(p)
    BY <1>3 DEF SlowTmr
  <2>2. gone \subseteq Pcbs /\ TwExpired(P) \subseteq Pcbs
    BY DEF TimedOut, MayGiveUp, TwExpired
  <2>3. \A p \in TwExpired(P) : ~P[p].cbs
    BY <1>2, <2>1, <2>2, ReclaimNoCallbacks
  <2>4. \A p \in Pcbs : P[p].cbs => (p \in D <=> p \in gone)
    BY <2>3
  <2> HIDE DEF gone
  <2>5. Owns(Freed(P, D), ErrCb(P, stream, gone))
    BY <1>2, <2>2, <2>4, FreedOwns
  <2>6. TablesOK(Freed(P, D), ErrCb(P, stream, gone))
    BY <1>2, FreedType, ErrCbType
  <2> DEFINE F == Freed(P, D)
  <2>7. \A p \in Pcbs : F[p] = IF p \in D THEN FreePcb ELSE P[p]
    BY DEF Freed
  <2> HIDE DEF D, T
  <2>8. ASSUME NEW p \in Pcbs PROVE Follows(F[p], pcb'[p])
    <3>1. F[p] \in Pcb /\ Sane(F[p]) /\ (~F[p].cbs /\ F[p].state \in Open => F[p].closepend)
      BY <2>5, <2>6 DEF TablesOK, Owns
    <3>2. pcb'[p] = F[p] \/ pcb'[p] = Older(F[p])
      BY <2>1, <2>7
    <3>3. Follows(F[p], F[p])
      BY <2>5, SelfFollows
    <3> HIDE DEF F
    <3>4. Follows(F[p], Older(F[p]))
      BY <3>1, OlderFollows
    <3> QED BY <3>2, <3>3, <3>4
  <2> HIDE DEF F
  <2>9. Owns(F, T) /\ TablesOK(F, T)
    BY <2>5, <2>6 DEF F, T
  <2>10. Owns(pcb', T)
    BY <2>8, <2>9, FollowsOwns
  <2> QED BY <2>1, <2>10
<1> QED BY <1>1, <1>2, <1>3

\* What tcp_shutdown leaves of the pcb of a stream that was not refused.
LEMMA ShutdownFits ==
  ASSUME NEW q \in Pcb, Sane(q), q.state \in Open, NEW r \in Stream, Fits(q, r),
         NEW ok \in BOOLEAN
  PROVE LET n == CloseShutdownFin(q, ok)
            z == [r EXCEPT !.closed = TRUE]
        IN /\ n.cbs = q.cbs /\ n.arg = q.arg /\ Sane(n) /\ Fits(n, z)
           /\ z.holder = r.holder /\ z.errored = r.errored /\ z.pcb = r.pcb
<1> DEFINE n == CloseShutdownFin(q, ok)
           z == [r EXCEPT !.closed = TRUE]
<1>1. /\ z.closed /\ z.eof = r.eof
      /\ z.holder = r.holder /\ z.errored = r.errored /\ z.pcb = r.pcb
  BY DEF Stream
<1>2. CASE ok
  <2>1. n = [q EXCEPT !.state = IF @ = "CLOSE_WAIT" THEN "LAST_ACK" ELSE "FIN_WAIT_1"]
    BY <1>2 DEF CloseShutdownFin, Open
  <2>2. /\ n.state = IF q.state = "CLOSE_WAIT" THEN "LAST_ACK" ELSE "FIN_WAIT_1"
        /\ n.closepend = q.closepend /\ n.list = q.list /\ n.cbs = q.cbs /\ n.arg = q.arg
    BY <2>1 DEF Pcb
  <2> HIDE DEF n, z
  <2>3. Sane(n)
    BY <2>2 DEF Sane, Open
  <2>4. Fits(n, z)
    BY <1>1, <2>2 DEF Fits, Connected, Open, PeerClosed
  <2> QED BY <1>1, <2>2, <2>3, <2>4 DEF n, z
<1>3. CASE ~ok
  <2>1. n = [q EXCEPT !.closepend = TRUE]
    BY <1>3 DEF CloseShutdownFin, Open
  <2>2. n.closepend /\ n.state = q.state /\ n.list = q.list /\ n.cbs = q.cbs /\ n.arg = q.arg
    BY <2>1 DEF Pcb
  <2> HIDE DEF n, z
  <2>3. Sane(n)
    BY <2>2 DEF Sane, Open
  <2>4. Fits(n, z)
    BY <1>1, <2>2 DEF Fits, Connected, Open, PeerClosed
  <2> QED BY <1>1, <2>2, <2>3, <2>4 DEF n, z
<1> QED BY <1>2, <1>3

\* The application's calls keep ownership.
LEMMA AppOwns == PromptDrop /\ TypeInv /\ Owns(pcb, stream) /\ App => Owns(pcb', stream')
<1> SUFFICES ASSUME PromptDrop, TypeInv, Owns(pcb, stream), App PROVE Owns(pcb', stream')
  OBVIOUS
<1>a. /\ TablesOK(pcb, stream)
      /\ \A p \in Pcbs : pcb[p] \in Pcb
      /\ \A s \in Streams : stream[s] \in Stream
  BY DEF TypeInv, TypeOK, TablesOK
<1>1. ASSUME NEW l \in Listeners, NewListener(l) PROVE Owns(pcb', stream')
  <2> DEFINE n == [FreePcb EXCEPT !.state = "CLOSED", !.list = "bound"]
  <2>1. PICK o \in TcpAlloc :
          /\ stream' = o.stream
          /\ \/ pcb' = o.pcb
             \/ o.slot # Null /\ pcb' = [o.pcb EXCEPT ![o.slot] = n]
    BY <1>1 DEF NewListener
  <2>2. /\ o.slot \in Pcbs \cup {Null} /\ TablesOK(o.pcb, o.stream)
        /\ Owns(o.pcb, o.stream) /\ (o.slot # Null => ~o.pcb[o.slot].cbs)
    BY <1>a, AllocType, AllocOwns
  <2>3. ~n.cbs /\ n.state = "CLOSED" /\ n.list = "bound"
    BY DEF FreePcb
  <2> HIDE DEF n
  <2>4. Sane(n) /\ n.state \notin Open
    BY <2>3 DEF Sane, Open
  <2>5. o.slot # Null => Owns([o.pcb EXCEPT ![o.slot] = n], o.stream)
    BY <2>2, <2>3, <2>4, FreshOwns
  <2> QED BY <2>1, <2>2, <2>5
<1>2. ASSUME NEW i \in DOMAIN lpcbs, DropListener(i) PROVE Owns(pcb', stream')
  <2>1. ASSUME NEW p \in Pcbs PROVE Follows(pcb[p], pcb'[p])
    <3>1. pcb'[p] = pcb[p] \/ pcb'[p] = [pcb[p] EXCEPT !.listener = Null]
      BY <1>2 DEF DropListener, ListenClosed
    <3>2. ASSUME NEW q \in Pcb
          PROVE LET n == [q EXCEPT !.listener = Null]
                IN n.state = q.state /\ n.list = q.list /\ n.cbs = q.cbs /\ n.arg = q.arg
                   /\ n.closepend = q.closepend
      BY DEF Pcb
    <3>3. /\ pcb'[p].state = pcb[p].state /\ pcb'[p].list = pcb[p].list
          /\ pcb'[p].cbs = pcb[p].cbs /\ pcb'[p].arg = pcb[p].arg
          /\ pcb'[p].closepend = pcb[p].closepend
      BY <1>a, <3>1, <3>2
    <3>4. Sane(pcb[p]) /\ (~pcb[p].cbs /\ pcb[p].state \in Open => pcb[p].closepend)
      BY DEF Owns
    <3> QED BY <1>a, <3>3, <3>4, MoveFollows
  <2>2. Owns(pcb', stream)
    BY <1>a, <2>1, FollowsOwns
  <2> QED BY <1>2, <2>2 DEF DropListener
<1>3. ASSUME NEW s \in Streams, PollNext(s) PROVE Owns(pcb', stream')
  <2> DEFINE r == [stream[s] EXCEPT !.holder = "app"]
             p == stream[s].pcb
  <2>1. stream' = [stream EXCEPT ![s] = r] /\ pcb' = pcb /\ stream[s].holder # "none"
    BY <1>3 DEF PollNext, Live
  <2>2. /\ r.holder = "app" /\ r.pcb = p /\ r.errored = stream[s].errored
        /\ r.closed = stream[s].closed /\ r.eof = stream[s].eof
    BY <1>a DEF Stream
  <2> HIDE DEF r
  <2>3. CASE Holds(stream, s)
    <3>1. /\ p \in Pcbs /\ pcb[p].cbs /\ pcb[p].arg = s /\ Sane(pcb[p])
          /\ Fits(pcb[p], stream[s])
      BY <1>a, <2>1, <2>3 DEF Owns, TablesOK
    <3>2. Fits(pcb[p], r)
      BY <2>2, <3>1 DEF Fits
    <3>3. Owns([pcb EXCEPT ![p] = pcb[p]], [stream EXCEPT ![s] = r])
      BY <1>a, <2>2, <2>3, <3>1, <3>2, PairOwns DEF Holds
    <3>4. [pcb EXCEPT ![p] = pcb[p]] = pcb
      BY <1>a DEF TablesOK
    <3> QED BY <2>1, <3>3, <3>4
  <2>4. CASE ~Holds(stream, s)
    <3>1. \A t \in Streams : Holds(stream', t) => t # s /\ stream'[t] = stream[t] /\ Holds(stream, t)
      BY <1>a, <2>1, <2>2, <2>4 DEF Holds, TablesOK
    <3>2. \A t \in Streams : Holds(stream, t) => stream'[t] = stream[t] /\ Holds(stream', t)
      BY <1>a, <2>1, <2>4 DEF Holds, TablesOK
    <3>3. Owns(pcb, stream')
      BY <3>1, <3>2 DEF Owns
    <3> QED BY <2>1, <3>3
  <2> QED BY <2>3, <2>4
<1>4. ASSUME NEW s \in Streams, PollShutdown(s) PROVE Owns(pcb', stream')
  <2> DEFINE p == stream[s].pcb
  <2>1. stream[s].holder = "app" /\ ~stream[s].errored
    BY <1>4 DEF PollShutdown
  <2>2. Holds(stream, s)
    BY <2>1 DEF Holds
  <2>3. /\ p \in Pcbs /\ pcb[p].cbs /\ pcb[p].arg = s /\ Sane(pcb[p])
        /\ Fits(pcb[p], stream[s])
    BY <1>a, <2>1, <2>2 DEF Owns, TablesOK
  <2>4. ASSUME pcb[p].state \in {"SYN_RCVD", "ESTABLISHED", "CLOSE_WAIT"},
               NEW ok \in BOOLEAN, pcb' = [pcb EXCEPT ![p] = CloseShutdownFin(pcb[p], ok)],
               stream' = [stream EXCEPT ![s] = [stream[s] EXCEPT !.closed = TRUE]]
        PROVE Owns(pcb', stream')
    <3> DEFINE n == CloseShutdownFin(pcb[p], ok)
               r == [stream[s] EXCEPT !.closed = TRUE]
    <3>1. pcb[p].state \in Open
      BY <2>3, <2>4 DEF Fits, Connected, Open, PeerClosed
    <3>0. pcb[p] \in Pcb /\ stream[s] \in Stream
      BY <1>a, <2>3 DEF Owns, TablesOK
    <3>2. /\ n.cbs = pcb[p].cbs /\ n.arg = pcb[p].arg /\ Sane(n) /\ Fits(n, r)
          /\ r.holder = stream[s].holder /\ r.errored = stream[s].errored /\ r.pcb = p
      BY <2>3, <2>4, <3>0, <3>1, ShutdownFits, ZenonT(30)
    <3> HIDE DEF n, r
    <3>3. Owns([pcb EXCEPT ![p] = n], [stream EXCEPT ![s] = r])
      BY <1>a, <2>1, <2>2, <2>3, <3>2, PairOwns
    <3> QED BY <2>4, <3>3 DEF n, r
  <2>5. /\ pcb[p].state \in {"SYN_RCVD", "ESTABLISHED", "CLOSE_WAIT"}
        /\ \E ok \in BOOLEAN : pcb' = [pcb EXCEPT ![p] = CloseShutdownFin(pcb[p], ok)]
        /\ stream' = [stream EXCEPT ![s] = [stream[s] EXCEPT !.closed = TRUE]]
    BY <1>a, <1>4, <2>3 DEF PollShutdown, TablesOK
  <2> HIDE DEF p
  <2> QED BY <2>4, <2>5
<1>5. ASSUME NEW s \in Streams, DropStream(s) PROVE Owns(pcb', stream')
  <2> DEFINE p == stream[s].pcb
  <2>1. /\ stream' = [stream EXCEPT ![s] = NoStream]
        /\ pcb' = IF stream[s].errored THEN pcb
                  ELSE IF stream[s].closed THEN Detached(pcb, p)
                  ELSE Aborted(Detached(pcb, p), p)
        /\ stream[s].holder # "none"
    BY <1>5 DEF DropStream, Live
  <2>2. CASE stream[s].errored
    <3>1. ~Holds(stream, s)
      BY <2>2 DEF Holds
    <3> QED BY <1>a, <2>1, <2>2, <3>1, ForgetOwns
  <2>3. CASE ~stream[s].errored
    <3>1. Holds(stream, s)
      BY <2>1, <2>3 DEF Holds
    <3>2. p \in Pcbs /\ Sane(pcb[p]) /\ Fits(pcb[p], stream[s])
      BY <1>a, <2>1, <3>1 DEF Owns, TablesOK
    <3> DEFINE d == [pcb[p] EXCEPT !.arg = Null, !.cbs = FALSE]
    <3>3. Detached(pcb, p) = [pcb EXCEPT ![p] = d]
      BY <1>a, <3>2 DEF Detached, TablesOK
    <3>4. /\ ~d.cbs /\ d.state = pcb[p].state /\ d.list = pcb[p].list
          /\ d.closepend = pcb[p].closepend
      BY <1>a, <3>2 DEF Pcb
    <3>5. Sane(d)
      BY <3>2, <3>4 DEF Sane
    <3>6. CASE stream[s].closed
      <4>1. d.state \in Open => d.closepend
        BY <3>2, <3>4, <3>6 DEF Fits
      <4> HIDE DEF d
      <4>2. Owns([pcb EXCEPT ![p] = d], [stream EXCEPT ![s] = NoStream])
        BY <1>a, <3>1, <3>4, <3>5, <4>1, UnpairOwns
      <4> QED BY <2>1, <2>3, <3>3, <3>6, <4>2
    <3>7. CASE ~stream[s].closed
      <4>1. Aborted(Detached(pcb, p), p) = [pcb EXCEPT ![p] = FreePcb]
        BY <1>a, <3>2, <3>3 DEF Aborted, Freed, TablesOK
      <4>2. ~FreePcb.cbs /\ Sane(FreePcb) /\ FreePcb.state \notin Open
        BY DEF FreePcb, Sane, Open
      <4>3. Owns([pcb EXCEPT ![p] = FreePcb], [stream EXCEPT ![s] = NoStream])
        BY <1>a, <3>1, <4>2, UnpairOwns
      <4> QED BY <2>1, <2>3, <3>7, <4>1, <4>3
    <3> QED BY <3>6, <3>7
  <2> QED BY <2>2, <2>3
<1> QED BY <1>1, <1>2, <1>3, <1>4, <1>5 DEF App

-------------------------------------------------------------------------------
(* The inductive invariant and what follows from it. *)

OwnInv == TypeInv /\ Owns(pcb, stream)

\* Nobody owns anything at the start.
LEMMA InitOwns == Init => Owns(pcb, stream)
BY DEF Init, Owns, Sane, Holds, FreePcb, NoStream, Open

\* With an application that drops fully closed streams in time, the tables
\* always agree.
LEMMA OwnInvariant == PromptDrop => (Spec => []OwnInv)
<1> SUFFICES ASSUME PromptDrop PROVE Spec => []OwnInv
  OBVIOUS
<1>1. Init => OwnInv
  BY InitType, InitOwns DEF OwnInv
<1>2. OwnInv /\ Next => OwnInv'
  BY SegmentType, TimerType, AppType, SegmentOwns, TimerOwns, AppOwns DEF Next, OwnInv, Owns, Holds
<1>3. OwnInv /\ UNCHANGED vars => OwnInv'
  BY DEF vars, OwnInv, TypeInv, TypeOK, TablesOK, Owns, Holds
<1>4. OwnInv /\ [Next]_vars => OwnInv'
  BY <1>2, <1>3
<1> QED BY <1>1, <1>4, PTL DEF Spec

\* The stream of a pcb with callbacks, and the pcb of a stream without error.
LEMMA OwnFacts ==
  ASSUME OwnInv
  PROVE /\ \A s \in Streams : Live(s) /\ ~stream[s].errored =>
             LET q == pcb[stream[s].pcb]
             IN stream[s].pcb \in Pcbs /\ q.cbs /\ q.arg = s /\ q \in Pcb
                /\ Sane(q) /\ Fits(q, stream[s])
        /\ \A p \in Pcbs : pcb[p] \in Pcb /\ Sane(pcb[p])
<1>1. ASSUME NEW s \in Streams, Live(s), ~stream[s].errored
      PROVE LET q == pcb[stream[s].pcb]
            IN stream[s].pcb \in Pcbs /\ q.cbs /\ q.arg = s /\ q \in Pcb
               /\ Sane(q) /\ Fits(q, stream[s])
  <2>1. Holds(stream, s) /\ stream[s].pcb \in Pcbs
    BY <1>1 DEF OwnInv, TypeInv, TablesOK, Live, Holds
  <2> QED BY <2>1 DEF OwnInv, Owns, TypeInv, TablesOK
<1>2. \A p \in Pcbs : pcb[p] \in Pcb /\ Sane(pcb[p])
  BY DEF OwnInv, TypeInv, TablesOK, Owns
<1> QED BY <1>1, <1>2

\* No stream without error is ever left with a stale pcb: what poll_read,
\* poll_write, poll_flush, poll_shutdown and drop dereference is the pcb lwIP
\* still has in a list, and it calls this stream back.
THEOREM Ownership == PromptDrop => (Spec => []ShutdownKeepsPcb)
<1> SUFFICES ASSUME PromptDrop PROVE Spec => []ShutdownKeepsPcb
  OBVIOUS
<1>1. OwnInv => ShutdownKeepsPcb
  <2> SUFFICES ASSUME OwnInv, NEW s \in Streams, Live(s), ~stream[s].errored
               PROVE LET q == pcb[stream[s].pcb]
                     IN q.list \in {"active", "tw"} /\ q.arg = s /\ q.cbs
    BY DEF ShutdownKeepsPcb
  <2> DEFINE q == pcb[stream[s].pcb]
  <2>1. q.cbs /\ q.arg = s /\ q \in Pcb /\ Sane(q) /\ Fits(q, stream[s])
    BY OwnFacts
  <2> HIDE DEF q
  <2>2. q.list \in {"none", "bound", "active", "tw"}
    BY <2>1 DEF Pcb
  <2>3. q.list \in {"active", "tw"}
    BY <2>1, <2>2 DEF Sane, Fits, Connected, Open, PeerClosed
  <2> QED BY <2>1, <2>3 DEF q
<1> QED BY <1>1, OwnInvariant, PTL

\* A stream that is neither errored nor shut down owns a connection the peer
\* can still write on or has only half closed.
THEOREM OpenOwnership == PromptDrop => (Spec => []OpenStreamOwnsPcb)
<1> SUFFICES ASSUME PromptDrop PROVE Spec => []OpenStreamOwnsPcb
  OBVIOUS
<1>1. OwnInv => OpenStreamOwnsPcb
  BY OwnFacts DEF OpenStreamOwnsPcb, Fits, Open
<1> QED BY <1>1, OwnInvariant, PTL

\* The callbacks lwIP keeps always lead to a live stream that believes in the
\* pcb they are called for.
THEOREM CallbacksSafe == PromptDrop => (Spec => []CallbackArgLive)
<1> SUFFICES ASSUME PromptDrop PROVE Spec => []CallbackArgLive
  OBVIOUS
<1>1. OwnInv => CallbackArgLive
  BY DEF OwnInv, Owns, Holds, CallbackArgLive, Live
<1> QED BY <1>1, OwnInvariant, PTL

\* Lists and states agree, as tcp_pcbs_sane asks.
THEOREM Lists == PromptDrop => (Spec => []ListsSane)
<1> SUFFICES ASSUME PromptDrop PROVE Spec => []ListsSane
  OBVIOUS
<1>1. OwnInv => ListsSane
  BY DEF OwnInv, Owns, Sane, ListsSane
<1> QED BY <1>1, OwnInvariant, PTL

\* The end of file is queued exactly when the peer's FIN was taken.
THEOREM EndOfFile == PromptDrop => (Spec => []EofIffPeerClosed)
<1> SUFFICES ASSUME PromptDrop PROVE Spec => []EofIffPeerClosed
  OBVIOUS
<1>1. OwnInv => EofIffPeerClosed
  BY OwnFacts DEF EofIffPeerClosed, Fits, PeerClosed
<1> QED BY <1>1, OwnInvariant, PTL

\* A shut down stream's FIN is sent or remembered by TF_CLOSEPEND.
THEOREM FinSent == PromptDrop => (Spec => []ShutdownSendsFin)
<1> SUFFICES ASSUME PromptDrop PROVE Spec => []ShutdownSendsFin
  OBVIOUS
<1>1. OwnInv => ShutdownSendsFin
  BY OwnFacts DEF ShutdownSendsFin, Fits, Open
<1> QED BY <1>1, OwnInvariant, PTL

\* No established connection outlives its stream, unless its FIN is pending.
THEOREM Orphans == PromptDrop => (Spec => []OrphanIsClosing)
<1> SUFFICES ASSUME PromptDrop PROVE Spec => []OrphanIsClosing
  OBVIOUS
<1>1. OwnInv => OrphanIsClosing
  BY DEF OwnInv, Owns, Open, OrphanIsClosing
<1> QED BY <1>1, OwnInvariant, PTL

\* The two theorems a user of TcpStream needs. Every raw pointer between a
\* TcpStream and its tcp_pcb is good whenever the code may use it.
THEOREM PointersSound == PromptDrop => (Spec => []StreamsOwnPcbs)
<1> SUFFICES ASSUME PromptDrop PROVE Spec => []StreamsOwnPcbs
  OBVIOUS
<1>1. Spec => []OpenStreamOwnsPcb /\ []ShutdownKeepsPcb /\ []CallbackArgLive
  BY OpenOwnership, Ownership, CallbacksSafe
<1>2. OpenStreamOwnsPcb /\ ShutdownKeepsPcb /\ CallbackArgLive => StreamsOwnPcbs
  BY DEF StreamsOwnPcbs
<1> QED BY <1>1, <1>2, PTL

\* No end of a connection is forgotten: the FIN that came reaches tcp_recv_cb
\* once, the FIN to be sent stays pending through tcp_handle_closepend.
THEOREM EndsKept == PromptDrop => (Spec => []ClosesKept)
<1> SUFFICES ASSUME PromptDrop PROVE Spec => []ClosesKept
  OBVIOUS
<1>1. Spec => []EofIffPeerClosed /\ []ShutdownSendsFin /\ []OrphanIsClosing
  BY EndOfFile, FinSent, Orphans
<1>2. EofIffPeerClosed /\ ShutdownSendsFin /\ OrphanIsClosing => ClosesKept
  BY DEF ClosesKept
<1> QED BY <1>1, <1>2, PTL

-------------------------------------------------------------------------------
(* The argument of a handshake, which tcp_accept_cb takes for a TcpListener.   *)

\* Handshakes that are old keep their listener, as long as it stays.
LEMMA SameAccept ==
  ASSUME AcceptArgLive, \A p \in Pcbs : KeepsAccept(pcb[p], pcb'[p]),
         \A l : Listening(l) => Listening(l)'
  PROVE AcceptArgLive'
BY DEF AcceptArgLive, KeepsAccept, Awaited

\* A step that leaves the listeners alone.
LEMMA SameListening ==
  ASSUME UNCHANGED lpcbs PROVE \A l : Listening(l) => Listening(l)'
BY DEF Listening

\* A handshake begins with the newest listener.
LEMMA SynAccept ==
  ASSUME OwnInv, AcceptArgLive, NEW c \in Conns, RecvSyn(c) PROVE AcceptArgLive'
<1>1. PICK o \in TcpAlloc :
        \/ pcb' = o.pcb
        \/ o.slot # Null /\ pcb' = [o.pcb EXCEPT ![o.slot] = NewPcb(c, lpcbs[1])]
  BY DEF RecvSyn
<1>2. /\ o.slot \in Pcbs \cup {Null} /\ TablesOK(o.pcb, o.stream)
      /\ \A p \in Pcbs : KeepsAccept(pcb[p], o.pcb[p])
      /\ lpcbs \in Seq(Listeners)
  BY AllocType, AllocSame DEF OwnInv, TypeInv, TypeOK, Same
<1>3. UNCHANGED lpcbs /\ \A l : Listening(l) <=> Listening(l)'
  BY DEF RecvSyn, Listening
<1>4. CASE pcb' = o.pcb
  BY <1>2, <1>3, <1>4, SameAccept
<1>5. CASE o.slot # Null /\ pcb' = [o.pcb EXCEPT ![o.slot] = NewPcb(c, lpcbs[1])]
  <2> DEFINE n == NewPcb(c, lpcbs[1])
  <2>1. n.arg = lpcbs[1] /\ n.listener = lpcbs[1]
    BY DEF NewPcb, FreePcb
  <2>2. Listening(lpcbs[1])
    BY <1>2 DEF RecvSyn, Listening
  <2> HIDE DEF n
  <2>3. \A p \in Pcbs : pcb'[p] = IF p = o.slot THEN n ELSE o.pcb[p]
    BY <1>2, <1>5 DEF TablesOK, n
  <2>4. \A p \in Pcbs : Awaited(pcb'[p]) =>
          pcb'[p].arg = pcb'[p].listener /\ Listening(pcb'[p].listener)
    BY <1>2, <2>1, <2>2, <2>3 DEF AcceptArgLive, KeepsAccept, Awaited
  <2> QED BY <1>3, <2>4 DEF AcceptArgLive, Awaited
<1> QED BY <1>1, <1>4, <1>5

\* tcp_close of a listener: its handshakes are told, the other listeners stay.
LEMMA DropAccept ==
  ASSUME OwnInv, AcceptArgLive, NEW i \in DOMAIN lpcbs, DropListener(i) PROVE AcceptArgLive'
<1>1. /\ pcb \in [Pcbs -> Pcb] /\ lpcbs \in Seq(Listeners)
      /\ Len(lpcbs) \in Nat /\ DOMAIN lpcbs = 1 .. Len(lpcbs)
  BY DEF OwnInv, TypeInv, TypeOK
<1>2. ASSUME NEW q \in Pcb
      PROVE LET n == [q EXCEPT !.listener = Null]
            IN n.listener = Null /\ n.state = q.state /\ n.arg = q.arg
  BY DEF Pcb
<1>3. ASSUME NEW p \in Pcbs, Awaited(pcb'[p])
      PROVE pcb'[p] = pcb[p] /\ pcb[p].listener # lpcbs[i]
  BY <1>1, <1>2, <1>3 DEF DropListener, ListenClosed, Awaited
<1>4. ASSUME NEW l, l # lpcbs[i], Listening(l) PROVE Listening(l)'
  <2>1. PICK k \in 1 .. Len(lpcbs) : lpcbs[k] = l
    BY <1>1, <1>4 DEF Listening
  <2>2. k # i /\ i \in 1 .. Len(lpcbs)
    BY <1>1, <1>4, <2>1
  <2> DEFINE f == [x \in 1 .. Len(lpcbs) - 1 |-> IF x < i THEN lpcbs[x] ELSE lpcbs[x + 1]]
  <2>3. lpcbs' = f
    BY DEF DropListener
  <2>4. CASE k < i
    <3>1. k \in 1 .. Len(lpcbs) - 1 /\ f[k] = l
      BY <1>1, <2>1, <2>2, <2>4
    <3> QED BY <2>3, <3>1 DEF Listening
  <2>5. CASE k > i
    <3>1. k - 1 \in 1 .. Len(lpcbs) - 1 /\ f[k - 1] = l
      BY <1>1, <2>1, <2>2, <2>5
    <3> QED BY <2>3, <3>1 DEF Listening
  <2> QED BY <2>2, <2>4, <2>5
<1> QED BY <1>3, <1>4 DEF AcceptArgLive, Awaited

\* A live stream's pcb is past its handshake, so dropping the stream clears no
\* handshake's argument.
LEMMA DropStreamAccept ==
  ASSUME OwnInv, AcceptArgLive, NEW s \in Streams, DropStream(s) PROVE AcceptArgLive'
<1> DEFINE d == stream[s].pcb
           n == [pcb[d] EXCEPT !.arg = Null, !.cbs = FALSE]
<1>1. pcb \in [Pcbs -> Pcb] /\ Live(s) /\ d \in Pcbs
  BY DEF OwnInv, TypeInv, TablesOK, DropStream, Live
<1>2. n.state = pcb[d].state
  BY <1>1 DEF Pcb
<1>3. Detached(pcb, d) = [pcb EXCEPT ![d] = n]
  BY <1>1 DEF Detached
<1>4. ~stream[s].errored => pcb[d].state # "SYN_RCVD"
  BY <1>1, OwnFacts DEF Fits, Connected, Open, PeerClosed
<1>5. pcb' = IF stream[s].errored THEN pcb
             ELSE IF stream[s].closed THEN Detached(pcb, d)
             ELSE Freed(Detached(pcb, d), {d})
  BY DEF DropStream, Aborted
<1> HIDE DEF n, d
<1>6. ASSUME NEW p \in Pcbs PROVE KeepsAccept(pcb[p], pcb'[p])
  <2>1. \/ pcb'[p] = pcb[p] \/ pcb'[p] = FreePcb
        \/ pcb'[p] = n /\ ~stream[s].errored
    BY <1>1, <1>3, <1>5 DEF Freed
  <2> QED BY <1>2, <1>4, <2>1 DEF KeepsAccept, Awaited, FreePcb
<1>7. UNCHANGED lpcbs
  BY DEF DropStream
<1> QED BY <1>6, <1>7, SameAccept, SameListening

\* Every step keeps the arguments of the handshakes.
LEMMA StepAccept == OwnInv /\ AcceptArgLive /\ [Next]_vars => AcceptArgLive'
<1> SUFFICES ASSUME OwnInv, AcceptArgLive, [Next]_vars PROVE AcceptArgLive'
  OBVIOUS
<1>1. TypeInv
  BY DEF OwnInv
<1>2. ASSUME \A p \in Pcbs : Same(pcb[p], pcb'[p]), UNCHANGED lpcbs PROVE AcceptArgLive'
  BY <1>2, SameAccept, SameListening DEF Same
<1>3. CASE Segment /\ \A c \in Conns : ~RecvSyn(c)
  <2>1. UNCHANGED lpcbs
    BY <1>3 DEF Segment, SynRcvdAccept, SynRcvdOrphan, SynRcvdOther, EstablishedInput,
         FinWait1Input, FinWait2Input, ClosingInput, LastAckInput, TimewaitInput, RecvRst
  <2> QED BY <1>1, <1>2, <1>3, <2>1, InputSame
<1>4. CASE TcpTmr
  BY <1>1, <1>2, <1>4, TimerSame DEF TcpTmr
<1>5. CASE App /\ (\A s \in Streams : ~DropStream(s)) /\ \A i \in DOMAIN lpcbs : ~DropListener(i)
  <2>1. \A p \in Pcbs : KeepsAccept(pcb[p], pcb'[p])
    BY <1>1, <1>5, AppSame DEF Same
  <2>2. UNCHANGED lpcbs \/ \E l \in Listeners : lpcbs' = <<l>> \o lpcbs
    BY <1>5 DEF App, NewListener, PollNext, PollShutdown
  <2>3. ASSUME NEW l, Listening(l) PROVE Listening(l)'
    <3>1. CASE UNCHANGED lpcbs
      BY <2>3, <3>1 DEF Listening
    <3>2. ASSUME NEW x \in Listeners, lpcbs' = <<x>> \o lpcbs PROVE Listening(l)'
      <4>1. lpcbs \in Seq(Listeners) /\ <<x>> \in Seq(Listeners) /\ Len(<<x>>) = 1
        BY <1>1 DEF TypeInv, TypeOK
      <4>2. PICK k \in 1 .. Len(lpcbs) : lpcbs[k] = l
        BY <2>3, <4>1 DEF Listening
      <4>3. k + 1 \in DOMAIN lpcbs' /\ lpcbs'[k + 1] = l
        BY <3>2, <4>1, <4>2
      <4> QED BY <4>3 DEF Listening
    <3> QED BY <2>2, <3>1, <3>2
  <2> QED BY <2>1, <2>3, SameAccept
<1>6. CASE UNCHANGED vars
  BY <1>6 DEF vars, AcceptArgLive, Listening
<1> QED BY <1>3, <1>4, <1>5, <1>6, SynAccept, DropAccept, DropStreamAccept
      DEF Next, Segment, App

\* A handshake that has not lost its listener hands tcp_accept_cb a TcpListener
\* that is still there.
THEOREM AcceptSafe == PromptDrop => (Spec => []AcceptArgLive)
<1> SUFFICES ASSUME PromptDrop PROVE Spec => []AcceptArgLive
  OBVIOUS
<1>1. Init => AcceptArgLive
  BY DEF Init, AcceptArgLive, FreePcb
<1> QED BY <1>1, StepAccept, OwnInvariant, PTL DEF Spec
===============================================================================
