------------------------------ MODULE UdpSocket ------------------------------
(***************************************************************************)
(* src/src/udp.rs over src/src/lwip/core/udp.c and memp.c.  A UdpSocket    *)
(* owns a udp pcb, whose receive callback finds the socket through         *)
(* recv_arg.  Packets come in under LWIP_MUTEX, and so does                *)
(* SendHalf::send_to, but new and drop pop and push the pool of pcbs, and  *)
(* link and unlink the list of pcbs, without it.  A step of theirs reads   *)
(* or writes one pointer of the pool or of the list, or fills one slot; an *)
(* order of stores other than the program's is left out.                   *)
(***************************************************************************)
EXTENDS Naturals, FiniteSets, Functions

CONSTANTS
  Sockets,    \* addresses of the boxes of UdpSockets
  Sender,     \* whoever is in send_to with LWIP_MUTEX
  Pcbs,       \* MEMP_UDP_PCB
  QueueLen,   \* capacity of a socket's channel
  MaxPbufs,   \* bound on the packet buffers that exist
  Overlaps,   \* the choices of overlap
  Null

ASSUME UdpAssumption ==
  /\ QueueLen \in Nat \ {0} /\ MaxPbufs \in Nat \ {0}
  /\ Null \notin Sockets \cup Pcbs /\ Sender \notin Sockets
  /\ IsFiniteSet(Pcbs)
  /\ Overlaps \subseteq SUBSET {"input", "send", "make"}

VARIABLES
  overlap,   \* what overlaps a new or a drop on another thread; never changes
  udp_pcbs,  \* the first pcb of the list, newest first
  next,      \* of each slot: pcb->next; a freed slot keeps it
  pcb,       \* of each slot: recv, recv_arg, local_port; kept likewise
  tab,       \* the first free slot
  memp,      \* of each slot: memp->next, which overlies local_ip
  task,      \* of each socket: where new or drop is, the pcb, and two registers
  half,      \* the pcb address in the SendHalf that was split off, if any
  rx,        \* datagrams in each socket's channel
  input,     \* udp_input, which holds the lock unless its pc is "out"
  pbufs      \* packet buffers allocated for datagrams

shared == <<udp_pcbs, next, pcb, tab, memp>>
others == <<half, rx, input, pbufs>>
vars == <<overlap, shared, task, others>>

Tasks == Sockets \cup {Sender}

Idle == [pc |-> "none", pcb |-> Null, at |-> Null, reg |-> Null]

Outside == [pc |-> "out", pcb |-> Null, arg |-> Null]

\* A null-terminated list in memory: n slots in the order c, each once.
IsChain(n, c, first, link) ==
  /\ IsInjective(c)
  /\ first = IF n = 0 THEN Null ELSE c[1]
  /\ \A i \in 1 .. n : link[c[i]] = IF i = n THEN Null ELSE c[i + 1]

\* A runtime with one thread overlaps nothing.  With several, udp_input overlaps
\* ("input"); and unless the application makes and drops its sockets, and sends, one
\* after the other, so do send_to ("send") and another new or drop ("make").
Init ==
  /\ overlap \in Overlaps
  /\ udp_pcbs = Null
  /\ next = [q \in Pcbs |-> Null]
  /\ pcb = [q \in Pcbs |-> [recv |-> FALSE, arg |-> Null, port |-> FALSE]]
  /\ tab \in Pcbs \cup {Null} /\ memp \in [Pcbs -> Pcbs \cup {Null}]
  /\ \E c \in [1 .. Cardinality(Pcbs) -> Pcbs] :
       IsChain(Cardinality(Pcbs), c, tab, memp) /\ Range(c) = Pcbs
  /\ task = [t \in Tasks |-> Idle]
  /\ half = [s \in Sockets |-> Null]
  /\ rx = [s \in Sockets |-> 0]
  /\ input = Outside
  /\ pbufs = 0

Busy(t) == task[t].pc \notin {"none", "open"}

\* t, in new, drop or send_to, overlaps nothing else than it may.
Alone(t) ==
  /\ "input" \notin overlap => input.pc = "out"
  /\ \A u \in Tasks \ {t} : Busy(u) =>
       IF Sender \in {t, u} THEN "send" \in overlap ELSE "make" \in overlap

\* LWIP_MUTEX is free.
Unlocked == input.pc = "out" /\ ~Busy(Sender)

\* t, at `from', goes on to `to' with the registers it needs there.
Goes(t, from, to) ==
  /\ task[t].pc = from /\ Alone(t)
  /\ task' = [task EXCEPT ![t] = to]
  /\ UNCHANGED <<overlap, others>>

At(t, pc) == [Idle EXCEPT !.pc = pc, !.pcb = task[t].pcb]

-------------------------------------------------------------------------------
(* UdpSocket::new, without the lock: udp_new and the pop of memp_malloc.  With *)
(* an empty pool udp_bind says ERR_ARG, and new fails leaving nothing behind.  *)

PopLoad(s) ==
  /\ tab # Null
  /\ Goes(s, "none", [Idle EXCEPT !.pc = "popping", !.at = tab])
  /\ UNCHANGED shared

PopNext(s) ==
  /\ Goes(s, "popping", [task[s] EXCEPT !.pc = "popped", !.reg = memp[task[s].at]])
  /\ UNCHANGED shared

PopStore(s) ==
  /\ Goes(s, "popped", [Idle EXCEPT !.pc = "raw", !.pcb = task[s].at])
  /\ tab' = task[s].reg
  /\ UNCHANGED <<udp_pcbs, next, pcb, memp>>

\* memset of the whole slot.
Zero(s) ==
  LET q == task[s].pcb
  IN /\ Goes(s, "raw", At(s, "made"))
     /\ pcb' = [pcb EXCEPT ![q] = [recv |-> FALSE, arg |-> Null, port |-> FALSE]]
     /\ next' = [next EXCEPT ![q] = Null]
     /\ memp' = [memp EXCEPT ![q] = Null]
     /\ UNCHANGED <<udp_pcbs, tab>>

-------------------------------------------------------------------------------
(* udp_bind, of new and of send_to. *)

BindStart(t) ==
  /\ Goes(t, "made", [task[t] EXCEPT !.pc = "search", !.at = udp_pcbs])
  /\ UNCHANGED shared

\* Is the pcb already in the list?
BindWalk(t) ==
  /\ task[t].at \notin {Null, task[t].pcb}
  /\ Goes(t, "search", [task[t] EXCEPT !.at = next[task[t].at]])
  /\ UNCHANGED shared

\* The walk has ended: the slot gets a fresh port (udp_new_port's own walk of the list
\* only picks it), and from new the address any, all zeroes.  A pcb that was found is
\* not linked again.
BindPort(t) ==
  LET q == task[t].pcb
      found == task[t].at = q
  IN /\ task[t].at \in {Null, q}
     /\ Goes(t, "search", IF ~found THEN At(t, "link")
                          ELSE IF t = Sender THEN Idle ELSE At(t, "bound"))
     /\ pcb' = [pcb EXCEPT ![q].port = TRUE]
     /\ memp' = IF t = Sender THEN memp ELSE [memp EXCEPT ![q] = Null]
     /\ UNCHANGED <<udp_pcbs, next, tab>>

LinkLoad(t) ==
  /\ Goes(t, "link", [task[t] EXCEPT !.pc = "linking", !.reg = udp_pcbs])
  /\ UNCHANGED shared

LinkNext(t) ==
  /\ Goes(t, "linking", At(t, "linked"))
  /\ next' = [next EXCEPT ![task[t].pcb] = task[t].reg]
  /\ UNCHANGED <<udp_pcbs, pcb, tab, memp>>

LinkHead(t) ==
  /\ Goes(t, "linked", IF t = Sender THEN Idle ELSE At(t, "bound"))
  /\ udp_pcbs' = task[t].pcb
  /\ UNCHANGED <<next, pcb, tab, memp>>

-------------------------------------------------------------------------------
(* udp_recv: first the callback, then its argument. *)

SetRecv(s) ==
  /\ Goes(s, "bound", At(s, "heard"))
  /\ pcb' = [pcb EXCEPT ![task[s].pcb].recv = TRUE]
  /\ UNCHANGED <<udp_pcbs, next, tab, memp>>

SetArg(s) ==
  /\ Goes(s, "heard", At(s, "open"))
  /\ pcb' = [pcb EXCEPT ![task[s].pcb].arg = s]
  /\ UNCHANGED <<udp_pcbs, next, tab, memp>>

\* UdpSocket::drop, without the lock: udp_recv with null.
ClearRecv(s) ==
  /\ Goes(s, "open", At(s, "deaf"))
  /\ pcb' = [pcb EXCEPT ![task[s].pcb].recv = FALSE]
  /\ UNCHANGED <<udp_pcbs, next, tab, memp>>

ClearArg(s) ==
  /\ Goes(s, "deaf", At(s, "detached"))
  /\ pcb' = [pcb EXCEPT ![task[s].pcb].arg = Null]
  /\ UNCHANGED <<udp_pcbs, next, tab, memp>>

-------------------------------------------------------------------------------
(* udp_remove. *)

\* Mutant of RemoveTest: the pcb is freed but stays in the list.
RemoveTestFreesOnly(s) ==
  /\ Goes(s, "detached", At(s, "removed"))
  /\ UNCHANGED shared

\* The pcb is the first of the list (found, with no predecessor), or is looked
\* for from there.
RemoveTest(s) ==
  /\ Goes(s, "detached",
          IF udp_pcbs = task[s].pcb THEN At(s, "found")
          ELSE [task[s] EXCEPT !.pc = "seek", !.at = udp_pcbs])
  /\ UNCHANGED shared

SeekNext(s) ==
  LET at == task[s].at
  IN /\ at # Null
     /\ Goes(s, "seek", IF next[at] = task[s].pcb THEN [task[s] EXCEPT !.pc = "found"]
                        ELSE [task[s] EXCEPT !.at = next[at]])
     /\ UNCHANGED shared

UnlinkLoad(s) ==
  /\ Goes(s, "found", [task[s] EXCEPT !.pc = "unlink", !.reg = next[task[s].pcb]])
  /\ UNCHANGED shared

\* Mutant of UnlinkStore: the pcb is taken for the first of the list.
UnlinkStoreFirst(s) ==
  /\ Goes(s, "unlink", At(s, "removed"))
  /\ udp_pcbs' = task[s].reg
  /\ UNCHANGED <<next, pcb, tab, memp>>

\* The first slot's predecessor is the head of the list.
UnlinkStore(s) ==
  LET p == task[s].at
  IN /\ Goes(s, "unlink", At(s, "removed"))
     /\ IF p = Null
        THEN udp_pcbs' = task[s].reg /\ UNCHANGED next
        ELSE next' = [next EXCEPT ![p] = task[s].reg] /\ UNCHANGED udp_pcbs
     /\ UNCHANGED <<pcb, tab, memp>>

\* The end of the list: udp_remove goes on without having found the pcb.
SeekEnd(s) ==
  /\ task[s].at = Null
  /\ Goes(s, "seek", At(s, "removed"))
  /\ UNCHANGED shared

\* memp_free pushes the slot; then the box goes, with the channel.
PushLoad(s) ==
  /\ Goes(s, "removed", [task[s] EXCEPT !.pc = "push", !.reg = tab])
  /\ UNCHANGED shared

PushNext(s) ==
  /\ Goes(s, "push", At(s, "pushed"))
  /\ memp' = [memp EXCEPT ![task[s].pcb] = task[s].reg]
  /\ UNCHANGED <<udp_pcbs, next, pcb, tab>>

PushStore(s) ==
  /\ Goes(s, "pushed", [Idle EXCEPT !.pc = "freed"])
  /\ tab' = task[s].pcb
  /\ UNCHANGED <<udp_pcbs, next, pcb, memp>>

FreeBox(s) ==
  /\ task[s].pc = "freed" /\ Alone(s)
  /\ task' = [task EXCEPT ![s] = Idle]
  /\ rx' = [rx EXCEPT ![s] = 0]
  /\ UNCHANGED <<overlap, shared, half, input, pbufs>>

-------------------------------------------------------------------------------
(* The socket's users. *)

\* recv_from takes a datagram from the channel.
RecvFrom(s) ==
  /\ task[s].pc = "open" /\ rx[s] > 0
  /\ rx' = [rx EXCEPT ![s] = @ - 1]
  /\ UNCHANGED <<overlap, shared, task, half, input, pbufs>>

\* split copies the pcb's address into a SendHalf.
Split(s) ==
  /\ task[s].pc = "open" /\ half[s] = Null
  /\ half' = [half EXCEPT ![s] = task[s].pcb]
  /\ UNCHANGED <<overlap, shared, task, rx, input, pbufs>>

DropHalf(s) ==
  /\ half[s] # Null
  /\ half' = [half EXCEPT ![s] = Null]
  /\ UNCHANGED <<overlap, shared, task, rx, input, pbufs>>

\* send_to, under the lock: udp_sendto binds a pcb that has no port yet, which
\* only a slot that was given to another socket since can be.
SendTo(s) ==
  LET q == half[s]
  IN /\ q # Null /\ ~pcb[q].port
     /\ Unlocked
     /\ Goes(Sender, "none", [Idle EXCEPT !.pc = "made", !.pcb = q])
     /\ UNCHANGED shared

-------------------------------------------------------------------------------
(* udp_input, under the lock. *)

\* A datagram: whatever its addresses, the first pcb of the list takes it.
InputBegin ==
  /\ Unlocked /\ pbufs < MaxPbufs
  /\ "input" \notin overlap => \A t \in Tasks : ~Busy(t)
  /\ pbufs' = pbufs + 1
  /\ input' = [pc |-> "picked", pcb |-> udp_pcbs, arg |-> Null]
  /\ UNCHANGED <<overlap, shared, task, half, rx>>

\* No pcb, or one without callback: the pbuf is freed.
InputDiscard ==
  /\ input.pc = "picked"
  /\ input.pcb # Null => ~pcb[input.pcb].recv
  /\ input' = Outside
  /\ pbufs' = pbufs - 1
  /\ UNCHANGED <<overlap, shared, task, half, rx>>

\* The pcb has a callback,
InputTest ==
  /\ input.pc = "picked" /\ input.pcb # Null
  /\ pcb[input.pcb].recv
  /\ input' = [input EXCEPT !.pc = "tested"]
  /\ UNCHANGED <<overlap, shared, task, half, rx, pbufs>>

\* which is called with the pcb's argument.
InputCall ==
  /\ input.pc = "tested"
  /\ input' = [input EXCEPT !.pc = "calling", !.arg = pcb[input.pcb].arg]
  /\ UNCHANGED <<overlap, shared, task, half, rx, pbufs>>

\* udp_recv_cb with a null argument returns at once, and frees nothing.
RecvCbClosed ==
  /\ input.pc = "calling" /\ input.arg = Null
  /\ input' = Outside
  /\ UNCHANGED <<overlap, shared, task, half, rx, pbufs>>

\* Mutant of RecvCb: a datagram that finds the channel full keeps its pbuf.
RecvCbKeepsPbuf ==
  LET s == input.arg
      sent == rx[s] < QueueLen
  IN /\ input.pc = "calling" /\ s # Null
     /\ input' = Outside
     /\ pbufs' = IF sent THEN pbufs - 1 ELSE pbufs
     /\ rx' = IF sent THEN [rx EXCEPT ![s] = @ + 1] ELSE rx
     /\ UNCHANGED <<overlap, shared, task, half>>

\* Mutant of RecvCb: an unbounded channel.
RecvCbUnbounded ==
  LET s == input.arg
  IN /\ input.pc = "calling" /\ s # Null
     /\ input' = Outside
     /\ pbufs' = pbufs - 1
     /\ rx' = [rx EXCEPT ![s] = @ + 1]
     /\ UNCHANGED <<overlap, shared, task, half>>

\* udp_recv_cb copies the datagram, frees the pbuf, and drops the copy when the
\* channel is full.
RecvCb ==
  LET s == input.arg
      sent == rx[s] < QueueLen
  IN /\ input.pc = "calling" /\ s # Null
     /\ input' = Outside
     /\ pbufs' = pbufs - 1
     /\ rx' = IF sent THEN [rx EXCEPT ![s] = @ + 1] ELSE rx
     /\ UNCHANGED <<overlap, shared, task, half>>

-------------------------------------------------------------------------------
New(s) == PopLoad(s) \/ PopNext(s) \/ PopStore(s) \/ Zero(s) \/ SetRecv(s) \/ SetArg(s)

UdpBind(t) ==
  BindStart(t) \/ BindWalk(t) \/ BindPort(t) \/ LinkLoad(t) \/ LinkNext(t) \/ LinkHead(t)

Drop(s) ==
  \/ ClearRecv(s) \/ ClearArg(s)
  \/ RemoveTest(s) \/ SeekNext(s) \/ SeekEnd(s) \/ UnlinkLoad(s) \/ UnlinkStore(s)
  \/ PushLoad(s) \/ PushNext(s) \/ PushStore(s) \/ FreeBox(s)

Next ==
  \/ \E s \in Sockets : New(s) \/ Drop(s) \/ RecvFrom(s) \/ Split(s) \/ DropHalf(s) \/ SendTo(s)
  \/ \E t \in Tasks : UdpBind(t)
  \/ InputBegin \/ InputDiscard \/ InputTest \/ InputCall \/ RecvCbClosed \/ RecvCb

Spec == Init /\ [][Next]_vars

-------------------------------------------------------------------------------
(* Properties. *)

TypeOK ==
  /\ overlap \in Overlaps
  /\ udp_pcbs \in Pcbs \cup {Null} /\ next \in [Pcbs -> Pcbs \cup {Null}]
  /\ tab \in Pcbs \cup {Null} /\ memp \in [Pcbs -> Pcbs \cup {Null}]
  /\ pcb \in [Pcbs -> [recv : BOOLEAN, arg : Sockets \cup {Null}, port : BOOLEAN]]
  /\ task \in [Tasks -> [pc : {"none", "popping", "popped", "raw", "made", "search", "link",
                               "linking", "linked", "bound", "heard", "open", "deaf",
                               "detached", "seek", "found", "unlink", "removed", "push",
                               "pushed", "freed"},
                         pcb : Pcbs \cup {Null}, at : Pcbs \cup {Null},
                         reg : Pcbs \cup {Null}]]
  /\ half \in [Sockets -> Pcbs \cup {Null}]
  /\ rx \in [Sockets -> 0 .. QueueLen]
  /\ input \in [pc : {"out", "picked", "tested", "calling"}, pcb : Pcbs \cup {Null},
                arg : Sockets \cup {Null}]
  /\ pbufs \in 0 .. MaxPbufs

\* udp_input and the callback work on a pcb and a socket that are in use, never
\* on ones that udp_remove or the drop of the box gave back (udp.rs:27 casts
\* the argument to a socket), if the runtime has one thread.
InputUsesLive ==
  overlap = {} =>
    /\ input.pcb # Null => \E s \in Sockets : task[s].pc = "open" /\ task[s].pcb = input.pcb
    /\ input.arg # Null => task[input.arg].pc = "open" /\ task[input.arg].pcb = input.pcb

\* Every datagram's pbuf is freed by the time udp_input returns, on each of the
\* ways out of it, no pcb, no callback, a full channel, success: udp_recv_cb is
\* not called with a null argument if the runtime has one thread.
PbufFreed == overlap = {} /\ input.pc = "out" => pbufs = 0

\* On a runtime with one thread udp_input touches nothing freed and leaves nothing
\* allocated: both.
InputSafe == InputUsesLive /\ PbufFreed

\* Whom a slot belongs to, from memp_malloc's last store to memp_free's.
Owns(s, q) == task[s].pcb = q

\* Where a socket's pcb is linked into the list.
Linked == {"bound", "heard", "open", "deaf", "detached", "seek", "found", "unlink"}

\* The list of pcbs and the pool's list of free slots, as memory has them, run to
\* null and never in a circle.
ListOK ==
  \E n \in 0 .. Cardinality(Pcbs) : \E c \in [1 .. n -> Pcbs] :
    /\ IsChain(n, c, udp_pcbs, next)
    /\ Range(c) = {q \in Pcbs : \E s \in Sockets : Owns(s, q) /\ task[s].pc \in Linked}

PoolOK ==
  \E n \in 0 .. Cardinality(Pcbs) : \E c \in [1 .. n -> Pcbs] :
    /\ IsChain(n, c, tab, memp)
    /\ Range(c) = {q \in Pcbs : \A s \in Sockets : ~Owns(s, q)}

\* No slot is two sockets', the pool has exactly those that are no socket's, and the
\* list exactly those that udp_bind linked and udp_remove has not unlinked.
MemorySane ==
  /\ ListOK /\ PoolOK
  /\ \A s, r \in Sockets : task[s].pcb # Null /\ Owns(r, task[s].pcb) => r = s

\* Memory is sane between any two stores of new and drop, so also when udp_input
\* reads the list there: whatever SendHalves outlive their sockets and send through
\* a slot that was given to another, provided that the application does not make,
\* drop or send on two threads at once.  (MemorySane without the proviso fails:
\* README, Divergences.)
ListSane == overlap \subseteq {"input"} => MemorySane

\* LWIP_ASSERT_CORE_LOCKED in udp_new, udp_bind, udp_recv and udp_remove: they
\* run only while no other task is inside lwIP (fails: README, Divergences).
CoreLocked == input.pc # "out" => \A s \in Sockets : ~Busy(s)
===============================================================================
