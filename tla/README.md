# netstack-lwip in TLA+

The crate turns the packets of a TUN device into TCP streams and UDP datagrams.
It wraps lwIP (C, `src/src/lwip`) in a few Rust types (`src/src/*.rs`); lwIP runs
with `NO_SYS`, so everything it does happens inside a call the crate makes, under
one spin lock, `LWIP_MUTEX`.  Source paths below are relative to `src/src/`.

## The system

| Part | State | Operations | Interacts with |
|---|---|---|---|
| `LWIP_MUTEX` (`mutex.rs`) | one atomic flag | `lock`, `try_lock`, guard drop | every other part |
| TCP pcbs (`lwip/core/tcp.c`, `tcp_in.c`) | pcb pool, the bound, listen, active and TIME_WAIT lists, states, callbacks and their argument, TF_CLOSEPEND | `tcp_input`, `tcp_slowtmr`, `tcp_fasttmr`, `tcp_alloc`, `tcp_shutdown`, `tcp_abort`, `tcp_close`, `tcp_listen` | calls back into streams and listeners, is armed by and arms the timer |
| `TcpListener` (`tcp_listener.rs`) | pointer to its listen pcb, queue of accepted streams | `new`, `tcp_accept_cb`, `poll_next`, `drop` | tcp.c |
| `TcpStream` (`tcp_stream.rs`, `tcp_stream_context.rs`) | pointer to its pcb, `errored`, `closed`, end of file, read queue, write waker | `new`, `tcp_recv_cb`, `tcp_sent_cb`, `tcp_err_cb`, `tcp_poll_cb`, `poll_read`, `poll_write`, `poll_flush`, `poll_shutdown`, `drop` | tcp.c, tcp_out.c |
| TCP data path (`tcp_in.c`, `tcp_out.c`) | sequence numbers, windows, segment queues, retransmission timer | `tcp_receive`, `tcp_write`, `tcp_output`, `tcp_recved` | streams, memory |
| `NetStack` (`stack.rs`, `output.rs`) | the packet being flushed, the bounded output queue, the waker, the global output pointer | `_new`, `poll_ready`, `start_send`, `poll_flush`, `poll_next`, `output`, `drop`, the timer task | IP input, netif output |
| `UdpSocket` (`udp.rs`, `lwip/core/udp.c`) | the udp pcb list and pool, the bounded queue, the waker | `new`, `udp_recv_cb`, `poll_next`, `send_to`, `split`, `drop` | UDP input, without the lock in `new` and `drop` |
| Timeouts (`lwip/core/timeouts.c`, `custom/sys_arch.c`) | list of timeouts ordered by time, `tcpip_tcp_timer_active`, the wall clock | `sys_timeout`, `sys_check_timeouts`, `lwip_cyclic_timer`, `tcpip_tcp_timer`, `tcp_timer_needed` | the timer tasks, tcp.c, reassembly, nd6 |
| Memory (`pbuf.c`, `mem.c`, `memp.c`) | reference counts and chains, the heap's block list and `lfree`, pools | `pbuf_alloc`, `pbuf_free`, `pbuf_ref`, `pbuf_cat`, `pbuf_chain`, `pbuf_realloc`, headers; `mem_malloc`, `mem_free`, `mem_trim` | everything in lwIP |
| IP (`ip4*.c`, `ip6*.c`, `nd6.c`, `netif.c`) | reassembly queues, the one interface | `ip4_reass`, `ip6_reass`, `ip4_frag`, `ip6_frag`, the fragment timers; demultiplexing, without state | TCP, UDP, pbuf |

What is hard about it: a pcb is freed from a segment, from a timer, or because
another connection needs its memory, while a Rust object keeps its raw address;
the application may drop a stream or a listener at any point of a handshake or a
close; a close may fail half way for lack of memory and be retried by a timer;
lwIP tells the stream of some of these ways to lose a pcb and not of others.
`PROJECT.json` lists these hazards at their lines, with the properties aimed at
each one.

## Modules

| Module | Models |
|---|---|
| `AbstractLock` | what a lock promises: one holder, taken when free |
| `AtomicMutex` | `mutex.rs`, one action per atomic step |
| `TcpLifecycle` | the life of pcbs, and the streams and listeners that point to them |
| `MCTcpLifecycle` | symmetry of its model values |
| `TcpLifecycleProofs` | its types, peers and timer, and who owns a pcb |
| `TcpSend`, `TcpSendProofs` | the sending half of one connection, from `poll_write` to the peer; its theorems |
| `TcpReceive`, `TcpReceiveProofs` | the receiving half, from the peer to `poll_read`; its theorems |
| `NetStack`, `NetStackProofs` | the stack as sink and stream of packets, its output pointer; its theorems and the lock's |
| `UdpSocket`, `UdpSocketProofs` | sockets, halves, the udp pcb list and pool store by store, the receive path; its theorems |
| `MCUdpSocket` | symmetry of its model values |
| `Timeouts`, `MCTimeouts`, `TimeoutsProofs` | the list of timeouts on a clock that wraps and may be set, the timer task; its theorems |
| `Reassembly`, `MCReassembly`, `ReassemblyProofs` | fragments in any order, reassembly for both IP versions; its theorems |
| `AbstractHeap` | what a heap promises: blocks apart, memory refused only without a gap |
| `MemHeap` | `mem.c`: the list of blocks as operators |
| `Buffers`, `BuffersProofs` | `pbuf.c` over that heap, under the discipline of its callers; its theorems and the heap's |

### AtomicMutex

`lock` loops on `try_lock`, an atomic swap; `locked` is the flag, `pc` the place
of each thread.  A guard's drop is two steps, the swap and the debug assertion on
the value it returned.  Run `mutex` (three threads) checks mutual exclusion and the
assertion (`LockSound`), that some waiting thread gets in, and that the module implements
`AbstractLock` under the mapping of the threads past their swap to its owner.
Fairness: every thread that has not returned from `lock` or from the drop of its
guard keeps running (the scheduler runs every thread).  Nothing promises that a
*given* thread gets in: the lock is not fair.

### TcpLifecycle

Each action is one critical section under `LWIP_MUTEX`: one segment
(`tcp_input` for one pcb), one run of the TCP timer (`tcpip_tcp_timer`), or one
call of the application.  `pcb` maps each element of the pool to the fields of
`struct tcp_pcb` that decide control flow, `list` says which of the four lists it
is in; `stream` maps each address of a `TcpStream` to who holds it (nobody, a
listener's queue, the application) and to the flags of its context.

A segment is abstracted to which pcb it is for, whether it carries a FIN in
sequence, and whether it acknowledges everything; segments that lwIP answers
without changing a pcb are stuttering steps.  `age` is `tcp_ticks - pcb->tmr`,
cut at a bound past every limit.  Whether `tcp_send_fin` finds memory is a
nondeterministic choice, and so is which retransmission limits are hit by a peer
that still sends something (`MayGiveUp`).

`PromptDrop` is an assumption about the application, not about the code: lwIP
frees a TIME_WAIT pcb with no callback, so a stream that was shut down and whose
peer closed too must be dropped before that happens.  With `PromptDrop` TRUE
such a step waits for the application; with FALSE nothing is assumed.

| Run | Question | Result |
|---|---|---|
| `tcp_lifecycle` | who owns each pcb (`StreamsOwnPcbs`); one pcb per peer; listeners' arguments; end of file and pending closes (`ClosesKept`); the timer | holds, under `PromptDrop` |
| `tcp_waits_end` | does a handshake, an unanswered FIN, a TIME_WAIT end when the peer is silent | holds, under fairness of the timer task |
| `tcp_stale_pcb` | ownership without `PromptDrop` | violated: the stream keeps the address of a freed pcb |

Bounds: two pcbs and two peers make the pool run out on the second connection,
so `tcp_alloc` has to kill while the other pcb is in any state; two streams and
two listeners over a pool of one lpcb allow a stream in the queue, one with the
application, both dropped while the handshakes they came from are still there,
and a second listener that finds the pool empty.  The time limits
are one or two ticks each: only their order with respect to other events
matters.  Pcbs, streams, listeners and peers are interchangeable, so `tcp_lifecycle` uses
symmetry; `tcp_waits_end` does not.

Fairness: the timer task loops over `sys_check_timeouts` for ever (`stack.rs`), so
the timer's action is weakly fair; under `PromptDrop` the application's drop of a
fully closed stream is too.  Segments and the other calls of the application have
none.

### TcpSend

One established connection.  A byte is its position in the stream; `pcb` holds the
fields that sending uses, `unsent` and `unacked` are sets of segments (first byte,
length, FIN, number of pbufs) whose order is that of their first bytes.  Each
function of `tcp_out.c` and `tcp_in.c` is an operator from a pcb to a pcb (`Write`,
`SendFin`, `Output`, `Split`, `Probe`, `Rto`, `RexmitFast`, `Receive`, `Process`);
each action is one critical section: `PollWrite`, `PollFlush`, `PollShutdown`, one
segment (`Input`), the fast timer's retry of a close, and one slow tick for the
pcb, which does nothing, probes or splits, retransmits, gives up, or fails an
assertion, and may poll the stream.  Whether a timer has reached its limit and
whether memory is found are nondeterministic.  `data` and `acks` are what the
network holds: it loses, repeats and reorders.  The peer chooses any window and
opens it later, but never takes back what it announced.

Run `tcp_send`: bytes are neither lost nor invented between `poll_write` and the peer
(`NothingLost`); queues, pbuf counts and sequence numbers are right (`QueuesSound`);
the peer's window is respected; data that waits has a timer and a refused
`poll_write` has something queued whose ACK wakes it (`NoStall`); what the pcb takes
for acknowledged the peer has, FIN_WAIT_2 included (`PeerInStep`).  Two things fail,
see Divergences.

Bounds: an MSS of 2 and a window of 0 to 2 make every segment fit, need a split or
need a probe; three bytes and a FIN make two segments and a FIN that joins one or
stands alone; a send buffer of three bytes and two pbufs fills up; one
retransmission or probe reaches the limit; two ACKs in flight overtake each other,
and a third repetition of one starts a fast retransmission.  A segment is taken by
the peer once each time it is sent; an ACK may be taken any number of times.

Left out: sequence numbers do not wrap; Nagle's rule (every stream sets
TF_NODELAY, so segments are not allocated larger than their data); data of the
peer, so the window update's test of `snd_wl1` is constant; the congestion window past
the largest window of the peer; a missing output function (the NetStack is
there); a peer that refuses a FIN at a full window; a `poll_write` of nothing.
Once the pcb is given up, or an assertion has failed, nothing more is followed: hence no deadlock check.

### TcpReceive

`pcb` holds the fields that receiving uses, `read_rx` the channel that `tcp_recv_cb`
fills (an empty item is the end of the stream), `app` the `TcpStream` and a
`poll_read` in progress, `wire` the acknowledgment and the right edge of the last
segment the peer was sent.  `TrimFront`, `TrimEnd`, `Splice`, `Insert` and `Run` are
the five places of `tcp_receive` that cut, drop, queue and drain segments; the
segments of `ooseq` are a sequence as in the code.  One arriving segment is one
action, in four cases (`InputNoText`, `InputOutside`, `InputOutOfOrder`,
`InputInOrder`) with everything up to the `tcp_output` at the end of `tcp_input`;
`poll_read` holds the lock from `PollRead` to its return, one step for each item
it takes.  The network is not a variable: whatever a peer that obeys the announced
edge may ever have sent can arrive at any time, which is loss, repetition,
reordering and re-segmentation at once.

`env` is chosen once: the length of the stream; `plenty`, that memory and output
never fail; `careful`, that the peer counts its FIN as a byte of the window, which
lwIP's own sender does not (`Fits` in `TcpSend`).

Run `tcp_receive`: whatever arrives, the reader gets each acknowledged byte once and
in order and the end only after the last one (`StreamInOrder`).  `WindowHonest`:
`rcv_wnd` and the bytes in the channel add up to `TCP_WND`, so the unbounded channel is
bounded; what was announced is what would be taken; with `careful` no assertion on
the window fails.  The announced edge never moves back.  `PeerIsTold`: with `plenty`,
nothing received stays unacknowledged without an ACK scheduled, and a reader that
keeps up always leaves the peer a window.

Bounds: a window of five with a least announced growth of two and a threshold of three keeps the
code's order (mss, update threshold, window) with each apart from the next; seven
bytes refill the window after it closed; segments of up to three overlap each other
in every way, with three of them in `ooseq`; a read buffer of two cuts items.

Left out: wrapping sequence numbers, urgent data, closing from this side, and
`errored`, which belongs to `TcpLifecycle`.  A failed assertion ends the process:
hence no deadlock check.

### NetStack

`box` is the life of each NetStack's allocation, `sink` its `sink_buf` and how far
`poll_flush` is, `rx` the number of packets in its channel, `reader` the task that
polls its stream, with the two places that hold its waker (the channel's and
`NetStack.waker`).  The two halves of a split stack exclude each other during a
poll (`Unpolled`); everybody else, the timer task included, is a client that takes
`LWIP_MUTEX`, here an instance of `AbstractLock`, which `AtomicMutex` is shown to
implement.  Whoever holds the lock may make lwIP send packets: `output()` tests
`OUTPUT_CB_PTR`, then reads it again.  `_new` stores it without the lock, `drop`
clears it under the lock.  `fate` follows each packet of the TUN.

`single`, chosen once, says that the application drops each stack before it builds
the next.  Run `netstack` covers both cases with two stacks, two clients that contend with
the sinks for the lock, a channel of one, which is full after one packet, and pbufs that may run out.
In both, `output()` never uses a stack that is gone, the reader is always woken and the
channel keeps its bound; a sink says `Ok` only when lwIP has every packet it took, or lost it
for want of a pbuf (`OkMeansInput`), and every packet it took comes to one of these ends
(`AcceptedIsInput`).  With one stack at a time the pointer leads to the open stack (`OpenStackOutputs`),
whatever clients send while stacks are published and dropped; with two it need not, since
`drop` clears the pointer of whichever stack set it last.  A `pbuf_alloc` that fails costs the packet, and
leaves `poll_flush` pending with no waker.

Fairness: the task that feeds the sink polls it while it is runnable, and a thread that
spins for `LWIP_MUTEX` gets it in the end (both strong: other users of lwIP take the lock in
between).  `AtomicMutex` promises less, that somebody gets in; but those who take the lock again and again whatever
others do are the timer tasks, which sleep 250 ms each time (`stack.rs:75`) while the spinning thread goes on.
With weak fairness `AcceptedIsInput` fails.
A started poll or drop ends, and lwIP's input function returns (strong, because each packet it sends
disables the return for a moment).

### UdpSocket

`new` and `drop` run without the lock, and nothing protects the pool either
(`SYS_LIGHTWEIGHT_PROT` is 0).  So each of their loads and stores of the list (`udp_pcbs`, `next`), of the
pool's free list (`tab`, `memp`) and of a slot's fields is a step, with the values read so far in `task`: the
pop of `memp_malloc` (`PopLoad` to `PopStore`), the `memset`, the walk, port and link of `udp_bind`, the two
stores of `udp_recv`, the search and unlinking of `udp_remove`, the push of `memp_free`.  The bind in a
`send_to` takes the same steps, under the lock, as the task `Sender`.  `udp_input`, under the lock too,
picks the first pcb of the list, tests its callback, reads its argument and calls.  `half` is the raw
address in a SendHalf.  A freed slot keeps its contents, the port included, so a stale `send_to` does
nothing unless the slot was reused and is not bound yet, when it binds it.  Left out are the second walk of the
list, in `udp_new_port`, which only picks a number, and orders of stores other than the program's.

`overlap`, chosen once, says what may come between the steps of a `new` or `drop`: nothing (a
runtime with one thread), `udp_input`, a bind by `send_to`, another `new` or `drop`.  Run `udp_socket`
has the first four choices.  With nothing in between, the receive path uses only live pcbs and sockets and
frees every pbuf (`InputSafe`).  With nothing or `udp_input` in between, the list and the pool are whole
between any two stores and no slot is two sockets' (`ListSane`), stale halves or not: a reader under the lock
never meets a broken list.  That is all that holds: see Divergences for what the other choices break.
Two sockets over two pcbs let a slot be reused under a stale half, and a pcb be removed that is not the
first (longer lists are the theorem's); a channel of
one is full after one datagram; a second datagram is not on its way before the first has been dealt
with, so one pbuf suffices to see a leak.

### Timeouts

`next_timeout` is the list, each timeout with its absolute time on a clock that
counts modulo `Wrap`, 2^32 in the code; `TIME_LESS_THAN` is the code's macro.  A pass of
`sys_check_timeouts` reads the clock once and then takes timeouts off the list and
calls their handlers, one step each (`BeginPass`, `Expire`, `CyclicTimerEnds` or
`TcpTimerEnds`, `EndPass`), while time goes on (`Tick`): a handler that re-arms its timer
puts it into the list the pass goes through.  `TcpReg` and `TcpRmv` are the pcbs that
come and go: the first one switches the TCP timer on, it switches itself off.  The
clock is `gettimeofday`'s, so somebody may set it (`SetClock`), during a pass too.

Run `timeouts`: each timer that is on is in the list exactly once or being run
(`EachTimerOnce`), so that the pool of timeouts is never empty when one is
inserted; while nobody sets the clock, no timer is run later than its interval and
two delays of the task, wherever the clock wraps (`Punctual`); every
timer is run again and again and every pass ends, the clock set or not
(`TimersRun`).  After the clock was set a timer may be late by up to half a turn, 24.8 days.

Bounds: `Wrap` is 12, which holds half a turn of the longest interval and two delays
(`TimeoutsAssumption`, the code's condition that passes are not 24 days apart), and
every value of the clock is an initial one; two of the three cyclic timers, which are
alike; intervals of two and one; a pass may come two ticks late, so that
`lwip_cyclic_timer` finds itself more than an interval behind; the clock is set once.

Fairness: time passes, and the timer task loops for ever (`stack.rs`).  Each `NetStack`
spawns such a task and none of them ever ends, so there is always one once there
was a stack; several exclude each other by the lock and are one task here.

Left out: `sys_untimeout`, `sys_restart_timeouts` and `sys_timeouts_sleeptime`, which nothing
in this configuration calls.

### Reassembly

`ip4_reass` and `ip6_reass` are the same handler but for the order in which they make
room and for their tests for holes, so `ip`, chosen once, selects the version.
`reassdatagrams` is the queue, each element with its fragments in order; `pbufcount`
the global count.  The sender is `ip4_frag` or `ip6_frag`: pieces of one size, the rest
last.  Its fragments are not a variable: each one of any datagram sent may arrive at
any time and again, which is loss, repetition, delay and reordering at once.  `unique`,
chosen once, says that an identification is not used again before
nothing is left of the datagram that had it.  `Aged` is one turn of the timer's loop, which both
versions have.

Run `reassembly`: the count is that of the pbufs kept and the limits hold, whoever is
given up for whom (`Accounted`); for IPv4 nothing with a hole is passed up, and with
`unique` what is passed up is one datagram, all of it, and no complete one waits
(`WholeDatagrams`); no reassembly stays for ever (`GivenUp`).  Run `reass_hole`: for IPv6 a
datagram with a hole is passed up, see Divergences.

Bounds: two fragments of equal size, four, or two with a shorter last one, in units of
8 bytes: four are what the hole needs, and two sizes under one identification
mix.  Two elements and four pbufs run out on the third datagram and in the middle
of one; identifications return after two or three; a timer of one run.
Fairness: the timer runs while something waits (`Timeouts`).  The senders
may stop for good: no deadlock check.

Left out: fragments that no sender of this code makes (malformed lengths, datagrams past
64 KiB, options that differ), a datagram of one fragment, and the Time Exceeded messages.

### Buffers, MemHeap, AbstractHeap

`MemHeap` has the heap of `mem.c` as operators on a record: the blocks by address, with
`next`, `prev` and `used` as `struct mem` has them, and `lfree`; sizes are in units of
the alignment.  `Buffers` has one action for each function of `pbuf.c` that this
configuration calls: `pbuf_alloc` (PBUF_RAM), `pbuf_alloc_reference`, the custom pbufs of
`ip4_frag` and `ip6_frag` that keep a reference to the pbuf they mirror, `pbuf_free`
with everything down the chain, `pbuf_ref`, `pbuf_cat`, `pbuf_chain`, `pbuf_realloc`,
`pbuf_add_header`, `pbuf_remove_header`.  `held` counts the references that the callers have.  The guards are
the discipline that the callers keep and `pbuf.c` requires: only a holder frees,
only heads of chains are joined or cut, and what is behind a head that is changed belongs to
it alone.  The loop of `pbuf_free` is a function from the number of its turns to the list of references that are yet
to go (`Freed`), and so is the walk of `pbuf_realloc` down a chain (`Walk`): both count a number of turns after
which nothing is left to do, which is proved.

Run `buffers`: each reference is counted, so that a pbuf goes with its last one and
the used blocks are exactly the pbufs in the heap; the lengths of a chain add
up and payloads lie in their blocks, however often chains were cut and blocks trimmed;
the block list is what `mem_sanity` wants, no two free blocks adjacent and `lfree` the lowest
free one (`BuffersSound`).  `AbstractHeap` knows only the set of allocated blocks; that `MemHeap`
implements it (`ImplementsHeap`) says above all that `mem_malloc` refuses memory
only when no gap is large enough.

Bounds: nine units, headers of one, payloads of up to one and a header of one in front:
the heap holds three blocks, fills up to its end and breaks into gaps too small; a pbuf of
each other kind makes chains that mix them.  Callers hold up to two references to one pbuf.  All branches of `mem_trim` and
`plug_holes` are taken.

Left out: PBUF_POOL and PBUF_ROM, which nothing allocates here; functions without a caller
(`pbuf_dechain`, `pbuf_free_header`, `pbuf_coalesce`, `pbuf_split_64k`); copying of
contents; overflow checks and frees from other contexts, configured off; lengths past 16 bits;
that `ip6_frag` shortens the pbufs of the packet it mirrors (`ip6_frag.c:790-792`): it runs
only after a router on the TUN announced an MTU, `mtu6` being 0 (`stack.rs` sets `mtu` only).

## Divergences

Where the code does not do what it says.  Two have a run:

- `tcp_stale_pcb`: a fully closed stream keeps the address of a freed pcb
  (`tcp.c:1445-1464`, `tcp.c:1784`, against `tcp.c:504`).
- `reass_hole`: `ip6_reass` never compares a fragment inserted before another with the
  one before it (`ip6_frag.c:452-459`; `ip4_reass` does, `ip4_frag.c:394-398`), so first, last
  and last but one pass for the whole datagram (`ip6_frag.c:553`).

The others are stated in the modules.  To see one fail, check it in place of
the properties of a copy of the cfg named:

| Definition | Module, cfg | What fails |
|---|---|---|
| `FinWait2Ends` (PROPERTY) | `TcpLifecycle`, `MCTcpLifecycleLive.cfg` | nothing sets `TF_RXCLOSED`, so `tcp_slowtmr` never ends the FIN_WAIT_2 of a dropped stream (`tcp.c:1317`, against the comment at 1314) |
| `EofAtEnd` (INVARIANT) | `TcpSend`, `MCTcpSend.cfg` | the head of a split keeps the FIN: `TCPH_SET_FLAG` only adds flags (`tcp_out.c:935`, against 900) |
| `PersistHasData` (INVARIANT) | `TcpSend`, `MCTcpSend.cfg` | the assertion "persist ticking with empty send buffer" (`tcp.c:1237`): an accepted probe empties the queue and `tcp_output` returns before it stops the timer (`tcp_out.c:1280`, `tcp_in.c:1307`) |
| `CoreLocked` (INVARIANT) | `MCUdpSocket`, `MCUdpSocket.cfg` | `UdpSocket::new` and `drop` enter lwIP without the lock (`udp.rs:87-102`, 115-116, against `lwip/include/lwip/opt.h:217`) |
| `MemorySane` (INVARIANT) | `MCUdpSocket`, `MCUdpSocket.cfg` | nothing orders two threads in `new` and `drop`, nor one of them and a `send_to` (same places): with `{"make"}` two `new`s pop the same slot (`memp.c:259-268`), or both link in front of the same pcb and an open socket leaves the list (`udp.c:1130-1131`); with `{"send"}` a stale SendHalf and `new` bind one slot and the list becomes a circle |
| `TrimIsLegal` (INVARIANT) | `Buffers`, `MCBuffers.cfg` | the assertion "invalid next ptr" (`mem.c:790`): the last block of a full heap is trimmed |

And without a definition of their own: `tcp_fasttmr` clears the flags that
`tcp_send_empty_ack` left for it, so that an ACK can be forgotten (`tcp.c:1497`; hence
`plenty` in `TcpReceive`); a FIN one past the right edge enters an empty `ooseq` uncut and fails
the assertion at `tcp_in.c:1595` once the gap before it is filled (hence `careful`);
`ip6_frag.c:165` restores the size of a pointer, 8 bytes, of the 12 that were overwritten, so
the Time Exceeded message quotes a damaged header (contents are not modelled).

## Proofs

Every theorem is for all values of the constants that the module's assumption
allows.

The lock, in `NetStackProofs`: with an inductive invariant that ties the flag to the one
thread between a successful swap and the swap that releases it, for any set of
threads: mutual exclusion and the debug assertion (`LockIsSound`), and the refinement
of `AbstractLock`.

`TcpLifecycleProofs`: `TypeCorrect`, for any pools, streams, listeners and peers.
The handlers work in stages (`tcp_alloc` retries pending closes, kills, then
allocates), so the invariant `TablesOK(P, S)` speaks of any pcb table P and
stream table S and every stage has its lemma.  The same stages give `OnePcbPerPeer`
(`UniqueTuple`: a SYN makes a pcb only for a peer that `tcp_input` found none for) and `TimerRuns`
(`TimerArmed`), both without `PromptDrop`.

For the ownership theorems of the same module, `Owns(P, S)` says that every stream without error points to
a pcb that has callbacks to that stream and fits its phase (`Fits`: which states
go with `closed`, with the end of file, with TF_CLOSEPEND), that every pcb with
callbacks has such a stream, and that an established pcb without callbacks has its
close pending.  `ShutdownKeepsPcb` alone is not inductive: a step preserves it only
because a pcb with callbacks has exactly one stream, and because the pcbs that are
freed without telling anybody are in TIME_WAIT, where a stream that fits must have
been shut down.  The theorems from `Ownership` on follow from `TypeInv /\ Owns(pcb, stream)`, the run's
`StreamsOwnPcbs` (`PointersSound`), `ClosesKept` (`EndsKept`) and `AcceptArgLive` (`AcceptSafe`)
among them, under the assumption `PromptDrop`; run `tcp_stale_pcb` shows it is needed.

`TcpSendProofs`: `SendInv` has a part for each place that could break.  `Lists`: the
segments of both queues do not overlap, each starts where another ends, they cover
every byte from `lastack` to the last one written, and the last ends there.  `Counted`: `snd_queuelen` and
`snd_buf` are sums over the queues.  `Windows`: what is in flight ends at the right edge,
`lastack + snd_wnd`, at the latest; that edge never moves back, since an ACK that is no older than
the last one has an edge no smaller (`PeerInv`: the edges of the ACKs on their way grow with
their `ack`).  `FinKept`: the FIN is in the queue until it is sent.
`PreOutput(P, w, S)` is what holds before `tcp_output` is called, S being what
`tcp_rexmit_fast` has just put back; what `tcp_output` adds is a timer for what it did not send (`PcbInv`).
`NoStall` needs all of `Lists`: that the persist timer starts whenever nothing can be sent
and nothing is in flight is true because the first segment then starts at
`lastack`, so that only the peer's window can refuse it.
The sums are `MapThenSumSet`, a recursive function over the subsets of a set: such a function is unique
(`SumsUnique`) and exists (`SumsExists`), by the subset on which two of them differ that has no other in it,
so sums add up over disjoint sets.  The theorems are all six properties of run `tcp_send`.

`TcpReceiveProofs`: in `RecvInv` the segments of `ooseq` are sorted, apart, beyond
`rcv_nxt` and, for a careful peer, within its edge, with a FIN only last; the edges are ordered,
what the peer was told, what is announced, what would be taken; the bytes of the channel and of a half-read item
are consecutive and end at `rcv_nxt`; what the window grew since it was announced is below the
threshold (`Near`).  `InOrder` and `Spliced` are shown to keep such a queue whatever
overlaps.  `StreamArrives`, `WindowIsHonest` and `PeerLearns` follow, and
`EdgeMovesForward`, an action property.

`NetStackProofs`: for any number of stacks, clients and packets, the invariant is
that the pointer is null or leads to a stack in use and that a task inside
`output()` holds the lock (`Published`), and that a reader that was not woken is
registered with an empty channel (`Watched`): `OutputIsSafe`, `NoWakeupIsLost`.  For `OneStackDelivers`,
`StackInv` adds that with `single` at most one allocation is in use and the pointer leads to it while it is open, and,
always, that a packet a sink took is in its `sink_buf`, with lwIP or gone.

`UdpSocketProofs`: for any number of sockets and pcbs.  The list and the pool are chains in memory
(`IsChain`): a slot put in front, or taken out by a store to its predecessor or to the first, leaves a chain
(`ChainPush`, `ChainCut`), and stores elsewhere do not disturb it (`ChainFrame`).  `UdpInv` says of each place in `new`
and `drop` what its registers know of them (`ListRegs`, `PoolRegs`), so that the step there is one of these three;
this holds while only one task changes the lists (`OneWriter`).  That a stale `send_to` is none rests on `Ports`: a
half's slot has kept its port, or its new owner is about to bind it.  Hence `ListIsSane`.  With one
thread the pcb that `udp_input` picked is an open socket's until the callback returns (`AloneInv`):
`InputIsSafe`.  `UdpTypes` holds whatever overlaps.

`TimeoutsProofs`: for any timers, intervals, delays and width of the clock.  A timer that
is about to be queued is not in the list, whose handlers are distinct, so that the list is
shorter than the pool (`PoolSuffices`, a counting argument) and `sys_timeout_abs` never gives up;
wherever it finds the place, the others stay (`InsertedList`): `TimerTypes`,
`NoTimerLost`.  Nothing is assumed of the clock, which may be set to anything at any time.
`TimersArePunctual` does assume that nobody sets it: then every queued time is within half a
turn of the clock, where `TIME_LESS_THAN` is the order of the signed distances, the list is sorted by
them, and the distance of each timer and the time it has waited add up to its interval at most (`OnTime`).

`ReassemblyProofs`: for any datagrams, limits and order of arrival.  `StateInv(st, X)` speaks of a queue and a
count in the course of a step; X is the identification whose reassembly may be empty, the one that a step has
just put there: that it is empty only while its fragment finds room is why `RemoveOldest`, which
spares it, always frees a pbuf, and why an IPv6 fragment that finds none leaves no empty one behind
(`PreparedFacts`).  In a `Sound` reassembly the fragments are in order and apart, its length is that of a
last fragment, and, with `unique`, all are of the last datagram with this identification; `Waits` says that what waits
is not complete.  Inserting a fragment keeps all of it (`InsertFits`, `ChainedFacts`); that the fragments of a
datagram, whatever its size and pieces, leave no gap is arithmetic on `Fragments` (`FragmentFacts`).  The count is a fold and so
is the timer's loop: `FoldExists` shows that the function `FoldLeft` chooses exists, which turns each fold into a
sequence of sums (`Sums`) or states (`Ages`) to be followed from its start (`LeastNumber`).
`ReassTypes`, `CountIsRight` and `WholeDatagramsPass` are all the invariants of run `reassembly`.

`BuffersProofs`: for a heap of any size and alignment and any number of pbufs.  The inductive invariant is
`GraphOk(pb, h, hd, todo)` with an empty list `todo`.  Of the heap it says that the list of blocks
covers the memory from end to end, each block knowing the one before it, that no two free ones are adjacent and that
`lfree` is the lowest (`HeapInv`): `mem_malloc`, `mem_free` and `mem_trim` each keep that, the first two also as
steps of `AbstractHeap`, from which `HeapImplementation` follows.  Of the pbufs it says that
every reference is counted (`RefsOk`), *those included that are in* `todo`, so that it also holds between two turns of
`pbuf_free`'s loop (`TurnOk`); each turn lessens twice the number of pbufs and the length of `todo`
taken together (`Load`), so the loop is done before the turns it is given run out (`FreedOk`).
That a reference has one owner at a time is what keeps `Cat`, `Cut` and `Chained` right: each hands one reference
from the callers or from `todo` to a pbuf or back, and nobody else's count moves (`Given`, `Borrowed`, `RelinkedRefs`).
Lengths add up along `next` (`LensOk`), and for that chains must be chains: one whose head no pbuf
leads to, and behind which every pbuf has one reference, never returns to a pbuf (`NoReturn`); it has therefore one last
pbuf (`LastIs`), and the walk arrives at the pbuf where the bytes asked for end (`WalkOk`).
`TypeCorrect`, `Soundness` and `HeapImplementation` are all the properties of run `buffers`.

Model-checked only: the liveness properties `SomeoneEnters`, `WaitsEnd`, `AcceptedIsInput`, `TimersRun` and `GivenUp`.
Liveness under fairness and `ENABLED` are out of the prover's reach.  Every other property of a passing run is a theorem.

## Not modelled, and the plan

See `components` in `PROJECT.json`.  What is not modelled has no state that this
program can reach, or is no question for a model of steps:

- IPv6 neighbour discovery (`nd6.c`): the one interface is lwIP's loopback one with its
  output functions replaced, so `ip6_autoconfig_enabled` stays off, its address `::1` is static, and nothing
  resolves a neighbour (only `ethip6.c` would, which is not compiled).  Only router
  advertisements and solicitations for `::1` change its tables; the host side of a TUN sends
  neither, and nothing outside `nd6.c` reads them but for the MTU they may announce:
  `ip6_route` always returns the one interface.  `nd6_tmr` is a timer of `Timeouts` with a body that finds empty tables.
- `dhcp*.c`, `dns.c`, `autoip.c`, `etharp.c`, `ethip6.c`, `igmp.c`, `mld6.c`, `altcp*.c`, `sys.c`,
  `stats.c`: not compiled (`build.rs`) or switched off (`lwipopts.h`).
- `netif.c`: one interface, set up once; `raw.c`: the list stays empty.
- `ip4.c`, `ip6.c`, `icmp*.c`: functions of a packet and of that interface, without state of
  their own; where their results matter they are inputs of the other modules.
- Checksums and byte order: arithmetic on contents, which no module holds.
- `memp.c`: a pool is a count of its elements where it can run out (`TcpLifecycle`,
  `Timeouts`, `Reassembly`, `Buffers`), all of whose calls are under the lock; the list that
  `memp_free` and `memp_malloc` push and pop is in `UdpSocket`, where they are not.
- The two halves of a TCP connection at once, and RST or urgent data in the data path: `TcpSend`
  and `TcpReceive` assume the other half idle.

What is left: an abstract byte stream with an end, which both halves of a connection implement.
