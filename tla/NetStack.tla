------------------------------- MODULE NetStack -------------------------------
(***************************************************************************)
(* src/src/stack.rs and src/src/output.rs.  A NetStack is a Sink of        *)
(* packets, fed to lwIP one at a time, and a Stream of the packets lwIP    *)
(* sends, taken from a bounded channel.  lwIP finds the stack through the  *)
(* global OUTPUT_CB_PTR.  A stack is shared by two halves, each polled by  *)
(* one task, that exclude each other during a poll; everybody else runs    *)
(* lwIP under LWIP_MUTEX and may make it send packets.                     *)
(***************************************************************************)
EXTENDS Naturals

CONSTANTS
  Stacks,      \* addresses of the boxes of NetStacks
  Clients,     \* whatever else runs lwIP: timer tasks, streams, sockets
  Packets,     \* what the TUN delivers, each once
  QueueLen,    \* capacity of the channel
  Null

ASSUME NetAssumption ==
  /\ QueueLen \in Nat \ {0}
  /\ Null \notin Stacks \cup Clients \cup Packets /\ Stacks \cap Clients = {}
  /\ {"tun", "input", "gone"} \cap Stacks = {}

VARIABLES
  single,         \* whether the application keeps one stack at a time; never changes
  box,            \* of each address: free, built, usable, or in Drop::drop
  OUTPUT_CB_PTR,
  lwip_mutex,     \* who holds it: a client, or a stack's sink
  outputting,     \* its holder is in output(), past the test for null
  sink,           \* of each stack: sink_buf and where poll_flush is
  rx,             \* number of packets in the channel
  reader,         \* of each stack: the task of its Stream half
  fate            \* of each packet: in the TUN, accepted by a stack, ...

vars == <<single, box, OUTPUT_CB_PTR, lwip_mutex, outputting, sink, rx, reader, fate>>

\* LWIP_MUTEX, which AtomicMutex implements.
Mutex == INSTANCE AbstractLock
           WITH Threads <- Clients \cup Stacks, NoThread <- Null, holder <- lwip_mutex

IdleSink == [pc |-> "idle", buf |-> Null, item |-> Null]

\* chan: the channel will wake the task; waker: so will NetStack.waker;
\* woken: the task was woken since it was last polled.
IdleReader == [pc |-> "ready", chan |-> FALSE, waker |-> FALSE, woken |-> FALSE]

Init ==
  /\ single \in BOOLEAN
  /\ box = [s \in Stacks |-> "none"]
  /\ OUTPUT_CB_PTR = Null
  /\ lwip_mutex = Null
  /\ outputting = FALSE
  /\ sink = [s \in Stacks |-> IdleSink]
  /\ rx = [s \in Stacks |-> 0]
  /\ reader = [s \in Stacks |-> IdleReader]
  /\ fate = [p \in Packets |-> "tun"]

-------------------------------------------------------------------------------
(* The life of a stack. *)

\* NetStack::_new up to the box.
NewBox(s) ==
  /\ box[s] = "none"
  /\ single => \A r \in Stacks : box[r] = "none"
  /\ box' = [box EXCEPT ![s] = "new"]
  /\ UNCHANGED <<single, OUTPUT_CB_PTR, lwip_mutex, outputting, sink, rx, reader, fate>>

\* Mutant of Publish: the pointer is left as the previous stack left it.
PublishForgets(s) ==
  /\ box[s] = "new"
  /\ box' = [box EXCEPT ![s] = "open"]
  /\ UNCHANGED <<single, OUTPUT_CB_PTR, lwip_mutex, outputting, sink, rx, reader, fate>>

\* The rest of _new: the pointer is set without the lock.
Publish(s) ==
  /\ box[s] = "new"
  /\ box' = [box EXCEPT ![s] = "open"]
  /\ OUTPUT_CB_PTR' = s
  /\ UNCHANGED <<single, lwip_mutex, outputting, sink, rx, reader, fate>>

\* Neither half of s is being polled.
Unpolled(s) == sink[s].pc \notin {"locking", "input"} /\ reader[s].pc # "polled"

\* Mutant of Clear: without the lock.
ClearUnlocked(s) ==
  /\ box[s] = "open" /\ Unpolled(s)
  /\ OUTPUT_CB_PTR' = Null
  /\ box' = [box EXCEPT ![s] = "dropping"]
  /\ UNCHANGED <<single, lwip_mutex, outputting, sink, rx, reader, fate>>

\* NetStack::drop: under the lock the pointer is cleared, whichever stack it
\* points to.
Clear(s) ==
  /\ box[s] = "open" /\ Unpolled(s)
  /\ lwip_mutex = Null
  /\ OUTPUT_CB_PTR' = Null
  /\ box' = [box EXCEPT ![s] = "dropping"]
  /\ UNCHANGED <<single, lwip_mutex, outputting, sink, rx, reader, fate>>

\* The fields go, then the box: its address may be used again.
Free(s) ==
  /\ box[s] = "dropping"
  /\ box' = [box EXCEPT ![s] = "none"]
  /\ sink' = [sink EXCEPT ![s] = IdleSink]
  /\ rx' = [rx EXCEPT ![s] = 0]
  /\ reader' = [reader EXCEPT ![s] = IdleReader]
  /\ fate' = [p \in Packets |-> IF fate[p] = s THEN "gone" ELSE fate[p]]
  /\ UNCHANGED <<single, OUTPUT_CB_PTR, lwip_mutex, outputting>>

-------------------------------------------------------------------------------
(* The sink. *)

\* Mutant of StartSend: poll_ready does not look at sink_buf.
StartSendAlways(s, p) ==
  /\ box[s] = "open" /\ Unpolled(s) /\ sink[s].pc = "idle"
  /\ fate[p] = "tun"
  /\ sink' = [sink EXCEPT ![s].buf = p]
  /\ fate' = [fate EXCEPT ![p] = s]
  /\ UNCHANGED <<single, box, OUTPUT_CB_PTR, lwip_mutex, outputting, rx, reader>>

\* poll_ready finds sink_buf empty, and start_send fills it.
StartSend(s, p) ==
  /\ box[s] = "open" /\ Unpolled(s) /\ sink[s].pc = "idle"
  /\ sink[s].buf = Null
  /\ fate[p] = "tun"
  /\ sink' = [sink EXCEPT ![s].buf = p]
  /\ fate' = [fate EXCEPT ![p] = s]
  /\ UNCHANGED <<single, box, OUTPUT_CB_PTR, lwip_mutex, outputting, rx, reader>>

\* poll_flush, by itself or from poll_ready, on a packet in sink_buf.
Flushing(s) == box[s] = "open" /\ Unpolled(s) /\ sink[s].pc = "idle" /\ sink[s].buf # Null

\* An empty packet is taken and forgotten; any packet may be empty, as its length
\* is looked at only here.
FlushEmpty(s) ==
  /\ Flushing(s)
  /\ sink' = [sink EXCEPT ![s] = IdleSink]
  /\ fate' = [fate EXCEPT ![sink[s].buf] = "gone"]
  /\ UNCHANGED <<single, box, OUTPUT_CB_PTR, lwip_mutex, outputting, rx, reader>>

\* Any other is taken, and the thread goes for the lock.
FlushStart(s) ==
  /\ Flushing(s)
  /\ sink' = [sink EXCEPT ![s] = [pc |-> "locking", buf |-> Null, item |-> sink[s].buf]]
  /\ UNCHANGED <<single, box, OUTPUT_CB_PTR, lwip_mutex, outputting, rx, reader, fate>>

\* The lock is acquired, and there is memory for a pbuf.
FlushTake(s) ==
  /\ sink[s].pc = "locking"
  /\ Mutex!Acquire(s)
  /\ sink' = [sink EXCEPT ![s].pc = "input"]
  /\ UNCHANGED <<single, box, OUTPUT_CB_PTR, outputting, rx, reader, fate>>

\* The lock is acquired, but pbuf_alloc returns null: poll_flush says Pending, the
\* packet is lost, and nobody has been told to poll again.
FlushNoPbuf(s) ==
  /\ sink[s].pc = "locking" /\ lwip_mutex = Null
  /\ sink' = [sink EXCEPT ![s] = [IdleSink EXCEPT !.pc = "pending"]]
  /\ fate' = [fate EXCEPT ![sink[s].item] = "gone"]
  /\ UNCHANGED <<single, box, OUTPUT_CB_PTR, lwip_mutex, outputting, rx, reader>>

\* Mutant of FlushInput: the guard is forgotten, the lock stays taken.
FlushInputKeepsLock(s) ==
  /\ sink[s].pc = "input" /\ ~outputting
  /\ sink' = [sink EXCEPT ![s] = IdleSink]
  /\ fate' = [fate EXCEPT ![sink[s].item] = "input"]
  /\ UNCHANGED <<single, box, OUTPUT_CB_PTR, lwip_mutex, outputting, rx, reader>>

\* input_fn (ip_input) has returned ERR_OK, as it always does, and the lock is
\* released.
FlushInput(s) ==
  /\ sink[s].pc = "input" /\ ~outputting
  /\ Mutex!Release(s)
  /\ sink' = [sink EXCEPT ![s] = IdleSink]
  /\ fate' = [fate EXCEPT ![sink[s].item] = "input"]
  /\ UNCHANGED <<single, box, OUTPUT_CB_PTR, outputting, rx, reader>>

\* A task that happens to poll again finds sink_buf empty: Ready(Ok).
FlushAgain(s) ==
  /\ box[s] = "open" /\ Unpolled(s) /\ sink[s].pc = "pending"
  /\ sink' = [sink EXCEPT ![s].pc = "idle"]
  /\ UNCHANGED <<single, box, OUTPUT_CB_PTR, lwip_mutex, outputting, rx, reader, fate>>

-------------------------------------------------------------------------------
(* lwIP sends a packet. *)

Enter(c) ==
  /\ Mutex!Acquire(c)
  /\ UNCHANGED <<single, box, OUTPUT_CB_PTR, outputting, sink, rx, reader, fate>>

Leave(c) ==
  /\ ~outputting /\ Mutex!Release(c)
  /\ UNCHANGED <<single, box, OUTPUT_CB_PTR, outputting, sink, rx, reader, fate>>

\* output(): the pointer is tested; with null the packet is lost (ERR_ABRT).
OutputTest ==
  /\ lwip_mutex # Null /\ ~outputting
  /\ OUTPUT_CB_PTR # Null
  /\ outputting' = TRUE
  /\ UNCHANGED <<single, box, OUTPUT_CB_PTR, lwip_mutex, sink, rx, reader, fate>>

\* Mutant of OutputSend: an unbounded channel.
OutputSendUnbounded ==
  LET s == OUTPUT_CB_PTR
  IN /\ outputting /\ outputting' = FALSE
     /\ rx' = [rx EXCEPT ![s] = @ + 1]
     /\ reader' = [reader EXCEPT ![s].woken = TRUE, ![s].chan = FALSE]
     /\ UNCHANGED <<single, box, OUTPUT_CB_PTR, lwip_mutex, sink, fate>>

\* NetStack::output on the stack the pointer, read again, leads to: try_send
\* drops the packet when the channel is full, then the stack's own waker is
\* called; while poll_next is replacing that waker it may be seen or not.
OutputSend ==
  LET s == OUTPUT_CB_PTR
      sent == rx[s] < QueueLen
  IN /\ outputting /\ outputting' = FALSE
     /\ rx' = IF sent THEN [rx EXCEPT ![s] = @ + 1] ELSE rx
     /\ \E seen \in IF reader[s].pc = "polled" THEN BOOLEAN ELSE {reader[s].waker} :
          reader' = [reader EXCEPT ![s].woken = @ \/ (sent /\ reader[s].chan) \/ seen,
                                   ![s].chan = @ /\ ~sent]
     /\ UNCHANGED <<single, box, OUTPUT_CB_PTR, lwip_mutex, sink, fate>>

-------------------------------------------------------------------------------
(* The stream. *)

Runnable(s) ==
  /\ box[s] = "open" /\ Unpolled(s)
  /\ reader[s].pc = "ready" \/ reader[s].woken

\* poll_next with a packet in the channel.
PollNextReady(s) ==
  /\ Runnable(s) /\ rx[s] > 0
  /\ rx' = [rx EXCEPT ![s] = @ - 1]
  /\ reader' = [reader EXCEPT ![s].pc = "ready", ![s].woken = FALSE]
  /\ UNCHANGED <<single, box, OUTPUT_CB_PTR, lwip_mutex, outputting, sink, fate>>

\* Mutant of PollNextPending: try_recv, which registers no waker.
PollNextPendingTry(s) ==
  /\ Runnable(s) /\ rx[s] = 0
  /\ reader' = [reader EXCEPT ![s].pc = "polled", ![s].woken = FALSE]
  /\ UNCHANGED <<single, box, OUTPUT_CB_PTR, lwip_mutex, outputting, sink, rx, fate>>

\* poll_next with an empty channel: poll_recv registers the task's waker.
PollNextPending(s) ==
  /\ Runnable(s) /\ rx[s] = 0
  /\ reader' = [reader EXCEPT ![s].pc = "polled", ![s].chan = TRUE, ![s].woken = FALSE]
  /\ UNCHANGED <<single, box, OUTPUT_CB_PTR, lwip_mutex, outputting, sink, rx, fate>>

\* Then the stack's own waker is replaced, without the lock.
ReplaceWaker(s) ==
  /\ reader[s].pc = "polled"
  /\ reader' = [reader EXCEPT ![s].pc = "waiting", ![s].waker = TRUE]
  /\ UNCHANGED <<single, box, OUTPUT_CB_PTR, lwip_mutex, outputting, sink, rx, fate>>

-------------------------------------------------------------------------------
Next ==
  \/ \E s \in Stacks :
       \/ NewBox(s) \/ Publish(s) \/ Clear(s) \/ Free(s)
       \/ \E p \in Packets : StartSend(s, p)
       \/ FlushEmpty(s) \/ FlushStart(s) \/ FlushTake(s) \/ FlushNoPbuf(s) \/ FlushInput(s) \/ FlushAgain(s)
       \/ PollNextReady(s) \/ PollNextPending(s) \/ ReplaceWaker(s)
  \/ \E c \in Clients : Enter(c) \/ Leave(c)
  \/ OutputTest \/ OutputSend

Spec == Init /\ [][Next]_vars

\* poll_flush up to the lock.
Flush(s) == FlushEmpty(s) \/ FlushStart(s)

\* Whoever is in lwIP returns.
Return == (\E s \in Stacks : FlushInput(s)) \/ (\E c \in Clients : Leave(c))

\* A poll or a drop that has begun ends; the task that feeds the sink flushes what
\* it sent, and a half that finds the other polled is woken when that poll ends (SF
\* of Flush); lwIP sends finitely many packets before it returns (SF of Return: each
\* packet sent disables it for a moment).  SF of FlushTake: the lock alone does not
\* promise that a thread which spins for it gets it, but the only ones who take it
\* again and again whatever others do are the timer tasks, and they sleep for 250 ms
\* (stack.rs:75) each time, while the spinning thread goes on.
Fairness ==
  /\ \A s \in Stacks :
       /\ SF_vars(Flush(s)) /\ SF_vars(FlushTake(s))
       /\ WF_vars(ReplaceWaker(s)) /\ WF_vars(Free(s))
  /\ SF_vars(Return) /\ WF_vars(OutputSend)

FairSpec == Spec /\ Fairness

-------------------------------------------------------------------------------
(* Properties. *)

TypeOK ==
  /\ single \in BOOLEAN
  /\ box \in [Stacks -> {"none", "new", "open", "dropping"}]
  /\ OUTPUT_CB_PTR \in Stacks \cup {Null}
  /\ lwip_mutex \in Stacks \cup Clients \cup {Null}
  /\ outputting \in BOOLEAN
  /\ sink \in [Stacks -> [pc : {"idle", "locking", "input", "pending"},
                          buf : Packets \cup {Null},
                          item : Packets \cup {Null}]]
  /\ rx \in [Stacks -> 0 .. QueueLen]
  /\ reader \in [Stacks -> [pc : {"ready", "polled", "waiting"}, chan : BOOLEAN,
                            waker : BOOLEAN, woken : BOOLEAN]]
  /\ fate \in [Packets -> {"tun", "input", "gone"} \cup Stacks]

\* output() casts the pointer to a stack that is still there, although it tests
\* the pointer first and reads it again, stacks are published without the lock,
\* and any stack's drop clears it.
OutputSafe == outputting => OUTPUT_CB_PTR # Null /\ box[OUTPUT_CB_PTR] = "open"

\* A task that waits for packets while some are queued has been woken: none is
\* lost between poll_recv and the replacement of the waker (stack.rs poll_next).
NoLostWakeup ==
  \A s \in Stacks : box[s] = "open" /\ reader[s].pc # "ready" /\ rx[s] > 0 => reader[s].woken

\* What lwIP sends goes to the stack whose Stream is read (README.md:8): if there
\* is one stack at a time, each dropped before the next is built, then whatever
\* clients send while one is published or dropped, the pointer leads to it from the
\* return of _new to the lock of its drop, and never to its predecessor.
OpenStackOutputs == \A s \in Stacks : single /\ box[s] = "open" => OUTPUT_CB_PTR = s

\* poll_flush and poll_ready say Ok only when every packet start_send took was given
\* to lwIP, was empty, or was lost with an earlier Pending for want of a pbuf: whoever
\* else is in lwIP, and however many stacks there are.
OkMeansInput ==
  \A s \in Stacks : box[s] = "open" /\ sink[s].pc = "idle" /\ sink[s].buf = Null =>
    \A p \in Packets : fate[p] # s

\* Both ways of a stack stay open.
StackDelivers == OpenStackOutputs /\ OkMeansInput

\* Every packet the sink accepted is given to lwIP (README.md:17), unless it is
\* empty, its stack is dropped first or there is no memory for it: also when timer
\* tasks, streams, sockets and the sinks of other stacks contend for LWIP_MUTEX (a
\* thread that spins for it gets it in the end: see Fairness).
AcceptedIsInput ==
  \A p \in Packets : fate[p] \in Stacks ~> fate[p] \in {"input", "gone"}
===============================================================================
