---------------------------- MODULE NetStackProofs ----------------------------
(***************************************************************************)
(* Theorems about NetStack, for any number of stacks, clients and packets: *)
(* output() never casts a dangling pointer, and the stream's task never    *)
(* sleeps over a queued packet; and about the lock they count on, for any  *)
(* set of threads: it excludes and implements AbstractLock.                *)
(***************************************************************************)
EXTENDS NetStack, AtomicMutex, TLAPS

\* The pointer is null or leads to a stack in use, and a task inside output()
\* holds the lock, so no drop can clear the pointer under it.
Published ==
  /\ OUTPUT_CB_PTR # Null => box[OUTPUT_CB_PTR] = "open"
  /\ outputting => OUTPUT_CB_PTR # Null /\ lwip_mutex # Null

\* A reader that was not woken since it was polled is registered with an empty
\* channel.
Watched ==
  \A s \in Stacks : reader[s].pc # "ready" /\ ~reader[s].woken =>
    reader[s].chan /\ rx[s] = 0

NetInv == TypeOK /\ Published /\ Watched

SinkType == [pc : {"idle", "locking", "input", "pending"}, buf : Packets \cup {Null},
             item : Packets \cup {Null}]

ReaderType == [pc : {"ready", "polled", "waiting"}, chan : BOOLEAN,
               waker : BOOLEAN, woken : BOOLEAN]

LEMMA Idle == IdleSink \in SinkType /\ IdleReader \in ReaderType
  BY DEF IdleSink, IdleReader, SinkType, ReaderType

LEMMA NetInit == Init => NetInv
<1> SUFFICES ASSUME Init PROVE NetInv
  OBVIOUS
<1>1. TypeOK
  <2>1. /\ sink \in [Stacks -> SinkType] /\ reader \in [Stacks -> ReaderType]
        /\ rx \in [Stacks -> 0 .. QueueLen]
    BY Idle, NetAssumption DEF Init
  <2>2. /\ box \in [Stacks -> {"none", "new", "open", "dropping"}]
        /\ fate \in [Packets -> {"tun", "input", "gone"} \cup Stacks]
        /\ OUTPUT_CB_PTR = Null /\ lwip_mutex = Null /\ outputting = FALSE
        /\ single \in BOOLEAN
    BY DEF Init
  <2> QED BY <2>1, <2>2 DEF TypeOK, SinkType, ReaderType
<1>2. Published /\ Watched
  BY DEF Init, Published, Watched, IdleReader
<1> QED BY <1>1, <1>2 DEF NetInv

\* The life of a stack.
LEMMA LifeKeeps ==
  ASSUME NetInv, NEW s \in Stacks, NewBox(s) \/ Publish(s) \/ Clear(s) \/ Free(s)
  PROVE  NetInv'
<1> USE NetAssumption
<1>a. TypeOK /\ Published /\ Watched
  BY DEF NetInv
<1>1. CASE NewBox(s)
  <2>1. TypeOK'
    BY <1>a, <1>1 DEF NewBox, TypeOK
  <2>2. Published' /\ Watched'
    BY <1>a, <1>1 DEF NewBox, TypeOK, Published, Watched
  <2> QED BY <2>1, <2>2 DEF NetInv
<1>2. CASE Publish(s)
  <2>1. TypeOK'
    BY <1>a, <1>2 DEF Publish, TypeOK
  <2>2. Published' /\ Watched'
    BY <1>a, <1>2 DEF Publish, TypeOK, Published, Watched
  <2> QED BY <2>1, <2>2 DEF NetInv
<1>3. CASE Clear(s)
  <2>1. TypeOK'
    BY <1>a, <1>3 DEF Clear, TypeOK
  <2>2. Published' /\ Watched'
    BY <1>a, <1>3 DEF Clear, TypeOK, Published, Watched
  <2> QED BY <2>1, <2>2 DEF NetInv
<1>4. CASE Free(s)
  <2>1. TypeOK'
    BY <1>a, <1>4, Idle DEF Free, TypeOK, SinkType, ReaderType
  <2>2. Published'
    BY <1>a, <1>4 DEF Free, TypeOK, Published
  <2>3. Watched'
    BY <1>a, <1>4 DEF Free, TypeOK, Watched, IdleReader
  <2> QED BY <2>1, <2>2, <2>3 DEF NetInv
<1> QED BY <1>1, <1>2, <1>3, <1>4

\* The sink.
LEMMA SinkKeeps ==
  ASSUME NetInv, NEW s \in Stacks,
         \/ \E p \in Packets : StartSend(s, p)
         \/ FlushEmpty(s) \/ FlushStart(s) \/ FlushTake(s) \/ FlushNoPbuf(s) \/ FlushInput(s) \/ FlushAgain(s)
  PROVE  NetInv'
<1> USE NetAssumption
<1>a. TypeOK /\ Published /\ Watched
  BY DEF NetInv
<1>b. sink \in [Stacks -> SinkType] /\ sink[s] \in SinkType
  BY <1>a DEF TypeOK, SinkType
<1>1. UNCHANGED <<single, box, OUTPUT_CB_PTR, outputting, rx, reader>>
  BY DEF StartSend, FlushEmpty, FlushStart, FlushTake, FlushNoPbuf, FlushInput, FlushAgain
<1>2. lwip_mutex' = lwip_mutex \/ lwip_mutex' = s \/ (lwip_mutex' = Null /\ ~outputting)
  BY DEF StartSend, FlushEmpty, FlushStart, FlushTake, FlushNoPbuf, FlushInput, FlushAgain,
         Mutex!Acquire, Mutex!Release
<1>3. sink' \in [Stacks -> SinkType]
  <2>1. ASSUME NEW p \in Packets, StartSend(s, p) PROVE sink' \in [Stacks -> SinkType]
    BY <1>b, <2>1 DEF StartSend, SinkType
  <2>2. CASE FlushEmpty(s) \/ FlushInput(s)
    BY <1>b, <2>2, Idle DEF FlushEmpty, FlushInput
  <2>3. CASE FlushStart(s)
    <3>1. [pc |-> "locking", buf |-> Null, item |-> sink[s].buf] \in SinkType
      BY <1>b DEF SinkType
    <3> QED BY <1>b, <2>3, <3>1 DEF FlushStart
  <2>6. CASE FlushTake(s)
    BY <1>b, <2>6 DEF FlushTake, SinkType
  <2>4. CASE FlushNoPbuf(s)
    <3>1. [IdleSink EXCEPT !.pc = "pending"] \in SinkType
      BY Idle DEF SinkType
    <3> QED BY <1>b, <2>4, <3>1 DEF FlushNoPbuf
  <2>5. CASE FlushAgain(s)
    BY <1>b, <2>5 DEF FlushAgain, SinkType
  <2> QED BY <2>1, <2>2, <2>3, <2>4, <2>5, <2>6
<1>4. fate' \in [Packets -> {"tun", "input", "gone"} \cup Stacks]
  <2>1. fate \in [Packets -> {"tun", "input", "gone"} \cup Stacks]
    BY <1>a DEF TypeOK
  <2>2. ASSUME NEW p \in Packets, StartSend(s, p)
        PROVE fate' \in [Packets -> {"tun", "input", "gone"} \cup Stacks]
    BY <2>1, <2>2 DEF StartSend
  <2> QED BY <2>1, <2>2 DEF FlushEmpty, FlushStart, FlushTake, FlushNoPbuf, FlushInput, FlushAgain
<1>5. TypeOK'
  BY <1>a, <1>1, <1>2, <1>3, <1>4 DEF TypeOK, SinkType
<1>6. Published' /\ Watched'
  BY <1>a, <1>1, <1>2 DEF Published, Watched
<1> QED BY <1>5, <1>6 DEF NetInv

\* lwIP and what it sends.
LEMMA OutputKeeps ==
  ASSUME NetInv, OutputTest \/ OutputSend \/ \E c \in Clients : Enter(c) \/ Leave(c)
  PROVE  NetInv'
<1> USE NetAssumption
<1>a. TypeOK /\ Published /\ Watched
  BY DEF NetInv
<1>1. CASE OutputTest
  BY <1>a, <1>1 DEF OutputTest, NetInv, TypeOK, Published, Watched
<1>2. ASSUME NEW c \in Clients, Enter(c) \/ Leave(c) PROVE NetInv'
  <2>1. UNCHANGED <<single, box, OUTPUT_CB_PTR, outputting, sink, rx, reader, fate>>
    BY <1>2 DEF Enter, Leave
  <2>2. lwip_mutex' = c \/ (lwip_mutex' = Null /\ ~outputting)
    BY <1>2 DEF Enter, Leave, Mutex!Acquire, Mutex!Release
  <2>3. TypeOK'
    BY <1>a, <2>1, <2>2 DEF TypeOK
  <2>4. Published' /\ Watched'
    BY <1>a, <2>1, <2>2 DEF Published, Watched
  <2> QED BY <2>3, <2>4 DEF NetInv
<1>3. CASE OutputSend
  <2> DEFINE s == OUTPUT_CB_PTR
             sent == rx[s] < QueueLen
             After(seen) == [reader[s] EXCEPT !.woken = @ \/ (sent /\ reader[s].chan) \/ seen,
                                              !.chan = @ /\ ~sent]
  <2>1. s \in Stacks /\ rx[s] \in 0 .. QueueLen /\ reader[s] \in ReaderType
    BY <1>a, <1>3 DEF OutputSend, TypeOK, Published, ReaderType
  <2>2. PICK seen \in BOOLEAN : reader' = [reader EXCEPT ![s] = After(seen)]
    <3>1. reader[s].waker \in BOOLEAN
      BY <2>1 DEF ReaderType
    <3> QED BY <1>3, <3>1, ZenonT(30) DEF OutputSend
  <2>3. rx' = IF sent THEN [rx EXCEPT ![s] = @ + 1] ELSE rx
    BY <1>3 DEF OutputSend
  <2>4. /\ After(seen) \in ReaderType
        /\ After(seen).pc = reader[s].pc
        /\ After(seen).chan <=> reader[s].chan /\ ~sent
        /\ After(seen).woken <=> reader[s].woken \/ (sent /\ reader[s].chan) \/ seen
    <3> HIDE DEF sent
    <3>1. reader[s].chan \in BOOLEAN /\ reader[s].woken \in BOOLEAN
      BY <2>1 DEF ReaderType
    <3>2. (reader[s].chan /\ ~sent) \in BOOLEAN
          /\ (reader[s].woken \/ (sent /\ reader[s].chan) \/ seen) \in BOOLEAN
      OBVIOUS
    <3> QED BY <2>1, <3>1, <3>2 DEF ReaderType
  <2> HIDE DEF After
  <2>5. reader \in [Stacks -> ReaderType] /\ rx \in [Stacks -> 0 .. QueueLen]
    BY <1>a DEF TypeOK, ReaderType
  <2>6. reader' \in [Stacks -> ReaderType] /\ reader'[s] = After(seen)
        /\ \A r \in Stacks \ {s} : reader'[r] = reader[r]
    BY <2>1, <2>2, <2>4, <2>5
  <2>7. rx' \in [Stacks -> 0 .. QueueLen] /\ \A r \in Stacks \ {s} : rx'[r] = rx[r]
    BY <2>1, <2>3, <2>5
  <2>8. UNCHANGED <<single, box, OUTPUT_CB_PTR, lwip_mutex, sink, fate>> /\ outputting' = FALSE
    BY <1>3 DEF OutputSend
  <2>9. TypeOK'
    BY <1>a, <2>6, <2>7, <2>8 DEF TypeOK, ReaderType
  <2>10. Published'
    BY <1>a, <2>8 DEF Published
  <2>11. Watched'
    <3> SUFFICES ASSUME NEW r \in Stacks, reader'[r].pc # "ready", ~reader'[r].woken
                 PROVE  reader'[r].chan /\ rx'[r] = 0
      BY DEF Watched
    <3>1. CASE r # s
      BY <1>a, <2>6, <2>7, <3>1 DEF Watched
    <3>2. CASE r = s
      <4>1. reader[s].pc # "ready" /\ ~reader[s].woken /\ ~(sent /\ reader[s].chan)
        BY <2>4, <2>6, <3>2
      <4>2. reader[s].chan /\ rx[s] = 0
        BY <1>a, <2>1, <4>1 DEF Watched
      <4>3. sent
        BY <4>2
      <4> QED BY <4>1, <4>2, <4>3
    <3> QED BY <3>1, <3>2
  <2> QED BY <2>9, <2>10, <2>11 DEF NetInv
<1> QED BY <1>1, <1>2, <1>3

\* The stream.
LEMMA StreamKeeps ==
  ASSUME NetInv, NEW s \in Stacks, PollNextReady(s) \/ PollNextPending(s) \/ ReplaceWaker(s)
  PROVE  NetInv'
<1> USE NetAssumption
<1>a. TypeOK /\ Published /\ Watched
  BY DEF NetInv
<1>b. /\ reader \in [Stacks -> ReaderType] /\ reader[s] \in ReaderType
      /\ rx \in [Stacks -> 0 .. QueueLen] /\ rx[s] \in 0 .. QueueLen
  BY <1>a DEF TypeOK, ReaderType
<1>c. UNCHANGED <<single, box, OUTPUT_CB_PTR, lwip_mutex, outputting, sink, fate>>
  BY DEF PollNextReady, PollNextPending, ReplaceWaker
<1>1. Published'
  BY <1>a, <1>c DEF Published
<1>2. reader' \in [Stacks -> ReaderType] /\ rx' \in [Stacks -> 0 .. QueueLen]
  <2>1. CASE PollNextReady(s)
    <3>1. [reader[s] EXCEPT !.pc = "ready", !.woken = FALSE] \in ReaderType
      BY <1>b DEF ReaderType
    <3>2. rx[s] - 1 \in 0 .. QueueLen
      BY <1>b, <2>1 DEF PollNextReady
    <3> QED BY <1>b, <2>1, <3>1, <3>2 DEF PollNextReady
  <2>2. CASE PollNextPending(s)
    BY <1>b, <2>2 DEF PollNextPending, ReaderType
  <2>3. CASE ReplaceWaker(s)
    BY <1>b, <2>3 DEF ReplaceWaker, ReaderType
  <2> QED BY <2>1, <2>2, <2>3
<1>3. TypeOK'
  BY <1>a, <1>c, <1>2 DEF TypeOK, ReaderType
<1>4. Watched'
  <2>1. CASE PollNextReady(s)
    BY <1>a, <1>b, <2>1 DEF PollNextReady, Watched, ReaderType
  <2>2. CASE PollNextPending(s)
    BY <1>a, <1>b, <2>2 DEF PollNextPending, Watched, ReaderType
  <2>3. CASE ReplaceWaker(s)
    BY <1>a, <1>b, <2>3 DEF ReplaceWaker, Watched, ReaderType
  <2> QED BY <2>1, <2>2, <2>3
<1> QED BY <1>1, <1>3, <1>4 DEF NetInv

LEMMA NetInductive == NetInv /\ [Next]_vars => NetInv'
<1> SUFFICES ASSUME NetInv, [Next]_vars PROVE NetInv'
  OBVIOUS
<1>1. CASE UNCHANGED vars
  BY <1>1 DEF vars, NetInv, TypeOK, Published, Watched
<1>2. CASE Next
  BY <1>2, LifeKeeps, SinkKeeps, OutputKeeps, StreamKeeps DEF Next
<1> QED BY <1>1, <1>2

LEMMA NetInvariant == Spec => []NetInv
  BY NetInit, NetInductive, PTL DEF Spec

\* Types, and the bound of the channel, for every capacity.
THEOREM NetTypes == Spec => []TypeOK
<1>1. NetInv => TypeOK
  BY DEF NetInv
<1> QED BY <1>1, NetInvariant, PTL

\* output() never works on a stack that is gone, however many stacks come, go
\* and overwrite each other's pointer (output.rs output, stack.rs drop).
THEOREM OutputIsSafe == Spec => []OutputSafe
<1>1. NetInv => OutputSafe
  BY DEF NetInv, Published, OutputSafe
<1> QED BY <1>1, NetInvariant, PTL

\* No packet is queued while the task that reads the stream sleeps.
THEOREM NoWakeupIsLost == Spec => []NoLostWakeup
<1>1. NetInv => NoLostWakeup
  <2> SUFFICES ASSUME NetInv, NEW s \in Stacks, reader[s].pc # "ready", rx[s] > 0
               PROVE  reader[s].woken
    BY DEF NoLostWakeup
  <2>1. rx[s] \in Nat /\ rx[s] # 0
    BY NetAssumption DEF NetInv, TypeOK
  <2> QED BY <2>1 DEF NetInv, Watched
<1> QED BY <1>1, NetInvariant, PTL

-------------------------------------------------------------------------------
(* Both ways of a stack. *)

\* An application that keeps one stack at a time has at most one.
AtMostOne ==
  single => \A r, s \in Stacks : box[r] # "none" /\ box[s] # "none" => r = s

\* A packet that a stack accepted is in sink_buf, or in the hands of poll_flush.
Holds(s, p) ==
  \/ sink[s].pc = "idle" /\ sink[s].buf = p
  \/ sink[s].pc \in {"locking", "input"} /\ sink[s].item = p

Held == \A s \in Stacks, p \in Packets : fate[p] = s => Holds(s, p)

StackInv == AtMostOne /\ OpenStackOutputs /\ Held

LEMMA StackInit == Init => StackInv
BY NetAssumption DEF Init, StackInv, AtMostOne, OpenStackOutputs, Held

\* The life of a stack.
LEMMA LifeDelivers ==
  ASSUME TypeOK, StackInv, NEW s \in Stacks, NewBox(s) \/ Publish(s) \/ Clear(s) \/ Free(s)
  PROVE  StackInv'
<1> USE NetAssumption DEF StackInv
<1>a. box \in [Stacks -> {"none", "new", "open", "dropping"}]
      /\ sink \in [Stacks -> SinkType] /\ fate \in [Packets -> {"tun", "input", "gone"} \cup Stacks]
  BY DEF TypeOK, SinkType
<1>1. CASE NewBox(s)
  BY <1>a, <1>1 DEF NewBox, AtMostOne, OpenStackOutputs, Held, Holds
<1>2. CASE Publish(s)
  BY <1>a, <1>2 DEF Publish, AtMostOne, OpenStackOutputs, Held, Holds
<1>3. CASE Clear(s)
  BY <1>a, <1>3 DEF Clear, AtMostOne, OpenStackOutputs, Held, Holds
<1>4. CASE Free(s)
  <2>1. AtMostOne' /\ OpenStackOutputs'
    BY <1>a, <1>4 DEF Free, AtMostOne, OpenStackOutputs
  <2>2. Held'
    <3> SUFFICES ASSUME NEW r \in Stacks, NEW p \in Packets, fate'[p] = r PROVE Holds(r, p)'
      BY DEF Held
    <3>1. r # s /\ fate[p] = r
      BY <1>a, <1>4 DEF Free
    <3>2. Holds(r, p)
      BY <3>1 DEF Held
    <3>3. sink'[r] = sink[r]
      BY <1>a, <1>4, <3>1 DEF Free
    <3> QED BY <3>2, <3>3 DEF Holds
  <2> QED BY <2>1, <2>2
<1> QED BY <1>1, <1>2, <1>3, <1>4

\* The sink.
LEMMA SinkDelivers ==
  ASSUME TypeOK, StackInv, NEW s \in Stacks,
         \/ \E p \in Packets : StartSend(s, p)
         \/ FlushEmpty(s) \/ FlushStart(s) \/ FlushTake(s) \/ FlushNoPbuf(s) \/ FlushInput(s) \/ FlushAgain(s)
  PROVE  StackInv'
<1> USE NetAssumption DEF StackInv
<1>a. sink \in [Stacks -> SinkType] /\ fate \in [Packets -> {"tun", "input", "gone"} \cup Stacks]
  BY DEF TypeOK, SinkType
<1>b. UNCHANGED <<single, box, OUTPUT_CB_PTR>>
  BY DEF StartSend, FlushEmpty, FlushStart, FlushTake, FlushNoPbuf, FlushInput, FlushAgain
<1>c. AtMostOne' /\ OpenStackOutputs'
  BY <1>b DEF AtMostOne, OpenStackOutputs
<1>d. Held'
  <2> SUFFICES ASSUME NEW r \in Stacks, NEW q \in Packets, fate'[q] = r PROVE Holds(r, q)'
    BY <1>b DEF Held
  <2>a. ASSUME fate[q] = r PROVE Holds(r, q)
    BY <2>a DEF Held
  <2>b. r \notin {"tun", "input", "gone"} /\ q # Null
    OBVIOUS
  <2>1. ASSUME NEW p \in Packets, StartSend(s, p) PROVE Holds(r, q)'
    <3>1. /\ sink[s].pc = "idle" /\ sink[s].buf = Null /\ fate' = [fate EXCEPT ![p] = s]
          /\ sink' = [sink EXCEPT ![s].buf = p]
      BY <2>1 DEF StartSend
    <3>2. CASE q = p
      <4>1. r = s /\ sink'[s].pc = "idle" /\ sink'[s].buf = p
        BY <1>a, <3>1, <3>2 DEF SinkType
      <4> QED BY <3>2, <4>1 DEF Holds
    <3>3. CASE q # p
      <4>1. fate[q] = r
        BY <1>a, <3>1, <3>3
      <4>2. r # s
        BY <2>a, <2>b, <3>1, <4>1 DEF Holds
      <4>3. sink'[r] = sink[r]
        BY <1>a, <3>1, <4>2
      <4> QED BY <2>a, <4>1, <4>3 DEF Holds
    <3> QED BY <3>2, <3>3
  <2>2. CASE FlushEmpty(s)
    <3>1. /\ sink[s].pc = "idle" /\ fate' = [fate EXCEPT ![sink[s].buf] = "gone"]
          /\ sink' = [sink EXCEPT ![s] = IdleSink]
      BY <2>2 DEF FlushEmpty, Flushing
    <3>2. q # sink[s].buf /\ fate[q] = r
      BY <1>a, <2>b, <3>1
    <3>3. r # s
      BY <2>a, <3>1, <3>2 DEF Holds
    <3>4. sink'[r] = sink[r]
      BY <1>a, <3>1, <3>3
    <3> QED BY <2>a, <3>2, <3>4 DEF Holds
  <2>7. CASE FlushTake(s)
    <3>1. sink[s].pc = "locking" /\ fate' = fate /\ sink' = [sink EXCEPT ![s].pc = "input"]
      BY <2>7 DEF FlushTake
    <3>2. Holds(r, q)
      BY <2>a, <3>1
    <3>3. CASE r = s
      <4>1. sink[s].item = q
        BY <3>1, <3>2, <3>3 DEF Holds
      <4>2. sink'[s].pc = "input" /\ sink'[s].item = sink[s].item
        BY <1>a, <3>1 DEF SinkType
      <4> QED BY <3>3, <4>1, <4>2 DEF Holds
    <3>4. CASE r # s
      BY <1>a, <3>1, <3>2, <3>4 DEF Holds
    <3> QED BY <3>3, <3>4
  <2>3. CASE FlushStart(s)
    <3>1. /\ sink[s].pc = "idle" /\ fate' = fate
          /\ sink' = [sink EXCEPT ![s] = [pc |-> "locking", buf |-> Null, item |-> sink[s].buf]]
      BY <2>3 DEF FlushStart, Flushing
    <3>2. Holds(r, q)
      BY <2>a, <3>1
    <3>3. CASE r = s
      BY <1>a, <3>1, <3>2, <3>3 DEF Holds
    <3>4. CASE r # s
      BY <1>a, <3>1, <3>2, <3>4 DEF Holds
    <3> QED BY <3>3, <3>4
  <2>4. CASE FlushNoPbuf(s)
    <3>1. /\ sink[s].pc = "locking" /\ fate' = [fate EXCEPT ![sink[s].item] = "gone"]
          /\ sink' = [sink EXCEPT ![s] = [IdleSink EXCEPT !.pc = "pending"]]
      BY <2>4 DEF FlushNoPbuf
    <3>2. q # sink[s].item /\ fate[q] = r
      BY <1>a, <2>b, <3>1
    <3>3. r # s
      BY <2>a, <3>1, <3>2 DEF Holds
    <3>4. sink'[r] = sink[r]
      BY <1>a, <3>1, <3>3
    <3> QED BY <2>a, <3>2, <3>4 DEF Holds
  <2>5. CASE FlushInput(s)
    <3>1. /\ sink[s].pc = "input" /\ fate' = [fate EXCEPT ![sink[s].item] = "input"]
          /\ sink' = [sink EXCEPT ![s] = IdleSink]
      BY <2>5 DEF FlushInput
    <3>2. q # sink[s].item /\ fate[q] = r
      BY <1>a, <2>b, <3>1
    <3>3. r # s
      BY <2>a, <3>1, <3>2 DEF Holds
    <3>4. sink'[r] = sink[r]
      BY <1>a, <3>1, <3>3
    <3> QED BY <2>a, <3>2, <3>4 DEF Holds
  <2>6. CASE FlushAgain(s)
    <3>1. /\ sink[s].pc = "pending" /\ fate' = fate /\ sink' = [sink EXCEPT ![s].pc = "idle"]
      BY <2>6 DEF FlushAgain
    <3>2. Holds(r, q) /\ r # s
      BY <2>a, <3>1 DEF Holds
    <3>3. sink'[r] = sink[r]
      BY <1>a, <3>1, <3>2
    <3> QED BY <3>2, <3>3 DEF Holds
  <2> QED BY <2>1, <2>2, <2>3, <2>4, <2>5, <2>6, <2>7
<1> QED BY <1>c, <1>d

LEMMA StackInductive == NetInv /\ StackInv /\ [Next]_vars => StackInv'
<1> SUFFICES ASSUME NetInv, StackInv, [Next]_vars PROVE StackInv'
  OBVIOUS
<1>1. TypeOK
  BY DEF NetInv
<1>2. CASE UNCHANGED <<single, box, OUTPUT_CB_PTR, sink, fate>>
  BY <1>2 DEF StackInv, AtMostOne, OpenStackOutputs, Held, Holds
<1>3. ASSUME NEW s \in Stacks, PollNextReady(s) \/ PollNextPending(s) \/ ReplaceWaker(s)
      PROVE  StackInv'
  BY <1>2, <1>3 DEF PollNextReady, PollNextPending, ReplaceWaker
<1>4. ASSUME NEW c \in Clients, Enter(c) \/ Leave(c) PROVE StackInv'
  BY <1>2, <1>4 DEF Enter, Leave
<1>5. CASE OutputTest \/ OutputSend
  BY <1>2, <1>5 DEF OutputTest, OutputSend
<1>6. CASE UNCHANGED vars
  BY <1>2, <1>6 DEF vars
<1> QED BY <1>1, <1>3, <1>4, <1>5, <1>6, LifeDelivers, SinkDelivers DEF Next

\* An application that keeps one stack at a time finds what lwIP sends in it, and a
\* sink that says Ok has given lwIP all that it accepted and did not lose, whoever
\* else is in lwIP and however many stacks there are.
THEOREM OneStackDelivers == Spec => []StackDelivers
<1>1. NetInv /\ StackInv => StackDelivers
  <2> SUFFICES ASSUME TypeOK, StackInv PROVE StackDelivers
    BY DEF NetInv
  <2>1. OkMeansInput
    BY NetAssumption DEF OkMeansInput, StackInv, Held, Holds
  <2> QED BY <2>1 DEF StackDelivers, StackInv
<1>2. Spec => []StackInv
  BY StackInit, StackInductive, NetInvariant, PTL DEF Spec
<1> QED BY <1>1, <1>2, NetInvariant, PTL

-------------------------------------------------------------------------------
(* LWIP_MUTEX. *)

\* MutualExclusion is not inductive: a second thread is kept out by the flag,
\* which therefore has to be set while anybody is in.
LockInv ==
  /\ LockTypeOK
  /\ \A t \in Threads : pc[t] = "in" => locked
  /\ MutualExclusion
  /\ GuardAssertion

\* The initial state satisfies the inductive invariant.
LEMMA LockInitInv == LockInit => LockInv
BY DEF LockInit, LockInv, LockTypeOK, MutualExclusion, GuardAssertion

\* Every step of the lock preserves the inductive invariant.
LEMMA LockNextInv == LockInv /\ [LockNext]_lockVars => LockInv'
<1> SUFFICES ASSUME LockInv, [LockNext]_lockVars PROVE LockInv'
  OBVIOUS
<1> USE DEF LockInv, LockTypeOK, MutualExclusion, GuardAssertion
<1>1. ASSUME NEW t \in Threads, Lock(t) PROVE LockInv'
  BY <1>1 DEF Lock
<1>2. ASSUME NEW t \in Threads, TryLock(t) PROVE LockInv'
  BY <1>2 DEF TryLock
<1>3. ASSUME NEW t \in Threads, DropGuard(t) PROVE LockInv'
  BY <1>3 DEF DropGuard
<1>4. ASSUME NEW t \in Threads, GuardDropped(t) PROVE LockInv'
  BY <1>4 DEF GuardDropped
<1>5. CASE UNCHANGED lockVars
  BY <1>5 DEF lockVars
<1> QED BY <1>1, <1>2, <1>3, <1>4, <1>5 DEF LockNext

\* The inductive invariant holds in every reachable state of the lock.
THEOREM LockInvariance == LockSpec => []LockInv
BY LockInitInv, LockNextInv, PTL DEF LockSpec

\* No two threads are inside lwIP at once (AtomicMutex::try_lock).
THEOREM Exclusion == LockSpec => []MutualExclusion
BY LockInvariance, PTL DEF LockInv

\* The debug assertion of AtomicMutexGuard::drop never fails.
THEOREM AssertionHolds == LockSpec => []GuardAssertion
BY LockInvariance, PTL DEF LockInv

\* The lock is sound: AtomicMutex::try_lock lets one thread in, and nobody
\* releases what another holds.
THEOREM LockIsSound == LockSpec => []LockSound
<1>1. LockInv => LockSound
  BY DEF LockInv, LockSound
<1> QED BY <1>1, LockInvariance, PTL

-------------------------------------------------------------------------------
\* The refinement mapping names the one thread that is in.
LEMMA HolderIn ==
  ASSUME LockInv, NEW t \in Threads, pc[t] = "in" PROVE Holder = t
BY DEF Holder, LockInv, MutualExclusion

\* The refinement mapping names nobody when nobody is in.
LEMMA HolderOut ==
  ASSUME \A t \in Threads : pc[t] # "in" PROVE Holder = NoThread
BY DEF Holder

\* Every step of the spin lock is a step of the abstract lock or a stutter.
LEMMA StepSimulation ==
  LockInv /\ LockInv' /\ [LockNext]_lockVars => [Abstract!Next]_Holder
<1> SUFFICES ASSUME LockInv, LockInv', [LockNext]_lockVars PROVE [Abstract!Next]_Holder
  OBVIOUS
<1> USE DEF LockInv, LockTypeOK
<1>1. ASSUME UNCHANGED pc PROVE Holder' = Holder
  BY <1>1 DEF Holder
<1>2. ASSUME NEW t \in Threads, pc[t] # "in", pc'[t] # "in",
             \A u \in Threads : u # t => pc'[u] = pc[u]
      PROVE Holder' = Holder
  <2>1. \A u \in Threads : pc'[u] = "in" <=> pc[u] = "in"
    BY <1>2
  <2> QED BY <2>1 DEF Holder
<1>3. ASSUME NEW t \in Threads, Lock(t) PROVE Holder' = Holder
  BY <1>2, <1>3 DEF Lock
<1>4. ASSUME NEW t \in Threads, TryLock(t) PROVE [Abstract!Next]_Holder
  <2>1. CASE locked
    <3>1. pc'[t] # "in" /\ \A u \in Threads : u # t => pc'[u] = pc[u]
      BY <1>4, <2>1 DEF TryLock
    <3> QED BY <3>1, <1>2, <1>4 DEF TryLock
  <2>2. CASE ~locked
    <3>1. Holder = NoThread
      BY <2>2, HolderOut
    <3>2. pc'[t] = "in"
      BY <1>4, <2>2 DEF TryLock
    <3>3. Holder' = t
      BY <3>2, <1>4 DEF Holder, MutualExclusion
    <3> QED BY <3>1, <3>3 DEF Abstract!Next, Abstract!Acquire
  <2> QED BY <2>1, <2>2
<1>5. ASSUME NEW t \in Threads, DropGuard(t) PROVE [Abstract!Next]_Holder
  <2>1. Holder = t
    BY <1>5, HolderIn DEF DropGuard
  <2>2. \A u \in Threads : pc'[u] # "in"
    BY <1>5 DEF DropGuard, MutualExclusion
  <2>3. Holder' = NoThread
    BY <2>2 DEF Holder
  <2> QED BY <2>1, <2>3 DEF Abstract!Next, Abstract!Release
<1>6. ASSUME NEW t \in Threads, GuardDropped(t) PROVE Holder' = Holder
  BY <1>2, <1>6 DEF GuardDropped
<1>7. CASE UNCHANGED lockVars
  BY <1>7, <1>1 DEF lockVars
<1> QED BY <1>3, <1>4, <1>5, <1>6, <1>7 DEF LockNext

\* The spin lock implements the abstract lock.
THEOREM LockImplementation == LockSpec => ImplementsLock
<1>1. LockInit => Abstract!Init
  BY HolderOut DEF LockInit, Abstract!Init
<1> QED BY <1>1, LockInvariance, StepSimulation, PTL DEF LockSpec, ImplementsLock, Abstract!Spec
===============================================================================
