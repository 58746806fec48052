---------------------------- MODULE UdpSocketProofs ----------------------------
(***************************************************************************)
(* UdpSocket for any number of sockets, pcbs and packet buffers, any       *)
(* capacity of the channels and any overlap: who has which slot of the     *)
(* pool, what the lists of pcbs and of free slots are made of between any  *)
(* two stores, and what udp_input may touch.                               *)
(***************************************************************************)
EXTENDS UdpSocket, FiniteSetTheorems, TLAPS

-------------------------------------------------------------------------------
(* Chains in memory. *)

Links == [Pcbs -> Pcbs \cup {Null}]

\* The slots of Q, in some order, are a chain.
Chained(Q, first, link) ==
  \E n \in Nat : \E c \in [1 .. n -> Pcbs] : IsChain(n, c, first, link) /\ Range(c) = Q

\* A chain has at most as many slots as there are.
LEMMA ChainBound ==
  ASSUME NEW n \in Nat, NEW c \in [1 .. n -> Pcbs], IsInjective(c)
  PROVE n \in 0 .. Cardinality(Pcbs)
<1>1. IsFiniteSet(Pcbs) /\ Cardinality(Pcbs) \in Nat
  BY UdpAssumption, FS_CardinalityType
<1>2. c \in Injection(1 .. n, Pcbs)
  BY DEF Injection, IsInjective
<1>3. Cardinality(1 .. n) <= Cardinality(Pcbs)
  BY <1>1, <1>2, FS_Injection
<1>4. Cardinality(1 .. n) = n
  BY FS_Interval
<1> QED BY <1>1, <1>3, <1>4

\* The slots of a chain, by position.
LEMMA ChainFacts ==
  ASSUME NEW n \in Nat, NEW c \in [1 .. n -> Pcbs], NEW first, NEW link \in Links,
         IsChain(n, c, first, link)
  PROVE /\ \A q : q \in Range(c) <=> \E i \in 1 .. n : c[i] = q
        /\ Range(c) \subseteq Pcbs
        /\ \A i, j \in 1 .. n : c[i] = c[j] => i = j
        /\ n = 0 => first = Null
        /\ n # 0 => first = c[1] /\ 1 \in 1 .. n
        /\ first \in Range(c) \cup {Null}
        /\ \A i \in 1 .. n : i = n => link[c[i]] = Null
        /\ \A i \in 1 .. n : i # n => i + 1 \in 1 .. n /\ link[c[i]] = c[i + 1]
        /\ \A i \in 1 .. n : link[c[i]] \in Range(c) \cup {Null}
<1>1. DOMAIN c = 1 .. n
  OBVIOUS
<1>2. \A q : q \in Range(c) <=> \E i \in 1 .. n : c[i] = q
  BY <1>1 DEF Range
<1>3. \A i \in 1 .. n : i # n => i + 1 \in 1 .. n
  OBVIOUS
<1>4. n # 0 => 1 \in 1 .. n
  OBVIOUS
<1>5. \A i, j \in 1 .. n : c[i] = c[j] => i = j
  BY <1>1 DEF IsChain, IsInjective
<1> QED BY <1>1, <1>2, <1>3, <1>4, <1>5 DEF IsChain

\* What is stored in other slots does not disturb it.
LEMMA ChainFrame ==
  ASSUME NEW n \in Nat, NEW c \in [1 .. n -> Pcbs], NEW first, NEW link \in Links,
         IsChain(n, c, first, link), NEW link2, \A q \in Range(c) : link2[q] = link[q]
  PROVE IsChain(n, c, first, link2)
<1>1. \A i \in 1 .. n : c[i] \in Range(c)
  BY ChainFacts
<1> QED BY <1>1 DEF IsChain

\* A slot whose link leads to the first one is put in front.
LEMMA ChainPush ==
  ASSUME NEW n \in Nat, NEW c \in [1 .. n -> Pcbs], NEW first, NEW link \in Links,
         IsChain(n, c, first, link), NEW q \in Pcbs, q \notin Range(c), link[q] = first
  PROVE Chained(Range(c) \cup {q}, q, link)
<1> DEFINE m == n + 1
           d == [i \in 1 .. m |-> IF i = 1 THEN q ELSE c[i - 1]]
<1>a. /\ \A i \in 1 .. n : c[i] \in Pcbs /\ c[i] # q
      /\ \A i, j \in 1 .. n : c[i] = c[j] => i = j
      /\ \A i \in 1 .. n : link[c[i]] = IF i = n THEN Null ELSE c[i + 1]
      /\ first = IF n = 0 THEN Null ELSE c[1]
  BY ChainFacts DEF IsChain
<1>1. m \in Nat /\ m # 0 /\ \A i \in 1 .. m : i # 1 => i - 1 \in 1 .. n
  OBVIOUS
<1>2. /\ d \in [1 .. m -> Pcbs] /\ d[1] = q
      /\ \A i \in 1 .. m : i # 1 => d[i] = c[i - 1] /\ d[i] # q
  BY <1>a, <1>1
<1>3. \A i \in 1 .. n : i + 1 \in 1 .. m /\ d[i + 1] = c[i]
  BY <1>2
<1> HIDE DEF d
<1>4. IsInjective(d)
  <2> SUFFICES ASSUME NEW i \in 1 .. m, NEW j \in 1 .. m, d[i] = d[j] PROVE i = j
    BY <1>2 DEF IsInjective
  <2>1. CASE i = 1 \/ j = 1
    BY <1>2, <2>1
  <2>2. CASE i # 1 /\ j # 1
    <3>1. i - 1 = j - 1
      BY <1>a, <1>1, <1>2, <2>2
    <3> QED BY <3>1
  <2> QED BY <2>1, <2>2
<1>5. \A i \in 1 .. m : link[d[i]] = IF i = m THEN Null ELSE d[i + 1]
  <2> TAKE i \in 1 .. m
  <2>1. CASE i = 1
    <3>1. CASE n = 0
      BY <1>a, <1>2, <2>1, <3>1
    <3>2. CASE n # 0
      <4>1. 1 \in 1 .. n /\ i # m /\ i + 1 = 1 + 1
        BY <2>1, <3>2
      <4>2. d[1 + 1] = c[1]
        BY <1>3, <4>1
      <4> QED BY <1>a, <1>2, <2>1, <3>2, <4>1, <4>2
    <3> QED BY <3>1, <3>2
  <2>2. CASE i # 1
    <3>1. i - 1 \in 1 .. n /\ d[i] = c[i - 1] /\ (i - 1) + 1 = i /\ (i - 1 = n <=> i = m)
      BY <1>1, <1>2, <2>2
    <3>2. CASE i = m
      BY <1>a, <3>1, <3>2
    <3>3. CASE i # m
      <4>1. i \in 1 .. n /\ d[i + 1] = c[i]
        BY <1>3, <3>3
      <4> QED BY <1>a, <3>1, <3>3, <4>1
    <3> QED BY <3>2, <3>3
  <2> QED BY <2>1, <2>2
<1>6. Range(d) = Range(c) \cup {q}
  <2>1. \A x : x \in Range(d) <=> \E i \in 1 .. m : d[i] = x
    BY <1>2 DEF Range
  <2>2. \A x : x \in Range(c) <=> \E i \in 1 .. n : c[i] = x
    BY ChainFacts
  <2>3. ASSUME NEW x \in Range(d) PROVE x \in Range(c) \cup {q}
    <3>1. PICK i \in 1 .. m : d[i] = x
      BY <2>1
    <3> QED BY <1>1, <1>2, <2>2, <3>1
  <2>4. q \in Range(d)
    BY <1>1, <1>2, <2>1
  <2>5. ASSUME NEW x \in Range(c) PROVE x \in Range(d)
    BY <1>3, <2>1, <2>2
  <2> QED BY <2>3, <2>4, <2>5
<1>7. IsChain(m, d, q, link)
  BY <1>1, <1>2, <1>4, <1>5 DEF IsChain
<1> QED BY <1>1, <1>2, <1>6, <1>7 DEF Chained

\* The store that takes out the slot at k: to its predecessor, or to the first.
Cuts(c, k, first, link, first2, link2) ==
  IF k = 1 THEN first2 = link[c[k]] /\ link2 = link
           ELSE first2 = first /\ link2 = [link EXCEPT ![c[k - 1]] = link[c[k]]]

\* After it the other slots are a chain.
LEMMA ChainCut ==
  ASSUME NEW n \in Nat, NEW c \in [1 .. n -> Pcbs], NEW first, NEW link \in Links,
         IsChain(n, c, first, link), NEW k \in 1 .. n, NEW first2, NEW link2 \in Links,
         Cuts(c, k, first, link, first2, link2)
  PROVE Chained(Range(c) \ {c[k]}, first2, link2)
<1> DEFINE m == n - 1
           d == [i \in 1 .. m |-> IF i < k THEN c[i] ELSE c[i + 1]]
<1>a. /\ \A i \in 1 .. n : c[i] \in Pcbs
      /\ \A i, j \in 1 .. n : c[i] = c[j] => i = j
      /\ \A i \in 1 .. n : link[c[i]] = IF i = n THEN Null ELSE c[i + 1]
      /\ first = c[1]
  <2>1. n # 0
    OBVIOUS
  <2>2. first = c[1] /\ \A i, j \in 1 .. n : c[i] = c[j] => i = j
    BY <2>1, ChainFacts
  <2> QED BY <2>2 DEF IsChain
<1> USE DEF Cuts
<1>1. m \in Nat /\ \A i \in 1 .. m : i \in 1 .. n /\ i + 1 \in 1 .. n /\ i # n
  OBVIOUS
<1>2. /\ d \in [1 .. m -> Pcbs]
      /\ \A i \in 1 .. m : i < k => d[i] = c[i]
      /\ \A i \in 1 .. m : ~(i < k) => d[i] = c[i + 1]
  BY <1>a, <1>1
<1> HIDE DEF d
<1>3. \A i \in 1 .. m : d[i] # c[k]
  <2> TAKE i \in 1 .. m
  <2>1. CASE i < k
    BY <1>a, <1>1, <1>2, <2>1
  <2>2. CASE ~(i < k)
    <3>1. i + 1 # k
      BY <2>2
    <3> QED BY <1>a, <1>1, <1>2, <2>2, <3>1
  <2> QED BY <2>1, <2>2
<1>4. IsInjective(d)
  <2> SUFFICES ASSUME NEW i \in 1 .. m, NEW j \in 1 .. m, d[i] = d[j] PROVE i = j
    BY <1>2 DEF IsInjective
  <2> DEFINE x == IF i < k THEN i ELSE i + 1
             y == IF j < k THEN j ELSE j + 1
  <2>1. x \in 1 .. n /\ y \in 1 .. n /\ c[x] = d[i] /\ c[y] = d[j]
    BY <1>1, <1>2
  <2>2. x = y
    BY <1>a, <2>1
  <2> QED BY <2>2
<1>5. Range(d) = Range(c) \ {c[k]}
  <2>1. \A x : x \in Range(d) <=> \E i \in 1 .. m : d[i] = x
    BY <1>2 DEF Range
  <2>2. \A x : x \in Range(c) <=> \E i \in 1 .. n : c[i] = x
    BY ChainFacts
  <2>3. ASSUME NEW x \in Range(d) PROVE x \in Range(c) \ {c[k]}
    <3>1. PICK i \in 1 .. m : d[i] = x
      BY <2>1
    <3> QED BY <1>1, <1>2, <1>3, <2>2, <3>1
  <2>4. ASSUME NEW x \in Range(c), x # c[k] PROVE x \in Range(d)
    <3>1. PICK i \in 1 .. n : c[i] = x
      BY <2>2
    <3>2. CASE i < k
      <4>1. i \in 1 .. m
        BY <3>2
      <4> QED BY <1>2, <2>1, <3>1, <3>2, <4>1
    <3>3. CASE ~(i < k)
      <4>1. i # k
        BY <2>4, <3>1
      <4>2. i - 1 \in 1 .. m /\ ~(i - 1 < k) /\ (i - 1) + 1 = i
        BY <3>3, <4>1
      <4> QED BY <1>2, <2>1, <3>1, <4>2
    <3> QED BY <3>2, <3>3
  <2> QED BY <2>3, <2>4
<1>6. first2 = IF m = 0 THEN Null ELSE d[1]
  <2>1. CASE m = 0
    <3>1. n = 1 /\ k = 1
      BY <2>1
    <3> QED BY <1>a, <2>1, <3>1
  <2>2. CASE m # 0
    <3>1. 1 \in 1 .. m /\ 1 # n /\ (1 < k <=> k # 1)
      BY <2>2
    <3>2. CASE k = 1
      BY <1>a, <1>2, <2>2, <3>1, <3>2
    <3>3. CASE k # 1
      BY <1>a, <1>2, <2>2, <3>1, <3>3
    <3> QED BY <3>2, <3>3
  <2> QED BY <2>1, <2>2
<1>7. \A i \in 1 .. m : link2[d[i]] = IF i = m THEN Null ELSE d[i + 1]
  <2> TAKE i \in 1 .. m
  <2>1. CASE i = k - 1
    <3>1. k # 1 /\ k - 1 \in 1 .. n /\ i < k /\ d[i] = c[k - 1]
      BY <1>1, <1>2, <2>1
    <3>2. link2[d[i]] = link[c[k]]
      BY <1>a, <3>1 DEF Links
    <3>3. CASE i = m
      <4>1. k = n
        BY <2>1, <3>3
      <4> QED BY <1>a, <3>2, <3>3, <4>1
    <3>4. CASE i # m
      <4>1. i + 1 \in 1 .. m /\ i + 1 = k /\ k # n /\ ~(k < k)
        BY <2>1, <3>4
      <4>2. d[i + 1] = c[k + 1]
        BY <1>2, <4>1
      <4> QED BY <1>a, <3>2, <3>4, <4>1, <4>2
    <3> QED BY <3>3, <3>4
  <2>2. CASE i # k - 1
    <3> DEFINE x == IF i < k THEN i ELSE i + 1
    <3>1. x \in 1 .. n /\ d[i] = c[x] /\ x # k - 1
      BY <1>1, <1>2, <2>2
    <3>2. link2[c[x]] = link[c[x]]
      <4>1. CASE k = 1
        BY <4>1
      <4>2. CASE k # 1
        <5>1. k - 1 \in 1 .. n
          BY <4>2
        <5>2. c[x] # c[k - 1]
          BY <1>a, <3>1, <5>1
        <5> QED BY <1>a, <3>1, <4>2, <5>2 DEF Links
      <4> QED BY <4>1, <4>2
    <3>3. CASE i = m
      <4>1. x = n
        BY <2>2, <3>3
      <4> QED BY <1>a, <3>1, <3>2, <3>3, <4>1
    <3>4. CASE i # m
      <4>1. i + 1 \in 1 .. m /\ x # n
        BY <3>4
      <4>2. d[i + 1] = c[x + 1]
        <5>1. CASE i < k
          <6>1. i + 1 < k /\ x + 1 = i + 1
            BY <2>2, <5>1
          <6> QED BY <1>2, <4>1, <6>1
        <5>2. CASE ~(i < k)
          <6>1. ~(i + 1 < k) /\ x + 1 = (i + 1) + 1
            BY <5>2
          <6> QED BY <1>2, <4>1, <6>1
        <5> QED BY <5>1, <5>2
      <4> QED BY <1>a, <3>1, <3>2, <3>4, <4>1, <4>2
    <3> QED BY <3>3, <3>4
  <2> QED BY <2>1, <2>2
<1>8. IsChain(m, d, first2, link2)
  BY <1>4, <1>6, <1>7 DEF IsChain
<1> QED BY <1>1, <1>2, <1>5, <1>8 DEF Chained

\* The first slot is taken out.
LEMMA ChainPop ==
  ASSUME NEW n \in Nat, NEW c \in [1 .. n -> Pcbs], NEW first, NEW link \in Links,
         IsChain(n, c, first, link), first # Null
  PROVE Chained(Range(c) \ {first}, link[first], link)
<1>1. 1 \in 1 .. n /\ first = c[1]
  BY ChainFacts
<1>2. Cuts(c, 1, first, link, link[first], link)
  BY <1>1 DEF Cuts
<1>3. Chained(Range(c) \ {c[1]}, link[first], link)
  BY <1>1, <1>2, ChainCut
<1> QED BY <1>1, <1>3

-------------------------------------------------------------------------------
(* The inductive invariant. *)

Pcs == {"none", "popping", "popped", "raw", "made", "search", "link", "linking", "linked",
        "bound", "heard", "open", "deaf", "detached", "seek", "found", "unlink", "removed",
        "push", "pushed", "freed"}

TaskType == [pc : Pcs, pcb : Pcbs \cup {Null}, at : Pcbs \cup {Null}, reg : Pcbs \cup {Null}]

SlotType == [recv : BOOLEAN, arg : Sockets \cup {Null}, port : BOOLEAN]

\* Where a task has no pcb.
Without == {"none", "popping", "popped", "freed"}

\* A pointer that will be followed is not null, whatever overlaps.
RegInv ==
  \A t \in Tasks : /\ task[t].pcb = Null <=> task[t].pc \in Without
                   /\ task[t].pc \in {"popping", "popped"} => task[t].at # Null

\* A datagram on its way, whatever overlaps.
InputInv ==
  /\ input.pc = "out" => input.pcb = Null
  /\ input.pc # "calling" => input.arg = Null
  /\ input.pc \in {"tested", "calling"} => input.pcb # Null
  /\ input.pc # "out" => pbufs > 0

\* The pcbs in the list, and the free slots.
Listed == {q \in Pcbs : \E s \in Sockets : Owns(s, q) /\ task[s].pc \in Linked}
Vacant == {q \in Pcbs : \A s \in Sockets : ~Owns(s, q)}

\* If neither send_to nor another new or drop overlaps, one task changes the lists,
\* and it is no send_to.
OneWriter ==
  /\ \A t, u \in Tasks : Busy(t) /\ Busy(u) => t = u
  /\ task[Sender] = Idle

Distinct ==
  \A s, r \in Sockets : task[s].pcb # Null /\ task[r].pcb = task[s].pcb => r = s

\* A slot that a SendHalf has, whosever it is by now, has a port, or its new owner is
\* about to bind it.
Ports ==
  /\ \A s \in Sockets : task[s].pc \in {"link", "linking", "linked", "bound", "heard", "open"} =>
       pcb[task[s].pcb].port
  /\ \A s \in Sockets : half[s] # Null =>
       \/ pcb[half[s]].port
       \/ \E r \in Sockets : Owns(r, half[s]) /\ task[r].pc \in {"made", "search"}

\* Who is called back: a socket that is open, or about to be.
Calls ==
  /\ \A q \in Pcbs : pcb[q].recv =>
       \E s \in Sockets : Owns(s, q) /\ task[s].pc \in {"heard", "open"}
  /\ \A s \in Sockets : task[s].pc = "open" => pcb[task[s].pcb].arg = s

\* What udp_bind and udp_remove, on the way, know of the list c.
ListRegs(k, c) ==
  /\ k.pc = "search" => k.at \in Range(c) \cup {Null}
  /\ k.pc = "linking" => k.reg = udp_pcbs
  /\ k.pc = "linked" => next[k.pcb] = udp_pcbs
  /\ k.pc = "seek" => \E i, j \in DOMAIN c : i < j /\ c[i] = k.at /\ c[j] = k.pcb
  /\ k.pc \in {"found", "unlink"} =>
       IF k.at = Null THEN udp_pcbs = k.pcb ELSE k.at \in Range(c) /\ next[k.at] = k.pcb
  /\ k.pc = "unlink" => k.reg = next[k.pcb]

ListInv ==
  \E n \in Nat : \E c \in [1 .. n -> Pcbs] :
    /\ IsChain(n, c, udp_pcbs, next) /\ Range(c) = Listed
    /\ \A s \in Sockets : ListRegs(task[s], c)

\* What memp_malloc and memp_free, on the way, know of the pool.
PoolRegs(k) ==
  /\ k.pc \in {"popping", "popped"} => k.at = tab
  /\ k.pc = "popped" => k.reg = memp[k.at]
  /\ k.pc = "push" => k.reg = tab
  /\ k.pc = "pushed" => memp[k.pcb] = tab

PoolInv ==
  Chained(Vacant, tab, memp) /\ \A s \in Sockets : PoolRegs(task[s])

SaneInv == OneWriter /\ Distinct /\ Ports /\ Calls /\ ListInv /\ PoolInv

\* What a runtime with one thread adds.
AloneInv ==
  /\ input.pc # "out" => \A t \in Tasks : ~Busy(t)
  /\ pbufs = IF input.pc = "out" THEN 0 ELSE 1
  /\ input.pcb # Null =>
       \E s \in Sockets : /\ task[s].pc = "open" /\ task[s].pcb = input.pcb
                          /\ input.pc = "tested" => pcb[input.pcb].recv
  /\ input.pc = "calling" =>
       input.arg # Null /\ task[input.arg].pc = "open" /\ task[input.arg].pcb = input.pcb

UdpInv ==
  /\ TypeOK /\ RegInv /\ InputInv
  /\ overlap \subseteq {"input"} => SaneInv
  /\ overlap = {} => AloneInv

-------------------------------------------------------------------------------
(* What every step of new, drop and udp_bind starts from. *)

LEMMA TypeSets ==
  /\ Pcs = {"none", "popping", "popped", "raw", "made", "search", "link", "linking", "linked",
            "bound", "heard", "open", "deaf", "detached", "seek", "found", "unlink", "removed",
            "push", "pushed", "freed"}
  /\ TaskType = [pc : Pcs, pcb : Pcbs \cup {Null}, at : Pcbs \cup {Null},
                 reg : Pcbs \cup {Null}]
  /\ SlotType = [recv : BOOLEAN, arg : Sockets \cup {Null}, port : BOOLEAN]
BY DEF Pcs, TaskType, SlotType

LEMMA Facts ==
  ASSUME UdpInv
  PROVE /\ udp_pcbs \in Pcbs \cup {Null} /\ next \in Links
        /\ tab \in Pcbs \cup {Null} /\ memp \in Links
        /\ pcb \in [Pcbs -> SlotType] /\ task \in [Tasks -> TaskType]
        /\ half \in [Sockets -> Pcbs \cup {Null}] /\ rx \in [Sockets -> 0 .. QueueLen]
        /\ pbufs \in 0 .. MaxPbufs
        /\ Null \notin Pcbs /\ Null \notin Sockets /\ Sender \notin Sockets
        /\ Sockets \subseteq Tasks /\ Sender \in Tasks
        /\ \A t \in Tasks : task[t].pcb \in Pcbs <=> task[t].pc \notin Without
        /\ \A t \in Tasks : task[t].pcb \in Pcbs \cup {Null}
BY UdpAssumption, TypeSets
   DEF UdpInv, TypeOK, RegInv, Links, TaskType, SlotType, Pcs, Tasks

\* A step of a task: where it goes, and nobody else.
LEMMA Goers ==
  ASSUME UdpInv, NEW t \in Tasks, NEW from, NEW to \in TaskType, Goes(t, from, to)
  PROVE /\ task[t].pc = from /\ task' \in [Tasks -> TaskType] /\ task'[t] = to
        /\ \A u \in Tasks : u # t => task'[u] = task[u]
        /\ UNCHANGED <<overlap, half, rx, input, pbufs>>
BY Facts DEF Goes, others

\* What t does when only udp_input may overlap it: nobody else is on the way.
Moves(s) ==
  /\ UdpInv /\ overlap \subseteq {"input"}
  /\ task' \in [Tasks -> TaskType]
  /\ \A u \in Tasks : u # s => task'[u] = task[u] /\ ~Busy(u)
  /\ UNCHANGED half

\* A step of a task keeps the invariant if it keeps types and, should only
\* udp_input overlap, the lists.
LEMMA Step ==
  ASSUME UdpInv, NEW t \in Tasks, NEW from, NEW to \in TaskType, Goes(t, from, to),
         udp_pcbs' \in Pcbs \cup {Null}, next' \in Links,
         tab' \in Pcbs \cup {Null}, memp' \in Links, pcb' \in [Pcbs -> SlotType],
         to.pcb = Null <=> to.pc \in Without, to.pc \in {"popping", "popped"} => to.at # Null,
         overlap \subseteq {"input"} => t \in Sockets,
         Moves(t) => Distinct' /\ Ports' /\ Calls' /\ ListInv' /\ PoolInv'
  PROVE UdpInv'
<1>1. /\ task[t].pc = from /\ task' \in [Tasks -> TaskType] /\ task'[t] = to
      /\ \A u \in Tasks : u # t => task'[u] = task[u]
      /\ UNCHANGED <<overlap, half, rx, input, pbufs>>
  BY Goers
<1>2. TypeOK'
  BY <1>1, TypeSets DEF UdpInv, TypeOK, Links
<1>3. RegInv' /\ InputInv'
  BY <1>1 DEF UdpInv, RegInv, InputInv
<1>4. ASSUME overlap \subseteq {"input"} PROVE SaneInv'
  <2>1. \A u \in Tasks : u # t => ~Busy(u)
    BY <1>4 DEF Goes, Alone
  <2>2. Moves(t)
    BY <1>1, <1>4, <2>1 DEF Moves
  <2>3. OneWriter'
    <3>1. t # Sender /\ Sender \in Tasks /\ task[Sender] = Idle
      BY <1>4, Facts DEF UdpInv, SaneInv, OneWriter
    <3>2. \A u \in Tasks : Busy(u)' => u = t
      BY <1>1, <2>1 DEF Busy
    <3> QED BY <1>1, <3>1, <3>2 DEF OneWriter
  <2> QED BY <2>2, <2>3 DEF SaneInv
<1>5. ASSUME overlap = {} PROVE AloneInv'
  <2>1. input.pc = "out" /\ UNCHANGED <<input, pbufs>>
    BY <1>1, <1>5 DEF Goes, Alone
  <2>2. pbufs = 0 /\ input.pcb = Null
    BY <1>5, <2>1 DEF UdpInv, AloneInv, InputInv
  <2> QED BY <2>1, <2>2 DEF AloneInv
<1> QED BY <1>1, <1>2, <1>3, <1>4, <1>5 DEF UdpInv

\* What a mover starts from.
LEMMA Moving ==
  ASSUME NEW s \in Sockets, Moves(s)
  PROVE /\ Distinct /\ Ports /\ Calls /\ ListInv /\ PoolInv
        /\ \A r \in Sockets : r # s => task'[r] = task[r] /\ task[r].pc \in {"none", "open"}
        /\ \A r \in Sockets : task[r] \in TaskType /\ task'[r] \in TaskType
        /\ Listed \subseteq Pcbs /\ Vacant \subseteq Pcbs /\ Listed' \subseteq Pcbs
        /\ Listed \cap Vacant = {}
<1>1. SaneInv /\ Sockets \subseteq Tasks
  BY Facts DEF Moves, UdpInv
<1>2. task \in [Tasks -> TaskType]
  BY Facts DEF Moves
<1>3. Listed \subseteq Pcbs /\ Vacant \subseteq Pcbs /\ Listed' \subseteq Pcbs /\ Listed \cap Vacant = {}
  BY DEF Listed, Vacant
<1> QED BY <1>1, <1>2, <1>3 DEF SaneInv, Moves, Busy

\* The list's members, when s comes, stays or goes.
LEMMA Listing ==
  ASSUME NEW s \in Sockets, Moves(s)
  PROVE /\ (task[s].pc \in Linked <=> task'[s].pc \in Linked) /\ task'[s].pcb = task[s].pcb =>
             Listed' = Listed
        /\ task[s].pc \notin Linked /\ task'[s].pc \notin Linked => Listed' = Listed
        /\ task[s].pc \notin Linked /\ task'[s].pc \in Linked /\ task'[s].pcb \in Pcbs =>
             Listed' = Listed \cup {task'[s].pcb}
        /\ task[s].pc \in Linked /\ task'[s].pc \notin Linked /\ task[s].pcb \in Pcbs =>
             Listed' = Listed \ {task[s].pcb}
        /\ task[s].pc \in Linked /\ task[s].pcb \in Pcbs => task[s].pcb \in Listed
        /\ task[s].pc \notin Linked /\ task[s].pcb \in Pcbs => task[s].pcb \notin Listed
<1>1. /\ \A r \in Sockets : r # s => task'[r] = task[r]
      /\ \A r \in Sockets : task[s].pcb # Null /\ task[r].pcb = task[s].pcb => r = s
      /\ Null \notin Pcbs
  BY Moving, Facts DEF Distinct, Moves
<1> QED BY <1>1 DEF Listed, Owns

\* The free slots, likewise.
LEMMA Vacating ==
  ASSUME NEW s \in Sockets, Moves(s)
  PROVE /\ task'[s].pcb = task[s].pcb => Vacant' = Vacant
        /\ task[s].pcb = Null /\ task'[s].pcb \in Pcbs => Vacant' = Vacant \ {task'[s].pcb}
        /\ task[s].pcb \in Pcbs /\ task'[s].pcb = Null => Vacant' = Vacant \cup {task[s].pcb}
        /\ task[s].pcb \notin Vacant \/ task[s].pcb = Null
<1>1. /\ \A r \in Sockets : r # s => task'[r] = task[r]
      /\ \A r \in Sockets : task[s].pcb # Null /\ task[r].pcb = task[s].pcb => r = s
      /\ Null \notin Pcbs
  BY Moving, Facts DEF Distinct, Moves
<1> QED BY <1>1 DEF Vacant, Owns

\* Nobody else is given s's slot.
LEMMA DistinctKept ==
  ASSUME NEW s \in Sockets, Moves(s),
         task'[s].pcb = task[s].pcb \/ task'[s].pcb \in Vacant \cup {Null}
  PROVE Distinct'
<1>1. Distinct /\ \A r \in Sockets : r # s => task'[r] = task[r]
  BY Moving
<1>2. \A r \in Sockets : task[r].pcb # Null => task[r].pcb \notin Vacant
  BY DEF Vacant, Owns
<1> QED BY <1>1, <1>2 DEF Distinct

\* Of a list that a step leaves as it is, only the registers of the step are left
\* to prove.
LEMMA ListKept ==
  ASSUME NEW s \in Sockets, Moves(s), udp_pcbs' = udp_pcbs, Listed' = Listed,
         \A q \in Listed : next'[q] = next[q],
         \A n \in Nat : \A c \in [1 .. n -> Pcbs] :
           IsChain(n, c, udp_pcbs, next) /\ Range(c) = Listed /\ ListRegs(task[s], c) =>
             ListRegs(task[s], c)'
  PROVE ListInv'
<1>1. PICK n \in Nat : \E c \in [1 .. n -> Pcbs] :
        /\ IsChain(n, c, udp_pcbs, next) /\ Range(c) = Listed
        /\ \A r \in Sockets : ListRegs(task[r], c)
  BY Moving DEF ListInv
<1>2. PICK c \in [1 .. n -> Pcbs] :
        /\ IsChain(n, c, udp_pcbs, next) /\ Range(c) = Listed
        /\ \A r \in Sockets : ListRegs(task[r], c)
  BY <1>1
<1>3. IsChain(n, c, udp_pcbs', next')
  BY <1>2, ChainFrame, Facts DEF Moves
<1>4. ListRegs(task[s], c)'
  BY <1>2
<1>5. ASSUME NEW r \in Sockets, r # s PROVE ListRegs(task[r], c)'
  BY <1>5, Moving DEF ListRegs
<1>6. Range(c) = Listed'
  BY <1>2
<1> QED BY <1>3, <1>4, <1>5, <1>6 DEF ListInv

\* The same, where the step has no registers in use.
LEMMA ListStill ==
  ASSUME NEW s \in Sockets, Moves(s), UNCHANGED <<udp_pcbs, next>>,
         task'[s].pc \in Linked <=> task[s].pc \in Linked,
         task'[s].pc \in Linked => task'[s].pcb = task[s].pcb,
         task'[s].pc \notin {"search", "linking", "linked", "seek", "found", "unlink"}
  PROVE ListInv'
<1>1. Listed' = Listed
  BY Listing
<1>2. \A c : ListRegs(task[s], c)'
  BY DEF ListRegs
<1> QED BY <1>1, <1>2, ListKept

\* The pool, where the step leaves it as it is.
LEMMA PoolKept ==
  ASSUME NEW s \in Sockets, Moves(s), tab' = tab, \A q \in Vacant : memp'[q] = memp[q],
         task'[s].pcb = task[s].pcb, PoolRegs(task[s])'
  PROVE PoolInv'
<1>1. PICK n \in Nat : \E c \in [1 .. n -> Pcbs] : IsChain(n, c, tab, memp) /\ Range(c) = Vacant
  BY Moving DEF PoolInv, Chained
<1>2. PICK c \in [1 .. n -> Pcbs] : IsChain(n, c, tab, memp) /\ Range(c) = Vacant
  BY <1>1
<1>3. IsChain(n, c, tab', memp') /\ Range(c) = Vacant'
  <2>1. memp \in Links
    BY Facts DEF Moves
  <2>2. IsChain(n, c, tab, memp')
    BY <1>2, <2>1, ChainFrame
  <2> QED BY <1>2, <2>2, Vacating
<1>4. ASSUME NEW r \in Sockets, r # s PROVE PoolRegs(task[r])'
  BY <1>4, Moving DEF PoolRegs
<1> QED BY <1>3, <1>4 DEF PoolInv, Chained

LEMMA PoolStill ==
  ASSUME NEW s \in Sockets, Moves(s), UNCHANGED <<tab, memp>>, task'[s].pcb = task[s].pcb,
         task'[s].pc \notin {"popping", "popped", "push", "pushed"}
  PROVE PoolInv'
BY PoolKept DEF PoolRegs

Ported == {"link", "linking", "linked", "bound", "heard", "open"}

\* No slot loses its port, and the mover's has one when it should.
LEMMA PortsKept ==
  ASSUME NEW s \in Sockets, Moves(s), \A q \in Pcbs : pcb[q].port => pcb'[q].port,
         task'[s].pc \in Ported => pcb'[task'[s].pcb].port,
         task[s].pc \in {"made", "search"} =>
           \/ task'[s].pc \in {"made", "search"} /\ task'[s].pcb = task[s].pcb
           \/ pcb'[task[s].pcb].port
  PROVE Ports'
<1>1. Ports /\ \A r \in Sockets : r # s => task'[r] = task[r]
  BY Moving
<1>2. \A r \in Sockets : task[r].pc \in Ported => task[r].pcb \in Pcbs
  BY Facts DEF Moves, Ported, Without
<1>3. \A r \in Sockets : half[r] \in Pcbs \cup {Null} /\ half'[r] = half[r]
  BY Facts DEF Moves
<1>4. ASSUME NEW r \in Sockets, task'[r].pc \in Ported PROVE pcb'[task'[r].pcb].port
  <2>1. CASE r = s
    BY <1>4, <2>1
  <2>2. CASE r # s
    BY <1>1, <1>2, <1>4, <2>2 DEF Ports, Ported
  <2> QED BY <2>1, <2>2
<1>5. ASSUME NEW r \in Sockets, half[r] # Null
      PROVE \/ pcb'[half[r]].port
            \/ \E u \in Sockets : task'[u].pcb = half[r] /\ task'[u].pc \in {"made", "search"}
  <2>1. CASE pcb[half[r]].port
    BY <1>3, <1>5, <2>1
  <2>2. CASE ~pcb[half[r]].port
    <3>1. PICK u \in Sockets : task[u].pcb = half[r] /\ task[u].pc \in {"made", "search"}
      BY <1>1, <1>5, <2>2 DEF Ports, Owns
    <3> QED BY <1>1, <3>1
  <2> QED BY <2>1, <2>2
<1> QED BY <1>3, <1>4, <1>5 DEF Ports, Ported, Owns

\* Only the mover's callback and argument change.
LEMMA CallsKept ==
  ASSUME NEW s \in Sockets, Moves(s),
         \A q \in Pcbs : pcb'[q].recv =>
           pcb[q].recv \/ (q = task'[s].pcb /\ task'[s].pc \in {"heard", "open"}),
         task[s].pc \in {"heard", "open"} /\ pcb'[task[s].pcb].recv =>
           task'[s].pc \in {"heard", "open"} /\ task'[s].pcb = task[s].pcb,
         \A q \in Pcbs : q # task[s].pcb => pcb'[q].arg = pcb[q].arg,
         task'[s].pc = "open" => pcb'[task'[s].pcb].arg = s
  PROVE Calls'
<1>1. Calls /\ Distinct /\ \A r \in Sockets : r # s => task'[r] = task[r]
  BY Moving
<1>2. \A r \in Sockets : task[r].pc = "open" => task[r].pcb \in Pcbs
  BY Facts DEF Moves, Without
<1>3. ASSUME NEW q \in Pcbs, pcb'[q].recv
      PROVE \E r \in Sockets : task'[r].pcb = q /\ task'[r].pc \in {"heard", "open"}
  <2>1. CASE q = task'[s].pcb /\ task'[s].pc \in {"heard", "open"}
    BY <2>1
  <2>2. CASE pcb[q].recv
    <3>1. PICK r \in Sockets : task[r].pcb = q /\ task[r].pc \in {"heard", "open"}
      BY <1>1, <2>2 DEF Calls, Owns
    <3> QED BY <1>1, <1>3, <3>1
  <2> QED BY <1>3, <2>1, <2>2
<1>4. ASSUME NEW r \in Sockets, task'[r].pc = "open" PROVE pcb'[task'[r].pcb].arg = r
  <2>1. CASE r = s
    BY <1>4, <2>1
  <2>2. CASE r # s
    <3>1. task[r].pc = "open" /\ task[r].pcb \in Pcbs /\ task'[r] = task[r]
      BY <1>1, <1>2, <1>4, <2>2
    <3>2. task[r].pcb # task[s].pcb /\ pcb[task[r].pcb].arg = r
      BY <1>1, <2>2, <3>1, Facts DEF Distinct, Calls, Moves
    <3> QED BY <3>1, <3>2
  <2> QED BY <2>1, <2>2
<1> QED BY <1>3, <1>4 DEF Calls, Owns

\* The same two, where the step stores nothing in the slot.
LEMMA SlotsStill ==
  ASSUME NEW s \in Sockets, Moves(s), UNCHANGED pcb,
         task'[s].pc \in Ported => task[s].pc \in Ported /\ task'[s].pcb = task[s].pcb,
         task[s].pc \in {"made", "search"} =>
           task'[s].pc \in {"made", "search"} /\ task'[s].pcb = task[s].pcb,
         {task[s].pc, task'[s].pc} \cap {"heard", "open"} = {}
  PROVE Ports' /\ Calls'
<1>1. task[s].pc \in Ported => pcb[task[s].pcb].port
  BY Moving DEF Ports, Ported
<1>2. Ports'
  BY <1>1, PortsKept
<1>3. Calls'
  BY CallsKept
<1> QED BY <1>2, <1>3

-------------------------------------------------------------------------------
(* memp_malloc and memp_free. *)

LEMMA PopInv ==
  ASSUME UdpInv, NEW s \in Sockets, PopLoad(s) \/ PopNext(s)
  PROVE UdpInv'
<1>a. s \in Tasks /\ task[s] \in TaskType /\ UNCHANGED <<udp_pcbs, next, pcb, tab, memp>>
  BY Facts DEF PopLoad, PopNext, shared
<1>1. CASE PopLoad(s)
  <2> DEFINE to == [Idle EXCEPT !.pc = "popping", !.at = tab]
  <2>1. /\ to \in TaskType /\ to.pc = "popping" /\ to.pcb = Null /\ to.at = tab /\ tab # Null
        /\ Goes(s, "none", to)
    BY <1>1, Facts, TypeSets DEF PopLoad, Idle
  <2> HIDE DEF to
  <2>2. task[s].pc = "none" /\ task'[s] = to
    BY <1>a, <2>1, Goers
  <2>3. task[s].pcb = Null
    BY <1>a, <2>2, Facts DEF UdpInv, RegInv, Without
  <2>4. ASSUME Moves(s) PROVE Distinct' /\ Ports' /\ Calls' /\ ListInv' /\ PoolInv'
    <3>1. Distinct'
      BY <2>1, <2>2, <2>4, DistinctKept
    <3>2. Ports' /\ Calls'
      BY <1>a, <2>1, <2>2, <2>4, SlotsStill DEF Ported
    <3>3. ListInv'
      BY <1>a, <2>1, <2>2, <2>4, ListStill DEF Linked
    <3>4. PoolInv'
      BY <1>a, <2>1, <2>2, <2>3, <2>4, PoolKept DEF PoolRegs
    <3> QED BY <3>1, <3>2, <3>3, <3>4
  <2> QED BY <1>a, <2>1, <2>4, Step, Facts DEF Without
<1>2. CASE PopNext(s)
  <2> DEFINE to == [task[s] EXCEPT !.pc = "popped", !.reg = memp[task[s].at]]
  <2>1. Goes(s, "popping", to)
    BY <1>2 DEF PopNext
  <2>2. task[s].pc = "popping"
    BY <2>1 DEF Goes
  <2>3. task[s].at # Null /\ task[s].at \in Pcbs /\ task[s].pcb = Null /\ memp[task[s].at] \in Pcbs \cup {Null}
    BY <1>a, <2>2, Facts DEF UdpInv, RegInv, Without, TaskType, Links
  <2>4. /\ to \in TaskType /\ to.pc = "popped" /\ to.pcb = task[s].pcb /\ to.at = task[s].at
        /\ to.reg = memp[task[s].at]
    BY <1>a, <2>3, TypeSets
  <2> HIDE DEF to
  <2>5. task'[s] = to
    BY <1>a, <2>1, <2>4, Goers
  <2>6. ASSUME Moves(s) PROVE Distinct' /\ Ports' /\ Calls' /\ ListInv' /\ PoolInv'
    <3>1. Distinct'
      BY <2>4, <2>5, <2>6, DistinctKept
    <3>2. Ports' /\ Calls'
      BY <1>a, <2>2, <2>4, <2>5, <2>6, SlotsStill DEF Ported
    <3>3. ListInv'
      BY <1>a, <2>2, <2>4, <2>5, <2>6, ListStill DEF Linked
    <3>4. task[s].at = tab
      BY <2>2, <2>6, Moving DEF PoolInv, PoolRegs
    <3>5. PoolInv'
      BY <1>a, <2>4, <2>5, <2>6, <3>4, PoolKept DEF PoolRegs
    <3> QED BY <3>1, <3>2, <3>3, <3>5
  <2> QED BY <1>a, <2>1, <2>3, <2>4, <2>6, Step, Facts DEF Without
<1> QED BY <1>1, <1>2

\* A task's next place, registers dropped.
LEMMA AtFacts ==
  ASSUME UdpInv, NEW t \in Tasks, NEW x \in Pcs
  PROVE /\ At(t, x) \in TaskType /\ At(t, x).pc = x /\ At(t, x).pcb = task[t].pcb
        /\ At(t, x).at = Null /\ At(t, x).reg = Null
BY Facts, TypeSets DEF At, Idle

\* The last store of memp_malloc: the first slot is no longer free.
LEMMA PopStoreInv == ASSUME UdpInv, NEW s \in Sockets, PopStore(s) PROVE UdpInv'
<1> DEFINE to == [Idle EXCEPT !.pc = "raw", !.pcb = task[s].at]
<1>a. /\ s \in Tasks /\ task[s] \in TaskType /\ UNCHANGED <<udp_pcbs, next, pcb, memp>>
      /\ tab' = task[s].reg /\ Goes(s, "popped", to) /\ task[s].pc = "popped"
  BY Facts DEF PopStore, Goes
<1>1. task[s].at \in Pcbs /\ task[s].pcb = Null /\ task[s].reg \in Pcbs \cup {Null}
  BY <1>a, Facts DEF UdpInv, RegInv, Without, TaskType
<1>2. to \in TaskType /\ to.pc = "raw" /\ to.pcb = task[s].at
  BY <1>1, TypeSets DEF Idle
<1> HIDE DEF to
<1>3. task'[s] = to
  BY <1>a, <1>2, Goers
<1>4. ASSUME Moves(s) PROVE Distinct' /\ Ports' /\ Calls' /\ ListInv' /\ PoolInv'
  <2> DEFINE q == task[s].at
  <2>1. q = tab /\ task[s].reg = memp[q] /\ tab # Null
    BY <1>a, <1>1, <1>4, Moving, Facts DEF PoolInv, PoolRegs
  <2>2. PICK n \in Nat : \E c \in [1 .. n -> Pcbs] : IsChain(n, c, tab, memp) /\ Range(c) = Vacant
    BY <1>4, Moving DEF PoolInv, Chained
  <2>3. PICK c \in [1 .. n -> Pcbs] : IsChain(n, c, tab, memp) /\ Range(c) = Vacant
    BY <2>2
  <2>4. 1 \in 1 .. n /\ c[1] = q /\ q \in Vacant
    BY <2>1, <2>3, ChainFacts, Facts
  <2>5. Chained(Range(c) \ {tab}, memp[tab], memp)
    <3>1. memp \in Links
      BY Facts
    <3> QED BY <2>1, <2>3, <3>1, ChainPop
  <2>6. Vacant' = Vacant \ {q}
    BY <1>1, <1>2, <1>3, <1>4, Vacating
  <2>7. Chained(Vacant', tab', memp')
    BY <1>a, <2>1, <2>3, <2>5, <2>6
  <2>8. \A r \in Sockets : PoolRegs(task[r])'
    BY <1>2, <1>3, <1>4, Moving DEF PoolRegs
  <2>9. PoolInv'
    BY <2>7, <2>8 DEF PoolInv
  <2>10. Distinct'
    BY <1>2, <1>3, <1>4, <2>4, DistinctKept
  <2>11. Ports' /\ Calls'
    BY <1>a, <1>2, <1>3, <1>4, SlotsStill DEF Ported
  <2>12. ListInv'
    BY <1>a, <1>2, <1>3, <1>4, ListStill DEF Linked
  <2> QED BY <2>9, <2>10, <2>11, <2>12
<1> QED BY <1>a, <1>1, <1>2, <1>4, Step, Facts DEF Without

\* memp_free: the slot is nobody's again at its last store.
LEMMA PushInv ==
  ASSUME UdpInv, NEW s \in Sockets, PushLoad(s) \/ PushNext(s) \/ PushStore(s)
  PROVE UdpInv'
<1>a. s \in Tasks /\ task[s] \in TaskType /\ UNCHANGED <<udp_pcbs, next, pcb>>
  BY Facts DEF PushLoad, PushNext, PushStore, shared
<1>1. CASE PushLoad(s)
  <2> DEFINE to == [task[s] EXCEPT !.pc = "push", !.reg = tab]
  <2>1. Goes(s, "removed", to) /\ task[s].pc = "removed" /\ UNCHANGED <<tab, memp>>
    BY <1>1 DEF PushLoad, Goes, shared
  <2>2. /\ task[s].pcb # Null /\ to \in TaskType /\ to.pc = "push" /\ to.pcb = task[s].pcb
        /\ to.reg = tab
    <3>1. task[s].pcb # Null /\ tab \in Pcbs \cup {Null}
      BY <1>a, <2>1, Facts DEF Without
    <3> QED BY <1>a, <3>1, TypeSets
  <2> HIDE DEF to
  <2>3. task'[s] = to
    BY <1>a, <2>1, <2>2, Goers
  <2>4. ASSUME Moves(s) PROVE Distinct' /\ Ports' /\ Calls' /\ ListInv' /\ PoolInv'
    <3>1. Distinct'
      BY <2>2, <2>3, <2>4, DistinctKept
    <3>2. Ports' /\ Calls'
      BY <1>a, <2>1, <2>2, <2>3, <2>4, SlotsStill DEF Ported
    <3>3. ListInv'
      BY <1>a, <2>1, <2>2, <2>3, <2>4, ListStill DEF Linked
    <3>4. PoolInv'
      BY <2>1, <2>2, <2>3, <2>4, PoolKept DEF PoolRegs
    <3> QED BY <3>1, <3>2, <3>3, <3>4
  <2> QED BY <1>a, <2>1, <2>2, <2>4, Step, Facts DEF Without
<1>2. CASE PushNext(s)
  <2> DEFINE to == At(s, "pushed")
             q == task[s].pcb
  <2>1. /\ Goes(s, "push", to) /\ task[s].pc = "push" /\ tab' = tab
        /\ memp' = [memp EXCEPT ![q] = task[s].reg]
    BY <1>2 DEF PushNext, Goes
  <2>2. /\ q \in Pcbs /\ q # Null /\ task[s].reg \in Pcbs \cup {Null}
        /\ to \in TaskType /\ to.pc = "pushed" /\ to.pcb = q
    BY <1>a, <2>1, Facts, AtFacts, TypeSets DEF UdpInv, RegInv, Without, TaskType
  <2> HIDE DEF to
  <2>3. task'[s] = to /\ memp' \in Links /\ memp'[q] = task[s].reg
        /\ \A r \in Pcbs : r # q => memp'[r] = memp[r]
    BY <1>a, <2>1, <2>2, Goers, Facts DEF Links
  <2>4. ASSUME Moves(s) PROVE Distinct' /\ Ports' /\ Calls' /\ ListInv' /\ PoolInv'
    <3>1. Distinct'
      BY <2>2, <2>3, <2>4, DistinctKept
    <3>2. Ports' /\ Calls'
      BY <1>a, <2>1, <2>2, <2>3, <2>4, SlotsStill DEF Ported
    <3>3. ListInv'
      BY <1>a, <2>1, <2>2, <2>3, <2>4, ListStill DEF Linked
    <3>4. q \notin Vacant /\ Vacant \subseteq Pcbs /\ task[s].reg = tab
      BY <2>1, <2>2, <2>4, Vacating, Moving DEF PoolInv, PoolRegs
    <3>5. PoolInv'
      BY <2>1, <2>2, <2>3, <2>4, <3>4, PoolKept DEF PoolRegs
    <3> QED BY <3>1, <3>2, <3>3, <3>5
  <2> QED BY <1>a, <2>1, <2>2, <2>3, <2>4, Step, Facts DEF Without
<1>3. CASE PushStore(s)
  <2> DEFINE to == [Idle EXCEPT !.pc = "freed"]
             q == task[s].pcb
  <2>1. /\ Goes(s, "pushed", to) /\ task[s].pc = "pushed" /\ tab' = q /\ UNCHANGED memp
    BY <1>3 DEF PushStore, Goes
  <2>2. /\ q \in Pcbs /\ q # Null /\ to \in TaskType /\ to.pc = "freed" /\ to.pcb = Null
    BY <1>a, <2>1, Facts, TypeSets DEF UdpInv, RegInv, Without, Idle
  <2> HIDE DEF to
  <2>3. task'[s] = to
    BY <1>a, <2>1, <2>2, Goers
  <2>4. ASSUME Moves(s) PROVE Distinct' /\ Ports' /\ Calls' /\ ListInv' /\ PoolInv'
    <3>1. Distinct'
      BY <2>2, <2>3, <2>4, DistinctKept
    <3>2. Ports' /\ Calls'
      BY <1>a, <2>1, <2>2, <2>3, <2>4, SlotsStill DEF Ported
    <3>3. ListInv'
      BY <1>a, <2>1, <2>2, <2>3, <2>4, ListStill DEF Linked
    <3>4. q \notin Vacant /\ memp[q] = tab /\ Vacant' = Vacant \cup {q}
      BY <2>1, <2>2, <2>3, <2>4, Vacating, Moving DEF PoolInv, PoolRegs
    <3>5. PICK n \in Nat : \E c \in [1 .. n -> Pcbs] : IsChain(n, c, tab, memp) /\ Range(c) = Vacant
      BY <2>4, Moving DEF PoolInv, Chained
    <3>6. PICK c \in [1 .. n -> Pcbs] : IsChain(n, c, tab, memp) /\ Range(c) = Vacant
      BY <3>5
    <3>7. Chained(Vacant', tab', memp')
      <4>1. q \notin Range(c) /\ memp[q] = tab /\ memp \in Links
        BY <3>4, <3>6, Facts
      <4>2. Chained(Range(c) \cup {q}, q, memp)
        BY <2>2, <3>6, <4>1, ChainPush
      <4> QED BY <2>1, <3>4, <3>6, <4>2
    <3>8. \A r \in Sockets : PoolRegs(task[r])'
      BY <2>2, <2>3, <2>4, Moving DEF PoolRegs
    <3>9. PoolInv'
      BY <3>7, <3>8 DEF PoolInv
    <3> QED BY <3>1, <3>2, <3>3, <3>9
  <2> QED BY <1>a, <2>1, <2>2, <2>4, Step, Facts DEF Without
<1> QED BY <1>1, <1>2, <1>3

\* The memset of the new slot, which is neither listed nor free.
LEMMA ZeroInv == ASSUME UdpInv, NEW s \in Sockets, Zero(s) PROVE UdpInv'
<1> DEFINE to == At(s, "made")
           q == task[s].pcb
<1>a. /\ s \in Tasks /\ task[s] \in TaskType /\ Goes(s, "raw", to) /\ task[s].pc = "raw"
      /\ UNCHANGED <<udp_pcbs, tab>>
      /\ pcb' = [pcb EXCEPT ![q] = [recv |-> FALSE, arg |-> Null, port |-> FALSE]]
      /\ next' = [next EXCEPT ![q] = Null] /\ memp' = [memp EXCEPT ![q] = Null]
  BY Facts DEF Zero, Goes
<1>1. q \in Pcbs /\ q # Null /\ to \in TaskType /\ to.pc = "made" /\ to.pcb = q
  <2>1. "made" \in Pcs
    BY TypeSets
  <2>2. q \in Pcbs /\ q # Null
    BY <1>a, Facts DEF Without
  <2> QED BY <1>a, <2>1, <2>2, AtFacts
<1> HIDE DEF to
<1>2. /\ task'[s] = to /\ next' \in Links /\ memp' \in Links /\ pcb' \in [Pcbs -> SlotType]
      /\ ~pcb'[q].recv
      /\ \A r \in Pcbs : r # q => next'[r] = next[r] /\ memp'[r] = memp[r] /\ pcb'[r] = pcb[r]
  BY <1>a, <1>1, Goers, Facts, TypeSets DEF Links
<1>3. ASSUME Moves(s) PROVE Distinct' /\ Ports' /\ Calls' /\ ListInv' /\ PoolInv'
  <2>1. Distinct'
    BY <1>1, <1>2, <1>3, DistinctKept
  <2>2. q \notin Listed /\ q \notin Vacant /\ Listed \subseteq Pcbs /\ Vacant \subseteq Pcbs
    BY <1>a, <1>1, <1>3, Listing, Vacating, Moving DEF Linked
  <2>3. Calls'
    BY <1>a, <1>1, <1>2, <1>3, CallsKept
  <2>4. Listed' = Listed
    BY <1>a, <1>1, <1>2, <1>3, Listing DEF Linked
  <2>5. ListInv'
    BY <1>a, <1>1, <1>2, <1>3, <2>2, <2>4, ListKept DEF ListRegs
  <2>6. PoolInv'
    BY <1>a, <1>1, <1>2, <1>3, <2>2, PoolKept DEF PoolRegs
  <2>7. Ports'
    <3>1. /\ Ports /\ Distinct /\ \A r \in Sockets : r # s => task'[r] = task[r]
          /\ \A r \in Sockets : half[r] \in Pcbs \cup {Null} /\ half'[r] = half[r]
      BY <1>3, Moving, Facts DEF Moves
    <3>2. ASSUME NEW r \in Sockets, task'[r].pc \in Ported PROVE pcb'[task'[r].pcb].port
      <4>1. r # s /\ task'[r] = task[r] /\ task[r].pcb \in Pcbs
        BY <1>1, <1>2, <3>1, <3>2, Facts DEF Ported, Without
      <4>2. task[r].pcb # q /\ pcb[task[r].pcb].port
        BY <1>1, <3>1, <3>2, <4>1 DEF Distinct, Ports, Ported
      <4> QED BY <1>2, <4>1, <4>2
    <3>3. ASSUME NEW r \in Sockets, half[r] # Null
          PROVE \/ pcb'[half[r]].port
                \/ \E u \in Sockets : task'[u].pcb = half[r] /\ task'[u].pc \in {"made", "search"}
      <4>1. CASE half[r] = q
        BY <1>1, <1>2, <4>1
      <4>2. CASE half[r] # q /\ pcb[half[r]].port
        BY <1>2, <3>1, <3>3, <4>2
      <4>3. CASE half[r] # q /\ ~pcb[half[r]].port
        <5>1. PICK u \in Sockets : task[u].pcb = half[r] /\ task[u].pc \in {"made", "search"}
          BY <3>1, <3>3, <4>3 DEF Ports, Owns
        <5> QED BY <3>1, <4>3, <5>1
      <4> QED BY <4>1, <4>2, <4>3
    <3> QED BY <3>1, <3>2, <3>3 DEF Ports, Ported, Owns
  <2> QED BY <2>1, <2>3, <2>5, <2>6, <2>7
<1> QED BY <1>a, <1>1, <1>2, <1>3, Step, Facts DEF Without

-------------------------------------------------------------------------------
(* udp_bind. *)

\* send_to does not bind unless it may overlap.
LEMMA NotSender ==
  ASSUME UdpInv, overlap \subseteq {"input"}, NEW t \in Tasks, task[t].pc # "none"
  PROVE t \in Sockets
BY DEF UdpInv, SaneInv, OneWriter, Idle, Tasks

\* The walk stays in the list.
LEMMA SearchInv == ASSUME UdpInv, NEW t \in Tasks, BindStart(t) \/ BindWalk(t) PROVE UdpInv'
<1>1. PICK x \in Pcbs \cup {Null} :
        LET to == [task[t] EXCEPT !.pc = "search", !.at = x]
        IN /\ \/ Goes(t, "made", to) /\ task[t].pc = "made" /\ x = udp_pcbs
              \/ /\ Goes(t, "search", to) /\ task[t].pc = "search"
                 /\ task[t].at \in Pcbs /\ x = next[task[t].at]
           /\ UNCHANGED <<udp_pcbs, next, pcb, tab, memp>>
  <2>1. CASE BindStart(t)
    BY <2>1, Facts DEF BindStart, Goes, shared
  <2>2. CASE BindWalk(t)
    <3>1. task[t].pc = "search" /\ task[t].at \in Pcbs /\ task[t] \in TaskType
      BY <2>2, Facts DEF BindWalk, Goes, TaskType
    <3>2. [task[t] EXCEPT !.at = next[task[t].at]]
            = [task[t] EXCEPT !.pc = "search", !.at = next[task[t].at]]
      BY <3>1 DEF TaskType
    <3>3. next[task[t].at] \in Pcbs \cup {Null}
      BY <3>1, Facts DEF Links
    <3> QED BY <2>2, <3>1, <3>2, <3>3 DEF BindWalk, shared
  <2> QED BY <2>1, <2>2
<1> DEFINE to == [task[t] EXCEPT !.pc = "search", !.at = x]
<1>2. Goes(t, task[t].pc, to) /\ task[t].pc \in {"made", "search"}
  BY <1>1
<1>3. /\ task[t].pcb # Null /\ to \in TaskType /\ to.pc = "search" /\ to.pcb = task[t].pcb
      /\ to.at = x
  <2>1. task[t].pcb # Null /\ task[t] \in TaskType
    BY <1>2, Facts DEF Without
  <2> QED BY <2>1, TypeSets
<1> HIDE DEF to
<1>4. task'[t] = to
  BY <1>2, <1>3, Goers
<1>5. ASSUME Moves(t) PROVE Distinct' /\ Ports' /\ Calls' /\ ListInv' /\ PoolInv'
  <2>0. t \in Sockets
    BY <1>2, <1>5, NotSender DEF Moves
  <2>1. Distinct'
    BY <1>3, <1>4, <1>5, <2>0, DistinctKept
  <2>2. Ports' /\ Calls'
    BY <1>1, <1>2, <1>3, <1>4, <1>5, <2>0, SlotsStill DEF Ported
  <2>3. Listed' = Listed
    BY <1>2, <1>3, <1>4, <1>5, <2>0, Listing DEF Linked
  <2>4. ASSUME NEW n \in Nat, NEW c \in [1 .. n -> Pcbs], IsChain(n, c, udp_pcbs, next),
               ListRegs(task[t], c)
        PROVE ListRegs(task[t], c)'
    <3>1. next \in Links
      BY Facts
    <3>2. /\ udp_pcbs \in Range(c) \cup {Null}
          /\ \A i \in 1 .. n : next[c[i]] \in Range(c) \cup {Null}
          /\ \A q \in Range(c) : \E i \in 1 .. n : c[i] = q
      BY <2>4, <3>1, ChainFacts
    <3>3. x \in Range(c) \cup {Null}
      <4>1. CASE x = udp_pcbs
        BY <3>2, <4>1
      <4>2. CASE task[t].pc = "search" /\ task[t].at \in Pcbs /\ x = next[task[t].at]
        <5>1. task[t].at \in Range(c)
          BY <2>4, <4>2, Facts DEF ListRegs
        <5> QED BY <3>2, <4>2, <5>1
      <4> QED BY <1>1, <4>1, <4>2
    <3> QED BY <1>3, <1>4, <3>3 DEF ListRegs
  <2>5. ListInv'
    BY <1>1, <1>5, <2>0, <2>3, <2>4, ListKept
  <2>6. PoolInv'
    BY <1>1, <1>3, <1>4, <1>5, <2>0, PoolStill
  <2> QED BY <2>1, <2>2, <2>5, <2>6
<1>6. overlap \subseteq {"input"} => t \in Sockets
  BY <1>2, NotSender
<1> QED BY <1>1, <1>2, <1>3, <1>5, <1>6, Step, Facts DEF Without

\* After a walk that only udp_input overlaps the pcb has not been found.
LEMMA BindPortInv == ASSUME UdpInv, NEW t \in Tasks, BindPort(t) PROVE UdpInv'
<1> DEFINE q == task[t].pcb
           to == IF task[t].at # q THEN At(t, "link")
                 ELSE IF t = Sender THEN Idle ELSE At(t, "bound")
<1>a. /\ Goes(t, "search", to) /\ task[t].pc = "search" /\ task[t].at \in {Null, q}
      /\ pcb' = [pcb EXCEPT ![q].port = TRUE]
      /\ memp' = IF t = Sender THEN memp ELSE [memp EXCEPT ![q] = Null]
      /\ UNCHANGED <<udp_pcbs, next, tab>>
  BY DEF BindPort, Goes
<1>1. q \in Pcbs /\ q # Null
  BY <1>a, Facts DEF Without
<1>2. /\ to \in TaskType /\ to.pc \in {"none", "link", "bound"}
      /\ to.pc \in {"link", "bound"} => to.pcb = q
      /\ to.pc = "none" => to.pcb = Null
      /\ task[t].at # q => to.pc = "link"
  <2>1. "link" \in Pcs /\ "bound" \in Pcs /\ Idle \in TaskType /\ Idle.pc = "none" /\ Idle.pcb = Null
    BY TypeSets DEF Idle
  <2> QED BY <2>1, AtFacts
<1> HIDE DEF to
<1>3. /\ task'[t] = to /\ memp' \in Links /\ pcb' \in [Pcbs -> SlotType]
      /\ pcb'[q].port /\ pcb'[q].recv = pcb[q].recv
      /\ \A r \in Pcbs : pcb'[r].arg = pcb[r].arg
      /\ \A r \in Pcbs : r # q => memp'[r] = memp[r] /\ pcb'[r] = pcb[r]
  <2>1. task'[t] = to
    BY <1>a, <1>2, Goers
  <2>2. memp' \in Links /\ \A r \in Pcbs : r # q => memp'[r] = memp[r]
    BY <1>a, <1>1, Facts DEF Links
  <2>3. pcb \in [Pcbs -> SlotType]
    BY Facts
  <2>4. /\ pcb' \in [Pcbs -> SlotType] /\ pcb'[q] = [pcb[q] EXCEPT !.port = TRUE]
        /\ \A r \in Pcbs : r # q => pcb'[r] = pcb[r]
    BY <1>a, <1>1, <2>3, TypeSets
  <2>5. pcb'[q].port /\ pcb'[q].recv = pcb[q].recv /\ pcb'[q].arg = pcb[q].arg
    BY <1>1, <2>3, <2>4, TypeSets
  <2> QED BY <2>1, <2>2, <2>4, <2>5
<1>4. ASSUME Moves(t) PROVE Distinct' /\ Ports' /\ Calls' /\ ListInv' /\ PoolInv'
  <2>0. t \in Sockets
    BY <1>a, <1>4, NotSender DEF Moves
  <2>1. q \notin Listed /\ q \notin Vacant /\ Listed \subseteq Pcbs /\ Vacant \subseteq Pcbs
    BY <1>a, <1>1, <1>4, <2>0, Listing, Vacating, Moving DEF Linked
  <2>2. task[t].at # q
    <3>1. PICK n \in Nat : \E c \in [1 .. n -> Pcbs] : Range(c) = Listed /\ ListRegs(task[t], c)
      BY <1>4, <2>0, Moving DEF ListInv
    <3> QED BY <1>a, <1>1, <2>1, <3>1 DEF ListRegs
  <2>3. to.pc = "link" /\ to.pcb = q
    BY <1>2, <2>2
  <2>4. Distinct'
    BY <1>3, <1>4, <2>0, <2>3, DistinctKept
  <2>5. Ports'
    BY <1>1, <1>3, <1>4, <2>0, <2>3, PortsKept
  <2>6. Calls'
    BY <1>a, <1>3, <1>4, <2>0, <2>3, CallsKept
  <2>7. Listed' = Listed
    BY <1>a, <1>3, <1>4, <2>0, <2>3, Listing DEF Linked
  <2>8. ListInv'
    BY <1>a, <1>3, <1>4, <2>0, <2>3, <2>7, ListKept DEF ListRegs
  <2>9. PoolInv'
    BY <1>a, <1>3, <1>4, <2>0, <2>1, <2>3, PoolKept DEF PoolRegs
  <2> QED BY <2>4, <2>5, <2>6, <2>8, <2>9
<1>5. overlap \subseteq {"input"} => t \in Sockets
  BY <1>a, NotSender
<1>6. to.pcb = Null <=> to.pc \in Without
  BY <1>1, <1>2 DEF Without
<1> QED BY <1>a, <1>2, <1>3, <1>4, <1>5, <1>6, Step, Facts

\* pcb->next = udp_pcbs,
LEMMA LinkNextInv == ASSUME UdpInv, NEW t \in Tasks, LinkLoad(t) \/ LinkNext(t) PROVE UdpInv'
<1>1. CASE LinkLoad(t)
  <2> DEFINE to == [task[t] EXCEPT !.pc = "linking", !.reg = udp_pcbs]
  <2>1. Goes(t, "link", to) /\ task[t].pc = "link" /\ UNCHANGED <<udp_pcbs, next, pcb, tab, memp>>
    BY <1>1 DEF LinkLoad, Goes, shared
  <2>2. /\ task[t].pcb # Null /\ to \in TaskType /\ to.pc = "linking" /\ to.pcb = task[t].pcb
        /\ to.reg = udp_pcbs
    <3>1. task[t].pcb # Null /\ task[t] \in TaskType /\ udp_pcbs \in Pcbs \cup {Null}
      BY <2>1, Facts DEF Without
    <3> QED BY <3>1, TypeSets
  <2> HIDE DEF to
  <2>3. task'[t] = to
    BY <2>1, <2>2, Goers
  <2>4. ASSUME Moves(t) PROVE Distinct' /\ Ports' /\ Calls' /\ ListInv' /\ PoolInv'
    <3>0. t \in Sockets
      BY <2>1, <2>4, NotSender DEF Moves
    <3>1. Distinct'
      BY <2>2, <2>3, <2>4, <3>0, DistinctKept
    <3>2. Ports' /\ Calls'
      BY <2>1, <2>2, <2>3, <2>4, <3>0, SlotsStill DEF Ported
    <3>3. Listed' = Listed
      BY <2>1, <2>2, <2>3, <2>4, <3>0, Listing DEF Linked
    <3>4. ListInv'
      BY <2>1, <2>2, <2>3, <2>4, <3>0, <3>3, ListKept DEF ListRegs
    <3>5. PoolInv'
      BY <2>1, <2>2, <2>3, <2>4, <3>0, PoolStill
    <3> QED BY <3>1, <3>2, <3>4, <3>5
  <2>5. overlap \subseteq {"input"} => t \in Sockets
    BY <2>1, NotSender
  <2> QED BY <2>1, <2>2, <2>4, <2>5, Step, Facts DEF Without
<1>2. CASE LinkNext(t)
  <2> DEFINE to == At(t, "linked")
             q == task[t].pcb
  <2>1. /\ Goes(t, "linking", to) /\ task[t].pc = "linking" /\ UNCHANGED <<udp_pcbs, pcb, tab, memp>>
        /\ next' = [next EXCEPT ![q] = task[t].reg]
    BY <1>2 DEF LinkNext, Goes
  <2>2. /\ q \in Pcbs /\ q # Null /\ task[t].reg \in Pcbs \cup {Null}
        /\ to \in TaskType /\ to.pc = "linked" /\ to.pcb = q
    <3>1. q \in Pcbs /\ q # Null /\ task[t].reg \in Pcbs \cup {Null}
      BY <2>1, Facts DEF Without, TaskType
    <3>2. "linked" \in Pcs
      BY TypeSets
    <3> QED BY <3>1, <3>2, AtFacts
  <2> HIDE DEF to
  <2>3. /\ task'[t] = to /\ next' \in Links /\ next'[q] = task[t].reg
        /\ \A r \in Pcbs : r # q => next'[r] = next[r]
    BY <2>1, <2>2, Goers, Facts DEF Links
  <2>4. ASSUME Moves(t) PROVE Distinct' /\ Ports' /\ Calls' /\ ListInv' /\ PoolInv'
    <3>0. t \in Sockets
      BY <2>1, <2>4, NotSender DEF Moves
    <3>1. Distinct'
      BY <2>2, <2>3, <2>4, <3>0, DistinctKept
    <3>2. Ports' /\ Calls'
      BY <2>1, <2>2, <2>3, <2>4, <3>0, SlotsStill DEF Ported
    <3>3. Listed' = Listed /\ q \notin Listed /\ Listed \subseteq Pcbs
      BY <2>1, <2>2, <2>3, <2>4, <3>0, Listing, Moving DEF Linked
    <3>4. task[t].reg = udp_pcbs
      BY <2>1, <2>4, <3>0, Moving DEF ListInv, ListRegs
    <3>5. ListInv'
      BY <2>1, <2>2, <2>3, <2>4, <3>0, <3>3, <3>4, ListKept DEF ListRegs
    <3>6. PoolInv'
      BY <2>1, <2>2, <2>3, <2>4, <3>0, PoolStill
    <3> QED BY <3>1, <3>2, <3>5, <3>6
  <2>5. overlap \subseteq {"input"} => t \in Sockets
    BY <2>1, NotSender
  <2> QED BY <2>1, <2>2, <2>3, <2>4, <2>5, Step, Facts DEF Without
<1> QED BY <1>1, <1>2

\* and udp_pcbs = pcb: the list has the pcb in front.
LEMMA LinkHeadInv == ASSUME UdpInv, NEW t \in Tasks, LinkHead(t) PROVE UdpInv'
<1> DEFINE q == task[t].pcb
           to == IF t = Sender THEN Idle ELSE At(t, "bound")
<1>a. /\ Goes(t, "linked", to) /\ task[t].pc = "linked" /\ udp_pcbs' = q
      /\ UNCHANGED <<next, pcb, tab, memp>>
  BY DEF LinkHead, Goes
<1>1. q \in Pcbs /\ q # Null
  BY <1>a, Facts DEF Without
<1>2. /\ to \in TaskType /\ to.pc \in {"none", "bound"} /\ (to.pcb = Null <=> to.pc = "none")
      /\ t # Sender => to.pc = "bound" /\ to.pcb = q
  <2>1. "bound" \in Pcs /\ Idle \in TaskType /\ Idle.pc = "none" /\ Idle.pcb = Null
    BY TypeSets DEF Idle
  <2> QED BY <1>1, <2>1, AtFacts
<1> HIDE DEF to
<1>3. task'[t] = to
  BY <1>a, <1>2, Goers
<1>4. ASSUME Moves(t) PROVE Distinct' /\ Ports' /\ Calls' /\ ListInv' /\ PoolInv'
  <2>0. t \in Sockets /\ to.pc = "bound" /\ to.pcb = q
    BY <1>a, <1>2, <1>4, NotSender, Facts DEF Moves
  <2>1. Distinct'
    BY <1>3, <1>4, <2>0, DistinctKept
  <2>2. Ports' /\ Calls'
    BY <1>a, <1>3, <1>4, <2>0, SlotsStill DEF Ported
  <2>3. Listed' = Listed \cup {q} /\ q \notin Listed
    BY <1>a, <1>1, <1>3, <1>4, <2>0, Listing DEF Linked
  <2>4. PICK n \in Nat : \E c \in [1 .. n -> Pcbs] :
          IsChain(n, c, udp_pcbs, next) /\ Range(c) = Listed /\ ListRegs(task[t], c)
    BY <1>4, <2>0, Moving DEF ListInv
  <2>5. PICK c \in [1 .. n -> Pcbs] :
          IsChain(n, c, udp_pcbs, next) /\ Range(c) = Listed /\ ListRegs(task[t], c)
    BY <2>4
  <2>6. Chained(Range(c) \cup {q}, q, next)
    <3>1. next[q] = udp_pcbs /\ q \notin Range(c) /\ next \in Links
      BY <1>a, <2>3, <2>5, Facts DEF ListRegs
    <3> QED BY <1>1, <2>5, <3>1, ChainPush
  <2>7. PICK m \in Nat : \E d \in [1 .. m -> Pcbs] : IsChain(m, d, q, next) /\ Range(d) = Listed'
    BY <2>3, <2>5, <2>6 DEF Chained
  <2>8. \A d : \A r \in Sockets : ListRegs(task[r], d)'
    BY <1>3, <1>4, <2>0, Moving DEF ListRegs
  <2>9. ListInv'
    BY <1>a, <2>7, <2>8 DEF ListInv
  <2>10. PoolInv'
    BY <1>a, <1>3, <1>4, <2>0, PoolStill
  <2> QED BY <2>1, <2>2, <2>9, <2>10
<1>5. overlap \subseteq {"input"} => t \in Sockets
  BY <1>a, NotSender
<1> QED BY <1>a, <1>1, <1>2, <1>4, <1>5, Step, Facts DEF Without

-------------------------------------------------------------------------------
(* udp_recv, of new and of drop. *)

\* A store to the callback or to its argument.
LEMMA SlotStep ==
  ASSUME UdpInv, NEW s \in Sockets, NEW from \in {"bound", "heard", "open", "deaf"},
         NEW x \in {"heard", "open", "deaf", "detached"}, Goes(s, from, At(s, x)),
         NEW y \in SlotType, pcb' = [pcb EXCEPT ![task[s].pcb] = y],
         UNCHANGED <<udp_pcbs, next, tab, memp>>, y.port = pcb[task[s].pcb].port,
         x \in {"heard", "open"} => from \in {"bound", "heard"}, x = "open" => y.arg = s,
         y.recv => x \in {"heard", "open"} \/ (y.recv = pcb[task[s].pcb].recv /\ from = "deaf")
  PROVE UdpInv'
<1> DEFINE q == task[s].pcb
           to == At(s, x)
<1>a. s \in Tasks /\ task[s].pc = from
  BY Facts DEF Goes
<1>1. q \in Pcbs /\ q # Null
  BY <1>a, Facts DEF Without
<1>2. to \in TaskType /\ to.pc = x /\ to.pcb = q
  <2>1. x \in Pcs
    BY TypeSets
  <2> QED BY <1>a, <2>1, AtFacts
<1>3. Goes(s, from, to)
  OBVIOUS
<1> HIDE DEF to
<1>4. task'[s] = to
  BY <1>a, <1>2, <1>3, Goers
<1>5. pcb' \in [Pcbs -> SlotType] /\ pcb'[q] = y /\ \A r \in Pcbs : r # q => pcb'[r] = pcb[r]
  BY <1>1, Facts
<1>6. ASSUME Moves(s) PROVE Distinct' /\ Ports' /\ Calls' /\ ListInv' /\ PoolInv'
  <2>1. Distinct'
    BY <1>2, <1>4, <1>6, DistinctKept
  <2>2. Listed' = Listed
    BY <1>a, <1>2, <1>4, <1>6, Listing DEF Linked
  <2>3. ListInv'
    BY <1>a, <1>2, <1>4, <1>6, ListStill DEF Linked
  <2>4. PoolInv'
    BY <1>2, <1>4, <1>6, PoolStill
  <2>5. from \in {"bound", "heard"} => y.port
    BY <1>a, <1>6, Moving DEF Ports
  <2>6. Ports'
    BY <1>a, <1>2, <1>4, <1>5, <1>6, <2>5, PortsKept DEF Ported
  <2>7. y.recv => x \in {"heard", "open"}
    <3>1. ASSUME pcb[q].recv, from = "deaf" PROVE FALSE
      <4>1. PICK r \in Sockets : task[r].pcb = q /\ task[r].pc \in {"heard", "open"}
        BY <1>1, <1>6, <3>1, Moving DEF Calls, Owns
      <4>2. r = s
        BY <1>1, <1>6, <4>1, Moving DEF Distinct
      <4> QED BY <1>a, <3>1, <4>1, <4>2
    <3> QED BY <3>1
  <2>8. Calls'
    BY <1>a, <1>2, <1>4, <1>5, <1>6, <2>7, CallsKept
  <2> QED BY <2>1, <2>3, <2>4, <2>6, <2>8
<1> QED BY <1>a, <1>1, <1>2, <1>3, <1>5, <1>6, Step, Facts DEF Without

LEMMA RecvInv ==
  ASSUME UdpInv, NEW s \in Sockets, SetRecv(s) \/ SetArg(s) \/ ClearRecv(s) \/ ClearArg(s)
  PROVE UdpInv'
<1> DEFINE q == task[s].pcb
<1>0. pcb \in [Pcbs -> SlotType] /\ task[s].pc \in {"bound", "heard", "open", "deaf"}
  BY Facts DEF SetRecv, SetArg, ClearRecv, ClearArg, Goes
<1>1. q \in Pcbs /\ pcb[q] \in SlotType
  BY <1>0, Facts DEF Without
<1>2. CASE SetRecv(s)
  <2> DEFINE y == [pcb[q] EXCEPT !.recv = TRUE]
  <2>1. y \in SlotType /\ y.port = pcb[q].port
    BY <1>1, TypeSets
  <2>2. pcb' = [pcb EXCEPT ![q] = y]
    BY <1>2 DEF SetRecv
  <2> HIDE DEF y
  <2>3. Goes(s, "bound", At(s, "heard")) /\ UNCHANGED <<udp_pcbs, next, tab, memp>>
    BY <1>2 DEF SetRecv
  <2> QED BY <2>1, <2>2, <2>3, SlotStep
<1>3. CASE SetArg(s)
  <2> DEFINE y == [pcb[q] EXCEPT !.arg = s]
  <2>1. y \in SlotType /\ y.port = pcb[q].port /\ y.arg = s
    BY <1>1, TypeSets
  <2>2. pcb' = [pcb EXCEPT ![q] = y]
    BY <1>3 DEF SetArg
  <2> HIDE DEF y
  <2>3. Goes(s, "heard", At(s, "open")) /\ UNCHANGED <<udp_pcbs, next, tab, memp>>
    BY <1>3 DEF SetArg
  <2> QED BY <2>1, <2>2, <2>3, SlotStep
<1>4. CASE ClearRecv(s)
  <2> DEFINE y == [pcb[q] EXCEPT !.recv = FALSE]
  <2>1. y \in SlotType /\ y.port = pcb[q].port /\ ~y.recv
    BY <1>1, TypeSets
  <2>2. pcb' = [pcb EXCEPT ![q] = y]
    BY <1>4 DEF ClearRecv
  <2> HIDE DEF y
  <2>3. Goes(s, "open", At(s, "deaf")) /\ UNCHANGED <<udp_pcbs, next, tab, memp>>
    BY <1>4 DEF ClearRecv
  <2> QED BY <2>1, <2>2, <2>3, SlotStep
<1>5. CASE ClearArg(s)
  <2> DEFINE y == [pcb[q] EXCEPT !.arg = Null]
  <2>1. y \in SlotType /\ y.port = pcb[q].port /\ y.recv = pcb[q].recv
    BY <1>1, TypeSets
  <2>2. pcb' = [pcb EXCEPT ![q] = y]
    BY <1>5 DEF ClearArg
  <2> HIDE DEF y
  <2>3. Goes(s, "deaf", At(s, "detached")) /\ UNCHANGED <<udp_pcbs, next, tab, memp>>
    BY <1>5 DEF ClearArg
  <2> QED BY <2>1, <2>2, <2>3, SlotStep
<1> QED BY <1>2, <1>3, <1>4, <1>5

-------------------------------------------------------------------------------
(* udp_remove. *)

\* The test of the first pcb, and the walk after it: the pcb is at the place or
\* further on.
LEMMA SeekInv ==
  ASSUME UdpInv, NEW s \in Sockets, RemoveTest(s) \/ SeekNext(s) \/ SeekEnd(s) \/ UnlinkLoad(s)
  PROVE UdpInv'
<1> DEFINE q == task[s].pcb
           from == task[s].pc
<1>a. /\ s \in Tasks /\ UNCHANGED <<udp_pcbs, next, pcb, tab, memp>>
      /\ from \in {"detached", "seek", "found"} /\ task[s] \in TaskType
  BY Facts DEF RemoveTest, SeekNext, SeekEnd, UnlinkLoad, Goes, shared
<1>1. q \in Pcbs /\ q # Null
  BY <1>a, Facts DEF Without
<1>2. PICK to \in TaskType :
        /\ Goes(s, from, to) /\ to.pcb = q
        /\ \/ from = "detached" /\ udp_pcbs = q /\ to.pc = "found" /\ to.at = Null
           \/ from = "detached" /\ udp_pcbs # q /\ to.pc = "seek" /\ to.at = udp_pcbs
           \/ /\ from = "seek" /\ task[s].at \in Pcbs /\ next[task[s].at] = q
              /\ to.pc = "found" /\ to.at = task[s].at
           \/ /\ from = "seek" /\ task[s].at \in Pcbs /\ next[task[s].at] # q
              /\ to.pc = "seek" /\ to.at = next[task[s].at]
           \/ from = "seek" /\ task[s].at = Null /\ to.pc = "removed"
           \/ from = "found" /\ to.pc = "unlink" /\ to.at = task[s].at /\ to.reg = next[q]
  <2>1. CASE RemoveTest(s)
    <3> DEFINE to == IF udp_pcbs = q THEN At(s, "found")
                     ELSE [task[s] EXCEPT !.pc = "seek", !.at = udp_pcbs]
    <3>1. Goes(s, "detached", to) /\ from = "detached"
      BY <2>1 DEF RemoveTest, Goes
    <3>2. "found" \in Pcs
      BY TypeSets
    <3>3. /\ to \in TaskType /\ to.pcb = q
          /\ udp_pcbs = q => to.pc = "found" /\ to.at = Null
          /\ udp_pcbs # q => to.pc = "seek" /\ to.at = udp_pcbs
      <4>1. /\ At(s, "found") \in TaskType /\ At(s, "found").pcb = q
            /\ At(s, "found").pc = "found" /\ At(s, "found").at = Null
        BY <1>a, <3>2, AtFacts
      <4> DEFINE seek == [task[s] EXCEPT !.pc = "seek", !.at = udp_pcbs]
      <4>2. seek \in TaskType /\ seek.pcb = q /\ seek.pc = "seek" /\ seek.at = udp_pcbs
        BY <1>a, Facts, TypeSets
      <4>3. to = IF udp_pcbs = q THEN At(s, "found") ELSE seek
        OBVIOUS
      <4> HIDE DEF to, seek
      <4> QED BY <4>1, <4>2, <4>3
    <3> HIDE DEF to
    <3> QED BY <3>1, <3>3
  <2>2. CASE SeekNext(s)
    <3> DEFINE at == task[s].at
               to == IF next[at] = q THEN [task[s] EXCEPT !.pc = "found"]
                     ELSE [task[s] EXCEPT !.at = next[at]]
    <3>1. Goes(s, "seek", to) /\ from = "seek" /\ at # Null
      BY <2>2 DEF SeekNext, Goes
    <3>2. at \in Pcbs /\ next[at] \in Pcbs \cup {Null}
      BY <1>a, <3>1, Facts DEF TaskType, Links
    <3>3. /\ to \in TaskType /\ to.pcb = q
          /\ next[at] = q => to.pc = "found" /\ to.at = at
          /\ next[at] # q => to.pc = "seek" /\ to.at = next[at]
      BY <1>a, <3>1, <3>2, TypeSets
    <3> HIDE DEF to
    <3> QED BY <3>1, <3>2, <3>3
  <2>3. CASE SeekEnd(s)
    <3>1. "removed" \in Pcs
      BY TypeSets
    <3> QED BY <1>a, <2>3, <3>1, AtFacts DEF SeekEnd, Goes
  <2>4. CASE UnlinkLoad(s)
    <3> DEFINE to == [task[s] EXCEPT !.pc = "unlink", !.reg = next[q]]
    <3>1. Goes(s, "found", to) /\ from = "found"
      BY <2>4 DEF UnlinkLoad, Goes
    <3>2. next[q] \in Pcbs \cup {Null}
      BY <1>1, Facts DEF Links
    <3>3. to \in TaskType /\ to.pcb = q /\ to.pc = "unlink" /\ to.at = task[s].at /\ to.reg = next[q]
      BY <1>a, <3>2, TypeSets
    <3> HIDE DEF to
    <3> QED BY <3>1, <3>3
  <2> QED BY <2>1, <2>2, <2>3, <2>4
<1>3. task'[s] = to
  BY <1>a, <1>2, Goers
<1>4. ASSUME Moves(s) PROVE Distinct' /\ Ports' /\ Calls' /\ ListInv' /\ PoolInv'
  <2>1. Distinct'
    BY <1>2, <1>3, <1>4, DistinctKept
  <2>2. Ports' /\ Calls'
    BY <1>a, <1>2, <1>3, <1>4, SlotsStill DEF Ported
  <2>3. PoolInv'
    BY <1>a, <1>2, <1>3, <1>4, PoolStill
  <2>4. q \in Listed
    BY <1>a, <1>1, <1>4, Listing DEF Linked
  <2>5. from = "seek" => task[s].at # Null
    <3>1. PICK n \in Nat : \E c \in [1 .. n -> Pcbs] : ListRegs(task[s], c)
      BY <1>4, Moving DEF ListInv
    <3> QED BY <3>1, Facts DEF ListRegs
  <2>6. to.pc \in Linked
    BY <1>2, <2>5 DEF Linked
  <2>7. Listed' = Listed
    BY <1>a, <1>2, <1>3, <1>4, <2>6, Listing DEF Linked
  <2>8. ASSUME NEW n \in Nat, NEW c \in [1 .. n -> Pcbs],
               IsChain(n, c, udp_pcbs, next), Range(c) = Listed, ListRegs(task[s], c)
        PROVE ListRegs(task[s], c)'
    <3>0. next \in Links
      BY Facts
    <3>1. DOMAIN c = 1 .. n
      OBVIOUS
    <3>2. /\ \A r : r \in Range(c) <=> \E i \in 1 .. n : c[i] = r
          /\ n # 0 => udp_pcbs = c[1] /\ 1 \in 1 .. n
          /\ \A i \in 1 .. n : i = n => next[c[i]] = Null
          /\ \A i \in 1 .. n : i # n => i + 1 \in 1 .. n /\ next[c[i]] = c[i + 1]
      <4>1. IsChain(n, c, udp_pcbs, next)
        BY <2>8
      <4>2. \A r : r \in Range(c) <=> \E i \in 1 .. n : c[i] = r
        BY <3>0, <4>1, ChainFacts
      <4>3. n # 0 => udp_pcbs = c[1] /\ 1 \in 1 .. n
        BY <3>0, <4>1, ChainFacts
      <4>4. \A i \in 1 .. n : i = n => next[c[i]] = Null
        BY <3>0, <4>1, ChainFacts
      <4>5. \A i \in 1 .. n : i # n => i + 1 \in 1 .. n /\ next[c[i]] = c[i + 1]
        BY <3>0, <4>1, ChainFacts
      <4> QED BY <4>2, <4>3, <4>4, <4>5
    <3>3. PICK k \in 1 .. n : c[k] = q
      BY <2>4, <2>8, <3>2
    <3>4. udp_pcbs = c[1] /\ 1 \in 1 .. n
      BY <3>2
    <3>5. CASE from = "detached"
      <4>1. udp_pcbs # q => 1 < k
        BY <3>3, <3>4
      <4> QED BY <1>2, <1>3, <3>1, <3>3, <3>4, <3>5, <4>1, <1>a DEF ListRegs
    <3>6. CASE from = "seek"
      <4>1. PICK i, j \in 1 .. n : i < j /\ c[i] = task[s].at /\ c[j] = q
        BY <2>8, <3>1, <3>6 DEF ListRegs
      <4>2. i # n /\ i + 1 \in 1 .. n /\ next[c[i]] = c[i + 1]
        BY <3>2, <4>1
      <4>3. next[c[i]] # q => i + 1 < j
        <5>1. i + 1 = j \/ i + 1 < j
          BY <4>1
        <5> QED BY <4>1, <4>2, <5>1
      <4>4. task[s].at \in Range(c)
        BY <3>2, <4>1
      <4>5. task'[s].pcb = q /\ next' = next
        BY <1>a, <1>2, <1>3
      <4>6. CASE next[task[s].at] = q
        <5>1. task'[s].pc = "found" /\ task'[s].at = task[s].at /\ task[s].at # Null
          BY <1>2, <1>3, <2>5, <3>6, <4>6
        <5> QED BY <4>4, <4>5, <4>6, <5>1 DEF ListRegs
      <4>7. CASE next[task[s].at] # q
        <5>1. task'[s].pc = "seek" /\ task'[s].at = c[i + 1]
          BY <1>2, <1>3, <2>5, <3>6, <4>1, <4>2, <4>7
        <5>2. i + 1 < j /\ i + 1 \in DOMAIN c /\ j \in DOMAIN c
          BY <3>1, <4>1, <4>2, <4>3, <4>7
        <5> QED BY <4>1, <4>5, <5>1, <5>2 DEF ListRegs
      <4> QED BY <4>6, <4>7
    <3>7. CASE from = "found"
      BY <1>a, <1>2, <1>3, <2>8, <3>7 DEF ListRegs
    <3> QED BY <1>a, <3>5, <3>6, <3>7
  <2>9. ListInv'
    BY <1>a, <1>4, <2>7, <2>8, ListKept
  <2> QED BY <2>1, <2>2, <2>3, <2>9
<1>5. to.pcb # Null /\ to.pc \notin Without
  BY <1>1, <1>2 DEF Without
<1> QED BY <1>a, <1>2, <1>4, <1>5, Step, Facts DEF Without

\* The store to the pcb's predecessor, or to the first, takes it out of the list.
LEMMA UnlinkInv == ASSUME UdpInv, NEW s \in Sockets, UnlinkStore(s) PROVE UdpInv'
<1> DEFINE q == task[s].pcb
           p == task[s].at
           to == At(s, "removed")
<1>a. /\ s \in Tasks /\ Goes(s, "unlink", to) /\ task[s].pc = "unlink"
      /\ IF p = Null THEN udp_pcbs' = task[s].reg /\ next' = next
                     ELSE next' = [next EXCEPT ![p] = task[s].reg] /\ udp_pcbs' = udp_pcbs
      /\ UNCHANGED <<pcb, tab, memp>>
  BY Facts DEF UnlinkStore, Goes
<1>1. /\ q \in Pcbs /\ q # Null /\ task[s].reg \in Pcbs \cup {Null} /\ p \in Pcbs \cup {Null}
      /\ to \in TaskType /\ to.pc = "removed" /\ to.pcb = q
  <2>1. q \in Pcbs /\ q # Null /\ task[s].reg \in Pcbs \cup {Null} /\ p \in Pcbs \cup {Null}
    BY <1>a, Facts DEF Without, TaskType
  <2>2. "removed" \in Pcs
    BY TypeSets
  <2> QED BY <1>a, <2>1, <2>2, AtFacts
<1> HIDE DEF to
<1>2. task'[s] = to
  BY <1>a, <1>1, Goers
<1>3. udp_pcbs' \in Pcbs \cup {Null} /\ next' \in Links
  BY <1>a, <1>1, Facts DEF Links
<1>4. ASSUME Moves(s) PROVE Distinct' /\ Ports' /\ Calls' /\ ListInv' /\ PoolInv'
  <2>1. Distinct'
    BY <1>1, <1>2, <1>4, DistinctKept
  <2>2. Ports' /\ Calls'
    BY <1>a, <1>1, <1>2, <1>4, SlotsStill DEF Ported
  <2>3. PoolInv'
    BY <1>a, <1>1, <1>2, <1>4, PoolStill
  <2>4. q \in Listed /\ Listed' = Listed \ {q}
    BY <1>a, <1>1, <1>2, <1>4, Listing DEF Linked
  <2>5. PICK n \in Nat : \E c \in [1 .. n -> Pcbs] :
          IsChain(n, c, udp_pcbs, next) /\ Range(c) = Listed /\ ListRegs(task[s], c)
    BY <1>4, Moving DEF ListInv
  <2>6. PICK c \in [1 .. n -> Pcbs] :
          IsChain(n, c, udp_pcbs, next) /\ Range(c) = Listed /\ ListRegs(task[s], c)
    BY <2>5
  <2>7. /\ \A r : r \in Range(c) <=> \E i \in 1 .. n : c[i] = r
        /\ \A i, j \in 1 .. n : c[i] = c[j] => i = j
        /\ n # 0 => udp_pcbs = c[1] /\ 1 \in 1 .. n
        /\ \A i \in 1 .. n : i = n => next[c[i]] = Null
        /\ \A i \in 1 .. n : i # n => i + 1 \in 1 .. n /\ next[c[i]] = c[i + 1]
    <3>1. next \in Links
      BY Facts
    <3>2. IsChain(n, c, udp_pcbs, next)
      BY <2>6
    <3>3. /\ \A r : r \in Range(c) <=> \E i \in 1 .. n : c[i] = r
          /\ \A i, j \in 1 .. n : c[i] = c[j] => i = j
      BY <3>1, <3>2, ChainFacts
    <3>4. n # 0 => udp_pcbs = c[1] /\ 1 \in 1 .. n
      BY <3>1, <3>2, ChainFacts
    <3>5. \A i \in 1 .. n : i = n => next[c[i]] = Null
      BY <3>1, <3>2, ChainFacts
    <3>6. \A i \in 1 .. n : i # n => i + 1 \in 1 .. n /\ next[c[i]] = c[i + 1]
      BY <3>1, <3>2, ChainFacts
    <3> QED BY <3>3, <3>4, <3>5, <3>6
  <2>8. PICK k \in 1 .. n : c[k] = q
    BY <2>4, <2>6, <2>7
  <2>9. /\ task[s].reg = next[q]
        /\ IF p = Null THEN udp_pcbs = q ELSE p \in Range(c) /\ next[p] = q
    BY <1>a, <2>6 DEF ListRegs
  <2>10. Cuts(c, k, udp_pcbs, next, udp_pcbs', next')
    <3>1. CASE p = Null
      <4>1. k = 1
        BY <2>7, <2>8, <2>9, <3>1
      <4> QED BY <1>a, <2>8, <2>9, <3>1, <4>1 DEF Cuts
    <3>2. CASE p # Null
      <4>1. PICK i \in 1 .. n : c[i] = p
        BY <2>7, <2>9, <3>2
      <4>2. i # n /\ c[i + 1] = q /\ i + 1 \in 1 .. n
        BY <1>1, <2>7, <2>9, <3>2, <4>1
      <4>3. i + 1 = k
        BY <2>7, <2>8, <4>2
      <4>4. k # 1 /\ i = k - 1
        BY <4>3
      <4> QED BY <1>a, <2>8, <2>9, <3>2, <4>1, <4>4 DEF Cuts
    <3> QED BY <3>1, <3>2
  <2>11. Chained(Range(c) \ {c[k]}, udp_pcbs', next')
    <3>1. next \in Links /\ next' \in Links
      BY <1>3, Facts
    <3> QED BY <2>6, <2>8, <2>10, <3>1, ChainCut
  <2>12. PICK m \in Nat : \E d \in [1 .. m -> Pcbs] :
           IsChain(m, d, udp_pcbs', next') /\ Range(d) = Listed'
    BY <2>4, <2>6, <2>8, <2>11 DEF Chained
  <2>13. \A d : \A r \in Sockets : ListRegs(task[r], d)'
    BY <1>1, <1>2, <1>4, Moving DEF ListRegs
  <2>14. ListInv'
    BY <2>12, <2>13 DEF ListInv
  <2> QED BY <2>1, <2>2, <2>3, <2>14
<1> QED BY <1>a, <1>1, <1>3, <1>4, Step, Facts DEF Without

\* The box goes, with what its channel still has.
LEMMA FreeInv == ASSUME UdpInv, NEW s \in Sockets, FreeBox(s) PROVE UdpInv'
<1>a. /\ s \in Tasks /\ task[s].pc = "freed" /\ Alone(s) /\ task' = [task EXCEPT ![s] = Idle]
      /\ rx' = [rx EXCEPT ![s] = 0] /\ UNCHANGED <<overlap, half, input, pbufs>>
      /\ UNCHANGED <<udp_pcbs, next, pcb, tab, memp>>
  BY Facts DEF FreeBox, shared
<1>1. /\ Idle \in TaskType /\ Idle.pc = "none" /\ Idle.pcb = Null /\ task[s].pcb = Null
  BY <1>a, TypeSets DEF UdpInv, RegInv, Without, Idle
<1>2. /\ task' \in [Tasks -> TaskType] /\ task'[s] = Idle
      /\ \A u \in Tasks : u # s => task'[u] = task[u]
      /\ rx' \in [Sockets -> 0 .. QueueLen]
  BY <1>a, <1>1, Facts, UdpAssumption
<1>3. TypeOK'
  BY <1>a, <1>2, TypeSets DEF UdpInv, TypeOK
<1>4. RegInv' /\ InputInv'
  BY <1>a, <1>1, <1>2 DEF UdpInv, RegInv, InputInv, Without
<1>5. ASSUME overlap \subseteq {"input"} PROVE SaneInv'
  <2>1. Moves(s)
    BY <1>a, <1>2, <1>5 DEF Moves, Alone
  <2>2. Distinct'
    BY <1>1, <1>2, <2>1, DistinctKept
  <2>3. Ports' /\ Calls'
    BY <1>a, <1>1, <1>2, <2>1, SlotsStill DEF Ported
  <2>4. ListInv'
    BY <1>a, <1>1, <1>2, <2>1, ListStill DEF Linked
  <2>5. PoolInv'
    BY <1>a, <1>1, <1>2, <2>1, PoolStill
  <2>6. OneWriter'
    BY <1>1, <1>2, <1>5, <2>1, Facts DEF Moves, UdpInv, SaneInv, OneWriter, Busy
  <2> QED BY <2>2, <2>3, <2>4, <2>5, <2>6 DEF SaneInv
<1>6. ASSUME overlap = {} PROVE AloneInv'
  <2>1. input.pc = "out" /\ input' = input /\ pbufs' = pbufs
    BY <1>a, <1>6 DEF Alone
  <2> QED BY <1>6, <2>1 DEF UdpInv, AloneInv, InputInv
<1> QED BY <1>a, <1>3, <1>4, <1>5, <1>6 DEF UdpInv

-------------------------------------------------------------------------------
(* The socket's users, and udp_input: they leave the lists alone. *)

\* send_to binds only where it may overlap: a slot that is not bound is being given
\* to a new socket.
LEMMA SendInv == ASSUME UdpInv, NEW s \in Sockets, SendTo(s) PROVE UdpInv'
<1> DEFINE q == half[s]
           to == [Idle EXCEPT !.pc = "made", !.pcb = q]
<1>a. /\ q # Null /\ ~pcb[q].port /\ Goes(Sender, "none", to)
      /\ UNCHANGED <<udp_pcbs, next, pcb, tab, memp>>
  BY DEF SendTo, shared
<1>1. to \in TaskType /\ to.pc = "made" /\ to.pcb = q /\ q \in Pcbs
  BY <1>a, Facts, TypeSets DEF Idle
<1> HIDE DEF to
<1>2. ~(overlap \subseteq {"input"})
  <2> SUFFICES ASSUME overlap \subseteq {"input"} PROVE FALSE
    OBVIOUS
  <2>1. PICK r \in Sockets : task[r].pc \in {"made", "search"}
    BY <1>a DEF UdpInv, SaneInv, Ports
  <2>2. r \in Tasks /\ r # Sender /\ Busy(r)
    BY <2>1, Facts DEF Busy
  <2> QED BY <1>a, <2>2 DEF Goes, Alone
<1>3. Sender \in Tasks /\ ~Moves(Sender)
  BY <1>2, Facts DEF Moves
<1> QED BY <1>a, <1>1, <1>2, <1>3, Step, Facts DEF Without

\* The lists are those of the last state.
LEMMA SaneStill ==
  ASSUME UNCHANGED <<udp_pcbs, next, pcb, tab, memp, task>>, SaneInv, Ports'
  PROVE SaneInv'
<1>1. OneWriter' /\ Distinct' /\ Calls'
  BY DEF SaneInv, OneWriter, Distinct, Calls, Owns, Busy
<1>2. Listed' = Listed /\ Vacant' = Vacant
  BY DEF Listed, Vacant, Owns
<1>3. ListInv'
  <2>1. PICK n \in Nat : \E c \in [1 .. n -> Pcbs] :
          /\ IsChain(n, c, udp_pcbs, next) /\ Range(c) = Listed
          /\ \A s \in Sockets : ListRegs(task[s], c)
    BY DEF SaneInv, ListInv
  <2>2. \A c : \A s : ListRegs(task[s], c)' <=> ListRegs(task[s], c)
    BY DEF ListRegs
  <2> QED BY <1>2, <2>1, <2>2 DEF ListInv
<1>4. PoolInv'
  <2>1. \A s : PoolRegs(task[s])' <=> PoolRegs(task[s])
    BY DEF PoolRegs
  <2> QED BY <1>2, <2>1 DEF SaneInv, PoolInv
<1> QED BY <1>1, <1>3, <1>4 DEF SaneInv

LEMMA UserInv ==
  ASSUME UdpInv, NEW s \in Sockets, RecvFrom(s) \/ Split(s) \/ DropHalf(s)
  PROVE UdpInv'
<1>1. UNCHANGED <<overlap, udp_pcbs, next, pcb, tab, memp, task, input, pbufs>>
  BY DEF RecvFrom, Split, DropHalf, shared
<1>2. rx' \in [Sockets -> 0 .. QueueLen]
  BY Facts, UdpAssumption DEF RecvFrom, Split, DropHalf
<1>3. \/ half' = half
      \/ task[s].pc = "open" /\ half' = [half EXCEPT ![s] = task[s].pcb]
      \/ half' = [half EXCEPT ![s] = Null]
  BY DEF RecvFrom, Split, DropHalf
<1>4. half' \in [Sockets -> Pcbs \cup {Null}]
  BY <1>3, Facts
<1>5. TypeOK' /\ RegInv' /\ InputInv'
  BY <1>1, <1>2, <1>4 DEF UdpInv, TypeOK, RegInv, InputInv
<1>6. ASSUME overlap \subseteq {"input"} PROVE SaneInv'
  <2>1. SaneInv /\ Ports
    BY <1>6 DEF UdpInv, SaneInv
  <2>2. ASSUME NEW r \in Sockets, half'[r] # Null
        PROVE \/ pcb[half'[r]].port
              \/ \E u \in Sockets : task[u].pcb = half'[r] /\ task[u].pc \in {"made", "search"}
    <3>1. CASE half'[r] = half[r]
      BY <2>1, <2>2, <3>1 DEF Ports, Owns
    <3>2. CASE half'[r] # half[r]
      <4>1. r = s /\ task[s].pc = "open" /\ half'[r] = task[s].pcb
        BY <1>3, <2>2, <3>2, Facts
      <4> QED BY <2>1, <4>1 DEF Ports
    <3> QED BY <3>1, <3>2
  <2>3. Ports'
    BY <1>1, <2>1, <2>2 DEF Ports, Owns
  <2> QED BY <1>1, <2>1, <2>3, SaneStill
<1>7. ASSUME overlap = {} PROVE AloneInv'
  BY <1>1, <1>7 DEF UdpInv, AloneInv, Busy
<1> QED BY <1>1, <1>5, <1>6, <1>7 DEF UdpInv

\* udp_input changes no pcb; with one thread the pcb it picks is an open socket's.
LEMMA InputStep ==
  ASSUME UdpInv, UNCHANGED <<overlap, shared, task, half>>, rx' \in [Sockets -> 0 .. QueueLen],
         input' \in [pc : {"out", "picked", "tested", "calling"}, pcb : Pcbs \cup {Null},
                     arg : Sockets \cup {Null}],
         pbufs' \in 0 .. MaxPbufs, InputInv', overlap = {} => AloneInv'
  PROVE UdpInv'
<1>1. UNCHANGED <<overlap, udp_pcbs, next, pcb, tab, memp, task, half>>
  BY DEF shared
<1>2. TypeOK' /\ RegInv'
  BY <1>1 DEF UdpInv, TypeOK, RegInv
<1>3. ASSUME overlap \subseteq {"input"} PROVE SaneInv'
  <2>1. SaneInv /\ Ports
    BY <1>3 DEF UdpInv, SaneInv
  <2>2. Ports'
    BY <1>1, <2>1 DEF Ports, Owns
  <2> QED BY <1>1, <2>1, <2>2, SaneStill
<1> QED BY <1>1, <1>2, <1>3 DEF UdpInv

InputType == [pc : {"out", "picked", "tested", "calling"}, pcb : Pcbs \cup {Null},
              arg : Sockets \cup {Null}]

LEMMA InputFacts ==
  ASSUME UdpInv
  PROVE /\ input \in InputType /\ input.pcb \in Pcbs \cup {Null}
        /\ input.arg \in Sockets \cup {Null}
        /\ pbufs \in 0 .. MaxPbufs /\ MaxPbufs \in Nat /\ QueueLen \in Nat \ {0}
        /\ rx \in [Sockets -> 0 .. QueueLen]
        /\ input.pc # "out" => pbufs > 0 /\ pbufs - 1 \in 0 .. MaxPbufs
        /\ Outside \in InputType /\ Outside.pc = "out" /\ Outside.pcb = Null /\ Outside.arg = Null
BY UdpAssumption DEF UdpInv, TypeOK, InputInv, InputType, Outside

LEMMA BeginInv == ASSUME UdpInv, InputBegin PROVE UdpInv'
<1>1. /\ UNCHANGED <<overlap, shared, task, half, rx>> /\ pbufs < MaxPbufs /\ pbufs' = pbufs + 1
      /\ input' = [pc |-> "picked", pcb |-> udp_pcbs, arg |-> Null]
      /\ overlap = {} => \A t \in Tasks : ~Busy(t)
      /\ input.pc = "out"
  BY DEF InputBegin, Unlocked
<1>2. udp_pcbs \in Pcbs \cup {Null}
  BY Facts
<1>3. /\ input' \in InputType /\ input'.pc = "picked" /\ input'.pcb = udp_pcbs
      /\ input'.arg = Null /\ pbufs' \in 0 .. MaxPbufs /\ pbufs' > 0
  BY <1>1, <1>2, InputFacts DEF InputType
<1>4. InputInv'
  BY <1>3 DEF InputInv
<1>5. ASSUME overlap = {} PROVE AloneInv'
  <2>1. pbufs' = 1 /\ \A t \in Tasks : ~Busy(t)'
    BY <1>1, <1>5 DEF UdpInv, AloneInv, Busy
  <2>2. ASSUME udp_pcbs # Null
        PROVE \E s \in Sockets : task[s].pc = "open" /\ task[s].pcb = udp_pcbs
    <3>1. PICK n \in Nat : \E c \in [1 .. n -> Pcbs] :
            IsChain(n, c, udp_pcbs, next) /\ Range(c) = Listed
      BY <1>5 DEF UdpInv, SaneInv, ListInv
    <3>2. next \in Links
      BY Facts
    <3>3. udp_pcbs \in Listed
      BY <2>2, <3>1, <3>2, ChainFacts
    <3>4. PICK s \in Sockets : task[s].pcb = udp_pcbs /\ task[s].pc \in Linked
      BY <3>3 DEF Listed, Owns
    <3>5. task[s].pc = "open"
      BY <1>1, <1>5, <3>4, Facts DEF Busy, Linked
    <3> QED BY <3>4, <3>5
  <2> QED BY <1>1, <1>3, <2>1, <2>2 DEF AloneInv, shared
<1> QED BY <1>1, <1>3, <1>4, <1>5, InputStep, InputFacts DEF InputType

\* The ways out of udp_input.
LEMMA OutInv ==
  ASSUME UdpInv, InputDiscard \/ RecvCbClosed \/ RecvCb
  PROVE UdpInv'
<1>1. /\ UNCHANGED <<overlap, shared, task, half>> /\ input' = Outside
      /\ pbufs' = pbufs - 1 \/ (pbufs' = pbufs /\ input.pc = "calling" /\ input.arg = Null)
      /\ input.pc # "out"
  BY DEF InputDiscard, RecvCbClosed, RecvCb
<1>2. pbufs' \in 0 .. MaxPbufs
  BY <1>1, InputFacts
<1>3. rx' \in [Sockets -> 0 .. QueueLen]
  <2>1. CASE RecvCb
    <3>1. input.arg \in Sockets
      BY <2>1, InputFacts DEF RecvCb
    <3>2. rx[input.arg] < QueueLen => rx[input.arg] + 1 \in 0 .. QueueLen
      BY <3>1, InputFacts
    <3> QED BY <2>1, <3>1, <3>2, InputFacts DEF RecvCb
  <2>2. CASE InputDiscard \/ RecvCbClosed
    BY <2>2, InputFacts DEF InputDiscard, RecvCbClosed
  <2> QED BY <2>1, <2>2
<1>4. InputInv'
  BY <1>1, InputFacts DEF InputInv
<1>5. ASSUME overlap = {} PROVE AloneInv'
  BY <1>1, <1>5, InputFacts DEF UdpInv, AloneInv
<1> QED BY <1>1, <1>2, <1>3, <1>4, <1>5, InputStep, InputFacts DEF InputType

LEMMA CallInv == ASSUME UdpInv, InputTest \/ InputCall PROVE UdpInv'
<1>1. CASE InputTest
  <2>1. /\ UNCHANGED <<overlap, shared, task, half, rx, pbufs>> /\ input.pc = "picked"
        /\ input.pcb # Null /\ pcb[input.pcb].recv /\ input' = [input EXCEPT !.pc = "tested"]
    BY <1>1 DEF InputTest
  <2>2. /\ input' \in InputType /\ input'.pc = "tested" /\ input'.pcb = input.pcb
        /\ input'.arg = input.arg
    BY <2>1, InputFacts DEF InputType
  <2>3. InputInv'
    BY <2>1, <2>2 DEF UdpInv, InputInv
  <2>4. ASSUME overlap = {} PROVE AloneInv'
    BY <2>1, <2>2, <2>4 DEF UdpInv, AloneInv, Busy, shared
  <2> QED BY <2>1, <2>2, <2>3, <2>4, InputStep, InputFacts DEF InputType
<1>2. CASE InputCall
  <2>1. /\ UNCHANGED <<overlap, shared, task, half, rx, pbufs>> /\ input.pc = "tested"
        /\ input' = [input EXCEPT !.pc = "calling", !.arg = pcb[input.pcb].arg]
    BY <1>2 DEF InputCall
  <2>2. input.pcb \in Pcbs /\ input.pcb # Null
    BY <2>1, InputFacts DEF UdpInv, InputInv
  <2>3. pcb[input.pcb].arg \in Sockets \cup {Null}
    BY <2>2, Facts, TypeSets
  <2>4. /\ input' \in InputType /\ input'.pc = "calling" /\ input'.pcb = input.pcb
        /\ input'.arg = pcb[input.pcb].arg
    BY <2>1, <2>3, InputFacts DEF InputType
  <2>5. InputInv'
    BY <2>1, <2>2, <2>4 DEF UdpInv, InputInv
  <2>6. ASSUME overlap = {} PROVE AloneInv'
    <3>1. AloneInv /\ Calls
      BY <2>6 DEF UdpInv, SaneInv
    <3>2. PICK s \in Sockets : task[s].pc = "open" /\ task[s].pcb = input.pcb
      BY <2>2, <3>1 DEF AloneInv
    <3>3. pcb[input.pcb].arg = s /\ s # Null
      BY <3>1, <3>2, Facts DEF Calls
    <3> QED BY <2>1, <2>4, <3>1, <3>2, <3>3 DEF AloneInv, Busy, shared
  <2> QED BY <2>1, <2>4, <2>5, <2>6, InputStep, InputFacts DEF InputType
<1> QED BY <1>1, <1>2

-------------------------------------------------------------------------------
(* The theorems. *)

LEMMA UdpInit == Init => UdpInv
<1> SUFFICES ASSUME Init PROVE UdpInv
  OBVIOUS
<1>1. Idle \in TaskType /\ Idle.pc = "none" /\ Idle.pcb = Null
  BY TypeSets DEF Idle
<1>2. task = [t \in Tasks |-> Idle] /\ task \in [Tasks -> TaskType]
  BY <1>1 DEF Init
<1>3. Sockets \subseteq Tasks /\ Sender \in Tasks
  BY DEF Tasks
<1>4. TypeOK
  BY <1>2, UdpAssumption, TypeSets DEF Init, TypeOK, Outside
<1>5. RegInv /\ InputInv
  BY <1>1, <1>2 DEF Init, RegInv, InputInv, Without, Outside
<1>6. \A s \in Sockets : task[s] = Idle
  BY <1>2, <1>3
<1>7. OneWriter /\ Distinct
  BY <1>1, <1>2, <1>3, <1>6 DEF OneWriter, Distinct, Busy
<1>8. Ports /\ Calls
  BY <1>1, <1>6 DEF Init, Ports, Calls
<1>9. ListInv
  <2>1. Listed = {}
    BY <1>1, <1>6 DEF Listed, Linked
  <2> DEFINE c == [i \in 1 .. 0 |-> Null]
  <2>2. c \in [1 .. 0 -> Pcbs] /\ Range(c) = {}
    BY DEF Range
  <2>3. IsChain(0, c, udp_pcbs, next)
    BY DEF Init, IsChain, IsInjective
  <2>4. \A s \in Sockets : ListRegs(task[s], c)
    BY <1>1, <1>6 DEF ListRegs
  <2> QED BY <2>1, <2>2, <2>3, <2>4 DEF ListInv
<1>10. PoolInv
  <2>1. Vacant = Pcbs
    BY <1>1, <1>6, UdpAssumption DEF Vacant, Owns
  <2>2. Cardinality(Pcbs) \in Nat
    BY UdpAssumption, FS_CardinalityType
  <2>3. PICK c \in [1 .. Cardinality(Pcbs) -> Pcbs] :
          IsChain(Cardinality(Pcbs), c, tab, memp) /\ Range(c) = Pcbs
    BY DEF Init
  <2>4. \A s \in Sockets : PoolRegs(task[s])
    BY <1>1, <1>6 DEF PoolRegs
  <2> QED BY <2>1, <2>2, <2>3, <2>4 DEF PoolInv, Chained
<1>11. AloneInv
  BY <1>1, <1>2 DEF Init, AloneInv, Outside, Busy
<1> QED BY <1>4, <1>5, <1>7, <1>8, <1>9, <1>10, <1>11 DEF UdpInv, SaneInv

LEMMA UdpNext == UdpInv /\ [Next]_vars => UdpInv'
<1> SUFFICES ASSUME UdpInv, [Next]_vars PROVE UdpInv'
  OBVIOUS
<1>1. ASSUME NEW s \in Sockets, New(s) PROVE UdpInv'
  BY <1>1, PopInv, PopStoreInv, ZeroInv, RecvInv DEF New
<1>2. ASSUME NEW s \in Sockets, Drop(s) PROVE UdpInv'
  BY <1>2, RecvInv, SeekInv, UnlinkInv, PushInv, FreeInv DEF Drop
<1>3. ASSUME NEW t \in Tasks, UdpBind(t) PROVE UdpInv'
  BY <1>3, SearchInv, BindPortInv, LinkNextInv, LinkHeadInv DEF UdpBind
<1>4. ASSUME NEW s \in Sockets, RecvFrom(s) \/ Split(s) \/ DropHalf(s) \/ SendTo(s)
      PROVE UdpInv'
  BY <1>4, UserInv, SendInv
<1>5. CASE InputBegin \/ InputDiscard \/ InputTest \/ InputCall \/ RecvCbClosed \/ RecvCb
  BY <1>5, BeginInv, OutInv, CallInv
<1>6. CASE UNCHANGED vars
  <2>1. UNCHANGED <<overlap, shared, task, half, rx, input, pbufs>>
    BY <1>6 DEF vars, others
  <2>2. InputInv' /\ (overlap = {} => AloneInv')
    BY <2>1 DEF UdpInv, InputInv, AloneInv, Busy, shared
  <2> QED BY <2>1, <2>2, InputStep, InputFacts DEF InputType
<1> QED BY <1>1, <1>2, <1>3, <1>4, <1>5, <1>6 DEF Next

LEMMA Invariance == Spec => []UdpInv
BY UdpInit, UdpNext, PTL DEF Spec

\* The socket's state keeps its types, and no channel outgrows its capacity, for any
\* capacity (mpsc::channel of udp.rs) and whatever overlaps.
THEOREM UdpTypes == Spec => []TypeOK
<1>1. UdpInv => TypeOK
  BY DEF UdpInv
<1> QED BY <1>1, Invariance, PTL

\* Whatever store of new or drop comes next, and with udp_input between any two, the
\* list of udp.c and the pool of memp.c are whole and share no slot, for any number
\* of sockets and pcbs, where new, drop and send_to do not overlap one another.
THEOREM ListIsSane == Spec => []ListSane
<1>1. ASSUME UdpInv, overlap \subseteq {"input"} PROVE MemorySane
  <2>1. ListInv /\ PoolInv /\ Distinct
    BY <1>1 DEF UdpInv, SaneInv
  <2>2. ListOK
    <3>1. PICK n \in Nat : \E c \in [1 .. n -> Pcbs] :
            IsChain(n, c, udp_pcbs, next) /\ Range(c) = Listed
      BY <2>1 DEF ListInv
    <3>2. PICK c \in [1 .. n -> Pcbs] : IsChain(n, c, udp_pcbs, next) /\ Range(c) = Listed
      BY <3>1
    <3>3. n \in 0 .. Cardinality(Pcbs)
      BY <3>2, ChainBound DEF IsChain
    <3> QED BY <3>2, <3>3 DEF ListOK, Listed
  <2>3. PoolOK
    <3>1. PICK n \in Nat : \E c \in [1 .. n -> Pcbs] :
            IsChain(n, c, tab, memp) /\ Range(c) = Vacant
      BY <2>1 DEF PoolInv, Chained
    <3>2. PICK c \in [1 .. n -> Pcbs] : IsChain(n, c, tab, memp) /\ Range(c) = Vacant
      BY <3>1
    <3>3. n \in 0 .. Cardinality(Pcbs)
      BY <3>2, ChainBound DEF IsChain
    <3> QED BY <3>2, <3>3 DEF PoolOK, Vacant
  <2> QED BY <2>1, <2>2, <2>3 DEF MemorySane, Distinct, Owns
<1>2. UdpInv => ListSane
  BY <1>1 DEF ListSane
<1> QED BY <1>2, Invariance, PTL

\* On a runtime with one thread udp_input and udp_recv_cb use no pcb and no
\* socket that is gone, and leave no pbuf behind.
THEOREM InputIsSafe == Spec => []InputSafe
<1>1. ASSUME UdpInv PROVE InputSafe
  <2>1. overlap = {} => AloneInv /\ InputInv
    BY <1>1 DEF UdpInv
  <2>2. InputUsesLive
    BY <2>1 DEF InputUsesLive, AloneInv, InputInv
  <2>3. PbufFreed
    BY <2>1 DEF PbufFreed, AloneInv
  <2> QED BY <2>2, <2>3 DEF InputSafe
<1> QED BY <1>1, Invariance, PTL
===============================================================================
