------------------------------ MODULE Reassembly ------------------------------
(***************************************************************************)
(* src/src/lwip/core/ipv4/ip4_frag.c and ipv6/ip6_frag.c: reassembly of IP *)
(* datagrams.  The fragments that a sender of the same code makes of its   *)
(* datagrams arrive in any order, repeated, or not at all; two limits, on  *)
(* datagrams and on pbufs, make the code give up the oldest ones, and a    *)
(* timer those that stay incomplete.  Every packet of the TUN is one pbuf, *)
(* so the length of a fragment's pbuf chain is 1.  Lengths and offsets are *)
(* in units of 8 bytes.                                                    *)
(***************************************************************************)
EXTENDS Integers, Sequences, FiniteSets, SequencesExt, FiniteSetsExt

CONSTANTS
  Sizes,               \* of datagrams: length, and what a fragment carries
  IdSpaces,            \* identifications are a counter modulo 2^16 or 2^32
  IP_REASS_MAX_PBUFS,
  MEMP_NUM_REASSDATA,
  IP_REASS_MAXAGE,     \* in runs of the timer
  MaxDgrams,           \* bound: datagrams sent
  Null

ASSUME ReassemblyAssumption ==
  /\ Sizes \subseteq Nat \X (Nat \ {0}) /\ \A size \in Sizes : size[1] > size[2]
  /\ IdSpaces \subseteq Nat \ {0} /\ IP_REASS_MAXAGE \in Nat /\ MaxDgrams \in Nat
  /\ IP_REASS_MAX_PBUFS \in Nat \ {0} /\ MEMP_NUM_REASSDATA \in Nat \ {0}

VARIABLES
  ip,       \* 4 or 6; does not change
  id_space, \* does not change
  unique,   \* whether the sender reuses an identification only when nothing is
            \* left of the last datagram that had it, neither on the way nor in a
            \* reassembly; does not change
  sent,     \* sizes of the datagrams sent, in order
  reassdatagrams,
  pbufcount,
  up        \* what the last step passed up, or Null

vars == <<ip, id_space, unique, sent, reassdatagrams, pbufcount, up>>

\* A fragment of datagram d, and what is kept of it in a reassembly.
Fragment == [d : 1 .. MaxDgrams, start : Nat, end : Nat, more : BOOLEAN]

\* struct ip_reassdata: the datagram's length is 0 until its end has arrived.
Reassdata == [id : Nat, timer : 0 .. IP_REASS_MAXAGE,
              frags : Seq(Fragment), datagram_len : Nat]

Init ==
  /\ ip \in {4, 6} /\ id_space \in IdSpaces /\ unique \in BOOLEAN
  /\ sent = <<>>
  /\ reassdatagrams = <<>> /\ pbufcount = 0
  /\ up = Null

-------------------------------------------------------------------------------
\* The sender.

\* ip_id, and the identification of ip6_frag.
Id(d) == d % id_space

\* ip4_frag and ip6_frag: pieces of one size, the rest in the last one.
Fragments(d) ==
  LET len == sent[d][1]  piece == sent[d][2]
  IN  {[d |-> d, start |-> s, end |-> Min({s + piece, len}), more |-> len - s > piece]
         : s \in {k * piece : k \in 0 .. (len - 1) \div piece}}

\* The datagrams of which fragments may still arrive.
OnTheWay ==
  {d \in DOMAIN sent : unique => \A e \in DOMAIN sent : e > d => Id(e) # Id(d)}

Send ==
  /\ Len(sent) < MaxDgrams
  /\ unique => \A i \in DOMAIN reassdatagrams : reassdatagrams[i].id # Id(Len(sent) + 1)
  /\ \E n \in Sizes : sent' = Append(sent, n)
  /\ up' = Null
  /\ UNCHANGED <<ip, id_space, unique, reassdatagrams, pbufcount>>

-------------------------------------------------------------------------------
\* The queue and the count in the course of a step.
State == [queue |-> reassdatagrams, count |-> pbufcount]

\* Mutant of FreeComplete: a first fragment, for which the sender is told, is
\* freed apart from the others and not counted.
FreeCompleteButFirst(st, i) ==
  LET f == st.queue[i].frags
  IN  [queue |-> RemoveAt(st.queue, i),
       count |-> st.count - (IF f[1].start = 0 THEN Len(f) - 1 ELSE Len(f))]

\* ip_reass_free_complete_datagram: its pbufs and its element are freed.
FreeComplete(st, i) ==
  [queue |-> RemoveAt(st.queue, i), count |-> st.count - Len(st.queue[i].frags)]

\* The last of the oldest among those that are not `id`'s.
Oldest(st, id) ==
  LET others == {i \in DOMAIN st.queue : st.queue[i].id # id}
  IN  Max({i \in others : \A j \in others : st.queue[i].timer <= st.queue[j].timer})

\* ip_reass_remove_oldest_datagram: freeing one makes room for one pbuf.  With
\* nothing but `id`'s own reassembly nothing is freed.
RemoveOldest(st, id) ==
  IF \E i \in DOMAIN st.queue : st.queue[i].id # id
  THEN FreeComplete(st, Oldest(st, id)) ELSE st

Matching(st, id) == {i \in DOMAIN st.queue : st.queue[i].id = id}

\* A new reassembly at the head of the queue, after making room in its pool.
Enqueue(st, id) ==
  LET s == IF Len(st.queue) = MEMP_NUM_REASSDATA THEN RemoveOldest(st, id) ELSE st
  IN  [s EXCEPT !.queue = <<[id |-> id, timer |-> IP_REASS_MAXAGE, frags |-> <<>>,
                             datagram_len |-> 0]>> \o @]

\* Mutant of FindOrEnqueue: each fragment restarts the timer.
FindRefreshed(st, id) ==
  IF Matching(st, id) = {} THEN Enqueue(st, id)
  ELSE LET i == CHOOSE j \in Matching(st, id) : TRUE
       IN  [st EXCEPT !.queue[i].timer = IP_REASS_MAXAGE]

FindOrEnqueue(st, id) == IF Matching(st, id) = {} THEN Enqueue(st, id) ELSE st

\* Mutant of Full: the fragment itself is not counted.
FullLate(st) == st.count > IP_REASS_MAX_PBUFS

Full(st) == st.count + 1 > IP_REASS_MAX_PBUFS

MakeRoom(st, id) == IF Full(st) THEN RemoveOldest(st, id) ELSE st

\* ip4_reass makes room first, ip6_reass once it has the reassembly.
Prepared(id) ==
  IF ip = 4 THEN LET s == MakeRoom(State, id)
                 IN  IF Full(s) THEN s ELSE FindOrEnqueue(s, id)
            ELSE MakeRoom(FindOrEnqueue(State, id), id)

\* Where the fragment belongs in the list.
Place(frags, f) ==
  LET later == {i \in DOMAIN frags : f.start < frags[i].start}
  IN  IF later = {} THEN Len(frags) + 1 ELSE Min(later)

\* Thrown away: it came before, or overlaps what did.
Overlaps(frags, f) ==
  LET p == Place(frags, f)
  IN  \/ \E i \in 1 .. p - 1 : f.start = frags[i].start \/ f.start < frags[i].end
      \/ p <= Len(frags) /\ f.end > frags[p].start

Chained(r, f) ==
  [r EXCEPT !.frags = InsertAt(@, Place(@, f), f),
            !.datagram_len = IF f.more THEN @ ELSE f.end]

\* Mutant of NoHole: looked for from the fragment on only.
NoHoleAfter(frags, p) == \A i \in p .. Len(frags) - 1 : frags[i].end = frags[i + 1].start

\* No hole is seen around the fragment at p.  ip6_reass does not look between
\* it and its predecessor when it inserts it before another.
NoHole(frags, p) ==
  \A i \in 1 .. Len(frags) - 1 :
    \/ frags[i].end = frags[i + 1].start
    \/ ip = 6 /\ i + 1 = p /\ p < Len(frags)

\* The queue starts with the first fragment, the end is known, and no hole is
\* seen.
Finished(r, p) == r.datagram_len # 0 /\ r.frags[1].start = 0 /\ NoHole(r.frags, p)

Become(s) ==
  /\ reassdatagrams' = s.queue /\ pbufcount' = s.count
  /\ UNCHANGED <<ip, id_space, unique, sent>>

\* ip4_reass, ip6_reass: the fragment is freed, or passed up with the others, or
\* kept.
Reass(f) ==
  LET s == Prepared(Id(f.d))
      i == CHOOSE j \in Matching(s, Id(f.d)) : TRUE
      r == Chained(s.queue[i], f)
      dropped == Full(s) \/ Overlaps(s.queue[i].frags, f)
      whole == Finished(r, Place(s.queue[i].frags, f))
  IN  \/ dropped /\ Become(s) /\ up' = Null
      \/ ~dropped /\ whole /\ up' = r
         /\ Become([queue |-> RemoveAt(s.queue, i), count |-> s.count + 1 - Len(r.frags)])
      \/ ~dropped /\ ~whole /\ up' = Null
         /\ Become([queue |-> [s.queue EXCEPT ![i] = r], count |-> s.count + 1])

Arrive == \E d \in OnTheWay : \E f \in Fragments(d) : Reass(f)

\* One turn of the loop of ip_reass_tmr: r is kept, or freed with its pbufs.
Aged(st, r) ==
  IF r.timer > 0 THEN [st EXCEPT !.queue = Append(@, [r EXCEPT !.timer = @ - 1])]
  ELSE [st EXCEPT !.count = @ - Len(r.frags)]

\* ip_reass_tmr, ip6_reass_tmr
ReassTmr ==
  /\ reassdatagrams # <<>>
  /\ Become(FoldLeft(Aged, [queue |-> <<>>, count |-> pbufcount], reassdatagrams))
  /\ up' = Null

Next == Send \/ Arrive \/ ReassTmr

\* The timers run (module Timeouts); nothing makes fragments arrive.
Spec == Init /\ [][Next]_vars /\ WF_vars(ReassTmr)

-------------------------------------------------------------------------------
\* The queue and the count keep their types, within the two limits.
TypeOK ==
  /\ ip \in {4, 6} /\ id_space \in IdSpaces /\ unique \in BOOLEAN
  /\ sent \in Seq(Sizes) /\ Len(sent) <= MaxDgrams
  /\ reassdatagrams \in Seq(Reassdata) /\ Len(reassdatagrams) <= MEMP_NUM_REASSDATA
  /\ pbufcount \in 0 .. IP_REASS_MAX_PBUFS
  /\ up = Null \/ up \in Reassdata

\* The pbufs that a queue holds.
PbufsOf(q) == FoldLeft(LAMBDA n, r : n + Len(r.frags), 0, q)

\* However reassemblies begin, end, are given up for others or by the timer: the
\* count is that of the fragments kept, so that the limit neither leaks away nor
\* is passed; no reassembly is empty, whose first fragment freeing would look
\* at; and its fragments are in order, apart from each other, and alone in
\* having their identification.
Accounted ==
  LET q == reassdatagrams
  IN  /\ pbufcount = PbufsOf(q)
      /\ \A i \in DOMAIN q :
           /\ q[i].frags # <<>>
           /\ \A j \in 1 .. Len(q[i].frags) - 1 : q[i].frags[j].end <= q[i].frags[j + 1].start
           /\ \A j \in DOMAIN q : q[i].id = q[j].id => i = j

Contiguous(frags) ==
  /\ frags[1].start = 0
  /\ \A i \in 1 .. Len(frags) - 1 : frags[i].end = frags[i + 1].start

\* Whatever fragments, of whatever datagrams, were taken for one: what ip4_reass
\* or ip6_reass passes up has no hole in it (fails for IPv6 as soon as a
\* datagram has four fragments).
NoHoles == up # Null => Contiguous(up.frags)

\* What is passed up is one of the datagrams sent, all of it and nothing else,
\* and none waits that has all its fragments: while identifications are not
\* reused too soon, and for IPv4 (NoHoles fails for IPv6).
WholeDatagrams ==
  ip = 4 =>
    /\ NoHoles
    /\ unique /\ up # Null =>
         /\ up.datagram_len = sent[up.frags[1].d][1] /\ Last(up.frags).end = up.datagram_len
         /\ \A i \in DOMAIN up.frags : up.frags[i].d = up.frags[1].d
    /\ unique => \A i \in DOMAIN reassdatagrams :
         ToSet(reassdatagrams[i].frags) # Fragments(reassdatagrams[i].frags[1].d)

\* No reassembly stays for ever, although fragments may go on arriving.
GivenUp ==
  \A id \in 0 .. Max(IdSpaces) - 1 :
    []<>(\A i \in DOMAIN reassdatagrams : reassdatagrams[i].id # id)
===============================================================================
