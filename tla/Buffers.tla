------------------------------- MODULE Buffers --------------------------------
(***************************************************************************)
(* src/src/lwip/core/pbuf.c over the heap of mem.c, which only pbufs use.  *)
(* One action for each function that this configuration calls, by callers  *)
(* that hold references and keep to the rules that pbuf.c's callers in     *)
(* src/ keep: the lengths of a pbuf that stands behind another one are not *)
(* changed, a chain is shortened or lengthened only by those who alone use *)
(* what is behind its head, and no packet gets a mirror of itself.         *)
(***************************************************************************)
EXTENDS MemHeap, Sequences

CONSTANTS
  SIZEOF_STRUCT_PBUF,
  Offsets,      \* room for headers that callers ask for
  Lengths,      \* payload lengths that callers ask for
  RefPbufs,     \* elements of MEMP_PBUF
  FragPbufs,    \* elements of MEMP_FRAG_PBUF
  MaxHeld,      \* bound: references that callers hold to one pbuf
  MaxPbufs,     \* bound: pbufs allocated at a time
  Null

ASSUME BuffersAssumption ==
  /\ SIZEOF_STRUCT_PBUF \in Nat \ {0} /\ Offsets \subseteq Nat /\ Lengths \subseteq Nat
  /\ MaxHeld \in Nat \ {0} /\ MaxPbufs \in Nat
  /\ RefPbufs \cap FragPbufs = {} /\ (RefPbufs \cup FragPbufs) \cap Addr = {}
  /\ Null \notin RefPbufs \cup FragPbufs \cup Addr

VARIABLES
  heap,
  pbufs,    \* the allocated pbufs; those of PBUF_RAM by the address of their block
  held,     \* how many references the callers hold to each
  refused   \* size that the heap refused in the last step, or 0

vars == <<heap, pbufs, held, refused>>

Ids == Addr \cup RefPbufs \cup FragPbufs

\* struct pbuf.  The payload of PBUF_RAM is an offset into its block, and
\* `original` that of struct pbuf_custom_ref.
Pbuf == [next : Ids \cup {Null}, tot_len : Nat, len : Nat, ref : Nat,
         payload : Nat, original : Ids \cup {Null}]

IsRam(p) == p \in Addr

Init ==
  /\ heap = EmptyHeap
  /\ pbufs = [p \in {} |-> Null] /\ held = [p \in {} |-> 0]
  /\ refused = 0

With(f, x, y) == [z \in DOMAIN f \cup {x} |-> IF z = x THEN y ELSE f[z]]

\* pbuf_init_alloced_pbuf: the caller holds the only reference.
Alloced(p, length, payload, original) ==
  /\ pbufs' = With(pbufs, p, [next |-> Null, tot_len |-> length, len |-> length,
                              ref |-> 1, payload |-> payload, original |-> original])
  /\ held' = With(held, p, 1)

WithinBounds == Cardinality(DOMAIN pbufs) < MaxPbufs

\* pbuf_alloc, PBUF_RAM
AllocRam(offset, length) ==
  LET n == AtLeastMin(SIZEOF_STRUCT_PBUF + offset + length)
      found == Found(heap, n)
  IN  /\ WithinBounds
      /\ IF found = {}
         THEN refused' = n /\ UNCHANGED <<heap, pbufs, held>>
         ELSE /\ heap' = Malloced(heap, Min(found), n)
              /\ Alloced(Min(found), length, SIZEOF_STRUCT_PBUF + offset, Null)
              /\ refused' = 0

\* pbuf_alloc_reference
AllocRef(p, length) ==
  /\ WithinBounds /\ p \in RefPbufs \ DOMAIN pbufs
  /\ Alloced(p, length, 0, Null)
  /\ refused' = 0 /\ UNCHANGED heap

Holds(p) == p \in DOMAIN held /\ held[p] > 0

\* The pbufs of p's chain, those that every set has which has p, and with a pbuf the
\* next one; none if p is Null.
InChain(p) ==
  {q \in DOMAIN pbufs : \A S \in SUBSET DOMAIN pbufs :
     p \in S \cup {Null} /\ (\A r \in S : pbufs[r].next \in S \cup {Null}) => q \in S}

\* ip4_frag, ip6_frag: a pbuf_custom_ref mirrors a part of one of the pbufs of the
\* packet, pbuf_ref(original) included.
AllocFrag(p, original, length) ==
  /\ WithinBounds /\ p \in FragPbufs \ DOMAIN pbufs
  /\ length > 0 /\ length <= pbufs[original].len
  /\ pbufs' = With([pbufs EXCEPT ![original].ref = @ + 1], p,
                   [next |-> Null, tot_len |-> length, len |-> length, ref |-> 1,
                    payload |-> 0, original |-> original])
  /\ held' = With(held, p, 1)
  /\ refused' = 0 /\ UNCHANGED heap

-------------------------------------------------------------------------------
\* pbuf_free, ipfrag_free_pbuf_custom included: `todo` are the pbufs that have yet
\* to lose a reference, the next one first.

\* Mutant of Turn: the original of a pbuf_custom_ref is forgotten.
TurnForgets(st) ==
  LET p == Head(st.todo)
  IN  IF st.todo = <<>> THEN st
      ELSE IF p = Null THEN [pbufs |-> st.pbufs, heap |-> st.heap, todo |-> Tail(st.todo)]
      ELSE IF st.pbufs[p].ref > 1
      THEN [pbufs |-> [st.pbufs EXCEPT ![p].ref = @ - 1], heap |-> st.heap,
            todo |-> Tail(st.todo)]
      ELSE [pbufs |-> Restrict(st.pbufs, DOMAIN st.pbufs \ {p}),
            heap |-> IF IsRam(p) THEN MemFree(st.heap, p) ELSE st.heap,
            todo |-> <<st.pbufs[p].next>> \o Tail(st.todo)]

\* One turn of the loop.
Turn(st) ==
  LET p == Head(st.todo)
  IN  IF st.todo = <<>> THEN st
      ELSE IF p = Null THEN [pbufs |-> st.pbufs, heap |-> st.heap, todo |-> Tail(st.todo)]
      ELSE IF st.pbufs[p].ref > 1
      THEN [pbufs |-> [st.pbufs EXCEPT ![p].ref = @ - 1], heap |-> st.heap,
            todo |-> Tail(st.todo)]
      ELSE [pbufs |-> Restrict(st.pbufs, DOMAIN st.pbufs \ {p}),
            heap |-> IF IsRam(p) THEN MemFree(st.heap, p) ELSE st.heap,
            todo |-> <<st.pbufs[p].original, st.pbufs[p].next>> \o Tail(st.todo)]

\* Each pbuf that goes adds two to the list and takes itself off it.
Turns(st) == 2 * Cardinality(DOMAIN st.pbufs) + 1

\* The loop from p until nothing is left to do.
Freed(pb, h, p) ==
  LET st == [pbufs |-> pb, heap |-> h, todo |-> <<p>>]
      run[k \in 0 .. Turns(st)] == IF k = 0 THEN st ELSE Turn(run[k - 1])
  IN  run[Turns(st)]

Become(st) ==
  /\ pbufs' = st.pbufs /\ heap' = st.heap /\ refused' = 0

\* pbuf_free
Free(p) ==
  /\ Holds(p)
  /\ LET st == Freed(pbufs, heap, p)
     IN  /\ Become(st)
         /\ held' = [q \in DOMAIN st.pbufs |-> IF q = p THEN held[p] - 1 ELSE held[q]]

\* pbuf_ref, of tcp_seg_copy
Ref(p) ==
  /\ Holds(p) /\ held[p] < MaxHeld
  /\ pbufs' = [pbufs EXCEPT ![p].ref = @ + 1]
  /\ held' = [held EXCEPT ![p] = @ + 1]
  /\ refused' = 0 /\ UNCHANGED heap

-------------------------------------------------------------------------------
IsHead(p) == \A q \in DOMAIN pbufs : pbufs[q].next # p

\* Nobody else uses what is behind p.
Alone(p) == \A q \in InChain(p) \ {p} : pbufs[q].ref = 1

\* pbuf_cat
Cat(h, t) ==
  [p \in DOMAIN pbufs |->
     IF p \notin InChain(h) THEN pbufs[p]
     ELSE [pbufs[p] EXCEPT !.tot_len = @ + pbufs[t].tot_len,
                           !.next = IF @ = Null THEN t ELSE @]]

\* The packets that mirrors in p's chain mirror.
Mirrored(p) == {q \in DOMAIN pbufs : \E m \in InChain(p) : q \in InChain(pbufs[m].original)}

MayCat(h, t) ==
  /\ Holds(h) /\ Holds(t) /\ h # t
  /\ IsHead(h) /\ IsHead(t) /\ Alone(h)
  /\ h \notin Mirrored(t)

\* pbuf_cat: the caller's reference to t becomes the chain's.
PbufCat(h, t) ==
  /\ MayCat(h, t)
  /\ pbufs' = Cat(h, t)
  /\ held' = [held EXCEPT ![t] = @ - 1]
  /\ refused' = 0 /\ UNCHANGED heap

Chained(h, t) == [Cat(h, t) EXCEPT ![t].ref = @ + 1]

\* pbuf_chain, of udp_sendto_if_src
PbufChain(h, t) ==
  /\ MayCat(h, t)
  /\ pbufs' = Chained(h, t)
  /\ refused' = 0 /\ UNCHANGED <<heap, held>>

\* Where the walk down a chain is, and how many bytes are still ahead of it; one
\* turn of it: over a pbuf that has fewer.
Over(at) ==
  IF at.rem_len <= pbufs[at.q].len THEN at
  ELSE [q |-> pbufs[at.q].next, rem_len |-> at.rem_len - pbufs[at.q].len]

\* The pbuf of p's chain in which the first n bytes end.
Walk(p, n) ==
  LET last == Cardinality(DOMAIN pbufs)
      at[k \in 0 .. last] == IF k = 0 THEN [q |-> p, rem_len |-> n] ELSE Over(at[k - 1])
  IN  at[last]

\* The pbufs of the chain that the walk went over.
Passed(p, q) == InChain(p) \ InChain(q)

MayRealloc(p, new_len) ==
  Holds(p) /\ new_len < pbufs[p].tot_len /\ IsHead(p) /\ Alone(p)

\* Its block is trimmed, to as much as this.
Trims(q, rem_len) == IsRam(q) /\ rem_len # pbufs[q].len
TrimSize(q, rem_len) == pbufs[q].payload + rem_len

\* pbuf_realloc makes q the last pbuf, with rem_len bytes in it.
Cut(p, new_len, q, rem_len) ==
  [x \in DOMAIN pbufs |->
     IF x = q THEN [pbufs[q] EXCEPT !.len = rem_len, !.tot_len = rem_len, !.next = Null]
     ELSE IF x \in Passed(p, q)
     THEN [pbufs[x] EXCEPT !.tot_len = @ - (pbufs[p].tot_len - new_len)]
     ELSE pbufs[x]]

Realloc(p, new_len) ==
  LET at == Walk(p, new_len)
      q == at.q
      trims == Trims(q, at.rem_len)
      size == TrimSize(q, at.rem_len)
      trimmed == IF trims THEN MemTrim(heap, q, size) ELSE heap
      st == Freed(Cut(p, new_len, q, at.rem_len), trimmed, pbufs[q].next)
  IN  /\ MayRealloc(p, new_len)
      /\ trims => ~TrimAsserts(heap, q, size)
      /\ Become(st)
      /\ held' = Restrict(held, DOMAIN st.pbufs)

Resized(p, len, tot_len, payload) ==
  [pbufs EXCEPT ![p].len = len, ![p].tot_len = tot_len, ![p].payload = payload]

\* Mutant of AddHeader: the start of the payload is not compared with its block's.
AddHeaderBlindly(p, n) ==
  LET r == pbufs[p]
  IN  /\ Holds(p) /\ IsHead(p) /\ n > 0 /\ IsRam(p)
      /\ pbufs' = Resized(p, r.len + n, r.tot_len + n, r.payload - n)
      /\ refused' = 0 /\ UNCHANGED <<heap, held>>

\* pbuf_add_header: refused (returns 1) without room, and to references.
AddHeader(p, n) ==
  LET r == pbufs[p]
  IN  /\ Holds(p) /\ IsHead(p) /\ n > 0
      /\ IsRam(p) /\ r.payload >= SIZEOF_STRUCT_PBUF + n
      /\ pbufs' = Resized(p, r.len + n, r.tot_len + n, r.payload - n)
      /\ refused' = 0 /\ UNCHANGED <<heap, held>>

\* pbuf_remove_header, after tcp_receive went over the pbufs that hold nothing but
\* bytes already received (all other callers: none such).
RemoveFront(p, n) ==
  LET at == Walk(p, n)
      new_tot_len == pbufs[p].tot_len - n
  IN  /\ Holds(p) /\ n > 0 /\ n <= pbufs[p].tot_len /\ IsHead(p) /\ Alone(p)
      /\ pbufs' = [x \in DOMAIN pbufs |->
           IF x \in Passed(p, at.q)
           THEN [pbufs[x] EXCEPT !.tot_len = new_tot_len, !.len = 0]
           ELSE IF x = at.q
           THEN [pbufs[x] EXCEPT !.len = @ - at.rem_len, !.tot_len = @ - at.rem_len,
                                 !.payload = IF IsRam(x) THEN @ + at.rem_len ELSE @]
           ELSE pbufs[x]]
      /\ refused' = 0 /\ UNCHANGED <<heap, held>>

Steps == 0 .. MEM_SIZE_ALIGNED

Next ==
  \/ \E offset \in Offsets, length \in Lengths : AllocRam(offset, length)
  \/ \E p \in RefPbufs, length \in Lengths : AllocRef(p, length)
  \/ \E p \in FragPbufs, original \in DOMAIN pbufs \ FragPbufs, length \in Lengths :
       AllocFrag(p, original, length)
  \/ \E p \in DOMAIN pbufs : Free(p) \/ Ref(p)
  \/ \E h, t \in DOMAIN pbufs : PbufCat(h, t) \/ PbufChain(h, t)
  \/ \E p \in DOMAIN pbufs, n \in Steps : Realloc(p, n) \/ AddHeader(p, n) \/ RemoveFront(p, n)

Spec == Init /\ [][Next]_vars

-------------------------------------------------------------------------------
\* The heap and the pbufs keep their types.
TypeOK ==
  /\ heap.mem \in [DOMAIN heap.mem -> StructMem] /\ DOMAIN heap.mem \subseteq Addr
  /\ heap.lfree \in Addr /\ refused \in Nat
  /\ DOMAIN pbufs \subseteq Ids /\ pbufs \in [DOMAIN pbufs -> Pbuf]
  /\ held \in [DOMAIN pbufs -> 0 .. MaxHeld]

\* Every reference to a pbuf is counted, so that it is freed with the last one,
\* never before and never twice; and the used blocks are the PBUF_RAM pbufs.
Counted ==
  /\ \A p \in DOMAIN pbufs :
       /\ {pbufs[p].next, pbufs[p].original} \subseteq DOMAIN pbufs \cup {Null}
       /\ pbufs[p].ref > 0
       /\ pbufs[p].ref = held[p] + Cardinality({q \in DOMAIN pbufs : pbufs[q].next = p})
                                 + Cardinality({q \in DOMAIN pbufs : pbufs[q].original = p})
  /\ {a \in DOMAIN heap.mem : heap.mem[a].used /\ a # MEM_SIZE_ALIGNED}
       = DOMAIN pbufs \cap Addr

\* The length that a pbuf tells of its chain is the sum of those of its pbufs, and
\* the payload of a PBUF_RAM lies in its block, behind its header, however often
\* the chain was cut, the block trimmed and the headers moved.
LengthsTrue ==
  \A p \in DOMAIN pbufs :
    LET r == pbufs[p]
    IN  /\ r.tot_len = r.len + IF r.next = Null THEN 0 ELSE pbufs[r.next].tot_len
        /\ IsRam(p) => /\ r.payload >= SIZEOF_STRUCT_PBUF
                       /\ r.payload + r.len <= UserSize(heap.mem, p)

\* Both, and a heap as mem_sanity wants it.
BuffersSound == Counted /\ LengthsTrue /\ HeapSane(heap)

\* The assertion of mem_trim on the block behind, "invalid next ptr", holds
\* whenever pbuf_realloc is called (fails: README, Divergences).
TrimIsLegal ==
  \A p \in DOMAIN pbufs : \A n \in Steps :
    MayRealloc(p, n) =>
      LET at == Walk(p, n)
      IN  Trims(at.q, at.rem_len) => ~TrimAsserts(heap, at.q, TrimSize(at.q, at.rem_len))

Blocks == [a \in {a \in DOMAIN heap.mem : heap.mem[a].used /\ a # MEM_SIZE_ALIGNED}
             |-> heap.mem[a].next]

Abstract == INSTANCE AbstractHeap WITH
  Size <- MEM_SIZE_ALIGNED, Header <- SIZEOF_STRUCT_MEM, MinSize <- MIN_SIZE_ALIGNED,
  blocks <- Blocks

\* The list of blocks with its lowest free one is such a heap: in particular it
\* refuses memory only when no gap is large enough, wherever blocks were freed,
\* trimmed and split before.
ImplementsHeap == Abstract!Spec
===============================================================================
