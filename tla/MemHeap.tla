------------------------------- MODULE MemHeap --------------------------------
(***************************************************************************)
(* src/src/lwip/core/mem.c: the heap, a list of struct mem that covers the *)
(* memory from end to end, and the lowest free one.  Sizes are in units of *)
(* MEM_ALIGNMENT.                                                          *)
(***************************************************************************)
EXTENDS Naturals, FiniteSets, FiniteSetsExt, Functions

CONSTANTS MEM_SIZE_ALIGNED, SIZEOF_STRUCT_MEM, MIN_SIZE_ALIGNED

ASSUME MemHeapAssumption ==
  /\ SIZEOF_STRUCT_MEM \in Nat \ {0} /\ MIN_SIZE_ALIGNED \in Nat \ {0}
  /\ MEM_SIZE_ALIGNED \in Nat /\ MEM_SIZE_ALIGNED >= SIZEOF_STRUCT_MEM + MIN_SIZE_ALIGNED

Addr == 0 .. MEM_SIZE_ALIGNED

\* struct mem.  A heap maps the addresses that the list goes through to theirs,
\* ram_end, which is always used, included.
StructMem == [next : Addr, prev : Addr, used : BOOLEAN]

\* mem_init
EmptyHeap ==
  [mem |-> [a \in {0, MEM_SIZE_ALIGNED} |->
              [next |-> MEM_SIZE_ALIGNED, prev |-> a, used |-> a # 0]],
   lfree |-> 0]

\* a is followed by b, which knows it unless it is ram_end.
Linked(mem, a, b) ==
  [x \in DOMAIN mem |->
     IF x = a THEN [mem[a] EXCEPT !.next = b]
     ELSE IF x = b /\ b # MEM_SIZE_ALIGNED THEN [mem[b] EXCEPT !.prev = a]
     ELSE mem[x]]

\* A free struct mem at b, between a and the next one.
Inserted(mem, a, b) ==
  LET n == mem[a].next
      with == [x \in DOMAIN mem \cup {b} |->
                 IF x = b THEN [next |-> n, prev |-> a, used |-> FALSE] ELSE mem[x]]
  IN  Linked(Linked(with, b, n), a, b)

Removed(mem, b) == Restrict(Linked(mem, mem[b].prev, mem[b].next), DOMAIN mem \ {b})

\* The free b goes up in the free one before it.
Combined(h, b) ==
  [mem |-> Removed(h.mem, b), lfree |-> IF h.lfree = b THEN h.mem[b].prev ELSE h.lfree]

\* Mutant of PlugHoles: forward only.
PlugForward(h, a) ==
  LET n == h.mem[a].next IN IF h.mem[n].used THEN h ELSE Combined(h, n)

PlugHoles(h, a) ==
  LET n == h.mem[a].next
      forward == IF h.mem[n].used THEN h ELSE Combined(h, n)
      p == h.mem[a].prev
  IN  IF p # a /\ ~forward.mem[p].used THEN Combined(forward, a) ELSE forward

\* mem_free
MemFree(h, a) ==
  PlugHoles([mem |-> [h.mem EXCEPT ![a].used = FALSE],
             lfree |-> IF a < h.lfree THEN a ELSE h.lfree], a)

UserSize(mem, a) == mem[a].next - a - SIZEOF_STRUCT_MEM

AtLeastMin(n) == IF n < MIN_SIZE_ALIGNED THEN MIN_SIZE_ALIGNED ELSE n

\* Room for another struct mem and some data after n units of user data.
Splits(mem, a, n) == UserSize(mem, a) >= n + SIZEOF_STRUCT_MEM + MIN_SIZE_ALIGNED

\* mem_malloc: the first fit from the lowest free one on.
Found(h, n) ==
  {a \in DOMAIN h.mem :
     /\ h.lfree <= a /\ a < MEM_SIZE_ALIGNED - n
     /\ ~h.mem[a].used /\ UserSize(h.mem, a) >= n}

LowestFree(mem, a) ==
  Min({b \in DOMAIN mem : b >= a /\ ~mem[b].used} \cup {MEM_SIZE_ALIGNED})

Malloced(h, a, n) ==
  LET split == IF Splits(h.mem, a, n)
               THEN Inserted(h.mem, a, a + SIZEOF_STRUCT_MEM + n) ELSE h.mem
      mem == [split EXCEPT ![a].used = TRUE]
  IN  [mem |-> mem, lfree |-> IF a = h.lfree THEN LowestFree(mem, a) ELSE h.lfree]

\* The assertion "invalid next ptr" of mem_trim: it stops the process when the
\* last block of the heap, which reaches to ram_end, could be split.
TrimAsserts(h, a, new_size) ==
  h.mem[a].next = MEM_SIZE_ALIGNED /\ Splits(h.mem, a, AtLeastMin(new_size))

\* mem_trim: the free block behind moves forward, or a new one is made.
MemTrim(h, a, new_size) ==
  LET n == AtLeastMin(new_size)
      b == a + SIZEOF_STRUCT_MEM + n
      behind == h.mem[a].next
  IN  IF n = UserSize(h.mem, a) THEN h
      ELSE IF ~h.mem[behind].used
      THEN [mem |-> Inserted(Removed(h.mem, behind), a, b),
            lfree |-> IF h.lfree = behind THEN b ELSE h.lfree]
      ELSE IF Splits(h.mem, a, n)
      THEN [mem |-> Inserted(h.mem, a, b), lfree |-> IF b < h.lfree THEN b ELSE h.lfree]
      ELSE h

\* What mem_sanity asserts, and that lfree is the lowest free block.
HeapSane(h) ==
  /\ {0, MEM_SIZE_ALIGNED} \subseteq DOMAIN h.mem
  /\ h.mem[MEM_SIZE_ALIGNED] = EmptyHeap.mem[MEM_SIZE_ALIGNED]
  /\ \A a \in DOMAIN h.mem \ {MEM_SIZE_ALIGNED} :
       LET n == h.mem[a].next
       IN  /\ n = Min({b \in DOMAIN h.mem : b > a})
           /\ n = MEM_SIZE_ALIGNED \/ h.mem[n].prev = a
           /\ UserSize(h.mem, a) >= MIN_SIZE_ALIGNED
           /\ h.mem[a].used \/ h.mem[n].used
  /\ h.lfree = LowestFree(h.mem, 0)
===============================================================================
