----------------------------- MODULE BuffersProofs -----------------------------
(***************************************************************************)
(* Pbufs over the heap, for a heap of any size and any number of pbufs:    *)
(* the list of blocks, the references and the lengths.                     *)
(***************************************************************************)
EXTENDS Buffers, FiniteSetTheorems, SequenceTheorems, WellFoundedInduction, TLAPS

\* A set of natural numbers has a least one.
LEMMA LeastNumber ==
  ASSUME NEW S \in SUBSET Nat, S # {}
  PROVE  \E i \in S : \A j \in S : i <= j
<1> DEFINE R == OpToRel(<, Nat)
<1>1. IsWellFoundedOn(R, Nat)
  BY NatLessThanWellFounded
<1>2. \A i, j \in Nat : <<i, j>> \in R <=> i < j
  BY DEF OpToRel
<1> HIDE DEF R
<1>3. PICK i \in S : \A j \in S : ~(<<j, i>> \in R)
  BY <1>1, WFMin
<1>4. \A j \in S : ~(j < i)
  BY <1>2, <1>3
<1> QED
  BY <1>4

\* Which Min is.
LEMMA LeastIsMin ==
  ASSUME NEW S \in SUBSET Nat, NEW i \in S, \A j \in S : i <= j
  PROVE  Min(S) = i
<1>1. \A k \in S : (\A j \in S : k <= j) => k = i
  OBVIOUS
<1> QED
  BY <1>1 DEF Min

-------------------------------------------------------------------------------
(* The heap. *)

\* The used blocks.
Used(mem) == {a \in DOMAIN mem : mem[a].used /\ a # MEM_SIZE_ALIGNED}

\* n is the next block after a, and knows it.
Follows(mem, a, n) ==
  /\ n \in DOMAIN mem /\ n >= a + SIZEOF_STRUCT_MEM + MIN_SIZE_ALIGNED
  /\ n # MEM_SIZE_ALIGNED => mem[n].prev = a
  /\ \A b \in DOMAIN mem : b > a => b >= n

MemOk(mem) ==
  /\ DOMAIN mem \subseteq Addr /\ mem \in [DOMAIN mem -> StructMem]

\* The list covers the memory from end to end.
ListOk(mem) ==
  /\ MemOk(mem)
  /\ 0 \in DOMAIN mem /\ MEM_SIZE_ALIGNED \in DOMAIN mem
  /\ mem[MEM_SIZE_ALIGNED] = EmptyHeap.mem[MEM_SIZE_ALIGNED]
  /\ mem[0].prev = 0
  /\ \A a \in DOMAIN mem \ {MEM_SIZE_ALIGNED} : Follows(mem, a, mem[a].next)

\* No two free blocks side by side.
Merged(mem) ==
  \A a \in DOMAIN mem \ {MEM_SIZE_ALIGNED} : mem[a].used \/ mem[mem[a].next].used

\* l is the lowest free block.
LowestOk(mem, l) ==
  /\ l \in DOMAIN mem /\ (mem[l].used => l = MEM_SIZE_ALIGNED)
  /\ \A b \in DOMAIN mem : ~mem[b].used => b >= l

HeapInv(h) == ListOk(h.mem) /\ Merged(h.mem) /\ LowestOk(h.mem, h.lfree)

LEMMA Sizes ==
  /\ SIZEOF_STRUCT_MEM \in Nat /\ SIZEOF_STRUCT_MEM > 0
  /\ MIN_SIZE_ALIGNED \in Nat /\ MIN_SIZE_ALIGNED > 0
  /\ MEM_SIZE_ALIGNED \in Nat /\ MEM_SIZE_ALIGNED >= SIZEOF_STRUCT_MEM + MIN_SIZE_ALIGNED
  /\ Addr \subseteq Nat /\ 0 \in Addr /\ MEM_SIZE_ALIGNED \in Addr
BY MemHeapAssumption DEF Addr

\* What is at ram_end.
LEMMA RamEnd ==
  EmptyHeap.mem[MEM_SIZE_ALIGNED]
    = [next |-> MEM_SIZE_ALIGNED, prev |-> MEM_SIZE_ALIGNED, used |-> TRUE]
<1>1. (MEM_SIZE_ALIGNED # 0) = TRUE
  BY Sizes
<1>2. EmptyHeap.mem[MEM_SIZE_ALIGNED]
        = [next |-> MEM_SIZE_ALIGNED, prev |-> MEM_SIZE_ALIGNED, used |-> MEM_SIZE_ALIGNED # 0]
  BY DEF EmptyHeap
<1> QED
  BY <1>1, <1>2

\* The parts of a struct mem.
LEMMA Fields ==
  ASSUME NEW mem, MemOk(mem), NEW a \in DOMAIN mem
  PROVE  /\ a \in Addr /\ a \in Nat
         /\ mem[a] \in StructMem /\ mem[a].next \in Addr /\ mem[a].prev \in Addr
         /\ mem[a].next \in Nat /\ mem[a].prev \in Nat /\ mem[a].used \in BOOLEAN
         /\ mem[a] = [next |-> mem[a].next, prev |-> mem[a].prev, used |-> mem[a].used]
<1>1. mem[a] \in StructMem /\ a \in Addr
  BY DEF MemOk
<1> QED
  BY <1>1, Sizes DEF StructMem

\* mem_init makes such a heap.
LEMMA EmptyOk == HeapInv(EmptyHeap) /\ Used(EmptyHeap.mem) = {}
<1> DEFINE mem == EmptyHeap.mem
<1>1. DOMAIN mem = {0, MEM_SIZE_ALIGNED} /\ EmptyHeap.lfree = 0
  BY DEF EmptyHeap
<1>2. mem[0] = [next |-> MEM_SIZE_ALIGNED, prev |-> 0, used |-> FALSE]
  <2>1. (0 # 0) = FALSE
    OBVIOUS
  <2>2. mem[0] = [next |-> MEM_SIZE_ALIGNED, prev |-> 0, used |-> 0 # 0]
    BY DEF EmptyHeap
  <2> QED
    BY <2>1, <2>2
<1>3. mem[MEM_SIZE_ALIGNED]
        = [next |-> MEM_SIZE_ALIGNED, prev |-> MEM_SIZE_ALIGNED, used |-> TRUE]
  BY RamEnd
<1>4. mem \in [{0, MEM_SIZE_ALIGNED} -> StructMem]
  <2>1. \A a \in {0, MEM_SIZE_ALIGNED} : mem[a] \in StructMem
    <3>1. mem[0] \in StructMem
      <4> HIDE DEF mem
      <4> QED
        BY <1>2, Sizes DEF StructMem
    <3>2. mem[MEM_SIZE_ALIGNED] \in StructMem
      <4> HIDE DEF mem
      <4> QED
        BY <1>3, Sizes DEF StructMem
    <3> QED
      BY <3>1, <3>2
  <2> QED
    BY <2>1 DEF EmptyHeap
<1>5. MemOk(mem)
  BY <1>1, <1>4, Sizes DEF MemOk
<1>6. mem[MEM_SIZE_ALIGNED] = EmptyHeap.mem[MEM_SIZE_ALIGNED]
  OBVIOUS
<1> HIDE DEF mem
<1>7. Follows(mem, 0, mem[0].next)
  BY <1>1, <1>2, Sizes DEF Follows
<1>8. ListOk(mem)
  BY <1>1, <1>2, <1>5, <1>6, <1>7, Sizes DEF ListOk
<1>9. Merged(mem) /\ LowestOk(mem, 0)
  BY <1>1, <1>2, <1>3, Sizes DEF Merged, LowestOk
<1>10. Used(mem) = {}
  BY <1>1, <1>2 DEF Used
<1> QED
  BY <1>1, <1>8, <1>9, <1>10 DEF HeapInv, mem

\* Neighbours know each other.
LEMMA Neighbours ==
  ASSUME NEW mem, ListOk(mem), NEW b \in DOMAIN mem, b # 0
  PROVE  \E a \in DOMAIN mem : /\ a < b /\ mem[a].next = b
                               /\ b # MEM_SIZE_ALIGNED => mem[b].prev = a
<1>1. \A a \in DOMAIN mem : a \in Nat /\ mem[a].next \in Nat
  BY Fields DEF ListOk
<1> DEFINE Below == {a \in DOMAIN mem : a < b}
           Dist == {b - a : a \in Below}
<1>2. 0 \in Below
  BY <1>1 DEF ListOk
<1>3. Dist \in SUBSET Nat /\ Dist # {}
  BY <1>1, <1>2
<1>4. PICK d \in Dist : \A e \in Dist : d <= e
  <2> HIDE DEF Dist
  <2> QED
    BY <1>3, LeastNumber
<1>5. PICK a \in Below : d = b - a
  OBVIOUS
<1>6. a \in DOMAIN mem /\ a < b /\ a # MEM_SIZE_ALIGNED
  <2>1. MEM_SIZE_ALIGNED >= b
    BY Sizes DEF ListOk, MemOk, Addr
  <2> QED
    BY <1>1, <2>1, Sizes
<1>7. Follows(mem, a, mem[a].next)
  BY <1>6 DEF ListOk
<1> DEFINE n == mem[a].next
<1>8. n \in DOMAIN mem /\ n \in Nat /\ n <= b /\ n > a
  BY <1>1, <1>6, <1>7, Sizes DEF Follows
<1>9. n = b
  <2>1. ASSUME n < b PROVE FALSE
    <3>1. b - n \in Dist
      BY <1>8, <2>1
    <3>2. b - a <= b - n
      BY <3>1, <1>4, <1>5
    <3> HIDE DEF n
    <3> QED
      BY <3>2, <1>1, <1>6, <1>8
  <2> HIDE DEF n
  <2> QED
    BY <2>1, <1>1, <1>8
<1> QED
  BY <1>6, <1>7, <1>9 DEF Follows

\* What Linked changes.
Relinked(mem, a, b, new) ==
  /\ MemOk(new) /\ DOMAIN new = DOMAIN mem
  /\ \A x \in DOMAIN mem :
       /\ new[x].next = (IF x = a THEN b ELSE mem[x].next)
       /\ new[x].prev = (IF x = b /\ b # MEM_SIZE_ALIGNED THEN a ELSE mem[x].prev)
       /\ new[x].used = mem[x].used

LEMMA LinkedFields ==
  ASSUME NEW mem, MemOk(mem), NEW a \in DOMAIN mem, NEW b \in Addr, a # b
  PROVE  Relinked(mem, a, b, Linked(mem, a, b))
<1> DEFINE new == Linked(mem, a, b)
<1>1. DOMAIN new = DOMAIN mem
  BY DEF Linked
<1>2. a \in Addr
  BY DEF MemOk
<1>3. ASSUME NEW x \in DOMAIN mem
      PROVE  /\ new[x] \in StructMem
             /\ new[x].next = (IF x = a THEN b ELSE mem[x].next)
             /\ new[x].prev = (IF x = b /\ b # MEM_SIZE_ALIGNED THEN a ELSE mem[x].prev)
             /\ new[x].used = mem[x].used
  <2>1. mem[x] \in StructMem
    BY DEF MemOk
  <2>2. CASE x = a
    <3>1. new[x] = [mem[x] EXCEPT !.next = b]
      BY <2>2 DEF Linked
    <3> QED
      BY <2>1, <2>2, <3>1 DEF StructMem
  <2>3. CASE x # a /\ x = b /\ b # MEM_SIZE_ALIGNED
    <3>1. new[x] = [mem[x] EXCEPT !.prev = a]
      BY <2>3 DEF Linked
    <3> QED
      BY <1>2, <2>1, <2>3, <3>1 DEF StructMem
  <2>4. CASE x # a /\ ~(x = b /\ b # MEM_SIZE_ALIGNED)
    <3>1. new[x] = mem[x]
      BY <2>4 DEF Linked
    <3> QED
      BY <2>1, <2>4, <3>1
  <2> QED
    BY <2>2, <2>3, <2>4
<1>4. new \in [DOMAIN mem -> StructMem]
  <2>1. new = [x \in DOMAIN mem |-> new[x]]
    BY <1>1 DEF Linked
  <2> HIDE DEF new
  <2> QED
    BY <1>3, <2>1
<1>5. MemOk(new)
  BY <1>1, <1>4 DEF MemOk
<1> HIDE DEF new
<1>6. Relinked(mem, a, b, new)
  BY <1>1, <1>3, <1>5 DEF Relinked
<1> QED
  BY <1>6 DEF new

\* What Inserted changes.
IsInserted(mem, a, b, new) ==
  /\ MemOk(new) /\ DOMAIN new = DOMAIN mem \cup {b}
  /\ new[b].next = mem[a].next /\ new[b].prev = a /\ new[b].used = FALSE
  /\ \A x \in DOMAIN mem :
       /\ new[x].next = (IF x = a THEN b ELSE mem[x].next)
       /\ new[x].prev = (IF x = mem[a].next /\ x # MEM_SIZE_ALIGNED THEN b ELSE mem[x].prev)
       /\ new[x].used = mem[x].used

LEMMA InsertedFields ==
  ASSUME NEW mem, MemOk(mem), NEW a \in DOMAIN mem, NEW b \in Addr \ DOMAIN mem,
         b # MEM_SIZE_ALIGNED, mem[a].next \in DOMAIN mem, mem[a].next # a
  PROVE  IsInserted(mem, a, b, Inserted(mem, a, b))
<1> DEFINE n == mem[a].next
           r == [next |-> n, prev |-> a, used |-> FALSE]
           with == [x \in DOMAIN mem \cup {b} |-> IF x = b THEN r ELSE mem[x]]
           one == Linked(with, b, n)
           two == Linked(one, a, b)
<1>1. a \in Addr /\ n \in Addr /\ a # b /\ n # b
  BY DEF MemOk
<1>2. r \in StructMem /\ r.next = n /\ r.prev = a /\ r.used = FALSE
  BY <1>1 DEF StructMem
<1>3. with[b] = r /\ \A x \in DOMAIN mem : with[x] = mem[x]
  OBVIOUS
<1>4. MemOk(with) /\ DOMAIN with = DOMAIN mem \cup {b}
  <2>1. \A x \in DOMAIN mem \cup {b} : (IF x = b THEN r ELSE mem[x]) \in StructMem
    BY <1>2 DEF MemOk
  <2> HIDE DEF r
  <2> QED
    BY <2>1 DEF MemOk
<1>5. Inserted(mem, a, b) = two
  BY DEF Inserted
<1> HIDE DEF with
<1>6. Relinked(with, b, n, one)
  <2> HIDE DEF n
  <2> QED
    BY <1>1, <1>4, LinkedFields
<1> HIDE DEF one
<1>7. MemOk(one) /\ DOMAIN one = DOMAIN with
  BY <1>6 DEF Relinked
<1>8. Relinked(one, a, b, two)
  <2>1. a \in DOMAIN one
    BY <1>4, <1>7
  <2> QED
    BY <1>1, <1>7, <2>1, LinkedFields
<1> HIDE DEF two, n
<1>9. MemOk(two) /\ DOMAIN two = DOMAIN mem \cup {b}
  BY <1>4, <1>7, <1>8 DEF Relinked
<1>10. two[b].next = n /\ two[b].prev = a /\ two[b].used = FALSE
  <2>1. one[b].next = n /\ one[b].used = FALSE
    BY <1>1, <1>2, <1>3, <1>4, <1>6 DEF Relinked
  <2> QED
    BY <1>1, <1>4, <1>7, <1>8, <2>1 DEF Relinked
<1>11. ASSUME NEW x \in DOMAIN mem
       PROVE  /\ two[x].next = (IF x = a THEN b ELSE mem[x].next)
              /\ two[x].prev = (IF x = n /\ x # MEM_SIZE_ALIGNED THEN b ELSE mem[x].prev)
              /\ two[x].used = mem[x].used
  <2>1. x # b /\ x \in DOMAIN with /\ x \in DOMAIN one /\ with[x] = mem[x]
    BY <1>3, <1>4, <1>7
  <2>2. /\ one[x].next = mem[x].next /\ one[x].used = mem[x].used
        /\ one[x].prev = (IF x = n /\ x # MEM_SIZE_ALIGNED THEN b ELSE mem[x].prev)
    BY <2>1, <1>6 DEF Relinked
  <2>3. /\ two[x].next = (IF x = a THEN b ELSE one[x].next) /\ two[x].used = one[x].used
        /\ two[x].prev = one[x].prev
    BY <2>1, <1>8 DEF Relinked
  <2> QED
    BY <2>2, <2>3
<1> QED
  BY <1>5, <1>9, <1>10, <1>11 DEF IsInserted, n

\* What Removed changes.
IsRemoved(mem, b, new) ==
  /\ MemOk(new) /\ DOMAIN new = DOMAIN mem \ {b}
  /\ \A x \in DOMAIN mem \ {b} :
       /\ new[x].next = (IF x = mem[b].prev THEN mem[b].next ELSE mem[x].next)
       /\ new[x].prev = (IF x = mem[b].next /\ x # MEM_SIZE_ALIGNED
                         THEN mem[b].prev ELSE mem[x].prev)
       /\ new[x].used = mem[x].used

LEMMA RemovedFields ==
  ASSUME NEW mem, MemOk(mem), NEW b \in DOMAIN mem,
         mem[b].prev \in DOMAIN mem, mem[b].prev # mem[b].next
  PROVE  IsRemoved(mem, b, Removed(mem, b))
<1> DEFINE p == mem[b].prev
           n == mem[b].next
           one == Linked(mem, p, n)
           two == Removed(mem, b)
<1>1. n \in Addr
  BY Fields
<1>2. Relinked(mem, p, n, one)
  <2> HIDE DEF p, n
  <2> QED
    BY <1>1, LinkedFields DEF p, n
<1>3. two = [x \in DOMAIN mem \ {b} |-> one[x]]
  BY DEF Removed, Restrict
<1> HIDE DEF two, one
<1>4. DOMAIN two = DOMAIN mem \ {b} /\ \A x \in DOMAIN mem \ {b} : two[x] = one[x]
  BY <1>3
<1>5. MemOk(two)
  BY <1>2, <1>3 DEF Relinked, MemOk
<1> HIDE DEF p, n
<1>6. IsRemoved(mem, b, two)
  BY <1>2, <1>4, <1>5 DEF Relinked, IsRemoved, p, n
<1> QED
  BY <1>6 DEF two

\* A block put between two others.
LEMMA InsertedOk ==
  ASSUME NEW mem, ListOk(mem), NEW a \in DOMAIN mem \ {MEM_SIZE_ALIGNED}, NEW b \in Nat,
         b >= a + SIZEOF_STRUCT_MEM + MIN_SIZE_ALIGNED,
         mem[a].next >= b + SIZEOF_STRUCT_MEM + MIN_SIZE_ALIGNED
  PROVE  /\ b \notin DOMAIN mem /\ b < MEM_SIZE_ALIGNED
         /\ IsInserted(mem, a, b, Inserted(mem, a, b)) /\ ListOk(Inserted(mem, a, b))
<1> DEFINE n == mem[a].next
           new == Inserted(mem, a, b)
<1>1. MemOk(mem) /\ Follows(mem, a, n)
  BY DEF ListOk
<1>2. n \in DOMAIN mem /\ (n # MEM_SIZE_ALIGNED => mem[n].prev = a)
      /\ \A y \in DOMAIN mem : y > a => y >= n
  BY <1>1 DEF Follows
<1>3. \A y \in DOMAIN mem : y \in Nat /\ y <= MEM_SIZE_ALIGNED
  BY <1>1, Sizes DEF MemOk, Addr
<1>4. a \in Nat /\ n \in Nat /\ a < b /\ b < n
  BY <1>2, <1>3, Sizes
<1>5. b \notin DOMAIN mem /\ b < MEM_SIZE_ALIGNED /\ b \in Addr
  BY <1>2, <1>3, <1>4, Sizes DEF Addr
<1>6. IsInserted(mem, a, b, new)
  BY <1>1, <1>2, <1>4, <1>5, Sizes, InsertedFields
<1> HIDE DEF new, n
<1> USE DEF n
<1>7. MemOk(new) /\ DOMAIN new = DOMAIN mem \cup {b}
  BY <1>6 DEF IsInserted
<1>8. new[b].next = n /\ new[b].prev = a /\ new[b].used = FALSE
  BY <1>6 DEF IsInserted
<1>9. \A x \in DOMAIN mem :
        /\ new[x].next = (IF x = a THEN b ELSE mem[x].next)
        /\ new[x].prev = (IF x = n /\ x # MEM_SIZE_ALIGNED THEN b ELSE mem[x].prev)
        /\ new[x].used = mem[x].used
  BY <1>6 DEF IsInserted
<1> HIDE DEF n
<1>10. ASSUME NEW x \in DOMAIN new \ {MEM_SIZE_ALIGNED} PROVE Follows(new, x, new[x].next)
  <2>1. CASE x = b
    <3>1. n # MEM_SIZE_ALIGNED => new[n].prev = b
      BY <1>2, <1>9
    <3>2. n >= b + SIZEOF_STRUCT_MEM + MIN_SIZE_ALIGNED
      BY DEF n
    <3>3. \A y \in DOMAIN new : y > b => y >= n
      BY <1>2, <1>3, <1>4, <1>7
    <3> QED
      BY <2>1, <1>2, <1>7, <1>8, <3>1, <3>2, <3>3 DEF Follows
  <2>2. CASE x = a
    <3>1. new[a].next = b /\ new[b].prev = a
      BY <1>8, <1>9
    <3>2. \A y \in DOMAIN new : y > a => y >= b
      BY <1>2, <1>3, <1>4, <1>7
    <3> QED
      BY <2>2, <1>7, <3>1, <3>2 DEF Follows
  <2>3. CASE x # a /\ x # b
    <3> DEFINE m == mem[x].next
    <3>1. x \in DOMAIN mem \ {MEM_SIZE_ALIGNED} /\ new[x].next = m
      BY <2>3, <1>7, <1>9
    <3>2. Follows(mem, x, m)
      BY <3>1 DEF ListOk
    <3> HIDE DEF m
    <3>3. /\ m \in DOMAIN mem /\ m >= x + SIZEOF_STRUCT_MEM + MIN_SIZE_ALIGNED
          /\ m # MEM_SIZE_ALIGNED => mem[m].prev = x
          /\ \A y \in DOMAIN mem : y > x => y >= m
      BY <3>2 DEF Follows
    <3>4. m # MEM_SIZE_ALIGNED => new[m].prev = x
      BY <3>3, <1>2, <1>9, <2>3
    <3>5. b > x => b >= m
      <4>1. ASSUME b > x PROVE b >= m
        <5>1. ~(x > a)
          BY <4>1, <1>2, <1>3, <1>4, <3>1
        <5>2. a > x
          BY <5>1, <2>3, <3>1, <1>3, <1>4
        <5> QED
          BY <5>2, <3>3, <1>3, <1>4
      <4> QED
        BY <4>1
    <3> QED
      BY <3>1, <3>3, <3>4, <3>5, <1>7 DEF Follows
  <2> QED
    BY <2>1, <2>2, <2>3
<1>11. new[MEM_SIZE_ALIGNED] = mem[MEM_SIZE_ALIGNED]
  <2>1. MEM_SIZE_ALIGNED \in DOMAIN mem /\ MEM_SIZE_ALIGNED \in DOMAIN new
    BY <1>7 DEF ListOk
  <2>2. /\ new[MEM_SIZE_ALIGNED].next = mem[MEM_SIZE_ALIGNED].next
        /\ new[MEM_SIZE_ALIGNED].prev = mem[MEM_SIZE_ALIGNED].prev
        /\ new[MEM_SIZE_ALIGNED].used = mem[MEM_SIZE_ALIGNED].used
    BY <1>9, <2>1
  <2> QED
    BY <1>1, <1>7, <2>1, <2>2, Fields
<1>12. new[0].prev = 0
  <2>1. 0 \in DOMAIN mem /\ mem[0].prev = 0 /\ 0 # n
    BY <1>4 DEF ListOk
  <2> QED
    BY <2>1, <1>9
<1>13. ListOk(new)
  BY <1>7, <1>10, <1>11, <1>12 DEF ListOk
<1> QED
  BY <1>5, <1>6, <1>13 DEF new

\* A block that goes up in the one before it.
LEMMA RemovedOk ==
  ASSUME NEW mem, ListOk(mem), NEW b \in DOMAIN mem \ {0, MEM_SIZE_ALIGNED}
  PROVE  /\ IsRemoved(mem, b, Removed(mem, b)) /\ ListOk(Removed(mem, b))
         /\ mem[b].prev \in DOMAIN mem \ {MEM_SIZE_ALIGNED}
         /\ mem[b].prev < b /\ mem[mem[b].prev].next = b
         /\ mem[b].next \in DOMAIN mem /\ b < mem[b].next
<1> DEFINE p == mem[b].prev
           n == mem[b].next
           new == Removed(mem, b)
<1>1. MemOk(mem) /\ Follows(mem, b, n)
  BY DEF ListOk
<1>2. \A y \in DOMAIN mem : y \in Nat /\ y <= MEM_SIZE_ALIGNED
  BY <1>1, Sizes DEF MemOk, Addr
<1>3. p \in DOMAIN mem /\ p < b /\ mem[p].next = b
  BY Neighbours
<1>4. p # MEM_SIZE_ALIGNED
  <2> HIDE DEF p
  <2> QED
    BY <1>2, <1>3, Sizes
<1>5. Follows(mem, p, b)
  BY <1>3, <1>4 DEF ListOk
<1>6. /\ n \in DOMAIN mem /\ n >= b + SIZEOF_STRUCT_MEM + MIN_SIZE_ALIGNED
      /\ \A y \in DOMAIN mem : y > b => y >= n
  BY <1>1 DEF Follows
<1>7. /\ b >= p + SIZEOF_STRUCT_MEM + MIN_SIZE_ALIGNED
      /\ \A y \in DOMAIN mem : y > p => y >= b
  BY <1>5 DEF Follows
<1>8. b < n /\ b \in Nat /\ p \in Nat /\ n \in Nat
  <2> HIDE DEF n, p
  <2> QED
    BY <1>2, <1>3, <1>6, Sizes
<1>9. IsRemoved(mem, b, new)
  BY <1>1, <1>3, <1>8, RemovedFields
<1> HIDE DEF new
<1>10. MemOk(new) /\ DOMAIN new = DOMAIN mem \ {b}
  BY <1>9 DEF IsRemoved
<1>11. \A x \in DOMAIN mem \ {b} :
         /\ new[x].next = (IF x = p THEN n ELSE mem[x].next)
         /\ new[x].prev = (IF x = n /\ x # MEM_SIZE_ALIGNED THEN p ELSE mem[x].prev)
         /\ new[x].used = mem[x].used
  BY <1>9 DEF IsRemoved
<1> HIDE DEF n, p
<1>12. ASSUME NEW x \in DOMAIN new \ {MEM_SIZE_ALIGNED} PROVE Follows(new, x, new[x].next)
  <2>1. CASE x = p
    <3>1. new[x].next = n /\ n \in DOMAIN new
      BY <2>1, <1>6, <1>8, <1>10, <1>11
    <3>2. n # MEM_SIZE_ALIGNED => new[n].prev = p
      BY <1>11, <1>6, <1>8
    <3>3. n >= p + SIZEOF_STRUCT_MEM + MIN_SIZE_ALIGNED
      BY <1>3, <1>6, <1>8, Sizes
    <3>4. \A y \in DOMAIN new : y > p => y >= n
      <4> TAKE y \in DOMAIN new
      <4>1. y \in DOMAIN mem /\ y # b /\ y \in Nat
        BY <1>2, <1>10
      <4> QED
        BY <4>1, <1>6, <1>7, <1>8
    <3> QED
      BY <2>1, <3>1, <3>2, <3>3, <3>4 DEF Follows
  <2>2. CASE x # p
    <3> DEFINE m == mem[x].next
    <3>1. x \in DOMAIN mem \ {b, MEM_SIZE_ALIGNED} /\ new[x].next = m
      BY <2>2, <1>10, <1>11
    <3>2. Follows(mem, x, m)
      BY <3>1 DEF ListOk
    <3> HIDE DEF m
    <3>3. /\ m \in DOMAIN mem /\ m >= x + SIZEOF_STRUCT_MEM + MIN_SIZE_ALIGNED
          /\ m # MEM_SIZE_ALIGNED => mem[m].prev = x
          /\ \A y \in DOMAIN mem : y > x => y >= m
      BY <3>2 DEF Follows
    <3>4. m # b
      BY <3>3, <2>2 DEF p
    <3>5. m # MEM_SIZE_ALIGNED => m # n
      <4>1. n # MEM_SIZE_ALIGNED => mem[n].prev = b
        BY <1>1 DEF Follows, n
      <4> QED
        BY <4>1, <3>1, <3>3
    <3>6. m # MEM_SIZE_ALIGNED => new[m].prev = x
      BY <3>3, <3>4, <3>5, <1>11
    <3> QED
      BY <3>1, <3>3, <3>4, <3>6, <1>10 DEF Follows
  <2> QED
    BY <2>1, <2>2
<1>13. new[MEM_SIZE_ALIGNED] = mem[MEM_SIZE_ALIGNED]
  <2>1. MEM_SIZE_ALIGNED \in DOMAIN mem \ {b} /\ MEM_SIZE_ALIGNED \in DOMAIN new
    BY <1>10 DEF ListOk
  <2>2. /\ new[MEM_SIZE_ALIGNED].next = mem[MEM_SIZE_ALIGNED].next
        /\ new[MEM_SIZE_ALIGNED].prev = mem[MEM_SIZE_ALIGNED].prev
        /\ new[MEM_SIZE_ALIGNED].used = mem[MEM_SIZE_ALIGNED].used
    BY <1>4, <1>11, <2>1
  <2> QED
    BY <1>1, <1>10, <2>1, <2>2, Fields
<1>14. 0 \in DOMAIN new /\ new[0].prev = 0
  <2>1. 0 \in DOMAIN mem \ {b} /\ mem[0].prev = 0 /\ 0 # n
    BY <1>8 DEF ListOk
  <2> QED
    BY <2>1, <1>10, <1>11
<1>15. ListOk(new)
  BY <1>10, <1>12, <1>13, <1>14 DEF ListOk
<1> QED
  BY <1>3, <1>4, <1>6, <1>8, <1>9, <1>15 DEF new, n, p

\* A block marked used or free.
IsMarked(mem, a, v, new) ==
  /\ MemOk(new) /\ DOMAIN new = DOMAIN mem
  /\ \A x \in DOMAIN mem : /\ new[x].next = mem[x].next /\ new[x].prev = mem[x].prev
                           /\ new[x].used = (IF x = a THEN v ELSE mem[x].used)

LEMMA MarkedOk ==
  ASSUME NEW mem, ListOk(mem), NEW a \in DOMAIN mem \ {MEM_SIZE_ALIGNED}, NEW v \in BOOLEAN
  PROVE  /\ IsMarked(mem, a, v, [mem EXCEPT ![a].used = v])
         /\ ListOk([mem EXCEPT ![a].used = v])
<1> DEFINE new == [mem EXCEPT ![a].used = v]
<1>1. MemOk(mem)
  BY DEF ListOk
<1>2. DOMAIN new = DOMAIN mem
  OBVIOUS
<1>3. ASSUME NEW x \in DOMAIN mem
      PROVE  /\ new[x] \in StructMem
             /\ new[x].next = mem[x].next /\ new[x].prev = mem[x].prev
             /\ new[x].used = (IF x = a THEN v ELSE mem[x].used)
  <2>1. mem[x] \in StructMem
    BY <1>1 DEF MemOk
  <2>2. CASE x = a
    <3>1. new[x] = [mem[x] EXCEPT !.used = v]
      BY <2>2
    <3> HIDE DEF new
    <3> QED
      BY <2>1, <2>2, <3>1 DEF StructMem
  <2>3. CASE x # a
    BY <2>1, <2>3
  <2> QED
    BY <2>2, <2>3
<1>4. new \in [DOMAIN mem -> StructMem]
  <2>1. new = [x \in DOMAIN mem |-> new[x]]
    BY <1>2
  <2> HIDE DEF new
  <2> QED
    BY <1>3, <2>1
<1> HIDE DEF new
<1>5. MemOk(new)
  BY <1>1, <1>2, <1>4 DEF MemOk
<1>6. IsMarked(mem, a, v, new)
  BY <1>2, <1>3, <1>5 DEF IsMarked
<1>7. ASSUME NEW x \in DOMAIN new \ {MEM_SIZE_ALIGNED} PROVE Follows(new, x, new[x].next)
  <2>1. Follows(mem, x, mem[x].next)
    BY <1>2 DEF ListOk
  <2> QED
    BY <1>2, <1>3, <2>1 DEF Follows
<1>8. new[MEM_SIZE_ALIGNED] = mem[MEM_SIZE_ALIGNED]
  <2>1. MEM_SIZE_ALIGNED \in DOMAIN mem
    BY DEF ListOk
  <2> QED
    BY <1>1, <1>2, <1>3, <1>5, <2>1, Fields
<1>9. ListOk(new)
  BY <1>2, <1>3, <1>5, <1>7, <1>8 DEF ListOk
<1> QED
  BY <1>6, <1>9 DEF new

\* Two free blocks side by side.
Pair(mem, x) ==
  x \in DOMAIN mem \ {MEM_SIZE_ALIGNED} /\ ~mem[x].used /\ ~mem[mem[x].next].used

\* Used blocks stay where they are.
SameBlocks(mem, new) ==
  /\ Used(new) = Used(mem)
  /\ \A u \in Used(mem) : new[u].next = mem[u].next

\* A free block goes up in the free one before it.
LEMMA CombinedOk ==
  ASSUME NEW h, ListOk(h.mem), LowestOk(h.mem, h.lfree),
         NEW b \in DOMAIN h.mem \ {0, MEM_SIZE_ALIGNED},
         ~h.mem[b].used, ~h.mem[h.mem[b].prev].used
  PROVE  /\ IsRemoved(h.mem, b, Combined(h, b).mem)
         /\ ListOk(Combined(h, b).mem) /\ Combined(h, b).lfree = h.lfree
         /\ LowestOk(Combined(h, b).mem, h.lfree)
         /\ SameBlocks(h.mem, Combined(h, b).mem)
         /\ \A x : Pair(Combined(h, b).mem, x) =>
              IF x = h.mem[b].prev THEN Pair(h.mem, b) ELSE Pair(h.mem, x)
<1> DEFINE mem == h.mem
           p == mem[b].prev
           n == mem[b].next
           new == Combined(h, b).mem
<1>1. new = Removed(mem, b)
  BY DEF Combined
<1>2. /\ IsRemoved(mem, b, new) /\ ListOk(new)
      /\ p \in DOMAIN mem \ {MEM_SIZE_ALIGNED} /\ p < b /\ mem[p].next = b
      /\ n \in DOMAIN mem /\ b < n
  BY <1>1, RemovedOk
<1>3. MemOk(mem) /\ MemOk(new)
  BY <1>2 DEF ListOk
<1>4. \A x \in DOMAIN mem : x \in Nat
  BY <1>3, Fields
<1>5. h.lfree \in DOMAIN mem /\ h.lfree \in Nat /\ p >= h.lfree
      /\ \A x \in DOMAIN mem : ~mem[x].used => x >= h.lfree
  BY <1>2, <1>4 DEF LowestOk
<1>6. h.lfree # b
  <2> HIDE DEF p, mem
  <2> QED
    BY <1>2, <1>4, <1>5
<1>7. Combined(h, b).lfree = h.lfree
  BY <1>6 DEF Combined
<1> HIDE DEF new
<1>8. DOMAIN new = DOMAIN mem \ {b}
      /\ \A x \in DOMAIN mem \ {b} :
           /\ new[x].next = (IF x = p THEN n ELSE mem[x].next)
           /\ new[x].used = mem[x].used
  BY <1>2 DEF IsRemoved
<1> HIDE DEF p, n, mem
<1>9. LowestOk(new, h.lfree)
  BY <1>5, <1>6, <1>8 DEF LowestOk, mem
<1>10. ~mem[b].used /\ ~mem[p].used
  BY DEF mem, p
<1>11. SameBlocks(mem, new)
  <2>1. Used(new) = Used(mem)
    BY <1>8, <1>10 DEF Used
  <2>2. ASSUME NEW u \in Used(mem) PROVE new[u].next = mem[u].next
    BY <1>8, <1>10 DEF Used
  <2> QED
    BY <2>1, <2>2 DEF SameBlocks
<1>12. ASSUME NEW x, Pair(new, x) PROVE IF x = p THEN Pair(mem, b) ELSE Pair(mem, x)
  <2>1. x \in DOMAIN mem \ {b, MEM_SIZE_ALIGNED} /\ ~mem[x].used
    BY <1>8, <1>12 DEF Pair
  <2>2. Follows(new, x, new[x].next)
    BY <1>2, <1>12 DEF ListOk, Pair
  <2>3. new[x].next \in DOMAIN mem \ {b} /\ ~mem[new[x].next].used
    BY <1>8, <1>12, <2>2 DEF Pair, Follows
  <2>4. CASE x = p
    <3>1. new[x].next = mem[b].next
      BY <1>8, <2>1, <2>4 DEF n
    <3> QED
      BY <1>10, <2>3, <2>4, <3>1 DEF Pair, mem
  <2>5. CASE x # p
    <3>1. new[x].next = mem[x].next
      BY <1>8, <2>1, <2>5
    <3> QED
      BY <2>1, <2>3, <2>5, <3>1 DEF Pair
  <2> QED
    BY <2>4, <2>5
<1>13. \A x : Pair(new, x) => IF x = p THEN Pair(mem, b) ELSE Pair(mem, x)
  BY <1>12
<1> QED
  BY <1>2, <1>7, <1>9, <1>11, <1>13 DEF new, mem, p

\* What became of the used blocks when a was freed.
LEMMA MemFreeOk ==
  ASSUME NEW h, HeapInv(h), NEW a \in Used(h.mem)
  PROVE  /\ HeapInv(MemFree(h, a)) /\ Used(MemFree(h, a).mem) = Used(h.mem) \ {a}
         /\ \A u \in Used(h.mem) \ {a} : MemFree(h, a).mem[u].next = h.mem[u].next
<1> DEFINE one == [mem |-> [h.mem EXCEPT ![a].used = FALSE],
                   lfree |-> IF a < h.lfree THEN a ELSE h.lfree]
           mem == one.mem
           n == mem[a].next
           fw == IF mem[n].used THEN one ELSE Combined(one, n)
           p == mem[a].prev
           new == MemFree(h, a)
<1>1. new = IF p # a /\ ~fw.mem[p].used THEN Combined(fw, a) ELSE fw
  BY DEF MemFree, PlugHoles
<1>2. ListOk(h.mem) /\ Merged(h.mem) /\ LowestOk(h.mem, h.lfree)
  BY DEF HeapInv
<1>3. a \in DOMAIN h.mem \ {MEM_SIZE_ALIGNED} /\ h.mem[a].used
  BY DEF Used
<1>4. mem = [h.mem EXCEPT ![a].used = FALSE]
  OBVIOUS
<1>5. one.lfree = IF a < h.lfree THEN a ELSE h.lfree
  OBVIOUS
<1> HIDE DEF one, new
<1>6. IsMarked(h.mem, a, FALSE, mem) /\ ListOk(mem)
  <2>1. FALSE \in BOOLEAN
    OBVIOUS
  <2>2. /\ IsMarked(h.mem, a, FALSE, [h.mem EXCEPT ![a].used = FALSE])
        /\ ListOk([h.mem EXCEPT ![a].used = FALSE])
    BY <1>2, <1>3, <2>1, MarkedOk, Zenon
  <2> QED
    BY <1>4, <2>2, Zenon
<1>7. DOMAIN mem = DOMAIN h.mem /\ MemOk(mem)
      /\ \A x \in DOMAIN h.mem : /\ mem[x].next = h.mem[x].next
                                 /\ mem[x].used = (IF x = a THEN FALSE ELSE h.mem[x].used)
  BY <1>6 DEF IsMarked
<1>8. \A x \in DOMAIN mem : x \in Nat /\ x <= MEM_SIZE_ALIGNED
  BY <1>7, Sizes DEF MemOk, Addr
<1>9. LowestOk(mem, one.lfree)
  <2>1. h.lfree \in DOMAIN mem /\ (h.mem[h.lfree].used => h.lfree = MEM_SIZE_ALIGNED)
        /\ \A b \in DOMAIN mem : ~h.mem[b].used => b >= h.lfree
    BY <1>2, <1>7 DEF LowestOk
  <2>2. a \in Nat /\ h.lfree \in Nat /\ h.lfree <= MEM_SIZE_ALIGNED /\ a < MEM_SIZE_ALIGNED
    BY <1>3, <1>7, <1>8, <2>1, Sizes
  <2>3. CASE a < h.lfree
    <3>1. one.lfree = a /\ ~mem[a].used
      BY <1>3, <1>5, <1>7, <2>3
    <3>2. \A b \in DOMAIN mem : ~mem[b].used => b >= a
      <4> TAKE b \in DOMAIN mem
      <4>1. b \in Nat /\ (b # a => mem[b].used = h.mem[b].used)
        BY <1>7, <1>8
      <4> QED
        BY <2>1, <2>2, <2>3, <4>1
    <3> QED
      BY <1>3, <1>7, <3>1, <3>2 DEF LowestOk
  <2>4. CASE ~(a < h.lfree)
    <3>1. one.lfree = h.lfree /\ h.lfree # MEM_SIZE_ALIGNED
      BY <1>5, <2>2, <2>4
    <3>2. ~mem[h.lfree].used
      BY <1>7, <2>1, <3>1
    <3>3. \A b \in DOMAIN mem : ~mem[b].used => b >= h.lfree
      <4> TAKE b \in DOMAIN mem
      <4>1. b \in Nat /\ (b # a => mem[b].used = h.mem[b].used)
        BY <1>7, <1>8
      <4> QED
        BY <2>1, <2>2, <2>4, <4>1
    <3> QED
      BY <2>1, <3>1, <3>2, <3>3 DEF LowestOk
  <2> QED
    BY <2>3, <2>4
<1>10. /\ Used(mem) = Used(h.mem) \ {a}
       /\ \A u \in Used(h.mem) : mem[u].next = h.mem[u].next
  BY <1>7 DEF Used
<1>11. ~mem[a].used /\ a \in DOMAIN mem \ {MEM_SIZE_ALIGNED}
  BY <1>3, <1>7
<1>12. Follows(mem, a, n)
  BY <1>6, <1>11 DEF ListOk
<1>13. n \in DOMAIN mem /\ n > a /\ n # 0 /\ (n # MEM_SIZE_ALIGNED => mem[n].prev = a)
  <2>1. n \in DOMAIN mem /\ n >= a + SIZEOF_STRUCT_MEM + MIN_SIZE_ALIGNED
        /\ (n # MEM_SIZE_ALIGNED => mem[n].prev = a)
    BY <1>12 DEF Follows
  <2> HIDE DEF n
  <2>2. n \in Nat /\ a \in Nat
    BY <1>8, <1>11, <2>1
  <2> QED
    BY <2>1, <2>2, Sizes
<1>14. \A x : Pair(mem, x) => x = a \/ mem[x].next = a
  <2> TAKE x
  <2>1. ASSUME Pair(mem, x), x # a, mem[x].next # a PROVE FALSE
    <3>1. x \in DOMAIN h.mem \ {MEM_SIZE_ALIGNED} /\ ~h.mem[x].used
      BY <1>7, <2>1 DEF Pair
    <3>2. h.mem[x].next \in DOMAIN h.mem
      BY <1>2, <3>1 DEF ListOk, Follows
    <3>3. ~h.mem[h.mem[x].next].used
      BY <1>7, <2>1, <3>1, <3>2 DEF Pair
    <3> QED
      BY <1>2, <3>1, <3>3 DEF Merged
  <2> QED
    BY <2>1
<1> HIDE DEF mem
\* The heap after the block behind was looked at.
<1>15. /\ ListOk(fw.mem) /\ LowestOk(fw.mem, fw.lfree) /\ SameBlocks(mem, fw.mem)
       /\ a \in DOMAIN fw.mem /\ ~fw.mem[a].used
       /\ \A x : Pair(fw.mem, x) => fw.mem[x].next = a
       /\ a # 0 => fw.mem[a].prev = p /\ fw.mem[p].used = mem[p].used
  <2>1. CASE mem[n].used
    <3>1. fw = one /\ fw.mem = mem
      BY <2>1 DEF mem
    <3>2. \A x : Pair(mem, x) => mem[x].next = a
      BY <1>14, <2>1 DEF Pair
    <3>3. SameBlocks(mem, mem)
      BY DEF SameBlocks
    <3> HIDE DEF fw, p
    <3> QED
      BY <1>6, <1>9, <1>11, <3>1, <3>2, <3>3 DEF p
  <2>2. CASE ~mem[n].used
    <3>1. fw = Combined(one, n)
      BY <2>2
    <3>2. n # MEM_SIZE_ALIGNED
      <4>1. mem[MEM_SIZE_ALIGNED].used
        BY <1>6, RamEnd DEF ListOk
      <4> QED
        BY <2>2, <4>1
    <3>3. mem[n].prev = a
      BY <1>13, <3>2
    <3> HIDE DEF fw, n
    <3>4. /\ IsRemoved(mem, n, fw.mem) /\ ListOk(fw.mem) /\ fw.lfree = one.lfree
          /\ LowestOk(fw.mem, one.lfree) /\ SameBlocks(mem, fw.mem)
          /\ \A x : Pair(fw.mem, x) =>
               IF x = mem[n].prev THEN Pair(mem, n) ELSE Pair(mem, x)
      BY <1>6, <1>9, <1>11, <1>13, <2>2, <3>1, <3>2, <3>3, CombinedOk DEF mem
    <3>5. DOMAIN fw.mem = DOMAIN mem \ {n}
          /\ \A x \in DOMAIN mem \ {n} :
               /\ fw.mem[x].next = (IF x = mem[n].prev THEN mem[n].next ELSE mem[x].next)
               /\ fw.mem[x].prev = (IF x = mem[n].next /\ x # MEM_SIZE_ALIGNED
                                    THEN mem[n].prev ELSE mem[x].prev)
               /\ fw.mem[x].used = mem[x].used
      BY <3>4 DEF IsRemoved
    <3>6. a # n /\ a \in DOMAIN fw.mem /\ ~fw.mem[a].used
      BY <1>8, <1>11, <1>13, <3>5
    <3>7. mem[n].next \in DOMAIN mem /\ mem[n].next > n
      <4>1. Follows(mem, n, mem[n].next)
        BY <1>6, <1>13, <3>2 DEF ListOk
      <4>2. mem[n].next \in DOMAIN mem
            /\ mem[n].next >= n + SIZEOF_STRUCT_MEM + MIN_SIZE_ALIGNED
        BY <4>1 DEF Follows
      <4> QED
        BY <4>2, <1>8, <1>13, Sizes
    <3>8. ~Pair(mem, n)
      <4>1. mem[n].next # a
        BY <1>8, <1>11, <1>13, <3>7
      <4> QED
        BY <1>14, <3>6, <4>1
    <3>9. \A x : Pair(fw.mem, x) => fw.mem[x].next = a
      <4> TAKE x
      <4>1. ASSUME Pair(fw.mem, x) PROVE fw.mem[x].next = a
        <5>1. x # a /\ Pair(mem, x)
          BY <3>3, <3>4, <3>8, <4>1
        <5>2. mem[x].next = a
          BY <1>14, <5>1
        <5>3. x \in DOMAIN mem \ {n}
          BY <3>5, <4>1 DEF Pair
        <5> QED
          BY <3>3, <3>5, <5>1, <5>2, <5>3
      <4> QED
        BY <4>1
    <3>10. a # 0 => fw.mem[a].prev = p /\ fw.mem[p].used = mem[p].used
      <4>1. ASSUME a # 0 PROVE p \in DOMAIN mem /\ p < a
        BY <1>6, <1>11, <4>1, RemovedOk
      <4>2. a # mem[n].next
        BY <1>8, <1>11, <1>13, <3>7
      <4>3. ASSUME a # 0 PROVE p # n
        <5> HIDE DEF p
        <5> QED
          BY <1>8, <1>11, <1>13, <4>1, <4>3
      <4> HIDE DEF p
      <4> QED
        BY <3>5, <3>6, <4>1, <4>2, <4>3 DEF p
    <3> QED
      BY <3>4, <3>6, <3>9, <3>10
  <2> QED
    BY <2>1, <2>2
<1> HIDE DEF fw, n
<1>16. /\ ListOk(new.mem) /\ LowestOk(new.mem, new.lfree) /\ SameBlocks(mem, new.mem)
       /\ \A x : ~Pair(new.mem, x)
  <2>1. CASE p # a /\ ~fw.mem[p].used
    <3>1. a # 0
      BY <1>6, <1>11, <2>1 DEF ListOk, p
    <3>2. fw.mem[a].prev = p
      BY <1>15, <3>1
    <3>3. new = Combined(fw, a)
      BY <1>1, <2>1
    <3>4. /\ ListOk(new.mem) /\ new.lfree = fw.lfree
          /\ LowestOk(new.mem, fw.lfree) /\ SameBlocks(fw.mem, new.mem)
          /\ IsRemoved(fw.mem, a, new.mem)
          /\ \A x : Pair(new.mem, x) =>
               IF x = fw.mem[a].prev THEN Pair(fw.mem, a) ELSE Pair(fw.mem, x)
      BY <1>11, <1>15, <2>1, <3>1, <3>2, <3>3, CombinedOk
    <3>5. /\ p \in DOMAIN fw.mem /\ fw.mem[p].next = a
          /\ fw.mem[a].next \in DOMAIN fw.mem /\ a < fw.mem[a].next
      BY <1>11, <1>15, <3>1, <3>2, RemovedOk
    <3>6. ~Pair(fw.mem, a)
      BY <1>15, <3>5, <1>8, <1>11
    <3>7. ASSUME NEW x, Pair(new.mem, x) PROVE FALSE
      <4>1. x # p /\ Pair(fw.mem, x)
        BY <3>2, <3>4, <3>6, <3>7
      <4>2. fw.mem[x].next = a
        BY <1>15, <4>1
      <4>3. Follows(fw.mem, x, a)
        BY <1>15, <4>1, <4>2 DEF ListOk, Pair
      <4>4. fw.mem[a].prev = x
        BY <1>11, <4>3 DEF Follows
      <4> QED
        BY <3>2, <4>1, <4>4
    <3>8. SameBlocks(mem, new.mem)
      BY <1>15, <3>4 DEF SameBlocks
    <3> QED
      BY <3>4, <3>7, <3>8
  <2>2. CASE ~(p # a /\ ~fw.mem[p].used)
    <3>1. new = fw
      BY <1>1, <2>2
    <3>2. ASSUME NEW x, Pair(fw.mem, x) PROVE FALSE
      <4>1. fw.mem[x].next = a /\ x \in DOMAIN fw.mem \ {MEM_SIZE_ALIGNED} /\ ~fw.mem[x].used
        BY <1>15, <3>2 DEF Pair
      <4>2. Follows(fw.mem, x, a)
        BY <1>15, <4>1 DEF ListOk
      <4>3. fw.mem[a].prev = x /\ a >= x + SIZEOF_STRUCT_MEM + MIN_SIZE_ALIGNED
        BY <1>11, <4>2 DEF Follows
      <4>4. x \in Nat
        BY <1>15, <4>1, Fields DEF ListOk
      <4>5. a # 0 /\ x # a
        BY <1>8, <1>11, <4>3, <4>4, Sizes
      <4>6. p = x
        BY <1>15, <4>3, <4>5
      <4> QED
        BY <2>2, <4>1, <4>5, <4>6
    <3> QED
      BY <1>15, <3>1, <3>2
  <2> QED
    BY <2>1, <2>2
<1>17. Merged(new.mem)
  BY <1>16 DEF Merged, Pair
<1>18. Used(new.mem) = Used(h.mem) \ {a}
       /\ \A u \in Used(h.mem) \ {a} : new.mem[u].next = h.mem[u].next
  BY <1>10, <1>16 DEF SameBlocks
<1> QED
  BY <1>16, <1>17, <1>18 DEF HeapInv, new

\* The lowest free block from a on.
LEMMA LowestFreeOk ==
  ASSUME NEW mem, ListOk(mem), NEW a \in Nat, \A b \in DOMAIN mem : ~mem[b].used => b >= a
  PROVE  LowestOk(mem, LowestFree(mem, a))
<1> DEFINE S == {b \in DOMAIN mem : b >= a /\ ~mem[b].used} \cup {MEM_SIZE_ALIGNED}
<1>1. MEM_SIZE_ALIGNED \in DOMAIN mem /\ \A b \in DOMAIN mem : b \in Nat
  BY Fields DEF ListOk
<1>2. S \in SUBSET Nat /\ S # {}
  BY <1>1
<1>3. PICK l \in S : \A j \in S : l <= j
  <2> HIDE DEF S
  <2> QED
    BY <1>2, LeastNumber
<1>4. LowestFree(mem, a) = l
  <2>1. LowestFree(mem, a) = Min(S)
    BY DEF LowestFree
  <2> HIDE DEF S
  <2> QED
    BY <1>2, <1>3, <2>1, LeastIsMin
<1>5. l \in DOMAIN mem /\ (mem[l].used => l = MEM_SIZE_ALIGNED)
  BY <1>1
<1>6. ASSUME NEW b \in DOMAIN mem, ~mem[b].used PROVE b >= l
  <2>1. b \in S /\ b \in Nat /\ l \in Nat
    BY <1>1, <1>2, <1>6
  <2> HIDE DEF S
  <2> QED
    BY <1>3, <2>1
<1> QED
  BY <1>4, <1>5, <1>6 DEF LowestOk

\* What mem_malloc makes of the heap.
LEMMA MallocedOk ==
  ASSUME NEW h, HeapInv(h), NEW n \in Nat, n >= MIN_SIZE_ALIGNED, NEW a \in Found(h, n)
  PROVE  /\ HeapInv(Malloced(h, a, n)) /\ a \in DOMAIN h.mem \ {MEM_SIZE_ALIGNED}
         /\ Used(Malloced(h, a, n).mem) = Used(h.mem) \cup {a}
         /\ ~h.mem[a].used
         /\ \A u \in Used(h.mem) : Malloced(h, a, n).mem[u].next = h.mem[u].next
         /\ Malloced(h, a, n).mem[a].next
              = IF Splits(h.mem, a, n) THEN a + SIZEOF_STRUCT_MEM + n ELSE h.mem[a].next
<1> DEFINE mem == h.mem
           b == a + SIZEOF_STRUCT_MEM + n
           split == IF Splits(mem, a, n) THEN Inserted(mem, a, b) ELSE mem
           new == [split EXCEPT ![a].used = TRUE]
           c == mem[a].next
<1>1. Malloced(h, a, n) = [mem |-> new, lfree |-> IF a = h.lfree THEN LowestFree(new, a)
                                                  ELSE h.lfree]
  BY DEF Malloced
<1>2. ListOk(mem) /\ Merged(mem) /\ LowestOk(mem, h.lfree)
  BY DEF HeapInv
<1>3. /\ a \in DOMAIN mem /\ h.lfree <= a /\ a < MEM_SIZE_ALIGNED - n /\ ~mem[a].used
      /\ UserSize(mem, a) >= n
  BY DEF Found
<1>4. \A x \in DOMAIN mem : x \in Nat /\ x <= MEM_SIZE_ALIGNED
  BY <1>2, Sizes DEF ListOk, MemOk, Addr
<1>5. a # MEM_SIZE_ALIGNED /\ a \in Nat
  BY <1>3, <1>4, Sizes
<1>6. Follows(mem, a, c)
  BY <1>2, <1>3, <1>5 DEF ListOk
<1>7. c \in DOMAIN mem /\ c \in Nat /\ mem[c].used /\ c > a
  <2>1. mem[c].used
    BY <1>2, <1>3, <1>5 DEF Merged
  <2>2. c \in DOMAIN mem /\ c >= a + SIZEOF_STRUCT_MEM + MIN_SIZE_ALIGNED
    BY <1>6 DEF Follows
  <2> HIDE DEF c
  <2> QED
    BY <1>4, <1>5, <2>1, <2>2, Sizes
<1>8. UserSize(mem, a) = c - a - SIZEOF_STRUCT_MEM
  BY DEF UserSize
<1>9. b \in Nat /\ b >= a + SIZEOF_STRUCT_MEM + MIN_SIZE_ALIGNED /\ b > a
  BY <1>5, Sizes
<1>10. \A x \in DOMAIN mem : ~mem[x].used => x # c
  BY <1>7
<1> HIDE DEF new, split
<1>11. /\ ListOk(split) /\ ~split[a].used /\ a \in DOMAIN split
       /\ split[a].next = IF Splits(mem, a, n) THEN b ELSE c
       /\ DOMAIN mem \subseteq DOMAIN split
       /\ \A x \in DOMAIN mem : /\ x # a => split[x].next = mem[x].next
                                /\ split[x].used = mem[x].used
       /\ \A x \in DOMAIN split \ DOMAIN mem : /\ x = b /\ b # MEM_SIZE_ALIGNED
                                               /\ split[x].next = c /\ ~split[x].used
  <2>1. CASE Splits(mem, a, n)
    <3>1. c >= b + SIZEOF_STRUCT_MEM + MIN_SIZE_ALIGNED
      <4>1. UserSize(mem, a) >= n + SIZEOF_STRUCT_MEM + MIN_SIZE_ALIGNED
        BY <2>1 DEF Splits
      <4> HIDE DEF c
      <4> QED
        BY <1>5, <1>7, <1>8, <4>1, Sizes
    <3> HIDE DEF b
    <3>2. split = Inserted(mem, a, b)
      BY <2>1 DEF split, b
    <3>3. /\ b \notin DOMAIN mem /\ b < MEM_SIZE_ALIGNED
          /\ IsInserted(mem, a, b, split) /\ ListOk(split)
      BY <1>2, <1>3, <1>5, <1>9, <3>1, <3>2, InsertedOk
    <3>4. b # MEM_SIZE_ALIGNED
      BY <1>9, <3>3, Sizes
    <3> QED
      BY <1>3, <2>1, <3>3, <3>4 DEF IsInserted
  <2>2. CASE ~Splits(mem, a, n)
    <3>1. split = mem
      BY <2>2 DEF split
    <3> QED
      BY <1>2, <1>3, <2>2, <3>1
  <2> QED
    BY <2>1, <2>2
<1> HIDE DEF b, c, mem
<1>12. IsMarked(split, a, TRUE, new) /\ ListOk(new)
  <2>1. TRUE \in BOOLEAN
    OBVIOUS
  <2>2. a \in DOMAIN split \ {MEM_SIZE_ALIGNED}
    BY <1>5, <1>11
  <2>3. /\ IsMarked(split, a, TRUE, [split EXCEPT ![a].used = TRUE])
        /\ ListOk([split EXCEPT ![a].used = TRUE])
    BY <1>11, <2>1, <2>2, MarkedOk, Zenon
  <2> QED
    BY <2>3, Zenon DEF new
<1>13. DOMAIN new = DOMAIN split
       /\ \A x \in DOMAIN split : /\ new[x].next = split[x].next
                                  /\ new[x].used = (IF x = a THEN TRUE ELSE split[x].used)
  BY <1>12 DEF IsMarked
<1>14. Used(new) = Used(mem) \cup {a}
  <2>1. ASSUME NEW x \in Used(new) PROVE x \in Used(mem) \cup {a}
    <3>1. x \in DOMAIN split /\ x # MEM_SIZE_ALIGNED /\ new[x].used
      BY <1>13 DEF Used
    <3>2. CASE x # a
      BY <1>11, <1>13, <3>1, <3>2 DEF Used
    <3> QED
      BY <3>2
  <2>2. ASSUME NEW x \in Used(mem) \cup {a} PROVE x \in Used(new)
    BY <1>5, <1>11, <1>13 DEF Used
  <2> QED
    BY <2>1, <2>2
<1>15. \A u \in Used(mem) : new[u].next = mem[u].next
  <2> TAKE u \in Used(mem)
  <2>1. u \in DOMAIN mem /\ u # a
    BY <1>3 DEF Used, mem
  <2> QED
    BY <1>11, <1>13, <2>1
<1>16. Merged(new)
  <2> SUFFICES ASSUME NEW x \in DOMAIN new \ {MEM_SIZE_ALIGNED}, ~new[x].used
               PROVE  new[new[x].next].used
    BY DEF Merged
  <2>1. x # a /\ x \in DOMAIN split /\ ~split[x].used /\ new[x].next = split[x].next
    BY <1>13
  <2>2. CASE x \in DOMAIN mem
    <3>1. ~mem[x].used /\ split[x].next = mem[x].next
      BY <1>11, <2>1, <2>2
    <3>2. mem[x].next \in DOMAIN mem /\ mem[mem[x].next].used
      BY <1>2, <2>2, <3>1 DEF Merged, ListOk, Follows
    <3> DEFINE y == mem[x].next
    <3>3. new[x].next = y
      BY <2>1, <3>1, Zenon DEF y
    <3> HIDE DEF y
    <3>4. y \in DOMAIN split /\ split[y].used
      BY <1>11, <3>2 DEF y
    <3>5. CASE y = a
      BY <1>13, <3>3, <3>4, <3>5
    <3>6. CASE y # a
      BY <1>13, <3>3, <3>4, <3>6
    <3> QED
      BY <3>5, <3>6
  <2>3. CASE x \notin DOMAIN mem
    <3>1. split[x].next = c
      BY <1>11, <2>1, <2>3
    <3>2. c \in DOMAIN split /\ split[c].used
      BY <1>7, <1>11
    <3> QED
      BY <1>13, <2>1, <3>1, <3>2
  <2> QED
    BY <2>2, <2>3
<1>17. LowestOk(new, IF a = h.lfree THEN LowestFree(new, a) ELSE h.lfree)
  <2>1. /\ h.lfree \in DOMAIN mem /\ (mem[h.lfree].used => h.lfree = MEM_SIZE_ALIGNED)
        /\ \A y \in DOMAIN mem : ~mem[y].used => y >= h.lfree
    BY <1>2 DEF LowestOk
  <2>2. h.lfree \in Nat
    BY <1>4, <2>1
  <2>3. \A y \in DOMAIN new : ~new[y].used => y >= h.lfree
    <3> TAKE y \in DOMAIN new
    <3>1. ASSUME ~new[y].used PROVE y >= h.lfree
      <4>1. y \in DOMAIN split /\ ~split[y].used
        BY <1>13, <3>1
      <4>2. CASE y \in DOMAIN mem
        BY <1>11, <2>1, <4>1, <4>2
      <4>3. CASE y \notin DOMAIN mem
        <5>1. y = b
          BY <1>11, <4>1, <4>3
        <5> QED
          BY <1>3, <1>5, <1>9, <2>2, <5>1
      <4> QED
        BY <4>2, <4>3
    <3> QED
      BY <3>1
  <2>4. CASE a = h.lfree
    BY <1>5, <1>12, <2>3, <2>4, LowestFreeOk
  <2>5. CASE a # h.lfree
    <3>1. h.lfree # MEM_SIZE_ALIGNED
      BY <1>3, <1>5, <2>2, <2>5, Sizes
    <3>2. h.lfree \in DOMAIN new /\ ~new[h.lfree].used
      BY <1>11, <1>13, <2>1, <2>5, <3>1
    <3> QED
      BY <2>3, <2>5, <3>2 DEF LowestOk
  <2> QED
    BY <2>4, <2>5
<1>18. new[a].next = IF Splits(mem, a, n) THEN b ELSE c
  BY <1>11, <1>13
<1>19. Malloced(h, a, n).mem = new
       /\ Malloced(h, a, n).lfree = IF a = h.lfree THEN LowestFree(new, a) ELSE h.lfree
  BY <1>1
<1> QED
  BY <1>3, <1>5, <1>12, <1>14, <1>15, <1>16, <1>17, <1>18, <1>19 DEF HeapInv, b, c, mem

\* Block a was shortened, to n units or a few more; the others are as they were.
Shortened(mem, a, n, new) ==
  /\ Used(new) = Used(mem)
  /\ \A u \in Used(mem) \ {a} : new[u].next = mem[u].next
  /\ new[a].next \in Nat /\ new[a].next <= mem[a].next
  /\ new[a].next >= a + SIZEOF_STRUCT_MEM + n
  /\ new[a].next >= a + SIZEOF_STRUCT_MEM + MIN_SIZE_ALIGNED

\* What mem_trim makes of the heap.
LEMMA MemTrimOk ==
  ASSUME NEW h, HeapInv(h), NEW a \in Used(h.mem), NEW m \in Nat, m <= UserSize(h.mem, a)
  PROVE  HeapInv(MemTrim(h, a, m)) /\ Shortened(h.mem, a, m, MemTrim(h, a, m).mem)
<1> DEFINE mem == h.mem
           n == AtLeastMin(m)
           b == a + SIZEOF_STRUCT_MEM + n
           c == mem[a].next
           one == Removed(mem, c)
           gone == Inserted(one, a, b)
           two == Inserted(mem, a, b)
           new == MemTrim(h, a, m)
<1>1. ListOk(mem) /\ Merged(mem) /\ LowestOk(mem, h.lfree)
  BY DEF HeapInv
<1>2. a \in DOMAIN mem /\ a # MEM_SIZE_ALIGNED /\ mem[a].used
  BY DEF Used
<1>3. \A x \in DOMAIN mem : x \in Nat /\ x <= MEM_SIZE_ALIGNED
  BY <1>1, Sizes DEF ListOk, MemOk, Addr
<1>4. n \in Nat /\ n >= m /\ n >= MIN_SIZE_ALIGNED
  BY Sizes DEF AtLeastMin
<1>5. Follows(mem, a, c)
  BY <1>1, <1>2 DEF ListOk
<1>6. /\ c \in DOMAIN mem /\ c >= a + SIZEOF_STRUCT_MEM + MIN_SIZE_ALIGNED
      /\ c # MEM_SIZE_ALIGNED => mem[c].prev = a
      /\ \A y \in DOMAIN mem : y > a => y >= c
  BY <1>5 DEF Follows
<1>7. UserSize(mem, a) = c - a - SIZEOF_STRUCT_MEM
  BY DEF UserSize
<1>8. h.lfree \in DOMAIN mem /\ (mem[h.lfree].used => h.lfree = MEM_SIZE_ALIGNED)
      /\ \A y \in DOMAIN mem : ~mem[y].used => y >= h.lfree
  BY <1>1 DEF LowestOk
<1> HIDE DEF c
<1>9. c \in Nat /\ a \in Nat /\ c > a /\ h.lfree \in Nat /\ h.lfree <= MEM_SIZE_ALIGNED
      /\ c <= MEM_SIZE_ALIGNED
  BY <1>2, <1>3, <1>6, <1>8, Sizes
<1>10. n <= UserSize(mem, a) /\ UserSize(mem, a) \in Nat
  BY <1>6, <1>7, <1>9, Sizes DEF AtLeastMin
<1>11. b \in Nat /\ b >= a + SIZEOF_STRUCT_MEM + MIN_SIZE_ALIGNED /\ b > a /\ b <= c
       /\ b >= a + SIZEOF_STRUCT_MEM + m
  <2> HIDE DEF n
  <2> QED
    BY <1>4, <1>7, <1>9, <1>10, Sizes
<1>12. \A x \in DOMAIN mem \ {MEM_SIZE_ALIGNED} : Follows(mem, x, mem[x].next)
  BY <1>1 DEF ListOk
<1>13. CASE n = UserSize(mem, a) \/ (mem[c].used /\ ~Splits(mem, a, n))
  <2>1. new = h
    BY <1>13 DEF MemTrim, c
  <2>2. Shortened(mem, a, m, mem)
    <3>1. c >= a + SIZEOF_STRUCT_MEM + m
      <4> HIDE DEF n
      <4> QED
        BY <1>9, <1>11, Sizes
    <3> QED
      BY <1>6, <1>9, <3>1 DEF Shortened, c
  <2> QED
    BY <2>1, <2>2
<1>14. CASE n # UserSize(mem, a) /\ ~mem[c].used
  <2>1. new = [mem |-> gone, lfree |-> IF h.lfree = c THEN b ELSE h.lfree]
    BY <1>14 DEF MemTrim, c
  <2> HIDE DEF n, new
  <2>2. b < c
    BY <1>4, <1>7, <1>9, <1>10, <1>14, Sizes
  <2>3. c # MEM_SIZE_ALIGNED
    <3>1. mem[MEM_SIZE_ALIGNED].used
      BY <1>1, RamEnd DEF ListOk
    <3> QED
      BY <1>14, <3>1
  <2>4. mem[c].prev = a
    BY <1>6, <2>3
  <2> DEFINE d == mem[c].next
  <2>5. Follows(mem, c, d)
    BY <1>6, <1>12, <2>3
  <2>6. d \in DOMAIN mem /\ d >= c + SIZEOF_STRUCT_MEM + MIN_SIZE_ALIGNED
    BY <2>5 DEF Follows
  <2> HIDE DEF d
  <2>7. d \in Nat /\ d > c /\ d >= b + SIZEOF_STRUCT_MEM + MIN_SIZE_ALIGNED
    BY <1>3, <1>9, <1>11, <2>2, <2>6, Sizes
  <2>8. mem[d].used
    BY <1>1, <1>6, <1>14, <2>3 DEF Merged, d
  <2> HIDE DEF b, one
  <2>9. IsRemoved(mem, c, one) /\ ListOk(one)
    <3>1. c # 0
      BY <1>9
    <3> QED
      BY <1>1, <1>6, <2>3, <3>1, RemovedOk DEF one
  <2>10. DOMAIN one = DOMAIN mem \ {c}
         /\ \A x \in DOMAIN mem \ {c} :
              /\ one[x].next = (IF x = a THEN d ELSE mem[x].next)
              /\ one[x].used = mem[x].used
    BY <2>4, <2>9 DEF IsRemoved, d
  <2>11. a \in DOMAIN one \ {MEM_SIZE_ALIGNED} /\ one[a].next = d
    BY <1>2, <1>9, <2>10
  <2>12. /\ b \notin DOMAIN one /\ b < MEM_SIZE_ALIGNED
         /\ IsInserted(one, a, b, gone) /\ ListOk(gone)
    BY <1>11, <2>7, <2>9, <2>11, InsertedOk
  <2> HIDE DEF gone
  <2>13. /\ DOMAIN gone = DOMAIN one \cup {b} /\ gone[b].next = d /\ gone[b].used = FALSE
         /\ \A x \in DOMAIN one : /\ gone[x].next = (IF x = a THEN b ELSE one[x].next)
                                  /\ gone[x].used = one[x].used
    BY <2>11, <2>12 DEF IsInserted
  <2>14. b \notin DOMAIN mem /\ b # MEM_SIZE_ALIGNED
    BY <1>11, <2>2, <2>10, <2>12, Sizes
  <2>15. Used(gone) = Used(mem)
    <3>1. \A x \in Used(gone) : x \in Used(mem)
      BY <2>10, <2>13 DEF Used
    <3>2. \A x \in Used(mem) : x \in Used(gone)
      BY <1>14, <2>10, <2>13 DEF Used
    <3> QED
      BY <3>1, <3>2
  <2>16. ASSUME NEW x \in DOMAIN mem \ {a, c} PROVE gone[x].next = mem[x].next
    BY <2>10, <2>13, <2>16
  <2>17. \A u \in Used(mem) \ {a} : gone[u].next = mem[u].next
    BY <1>14, <2>16 DEF Used
  <2>18. gone[a].next = b
    BY <2>11, <2>13
  <2>19. Shortened(mem, a, m, gone)
    BY <1>11, <1>9, <2>2, <2>15, <2>17, <2>18 DEF Shortened, c
  <2>20. Merged(gone)
    <3> SUFFICES ASSUME NEW x \in DOMAIN gone \ {MEM_SIZE_ALIGNED}, ~gone[x].used
                 PROVE  gone[gone[x].next].used
      BY DEF Merged
    <3>1. CASE x = b
      <4>1. d \in DOMAIN one /\ one[d].used
        BY <1>9, <2>6, <2>7, <2>8, <2>10
      <4> QED
        BY <2>13, <3>1, <4>1
    <3>2. CASE x # b
      <4>1. x \in DOMAIN mem \ {a, c} /\ ~mem[x].used
        BY <1>2, <2>10, <2>13, <3>2
      <4>2. gone[x].next = mem[x].next
        BY <2>16, <4>1
      <4>3. mem[mem[x].next].used
        BY <1>1, <4>1 DEF Merged
      <4>4. mem[x].next \in DOMAIN mem /\ (mem[x].next # MEM_SIZE_ALIGNED =>
              mem[mem[x].next].prev = x)
        BY <1>12, <4>1 DEF Follows
      <4>5. mem[x].next # c
        BY <1>14, <4>3
      <4> QED
        BY <2>10, <2>13, <4>2, <4>3, <4>4, <4>5
    <3> QED
      BY <3>1, <3>2
  <2>21. LowestOk(gone, IF h.lfree = c THEN b ELSE h.lfree)
    <3>1. \A y \in DOMAIN gone : ~gone[y].used => y = b \/ (y \in DOMAIN mem /\ ~mem[y].used)
      BY <2>10, <2>13
    <3>2. CASE h.lfree = c
      <4>1. \A y \in DOMAIN gone : ~gone[y].used => y >= b
        <5> TAKE y \in DOMAIN gone
        <5>1. ASSUME ~gone[y].used PROVE y >= b
          <6>1. CASE y = b
            BY <1>11, <6>1
          <6>2. CASE y # b
            <7>1. y \in Nat /\ y >= c
              BY <1>3, <1>8, <3>1, <3>2, <5>1, <6>2
            <7> QED
              BY <1>9, <1>11, <2>2, <7>1
          <6> QED
            BY <6>1, <6>2
        <5> QED
          BY <5>1
      <4> QED
        BY <2>13, <3>2, <4>1 DEF LowestOk
    <3>3. CASE h.lfree # c
      <4>1. h.lfree < c
        BY <1>6, <1>8, <1>9, <1>14, <3>3
      <4>2. h.lfree <= a
        BY <1>6, <1>8, <1>9, <4>1
      <4>3. h.lfree # MEM_SIZE_ALIGNED /\ ~mem[h.lfree].used
        BY <1>8, <1>9, <4>1, Sizes
      <4>4. h.lfree \in DOMAIN gone /\ ~gone[h.lfree].used
        BY <1>8, <2>10, <2>13, <3>3, <4>3
      <4>5. \A y \in DOMAIN gone : ~gone[y].used => y >= h.lfree
        <5> TAKE y \in DOMAIN gone
        <5>1. b >= h.lfree
          BY <1>9, <1>11, <4>2
        <5> QED
          BY <1>8, <3>1, <5>1
      <4> QED
        BY <3>3, <4>4, <4>5 DEF LowestOk
    <3> QED
      BY <3>2, <3>3
  <2>22. new.mem = gone /\ new.lfree = IF h.lfree = c THEN b ELSE h.lfree
    BY <2>1
  <2> QED
    BY <2>12, <2>19, <2>20, <2>21, <2>22 DEF HeapInv, new
<1>15. CASE n # UserSize(mem, a) /\ mem[c].used /\ Splits(mem, a, n)
  <2>1. new = [mem |-> two, lfree |-> IF b < h.lfree THEN b ELSE h.lfree]
    BY <1>15 DEF MemTrim, c
  <2>2. c >= b + SIZEOF_STRUCT_MEM + MIN_SIZE_ALIGNED
    <3>1. UserSize(mem, a) >= n + SIZEOF_STRUCT_MEM + MIN_SIZE_ALIGNED
      BY <1>15 DEF Splits
    <3> HIDE DEF n
    <3> QED
      BY <1>4, <1>7, <1>9, <3>1, Sizes
  <2> HIDE DEF n, new, b
  <2>3. /\ b \notin DOMAIN mem /\ b < MEM_SIZE_ALIGNED
        /\ IsInserted(mem, a, b, two) /\ ListOk(two)
    BY <1>1, <1>2, <1>11, <2>2, InsertedOk DEF c
  <2> HIDE DEF two
  <2>4. /\ DOMAIN two = DOMAIN mem \cup {b} /\ two[b].next = c /\ two[b].used = FALSE
        /\ \A x \in DOMAIN mem : /\ two[x].next = (IF x = a THEN b ELSE mem[x].next)
                                 /\ two[x].used = mem[x].used
    BY <2>3 DEF IsInserted, c
  <2>5. b # MEM_SIZE_ALIGNED
    BY <1>11, <2>3, Sizes
  <2>6. Used(two) = Used(mem)
    BY <2>3, <2>4 DEF Used
  <2>7. Shortened(mem, a, m, two)
    <3>1. two[a].next = b
      BY <1>2, <2>4
    <3>2. \A u \in Used(mem) \ {a} : two[u].next = mem[u].next
      BY <2>4 DEF Used
    <3> QED
      BY <1>11, <2>6, <3>1, <3>2 DEF Shortened, c
  <2>8. Merged(two)
    <3> SUFFICES ASSUME NEW x \in DOMAIN two \ {MEM_SIZE_ALIGNED}, ~two[x].used
                 PROVE  two[two[x].next].used
      BY DEF Merged
    <3>1. CASE x = b
      BY <1>6, <1>15, <2>4, <3>1
    <3>2. CASE x # b
      <4>1. x \in DOMAIN mem \ {MEM_SIZE_ALIGNED} /\ ~mem[x].used /\ x # a
        BY <1>2, <2>4, <3>2
      <4>2. mem[mem[x].next].used /\ mem[x].next \in DOMAIN mem
        BY <1>1, <1>12, <4>1 DEF Merged, Follows
      <4> QED
        BY <2>4, <4>1, <4>2
    <3> QED
      BY <3>1, <3>2
  <2>9. LowestOk(two, IF b < h.lfree THEN b ELSE h.lfree)
    <3>1. \A y \in DOMAIN two : ~two[y].used => y = b \/ (y \in DOMAIN mem /\ ~mem[y].used)
      BY <2>4
    <3>2. CASE b < h.lfree
      <4>1. \A y \in DOMAIN two : ~two[y].used => y >= b
        <5> TAKE y \in DOMAIN two
        <5>1. ASSUME ~two[y].used, y # b PROVE y >= b
          <6>1. y \in Nat /\ y >= h.lfree
            BY <1>3, <1>8, <3>1, <5>1
          <6> QED
            BY <1>9, <1>11, <3>2, <6>1
        <5>2. b >= b
          BY <1>11
        <5> QED
          BY <5>1, <5>2
      <4> QED
        BY <2>4, <3>2, <4>1 DEF LowestOk
    <3>3. CASE ~(b < h.lfree)
      <4>1. h.lfree # MEM_SIZE_ALIGNED /\ b >= h.lfree
        BY <1>9, <1>11, <2>3, <3>3, Sizes
      <4>2. h.lfree \in DOMAIN two /\ ~two[h.lfree].used
        BY <1>8, <2>4, <4>1
      <4>3. \A y \in DOMAIN two : ~two[y].used => y >= h.lfree
        BY <1>8, <3>1, <4>1
      <4> QED
        BY <3>3, <4>2, <4>3 DEF LowestOk
    <3> QED
      BY <3>2, <3>3
  <2>10. new.mem = two /\ new.lfree = IF b < h.lfree THEN b ELSE h.lfree
    BY <2>1
  <2> QED
    BY <2>3, <2>7, <2>8, <2>9, <2>10 DEF HeapInv, new
<1> QED
  BY <1>13, <1>14, <1>15

\* Such a heap is as mem_sanity wants it.
LEMMA HeapInvSane == ASSUME NEW h, HeapInv(h) PROVE HeapSane(h)
<1> DEFINE mem == h.mem
<1>1. ListOk(mem) /\ Merged(mem) /\ LowestOk(mem, h.lfree)
  BY DEF HeapInv
<1>2. \A x \in DOMAIN mem : x \in Nat /\ x <= MEM_SIZE_ALIGNED
  BY <1>1, Sizes DEF ListOk, MemOk, Addr
<1> HIDE DEF mem
<1>3. ASSUME NEW a \in DOMAIN mem \ {MEM_SIZE_ALIGNED}
      PROVE  LET n == mem[a].next
             IN  /\ n = Min({b \in DOMAIN mem : b > a})
                 /\ n = MEM_SIZE_ALIGNED \/ mem[n].prev = a
                 /\ UserSize(mem, a) >= MIN_SIZE_ALIGNED
                 /\ mem[a].used \/ mem[n].used
  <2> DEFINE n == mem[a].next
             S == {b \in DOMAIN mem : b > a}
  <2>1. Follows(mem, a, n)
    BY <1>1 DEF ListOk
  <2>2. n \in DOMAIN mem /\ n >= a + SIZEOF_STRUCT_MEM + MIN_SIZE_ALIGNED
        /\ (n # MEM_SIZE_ALIGNED => mem[n].prev = a) /\ \A b \in DOMAIN mem : b > a => b >= n
    BY <2>1 DEF Follows
  <2>3. UserSize(mem, a) = n - a - SIZEOF_STRUCT_MEM
    BY DEF UserSize
  <2>4. mem[a].used \/ mem[n].used
    BY <1>1 DEF Merged
  <2> HIDE DEF n
  <2>5. n \in Nat /\ a \in Nat /\ n > a
    BY <1>2, <2>2, Sizes
  <2>6. UserSize(mem, a) >= MIN_SIZE_ALIGNED
    BY <2>2, <2>3, <2>5, Sizes
  <2>7. S \in SUBSET Nat /\ n \in S /\ \A j \in S : n <= j
    BY <1>2, <2>2, <2>5
  <2>8. n = Min(S)
    <3> HIDE DEF S
    <3> QED
      BY <2>7, LeastIsMin
  <2> QED
    BY <2>2, <2>4, <2>6, <2>8 DEF n
<1>4. h.lfree = LowestFree(mem, 0)
  <2> DEFINE S == {b \in DOMAIN mem : b >= 0 /\ ~mem[b].used} \cup {MEM_SIZE_ALIGNED}
             l == h.lfree
  <2>1. /\ l \in DOMAIN mem /\ (mem[l].used => l = MEM_SIZE_ALIGNED)
        /\ \A y \in DOMAIN mem : ~mem[y].used => y >= l
    BY <1>1 DEF LowestOk
  <2> HIDE DEF l
  <2>2. l \in Nat /\ l <= MEM_SIZE_ALIGNED
    BY <1>2, <2>1
  <2>3. S \in SUBSET Nat /\ l \in S /\ \A j \in S : l <= j
    BY <1>2, <2>1, <2>2, Sizes
  <2>4. LowestFree(mem, 0) = Min(S)
    BY DEF LowestFree
  <2> HIDE DEF S
  <2> QED
    BY <2>3, <2>4, LeastIsMin DEF l
<1>5. {0, MEM_SIZE_ALIGNED} \subseteq DOMAIN mem
      /\ mem[MEM_SIZE_ALIGNED] = EmptyHeap.mem[MEM_SIZE_ALIGNED]
  BY <1>1 DEF ListOk
<1> QED
  BY <1>3, <1>4, <1>5 DEF HeapSane, mem

-------------------------------------------------------------------------------
(* The heap as AbstractHeap sees it. *)

\* The stretch from s to e holds no block and lies between blocks.
IsGap(s, e) ==
  /\ s = 0 \/ \E u \in DOMAIN Blocks : s = Blocks[u]
  /\ e = MEM_SIZE_ALIGNED \/ e \in DOMAIN Blocks
  /\ s < e /\ \A u \in DOMAIN Blocks : u >= e \/ Blocks[u] <= s

LEMMA GapsAre ==
  /\ \A gap \in Abstract!Gaps : IsGap(gap.start, gap.end)
  /\ \A s, e : IsGap(s, e) => [start |-> s, end |-> e] \in Abstract!Gaps
<1>1. ASSUME NEW gap \in Abstract!Gaps PROVE IsGap(gap.start, gap.end)
  BY <1>1 DEF Abstract!Gaps, IsGap
<1>2. ASSUME NEW s, NEW e, IsGap(s, e) PROVE [start |-> s, end |-> e] \in Abstract!Gaps
  BY <1>2 DEF Abstract!Gaps, IsGap
<1> QED
  BY <1>1, <1>2

LEMMA BlocksAre ==
  DOMAIN Blocks = Used(heap.mem) /\ \A u \in Used(heap.mem) : Blocks[u] = heap.mem[u].next
BY DEF Blocks, Used

\* The gaps are the free blocks.
LEMMA FreeIsGap ==
  ASSUME HeapInv(heap), NEW a \in DOMAIN heap.mem \ {MEM_SIZE_ALIGNED}, ~heap.mem[a].used
  PROVE  IsGap(a, heap.mem[a].next)
<1> DEFINE mem == heap.mem
           n == mem[a].next
<1>1. ListOk(mem) /\ Merged(mem)
  BY DEF HeapInv
<1>2. \A x \in DOMAIN mem : x \in Nat /\ x <= MEM_SIZE_ALIGNED
  BY <1>1, Sizes DEF ListOk, MemOk, Addr
<1> HIDE DEF mem
<1>3. \A x \in DOMAIN mem \ {MEM_SIZE_ALIGNED} : Follows(mem, x, mem[x].next)
  BY <1>1 DEF ListOk
<1>4. n \in DOMAIN mem /\ n >= a + SIZEOF_STRUCT_MEM + MIN_SIZE_ALIGNED /\ mem[n].used
      /\ \A b \in DOMAIN mem : b > a => b >= n
  <2>1. Follows(mem, a, n)
    BY <1>3 DEF mem
  <2>2. mem[n].used
    BY <1>1 DEF Merged, mem
  <2> QED
    BY <2>1, <2>2 DEF Follows
<1> HIDE DEF n
<1>5. a \in DOMAIN mem /\ a \in Nat /\ n \in Nat /\ a < n /\ ~mem[a].used
  BY <1>2, <1>4, Sizes DEF mem
<1>6. DOMAIN Blocks = Used(mem) /\ \A u \in Used(mem) : Blocks[u] = mem[u].next
  BY BlocksAre DEF mem
<1>7. n = MEM_SIZE_ALIGNED \/ n \in DOMAIN Blocks
  BY <1>4, <1>6 DEF Used
<1>8. a = 0 \/ \E u \in DOMAIN Blocks : a = Blocks[u]
  <2>1. ASSUME a # 0 PROVE \E u \in DOMAIN Blocks : a = Blocks[u]
    <3>1. PICK u \in DOMAIN mem : u < a /\ mem[u].next = a
      BY <1>1, <1>5, <2>1, Neighbours
    <3>2. u # MEM_SIZE_ALIGNED
      BY <1>2, <1>5, <3>1, Sizes
    <3>3. mem[u].used
      BY <1>1, <1>5, <3>1, <3>2 DEF Merged
    <3> QED
      BY <1>6, <3>1, <3>2, <3>3 DEF Used
  <2> QED
    BY <2>1
<1>9. \A u \in DOMAIN Blocks : u >= n \/ Blocks[u] <= a
  <2> TAKE u \in DOMAIN Blocks
  <2>1. u \in DOMAIN mem \ {MEM_SIZE_ALIGNED} /\ Blocks[u] = mem[u].next /\ u # a
        /\ u \in Nat
    BY <1>2, <1>5, <1>6 DEF Used
  <2>2. CASE u > a
    BY <1>4, <2>1, <2>2
  <2>3. CASE u < a
    <3>1. Follows(mem, u, mem[u].next)
      BY <1>3, <2>1
    <3> QED
      BY <1>5, <2>1, <2>3, <3>1 DEF Follows
  <2> QED
    BY <1>5, <2>1, <2>2, <2>3
<1> QED
  BY <1>5, <1>7, <1>8, <1>9 DEF IsGap, n, mem

LEMMA GapIsFree ==
  ASSUME HeapInv(heap), NEW s, NEW e, IsGap(s, e)
  PROVE  /\ s \in DOMAIN heap.mem \ {MEM_SIZE_ALIGNED} /\ ~heap.mem[s].used
         /\ e = heap.mem[s].next
<1> DEFINE mem == heap.mem
           n == mem[s].next
<1>1. ListOk(mem) /\ Merged(mem)
  BY DEF HeapInv
<1>2. \A x \in DOMAIN mem : x \in Nat /\ x <= MEM_SIZE_ALIGNED
  BY <1>1, Sizes DEF ListOk, MemOk, Addr
<1>3. DOMAIN Blocks = Used(mem) /\ \A u \in Used(mem) : Blocks[u] = mem[u].next
  BY BlocksAre
<1> HIDE DEF mem
<1>4. \A x \in DOMAIN mem \ {MEM_SIZE_ALIGNED} : Follows(mem, x, mem[x].next)
  BY <1>1 DEF ListOk
<1>5. /\ s = 0 \/ \E u \in DOMAIN Blocks : s = Blocks[u]
      /\ e = MEM_SIZE_ALIGNED \/ e \in DOMAIN Blocks
      /\ s < e /\ \A u \in DOMAIN Blocks : u >= e \/ Blocks[u] <= s
  BY DEF IsGap
<1>6. s \in DOMAIN mem
  <2>1. ASSUME NEW u \in DOMAIN Blocks, s = Blocks[u] PROVE s \in DOMAIN mem
    BY <1>3, <1>4, <2>1 DEF Used, Follows
  <2> QED
    BY <1>1, <1>5, <2>1 DEF ListOk
<1>7. e \in DOMAIN mem
  BY <1>1, <1>3, <1>5 DEF ListOk, Used
<1>8. s \in Nat /\ e \in Nat /\ e <= MEM_SIZE_ALIGNED /\ s # MEM_SIZE_ALIGNED
  BY <1>2, <1>5, <1>6, <1>7, Sizes
<1>9. Follows(mem, s, n)
  BY <1>4, <1>6, <1>8
<1>10. /\ n \in DOMAIN mem /\ n >= s + SIZEOF_STRUCT_MEM + MIN_SIZE_ALIGNED
       /\ \A b \in DOMAIN mem : b > s => b >= n
  BY <1>9 DEF Follows
<1>11. n \in Nat /\ n > s /\ e >= n
  <2> HIDE DEF n
  <2> QED
    BY <1>2, <1>5, <1>7, <1>8, <1>10, Sizes
<1>12. ~mem[s].used
  <2>1. ASSUME mem[s].used PROVE FALSE
    <3>1. s \in DOMAIN Blocks /\ Blocks[s] = n
      BY <1>3, <1>6, <1>8, <2>1 DEF Used
    <3> HIDE DEF n
    <3> QED
      BY <1>5, <1>8, <1>11, <3>1
  <2> QED
    BY <2>1
<1>13. e = n
  <2>1. ASSUME e > n PROVE FALSE
    <3>1. n # MEM_SIZE_ALIGNED /\ mem[n].used
      <4>1. mem[n].used
        BY <1>1, <1>6, <1>8, <1>12 DEF Merged
      <4> HIDE DEF n
      <4> QED
        BY <1>8, <1>11, <2>1, <4>1, Sizes
    <3> HIDE DEF n
    <3>2. n \in DOMAIN Blocks /\ Blocks[n] = mem[n].next
      BY <1>3, <1>10, <3>1 DEF Used
    <3>3. Follows(mem, n, mem[n].next)
      BY <1>4, <1>10, <3>1
    <3> DEFINE m == mem[n].next
    <3>4. m \in DOMAIN mem /\ m >= n + SIZEOF_STRUCT_MEM + MIN_SIZE_ALIGNED
      BY <3>3 DEF Follows
    <3> HIDE DEF m
    <3>5. m \in Nat /\ m > n
      BY <1>2, <1>11, <3>4, Sizes
    <3>6. n >= e \/ m <= s
      BY <1>5, <3>2 DEF m
    <3> QED
      BY <1>8, <1>11, <2>1, <3>5, <3>6
  <2> HIDE DEF n
  <2> QED
    BY <1>8, <1>11, <2>1
<1> QED
  BY <1>6, <1>8, <1>12, <1>13 DEF mem

\* mem_malloc that finds a block.
LEMMA AllocRefines ==
  ASSUME HeapInv(heap), NEW n \in Nat, n >= MIN_SIZE_ALIGNED, NEW a \in Found(heap, n),
         heap' = Malloced(heap, a, n), refused' = 0
  PROVE  n \in MIN_SIZE_ALIGNED .. MEM_SIZE_ALIGNED /\ Abstract!Alloc(n)
<1> DEFINE mem == heap.mem
           new == heap'.mem
           e == mem[a].next
           gap == [start |-> a, end |-> e]
<1>1. /\ a \in DOMAIN mem \ {MEM_SIZE_ALIGNED}
      /\ Used(new) = Used(mem) \cup {a} /\ ~mem[a].used
      /\ \A u \in Used(mem) : new[u].next = mem[u].next
      /\ new[a].next = IF Splits(mem, a, n) THEN a + SIZEOF_STRUCT_MEM + n ELSE e
  BY MallocedOk
<1>2. UserSize(mem, a) = e - a - SIZEOF_STRUCT_MEM /\ UserSize(mem, a) >= n
      /\ a < MEM_SIZE_ALIGNED - n
  BY DEF Found, UserSize
<1>3. a \in Nat /\ e \in Nat /\ MemOk(mem)
  BY <1>1, Fields DEF HeapInv, ListOk
<1>4. n \in MIN_SIZE_ALIGNED .. MEM_SIZE_ALIGNED
  BY <1>2, <1>3, Sizes
<1>5. gap \in Abstract!Gaps /\ gap.start = a /\ gap.end = e
  BY <1>1, FreeIsGap, GapsAre
<1>6. gap.end - gap.start >= SIZEOF_STRUCT_MEM + n
  <2> HIDE DEF gap, e
  <2> QED
    BY <1>2, <1>3, <1>5, Sizes
<1>7. Splits(mem, a, n) <=>
        ~(gap.end - gap.start - SIZEOF_STRUCT_MEM - n < SIZEOF_STRUCT_MEM + MIN_SIZE_ALIGNED)
  <2>1. Splits(mem, a, n)
          <=> UserSize(mem, a) >= n + SIZEOF_STRUCT_MEM + MIN_SIZE_ALIGNED
    BY DEF Splits
  <2> HIDE DEF gap, e
  <2> QED
    BY <1>2, <1>3, <1>5, <2>1, Sizes
<1>8. DOMAIN Blocks = Used(mem) /\ \A u \in Used(mem) : Blocks[u] = mem[u].next
  BY BlocksAre
<1>9. Blocks' = [u \in Used(new) |-> new[u].next]
  BY DEF Blocks, Used
<1>10. a \notin Used(mem)
  BY <1>1 DEF Used
<1> DEFINE abs == [x \in DOMAIN Blocks \cup {gap.start} |->
                     IF x # gap.start THEN Blocks[x]
                     ELSE IF gap.end - gap.start - SIZEOF_STRUCT_MEM - n
                               < SIZEOF_STRUCT_MEM + MIN_SIZE_ALIGNED THEN gap.end
                     ELSE gap.start + SIZEOF_STRUCT_MEM + n]
<1>11. Blocks' = abs
  <2> HIDE DEF gap, e, new, mem
  <2>1. DOMAIN abs = Used(new)
    BY <1>1, <1>5, <1>8
  <2>2. ASSUME NEW x \in Used(new) PROVE new[x].next = abs[x]
    <3>1. CASE x # a
      BY <1>1, <1>5, <1>8, <2>1, <3>1
    <3>2. CASE x = a
      BY <1>1, <1>5, <1>7, <2>1, <3>2
    <3> QED
      BY <3>1, <3>2
  <2>3. abs = [u \in DOMAIN abs |-> abs[u]]
    OBVIOUS
  <2> HIDE DEF abs
  <2> QED
    BY <1>9, <2>1, <2>2, <2>3
<1> HIDE DEF gap
<1>12. Abstract!Alloc(n)
  BY <1>5, <1>6, <1>11 DEF Abstract!Alloc, Abstract!Fits
<1> QED
  BY <1>4, <1>12

\* mem_malloc that finds none.
LEMMA RefuseRefines ==
  ASSUME HeapInv(heap), NEW n \in Nat, n >= MIN_SIZE_ALIGNED, Found(heap, n) = {},
         heap' = heap, refused' = n
  PROVE  Abstract!Refuse
<1>1. ASSUME NEW gap \in Abstract!Gaps, Abstract!Fits(n, gap) PROVE FALSE
  <2> DEFINE s == gap.start
             e == gap.end
  <2>1. IsGap(s, e)
    BY GapsAre
  <2> HIDE DEF s, e
  <2>2. s \in DOMAIN heap.mem \ {MEM_SIZE_ALIGNED} /\ ~heap.mem[s].used /\ e = heap.mem[s].next
    BY <2>1, GapIsFree
  <2>3. e - s >= SIZEOF_STRUCT_MEM + n
    BY <1>1 DEF Abstract!Fits, s, e
  <2>4. MemOk(heap.mem) /\ LowestOk(heap.mem, heap.lfree)
    BY DEF HeapInv, ListOk
  <2>5. s \in Nat /\ e \in Nat /\ e <= MEM_SIZE_ALIGNED
    BY <2>2, <2>4, Fields, Sizes DEF Addr
  <2>6. UserSize(heap.mem, s) = e - s - SIZEOF_STRUCT_MEM
    BY <2>2 DEF UserSize
  <2>7. heap.lfree <= s
    <3>1. s >= heap.lfree /\ heap.lfree \in Nat
      BY <2>2, <2>4, Fields DEF LowestOk
    <3> QED
      BY <2>5, <3>1
  <2>8. s < MEM_SIZE_ALIGNED - n /\ UserSize(heap.mem, s) >= n
    BY <2>3, <2>5, <2>6, Sizes
  <2>9. s \in Found(heap, n)
    BY <2>2, <2>7, <2>8 DEF Found
  <2> QED
    BY <2>9
<1>2. Blocks' = Blocks
  BY DEF Blocks
<1> QED
  BY <1>1, <1>2 DEF Abstract!Refuse

\* Everything else leaves blocks where they are, shortens or frees them.
LEMMA ReleaseRefines ==
  ASSUME HeapInv(heap), HeapInv(heap'), Used(heap'.mem) \subseteq Used(heap.mem),
         \A u \in Used(heap'.mem) : heap'.mem[u].next <= heap.mem[u].next,
         refused' = 0
  PROVE  Abstract!Release
<1> DEFINE new == heap'.mem
<1>1. DOMAIN Blocks = Used(heap.mem) /\ \A u \in Used(heap.mem) : Blocks[u] = heap.mem[u].next
  BY BlocksAre
<1>2. Blocks' = [u \in Used(new) |-> new[u].next]
  BY DEF Blocks, Used
<1>3. ASSUME NEW u \in Used(new)
      PROVE  Blocks'[u] \in u + SIZEOF_STRUCT_MEM + MIN_SIZE_ALIGNED .. Blocks[u]
  <2>1. ListOk(new) /\ ListOk(heap.mem)
    BY DEF HeapInv
  <2>2. u \in DOMAIN new \ {MEM_SIZE_ALIGNED} /\ u \in DOMAIN heap.mem
    BY DEF Used
  <2> HIDE DEF new
  <2>3. Follows(new, u, new[u].next)
    BY <2>1, <2>2 DEF ListOk
  <2>4. new[u].next >= u + SIZEOF_STRUCT_MEM + MIN_SIZE_ALIGNED
    BY <2>3 DEF Follows
  <2>5. u \in Nat /\ new[u].next \in Nat /\ heap.mem[u].next \in Nat
    BY <2>1, <2>2, Fields DEF ListOk
  <2>6. Blocks'[u] = new[u].next /\ Blocks[u] = heap.mem[u].next
        /\ new[u].next <= heap.mem[u].next
    BY <1>1, <1>2 DEF new
  <2> QED
    BY <2>4, <2>5, <2>6, Sizes
<1>4. DOMAIN Blocks' = Used(new)
  BY <1>2
<1> QED
  BY <1>1, <1>3, <1>4 DEF Abstract!Release

-------------------------------------------------------------------------------
(* The pbufs. *)

\* The pbufs that x is next to, the mirrors of x, and the places of x in a list.
Preds(pb, x) == {q \in DOMAIN pb : pb[q].next = x}
Mirrors(pb, x) == {q \in DOMAIN pb : pb[q].original = x}
Places(todo, x) == {i \in DOMAIN todo : todo[i] = x}

Typed(pb) ==
  /\ IsFiniteSet(DOMAIN pb) /\ DOMAIN pb \subseteq Ids
  /\ pb \in [DOMAIN pb -> Pbuf]

\* Every reference to p is that of a caller (hd), of a pbuf before it, of a mirror
\* or of the list todo.
Refs(pb, hd, todo, p) ==
  /\ hd[p] \in Nat /\ pb[p].ref > 0
  /\ pb[p].ref = hd[p] + Cardinality(Preds(pb, p)) + Cardinality(Mirrors(pb, p))
                       + Cardinality(Places(todo, p))

RefsOk(pb, hd, todo) ==
  /\ todo \in Seq(DOMAIN pb \cup {Null})
  /\ \A p \in DOMAIN pb : /\ pb[p].next \in DOMAIN pb \cup {Null}
                          /\ pb[p].original \in DOMAIN pb \cup {Null}
                          /\ Refs(pb, hd, todo, p)

LenOf(pb, p) == pb[p].len + IF pb[p].next = Null THEN 0 ELSE pb[pb[p].next].tot_len
LensOk(pb) == \A p \in DOMAIN pb : pb[p].tot_len = LenOf(pb, p)

RoomOk(pb, mem) ==
  /\ Used(mem) = DOMAIN pb \cap Addr
  /\ \A p \in DOMAIN pb \cap Addr : /\ pb[p].payload >= SIZEOF_STRUCT_PBUF
                                    /\ pb[p].payload + pb[p].len <= UserSize(mem, p)

GraphOk(pb, h, hd, todo) ==
  /\ HeapInv(h) /\ Typed(pb) /\ RefsOk(pb, hd, todo)
  /\ LensOk(pb) /\ RoomOk(pb, h.mem)

\* The inductive invariant.
Inv ==
  /\ GraphOk(pbufs, heap, held, <<>>)
  /\ held \in [DOMAIN pbufs -> 0 .. MaxHeld] /\ refused \in Nat

LEMMA PlacesFinite ==
  ASSUME NEW S, NEW s \in Seq(S), NEW x
  PROVE  IsFiniteSet(Places(s, x)) /\ Cardinality(Places(s, x)) \in Nat
<1>1. Len(s) \in Nat /\ DOMAIN s = 1 .. Len(s)
  OBVIOUS
<1>2. IsFiniteSet(1 .. Len(s))
  BY <1>1, FS_Interval
<1>3. Places(s, x) \in SUBSET (1 .. Len(s))
  BY <1>1 DEF Places
<1> QED
  BY <1>2, <1>3, FS_Subset, FS_CardinalityType

\* What is not at the head stands one place nearer to it in the tail.
LEMMA PlacesTail ==
  ASSUME NEW S, NEW s \in Seq(S), s # <<>>, NEW x
  PROVE  Cardinality(Places(s, x))
           = Cardinality(Places(Tail(s), x)) + IF Head(s) = x THEN 1 ELSE 0
<1> DEFINE t == Tail(s)
           Behind == {i \in 2 .. Len(s) : s[i] = x}
           f == [i \in Places(t, x) |-> i + 1]
<1>1. /\ t \in Seq(S) /\ Len(t) = Len(s) - 1 /\ \A i \in 1 .. Len(t) : t[i] = s[i + 1]
      /\ Len(s) \in Nat /\ Len(s) > 0 /\ Head(s) = s[1]
  BY HeadTailProperties
<1>2. DOMAIN s = 1 .. Len(s) /\ DOMAIN t = 1 .. Len(t)
  BY <1>1
<1> HIDE DEF t
<1>3. f \in Bijection(Places(t, x), Behind)
  <2>1. \A i \in Places(t, x) : i + 1 \in Behind /\ i \in Nat
    BY <1>1, <1>2 DEF Places
  <2>2. \A j \in Behind : j - 1 \in Places(t, x) /\ j = j - 1 + 1
    BY <1>1, <1>2 DEF Places
  <2>3. \A i, j \in Places(t, x) : i + 1 = j + 1 => i = j
    BY <2>1
  <2> HIDE DEF Behind
  <2>4. f \in [Places(t, x) -> Behind]
    BY <2>1
  <2>5. f \in Injection(Places(t, x), Behind)
    BY <2>3, <2>4 DEF Injection, IsInjective
  <2>6. f \in Surjection(Places(t, x), Behind)
    BY <2>2, <2>4 DEF Surjection
  <2> QED
    BY <2>5, <2>6 DEF Bijection
<1>4. IsFiniteSet(Places(t, x)) /\ Cardinality(Places(t, x)) \in Nat
  BY <1>1, PlacesFinite
<1>5. IsFiniteSet(Behind) /\ Cardinality(Behind) = Cardinality(Places(t, x))
  <2> HIDE DEF f, Behind
  <2>1. ExistsBijection(Places(t, x), Behind)
    BY <1>3 DEF ExistsBijection
  <2> QED
    BY <1>4, <2>1, FS_Bijection
<1>6. Places(s, x) = IF s[1] = x THEN Behind \cup {1} ELSE Behind
  BY <1>1, <1>2 DEF Places
<1>7. 1 \notin Behind
  OBVIOUS
<1> HIDE DEF Behind
<1>8. Cardinality(Behind \cup {1}) = Cardinality(Behind) + 1
  BY <1>5, <1>7, FS_AddElement
<1>9. CASE Head(s) = x
  BY <1>1, <1>5, <1>6, <1>8, <1>9 DEF t
<1>10. CASE Head(s) # x
  BY <1>1, <1>4, <1>5, <1>6, <1>10 DEF t
<1> QED
  BY <1>9, <1>10

LEMMA PlacesPush ==
  ASSUME NEW S, NEW s \in Seq(S), NEW a \in S, NEW x
  PROVE  /\ <<a>> \o s \in Seq(S)
         /\ Cardinality(Places(<<a>> \o s, x))
              = Cardinality(Places(s, x)) + IF a = x THEN 1 ELSE 0
<1> DEFINE t == <<a>> \o s
<1>1. <<a>> \in Seq(S) /\ Len(<<a>>) = 1 /\ <<a>>[1] = a
  OBVIOUS
<1>2. t \in Seq(S) /\ Len(t) = 1 + Len(s) /\ t[1] = a
      /\ \A i \in 1 .. Len(s) : t[i + 1] = s[i]
  BY <1>1, ConcatProperties
<1> HIDE DEF t
<1>3. t # <<>> /\ Head(t) = a
  BY <1>2
<1>4. Tail(t) \in Seq(S) /\ Len(Tail(t)) = Len(s) /\ \A i \in 1 .. Len(s) : Tail(t)[i] = s[i]
  BY <1>2, <1>3, HeadTailProperties
<1>5. Tail(t) = s
  BY <1>4
<1>6. Cardinality(Places(t, x)) = Cardinality(Places(s, x)) + IF a = x THEN 1 ELSE 0
  <2>1. Cardinality(Places(t, x))
          = Cardinality(Places(Tail(t), x)) + IF Head(t) = x THEN 1 ELSE 0
    BY <1>2, <1>3, PlacesTail
  <2> QED
    BY <1>3, <1>5, <2>1
<1> QED
  BY <1>2, <1>6 DEF t

LEMMA PlacesPushTwo ==
  ASSUME NEW S, NEW s \in Seq(S), NEW a \in S, NEW b \in S, NEW x
  PROVE  /\ <<a, b>> \o s \in Seq(S) /\ Len(<<a, b>> \o s) = Len(s) + 2
         /\ Cardinality(Places(<<a, b>> \o s, x))
              = Cardinality(Places(s, x)) + (IF a = x THEN 1 ELSE 0) + (IF b = x THEN 1 ELSE 0)
<1>1. /\ <<a>> \in Seq(S) /\ <<b>> \in Seq(S)
      /\ <<a, b>> \in Seq(S) /\ Len(<<a, b>>) = 2
  OBVIOUS
<1>2. <<a, b>> \o s = <<a>> \o (<<b>> \o s)
  <2> DEFINE u == <<a>>
             v == <<b>>
  <2>1. u \in Seq(S) /\ v \in Seq(S)
    BY <1>1
  <2>2. u \o v = <<a, b>>
    <3> DEFINE w == u \o v
    <3>1. Len(u) = 1 /\ Len(v) = 1 /\ u[1] = a /\ v[1] = b
      OBVIOUS
    <3>2. w \in Seq(S) /\ Len(w) = 2 /\ w[1] = a /\ w[2] = b
      <4> HIDE DEF u, v
      <4> QED
        BY <2>1, <3>1, ConcatProperties, SMTT(30)
    <3> HIDE DEF w
    <3>3. w = <<a, b>>
      BY <3>2
    <3> QED
      BY <3>3 DEF w
  <2> HIDE DEF u, v
  <2>3. (u \o v) \o s = u \o (v \o s)
    BY <2>1, ConcatAssociative
  <2> QED
    BY <2>2, <2>3 DEF u, v
<1> DEFINE t == <<b>> \o s
<1>3. t \in Seq(S) /\ Cardinality(Places(t, x)) = Cardinality(Places(s, x)) + IF b = x THEN 1 ELSE 0
  BY PlacesPush
<1> HIDE DEF t
<1>4. Cardinality(Places(<<a>> \o t, x)) = Cardinality(Places(t, x)) + IF a = x THEN 1 ELSE 0
  BY <1>3, PlacesPush
<1>5. Cardinality(Places(s, x)) \in Nat
  BY PlacesFinite
<1>6. <<a, b>> \o s \in Seq(S) /\ Len(<<a, b>> \o s) = 2 + Len(s)
  BY <1>1, ConcatProperties
<1>7. Len(s) \in Nat
  OBVIOUS
<1>8. <<a, b>> \o s = <<a>> \o t
  BY <1>2 DEF t
<1>9. Cardinality(Places(<<a, b>> \o s, x))
        = Cardinality(Places(s, x)) + (IF a = x THEN 1 ELSE 0) + (IF b = x THEN 1 ELSE 0)
  <2> DEFINE c == Cardinality(Places(s, x))
             i == IF a = x THEN 1 ELSE 0
             j == IF b = x THEN 1 ELSE 0
  <2>1. c \in Nat /\ i \in Nat /\ j \in Nat
    BY <1>5
  <2>2. Cardinality(Places(<<a, b>> \o s, x)) = (c + j) + i
    BY <1>3, <1>4, <1>8
  <2> HIDE DEF c, i, j
  <2>3. (c + j) + i = c + i + j
    BY <2>1
  <2> QED
    BY <2>2, <2>3 DEF c, i, j
<1> QED
  BY <1>6, <1>7, <1>9

LEMMA NullApart == Null \notin Ids /\ RefPbufs \cap Addr = {} /\ FragPbufs \cap Addr = {}
BY BuffersAssumption DEF Ids

LEMMA PbufFields ==
  ASSUME NEW pb, Typed(pb), NEW p \in DOMAIN pb
  PROVE  /\ p \in Ids /\ p # Null /\ pb[p] \in Pbuf
         /\ pb[p].next \in Ids \cup {Null} /\ pb[p].original \in Ids \cup {Null}
         /\ pb[p].tot_len \in Nat /\ pb[p].len \in Nat /\ pb[p].ref \in Nat
         /\ pb[p].payload \in Nat
<1>1. pb[p] \in Pbuf /\ p \in Ids
  BY DEF Typed
<1> QED
  BY <1>1, NullApart DEF Pbuf

LEMMA Finite ==
  ASSUME NEW pb, Typed(pb), NEW x
  PROVE  /\ IsFiniteSet(Preds(pb, x)) /\ Cardinality(Preds(pb, x)) \in Nat
         /\ IsFiniteSet(Mirrors(pb, x)) /\ Cardinality(Mirrors(pb, x)) \in Nat
         /\ Cardinality(DOMAIN pb) \in Nat
<1>1. Preds(pb, x) \in SUBSET DOMAIN pb /\ Mirrors(pb, x) \in SUBSET DOMAIN pb
  BY DEF Preds, Mirrors
<1>2. IsFiniteSet(DOMAIN pb)
  BY DEF Typed
<1> QED
  BY <1>1, <1>2, FS_Subset, FS_CardinalityType

\* The same pbufs, linked alike; and with the same data.
SameLinks(pb, new) ==
  /\ DOMAIN new = DOMAIN pb
  /\ \A p \in DOMAIN pb : new[p].next = pb[p].next /\ new[p].original = pb[p].original

SameData(pb, new) ==
  /\ DOMAIN new = DOMAIN pb
  /\ \A p \in DOMAIN pb : /\ new[p].tot_len = pb[p].tot_len /\ new[p].len = pb[p].len
                          /\ new[p].payload = pb[p].payload

LEMMA SameLinksSame ==
  ASSUME NEW pb, NEW new, SameLinks(pb, new), NEW x
  PROVE  Preds(new, x) = Preds(pb, x) /\ Mirrors(new, x) = Mirrors(pb, x)
BY DEF SameLinks, Preds, Mirrors

LEMMA SameDataSame ==
  ASSUME NEW pb, NEW new, SameLinks(pb, new), SameData(pb, new), NEW mem,
         LensOk(pb), RoomOk(pb, mem),
         \A p \in DOMAIN pb : pb[p].next \in DOMAIN pb \cup {Null}
  PROVE  LensOk(new) /\ RoomOk(new, mem)
<1>1. LensOk(new)
  <2> SUFFICES ASSUME NEW p \in DOMAIN pb PROVE new[p].tot_len = LenOf(new, p)
    BY DEF LensOk, SameLinks
  <2>1. pb[p].tot_len = LenOf(pb, p)
    BY DEF LensOk
  <2>2. LenOf(new, p) = LenOf(pb, p)
    BY DEF LenOf, SameLinks, SameData
  <2> QED
    BY <2>1, <2>2 DEF SameData
<1>2. RoomOk(new, mem)
  BY DEF RoomOk, SameData
<1> QED
  BY <1>1, <1>2

\* Only the count of references changes.
LEMMA RefChanged ==
  ASSUME NEW pb, Typed(pb), NEW p \in DOMAIN pb, NEW n \in Nat
  PROVE  LET new == [pb EXCEPT ![p].ref = n]
         IN  /\ Typed(new) /\ SameLinks(pb, new) /\ SameData(pb, new)
             /\ \A q \in DOMAIN pb : new[q].ref = IF q = p THEN n ELSE pb[q].ref
<1> DEFINE r == [pb[p] EXCEPT !.ref = n]
           new == [pb EXCEPT ![p] = r]
<1>1. pb[p] \in Pbuf /\ pb \in [DOMAIN pb -> Pbuf]
  BY DEF Typed
<1>2. /\ r \in Pbuf /\ r.ref = n /\ r.next = pb[p].next /\ r.original = pb[p].original
      /\ r.tot_len = pb[p].tot_len /\ r.len = pb[p].len /\ r.payload = pb[p].payload
  BY <1>1 DEF Pbuf
<1> HIDE DEF r
<1>3. DOMAIN new = DOMAIN pb /\ \A q \in DOMAIN pb : new[q] = IF q = p THEN r ELSE pb[q]
  BY <1>1
<1>4. new \in [DOMAIN pb -> Pbuf]
  BY <1>1, <1>2
<1>5. [pb EXCEPT ![p].ref = n] = new
  BY DEF r
<1> HIDE DEF new
<1>6. Typed(new)
  BY <1>3, <1>4 DEF Typed
<1>7. SameLinks(pb, new) /\ SameData(pb, new)
  BY <1>2, <1>3 DEF SameLinks, SameData
<1> QED
  BY <1>2, <1>3, <1>5, <1>6, <1>7

\* The last reference to p goes: nobody else has one.
LEMMA NobodyElse ==
  ASSUME NEW pb, NEW hd, NEW todo, NEW p \in DOMAIN pb, Typed(pb), RefsOk(pb, hd, todo),
         todo # <<>>, p = Head(todo), ~(pb[p].ref > 1)
  PROVE  /\ Preds(pb, p) = {} /\ Mirrors(pb, p) = {} /\ Places(Tail(todo), p) = {}
<1> DEFINE a == hd[p]
           c == Cardinality(Preds(pb, p))
           d == Cardinality(Mirrors(pb, p))
           e == Cardinality(Places(todo, p))
           f == Cardinality(Places(Tail(todo), p))
           r == pb[p].ref
           S == DOMAIN pb \cup {Null}
<1>1. todo \in Seq(S) /\ Tail(todo) \in Seq(S)
  BY HeadTailProperties DEF RefsOk
<1>2. Refs(pb, hd, todo, p)
  BY DEF RefsOk
<1>3. a \in Nat /\ r > 0 /\ r = a + c + d + e
  BY <1>2 DEF Refs
<1>4. c \in Nat /\ d \in Nat /\ r \in Nat
  BY Finite, PbufFields
<1>5. e \in Nat /\ f \in Nat /\ e = f + 1
  <2> HIDE DEF S
  <2>1. e = f + IF Head(todo) = p THEN 1 ELSE 0
    BY <1>1, PlacesTail
  <2>2. e \in Nat /\ f \in Nat
    BY <1>1, PlacesFinite
  <2> QED
    BY <2>1, <2>2
<1>6. ~(r > 1)
  OBVIOUS
<1>7. IsFiniteSet(Preds(pb, p)) /\ IsFiniteSet(Mirrors(pb, p)) /\ IsFiniteSet(Places(Tail(todo), p))
  <2> HIDE DEF S
  <2> QED
    BY <1>1, Finite, PlacesFinite
<1> HIDE DEF a, c, d, e, f, r
<1>8. c = 0 /\ d = 0 /\ f = 0
  BY <1>3, <1>4, <1>5, <1>6
<1> QED
  BY <1>7, <1>8, FS_EmptySet DEF c, d, f

LEMMA Outside ==
  ASSUME NEW S, NEW s \in Seq(S), NEW x, Places(s, x) = {}
  PROVE  s \in Seq(S \ {x})
<1>1. Len(s) \in Nat /\ s \in [1 .. Len(s) -> S] /\ DOMAIN s = 1 .. Len(s)
  OBVIOUS
<1>2. \A i \in 1 .. Len(s) : s[i] \in S \ {x}
  BY <1>1 DEF Places
<1>3. s \in [1 .. Len(s) -> S \ {x}]
  BY <1>1, <1>2
<1> QED
  BY <1>1, <1>3

\* All the pbufs but p.
Without(pb, p, new) ==
  /\ DOMAIN new = DOMAIN pb \ {p} /\ \A q \in DOMAIN new : new[q] = pb[q]

LEMMA WithoutIs ==
  ASSUME NEW pb, NEW p, Typed(pb)
  PROVE  LET new == Restrict(pb, DOMAIN pb \ {p}) IN Typed(new) /\ Without(pb, p, new)
<1> DEFINE new == Restrict(pb, DOMAIN pb \ {p})
<1>1. DOMAIN new = DOMAIN pb \ {p} /\ \A q \in DOMAIN new : new[q] = pb[q]
  BY DEF Restrict
<1>2. IsFiniteSet(DOMAIN pb) /\ pb \in [DOMAIN pb -> Pbuf] /\ DOMAIN pb \subseteq Ids
  BY DEF Typed
<1>3. IsFiniteSet(DOMAIN new)
  BY <1>1, <1>2, FS_RemoveElement
<1>4. new \in [DOMAIN new -> Pbuf]
  BY <1>1, <1>2 DEF Restrict
<1> HIDE DEF new
<1>5. Typed(new) /\ Without(pb, p, new)
  BY <1>1, <1>2, <1>3, <1>4 DEF Typed, Without
<1> QED
  BY <1>5 DEF new

LEMMA WithoutCounts ==
  ASSUME NEW pb, NEW p \in DOMAIN pb, NEW new, Typed(pb), Without(pb, p, new), NEW x
  PROVE  /\ Cardinality(Preds(pb, x))
              = Cardinality(Preds(new, x)) + IF pb[p].next = x THEN 1 ELSE 0
         /\ Cardinality(Mirrors(pb, x))
              = Cardinality(Mirrors(new, x)) + IF pb[p].original = x THEN 1 ELSE 0
<1>1. Preds(new, x) = Preds(pb, x) \ {p} /\ Mirrors(new, x) = Mirrors(pb, x) \ {p}
  BY DEF Preds, Mirrors, Without
<1>2. (p \in Preds(pb, x) <=> pb[p].next = x) /\ (p \in Mirrors(pb, x) <=> pb[p].original = x)
  BY DEF Preds, Mirrors
<1>3. /\ IsFiniteSet(Preds(pb, x)) /\ Cardinality(Preds(pb, x)) \in Nat
      /\ IsFiniteSet(Mirrors(pb, x)) /\ Cardinality(Mirrors(pb, x)) \in Nat
  BY Finite
<1> DEFINE A == Preds(pb, x)
           B == Mirrors(pb, x)
<1>4. /\ Cardinality(A \ {p}) = IF p \in A THEN Cardinality(A) - 1 ELSE Cardinality(A)
      /\ Cardinality(B \ {p}) = IF p \in B THEN Cardinality(B) - 1 ELSE Cardinality(B)
  <2> HIDE DEF A, B
  <2>1. IsFiniteSet(A) /\ IsFiniteSet(B)
    BY <1>3 DEF A, B
  <2> QED
    BY <2>1, FS_RemoveElement
<1>5. Cardinality(A) = Cardinality(A \ {p}) + IF pb[p].next = x THEN 1 ELSE 0
  BY <1>2, <1>3, <1>4
<1>6. Cardinality(B) = Cardinality(B \ {p}) + IF pb[p].original = x THEN 1 ELSE 0
  BY <1>2, <1>3, <1>4
<1> QED
  BY <1>1, <1>5, <1>6

\* The pbuf without references goes, and those that it had pass to the list.
LEMMA GoneRefs ==
  ASSUME NEW pb, NEW hd, NEW todo, NEW p \in DOMAIN pb, NEW new,
         Typed(pb), RefsOk(pb, hd, todo),
         todo # <<>>, p = Head(todo), ~(pb[p].ref > 1), Without(pb, p, new), Typed(new)
  PROVE  LET rest == <<pb[p].original, pb[p].next>> \o Tail(todo)
         IN  RefsOk(new, hd, rest) /\ Len(rest) = Len(todo) + 1
<1> DEFINE S == DOMAIN pb \cup {Null}
           t == Tail(todo)
           o == pb[p].original
           n == pb[p].next
           rest == <<o, n>> \o t
<1>1. todo \in Seq(S) /\ t \in Seq(S) /\ Len(t) = Len(todo) - 1
  BY HeadTailProperties DEF RefsOk
<1>2. Preds(pb, p) = {} /\ Mirrors(pb, p) = {} /\ Places(t, p) = {}
  BY NobodyElse
<1> HIDE DEF t
<1>3. t \in Seq(S \ {p})
  <2> HIDE DEF S
  <2> QED
    BY <1>1, <1>2, Outside
<1>4. o \in S \ {p} /\ n \in S \ {p}
  BY <1>2 DEF RefsOk, Preds, Mirrors
<1>5. S \ {p} = DOMAIN new \cup {Null}
  BY PbufFields DEF Without
<1>6. rest \in Seq(S \ {p}) /\ Len(rest) = Len(t) + 2
  <2> HIDE DEF S, o, n
  <2> QED
    BY <1>3, <1>4, PlacesPushTwo
<1>7. Len(rest) = Len(todo) + 1
  <2>1. Len(todo) \in Nat
    BY <1>1
  <2> QED
    BY <1>1, <1>6, <2>1
<1>8. ASSUME NEW x \in DOMAIN new
      PROVE  /\ new[x].next \in DOMAIN new \cup {Null}
             /\ new[x].original \in DOMAIN new \cup {Null}
             /\ Refs(new, hd, rest, x)
  <2>1. x \in DOMAIN pb /\ x # p /\ new[x] = pb[x]
    BY DEF Without
  <2>2. pb[x].next # p /\ pb[x].original # p
    BY <1>2, <2>1 DEF Preds, Mirrors
  <2>3. /\ pb[x].next \in S /\ pb[x].original \in S /\ Refs(pb, hd, todo, x)
    BY <2>1 DEF RefsOk
  <2> DEFINE i == IF n = x THEN 1 ELSE 0
             j == IF o = x THEN 1 ELSE 0
             a == hd[x]
             c == Cardinality(Preds(new, x))
             d == Cardinality(Mirrors(new, x))
             e == Cardinality(Places(t, x))
             r == pb[x].ref
  <2>4. Cardinality(Preds(pb, x)) = c + i /\ Cardinality(Mirrors(pb, x)) = d + j
    BY WithoutCounts
  <2>5. Cardinality(Places(rest, x)) = e + j + i
    <3> HIDE DEF S, n, o
    <3>1. Cardinality(Places(<<o, n>> \o t, x))
            = Cardinality(Places(t, x)) + (IF o = x THEN 1 ELSE 0) + (IF n = x THEN 1 ELSE 0)
      BY <1>3, <1>4, PlacesPushTwo
    <3> QED
      BY <3>1
  <2>6. Cardinality(Places(todo, x)) = e
    <3> HIDE DEF S
    <3>1. Cardinality(Places(todo, x)) = Cardinality(Places(Tail(todo), x))
                                         + IF Head(todo) = x THEN 1 ELSE 0
      BY <1>1, PlacesTail
    <3>2. e \in Nat
      BY <1>1, PlacesFinite
    <3> QED
      BY <2>1, <3>1, <3>2 DEF t
  <2>8. /\ c \in Nat /\ d \in Nat /\ e \in Nat /\ i \in Nat /\ j \in Nat
    <3>1. e \in Nat
      <4> HIDE DEF S
      <4> QED
        BY <1>1, PlacesFinite
    <3> QED
      BY <3>1, Finite
  <2>9. a \in Nat /\ r > 0 /\ r = a + (c + i) + (d + j) + e
    BY <2>3, <2>4, <2>6 DEF Refs
  <2> HIDE DEF a, c, d, e, i, j, r
  <2>10. r = a + c + d + (e + j + i)
    BY <2>8, <2>9
  <2>11. Refs(new, hd, rest, x)
    <3> HIDE DEF rest
    <3>1. hd[x] \in Nat /\ new[x].ref > 0
      BY <2>1, <2>9 DEF a, r
    <3>2. new[x].ref = hd[x] + Cardinality(Preds(new, x)) + Cardinality(Mirrors(new, x))
                             + Cardinality(Places(rest, x))
      BY <2>1, <2>5, <2>10 DEF a, c, d, r
    <3> QED
      BY <3>1, <3>2 DEF Refs
  <2> QED
    BY <1>5, <2>1, <2>2, <2>3, <2>11
<1> HIDE DEF S
<1>9. RefsOk(new, hd, rest)
  <2> HIDE DEF rest
  <2> QED
    BY <1>5, <1>6, <1>8 DEF RefsOk
<1> QED
  BY <1>7, <1>9 DEF t

\* What frees do to the rest.
Smaller(pb, h, new, h2) ==
  /\ DOMAIN new \subseteq DOMAIN pb /\ Used(h2.mem) \subseteq Used(h.mem)
  /\ \A u \in Used(h2.mem) : h2.mem[u].next = h.mem[u].next

Load(pb, todo) == 2 * Cardinality(DOMAIN pb) + Len(todo)

TurnedOk(pb, h, hd, todo, new, h2, rest) ==
  /\ GraphOk(new, h2, hd, rest) /\ Smaller(pb, h, new, h2)
  /\ Load(new, rest) < Load(pb, todo)

LEMMA LoadIs ==
  ASSUME NEW pb, NEW S, NEW todo \in Seq(S), Typed(pb)
  PROVE  Load(pb, todo) \in Nat
<1>1. Cardinality(DOMAIN pb) \in Nat /\ Len(todo) \in Nat
  BY Finite
<1> DEFINE c == Cardinality(DOMAIN pb)
           l == Len(todo)
<1>2. c \in Nat /\ l \in Nat
  BY <1>1
<1> HIDE DEF c, l
<1>3. 2 * c + l \in Nat
  BY <1>2
<1> QED
  BY <1>3 DEF Load, c, l

LEMMA NullTurn ==
  ASSUME NEW pb, NEW h, NEW hd, NEW todo, GraphOk(pb, h, hd, todo),
         todo # <<>>, Head(todo) = Null
  PROVE  TurnedOk(pb, h, hd, todo, pb, h, Tail(todo))
<1> DEFINE S == DOMAIN pb \cup {Null}
           t == Tail(todo)
<1>1. Typed(pb) /\ RefsOk(pb, hd, todo)
  BY DEF GraphOk
<1>2. todo \in Seq(S) /\ t \in Seq(S) /\ Len(t) = Len(todo) - 1 /\ Len(todo) \in Nat
  BY <1>1, HeadTailProperties DEF RefsOk
<1>3. ASSUME NEW p \in DOMAIN pb PROVE Refs(pb, hd, t, p)
  <2>1. p # Null
    BY <1>1, PbufFields
  <2> HIDE DEF S
  <2>2. Cardinality(Places(todo, p)) = Cardinality(Places(t, p)) + IF Head(todo) = p THEN 1 ELSE 0
    BY <1>2, PlacesTail
  <2>3. Cardinality(Places(todo, p)) \in Nat /\ Cardinality(Places(t, p)) \in Nat
    BY <1>2, PlacesFinite
  <2>4. Cardinality(Places(todo, p)) = Cardinality(Places(t, p))
    BY <2>1, <2>2, <2>3
  <2>5. Refs(pb, hd, todo, p)
    BY <1>1 DEF RefsOk
  <2> QED
    BY <2>4, <2>5 DEF Refs
<1>4. RefsOk(pb, hd, t)
  BY <1>1, <1>2, <1>3 DEF RefsOk
<1>5. Cardinality(DOMAIN pb) \in Nat
  BY <1>1, Finite
<1>6. Load(pb, t) < Load(pb, todo)
  BY <1>2, <1>5 DEF Load
<1>7. Smaller(pb, h, pb, h)
  BY DEF Smaller
<1> HIDE DEF t
<1>8. GraphOk(pb, h, hd, t)
  BY <1>4 DEF GraphOk
<1> QED
  BY <1>6, <1>7, <1>8 DEF TurnedOk, t

LEMMA DropTurn ==
  ASSUME NEW pb, NEW h, NEW hd, NEW todo, GraphOk(pb, h, hd, todo),
         todo # <<>>, Head(todo) # Null, pb[Head(todo)].ref > 1
  PROVE  TurnedOk(pb, h, hd, todo, [pb EXCEPT ![Head(todo)].ref = @ - 1], h, Tail(todo))
<1> DEFINE S == DOMAIN pb \cup {Null}
           t == Tail(todo)
           p == Head(todo)
           n == pb[p].ref - 1
           new == [pb EXCEPT ![p].ref = n]
<1>1. Typed(pb) /\ RefsOk(pb, hd, todo)
  BY DEF GraphOk
<1>2. /\ todo \in Seq(S) /\ t \in Seq(S) /\ Len(t) = Len(todo) - 1 /\ Len(todo) \in Nat
      /\ p \in S
  BY <1>1, HeadTailProperties DEF RefsOk
<1>3. p \in DOMAIN pb
  BY <1>2
<1>4. n \in Nat /\ n > 0 /\ pb[p].ref = n + 1
  BY <1>1, <1>3, PbufFields
<1>5. new = [pb EXCEPT ![Head(todo)].ref = @ - 1]
  OBVIOUS
<1>6. /\ Typed(new) /\ SameLinks(pb, new) /\ SameData(pb, new)
      /\ \A q \in DOMAIN pb : new[q].ref = IF q = p THEN n ELSE pb[q].ref
  <2> HIDE DEF n, p
  <2> QED
    BY <1>1, <1>3, <1>4, RefChanged
<1> HIDE DEF new
<1>7. ASSUME NEW q \in DOMAIN pb PROVE Refs(new, hd, t, q)
  <2>1. Refs(pb, hd, todo, q)
    BY <1>1 DEF RefsOk
  <2> DEFINE a == hd[q]
             c == Cardinality(Preds(pb, q))
             d == Cardinality(Mirrors(pb, q))
             e == Cardinality(Places(t, q))
             i == IF p = q THEN 1 ELSE 0
             r == pb[q].ref
             r2 == new[q].ref
  <2>2. c \in Nat /\ d \in Nat
    BY <1>1, Finite
  <2>3. e \in Nat /\ Cardinality(Places(todo, q)) = e + i
    <3> HIDE DEF S
    <3>1. Cardinality(Places(todo, q)) = e + IF Head(todo) = q THEN 1 ELSE 0
      BY <1>2, PlacesTail
    <3>2. e \in Nat
      BY <1>2, PlacesFinite
    <3> QED
      BY <3>1, <3>2
  <2>4. a \in Nat /\ r > 0 /\ r = a + c + d + (e + i) /\ i \in Nat
    BY <2>1, <2>3 DEF Refs
  <2>5. r2 = r - i /\ r2 > 0
    <3>1. CASE p = q
      BY <1>4, <1>6, <3>1
    <3>2. CASE p # q
      <4>1. r2 = r /\ i = 0
        BY <1>6, <3>2
      <4>2. r \in Nat
        BY <1>1, PbufFields
      <4> QED
        BY <2>4, <4>1, <4>2
    <3> QED
      BY <3>1, <3>2
  <2>6. Cardinality(Preds(new, q)) = c /\ Cardinality(Mirrors(new, q)) = d
    BY <1>6, SameLinksSame
  <2> HIDE DEF a, c, d, e, i, r, r2
  <2>7. r2 = a + c + d + e
    BY <2>2, <2>3, <2>4, <2>5
  <2> QED
    BY <2>4, <2>5, <2>6, <2>7 DEF Refs, a, c, d, e, r2
<1>8. RefsOk(new, hd, t)
  BY <1>1, <1>2, <1>6, <1>7 DEF RefsOk, SameLinks
<1>9. LensOk(new) /\ RoomOk(new, h.mem)
  BY <1>1, <1>6, SameDataSame DEF GraphOk, RefsOk
<1>10. Cardinality(DOMAIN pb) \in Nat /\ DOMAIN new = DOMAIN pb
  BY <1>1, <1>6, Finite DEF SameLinks
<1>11. Load(new, t) < Load(pb, todo)
  BY <1>2, <1>10 DEF Load
<1>12. Smaller(pb, h, new, h)
  BY <1>10 DEF Smaller
<1> HIDE DEF t
<1>13. GraphOk(new, h, hd, t)
  BY <1>6, <1>8, <1>9 DEF GraphOk
<1> QED
  BY <1>5, <1>11, <1>12, <1>13 DEF TurnedOk, t

LEMMA GoneTurn ==
  ASSUME NEW pb, NEW h, NEW hd, NEW todo, GraphOk(pb, h, hd, todo),
         todo # <<>>, Head(todo) # Null, ~(pb[Head(todo)].ref > 1)
  PROVE  LET p == Head(todo)
         IN  TurnedOk(pb, h, hd, todo, Restrict(pb, DOMAIN pb \ {p}),
                      IF IsRam(p) THEN MemFree(h, p) ELSE h,
                      <<pb[p].original, pb[p].next>> \o Tail(todo))
<1> DEFINE S == DOMAIN pb \cup {Null}
           t == Tail(todo)
           p == Head(todo)
           new == Restrict(pb, DOMAIN pb \ {p})
           h2 == IF IsRam(p) THEN MemFree(h, p) ELSE h
           rest == <<pb[p].original, pb[p].next>> \o t
<1>1. Typed(pb) /\ RefsOk(pb, hd, todo) /\ HeapInv(h) /\ LensOk(pb) /\ RoomOk(pb, h.mem)
  BY DEF GraphOk
<1>2. todo \in Seq(S) /\ Len(todo) \in Nat /\ p \in S
  BY <1>1, HeadTailProperties DEF RefsOk
<1>3. p \in DOMAIN pb
  BY <1>2
<1> HIDE DEF p
<1>4. Typed(new) /\ Without(pb, p, new)
  BY <1>1, WithoutIs
<1> HIDE DEF new
<1>5. p = Head(todo) /\ ~(pb[p].ref > 1)
  BY DEF p
<1>6. RefsOk(new, hd, rest) /\ Len(rest) = Len(todo) + 1
  BY <1>1, <1>3, <1>4, <1>5, GoneRefs
<1>7. Preds(pb, p) = {}
  BY <1>1, <1>3, <1>5, NobodyElse
<1> HIDE DEF rest
<1>8. /\ DOMAIN new = DOMAIN pb \ {p} /\ DOMAIN new \subseteq DOMAIN pb
      /\ \A q \in DOMAIN new : new[q] = pb[q]
  BY <1>4 DEF Without
<1>9. LensOk(new)
  <2> SUFFICES ASSUME NEW q \in DOMAIN new PROVE new[q].tot_len = LenOf(new, q)
    BY DEF LensOk
  <2>1. q \in DOMAIN pb /\ new[q] = pb[q] /\ pb[q].next # p /\ pb[q].next \in S
    BY <1>1, <1>7, <1>8 DEF Preds, RefsOk
  <2>2. pb[q].next = Null \/ new[pb[q].next] = pb[pb[q].next]
    BY <1>8, <2>1
  <2>3. LenOf(new, q) = LenOf(pb, q)
    BY <2>1, <2>2 DEF LenOf
  <2> QED
    BY <1>1, <2>1, <2>3 DEF LensOk
<1>10. /\ HeapInv(h2) /\ Used(h2.mem) = Used(h.mem) \ {p}
       /\ \A u \in Used(h2.mem) : h2.mem[u].next = h.mem[u].next
  <2>1. CASE p \in Addr
    <3>1. p \in Used(h.mem)
      BY <1>1, <1>3, <2>1 DEF RoomOk
    <3>2. h2 = MemFree(h, p)
      BY <2>1 DEF IsRam
    <3> QED
      BY <1>1, <3>1, <3>2, MemFreeOk
  <2>2. CASE p \notin Addr
    <3>1. h2 = h /\ p \notin Used(h.mem)
      BY <1>1, <2>2 DEF IsRam, RoomOk
    <3> QED
      BY <1>1, <3>1
  <2> QED
    BY <2>1, <2>2
<1> HIDE DEF h2
<1>11. RoomOk(new, h2.mem)
  <2>1. Used(h2.mem) = DOMAIN new \cap Addr
    BY <1>1, <1>8, <1>10 DEF RoomOk
  <2>2. ASSUME NEW q \in DOMAIN new \cap Addr
        PROVE  /\ new[q].payload >= SIZEOF_STRUCT_PBUF
               /\ new[q].payload + new[q].len <= UserSize(h2.mem, q)
    <3>1. UserSize(h2.mem, q) = UserSize(h.mem, q)
      BY <1>10, <2>1 DEF UserSize
    <3> QED
      BY <1>1, <1>8, <3>1 DEF RoomOk
  <2> QED
    BY <2>1, <2>2 DEF RoomOk
<1>12. GraphOk(new, h2, hd, rest)
  BY <1>4, <1>6, <1>9, <1>10, <1>11 DEF GraphOk
<1>13. Smaller(pb, h, new, h2)
  BY <1>8, <1>10 DEF Smaller
<1>14. Load(new, rest) < Load(pb, todo)
  <2>1. IsFiniteSet(DOMAIN pb) /\ Cardinality(DOMAIN pb) \in Nat
    BY <1>1, Finite DEF Typed
  <2>2. Cardinality(DOMAIN pb \ {p}) = Cardinality(DOMAIN pb) - 1
    BY <1>3, <2>1, FS_RemoveElement
  <2> QED
    BY <1>2, <1>6, <1>8, <2>1, <2>2 DEF Load
<1> QED
  BY <1>12, <1>13, <1>14 DEF TurnedOk, p, new, h2, rest

LEMMA TurnOk ==
  ASSUME NEW st, NEW hd, GraphOk(st.pbufs, st.heap, hd, st.todo), st.todo # <<>>
  PROVE  TurnedOk(st.pbufs, st.heap, hd, st.todo, Turn(st).pbufs, Turn(st).heap, Turn(st).todo)
<1> DEFINE p == Head(st.todo)
<1>1. CASE p = Null
  <2>1. Turn(st) = [pbufs |-> st.pbufs, heap |-> st.heap, todo |-> Tail(st.todo)]
    BY <1>1 DEF Turn
  <2> QED
    BY <1>1, <2>1, NullTurn
<1>2. CASE p # Null /\ st.pbufs[p].ref > 1
  <2>1. Turn(st) = [pbufs |-> [st.pbufs EXCEPT ![p].ref = @ - 1], heap |-> st.heap,
                    todo |-> Tail(st.todo)]
    BY <1>2 DEF Turn
  <2> QED
    BY <1>2, <2>1, DropTurn
<1>3. CASE p # Null /\ ~(st.pbufs[p].ref > 1)
  <2>1. Turn(st) = [pbufs |-> Restrict(st.pbufs, DOMAIN st.pbufs \ {p}),
                    heap |-> IF IsRam(p) THEN MemFree(st.heap, p) ELSE st.heap,
                    todo |-> <<st.pbufs[p].original, st.pbufs[p].next>> \o Tail(st.todo)]
    BY <1>3 DEF Turn
  <2> DEFINE new == Turn(st)
  <2>2. /\ new.pbufs = Restrict(st.pbufs, DOMAIN st.pbufs \ {p})
        /\ new.heap = IF IsRam(p) THEN MemFree(st.heap, p) ELSE st.heap
        /\ new.todo = <<st.pbufs[p].original, st.pbufs[p].next>> \o Tail(st.todo)
    BY <2>1
  <2>3. TurnedOk(st.pbufs, st.heap, hd, st.todo, Restrict(st.pbufs, DOMAIN st.pbufs \ {p}),
                 IF IsRam(p) THEN MemFree(st.heap, p) ELSE st.heap,
                 <<st.pbufs[p].original, st.pbufs[p].next>> \o Tail(st.todo))
    BY <1>3, GoneTurn, SMTT(30)
  <2> QED
    BY <2>2, <2>3, Zenon
<1> QED
  BY <1>1, <1>2, <1>3

\* The recursive functions of Freed and Walk are defined.
IsRun(f, st, n) == f = [k \in 0 .. n |-> IF k = 0 THEN st ELSE Turn(f[k - 1])]

LEMMA RunExists == ASSUME NEW st, NEW n \in Nat PROVE \E f : IsRun(f, st, n)
<1> DEFINE Bad == {m \in Nat : ~\E f : IsRun(f, st, m)}
<1>1. SUFFICES ASSUME Bad # {} PROVE FALSE
  OBVIOUS
<1>2. PICK m \in Bad : \A j \in Bad : m <= j
  <2>1. Bad \in SUBSET Nat
    OBVIOUS
  <2> HIDE DEF Bad
  <2> QED
    BY <1>1, <2>1, LeastNumber
<1>3. m # 0
  <2>1. IsRun([k \in 0 .. 0 |-> st], st, 0)
    BY DEF IsRun
  <2> QED
    BY <2>1
<1>4. m \in Nat /\ m - 1 \in Nat /\ ~(m <= m - 1)
  BY <1>3
<1>5. m - 1 \notin Bad
  <2> HIDE DEF Bad
  <2> QED
    BY <1>2, <1>4
<1>6. PICK f : IsRun(f, st, m - 1)
  BY <1>4, <1>5
<1> DEFINE g == [k \in 0 .. m |-> IF k = m THEN Turn(f[m - 1]) ELSE f[k]]
<1>7. f = [k \in 0 .. m - 1 |-> IF k = 0 THEN st ELSE Turn(f[k - 1])]
  BY <1>6 DEF IsRun
<1>8. ASSUME NEW k \in 0 .. m PROVE g[k] = IF k = 0 THEN st ELSE Turn(g[k - 1])
  <2>1. CASE k = 0
    <3>1. f[0] = st /\ m # 0
      BY <1>3, <1>4, <1>7
    <3> QED
      BY <2>1, <3>1
  <2>2. CASE k # 0
    <3>1. k - 1 \in 0 .. m /\ k - 1 # m /\ g[k - 1] = f[k - 1]
      BY <1>4, <2>2
    <3>2. g[k] = Turn(f[k - 1])
      <4>1. CASE k = m
        BY <4>1
      <4>2. CASE k # m
        <5>1. k \in 0 .. m - 1
          BY <1>4, <4>2
        <5>2. f[k] = Turn(f[k - 1])
          BY <1>7, <2>2, <5>1
        <5> QED
          BY <4>2, <5>2
      <4> QED
        BY <4>1, <4>2
    <3> QED
      BY <2>2, <3>1, <3>2
  <2> QED
    BY <2>1, <2>2
<1>9. g = [k \in 0 .. m |-> g[k]]
  OBVIOUS
<1> HIDE DEF g
<1>10. g = [k \in 0 .. m |-> IF k = 0 THEN st ELSE Turn(g[k - 1])]
  BY <1>8, <1>9
<1> QED
  BY <1>10 DEF IsRun

\* The loop of pbuf_free comes to its end.
LEMMA FreedOk ==
  ASSUME NEW pb, NEW h, NEW hd, NEW p, GraphOk(pb, h, hd, <<p>>)
  PROVE  LET end == Freed(pb, h, p)
         IN  GraphOk(end.pbufs, end.heap, hd, <<>>) /\ Smaller(pb, h, end.pbufs, end.heap)
<1> DEFINE st == [pbufs |-> pb, heap |-> h, todo |-> <<p>>]
           N == 2 * Cardinality(DOMAIN pb) + 1
           run == CHOOSE f : IsRun(f, st, N)
<1>1. Typed(pb) /\ <<p>> \in Seq(DOMAIN pb \cup {Null})
  BY DEF GraphOk, RefsOk
<1>2. N \in Nat
  <2>1. Cardinality(DOMAIN pb) \in Nat
    BY <1>1, Finite
  <2> QED
    BY <2>1
<1>3. IsRun(run, st, N)
  <2>1. \E f : IsRun(f, st, N)
    <3> HIDE DEF N, st
    <3> QED
      BY <1>2, RunExists
  <2> HIDE DEF st, N
  <2> QED
    BY <2>1
<1>4. Freed(pb, h, p) = run[N]
  BY DEF Freed, Turns, IsRun
<1>5. st.pbufs = pb /\ st.heap = h /\ st.todo = <<p>>
  OBVIOUS
<1>6. Load(pb, <<p>>) = N
  BY DEF Load
<1> HIDE DEF st, N, run
<1> DEFINE Good(s, k) ==
             /\ GraphOk(s.pbufs, s.heap, hd, s.todo) /\ Smaller(pb, h, s.pbufs, s.heap)
             /\ s.todo = <<>> \/ Load(s.pbufs, s.todo) + k <= N
           Bad == {k \in 0 .. N : ~Good(run[k], k)}
<1>7. run[0] = st /\ \A k \in 1 .. N : run[k] = Turn(run[k - 1])
  BY <1>2, <1>3 DEF IsRun
<1>8. Good(st, 0)
  <2>1. Smaller(pb, h, pb, h)
    BY DEF Smaller
  <2>2. N + 0 <= N
    BY <1>2
  <2> QED
    BY <1>5, <1>6, <2>1, <2>2
<1>9. ASSUME NEW s, NEW k \in Nat, Good(s, k) PROVE Good(Turn(s), k + 1)
  <2>1. CASE s.todo = <<>>
    <3>1. Turn(s) = s
      BY <2>1 DEF Turn
    <3> QED
      BY <1>9, <2>1, <3>1
  <2>2. CASE s.todo # <<>>
    <3> DEFINE u == Turn(s)
               l == Load(s.pbufs, s.todo)
               l2 == Load(u.pbufs, u.todo)
    <3>1. TurnedOk(s.pbufs, s.heap, hd, s.todo, u.pbufs, u.heap, u.todo)
      BY <1>9, <2>2, TurnOk
    <3> HIDE DEF u
    <3>2. GraphOk(u.pbufs, u.heap, hd, u.todo) /\ Smaller(s.pbufs, s.heap, u.pbufs, u.heap)
          /\ l2 < l
      BY <3>1 DEF TurnedOk
    <3>3. Smaller(pb, h, u.pbufs, u.heap)
      BY <1>9, <3>2 DEF Smaller
    <3>4. /\ Typed(s.pbufs) /\ s.todo \in Seq(DOMAIN s.pbufs \cup {Null})
          /\ Typed(u.pbufs) /\ u.todo \in Seq(DOMAIN u.pbufs \cup {Null})
      BY <1>9, <3>2 DEF GraphOk, RefsOk
    <3>5. l \in Nat /\ l2 \in Nat
      BY <3>4, LoadIs
    <3>6. l + k <= N
      BY <1>9, <2>2
    <3> HIDE DEF l, l2
    <3>7. l2 + (k + 1) <= N
      BY <1>2, <3>2, <3>5, <3>6
    <3> QED
      BY <3>2, <3>3, <3>7 DEF u, l2
  <2> QED
    BY <2>1, <2>2
<1> HIDE DEF Good
<1>10. Bad = {}
  <2> SUFFICES ASSUME Bad # {} PROVE FALSE
    OBVIOUS
  <2>1. Bad \in SUBSET Nat
    BY <1>2
  <2>2. PICK k \in Bad : \A j \in Bad : k <= j
    <3> HIDE DEF Bad
    <3> QED
      BY <2>1, LeastNumber
  <2>3. k # 0
    BY <1>7, <1>8
  <2>4. k \in Nat /\ k <= N /\ k - 1 \in 0 .. N /\ k - 1 \in Nat /\ ~(k <= k - 1)
    BY <1>2, <2>3
  <2>5. k - 1 \notin Bad
    <3> HIDE DEF Bad
    <3> QED
      BY <2>2, <2>4
  <2>6. Good(run[k - 1], k - 1)
    BY <2>4, <2>5
  <2>7. Good(Turn(run[k - 1]), k - 1 + 1)
    BY <1>9, <2>4, <2>6
  <2>8. k - 1 + 1 = k /\ run[k] = Turn(run[k - 1])
    <3>1. k \in 1 .. N
      BY <1>2, <2>3, <2>4
    <3> QED
      BY <1>7, <2>4, <3>1
  <2> QED
    BY <2>7, <2>8
<1>11. Good(run[N], N)
  <2>1. N \in 0 .. N
    BY <1>2
  <2> QED
    BY <1>10, <2>1
<1>12. run[N].todo = <<>>
  <2> SUFFICES ASSUME run[N].todo # <<>> PROVE FALSE
    OBVIOUS
  <2> DEFINE s == run[N]
             l == Load(s.pbufs, s.todo)
  <2>1. GraphOk(s.pbufs, s.heap, hd, s.todo) /\ l + N <= N
    BY <1>11 DEF Good
  <2> HIDE DEF s
  <2>2. Typed(s.pbufs) /\ s.todo \in Seq(DOMAIN s.pbufs \cup {Null}) /\ s.todo # <<>>
    BY <2>1 DEF GraphOk, RefsOk, s
  <2>3. Len(s.todo) \in Nat /\ Len(s.todo) > 0
    BY <2>2
  <2>4. Cardinality(DOMAIN s.pbufs) \in Nat
    BY <2>2, Finite
  <2>5. l \in Nat /\ l > 0
    BY <2>3, <2>4 DEF Load
  <2> HIDE DEF l
  <2> QED
    BY <1>2, <2>1, <2>5
<1> QED
  BY <1>4, <1>11, <1>12 DEF Good

-------------------------------------------------------------------------------
(* Chains. *)

Links == Typed(pbufs) /\ \A p \in DOMAIN pbufs : pbufs[p].next \in DOMAIN pbufs \cup {Null}

LEMMA InvLinks == Inv => Links
BY DEF Inv, GraphOk, RefsOk, Links

\* A chain has its first pbuf and with each the next, and nothing else.
LEMMA ChainHas == ASSUME Links, NEW p \in DOMAIN pbufs PROVE p \in InChain(p)
<1>1. p # Null
  BY PbufFields DEF Links
<1> QED
  BY <1>1 DEF InChain

LEMMA ChainNext ==
  ASSUME Links, NEW p, NEW q \in InChain(p), pbufs[q].next # Null
  PROVE  pbufs[q].next \in InChain(p)
BY DEF InChain, Links

LEMMA ChainLeast ==
  ASSUME NEW p, NEW S \in SUBSET DOMAIN pbufs, p \in S \cup {Null},
         \A r \in S : pbufs[r].next \in S \cup {Null}
  PROVE  InChain(p) \subseteq S
BY DEF InChain

LEMMA ChainIn == ASSUME NEW p PROVE InChain(p) \subseteq DOMAIN pbufs
BY DEF InChain

LEMMA NoChain == InChain(Null) = {}
<1> DEFINE S == {}
<1>1. S \in SUBSET DOMAIN pbufs /\ Null \in S \cup {Null}
      /\ \A r \in S : pbufs[r].next \in S \cup {Null}
  OBVIOUS
<1> HIDE DEF S
<1>2. InChain(Null) \subseteq S
  BY <1>1, ChainLeast
<1> QED
  BY <1>2 DEF S

LEMMA ChainTrans ==
  ASSUME Links, NEW p, NEW q \in InChain(p)
  PROVE  InChain(q) \subseteq InChain(p)
<1>1. InChain(p) \in SUBSET DOMAIN pbufs
  BY ChainIn
<1>2. \A r \in InChain(p) : pbufs[r].next \in InChain(p) \cup {Null}
  BY ChainNext
<1> QED
  BY <1>1, <1>2, ChainLeast

LEMMA ChainStep ==
  ASSUME Links, NEW p \in DOMAIN pbufs
  PROVE  InChain(p) = {p} \cup InChain(pbufs[p].next)
<1> DEFINE n == pbufs[p].next
           S == {p} \cup InChain(n)
<1>1. n \in DOMAIN pbufs \cup {Null}
  BY DEF Links
<1>2. S \in SUBSET DOMAIN pbufs /\ p \in S
  BY ChainIn
<1>3. ASSUME NEW r \in S PROVE pbufs[r].next \in S \cup {Null}
  <2>1. CASE r = p
    BY <1>1, <2>1, ChainHas
  <2>2. CASE r \in InChain(n)
    BY <2>2, ChainNext
  <2> QED
    BY <2>1, <2>2
<1>4. InChain(p) \subseteq S
  <2> HIDE DEF S
  <2> QED
    BY <1>2, <1>3, ChainLeast
<1>5. p \in InChain(p)
  BY ChainHas
<1>6. InChain(n) \subseteq InChain(p)
  <2>1. CASE n = Null
    BY <2>1, NoChain
  <2>2. CASE n # Null
    BY <1>5, <2>2, ChainNext, ChainTrans
  <2> QED
    BY <2>1, <2>2
<1> QED
  BY <1>4, <1>5, <1>6

\* Behind its first pbuf everything in a chain is behind something of it.
LEMMA ChainPred ==
  ASSUME Links, NEW p \in DOMAIN pbufs, NEW q \in InChain(p), q # p
  PROVE  \E x \in InChain(p) : pbufs[x].next = q
<1> SUFFICES ASSUME \A x \in InChain(p) : pbufs[x].next # q PROVE FALSE
  OBVIOUS
<1> DEFINE S == InChain(p) \ {q}
<1>1. S \in SUBSET DOMAIN pbufs
  BY ChainIn
<1>2. p \in S
  BY ChainHas
<1>3. \A r \in S : pbufs[r].next \in S \cup {Null}
  BY ChainNext
<1> HIDE DEF S
<1>4. InChain(p) \subseteq S
  BY <1>1, <1>2, <1>3, ChainLeast
<1> QED
  BY <1>4 DEF S

\* The head of a chain that nobody else uses.
Single(h) == Inv /\ h \in DOMAIN pbufs /\ IsHead(h) /\ Alone(h)

LEMMA OnePred ==
  ASSUME NEW pb, NEW hd, NEW todo, Typed(pb), NEW q \in DOMAIN pb, NEW S, todo \in Seq(S),
         Refs(pb, hd, todo, q), pb[q].ref = 1,
         NEW x \in Preds(pb, q), NEW y \in Preds(pb, q)
  PROVE  x = y
<1> DEFINE a == hd[q]
           c == Cardinality(Preds(pb, q))
           d == Cardinality(Mirrors(pb, q))
           e == Cardinality(Places(todo, q))
<1>1. IsFiniteSet(Preds(pb, q)) /\ c \in Nat /\ d \in Nat /\ e \in Nat
  BY Finite, PlacesFinite
<1>2. a \in Nat /\ 1 = a + c + d + e
  BY DEF Refs
<1>3. c # 0
  BY <1>1, FS_EmptySet
<1> HIDE DEF a, c, d, e
<1>4. c = 1
  BY <1>1, <1>2, <1>3
<1>5. \E z : Preds(pb, q) = {z}
  BY <1>1, <1>4, FS_Singleton DEF c
<1> QED
  BY <1>5

LEMMA SinglePred ==
  ASSUME NEW h, Single(h), NEW q \in InChain(h), q # h,
         NEW x \in DOMAIN pbufs, NEW y \in DOMAIN pbufs,
         pbufs[x].next = q, pbufs[y].next = q
  PROVE  x = y
<1>1. GraphOk(pbufs, heap, held, <<>>)
  BY DEF Single, Inv
<1>2. Typed(pbufs) /\ RefsOk(pbufs, held, <<>>)
  BY <1>1 DEF GraphOk
<1>3. q \in DOMAIN pbufs /\ pbufs[q].ref = 1
  BY ChainIn DEF Single, Alone
<1>4. Refs(pbufs, held, <<>>, q) /\ <<>> \in Seq(DOMAIN pbufs \cup {Null})
  BY <1>2, <1>3 DEF RefsOk
<1>5. x \in Preds(pbufs, q) /\ y \in Preds(pbufs, q)
  BY DEF Preds
<1> QED
  BY <1>2, <1>3, <1>4, <1>5, OnePred

\* Nothing outside of the chain is next to anything in it.
LEMMA FromInside ==
  ASSUME NEW h, Single(h), NEW x \in DOMAIN pbufs, pbufs[x].next \in InChain(h)
  PROVE  x \in InChain(h)
<1>1. Links /\ h \in DOMAIN pbufs /\ pbufs[x].next # h
  BY InvLinks DEF Single, IsHead
<1>2. PICK y \in InChain(h) : pbufs[y].next = pbufs[x].next
  BY <1>1, ChainPred
<1>3. y \in DOMAIN pbufs
  BY <1>2, ChainIn
<1>4. x = y
  BY <1>1, <1>2, <1>3, SinglePred
<1> QED
  BY <1>4

\* And it does not come back to where it was.
LEMMA NoReturn ==
  ASSUME NEW h, Single(h), NEW x \in InChain(h)
  PROVE  x \notin InChain(pbufs[x].next)
<1> SUFFICES ASSUME x \in InChain(pbufs[x].next) PROVE FALSE
  OBVIOUS
<1> DEFINE n == pbufs[x].next
           C == InChain(n)
           S == InChain(h) \ C
<1>1. Links /\ h \in DOMAIN pbufs /\ x \in DOMAIN pbufs
  BY InvLinks, ChainIn DEF Single
<1>2. n # Null
  BY NoChain
<1>3. n \in InChain(h) /\ n \in DOMAIN pbufs /\ C \subseteq InChain(h)
  BY <1>1, <1>2, ChainNext, ChainTrans, ChainIn
<1>4. n \in C
  BY <1>1, <1>3, ChainHas
<1>5. ASSUME NEW q \in C PROVE \E y \in C : pbufs[y].next = q
  <2>1. CASE q = n
    BY <2>1
  <2>2. CASE q # n
    BY <1>1, <1>3, <2>2, ChainPred
  <2> QED
    BY <2>1, <2>2
<1>6. C \subseteq DOMAIN pbufs
  BY ChainIn
<1>7. h \notin C
  BY <1>5, <1>6 DEF Single, IsHead
<1>8. S \in SUBSET DOMAIN pbufs /\ h \in S
  BY <1>1, <1>7, ChainIn, ChainHas
<1>9. ASSUME NEW r \in S PROVE pbufs[r].next \in S \cup {Null}
  <2> SUFFICES ASSUME pbufs[r].next \in C PROVE FALSE
    BY <1>1, ChainNext
  <2>1. PICK y \in C : pbufs[y].next = pbufs[r].next
    BY <1>5
  <2>2. r \in DOMAIN pbufs /\ y \in DOMAIN pbufs /\ r # y
    BY <1>6, <1>8
  <2>3. pbufs[r].next \in InChain(h) /\ pbufs[r].next # h
    BY <1>3, <1>7
  <2> QED
    BY <2>1, <2>2, <2>3, SinglePred
<1> HIDE DEF S
<1>10. InChain(h) \subseteq S
  BY <1>8, <1>9, ChainLeast
<1> QED
  BY <1>3, <1>4, <1>10 DEF S

\* What is left of it gets shorter from each to the next.
LEMMA Shorter ==
  ASSUME NEW h, Single(h), NEW x \in InChain(h)
  PROVE  /\ Cardinality(InChain(x)) \in Nat /\ Cardinality(InChain(pbufs[x].next)) \in Nat
         /\ Cardinality(InChain(pbufs[x].next)) + 1 = Cardinality(InChain(x))
         /\ Cardinality(InChain(x)) <= Cardinality(DOMAIN pbufs)
<1> DEFINE n == pbufs[x].next
<1>1. Links /\ x \in DOMAIN pbufs
  BY InvLinks, ChainIn DEF Single
<1>2. InChain(x) = InChain(n) \cup {x} /\ x \notin InChain(n)
  BY <1>1, ChainStep, NoReturn
<1>3. IsFiniteSet(DOMAIN pbufs)
  BY <1>1 DEF Links, Typed
<1>4. InChain(n) \in SUBSET DOMAIN pbufs /\ InChain(x) \in SUBSET DOMAIN pbufs
  BY ChainIn
<1> HIDE DEF n
<1>5. /\ IsFiniteSet(InChain(n)) /\ IsFiniteSet(InChain(x))
      /\ Cardinality(InChain(x)) <= Cardinality(DOMAIN pbufs)
  BY <1>3, <1>4, FS_Subset
<1>6. Cardinality(InChain(n)) \in Nat /\ Cardinality(InChain(x)) \in Nat
  BY <1>5, FS_CardinalityType
<1>7. Cardinality(InChain(n) \cup {x}) = Cardinality(InChain(n)) + 1
  BY <1>2, <1>5, FS_AddElement
<1> QED
  BY <1>2, <1>5, <1>6, <1>7 DEF n

\* Down to the last one.
LEMMA LastIs ==
  ASSUME NEW h, Single(h)
  PROVE  \E l \in InChain(h) : /\ pbufs[l].next = Null
                               /\ \A x \in InChain(h) : pbufs[x].next = Null => x = l
<1>1. Links /\ h \in DOMAIN pbufs
  BY InvLinks DEF Single
<1> DEFINE C == InChain(h)
           N == {Cardinality(InChain(x)) : x \in C}
<1>2. N \in SUBSET Nat /\ N # {}
  BY <1>1, Shorter, ChainHas
<1>3. PICK k \in N : \A j \in N : k <= j
  <2> HIDE DEF N
  <2> QED
    BY <1>2, LeastNumber
<1>4. PICK l \in C : k = Cardinality(InChain(l))
  BY <1>3
<1>5. pbufs[l].next = Null
  <2> SUFFICES ASSUME pbufs[l].next # Null PROVE FALSE
    OBVIOUS
  <2> DEFINE n == pbufs[l].next
             a == Cardinality(InChain(n))
  <2>1. n \in C
    BY <1>1, ChainNext
  <2>2. a \in Nat /\ a + 1 = k /\ k \in Nat
    BY <1>4, Shorter
  <2>3. a \in N
    BY <2>1
  <2>4. k <= a
    <3> HIDE DEF N, a
    <3> QED
      BY <1>3, <2>3
  <2> HIDE DEF a
  <2> QED
    BY <2>2, <2>4
<1>6. ASSUME NEW x \in C, pbufs[x].next = Null PROVE x = l
  <2> DEFINE B == {z \in C : x \in InChain(z)}
  <2>1. C \in SUBSET DOMAIN pbufs
    BY ChainIn
  <2>2. h \in B
    BY <1>1, ChainHas
  <2>3. ASSUME NEW z \in B PROVE pbufs[z].next \in B \cup {Null}
    <3> SUFFICES ASSUME pbufs[z].next # Null PROVE x \in InChain(pbufs[z].next)
      BY <1>1, ChainNext
    <3>1. z # x
      BY <1>6
    <3>2. InChain(z) = {z} \cup InChain(pbufs[z].next)
      BY <1>1, <2>1, ChainStep
    <3> QED
      BY <3>1, <3>2
  <2>4. B \in SUBSET DOMAIN pbufs
    BY <2>1
  <2>5. C \subseteq B
    <3> HIDE DEF B
    <3> QED
      BY <2>2, <2>3, <2>4, ChainLeast
  <2>6. x \in InChain(l)
    BY <2>5
  <2>7. InChain(l) = {l}
    BY <1>1, <1>5, <2>1, ChainStep, NoChain
  <2> QED
    BY <2>6, <2>7
<1> QED
  BY <1>5, <1>6

\* The walk down a chain.
IsWalk(f, at, n) == f = [k \in 0 .. n |-> IF k = 0 THEN at ELSE Over(f[k - 1])]

LEMMA WalkExists == ASSUME NEW st, NEW n \in Nat PROVE \E f : IsWalk(f, st, n)
<1> DEFINE Bad == {m \in Nat : ~\E f : IsWalk(f, st, m)}
<1>1. SUFFICES ASSUME Bad # {} PROVE FALSE
  OBVIOUS
<1>2. PICK m \in Bad : \A j \in Bad : m <= j
  <2>1. Bad \in SUBSET Nat
    OBVIOUS
  <2> HIDE DEF Bad
  <2> QED
    BY <1>1, <2>1, LeastNumber
<1>3. m # 0
  <2>1. IsWalk([k \in 0 .. 0 |-> st], st, 0)
    BY DEF IsWalk
  <2> QED
    BY <2>1
<1>4. m \in Nat /\ m - 1 \in Nat /\ ~(m <= m - 1)
  BY <1>3
<1>5. m - 1 \notin Bad
  <2> HIDE DEF Bad
  <2> QED
    BY <1>2, <1>4
<1>6. PICK f : IsWalk(f, st, m - 1)
  BY <1>4, <1>5
<1> DEFINE g == [k \in 0 .. m |-> IF k = m THEN Over(f[m - 1]) ELSE f[k]]
<1>7. f = [k \in 0 .. m - 1 |-> IF k = 0 THEN st ELSE Over(f[k - 1])]
  BY <1>6 DEF IsWalk
<1>8. ASSUME NEW k \in 0 .. m PROVE g[k] = IF k = 0 THEN st ELSE Over(g[k - 1])
  <2>1. CASE k = 0
    <3>1. f[0] = st /\ m # 0
      BY <1>3, <1>4, <1>7
    <3> QED
      BY <2>1, <3>1
  <2>2. CASE k # 0
    <3>1. k - 1 \in 0 .. m /\ k - 1 # m /\ g[k - 1] = f[k - 1]
      BY <1>4, <2>2
    <3>2. g[k] = Over(f[k - 1])
      <4>1. CASE k = m
        BY <4>1
      <4>2. CASE k # m
        <5>1. k \in 0 .. m - 1
          BY <1>4, <4>2
        <5>2. f[k] = Over(f[k - 1])
          BY <1>7, <2>2, <5>1
        <5> QED
          BY <4>2, <5>2
      <4> QED
        BY <4>1, <4>2
    <3> QED
      BY <2>2, <3>1, <3>2
  <2> QED
    BY <2>1, <2>2
<1>9. g = [k \in 0 .. m |-> g[k]]
  OBVIOUS
<1> HIDE DEF g
<1>10. g = [k \in 0 .. m |-> IF k = 0 THEN st ELSE Over(g[k - 1])]
  BY <1>8, <1>9
<1> QED
  BY <1>10 DEF IsWalk

\* Where the walk over the first n bytes of h's chain has come to.
Walked(h, n, q, rem) ==
  /\ q \in InChain(h) /\ rem \in Nat
  /\ pbufs[h].tot_len + rem = pbufs[q].tot_len + n
  /\ \A x \in Passed(h, q) : /\ pbufs[x].next \in Passed(h, q) \cup {q}
                             /\ pbufs[x].tot_len >= pbufs[q].tot_len

LEMMA WalkStep ==
  ASSUME NEW h, Single(h), NEW n \in Nat, n <= pbufs[h].tot_len,
         NEW q, NEW rem, Walked(h, n, q, rem), ~(rem <= pbufs[q].len)
  PROVE  Walked(h, n, pbufs[q].next, rem - pbufs[q].len)
<1> DEFINE m == pbufs[q].next
           l == pbufs[q].len
           t == pbufs[q].tot_len
           u == pbufs[m].tot_len
           a == pbufs[h].tot_len
<1>1. Links /\ h \in DOMAIN pbufs /\ LensOk(pbufs) /\ q \in DOMAIN pbufs /\ q \in InChain(h)
  BY InvLinks, ChainIn DEF Single, Inv, GraphOk, Walked
<1>2. Typed(pbufs)
  BY <1>1 DEF Links
<1>3. l \in Nat /\ t \in Nat /\ a \in Nat
  BY <1>1, <1>2, PbufFields
<1>4. rem \in Nat /\ a + rem = t + n
  BY DEF Walked
<1>5. rem <= t /\ rem > l
  <2>1. ~(rem <= l) /\ n <= a
    OBVIOUS
  <2> HIDE DEF l, t, a
  <2> QED
    BY <1>3, <1>4, <2>1
<1>6. t = l + IF m = Null THEN 0 ELSE u
  BY <1>1 DEF LensOk, LenOf
<1>7. m # Null
  <2> SUFFICES ASSUME m = Null PROVE FALSE
    OBVIOUS
  <2>1. t = l + 0 /\ l + 0 = l
    BY <1>3, <1>6
  <2>2. t = l
    BY <2>1
  <2> HIDE DEF l, t, m
  <2>3. rem <= l /\ rem > l
    BY <1>5, <2>2
  <2> QED
    BY <1>3, <1>4, <2>3
<1>8. m \in InChain(h) /\ m \in DOMAIN pbufs
  BY <1>1, <1>7, ChainNext, ChainIn
<1>9. u \in Nat
  BY <1>2, <1>8, PbufFields
<1>10. rem - l \in Nat /\ a + (rem - l) = u + n /\ t >= u
  <2>1. t = l + u
    BY <1>6, <1>7
  <2> HIDE DEF l, t, a, u
  <2> QED
    BY <1>3, <1>4, <1>5, <1>9, <2>1
<1>11. InChain(q) = {q} \cup InChain(m) /\ q \notin InChain(m)
  BY <1>1, ChainStep, NoReturn
<1>12. Passed(h, m) = Passed(h, q) \cup {q}
  BY <1>1, <1>11 DEF Passed
<1>13. ASSUME NEW x \in Passed(h, m)
       PROVE  pbufs[x].next \in Passed(h, m) \cup {m} /\ pbufs[x].tot_len >= u
  <2>1. CASE x = q
    BY <1>10, <2>1
  <2>2. CASE x \in Passed(h, q)
    <3>1. pbufs[x].next \in Passed(h, q) \cup {q} /\ pbufs[x].tot_len >= t
      BY <2>2 DEF Walked
    <3>2. pbufs[x].tot_len \in Nat
      BY <1>2, <2>2, ChainIn, PbufFields DEF Passed
    <3> HIDE DEF t, u
    <3>3. pbufs[x].tot_len >= u
      BY <1>3, <1>9, <1>10, <3>1, <3>2
    <3> QED
      BY <1>12, <3>1, <3>3
  <2> QED
    BY <1>12, <2>1, <2>2
<1>14. Walked(h, n, m, rem - l)
  <2> HIDE DEF m, l
  <2> QED
    BY <1>8, <1>10, <1>13 DEF Walked, a, u
<1> QED
  BY <1>14

LEMMA WalkOk ==
  ASSUME NEW h, Single(h), NEW n \in Nat, n <= pbufs[h].tot_len
  PROVE  LET at == Walk(h, n)
         IN  Walked(h, n, at.q, at.rem_len) /\ at.rem_len <= pbufs[at.q].len
<1> DEFINE st == [q |-> h, rem_len |-> n]
           last == Cardinality(DOMAIN pbufs)
           at == CHOOSE f : IsWalk(f, st, last)
<1>1. Links /\ h \in DOMAIN pbufs /\ Typed(pbufs)
  BY InvLinks DEF Single, Links
<1>2. last \in Nat
  BY <1>1, Finite
<1>3. IsWalk(at, st, last)
  <2>1. \E f : IsWalk(f, st, last)
    <3> HIDE DEF last, st
    <3> QED
      BY <1>2, WalkExists
  <2> HIDE DEF st, last
  <2> QED
    BY <2>1
<1>4. Walk(h, n) = at[last]
  BY DEF Walk, IsWalk
<1>5. st.q = h /\ st.rem_len = n
  OBVIOUS
<1> HIDE DEF st, at, last
<1> DEFINE Good(s, k) ==
             /\ Walked(h, n, s.q, s.rem_len)
             /\ s.rem_len <= pbufs[s.q].len \/ k + Cardinality(InChain(s.q)) <= last
           Bad == {k \in 0 .. last : ~Good(at[k], k)}
<1>6. at[0] = st /\ \A k \in 1 .. last : at[k] = Over(at[k - 1])
  BY <1>2, <1>3 DEF IsWalk
<1>7. h \in InChain(h)
  BY <1>1, ChainHas
<1>8. Good(st, 0)
  <2>1. Passed(h, h) = {} /\ pbufs[h].tot_len + n = pbufs[h].tot_len + n
    BY DEF Passed
  <2>2. Walked(h, n, h, n)
    BY <1>7, <2>1 DEF Walked
  <2>3. Cardinality(InChain(h)) \in Nat /\ Cardinality(InChain(h)) <= last
    BY <1>7, Shorter DEF last
  <2>4. 0 + Cardinality(InChain(h)) <= last
    BY <2>3
  <2> QED
    BY <1>5, <2>2, <2>4
<1>9. ASSUME NEW s, NEW k \in Nat, Good(s, k) PROVE Good(Over(s), k + 1)
  <2>1. CASE s.rem_len <= pbufs[s.q].len
    <3>1. Over(s) = s
      BY <2>1 DEF Over
    <3> QED
      BY <1>9, <2>1, <3>1
  <2>2. CASE ~(s.rem_len <= pbufs[s.q].len)
    <3> DEFINE u == Over(s)
               m == pbufs[s.q].next
               c == Cardinality(InChain(s.q))
               c2 == Cardinality(InChain(m))
    <3>1. u.q = m /\ u.rem_len = s.rem_len - pbufs[s.q].len
      BY <2>2 DEF Over
    <3>2. Walked(h, n, u.q, u.rem_len)
      BY <1>9, <2>2, <3>1, WalkStep
    <3>3. c \in Nat /\ c2 \in Nat /\ c2 + 1 = c
      BY <1>9, Shorter DEF Walked
    <3>4. k + c <= last
      BY <1>9, <2>2
    <3> HIDE DEF c, c2, u, m
    <3>5. k + 1 + c2 <= last
      BY <1>2, <3>3, <3>4
    <3> QED
      BY <3>1, <3>2, <3>5 DEF u, c2
  <2> QED
    BY <2>1, <2>2
<1> HIDE DEF Good
<1>10. Bad = {}
  <2> SUFFICES ASSUME Bad # {} PROVE FALSE
    OBVIOUS
  <2>1. Bad \in SUBSET Nat
    BY <1>2
  <2>2. PICK k \in Bad : \A j \in Bad : k <= j
    <3> HIDE DEF Bad
    <3> QED
      BY <2>1, LeastNumber
  <2>3. k # 0
    BY <1>6, <1>8
  <2>4. k \in Nat /\ k <= last /\ k - 1 \in 0 .. last /\ k - 1 \in Nat /\ ~(k <= k - 1)
    BY <1>2, <2>3
  <2>5. k - 1 \notin Bad
    <3> HIDE DEF Bad
    <3> QED
      BY <2>2, <2>4
  <2>6. Good(at[k - 1], k - 1)
    BY <2>4, <2>5
  <2>7. Good(Over(at[k - 1]), k - 1 + 1)
    BY <1>9, <2>4, <2>6
  <2>8. k - 1 + 1 = k /\ at[k] = Over(at[k - 1])
    <3>1. k \in 1 .. last
      BY <1>2, <2>3, <2>4
    <3> QED
      BY <1>6, <2>4, <3>1
  <2> QED
    BY <2>7, <2>8
<1>11. Good(at[last], last)
  <2>1. last \in 0 .. last
    BY <1>2
  <2> QED
    BY <1>10, <2>1
<1>12. at[last].rem_len <= pbufs[at[last].q].len
  <2> SUFFICES ASSUME ~(at[last].rem_len <= pbufs[at[last].q].len) PROVE FALSE
    OBVIOUS
  <2> DEFINE s == at[last]
             c == Cardinality(InChain(s.q))
             c2 == Cardinality(InChain(pbufs[s.q].next))
  <2>1. Walked(h, n, s.q, s.rem_len) /\ last + c <= last
    BY <1>11 DEF Good
  <2>2. c2 \in Nat /\ c2 + 1 = c
    BY <2>1, Shorter DEF Walked
  <2> HIDE DEF c, c2
  <2> QED
    BY <1>2, <2>1, <2>2
<1> QED
  BY <1>4, <1>11, <1>12 DEF Good

\* Those that the walk has not come to are not next to those that it has.
LEMMA Ahead ==
  ASSUME NEW h, Single(h), NEW n, NEW q, NEW rem, Walked(h, n, q, rem),
         NEW x \in DOMAIN pbufs, x \notin Passed(h, q) \cup {q}
  PROVE  pbufs[x].next \notin Passed(h, q) \cup {q}
<1>1. Links /\ q \in InChain(h)
  BY InvLinks DEF Single, Walked
<1>2. CASE x \notin InChain(h)
  BY <1>1, <1>2, FromInside DEF Passed
<1>3. CASE x \in InChain(h)
  <2>1. x \in InChain(q)
    BY <1>3 DEF Passed
  <2>2. pbufs[x].next \in InChain(q) \cup {Null}
    BY <1>1, <2>1, ChainNext
  <2>3. pbufs[x].next # q
    BY <1>3, <2>1, NoReturn
  <2>4. Null \notin InChain(h)
    <3>1. InChain(h) \subseteq DOMAIN pbufs
      BY ChainIn
    <3> QED
      BY <1>1, <3>1, PbufFields DEF Links
  <2> QED
    BY <2>2, <2>3, <2>4 DEF Passed
<1> QED
  BY <1>2, <1>3

-------------------------------------------------------------------------------
(* References that change hands. *)

LEMMA PlacesOne ==
  ASSUME NEW a, NEW x
  PROVE  /\ Cardinality(Places(<<>>, x)) = 0
         /\ Cardinality(Places(<<a>>, x)) = IF a = x THEN 1 ELSE 0
<1>1. Places(<<>>, x) = {} /\ Places(<<a>>, x) = IF a = x THEN {1} ELSE {}
  BY DEF Places
<1> QED
  BY <1>1, FS_EmptySet, FS_Singleton

LEMMA NullOwed ==
  ASSUME NEW pb, NEW hd, Typed(pb)
  PROVE  RefsOk(pb, hd, <<>>) <=> RefsOk(pb, hd, <<Null>>)
<1>1. ASSUME NEW x \in DOMAIN pb PROVE Refs(pb, hd, <<>>, x) <=> Refs(pb, hd, <<Null>>, x)
  <2>1. x # Null
    BY PbufFields
  <2>2. Cardinality(Places(<<>>, x)) = Cardinality(Places(<<Null>>, x))
    BY <2>1, PlacesOne
  <2> QED
    BY <2>2 DEF Refs
<1>2. <<>> \in Seq(DOMAIN pb \cup {Null}) /\ <<Null>> \in Seq(DOMAIN pb \cup {Null})
  OBVIOUS
<1> QED
  BY <1>1, <1>2 DEF RefsOk

\* Counted before it is somebody's.
LEMMA Borrowed ==
  ASSUME NEW pb, NEW hd, NEW p \in DOMAIN pb, Typed(pb), RefsOk(pb, hd, <<>>)
  PROVE  LET new == [pb EXCEPT ![p].ref = @ + 1]
         IN  /\ Typed(new) /\ SameLinks(pb, new) /\ SameData(pb, new)
             /\ RefsOk(new, hd, <<p>>)
<1> DEFINE n == pb[p].ref + 1
           new == [pb EXCEPT ![p].ref = n]
<1>1. n \in Nat
  BY PbufFields
<1>2. /\ Typed(new) /\ SameLinks(pb, new) /\ SameData(pb, new)
      /\ \A q \in DOMAIN pb : new[q].ref = IF q = p THEN n ELSE pb[q].ref
  <2> HIDE DEF n
  <2> QED
    BY <1>1, RefChanged
<1>3. new = [pb EXCEPT ![p].ref = @ + 1]
  OBVIOUS
<1> HIDE DEF new
<1>4. ASSUME NEW x \in DOMAIN pb PROVE Refs(new, hd, <<p>>, x)
  <2> DEFINE c == Cardinality(Preds(pb, x))
             d == Cardinality(Mirrors(pb, x))
             e == IF p = x THEN 1 ELSE 0
             a == hd[x]
             r == pb[x].ref
             r2 == new[x].ref
  <2>1. c \in Nat /\ d \in Nat /\ e \in Nat /\ r \in Nat
    BY Finite, PbufFields
  <2>2. Cardinality(Places(<<>>, x)) = 0 /\ Cardinality(Places(<<p>>, x)) = e
    BY PlacesOne
  <2>3. Cardinality(Preds(new, x)) = c /\ Cardinality(Mirrors(new, x)) = d
    BY <1>2, SameLinksSame
  <2>4. a \in Nat /\ r > 0 /\ r = a + c + d + 0
    BY <2>2 DEF Refs, RefsOk
  <2>5. r2 = r + e
    BY <1>2, <2>1
  <2> HIDE DEF a, c, d, e, r, r2
  <2>6. r2 > 0 /\ r2 = a + c + d + e
    BY <2>1, <2>4, <2>5
  <2> QED
    BY <2>2, <2>3, <2>4, <2>6 DEF Refs, a, c, d, e, r2
<1>5. <<p>> \in Seq(DOMAIN pb \cup {Null})
  OBVIOUS
<1>6. RefsOk(new, hd, <<p>>)
  BY <1>2, <1>4, <1>5 DEF RefsOk, SameLinks
<1> QED
  BY <1>2, <1>3, <1>6

\* A caller's, to be given to somebody else or to be lost.
LEMMA Given ==
  ASSUME NEW pb, NEW hd, NEW p \in DOMAIN pb, NEW D, hd \in [D -> Nat],
         DOMAIN pb \subseteq D, hd[p] > 0, Typed(pb), RefsOk(pb, hd, <<>>)
  PROVE  RefsOk(pb, [hd EXCEPT ![p] = @ - 1], <<p>>)
<1> DEFINE less == [hd EXCEPT ![p] = @ - 1]
<1>1. less[p] = hd[p] - 1 /\ \A x \in D : x # p => less[x] = hd[x]
  OBVIOUS
<1>2. hd[p] - 1 \in Nat
  OBVIOUS
<1> HIDE DEF less
<1>3. ASSUME NEW x \in DOMAIN pb PROVE Refs(pb, less, <<p>>, x)
  <2> DEFINE c == Cardinality(Preds(pb, x))
             d == Cardinality(Mirrors(pb, x))
             e == IF p = x THEN 1 ELSE 0
             a == hd[x]
             b == less[x]
             r == pb[x].ref
  <2>1. c \in Nat /\ d \in Nat /\ e \in Nat /\ r \in Nat
    BY Finite, PbufFields
  <2>2. Cardinality(Places(<<>>, x)) = 0 /\ Cardinality(Places(<<p>>, x)) = e
    BY PlacesOne
  <2>3. a \in Nat /\ r > 0 /\ r = a + c + d + 0
    BY <2>2 DEF Refs, RefsOk
  <2>4. b \in Nat /\ a = b + e
    BY <1>1, <1>2, <2>3
  <2> HIDE DEF a, b, c, d, e, r
  <2>5. r = b + c + d + e
    BY <2>1, <2>3, <2>4
  <2> QED
    BY <2>2, <2>3, <2>4, <2>5 DEF Refs, b, c, d, e, r
<1>4. <<p>> \in Seq(DOMAIN pb \cup {Null})
  OBVIOUS
<1> QED
  BY <1>3, <1>4 DEF RefsOk, less

\* l is next to b instead of a.
IsRelinked(pb, l, a, b, new) ==
  /\ DOMAIN new = DOMAIN pb /\ l \in DOMAIN pb
  /\ pb[l].next = a /\ new[l].next = b
  /\ \A x \in DOMAIN pb \ {l} : new[x].next = pb[x].next
  /\ \A x \in DOMAIN pb : new[x].original = pb[x].original /\ new[x].ref = pb[x].ref

LEMMA RelinkedCounts ==
  ASSUME NEW pb, NEW new, NEW l, NEW a, NEW b, IsRelinked(pb, l, a, b, new),
         Typed(pb), Typed(new), NEW x
  PROVE  Cardinality(Preds(pb, x)) + (IF b = x THEN 1 ELSE 0)
           = Cardinality(Preds(new, x)) + IF a = x THEN 1 ELSE 0
<1> DEFINE P == Preds(pb, x)
           Q == Preds(new, x)
<1>1. P \ {l} = Q \ {l} /\ (l \in P <=> a = x) /\ (l \in Q <=> b = x)
  BY DEF Preds, IsRelinked
<1>2. IsFiniteSet(P) /\ Cardinality(P) \in Nat /\ IsFiniteSet(Q) /\ Cardinality(Q) \in Nat
  BY Finite
<1> HIDE DEF P, Q
<1>3. /\ Cardinality(P \ {l}) = IF l \in P THEN Cardinality(P) - 1 ELSE Cardinality(P)
      /\ Cardinality(Q \ {l}) = IF l \in Q THEN Cardinality(Q) - 1 ELSE Cardinality(Q)
  BY <1>2, FS_RemoveElement
<1>4. Cardinality(P) + (IF b = x THEN 1 ELSE 0) = Cardinality(Q) + IF a = x THEN 1 ELSE 0
  BY <1>1, <1>2, <1>3
<1> QED
  BY <1>4 DEF P, Q

LEMMA RelinkedRefs ==
  ASSUME NEW pb, NEW new, NEW l, NEW a, NEW b, IsRelinked(pb, l, a, b, new),
         Typed(pb), Typed(new), NEW hd, RefsOk(pb, hd, <<b>>),
         b \in DOMAIN pb \cup {Null}
  PROVE  RefsOk(new, hd, <<a>>)
<1>1. a \in DOMAIN pb \cup {Null} /\ DOMAIN new = DOMAIN pb
  BY DEF RefsOk, IsRelinked
<1>2. ASSUME NEW x \in DOMAIN pb PROVE Refs(new, hd, <<a>>, x)
  <2> DEFINE c == Cardinality(Preds(pb, x))
             c2 == Cardinality(Preds(new, x))
             d == Cardinality(Mirrors(pb, x))
             i == IF a = x THEN 1 ELSE 0
             j == IF b = x THEN 1 ELSE 0
             h == hd[x]
             r == pb[x].ref
  <2>1. c \in Nat /\ c2 \in Nat /\ d \in Nat /\ i \in Nat /\ j \in Nat
    BY Finite
  <2>2. Cardinality(Places(<<b>>, x)) = j /\ Cardinality(Places(<<a>>, x)) = i
    BY PlacesOne
  <2>3. h \in Nat /\ r > 0 /\ r = h + c + d + j /\ new[x].ref = r
    BY <2>2 DEF Refs, RefsOk, IsRelinked
  <2>4. c + j = c2 + i
    BY RelinkedCounts
  <2>5. Mirrors(new, x) = Mirrors(pb, x)
    BY DEF Mirrors, IsRelinked
  <2> HIDE DEF c, c2, d, i, j, h, r
  <2>6. r = h + c2 + d + i
    BY <2>1, <2>3, <2>4
  <2> QED
    BY <2>2, <2>3, <2>5, <2>6 DEF Refs, c2, d, i, h, r
<1>3. \A x \in DOMAIN pb : /\ new[x].next \in DOMAIN pb \cup {Null}
                           /\ new[x].original \in DOMAIN pb \cup {Null}
  BY DEF RefsOk, IsRelinked
<1>4. <<a>> \in Seq(DOMAIN new \cup {Null})
  BY <1>1
<1> QED
  BY <1>1, <1>2, <1>3, <1>4 DEF RefsOk

\* A new pbuf, for a caller, and the mirror of what is counted for it.
LEMMA NewRefs ==
  ASSUME NEW pb, NEW hd, NEW p \in Ids, p \notin DOMAIN pb, Typed(pb),
         NEW o \in DOMAIN pb \cup {Null}, RefsOk(pb, hd, <<o>>),
         DOMAIN hd = DOMAIN pb,
         NEW r \in Pbuf, r.next = Null, r.ref = 1, r.original = o
  PROVE  LET new == With(pb, p, r)
         IN  Typed(new) /\ RefsOk(new, With(hd, p, 1), <<>>)
<1> DEFINE new == With(pb, p, r)
           more == With(hd, p, 1)
<1>1. DOMAIN new = DOMAIN pb \cup {p} /\ \A x \in DOMAIN new : new[x] = IF x = p THEN r ELSE pb[x]
  BY DEF With
<1>2. more[p] = 1 /\ \A x \in DOMAIN pb : more[x] = hd[x]
  BY DEF With
<1>3. Typed(new)
  <2>1. IsFiniteSet(DOMAIN new)
    BY <1>1, FS_AddElement DEF Typed
  <2>2. new \in [DOMAIN new -> Pbuf]
    <3>1. \A x \in DOMAIN pb \cup {p} : (IF x = p THEN r ELSE pb[x]) \in Pbuf
      BY DEF Typed
    <3>2. new = [x \in DOMAIN pb \cup {p} |-> IF x = p THEN r ELSE pb[x]]
      BY DEF With
    <3> QED
      BY <1>1, <3>1, <3>2
  <2> HIDE DEF new
  <2> QED
    BY <1>1, <2>1, <2>2 DEF Typed
<1> HIDE DEF new, more
<1>4. p # Null /\ \A x \in DOMAIN pb : /\ x # Null /\ x # p
                                       /\ pb[x].next # p /\ pb[x].original # p
  BY NullApart, PbufFields DEF RefsOk
<1>5. o # p
  BY <1>4
<1>6. ASSUME NEW x \in DOMAIN new PROVE Refs(new, more, <<>>, x)
  <2>1. CASE x = p
    <3>1. Preds(new, p) = {} /\ Mirrors(new, p) = {}
      BY <1>1, <1>4, <1>5 DEF Preds, Mirrors
    <3>2. Cardinality(Preds(new, p)) = 0 /\ Cardinality(Mirrors(new, p)) = 0
      BY <3>1, FS_EmptySet
    <3>3. more[p] = 1 /\ new[p].ref = 1
      BY <1>1, <1>2
    <3> QED
      BY <2>1, <3>2, <3>3, PlacesOne DEF Refs
  <2>2. CASE x # p
    <3>1. x \in DOMAIN pb
      BY <1>1, <2>2
    <3>2. Preds(new, x) = Preds(pb, x)
      BY <1>1, <1>4, <3>1 DEF Preds
    <3>3. Mirrors(new, x) = IF o = x THEN Mirrors(pb, x) \cup {p} ELSE Mirrors(pb, x)
      BY <1>1, <1>4 DEF Mirrors
    <3>4. p \notin Mirrors(pb, x) /\ IsFiniteSet(Mirrors(pb, x))
      BY Finite DEF Mirrors
    <3>5. Cardinality(Mirrors(pb, x) \cup {p}) = Cardinality(Mirrors(pb, x)) + 1
      BY <3>4, FS_AddElement
    <3> DEFINE c == Cardinality(Preds(pb, x))
               d == Cardinality(Mirrors(pb, x))
               d2 == Cardinality(Mirrors(new, x))
               i == IF o = x THEN 1 ELSE 0
               a == hd[x]
               ref == pb[x].ref
    <3>6. c \in Nat /\ d \in Nat /\ i \in Nat
      BY Finite
    <3>7. d2 = d + i
      BY <3>3, <3>5, <3>6
    <3>8. Cardinality(Places(<<o>>, x)) = i /\ Cardinality(Places(<<>>, x)) = 0
      BY PlacesOne
    <3>9. a \in Nat /\ ref > 0 /\ ref = a + c + d + i
      BY <3>1, <3>8 DEF Refs, RefsOk
    <3>10. more[x] = a /\ new[x].ref = ref
      BY <1>1, <1>2, <2>2, <3>1
    <3> HIDE DEF a, c, d, d2, i, ref
    <3>11. ref = a + c + d2 + 0
      BY <3>6, <3>7, <3>9
    <3> QED
      BY <3>2, <3>8, <3>9, <3>10, <3>11 DEF Refs, c, d2
  <2> QED
    BY <2>1, <2>2
<1>7. \A x \in DOMAIN new : /\ new[x].next \in DOMAIN new \cup {Null}
                            /\ new[x].original \in DOMAIN new \cup {Null}
  BY <1>1 DEF RefsOk
<1>8. <<>> \in Seq(DOMAIN new \cup {Null})
  OBVIOUS
<1>9. RefsOk(new, more, <<>>)
  BY <1>6, <1>7, <1>8 DEF RefsOk
<1> QED
  BY <1>3, <1>9 DEF new, more

\* All of them with a new one, which has enough room if it is in the heap.
LEMMA NewOk ==
  ASSUME NEW pb, NEW hd, NEW p \in Ids, p \notin DOMAIN pb, Typed(pb),
         NEW o \in DOMAIN pb \cup {Null}, RefsOk(pb, hd, <<o>>), LensOk(pb),
         hd \in [DOMAIN pb -> 0 .. MaxHeld],
         NEW length \in Nat, NEW payload \in Nat,
         NEW h, HeapInv(h), RoomOk(pb, h.mem), NEW h2, HeapInv(h2),
         p \notin Addr => h2 = h,
         p \in Addr => /\ Used(h2.mem) = Used(h.mem) \cup {p}
                       /\ \A u \in Used(h.mem) : h2.mem[u].next = h.mem[u].next
                       /\ payload >= SIZEOF_STRUCT_PBUF
                       /\ payload + length <= UserSize(h2.mem, p)
  PROVE  LET r == [next |-> Null, tot_len |-> length, len |-> length, ref |-> 1,
                   payload |-> payload, original |-> o]
             new == With(pb, p, r)
             more == With(hd, p, 1)
         IN  GraphOk(new, h2, more, <<>>) /\ more \in [DOMAIN new -> 0 .. MaxHeld]
<1> DEFINE r == [next |-> Null, tot_len |-> length, len |-> length, ref |-> 1,
                 payload |-> payload, original |-> o]
           new == With(pb, p, r)
           more == With(hd, p, 1)
<1>1. r \in Pbuf
  <2>1. o \in Ids \cup {Null}
    BY DEF Typed
  <2> QED
    BY <2>1 DEF Pbuf
<1>2. /\ r.next = Null /\ r.ref = 1 /\ r.original = o
      /\ r.len = length /\ r.tot_len = length /\ r.payload = payload
  OBVIOUS
<1> HIDE DEF r
<1>3. Typed(new) /\ RefsOk(new, more, <<>>)
  <2>1. DOMAIN hd = DOMAIN pb
    OBVIOUS
  <2> QED
    BY <1>1, <1>2, <2>1, NewRefs
<1>4. DOMAIN new = DOMAIN pb \cup {p} /\ \A x \in DOMAIN new : new[x] = IF x = p THEN r ELSE pb[x]
  BY DEF With
<1>5. more \in [DOMAIN new -> 0 .. MaxHeld]
  <2>1. 1 \in 0 .. MaxHeld
    BY BuffersAssumption
  <2>2. \A x \in DOMAIN pb \cup {p} : (IF x = p THEN 1 ELSE hd[x]) \in 0 .. MaxHeld
    BY <2>1
  <2>3. more = [x \in DOMAIN pb \cup {p} |-> IF x = p THEN 1 ELSE hd[x]]
    BY DEF With
  <2> HIDE DEF new
  <2> QED
    BY <1>4, <2>2, <2>3
<1> HIDE DEF new, more
<1>6. LensOk(new)
  <2> SUFFICES ASSUME NEW x \in DOMAIN new PROVE new[x].tot_len = LenOf(new, x)
    BY DEF LensOk
  <2>1. CASE x = p
    BY <1>2, <1>4, <2>1 DEF LenOf
  <2>2. CASE x # p
    <3>1. x \in DOMAIN pb /\ new[x] = pb[x] /\ pb[x].next \in DOMAIN pb \cup {Null}
      BY <1>4, <2>2 DEF RefsOk
    <3>2. pb[x].next = Null \/ new[pb[x].next] = pb[pb[x].next]
      BY <1>4, <3>1
    <3>3. LenOf(new, x) = LenOf(pb, x)
      BY <3>1, <3>2 DEF LenOf
    <3> QED
      BY <3>1, <3>3 DEF LensOk
  <2> QED
    BY <2>1, <2>2
<1>7. RoomOk(new, h2.mem)
  <2>1. Used(h2.mem) = DOMAIN new \cap Addr
    <3>1. Used(h.mem) = DOMAIN pb \cap Addr
      BY DEF RoomOk
    <3>2. CASE p \in Addr
      BY <1>4, <3>1, <3>2
    <3>3. CASE p \notin Addr
      BY <1>4, <3>1, <3>3
    <3> QED
      BY <3>2, <3>3
  <2>2. ASSUME NEW x \in DOMAIN new \cap Addr
        PROVE  /\ new[x].payload >= SIZEOF_STRUCT_PBUF
               /\ new[x].payload + new[x].len <= UserSize(h2.mem, x)
    <3>1. CASE x = p
      BY <1>2, <1>4, <3>1
    <3>2. CASE x # p
      <4>1. x \in DOMAIN pb \cap Addr /\ x \in Used(h.mem) /\ new[x] = pb[x]
        BY <1>4, <3>2 DEF RoomOk
      <4>2. h2.mem[x].next = h.mem[x].next
        BY <4>1
      <4> QED
        BY <4>1, <4>2 DEF RoomOk, UserSize
    <3> QED
      BY <3>1, <3>2
  <2> QED
    BY <2>1, <2>2 DEF RoomOk
<1>8. GraphOk(new, h2, more, <<>>)
  BY <1>3, <1>6, <1>7 DEF GraphOk
<1> QED
  BY <1>5, <1>8 DEF new, more, r

-------------------------------------------------------------------------------
(* The steps. *)

InvOf(pb, h, hd, r) ==
  /\ GraphOk(pb, h, hd, <<>>) /\ hd \in [DOMAIN pb -> 0 .. MaxHeld] /\ r \in Nat

LEMMA InvIs == (Inv <=> InvOf(pbufs, heap, held, refused))
               /\ (Inv' <=> InvOf(pbufs', heap', held', refused'))
BY DEF Inv, InvOf

\* A step after which the heap is the same.
LEMMA HeapStays == ASSUME Inv, heap' = heap, refused' = 0 PROVE Abstract!Next
<1>1. HeapInv(heap) /\ HeapInv(heap')
  BY DEF Inv, GraphOk
<1>2. \A u \in Used(heap.mem) : heap.mem[u].next <= heap.mem[u].next
  <2>1. \A u \in Used(heap.mem) : heap.mem[u].next \in Nat
    BY <1>1, Fields DEF HeapInv, ListOk, Used
  <2> QED
    BY <2>1
<1>3. Abstract!Release
  BY <1>1, <1>2, ReleaseRefines
<1> QED
  BY <1>3 DEF Abstract!Next

LEMMA RefStep ==
  ASSUME Inv, NEW p \in DOMAIN pbufs, Ref(p)
  PROVE  Inv' /\ Abstract!Next
<1> DEFINE more == [held EXCEPT ![p] = @ + 1]
           new == [pbufs EXCEPT ![p].ref = @ + 1]
<1>1. /\ GraphOk(pbufs, heap, held, <<>>) /\ held \in [DOMAIN pbufs -> 0 .. MaxHeld]
      /\ held[p] < MaxHeld /\ MaxHeld \in Nat
      /\ pbufs' = new /\ held' = more /\ heap' = heap /\ refused' = 0
  BY BuffersAssumption DEF Inv, Ref
<1>2. Typed(pbufs) /\ RefsOk(pbufs, held, <<>>) /\ LensOk(pbufs) /\ RoomOk(pbufs, heap.mem)
      /\ HeapInv(heap)
  BY <1>1 DEF GraphOk
<1>3. /\ Typed(new) /\ SameLinks(pbufs, new) /\ SameData(pbufs, new)
      /\ RefsOk(new, held, <<p>>)
  BY <1>2, Borrowed
<1> HIDE DEF new
<1>4. LensOk(new) /\ RoomOk(new, heap.mem) /\ DOMAIN new = DOMAIN pbufs
  BY <1>2, <1>3, SameDataSame DEF RefsOk, SameLinks
<1>5. /\ more \in [DOMAIN new -> 0 .. MaxHeld] /\ more[p] = held[p] + 1 /\ held[p] \in Nat
      /\ \A x \in DOMAIN pbufs : x # p => more[x] = held[x]
  BY <1>1, <1>4
<1> HIDE DEF more
<1>6. ASSUME NEW x \in DOMAIN new PROVE Refs(new, more, <<>>, x)
  <2> DEFINE c == Cardinality(Preds(new, x))
             d == Cardinality(Mirrors(new, x))
             e == IF p = x THEN 1 ELSE 0
             a == held[x]
             b == more[x]
             r == new[x].ref
  <2>1. c \in Nat /\ d \in Nat /\ e \in Nat
    BY <1>3, Finite
  <2>2. Cardinality(Places(<<>>, x)) = 0 /\ Cardinality(Places(<<p>>, x)) = e
    BY PlacesOne
  <2>3. a \in Nat /\ r > 0 /\ r = a + c + d + e
    BY <1>3, <2>2 DEF Refs, RefsOk
  <2>4. b = a + e
    BY <1>4, <1>5, <2>3
  <2> HIDE DEF a, b, c, d, e, r
  <2>5. b \in Nat /\ r = b + c + d + 0
    BY <2>1, <2>3, <2>4
  <2> QED
    BY <2>2, <2>3, <2>5 DEF Refs, b, c, d, r
<1>7. <<>> \in Seq(DOMAIN new \cup {Null})
  OBVIOUS
<1>8. RefsOk(new, more, <<>>)
  BY <1>3, <1>6, <1>7 DEF RefsOk
<1>9. GraphOk(new, heap, more, <<>>)
  BY <1>2, <1>3, <1>4, <1>8 DEF GraphOk
<1>10. InvOf(pbufs', heap', held', refused')
  BY <1>1, <1>5, <1>9 DEF InvOf
<1> QED
  BY <1>1, <1>10, InvIs, HeapStays

LEMMA AllocRefStep ==
  ASSUME Inv, NEW p \in RefPbufs, NEW length \in Lengths, AllocRef(p, length)
  PROVE  Inv' /\ Abstract!Next
<1> DEFINE r == [next |-> Null, tot_len |-> length, len |-> length, ref |-> 1,
                 payload |-> 0, original |-> Null]
<1>1. /\ p \notin DOMAIN pbufs /\ p \in Ids /\ p \notin Addr /\ length \in Nat
      /\ pbufs' = With(pbufs, p, r) /\ held' = With(held, p, 1)
      /\ heap' = heap /\ refused' = 0
  BY BuffersAssumption DEF AllocRef, Alloced, Ids
<1>2. /\ GraphOk(pbufs, heap, held, <<>>) /\ held \in [DOMAIN pbufs -> 0 .. MaxHeld]
  BY DEF Inv
<1>3. /\ Typed(pbufs) /\ RefsOk(pbufs, held, <<>>) /\ LensOk(pbufs)
      /\ RoomOk(pbufs, heap.mem) /\ HeapInv(heap)
  BY <1>2 DEF GraphOk
<1>4. RefsOk(pbufs, held, <<Null>>)
  BY <1>3, NullOwed
<1>5. /\ GraphOk(With(pbufs, p, r), heap, With(held, p, 1), <<>>)
      /\ With(held, p, 1) \in [DOMAIN With(pbufs, p, r) -> 0 .. MaxHeld]
  <2>1. Null \in DOMAIN pbufs \cup {Null} /\ 0 \in Nat
    OBVIOUS
  <2> QED
    BY <1>1, <1>2, <1>3, <1>4, <2>1, NewOk
<1>6. InvOf(pbufs', heap', held', refused')
  BY <1>1, <1>5 DEF InvOf
<1> QED
  BY <1>1, <1>6, InvIs, HeapStays

LEMMA AllocFragStep ==
  ASSUME Inv, NEW p \in FragPbufs, NEW o \in DOMAIN pbufs \ FragPbufs, NEW length \in Lengths,
         AllocFrag(p, o, length)
  PROVE  Inv' /\ Abstract!Next
<1> DEFINE r == [next |-> Null, tot_len |-> length, len |-> length, ref |-> 1,
                 payload |-> 0, original |-> o]
           more == [pbufs EXCEPT ![o].ref = @ + 1]
<1>1. /\ p \notin DOMAIN pbufs /\ p \in Ids /\ p \notin Addr /\ length \in Nat
      /\ pbufs' = With(more, p, r) /\ held' = With(held, p, 1)
      /\ heap' = heap /\ refused' = 0
  BY BuffersAssumption DEF AllocFrag, Ids
<1>2. /\ GraphOk(pbufs, heap, held, <<>>) /\ held \in [DOMAIN pbufs -> 0 .. MaxHeld]
  BY DEF Inv
<1>3. /\ Typed(pbufs) /\ RefsOk(pbufs, held, <<>>) /\ LensOk(pbufs)
      /\ RoomOk(pbufs, heap.mem) /\ HeapInv(heap)
  BY <1>2 DEF GraphOk
<1>4. /\ Typed(more) /\ SameLinks(pbufs, more) /\ SameData(pbufs, more)
      /\ RefsOk(more, held, <<o>>)
  BY <1>3, Borrowed
<1> HIDE DEF more
<1>5. LensOk(more) /\ RoomOk(more, heap.mem) /\ DOMAIN more = DOMAIN pbufs
  BY <1>3, <1>4, SameDataSame DEF RefsOk, SameLinks
<1>6. /\ GraphOk(With(more, p, r), heap, With(held, p, 1), <<>>)
      /\ With(held, p, 1) \in [DOMAIN With(more, p, r) -> 0 .. MaxHeld]
  <2>1. o \in DOMAIN more \cup {Null} /\ 0 \in Nat /\ p \notin DOMAIN more
        /\ held \in [DOMAIN more -> 0 .. MaxHeld]
    BY <1>1, <1>2, <1>5
  <2> QED
    BY <1>1, <1>3, <1>4, <1>5, <2>1, NewOk
<1>7. InvOf(pbufs', heap', held', refused')
  BY <1>1, <1>6 DEF InvOf
<1> QED
  BY <1>1, <1>7, InvIs, HeapStays

LEMMA AllocRamStep ==
  ASSUME Inv, NEW offset \in Offsets, NEW length \in Lengths, AllocRam(offset, length)
  PROVE  Inv' /\ Abstract!Next
<1> DEFINE n == AtLeastMin(SIZEOF_STRUCT_PBUF + offset + length)
           F == Found(heap, n)
           p == Min(F)
           payload == SIZEOF_STRUCT_PBUF + offset
           h2 == Malloced(heap, p, n)
           r == [next |-> Null, tot_len |-> length, len |-> length, ref |-> 1,
                 payload |-> payload, original |-> Null]
<1>1. /\ GraphOk(pbufs, heap, held, <<>>) /\ held \in [DOMAIN pbufs -> 0 .. MaxHeld]
  BY DEF Inv
<1>2. /\ Typed(pbufs) /\ RefsOk(pbufs, held, <<>>) /\ LensOk(pbufs)
      /\ RoomOk(pbufs, heap.mem) /\ HeapInv(heap)
  BY <1>1 DEF GraphOk
<1>3. /\ n \in Nat /\ n >= MIN_SIZE_ALIGNED /\ n >= payload + length
      /\ payload \in Nat /\ payload >= SIZEOF_STRUCT_PBUF /\ length \in Nat
  <2>1. SIZEOF_STRUCT_PBUF \in Nat /\ offset \in Nat /\ length \in Nat
    BY BuffersAssumption
  <2> QED
    BY <2>1, Sizes DEF AtLeastMin
<1> HIDE DEF payload
<1>4. CASE F = {}
  <2>1. refused' = n /\ heap' = heap /\ pbufs' = pbufs /\ held' = held
    BY <1>4 DEF AllocRam
  <2> HIDE DEF n
  <2>2. Abstract!Refuse
    BY <1>2, <1>3, <1>4, <2>1, RefuseRefines
  <2>3. InvOf(pbufs', heap', held', refused')
    BY <1>1, <1>3, <2>1 DEF InvOf
  <2> QED
    BY <2>2, <2>3, InvIs DEF Abstract!Next
<1>5. CASE F # {}
  <2>1. /\ heap' = h2 /\ refused' = 0
        /\ pbufs' = With(pbufs, p, r) /\ held' = With(held, p, 1)
    BY <1>5 DEF AllocRam, Alloced, payload
  <2> HIDE DEF n
  <2>2. p \in F
    <3>1. F \in SUBSET Nat
      BY <1>2, Fields DEF Found, HeapInv, ListOk
    <3> HIDE DEF F
    <3>2. PICK i \in F : \A j \in F : i <= j
      BY <1>5, <3>1, LeastNumber
    <3>3. Min(F) = i
      BY <3>1, <3>2, LeastIsMin
    <3> QED
      BY <3>2, <3>3
  <2> HIDE DEF p
  <2>3. /\ HeapInv(h2) /\ p \in DOMAIN heap.mem \ {MEM_SIZE_ALIGNED}
        /\ Used(h2.mem) = Used(heap.mem) \cup {p} /\ ~heap.mem[p].used
        /\ \A u \in Used(heap.mem) : h2.mem[u].next = heap.mem[u].next
        /\ h2.mem[p].next = IF Splits(heap.mem, p, n) THEN p + SIZEOF_STRUCT_MEM + n
                            ELSE heap.mem[p].next
    <3>1. HeapInv(heap) /\ n \in Nat /\ n >= MIN_SIZE_ALIGNED /\ p \in Found(heap, n)
      BY <1>2, <1>3, <2>2
    <3> HIDE DEF F
    <3> QED
      BY <3>1, MallocedOk
  <2>4. p \in Addr /\ p \in Ids /\ p \in Nat
    BY <1>2, <2>3, Fields DEF HeapInv, ListOk, Ids
  <2>5. p \notin DOMAIN pbufs
    <3>1. p \notin Used(heap.mem)
      BY <2>3 DEF Used
    <3> QED
      BY <1>2, <2>4, <3>1 DEF RoomOk
  <2>6. UserSize(h2.mem, p) \in Nat /\ UserSize(h2.mem, p) >= n
    <3>1. CASE Splits(heap.mem, p, n)
      BY <1>3, <2>3, <2>4, <3>1, Sizes DEF UserSize
    <3>2. CASE ~Splits(heap.mem, p, n)
      <4>1. UserSize(heap.mem, p) >= n /\ UserSize(h2.mem, p) = UserSize(heap.mem, p)
        BY <2>2, <2>3, <3>2 DEF Found, UserSize
      <4>2. heap.mem[p].next \in Nat
        BY <1>2, <2>3, Fields DEF HeapInv, ListOk
      <4> QED
        BY <1>3, <2>4, <4>1, <4>2, Sizes DEF UserSize
    <3> QED
      BY <3>1, <3>2
  <2>7. payload + length <= UserSize(h2.mem, p)
    BY <1>3, <2>6
  <2>8. RefsOk(pbufs, held, <<Null>>)
    BY <1>2, NullOwed
  <2> HIDE DEF h2, F
  <2>9. /\ GraphOk(With(pbufs, p, r), h2, With(held, p, 1), <<>>)
        /\ With(held, p, 1) \in [DOMAIN With(pbufs, p, r) -> 0 .. MaxHeld]
    <3>1. Null \in DOMAIN pbufs \cup {Null}
      OBVIOUS
    <3>2. p \notin Addr => h2 = heap
      BY <2>4
    <3>3. p \in Addr => /\ Used(h2.mem) = Used(heap.mem) \cup {p}
                        /\ \A u \in Used(heap.mem) : h2.mem[u].next = heap.mem[u].next
                        /\ payload >= SIZEOF_STRUCT_PBUF
                        /\ payload + length <= UserSize(h2.mem, p)
      BY <1>3, <2>3, <2>7
    <3>4. HeapInv(h2)
      BY <2>3
    <3> QED
      BY <1>1, <1>2, <1>3, <2>4, <2>5, <2>8, <3>1, <3>2, <3>3, <3>4, NewOk
  <2>10. InvOf(pbufs', heap', held', refused')
    BY <2>1, <2>9 DEF InvOf
  <2>11. n \in MIN_SIZE_ALIGNED .. MEM_SIZE_ALIGNED /\ Abstract!Alloc(n)
    BY <1>2, <1>3, <2>1, <2>2, AllocRefines DEF F, h2
  <2> QED
    BY <2>10, <2>11, InvIs DEF Abstract!Next
<1> QED
  BY <1>4, <1>5

LEMMA HeldAlike ==
  ASSUME NEW pb, NEW h, NEW hd, NEW todo, NEW hd2, GraphOk(pb, h, hd, todo),
         \A x \in DOMAIN pb : hd2[x] = hd[x]
  PROVE  GraphOk(pb, h, hd2, todo)
<1>1. RefsOk(pb, hd2, todo)
  BY DEF GraphOk, RefsOk, Refs
<1> QED
  BY <1>1 DEF GraphOk

\* A step in which blocks are only freed.
LEMMA FreedRefines ==
  ASSUME HeapInv(heap), HeapInv(heap'), NEW pb, NEW new, Smaller(pb, heap, new, heap'),
         refused' = 0
  PROVE  Abstract!Next
<1>1. Used(heap'.mem) \subseteq Used(heap.mem)
      /\ \A u \in Used(heap'.mem) : heap'.mem[u].next = heap.mem[u].next
  BY DEF Smaller
<1>2. \A u \in Used(heap.mem) : heap.mem[u].next \in Nat
  BY Fields DEF HeapInv, ListOk, Used
<1>3. \A u \in Used(heap'.mem) : heap'.mem[u].next <= heap.mem[u].next
  BY <1>1, <1>2
<1>4. Abstract!Release
  BY <1>1, <1>3, ReleaseRefines
<1> QED
  BY <1>4 DEF Abstract!Next

LEMMA FreeStep ==
  ASSUME Inv, NEW p \in DOMAIN pbufs, Free(p)
  PROVE  Inv' /\ Abstract!Next
<1> DEFINE less == [held EXCEPT ![p] = @ - 1]
           end == Freed(pbufs, heap, p)
           rest == [q \in DOMAIN end.pbufs |-> IF q = p THEN held[p] - 1 ELSE held[q]]
<1>1. /\ GraphOk(pbufs, heap, held, <<>>) /\ held \in [DOMAIN pbufs -> 0 .. MaxHeld]
      /\ held[p] > 0 /\ MaxHeld \in Nat
      /\ pbufs' = end.pbufs /\ heap' = end.heap /\ held' = rest /\ refused' = 0
  BY BuffersAssumption DEF Inv, Free, Holds, Become
<1>2. Typed(pbufs) /\ RefsOk(pbufs, held, <<>>) /\ LensOk(pbufs) /\ RoomOk(pbufs, heap.mem)
      /\ HeapInv(heap)
  BY <1>1 DEF GraphOk
<1>3. held \in [DOMAIN pbufs -> Nat]
  BY <1>1
<1>4. RefsOk(pbufs, less, <<p>>)
  BY <1>1, <1>2, <1>3, Given
<1>5. \A x \in DOMAIN pbufs : less[x] = IF x = p THEN held[p] - 1 ELSE held[x]
  BY <1>1
<1>6. \A x \in DOMAIN pbufs : less[x] \in 0 .. MaxHeld
  BY <1>1, <1>5
<1> HIDE DEF less
<1>7. GraphOk(pbufs, heap, less, <<p>>)
  BY <1>2, <1>4 DEF GraphOk
<1>8. GraphOk(end.pbufs, end.heap, less, <<>>) /\ Smaller(pbufs, heap, end.pbufs, end.heap)
  BY <1>7, FreedOk
<1> HIDE DEF end
<1>9. DOMAIN end.pbufs \subseteq DOMAIN pbufs
  BY <1>8 DEF Smaller
<1>10. \A x \in DOMAIN end.pbufs : rest[x] = less[x]
  BY <1>5, <1>9
<1>11. rest \in [DOMAIN end.pbufs -> 0 .. MaxHeld]
  <2>1. \A x \in DOMAIN end.pbufs : (IF x = p THEN held[p] - 1 ELSE held[x]) \in 0 .. MaxHeld
    BY <1>5, <1>6, <1>9
  <2> QED
    BY <2>1
<1> HIDE DEF rest
<1>12. GraphOk(end.pbufs, end.heap, rest, <<>>)
  BY <1>8, <1>10, HeldAlike
<1>13. InvOf(pbufs', heap', held', refused')
  BY <1>1, <1>11, <1>12 DEF InvOf
<1>14. HeapInv(heap')
  BY <1>1, <1>12 DEF GraphOk
<1>15. Smaller(pbufs, heap, end.pbufs, heap')
  BY <1>1, <1>8
<1>16. Abstract!Next
  BY <1>1, <1>2, <1>14, <1>15, FreedRefines
<1> QED
  BY <1>13, <1>16, InvIs

-------------------------------------------------------------------------------
(* The chains of two packets become one. *)

LEMMA MayCatIs ==
  ASSUME Inv, NEW h, NEW t, MayCat(h, t)
  PROVE  /\ Single(h) /\ t \in DOMAIN pbufs /\ t \notin InChain(h) /\ held[t] > 0 /\ h # t
<1>1. h \in DOMAIN pbufs /\ t \in DOMAIN pbufs /\ Single(h) /\ held[t] > 0 /\ h # t
  BY DEF MayCat, Holds, Inv, Single
<1>2. t \notin InChain(h)
  <2> SUFFICES ASSUME t \in InChain(h) PROVE FALSE
    OBVIOUS
  <2>1. PICK x \in InChain(h) : pbufs[x].next = t
    BY <1>1, InvLinks, ChainPred
  <2> QED
    BY <2>1, ChainIn DEF MayCat, IsHead
<1> QED
  BY <1>1, <1>2

LEMMA CatFields ==
  ASSUME Inv, NEW h, NEW t, MayCat(h, t)
  PROVE  LET new == Cat(h, t)
         IN  /\ DOMAIN new = DOMAIN pbufs /\ Typed(new)
             /\ \A x \in DOMAIN pbufs \ InChain(h) : new[x] = pbufs[x]
             /\ \A x \in InChain(h) :
                  /\ new[x].tot_len = pbufs[x].tot_len + pbufs[t].tot_len
                  /\ new[x].next = IF pbufs[x].next = Null THEN t ELSE pbufs[x].next
             /\ \A x \in DOMAIN pbufs :
                  /\ new[x].len = pbufs[x].len /\ new[x].ref = pbufs[x].ref
                  /\ new[x].payload = pbufs[x].payload
                  /\ new[x].original = pbufs[x].original
<1> DEFINE T == pbufs[t].tot_len
           r(x) == [pbufs[x] EXCEPT !.tot_len = @ + T, !.next = IF @ = Null THEN t ELSE @]
           new == Cat(h, t)
<1>1. Typed(pbufs) /\ t \in DOMAIN pbufs
  BY MayCatIs DEF Inv, GraphOk
<1>2. T \in Nat /\ t \in Ids
  BY <1>1, PbufFields
<1> HIDE DEF T
<1>3. ASSUME NEW x \in DOMAIN pbufs
      PROVE  /\ r(x) \in Pbuf /\ r(x).tot_len = pbufs[x].tot_len + T
             /\ r(x).next = IF pbufs[x].next = Null THEN t ELSE pbufs[x].next
             /\ r(x).len = pbufs[x].len /\ r(x).ref = pbufs[x].ref
             /\ r(x).payload = pbufs[x].payload /\ r(x).original = pbufs[x].original
  <2> DEFINE s == pbufs[x]
             a == s.tot_len + T
             n == IF s.next = Null THEN t ELSE s.next
             u == [s EXCEPT !.tot_len = a, !.next = n]
  <2>1. s \in Pbuf
    BY <1>1, PbufFields
  <2>2. a \in Nat /\ n \in Ids \cup {Null}
    BY <1>1, <1>2, PbufFields
  <2>3. r(x) = u
    OBVIOUS
  <2> HIDE DEF s, a, n
  <2>4. /\ u \in Pbuf /\ u.tot_len = a /\ u.next = n /\ u.len = s.len /\ u.ref = s.ref
        /\ u.payload = s.payload /\ u.original = s.original
    BY <2>1, <2>2 DEF Pbuf
  <2> HIDE DEF u, r
  <2> QED
    BY <2>3, <2>4 DEF s, a, n
<1>4. new = [x \in DOMAIN pbufs |-> IF x \notin InChain(h) THEN pbufs[x] ELSE r(x)]
  BY DEF Cat, T
<1>5. InChain(h) \subseteq DOMAIN pbufs
  BY ChainIn
<1> HIDE DEF r, new
<1>6. DOMAIN new = DOMAIN pbufs
  BY <1>4
<1>7. \A x \in DOMAIN pbufs : new[x] = IF x \notin InChain(h) THEN pbufs[x] ELSE r(x)
  BY <1>4
<1>8. new \in [DOMAIN pbufs -> Pbuf]
  <2>1. \A x \in DOMAIN pbufs : (IF x \notin InChain(h) THEN pbufs[x] ELSE r(x)) \in Pbuf
    BY <1>1, <1>3, PbufFields
  <2> QED
    BY <1>4, <2>1
<1>9. Typed(new)
  BY <1>1, <1>6, <1>8 DEF Typed
<1> QED
  BY <1>3, <1>5, <1>6, <1>7, <1>9 DEF new, T

LEMMA CatOk ==
  ASSUME Inv, NEW h, NEW t, MayCat(h, t)
  PROVE  LET new == Cat(h, t)
         IN  /\ Typed(new) /\ LensOk(new) /\ RoomOk(new, heap.mem)
             /\ DOMAIN new = DOMAIN pbufs
             /\ \A x \in DOMAIN new : new[x].next \in DOMAIN new \cup {Null}
             /\ \E l : IsRelinked(pbufs, l, Null, t, new)
<1> DEFINE new == Cat(h, t)
           C == InChain(h)
           T == pbufs[t].tot_len
<1>1. /\ DOMAIN new = DOMAIN pbufs /\ Typed(new)
      /\ \A x \in DOMAIN pbufs \ C : new[x] = pbufs[x]
      /\ \A x \in C : /\ new[x].tot_len = pbufs[x].tot_len + T
                      /\ new[x].next = IF pbufs[x].next = Null THEN t ELSE pbufs[x].next
      /\ \A x \in DOMAIN pbufs :
           /\ new[x].len = pbufs[x].len /\ new[x].ref = pbufs[x].ref
           /\ new[x].payload = pbufs[x].payload
           /\ new[x].original = pbufs[x].original
  BY CatFields
<1> HIDE DEF new
<1>2. Single(h) /\ t \in DOMAIN pbufs /\ t \notin C /\ h # t
  BY MayCatIs
<1>3. Links /\ LensOk(pbufs) /\ RoomOk(pbufs, heap.mem) /\ Typed(pbufs)
  BY InvLinks DEF Inv, GraphOk
<1>4. C \subseteq DOMAIN pbufs
  BY ChainIn
<1>5. t # Null
  BY <1>2, <1>3, PbufFields
<1>6. \A x \in DOMAIN new : new[x].next \in DOMAIN new \cup {Null}
  BY <1>1, <1>2, <1>3 DEF Links
<1>7. PICK l \in C : /\ pbufs[l].next = Null
                     /\ \A x \in C : pbufs[x].next = Null => x = l
  BY <1>2, LastIs
<1>8. IsRelinked(pbufs, l, Null, t, new)
  BY <1>1, <1>4, <1>7 DEF IsRelinked
<1>9. LensOk(new)
  <2> SUFFICES ASSUME NEW x \in DOMAIN pbufs PROVE new[x].tot_len = LenOf(new, x)
    BY <1>1 DEF LensOk
  <2>1. pbufs[x].tot_len = LenOf(pbufs, x)
    BY <1>3 DEF LensOk
  <2>2. pbufs[x].next \in DOMAIN pbufs \cup {Null} /\ pbufs[x].tot_len \in Nat
        /\ pbufs[x].len \in Nat /\ T \in Nat
    BY <1>2, <1>3, PbufFields DEF Links
  <2>3. CASE x \notin C
    <3>1. new[x] = pbufs[x] /\ pbufs[x].next \notin C
      BY <1>1, <1>2, <2>3, FromInside
    <3>2. pbufs[x].next = Null \/ new[pbufs[x].next] = pbufs[pbufs[x].next]
      BY <1>1, <2>2, <3>1
    <3>3. LenOf(new, x) = LenOf(pbufs, x)
      BY <3>1, <3>2 DEF LenOf
    <3> QED
      BY <2>1, <3>1, <3>3
  <2>4. CASE x \in C /\ pbufs[x].next = Null
    <3>1. new[x].next = t /\ new[t] = pbufs[t] /\ new[x].len = pbufs[x].len
          /\ new[x].tot_len = pbufs[x].tot_len + T
      BY <1>1, <1>2, <2>4
    <3>2. LenOf(new, x) = pbufs[x].len + T
      BY <1>5, <3>1 DEF LenOf
    <3>3. pbufs[x].tot_len = pbufs[x].len + 0
      BY <2>1, <2>4 DEF LenOf
    <3> QED
      BY <2>2, <3>1, <3>2, <3>3
  <2>5. CASE x \in C /\ pbufs[x].next # Null
    <3> DEFINE n == pbufs[x].next
               u == pbufs[n].tot_len
               a == pbufs[x].tot_len
               b == pbufs[x].len
    <3>1. n \in C /\ n \in DOMAIN pbufs /\ n # Null
      BY <1>3, <1>4, <2>5, ChainNext
    <3>2. new[x].next = n /\ new[n].tot_len = u + T /\ new[x].len = b
          /\ new[x].tot_len = a + T
      BY <1>1, <2>5, <3>1
    <3>3. LenOf(new, x) = b + (u + T)
      BY <3>1, <3>2 DEF LenOf
    <3>4. a = b + u
      BY <2>1, <3>1 DEF LenOf
    <3>5. u \in Nat /\ a \in Nat /\ b \in Nat
      BY <1>3, <2>2, <3>1, PbufFields
    <3> HIDE DEF n, u, a, b, T
    <3>6. a + T = b + (u + T)
      BY <2>2, <3>4, <3>5
    <3> QED
      BY <3>2, <3>3, <3>6
  <2> QED
    BY <2>3, <2>4, <2>5
<1>10. RoomOk(new, heap.mem)
  BY <1>1, <1>3 DEF RoomOk
<1> QED
  BY <1>1, <1>6, <1>8, <1>9, <1>10 DEF new

LEMMA PbufCatStep ==
  ASSUME Inv, NEW h \in DOMAIN pbufs, NEW t \in DOMAIN pbufs, PbufCat(h, t)
  PROVE  Inv' /\ Abstract!Next
<1> DEFINE less == [held EXCEPT ![t] = @ - 1]
           new == Cat(h, t)
<1>1. /\ GraphOk(pbufs, heap, held, <<>>) /\ held \in [DOMAIN pbufs -> 0 .. MaxHeld]
      /\ MayCat(h, t) /\ MaxHeld \in Nat
      /\ pbufs' = new /\ heap' = heap /\ held' = less /\ refused' = 0
  BY BuffersAssumption DEF Inv, PbufCat
<1>2. Typed(pbufs) /\ RefsOk(pbufs, held, <<>>) /\ HeapInv(heap)
  BY <1>1 DEF GraphOk
<1>3. held \in [DOMAIN pbufs -> Nat] /\ held[t] > 0
  BY <1>1, MayCatIs
<1>4. RefsOk(pbufs, less, <<t>>)
  BY <1>2, <1>3, Given
<1>5. less \in [DOMAIN pbufs -> 0 .. MaxHeld]
  <2>1. held[t] - 1 \in 0 .. MaxHeld
    BY <1>1, <1>3
  <2> QED
    BY <1>1, <2>1
<1>6. /\ Typed(new) /\ LensOk(new) /\ RoomOk(new, heap.mem) /\ DOMAIN new = DOMAIN pbufs
      /\ \E l : IsRelinked(pbufs, l, Null, t, new)
  BY <1>1, CatOk
<1> HIDE DEF less, new
<1>7. RefsOk(new, less, <<Null>>)
  <2>1. t \in DOMAIN pbufs \cup {Null}
    OBVIOUS
  <2> QED
    BY <1>2, <1>4, <1>6, <2>1, RelinkedRefs
<1>8. RefsOk(new, less, <<>>)
  BY <1>6, <1>7, NullOwed
<1>9. GraphOk(new, heap, less, <<>>)
  BY <1>2, <1>6, <1>8 DEF GraphOk
<1>10. InvOf(pbufs', heap', held', refused')
  BY <1>1, <1>5, <1>6, <1>9 DEF InvOf
<1> QED
  BY <1>1, <1>10, InvIs, HeapStays

LEMMA PbufChainStep ==
  ASSUME Inv, NEW h \in DOMAIN pbufs, NEW t \in DOMAIN pbufs, PbufChain(h, t)
  PROVE  Inv' /\ Abstract!Next
<1> DEFINE cat == Cat(h, t)
           n == cat[t].ref + 1
           more == [pbufs EXCEPT ![t].ref = @ + 1]
           new == [cat EXCEPT ![t].ref = n]
<1>1. /\ GraphOk(pbufs, heap, held, <<>>) /\ held \in [DOMAIN pbufs -> 0 .. MaxHeld]
      /\ MayCat(h, t)
      /\ pbufs' = new /\ heap' = heap /\ held' = held /\ refused' = 0
  BY DEF Inv, PbufChain, Chained
<1>2. Typed(pbufs) /\ RefsOk(pbufs, held, <<>>) /\ HeapInv(heap)
  BY <1>1 DEF GraphOk
<1>3. /\ Typed(more) /\ SameLinks(pbufs, more) /\ RefsOk(more, held, <<t>>)
      /\ DOMAIN more = DOMAIN pbufs
      /\ \A x \in DOMAIN pbufs : more[x].ref = IF x = t THEN pbufs[t].ref + 1 ELSE pbufs[x].ref
  <2>1. pbufs[t].ref + 1 \in Nat
    BY <1>2, PbufFields
  <2> DEFINE m == pbufs[t].ref + 1
  <2>2. more = [pbufs EXCEPT ![t].ref = m]
    OBVIOUS
  <2>3. \A x \in DOMAIN pbufs : [pbufs EXCEPT ![t].ref = m][x].ref = IF x = t THEN m ELSE pbufs[x].ref
    <3> HIDE DEF m
    <3> QED
      BY <1>2, <2>1, RefChanged DEF m
  <2>4. Typed(more) /\ SameLinks(pbufs, more) /\ RefsOk(more, held, <<t>>)
    BY <1>2, Borrowed
  <2> QED
    BY <2>2, <2>3, <2>4 DEF SameLinks
<1>4. /\ Typed(cat) /\ LensOk(cat) /\ RoomOk(cat, heap.mem) /\ DOMAIN cat = DOMAIN pbufs
      /\ \A x \in DOMAIN cat : cat[x].next \in DOMAIN cat \cup {Null}
      /\ \E l : IsRelinked(pbufs, l, Null, t, cat)
  BY <1>1, CatOk
<1> HIDE DEF cat, more
<1>5. n \in Nat
  BY <1>4, PbufFields
<1>6. /\ Typed(new) /\ SameLinks(cat, new) /\ SameData(cat, new)
      /\ \A x \in DOMAIN cat : new[x].ref = IF x = t THEN n ELSE cat[x].ref
  <2> HIDE DEF n
  <2> QED
    BY <1>4, <1>5, RefChanged
<1>7. n = cat[t].ref + 1
  OBVIOUS
<1> HIDE DEF new, n
<1>8. LensOk(new) /\ RoomOk(new, heap.mem) /\ DOMAIN new = DOMAIN pbufs
  BY <1>4, <1>6, SameDataSame DEF SameLinks
<1>9. PICK l : IsRelinked(pbufs, l, Null, t, cat)
  BY <1>4
<1>10. IsRelinked(more, l, Null, t, new)
  BY <1>3, <1>6, <1>7, <1>8, <1>9 DEF IsRelinked, SameLinks
<1>11. RefsOk(new, held, <<Null>>)
  <2>1. t \in DOMAIN more \cup {Null}
    BY <1>3
  <2> QED
    BY <1>3, <1>6, <1>10, <2>1, RelinkedRefs
<1>12. RefsOk(new, held, <<>>)
  BY <1>6, <1>11, NullOwed
<1>13. GraphOk(new, heap, held, <<>>)
  BY <1>2, <1>6, <1>8, <1>12 DEF GraphOk
<1>14. InvOf(pbufs', heap', held', refused')
  BY <1>1, <1>8, <1>13 DEF InvOf
<1> QED
  BY <1>1, <1>14, InvIs, HeapStays

-------------------------------------------------------------------------------
(* Headers and bytes at the front. *)

LEMMA RefsKept ==
  ASSUME NEW pb, NEW new, NEW hd, NEW todo, SameLinks(pb, new), RefsOk(pb, hd, todo),
         \A x \in DOMAIN pb : new[x].ref = pb[x].ref
  PROVE  RefsOk(new, hd, todo)
<1>1. ASSUME NEW x \in DOMAIN pb PROVE Refs(new, hd, todo, x)
  <2>1. Refs(pb, hd, todo, x)
    BY DEF RefsOk
  <2> QED
    BY <2>1, SameLinksSame DEF Refs
<1> QED
  BY <1>1 DEF RefsOk, SameLinks

LEMMA AddHeaderStep ==
  ASSUME Inv, NEW p \in DOMAIN pbufs, NEW n \in Steps, AddHeader(p, n)
  PROVE  Inv' /\ Abstract!Next
<1> DEFINE s == pbufs[p]
           a == s.len + n
           b == s.tot_len + n
           c == s.payload - n
           u == [s EXCEPT !.len = a, !.tot_len = b, !.payload = c]
           new == [pbufs EXCEPT ![p] = u]
<1>1. /\ GraphOk(pbufs, heap, held, <<>>) /\ held \in [DOMAIN pbufs -> 0 .. MaxHeld]
      /\ IsHead(p) /\ p \in Addr /\ s.payload >= SIZEOF_STRUCT_PBUF + n
      /\ heap' = heap /\ held' = held /\ refused' = 0
      /\ n \in Nat /\ SIZEOF_STRUCT_PBUF \in Nat
  BY Sizes, BuffersAssumption DEF Inv, AddHeader, IsRam, Steps
<1>2. Typed(pbufs) /\ RefsOk(pbufs, held, <<>>) /\ HeapInv(heap)
      /\ LensOk(pbufs) /\ RoomOk(pbufs, heap.mem)
  BY <1>1 DEF GraphOk
<1>3. pbufs' = new
  BY DEF AddHeader, Resized
<1>4. s \in Pbuf /\ s.len \in Nat /\ s.tot_len \in Nat /\ s.payload \in Nat
  BY <1>2, PbufFields
<1>5. a \in Nat /\ b \in Nat /\ c \in Nat /\ c >= SIZEOF_STRUCT_PBUF /\ c + a = s.payload + s.len
  <2>1. \A len, tot_len, payload, m, room \in Nat : payload >= room + m =>
          /\ len + m \in Nat /\ tot_len + m \in Nat /\ payload - m \in Nat
          /\ payload - m >= room /\ (payload - m) + (len + m) = payload + len
    OBVIOUS
  <2>2. s.payload >= SIZEOF_STRUCT_PBUF + n /\ n \in Nat /\ SIZEOF_STRUCT_PBUF \in Nat
    BY <1>1
  <2> QED
    BY <1>4, <2>1, <2>2
<1>6. a = s.len + n /\ b = s.tot_len + n
  OBVIOUS
<1> HIDE DEF s, a, b, c
<1>7. /\ u \in Pbuf /\ u.len = a /\ u.tot_len = b /\ u.payload = c /\ u.next = s.next
      /\ u.ref = s.ref /\ u.original = s.original
  BY <1>4, <1>5 DEF Pbuf
<1> HIDE DEF u
<1>8. /\ DOMAIN new = DOMAIN pbufs /\ new[p] = u
      /\ \A x \in DOMAIN pbufs : x # p => new[x] = pbufs[x]
      /\ new \in [DOMAIN pbufs -> Pbuf]
  BY <1>2, <1>7 DEF Typed
<1> HIDE DEF new
<1>9. Typed(new)
  BY <1>2, <1>8 DEF Typed
<1>10. SameLinks(pbufs, new) /\ \A x \in DOMAIN pbufs : new[x].ref = pbufs[x].ref
  BY <1>7, <1>8 DEF SameLinks, s
<1>11. RefsOk(new, held, <<>>)
  BY <1>2, <1>10, RefsKept
<1>12. LensOk(new)
  <2> SUFFICES ASSUME NEW x \in DOMAIN pbufs PROVE new[x].tot_len = LenOf(new, x)
    BY <1>8 DEF LensOk
  <2>1. /\ pbufs[x].tot_len = LenOf(pbufs, x) /\ pbufs[x].next # p
        /\ pbufs[x].next \in DOMAIN pbufs \cup {Null}
    BY <1>1, <1>2 DEF LensOk, IsHead, RefsOk
  <2>2. pbufs[x].next = Null \/ new[pbufs[x].next] = pbufs[pbufs[x].next]
    BY <1>8, <2>1
  <2>3. CASE x # p
    <3>1. LenOf(new, x) = LenOf(pbufs, x)
      BY <1>8, <2>2, <2>3 DEF LenOf
    <3> QED
      BY <1>8, <2>1, <2>3, <3>1
  <2>4. CASE x = p
    <3> DEFINE rest == IF pbufs[p].next = Null THEN 0 ELSE pbufs[pbufs[p].next].tot_len
    <3>1. rest \in Nat
      BY <1>2, <2>1, <2>4, PbufFields
    <3>2. s.tot_len = s.len + rest
      BY <2>1, <2>4 DEF LenOf, s
    <3>3. LenOf(new, p) = a + rest
      BY <1>7, <1>8, <2>2, <2>4 DEF LenOf, s
    <3> HIDE DEF rest
    <3>4. b = a + rest
      BY <1>1, <1>4, <1>6, <3>1, <3>2
    <3> QED
      BY <1>7, <1>8, <2>4, <3>3, <3>4
  <2> QED
    BY <2>3, <2>4
<1>13. RoomOk(new, heap.mem)
  <2>1. \A x \in DOMAIN new \cap Addr : /\ new[x].payload >= SIZEOF_STRUCT_PBUF
                                        /\ new[x].payload + new[x].len <= UserSize(heap.mem, x)
    BY <1>2, <1>5, <1>7, <1>8 DEF RoomOk, s
  <2> QED
    BY <1>2, <1>8, <2>1 DEF RoomOk
<1>14. GraphOk(new, heap, held, <<>>)
  BY <1>2, <1>9, <1>11, <1>12, <1>13 DEF GraphOk
<1>15. InvOf(pbufs', heap', held', refused')
  BY <1>1, <1>3, <1>8, <1>14 DEF InvOf
<1> QED
  BY <1>1, <1>15, InvIs, HeapStays

\* What comes after the place that the walk has come to, lies ahead of it.
LEMMA NextAhead ==
  ASSUME NEW h, Single(h), NEW n, NEW q, NEW rem, Walked(h, n, q, rem)
  PROVE  pbufs[q].next \notin Passed(h, q) \cup {q}
<1> SUFFICES ASSUME pbufs[q].next \in Passed(h, q) \cup {q} PROVE FALSE
  OBVIOUS
<1>1. Links /\ q \in InChain(h) /\ q \in DOMAIN pbufs
  BY InvLinks, ChainIn DEF Single, Walked
<1>2. q \in InChain(q) /\ InChain(h) \subseteq DOMAIN pbufs
  BY <1>1, ChainHas, ChainIn
<1>3. pbufs[q].next \in DOMAIN pbufs
  BY <1>1, <1>2 DEF Passed
<1>4. pbufs[q].next # Null
  BY <1>1, <1>3, PbufFields DEF Links
<1>5. pbufs[q].next \in InChain(q)
  BY <1>1, <1>2, <1>4, ChainNext
<1>6. pbufs[q].next = q
  BY <1>5 DEF Passed
<1> QED
  BY <1>1, <1>2, <1>6, NoReturn

RemovedFront(p, n, q, rem) ==
  [x \in DOMAIN pbufs |->
     IF x \in Passed(p, q)
     THEN [pbufs[x] EXCEPT !.tot_len = pbufs[p].tot_len - n, !.len = 0]
     ELSE IF x = q
     THEN [pbufs[x] EXCEPT !.len = @ - rem, !.tot_len = @ - rem,
                           !.payload = IF IsRam(x) THEN @ + rem ELSE @]
     ELSE pbufs[x]]

LEMMA FrontFields ==
  ASSUME NEW p, Single(p), NEW n \in Nat, n <= pbufs[p].tot_len,
         NEW q, NEW rem, Walked(p, n, q, rem), rem <= pbufs[q].len
  PROVE  LET new == RemovedFront(p, n, q, rem)
         IN  /\ Typed(new) /\ SameLinks(pbufs, new)
             /\ \A x \in DOMAIN pbufs : new[x].ref = pbufs[x].ref
             /\ \A x \in Passed(p, q) : /\ new[x].tot_len = pbufs[p].tot_len - n /\ new[x].len = 0
                                        /\ new[x].payload = pbufs[x].payload
             /\ new[q].len = pbufs[q].len - rem /\ new[q].tot_len = pbufs[q].tot_len - rem
             /\ new[q].payload = IF IsRam(q) THEN pbufs[q].payload + rem ELSE pbufs[q].payload
             /\ \A x \in DOMAIN pbufs : x \notin Passed(p, q) \cup {q} => new[x] = pbufs[x]
<1> DEFINE P == Passed(p, q)
           t == pbufs[p].tot_len - n
           a == pbufs[q].len - rem
           b == pbufs[q].tot_len - rem
           c == IF IsRam(q) THEN pbufs[q].payload + rem ELSE pbufs[q].payload
           r(x) == [pbufs[x] EXCEPT !.tot_len = t, !.len = 0]
           u == [pbufs[q] EXCEPT !.len = a, !.tot_len = b, !.payload = c]
           new == RemovedFront(p, n, q, rem)
<1>1. /\ Links /\ Typed(pbufs) /\ p \in DOMAIN pbufs /\ q \in DOMAIN pbufs /\ q \in InChain(p)
      /\ P \subseteq DOMAIN pbufs /\ rem \in Nat
      /\ pbufs[p].tot_len + rem = pbufs[q].tot_len + n
  BY InvLinks, ChainIn DEF Single, Walked, Links, Passed
<1>2. q \notin P
  BY <1>1, ChainHas DEF Passed
<1>3. t \in Nat /\ a \in Nat /\ b \in Nat /\ c \in Nat
  <2> DEFINE x == pbufs[p].tot_len
             y == pbufs[q].tot_len
             l == pbufs[q].len
  <2>1. x \in Nat /\ y \in Nat /\ l \in Nat /\ pbufs[q].payload \in Nat
    BY <1>1, PbufFields
  <2>2. x + rem = y + n /\ n <= x /\ rem <= l
    BY <1>1
  <2>3. t = x - n /\ b = y - rem /\ a = l - rem
    OBVIOUS
  <2>4. c \in Nat
    BY <1>1, <2>1
  <2> HIDE DEF x, y, l, t, a, b, c
  <2>5. t \in Nat /\ a \in Nat /\ b \in Nat
    BY <1>1, <2>1, <2>2, <2>3
  <2> QED
    BY <2>4, <2>5
<1>4. new = [x \in DOMAIN pbufs |-> IF x \in P THEN r(x) ELSE IF x = q THEN u ELSE pbufs[x]]
  <2>1. u = [pbufs[q] EXCEPT !.len = @ - rem, !.tot_len = @ - rem,
                             !.payload = IF IsRam(q) THEN @ + rem ELSE @]
    OBVIOUS
  <2> HIDE DEF u
  <2> QED
    BY <2>1 DEF RemovedFront
<1> HIDE DEF t, a, b, c, P
<1>5. ASSUME NEW x \in DOMAIN pbufs
      PROVE  /\ r(x) \in Pbuf /\ r(x).tot_len = t /\ r(x).len = 0
             /\ r(x).next = pbufs[x].next /\ r(x).original = pbufs[x].original
             /\ r(x).ref = pbufs[x].ref /\ r(x).payload = pbufs[x].payload
  <2>1. pbufs[x] \in Pbuf
    BY <1>1, PbufFields
  <2> QED
    BY <1>3, <2>1 DEF Pbuf
<1>6. /\ u \in Pbuf /\ u.len = a /\ u.tot_len = b /\ u.payload = c
      /\ u.next = pbufs[q].next /\ u.original = pbufs[q].original /\ u.ref = pbufs[q].ref
  <2>1. pbufs[q] \in Pbuf
    BY <1>1, PbufFields
  <2> QED
    BY <1>3, <2>1 DEF Pbuf
<1> HIDE DEF r, u, new
<1>7. DOMAIN new = DOMAIN pbufs
      /\ \A x \in DOMAIN pbufs : new[x] = IF x \in P THEN r(x) ELSE IF x = q THEN u ELSE pbufs[x]
  BY <1>4
<1>8. new \in [DOMAIN pbufs -> Pbuf]
  <2>1. \A x \in DOMAIN pbufs : (IF x \in P THEN r(x) ELSE IF x = q THEN u ELSE pbufs[x]) \in Pbuf
    BY <1>1, <1>5, <1>6, PbufFields
  <2> QED
    BY <1>4, <2>1
<1>9. Typed(new)
  BY <1>1, <1>7, <1>8 DEF Typed
<1>10. \A x \in DOMAIN pbufs : /\ new[x].next = pbufs[x].next /\ new[x].ref = pbufs[x].ref
                               /\ new[x].original = pbufs[x].original
  BY <1>5, <1>6, <1>7
<1>11. SameLinks(pbufs, new)
  BY <1>7, <1>10 DEF SameLinks
<1>12. \A x \in P : new[x].tot_len = t /\ new[x].len = 0 /\ new[x].payload = pbufs[x].payload
  BY <1>1, <1>5, <1>7
<1>13. new[q] = u
  BY <1>1, <1>2, <1>7
<1>14. \A x \in DOMAIN pbufs : x \notin P \cup {q} => new[x] = pbufs[x]
  BY <1>7
<1> QED
  BY <1>6, <1>9, <1>10, <1>11, <1>12, <1>13, <1>14 DEF new, P, t, a, b, c

LEMMA FrontOk ==
  ASSUME NEW p, Single(p), NEW n \in Nat, n <= pbufs[p].tot_len,
         NEW q, NEW rem, Walked(p, n, q, rem), rem <= pbufs[q].len
  PROVE  LET new == RemovedFront(p, n, q, rem)
         IN  DOMAIN new = DOMAIN pbufs /\ GraphOk(new, heap, held, <<>>)
<1> DEFINE new == RemovedFront(p, n, q, rem)
           P == Passed(p, q)
           t == pbufs[p].tot_len - n
<1>1. /\ Typed(new) /\ SameLinks(pbufs, new)
      /\ \A x \in DOMAIN pbufs : new[x].ref = pbufs[x].ref
      /\ \A x \in P : new[x].tot_len = t /\ new[x].len = 0 /\ new[x].payload = pbufs[x].payload
      /\ new[q].len = pbufs[q].len - rem /\ new[q].tot_len = pbufs[q].tot_len - rem
      /\ new[q].payload = IF IsRam(q) THEN pbufs[q].payload + rem ELSE pbufs[q].payload
      /\ \A x \in DOMAIN pbufs : x \notin P \cup {q} => new[x] = pbufs[x]
  BY FrontFields
<1> HIDE DEF new
<1>2. /\ Typed(pbufs) /\ RefsOk(pbufs, held, <<>>) /\ HeapInv(heap)
      /\ LensOk(pbufs) /\ RoomOk(pbufs, heap.mem) /\ Links
      /\ q \in DOMAIN pbufs /\ q \in InChain(p) /\ P \subseteq DOMAIN pbufs /\ rem \in Nat
      /\ p \in DOMAIN pbufs
  BY InvLinks, ChainIn DEF Single, Inv, GraphOk, Walked, Passed
<1>3. /\ DOMAIN new = DOMAIN pbufs
      /\ \A x \in DOMAIN pbufs : new[x].next = pbufs[x].next
  BY <1>1 DEF SameLinks
<1>4. RefsOk(new, held, <<>>)
  BY <1>1, <1>2, RefsKept
<1>5. t \in Nat /\ pbufs[q].tot_len - rem = t
  <2> DEFINE x == pbufs[p].tot_len
             y == pbufs[q].tot_len
  <2>1. x \in Nat /\ y \in Nat /\ x + rem = y + n /\ n <= x
    BY <1>2, PbufFields DEF Walked
  <2>2. t = x - n /\ pbufs[q].tot_len - rem = y - rem
    OBVIOUS
  <2> HIDE DEF x, y, t
  <2>3. x - n \in Nat /\ y - rem = x - n
    BY <1>2, <2>1
  <2> QED
    BY <2>2, <2>3
<1> HIDE DEF t
<1>6. \A x \in DOMAIN pbufs : x \notin P => pbufs[x].next \notin P \cup {q}
  BY Ahead, NextAhead
<1>7. \A x \in P : pbufs[x].next \in P \cup {q}
  BY DEF Walked
<1>8. Null \notin DOMAIN pbufs
  BY <1>2, PbufFields
<1>9. LensOk(new)
  <2> SUFFICES ASSUME NEW x \in DOMAIN pbufs PROVE new[x].tot_len = LenOf(new, x)
    BY <1>3 DEF LensOk
  <2> DEFINE m == pbufs[x].next
  <2>1. /\ pbufs[x].tot_len = LenOf(pbufs, x) /\ m \in DOMAIN pbufs \cup {Null}
    BY <1>2 DEF LensOk, Links
  <2>2. CASE x \in P
    <3>1. m \in P \cup {q} /\ m # Null
      BY <1>2, <1>7, <1>8, <2>2
    <3>2. new[m].tot_len = t
      BY <1>1, <1>5, <3>1
    <3>3. LenOf(new, x) = 0 + t
      BY <1>1, <1>3, <2>2, <3>1, <3>2 DEF LenOf
    <3> QED
      BY <1>1, <1>5, <2>2, <3>3
  <2>3. CASE x \notin P
    <3>1. m = Null \/ new[m] = pbufs[m]
      BY <1>1, <1>6, <2>1, <2>3
    <3>2. CASE x # q
      <4>1. new[x] = pbufs[x]
        BY <1>1, <2>3, <3>2
      <4>2. LenOf(new, x) = LenOf(pbufs, x)
        BY <3>1, <4>1 DEF LenOf
      <4> QED
        BY <2>1, <4>1, <4>2
    <3>3. CASE x = q
      <4> DEFINE rest == IF m = Null THEN 0 ELSE pbufs[m].tot_len
                 a == pbufs[q].tot_len
                 b == pbufs[q].len
      <4>1. a \in Nat /\ b \in Nat
        BY <1>2, PbufFields
      <4>2. rest \in Nat
        BY <1>2, <2>1, PbufFields
      <4>3. a = b + rest
        BY <2>1, <3>3 DEF LenOf
      <4>4. LenOf(new, q) = (b - rem) + rest
        BY <1>1, <1>3, <3>1, <3>3 DEF LenOf
      <4>5. new[q].tot_len = a - rem
        BY <1>1
      <4> HIDE DEF rest, a, b
      <4>6. a - rem = (b - rem) + rest
        BY <1>2, <4>1, <4>2, <4>3
      <4> QED
        BY <3>3, <4>4, <4>5, <4>6
    <3> QED
      BY <3>2, <3>3
  <2> QED
    BY <2>2, <2>3
<1>10. RoomOk(new, heap.mem)
  <2>1. ASSUME NEW x \in DOMAIN pbufs \cap Addr
        PROVE  /\ new[x].payload >= SIZEOF_STRUCT_PBUF
               /\ new[x].payload + new[x].len <= UserSize(heap.mem, x)
    <3> DEFINE a == pbufs[x].payload
               b == pbufs[x].len
               c == UserSize(heap.mem, x)
    <3>1. a \in Nat /\ b \in Nat /\ a >= SIZEOF_STRUCT_PBUF /\ a + b <= c
          /\ SIZEOF_STRUCT_PBUF \in Nat
      BY <1>2, PbufFields, BuffersAssumption DEF RoomOk
    <3>2. c \in Int
      <4>1. x \in DOMAIN heap.mem
        BY <1>2 DEF RoomOk, Used
      <4>2. heap.mem[x].next \in Nat /\ x \in Nat
        BY <1>2, <4>1, Fields DEF HeapInv, ListOk
      <4> QED
        BY <4>2, Sizes DEF UserSize
    <3>3. CASE x \in P
      <4>1. new[x].payload = a /\ new[x].len = 0
        BY <1>1, <3>3
      <4> HIDE DEF a, b, c
      <4>2. a + 0 <= c
        BY <3>1, <3>2
      <4> QED
        BY <3>1, <4>1, <4>2 DEF c
    <3>4. CASE x = q
      <4>1. new[x].payload = a + rem /\ new[x].len = b - rem
        BY <1>1, <3>4 DEF IsRam
      <4> HIDE DEF a, b, c
      <4>2. a + rem >= SIZEOF_STRUCT_PBUF /\ (a + rem) + (b - rem) <= c
        BY <1>2, <3>1, <3>2
      <4> QED
        BY <4>1, <4>2 DEF c
    <3>5. CASE x \notin P \cup {q}
      BY <1>1, <3>1, <3>5
    <3> QED
      BY <3>3, <3>4, <3>5
  <2>2. Used(heap.mem) = DOMAIN new \cap Addr
    BY <1>2, <1>3 DEF RoomOk
  <2> QED
    BY <1>3, <2>1, <2>2 DEF RoomOk
<1>11. GraphOk(new, heap, held, <<>>)
  BY <1>1, <1>2, <1>4, <1>9, <1>10 DEF GraphOk
<1> QED
  BY <1>3, <1>11 DEF new

LEMMA RemoveFrontStep ==
  ASSUME Inv, NEW p \in DOMAIN pbufs, NEW n \in Steps, RemoveFront(p, n)
  PROVE  Inv' /\ Abstract!Next
<1> DEFINE at == Walk(p, n)
           new == RemovedFront(p, n, at.q, at.rem_len)
<1>1. /\ Single(p) /\ n \in Nat /\ n <= pbufs[p].tot_len
      /\ heap' = heap /\ held' = held /\ refused' = 0
  <2>1. /\ n <= pbufs[p].tot_len /\ IsHead(p) /\ Alone(p)
        /\ heap' = heap /\ held' = held /\ refused' = 0
    BY DEF RemoveFront
  <2>2. n \in Nat
    BY Sizes DEF Steps
  <2> QED
    BY <2>1, <2>2 DEF Single
<1>2. pbufs' = new
  BY DEF RemoveFront, RemovedFront
<1>3. Walked(p, n, at.q, at.rem_len) /\ at.rem_len <= pbufs[at.q].len
  BY <1>1, WalkOk
<1> HIDE DEF at
<1>4. DOMAIN new = DOMAIN pbufs /\ GraphOk(new, heap, held, <<>>)
  BY <1>1, <1>3, FrontOk
<1> HIDE DEF new
<1>5. held \in [DOMAIN pbufs -> 0 .. MaxHeld]
  BY DEF Inv
<1>6. InvOf(pbufs', heap', held', refused')
  BY <1>1, <1>2, <1>4, <1>5 DEF InvOf
<1> QED
  BY <1>1, <1>6, InvIs, HeapStays

-------------------------------------------------------------------------------
(* A chain that is cut. *)

LEMMA CutFields ==
  ASSUME NEW p, Single(p), NEW n \in Nat, n <= pbufs[p].tot_len,
         NEW q, NEW rem, Walked(p, n, q, rem), rem <= pbufs[q].len
  PROVE  LET new == Cut(p, n, q, rem)
             d == pbufs[p].tot_len - n
         IN  /\ Typed(new) /\ IsRelinked(pbufs, q, pbufs[q].next, Null, new)
             /\ \A x \in Passed(p, q) : /\ new[x].tot_len = pbufs[x].tot_len - d
                                        /\ new[x].len = pbufs[x].len
                                        /\ new[x].payload = pbufs[x].payload
             /\ new[q].len = rem /\ new[q].tot_len = rem /\ new[q].payload = pbufs[q].payload
             /\ \A x \in DOMAIN pbufs : x \notin Passed(p, q) \cup {q} => new[x] = pbufs[x]
             /\ d \in Nat /\ pbufs[q].tot_len - d = rem
             /\ \A x \in Passed(p, q) : pbufs[x].tot_len >= d
<1> DEFINE P == Passed(p, q)
           d == pbufs[p].tot_len - n
           r(x) == [pbufs[x] EXCEPT !.tot_len = @ - d]
           u == [pbufs[q] EXCEPT !.len = rem, !.tot_len = rem, !.next = Null]
           new == Cut(p, n, q, rem)
<1>1. /\ Links /\ Typed(pbufs) /\ p \in DOMAIN pbufs /\ q \in DOMAIN pbufs /\ q \in InChain(p)
      /\ P \subseteq DOMAIN pbufs /\ rem \in Nat
      /\ pbufs[p].tot_len + rem = pbufs[q].tot_len + n
      /\ \A x \in P : pbufs[x].tot_len >= pbufs[q].tot_len
  BY InvLinks, ChainIn DEF Single, Walked, Links, Passed
<1>2. q \notin P
  BY <1>1, ChainHas DEF Passed
<1>3. /\ d \in Nat /\ pbufs[q].tot_len - d = rem
      /\ \A x \in P : pbufs[x].tot_len >= d
  <2> DEFINE a == pbufs[p].tot_len
             b == pbufs[q].tot_len
  <2>1. a \in Nat /\ b \in Nat /\ a + rem = b + n /\ n <= a
    BY <1>1, PbufFields
  <2>2. d = a - n
    OBVIOUS
  <2>3. \A x \in P : pbufs[x].tot_len \in Nat /\ pbufs[x].tot_len >= b
    BY <1>1, PbufFields
  <2> HIDE DEF a, b, d, P
  <2>4. d \in Nat /\ b - d = rem /\ b >= d
    BY <1>1, <2>1, <2>2
  <2>5. \A t \in Nat : t >= b => t >= d
    BY <2>1, <2>4
  <2> QED
    BY <2>3, <2>4, <2>5 DEF b
<1>4. new = [x \in DOMAIN pbufs |-> IF x = q THEN u ELSE IF x \in P THEN r(x) ELSE pbufs[x]]
  BY DEF Cut
<1> HIDE DEF d, P
<1>5. ASSUME NEW x \in P
      PROVE  /\ r(x) \in Pbuf /\ r(x).tot_len = pbufs[x].tot_len - d
             /\ r(x).len = pbufs[x].len /\ r(x).next = pbufs[x].next
             /\ r(x).original = pbufs[x].original
             /\ r(x).ref = pbufs[x].ref /\ r(x).payload = pbufs[x].payload
  <2> DEFINE s == pbufs[x]
             t == s.tot_len - d
             v == [s EXCEPT !.tot_len = t]
  <2>1. s \in Pbuf /\ s.tot_len \in Nat /\ s.tot_len >= d
    BY <1>1, <1>3, PbufFields
  <2>2. t \in Nat
    BY <1>3, <2>1
  <2>3. r(x) = v
    OBVIOUS
  <2> HIDE DEF s, t
  <2>4. /\ v \in Pbuf /\ v.tot_len = t /\ v.len = s.len /\ v.next = s.next
        /\ v.original = s.original /\ v.ref = s.ref /\ v.payload = s.payload
    BY <2>1, <2>2 DEF Pbuf
  <2> HIDE DEF v, r
  <2> QED
    BY <2>3, <2>4 DEF s, t
<1>6. /\ u \in Pbuf /\ u.len = rem /\ u.tot_len = rem /\ u.next = Null
      /\ u.payload = pbufs[q].payload /\ u.original = pbufs[q].original /\ u.ref = pbufs[q].ref
  <2>1. pbufs[q] \in Pbuf
    BY <1>1, PbufFields
  <2> QED
    BY <1>1, <2>1 DEF Pbuf
<1> HIDE DEF r, u, new
<1>7. DOMAIN new = DOMAIN pbufs
      /\ \A x \in DOMAIN pbufs : new[x] = IF x = q THEN u ELSE IF x \in P THEN r(x) ELSE pbufs[x]
  BY <1>4
<1>8. new \in [DOMAIN pbufs -> Pbuf]
  <2>1. \A x \in DOMAIN pbufs : (IF x = q THEN u ELSE IF x \in P THEN r(x) ELSE pbufs[x]) \in Pbuf
    BY <1>1, <1>5, <1>6, PbufFields
  <2> QED
    BY <1>4, <2>1
<1>9. Typed(new)
  BY <1>1, <1>7, <1>8 DEF Typed
<1>10. \A x \in DOMAIN pbufs : /\ x # q => new[x].next = pbufs[x].next
                               /\ new[x].original = pbufs[x].original
                               /\ new[x].ref = pbufs[x].ref
  BY <1>5, <1>6, <1>7
<1>11. new[q] = u
  BY <1>1, <1>7
<1>12. IsRelinked(pbufs, q, pbufs[q].next, Null, new)
  BY <1>1, <1>6, <1>7, <1>10, <1>11 DEF IsRelinked
<1>13. \A x \in P : /\ new[x].tot_len = pbufs[x].tot_len - d
                    /\ new[x].len = pbufs[x].len /\ new[x].payload = pbufs[x].payload
  BY <1>1, <1>2, <1>5, <1>7
<1>14. \A x \in DOMAIN pbufs : x \notin P \cup {q} => new[x] = pbufs[x]
  BY <1>7
<1> QED
  BY <1>3, <1>6, <1>9, <1>11, <1>12, <1>13, <1>14 DEF new, P, d

\* With room for it in the heap that h2 is.
LEMMA CutOk ==
  ASSUME NEW p, Single(p), NEW n \in Nat, n <= pbufs[p].tot_len,
         NEW q, NEW rem, Walked(p, n, q, rem), rem <= pbufs[q].len,
         NEW h2, HeapInv(h2), Used(h2.mem) = Used(heap.mem),
         \A x \in Used(heap.mem) \ {q} : h2.mem[x].next = heap.mem[x].next,
         q \in Addr => pbufs[q].payload + rem <= UserSize(h2.mem, q)
  PROVE  LET new == Cut(p, n, q, rem)
         IN  DOMAIN new = DOMAIN pbufs /\ GraphOk(new, h2, held, <<pbufs[q].next>>)
<1> DEFINE new == Cut(p, n, q, rem)
           P == Passed(p, q)
           d == pbufs[p].tot_len - n
<1>1. /\ Typed(new) /\ IsRelinked(pbufs, q, pbufs[q].next, Null, new)
      /\ \A x \in P : /\ new[x].tot_len = pbufs[x].tot_len - d
                      /\ new[x].len = pbufs[x].len /\ new[x].payload = pbufs[x].payload
      /\ new[q].len = rem /\ new[q].tot_len = rem /\ new[q].payload = pbufs[q].payload
      /\ \A x \in DOMAIN pbufs : x \notin P \cup {q} => new[x] = pbufs[x]
      /\ d \in Nat /\ pbufs[q].tot_len - d = rem /\ \A x \in P : pbufs[x].tot_len >= d
  BY CutFields
<1> HIDE DEF new, d
<1>2. /\ Typed(pbufs) /\ RefsOk(pbufs, held, <<>>)
      /\ LensOk(pbufs) /\ RoomOk(pbufs, heap.mem) /\ Links
      /\ q \in DOMAIN pbufs /\ q \in InChain(p) /\ P \subseteq DOMAIN pbufs /\ rem \in Nat
  BY InvLinks, ChainIn DEF Single, Inv, GraphOk, Walked, Passed
<1>3. /\ DOMAIN new = DOMAIN pbufs /\ new[q].next = Null
      /\ \A x \in DOMAIN pbufs \ {q} : new[x].next = pbufs[x].next
  BY <1>1 DEF IsRelinked
<1>4. RefsOk(new, held, <<pbufs[q].next>>)
  <2>1. RefsOk(pbufs, held, <<Null>>) /\ Null \in DOMAIN pbufs \cup {Null}
    BY <1>2, NullOwed
  <2> QED
    BY <1>1, <1>2, <2>1, RelinkedRefs
<1>5. \A x \in DOMAIN pbufs : x \notin P \cup {q} => pbufs[x].next \notin P \cup {q}
  BY Ahead
<1>6. \A x \in P : pbufs[x].next \in P \cup {q}
  BY DEF Walked
<1>7. Null \notin DOMAIN pbufs
  BY <1>2, PbufFields
<1>8. q \notin P
  BY <1>2, ChainHas DEF Passed
<1> HIDE DEF P
<1>9. LensOk(new)
  <2> SUFFICES ASSUME NEW x \in DOMAIN pbufs PROVE new[x].tot_len = LenOf(new, x)
    BY <1>3 DEF LensOk
  <2> DEFINE m == pbufs[x].next
  <2>1. /\ pbufs[x].tot_len = LenOf(pbufs, x) /\ m \in DOMAIN pbufs \cup {Null}
    BY <1>2 DEF LensOk, Links
  <2>2. CASE x = q
    <3>1. LenOf(new, q) = rem + 0
      BY <1>1, <1>3 DEF LenOf
    <3> QED
      BY <1>1, <1>2, <2>2, <3>1
  <2>3. CASE x \in P
    <3> DEFINE a == pbufs[x].tot_len
               b == pbufs[x].len
               c == pbufs[m].tot_len
    <3>1. m \in P \cup {q} /\ m # Null /\ m \in DOMAIN pbufs /\ x # q
      BY <1>2, <1>6, <1>7, <1>8, <2>3
    <3>2. new[m].tot_len = c - d
      BY <1>1, <3>1
    <3>3. LenOf(new, x) = b + (c - d)
      BY <1>1, <1>3, <2>3, <3>1, <3>2 DEF LenOf
    <3>4. a = b + c /\ new[x].tot_len = a - d
      BY <1>1, <2>1, <2>3, <3>1 DEF LenOf
    <3>5. a \in Nat /\ b \in Nat /\ c \in Nat
      BY <1>2, <3>1, PbufFields
    <3> HIDE DEF a, b, c, m
    <3>6. a - d = b + (c - d)
      BY <1>1, <3>4, <3>5
    <3> QED
      BY <3>3, <3>4, <3>6
  <2>4. CASE x \notin P \cup {q}
    <3>1. new[x] = pbufs[x] /\ (m = Null \/ new[m] = pbufs[m])
      BY <1>1, <1>5, <2>1, <2>4
    <3>2. LenOf(new, x) = LenOf(pbufs, x)
      BY <3>1 DEF LenOf
    <3> QED
      BY <2>1, <3>1, <3>2
  <2> QED
    BY <2>2, <2>3, <2>4
<1>10. RoomOk(new, h2.mem)
  <2>1. ASSUME NEW x \in DOMAIN pbufs \cap Addr
        PROVE  /\ new[x].payload >= SIZEOF_STRUCT_PBUF
               /\ new[x].payload + new[x].len <= UserSize(h2.mem, x)
    <3>1. /\ pbufs[x].payload >= SIZEOF_STRUCT_PBUF
          /\ pbufs[x].payload + pbufs[x].len <= UserSize(heap.mem, x)
          /\ x \in Used(heap.mem)
      BY <1>2 DEF RoomOk
    <3>2. CASE x = q
      BY <1>1, <3>1, <3>2
    <3>3. CASE x # q
      <4>1. UserSize(h2.mem, x) = UserSize(heap.mem, x)
        BY <3>1, <3>3 DEF UserSize
      <4>2. new[x].payload = pbufs[x].payload /\ new[x].len = pbufs[x].len
        BY <1>1, <3>3
      <4> QED
        BY <3>1, <4>1, <4>2
    <3> QED
      BY <3>2, <3>3
  <2>2. Used(h2.mem) = DOMAIN new \cap Addr
    BY <1>2, <1>3 DEF RoomOk
  <2> QED
    BY <1>3, <2>1, <2>2 DEF RoomOk
<1>11. GraphOk(new, h2, held, <<pbufs[q].next>>)
  BY <1>1, <1>4, <1>9, <1>10 DEF GraphOk
<1> QED
  BY <1>3, <1>11 DEF new

\* The heap in which the last pbuf that stays is trimmed.
LEMMA TrimmedOk ==
  ASSUME Inv, NEW q \in DOMAIN pbufs, NEW rem \in Nat, rem <= pbufs[q].len
  PROVE  LET h2 == IF Trims(q, rem) THEN MemTrim(heap, q, TrimSize(q, rem)) ELSE heap
         IN  /\ HeapInv(h2) /\ Used(h2.mem) = Used(heap.mem)
             /\ \A x \in Used(heap.mem) \ {q} : h2.mem[x].next = heap.mem[x].next
             /\ \A x \in Used(heap.mem) : h2.mem[x].next <= heap.mem[x].next
             /\ q \in Addr => pbufs[q].payload + rem <= UserSize(h2.mem, q)
<1> DEFINE m == TrimSize(q, rem)
           h2 == MemTrim(heap, q, m)
           a == pbufs[q].payload
           b == pbufs[q].len
<1>1. HeapInv(heap) /\ Typed(pbufs) /\ RoomOk(pbufs, heap.mem)
  BY DEF Inv, GraphOk
<1>2. a \in Nat /\ b \in Nat /\ rem <= b /\ m = a + rem
  BY <1>1, PbufFields DEF TrimSize
<1>3. \A x \in Used(heap.mem) : heap.mem[x].next \in Nat /\ x \in Nat
  BY <1>1, Fields DEF HeapInv, ListOk, Used
<1>4. CASE Trims(q, rem)
  <2>1. q \in Used(heap.mem) /\ a + b <= UserSize(heap.mem, q)
    BY <1>1, <1>4 DEF RoomOk, Trims, IsRam
  <2>2. UserSize(heap.mem, q) \in Int
    BY <1>3, <2>1, Sizes DEF UserSize
  <2>3. m \in Nat /\ m <= UserSize(heap.mem, q)
    <3> DEFINE c == UserSize(heap.mem, q)
    <3> HIDE DEF a, b, c, m
    <3>1. m \in Nat /\ m <= c
      BY <1>2, <2>1, <2>2 DEF c
    <3> QED
      BY <3>1 DEF c
  <2> HIDE DEF m
  <2>4. HeapInv(h2) /\ Shortened(heap.mem, q, m, h2.mem)
    BY <1>1, <2>1, <2>3, MemTrimOk
  <2> HIDE DEF h2
  <2>5. /\ Used(h2.mem) = Used(heap.mem)
        /\ \A x \in Used(heap.mem) \ {q} : h2.mem[x].next = heap.mem[x].next
        /\ h2.mem[q].next \in Nat /\ h2.mem[q].next <= heap.mem[q].next
        /\ h2.mem[q].next >= q + SIZEOF_STRUCT_MEM + m
    BY <2>4 DEF Shortened
  <2>6. \A x \in Used(heap.mem) : h2.mem[x].next <= heap.mem[x].next
    BY <1>3, <2>5
  <2>7. a + rem <= UserSize(h2.mem, q)
    BY <1>2, <1>3, <2>1, <2>3, <2>5, Sizes DEF UserSize
  <2> QED
    BY <1>4, <2>4, <2>5, <2>6, <2>7 DEF h2, m
<1>5. CASE ~Trims(q, rem)
  <2>1. q \in Addr => /\ rem = b /\ a + b <= UserSize(heap.mem, q)
    BY <1>1, <1>5 DEF RoomOk, Trims, IsRam
  <2>2. \A x \in Used(heap.mem) : heap.mem[x].next <= heap.mem[x].next
    BY <1>3
  <2> QED
    BY <1>1, <1>5, <2>1, <2>2
<1> QED
  BY <1>4, <1>5

LEMMA ReallocStep ==
  ASSUME Inv, NEW p \in DOMAIN pbufs, NEW n \in Steps, Realloc(p, n)
  PROVE  Inv' /\ Abstract!Next
<1> DEFINE at == Walk(p, n)
           q == at.q
           rem == at.rem_len
           h2 == IF Trims(q, rem) THEN MemTrim(heap, q, TrimSize(q, rem)) ELSE heap
           cut == Cut(p, n, q, rem)
           end == Freed(cut, h2, pbufs[q].next)
<1>1. /\ MayRealloc(p, n) /\ pbufs' = end.pbufs /\ heap' = end.heap /\ refused' = 0
      /\ held' = Restrict(held, DOMAIN end.pbufs)
  BY DEF Realloc, Become
<1>2. n \in Nat
  BY Sizes DEF Steps
<1>3. Single(p) /\ n <= pbufs[p].tot_len
  <2>1. n < pbufs[p].tot_len /\ IsHead(p) /\ Alone(p)
    BY <1>1 DEF MayRealloc
  <2>2. Typed(pbufs)
    BY DEF Inv, GraphOk
  <2>3. pbufs[p].tot_len \in Nat
    BY <2>2, PbufFields
  <2> QED
    BY <1>2, <2>1, <2>3 DEF Single
<1>4. Walked(p, n, q, rem) /\ rem <= pbufs[q].len
  BY <1>2, <1>3, WalkOk
<1> HIDE DEF at, q, rem
<1>5. q \in DOMAIN pbufs /\ rem \in Nat
  BY <1>4, ChainIn DEF Walked
<1>6. /\ HeapInv(h2) /\ Used(h2.mem) = Used(heap.mem)
      /\ \A x \in Used(heap.mem) \ {q} : h2.mem[x].next = heap.mem[x].next
      /\ \A x \in Used(heap.mem) : h2.mem[x].next <= heap.mem[x].next
      /\ q \in Addr => pbufs[q].payload + rem <= UserSize(h2.mem, q)
  BY <1>4, <1>5, TrimmedOk
<1> HIDE DEF h2
<1>7. DOMAIN cut = DOMAIN pbufs /\ GraphOk(cut, h2, held, <<pbufs[q].next>>)
  BY <1>2, <1>3, <1>4, <1>6, CutOk
<1> HIDE DEF cut
<1>8. GraphOk(end.pbufs, end.heap, held, <<>>) /\ Smaller(cut, h2, end.pbufs, end.heap)
  BY <1>7, FreedOk
<1> HIDE DEF end
<1>9. /\ DOMAIN end.pbufs \subseteq DOMAIN pbufs
      /\ Used(end.heap.mem) \subseteq Used(heap.mem)
      /\ \A u \in Used(end.heap.mem) : end.heap.mem[u].next <= heap.mem[u].next
  BY <1>6, <1>7, <1>8 DEF Smaller
<1> DEFINE rest == Restrict(held, DOMAIN end.pbufs)
<1>10. held \in [DOMAIN pbufs -> 0 .. MaxHeld] /\ HeapInv(heap)
  BY DEF Inv, GraphOk
<1>11. /\ rest \in [DOMAIN end.pbufs -> 0 .. MaxHeld]
       /\ \A x \in DOMAIN end.pbufs : rest[x] = held[x]
  BY <1>9, <1>10 DEF Restrict
<1> HIDE DEF rest
<1>12. GraphOk(end.pbufs, end.heap, rest, <<>>)
  BY <1>8, <1>11, HeldAlike
<1>13. InvOf(pbufs', heap', held', refused')
  BY <1>1, <1>11, <1>12 DEF InvOf, rest
<1>14. HeapInv(heap')
  BY <1>1, <1>12 DEF GraphOk
<1>15. Abstract!Release
  BY <1>1, <1>9, <1>10, <1>14, ReleaseRefines
<1> QED
  BY <1>13, <1>15, InvIs DEF Abstract!Next

-------------------------------------------------------------------------------
(* The invariant. *)

LEMMA InitInv == Init => Inv /\ Abstract!Init
<1> SUFFICES ASSUME Init PROVE Inv /\ Abstract!Init
  OBVIOUS
<1>1. /\ heap = EmptyHeap /\ pbufs = [p \in {} |-> Null] /\ held = [p \in {} |-> 0]
      /\ refused = 0
  BY DEF Init
<1>2. DOMAIN pbufs = {} /\ DOMAIN held = {}
  BY <1>1
<1>3. HeapInv(heap) /\ Used(heap.mem) = {}
  BY <1>1, EmptyOk
<1>4. Typed(pbufs)
  <2>1. IsFiniteSet(DOMAIN pbufs)
    BY <1>2, FS_EmptySet
  <2>2. pbufs \in [DOMAIN pbufs -> Pbuf]
    BY <1>1, <1>2
  <2> QED
    BY <1>2, <2>1, <2>2 DEF Typed
<1>5. RefsOk(pbufs, held, <<>>)
  <2>1. <<>> \in Seq(DOMAIN pbufs \cup {Null})
    OBVIOUS
  <2> QED
    BY <1>2, <2>1 DEF RefsOk
<1>6. LensOk(pbufs) /\ RoomOk(pbufs, heap.mem)
  BY <1>2, <1>3 DEF LensOk, RoomOk
<1>7. held \in [DOMAIN pbufs -> 0 .. MaxHeld]
  BY <1>1, <1>2
<1>8. Inv
  BY <1>1, <1>3, <1>4, <1>5, <1>6, <1>7 DEF Inv, GraphOk
<1>9. Blocks = [a \in {} |-> 0]
  BY <1>3 DEF Blocks, Used
<1>10. Abstract!Init
  BY <1>1, <1>9 DEF Abstract!Init
<1> QED
  BY <1>8, <1>10

LEMMA NextInv ==
  Inv /\ [Next]_vars => Inv' /\ [Abstract!Next]_<<Blocks, refused>>
<1> SUFFICES ASSUME Inv, [Next]_vars PROVE Inv' /\ [Abstract!Next]_<<Blocks, refused>>
  OBVIOUS
<1>1. ASSUME NEW offset \in Offsets, NEW length \in Lengths, AllocRam(offset, length)
      PROVE  Inv' /\ Abstract!Next
  BY <1>1, AllocRamStep
<1>2. ASSUME NEW p \in RefPbufs, NEW length \in Lengths, AllocRef(p, length)
      PROVE  Inv' /\ Abstract!Next
  BY <1>2, AllocRefStep
<1>3. ASSUME NEW p \in FragPbufs, NEW original \in DOMAIN pbufs \ FragPbufs,
             NEW length \in Lengths, AllocFrag(p, original, length)
      PROVE  Inv' /\ Abstract!Next
  BY <1>3, AllocFragStep
<1>4. ASSUME NEW p \in DOMAIN pbufs, Free(p) PROVE Inv' /\ Abstract!Next
  BY <1>4, FreeStep
<1>5. ASSUME NEW p \in DOMAIN pbufs, Ref(p) PROVE Inv' /\ Abstract!Next
  BY <1>5, RefStep
<1>6. ASSUME NEW h \in DOMAIN pbufs, NEW t \in DOMAIN pbufs, PbufCat(h, t)
      PROVE  Inv' /\ Abstract!Next
  BY <1>6, PbufCatStep
<1>7. ASSUME NEW h \in DOMAIN pbufs, NEW t \in DOMAIN pbufs, PbufChain(h, t)
      PROVE  Inv' /\ Abstract!Next
  BY <1>7, PbufChainStep
<1>8. ASSUME NEW p \in DOMAIN pbufs, NEW n \in Steps, Realloc(p, n)
      PROVE  Inv' /\ Abstract!Next
  BY <1>8, ReallocStep
<1>9. ASSUME NEW p \in DOMAIN pbufs, NEW n \in Steps, AddHeader(p, n)
      PROVE  Inv' /\ Abstract!Next
  BY <1>9, AddHeaderStep
<1>10. ASSUME NEW p \in DOMAIN pbufs, NEW n \in Steps, RemoveFront(p, n)
       PROVE  Inv' /\ Abstract!Next
  BY <1>10, RemoveFrontStep
<1>11. CASE UNCHANGED vars
  <2>1. UNCHANGED <<Blocks, refused>>
    BY <1>11 DEF vars, Blocks
  <2>2. InvOf(pbufs', heap', held', refused')
    BY <1>11, InvIs DEF vars
  <2> QED
    BY <2>1, <2>2, InvIs
<1> QED
  BY <1>1, <1>2, <1>3, <1>4, <1>5, <1>6, <1>7, <1>8, <1>9, <1>10, <1>11 DEF Next

\* What the reference counts, the lengths and the list of blocks have to be for the
\* operations of pbuf.c and mem.c to keep them so: the invariant that the theorems
\* below rest on.
THEOREM Invariance == Spec => []Inv
<1>1. Init => Inv
  BY InitInv
<1>2. Inv /\ [Next]_vars => Inv'
  BY NextInv
<1> QED
  BY <1>1, <1>2, PTL DEF Spec

LEMMA InvTypeOK == Inv => TypeOK
<1> SUFFICES ASSUME Inv PROVE TypeOK
  OBVIOUS
<1>1. /\ HeapInv(heap) /\ Typed(pbufs)
      /\ held \in [DOMAIN pbufs -> 0 .. MaxHeld] /\ refused \in Nat
  BY DEF Inv, GraphOk
<1>2. heap.mem \in [DOMAIN heap.mem -> StructMem] /\ DOMAIN heap.mem \subseteq Addr
      /\ heap.lfree \in Addr
  BY <1>1 DEF HeapInv, ListOk, MemOk, LowestOk
<1> QED
  BY <1>1, <1>2 DEF Typed, TypeOK

LEMMA InvSound == Inv => BuffersSound
<1> SUFFICES ASSUME Inv PROVE BuffersSound
  OBVIOUS
<1>1. /\ HeapInv(heap) /\ Typed(pbufs) /\ RefsOk(pbufs, held, <<>>)
      /\ LensOk(pbufs) /\ RoomOk(pbufs, heap.mem)
  BY DEF Inv, GraphOk
<1>2. ASSUME NEW p \in DOMAIN pbufs
      PROVE  pbufs[p].ref = held[p] + Cardinality({q \in DOMAIN pbufs : pbufs[q].next = p})
                                    + Cardinality({q \in DOMAIN pbufs : pbufs[q].original = p})
  <2> DEFINE a == held[p]
             c == Cardinality(Preds(pbufs, p))
             d == Cardinality(Mirrors(pbufs, p))
             r == pbufs[p].ref
  <2>1. Refs(pbufs, held, <<>>, p)
    BY <1>1 DEF RefsOk
  <2>2. a \in Nat /\ c \in Nat /\ d \in Nat
    BY <1>1, <2>1, Finite DEF Refs
  <2>3. r = a + c + d + 0
    BY <2>1, PlacesOne DEF Refs
  <2> HIDE DEF a, c, d, r
  <2>4. r = a + c + d
    BY <2>2, <2>3
  <2> QED
    BY <2>4 DEF a, c, d, r, Preds, Mirrors
<1>3. Counted
  <2>1. \A p \in DOMAIN pbufs : /\ {pbufs[p].next, pbufs[p].original} \subseteq DOMAIN pbufs \cup {Null}
                                /\ pbufs[p].ref > 0
    BY <1>1 DEF RefsOk, Refs
  <2>2. {a \in DOMAIN heap.mem : heap.mem[a].used /\ a # MEM_SIZE_ALIGNED} = DOMAIN pbufs \cap Addr
    BY <1>1 DEF RoomOk, Used
  <2> QED
    BY <1>2, <2>1, <2>2 DEF Counted
<1>4. LengthsTrue
  BY <1>1 DEF LensOk, LenOf, RoomOk, LengthsTrue, IsRam
<1>5. HeapSane(heap)
  BY <1>1, HeapInvSane
<1> QED
  BY <1>3, <1>4, <1>5 DEF BuffersSound

\* The heap of mem.c and the pbufs of pbuf.c keep their types: no length, offset or
\* count is ever below zero, and no pointer leaves the heap or the pools.
THEOREM TypeCorrect == Spec => []TypeOK
BY Invariance, InvTypeOK, PTL

\* pbuf_free frees a pbuf with the last reference and not before; the lengths that
\* the pbufs of a chain tell are true and the payload of each lies in its block;
\* and the heap is as mem_sanity wants it, whatever is allocated, joined, cut,
\* trimmed and freed in whatever order.
THEOREM Soundness == Spec => []BuffersSound
BY Invariance, InvSound, PTL

\* mem_malloc, mem_trim and mem_free keep what the users of a heap are promised:
\* blocks that do not overlap and stay where they are, and memory refused only
\* when no gap is large enough.
THEOREM HeapImplementation == Spec => ImplementsHeap
<1>1. Init => Abstract!Init
  BY InitInv
<1>2. Inv /\ [Next]_vars => [Abstract!Next]_<<Blocks, refused>>
  BY NextInv
<1> QED
  BY <1>1, <1>2, Invariance, PTL DEF Spec, ImplementsHeap, Abstract!Spec
===============================================================================
