----------------------------- MODULE AbstractHeap -----------------------------
(***************************************************************************)
(* What the users of src/src/lwip/core/mem.c are promised: blocks that do  *)
(* not overlap and never move, and memory refused only when no gap between *)
(* blocks is large enough.  No headers, no list of free blocks.            *)
(***************************************************************************)
EXTENDS Naturals

CONSTANTS Size, Header, MinSize

VARIABLES
  blocks,   \* the end of each block, by its start
  refused   \* what the last step asked for and did not get, or 0

Fits(n, gap) == gap.end - gap.start >= Header + n

\* The free stretches between blocks.
Gaps ==
  LET starts == DOMAIN blocks
      edges == starts \cup {Size}
      ends == {0} \cup {blocks[s] : s \in starts}
      free(a, b) == \A s \in starts : s >= b \/ blocks[s] <= a
  IN  {gap \in [start : ends, end : edges] :
         gap.start < gap.end /\ free(gap.start, gap.end)}

Init == blocks = [a \in {} |-> 0] /\ refused = 0

\* The rest of a gap is left to the block when no other block would fit in it.
Alloc(n) ==
  \E gap \in Gaps :
    /\ Fits(n, gap)
    /\ blocks' = [a \in DOMAIN blocks \cup {gap.start} |->
         IF a # gap.start THEN blocks[a]
         ELSE IF gap.end - gap.start - Header - n < Header + MinSize THEN gap.end
         ELSE gap.start + Header + n]
    /\ refused' = 0

Refuse ==
  /\ refused' >= MinSize /\ UNCHANGED blocks
  /\ \A gap \in Gaps : ~Fits(refused', gap)

\* Blocks are freed, or shrink.
Release ==
  /\ DOMAIN blocks' \subseteq DOMAIN blocks
  /\ \A a \in DOMAIN blocks' : blocks'[a] \in a + Header + MinSize .. blocks[a]
  /\ refused' = 0

Next == Release \/ Refuse \/ \E n \in MinSize .. Size : Alloc(n)

Spec == Init /\ [][Next]_<<blocks, refused>>
===============================================================================
