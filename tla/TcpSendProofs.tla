----------------------------- MODULE TcpSendProofs -----------------------------
(***************************************************************************)
(* The sending half for any segment size, buffer, window and network: what *)
(* the queues hold, what snd_buf and snd_queuelen count, and what the peer *)
(* has been sent.                                                          *)
(***************************************************************************)
EXTENDS TcpSend, FiniteSetTheorems, WellFoundedInduction, TLAPS

\* A set of natural numbers has a least one.
LEMMA LeastNumber ==
  ASSUME NEW S \in SUBSET Nat, S # {}
  PROVE  \E i \in S : \A j \in S : i <= j
<1> DEFINE R == OpToRel(<, Nat)
<1>1. IsWellFoundedOn(R, Nat)
  BY NatLessThanWellFounded
<1>2. \A i, j \in Nat : <<i, j>> \in R <=> i < j
  BY DEF OpToRel
<1> HIDE DEF R
<1>3. PICK i \in S : \A j \in S : ~(<<j, i>> \in R)
  BY <1>1, WFMin
<1>4. \A j \in S : ~(j < i)
  BY <1>2, <1>3
<1> QED
  BY <1>4

\* And among subsets of a finite set there is one that holds no other.
LEMMA SmallestSet ==
  ASSUME NEW Q, IsFiniteSet(Q), NEW C \in SUBSET (SUBSET Q), C # {}
  PROVE  \E s \in C : \A t \in C : t \subseteq s => t = s
<1> DEFINE N == {Cardinality(s) : s \in C}
<1>1. \A s \in C : IsFiniteSet(s) /\ Cardinality(s) \in Nat
  BY FS_Subset, FS_CardinalityType
<1>2. N \in SUBSET Nat /\ N # {}
  BY <1>1
<1>3. PICK n \in N : \A m \in N : n <= m
  <2> HIDE DEF N
  <2> QED
    BY <1>2, LeastNumber
<1>4. PICK s \in C : Cardinality(s) = n
  OBVIOUS
<1>5. ASSUME NEW t \in C, t \subseteq s PROVE t = s
  <2>1. IsFiniteSet(s) /\ t \in SUBSET s
    BY <1>1, <1>5
  <2>2. Cardinality(t) <= Cardinality(s) /\ (Cardinality(s) = Cardinality(t) => s = t)
    BY <2>1, FS_Subset
  <2>3. Cardinality(s) <= Cardinality(t)
    BY <1>3, <1>4
  <2> QED
    BY <1>1, <2>2, <2>3
<1> QED
  BY <1>5

-------------------------------------------------------------------------------
(* MapThenSumSet: what the queues count. *)

Chosen(s) == CHOOSE x \in s : TRUE

\* g is the recursive function that adds f up over the subsets of Q.
Sums(g, f, Q) ==
  g = [s \in SUBSET Q |-> IF s = {} THEN 0 ELSE f[Chosen(s)] + g[s \ {Chosen(s)}]]

Total(f, Q) == (CHOOSE g : Sums(g, f, Q))[Q]

LEMMA SumsUnique ==
  ASSUME NEW f, NEW Q, NEW R, IsFiniteSet(Q), Q \subseteq R,
         NEW g, NEW h, Sums(g, f, Q), Sums(h, f, R)
  PROVE  g[Q] = h[Q]
<1> DEFINE Bad == {s \in SUBSET Q : g[s] # h[s]}
<1>1. \A s \in SUBSET Q : /\ g[s] = IF s = {} THEN 0 ELSE f[Chosen(s)] + g[s \ {Chosen(s)}]
                          /\ h[s] = IF s = {} THEN 0 ELSE f[Chosen(s)] + h[s \ {Chosen(s)}]
  BY DEF Sums
<1>2. ASSUME Bad # {} PROVE FALSE
  <2>1. PICK s \in Bad : \A t \in Bad : t \subseteq s => t = s
    <3>1. Bad \in SUBSET (SUBSET Q)
      OBVIOUS
    <3> HIDE DEF Bad
    <3> QED
      BY <1>2, <3>1, SmallestSet
  <2>2. s \in SUBSET Q /\ g[s] # h[s]
    BY <2>1
  <2>3. s # {}
    BY <1>1, <2>2
  <2>4. Chosen(s) \in s
    BY <2>3 DEF Chosen
  <2> DEFINE t == s \ {Chosen(s)}
  <2>5. t \in SUBSET Q /\ t \subseteq s /\ t # s
    BY <2>2, <2>4
  <2>6. g[t] = h[t]
    BY <2>1, <2>5
  <2> QED
    BY <1>1, <2>2, <2>3, <2>6
<1>3. Q \notin Bad
  BY <1>2
<1> QED
  BY <1>3

LEMMA SumsExists ==
  ASSUME NEW Q, IsFiniteSet(Q), NEW f, \A x \in Q : f[x] \in Nat
  PROVE  \E g \in [SUBSET Q -> Nat] : Sums(g, f, Q)
<1> DEFINE Up(n) == {s \in SUBSET Q : Cardinality(s) <= n}
           Def(g, n) == \A s \in Up(n) : g[s] = IF s = {} THEN 0
                                                ELSE f[Chosen(s)] + g[s \ {Chosen(s)}]
           Bad == {n \in Nat : ~\E g \in [Up(n) -> Nat] : Def(g, n)}
<1>1. \A s \in SUBSET Q : IsFiniteSet(s) /\ Cardinality(s) \in Nat
                          /\ Cardinality(s) <= Cardinality(Q)
  BY FS_Subset, FS_CardinalityType
<1>2. ASSUME Bad # {} PROVE FALSE
  <2>1. PICK n \in Bad : \A m \in Bad : n <= m
    <3>1. Bad \in SUBSET Nat
      OBVIOUS
    <3> HIDE DEF Bad
    <3> QED
      BY <1>2, <3>1, LeastNumber
  <2>2. n \in Nat /\ ~\E g \in [Up(n) -> Nat] : Def(g, n)
    BY <2>1
  <2>3. n # 0
    <3> DEFINE g == [s \in Up(0) |-> 0]
    <3>1. \A s \in Up(0) : s = {}
      BY <1>1, FS_EmptySet
    <3>2. g \in [Up(0) -> Nat] /\ Def(g, 0)
      BY <3>1
    <3>3. \E k \in [Up(0) -> Nat] : Def(k, 0)
      BY <3>2
    <3> HIDE DEF Up, Def, g
    <3> QED
      BY <2>2, <3>3
  <2>4. n - 1 \in Nat /\ ~(n <= n - 1)
    BY <2>2, <2>3
  <2>5. PICK g \in [Up(n - 1) -> Nat] : Def(g, n - 1)
    BY <2>1, <2>4
  <2> DEFINE h == [s \in Up(n) |-> IF s = {} THEN 0 ELSE f[Chosen(s)] + g[s \ {Chosen(s)}]]
  <2>6. \A s \in Up(n) : s # {} => Chosen(s) \in s /\ s \ {Chosen(s)} \in Up(n - 1)
    <3> TAKE s \in Up(n)
    <3>1. ASSUME s # {} PROVE Chosen(s) \in s /\ s \ {Chosen(s)} \in Up(n - 1)
      <4>1. Chosen(s) \in s
        BY <3>1 DEF Chosen
      <4>2. Cardinality(s \ {Chosen(s)}) = Cardinality(s) - 1
        BY <1>1, <4>1, FS_RemoveElement
      <4> QED
        BY <1>1, <2>2, <4>1, <4>2
    <3> QED
      BY <3>1
  <2>7. Up(n - 1) \subseteq Up(n)
    BY <1>1, <2>2
  <2>8. \A s \in Up(n - 1) : h[s] = g[s]
    BY <2>5, <2>7
  <2>9. h \in [Up(n) -> Nat]
    <3>1. ASSUME NEW s \in Up(n), s # {} PROVE f[Chosen(s)] + g[s \ {Chosen(s)}] \in Nat
      <4>1. Chosen(s) \in Q /\ s \ {Chosen(s)} \in Up(n - 1)
        BY <2>6, <3>1
      <4>2. f[Chosen(s)] \in Nat /\ g[s \ {Chosen(s)}] \in Nat
        <5> HIDE DEF Up
        <5> QED
          BY <2>5, <4>1
      <4> QED
        BY <4>2
    <3> QED
      BY <3>1
  <2>10. Def(h, n)
    <3> TAKE s \in Up(n)
    <3>1. s # {} => h[s \ {Chosen(s)}] = g[s \ {Chosen(s)}]
      BY <2>6, <2>8
    <3> QED
      BY <3>1
  <2> HIDE DEF h
  <2> QED
    BY <2>2, <2>9, <2>10
<1>3. Cardinality(Q) \in Nat
  BY FS_CardinalityType
<1>4. PICK g \in [Up(Cardinality(Q)) -> Nat] : Def(g, Cardinality(Q))
  BY <1>2, <1>3
<1>5. Up(Cardinality(Q)) = SUBSET Q
  BY <1>1
<1>6. g \in [SUBSET Q -> Nat]
      /\ \A s \in SUBSET Q : g[s] = IF s = {} THEN 0 ELSE f[Chosen(s)] + g[s \ {Chosen(s)}]
  BY <1>4, <1>5
<1>7. Sums(g, f, Q)
  BY <1>6 DEF Sums
<1> QED
  BY <1>6, <1>7

\* One step of the sum, whichever element is taken first.
LEMMA TotalStep ==
  ASSUME NEW Q, IsFiniteSet(Q), NEW f, \A x \in Q : f[x] \in Nat
  PROVE  /\ Total(f, Q) \in Nat
         /\ Q = {} => Total(f, Q) = 0
         /\ Q # {} => Chosen(Q) \in Q /\ Total(f, Q) = f[Chosen(Q)] + Total(f, Q \ {Chosen(Q)})
<1> DEFINE g == CHOOSE k : Sums(k, f, Q)
<1>1. PICK h \in [SUBSET Q -> Nat] : Sums(h, f, Q)
  BY SumsExists
<1>2. Sums(g, f, Q)
  BY <1>1
<1>3. Total(f, Q) = g[Q]
  BY DEF Total
<1> HIDE DEF g
<1>4. g[Q] = h[Q]
  BY <1>1, <1>2, SumsUnique
<1>5. h[Q] \in Nat /\ h[Q] = IF Q = {} THEN 0 ELSE f[Chosen(Q)] + h[Q \ {Chosen(Q)}]
  BY <1>1 DEF Sums
<1>6. ASSUME Q # {} PROVE Chosen(Q) \in Q /\ Total(f, Q \ {Chosen(Q)}) = h[Q \ {Chosen(Q)}]
  <2> DEFINE R == Q \ {Chosen(Q)}
             k == CHOOSE j : Sums(j, f, R)
  <2>1. Chosen(Q) \in Q
    BY <1>6 DEF Chosen
  <2>2. IsFiniteSet(R) /\ R \subseteq Q /\ \A x \in R : f[x] \in Nat
    BY FS_RemoveElement
  <2>3. Total(f, R) = k[R]
    BY DEF Total
  <2> HIDE DEF R
  <2>4. Sums(k, f, R)
    <3>1. \E j : Sums(j, f, R)
      BY <2>2, SumsExists
    <3> QED
      BY <3>1
  <2> HIDE DEF k
  <2>5. k[R] = h[R]
    BY <1>1, <2>2, <2>4, SumsUnique
  <2> QED
    BY <2>1, <2>3, <2>5 DEF R
<1> QED
  BY <1>3, <1>4, <1>5, <1>6

LEMMA TotalRemove ==
  ASSUME NEW Q, IsFiniteSet(Q), NEW f, \A x \in Q : f[x] \in Nat, NEW y \in Q
  PROVE  Total(f, Q) = f[y] + Total(f, Q \ {y})
<1> DEFINE Bad == {s \in SUBSET Q : \E x \in s : Total(f, s) # f[x] + Total(f, s \ {x})}
<1>1. \A s \in SUBSET Q : IsFiniteSet(s) /\ \A x \in s : f[x] \in Nat
  BY FS_Subset
<1>2. \A s \in SUBSET Q : Total(f, s) \in Nat
  BY <1>1, TotalStep
<1>3. ASSUME Bad # {} PROVE FALSE
  <2>1. PICK s \in Bad : \A t \in Bad : t \subseteq s => t = s
    <3>1. Bad \in SUBSET (SUBSET Q)
      OBVIOUS
    <3> HIDE DEF Bad
    <3> QED
      BY <1>3, <3>1, SmallestSet
  <2>2. s \in SUBSET Q
    BY <2>1
  <2>3. PICK z \in s : Total(f, s) # f[z] + Total(f, s \ {z})
    BY <2>1
  <2> DEFINE c == Chosen(s)
             t == s \ {c}
             u == s \ {z}
             v == t \ {z}
  <2>4. c \in s /\ Total(f, s) = f[c] + Total(f, t)
    BY <1>1, <2>2, <2>3, TotalStep
  <2>5. c # z
    BY <2>3, <2>4
  <2>6. /\ t \in SUBSET Q /\ t \notin Bad /\ z \in t
        /\ u \in SUBSET Q /\ u \notin Bad /\ c \in u /\ u \ {c} = v /\ v \in SUBSET Q
    <3>1. t \subseteq s /\ t # s /\ u \subseteq s /\ u # s
      BY <2>3, <2>4
    <3>2. t \notin Bad /\ u \notin Bad
      <4> HIDE DEF Bad, t, u
      <4> QED
        BY <2>1, <3>1
    <3> QED
      BY <2>2, <2>3, <2>4, <2>5, <3>2
  <2>7. Total(f, t) = f[z] + Total(f, v)
    BY <2>6
  <2>8. Total(f, u) = f[c] + Total(f, v)
    BY <2>6
  <2>9. f[c] \in Nat /\ f[z] \in Nat /\ Total(f, v) \in Nat
    BY <1>1, <1>2, <2>2, <2>3, <2>4, <2>6
  <2> HIDE DEF c, t, u, v
  <2> QED
    BY <2>3, <2>4, <2>7, <2>8, <2>9 DEF u
<1>4. Q \notin Bad
  BY <1>3
<1> QED
  BY <1>4

LEMMA TotalUnion ==
  ASSUME NEW A, NEW B, IsFiniteSet(A), IsFiniteSet(B), A \cap B = {},
         NEW f, \A x \in A \cup B : f[x] \in Nat
  PROVE  Total(f, A \cup B) = Total(f, A) + Total(f, B)
<1> DEFINE Bad == {s \in SUBSET A : Total(f, s \cup B) # Total(f, s) + Total(f, B)}
<1>1. \A s \in SUBSET A : IsFiniteSet(s) /\ IsFiniteSet(s \cup B)
  BY FS_Subset, FS_Union
<1>2. \A s \in SUBSET A : Total(f, s) \in Nat
  BY <1>1, TotalStep
<1>3. Total(f, B) \in Nat
  BY TotalStep
<1>4. ASSUME Bad # {} PROVE FALSE
  <2>1. PICK s \in Bad : \A t \in Bad : t \subseteq s => t = s
    <3>1. Bad \in SUBSET (SUBSET A)
      OBVIOUS
    <3> HIDE DEF Bad
    <3> QED
      BY <1>4, <3>1, SmallestSet
  <2>2. s \in SUBSET A /\ Total(f, s \cup B) # Total(f, s) + Total(f, B)
    BY <2>1
  <2>3. s # {}
    <3>1. Total(f, {}) = 0 /\ {} \cup B = B
      BY FS_EmptySet, TotalStep
    <3> QED
      BY <1>3, <2>2, <3>1
  <2>4. PICK z \in s : TRUE
    BY <2>3
  <2> DEFINE t == s \ {z}
  <2>5. t \in SUBSET A /\ t \subseteq s /\ t # s /\ (s \cup B) \ {z} = t \cup B
    BY <2>2, <2>4
  <2>6. t \notin Bad
    <3> HIDE DEF Bad, t
    <3> QED
      BY <2>1, <2>5
  <2>7. Total(f, t \cup B) = Total(f, t) + Total(f, B)
    BY <2>5, <2>6
  <2>8. Total(f, s) = f[z] + Total(f, t)
    BY <1>1, <2>2, <2>4, TotalRemove, ZenonT(30)
  <2>9. Total(f, s \cup B) = f[z] + Total(f, (s \cup B) \ {z})
    BY <1>1, <2>2, <2>4, TotalRemove
  <2>10. f[z] \in Nat /\ Total(f, t) \in Nat
    BY <1>2, <2>2, <2>4, <2>5
  <2>11. Total(f, s \cup B) = f[z] + Total(f, t \cup B)
    BY <2>5, <2>9
  <2> HIDE DEF t
  <2> QED
    BY <1>3, <2>2, <2>7, <2>8, <2>10, <2>11
<1>5. A \notin Bad
  BY <1>4
<1> QED
  BY <1>5

-------------------------------------------------------------------------------
LenOf == [s \in Segment |-> s.len]
PbufOf == [s \in Segment |-> s.n]

SegQueue(Q) == IsFiniteSet(Q) /\ Q \subseteq Segment

LEMMA BytesIsTotal ==
  ASSUME NEW Q, SegQueue(Q)
  PROVE  Bytes(Q) = Total(LenOf, Q)
<1> DEFINE D(g) == g = [s \in SUBSET Q |->
                          IF s = {} THEN 0
                          ELSE (CHOOSE x \in s : TRUE).len + g[s \ {CHOOSE x \in s : TRUE}]]
           k == CHOOSE g : D(g)
<1>1. Bytes(Q) = k[Q]
  BY DEF Bytes, MapThenSumSet, MapThenFoldSet
<1>2. \A s \in SUBSET Q : s # {} => LenOf[Chosen(s)] = (CHOOSE x \in s : TRUE).len
  <2> TAKE s \in SUBSET Q
  <2>1. ASSUME s # {} PROVE Chosen(s) \in Segment
    BY <2>1 DEF Chosen, SegQueue
  <2> QED
    BY <2>1 DEF Chosen, LenOf
<1>3. \A x \in Q : LenOf[x] \in Nat
  BY DEF LenOf, SegQueue, Segment
<1>4. \A g : D(g) <=> Sums(g, LenOf, Q)
  BY <1>2 DEF Sums, Chosen
<1>5. PICK h : Sums(h, LenOf, Q)
  BY <1>3, SumsExists DEF SegQueue
<1>6. Sums(k, LenOf, Q) /\ Sums(CHOOSE g : Sums(g, LenOf, Q), LenOf, Q)
  <2>1. D(h)
    BY <1>4, <1>5
  <2> HIDE DEF D
  <2>2. D(k)
    BY <2>1
  <2> QED
    BY <1>4, <1>5, <2>2
<1> HIDE DEF k
<1>7. k[Q] = (CHOOSE g : Sums(g, LenOf, Q))[Q]
  BY <1>6, SumsUnique DEF SegQueue
<1> QED
  BY <1>1, <1>7 DEF Total

LEMMA PbufsIsTotal ==
  ASSUME NEW Q, SegQueue(Q)
  PROVE  PbufsOf(Q) = Total(PbufOf, Q)
<1> DEFINE D(g) == g = [s \in SUBSET Q |->
                          IF s = {} THEN 0
                          ELSE (CHOOSE x \in s : TRUE).n + g[s \ {CHOOSE x \in s : TRUE}]]
           k == CHOOSE g : D(g)
<1>1. PbufsOf(Q) = k[Q]
  BY DEF PbufsOf, MapThenSumSet, MapThenFoldSet
<1>2. \A s \in SUBSET Q : s # {} => PbufOf[Chosen(s)] = (CHOOSE x \in s : TRUE).n
  <2> TAKE s \in SUBSET Q
  <2>1. ASSUME s # {} PROVE Chosen(s) \in Segment
    BY <2>1 DEF Chosen, SegQueue
  <2> QED
    BY <2>1 DEF Chosen, PbufOf
<1>3. \A x \in Q : PbufOf[x] \in Nat
  BY DEF PbufOf, SegQueue, Segment
<1>4. \A g : D(g) <=> Sums(g, PbufOf, Q)
  BY <1>2 DEF Sums, Chosen
<1>5. PICK h : Sums(h, PbufOf, Q)
  BY <1>3, SumsExists DEF SegQueue
<1>6. Sums(k, PbufOf, Q) /\ Sums(CHOOSE g : Sums(g, PbufOf, Q), PbufOf, Q)
  <2>1. D(h)
    BY <1>4, <1>5
  <2> HIDE DEF D
  <2>2. D(k)
    BY <2>1
  <2> QED
    BY <1>4, <1>5, <2>2
<1> HIDE DEF k
<1>7. k[Q] = (CHOOSE g : Sums(g, PbufOf, Q))[Q]
  BY <1>6, SumsUnique DEF SegQueue
<1> QED
  BY <1>1, <1>7 DEF Total

LEMMA QueueSums ==
  ASSUME NEW Q, SegQueue(Q)
  PROVE  /\ Bytes(Q) \in Nat /\ PbufsOf(Q) \in Nat
         /\ Q = {} => Bytes(Q) = 0 /\ PbufsOf(Q) = 0
<1>1. IsFiniteSet(Q) /\ \A x \in Q : LenOf[x] \in Nat /\ PbufOf[x] \in Nat
  BY DEF SegQueue, LenOf, PbufOf, Segment
<1>2. Total(LenOf, Q) \in Nat /\ (Q = {} => Total(LenOf, Q) = 0)
  BY <1>1, TotalStep
<1>3. Total(PbufOf, Q) \in Nat /\ (Q = {} => Total(PbufOf, Q) = 0)
  BY <1>1, TotalStep
<1> QED
  BY <1>2, <1>3, BytesIsTotal, PbufsIsTotal

LEMMA QueueSumsRemove ==
  ASSUME NEW Q, SegQueue(Q), NEW s \in Q
  PROVE  /\ SegQueue(Q \ {s})
         /\ Bytes(Q) = s.len + Bytes(Q \ {s}) /\ PbufsOf(Q) = s.n + PbufsOf(Q \ {s})
<1>1. IsFiniteSet(Q) /\ \A x \in Q : LenOf[x] \in Nat /\ PbufOf[x] \in Nat
  BY DEF SegQueue, LenOf, PbufOf, Segment
<1>2. SegQueue(Q \ {s})
  BY FS_RemoveElement DEF SegQueue
<1>3. LenOf[s] = s.len /\ PbufOf[s] = s.n
  BY DEF SegQueue, LenOf, PbufOf
<1>4. /\ Total(LenOf, Q) = LenOf[s] + Total(LenOf, Q \ {s})
      /\ Total(PbufOf, Q) = PbufOf[s] + Total(PbufOf, Q \ {s})
  BY <1>1, TotalRemove
<1> QED
  BY <1>2, <1>3, <1>4, BytesIsTotal, PbufsIsTotal

LEMMA QueueSumsUnion ==
  ASSUME NEW A, NEW B, SegQueue(A), SegQueue(B), A \cap B = {}
  PROVE  /\ SegQueue(A \cup B)
         /\ Bytes(A \cup B) = Bytes(A) + Bytes(B)
         /\ PbufsOf(A \cup B) = PbufsOf(A) + PbufsOf(B)
<1>1. IsFiniteSet(A) /\ IsFiniteSet(B)
      /\ \A x \in A \cup B : LenOf[x] \in Nat /\ PbufOf[x] \in Nat
  BY DEF SegQueue, LenOf, PbufOf, Segment
<1>2. SegQueue(A \cup B)
  BY <1>1, FS_Union DEF SegQueue
<1>3. /\ Total(LenOf, A \cup B) = Total(LenOf, A) + Total(LenOf, B)
      /\ Total(PbufOf, A \cup B) = Total(PbufOf, A) + Total(PbufOf, B)
  BY <1>1, TotalUnion
<1> QED
  BY <1>2, <1>3, BytesIsTotal, PbufsIsTotal

LEMMA SubQueue ==
  ASSUME NEW Q, SegQueue(Q), NEW A \in SUBSET Q
  PROVE  SegQueue(A)
BY FS_Subset DEF SegQueue

LEMMA QueueSumsMinus ==
  ASSUME NEW Q, SegQueue(Q), NEW A \in SUBSET Q
  PROVE  /\ Bytes(Q \ A) = Bytes(Q) - Bytes(A) /\ Bytes(A) <= Bytes(Q)
         /\ PbufsOf(Q \ A) = PbufsOf(Q) - PbufsOf(A) /\ PbufsOf(A) <= PbufsOf(Q)
<1>1. SegQueue(A) /\ SegQueue(Q \ A)
  BY SubQueue
<1>2. A \cap (Q \ A) = {} /\ A \cup (Q \ A) = Q
  OBVIOUS
<1>3. Bytes(Q) = Bytes(A) + Bytes(Q \ A) /\ PbufsOf(Q) = PbufsOf(A) + PbufsOf(Q \ A)
  BY <1>1, <1>2, QueueSumsUnion
<1>4. /\ Bytes(A) \in Nat /\ Bytes(Q \ A) \in Nat /\ PbufsOf(A) \in Nat /\ PbufsOf(Q \ A) \in Nat
  BY <1>1, QueueSums
<1> QED
  BY <1>3, <1>4

-------------------------------------------------------------------------------
(* The first and the last segment of a queue. *)

LEMMA SegFacts ==
  ASSUME NEW s \in Segment
  PROVE  /\ s.seq \in Nat /\ s.len \in Nat /\ s.fin \in BOOLEAN /\ s.n \in Nat /\ s.n >= 1
         /\ End(s) = s.seq + s.len + (IF s.fin THEN 1 ELSE 0) /\ End(s) \in Nat
         /\ End(s) >= s.seq + s.len
<1>1. s.seq \in Nat /\ s.len \in Nat /\ s.fin \in BOOLEAN /\ s.n \in Nat /\ s.n >= 1
  BY DEF Segment
<1>2. End(s) = s.seq + (s.len + (IF s.fin THEN 1 ELSE 0))
  BY DEF End, TcpLen
<1> QED
  BY <1>1, <1>2

\* Of finitely many numbers one is the greatest.
LEMMA GreatestOf ==
  ASSUME NEW Q, IsFiniteSet(Q), Q # {}, NEW f, \A s \in Q : f[s] \in Nat
  PROVE  \E s \in Q : \A t \in Q : f[t] <= f[s]
<1> DEFINE Above(s) == {t \in Q : f[t] > f[s]}
           C == {Above(s) : s \in Q}
<1>1. C \in SUBSET (SUBSET Q) /\ C # {}
  OBVIOUS
<1>2. PICK R \in C : \A t \in C : t \subseteq R => t = R
  <2> HIDE DEF C
  <2> QED
    BY <1>1, SmallestSet
<1>3. PICK s \in Q : R = Above(s)
  OBVIOUS
<1>4. ASSUME NEW t \in Q, ~(f[t] <= f[s]) PROVE FALSE
  <2>1. f[t] \in Nat /\ f[s] \in Nat /\ f[t] > f[s]
    BY <1>4
  <2>2. \A u \in Above(t) : u \in Q /\ f[u] \in Nat /\ f[u] > f[t]
    OBVIOUS
  <2>3. Above(t) \subseteq Above(s) /\ t \in Above(s) /\ t \notin Above(t)
    BY <2>1, <2>2
  <2>4. Above(t) \in C
    OBVIOUS
  <2> QED
    BY <1>2, <1>3, <2>3, <2>4
<1> QED
  BY <1>4

LEMMA LastFacts ==
  ASSUME NEW Q, SegQueue(Q), Q # {}
  PROVE  Last(Q) \in Q /\ \A t \in Q : t.seq <= Last(Q).seq
<1> DEFINE f == [s \in Q |-> s.seq]
<1>1. IsFiniteSet(Q) /\ \A s \in Q : f[s] = s.seq /\ f[s] \in Nat
  BY SegFacts DEF SegQueue
<1> HIDE DEF f
<1>2. \E s \in Q : \A t \in Q : f[t] <= f[s]
  BY <1>1, GreatestOf
<1> QED
  BY <1>1, <1>2 DEF Last

LEMMA FirstFacts ==
  ASSUME NEW Q, SegQueue(Q), Q # {}
  PROVE  First(Q) \in Q /\ \A t \in Q : First(Q).seq <= t.seq
<1> DEFINE N == {s.seq : s \in Q}
<1>1. N \in SUBSET Nat /\ N # {}
  BY SegFacts DEF SegQueue
<1>2. PICK n \in N : \A m \in N : n <= m
  <2> HIDE DEF N
  <2> QED
    BY <1>1, LeastNumber
<1>3. \E s \in Q : \A t \in Q : s.seq <= t.seq
  BY <1>2
<1> QED
  BY <1>3 DEF First

\* What tcp_output makes of snd_nxt.
LEMMA MaxEnd ==
  ASSUME NEW Q, SegQueue(Q), Q # {}
  PROVE  LET m == Max({End(s) : s \in Q})
         IN  m \in Nat /\ (\A s \in Q : End(s) <= m) /\ \E s \in Q : m = End(s)
<1> DEFINE f == [s \in Q |-> End(s)]
           S == {End(s) : s \in Q}
<1>1. IsFiniteSet(Q) /\ \A s \in Q : f[s] = End(s) /\ f[s] \in Nat
  BY SegFacts DEF SegQueue
<1> HIDE DEF f
<1>2. \E s \in Q : \A t \in Q : f[t] <= f[s]
  BY <1>1, GreatestOf
<1>3. \E x \in S : \A y \in S : x >= y
  BY <1>1, <1>2
<1>4. Max(S) \in S /\ \A y \in S : Max(S) >= y
  <2> HIDE DEF S
  <2> QED
    BY <1>3 DEF Max
<1> QED
  BY <1>1, <1>4

-------------------------------------------------------------------------------
(* The inductive invariant: a pcb P that is not gone, of a task that has       *)
(* written w bytes, and the two directions of the network.                     *)

PcbType ==
  [state : {"ESTABLISHED", "FIN_WAIT_1", "FIN_WAIT_2", "gone"},
   lastack : Nat, snd_nxt : Nat, snd_lbb : Nat, snd_buf : 0 .. SndBuf, snd_queuelen : Nat,
   snd_wnd : Nat, snd_wnd_max : Nat, snd_wl2 : Nat, cwnd : Cut(MSS) .. MaxWnd,
   unsent : SUBSET Segment, unacked : SUBSET Segment,
   rtime : BOOLEAN, nrtx : Nat, dupacks : 0 .. 3, infr : BOOLEAN,
   persist : BOOLEAN, persist_probe : Nat, closepend : BOOLEAN]

\* Segments do not overlap.
Sorted(Q) ==
  \A s, t \in Q : s # t => s.seq # t.seq /\ (s.seq < t.seq => s.seq + s.len <= t.seq)

\* A segment is part of what was written, or the FIN after it; once the FIN is
\* queued tcp_split_unsent_seg may set the flag on others.
Part(s, state, w) ==
  /\ s.len <= MSS /\ s.seq + s.len <= w
  /\ s.len = 0 => s.fin /\ s.seq = w
  /\ s.fin => state # "ESTABLISHED"

\* The last one ends with the last byte written.
Ends(Q, w) == Q # {} => \E s \in Q : s.seq + s.len = w

\* No byte is missing before a segment, ...
Linked(Q, ack) ==
  \A s \in Q : s.seq <= ack \/ \E t \in Q : t.seq < s.seq /\ t.seq + t.len = s.seq

\* ... nor after the last.
Covered(Q, ack, w) ==
  \A b \in ack .. w - 1 : \E s \in Q : s.seq <= b /\ b < s.seq + s.len

Lists(P, w) ==
  /\ SegQueue(P.unsent) /\ SegQueue(P.unacked) /\ P.unsent \cap P.unacked = {}
  /\ Sorted(Queued(P)) /\ \A s \in Queued(P) : Part(s, P.state, w)
  /\ Ends(Queued(P), w) /\ Linked(Queued(P), P.lastack) /\ Covered(Queued(P), P.lastack, w)

\* The FIN waits to be sent, or was.
FinKept(P, w) ==
  P.state \in {"FIN_WAIT_1", "FIN_WAIT_2"} =>
    P.snd_nxt >= w + 1 \/ \E s \in P.unsent : s.fin /\ s.seq + s.len = w

Counted(P) ==
  P.snd_queuelen = PbufsOf(Queued(P)) /\ P.snd_buf = SndBuf - Bytes(Queued(P))

\* The right edge of the send window; it never moves back.
Edge(P) == P.lastack + P.snd_wnd

Windows(P, w) ==
  /\ P.snd_wnd <= MaxWnd /\ P.snd_wl2 = P.lastack
  /\ \A s \in P.unacked : s.seq + s.len <= Edge(P)
  /\ P.snd_nxt <= w + 1

Closing(P, w) ==
  /\ P.state = "ESTABLISHED" => P.snd_lbb = w
  /\ P.closepend => P.state = "ESTABLISHED"
  /\ P.state # "gone"

\* Whatever is in flight was sent before what is not, unless it is in S.
Before(P, S) ==
  \A s \in P.unacked \cup S, t \in P.unsent \ S : s.seq < t.seq

\* Before tcp_output is called; S is what tcp_rexmit_fast put back.
PreOutput(P, w, S) ==
  /\ P \in PcbType /\ Lists(P, w) /\ FinKept(P, w) /\ Counted(P) /\ Windows(P, w)
  /\ Closing(P, w)
  /\ P.unacked # {} => P.rtime /\ ~P.persist
  /\ S \subseteq Sendable(P) /\ Before(P, S) /\ Ends(P.unsent \ S, w)

\* And after it, when there is also a timer for what was not sent.
PcbInv(P, w) ==
  /\ PreOutput(P, w, {})
  /\ P.unsent # {} => P.rtime \/ P.persist

\* What a set of segments given to the network is.
WireInv(S, P, w, edge) ==
  \A s \in S :
    /\ s \in [seq : Nat, len : Nat, fin : BOOLEAN]
    /\ s.seq + s.len <= w /\ End(s) <= P.snd_nxt
    /\ s.seq + s.len <= edge \/ (s.len = 1 /\ s.seq <= edge)

AckEdge(a) == a.ack + a.wnd

\* The peer p, and the segments d and the ACKs as on their way.
PeerInv(P, w, p, d, as) ==
  /\ p.next <= P.snd_nxt /\ p.next <= p.edge /\ p.edge <= p.next + MaxWnd
  /\ Edge(P) <= p.edge
  /\ ~p.eof => p.next <= w
  /\ P.state = "FIN_WAIT_2" => p.eof /\ p.next = w + 1
  /\ WireInv(d, P, w, p.edge)
  /\ \A a \in as : /\ a.ack <= p.next /\ AckEdge(a) <= p.edge /\ a.wnd <= MaxWnd
                   /\ a.ack > P.lastack => AckEdge(a) >= Edge(P)
  /\ \A a, b \in as : a.ack < b.ack => AckEdge(a) <= AckEdge(b)

AppType == [pc : {"writing", "full", "queue", "shut"}, written : 0 .. MaxBytes]
PeerType == [next : Nat, edge : Nat, eof : BOOLEAN]
AckType == [ack : Nat, wnd : Nat]

EnvType == app \in AppType /\ acks \subseteq AckType /\ peer \in PeerType

AppInv(P, ap) ==
  /\ ap.pc # "shut" => P.state = "ESTABLISHED" /\ ~P.closepend
  /\ ap.pc = "full" => P.snd_buf = 0

Gone == [Fresh(0) EXCEPT !.state = "gone"]

SendInv ==
  /\ EnvType
  /\ IF pcb.state = "gone"
     THEN pcb = Gone /\ data = {} /\ acks = {} /\ app.pc # "full"
     ELSE /\ PcbInv(pcb, app.written) /\ PeerInv(pcb, app.written, peer, data, acks)
          /\ AppInv(pcb, app)

-------------------------------------------------------------------------------
(* tcp_output. *)

\* What is left of a sorted queue when its first segments are taken still
\* ends where it did.
LEMMA RestEnds ==
  ASSUME NEW U, U \subseteq Segment, Sorted(U), NEW w \in Nat, Ends(U, w),
         \A s \in U : s.seq + s.len <= w,
         NEW X \in SUBSET U, \A s \in X, t \in U : t.seq <= s.seq => t \in X
  PROVE  Ends(U \ X, w)
<1> SUFFICES ASSUME U \ X # {} PROVE \E s \in U \ X : s.seq + s.len = w
  BY DEF Ends
<1>1. PICK s \in U : s.seq + s.len = w
  BY DEF Ends
<1>2. CASE s \in X
  <2>1. PICK t \in U \ X : TRUE
    OBVIOUS
  <2>2. s \in Segment /\ t \in Segment /\ s # t
    BY <1>2
  <2>3. /\ s.seq \in Nat /\ s.len \in Nat /\ t.seq \in Nat /\ t.len \in Nat
    BY <2>2, SegFacts
  <2>4. s.seq < t.seq
    BY <1>2, <2>1, <2>3
  <2>5. s.seq + s.len <= t.seq /\ t.seq + t.len <= w
    BY <2>2, <2>4 DEF Sorted
  <2>6. t.seq + t.len = w
    BY <1>1, <2>3, <2>5
  <2> QED
    BY <2>1, <2>6
<1> QED
  BY <1>1, <1>2

LEMMA PcbFacts ==
  ASSUME NEW P \in PcbType
  PROVE  /\ P.lastack \in Nat /\ P.snd_nxt \in Nat /\ P.snd_lbb \in Nat
         /\ P.snd_buf \in 0 .. SndBuf /\ P.snd_buf \in Nat /\ P.snd_queuelen \in Nat
         /\ P.snd_wnd \in Nat /\ P.snd_wnd_max \in Nat /\ P.snd_wl2 \in Nat
         /\ P.cwnd \in Cut(MSS) .. MaxWnd /\ P.cwnd \in Nat /\ P.cwnd >= Cut(MSS)
         /\ P.cwnd <= MaxWnd /\ Edge(P) \in Nat
<1>1. /\ MSS \in Nat /\ MaxWnd \in Nat /\ SndBuf \in Nat /\ Cut(MSS) \in Nat
  BY SendAssumption DEF Cut, Lesser
<1> QED
  BY <1>1 DEF PcbType, Edge

\* The first segment of unsent, with nothing in flight, starts at lastack or
\* before it.
LEMMA FirstIsDue ==
  ASSUME NEW P, NEW w, Lists(P, w), P.unsent # {}, P.unacked = {}, P.lastack \in Nat
  PROVE  First(P.unsent).seq <= P.lastack
<1>1. First(P.unsent) \in P.unsent /\ \A t \in P.unsent : First(P.unsent).seq <= t.seq
  BY FirstFacts DEF Lists
<1>2. P.unsent \subseteq Segment /\ Linked(P.unsent, P.lastack)
  BY DEF Lists, SegQueue, Queued
<1> DEFINE f == First(P.unsent)
<1> HIDE DEF f
<1>3. \A t \in P.unsent : t.seq \in Nat
  BY <1>2, SegFacts
<1>4. f \in P.unsent /\ \A t \in P.unsent : f.seq <= t.seq
  BY <1>1 DEF f
<1>5. \A t \in P.unsent : ~(t.seq < f.seq)
  BY <1>3, <1>4
<1>6. f.seq <= P.lastack
  BY <1>2, <1>4, <1>5 DEF Linked
<1> QED
  BY <1>6 DEF f

\* If tcp_output sends nothing of a queue, with nothing in flight, then it is
\* the window of the peer that is too small.
LEMMA PeerIsTheLimit ==
  ASSUME NEW P \in PcbType, NEW w, Lists(P, w), P.snd_wnd <= MaxWnd,
         P.unsent # {}, P.unacked = {}, Sendable(P) = {}
  PROVE  Wnd(P) = P.snd_wnd
<1> SUFFICES ASSUME Wnd(P) # P.snd_wnd PROVE FALSE
  OBVIOUS
<1> DEFINE f == First(P.unsent)
<1>1. f \in P.unsent /\ \A t \in P.unsent : f.seq <= t.seq
  BY FirstFacts DEF Lists
<1>2. f.seq <= P.lastack
  BY FirstIsDue, PcbFacts
<1> HIDE DEF f
<1>3. f \in Segment /\ P.unsent \subseteq Segment /\ f.len <= MSS /\ Sorted(P.unsent)
  BY <1>1 DEF Lists, SegQueue, Queued, Part, Sorted
<1>4. \A t \in P.unsent : t.seq \in Nat /\ t.len \in Nat
  BY <1>3, SegFacts
<1>5. \A t \in P.unsent : t.seq <= f.seq => t = f
  BY <1>1, <1>3, <1>4 DEF Sorted
<1>6. /\ MSS \in Nat /\ MaxWnd \in Nat /\ P.cwnd \in Nat /\ P.snd_wnd \in Nat
      /\ P.lastack \in Nat /\ P.cwnd >= Cut(MSS) /\ P.cwnd <= MaxWnd
  BY PcbFacts, SendAssumption
<1>7. Wnd(P) = P.cwnd /\ P.cwnd < P.snd_wnd
  BY <1>6 DEF Wnd, Lesser
<1>8. P.cwnd >= MSS
  BY <1>6, <1>7 DEF Cut, Lesser
<1>9. Fits(P, f)
  BY <1>1, <1>2, <1>3, <1>4, <1>6, <1>7, <1>8 DEF Fits
<1>10. f \in Sendable(P)
  BY <1>1, <1>5, <1>9 DEF Sendable
<1> QED
  BY <1>10

\* What tcp_output leaves alone.
SamePcb(O, P) ==
  /\ Queued(O) = Queued(P)
  /\ O.state = P.state /\ O.lastack = P.lastack /\ O.snd_wnd = P.snd_wnd
  /\ O.snd_buf = P.snd_buf /\ O.closepend = P.closepend

OutputGood(P, w) ==
  /\ PcbInv(Output(P), w)
  /\ WireInv(OutputWire(P), Output(P), w, Edge(P))
  /\ Output(P).snd_nxt >= P.snd_nxt
  /\ SamePcb(Output(P), P)

LEMMA OutputOfNothing ==
  ASSUME NEW w \in Nat, NEW P, NEW S, PreOutput(P, w, S), P.unsent = {}
  PROVE  OutputGood(P, w)
<1>1. Output(P) = P /\ Sendable(P) = {} /\ OutputWire(P) = {} /\ S = {}
  BY DEF Output, Sendable, OutputWire, Wire, PreOutput
<1>2. P.snd_nxt \in Nat
  BY PcbFacts DEF PreOutput
<1>3. PcbInv(P, w)
  BY <1>1 DEF PreOutput, PcbInv
<1> QED
  BY <1>1, <1>2, <1>3 DEF OutputGood, SamePcb, WireInv

\* The persist timer starts when the window of the peer is what holds the
\* segments back, and then no other timer is needed.
LEMMA OutputHeldBack ==
  ASSUME NEW w \in Nat, NEW P, NEW S, PreOutput(P, w, S), P.unsent # {}, Sendable(P) = {}
  PROVE  OutputGood(P, w)
<1> DEFINE O == StartPersist(P)
<1>1. Output(P) = O /\ OutputWire(P) = {} /\ S = {}
  BY DEF Output, OutputWire, Wire, PreOutput
<1>2. P \in PcbType /\ P.snd_nxt \in Nat /\ P.snd_wnd <= MaxWnd /\ Lists(P, w)
  BY PcbFacts DEF PreOutput, Windows
<1>3. P.unacked = {} => Wnd(P) = P.snd_wnd
  BY <1>2, PeerIsTheLimit
<1>4. /\ O.unsent = P.unsent /\ O.unacked = P.unacked /\ O.state = P.state
      /\ O.lastack = P.lastack /\ O.snd_nxt = P.snd_nxt /\ O.snd_lbb = P.snd_lbb
      /\ O.snd_buf = P.snd_buf /\ O.snd_queuelen = P.snd_queuelen /\ O.snd_wnd = P.snd_wnd
      /\ O.snd_wl2 = P.snd_wl2 /\ O.rtime = P.rtime /\ O.closepend = P.closepend
      /\ O.cwnd = P.cwnd
      /\ O \in PcbType
  BY <1>2 DEF StartPersist, PcbType
<1>5. P.unacked # {} => O = P
  BY DEF StartPersist
<1>6. P.unacked = {} => O.persist
  BY <1>2, <1>3 DEF StartPersist, PcbType
<1> HIDE DEF O
<1>7. Queued(O) = Queued(P) /\ Edge(O) = Edge(P)
  BY <1>4 DEF Queued, Edge
<1>8. /\ Lists(O, w) /\ FinKept(O, w) /\ Counted(O) /\ Windows(O, w) /\ Closing(O, w)
  BY <1>4, <1>7 DEF PreOutput, Lists, FinKept, Counted, Windows, Closing
<1>9. Before(O, {}) /\ Ends(O.unsent \ {}, w)
  BY <1>1, <1>4 DEF PreOutput, Before
<1>10. O.unacked # {} => O.rtime /\ ~O.persist
  BY <1>4, <1>5 DEF PreOutput
<1>11. O.rtime \/ O.persist
  BY <1>4, <1>6, <1>10
<1>12. PcbInv(O, w)
  BY <1>4, <1>8, <1>9, <1>10, <1>11 DEF PcbInv, PreOutput
<1> QED
  BY <1>1, <1>2, <1>4, <1>7, <1>12 DEF OutputGood, SamePcb, WireInv

LEMMA OutputSends ==
  ASSUME NEW w \in Nat, NEW P, NEW S, PreOutput(P, w, S), Sendable(P) # {}
  PROVE  OutputGood(P, w)
<1> DEFINE U == P.unsent
           A == P.unacked
           out == Sendable(P)
           m == Max({End(s) : s \in out})
           O == [P EXCEPT !.persist = FALSE, !.rtime = TRUE, !.unsent = U \ out,
                          !.unacked = A \cup out, !.snd_nxt = Greater(P.snd_nxt, m)]
<1>1. P \in PcbType /\ Lists(P, w) /\ Windows(P, w) /\ Before(P, S) /\ S \subseteq out
  BY DEF PreOutput
<1>2. /\ out \subseteq U /\ U # {}
      /\ \A s \in out : Fits(P, s)
      /\ \A s \in out, t \in U : t.seq <= s.seq => t \in out
  <2>1. out \subseteq U /\ U # {}
    BY DEF Sendable
  <2>2. U \subseteq Segment
    BY <1>1 DEF Lists, SegQueue
  <2>3. \A s \in U : s.seq \in Nat
    BY <2>2, SegFacts
  <2>4. \A s \in out : Fits(P, s)
    BY <2>3 DEF Sendable
  <2>5. ASSUME NEW s \in out, NEW t \in U, t.seq <= s.seq PROVE t \in out
    <3>1. \A r \in U : r.seq <= t.seq => r.seq <= s.seq
      BY <2>1, <2>3, <2>5
    <3> QED
      BY <3>1 DEF Sendable
  <2> QED
    BY <2>1, <2>4, <2>5
<1>3. Output(P) = O
  BY <1>2 DEF Output
<1>4. /\ U \subseteq Segment /\ A \subseteq Segment /\ U \cap A = {} /\ SegQueue(U) /\ SegQueue(A)
      /\ SegQueue(out) /\ out # {}
  BY <1>1, <1>2, SubQueue DEF Lists, SegQueue
<1>5. /\ m \in Nat /\ (\A s \in out : End(s) <= m) /\ \E s \in out : m = End(s)
  <2> HIDE DEF out
  <2> QED
    BY <1>4, MaxEnd
<1> HIDE DEF m
<1>6. /\ P.lastack \in Nat /\ P.snd_nxt \in Nat /\ P.snd_wnd \in Nat /\ P.cwnd \in Nat /\ Edge(P) \in Nat
  BY <1>1, PcbFacts
<1>7. Greater(P.snd_nxt, m) \in Nat /\ Greater(P.snd_nxt, m) >= P.snd_nxt
      /\ Greater(P.snd_nxt, m) >= m /\ Greater(P.snd_nxt, m) \in {P.snd_nxt, m}
  BY <1>5, <1>6 DEF Greater
<1>8. /\ O.unsent = U \ out /\ O.unacked = A \cup out /\ O.state = P.state
      /\ O.lastack = P.lastack /\ O.snd_nxt = Greater(P.snd_nxt, m) /\ O.snd_lbb = P.snd_lbb
      /\ O.snd_buf = P.snd_buf /\ O.snd_queuelen = P.snd_queuelen /\ O.snd_wnd = P.snd_wnd
      /\ O.snd_wl2 = P.snd_wl2 /\ O.rtime = TRUE /\ O.closepend = P.closepend
      /\ O.persist = FALSE
  BY <1>1 DEF PcbType
<1>9. U \ out \in SUBSET Segment /\ A \cup out \in SUBSET Segment
  BY <1>4 DEF SegQueue
<1>10. O \in PcbType
  BY <1>1, <1>7, <1>9 DEF PcbType
<1> HIDE DEF O, out
<1>11. Queued(O) = Queued(P) /\ Edge(O) = Edge(P)
  BY <1>2, <1>8 DEF Queued, Edge
<1>12. \A s \in Queued(P) : /\ s.seq \in Nat /\ s.len \in Nat /\ s.seq + s.len <= w
                            /\ End(s) = s.seq + s.len + (IF s.fin THEN 1 ELSE 0) /\ End(s) \in Nat
                            /\ s.fin \in BOOLEAN
  BY <1>1, <1>4, SegFacts DEF Lists, Part, Queued
<1>13. out \subseteq Queued(P) /\ U \subseteq Queued(P)
  BY <1>2 DEF Queued
<1>14. \A s \in out : s.seq + s.len <= Edge(P)
  BY <1>2, <1>6, <1>12, <1>13 DEF Fits, Wnd, Lesser, Edge
<1>15. Lists(O, w)
  <2>1. SegQueue(U \ out)
    BY <1>4, SubQueue
  <2>2. SegQueue(A \cup out)
    BY <1>4, FS_Union DEF SegQueue
  <2>3. (U \ out) \cap (A \cup out) = {}
    BY <1>4
  <2> QED
    BY <1>1, <1>8, <1>11, <2>1, <2>2, <2>3 DEF Lists
<1>16. FinKept(O, w)
  <2> SUFFICES ASSUME O.state \in {"FIN_WAIT_1", "FIN_WAIT_2"}
               PROVE  O.snd_nxt >= w + 1 \/ \E s \in O.unsent : s.fin /\ s.seq + s.len = w
    BY DEF FinKept
  <2>1. P.snd_nxt >= w + 1 \/ \E s \in U : s.fin /\ s.seq + s.len = w
    BY <1>8 DEF PreOutput, FinKept
  <2>2. CASE P.snd_nxt >= w + 1
    BY <1>6, <1>7, <1>8, <2>2
  <2>3. CASE \E s \in U : s.fin /\ s.seq + s.len = w
    <3>1. PICK s \in U : s.fin /\ s.seq + s.len = w
      BY <2>3
    <3>2. CASE s \in out
      <4>1. End(s) = w + 1
        BY <1>12, <1>13, <3>1
      <4>2. m >= w + 1
        BY <1>5, <3>2, <4>1
      <4> QED
        BY <1>5, <1>7, <1>8, <4>2
    <3> QED
      BY <1>8, <3>1, <3>2
  <2> QED
    BY <2>1, <2>2, <2>3
<1>17. Counted(O) /\ Closing(O, w)
  BY <1>8, <1>11 DEF PreOutput, Counted, Closing
<1>18. Windows(O, w)
  <2>1. m <= w + 1
    BY <1>5, <1>12, <1>13
  <2>2. O.snd_nxt <= w + 1
    BY <1>1, <1>7, <1>8, <2>1 DEF Windows
  <2>3. \A s \in O.unacked : s.seq + s.len <= Edge(O)
    BY <1>1, <1>8, <1>11, <1>14 DEF Windows
  <2> QED
    BY <1>1, <1>8, <2>2, <2>3 DEF Windows
<1>19. Before(O, {})
  <2> SUFFICES ASSUME NEW s \in A \cup out, NEW t \in U \ out PROVE s.seq < t.seq
    BY <1>8 DEF Before
  <2>1. CASE s \in out
    <3>1. ~(t.seq <= s.seq)
      BY <1>2, <2>1
    <3> QED
      BY <1>12, <1>13, <2>1, <3>1
  <2>2. CASE s \in A
    BY <1>1, <2>2 DEF Before
  <2> QED
    BY <2>1, <2>2
<1>20. Ends(O.unsent \ {}, w)
  <2> DEFINE V == U \ S
             X == out \ S
  <2>1. V \subseteq Segment /\ Ends(V, w) /\ X \in SUBSET V
    BY <1>2, <1>4 DEF PreOutput
  <2>2. Sorted(V)
    BY <1>1 DEF Lists, Queued, Sorted
  <2>3. \A s \in V : s.seq + s.len <= w
    BY <1>12, <1>13
  <2>4. \A s \in X, t \in V : t.seq <= s.seq => t \in X
    BY <1>2
  <2>5. V \ X = O.unsent \ {}
    BY <1>1, <1>8
  <2> HIDE DEF V, X
  <2>6. Ends(V \ X, w)
    BY <2>1, <2>2, <2>3, <2>4, RestEnds
  <2> QED
    BY <2>5, <2>6
<1>21. PcbInv(O, w)
  BY <1>8, <1>10, <1>15, <1>16, <1>17, <1>18, <1>19, <1>20 DEF PcbInv, PreOutput
<1>22. WireInv(Wire(out), O, w, Edge(P))
  <2> SUFFICES ASSUME NEW s \in out
               PROVE  LET r == [seq |-> s.seq, len |-> s.len, fin |-> s.fin]
                      IN  /\ r \in [seq : Nat, len : Nat, fin : BOOLEAN]
                          /\ r.seq + r.len <= w /\ End(r) <= O.snd_nxt
                          /\ r.seq + r.len <= Edge(P)
    BY DEF Wire, WireInv
  <2>1. End([seq |-> s.seq, len |-> s.len, fin |-> s.fin]) = End(s)
    BY DEF End, TcpLen
  <2>2. End(s) <= O.snd_nxt
    BY <1>5, <1>7, <1>8, <1>12, <1>13
  <2> QED
    BY <1>12, <1>13, <1>14, <2>1, <2>2
<1> QED
  BY <1>3, <1>7, <1>8, <1>11, <1>21, <1>22 DEF OutputGood, SamePcb, OutputWire, out

LEMMA OutputKeeps ==
  ASSUME NEW w \in Nat, NEW P, NEW S, PreOutput(P, w, S)
  PROVE  OutputGood(P, w)
<1>1. CASE P.unsent = {}
  BY <1>1, OutputOfNothing
<1>2. CASE P.unsent # {} /\ Sendable(P) = {}
  BY <1>2, OutputHeldBack
<1>3. CASE Sendable(P) # {}
  BY <1>3, OutputSends
<1> QED
  BY <1>1, <1>2, <1>3

-------------------------------------------------------------------------------
(* tcp_write. *)

\* r bytes from byte b on, in segments of at most m bytes.
Pieces(b, m, r) ==
  {[seq |-> b + i * m, len |-> Lesser(m, r - i * m), fin |-> FALSE, n |-> 1] :
     i \in {j \in 0 .. r : j * m < r}}

PiecesGood(b, m, r) ==
  /\ SegQueue(Pieces(b, m, r)) /\ Sorted(Pieces(b, m, r))
  /\ \A s \in Pieces(b, m, r) : /\ s.seq >= b /\ s.len >= 1 /\ s.len <= m
                                /\ s.seq + s.len <= b + r /\ s.fin = FALSE
  /\ r > 0 => \E s \in Pieces(b, m, r) : s.seq + s.len = b + r
  /\ \A s \in Pieces(b, m, r) :
       s.seq = b \/ \E t \in Pieces(b, m, r) : t.seq < s.seq /\ t.seq + t.len = s.seq
  /\ \A x \in b .. b + r - 1 : \E s \in Pieces(b, m, r) : s.seq <= x /\ x < s.seq + s.len
  /\ Bytes(Pieces(b, m, r)) = r
  /\ PbufsOf(Pieces(b, m, r)) = Cardinality(Pieces(b, m, r))

\* The first of them, and the others.
LEMMA FirstPiece ==
  ASSUME NEW b \in Nat, NEW m \in Nat, m >= 1, NEW r \in Nat, r > 0
  PROVE  Pieces(b, m, r) =
           {[seq |-> b, len |-> Lesser(m, r), fin |-> FALSE, n |-> 1]}
           \cup Pieces(b + Lesser(m, r), m, r - Lesser(m, r))
<1> DEFINE piece(i) == [seq |-> b + i * m, len |-> Lesser(m, r - i * m), fin |-> FALSE, n |-> 1]
           l == Lesser(m, r)
           others(i) == [seq |-> (b + l) + i * m, len |-> Lesser(m, (r - l) - i * m),
                         fin |-> FALSE, n |-> 1]
           I == {j \in 0 .. r : j * m < r}
           J == {j \in 0 .. (r - l) : j * m < (r - l)}
<1>1. Pieces(b, m, r) = {piece(i) : i \in I} /\ Pieces(b + l, m, r - l) = {others(i) : i \in J}
  BY DEF Pieces
<1>2. 0 \in I /\ piece(0) = [seq |-> b, len |-> l, fin |-> FALSE, n |-> 1]
  <2>1. 0 * m = 0 /\ b + 0 * m = b /\ r - 0 * m = r
    OBVIOUS
  <2>2. piece(0) = [seq |-> b, len |-> l, fin |-> FALSE, n |-> 1]
    BY <2>1, Zenon
  <2>3. 0 \in 0 .. r /\ 0 * m < r
    BY <2>1
  <2> QED
    BY <2>2, <2>3, Zenon
<1>3. \A j \in Nat : j * m \in Nat /\ j <= j * m
  <2> TAKE j \in Nat
  <2>1. j * (m - 1) >= 0
    OBVIOUS
  <2> QED
    BY <2>1
<1>4. l \in Nat /\ l <= r /\ l <= m /\ (l = m \/ l = r)
  BY DEF Lesser
<1>5. ASSUME NEW i \in I, i # 0 PROVE l = m /\ i - 1 \in J /\ piece(i) = others(i - 1)
  <2>1. i \in Nat /\ i - 1 \in Nat /\ i * m = m + (i - 1) * m /\ i * m < r
    BY <1>5
  <2>2. (i - 1) * m \in Nat /\ i - 1 <= (i - 1) * m
    BY <1>3, <2>1
  <2>3. m < r \/ m = r
    BY <2>1, <2>2
  <2>4. l = m
    BY <2>3 DEF Lesser
  <2>5. (i - 1) * m < r - m
    BY <2>1
  <2>6. i - 1 \in J
    BY <2>1, <2>2, <2>4, <2>5
  <2>7. b + i * m = (b + m) + (i - 1) * m /\ r - i * m = (r - m) - (i - 1) * m
    BY <2>1, <2>2
  <2> QED
    BY <2>4, <2>6, <2>7
<1>6. ASSUME NEW i \in J PROVE i + 1 \in I /\ piece(i + 1) = others(i)
  <2>1. i \in Nat /\ i * m \in Nat /\ i * m < r - l /\ (i + 1) * m = i * m + m
    BY <1>3, <1>4
  <2>2. l = m
    BY <1>4, <2>1
  <2>3. (i + 1) * m < r /\ i + 1 \in Nat /\ i + 1 <= (i + 1) * m
    BY <1>3, <2>1, <2>2
  <2>4. i + 1 \in I
    BY <2>3
  <2>5. b + (i + 1) * m = (b + m) + i * m /\ r - (i + 1) * m = (r - m) - i * m
    BY <2>1
  <2> QED
    BY <2>2, <2>4, <2>5
<1> HIDE DEF I, J, piece, others
<1>7. {piece(i) : i \in I} \subseteq {piece(0)} \cup {others(i) : i \in J}
  BY <1>5
<1>8. {piece(0)} \cup {others(i) : i \in J} \subseteq {piece(i) : i \in I}
  BY <1>2, <1>6
<1> QED
  BY <1>1, <1>2, <1>7, <1>8

LEMMA NoPieces ==
  ASSUME NEW b \in Nat, NEW m \in Nat
  PROVE  PiecesGood(b, m, 0)
<1>1. Pieces(b, m, 0) = {}
  <2>1. \A j \in 0 .. 0 : ~(j * m < 0)
    OBVIOUS
  <2> QED
    BY <2>1 DEF Pieces
<1>2. SegQueue({}) /\ Cardinality({}) = 0
  BY FS_EmptySet DEF SegQueue
<1>3. Bytes({}) = 0 /\ PbufsOf({}) = 0
  BY <1>2, QueueSums
<1> QED
  BY <1>1, <1>2, <1>3 DEF PiecesGood, Sorted

LEMMA MorePieces ==
  ASSUME NEW b \in Nat, NEW m \in Nat, m >= 1, NEW r \in Nat, r > 0,
         PiecesGood(b + Lesser(m, r), m, r - Lesser(m, r))
  PROVE  PiecesGood(b, m, r)
<1> DEFINE l == Lesser(m, r)
           f == [seq |-> b, len |-> l, fin |-> FALSE, n |-> 1]
           R == Pieces(b + l, m, r - l)
           N == Pieces(b, m, r)
<1>1. N = {f} \cup R
  BY FirstPiece
<1>2. l \in Nat /\ l >= 1 /\ l <= m /\ l <= r
  BY DEF Lesser
<1>3. f \in Segment /\ f.seq = b /\ f.len = l /\ f.fin = FALSE /\ f.n = 1
  BY <1>2 DEF Segment
<1>4. /\ SegQueue(R) /\ Sorted(R)
      /\ \A s \in R : /\ s.seq >= b + l /\ s.len >= 1 /\ s.len <= m
                      /\ s.seq + s.len <= (b + l) + (r - l) /\ s.fin = FALSE
      /\ r - l > 0 => \E s \in R : s.seq + s.len = (b + l) + (r - l)
      /\ \A s \in R : s.seq = b + l \/ \E t \in R : t.seq < s.seq /\ t.seq + t.len = s.seq
      /\ \A x \in b + l .. (b + l) + (r - l) - 1 : \E s \in R : s.seq <= x /\ x < s.seq + s.len
      /\ Bytes(R) = r - l /\ PbufsOf(R) = Cardinality(R)
  BY DEF PiecesGood
<1> HIDE DEF l, f, R, N
<1>5. (b + l) + (r - l) = b + r
  BY <1>2
<1>6. \A s \in R : s.seq \in Nat /\ s.len \in Nat
  BY <1>4, SegFacts DEF SegQueue
<1>7. f \notin R
  BY <1>2, <1>3, <1>4, <1>6
<1>8. SegQueue({f}) /\ SegQueue(N) /\ Bytes(N) = Bytes({f}) + Bytes(R)
      /\ PbufsOf(N) = PbufsOf({f}) + PbufsOf(R)
  <2>1. SegQueue({f})
    BY <1>3, FS_Singleton DEF SegQueue
  <2>2. {f} \cap R = {}
    BY <1>7
  <2> QED
    BY <1>1, <1>4, <2>1, <2>2, QueueSumsUnion
<1>9. Bytes({f}) = l /\ PbufsOf({f}) = 1
  <2>1. {f} \ {f} = {} /\ f \in {f} /\ SegQueue({})
    BY FS_EmptySet DEF SegQueue
  <2>2. Bytes({f}) = f.len + Bytes({f} \ {f}) /\ PbufsOf({f}) = f.n + PbufsOf({f} \ {f})
    BY <1>8, QueueSumsRemove
  <2>3. Bytes({}) = 0 /\ PbufsOf({}) = 0
    BY <2>1, QueueSums
  <2> QED
    BY <1>2, <1>3, <2>1, <2>2, <2>3
<1>10. Bytes(N) = r
  BY <1>2, <1>4, <1>8, <1>9
<1>11. PbufsOf(N) = Cardinality(N)
  <2>1. IsFiniteSet(R) /\ Cardinality(R) \in Nat
    BY <1>4, FS_CardinalityType DEF SegQueue
  <2>2. Cardinality(R \cup {f}) = Cardinality(R) + 1
    BY <1>7, <2>1, FS_AddElement
  <2>3. R \cup {f} = N
    BY <1>1
  <2>4. Cardinality(N) = Cardinality(R) + 1
    BY <2>2, <2>3
  <2>5. PbufsOf(R) = Cardinality(R)
    BY <1>4
  <2>6. PbufsOf(N) = 1 + Cardinality(R)
    BY <1>8, <1>9, <2>5
  <2> QED
    BY <2>1, <2>4, <2>6
<1>12. Sorted(N)
  BY <1>1, <1>2, <1>3, <1>4, <1>6 DEF Sorted
<1>13. \A s \in N : /\ s.seq >= b /\ s.len >= 1 /\ s.len <= m
                    /\ s.seq + s.len <= b + r /\ s.fin = FALSE
  BY <1>1, <1>2, <1>3, <1>4, <1>5, <1>6
<1>14. \E s \in N : s.seq + s.len = b + r
  <2>1. CASE r - l > 0
    BY <1>1, <1>4, <1>5, <2>1
  <2>2. CASE ~(r - l > 0)
    BY <1>1, <1>2, <1>3, <2>2
  <2> QED
    BY <2>1, <2>2
<1>15. \A s \in N : s.seq = b \/ \E t \in N : t.seq < s.seq /\ t.seq + t.len = s.seq
  <2> TAKE s \in N
  <2>1. CASE s = f
    BY <1>3, <2>1
  <2>2. CASE s \in R /\ s.seq = b + l
    BY <1>1, <1>2, <1>3, <2>2
  <2>3. CASE s \in R /\ s.seq # b + l
    BY <1>1, <1>4, <2>3
  <2> QED
    BY <1>1, <2>1, <2>2, <2>3
<1>16. \A x \in b .. b + r - 1 : \E s \in N : s.seq <= x /\ x < s.seq + s.len
  <2> TAKE x \in b .. b + r - 1
  <2>1. CASE x < b + l
    BY <1>1, <1>2, <1>3, <2>1
  <2>2. CASE x >= b + l
    <3>1. x \in b + l .. (b + l) + (r - l) - 1
      BY <1>2, <2>2
    <3> QED
      BY <1>1, <1>4, <3>1
  <2> QED
    BY <1>2, <2>1, <2>2
<1> QED
  BY <1>8, <1>10, <1>11, <1>12, <1>13, <1>14, <1>15, <1>16 DEF PiecesGood, N

LEMMA PiecesAreGood ==
  ASSUME NEW m \in Nat, m >= 1
  PROVE  \A r \in Nat, b \in Nat : PiecesGood(b, m, r)
<1> DEFINE Bad == {r \in Nat : \E b \in Nat : ~PiecesGood(b, m, r)}
<1> SUFFICES ASSUME Bad # {} PROVE FALSE
  OBVIOUS
<1>1. PICK r \in Bad : \A q \in Bad : r <= q
  <2>1. Bad \in SUBSET Nat
    OBVIOUS
  <2> HIDE DEF Bad
  <2> QED
    BY <2>1, LeastNumber
<1>2. PICK b \in Nat : ~PiecesGood(b, m, r)
  OBVIOUS
<1>3. r # 0
  BY <1>2, NoPieces
<1> DEFINE l == Lesser(m, r)
<1>4. l \in Nat /\ l >= 1 /\ r - l \in Nat /\ r - l < r /\ b + l \in Nat
  BY <1>3 DEF Lesser
<1>5. PiecesGood(b + l, m, r - l)
  <2> HIDE DEF l
  <2>1. r - l \notin Bad
    <3> HIDE DEF Bad
    <3>1. r \in Nat
      BY DEF Bad
    <3> QED
      BY <1>1, <1>4, <3>1
  <2> QED
    BY <1>4, <2>1
<1>6. PiecesGood(b, m, r)
  BY <1>3, <1>5, MorePieces
<1> QED
  BY <1>2, <1>6

\* The last unsent segment ends where the queues end.
LEMMA LastEnds ==
  ASSUME NEW w \in Nat, NEW U, SegQueue(U), U # {}, Sorted(U),
         \A s \in U : s.seq + s.len <= w, Ends(U, w)
  PROVE  /\ Last(U) \in U /\ Last(U).seq + Last(U).len = w
         /\ \A t \in U : t.seq <= Last(U).seq
<1>1. Last(U) \in U /\ \A t \in U : t.seq <= Last(U).seq
  BY LastFacts
<1> DEFINE L == Last(U)
<1>2. L \in U /\ \A t \in U : t.seq <= L.seq
  BY <1>1
<1> HIDE DEF L
<1>3. \A s \in U : s.seq \in Nat /\ s.len \in Nat
  BY SegFacts DEF SegQueue
<1>4. PICK s \in U : s.seq + s.len = w
  BY DEF Ends
<1>5. s # L => s.seq < L.seq /\ s.seq + s.len <= L.seq
  BY <1>2, <1>3 DEF Sorted
<1>6. L.seq + L.len <= w
  BY <1>2
<1>7. L.seq + L.len = w
  BY <1>2, <1>3, <1>4, <1>5, <1>6
<1> QED
  BY <1>1, <1>7 DEF L

Growable(U, A, ack, w, c) ==
  /\ SegQueue(U) /\ SegQueue(A) /\ U \cap A = {} /\ Sorted(U \cup A)
  /\ \A s \in U \cup A : s.seq + s.len <= w
  /\ Ends(U, w) /\ Linked(U \cup A, ack) /\ Covered(U \cup A, ack, w)
  /\ \A s \in A, t \in U : s.seq < t.seq
  /\ c > 0 => \A s \in U \cup A : s.len > 0

Grown(E, U, A, ack, w, c, M) ==
  /\ SegQueue(E) /\ E \cap A = {} /\ Sorted(E \cup A)
  /\ \A s \in E \cup A : s.seq + s.len <= w
  /\ Ends(E, w) /\ Linked(E \cup A, ack) /\ Covered(E \cup A, ack, w)
  /\ \A s \in A, t \in E : s.seq < t.seq
  /\ Bytes(E \cup A) = Bytes(U \cup A) + c
  /\ PbufsOf(E \cup A) + Last(U).n = PbufsOf(U \cup A) + M.n
  /\ M.seq + M.len = w

\* Bytes or a FIN go into the last unsent segment: it becomes M.
LEMMA LastChanged ==
  ASSUME NEW w \in Nat, NEW ack \in Nat, NEW U, NEW A, NEW c \in Nat, NEW M \in Segment,
         U # {}, Growable(U, A, ack, w, c), M.seq = Last(U).seq, M.len = Last(U).len + c
  PROVE  Grown((U \ {Last(U)}) \cup {M}, U, A, ack, w + c, c, M)
<1> USE DEF Growable, Grown
<1> DEFINE L == Last(U)
           E == (U \ {L}) \cup {M}
           Q == U \cup A
           K == E \cup A
<1>1. L \in U /\ L.seq + L.len = w /\ \A t \in U : t.seq <= L.seq
  <2>1. Sorted(U) /\ \A s \in U : s.seq + s.len <= w
    BY DEF Sorted
  <2> QED
    BY <2>1, LastEnds
<1>2. M.seq = L.seq /\ M.len = L.len + c
  OBVIOUS
<1> HIDE DEF L
<1>3. SegQueue(Q)
  BY QueueSumsUnion
<1>4. \A s \in Q : s.seq \in Nat /\ s.len \in Nat /\ s.seq + s.len <= w /\ s.n \in Nat
  BY <1>3, SegFacts DEF SegQueue
<1>5. M.n \in Nat /\ M.seq \in Nat /\ M.len \in Nat
  BY SegFacts
<1>6. \A s \in Q : s # L => /\ s.seq # M.seq /\ (s.seq < M.seq => s.seq + s.len <= M.seq)
                            /\ (M.seq < s.seq => M.seq + M.len <= s.seq)
  <2> TAKE s \in Q
  <2> HAVE s # L
  <2>1. /\ s.seq # L.seq /\ (s.seq < L.seq => s.seq + s.len <= L.seq)
        /\ (L.seq < s.seq => L.seq + L.len <= s.seq)
    BY <1>1 DEF Sorted
  <2>2. ASSUME M.seq < s.seq PROVE M.seq + M.len <= s.seq
    <3>1. w <= s.seq
      BY <1>1, <1>2, <2>1, <2>2
    <3>2. c = 0
      BY <1>4, <3>1
    <3> QED
      BY <1>1, <1>2, <1>4, <3>1, <3>2
  <2> QED
    BY <1>2, <2>1, <2>2
<1>7. K = (Q \ {L}) \cup {M} /\ M \notin Q \ {L} /\ L \in Q
  <2>1. L \notin A
    BY <1>1
  <2> QED
    BY <1>1, <1>6, <2>1
<1>8. SegQueue(E)
  <2>1. IsFiniteSet(U \ {L})
    BY FS_Subset DEF SegQueue
  <2> QED
    BY <2>1, FS_AddElement DEF SegQueue
<1>9. E \cap A = {}
  BY <1>1, <1>6
<1> HIDE DEF Q, K
<1>10. Sorted(K)
  <2>1. Sorted(Q)
    BY DEF Q
  <2> SUFFICES ASSUME NEW s \in K, NEW t \in K, s # t
               PROVE  s.seq # t.seq /\ (s.seq < t.seq => s.seq + s.len <= t.seq)
    BY DEF Sorted
  <2>2. CASE s = M
    <3>1. t \in Q /\ t # L
      BY <1>7, <2>2
    <3> QED
      BY <1>6, <2>2, <3>1
  <2>3. CASE t = M
    <3>1. s \in Q /\ s # L
      BY <1>7, <2>3
    <3> QED
      BY <1>6, <2>3, <3>1
  <2>4. CASE s # M /\ t # M
    <3>1. s \in Q /\ t \in Q
      BY <1>7, <2>4
    <3> QED
      BY <2>1, <3>1 DEF Sorted
  <2> QED
    BY <2>2, <2>3, <2>4
<1>11. \A s \in K : s.seq + s.len <= w + c
  BY <1>1, <1>2, <1>4, <1>7, <1>5
<1>12. M.seq + M.len = w + c /\ Ends(E, w + c)
  <2>1. M.seq + M.len = w + c
    BY <1>1, <1>2, <1>4, <1>7
  <2> QED
    BY <2>1 DEF Ends
<1>13. Linked(K, ack)
  <2>1. Linked(Q, ack)
    BY DEF Q
  <2> SUFFICES ASSUME NEW s \in K, ~(s.seq <= ack)
               PROVE  \E t \in K : t.seq < s.seq /\ t.seq + t.len = s.seq
    BY DEF Linked
  <2>2. CASE s = M
    <3>1. PICK t \in Q : t.seq < L.seq /\ t.seq + t.len = L.seq
      BY <1>2, <1>7, <2>1, <2>2 DEF Linked
    <3>2. t # L
      BY <1>4, <1>7, <3>1
    <3> QED
      BY <1>2, <1>7, <2>2, <3>1, <3>2
  <2>3. CASE s # M
    <3>1. s \in Q /\ s # L
      BY <1>7, <2>3
    <3>2. PICK t \in Q : t.seq < s.seq /\ t.seq + t.len = s.seq
      BY <2>1, <3>1 DEF Linked
    <3>3. CASE t = L
      <4>1. s.seq = w /\ s.len = 0
        BY <1>1, <1>4, <3>1, <3>2, <3>3
      <4>2. c = 0
        BY <3>1, <4>1 DEF Q
      <4>3. M.seq < s.seq /\ M.seq + M.len = s.seq
        BY <1>2, <1>4, <1>7, <3>2, <3>3, <4>2
      <4> QED
        BY <1>7, <4>3
    <3> QED
      BY <1>7, <3>2, <3>3
  <2> QED
    BY <2>2, <2>3
<1>14. Covered(K, ack, w + c)
  <2>1. Covered(Q, ack, w)
    BY DEF Q
  <2> SUFFICES ASSUME NEW b \in ack .. w + c - 1
               PROVE  \E s \in K : s.seq <= b /\ b < s.seq + s.len
    BY DEF Covered
  <2>2. CASE b < w
    <3>1. PICK s \in Q : s.seq <= b /\ b < s.seq + s.len
      BY <2>1, <2>2 DEF Covered
    <3>2. CASE s = L
      <4>1. M.seq <= b /\ b < M.seq + M.len
        BY <1>1, <1>2, <1>4, <1>7, <1>12, <3>1, <3>2
      <4> QED
        BY <1>7, <4>1
    <3> QED
      BY <1>7, <3>1, <3>2
  <2>3. CASE b >= w
    <3>1. M.seq <= b /\ b < M.seq + M.len
      BY <1>1, <1>2, <1>4, <1>7, <1>12, <2>3
    <3> QED
      BY <1>7, <3>1
  <2> QED
    BY <2>2, <2>3
<1>15. \A s \in A, t \in E : s.seq < t.seq
  BY <1>1, <1>2
<1>16. Bytes(K) = Bytes(Q) + c /\ PbufsOf(K) + L.n = PbufsOf(Q) + M.n
  <2>1. SegQueue(K)
    BY <1>8, QueueSumsUnion, <1>9 DEF K
  <2>2. K \ {M} = Q \ {L} /\ M \in K
    BY <1>7
  <2>3. SegQueue(Q \ {L}) /\ Bytes(Q) = L.len + Bytes(Q \ {L}) /\ PbufsOf(Q) = L.n + PbufsOf(Q \ {L})
    BY <1>3, <1>7, QueueSumsRemove
  <2>4. Bytes(K) = M.len + Bytes(K \ {M}) /\ PbufsOf(K) = M.n + PbufsOf(K \ {M})
    BY <2>1, <2>2, QueueSumsRemove
  <2>5. Bytes(Q \ {L}) \in Nat /\ PbufsOf(Q \ {L}) \in Nat /\ L.n \in Nat /\ L.len \in Nat
    BY <1>4, <1>7, <2>3, QueueSums
  <2>6. Bytes(K) = M.len + Bytes(Q \ {L}) /\ PbufsOf(K) = M.n + PbufsOf(Q \ {L})
    BY <2>2, <2>4
  <2> HIDE DEF E
  <2>7. Bytes(K) = Bytes(Q) + c
    BY <1>2, <2>3, <2>5, <2>6
  <2>8. PbufsOf(K) + L.n = PbufsOf(Q) + M.n
    BY <1>5, <2>3, <2>5, <2>6
  <2> QED
    BY <2>7, <2>8
<1>17. E = (U \ {Last(U)}) \cup {M} /\ K = E \cup A /\ Q = U \cup A /\ L = Last(U)
  BY DEF L, K, Q
<1> HIDE DEF E
<1> QED
  BY <1>8, <1>9, <1>10, <1>11, <1>12, <1>13, <1>14, <1>15, <1>16, <1>17

\* Before the FIN every segment holds bytes.
LEMMA NoFinYet ==
  ASSUME NEW w \in Nat, NEW P, Lists(P, w), P.state = "ESTABLISHED"
  PROVE  \A s \in Queued(P) : s.len > 0 /\ s.fin = FALSE
<1> TAKE s \in Queued(P)
<1>1. s \in Segment /\ Part(s, P.state, w)
  BY DEF Lists, Queued, SegQueue
<1>2. s.len \in Nat /\ s.fin \in BOOLEAN
  BY <1>1, SegFacts
<1> QED
  BY <1>1, <1>2 DEF Part

LEMMA LocalMss ==
  ASSUME NEW P \in PcbType
  PROVE  MssLocal(P) \in Nat /\ MssLocal(P) >= 1 /\ MssLocal(P) <= MSS
<1>1. MSS \in Nat /\ MSS >= 1 /\ P.snd_wnd_max \in Nat
  BY SendAssumption, PcbFacts
<1>2. P.snd_wnd_max \div 2 \in Nat
  BY <1>1
<1> QED
  BY <1>1, <1>2 DEF MssLocal, Lesser

LEMMA ConcatFacts ==
  ASSUME NEW P \in PcbType, NEW w, Lists(P, w), NEW k \in Nat, WriteAsserts(P)
  PROVE  /\ Concat(P, k) \in Nat /\ Concat(P, k) <= k
         /\ Concat(P, k) > 0 => /\ P.unsent # {}
                                /\ Last(P.unsent).len + Concat(P, k) <= MSS
<1>1. CASE P.unsent # {} /\ Last(P.unsent).len > 0
  <2>1. Last(P.unsent) \in P.unsent
    BY <1>1, LastFacts DEF Lists
  <2>2. Last(P.unsent).len \in Nat
    BY <2>1, SegFacts DEF Lists, SegQueue
  <2>3. Last(P.unsent).len <= MssLocal(P)
    BY <1>1 DEF WriteAsserts
  <2>4. Concat(P, k) = Lesser(MssLocal(P) - Last(P.unsent).len, k)
    BY <1>1 DEF Concat
  <2>5. MssLocal(P) \in Nat /\ MssLocal(P) <= MSS /\ MSS \in Nat
    BY LocalMss, SendAssumption
  <2> QED
    BY <1>1, <2>2, <2>3, <2>4, <2>5 DEF Lesser
<1>2. CASE ~(P.unsent # {} /\ Last(P.unsent).len > 0)
  BY <1>2 DEF Concat
<1> QED
  BY <1>1, <1>2

\* The queues with c bytes more in the last unsent segment.
Longer(E, P, w, c) ==
  /\ SegQueue(E) /\ E \cap P.unacked = {} /\ Sorted(E \cup P.unacked)
  /\ \A s \in E \cup P.unacked :
       s.len <= MSS /\ s.len > 0 /\ s.fin = FALSE /\ s.seq + s.len <= w + c
  /\ Ends(E, w + c) /\ Linked(E \cup P.unacked, P.lastack)
  /\ Covered(E \cup P.unacked, P.lastack, w + c)
  /\ \A s \in P.unacked, t \in E : s.seq < t.seq
  /\ Bytes(E \cup P.unacked) = Bytes(Queued(P)) + c
  /\ PbufsOf(E \cup P.unacked) = PbufsOf(Queued(P)) + IF c > 0 THEN 1 ELSE 0
  /\ c > 0 => E # {}

LEMMA WriteExtends ==
  ASSUME NEW w \in Nat, NEW P, PcbInv(P, w), P.state = "ESTABLISHED",
         NEW k \in Nat, WriteAsserts(P)
  PROVE  Longer(Extended(P.unsent, Concat(P, k)), P, w, Concat(P, k))
<1> DEFINE U == P.unsent
           A == P.unacked
           c == Concat(P, k)
<1> SUFFICES Longer(Extended(U, c), P, w, c)
  OBVIOUS
<1>1. P \in PcbType /\ Lists(P, w) /\ Before(P, {}) /\ Ends(U, w)
  BY DEF PcbInv, PreOutput
<1>2. \A s \in Queued(P) : s.len > 0 /\ s.fin = FALSE
  BY <1>1, NoFinYet
<1>3. c \in Nat /\ c <= k /\ (c > 0 => U # {} /\ Last(U).len + c <= MSS)
  BY <1>1, ConcatFacts
<1> HIDE DEF c
<1>4. /\ SegQueue(U) /\ SegQueue(A) /\ U \cap A = {} /\ Queued(P) = U \cup A
      /\ Sorted(U \cup A) /\ \A s \in U \cup A : s.len <= MSS /\ s.seq + s.len <= w
      /\ Linked(U \cup A, P.lastack) /\ Covered(U \cup A, P.lastack, w)
      /\ \A s \in A, t \in U : s.seq < t.seq
  BY <1>1 DEF Lists, Queued, Part, Before
<1>5. CASE c = 0
  <2>1. Extended(U, c) = U
    BY <1>5 DEF Extended
  <2>2. PbufsOf(U \cup A) \in Nat /\ Bytes(U \cup A) \in Nat
    BY <1>4, QueueSumsUnion, QueueSums
  <2>3. w + c = w /\ ~(c > 0)
    BY <1>5
  <2>4. PbufsOf(U \cup A) = PbufsOf(U \cup A) + IF c > 0 THEN 1 ELSE 0
    BY <2>2, <2>3
  <2>5. Bytes(U \cup A) = Bytes(U \cup A) + c
    BY <1>5, <2>2
  <2> QED
    BY <1>1, <1>2, <1>4, <2>1, <2>3, <2>4, <2>5 DEF Longer
<1>6. CASE c # 0
  <2> DEFINE L == Last(U)
             M == [L EXCEPT !.len = L.len + c, !.n = L.n + 1]
             E == (U \ {L}) \cup {M}
  <2>1. U # {} /\ L \in U /\ L \in Segment /\ L.len + c <= MSS
    BY <1>3, <1>4, <1>6, LastFacts DEF SegQueue
  <2>2. M \in Segment /\ M.seq = L.seq /\ M.len = L.len + c /\ M.n = L.n + 1 /\ M.fin = L.fin
    <3>1. L.len + c \in Nat /\ L.n + 1 \in Nat \ {0}
      BY <1>3, <2>1, SegFacts
    <3> HIDE DEF L
    <3> QED
      BY <2>1, <3>1 DEF Segment
  <2>3. P.lastack \in Nat
    BY <1>1, PcbFacts
  <2>4. Extended(U, c) = E
    BY <1>6 DEF Extended
  <2> HIDE DEF M
  <2>5. Growable(U, A, P.lastack, w, c)
    BY <1>1, <1>2, <1>4 DEF Growable
  <2>6. /\ SegQueue(E) /\ E \cap A = {} /\ Sorted(E \cup A)
        /\ \A s \in E \cup A : s.seq + s.len <= w + c
        /\ Ends(E, w + c) /\ Linked(E \cup A, P.lastack) /\ Covered(E \cup A, P.lastack, w + c)
        /\ \A s \in A, t \in E : s.seq < t.seq
        /\ Bytes(E \cup A) = Bytes(U \cup A) + c
        /\ PbufsOf(E \cup A) + Last(U).n = PbufsOf(U \cup A) + M.n
    <3>1. Grown((U \ {Last(U)}) \cup {M}, U, A, P.lastack, w + c, c, M)
      BY <1>3, <2>1, <2>2, <2>3, <2>5, LastChanged
    <3> QED
      BY <3>1 DEF Grown
  <2>7. SegQueue(E \cup A) /\ SegQueue(U \cup A)
    BY <1>4, <2>6, QueueSumsUnion
  <2>8. PbufsOf(E \cup A) = PbufsOf(U \cup A) + 1
    <3>1. PbufsOf(E \cup A) \in Nat /\ PbufsOf(U \cup A) \in Nat
      BY <2>7, QueueSums
    <3>2. L.n \in Nat
      BY <2>1, SegFacts
    <3> HIDE DEF E, L
    <3> QED
      BY <2>2, <2>6, <3>1, <3>2 DEF L
  <2>9. \A s \in E \cup A : s.len <= MSS /\ s.len > 0 /\ s.fin = FALSE
    <3>1. M.len <= MSS /\ M.len > 0 /\ M.fin = FALSE
      <4>1. L.len > 0 /\ L.fin = FALSE /\ L.len \in Nat
        BY <1>2, <1>4, <2>1, SegFacts
      <4> QED
        BY <1>3, <2>1, <2>2, <4>1
    <3> QED
      BY <1>2, <1>4, <3>1
  <2>10. c > 0 /\ E # {}
    BY <1>3, <1>6
  <2> HIDE DEF E
  <2> QED
    BY <1>4, <2>4, <2>6, <2>8, <2>9, <2>10 DEF Longer
<1> QED
  BY <1>5, <1>6

\* poll_write took k bytes.
LEMMA WriteKeeps ==
  ASSUME NEW w \in Nat, NEW P, PcbInv(P, w), P.state = "ESTABLISHED", ~P.closepend,
         NEW k \in Nat, k <= P.snd_buf, k > 0, WriteAsserts(P)
  PROVE  PreOutput(Write(P, k), w + k, {}) /\ Edge(Write(P, k)) = Edge(P)
<1> DEFINE U == P.unsent
           A == P.unacked
           c == Concat(P, k)
           E == Extended(U, c)
           m == MssLocal(P)
           b == w + c
           N == Pieces(b, m, k - c)
           W == Write(P, k)
           V == E \cup N
<1>1. P \in PcbType /\ Lists(P, w) /\ Counted(P) /\ Windows(P, w) /\ Closing(P, w)
  BY DEF PcbInv, PreOutput
<1>2. Longer(E, P, w, c)
  BY WriteExtends
<1>3. m \in Nat /\ m >= 1 /\ m <= MSS /\ MSS \in Nat
  BY <1>1, LocalMss, SendAssumption
<1>4. c \in Nat /\ c <= k /\ k - c \in Nat /\ b \in Nat
  BY <1>1, ConcatFacts
<1>5. PiecesGood(b, m, k - c)
  BY <1>3, <1>4, PiecesAreGood
<1>6. P.snd_lbb = w
  BY <1>1 DEF Closing
<1>7. NewSegs(P, k) = N
  BY <1>6, Zenon DEF NewSegs, Pieces
<1>8. Pbufs(P, k) = PbufsOf(N) + IF c > 0 THEN 1 ELSE 0
  BY <1>5, <1>7, Zenon DEF Pbufs, PiecesGood
<1>9. SegQueue(N) /\ SegQueue(E \cup A) /\ SegQueue(A) /\ SegQueue(E) /\ SegQueue(Queued(P))
  BY <1>1, <1>2, <1>5, QueueSumsUnion DEF Lists, Longer, PiecesGood, Queued
<1>10. /\ PbufsOf(N) \in Nat /\ PbufsOf(E \cup A) \in Nat /\ PbufsOf(Queued(P)) \in Nat
       /\ Bytes(N) \in Nat /\ Bytes(E \cup A) \in Nat /\ Bytes(Queued(P)) \in Nat
  BY <1>9, QueueSums
<1>11. /\ P.lastack \in Nat /\ P.snd_nxt \in Nat /\ P.snd_buf \in 0 .. SndBuf /\ SndBuf \in Nat
       /\ P.snd_queuelen \in Nat /\ P.snd_lbb \in Nat
  BY <1>1, PcbFacts, SendAssumption
<1>12. E \cup N \in SUBSET Segment /\ A \in SUBSET Segment
  BY <1>9 DEF SegQueue
<1>13. /\ P.snd_buf - k \in 0 .. SndBuf /\ P.snd_lbb + k = w + k /\ P.snd_lbb + k \in Nat
       /\ P.snd_queuelen + Pbufs(P, k) \in Nat
  BY <1>4, <1>6, <1>8, <1>10, <1>11
<1> HIDE DEF E, N, c, m, b
<1>14. /\ W.unsent = V /\ W.unacked = A /\ W.state = "ESTABLISHED"
       /\ W.lastack = P.lastack /\ W.snd_nxt = P.snd_nxt /\ W.snd_lbb = w + k
       /\ W.snd_buf = P.snd_buf - k /\ W.snd_queuelen = P.snd_queuelen + Pbufs(P, k)
       /\ W.snd_wnd = P.snd_wnd /\ W.snd_wl2 = P.snd_wl2 /\ W.rtime = P.rtime
       /\ W.closepend = P.closepend /\ W.persist = P.persist
  BY <1>1, <1>7, <1>13 DEF Write, PcbType, E, c
<1>15. W \in PcbType
  <2>1. W = [P EXCEPT !.unsent = V, !.snd_lbb = P.snd_lbb + k, !.snd_buf = P.snd_buf - k,
                      !.snd_queuelen = P.snd_queuelen + Pbufs(P, k)]
    BY <1>1, <1>7 DEF Write, PcbType, E, c
  <2> QED
    BY <1>1, <1>12, <1>13, <2>1, ZenonT(30) DEF PcbType
<1>16. Queued(W) = (E \cup A) \cup N
  BY <1>14 DEF Queued
<1>17. \A s \in E \cup A : /\ s.seq \in Nat /\ s.len \in Nat /\ s.len > 0 /\ s.len <= MSS
                           /\ s.fin = FALSE /\ s.seq + s.len <= b
  BY <1>2, <1>9, SegFacts DEF Longer, SegQueue, b
<1>18. \A s \in N : /\ s.seq \in Nat /\ s.len \in Nat /\ s.len > 0 /\ s.len <= MSS
                    /\ s.fin = FALSE /\ s.seq >= b /\ s.seq + s.len <= w + k
  <2>1. \A s \in N : /\ s.seq \in Nat /\ s.len \in Nat
    BY <1>9, SegFacts DEF SegQueue
  <2>2. \A s \in N : /\ s.seq >= b /\ s.len >= 1 /\ s.len <= m
                     /\ s.seq + s.len <= b + (k - c) /\ s.fin = FALSE
    BY <1>5 DEF PiecesGood, N
  <2>3. b + (k - c) = w + k
    BY <1>4 DEF b
  <2> QED
    BY <1>3, <2>1, <2>2, <2>3
<1>19. (E \cup A) \cap N = {} /\ V \cap A = {}
  <2>1. \A s \in E \cup A : s \notin N
    BY <1>4, <1>17, <1>18
  <2>2. E \cap A = {}
    BY <1>2 DEF Longer
  <2> QED
    BY <2>1, <2>2
<1>20. /\ SegQueue(Queued(W)) /\ Bytes(Queued(W)) = Bytes(E \cup A) + Bytes(N)
       /\ PbufsOf(Queued(W)) = PbufsOf(E \cup A) + PbufsOf(N)
  BY <1>9, <1>16, <1>19, QueueSumsUnion
<1>21. SegQueue(V)
  <2>1. V \in SUBSET Queued(W)
    BY <1>14 DEF Queued
  <2> QED
    BY <1>20, <2>1, SubQueue
<1> HIDE DEF W, V
<1>22. Counted(W)
  <2>1. Bytes(N) = k - c
    BY <1>5 DEF PiecesGood, N
  <2>2. Bytes(E \cup A) = Bytes(Queued(P)) + c
    BY <1>2 DEF Longer
  <2>3. PbufsOf(E \cup A) = PbufsOf(Queued(P)) + IF c > 0 THEN 1 ELSE 0
    BY <1>2 DEF Longer
  <2>4. P.snd_queuelen = PbufsOf(Queued(P)) /\ P.snd_buf = SndBuf - Bytes(Queued(P))
    BY <1>1 DEF Counted
  <2>5. Bytes(Queued(W)) = Bytes(Queued(P)) + k
    BY <1>4, <1>10, <1>20, <2>1, <2>2
  <2>6. W.snd_queuelen = PbufsOf(Queued(W))
    BY <1>4, <1>8, <1>10, <1>14, <1>20, <2>3, <2>4
  <2> QED
    BY <1>10, <1>11, <1>14, <2>4, <2>5, <2>6 DEF Counted
<1>23. Sorted(Queued(W))
  <2>1. Sorted(E \cup A) /\ Sorted(N)
    BY <1>2, <1>5 DEF Longer, PiecesGood, N
  <2> SUFFICES ASSUME NEW s \in (E \cup A) \cup N, NEW t \in (E \cup A) \cup N, s # t
               PROVE  s.seq # t.seq /\ (s.seq < t.seq => s.seq + s.len <= t.seq)
    BY <1>16 DEF Sorted
  <2>2. CASE s \in E \cup A /\ t \in E \cup A
    BY <2>1, <2>2 DEF Sorted
  <2>3. CASE s \in N /\ t \in N
    BY <2>1, <2>3 DEF Sorted
  <2>4. CASE s \in E \cup A /\ t \in N
    BY <1>4, <1>17, <1>18, <2>4
  <2>5. CASE t \in E \cup A /\ s \in N
    BY <1>4, <1>17, <1>18, <2>5
  <2> QED
    BY <2>2, <2>3, <2>4, <2>5
<1>24. \A s \in Queued(W) : Part(s, W.state, w + k)
  BY <1>4, <1>14, <1>16, <1>17, <1>18 DEF Part, b
<1>25. Ends(V, w + k)
  <2>1. CASE k - c > 0
    <3>1. \E s \in N : s.seq + s.len = b + (k - c)
      BY <1>5, <2>1 DEF PiecesGood, N
    <3>2. b + (k - c) = w + k
      BY <1>4 DEF b
    <3> QED
      BY <3>1, <3>2 DEF Ends, V
  <2>2. CASE ~(k - c > 0)
    <3>1. c = k /\ c > 0
      BY <1>4, <2>2
    <3>2. Ends(E, w + c) /\ E # {}
      BY <1>2, <3>1 DEF Longer
    <3> QED
      BY <3>1, <3>2 DEF Ends, V
  <2> QED
    BY <2>1, <2>2
<1>26. Ends(Queued(W), w + k)
  <2>1. V # {}
    <3>1. CASE k - c > 0
      BY <1>5, <3>1 DEF PiecesGood, N, V
    <3>2. CASE ~(k - c > 0)
      <4>1. E # {}
        BY <1>2, <1>4, <3>2 DEF Longer
      <4> QED
        BY <4>1 DEF V
    <3> QED
      BY <3>1, <3>2
  <2> QED
    BY <1>14, <1>25, <2>1 DEF Ends, Queued
<1>27. Linked(Queued(W), W.lastack)
  <2>1. Linked(E \cup A, P.lastack) /\ Covered(E \cup A, P.lastack, b)
    BY <1>2 DEF Longer, b
  <2>2. \A s \in N : s.seq = b \/ \E t \in N : t.seq < s.seq /\ t.seq + t.len = s.seq
    BY <1>5 DEF PiecesGood, N
  <2> SUFFICES ASSUME NEW s \in (E \cup A) \cup N, ~(s.seq <= P.lastack)
               PROVE  \E t \in (E \cup A) \cup N : t.seq < s.seq /\ t.seq + t.len = s.seq
    BY <1>14, <1>16 DEF Linked
  <2>3. CASE s \in E \cup A
    BY <2>1, <2>3 DEF Linked
  <2>4. CASE s \in N /\ s.seq = b
    <3>1. b - 1 \in P.lastack .. b - 1
      BY <1>4, <1>11, <2>4
    <3>2. PICK t \in E \cup A : t.seq <= b - 1 /\ b - 1 < t.seq + t.len
      BY <2>1, <3>1 DEF Covered
    <3>3. t.seq < s.seq /\ t.seq + t.len = s.seq
      BY <1>4, <1>17, <2>4, <3>2
    <3> QED
      BY <3>3
  <2>5. CASE s \in N /\ s.seq # b
    BY <2>2, <2>5
  <2> QED
    BY <2>3, <2>4, <2>5
<1>28. Covered(Queued(W), W.lastack, w + k)
  <2>1. Covered(E \cup A, P.lastack, b)
    BY <1>2 DEF Longer, b
  <2>2. \A x \in b .. b + (k - c) - 1 : \E s \in N : s.seq <= x /\ x < s.seq + s.len
    BY <1>5 DEF PiecesGood, N
  <2> SUFFICES ASSUME NEW x \in P.lastack .. w + k - 1
               PROVE  \E s \in (E \cup A) \cup N : s.seq <= x /\ x < s.seq + s.len
    BY <1>14, <1>16 DEF Covered
  <2>3. CASE x < b
    BY <1>4, <1>11, <2>1, <2>3 DEF Covered
  <2>4. CASE x >= b
    <3>1. x \in b .. b + (k - c) - 1
      BY <1>4, <1>11, <2>4 DEF b
    <3> QED
      BY <2>2, <3>1
  <2> QED
    BY <1>4, <1>11, <2>3, <2>4
<1>29. Lists(W, w + k)
  BY <1>9, <1>14, <1>19, <1>21, <1>23, <1>24, <1>26, <1>27, <1>28 DEF Lists
<1>30. FinKept(W, w + k) /\ Closing(W, w + k)
  BY <1>14 DEF FinKept, Closing
<1>31. Windows(W, w + k) /\ Edge(W) = Edge(P)
  BY <1>1, <1>11, <1>14 DEF Windows, Edge
<1>32. W.unacked # {} => W.rtime /\ ~W.persist
  BY <1>14 DEF PcbInv, PreOutput
<1>33. Before(W, {})
  <2> SUFFICES ASSUME NEW s \in A, NEW t \in E \cup N PROVE s.seq < t.seq
    BY <1>14 DEF Before, V
  <2>1. CASE t \in E
    BY <1>2, <2>1 DEF Longer
  <2>2. CASE t \in N
    BY <1>4, <1>17, <1>18, <2>2
  <2> QED
    BY <2>1, <2>2
<1>34. Ends(W.unsent \ {}, w + k)
  BY <1>14, <1>25
<1> QED
  BY <1>15, <1>22, <1>29, <1>30, <1>31, <1>32, <1>33, <1>34 DEF PreOutput, W

-------------------------------------------------------------------------------
(* tcp_send_fin. *)

\* What a step of the closing sequence leaves alone.
SameEnds(F, P) ==
  /\ F.snd_nxt = P.snd_nxt /\ F.lastack = P.lastack /\ F.snd_wnd = P.snd_wnd
  /\ F.snd_buf = P.snd_buf

\* The FIN joins the last unsent segment.
LEMMA FinJoins ==
  ASSUME NEW w \in Nat, NEW P, PcbInv(P, w), P.state = "ESTABLISHED", ~P.closepend, P.unsent # {}
  PROVE  LET F == [SendFin(P) EXCEPT !.state = "FIN_WAIT_1"]
         IN  PreOutput(F, w, {}) /\ SameEnds(F, P) /\ F.state = "FIN_WAIT_1" /\ F.closepend = FALSE
<1> DEFINE U == P.unsent
           A == P.unacked
           L == Last(U)
           M == [L EXCEPT !.fin = TRUE]
           E == (U \ {L}) \cup {M}
           F == [SendFin(P) EXCEPT !.state = "FIN_WAIT_1"]
<1>1. P \in PcbType /\ Lists(P, w) /\ Counted(P) /\ Windows(P, w) /\ Closing(P, w)
      /\ Before(P, {}) /\ Ends(U, w)
  BY DEF PcbInv, PreOutput
<1>2. /\ SegQueue(U) /\ SegQueue(A) /\ U \cap A = {} /\ Queued(P) = U \cup A
      /\ Sorted(U \cup A) /\ \A s \in U \cup A : Part(s, P.state, w) /\ s.seq + s.len <= w
      /\ Linked(U \cup A, P.lastack) /\ Covered(U \cup A, P.lastack, w)
      /\ \A s \in A, t \in U : s.seq < t.seq
  BY <1>1 DEF Lists, Queued, Part, Before
<1>3. \A s \in U \cup A : s.len > 0 /\ s.fin = FALSE
  BY <1>1, <1>2, NoFinYet
<1>4. L \in U /\ L \in Segment /\ L.fin = FALSE
  BY <1>2, <1>3, LastFacts DEF SegQueue
<1>5. F = [P EXCEPT !.unsent = E, !.state = "FIN_WAIT_1"]
  BY <1>1, <1>4 DEF SendFin, PcbType
<1> HIDE DEF L
<1>6. M \in Segment /\ M.seq = L.seq /\ M.len = L.len /\ M.n = L.n /\ M.fin = TRUE
  BY <1>4 DEF Segment
<1>7. M.seq = Last(U).seq /\ M.len = Last(U).len + 0 /\ w + 0 = w
  BY <1>4, <1>6, SegFacts DEF L
<1>8. Growable(U, A, P.lastack, w, 0)
  BY <1>1, <1>2 DEF Growable
<1>9. P.lastack \in Nat
  BY <1>1, PcbFacts
<1> HIDE DEF M
<1>10. Grown((U \ {Last(U)}) \cup {M}, U, A, P.lastack, w + 0, 0, M)
  BY <1>6, <1>7, <1>8, <1>9, LastChanged
<1>11. Grown(E, U, A, P.lastack, w, 0, M)
  BY <1>7, <1>10 DEF L
<1>12. E \in SUBSET Segment
  BY <1>11 DEF Grown, SegQueue
<1> HIDE DEF E
<1>13. /\ F.unsent = E /\ F.unacked = A /\ F.state = "FIN_WAIT_1" /\ F \in PcbType
       /\ F.snd_queuelen = P.snd_queuelen /\ F.snd_buf = P.snd_buf /\ F.snd_nxt = P.snd_nxt
       /\ F.lastack = P.lastack /\ F.snd_wnd = P.snd_wnd /\ F.snd_wl2 = P.snd_wl2
       /\ F.rtime = P.rtime /\ F.persist = P.persist /\ F.closepend = P.closepend
       /\ F.closepend \in BOOLEAN
  BY <1>1, <1>5, <1>12 DEF PcbType
<1> HIDE DEF F
<1>14. Queued(F) = E \cup A /\ M \in E
  BY <1>13 DEF Queued, E
<1>15. Counted(F)
  <2>1. SegQueue(E) /\ SegQueue(U \cup A)
    BY <1>2, <1>11, QueueSumsUnion DEF Grown
  <2>2. SegQueue(E \cup A)
    BY <1>2, <1>11, <2>1, QueueSumsUnion DEF Grown
  <2>3. /\ PbufsOf(E \cup A) \in Nat /\ PbufsOf(U \cup A) \in Nat
        /\ Bytes(E \cup A) \in Nat /\ Bytes(U \cup A) \in Nat
    BY <2>1, <2>2, QueueSums
  <2>4. Bytes(E \cup A) = Bytes(U \cup A) + 0 /\ PbufsOf(E \cup A) + L.n = PbufsOf(U \cup A) + M.n
    BY <1>11 DEF Grown, L
  <2>5. L.n \in Nat
    BY <1>4, SegFacts
  <2>6. Bytes(E \cup A) = Bytes(U \cup A) /\ PbufsOf(E \cup A) = PbufsOf(U \cup A)
    BY <1>6, <2>3, <2>4, <2>5
  <2> QED
    BY <1>1, <1>2, <1>13, <1>14, <2>6 DEF Counted
<1>16. \A s \in E \cup A : Part(s, F.state, w)
  <2>1. Part(M, "FIN_WAIT_1", w)
    BY <1>2, <1>4, <1>6, <1>3 DEF Part
  <2>2. \A s \in U \cup A : Part(s, "FIN_WAIT_1", w)
    BY <1>2 DEF Part
  <2> QED
    BY <1>13, <2>1, <2>2 DEF E
<1>17. Ends(E, w) /\ Ends(E \cup A, w)
  BY <1>11, <1>14 DEF Grown, Ends
<1>18. Lists(F, w)
  BY <1>2, <1>11, <1>13, <1>14, <1>16, <1>17 DEF Lists, Grown
<1>19. FinKept(F, w)
  BY <1>6, <1>11, <1>13, <1>14 DEF FinKept, Grown
<1>20. Windows(F, w) /\ Closing(F, w) /\ F.closepend = FALSE
  BY <1>1, <1>13 DEF Windows, Closing, Edge
<1>21. F.unacked # {} => F.rtime /\ ~F.persist
  BY <1>13 DEF PcbInv, PreOutput
<1>22. Before(F, {}) /\ Ends(F.unsent \ {}, w)
  BY <1>11, <1>13, <1>17 DEF Before, Grown
<1>23. PreOutput(F, w, {})
  BY <1>13, <1>15, <1>18, <1>19, <1>20, <1>21, <1>22 DEF PreOutput
<1> QED
  BY <1>13, <1>20, <1>23 DEF SameEnds, F

\* It is a segment of its own when there is no unsent one.
LEMMA FinAlone ==
  ASSUME NEW w \in Nat, NEW P, PcbInv(P, w), P.state = "ESTABLISHED", ~P.closepend, P.unsent = {}
  PROVE  LET F == [SendFin(P) EXCEPT !.state = "FIN_WAIT_1"]
         IN  PreOutput(F, w, {}) /\ SameEnds(F, P) /\ F.state = "FIN_WAIT_1" /\ F.closepend = FALSE
<1> DEFINE A == P.unacked
           M == [seq |-> w, len |-> 0, fin |-> TRUE, n |-> 1]
           F == [SendFin(P) EXCEPT !.state = "FIN_WAIT_1"]
<1>1. P \in PcbType /\ Lists(P, w) /\ Counted(P) /\ Windows(P, w) /\ Closing(P, w)
  BY DEF PcbInv, PreOutput
<1>2. /\ SegQueue(A) /\ Queued(P) = A
      /\ Sorted(A) /\ \A s \in A : Part(s, P.state, w) /\ s.seq + s.len <= w
      /\ Linked(A, P.lastack) /\ Covered(A, P.lastack, w)
  BY <1>1 DEF Lists, Queued, Part
<1>3. \A s \in A : s.len > 0 /\ s.len \in Nat /\ s.seq \in Nat /\ s.seq < w
  <2>1. \A s \in A : s.len > 0
    BY <1>1, <1>2, NoFinYet
  <2>2. \A s \in A : s.len \in Nat /\ s.seq \in Nat
    BY <1>2, SegFacts DEF SegQueue
  <2> QED
    BY <1>2, <2>1, <2>2
<1>4. M \in Segment /\ M.seq = w /\ M.len = 0 /\ M.fin = TRUE /\ M.n = 1
  BY DEF Segment
<1>5. P.snd_lbb = w /\ P.lastack \in Nat /\ P.snd_queuelen \in Nat
  BY <1>1, PcbFacts DEF Closing
<1>6. F = [P EXCEPT !.unsent = {M}, !.state = "FIN_WAIT_1", !.snd_lbb = w + 1,
                    !.snd_queuelen = P.snd_queuelen + 1]
  BY <1>1, <1>5, ZenonT(30) DEF SendFin, PcbType
<1>6a. {M} \in SUBSET Segment /\ w + 1 \in Nat /\ P.snd_queuelen + 1 \in Nat
  BY <1>4, <1>5
<1> HIDE DEF M
<1>7. /\ F.unsent = {M} /\ F.unacked = A /\ F.state = "FIN_WAIT_1" /\ F \in PcbType
      /\ F.snd_queuelen = P.snd_queuelen + 1 /\ F.snd_buf = P.snd_buf /\ F.snd_nxt = P.snd_nxt
      /\ F.lastack = P.lastack /\ F.snd_wnd = P.snd_wnd /\ F.snd_wl2 = P.snd_wl2
      /\ F.rtime = P.rtime /\ F.persist = P.persist /\ F.closepend = P.closepend
      /\ F.closepend \in BOOLEAN
  <2> HIDE DEF F
  <2>1. F \in PcbType
    BY <1>1, <1>6, <1>6a DEF PcbType
  <2> QED
    BY <1>1, <1>6, <2>1 DEF PcbType
<1> HIDE DEF F
<1>8. Queued(F) = A \cup {M} /\ M \notin A
  BY <1>3, <1>4, <1>7 DEF Queued
<1>9. SegQueue({M})
  BY <1>4, FS_Singleton DEF SegQueue
<1>10. SegQueue(A \cup {M})
  BY <1>2, <1>4, FS_AddElement DEF SegQueue
<1>11. Counted(F)
  <2>1. /\ Bytes(A \cup {M}) = M.len + Bytes((A \cup {M}) \ {M})
        /\ PbufsOf(A \cup {M}) = M.n + PbufsOf((A \cup {M}) \ {M})
    BY <1>10, QueueSumsRemove
  <2>2. (A \cup {M}) \ {M} = A
    BY <1>8
  <2>3. Bytes(A) \in Nat /\ PbufsOf(A) \in Nat
    BY <1>2, QueueSums
  <2>3a. Bytes(A \cup {M}) = M.len + Bytes(A) /\ PbufsOf(A \cup {M}) = M.n + PbufsOf(A)
    BY <2>1, <2>2
  <2>4. Bytes(A \cup {M}) = Bytes(A) /\ PbufsOf(A \cup {M}) = PbufsOf(A) + 1
    BY <1>4, <2>3, <2>3a
  <2> QED
    BY <1>1, <1>2, <1>7, <1>8, <2>4 DEF Counted
<1>12. Sorted(A \cup {M})
  BY <1>2, <1>3, <1>4 DEF Sorted
<1>13. \A s \in A \cup {M} : Part(s, F.state, w)
  <2>1. MSS \in Nat
    BY SendAssumption
  <2>2. Part(M, "FIN_WAIT_1", w)
    BY <1>4, <2>1 DEF Part
  <2> QED
    BY <1>2, <1>7, <2>2 DEF Part
<1>14. Ends({M}, w) /\ Ends(A \cup {M}, w)
  BY <1>4 DEF Ends
<1>15. Linked(A \cup {M}, P.lastack)
  <2>1. CASE w <= P.lastack
    BY <1>2, <1>4, <2>1 DEF Linked
  <2>2. CASE w > P.lastack
    <3>1. w - 1 \in P.lastack .. w - 1
      BY <1>5, <2>2
    <3>2. PICK t \in A : t.seq <= w - 1 /\ w - 1 < t.seq + t.len
      BY <1>2, <3>1 DEF Covered
    <3>3. t.seq < M.seq /\ t.seq + t.len = M.seq
      BY <1>2, <1>3, <1>4, <3>2
    <3> QED
      BY <1>2, <3>3 DEF Linked
  <2> QED
    BY <1>5, <2>1, <2>2
<1>16. Covered(A \cup {M}, P.lastack, w)
  BY <1>2 DEF Covered
<1>17. Lists(F, w)
  BY <1>2, <1>7, <1>8, <1>9, <1>10, <1>12, <1>13, <1>14, <1>15, <1>16 DEF Lists
<1>18. FinKept(F, w)
  BY <1>4, <1>7 DEF FinKept
<1>19. Windows(F, w) /\ Closing(F, w) /\ F.closepend = FALSE
  BY <1>1, <1>7 DEF Windows, Closing, Edge
<1>20. F.unacked # {} => F.rtime /\ ~F.persist
  BY <1>7 DEF PcbInv, PreOutput
<1>21. Before(F, {}) /\ Ends(F.unsent \ {}, w)
  BY <1>3, <1>4, <1>7, <1>14 DEF Before
<1>22. PreOutput(F, w, {})
  BY <1>7, <1>11, <1>17, <1>18, <1>19, <1>20, <1>21 DEF PreOutput
<1> QED
  BY <1>7, <1>19, <1>22 DEF SameEnds, F

-------------------------------------------------------------------------------
(* What a step of the pcb owes to the rest: it sent wire, and v bytes are now  *)
(* written.                                                                    *)

StepGood(O, wire, P, v) ==
  /\ PcbInv(O, v) /\ WireInv(wire, O, v, Edge(P))
  /\ O.snd_nxt >= P.snd_nxt /\ O.lastack = P.lastack /\ Edge(O) = Edge(P)
  /\ O.state = P.state \/ O.state = "FIN_WAIT_1"

\* P0 became P, which calls tcp_output.
LEMMA OutputStep ==
  ASSUME NEW v \in Nat, NEW P, NEW S, PreOutput(P, v, S), NEW P0,
         P0.snd_nxt \in Nat, P.snd_nxt >= P0.snd_nxt, P.lastack = P0.lastack, Edge(P) = Edge(P0),
         P.state = P0.state \/ P.state = "FIN_WAIT_1"
  PROVE  StepGood(Output(P), OutputWire(P), P0, v) /\ SamePcb(Output(P), P)
<1>1. OutputGood(P, v)
  BY OutputKeeps
<1>2. /\ PcbInv(Output(P), v) /\ WireInv(OutputWire(P), Output(P), v, Edge(P))
      /\ Output(P).snd_nxt >= P.snd_nxt /\ SamePcb(Output(P), P)
  BY <1>1 DEF OutputGood
<1>3. P.snd_nxt \in Nat /\ Output(P).snd_nxt \in Nat
  BY <1>2, PcbFacts DEF PreOutput, PcbInv
<1>4. Output(P).lastack = P.lastack /\ Edge(Output(P)) = Edge(P) /\ Output(P).state = P.state
  BY <1>2 DEF SamePcb, Edge
<1> QED
  BY <1>2, <1>3, <1>4 DEF StepGood

\* What was sent before stays good when more is sent, written and allowed.
LEMMA WireLasts ==
  ASSUME NEW w \in Nat, NEW v \in Nat, w <= v, NEW e \in Nat, NEW d \in Nat, e <= d,
         NEW P, NEW O, P.snd_nxt \in Nat, O.snd_nxt \in Nat, P.snd_nxt <= O.snd_nxt,
         NEW S, WireInv(S, P, w, e)
  PROVE  WireInv(S, O, v, d)
<1> SUFFICES ASSUME NEW s \in S
             PROVE  /\ s \in [seq : Nat, len : Nat, fin : BOOLEAN]
                    /\ s.seq + s.len <= v /\ End(s) <= O.snd_nxt
                    /\ s.seq + s.len <= d \/ (s.len = 1 /\ s.seq <= d)
  BY DEF WireInv
<1>1. /\ s \in [seq : Nat, len : Nat, fin : BOOLEAN]
      /\ s.seq + s.len <= w /\ End(s) <= P.snd_nxt
      /\ s.seq + s.len <= e \/ (s.len = 1 /\ s.seq <= e)
  BY DEF WireInv
<1>2. s.seq \in Nat /\ s.len \in Nat /\ End(s) \in Nat
  BY <1>1 DEF End, TcpLen
<1> QED
  BY <1>1, <1>2

\* A pcb that differs from P in fields that the queues do not depend on.
Agrees(O, P, w) ==
  /\ O \in PcbType
  /\ O.unsent = P.unsent /\ O.unacked = P.unacked /\ O.state = P.state
  /\ O.lastack = P.lastack /\ O.snd_lbb = P.snd_lbb /\ O.snd_buf = P.snd_buf
  /\ O.snd_queuelen = P.snd_queuelen /\ O.snd_wnd = P.snd_wnd /\ O.snd_wl2 = P.snd_wl2
  /\ O.snd_nxt >= P.snd_nxt /\ O.snd_nxt <= w + 1
  /\ O.closepend => P.closepend
  /\ O.rtime = P.rtime /\ O.persist = P.persist

LEMMA AgreesKeeps ==
  ASSUME NEW w \in Nat, NEW P, NEW O, PcbInv(P, w), Agrees(O, P, w)
  PROVE  PcbInv(O, w) /\ Edge(O) = Edge(P)
<1>1. /\ P \in PcbType /\ Lists(P, w) /\ FinKept(P, w) /\ Counted(P) /\ Windows(P, w)
      /\ Closing(P, w) /\ Before(P, {}) /\ Ends(P.unsent \ {}, w)
      /\ P.unacked # {} => P.rtime /\ ~P.persist
      /\ P.unsent # {} => P.rtime \/ P.persist
  BY DEF PcbInv, PreOutput
<1>2. Queued(O) = Queued(P) /\ Edge(O) = Edge(P)
  BY DEF Queued, Edge, Agrees
<1>3. P.snd_nxt \in Nat /\ O.snd_nxt \in Nat
  BY <1>1, PcbFacts DEF Agrees
<1>4. Lists(O, w) /\ Counted(O) /\ Windows(O, w) /\ Closing(O, w) /\ Before(O, {})
  BY <1>1, <1>2 DEF Agrees, Lists, Counted, Windows, Closing, Before
<1>5. FinKept(O, w)
  BY <1>1, <1>3 DEF Agrees, FinKept
<1> QED
  BY <1>1, <1>2, <1>4, <1>5 DEF Agrees, PcbInv, PreOutput

\* tcp_output with nothing done before it.
LEMMA OutputAlone ==
  ASSUME NEW w \in Nat, NEW P, PcbInv(P, w)
  PROVE  /\ StepGood(Output(P), OutputWire(P), P, w) /\ SamePcb(Output(P), P)
<1>1. PreOutput(P, w, {}) /\ P.snd_nxt \in Nat
  BY PcbFacts DEF PcbInv, PreOutput
<1>2. P.snd_nxt >= P.snd_nxt
  BY <1>1
<1> QED
  BY <1>1, <1>2, OutputStep

\* tcp_close_shutdown_fin; P is pcb or, in tcp_fasttmr, pcb without
\* TF_CLOSEPEND.
LEMMA ShutdownKeeps ==
  ASSUME NEW w \in Nat, NEW P, PcbInv(P, w), P.state = "ESTABLISHED", ~P.closepend,
         NEW mem \in BOOLEAN
  PROVE  StepGood(ShutdownFin(P, mem), ShutdownWire(P, mem), P, w)
<1>1. P \in PcbType /\ P.snd_nxt \in Nat
  BY PcbFacts DEF PcbInv, PreOutput
<1>2. CASE NeedsMemForFin(P) /\ ~mem
  <2> DEFINE O == [P EXCEPT !.closepend = TRUE]
  <2>1. ShutdownFin(P, mem) = O /\ ShutdownWire(P, mem) = {}
    BY <1>2 DEF ShutdownFin, ShutdownWire
  <2>2. /\ O \in PcbType
        /\ O.unsent = P.unsent /\ O.unacked = P.unacked /\ O.state = P.state
        /\ O.lastack = P.lastack /\ O.snd_lbb = P.snd_lbb /\ O.snd_buf = P.snd_buf
        /\ O.snd_queuelen = P.snd_queuelen /\ O.snd_wnd = P.snd_wnd /\ O.snd_wl2 = P.snd_wl2
        /\ O.snd_nxt = P.snd_nxt /\ O.rtime = P.rtime /\ O.persist = P.persist
    BY <1>1 DEF PcbType
  <2> HIDE DEF O
  <2>3. Queued(O) = Queued(P) /\ Edge(O) = Edge(P)
    BY <2>2 DEF Queued, Edge
  <2>4. /\ Lists(O, w) /\ FinKept(O, w) /\ Counted(O) /\ Windows(O, w)
        /\ Closing(O, w) /\ Before(O, {}) /\ Ends(O.unsent \ {}, w)
    BY <2>2, <2>3 DEF PcbInv, PreOutput, Lists, FinKept, Counted, Windows, Closing, Before
  <2>5. PcbInv(O, w)
    BY <2>2, <2>4 DEF PcbInv, PreOutput
  <2> QED
    BY <1>1, <2>1, <2>2, <2>3, <2>5 DEF StepGood, WireInv
<1>3. CASE ~(NeedsMemForFin(P) /\ ~mem)
  <2> DEFINE F == [SendFin(P) EXCEPT !.state = "FIN_WAIT_1"]
  <2>1. ShutdownFin(P, mem) = Output(F) /\ ShutdownWire(P, mem) = OutputWire(SendFin(P))
    BY <1>3 DEF ShutdownFin, ShutdownWire
  <2>2. PreOutput(F, w, {}) /\ SameEnds(F, P) /\ F.state = "FIN_WAIT_1"
    BY FinJoins, FinAlone
  <2>3. OutputWire(SendFin(P)) = OutputWire(F)
    <3>1. /\ F.unsent = SendFin(P).unsent /\ F.lastack = SendFin(P).lastack
          /\ F.snd_wnd = SendFin(P).snd_wnd /\ F.cwnd = SendFin(P).cwnd
      BY <1>1 DEF SendFin, PcbType
    <3> HIDE DEF F
    <3>2. Sendable(F) = Sendable(SendFin(P))
      BY <3>1 DEF Sendable, Fits, Wnd
    <3> QED
      BY <3>2 DEF OutputWire
  <2> HIDE DEF F
  <2>4. F.snd_nxt >= P.snd_nxt /\ F.lastack = P.lastack /\ Edge(F) = Edge(P)
    BY <1>1, <2>2 DEF SameEnds, Edge
  <2>5. StepGood(Output(F), OutputWire(F), P, w)
    BY <1>1, <2>2, <2>4, OutputStep
  <2> QED
    BY <2>1, <2>3, <2>5
<1> QED
  BY <1>2, <1>3

-------------------------------------------------------------------------------
(* The timers. *)

\* The first segment s of a queue R \cup {s} is split in two.
LEMMA SplitQueue ==
  ASSUME NEW w \in Nat, NEW ack \in Nat, NEW U, SegQueue(U), NEW s \in U,
         \A t \in U : s.seq <= t.seq, Sorted(U), \A t \in U : t.seq + t.len <= w,
         Ends(U, w), Linked(U, ack), Covered(U, ack, w),
         NEW h \in Segment, NEW r \in Segment, h.seq = s.seq, h.len > 0, r.len > 0,
         r.seq = s.seq + h.len, h.len + r.len = s.len
  PROVE  LET V == (U \ {s}) \cup {h, r}
         IN  /\ SegQueue(V) /\ Sorted(V) /\ Ends(V, w) /\ Linked(V, ack) /\ Covered(V, ack, w)
             /\ Bytes(V) = Bytes(U) /\ PbufsOf(V) + s.n = (PbufsOf(U) + h.n) + r.n
<1> DEFINE R == U \ {s}
           V == (U \ {s}) \cup {h, r}
<1>1. /\ s.seq \in Nat /\ s.len \in Nat /\ s.n \in Nat /\ h.seq \in Nat /\ h.len \in Nat
      /\ h.n \in Nat /\ r.seq \in Nat /\ r.len \in Nat /\ r.n \in Nat
      /\ \A t \in U : t.seq \in Nat /\ t.len \in Nat /\ t \in Segment
  BY SegFacts DEF SegQueue
<1>2. s.seq + s.len <= w
  OBVIOUS
<1>3. \A t \in R : t \in U /\ t.seq > s.seq /\ t.seq >= s.seq + s.len
  BY <1>1 DEF Sorted
<1>4. h \notin R /\ r \notin R /\ h # r
  BY <1>1, <1>3
<1>5. SegQueue(R) /\ Bytes(U) = s.len + Bytes(R) /\ PbufsOf(U) = s.n + PbufsOf(R)
  BY QueueSumsRemove
<1>6. SegQueue(R \cup {h})
  BY <1>5, FS_AddElement DEF SegQueue
<1>7. SegQueue((R \cup {h}) \cup {r})
  BY <1>6, FS_AddElement DEF SegQueue
<1>8. (R \cup {h}) \cup {r} = V
  OBVIOUS
<1>9. SegQueue(V) /\ Bytes(V) = Bytes(U) /\ PbufsOf(V) + s.n = (PbufsOf(U) + h.n) + r.n
  <2>1. V \ {r} = R \cup {h} /\ (R \cup {h}) \ {h} = R
    BY <1>4
  <2>2. Bytes(V) = r.len + Bytes(V \ {r}) /\ PbufsOf(V) = r.n + PbufsOf(V \ {r})
    BY <1>7, <1>8, QueueSumsRemove
  <2>3. /\ Bytes(R \cup {h}) = h.len + Bytes((R \cup {h}) \ {h})
        /\ PbufsOf(R \cup {h}) = h.n + PbufsOf((R \cup {h}) \ {h})
    BY <1>6, QueueSumsRemove
  <2>4. Bytes(R) \in Nat /\ PbufsOf(R) \in Nat
    BY <1>5, QueueSums
  <2>5. SegQueue(V)
    BY <1>7, <1>8
  <2> HIDE DEF R, V
  <2>6. Bytes(V) = r.len + (h.len + Bytes(R)) /\ PbufsOf(V) = r.n + (h.n + PbufsOf(R))
    BY <2>1, <2>2, <2>3
  <2>7. Bytes(V) = Bytes(U)
    BY <1>1, <1>5, <2>4, <2>6
  <2>8. PbufsOf(V) + s.n = (PbufsOf(U) + h.n) + r.n
    BY <1>1, <1>5, <2>4, <2>6
  <2> QED
    BY <2>5, <2>7, <2>8
<1>10. \A t \in V : t \in R \/ t = h \/ t = r
  OBVIOUS
<1>11. R \subseteq V /\ h \in V /\ r \in V /\ \A t \in U : t \in R \/ t = s
  OBVIOUS
<1> HIDE DEF V, R
<1>12. Sorted(V)
  <2> SUFFICES ASSUME NEW p \in V, NEW q \in V, p # q
               PROVE  p.seq # q.seq /\ (p.seq < q.seq => p.seq + p.len <= q.seq)
    BY DEF Sorted
  <2>1. CASE p \in R /\ q \in R
    BY <1>3, <2>1 DEF Sorted
  <2>2. CASE p \in R /\ q \in {h, r}
    BY <1>1, <1>3, <2>2
  <2>3. CASE q \in R /\ p \in {h, r}
    BY <1>1, <1>3, <2>3
  <2>4. CASE p \in {h, r} /\ q \in {h, r}
    BY <1>1, <2>4
  <2> QED
    BY <1>10, <2>1, <2>2, <2>3, <2>4
<1>13. Ends(V, w)
  <2>1. PICK t \in U : t.seq + t.len = w
    BY DEF Ends
  <2>2. CASE t = s
    <3>1. r.seq + r.len = w
      BY <1>1, <2>1, <2>2
    <3> QED
      BY <1>11, <3>1 DEF Ends
  <2> QED
    BY <1>11, <2>1, <2>2 DEF Ends
<1>14. Linked(V, ack)
  <2> SUFFICES ASSUME NEW p \in V, ~(p.seq <= ack)
               PROVE  \E t \in V : t.seq < p.seq /\ t.seq + t.len = p.seq
    BY DEF Linked
  <2>1. CASE p = r
    BY <1>1, <1>11, <2>1
  <2>2. CASE p = h
    <3>1. PICK t \in U : t.seq < s.seq
      BY <1>1, <2>2 DEF Linked
    <3> QED
      BY <1>1, <3>1
  <2>3. CASE p \in R
    <3>1. PICK t \in U : t.seq < p.seq /\ t.seq + t.len = p.seq
      BY <1>3, <2>3 DEF Linked
    <3>2. CASE t = s
      <4>1. r.seq < p.seq /\ r.seq + r.len = p.seq
        BY <1>1, <1>3, <2>3, <3>1, <3>2
      <4> QED
        BY <1>11, <4>1
    <3> QED
      BY <1>11, <3>1, <3>2
  <2> QED
    BY <1>10, <2>1, <2>2, <2>3
<1>15. Covered(V, ack, w)
  <2> SUFFICES ASSUME NEW b \in ack .. w - 1
               PROVE  \E t \in V : t.seq <= b /\ b < t.seq + t.len
    BY DEF Covered
  <2>1. PICK t \in U : t.seq <= b /\ b < t.seq + t.len
    BY DEF Covered
  <2>2. CASE t = s
    <3>1. CASE b < r.seq
      <4>1. h.seq <= b /\ b < h.seq + h.len
        BY <1>1, <2>1, <2>2, <3>1
      <4> QED
        BY <1>11, <4>1
    <3>2. CASE b >= r.seq
      <4>1. r.seq <= b /\ b < r.seq + r.len
        BY <1>1, <2>1, <2>2, <3>2
      <4> QED
        BY <1>11, <4>1
    <3> QED
      BY <1>1, <3>1, <3>2
  <2> QED
    BY <1>11, <2>1, <2>2
<1> QED
  BY <1>9, <1>12, <1>13, <1>14, <1>15 DEF V

\* tcp_split_unsent_seg.
LEMMA SplitKeeps ==
  ASSUME NEW w \in Nat, NEW P, PcbInv(P, w), P.unsent # {}, P.unacked = {}, P.snd_wnd > 0,
         NEW n \in Nat, n >= 1
  PROVE  LET O == Split(P, n)
         IN  PreOutput(O, w, {}) /\ SameEnds(O, P) /\ O.state = P.state
             /\ O.closepend = P.closepend
<1> DEFINE U == P.unsent
           s == First(U)
           k == P.snd_wnd
           h == [s EXCEPT !.len = k, !.n = n]
           r == [seq |-> s.seq + k, len |-> s.len - k, fin |-> s.fin, n |-> 1]
           V == (U \ {s}) \cup {h, r}
           O == Split(P, n)
<1>1. P \in PcbType /\ Lists(P, w) /\ FinKept(P, w) /\ Counted(P) /\ Windows(P, w)
      /\ Closing(P, w) /\ Ends(U, w) /\ P.unacked = {}
  BY DEF PcbInv, PreOutput
<1>2. CASE s.len <= k
  <2>1. O = P
    BY <1>2 DEF Split
  <2> QED
    BY <2>1 DEF PcbInv, SameEnds
<1>3. CASE ~(s.len <= k)
  <2>1. s \in U /\ \A t \in U : s.seq <= t.seq
    BY <1>1, FirstFacts DEF Lists
  <2>2. /\ SegQueue(U) /\ Sorted(U) /\ Linked(U, P.lastack) /\ Covered(U, P.lastack, w)
        /\ Queued(P) = U /\ \A t \in U : Part(t, P.state, w) /\ t.seq + t.len <= w
    BY <1>1 DEF Lists, Queued, Part
  <2>3. s \in Segment /\ s.seq \in Nat /\ s.len \in Nat /\ s.n \in Nat /\ s.fin \in BOOLEAN
    BY <2>1, <2>2, SegFacts DEF SegQueue
  <2>4. k \in Nat /\ k > 0 /\ s.len - k \in Nat /\ s.len - k > 0 /\ s.seq + k \in Nat
        /\ P.lastack \in Nat /\ P.snd_queuelen \in Nat
    BY <1>1, <1>3, <2>3, PcbFacts
  <2>5. O = [P EXCEPT !.unsent = V, !.snd_queuelen = P.snd_queuelen - s.n + n + 1]
    BY <1>1, <1>3 DEF Split, PcbType
  <2> HIDE DEF s
  <2>6. h \in Segment /\ h.seq = s.seq /\ h.len = k /\ h.n = n /\ h.fin = s.fin
    <3>1. k \in Nat /\ n \in Nat \ {0}
      BY <2>4
    <3> HIDE DEF k
    <3> QED
      BY <2>3, <3>1 DEF Segment
  <2>7. r \in Segment /\ r.seq = s.seq + k /\ r.len = s.len - k /\ r.n = 1 /\ r.fin = s.fin
    BY <2>3, <2>4 DEF Segment
  <2> HIDE DEF h, r, k
  <2>8. h.len > 0 /\ r.len > 0 /\ r.seq = s.seq + h.len /\ h.len + r.len = s.len
    BY <2>3, <2>4, <2>6, <2>7
  <2>9. /\ SegQueue(V) /\ Sorted(V) /\ Ends(V, w) /\ Linked(V, P.lastack)
        /\ Covered(V, P.lastack, w)
        /\ Bytes(V) = Bytes(U) /\ PbufsOf(V) + s.n = (PbufsOf(U) + h.n) + r.n
    <3> HIDE DEF U
    <3> QED
      BY <1>1, <2>1, <2>2, <2>4, <2>6, <2>7, <2>8, SplitQueue
  <2>10. PbufsOf(U) \in Nat /\ PbufsOf(V) \in Nat
    BY <2>2, <2>9, QueueSums
  <2>11. P.snd_queuelen - s.n + n + 1 = PbufsOf(V)
    <3>1. P.snd_queuelen = PbufsOf(U)
      BY <1>1, <2>2 DEF Counted
    <3> HIDE DEF U, V
    <3> QED
      BY <2>3, <2>6, <2>7, <2>9, <2>10, <3>1
  <2>12. V \in SUBSET Segment
    BY <2>9 DEF SegQueue
  <2>13. \A t \in V : t \in U \/ t = h \/ t = r
    OBVIOUS
  <2>14. h \in V /\ r \in V /\ \A t \in U : t \in V \/ t = s
    OBVIOUS
  <2> HIDE DEF V
  <2>15. O \in PcbType
    <3>1. O = [P EXCEPT !.unsent = V, !.snd_queuelen = PbufsOf(V)]
      BY <2>5, <2>11
    <3> HIDE DEF O
    <3> QED
      BY <1>1, <2>10, <2>12, <3>1 DEF PcbType
  <2>16. /\ O.unsent = V /\ O.unacked = {} /\ O.state = P.state
         /\ O.lastack = P.lastack /\ O.snd_lbb = P.snd_lbb /\ O.snd_buf = P.snd_buf
         /\ O.snd_queuelen = PbufsOf(V) /\ O.snd_wnd = P.snd_wnd /\ O.snd_wl2 = P.snd_wl2
         /\ O.snd_nxt = P.snd_nxt /\ O.closepend = P.closepend
    BY <1>1, <2>5, <2>11 DEF PcbType
  <2> HIDE DEF O
  <2>17. Queued(O) = V
    BY <2>16 DEF Queued
  <2>18. \A t \in V : Part(t, O.state, w)
    <3>1. Part(s, P.state, w)
      BY <2>1, <2>2
    <3>2. MSS \in Nat
      BY SendAssumption
    <3>3. Part(h, P.state, w) /\ Part(r, P.state, w)
      BY <2>3, <2>4, <2>6, <2>7, <3>1, <3>2 DEF Part
    <3> QED
      BY <2>2, <2>13, <2>16, <3>3
  <2>19. Lists(O, w)
    <3>1. SegQueue({})
      BY FS_EmptySet DEF SegQueue
    <3> QED
      BY <2>9, <2>16, <2>17, <2>18, <3>1 DEF Lists
  <2>20. FinKept(O, w)
    <3> SUFFICES ASSUME O.state \in {"FIN_WAIT_1", "FIN_WAIT_2"}, ~(O.snd_nxt >= w + 1)
                 PROVE  \E t \in V : t.fin /\ t.seq + t.len = w
      BY <2>16 DEF FinKept
    <3>1. PICK t \in U : t.fin /\ t.seq + t.len = w
      BY <1>1, <2>16 DEF FinKept
    <3>2. CASE t = s
      <4>1. r.fin /\ r.seq + r.len = w
        BY <2>3, <2>4, <2>7, <3>1, <3>2
      <4> QED
        BY <2>14, <4>1
    <3> QED
      BY <2>14, <3>1, <3>2
  <2>21. Counted(O)
    BY <1>1, <2>2, <2>9, <2>16, <2>17 DEF Counted
  <2>22. Windows(O, w) /\ Closing(O, w)
    BY <1>1, <2>16 DEF Windows, Closing
  <2>23. Before(O, {}) /\ Ends(O.unsent \ {}, w)
    BY <2>9, <2>16 DEF Before
  <2> QED
    BY <2>15, <2>16, <2>19, <2>20, <2>21, <2>22, <2>23 DEF PreOutput, SameEnds, O
<1> QED
  BY <1>2, <1>3

\* tcp_zero_window_probe; persist_probe is counted.
LEMMA ProbeKeeps ==
  ASSUME NEW w \in Nat, NEW P, PcbInv(P, w), P.unsent # {}, P.unacked = {}
  PROVE  LET P1 == [P EXCEPT !.persist_probe = @ + 1]
         IN  StepGood(Probe(P1), ProbeWire(P1), P, w) /\ StepGood(P1, {}, P, w)
             /\ SamePcb(Probe(P1), P) /\ SamePcb(P1, P)
<1> DEFINE s == First(P.unsent)
           P1 == [P EXCEPT !.persist_probe = @ + 1]
           O == Probe(P1)
<1>1. P \in PcbType /\ Lists(P, w) /\ Windows(P, w)
  BY DEF PcbInv, PreOutput
<1>2. s.seq <= P.lastack
  BY <1>1, FirstIsDue, PcbFacts
<1>3. s \in Segment /\ Part(s, P.state, w)
  BY <1>1, FirstFacts DEF Lists, SegQueue, Queued
<1>4. s.seq \in Nat /\ s.len \in Nat /\ s.fin \in BOOLEAN
  BY <1>3, SegFacts
<1>5. P.lastack \in Nat /\ P.snd_nxt \in Nat /\ P.snd_wnd \in Nat /\ Edge(P) \in Nat
  BY <1>1, PcbFacts
<1>6. P1 \in PcbType /\ P1.unsent = P.unsent /\ P1.snd_nxt = P.snd_nxt
  BY <1>1 DEF PcbType
<1>7. Agrees(P1, P, w)
  BY <1>1, <1>5 DEF PcbType, Agrees, Windows
<1>8. StepGood(P1, {}, P, w) /\ SamePcb(P1, P)
  <2>1. PcbInv(P1, w) /\ Edge(P1) = Edge(P)
    BY <1>7, AgreesKeeps
  <2> HIDE DEF P1
  <2> QED
    BY <1>5, <1>7, <2>1, <1>1 DEF StepGood, SamePcb, WireInv, Agrees, Queued, P1, PcbType
<1> DEFINE nxt == Greater(P.snd_nxt, s.seq + 1)
<1> HIDE DEF s
<1>9. nxt \in Nat /\ nxt >= P.snd_nxt /\ nxt >= s.seq + 1 /\ nxt <= w + 1
  <2>1. s.seq <= w /\ P.snd_nxt <= w + 1
    BY <1>1, <1>3, <1>4 DEF Part, Windows
  <2> QED
    BY <1>4, <1>5, <2>1 DEF Greater
<1>10. O = [P1 EXCEPT !.snd_nxt = nxt]
  BY <1>6 DEF Probe, PcbType, s
<1> HIDE DEF nxt
<1>11. O \in PcbType /\ Agrees(O, P, w) /\ O.snd_nxt = nxt
  <2> HIDE DEF P1, O
  <2>1. O \in PcbType /\ O.snd_nxt = nxt
    BY <1>6, <1>9, <1>10 DEF PcbType
  <2>2. Agrees(O, P, w)
    BY <1>6, <1>7, <1>9, <1>10, <2>1 DEF Agrees, PcbType
  <2> QED
    BY <2>1, <2>2
<1>12. PcbInv(O, w) /\ Edge(O) = Edge(P)
  BY <1>11, AgreesKeeps
<1>13. WireInv(ProbeWire(P1), O, w, Edge(P))
  <2> DEFINE b == [seq |-> s.seq, len |-> IF s.len = 0 THEN 0 ELSE 1, fin |-> s.fin /\ s.len = 0]
  <2>1. ProbeWire(P1) = {b}
    BY <1>6 DEF ProbeWire, s
  <2>2. b.seq = s.seq /\ b.len = (IF s.len = 0 THEN 0 ELSE 1) /\ b.fin = (s.fin /\ s.len = 0)
    OBVIOUS
  <2>3. b \in [seq : Nat, len : Nat, fin : BOOLEAN]
    BY <1>4
  <2> HIDE DEF b
  <2>4. b.seq + b.len <= w
    BY <1>3, <1>4, <2>2 DEF Part
  <2>5. End(b) \in Nat /\ End(b) <= s.seq + 1
    <3>1. CASE s.len = 0
      <4>1. b.len = 0
        BY <2>2, <3>1
      <4> QED
        BY <1>4, <2>2, <4>1 DEF End, TcpLen
    <3>2. CASE s.len # 0
      <4>1. b.len = 1 /\ ~b.fin
        BY <2>2, <3>2
      <4> QED
        BY <1>4, <2>2, <4>1 DEF End, TcpLen
    <3> QED
      BY <3>1, <3>2
  <2>7. End(b) <= O.snd_nxt
    BY <1>4, <1>9, <1>11, <2>5
  <2>8. b.seq + b.len <= Edge(P) \/ (b.len = 1 /\ b.seq <= Edge(P))
    BY <1>2, <1>4, <1>5, <2>2 DEF Edge
  <2> QED
    BY <2>1, <2>3, <2>4, <2>7, <2>8 DEF WireInv
<1>14. StepGood(O, ProbeWire(P1), P, w) /\ SamePcb(O, P)
  <2>1. O.closepend = P.closepend
    <3> HIDE DEF O
    <3> QED
      BY <1>1, <1>10 DEF PcbType
  <2> HIDE DEF O, P1
  <2> QED
    BY <1>5, <1>9, <1>11, <1>12, <1>13, <2>1 DEF StepGood, SamePcb, Agrees, Queued
<1> QED
  BY <1>8, <1>14

\* tcp_rexmit_rto.
LEMMA RtoKeeps ==
  ASSUME NEW w \in Nat, NEW P, PcbInv(P, w)
  PROVE  PreOutput(Rto(P), w, {}) /\ SameEnds(Rto(P), P) /\ Rto(P).state = P.state
         /\ Rto(P).closepend = P.closepend
<1> DEFINE O == Rto(P)
<1>1. P \in PcbType /\ Lists(P, w) /\ FinKept(P, w) /\ Counted(P) /\ Windows(P, w)
      /\ Closing(P, w)
  BY DEF PcbInv, PreOutput
<1>2. MSS \in Nat /\ MaxWnd \in Nat /\ Cut(MSS) \in Cut(MSS) .. MaxWnd
  BY SendAssumption DEF Cut, Lesser
<1>3. SegQueue(P.unsent \cup P.unacked)
  BY <1>1, QueueSumsUnion DEF Lists
<1>4. P.unsent \cup P.unacked \in SUBSET Segment
  BY <1>3 DEF SegQueue
<1>5. /\ O \in PcbType /\ O.unsent = P.unsent \cup P.unacked /\ O.unacked = {}
      /\ O.state = P.state /\ O.lastack = P.lastack /\ O.snd_lbb = P.snd_lbb
      /\ O.snd_buf = P.snd_buf /\ O.snd_queuelen = P.snd_queuelen /\ O.snd_wnd = P.snd_wnd
      /\ O.snd_wl2 = P.snd_wl2 /\ O.snd_nxt = P.snd_nxt /\ O.closepend = P.closepend
  <2>1. O = [P EXCEPT !.unsent = P.unsent \cup P.unacked, !.unacked = {}, !.rtime = TRUE,
                      !.cwnd = Cut(MSS), !.nrtx = P.nrtx + 1]
    BY <1>1 DEF Rto, PcbType
  <2>2. P.nrtx + 1 \in Nat
    BY <1>1 DEF PcbType
  <2>3. O \in PcbType
    <3> HIDE DEF O
    <3> QED
      BY <1>1, <1>2, <1>4, <2>1, <2>2 DEF PcbType
  <2> HIDE DEF O
  <2> QED
    BY <1>1, <2>1, <2>3 DEF PcbType
<1> HIDE DEF O
<1>6. Queued(O) = Queued(P)
  BY <1>5 DEF Queued
<1>7. SegQueue({})
  BY FS_EmptySet DEF SegQueue
<1>8. Lists(O, w)
  BY <1>1, <1>3, <1>5, <1>6, <1>7 DEF Lists
<1>9. FinKept(O, w) /\ Counted(O) /\ Windows(O, w) /\ Closing(O, w)
  BY <1>1, <1>5, <1>6 DEF FinKept, Counted, Windows, Closing
<1>10. Before(O, {}) /\ Ends(O.unsent \ {}, w)
  BY <1>1, <1>5 DEF Before, Lists, Queued
<1> QED
  BY <1>5, <1>8, <1>9, <1>10 DEF PreOutput, SameEnds, O

-------------------------------------------------------------------------------
(* tcp_input. *)

\* P became Q by an ACK a that says nothing that was not sent.
Received(Q, P, a, w) ==
  /\ \E S \in SUBSET Segment : PreOutput(Q, w, S)
  /\ Q.snd_nxt = P.snd_nxt /\ Q.state = P.state /\ Q.closepend = P.closepend
  /\ Edge(Q) >= Edge(P)
  /\ \/ Q.lastack = P.lastack /\ Edge(Q) = Edge(P)
     \/ Q.lastack = a.ack /\ Edge(Q) = AckEdge(a)

\* tcp_rexmit_fast, and what it leaves alone.
LEMMA RexmitFastKeeps ==
  ASSUME NEW w \in Nat, NEW P, PreOutput(P, w, {})
  PROVE  /\ \E S \in SUBSET Segment : PreOutput(RexmitFast(P), w, S)
         /\ LET Q == RexmitFast(P)
            IN  Q.snd_nxt = P.snd_nxt /\ Q.state = P.state /\ Q.closepend = P.closepend
                /\ Q.lastack = P.lastack /\ Edge(Q) = Edge(P)
<1> DEFINE U == P.unsent
           A == P.unacked
           s == First(A)
           Q == RexmitFast(P)
<1>1. CASE A = {} \/ P.infr
  <2>1. Q = P
    BY <1>1 DEF RexmitFast
  <2> QED
    BY <2>1
<1>2. CASE ~(A = {} \/ P.infr)
  <2>1. P \in PcbType /\ Lists(P, w) /\ FinKept(P, w) /\ Counted(P) /\ Windows(P, w)
        /\ Closing(P, w) /\ Before(P, {}) /\ Ends(U, w) /\ P.rtime /\ ~P.persist
    BY <1>2 DEF PreOutput
  <2>2. SegQueue(A) /\ SegQueue(U) /\ U \cap A = {} /\ \A t \in U \cup A : t.seq \in Nat /\ t.len \in Nat
    BY <2>1, SegFacts DEF Lists, SegQueue
  <2>3. s \in A /\ s \in Segment
    BY <1>2, <2>2, FirstFacts DEF SegQueue
  <2> HIDE DEF s
  <2>4. A \ {s} \in SUBSET Segment /\ U \cup {s} \in SUBSET Segment
    BY <2>2, <2>3 DEF SegQueue
  <2>5. MaxWnd \in Cut(MSS) .. MaxWnd
    BY SendAssumption DEF Cut, Lesser
  <2>6. Q = [P EXCEPT !.unacked = A \ {s}, !.unsent = U \cup {s}, !.nrtx = P.nrtx + 1,
                      !.cwnd = MaxWnd, !.infr = TRUE, !.rtime = TRUE]
    BY <1>2, <2>1 DEF RexmitFast, PcbType, s
  <2>7. P.nrtx + 1 \in Nat
    BY <2>1 DEF PcbType
  <2> HIDE DEF Q
  <2>8. Q \in PcbType
    BY <2>1, <2>4, <2>5, <2>6, <2>7 DEF PcbType
  <2>9. /\ Q.unsent = U \cup {s} /\ Q.unacked = A \ {s} /\ Q.cwnd = MaxWnd
        /\ Q.state = P.state /\ Q.lastack = P.lastack /\ Q.snd_lbb = P.snd_lbb
        /\ Q.snd_buf = P.snd_buf /\ Q.snd_queuelen = P.snd_queuelen /\ Q.snd_wnd = P.snd_wnd
        /\ Q.snd_wl2 = P.snd_wl2 /\ Q.snd_nxt = P.snd_nxt /\ Q.closepend = P.closepend
        /\ Q.rtime = TRUE /\ Q.persist = P.persist
    BY <2>1, <2>6 DEF PcbType
  <2>10. Queued(Q) = Queued(P) /\ Edge(Q) = Edge(P)
    BY <2>3, <2>9 DEF Queued, Edge
  <2>11. Lists(Q, w)
    <3>1. SegQueue(A \ {s}) /\ SegQueue(U \cup {s})
      BY <2>2, <2>3, SubQueue, FS_AddElement DEF SegQueue
    <3>2. (U \cup {s}) \cap (A \ {s}) = {}
      BY <2>2
    <3> QED
      BY <2>1, <2>9, <2>10, <3>1, <3>2 DEF Lists
  <2>12. FinKept(Q, w)
    BY <2>1, <2>9 DEF FinKept
  <2>13. Counted(Q) /\ Closing(Q, w) /\ Windows(Q, w)
    BY <2>1, <2>9, <2>10 DEF Counted, Closing, Windows
  <2>14. Fits(Q, s)
    <3>1. s.seq + s.len <= Edge(P) /\ P.snd_wnd <= MaxWnd
      BY <2>1, <2>3 DEF Windows
    <3>2. P.lastack \in Nat /\ P.snd_wnd \in Nat /\ MaxWnd \in Nat
      BY <2>1, PcbFacts, SendAssumption
    <3>3. Wnd(Q) = P.snd_wnd
      BY <2>9, <3>1, <3>2 DEF Wnd, Lesser
    <3> QED
      BY <2>2, <2>3, <2>9, <3>1, <3>2, <3>3 DEF Fits, Edge
  <2>15. {s} \subseteq Sendable(Q)
    <3>1. \A t \in U : ~(t.seq <= s.seq)
      BY <2>1, <2>2, <2>3 DEF Before
    <3> QED
      BY <2>9, <2>14, <3>1 DEF Sendable
  <2>16. Before(Q, {s})
    <3>1. \A p \in A, t \in U : p.seq < t.seq
      BY <2>1 DEF Before
    <3>2. Q.unacked \cup {s} = A /\ Q.unsent \ {s} = U
      BY <2>2, <2>3, <2>9
    <3> QED
      BY <3>1, <3>2 DEF Before
  <2>17. Ends(Q.unsent \ {s}, w)
    <3>1. Q.unsent \ {s} = U
      BY <2>2, <2>3, <2>9
    <3> QED
      BY <2>1, <3>1
  <2>18. PreOutput(Q, w, {s})
    BY <2>1, <2>8, <2>9, <2>11, <2>12, <2>13, <2>15, <2>16, <2>17 DEF PreOutput
  <2>19. {s} \in SUBSET Segment
    BY <2>3
  <2>20. \E S \in SUBSET Segment : PreOutput(Q, w, S)
    BY <2>18, <2>19
  <2> QED
    BY <2>9, <2>10, <2>20 DEF Q
<1> QED
  BY <1>1, <1>2

\* An ACK of nothing new may widen the window.
LEMMA OldAckKeeps ==
  ASSUME NEW w \in Nat, NEW P, PreOutput(P, w, {}),
         NEW a \in [ack : Nat, wnd : Nat], a.wnd <= MaxWnd, a.ack <= P.lastack, NEW edge
  PROVE  Received(OldAck(WindowUpdate(P, a.ack, a.wnd), a.ack, edge), P, a, w)
<1> DEFINE U == WindowUpdate(P, a.ack, a.wnd)
<1>1. P \in PcbType /\ Lists(P, w) /\ FinKept(P, w) /\ Counted(P) /\ Windows(P, w)
      /\ Closing(P, w) /\ Before(P, {}) /\ Ends(P.unsent \ {}, w)
      /\ (P.unacked # {} => P.rtime /\ ~P.persist)
  BY DEF PreOutput
<1>2. P.lastack \in Nat /\ P.snd_wnd \in Nat /\ P.snd_wnd_max \in Nat /\ P.snd_wl2 = P.lastack
  BY <1>1, PcbFacts DEF Windows
<1>3. /\ U \in PcbType
      /\ U.unsent = P.unsent /\ U.unacked = P.unacked
      /\ U.state = P.state /\ U.lastack = P.lastack /\ U.snd_lbb = P.snd_lbb
      /\ U.snd_buf = P.snd_buf /\ U.snd_queuelen = P.snd_queuelen
      /\ U.snd_nxt = P.snd_nxt /\ U.closepend = P.closepend
      /\ U.rtime = P.rtime /\ U.persist = P.persist
      /\ U.snd_wl2 = P.lastack
      /\ \/ U.snd_wnd = P.snd_wnd
         \/ U.snd_wnd = a.wnd /\ a.ack = P.lastack /\ a.wnd > P.snd_wnd
  <2>1. CASE P.snd_wl2 = a.ack /\ a.wnd > P.snd_wnd
    <3>1. U = [P EXCEPT !.snd_wnd = a.wnd, !.snd_wnd_max = Greater(P.snd_wnd_max, a.wnd),
                        !.snd_wl2 = a.ack]
      BY <1>1, <2>1 DEF WindowUpdate, PcbType
    <3>2. Greater(P.snd_wnd_max, a.wnd) \in Nat
      BY <1>2 DEF Greater
    <3> HIDE DEF U
    <3>3. U \in PcbType
      BY <1>1, <3>1, <3>2 DEF PcbType
    <3> QED
      BY <1>1, <1>2, <2>1, <3>1, <3>3, ZenonT(30) DEF PcbType
  <2>2. CASE ~(P.snd_wl2 = a.ack /\ a.wnd > P.snd_wnd)
    <3>1. ~(P.snd_wl2 < a.ack)
      BY <1>2
    <3>2. U = P
      BY <2>2, <3>1 DEF WindowUpdate
    <3> QED
      BY <1>1, <1>2, <3>2
  <2> QED
    BY <2>1, <2>2
<1> HIDE DEF U
<1>4. U.snd_wnd \in Nat /\ U.snd_wnd >= P.snd_wnd /\ U.snd_wnd <= MaxWnd
  BY <1>1, <1>2, <1>3 DEF Windows
<1> DEFINE dup == P.snd_wl2 + P.snd_wnd = edge
           D == [U EXCEPT !.dupacks = IF U.snd_wl2 + U.snd_wnd = edge /\ U.rtime /\ U.lastack = a.ack
                                      THEN Lesser(@ + 1, 3) ELSE 0,
                          !.cwnd = IF (U.snd_wl2 + U.snd_wnd = edge /\ U.rtime /\ U.lastack = a.ack)
                                      /\ U.dupacks = 3
                                   THEN Cut(@ + MSS) ELSE @]
<1>5. /\ D \in PcbType
      /\ D.unsent = P.unsent /\ D.unacked = P.unacked
      /\ D.state = P.state /\ D.lastack = P.lastack /\ D.snd_lbb = P.snd_lbb
      /\ D.snd_buf = P.snd_buf /\ D.snd_queuelen = P.snd_queuelen
      /\ D.snd_nxt = P.snd_nxt /\ D.closepend = P.closepend
      /\ D.rtime = P.rtime /\ D.persist = P.persist
      /\ D.snd_wl2 = P.lastack /\ D.snd_wnd = U.snd_wnd
  <2> DEFINE d == IF U.snd_wl2 + U.snd_wnd = edge /\ U.rtime /\ U.lastack = a.ack
                  THEN Lesser(U.dupacks + 1, 3) ELSE 0
             e == IF (U.snd_wl2 + U.snd_wnd = edge /\ U.rtime /\ U.lastack = a.ack) /\ U.dupacks = 3
                  THEN Cut(U.cwnd + MSS) ELSE U.cwnd
  <2>1. d \in 0 .. 3
    <3>1. U.dupacks \in 0 .. 3
      BY <1>3 DEF PcbType
    <3> QED
      BY <3>1 DEF Lesser
  <2>4. e \in Cut(MSS) .. MaxWnd
    BY <1>3, SendAssumption DEF PcbType, Cut, Lesser
  <2>2. D = [U EXCEPT !.dupacks = d, !.cwnd = e]
    BY <1>3 DEF PcbType
  <2> HIDE DEF d, e, D
  <2>3. D \in PcbType
    BY <1>3, <2>1, <2>4, <2>2 DEF PcbType
  <2> QED
    BY <1>3, <2>2, <2>3 DEF PcbType
<1>6. OldAck(U, a.ack, edge) = IF D.dupacks = 3 THEN RexmitFast(D) ELSE D
  BY DEF OldAck
<1> HIDE DEF D
<1>7. Queued(D) = Queued(P)
  BY <1>5 DEF Queued
<1>8. Edge(D) >= Edge(P) /\ \A s \in Queued(P) : s.seq + s.len <= Edge(P) => s.seq + s.len <= Edge(D)
  <2>1. \A s \in Queued(P) : s.seq \in Nat /\ s.len \in Nat
    BY <1>1, SegFacts DEF Lists, SegQueue, Queued
  <2>2. Edge(D) = P.lastack + U.snd_wnd /\ Edge(P) = P.lastack + P.snd_wnd
    BY <1>5 DEF Edge
  <2> QED
    BY <1>2, <1>4, <2>1, <2>2
<1>9. PreOutput(D, w, {})
  <2>1. Lists(D, w) /\ FinKept(D, w) /\ Counted(D) /\ Closing(D, w) /\ Before(D, {})
    BY <1>1, <1>5, <1>7 DEF Lists, FinKept, Counted, Closing, Before
  <2>2. \A s \in D.unacked : s.seq + s.len <= Edge(D)
    BY <1>1, <1>5, <1>8 DEF Windows, Queued
  <2>3. Windows(D, w)
    BY <1>1, <1>4, <1>5, <2>2 DEF Windows
  <2> QED
    BY <1>1, <1>5, <2>1, <2>3 DEF PreOutput
<1>10. \/ D.lastack = P.lastack /\ Edge(D) = Edge(P)
       \/ D.lastack = a.ack /\ Edge(D) = AckEdge(a)
  BY <1>3, <1>5 DEF Edge, AckEdge
<1>11. Received(D, P, a, w)
  BY <1>5, <1>8, <1>9, <1>10 DEF Received
<1>12. Received(RexmitFast(D), P, a, w)
  <2> DEFINE R == RexmitFast(D)
  <2>1. /\ \E S \in SUBSET Segment : PreOutput(R, w, S)
        /\ R.snd_nxt = D.snd_nxt /\ R.state = D.state /\ R.closepend = D.closepend
        /\ R.lastack = D.lastack /\ Edge(R) = Edge(D)
    BY <1>9, RexmitFastKeeps
  <2> HIDE DEF R
  <2>2. Received(R, P, a, w)
    BY <1>5, <1>8, <1>10, <2>1 DEF Received
  <2> QED
    BY <2>2 DEF R
<1>13. Received(OldAck(U, a.ack, edge), P, a, w)
  BY <1>6, <1>11, <1>12
<1> QED
  BY <1>13 DEF U

\* tcp_free_acked_segments.
LEMMA AckedFacts ==
  ASSUME NEW Q, Q \subseteq Segment, NEW ack \in Nat
  PROVE  /\ Acked(Q, ack) \subseteq Q
         /\ \A s \in Acked(Q, ack) : End(s) <= ack
         /\ \A s \in Acked(Q, ack), t \in Q : t.seq <= s.seq => t \in Acked(Q, ack)
         /\ \A t \in Q \ Acked(Q, ack) : \E r \in Q : r.seq <= t.seq /\ End(r) > ack
<1>1. \A s \in Q : s.seq \in Nat /\ End(s) \in Nat
  BY SegFacts
<1>2. Acked(Q, ack) \subseteq Q
  BY DEF Acked
<1>3. \A s \in Acked(Q, ack) : End(s) <= ack
  BY <1>1 DEF Acked
<1>4. ASSUME NEW s \in Acked(Q, ack), NEW t \in Q, t.seq <= s.seq PROVE t \in Acked(Q, ack)
  <2>1. \A r \in Q : r.seq <= t.seq => r.seq <= s.seq
    BY <1>1, <1>2, <1>4
  <2> QED
    BY <2>1 DEF Acked
<1>5. ASSUME NEW t \in Q \ Acked(Q, ack) PROVE \E r \in Q : r.seq <= t.seq /\ End(r) > ack
  BY <1>1 DEF Acked
<1> QED
  BY <1>2, <1>3, <1>4, <1>5

\* An ACK of a FIN cannot leave a segment of the same queue behind.
LEMMA AckLeavesTail ==
  ASSUME NEW w \in Nat, NEW ack \in Nat, NEW P, Lists(P, w), Before(P, {}), Ends(P.unsent, w)
  PROVE  /\ Ends(P.unsent \ Acked(P.unsent, ack), w)
         /\ Ends((P.unsent \ Acked(P.unsent, ack)) \cup (P.unacked \ Acked(P.unacked, ack)), w)
<1> DEFINE U == P.unsent
           A == P.unacked
           X == Acked(U, ack)
           Y == Acked(A, ack)
<1>1. /\ U \subseteq Segment /\ A \subseteq Segment /\ Sorted(U) /\ Sorted(A) /\ Sorted(U \cup A)
      /\ Ends(U, w) /\ Ends(U \cup A, w)
      /\ \A s \in U \cup A : Part(s, P.state, w) /\ s.seq + s.len <= w
      /\ \A s \in A, t \in U : s.seq < t.seq
  BY DEF Lists, SegQueue, Queued, Sorted, Part, Before
<1>2. \A s \in U \cup A : /\ s.seq \in Nat /\ s.len \in Nat /\ s.fin \in BOOLEAN
                          /\ End(s) = s.seq + s.len + (IF s.fin THEN 1 ELSE 0) /\ End(s) \in Nat
  BY <1>1, SegFacts
<1>3. /\ X \subseteq U /\ \A s \in X : End(s) <= ack
      /\ \A s \in X, t \in U : t.seq <= s.seq => t \in X
  BY <1>1, AckedFacts
<1>4. /\ Y \subseteq A /\ \A s \in Y, t \in A : t.seq <= s.seq => t \in Y
      /\ \A t \in A \ Y : \E r \in A : r.seq <= t.seq /\ End(r) > ack
  BY <1>1, AckedFacts
<1> HIDE DEF X, Y, U, A
<1>5. Ends(U \ X, w)
  BY <1>1, <1>3, RestEnds
<1>6. Ends((U \ X) \cup (A \ Y), w)
  <2>1. CASE U \ X # {}
    BY <1>5, <2>1 DEF Ends
  <2>2. CASE U \ X = {} /\ U # {} /\ A \ Y # {}
    <3>1. PICK t \in A \ Y : TRUE
      BY <2>2
    <3>2. PICK r \in A : r.seq <= t.seq /\ End(r) > ack
      BY <1>4, <3>1
    <3>3. PICK u \in U : u \in X
      BY <1>3, <2>2
    <3>4. r.seq < u.seq /\ r # u
      BY <1>1, <1>2, <3>2, <3>3
    <3>5. r.seq + r.len <= u.seq
      BY <1>1, <3>2, <3>3, <3>4 DEF Sorted
    <3>6. End(u) <= ack
      BY <1>3, <3>3
    <3>7. End(r) <= u.seq + 1
      BY <1>2, <3>2, <3>5
    <3>8. u.len = 0 /\ u.fin = FALSE
      BY <1>2, <3>2, <3>3, <3>6, <3>7
    <3>9. Part(u, P.state, w)
      BY <1>1, <3>3
    <3> QED
      BY <3>8, <3>9 DEF Part
  <2>3. CASE U = {}
    <3>1. Ends(A, w) /\ \A s \in A : s.seq + s.len <= w
      BY <1>1, <2>3
    <3>2. Ends(A \ Y, w)
      BY <1>1, <1>4, <3>1, RestEnds
    <3> QED
      BY <2>3, <3>2
  <2>4. CASE U \ X = {} /\ A \ Y = {}
    BY <2>4 DEF Ends
  <2> QED
    BY <2>1, <2>2, <2>3, <2>4
<1> QED
  BY <1>5, <1>6 DEF U, A, X, Y

\* The queues once the segments up to ack are freed.
LEMMA AckLists ==
  ASSUME NEW w \in Nat, NEW ack \in Nat, NEW P, Lists(P, w), Before(P, {}), Ends(P.unsent, w),
         P.lastack \in Nat, P.lastack < ack,
         NEW Q, Q.unsent = P.unsent \ Acked(P.unsent, ack),
         Q.unacked = P.unacked \ Acked(P.unacked, ack), Q.lastack = ack, Q.state = P.state
  PROVE  /\ Lists(Q, w) /\ Before(Q, {}) /\ Ends(Q.unsent, w)
         /\ Bytes(Queued(Q)) = Bytes(Queued(P)) - Bytes(Freed(P, ack))
         /\ PbufsOf(Queued(Q)) = PbufsOf(Queued(P)) - PbufsOf(Freed(P, ack))
         /\ Bytes(Freed(P, ack)) \in Nat /\ PbufsOf(Freed(P, ack)) \in Nat
<1> DEFINE U == P.unsent
           A == P.unacked
           X == Acked(U, ack)
           Y == Acked(A, ack)
<1>1. /\ SegQueue(U) /\ SegQueue(A) /\ U \cap A = {} /\ U \subseteq Segment /\ A \subseteq Segment
      /\ Sorted(Queued(P)) /\ Linked(Queued(P), P.lastack) /\ Covered(Queued(P), P.lastack, w)
      /\ Queued(P) = U \cup A /\ \A s \in Queued(P) : Part(s, P.state, w)
  BY DEF Lists, SegQueue, Queued
<1>2. X \subseteq U /\ \A s \in X : End(s) <= ack
  BY <1>1, AckedFacts
<1>3. Y \subseteq A /\ \A s \in Y : End(s) <= ack
  BY <1>1, AckedFacts
<1>4. Freed(P, ack) = X \cup Y
  BY DEF Freed
<1>5. Q.unsent = U \ X /\ Q.unacked = A \ Y
  OBVIOUS
<1> HIDE DEF X, Y, U, A
<1>6. Queued(Q) = Queued(P) \ Freed(P, ack) /\ Freed(P, ack) \subseteq Queued(P)
  BY <1>1, <1>2, <1>3, <1>4, <1>5 DEF Queued
<1>7. SegQueue(Queued(P)) /\ SegQueue(Freed(P, ack)) /\ SegQueue(Queued(Q))
  <2>1. SegQueue(Queued(P))
    BY <1>1, QueueSumsUnion
  <2> QED
    BY <1>6, <2>1, SubQueue
<1>8. /\ Bytes(Queued(Q)) = Bytes(Queued(P)) - Bytes(Freed(P, ack))
      /\ PbufsOf(Queued(Q)) = PbufsOf(Queued(P)) - PbufsOf(Freed(P, ack))
  BY <1>6, <1>7, QueueSumsMinus
<1>9. Bytes(Freed(P, ack)) \in Nat /\ PbufsOf(Freed(P, ack)) \in Nat
  BY <1>7, QueueSums
<1>10. Ends(Q.unsent, w) /\ Ends(Queued(Q), w)
  <2>1. Ends(U \ X, w) /\ Ends((U \ X) \cup (A \ Y), w)
    BY AckLeavesTail DEF U, A, X, Y
  <2> QED
    BY <1>5, <2>1 DEF Queued
<1>11. Before(Q, {})
  BY <1>5 DEF Before, U, A
<1>12. \A s \in Queued(P) : /\ s.seq \in Nat /\ s.len \in Nat /\ End(s) \in Nat
                            /\ End(s) >= s.seq + s.len
  BY <1>7, SegFacts DEF SegQueue
<1>13. \A s \in Queued(P) : End(s) > ack => s \in Queued(Q)
  BY <1>2, <1>3, <1>4, <1>6, <1>12
<1>14. Linked(Queued(Q), ack)
  <2> SUFFICES ASSUME NEW s \in Queued(Q), ~(s.seq <= ack)
               PROVE  \E t \in Queued(Q) : t.seq < s.seq /\ t.seq + t.len = s.seq
    BY DEF Linked
  <2>1. s \in Queued(P) /\ ~(s.seq <= P.lastack)
    BY <1>6, <1>12
  <2>2. PICK t \in Queued(P) : t.seq < s.seq /\ t.seq + t.len = s.seq
    BY <1>1, <2>1 DEF Linked
  <2>3. t \in Queued(Q)
    BY <1>12, <1>13, <2>1, <2>2
  <2> QED
    BY <2>2, <2>3
<1>15. Covered(Queued(Q), ack, w)
  <2> SUFFICES ASSUME NEW b \in ack .. w - 1
               PROVE  \E s \in Queued(Q) : s.seq <= b /\ b < s.seq + s.len
    BY DEF Covered
  <2>1. PICK s \in Queued(P) : s.seq <= b /\ b < s.seq + s.len
    BY <1>1 DEF Covered
  <2>2. s \in Queued(Q)
    BY <1>12, <1>13, <2>1
  <2> QED
    BY <2>1, <2>2
<1>16. Lists(Q, w)
  <2>1. SegQueue(Q.unsent) /\ SegQueue(Q.unacked) /\ Q.unsent \cap Q.unacked = {}
    BY <1>1, <1>5, SubQueue
  <2>2. Sorted(Queued(Q)) /\ \A s \in Queued(Q) : Part(s, Q.state, w)
    BY <1>1, <1>6 DEF Sorted
  <2> QED
    BY <1>10, <1>14, <1>15, <2>1, <2>2 DEF Lists
<1> QED
  BY <1>8, <1>9, <1>10, <1>11, <1>16

\* An ACK of something new.
LEMMA NewAckKeeps ==
  ASSUME NEW w \in Nat, NEW P, PreOutput(P, w, {}),
         NEW a \in [ack : Nat, wnd : Nat], a.wnd <= MaxWnd, a.ack > P.lastack,
         a.ack <= P.snd_nxt, AckEdge(a) >= Edge(P)
  PROVE  Received(NewAck(WindowUpdate(P, a.ack, a.wnd), a.ack), P, a, w)
<1> DEFINE ack == a.ack
           V == WindowUpdate(P, ack, a.wnd)
           Q == NewAck(V, ack)
           U == P.unsent
           A == P.unacked
<1>1. P \in PcbType /\ Lists(P, w) /\ FinKept(P, w) /\ Counted(P) /\ Windows(P, w)
      /\ Closing(P, w) /\ Before(P, {}) /\ Ends(P.unsent, w)
      /\ (P.unacked # {} => P.rtime /\ ~P.persist)
  BY DEF PreOutput
<1>2. /\ P.lastack \in Nat /\ P.snd_wnd \in Nat /\ P.snd_wnd_max \in Nat /\ P.snd_wl2 = P.lastack
      /\ P.snd_nxt \in Nat /\ P.cwnd \in Cut(MSS) .. MaxWnd /\ Edge(P) \in Nat /\ ack \in Nat
      /\ a.wnd \in Nat /\ MSS \in Nat /\ MaxWnd \in Nat /\ Cut(MSS) \in Nat /\ Cut(MSS) <= MaxWnd
      /\ SndBuf \in Nat /\ P.snd_queuelen \in Nat /\ P.snd_buf \in 0 .. SndBuf
  BY <1>1, PcbFacts, SendAssumption DEF Windows, Cut, Lesser
<1>3. V = [P EXCEPT !.snd_wnd = a.wnd, !.snd_wnd_max = Greater(P.snd_wnd_max, a.wnd), !.snd_wl2 = ack]
  BY <1>1, <1>2 DEF WindowUpdate, PcbType
<1>4. Greater(P.snd_wnd_max, a.wnd) \in Nat
  BY <1>2 DEF Greater
<1>5. /\ V \in PcbType /\ V.unsent = U /\ V.unacked = A /\ V.cwnd = P.cwnd /\ V.lastack = P.lastack
      /\ V.snd_wnd = a.wnd /\ V.snd_wl2 = ack /\ V.snd_buf = P.snd_buf /\ V.state = P.state
      /\ V.snd_queuelen = P.snd_queuelen /\ V.snd_nxt = P.snd_nxt /\ V.closepend = P.closepend
      /\ V.persist = P.persist /\ V.snd_lbb = P.snd_lbb
  <2> HIDE DEF V
  <2>1. V \in PcbType
    BY <1>1, <1>2, <1>3, <1>4 DEF PcbType
  <2> QED
    BY <1>1, <1>3, <2>1 DEF PcbType
<1> HIDE DEF V
<1> DEFINE X == Acked(U, ack)
           Y == Acked(A, ack)
           F == Freed(P, ack)
           cw == IF V.infr THEN MaxWnd ELSE Cut(V.cwnd + Lesser(ack - V.lastack, MSS))
<1>6. Freed(V, ack) = F
  BY <1>5 DEF Freed
<1>7. cw \in Cut(MSS) .. MaxWnd
  <2>1. Lesser(ack - P.lastack, MSS) \in Nat
    BY <1>2 DEF Lesser
  <2>2. Cut(P.cwnd + Lesser(ack - P.lastack, MSS)) \in Cut(MSS) .. MaxWnd
    <3> DEFINE g == Lesser(ack - P.lastack, MSS)
    <3> HIDE DEF g
    <3> QED
      BY <1>2, <2>1 DEF Cut, Lesser, g
  <2> QED
    BY <1>2, <1>5, <2>2
<1>8. Q = [V EXCEPT !.infr = FALSE, !.nrtx = 0, !.dupacks = 0, !.lastack = ack, !.cwnd = cw,
                    !.unacked = A \ Y, !.unsent = U \ X,
                    !.snd_queuelen = P.snd_queuelen - PbufsOf(F), !.snd_buf = P.snd_buf + Bytes(F),
                    !.rtime = (A # Y)]
  BY <1>5, <1>6 DEF NewAck, PcbType
<1> HIDE DEF Q, cw, X, Y, F
<1>9. /\ Q.unsent = U \ X /\ Q.unacked = A \ Y /\ Q.lastack = ack /\ Q.state = P.state
      /\ Q.snd_queuelen = P.snd_queuelen - PbufsOf(F) /\ Q.snd_buf = P.snd_buf + Bytes(F)
      /\ Q.snd_wnd = a.wnd /\ Q.snd_wl2 = ack /\ Q.snd_nxt = P.snd_nxt
      /\ Q.closepend = P.closepend /\ Q.persist = P.persist /\ Q.snd_lbb = P.snd_lbb
      /\ Q.rtime = (A # Y)
  BY <1>5, <1>8 DEF PcbType
<1>10. /\ Lists(Q, w) /\ Before(Q, {}) /\ Ends(Q.unsent, w)
       /\ Bytes(Queued(Q)) = Bytes(Queued(P)) - Bytes(F)
       /\ PbufsOf(Queued(Q)) = PbufsOf(Queued(P)) - PbufsOf(F)
       /\ Bytes(F) \in Nat /\ PbufsOf(F) \in Nat
  BY <1>1, <1>2, <1>9, AckLists, ZenonT(30) DEF X, Y, F
<1>11. SegQueue(Queued(Q)) /\ SegQueue(Queued(P))
  BY <1>1, <1>10, QueueSumsUnion DEF Lists, Queued
<1>12. /\ Bytes(Queued(Q)) \in Nat /\ PbufsOf(Queued(Q)) \in Nat
       /\ Bytes(Queued(P)) \in Nat /\ PbufsOf(Queued(P)) \in Nat
  BY <1>11, QueueSums
<1>13. /\ P.snd_queuelen - PbufsOf(F) = PbufsOf(Queued(Q))
       /\ P.snd_buf + Bytes(F) = SndBuf - Bytes(Queued(Q))
       /\ P.snd_buf + Bytes(F) \in 0 .. SndBuf /\ P.snd_queuelen - PbufsOf(F) \in Nat
  BY <1>1, <1>2, <1>10, <1>12 DEF Counted
<1>14. Q \in PcbType
  <2>1. U \ X \in SUBSET Segment /\ A \ Y \in SUBSET Segment
    BY <1>1 DEF Lists, SegQueue
  <2>2. (A # Y) \in BOOLEAN /\ 0 \in 0 .. 3
    OBVIOUS
  <2> DEFINE ql == P.snd_queuelen - PbufsOf(F)
             sb == P.snd_buf + Bytes(F)
             rt == (A # Y)
             ua == A \ Y
             us == U \ X
  <2>3. ql \in Nat /\ sb \in 0 .. SndBuf /\ rt \in BOOLEAN
    BY <1>13
  <2>4. us \in SUBSET Segment /\ ua \in SUBSET Segment
    BY <2>1
  <2>5. Q = [V EXCEPT !.infr = FALSE, !.nrtx = 0, !.dupacks = 0, !.lastack = ack, !.cwnd = cw,
                      !.unacked = ua, !.unsent = us, !.snd_queuelen = ql, !.snd_buf = sb,
                      !.rtime = rt]
    BY <1>8
  <2> HIDE DEF ql, sb, rt, ua, us
  <2> QED
    BY <1>2, <1>5, <1>7, <2>2, <2>3, <2>4, <2>5, ZenonT(30) DEF PcbType
<1>15. Counted(Q)
  BY <1>9, <1>13 DEF Counted
<1>16. FinKept(Q, w)
  <2> SUFFICES ASSUME Q.state \in {"FIN_WAIT_1", "FIN_WAIT_2"}, ~(Q.snd_nxt >= w + 1)
               PROVE  \E s \in U \ X : s.fin /\ s.seq + s.len = w
    BY <1>9 DEF FinKept
  <2>1. PICK s \in U : s.fin /\ s.seq + s.len = w
    BY <1>1, <1>9 DEF FinKept
  <2>2. s \in Segment
    BY <1>1 DEF Lists, SegQueue
  <2>3. End(s) = w + 1
    BY <2>1, <2>2, SegFacts
  <2>4. s \notin X
    <3>1. U \subseteq Segment
      BY <1>1 DEF Lists, SegQueue
    <3>2. \A t \in X : End(t) <= ack
      BY <1>2, <3>1, AckedFacts DEF X
    <3> QED
      BY <1>2, <1>9, <2>3, <3>2
  <2> QED
    BY <2>1, <2>4
<1>17. Edge(Q) = AckEdge(a) /\ AckEdge(a) \in Nat
  BY <1>2, <1>9 DEF Edge, AckEdge
<1>18. Windows(Q, w)
  <2>1. \A s \in A : s.seq + s.len <= Edge(P) /\ s.seq \in Nat /\ s.len \in Nat
    BY <1>1, SegFacts DEF Windows, Lists, SegQueue
  <2>2. \A s \in Q.unacked : s.seq + s.len <= Edge(Q)
    BY <1>2, <1>9, <1>17, <2>1
  <2> QED
    BY <1>1, <1>9, <2>2 DEF Windows
<1>19. Closing(Q, w)
  BY <1>1, <1>9 DEF Closing
<1>20. Q.unacked # {} => Q.rtime /\ ~Q.persist
  <2>1. Q.unacked # {} => A # {} /\ A # Y
    BY <1>9
  <2> QED
    BY <1>1, <1>9, <2>1
<1>21. PreOutput(Q, w, {})
  BY <1>10, <1>14, <1>15, <1>16, <1>18, <1>19, <1>20 DEF PreOutput
<1>22. Received(Q, P, a, w)
  BY <1>9, <1>17, <1>21 DEF Received
<1> QED
  BY <1>22 DEF Q, V

\* tcp_receive.
LEMMA ReceiveKeeps ==
  ASSUME NEW w \in Nat, NEW P, PreOutput(P, w, {}),
         NEW a \in AckType, a.wnd <= MaxWnd, a.ack <= P.snd_nxt,
         a.ack > P.lastack => AckEdge(a) >= Edge(P)
  PROVE  Received(Receive(P, a.ack, a.wnd), P, a, w)
<1>1. P.lastack \in Nat /\ a.ack \in Nat /\ a \in [ack : Nat, wnd : Nat]
  BY PcbFacts DEF PreOutput, AckType
<1>2. WindowUpdate(P, a.ack, a.wnd).lastack = P.lastack
      /\ WindowUpdate(P, a.ack, a.wnd).snd_nxt = P.snd_nxt
  BY DEF PreOutput, WindowUpdate, PcbType
<1>3. CASE a.ack <= P.lastack
  <2>1. Receive(P, a.ack, a.wnd)
          = OldAck(WindowUpdate(P, a.ack, a.wnd), a.ack, P.snd_wl2 + P.snd_wnd)
    BY <1>3 DEF Receive
  <2> QED
    BY <1>1, <1>3, <2>1, OldAckKeeps
<1>4. CASE a.ack > P.lastack
  <2>1. ~(a.ack <= P.lastack)
    BY <1>1, <1>4
  <2>2. Receive(P, a.ack, a.wnd) = NewAck(WindowUpdate(P, a.ack, a.wnd), a.ack)
    BY <1>2, <2>1 DEF Receive
  <2> QED
    BY <1>1, <1>4, <2>2, NewAckKeeps
<1> QED
  BY <1>1, <1>3, <1>4

\* FIN_WAIT_2 is entered when everything is acknowledged, the FIN too.
Processed(Q, P, a, w) ==
  /\ \E S \in SUBSET Segment : PreOutput(Q, w, S)
  /\ Q.snd_nxt = P.snd_nxt /\ Q.closepend = P.closepend
  /\ Edge(Q) >= Edge(P)
  /\ \/ Q.lastack = P.lastack /\ Edge(Q) = Edge(P)
     \/ Q.lastack = a.ack /\ Edge(Q) = AckEdge(a)
  /\ \/ Q.state = P.state
     \/ Q.state = "FIN_WAIT_2" /\ P.state = "FIN_WAIT_1" /\ a.ack = w + 1

LEMMA ProcessKeeps ==
  ASSUME NEW w \in Nat, NEW P, PcbInv(P, w),
         NEW a \in AckType, a.wnd <= MaxWnd, a.ack <= P.snd_nxt,
         a.ack > P.lastack => AckEdge(a) >= Edge(P)
  PROVE  Processed(Process(P, a.ack, a.wnd), P, a, w)
<1> DEFINE P1 == [P EXCEPT !.persist_probe = 0]
           R == Receive(P1, a.ack, a.wnd)
           Q == [R EXCEPT !.state = "FIN_WAIT_2"]
<1>1. P \in PcbType /\ P.snd_nxt <= w + 1 /\ P.snd_nxt \in Nat
  BY PcbFacts DEF PcbInv, PreOutput, Windows
<1>2. Agrees(P1, P, w) /\ P1.snd_nxt = P.snd_nxt /\ P1.closepend = P.closepend
  BY <1>1 DEF PcbType, Agrees
<1>3. PcbInv(P1, w) /\ Edge(P1) = Edge(P)
  BY <1>2, AgreesKeeps
<1> HIDE DEF P1
<1>4. P1.state = P.state /\ P1.lastack = P.lastack
  BY <1>2 DEF Agrees
<1>5. Received(R, P1, a, w)
  BY <1>2, <1>3, <1>4, ReceiveKeeps DEF PcbInv
<1> HIDE DEF R
<1>6. PICK S \in SUBSET Segment : PreOutput(R, w, S)
  BY <1>5 DEF Received
<1>7. /\ R.snd_nxt = P.snd_nxt /\ R.state = P.state /\ R.closepend = P.closepend
      /\ Edge(R) >= Edge(P)
      /\ \/ R.lastack = P.lastack /\ Edge(R) = Edge(P)
         \/ R.lastack = a.ack /\ Edge(R) = AckEdge(a)
  BY <1>2, <1>3, <1>4, <1>5 DEF Received
<1>8. CASE R.state = "FIN_WAIT_1" /\ a.ack = R.snd_nxt /\ R.unsent = {}
  <2>1. Process(P, a.ack, a.wnd) = Q
    BY <1>8 DEF Process, R, P1
  <2>2. R \in PcbType /\ Lists(R, w) /\ FinKept(R, w) /\ Counted(R) /\ Windows(R, w)
        /\ Closing(R, w)
    BY <1>6 DEF PreOutput
  <2>3. R.snd_nxt >= w + 1
    BY <1>8, <2>2 DEF FinKept
  <2>4. a.ack = w + 1
    BY <1>1, <1>7, <1>8, <2>3
  <2>5. /\ Q \in PcbType /\ Q.unsent = R.unsent /\ Q.unacked = R.unacked
        /\ Q.state = "FIN_WAIT_2" /\ Q.lastack = R.lastack /\ Q.snd_buf = R.snd_buf
        /\ Q.snd_queuelen = R.snd_queuelen /\ Q.snd_wnd = R.snd_wnd /\ Q.snd_wl2 = R.snd_wl2
        /\ Q.snd_nxt = R.snd_nxt /\ Q.closepend = R.closepend
        /\ Q.rtime = R.rtime /\ Q.persist = R.persist
    BY <2>2 DEF PcbType
  <2> HIDE DEF Q
  <2>6. Queued(Q) = Queued(R) /\ Edge(Q) = Edge(R)
    BY <2>5 DEF Queued, Edge
  <2>7. Lists(Q, w)
    BY <1>8, <2>2, <2>5, <2>6 DEF Lists, Part
  <2>8. FinKept(Q, w) /\ Counted(Q) /\ Windows(Q, w) /\ Closing(Q, w)
    BY <1>8, <2>2, <2>3, <2>5, <2>6 DEF FinKept, Counted, Windows, Closing
  <2>9. Before(Q, {}) /\ Ends(Q.unsent \ {}, w) /\ {} \subseteq Sendable(Q)
    BY <1>8, <2>5 DEF Before, Ends
  <2>10. Q.unacked # {} => Q.rtime /\ ~Q.persist
    BY <1>6, <2>5 DEF PreOutput
  <2>11. PreOutput(Q, w, {})
    BY <2>5, <2>7, <2>8, <2>9, <2>10 DEF PreOutput
  <2>12. \E Z \in SUBSET Segment : PreOutput(Q, w, Z)
    BY <2>11
  <2>13. Processed(Q, P, a, w)
    BY <1>7, <1>8, <2>4, <2>5, <2>6, <2>12 DEF Processed
  <2> QED
    BY <2>1, <2>13
<1>9. CASE ~(R.state = "FIN_WAIT_1" /\ a.ack = R.snd_nxt /\ R.unsent = {})
  <2>1. Process(P, a.ack, a.wnd) = R
    BY <1>9 DEF Process, R, P1
  <2>2. Processed(R, P, a, w)
    BY <1>6, <1>7 DEF Processed
  <2> QED
    BY <2>1, <2>2
<1> QED
  BY <1>8, <1>9

-------------------------------------------------------------------------------
(* The network and the peer. *)

\* P became O, having sent wire.
LEMMA PeerFollows ==
  ASSUME NEW w \in Nat, NEW v \in Nat, w <= v, NEW p \in PeerType, NEW d, NEW as,
         as \subseteq AckType,
         NEW P, PcbInv(P, w), PeerInv(P, w, p, d, as), NEW O, PcbInv(O, v),
         O.snd_nxt >= P.snd_nxt, Edge(O) <= p.edge,
         \A a \in as : a.ack > O.lastack => AckEdge(a) >= Edge(O),
         O.state = "FIN_WAIT_2" => p.eof /\ p.next = v + 1,
         NEW wire, WireInv(wire, O, v, p.edge), NEW f, f \subseteq d \cup wire,
         NEW bs \in SUBSET as
  PROVE  PeerInv(O, v, p, f, bs)
<1>1. P.snd_nxt \in Nat /\ O.snd_nxt \in Nat /\ p.next \in Nat /\ p.edge \in Nat
  BY PcbFacts DEF PcbInv, PreOutput, PeerType
<1>2. WireInv(d, P, w, p.edge)
  BY DEF PeerInv
<1>3. WireInv(d, O, v, p.edge)
  BY <1>1, <1>2, WireLasts
<1>4. WireInv(f, O, v, p.edge)
  BY <1>3 DEF WireInv
<1>5. p.next <= O.snd_nxt /\ (~p.eof => p.next <= v)
  BY <1>1 DEF PeerInv
<1> QED
  BY <1>4, <1>5 DEF PeerInv

\* A step of the pcb alone, which neither the ACKs nor the peer see.
LEMMA StepFollows ==
  ASSUME NEW w \in Nat, NEW v \in Nat, w <= v, NEW p \in PeerType, NEW d, NEW as,
         as \subseteq AckType,
         NEW P, PcbInv(P, w), PeerInv(P, w, p, d, as), NEW O, NEW wire, StepGood(O, wire, P, v),
         v = w \/ P.state = "ESTABLISHED",
         NEW f, f \subseteq d \cup wire
  PROVE  PcbInv(O, v) /\ PeerInv(O, v, p, f, as)
<1>1. /\ PcbInv(O, v) /\ O.snd_nxt >= P.snd_nxt /\ O.lastack = P.lastack /\ Edge(O) = Edge(P)
      /\ O.state = P.state \/ O.state = "FIN_WAIT_1"
      /\ WireInv(wire, O, v, Edge(P))
  BY DEF StepGood
<1>2. O.snd_nxt \in Nat /\ Edge(P) \in Nat /\ p.edge \in Nat /\ Edge(P) <= p.edge
  BY <1>1, PcbFacts DEF PcbInv, PreOutput, PeerType, PeerInv
<1>3. O.snd_nxt <= O.snd_nxt /\ v <= v
  BY <1>2
<1>4. WireInv(wire, O, v, p.edge)
  BY <1>1, <1>2, <1>3, WireLasts
<1>5. \A a \in as : a.ack > O.lastack => AckEdge(a) >= Edge(O)
  BY <1>1 DEF PeerInv
<1>6. O.state = "FIN_WAIT_2" => p.eof /\ p.next = v + 1
  BY <1>1 DEF PeerInv
<1>7. as \in SUBSET as /\ Edge(O) <= p.edge
  BY <1>1, <1>2
<1>8. PeerInv(O, v, p, f, as)
  BY <1>1, <1>4, <1>5, <1>6, <1>7, PeerFollows
<1> QED
  BY <1>1, <1>8

\* The peer moves on, and may answer with ACK b.
\* The peer's state q is one it can move to from p: it forgets nothing.
Onward(P, w, p, q) ==
  /\ q.next >= p.next /\ q.edge >= p.edge /\ q.next <= q.edge /\ q.edge <= q.next + MaxWnd
  /\ q.next <= P.snd_nxt /\ (~q.eof => q.next <= w)
  /\ P.state = "FIN_WAIT_2" => q.eof /\ q.next = w + 1

\* The acknowledgement a peer in state q sends.
AckOf(q) == [ack |-> q.next, wnd |-> q.edge - q.next]

LEMMA PeerMoves ==
  ASSUME NEW w \in Nat, NEW p \in PeerType, NEW q \in PeerType, NEW d, NEW as \in SUBSET AckType,
         NEW P, PcbInv(P, w), PeerInv(P, w, p, d, as), Onward(P, w, p, q),
         NEW f \in SUBSET d, NEW bs \in SUBSET (as \cup {AckOf(q)})
  PROVE  PeerInv(P, w, q, f, bs) /\ bs \subseteq AckType
<1> DEFINE b == AckOf(q)
<1> USE DEF Onward, AckOf
<1>1. /\ P.snd_nxt \in Nat /\ P.lastack \in Nat /\ Edge(P) \in Nat
      /\ p.next \in Nat /\ p.edge \in Nat /\ q.next \in Nat /\ q.edge \in Nat /\ MaxWnd \in Nat
  BY PcbFacts, SendAssumption DEF PcbInv, PreOutput, PeerType
<1>2. b \in AckType /\ b.ack = q.next /\ b.wnd <= MaxWnd /\ AckEdge(b) = q.edge
  BY <1>1 DEF AckType, AckEdge
<1>3. \A a \in as : a.ack \in Nat /\ a.wnd \in Nat /\ AckEdge(a) \in Nat
  <2> TAKE a \in as
  <2>1. a.ack \in Nat /\ a.wnd \in Nat
    BY DEF AckType
  <2> QED
    BY <2>1 DEF AckEdge
<1>4. WireInv(f, P, w, q.edge)
  <2>1. WireInv(d, P, w, p.edge)
    BY DEF PeerInv
  <2>2. w <= w /\ P.snd_nxt <= P.snd_nxt
    BY <1>1
  <2>3. WireInv(d, P, w, q.edge)
    BY <1>1, <2>1, <2>2, WireLasts
  <2> QED
    BY <2>3 DEF WireInv
<1>5. Edge(P) <= p.edge /\ Edge(P) <= q.edge
  BY <1>1 DEF PeerInv
<1>6. \A e \in as : /\ e.ack <= p.next /\ AckEdge(e) <= p.edge /\ e.wnd <= MaxWnd
                    /\ e.ack > P.lastack => AckEdge(e) >= Edge(P)
                    /\ e.ack <= q.next /\ AckEdge(e) <= q.edge
  <2> TAKE e \in as
  <2>1. /\ e.ack <= p.next /\ AckEdge(e) <= p.edge /\ e.wnd <= MaxWnd
        /\ e.ack > P.lastack => AckEdge(e) >= Edge(P)
    BY DEF PeerInv
  <2>2. e.ack \in Nat /\ AckEdge(e) \in Nat /\ p.next <= q.next /\ p.edge <= q.edge
    BY <1>1, <1>3
  <2>3. e.ack <= q.next /\ AckEdge(e) <= q.edge
    BY <1>1, <2>1, <2>2
  <2> QED
    BY <2>1, <2>3
<1>7. ASSUME NEW a \in bs
      PROVE  /\ a.ack <= q.next /\ AckEdge(a) <= q.edge /\ a.wnd <= MaxWnd
             /\ a.ack > P.lastack => AckEdge(a) >= Edge(P)
  <2>1. b.ack <= q.next /\ AckEdge(b) <= q.edge /\ AckEdge(b) >= Edge(P)
    BY <1>1, <1>2, <1>5
  <2>2. CASE a = b
    BY <1>2, <2>1, <2>2
  <2>3. CASE a \in as
    BY <1>6, <2>3
  <2> QED
    BY <2>2, <2>3
<1>9. ASSUME NEW a \in bs, NEW c \in bs, a.ack < c.ack PROVE AckEdge(a) <= AckEdge(c)
  <2>1. CASE a \in as /\ c \in as
    BY <1>9, <2>1 DEF PeerInv
  <2>2. CASE c = b
    BY <1>2, <1>7, <2>2
  <2>3. CASE a = b /\ c \in as
    <3>1. c.ack <= b.ack /\ c.ack \in Nat /\ b.ack \in Nat
      BY <1>1, <1>2, <1>3, <1>6, <2>3
    <3> QED
      BY <1>9, <2>3, <3>1
  <2> QED
    BY <2>1, <2>2, <2>3
<1>8. bs \subseteq AckType
  BY <1>2
<1> QED
  BY <1>4, <1>5, <1>7, <1>8, <1>9 DEF PeerInv

-------------------------------------------------------------------------------
(* The steps. *)

Live ==
  /\ EnvType /\ pcb.state # "gone"
  /\ PcbInv(pcb, app.written) /\ PeerInv(pcb, app.written, peer, data, acks)
  /\ AppInv(pcb, app)

LEMMA LiveFacts ==
  ASSUME Live
  PROVE  /\ app.written \in Nat /\ app.written <= MaxBytes /\ MaxBytes \in Nat
         /\ pcb \in PcbType /\ PreOutput(pcb, app.written, {})
         /\ pcb.snd_nxt \in Nat /\ peer \in PeerType /\ acks \subseteq AckType /\ app \in AppType
         /\ app.pc \in {"writing", "full", "queue", "shut"}
BY PcbFacts, SendAssumption DEF Live, EnvType, AppType, PcbInv, PreOutput

LEMMA StepHolds ==
  ASSUME Live, app' \in AppType, app'.written >= app.written,
         NEW wire, StepGood(pcb', wire, pcb, app'.written),
         app'.written = app.written \/ pcb.state = "ESTABLISHED",
         data' \subseteq data \cup wire, acks' = acks, peer' = peer, AppInv(pcb', app')
  PROVE  SendInv'
<1>1. app'.written \in Nat /\ app.written \in Nat /\ app.written <= app'.written
      /\ peer \in PeerType /\ acks \subseteq AckType
  BY LiveFacts, SendAssumption DEF AppType
<1>2. PcbInv(pcb, app.written) /\ PeerInv(pcb, app.written, peer, data, acks)
  BY DEF Live
<1>3. PcbInv(pcb', app'.written) /\ PeerInv(pcb', app'.written, peer, data', acks)
  BY <1>1, <1>2, StepFollows
<1>4. pcb'.state # "gone"
  BY <1>3 DEF PcbInv, PreOutput, Closing
<1> QED
  BY <1>1, <1>3, <1>4 DEF SendInv, EnvType

\* What the application sees of a pcb.
SameToApp(O, P) == O.state = P.state /\ O.snd_buf = P.snd_buf /\ O.closepend = P.closepend

\* The application did nothing, or was woken.
LEMMA QuietStep ==
  ASSUME Live, NEW wire, StepGood(pcb', wire, pcb, app.written), SameToApp(pcb', pcb),
         app' = app \/ Wake, data' \subseteq data \cup wire, acks' = acks, peer' = peer
  PROVE  SendInv'
<1>1. app \in AppType /\ app.written \in Nat
  BY LiveFacts
<1>2. /\ app' \in AppType /\ app'.written = app.written
      /\ app'.pc = "full" => app.pc = "full"
      /\ app'.pc # "shut" => app.pc # "shut"
  <2>1. CASE app' = app
    BY <1>1, <2>1
  <2>2. CASE Wake
    BY <1>1, <2>2 DEF Wake, AppType
  <2> QED
    BY <2>1, <2>2
<1>3. AppInv(pcb', app')
  BY <1>2 DEF Live, AppInv, SameToApp
<1>4. StepGood(pcb', wire, pcb, app'.written) /\ app'.written >= app.written
  BY <1>1, <1>2
<1> QED
  BY <1>2, <1>3, <1>4, StepHolds

LEMMA SentOnly ==
  ASSUME NEW S, SendData(S)
  PROVE  data' \subseteq data \cup S
BY DEF SendData

LEMMA PollWriteHolds ==
  ASSUME Live, NEW len \in Nat, len > 0, PollWrite(len)
  PROVE  SendInv'
<1> DEFINE k == Lesser(len, pcb.snd_buf)
           W == Write(pcb, k)
<1>1. acks' = acks /\ peer' = peer /\ app.pc = "writing"
  BY DEF PollWrite
<1>2. pcb.state = "ESTABLISHED" /\ ~pcb.closepend /\ app \in AppType /\ pcb.snd_nxt \in Nat
      /\ pcb.snd_buf \in Nat /\ pcb \in PcbType /\ app.written \in Nat /\ MaxBytes \in Nat
  BY <1>1, LiveFacts, PcbFacts DEF Live, AppInv
<1>3. k \in Nat /\ k <= pcb.snd_buf /\ (k = 0 => pcb.snd_buf = 0)
  BY <1>2 DEF Lesser
<1> HIDE DEF k
<1>4. ASSUME NEW pc \in {"full", "queue"}, app' = [app EXCEPT !.pc = pc],
             pc = "full" => k = 0, UNCHANGED <<pcb, failed, data>>
      PROVE  SendInv'
  <2>1. app' \in AppType /\ app'.pc = pc /\ app'.written = app.written
    BY <1>2, <1>4 DEF AppType
  <2>2. AppInv(pcb', app')
    BY <1>2, <1>3, <1>4, <2>1 DEF AppInv
  <2>3. pcb' = pcb /\ data' = data
    BY <1>4
  <2> QED
    BY <1>1, <2>1, <2>2, <2>3 DEF Live, SendInv, EnvType
<1>5. ASSUME k \in 1 .. MaxBytes - app.written, WriteAsserts(pcb), pcb' = Output(W),
             SendData(OutputWire(W)), app' = [app EXCEPT !.written = @ + k]
      PROVE  SendInv'
  <2> DEFINE v == app.written + k
  <2>1. v \in Nat /\ v <= MaxBytes /\ v >= app.written /\ k > 0
    BY <1>2, <1>5
  <2>2. app' \in AppType /\ app'.pc = "writing" /\ app'.written = v
    BY <1>1, <1>2, <1>5, <2>1 DEF AppType
  <2>3. PreOutput(W, v, {}) /\ Edge(W) = Edge(pcb)
    BY <1>2, <1>3, <1>5, <2>1, WriteKeeps DEF Live
  <2>4. /\ W.snd_nxt = pcb.snd_nxt /\ W.lastack = pcb.lastack /\ W.state = pcb.state
        /\ W.closepend = pcb.closepend
    BY <1>2 DEF Write, PcbType
  <2> HIDE DEF W, v
  <2>5. W.snd_nxt >= pcb.snd_nxt
    BY <1>2, <2>4
  <2>6. StepGood(Output(W), OutputWire(W), pcb, v) /\ SamePcb(Output(W), W)
    BY <1>2, <2>1, <2>3, <2>4, <2>5, OutputStep
  <2>7. AppInv(pcb', app')
    BY <1>2, <1>5, <2>2, <2>4, <2>6 DEF AppInv, SamePcb
  <2>8. data' \subseteq data \cup OutputWire(W)
    BY <1>5, SentOnly
  <2>9. StepGood(pcb', OutputWire(W), pcb, app'.written) /\ app'.written >= app.written
    BY <1>5, <2>1, <2>2, <2>6
  <2> QED
    BY <1>1, <1>2, <2>2, <2>7, <2>8, <2>9, StepHolds
<1>6. \/ k = 0 /\ app' = [app EXCEPT !.pc = "full"] /\ UNCHANGED <<pcb, failed, data>>
      \/ app' = [app EXCEPT !.pc = "queue"] /\ UNCHANGED <<pcb, failed, data>>
      \/ /\ k \in 1 .. MaxBytes - app.written /\ WriteAsserts(pcb) /\ pcb' = Output(W)
         /\ SendData(OutputWire(W)) /\ app' = [app EXCEPT !.written = @ + k]
  BY DEF PollWrite, k
<1>7. "full" # "queue" /\ "full" \in {"full", "queue"} /\ "queue" \in {"full", "queue"}
  OBVIOUS
<1> HIDE DEF W
<1>8. CASE k = 0 /\ app' = [app EXCEPT !.pc = "full"] /\ UNCHANGED <<pcb, failed, data>>
  BY <1>4, <1>7, <1>8
<1>9. CASE app' = [app EXCEPT !.pc = "queue"] /\ UNCHANGED <<pcb, failed, data>>
  BY <1>4, <1>7, <1>9
<1>10. CASE /\ k \in 1 .. MaxBytes - app.written /\ WriteAsserts(pcb) /\ pcb' = Output(W)
            /\ SendData(OutputWire(W)) /\ app' = [app EXCEPT !.written = @ + k]
  BY <1>5, <1>10
<1> QED
  BY <1>6, <1>8, <1>9, <1>10

LEMMA PollFlushHolds ==
  ASSUME Live, PollFlush
  PROVE  SendInv'
<1>1. pcb' = Output(pcb) /\ SendData(OutputWire(pcb)) /\ app' = app /\ acks' = acks /\ peer' = peer
  BY DEF PollFlush
<1>2. StepGood(pcb', OutputWire(pcb), pcb, app.written) /\ SameToApp(pcb', pcb)
  BY <1>1, LiveFacts, OutputAlone DEF Live, SamePcb, SameToApp
<1>3. data' \subseteq data \cup OutputWire(pcb)
  BY <1>1, SentOnly
<1> QED
  BY <1>1, <1>2, <1>3, QuietStep

LEMMA PollShutdownHolds ==
  ASSUME Live, NEW mem \in BOOLEAN, PollShutdown(mem)
  PROVE  SendInv'
<1>1. /\ app.pc = "writing" /\ pcb' = ShutdownFin(pcb, mem) /\ SendData(ShutdownWire(pcb, mem))
      /\ app' = [app EXCEPT !.pc = "shut"] /\ acks' = acks /\ peer' = peer
  BY DEF PollShutdown
<1>2. pcb.state = "ESTABLISHED" /\ ~pcb.closepend /\ PcbInv(pcb, app.written)
  BY <1>1 DEF Live, AppInv
<1>3. app \in AppType /\ app.written \in Nat
  BY LiveFacts
<1>4. app' \in AppType /\ app'.written = app.written /\ app'.pc = "shut"
  BY <1>1, <1>3 DEF AppType
<1>5. StepGood(pcb', ShutdownWire(pcb, mem), pcb, app'.written)
  BY <1>1, <1>2, <1>3, <1>4, ShutdownKeeps
<1>6. data' \subseteq data \cup ShutdownWire(pcb, mem)
  BY <1>1, SentOnly
<1>7. AppInv(pcb', app') /\ app'.written >= app.written
  BY <1>3, <1>4 DEF AppInv
<1> QED
  BY <1>1, <1>4, <1>5, <1>6, <1>7, StepHolds

LEMMA FastTmrHolds ==
  ASSUME Live, NEW mem \in BOOLEAN, FastTmr(mem)
  PROVE  SendInv'
<1> DEFINE P == [pcb EXCEPT !.closepend = FALSE]
<1>1. /\ pcb.closepend /\ pcb' = ShutdownFin(P, mem) /\ SendData(ShutdownWire(P, mem))
      /\ app' = app /\ acks' = acks /\ peer' = peer
  BY DEF FastTmr
<1>2. /\ pcb \in PcbType /\ pcb.snd_nxt \in Nat /\ app \in AppType /\ app.written \in Nat
      /\ PcbInv(pcb, app.written) /\ pcb.snd_nxt <= app.written + 1 /\ pcb.state = "ESTABLISHED"
  BY <1>1, LiveFacts DEF Live, PcbInv, PreOutput, Closing, Windows
<1>3. /\ Agrees(P, pcb, app.written) /\ P.snd_nxt = pcb.snd_nxt /\ P.lastack = pcb.lastack
      /\ P.state = "ESTABLISHED" /\ ~P.closepend
  <2>1. P \in PcbType
    BY <1>2 DEF PcbType
  <2>2. /\ P.unsent = pcb.unsent /\ P.unacked = pcb.unacked /\ P.state = pcb.state
        /\ P.lastack = pcb.lastack /\ P.snd_lbb = pcb.snd_lbb /\ P.snd_buf = pcb.snd_buf
        /\ P.snd_queuelen = pcb.snd_queuelen /\ P.snd_wnd = pcb.snd_wnd
        /\ P.snd_wl2 = pcb.snd_wl2 /\ P.snd_nxt = pcb.snd_nxt /\ P.closepend = FALSE
        /\ P.rtime = pcb.rtime /\ P.persist = pcb.persist
    BY <1>2 DEF PcbType
  <2> HIDE DEF P
  <2>3. P.snd_nxt >= pcb.snd_nxt
    BY <1>2, <2>2
  <2> QED
    BY <1>2, <2>1, <2>2, <2>3 DEF Agrees
<1> HIDE DEF P
<1>4. PcbInv(P, app.written) /\ Edge(P) = Edge(pcb)
  BY <1>2, <1>3, AgreesKeeps
<1>5. StepGood(pcb', ShutdownWire(P, mem), P, app.written)
  BY <1>1, <1>2, <1>3, <1>4, ShutdownKeeps
<1>6. StepGood(pcb', ShutdownWire(P, mem), pcb, app'.written)
  BY <1>1, <1>2, <1>3, <1>4, <1>5 DEF StepGood
<1>7. data' \subseteq data \cup ShutdownWire(P, mem)
  BY <1>1, SentOnly
<1>8. app.pc = "shut"
  BY <1>1 DEF Live, AppInv
<1>9. AppInv(pcb', app') /\ app'.written >= app.written
  BY <1>1, <1>2, <1>8 DEF AppInv
<1> QED
  BY <1>1, <1>2, <1>6, <1>7, <1>9, StepHolds

LEMMA GiveUpHolds ==
  ASSUME Live, GiveUp
  PROVE  SendInv'
<1>1. pcb' = Gone /\ Wake /\ data' = {} /\ acks' = {} /\ peer' = peer
  BY DEF GiveUp, Gone
<1>2. app \in AppType /\ peer \in PeerType
  BY LiveFacts
<1>3. app' \in AppType /\ app'.pc # "full"
  BY <1>1, <1>2 DEF Wake, AppType
<1>4. Gone.state = "gone"
  BY DEF Gone, Fresh
<1> QED
  BY <1>1, <1>2, <1>3, <1>4 DEF SendInv, EnvType

LEMMA FailHolds ==
  ASSUME SendInv, UNCHANGED <<pcb, app, data, acks, peer>>
  PROVE  SendInv'
BY DEF SendInv, EnvType

LEMMA TickHolds ==
  ASSUME Live, NEW P, NEW wire, StepGood(P, wire, pcb, app.written), SameToApp(P, pcb),
         Tick(P, wire), acks' = acks, peer' = peer
  PROVE  SendInv'
<1>1. app.written \in Nat /\ pcb \in PcbType /\ pcb.snd_nxt \in Nat
  BY LiveFacts
<1>2. CASE pcb' = P /\ SendData(wire) /\ UNCHANGED app
  <2>1. data' \subseteq data \cup wire
    BY <1>2, SentOnly
  <2> QED
    BY <1>2, <2>1, QuietStep
<1>3. CASE pcb' = Output(P) /\ SendData(wire \cup OutputWire(P)) /\ Wake
  <2> DEFINE O == Output(P)
             w == app.written
             all == wire \cup OutputWire(P)
  <2>1. PcbInv(P, w) /\ WireInv(wire, P, w, Edge(pcb)) /\ Edge(P) = Edge(pcb)
        /\ P.snd_nxt >= pcb.snd_nxt /\ P.lastack = pcb.lastack
        /\ P.state \in {pcb.state, "FIN_WAIT_1"}
    BY DEF StepGood
  <2>2. StepGood(O, OutputWire(P), P, w) /\ SamePcb(O, P)
    BY <1>1, <2>1, OutputAlone
  <2>3. /\ PcbInv(O, w) /\ WireInv(OutputWire(P), O, w, Edge(P)) /\ O.snd_nxt >= P.snd_nxt
        /\ O.lastack = P.lastack /\ Edge(O) = Edge(P) /\ O.state = P.state
    BY <2>2 DEF StepGood, SamePcb
  <2>4. P.snd_nxt \in Nat /\ O.snd_nxt \in Nat /\ Edge(pcb) \in Nat
    BY <1>1, <2>1, <2>3, PcbFacts DEF PcbInv, PreOutput
  <2> HIDE DEF O
  <2>5. WireInv(wire, O, w, Edge(pcb))
    <3>1. w <= w /\ Edge(pcb) <= Edge(pcb) /\ P.snd_nxt <= O.snd_nxt
      BY <1>1, <2>3, <2>4
    <3> QED
      BY <1>1, <2>1, <2>4, <3>1, WireLasts
  <2>6. WireInv(all, O, w, Edge(pcb))
    BY <2>1, <2>3, <2>5 DEF WireInv
  <2>7. O.snd_nxt >= pcb.snd_nxt
    BY <1>1, <2>1, <2>3, <2>4
  <2>8. StepGood(O, all, pcb, w)
    BY <2>1, <2>3, <2>6, <2>7 DEF StepGood
  <2>9. SameToApp(O, pcb)
    BY <2>2 DEF SamePcb, SameToApp
  <2>10. data' \subseteq data \cup all /\ pcb' = O
    BY <1>3, SentOnly DEF O
  <2> HIDE DEF all
  <2> QED
    BY <1>3, <2>8, <2>9, <2>10, QuietStep
<1> QED
  BY <1>2, <1>3 DEF Tick

\* A pcb that stays as it is took a good step.
LEMMA StayGood ==
  ASSUME Live
  PROVE  StepGood(pcb, {}, pcb, app.written) /\ SameToApp(pcb, pcb)
<1>1. pcb.snd_nxt \in Nat /\ pcb.snd_nxt >= pcb.snd_nxt
  BY LiveFacts
<1> QED
  BY <1>1 DEF Live, StepGood, SameToApp, WireInv

LEMMA NothingDueHolds ==
  ASSUME Live, NothingDue
  PROVE  SendInv'
BY StayGood, TickHolds DEF NothingDue

LEMMA RtoTickHolds ==
  ASSUME Live, RtoTick
  PROVE  SendInv'
<1> DEFINE R == Rto(pcb)
<1>1. Tick(Output(R), OutputWire(R)) /\ acks' = acks /\ peer' = peer
  BY DEF RtoTick
<1>2. /\ PreOutput(R, app.written, {}) /\ SameEnds(R, pcb) /\ R.state = pcb.state
      /\ R.closepend = pcb.closepend
  BY LiveFacts, RtoKeeps DEF Live
<1> HIDE DEF R
<1>3. /\ app.written \in Nat /\ pcb.snd_nxt \in Nat /\ R.snd_nxt >= pcb.snd_nxt
      /\ R.lastack = pcb.lastack /\ Edge(R) = Edge(pcb)
  BY <1>2, LiveFacts DEF SameEnds, Edge
<1>4. StepGood(Output(R), OutputWire(R), pcb, app.written) /\ SamePcb(Output(R), R)
  BY <1>2, <1>3, OutputStep
<1>5. SameToApp(Output(R), pcb)
  BY <1>2, <1>4 DEF SamePcb, SameToApp, SameEnds
<1> QED
  BY <1>1, <1>4, <1>5, TickHolds

LEMMA PersistTickHolds ==
  ASSUME Live, PersistTick
  PROVE  SendInv'
<1> DEFINE P == [pcb EXCEPT !.persist_probe = @ + 1]
<1>1. /\ pcb.unsent # {} /\ pcb.unacked = {} /\ acks' = acks /\ peer' = peer
      /\ app.written \in Nat /\ pcb.snd_nxt \in Nat /\ PcbInv(pcb, app.written)
      /\ pcb \in PcbType /\ pcb.snd_wnd \in Nat
  BY LiveFacts, PcbFacts DEF PersistTick, Live
<1>2. \/ Tick(Probe(P), ProbeWire(P))
      \/ Tick(P, {})
      \/ pcb.snd_wnd > 0 /\ \E n \in 1 .. Lesser(pcb.snd_wnd, First(pcb.unsent).n) :
           Tick(Output(Split(pcb, n)), OutputWire(Split(pcb, n)))
      \/ Tick(pcb, {})
  BY DEF PersistTick
<1>3. CASE Tick(Probe(P), ProbeWire(P)) \/ Tick(P, {})
  <2>1. /\ StepGood(Probe(P), ProbeWire(P), pcb, app.written) /\ StepGood(P, {}, pcb, app.written)
        /\ SamePcb(Probe(P), pcb) /\ SamePcb(P, pcb)
    BY <1>1, ProbeKeeps
  <2> HIDE DEF P
  <2>2. SameToApp(Probe(P), pcb) /\ SameToApp(P, pcb)
    BY <2>1 DEF SamePcb, SameToApp
  <2> QED
    BY <1>1, <1>3, <2>1, <2>2, TickHolds
<1>4. CASE pcb.snd_wnd > 0 /\ \E n \in 1 .. Lesser(pcb.snd_wnd, First(pcb.unsent).n) :
             Tick(Output(Split(pcb, n)), OutputWire(Split(pcb, n)))
  <2>1. PICK n \in 1 .. Lesser(pcb.snd_wnd, First(pcb.unsent).n) :
          Tick(Output(Split(pcb, n)), OutputWire(Split(pcb, n)))
    BY <1>4
  <2>2. n \in Nat /\ n >= 1
    <3>1. Lesser(pcb.snd_wnd, First(pcb.unsent).n) \in Int
      <4>1. First(pcb.unsent) \in Segment
        BY <1>1, FirstFacts DEF PcbInv, PreOutput, Lists, SegQueue
      <4>2. First(pcb.unsent).n \in Nat
        BY <4>1, SegFacts
      <4> QED
        BY <1>1, <4>2 DEF Lesser
    <3> QED
      BY <3>1
  <2> DEFINE S == Split(pcb, n)
  <2>3. /\ PreOutput(S, app.written, {}) /\ SameEnds(S, pcb) /\ S.state = pcb.state
        /\ S.closepend = pcb.closepend
    BY <1>1, <1>4, <2>2, SplitKeeps
  <2>4. Tick(Output(S), OutputWire(S))
    BY <2>1
  <2> HIDE DEF S
  <2>5. S.snd_nxt >= pcb.snd_nxt /\ S.lastack = pcb.lastack /\ Edge(S) = Edge(pcb)
    BY <1>1, <2>3 DEF SameEnds, Edge
  <2>6. StepGood(Output(S), OutputWire(S), pcb, app.written) /\ SamePcb(Output(S), S)
    BY <1>1, <2>3, <2>5, OutputStep
  <2>7. SameToApp(Output(S), pcb)
    BY <2>3, <2>6 DEF SamePcb, SameToApp, SameEnds
  <2> QED
    BY <1>1, <2>4, <2>6, <2>7, TickHolds
<1>5. CASE Tick(pcb, {})
  BY <1>1, <1>5, StayGood, TickHolds
<1> QED
  BY <1>2, <1>3, <1>4, <1>5

LEMMA InputHolds ==
  ASSUME Live, Input
  PROVE  SendInv'
<1> DEFINE w == app.written
<1>1. PICK a \in acks :
        LET Q == Process(pcb, a.ack, a.wnd)
        IN  /\ pcb' = Output(Q) /\ SendData(OutputWire(Q))
            /\ acks' \in {acks, acks \ {a}}
            /\ IF Bytes(Queued(Q)) < Bytes(Queued(pcb)) THEN Wake ELSE UNCHANGED app
  BY DEF Input
<1> DEFINE Q == Process(pcb, a.ack, a.wnd)
           O == Output(Q)
<1>2. /\ w \in Nat /\ pcb \in PcbType /\ pcb.snd_nxt \in Nat /\ peer \in PeerType
      /\ acks \subseteq AckType /\ app \in AppType /\ PcbInv(pcb, w)
      /\ PeerInv(pcb, w, peer, data, acks) /\ peer' = peer
      /\ peer.next \in Nat /\ peer.edge \in Nat /\ Edge(pcb) \in Nat /\ pcb.snd_nxt <= w + 1
  BY LiveFacts, PcbFacts DEF Live, Input, PeerType, PcbInv, PreOutput, Windows
<1>3. /\ a \in AckType /\ a.ack \in Nat /\ a.wnd <= MaxWnd /\ a.ack <= peer.next
      /\ peer.next <= pcb.snd_nxt /\ AckEdge(a) <= peer.edge
      /\ a.ack > pcb.lastack => AckEdge(a) >= Edge(pcb)
  BY <1>2 DEF PeerInv, AckType
<1>4. a.ack <= pcb.snd_nxt
  BY <1>2, <1>3
<1>5. Processed(Q, pcb, a, w)
  BY <1>2, <1>3, <1>4, ProcessKeeps
<1>6. /\ pcb' = O /\ data' \subseteq data \cup OutputWire(Q) /\ acks' \in SUBSET acks
      /\ IF Bytes(Queued(Q)) < Bytes(Queued(pcb)) THEN Wake ELSE UNCHANGED app
  BY <1>1, SentOnly
<1> HIDE DEF Q
<1>7. PICK S \in SUBSET Segment : PreOutput(Q, w, S)
  BY <1>5 DEF Processed
<1>9. OutputGood(Q, w)
  BY <1>2, <1>7, OutputKeeps
<1>10. /\ PcbInv(O, w) /\ WireInv(OutputWire(Q), O, w, Edge(Q)) /\ O.snd_nxt >= Q.snd_nxt
       /\ SamePcb(O, Q)
  BY <1>9 DEF OutputGood
<1>11. /\ Q.snd_nxt = pcb.snd_nxt /\ Q.closepend = pcb.closepend
       /\ \/ Q.lastack = pcb.lastack /\ Edge(Q) = Edge(pcb)
          \/ Q.lastack = a.ack /\ Edge(Q) = AckEdge(a)
       /\ \/ Q.state = pcb.state
          \/ Q.state = "FIN_WAIT_2" /\ pcb.state = "FIN_WAIT_1" /\ a.ack = w + 1
  BY <1>5 DEF Processed
<1>12. O.state = Q.state /\ O.lastack = Q.lastack /\ O.closepend = Q.closepend
       /\ O.snd_buf = Q.snd_buf /\ Edge(O) = Edge(Q)
  BY <1>10 DEF SamePcb, Edge
<1> HIDE DEF O
<1>13. O.snd_nxt \in Nat /\ Edge(Q) \in Nat
  <2>1. O \in PcbType
    BY <1>10 DEF PcbInv, PreOutput
  <2>2. Q \in PcbType
    BY <1>7 DEF PreOutput
  <2> QED
    BY <2>1, <2>2, PcbFacts
<1>14. Edge(Q) <= peer.edge
  BY <1>2, <1>3, <1>11 DEF PeerInv
<1>15. \A b \in acks : b.ack > O.lastack => AckEdge(b) >= Edge(O)
  <2> SUFFICES ASSUME NEW b \in acks, b.ack > O.lastack PROVE AckEdge(b) >= Edge(O)
    OBVIOUS
  <2>1. CASE Q.lastack = pcb.lastack /\ Edge(Q) = Edge(pcb)
    <3>1. b.ack > pcb.lastack
      BY <1>12, <2>1
    <3> QED
      BY <1>2, <1>12, <2>1, <3>1 DEF PeerInv
  <2>2. CASE Q.lastack = a.ack /\ Edge(Q) = AckEdge(a)
    <3>1. b \in AckType
      BY <1>2
    <3>2. b.ack \in Nat /\ b.wnd \in Nat
      BY <3>1 DEF AckType
    <3>3. a.ack < b.ack
      BY <1>3, <1>12, <2>2, <3>2
    <3>4. AckEdge(a) <= AckEdge(b)
      BY <1>2, <3>3 DEF PeerInv
    <3>5. AckEdge(a) \in Nat /\ AckEdge(b) \in Nat
      BY <1>3, <3>2 DEF AckEdge, AckType
    <3> QED
      BY <1>12, <2>2, <3>4, <3>5
  <2> QED
    BY <1>11, <2>1, <2>2
<1>16. O.state = "FIN_WAIT_2" => peer.eof /\ peer.next = w + 1
  <2>1. CASE Q.state = pcb.state
    BY <1>2, <1>12, <2>1 DEF PeerInv
  <2>2. CASE a.ack = w + 1
    <3>1. peer.next = w + 1
      BY <1>2, <1>3, <2>2
    <3>2. ~(peer.next <= w)
      BY <1>2, <3>1
    <3> QED
      BY <1>2, <3>1, <3>2 DEF PeerInv, PeerType
  <2> QED
    BY <1>11, <2>1, <2>2
<1>17. WireInv(OutputWire(Q), O, w, peer.edge)
  <2>1. w <= w /\ O.snd_nxt <= O.snd_nxt
    BY <1>2, <1>13
  <2> QED
    BY <1>2, <1>10, <1>13, <1>14, <2>1, WireLasts
<1>18. PeerInv(O, w, peer, data', acks')
  <2>1. w <= w /\ O.snd_nxt >= pcb.snd_nxt /\ Edge(O) <= peer.edge
    BY <1>2, <1>10, <1>11, <1>12, <1>14
  <2> DEFINE wire == OutputWire(Q)
             f == data'
  <2> HIDE DEF w, f, wire
  <2>2. WireInv(wire, O, w, peer.edge) /\ f \subseteq data \cup wire
    BY <1>6, <1>17 DEF wire, f
  <2>3. PeerInv(O, w, peer, f, acks')
    BY <1>2, <1>6, <1>10, <1>15, <1>16, <2>1, <2>2, PeerFollows
  <2> QED
    BY <2>3 DEF f
<1>19. /\ app' \in AppType /\ app'.written = w
       /\ app'.pc # "shut" => app.pc # "shut"
       /\ app'.pc = "full" => app' = app /\ ~(Bytes(Queued(Q)) < Bytes(Queued(pcb)))
  <2>1. CASE Bytes(Queued(Q)) < Bytes(Queued(pcb))
    <3>1. Wake
      BY <1>6, <2>1
    <3> QED
      BY <1>2, <3>1 DEF Wake, AppType
  <2>2. CASE ~(Bytes(Queued(Q)) < Bytes(Queued(pcb)))
    <3>1. app' = app
      BY <1>6, <2>2
    <3> QED
      BY <1>2, <2>2, <3>1
  <2> QED
    BY <2>1, <2>2
<1>20. AppInv(O, app')
  <2>1. ASSUME app'.pc # "shut" PROVE O.state = "ESTABLISHED" /\ ~O.closepend
    <3>1. pcb.state = "ESTABLISHED" /\ ~pcb.closepend
      BY <1>19, <2>1 DEF Live, AppInv
    <3> QED
      BY <1>11, <1>12, <3>1
  <2>2. ASSUME app'.pc = "full" PROVE O.snd_buf = 0
    <3>1. pcb.snd_buf = 0 /\ ~(Bytes(Queued(Q)) < Bytes(Queued(pcb)))
      BY <1>19, <2>2 DEF Live, AppInv
    <3>2. pcb.snd_buf = SndBuf - Bytes(Queued(pcb))
      BY <1>2 DEF PcbInv, PreOutput, Counted
    <3>3. Q.snd_buf = SndBuf - Bytes(Queued(Q)) /\ Q.snd_buf \in Nat
      BY <1>7, PcbFacts DEF PreOutput, Counted
    <3>4. Bytes(Queued(Q)) \in Nat /\ Bytes(Queued(pcb)) \in Nat /\ SndBuf \in Nat
      <4>1. SegQueue(Queued(Q)) /\ SegQueue(Queued(pcb))
        BY <1>2, <1>7, QueueSumsUnion DEF PcbInv, PreOutput, Lists, Queued
      <4> QED
        BY <4>1, QueueSums, SendAssumption
    <3> QED
      BY <1>12, <3>1, <3>2, <3>3, <3>4
  <2> QED
    BY <2>1, <2>2 DEF AppInv
<1>21. O.state # "gone"
  BY <1>10 DEF PcbInv, PreOutput, Closing
<1>22. acks' \subseteq AckType
  BY <1>2, <1>6
<1> QED
  BY <1>2, <1>6, <1>10, <1>18, <1>19, <1>20, <1>21, <1>22 DEF SendInv, EnvType

LEMMA PeerHolds ==
  ASSUME Live, UNCHANGED <<pcb, app>>, peer' \in PeerType, peer'.next >= peer.next,
         peer'.edge >= peer.edge, peer'.next <= peer'.edge,
         peer'.edge <= peer'.next + MaxWnd, peer'.next <= pcb.snd_nxt,
         ~peer'.eof => peer'.next <= app.written,
         pcb.state = "FIN_WAIT_2" => peer'.eof /\ peer'.next = app.written + 1,
         SendAck([ack |-> peer'.next, wnd |-> peer'.edge - peer'.next]), data' \subseteq data
  PROVE  SendInv'
<1> DEFINE w == app.written
           b == [ack |-> peer'.next, wnd |-> peer'.edge - peer'.next]
           q == peer'
           f == data'
           bs == acks'
<1>1. /\ w \in Nat /\ peer \in PeerType /\ acks \subseteq AckType /\ app \in AppType
      /\ PcbInv(pcb, w) /\ PeerInv(pcb, w, peer, data, acks)
  BY LiveFacts DEF Live
<1>2. bs \subseteq acks \cup {b} /\ f \in SUBSET data
  BY DEF SendAck
<1>3. bs \in SUBSET (acks \cup {AckOf(q)})
  BY <1>2 DEF AckOf
<1>4. Onward(pcb, w, peer, q)
  BY DEF Onward
<1>5. q \in PeerType /\ acks \in SUBSET AckType
  BY <1>1
<1>6. PeerInv(pcb, w, q, f, bs) /\ bs \subseteq AckType
  <2> HIDE DEF w, b, q, f, bs
  <2> QED
    BY <1>1, <1>2, <1>3, <1>4, <1>5, PeerMoves
<1> QED
  BY <1>1, <1>6 DEF SendInv, EnvType, Live

LEMMA PeerOpensHolds ==
  ASSUME Live, PeerOpens
  PROVE  SendInv'
<1>1. PICK e \in peer.edge + 1 .. peer.next + MaxWnd : peer' = [peer EXCEPT !.edge = e]
  BY DEF PeerOpens
<1>2. /\ UNCHANGED <<pcb, app>> /\ data' = data /\ ~peer.eof
      /\ SendAck([ack |-> peer'.next, wnd |-> peer'.edge - peer'.next])
  BY DEF PeerOpens
<1>3. peer \in PeerType /\ peer.next \in Nat /\ peer.edge \in Nat /\ MaxWnd \in Nat
  BY LiveFacts, SendAssumption DEF PeerType
<1>4. e \in Nat /\ e > peer.edge /\ e <= peer.next + MaxWnd
  BY <1>1, <1>3
<1>5. peer' \in PeerType /\ peer'.next = peer.next /\ peer'.edge = e /\ peer'.eof = peer.eof
  BY <1>1, <1>3, <1>4 DEF PeerType
<1>6. /\ peer.next <= pcb.snd_nxt /\ peer.next <= peer.edge /\ peer.next <= app.written
      /\ pcb.state # "FIN_WAIT_2"
  BY <1>2 DEF Live, PeerInv
<1>7. /\ peer'.next >= peer.next /\ peer'.edge >= peer.edge /\ peer'.next <= peer'.edge
      /\ peer'.edge <= peer'.next + MaxWnd /\ peer'.next <= pcb.snd_nxt
      /\ ~peer'.eof => peer'.next <= app.written
  BY <1>3, <1>4, <1>5, <1>6
<1>8. data' \subseteq data
  BY <1>2
<1> QED
  BY <1>2, <1>5, <1>6, <1>7, <1>8, PeerHolds

LEMMA PeerInputHolds ==
  ASSUME Live, PeerInput
  PROVE  SendInv'
<1>1. PICK s \in data :
        LET new  == ~peer.eof /\ s.seq <= peer.next
            next == IF new THEN Greater(peer.next, Lesser(s.seq + s.len, peer.edge)) ELSE peer.next
            fin  == new /\ s.fin /\ s.seq + s.len = next
        IN  /\ data' = data \ {s}
            /\ peer' = [next |-> IF fin THEN next + 1 ELSE next, eof |-> peer.eof \/ fin,
                        edge |-> IF fin THEN Greater(peer.edge, next + 1) ELSE peer.edge]
            /\ SendAck([ack |-> peer'.next, wnd |-> peer'.edge - peer'.next])
            /\ UNCHANGED <<pcb, app, failed>>
  BY DEF PeerInput
<1> DEFINE new  == ~peer.eof /\ s.seq <= peer.next
           next == IF new THEN Greater(peer.next, Lesser(s.seq + s.len, peer.edge)) ELSE peer.next
           fin  == new /\ s.fin /\ s.seq + s.len = next
           w == app.written
<1>2. /\ data' \subseteq data /\ UNCHANGED <<pcb, app>>
      /\ SendAck([ack |-> peer'.next, wnd |-> peer'.edge - peer'.next])
      /\ peer' = [next |-> IF fin THEN next + 1 ELSE next, eof |-> peer.eof \/ fin,
                  edge |-> IF fin THEN Greater(peer.edge, next + 1) ELSE peer.edge]
  BY <1>1
<1>3. /\ peer \in PeerType /\ peer.next \in Nat /\ peer.edge \in Nat /\ peer.eof \in BOOLEAN
      /\ MaxWnd \in Nat /\ MaxWnd >= 1 /\ w \in Nat /\ pcb.snd_nxt \in Nat
  BY LiveFacts, SendAssumption DEF PeerType
<1>4. /\ peer.next <= pcb.snd_nxt /\ peer.next <= peer.edge /\ peer.edge <= peer.next + MaxWnd
      /\ ~peer.eof => peer.next <= w
      /\ pcb.state = "FIN_WAIT_2" => peer.eof /\ peer.next = w + 1
  BY DEF Live, PeerInv
<1>5. /\ s \in [seq : Nat, len : Nat, fin : BOOLEAN] /\ s.seq + s.len <= w
      /\ End(s) <= pcb.snd_nxt
  BY DEF Live, PeerInv, WireInv
<1>6. s.seq \in Nat /\ s.len \in Nat /\ s.fin \in BOOLEAN
  BY <1>5
<1>7. End(s) = s.seq + s.len + (IF s.fin THEN 1 ELSE 0)
  BY <1>6 DEF End, TcpLen
<1>8. /\ next \in Nat /\ next >= peer.next /\ next <= peer.edge /\ next <= pcb.snd_nxt
      /\ ~peer.eof => next <= w
      /\ peer.eof => next = peer.next
  BY <1>3, <1>4, <1>5, <1>6, <1>7 DEF Greater, Lesser
<1>9. fin \in BOOLEAN /\ (fin => ~peer.eof /\ next + 1 <= pcb.snd_nxt)
  <2>1. fin => s.fin /\ s.seq + s.len = next
    OBVIOUS
  <2>2. fin => ~peer.eof
    OBVIOUS
  <2>3. s.fin => s.seq + s.len + 1 <= pcb.snd_nxt
    BY <1>5, <1>7
  <2> QED
    BY <2>1, <2>2, <2>3
<1> HIDE DEF new, next, fin, w
<1>10. CASE fin
  <2> DEFINE g == Greater(peer.edge, next + 1)
  <2>1. g \in Nat /\ g >= peer.edge /\ g >= next + 1 /\ g <= next + 1 + MaxWnd
    BY <1>3, <1>4, <1>8 DEF Greater
  <2> HIDE DEF g
  <2>2. peer' = [next |-> next + 1, eof |-> TRUE, edge |-> g]
    BY <1>2, <1>10 DEF g
  <2>3. peer' \in PeerType /\ peer'.next = next + 1 /\ peer'.eof = TRUE /\ peer'.edge = g
    BY <1>8, <2>1, <2>2 DEF PeerType
  <2>4. /\ peer'.next >= peer.next /\ peer'.edge >= peer.edge /\ peer'.next <= peer'.edge
        /\ peer'.edge <= peer'.next + MaxWnd /\ peer'.next <= pcb.snd_nxt
        /\ ~peer'.eof => peer'.next <= app.written
        /\ pcb.state # "FIN_WAIT_2"
    BY <1>3, <1>4, <1>8, <1>9, <1>10, <2>1, <2>3
  <2> QED
    BY <1>2, <2>3, <2>4, PeerHolds
<1>11. CASE ~fin
  <2>1. peer' = [next |-> next, eof |-> peer.eof, edge |-> peer.edge]
    <3>1. (peer.eof \/ fin) = peer.eof
      BY <1>3, <1>11
    <3> QED
      BY <1>2, <1>11, <3>1
  <2>2. peer' \in PeerType /\ peer'.next = next /\ peer'.eof = peer.eof /\ peer'.edge = peer.edge
    BY <1>3, <1>8, <2>1 DEF PeerType
  <2>3. /\ peer'.next >= peer.next /\ peer'.edge >= peer.edge /\ peer'.next <= peer'.edge
        /\ peer'.edge <= peer'.next + MaxWnd /\ peer'.next <= pcb.snd_nxt
        /\ ~peer'.eof => peer'.next <= app.written
        /\ pcb.state = "FIN_WAIT_2" => peer'.eof /\ peer'.next = app.written + 1
    BY <1>3, <1>4, <1>8, <2>2 DEF w
  <2> QED
    BY <1>2, <2>2, <2>3, PeerHolds
<1> QED
  BY <1>9, <1>10, <1>11

LEMMA StartsSound == Init => SendInv
<1> SUFFICES ASSUME Init PROVE SendInv
  OBVIOUS
<1>1. PICK wnd \in 0 .. MaxWnd :
        /\ pcb = Fresh(wnd)
        /\ peer = [next |-> 0, edge |-> wnd, eof |-> FALSE]
        /\ app = [pc |-> "writing", written |-> 0]
        /\ data = {} /\ acks = {}
  BY DEF Init
<1>2. /\ MSS \in Nat /\ MaxWnd \in Nat /\ SndBuf \in Nat /\ MaxBytes \in Nat /\ wnd \in Nat
      /\ wnd <= MaxWnd /\ MaxWnd \in Cut(MSS) .. MaxWnd
  BY SendAssumption DEF Cut, Lesser
<1>3. pcb \in PcbType
  BY <1>1, <1>2 DEF Fresh, PcbType
<1>4. /\ pcb.state = "ESTABLISHED" /\ pcb.lastack = 0 /\ pcb.snd_nxt = 0 /\ pcb.snd_lbb = 0
      /\ pcb.snd_buf = SndBuf /\ pcb.snd_queuelen = 0 /\ pcb.snd_wnd = wnd /\ pcb.snd_wl2 = 0
      /\ pcb.unsent = {} /\ pcb.unacked = {} /\ pcb.closepend = FALSE
  BY <1>1 DEF Fresh
<1>5. app.written = 0 /\ app.pc = "writing" /\ app \in AppType /\ peer \in PeerType
      /\ peer.next = 0 /\ peer.edge = wnd /\ peer.eof = FALSE
  BY <1>1, <1>2 DEF AppType, PeerType
<1>6. SegQueue({}) /\ Queued(pcb) = {} /\ Edge(pcb) = wnd
  BY <1>2, <1>4, FS_EmptySet DEF SegQueue, Queued, Edge
<1>7. Bytes({}) = 0 /\ PbufsOf({}) = 0
  BY <1>6, QueueSums
<1>8. Lists(pcb, 0)
  BY <1>4, <1>6 DEF Lists, Sorted, Ends, Linked, Covered
<1>9. FinKept(pcb, 0) /\ Counted(pcb) /\ Windows(pcb, 0) /\ Closing(pcb, 0)
  BY <1>2, <1>4, <1>6, <1>7 DEF FinKept, Counted, Windows, Closing
<1>10. PcbInv(pcb, 0)
  BY <1>3, <1>4, <1>8, <1>9 DEF PcbInv, PreOutput, Before, Ends
<1>11. PeerInv(pcb, 0, peer, data, acks)
  BY <1>1, <1>2, <1>4, <1>5, <1>6 DEF PeerInv, WireInv
<1>12. AppInv(pcb, app)
  BY <1>4, <1>5 DEF AppInv
<1> QED
  BY <1>1, <1>4, <1>5, <1>10, <1>11, <1>12 DEF SendInv, EnvType

LEMMA StaysSound ==
  ASSUME SendInv, [Next]_vars
  PROVE  SendInv'
<1>1. CASE UNCHANGED vars
  BY <1>1, FailHolds DEF vars
<1>2. CASE PollWriteFails \/ PersistFails
  BY <1>2, FailHolds DEF PollWriteFails, PersistFails, Fail
<1>3. ASSUME Running PROVE Live
  BY <1>3 DEF Running, SendInv, Live
<1>4. CASE \E len \in 1 .. Lesser(MaxBytes, SndBuf) : PollWrite(len)
  <2>1. PICK len \in 1 .. Lesser(MaxBytes, SndBuf) : PollWrite(len)
    BY <1>4
  <2>2. len \in Nat /\ len > 0
    <3>1. Lesser(MaxBytes, SndBuf) \in Nat
      BY SendAssumption DEF Lesser
    <3> QED
      BY <3>1
  <2>3. Live
    BY <1>3, <2>1 DEF PollWrite
  <2> QED
    BY <2>1, <2>2, <2>3, PollWriteHolds
<1>5. CASE PollFlush
  BY <1>3, <1>5, PollFlushHolds DEF PollFlush
<1>6. CASE \E mem \in BOOLEAN : PollShutdown(mem) \/ FastTmr(mem)
  <2>1. PICK mem \in BOOLEAN : PollShutdown(mem) \/ FastTmr(mem)
    BY <1>6
  <2>2. Live
    BY <1>3, <2>1 DEF PollShutdown, FastTmr
  <2> QED
    BY <2>1, <2>2, PollShutdownHolds, FastTmrHolds
<1>7. CASE Input
  BY <1>3, <1>7, InputHolds DEF Input
<1>8. CASE NothingDue
  BY <1>3, <1>8, NothingDueHolds DEF NothingDue, Ticking
<1>9. CASE PersistTick
  BY <1>3, <1>9, PersistTickHolds DEF PersistTick, Ticking
<1>10. CASE RtoTick
  BY <1>3, <1>10, RtoTickHolds DEF RtoTick, Ticking
<1>11. CASE GiveUp
  BY <1>3, <1>11, GiveUpHolds DEF GiveUp
<1>12. CASE PeerInput
  BY <1>3, <1>12, PeerInputHolds DEF PeerInput
<1>13. CASE PeerOpens
  BY <1>3, <1>13, PeerOpensHolds DEF PeerOpens
<1> QED
  BY <1>1, <1>2, <1>4, <1>5, <1>6, <1>7, <1>8, <1>9, <1>10, <1>11, <1>12, <1>13 DEF Next

LEMMA SendIsSound == Spec => []SendInv
<1>1. SendInv /\ [Next]_vars => SendInv'
  BY StaysSound
<1> QED
  BY <1>1, StartsSound, PTL DEF Spec

-------------------------------------------------------------------------------
(* What the invariant says. *)

LEMMA GoneFacts ==
  ASSUME SendInv, pcb.state = "gone"
  PROVE  /\ pcb \in PcbType /\ pcb.unsent = {} /\ pcb.unacked = {}
         /\ app \in AppType /\ peer \in PeerType /\ data = {} /\ acks = {} /\ app.pc # "full"
<1>1. pcb = Gone
  BY DEF SendInv
<1>2. /\ MSS \in Nat /\ MaxWnd \in Nat /\ SndBuf \in Nat
      /\ Cut(MSS) \in Nat /\ MaxWnd \in Cut(MSS) .. MaxWnd /\ SndBuf \in 0 .. SndBuf
  BY SendAssumption DEF Cut, Lesser
<1> DEFINE F == Fresh(0)
<1>3. pcb \in PcbType
  <2>1. F \in PcbType
    BY <1>2 DEF Fresh, PcbType
  <2>2. pcb = [F EXCEPT !.state = "gone"]
    BY <1>1 DEF Gone
  <2> HIDE DEF F
  <2> QED
    BY <2>1, <2>2 DEF PcbType
<1>4. pcb.unsent = {} /\ pcb.unacked = {}
  BY <1>1 DEF Gone, Fresh
<1> QED
  BY <1>3, <1>4 DEF SendInv, EnvType

LEMMA RunFacts ==
  ASSUME SendInv, pcb.state # "gone"
  PROVE  Live
BY DEF SendInv, Live

LEMMA TypesHold ==
  ASSUME SendInv
  PROVE  TypeOK
<1>1. pcb \in PcbType /\ app \in AppType /\ peer \in PeerType /\ acks \subseteq AckType
  <2>1. CASE pcb.state = "gone"
    BY <2>1, GoneFacts
  <2>2. CASE pcb.state # "gone"
    BY <2>2, RunFacts, LiveFacts
  <2> QED
    BY <2>1, <2>2
<1>2. data \subseteq [seq : Nat, len : Nat, fin : BOOLEAN]
  <2>1. CASE pcb.state = "gone"
    BY <2>1, GoneFacts
  <2>2. CASE pcb.state # "gone"
    BY <2>2, RunFacts DEF Live, PeerInv, WireInv
  <2> QED
    BY <2>1, <2>2
<1>3. \A f \in {"lastack", "snd_nxt", "snd_lbb", "snd_wnd", "snd_wnd_max", "snd_wl2",
                "snd_queuelen", "nrtx", "persist_probe"} : pcb[f] \in Nat
  BY <1>1 DEF PcbType
<1>4. \A f \in {"rtime", "infr", "persist", "closepend"} : pcb[f] \in BOOLEAN
  BY <1>1 DEF PcbType
<1>5. /\ pcb.unsent \subseteq Segment /\ pcb.unacked \subseteq Segment
      /\ pcb.snd_buf \in 0 .. SndBuf /\ pcb.cwnd \in Cut(MSS) .. MaxWnd /\ pcb.dupacks \in 0 .. 3
      /\ pcb.state \in {"ESTABLISHED", "FIN_WAIT_1", "FIN_WAIT_2", "gone"}
  BY <1>1 DEF PcbType
<1>6. /\ app.pc \in {"writing", "full", "queue", "shut"} /\ app.written \in 0 .. MaxBytes
      /\ acks \subseteq [ack : Nat, wnd : Nat]
      /\ peer.next \in Nat /\ peer.edge \in Nat /\ peer.eof \in BOOLEAN
  BY <1>1 DEF AppType, PeerType, AckType
<1> QED
  BY <1>2, <1>3, <1>4, <1>5, <1>6 DEF TypeOK

\* The fields of the pcb, the segments and the ACKs keep their ranges, for any
\* segment size, buffer, window and number of bytes (TypeOK): no counter of
\* tcp_write, tcp_split_unsent_seg or tcp_receive passes zero.
THEOREM SendTypes == Spec => []TypeOK
BY SendIsSound, TypesHold, PTL

\* Every byte poll_write took and the peer has not acknowledged is in unsent or
\* unacked (NothingLost), however tcp_split_unsent_seg, tcp_rexmit_fast,
\* tcp_rexmit_rto and tcp_receive cut and move the segments.
THEOREM NothingIsLost == Spec => []NothingLost
<1>1. SendInv => NothingLost
  <2> SUFFICES ASSUME SendInv, pcb.state # "gone"
               PROVE  Covered(Queued(pcb), pcb.lastack, app.written)
    BY DEF NothingLost, Covered
  <2> QED
    BY RunFacts DEF Live, PcbInv, PreOutput, Lists
<1> QED
  BY <1>1, SendIsSound, PTL

LEMMA QueuesHold ==
  ASSUME SendInv
  PROVE  QueuesSound
<1>1. CASE pcb.state = "gone"
  <2>1. pcb.unsent = {} /\ pcb.unacked = {} /\ Queued(pcb) = {}
    BY <1>1, GoneFacts DEF Queued
  <2> QED
    BY <1>1, <2>1 DEF QueuesSound, QueuesOrdered, BuffersExact
<1>2. CASE pcb.state # "gone"
  <2>1. PreOutput(pcb, app.written, {})
    BY <1>2, RunFacts DEF Live, PcbInv
  <2>2. \A s \in pcb.unacked, t \in pcb.unsent : s.seq < t.seq
    BY <2>1 DEF PreOutput, Before
  <2>3. Sorted(Queued(pcb)) /\ Counted(pcb)
    BY <2>1 DEF PreOutput, Lists
  <2> QED
    BY <2>2, <2>3 DEF QueuesSound, QueuesOrdered, BuffersExact, Sorted, Counted
<1> QED
  BY <1>1, <1>2

\* The two lists of segments stay sorted and without overlap, what is in flight
\* before what is not, and snd_queuelen and snd_buf are what they hold
\* (QueuesSound): the assertions "valid queue length" of tcp_write and
\* tcp_receive never fail.
THEOREM QueuesAreSound == Spec => []QueuesSound
BY SendIsSound, QueuesHold, PTL

\* Nothing that is on its way to the peer lies beyond the right edge the peer
\* announced, but for the one byte of tcp_zero_window_probe (WindowRespected):
\* tcp_receive takes no window from an ACK older than the last.
THEOREM WindowIsRespected == Spec => []WindowRespected
<1>1. SendInv => WindowRespected
  <2>1. ASSUME SendInv, pcb.state = "gone" PROVE WindowRespected
    BY <2>1, GoneFacts DEF WindowRespected
  <2>2. ASSUME SendInv, pcb.state # "gone" PROVE WindowRespected
    BY <2>2, RunFacts DEF WindowRespected, Live, PeerInv, WireInv
  <2> QED
    BY <2>1, <2>2
<1> QED
  BY <1>1, SendIsSound, PTL

LEMMA NoStallHolds ==
  ASSUME SendInv
  PROVE  NoStall
<1>1. CASE pcb.state = "gone"
  BY <1>1, GoneFacts DEF NoStall, Running
<1>2. CASE pcb.state # "gone"
  <2>1. PreOutput(pcb, app.written, {}) /\ PcbInv(pcb, app.written) /\ AppInv(pcb, app)
    BY <1>2, RunFacts DEF Live, PcbInv
  <2>2. /\ pcb.unacked # {} => pcb.rtime /\ ~pcb.persist
        /\ pcb.unsent # {} => pcb.rtime \/ pcb.persist
    BY <2>1 DEF PcbInv, PreOutput
  <2>3. ASSUME app.pc = "full" PROVE pcb.snd_buf = 0 /\ Queued(pcb) # {}
    <3>1. pcb.snd_buf = 0 /\ 0 = SndBuf - Bytes(Queued(pcb))
      BY <2>1, <2>3 DEF AppInv, PreOutput, Counted
    <3>2. SegQueue({}) /\ Bytes({}) = 0
      <4>1. SegQueue({})
        BY FS_EmptySet DEF SegQueue
      <4> QED
        BY <4>1, QueueSums
    <3>3. SndBuf \in Nat /\ SndBuf # 0
      BY SendAssumption
    <3> QED
      BY <3>1, <3>2, <3>3
  <2> QED
    BY <2>2, <2>3 DEF NoStall
<1> QED
  BY <1>1, <1>2

\* What is queued has a timer, the right one of the two, and a poll_write that
\* waits has something in the queues whose ACK wakes it (NoStall).
THEOREM NobodyStalls == Spec => []NoStall
BY SendIsSound, NoStallHolds, PTL

\* No ACK acknowledges what was not sent, the byte of a probe included, and
\* FIN_WAIT_2 is entered only when the peer has every byte and the FIN
\* (PeerInStep).
THEOREM PeerStaysInStep == Spec => []PeerInStep
<1>1. ASSUME SendInv, pcb.state = "gone" PROVE PeerInStep
  BY <1>1, GoneFacts DEF PeerInStep, AcksKnown, FinWait2MeansDelivered
<1>2. ASSUME SendInv, pcb.state # "gone" PROVE PeerInStep
  <2>1. Live /\ PeerInv(pcb, app.written, peer, data, acks)
    BY <1>2, RunFacts DEF Live
  <2>2. peer.next \in Nat /\ pcb.snd_nxt \in Nat /\ acks \subseteq AckType
    BY <2>1, LiveFacts DEF PeerType
  <2>3. ASSUME NEW a \in acks PROVE a.ack <= pcb.snd_nxt
    <3>1. a.ack <= peer.next /\ peer.next <= pcb.snd_nxt
      BY <2>1 DEF PeerInv
    <3>2. a.ack \in Nat
      BY <2>2 DEF AckType
    <3> QED
      BY <2>2, <3>1, <3>2
  <2> QED
    BY <2>1, <2>3 DEF PeerInStep, AcksKnown, FinWait2MeansDelivered, PeerInv
<1>3. SendInv => PeerInStep
  BY <1>1, <1>2
<1> QED
  BY <1>3, SendIsSound, PTL
===============================================================================
