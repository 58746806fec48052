---------------------------- MODULE TcpReceiveProofs ---------------------------
(***************************************************************************)
(* The receiving half for any window, segment size, stream and reader:     *)
(* what ooseq may hold, the bytes that reach the application, and the      *)
(* window that the peer is told.                                           *)
(***************************************************************************)
EXTENDS TcpReceive, SequenceTheorems, WellFoundedInduction, TLAPS

\* A set of indices has a least one.
LEMMA LeastIndex ==
  ASSUME NEW S \in SUBSET Nat, S # {}
  PROVE  \E i \in S : \A j \in S : i <= j
<1> DEFINE R == OpToRel(<, Nat)
<1>1. IsWellFoundedOn(R, Nat)
  BY NatLessThanWellFounded
<1>2. \A i, j \in Nat : <<i, j>> \in R <=> i < j
  BY DEF OpToRel
<1> HIDE DEF R
<1>3. PICK i \in S : \A j \in S : ~(<<j, i>> \in R)
  BY <1>1, WFMin
<1>4. \A j \in S : ~(j < i)
  BY <1>2, <1>3
<1> QED
  BY <1>4

\* And one within a bound has a greatest.
LEMMA GreatestIndex ==
  ASSUME NEW n \in Nat, NEW S \in SUBSET (0 .. n), S # {}
  PROVE  Max(S) \in S /\ \A j \in S : j <= Max(S)
<1> DEFINE T == {t \in Nat : n - t \in S}
<1>1. \A i \in S : i \in Nat /\ i <= n /\ n - i \in T /\ n - (n - i) = i
  OBVIOUS
<1>2. PICK t \in T : \A u \in T : t <= u
  BY <1>1, LeastIndex
<1>3. n - t \in S /\ t \in Nat
  BY <1>2
<1> HIDE DEF T
<1>4. \A j \in S : j <= n - t
  <2> TAKE j \in S
  <2>1. t <= n - j
    BY <1>1, <1>2
  <2> QED BY <1>1, <1>3, <2>1
<1> QED BY <1>3, <1>4 DEF Max

-------------------------------------------------------------------------------
(* FlattenSeq: the bytes of a channel. *)

\* FlattenSeq concatenates from the left; flat is its recursive function.
Flattens(flat, q, S) ==
  /\ flat \in [1 .. Len(q) -> Seq(S)]
  /\ flat[1] = q[1] /\ FlattenSeq(q) = flat[Len(q)]
  /\ \A i \in 2 .. Len(q) : flat[i] = flat[i - 1] \o q[i]

LEMMA Flat ==
  ASSUME NEW S, NEW q \in Seq(Seq(S)), q # <<>>
  PROVE  \E flat : Flattens(flat, q, S)
<1> DEFINE n == Len(q)
           Def(f, k) == f = [i \in 1 .. k |-> IF i = 1 THEN q[i] ELSE f[i - 1] \o q[i]]
<1>1. n \in Nat \ {0} /\ \A i \in 1 .. n : q[i] \in Seq(S)
  OBVIOUS
<1>2. \A k \in Nat : k <= n => \E f \in [1 .. k -> Seq(S)] : Def(f, k)
  <2> DEFINE Bad == {k \in Nat : k <= n /\ ~\E f \in [1 .. k -> Seq(S)] : Def(f, k)}
  <2>1. SUFFICES ASSUME Bad # {} PROVE FALSE
    OBVIOUS
  <2>2. PICK k \in Bad : \A j \in Bad : k <= j
    BY <2>1, LeastIndex
  <2>3. k # 0
    <3> DEFINE f == [i \in 1 .. 0 |-> q[i]]
    <3>1. f \in [1 .. 0 -> Seq(S)] /\ Def(f, 0)
      OBVIOUS
    <3> QED BY <3>1
  <2>x. k \in Nat /\ k <= n /\ k - 1 \in Nat /\ k - 1 <= n /\ ~(k <= k - 1)
    BY <1>1, <2>2, <2>3
  <2>4. PICK f \in [1 .. k - 1 -> Seq(S)] : Def(f, k - 1)
    <3>1. k - 1 \notin Bad
      BY <2>2, <2>x
    <3> QED BY <2>x, <3>1
  <2> DEFINE g == [i \in 1 .. k |-> IF i = 1 THEN q[i] ELSE f[i - 1] \o q[i]]
  <2>5. g \in [1 .. k -> Seq(S)]
    <3>1. \A i \in 1 .. k : i # 1 => i - 1 \in 1 .. k - 1
      BY <2>2
    <3> QED BY <1>1, <2>2, <3>1
  <2>6. \A i \in 1 .. k - 1 : g[i] = f[i]
    <3> TAKE i \in 1 .. k - 1
    <3>1. i \in 1 .. k /\ (i # 1 => i - 1 \in 1 .. k - 1)
      BY <2>x
    <3> QED BY <2>4, <3>1
  <2>7. Def(g, k)
    <3>1. \A i \in 1 .. k : i # 1 => i - 1 \in 1 .. k - 1
      BY <2>2
    <3> QED BY <2>6, <3>1
  <2> QED BY <2>2, <2>5, <2>7
<1>3. PICK f \in [1 .. n -> Seq(S)] : Def(f, n)
  <2> HIDE DEF Def
  <2> QED BY <1>1, <1>2
<1> DEFINE c == CHOOSE g : Def(g, n)
<1>4. Def(c, n)
  BY <1>3
<1>5. FlattenSeq(q) = c[n]
  BY <1>1 DEF FlattenSeq
<1> HIDE DEF c
<1>6. c = f
  <2> DEFINE Bad == {i \in 1 .. n : c[i] # f[i]}
  <2>1. DOMAIN c = 1 .. n /\ DOMAIN f = 1 .. n /\ c = [i \in 1 .. n |-> c[i]]
    BY <1>4
  <2>2. ASSUME Bad # {} PROVE FALSE
    <3>1. PICK i \in Bad : \A j \in Bad : i <= j
      <4>1. Bad \in SUBSET Nat
        BY <1>1
      <4> HIDE DEF Bad
      <4> QED BY <2>2, <4>1, LeastIndex
    <3>2. i \in 1 .. n /\ c[i] # f[i]
      BY <3>1
    <3>3. i # 1 => i - 1 \in 1 .. n /\ ~(i <= i - 1)
      BY <1>1, <3>2
    <3>4. i # 1 => c[i - 1] = f[i - 1]
      BY <3>1, <3>3
    <3>5. /\ c[i] = IF i = 1 THEN q[1] ELSE c[i - 1] \o q[i]
          /\ f[i] = IF i = 1 THEN q[1] ELSE f[i - 1] \o q[i]
      BY <1>3, <1>4, <3>2, Zenon
    <3>6. CASE i = 1
      BY <3>2, <3>5, <3>6, Zenon
    <3>7. CASE i # 1
      BY <3>2, <3>4, <3>5, <3>7, Zenon
    <3> QED BY <3>6, <3>7
  <2> QED BY <2>1, <2>2
<1>7. FlattenSeq(q) = f[n]
  BY <1>5, <1>6
<1>8. f[1] = q[1] /\ \A i \in 2 .. n : f[i] = f[i - 1] \o q[i]
  <2>1. 1 \in 1 .. n /\ \A i \in 2 .. n : i \in 1 .. n /\ i # 1
    BY <1>1
  <2> QED BY <1>3, <2>1
<1> HIDE DEF Def
<1> QED BY <1>3, <1>7, <1>8 DEF Flattens

\* The first sequence of a sequence comes first.
LEMMA FlatCons ==
  ASSUME NEW S, NEW a \in Seq(S), NEW q \in Seq(Seq(S))
  PROVE  /\ FlattenSeq(q) \in Seq(S)
         /\ FlattenSeq(<<a>> \o q) = a \o FlattenSeq(q)
<1>0. \A x, y \in Seq(S) : (a \o x) \o y = a \o (x \o y)
  BY ConcatAssociative, SMTT(30)
<1> DEFINE n == Len(q)
           r == <<a>> \o q
<1>1. /\ n \in Nat /\ r \in Seq(Seq(S)) /\ r # <<>> /\ Len(r) = n + 1 /\ r[1] = a
      /\ \A i \in 1 .. n : q[i] \in Seq(S) /\ r[i + 1] = q[i]
  OBVIOUS
<1> HIDE DEF r
<1>a. PICK f : Flattens(f, r, S)
  BY <1>1, Flat
<1>2. /\ f \in [1 .. n + 1 -> Seq(S)] /\ f[1] = r[1] /\ FlattenSeq(r) = f[n + 1]
      /\ \A i \in 2 .. n + 1 : f[i] = f[i - 1] \o r[i]
  BY <1>1, <1>a DEF Flattens
<1>3. CASE q = <<>>
  <2>1. FlattenSeq(q) = <<>> /\ n = 0
    BY <1>3 DEF FlattenSeq
  <2> QED BY <1>1, <1>2, <2>1 DEF r
<1>4. CASE q # <<>>
  <2>1. n # 0
    BY <1>1, <1>4
  <2>a. PICK g : Flattens(g, q, S)
    BY <1>4, Flat
  <2>2. /\ g \in [1 .. n -> Seq(S)] /\ g[1] = q[1] /\ FlattenSeq(q) = g[n]
        /\ \A i \in 2 .. n : g[i] = g[i - 1] \o q[i]
    BY <2>a DEF Flattens
  <2> DEFINE Bad == {i \in 1 .. n : f[i + 1] # a \o g[i]}
  <2>3. ASSUME Bad # {} PROVE FALSE
    <3>1. PICK i \in Bad : \A j \in Bad : i <= j
      <4>1. Bad \in SUBSET Nat
        BY <1>1
      <4> HIDE DEF Bad
      <4> QED BY <2>3, <4>1, LeastIndex
    <3>2. i \in 1 .. n /\ f[i + 1] # a \o g[i]
      BY <3>1
    <3>a. i + 1 \in 2 .. n + 1 /\ (i + 1) - 1 = i
      BY <1>1, <3>2
    <3>3. f[i + 1] = f[i] \o q[i]
      BY <1>1, <1>2, <3>2, <3>a
    <3>4. i # 1
      BY <1>1, <1>2, <2>2, <3>2, <3>3
    <3>5. i - 1 \in 1 .. n /\ ~(i <= i - 1) /\ (i - 1) + 1 = i /\ i \in 2 .. n
      BY <1>1, <3>2, <3>4
    <3>6. f[i] = a \o g[i - 1]
      BY <3>1, <3>5
    <3>b. g[i - 1] \in Seq(S) /\ q[i] \in Seq(S)
      BY <1>1, <2>2, <3>2, <3>5
    <3>8. (a \o g[i - 1]) \o q[i] = a \o (g[i - 1] \o q[i])
      BY <3>b, <1>0
    <3> QED BY <2>2, <3>2, <3>3, <3>5, <3>6, <3>8
  <2>4. f[n + 1] = a \o g[n]
    <3>1. n \in 1 .. n
      BY <1>1, <2>1
    <3> QED BY <2>3, <3>1
  <2>5. FlattenSeq(q) \in Seq(S)
    <3>1. n \in 1 .. n
      BY <1>1, <2>1
    <3> QED BY <2>2, <3>1
  <2> QED BY <1>2, <2>2, <2>4, <2>5 DEF r
<1> QED BY <1>3, <1>4

\* And the last one last.
LEMMA FlatSnoc ==
  ASSUME NEW S, NEW c \in Seq(S), NEW q \in Seq(Seq(S))
  PROVE  FlattenSeq(q \o <<c>>) = FlattenSeq(q) \o c
<1> DEFINE n == Len(q)
           r == q \o <<c>>
<1>1. /\ n \in Nat /\ r \in Seq(Seq(S)) /\ r # <<>> /\ Len(r) = n + 1 /\ r[n + 1] = c
      /\ \A i \in 1 .. n : q[i] \in Seq(S) /\ r[i] = q[i]
  OBVIOUS
<1> HIDE DEF r
<1>a. PICK f : Flattens(f, r, S)
  BY <1>1, Flat
<1>2. /\ f \in [1 .. n + 1 -> Seq(S)] /\ f[1] = r[1] /\ FlattenSeq(r) = f[n + 1]
      /\ \A i \in 2 .. n + 1 : f[i] = f[i - 1] \o r[i]
  BY <1>1, <1>a DEF Flattens
<1>3. CASE q = <<>>
  <2>1. FlattenSeq(q) = <<>> /\ n = 0
    BY <1>3 DEF FlattenSeq
  <2> QED BY <1>1, <1>2, <2>1 DEF r
<1>4. CASE q # <<>>
  <2>1. n # 0
    BY <1>1, <1>4
  <2>a. PICK g : Flattens(g, q, S)
    BY <1>4, Flat
  <2>2. /\ g \in [1 .. n -> Seq(S)] /\ g[1] = q[1] /\ FlattenSeq(q) = g[n]
        /\ \A i \in 2 .. n : g[i] = g[i - 1] \o q[i]
    BY <2>a DEF Flattens
  <2> DEFINE Bad == {i \in 1 .. n : f[i] # g[i]}
  <2>3. ASSUME Bad # {} PROVE FALSE
    <3>1. PICK i \in Bad : \A j \in Bad : i <= j
      <4>1. Bad \in SUBSET Nat
        BY <1>1
      <4> HIDE DEF Bad
      <4> QED BY <2>3, <4>1, LeastIndex
    <3>2. i \in 1 .. n /\ f[i] # g[i]
      BY <3>1
    <3>3. i # 1
      BY <1>1, <1>2, <2>2, <3>2
    <3>5. i - 1 \in 1 .. n /\ ~(i <= i - 1) /\ i \in 2 .. n /\ i \in 2 .. n + 1
      BY <1>1, <3>2, <3>3
    <3>6. f[i - 1] = g[i - 1]
      BY <3>1, <3>5
    <3> QED BY <1>1, <1>2, <2>2, <3>2, <3>5, <3>6
  <2>4. n \in 1 .. n /\ n + 1 \in 2 .. n + 1 /\ (n + 1) - 1 = n
    BY <1>1, <2>1
  <2>5. f[n] = g[n]
    BY <2>3, <2>4
  <2>6. f[n + 1] = f[n] \o r[n + 1]
    BY <1>2, <2>4
  <2> QED BY <1>1, <1>2, <2>2, <2>5, <2>6 DEF r
<1> QED BY <1>3, <1>4

-------------------------------------------------------------------------------
(* ooseq: the segments in order, none beyond the next, the FIN the last. *)

Seg == [seq : 0 .. MaxBytes, len : 0 .. SegMax, fin : BOOLEAN]
Env == [total : 0 .. MaxBytes, careful : BOOLEAN, plenty : BOOLEAN]

\* A part of the stream, and of a window up to e if the peer keeps to it.
Fits(s, e) ==
  /\ s \in Seg /\ TcpLen(s) > 0
  /\ End(s) <= env.total /\ (s.fin => End(s) = env.total)
  /\ env.careful => s.seq + TcpLen(s) <= e

Chain(Q) ==
  /\ Q \in Seq(Seg)
  /\ \A i, j \in 1 .. Len(Q) : i < j => End(Q[i]) <= Q[j].seq /\ ~Q[i].fin

Queue(Q, n, e) ==
  /\ Chain(Q)
  /\ \A i \in 1 .. Len(Q) : Fits(Q[i], e) /\ Q[i].seq > n

\* The numbers of a segment.
LEMMA SegFacts ==
  ASSUME NEW s \in Seg
  PROVE  /\ s.seq \in Nat /\ s.len \in Nat /\ s.fin \in BOOLEAN
         /\ s.seq <= MaxBytes /\ s.len <= SegMax
         /\ End(s) = s.seq + s.len /\ End(s) \in Nat
         /\ TcpLen(s) = IF s.fin THEN s.len + 1 ELSE s.len
         /\ TcpLen(s) \in Nat
BY ReceiveAssumption DEF Seg, End, TcpLen

\* The FIN has one place in the stream.
LEMMA FinEnds ==
  ASSUME NEW s \in Seg, NEW t \in Seg, s.fin, t.fin, End(s) = End(t)
  PROVE  s.seq + TcpLen(s) = t.seq + TcpLen(t)
BY SegFacts

\* Walking ooseq up to a first segment, the k-th, and on from it.
CutAt(k, Q, I, S) ==
  /\ k \in 1 .. Len(Q) + 1
  /\ \A i \in 1 .. k - 1 : i \notin I
  /\ k <= Len(Q) => k \in I
  /\ Until(Q, I) \in Seq(S) /\ Len(Until(Q, I)) = k - 1
  /\ \A i \in 1 .. k - 1 : Until(Q, I)[i] = Q[i]
  /\ From(Q, I) \in Seq(S) /\ Len(From(Q, I)) = Len(Q) + 1 - k
  /\ \A i \in 1 .. Len(Q) + 1 - k : From(Q, I)[i] = Q[k + i - 1]

LEMMA Cut ==
  ASSUME NEW S, NEW Q \in Seq(S), NEW I \in SUBSET (1 .. Len(Q))
  PROVE  \E k : CutAt(k, Q, I, S)
<1> DEFINE n == Len(Q)
           J == I \cup {n + 1}
           k == First(Q, I)
<1>1. n \in Nat /\ J \in SUBSET Nat /\ J # {} /\ \A i \in 1 .. n : Q[i] \in S
  <2>1. n \in Nat /\ \A i \in 1 .. n : Q[i] \in S
    OBVIOUS
  <2>2. \A i \in J : i \in Nat
    BY <2>1
  <2> QED BY <2>1, <2>2
<1>2. k \in J /\ \A i \in J : k <= i
  <2>1. \E i \in J : \A j \in J : i <= j
    BY <1>1, LeastIndex
  <2> HIDE DEF J
  <2>2. First(Q, I) = Min(J)
    BY DEF First, J
  <2> QED BY <2>1, <2>2 DEF Min
<1>3. /\ k \in Nat /\ 1 <= k /\ k <= n + 1
      /\ \A i \in 1 .. k - 1 : i \notin I
      /\ k <= n => k \in I
  BY <1>1, <1>2
<1> HIDE DEF k
<1>4. /\ Until(Q, I) = [i \in 1 .. k - 1 |-> Q[i]]
      /\ From(Q, I) = [i \in 1 .. n + 1 - k |-> Q[k + i - 1]]
  <2>1. Until(Q, I) = SubSeq(Q, 1, k - 1) /\ From(Q, I) = SubSeq(Q, k, n)
    BY DEF Until, From, k
  <2>2. /\ SubSeq(Q, 1, k - 1) = [i \in 1 .. k - 1 |-> Q[i]]
        /\ SubSeq(Q, k, n) = [i \in 1 .. n + 1 - k |-> Q[k + i - 1]]
    BY <1>1, <1>3
  <2> QED BY <2>1, <2>2
<1>5. /\ \A i \in 1 .. k - 1 : Q[i] \in S
      /\ \A i \in 1 .. n + 1 - k : Q[k + i - 1] \in S
      /\ k - 1 \in Nat /\ n + 1 - k \in Nat
  <2>1. \A i \in 1 .. k - 1 : i \in 1 .. n
    BY <1>1, <1>3
  <2>2. \A i \in 1 .. n + 1 - k : k + i - 1 \in 1 .. n
    BY <1>1, <1>3
  <2> QED BY <1>1, <1>3, <2>1, <2>2
<1>6. Until(Q, I) \in Seq(S) /\ From(Q, I) \in Seq(S)
  <2>1. Until(Q, I) \in [1 .. k - 1 -> S] /\ From(Q, I) \in [1 .. n + 1 - k -> S]
    BY <1>4, <1>5
  <2>2. \A m \in Nat : [1 .. m -> S] \subseteq Seq(S)
    OBVIOUS
  <2> HIDE DEF n
  <2> QED BY <1>5, <2>1, <2>2
<1>7. Len(Until(Q, I)) = k - 1 /\ Len(From(Q, I)) = n + 1 - k
  BY <1>4, <1>5
<1>8. k \in 1 .. n + 1
  BY <1>1, <1>3
<1> QED BY <1>3, <1>4, <1>6, <1>7, <1>8 DEF CutAt

\* Two chains, the first before the second.
LEMMA Glue ==
  ASSUME NEW A, NEW B, Chain(A), Chain(B),
         \A i \in 1 .. Len(A), j \in 1 .. Len(B) : End(A[i]) <= B[j].seq /\ ~A[i].fin
  PROVE  /\ Chain(A \o B) /\ Len(A \o B) = Len(A) + Len(B)
         /\ \A i \in 1 .. Len(A \o B) :
              \/ i \in 1 .. Len(A) /\ (A \o B)[i] = A[i]
              \/ i - Len(A) \in 1 .. Len(B) /\ (A \o B)[i] = B[i - Len(A)]
<1> DEFINE C == A \o B
           m == Len(A)
           n == Len(B)
<1>1. /\ A \in Seq(Seg) /\ B \in Seq(Seg) /\ m \in Nat /\ n \in Nat
      /\ C \in Seq(Seg) /\ Len(C) = m + n
      /\ \A i \in 1 .. m : C[i] = A[i]
      /\ \A i \in m + 1 .. m + n : C[i] = B[i - m]
  BY DEF Chain
<1> HIDE DEF C, m, n
<1>2. \A i \in 1 .. m + n : i \in 1 .. m \/ (i - m \in 1 .. n /\ i \in m + 1 .. m + n)
  BY <1>1
<1>3. ASSUME NEW i \in 1 .. m + n, NEW j \in 1 .. m + n, i < j
      PROVE End(C[i]) <= C[j].seq /\ ~C[i].fin
  <2>1. CASE i \in 1 .. m /\ j \in 1 .. m
    BY <1>1, <1>3, <2>1 DEF Chain, m
  <2>2. CASE i \in 1 .. m /\ j - m \in 1 .. n
    <3>1. j \in m + 1 .. m + n
      BY <1>1, <2>2
    <3> QED BY <1>1, <2>2, <3>1 DEF m, n
  <2>3. CASE i - m \in 1 .. n /\ j - m \in 1 .. n
    <3>1. i \in m + 1 .. m + n /\ j \in m + 1 .. m + n /\ i - m < j - m
      BY <1>1, <1>3, <2>3
    <3> QED BY <1>1, <2>3, <3>1 DEF Chain, n
  <2>4. ~(j \in 1 .. m /\ i - m \in 1 .. n)
    BY <1>1, <1>3
  <2> QED BY <1>2, <2>1, <2>2, <2>3, <2>4
<1>4. Chain(C)
  BY <1>1, <1>3 DEF Chain
<1> QED BY <1>1, <1>2, <1>4 DEF C, m, n

\* What the numbers of the connection are between any two steps.
Numbers ==
  /\ {pcb.rcv_nxt, pcb.rcv_wnd, pcb.ann_right_edge, wire.ack, wire.edge} \subseteq Nat
  /\ wire.edge <= pcb.ann_right_edge /\ pcb.ann_right_edge <= RightEdge(pcb)
  /\ env \in Env

\* A segment that is taken, its front cut off, lies in the window of a peer
\* that keeps to it: also the probe that this window has room for by now.
LEMMA FrontFits ==
  ASSUME Numbers, NEW s \in Segments, HasText(s), InWindow(pcb, TrimFront(pcb, s).seq)
  PROVE  /\ Fits(TrimFront(pcb, s), RightEdge(pcb))
         /\ TrimFront(pcb, s).seq \in {s.seq, pcb.rcv_nxt}
<1> DEFINE n == pcb.rcv_nxt
           t == TrimFront(pcb, s)
           e == RightEdge(pcb)
<1>1. s \in Seg /\ Arrives(s) /\ TcpLen(s) > 0
  BY DEF Segments, HasText, Seg
<1>2. n \in Nat /\ e \in Nat /\ wire.edge \in Nat /\ wire.edge <= e
      /\ env.total \in Nat /\ env.total <= MaxBytes /\ MaxBytes \in Nat
  BY ReceiveAssumption DEF Numbers, RightEdge, Env
<1>3. CASE s.seq < n /\ n < s.seq + TcpLen(s)
  <2>1. t = [s EXCEPT !.seq = n, !.len = End(s) - n]
    BY <1>3 DEF TrimFront
  <2>2. End(s) <= env.total /\ (s.fin => End(s) = env.total)
    BY <1>1 DEF Arrives
  <2>3. n <= End(s) /\ End(s) - n <= s.len /\ n <= MaxBytes
    BY <1>1, <1>2, <1>3, <2>2, SegFacts
  <2>a. n \in 0 .. MaxBytes /\ End(s) - n \in 0 .. SegMax
    BY <1>1, <1>2, <2>3, SegFacts, ReceiveAssumption
  <2>4. t \in Seg /\ t.seq = n /\ t.len = End(s) - n /\ t.fin = s.fin
    BY <1>1, <2>1, <2>a DEF Seg
  <2> HIDE DEF t
  <2>5. End(t) = End(s) /\ t.seq + TcpLen(t) = s.seq + TcpLen(s) /\ TcpLen(t) > 0
    BY <1>1, <1>2, <1>3, <2>3, <2>4, SegFacts
  <2>6. env.careful => s.seq + TcpLen(s) <= e
    <3>1. CASE s.seq + TcpLen(s) <= wire.edge
      BY <1>1, <1>2, <3>1, SegFacts
    <3>2. CASE TcpLen(s) = 1
      BY <1>1, <1>2, <1>3, <3>2, SegFacts
    <3> QED BY <1>1, <3>1, <3>2 DEF Arrives
  <2> QED BY <2>2, <2>4, <2>5, <2>6 DEF Fits, t
<1>4. CASE ~(s.seq < n /\ n < s.seq + TcpLen(s))
  <2>1. t = s
    BY <1>4 DEF TrimFront
  <2>2. s.seq < e
    BY <2>1 DEF InWindow
  <2>3. env.careful => s.seq + TcpLen(s) <= e
    <3>1. CASE s.seq + TcpLen(s) <= wire.edge
      BY <1>1, <1>2, <3>1, SegFacts
    <3>2. CASE TcpLen(s) = 1
      BY <1>1, <1>2, <2>2, <3>2, SegFacts
    <3> QED BY <1>1, <3>1, <3>2 DEF Arrives
  <2> QED BY <1>1, <2>1, <2>3 DEF Fits, Arrives
<1> QED BY <1>3, <1>4

\* Cutting it at the right edge too leaves data, and never more.
LEMMA EndFits ==
  ASSUME Numbers, NEW s, Fits(s, RightEdge(pcb)), InWindow(pcb, s.seq)
  PROVE  Fits(TrimEnd(pcb, s), RightEdge(pcb)) /\ TrimEnd(pcb, s).seq = s.seq
<1> DEFINE t == TrimEnd(pcb, s)
           e == RightEdge(pcb)
<1>1. s \in Seg /\ e \in Nat /\ s.seq < e /\ env.total \in Nat
  BY DEF Fits, Numbers, RightEdge, InWindow, Env
<1>2. CASE s.seq + TcpLen(s) > e
  <2>1. t = [s EXCEPT !.len = e - s.seq, !.fin = FALSE]
    BY <1>2 DEF TrimEnd
  <2>2. e - s.seq \in Nat /\ e - s.seq <= s.len /\ e - s.seq > 0
    BY <1>1, <1>2, SegFacts
  <2>a. s.seq \in 0 .. MaxBytes /\ e - s.seq \in 0 .. SegMax
    BY <1>1, <2>2, SegFacts, ReceiveAssumption
  <2>3. t \in Seg /\ t.seq = s.seq /\ t.len = e - s.seq /\ t.fin = FALSE
    BY <1>1, <2>1, <2>a DEF Seg
  <2> HIDE DEF t
  <2>4. TcpLen(t) > 0 /\ End(t) = e /\ End(t) <= End(s) /\ t.seq + TcpLen(t) = e
    BY <1>1, <2>2, <2>3, SegFacts
  <2>5. End(t) <= env.total
    BY <1>1, <2>4, SegFacts DEF Fits
  <2> QED BY <1>1, <2>3, <2>4, <2>5 DEF Fits, t
<1>3. CASE ~(s.seq + TcpLen(s) > e)
  BY <1>3 DEF TrimEnd
<1> QED BY <1>2, <1>3

\* A segment put before the segments it does not cover.
LEMMA SpliceFits ==
  ASSUME env \in Env, NEW e \in Nat, NEW Q, Chain(Q), \A i \in 1 .. Len(Q) : Fits(Q[i], e),
         NEW s, Fits(s, e),
         s.fin \/ \A i \in 1 .. Len(Q) :
                    \/ Q[i].seq > s.seq
                    \/ i = 1 /\ Q[i].seq = s.seq /\ s.len > Q[i].len
  PROVE  LET R == Splice(Q, s)
         IN /\ Chain(R) /\ Len(R) >= 1 /\ R[1].seq = s.seq
            /\ \A i \in 1 .. Len(R) : Fits(R[i], e) /\ (i > 1 => R[i].seq > s.seq)
<1> DEFINE R == Splice(Q, s)
<1>1. s \in Seg /\ env.total \in Nat /\ Q \in Seq(Seg) /\ Len(Q) \in Nat
      /\ \A i \in 1 .. Len(Q) : Q[i] \in Seg
  BY DEF Fits, Env, Chain
<1>2. CASE s.fin
  <2>1. R = <<s>>
    BY <1>2 DEF Splice
  <2>2. Len(<<s>>) = 1 /\ <<s>>[1] = s /\ <<s>> \in Seq(Seg)
    BY <1>1
  <2> QED BY <2>1, <2>2 DEF Chain
<1>3. CASE ~s.fin
  <2> DEFINE I == {i \in DOMAIN Q : End(Q[i]) > End(s)}
             rest == Beyond(Q, End(s))
             t == TakeFin(Q, s)
             u == TrimToNext(rest, t)
  <2>1. I \in SUBSET (1 .. Len(Q)) /\ rest = From(Q, I)
    BY <1>1 DEF Beyond
  <2>a. PICK k : CutAt(k, Q, I, Seg)
    <3> HIDE DEF I
    <3> QED BY <1>1, <2>1, Cut
  <2>2. /\ k \in 1 .. Len(Q) + 1
        /\ \A i \in 1 .. k - 1 : i \notin I
        /\ k <= Len(Q) => k \in I
        /\ rest \in Seq(Seg) /\ Len(rest) = Len(Q) + 1 - k
        /\ \A i \in 1 .. Len(Q) + 1 - k : rest[i] = Q[k + i - 1]
    <3> HIDE DEF I, rest
    <3> QED BY <2>1, <2>a DEF CutAt
  <2>3. R = <<u>> \o rest
    BY <1>3 DEF Splice
  <2> HIDE DEF R, rest
  <2>4. /\ k \in Nat /\ k >= 1 /\ k <= Len(Q) + 1 /\ Len(rest) \in Nat
        /\ \A i \in 1 .. Len(rest) : k + i - 1 \in 1 .. Len(Q) /\ rest[i] = Q[k + i - 1]
        /\ k <= Len(Q) => End(Q[k]) > End(s)
    BY <1>1, <2>2, SMTT(30)
  <2>5. Chain(rest)
    <3> SUFFICES ASSUME NEW i \in 1 .. Len(rest), NEW j \in 1 .. Len(rest), i < j
                 PROVE End(rest[i]) <= rest[j].seq /\ ~rest[i].fin
      BY <2>2 DEF Chain
    <3>1. k + i - 1 < k + j - 1
      BY <2>4
    <3>2. k + i - 1 \in 1 .. Len(Q) /\ k + j - 1 \in 1 .. Len(Q)
          /\ rest[i] = Q[k + i - 1] /\ rest[j] = Q[k + j - 1]
      BY <2>4
    <3> QED BY <3>1, <3>2 DEF Chain
  <2>6. /\ t = [s EXCEPT !.fin = \E i \in DOMAIN Q : Q[i].fin /\ End(Q[i]) <= End(s)]
        /\ t \in Seg /\ t.seq = s.seq /\ t.len = s.len
        /\ t.fin = \E i \in DOMAIN Q : Q[i].fin /\ End(Q[i]) <= End(s)
    BY <1>1 DEF TakeFin, Seg
  <2>c. t.seq = s.seq /\ t.len = s.len
    BY <2>6
  <2> HIDE DEF t
  <2>7. Fits(t, e) /\ End(t) = End(s)
    <3>1. CASE t.fin
      <4>1. PICK i \in 1 .. Len(Q) : Q[i].fin /\ End(Q[i]) <= End(s)
        BY <1>1, <2>6, <3>1
      <4>2. End(Q[i]) = env.total /\ Q[i] \in Seg /\ End(s) <= env.total
            /\ (env.careful => Q[i].seq + TcpLen(Q[i]) <= e)
        BY <4>1 DEF Fits
      <4>a. /\ End(t) = t.seq + t.len /\ TcpLen(t) = t.len + 1
            /\ End(s) = s.seq + s.len /\ s.seq \in Nat /\ s.len \in Nat
            /\ End(Q[i]) = Q[i].seq + Q[i].len /\ TcpLen(Q[i]) = Q[i].len + 1
            /\ Q[i].seq \in Nat /\ Q[i].len \in Nat
        BY <1>1, <2>6, <3>1, <4>1, <4>2, SegFacts
      <4>3. End(t) = End(s) /\ End(s) = env.total /\ TcpLen(t) > 0
            /\ t.seq + TcpLen(t) = Q[i].seq + TcpLen(Q[i])
        <5> HIDE DEF I, rest, u
        <5>1. env.total \in Nat /\ End(s) \in Nat
          BY <1>1, SegFacts
        <5>2. End(s) = env.total
          BY <4>1, <4>2, <5>1
        <5>3. End(t) = End(s)
          BY <2>c, <4>a
        <5>6. t.seq + TcpLen(t) = Q[i].seq + TcpLen(Q[i])
          BY <2>6, <3>1, <4>1, <4>2, <5>2, <5>3, FinEnds
        <5>7. TcpLen(t) > 0
          BY <2>c, <4>a
        <5> QED BY <5>2, <5>3, <5>6, <5>7
      <4> QED BY <2>6, <4>2, <4>3 DEF Fits
    <3>2. CASE ~t.fin
      <4>1. End(t) = End(s) /\ TcpLen(t) = TcpLen(s)
        BY <1>1, <1>3, <2>6, <3>2, SegFacts
      <4> QED BY <2>6, <3>2, <4>1 DEF Fits
    <3> QED BY <3>1, <3>2
  <2>8. /\ Fits(u, e) /\ u.seq = s.seq
        /\ Len(rest) # 0 => End(u) <= rest[1].seq /\ ~u.fin /\ rest[1].seq > s.seq
    <3>1. CASE Len(rest) = 0
      <4>1. rest = <<>>
        BY <2>2, <3>1
      <4> QED BY <2>6, <2>7, <3>1, <4>1 DEF TrimToNext
    <3>2. CASE Len(rest) # 0
      <4>1. k \in 1 .. Len(Q) /\ rest[1] = Q[k] /\ End(rest[1]) > End(s) /\ rest[1] \in Seg
            /\ Head(rest) = rest[1] /\ rest # <<>> /\ Fits(rest[1], e)
        <5>1. 1 \in 1 .. Len(rest) /\ k + 1 - 1 = k /\ k \in 1 .. Len(Q)
          BY <2>2, <2>4, <3>2
        <5>2. rest[1] = Q[k]
          BY <2>4, <5>1
        <5>3. rest # <<>> /\ Head(rest) = rest[1] /\ rest[1] \in Seg
          BY <2>2, <5>1
        <5>4. End(Q[k]) > End(s)
          BY <1>1, <2>4, <5>1
        <5> QED BY <5>1, <5>2, <5>3, <5>4
      <4>2. rest[1].seq > s.seq
        <5>1. ASSUME k = 1, Q[k].seq = s.seq, s.len > Q[k].len PROVE FALSE
          BY <1>1, <4>1, <5>1, SegFacts
        <5> QED BY <1>3, <4>1, <5>1
      <4>3. ~t.fin
        BY <1>1, <2>6, <2>7, <4>1, SegFacts, SMTT(30) DEF Fits
      <4>4. CASE End(t) > rest[1].seq
        <5> DEFINE l == rest[1].seq - t.seq
        <5>1. u = [t EXCEPT !.len = l]
          BY <4>1, <4>4 DEF TrimToNext
        <5>a. /\ t.seq \in Nat /\ t.len \in Nat /\ t.len <= SegMax /\ SegMax \in Nat
              /\ End(t) = t.seq + t.len /\ TcpLen(t) = t.len
              /\ rest[1].seq \in Nat /\ t.fin \in BOOLEAN
          BY <2>6, <4>1, <4>3, SegFacts, ReceiveAssumption
        <5>2. l \in Nat /\ l > 0 /\ l <= t.len /\ l \in 0 .. SegMax
          BY <2>6, <4>2, <4>4, <5>a
        <5> HIDE DEF l, u
        <5>3. u \in Seg /\ u.seq = s.seq /\ u.len = l /\ u.fin = FALSE
          BY <2>6, <4>3, <5>1, <5>2, <5>a DEF Seg
        <5>b. End(u) = u.seq + u.len /\ TcpLen(u) = u.len
          BY <5>3, SegFacts
        <5>4. End(u) = rest[1].seq /\ TcpLen(u) = l /\ u.seq + TcpLen(u) <= t.seq + TcpLen(t)
              /\ End(u) <= End(t)
          BY <2>6, <5>2, <5>3, <5>a, <5>b DEF l
        <5>c. End(t) <= env.total /\ (env.careful => t.seq + TcpLen(t) <= e)
          BY <2>7 DEF Fits
        <5>5. Fits(u, e)
          <6>1. End(u) <= env.total /\ (env.careful => u.seq + TcpLen(u) <= e)
            BY <1>1, <2>6, <5>2, <5>3, <5>4, <5>a, <5>b, <5>c
          <6> QED BY <5>2, <5>3, <5>4, <6>1 DEF Fits
        <5>6. End(u) <= rest[1].seq
          BY <4>1, <5>4, SegFacts
        <5> QED BY <4>2, <5>3, <5>5, <5>6
      <4>5. CASE ~(End(t) > rest[1].seq)
        <5>1. u = t
          BY <4>1, <4>5 DEF TrimToNext
        <5> HIDE DEF u
        <5>2. End(t) \in Nat /\ rest[1].seq \in Nat
          BY <2>6, <4>1, SegFacts
        <5> QED BY <2>6, <2>7, <4>1, <4>2, <4>3, <4>5, <5>1, <5>2
      <4> QED BY <4>4, <4>5
    <3> QED BY <3>1, <3>2
  <2> HIDE DEF u
  <2>9. /\ Chain(<<u>>) /\ Len(<<u>>) = 1 /\ <<u>>[1] = u
    <3>1. <<u>> \in Seq(Seg) /\ Len(<<u>>) = 1 /\ <<u>>[1] = u
      BY <2>8 DEF Fits
    <3> QED BY <3>1 DEF Chain
  <2>10. \A j \in 1 .. Len(rest) : /\ Fits(rest[j], e) /\ rest[j].seq > s.seq
                                   /\ End(u) <= rest[j].seq /\ ~u.fin
    <3> TAKE j \in 1 .. Len(rest)
    <3>1. 1 \in 1 .. Len(rest) /\ Len(rest) # 0
      BY <2>4
    <3>2. rest[1] \in Seg /\ rest[j] \in Seg /\ Fits(rest[j], e) /\ u \in Seg
      BY <2>4, <2>8, <3>1 DEF Fits
    <3>3. j = 1 \/ End(rest[1]) <= rest[j].seq
      <4>1. j # 1 => 1 < j
        BY <2>4
      <4> QED BY <2>5, <3>1, <4>1 DEF Chain
    <3>4. /\ rest[1].seq \in Nat /\ rest[j].seq \in Nat /\ End(u) \in Nat /\ s.seq \in Nat
          /\ rest[1].seq <= End(rest[1]) /\ End(rest[1]) \in Nat
      <4>1. \A v \in Seg : v.seq \in Nat /\ End(v) \in Nat /\ v.seq <= End(v)
        BY SegFacts
      <4> QED BY <1>1, <3>2, <4>1
    <3> QED BY <2>8, <3>1, <3>2, <3>3, <3>4
  <2>11. /\ Chain(R) /\ Len(R) = 1 + Len(rest)
         /\ \A i \in 1 .. Len(R) : \/ i = 1 /\ R[i] = u
                                   \/ i - 1 \in 1 .. Len(rest) /\ R[i] = rest[i - 1]
    <3>1. \A i \in 1 .. Len(<<u>>), j \in 1 .. Len(rest) :
             End(<<u>>[i]) <= rest[j].seq /\ ~<<u>>[i].fin
      BY <2>9, <2>10
    <3>2. /\ Chain(<<u>> \o rest) /\ Len(<<u>> \o rest) = Len(<<u>>) + Len(rest)
          /\ \A i \in 1 .. Len(<<u>> \o rest) :
              \/ i \in 1 .. Len(<<u>>) /\ (<<u>> \o rest)[i] = <<u>>[i]
              \/ i - Len(<<u>>) \in 1 .. Len(rest) /\ (<<u>> \o rest)[i] = rest[i - Len(<<u>>)]
      BY <2>5, <2>9, <3>1, Glue
    <3>3. \A i \in 1 .. Len(<<u>>) : i = 1
      BY <2>9
    <3> QED BY <2>3, <2>9, <3>2, <3>3
  <2>12. Len(R) >= 1 /\ R[1] = u /\ 1 \in 1 .. Len(R)
    BY <2>4, <2>11
  <2>13. \A i \in 1 .. Len(R) : Fits(R[i], e) /\ (i > 1 => R[i].seq > s.seq)
    BY <2>8, <2>10, <2>11
  <2> QED BY <2>8, <2>11, <2>12, <2>13 DEF R
<1> QED BY <1>2, <1>3

\* An out of order segment leaves ooseq a queue.
LEMMA InsertQueue ==
  ASSUME Numbers, Queue(pcb.ooseq, pcb.rcv_nxt, RightEdge(pcb)), NEW s,
         Fits(s, RightEdge(pcb)), pcb.rcv_nxt < s.seq, s.seq < RightEdge(pcb)
  PROVE  Queue(Insert(pcb, s), pcb.rcv_nxt, RightEdge(pcb))
<1> DEFINE Q == pcb.ooseq
           n == pcb.rcv_nxt
           e == RightEdge(pcb)
           I == {i \in DOMAIN Q : Q[i].seq >= s.seq}
           before == Until(Q, I)
           after == From(Q, I)
<1>1. /\ Q \in Seq(Seg) /\ Len(Q) \in Nat /\ DOMAIN Q = 1 .. Len(Q) /\ I \in SUBSET (1 .. Len(Q))
      /\ \A i \in 1 .. Len(Q) : Q[i] \in Seg /\ Fits(Q[i], e) /\ Q[i].seq > n
      /\ s \in Seg /\ n \in Nat /\ e \in Nat /\ env \in Env
  BY DEF Queue, Chain, Fits, Numbers, RightEdge
<1>2. PICK k : CutAt(k, Q, I, Seg)
  <2> HIDE DEF I, Q
  <2> QED BY <1>1, Cut
<1>3. /\ before \in Seq(Seg) /\ after \in Seq(Seg)
      /\ Len(before) = k - 1 /\ Len(after) = Len(Q) + 1 - k /\ k \in 1 .. Len(Q) + 1
      /\ \A i \in 1 .. k - 1 : before[i] = Q[i]
      /\ \A i \in 1 .. Len(Q) + 1 - k : after[i] = Q[k + i - 1]
      /\ \A i \in 1 .. k - 1 : i \notin I
      /\ k <= Len(Q) => k \in I
  <2> HIDE DEF I, Q
  <2> QED BY <1>2 DEF CutAt
<1>4. /\ k \in Nat /\ k >= 1 /\ k <= Len(Q) + 1
      /\ \A i \in 1 .. Len(before) : i \in 1 .. Len(Q) /\ before[i] = Q[i]
      /\ \A i \in 1 .. Len(after) : k + i - 1 \in 1 .. Len(Q) /\ after[i] = Q[k + i - 1]
      /\ k <= Len(Q) => Q[k].seq >= s.seq
  <2>1. k <= Len(Q) => Q[k].seq >= s.seq
    BY <1>3
  <2>2. k \in Nat /\ k >= 1 /\ k <= Len(Q) + 1
    BY <1>1, <1>3
  <2> HIDE DEF I, Q, before, after
  <2>3. \A i \in 1 .. Len(before) : i \in 1 .. Len(Q) /\ before[i] = Q[i]
    BY <1>1, <1>3, <2>2
  <2>4. \A i \in 1 .. Len(after) : k + i - 1 \in 1 .. Len(Q) /\ after[i] = Q[k + i - 1]
    BY <1>1, <1>3, <2>2
  <2> QED BY <2>1, <2>2, <2>3, <2>4
<1>5. \A i \in 1 .. Len(before) : before[i].seq < s.seq
  <2> TAKE i \in 1 .. Len(before)
  <2>1. i \in 1 .. Len(Q) /\ i \notin I /\ before[i] = Q[i]
    BY <1>1, <1>3, <1>4
  <2>2. Q[i].seq \in Nat /\ s.seq \in Nat
    BY <1>1, <2>1, SegFacts
  <2> QED BY <1>1, <2>1, <2>2
<1> HIDE DEF I, Q, before, after
<1>6. Chain(before) /\ Chain(after)
  <2>1. Chain(Q)
    BY DEF Queue, Q
  <2>2. ASSUME NEW i \in 1 .. Len(before), NEW j \in 1 .. Len(before), i < j
        PROVE End(before[i]) <= before[j].seq /\ ~before[i].fin
    BY <1>4, <2>1, <2>2 DEF Chain
  <2>3. ASSUME NEW i \in 1 .. Len(after), NEW j \in 1 .. Len(after), i < j
        PROVE End(after[i]) <= after[j].seq /\ ~after[i].fin
    <3>1. k + i - 1 < k + j - 1 /\ k + i - 1 \in 1 .. Len(Q) /\ k + j - 1 \in 1 .. Len(Q)
          /\ after[i] = Q[k + i - 1] /\ after[j] = Q[k + j - 1]
      BY <1>4, <2>3
    <3> QED BY <2>1, <3>1 DEF Chain
  <2> QED BY <1>3, <2>2, <2>3 DEF Chain
<1>7. \A i \in 1 .. Len(before), j \in 1 .. Len(after) :
         End(before[i]) <= after[j].seq /\ ~before[i].fin
  <2> TAKE i \in 1 .. Len(before), j \in 1 .. Len(after)
  <2>1. i < k + j - 1 /\ i \in 1 .. Len(Q) /\ k + j - 1 \in 1 .. Len(Q)
        /\ before[i] = Q[i] /\ after[j] = Q[k + j - 1]
    BY <1>3, <1>4
  <2> QED BY <2>1 DEF Queue, Chain, Q
<1>8. \A i \in 1 .. Len(after) : /\ after[i] \in Seg /\ Fits(after[i], e) /\ after[i].seq > n
                                 /\ after[i].seq >= s.seq /\ (i > 1 => after[i].seq > s.seq)
  <2> TAKE i \in 1 .. Len(after)
  <2>1. k + i - 1 \in 1 .. Len(Q) /\ after[i] = Q[k + i - 1] /\ k \in 1 .. Len(Q)
        /\ 1 \in 1 .. Len(after) /\ after[1] = Q[k] /\ Q[k].seq >= s.seq
    BY <1>4
  <2>2. i > 1 => End(after[1]) <= after[i].seq /\ ~after[1].fin
    BY <1>6, <2>1 DEF Chain
  <2>3. Fits(after[1], e) /\ after[1] \in Seg /\ Fits(after[i], e) /\ after[i] \in Seg
    BY <1>1, <2>1
  <2>4. i > 1 => after[i].seq > s.seq
    <3>1. TcpLen(after[1]) > 0
      BY <2>3 DEF Fits
    <3>2. s.seq \in Nat /\ after[i].seq \in Nat
      BY <1>1, <2>3, SegFacts
    <3>3. /\ after[1].seq \in Nat /\ after[1].len \in Nat
          /\ End(after[1]) = after[1].seq + after[1].len
          /\ ~after[1].fin => TcpLen(after[1]) = after[1].len
      BY <2>3, SegFacts
    <3> QED BY <2>1, <2>2, <3>1, <3>2, <3>3, SMTT(30)
  <2>5. i = 1 \/ i > 1
    BY <1>3
  <2>6. after[i].seq >= s.seq /\ after[i].seq > n
    <3>1. after[i].seq \in Nat /\ s.seq \in Nat
      BY <1>1, <2>3, SegFacts
    <3> QED BY <1>1, <2>1, <2>4, <2>5, <3>1
  <2> QED BY <2>3, <2>4, <2>6
<1> DEFINE ditched == \/ after # <<>> /\ Head(after).seq = s.seq /\ s.len <= Head(after).len
                      \/ after = <<>> /\ before # <<>> /\ Last(before).fin
           tail == IF after = <<>> /\ before # <<>> THEN <<TrimEnd(pcb, s)>> ELSE Splice(after, s)
           head == TrimLast(before, s.seq)
<1>9. Insert(pcb, s) = IF ditched THEN Q ELSE head \o tail
  BY DEF Insert, I, Q, before, after
<1>10. CASE ditched
  BY <1>9, <1>10 DEF Q
<1>11. CASE ~ditched
  <2>1. after # <<>> => Head(after) = after[1] /\ 1 \in 1 .. Len(after)
    BY <1>3
  <2>2. /\ Chain(tail) /\ Len(tail) >= 1 /\ tail[1].seq = s.seq
        /\ \A i \in 1 .. Len(tail) : Fits(tail[i], e) /\ (i > 1 => tail[i].seq > s.seq)
    <3>1. CASE after = <<>> /\ before # <<>>
      <4>1. tail = <<TrimEnd(pcb, s)>>
        BY <3>1
      <4> HIDE DEF tail
      <4>2. Fits(TrimEnd(pcb, s), e) /\ TrimEnd(pcb, s).seq = s.seq
        <5>1. InWindow(pcb, s.seq)
          BY <1>1, SegFacts DEF InWindow
        <5> QED BY <5>1, EndFits
      <4>3. TrimEnd(pcb, s) \in Seg
        BY <4>2 DEF Fits
      <4>4. tail \in Seq(Seg) /\ Len(tail) = 1 /\ tail[1] = TrimEnd(pcb, s)
        BY <4>1, <4>3
      <4>5. Chain(tail)
        BY <4>4 DEF Chain
      <4> QED BY <4>2, <4>4, <4>5
    <3>2. CASE ~(after = <<>> /\ before # <<>>)
      <4>1. tail = Splice(after, s)
        BY <3>2
      <4>2. \A i \in 1 .. Len(after) :
                    \/ after[i].seq > s.seq
                    \/ i = 1 /\ after[i].seq = s.seq /\ s.len > after[i].len
        <5> TAKE i \in 1 .. Len(after)
        <5>1. CASE i = 1
          <6>1. after # <<>> /\ Head(after) = after[1]
            BY <1>3, <5>1
          <6>2. ~(after[1].seq = s.seq /\ s.len <= after[1].len)
            BY <1>11, <6>1
          <6>3. /\ after[1].seq \in Nat /\ s.seq \in Nat /\ s.len \in Nat /\ after[1].len \in Nat
                /\ after[1].seq >= s.seq
            BY <1>1, <1>8, <5>1, SegFacts
          <6> QED BY <5>1, <6>2, <6>3
        <5>2. CASE i # 1
          <6>1. i > 1
            BY <1>3, <5>2
          <6> QED BY <1>8, <6>1
        <5> QED BY <5>1, <5>2
      <4>3. \A i \in 1 .. Len(after) : Fits(after[i], e)
        BY <1>8
      <4> HIDE DEF tail
      <4> QED BY <1>1, <1>6, <4>1, <4>2, <4>3, SpliceFits
    <3> QED BY <3>1, <3>2
  <2>3. /\ Chain(head) /\ Len(head) = Len(before)
        /\ \A i \in 1 .. Len(head) : /\ Fits(head[i], e) /\ head[i].seq > n
                                     /\ End(head[i]) <= s.seq /\ ~head[i].fin
    <3> DEFINE m == Len(before)
    <3>a. m \in Nat /\ \A i \in 1 .. m : before[i] \in Seg /\ Fits(before[i], e) /\ before[i].seq > n
      BY <1>1, <1>3, <1>4
    <3>b. \A i \in 1 .. m : ~before[i].fin
      <4>1. CASE after = <<>>
        <5>1. m # 0 => ~Last(before).fin /\ Last(before) = before[m] /\ before # <<>>
          BY <1>3, <1>11, <4>1 DEF Last
        <5>2. \A i \in 1 .. m : i = m \/ (i < m /\ m \in 1 .. m)
          BY <3>a
        <5> QED BY <1>6, <5>1, <5>2 DEF Chain
      <4>2. CASE after # <<>>
        BY <1>7, <2>1, <4>2
      <4> QED BY <4>1, <4>2
    <3>c. \A i \in 1 .. m : i # m => End(before[i]) <= s.seq
      <4> TAKE i \in 1 .. m
      <4>1. i # m => i < m /\ m \in 1 .. m
        BY <3>a
      <4>2. i # m => End(before[i]) <= before[m].seq /\ before[m].seq < s.seq /\ before[m] \in Seg
        BY <1>5, <1>6, <3>a, <4>1 DEF Chain
      <4> QED BY <1>1, <3>a, <4>2, SegFacts, SMTT(30)
    <3>1. CASE before # <<>> /\ End(Last(before)) > s.seq
      <4> DEFINE b == before[m]
                 l == s.seq - b.seq
                 c == [b EXCEPT !.len = l]
      <4>1. m \in 1 .. m /\ Last(before) = b /\ b \in Seg /\ Fits(b, e) /\ b.seq > n /\ ~b.fin
            /\ b.seq < s.seq
        <5>1. m # 0
          BY <1>3, <3>1
        <5>2. m \in 1 .. m
          BY <3>a, <5>1
        <5> QED BY <1>5, <3>a, <3>b, <5>2 DEF Last
      <4>2. head = Front(before) \o <<c>>
        BY <3>1, <4>1 DEF TrimLast
      <4>3. l \in Nat /\ l > 0 /\ l <= b.len /\ l \in 0 .. SegMax
        <5>1. /\ s.seq \in Nat /\ b.seq \in Nat /\ b.len \in Nat /\ b.len <= SegMax
              /\ SegMax \in Nat /\ End(b) = b.seq + b.len
          BY <1>1, <4>1, SegFacts, ReceiveAssumption
        <5>2. End(b) > s.seq
          BY <3>1, <4>1
        <5> HIDE DEF b
        <5> QED BY <4>1, <5>1, <5>2
      <4>4. c \in Seg /\ c.seq = b.seq /\ c.len = l /\ c.fin = FALSE
        BY <4>1, <4>3, SegFacts DEF Seg
      <4> HIDE DEF c
      <4>5. End(c) = s.seq /\ TcpLen(c) = l /\ TcpLen(b) = b.len
        <5>1. s.seq \in Nat /\ b.seq \in Nat /\ TcpLen(b) = b.len
          BY <1>1, <4>1, SegFacts
        <5>2. End(c) = c.seq + c.len /\ TcpLen(c) = c.len
          BY <4>4, SegFacts
        <5> QED BY <4>4, <5>1, <5>2
      <4>6. Fits(c, e)
        <5>1. End(b) <= env.total /\ (env.careful => b.seq + TcpLen(b) <= e)
          BY <4>1 DEF Fits
        <5>2. env.total \in Nat /\ s.seq <= End(b) /\ End(b) \in Nat /\ s.seq \in Nat
          BY <1>1, <3>1, <4>1, SegFacts DEF Env
        <5>3. End(c) <= env.total
          BY <4>5, <5>1, <5>2
        <5>4. c.seq + TcpLen(c) <= b.seq + TcpLen(b) /\ c.seq + TcpLen(c) \in Nat
              /\ b.seq + TcpLen(b) \in Nat
          BY <4>1, <4>3, <4>4, <4>5, SegFacts
        <5>5. env.careful => c.seq + TcpLen(c) <= e
          BY <1>1, <5>1, <5>4
        <5> QED BY <4>3, <4>4, <4>5, <5>3, <5>5 DEF Fits
      <4>7. /\ head \in Seq(Seg) /\ Len(head) = m /\ head[m] = c
            /\ \A i \in 1 .. m : i # m => head[i] = before[i]
        <5> DEFINE f == Front(before)
        <5>1. f \in Seq(Seg) /\ Len(f) = m - 1 /\ \A i \in 1 .. m - 1 : f[i] = before[i]
          BY <1>3, <3>a, <4>1 DEF Front
        <5> HIDE DEF f
        <5>2. head = f \o <<c>>
          BY <4>2 DEF f
        <5>3. \A i \in 1 .. m : i # m => i \in 1 .. m - 1
          BY <3>a
        <5> HIDE DEF head, m
        <5> QED BY <3>a, <4>1, <4>4, <5>1, <5>2, <5>3
      <4> HIDE DEF head
      <4>8. \A i \in 1 .. m : /\ Fits(head[i], e) /\ head[i].seq > n
                              /\ End(head[i]) <= s.seq /\ ~head[i].fin
        <5> TAKE i \in 1 .. m
        <5>1. CASE i = m
          <6>1. s.seq \in Nat
            BY <1>1, SegFacts
          <6> QED BY <4>1, <4>4, <4>5, <4>6, <4>7, <5>1, <6>1
        <5>2. CASE i # m
          BY <3>a, <3>b, <3>c, <4>7, <5>2
        <5> QED BY <5>1, <5>2
      <4>9. ASSUME NEW i \in 1 .. m, NEW j \in 1 .. m, i < j PROVE End(head[i]) <= head[j].seq
        <5>1. i # m /\ head[i] = before[i]
          BY <3>a, <4>7, <4>9
        <5>2. End(before[i]) <= before[j].seq
          BY <1>6, <4>9 DEF Chain
        <5>3. head[j].seq = before[j].seq
          BY <4>4, <4>7
        <5> QED BY <5>1, <5>2, <5>3
      <4> QED BY <4>7, <4>8, <4>9 DEF Chain
    <3>2. CASE ~(before # <<>> /\ End(Last(before)) > s.seq)
      <4>1. head = before
        BY <3>2 DEF TrimLast
      <4>2. m # 0 => End(before[m]) <= s.seq
        <5>1. m # 0 => before # <<>> /\ Last(before) = before[m] /\ m \in 1 .. m
          BY <1>3, <3>a DEF Last
        <5>2. m # 0 => ~(End(before[m]) > s.seq) /\ End(before[m]) \in Nat /\ s.seq \in Nat
          BY <1>1, <3>2, <3>a, <5>1, SegFacts
        <5> QED BY <5>2
      <4>3. \A i \in 1 .. m : End(before[i]) <= s.seq
        BY <3>a, <3>c, <4>2
      <4> QED BY <1>6, <3>a, <3>b, <4>1, <4>3
    <3> QED BY <3>1, <3>2
  <2> HIDE DEF head, tail
  <2>4. \A j \in 1 .. Len(tail) : tail[j] \in Seg /\ tail[j].seq >= s.seq /\ Fits(tail[j], e)
    <3> TAKE j \in 1 .. Len(tail)
    <3>1. tail[j] \in Seg /\ Fits(tail[j], e)
      BY <2>2 DEF Fits
    <3>2. tail[j].seq \in Nat /\ s.seq \in Nat /\ (j = 1 \/ j > 1)
      BY <1>1, <3>1, SegFacts
    <3> QED BY <2>2, <3>1, <3>2
  <2>5. \A i \in 1 .. Len(head), j \in 1 .. Len(tail) : End(head[i]) <= tail[j].seq /\ ~head[i].fin
    <3> TAKE i \in 1 .. Len(head), j \in 1 .. Len(tail)
    <3>1. head[i] \in Seg
      BY <2>3 DEF Fits
    <3>2. /\ End(head[i]) \in Nat /\ s.seq \in Nat /\ tail[j].seq \in Nat
      BY <1>1, <2>4, <3>1, SegFacts
    <3> QED BY <2>3, <2>4, <3>2
  <2>6. /\ Chain(head \o tail) /\ Len(head \o tail) = Len(head) + Len(tail)
        /\ \A i \in 1 .. Len(head \o tail) :
              \/ i \in 1 .. Len(head) /\ (head \o tail)[i] = head[i]
              \/ i - Len(head) \in 1 .. Len(tail) /\ (head \o tail)[i] = tail[i - Len(head)]
    BY <2>2, <2>3, <2>5, Glue
  <2>7. \A j \in 1 .. Len(tail) : tail[j].seq > n
    BY <1>1, <2>4, SegFacts
  <2>8. \A i \in 1 .. Len(head \o tail) :
           Fits((head \o tail)[i], e) /\ (head \o tail)[i].seq > n
    BY <2>3, <2>4, <2>6, <2>7
  <2> QED BY <1>9, <1>11, <2>6, <2>8 DEF Queue
<1> QED BY <1>10, <1>11

-------------------------------------------------------------------------------
(* The bytes in order. *)

Byte == 0 .. MaxBytes

\* The bytes of the stream from the one at f on.
Bytes(q, f) == q \in Seq(Byte) /\ \A i \in 1 .. Len(q) : q[i] = f + i - 1

LEMMA BytesConcat ==
  ASSUME NEW f \in Nat, NEW a, NEW b, Bytes(a, f), Bytes(b, f + Len(a))
  PROVE  Bytes(a \o b, f) /\ Len(a \o b) = Len(a) + Len(b)
<1> DEFINE m == Len(a)
           n == Len(b)
           c == a \o b
<1>1. /\ a \in Seq(Byte) /\ b \in Seq(Byte) /\ m \in Nat /\ n \in Nat
      /\ c \in Seq(Byte) /\ Len(c) = m + n
      /\ \A i \in 1 .. m : c[i] = a[i]
      /\ \A i \in m + 1 .. m + n : c[i] = b[i - m]
  BY DEF Bytes
<1>2. /\ \A i \in 1 .. m : a[i] = f + i - 1
      /\ \A i \in 1 .. n : b[i] = f + m + i - 1
  BY DEF Bytes
<1> HIDE DEF m, n, c
<1>3. ASSUME NEW i \in 1 .. m + n PROVE c[i] = f + i - 1
  <2>1. CASE i \in 1 .. m
    BY <1>1, <1>2, <2>1
  <2>2. CASE i \notin 1 .. m
    <3>1. i \in m + 1 .. m + n /\ i - m \in 1 .. n
      BY <1>1, <2>2
    <3>2. c[i] = f + m + (i - m) - 1
      BY <1>1, <1>2, <3>1
    <3> QED BY <1>1, <3>1, <3>2
  <2> QED BY <2>1, <2>2
<1> QED BY <1>1, <1>3 DEF Bytes, m, n, c

LEMMA BytesSplit ==
  ASSUME NEW f \in Nat, NEW a \in Seq(Byte), NEW b \in Seq(Byte), Bytes(a \o b, f)
  PROVE  Bytes(a, f) /\ Bytes(b, f + Len(a)) /\ Len(a \o b) = Len(a) + Len(b)
<1> DEFINE m == Len(a)
           n == Len(b)
           c == a \o b
<1>1. /\ m \in Nat /\ n \in Nat /\ Len(c) = m + n
      /\ \A i \in 1 .. m : c[i] = a[i]
      /\ \A i \in 1 .. n : c[m + i] = b[i]
  OBVIOUS
<1>2. \A i \in 1 .. m + n : c[i] = f + i - 1
  BY <1>1 DEF Bytes
<1> HIDE DEF m, n, c
<1>3. \A i \in 1 .. m : i \in 1 .. m + n
  BY <1>1
<1>4. \A i \in 1 .. n : m + i \in 1 .. m + n /\ f + (m + i) - 1 = (f + m) + i - 1
  BY <1>1
<1>5. \A i \in 1 .. n : b[i] = (f + m) + i - 1
  <2> TAKE i \in 1 .. n
  <2>1. c[m + i] = f + (m + i) - 1
    BY <1>2, <1>4
  <2> QED BY <1>1, <1>4, <2>1
<1>6. \A i \in 1 .. m : a[i] = f + i - 1
  BY <1>1, <1>2, <1>3
<1> QED BY <1>1, <1>5, <1>6 DEF Bytes, m, n, c

LEMMA BytesRest ==
  ASSUME NEW f \in Nat, NEW q, Bytes(q, f), NEW n \in 0 .. Len(q)
  PROVE  Bytes(SubSeq(q, n + 1, Len(q)), f + n) /\ Len(SubSeq(q, n + 1, Len(q))) = Len(q) - n
<1> DEFINE l == Len(q)
           r == SubSeq(q, n + 1, l)
<1>1. q \in Seq(Byte) /\ l \in Nat /\ n \in Nat /\ n <= l
  BY DEF Bytes
<1>2. r \in Seq(Byte) /\ Len(r) = l - n /\ \A i \in 1 .. l - n : r[i] = q[n + i]
  BY <1>1
<1>3. \A i \in 1 .. l - n : n + i \in 1 .. l /\ f + (n + i) - 1 = (f + n) + i - 1
  BY <1>1
<1>4. \A i \in 1 .. l : q[i] = f + i - 1
  BY DEF Bytes
<1> HIDE DEF l, r
<1>5. \A i \in 1 .. l - n : r[i] = (f + n) + i - 1
  BY <1>2, <1>3, <1>4
<1> QED BY <1>2, <1>5 DEF Bytes, l, r

\* The data of a segment.
LEMMA DataBytes ==
  ASSUME env \in Env, NEW e, NEW s, Fits(s, e)
  PROVE  Bytes(Data(s), s.seq) /\ Len(Data(s)) = s.len
<1>1. /\ s \in Seg /\ s.seq \in Nat /\ s.len \in Nat /\ s.seq + s.len <= MaxBytes /\ MaxBytes \in Nat
  <2>1. s \in Seg /\ End(s) <= env.total /\ env.total \in Nat /\ env.total <= MaxBytes
        /\ MaxBytes \in Nat
    BY ReceiveAssumption DEF Fits, Env
  <2> QED BY <2>1, SegFacts
<1>2. Data(s) = [i \in 1 .. s.len |-> s.seq + i - 1]
  BY DEF Data
<1>3. \A i \in 1 .. s.len : s.seq + i - 1 \in Byte
  BY <1>1 DEF Byte
<1>4. Data(s) \in Seq(Byte) /\ Len(Data(s)) = s.len
  BY <1>1, <1>2, <1>3
<1>5. \A i \in 1 .. s.len : Data(s)[i] = s.seq + i - 1
  BY <1>2
<1> QED BY <1>4, <1>5 DEF Bytes

\* How far the segments follow each other.
LEMMA RunLength ==
  ASSUME NEW L \in Seq(Seg), Len(L) >= 1
  PROVE  LET k == Run(L)
         IN /\ k \in 1 .. Len(L)
            /\ \A j \in 2 .. k : L[j].seq = L[j - 1].seq + TcpLen(L[j - 1])
            /\ k < Len(L) => L[k + 1].seq # L[k].seq + TcpLen(L[k])
<1> DEFINE S == {n \in 1 .. Len(L) : \A j \in 2 .. n : L[j].seq = L[j - 1].seq + TcpLen(L[j - 1])}
           k == Run(L)
<1>1. Len(L) \in Nat /\ S \in SUBSET (0 .. Len(L)) /\ 1 \in S
  OBVIOUS
<1>2. k = Max(S)
  BY DEF Run
<1>3. k \in S /\ \A n \in S : n <= k
  <2> HIDE DEF S, k
  <2> QED BY <1>1, <1>2, GreatestIndex
<1> HIDE DEF k
<1>4. /\ k \in 1 .. Len(L)
      /\ \A j \in 2 .. k : L[j].seq = L[j - 1].seq + TcpLen(L[j - 1])
  BY <1>3
<1>5. ASSUME k < Len(L), L[k + 1].seq = L[k].seq + TcpLen(L[k]) PROVE FALSE
  <2>1. k \in Nat /\ k + 1 \in 1 .. Len(L) /\ (k + 1) - 1 = k /\ ~(k + 1 <= k)
    BY <1>1, <1>4, <1>5
  <2>2. \A j \in 2 .. k + 1 : j = k + 1 \/ j \in 2 .. k
    BY <2>1
  <2>3. k + 1 \in S
    BY <1>4, <1>5, <2>1, <2>2
  <2> QED BY <1>3, <2>1, <2>3
<1> QED BY <1>4, <1>5 DEF k

\* Where rcv_nxt is once t is taken.
Reached(t) == Last(InOrder(pcb, t)).seq + TcpLen(Last(InOrder(pcb, t)))

\* What the segment with the byte rcv_nxt puts in order, and what it leaves.
LEMMA TakenFacts ==
  ASSUME Numbers, Queue(pcb.ooseq, pcb.rcv_nxt, RightEdge(pcb)), NEW t,
         Fits(t, RightEdge(pcb)), t.seq = pcb.rcv_nxt, t.seq < RightEdge(pcb)
  PROVE  /\ Bytes(Chunk(InOrder(pcb, t)), pcb.rcv_nxt)
         /\ Reached(t) = pcb.rcv_nxt + Len(Chunk(InOrder(pcb, t)))
                         + IF GotFin(InOrder(pcb, t)) THEN 1 ELSE 0
         /\ Reached(t) \in Nat /\ Reached(t) > pcb.rcv_nxt
         /\ pcb.rcv_nxt + Len(Chunk(InOrder(pcb, t))) <= env.total
         /\ GotFin(InOrder(pcb, t)) =>
              pcb.rcv_nxt + Len(Chunk(InOrder(pcb, t))) = env.total
         /\ env.careful => Reached(t) <= RightEdge(pcb)
         /\ Queue(Left(pcb, t), Reached(t), RightEdge(pcb))
<1>0. \A f \in Nat : \A a, b : Bytes(a, f) /\ Bytes(b, f + Len(a)) =>
                         Bytes(a \o b, f) /\ Len(a \o b) = Len(a) + Len(b)
  BY BytesConcat
<1> DEFINE n == pcb.rcv_nxt
           e == RightEdge(pcb)
           Q == pcb.ooseq
           u == TrimEnd(pcb, t)
           L == Spliced(pcb, t)
           k == Run(L)
           I == InOrder(pcb, t)
<1>1. /\ n \in Nat /\ e \in Nat /\ env \in Env /\ env.total \in Nat
      /\ Chain(Q) /\ \A i \in 1 .. Len(Q) : Fits(Q[i], e) /\ Q[i].seq > n
  BY DEF Numbers, RightEdge, Env, Queue
<1>2. Fits(u, e) /\ u.seq = n
  BY <1>1, EndFits DEF InWindow
<1>3. /\ Chain(L) /\ Len(L) >= 1 /\ L[1].seq = n
      /\ \A i \in 1 .. Len(L) : Fits(L[i], e) /\ (i > 1 => L[i].seq > n)
  <2>1. L = Splice(Q, u)
    BY DEF Spliced
  <2>2. \A i \in 1 .. Len(Q) : Q[i].seq > u.seq
    BY <1>1, <1>2
  <2> HIDE DEF L, Q, u, e
  <2>3. env \in Env /\ e \in Nat /\ Chain(Q) /\ (\A i \in 1 .. Len(Q) : Fits(Q[i], e))
        /\ Fits(u, e)
    BY <1>1, <1>2
  <2>4. /\ Chain(Splice(Q, u)) /\ Len(Splice(Q, u)) >= 1 /\ Splice(Q, u)[1].seq = u.seq
        /\ \A i \in 1 .. Len(Splice(Q, u)) :
             Fits(Splice(Q, u)[i], e) /\ (i > 1 => Splice(Q, u)[i].seq > u.seq)
    BY <2>2, <2>3, SpliceFits
  <2> HIDE DEF n
  <2> QED BY <1>2, <2>1, <2>4
<1> HIDE DEF L, u
<1>4. /\ L \in Seq(Seg) /\ Len(L) \in Nat
      /\ \A i \in 1 .. Len(L) : L[i] \in Seg
  BY <1>3 DEF Chain
<1>5. /\ k \in 1 .. Len(L)
      /\ \A j \in 2 .. k : L[j].seq = L[j - 1].seq + TcpLen(L[j - 1])
      /\ k < Len(L) => L[k + 1].seq # L[k].seq + TcpLen(L[k])
  BY <1>3, <1>4, RunLength
<1> HIDE DEF k
<1>6. /\ k \in Nat /\ k >= 1
      /\ \A i \in 1 .. k : i \in 1 .. Len(L)
      /\ k < Len(L) => ~L[k].fin
      /\ \A i \in 1 .. k : i # k => ~L[i].fin
  <2>1. k \in Nat /\ k >= 1 /\ \A i \in 1 .. k : i \in 1 .. Len(L)
    BY <1>4, <1>5
  <2>2. k < Len(L) => ~L[k].fin
    <3>1. k < Len(L) => Len(L) \in 1 .. Len(L)
      BY <1>4, <1>5
    <3> QED BY <1>3, <1>5, <3>1 DEF Chain
  <2>3. \A i \in 1 .. k : i # k => ~L[i].fin
    <3>1. \A i \in 1 .. k : i # k => i < k
      BY <2>1
    <3> QED BY <1>3, <1>5, <2>1, <3>1 DEF Chain
  <2> QED BY <2>1, <2>2, <2>3
<1>7. /\ I \in Seq(Seg) /\ Len(I) = k /\ DOMAIN I = 1 .. k
      /\ \A i \in 1 .. k : I[i] = L[i]
  <2>1. I = SubSeq(L, 1, k)
    BY DEF InOrder, L, k
  <2> HIDE DEF I
  <2> QED BY <1>4, <1>5, <1>6, <2>1
<1>8. Last(I) = L[k] /\ Reached(t) = L[k].seq + TcpLen(L[k])
  BY <1>6, <1>7 DEF Reached, Last
<1>9. GotFin(I) <=> L[k].fin
  BY <1>6, <1>7 DEF GotFin
<1> HIDE DEF I
<1>10. \A i \in 1 .. k : /\ Fits(L[i], e) /\ L[i] \in Seg /\ L[i].seq \in Nat /\ L[i].len \in Nat
                         /\ End(L[i]) = L[i].seq + L[i].len
  BY <1>3, <1>4, <1>6, SegFacts
<1>11. \A i \in 2 .. k : L[i].seq = End(L[i - 1])
  <2> TAKE i \in 2 .. k
  <2>1. i \in 1 .. Len(L) /\ i - 1 \in 1 .. k /\ i - 1 # k
    BY <1>6
  <2> QED BY <1>4, <1>5, <1>6, <1>10, <2>1, SegFacts
<1>12. Bytes(Chunk(I), n) /\ n + Len(Chunk(I)) = End(L[k])
  <2> DEFINE D == [i \in DOMAIN I |-> Data(I[i])]
  <2>1. \A i \in 1 .. k : Bytes(Data(L[i]), L[i].seq) /\ Len(Data(L[i])) = L[i].len
    BY <1>1, <1>10, DataBytes
  <2>2. /\ D \in Seq(Seq(Byte)) /\ D # <<>> /\ Len(D) = k
        /\ \A i \in 1 .. k : D[i] = Data(L[i])
    <3>1. D = [i \in 1 .. k |-> Data(L[i])]
      BY <1>7
    <3>2. \A i \in 1 .. k : Data(L[i]) \in Seq(Byte)
      BY <2>1 DEF Bytes
    <3> HIDE DEF D
    <3>3. D \in [1 .. k -> Seq(Byte)]
      BY <3>1, <3>2
    <3>4. D \in Seq(Seq(Byte)) /\ Len(D) = k
      BY <1>6, <3>3
    <3>5. D # <<>>
      BY <1>6, <3>4
    <3>6. \A i \in 1 .. k : D[i] = Data(L[i])
      BY <3>1
    <3> QED BY <3>4, <3>5, <3>6
  <2>3. Chunk(I) = FlattenSeq(D)
    BY DEF Chunk
  <2> HIDE DEF D
  <2>4. PICK flat : Flattens(flat, D, Byte)
    BY <2>2, Flat
  <2>5. /\ flat[1] = D[1] /\ FlattenSeq(D) = flat[k]
        /\ \A i \in 2 .. k : flat[i] = flat[i - 1] \o D[i]
    BY <2>2, <2>4 DEF Flattens
  <2> DEFINE Good(i) == Bytes(flat[i], n) /\ n + Len(flat[i]) = End(L[i])
             Bad == {i \in 1 .. k : ~Good(i)}
  <2>6. ASSUME Bad # {} PROVE FALSE
    <3>1. PICK i \in Bad : \A j \in Bad : i <= j
      <4>1. Bad \in SUBSET Nat
        BY <1>6
      <4> HIDE DEF Bad
      <4> QED BY <2>6, <4>1, LeastIndex
    <3>2. i \in 1 .. k /\ ~Good(i)
      BY <3>1
    <3>3. i # 1
      <4>1. 1 \in 1 .. k
        BY <1>6
      <4>2. Good(1)
        <5>1. flat[1] = Data(L[1]) /\ Bytes(Data(L[1]), L[1].seq) /\ Len(Data(L[1])) = L[1].len
          BY <2>1, <2>2, <2>5, <4>1
        <5>2. L[1].seq = n /\ End(L[1]) = L[1].seq + L[1].len
          BY <1>3, <1>10, <4>1
        <5> QED BY <5>1, <5>2
      <4> HIDE DEF Good
      <4> QED BY <3>2, <4>2
    <3>4. i \in 2 .. k /\ i - 1 \in 1 .. k /\ ~(i <= i - 1)
      BY <1>6, <3>2, <3>3
    <3>5. Good(i - 1)
      BY <3>1, <3>4
    <3> DEFINE a == flat[i - 1]
               b == D[i]
    <3>6. flat[i] = a \o b
      BY <2>5, <3>4
    <3>7. Bytes(a, n) /\ n + Len(a) = L[i].seq
      BY <1>11, <3>4, <3>5
    <3>8. Bytes(b, n + Len(a)) /\ Len(b) = L[i].len
      BY <2>1, <2>2, <3>2, <3>7
    <3>9. Len(a) \in Nat /\ Len(b) \in Nat
      BY <3>7, <3>8 DEF Bytes
    <3> HIDE DEF a, b
    <3>10. Bytes(a \o b, n) /\ Len(a \o b) = Len(a) + Len(b)
      <4>1. n \in Nat /\ Bytes(a, n) /\ Bytes(b, n + Len(a))
        BY <1>1, <3>7, <3>8
      <4> HIDE DEF n
      <4> QED BY <1>0, <4>1, ZenonT(30)
    <3>11. n + Len(a \o b) = End(L[i])
      BY <1>1, <1>10, <3>2, <3>7, <3>8, <3>9, <3>10
    <3> QED BY <3>2, <3>6, <3>10, <3>11
  <2>7. Good(k)
    BY <1>6, <2>6
  <2> QED BY <2>3, <2>5, <2>7
<1>13. /\ Fits(L[k], e) /\ L[k] \in Seg
       /\ Reached(t) = End(L[k]) + (IF L[k].fin THEN 1 ELSE 0) /\ End(L[k]) \in Nat
       /\ Reached(t) \in Nat
  <2>1. Fits(L[k], e) /\ L[k] \in Seg
    BY <1>6, <1>10
  <2> QED BY <1>8, <2>1, SegFacts
<1>14. Reached(t) > n
  <2>1. L[k].seq >= n
    <3>1. k = 1 \/ k > 1
      BY <1>6
    <3>2. L[k].seq \in Nat
      BY <1>6, <1>10
    <3> QED BY <1>1, <1>3, <1>5, <3>1, <3>2
  <2>2. TcpLen(L[k]) > 0 /\ TcpLen(L[k]) \in Nat /\ L[k].seq \in Nat
    BY <1>13, SegFacts DEF Fits
  <2> QED BY <1>1, <1>8, <2>1, <2>2
<1>15. Queue(Left(pcb, t), Reached(t), e)
  <2> DEFINE R == Left(pcb, t)
             m == Len(L) - k
  <2>1. R = SubSeq(L, k + 1, Len(L))
    BY DEF Left, L, k
  <2> HIDE DEF R
  <2>2. /\ m \in Nat /\ R \in Seq(Seg) /\ Len(R) = m
        /\ \A i \in 1 .. m : k + i \in 1 .. Len(L) /\ R[i] = L[k + i]
    BY <1>4, <1>5, <1>6, <2>1
  <2> HIDE DEF m
  <2>3. Chain(R)
    <3> SUFFICES ASSUME NEW i \in 1 .. Len(R), NEW j \in 1 .. Len(R), i < j
                 PROVE End(R[i]) <= R[j].seq /\ ~R[i].fin
      BY <2>2 DEF Chain
    <3>1. k + i < k + j /\ k + i \in 1 .. Len(L) /\ k + j \in 1 .. Len(L)
          /\ R[i] = L[k + i] /\ R[j] = L[k + j]
      BY <1>6, <2>2
    <3> QED BY <1>3, <3>1 DEF Chain
  <2>4. \A i \in 1 .. m : R[i].seq > Reached(t)
    <3> TAKE i \in 1 .. m
    <3>1. k < Len(L) /\ k + 1 \in 1 .. Len(L) /\ k + i \in 1 .. Len(L) /\ R[i] = L[k + i]
          /\ (i = 1 \/ k + 1 < k + i) /\ k < k + 1
      BY <1>4, <1>6, <2>2 DEF m
    <3>2. /\ End(L[k]) <= L[k + 1].seq /\ ~L[k].fin
          /\ L[k + 1].seq # L[k].seq + TcpLen(L[k])
          /\ i # 1 => End(L[k + 1]) <= L[k + i].seq
      BY <1>3, <1>5, <3>1 DEF Chain
    <3>3. /\ L[k + 1].seq \in Nat /\ L[k + i].seq \in Nat /\ End(L[k + 1]) \in Nat
          /\ L[k + 1].seq <= End(L[k + 1])
      <4>1. \A v \in Seg : v.seq \in Nat /\ End(v) \in Nat /\ v.seq <= End(v)
        BY SegFacts
      <4> QED BY <1>4, <3>1, <4>1
    <3>4. L[k + 1].seq > Reached(t)
      BY <1>8, <1>13, <3>2, <3>3
    <3> QED BY <1>13, <3>1, <3>2, <3>3, <3>4
  <2>5. \A i \in 1 .. m : Fits(R[i], e)
    BY <1>3, <2>2
  <2> QED BY <2>2, <2>3, <2>4, <2>5 DEF Queue, R
<1>16. Len(Chunk(I)) \in Nat
  BY <1>12 DEF Bytes
<1> DEFINE c == Len(Chunk(I))
<1> HIDE DEF c
<1>17. /\ n + c = End(L[k]) /\ c \in Nat /\ n + c <= env.total
       /\ L[k].fin => n + c = env.total
       /\ env.careful => Reached(t) <= e
  <2>1. /\ End(L[k]) <= env.total /\ (L[k].fin => End(L[k]) = env.total)
        /\ env.careful => L[k].seq + TcpLen(L[k]) <= e
    BY <1>13 DEF Fits
  <2> QED BY <1>8, <1>12, <1>16, <2>1 DEF c
<1>18. Reached(t) = n + c + IF GotFin(I) THEN 1 ELSE 0
  BY <1>9, <1>13, <1>17
<1> HIDE DEF n, e
<1> QED BY <1>9, <1>12, <1>13, <1>14, <1>15, <1>17, <1>18 DEF I, c, n, e

-------------------------------------------------------------------------------
(* The inductive invariant. *)

PcbType ==
  [state : {"ESTABLISHED", "CLOSE_WAIT"}, rcv_nxt : 0 .. (MaxBytes + 1), rcv_wnd : 0 .. WND,
   rcv_ann_wnd : 0 .. WND, ann_right_edge : 0 .. (MaxBytes + 1 + WND),
   delay : BOOLEAN, now : BOOLEAN, ooseq : Seq(Seg)]
WireType == [ack : 0 .. (MaxBytes + 1), edge : 0 .. (MaxBytes + 1 + WND)]
AppType ==
  [pc : {"idle", "reading"}, room : 0 .. MaxRead, has_read : BOOLEAN, write_buf : Seq(Byte),
   is_eof : BOOLEAN, read : Byte, ended : BOOLEAN]

\* The connection: the queue, and the edges that it has announced, that it
\* would announce next and that it keeps to.  Where all output succeeds the
\* peer knows the announced edge, and no ACK that is owed is forgotten.
PcbInv(P, w) ==
  /\ P \in PcbType /\ w \in WireType
  /\ Queue(P.ooseq, P.rcv_nxt, RightEdge(P))
  /\ w.edge <= P.ann_right_edge
  /\ P.ann_right_edge <= P.rcv_nxt + P.rcv_ann_wnd
  /\ P.rcv_nxt + P.rcv_ann_wnd <= RightEdge(P)
  /\ env.plenty => w.edge = P.ann_right_edge /\ (w.ack = P.rcv_nxt \/ P.delay \/ P.now)

\* What is not announced yet is too little to be announced at once.
Near(P) ==
  env.plenty /\ P.state = "ESTABLISHED" => RightEdge(P) - P.ann_right_edge < Threshold

\* What was received: read, left over in write_buf, or in the channel.
StreamInv ==
  /\ Bytes(app.write_buf, app.read)
  /\ Bytes(FlattenSeq(read_rx), app.read + Len(app.write_buf))
  /\ Received = app.read + Len(app.write_buf) + Len(FlattenSeq(read_rx))
  /\ Received <= env.total /\ (Finned => Received = env.total)
  /\ pcb.rcv_wnd = WND - Len(FlattenSeq(read_rx))

\* The empty Vec comes last, and once.
ReaderInv ==
  /\ app.pc = "reading" => app.write_buf = <<>> /\ ~app.ended
  /\ \A i \in 1 .. Len(read_rx) : read_rx[i] = <<>> => i = Len(read_rx) /\ Finned
  /\ app.is_eof => Finned /\ read_rx = <<>>
  /\ app.ended => Finned /\ app.read = env.total

RecvInv ==
  /\ read_rx \in Seq(Seq(Byte)) /\ app \in AppType /\ failed \in BOOLEAN /\ env \in Env
  /\ PcbInv(pcb, wire) /\ Near(pcb) /\ StreamInv /\ ReaderInv
  /\ env.careful => ~failed

-------------------------------------------------------------------------------
(* The window announced, and the ACKs. *)

\* The numbers of a pcb.
LEMMA PcbFacts ==
  ASSUME NEW P \in PcbType
  PROVE  /\ P.rcv_nxt \in Nat /\ P.rcv_wnd \in Nat /\ P.rcv_ann_wnd \in Nat
         /\ P.ann_right_edge \in Nat /\ RightEdge(P) = P.rcv_nxt + P.rcv_wnd /\ RightEdge(P) \in Nat
         /\ P.rcv_nxt <= MaxBytes + 1 /\ P.rcv_wnd <= WND /\ P.rcv_ann_wnd <= WND
         /\ P.ann_right_edge <= MaxBytes + 1 + WND /\ RightEdge(P) <= MaxBytes + 1 + WND
         /\ P.delay \in BOOLEAN /\ P.now \in BOOLEAN /\ P.ooseq \in Seq(Seg)
         /\ P.state \in {"ESTABLISHED", "CLOSE_WAIT"}
<1>1. /\ MaxBytes \in Nat /\ WND \in Nat
  BY ReceiveAssumption
<1>2. P.rcv_nxt \in 0 .. (MaxBytes + 1) /\ P.rcv_wnd \in 0 .. WND /\ P.rcv_ann_wnd \in 0 .. WND
      /\ P.ann_right_edge \in 0 .. (MaxBytes + 1 + WND)
      /\ P.delay \in BOOLEAN /\ P.now \in BOOLEAN /\ P.ooseq \in Seq(Seg)
      /\ P.state \in {"ESTABLISHED", "CLOSE_WAIT"}
  BY DEF PcbType
<1> QED BY <1>1, <1>2 DEF RightEdge

\* tcp_update_rcv_ann_wnd: the edge it makes ready is not behind the announced
\* one, and is the right edge itself if that has moved far enough.
LEMMA Updated ==
  ASSUME NEW P \in PcbType, P.ann_right_edge <= RightEdge(P)
  PROVE  /\ UpdateAnnWnd(P) \in PcbType
         /\ P.ann_right_edge <= P.rcv_nxt + UpdateAnnWnd(P).rcv_ann_wnd
         /\ P.rcv_nxt + UpdateAnnWnd(P).rcv_ann_wnd <= RightEdge(P)
         /\ Inflation(P) > 0 => P.rcv_nxt + UpdateAnnWnd(P).rcv_ann_wnd = RightEdge(P)
<1> DEFINE a == IF Inflation(P) > 0 THEN P.rcv_wnd
                ELSE IF P.rcv_nxt > P.ann_right_edge THEN 0
                ELSE P.ann_right_edge - P.rcv_nxt
<1>1. UpdateAnnWnd(P) = [P EXCEPT !.rcv_ann_wnd = a]
  BY DEF UpdateAnnWnd
<1>2. /\ a \in 0 .. WND /\ P.ann_right_edge <= P.rcv_nxt + a /\ P.rcv_nxt + a <= RightEdge(P)
      /\ Inflation(P) > 0 => P.rcv_nxt + a = RightEdge(P)
  <2>1. WND \in Nat
    BY ReceiveAssumption
  <2>2. CASE Inflation(P) > 0
    BY <2>1, <2>2, PcbFacts
  <2>3. CASE ~(Inflation(P) > 0)
    BY <2>1, <2>3, PcbFacts
  <2> QED BY <2>2, <2>3
<1> HIDE DEF a
<1>3. UpdateAnnWnd(P) \in PcbType
  BY <1>1, <1>2 DEF PcbType
<1>4. UpdateAnnWnd(P).rcv_ann_wnd = a
  BY <1>1 DEF PcbType
<1> QED BY <1>2, <1>3, <1>4

\* What sending may do to a pcb and to what the peer knows.
Told(P, w, R, v) ==
  /\ R \in PcbType /\ v \in WireType
  /\ R.state = P.state /\ R.rcv_nxt = P.rcv_nxt /\ R.rcv_wnd = P.rcv_wnd
  /\ R.rcv_ann_wnd = P.rcv_ann_wnd /\ R.ooseq = P.ooseq
  /\ \/ R.ann_right_edge = P.ann_right_edge /\ v = w
        /\ (env.plenty => (P.delay \/ P.now => R.delay \/ R.now))
     \/ R.ann_right_edge = P.rcv_nxt + P.rcv_ann_wnd /\ v = w /\ ~env.plenty
     \/ R.ann_right_edge = P.rcv_nxt + P.rcv_ann_wnd
        /\ v.ack = P.rcv_nxt /\ v.edge = P.rcv_nxt + P.rcv_ann_wnd

\* A segment that went out.
LEMMA SentTold ==
  ASSUME NEW P \in PcbType, P.rcv_nxt + P.rcv_ann_wnd <= RightEdge(P), NEW w \in WireType,
         NEW d \in BOOLEAN
  PROVE  /\ Told(P, w, Sent(P).pcb, Sent(P).wire)
         /\ Announced(P) \in PcbType
         /\ ~env.plenty => Told(P, w, AckFlags(Announced(P), d), w) /\ Told(P, w, Announced(P), w)
         /\ Sent(P).pcb.ann_right_edge = P.rcv_nxt + P.rcv_ann_wnd
         /\ Sent(P).wire.ack = P.rcv_nxt /\ Sent(P).wire.edge = P.rcv_nxt + P.rcv_ann_wnd
<1> DEFINE r == P.rcv_nxt + P.rcv_ann_wnd
<1>1. r \in 0 .. (MaxBytes + 1 + WND) /\ P.rcv_nxt \in 0 .. (MaxBytes + 1)
  BY PcbFacts, ReceiveAssumption, SMTT(30)
<1>2. Announced(P) = [P EXCEPT !.ann_right_edge = r]
  BY DEF Announced
<1> HIDE DEF r
<1>3. /\ Announced(P) \in PcbType /\ Announced(P).ann_right_edge = r
      /\ Announced(P).state = P.state /\ Announced(P).rcv_nxt = P.rcv_nxt
      /\ Announced(P).rcv_wnd = P.rcv_wnd /\ Announced(P).rcv_ann_wnd = P.rcv_ann_wnd
      /\ Announced(P).ooseq = P.ooseq
  BY <1>1, <1>2 DEF PcbType
<1>4. ASSUME NEW b \in BOOLEAN
      PROVE /\ AckFlags(Announced(P), b) \in PcbType
            /\ AckFlags(Announced(P), b).ann_right_edge = r
            /\ AckFlags(Announced(P), b).state = P.state
            /\ AckFlags(Announced(P), b).rcv_nxt = P.rcv_nxt
            /\ AckFlags(Announced(P), b).rcv_wnd = P.rcv_wnd
            /\ AckFlags(Announced(P), b).rcv_ann_wnd = P.rcv_ann_wnd
            /\ AckFlags(Announced(P), b).ooseq = P.ooseq
  BY <1>3 DEF AckFlags, PcbType
<1>5. Sent(P).pcb = AckFlags(Announced(P), FALSE) /\ Sent(P).wire = [ack |-> P.rcv_nxt, edge |-> r]
  BY DEF Sent, r
<1>6. Sent(P).wire \in WireType /\ Sent(P).wire.ack = P.rcv_nxt /\ Sent(P).wire.edge = r
  BY <1>1, <1>5 DEF WireType
<1>7. Told(P, w, Sent(P).pcb, Sent(P).wire)
  BY <1>4, <1>5, <1>6 DEF Told, r
<1>8. ~env.plenty => Told(P, w, AckFlags(Announced(P), d), w) /\ Told(P, w, Announced(P), w)
  BY <1>3, <1>4 DEF Told, r
<1> QED BY <1>3, <1>4, <1>5, <1>6, <1>7, <1>8 DEF r

\* tcp_send_empty_ack, whatever fails in it.
LEMMA AckTold ==
  ASSUME NEW P \in PcbType, P.rcv_nxt + P.rcv_ann_wnd <= RightEdge(P), NEW w \in WireType,
         NEW c \in SendEmptyAck([pcb |-> P, wire |-> w])
  PROVE  /\ Told(P, w, c.pcb, c.wire) /\ c = [pcb |-> c.pcb, wire |-> c.wire]
         /\ env.plenty => /\ c.pcb.ann_right_edge = P.rcv_nxt + P.rcv_ann_wnd
                          /\ c.wire.ack = P.rcv_nxt
                          /\ c.wire.edge = P.rcv_nxt + P.rcv_ann_wnd
<1> DEFINE x == [pcb |-> P, wire |-> w]
<1>1. CASE c = Sent(P)
  <2>1. c = [pcb |-> c.pcb, wire |-> c.wire]
    BY <1>1 DEF Sent
  <2> QED BY <1>1, <2>1, SentTold
<1>2. CASE ~env.plenty /\ c = [x EXCEPT !.pcb = AckFlags(@, TRUE)]
  <2>1. c.pcb = AckFlags(P, TRUE) /\ c.wire = w /\ c = [pcb |-> c.pcb, wire |-> c.wire]
    BY <1>2
  <2>2. /\ c.pcb \in PcbType /\ c.pcb.ann_right_edge = P.ann_right_edge
        /\ c.pcb.state = P.state /\ c.pcb.rcv_nxt = P.rcv_nxt /\ c.pcb.rcv_wnd = P.rcv_wnd
        /\ c.pcb.rcv_ann_wnd = P.rcv_ann_wnd /\ c.pcb.ooseq = P.ooseq
    BY <2>1 DEF AckFlags, PcbType
  <2> QED BY <1>2, <2>1, <2>2 DEF Told
<1>3. CASE ~env.plenty /\ c = [x EXCEPT !.pcb = AckFlags(Announced(@), TRUE)]
  <2>1. c.pcb = AckFlags(Announced(P), TRUE) /\ c.wire = w /\ c = [pcb |-> c.pcb, wire |-> c.wire]
    BY <1>3
  <2> QED BY <1>3, <2>1, SentTold
<1>4. x.pcb = P
  OBVIOUS
<1> QED BY <1>1, <1>2, <1>3, <1>4 DEF SendEmptyAck

\* tcp_output, as far as it sends an ACK.
LEMMA OutputTold ==
  ASSUME NEW P \in PcbType, P.rcv_nxt + P.rcv_ann_wnd <= RightEdge(P), NEW w \in WireType,
         NEW c \in Output([pcb |-> P, wire |-> w])
  PROVE  Told(P, w, c.pcb, c.wire) /\ c = [pcb |-> c.pcb, wire |-> c.wire]
<1>1. CASE P.now
  <2>1. c \in SendEmptyAck([pcb |-> P, wire |-> w])
    BY <1>1 DEF Output
  <2> QED BY <2>1, AckTold
<1>2. CASE ~P.now
  <2>1. c = [pcb |-> P, wire |-> w]
    BY <1>2 DEF Output
  <2>2. c.pcb = P /\ c.wire = w
    BY <2>1
  <2> QED BY <2>1, <2>2 DEF Told
<1> QED BY <1>1, <1>2

\* Sending keeps the edges in order, and moves none of them back.
LEMMA ToldInv ==
  ASSUME NEW P, NEW w, NEW R, NEW v, PcbInv(P, w), Told(P, w, R, v)
  PROVE  /\ PcbInv(R, v) /\ (Near(P) => Near(R))
         /\ v.edge >= w.edge /\ R.ann_right_edge >= P.ann_right_edge
<1>1. /\ P \in PcbType /\ R \in PcbType /\ w \in WireType /\ v \in WireType
      /\ w.edge \in Nat /\ v.edge \in Nat
  <2>1. \A u \in WireType : u.edge \in Nat
    BY ReceiveAssumption DEF WireType
  <2> QED BY <2>1 DEF PcbInv, Told
<1>2. RightEdge(R) = RightEdge(P)
  BY DEF Told, RightEdge
<1>3. /\ w.edge <= P.ann_right_edge
      /\ P.ann_right_edge <= P.rcv_nxt + P.rcv_ann_wnd
      /\ P.rcv_nxt + P.rcv_ann_wnd <= RightEdge(P)
  BY DEF PcbInv
<1>4. /\ v.edge <= R.ann_right_edge /\ R.ann_right_edge <= R.rcv_nxt + R.rcv_ann_wnd
      /\ R.rcv_nxt + R.rcv_ann_wnd <= RightEdge(R)
      /\ v.edge >= w.edge /\ R.ann_right_edge >= P.ann_right_edge
  BY <1>1, <1>2, <1>3, PcbFacts DEF Told
<1>5. Queue(R.ooseq, R.rcv_nxt, RightEdge(R))
  BY <1>2 DEF PcbInv, Told
<1>6. env.plenty => v.edge = R.ann_right_edge /\ (v.ack = R.rcv_nxt \/ R.delay \/ R.now)
  BY DEF PcbInv, Told
<1>7. Near(P) => Near(R)
  <2>1. env.plenty /\ R.state = "ESTABLISHED" /\ Near(P) => RightEdge(P) - P.ann_right_edge < Threshold
    BY DEF Near, Told
  <2>2. RightEdge(R) - R.ann_right_edge <= RightEdge(P) - P.ann_right_edge
        /\ RightEdge(R) - R.ann_right_edge \in Int /\ RightEdge(P) - P.ann_right_edge \in Int
        /\ Threshold \in Nat
    <3>1. /\ Threshold \in Nat /\ RightEdge(P) \in Nat
          /\ R.ann_right_edge \in Nat /\ P.ann_right_edge \in Nat
      BY <1>1, PcbFacts, ReceiveAssumption
    <3> QED BY <1>2, <1>4, <3>1
  <2> QED BY <2>1, <2>2 DEF Near
<1> QED BY <1>1, <1>4, <1>5, <1>6, <1>7 DEF PcbInv

\* The flags only add an ACK.
LEMMA AckNowInv ==
  ASSUME NEW P, NEW w, PcbInv(P, w)
  PROVE  /\ PcbInv(AckNow(P), w) /\ (Near(P) => Near(AckNow(P))) /\ AckNow(P).now
         /\ AckNow(P).state = P.state /\ AckNow(P).rcv_nxt = P.rcv_nxt
         /\ AckNow(P).rcv_wnd = P.rcv_wnd /\ AckNow(P).ann_right_edge = P.ann_right_edge
<1>1. P \in PcbType
  BY DEF PcbInv
<1>2. /\ AckNow(P) \in PcbType /\ AckNow(P).now
      /\ AckNow(P).state = P.state /\ AckNow(P).rcv_nxt = P.rcv_nxt
      /\ AckNow(P).rcv_wnd = P.rcv_wnd /\ AckNow(P).ann_right_edge = P.ann_right_edge
      /\ AckNow(P).rcv_ann_wnd = P.rcv_ann_wnd /\ AckNow(P).ooseq = P.ooseq
  BY <1>1 DEF AckNow, PcbType
<1>3. RightEdge(AckNow(P)) = RightEdge(P)
  BY <1>2 DEF RightEdge
<1>4. PcbInv(AckNow(P), w)
  BY <1>2, <1>3 DEF PcbInv
<1>5. Near(P) => Near(AckNow(P))
  BY <1>2, <1>3 DEF Near
<1> QED BY <1>2, <1>4, <1>5

-------------------------------------------------------------------------------
(* The steps that receive nothing and read nothing. *)

\* The length of the stream and the peer's habits are fixed.
LEMMA EnvSame ==
  ASSUME env' = env, PcbInv(pcb', wire'), Near(pcb')
  PROVE  PcbInv(pcb, wire)' /\ Near(pcb)'
BY DEF PcbInv, Near, Queue, Chain, Fits

\* What was received stays where it was.
LEMMA QuietStep ==
  ASSUME RecvInv, UNCHANGED <<read_rx, app, failed, env>>,
         PcbInv(pcb', wire'), Near(pcb'),
         pcb'.state = pcb.state, pcb'.rcv_nxt = pcb.rcv_nxt, pcb'.rcv_wnd = pcb.rcv_wnd
  PROVE  RecvInv'
<1>1. PcbInv(pcb, wire)' /\ Near(pcb)'
  BY EnvSame
<1>2. StreamInv'
  BY DEF RecvInv, StreamInv, Received, Finned
<1>3. ReaderInv'
  BY DEF RecvInv, ReaderInv, Finned
<1> QED BY <1>1, <1>2, <1>3 DEF RecvInv

\* The right edges, announced and known to the peer, do not move back.
Forward == wire'.edge >= wire.edge /\ pcb'.ann_right_edge >= pcb.ann_right_edge

\* Sending from a pcb P, which differs from pcb at most in flags and queue.
LEMMA ToldStep ==
  ASSUME RecvInv, UNCHANGED <<read_rx, app, failed, env>>, NEW P, NEW w,
         PcbInv(P, w), Near(P), Told(P, w, pcb', wire'),
         P.state = pcb.state, P.rcv_nxt = pcb.rcv_nxt, P.rcv_wnd = pcb.rcv_wnd,
         P.ann_right_edge >= pcb.ann_right_edge, w.edge >= wire.edge
  PROVE  RecvInv' /\ Forward
<1>1. /\ PcbInv(pcb', wire') /\ Near(pcb')
      /\ wire'.edge >= w.edge /\ pcb'.ann_right_edge >= P.ann_right_edge
  BY ToldInv
<1>2. pcb'.state = pcb.state /\ pcb'.rcv_nxt = pcb.rcv_nxt /\ pcb'.rcv_wnd = pcb.rcv_wnd
  BY DEF Told
<1>3. RecvInv'
  BY <1>1, <1>2, QuietStep
<1>4. {pcb.ann_right_edge, P.ann_right_edge, pcb'.ann_right_edge} \subseteq Nat
  <2>1. pcb \in PcbType /\ P \in PcbType /\ pcb' \in PcbType
    BY <1>1 DEF RecvInv, PcbInv
  <2> QED BY <2>1, PcbFacts
<1>5. {wire.edge, w.edge, wire'.edge} \subseteq Nat
  <2>1. wire \in WireType /\ w \in WireType /\ wire' \in WireType
    BY <1>1 DEF RecvInv, PcbInv
  <2> QED BY <2>1, ReceiveAssumption DEF WireType
<1> QED BY <1>1, <1>3, <1>4, <1>5 DEF Forward

LEMMA InvFacts ==
  ASSUME RecvInv
  PROVE  /\ PcbInv(pcb, wire) /\ Near(pcb) /\ pcb \in PcbType /\ wire \in WireType /\ env \in Env
         /\ pcb.rcv_nxt + pcb.rcv_ann_wnd <= RightEdge(pcb)
         /\ Numbers
<1>1. PcbInv(pcb, wire) /\ Near(pcb) /\ env \in Env
  BY DEF RecvInv
<1>2. pcb \in PcbType /\ wire \in WireType /\ pcb.rcv_nxt + pcb.rcv_ann_wnd <= RightEdge(pcb)
  BY <1>1 DEF PcbInv
<1>3. wire.ack \in Nat /\ wire.edge \in Nat
  BY <1>2, ReceiveAssumption DEF WireType
<1>4. pcb.ann_right_edge <= RightEdge(pcb)
  BY <1>1, <1>2, PcbFacts DEF PcbInv
<1>5. Numbers
  BY <1>1, <1>2, <1>3, <1>4, PcbFacts DEF Numbers, PcbInv
<1> QED BY <1>1, <1>2, <1>5

\* A segment that brings nothing.
LEMMA NoTextInv == ASSUME RecvInv, NEW s \in Segments, InputNoText(s) PROVE RecvInv' /\ Forward
<1> DEFINE P == IF InWindow(pcb, s.seq) THEN pcb ELSE AckNow(pcb)
<1>1. PcbInv(P, wire) /\ Near(P) /\ P.state = pcb.state /\ P.rcv_nxt = pcb.rcv_nxt
      /\ P.rcv_wnd = pcb.rcv_wnd /\ P.ann_right_edge = pcb.ann_right_edge
  BY InvFacts, AckNowInv
<1>2. PICK c \in Output([pcb |-> P, wire |-> wire]) : pcb' = c.pcb /\ wire' = c.wire
  BY DEF InputNoText, Becomes, Context
<1>3. UNCHANGED <<read_rx, app, failed, env>>
  BY DEF InputNoText
<1> HIDE DEF P
<1>4. P \in PcbType /\ wire \in WireType /\ P.rcv_nxt + P.rcv_ann_wnd <= RightEdge(P)
  BY <1>1 DEF PcbInv
<1>5. Told(P, wire, pcb', wire')
  BY <1>2, <1>4, OutputTold
<1>9. pcb.ann_right_edge >= pcb.ann_right_edge /\ wire.edge >= wire.edge
  BY InvFacts DEF Numbers
<1> QED BY <1>1, <1>3, <1>5, <1>9, ToldStep

\* tcp_send_empty_ack and then tcp_output.
LEMMA AckOutputInv ==
  ASSUME RecvInv, UNCHANGED <<read_rx, app, failed, env>>, NEW P, PcbInv(P, wire), Near(P),
         P.state = pcb.state, P.rcv_nxt = pcb.rcv_nxt, P.rcv_wnd = pcb.rcv_wnd,
         P.ann_right_edge = pcb.ann_right_edge,
         Becomes(UNION {Output(c) : c \in SendEmptyAck(Context(P))})
  PROVE  RecvInv' /\ Forward
<1>1. PICK c \in SendEmptyAck([pcb |-> P, wire |-> wire]) :
        \E d \in Output(c) : pcb' = d.pcb /\ wire' = d.wire
  BY DEF Becomes, Context
<1>2. P \in PcbType /\ wire \in WireType /\ P.rcv_nxt + P.rcv_ann_wnd <= RightEdge(P)
  BY DEF PcbInv
<1>3. Told(P, wire, c.pcb, c.wire) /\ c = [pcb |-> c.pcb, wire |-> c.wire]
  BY <1>1, <1>2, AckTold
<1> DEFINE R == c.pcb
           v == c.wire
<1>4. PICK d \in Output([pcb |-> R, wire |-> v]) : pcb' = d.pcb /\ wire' = d.wire
  BY <1>1, <1>3
<1>5. Told(P, wire, R, v)
  BY <1>3
<1> HIDE DEF R, v
<1>6. PcbInv(R, v) /\ Near(R) /\ R.ann_right_edge >= pcb.ann_right_edge /\ v.edge >= wire.edge
  BY <1>5, ToldInv
<1>7. R.state = pcb.state /\ R.rcv_nxt = pcb.rcv_nxt /\ R.rcv_wnd = pcb.rcv_wnd
  BY <1>5 DEF Told
<1>8. R \in PcbType /\ v \in WireType /\ R.rcv_nxt + R.rcv_ann_wnd <= RightEdge(R)
  BY <1>6 DEF PcbInv
<1>9. Told(R, v, pcb', wire')
  BY <1>4, <1>8, OutputTold
<1> QED BY <1>6, <1>7, <1>9, ToldStep

\* A segment outside the window.
LEMMA OutsideInv == ASSUME RecvInv, NEW s \in Segments, InputOutside(s) PROVE RecvInv' /\ Forward
<1> DEFINE t == TrimFront(pcb, s)
           P == IF t.seq < pcb.rcv_nxt THEN AckNow(pcb) ELSE pcb
<1>1. PcbInv(P, wire) /\ Near(P) /\ P.state = pcb.state /\ P.rcv_nxt = pcb.rcv_nxt
      /\ P.rcv_wnd = pcb.rcv_wnd /\ P.ann_right_edge = pcb.ann_right_edge
  BY InvFacts, AckNowInv
<1>2. /\ UNCHANGED <<read_rx, app, failed, env>>
      /\ Becomes(UNION {Output(c) : c \in SendEmptyAck(Context(P))})
  BY DEF InputOutside
<1> HIDE DEF P
<1> QED BY <1>1, <1>2, AckOutputInv

\* A segment that is kept for later.
LEMMA OutOfOrderInv == ASSUME RecvInv, NEW s \in Segments, InputOutOfOrder(s) PROVE RecvInv' /\ Forward
<1>1. PICK Q \in {Insert(pcb, s)} \cup (IF env.plenty THEN {} ELSE {pcb.ooseq}) :
        Becomes(UNION {Output(c) : c \in SendEmptyAck(Context([pcb EXCEPT !.ooseq = Q]))})
  BY DEF InputOutOfOrder
<1>2. /\ UNCHANGED <<read_rx, app, failed, env>> /\ HasText(s) /\ InWindow(pcb, s.seq)
      /\ s.seq > pcb.rcv_nxt
  BY DEF InputOutOfOrder
<1>3. pcb \in PcbType /\ Queue(pcb.ooseq, pcb.rcv_nxt, RightEdge(pcb)) /\ PcbInv(pcb, wire)
      /\ Near(pcb) /\ Numbers
  BY InvFacts DEF PcbInv
<1>4. Fits(s, RightEdge(pcb)) /\ s.seq < RightEdge(pcb)
  <2>1. TrimFront(pcb, s) = s
    <3>1. s \in Seg
      BY DEF Segments, Seg
    <3>2. ~(s.seq < pcb.rcv_nxt)
      BY <1>2, <1>3, <3>1, SegFacts, PcbFacts
    <3> QED BY <3>2 DEF TrimFront
  <2> QED BY <1>2, <1>3, <2>1, FrontFits DEF InWindow
<1>5. Queue(Q, pcb.rcv_nxt, RightEdge(pcb))
  <2>1. Queue(Insert(pcb, s), pcb.rcv_nxt, RightEdge(pcb))
    <3>1. pcb.rcv_nxt < s.seq
      BY <1>2
    <3> QED BY <1>3, <1>4, <3>1, InsertQueue
  <2>2. Q = Insert(pcb, s) \/ Q = pcb.ooseq
    BY <1>1
  <2> QED BY <1>3, <2>1, <2>2
<1> DEFINE P == [pcb EXCEPT !.ooseq = Q]
<1>6. /\ P \in PcbType /\ P.state = pcb.state /\ P.rcv_nxt = pcb.rcv_nxt /\ P.rcv_wnd = pcb.rcv_wnd
      /\ P.rcv_ann_wnd = pcb.rcv_ann_wnd /\ P.ann_right_edge = pcb.ann_right_edge
      /\ P.ooseq = Q /\ P.delay = pcb.delay /\ P.now = pcb.now
  <2>1. Q \in Seq(Seg)
    BY <1>5 DEF Queue, Chain
  <2> QED BY <1>3, <2>1 DEF PcbType
<1>7. Becomes(UNION {Output(c) : c \in SendEmptyAck(Context(P))})
  BY <1>1
<1> HIDE DEF P
<1>8. RightEdge(P) = RightEdge(pcb)
  BY <1>6 DEF RightEdge
<1>9. PcbInv(P, wire) /\ Near(P)
  BY <1>3, <1>5, <1>6, <1>8 DEF PcbInv, Near
<1> QED BY <1>2, <1>6, <1>7, <1>9, AckOutputInv

\* The timer's ACK: its flags are cleared also when nothing went out.
LEMMA FastTmrInv == ASSUME RecvInv, FastTmr PROVE RecvInv' /\ Forward
<1> DEFINE P == AckNow(pcb)
<1>1. PcbInv(P, wire) /\ Near(P) /\ P.state = pcb.state /\ P.rcv_nxt = pcb.rcv_nxt
      /\ P.rcv_wnd = pcb.rcv_wnd /\ P.ann_right_edge = pcb.ann_right_edge /\ P.now
  BY InvFacts, AckNowInv
<1>2. UNCHANGED <<read_rx, app, failed, env>>
  BY DEF FastTmr
<1>3. PICK c \in Output(Context(P)) : pcb' = AckFlags(c.pcb, FALSE) /\ wire' = c.wire
  BY DEF FastTmr
<1> HIDE DEF P
<1>4. P \in PcbType /\ wire \in WireType /\ P.rcv_nxt + P.rcv_ann_wnd <= RightEdge(P)
  BY <1>1 DEF PcbInv
<1>5. c \in SendEmptyAck([pcb |-> P, wire |-> wire])
  BY <1>1, <1>3 DEF Output, Context
<1>6. /\ Told(P, wire, c.pcb, c.wire)
      /\ env.plenty => /\ c.pcb.ann_right_edge = P.rcv_nxt + P.rcv_ann_wnd
                       /\ c.wire.ack = P.rcv_nxt
                       /\ c.wire.edge = P.rcv_nxt + P.rcv_ann_wnd
  BY <1>4, <1>5, AckTold
<1>7. /\ pcb' \in PcbType /\ pcb'.state = c.pcb.state /\ pcb'.rcv_nxt = c.pcb.rcv_nxt
      /\ pcb'.rcv_wnd = c.pcb.rcv_wnd /\ pcb'.rcv_ann_wnd = c.pcb.rcv_ann_wnd
      /\ pcb'.ooseq = c.pcb.ooseq /\ pcb'.ann_right_edge = c.pcb.ann_right_edge
  <2>1. c.pcb \in PcbType
    BY <1>6 DEF Told
  <2> QED BY <1>3, <2>1 DEF AckFlags, PcbType
<1>8. Told(P, wire, pcb', wire')
  <2>1. CASE env.plenty
    BY <1>3, <1>6, <1>7, <2>1 DEF Told
  <2>2. CASE ~env.plenty
    BY <1>3, <1>6, <1>7, <2>2 DEF Told
  <2> QED BY <2>1, <2>2
<1>9. pcb.ann_right_edge >= pcb.ann_right_edge /\ wire.edge >= wire.edge
  BY InvFacts DEF Numbers
<1> QED BY <1>1, <1>2, <1>8, <1>9, ToldStep

\* A segment of this side's data carries the ACK.
LEMMA SendDataInv == ASSUME RecvInv, SendData PROVE RecvInv' /\ Forward
<1>1. PICK c \in {Sent(pcb)} \cup (IF env.plenty THEN {} ELSE {Context(Announced(pcb))}) :
        pcb' = c.pcb /\ wire' = c.wire
  BY DEF SendData, Becomes
<1>2. UNCHANGED <<read_rx, app, failed, env>>
  BY DEF SendData
<1>3. pcb \in PcbType /\ wire \in WireType /\ pcb.rcv_nxt + pcb.rcv_ann_wnd <= RightEdge(pcb)
      /\ PcbInv(pcb, wire) /\ Near(pcb)
  BY InvFacts
<1>4. Told(pcb, wire, pcb', wire')
  <2>1. CASE c = Sent(pcb)
    BY <1>1, <1>3, <2>1, SentTold
  <2>2. CASE ~env.plenty /\ c = [pcb |-> Announced(pcb), wire |-> wire]
    <3>1. pcb' = Announced(pcb) /\ wire' = wire
      BY <1>1, <2>2
    <3> QED BY <1>3, <2>2, <3>1, SentTold
  <2> QED BY <1>1, <2>1, <2>2 DEF Context
<1>9. pcb.ann_right_edge >= pcb.ann_right_edge /\ wire.edge >= wire.edge
  BY InvFacts DEF Numbers
<1> QED BY <1>2, <1>3, <1>4, <1>9, ToldStep

-------------------------------------------------------------------------------
(* A segment that brings the byte rcv_nxt. *)

\* A queue in a window is one in a larger window.
LEMMA QueueGrows ==
  ASSUME NEW Q, NEW n, NEW e \in Nat, NEW f \in Nat, e <= f, Queue(Q, n, e)
  PROVE  Queue(Q, n, f)
<1>1. \A i \in 1 .. Len(Q) : Fits(Q[i], e) /\ Q[i].seq > n
  BY DEF Queue
<1>2. ASSUME NEW s, Fits(s, e) PROVE Fits(s, f)
  <2>1. s \in Seg /\ s.seq + TcpLen(s) \in Nat
    BY <1>2, SegFacts DEF Fits
  <2>2. env.careful => s.seq + TcpLen(s) <= f
    BY <1>2, <2>1 DEF Fits
  <2> QED BY <1>2, <2>2 DEF Fits
<1> QED BY <1>1, <1>2 DEF Queue

\* tcp_recv_cb appends the bytes to what waits in the channel.
LEMMA RecvCbFlat ==
  ASSUME read_rx \in Seq(Seq(Byte)), NEW c \in Seq(Byte), NEW fin \in BOOLEAN, RecvCb(c, fin)
  PROVE  /\ read_rx' \in Seq(Seq(Byte))
         /\ FlattenSeq(read_rx') = FlattenSeq(read_rx) \o c
         /\ \A i \in 1 .. Len(read_rx') :
              \/ i \in 1 .. Len(read_rx) /\ read_rx'[i] = read_rx[i]
              \/ read_rx'[i] # <<>>
              \/ fin /\ i = Len(read_rx')
<1> DEFINE a == read_rx \o (IF c = <<>> THEN <<>> ELSE <<c>>)
<1>0. <<>> \in Seq(Byte) /\ FlattenSeq(read_rx) \in Seq(Byte)
  <2>1. <<>> \in Seq(Byte)
    OBVIOUS
  <2> QED BY <2>1, FlatCons
<1>1. /\ a \in Seq(Seq(Byte)) /\ FlattenSeq(a) = FlattenSeq(read_rx) \o c
      /\ \A i \in 1 .. Len(a) : (i \in 1 .. Len(read_rx) /\ a[i] = read_rx[i]) \/ a[i] # <<>>
  <2>1. CASE c = <<>>
    <3>1. a = read_rx
      BY <2>1
    <3>2. FlattenSeq(read_rx) \o c = FlattenSeq(read_rx)
      BY <1>0, <2>1
    <3> QED BY <3>1, <3>2
  <2>2. CASE c # <<>>
    <3>1. a = read_rx \o <<c>>
      BY <2>2
    <3>2. FlattenSeq(read_rx \o <<c>>) = FlattenSeq(read_rx) \o c
      BY FlatSnoc
    <3>3. \A i \in 1 .. Len(read_rx \o <<c>>) :
            \/ i \in 1 .. Len(read_rx) /\ (read_rx \o <<c>>)[i] = read_rx[i]
            \/ (read_rx \o <<c>>)[i] = c
      OBVIOUS
    <3>4. read_rx \o <<c>> \in Seq(Seq(Byte))
      OBVIOUS
    <3> HIDE DEF a
    <3> QED BY <2>2, <3>1, <3>2, <3>3, <3>4
  <2> QED BY <2>1, <2>2
<1>2. read_rx' = a \o (IF fin THEN << <<>> >> ELSE <<>>)
  BY DEF RecvCb
<1> HIDE DEF a
<1>3. CASE fin
  <2>1. read_rx' = a \o << <<>> >>
    BY <1>2, <1>3
  <2>2. FlattenSeq(a \o << <<>> >>) = FlattenSeq(a) \o <<>>
    BY <1>0, <1>1, FlatSnoc
  <2>3. FlattenSeq(a) \o <<>> = FlattenSeq(a)
    BY <1>0, <1>1
  <2>4. /\ a \o << <<>> >> \in Seq(Seq(Byte)) /\ Len(a \o << <<>> >>) = Len(a) + 1
        /\ \A i \in 1 .. Len(a) + 1 : i = Len(a) + 1 \/ (i \in 1 .. Len(a) /\ (a \o << <<>> >>)[i] = a[i])
    BY <1>0, <1>1
  <2> QED BY <1>1, <1>3, <2>1, <2>2, <2>3, <2>4
<1>4. CASE ~fin
  <2>1. read_rx' = a
    BY <1>1, <1>2, <1>4
  <2> QED BY <1>1, <2>1
<1> QED BY <1>3, <1>4

\* The pcb that has taken t, before an ACK goes out.
LEMMA TakenInv ==
  ASSUME RecvInv, NEW t, Fits(t, RightEdge(pcb)), t.seq = pcb.rcv_nxt, t.seq < RightEdge(pcb)
  PROVE  LET P == Taken(pcb, t)
         IN /\ P.rcv_wnd = pcb.rcv_wnd - (Reached(t) - pcb.rcv_nxt)
            /\ env.careful => P.rcv_wnd >= 0
            /\ P.rcv_wnd >= 0 =>
                 /\ PcbInv(P, wire) /\ Near(P) /\ P.rcv_nxt = Reached(t) /\ P.state = pcb.state
                 /\ P.ann_right_edge = pcb.ann_right_edge
<1> DEFINE n == Reached(t) - pcb.rcv_nxt
           B == [pcb EXCEPT !.rcv_nxt = @ + n, !.rcv_wnd = @ - n, !.ooseq = Left(pcb, t)]
           U == UpdateAnnWnd(B)
           P == Taken(pcb, t)
           Loose == [state : {"ESTABLISHED", "CLOSE_WAIT"}, rcv_nxt : Int, rcv_wnd : Int,
                     rcv_ann_wnd : Int, ann_right_edge : Nat,
                     delay : BOOLEAN, now : BOOLEAN, ooseq : Seq(Seg)]
<1>1. /\ pcb \in PcbType /\ Numbers /\ PcbInv(pcb, wire) /\ Near(pcb) /\ env \in Env
      /\ Queue(pcb.ooseq, pcb.rcv_nxt, RightEdge(pcb))
  BY InvFacts DEF PcbInv
<1>2. /\ Reached(t) \in Nat /\ Reached(t) > pcb.rcv_nxt /\ Reached(t) <= MaxBytes + 1
      /\ env.careful => Reached(t) <= RightEdge(pcb)
      /\ Queue(Left(pcb, t), Reached(t), RightEdge(pcb))
  <2>1. /\ Bytes(Chunk(InOrder(pcb, t)), pcb.rcv_nxt)
        /\ Reached(t) = pcb.rcv_nxt + Len(Chunk(InOrder(pcb, t)))
                        + IF GotFin(InOrder(pcb, t)) THEN 1 ELSE 0
        /\ Reached(t) \in Nat /\ Reached(t) > pcb.rcv_nxt
        /\ pcb.rcv_nxt + Len(Chunk(InOrder(pcb, t))) <= env.total
        /\ env.careful => Reached(t) <= RightEdge(pcb)
        /\ Queue(Left(pcb, t), Reached(t), RightEdge(pcb))
    BY <1>1, TakenFacts
  <2>2. pcb.rcv_nxt + Len(Chunk(InOrder(pcb, t))) \in Nat
    BY <1>1, <2>1, PcbFacts DEF Bytes
  <2>3. env.total \in Nat /\ env.total <= MaxBytes /\ MaxBytes \in Nat
    BY <1>1, ReceiveAssumption DEF Env
  <2> QED BY <2>1, <2>2, <2>3
<1>3. P = TcpAck(U)
  BY DEF Taken, Reached
<1>4. n \in Int /\ n > 0 /\ pcb.rcv_nxt + n = Reached(t)
  BY <1>1, <1>2, PcbFacts
<1> HIDE DEF n, P
<1>5. /\ B \in Loose /\ B.rcv_nxt = Reached(t) /\ B.rcv_wnd = pcb.rcv_wnd - n
      /\ B.state = pcb.state /\ B.ann_right_edge = pcb.ann_right_edge
      /\ B.ooseq = Left(pcb, t) /\ B.delay = pcb.delay /\ B.now = pcb.now
      /\ pcb.rcv_wnd - n \in Int
  <2>1. Left(pcb, t) \in Seq(Seg)
    BY <1>2 DEF Queue, Chain
  <2>2. /\ pcb.rcv_nxt \in Nat /\ pcb.rcv_wnd \in Nat /\ pcb.rcv_ann_wnd \in Nat
        /\ pcb.ann_right_edge \in Nat
    BY <1>1, PcbFacts
  <2>3. B = [pcb EXCEPT !.rcv_nxt = Reached(t), !.rcv_wnd = pcb.rcv_wnd - n, !.ooseq = Left(pcb, t)]
    BY <1>1, <1>4 DEF PcbType
  <2>4. Reached(t) \in Int /\ pcb.rcv_wnd - n \in Int
    BY <1>2, <1>4, <2>2
  <2> HIDE DEF B
  <2>5. /\ B.rcv_nxt = Reached(t) /\ B.rcv_wnd = pcb.rcv_wnd - n
        /\ B.state = pcb.state /\ B.ann_right_edge = pcb.ann_right_edge
        /\ B.ooseq = Left(pcb, t) /\ B.delay = pcb.delay /\ B.now = pcb.now
    BY <1>1, <2>3 DEF PcbType
  <2>6. pcb \in Loose
    BY <1>1, <2>2 DEF PcbType
  <2>7. B \in Loose
    BY <2>1, <2>3, <2>4, <2>6
  <2> QED BY <2>4, <2>5, <2>7
<1> HIDE DEF B
<1>6. U.rcv_wnd = B.rcv_wnd /\ U.rcv_nxt = B.rcv_nxt /\ U.state = B.state
      /\ U.ann_right_edge = B.ann_right_edge /\ U.ooseq = B.ooseq /\ U.delay = B.delay
      /\ U.now = B.now
  BY <1>5 DEF UpdateAnnWnd
<1>7. P.rcv_wnd = pcb.rcv_wnd - n
  <2>1. U = [B EXCEPT !.rcv_ann_wnd = U.rcv_ann_wnd]
    BY <1>5 DEF UpdateAnnWnd
  <2> HIDE DEF U
  <2>2. P.rcv_wnd = U.rcv_wnd
    BY <1>3, <1>5, <2>1 DEF TcpAck, AckNow
  <2> QED BY <1>5, <1>6, <2>2 DEF U
<1>8. env.careful => P.rcv_wnd >= 0
  BY <1>1, <1>2, <1>4, <1>7, PcbFacts
<1>9. ASSUME P.rcv_wnd >= 0
      PROVE /\ PcbInv(P, wire) /\ Near(P) /\ P.rcv_nxt = Reached(t) /\ P.state = pcb.state
            /\ P.ann_right_edge = pcb.ann_right_edge
  <2>1. pcb.rcv_wnd - n \in 0 .. WND /\ Reached(t) \in 0 .. (MaxBytes + 1)
    <3>1. pcb.rcv_wnd \in Nat /\ pcb.rcv_wnd <= WND /\ WND \in Nat /\ MaxBytes \in Nat
      BY <1>1, PcbFacts, ReceiveAssumption
    <3> QED BY <1>2, <1>4, <1>7, <1>9, <3>1
  <2>2. B \in PcbType
    <3>1. Left(pcb, t) \in Seq(Seg)
      BY <1>2 DEF Queue, Chain
    <3>2. B = [pcb EXCEPT !.rcv_nxt = Reached(t), !.rcv_wnd = pcb.rcv_wnd - n, !.ooseq = Left(pcb, t)]
      BY <1>1, <1>4 DEF B, PcbType
    <3> QED BY <1>1, <2>1, <3>1, <3>2 DEF PcbType
  <2>3. RightEdge(B) = RightEdge(pcb) /\ RightEdge(pcb) \in Nat
    BY <1>1, <1>2, <1>4, <1>5, PcbFacts, SMTT(30) DEF RightEdge
  <2>4. /\ U \in PcbType
        /\ B.ann_right_edge <= B.rcv_nxt + U.rcv_ann_wnd
        /\ B.rcv_nxt + U.rcv_ann_wnd <= RightEdge(B)
    <3>1. B.ann_right_edge <= RightEdge(B)
      BY <1>1, <1>5, <2>3 DEF Numbers
    <3> QED BY <2>2, <3>1, Updated
  <2> HIDE DEF U
  <2>5. /\ P \in PcbType /\ P.rcv_wnd = U.rcv_wnd /\ P.rcv_nxt = U.rcv_nxt /\ P.state = U.state
        /\ P.ann_right_edge = U.ann_right_edge /\ P.ooseq = U.ooseq
        /\ P.rcv_ann_wnd = U.rcv_ann_wnd /\ (P.delay \/ P.now)
    <3>1. CASE U.delay
      BY <1>3, <2>4, <3>1 DEF TcpAck, AckNow, PcbType
    <3>2. CASE ~U.delay
      BY <1>3, <2>4, <3>2 DEF TcpAck, PcbType
    <3> QED BY <3>1, <3>2
  <2>6. RightEdge(P) = RightEdge(pcb)
    BY <1>6, <2>3, <2>5 DEF RightEdge
  <2>7. Queue(P.ooseq, P.rcv_nxt, RightEdge(P))
    BY <1>2, <1>5, <1>6, <2>5, <2>6
  <2>8. PcbInv(P, wire)
    BY <1>1, <1>5, <1>6, <2>3, <2>4, <2>5, <2>6, <2>7 DEF PcbInv
  <2>9. Near(P)
    BY <1>1, <1>5, <1>6, <2>5, <2>6 DEF Near
  <2> QED BY <1>5, <1>6, <2>5, <2>8, <2>9
<1> QED BY <1>7, <1>8, <1>9 DEF n, P

\* tcp_process, tcp_input: the byte of a FIN goes back to the window at once.
LEMMA FinInv ==
  ASSUME NEW P, NEW w, PcbInv(P, w), P.rcv_wnd < WND
  PROVE  /\ PcbInv(TakenFin(P), w) /\ Near(TakenFin(P))
         /\ TakenFin(P).rcv_nxt = P.rcv_nxt /\ TakenFin(P).rcv_wnd = P.rcv_wnd + 1
         /\ TakenFin(P).ann_right_edge = P.ann_right_edge /\ TakenFin(P).state = "CLOSE_WAIT"
<1> DEFINE A == AckNow(P)
           F == TakenFin(P)
<1>1. PcbInv(A, w) /\ A.rcv_nxt = P.rcv_nxt /\ A.rcv_wnd = P.rcv_wnd
      /\ A.ann_right_edge = P.ann_right_edge
  BY AckNowInv
<1>2. F = [A EXCEPT !.state = "CLOSE_WAIT", !.rcv_wnd = IF @ # WND THEN @ + 1 ELSE @]
  BY DEF TakenFin
<1> HIDE DEF A, F
<1>3. A \in PcbType /\ P \in PcbType
  BY <1>1 DEF PcbInv
<1>4. A.rcv_wnd # WND /\ A.rcv_wnd + 1 \in 0 .. WND
  BY <1>1, <1>3, PcbFacts, ReceiveAssumption, SMTT(30)
<1>5. F = [A EXCEPT !.state = "CLOSE_WAIT", !.rcv_wnd = A.rcv_wnd + 1]
  BY <1>2, <1>3, <1>4 DEF PcbType
<1>6. /\ F \in PcbType /\ F.state = "CLOSE_WAIT" /\ F.rcv_nxt = A.rcv_nxt
      /\ F.rcv_wnd = A.rcv_wnd + 1 /\ F.rcv_ann_wnd = A.rcv_ann_wnd
      /\ F.ann_right_edge = A.ann_right_edge /\ F.ooseq = A.ooseq
      /\ F.delay = A.delay /\ F.now = A.now
  BY <1>3, <1>4, <1>5 DEF PcbType
<1>7. /\ RightEdge(F) = RightEdge(A) + 1 /\ RightEdge(A) \in Nat /\ RightEdge(F) \in Nat
      /\ A.rcv_nxt + A.rcv_ann_wnd \in Nat
  BY <1>3, <1>6, PcbFacts, SMTT(30)
<1>8. Queue(F.ooseq, F.rcv_nxt, RightEdge(F))
  <2>1. Queue(A.ooseq, A.rcv_nxt, RightEdge(A)) /\ RightEdge(A) <= RightEdge(F)
    BY <1>1, <1>7 DEF PcbInv
  <2> QED BY <1>6, <1>7, <2>1, QueueGrows
<1>9. F.rcv_nxt + F.rcv_ann_wnd <= RightEdge(F)
  BY <1>1, <1>6, <1>7 DEF PcbInv
<1>10. PcbInv(F, w)
  BY <1>1, <1>6, <1>8, <1>9 DEF PcbInv
<1>11. Near(F)
  BY <1>6 DEF Near
<1> QED BY <1>1, <1>6, <1>10, <1>11 DEF F

\* A segment that brings the byte rcv_nxt, with what waited behind it.
LEMMA InOrderInv ==
  ASSUME RecvInv, NEW s \in Segments, InputInOrder(s) PROVE RecvInv' /\ Forward
<1> DEFINE t == TrimFront(pcb, s)
           L == InOrder(pcb, t)
           c == Chunk(L)
           g == GotFin(L)
           P == Taken(pcb, t)
           F == IF g THEN TakenFin(P) ELSE P
<1>1. /\ HasText(s) /\ InWindow(pcb, t.seq) /\ t.seq = pcb.rcv_nxt /\ app' = app /\ env' = env
      /\ app.pc = "idle"
      /\ P.rcv_wnd < 0 => failed' = TRUE /\ UNCHANGED <<pcb, wire, read_rx>>
      /\ ~(P.rcv_wnd < 0) => Becomes(Output(Context(F))) /\ RecvCb(c, g) /\ failed' = failed
  BY DEF InputInOrder, Idle
<1>2. PcbInv(pcb, wire) /\ Near(pcb) /\ pcb \in PcbType /\ env \in Env /\ Numbers
      /\ Queue(pcb.ooseq, pcb.rcv_nxt, RightEdge(pcb))
  BY InvFacts DEF PcbInv
<1>3. Fits(t, RightEdge(pcb)) /\ t.seq < RightEdge(pcb)
  BY <1>1, <1>2, FrontFits DEF InWindow
<1>4. /\ Bytes(c, pcb.rcv_nxt)
      /\ Reached(t) = pcb.rcv_nxt + Len(c) + IF g THEN 1 ELSE 0
      /\ Reached(t) \in Nat /\ Reached(t) > pcb.rcv_nxt
      /\ pcb.rcv_nxt + Len(c) <= env.total
      /\ g => pcb.rcv_nxt + Len(c) = env.total
  BY <1>1, <1>2, <1>3, TakenFacts
<1>5. /\ P.rcv_wnd = pcb.rcv_wnd - (Reached(t) - pcb.rcv_nxt)
      /\ env.careful => P.rcv_wnd >= 0
      /\ P.rcv_wnd >= 0 =>
           /\ PcbInv(P, wire) /\ Near(P) /\ P.rcv_nxt = Reached(t) /\ P.state = pcb.state
           /\ P.ann_right_edge = pcb.ann_right_edge
  BY <1>1, <1>3, TakenInv
<1>6. g \in BOOLEAN /\ P.rcv_wnd \in Int /\ P.rcv_wnd < WND /\ pcb.rcv_wnd \in Nat
      /\ pcb.rcv_nxt \in Nat /\ pcb.state = "ESTABLISHED"
  <2>1. pcb.rcv_wnd \in Nat /\ pcb.rcv_nxt \in Nat /\ pcb.rcv_wnd <= WND /\ WND \in Nat
    BY <1>2, PcbFacts, ReceiveAssumption
  <2>2. g \in BOOLEAN
    BY DEF GotFin
  <2> QED BY <1>1, <1>4, <1>5, <2>1, <2>2 DEF HasText
<1> HIDE DEF t, L, c, g, P
<1>7. CASE P.rcv_wnd < 0
  <2>1. ~env.careful /\ failed' = TRUE /\ UNCHANGED <<pcb, wire, read_rx>>
    BY <1>1, <1>5, <1>6, <1>7
  <2>2. PcbInv(pcb, wire)' /\ Near(pcb)'
    BY <1>1, <1>2, <2>1, EnvSame
  <2>3. StreamInv' /\ ReaderInv'
    BY <1>1, <2>1 DEF RecvInv, StreamInv, ReaderInv, Received, Finned
  <2>4. Forward
    BY <1>2, <2>1 DEF Forward, Numbers
  <2> QED BY <1>1, <2>1, <2>2, <2>3, <2>4 DEF RecvInv
<1>8. CASE P.rcv_wnd >= 0
  <2>1. /\ Becomes(Output(Context(F))) /\ RecvCb(c, g) /\ failed' = failed
        /\ PcbInv(P, wire) /\ Near(P) /\ P.rcv_nxt = Reached(t) /\ P.state = "ESTABLISHED"
        /\ P.ann_right_edge = pcb.ann_right_edge
    BY <1>1, <1>5, <1>6, <1>8
  <2>2. /\ PcbInv(F, wire) /\ Near(F) /\ F.rcv_nxt = Reached(t)
        /\ F.ann_right_edge = pcb.ann_right_edge
        /\ F.rcv_wnd = P.rcv_wnd + (IF g THEN 1 ELSE 0)
        /\ F.state = (IF g THEN "CLOSE_WAIT" ELSE "ESTABLISHED")
    <3>1. CASE g
      BY <1>6, <2>1, <3>1, FinInv
    <3>2. CASE ~g
      BY <1>6, <2>1, <3>2
    <3> QED BY <3>1, <3>2
  <2> HIDE DEF F
  <2>3. Told(F, wire, pcb', wire')
    <3>1. F \in PcbType /\ wire \in WireType /\ F.rcv_nxt + F.rcv_ann_wnd <= RightEdge(F)
      BY <2>2 DEF PcbInv
    <3> QED BY <2>1, <3>1, OutputTold DEF Becomes, Context
  <2>4. PcbInv(pcb', wire') /\ Near(pcb') /\ Forward
    BY <2>2, <2>3, ToldInv DEF Forward
  <2>5. PcbInv(pcb, wire)' /\ Near(pcb)'
    BY <1>1, <2>4, EnvSame
  <2>6. pcb'.rcv_nxt = Reached(t) /\ pcb'.rcv_wnd = P.rcv_wnd + (IF g THEN 1 ELSE 0)
        /\ pcb'.state = (IF g THEN "CLOSE_WAIT" ELSE "ESTABLISHED")
    BY <2>2, <2>3 DEF Told
  <2>7. /\ read_rx' \in Seq(Seq(Byte)) /\ FlattenSeq(read_rx') = FlattenSeq(read_rx) \o c
        /\ \A i \in 1 .. Len(read_rx') :
             \/ i \in 1 .. Len(read_rx) /\ read_rx'[i] = read_rx[i]
             \/ read_rx'[i] # <<>>
             \/ g /\ i = Len(read_rx')
    <3>1. read_rx \in Seq(Seq(Byte)) /\ c \in Seq(Byte)
      BY <1>4 DEF RecvInv, Bytes
    <3> QED BY <1>6, <2>1, <3>1, RecvCbFlat
  <2>8. StreamInv'
    <3> DEFINE x == FlattenSeq(read_rx)
               y == FlattenSeq(read_rx')
               f == app.read + Len(app.write_buf)
    <3>1. /\ Bytes(app.write_buf, app.read) /\ Bytes(x, f) /\ pcb.rcv_nxt = f + Len(x)
          /\ pcb.rcv_wnd = WND - Len(x) /\ app.read \in Nat
      BY <1>6 DEF RecvInv, StreamInv, Received, Finned, AppType, Byte
    <3>2. f \in Nat /\ Len(x) \in Nat /\ Len(c) \in Nat
      BY <1>4, <3>1 DEF Bytes
    <3> HIDE DEF x, f
    <3>3. Bytes(x \o c, f) /\ Len(x \o c) = Len(x) + Len(c)
      BY <1>4, <3>1, <3>2, BytesConcat
    <3>4. y = x \o c
      BY <2>7 DEF x
    <3> HIDE DEF y
    <3>5. Received' = pcb.rcv_nxt + Len(c) /\ (Finned' <=> g)
      BY <1>4, <1>6, <2>6, <3>2 DEF Received, Finned
    <3>6. Received' = f + Len(y)
      BY <3>1, <3>2, <3>3, <3>4, <3>5
    <3>7. pcb'.rcv_wnd = WND - Len(y)
      <4>1. WND \in Nat
        BY ReceiveAssumption
      <4> QED BY <1>4, <1>5, <1>6, <2>6, <3>1, <3>2, <3>3, <3>4, <4>1
    <3>8. Received' <= env'.total /\ (Finned' => Received' = env'.total)
      BY <1>1, <1>4, <3>5
    <3> QED BY <1>1, <3>1, <3>3, <3>4, <3>6, <3>7, <3>8 DEF StreamInv, f, y
  <2>9. ReaderInv'
    <3>1. ~Finned
      BY <1>6 DEF Finned
    <3>2. /\ \A i \in 1 .. Len(read_rx) : read_rx[i] # <<>>
          /\ ~app.is_eof /\ ~app.ended
      BY <3>1 DEF RecvInv, ReaderInv
    <3>3. \A i \in 1 .. Len(read_rx') : read_rx'[i] = <<>> => i = Len(read_rx') /\ Finned'
      BY <2>6, <2>7, <3>2 DEF Finned
    <3> QED BY <1>1, <3>2, <3>3 DEF ReaderInv
  <2> QED BY <1>1, <2>1, <2>4, <2>5, <2>7, <2>8, <2>9 DEF RecvInv
<1> QED BY <1>6, <1>7, <1>8

-------------------------------------------------------------------------------
(* poll_read. *)

\* tcp_recved opens the window, and tells the peer at once of a large growth.
LEMMA RecvedInv ==
  ASSUME RecvInv, NEW len \in Nat, pcb.rcv_wnd + len <= WND, Becomes(TcpRecved(pcb, len))
  PROVE  /\ PcbInv(pcb', wire') /\ Near(pcb') /\ Forward
         /\ pcb'.rcv_nxt = pcb.rcv_nxt /\ pcb'.state = pcb.state
         /\ pcb'.rcv_wnd = pcb.rcv_wnd + len
<1> DEFINE B == [pcb EXCEPT !.rcv_wnd = Lesser(@ + len, WND)]
           Q == UpdateAnnWnd(B)
<1>1. /\ PcbInv(pcb, wire) /\ pcb \in PcbType /\ wire \in WireType /\ Numbers
      /\ pcb.rcv_nxt \in Nat /\ pcb.rcv_wnd \in Nat /\ pcb.ann_right_edge \in Nat
  BY InvFacts, PcbFacts
<1>2. IF Inflation(B) >= Threshold THEN Becomes(Output([pcb |-> AckNow(Q), wire |-> wire]))
      ELSE Becomes({[pcb |-> Q, wire |-> wire]})
  BY DEF TcpRecved, Context
<1>3. B = [pcb EXCEPT !.rcv_wnd = pcb.rcv_wnd + len] /\ pcb.rcv_wnd + len \in 0 .. WND
  BY <1>1, ReceiveAssumption DEF Lesser
<1> HIDE DEF B
<1>4. /\ B \in PcbType /\ B.rcv_wnd = pcb.rcv_wnd + len /\ B.rcv_nxt = pcb.rcv_nxt
      /\ B.ann_right_edge = pcb.ann_right_edge /\ B.ooseq = pcb.ooseq /\ B.state = pcb.state
      /\ B.delay = pcb.delay /\ B.now = pcb.now
  BY <1>1, <1>3 DEF PcbType
<1>5. RightEdge(B) = RightEdge(pcb) + len /\ RightEdge(pcb) \in Nat /\ RightEdge(B) \in Nat
  BY <1>1, <1>4, PcbFacts
<1>6. /\ Q \in PcbType
      /\ B.ann_right_edge <= B.rcv_nxt + Q.rcv_ann_wnd
      /\ B.rcv_nxt + Q.rcv_ann_wnd <= RightEdge(B)
      /\ Inflation(B) > 0 => B.rcv_nxt + Q.rcv_ann_wnd = RightEdge(B)
  <2>1. B.ann_right_edge <= RightEdge(B)
    BY <1>1, <1>4, <1>5 DEF Numbers
  <2> QED BY <1>4, <2>1, Updated
<1>7. /\ Q.rcv_wnd = B.rcv_wnd /\ Q.rcv_nxt = B.rcv_nxt /\ Q.state = B.state
      /\ Q.ann_right_edge = B.ann_right_edge /\ Q.ooseq = B.ooseq
      /\ Q.delay = B.delay /\ Q.now = B.now
  BY <1>4 DEF UpdateAnnWnd, PcbType
<1> HIDE DEF Q
<1>8. RightEdge(Q) = RightEdge(B)
  BY <1>7 DEF RightEdge
<1>9. PcbInv(Q, wire)
  <2>1. Queue(Q.ooseq, Q.rcv_nxt, RightEdge(Q))
    <3>1. RightEdge(pcb) <= RightEdge(Q) /\ RightEdge(Q) \in Nat
      BY <1>5, <1>8
    <3>2. Queue(pcb.ooseq, pcb.rcv_nxt, RightEdge(pcb))
      BY <1>1 DEF PcbInv
    <3> QED BY <1>4, <1>5, <1>7, <3>1, <3>2, QueueGrows
  <2> QED BY <1>1, <1>4, <1>6, <1>7, <1>8, <2>1 DEF PcbInv
<1>10. /\ Threshold \in Nat /\ Threshold > 0 /\ Step \in Nat /\ Step <= Threshold
  BY ReceiveAssumption
<1>11. CASE Inflation(B) >= Threshold
  <2> DEFINE A == AckNow(Q)
  <2>1. /\ PcbInv(A, wire) /\ A.now /\ A.state = Q.state /\ A.rcv_nxt = Q.rcv_nxt
        /\ A.rcv_wnd = Q.rcv_wnd /\ A.ann_right_edge = Q.ann_right_edge
    BY <1>9, AckNowInv
  <2>2. A.rcv_ann_wnd = Q.rcv_ann_wnd
    BY <1>6 DEF AckNow, PcbType
  <2>3. PICK c \in Output([pcb |-> A, wire |-> wire]) : pcb' = c.pcb /\ wire' = c.wire
    BY <1>2, <1>11 DEF Becomes
  <2> HIDE DEF A
  <2>4. c \in SendEmptyAck([pcb |-> A, wire |-> wire])
    BY <2>1, <2>3 DEF Output
  <2>5. A \in PcbType /\ A.rcv_nxt + A.rcv_ann_wnd <= RightEdge(A)
    BY <2>1 DEF PcbInv
  <2>6. /\ Told(A, wire, pcb', wire')
        /\ env.plenty => pcb'.ann_right_edge = A.rcv_nxt + A.rcv_ann_wnd
    BY <1>1, <2>3, <2>4, <2>5, AckTold
  <2>7. PcbInv(pcb', wire') /\ wire'.edge >= wire.edge /\ pcb'.ann_right_edge >= A.ann_right_edge
    BY <2>1, <2>6, ToldInv
  <2>8. /\ pcb'.rcv_nxt = A.rcv_nxt /\ pcb'.state = A.state /\ pcb'.rcv_wnd = A.rcv_wnd
    BY <2>6 DEF Told
  <2>9. Near(pcb')
    <3>1. env.plenty => pcb'.ann_right_edge = RightEdge(B)
      <4>1. Inflation(B) > 0
        <5>1. Inflation(B) \in Int
          BY <1>4, <1>5, PcbFacts DEF Inflation
        <5> QED BY <1>10, <1>11, <5>1
      <4> QED BY <1>6, <1>7, <2>1, <2>2, <2>6, <4>1
    <3>2. RightEdge(pcb') = RightEdge(B)
      BY <1>7, <2>1, <2>8 DEF RightEdge
    <3> QED BY <1>5, <1>10, <3>1, <3>2 DEF Near
  <2> QED BY <1>4, <1>7, <2>1, <2>7, <2>8, <2>9 DEF Forward
<1>12. CASE ~(Inflation(B) >= Threshold)
  <2>1. pcb' = Q /\ wire' = wire
    BY <1>2, <1>12 DEF Becomes
  <2>2. RightEdge(B) - B.ann_right_edge < Threshold
    <3>1. B.ann_right_edge \in Nat
      BY <1>1, <1>4
    <3> QED BY <1>5, <1>10, <1>12, <3>1 DEF Inflation
  <2>3. Near(Q)
    BY <1>7, <1>8, <2>2 DEF Near
  <2>4. Forward
    BY <1>1, <1>4, <1>7, <2>1 DEF Forward, Numbers
  <2> QED BY <1>4, <1>7, <1>9, <2>1, <2>3, <2>4
<1> QED BY <1>11, <1>12

\* What the reader does to the rest of the invariant.
LEMMA ReaderStep ==
  ASSUME RecvInv, env' = env, failed' = failed, pcb'.state = pcb.state,
         PcbInv(pcb', wire'), Near(pcb'),
         read_rx' \in Seq(Seq(Byte)), app' \in AppType, StreamInv', ReaderInv'
  PROVE  RecvInv'
BY EnvSame DEF RecvInv

\* The facts of the reader that is in its loop.
LEMMA ReaderFacts ==
  ASSUME RecvInv
  PROVE  /\ app \in AppType /\ app.read \in Nat /\ app.room \in Nat /\ app.room <= MaxRead
         /\ read_rx \in Seq(Seq(Byte)) /\ app.write_buf \in Seq(Byte)
         /\ FlattenSeq(read_rx) \in Seq(Byte) /\ Len(FlattenSeq(read_rx)) \in Nat
         /\ Len(app.write_buf) \in Nat
         /\ app.read + Len(app.write_buf) + Len(FlattenSeq(read_rx)) <= MaxBytes
         /\ pcb.rcv_wnd = WND - Len(FlattenSeq(read_rx))
         /\ pcb.rcv_wnd \in Nat /\ WND \in Nat /\ MaxBytes \in Nat
<1>1. app \in AppType /\ read_rx \in Seq(Seq(Byte)) /\ env \in Env /\ StreamInv
  BY DEF RecvInv
<1>2. app.read \in 0 .. MaxBytes /\ app.room \in 0 .. MaxRead
  BY <1>1 DEF AppType, Byte
<1>3. app.write_buf \in Seq(Byte) /\ FlattenSeq(read_rx) \in Seq(Byte)
  BY <1>1 DEF StreamInv, Bytes
<1>4. /\ pcb.rcv_wnd \in Nat /\ WND \in Nat /\ MaxBytes \in Nat /\ MaxRead \in Nat
      /\ env.total \in Nat /\ env.total <= MaxBytes
  BY <1>1, InvFacts, PcbFacts, ReceiveAssumption DEF Env
<1>5. Len(FlattenSeq(read_rx)) \in Nat /\ Len(app.write_buf) \in Nat
  BY <1>3
<1>6. app.read + Len(app.write_buf) + Len(FlattenSeq(read_rx)) <= env.total
  BY <1>1 DEF StreamInv
<1>7. pcb.rcv_wnd = WND - Len(FlattenSeq(read_rx))
  BY <1>1 DEF StreamInv
<1>8. app.read + Len(app.write_buf) + Len(FlattenSeq(read_rx)) <= MaxBytes
  BY <1>2, <1>4, <1>5, <1>6
<1> QED BY <1>1, <1>2, <1>3, <1>4, <1>5, <1>7, <1>8

\* The head of a sequence, and what follows it.
LEMMA HeadTail ==
  ASSUME NEW S, NEW q \in Seq(S), q # <<>>
  PROVE  /\ Head(q) \in S /\ Tail(q) \in Seq(S) /\ q = <<Head(q)>> \o Tail(q)
         /\ Len(Tail(q)) = Len(q) - 1 /\ Len(q) \in Nat
         /\ \A i \in 1 .. Len(Tail(q)) : i + 1 \in 1 .. Len(q) /\ Tail(q)[i] = q[i + 1]
<1>1. Len(q) \in Nat /\ Len(q) > 0
  OBVIOUS
<1>2. Head(q) \in S /\ Tail(q) \in Seq(S) /\ Len(Tail(q)) = Len(q) - 1
  OBVIOUS
<1>3. \A i \in 1 .. Len(Tail(q)) : i + 1 \in 1 .. Len(q) /\ Tail(q)[i] = q[i + 1]
  OBVIOUS
<1>4. q = <<Head(q)>> \o Tail(q)
  OBVIOUS
<1> QED BY <1>1, <1>2, <1>3, <1>4

\* A Vec of the channel, the part that does not fit left over.
LEMMA ReadChunkInv == ASSUME RecvInv, ReadChunk PROVE RecvInv' /\ Forward
<1> DEFINE data == Head(read_rx)
           rest == Tail(read_rx)
           n == Lesser(app.room, Len(data))
           left == SubSeq(data, n + 1, Len(data))
           a == [app EXCEPT !.read = @ + n, !.room = @ - n, !.has_read = TRUE,
                            !.write_buf = @ \o left]
           x == FlattenSeq(rest)
<1>1. /\ app.pc = "reading" /\ read_rx # <<>> /\ data # <<>>
      /\ Becomes(TcpRecved(pcb, Len(data)))
      /\ read_rx' = rest /\ app' = IF n < Len(data) THEN Return(a) ELSE a
      /\ failed' = failed /\ env' = env
  BY DEF ReadChunk
<1>2. app.write_buf = <<>> /\ ~app.ended /\ ~app.is_eof
  BY <1>1 DEF RecvInv, ReaderInv
<1>3. /\ data \in Seq(Byte) /\ rest \in Seq(Seq(Byte)) /\ read_rx = <<data>> \o rest
      /\ Len(rest) = Len(read_rx) - 1 /\ Len(read_rx) \in Nat /\ Len(data) \in Nat
      /\ \A i \in 1 .. Len(rest) : i + 1 \in 1 .. Len(read_rx) /\ rest[i] = read_rx[i + 1]
  <2>1. read_rx \in Seq(Seq(Byte)) /\ read_rx # <<>>
    BY <1>1, ReaderFacts
  <2>2. /\ data \in Seq(Byte) /\ rest \in Seq(Seq(Byte)) /\ read_rx = <<data>> \o rest
        /\ Len(rest) = Len(read_rx) - 1 /\ Len(read_rx) \in Nat
        /\ \A i \in 1 .. Len(rest) : i + 1 \in 1 .. Len(read_rx) /\ rest[i] = read_rx[i + 1]
    BY <2>1, HeadTail
  <2> HIDE DEF data
  <2>3. Len(data) \in Nat
    BY <2>2
  <2> QED BY <2>2, <2>3
<1>4. x \in Seq(Byte) /\ FlattenSeq(read_rx) = data \o x /\ Len(x) \in Nat
  <2>1. x \in Seq(Byte) /\ FlattenSeq(<<data>> \o rest) = data \o x
    <3> HIDE DEF data, rest
    <3> QED BY <1>3, FlatCons
  <2>2. Len(x) \in Nat
    <3> HIDE DEF x
    <3> QED BY <2>1
  <2>3. FlattenSeq(read_rx) = FlattenSeq(<<data>> \o rest)
    BY <1>3, Zenon
  <2> QED BY <2>1, <2>2, <2>3, Zenon
<1>5. n \in Nat /\ n <= Len(data) /\ n <= app.room /\ n \in 0 .. Len(data)
      /\ (n < Len(data) \/ n = Len(data))
  BY <1>3, ReaderFacts DEF Lesser
<1>6. left \in Seq(Byte) /\ app.write_buf \o left = left
  BY <1>2, <1>3, <1>5
<1>7. /\ a \in [pc : {"idle", "reading"}, room : 0 .. MaxRead, has_read : BOOLEAN,
                write_buf : Seq(Byte), is_eof : BOOLEAN, read : Int, ended : BOOLEAN]
      /\ a.read = app.read + n /\ a.write_buf = left /\ a.is_eof = app.is_eof
      /\ a.ended = app.ended /\ a.pc = app.pc
  <2>1. app.room - n \in 0 .. MaxRead /\ app.read + n \in Int
    <3>1. app.room \in Nat /\ app.room <= MaxRead /\ MaxRead \in Nat /\ app.read \in Nat
      BY ReaderFacts, ReceiveAssumption
    <3> HIDE DEF n
    <3> QED BY <1>5, <3>1
  <2>2. a = [app EXCEPT !.read = app.read + n, !.room = app.room - n, !.has_read = TRUE,
                        !.write_buf = left]
    BY <1>6, ReaderFacts DEF AppType
  <2> HIDE DEF a, n, left
  <2> QED BY <1>6, <2>1, <2>2, ReaderFacts DEF AppType
<1> HIDE DEF a, x, data, n, left, rest
<1>8. /\ Bytes(left, app.read + n) /\ Bytes(x, app.read + Len(data))
      /\ Len(left) = Len(data) - n
      /\ Len(FlattenSeq(read_rx)) = Len(data) + Len(x)
  <2>1. Bytes(data \o x, app.read)
    <3>1. Bytes(FlattenSeq(read_rx), app.read + Len(app.write_buf)) /\ Len(app.write_buf) = 0
      BY <1>2 DEF RecvInv, StreamInv
    <3> QED BY <1>4, <3>1, ReaderFacts
  <2>2. Bytes(data, app.read) /\ Bytes(x, app.read + Len(data))
        /\ Len(data \o x) = Len(data) + Len(x)
    BY <1>3, <1>4, <2>1, ReaderFacts, BytesSplit, SMTT(30)
  <2>3. Bytes(SubSeq(data, n + 1, Len(data)), app.read + n)
        /\ Len(SubSeq(data, n + 1, Len(data))) = Len(data) - n
    BY <1>5, <2>2, ReaderFacts, BytesRest, SMTT(30)
  <2> QED BY <1>4, <2>2, <2>3 DEF left
<1>9. /\ PcbInv(pcb', wire') /\ Near(pcb') /\ Forward
      /\ pcb'.rcv_nxt = pcb.rcv_nxt /\ pcb'.state = pcb.state
      /\ pcb'.rcv_wnd = pcb.rcv_wnd + Len(data)
  <2>1. pcb.rcv_wnd + Len(data) <= WND
    BY <1>3, <1>4, <1>8, ReaderFacts
  <2> QED BY <1>1, <1>3, <2>1, RecvedInv
<1>10. app.read + Len(data) + Len(x) <= MaxBytes /\ app.read + n \in Byte
  <2>1. app.read + Len(data) + Len(x) <= MaxBytes
    <3>1. Len(app.write_buf) = 0
      BY <1>2
    <3>2. /\ app.read + Len(app.write_buf) + Len(FlattenSeq(read_rx)) <= MaxBytes
          /\ app.read \in Nat
      BY ReaderFacts
    <3>3. /\ Len(data) \in Nat /\ Len(x) \in Nat
          /\ Len(FlattenSeq(read_rx)) = Len(data) + Len(x)
      BY <1>3, <1>4, <1>8
    <3>4. app.read + 0 + (Len(data) + Len(x)) <= MaxBytes
      BY <3>1, <3>2, <3>3, Zenon
    <3> QED BY <3>2, <3>3, <3>4
  <2>2. app.read \in Nat /\ MaxBytes \in Nat
    BY ReaderFacts
  <2> QED BY <1>3, <1>4, <1>5, <2>1, <2>2, SMTT(30) DEF Byte
<1>11. /\ app' \in AppType /\ app'.read = app.read + n /\ app'.write_buf = left
       /\ ~app'.is_eof /\ ~app'.ended
       /\ app'.pc = "reading" => n = Len(data)
  <2>1. a \in AppType
    BY <1>7, <1>10 DEF AppType
  <2>2. CASE n < Len(data)
    <3>1. app' = [a EXCEPT !.pc = "idle", !.room = 0, !.has_read = FALSE]
      BY <1>1, <2>2 DEF Return
    <3>2. 0 \in 0 .. MaxRead
      BY ReceiveAssumption
    <3> QED BY <1>2, <1>7, <2>1, <3>1, <3>2 DEF AppType
  <2>3. CASE n = Len(data)
    <3>1. app' = a
      BY <1>1, <1>3, <2>3
    <3> QED BY <1>2, <1>7, <2>1, <2>3, <3>1
  <2> QED BY <1>5, <2>2, <2>3
<1>12. StreamInv'
  <2>1. Received' = Received /\ Finned' = Finned
    BY <1>9 DEF Received, Finned
  <2>2. FlattenSeq(read_rx') = x
    BY <1>1 DEF x
  <2>3. app'.read + Len(app'.write_buf) = app.read + Len(data)
    <3>1. app.read \in Nat
      BY ReaderFacts
    <3>2. Len(app'.write_buf) = Len(data) - n /\ app'.read = app.read + n
      BY <1>8, <1>11
    <3>3. Len(data) \in Nat /\ n \in Nat
      BY <1>3, <1>5
    <3> QED BY <3>1, <3>2, <3>3
  <2>4. Received = app.read + Len(data) + Len(x)
    <3>1. Received = app.read + Len(app.write_buf) + Len(FlattenSeq(read_rx))
          /\ Len(app.write_buf) = 0
      BY <1>2 DEF RecvInv, StreamInv
    <3> QED BY <1>3, <1>4, <1>8, <3>1, ReaderFacts
  <2>5. pcb'.rcv_wnd = WND - Len(x)
    <3>1. pcb.rcv_wnd = WND - Len(FlattenSeq(read_rx)) /\ WND \in Nat
      BY ReaderFacts
    <3> QED BY <1>3, <1>4, <1>8, <1>9, <3>1
  <2>6. Received <= env.total /\ (Finned => Received = env.total)
    BY DEF RecvInv, StreamInv
  <2> QED BY <1>1, <1>8, <1>11, <2>1, <2>2, <2>3, <2>4, <2>5, <2>6 DEF StreamInv
<1>13. ReaderInv'
  <2>1. Finned' = Finned
    BY <1>9 DEF Finned
  <2>2. \A i \in 1 .. Len(read_rx) : read_rx[i] = <<>> => i = Len(read_rx) /\ Finned
    BY DEF RecvInv, ReaderInv
  <2>3. \A i \in 1 .. Len(rest) : rest[i] = <<>> => i = Len(rest) /\ Finned
    BY <1>3, <2>2
  <2>4. app'.pc = "reading" => app'.write_buf = <<>>
    <3>1. n = Len(data) => Len(left) = 0
      BY <1>3, <1>8
    <3> QED BY <1>6, <1>11, <3>1
  <2> QED BY <1>1, <1>11, <2>1, <2>3, <2>4 DEF ReaderInv
<1> QED BY <1>1, <1>3, <1>9, <1>11, <1>12, <1>13, ReaderStep

\* The steps of the reader that leave the connection alone.
LEMMA ConnectionSame ==
  ASSUME RecvInv, UNCHANGED <<pcb, wire, failed, env>>
  PROVE  /\ PcbInv(pcb', wire') /\ Near(pcb') /\ Forward /\ pcb'.state = pcb.state
         /\ Received' = Received /\ Finned' = Finned
<1>1. wire.edge \in Nat /\ pcb.ann_right_edge \in Nat
  BY InvFacts DEF Numbers
<1>2. Forward
  BY <1>1 DEF Forward
<1>3. PcbInv(pcb, wire) /\ Near(pcb)
  BY InvFacts
<1>4. PcbInv(pcb', wire') /\ Near(pcb')
  BY <1>3
<1>5. Received' = Received /\ Finned' = Finned
  BY DEF Received, Finned
<1> QED BY <1>2, <1>4, <1>5

\* poll_read begins: what is left over first.
LEMMA PollReadInv ==
  ASSUME RecvInv, NEW k \in 1 .. MaxRead, PollRead(k) PROVE RecvInv' /\ Forward
<1> DEFINE buf == app.write_buf
           n == Lesser(k, Len(buf))
           left == SubSeq(buf, n + 1, Len(buf))
<1>1. /\ ~app.ended /\ UNCHANGED <<pcb, read_rx, wire, failed, env>>
      /\ buf = <<>> => app' = [app EXCEPT !.pc = "reading", !.room = k]
      /\ buf # <<>> => app' = [app EXCEPT !.write_buf = left, !.read = @ + n]
      /\ app.pc = "idle"
  BY DEF PollRead, Idle
<1>2. /\ app \in AppType /\ buf \in Seq(Byte) /\ Len(buf) \in Nat /\ app.read \in Nat
      /\ read_rx \in Seq(Seq(Byte)) /\ Len(FlattenSeq(read_rx)) \in Nat
  BY ReaderFacts
<1>3. /\ Bytes(buf, app.read) /\ Bytes(FlattenSeq(read_rx), app.read + Len(buf))
      /\ Received = app.read + Len(buf) + Len(FlattenSeq(read_rx))
      /\ Received <= env.total /\ (Finned => Received = env.total)
      /\ pcb.rcv_wnd = WND - Len(FlattenSeq(read_rx))
  BY DEF RecvInv, StreamInv
<1>4. n \in 0 .. Len(buf)
  <2>1. k \in Nat
    OBVIOUS
  <2> QED BY <1>2, <2>1 DEF Lesser
<1>5. Bytes(left, app.read + n) /\ Len(left) = Len(buf) - n
  <2>1. buf \in Seq(Byte) /\ app.read \in Nat /\ Bytes(buf, app.read) /\ n \in 0 .. Len(buf)
    BY <1>2, <1>3, <1>4
  <2> HIDE DEF buf, n
  <2> QED BY <2>1, BytesRest, SMTT(30) DEF left
<1>6. /\ PcbInv(pcb', wire') /\ Near(pcb') /\ Forward /\ pcb'.state = pcb.state
      /\ Received' = Received /\ Finned' = Finned
  BY <1>1, ConnectionSame
<1>7. /\ app' \in AppType /\ app'.is_eof = app.is_eof /\ ~app'.ended
      /\ app'.pc = "reading" => app'.write_buf = <<>>
      /\ Bytes(app'.write_buf, app'.read)
      /\ app'.read + Len(app'.write_buf) = app.read + Len(buf)
  <2>1. CASE buf = <<>>
    <3>1. app' = [app EXCEPT !.pc = "reading", !.room = k]
      BY <1>1, <2>1
    <3>2. k \in 0 .. MaxRead
      BY ReceiveAssumption
    <3>3. /\ app' \in AppType /\ app'.is_eof = app.is_eof /\ app'.ended = app.ended
          /\ app'.write_buf = app.write_buf /\ app'.read = app.read
      BY <1>2, <3>1, <3>2 DEF AppType
    <3> QED BY <1>1, <1>3, <2>1, <3>3
  <2>2. CASE buf # <<>>
    <3>1. app' = [app EXCEPT !.write_buf = left, !.read = app.read + n]
      BY <1>1, <1>2, <2>2 DEF AppType
    <3>2. left \in Seq(Byte)
      BY <1>5 DEF Bytes
    <3>3. app.read + n \in Byte
      <4>1. app.read + Len(buf) + Len(FlattenSeq(read_rx)) <= MaxBytes /\ MaxBytes \in Nat
        BY ReaderFacts
      <4> HIDE DEF buf, n
      <4> QED BY <1>2, <1>4, <4>1 DEF Byte
    <3> HIDE DEF left, n
    <3>4. /\ app' \in AppType /\ app'.is_eof = app.is_eof /\ app'.ended = app.ended
          /\ app'.write_buf = left /\ app'.read = app.read + n /\ app'.pc = app.pc
      BY <1>2, <3>1, <3>2, <3>3 DEF AppType
    <3>5. app'.read + Len(app'.write_buf) = app.read + Len(buf)
      <4>1. Len(app'.write_buf) = Len(buf) - n /\ app'.read = app.read + n
        BY <1>5, <3>4
      <4>2. Len(buf) \in Nat /\ n \in Nat
        BY <1>2, <1>4
      <4> HIDE DEF buf
      <4> QED BY <1>2, <4>1, <4>2
    <3> QED BY <1>1, <1>5, <3>4, <3>5
  <2> QED BY <2>1, <2>2
<1>8. StreamInv'
  BY <1>1, <1>3, <1>6, <1>7 DEF StreamInv
<1>9. ReaderInv'
  BY <1>1, <1>6, <1>7 DEF RecvInv, ReaderInv
<1> QED BY <1>1, <1>2, <1>6, <1>7, <1>8, <1>9, ReaderStep

\* What leaving the loop does.
LEMMA Returned ==
  ASSUME NEW a \in AppType
  PROVE  /\ Return(a) \in AppType /\ Return(a).pc = "idle"
         /\ Return(a).is_eof = a.is_eof /\ Return(a).ended = a.ended
         /\ Return(a).write_buf = a.write_buf /\ Return(a).read = a.read
<1>1. 0 \in 0 .. MaxRead
  BY ReceiveAssumption
<1> QED BY <1>1 DEF Return, AppType

\* The empty Vec.
LEMMA ReadEofInv == ASSUME RecvInv, ReadEof PROVE RecvInv' /\ Forward
<1> DEFINE b == [app EXCEPT !.is_eof = TRUE, !.ended = ~app.has_read]
<1>1. /\ app.pc = "reading" /\ read_rx # <<>> /\ Head(read_rx) = <<>>
      /\ read_rx' = Tail(read_rx) /\ app' = Return(b)
      /\ UNCHANGED <<pcb, wire, failed, env>>
  BY DEF ReadEof
<1>2. app \in AppType /\ read_rx \in Seq(Seq(Byte)) /\ app.read \in Nat
  BY ReaderFacts
<1>3. read_rx[1] = <<>> /\ 1 \in 1 .. Len(read_rx) /\ Len(read_rx) \in Nat
  BY <1>1, <1>2
<1>4. app.write_buf = <<>> /\ 1 = Len(read_rx) /\ Finned
  BY <1>1, <1>3 DEF RecvInv, ReaderInv
<1>5. read_rx = << <<>> >> \o <<>> /\ read_rx' = <<>>
  <2>1. /\ read_rx = <<Head(read_rx)>> \o Tail(read_rx)
        /\ Tail(read_rx) \in Seq(Seq(Byte)) /\ Len(Tail(read_rx)) = Len(read_rx) - 1
    BY <1>1, <1>2, HeadTail
  <2>2. Tail(read_rx) = <<>>
    <3>1. Len(Tail(read_rx)) = 0
      BY <1>4, <2>1
    <3>2. \A q \in Seq(Seq(Byte)) : Len(q) = 0 => q = <<>>
      OBVIOUS
    <3> QED BY <2>1, <3>1, <3>2, Zenon
  <2> QED BY <1>1, <2>1, <2>2
<1>6. FlattenSeq(read_rx) = <<>> /\ FlattenSeq(read_rx') = <<>>
  <2>1. <<>> \in Seq(Byte) /\ <<>> \in Seq(Seq(Byte))
    OBVIOUS
  <2>2. FlattenSeq(<<>>) = <<>>
    BY DEF FlattenSeq
  <2>3. FlattenSeq(<< <<>> >> \o <<>>) = <<>> \o FlattenSeq(<<>>)
    BY <2>1, FlatCons
  <2> QED BY <1>5, <2>2, <2>3
<1>7. /\ b \in AppType /\ b.is_eof /\ b.write_buf = <<>> /\ b.read = app.read
  BY <1>2, <1>4 DEF AppType
<1> HIDE DEF b
<1>8. /\ app' \in AppType /\ app'.pc = "idle" /\ app'.write_buf = <<>> /\ app'.read = app.read
  BY <1>1, <1>7, Returned
<1>9. /\ PcbInv(pcb', wire') /\ Near(pcb') /\ Forward /\ pcb'.state = pcb.state
      /\ Received' = Received /\ Finned' = Finned
  BY <1>1, ConnectionSame
<1>10. StreamInv'
  BY <1>1, <1>4, <1>6, <1>8, <1>9 DEF RecvInv, StreamInv
<1>11. app.read = env.total
  <2>1. Received = app.read + Len(app.write_buf) + Len(FlattenSeq(read_rx))
        /\ Received = env.total
    BY <1>4 DEF RecvInv, StreamInv
  <2>2. Len(<<>>) = 0
    OBVIOUS
  <2> QED BY <1>2, <1>4, <1>6, <2>1, <2>2
<1>12. ReaderInv'
  <2>1. \A i \in 1 .. Len(read_rx') : FALSE
    BY <1>5
  <2> QED BY <1>1, <1>4, <1>5, <1>8, <1>9, <1>11, <2>1 DEF ReaderInv
<1>13. read_rx' \in Seq(Seq(Byte))
  BY <1>5
<1> QED BY <1>1, <1>8, <1>9, <1>10, <1>12, <1>13, ReaderStep

\* The channel is empty.
LEMMA ReadEmptyInv == ASSUME RecvInv, ReadEmpty PROVE RecvInv' /\ Forward
<1> DEFINE b == [app EXCEPT !.ended = ~app.has_read /\ app.is_eof]
<1>1. /\ app.pc = "reading" /\ read_rx = <<>> /\ app' = Return(b)
      /\ UNCHANGED <<pcb, read_rx, wire, failed, env>>
  BY DEF ReadEmpty
<1>2. app \in AppType /\ read_rx \in Seq(Seq(Byte)) /\ app.read \in Nat
  BY ReaderFacts
<1>3. app.write_buf = <<>> /\ (app.is_eof => Finned)
  BY <1>1 DEF RecvInv, ReaderInv
<1>4. /\ b \in AppType /\ b.is_eof = app.is_eof /\ b.write_buf = <<>> /\ b.read = app.read
      /\ b.ended => app.is_eof
  <2>1. (~app.has_read /\ app.is_eof) \in BOOLEAN
    BY <1>2 DEF AppType
  <2>2. b.ended = (~app.has_read /\ app.is_eof)
    BY <1>2 DEF AppType
  <2> QED BY <1>2, <1>3, <2>1, <2>2 DEF AppType
<1> HIDE DEF b
<1>5. /\ app' \in AppType /\ app'.pc = "idle" /\ app'.write_buf = <<>> /\ app'.read = app.read
      /\ app'.is_eof = app.is_eof /\ (app'.ended => app.is_eof)
  BY <1>1, <1>4, Returned
<1>6. /\ PcbInv(pcb', wire') /\ Near(pcb') /\ Forward /\ pcb'.state = pcb.state
      /\ Received' = Received /\ Finned' = Finned
  BY <1>1, ConnectionSame
<1>7. StreamInv'
  BY <1>1, <1>3, <1>5, <1>6 DEF RecvInv, StreamInv
<1>8. Finned => app.read = env.total
  <2>1. /\ Received = app.read + Len(app.write_buf) + Len(FlattenSeq(read_rx))
        /\ (Finned => Received = env.total)
    BY DEF RecvInv, StreamInv
  <2>2. FlattenSeq(read_rx) = <<>> /\ Len(<<>>) = 0
    BY <1>1 DEF FlattenSeq
  <2> QED BY <1>2, <1>3, <2>1, <2>2
<1>9. ReaderInv'
  <2>1. \A i \in 1 .. Len(read_rx') : FALSE
    BY <1>1
  <2> QED BY <1>1, <1>3, <1>5, <1>6, <1>8, <2>1 DEF ReaderInv
<1> QED BY <1>1, <1>2, <1>5, <1>6, <1>7, <1>9, ReaderStep

LEMMA InitInv == ASSUME Init PROVE RecvInv
<1>1. /\ pcb = [state |-> "ESTABLISHED", rcv_nxt |-> 0, rcv_wnd |-> WND, rcv_ann_wnd |-> WND,
                ann_right_edge |-> WND, delay |-> FALSE, now |-> FALSE, ooseq |-> <<>>]
      /\ read_rx = <<>> /\ wire = [ack |-> 0, edge |-> WND] /\ failed = FALSE
      /\ app = [pc |-> "idle", room |-> 0, has_read |-> FALSE, write_buf |-> <<>>,
                is_eof |-> FALSE, read |-> 0, ended |-> FALSE]
      /\ env \in Env
  BY DEF Init, Env
<1>2. WND \in Nat /\ MaxBytes \in Nat /\ MaxRead \in Nat /\ Threshold \in Nat /\ Threshold > 0
  BY ReceiveAssumption
<1>3. pcb \in PcbType /\ RightEdge(pcb) = WND /\ pcb.ann_right_edge = WND
  <2>1. <<>> \in Seq(Seg)
    OBVIOUS
  <2> QED BY <1>1, <1>2, <2>1 DEF PcbType, RightEdge
<1>4. wire \in WireType /\ app \in AppType /\ read_rx \in Seq(Seq(Byte))
  <2>1. <<>> \in Seq(Byte) /\ <<>> \in Seq(Seq(Byte)) /\ 0 \in Byte
    BY <1>2 DEF Byte
  <2> QED BY <1>1, <1>2, <2>1 DEF WireType, AppType
<1>5. Queue(pcb.ooseq, pcb.rcv_nxt, RightEdge(pcb))
  <2>1. pcb.ooseq = <<>> /\ <<>> \in Seq(Seg) /\ \A i \in 1 .. Len(<<>>) : FALSE
    BY <1>1
  <2> QED BY <2>1 DEF Queue, Chain
<1>6. PcbInv(pcb, wire) /\ Near(pcb)
  BY <1>1, <1>2, <1>3, <1>4, <1>5 DEF PcbInv, Near
<1>7. StreamInv
  <2>1. FlattenSeq(<<>>) = <<>> /\ Len(<<>>) = 0
    BY DEF FlattenSeq
  <2>2. Bytes(<<>>, 0)
    BY DEF Bytes
  <2>3. Received = 0 /\ ~Finned /\ env.total \in Nat
    BY <1>1 DEF Received, Finned, Env
  <2> QED BY <1>1, <1>2, <2>1, <2>2, <2>3 DEF StreamInv
<1>8. ReaderInv
  BY <1>1 DEF ReaderInv
<1> QED BY <1>1, <1>4, <1>6, <1>7, <1>8 DEF RecvInv

LEMMA StepInv == ASSUME RecvInv, [Next]_vars PROVE RecvInv' /\ [Forward]_vars
<1>1. ASSUME NEW s \in Segments, InputNoText(s) PROVE RecvInv' /\ Forward
  BY <1>1, NoTextInv
<1>2. ASSUME NEW s \in Segments, InputOutside(s) PROVE RecvInv' /\ Forward
  BY <1>2, OutsideInv
<1>3. ASSUME NEW s \in Segments, InputOutOfOrder(s) PROVE RecvInv' /\ Forward
  BY <1>3, OutOfOrderInv
<1>4. ASSUME NEW s \in Segments, InputInOrder(s) PROVE RecvInv' /\ Forward
  BY <1>4, InOrderInv
<1>5. CASE FastTmr
  BY <1>5, FastTmrInv
<1>6. CASE SendData
  BY <1>6, SendDataInv
<1>7. ASSUME NEW k \in 1 .. MaxRead, PollRead(k) PROVE RecvInv' /\ Forward
  BY <1>7, PollReadInv
<1>8. CASE ReadChunk
  BY <1>8, ReadChunkInv
<1>9. CASE ReadEof
  BY <1>9, ReadEofInv
<1>10. CASE ReadEmpty
  BY <1>10, ReadEmptyInv
<1>11. CASE UNCHANGED vars
  <2>1. UNCHANGED <<pcb, read_rx, app, wire, failed, env>>
    BY <1>11 DEF vars
  <2>2. RecvInv'
    BY <2>1, InvFacts, QuietStep
  <2> QED BY <1>11, <2>2
<1> QED
  BY <1>1, <1>2, <1>3, <1>4, <1>5, <1>6, <1>7, <1>8, <1>9, <1>10, <1>11 DEF Next, Input

LEMMA Invariance == Spec => []RecvInv
<1>1. Init => RecvInv
  BY InitInv
<1>2. RecvInv /\ [Next]_vars => RecvInv'
  BY StepInv
<1> QED BY <1>1, <1>2, PTL DEF Spec

-------------------------------------------------------------------------------
(* What follows. *)

\* Types; rcv_ann_wnd, an unsigned number, never wraps below zero.
THEOREM ReceiveTypes == Spec => []TypeOK
<1>1. RecvInv => TypeOK
  <2> SUFFICES ASSUME RecvInv PROVE TypeOK
    OBVIOUS
  <2>1. pcb \in PcbType /\ wire \in WireType /\ env \in Env
    BY InvFacts
  <2>2. read_rx \in Seq(Seq(Byte)) /\ app \in AppType /\ failed \in BOOLEAN
    BY DEF RecvInv
  <2> QED BY <2>1, <2>2 DEF TypeOK, PcbType, WireType, Env, AppType, Seg, Byte
<1> QED BY <1>1, Invariance, PTL

\* Every byte acknowledged is read, or waits to be, once and in the order of the
\* stream, however the segments were cut, lost, repeated or reordered; the end is
\* told after the last byte.
THEOREM StreamArrives == Spec => []StreamInOrder
<1>1. RecvInv => StreamInOrder
  <2> SUFFICES ASSUME RecvInv PROVE StreamInOrder
    OBVIOUS
  <2> DEFINE w == app.write_buf
             x == FlattenSeq(read_rx)
             f == app.read
             m == Len(w) + Len(x)
  <2>1. /\ Bytes(w, f) /\ Bytes(x, f + Len(w)) /\ Received = f + Len(w) + Len(x)
        /\ Received <= env.total /\ (Finned => Received = env.total)
    BY DEF RecvInv, StreamInv
  <2>2. /\ f \in Nat /\ w \in Seq(Byte) /\ x \in Seq(Byte) /\ Len(w) \in Nat /\ Len(x) \in Nat
        /\ read_rx \in Seq(Seq(Byte))
    BY ReaderFacts
  <2>3. Unread = w \o x
    BY <2>2, FlatCons DEF Unread
  <2> HIDE DEF w, x, f
  <2>4. Bytes(w \o x, f) /\ Len(w \o x) = m
    BY <2>1, <2>2, BytesConcat
  <2>5. w \o x = [i \in 1 .. m |-> f + i - 1]
    <3> DEFINE b == w \o x
    <3>1. b \in Seq(Byte) /\ Len(b) = m /\ \A i \in 1 .. m : b[i] = f + i - 1
      BY <2>4 DEF Bytes
    <3> HIDE DEF b, m
    <3>2. b = [i \in 1 .. Len(b) |-> b[i]]
      BY <3>1
    <3> QED BY <3>1, <3>2 DEF b
  <2>6. Received - f = m
    BY <2>1, <2>2
  <2>7. Unread = [i \in 1 .. (Received - app.read) |-> app.read + i - 1]
    <3> HIDE DEF m
    <3> QED BY <2>3, <2>5, <2>6 DEF f
  <2>8. app.ended => Finned /\ app.read = env.total
    BY DEF RecvInv, ReaderInv
  <2> QED BY <2>1, <2>7, <2>8 DEF StreamInOrder
<1> QED BY <1>1, Invariance, PTL

\* The peer is never promised room that is not there, the channel holds what the
\* window says, and a peer that counts its FIN as a byte cannot make the
\* assertions on the window fail.
THEOREM WindowIsHonest == Spec => []WindowHonest
<1>1. RecvInv => WindowHonest
  <2> SUFFICES ASSUME RecvInv PROVE WindowHonest
    OBVIOUS
  <2>1. WindowEquation
    <3>1. /\ read_rx \in Seq(Seq(Byte)) /\ FlattenSeq(read_rx) \in Seq(Byte)
          /\ pcb.rcv_wnd = WND - Len(FlattenSeq(read_rx))
      BY ReaderFacts
    <3>2. <<>> \in Seq(Byte)
      OBVIOUS
    <3>3. FlattenSeq(<< <<>> >> \o read_rx) = <<>> \o FlattenSeq(read_rx)
      BY <3>1, <3>2, FlatCons
    <3>4. <<>> \o FlattenSeq(read_rx) = FlattenSeq(read_rx)
      BY <3>1
    <3> QED BY <3>1, <3>3, <3>4 DEF WindowEquation
  <2>2. EdgeHonest
    BY InvFacts DEF EdgeHonest, Numbers, RecvInv
  <2> QED BY <2>1, <2>2 DEF WindowHonest
<1> QED BY <1>1, Invariance, PTL

\* Where nothing fails, the peer knows a window that is open enough once all is
\* read, and no acknowledgement that is owed is forgotten.
THEOREM PeerLearns == Spec => []PeerIsTold
<1>1. RecvInv => PeerIsTold
  <2> SUFFICES ASSUME RecvInv PROVE PeerIsTold
    OBVIOUS
  <2>1. PcbInv(pcb, wire) /\ Near(pcb) /\ pcb \in PcbType
    BY InvFacts
  <2>2. AckScheduled
    BY <2>1 DEF AckScheduled, PcbInv
  <2>3. ASSUME env.plenty, ~Finned, read_rx = <<>>
        PROVE  wire.edge - pcb.rcv_nxt > WND - Threshold
    <3>1. RightEdge(pcb) - pcb.ann_right_edge < Threshold
      BY <2>1, <2>3, PcbFacts DEF Near, Finned
    <3>2. wire.edge = pcb.ann_right_edge
      BY <2>1, <2>3 DEF PcbInv
    <3>3. pcb.rcv_wnd = WND
      <4>1. FlattenSeq(read_rx) = <<>> /\ Len(<<>>) = 0
        BY <2>3 DEF FlattenSeq
      <4> QED BY <4>1, ReaderFacts
    <3>4. /\ pcb.rcv_nxt \in Nat /\ pcb.ann_right_edge \in Nat /\ WND \in Nat /\ Threshold \in Nat
          /\ RightEdge(pcb) = pcb.rcv_nxt + pcb.rcv_wnd
      BY <2>1, PcbFacts, ReceiveAssumption
    <3> QED BY <3>1, <3>2, <3>3, <3>4
  <2> QED BY <2>2, <2>3 DEF PeerIsTold, WindowReopens
<1> QED BY <1>1, Invariance, PTL

\* The right edge of the window, once announced, is not taken back.
THEOREM EdgeMovesForward == Spec => EdgeNeverShrinks
<1>1. RecvInv /\ [Next]_vars =>
        [wire'.edge >= wire.edge /\ pcb'.ann_right_edge >= pcb.ann_right_edge]_vars
  BY StepInv DEF Forward
<1> QED BY <1>1, Invariance, PTL DEF Spec, EdgeNeverShrinks
===============================================================================
