--------------------------- MODULE ReassemblyProofs ---------------------------
(***************************************************************************)
(* Reassembly for any number and sizes of datagrams, any limits and any    *)
(* order of arrival: what the queue holds, what is counted, and what is    *)
(* passed up.                                                              *)
(***************************************************************************)
EXTENDS Reassembly, FiniteSetTheorems, SequenceTheorems, WellFoundedInduction, TLAPS

-------------------------------------------------------------------------------
(* The inductive invariant. *)

\* The fragments kept are in order and do not overlap.
Ordered(frags) ==
  \A i \in DOMAIN frags :
    /\ frags[i].start < frags[i].end
    /\ \A j \in DOMAIN frags : i < j => frags[i].end <= frags[j].start

\* The length is known from a last fragment, or not at all.
LenKnown(r) ==
  IF r.datagram_len = 0 THEN \A j \in DOMAIN r.frags : r.frags[j].more
  ELSE \E j \in DOMAIN r.frags : ~r.frags[j].more /\ r.frags[j].end = r.datagram_len

\* Where identifications are not reused too soon, all are fragments of the last
\* datagram that has this one.
OneDatagram(r) ==
  unique => \A j \in DOMAIN r.frags : /\ r.frags[j].d \in OnTheWay /\ Id(r.frags[j].d) = r.id
                                      /\ r.frags[j] \in Fragments(r.frags[j].d)

\* IPv4: what has its end and no hole was passed up.
Waits(r) == ip = 4 /\ r.frags # <<>> => ~(r.datagram_len # 0 /\ Contiguous(r.frags))

Sound == {r \in Reassdata : Ordered(r.frags) /\ LenKnown(r) /\ OneDatagram(r) /\ Waits(r)}

Distinct(q) == \A i, j \in DOMAIN q : q[i].id = q[j].id => i = j

States == [queue : Seq(Reassdata), count : Int]

\* In the course of a step; X is the identification whose reassembly may be empty.
StateInv(st, X) ==
  /\ st \in States
  /\ st.queue \in Seq(Sound) /\ Distinct(st.queue) /\ Len(st.queue) <= MEMP_NUM_REASSDATA
  /\ \A i \in DOMAIN st.queue : st.queue[i].frags = <<>> => st.queue[i].id \in X
  /\ st.count = PbufsOf(st.queue) /\ st.count \in 0 .. IP_REASS_MAX_PBUFS

Whole(r) ==
  /\ r.datagram_len = sent[r.frags[1].d][1] /\ Last(r.frags).end = r.datagram_len
  /\ \A i \in DOMAIN r.frags : r.frags[i].d = r.frags[1].d

UpInv ==
  up = Null \/ /\ up \in Reassdata
               /\ ip = 4 => Contiguous(up.frags) /\ (unique => Whole(up))

Params ==
  /\ ip \in {4, 6} /\ id_space \in IdSpaces /\ unique \in BOOLEAN
  /\ sent \in Seq(Sizes) /\ Len(sent) <= MaxDgrams

ReassInv == Params /\ StateInv(State, {}) /\ UpInv

-------------------------------------------------------------------------------
(* Numbers and sequences. *)

LEMMA LeastNumber ==
  ASSUME NEW S \in SUBSET Nat, S # {}
  PROVE  \E i \in S : \A j \in S : i <= j
<1> DEFINE R == OpToRel(<, Nat)
<1>1. IsWellFoundedOn(R, Nat)
  BY NatLessThanWellFounded
<1>2. \A i, j \in Nat : <<i, j>> \in R <=> i < j
  BY DEF OpToRel
<1> HIDE DEF R
<1>3. PICK i \in S : \A j \in S : ~(<<j, i>> \in R)
  BY <1>1, WFMin
<1>4. \A j \in S : ~(j < i)
  BY <1>2, <1>3
<1> QED
  BY <1>4

LEMMA MinFacts ==
  ASSUME NEW S \in SUBSET Nat, S # {}
  PROVE  Min(S) \in S /\ \A j \in S : Min(S) <= j
<1>1. \E i \in S : \A j \in S : i <= j
  BY LeastNumber
<1> QED
  BY <1>1 DEF Min

LEMMA MaxFacts ==
  ASSUME NEW n \in Nat, NEW S \in SUBSET (1 .. n), S # {}
  PROVE  Max(S) \in S /\ \A j \in S : Max(S) >= j
<1> DEFINE D == {n - i : i \in S}
<1>1. D \in SUBSET Nat /\ D # {}
  <2>1. D \in SUBSET Nat
    OBVIOUS
  <2>2. PICK i \in S : TRUE
    OBVIOUS
  <2>3. n - i \in D
    OBVIOUS
  <2> QED
    BY <2>1, <2>3
<1>2. PICK d \in D : \A e \in D : d <= e
  <2> HIDE DEF D
  <2> QED
    BY <1>1, LeastNumber
<1>3. PICK i \in S : d = n - i
  OBVIOUS
<1>4. \A j \in S : n - i <= n - j
  BY <1>2, <1>3
<1>5. \A j \in S : i >= j
  BY <1>4
<1>6. \E m \in S : \A j \in S : m >= j
  BY <1>5
<1> QED
  BY <1>6 DEF Max

LEMMA Removed ==
  ASSUME NEW S, NEW q \in Seq(S), NEW i \in DOMAIN q
  PROVE  LET t == RemoveAt(q, i)
         IN  /\ t \in Seq(S) /\ Len(t) = Len(q) - 1
             /\ \A j \in 1 .. Len(q) - 1 : t[j] = IF j < i THEN q[j] ELSE q[j + 1]
<1>1. i \in 1 .. Len(q) /\ Len(q) \in Nat
  OBVIOUS
<1> DEFINE a == SubSeq(q, 1, i - 1)
           b == SubSeq(q, i + 1, Len(q))
<1>2. a \in Seq(S) /\ Len(a) = i - 1 /\ \A j \in 1 .. i - 1 : a[j] = q[j]
  BY <1>1
<1>3. b \in Seq(S) /\ Len(b) = Len(q) - i /\ \A j \in 1 .. Len(q) - i : b[j] = q[i + j]
  BY <1>1
<1>4. RemoveAt(q, i) = a \o b
  BY DEF RemoveAt
<1> HIDE DEF a, b
<1>5. /\ a \o b \in Seq(S) /\ Len(a \o b) = Len(q) - 1
      /\ \A j \in 1 .. Len(q) - 1 : (a \o b)[j] = IF j < i THEN a[j] ELSE b[j - (i - 1)]
  <2>1. a \o b \in Seq(S) /\ Len(a \o b) = Len(a) + Len(b)
    BY <1>2, <1>3, ConcatProperties
  <2>2. \A j \in 1 .. Len(a) + Len(b) :
          (a \o b)[j] = IF j <= Len(a) THEN a[j] ELSE b[j - Len(a)]
    BY <1>2, <1>3, ConcatProperties
  <2>3. Len(a) + Len(b) = Len(q) - 1 /\ Len(a) = i - 1 /\ \A j \in Nat : j <= i - 1 <=> j < i
    BY <1>1, <1>2, <1>3
  <2> QED
    BY <2>1, <2>2, <2>3
<1>6. ASSUME NEW j \in 1 .. Len(q) - 1 PROVE (a \o b)[j] = IF j < i THEN q[j] ELSE q[j + 1]
  <2>1. CASE j < i
    BY <1>1, <1>2, <1>5, <2>1
  <2>2. CASE ~(j < i)
    <3>1. j - (i - 1) \in 1 .. Len(q) - i /\ i + (j - (i - 1)) = j + 1
      BY <1>1, <2>2
    <3> QED
      BY <1>3, <1>5, <2>2, <3>1
  <2> QED
    BY <2>1, <2>2
<1> QED
  BY <1>4, <1>5, <1>6

LEMMA InsertedSeq ==
  ASSUME NEW S, NEW s \in Seq(S), NEW p \in 1 .. Len(s) + 1, NEW e \in S
  PROVE  LET t == InsertAt(s, p, e)
         IN  /\ t \in Seq(S) /\ Len(t) = Len(s) + 1
             /\ \A j \in 1 .. Len(s) + 1 :
                  t[j] = IF j < p THEN s[j] ELSE IF j = p THEN e ELSE s[j - 1]
<1>1. p \in Nat /\ p >= 1 /\ p <= Len(s) + 1 /\ Len(s) \in Nat
  OBVIOUS
<1> DEFINE a == SubSeq(s, 1, p - 1)
           b == SubSeq(s, p, Len(s))
<1>2. a \in Seq(S) /\ Len(a) = p - 1 /\ \A j \in 1 .. p - 1 : a[j] = s[j]
  BY <1>1
<1>3. b \in Seq(S) /\ Len(b) = Len(s) + 1 - p /\ \A j \in 1 .. Len(b) : b[j] = s[p - 1 + j]
  BY <1>1
<1>4. InsertAt(s, p, e) = a \o <<e>> \o b
  BY DEF InsertAt
<1> HIDE DEF a, b
<1> DEFINE c == a \o <<e>>
<1>5. c \in Seq(S) /\ Len(c) = p /\ \A j \in 1 .. p : c[j] = IF j < p THEN s[j] ELSE e
  BY <1>1, <1>2
<1> HIDE DEF c
<1>6. /\ c \o b \in Seq(S) /\ Len(c \o b) = Len(s) + 1
      /\ \A j \in 1 .. Len(s) + 1 : (c \o b)[j] = IF j <= p THEN c[j] ELSE b[j - p]
  <2>1. c \o b \in Seq(S) /\ Len(c \o b) = Len(c) + Len(b)
    BY <1>3, <1>5, ConcatProperties
  <2>2. \A j \in 1 .. Len(c) + Len(b) :
          (c \o b)[j] = IF j <= Len(c) THEN c[j] ELSE b[j - Len(c)]
    BY <1>3, <1>5, ConcatProperties
  <2>3. Len(c) + Len(b) = Len(s) + 1
    BY <1>1, <1>3, <1>5
  <2> QED
    BY <1>5, <2>1, <2>2, <2>3
<1>7. ASSUME NEW j \in 1 .. Len(s) + 1
      PROVE  (c \o b)[j] = IF j < p THEN s[j] ELSE IF j = p THEN e ELSE s[j - 1]
  <2>1. CASE j <= p
    BY <1>1, <1>5, <1>6, <2>1
  <2>2. CASE ~(j <= p)
    <3>1. j - p \in 1 .. Len(b) /\ p - 1 + (j - p) = j - 1
      BY <1>1, <1>3, <2>2
    <3> QED
      BY <1>3, <1>6, <2>2, <3>1
  <2> QED
    BY <2>1, <2>2
<1>8. InsertAt(s, p, e) = c \o b
  BY <1>4 DEF c
<1> QED
  BY <1>6, <1>7, <1>8

-------------------------------------------------------------------------------
(* FoldLeft: a recursive function over the subsets of the positions. *)

\* c picks a member, and g is defined by what k makes of the rest.
Picks(c, Q) == \A s \in SUBSET Q : s # {} => c[s] \in s
FoldOf(g, Q, base, c, k) ==
  \A s \in SUBSET Q : g[s] = IF s = {} THEN base ELSE k[s][g[s \ {c[s]}]]

\* Such a function exists.
LEMMA FoldExists ==
  ASSUME NEW Q, IsFiniteSet(Q), NEW V, NEW base \in V, NEW c, NEW k \in [SUBSET Q -> [V -> V]],
         Picks(c, Q)
  PROVE  \E g \in [SUBSET Q -> V] : FoldOf(g, Q, base, c, k)
<1> USE DEF Picks, FoldOf
<1> DEFINE Up(n) == {s \in SUBSET Q : Cardinality(s) <= n}
           Def(g, n) == \A s \in Up(n) : g[s] = IF s = {} THEN base ELSE k[s][g[s \ {c[s]}]]
           Bad == {n \in Nat : ~\E g \in [Up(n) -> V] : Def(g, n)}
<1>1. \A s \in SUBSET Q : IsFiniteSet(s) /\ Cardinality(s) \in Nat
                          /\ Cardinality(s) <= Cardinality(Q)
  BY FS_Subset, FS_CardinalityType
<1>2. ASSUME Bad # {} PROVE FALSE
  <2>1. PICK n \in Bad : \A m \in Bad : n <= m
    <3>1. Bad \in SUBSET Nat
      OBVIOUS
    <3> HIDE DEF Bad
    <3> QED
      BY <1>2, <3>1, LeastNumber
  <2>2. n \in Nat /\ ~\E g \in [Up(n) -> V] : Def(g, n)
    BY <2>1
  <2>3. n # 0
    <3> DEFINE g == [s \in Up(0) |-> base]
    <3>1. \A s \in Up(0) : s = {}
      BY <1>1, FS_EmptySet
    <3>2. g \in [Up(0) -> V] /\ Def(g, 0)
      BY <3>1
    <3>3. \E j \in [Up(0) -> V] : Def(j, 0)
      BY <3>2
    <3> HIDE DEF Up, Def, g
    <3> QED
      BY <2>2, <3>3
  <2>4. n - 1 \in Nat /\ ~(n <= n - 1)
    BY <2>2, <2>3
  <2>5. PICK g \in [Up(n - 1) -> V] : Def(g, n - 1)
    BY <2>1, <2>4
  <2> DEFINE h == [s \in Up(n) |-> IF s = {} THEN base ELSE k[s][g[s \ {c[s]}]]]
  <2>6. \A s \in Up(n) : s # {} => s \ {c[s]} \in Up(n - 1)
    <3> TAKE s \in Up(n)
    <3>1. ASSUME s # {} PROVE s \ {c[s]} \in Up(n - 1)
      <4>1. Cardinality(s \ {c[s]}) = Cardinality(s) - 1
        BY <1>1, <3>1, FS_RemoveElement
      <4> QED
        BY <1>1, <2>2, <4>1
    <3> QED
      BY <3>1
  <2>7. Up(n - 1) \subseteq Up(n)
    BY <1>1, <2>2
  <2>8. \A s \in Up(n - 1) : h[s] = g[s]
    BY <2>5, <2>7
  <2>9. h \in [Up(n) -> V]
    <3>1. ASSUME NEW s \in Up(n), s # {} PROVE k[s][g[s \ {c[s]}]] \in V
      <4>1. g[s \ {c[s]}] \in V
        <5>1. s \ {c[s]} \in Up(n - 1)
          BY <2>6, <3>1
        <5> HIDE DEF Up
        <5> QED
          BY <2>5, <5>1
      <4> QED
        BY <4>1
    <3> QED
      BY <3>1
  <2>10. Def(h, n)
    <3> TAKE s \in Up(n)
    <3>1. s # {} => h[s \ {c[s]}] = g[s \ {c[s]}]
      BY <2>6, <2>8
    <3> QED
      BY <3>1
  <2> HIDE DEF h
  <2> QED
    BY <2>2, <2>9, <2>10
<1>3. Cardinality(Q) \in Nat
  BY FS_CardinalityType
<1>4. PICK g \in [Up(Cardinality(Q)) -> V] : Def(g, Cardinality(Q))
  BY <1>2, <1>3
<1>5. Up(Cardinality(Q)) = SUBSET Q
  BY <1>1
<1>6. g \in [SUBSET Q -> V]
      /\ \A s \in SUBSET Q : g[s] = IF s = {} THEN base ELSE k[s][g[s \ {c[s]}]]
  BY <1>4, <1>5
<1> QED
  BY <1>6

\* The positions up to j.
LEMMA Prefix ==
  ASSUME NEW n \in Nat, NEW j \in 1 .. n
  PROVE  /\ 1 .. j \in SUBSET (1 .. n) /\ 1 .. j # {}
         /\ Max(1 .. j) = j /\ (1 .. j) \ {Max(1 .. j)} = 1 .. j - 1
         /\ j - 1 \in 0 .. n /\ j \in Nat
<1>1. 1 .. j \in SUBSET (1 .. n) /\ j \in 1 .. j /\ j - 1 \in 0 .. n /\ j \in Nat
  OBVIOUS
<1>2. Max(1 .. j) \in 1 .. j /\ Max(1 .. j) >= j
  BY <1>1, MaxFacts
<1>3. Max(1 .. j) = j
  BY <1>1, <1>2
<1> QED
  BY <1>1, <1>3

LEMMA LargestOf ==
  ASSUME NEW n \in Nat
  PROVE  LET c == [s \in SUBSET (1 .. n) |-> Max(s)]
         IN  \A s \in SUBSET (1 .. n) : s # {} => c[s] = Max(s) /\ Max(s) \in s /\ Max(s) \in 1 .. n
BY MaxFacts

LEMMA SeqFacts ==
  ASSUME NEW S, NEW q \in Seq(S)
  PROVE  Len(q) \in Nat /\ DOMAIN q = 1 .. Len(q) /\ IsFiniteSet(DOMAIN q)
         /\ \A i \in 1 .. Len(q) : q[i] \in S
<1>1. Len(q) \in Nat /\ DOMAIN q = 1 .. Len(q)
  OBVIOUS
<1>2. IsFiniteSet(1 .. Len(q))
  BY <1>1, FS_Interval
<1> QED
  BY <1>1, <1>2

LEMMA FragsFacts ==
  ASSUME NEW r \in Reassdata
  PROVE  r.frags \in Seq(Fragment) /\ Len(r.frags) \in Nat /\ DOMAIN r.frags = 1 .. Len(r.frags)
BY DEF Reassdata

-------------------------------------------------------------------------------
(* The pbufs of a queue, as the last of the sums over its beginnings. *)

Sums(q, S) ==
  /\ S \in [0 .. Len(q) -> Int] /\ S[0] = 0
  /\ \A j \in 1 .. Len(q) : S[j] = S[j - 1] + Len(q[j].frags)

\* One of the recursive functions that FoldLeft means here.
SumsUp(g, q) ==
  g = [s \in SUBSET (DOMAIN q) |->
         IF s = {} THEN 0 ELSE g[s \ {Max(s)}] + Len(q[Max(s)].frags)]

LEMMA SumsUpExists ==
  ASSUME NEW q \in Seq(Reassdata)
  PROVE  \E g \in [SUBSET (DOMAIN q) -> Int] : SumsUp(g, q)
<1> DEFINE c == [s \in SUBSET (DOMAIN q) |-> Max(s)]
           k == [s \in SUBSET (DOMAIN q) |->
                   [v \in Int |-> IF s = {} THEN 0 ELSE v + Len(q[Max(s)].frags)]]
<1>1. Len(q) \in Nat /\ DOMAIN q = 1 .. Len(q) /\ IsFiniteSet(DOMAIN q)
  BY SeqFacts
<1>2. \A s \in SUBSET (DOMAIN q) : s # {} => c[s] = Max(s) /\ Max(s) \in s /\ Max(s) \in 1 .. Len(q)
  BY <1>1, LargestOf
<1>3. \A s \in SUBSET (DOMAIN q) : s # {} => Len(q[Max(s)].frags) \in Int
  BY <1>2, SeqFacts, FragsFacts
<1>4. k \in [SUBSET (DOMAIN q) -> [Int -> Int]]
  BY <1>3
<1>5. \A s \in SUBSET (DOMAIN q), v \in Int : s # {} => k[s][v] = v + Len(q[Max(s)].frags)
  OBVIOUS
<1> HIDE DEF c, k
<1>6. PICK g \in [SUBSET (DOMAIN q) -> Int] : FoldOf(g, DOMAIN q, 0, c, k)
  <2>1. Picks(c, DOMAIN q)
    BY <1>2 DEF Picks
  <2>2. 0 \in Int
    OBVIOUS
  <2> QED
    BY <1>1, <1>4, <2>1, <2>2, FoldExists
<1>7. \A s \in SUBSET (DOMAIN q) :
        g[s] = IF s = {} THEN 0 ELSE g[s \ {Max(s)}] + Len(q[Max(s)].frags)
  <2> TAKE s \in SUBSET (DOMAIN q)
  <2>1. ASSUME s # {} PROVE g[s] = g[s \ {Max(s)}] + Len(q[Max(s)].frags)
    <3>1. g[s] = k[s][g[s \ {Max(s)}]]
      BY <1>2, <1>6, <2>1 DEF FoldOf
    <3>2. g[s \ {Max(s)}] \in Int
      BY <1>6
    <3> QED
      BY <1>5, <2>1, <3>1, <3>2
  <2> QED
    BY <1>6, <2>1 DEF FoldOf
<1> QED
  BY <1>6, <1>7 DEF SumsUp

LEMMA SumsExist ==
  ASSUME NEW q \in Seq(Reassdata)
  PROVE  \E S : Sums(q, S)
<1>1. PICK g \in [SUBSET (DOMAIN q) -> Int] : SumsUp(g, q)
  BY SumsUpExists
<1>2. Len(q) \in Nat /\ DOMAIN q = 1 .. Len(q)
  BY SeqFacts
<1> DEFINE S == [j \in 0 .. Len(q) |-> g[1 .. j]]
<1>3. S[0] = 0
  <2>1. 1 .. 0 = {} /\ {} \in SUBSET (DOMAIN q) /\ 0 \in 0 .. Len(q)
    BY <1>2
  <2> QED
    BY <1>1, <2>1 DEF SumsUp
<1>4. ASSUME NEW j \in 1 .. Len(q) PROVE S[j] = S[j - 1] + Len(q[j].frags)
  <2>1. /\ 1 .. j \in SUBSET (DOMAIN q) /\ 1 .. j # {} /\ Max(1 .. j) = j
        /\ (1 .. j) \ {Max(1 .. j)} = 1 .. j - 1 /\ j - 1 \in 0 .. Len(q) /\ j \in 0 .. Len(q)
    BY <1>2, Prefix
  <2>2. g[1 .. j] = g[(1 .. j) \ {Max(1 .. j)}] + Len(q[Max(1 .. j)].frags)
    BY <1>1, <2>1 DEF SumsUp
  <2> QED
    BY <2>1, <2>2
<1>5. S \in [0 .. Len(q) -> Int]
  <2>1. \A j \in 0 .. Len(q) : 1 .. j \in SUBSET (DOMAIN q)
    BY <1>2
  <2> QED
    BY <1>1, <2>1
<1> QED
  BY <1>3, <1>4, <1>5 DEF Sums

LEMMA PbufsAreSum ==
  ASSUME NEW q \in Seq(Reassdata), NEW S, Sums(q, S)
  PROVE  PbufsOf(q) = S[Len(q)]
<1> DEFINE k == CHOOSE g : SumsUp(g, q)
<1>1. PbufsOf(q) = k[DOMAIN q]
  BY DEF PbufsOf, FoldLeft, MapThenFoldSet, SumsUp
<1>2. SumsUp(k, q)
  BY SumsUpExists
<1> HIDE DEF k
<1>3. Len(q) \in Nat /\ DOMAIN q = 1 .. Len(q)
  BY SeqFacts
<1> DEFINE Bad == {j \in 0 .. Len(q) : k[1 .. j] # S[j]}
<1>4. ASSUME Bad # {} PROVE FALSE
  <2>1. PICK j \in Bad : \A i \in Bad : j <= i
    <3>1. Bad \in SUBSET Nat
      BY <1>3
    <3> HIDE DEF Bad
    <3> QED
      BY <1>4, <3>1, LeastNumber
  <2>2. j \in 0 .. Len(q) /\ k[1 .. j] # S[j]
    BY <2>1
  <2>3. j # 0
    <3>1. 1 .. 0 = {} /\ {} \in SUBSET (DOMAIN q)
      BY <1>3
    <3>2. k[1 .. 0] = 0
      BY <1>2, <3>1 DEF SumsUp
    <3> QED
      BY <2>2, <3>2 DEF Sums
  <2>4. j \in 1 .. Len(q)
    BY <1>3, <2>2, <2>3
  <2>5. /\ 1 .. j \in SUBSET (DOMAIN q) /\ 1 .. j # {} /\ Max(1 .. j) = j
        /\ (1 .. j) \ {Max(1 .. j)} = 1 .. j - 1 /\ j - 1 \in 0 .. Len(q)
    BY <1>3, <2>4, Prefix
  <2>6. k[1 .. j] = k[(1 .. j) \ {Max(1 .. j)}] + Len(q[Max(1 .. j)].frags)
    BY <1>2, <2>5 DEF SumsUp
  <2>7. k[1 .. j - 1] = S[j - 1]
    <3>1. ~(j <= j - 1)
      BY <2>4
    <3>2. j - 1 \notin Bad
      BY <2>1, <3>1
    <3> QED
      BY <2>5, <3>2
  <2> QED
    BY <2>2, <2>4, <2>5, <2>6, <2>7 DEF Sums
<1>5. Len(q) \notin Bad
  BY <1>4
<1> QED
  BY <1>1, <1>3, <1>5

LEMMA SumFacts ==
  ASSUME NEW q \in Seq(Reassdata), NEW S, Sums(q, S)
  PROVE  /\ Len(q) \in Nat /\ PbufsOf(q) = S[Len(q)]
         /\ \A j \in 0 .. Len(q) : S[j] \in Int
         /\ S[0] = 0
         /\ \A j \in 1 .. Len(q) : S[j] = S[j - 1] + Len(q[j].frags) /\ Len(q[j].frags) \in Nat
<1>1. Len(q) \in Nat /\ \A j \in 1 .. Len(q) : q[j] \in Reassdata
  BY SeqFacts
<1>2. \A j \in 1 .. Len(q) : Len(q[j].frags) \in Nat
  BY <1>1, FragsFacts
<1> QED
  BY <1>1, <1>2, PbufsAreSum DEF Sums

LEMMA PbufsNat ==
  ASSUME NEW q \in Seq(Reassdata)
  PROVE  PbufsOf(q) \in Nat /\ (Len(q) = 0 => PbufsOf(q) = 0)
<1>1. PICK S : Sums(q, S)
  BY SumsExist
<1> DEFINE Bad == {j \in 0 .. Len(q) : S[j] < 0}
<1>2. ASSUME Bad # {} PROVE FALSE
  <2>1. PICK j \in Bad : \A i \in Bad : j <= i
    <3>1. Bad \in SUBSET Nat
      BY <1>1, SumFacts
    <3> HIDE DEF Bad
    <3> QED
      BY <1>2, <3>1, LeastNumber
  <2>2. j \in 1 .. Len(q) /\ S[j] < 0
    BY <1>1, <2>1, SumFacts
  <2>3. S[j - 1] \in Int /\ S[j - 1] < 0 /\ j - 1 \in 0 .. Len(q)
    BY <1>1, <2>2, SumFacts
  <2>4. j - 1 \in Bad /\ ~(j <= j - 1)
    BY <2>2, <2>3
  <2> QED
    BY <2>1, <2>4
<1>3. Len(q) \in 0 .. Len(q)
  BY SeqFacts
<1>4. ~(S[Len(q)] < 0) /\ S[Len(q)] \in Int
  BY <1>1, <1>2, <1>3, SumFacts
<1> QED
  BY <1>1, <1>4, SumFacts

LEMMA PbufsRemove ==
  ASSUME NEW q \in Seq(Reassdata), NEW i \in DOMAIN q
  PROVE  /\ PbufsOf(RemoveAt(q, i)) = PbufsOf(q) - Len(q[i].frags)
         /\ Len(q[i].frags) \in Nat /\ Len(q[i].frags) <= PbufsOf(q)
<1> DEFINE t == RemoveAt(q, i)
           l == Len(q[i].frags)
<1>1. PICK S : Sums(q, S)
  BY SumsExist
<1>2. /\ t \in Seq(Reassdata) /\ Len(t) = Len(q) - 1
      /\ \A j \in 1 .. Len(q) - 1 : t[j] = IF j < i THEN q[j] ELSE q[j + 1]
  BY Removed
<1>3. i \in 1 .. Len(q) /\ Len(q) \in Nat /\ i \in Nat
  BY SeqFacts
<1>4. /\ PbufsOf(q) = S[Len(q)] /\ S[0] = 0 /\ l \in Nat
      /\ \A j \in 0 .. Len(q) : S[j] \in Int
      /\ \A j \in 1 .. Len(q) : S[j] = S[j - 1] + Len(q[j].frags) /\ Len(q[j].frags) \in Nat
  BY <1>1, <1>3, SumFacts
<1> DEFINE T == [j \in 0 .. Len(q) - 1 |-> IF j < i THEN S[j] ELSE S[j + 1] - l]
<1>5. T \in [0 .. Len(q) - 1 -> Int]
  BY <1>3, <1>4, SMTT(30)
<1>6. T[0] = 0
  BY <1>3, <1>4
<1>7. ASSUME NEW j \in 1 .. Len(q) - 1 PROVE T[j] = T[j - 1] + Len(t[j].frags)
  <2>1. CASE j < i
    <3>1. T[j] = S[j] /\ T[j - 1] = S[j - 1] /\ t[j] = q[j]
      BY <1>2, <1>3, <2>1
    <3> QED
      BY <1>3, <1>4, <3>1, SMTT(30)
  <2>2. CASE j = i
    <3>1. T[j] = S[i + 1] - l /\ T[j - 1] = S[i - 1] /\ t[j] = q[i + 1]
      BY <1>2, <1>3, <2>2
    <3>2. S[i] = S[i - 1] + l
      BY <1>3, <1>4
    <3>3. i + 1 \in 1 .. Len(q) /\ (i + 1) - 1 = i
      BY <1>3, <2>2
    <3>4. S[i + 1] = S[(i + 1) - 1] + Len(q[i + 1].frags) /\ Len(q[i + 1].frags) \in Nat
      BY <1>4, <3>3
    <3>5. S[i] \in Int /\ S[i - 1] \in Int /\ l \in Nat
      BY <1>3, <1>4
    <3> HIDE DEF T, t, l
    <3>6. S[i + 1] = S[i] + Len(t[j].frags) /\ Len(t[j].frags) \in Nat
      BY <3>1, <3>3, <3>4
    <3>7. T[j] = (S[i] + Len(t[j].frags)) - l /\ T[j - 1] = S[i] - l
      BY <3>1, <3>2, <3>5, <3>6
    <3> QED
      BY <3>5, <3>6, <3>7
  <2>3. CASE j > i
    <3>1. T[j] = S[j + 1] - l /\ T[j - 1] = S[j] - l /\ t[j] = q[j + 1]
      BY <1>2, <1>3, <2>3
    <3>2. S[j + 1] = S[j] + Len(q[j + 1].frags)
      BY <1>3, <1>4
    <3>3. S[j + 1] \in Int /\ S[j] \in Int /\ Len(q[j + 1].frags) \in Nat
      BY <1>3, <1>4
    <3> HIDE DEF T, t, l
    <3> QED
      BY <1>4, <3>1, <3>2, <3>3, SMTT(30)
  <2> QED
    BY <1>3, <2>1, <2>2, <2>3
<1>8. Sums(t, T)
  <2> HIDE DEF T, t
  <2> QED
    BY <1>2, <1>5, <1>6, <1>7 DEF Sums
<1>9. PbufsOf(t) = T[Len(q) - 1]
  <2> HIDE DEF T, t
  <2> QED
    BY <1>2, <1>8, SumFacts
<1>10. T[Len(q) - 1] = S[Len(q)] - l
  <2>1. CASE i = Len(q)
    BY <1>3, <1>4, <2>1
  <2>2. CASE i < Len(q)
    BY <1>3, <1>4, <2>2
  <2> QED
    BY <1>3, <2>1, <2>2
<1>11. PbufsOf(t) \in Nat
  BY <1>2, PbufsNat
<1> HIDE DEF T, t, l
<1>12. PbufsOf(t) = PbufsOf(q) - l /\ PbufsOf(q) \in Int /\ l \in Nat
  BY <1>3, <1>4, <1>9, <1>10
<1>13. l <= PbufsOf(q)
  BY <1>11, <1>12
<1> QED
  BY <1>12, <1>13 DEF t, l

LEMMA Pushed ==
  ASSUME NEW S, NEW q \in Seq(S), NEW r \in S
  PROVE  LET t == <<r>> \o q
         IN  /\ t \in Seq(S) /\ Len(t) = Len(q) + 1 /\ t[1] = r
             /\ \A j \in 2 .. Len(q) + 1 : t[j] = q[j - 1]
<1>1. <<r>> \in Seq(S) /\ Len(<<r>>) = 1 /\ <<r>>[1] = r
  OBVIOUS
<1>2. Len(q) \in Nat
  OBVIOUS
<1> QED
  BY <1>1, <1>2, ConcatProperties

LEMMA PbufsPush ==
  ASSUME NEW q \in Seq(Reassdata), NEW r \in Reassdata
  PROVE  PbufsOf(<<r>> \o q) = PbufsOf(q) + Len(r.frags)
<1> DEFINE t == <<r>> \o q
           l == Len(r.frags)
<1>1. PICK S : Sums(q, S)
  BY SumsExist
<1>2. /\ t \in Seq(Reassdata) /\ Len(t) = Len(q) + 1 /\ t[1] = r
      /\ \A j \in 2 .. Len(q) + 1 : t[j] = q[j - 1]
  BY Pushed
<1>3. /\ PbufsOf(q) = S[Len(q)] /\ S[0] = 0 /\ l \in Nat /\ Len(q) \in Nat
      /\ \A j \in 0 .. Len(q) : S[j] \in Int
      /\ \A j \in 1 .. Len(q) : S[j] = S[j - 1] + Len(q[j].frags) /\ Len(q[j].frags) \in Nat
  BY <1>1, SumFacts, FragsFacts
<1> DEFINE T == [j \in 0 .. Len(q) + 1 |-> IF j = 0 THEN 0 ELSE S[j - 1] + l]
<1>4. T \in [0 .. Len(q) + 1 -> Int] /\ T[0] = 0
  <2>1. ASSUME NEW j \in 0 .. Len(q) + 1, j # 0 PROVE S[j - 1] + l \in Int
    <3>1. j - 1 \in 0 .. Len(q)
      BY <1>3, <2>1
    <3>2. S[j - 1] \in Int
      BY <1>3, <3>1
    <3> HIDE DEF l
    <3> QED
      BY <1>3, <3>2
  <2>2. 0 \in 0 .. Len(q) + 1
    BY <1>3
  <2> HIDE DEF l
  <2> QED
    BY <2>1, <2>2
<1>5. ASSUME NEW j \in 1 .. Len(q) + 1 PROVE T[j] = T[j - 1] + Len(t[j].frags)
  <2>1. CASE j = 1
    <3>1. T[1] = S[0] + l /\ T[0] = 0
      BY <1>3
    <3> QED
      BY <1>2, <1>3, <2>1, <3>1
  <2>2. CASE j # 1
    <3>1. T[j] = S[j - 1] + l /\ T[j - 1] = S[j - 1 - 1] + l /\ t[j] = q[j - 1]
      BY <1>2, <1>3, <2>2
    <3>2. /\ S[j - 1] = S[j - 1 - 1] + Len(q[j - 1].frags)
          /\ S[j - 1] \in Int /\ S[j - 1 - 1] \in Int /\ Len(q[j - 1].frags) \in Nat
      BY <1>3, <2>2
    <3> HIDE DEF T, t, l
    <3> QED
      BY <1>3, <3>1, <3>2, SMTT(30)
  <2> QED
    BY <2>1, <2>2
<1>6. T[Len(q) + 1] = S[Len(q)] + l
  BY <1>3
<1> HIDE DEF T, t, l
<1>7. Sums(t, T)
  BY <1>2, <1>4, <1>5 DEF Sums
<1>8. PbufsOf(t) = T[Len(q) + 1]
  BY <1>2, <1>7, SumFacts
<1> QED
  BY <1>3, <1>6, <1>8 DEF t, l

LEMMA PbufsAppend ==
  ASSUME NEW q \in Seq(Reassdata), NEW r \in Reassdata
  PROVE  PbufsOf(Append(q, r)) = PbufsOf(q) + Len(r.frags)
<1> DEFINE t == Append(q, r)
           l == Len(r.frags)
<1>1. PICK S : Sums(q, S)
  BY SumsExist
<1>2. /\ t \in Seq(Reassdata) /\ Len(t) = Len(q) + 1 /\ t[Len(q) + 1] = r
      /\ \A j \in 1 .. Len(q) : t[j] = q[j]
  OBVIOUS
<1>3. /\ PbufsOf(q) = S[Len(q)] /\ S[0] = 0 /\ l \in Nat /\ Len(q) \in Nat
      /\ \A j \in 0 .. Len(q) : S[j] \in Int
      /\ \A j \in 1 .. Len(q) : S[j] = S[j - 1] + Len(q[j].frags) /\ Len(q[j].frags) \in Nat
  BY <1>1, SumFacts, FragsFacts
<1> DEFINE T == [j \in 0 .. Len(q) + 1 |-> IF j <= Len(q) THEN S[j] ELSE S[Len(q)] + l]
<1>4. T \in [0 .. Len(q) + 1 -> Int] /\ T[0] = 0
  <2>1. S[Len(q)] + l \in Int
    <3> HIDE DEF l
    <3> QED
      BY <1>3
  <2>2. \A j \in 0 .. Len(q) + 1 : j <= Len(q) => S[j] \in Int
    BY <1>3
  <2>3. 0 \in 0 .. Len(q) + 1 /\ 0 <= Len(q)
    BY <1>3
  <2> HIDE DEF l
  <2> QED
    BY <1>3, <2>1, <2>2, <2>3
<1>5. ASSUME NEW j \in 1 .. Len(q) + 1 PROVE T[j] = T[j - 1] + Len(t[j].frags)
  <2>1. CASE j <= Len(q)
    <3>1. T[j] = S[j] /\ T[j - 1] = S[j - 1] /\ t[j] = q[j] /\ j \in 1 .. Len(q)
      BY <1>2, <1>3, <2>1
    <3> HIDE DEF T, t, l
    <3> QED
      BY <1>3, <3>1
  <2>2. CASE j = Len(q) + 1
    <3>1. j - 1 = Len(q) /\ ~(Len(q) + 1 <= Len(q)) /\ j - 1 \in 0 .. Len(q) + 1
      BY <1>3, <2>2
    <3>2. T[j] = S[Len(q)] + l /\ T[j - 1] = S[Len(q)] /\ t[j] = r
      BY <1>2, <1>3, <2>2, <3>1
    <3> QED
      BY <3>2
  <2> QED
    BY <1>3, <2>1, <2>2
<1>6. T[Len(q) + 1] = S[Len(q)] + l
  BY <1>3
<1> HIDE DEF T, t, l
<1>7. Sums(t, T)
  BY <1>2, <1>4, <1>5 DEF Sums
<1>8. PbufsOf(t) = T[Len(q) + 1]
  BY <1>2, <1>7, SumFacts
<1> QED
  BY <1>3, <1>6, <1>8 DEF t, l

LEMMA PbufsReplace ==
  ASSUME NEW q \in Seq(Reassdata), NEW i \in DOMAIN q, NEW r \in Reassdata
  PROVE  PbufsOf([q EXCEPT ![i] = r]) = (PbufsOf(q) - Len(q[i].frags)) + Len(r.frags)
<1> DEFINE t == [q EXCEPT ![i] = r]
           l == Len(q[i].frags)
           m == Len(r.frags)
<1>1. PICK S : Sums(q, S)
  BY SumsExist
<1>2. /\ t \in Seq(Reassdata) /\ Len(t) = Len(q)
      /\ \A j \in 1 .. Len(q) : t[j] = IF j = i THEN r ELSE q[j]
  BY SeqFacts
<1>3. i \in 1 .. Len(q) /\ Len(q) \in Nat /\ i \in Nat
  BY SeqFacts
<1>4. /\ PbufsOf(q) = S[Len(q)] /\ S[0] = 0 /\ l \in Nat /\ m \in Nat
      /\ \A j \in 0 .. Len(q) : S[j] \in Int
      /\ \A j \in 1 .. Len(q) : S[j] = S[j - 1] + Len(q[j].frags) /\ Len(q[j].frags) \in Nat
  BY <1>1, <1>3, SumFacts, FragsFacts
<1> DEFINE T == [j \in 0 .. Len(q) |-> IF j < i THEN S[j] ELSE (S[j] - l) + m]
<1>5. T \in [0 .. Len(q) -> Int] /\ T[0] = 0
  <2>1. \A j \in 0 .. Len(q) : (S[j] - l) + m \in Int
    <3> HIDE DEF l, m
    <3> QED
      BY <1>4
  <2>2. 0 \in 0 .. Len(q) /\ 0 < i
    BY <1>3
  <2> HIDE DEF l, m
  <2> QED
    BY <1>4, <2>1, <2>2
<1>6. ASSUME NEW j \in 1 .. Len(q) PROVE T[j] = T[j - 1] + Len(t[j].frags)
  <2>1. S[j] = S[j - 1] + Len(q[j].frags) /\ Len(q[j].frags) \in Nat /\ S[j] \in Int /\ S[j - 1] \in Int
    BY <1>3, <1>4
  <2>2. CASE j < i
    <3>1. T[j] = S[j] /\ T[j - 1] = S[j - 1] /\ t[j] = q[j]
      BY <1>2, <1>3, <2>2
    <3> QED
      BY <2>1, <3>1
  <2>3. CASE j = i
    <3>1. T[j] = (S[j] - l) + m /\ T[j - 1] = S[j - 1] /\ t[j] = r
      BY <1>2, <1>3, <2>3
    <3>2. S[j] = S[j - 1] + l
      BY <2>1, <2>3
    <3>3. l \in Nat /\ m \in Nat
      BY <1>4
    <3>4. Len(t[j].frags) = m
      BY <3>1
    <3> HIDE DEF T, t, l, m
    <3>5. (S[j] - l) + m = S[j - 1] + m
      BY <2>1, <3>2, <3>3
    <3> QED
      BY <3>1, <3>4, <3>5
  <2>4. CASE j > i
    <3> DEFINE a == S[j]
               b == S[j - 1]
               e == Len(t[j].frags)
    <3>1. T[j] = (a - l) + m /\ T[j - 1] = (b - l) + m /\ t[j] = q[j]
      BY <1>2, <1>3, <2>4
    <3>2. l \in Int /\ m \in Int /\ a \in Int /\ b \in Int /\ e \in Int /\ a = b + e
      BY <1>4, <2>1, <3>1
    <3> HIDE DEF a, b, e, T, t, l, m
    <3>3. (a - l) + m = ((b - l) + m) + e
      BY <3>2
    <3>4. T[j] = T[j - 1] + e
      BY <3>1, <3>3
    <3> QED
      BY <3>4 DEF e
  <2> QED
    BY <1>3, <2>2, <2>3, <2>4
<1>7. T[Len(q)] = (S[Len(q)] - l) + m
  BY <1>3
<1> HIDE DEF T, t, l, m
<1>8. Sums(t, T)
  BY <1>2, <1>5, <1>6 DEF Sums
<1>9. PbufsOf(t) = T[Len(q)]
  BY <1>2, <1>8, SumFacts
<1> QED
  BY <1>4, <1>7, <1>9 DEF t, l, m

-------------------------------------------------------------------------------
(* The timer's loop, as the sequence of the states it goes through. *)

Ages(A, b, q) ==
  /\ A \in [0 .. Len(q) -> States] /\ A[0] = b
  /\ \A j \in 1 .. Len(q) : A[j] = Aged(A[j - 1], q[j])

AgesUp(g, b, q) ==
  g = [s \in SUBSET (DOMAIN q) |->
         IF s = {} THEN b ELSE Aged(g[s \ {Max(s)}], q[Max(s)])]

LEMMA AgedParts ==
  ASSUME NEW st \in States, NEW r \in Reassdata
  PROVE  /\ Aged(st, r) \in States
         /\ IF r.timer > 0
              THEN LET o == [r EXCEPT !.timer = r.timer - 1]
                   IN  /\ o \in Reassdata /\ o.id = r.id /\ o.frags = r.frags
                       /\ o.datagram_len = r.datagram_len
                       /\ Aged(st, r).queue = Append(st.queue, o) /\ Aged(st, r).count = st.count
              ELSE Aged(st, r).queue = st.queue /\ Aged(st, r).count = st.count - Len(r.frags)
<1> DEFINE o == [r EXCEPT !.timer = r.timer - 1]
<1>1. r.timer \in 0 .. IP_REASS_MAXAGE /\ IP_REASS_MAXAGE \in Nat
  BY ReassemblyAssumption DEF Reassdata
<1>2. CASE r.timer > 0
  <2>1. r.timer - 1 \in 0 .. IP_REASS_MAXAGE
    BY <1>1, <1>2
  <2>2. o \in Reassdata /\ o.id = r.id /\ o.frags = r.frags /\ o.datagram_len = r.datagram_len
    BY <2>1 DEF Reassdata
  <2> HIDE DEF o
  <2>3. Aged(st, r) = [st EXCEPT !.queue = Append(st.queue, o)]
    BY <1>2 DEF Aged, o
  <2>4. Append(st.queue, o) \in Seq(Reassdata)
    BY <2>2 DEF States
  <2>5. /\ Aged(st, r) \in States /\ Aged(st, r).queue = Append(st.queue, o)
        /\ Aged(st, r).count = st.count
    BY <2>3, <2>4 DEF States
  <2> QED
    BY <1>2, <2>2, <2>5 DEF o
<1>3. CASE ~(r.timer > 0)
  <2>1. Len(r.frags) \in Nat
    BY FragsFacts
  <2>2. st.count - Len(r.frags) \in Int
    BY <2>1 DEF States
  <2>3. Aged(st, r) = [st EXCEPT !.count = st.count - Len(r.frags)]
    BY <1>3 DEF Aged
  <2>4. /\ Aged(st, r) \in States /\ Aged(st, r).queue = st.queue
        /\ Aged(st, r).count = st.count - Len(r.frags)
    BY <2>2, <2>3 DEF States
  <2> QED
    BY <1>3, <2>4
<1> QED
  BY <1>2, <1>3

LEMMA AgesUpExists ==
  ASSUME NEW q \in Seq(Reassdata), NEW b \in States
  PROVE  \E g \in [SUBSET (DOMAIN q) -> States] : AgesUp(g, b, q)
<1> DEFINE c == [s \in SUBSET (DOMAIN q) |-> Max(s)]
           k == [s \in SUBSET (DOMAIN q) |->
                   [v \in States |-> IF s = {} THEN b ELSE Aged(v, q[Max(s)])]]
<1>1. Len(q) \in Nat /\ DOMAIN q = 1 .. Len(q) /\ IsFiniteSet(DOMAIN q)
  BY SeqFacts
<1>2. \A s \in SUBSET (DOMAIN q) : s # {} => c[s] = Max(s) /\ Max(s) \in s /\ Max(s) \in 1 .. Len(q)
  BY <1>1, LargestOf
<1>3. \A s \in SUBSET (DOMAIN q), v \in States : s # {} => Aged(v, q[Max(s)]) \in States
  <2> SUFFICES ASSUME NEW s \in SUBSET (DOMAIN q), NEW v \in States, s # {}
               PROVE  Aged(v, q[Max(s)]) \in States
    OBVIOUS
  <2>1. q[Max(s)] \in Reassdata
    BY <1>2, SeqFacts
  <2> QED
    BY <2>1, AgedParts
<1>4. k \in [SUBSET (DOMAIN q) -> [States -> States]]
  BY <1>3
<1>5. \A s \in SUBSET (DOMAIN q), v \in States : s # {} => k[s][v] = Aged(v, q[Max(s)])
  OBVIOUS
<1> HIDE DEF c, k
<1>6. PICK g \in [SUBSET (DOMAIN q) -> States] : FoldOf(g, DOMAIN q, b, c, k)
  <2>1. Picks(c, DOMAIN q)
    BY <1>2 DEF Picks
  <2> QED
    BY <1>1, <1>4, <2>1, FoldExists
<1>7. \A s \in SUBSET (DOMAIN q) :
        g[s] = IF s = {} THEN b ELSE Aged(g[s \ {Max(s)}], q[Max(s)])
  <2> TAKE s \in SUBSET (DOMAIN q)
  <2>1. ASSUME s # {} PROVE g[s] = Aged(g[s \ {Max(s)}], q[Max(s)])
    <3>1. g[s] = k[s][g[s \ {Max(s)}]]
      BY <1>2, <1>6, <2>1 DEF FoldOf
    <3>2. g[s \ {Max(s)}] \in States
      BY <1>6
    <3> QED
      BY <1>5, <2>1, <3>1, <3>2
  <2> QED
    BY <1>6, <2>1 DEF FoldOf
<1> QED
  BY <1>6, <1>7 DEF AgesUp

LEMMA AgesExist ==
  ASSUME NEW q \in Seq(Reassdata), NEW b \in States
  PROVE  \E A : Ages(A, b, q) /\ FoldLeft(Aged, b, q) = A[Len(q)]
<1> DEFINE g == CHOOSE h : AgesUp(h, b, q)
<1>1. FoldLeft(Aged, b, q) = g[DOMAIN q]
  BY DEF FoldLeft, MapThenFoldSet, AgesUp
<1>2. PICK h \in [SUBSET (DOMAIN q) -> States] : AgesUp(h, b, q)
  BY AgesUpExists
<1>3. AgesUp(g, b, q)
  BY <1>2
<1> HIDE DEF g
<1>4. Len(q) \in Nat /\ DOMAIN q = 1 .. Len(q)
  BY SeqFacts
<1> DEFINE A == [j \in 0 .. Len(q) |-> g[1 .. j]]
<1>5. A[0] = b
  <2>1. 1 .. 0 = {} /\ {} \in SUBSET (DOMAIN q) /\ 0 \in 0 .. Len(q)
    BY <1>4
  <2> QED
    BY <1>3, <2>1 DEF AgesUp
<1>6. ASSUME NEW j \in 1 .. Len(q) PROVE A[j] = Aged(A[j - 1], q[j])
  <2>1. /\ 1 .. j \in SUBSET (DOMAIN q) /\ 1 .. j # {} /\ Max(1 .. j) = j
        /\ (1 .. j) \ {Max(1 .. j)} = 1 .. j - 1 /\ j - 1 \in 0 .. Len(q) /\ j \in 0 .. Len(q)
    BY <1>4, Prefix
  <2>2. g[1 .. j] = Aged(g[(1 .. j) \ {Max(1 .. j)}], q[Max(1 .. j)])
    BY <1>3, <2>1 DEF AgesUp
  <2>3. g[1 .. j] = Aged(g[1 .. j - 1], q[j])
    BY <2>1, <2>2
  <2>4. A[j] = g[1 .. j] /\ A[j - 1] = g[1 .. j - 1]
    BY <2>1
  <2> QED
    BY <2>3, <2>4
<1>7. \A j \in 0 .. Len(q) : A[j] \in States
  <2> DEFINE Bad == {j \in 0 .. Len(q) : A[j] \notin States}
  <2>1. ASSUME Bad # {} PROVE FALSE
    <3>1. PICK j \in Bad : \A i \in Bad : j <= i
      <4>1. Bad \in SUBSET Nat
        BY <1>4
      <4> HIDE DEF Bad
      <4> QED
        BY <2>1, <4>1, LeastNumber
    <3>2. j \in 1 .. Len(q) /\ A[j] \notin States
      <4> HIDE DEF A
      <4> QED
        BY <1>4, <1>5, <3>1
    <3>3. j - 1 \in 0 .. Len(q) /\ ~(j <= j - 1)
      BY <1>4, <3>2
    <3> HIDE DEF A
    <3>4. A[j - 1] \in States
      BY <3>1, <3>3
    <3>5. A[j] = Aged(A[j - 1], q[j]) /\ q[j] \in Reassdata
      BY <1>6, <3>2, SeqFacts
    <3>6. Aged(A[j - 1], q[j]) \in States
      BY <3>4, <3>5, AgedParts
    <3> QED
      BY <3>2, <3>5, <3>6
  <2> QED
    BY <2>1
<1>8. A \in [0 .. Len(q) -> States]
  BY <1>7
<1>9. A[Len(q)] = g[DOMAIN q]
  BY <1>4
<1> HIDE DEF A
<1> QED
  BY <1>1, <1>5, <1>6, <1>8, <1>9 DEF Ages

\* After j turns.
Kept(st, q, S, j) ==
  /\ st.queue \in Seq(Sound) /\ Distinct(st.queue) /\ Len(st.queue) <= j
  /\ \A i \in DOMAIN st.queue :
       st.queue[i].frags # <<>> /\ \E m \in 1 .. j : st.queue[i].id = q[m].id
  /\ st.count + S[j] = PbufsOf(st.queue) + S[Len(q)] /\ st.count <= S[Len(q)]

LEMMA SoundFacts ==
  /\ Sound \subseteq Reassdata
  /\ Seq(Sound) \subseteq Seq(Reassdata)
  /\ \A r \in Sound, o \in Reassdata :
       o.id = r.id /\ o.frags = r.frags /\ o.datagram_len = r.datagram_len => o \in Sound
<1>1. Sound \subseteq Reassdata
  BY DEF Sound
<1>2. ASSUME NEW r \in Sound, NEW o \in Reassdata,
             o.id = r.id, o.frags = r.frags, o.datagram_len = r.datagram_len
      PROVE  o \in Sound
  BY <1>2 DEF Sound, LenKnown, OneDatagram, Waits
<1>3. Seq(Sound) \subseteq Seq(Reassdata)
  BY <1>1
<1> QED
  BY <1>1, <1>2, <1>3

LEMMA KeptStep ==
  ASSUME NEW q \in Seq(Sound), Distinct(q), \A i \in DOMAIN q : q[i].frags # <<>>,
         NEW S, Sums(q, S), NEW b \in States, NEW A, Ages(A, b, q),
         NEW j \in 1 .. Len(q), Kept(A[j - 1], q, S, j - 1)
  PROVE  Kept(A[j], q, S, j)
<1> DEFINE s == A[j - 1]
           t == A[j]
           r == q[j]
           l == Len(r.frags)
<1>1. q \in Seq(Reassdata) /\ Len(q) \in Nat /\ DOMAIN q = 1 .. Len(q) /\ r \in Sound /\ r \in Reassdata
      /\ j \in Nat
  BY SoundFacts, SeqFacts
<1>2. s \in States /\ t = Aged(s, r)
  <2>1. j - 1 \in 0 .. Len(q)
    BY <1>1
  <2> QED
    BY <2>1 DEF Ages
<1>3. S[j] = S[j - 1] + l /\ l \in Nat /\ S[j] \in Int /\ S[j - 1] \in Int /\ S[Len(q)] \in Int
  <2>1. j - 1 \in 0 .. Len(q) /\ j \in 0 .. Len(q) /\ Len(q) \in 0 .. Len(q)
    BY <1>1
  <2> QED
    BY <1>1, <2>1, SumFacts
<1>4. /\ s.queue \in Seq(Sound) /\ Distinct(s.queue) /\ Len(s.queue) <= j - 1
      /\ \A i \in DOMAIN s.queue :
           s.queue[i].frags # <<>> /\ \E m \in 1 .. j - 1 : s.queue[i].id = q[m].id
      /\ s.count + S[j - 1] = PbufsOf(s.queue) + S[Len(q)] /\ s.count <= S[Len(q)]
  BY DEF Kept
<1>5. s.queue \in Seq(Reassdata) /\ s.count \in Int /\ PbufsOf(s.queue) \in Int /\ Len(s.queue) \in Nat
  BY <1>2, PbufsNat DEF States
<1>6. r.frags # <<>> /\ 1 .. j - 1 \subseteq 1 .. j
  BY <1>1
<1> HIDE DEF s, t, l
<1>7. CASE r.timer > 0
  <2> DEFINE o == [r EXCEPT !.timer = r.timer - 1]
  <2>1. /\ o \in Reassdata /\ o.id = r.id /\ o.frags = r.frags /\ o.datagram_len = r.datagram_len
        /\ t.queue = Append(s.queue, o) /\ t.count = s.count
    BY <1>1, <1>2, <1>7, AgedParts
  <2> HIDE DEF o
  <2>2. o \in Sound
    BY <1>1, <2>1, SoundFacts
  <2>3. /\ t.queue \in Seq(Sound) /\ Len(t.queue) = Len(s.queue) + 1
        /\ DOMAIN t.queue = 1 .. Len(s.queue) + 1 /\ DOMAIN s.queue = 1 .. Len(s.queue)
        /\ t.queue[Len(s.queue) + 1] = o
        /\ \A i \in 1 .. Len(s.queue) : t.queue[i] = s.queue[i]
    BY <1>4, <2>1, <2>2
  <2>4. \A i \in DOMAIN t.queue : i \in DOMAIN s.queue \/ i = Len(s.queue) + 1
    BY <1>5, <2>3
  <2>5. ASSUME NEW i \in DOMAIN s.queue PROVE s.queue[i].id # o.id
    <3>1. PICK m \in 1 .. j - 1 : s.queue[i].id = q[m].id
      BY <1>4
    <3>2. m \in DOMAIN q /\ j \in DOMAIN q /\ m # j
      BY <1>1
    <3>3. q[m].id # q[j].id
      BY <3>2 DEF Distinct
    <3> QED
      BY <2>1, <3>1, <3>3
  <2>6. Distinct(t.queue)
    BY <1>4, <2>3, <2>4, <2>5 DEF Distinct
  <2>7. ASSUME NEW i \in DOMAIN t.queue
        PROVE  t.queue[i].frags # <<>> /\ \E m \in 1 .. j : t.queue[i].id = q[m].id
    <3>1. CASE i \in DOMAIN s.queue
      BY <1>4, <1>6, <2>3, <3>1
    <3>2. CASE i = Len(s.queue) + 1
      BY <1>1, <1>6, <2>1, <2>3, <3>2
    <3> QED
      BY <2>4, <3>1, <3>2
  <2>8. t.count + S[j] = PbufsOf(t.queue) + S[Len(q)]
    <3>1. PbufsOf(t.queue) = PbufsOf(s.queue) + l
      BY <1>5, <2>1, PbufsAppend DEF l
    <3> DEFINE sc == s.count
               sp == PbufsOf(s.queue)
               sk == S[j - 1]
               sn == S[Len(q)]
    <3>2. t.count + S[j] = sc + (sk + l) /\ sc + sk = sp + sn /\ PbufsOf(t.queue) + sn = (sp + l) + sn
      BY <1>3, <1>4, <2>1, <3>1
    <3>3. sc \in Int /\ sp \in Int /\ sk \in Int /\ sn \in Int /\ l \in Int
      BY <1>3, <1>5
    <3> HIDE DEF sc, sp, sk
    <3>4. sc + (sk + l) = (sp + l) + sn
      <4> HIDE DEF sn
      <4> QED
        BY <3>2, <3>3
    <3> QED
      BY <3>2, <3>4
  <2>9. Len(t.queue) <= j
    BY <1>1, <1>4, <1>5, <2>3
  <2>10. t.count <= S[Len(q)]
    BY <1>4, <2>1
  <2> QED
    BY <2>3, <2>6, <2>7, <2>8, <2>9, <2>10 DEF Kept, t
<1>8. CASE ~(r.timer > 0)
  <2>1. t.queue = s.queue /\ t.count = s.count - l
    BY <1>1, <1>2, <1>8, AgedParts DEF l
  <2>2. t.count + S[j] = PbufsOf(t.queue) + S[Len(q)]
    <3> DEFINE sc == s.count
               sp == PbufsOf(s.queue)
    <3>1. t.count + S[j] = (sc - l) + (S[j - 1] + l) /\ sc + S[j - 1] = sp + S[Len(q)]
          /\ PbufsOf(t.queue) = sp /\ sc \in Int /\ sp \in Int
      BY <1>3, <1>4, <1>5, <2>1
    <3> HIDE DEF sc, sp
    <3> QED
      BY <1>3, <3>1
  <2>3. Len(t.queue) <= j
    BY <1>1, <1>4, <1>5, <2>1
  <2>4. t.count <= S[Len(q)]
    <3> DEFINE sc == s.count
    <3>1. t.count = sc - l /\ sc <= S[Len(q)] /\ sc \in Int
      BY <1>4, <1>5, <2>1
    <3> HIDE DEF sc
    <3> QED
      BY <1>3, <3>1
  <2> QED
    BY <1>4, <1>6, <2>1, <2>2, <2>3, <2>4 DEF Kept, t
<1> QED
  BY <1>7, <1>8

\* The whole of ip_reass_tmr's loop.
LEMMA TimerKeeps ==
  ASSUME NEW q \in Seq(Sound), NEW c, StateInv([queue |-> q, count |-> c], {})
  PROVE  StateInv(FoldLeft(Aged, [queue |-> <<>>, count |-> c], q), {})
<1> DEFINE b == [queue |-> <<>>, count |-> c]
<1>1. /\ Distinct(q) /\ Len(q) <= MEMP_NUM_REASSDATA /\ \A i \in DOMAIN q : q[i].frags # <<>>
      /\ c = PbufsOf(q) /\ c \in 0 .. IP_REASS_MAX_PBUFS
  BY DEF StateInv
<1>2. q \in Seq(Reassdata) /\ Len(q) \in Nat /\ b \in States
  BY <1>1, SoundFacts, SeqFacts DEF States
<1>3. PICK S : Sums(q, S)
  BY <1>2, SumsExist
<1>4. PICK A : Ages(A, b, q) /\ FoldLeft(Aged, b, q) = A[Len(q)]
  BY <1>2, AgesExist
<1>5. /\ PbufsOf(q) = S[Len(q)] /\ S[0] = 0 /\ S[Len(q)] \in Int
  BY <1>2, <1>3, SumFacts
<1>6. Kept(A[0], q, S, 0)
  <2>1. A[0] = b
    BY <1>4 DEF Ages
  <2>2. <<>> \in Seq(Sound) /\ Len(<<>>) = 0 /\ DOMAIN <<>> = {} /\ <<>> \in Seq(Reassdata)
    OBVIOUS
  <2>3. PbufsOf(<<>>) = 0
    BY <2>2, PbufsNat
  <2>4. b.queue = <<>> /\ b.count = c
    OBVIOUS
  <2> HIDE DEF b
  <2>5. Distinct(<<>>)
    BY <2>2 DEF Distinct
  <2>6. b.count + S[0] = PbufsOf(<<>>) + S[Len(q)] /\ b.count <= S[Len(q)]
    BY <1>1, <1>5, <2>3, <2>4
  <2> QED
    BY <2>1, <2>2, <2>4, <2>5, <2>6 DEF Kept
<1> DEFINE Bad == {j \in 0 .. Len(q) : ~Kept(A[j], q, S, j)}
<1>7. ASSUME Bad # {} PROVE FALSE
  <2>1. PICK j \in Bad : \A i \in Bad : j <= i
    <3>1. Bad \in SUBSET Nat
      BY <1>2
    <3> HIDE DEF Bad
    <3> QED
      BY <1>7, <3>1, LeastNumber
  <2>2. j \in 1 .. Len(q) /\ ~Kept(A[j], q, S, j)
    BY <1>2, <1>6, <2>1
  <2>3. j - 1 \in 0 .. Len(q) /\ ~(j <= j - 1)
    BY <1>2, <2>2
  <2>4. Kept(A[j - 1], q, S, j - 1)
    BY <2>1, <2>3
  <2> HIDE DEF b, Bad
  <2> QED
    BY <1>1, <1>2, <1>3, <1>4, <2>2, <2>4, KeptStep
<1>8. Kept(A[Len(q)], q, S, Len(q))
  BY <1>2, <1>7
<1> DEFINE t == A[Len(q)]
<1>9. t.queue \in Seq(Sound) /\ t.count <= S[Len(q)] /\ t.count + S[Len(q)] = PbufsOf(t.queue) + S[Len(q)]
      /\ Distinct(t.queue) /\ Len(t.queue) <= Len(q) /\ \A i \in DOMAIN t.queue : t.queue[i].frags # <<>>
  BY <1>8 DEF Kept
<1>10. /\ t \in States
       /\ t.count \in Int /\ PbufsOf(t.queue) \in Nat /\ Len(t.queue) \in Nat
  <2>1. t \in States
    BY <1>2, <1>4 DEF Ages
  <2> QED
    BY <2>1, PbufsNat DEF States
<1>11. t.count = PbufsOf(t.queue)
  <2> HIDE DEF t
  <2> QED
    BY <1>5, <1>9, <1>10
<1>12. t.count \in 0 .. IP_REASS_MAX_PBUFS
  <2> HIDE DEF t
  <2> QED
    BY <1>1, <1>5, <1>9, <1>10, <1>11, ReassemblyAssumption
<1>13. Len(t.queue) <= MEMP_NUM_REASSDATA
  <2> HIDE DEF t
  <2> QED
    BY <1>1, <1>2, <1>9, <1>10, ReassemblyAssumption
<1> QED
  BY <1>4, <1>9, <1>10, <1>11, <1>12, <1>13 DEF StateInv

-------------------------------------------------------------------------------
(* Making room. *)

\* What is in t was in st.
Fewer(t, st) ==
  /\ \A k \in DOMAIN t.queue : \E m \in DOMAIN st.queue : t.queue[k] = st.queue[m]
  /\ Len(t.queue) <= Len(st.queue) /\ t.count <= st.count

LEMMA StateFacts ==
  ASSUME NEW X, NEW st, StateInv(st, X)
  PROVE  /\ st \in States /\ st.queue \in Seq(Sound) /\ st.queue \in Seq(Reassdata)
         /\ Len(st.queue) \in Nat /\ DOMAIN st.queue = 1 .. Len(st.queue)
         /\ st.count \in Nat /\ st.count = PbufsOf(st.queue)
         /\ \A i \in DOMAIN st.queue : /\ st.queue[i] \in Sound /\ st.queue[i] \in Reassdata
                                       /\ st.queue[i].frags \in Seq(Fragment)
                                       /\ Len(st.queue[i].frags) \in Nat
                                       /\ st.queue[i].timer \in Nat
<1>1. st \in States /\ st.queue \in Seq(Sound) /\ st.queue \in Seq(Reassdata)
  BY SoundFacts DEF StateInv
<1>2. Len(st.queue) \in Nat /\ DOMAIN st.queue = 1 .. Len(st.queue)
      /\ \A i \in DOMAIN st.queue : st.queue[i] \in Sound
  BY <1>1, SeqFacts
<1>3. st.count \in Nat /\ st.count = PbufsOf(st.queue)
  BY DEF StateInv
<1>4. ASSUME NEW i \in DOMAIN st.queue
      PROVE  /\ st.queue[i] \in Sound /\ st.queue[i] \in Reassdata
             /\ st.queue[i].frags \in Seq(Fragment)
             /\ Len(st.queue[i].frags) \in Nat /\ st.queue[i].timer \in Nat
  <2>1. st.queue[i] \in Sound /\ st.queue[i] \in Reassdata
    BY <1>2, SoundFacts
  <2> QED
    BY <2>1, FragsFacts, ReassemblyAssumption DEF Reassdata
<1> QED
  BY <1>1, <1>2, <1>3, <1>4

LEMMA FreeKeeps ==
  ASSUME NEW X, NEW st, StateInv(st, X), NEW i \in DOMAIN st.queue
  PROVE  LET t == FreeComplete(st, i)
         IN  /\ StateInv(t, X) /\ Fewer(t, st) /\ Len(t.queue) = Len(st.queue) - 1
             /\ t.count = st.count - Len(st.queue[i].frags)
             /\ \A m \in DOMAIN st.queue :
                  m # i => \E k \in DOMAIN t.queue : t.queue[k] = st.queue[m]
<1> DEFINE t == FreeComplete(st, i)
           q == st.queue
           l == Len(st.queue[i].frags)
<1>1. t.queue = RemoveAt(q, i) /\ t.count = st.count - l
  BY DEF FreeComplete
<1>2. /\ st \in States /\ q \in Seq(Sound) /\ q \in Seq(Reassdata) /\ Len(q) \in Nat
      /\ DOMAIN q = 1 .. Len(q) /\ i \in 1 .. Len(q)
      /\ st.count \in Nat /\ st.count = PbufsOf(q) /\ l \in Nat
  BY StateFacts
<1>3. /\ t.queue \in Seq(Sound) /\ Len(t.queue) = Len(q) - 1
      /\ \A j \in 1 .. Len(q) - 1 : t.queue[j] = IF j < i THEN q[j] ELSE q[j + 1]
  BY <1>1, <1>2, Removed
<1>4. PbufsOf(t.queue) = PbufsOf(q) - l /\ l <= PbufsOf(q)
  BY <1>1, <1>2, PbufsRemove
<1>5. t \in States
  <2>1. t.queue \in Seq(Reassdata)
    BY <1>3, SoundFacts
  <2>2. t.count \in Int
    BY <1>1, <1>2
  <2> QED
    BY <2>1, <2>2 DEF States, FreeComplete
<1>6. /\ Distinct(q) /\ Len(q) <= MEMP_NUM_REASSDATA
      /\ \A k \in DOMAIN q : q[k].frags = <<>> => q[k].id \in X
      /\ st.count \in 0 .. IP_REASS_MAX_PBUFS
  BY DEF StateInv
<1> HIDE DEF t, q, l
<1>7. DOMAIN t.queue = 1 .. Len(q) - 1
  BY <1>2, <1>3, SeqFacts
<1>8. ASSUME NEW k \in DOMAIN t.queue
      PROVE  /\ k < i => k \in DOMAIN q /\ t.queue[k] = q[k]
             /\ ~(k < i) => k + 1 \in DOMAIN q /\ t.queue[k] = q[k + 1]
  <2>1. k \in 1 .. Len(q) - 1
    BY <1>7
  <2>2. k \in 1 .. Len(q) /\ k + 1 \in 1 .. Len(q)
    BY <1>2, <2>1
  <2>3. t.queue[k] = IF k < i THEN q[k] ELSE q[k + 1]
    BY <1>3, <2>1
  <2> QED
    BY <1>2, <2>2, <2>3
<1>9. \A k \in DOMAIN t.queue : \E m \in DOMAIN q : t.queue[k] = q[m]
  BY <1>8
<1>10. Distinct(t.queue)
  <2> SUFFICES ASSUME NEW j \in DOMAIN t.queue, NEW k \in DOMAIN t.queue,
                      t.queue[j].id = t.queue[k].id
               PROVE  j = k
    BY DEF Distinct
  <2>1. j \in Int /\ k \in Int /\ i \in Int
    BY <1>2, <1>7
  <2>2. CASE j < i /\ k < i
    BY <1>6, <1>8, <2>2 DEF Distinct
  <2>3. CASE j < i /\ ~(k < i)
    <3>1. j = k + 1
      BY <1>6, <1>8, <2>3 DEF Distinct
    <3> QED
      BY <2>1, <2>3, <3>1
  <2>4. CASE ~(j < i) /\ k < i
    <3>1. j + 1 = k
      BY <1>6, <1>8, <2>4 DEF Distinct
    <3> QED
      BY <2>1, <2>4, <3>1
  <2>5. CASE ~(j < i) /\ ~(k < i)
    <3>1. j + 1 = k + 1
      BY <1>6, <1>8, <2>5 DEF Distinct
    <3> QED
      BY <2>1, <3>1
  <2> QED
    BY <2>2, <2>3, <2>4, <2>5
<1>11. \A k \in DOMAIN t.queue : t.queue[k].frags = <<>> => t.queue[k].id \in X
  BY <1>6, <1>9
<1>12. ASSUME NEW m \in DOMAIN q, m # i
       PROVE  \E k \in DOMAIN t.queue : t.queue[k] = q[m]
  <2>1. CASE m < i
    <3>1. m \in 1 .. Len(q) - 1
      BY <1>2, <2>1
    <3> QED
      BY <1>3, <1>7, <2>1, <3>1
  <2>2. CASE m > i
    <3>1. m - 1 \in 1 .. Len(q) - 1 /\ ~(m - 1 < i) /\ (m - 1) + 1 = m
      BY <1>2, <2>2
    <3>2. t.queue[m - 1] = q[(m - 1) + 1]
      BY <1>3, <3>1
    <3> QED
      BY <1>7, <3>1, <3>2
  <2> QED
    BY <1>2, <1>12, <2>1, <2>2
<1>13. Len(t.queue) <= Len(q) /\ Len(t.queue) <= MEMP_NUM_REASSDATA
  <2>1. Len(t.queue) = Len(q) - 1 /\ Len(q) \in Nat /\ Len(q) <= MEMP_NUM_REASSDATA
        /\ MEMP_NUM_REASSDATA \in Nat
    BY <1>2, <1>3, <1>6, ReassemblyAssumption
  <2>2. \A n, m \in Nat : n <= m => n - 1 <= n /\ n - 1 <= m
    OBVIOUS
  <2> QED
    BY <2>1, <2>2
<1>14. t.count <= st.count /\ t.count \in 0 .. IP_REASS_MAX_PBUFS /\ t.count = PbufsOf(t.queue)
  <2> DEFINE a == st.count
             b == t.count
  <2>1. b = a - l /\ a \in Nat /\ l \in Nat /\ l <= a /\ a <= IP_REASS_MAX_PBUFS /\ b = PbufsOf(t.queue)
    BY <1>1, <1>2, <1>4, <1>6
  <2> HIDE DEF a, b
  <2>2. b <= a /\ b \in 0 .. IP_REASS_MAX_PBUFS
    BY <2>1, ReassemblyAssumption
  <2> QED
    BY <2>1, <2>2 DEF a, b
<1>15. StateInv(t, X)
  BY <1>3, <1>5, <1>10, <1>11, <1>13, <1>14 DEF StateInv
<1>16. Fewer(t, st)
  BY <1>9, <1>13, <1>14 DEF Fewer, q
<1> QED
  BY <1>1, <1>3, <1>12, <1>15, <1>16 DEF t, q, l

LEMMA OldestFacts ==
  ASSUME NEW X, NEW st, StateInv(st, X), NEW id,
         \E i \in DOMAIN st.queue : st.queue[i].id # id
  PROVE  Oldest(st, id) \in DOMAIN st.queue /\ st.queue[Oldest(st, id)].id # id
<1> DEFINE q == st.queue
           others == {i \in DOMAIN q : q[i].id # id}
           T == {q[i].timer : i \in others}
           old == {i \in others : \A j \in others : q[i].timer <= q[j].timer}
<1>1. Len(q) \in Nat /\ DOMAIN q = 1 .. Len(q) /\ \A i \in DOMAIN q : q[i].timer \in Nat
  BY StateFacts
<1>2. T \in SUBSET Nat /\ T # {}
  BY <1>1
<1>3. PICK a \in T : \A b \in T : a <= b
  <2> HIDE DEF T
  <2> QED
    BY <1>2, LeastNumber
<1>4. PICK i \in others : a = q[i].timer
  OBVIOUS
<1>5. i \in old
  BY <1>3, <1>4
<1>6. old \in SUBSET (1 .. Len(q)) /\ old # {}
  BY <1>1, <1>5
<1>7. Max(old) \in old
  <2> HIDE DEF old
  <2> QED
    BY <1>1, <1>6, MaxFacts
<1>8. Oldest(st, id) = Max(old)
  BY DEF Oldest
<1> HIDE DEF old
<1>9. Max(old) \in others
  BY <1>7 DEF old
<1> QED
  BY <1>8, <1>9

\* Only the reassembly of `id` may be empty, and it is not freed.
LEMMA RemoveKeeps ==
  ASSUME NEW id, NEW X \in SUBSET {id}, NEW st, StateInv(st, X)
  PROVE  LET t == RemoveOldest(st, id)
         IN  /\ StateInv(t, X) /\ Fewer(t, st)
             /\ Matching(st, id) # {} => Matching(t, id) # {}
             /\ IF \E i \in DOMAIN st.queue : st.queue[i].id # id
                  THEN Len(t.queue) = Len(st.queue) - 1 /\ ~Full(t)
                  ELSE t = st
<1> DEFINE t == RemoveOldest(st, id)
<1>1. CASE ~\E i \in DOMAIN st.queue : st.queue[i].id # id
  <2>1. t = st
    BY <1>1 DEF RemoveOldest
  <2>2. Fewer(st, st)
    BY StateFacts DEF Fewer
  <2> QED
    BY <1>1, <2>1, <2>2
<1>2. CASE \E i \in DOMAIN st.queue : st.queue[i].id # id
  <2> DEFINE o == Oldest(st, id)
             l == Len(st.queue[o].frags)
  <2>1. t = FreeComplete(st, o)
    BY <1>2 DEF RemoveOldest
  <2>2. o \in DOMAIN st.queue /\ st.queue[o].id # id
    BY <1>2, OldestFacts
  <2> HIDE DEF o, t
  <2>3. /\ StateInv(t, X) /\ Fewer(t, st) /\ Len(t.queue) = Len(st.queue) - 1
        /\ t.count = st.count - l
        /\ \A m \in DOMAIN st.queue :
             m # o => \E k \in DOMAIN t.queue : t.queue[k] = st.queue[m]
    BY <2>1, <2>2, FreeKeeps
  <2>4. ASSUME Matching(st, id) # {} PROVE Matching(t, id) # {}
    <3>1. PICK m \in DOMAIN st.queue : st.queue[m].id = id
      BY <2>4 DEF Matching
    <3>2. PICK k \in DOMAIN t.queue : t.queue[k] = st.queue[m]
      BY <2>2, <2>3, <3>1
    <3> QED
      BY <3>1, <3>2 DEF Matching
  <2>5. l \in Nat /\ l # 0
    <3>1. st.queue[o].frags # <<>>
      BY <2>2 DEF StateInv
    <3>2. st.queue[o].frags \in Seq(Fragment) /\ l \in Nat
      BY <2>2, StateFacts
    <3> QED
      BY <3>1, <3>2, EmptySeq
  <2>6. ~Full(t)
    <3> DEFINE a == st.count
    <3>1. a \in 0 .. IP_REASS_MAX_PBUFS /\ t.count = a - l
      BY <2>3 DEF StateInv
    <3> HIDE DEF a, l
    <3> QED
      BY <2>5, <3>1, ReassemblyAssumption DEF Full
  <2> QED
    BY <1>2, <2>3, <2>4, <2>6 DEF t
<1> QED
  BY <1>1, <1>2

LEMMA Weaker ==
  ASSUME NEW st, NEW id, StateInv(st, {})
  PROVE  StateInv(st, {id})
BY DEF StateInv

LEMMA EnqueueKeeps ==
  ASSUME NEW id \in Nat, NEW st, StateInv(st, {id}), Matching(st, id) = {}
  PROVE  LET t == Enqueue(st, id)
         IN  /\ StateInv(t, {id}) /\ Matching(t, id) # {} /\ t.count <= st.count
<1> DEFINE s == IF Len(st.queue) = MEMP_NUM_REASSDATA THEN RemoveOldest(st, id) ELSE st
           r == [id |-> id, timer |-> IP_REASS_MAXAGE, frags |-> <<>>, datagram_len |-> 0]
           t == Enqueue(st, id)
<1>1. Len(st.queue) \in Nat /\ DOMAIN st.queue = 1 .. Len(st.queue) /\ st.count \in Nat
      /\ Len(st.queue) <= MEMP_NUM_REASSDATA /\ MEMP_NUM_REASSDATA \in Nat \ {0}
  BY StateFacts, ReassemblyAssumption DEF StateInv
<1>2. StateInv(s, {id}) /\ Fewer(s, st) /\ Len(s.queue) + 1 <= MEMP_NUM_REASSDATA
  <2>1. CASE Len(st.queue) = MEMP_NUM_REASSDATA
    <3>1. 1 \in DOMAIN st.queue
      BY <1>1, <2>1
    <3>2. st.queue[1].id # id
      BY <3>1 DEF Matching
    <3>3. s = RemoveOldest(st, id)
      BY <2>1
    <3> HIDE DEF s
    <3>4. StateInv(s, {id}) /\ Fewer(s, st) /\ Len(s.queue) = Len(st.queue) - 1
      BY <3>1, <3>2, <3>3, RemoveKeeps
    <3> QED
      BY <1>1, <2>1, <3>4
  <2>2. CASE Len(st.queue) # MEMP_NUM_REASSDATA
    <3>1. s = st
      BY <2>2
    <3> HIDE DEF s
    <3>2. Fewer(s, st)
      BY <1>1, <3>1 DEF Fewer
    <3> QED
      BY <1>1, <2>2, <3>1, <3>2
  <2> QED
    BY <2>1, <2>2
<1> HIDE DEF s
<1>3. t = [s EXCEPT !.queue = <<r>> \o s.queue]
  BY DEF Enqueue, s
<1>4. r \in Reassdata
  <2>1. <<>> \in Seq(Fragment) /\ IP_REASS_MAXAGE \in 0 .. IP_REASS_MAXAGE
    BY ReassemblyAssumption
  <2> QED
    BY <2>1 DEF Reassdata
<1>5. r.id = id /\ r.frags = <<>> /\ r.datagram_len = 0
  OBVIOUS
<1> HIDE DEF r, t
<1>6. r \in Sound
  <2>1. DOMAIN r.frags = {}
    BY <1>5
  <2> QED
    BY <1>4, <1>5, <2>1 DEF Sound, Ordered, LenKnown, OneDatagram, Waits
<1>7. /\ s \in States /\ s.queue \in Seq(Sound) /\ s.queue \in Seq(Reassdata)
      /\ Len(s.queue) \in Nat /\ DOMAIN s.queue = 1 .. Len(s.queue)
      /\ s.count \in Nat /\ s.count = PbufsOf(s.queue)
  BY <1>2, StateFacts
<1>8. /\ t.queue = <<r>> \o s.queue /\ t.count = s.count
      /\ t.queue \in Seq(Reassdata) => t \in States
  BY <1>3, <1>7 DEF States
<1>9. /\ t.queue \in Seq(Sound) /\ Len(t.queue) = Len(s.queue) + 1 /\ t.queue[1] = r
      /\ \A j \in 2 .. Len(s.queue) + 1 : t.queue[j] = s.queue[j - 1]
  BY <1>6, <1>7, <1>8, Pushed
<1>10. t \in States /\ DOMAIN t.queue = 1 .. Len(s.queue) + 1
  BY <1>8, <1>9, SoundFacts, SeqFacts
<1>11. ASSUME NEW j \in DOMAIN t.queue, j # 1
       PROVE  j - 1 \in DOMAIN s.queue /\ t.queue[j] = s.queue[j - 1]
  <2>1. j \in 2 .. Len(s.queue) + 1 /\ j - 1 \in 1 .. Len(s.queue)
    BY <1>7, <1>10, <1>11
  <2> QED
    BY <1>7, <1>9, <2>1
<1>12. \A j \in DOMAIN s.queue : s.queue[j].id # id
  <2> TAKE j \in DOMAIN s.queue
  <2>1. PICK m \in DOMAIN st.queue : s.queue[j] = st.queue[m]
    BY <1>2 DEF Fewer
  <2> QED
    BY <2>1 DEF Matching
<1>13. Distinct(t.queue)
  <2> SUFFICES ASSUME NEW j \in DOMAIN t.queue, NEW k \in DOMAIN t.queue,
                      t.queue[j].id = t.queue[k].id
               PROVE  j = k
    BY DEF Distinct
  <2>1. CASE j # 1 /\ k # 1
    <3>1. j - 1 = k - 1
      BY <1>2, <1>11, <2>1 DEF StateInv, Distinct
    <3> QED
      BY <1>10, <3>1
  <2>2. CASE j = 1 /\ k # 1
    BY <1>5, <1>9, <1>11, <1>12, <2>2
  <2>3. CASE j # 1 /\ k = 1
    BY <1>5, <1>9, <1>11, <1>12, <2>3
  <2> QED
    BY <2>1, <2>2, <2>3
<1>14. \A j \in DOMAIN t.queue : t.queue[j].frags = <<>> => t.queue[j].id \in {id}
  <2> TAKE j \in DOMAIN t.queue
  <2>1. CASE j = 1
    BY <1>5, <1>9, <2>1
  <2>2. CASE j # 1
    BY <1>2, <1>11, <2>2 DEF StateInv
  <2> QED
    BY <2>1, <2>2
<1>15. t.count = PbufsOf(t.queue)
  <2>1. PbufsOf(t.queue) = PbufsOf(s.queue) + Len(r.frags) /\ Len(r.frags) = 0
    BY <1>4, <1>5, <1>7, <1>8, PbufsPush
  <2> QED
    BY <1>7, <1>8, <2>1
<1>16. t.count <= st.count /\ t.count \in 0 .. IP_REASS_MAX_PBUFS
  BY <1>2, <1>8 DEF Fewer, StateInv
<1>17. 1 \in Matching(t, id)
  BY <1>5, <1>7, <1>9, <1>10 DEF Matching
<1>18. Len(t.queue) <= MEMP_NUM_REASSDATA
  BY <1>2, <1>9
<1> QED
  BY <1>9, <1>10, <1>13, <1>14, <1>15, <1>16, <1>17, <1>18 DEF StateInv, t

LEMMA FindKeeps ==
  ASSUME NEW id \in Nat, NEW st, StateInv(st, {id})
  PROVE  LET t == FindOrEnqueue(st, id)
         IN  /\ StateInv(t, {id}) /\ Matching(t, id) # {} /\ t.count <= st.count
<1>1. CASE Matching(st, id) = {}
  BY <1>1, EnqueueKeeps DEF FindOrEnqueue
<1>2. CASE Matching(st, id) # {}
  <2>1. st.count <= st.count
    BY StateFacts
  <2> QED
    BY <1>2, <2>1 DEF FindOrEnqueue
<1> QED
  BY <1>1, <1>2

LEMMA PreparedFacts ==
  ASSUME NEW id \in Nat, StateInv(State, {})
  PROVE  LET s == Prepared(id)
         IN  /\ StateInv(s, {id})
             /\ ~Full(s) => Matching(s, id) # {}
             /\ Full(s) => StateInv(s, {})
<1> DEFINE s == Prepared(id)
<1>1. CASE ip = 4
  <2> DEFINE m == MakeRoom(State, id)
  <2>1. StateInv(m, {})
    <3>1. StateInv(RemoveOldest(State, id), {})
      BY RemoveKeeps
    <3> QED
      BY <3>1 DEF MakeRoom
  <2>2. s = IF Full(m) THEN m ELSE FindOrEnqueue(m, id)
    BY <1>1 DEF Prepared
  <2> HIDE DEF m, s
  <2>3. StateInv(m, {id})
    BY <2>1, Weaker
  <2>4. CASE Full(m)
    BY <2>1, <2>2, <2>3, <2>4 DEF s
  <2>5. CASE ~Full(m)
    <3>1. s = FindOrEnqueue(m, id)
      BY <2>2, <2>5
    <3>2. /\ StateInv(s, {id}) /\ Matching(s, id) # {} /\ s.count <= m.count
      BY <2>3, <3>1, FindKeeps
    <3>3. ~Full(s)
      <4>1. s.count \in Nat /\ m.count \in Nat
        BY <2>3, <3>2, StateFacts
      <4> QED
        BY <2>5, <3>2, <4>1, ReassemblyAssumption DEF Full
    <3> QED
      BY <3>2, <3>3 DEF s
  <2> QED
    BY <2>4, <2>5
<1>2. CASE ip # 4
  <2> DEFINE m == FindOrEnqueue(State, id)
  <2>1. StateInv(State, {id})
    BY Weaker
  <2>2. StateInv(m, {id}) /\ Matching(m, id) # {}
    BY <2>1, FindKeeps
  <2>3. s = MakeRoom(m, id)
    BY <1>2 DEF Prepared
  <2> HIDE DEF m, s
  <2>4. CASE ~Full(m)
    <3>1. s = m
      BY <2>3, <2>4 DEF MakeRoom
    <3> QED
      BY <2>2, <2>4, <3>1 DEF s
  <2>5. CASE Full(m)
    <3>1. s = RemoveOldest(m, id)
      BY <2>3, <2>5 DEF MakeRoom
    <3>2. StateInv(s, {id}) /\ Matching(s, id) # {}
      BY <2>2, <3>1, RemoveKeeps
    <3>3. CASE \E i \in DOMAIN m.queue : m.queue[i].id # id
      <4>1. ~Full(s)
        BY <2>2, <3>1, <3>3, RemoveKeeps
      <4> QED
        BY <3>2, <4>1 DEF s
    <3>4. CASE \A i \in DOMAIN m.queue : m.queue[i].id = id
      <4>1. s = m
        BY <2>2, <3>1, <3>4, RemoveKeeps
      <4>2. StateInv(m, {})
        <5>1. Len(m.queue) \in Nat /\ DOMAIN m.queue = 1 .. Len(m.queue)
              /\ m.queue \in Seq(Reassdata) /\ m.count = PbufsOf(m.queue) /\ m.count \in Nat
          BY <2>2, StateFacts
        <5>2. PICK i \in DOMAIN m.queue : TRUE
          BY <2>2 DEF Matching
        <5>3. \A j \in DOMAIN m.queue : j = i
          BY <2>2, <3>4 DEF StateInv, Distinct
        <5>4. Len(m.queue) = 1
          <6>1. 1 \in DOMAIN m.queue /\ Len(m.queue) \in DOMAIN m.queue
            BY <5>1, <5>2
          <6> QED
            BY <5>3, <6>1
        <5> DEFINE t == RemoveAt(m.queue, i)
        <5>5. t \in Seq(Reassdata) /\ Len(t) = 0
          BY <5>1, <5>2, <5>4, Removed
        <5>6. PbufsOf(t) = PbufsOf(m.queue) - Len(m.queue[i].frags) /\ Len(m.queue[i].frags) \in Nat
          BY <5>1, PbufsRemove
        <5> HIDE DEF t
        <5>7. PbufsOf(t) = 0
          BY <5>5, PbufsNat
        <5>8. Len(m.queue[i].frags) # 0
          <6> DEFINE a == m.count
                     l == Len(m.queue[i].frags)
          <6>1. a + 1 > IP_REASS_MAX_PBUFS /\ a \in Nat /\ l \in Nat /\ 0 = a - l
            BY <2>5, <5>1, <5>6, <5>7 DEF Full
          <6> HIDE DEF a, l
          <6>2. l # 0
            BY <6>1, ReassemblyAssumption
          <6> QED
            BY <6>2 DEF l
        <5>9. \A j \in DOMAIN m.queue : m.queue[j].frags # <<>>
          BY <5>3, <5>8
        <5> QED
          BY <2>2, <5>9 DEF StateInv
      <4> QED
        BY <3>2, <4>1, <4>2 DEF s
    <3> QED
      BY <3>3, <3>4
  <2> QED
    BY <2>4, <2>5
<1> QED
  BY <1>1, <1>2

-------------------------------------------------------------------------------
(* What a sender makes of a datagram. *)

LEMMA Quotient ==
  ASSUME NEW n \in Nat, NEW p \in Nat \ {0}
  PROVE  /\ n \div p \in Nat /\ (n \div p) * p <= n /\ n < (n \div p) * p + p
         /\ \A k \in Nat : k <= n \div p <=> k * p <= n
<1> DEFINE d == n \div p
<1>1. d \in Nat
  OBVIOUS
<1>2. d * p <= n
  OBVIOUS
<1>3. n < d * p + p
  OBVIOUS
<1>4. ASSUME NEW k \in Nat, k <= d PROVE k * p <= n
  <2> HIDE DEF d
  <2>1. k * p <= d * p
    BY <1>1, <1>4
  <2>2. k * p \in Nat /\ d * p \in Nat
    BY <1>1
  <2> QED
    BY <1>2, <2>1, <2>2
<1>5. ASSUME NEW k \in Nat, k * p <= n PROVE k <= d
  <2> HIDE DEF d
  <2>1. ASSUME k >= d + 1 PROVE FALSE
    <3>1. k * p >= (d + 1) * p
      BY <1>1, <2>1
    <3>2. (d + 1) * p = d * p + p
      BY <1>1
    <3>3. k * p \in Nat /\ d * p \in Nat
      BY <1>1
    <3> QED
      BY <1>3, <1>5, <3>1, <3>2, <3>3
  <2> QED
    BY <1>1, <2>1
<1> QED
  BY <1>1, <1>2, <1>3, <1>4, <1>5

LEMMA MinOfTwo ==
  ASSUME NEW a \in Nat, NEW b \in Nat
  PROVE  Min({a, b}) = IF a <= b THEN a ELSE b
<1>1. Min({a, b}) \in {a, b} /\ \A j \in {a, b} : Min({a, b}) <= j
  BY MinFacts
<1> QED
  BY <1>1

\* The fragments of one datagram follow one another from its start to its end.
LEMMA FragmentFacts ==
  ASSUME Params, NEW d \in DOMAIN sent
  PROVE  /\ sent[d][1] \in Nat
         /\ \A f \in Fragments(d) :
              /\ f \in Fragment /\ f.d = d /\ f.start < f.end
              /\ f.end <= sent[d][1] /\ (~f.more <=> f.end = sent[d][1])
              /\ f.more => \E g \in Fragments(d) : g.start = f.end
         /\ \E f \in Fragments(d) : f.start = 0
         /\ \E f \in Fragments(d) : ~f.more
<1> DEFINE len == sent[d][1]
           piece == sent[d][2]
           n == len - 1
           K == n \div piece
           F(s) == [d |-> d, start |-> s, end |-> Min({s + piece, len}), more |-> len - s > piece]
<1>1. len \in Nat /\ piece \in Nat \ {0} /\ len > piece /\ n \in Nat
  <2>1. sent[d] \in Sizes
    BY DEF Params
  <2>2. sent[d] \in Nat \X (Nat \ {0}) /\ sent[d][1] > sent[d][2]
    BY <2>1, ReassemblyAssumption
  <2>3. len \in Nat /\ piece \in Nat \ {0} /\ len > piece
    BY <2>2
  <2> QED
    BY <2>3
<1>2. d \in 1 .. MaxDgrams
  BY ReassemblyAssumption DEF Params
<1>3. Fragments(d) = {F(s) : s \in {k * piece : k \in 0 .. K}}
  BY DEF Fragments
<1> HIDE DEF len, piece
<1>4. K \in Nat /\ K * piece <= n /\ n < K * piece + piece
      /\ \A k \in Nat : k <= K <=> k * piece <= n
  BY <1>1, Quotient
<1> HIDE DEF K
<1>5. ASSUME NEW k \in 0 .. K
      PROVE  /\ k * piece \in Nat /\ k * piece <= n
             /\ (k + 1) * piece = k * piece + piece /\ k + 1 \in Nat
  BY <1>1, <1>4
<1>6. ASSUME NEW k \in 0 .. K
      PROVE  LET f == F(k * piece)
             IN  /\ f \in Fragments(d) /\ f \in Fragment /\ f.d = d /\ f.start = k * piece
                 /\ f.start < f.end /\ f.end <= len /\ (~f.more <=> f.end = len)
                 /\ f.more => k + 1 \in 0 .. K /\ f.end = (k + 1) * piece
  <2> DEFINE s == k * piece
             f == F(s)
             e == Min({s + piece, len})
  <2>1. s \in Nat /\ s <= n /\ s < len /\ s + piece \in Nat
    BY <1>1, <1>5
  <2>2. e = IF s + piece <= len THEN s + piece ELSE len
    <3> HIDE DEF s
    <3> QED
      BY <1>1, <2>1, MinOfTwo
  <2>3. f \in Fragments(d)
    BY <1>3
  <2>4. f.d = d /\ f.start = s /\ f.end = e /\ f.more = (len - s > piece)
    OBVIOUS
  <2>5. e \in Nat /\ s < e /\ e <= len
    <3> HIDE DEF s, e
    <3> QED
      BY <1>1, <2>1, <2>2
  <2>6. f \in Fragment
    <3> DEFINE m == len - s > piece
    <3>1. m \in BOOLEAN
      OBVIOUS
    <3> HIDE DEF s, e, m
    <3>2. [d |-> d, start |-> s, end |-> e, more |-> m] \in Fragment
      BY <1>2, <2>1, <2>5, <3>1 DEF Fragment
    <3> QED
      BY <3>2 DEF s, e, m
  <2>7. ~f.more <=> f.end = len
    <3>1. ~(len - s > piece) <=> e = len
      <4> HIDE DEF s, e
      <4> QED
        BY <1>1, <2>1, <2>2
    <3> QED
      BY <2>4, <3>1
  <2>8. ASSUME f.more PROVE k + 1 \in 0 .. K /\ f.end = (k + 1) * piece
    <3>1. len - s > piece
      BY <2>4, <2>8
    <3>2. e = s + piece /\ s + piece <= n
      <4> HIDE DEF s, e
      <4> QED
        BY <1>1, <2>1, <2>2, <3>1
    <3>3. (k + 1) * piece <= n
      BY <1>5, <3>2
    <3>4. k + 1 <= K
      BY <1>4, <1>5, <3>3
    <3> QED
      BY <1>4, <1>5, <2>4, <3>2, <3>4
  <2> HIDE DEF f, e
  <2> QED
    BY <2>3, <2>4, <2>5, <2>6, <2>7, <2>8 DEF f
<1>7. ASSUME NEW f \in Fragments(d)
      PROVE  /\ f \in Fragment /\ f.d = d /\ f.start < f.end
             /\ f.end <= len /\ (~f.more <=> f.end = len)
             /\ f.more => \E g \in Fragments(d) : g.start = f.end
  <2>1. PICK k \in 0 .. K : f = F(k * piece)
    BY <1>3
  <2> HIDE DEF F
  <2>2. /\ f \in Fragment /\ f.d = d /\ f.start < f.end
        /\ f.end <= len /\ (~f.more <=> f.end = len)
        /\ f.more => k + 1 \in 0 .. K /\ f.end = (k + 1) * piece
    BY <1>6, <2>1
  <2>3. ASSUME f.more PROVE \E g \in Fragments(d) : g.start = f.end
    <3>1. k + 1 \in 0 .. K
      BY <2>2, <2>3
    <3>2. F((k + 1) * piece) \in Fragments(d) /\ F((k + 1) * piece).start = (k + 1) * piece
      BY <1>6, <3>1
    <3> QED
      BY <2>2, <2>3, <3>2
  <2> QED
    BY <2>2, <2>3
<1>8. \E f \in Fragments(d) : f.start = 0
  <2>1. 0 \in 0 .. K /\ 0 * piece = 0
    BY <1>1, <1>4
  <2> HIDE DEF F
  <2> QED
    BY <1>6, <2>1
<1>9. \E f \in Fragments(d) : ~f.more
  <2>1. K \in 0 .. K /\ ~(K + 1 \in 0 .. K)
    BY <1>4
  <2> HIDE DEF F
  <2> QED
    BY <1>6, <2>1
<1> HIDE DEF F
<1> QED
  BY <1>1, <1>7, <1>8, <1>9 DEF len

-------------------------------------------------------------------------------
(* A fragment is put in its place. *)

LEMMA PlaceFacts ==
  ASSUME NEW s \in Seq(Fragment), NEW f \in Fragment
  PROVE  /\ Place(s, f) \in 1 .. Len(s) + 1
         /\ \A i \in 1 .. Len(s) : i < Place(s, f) => s[i].start <= f.start
<1> DEFINE later == {i \in DOMAIN s : f.start < s[i].start}
<1>1. Len(s) \in Nat /\ DOMAIN s = 1 .. Len(s) /\ \A i \in 1 .. Len(s) : s[i] \in Fragment
  OBVIOUS
<1>2. f.start \in Nat /\ \A i \in 1 .. Len(s) : s[i].start \in Nat
  BY <1>1 DEF Fragment
<1>3. Place(s, f) = IF later = {} THEN Len(s) + 1 ELSE Min(later)
  BY DEF Place
<1>4. later # {} => Min(later) \in later /\ \A j \in later : Min(later) <= j
  <2>1. later \in SUBSET Nat
    BY <1>1
  <2> HIDE DEF later
  <2> QED
    BY <2>1, MinFacts
<1>5. Place(s, f) \in 1 .. Len(s) + 1
  <2>1. later \subseteq 1 .. Len(s)
    BY <1>1
  <2> HIDE DEF later
  <2>2. CASE later = {}
    BY <1>1, <1>3, <2>2
  <2>3. CASE later # {}
    <3>1. Place(s, f) \in 1 .. Len(s)
      BY <1>3, <1>4, <2>1, <2>3
    <3> QED
      BY <1>1, <3>1
  <2> QED
    BY <2>2, <2>3
<1>6. ASSUME NEW i \in 1 .. Len(s), i < Place(s, f) PROVE s[i].start <= f.start
  <2>1. i \notin later
    <3> HIDE DEF later
    <3>1. CASE later = {}
      BY <3>1
    <3>2. CASE later # {}
      <4>1. Place(s, f) = Min(later) /\ Place(s, f) \in Nat
        BY <1>3, <1>5, <3>2
      <4>2. ASSUME i \in later PROVE FALSE
        <5>1. Place(s, f) <= i
          BY <1>4, <3>2, <4>1, <4>2
        <5> QED
          BY <1>1, <1>6, <4>1, <5>1
      <4> QED
        BY <4>2
    <3> QED
      BY <3>1, <3>2
  <2>2. ~(f.start < s[i].start)
    BY <1>1, <2>1
  <2> QED
    BY <1>2, <2>2
<1> QED
  BY <1>5, <1>6

\* It comes after the fragments before its place and before those from there on.
LEMMA InsertFits ==
  ASSUME NEW s \in Seq(Fragment), Ordered(s), NEW f \in Fragment, f.start < f.end,
         ~Overlaps(s, f)
  PROVE  LET p == Place(s, f)
             t == InsertAt(s, p, f)
         IN  /\ p \in 1 .. Len(s) + 1
             /\ t \in Seq(Fragment) /\ Len(t) = Len(s) + 1 /\ t[p] = f
             /\ \A j \in DOMAIN s : \E k \in DOMAIN t : t[k] = s[j]
             /\ \A k \in DOMAIN t : k = p \/ \E j \in DOMAIN s : t[k] = s[j]
             /\ Ordered(t)
<1> DEFINE p == Place(s, f)
           t == InsertAt(s, p, f)
<1>1. Len(s) \in Nat /\ DOMAIN s = 1 .. Len(s) /\ \A i \in 1 .. Len(s) : s[i] \in Fragment
  OBVIOUS
<1>2. /\ f.start \in Nat /\ f.end \in Nat
      /\ \A i \in 1 .. Len(s) : s[i].start \in Nat /\ s[i].end \in Nat
  BY <1>1 DEF Fragment
<1>3. p \in 1 .. Len(s) + 1 /\ \A i \in 1 .. Len(s) : i < p => s[i].start <= f.start
  BY PlaceFacts
<1>4. /\ \A i \in 1 .. p - 1 : ~(f.start < s[i].end)
      /\ p <= Len(s) => ~(f.end > s[p].start)
  BY DEF Overlaps
<1> HIDE DEF p
<1>5. /\ t \in Seq(Fragment) /\ Len(t) = Len(s) + 1
      /\ \A j \in 1 .. Len(s) + 1 :
           t[j] = IF j < p THEN s[j] ELSE IF j = p THEN f ELSE s[j - 1]
  BY <1>3, InsertedSeq
<1> HIDE DEF t
<1>6. DOMAIN t = 1 .. Len(s) + 1
  BY <1>1, <1>5
<1>7. ASSUME NEW i \in 1 .. Len(s), i < p PROVE s[i].end <= f.start
  <2>1. i \in 1 .. p - 1
    BY <1>3, <1>7
  <2> QED
    BY <1>2, <1>4, <2>1
<1>8. ASSUME NEW i \in 1 .. Len(s), ~(i < p) PROVE f.end <= s[i].start
  <2>1. p <= Len(s) /\ p \in 1 .. Len(s)
    BY <1>3, <1>8
  <2>2. f.end <= s[p].start
    BY <1>2, <1>4, <2>1
  <2>3. CASE i = p
    BY <2>2, <2>3
  <2>4. CASE p < i
    <3>1. s[p].start < s[p].end /\ s[p].end <= s[i].start
      BY <1>1, <2>1, <2>4 DEF Ordered
    <3> QED
      BY <1>2, <2>1, <2>2, <3>1
  <2> QED
    BY <1>3, <1>8, <2>3, <2>4
<1>9. ASSUME NEW j \in DOMAIN t
      PROVE  /\ j < p => j \in 1 .. Len(s) /\ t[j] = s[j]
             /\ j = p => t[j] = f
             /\ j > p => j - 1 \in 1 .. Len(s) /\ ~(j - 1 < p) /\ t[j] = s[j - 1]
  <2>1. j \in 1 .. Len(s) + 1
    BY <1>6
  <2>2. t[j] = IF j < p THEN s[j] ELSE IF j = p THEN f ELSE s[j - 1]
    BY <1>5, <2>1
  <2>3. j < p => j \in 1 .. Len(s)
    BY <1>1, <1>3, <2>1
  <2>4. j > p => j - 1 \in 1 .. Len(s) /\ ~(j - 1 < p) /\ ~(j < p) /\ j # p
    BY <1>1, <1>3, <2>1
  <2> QED
    BY <1>3, <2>1, <2>2, <2>3, <2>4
<1>10. ASSUME NEW j \in DOMAIN s PROVE \E k \in DOMAIN t : t[k] = s[j]
  <2>1. CASE j < p
    <3>1. j \in DOMAIN t
      BY <1>1, <1>6
    <3> QED
      BY <1>9, <2>1, <3>1
  <2>2. CASE ~(j < p)
    <3>1. j + 1 \in DOMAIN t /\ j + 1 > p /\ (j + 1) - 1 = j
      BY <1>1, <1>3, <1>6, <2>2
    <3>2. t[j + 1] = s[(j + 1) - 1]
      BY <1>9, <3>1
    <3> QED
      BY <3>1, <3>2
  <2> QED
    BY <2>1, <2>2
<1>11. ASSUME NEW k \in DOMAIN t PROVE k = p \/ \E j \in DOMAIN s : t[k] = s[j]
  <2>1. k < p \/ k = p \/ k > p
    BY <1>3, <1>6
  <2> QED
    BY <1>1, <1>9, <2>1
<1>12. Ordered(t)
  <2>1. ASSUME NEW i \in DOMAIN t PROVE t[i].start < t[i].end
    BY <1>11, <1>9 DEF Ordered
  <2>2. ASSUME NEW i \in DOMAIN t, NEW j \in DOMAIN t, i < j PROVE t[i].end <= t[j].start
    <3>1. i \in Nat /\ j \in Nat /\ p \in Nat
      BY <1>1, <1>3, <1>6
    <3>2. CASE j < p
      <4>1. i < p
        BY <2>2, <3>1, <3>2
      <4> QED
        BY <1>1, <1>9, <2>2, <3>2, <4>1 DEF Ordered
    <3>3. CASE j = p
      <4>1. i < p
        BY <2>2, <3>1, <3>3
      <4> QED
        BY <1>7, <1>9, <3>3, <4>1
    <3>4. CASE j > p /\ i = p
      BY <1>8, <1>9, <3>4
    <3>5. CASE j > p /\ i > p
      <4>1. i - 1 < j - 1
        BY <2>2, <3>1
      <4> QED
        BY <1>1, <1>9, <3>5, <4>1 DEF Ordered
    <3>6. CASE j > p /\ i < p
      <4>1. i \in 1 .. Len(s) /\ t[i] = s[i] /\ s[i].end <= f.start
        BY <1>7, <1>9, <3>6
      <4>2. j - 1 \in 1 .. Len(s) /\ t[j] = s[j - 1] /\ f.end <= s[j - 1].start
        BY <1>8, <1>9, <3>6
      <4>3. s[i].end \in Nat /\ s[j - 1].start \in Nat
        BY <1>2, <4>1, <4>2
      <4> DEFINE a == s[i].end
                 b == s[j - 1].start
      <4>4. a <= f.start /\ f.end <= b /\ a \in Nat /\ b \in Nat
        BY <4>1, <4>2, <4>3
      <4> HIDE DEF a, b
      <4>5. a <= b
        BY <1>2, <4>4
      <4> QED
        BY <4>1, <4>2, <4>5 DEF a, b
    <3> QED
      BY <3>1, <3>2, <3>3, <3>4, <3>5, <3>6
  <2> QED
    BY <2>1, <2>2 DEF Ordered
<1>13. t[p] = f
  BY <1>3, <1>6, <1>9
<1> QED
  BY <1>3, <1>5, <1>10, <1>11, <1>12, <1>13 DEF p, t

LEMMA ChainedFacts ==
  ASSUME Params, NEW r \in Sound, NEW d \in OnTheWay, Id(d) = r.id, NEW f \in Fragments(d),
         ~Overlaps(r.frags, f)
  PROVE  LET c == Chained(r, f)
         IN  /\ c \in Reassdata /\ c.id = r.id /\ Len(c.frags) = Len(r.frags) + 1
             /\ Ordered(c.frags) /\ LenKnown(c) /\ OneDatagram(c)
             /\ ip = 4 => (Finished(c, Place(r.frags, f)) <=>
                             c.datagram_len # 0 /\ Contiguous(c.frags))
<1> DEFINE c == Chained(r, f)
           s == r.frags
           p == Place(s, f)
           t == InsertAt(s, p, f)
           l == IF f.more THEN r.datagram_len ELSE f.end
<1>1. d \in DOMAIN sent
  BY DEF OnTheWay
<1>2. f \in Fragment /\ f.d = d /\ f.start < f.end
  BY <1>1, FragmentFacts
<1>3. f.start \in Nat /\ f.end \in Nat /\ f.end # 0
  BY <1>2 DEF Fragment
<1>4. /\ r \in Reassdata /\ s \in Seq(Fragment) /\ Ordered(s) /\ LenKnown(r) /\ OneDatagram(r)
      /\ r.datagram_len \in Nat
  BY FragsFacts DEF Sound, Reassdata
<1>5. /\ t \in Seq(Fragment) /\ Len(t) = Len(s) + 1 /\ t[p] = f /\ p \in DOMAIN t
      /\ \A j \in DOMAIN s : \E k \in DOMAIN t : t[k] = s[j]
      /\ \A k \in DOMAIN t : k = p \/ \E j \in DOMAIN s : t[k] = s[j]
      /\ Ordered(t)
  <2>1. /\ t \in Seq(Fragment) /\ Len(t) = Len(s) + 1 /\ t[p] = f /\ p \in 1 .. Len(s) + 1
        /\ \A j \in DOMAIN s : \E k \in DOMAIN t : t[k] = s[j]
        /\ \A k \in DOMAIN t : k = p \/ \E j \in DOMAIN s : t[k] = s[j]
        /\ Ordered(t)
    BY <1>2, <1>4, InsertFits
  <2>2. DOMAIN t = 1 .. Len(s) + 1
    BY <2>1, SeqFacts
  <2> QED
    BY <2>1, <2>2
<1>6. c = [r EXCEPT !.frags = t, !.datagram_len = l]
  BY DEF Chained
<1>7. l \in Nat
  BY <1>3, <1>4
<1> HIDE DEF c, t, p
<1>8. c \in Reassdata /\ c.id = r.id /\ c.frags = t /\ c.datagram_len = l
  <2> HIDE DEF l
  <2> QED
    BY <1>4, <1>5, <1>6, <1>7 DEF Reassdata
<1>9. LenKnown(c)
  <2>1. CASE ~f.more
    <3>1. c.datagram_len # 0 /\ p \in DOMAIN c.frags /\ ~c.frags[p].more /\ c.frags[p].end = c.datagram_len
      BY <1>3, <1>5, <1>8, <2>1
    <3> QED
      BY <3>1 DEF LenKnown
  <2>2. CASE f.more
    <3>1. l = r.datagram_len
      BY <2>2
    <3> HIDE DEF l
    <3>2. CASE l = 0
      <4>1. \A j \in DOMAIN s : s[j].more
        BY <1>4, <3>1, <3>2 DEF LenKnown
      <4>2. \A k \in DOMAIN t : t[k].more
        BY <1>5, <2>2, <4>1
      <4> QED
        BY <1>8, <3>2, <4>2 DEF LenKnown
    <3>3. CASE l # 0
      <4>1. PICK j \in DOMAIN s : ~s[j].more /\ s[j].end = l
        BY <1>4, <3>1, <3>3 DEF LenKnown
      <4>2. PICK k \in DOMAIN t : t[k] = s[j]
        BY <1>5
      <4>3. k \in DOMAIN c.frags /\ ~c.frags[k].more /\ c.frags[k].end = c.datagram_len
        BY <1>8, <4>1, <4>2
      <4> QED
        BY <1>8, <3>3, <4>3 DEF LenKnown
    <3> QED
      BY <3>2, <3>3
  <2> QED
    BY <2>1, <2>2
<1>10. OneDatagram(c)
  <2> SUFFICES ASSUME unique, NEW k \in DOMAIN t
               PROVE  t[k].d \in OnTheWay /\ Id(t[k].d) = r.id /\ t[k] \in Fragments(t[k].d)
    BY <1>8 DEF OneDatagram
  <2>1. CASE k = p
    BY <1>2, <1>5, <2>1
  <2>2. CASE \E j \in DOMAIN s : t[k] = s[j]
    BY <1>4, <2>2 DEF OneDatagram
  <2> QED
    BY <1>5, <2>1, <2>2
<1>11. ASSUME ip = 4
       PROVE  Finished(c, p) <=> c.datagram_len # 0 /\ Contiguous(c.frags)
  BY <1>11 DEF Finished, NoHole, Contiguous
<1> QED
  BY <1>5, <1>8, <1>9, <1>10, <1>11 DEF c, p

LEMMA SameDatagram ==
  ASSUME Params, unique, NEW d \in OnTheWay, NEW e \in OnTheWay, Id(d) = Id(e)
  PROVE  d = e
<1>1. d \in DOMAIN sent /\ e \in DOMAIN sent /\ d \in Nat /\ e \in Nat
  BY DEF OnTheWay, Params
<1>2. ~(d < e) /\ ~(e < d)
  BY <1>1 DEF OnTheWay
<1> QED
  BY <1>1, <1>2

\* What holds of all the fragments of a reassembly where identifications are
\* not reused too soon.
LEMMA OneFacts ==
  ASSUME Params, unique, NEW r \in Reassdata, Ordered(r.frags), OneDatagram(r), r.frags # <<>>
  PROVE  LET d == r.frags[1].d
         IN  /\ d \in DOMAIN sent /\ 1 \in DOMAIN r.frags /\ Len(r.frags) \in DOMAIN r.frags
             /\ sent[d][1] \in Nat
             /\ \A j \in DOMAIN r.frags :
                  /\ r.frags[j].d = d /\ r.frags[j] \in Fragments(d)
                  /\ r.frags[j].start \in Nat /\ r.frags[j].end \in Nat
                  /\ r.frags[j].start < r.frags[j].end
                  /\ r.frags[j].end <= sent[d][1]
                  /\ (~r.frags[j].more <=> r.frags[j].end = sent[d][1])
<1> DEFINE s == r.frags
           d == s[1].d
<1>1. s \in Seq(Fragment) /\ Len(s) \in Nat /\ DOMAIN s = 1 .. Len(s)
  BY FragsFacts
<1>2. Len(s) # 0
  BY <1>1, EmptySeq
<1>3. 1 \in DOMAIN s /\ Len(s) \in DOMAIN s
  BY <1>1, <1>2
<1>4. d \in OnTheWay /\ Id(d) = r.id
  BY <1>3 DEF OneDatagram
<1>5. d \in DOMAIN sent
  BY <1>4 DEF OnTheWay
<1>6. ASSUME NEW j \in DOMAIN s
      PROVE  /\ s[j].d = d /\ s[j] \in Fragments(d)
             /\ s[j].start \in Nat /\ s[j].end \in Nat
             /\ s[j].start < s[j].end /\ s[j].end <= sent[d][1]
             /\ (~s[j].more <=> s[j].end = sent[d][1])
  <2>1. s[j].d \in OnTheWay /\ Id(s[j].d) = r.id /\ s[j] \in Fragments(s[j].d)
    BY DEF OneDatagram
  <2>2. s[j].d = d
    BY <1>4, <2>1, SameDatagram
  <2>3. s[j] \in Fragments(d)
    BY <2>1, <2>2
  <2>4. s[j] \in Fragment
    BY <1>1
  <2>5. s[j].start \in Nat /\ s[j].end \in Nat
    BY <2>4 DEF Fragment
  <2> HIDE DEF s, d
  <2> QED
    BY <1>5, <2>2, <2>3, <2>5, FragmentFacts
<1>7. sent[d][1] \in Nat
  BY <1>5, FragmentFacts
<1> QED
  BY <1>3, <1>5, <1>6, <1>7

LEMMA WholeFacts ==
  ASSUME Params, unique, NEW r \in Reassdata, Ordered(r.frags), LenKnown(r), OneDatagram(r),
         r.frags # <<>>, r.datagram_len # 0
  PROVE  Whole(r)
<1> DEFINE s == r.frags
           d == s[1].d
           len == sent[d][1]
           n == Len(s)
<1>1. PICK j \in DOMAIN s : ~s[j].more /\ s[j].end = r.datagram_len
  BY DEF LenKnown
<1>2. /\ n \in DOMAIN s /\ len \in Nat /\ DOMAIN s = 1 .. n /\ n \in Nat
      /\ \A i \in DOMAIN s : /\ s[i].d = d /\ s[i].start \in Nat /\ s[i].end \in Nat
                             /\ s[i].start < s[i].end /\ s[i].end <= len
                             /\ (~s[i].more <=> s[i].end = len)
  BY OneFacts, FragsFacts
<1>3. r.datagram_len = len
  BY <1>1, <1>2
<1>4. j = n
  <2>1. ASSUME j < n PROVE FALSE
    <3>1. s[j].end <= s[n].start
      BY <1>2, <2>1 DEF Ordered
    <3>2. s[j].end = len /\ s[n].start < s[n].end /\ s[n].end <= len
      BY <1>1, <1>2
    <3>3. s[n].start \in Nat /\ s[n].end \in Nat
      BY <1>2
    <3> HIDE DEF s, len, n
    <3> QED
      BY <1>2, <3>1, <3>2, <3>3
  <2> QED
    BY <1>2, <2>1
<1>5. Last(s) = s[n]
  BY DEF Last
<1> QED
  BY <1>1, <1>2, <1>3, <1>4, <1>5 DEF Whole

LEMMA Incomplete ==
  ASSUME Params, unique, ip = 4, NEW r \in Sound, r.frags # <<>>
  PROVE  ToSet(r.frags) # Fragments(r.frags[1].d)
<1> DEFINE s == r.frags
           d == s[1].d
           len == sent[d][1]
<1> SUFFICES ASSUME ToSet(s) = Fragments(d)
             PROVE  FALSE
  OBVIOUS
<1>1. /\ r \in Reassdata /\ Ordered(s) /\ LenKnown(r) /\ OneDatagram(r) /\ Waits(r)
  BY DEF Sound
<1>2. /\ d \in DOMAIN sent /\ len \in Nat /\ DOMAIN s = 1 .. Len(s) /\ Len(s) \in Nat
      /\ 1 \in DOMAIN s
      /\ \A i \in DOMAIN s : /\ s[i] \in Fragments(d) /\ s[i].start \in Nat /\ s[i].end \in Nat
                             /\ s[i].start < s[i].end /\ s[i].end <= len
                             /\ (~s[i].more <=> s[i].end = len)
  BY <1>1, OneFacts, FragsFacts
<1>3. \A f \in Fragments(d) : \E i \in DOMAIN s : s[i] = f
  BY DEF ToSet
<1>4. /\ \A f \in Fragments(d) : f.more => \E g \in Fragments(d) : g.start = f.end
      /\ \E f \in Fragments(d) : f.start = 0
      /\ \E f \in Fragments(d) : ~f.more
  BY <1>2, FragmentFacts
<1>5. \A i, j \in DOMAIN s : i < j => s[i].end <= s[j].start
  BY <1>1 DEF Ordered
<1> HIDE DEF s, d, len
<1>6. r.datagram_len # 0
  <2>1. PICK i \in DOMAIN s : ~s[i].more
    BY <1>3, <1>4
  <2> QED
    BY <1>1, <2>1 DEF LenKnown, s
<1>7. s[1].start = 0
  <2>1. PICK i \in DOMAIN s : s[i].start = 0
    BY <1>3, <1>4
  <2>2. ASSUME i # 1 PROVE FALSE
    <3>1. 1 < i
      BY <1>2, <2>2
    <3>2. s[1].end <= s[i].start /\ s[1].start < s[1].end
      BY <1>2, <1>5, <3>1
    <3>3. s[1].start \in Nat /\ s[1].end \in Nat
      BY <1>2
    <3> QED
      BY <2>1, <3>2, <3>3
  <2> QED
    BY <2>1, <2>2
<1>8. ASSUME NEW i \in 1 .. Len(s) - 1 PROVE s[i].end = s[i + 1].start
  <2>1. i \in DOMAIN s /\ i + 1 \in DOMAIN s /\ i < i + 1 /\ i \in Nat
    BY <1>2
  <2>2. s[i].end <= s[i + 1].start
    BY <1>5, <2>1
  <2>3. s[i].more
    <3>1. ASSUME s[i].end = len PROVE FALSE
      <4>1. /\ s[i + 1].start < s[i + 1].end /\ s[i + 1].end <= len
            /\ s[i + 1].start \in Nat /\ s[i + 1].end \in Nat
        BY <1>2, <2>1
      <4>2. \A a, b \in Nat : len <= a /\ a < b => ~(b <= len)
        BY <1>2
      <4> QED
        BY <2>2, <3>1, <4>1, <4>2
    <3> QED
      BY <1>2, <2>1, <3>1
  <2>4. PICK g \in Fragments(d) : g.start = s[i].end
    BY <1>2, <1>4, <2>1, <2>3
  <2>5. PICK m \in DOMAIN s : s[m] = g
    BY <1>3
  <2>6. m \in Nat /\ s[m].start = s[i].end
    BY <1>2, <2>4, <2>5
  <2>7. /\ s[i].start < s[i].end /\ s[i].start \in Nat /\ s[i].end \in Nat
        /\ s[m].start < s[m].end /\ s[m].start \in Nat /\ s[m].end \in Nat
        /\ s[i + 1].start < s[i + 1].end /\ s[i + 1].start \in Nat /\ s[i + 1].end \in Nat
    BY <1>2, <2>1
  <2>8. ~(m < i)
    <3>1. ASSUME m < i PROVE FALSE
      <4>1. s[m].end <= s[i].start
        BY <1>5, <2>1, <3>1
      <4> QED
        BY <2>6, <2>7, <4>1
    <3> QED
      BY <3>1
  <2>9. m # i
    BY <2>6, <2>7
  <2>10. ~(i + 1 < m)
    <3>1. ASSUME i + 1 < m PROVE FALSE
      <4>1. s[i + 1].end <= s[m].start
        BY <1>5, <2>1, <3>1
      <4> QED
        BY <2>2, <2>6, <2>7, <4>1
    <3> QED
      BY <3>1
  <2>11. m = i + 1
    BY <2>1, <2>6, <2>8, <2>9, <2>10
  <2> QED
    BY <2>6, <2>11
<1>9. Contiguous(s)
  BY <1>7, <1>8 DEF Contiguous
<1> QED
  BY <1>1, <1>6, <1>9 DEF Waits, s

-------------------------------------------------------------------------------
(* The steps. *)

LEMMA IdType ==
  ASSUME Params, NEW d \in DOMAIN sent
  PROVE  Id(d) \in Nat
<1>1. d \in Nat /\ id_space \in Nat \ {0}
  BY ReassemblyAssumption DEF Params
<1> QED
  BY <1>1 DEF Id

\* With a fragment in it, its reassembly is like the others.
LEMMA NoneEmpty ==
  ASSUME NEW id, NEW s, StateInv(s, {id}), NEW i \in DOMAIN s.queue, s.queue[i].id = id,
         s.queue[i].frags # <<>>
  PROVE  StateInv(s, {})
<1>1. \A j \in DOMAIN s.queue : s.queue[j].id = id => j = i
  BY DEF StateInv, Distinct
<1>2. \A j \in DOMAIN s.queue : s.queue[j].frags # <<>>
  BY <1>1 DEF StateInv
<1> QED
  BY <1>2 DEF StateInv

LEMMA Became ==
  ASSUME Params, NEW s, StateInv(s, {}), Become(s)
  PROVE  Params' /\ StateInv(State, {})'
<1>1. /\ ip' = ip /\ id_space' = id_space /\ unique' = unique /\ sent' = sent
      /\ reassdatagrams' = s.queue /\ pbufcount' = s.count
  BY DEF Become
<1>2. Params'
  BY <1>1 DEF Params
<1>3. Sound' = Sound
  BY <1>1 DEF Sound, OneDatagram, Waits, OnTheWay, Id, Fragments
<1>4. s = [queue |-> s.queue, count |-> s.count]
  BY DEF StateInv, States
<1>5. State' = s
  BY <1>1, <1>4 DEF State
<1>6. StateInv(State, {})'
  BY <1>3, <1>5 DEF StateInv
<1> QED
  BY <1>2, <1>6

LEMMA ReassKeeps ==
  ASSUME ReassInv, NEW d \in OnTheWay, NEW f \in Fragments(d), Reass(f)
  PROVE  ReassInv'
<1> DEFINE id == Id(d)
<1>1. Params /\ StateInv(State, {}) /\ d \in DOMAIN sent
  BY DEF ReassInv, OnTheWay
<1>2. f \in Fragment /\ f.d = d /\ f.start < f.end /\ id \in Nat
  BY <1>1, FragmentFacts, IdType
<1>3. PICK s : s = Prepared(id)
  OBVIOUS
<1>4. /\ StateInv(s, {id}) /\ (~Full(s) => Matching(s, id) # {})
      /\ (Full(s) => StateInv(s, {}))
  BY <1>1, <1>2, <1>3, PreparedFacts
<1>5. PICK i : i = CHOOSE j \in Matching(s, id) : TRUE
  OBVIOUS
<1>6. PICK r : r = Chained(s.queue[i], f)
  OBVIOUS
<1> DEFINE dropped == Full(s) \/ Overlaps(s.queue[i].frags, f)
           whole == Finished(r, Place(s.queue[i].frags, f))
<1>7. \/ dropped /\ Become(s) /\ up' = Null
      \/ ~dropped /\ whole /\ up' = r
         /\ Become([queue |-> RemoveAt(s.queue, i), count |-> s.count + 1 - Len(r.frags)])
      \/ ~dropped /\ ~whole /\ up' = Null
         /\ Become([queue |-> [s.queue EXCEPT ![i] = r], count |-> s.count + 1])
  BY <1>2, <1>3, <1>5, <1>6 DEF Reass
<1>8. ASSUME ~Full(s) PROVE i \in DOMAIN s.queue /\ s.queue[i].id = id
  BY <1>4, <1>5, <1>8 DEF Matching
<1>9. /\ s \in States /\ s.queue \in Seq(Sound) /\ s.queue \in Seq(Reassdata)
      /\ Len(s.queue) \in Nat /\ DOMAIN s.queue = 1 .. Len(s.queue)
      /\ s.count \in Nat /\ s.count = PbufsOf(s.queue)
      /\ \A j \in DOMAIN s.queue :
           s.queue[j] \in Sound /\ s.queue[j] \in Reassdata
           /\ s.queue[j].frags \in Seq(Fragment) /\ Len(s.queue[j].frags) \in Nat
  BY <1>4, StateFacts
<1>10. CASE dropped /\ Become(s) /\ up' = Null
  <2>1. StateInv(s, {})
    <3>1. CASE Full(s)
      BY <1>4, <3>1
    <3>2. CASE ~Full(s) /\ Overlaps(s.queue[i].frags, f)
      <4>1. i \in DOMAIN s.queue /\ s.queue[i].id = id
        BY <1>8, <3>2
      <4>2. s.queue[i].frags # <<>>
        <5>1. ASSUME s.queue[i].frags = <<>> PROVE FALSE
          <6>1. Place(<<>>, f) = 1
            BY DEF Place
          <6>2. ~Overlaps(<<>>, f)
            BY <6>1 DEF Overlaps
          <6> QED
            BY <3>2, <5>1, <6>2
        <5> QED
          BY <5>1
      <4> QED
        BY <1>4, <4>1, <4>2, NoneEmpty
    <3> QED
      BY <1>10, <3>1, <3>2
  <2>2. Params' /\ StateInv(State, {})'
    BY <1>1, <1>10, <2>1, Became
  <2>3. UpInv'
    BY <1>10 DEF UpInv
  <2> QED
    BY <2>2, <2>3 DEF ReassInv
<1>11. ASSUME ~dropped
       PROVE  /\ i \in DOMAIN s.queue /\ s.queue[i].id = id /\ ~Full(s)
              /\ r \in Reassdata /\ r.id = id /\ Len(r.frags) = Len(s.queue[i].frags) + 1
              /\ r.frags # <<>>
              /\ Ordered(r.frags) /\ LenKnown(r) /\ OneDatagram(r)
              /\ ip = 4 => (whole <=> r.datagram_len # 0 /\ Contiguous(r.frags))
  <2>1. i \in DOMAIN s.queue /\ s.queue[i].id = id /\ ~Full(s) /\ s.queue[i] \in Sound
        /\ ~Overlaps(s.queue[i].frags, f) /\ Len(s.queue[i].frags) \in Nat
    BY <1>8, <1>9, <1>11
  <2>2. /\ r \in Reassdata /\ r.id = id /\ Len(r.frags) = Len(s.queue[i].frags) + 1
        /\ Ordered(r.frags) /\ LenKnown(r) /\ OneDatagram(r)
        /\ ip = 4 => (whole <=> r.datagram_len # 0 /\ Contiguous(r.frags))
    BY <1>1, <1>6, <2>1, ChainedFacts
  <2>3. r.frags # <<>>
    <3>1. Len(r.frags) # 0
      BY <2>1, <2>2
    <3> QED
      BY <3>1
  <2> HIDE DEF whole
  <2> QED
    BY <2>1, <2>2, <2>3
<1>12. CASE ~dropped /\ whole /\ up' = r
            /\ Become([queue |-> RemoveAt(s.queue, i), count |-> s.count + 1 - Len(r.frags)])
  <2> DEFINE l == Len(s.queue[i].frags)
             n == s.count
  <2>1. i \in DOMAIN s.queue /\ s.queue[i].id = id
    BY <1>11, <1>12
  <2>2. PICK t : t = FreeComplete(s, i)
    OBVIOUS
  <2>3. StateInv(t, {id}) /\ t.queue = RemoveAt(s.queue, i) /\ t.count = n - l
    BY <1>4, <2>1, <2>2, FreeKeeps DEF FreeComplete
  <2>4. s.count + 1 - Len(r.frags) = n - l
    <3>1. Len(r.frags) = l + 1 /\ l \in Nat /\ n \in Nat
      BY <1>9, <1>11, <1>12, <2>1
    <3>2. s.count + 1 - Len(r.frags) = n + 1 - (l + 1)
      BY <3>1
    <3> HIDE DEF l, n
    <3>3. n + 1 - (l + 1) = n - l
      BY <3>1
    <3> QED
      BY <3>2, <3>3
  <2>5. StateInv(t, {})
    <3>1. \A j \in DOMAIN t.queue : t.queue[j].id # id
      <4> SUFFICES ASSUME NEW j \in DOMAIN t.queue, t.queue[j].id = id
                   PROVE  FALSE
        OBVIOUS
      <4>1. \A m \in DOMAIN s.queue : s.queue[m].id = id => m = i
        BY <1>4, <2>1 DEF StateInv, Distinct
      <4>2. Len(t.queue) = Len(s.queue) - 1 /\ DOMAIN t.queue = 1 .. Len(s.queue) - 1
        BY <1>4, <2>1, <2>2, <2>3, FreeKeeps, StateFacts
      <4>3. t.queue[j] = IF j < i THEN s.queue[j] ELSE s.queue[j + 1]
        <5>1. \A m \in 1 .. Len(s.queue) - 1 :
                RemoveAt(s.queue, i)[m] = IF m < i THEN s.queue[m] ELSE s.queue[m + 1]
          BY <1>9, <2>1, Removed
        <5>2. j \in 1 .. Len(s.queue) - 1 /\ t.queue = RemoveAt(s.queue, i)
          BY <2>3, <4>2
        <5> QED
          BY <5>1, <5>2, ZenonT(30)
      <4>4. j \in DOMAIN s.queue /\ j + 1 \in DOMAIN s.queue /\ j \in Nat /\ i \in Nat
        BY <1>9, <2>1, <4>2
      <4>5. CASE j < i
        <5>1. j = i
          BY <4>1, <4>3, <4>4, <4>5
        <5> QED
          BY <4>4, <4>5, <5>1
      <4>6. CASE ~(j < i)
        <5>1. j + 1 = i
          BY <4>1, <4>3, <4>4, <4>6
        <5> QED
          BY <4>4, <4>6, <5>1
      <4> QED
        BY <4>5, <4>6
    <3> QED
      BY <2>3, <3>1 DEF StateInv
  <2>6. Become(t)
    <3>1. t = [queue |-> RemoveAt(s.queue, i), count |-> s.count + 1 - Len(r.frags)]
      BY <2>2, <2>4 DEF FreeComplete
    <3> QED
      BY <1>12, <3>1
  <2>7. Params' /\ StateInv(State, {})'
    BY <1>1, <2>5, <2>6, Became
  <2>8. UpInv'
    <3>1. ip' = ip /\ unique' = unique /\ sent' = sent /\ up' = r
      BY <1>12, <2>6 DEF Become
    <3>2. ASSUME ip = 4 PROVE r.datagram_len # 0 /\ Contiguous(r.frags)
      BY <1>11, <1>12, <3>2
    <3>3. ASSUME ip = 4, unique PROVE Whole(r)
      <4>1. /\ r \in Reassdata /\ r.frags # <<>>
            /\ Ordered(r.frags) /\ LenKnown(r) /\ OneDatagram(r)
        BY <1>11, <1>12
      <4> QED
        BY <1>1, <3>2, <3>3, <4>1, WholeFacts
    <3>4. r \in Reassdata
      BY <1>11, <1>12
    <3> HIDE DEF dropped, whole
    <3> QED
      BY <3>1, <3>2, <3>3, <3>4 DEF UpInv, Whole
  <2> QED
    BY <2>7, <2>8 DEF ReassInv
<1>13. CASE ~dropped /\ ~whole /\ up' = Null
            /\ Become([queue |-> [s.queue EXCEPT ![i] = r], count |-> s.count + 1])
  <2>1. PICK t : t = [queue |-> [s.queue EXCEPT ![i] = r], count |-> s.count + 1]
    OBVIOUS
  <2>2. /\ i \in DOMAIN s.queue /\ s.queue[i].id = id /\ ~Full(s)
        /\ r \in Reassdata /\ r.id = id /\ Len(r.frags) = Len(s.queue[i].frags) + 1
        /\ r.frags # <<>>
    BY <1>11, <1>13
  <2>3. r \in Sound
    <3>1. ASSUME ip = 4 PROVE ~(r.datagram_len # 0 /\ Contiguous(r.frags))
      BY <1>11, <1>13, <3>1
    <3>2. Ordered(r.frags) /\ LenKnown(r) /\ OneDatagram(r)
      BY <1>11, <1>13
    <3> QED
      BY <2>2, <3>1, <3>2 DEF Sound, Waits
  <2>4. /\ t.queue = [s.queue EXCEPT ![i] = r] /\ t.count = s.count + 1
        /\ t.queue \in Seq(Sound) /\ Len(t.queue) = Len(s.queue)
        /\ DOMAIN t.queue = DOMAIN s.queue
        /\ \A j \in DOMAIN s.queue : t.queue[j] = IF j = i THEN r ELSE s.queue[j]
    BY <1>9, <2>1, <2>2, <2>3
  <2>5. Distinct(t.queue)
    <3>1. \A j \in DOMAIN s.queue : t.queue[j].id = s.queue[j].id
      BY <2>2, <2>4
    <3> QED
      BY <1>4, <2>4, <3>1 DEF StateInv, Distinct
  <2>6. t.count = PbufsOf(t.queue)
    <3> DEFINE l == Len(s.queue[i].frags)
               n == s.count
    <3>1. PbufsOf(t.queue) = (n - l) + Len(r.frags) /\ Len(r.frags) = l + 1 /\ l \in Nat /\ n \in Nat
      <4>1. PbufsOf([s.queue EXCEPT ![i] = r])
              = (PbufsOf(s.queue) - Len(s.queue[i].frags)) + Len(r.frags)
        BY <1>9, <2>2, PbufsReplace
      <4>2. t.queue = [s.queue EXCEPT ![i] = r] /\ s.count = PbufsOf(s.queue)
        BY <1>9, <2>4
      <4>3. l \in Nat /\ n \in Nat /\ Len(r.frags) = l + 1
        BY <1>9, <2>2
      <4> QED
        BY <4>1, <4>2, <4>3
    <3>2. PbufsOf(t.queue) = (n - l) + (l + 1)
      BY <3>1
    <3> HIDE DEF l, n
    <3>3. (n - l) + (l + 1) = n + 1
      BY <3>1
    <3>4. t.count = n + 1
      BY <2>4 DEF n
    <3> QED
      BY <3>2, <3>3, <3>4
  <2>7. t.count \in 0 .. IP_REASS_MAX_PBUFS
    <3> DEFINE n == s.count
    <3>1. t.count = n + 1 /\ n \in Nat /\ ~(n + 1 > IP_REASS_MAX_PBUFS)
      BY <1>9, <2>2, <2>4 DEF Full
    <3> HIDE DEF n
    <3> QED
      BY <3>1, ReassemblyAssumption
  <2>8. t \in States
    <3>1. t.queue \in Seq(Reassdata) /\ t.count \in Int
      BY <2>4, <2>7, SoundFacts, ReassemblyAssumption
    <3> QED
      BY <2>1, <3>1 DEF States
  <2>9. StateInv(t, {id})
    <3>1. \A j \in DOMAIN t.queue : t.queue[j].frags = <<>> => t.queue[j].id \in {id}
      BY <1>4, <2>2, <2>4 DEF StateInv
    <3>2. Len(t.queue) <= MEMP_NUM_REASSDATA
      BY <1>4, <2>4 DEF StateInv
    <3> QED
      BY <2>4, <2>5, <2>6, <2>7, <2>8, <3>1, <3>2 DEF StateInv
  <2>10. StateInv(t, {})
    <3>1. i \in DOMAIN t.queue /\ t.queue[i].id = id /\ t.queue[i].frags # <<>>
      BY <2>2, <2>4
    <3> QED
      BY <2>9, <3>1, NoneEmpty
  <2>11. Params' /\ StateInv(State, {})'
    BY <1>1, <1>13, <2>1, <2>10, Became
  <2>12. UpInv'
    BY <1>13 DEF UpInv
  <2> QED
    BY <2>11, <2>12 DEF ReassInv
<1> HIDE DEF dropped, whole
<1> QED
  BY <1>7, <1>10, <1>12, <1>13

LEMMA SendKeeps ==
  ASSUME ReassInv, Send
  PROVE  ReassInv'
<1> DEFINE n == Len(sent)
<1>1. /\ Params /\ StateInv(State, {})
      /\ sent \in Seq(Sizes) /\ n \in Nat /\ DOMAIN sent = 1 .. n
  BY DEF ReassInv, Params
<1>2. /\ n < MaxDgrams
      /\ unique => \A i \in DOMAIN reassdatagrams : reassdatagrams[i].id # Id(n + 1)
      /\ up' = Null /\ ip' = ip /\ id_space' = id_space /\ unique' = unique
      /\ reassdatagrams' = reassdatagrams /\ pbufcount' = pbufcount
  BY DEF Send
<1>3. PICK z \in Sizes : sent' = Append(sent, z)
  BY DEF Send
<1>4. /\ sent' \in Seq(Sizes) /\ Len(sent') = n + 1 /\ DOMAIN sent' = 1 .. n + 1
      /\ \A d \in DOMAIN sent : d \in DOMAIN sent' /\ sent'[d] = sent[d]
  BY <1>1, <1>3
<1>5. Params'
  <2>1. Len(sent') <= MaxDgrams
    BY <1>1, <1>2, <1>4, ReassemblyAssumption
  <2> QED
    BY <1>1, <1>2, <1>4, <2>1 DEF Params
<1>6. ASSUME NEW d
      PROVE  Id(d)' = Id(d) /\ (d \in DOMAIN sent => Fragments(d)' = Fragments(d))
  <2>1. Id(d)' = Id(d)
    BY <1>2 DEF Id
  <2>2. ASSUME d \in DOMAIN sent PROVE Fragments(d)' = Fragments(d)
    BY <1>4, <2>2 DEF Fragments
  <2> QED
    BY <2>1, <2>2
<1>7. ASSUME NEW r \in Sound, unique => r.id # Id(n + 1)
      PROVE  r \in Sound'
  <2>1. r \in Reassdata /\ Ordered(r.frags) /\ LenKnown(r) /\ OneDatagram(r) /\ Waits(r)
    BY DEF Sound
  <2>2. Waits(r)'
    BY <1>2, <2>1 DEF Waits
  <2>3. OneDatagram(r)'
    <3> SUFFICES ASSUME unique, NEW j \in DOMAIN r.frags
                 PROVE  /\ r.frags[j].d \in OnTheWay' /\ Id(r.frags[j].d)' = r.id
                        /\ r.frags[j] \in Fragments(r.frags[j].d)'
      BY <1>2 DEF OneDatagram
    <3> DEFINE d == r.frags[j].d
    <3>1. d \in OnTheWay /\ Id(d) = r.id /\ r.frags[j] \in Fragments(d)
      BY <2>1 DEF OneDatagram
    <3>2. d \in DOMAIN sent /\ \A e \in DOMAIN sent : e > d => Id(e) # Id(d)
      BY <3>1 DEF OnTheWay
    <3>3. ASSUME NEW e \in DOMAIN sent', e > d PROVE Id(e)' # Id(d)'
      <4>1. e \in DOMAIN sent \/ e = n + 1
        BY <1>1, <1>4
      <4>2. Id(e) # Id(d)
        BY <1>7, <3>1, <3>2, <3>3, <4>1
      <4> QED
        BY <1>6, <4>2
    <3>4. d \in OnTheWay'
      BY <1>2, <1>4, <3>2, <3>3 DEF OnTheWay
    <3>5. Id(d)' = r.id /\ r.frags[j] \in Fragments(d)'
      BY <1>6, <3>1, <3>2
    <3> QED
      BY <3>4, <3>5
  <2> QED
    BY <2>1, <2>2, <2>3 DEF Sound
<1>8. StateInv(State, {})'
  <2>1. State.queue = reassdatagrams /\ State' = State
    BY <1>2 DEF State
  <2>2. State.queue \in Seq(Sound) /\ State.queue \in Seq(Reassdata)
    BY <1>1, StateFacts
  <2>3. \A i \in 1 .. Len(reassdatagrams) : reassdatagrams[i] \in Sound'
    BY <1>2, <1>7, <2>1, <2>2, SeqFacts
  <2>4. reassdatagrams \in Seq(Sound')
    BY <2>1, <2>2, <2>3
  <2> QED
    BY <1>1, <2>1, <2>4 DEF StateInv
<1>9. UpInv'
  BY <1>2 DEF UpInv
<1> QED
  BY <1>5, <1>8, <1>9 DEF ReassInv

LEMMA TmrKeeps ==
  ASSUME ReassInv, ReassTmr
  PROVE  ReassInv'
<1>1. Params /\ StateInv(State, {})
  BY DEF ReassInv
<1>2. PICK s : s = FoldLeft(Aged, [queue |-> <<>>, count |-> pbufcount], reassdatagrams)
  OBVIOUS
<1>3. State.queue = reassdatagrams /\ State = [queue |-> reassdatagrams, count |-> pbufcount]
  BY DEF State
<1>4. reassdatagrams \in Seq(Sound)
  BY <1>1, <1>3, StateFacts
<1>5. StateInv(s, {})
  BY <1>1, <1>2, <1>3, <1>4, TimerKeeps
<1>6. Become(s) /\ up' = Null
  BY <1>2 DEF ReassTmr
<1>7. Params' /\ StateInv(State, {})'
  BY <1>1, <1>5, <1>6, Became
<1>8. UpInv'
  BY <1>6 DEF UpInv
<1> QED
  BY <1>7, <1>8 DEF ReassInv

LEMMA ReassInvariant == Spec => []ReassInv
<1>1. Init => ReassInv
  <2> SUFFICES ASSUME Init
               PROVE  ReassInv
    OBVIOUS
  <2>1. /\ ip \in {4, 6} /\ id_space \in IdSpaces /\ unique \in BOOLEAN /\ sent = <<>>
        /\ reassdatagrams = <<>> /\ pbufcount = 0 /\ up = Null
    BY DEF Init
  <2>2. Params
    BY <2>1, ReassemblyAssumption DEF Params
  <2>3. State = [queue |-> <<>>, count |-> 0] /\ State.queue = <<>> /\ State.count = 0
    BY <2>1 DEF State
  <2>4. /\ <<>> \in Seq(Reassdata) /\ <<>> \in Seq(Sound) /\ DOMAIN <<>> = {} /\ Len(<<>>) = 0
    OBVIOUS
  <2>5. PbufsOf(<<>>) = 0
    BY <2>4, PbufsNat
  <2>6. State \in States
    BY <2>3, <2>4 DEF States
  <2>7. StateInv(State, {})
    BY <2>3, <2>4, <2>5, <2>6, ReassemblyAssumption DEF StateInv, Distinct
  <2> QED
    BY <2>1, <2>2, <2>7 DEF ReassInv, UpInv
<1>2. ReassInv /\ [Next]_vars => ReassInv'
  <2> SUFFICES ASSUME ReassInv, [Next]_vars
               PROVE  ReassInv'
    OBVIOUS
  <2>1. CASE Send
    BY <2>1, SendKeeps
  <2>2. CASE Arrive
    BY <2>2, ReassKeeps DEF Arrive
  <2>3. CASE ReassTmr
    BY <2>3, TmrKeeps
  <2>4. CASE UNCHANGED vars
    <3>1. /\ ip' = ip /\ id_space' = id_space /\ unique' = unique /\ sent' = sent
          /\ reassdatagrams' = reassdatagrams /\ pbufcount' = pbufcount /\ up' = up
      BY <2>4 DEF vars
    <3>2. PICK s : s = State
      OBVIOUS
    <3>3. Become(s) /\ StateInv(s, {}) /\ Params
      BY <3>1, <3>2 DEF Become, State, ReassInv
    <3>4. Params' /\ StateInv(State, {})'
      BY <3>3, Became
    <3>5. UpInv'
      BY <3>1 DEF ReassInv, UpInv, Whole
    <3> QED
      BY <3>4, <3>5 DEF ReassInv
  <2> QED
    BY <2>1, <2>2, <2>3, <2>4 DEF Next
<1> QED
  BY <1>1, <1>2, PTL DEF Spec

-------------------------------------------------------------------------------
(* The theorems. *)

\* However fragments of datagrams arrive, begin reassemblies and make the code
\* give up others for them, and whenever the timers run: the queue keeps its
\* type within MEMP_NUM_REASSDATA, and ip_reass_pbufcount stays between 0 and
\* IP_REASS_MAX_PBUFS.
THEOREM ReassTypes == Spec => []TypeOK
<1>1. ReassInv => TypeOK
  <2> SUFFICES ASSUME ReassInv
               PROVE  TypeOK
    OBVIOUS
  <2>1. StateInv(State, {}) /\ State.queue = reassdatagrams /\ State.count = pbufcount
    BY DEF ReassInv, State
  <2>2. reassdatagrams \in Seq(Reassdata)
    BY <2>1, StateFacts
  <2>3. Len(reassdatagrams) <= MEMP_NUM_REASSDATA /\ pbufcount \in 0 .. IP_REASS_MAX_PBUFS
    BY <2>1 DEF StateInv
  <2> QED
    BY <2>2, <2>3 DEF ReassInv, Params, UpInv, TypeOK
<1> QED
  BY <1>1, ReassInvariant, PTL

\* ip_reass_free_complete_datagram, ip_reass_tmr and the end of ip4_reass and
\* ip6_reass take from ip_reass_pbufcount exactly what was added for the
\* fragments they free or pass up; no reassembly is empty when one of them
\* looks at its first fragment; fragments stay in order, apart, and under one
\* reassembly for each identification.
THEOREM CountIsRight == Spec => []Accounted
<1>1. ReassInv => Accounted
  <2> SUFFICES ASSUME ReassInv
               PROVE  Accounted
    OBVIOUS
  <2> DEFINE q == reassdatagrams
  <2>1. StateInv(State, {}) /\ State.queue = q /\ State.count = pbufcount
    BY DEF ReassInv, State
  <2>2. pbufcount = PbufsOf(q) /\ Distinct(q) /\ \A i \in DOMAIN q : q[i].frags # <<>>
    BY <2>1 DEF StateInv
  <2>3. ASSUME NEW i \in DOMAIN q, NEW j \in 1 .. Len(q[i].frags) - 1
        PROVE  q[i].frags[j].end <= q[i].frags[j + 1].start
    <3>1. q[i] \in Sound /\ q[i].frags \in Seq(Fragment) /\ Len(q[i].frags) \in Nat
      BY <2>1, StateFacts
    <3>2. j \in DOMAIN q[i].frags /\ j + 1 \in DOMAIN q[i].frags /\ j < j + 1
      BY <3>1
    <3>3. Ordered(q[i].frags)
      BY <3>1 DEF Sound
    <3> QED
      BY <3>2, <3>3 DEF Ordered
  <2> QED
    BY <2>2, <2>3 DEF Accounted, Distinct
<1> QED
  BY <1>1, ReassInvariant, PTL

\* What ip4_reass passes up has no hole; where identifications are not reused
\* too soon it is one datagram, from its first byte to its last and with
\* nothing of another, and no reassembly waits that has all the fragments of
\* its datagram.
THEOREM WholeDatagramsPass == Spec => []WholeDatagrams
<1>1. ReassInv => WholeDatagrams
  <2> SUFFICES ASSUME ReassInv, ip = 4
               PROVE  WholeDatagrams
    BY DEF WholeDatagrams
  <2>1. StateInv(State, {}) /\ State.queue = reassdatagrams /\ Params /\ UpInv
    BY DEF ReassInv, State
  <2>2. NoHoles
    BY <2>1 DEF UpInv, NoHoles
  <2>3. ASSUME unique, up # Null PROVE Whole(up)
    BY <2>1, <2>3 DEF UpInv
  <2>4. ASSUME unique, NEW i \in DOMAIN reassdatagrams
        PROVE  ToSet(reassdatagrams[i].frags) # Fragments(reassdatagrams[i].frags[1].d)
    <3>1. reassdatagrams[i] \in Sound
      BY <2>1, StateFacts
    <3>2. reassdatagrams[i].frags # <<>>
      BY <2>1 DEF StateInv
    <3> QED
      BY <2>1, <2>4, <3>1, <3>2, Incomplete
  <2> QED
    BY <2>2, <2>3, <2>4 DEF WholeDatagrams, Whole
<1> QED
  BY <1>1, ReassInvariant, PTL
===============================================================================
