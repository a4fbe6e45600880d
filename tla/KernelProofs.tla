---------------------------- MODULE KernelProofs ----------------------------
(***************************************************************************)
(* Proofs about the kernel of the pipeline.  For every set of producers,   *)
(* every number of frames and restarts, every capacity and every width of  *)
(* size_t: one connector keeps the order of the frames, loses none unseen, *)
(* and counts right as long as no two threads update its count at once     *)
(* (module Connector).  For every number of modules and of starts: when an *)
(* observer is told to stop the pipeline, and what a run leaves behind     *)
(* that nobody disturbs (module Lifecycle).                                *)
(*                                                                         *)
(* The two modules share no variable: a theorem is about one of them.      *)
(***************************************************************************)
EXTENDS Connector, Lifecycle, FiniteSetTheorems, TLAPS

-----------------------------------------------------------------------------
(* Numbers.                                                                *)

LEMMA SizeFacts == /\ SizeMax \in Nat /\ Capacity \in Nat /\ Capacity >= 1
                   /\ Cardinality(Producers) \in Nat
                   /\ Capacity + Cardinality(Producers) <= SizeMax
                   /\ \A n \in Sizes : Inc(n) \in Sizes /\ Dec(n) \in Sizes
                   /\ 0 \in Sizes
<1>1. Cardinality(Producers) \in Nat
  BY FS_CardinalityType, ProducersAssumption DEF ProducersAssumption
<1> QED BY <1>1, CapacityAssumption, ProducersAssumption
        DEF CapacityAssumption, ProducersAssumption, Sizes, Inc, Dec

LEMMA DivisionFacts ==
    ASSUME NEW n \in Int, NEW m \in Nat, m > 0
    PROVE  /\ n % m \in 0 .. m - 1 /\ n \div m \in Int
           /\ n = m * (n \div m) + (n % m)
OBVIOUS

LEMMA SmallMultiple ==
    ASSUME NEW m \in Nat, NEW q \in Int, NEW r \in Int, m * q = r, -m < r, r < m
    PROVE  q = 0
<1>1. CASE q >= 1
  <2>1. m * q >= m
    BY <1>1
  <2> QED BY <2>1
<1>2. CASE q <= -1
  <2>1. m * q <= -m
    BY <1>2
  <2> QED BY <2>1
<1> QED BY <1>1, <1>2

\* The remainder is the only one.
LEMMA RemainderUnique ==
    ASSUME NEW n \in Int, NEW m \in Nat, m > 0, NEW q \in Int, NEW r \in 0 .. m - 1,
           n = m * q + r
    PROVE  n % m = r
<1> DEFINE d == n \div m
           e == n % m
<1>1. e \in 0 .. m - 1 /\ d \in Int /\ n = m * d + e
  BY DivisionFacts
<1> HIDE DEF d, e
<1>2. m * (q - d) = e - r
  BY <1>1
<1>3. q - d = 0
  BY <1>1, <1>2, SmallMultiple
<1>4. e = r
  BY <1>1, <1>3
<1> QED BY <1>4 DEF e

\* size_t arithmetic is arithmetic modulo SizeMax + 1.
LEMMA IncRemainder ==
    ASSUME NEW n \in Int PROVE Inc(n % (SizeMax + 1)) = (n + 1) % (SizeMax + 1)
<1> DEFINE m == SizeMax + 1
           d == n \div m
           e == n % m
<1>1. m \in Nat /\ m > 0 /\ SizeMax = m - 1
  BY SizeFacts
<1>2. e \in 0 .. m - 1 /\ d \in Int /\ n = m * d + e
  BY <1>1, DivisionFacts
<1> HIDE DEF m, d, e
<1>3. CASE e = m - 1
  <2>1. n + 1 = m * (d + 1) + 0
    BY <1>1, <1>2, <1>3
  <2>2. (n + 1) % m = 0
    BY <1>1, <1>2, <2>1, RemainderUnique
  <2> QED BY <1>1, <1>3, <2>2 DEF e, m, Inc
<1>4. CASE e # m - 1
  <2>1. n + 1 = m * d + (e + 1) /\ e + 1 \in 0 .. m - 1
    BY <1>1, <1>2, <1>4
  <2>2. (n + 1) % m = e + 1
    BY <1>1, <1>2, <2>1, RemainderUnique
  <2> QED BY <1>1, <1>4, <2>2 DEF e, m, Inc
<1> QED BY <1>3, <1>4

LEMMA DecRemainder ==
    ASSUME NEW n \in Int PROVE Dec(n % (SizeMax + 1)) = (n - 1) % (SizeMax + 1)
<1> DEFINE m == SizeMax + 1
           d == n \div m
           e == n % m
<1>1. m \in Nat /\ m > 0 /\ SizeMax = m - 1
  BY SizeFacts
<1>2. e \in 0 .. m - 1 /\ d \in Int /\ n = m * d + e
  BY <1>1, DivisionFacts
<1> HIDE DEF m, d, e
<1>3. CASE e = 0
  <2>1. n - 1 = m * (d - 1) + (m - 1) /\ m - 1 \in 0 .. m - 1
    BY <1>1, <1>2, <1>3
  <2>2. (n - 1) % m = m - 1
    BY <1>1, <1>2, <2>1, RemainderUnique
  <2> QED BY <1>1, <1>3, <2>2 DEF e, m, Dec
<1>4. CASE e # 0
  <2>1. n - 1 = m * d + (e - 1) /\ e - 1 \in 0 .. m - 1
    BY <1>1, <1>2, <1>4
  <2>2. (n - 1) % m = e - 1
    BY <1>1, <1>2, <2>1, RemainderUnique
  <2> QED BY <1>1, <1>4, <2>2 DEF e, m, Dec
<1> QED BY <1>3, <1>4

\* The test of PushData sees a count that is too large, unless it is past what
\* a size_t holds.
LEMMA FullRemainder ==
    ASSUME NEW n \in Int, n < SizeMax, ~(Inc(n % (SizeMax + 1)) > Capacity)
    PROVE  n < Capacity
<1>1. SUFFICES ASSUME n >= Capacity PROVE FALSE
  BY SizeFacts
<1>2. SizeMax + 1 \in Nat /\ SizeMax + 1 > 0 /\ n \in 0 .. (SizeMax + 1) - 1
      /\ n = (SizeMax + 1) * 0 + n
  BY <1>1, SizeFacts
<1>3. n % (SizeMax + 1) = n
  BY <1>2, RemainderUnique
<1> QED BY <1>1, <1>3, SizeFacts DEF Inc

-----------------------------------------------------------------------------
(* How many producers are where.                                           *)

Those(L) == {p \in Producers : pc[p] \in L}

LEMMA ProducerFacts ==
    /\ IsFiniteSet(Producers) /\ Consumer \notin Producers
    /\ \A p \in Producers : p \in Threads /\ p # Consumer
    /\ \A t \in Threads : t # Consumer => t \in Producers
    /\ Consumer \in Threads
    /\ FrameCount \in [Producers -> Nat] /\ MaxRestarts \in Nat
BY ProducersAssumption DEF ProducersAssumption, Threads

LEMMA ThoseFacts ==
    ASSUME NEW L
    PROVE  /\ IsFiniteSet(Those(L)) /\ Cardinality(Those(L)) \in Nat
           /\ Cardinality(Those(L)) <= Cardinality(Producers)
<1>1. Those(L) \in SUBSET Producers
  BY DEF Those
<1> QED BY <1>1, ProducerFacts, FS_Subset, FS_CardinalityType

\* One producer goes from one place to another.
LEMMA ThoseMove ==
    ASSUME NEW L, NEW p \in Producers, NEW l, DOMAIN pc = Threads, Goto(p, l)
    PROVE  Cardinality(Those(L)') = Cardinality(Those(L))
                                    + (IF l \in L THEN 1 ELSE 0)
                                    - (IF pc[p] \in L THEN 1 ELSE 0)
<1>1. \A q \in Producers : pc'[q] = IF q = p THEN l ELSE pc[q]
  BY ProducerFacts DEF Goto
<1>2. IsFiniteSet(Those(L)) /\ Cardinality(Those(L)) \in Nat
  BY ThoseFacts
<1>3. CASE l \in L /\ pc[p] \notin L
  <2>1. Those(L)' = Those(L) \union {p} /\ p \notin Those(L)
    BY <1>1, <1>3 DEF Those
  <2> QED BY <1>2, <1>3, <2>1, FS_AddElement
<1>4. CASE l \notin L /\ pc[p] \in L
  <2>1. Those(L)' = Those(L) \ {p} /\ p \in Those(L)
    BY <1>1, <1>4 DEF Those
  <2> QED BY SMTT(30), <1>2, <1>4, <2>1, FS_RemoveElement
<1>5. CASE (l \in L) = (pc[p] \in L)
  <2>1. Those(L)' = Those(L)
    BY <1>1, <1>5 DEF Those
  <2> QED BY <1>2, <1>5, <2>1
<1> QED BY <1>3, <1>4, <1>5

\* A producer that is in neither of two places leaves room in both.
LEMMA ThoseRoom ==
    ASSUME NEW L, NEW M, L \intersect M = {}, NEW p \in Producers,
           pc[p] \notin L, pc[p] \notin M
    PROVE  Cardinality(Those(L)) + Cardinality(Those(M)) <= Cardinality(Producers) - 1
<1>1. IsFiniteSet(Those(L)) /\ IsFiniteSet(Those(M))
      /\ Cardinality(Those(L)) \in Nat /\ Cardinality(Those(M)) \in Nat
  BY ThoseFacts
<1>2. Those(L) \intersect Those(M) = {}
  BY DEF Those
<1>3. /\ IsFiniteSet(Those(L) \union Those(M))
      /\ Cardinality(Those(L) \union Those(M))
         = Cardinality(Those(L)) + Cardinality(Those(M))
  <2>1. Cardinality(Those(L) \intersect Those(M)) = 0
    BY <1>2, FS_EmptySet
  <2>2. /\ IsFiniteSet(Those(L) \union Those(M))
        /\ Cardinality(Those(L) \union Those(M))
           = Cardinality(Those(L)) + Cardinality(Those(M))
             - Cardinality(Those(L) \intersect Those(M))
    BY <1>1, FS_Union
  <2> QED BY <1>1, <2>1, <2>2
<1>4. /\ Those(L) \union Those(M) \in SUBSET (Producers \ {p})
      /\ IsFiniteSet(Producers \ {p})
      /\ Cardinality(Producers \ {p}) = Cardinality(Producers) - 1
  BY ProducerFacts, FS_RemoveElement DEF Those
<1>5. Cardinality(Those(L) \union Those(M)) <= Cardinality(Producers) - 1
  BY <1>4, FS_Subset
<1> QED BY <1>1, <1>3, <1>5

-----------------------------------------------------------------------------
(* The stream.                                                             *)

LEMMA FrameFacts ==
    /\ \A f \in Frames : /\ f[1] \in Producers /\ f[2] \in Nat /\ f[2] >= 1
                         /\ f[2] <= FrameCount[f[1]] /\ f = <<f[1], f[2]>>
    /\ \A p \in Producers : \A i \in 1 .. FrameCount[p] : <<p, i>> \in Frames
BY ProducerFacts DEF Frames

LEMMA ConcatFacts ==
    ASSUME NEW S, NEW p \in Seq(S), NEW q \in Seq(S)
    PROVE  /\ p \o q \in Seq(S)
           /\ Len(p \o q) = Len(p) + Len(q)
           /\ \A i \in 1 .. Len(p) + Len(q) :
                 (p \o q)[i] = IF i <= Len(p) THEN p[i] ELSE q[i - Len(p)]
OBVIOUS

LEMMA SeqFacts ==
    ASSUME NEW S, NEW q \in Seq(S)
    PROVE  /\ Len(q) \in Nat /\ \A i \in 1 .. Len(q) : q[i] \in S
           /\ q # << >> => /\ Head(q) = q[1] /\ Head(q) \in S /\ Len(q) >= 1
                           /\ Tail(q) \in Seq(S) /\ Len(Tail(q)) = Len(q) - 1
                           /\ \A i \in 1 .. Len(q) - 1 : Tail(q)[i] = q[i + 1]
           /\ \A e \in S : /\ Append(q, e) \in Seq(S)
                           /\ Len(Append(q, e)) = Len(q) + 1
                           /\ \A i \in 1 .. Len(q) : Append(q, e)[i] = q[i]
                           /\ Append(q, e)[Len(q) + 1] = e
OBVIOUS

\* Each place of the stream, and what is there.
Chained(a, b, c) == a \o b \o c

IsJoined(s, a, b, c) ==
    /\ Len(s) = Len(a) + Len(b) + Len(c)
    /\ \A i \in 1 .. Len(s) : s[i] = IF i <= Len(a) THEN a[i]
                                   ELSE IF i <= Len(a) + Len(b) THEN b[i - Len(a)]
                                   ELSE c[i - (Len(a) + Len(b))]

LEMMA ConcatThree ==
    ASSUME NEW S, NEW a \in Seq(S), NEW b \in Seq(S), NEW c \in Seq(S)
    PROVE  Chained(a, b, c) \in Seq(S) /\ IsJoined(Chained(a, b, c), a, b, c)
<1> DEFINE ab == a \o b
<1>1. /\ ab \in Seq(S) /\ Len(ab) = Len(a) + Len(b)
      /\ \A i \in 1 .. Len(a) + Len(b) :
            ab[i] = IF i <= Len(a) THEN a[i] ELSE b[i - Len(a)]
  BY ConcatFacts
<1> HIDE DEF ab
<1>2. /\ ab \o c \in Seq(S) /\ Len(ab \o c) = Len(ab) + Len(c)
      /\ \A i \in 1 .. Len(ab) + Len(c) :
            (ab \o c)[i] = IF i <= Len(ab) THEN ab[i] ELSE c[i - Len(ab)]
  <2>1. ab \in Seq(S)
    BY <1>1
  <2> QED BY <2>1
<1>3. Len(a) \in Nat /\ Len(b) \in Nat /\ Len(c) \in Nat
  BY SeqFacts
<1> SUFFICES ab \o c \in Seq(S) /\ IsJoined(ab \o c, a, b, c)
  BY DEF ab, Chained
<1> QED BY <1>1, <1>2, <1>3 DEF IsJoined

LEMMA StreamFacts ==
    ASSUME TypeOK
    PROVE  /\ Stream \in Seq(Frames) /\ Len(Stream) \in Nat
           /\ Len(Stream) = Len(received) + Len(hand) + Len(queue[C])
           /\ \A i \in 1 .. Len(Stream) : Stream[i] \in Frames
<1>1. received \in Seq(Frames) /\ hand \in Seq(Frames) /\ queue[C] \in Seq(Frames)
  BY DEF TypeOK
<1>2. Stream \in Seq(Frames) /\ Len(Stream) = Len(received) + Len(hand) + Len(queue[C])
  <2>1. Stream = Chained(received, hand, queue[C])
    BY DEF Stream, Chained
  <2>2. Stream \in Seq(Frames) /\ IsJoined(Stream, received, hand, queue[C])
    BY <1>1, <2>1, ConcatThree
  <2> QED BY <2>2 DEF IsJoined
<1> HIDE DEF Stream
<1>3. Len(Stream) \in Nat /\ \A i \in 1 .. Len(Stream) : Stream[i] \in Frames
  BY <1>2, SeqFacts
<1> QED BY <1>2, <1>3

\* One producer after another, and each frame of it behind the earlier ones.
Ordered(s) == \A i, j \in 1 .. Len(s) :
                  (i < j /\ s[i][1] = s[j][1]) => s[i][2] < s[j][2]

\* A frame is somewhere in a sequence.
In(s, g) == \E i \in 1 .. Len(s) : s[i] = g

LEMMA OrderedAppend ==
    ASSUME NEW s \in Seq(Frames), NEW f \in Frames, Ordered(s),
           \A i \in 1 .. Len(s) : s[i][1] = f[1] => s[i][2] < f[2]
    PROVE  /\ Ordered(Append(s, f))
           /\ \A g \in Frames : In(Append(s, f), g) <=> (In(s, g) \/ g = f)
<1> DEFINE t == Append(s, f)
<1>1. /\ Len(s) \in Nat /\ Len(t) = Len(s) + 1 /\ t[Len(s) + 1] = f
      /\ \A i \in 1 .. Len(s) : t[i] = s[i]
  BY SeqFacts
<1> HIDE DEF t
<1>2. Ordered(t)
  BY <1>1 DEF Ordered
<1>3. ASSUME NEW g \in Frames PROVE In(t, g) <=> (In(s, g) \/ g = f)
  <2>1. Len(s) + 1 \in 1 .. Len(t) /\ \A i \in 1 .. Len(s) : i \in 1 .. Len(t)
    BY <1>1
  <2>2. \A i \in 1 .. Len(t) : i \in 1 .. Len(s) \/ i = Len(s) + 1
    BY <1>1
  <2> QED BY <1>1, <2>1, <2>2 DEF In
<1> QED BY <1>2, <1>3 DEF t

\* t is s without its place k.
Without(s, k, t) == /\ k \in 1 .. Len(s) /\ Len(t) = Len(s) - 1
                    /\ \A i \in 1 .. Len(t) : t[i] = IF i < k THEN s[i] ELSE s[i + 1]

LEMMA OrderedWithout ==
    ASSUME NEW s \in Seq(Frames), NEW t \in Seq(Frames), NEW k, Without(s, k, t), Ordered(s)
    PROVE  /\ Ordered(t)
           /\ \A g \in Frames : In(t, g) <=> (In(s, g) /\ g # s[k])
<1>1. /\ Len(s) \in Nat /\ Len(t) = Len(s) - 1 /\ k \in 1 .. Len(s)
      /\ \A i \in 1 .. Len(t) : t[i] = IF i < k THEN s[i] ELSE s[i + 1]
      /\ \A i \in 1 .. Len(s) : s[i] \in Frames
  BY SeqFacts DEF Without
<1>2. Ordered(t)
  <2> SUFFICES ASSUME NEW i \in 1 .. Len(t), NEW j \in 1 .. Len(t), i < j,
                      t[i][1] = t[j][1]
               PROVE  t[i][2] < t[j][2]
    BY DEF Ordered
  <2> DEFINE a == IF i < k THEN i ELSE i + 1
             b == IF j < k THEN j ELSE j + 1
  <2>1. a \in 1 .. Len(s) /\ b \in 1 .. Len(s) /\ a < b
    BY <1>1
  <2>2. t[i] = s[a] /\ t[j] = s[b]
    BY <1>1
  <2> HIDE DEF a, b
  <2> QED BY <2>1, <2>2 DEF Ordered
<1>3. \A i, j \in 1 .. Len(s) : s[i] = s[j] => i = j
  <2> SUFFICES ASSUME NEW i \in 1 .. Len(s), NEW j \in 1 .. Len(s), s[i] = s[j], i < j
               PROVE  FALSE
    BY <1>1
  <2>1. s[i][2] \in Nat /\ s[i][2] < s[j][2]
    BY <1>1, FrameFacts DEF Ordered
  <2> QED BY <2>1
<1>4. ASSUME NEW i \in 1 .. Len(t) PROVE \E j \in 1 .. Len(s) : s[j] = t[i] /\ j # k
  <2>1. CASE i < k
    BY <1>1, <2>1
  <2>2. CASE ~(i < k)
    <3>1. i + 1 \in 1 .. Len(s) /\ i + 1 # k
      BY <1>1, <2>2
    <3> QED BY <1>1, <2>2, <3>1
  <2> QED BY <2>1, <2>2
<1>5. ASSUME NEW j \in 1 .. Len(s), j # k PROVE \E i \in 1 .. Len(t) : t[i] = s[j]
  <2>1. CASE j < k
    <3>1. j \in 1 .. Len(t)
      BY <1>1, <2>1
    <3> QED BY <1>1, <2>1, <3>1
  <2>2. CASE j > k
    <3>1. j - 1 \in 1 .. Len(t) /\ ~(j - 1 < k) /\ (j - 1) + 1 = j
      BY <1>1, <2>2
    <3> QED BY <1>1, <3>1
  <2> QED BY SMTT(30), <1>1, <1>5, <2>1, <2>2
<1>6. ASSUME NEW g \in Frames PROVE In(t, g) <=> (In(s, g) /\ g # s[k])
  <2>1. ASSUME NEW i \in 1 .. Len(t), t[i] = g
        PROVE  (\E j \in 1 .. Len(s) : s[j] = g) /\ g # s[k]
    <3>1. PICK j \in 1 .. Len(s) : s[j] = t[i] /\ j # k
      BY <1>4
    <3> QED BY <1>1, <1>3, <2>1, <3>1
  <2>2. ASSUME NEW j \in 1 .. Len(s), s[j] = g, g # s[k]
        PROVE  \E i \in 1 .. Len(t) : t[i] = g
    BY <1>5, <2>2
  <2> QED BY <2>1, <2>2 DEF In
<1> QED BY <1>2, <1>6

-----------------------------------------------------------------------------
(* Where the frames are.                                                   *)

\* Accounted without a count: a frame the producer has finished with is in the
\* stream, thrown away or given up, and not in two of the three.
PlacesOK ==
    \A f \in Frames :
        /\ (f[2] <= sent[f[1]]) <=> (InStream(f) \/ f \in emptied \/ f \in dropped)
        /\ ~(InStream(f) /\ f \in emptied)
        /\ ~(InStream(f) /\ f \in dropped)
        /\ ~(f \in emptied /\ f \in dropped)

LEMMA PlaceCount ==
    ASSUME NEW A, A \subseteq {1, 2, 3}
    PROVE  /\ Cardinality(A) = 0 <=> (1 \notin A /\ 2 \notin A /\ 3 \notin A)
           /\ Cardinality(A) = 1 <=> /\ 1 \in A \/ 2 \in A \/ 3 \in A
                                     /\ ~(1 \in A /\ 2 \in A)
                                     /\ ~(1 \in A /\ 3 \in A)
                                     /\ ~(2 \in A /\ 3 \in A)
<1>1. IsFiniteSet(A)
  <2>1. IsFiniteSet(1 .. 3)
    <3>1. 1 \in Int /\ 3 \in Int
      OBVIOUS
    <3> QED BY ONLY <3>1, FS_Interval
  <2>2. A \subseteq 1 .. 3
    OBVIOUS
  <2> QED BY <2>1, <2>2, FS_Subset
<1>2. Cardinality(A) = 0 <=> A = {}
  BY <1>1, FS_EmptySet
<1>3. Cardinality(A) = 1 <=> \E x : A = {x}
  BY <1>1, FS_Singleton
<1>4. A = {} <=> (1 \notin A /\ 2 \notin A /\ 3 \notin A)
  OBVIOUS
<1>5. (\E x : A = {x}) <=> (A = {1} \/ A = {2} \/ A = {3})
  OBVIOUS
<1>6. ASSUME A = {1} \/ A = {2} \/ A = {3}
      PROVE  /\ 1 \in A \/ 2 \in A \/ 3 \in A
             /\ ~(1 \in A /\ 2 \in A) /\ ~(1 \in A /\ 3 \in A) /\ ~(2 \in A /\ 3 \in A)
  BY <1>6
<1>7. ASSUME 1 \in A, 2 \notin A, 3 \notin A PROVE A = {1}
  BY <1>7
<1>8. ASSUME 1 \notin A, 2 \in A, 3 \notin A PROVE A = {2}
  BY <1>8
<1>9. ASSUME 1 \notin A, 2 \notin A, 3 \in A PROVE A = {3}
  BY <1>9
<1> QED BY <1>2, <1>3, <1>4, <1>5, <1>6, <1>7, <1>8, <1>9

LEMMA AccountedPlaces == TypeOK => (Accounted => PlacesOK) /\ (PlacesOK /\ CtlOK => Accounted)
<1> SUFFICES ASSUME TypeOK
             PROVE  (Accounted => PlacesOK) /\ (PlacesOK /\ CtlOK => Accounted)
  OBVIOUS
<1> DEFINE places(f) == {k \in 1 .. 3 : \/ k = 1 /\ InStream(f)
                                        \/ k = 2 /\ f \in emptied
                                        \/ k = 3 /\ f \in dropped}
           one(f) == /\ InStream(f) \/ f \in emptied \/ f \in dropped
                     /\ ~(InStream(f) /\ f \in emptied)
                     /\ ~(InStream(f) /\ f \in dropped)
                     /\ ~(f \in emptied /\ f \in dropped)
           none(f) == ~InStream(f) /\ f \notin emptied /\ f \notin dropped
<1>1. ASSUME NEW f \in Frames
      PROVE  /\ Cardinality(places(f)) = 0 <=> none(f)
             /\ Cardinality(places(f)) = 1 <=> one(f)
             /\ places(f) \subseteq {1} <=> f \notin emptied /\ f \notin dropped
  <2> DEFINE A == places(f)
  <2>1. /\ A \subseteq {1, 2, 3}
        /\ 1 \in A <=> InStream(f)
        /\ 2 \in A <=> f \in emptied
        /\ 3 \in A <=> f \in dropped
    OBVIOUS
  <2> HIDE DEF A
  <2>2. /\ Cardinality(A) = 0 <=> none(f)
        /\ Cardinality(A) = 1 <=> one(f)
    BY <2>1, PlaceCount
  <2>3. A \subseteq {1} <=> f \notin emptied /\ f \notin dropped
    BY <2>1
  <2> QED BY <2>2, <2>3 DEF A
<1>2. Accounted <=> \A f \in Frames :
                        /\ Cardinality(places(f)) = IF f[2] <= sent[f[1]] THEN 1 ELSE 0
                        /\ restarts = 0 /\ ctl = "run" => places(f) \subseteq {1}
  BY DEF Accounted
<1> HIDE DEF places
<1>3. ASSUME Accounted PROVE PlacesOK
  BY <1>1, <1>2, <1>3 DEF PlacesOK
<1>4. ASSUME PlacesOK, CtlOK PROVE Accounted
  <2> SUFFICES ASSUME NEW f \in Frames
               PROVE  /\ Cardinality(places(f)) = IF f[2] <= sent[f[1]] THEN 1 ELSE 0
                      /\ restarts = 0 /\ ctl = "run" => places(f) \subseteq {1}
    BY <1>2
  <2>1. ASSUME f[2] <= sent[f[1]] PROVE Cardinality(places(f)) = 1
    <3>1. one(f)
      BY <1>4, <2>1 DEF PlacesOK
    <3> QED BY <1>1, <3>1
  <2>2. ASSUME ~(f[2] <= sent[f[1]]) PROVE Cardinality(places(f)) = 0
    <3>1. none(f)
      BY <1>4, <2>2 DEF PlacesOK
    <3> QED BY <1>1, <3>1
  <2>3. restarts = 0 /\ ctl = "run" => places(f) \subseteq {1}
    BY <1>1, <1>4 DEF CtlOK
  <2> QED BY <2>1, <2>2, <2>3
<1> QED BY <1>3, <1>4

\* The stream stays as it is, and so does what is known of the frames.
LEMMA PlacesSame ==
    ASSUME TypeOK, PlacesOK, InOrderPerProducer, Stream' = Stream,
           UNCHANGED <<sent, emptied, dropped>>
    PROVE  PlacesOK' /\ InOrderPerProducer'
<1>1. InOrderPerProducer'
  BY DEF InOrderPerProducer
<1>2. \A f \in Frames : InStream(f)' <=> InStream(f)
  BY DEF InStream
<1> QED BY <1>1, <1>2 DEF PlacesOK

\* One frame leaves the stream, to be thrown away or given up.
LEMMA PlacesRemove ==
    ASSUME TypeOK, PlacesOK, InOrderPerProducer, Stream' \in Seq(Frames),
           NEW k, Without(Stream, k, Stream'), sent' = sent,
           \/ emptied' = emptied \union {Stream[k]} /\ dropped' = dropped
           \/ dropped' = dropped \union {Stream[k]} /\ emptied' = emptied
    PROVE  PlacesOK' /\ InOrderPerProducer' /\ Stream[k] \in Frames /\ Stream[k] \notin emptied
<1>1. Stream \in Seq(Frames) /\ \A i \in 1 .. Len(Stream) : Stream[i] \in Frames
  BY StreamFacts
<1>2. k \in 1 .. Len(Stream) /\ Stream[k] \in Frames /\ InStream(Stream[k])
  BY <1>1 DEF Without, InStream
<1>3. Ordered(Stream)
  BY DEF Ordered, InOrderPerProducer
<1> DEFINE s == Stream
           t == Stream'
<1>4. /\ Ordered(t)
      /\ \A g \in Frames : In(t, g) <=> (In(s, g) /\ g # s[k])
  <2> HIDE DEF s, t
  <2>1. s \in Seq(Frames) /\ t \in Seq(Frames) /\ Without(s, k, t) /\ Ordered(s)
    BY <1>1, <1>3 DEF s, t
  <2> QED BY <2>1, OrderedWithout
<1>5. \A g \in Frames : InStream(g)' <=> (InStream(g) /\ g # Stream[k])
  BY <1>4 DEF InStream, In
<1>6. PlacesOK'
  BY <1>2, <1>5 DEF PlacesOK
<1>7. InOrderPerProducer'
  BY <1>4 DEF InOrderPerProducer, Ordered
<1>8. Stream[k] \notin emptied
  BY <1>2 DEF PlacesOK
<1> QED BY <1>2, <1>6, <1>7, <1>8

LEMMA NextInFrames ==
    ASSUME TypeOK, NEW p \in Producers, sent[p] < FrameCount[p] PROVE Next1(p) \in Frames
<1>1. sent[p] + 1 \in 1 .. FrameCount[p]
  BY ProducerFacts DEF TypeOK
<1> QED BY <1>1, FrameFacts DEF Next1

\* A producer is done with its next frame, ...
LEMMA NextFacts ==
    ASSUME TypeOK, PlacesOK, NEW p \in Producers, sent[p] < FrameCount[p],
           sent' = [sent EXCEPT ![p] = @ + 1]
    PROVE  /\ Next1(p) \in Frames
           /\ ~InStream(Next1(p)) /\ Next1(p) \notin emptied /\ Next1(p) \notin dropped
           /\ \A f \in Frames : f[2] <= sent'[f[1]] <=> f[2] <= sent[f[1]] \/ f = Next1(p)
<1>1. sent[p] \in Nat /\ FrameCount[p] \in Nat
  BY ProducerFacts DEF TypeOK
<1>2. /\ Next1(p) \in Frames /\ Next1(p)[1] = p /\ Next1(p)[2] = sent[p] + 1
  <2>1. sent[p] + 1 \in 1 .. FrameCount[p]
    BY <1>1
  <2> QED BY <2>1, FrameFacts DEF Next1
<1>3. ~(Next1(p)[2] <= sent[Next1(p)[1]])
  BY <1>1, <1>2
<1>4. ~InStream(Next1(p)) /\ Next1(p) \notin emptied /\ Next1(p) \notin dropped
  BY <1>2, <1>3 DEF PlacesOK
<1>5. ASSUME NEW f \in Frames
      PROVE  f[2] <= sent'[f[1]] <=> f[2] <= sent[f[1]] \/ f = Next1(p)
  <2>1. f[1] \in Producers /\ f[2] \in Nat /\ f = <<f[1], f[2]>>
    BY FrameFacts
  <2>2. CASE f[1] = p
    <3>1. sent'[f[1]] = sent[p] + 1
      BY <2>2 DEF TypeOK
    <3>2. f = Next1(p) <=> f[2] = sent[p] + 1
      BY <1>2, <2>1, <2>2 DEF Next1
    <3> QED BY <1>1, <2>1, <2>2, <3>1, <3>2
  <2>3. CASE f[1] # p
    <3>1. sent'[f[1]] = sent[f[1]] /\ f # Next1(p)
      BY <1>2, <2>1, <2>3 DEF TypeOK
    <3> QED BY <3>1
  <2> QED BY <2>2, <2>3
<1> QED BY <1>2, <1>4, <1>5

\* ... which has joined the end of the stream, or is given up.
LEMMA PlacesPush ==
    ASSUME TypeOK, PlacesOK, InOrderPerProducer,
           NEW p \in Producers, sent[p] < FrameCount[p],
           sent' = [sent EXCEPT ![p] = @ + 1], emptied' = emptied,
           \/ Stream' = Append(Stream, Next1(p)) /\ dropped' = dropped
           \/ Stream' = Stream /\ dropped' = dropped \union {Next1(p)}
    PROVE  PlacesOK' /\ InOrderPerProducer'
<1>1. /\ Next1(p) \in Frames
      /\ ~InStream(Next1(p)) /\ Next1(p) \notin emptied /\ Next1(p) \notin dropped
      /\ \A f \in Frames : f[2] <= sent'[f[1]] <=> f[2] <= sent[f[1]] \/ f = Next1(p)
  BY NextFacts
<1>2. CASE Stream' = Stream /\ dropped' = dropped \union {Next1(p)}
  <2>1. \A f \in Frames : InStream(f)' <=> InStream(f)
    BY <1>2 DEF InStream
  <2>2. PlacesOK'
    BY <1>1, <1>2, <2>1 DEF PlacesOK
  <2> QED BY <1>2, <2>2 DEF InOrderPerProducer
<1>3. CASE Stream' = Append(Stream, Next1(p)) /\ dropped' = dropped
  <2>1. Stream \in Seq(Frames) /\ \A i \in 1 .. Len(Stream) : Stream[i] \in Frames
    BY StreamFacts
  <2>2. Next1(p)[1] = p /\ Next1(p)[2] = sent[p] + 1 /\ sent[p] \in Nat
    BY DEF Next1, TypeOK
  <2>3. ASSUME NEW i \in 1 .. Len(Stream), Stream[i][1] = p
        PROVE  Stream[i][2] < sent[p] + 1
    <3>1. InStream(Stream[i]) /\ Stream[i] \in Frames /\ Stream[i][2] \in Nat
      BY <2>1, FrameFacts DEF InStream
    <3>2. Stream[i][2] <= sent[p]
      BY <2>3, <3>1 DEF PlacesOK
    <3> QED BY <2>2, <3>1, <3>2
  <2>4. Ordered(Stream)
    BY DEF Ordered, InOrderPerProducer
  <2>5. /\ Ordered(Append(Stream, Next1(p)))
        /\ \A g \in Frames : In(Append(Stream, Next1(p)), g) <=> (In(Stream, g) \/ g = Next1(p))
    BY <1>1, <2>1, <2>2, <2>3, <2>4, OrderedAppend
  <2>6. \A g \in Frames : InStream(g)' <=> (InStream(g) \/ g = Next1(p))
    BY <1>3, <2>5 DEF InStream, In
  <2>7. PlacesOK'
    BY <1>1, <1>3, <2>6 DEF PlacesOK
  <2>8. InOrderPerProducer'
    BY <1>3, <2>5 DEF InOrderPerProducer, Ordered
  <2> QED BY <2>7, <2>8
<1> QED BY <1>2, <1>3

-----------------------------------------------------------------------------
(* Types, and who is where.                                                *)

\* A producer does something else next and leaves the others alone.
LEMMA ProducerGoes ==
    ASSUME TypeOK, PcOK, NEW p \in Producers, Goto(p, pc'[p]),
           pc'[p] \in {"push", "refused", "enqueue", "incLoad", "incStore"},
           sent' = sent \/ (sent' = [sent EXCEPT ![p] = @ + 1] /\ sent[p] < FrameCount[p]),
           pc'[p] \in {"refused", "enqueue"} => sent'[p] < FrameCount[p],
           hand' = hand
    PROVE  /\ PcOK' /\ sent' \in [Producers -> Nat]
           /\ \A q \in Producers : sent'[q] <= FrameCount[q]
           /\ DOMAIN pc' = Threads /\ \A t \in Threads \ {p} : pc'[t] = pc[t]
<1>1. /\ DOMAIN pc' = Threads /\ \A t \in Threads \ {p} : pc'[t] = pc[t]
      /\ pc'[Consumer] = pc[Consumer]
  BY ProducerFacts DEF Goto, TypeOK, Labels
<1>2. /\ sent' \in [Producers -> Nat]
      /\ \A q \in Producers : q # p => sent'[q] = sent[q]
      /\ \A q \in Producers : sent'[q] <= FrameCount[q]
  <2>1. CASE sent' = sent
    BY <2>1 DEF TypeOK
  <2>2. CASE sent' = [sent EXCEPT ![p] = @ + 1] /\ sent[p] < FrameCount[p]
    <3>1. sent[p] \in Nat /\ FrameCount[p] \in Nat
      BY ProducerFacts DEF TypeOK
    <3>2. sent[p] + 1 \in Nat /\ sent[p] + 1 <= FrameCount[p]
      BY <2>2, <3>1
    <3> QED BY <2>2, <3>2 DEF TypeOK
  <2> QED BY <2>1, <2>2
<1>3. \A q \in Producers :
         /\ pc'[q] \in {"push", "refused", "enqueue", "incLoad", "incStore"}
         /\ pc'[q] \in {"refused", "enqueue"} => sent'[q] < FrameCount[q]
  BY <1>1, <1>2, ProducerFacts DEF PcOK
<1> QED BY <1>1, <1>2, <1>3 DEF PcOK

\* So does TaskLoop.
LEMMA ConsumerGoes ==
    ASSUME TypeOK, PcOK, Goto(Consumer, pc'[Consumer]), sent' = sent,
           pc'[Consumer] \in {"loop", "pop", "decLoad", "decStore", "recheck", "exit"},
           Len(hand') = IF pc'[Consumer] \in {"decLoad", "decStore", "recheck"} THEN 1 ELSE 0
    PROVE  PcOK' /\ DOMAIN pc' = Threads /\ \A t \in Producers : pc'[t] = pc[t]
<1>1. DOMAIN pc' = Threads /\ \A p \in Producers : pc'[p] = pc[p]
  BY ProducerFacts DEF Goto, TypeOK, Labels
<1> QED BY <1>1 DEF PcOK

LEMMA SizeTypes ==
    ASSUME TypeOK, NEW t \in Threads
    PROVE  /\ [reg EXCEPT ![t] = current_size[C]] \in [Threads -> Sizes]
           /\ reg[t] \in Sizes /\ current_size[C] \in Sizes
           /\ \A n \in Sizes : /\ [current_size EXCEPT ![C] = Inc(n)] \in [{C} -> Sizes]
                              /\ [current_size EXCEPT ![C] = Dec(n)] \in [{C} -> Sizes]
BY SizeFacts DEF TypeOK

LEMMA LoadTypes ==
    ASSUME TypeOK, NEW t \in Threads, NEW from, NEW to, LoadSize(t, from, to)
    PROVE  reg' \in [Threads -> Sizes] /\ raced' \in BOOLEAN
BY SizeTypes DEF LoadSize, TypeOK

LEMMA TypeProducer ==
    ASSUME TypeOK, PcOK, CtlOK, NEW p \in Producers, ProducerStep(p)
    PROVE  TypeOK' /\ PcOK' /\ CtlOK'
<1>1. p \in Threads
  BY ProducerFacts
<1>2. CASE PushCheck(p) \/ PushRetry(p)
  <2>1. /\ pc' \in [Threads -> Labels]
        /\ pc'[p] \in {"push", "refused", "enqueue"} /\ Goto(p, pc'[p])
    BY <1>1, <1>2 DEF PushCheck, PushRetry, Goto, TypeOK, Labels
  <2>2. /\ UNCHANGED <<queue, current_size, stop, reg, sent, hand, received, emptied,
                       dropped, ctl, restarts, raced>>
        /\ sent[p] < FrameCount[p]
    BY <1>2 DEF PushCheck, PushRetry, PcOK
  <2>3. PcOK'
    BY <2>1, <2>2, ProducerGoes
  <2> QED BY <2>1, <2>2, <2>3 DEF TypeOK, CtlOK
<1>3. CASE PushGiveUp(p)
  <2>1. /\ pc' \in [Threads -> Labels]
        /\ pc'[p] = "push" /\ Goto(p, pc'[p])
    BY <1>1, <1>3 DEF PushGiveUp, Goto, TypeOK, Labels
  <2>2. /\ UNCHANGED <<queue, current_size, stop, reg, hand, received, emptied, ctl,
                       restarts, raced>>
        /\ sent[p] < FrameCount[p] /\ sent' = [sent EXCEPT ![p] = @ + 1]
        /\ stop[C] /\ dropped' = dropped \union {Next1(p)}
    BY <1>3 DEF PushGiveUp, PcOK
  <2>3. PcOK' /\ sent' \in [Producers -> Nat] /\ \A q \in Producers : sent'[q] <= FrameCount[q]
    BY <2>1, <2>2, ProducerGoes
  <2>4. Next1(p) \in Frames
    BY <2>2, NextInFrames
  <2> QED BY <2>1, <2>2, <2>3, <2>4 DEF TypeOK, CtlOK
<1>4. CASE PushEnqueue(p)
  <2>1. /\ pc' \in [Threads -> Labels]
        /\ pc'[p] = "incLoad" /\ Goto(p, pc'[p])
    BY <1>1, <1>4 DEF PushEnqueue, Goto, TypeOK, Labels
  <2>2. /\ UNCHANGED <<current_size, stop, reg, hand, received, emptied, dropped, ctl,
                       restarts, raced>>
        /\ sent[p] < FrameCount[p] /\ sent' = [sent EXCEPT ![p] = @ + 1]
        /\ queue' = [queue EXCEPT ![C] = Append(@, Next1(p))]
    BY <1>4 DEF PushEnqueue, Enqueue, PcOK
  <2>3. PcOK' /\ sent' \in [Producers -> Nat] /\ \A q \in Producers : sent'[q] <= FrameCount[q]
    BY <2>1, <2>2, ProducerGoes
  <2>4. Append(queue[C], Next1(p)) \in Seq(Frames)
    BY <2>2, NextInFrames, SeqFacts DEF TypeOK
  <2>5. queue' \in [{C} -> Seq(Frames)]
    BY <2>2, <2>4 DEF TypeOK
  <2> QED BY <2>1, <2>2, <2>3, <2>5 DEF TypeOK, CtlOK
<1>5. CASE PushLoad(p)
  <2>1. /\ pc' \in [Threads -> Labels]
        /\ pc'[p] = "incStore" /\ Goto(p, pc'[p])
    BY <1>1, <1>5 DEF PushLoad, LoadSize, Goto, TypeOK, Labels
  <2>2. UNCHANGED <<queue, current_size, stop, sent, hand, received, emptied, dropped,
                    ctl, restarts>>
    BY <1>5 DEF PushLoad, LoadSize
  <2>3. PcOK'
    BY <2>1, <2>2, ProducerGoes
  <2>4. reg' \in [Threads -> Sizes] /\ raced' \in BOOLEAN
    BY <1>1, <1>5, LoadTypes DEF PushLoad
  <2> QED BY <2>1, <2>2, <2>3, <2>4 DEF TypeOK, CtlOK
<1>6. CASE PushStore(p)
  <2>1. /\ pc' \in [Threads -> Labels]
        /\ pc'[p] = "push" /\ Goto(p, pc'[p])
    BY <1>1, <1>6 DEF PushStore, Goto, TypeOK, Labels
  <2>2. UNCHANGED <<queue, stop, reg, sent, hand, received, emptied, dropped, ctl,
                    restarts, raced>>
    BY <1>6 DEF PushStore
  <2>3. PcOK'
    BY <2>1, <2>2, ProducerGoes
  <2>4. current_size' \in [{C} -> Sizes]
    BY <1>1, <1>6, SizeTypes DEF PushStore, StoreInc
  <2> QED BY <2>1, <2>2, <2>3, <2>4 DEF TypeOK, CtlOK
<1> QED BY <1>2, <1>3, <1>4, <1>5, <1>6 DEF ProducerStep

LEMMA TypeConsumer ==
    ASSUME TypeOK, PcOK, CtlOK, ConsumerStep PROVE TypeOK' /\ PcOK' /\ CtlOK'
<1>1. Consumer \in Threads
  BY ProducerFacts
<1>2. hand \in Seq(Frames) /\ queue[C] \in Seq(Frames) /\ received \in Seq(Frames)
  BY DEF TypeOK
<1>3. CASE ConsumerLoop \/ GetTimeout
  <2>1. /\ pc' \in [Threads -> Labels]
        /\ pc'[Consumer] \in {"exit", "pop", "loop"} /\ Goto(Consumer, pc'[Consumer])
    BY <1>1, <1>3 DEF ConsumerLoop, GetTimeout, Goto, TypeOK, Labels
  <2>2. /\ UNCHANGED <<queue, current_size, stop, reg, sent, hand, received, emptied,
                       dropped, ctl, restarts, raced>>
        /\ Len(hand) = 0
    BY <1>3 DEF ConsumerLoop, GetTimeout, PcOK
  <2>3. PcOK'
    BY <2>1, <2>2, ConsumerGoes
  <2> QED BY <2>1, <2>2, <2>3 DEF TypeOK, CtlOK
<1>4. CASE GetPop
  <2>1. /\ pc' \in [Threads -> Labels]
        /\ pc'[Consumer] = "decLoad" /\ Goto(Consumer, pc'[Consumer])
    BY <1>1, <1>4 DEF GetPop, Goto, TypeOK, Labels
  <2>2. /\ UNCHANGED <<current_size, stop, reg, sent, received, emptied, dropped, ctl,
                       restarts, raced>>
        /\ queue[C] # << >> /\ queue' = [queue EXCEPT ![C] = Tail(@)]
        /\ hand' = << Head(queue[C]) >>
    BY <1>4 DEF GetPop, Dequeue
  <2>3. hand' \in Seq(Frames) /\ Len(hand') = 1 /\ Tail(queue[C]) \in Seq(Frames)
    BY <1>2, <2>2, SeqFacts
  <2>4. PcOK'
    BY <2>1, <2>2, <2>3, ConsumerGoes
  <2>5. queue' \in [{C} -> Seq(Frames)]
    BY <2>2, <2>3 DEF TypeOK
  <2> QED BY <2>1, <2>2, <2>3, <2>4, <2>5 DEF TypeOK, CtlOK
<1>5. CASE GetLoad
  <2>1. /\ pc' \in [Threads -> Labels]
        /\ pc'[Consumer] = "decStore" /\ Goto(Consumer, pc'[Consumer])
    BY <1>1, <1>5 DEF GetLoad, LoadSize, Goto, TypeOK, Labels
  <2>2. /\ UNCHANGED <<queue, current_size, stop, sent, hand, received, emptied, dropped,
                       ctl, restarts>>
        /\ Len(hand) = 1
    BY <1>5 DEF GetLoad, LoadSize, PcOK
  <2>3. PcOK'
    BY <2>1, <2>2, ConsumerGoes
  <2>4. reg' \in [Threads -> Sizes] /\ raced' \in BOOLEAN
    BY <1>1, <1>5, LoadTypes DEF GetLoad
  <2> QED BY <2>1, <2>2, <2>3, <2>4 DEF TypeOK, CtlOK
<1>6. CASE GetStore
  <2>1. /\ pc' \in [Threads -> Labels]
        /\ pc'[Consumer] = "recheck" /\ Goto(Consumer, pc'[Consumer])
    BY <1>1, <1>6 DEF GetStore, Goto, TypeOK, Labels
  <2>2. /\ UNCHANGED <<queue, stop, reg, sent, hand, received, emptied, dropped, ctl,
                       restarts, raced>>
        /\ Len(hand) = 1
    BY <1>6 DEF GetStore, PcOK
  <2>3. PcOK'
    BY <2>1, <2>2, ConsumerGoes
  <2>4. current_size' \in [{C} -> Sizes]
    BY <1>1, <1>6, SizeTypes DEF GetStore, StoreDec
  <2> QED BY <2>1, <2>2, <2>3, <2>4 DEF TypeOK, CtlOK
<1>7. CASE ConsumerDeliver
  <2>1. /\ pc' \in [Threads -> Labels]
        /\ pc'[Consumer] \in {"exit", "loop"} /\ Goto(Consumer, pc'[Consumer])
    BY <1>1, <1>7 DEF ConsumerDeliver, Goto, TypeOK, Labels
  <2>2. /\ UNCHANGED <<queue, current_size, stop, reg, sent, emptied, ctl, restarts, raced>>
        /\ hand' = << >> /\ Len(hand) = 1
        /\ \/ stop[C] /\ dropped' = dropped \union {hand[1]} /\ received' = received
           \/ received' = received \o hand /\ dropped' = dropped
    BY <1>7 DEF ConsumerDeliver, PcOK
  <2>3. hand' \in Seq(Frames) /\ Len(hand') = 0 /\ hand[1] \in Frames
    BY <1>2, <2>2
  <2>4. received \o hand \in Seq(Frames)
    BY <1>2, ConcatFacts
  <2>5. PcOK'
    BY <2>1, <2>2, <2>3, ConsumerGoes
  <2> QED BY <2>1, <2>2, <2>3, <2>4, <2>5 DEF TypeOK, CtlOK
<1> QED BY <1>3, <1>4, <1>5, <1>6, <1>7 DEF ConsumerStep

LEMMA TypeController ==
    ASSUME TypeOK, PcOK, CtlOK, CtlStop \/ CtlFinish PROVE TypeOK' /\ PcOK' /\ CtlOK'
<1>1. CASE CtlStop \/ EmptyQueueDone
  <2>1. /\ UNCHANGED <<queue, current_size, pc, reg, sent, hand, received, emptied,
                       dropped, restarts, raced>>
        /\ ctl' \in {"empty", "join"}
        /\ stop' = [stop EXCEPT ![C] = TRUE] \/ (stop' = stop /\ ctl # "run")
        /\ restarts < MaxRestarts
    BY <1>1 DEF CtlStop, EmptyQueueDone, SetStop, CtlOK
  <2>2. stop' \in [{C} -> BOOLEAN] /\ stop'[C] = TRUE
    BY <2>1 DEF TypeOK, CtlOK
  <2> QED BY <2>1, <2>2 DEF TypeOK, PcOK, CtlOK
<1>2. CASE EmptyQueuePop
  <2>1. /\ UNCHANGED <<current_size, stop, pc, reg, sent, hand, received, dropped, ctl,
                       restarts, raced>>
        /\ ctl = "empty" /\ queue[C] # << >> /\ queue' = [queue EXCEPT ![C] = Tail(@)]
        /\ emptied' = emptied \union {Head(queue[C])}
    BY <1>2 DEF EmptyQueuePop, Dequeue
  <2>2. Head(queue[C]) \in Frames /\ Tail(queue[C]) \in Seq(Frames)
    BY <2>1, SeqFacts DEF TypeOK
  <2>3. queue' \in [{C} -> Seq(Frames)]
    BY <2>1, <2>2 DEF TypeOK
  <2>4. emptied' \subseteq Frames /\ IsFiniteSet(emptied')
    BY <2>1, <2>2, FS_AddElement DEF TypeOK
  <2> QED BY <2>1, <2>3, <2>4 DEF TypeOK, PcOK, CtlOK
<1>3. CASE CtlRestart
  <2>1. /\ UNCHANGED <<queue, current_size, reg, sent, hand, received, emptied, dropped, raced>>
        /\ ctl = "join" /\ pc[Consumer] = "exit" /\ Goto(Consumer, "loop")
        /\ ctl' = "run" /\ restarts' = restarts + 1
        /\ stop' = [stop EXCEPT ![C] = FALSE]
    BY <1>3 DEF CtlRestart, SetStop
  <2>2. /\ pc' \in [Threads -> Labels]
        /\ pc'[Consumer] = "loop" /\ Goto(Consumer, pc'[Consumer]) /\ Len(hand) = 0
    BY <2>1, ProducerFacts DEF Goto, TypeOK, Labels, PcOK
  <2>3. PcOK'
    BY <2>1, <2>2, ConsumerGoes
  <2>4. stop' \in [{C} -> BOOLEAN] /\ stop'[C] = FALSE
    BY <2>1 DEF TypeOK
  <2>5. restarts' \in 0 .. MaxRestarts /\ restarts' # 0
    BY <2>1, <1>3, ProducerFacts DEF TypeOK, CtlOK
  <2> QED BY <2>1, <2>2, <2>3, <2>4, <2>5 DEF TypeOK, CtlOK
<1> QED BY <1>1, <1>2, <1>3 DEF CtlFinish

-----------------------------------------------------------------------------
(* How the steps move the frames.                                          *)

LEMMA SeqEqual ==
    ASSUME NEW S, NEW s \in Seq(S), NEW t \in Seq(S), Len(s) = Len(t),
           \A i \in 1 .. Len(s) : s[i] = t[i]
    PROVE  s = t
OBVIOUS

\* A frame is pushed behind the stream.
LEMMA StreamPush ==
    ASSUME NEW S, NEW a \in Seq(S), NEW b \in Seq(S), NEW c \in Seq(S), NEW e \in S
    PROVE  Chained(a, b, Append(c, e)) = Append(Chained(a, b, c), e)
<1> DEFINE d == Append(c, e)
           s == Chained(a, b, c)
           t == Chained(a, b, d)
           u == Append(s, e)
           n == Len(a) + Len(b)
<1>1. /\ d \in Seq(S) /\ Len(d) = Len(c) + 1 /\ d[Len(c) + 1] = e
      /\ \A i \in 1 .. Len(c) : d[i] = c[i]
      /\ Len(a) \in Nat /\ Len(b) \in Nat /\ Len(c) \in Nat
  BY SeqFacts
<1>2. s \in Seq(S) /\ IsJoined(s, a, b, c)
  BY ConcatThree
<1>3. t \in Seq(S) /\ IsJoined(t, a, b, d)
  <2>1. d \in Seq(S)
    BY <1>1
  <2> HIDE DEF d
  <2> QED BY <2>1, ConcatThree
<1>4. /\ u \in Seq(S) /\ Len(u) = Len(s) + 1 /\ u[Len(s) + 1] = e
      /\ \A i \in 1 .. Len(s) : u[i] = s[i]
  <2>1. s \in Seq(S)
    BY <1>2
  <2> HIDE DEF s
  <2> QED BY <2>1, SeqFacts
<1> HIDE DEF d, s, t, u
<1>5. Len(s) = n + Len(c) /\ Len(t) = n + Len(c) + 1 /\ Len(u) = n + Len(c) + 1
  BY <1>1, <1>2, <1>3, <1>4 DEF IsJoined
<1>6. ASSUME NEW i \in 1 .. Len(t) PROVE t[i] = u[i]
  <2>1. CASE i <= n
    <3>1. i \in 1 .. Len(s) /\ i <= Len(a) + Len(b)
      BY <1>1, <1>5, <2>1
    <3>2. t[i] = s[i]
      BY <1>2, <1>3, <3>1 DEF IsJoined
    <3>3. u[i] = s[i]
      BY <1>4, <3>1
    <3> QED BY <3>2, <3>3
  <2>2. CASE i > n /\ i <= n + Len(c)
    <3>1. i - n \in 1 .. Len(c) /\ i \in 1 .. Len(s) /\ ~(i <= Len(a)) /\ ~(i <= Len(a) + Len(b))
      BY <1>1, <1>5, <2>2
    <3>2. t[i] = d[i - n] /\ s[i] = c[i - n]
      BY <1>2, <1>3, <3>1 DEF IsJoined
    <3>3. u[i] = s[i] /\ d[i - n] = c[i - n]
      BY <1>1, <1>4, <3>1
    <3> QED BY <3>2, <3>3
  <2>3. CASE i = n + Len(c) + 1
    <3>1. i - n = Len(c) + 1 /\ ~(i <= Len(a)) /\ ~(i <= Len(a) + Len(b))
      BY <1>1, <2>3
    <3>2. t[i] = d[i - n]
      BY <1>3, <3>1 DEF IsJoined
    <3>3. u[i] = e
      BY <1>4, <1>5, <2>3
    <3> QED BY <1>1, <3>1, <3>2, <3>3
  <2>4. i <= n \/ (i > n /\ i <= n + Len(c)) \/ i = n + Len(c) + 1
    BY <1>1, <1>5
  <2> QED BY <2>1, <2>2, <2>3, <2>4
<1>7. t = u
  BY <1>3, <1>4, <1>5, <1>6, SeqEqual
<1> QED BY <1>7 DEF t, u, s, d

\* TaskLoop takes the front of the queue in its hands.
LEMMA StreamPop ==
    ASSUME NEW S, NEW a \in Seq(S), NEW c \in Seq(S), c # << >>
    PROVE  Chained(a, << Head(c) >>, Tail(c)) = Chained(a, << >>, c)
<1> DEFINE d == << Head(c) >>
           e == Tail(c)
           o == << >>
           s == Chained(a, o, c)
           t == Chained(a, d, e)
<1>1. /\ d \in Seq(S) /\ Len(d) = 1 /\ d[1] = c[1]
      /\ e \in Seq(S) /\ Len(e) = Len(c) - 1 /\ Len(c) \in Nat /\ Len(c) >= 1
      /\ \A i \in 1 .. Len(c) - 1 : e[i] = c[i + 1]
      /\ o \in Seq(S) /\ Len(o) = 0 /\ Len(a) \in Nat
  BY SeqFacts
<1> HIDE DEF d, e, o
<1>2. d \in Seq(S) /\ e \in Seq(S) /\ o \in Seq(S)
  BY <1>1
<1>3. s \in Seq(S) /\ IsJoined(s, a, o, c)
  BY <1>2, ConcatThree
<1>4. t \in Seq(S) /\ IsJoined(t, a, d, e)
  BY <1>2, ConcatThree
<1> HIDE DEF s, t
<1>5. Len(s) = Len(a) + Len(c) /\ Len(t) = Len(a) + Len(c)
  BY <1>1, <1>3, <1>4 DEF IsJoined
<1>6. ASSUME NEW i \in 1 .. Len(t) PROVE t[i] = s[i]
  <2>1. CASE i <= Len(a)
    BY <1>3, <1>4, <1>5, <2>1 DEF IsJoined
  <2>2. CASE i = Len(a) + 1
    <3>1. ~(i <= Len(a)) /\ i <= Len(a) + Len(d) /\ ~(i <= Len(a) + Len(o))
          /\ i - Len(a) = 1 /\ i - (Len(a) + Len(o)) = 1
      BY <1>1, <2>2
    <3>2. t[i] = d[1]
      BY <1>4, <3>1 DEF IsJoined
    <3>3. s[i] = c[1]
      BY <1>3, <1>5, <3>1 DEF IsJoined
    <3> QED BY <1>1, <3>2, <3>3
  <2>3. CASE i > Len(a) + 1
    <3> DEFINE k == i - (Len(a) + 1)
    <3>1. /\ k \in 1 .. Len(c) - 1 /\ ~(i <= Len(a)) /\ ~(i <= Len(a) + Len(d))
          /\ ~(i <= Len(a) + Len(o)) /\ i - (Len(a) + Len(d)) = k
          /\ i - (Len(a) + Len(o)) = k + 1
      BY <1>1, <1>5, <2>3
    <3> HIDE DEF k
    <3>2. t[i] = e[k]
      BY <1>4, <3>1 DEF IsJoined
    <3>3. s[i] = c[k + 1]
      BY <1>3, <1>5, <3>1 DEF IsJoined
    <3> QED BY <1>1, <3>1, <3>2, <3>3
  <2> QED BY <1>1, <1>5, <2>1, <2>2, <2>3
<1>7. t = s
  BY <1>3, <1>4, <1>5, <1>6, SeqEqual
<1> QED BY <1>7 DEF s, t, d, e, o

\* The frame in hand leaves the stream, ...
LEMMA StreamDropHand ==
    ASSUME NEW S, NEW a \in Seq(S), NEW b \in Seq(S), NEW c \in Seq(S), Len(b) = 1
    PROVE  /\ Without(Chained(a, b, c), Len(a) + 1, Chained(a, << >>, c))
           /\ Chained(a, b, c)[Len(a) + 1] = b[1]
<1> DEFINE o == << >>
           s == Chained(a, b, c)
           t == Chained(a, o, c)
<1>1. /\ o \in Seq(S) /\ Len(o) = 0 /\ Len(a) \in Nat /\ Len(c) \in Nat
  BY SeqFacts
<1> HIDE DEF o
<1>2. IsJoined(s, a, b, c)
  BY ConcatThree
<1>3. IsJoined(t, a, o, c)
  BY <1>1, ConcatThree
<1> HIDE DEF s, t
<1>4. Len(s) = Len(a) + Len(c) + 1 /\ Len(t) = Len(a) + Len(c)
  BY <1>1, <1>2, <1>3 DEF IsJoined
<1>5. s[Len(a) + 1] = b[1]
  BY <1>1, <1>2, <1>4 DEF IsJoined
<1>6. ASSUME NEW i \in 1 .. Len(t)
      PROVE  t[i] = IF i < Len(a) + 1 THEN s[i] ELSE s[i + 1]
  <2>1. CASE i <= Len(a)
    BY <1>1, <1>2, <1>3, <1>4, <2>1 DEF IsJoined
  <2>2. CASE ~(i <= Len(a))
    <3> DEFINE k == i - Len(a)
    <3>1. /\ ~(i < Len(a) + 1) /\ ~(i <= Len(a) + Len(o)) /\ i - (Len(a) + Len(o)) = k
          /\ ~(i + 1 <= Len(a)) /\ ~(i + 1 <= Len(a) + Len(b))
          /\ (i + 1) - (Len(a) + Len(b)) = k /\ i + 1 \in 1 .. Len(s)
      BY <1>1, <1>4, <2>2
    <3> HIDE DEF k
    <3>2. t[i] = c[k]
      BY <1>3, <2>2, <3>1 DEF IsJoined
    <3>3. s[i + 1] = c[k]
      BY <1>2, <3>1 DEF IsJoined
    <3> QED BY <3>1, <3>2, <3>3
  <2> QED BY <2>1, <2>2
<1>7. Without(s, Len(a) + 1, t)
  BY <1>1, <1>4, <1>6 DEF Without
<1> QED BY <1>5, <1>7 DEF s, t, o

\* ... or the front of the queue does.
LEMMA StreamDropFront ==
    ASSUME NEW S, NEW a \in Seq(S), NEW b \in Seq(S), NEW c \in Seq(S), c # << >>
    PROVE  /\ Without(Chained(a, b, c), Len(a) + Len(b) + 1, Chained(a, b, Tail(c)))
           /\ Chained(a, b, c)[Len(a) + Len(b) + 1] = Head(c)
<1> DEFINE e == Tail(c)
           n == Len(a) + Len(b)
           s == Chained(a, b, c)
           t == Chained(a, b, e)
<1>1. /\ e \in Seq(S) /\ Len(e) = Len(c) - 1 /\ Len(c) >= 1 /\ Head(c) = c[1]
      /\ \A i \in 1 .. Len(c) - 1 : e[i] = c[i + 1]
      /\ Len(a) \in Nat /\ Len(b) \in Nat /\ Len(c) \in Nat
  BY SeqFacts
<1> HIDE DEF e
<1>2. IsJoined(s, a, b, c)
  BY ConcatThree
<1>3. IsJoined(t, a, b, e)
  <2>1. e \in Seq(S)
    BY <1>1
  <2> QED BY <2>1, ConcatThree
<1> HIDE DEF s, t
<1>4. Len(s) = n + Len(c) /\ Len(t) = n + Len(c) - 1
  BY <1>1, <1>2, <1>3 DEF IsJoined
<1>5. s[n + 1] = Head(c)
  <2>1. n + 1 \in 1 .. Len(s) /\ ~(n + 1 <= Len(a)) /\ ~(n + 1 <= Len(a) + Len(b))
        /\ (n + 1) - (Len(a) + Len(b)) = 1
    BY <1>1, <1>4
  <2>2. s[n + 1] = c[1]
    BY <1>2, <2>1 DEF IsJoined
  <2> QED BY <1>1, <2>2
<1>6. ASSUME NEW i \in 1 .. Len(t)
      PROVE  t[i] = IF i < n + 1 THEN s[i] ELSE s[i + 1]
  <2>1. CASE i <= n
    <3>1. i \in 1 .. Len(s) /\ i < n + 1 /\ i <= Len(a) + Len(b)
      BY <1>1, <1>4, <2>1
    <3>2. t[i] = s[i]
      BY <1>2, <1>3, <3>1 DEF IsJoined
    <3> QED BY <3>1, <3>2
  <2>2. CASE ~(i <= n)
    <3> DEFINE k == i - n
    <3>1. /\ ~(i < n + 1) /\ ~(i <= Len(a)) /\ ~(i <= Len(a) + Len(b))
          /\ i - (Len(a) + Len(b)) = k /\ k \in 1 .. Len(c) - 1
          /\ ~(i + 1 <= Len(a)) /\ ~(i + 1 <= Len(a) + Len(b))
          /\ (i + 1) - (Len(a) + Len(b)) = k + 1 /\ i + 1 \in 1 .. Len(s)
      BY <1>1, <1>4, <2>2
    <3> HIDE DEF k
    <3>2. t[i] = e[k]
      BY <1>3, <3>1 DEF IsJoined
    <3>3. s[i + 1] = c[k + 1]
      BY <1>2, <3>1 DEF IsJoined
    <3> QED BY <1>1, <3>1, <3>2, <3>3
  <2> QED BY <2>1, <2>2
<1>7. Without(s, n + 1, t)
  BY <1>1, <1>4, <1>6 DEF Without
<1> QED BY <1>5, <1>7 DEF s, t, e

-----------------------------------------------------------------------------
(* The steps keep the order, and keep account of every frame.              *)

LEMMA StreamJoined == Stream = Chained(received, hand, queue[C])
BY DEF Stream, Chained

LEMMA OrderProducer ==
    ASSUME TypeOK, PcOK, PlacesOK, InOrderPerProducer, TypeOK',
           NEW p \in Producers, ProducerStep(p)
    PROVE  PlacesOK' /\ InOrderPerProducer'
<1>1. CASE PushCheck(p) \/ PushRetry(p) \/ PushLoad(p) \/ PushStore(p)
  <2>1. UNCHANGED <<queue, sent, hand, received, emptied, dropped>>
    BY <1>1 DEF PushCheck, PushRetry, PushLoad, PushStore, LoadSize
  <2>2. Stream' = Stream
    BY <2>1 DEF Stream
  <2> QED BY <2>1, <2>2, PlacesSame
<1>2. CASE PushGiveUp(p)
  <2>1. /\ UNCHANGED <<queue, hand, received, emptied>>
        /\ sent[p] < FrameCount[p] /\ sent' = [sent EXCEPT ![p] = @ + 1]
        /\ dropped' = dropped \union {Next1(p)}
    BY <1>2 DEF PushGiveUp, PcOK
  <2>2. Stream' = Stream
    BY <2>1 DEF Stream
  <2> QED BY <2>1, <2>2, PlacesPush
<1>3. CASE PushEnqueue(p)
  <2>1. /\ UNCHANGED <<hand, received, emptied, dropped>>
        /\ sent[p] < FrameCount[p] /\ sent' = [sent EXCEPT ![p] = @ + 1]
        /\ queue' = [queue EXCEPT ![C] = Append(@, Next1(p))]
    BY <1>3 DEF PushEnqueue, Enqueue, PcOK
  <2>2. queue'[C] = Append(queue[C], Next1(p))
    BY <2>1 DEF TypeOK
  <2>3. /\ received \in Seq(Frames) /\ hand \in Seq(Frames) /\ queue[C] \in Seq(Frames)
        /\ Next1(p) \in Frames
    BY <2>1, NextInFrames DEF TypeOK
  <2>4. Stream' = Chained(received, hand, Append(queue[C], Next1(p)))
    BY <2>1, <2>2 DEF Stream, Chained
  <2>5. Stream' = Append(Stream, Next1(p))
    <3>1. Chained(received, hand, Append(queue[C], Next1(p)))
          = Append(Chained(received, hand, queue[C]), Next1(p))
      <4>1. \A a, b, c \in Seq(Frames), e \in Frames :
               Chained(a, b, Append(c, e)) = Append(Chained(a, b, c), e)
        BY StreamPush
      <4> QED BY <2>3, <4>1
    <3> QED BY <2>4, <3>1, StreamJoined
  <2> QED BY <2>1, <2>5, PlacesPush
<1> QED BY <1>1, <1>2, <1>3 DEF ProducerStep

LEMMA OrderConsumer ==
    ASSUME TypeOK, PcOK, PlacesOK, InOrderPerProducer, TypeOK', ConsumerStep
    PROVE  PlacesOK' /\ InOrderPerProducer'
<1>1. received \in Seq(Frames) /\ hand \in Seq(Frames) /\ queue[C] \in Seq(Frames)
  BY DEF TypeOK
<1>2. CASE ConsumerLoop \/ GetTimeout \/ GetLoad \/ GetStore
  <2>1. UNCHANGED <<queue, sent, hand, received, emptied, dropped>>
    BY <1>2 DEF ConsumerLoop, GetTimeout, GetLoad, GetStore, LoadSize
  <2>2. Stream' = Stream
    BY <2>1 DEF Stream
  <2> QED BY <2>1, <2>2, PlacesSame
<1>3. CASE GetPop
  <2>1. /\ UNCHANGED <<sent, received, emptied, dropped>>
        /\ queue[C] # << >> /\ queue'[C] = Tail(queue[C])
        /\ hand' = << Head(queue[C]) >> /\ hand = << >>
    BY <1>1, <1>3 DEF GetPop, Dequeue, TypeOK, PcOK
  <2>2. Stream' = Chained(received, << Head(queue[C]) >>, Tail(queue[C]))
    BY <2>1 DEF Stream, Chained
  <2>3. Stream' = Stream
    BY <1>1, <2>1, <2>2, StreamPop, StreamJoined
  <2> QED BY <2>1, <2>3, PlacesSame
<1>4. CASE ConsumerDeliver
  <2>1. /\ UNCHANGED <<queue, sent, emptied>> /\ hand' = << >> /\ Len(hand) = 1
        /\ \/ dropped' = dropped \union {hand[1]} /\ received' = received
           \/ received' = received \o hand /\ dropped' = dropped
    BY <1>4 DEF ConsumerDeliver, PcOK
  <2>2. CASE received' = received \o hand /\ dropped' = dropped
    <3>1. received \o hand \in Seq(Frames)
      BY <1>1, ConcatFacts
    <3>2. (received \o hand) \o << >> = received \o hand
      BY <3>1
    <3>3. Stream' = Stream
      BY <2>1, <2>2, <3>2 DEF Stream
    <3> QED BY <2>1, <2>2, <3>3, PlacesSame
  <2>3. CASE dropped' = dropped \union {hand[1]} /\ received' = received
    <3> DEFINE k == Len(received) + 1
    <3>1. Stream' = Chained(received, << >>, queue[C])
      BY <2>1, <2>3 DEF Stream, Chained
    <3>2. Without(Stream, k, Stream') /\ Stream[k] = hand[1]
      BY <1>1, <2>1, <3>1, StreamDropHand, StreamJoined
    <3>3. Stream' \in Seq(Frames)
      <4>1. << >> \in Seq(Frames)
        OBVIOUS
      <4> QED BY <1>1, <3>1, <4>1, ConcatThree
    <3> HIDE DEF k
    <3> QED BY <2>1, <2>3, <3>2, <3>3, PlacesRemove
  <2> QED BY <2>1, <2>2, <2>3
<1> QED BY <1>2, <1>3, <1>4 DEF ConsumerStep

LEMMA OrderController ==
    ASSUME TypeOK, PlacesOK, InOrderPerProducer, TypeOK', CtlStop \/ CtlFinish
    PROVE  /\ PlacesOK' /\ InOrderPerProducer'
           /\ EmptyQueuePop => Head(queue[C]) \notin emptied
<1>1. received \in Seq(Frames) /\ hand \in Seq(Frames) /\ queue[C] \in Seq(Frames)
  BY DEF TypeOK
<1>2. CASE CtlStop \/ EmptyQueueDone \/ CtlRestart
  <2>1. UNCHANGED <<queue, sent, hand, received, emptied, dropped>>
    BY <1>2 DEF CtlStop, EmptyQueueDone, CtlRestart
  <2>2. Stream' = Stream
    BY <2>1 DEF Stream
  <2>3. ~EmptyQueuePop
    BY <1>2 DEF CtlStop, EmptyQueueDone, CtlRestart, EmptyQueuePop, Dequeue
  <2> QED BY <2>1, <2>2, <2>3, PlacesSame
<1>3. CASE EmptyQueuePop
  <2> DEFINE k == Len(received) + Len(hand) + 1
  <2>1. /\ UNCHANGED <<sent, hand, received, dropped>>
        /\ queue[C] # << >> /\ queue'[C] = Tail(queue[C])
        /\ emptied' = emptied \union {Head(queue[C])}
    BY <1>3 DEF EmptyQueuePop, Dequeue, TypeOK
  <2>2. Stream' = Chained(received, hand, Tail(queue[C]))
    BY <2>1 DEF Stream, Chained
  <2>3. Without(Stream, k, Stream') /\ Stream[k] = Head(queue[C])
    <3> DEFINE q == queue[C]
    <3>1. q \in Seq(Frames) /\ q # << >>
      BY <1>1, <2>1
    <3> HIDE DEF q
    <3>2. /\ Without(Chained(received, hand, q), Len(received) + Len(hand) + 1,
                     Chained(received, hand, Tail(q)))
          /\ Chained(received, hand, q)[Len(received) + Len(hand) + 1] = Head(q)
      BY <1>1, <3>1, StreamDropFront
    <3>3. /\ Without(Chained(received, hand, queue[C]), Len(received) + Len(hand) + 1,
                     Chained(received, hand, Tail(queue[C])))
          /\ Chained(received, hand, queue[C])[Len(received) + Len(hand) + 1] = Head(queue[C])
      BY <3>2 DEF q
    <3> QED BY <2>2, <3>3, StreamJoined
  <2>4. Stream' \in Seq(Frames)
    <3>1. Tail(queue[C]) \in Seq(Frames)
      BY <1>1, <2>1, SeqFacts
    <3> QED BY <1>1, <2>2, <3>1, ConcatThree
  <2> HIDE DEF k
  <2> QED BY <2>1, <2>3, <2>4, PlacesRemove
<1> QED BY <1>2, <1>3 DEF CtlFinish

-----------------------------------------------------------------------------
(* The steps keep the count.                                               *)

\* What current_size_ counts: the queued frames and those EmptyQueue took, and
\* what is still to be counted; and how many frames PushData has let pass.
Total == Len(queue[C]) + PendingDec - PendingInc + Cardinality(emptied)
Passed == Len(queue[C]) + PendingDec + Cardinality(emptied) + Admitted
CountOK == ~raced => /\ current_size[C] = Total % (SizeMax + 1)
                     /\ Passed <= Capacity + Cardinality(Producers) - 1

TermsOK == /\ Len(queue[C]) \in Nat /\ Cardinality(emptied) \in Nat
           /\ PendingDec \in Nat /\ PendingInc \in Nat /\ Admitted \in Nat
           /\ PendingInc = Cardinality(Those({"incLoad", "incStore"}))
           /\ Admitted = Cardinality(Those({"enqueue"}))

LEMMA TermFacts == TypeOK => TermsOK
<1> SUFFICES ASSUME TypeOK PROVE TermsOK
  OBVIOUS
<1>1. Len(queue[C]) \in Nat
  <2>1. queue[C] \in Seq(Frames)
    BY DEF TypeOK
  <2> QED BY <2>1, SeqFacts
<1>2. Cardinality(emptied) \in Nat
  BY FS_CardinalityType DEF TypeOK
<1>3. PendingDec \in Nat
  BY DEF PendingDec
<1>4. PendingInc = Cardinality(Those({"incLoad", "incStore"}))
  BY DEF PendingInc, Those
<1>5. Admitted = Cardinality(Those({"enqueue"}))
  <2>1. {p \in Producers : pc[p] = "enqueue"} = Those({"enqueue"})
    BY DEF Those
  <2> QED BY <2>1 DEF Admitted
<1> QED BY <1>1, <1>2, <1>3, <1>4, <1>5, ThoseFacts DEF TermsOK

\* CountOK is what CountExact and Bounded say.
LEMMA CountFacts == TypeOK => (CountOK <=> CountExact /\ Bounded)
<1> SUFFICES ASSUME TypeOK PROVE CountOK <=> CountExact /\ Bounded
  OBVIOUS
<1>1. /\ Len(queue[C]) \in Nat /\ Cardinality(emptied) \in Nat
      /\ PendingDec \in Nat /\ PendingInc \in Nat /\ Admitted \in Nat
  BY TermFacts DEF TermsOK
<1>2. Passed <= Capacity + Cardinality(Producers) - 1
      => Len(queue[C]) <= Capacity + Cardinality(Producers) - 1
  BY <1>1, SizeFacts DEF Passed
<1> QED BY <1>2 DEF CountOK, CountExact, Bounded, Total, Passed

LEMMA TermFactsNext == TypeOK' => TermsOK'
BY TermFacts, PTL

\* A producer goes on: what it counts for.
LEMMA ProducerTerms ==
    ASSUME TypeOK, NEW p \in Producers, NEW l, Goto(p, l)
    PROVE  /\ PendingInc' = PendingInc + (IF l \in {"incLoad", "incStore"} THEN 1 ELSE 0)
                            - (IF pc[p] \in {"incLoad", "incStore"} THEN 1 ELSE 0)
           /\ Admitted' = Admitted + (IF l = "enqueue" THEN 1 ELSE 0)
                          - (IF pc[p] = "enqueue" THEN 1 ELSE 0)
           /\ PendingDec' = PendingDec
<1>1. DOMAIN pc = Threads
  BY DEF TypeOK
<1>2. /\ PendingInc = Cardinality(Those({"incLoad", "incStore"}))
      /\ PendingInc' = Cardinality(Those({"incLoad", "incStore"})')
  BY DEF PendingInc, Those
<1>3. /\ Admitted = Cardinality(Those({"enqueue"}))
      /\ Admitted' = Cardinality(Those({"enqueue"})')
  <2>1. {q \in Producers : pc[q] = "enqueue"} = Those({"enqueue"})
    BY DEF Those
  <2>2. {q \in Producers : pc'[q] = "enqueue"} = Those({"enqueue"})'
    BY DEF Those
  <2> QED BY <2>1, <2>2 DEF Admitted
<1>4. Cardinality(Those({"incLoad", "incStore"})')
      = Cardinality(Those({"incLoad", "incStore"}))
        + (IF l \in {"incLoad", "incStore"} THEN 1 ELSE 0)
        - (IF pc[p] \in {"incLoad", "incStore"} THEN 1 ELSE 0)
  BY <1>1, ThoseMove
<1>5. Cardinality(Those({"enqueue"})')
      = Cardinality(Those({"enqueue"})) + (IF l \in {"enqueue"} THEN 1 ELSE 0)
        - (IF pc[p] \in {"enqueue"} THEN 1 ELSE 0)
  BY <1>1, ThoseMove
<1>6. /\ l \in {"enqueue"} <=> l = "enqueue"
      /\ pc[p] \in {"enqueue"} <=> pc[p] = "enqueue"
  OBVIOUS
<1>7. pc'[Consumer] = pc[Consumer]
  BY <1>1, ProducerFacts DEF Goto
<1>8. PendingDec' = PendingDec
  BY <1>7 DEF PendingDec
<1> QED BY <1>2, <1>3, <1>4, <1>5, <1>6, <1>8

\* TaskLoop goes on.
LEMMA ConsumerTerms ==
    ASSUME TypeOK, NEW l, Goto(Consumer, l)
    PROVE  PendingInc' = PendingInc /\ Admitted' = Admitted /\ pc'[Consumer] = l
<1>1. /\ \A p \in Producers : pc'[p] = pc[p]
      /\ pc'[Consumer] = l
  BY ProducerFacts DEF Goto, TypeOK
<1> QED BY <1>1 DEF PendingInc, Admitted

\* A thread goes on, but does not begin or end an update.
LEMMA NoUpdate ==
    ASSUME TypeOK, OneUpdate, UNCHANGED <<reg, current_size, raced>>,
           NEW t \in Threads, NEW l, l \notin {"incStore", "decStore"}, Goto(t, l)
    PROVE  OneUpdate'
<1>1. \A u \in Threads : Updating(u)' => Updating(u)
  BY DEF Goto, TypeOK, Updating
<1> QED BY <1>1 DEF OneUpdate

\* An update begins: if another one is under way, they overlap.
LEMMA UpdateBegins ==
    ASSUME TypeOK, OneUpdate, NEW t \in Threads, NEW from, NEW to, LoadSize(t, from, to)
    PROVE  /\ OneUpdate' /\ (~raced' => ~raced)
           /\ UNCHANGED <<queue, current_size, emptied>> /\ Goto(t, to) /\ pc[t] = from
<1>1. /\ UNCHANGED <<queue, current_size, emptied>> /\ Goto(t, to) /\ pc[t] = from
      /\ reg' = [reg EXCEPT ![t] = current_size[C]]
      /\ ~raced' => ~raced /\ \A u \in Threads \ {t} : ~Updating(u)
  BY DEF LoadSize, TypeOK
<1>2. reg'[t] = current_size'[C]
  BY <1>1 DEF TypeOK
<1>3. \A u \in Threads \ {t} : pc'[u] = pc[u]
  BY <1>1 DEF Goto, TypeOK
<1>4. \A u \in Threads \ {t} : Updating(u)' => Updating(u)
  BY <1>3 DEF Updating
<1>5. OneUpdate'
  BY <1>1, <1>2, <1>4 DEF OneUpdate
<1> QED BY <1>1, <1>5

\* An update ends: it was the only one, and what it loaded is what it replaces.
LEMMA UpdateEnds ==
    ASSUME TypeOK, OneUpdate, NEW t \in Threads, Updating(t), NEW l,
           l \notin {"incStore", "decStore"}, Goto(t, l), raced' = raced
    PROVE  OneUpdate' /\ (~raced => reg[t] = current_size[C])
<1>1. \A u \in Threads : pc'[u] = IF u = t THEN l ELSE pc[u]
  BY DEF Goto, TypeOK
<1>2. ASSUME ~raced PROVE \A u \in Threads : ~Updating(u)'
  BY <1>1, <1>2 DEF OneUpdate, Updating
<1> QED BY <1>2 DEF OneUpdate

\* The count and what it counts are as before.
LEMMA CountSame ==
    ASSUME TypeOK, TypeOK', CountOK, ~raced' => ~raced, current_size'[C] = current_size[C],
           Total' = Total, Passed' <= Passed
    PROVE  CountOK'
<1>1. Passed \in Int /\ Passed' \in Int
  <2>1. TermsOK /\ TermsOK'
    BY TermFacts, TermFactsNext
  <2>2. Passed \in Int
    BY <2>1 DEF Passed, TermsOK
  <2>3. Passed' \in Int
    BY <2>1 DEF Passed, TermsOK
  <2> QED BY <2>2, <2>3
<1>2. Cardinality(Producers) \in Nat /\ Capacity \in Nat
  BY SizeFacts
<1> QED BY <1>1, <1>2 DEF CountOK

\* Finishing an update moves the count by one: the arithmetic of the two
\* stores, apart from the queue it is about.
LEMMA OneFewerPending ==
    ASSUME NEW l \in Nat, NEW d \in Nat, NEW i \in Nat, NEW e \in Nat
    PROVE  /\ l + d - (i - 1) + e = (l + d - i + e) + 1
           /\ l + 0 - i + e = (l + 1 - i + e) - 1
OBVIOUS

LEMMA CountProducer ==
    ASSUME TypeOK, TypeOK', PcOK, OneUpdate, CountOK, NEW p \in Producers, ProducerStep(p)
    PROVE  OneUpdate' /\ CountOK'
<1>1. /\ Len(queue[C]) \in Nat /\ Cardinality(emptied) \in Nat
      /\ PendingDec \in Nat /\ PendingInc \in Nat /\ Admitted \in Nat
  BY TermFacts DEF TermsOK
<1>2. p \in Threads
  BY ProducerFacts
<1>3. ASSUME NEW l \in {"push", "refused"}, Goto(p, l), pc[p] \in {"push", "refused"},
             UNCHANGED <<queue, current_size, reg, emptied, raced>>
      PROVE  OneUpdate' /\ CountOK'
  <2>1. OneUpdate'
    BY <1>2, <1>3, NoUpdate
  <2>2. PendingInc' = PendingInc /\ Admitted' = Admitted /\ PendingDec' = PendingDec
    BY <1>1, <1>3, ProducerTerms
  <2>3. Total' = Total /\ Passed' = Passed
    BY <1>3, <2>2 DEF Total, Passed
  <2>4. Passed' <= Passed
    BY <1>1, <2>3 DEF Passed
  <2> QED BY <1>3, <2>1, <2>3, <2>4, CountSame
<1>4. CASE PushCheck(p)
  <2>1. CASE IsFull(C)
    BY <1>3, <1>4, <2>1 DEF PushCheck
  <2>2. CASE ~IsFull(C)
    <3>1. /\ Goto(p, "enqueue") /\ pc[p] = "push"
          /\ UNCHANGED <<queue, current_size, reg, emptied, raced>>
      BY <1>4, <2>2 DEF PushCheck
    <3>2. OneUpdate'
      BY <1>2, <3>1, NoUpdate
    <3>3. PendingInc' = PendingInc /\ Admitted' = Admitted + 1 /\ PendingDec' = PendingDec
      BY <1>1, <3>1, ProducerTerms
    <3>4. Total' = Total /\ Passed' = Passed + 1 /\ Total \in Int /\ Passed \in Int
          /\ Passed = Total + PendingInc + Admitted
      <4>1. Total \in Int /\ Passed \in Int /\ Passed = Total + PendingInc + Admitted
        BY SMTT(30), <1>1 DEF Total, Passed
      <4>2. Total' = Total
        BY <3>1, <3>3 DEF Total
      <4>3. Passed' = Passed + 1
        BY <1>1, <3>1, <3>3 DEF Passed
      <4> QED BY <4>1, <4>2, <4>3
    <3>5. ASSUME ~raced PROVE Passed' <= Capacity + Cardinality(Producers) - 1
      <4>1. current_size[C] = Total % (SizeMax + 1)
            /\ Passed <= Capacity + Cardinality(Producers) - 1
        BY <3>5 DEF CountOK
      <4>2. Total < SizeMax
        BY <1>1, <3>4, <4>1, SizeFacts
      <4>3. Total < Capacity
        BY <2>2, <3>4, <4>1, <4>2, FullRemainder DEF IsFull
      <4>4. PendingInc + Admitted <= Cardinality(Producers) - 1
        BY <3>1, ThoseRoom, TermFacts DEF TermsOK
      <4> QED BY <1>1, <3>4, <4>3, <4>4, SizeFacts
    <3> QED BY <3>1, <3>2, <3>4, <3>5 DEF CountOK
  <2> QED BY <2>1, <2>2
<1>5. CASE PushRetry(p) \/ PushGiveUp(p)
  BY <1>3, <1>5 DEF PushRetry, PushGiveUp
<1>6. CASE PushEnqueue(p)
  <2>1. /\ Goto(p, "incLoad") /\ pc[p] = "enqueue"
        /\ UNCHANGED <<current_size, reg, emptied, raced>>
        /\ queue'[C] = Append(queue[C], Next1(p))
    BY <1>6 DEF PushEnqueue, Enqueue, TypeOK
  <2>2. Len(queue'[C]) = Len(queue[C]) + 1
    <3>1. queue[C] \in Seq(Frames) /\ Next1(p) \in Frames
      BY <2>1, NextInFrames DEF TypeOK, PcOK
    <3> QED BY <2>1, <3>1, SeqFacts
  <2>3. OneUpdate'
    BY <1>2, <2>1, NoUpdate
  <2>4. /\ PendingInc' = PendingInc + 1 /\ Admitted' = Admitted - 1
        /\ PendingDec' = PendingDec
    BY <1>1, <2>1, ProducerTerms
  <2>5. Total' = Total /\ Passed' <= Passed
    BY <1>1, <2>1, <2>2, <2>4 DEF Total, Passed
  <2> QED BY <2>1, <2>3, <2>5, CountSame
<1>7. CASE PushLoad(p)
  <2>1. /\ OneUpdate' /\ (~raced' => ~raced)
        /\ UNCHANGED <<queue, current_size, emptied>>
        /\ Goto(p, "incStore") /\ pc[p] = "incLoad"
    BY <1>2, <1>7, UpdateBegins DEF PushLoad
  <2>2. PendingInc' = PendingInc /\ Admitted' = Admitted /\ PendingDec' = PendingDec
    BY <1>1, <2>1, ProducerTerms
  <2>3. Total' = Total /\ Passed' <= Passed
    BY <1>1, <2>1, <2>2 DEF Total, Passed
  <2> QED BY <2>1, <2>3, CountSame
<1>8. CASE PushStore(p)
  <2>1. /\ Goto(p, "push") /\ pc[p] = "incStore"
        /\ UNCHANGED <<queue, emptied, raced>>
        /\ current_size'[C] = Inc(reg[p])
    BY <1>8 DEF PushStore, StoreInc, TypeOK
  <2>2. OneUpdate' /\ (~raced => reg[p] = current_size[C])
    BY <1>2, <2>1, UpdateEnds DEF Updating
  <2>3. PendingInc' = PendingInc - 1 /\ Admitted' = Admitted /\ PendingDec' = PendingDec
    BY <1>1, <2>1, ProducerTerms
  <2>4. Total' = Total + 1 /\ Passed' = Passed /\ Total \in Int
    <3>1. Total \in Int
      BY <1>1 DEF Total
    <3>2. Total' = Len(queue[C]) + PendingDec - (PendingInc - 1) + Cardinality(emptied)
      BY <2>1, <2>3 DEF Total
    <3>3. Total = Len(queue[C]) + PendingDec - PendingInc + Cardinality(emptied)
      BY DEF Total
    <3>4. Total' = Total + 1
      <4> DEFINE l == Len(queue[C])
                 d == PendingDec
                 i == PendingInc
                 e == Cardinality(emptied)
                 t == Total
                 u == Total'
      <4>1. l \in Nat /\ d \in Nat /\ i \in Nat /\ e \in Nat
        BY <1>1
      <4>2. t = l + d - i + e /\ u = l + d - (i - 1) + e
        BY <3>2, <3>3
      <4> HIDE DEF l, d, i, e, t, u
      <4>3. u = t + 1
        BY <4>1, <4>2, OneFewerPending
      <4> QED BY <4>3 DEF t, u
    <3> QED BY <2>1, <2>3, <3>1, <3>4 DEF Passed
  <2>5. ASSUME ~raced PROVE current_size'[C] = Total' % (SizeMax + 1)
    BY <2>1, <2>2, <2>4, <2>5, IncRemainder DEF CountOK
  <2> QED BY <2>1, <2>2, <2>4, <2>5 DEF CountOK
<1> QED BY <1>4, <1>5, <1>6, <1>7, <1>8 DEF ProducerStep

LEMMA CountConsumer ==
    ASSUME TypeOK, TypeOK', OneUpdate, CountOK, ConsumerStep
    PROVE  OneUpdate' /\ CountOK'
<1>1. /\ Len(queue[C]) \in Nat /\ Cardinality(emptied) \in Nat
      /\ PendingDec \in Nat /\ PendingInc \in Nat /\ Admitted \in Nat
      /\ Consumer \in Threads
  BY TermFacts, ProducerFacts DEF TermsOK
<1>2. ASSUME NEW l \in {"loop", "exit", "pop"}, Goto(Consumer, l),
             pc[Consumer] \in {"loop", "pop", "recheck"},
             UNCHANGED <<queue, current_size, reg, emptied, raced>>
      PROVE  OneUpdate' /\ CountOK'
  <2>1. OneUpdate'
    BY <1>1, <1>2, NoUpdate
  <2>2. PendingInc' = PendingInc /\ Admitted' = Admitted /\ pc'[Consumer] = l
    BY <1>2, ConsumerTerms
  <2>3. PendingDec' = PendingDec
    BY <1>2, <2>2 DEF PendingDec
  <2>4. Total' = Total /\ Passed' <= Passed
    BY <1>1, <1>2, <2>2, <2>3 DEF Total, Passed
  <2> QED BY <1>2, <2>1, <2>4, CountSame
<1>3. CASE ConsumerLoop \/ GetTimeout
  BY <1>2, <1>3 DEF ConsumerLoop, GetTimeout
<1>4. CASE ConsumerDeliver
  <2>1. PICK l \in {"loop", "exit"} : Goto(Consumer, l)
    BY <1>4 DEF ConsumerDeliver
  <2>2. /\ pc[Consumer] = "recheck"
        /\ UNCHANGED <<queue, current_size, reg, emptied, raced>>
    BY <1>4 DEF ConsumerDeliver
  <2> QED BY <1>2, <2>1, <2>2
<1>5. CASE GetPop
  <2>1. /\ Goto(Consumer, "decLoad") /\ pc[Consumer] = "pop"
        /\ UNCHANGED <<current_size, reg, emptied, raced>>
        /\ queue[C] # << >> /\ queue'[C] = Tail(queue[C])
    BY <1>5 DEF GetPop, Dequeue, TypeOK
  <2>2. Len(queue'[C]) = Len(queue[C]) - 1
    <3>1. queue[C] \in Seq(Frames)
      BY DEF TypeOK
    <3> QED BY <2>1, <3>1, SeqFacts
  <2>3. OneUpdate'
    BY <1>1, <2>1, NoUpdate
  <2>4. PendingInc' = PendingInc /\ Admitted' = Admitted /\ pc'[Consumer] = "decLoad"
    BY <2>1, ConsumerTerms
  <2>5. PendingDec' = 1 /\ PendingDec = 0
    BY <2>1, <2>4 DEF PendingDec
  <2>6. Total' = Total /\ Passed' <= Passed
    <3> DEFINE n == Len(queue[C])
               e == Cardinality(emptied)
    <3>1. n \in Nat /\ e \in Nat /\ PendingInc \in Nat /\ Admitted \in Nat
      BY <1>1
    <3>2. n' = n - 1 /\ e' = e
      BY <2>1, <2>2
    <3>3. Total = n + PendingDec - PendingInc + e /\ Passed = n + PendingDec + e + Admitted
      BY DEF Total, Passed
    <3>4. /\ Total' = n' + PendingDec' - PendingInc' + e'
          /\ Passed' = n' + PendingDec' + e' + Admitted'
      BY DEF Total, Passed
    <3> HIDE DEF n, e
    <3>5. Total = n - PendingInc + e /\ Passed = n + e + Admitted
      BY <3>1, <3>3, <2>5
    <3>6. Total' = (n - 1) + 1 - PendingInc + e /\ Passed' = (n - 1) + 1 + e + Admitted
      BY <3>2, <3>4, <2>4, <2>5
    <3> QED BY <3>1, <3>5, <3>6
  <2> QED BY <2>1, <2>3, <2>6, CountSame
<1>6. CASE GetLoad
  <2>1. /\ OneUpdate' /\ (~raced' => ~raced)
        /\ UNCHANGED <<queue, current_size, emptied>>
        /\ Goto(Consumer, "decStore") /\ pc[Consumer] = "decLoad"
    BY <1>1, <1>6, UpdateBegins DEF GetLoad
  <2>2. PendingInc' = PendingInc /\ Admitted' = Admitted /\ pc'[Consumer] = "decStore"
    BY <2>1, ConsumerTerms
  <2>3. PendingDec' = PendingDec
    BY <2>1, <2>2 DEF PendingDec
  <2>4. Total' = Total /\ Passed' <= Passed
    BY <1>1, <2>1, <2>2, <2>3 DEF Total, Passed
  <2> QED BY <2>1, <2>4, CountSame
<1>7. CASE GetStore
  <2>1. /\ Goto(Consumer, "recheck") /\ pc[Consumer] = "decStore"
        /\ UNCHANGED <<queue, emptied, raced>>
        /\ current_size'[C] = Dec(reg[Consumer])
    BY <1>7 DEF GetStore, StoreDec, TypeOK
  <2>2. OneUpdate' /\ (~raced => reg[Consumer] = current_size[C])
    BY <1>1, <2>1, UpdateEnds DEF Updating
  <2>3. PendingInc' = PendingInc /\ Admitted' = Admitted /\ pc'[Consumer] = "recheck"
    BY <2>1, ConsumerTerms
  <2>4. PendingDec = 1 /\ PendingDec' = 0
    BY <2>1, <2>3 DEF PendingDec
  <2>5. Total' = Total - 1 /\ Passed' = Passed - 1 /\ Total \in Int /\ Passed \in Int
    <3>1. Total \in Int /\ Total = Len(queue[C]) + 1 - PendingInc + Cardinality(emptied)
      BY <1>1, <2>4 DEF Total
    <3>2. Total' = Len(queue[C]) + 0 - PendingInc + Cardinality(emptied)
      BY <2>1, <2>3, <2>4 DEF Total
    <3>3. Total' = Total - 1
      <4> DEFINE l == Len(queue[C])
                 i == PendingInc
                 e == Cardinality(emptied)
                 t == Total
                 u == Total'
      <4>1. l \in Nat /\ i \in Nat /\ e \in Nat
        BY <1>1
      <4>2. t = l + 1 - i + e /\ u = l + 0 - i + e
        BY <3>1, <3>2
      <4> HIDE DEF l, i, e, t, u
      <4>3. u = t - 1
        BY <4>1, <4>2, OneFewerPending
      <4> QED BY <4>3 DEF t, u
    <3>4. Passed' = Passed - 1 /\ Passed \in Int
      BY <1>1, <2>1, <2>3, <2>4 DEF Passed
    <3> QED BY <3>1, <3>3, <3>4
  <2>6. ASSUME ~raced PROVE current_size'[C] = Total' % (SizeMax + 1)
    BY <2>1, <2>2, <2>5, <2>6, DecRemainder DEF CountOK
  <2>7. ASSUME ~raced PROVE Passed' <= Capacity + Cardinality(Producers) - 1
    BY <2>5, <2>7, SizeFacts DEF CountOK
  <2> QED BY <2>1, <2>2, <2>6, <2>7 DEF CountOK
<1> QED BY <1>3, <1>4, <1>5, <1>6, <1>7 DEF ConsumerStep

\* A frame that EmptyQueue takes is counted as it was in the queue.
LEMMA CountController ==
    ASSUME TypeOK, TypeOK', OneUpdate, CountOK, CtlStop \/ CtlFinish,
           EmptyQueuePop => Head(queue[C]) \notin emptied
    PROVE  OneUpdate' /\ CountOK'
<1>1. /\ Len(queue[C]) \in Nat /\ Cardinality(emptied) \in Nat
      /\ PendingDec \in Nat /\ PendingInc \in Nat /\ Admitted \in Nat
      /\ Consumer \in Threads
  BY TermFacts, ProducerFacts DEF TermsOK
<1>2. CASE CtlStop \/ EmptyQueueDone
  <2>1. UNCHANGED <<queue, current_size, pc, reg, emptied, raced>>
    BY <1>2 DEF CtlStop, EmptyQueueDone
  <2> QED BY <2>1 DEF OneUpdate, Updating, CountOK, Total, Passed, PendingDec, PendingInc,
                     Admitted
<1>3. CASE EmptyQueuePop
  <2>1. /\ UNCHANGED <<current_size, pc, reg, raced>>
        /\ queue[C] # << >> /\ queue'[C] = Tail(queue[C])
        /\ emptied' = emptied \union {Head(queue[C])}
    BY <1>3 DEF EmptyQueuePop, Dequeue, TypeOK
  <2>2. Len(queue'[C]) = Len(queue[C]) - 1
    <3>1. queue[C] \in Seq(Frames)
      BY DEF TypeOK
    <3> QED BY <2>1, <3>1, SeqFacts
  <2>3. Cardinality(emptied') = Cardinality(emptied) + 1
    BY <1>3, <2>1, FS_AddElement DEF TypeOK
  <2>4. UNCHANGED <<PendingDec, PendingInc, Admitted>>
    BY <2>1 DEF PendingDec, PendingInc, Admitted
  <2>5. Total' = Total /\ Passed' <= Passed
    <3>1. Total' = (Len(queue[C]) - 1) + PendingDec - PendingInc + (Cardinality(emptied) + 1)
      BY <2>2, <2>3, <2>4 DEF Total
    <3>2. Total' = Total
      BY <1>1, <3>1 DEF Total
    <3>3. Passed' = (Len(queue[C]) - 1) + PendingDec + (Cardinality(emptied) + 1) + Admitted
      BY <2>2, <2>3, <2>4 DEF Passed
    <3>4. Passed' <= Passed
      BY <1>1, <3>3 DEF Passed
    <3> QED BY <3>2, <3>4
  <2>6. OneUpdate'
    BY <2>1 DEF OneUpdate, Updating
  <2> QED BY <2>1, <2>5, <2>6, CountSame
<1>4. CASE CtlRestart
  <2>1. /\ UNCHANGED <<queue, current_size, reg, emptied, raced>>
        /\ pc[Consumer] = "exit" /\ Goto(Consumer, "loop")
    BY <1>4 DEF CtlRestart
  <2>2. OneUpdate'
    BY <1>1, <2>1, NoUpdate
  <2>3. PendingInc' = PendingInc /\ Admitted' = Admitted /\ pc'[Consumer] = "loop"
    BY <2>1, ConsumerTerms
  <2>4. PendingDec' = PendingDec
    BY <2>1, <2>3 DEF PendingDec
  <2>5. Total' = Total /\ Passed' <= Passed
    BY <1>1, <2>1, <2>3, <2>4 DEF Total, Passed
  <2> QED BY <2>1, <2>2, <2>5, CountSame
<1> QED BY <1>2, <1>3, <1>4 DEF CtlFinish

-----------------------------------------------------------------------------
(* The inductive invariant.                                                *)

\* IInv as the lemmas above have it.
Inv == /\ TypeOK /\ PcOK /\ CtlOK /\ PlacesOK /\ InOrderPerProducer
       /\ OneUpdate /\ CountOK

LEMMA InvIInv == Inv <=> IInv
BY AccountedPlaces, CountFacts DEF Inv, IInv, ConnectorInv, TypeOK

LEMMA InvInit == Init => Inv
<1> SUFFICES ASSUME Init PROVE Inv
  OBVIOUS
<1> USE ProducerFacts, SizeFacts DEF Init
<1>1. TypeOK
  <2>1. /\ queue \in [{C} -> Seq(Frames)] /\ hand \in Seq(Frames) /\ received \in Seq(Frames)
        /\ stop \in [{C} -> BOOLEAN]
    OBVIOUS
  <2>2. current_size \in [{C} -> Sizes] /\ reg \in [Threads -> Sizes]
    OBVIOUS
  <2>3. pc \in [Threads -> Labels]
    BY DEF Labels
  <2>4. sent \in [Producers -> Nat] /\ \A p \in Producers : sent[p] <= FrameCount[p]
    OBVIOUS
  <2>5. IsFiniteSet(emptied) /\ restarts \in 0 .. MaxRestarts
    BY FS_EmptySet
  <2> QED BY <2>1, <2>2, <2>3, <2>4, <2>5 DEF TypeOK
<1>2. PcOK /\ CtlOK
  BY DEF PcOK, CtlOK
<1>3. Len(Stream) = 0
  <2>1. queue[C] = << >>
    OBVIOUS
  <2> QED BY <1>1, <2>1, StreamFacts
<1>4. PlacesOK /\ InOrderPerProducer
  <2>1. \A f \in Frames : ~InStream(f) /\ ~(f[2] <= sent[f[1]])
    BY <1>3, FrameFacts DEF InStream
  <2> QED BY <1>3, <2>1 DEF PlacesOK, InOrderPerProducer
<1>5. OneUpdate
  BY DEF OneUpdate, Updating
<1>6. CountOK
  <2>1. Len(queue[C]) = 0 /\ PendingDec = 0 /\ Cardinality(emptied) = 0
    BY FS_EmptySet DEF PendingDec
  <2>2. PendingInc = 0 /\ Admitted = 0
    <3>1. /\ {p \in Producers : pc[p] \in {"incLoad", "incStore"}} = {}
          /\ {p \in Producers : pc[p] = "enqueue"} = {}
      OBVIOUS
    <3> QED BY <3>1, FS_EmptySet DEF PendingInc, Admitted
  <2>3. Total = 0 /\ Passed = 0
    BY <2>1, <2>2 DEF Total, Passed
  <2>4. 0 % (SizeMax + 1) = 0
    OBVIOUS
  <2> QED BY <2>3, <2>4 DEF CountOK
<1> QED BY <1>1, <1>2, <1>4, <1>5, <1>6 DEF Inv

LEMMA InvStep == Inv /\ [Next]_vars => Inv'
<1> SUFFICES ASSUME Inv, [Next]_vars PROVE Inv'
  OBVIOUS
<1> USE DEF Inv
<1>1. ASSUME NEW p \in Producers, ProducerStep(p) PROVE Inv'
  <2>1. TypeOK' /\ PcOK' /\ CtlOK'
    BY <1>1, TypeProducer
  <2>2. PlacesOK' /\ InOrderPerProducer'
    BY <1>1, <2>1, OrderProducer
  <2>3. OneUpdate' /\ CountOK'
    BY <1>1, <2>1, CountProducer
  <2> QED BY <2>1, <2>2, <2>3
<1>2. CASE ConsumerStep
  <2>1. TypeOK' /\ PcOK' /\ CtlOK'
    BY <1>2, TypeConsumer
  <2>2. PlacesOK' /\ InOrderPerProducer'
    BY <1>2, <2>1, OrderConsumer
  <2>3. OneUpdate' /\ CountOK'
    BY <1>2, <2>1, CountConsumer
  <2> QED BY <2>1, <2>2, <2>3
<1>3. CASE CtlStop \/ CtlFinish
  <2>1. TypeOK' /\ PcOK' /\ CtlOK'
    BY <1>3, TypeController
  <2>2. /\ PlacesOK' /\ InOrderPerProducer'
        /\ EmptyQueuePop => Head(queue[C]) \notin emptied
    BY <1>3, <2>1, OrderController
  <2>3. OneUpdate' /\ CountOK'
    BY <1>3, <2>1, <2>2, CountController
  <2> QED BY <2>1, <2>2, <2>3
<1>4. CASE UNCHANGED vars
  <2>1. TypeOK' /\ PcOK' /\ CtlOK'
    BY <1>4 DEF vars, TypeOK, PcOK, CtlOK
  <2>2. Stream' = Stream /\ UNCHANGED <<sent, emptied, dropped>>
    BY <1>4 DEF vars, Stream
  <2>3. PlacesOK' /\ InOrderPerProducer'
    BY <2>2, PlacesSame
  <2>4. OneUpdate' /\ CountOK'
    BY <1>4 DEF vars, OneUpdate, Updating, CountOK, Total, Passed, PendingDec, PendingInc,
                Admitted
  <2> QED BY <2>1, <2>3, <2>4
<1> QED BY <1>1, <1>2, <1>3, <1>4 DEF Next

\* In every reachable state the connector's threads, its frames and its count fit
\* together.
THEOREM ConnectorInvariance == Spec => []IInv
<1> QED BY InvInit, InvStep, InvIInv, PTL DEF Spec

\* Every frame a producer is done with is in exactly one place, and none is lost
\* before the first stop.
THEOREM ConnectorInvCorrect == Spec => []ConnectorInv
<1>1. IInv => ConnectorInv
  BY DEF IInv
<1> QED BY <1>1, ConnectorInvariance, PTL

\* However producers, TaskLoop and EmptyQueue interleave, the frames of one
\* producer stay in order, and none comes twice.
THEOREM InOrderCorrect == Spec => []InOrderPerProducer
<1>1. IInv => InOrderPerProducer
  BY DEF IInv
<1> QED BY <1>1, ConnectorInvariance, PTL

\* As long as no two updates of current_size_ overlap, it is the number of frames
\* still to come and of those EmptyQueue took, and the queue is at most one frame
\* for each further producer over max_size_.
THEOREM CountExactCorrect == Spec => []CountExact
<1>1. IInv => CountExact
  BY DEF IInv
<1> QED BY <1>1, ConnectorInvariance, PTL

-----------------------------------------------------------------------------
(* The life of a run: types, and the flow of control.                      *)

Streams == [Looped -> Seq(Runs)]
MainPlaces == {"idle", "open", "launch", "observe", "replace", "run", "spin",
               "destroy", "gone"}
StopPlaces == {"none", "watch", "stop", "join", "gone"}

\* No run, or a run of which nothing is between Start and Start.
Resting == mpc \in {"idle", "open", "launch", "destroy", "gone"}

\* Where main is determines what runs and who observes it.
Flow ==
    /\ ~running => live = {}
    /\ Resting => ~running
    /\ mpc \notin {"idle", "destroy", "gone"} => starts # 0
    /\ mpc \in {"open", "launch", "observe"} => observer_ < starts
    /\ mpc = "replace" => old < starts
    /\ mpc \in {"replace", "run", "spin"} => observer_ = starts
    /\ observer_ <= starts
    /\ \A o \in Runs : told[o] => o <= observer_
    /\ \A o \in Runs : spc[o] \in {"stop", "join", "gone"} => told[o]

LEMMA Numbers ==
    /\ N \in Nat /\ N > 0 /\ RunIdBits \in Nat /\ RunIdBits > N
    /\ MaxStarts \in Nat
    /\ Runs = 1 .. MaxStarts /\ Modules = 1 .. N /\ Looped = 2 .. N
    /\ 1 \in Modules /\ N \in Modules /\ 0 \notin Modules
    /\ Looped \subseteq Modules /\ 1 \notin Looped
    /\ User = 0 /\ User \in Stoppers /\ Runs \subseteq Stoppers /\ 0 \notin Runs
BY LifecycleAssumption DEF Runs, Modules, Looped, User, Stoppers

LEMMA MovedRightType == LifeTypeOK => MovedRight \in 0 .. RunIdBits
BY Numbers DEF LifeTypeOK, MovedRight

LEMMA LeftMoveType == LifeTypeOK /\ LeftMove => run_id' \in 0 .. RunIdBits
BY Numbers DEF LifeTypeOK, LeftMove

\* What is taken from the queues and sent on stays a stream.
LEMMA SentType ==
    ASSUME NEW m \in Modules, NEW r \in Runs, NEW q \in Streams,
           NEW w \in Sent(m, r, q)
    PROVE  w \in Streams
<1>1. CASE m = N
  BY <1>1 DEF Sent
<1>2. CASE m # N
  <2>1. m + 1 \in Looped
    BY <1>2, Numbers
  <2>2. [q EXCEPT ![m + 1] = Append(@, r)] \in Streams
    BY <2>1 DEF Streams
  <2> QED BY <1>2, <2>2 DEF Sent
<1> QED BY <1>1, <1>2

LEMMA TakenType ==
    ASSUME NEW m \in Modules, NEW q \in Streams, m # 1 => q[m] # << >>
    PROVE  Taken(m, q) \in Streams
<1>1. CASE m = 1
  BY <1>1 DEF Taken
<1>2. CASE m # 1
  <2>1. m \in Looped
    BY <1>2, Numbers
  <2>2. Tail(q[m]) \in Seq(Runs)
    BY <1>2, <2>1 DEF Streams
  <2> QED BY <1>2, <2>1, <2>2 DEF Taken, Streams
<1> QED BY <1>1, <1>2

LEMMA RightMoveType ==
    ASSUME LifeTypeOK, NEW m \in Modules, NEW r \in Runs, RightMove(m, r)
    PROVE  /\ run_id' \in 0 .. RunIdBits /\ told' \in [Runs -> BOOLEAN]
           /\ passed' \in [Modules -> 0 .. MaxStarts]
           /\ passed'[m] = r
           /\ \A k \in Modules : k # m => passed'[k] = passed[k]
           /\ \A o \in Runs : told'[o] <=> (told[o] \/ (o = observer_ /\ run_id' = 1))
<1>1. run_id' \in 0 .. RunIdBits
  BY MovedRightType DEF RightMove
<1>2. /\ told' = [o \in Runs |-> told[o] \/ (o = observer_ /\ MovedRight = 1)]
      /\ run_id' = MovedRight
  BY DEF RightMove
<1>3. told' \in [Runs -> BOOLEAN]
  BY <1>2 DEF LifeTypeOK
<1>4. \A o \in Runs : told'[o] <=> (told[o] \/ (o = observer_ /\ run_id' = 1))
  BY <1>2
<1>5. /\ passed' \in [Modules -> 0 .. MaxStarts] /\ passed'[m] = r
      /\ \A k \in Modules : k # m => passed'[k] = passed[k]
  BY Numbers DEF RightMove, LifeTypeOK
<1> QED BY <1>1, <1>3, <1>4, <1>5

\* The head of a queue that is not empty.
LEMMA HeadType ==
    ASSUME LifeTypeOK, NEW m \in Looped, eosq[m] # << >>
    PROVE  /\ eosq \in Streams /\ eosq[m] \in Seq(Runs)
           /\ Head(eosq[m]) \in Runs /\ Head(eosq[m]) = eosq[m][1]
           /\ Len(eosq[m]) \in Nat \ {0}
BY DEF LifeTypeOK, Streams

LEMMA TypeInit == LifeInit => LifeTypeOK
<1> SUFFICES ASSUME LifeInit PROVE LifeTypeOK
  OBVIOUS
<1>1. starts \in 0 .. MaxStarts /\ observer_ \in 0 .. MaxStarts
      /\ old \in 0 .. MaxStarts
  BY Numbers DEF LifeInit
<1>2. first \in 0 .. N /\ run_id \in 0 .. RunIdBits
  BY Numbers DEF LifeInit
<1>3. eosq \in [Looped -> Seq(Runs)]
  BY DEF LifeInit
<1>4. passed \in [Modules -> 0 .. MaxStarts]
  BY Numbers DEF LifeInit
<1>5. /\ spc \in [Stoppers -> StopPlaces] /\ told \in [Runs -> BOOLEAN]
      /\ mpc \in MainPlaces
  BY DEF LifeInit, StopPlaces, MainPlaces
<1> QED BY <1>1, <1>2, <1>3, <1>4, <1>5 DEF LifeInit, LifeTypeOK, StopPlaces, MainPlaces

LEMMA TypeStep == LifeTypeOK /\ Flow /\ [LifeNext]_lifeVars => LifeTypeOK'
<1> SUFFICES ASSUME LifeTypeOK, Flow, [LifeNext]_lifeVars PROVE LifeTypeOK'
  OBVIOUS
<1> USE Numbers
<1>1. CASE UNCHANGED lifeVars
  BY <1>1 DEF lifeVars, LifeTypeOK
<1>2. CASE StartCall
  BY <1>2 DEF StartCall, Main, LifeTypeOK, streamVars, restVars
<1>3. ASSUME NEW m \in Modules, OpenModule(m) PROVE LifeTypeOK'
  <2>1. run_id' \in 0 .. RunIdBits
    BY <1>3, LeftMoveType DEF OpenModule
  <2>2. first' \in 0 .. N
    BY <1>3 DEF OpenModule, LifeTypeOK
  <2>3. mpc' \in MainPlaces
    BY <1>3 DEF OpenModule, Main, MainPlaces
  <2> QED BY <1>3, <2>1, <2>2, <2>3 DEF OpenModule, LifeTypeOK, restVars, MainPlaces
<1>4. ASSUME NEW m \in Modules, OpenFailed(m) PROVE LifeTypeOK'
  <2>1. run_id' \in 0 .. RunIdBits
    BY <1>4, LeftMoveType DEF OpenFailed
  <2> QED BY <1>4, <2>1 DEF OpenFailed, Main, LifeTypeOK
<1>5. CASE Launch
  BY <1>5 DEF Launch, Main, LifeTypeOK, startVars, restVars
<1>6. CASE Observe
  <2>1. spc' \in [Stoppers -> StopPlaces]
    BY <1>6 DEF Observe, LifeTypeOK, StopPlaces
  <2> QED BY <1>6, <2>1 DEF Observe, Main, LifeTypeOK, StopPlaces, startVars, streamVars
<1>7. CASE Replace \/ MainReturns \/ Destroy \/ Destroyed
  BY <1>7 DEF Replace, MainReturns, Destroy, Destroyed, Main, LifeTypeOK, startVars,
              streamVars, restVars
<1>8. CASE SourceEos
  <2>1. starts \in Runs
    BY <1>8 DEF SourceEos, Main, Flow, LifeTypeOK
  <2>2. eosq' \in Streams
    BY <1>8, <2>1, SentType DEF SourceEos, LifeTypeOK, Streams
  <2>3. /\ run_id' \in 0 .. RunIdBits /\ told' \in [Runs -> BOOLEAN]
        /\ passed' \in [Modules -> 0 .. MaxStarts]
    BY <1>8, <2>1, RightMoveType DEF SourceEos
  <2> QED BY <1>8, <2>2, <2>3 DEF SourceEos, Main, LifeTypeOK, Streams, startVars,
                                  restVars
<1>9. ASSUME NEW m \in Looped, TaskEos(m) PROVE LifeTypeOK'
  <2>1. /\ Head(eosq[m]) \in Runs /\ eosq \in Streams /\ m \in Modules
        /\ eosq[m] # << >>
    BY <1>9, HeadType DEF TaskEos
  <2>2. eosq' \in Streams
    BY <1>9, <2>1, TakenType, SentType DEF TaskEos
  <2>3. /\ run_id' \in 0 .. RunIdBits /\ told' \in [Runs -> BOOLEAN]
        /\ passed' \in [Modules -> 0 .. MaxStarts]
    BY <1>9, <2>1, RightMoveType DEF TaskEos
  <2> QED BY <1>9, <2>2, <2>3 DEF TaskEos, LifeTypeOK, Streams, startVars, restVars
<1>10. ASSUME NEW m \in Looped, TaskExit(m) PROVE LifeTypeOK'
  <2>1. eosq' \in Streams
    <3>1. eosq \in Streams /\ m \in Modules
      BY DEF LifeTypeOK, Streams
    <3>2. CASE eosq[m] # << >> /\ eosq' = Taken(m, eosq)
      BY <3>1, <3>2, TakenType
    <3> QED BY <1>10, <3>1, <3>2 DEF TaskExit
  <2> QED BY <1>10, <2>1 DEF TaskExit, LifeTypeOK, Streams, startVars, restVars
<1>11. ASSUME NEW o \in Runs, ObserverStop(o) PROVE LifeTypeOK'
  <2>1. spc' \in [Stoppers -> StopPlaces]
    BY <1>11 DEF ObserverStop, Stopping, LifeTypeOK, StopPlaces
  <2> QED BY <1>11, <2>1 DEF ObserverStop, LifeTypeOK, StopPlaces, startVars,
                             streamVars, restVars
<1>12. CASE UserStop
  <2>1. spc' \in [Stoppers -> StopPlaces]
    BY <1>12 DEF UserStop, Stopping, LifeTypeOK, StopPlaces
  <2> QED BY <1>12, <2>1 DEF UserStop, LifeTypeOK, StopPlaces, startVars, streamVars
<1>13. ASSUME NEW s \in Stoppers, StopConnectors(s) \/ Joined(s) PROVE LifeTypeOK'
  <2>1. spc' \in [Stoppers -> StopPlaces]
    BY <1>13 DEF StopConnectors, Joined, Stopping, LifeTypeOK, StopPlaces
  <2>2. eosq' \in Streams
    <3>1. << >> \in Seq(Runs) /\ eosq \in Streams
      BY DEF LifeTypeOK, Streams
    <3>2. CASE StopConnectors(s)
      BY <3>1, <3>2 DEF StopConnectors, Streams
    <3>3. CASE Joined(s)
      BY <3>1, <3>3 DEF Joined, streamVars
    <3> QED BY <1>13, <3>2, <3>3
  <2> QED BY <1>13, <2>1, <2>2 DEF StopConnectors, Joined, LifeTypeOK, StopPlaces,
                                   Streams, startVars, streamVars, restVars
<1>14. CASE StopAbort
  BY <1>14 DEF StopAbort, LifeTypeOK, startVars, streamVars
<1> QED BY <1>1, <1>2, <1>3, <1>4, <1>5, <1>6, <1>7, <1>8, <1>9, <1>10, <1>11,
           <1>12, <1>13, <1>14
        DEF LifeNext, MainThread, Task, Stopper


LEMMA StopMoves ==
    ASSUME LifeTypeOK, NEW s \in Stoppers, NEW from, NEW to, Stopping(s, from, to)
    PROVE  /\ spc[s] = from /\ spc'[s] = to
           /\ \A t \in Stoppers : t # s => spc'[t] = spc[t]
BY DEF Stopping, LifeTypeOK

LEMMA FlowInit == LifeInit => Flow
BY Numbers DEF LifeInit, Flow, Resting

LEMMA FlowStep == LifeTypeOK /\ Flow /\ [LifeNext]_lifeVars => Flow'
<1> SUFFICES ASSUME LifeTypeOK, Flow, [LifeNext]_lifeVars PROVE Flow'
  OBVIOUS
<1>0. /\ starts \in Nat /\ observer_ \in Nat /\ old \in Nat
      /\ \A o \in Runs : o \in Nat /\ o # 0 /\ o \in Stoppers
      /\ User \notin Runs
  BY Numbers DEF LifeTypeOK
<1>1. CASE UNCHANGED lifeVars
  BY <1>1 DEF lifeVars, Flow, Resting
<1>2. CASE StartCall
  BY <1>0, <1>2 DEF StartCall, Main, Flow, Resting, streamVars, restVars
<1>3. ASSUME NEW m \in Modules, OpenModule(m) \/ OpenFailed(m) PROVE Flow'
  BY <1>0, <1>3 DEF OpenModule, OpenFailed, Main, Flow, Resting, restVars
<1>4. CASE Launch
  BY <1>4 DEF Launch, Main, Flow, Resting, startVars, restVars
<1>5. CASE Observe
  <2>1. /\ mpc = "observe" /\ mpc' = "replace" /\ observer_' = starts
        /\ old' = observer_ /\ spc' = [spc EXCEPT ![starts] = "watch"]
        /\ UNCHANGED <<starts, running, live, told>>
    BY <1>5 DEF Observe, Main, startVars, streamVars
  <2>2. \A o \in Runs : spc'[o] \in {"stop", "join", "gone"} => spc'[o] = spc[o]
    BY <2>1 DEF LifeTypeOK
  <2> QED BY <1>0, <2>1, <2>2 DEF Flow, Resting
<1>6. CASE Replace \/ MainReturns \/ Destroy \/ Destroyed
  BY <1>6 DEF Replace, MainReturns, Destroy, Destroyed, Main, Flow, Resting,
              startVars, streamVars, restVars
<1>7. CASE SourceEos
  <2>1. starts \in Runs
    BY <1>7, Numbers DEF SourceEos, Main, Flow, LifeTypeOK
  <2>2. \A o \in Runs : told'[o] <=> (told[o] \/ (o = observer_ /\ run_id' = 1))
    BY <1>7, <2>1, RightMoveType, Numbers DEF SourceEos
  <2> QED BY <1>0, <1>7, <2>2 DEF SourceEos, Main, Flow, Resting, startVars,
                                  restVars
<1>8. ASSUME NEW m \in Looped, TaskEos(m) PROVE Flow'
  <2>1. m \in Modules /\ Head(eosq[m]) \in Runs
    BY <1>8, HeadType, Numbers DEF TaskEos
  <2>2. \A o \in Runs : told'[o] <=> (told[o] \/ (o = observer_ /\ run_id' = 1))
    BY <1>8, <2>1, RightMoveType DEF TaskEos
  <2> QED BY <1>0, <1>8, <2>2 DEF TaskEos, Flow, Resting, startVars, restVars
<1>9. ASSUME NEW m \in Looped, TaskExit(m) PROVE Flow'
  BY <1>9 DEF TaskExit, Flow, Resting, startVars, restVars
<1>10. ASSUME NEW o \in Runs, ObserverStop(o) PROVE Flow'
  <2>1. \A p \in Runs : p # o => spc'[p] = spc[p]
    BY <1>0, <1>10, StopMoves DEF ObserverStop
  <2> QED BY <1>10, <2>1 DEF ObserverStop, Flow, Resting, startVars, streamVars,
                             restVars
<1>11. CASE UserStop
  <2>1. \A p \in Runs : spc'[p] = spc[p]
    BY <1>0, <1>11, StopMoves, Numbers DEF UserStop
  <2> QED BY <1>11, <2>1 DEF UserStop, Flow, Resting, startVars, streamVars
<1>12. ASSUME NEW s \in Stoppers, Stopper(s) PROVE Flow'
  <2>1. spc[s] \in {"stop", "join"}
        /\ \A p \in Runs : p # s => spc'[p] = spc[p]
    BY <1>0, <1>12, StopMoves DEF Stopper, StopConnectors, Joined
  <2>2. UNCHANGED <<mpc, starts, observer_, old, told, live>>
        /\ (running' = running \/ (live = {} /\ running' = FALSE))
    BY <1>12 DEF Stopper, StopConnectors, Joined, startVars, streamVars, restVars
  <2> QED BY <2>1, <2>2 DEF Flow, Resting
<1>13. CASE StopAbort
  BY <1>13 DEF StopAbort, Flow, Resting, startVars, streamVars
<1> QED BY <1>1, <1>2, <1>3, <1>4, <1>5, <1>6, <1>7, <1>8, <1>9, <1>10, <1>11,
           <1>12, <1>13
        DEF LifeNext, MainThread, Task

-----------------------------------------------------------------------------
(* How much of the stream is still to be counted.                          *)

Places == {0} \union Looped
RunsOrNone == 0 .. MaxStarts

\* One end of stream, that of run x, is in the connector of module a; or none
\* is, if a is 0.
Only(a, x) == [m \in Looped |-> IF m = a THEN <<x>> ELSE << >>]

\* The modules it has still to pass.
ToGo(a) == IF a = 0 THEN 0 ELSE N - a + 1

\* There is no observer o, or it has been told.
Drained(o) == o = 0 \/ o \in {p \in Runs : told[p]}

\* Between the runs an end of stream may be left over, but then the observer of
\* the last run has not been told, and never will be.
Rest(a, x) == /\ eosq = Only(a, x)
              /\ a # 0 => /\ x \in Runs /\ x <= starts
                          /\ mpc \in {"open", "launch"} => x # starts
              /\ Drained(observer_) => a = 0
              /\ run_id >= 1 + ToGo(a)

RestOK == Resting =>
    /\ \A m \in Modules : /\ passed[m] <= starts
                          /\ mpc \in {"open", "launch"} => passed[m] # starts
    /\ mpc = "open" => run_id >= 1 + N - Cardinality(unopened)
    /\ mpc = "launch" => run_id >= 1 + N
    /\ \E a \in Places, x \in RunsOrNone : Rest(a, x)

\* What is left over moves on while Start replaces the observer, but it is not
\* enough to tell one, and Start waits for the old one for ever.
Wait(a, x) == /\ eosq = Only(a, x)
              /\ a # 0 => x \in Runs /\ x < starts
              /\ Drained(IF mpc = "observe" THEN observer_ ELSE old)
                    => a = 0 /\ run_id >= 1 + N
              /\ run_id >= 2 + ToGo(a)

WaitOK == mpc \in {"observe", "replace"} =>
    /\ \A m \in Modules : passed[m] < starts
    /\ ~told[starts]
    /\ \E a \in Places, x \in RunsOrNone : Wait(a, x)

\* The run itself starts with nothing left over: the modules up to j have passed
\* its end of stream, which is in the connector behind j if it is in any.
Run(j, b) == /\ eosq = Only(b, starts)
             /\ b \in {0, j + 1}
             /\ \A m \in Modules : passed[m] = starts <=> m <= j
             /\ run_id >= 1 + N - j
             /\ j = 0 => b = 0
             /\ j = 0 <=> mpc = "run"
             /\ told[starts] => j = N

RunOK == mpc \in {"run", "spin"} =>
    /\ \A m \in Modules : passed[m] <= starts
    /\ \E j \in 0 .. N, b \in Places : Run(j, b)

Counted == ~broken => RestOK /\ WaitOK /\ RunOK

LEMMA CountedInit == LifeInit => Counted
<1> SUFFICES ASSUME LifeInit PROVE RestOK /\ WaitOK /\ RunOK
  BY DEF Counted
<1>1. eosq = Only(0, 0) /\ 0 \in Places /\ 0 \in RunsOrNone
  BY Numbers DEF LifeInit, Only, Places, RunsOrNone
<1>2. Rest(0, 0)
  BY <1>1 DEF LifeInit, Rest, ToGo
<1> QED BY <1>1, <1>2, Numbers DEF LifeInit, RestOK, WaitOK, RunOK

\* What the invariant is about stays as it is.
Still == UNCHANGED <<starts, run_id, eosq, passed, told, observer_, old, broken>>

LEMMA CountedStill ==
    ASSUME Counted, Still, UNCHANGED <<mpc, unopened>>
    PROVE  Counted'
BY DEF Counted, Still, RestOK, WaitOK, RunOK, Rest, Wait, Run, Resting, Drained

\* ToGo is small, and grows smaller with every module that is passed.
LEMMA ToGoFacts ==
    /\ ToGo(0) = 0
    /\ \A a \in Places : ToGo(a) \in 0 .. N - 1
    /\ \A a \in Looped : /\ ToGo(a) >= 1
                         /\ a # N => a + 1 \in Looped /\ ToGo(a + 1) = ToGo(a) - 1
BY Numbers DEF ToGo, Places

\* Where the end of stream is after module a has passed it.
LEMMA Moves ==
    ASSUME NEW a \in Looped, NEW x, eosq = Only(a, x),
           NEW w \in Sent(a, x, Taken(a, eosq))
    PROVE  w = Only(0, x) \/ (a # N /\ w = Only(a + 1, x))
<1>1. Taken(a, eosq) = Only(0, x)
  <2>1. a # 1 /\ 0 \notin Looped
    BY Numbers
  <2>2. Tail(eosq[a]) = << >>
    BY DEF Only
  <2> QED BY <2>1, <2>2 DEF Taken, Only
<1>2. CASE a = N
  BY <1>1, <1>2 DEF Sent
<1>3. CASE a # N
  <2>1. a + 1 \in Looped /\ 0 \notin Looped
    BY <1>3, Numbers
  <2>2. Append(Only(0, x)[a + 1], x) = <<x>>
    <3>1. Only(0, x)[a + 1] = << >>
      BY <2>1 DEF Only
    <3>2. Append(<< >>, x) = <<x>>
      OBVIOUS
    <3> QED BY <3>1, <3>2
  <2>3. [Only(0, x) EXCEPT ![a + 1] = Append(@, x)] = Only(a + 1, x)
    BY <2>1, <2>2 DEF Only
  <2> QED BY <1>1, <1>3, <2>3 DEF Sent
<1> QED BY <1>2, <1>3

\* Only the end of stream that is there can be taken.
LEMMA OnlyFull ==
    ASSUME NEW a \in Places, NEW x, eosq = Only(a, x), NEW m \in Looped,
           eosq[m] # << >>
    PROVE  m = a /\ a \in Looped /\ Head(eosq[m]) = x
BY Numbers DEF Only, Places

LEMMA OnlyTaken ==
    ASSUME NEW a \in Places, NEW x, eosq = Only(a, x), NEW m \in Looped,
           eosq[m] # << >>
    PROVE  Taken(m, eosq) = Only(0, x)
<1>1. m = a /\ m # 1 /\ 0 \notin Looped
  BY OnlyFull, Numbers
<1>2. Tail(eosq[m]) = << >>
  BY <1>1 DEF Only
<1> QED BY <1>1, <1>2 DEF Taken, Only

\* A module that opens is one module less to open, and sets one more bit.
LEMMA OpenCounts ==
    ASSUME LifeTypeOK, NEW m \in unopened, LeftMove, run_id >= 1,
           run_id >= 1 + N - Cardinality(unopened)
    PROVE  /\ run_id' >= run_id
           /\ unopened = {m} => run_id' >= 1 + N
           /\ run_id' >= 1 + N - Cardinality(unopened \ {m})
<1>1. IsFiniteSet(unopened)
  <2>1. IsFiniteSet(Modules)
    BY FS_Interval, Numbers
  <2> QED BY <2>1, FS_Subset DEF LifeTypeOK
<1>2. /\ Cardinality(unopened \ {m}) = Cardinality(unopened) - 1
      /\ Cardinality(unopened) \in Nat /\ Cardinality(unopened) >= 1
  <2>1. Cardinality(unopened) \in Nat /\ Cardinality(unopened \ {m}) \in Nat
    BY <1>1, FS_CardinalityType, FS_RemoveElement
  <2>2. Cardinality(unopened \ {m}) = Cardinality(unopened) - 1
    BY <1>1, FS_RemoveElement
  <2> QED BY <2>1, <2>2
<1>3. unopened = {m} => Cardinality(unopened) = 1
  BY FS_Singleton
<1>4. run_id \in Nat /\ run_id' = IF run_id \in {0, RunIdBits} THEN run_id ELSE run_id + 1
  BY Numbers DEF LifeTypeOK, LeftMove
<1> QED BY <1>2, <1>3, <1>4, Numbers

LEMMA AllToOpen == Cardinality(Modules) = N
BY FS_Interval, Numbers

\* Start.
LEMMA CountedOpen ==
    ASSUME LifeTypeOK, LifeTypeOK', Flow, Counted, ~broken',
           StartCall \/ \E m \in Modules : OpenModule(m) \/ OpenFailed(m)
    PROVE  RestOK'
<1>1. Resting /\ Resting' /\ ~broken
  <2>1. Resting /\ Resting'
    BY DEF StartCall, OpenModule, OpenFailed, Main, Resting
  <2>2. \/ broken' = broken
        \/ broken' = (broken \/ first = 0)
    BY DEF StartCall, OpenModule, OpenFailed, restVars
  <2>3. ~broken
    BY <2>2, Zenon DEF LifeTypeOK
  <2> QED BY <2>1, <2>3
<1>2. PICK a \in Places, x \in RunsOrNone : Rest(a, x)
  BY <1>1 DEF Counted, RestOK
<1>3. /\ \A m \in Modules : passed[m] <= starts /\ passed[m] \in Nat
      /\ starts \in Nat /\ x \in Nat /\ run_id \in Nat /\ ToGo(a) \in Nat
  BY SMTT(30), <1>1, Numbers, ToGoFacts DEF Counted, RestOK, LifeTypeOK, RunsOrNone
<1>4. UNCHANGED <<eosq, passed, told, observer_>>
  BY DEF StartCall, OpenModule, OpenFailed, streamVars, restVars
<1>5. CASE StartCall
  <2>1. /\ mpc' = "open" /\ starts' = starts + 1 /\ unopened' = Modules
        /\ UNCHANGED run_id
    BY <1>5 DEF StartCall, Main, streamVars
  <2>2. Rest(a, x)'
    BY <1>2, <1>3, <1>4, <2>1 DEF Rest, Drained, Only, ToGo
  <2>3. \A m \in Modules : passed'[m] < starts'
    BY <1>3, <1>4, <2>1
  <2>4. run_id' >= 1 + N - Cardinality(unopened')
    BY <1>2, <1>3, <2>1, AllToOpen, Numbers DEF Rest
  <2>5. \A m \in Modules : passed'[m] \in Nat /\ starts' \in Nat
    BY <1>3, <1>4, <2>1
  <2> QED BY <1>2, <2>1, <2>2, <2>3, <2>4, <2>5 DEF RestOK
<1>6. ASSUME NEW m \in Modules, OpenModule(m) \/ OpenFailed(m)
      PROVE  RestOK'
  <2>1. /\ mpc = "open" /\ m \in unopened /\ LeftMove /\ UNCHANGED starts
        /\ mpc' \in {"idle", "open", "launch"}
    BY <1>6, <1>1 DEF OpenModule, OpenFailed, Main
  <2>2. /\ run_id' >= run_id /\ (unopened = {m} => run_id' >= 1 + N)
        /\ run_id' >= 1 + N - Cardinality(unopened \ {m})
    <3>1. run_id >= 1 /\ run_id >= 1 + N - Cardinality(unopened)
      BY <1>1, <1>2, <1>3, <2>1 DEF Counted, RestOK, Rest
    <3> QED BY <2>1, <3>1, OpenCounts
  <2>3. run_id' >= 1 + ToGo(a)
    BY SMTT(30), <1>2, <1>3, <2>2 DEF Rest, LifeTypeOK
  <2>4. Rest(a, x)'
    BY <1>2, <1>4, <2>1, <2>3 DEF Rest, Drained, Only, ToGo
  <2>5. \A k \in Modules : passed'[k] <= starts' /\ passed'[k] # starts'
    BY <1>1, <1>4, <2>1 DEF Counted, RestOK
  <2>6. /\ mpc' = "open" => unopened' = unopened \ {m}
        /\ mpc' = "launch" => unopened = {m}
    BY <1>6, <2>1 DEF OpenModule, OpenFailed, Main
  <2> QED BY <1>2, <2>2, <2>4, <2>5, <2>6 DEF RestOK
<1> QED BY <1>5, <1>6

\* A Rest in one phase is a Wait in the next, ...
LEMMA CountedLaunch ==
    ASSUME LifeTypeOK, Flow, Counted, ~broken, Launch
    PROVE  WaitOK'
<1>1. PICK a \in Places, x \in RunsOrNone : Rest(a, x)
  BY DEF Launch, Main, Resting, Counted, RestOK
<1>2. /\ mpc = "launch" /\ mpc' = "observe"
      /\ UNCHANGED <<starts, run_id, eosq, passed, told, observer_, old>>
  BY DEF Launch, Main, startVars, restVars
<1>3. /\ run_id >= 1 + N
      /\ \A m \in Modules : passed[m] <= starts /\ passed[m] # starts
  BY <1>2 DEF Counted, RestOK, Resting
<1>4. /\ run_id \in Nat /\ ToGo(a) \in 0 .. N - 1 /\ starts \in Nat
      /\ \A m \in Modules : passed[m] \in Nat
      /\ x \in Nat
  BY ToGoFacts, Numbers DEF LifeTypeOK, RunsOrNone
<1>5. run_id >= 2 + ToGo(a) /\ \A m \in Modules : passed[m] < starts
  BY <1>3, <1>4, Numbers
<1>6. a # 0 => x \in Runs /\ x < starts
  BY <1>1, <1>2, <1>4 DEF Rest
<1>7. Wait(a, x)'
  BY <1>1, <1>2, <1>3, <1>5, <1>6 DEF Rest, Wait, Drained, Only, ToGo
<1>8. ~told[starts]
  <2>1. observer_ < starts /\ starts \in Runs /\ observer_ \in Nat
    BY <1>2, <1>4, Numbers DEF Flow, LifeTypeOK
  <2> QED BY <1>4, <2>1 DEF Flow
<1> QED BY <1>1, <1>2, <1>5, <1>7, <1>8 DEF WaitOK

LEMMA CountedObserve ==
    ASSUME LifeTypeOK, Flow, Counted, ~broken, Observe
    PROVE  WaitOK'
<1>1. /\ mpc = "observe" /\ mpc' = "replace" /\ old' = observer_
      /\ UNCHANGED <<starts, run_id, eosq, passed, told>>
  BY DEF Observe, Main, startVars, streamVars
<1>2. PICK a \in Places, x \in RunsOrNone : Wait(a, x)
  BY <1>1 DEF Counted, WaitOK
<1>3. Wait(a, x)'
  BY <1>1, <1>2 DEF Wait, Drained, Only, ToGo
<1> QED BY <1>1, <1>2, <1>3 DEF Counted, WaitOK

\* ... and the start of a run when nothing is left over: the old observer has
\* called Stop, so it had been told.
LEMMA CountedReplace ==
    ASSUME LifeTypeOK, Flow, Counted, ~broken, Replace
    PROVE  RunOK'
<1>1. /\ mpc = "replace" /\ mpc' = "run" /\ (old # 0 => spc[old] = "gone")
      /\ UNCHANGED <<starts, run_id, eosq, passed, told>>
  BY DEF Replace, Main, startVars, streamVars
<1>2. PICK a \in Places, x \in RunsOrNone : Wait(a, x)
  BY <1>1 DEF Counted, WaitOK
<1>3. Drained(old)
  BY <1>1, Numbers DEF Flow, Drained, LifeTypeOK
<1>4. a = 0 /\ run_id >= 1 + N
  BY <1>1, <1>2, <1>3 DEF Wait
<1>5. /\ \A m \in Modules : passed[m] < starts
      /\ ~told[starts]
  BY <1>1 DEF Counted, WaitOK
<1>6. \A m \in Modules : passed[m] \in Nat /\ starts \in Nat /\ m > 0
  BY Numbers DEF LifeTypeOK
<1>7. eosq = Only(0, starts)
  BY <1>2, <1>4, Numbers DEF Wait, Only
<1>8. Run(0, 0)'
  BY <1>1, <1>4, <1>5, <1>6, <1>7, Numbers DEF Run, Only
<1>9. 0 \in 0 .. N /\ 0 \in Places
  BY Numbers DEF Places
<1>10. \A m \in Modules : passed'[m] <= starts'
  BY <1>1, <1>5, <1>6
<1> QED BY <1>8, <1>9, <1>10 DEF RunOK

\* The end of stream of the run itself: Source passes it, ...
LEMMA CountedSource ==
    ASSUME LifeTypeOK, Flow, Counted, ~broken, SourceEos
    PROVE  RunOK'
<1>1. /\ mpc = "run" /\ mpc' = "spin" /\ RightMove(1, starts)
      /\ eosq' \in Sent(1, starts, eosq)
      /\ UNCHANGED <<starts, observer_>>
  BY DEF SourceEos, Main, startVars, restVars
<1>2. PICK j \in 0 .. N, b \in Places : Run(j, b)
  BY <1>1 DEF Counted, RunOK
<1>3. /\ j = 0 /\ b = 0 /\ eosq = Only(0, starts) /\ run_id >= 1 + N
      /\ \A m \in Modules : passed[m] <= starts /\ ~(passed[m] = starts)
      /\ ~told[starts]
  BY <1>1, <1>2, Numbers DEF Run, Counted, RunOK
<1>4. starts \in Runs /\ observer_ = starts
  BY <1>1, Numbers DEF Flow, LifeTypeOK
<1>5. /\ passed'[1] = starts
      /\ \A k \in Modules : k # 1 => passed'[k] = passed[k]
      /\ told'[starts] <=> run_id' = 1
  BY <1>1, <1>3, <1>4, RightMoveType, Numbers
<1>6. run_id' = run_id - 1 /\ run_id \in Nat
  BY <1>1, <1>3, Numbers DEF RightMove, MovedRight, LifeTypeOK
<1>7. \A m \in Modules : passed'[m] = starts <=> m <= 1
  BY <1>3, <1>5, Numbers
<1>8. eosq' = Only(0, starts) \/ (N # 1 /\ eosq' = Only(2, starts))
  <2>1. CASE N = 1
    BY <1>1, <1>3, <2>1 DEF Sent
  <2>2. CASE N # 1
    <3>1. 2 \in Looped /\ 0 \notin Looped /\ 1 + 1 = 2
      BY <2>2, Numbers
    <3>2. Append(Only(0, starts)[2], starts) = <<starts>>
      <4>1. Only(0, starts)[2] = << >>
        BY <3>1 DEF Only
      <4>2. Append(<< >>, starts) = <<starts>>
        OBVIOUS
      <4> QED BY <4>1, <4>2
    <3>3. [Only(0, starts) EXCEPT ![2] = Append(@, starts)] = Only(2, starts)
      BY <3>1, <3>2 DEF Only
    <3> QED BY <1>1, <1>3, <2>2, <3>1, <3>3 DEF Sent
  <2> QED BY <2>1, <2>2
<1>9. PICK c \in {0, 2} : eosq' = Only(c, starts) /\ (c = 2 => N # 1)
  BY <1>8
<1>10. Run(1, c)'
  BY <1>1, <1>3, <1>5, <1>6, <1>7, <1>9, Numbers DEF Run, Only
<1>11. c \in Places /\ 1 \in 0 .. N
  BY <1>9, Numbers DEF Places
<1>12. \A m \in Modules : passed'[m] <= starts'
  BY <1>1, <1>3, <1>4, <1>5, Numbers
<1> QED BY <1>10, <1>11, <1>12 DEF RunOK

\* ... and then the modules behind it.
LEMMA CountedTaskRun ==
    ASSUME LifeTypeOK, Flow, Counted, ~broken, NEW m \in Looped, TaskEos(m),
           mpc \in {"run", "spin"}
    PROVE  RunOK'
<1>1. /\ RightMove(m, Head(eosq[m])) /\ eosq[m] # << >>
      /\ eosq' \in Sent(m, Head(eosq[m]), Taken(m, eosq))
      /\ UNCHANGED <<mpc, starts, observer_>>
  BY DEF TaskEos, startVars, restVars
<1>2. PICK j \in 0 .. N, b \in Places : Run(j, b)
  BY DEF Counted, RunOK
<1>3. /\ m = b /\ m = j + 1 /\ b \in Looped /\ j # 0 /\ Head(eosq[m]) = starts
      /\ eosq = Only(b, starts) /\ m \in Modules
  BY <1>1, <1>2, OnlyFull, Numbers DEF Run
<1>4. starts \in Runs /\ observer_ = starts
  BY Numbers DEF Flow, LifeTypeOK
<1>5. /\ passed'[m] = starts
      /\ \A k \in Modules : k # m => passed'[k] = passed[k]
      /\ told'[starts] <=> (told[starts] \/ run_id' = 1)
  BY <1>1, <1>3, <1>4, RightMoveType
<1>6. /\ run_id' = run_id - 1 /\ run_id \in Nat /\ run_id >= 1 + N - j
      /\ j < N /\ j \in Nat /\ mpc = "spin"
      /\ ~told[starts]
  <2>1. j < N /\ j \in Nat /\ run_id >= 1 + N - j /\ run_id \in Nat
    BY <1>2, <1>3, Numbers DEF Run, LifeTypeOK
  <2>2. run_id' = run_id - 1
    BY <1>1, <2>1, Numbers DEF RightMove, MovedRight
  <2> QED BY <1>2, <1>3, <2>1, <2>2, Numbers DEF Run
<1>7. \A k \in Modules : passed'[k] = starts <=> k <= j + 1
  BY <1>2, <1>3, <1>5, <1>6, Numbers DEF Run
<1>8. PICK c \in Places : /\ eosq' = Only(c, starts)
                          /\ c \in {0, j + 2}
  <2>1. eosq' = Only(0, starts) \/ (m # N /\ eosq' = Only(m + 1, starts))
    BY <1>1, <1>3, Moves
  <2>2. 0 \in Places /\ (m # N => m + 1 \in Places)
    BY ToGoFacts DEF Places
  <2> QED BY <1>3, <1>6, <2>1, <2>2
<1>9. run_id' >= 1 + N - (j + 1) /\ (run_id' = 1 => j + 1 = N)
  BY <1>6, Numbers
<1>10. j + 1 \in 0 .. N
  BY <1>6, Numbers
<1>11. Run(j + 1, c)'
  BY <1>1, <1>5, <1>6, <1>7, <1>8, <1>9 DEF Run, Only
<1>12. \A k \in Modules : passed'[k] <= starts'
  BY <1>1, <1>4, <1>5, Numbers DEF Counted, RunOK
<1> QED BY <1>8, <1>10, <1>11, <1>12 DEF RunOK

LEMMA CountedTaskWait ==
    ASSUME LifeTypeOK, Flow, Counted, ~broken, NEW m \in Looped, TaskEos(m),
           mpc \in {"observe", "replace"}
    PROVE  WaitOK'
<1>1. /\ RightMove(m, Head(eosq[m])) /\ eosq[m] # << >>
      /\ eosq' \in Sent(m, Head(eosq[m]), Taken(m, eosq))
      /\ UNCHANGED <<mpc, starts, observer_, old>>
  BY DEF TaskEos, startVars, restVars
<1>2. PICK a \in Places, x \in RunsOrNone : Wait(a, x)
  BY DEF Counted, WaitOK
<1>3. /\ m = a /\ a \in Looped /\ Head(eosq[m]) = x /\ eosq = Only(a, x)
      /\ m \in Modules /\ a # 0
  BY <1>1, <1>2, OnlyFull, Numbers DEF Wait
<1>4. /\ x \in Runs /\ x < starts /\ x \in Nat /\ starts \in Nat
  BY <1>2, <1>3, Numbers DEF Wait, LifeTypeOK
<1>5. ~Drained(IF mpc = "observe" THEN observer_ ELSE old)
  BY <1>2, <1>3 DEF Wait
<1>6. /\ run_id \in Nat /\ ToGo(a) \in Nat /\ ToGo(a) >= 1
      /\ run_id >= 2 + ToGo(a) /\ run_id' = run_id - 1
  <2>1. run_id \in Nat /\ ToGo(a) \in Nat /\ ToGo(a) >= 1 /\ run_id >= 2 + ToGo(a)
    BY <1>2, <1>3, ToGoFacts, Numbers DEF LifeTypeOK, Wait
  <2>2. run_id' = run_id - 1
    BY <1>1, <2>1 DEF RightMove, MovedRight
  <2> QED BY <2>1, <2>2
<1>7. run_id' # 1
  BY <1>6
<1>8. /\ passed'[m] = x /\ \A k \in Modules : k # m => passed'[k] = passed[k]
      /\ \A o \in Runs : told'[o] <=> told[o]
  BY <1>1, <1>3, <1>4, <1>7, RightMoveType
<1>9. PICK c \in Places : eosq' = Only(c, x) /\ ToGo(c) <= ToGo(a) - 1
  <2>1. eosq' = Only(0, x) \/ (a # N /\ eosq' = Only(a + 1, x))
    BY <1>1, <1>3, Moves
  <2>2. 0 \in Places /\ (a # N => a + 1 \in Places /\ ToGo(a + 1) = ToGo(a) - 1)
    BY <1>3, ToGoFacts DEF Places
  <2>3. ToGo(0) <= ToGo(a) - 1
    BY <1>6, ToGoFacts
  <2>4. a # N => ToGo(a + 1) <= ToGo(a) - 1
    BY <1>6, <2>2
  <2> QED BY <2>1, <2>2, <2>3, <2>4
<1>10. run_id' >= 2 + ToGo(c)
  BY <1>6, <1>9, ToGoFacts, Numbers
<1>11. ~Drained(IF mpc = "observe" THEN observer_ ELSE old)'
  BY <1>1, <1>5, <1>8 DEF Drained
<1>12. Wait(c, x)'
  BY <1>1, <1>4, <1>9, <1>10, <1>11 DEF Wait, Only, ToGo
<1>13. \A k \in Modules : passed'[k] < starts'
  BY <1>1, <1>4, <1>8 DEF Counted, WaitOK
<1>14. ~told'[starts']
  BY <1>1, <1>8, Numbers DEF Counted, WaitOK, Flow, LifeTypeOK
<1> QED BY <1>2, <1>9, <1>12, <1>13, <1>14 DEF WaitOK

\* Frames that are given up only make less to be counted.
LEMMA CountedLess ==
    ASSUME LifeTypeOK, Flow, Counted, ~broken,
           UNCHANGED <<mpc, starts, unopened, run_id, passed, told, observer_, old>>,
           eosq' = Only(0, 0)
    PROVE  RestOK' /\ WaitOK' /\ RunOK'
<1>1. 0 \in Places /\ 0 \in RunsOrNone /\ 0 \in 0 .. N
  BY Numbers DEF Places, RunsOrNone
<1>2. /\ run_id \in Nat /\ starts \in Nat
      /\ \A a \in Places : ToGo(a) \in Nat
      /\ ToGo(0) = 0
  BY Numbers, ToGoFacts DEF LifeTypeOK
<1>3. RestOK'
  <2>1. ASSUME Resting PROVE Rest(0, 0)'
    <3>1. PICK a \in Places, x \in RunsOrNone : Rest(a, x)
      BY <2>1 DEF Counted, RestOK
    <3>2. run_id >= 1
      BY <1>2, <3>1 DEF Rest
    <3> QED BY <1>2, <3>2 DEF Rest, Only, ToGo
  <2> QED BY <1>1, <2>1 DEF Counted, RestOK, Resting
<1>4. WaitOK'
  <2>1. ASSUME mpc \in {"observe", "replace"} PROVE Wait(0, 0)'
    <3>1. PICK a \in Places, x \in RunsOrNone : Wait(a, x)
      BY <2>1 DEF Counted, WaitOK
    <3>2. /\ run_id >= 2
          /\ Drained(IF mpc = "observe" THEN observer_ ELSE old) => run_id >= 1 + N
      BY <1>2, <3>1 DEF Wait
    <3> QED BY <1>2, <3>2 DEF Wait, Only, ToGo, Drained
  <2> QED BY <1>1, <2>1 DEF Counted, WaitOK
<1>5. RunOK'
  <2>1. ASSUME mpc \in {"run", "spin"}, NEW j \in 0 .. N, NEW b \in Places, Run(j, b)
        PROVE  Run(j, 0)'
    <3>1. Only(0, 0) = Only(0, starts)
      BY Numbers DEF Only
    <3> QED BY <2>1, <3>1 DEF Run, Only
  <2> QED BY <1>1, <2>1 DEF Counted, RunOK
<1> QED BY <1>3, <1>4, <1>5

LEMMA OnlyNone == \A x : Only(0, x) = Only(0, 0)
BY Numbers DEF Only

LEMMA CountedExit ==
    ASSUME LifeTypeOK, Flow, Counted, ~broken, NEW m \in Looped, TaskExit(m)
    PROVE  Counted'
<1>1. /\ UNCHANGED <<mpc, starts, unopened, run_id, passed, told, observer_, old,
                     broken>>
      /\ eosq' = eosq \/ (eosq[m] # << >> /\ eosq' = Taken(m, eosq))
  BY DEF TaskExit, startVars, restVars
<1>2. CASE eosq' = eosq
  BY <1>1, <1>2, CountedStill DEF Still
<1>3. CASE eosq[m] # << >> /\ eosq' = Taken(m, eosq)
  <2>1. \E a \in Places : \E x : eosq = Only(a, x)
    BY DEF Counted, RestOK, WaitOK, RunOK, Rest, Wait, Run, Resting, LifeTypeOK
  <2>2. eosq' = Only(0, 0)
    BY <1>3, <2>1, OnlyTaken, OnlyNone
  <2> QED BY <1>1, <2>2, CountedLess DEF Counted
<1> QED BY <1>1, <1>2, <1>3

LEMMA CountedStop ==
    ASSUME LifeTypeOK, Flow, Counted, ~broken, NEW s \in Stoppers, StopConnectors(s)
    PROVE  Counted'
<1>1. eosq' = Only(0, 0)
  BY Numbers DEF StopConnectors, Only
<1>2. UNCHANGED <<mpc, starts, unopened, run_id, passed, told, observer_, old, broken>>
  BY DEF StopConnectors, startVars, restVars
<1> QED BY <1>1, <1>2, CountedLess DEF Counted

\* The end of a run: its end of stream may be left, but not if all modules have
\* passed it.
LEMMA CountedReturn ==
    ASSUME LifeTypeOK, Flow, Counted, ~broken, MainReturns
    PROVE  RestOK'
<1>1. /\ mpc = "spin" /\ mpc' = "idle"
      /\ UNCHANGED <<starts, run_id, eosq, passed, told, observer_>>
  BY DEF MainReturns, Main, startVars, streamVars, restVars
<1>2. PICK j \in 0 .. N, b \in Places : Run(j, b)
  BY <1>1 DEF Counted, RunOK
<1>3. starts \in Runs /\ observer_ = starts /\ starts # 0
  BY <1>1, Numbers DEF Flow, LifeTypeOK
<1>4. Drained(observer_) => b = 0
  <2>1. ASSUME told[starts] PROVE b = 0
    BY <1>2, <2>1, Numbers DEF Run, Places
  <2> QED BY <1>3, <2>1 DEF Drained
<1>5. run_id >= 1 + ToGo(b)
  <2>1. j \in Nat /\ run_id \in Nat /\ run_id >= 1 + N - j /\ b \in {0, j + 1}
        /\ j <= N
    BY <1>2, Numbers DEF Run, LifeTypeOK
  <2> QED BY <2>1, Numbers DEF ToGo
<1>6. Rest(b, starts)'
  <2>1. starts <= starts /\ eosq = Only(b, starts)
    BY <1>2, <1>3, Numbers DEF Run
  <2> QED BY <1>1, <1>3, <1>4, <1>5, <2>1 DEF Rest, Drained, Only, ToGo
<1>7. starts \in RunsOrNone
  BY <1>3, Numbers DEF RunsOrNone
<1> QED BY <1>1, <1>2, <1>6, <1>7 DEF Counted, RunOK, RestOK

LEMMA CountedStep == LifeTypeOK /\ LifeTypeOK' /\ Flow /\ Counted /\ [LifeNext]_lifeVars => Counted'
<1> SUFFICES ASSUME LifeTypeOK, LifeTypeOK', Flow, Counted, [LifeNext]_lifeVars, ~broken'
             PROVE  Counted'
  BY DEF Counted
<1>1. CASE UNCHANGED lifeVars \/ UserStop \/ StopAbort
  <2>1. Still /\ UNCHANGED <<mpc, unopened>>
    BY <1>1 DEF lifeVars, UserStop, StopAbort, Still, startVars, streamVars
  <2> QED BY <2>1, CountedStill
<1>2. ASSUME NEW o \in Runs, ObserverStop(o) PROVE Counted'
  <2>1. Still /\ UNCHANGED <<mpc, unopened>>
    BY <1>2 DEF ObserverStop, Still, startVars, streamVars, restVars
  <2> QED BY <2>1, CountedStill
<1>3. ASSUME NEW s \in Stoppers, Joined(s) PROVE Counted'
  <2>1. Still /\ UNCHANGED <<mpc, unopened>>
    BY <1>3 DEF Joined, Still, streamVars, restVars
  <2> QED BY <2>1, CountedStill
<1>4. CASE StartCall \/ \E m \in Modules : OpenModule(m) \/ OpenFailed(m)
  <2>1. RestOK'
    BY <1>4, CountedOpen
  <2>2. Resting'
    BY <1>4 DEF StartCall, OpenModule, OpenFailed, Main, Resting
  <2> QED BY <2>1, <2>2 DEF Counted, WaitOK, RunOK, Resting
<1>5. CASE ~(StartCall \/ \E m \in Modules : OpenModule(m) \/ OpenFailed(m))
  <2>1. ~broken
    BY <1>1, <1>5 DEF LifeNext, MainThread, Task, Stopper, Launch, Observe, Replace,
       SourceEos, MainReturns, Destroy, Destroyed, TaskEos, TaskExit, ObserverStop,
       UserStop, StopConnectors, Joined, StopAbort, lifeVars, restVars
  <2>2. CASE Launch
    <3>1. WaitOK' /\ mpc' = "observe"
      BY <2>1, <2>2, CountedLaunch DEF Launch, Main
    <3> QED BY <3>1 DEF Counted, RestOK, RunOK, Resting
  <2>3. CASE Observe
    <3>1. WaitOK' /\ mpc' = "replace"
      BY <2>1, <2>3, CountedObserve DEF Observe, Main
    <3> QED BY <3>1 DEF Counted, RestOK, RunOK, Resting
  <2>4. CASE Replace
    <3>1. RunOK' /\ mpc' = "run"
      BY <2>1, <2>4, CountedReplace DEF Replace, Main
    <3> QED BY <3>1 DEF Counted, RestOK, WaitOK, Resting
  <2>5. CASE SourceEos
    <3>1. RunOK' /\ mpc' = "spin"
      BY <2>1, <2>5, CountedSource DEF SourceEos, Main
    <3> QED BY <3>1 DEF Counted, RestOK, WaitOK, Resting
  <2>6. CASE MainReturns
    <3>1. RestOK' /\ mpc' = "idle"
      BY <2>1, <2>6, CountedReturn DEF MainReturns, Main
    <3> QED BY <3>1 DEF Counted, WaitOK, RunOK
  <2>7. CASE Destroy \/ Destroyed
    <3>1. /\ mpc \in {"idle", "destroy"} /\ mpc' \in {"destroy", "gone"} /\ Still
      BY <2>7 DEF Destroy, Destroyed, Main, Still, startVars, streamVars, restVars
    <3> QED BY <3>1 DEF Counted, Still, RestOK, WaitOK, RunOK, Rest, Resting,
                        Drained
  <2>8. ASSUME NEW m \in Looped, TaskEos(m) PROVE Counted'
    <3>1. mpc \notin {"idle", "open", "launch", "destroy", "gone"}
      BY <2>8 DEF TaskEos, Flow, Resting
    <3>2. UNCHANGED mpc
      BY <2>8 DEF TaskEos
    <3>3. CASE mpc \in {"run", "spin"}
      <4>1. RunOK'
        BY <2>1, <2>8, <3>3, CountedTaskRun
      <4> QED BY <3>2, <3>3, <4>1 DEF Counted, RestOK, WaitOK, Resting
    <3>4. CASE mpc \in {"observe", "replace"}
      <4>1. WaitOK'
        BY <2>1, <2>8, <3>4, CountedTaskWait
      <4> QED BY <3>2, <3>4, <4>1 DEF Counted, RestOK, RunOK, Resting
    <3> QED BY <3>1, <3>3, <3>4 DEF LifeTypeOK
  <2> QED BY <1>1, <1>2, <1>3, <1>5, <2>1, <2>2, <2>3, <2>4, <2>5, <2>6, <2>7,
             <2>8, CountedExit, CountedStop
          DEF LifeNext, MainThread, Task, Stopper
<1> QED BY <1>4, <1>5

LifeIInv == LifeTypeOK /\ Flow /\ Counted

LEMMA IInvStep == LifeIInv /\ [LifeNext]_lifeVars => LifeIInv'
BY TypeStep, FlowStep, CountedStep DEF LifeIInv

LEMMA IInvAlways == LifeSpec => []LifeIInv
<1>1. LifeInit => LifeIInv
  BY TypeInit, FlowInit, CountedInit DEF LifeIInv
<1> QED BY <1>1, IInvStep, PTL DEF LifeSpec

\* An observer is told by the last module that passes the end of stream of the
\* run that it observes.
LEMMA ToldStep ==
    ASSUME LifeIInv, LifeIInv', LifeNext, NEW o \in Runs, ~told[o], told'[o], ~broken
    PROVE  o = starts /\ \A m \in Modules : passed'[m] = starts
<1>1. PICK m \in Modules : (m \in Looped /\ TaskEos(m)) \/ (m = 1 /\ SourceEos)
  <2>1. ASSUME UNCHANGED told PROVE FALSE
    BY <2>1
  <2>2. SourceEos \/ \E m \in Looped : TaskEos(m)
    BY <2>1 DEF LifeNext, MainThread, StartCall, OpenModule, Launch, Observe,
       Replace, MainReturns, Destroy, Destroyed, OpenFailed, Task, TaskExit,
       ObserverStop, UserStop, Stopper, StopConnectors, Joined, StopAbort,
       streamVars
  <2> QED BY <2>2, Numbers
<1>2. /\ UNCHANGED <<starts, observer_, broken>>
      /\ mpc' = mpc \/ mpc' = "spin"
  BY <1>1 DEF TaskEos, SourceEos, Main, startVars, restVars
<1>3. \E r \in Runs : RightMove(m, r)
  <2>1. CASE m \in Looped /\ TaskEos(m)
    BY <2>1, HeadType DEF TaskEos, LifeIInv
  <2>2. CASE SourceEos /\ m = 1
    BY <2>2, Numbers DEF SourceEos, Main, LifeIInv, Flow, LifeTypeOK
  <2> QED BY <1>1, <2>1, <2>2
<1>4. o = observer_ /\ run_id' = 1
  BY <1>3, RightMoveType DEF LifeIInv
<1>5. run_id' < 2 /\ \A a \in Places : ToGo(a) \in Nat
  BY <1>4, ToGoFacts
<1>6. mpc' \in {"run", "spin"}
  <2>1. ~Resting
    BY <1>1 DEF TaskEos, SourceEos, Main, LifeIInv, Flow, Resting
  <2>2. mpc' \notin {"observe", "replace"}
    BY <1>2, <1>4, <1>5, ToGoFacts DEF LifeIInv, Counted, WaitOK, Wait
  <2> QED BY <1>2, <2>1, <2>2 DEF Resting, LifeIInv, LifeTypeOK
<1>7. observer_ = starts
  BY <1>2, <1>6 DEF LifeIInv, Flow
<1>8. PICK j \in 0 .. N, b \in Places : Run(j, b)'
  BY <1>2, <1>6 DEF LifeIInv, Counted, RunOK
<1>9. j = N
  BY <1>2, <1>4, <1>7, <1>8 DEF Run
<1>10. \A k \in Modules : k <= N
  BY Numbers
<1> QED BY <1>2, <1>4, <1>7, <1>8, <1>9, <1>10 DEF Run

\* For every number of modules, starts and stops, if run_id is wide enough for
\* all modules: an observer is told to stop the pipeline only when every module
\* has passed the end of stream of its own run, even though ends of stream that
\* earlier runs left behind are counted by the same run_id, unless Start went on
\* without having opened all modules.  Pipeline::Start, RightMove and
\* Observer::EventLoop.
THEOREM ToldWhenDrainedCorrect == LifeSpec => ToldWhenDrained
<1> DEFINE Told1 == \A o \in Runs : ~told[o] /\ told'[o] =>
                       \/ broken
                       \/ o = starts /\ \A m \in Modules : passed'[m] = starts
<1>1. LifeIInv /\ LifeIInv' /\ LifeNext => Told1
  BY ToldStep
<1>2. LifeIInv /\ LifeIInv' /\ [LifeNext]_lifeVars => [Told1]_lifeVars
  BY <1>1
<1> QED BY <1>2, IInvAlways, PTL DEF LifeSpec, ToldWhenDrained

-----------------------------------------------------------------------------
(* Runs that only observers stop.                                          *)

\* As long as nobody disturbs, run_id is exact: one and the modules that have
\* still to pass the end of stream, which is in the connector of the next of
\* them; only the observer of this run can be in Stop, and only when none is
\* left.
RunningOK ==
    /\ spc[starts] \in {"watch", "stop", "join", "gone"}
    /\ running <=> spc[starts] # "gone"
    /\ stop_ => told[starts]
    /\ told[starts] => mpc = "spin" /\ run_id = 1

UndisturbedOK == ~disturbed =>
    /\ ~broken /\ ~aborted /\ spc[User] = "none"
    /\ \A o \in Runs : o # starts => spc[o] \in {"none", "gone"}
    /\ Resting \/ mpc = "observe" => \A o \in Runs : spc[o] \in {"none", "gone"}
    /\ mpc = "observe" => running /\ ~stop_
    /\ mpc \in {"replace", "run", "spin"} => RunningOK
    /\ mpc \in {"idle", "destroy", "gone"} => run_id = 1
    /\ mpc = "open" => run_id = 1 + N - Cardinality(unopened)
    /\ mpc \in {"launch", "observe", "replace", "run"} => run_id = 1 + N
    /\ IF mpc = "spin"
       THEN /\ run_id \in 1 .. N
            /\ eosq = Only(IF run_id = 1 THEN 0 ELSE N + 2 - run_id, starts)
       ELSE eosq = Only(0, 0)

LEMMA UndisturbedInit == LifeInit => UndisturbedOK
BY Numbers DEF LifeInit, UndisturbedOK, Only, Resting

LEMMA UndisturbedImplies == LifeTypeOK /\ Flow /\ UndisturbedOK => LifecycleInv
BY DEF UndisturbedOK, LifecycleInv, UndisturbedRuns, Flow, Resting

\* While the connectors run nothing is given up.
LEMMA MovesOn ==
    ASSUME NEW a \in Looped, NEW x, eosq = Only(a, x), ~stop_,
           NEW w \in Sent(a, x, Taken(a, eosq))
    PROVE  w = Only(IF a = N THEN 0 ELSE a + 1, x)
<1>1. Taken(a, eosq) = Only(0, x)
  <2>1. eosq[a] = <<x>> /\ a \in Places
    BY DEF Only, Places
  <2>2. <<x>> # << >>
    OBVIOUS
  <2> QED BY <2>1, <2>2, OnlyTaken
<1>2. CASE a = N
  BY <1>1, <1>2 DEF Sent
<1>3. CASE a # N
  <2>1. a + 1 \in Looped /\ 0 \notin Looped
    BY <1>3, Numbers
  <2>2. Append(Only(0, x)[a + 1], x) = <<x>>
    <3>1. Only(0, x)[a + 1] = << >>
      BY <2>1 DEF Only
    <3>2. Append(<< >>, x) = <<x>>
      OBVIOUS
    <3> QED BY <3>1, <3>2
  <2>3. [Only(0, x) EXCEPT ![a + 1] = Append(@, x)] = Only(a + 1, x)
    BY <2>1, <2>2 DEF Only
  <2> QED BY <1>1, <1>3, <2>3 DEF Sent
<1> QED BY <1>2, <1>3

LEMMA FirstSent ==
    ASSUME NEW x, eosq = Only(0, x), ~stop_, NEW w \in Sent(1, x, eosq)
    PROVE  w = Only(IF N = 1 THEN 0 ELSE 2, x)
<1>1. CASE N = 1
  BY <1>1 DEF Sent
<1>2. CASE N # 1
  <2>1. 2 \in Looped /\ 0 \notin Looped /\ 1 + 1 = 2
    BY <1>2, Numbers
  <2>2. Append(Only(0, x)[2], x) = <<x>>
    <3>1. Only(0, x)[2] = << >>
      BY <2>1 DEF Only
    <3>2. Append(<< >>, x) = <<x>>
      OBVIOUS
    <3> QED BY <3>1, <3>2
  <2>3. [Only(0, x) EXCEPT ![2] = Append(@, x)] = Only(2, x)
    BY <2>1, <2>2 DEF Only
  <2> QED BY <1>2, <2>1, <2>3 DEF Sent
<1> QED BY <1>1, <1>2

LEMMA UndisturbedMain ==
    ASSUME LifeTypeOK, Flow, Counted, UndisturbedOK, ~disturbed,
           \/ StartCall \/ Launch \/ Observe \/ Replace \/ SourceEos
           \/ MainReturns \/ Destroy \/ Destroyed
           \/ \E m \in Modules : OpenModule(m)
    PROVE  UndisturbedOK'
<1>0. /\ ~broken /\ ~aborted /\ spc[User] = "none"
      /\ \A o \in Runs : o # starts => spc[o] \in {"none", "gone"}
  BY DEF UndisturbedOK
<1>1. CASE StartCall
  BY <1>1, <1>0, AllToOpen, Numbers
  DEF StartCall, Main, UndisturbedOK, Resting, streamVars, restVars, Only
<1>2. ASSUME NEW m \in Modules, OpenModule(m) PROVE UndisturbedOK'
  <2>1. /\ mpc = "open" /\ m \in unopened /\ unopened' = unopened \ {m}
        /\ mpc' = IF unopened = {m} THEN "launch" ELSE "open"
        /\ LeftMove
        /\ UNCHANGED <<starts, running, eosq, told, stop_, spc, broken, disturbed,
                       aborted>>
    BY <1>2 DEF OpenModule, Main, restVars
  <2>2. IsFiniteSet(unopened)
    <3>1. IsFiniteSet(Modules)
      BY FS_Interval, Numbers
    <3> QED BY <3>1, FS_Subset DEF LifeTypeOK
  <2>3. /\ Cardinality(unopened \ {m}) = Cardinality(unopened) - 1
        /\ Cardinality(unopened) \in Nat /\ Cardinality(unopened \ {m}) \in Nat
        /\ unopened = {m} => Cardinality(unopened) = 1
    BY <2>1, <2>2, FS_CardinalityType, FS_RemoveElement, FS_Singleton
  <2>4. Cardinality(unopened) <= N
    <3>1. IsFiniteSet(Modules) /\ unopened \subseteq Modules
      BY FS_Interval, Numbers DEF LifeTypeOK
    <3> QED BY <3>1, FS_Subset, AllToOpen
  <2>5. run_id = 1 + N - Cardinality(unopened)
    BY <2>1 DEF UndisturbedOK
  <2>6. run_id' = 1 + N - Cardinality(unopened \ {m})
    <3>1. run_id \notin {0, RunIdBits}
      BY <2>3, <2>4, <2>5, Numbers
    <3>2. run_id' = run_id + 1
      BY <2>1, <3>1 DEF LeftMove
    <3> QED BY <2>3, <2>5, <3>2, Numbers
  <2>7. unopened = {m} => run_id' = 1 + N
    BY <2>3, <2>6, Numbers
  <2> QED BY <1>0, <2>1, <2>6, <2>7 DEF UndisturbedOK, Resting, Only
<1>3. CASE Launch
  BY <1>0, <1>3
  DEF Launch, Main, UndisturbedOK, Resting, startVars, restVars, Only
<1>4. CASE Observe
  <2>1. /\ mpc = "observe" /\ mpc' = "replace"
        /\ spc' = [spc EXCEPT ![starts] = "watch"]
        /\ UNCHANGED <<starts, running, run_id, eosq, told, stop_, broken,
                       disturbed, aborted>>
    BY <1>4 DEF Observe, Main, startVars, streamVars
  <2>2. starts \in Runs /\ starts \in Stoppers /\ starts # User
    BY <2>1, Numbers DEF Flow, LifeTypeOK
  <2>3. /\ spc'[starts] = "watch" /\ spc'[User] = spc[User]
        /\ \A o \in Runs : o # starts => spc'[o] = spc[o]
    BY <2>1, <2>2, Numbers DEF LifeTypeOK
  <2>4. ~told[starts]
    BY <1>0, <2>1 DEF Counted, WaitOK
  <2> QED BY <1>0, <2>1, <2>3, <2>4 DEF UndisturbedOK, RunningOK, Resting, Only
<1>5. CASE Replace
  BY <1>0, <1>5
  DEF Replace, Main, UndisturbedOK, RunningOK, Resting, startVars, streamVars,
      restVars, Only
<1>6. CASE SourceEos
  <2>1. /\ mpc = "run" /\ mpc' = "spin" /\ RightMove(1, starts)
        /\ eosq' \in Sent(1, starts, eosq)
        /\ UNCHANGED <<starts, running, stop_, spc, observer_, broken, disturbed,
                       aborted>>
    BY <1>6 DEF SourceEos, Main, startVars, restVars
  <2>2. starts \in Runs /\ observer_ = starts
    BY <2>1, Numbers DEF Flow, LifeTypeOK
  <2>3. eosq = Only(0, starts) /\ ~told[starts] /\ ~stop_ /\ run_id = 1 + N
    BY <2>1, OnlyNone DEF UndisturbedOK, RunningOK
  <2>4. eosq' = Only(IF N = 1 THEN 0 ELSE 2, starts)
    BY <2>1, <2>3, FirstSent
  <2>5. run_id' = N
    BY <2>1, <2>3, Numbers DEF RightMove, MovedRight
  <2>6. told'[starts] => run_id' = 1
    BY <2>1, <2>2, <2>3, RightMoveType, Numbers
  <2>7. eosq' = Only(IF run_id' = 1 THEN 0 ELSE N + 2 - run_id', starts)
    BY <2>4, <2>5, Numbers
  <2>8. run_id' \in 1 .. N
    BY <2>5, Numbers
  <2> QED BY <1>0, <2>1, <2>3, <2>6, <2>7, <2>8
          DEF UndisturbedOK, RunningOK, Resting, Only
<1>7. CASE MainReturns
  <2>1. /\ mpc = "spin" /\ mpc' = "idle" /\ ~running
        /\ UNCHANGED <<starts, running, run_id, eosq, told, spc, broken, disturbed,
                       aborted>>
    BY <1>7 DEF MainReturns, Main, startVars, streamVars, restVars
  <2>2. starts \in Runs
    BY <2>1, Numbers DEF Flow, LifeTypeOK
  <2>3. spc[starts] = "gone" /\ run_id = 1
    BY <2>1, <2>2 DEF UndisturbedOK, RunningOK, Flow
  <2>4. eosq = Only(0, 0)
    BY <2>1, <2>3, OnlyNone DEF UndisturbedOK
  <2> QED BY <1>0, <2>1, <2>3, <2>4 DEF UndisturbedOK, Resting, Only
<1>8. CASE Destroy \/ Destroyed
  BY <1>0, <1>8
  DEF Destroy, Destroyed, Main, UndisturbedOK, Resting, startVars, streamVars,
      restVars, Only
<1> QED BY <1>1, <1>2, <1>3, <1>4, <1>5, <1>6, <1>7, <1>8

LEMMA UndisturbedTask ==
    ASSUME LifeTypeOK, Flow, UndisturbedOK, ~disturbed, NEW m \in Looped, Task(m)
    PROVE  UndisturbedOK'
<1>1. /\ UNCHANGED <<mpc, starts, unopened, running, stop_, spc, observer_,
                     broken, disturbed, aborted>>
      /\ m \in live
  BY DEF Task, TaskEos, TaskExit, startVars, restVars
<1>2. ~Resting
  BY <1>1 DEF Flow, Resting
<1>3. CASE TaskExit(m)
  <2>1. mpc = "spin" /\ run_id = 1
    BY <1>2, <1>3 DEF TaskExit, UndisturbedOK, RunningOK, Resting, LifeTypeOK
  <2>2. eosq[m] = << >>
    BY <2>1, Numbers DEF UndisturbedOK, Only
  <2>3. UNCHANGED <<run_id, eosq, told>>
    BY <1>3, <2>2 DEF TaskExit
  <2> QED BY <1>1, <2>3 DEF UndisturbedOK, RunningOK, Resting, Only
<1>4. CASE TaskEos(m)
  <2> DEFINE a == IF run_id = 1 THEN 0 ELSE N + 2 - run_id
  <2>1. eosq[m] # << >> /\ RightMove(m, Head(eosq[m]))
        /\ eosq' \in Sent(m, Head(eosq[m]), Taken(m, eosq))
    BY <1>4 DEF TaskEos
  <2>2. mpc = "spin"
    <3>1. Only(0, 0)[m] = << >>
      BY Numbers DEF Only
    <3> QED BY <2>1, <3>1 DEF UndisturbedOK
  <2>3. run_id \in 1 .. N /\ eosq = Only(a, starts)
    BY <2>2 DEF UndisturbedOK
  <2>4. a \in Places
    BY <2>3, Numbers DEF Places
  <2>5. m = a /\ Head(eosq[m]) = starts /\ run_id # 1 /\ m = N + 2 - run_id
    BY <2>1, <2>3, <2>4, OnlyFull, Numbers
  <2>6. ~stop_ /\ ~told[starts]
    BY <2>2, <2>5 DEF UndisturbedOK, RunningOK
  <2>7. eosq' = Only(IF m = N THEN 0 ELSE m + 1, starts)
    BY <2>1, <2>3, <2>5, <2>6, MovesOn
  <2>8. run_id' = run_id - 1 /\ run_id' \in 1 .. N
    BY <2>1, <2>3, <2>5, Numbers DEF RightMove, MovedRight
  <2>9. eosq' = Only(IF run_id' = 1 THEN 0 ELSE N + 2 - run_id', starts)
    BY <2>3, <2>5, <2>7, <2>8, Numbers
  <2>10. starts \in Runs /\ m \in Modules
    BY <2>2, Numbers DEF Flow, LifeTypeOK
  <2>11. told'[starts] => run_id' = 1
    BY <2>1, <2>5, <2>6, <2>10, RightMoveType
  <2> HIDE DEF a
  <2> QED BY <1>1, <2>2, <2>8, <2>9, <2>11
          DEF UndisturbedOK, RunningOK, Resting, Only
<1> QED BY <1>3, <1>4 DEF Task

LEMMA UndisturbedStop ==
    ASSUME LifeTypeOK, Flow, UndisturbedOK, ~disturbed, NEW s \in Stoppers,
           \/ s \in Runs /\ ObserverStop(s)
           \/ Stopper(s)
    PROVE  UndisturbedOK'
<1>1. /\ spc[s] \in {"watch", "stop", "join"}
      /\ \A t \in Stoppers : t # s => spc'[t] = spc[t]
      /\ UNCHANGED <<mpc, starts, unopened, run_id, told, broken, disturbed, aborted>>
  BY StopMoves DEF ObserverStop, Stopper, StopConnectors, Joined, startVars,
                   streamVars, restVars
<1>2. s = starts /\ s \in Runs /\ s # User /\ mpc \in {"replace", "run", "spin"}
  BY <1>1, Numbers DEF UndisturbedOK, Resting, LifeTypeOK, Stoppers
<1>3. RunningOK /\ ~broken /\ ~aborted /\ spc[User] = "none"
      /\ \A o \in Runs : o # starts => spc[o] \in {"none", "gone"}
  BY <1>2 DEF UndisturbedOK
<1>4. told[s] /\ mpc = "spin" /\ run_id = 1
  BY <1>1, <1>2, <1>3 DEF ObserverStop, Stopper, StopConnectors, Joined, Flow,
                          Stopping, RunningOK
<1>5. eosq = Only(0, starts) /\ eosq' = Only(0, starts)
  <2>1. eosq = Only(0, starts)
    BY <1>4 DEF UndisturbedOK
  <2>2. [m \in Looped |-> << >>] = Only(0, starts)
    BY Numbers DEF Only
  <2> QED BY <2>1, <2>2 DEF ObserverStop, Stopper, StopConnectors, Joined,
                            streamVars
<1>6. RunningOK'
  <2>1. CASE ObserverStop(s)
    <3>1. running /\ spc'[s] = "stop" /\ UNCHANGED <<running, stop_>>
      BY ZenonT(30), <1>1, <1>2, <1>3, <2>1, StopMoves DEF ObserverStop, Stopping, RunningOK
    <3> QED BY <1>1, <1>2, <1>3, <1>4, <3>1 DEF RunningOK
  <2>2. CASE StopConnectors(s)
    <3>1. running /\ spc'[s] = "join" /\ UNCHANGED running
      BY <1>2, <1>3, <2>2, StopMoves DEF StopConnectors, Stopping, RunningOK
    <3> QED BY <1>1, <1>2, <1>3, <1>4, <3>1 DEF RunningOK
  <2>3. CASE Joined(s)
    <3>1. running' = FALSE /\ spc'[s] = "gone" /\ UNCHANGED stop_
      BY <1>2, <2>3, StopMoves DEF Joined
    <3> QED BY <1>1, <1>2, <1>3, <1>4, <3>1 DEF RunningOK
  <2> QED BY <2>1, <2>2, <2>3 DEF Stopper
<1>7. /\ spc'[User] = "none"
      /\ \A o \in Runs : o # starts => spc'[o] \in {"none", "gone"}
  BY <1>1, <1>2, <1>3, Numbers
<1> QED BY <1>1, <1>3, <1>4, <1>5, <1>6, <1>7, Numbers
        DEF UndisturbedOK, Resting, Only

LEMMA UndisturbedStep ==
    LifeTypeOK /\ LifeTypeOK' /\ Flow /\ Counted /\ UndisturbedOK /\ [LifeNext]_lifeVars => UndisturbedOK'
<1> SUFFICES ASSUME LifeTypeOK, LifeTypeOK', Flow, Counted, UndisturbedOK, [LifeNext]_lifeVars,
                    ~disturbed'
             PROVE  UndisturbedOK'
  BY DEF UndisturbedOK
<1>1. CASE UNCHANGED lifeVars
  BY <1>1 DEF lifeVars, UndisturbedOK, RunningOK, Resting, Only
<1>2. CASE LifeNext
  <2>1. ~disturbed /\ ~UserStop /\ \A m \in Modules : ~OpenFailed(m)
    BY <1>2 DEF LifeNext, MainThread, StartCall, OpenModule, OpenFailed, Launch,
       Observe, Replace, SourceEos, MainReturns, Destroy, Destroyed, Task,
       TaskEos, TaskExit, ObserverStop, UserStop, Stopper, StopConnectors,
       Joined, StopAbort, restVars
  <2>2. ~StopAbort
    BY <2>1, Numbers DEF StopAbort, UndisturbedOK, Stoppers
  <2> QED BY <1>2, <2>1, <2>2, UndisturbedMain, UndisturbedTask, UndisturbedStop,
             Numbers
          DEF LifeNext, MainThread
<1> QED BY <1>1, <1>2

\* If only observers stop runs and no module fails to open, for every number of
\* modules and of starts: a run is stopped by its own observer and by no other,
\* and after it run_id has its first value and no TaskLoop thread is left.
THEOREM LifecycleInvCorrect == LifeSpec => []LifecycleInv
<1>1. LifeInit => UndisturbedOK
  BY UndisturbedInit
<1>2. LifeIInv /\ LifeIInv' /\ UndisturbedOK /\ [LifeNext]_lifeVars => UndisturbedOK'
  BY UndisturbedStep DEF LifeIInv
<1>3. LifeIInv /\ UndisturbedOK => LifecycleInv
  BY UndisturbedImplies DEF LifeIInv
<1> QED BY <1>1, <1>2, <1>3, IInvAlways, PTL DEF LifeSpec

=============================================================================
