--------------------------- MODULE InferenceProofs ----------------------------
(***************************************************************************)
(* Proofs about Inference and its observer for every number of runs, of    *)
(* frames and of frames in a batch, and every capacity: the frames leave   *)
(* in the order of the stream over all runs, none while it is written to,  *)
(* and just those that fill no batch are held.                             *)
(***************************************************************************)
EXTENDS Inference, TLAPS

-----------------------------------------------------------------------------
(* The invariant.  It says exactly which frame is where: batches begin at  *)
(* the multiples of Batch, over all runs, and frames leave in order.       *)

\* The frames before the batch that n batches precede.
Pos(n) == n * Batch

\* Batches that earlier runs have requested.
Base == ((run - 1) * F) \div Batch

LoopOK ==
    /\ Len(packages) = sent
    /\ \A k \in 1 .. sent : \A j \in 1 .. Batch : packages[k][j] = Pos(Base + k - 1) + j
    /\ \A k \in 1 .. sent : Len(packages[k]) = Batch
    /\ \A j \in 1 .. Len(batch_array) : batch_array[j] = Pos(Base + sent) + j
    /\ fed = Pos(Base + sent) + Len(batch_array)
    /\ (lpc = "request") = (Len(batch_array) = Batch)
    /\ fed <= run * F
    /\ lpc \in {"rightMove", "eos", "end"} => fed = run * F

SessionOK ==
    /\ closed <= sent
    /\ answering = IF rpc = "idle" THEN 0 ELSE closed + 1
    /\ rpc # "idle" => closed < sent
    /\ rpc = "push" => i <= Batch
    /\ gone => closed = sent /\ lpc = "end" /\ stopped

\* The first frame of the request that is or will be answered next, and how
\* many frames Response has pushed to the pool and transmitted.
Turn == Pos(Base + closed)
Pushed == Turn + CASE rpc = "idle" -> 0
                   [] rpc = "pushTasks" -> i - 1
                   [] OTHER -> Batch
Transmitted == Turn + IF rpc \in {"transmit", "push"} THEN i - 1 ELSE 0

\* The workers are through with a request, or one of its tasks has thrown.
Settled(k) == \/ \A f \in ToSet(packages[k]) : status[f] = "done"
              \/ \E f \in ToSet(packages[k]) : status[f] = "threw"

PoolOK ==
    /\ \A k \in DOMAIN pending : status[pending[k]] = "pending"
    /\ \A j, k \in DOMAIN pending : pending[j] = pending[k] => j = k
    /\ \A f \in empty : status[f] \in {"new", "pending"}
    /\ \A f \in DataFrames : f > Pushed => status[f] = "new"
    /\ rpc = "wait" => \A j \in 1 .. i - 1 : status[frames[j]] = "done"
    /\ \A k \in 1 .. sent :
          (k <= closed \/ (k = closed + 1 /\ rpc \in {"transmit", "push"})) => Settled(k)

\* Data frames go to the next connector in their order.
Data(s) == ToSet(s) \ {Eos}
Sorted(s) == \A j, k \in DOMAIN s : j < k /\ s[j] # Eos /\ s[k] # Eos => s[j] < s[k]
Before(S, T) == \A a \in S, b \in T : a < b

OutOK ==
    /\ Sorted(taken) /\ Sorted(queue) /\ Before(Data(taken), Data(queue))
    /\ Data(taken) \union Data(queue) \union lost = 1 .. Transmitted

\* The end of the stream of a run is in the connector once, or was processed.
EndsOK ==
    /\ lpc # "end" => through = run - 1 /\ Eos \notin ToSet(queue)
    /\ lpc = "end" => (through = run - 1) = (Eos \in ToSet(queue))
    /\ \A j, k \in DOMAIN queue : queue[j] = Eos /\ queue[k] = Eos => j = k
    /\ stopped => through = run

IInv == TypeOK /\ LoopOK /\ SessionOK /\ PoolOK /\ OutOK /\ EndsOK

-----------------------------------------------------------------------------
(* Numbers.                                                                *)

LEMMA DivisionFacts ==
    ASSUME NEW n \in Int, NEW m \in Nat, m > 0
    PROVE  /\ n % m \in 0 .. m - 1 /\ n \div m \in Int
           /\ n = m * (n \div m) + (n % m)
OBVIOUS

LEMMA SmallMultiple ==
    ASSUME NEW m \in Nat, NEW q \in Int, NEW r \in Int, m * q = r, -m < r, r < m
    PROVE  q = 0
<1>1. CASE q >= 1
  <2>1. m * q >= m
    BY <1>1
  <2> QED BY <2>1
<1>2. CASE q <= -1
  <2>1. m * q <= -m
    BY <1>2
  <2> QED BY <2>1
<1> QED BY <1>1, <1>2

LEMMA BatchFacts == Batch \in Nat /\ Batch >= 1 /\ F \in Nat /\ Runs \in Nat
BY InferenceAssumption DEF InferenceAssumption

LEMMA PosFacts ==
    /\ Pos(0) = 0
    /\ \A n \in Nat : Pos(n) \in Nat /\ Pos(n + 1) = Pos(n) + Batch
    /\ \A m, n \in Nat : Pos(m + n) = Pos(m) + Pos(n)
    /\ \A m, n \in Nat : m <= n => Pos(m) <= Pos(n)
    /\ \A m, n \in Nat : m < n => Pos(m) + Batch <= Pos(n)
<1>1. Pos(0) = 0
  BY BatchFacts DEF Pos
<1>2. \A n \in Nat : Pos(n) \in Nat /\ Pos(n + 1) = Pos(n) + Batch
  BY BatchFacts DEF Pos
<1>3. \A m, n \in Nat : Pos(m + n) = Pos(m) + Pos(n)
  BY BatchFacts DEF Pos
<1>4. ASSUME NEW m \in Nat, NEW n \in Nat, m <= n
      PROVE  Pos(m) <= Pos(n)
  <2>1. n - m \in Nat /\ m + (n - m) = n
    BY <1>4
  <2> DEFINE d == n - m
  <2>2. d \in Nat /\ m + d = n
    BY <2>1
  <2> HIDE DEF d
  <2>3. Pos(n) = Pos(m) + Pos(d)
    BY <1>3, <2>2
  <2> QED BY <1>2, <2>2, <2>3
<1>5. ASSUME NEW m \in Nat, NEW n \in Nat, m < n
      PROVE  Pos(m) + Batch <= Pos(n)
  <2>1. m + 1 \in Nat /\ m + 1 <= n
    BY <1>5
  <2>2. Pos(m + 1) <= Pos(n)
    BY <1>4, <2>1
  <2> QED BY <1>2, <2>2
<1> QED BY <1>1, <1>2, <1>3, <1>4, <1>5

\* The division by Batch of a frame's place.
LEMMA DivPos ==
    ASSUME NEW n \in Nat, NEW r \in 0 .. Batch - 1
    PROVE  (Pos(n) + r) \div Batch = n /\ (Pos(n) + r) % Batch = r
<1> DEFINE x == Pos(n) + r
           d == x \div Batch
           e == x % Batch
<1>1. x \in Int
  BY PosFacts, BatchFacts
<1> HIDE DEF x
<1>2. e \in 0 .. Batch - 1 /\ d \in Int /\ x = Batch * d + e
  BY <1>1, BatchFacts, DivisionFacts
<1> HIDE DEF d, e
<1>3. x = Batch * n + r
  BY BatchFacts DEF x, Pos
<1>4. Batch * (n - d) = e - r
  BY <1>2, <1>3, BatchFacts
<1>5. n - d = 0
  BY <1>2, <1>4, BatchFacts, SmallMultiple
<1>6. e = r /\ d = n
  BY <1>2, <1>3, <1>5, BatchFacts
<1> QED BY <1>6 DEF d, e, x

\* What earlier runs have requested and what they have left over.
LEMMA BaseFacts ==
    ASSUME run \in 1 .. Runs
    PROVE  /\ Base \in Nat /\ run * F \in Nat /\ (run - 1) * F \in Nat
           /\ run * F = (run - 1) * F + F /\ run * F <= Runs * F
           /\ Carried(run - 1) \in 0 .. Batch - 1
           /\ (run - 1) * F = Pos(Base) + Carried(run - 1)
<1>1. run \in Nat /\ run - 1 \in Nat /\ Runs - run \in Nat
  BY BatchFacts
<1>2. run * F \in Nat /\ (run - 1) * F \in Nat /\ (Runs - run) * F \in Nat
  BY <1>1, BatchFacts
<1>3. run * F = (run - 1) * F + F
  BY <1>1, BatchFacts
<1>4. Runs * F = run * F + (Runs - run) * F
  BY <1>1, BatchFacts
<1>5. run * F <= Runs * F
  BY <1>2, <1>4
<1> DEFINE x == (run - 1) * F
<1>6. x \in Nat
  BY <1>2
<1> HIDE DEF x
<1>7. /\ x % Batch \in 0 .. Batch - 1 /\ x \div Batch \in Int
      /\ x = Batch * (x \div Batch) + (x % Batch)
  BY <1>6, BatchFacts, DivisionFacts
<1>8. Base = x \div Batch /\ Carried(run - 1) = x % Batch
  BY DEF Base, Carried, x
<1>9. Base \in Nat
  <2> DEFINE d == x \div Batch
  <2>1. d \in Int /\ Batch * d > -Batch
    BY <1>6, <1>7, BatchFacts
  <2> HIDE DEF d
  <2>2. ~(d <= -1)
    <3>1. ASSUME d <= -1
          PROVE  Batch * d <= -Batch
      BY <2>1, <3>1, BatchFacts
    <3> QED BY <2>1, <3>1, BatchFacts
  <2>3. d \in Nat
    BY <2>1, <2>2
  <2> QED BY <1>8, <2>3 DEF d
<1>10. x = Pos(Base) + Carried(run - 1)
  BY <1>7, <1>8, <1>9, BatchFacts DEF Pos
<1> QED BY <1>2, <1>3, <1>5, <1>7, <1>8, <1>9, <1>10 DEF x

-----------------------------------------------------------------------------
(* Sequences of frames.                                                    *)

LEMMA AppendFacts ==
    ASSUME NEW S, NEW s \in Seq(S), NEW x \in S
    PROVE  /\ Append(s, x) \in Seq(S) /\ Len(Append(s, x)) = Len(s) + 1
           /\ Append(s, x)[Len(s) + 1] = x
           /\ \A j \in 1 .. Len(s) : Append(s, x)[j] = s[j]
           /\ ToSet(Append(s, x)) = ToSet(s) \union {x}
<1> DEFINE t == Append(s, x)
<1>1. /\ t \in Seq(S) /\ Len(t) = Len(s) + 1
      /\ DOMAIN t = 1 .. Len(t) /\ DOMAIN s = 1 .. Len(s)
      /\ t[Len(s) + 1] = x
      /\ \A j \in 1 .. Len(s) : t[j] = s[j]
  OBVIOUS
<1> HIDE DEF t
<1>2. ToSet(t) \subseteq ToSet(s) \union {x}
  BY <1>1 DEF ToSet
<1>3. x \in ToSet(t)
  BY <1>1 DEF ToSet
<1>4. ToSet(s) \subseteq ToSet(t)
  BY <1>1 DEF ToSet
<1> QED BY <1>1, <1>2, <1>3, <1>4 DEF t

LEMMA TailFacts ==
    ASSUME NEW S, NEW s \in Seq(S), s # << >>
    PROVE  /\ Head(s) \in S /\ Head(s) = s[1] /\ Tail(s) \in Seq(S)
           /\ Len(s) \in Nat \ {0} /\ Len(Tail(s)) = Len(s) - 1
           /\ \A j \in 1 .. Len(s) - 1 : Tail(s)[j] = s[j + 1]
           /\ ToSet(s) = {Head(s)} \union ToSet(Tail(s))
<1> DEFINE t == Tail(s)
<1>1. /\ t \in Seq(S) /\ Len(s) \in Nat \ {0} /\ Len(t) = Len(s) - 1
      /\ DOMAIN t = 1 .. Len(s) - 1 /\ DOMAIN s = 1 .. Len(s)
      /\ Head(s) = s[1] /\ s[1] \in S
      /\ \A j \in 1 .. Len(s) - 1 : t[j] = s[j + 1]
  OBVIOUS
<1> HIDE DEF t
<1>2. ToSet(t) \subseteq ToSet(s)
  BY <1>1 DEF ToSet
<1>3. Head(s) \in ToSet(s)
  BY <1>1 DEF ToSet
<1>4. ToSet(s) \subseteq {Head(s)} \union ToSet(t)
  <2> SUFFICES ASSUME NEW j \in 1 .. Len(s), j # 1
               PROVE  s[j] \in ToSet(t)
    BY <1>1 DEF ToSet
  <2>1. j - 1 \in DOMAIN t /\ t[j - 1] = s[j]
    BY <1>1
  <2> QED BY <2>1 DEF ToSet
<1> QED BY <1>1, <1>2, <1>3, <1>4 DEF t

LEMMA ConcatFacts ==
    ASSUME NEW S, NEW p \in Seq(S), NEW q \in Seq(S)
    PROVE  /\ p \o q \in Seq(S)
           /\ Len(p \o q) = Len(p) + Len(q)
           /\ \A j \in 1 .. Len(p) + Len(q) :
                 (p \o q)[j] = IF j <= Len(p) THEN p[j] ELSE q[j - Len(p)]
OBVIOUS

LEMMA FrameFacts ==
    /\ Eos = 0 /\ DataFrames = 1 .. Runs * F /\ Eos \notin DataFrames
    /\ DataFrames \subseteq AllFrames /\ Eos \in AllFrames
    /\ AllFrames \subseteq Nat /\ DataFrames \subseteq Nat
BY BatchFacts DEF Eos, DataFrames, AllFrames

LEMMA SortedAppend ==
    ASSUME NEW s \in Seq(AllFrames), NEW x \in AllFrames, Sorted(s),
           x = Eos \/ Before(Data(s), {x})
    PROVE  Sorted(Append(s, x)) /\ Data(Append(s, x)) = Data(s) \union ({x} \ {Eos})
<1> DEFINE t == Append(s, x)
<1>1. /\ Len(t) = Len(s) + 1 /\ t[Len(s) + 1] = x /\ t \in Seq(AllFrames)
      /\ DOMAIN t = 1 .. Len(s) + 1 /\ DOMAIN s = 1 .. Len(s) /\ Len(s) \in Nat
      /\ \A j \in 1 .. Len(s) : t[j] = s[j]
      /\ ToSet(t) = ToSet(s) \union {x}
  BY AppendFacts
<1> HIDE DEF t
<1>2. ASSUME NEW j \in DOMAIN t, NEW k \in DOMAIN t, j < k, t[j] # Eos, t[k] # Eos
      PROVE  t[j] < t[k]
  <2>1. CASE k = Len(s) + 1
    <3>1. j \in DOMAIN s /\ t[j] = s[j]
      BY <1>1, <1>2, <2>1
    <3>2. s[j] \in Data(s) /\ t[k] = x
      BY <1>1, <1>2, <2>1, <3>1 DEF Data, ToSet
    <3> QED BY <1>2, <3>1, <3>2 DEF Before
  <2>2. CASE k # Len(s) + 1
    BY <1>1, <1>2, <2>2 DEF Sorted
  <2> QED BY <2>1, <2>2
<1>3. Data(t) = Data(s) \union ({x} \ {Eos})
  BY <1>1 DEF Data
<1> QED BY <1>2, <1>3 DEF Sorted, t

LEMMA SortedTail ==
    ASSUME NEW s \in Seq(AllFrames), s # << >>, Sorted(s)
    PROVE  /\ Sorted(Tail(s))
           /\ Data(s) = ({Head(s)} \ {Eos}) \union Data(Tail(s))
           /\ Head(s) # Eos => Before({Head(s)}, Data(Tail(s)))
<1> DEFINE t == Tail(s)
<1>1. /\ Len(t) = Len(s) - 1 /\ Len(s) \in Nat \ {0} /\ t \in Seq(AllFrames)
      /\ DOMAIN t = 1 .. Len(s) - 1 /\ DOMAIN s = 1 .. Len(s)
      /\ \A j \in 1 .. Len(s) - 1 : t[j] = s[j + 1]
      /\ ToSet(s) = {Head(s)} \union ToSet(t)
      /\ Head(s) = s[1]
  BY TailFacts
<1> HIDE DEF t
<1>2. \A j \in DOMAIN t : j + 1 \in DOMAIN s /\ t[j] = s[j + 1] /\ 1 < j + 1
  BY <1>1
<1>3. Sorted(t)
  BY <1>1, <1>2 DEF Sorted
<1>4. Data(s) = ({Head(s)} \ {Eos}) \union Data(t)
  BY <1>1 DEF Data
<1>5. ASSUME Head(s) # Eos, NEW j \in DOMAIN t, t[j] # Eos
      PROVE  Head(s) < t[j]
  <2>1. 1 \in DOMAIN s
    BY <1>1
  <2> QED BY <1>1, <1>2, <1>5, <2>1 DEF Sorted
<1> QED BY <1>3, <1>4, <1>5 DEF t, Before, Data, ToSet

\* What leaves in order and follows what is in order.
LEMMA SortedConcat ==
    ASSUME NEW p \in Seq(AllFrames), NEW q \in Seq(AllFrames), Sorted(p), Sorted(q),
           Before(Data(p), Data(q))
    PROVE  Sorted(p \o q) /\ ToSet(p \o q) = ToSet(p) \union ToSet(q)
<1> DEFINE t == p \o q
<1>1. /\ t \in Seq(AllFrames) /\ Len(t) = Len(p) + Len(q)
      /\ Len(p) \in Nat /\ Len(q) \in Nat
      /\ DOMAIN t = 1 .. Len(p) + Len(q)
      /\ DOMAIN p = 1 .. Len(p) /\ DOMAIN q = 1 .. Len(q)
      /\ \A j \in 1 .. Len(p) + Len(q) :
            t[j] = IF j <= Len(p) THEN p[j] ELSE q[j - Len(p)]
  BY ConcatFacts
<1> HIDE DEF t
<1>2. \A j \in DOMAIN t : \/ j \in DOMAIN p /\ t[j] = p[j]
                          \/ j > Len(p) /\ j - Len(p) \in DOMAIN q /\ t[j] = q[j - Len(p)]
  BY <1>1
<1>3. \A j \in DOMAIN p : j \in DOMAIN t /\ t[j] = p[j]
  BY <1>1
<1>4. \A j \in DOMAIN q : j + Len(p) \in DOMAIN t /\ t[j + Len(p)] = q[j]
  BY <1>1
<1>5. ToSet(t) = ToSet(p) \union ToSet(q)
  <2>1. ToSet(t) \subseteq ToSet(p) \union ToSet(q)
    BY <1>2 DEF ToSet
  <2>2. ToSet(p) \subseteq ToSet(t)
    BY <1>3 DEF ToSet
  <2>3. ToSet(q) \subseteq ToSet(t)
    BY <1>4 DEF ToSet
  <2> QED BY <2>1, <2>2, <2>3
<1>6. ASSUME NEW j \in DOMAIN t, NEW k \in DOMAIN t, j < k, t[j] # Eos, t[k] # Eos
      PROVE  t[j] < t[k]
  <2>1. CASE k <= Len(p)
    <3>1. j \in DOMAIN p /\ k \in DOMAIN p /\ t[j] = p[j] /\ t[k] = p[k]
      BY <1>1, <1>6, <2>1
    <3> QED BY <1>6, <3>1 DEF Sorted
  <2>2. CASE j > Len(p)
    <3>1. /\ j - Len(p) \in DOMAIN q /\ k - Len(p) \in DOMAIN q
          /\ j - Len(p) < k - Len(p)
          /\ t[j] = q[j - Len(p)] /\ t[k] = q[k - Len(p)]
      BY <1>1, <1>6, <2>2
    <3> QED BY <1>6, <3>1 DEF Sorted
  <2>3. CASE j <= Len(p) /\ k > Len(p)
    <3>1. /\ j \in DOMAIN p /\ t[j] = p[j]
          /\ k - Len(p) \in DOMAIN q /\ t[k] = q[k - Len(p)]
      BY <1>1, <1>6, <2>3
    <3>2. t[j] \in Data(p) /\ t[k] \in Data(q)
      BY <1>6, <3>1 DEF Data, ToSet
    <3> QED BY <3>2 DEF Before
  <2> QED BY <1>1, <1>6, <2>1, <2>2, <2>3
<1> QED BY <1>5, <1>6 DEF Sorted, t

-----------------------------------------------------------------------------
(* What the invariant says about the requests.                             *)

LEMMA PlaceFacts ==
    ASSUME TypeOK, SessionOK
    PROVE  /\ Base \in Nat /\ sent \in Nat /\ closed \in Nat /\ closed <= sent
           /\ Turn \in Nat /\ Pos(Base + sent) \in Nat /\ Turn <= Pos(Base + sent)
           /\ closed < sent => Turn + Batch <= Pos(Base + sent)
           /\ i \in Nat /\ 1 <= i /\ i <= Batch + 1
           /\ Pushed \in Nat /\ Turn <= Pushed /\ Pushed <= Turn + Batch
           /\ Transmitted \in Nat /\ Turn <= Transmitted
           /\ Transmitted <= Turn + Batch
<1>1. run \in 1 .. Runs /\ sent \in Nat /\ closed \in Nat /\ closed <= sent
      /\ i \in 1 .. Batch + 1
  BY DEF TypeOK, SessionOK
<1>2. Base \in Nat
  BY <1>1, BaseFacts
<1>3. Base + closed \in Nat /\ Base + sent \in Nat /\ Base + closed <= Base + sent
  BY <1>1, <1>2
<1>4. /\ Turn \in Nat /\ Pos(Base + sent) \in Nat /\ Turn <= Pos(Base + sent)
      /\ closed < sent => Turn + Batch <= Pos(Base + sent)
  <2> DEFINE m == Base + closed
             n == Base + sent
  <2>1. m \in Nat /\ n \in Nat /\ m <= n /\ (closed < sent => m < n)
    BY <1>1, <1>2, <1>3
  <2> HIDE DEF m, n
  <2>2. /\ Pos(m) \in Nat /\ Pos(n) \in Nat /\ Pos(m) <= Pos(n)
        /\ m < n => Pos(m) + Batch <= Pos(n)
    BY <2>1, PosFacts
  <2> QED BY <2>1, <2>2 DEF Turn, m, n
<1>5. i \in Nat /\ 1 <= i /\ i <= Batch + 1
  BY <1>1, BatchFacts
<1>6. Pushed \in Nat /\ Turn <= Pushed /\ Pushed <= Turn + Batch
  BY <1>4, <1>5, BatchFacts DEF Pushed
<1>7. /\ Transmitted \in Nat /\ Turn <= Transmitted
      /\ Transmitted <= Turn + Batch
  BY <1>4, <1>5, BatchFacts DEF Transmitted
<1> QED BY <1>1, <1>2, <1>4, <1>5, <1>6, <1>7

LEMMA PackageFacts ==
    ASSUME TypeOK, LoopOK, NEW k \in 1 .. sent
    PROVE  /\ k \in DOMAIN packages /\ packages[k] \in Seq(DataFrames)
           /\ Len(packages[k]) = Batch /\ DOMAIN packages[k] = 1 .. Batch
           /\ \A j \in 1 .. Batch : packages[k][j] = Pos(Base + k - 1) + j
           /\ ToSet(packages[k]) \subseteq DataFrames
<1>1. k \in DOMAIN packages /\ packages[k] \in Seq(DataFrames)
  BY DEF TypeOK, LoopOK
<1>2. Len(packages[k]) = Batch /\ \A j \in 1 .. Batch : packages[k][j] = Pos(Base + k - 1) + j
  BY DEF LoopOK
<1>3. DOMAIN packages[k] = 1 .. Batch /\ ToSet(packages[k]) \subseteq DataFrames
  BY <1>1, <1>2 DEF ToSet
<1> QED BY <1>1, <1>2, <1>3

\* The frames of the request that Response works on.
LEMMA FramesFacts ==
    ASSUME TypeOK, LoopOK, SessionOK, rpc # "idle"
    PROVE  /\ answering = closed + 1 /\ closed + 1 \in 1 .. sent
           /\ frames = packages[closed + 1]
           /\ frames \in Seq(DataFrames) /\ Len(frames) = Batch
           /\ \A j \in 1 .. Batch : frames[j] = Turn + j /\ frames[j] \in DataFrames
           /\ ToSet(frames) = {frames[j] : j \in 1 .. Batch}
<1>1. answering = closed + 1 /\ closed + 1 \in 1 .. sent
  BY PlaceFacts DEF SessionOK
<1>2. frames = packages[closed + 1]
  BY <1>1 DEF frames
<1>3. /\ packages[closed + 1] \in Seq(DataFrames)
      /\ Len(packages[closed + 1]) = Batch
      /\ DOMAIN packages[closed + 1] = 1 .. Batch
      /\ \A j \in 1 .. Batch : packages[closed + 1][j] = Pos(Base + (closed + 1) - 1) + j
      /\ ToSet(packages[closed + 1]) \subseteq DataFrames
  BY <1>1, PackageFacts
<1>4. Base + (closed + 1) - 1 = Base + closed
  BY PlaceFacts
<1>5. \A j \in 1 .. Batch : frames[j] = Turn + j
  BY <1>2, <1>3, <1>4 DEF Turn
<1>6. ToSet(frames) = {frames[j] : j \in 1 .. Batch}
  BY <1>2, <1>3 DEF ToSet
<1> QED BY <1>1, <1>2, <1>3, <1>5, <1>6

LEMMA ProvideFacts ==
    ASSUME TypeOK, NEW f \in AllFrames, Provide(f)
    PROVE  /\ queue' \in Seq(AllFrames) /\ size' \in Len(queue') .. Capacity
           /\ lost' \in SUBSET DataFrames
           /\ \/ queue' = Append(queue, f) /\ lost' = lost
              \/ queue' = queue /\ lost' = lost \union ({f} \ {Eos}) /\ stopped
<1>0. Capacity \in Nat /\ Len(queue) \in Nat
  BY InferenceAssumption DEF InferenceAssumption, TypeOK
<1>1. CASE Push(f)
  <2>1. Append(queue, f) \in Seq(AllFrames) /\ Len(Append(queue, f)) = Len(queue) + 1
    BY AppendFacts DEF TypeOK
  <2> QED BY <1>0, <1>1, <2>1 DEF Push, TypeOK
<1>2. CASE ~Push(f)
  <2>1. queue' = queue /\ size' = size /\ lost' = lost \union ({f} \ {Eos}) /\ stopped
    BY <1>2 DEF Provide
  <2> QED BY <2>1 DEF AllFrames, TypeOK
<1> QED BY <1>1, <1>2

\* No end of the stream is in the connector when the pipeline stops.
LEMMA NoEosLeft ==
    ASSUME TypeOK, EndsOK, through = run
    PROVE  lpc = "end" /\ Eos \notin ToSet(queue)
<1>1. run \in Nat
  BY BatchFacts DEF TypeOK
<1>2. through # run - 1
  BY <1>1
<1> QED BY <1>2 DEF EndsOK

LEMMA BeginFacts ==
    ASSUME TypeOK, pending # << >>, Pool!Begin
    PROVE  /\ pending' = Tail(pending) /\ Head(pending) \in DataFrames
           /\ status' = [status EXCEPT ![Head(pending)] = "running"]
           /\ stopping' = stopping
<1>1. Pool!First = {1}
  <2>1. 1 \in DOMAIN pending
    BY TailFacts DEF TypeOK
  <2> QED BY <2>1 DEF Pool!First
<1>2. /\ pending' = Pool!RemoveAt(pending, 1)
      /\ status' = [status EXCEPT ![pending[1]] = "running"]
      /\ stopping' = stopping
  <2>1. PICK k \in Pool!First :
            /\ pending' = Pool!RemoveAt(pending, k)
            /\ status' = [status EXCEPT ![pending[k]] = "running"]
    BY DEF Pool!Begin
  <2>2. k = 1
    BY <1>1
  <2> QED BY <2>1, <2>2 DEF Pool!Begin
<1>3. Pool!RemoveAt(pending, 1) = Tail(pending)
  <2> DEFINE s == SubSeq(pending, 1, 0)
             t == SubSeq(pending, 2, Len(pending))
             u == Tail(pending)
  <2>0. /\ pending \in Seq(DataFrames) /\ Len(pending) \in Nat \ {0}
        /\ u \in Seq(DataFrames) /\ Len(u) = Len(pending) - 1
        /\ \A j \in 1 .. Len(pending) - 1 : u[j] = pending[j + 1]
    BY TailFacts DEF TypeOK
  <2>1. s \in Seq(DataFrames) /\ Len(s) = 0
    BY <2>0
  <2>2. /\ t \in Seq(DataFrames) /\ Len(t) = Len(pending) - 1
        /\ \A j \in 1 .. Len(pending) - 1 : t[j] = pending[j + 1]
    BY <2>0
  <2>3. Pool!RemoveAt(pending, 1) = s \o t
    BY DEF Pool!RemoveAt
  <2> HIDE DEF s, t, u
  <2>4. /\ s \o t \in Seq(DataFrames) /\ Len(s \o t) = Len(s) + Len(t)
        /\ \A j \in 1 .. Len(s) + Len(t) :
              (s \o t)[j] = IF j <= Len(s) THEN s[j] ELSE t[j - Len(s)]
    BY <2>1, <2>2, ConcatFacts
  <2> DEFINE w == s \o t
  <2>5. /\ w \in Seq(DataFrames) /\ Len(w) = Len(pending) - 1
        /\ \A j \in 1 .. Len(pending) - 1 : w[j] = pending[j + 1]
    BY <2>0, <2>1, <2>2, <2>4
  <2> HIDE DEF w
  <2>6. w = u
    BY <2>0, <2>5
  <2> QED BY <2>3, <2>6 DEF w, u
<1>4. Head(pending) = pending[1] /\ Head(pending) \in DataFrames
  BY TailFacts DEF TypeOK
<1> QED BY <1>2, <1>3, <1>4

-----------------------------------------------------------------------------
(* Types.                                                                  *)

LEMMA InitTypeOK == Init => TypeOK
<1> SUFFICES ASSUME Init PROVE TypeOK
  OBVIOUS
<1>1. /\ 1 \in 1 .. Runs /\ 0 \in 0 .. Runs * F /\ 1 \in 1 .. Batch + 1
      /\ 0 \in 0 .. Capacity
  BY InferenceAssumption DEF InferenceAssumption
<1>2. << >> \in Seq(DataFrames) /\ << >> \in Seq(AllFrames)
      /\ << >> \in Seq(Seq(DataFrames)) /\ Len(<< >>) = 0
  OBVIOUS
<1>3. /\ Len(batch_array) <= Batch /\ size \in Len(queue) .. Capacity
      /\ through \in {run - 1, run}
  BY <1>1, <1>2, BatchFacts DEF Init
<1> QED BY <1>1, <1>2, <1>3
        DEF Init, TypeOK, Session!ResponsesInit, Pool!PoolInit

LEMMA NextFrame ==
    ASSUME TypeOK, Collect
    PROVE  fed + 1 \in DataFrames /\ fed + 1 \in 0 .. Runs * F
<1>1. fed \in Nat /\ fed < run * F /\ run \in 1 .. Runs /\ Runs * F \in Nat
  BY BatchFacts DEF Collect, TypeOK
<1>2. run * F \in Nat /\ run * F <= Runs * F
  BY <1>1, BaseFacts
<1>3. fed + 1 \in 1 .. Runs * F
  BY <1>1, <1>2
<1> QED BY <1>3, FrameFacts

LEMMA TaskLoopTypeOK ==
    ASSUME TypeOK, LoopOK, TaskLoop
    PROVE  TypeOK'
<1>1. CASE Collect
  <2>1. fed + 1 \in DataFrames /\ fed + 1 \in 0 .. Runs * F
    BY <1>1, NextFrame
  <2>2. Len(batch_array) < Batch /\ Len(batch_array) \in Nat
    BY SMTT(30), <1>1, BatchFacts DEF Collect, Loop, LoopOK, TypeOK
  <2>3. batch_array' \in Seq(DataFrames) /\ Len(batch_array') <= Batch
    BY <1>1, <2>1, <2>2, AppendFacts, BatchFacts DEF Collect, TypeOK
  <2> QED BY <1>1, <2>1, <2>3
          DEF Collect, Loop, TypeOK, sessionVars, responseVars, poolVars,
              nextVars, endVars
<1>2. CASE Request
  <2>1. packages' \in Seq(Seq(DataFrames))
    BY <1>2, AppendFacts DEF Request, TypeOK
  <2>2. batch_array' \in Seq(DataFrames) /\ Len(batch_array') <= Batch
    BY <1>2, BatchFacts DEF Request
  <2> QED BY <1>2, <2>1, <2>2
          DEF Request, Loop, Session!Accept, TypeOK, responseVars, poolVars,
              nextVars, endVars
<1>3. CASE ReceiveEos \/ EosRightMove
  BY <1>3 DEF ReceiveEos, EosRightMove, Loop, TypeOK, sessionVars, responseVars,
              poolVars, nextVars, endVars
<1>4. CASE EosTransmit
  <2>1. /\ queue' \in Seq(AllFrames) /\ size' \in Len(queue') .. Capacity
        /\ lost' \in SUBSET DataFrames
    BY <1>4, FrameFacts, ProvideFacts DEF EosTransmit
  <2> QED BY <1>4, <2>1
          DEF EosTransmit, Loop, TypeOK, sessionVars, responseVars, poolVars,
              endVars
<1> QED BY <1>1, <1>2, <1>3, <1>4 DEF TaskLoop

LEMMA ResponseTypeOK ==
    ASSUME TypeOK, LoopOK, SessionOK, Response
    PROVE  TypeOK'
<1>1. CASE ResponseCall
  <2>1. closed + 1 \in 1 .. sent
    BY <1>1 DEF ResponseCall, Session!Answer, TypeOK
  <2>2. ToSet(packages[closed + 1]) \subseteq DataFrames
    BY <2>1, PackageFacts
  <2>3. empty' \in SUBSET DataFrames
    BY <1>1, <2>2 DEF ResponseCall, TypeOK
  <2> QED BY <1>1, <2>3, BatchFacts
          DEF ResponseCall, Resp, Session!Answer, TypeOK, loopVars, poolVars,
              nextVars, endVars
<1>2. CASE PushTask
  <2>1. i <= Batch /\ i \in 1 .. Batch /\ frames[i] \in DataFrames
    BY <1>2, FramesFacts, BatchFacts DEF PushTask, Resp, TypeOK
  <2>2. pending' \in Seq(DataFrames)
    BY <1>2, <2>1, AppendFacts DEF PushTask, Pool!Submit, TypeOK
  <2>3. status' \in [DataFrames -> {"new", "pending", "running"} \union Pool!Ended]
    BY <1>2, <2>1 DEF PushTask, Pool!Submit, TypeOK
  <2>4. i' \in 1 .. Batch + 1
    BY <1>2, <2>1, BatchFacts DEF PushTask
  <2> QED BY <1>2, <2>2, <2>3, <2>4
          DEF PushTask, Resp, Pool!Submit, TypeOK, loopVars, sessionVars,
              nextVars, endVars
<1>3. CASE PushTasksEnd \/ FutureThrows \/ WaitEnd \/ TransmitLock
  <2>1. i' \in 1 .. Batch + 1
    BY <1>3, BatchFacts
       DEF PushTasksEnd, FutureThrows, WaitEnd, TransmitLock, TypeOK
  <2>2. /\ rpc' \in {"wait", "transmit", "push"}
        /\ UNCHANGED <<empty, loopVars, sessionVars, poolVars, nextVars, endVars>>
    BY <1>3 DEF PushTasksEnd, FutureThrows, WaitEnd, TransmitLock, Resp
  <2> QED BY <2>1, <2>2
          DEF TypeOK, loopVars, sessionVars, poolVars, nextVars, endVars
<1>4. CASE WaitFuture
  <2>1. i' \in 1 .. Batch + 1
    BY <1>4, FramesFacts, BatchFacts DEF WaitFuture, Resp, TypeOK
  <2> QED BY <1>4, <2>1
          DEF WaitFuture, Resp, TypeOK, loopVars, sessionVars, poolVars,
              nextVars, endVars
<1>5. CASE TransmitPush
  <2>1. i \in 1 .. Batch /\ frames[i] \in AllFrames
    BY SMTT(30), <1>5, FramesFacts, FrameFacts, BatchFacts
       DEF TransmitPush, Resp, SessionOK, TypeOK
  <2>2. /\ queue' \in Seq(AllFrames) /\ size' \in Len(queue') .. Capacity
        /\ lost' \in SUBSET DataFrames
    BY <1>5, <2>1, ProvideFacts DEF TransmitPush
  <2>3. i' \in 1 .. Batch + 1
    BY <1>5, <2>1, BatchFacts DEF TransmitPush
  <2> QED BY <1>5, <2>2, <2>3
          DEF TransmitPush, Resp, TypeOK, loopVars, sessionVars, poolVars,
              endVars
<1>6. CASE ResponseReturn
  BY <1>6 DEF ResponseReturn, Resp, Session!Answered, TypeOK, loopVars, poolVars,
              nextVars, endVars
<1> QED BY <1>1, <1>2, <1>3, <1>4, <1>5, <1>6 DEF Response

LEMMA PoolTypeOK ==
    ASSUME TypeOK, DoResponse \/ DoResponseNull
    PROVE  TypeOK'
<1>1. CASE DoResponseNull
  BY <1>1 DEF DoResponseNull, TypeOK, loopVars, sessionVars, responseVars,
              poolVars, nextVars
<1>2. ASSUME pending # << >>, Pool!Begin, DoResponse
      PROVE  TypeOK'
  <2>1. /\ pending' \in Seq(DataFrames)
        /\ status' \in [DataFrames -> {"new", "pending", "running"} \union Pool!Ended]
        /\ stopping' = stopping
    <3>1. /\ pending' = Tail(pending) /\ Head(pending) \in DataFrames
          /\ status' = [status EXCEPT ![Head(pending)] = "running"]
          /\ stopping' = stopping
      BY <1>2, BeginFacts
    <3>2. Tail(pending) \in Seq(DataFrames)
      BY <1>2, TailFacts DEF TypeOK
    <3> QED BY <3>1, <3>2 DEF TypeOK
  <2> QED BY <1>2, <2>1
          DEF DoResponse, TypeOK, loopVars, sessionVars, responseVars, nextVars,
              endVars
<1>3. ASSUME NEW f \in DataFrames, Pool!End(f), DoResponse
      PROVE  TypeOK'
  <2>1. /\ pending' = pending /\ stopping' = stopping
        /\ status' \in [DataFrames -> {"new", "pending", "running"} \union Pool!Ended]
    BY <1>3 DEF Pool!End, Pool!Ended, TypeOK
  <2> QED BY <1>3, <2>1
          DEF DoResponse, TypeOK, loopVars, sessionVars, responseVars, nextVars,
              endVars
<1> QED BY <1>1, <1>2, <1>3 DEF DoResponse

LEMMA EndTypeOK ==
    ASSUME TypeOK, SessionOK, EndsOK,
           NextModule \/ NextEnd \/ PipelineStop \/ Close \/ Restart \/ Terminating
    PROVE  TypeOK'
<1>0. Capacity \in Nat /\ size \in Nat /\ run \in Nat
  BY InferenceAssumption, BatchFacts DEF InferenceAssumption, TypeOK
<1>1. ASSUME NextPop
      PROVE  /\ queue' \in Seq(AllFrames) /\ size' \in Len(queue') .. Capacity
             /\ Head(queue) \in AllFrames /\ Head(queue) \in ToSet(queue)
  <2>1. /\ queue # << >> /\ queue' = Tail(queue) /\ size' = size - 1
        /\ size >= Len(queue) /\ size <= Capacity
    BY <1>0, <1>1 DEF NextPop, TypeOK
  <2>2. /\ Head(queue) \in AllFrames /\ Tail(queue) \in Seq(AllFrames)
        /\ Len(queue) \in Nat \ {0} /\ Len(Tail(queue)) = Len(queue) - 1
        /\ ToSet(queue) = {Head(queue)} \union ToSet(Tail(queue))
    BY <2>1, TailFacts DEF TypeOK
  <2> QED BY <1>0, <2>1, <2>2
<1>2. CASE NextModule
  <2>1. NextPop /\ taken' = Append(taken, Head(queue))
    BY <1>2 DEF NextModule
  <2>2. taken' \in Seq(AllFrames)
    BY <1>1, <2>1, AppendFacts DEF TypeOK
  <2>3. through' \in {run - 1, run}
    <3>1. CASE Head(queue) = Eos
      <4>1. through = run - 1
        BY <1>1, <2>1, <3>1 DEF EndsOK
      <4> QED BY <1>0, <1>2, <3>1, <4>1 DEF NextModule
    <3>2. CASE Head(queue) # Eos
      BY <1>0, <1>2, <3>2 DEF NextModule, TypeOK
    <3> QED BY <3>1, <3>2
  <2> QED BY <1>1, <1>2, <2>1, <2>2, <2>3
          DEF NextModule, TypeOK, loopVars, sessionVars, responseVars, poolVars,
              endVars
<1>3. CASE NextEnd
  <2>1. Eos \notin ToSet(queue)
    BY <1>3, NoEosLeft DEF NextEnd, EndsOK
  <2>2. /\ queue' \in Seq(AllFrames) /\ size' \in Len(queue') .. Capacity
        /\ lost' \in SUBSET DataFrames
    <3>1. CASE NextPop /\ lost' = lost \union {Head(queue)}
      <4>1. Head(queue) \in DataFrames
        BY <1>1, <2>1, <3>1 DEF AllFrames
      <4> QED BY <1>1, <3>1, <4>1 DEF TypeOK
    <3>2. CASE UNCHANGED <<queue, size, lost>>
      BY <3>2 DEF TypeOK
    <3> QED BY <1>3, <3>1, <3>2 DEF NextEnd
  <2> QED BY <1>3, <2>2
          DEF NextEnd, TypeOK, loopVars, sessionVars, responseVars, poolVars,
              endVars
<1>4. CASE PipelineStop
  <2>1. Eos \notin ToSet(queue)
    BY <1>4, NoEosLeft DEF PipelineStop
  <2>2. ToSet(queue) \subseteq DataFrames
    <3>1. ToSet(queue) \subseteq AllFrames
      BY DEF TypeOK, ToSet
    <3> QED BY <2>1, <3>1 DEF AllFrames
  <2>3. queue' = << >> /\ size' = size /\ size \in 0 .. Capacity /\ Len(<< >>) = 0
    BY <1>0, <1>4 DEF PipelineStop, TypeOK
  <2> QED BY <1>4, <2>2, <2>3
          DEF PipelineStop, TypeOK, loopVars, sessionVars, responseVars,
              poolVars, endVars
<1>5. CASE Close
  BY <1>5 DEF Close, Session!Vanish, TypeOK, loopVars, responseVars, poolVars,
              nextVars, endVars
<1>6. CASE Restart
  <2>1. through = run /\ run + 1 \in 1 .. Runs /\ run = run + 1 - 1
    BY <1>0, <1>6, BatchFacts
       DEF Restart, Reopen, SessionOK, EndsOK, TypeOK
  <2>2. /\ packages' \in Seq(Seq(DataFrames)) /\ pending' \in Seq(DataFrames)
        /\ status' \in [DataFrames -> {"new", "pending", "running"} \union Pool!Ended]
        /\ empty' \in SUBSET DataFrames
    BY <1>6 DEF Restart, Reopen
  <2>3. run' \in 1 .. Runs /\ through' \in {run' - 1, run'}
    <3>1. run' = run + 1 /\ through' = through
      BY <1>6 DEF Restart, Reopen
    <3> QED BY <1>0, <2>1, <3>1
  <2>4. /\ lpc' = "loop" /\ npc' = "loop" /\ stopped' = FALSE /\ gone' = FALSE
        /\ sent' = 0 /\ closed' = 0 /\ answering' = 0 /\ stopping' = FALSE
        /\ crashed' \in BOOLEAN
        /\ UNCHANGED <<fed, rpc, i, queue, size, taken, lost, batch_array>>
    BY <1>6 DEF Restart, Reopen
  <2> QED BY <2>2, <2>3, <2>4 DEF TypeOK
<1>7. CASE Terminating
  BY <1>7 DEF Terminating, vars, TypeOK
<1> QED BY <1>2, <1>3, <1>4, <1>5, <1>6, <1>7

LEMMA TypeStep ==
    ASSUME TypeOK, LoopOK, SessionOK, EndsOK, Next
    PROVE  TypeOK'
BY TaskLoopTypeOK, ResponseTypeOK, PoolTypeOK, EndTypeOK DEF Next

-----------------------------------------------------------------------------
(* The batches.                                                            *)

\* A step that TaskLoop has no part in.
LEMMA LoopStutter ==
    ASSUME LoopOK, UNCHANGED <<run, fed, lpc, batch_array, packages, sent>>
    PROVE  LoopOK' /\ Base' = Base
BY DEF LoopOK, Base

LEMMA LoopCollect ==
    ASSUME TypeOK, LoopOK, SessionOK, Collect
    PROVE  LoopOK' /\ Base' = Base
<1> DEFINE n == Len(batch_array)
           p == Pos(Base + sent)
<1>1. /\ fed < run * F /\ fed' = fed + 1 /\ lpc = "loop"
      /\ batch_array' = Append(batch_array, fed')
      /\ lpc' = IF Len(batch_array') = Batch THEN "request" ELSE "loop"
      /\ UNCHANGED <<run, packages, sent>>
  BY DEF Collect, Loop, sessionVars, endVars
<1>2. /\ n \in Nat /\ p \in Nat /\ fed = p + n /\ run * F \in Nat
      /\ \A j \in 1 .. n : batch_array[j] = p + j
  BY PlaceFacts, BaseFacts DEF LoopOK, TypeOK
<1>3. Base' = Base
  BY <1>1 DEF Base
<1> HIDE DEF n, p
<1>4. /\ Len(batch_array') = n + 1 /\ batch_array'[n + 1] = fed + 1
      /\ \A j \in 1 .. n : batch_array'[j] = batch_array[j]
  <2>1. batch_array \in Seq(DataFrames) /\ fed + 1 \in DataFrames
    BY NextFrame DEF TypeOK
  <2> QED BY <1>1, <2>1, AppendFacts DEF n
<1>5. \A j \in 1 .. n + 1 : batch_array'[j] = p + j
  BY <1>2, <1>4
<1>6. fed' = p + (n + 1) /\ fed' <= run * F
  BY <1>1, <1>2
<1>7. p' = p
  BY <1>1, <1>3 DEF p
<1>8. (lpc' = "request") = (Len(batch_array') = Batch) /\ lpc' \in {"loop", "request"}
  BY <1>1
<1> QED BY <1>1, <1>3, <1>4, <1>5, <1>6, <1>7, <1>8 DEF LoopOK, p

LEMMA LoopRequest ==
    ASSUME TypeOK, LoopOK, SessionOK, Request
    PROVE  LoopOK' /\ Base' = Base
<1>1. /\ lpc = "request" /\ lpc' = "loop" /\ sent' = sent + 1
      /\ packages' = Append(packages, batch_array) /\ batch_array' = << >>
      /\ UNCHANGED <<run, fed>>
  BY DEF Request, Loop, Session!Accept, endVars
<1>2. Base' = Base
  BY <1>1 DEF Base
<1>3. /\ Base \in Nat /\ sent \in Nat /\ Len(packages) = sent
      /\ Len(batch_array) = Batch /\ fed = Pos(Base + sent) + Batch
      /\ \A j \in 1 .. Batch : batch_array[j] = Pos(Base + sent) + j
  BY <1>1, PlaceFacts DEF LoopOK
<1>4. /\ Len(packages') = sent + 1 /\ packages'[sent + 1] = batch_array
      /\ \A k \in 1 .. sent : packages'[k] = packages[k]
  <2>1. /\ packages \in Seq(Seq(DataFrames)) /\ batch_array \in Seq(DataFrames)
    BY DEF TypeOK
  <2> DEFINE S == Seq(DataFrames)
  <2>2. packages \in Seq(S) /\ batch_array \in S
    BY <2>1
  <2> HIDE DEF S
  <2> QED BY <1>1, <1>3, <2>2, AppendFacts
<1>5. Base + (sent + 1) = (Base + sent) + 1 /\ Base + sent \in Nat
      /\ Base + (sent + 1) - 1 = Base + sent
  BY <1>3
<1>6. Pos(Base + (sent + 1)) = Pos(Base + sent) + Batch
  BY <1>5, PosFacts
<1>7. ASSUME NEW k \in 1 .. sent + 1
      PROVE  /\ \A j \in 1 .. Batch : packages'[k][j] = Pos(Base + k - 1) + j
             /\ Len(packages'[k]) = Batch
  <2>1. CASE k = sent + 1
    BY <1>3, <1>4, <1>5, <2>1
  <2>2. CASE k # sent + 1
    <3>1. k \in 1 .. sent
      BY <1>3, <1>7, <2>2
    <3> QED BY <1>4, <3>1 DEF LoopOK
  <2> QED BY <2>1, <2>2
<1>8. Len(batch_array') = 0 /\ fed' = Pos(Base + (sent + 1)) + 0 /\ Batch # 0
  <2>1. Pos(Base + (sent + 1)) \in Nat
    BY <1>3, <1>5, PosFacts
  <2> QED BY <1>1, <1>3, <1>6, <2>1, BatchFacts
<1> QED BY <1>1, <1>2, <1>3, <1>4, <1>7, <1>8 DEF LoopOK

\* A run begins where the one before has ended, in the middle of a batch.
LEMMA LoopRestart ==
    ASSUME TypeOK, LoopOK, SessionOK, Restart
    PROVE  LoopOK' /\ Base' = Base + sent
<1>1. /\ gone /\ run' = run + 1 /\ packages' = << >> /\ sent' = 0
      /\ lpc' = "loop" /\ UNCHANGED <<fed, batch_array>>
  BY DEF Restart, Reopen
<1>2. lpc = "end" /\ closed = sent
  BY <1>1 DEF SessionOK
<1> DEFINE n == Len(batch_array)
<1>3. /\ fed = run * F /\ fed = Pos(Base + sent) + n /\ n # Batch
      /\ n <= Batch /\ n \in Nat
  BY <1>2 DEF LoopOK, TypeOK
<1>4. n \in 0 .. Batch - 1 /\ Base + sent \in Nat
  <2>1. Base + sent \in Nat
    BY PlaceFacts
  <2> HIDE DEF n
  <2>2. n \in 0 .. Batch - 1
    BY <1>3, BatchFacts
  <2> QED BY <2>1, <2>2
<1> HIDE DEF n
<1>5. Base' = Base + sent
  <2>1. Base' = (run * F) \div Batch
    <3>1. run' - 1 = run
      BY <1>1, BatchFacts DEF TypeOK
    <3> QED BY <3>1 DEF Base
  <2>2. (Pos(Base + sent) + n) \div Batch = Base + sent
    BY <1>4, DivPos
  <2> QED BY <1>3, <2>1, <2>2
<1>6. Base' + sent' = Base + sent
  BY <1>1, <1>4, <1>5
<1>7. fed <= run' * F
  <2>1. run \in Nat /\ run' * F = run * F + F /\ run * F \in Nat
    BY <1>1, BatchFacts DEF TypeOK
  <2> QED BY <1>3, <2>1, BatchFacts
<1>8. \A j \in 1 .. n : batch_array[j] = Pos(Base + sent) + j
  BY DEF LoopOK, n
<1>9. Len(packages') = 0 /\ 1 .. sent' = {}
  BY <1>1
<1> QED BY <1>1, <1>3, <1>5, <1>6, <1>7, <1>8, <1>9 DEF LoopOK, n

\* The first batch of a run follows those of the runs before it.
LEMMA LoopStep ==
    ASSUME TypeOK, LoopOK, SessionOK, Next
    PROVE  /\ LoopOK'
           /\ IF Restart THEN Base' = Base + sent ELSE Base' = Base
<1>1. CASE Restart
  BY <1>1, LoopRestart
<1> SUFFICES ASSUME ~Restart
             PROVE  LoopOK' /\ Base' = Base
  BY <1>1
<1>2. CASE UNCHANGED <<run, fed, lpc, batch_array, packages, sent>>
  BY <1>2, LoopStutter
<1>3. CASE ReceiveEos \/ EosRightMove \/ EosTransmit
  <2>1. /\ UNCHANGED <<run, fed, batch_array, packages, sent>>
        /\ lpc # "request"
        /\ lpc' \in {"rightMove", "eos", "end"} /\ fed = run * F
    BY <1>3 DEF ReceiveEos, EosRightMove, EosTransmit, Loop, LoopOK, sessionVars,
                endVars
  <2>2. Base' = Base
    BY <2>1 DEF Base
  <2> QED BY <2>1, <2>2 DEF LoopOK
<1>4. CASE Response
  BY <1>2, <1>4
     DEF Response, ResponseCall, PushTask, PushTasksEnd, WaitFuture, FutureThrows,
         WaitEnd, TransmitLock, TransmitPush, ResponseReturn, Session!Answer,
         Session!Answered, loopVars, sessionVars, endVars
<1>5. CASE DoResponse \/ DoResponseNull \/ NextModule \/ NextEnd \/ PipelineStop
           \/ Close \/ Terminating
  BY <1>2, <1>5
     DEF DoResponse, DoResponseNull, NextModule, NextEnd, PipelineStop, Close,
         Terminating, Session!Vanish, loopVars, sessionVars, endVars, vars
<1> QED BY <1>3, <1>4, <1>5, LoopCollect, LoopRequest DEF Next, TaskLoop

-----------------------------------------------------------------------------
(* The session and Response.                                               *)

LEMMA SessionOKStep ==
    ASSUME TypeOK, LoopOK, SessionOK, EndsOK, Next
    PROVE  SessionOK'
<1>0. sent \in Nat /\ closed \in Nat /\ closed <= sent
  BY DEF TypeOK, SessionOK
<1>1. CASE Request
  <2>1. /\ sent' = sent + 1 /\ ~gone /\ UNCHANGED <<closed, answering, gone, rpc, i>>
    BY <1>1 DEF Request, Session!Accept, responseVars
  <2> QED BY <1>0, <2>1 DEF SessionOK
<1>2. CASE Collect \/ ReceiveEos \/ EosRightMove \/ EosTransmit
  <2>1. lpc # "end" /\ UNCHANGED <<sent, closed, answering, gone, rpc, i>>
    BY <1>2 DEF Collect, ReceiveEos, EosRightMove, EosTransmit, Loop, sessionVars,
                responseVars
  <2> QED BY <2>1 DEF SessionOK
<1>3. CASE ResponseCall
  <2>1. /\ closed < sent /\ answering' = closed + 1 /\ rpc' = "pushTasks"
        /\ UNCHANGED <<sent, closed, gone, lpc, npc, stopped>>
    BY <1>3 DEF ResponseCall, Session!Answer, Resp, loopVars, nextVars
  <2> QED BY <2>1 DEF SessionOK
<1>4. CASE PushTask \/ PushTasksEnd \/ WaitFuture \/ FutureThrows \/ WaitEnd
           \/ TransmitLock \/ TransmitPush
  <2>1. rpc # "idle" /\ rpc' # "idle"
    BY <1>4 DEF PushTask, PushTasksEnd, WaitFuture, FutureThrows, WaitEnd,
                TransmitLock, TransmitPush, Resp
  <2>2. UNCHANGED <<sent, closed, answering, gone, lpc, stopped>>
    BY <1>4 DEF PushTask, PushTasksEnd, WaitFuture, FutureThrows, WaitEnd,
                TransmitLock, TransmitPush, sessionVars, loopVars, nextVars
  <2>3. rpc' = "push" => i' <= Batch
    <3>1. CASE TransmitLock
      BY <2>1, <3>1, FramesFacts DEF TransmitLock
    <3>2. CASE ~TransmitLock
      BY <1>4, <3>2 DEF PushTask, PushTasksEnd, WaitFuture, FutureThrows, WaitEnd,
                        TransmitPush, Resp
    <3> QED BY <3>1, <3>2
  <2> QED BY <2>1, <2>2, <2>3 DEF SessionOK
<1>5. CASE ResponseReturn
  <2>1. /\ closed' = closed + 1 /\ answering' = 0 /\ rpc = "transmit" /\ rpc' = "idle"
        /\ UNCHANGED <<sent, gone, lpc, stopped>>
    BY <1>5 DEF ResponseReturn, Session!Answered, Resp, loopVars, nextVars
  <2> QED BY <1>0, <2>1 DEF SessionOK
<1>6. CASE DoResponse \/ DoResponseNull \/ NextModule \/ NextEnd \/ PipelineStop
           \/ Terminating
  <2>1. /\ UNCHANGED <<sent, closed, answering, gone, lpc, rpc, i>>
        /\ stopped => stopped'
    BY <1>6 DEF DoResponse, DoResponseNull, NextModule, NextEnd, PipelineStop,
                Terminating, loopVars, sessionVars, responseVars, nextVars, vars
  <2> QED BY <2>1 DEF SessionOK
<1>7. CASE Close
  <2>1. /\ closed = sent /\ lpc = "end" /\ stopped
        /\ UNCHANGED <<sent, closed, answering, lpc, rpc, i, stopped>>
    BY <1>7 DEF Close, Session!Vanish, loopVars, responseVars, nextVars
  <2> QED BY <2>1 DEF SessionOK
<1>8. CASE Restart
  <2>1. /\ gone /\ gone' = FALSE /\ sent' = 0 /\ closed' = 0 /\ answering' = 0
        /\ rpc' = rpc
    BY <1>8 DEF Restart, Reopen
  <2>2. rpc = "idle"
    BY <1>0, <2>1 DEF SessionOK
  <2> QED BY <2>1, <2>2 DEF SessionOK
<1> QED BY <1>1, <1>2, <1>3, <1>4, <1>5, <1>6, <1>7, <1>8 DEF Next, TaskLoop, Response

-----------------------------------------------------------------------------
(* The ends of the stream.                                                 *)

LEMMA EndsStep ==
    ASSUME TypeOK, LoopOK, SessionOK, EndsOK, Next
    PROVE  EndsOK'
<1>0. run \in Nat /\ run - 1 # run /\ run - 1 + 1 = run /\ run + 1 - 1 = run
  BY BatchFacts DEF TypeOK
<1>1. CASE EosTransmit
  <2>1. /\ lpc = "eos" /\ lpc' = "end" /\ Provide(Eos)
        /\ UNCHANGED <<run, through, stopped>>
    BY <1>1 DEF EosTransmit, Loop, endVars
  <2>2. through = run - 1 /\ Eos \notin ToSet(queue) /\ ~stopped
    BY <1>0, <2>1 DEF EndsOK
  <2>3. queue' = Append(queue, Eos)
    BY <2>1, <2>2, FrameFacts, ProvideFacts
  <2>4. /\ Len(queue') = Len(queue) + 1 /\ queue' \in Seq(AllFrames)
        /\ \A j \in 1 .. Len(queue) : queue'[j] = queue[j]
        /\ ToSet(queue') = ToSet(queue) \union {Eos}
        /\ DOMAIN queue' = 1 .. Len(queue) + 1 /\ Len(queue) \in Nat
    <3>1. queue \in Seq(AllFrames) /\ Eos \in AllFrames
      BY FrameFacts DEF TypeOK
    <3> QED BY <2>3, <3>1, AppendFacts
  <2>5. \A j \in DOMAIN queue' : queue'[j] = Eos => j = Len(queue) + 1
    BY <2>2, <2>4 DEF ToSet
  <2> QED BY <2>1, <2>2, <2>4, <2>5 DEF EndsOK
<1>2. CASE TransmitPush
  <2>1. /\ rpc = "push" /\ Provide(frames[i])
        /\ UNCHANGED <<run, through, stopped, lpc>>
    BY <1>2 DEF TransmitPush, Resp, loopVars, endVars
  <2>2. frames[i] \in DataFrames /\ frames[i] \in AllFrames /\ frames[i] # Eos
    BY SMTT(30), <2>1, FramesFacts, FrameFacts, BatchFacts DEF SessionOK, TypeOK
  <2>3. queue' = queue \/ queue' = Append(queue, frames[i])
    BY <2>1, <2>2, ProvideFacts
  <2>4. /\ (Eos \in ToSet(queue')) = (Eos \in ToSet(queue))
        /\ \A j \in DOMAIN queue' :
              queue'[j] = Eos => j \in DOMAIN queue /\ queue[j] = Eos
    <3>1. CASE queue' = queue
      BY <3>1
    <3>2. CASE queue' = Append(queue, frames[i])
      <4>1. queue \in Seq(AllFrames)
        BY DEF TypeOK
      <4>2. /\ Len(queue') = Len(queue) + 1 /\ queue'[Len(queue) + 1] = frames[i]
            /\ \A j \in 1 .. Len(queue) : queue'[j] = queue[j]
            /\ ToSet(queue') = ToSet(queue) \union {frames[i]}
            /\ DOMAIN queue' = 1 .. Len(queue) + 1 /\ DOMAIN queue = 1 .. Len(queue)
            /\ Len(queue) \in Nat
        BY <2>2, <3>2, <4>1, AppendFacts
      <4> QED BY <2>2, <4>2
    <3> QED BY <2>3, <3>1, <3>2
  <2> QED BY <2>1, <2>4 DEF EndsOK
<1>3. ASSUME NextPop
      PROVE  /\ queue # << >> /\ queue' = Tail(queue) /\ Head(queue) \in ToSet(queue)
             /\ ToSet(queue) = {Head(queue)} \union ToSet(queue')
             /\ \A j, k \in DOMAIN queue' : queue'[j] = Eos /\ queue'[k] = Eos => j = k
             /\ Head(queue) = Eos => Eos \notin ToSet(queue')
  <2>1. /\ queue # << >> /\ queue' = Tail(queue) /\ queue \in Seq(AllFrames)
    BY <1>3 DEF NextPop, TypeOK
  <2>2. /\ Head(queue) = queue[1] /\ Len(queue) \in Nat \ {0}
        /\ Len(queue') = Len(queue) - 1 /\ queue' \in Seq(AllFrames)
        /\ \A j \in 1 .. Len(queue) - 1 : queue'[j] = queue[j + 1]
        /\ ToSet(queue) = {Head(queue)} \union ToSet(queue')
    BY <2>1, TailFacts
  <2>3. \A j \in DOMAIN queue' : j \in Nat /\ j + 1 \in DOMAIN queue
                                 /\ queue'[j] = queue[j + 1] /\ j + 1 # 1
    BY <2>1, <2>2
  <2>4. \A j, k \in DOMAIN queue : queue[j] = Eos /\ queue[k] = Eos => j = k
    BY DEF EndsOK
  <2>5. \A j, k \in DOMAIN queue' : queue'[j] = Eos /\ queue'[k] = Eos => j = k
    <3> SUFFICES ASSUME NEW j \in DOMAIN queue', NEW k \in DOMAIN queue',
                        queue'[j] = Eos, queue'[k] = Eos
                 PROVE  j = k
      OBVIOUS
    <3>1. j + 1 = k + 1 /\ j \in Nat /\ k \in Nat
      BY <2>3, <2>4
    <3> QED BY <3>1
  <2>6. ASSUME Head(queue) = Eos, Eos \in ToSet(queue')
        PROVE  FALSE
    <3>1. PICK j \in DOMAIN queue' : queue'[j] = Eos
      BY <2>6 DEF ToSet
    <3>2. 1 \in DOMAIN queue /\ queue[1] = Eos
      BY <2>1, <2>2, <2>6
    <3> QED BY <2>3, <2>4, <3>1, <3>2
  <2> QED BY <2>1, <2>2, <2>5, <2>6
<1>4. CASE NextModule
  <2>1. /\ NextPop /\ ~stopped
        /\ through' = through + (IF Head(queue) = Eos THEN 1 ELSE 0)
        /\ UNCHANGED <<run, lpc, stopped>>
    BY <1>4 DEF NextModule, loopVars, endVars
  <2>2. CASE Head(queue) = Eos
    <3>1. lpc = "end" /\ through = run - 1
      BY <1>3, <2>1, <2>2 DEF EndsOK
    <3>2. through' = run
      BY <1>0, <2>1, <2>2, <3>1
    <3> QED BY <1>0, <1>3, <2>1, <2>2, <3>1, <3>2 DEF EndsOK
  <2>3. CASE Head(queue) # Eos
    <3>1. through' = through
      BY <1>0, <2>1, <2>3 DEF TypeOK
    <3>2. (Eos \in ToSet(queue')) = (Eos \in ToSet(queue))
      BY <1>3, <2>1, <2>3
    <3> QED BY <1>3, <2>1, <3>1, <3>2 DEF EndsOK
  <2> QED BY <2>2, <2>3
<1>5. CASE NextEnd
  <2>1. /\ stopped /\ (NextPop \/ queue' = queue)
        /\ UNCHANGED <<run, lpc, stopped, through>>
    BY <1>5 DEF NextEnd, loopVars, endVars
  <2>2. through = run /\ lpc = "end" /\ Eos \notin ToSet(queue)
    BY <1>5, NoEosLeft DEF NextEnd, EndsOK
  <2>3. Eos \notin ToSet(queue')
    BY <1>3, <2>1, <2>2
  <2>4. \A j, k \in DOMAIN queue' : queue'[j] = Eos /\ queue'[k] = Eos => j = k
    BY <2>3 DEF ToSet
  <2> QED BY <1>0, <2>1, <2>2, <2>3, <2>4 DEF EndsOK
<1>6. CASE PipelineStop
  <2>1. through = run /\ queue' = << >> /\ UNCHANGED <<run, lpc, through>>
    BY <1>6 DEF PipelineStop, loopVars, endVars
  <2>2. lpc = "end" /\ ToSet(queue') = {} /\ DOMAIN queue' = {}
    BY <2>1, NoEosLeft DEF ToSet
  <2> QED BY <1>0, <2>1, <2>2 DEF EndsOK
<1>7. CASE Restart
  <2>1. /\ gone /\ run' = run + 1 /\ lpc' = "loop" /\ stopped' = FALSE
        /\ UNCHANGED <<through, queue>>
    BY <1>7 DEF Restart, Reopen
  <2>2. through = run /\ Eos \notin ToSet(queue)
    BY <2>1, NoEosLeft DEF SessionOK, EndsOK
  <2> QED BY <1>0, <2>1, <2>2 DEF EndsOK
<1>8. CASE /\ UNCHANGED <<run, through, queue, stopped>>
           /\ lpc' = lpc \/ (lpc # "end" /\ lpc' # "end")
  BY <1>8 DEF EndsOK
<1> QED
  <2>1. CASE Collect \/ Request \/ ReceiveEos \/ EosRightMove
    BY <1>8, <2>1 DEF Collect, Request, ReceiveEos, EosRightMove, Loop, nextVars,
                      endVars
  <2>2. CASE ResponseCall \/ PushTask \/ PushTasksEnd \/ WaitFuture \/ FutureThrows
             \/ WaitEnd \/ TransmitLock \/ ResponseReturn
    BY <1>8, <2>2 DEF ResponseCall, PushTask, PushTasksEnd, WaitFuture,
                      FutureThrows, WaitEnd, TransmitLock, ResponseReturn,
                      loopVars, nextVars, endVars
  <2>3. CASE DoResponse \/ DoResponseNull \/ Close \/ Terminating
    BY <1>8, <2>3 DEF DoResponse, DoResponseNull, Close, Terminating, loopVars,
                      nextVars, endVars, vars
  <2> QED BY <1>1, <1>2, <1>4, <1>5, <1>6, <1>7, <2>1, <2>2, <2>3
          DEF Next, TaskLoop, Response

-----------------------------------------------------------------------------
(* How far Response is.                                                    *)

LEMMA TurnStep ==
    ASSUME TypeOK, LoopOK, SessionOK, Next
    PROVE  Turn' = IF ResponseReturn THEN Turn + Batch ELSE Turn
<1>0. Base \in Nat /\ closed \in Nat /\ sent \in Nat
  BY PlaceFacts
<1>1. CASE ResponseReturn
  <2>1. closed' = closed + 1 /\ rpc = "transmit" /\ gone' = gone /\ run' = run
    BY <1>1 DEF ResponseReturn, Resp, Session!Answered, endVars
  <2>2. Base' = Base
    BY <2>1 DEF Base
  <2>3. Base + (closed + 1) = (Base + closed) + 1 /\ Base + closed \in Nat
    BY <1>0
  <2>4. Pos(Base + (closed + 1)) = Pos(Base + closed) + Batch
    BY <2>3, PosFacts
  <2> QED BY <1>1, <2>1, <2>2, <2>4 DEF Turn
<1>2. CASE Restart
  <2>1. gone /\ closed' = 0 /\ rpc' = rpc /\ run' # run /\ ~crashed
    BY <1>2, BatchFacts DEF Restart, Reopen, TypeOK
  <2>2. closed = sent /\ Base' = Base + sent
    BY <1>2, <2>1, LoopRestart DEF SessionOK
  <2>3. Base' + closed' = Base + closed
    BY <1>0, <2>1, <2>2
  <2>4. ~ResponseReturn
    BY <2>1 DEF ResponseReturn, endVars
  <2> QED BY <2>3, <2>4 DEF Turn
<1>3. CASE ~ResponseReturn /\ ~Restart
  <2>1. Base' = Base
    BY <1>3, LoopStep
  <2>2. closed' = closed
    BY <1>3
       DEF Next, TaskLoop, Response, Collect, Request, ReceiveEos, EosRightMove,
           EosTransmit, ResponseCall, PushTask, PushTasksEnd, WaitFuture,
           FutureThrows, WaitEnd, TransmitLock, TransmitPush, DoResponse,
           DoResponseNull, NextModule, NextEnd, PipelineStop, Close, Terminating,
           Session!Accept, Session!Answer, Session!Vanish, sessionVars, vars
  <2> QED BY <1>3, <2>1, <2>2 DEF Turn
<1> QED BY <1>1, <1>2, <1>3

LEMMA CountStep ==
    ASSUME TypeOK, LoopOK, SessionOK, Next
    PROVE  /\ Pushed' = IF PushTask THEN Pushed + 1 ELSE Pushed
           /\ Transmitted' = IF TransmitPush THEN Transmitted + 1 ELSE Transmitted
<1>0. i \in Nat /\ 1 <= i /\ i <= Batch + 1 /\ Batch \in Nat /\ Turn \in Nat
  BY PlaceFacts, BatchFacts
<1>1. CASE ResponseReturn
  <2>1. /\ rpc = "transmit" /\ rpc' = "idle" /\ i > Batch
        /\ Turn' = Turn + Batch
    BY <1>1, TurnStep, FramesFacts DEF ResponseReturn, Resp
  <2>2. ~PushTask /\ ~TransmitPush
    BY <2>1 DEF PushTask, TransmitPush, Resp
  <2> QED BY <1>0, <2>1, <2>2 DEF Pushed, Transmitted
<1> SUFFICES ASSUME ~ResponseReturn
             PROVE  /\ Pushed' = IF PushTask THEN Pushed + 1 ELSE Pushed
                    /\ Transmitted' = IF TransmitPush THEN Transmitted + 1
                                      ELSE Transmitted
  BY <1>1
<1>2. Turn' = Turn
  BY TurnStep
<1>3. CASE PushTask
  <2>1. /\ rpc = "pushTasks" /\ rpc' = "pushTasks" /\ i' = i + 1
    BY <1>3 DEF PushTask, Resp
  <2>2. ~TransmitPush
    BY <2>1 DEF TransmitPush, Resp
  <2> QED BY <1>0, <1>2, <1>3, <2>1, <2>2 DEF Pushed, Transmitted
<1>4. CASE TransmitPush
  <2>1. /\ rpc = "push" /\ rpc' = "transmit" /\ i' = i + 1
    BY <1>4 DEF TransmitPush, Resp
  <2>2. ~PushTask
    BY <2>1 DEF PushTask, Resp
  <2> QED BY <1>0, <1>2, <1>4, <2>1, <2>2 DEF Pushed, Transmitted
<1>5. CASE /\ ~PushTask /\ ~TransmitPush
           /\ Response
  <2>1. CASE ResponseCall
    <3>1. rpc = "idle" /\ rpc' = "pushTasks" /\ i' = 1
      BY <2>1 DEF ResponseCall, Resp
    <3> QED BY <1>0, <1>2, <1>5, <3>1 DEF Pushed, Transmitted
  <2>2. CASE PushTasksEnd
    <3>1. rpc = "pushTasks" /\ rpc' = "wait" /\ i > Batch
      BY <2>2, FramesFacts DEF PushTasksEnd, Resp
    <3> QED BY <1>0, <1>2, <1>5, <3>1 DEF Pushed, Transmitted
  <2>3. CASE WaitFuture \/ FutureThrows \/ WaitEnd \/ TransmitLock
    <3>1. \/ rpc = "wait" /\ rpc' = "wait"
          \/ rpc = "wait" /\ rpc' = "transmit" /\ i' = 1
          \/ rpc = "transmit" /\ rpc' = "push" /\ i' = i
      BY <2>3 DEF WaitFuture, FutureThrows, WaitEnd, TransmitLock, Resp
    <3> QED BY <1>0, <1>2, <1>5, <3>1 DEF Pushed, Transmitted
  <2> QED BY <1>5, <2>1, <2>2, <2>3 DEF Response
<1>6. CASE ~Response
  <2>1. rpc' = rpc /\ i' = i
    BY <1>6
       DEF Next, TaskLoop, Collect, Request, ReceiveEos, EosRightMove,
           EosTransmit, DoResponse, DoResponseNull, NextModule, NextEnd,
           PipelineStop, Close, Restart, Reopen, Terminating, responseVars, vars
  <2> QED BY <1>2, <1>6, <2>1 DEF Pushed, Transmitted, Response
<1> QED BY <1>3, <1>4, <1>5, <1>6

-----------------------------------------------------------------------------
(* What leaves.                                                            *)

LEMMA OutStutter ==
    ASSUME OutOK, UNCHANGED <<taken, queue, lost, Transmitted>>
    PROVE  OutOK'
BY DEF OutOK, Data, Sorted

\* The next frame to be transmitted is behind all that have been.
LEMMA OutPush ==
    ASSUME TypeOK, LoopOK, SessionOK, OutOK, TransmitPush, Next
    PROVE  OutOK'
<1> DEFINE f == frames[i]
           T == Transmitted
<1>1. /\ rpc = "push" /\ Provide(f) /\ taken' = taken
  BY DEF TransmitPush, Resp
<1>2. i \in 1 .. Batch
  BY <1>1, BatchFacts DEF SessionOK, TypeOK
<1>3. f = T + 1 /\ f \in DataFrames
  <2>1. f = Turn + i /\ f \in DataFrames
    BY <1>1, <1>2, FramesFacts
  <2>2. T = Turn + (i - 1) /\ Turn \in Nat
    BY <1>1, PlaceFacts DEF Transmitted
  <2> QED BY <1>2, <2>1, <2>2
<1>4. T \in Nat /\ T' = T + 1
  BY CountStep, PlaceFacts
<1>5. f \in AllFrames /\ f # Eos
  BY <1>3, FrameFacts
<1> HIDE DEF f, T
<1>6. Data(taken) \union Data(queue) \union lost = 1 .. T
  BY DEF OutOK, T
<1>7. /\ Before(Data(taken), {f}) /\ Before(Data(queue), {f})
      /\ 1 .. T' = 1 .. T \union {f}
  BY <1>3, <1>4, <1>6 DEF Before
<1>8. CASE queue' = Append(queue, f) /\ lost' = lost
  <2>1. Sorted(queue') /\ Data(queue') = Data(queue) \union {f}
    <3>1. queue \in Seq(AllFrames) /\ Sorted(queue)
      BY DEF TypeOK, OutOK
    <3>2. /\ Sorted(Append(queue, f))
          /\ Data(Append(queue, f)) = Data(queue) \union ({f} \ {Eos})
      BY <1>5, <1>7, <3>1, SortedAppend
    <3> QED BY <1>5, <1>8, <3>2
  <2>2. Data(taken') = Data(taken) /\ Sorted(taken')
    BY <1>1 DEF OutOK
  <2>3. Before(Data(taken), Data(queue'))
    BY <1>7, <2>1 DEF Before, OutOK
  <2>4. Data(taken) \union Data(queue') \union lost' = 1 .. T'
    BY <1>6, <1>7, <1>8, <2>1
  <2> QED BY <1>8, <2>1, <2>2, <2>3, <2>4 DEF OutOK, T
<1>9. CASE queue' = queue /\ lost' = lost \union {f}
  <2>1. Data(taken) \union Data(queue) \union lost' = 1 .. T'
    BY <1>6, <1>7, <1>9
  <2> QED BY <1>1, <1>9, <2>1 DEF OutOK, T, Data, Sorted
<1>10. \/ queue' = Append(queue, f) /\ lost' = lost
       \/ queue' = queue /\ lost' = lost \union ({f} \ {Eos})
  BY <1>1, <1>5, ProvideFacts
<1> QED BY <1>5, <1>8, <1>9, <1>10

LEMMA OutStep ==
    ASSUME TypeOK, LoopOK, SessionOK, OutOK, EndsOK, Next
    PROVE  OutOK'
<1>1. CASE TransmitPush
  BY <1>1, OutPush
<1> SUFFICES ASSUME ~TransmitPush
             PROVE  OutOK'
  BY <1>1
<1>2. Transmitted' = Transmitted
  BY CountStep
<1>3. CASE UNCHANGED <<taken, queue, lost>>
  BY <1>2, <1>3, OutStutter
<1>4. CASE EosTransmit
  <2>1. Provide(Eos) /\ taken' = taken
    BY <1>4 DEF EosTransmit
  <2>2. \/ queue' = Append(queue, Eos) /\ lost' = lost
        \/ queue' = queue /\ lost' = lost
    BY <2>1, FrameFacts, ProvideFacts
  <2>3. CASE queue' = Append(queue, Eos) /\ lost' = lost
    <3>1. queue \in Seq(AllFrames) /\ Sorted(queue) /\ Eos \in AllFrames
      BY FrameFacts DEF TypeOK, OutOK
    <3>2. Sorted(queue') /\ Data(queue') = Data(queue)
      BY <2>3, <3>1, SortedAppend
    <3>3. Data(taken') = Data(taken) /\ Sorted(taken')
      BY <2>1 DEF OutOK
    <3> QED BY <1>2, <2>3, <3>2, <3>3 DEF OutOK
  <2> QED BY <1>3, <2>1, <2>2, <2>3
<1>5. ASSUME NextPop
      PROVE  /\ Sorted(queue') /\ Head(queue) \in AllFrames
             /\ Data(queue) = ({Head(queue)} \ {Eos}) \union Data(queue')
             /\ Head(queue) # Eos => Before({Head(queue)}, Data(queue'))
             /\ Head(queue) \in ToSet(queue)
  <2>1. /\ queue # << >> /\ queue' = Tail(queue) /\ queue \in Seq(AllFrames)
        /\ Sorted(queue)
    BY <1>5 DEF NextPop, TypeOK, OutOK
  <2> QED BY <2>1, TailFacts, SortedTail
<1>6. CASE NextModule
  <2>1. NextPop /\ taken' = Append(taken, Head(queue)) /\ lost' = lost
    BY <1>6 DEF NextModule
  <2> DEFINE h == Head(queue)
  <2>2. /\ Sorted(taken') /\ Data(taken') = Data(taken) \union ({h} \ {Eos})
    <3>1. h = Eos \/ Before(Data(taken), {h})
      BY <1>5, <2>1 DEF OutOK, Before
    <3>2. taken \in Seq(AllFrames) /\ Sorted(taken) /\ h \in AllFrames
      BY <1>5, <2>1 DEF TypeOK, OutOK
    <3> QED BY <2>1, <3>1, <3>2, SortedAppend
  <2> HIDE DEF h
  <2>3. Before(Data(taken'), Data(queue'))
    BY <1>5, <2>1, <2>2 DEF OutOK, Before, h
  <2>4. Data(taken') \union Data(queue') \union lost = 1 .. Transmitted
    BY <1>5, <2>1, <2>2 DEF OutOK, h
  <2> QED BY <1>2, <1>5, <2>1, <2>2, <2>3, <2>4 DEF OutOK
<1>7. CASE NextEnd
  <2>1. Eos \notin ToSet(queue) /\ taken' = taken
    BY <1>7, NoEosLeft DEF NextEnd, EndsOK
  <2>2. CASE NextPop /\ lost' = lost \union {Head(queue)}
    <3>1. Head(queue) # Eos
      BY <1>5, <2>1, <2>2
    <3>2. /\ Before(Data(taken), Data(queue'))
          /\ Data(taken) \union Data(queue') \union lost' = 1 .. Transmitted
      BY <1>5, <2>2, <3>1 DEF OutOK, Before
    <3>3. Data(taken') = Data(taken) /\ Sorted(taken')
      BY <2>1 DEF OutOK
    <3> QED BY <1>2, <1>5, <2>2, <3>2, <3>3 DEF OutOK
  <2> QED BY <1>3, <1>7, <2>1, <2>2 DEF NextEnd
<1>8. CASE PipelineStop
  <2>1. /\ queue' = << >> /\ lost' = lost \union ToSet(queue) /\ taken' = taken
        /\ Eos \notin ToSet(queue)
    BY <1>8, NoEosLeft DEF PipelineStop
  <2>2. Data(queue) = ToSet(queue) /\ Data(queue') = {} /\ Sorted(queue')
    BY <2>1 DEF Data, ToSet, Sorted
  <2>3. Data(taken') = Data(taken) /\ Sorted(taken')
    BY <2>1 DEF OutOK
  <2>4. Data(taken) \union Data(queue') \union lost' = 1 .. Transmitted
    BY <2>1, <2>2 DEF OutOK
  <2> QED BY <1>2, <2>2, <2>3, <2>4 DEF OutOK, Before
<1> QED
  BY <1>3, <1>4, <1>6, <1>7, <1>8
     DEF Next, TaskLoop, Response, Collect, Request, ReceiveEos, EosRightMove,
         ResponseCall, PushTask, PushTasksEnd, WaitFuture, FutureThrows, WaitEnd,
         TransmitLock, ResponseReturn, DoResponse, DoResponseNull, Close, Restart,
         Reopen, Terminating, nextVars, vars

-----------------------------------------------------------------------------
(* The tasks of the pool.                                                  *)

StatusKept == \A f \in DataFrames : status[f] \in {"done", "threw"} => status'[f] = status[f]

LEMMA SettledStays ==
    ASSUME TypeOK, LoopOK, StatusKept, NEW k \in 1 .. sent,
           packages'[k] = packages[k], Settled(k)
    PROVE  Settled(k)'
<1>1. ToSet(packages[k]) \subseteq DataFrames
  BY PackageFacts
<1> QED BY <1>1 DEF Settled, StatusKept

\* What the last parts of PoolOK say stays when a task goes on.
LEMMA PoolMoves ==
    ASSUME TypeOK, LoopOK, SessionOK, PoolOK, StatusKept,
           UNCHANGED <<packages, sent, closed, answering>>,
           rpc' = rpc, rpc = "wait" => i' = i
    PROVE  /\ rpc' = "wait" => \A j \in 1 .. i' - 1 : status'[frames'[j]] = "done"
           /\ \A k \in 1 .. sent' :
                 (k <= closed' \/ (k = closed' + 1 /\ rpc' \in {"transmit", "push"}))
                     => Settled(k)'
<1>1. ASSUME rpc = "wait", NEW j \in 1 .. i - 1
      PROVE  status'[frames[j]] = "done"
  <2>1. j \in 1 .. Batch
    BY PlaceFacts, BatchFacts
  <2>2. frames[j] \in DataFrames
    BY <1>1, <2>1, FramesFacts
  <2> QED BY <1>1, <2>2 DEF PoolOK, StatusKept
<1>2. frames' = frames
  BY DEF frames
<1>3. ASSUME NEW k \in 1 .. sent, Settled(k)
      PROVE  Settled(k)'
  BY <1>3, SettledStays
<1> QED BY <1>1, <1>2, <1>3 DEF PoolOK

LEMMA PoolPush ==
    ASSUME TypeOK, LoopOK, SessionOK, PoolOK, PushTask, Next
    PROVE  PoolOK'
<1> DEFINE t == frames[i]
<1>1. /\ rpc = "pushTasks" /\ rpc' = "pushTasks" /\ i <= Batch
      /\ status[t] = "new" /\ pending' = Append(pending, t)
      /\ status' = [status EXCEPT ![t] = "pending"]
      /\ UNCHANGED <<empty, packages, sent, closed, answering>>
  BY FramesFacts DEF PushTask, Resp, Pool!Submit, loopVars, sessionVars
<1>2. t \in DataFrames /\ t = Pushed + 1 /\ Pushed' = Pushed + 1
  <2>1. i \in 1 .. Batch
    BY <1>1, PlaceFacts
  <2>2. t \in DataFrames /\ t = Turn + i
    BY <1>1, <2>1, FramesFacts
  <2>3. Pushed = Turn + (i - 1) /\ Turn \in Nat
    BY <1>1, PlaceFacts DEF Pushed
  <2> QED BY <2>1, <2>2, <2>3, CountStep
<1> HIDE DEF t
<1>3. /\ Len(pending') = Len(pending) + 1 /\ pending'[Len(pending) + 1] = t
      /\ \A k \in 1 .. Len(pending) : pending'[k] = pending[k]
      /\ DOMAIN pending' = 1 .. Len(pending) + 1
      /\ DOMAIN pending = 1 .. Len(pending) /\ Len(pending) \in Nat
      /\ \A k \in DOMAIN pending : pending[k] \in DataFrames
  BY <1>1, <1>2, AppendFacts DEF TypeOK
<1>4. /\ status'[t] = "pending"
      /\ \A f \in DataFrames \ {t} : status'[f] = status[f]
  BY <1>1, <1>2 DEF TypeOK
<1>5. \A k \in DOMAIN pending : status[pending[k]] = "pending" /\ pending[k] # t
  BY <1>1 DEF PoolOK
<1>6. \A k \in DOMAIN pending' : status'[pending'[k]] = "pending"
  <2> SUFFICES ASSUME NEW k \in DOMAIN pending'
               PROVE  status'[pending'[k]] = "pending"
    OBVIOUS
  <2>1. k = Len(pending) + 1 \/ k \in DOMAIN pending
    BY <1>3
  <2> QED BY <1>3, <1>4, <1>5, <2>1
<1>7. \A j, k \in DOMAIN pending' : pending'[j] = pending'[k] => j = k
  <2> SUFFICES ASSUME NEW j \in DOMAIN pending', NEW k \in DOMAIN pending',
                      pending'[j] = pending'[k]
               PROVE  j = k
    OBVIOUS
  <2>1. j = Len(pending) + 1 \/ j \in DOMAIN pending
    BY <1>3
  <2>2. k = Len(pending) + 1 \/ k \in DOMAIN pending
    BY <1>3
  <2>3. \A m, n \in DOMAIN pending : pending[m] = pending[n] => m = n
    BY DEF PoolOK
  <2> QED BY <1>3, <1>5, <2>1, <2>2, <2>3
<1>8. \A f \in empty' : status'[f] \in {"new", "pending"}
  <2>1. empty \subseteq DataFrames
    BY DEF TypeOK
  <2> QED BY <1>1, <1>4, <2>1 DEF PoolOK
<1>9. \A f \in DataFrames : f > Pushed' => status'[f] = "new"
  <2> SUFFICES ASSUME NEW f \in DataFrames, f > Pushed + 1
               PROVE  status'[f] = "new"
    BY <1>2
  <2>1. Pushed \in Nat /\ f \in Nat
    BY PlaceFacts, FrameFacts
  <2>2. f # t /\ f > Pushed
    BY <1>2, <2>1
  <2> QED BY <1>4, <2>2 DEF PoolOK
<1>10. StatusKept
  BY <1>1, <1>4 DEF StatusKept
<1>11. \A k \in 1 .. sent' :
          (k <= closed' \/ (k = closed' + 1 /\ rpc' \in {"transmit", "push"}))
              => Settled(k)'
  BY <1>1, <1>10, PoolMoves
<1> QED BY <1>1, <1>6, <1>7, <1>8, <1>9, <1>11 DEF PoolOK

LEMMA PoolBegin ==
    ASSUME TypeOK, LoopOK, SessionOK, PoolOK, DoResponse, Next,
           pending # << >>, Head(pending) \notin empty, Pool!Begin
    PROVE  PoolOK'
<1> DEFINE t == Head(pending)
<1>1. /\ pending' = Tail(pending) /\ t \in DataFrames
      /\ status' = [status EXCEPT ![t] = "running"]
  BY BeginFacts
<1>2. UNCHANGED <<empty, packages, sent, closed, answering, rpc, i>>
  BY DEF DoResponse, loopVars, sessionVars, responseVars
<1>3. /\ t = pending[1] /\ Len(pending) \in Nat \ {0}
      /\ Len(pending') = Len(pending) - 1 /\ pending' \in Seq(DataFrames)
      /\ \A j \in 1 .. Len(pending) - 1 : pending'[j] = pending[j + 1]
      /\ DOMAIN pending = 1 .. Len(pending)
  BY <1>1, TailFacts DEF TypeOK
<1>4. t \notin empty
  OBVIOUS
<1> HIDE DEF t
<1>5. \A j \in DOMAIN pending' : /\ j \in Nat /\ j + 1 \in DOMAIN pending /\ j + 1 # 1
                                 /\ pending'[j] = pending[j + 1]
                                 /\ pending'[j] \in DataFrames
  BY <1>3
<1>6. 1 \in DOMAIN pending /\ status[t] = "pending"
  BY <1>3 DEF PoolOK
<1>7. /\ status'[t] = "running"
      /\ \A f \in DataFrames \ {t} : status'[f] = status[f]
  BY <1>1 DEF TypeOK
<1>8. \A j, k \in DOMAIN pending : pending[j] = pending[k] => j = k
  BY DEF PoolOK
<1>9. \A j \in DOMAIN pending' : status'[pending'[j]] = "pending"
  <2> SUFFICES ASSUME NEW j \in DOMAIN pending'
               PROVE  status'[pending'[j]] = "pending"
    OBVIOUS
  <2>1. pending'[j] # t
    BY <1>3, <1>5, <1>6, <1>8
  <2> QED BY <1>5, <1>7, <2>1 DEF PoolOK
<1>10. \A j, k \in DOMAIN pending' : pending'[j] = pending'[k] => j = k
  <2> SUFFICES ASSUME NEW j \in DOMAIN pending', NEW k \in DOMAIN pending',
                      pending'[j] = pending'[k]
               PROVE  j = k
    OBVIOUS
  <2>1. j + 1 = k + 1 /\ j \in Nat /\ k \in Nat
    BY <1>5, <1>8
  <2> QED BY <2>1
<1>11. \A f \in empty' : status'[f] \in {"new", "pending"}
  <2>1. empty \subseteq DataFrames
    BY DEF TypeOK
  <2> QED BY <1>2, <1>4, <1>7, <2>1 DEF PoolOK
<1>12. \A f \in DataFrames : f > Pushed' => status'[f] = "new"
  <2>1. Pushed' = Pushed
    BY <1>2 DEF DoResponse, Pushed, Turn, Base, endVars
  <2>2. ~(t > Pushed)
    BY <1>1, <1>6 DEF PoolOK
  <2> QED BY <1>7, <2>1, <2>2 DEF PoolOK
<1>13. StatusKept
  BY <1>6, <1>7 DEF StatusKept
<1>14. /\ rpc' = "wait" => \A j \in 1 .. i' - 1 : status'[frames'[j]] = "done"
       /\ \A k \in 1 .. sent' :
             (k <= closed' \/ (k = closed' + 1 /\ rpc' \in {"transmit", "push"}))
                 => Settled(k)'
  BY <1>2, <1>13, PoolMoves
<1> QED BY <1>9, <1>10, <1>11, <1>12, <1>14 DEF PoolOK

LEMMA PoolEnd ==
    ASSUME TypeOK, LoopOK, SessionOK, PoolOK, DoResponse, Next,
           NEW t \in DataFrames, Pool!End(t)
    PROVE  PoolOK'
<1>1. /\ status[t] = "running" /\ pending' = pending
      /\ status'[t] \in {"done", "threw"}
      /\ \A f \in DataFrames \ {t} : status'[f] = status[f]
  BY DEF Pool!End, TypeOK
<1>2. UNCHANGED <<empty, packages, sent, closed, answering, rpc, i, run>>
  BY DEF DoResponse, loopVars, sessionVars, responseVars, endVars
<1>3. Pushed' = Pushed
  BY <1>2 DEF Pushed, Turn, Base
<1>4. \A k \in DOMAIN pending : pending[k] \in DataFrames /\ pending[k] # t
  BY <1>1 DEF PoolOK, TypeOK
<1>5. empty \subseteq DataFrames /\ t \notin empty
  BY <1>1 DEF TypeOK, PoolOK
<1>6. StatusKept
  BY <1>1 DEF StatusKept
<1>7. /\ rpc' = "wait" => \A j \in 1 .. i' - 1 : status'[frames'[j]] = "done"
      /\ \A k \in 1 .. sent' :
            (k <= closed' \/ (k = closed' + 1 /\ rpc' \in {"transmit", "push"}))
                => Settled(k)'
  BY <1>2, <1>6, PoolMoves
<1>8. \A k \in DOMAIN pending' : status'[pending'[k]] = "pending"
  BY <1>1, <1>4 DEF PoolOK
<1>9. \A j, k \in DOMAIN pending' : pending'[j] = pending'[k] => j = k
  BY <1>1 DEF PoolOK
<1>10. \A f \in empty' : status'[f] \in {"new", "pending"}
  BY <1>1, <1>2, <1>5 DEF PoolOK
<1>11. \A f \in DataFrames : f > Pushed' => status'[f] = "new"
  BY <1>1, <1>3 DEF PoolOK
<1> QED BY <1>7, <1>8, <1>9, <1>10, <1>11 DEF PoolOK

\* Response learns what became of its tasks.
LEMMA PoolResponse ==
    ASSUME TypeOK, LoopOK, SessionOK, PoolOK, Response, ~PushTask, Next
    PROVE  PoolOK'
<1>0. /\ Pushed' = Pushed /\ i \in Nat /\ 1 <= i /\ i <= Batch + 1
      /\ closed \in Nat /\ sent \in Nat
  BY CountStep, PlaceFacts
<1>1. UNCHANGED <<pending, status, packages, sent>>
  BY DEF Response, ResponseCall, PushTasksEnd, WaitFuture, FutureThrows, WaitEnd,
         TransmitLock, TransmitPush, ResponseReturn, Session!Answer,
         Session!Answered, loopVars, sessionVars, poolVars
<1>2. ASSUME NEW k
      PROVE  Settled(k)' = Settled(k)
  BY <1>1 DEF Settled
<1>3. CASE ResponseCall
  <2>1. /\ rpc = "idle" /\ rpc' = "pushTasks" /\ closed' = closed
        /\ closed + 1 \in 1 .. sent
        /\ \E failed \in SUBSET ToSet(packages[closed + 1]) :
              empty' = empty \union failed
    BY <1>0, <1>3 DEF ResponseCall, Resp, Session!Answer
  <2>2. \A f \in ToSet(packages[closed + 1]) : status[f] = "new"
    <3>1. /\ DOMAIN packages[closed + 1] = 1 .. Batch
          /\ \A j \in 1 .. Batch : packages[closed + 1][j] = Pos(Base + (closed + 1) - 1) + j
          /\ ToSet(packages[closed + 1]) \subseteq DataFrames
      BY <2>1, PackageFacts
    <3>2. Base + (closed + 1) - 1 = Base + closed /\ Pushed = Turn /\ Turn \in Nat
      BY <2>1, PlaceFacts DEF Pushed
    <3>3. \A j \in 1 .. Batch : packages[closed + 1][j] > Pushed
      BY <3>1, <3>2 DEF Turn
    <3>4. \A f \in ToSet(packages[closed + 1]) : f > Pushed
      BY <3>1, <3>3 DEF ToSet
    <3> QED BY <3>1, <3>4 DEF PoolOK
  <2>3. \A f \in empty' : status[f] \in {"new", "pending"}
    BY <2>1, <2>2 DEF PoolOK
  <2> QED BY <1>0, <1>1, <1>2, <2>1, <2>3 DEF PoolOK
<1>4. CASE ~ResponseCall
  <2>1. empty' = empty /\ rpc # "idle"
    BY <1>4 DEF Response, PushTasksEnd, WaitFuture, FutureThrows, WaitEnd,
                TransmitLock, TransmitPush, ResponseReturn, Resp
  <2>2. /\ frames \in Seq(DataFrames) /\ Len(frames) = Batch
        /\ frames = packages[closed + 1]
        /\ ToSet(frames) = {frames[j] : j \in 1 .. Batch}
    BY <2>1, FramesFacts
  <2>3. CASE ResponseReturn
    <3>1. rpc = "transmit" /\ rpc' = "idle" /\ closed' = closed + 1
      BY <2>3 DEF ResponseReturn, Resp, Session!Answered
    <3> QED BY <1>0, <1>1, <1>2, <2>1, <3>1 DEF PoolOK
  <2>4. CASE ~ResponseReturn
    <3>1. closed' = closed /\ frames' = frames
      BY <1>4, <2>4 DEF Response, PushTasksEnd, WaitFuture, FutureThrows, WaitEnd,
                        TransmitLock, TransmitPush, sessionVars, loopVars, frames
    <3>2. rpc' = "wait" => \A j \in 1 .. i' - 1 : status[frames[j]] = "done"
      <4>1. CASE PushTasksEnd
        <5>1. 1 .. i' - 1 = {}
          BY <4>1 DEF PushTasksEnd
        <5> QED BY <5>1
      <4>2. CASE WaitFuture
        <5>1. /\ rpc = "wait" /\ status[frames[i]] = "done" /\ i' = i + 1
          BY <4>2 DEF WaitFuture, Resp
        <5>2. \A j \in 1 .. i' - 1 : j = i \/ j \in 1 .. i - 1
          BY <1>0, <5>1
        <5> QED BY <5>1, <5>2 DEF PoolOK
      <4>3. CASE FutureThrows \/ WaitEnd \/ TransmitLock \/ TransmitPush
        BY <4>3 DEF FutureThrows, WaitEnd, TransmitLock, TransmitPush, Resp
      <4> QED BY <1>4, <2>4, <4>1, <4>2, <4>3 DEF Response
    <3>3. rpc' \in {"transmit", "push"} => Settled(closed + 1)
      <4>1. CASE TransmitLock \/ TransmitPush
        <5>1. rpc \in {"transmit", "push"} /\ closed + 1 \in 1 .. sent
          BY <2>1, <4>1, FramesFacts DEF TransmitLock, TransmitPush, Resp
        <5> QED BY <5>1 DEF PoolOK
      <4>2. CASE FutureThrows
        <5>1. i \in 1 .. Batch /\ status[frames[i]] = "threw"
          BY <1>0, <2>2, <4>2 DEF FutureThrows
        <5> QED BY <2>2, <5>1 DEF Settled
      <4>3. CASE WaitEnd
        <5>1. rpc = "wait" /\ i > Batch
          BY <2>2, <4>3 DEF WaitEnd, Resp
        <5>2. \A j \in 1 .. Batch : j \in 1 .. i - 1
          BY <1>0, <5>1, BatchFacts
        <5>3. \A j \in 1 .. Batch : status[frames[j]] = "done"
          BY <5>1, <5>2 DEF PoolOK
        <5> QED BY <2>2, <5>3 DEF Settled
      <4>4. CASE PushTasksEnd \/ WaitFuture
        BY <4>4 DEF PushTasksEnd, WaitFuture, Resp
      <4> QED BY <1>4, <2>4, <4>1, <4>2, <4>3, <4>4 DEF Response
    <3> QED BY <1>0, <1>1, <1>2, <2>1, <3>1, <3>2, <3>3 DEF PoolOK
  <2> QED BY <2>3, <2>4
<1> QED BY <1>3, <1>4

LEMMA PoolRestart ==
    ASSUME TypeOK, LoopOK, SessionOK, PoolOK, Restart
    PROVE  PoolOK'
<1>1. /\ gone /\ pending' = << >> /\ status' = [f \in DataFrames |-> "new"]
      /\ empty' = {} /\ sent' = 0 /\ rpc' = rpc
  BY DEF Restart, Reopen
<1>2. rpc = "idle"
  BY <1>1, PlaceFacts DEF SessionOK
<1> QED BY <1>1, <1>2 DEF PoolOK

LEMMA PoolStep ==
    ASSUME TypeOK, LoopOK, SessionOK, PoolOK, Next
    PROVE  PoolOK'
<1>1. CASE Request
  <2>1. /\ packages' = Append(packages, batch_array) /\ sent' = sent + 1
        /\ UNCHANGED <<pending, status, empty, rpc, i, closed, answering, run>>
    BY <1>1 DEF Request, Session!Accept, responseVars, poolVars, endVars
  <2>2. \A k \in 1 .. sent : packages'[k] = packages[k]
    <3> DEFINE S == Seq(DataFrames)
    <3>1. packages \in Seq(S) /\ batch_array \in S /\ Len(packages) = sent
      BY DEF TypeOK, LoopOK
    <3> HIDE DEF S
    <3> QED BY <2>1, <3>1, AppendFacts
  <2>3. Pushed' = Pushed
    BY <2>1 DEF Pushed, Turn, Base
  <2>4. rpc # "idle" => frames' = frames
    BY <2>1, <2>2, FramesFacts DEF frames
  <2>5. ASSUME NEW k \in 1 .. sent
        PROVE  Settled(k)' = Settled(k)
    BY <2>1, <2>2 DEF Settled
  <2>6. \A k \in 1 .. sent' :
           (k <= closed \/ (k = closed + 1 /\ rpc \in {"transmit", "push"}))
               => k \in 1 .. sent
    <3>1. rpc # "idle" => closed < sent
      BY DEF SessionOK
    <3> QED BY <2>1, <3>1, PlaceFacts
  <2> QED BY <2>1, <2>3, <2>4, <2>5, <2>6 DEF PoolOK
<1>2. CASE UNCHANGED <<pending, status, empty, rpc, i, packages, sent, closed,
                       answering, run>>
  <2>1. Pushed' = Pushed /\ frames' = frames
    BY <1>2 DEF Pushed, Turn, Base, frames
  <2>2. ASSUME NEW k
        PROVE  Settled(k)' = Settled(k)
    BY <1>2 DEF Settled
  <2> QED BY <1>2, <2>1, <2>2 DEF PoolOK
<1>3. CASE DoResponse
  BY <1>3, PoolBegin, PoolEnd DEF DoResponse
<1>4. CASE Collect \/ ReceiveEos \/ EosRightMove \/ EosTransmit
  BY <1>2, <1>4 DEF Collect, ReceiveEos, EosRightMove, EosTransmit, sessionVars,
                    responseVars, poolVars, endVars
<1>5. CASE DoResponseNull \/ NextModule \/ NextEnd \/ PipelineStop \/ Close
           \/ Terminating
  BY <1>2, <1>5 DEF DoResponseNull, NextModule, NextEnd, PipelineStop, Close,
                    Terminating, Session!Vanish, loopVars, sessionVars,
                    responseVars, poolVars, endVars, vars
<1> QED BY <1>1, <1>3, <1>4, <1>5, PoolPush, PoolResponse, PoolRestart
        DEF Next, TaskLoop

-----------------------------------------------------------------------------
(* The invariant holds.                                                    *)

LEMMA InitIInv == Init => IInv
<1> SUFFICES ASSUME Init PROVE IInv
  OBVIOUS
<1>1. TypeOK
  BY InitTypeOK
<1>2. /\ run = 1 /\ fed = 0 /\ lpc = "loop" /\ batch_array = << >>
      /\ packages = << >> /\ rpc = "idle" /\ i = 1 /\ empty = {}
      /\ queue = << >> /\ taken = << >> /\ through = 0 /\ lost = {}
      /\ stopped = FALSE
      /\ sent = 0 /\ closed = 0 /\ answering = 0 /\ gone = FALSE
      /\ pending = << >> /\ status = [f \in DataFrames |-> "new"]
  BY DEF Init, Session!ResponsesInit, Pool!PoolInit
<1>3. Base = 0
  <2>1. (run - 1) * F = 0
    BY <1>2, BatchFacts
  <2>2. 0 \in 0 .. Batch - 1 /\ Pos(0) + 0 = 0
    BY BatchFacts, PosFacts
  <2>3. (Pos(0) + 0) \div Batch = 0
    BY <2>2, DivPos
  <2> QED BY <2>1, <2>2, <2>3 DEF Base
<1>4. Pos(Base + sent) = 0 /\ Pos(Base + closed) = 0
  BY <1>2, <1>3, PosFacts
<1>5. run * F \in Nat
  BY <1>1, BaseFacts DEF TypeOK
<1>6. /\ Len(packages) = 0 /\ Len(batch_array) = 0
      /\ DOMAIN queue = {} /\ DOMAIN taken = {} /\ DOMAIN pending = {}
  BY <1>2
<1>7. 1 .. 0 = {} /\ Batch # 0
  BY BatchFacts
<1>8. LoopOK
  BY <1>2, <1>4, <1>5, <1>6, <1>7 DEF LoopOK
<1>9. SessionOK
  BY <1>2 DEF SessionOK
<1>10. PoolOK
  BY <1>2, <1>6, <1>7 DEF PoolOK
<1>11. OutOK
  <2>1. Transmitted = 0
    BY <1>2, <1>4 DEF Transmitted, Turn
  <2>2. ToSet(taken) = {} /\ ToSet(queue) = {}
    BY <1>6 DEF ToSet
  <2> QED BY <1>2, <1>6, <1>7, <2>1, <2>2 DEF OutOK, Sorted, Before, Data
<1>12. EndsOK
  <2>1. ToSet(queue) = {}
    BY <1>6 DEF ToSet
  <2> QED BY <1>2, <1>6, <2>1 DEF EndsOK
<1> QED BY <1>1, <1>8, <1>9, <1>10, <1>11, <1>12 DEF IInv

LEMMA NextIInv == IInv /\ [Next]_vars => IInv'
<1> SUFFICES ASSUME IInv, [Next]_vars PROVE IInv'
  OBVIOUS
<1>1. CASE Next
  BY <1>1, TypeStep, LoopStep, SessionOKStep, PoolStep, OutStep, EndsStep
     DEF IInv
<1>2. CASE UNCHANGED vars
  <2>1. TypeOK' /\ LoopOK' /\ SessionOK'
    BY <1>2 DEF IInv, vars, TypeOK, LoopOK, SessionOK, Base, Pos
  <2>2. PoolOK'
    BY <1>2 DEF IInv, vars, PoolOK, Pushed, Turn, Base, Pos, Settled, frames
  <2>3. OutOK' /\ EndsOK'
    BY <1>2 DEF IInv, vars, OutOK, EndsOK, Transmitted, Turn, Base, Pos,
                Sorted, Before, Data
  <2> QED BY <2>1, <2>2, <2>3 DEF IInv
<1> QED BY <1>1, <1>2

-----------------------------------------------------------------------------
(* What follows from it.                                                   *)

\* The frames up to a run's last fill whole batches, but for the carried ones.
LEMMA RunFacts ==
    ASSUME TypeOK, LoopOK, fed = run * F, lpc # "request"
    PROVE  /\ Len(batch_array) = Carried(run)
           /\ sent = (Carried(run - 1) + F) \div Batch
           /\ run * F = Pos(Base + sent) + Carried(run)
           /\ Carried(run) \in 0 .. Batch - 1
<1>1. /\ run \in 1 .. Runs /\ sent \in Nat /\ Len(batch_array) \in Nat
      /\ Len(batch_array) <= Batch
      /\ fed = Pos(Base + sent) + Len(batch_array)
      /\ Len(batch_array) # Batch
  BY DEF TypeOK, LoopOK
<1>2. /\ Base \in Nat /\ run * F \in Nat /\ (run - 1) * F \in Nat
      /\ run * F = (run - 1) * F + F
      /\ Carried(run - 1) \in 0 .. Batch - 1
      /\ (run - 1) * F = Pos(Base) + Carried(run - 1)
  BY <1>1, BaseFacts
<1> DEFINE r == Len(batch_array)
           x == run * F
           y == (run - 1) * F
           c == Carried(run - 1)
<1>3. r \in 0 .. Batch - 1 /\ x = Pos(Base + sent) + r
  BY <1>1, BatchFacts
<1>4. x % Batch = r
  <2> HIDE DEF x, r
  <2>1. Base + sent \in Nat
    BY <1>1, <1>2
  <2> QED BY <1>3, <2>1, DivPos
<1>5. Carried(run) = r
  BY <1>4 DEF Carried
<1>6. Pos(Base + sent) = Pos(Base) + Pos(sent)
  BY <1>1, <1>2, PosFacts
<1>7. c + F = Pos(sent) + r
  <2>1. /\ y = Pos(Base) + c /\ x = y + F /\ x \in Nat /\ y \in Nat
        /\ c \in 0 .. Batch - 1
    BY <1>2
  <2>2. Pos(Base) \in Nat /\ Pos(sent) \in Nat
    BY <1>1, <1>2, PosFacts
  <2> HIDE DEF x, y, c, r
  <2> QED BY <1>3, <1>6, <2>1, <2>2, BatchFacts
<1>8. (c + F) \div Batch = sent
  <2> HIDE DEF r
  <2> QED BY <1>1, <1>3, <1>7, DivPos
<1> QED BY <1>1, <1>3, <1>5, <1>8

LEMMA OutIsOrdered == IInv => OutInOrder
<1> SUFFICES ASSUME IInv PROVE OutInOrder
  OBVIOUS
<1> USE DEF IInv
<1>1. /\ taken \in Seq(AllFrames) /\ queue \in Seq(AllFrames)
      /\ Sorted(taken) /\ Sorted(queue) /\ Before(Data(taken), Data(queue))
  BY DEF TypeOK, OutOK
<1>2. Sorted(taken \o queue)
  BY <1>1, SortedConcat
<1>3. out = taken \o queue /\ DOMAIN out = 1 .. Len(out)
  BY <1>1, ConcatFacts DEF out
<1>4. \A j, k \in 1 .. Len(out) :
          j < k /\ out[j] # Eos /\ out[k] # Eos => out[j] < out[k]
  BY <1>2, <1>3 DEF Sorted
<1>5. ASSUME through = run \/ Eos \in ToSet(queue)
      PROVE  sent = (Carried(run - 1) + F) \div Batch
  <2>1. lpc = "end"
    <3>1. run \in Nat /\ run # run - 1
      BY BatchFacts DEF TypeOK
    <3> QED BY <1>5, <3>1 DEF EndsOK
  <2>2. fed = run * F /\ lpc # "request"
    BY <2>1 DEF LoopOK
  <2> QED BY <2>2, RunFacts
<1> QED BY <1>4, <1>5 DEF OutInOrder

LEMMA RemainderIsHeld == IInv => OnlyRemainderHeld
<1> SUFFICES ASSUME IInv, fed = run * F, lpc # "request", closed = sent
             PROVE  1 .. fed \ (ToSet(out) \union lost) = Remainder
  BY DEF OnlyRemainderHeld
<1> USE DEF IInv
<1>1. /\ run * F = Pos(Base + sent) + Carried(run)
      /\ Carried(run) \in 0 .. Batch - 1
  BY RunFacts
<1>2. rpc = "idle"
  BY DEF SessionOK, TypeOK
<1>3. Transmitted = Pos(Base + sent) /\ Pos(Base + sent) \in Nat
  BY <1>2, PlaceFacts DEF Transmitted, Turn
<1>4. Data(taken) \union Data(queue) \union lost = 1 .. Pos(Base + sent)
  BY <1>3 DEF OutOK
<1>5. ToSet(out) = ToSet(taken) \union ToSet(queue)
  <2>1. /\ taken \in Seq(AllFrames) /\ queue \in Seq(AllFrames)
        /\ Sorted(taken) /\ Sorted(queue) /\ Before(Data(taken), Data(queue))
    BY DEF TypeOK, OutOK
  <2> QED BY <2>1, SortedConcat DEF out
<1>6. \A f \in 1 .. fed :
          f \in ToSet(out) \union lost <=> f \in 1 .. Pos(Base + sent)
  BY <1>4, <1>5 DEF Data, Eos
<1> DEFINE x == run * F
           p == Pos(Base + sent)
           c == Carried(run)
<1>7. x = p + c /\ c \in 0 .. Batch - 1 /\ p \in Nat /\ fed = x
  BY <1>1, <1>3
<1>8. x \in 0 .. Runs * F
  BY DEF TypeOK
<1>9. Remainder = {f \in DataFrames : f <= x /\ f > x - c}
  BY DEF Remainder
<1> HIDE DEF x, p, c
<1>10. 1 .. x \ 1 .. p = {f \in 1 .. Runs * F : f <= x /\ f > x - c}
  <2> DEFINE N == Runs * F
  <2>1. N \in Nat
    BY BatchFacts
  <2> HIDE DEF N
  <2>2. x \in 0 .. N
    BY <1>8 DEF N
  <2>3. 1 .. x \ 1 .. p = {f \in 1 .. N : f <= x /\ f > x - c}
    BY <1>7, <2>1, <2>2, BatchFacts
  <2> QED BY <2>3 DEF N
<1>11. 1 .. fed \ (ToSet(out) \union lost) = 1 .. x \ 1 .. p
  BY <1>6, <1>7 DEF p
<1> QED BY <1>9, <1>10, <1>11 DEF DataFrames

\* A frame that has left belongs to a request that the workers are through with.
LEMMA LeftIsSettled ==
    ASSUME IInv, NEW k \in 1 .. sent, NEW f \in ToSet(packages[k]), f \in ToSet(out)
    PROVE  Settled(k)
<1> USE DEF IInv
<1>1. /\ DOMAIN packages[k] = 1 .. Batch
      /\ \A j \in 1 .. Batch : packages[k][j] = Pos(Base + k - 1) + j
      /\ ToSet(packages[k]) \subseteq DataFrames
  BY PackageFacts
<1>2. PICK j \in 1 .. Batch : f = Pos(Base + k - 1) + j
  BY <1>1 DEF ToSet
<1>3. f <= Transmitted
  <2>1. /\ taken \in Seq(AllFrames) /\ queue \in Seq(AllFrames)
        /\ Sorted(taken) /\ Sorted(queue) /\ Before(Data(taken), Data(queue))
    BY DEF TypeOK, OutOK
  <2>2. ToSet(out) = ToSet(taken) \union ToSet(queue)
    BY <2>1, SortedConcat DEF out
  <2>3. f # Eos
    BY <1>1, FrameFacts
  <2>4. f \in 1 .. Transmitted
    BY <2>2, <2>3 DEF OutOK, Data
  <2> QED BY <2>4, PlaceFacts
<1>4. /\ Base \in Nat /\ closed \in Nat /\ Turn \in Nat /\ Transmitted \in Nat
      /\ Transmitted <= Turn + Batch /\ k \in Nat /\ k >= 1
  BY PlaceFacts
<1>5. k <= closed + 1
  <2> SUFFICES ASSUME k > closed + 1 PROVE FALSE
    BY <1>4
  <2> DEFINE m == Base + closed
             n == Base + k - 1
  <2>1. m \in Nat /\ n \in Nat /\ m < n
    BY <1>4
  <2> HIDE DEF m, n
  <2>2. Pos(m) + Batch <= Pos(n) /\ Pos(m) \in Nat /\ Pos(n) \in Nat
    BY <2>1, PosFacts
  <2>3. f = Pos(n) + j /\ Turn = Pos(m)
    BY <1>2 DEF m, n, Turn
  <2> QED BY <1>3, <1>4, <2>2, <2>3, BatchFacts
<1>6. CASE k = closed + 1 /\ rpc \notin {"transmit", "push"}
  <2>1. Transmitted = Turn
    BY <1>4, <1>6 DEF Transmitted
  <2>2. Base + k - 1 = Base + closed
    BY <1>4, <1>6
  <2>3. f = Turn + j
    BY <1>2, <2>2 DEF Turn
  <2> QED BY <1>3, <1>4, <2>1, <2>3, BatchFacts
<1>7. CASE k <= closed \/ (k = closed + 1 /\ rpc \in {"transmit", "push"})
  BY <1>7 DEF PoolOK
<1> QED BY <1>4, <1>5, <1>6, <1>7

LEMMA SameBatch ==
    ASSUME TypeOK, LoopOK, NEW k \in 1 .. sent,
           NEW f \in ToSet(packages[k]), NEW g \in ToSet(packages[k])
    PROVE  g \in BatchOf(f)
<1>1. /\ DOMAIN packages[k] = 1 .. Batch
      /\ \A j \in 1 .. Batch : packages[k][j] = Pos(Base + k - 1) + j
      /\ ToSet(packages[k]) \subseteq DataFrames
  BY PackageFacts
<1> DEFINE n == Base + k - 1
<1>2. n \in Nat
  <2>1. Base \in Nat
    BY BaseFacts DEF TypeOK
  <2>2. k \in Nat /\ k >= 1
    BY DEF TypeOK
  <2> QED BY <2>1, <2>2
<1>3. ASSUME NEW h \in ToSet(packages[k])
      PROVE  (h - 1) \div Batch = n
  <2>1. PICK j \in 1 .. Batch : h = Pos(n) + j
    BY <1>1, <1>3 DEF ToSet
  <2> HIDE DEF n
  <2>2. Pos(n) \in Nat /\ j - 1 \in 0 .. Batch - 1
    <3>1. Pos(n) \in Nat
      BY <1>2, PosFacts
    <3>2. j - 1 \in 0 .. Batch - 1
      BY BatchFacts
    <3> QED BY <3>1, <3>2
  <2>3. h - 1 = Pos(n) + (j - 1)
    BY <2>1, <2>2
  <2> QED BY <1>2, <2>2, <2>3, DivPos
<1> QED BY <1>1, <1>3 DEF BatchOf

LEMMA SentIsFinished == IInv => FinishedWhenSent
<1> SUFFICES ASSUME IInv,
                    NEW f \in ToSet(out),
                    f \in UNION {ToSet(p) : p \in ToSet(packages)}
             PROVE  \/ status[f] \in Pool!Ended /\ f \notin empty
                    \/ \E g \in BatchOf(f) : g # f /\ status[g] = "threw"
  BY DEF FinishedWhenSent
<1> USE DEF IInv
<1>1. PICK k \in 1 .. sent : f \in ToSet(packages[k])
  <2>1. DOMAIN packages = 1 .. sent
    BY DEF TypeOK, LoopOK
  <2> QED BY <2>1 DEF ToSet
<1>2. Settled(k)
  BY <1>1, LeftIsSettled
<1>3. CASE status[f] \in {"done", "threw"}
  <2>1. status[f] \notin {"new", "pending"}
    BY <1>3
  <2> QED BY <1>3, <2>1 DEF Pool!Ended, PoolOK
<1>4. CASE status[f] \notin {"done", "threw"}
  <2>1. PICK g \in ToSet(packages[k]) : status[g] = "threw"
    BY <1>1, <1>2, <1>4 DEF Settled
  <2>2. g \in BatchOf(f)
    BY <1>1, <2>1, SameBatch
  <2> QED BY <1>4, <2>1, <2>2
<1> QED BY <1>3, <1>4

-----------------------------------------------------------------------------
(* The theorems.                                                           *)

\* In every reachable state every frame is where the invariant says: the
\* requests hold the stream cut at the multiples of Batch, over all runs, and
\* just the frames that Response has transmitted are with the next module, in
\* its connector or lost to a Stop.  Inference::Process and
\* PostRetinObs::Response.
THEOREM InferenceInvariance == Spec => []IInv
<1>1. Init => IInv
  BY InitIInv
<1>2. IInv /\ [Next]_vars => IInv'
  BY NextIInv
<1> QED BY <1>1, <1>2, PTL DEF Spec

\* For every number of runs, frames and frames in a batch: a frame that has left
\* was finished by its worker and its inference had not failed, or another task
\* of its batch had thrown.  The loop of PostRetinObs::Response over the futures.
THEOREM InferenceInvCorrect == Spec => []InferenceInv
<1>1. IInv => InferenceInv
  BY SentIsFinished DEF IInv, InferenceInv
<1> QED BY <1>1, InferenceInvariance, PTL

\* For every number of runs, frames and frames in a batch: the data frames leave
\* in the order of the stream, none twice, across the runs too, and the end of
\* the stream leaves after every full batch was requested.
\* Inference::Process and Module::TransmitData.
THEOREM OutInOrderCorrect == Spec => []OutInOrder
<1>1. IInv => OutInOrder
  BY OutIsOrdered
<1> QED BY <1>1, InferenceInvariance, PTL

\* For every number of runs, frames and frames in a batch: when all requests are
\* answered, the frames that have not left are just those that fill no batch.
\* The member batch_array, which Inference::Close and Open leave alone.
THEOREM OnlyRemainderHeldCorrect == Spec => []OnlyRemainderHeld
<1>1. IInv => OnlyRemainderHeld
  BY RemainderIsHeld
<1> QED BY <1>1, InferenceInvariance, PTL
=============================================================================
