---------------------------- MODULE FacesProofs -----------------------------
(***************************************************************************)
(* Proofs about the faces of a frame.  For every set of configurations,    *)
(* every finite set of module names and every batch size: what Postprocess *)
(* answers (module Retina), that every face lies in its image, and, unless *)
(* links meet in a module, that the frames come to every module in order,  *)
(* that the faces are those found, and that each is warped by its own      *)
(* matrix (module FramePath).                                              *)
(***************************************************************************)
EXTENDS ProgramProofs

-----------------------------------------------------------------------------
(* nms_cpu chooses boxes that stand for all, and Postprocess gives their   *)
(* faces.                                                                  *)

\* The loop of nms_cpu: which boxes are kept, each by those before it.
LEMMA NmsUnfold ==
    ASSUME NEW s, NEW n \in Nat, DOMAIN s = 1 .. n
    PROVE  \E keep : /\ \A k \in 1 .. n : keep[k] <=> ~Dropped(s, keep, k)
                     /\ Nms(s) = FlattenSeq([k \in 1 .. n |->
                                    IF keep[k] THEN <<s[k]>> ELSE << >>])
<1> DEFINE Ov(j, k) == Overlapping(s[j].box, s[k].box)
           Kept(g, m) == g = [k \in 1 .. m |-> ~\E j \in 1 .. k - 1 : g[j] /\ Ov(j, k)]
           There == {m \in Nat : \E g : Kept(g, m)}
           keep == CHOOSE g : Kept(g, n)
<1>1. Nms(s) = FlattenSeq([k \in 1 .. n |-> IF keep[k] THEN <<s[k]>> ELSE << >>])
  BY DEF Nms, Dropped
<1>2. \A g, k : Dropped(s, g, k) <=> \E j \in 1 .. k - 1 : g[j] /\ Ov(j, k)
  BY DEF Dropped
<1> HIDE DEF Ov
<1>3. Nat \subseteq There
  <2>1. 0 \in There
    <3>1. Kept([k \in 1 .. 0 |-> TRUE], 0)
      OBVIOUS
    <3> QED BY <3>1
  <2>2. ASSUME NEW m \in Nat, m \in There PROVE m + 1 \in There
    <3>1. PICK g : Kept(g, m)
      BY <2>2
    <3> DEFINE h == [k \in 1 .. m + 1 |-> ~\E j \in 1 .. k - 1 : g[j] /\ Ov(j, k)]
    <3>2. \A k \in 1 .. m : g[k] = h[k]
      <4>1. \A k \in 1 .. m : g[k] = ~\E j \in 1 .. k - 1 : g[j] /\ Ov(j, k)
        BY <3>1
      <4>2. \A k \in 1 .. m : k \in 1 .. m + 1
        OBVIOUS
      <4> QED BY <4>1, <4>2
    <3>3. \A k \in 1 .. m + 1 : \A j \in 1 .. k - 1 : j \in 1 .. m
      OBVIOUS
    <3>4. h = [k \in 1 .. m + 1 |-> ~\E j \in 1 .. k - 1 : h[j] /\ Ov(j, k)]
      BY <3>2, <3>3
    <3> HIDE DEF h
    <3>5. \E x : Kept(x, m + 1)
      BY <3>4
    <3> HIDE DEF Kept
    <3> QED BY <3>5
  <2> HIDE DEF There
  <2> QED BY <2>1, <2>2, NatSetInduction
<1>4. Kept(keep, n)
  BY <1>3
<1> HIDE DEF keep
<1>5. \A k \in 1 .. n : keep[k] <=> ~\E j \in 1 .. k - 1 : keep[j] /\ Ov(j, k)
  BY <1>4
<1> QED BY <1>1, <1>2, <1>5

\* Two boxes overlap each other.
IsBox(b) == b \in Int \X Int \X Int \X Int

LEMMA OverlapSymmetric ==
    ASSUME NEW a, NEW b, IsBox(a), IsBox(b)
    PROVE  Overlapping(a, b) <=> Overlapping(b, a)
<1>1. \A x, y \in Int : /\ Larger(x, y) = Larger(y, x) /\ Smaller(x, y) = Smaller(y, x)
                        /\ Larger(x, y) \in Int /\ Smaller(x, y) \in Int
  BY DEF Larger, Smaller
<1>2. /\ a[1] \in Int /\ a[2] \in Int /\ a[3] \in Int /\ a[4] \in Int
      /\ b[1] \in Int /\ b[2] \in Int /\ b[3] \in Int /\ b[4] \in Int
  BY DEF IsBox
<1>3. InterArea(a, b) = InterArea(b, a)
  BY <1>1, <1>2 DEF InterArea
<1>4. InterArea(a, b) \in Int
  <2>1. Sub \in Int /\ 0 \in Int
    BY DEF Sub
  <2>2. /\ Smaller(a[3], b[3]) \in Int /\ Larger(a[1], b[1]) \in Int
        /\ Smaller(a[4], b[4]) \in Int /\ Larger(a[2], b[2]) \in Int
    BY <1>1, <1>2
  <2>3. /\ Smaller(a[3], b[3]) - Larger(a[1], b[1]) + Sub \in Int
        /\ Smaller(a[4], b[4]) - Larger(a[2], b[2]) + Sub \in Int
    BY <2>1, <2>2
  <2>4. /\ Larger(Smaller(a[3], b[3]) - Larger(a[1], b[1]) + Sub, 0) \in Int
        /\ Larger(Smaller(a[4], b[4]) - Larger(a[2], b[2]) + Sub, 0) \in Int
    BY <2>3 DEF Larger
  <2> QED BY <2>4 DEF InterArea
<1>5. /\ Width(a) * Height(a) \in Int /\ Width(b) * Height(b) \in Int
  BY <1>2 DEF Width, Height, Sub
<1>6. Width(a) * Height(a) + Width(b) * Height(b) - InterArea(a, b)
      = Width(b) * Height(b) + Width(a) * Height(a) - InterArea(a, b)
  BY <1>4, <1>5
<1> QED BY <1>3, <1>6 DEF Overlapping

\* std::sort puts every proposal once, none before a better one.
LEMMA SortedFacts ==
    ASSUME NEW P, IsFiniteSet(P), NEW s \in Sorted(P), \A p \in P : p.score \in Int
    PROVE  /\ Cardinality(P) \in Nat
           /\ s \in [1 .. Cardinality(P) -> P] /\ IsInjective(s)
           /\ \A p \in P : \E k \in 1 .. Cardinality(P) : s[k] = p
           /\ \A j, k \in 1 .. Cardinality(P) : j <= k => s[j].score >= s[k].score
<1> DEFINE n == Cardinality(P)
<1>1. n \in Nat
  BY FS_CardinalityType
<1>2. s \in [1 .. n -> P] /\ \A i, j \in 1 .. n : i # j => s[i] # s[j]
  BY DEF Sorted, SetToSeqs
<1> HIDE DEF n
<1>3. IsInjective(s) /\ Len(s) = n
  BY <1>1, <1>2 DEF IsInjective
<1>4. \A k \in 1 .. n - 1 : s[k].score >= s[k + 1].score
  BY <1>3 DEF Sorted
<1>5. \A p \in P : \E k \in 1 .. n : s[k] = p
  <2>1. s \in Injection(1 .. n, P)
    BY <1>2, <1>3 DEF Injection
  <2>2. Cardinality(1 .. n) = Cardinality(P)
    BY <1>1, FS_Interval DEF n
  <2>3. s \in Surjection(1 .. n, P)
    BY <2>1, <2>2, FS_Injection
  <2> QED BY <2>3 DEF Surjection
<1>6. \A k \in 1 .. n : s[k].score \in Int
  BY <1>2
<1> DEFINE Ordered == {d \in Nat : \A k \in 1 .. n : k + d \in 1 .. n =>
                                      s[k].score >= s[k + d].score}
<1>7. Nat \subseteq Ordered
  <2>1. 0 \in Ordered
    <3>1. \A k \in 1 .. n : k + 0 = k /\ s[k].score >= s[k].score
      BY <1>6
    <3> QED BY <3>1
  <2>2. ASSUME NEW d \in Nat, d \in Ordered, NEW k \in 1 .. n, k + (d + 1) \in 1 .. n
        PROVE  s[k].score >= s[k + (d + 1)].score
    <3>1. k + d \in 1 .. n - 1 /\ k + d \in 1 .. n /\ (k + d) + 1 = k + (d + 1)
      BY <1>1, <2>2
    <3>2. s[k].score >= s[k + d].score /\ s[k + d].score >= s[k + (d + 1)].score
      BY <1>4, <2>2, <3>1
    <3> QED BY <1>6, <2>2, <3>1, <3>2
  <2>3. ASSUME NEW d \in Nat, d \in Ordered PROVE d + 1 \in Ordered
    BY <2>2, <2>3
  <2> HIDE DEF Ordered
  <2> QED BY <2>1, <2>3, NatSetInduction
<1>8. \A j, k \in 1 .. n : j <= k => s[j].score >= s[k].score
  <2> SUFFICES ASSUME NEW j \in 1 .. n, NEW k \in 1 .. n, j <= k
               PROVE  s[j].score >= s[k].score
    OBVIOUS
  <2>1. k - j \in Nat /\ j + (k - j) = k
    BY <1>1
  <2>2. k - j \in Ordered
    BY <1>7, <2>1
  <2>3. \A i \in 1 .. n : i + (k - j) \in 1 .. n => s[i].score >= s[i + (k - j)].score
    BY <2>2
  <2> QED BY <2>1, <2>3
<1> QED BY <1>1, <1>2, <1>3, <1>5, <1>8 DEF n

\* What nms_cpu returns: a representative choice of the proposals, by descending
\* score, whatever order std::sort gives those of equal score.
LEMMA NmsFacts ==
    ASSUME NEW P, IsFiniteSet(P), NEW s \in Sorted(P),
           \A p \in P : IsBox(p.box) /\ p.score \in Int
    PROVE  LET r == Nms(s) IN
           /\ r \in Seq(P) /\ IsInjective(r)
           /\ \A i, j \in 1 .. Len(r) : i < j => r[i].score >= r[j].score
           /\ Representative(Range(r), P)
<1> DEFINE n == Cardinality(P)
<1>1. /\ n \in Nat /\ s \in [1 .. n -> P] /\ IsInjective(s)
      /\ \A p \in P : \E k \in 1 .. n : s[k] = p
      /\ \A j, k \in 1 .. n : j <= k => s[j].score >= s[k].score
  BY SortedFacts
<1> HIDE DEF n
<1>2. PICK keep : /\ \A k \in 1 .. n : keep[k] <=> ~Dropped(s, keep, k)
                  /\ Nms(s) = FlattenSeq([k \in 1 .. n |->
                                 IF keep[k] THEN <<s[k]>> ELSE << >>])
  BY <1>1, NmsUnfold
<1> DEFINE K == {k \in 1 .. n : keep[k]}
           r == Nms(s)
<1>3. r = FlattenSeq([k \in 1 .. n |-> IF k \in K THEN <<s[k]>> ELSE << >>])
  <2>1. [k \in 1 .. n |-> IF keep[k] THEN <<s[k]>> ELSE << >>]
        = [k \in 1 .. n |-> IF k \in K THEN <<s[k]>> ELSE << >>]
    OBVIOUS
  <2> QED BY <1>2, <2>1
<1>4. \A k \in 1 .. n : k \in K <=> ~\E j \in 1 .. k - 1 :
                                        j \in K /\ Overlapping(s[j].box, s[k].box)
  <2>1. \A k \in 1 .. n : \A j \in 1 .. k - 1 : j \in 1 .. n
    BY <1>1
  <2> QED BY <1>2, <2>1 DEF Dropped
<1>5. K \in SUBSET (1 .. n)
  OBVIOUS
<1> HIDE DEF K, r
<1>6. r \in Seq(P) /\ \E pos : Picks(r, pos, K, s)
  BY <1>1, <1>3, <1>5, FilterPicks
<1>7. PICK pos : Picks(r, pos, K, s)
  BY <1>6
<1>8. /\ pos \in [1 .. Len(r) -> K] /\ \A k \in K : \E i \in 1 .. Len(r) : pos[i] = k
      /\ \A i, j \in 1 .. Len(r) : i < j => pos[i] < pos[j]
      /\ \A i \in 1 .. Len(r) : r[i] = s[pos[i]]
  BY <1>7 DEF Picks
<1>9. Len(r) \in Nat /\ DOMAIN r = 1 .. Len(r)
  BY <1>6
<1>10. \A i \in 1 .. Len(r) : pos[i] \in 1 .. n
  BY <1>5, <1>8
<1>11. IsInjective(r)
  <2> SUFFICES ASSUME NEW i \in 1 .. Len(r), NEW j \in 1 .. Len(r), r[i] = r[j]
               PROVE  i = j
    BY <1>9 DEF IsInjective
  <2>1. pos[i] = pos[j]
    BY <1>1, <1>8, <1>10 DEF IsInjective
  <2>2. ~(i < j) /\ ~(j < i)
    BY <1>8, <1>10, <2>1
  <2> QED BY <1>9, <2>2
<1>12. \A i, j \in 1 .. Len(r) : i < j => r[i].score >= r[j].score
  BY <1>1, <1>8, <1>10
<1>13. Range(r) = {s[k] : k \in K}
  BY <1>8, <1>9 DEF Range
<1>14. ASSUME NEW a \in Range(r), NEW b \in Range(r), a # b
       PROVE  ~Overlapping(a.box, b.box)
  <2>1. PICK j \in K, k \in K : a = s[j] /\ b = s[k]
    BY <1>13, <1>14
  <2>2. j \in 1 .. n /\ k \in 1 .. n /\ j # k
    BY <1>5, <1>14, <2>1
  <2>3. IsBox(a.box) /\ IsBox(b.box)
    BY <1>1, <2>1, <2>2
  <2>4. CASE j < k
    <3>1. j \in 1 .. k - 1
      BY <1>1, <2>2, <2>4
    <3> QED BY <1>4, <2>1, <2>2, <3>1
  <2>5. CASE k < j
    <3>1. k \in 1 .. j - 1
      BY <1>1, <2>2, <2>5
    <3>2. ~Overlapping(b.box, a.box)
      BY <1>4, <2>1, <2>2, <3>1
    <3> QED BY <2>3, <3>2, OverlapSymmetric
  <2> QED BY <1>1, <2>2, <2>4, <2>5
<1>15. ASSUME NEW p \in P \ Range(r)
       PROVE  \E a \in Range(r) : a.score >= p.score /\ Overlapping(a.box, p.box)
  <2>1. PICK k \in 1 .. n : s[k] = p
    BY <1>1
  <2>2. k \notin K
    BY <1>13, <1>15, <2>1
  <2>3. PICK j \in 1 .. k - 1 : j \in K /\ Overlapping(s[j].box, s[k].box)
    BY <1>4, <2>2
  <2>4. j \in 1 .. n /\ j <= k
    BY <1>1, <2>3
  <2>5. s[j].score >= s[k].score
    BY <1>1, <2>4
  <2> QED BY <1>13, <2>1, <2>3, <2>5
<1>16. Representative(Range(r), P)
  BY <1>14, <1>15 DEF Representative
<1> QED BY <1>6, <1>11, <1>12, <1>16 DEF r

\* Cutting the faces out keeps those of the frontal anchors before the first
\* that does not lie in the image.
LEMMA CutOutFacts ==
    ASSUME NEW S, NEW kept \in Seq(S), NEW w, NEW h
    PROVE  \E c \in 0 .. Len(kept) : \E pos :
             /\ \A k \in 1 .. c : Frontal(kept[k]) => Within(kept[k], w, h)
             /\ c # Len(kept) => Frontal(kept[c + 1]) /\ ~Within(kept[c + 1], w, h)
             /\ Picks(CutOut(kept, w, h).objs, pos,
                      {k \in 1 .. c : Frontal(kept[k])},
                      [k \in 1 .. c |-> FaceOf(kept[k], w, h)])
             /\ CutOut(kept, w, h).objs \in Seq({FaceOf(kept[k], w, h) : k \in 1 .. c})
<1> DEFINE Fine(k) == Frontal(kept[k]) => Within(kept[k], w, h)
           before == {k \in DOMAIN kept : \A j \in 1 .. k : Fine(j)}
           n == Len(kept)
           objs == CutOut(kept, w, h).objs
<1>1. n \in Nat /\ DOMAIN kept = 1 .. n
  OBVIOUS
<1>2. objs = FlattenSeq([k \in 1 .. Cardinality(before) |->
                 IF Frontal(kept[k]) THEN <<FaceOf(kept[k], w, h)>> ELSE << >>])
  BY DEF CutOut
<1>f. \A k : ~Fine(k) => Frontal(kept[k]) /\ ~Within(kept[k], w, h)
  OBVIOUS
<1>t. \A k : Fine(k) => (Frontal(kept[k]) => Within(kept[k], w, h))
  OBVIOUS
<1> HIDE DEF Fine
<1>3. \E c \in 0 .. n : before = 1 .. c /\ (c # n => ~Fine(c + 1))
  <2>1. CASE \A k \in 1 .. n : Fine(k)
    <3>1. before = 1 .. n
      <4>1. \A k \in 1 .. n : \A j \in 1 .. k : j \in 1 .. n
        BY <1>1
      <4> QED BY <1>1, <2>1, <4>1
    <3>2. n \in 0 .. n
      BY <1>1
    <3> QED BY <3>1, <3>2
  <2>2. CASE \E k \in 1 .. n : ~Fine(k)
    <3> DEFINE Bad == {k \in 1 .. n : ~Fine(k)}
               Ok == {d \in Nat : \A j \in 1 .. d : j \notin Bad}
    <3>1. \E d \in Nat : d \in Ok /\ d + 1 \notin Ok
      <4>1. SUFFICES ASSUME \A d \in Nat : d \in Ok => d + 1 \in Ok PROVE FALSE
        OBVIOUS
      <4>2. 0 \in Ok
        OBVIOUS
      <4>3. Nat \subseteq Ok
        <5> HIDE DEF Ok
        <5> QED BY <4>1, <4>2, NatSetInduction
      <4>4. \A d \in Nat : \A j \in 1 .. d : j \notin Bad
        BY <4>3
      <4>5. n \in Nat /\ \E j \in 1 .. n : j \in Bad
        BY <1>1, <2>2
      <4> QED BY <4>4, <4>5
    <3>2. PICK d \in Nat : d \in Ok /\ d + 1 \notin Ok
      BY <3>1
    <3>3. (\A j \in 1 .. d : j \notin Bad) /\ d + 1 \in Bad
      <4>1. PICK j \in 1 .. d + 1 : j \in Bad
        BY <3>2
      <4>2. j \in 1 .. d \/ j = d + 1
        BY <3>2
      <4> QED BY <3>2, <4>1, <4>2
    <3>4. d + 1 \in 1 .. n /\ ~Fine(d + 1)
      BY <3>3
    <3>5. before = 1 .. d
      <4>1. \A k \in 1 .. d : k \in 1 .. n /\ \A j \in 1 .. k : j \in 1 .. n /\ Fine(j)
        <5> SUFFICES ASSUME NEW k \in 1 .. d, NEW j \in 1 .. k
                     PROVE  k \in 1 .. n /\ j \in 1 .. n /\ Fine(j)
          BY <1>1, <3>4
        <5>1. k \in 1 .. n /\ j \in 1 .. n /\ j \in 1 .. d
          BY <1>1, <3>4
        <5> QED BY <3>3, <5>1
      <4>2. \A k \in 1 .. n : k \notin 1 .. d => d + 1 \in 1 .. k
        BY <1>1
      <4> QED BY <1>1, <3>4, <4>1, <4>2
    <3>6. d \in 0 .. n
      BY <1>1, <3>4
    <3> QED BY <3>4, <3>5, <3>6
  <2> QED BY <2>1, <2>2
<1>c. PICK c \in 0 .. n : before = 1 .. c /\ (c # n => ~Fine(c + 1))
  BY <1>3
<1>4. \A k \in 1 .. c : Fine(k)
  <2>1. \A k \in 1 .. c : k \in 1 .. k
    BY <1>c
  <2> QED BY <1>c, <2>1
<1>n. c \in Nat
  <2> HIDE DEF n
  <2> QED BY <1>1
<1>5. Cardinality(before) = c
  <2>1. Cardinality(1 .. c) = c
    BY <1>n, FS_Interval
  <2> HIDE DEF before
  <2> QED BY <1>c, <2>1
<1> HIDE DEF before, objs
<1> DEFINE g == [k \in 1 .. c |-> FaceOf(kept[k], w, h)]
           F == {k \in 1 .. c : Frontal(kept[k])}
<1>p. c \in Nat /\ F \in SUBSET (1 .. c)
  BY <1>n
<1>6. objs = FlattenSeq([k \in 1 .. c |-> IF k \in F THEN <<g[k]>> ELSE << >>])
  <2>1. [k \in 1 .. c |-> IF Frontal(kept[k]) THEN <<FaceOf(kept[k], w, h)>> ELSE << >>]
        = [k \in 1 .. c |-> IF k \in F THEN <<g[k]>> ELSE << >>]
    OBVIOUS
  <2> QED BY <1>2, <1>5, <2>1
<1>7. g \in [1 .. c -> {FaceOf(kept[k], w, h) : k \in 1 .. c}]
  OBVIOUS
<1> HIDE DEF F, g
<1>8. objs \in Seq({FaceOf(kept[k], w, h) : k \in 1 .. c}) /\ \E pos : Picks(objs, pos, F, g)
  BY <1>p, <1>6, <1>7, FilterPicks
<1> QED BY <1>c, <1>4, <1>8, <1>f, <1>t DEF F, g, objs

LEMMA PowerPositive == \A d \in Nat : 2 ^ d \in Nat \ {0}
<1> TAKE d \in Nat
<1>1. IsFiniteSet(1 .. d) /\ Cardinality(1 .. d) = d
  BY FS_Interval
<1>2. IsFiniteSet(SUBSET (1 .. d)) /\ Cardinality(SUBSET (1 .. d)) = 2 ^ d
  BY <1>1, FS_SUBSET
<1>3. SUBSET (1 .. d) # {}
  OBVIOUS
<1>4. Cardinality(SUBSET (1 .. d)) # 0
  BY <1>2, <1>3, FS_EmptySet
<1>5. Cardinality(SUBSET (1 .. d)) \in Nat
  BY <1>2, FS_CardinalityType
<1> QED BY <1>2, <1>4, <1>5

LEMMA AroundType ==
    ASSUME NEW x \in Int, NEW y \in Int, NEW w \in Int, NEW h \in Int
    PROVE  IsBox(Around(x, y, w, h))
BY DEF Around, IsBox, Sub

LEMMA BoxFacts ==
    ASSUME NEW r, IsBox(r)
    PROVE  /\ r[1] \in Int /\ r[2] \in Int /\ r[3] \in Int /\ r[4] \in Int
           /\ Width(r) \in Int /\ Height(r) \in Int
           /\ CentreX(r) \in Int /\ CentreY(r) \in Int
BY DEF IsBox, Width, Height, CentreX, CentreY, Sub

LEMMA PresetFacts ==
    \A l \in DOMAIN FeatStride : PresetAnchors[l] \in Seq({b \in Int \X Int \X Int \X Int : TRUE})
<1> TAKE l \in DOMAIN FeatStride
<1>1. l \in 1 .. 3
  BY DEF FeatStride
<1> DEFINE cfg == AnchorCfg[l]
           base == <<0, 0, (cfg.base - 1) * Sub, (cfg.base - 1) * Sub>>
           B == {b \in Int \X Int \X Int \X Int : TRUE}
           ratio == RatioEnum(base, cfg.ratios)
<1>2. PresetAnchors[l] = ScaleEnum(ratio, cfg.scales)
  BY <1>1 DEF PresetAnchors
<1>3. cfg.base = 16 /\ cfg.ratios = <<1>> /\ cfg.scales \in {<<32, 16>>, <<8, 4>>, <<2, 1>>}
  BY <1>1 DEF AnchorCfg
<1> HIDE DEF cfg
<1>4. IsBox(base) /\ base = <<0, 0, 60, 60>>
  BY <1>3 DEF IsBox, Sub
<1> HIDE DEF base
<1>5. Width(base) = 64 /\ Height(base) = 64
  BY <1>4 DEF Width, Height, Sub
<1>6. Sqrt(4096) \in Int
  <2>1. 64 \in 0 .. 4096 /\ 64 * 64 <= 4096 /\ 4096 < (64 + 1) * (64 + 1)
    OBVIOUS
  <2>2. \E s \in 0 .. 4096 : s * s <= 4096 /\ 4096 < (s + 1) * (s + 1)
    BY <2>1
  <2> DEFINE N == 0 .. 4096
             Root(s) == s * s <= 4096 /\ 4096 < (s + 1) * (s + 1)
  <2> DEFINE root == CHOOSE s \in N : Root(s)
  <2>3. Sqrt(4096) = root
    BY DEF Sqrt
  <2>4. \E s \in N : Root(s)
    BY <2>2
  <2> HIDE DEF Root, N
  <2>5. root \in N
    BY <2>4
  <2> HIDE DEF root
  <2>6. root \in Int
    BY <2>5 DEF N
  <2> QED BY <2>3, <2>6
<1>7. ratio = <<Around(CentreX(base), CentreY(base), Sqrt(4096), Sqrt(4096) * 1)>>
  <2>1. (Width(base) * Height(base)) \div 1 = 4096
    BY <1>5
  <2>2. DOMAIN <<1>> = 1 .. 1 /\ <<1>>[1] = 1
    OBVIOUS
  <2> QED BY <1>3, <2>1, <2>2 DEF RatioEnum
<1> HIDE DEF ratio
<1>8. DOMAIN ratio = 1 .. 1 /\ IsBox(ratio[1])
  <2>1. CentreX(base) \in Int /\ CentreY(base) \in Int
    BY <1>4, BoxFacts
  <2>2. Sqrt(4096) * 1 \in Int
    BY <1>6
  <2>3. IsBox(Around(CentreX(base), CentreY(base), Sqrt(4096), Sqrt(4096) * 1))
    BY <1>6, <2>1, <2>2, AroundType
  <2> QED BY <1>7, <2>3
<1>9. ASSUME NEW a \in 1 .. 1
      PROVE  [s \in DOMAIN cfg.scales |->
                Around(CentreX(ratio[a]), CentreY(ratio[a]), Width(ratio[a]) * cfg.scales[s],
                       Height(ratio[a]) * cfg.scales[s])] \in Seq(B)
  <2>1. IsBox(ratio[a])
    BY <1>8
  <2>2. DOMAIN cfg.scales = 1 .. 2 /\ \A s \in 1 .. 2 : cfg.scales[s] \in Int
    BY <1>3
  <2>3. \A s \in 1 .. 2 : Around(CentreX(ratio[a]), CentreY(ratio[a]),
                            Width(ratio[a]) * cfg.scales[s],
                            Height(ratio[a]) * cfg.scales[s]) \in B
    <3> TAKE s \in 1 .. 2
    <3>1. Width(ratio[a]) * cfg.scales[s] \in Int /\ Height(ratio[a]) * cfg.scales[s] \in Int
      BY <2>1, <2>2, BoxFacts
    <3>2. CentreX(ratio[a]) \in Int /\ CentreY(ratio[a]) \in Int
      BY <2>1, BoxFacts
    <3> QED BY <3>1, <3>2, AroundType DEF IsBox
  <2> HIDE DEF B
  <2> QED BY <2>2, <2>3
<1> DEFINE all == [a \in DOMAIN ratio |-> [s \in DOMAIN cfg.scales |->
                Around(CentreX(ratio[a]), CentreY(ratio[a]), Width(ratio[a]) * cfg.scales[s],
                       Height(ratio[a]) * cfg.scales[s])]]
<1>10. all \in Seq(Seq(B))
  <2>1. \A a \in 1 .. 1 : all[a] \in Seq(B)
    BY <1>8, <1>9
  <2>2. all = [a \in 1 .. 1 |-> all[a]]
    BY <1>8
  <2> HIDE DEF all, B
  <2> QED BY <2>1, <2>2
<1>11. ScaleEnum(ratio, cfg.scales) = FlattenSeq(all)
  BY DEF ScaleEnum
<1> HIDE DEF all, B
<1>12. FlattenSeq(all) \in Seq(B)
  BY <1>10, FlattenType
<1> QED BY <1>2, <1>11, <1>12 DEF B

LEMMA AnchorType ==
    ASSUME NEW hit, IsHit(hit)
    PROVE  IsBox(AnchorAt(hit))
<1>1. hit.level \in DOMAIN FeatStride /\ hit.a \in DOMAIN PresetAnchors[hit.level]
  BY DEF IsHit
<1>2. FeatStride[hit.level] \in Int
  BY <1>1 DEF FeatStride
<1> DEFINE preset == PresetAnchors[hit.level][hit.a]
           x == hit.i * FeatStride[hit.level] * Sub
           y == hit.j * FeatStride[hit.level] * Sub
<1>3. IsBox(preset)
  <2>1. PresetAnchors[hit.level] \in Seq({b \in Int \X Int \X Int \X Int : TRUE})
    BY <1>1, PresetFacts
  <2> DEFINE B == {b \in Int \X Int \X Int \X Int : TRUE}
             anchors == PresetAnchors[hit.level]
  <2>2. anchors \in Seq(B) /\ hit.a \in DOMAIN anchors
    BY <1>1, <2>1
  <2> HIDE DEF anchors, B
  <2>3. anchors[hit.a] \in B
    BY <2>2
  <2> QED BY <2>3 DEF anchors, B, IsBox
<1>4. x \in Int /\ y \in Int
  BY <1>2 DEF IsHit, Sub
<1>5. AnchorAt(hit) = <<x + preset[1], y + preset[2], x + preset[3], y + preset[4]>>
  BY DEF AnchorAt
<1> HIDE DEF preset, x, y
<1> QED BY <1>3, <1>4, <1>5 DEF IsBox

LEMMA ExpType ==
    ASSUME NEW d \in Int
    PROVE  Exp(d)[1] \in Nat /\ Exp(d)[2] \in Nat \ {0}
<1>1. CASE d >= 0
  BY <1>1, PowerPositive DEF Exp
<1>2. CASE ~(d >= 0)
  BY <1>2, PowerPositive DEF Exp
<1> QED BY <1>1, <1>2

LEMMA BboxType ==
    ASSUME NEW anchor, IsBox(anchor), NEW delta \in Int \X Int \X Int \X Int,
           NEW w \in Nat, NEW h \in Nat
    PROVE  IsBox(BboxPred(anchor, delta, w, h))
<1> DEFINE x == delta[1] * (Width(anchor) \div Sub) + CentreX(anchor)
           y == delta[2] * (Height(anchor) \div Sub) + CentreY(anchor)
           tw == Times(Width(anchor), Exp(delta[3]))
           th == Times(Height(anchor), Exp(delta[4]))
           box == Around(x, y, tw, th)
<1>1. /\ Width(anchor) \in Int /\ Height(anchor) \in Int
      /\ CentreX(anchor) \in Int /\ CentreY(anchor) \in Int
  BY BoxFacts
<1>2. delta[1] \in Int /\ delta[2] \in Int /\ delta[3] \in Int /\ delta[4] \in Int
  OBVIOUS
<1>3. x \in Int /\ y \in Int
  BY <1>1, <1>2 DEF Sub
<1>4. ASSUME NEW v \in Int, NEW d \in Int PROVE Times(v, Exp(d)) \in Int
  <2>1. Exp(d)[1] \in Nat /\ Exp(d)[2] \in Nat \ {0}
    BY ExpType
  <2>2. v * Exp(d)[1] \in Int
    BY <2>1
  <2> QED BY <2>1, <2>2 DEF Times
<1>5. tw \in Int /\ th \in Int
  BY <1>1, <1>2, <1>4
<1> HIDE DEF x, y, tw, th
<1>6. IsBox(box)
  BY <1>3, <1>5, AroundType
<1> HIDE DEF box
<1>7. box[1] \in Int /\ box[2] \in Int /\ box[3] \in Int /\ box[4] \in Int
  BY <1>6 DEF IsBox
<1>8. \A v \in Int : ToFrame(v, w, InputW) \in Int /\ ToFrame(v, h, InputH) \in Int
  <2> TAKE v \in Int
  <2>1. v * w \in Int /\ v * h \in Int
    OBVIOUS
  <2> QED BY <2>1, RetinaAssumption DEF ToFrame
<1>9. BboxPred(anchor, delta, w, h)
      = <<ToFrame(box[1], w, InputW), ToFrame(box[2], h, InputH),
          ToFrame(box[3], w, InputW), ToFrame(box[4], h, InputH)>>
  BY DEF BboxPred, box, x, y, tw, th
<1> QED BY <1>7, <1>8, <1>9 DEF IsBox

LEMMA ProposalFacts ==
    ASSUME NEW image, IsImage(image)
    PROVE  /\ IsFiniteSet(Proposals(image))
           /\ \A p \in Proposals(image) : IsBox(p.box) /\ p.score \in Int
<1>1. /\ IsFiniteSet(image.hits) /\ \A hit \in image.hits : IsHit(hit)
      /\ image.w \in Nat /\ image.h \in Nat
  BY DEF IsImage
<1>2. ASSUME NEW l, NEW p \in FilterAnchor(image.hits, l, image.w, image.h)
      PROVE  IsBox(p.box) /\ p.score \in Int
  <2>1. PICK b \in FilterBoxes(image.hits, l, image.w, image.h) :
          p.score = b.score /\ p.box = b.box
    BY <1>2 DEF FilterAnchor
  <2>2. PICK hit \in image.hits :
          /\ b.score = hit.score
          /\ b.box = BboxPred(AnchorAt(hit), hit.delta, image.w, image.h)
    BY <2>1 DEF FilterBoxes
  <2>3. IsHit(hit) /\ hit.score \in Int /\ hit.delta \in Int \X Int \X Int \X Int
    BY <1>1 DEF IsHit
  <2> QED BY <1>1, <2>1, <2>2, <2>3, AnchorType, BboxType
<1>3. \A p \in Proposals(image) : IsBox(p.box) /\ p.score \in Int
  BY <1>2 DEF Proposals
<1> QED BY <1>1, <1>3, ProposalsFinite

\* What Postprocess returns are the frontal faces of a representative choice.
THEOREM PostprocessAnswers ==
    ASSUME NEW image, IsImage(image), NEW r \in Postprocess(image, OutputNum)
    PROVE  Answers(r.objs, image)
<1> DEFINE P == Proposals(image)
           w == image.w
           h == image.h
           objs == r.objs
<1>1. PICK s \in Sorted(P) : r = CutOut(Nms(s), w, h)
  BY DEF Postprocess
<1>2. IsFiniteSet(P) /\ \A p \in P : IsBox(p.box) /\ p.score \in Int
  BY ProposalFacts
<1> HIDE DEF P
<1> DEFINE m == Nms(s)
           n == Len(m)
           kept == Range(m)
           frontal == {a \in kept : Frontal(a)}
           faces == {FaceOf(a, w, h) : a \in frontal}
<1>3. /\ m \in Seq(P) /\ IsInjective(m)
      /\ \A i, j \in 1 .. n : i < j => m[i].score >= m[j].score
      /\ Representative(kept, P)
  BY <1>2, NmsFacts
<1> HIDE DEF m
<1>4. n \in Nat /\ DOMAIN m = 1 .. n
  BY <1>3
<1>5. PICK c \in 0 .. n : \E pos :
         /\ \A k \in 1 .. c : Frontal(m[k]) => Within(m[k], w, h)
         /\ c # n => Frontal(m[c + 1]) /\ ~Within(m[c + 1], w, h)
         /\ Picks(CutOut(m, w, h).objs, pos, {k \in 1 .. c : Frontal(m[k])},
                  [k \in 1 .. c |-> FaceOf(m[k], w, h)])
         /\ CutOut(m, w, h).objs \in Seq({FaceOf(m[k], w, h) : k \in 1 .. c})
  BY <1>3, CutOutFacts
<1> DEFINE F == {k \in 1 .. c : Frontal(m[k])}
           g == [k \in 1 .. c |-> FaceOf(m[k], w, h)]
<1>6. CutOut(m, w, h).objs = objs
  BY <1>1 DEF m
<1>7. PICK pos : Picks(objs, pos, F, g)
  BY <1>5, <1>6
<1>8. /\ c # n => Frontal(m[c + 1]) /\ ~Within(m[c + 1], w, h)
      /\ objs \in Seq({FaceOf(m[k], w, h) : k \in 1 .. c})
  BY <1>5, <1>6
<1> DEFINE q == Len(objs)
<1> HIDE DEF objs, w, h, n
<1>9. q \in Nat /\ DOMAIN objs = 1 .. q
  BY <1>8
<1>10. /\ pos \in [1 .. q -> F] /\ \A k \in F : \E i \in 1 .. q : pos[i] = k
       /\ \A i, j \in 1 .. q : i < j => pos[i] < pos[j]
       /\ \A i \in 1 .. q : objs[i] = g[pos[i]]
  BY <1>7 DEF Picks
<1>11. \A k \in F : k \in 1 .. c /\ k \in 1 .. n /\ Frontal(m[k]) /\ m[k] \in frontal
                    /\ g[k] = FaceOf(m[k], w, h)
  <2> SUFFICES ASSUME NEW k \in F
               PROVE  k \in 1 .. n /\ m[k] \in frontal
    OBVIOUS
  <2>1. k \in 1 .. n
    BY <1>4
  <2>2. m[k] \in kept
    BY <1>4, <2>1 DEF Range
  <2> QED BY <2>1, <2>2
<1>12. \A k : FaceOf(m[k], w, h).score = m[k].score
  BY DEF FaceOf
<1> HIDE DEF F, g, q, kept
<1>13. \A k \in 1 .. q - 1 : objs[k].score >= objs[k + 1].score
  <2> TAKE k \in 1 .. q - 1
  <2>1. k \in 1 .. q /\ k + 1 \in 1 .. q /\ k < k + 1
    BY <1>9
  <2>2. pos[k] \in F /\ pos[k + 1] \in F /\ pos[k] < pos[k + 1]
    BY <1>10, <2>1
  <2>3. m[pos[k]].score >= m[pos[k + 1]].score
    BY <1>3, <1>11, <2>2 DEF n
  <2> QED BY <1>10, <1>11, <1>12, <2>1, <2>2, <2>3
<1>14. Range(objs) \subseteq faces
  <2>1. \A i \in 1 .. q : objs[i] \in faces
    BY <1>10, <1>11
  <2> QED BY <1>9, <2>1 DEF Range
<1>15. ASSUME \A a \in frontal : Within(a, w, h)
       PROVE  q = Cardinality(frontal) /\ Range(objs) = faces
  <2>1. c = n
    <3>1. SUFFICES ASSUME c # n PROVE FALSE
      OBVIOUS
    <3>2. c + 1 \in 1 .. n
      BY <1>4, <3>1
    <3>3. m[c + 1] \in frontal
      BY <1>4, <1>8, <3>1, <3>2 DEF kept, Range
    <3> QED BY <1>8, <1>15, <3>1, <3>3
  <2>2. ASSUME NEW a \in frontal PROVE \E i \in 1 .. q : a = m[pos[i]]
    <3>1. PICK k \in 1 .. n : a = m[k]
      BY <1>4, <2>2 DEF kept, Range
    <3>2. k \in F
      BY <2>1, <2>2, <3>1 DEF F
    <3> QED BY <1>10, <3>1, <3>2
  <2>3. faces \subseteq Range(objs)
    <3>1. ASSUME NEW a \in frontal PROVE FaceOf(a, w, h) \in Range(objs)
      <4>1. PICK i \in 1 .. q : a = m[pos[i]]
        BY <2>2
      <4>2. objs[i] = FaceOf(a, w, h)
        BY <1>10, <1>11, <4>1
      <4> QED BY <1>9, <4>2 DEF Range
    <3> QED BY <3>1
  <2> DEFINE f == [i \in 1 .. q |-> m[pos[i]]]
  <2>4. f \in Surjection(1 .. q, frontal)
    <3>1. \A i \in 1 .. q : m[pos[i]] \in frontal
      BY <1>10, <1>11
    <3> HIDE DEF frontal
    <3> QED BY <2>2, <3>1 DEF Surjection
  <2>5. f \in Injection(1 .. q, frontal)
    <3>1. f \in [1 .. q -> frontal]
      BY <2>4 DEF Surjection
    <3>2. ASSUME NEW i \in 1 .. q, NEW j \in 1 .. q, m[pos[i]] = m[pos[j]]
          PROVE  i = j
      <4>1. pos[i] \in F /\ pos[j] \in F
        BY <1>10
      <4>2. pos[i] = pos[j]
        BY <1>3, <1>4, <1>11, <3>2, <4>1 DEF IsInjective
      <4>3. pos[i] \in Int /\ i \in Int /\ j \in Int
        BY <1>4, <1>9, <1>11, <4>1
      <4>4. ~(i < j) /\ ~(j < i)
        BY <1>10, <4>2, <4>3
      <4> QED BY <4>3, <4>4
    <3> QED BY <3>1, <3>2 DEF Injection, IsInjective
  <2>6. IsFiniteSet(1 .. q) /\ Cardinality(1 .. q) = q
    BY <1>9, FS_Interval
  <2> HIDE DEF f, frontal
  <2>7. Cardinality(frontal) = q
    BY <2>4, <2>5, <2>6, FS_Surjection
  <2> QED BY <1>14, <2>3, <2>7
<1>16. FacesOf(objs, kept, image)
  BY <1>13, <1>14, <1>15 DEF FacesOf, q, w, h
<1>17. kept \in Selections(image)
  <2>1. kept \subseteq P
    BY <1>3, <1>4 DEF kept, Range
  <2> QED BY <1>3, <2>1 DEF Selections, P
<1> QED BY <1>16, <1>17 DEF Answers, objs

-----------------------------------------------------------------------------
(* The faces: each lies in its image.                                      *)

\* In one dimension: from and to are the edges of a box in 1/Sub pixel, limit
\* what Postprocess cuts them to, and size that of the image.
LEMMA Edges ==
    ASSUME NEW from \in Int, NEW to \in Int, NEW limit \in Nat, NEW size \in Nat,
           size <= limit,
           NEW a, NEW b,
           a = Trunc(Larger(from, 0)) \/ a = Larger(Trunc(from), 0),
           b = Trunc(Smaller(to, limit * Sub)) \/ b = Smaller(Trunc(to), limit),
           a <= b, b <= size
    PROVE  a = Trunc(Clip(from, size)) /\ b = Trunc(Clip(to, size))
<1>1. a = Trunc(Clip(from, size))
  BY DEF Trunc, Larger, Smaller, Clip, Sub
<1>2. b = Trunc(Clip(to, size))
  BY DEF Trunc, Larger, Smaller, Clip, Sub
<1> QED BY <1>1, <1>2

LEMMA Starts ==
    ASSUME NEW from \in Int, NEW to \in Int, NEW limit \in Nat
    PROVE  /\ Trunc(Larger(from, 0)) \in Nat /\ Larger(Trunc(from), 0) \in Nat
           /\ Trunc(Smaller(to, limit * Sub)) \in Int /\ Smaller(Trunc(to), limit) \in Int
           /\ Clip(from, limit) \in Int
<1>1. \A v \in Int : Trunc(v) \in Int /\ (v >= 0 => Trunc(v) \in Nat)
  BY DEF Trunc, Sub
<1> QED BY <1>1 DEF Larger, Smaller, Clip, Sub

\* A face that could be cut out lies in its image.
LEMMA FaceInImage ==
    ASSUME NEW image, image.w \in Nat, image.h \in Nat,
           NEW a, IsBox(a.box), Within(a, image.w, image.h)
    PROVE  RectOK(FaceOf(a, image.w, image.h), image)
<1> DEFINE x1 == a.box[1]
           y1 == a.box[2]
           x2 == a.box[3]
           y2 == a.box[4]
           w == image.w
           h == image.h
           left == Larger(Trunc(x1), 0)
           right == Smaller(Trunc(x2), LimitW)
           top == Trunc(Larger(y1, 0))
           bottom == Trunc(Smaller(y2, LimitH * Sub))
           o == FaceOf(a, w, h)
<1>1. x1 \in Int /\ y1 \in Int /\ x2 \in Int /\ y2 \in Int
  BY DEF IsBox
<1>2. LimitW \in Nat /\ LimitH \in Nat
  BY RetinaAssumption
<1>3. /\ left <= right /\ right <= w
      /\ top <= bottom /\ bottom <= h
  BY DEF Within, InRange, RowRange, ColRange
<1>4. /\ o.x = Clip(x1, w) /\ o.w = Clip(x2, w) - Clip(x1, w)
      /\ o.y = Clip(y1, h) /\ o.h = Clip(y2, h) - Clip(y1, h)
      /\ o.rect.x = left /\ o.rect.width = right - left
      /\ o.rect.y = top /\ o.rect.height = bottom - top
  BY DEF FaceOf, RowRange, ColRange
<1> HIDE DEF o, x1, y1, x2, y2
<1>5. /\ left \in Nat /\ top \in Nat /\ right \in Int /\ bottom \in Int
      /\ Clip(x1, w) \in Int /\ Clip(x2, w) \in Int
      /\ Clip(y1, h) \in Int /\ Clip(y2, h) \in Int
  BY <1>1, <1>2, Starts
<1>6. w <= LimitW => left = Trunc(Clip(x1, w)) /\ right = Trunc(Clip(x2, w))
  BY <1>1, <1>2, <1>3, Edges
<1>7. h <= LimitH => top = Trunc(Clip(y1, h)) /\ bottom = Trunc(Clip(y2, h))
  BY <1>1, <1>2, <1>3, Edges
<1> HIDE DEF left, right, top, bottom
<1>8. o.x + o.w = Clip(x2, w) /\ o.y + o.h = Clip(y2, h)
  BY <1>4, <1>5
<1>9. /\ o.rect.x >= 0 /\ o.rect.width >= 0 /\ o.rect.x + o.rect.width <= image.w
      /\ o.rect.y >= 0 /\ o.rect.height >= 0 /\ o.rect.y + o.rect.height <= image.h
  BY <1>3, <1>4, <1>5
<1>10. image.w <= LimitW /\ image.h <= LimitH =>
         /\ o.rect.x = Trunc(o.x) /\ o.rect.width = Trunc(o.x + o.w) - Trunc(o.x)
         /\ o.rect.y = Trunc(o.y) /\ o.rect.height = Trunc(o.y + o.h) - Trunc(o.y)
  BY <1>4, <1>6, <1>7, <1>8
<1> QED BY <1>9, <1>10 DEF RectOK, o

LEMMA PostprocessRects ==
    ASSUME NEW image, IsImage(image), NEW outputs, NEW r \in Postprocess(image, outputs)
    PROVE  \A o \in Range(r.objs) : RectOK(o, image)
<1> DEFINE w == image.w
           h == image.h
<1>1. CASE outputs # OutputNum
  <2>1. r.objs = << >>
    BY <1>1 DEF Postprocess
  <2> QED BY <2>1 DEF Range
<1>2. CASE outputs = OutputNum
  <2>1. PICK s \in Sorted(Proposals(image)) : r = CutOut(Nms(s), w, h)
    BY <1>2 DEF Postprocess
  <2> DEFINE m == Nms(s)
             P == Proposals(image)
  <2>2. /\ IsFiniteSet(P) /\ \A p \in P : IsBox(p.box)
    BY ProposalFacts
  <2>3. m \in Seq(P)
    <3>1. s \in Seq(P)
      BY <2>1, <2>2, SortedType
    <3> QED BY <3>1, NmsType
  <2> HIDE DEF m, P
  <2>4. PICK c \in 0 .. Len(m) :
           /\ \A k \in 1 .. c : Frontal(m[k]) => Within(m[k], w, h)
           /\ \E pos : Picks(CutOut(m, w, h).objs, pos, {k \in 1 .. c : Frontal(m[k])},
                             [k \in 1 .. c |-> FaceOf(m[k], w, h)])
           /\ CutOut(m, w, h).objs \in Seq({FaceOf(m[k], w, h) : k \in 1 .. c})
    BY <2>3, CutOutFacts
  <2> DEFINE objs == r.objs
             F == {k \in 1 .. c : Frontal(m[k])}
             g == [k \in 1 .. c |-> FaceOf(m[k], w, h)]
  <2>5. PICK pos : Picks(objs, pos, F, g)
    BY <2>1, <2>4 DEF m
  <2>6. Len(objs) \in Nat /\ DOMAIN objs = 1 .. Len(objs)
    BY <2>1, <2>4 DEF m
  <2> HIDE DEF objs
  <2>7. \A i \in 1 .. Len(objs) : pos[i] \in F /\ objs[i] = g[pos[i]]
    BY <2>5 DEF Picks
  <2>8. \A k \in F : RectOK(g[k], image)
    <3> TAKE k \in F
    <3>1. k \in DOMAIN m /\ Within(m[k], w, h) /\ g[k] = FaceOf(m[k], w, h)
      BY <2>3, <2>4
    <3>2. IsBox(m[k].box)
      BY <2>2, <2>3, <3>1
    <3>3. w \in Nat /\ h \in Nat
      BY DEF IsImage
    <3> QED BY <3>1, <3>2, <3>3, FaceInImage
  <2> QED BY <2>6, <2>7, <2>8, ZenonT(60) DEF Range, objs
<1> QED BY <1>1, <1>2

LEMMA OutcomeRects ==
    ASSUME NEW f, NEW r \in Outcomes(f)
    PROVE  \A o \in Range(r.objs) : RectOK(o, frames[f].image)
<1>1. PICK i \in Images, o \in {c.outputs : c \in Configurations} :
        r \in Postprocess(i, o) /\ i = frames[f].image
  BY DEF Outcomes, Found
<1> QED BY <1>1, ImageFacts, PostprocessRects

\* The classifier's faces do, as its rectangles do.
LEMMA DetectedRects ==
    ASSUME NEW image, IsImage(image), NEW k \in DOMAIN image.faces
    PROVE  RectOK(DetectedFace(image.faces[k], image), image)
<1> DEFINE r == image.faces[k]
           o == DetectedFace(r, image)
<1>1. IsRectOf(r, image) /\ image.w \in Nat /\ image.h \in Nat
  BY DEF IsImage, Range
<1>2. o.rect = r /\ o.fp = << >>
  BY DEF DetectedFace
<1> HIDE DEF r, o
<1>3. /\ r.x \in Nat /\ r.y \in Nat /\ r.width \in Nat /\ r.height \in Nat
      /\ r.x + r.width <= image.w /\ r.y + r.height <= image.h
  BY <1>1 DEF IsRectOf
<1> QED BY <1>2, <1>3 DEF RectOK, o, r

LEMMA ConcatRange ==
    ASSUME NEW s, NEW t, IsList(s), IsList(t), NEW T, Range(s) \subseteq T, Range(t) \subseteq T
    PROVE  Range(s \o t) \subseteq T
<1>1. Range(s \o t) \subseteq Range(s) \cup Range(t)
  BY ConcatLists
<1> QED BY <1>1

\* What a response adds to a frame are faces that were found in its image.
LEMMA RespondRects ==
    ASSUME GraphIInv, FlowOK, FacesInImage, NEW n \in ModuleNames, Respond(n)
    PROVE  FacesInImage'
<1> DEFINE batch == Head(requests[n])
<1>20. PICK nulls \in NullData(batch) :
           \E result :
             /\ \A k \in 1 .. Batch :
                  result[k] \in IF k \in nulls THEN {Nothing} ELSE Outcomes(batch[k])
             /\ \E behind \in SUBSET {k \in 1 .. Batch :
                                        \E j \in 1 .. k - 1 : result[j].thrown} :
                  /\ late' = late \cup
                       {[frame |-> batch[k], at |-> k, objs |-> result[k].objs,
                         null |-> k \in nulls] : k \in behind}
                  /\ frames' = AllWithFaces(batch, result, behind)
  BY ZenonT(60) DEF Respond
<1>21. PICK result :
             /\ \A k \in 1 .. Batch :
                  result[k] \in IF k \in nulls THEN {Nothing} ELSE Outcomes(batch[k])
             /\ \E behind \in SUBSET {k \in 1 .. Batch :
                                        \E j \in 1 .. k - 1 : result[j].thrown} :
                  /\ late' = late \cup
                       {[frame |-> batch[k], at |-> k, objs |-> result[k].objs,
                         null |-> k \in nulls] : k \in behind}
                  /\ frames' = AllWithFaces(batch, result, behind)
  BY <1>20
<1>22. PICK behind \in SUBSET {k \in 1 .. Batch : \E j \in 1 .. k - 1 : result[j].thrown} :
             /\ late' = late \cup
                  {[frame |-> batch[k], at |-> k, objs |-> result[k].objs,
                    null |-> k \in nulls] : k \in behind}
             /\ frames' = AllWithFaces(batch, result, behind)
  BY <1>21
<1>1. /\ behind \in SUBSET (1 .. Batch)
      /\ \A k \in 1 .. Batch : result[k] = Nothing \/ result[k] \in Outcomes(batch[k])
      /\ late' = late \cup
           {[frame |-> batch[k], at |-> k, objs |-> result[k].objs,
             null |-> k \in nulls] : k \in behind}
      /\ frames' = AllWithFaces(batch, result, behind)
  <2>1. \A k \in 1 .. Batch : result[k] = Nothing \/ result[k] \in Outcomes(batch[k])
    BY <1>21
  <2>2. behind \in SUBSET (1 .. Batch)
    BY <1>22
  <2> HIDE DEF batch
  <2> QED BY <1>22, <2>1, <2>2
<1> HIDE DEF batch
<1>2. Batch \in Nat
  BY FramePathAssumption DEF FramePathAssumption
<1>3. \A k \in 1 .. Batch : /\ IsList(result[k].objs)
                            /\ \A o \in Range(result[k].objs) : RectOK(o, frames[batch[k]].image)
  <2>1. IsList(Nothing.objs) /\ Range(Nothing.objs) = {}
    BY DEF Nothing, IsList, Range
  <2> QED BY <1>1, <2>1, OutcomeFacts, OutcomeRects
<1>4. Plain' = Plain /\ DOMAIN frames' = DOMAIN frames
  BY RespondFacts, MoreFacts
<1>5. ASSUME NEW f \in Plain
      PROVE  /\ frames'[f].image = frames[f].image
             /\ \A o \in Range(frames'[f].objs) : RectOK(o, frames[f].image)
  <2> DEFINE v == [k \in 1 .. Batch |->
                     IF batch[k] = f /\ k \notin behind THEN result[k].objs
                                                       ELSE << >>]
             more == FlattenSeq(v)
             T == {o \in Range(frames[f].objs) \cup UNION {Range(v[k]) : k \in 1 .. Batch} :
                     RectOK(o, frames[f].image)}
  <2>1. f \in DOMAIN frames /\ ~frames[f].eos /\ IsFrame(frames[f])
    BY DEF Plain, FlowOK
  <2>2. Range(frames[f].objs) \subseteq T /\ \A o \in T : RectOK(o, frames[f].image)
    BY <2>1 DEF FacesInImage
  <2>3. CASE f \notin Range(batch)
    <3>1. frames'[f] = frames[f]
      BY <1>1, <2>1, <2>3 DEF AllWithFaces
    <3> QED BY <2>2, <3>1
  <2>4. CASE f \in Range(batch)
    <3>1. frames'[f] = [frames[f] EXCEPT !.objs = @ \o more]
      BY <1>1, <2>1, <2>4 DEF AllWithFaces
    <3>2. ASSUME NEW k \in 1 .. Batch PROVE v[k] \in Seq(T)
      <4>1. CASE batch[k] = f /\ k \notin behind
        <5>1. v[k] = result[k].objs
          BY <4>1
        <5>2. Range(v[k]) \subseteq T
          BY <1>3, <4>1, <5>1
        <5>3. v[k] \in Seq(Range(v[k]))
          BY <1>3, <5>1 DEF IsList
        <5> HIDE DEF v, T
        <5> QED BY <5>2, <5>3, SeqWider
      <4>2. CASE ~(batch[k] = f /\ k \notin behind)
        <5>1. v[k] = << >>
          BY <4>2
        <5> HIDE DEF v, T
        <5> QED BY <5>1, EmptyType
      <4> QED BY <4>1, <4>2
    <3>3. v = [k \in 1 .. Batch |-> v[k]]
      OBVIOUS
    <3> HIDE DEF v, T
    <3>4. v \in Seq(Seq(T))
      <4> DEFINE S == Seq(T)
      <4>1. \A k \in 1 .. Batch : v[k] \in S
        BY <3>2
      <4> HIDE DEF S
      <4>2. v \in [1 .. Batch -> S]
        BY <3>3, <4>1
      <4>3. v \in Seq(S)
        BY <1>2, <4>2
      <4> QED BY <4>3 DEF S
    <3>5. more \in Seq(T)
      BY <3>4, FlattenType
    <3> HIDE DEF more
    <3>6. IsList(more) /\ Range(more) \subseteq T
      BY <3>5, ListFacts
    <3>7. frames'[f].image = frames[f].image /\ frames'[f].objs = frames[f].objs \o more
      <4> DEFINE x == frames[f]
      <4>1. IsFrame(x) /\ ~x.eos /\ frames'[f] = [x EXCEPT !.objs = @ \o more]
        BY <2>1, <3>1
      <4> HIDE DEF x
      <4>2. LET y == [x EXCEPT !.objs = @ \o more] IN
            y.image = x.image /\ y.objs = x.objs \o more
        BY <3>6, <4>1, FacesFrame
      <4>3. frames'[f].image = x.image /\ frames'[f].objs = x.objs \o more
        BY <4>1, <4>2
      <4> QED BY <4>3 DEF x
    <3>8. IsList(frames[f].objs)
      BY <2>1 DEF IsFrame
    <3>9. Range(frames[f].objs \o more) \subseteq T
      BY <2>2, <3>6, <3>8, ConcatRange
    <3> QED BY <2>2, <3>7, <3>9
  <2> QED BY <2>3, <2>4
<1>6. \A k \in 1 .. Batch : batch[k] \in Plain
  <2> DEFINE B == {b \in Seq(Plain) : Len(b) = Batch}
  <2>1. requests[n] \in Seq(B) /\ requests[n] # << >>
    BY DEF FlowOK, HeldOK, Respond
  <2> HIDE DEF B
  <2>2. batch \in B
    BY <2>1, HeadType DEF batch
  <2> QED BY <2>2 DEF B
<1>7. \A x \in late' : \A o \in Range(x.objs) : RectOK(o, frames'[x.frame].image)
  <2> SUFFICES ASSUME NEW x \in late'
               PROVE  \A o \in Range(x.objs) : RectOK(o, frames'[x.frame].image)
    OBVIOUS
  <2>1. CASE x \in late
    <3>1. x.frame \in Plain
      BY <2>1 DEF FlowOK, HeldOK
    <3> QED BY <1>5, <2>1, <3>1 DEF FacesInImage
  <2>2. CASE x \notin late
    <3>1. PICK k \in behind : x = [frame |-> batch[k], at |-> k, objs |-> result[k].objs,
                                   null |-> k \in nulls]
      BY <1>1, <2>2
    <3>2. k \in 1 .. Batch /\ x.frame = batch[k] /\ x.objs = result[k].objs
      BY <1>1, <3>1
    <3> QED BY <1>3, <1>5, <1>6, <3>2
  <2> QED BY <2>1, <2>2
<1>8. \A f \in DOMAIN frames' : ~frames'[f].eos =>
        \A o \in Range(frames'[f].objs) : RectOK(o, frames'[f].image)
  <2> SUFFICES ASSUME NEW f \in DOMAIN frames', ~frames'[f].eos
               PROVE  \A o \in Range(frames'[f].objs) : RectOK(o, frames'[f].image)
    OBVIOUS
  <2>1. f \in Plain
    BY <1>4 DEF Plain
  <2> QED BY <1>5, <2>1
<1> QED BY <1>7, <1>8 DEF FacesInImage

LEMMA FinishRects ==
    ASSUME FlowOK, FacesInImage, Finish
    PROVE  FacesInImage'
<1>1. PICK x \in late : /\ frames' = WithFaces(frames, x.frame, x.objs)
                        /\ late' = late \ {x}
  BY DEF Finish
<1> DEFINE f == x.frame
           z == frames[f]
           y == [z EXCEPT !.objs = @ \o x.objs]
<1>2. f \in Plain /\ IsList(x.objs)
  BY DEF FlowOK, HeldOK
<1>3. f \in DOMAIN frames /\ ~z.eos /\ IsFrame(z)
  BY <1>2 DEF Plain, FlowOK
<1>4. frames' = [frames EXCEPT ![f] = y]
  BY <1>1, <1>3 DEF WithFaces
<1>f. frames = [g \in DOMAIN frames |-> frames[g]]
  <2>1. frames \in Seq(Range(frames))
    BY DEF FlowOK, IsList
  <2> QED BY <2>1
<1>z. /\ \A o \in Range(z.objs) : RectOK(o, z.image)
      /\ \A o \in Range(x.objs) : RectOK(o, z.image)
  BY <1>3 DEF FacesInImage
<1>l. IsList(z.objs)
  BY <1>3 DEF IsFrame
<1>5. DOMAIN frames' = DOMAIN frames /\ frames'[f] = y
      /\ \A g \in DOMAIN frames : g # f => frames'[g] = frames[g]
  BY <1>3, <1>4, <1>f
<1> HIDE DEF z
<1>6. y.objs = z.objs \o x.objs /\ y.image = z.image
  BY <1>2, <1>3, FacesFrame
<1>7. \A o \in Range(z.objs \o x.objs) : RectOK(o, z.image)
  BY <1>2, <1>l, <1>z, ConcatLists
<1> HIDE DEF y
<1>8. \A g \in DOMAIN frames : frames'[g].image = frames[g].image
  BY <1>5, <1>6 DEF z
<1>9. \A g \in DOMAIN frames' : ~frames'[g].eos =>
        \A o \in Range(frames'[g].objs) : RectOK(o, frames'[g].image)
  BY <1>5, <1>6, <1>7 DEF FacesInImage
<1>10. \A a \in late' : \A o \in Range(a.objs) : RectOK(o, frames'[a.frame].image)
  <2>1. \A a \in late : a.frame \in DOMAIN frames
    BY DEF FlowOK, HeldOK, Plain
  <2> QED BY <1>1, <1>8, <2>1 DEF FacesInImage
<1> QED BY <1>9, <1>10 DEF FacesInImage

LEMMA DetectRects ==
    ASSUME GraphIInv, StartOK, MainOK, FlowOK, FacesInImage, NEW n \in ModuleNames, Detect(n)
    PROVE  FacesInImage'
<1> DEFINE f == Taken(n)
           z == frames[f]
           found == [k \in DOMAIN z.image.faces |->
                        DetectedFace(z.image.faces[k], z.image)]
           y == [z EXCEPT !.objs = @ \o found]
<1>1. /\ f \in Plain /\ f \in DOMAIN frames /\ ~z.eos /\ IsFrame(z)
  BY TakenPlain DEF Detect, Plain, FlowOK
<1>2. frames' = [frames EXCEPT ![f].objs = @ \o found] /\ UNCHANGED late
  BY DEF Detect
<1>3. z.image \in Images
  BY <1>1 DEF Detect, Imageless, IsFrame
<1>4. IsImage(z.image)
  BY <1>3, ImageFacts
<1>5. \A k \in DOMAIN z.image.faces : RectOK(found[k], z.image)
  BY <1>4, DetectedRects
<1>6. IsList(found)
  <2> DEFINE fs == z.image.faces
             T == {DetectedFace(fs[k], z.image) : k \in DOMAIN fs}
  <2>1. Len(fs) \in Nat /\ DOMAIN fs = 1 .. Len(fs)
    BY <1>4 DEF IsImage
  <2>2. \A k \in DOMAIN fs : found[k] \in T
    OBVIOUS
  <2>3. found = [k \in 1 .. Len(fs) |-> found[k]]
    BY <2>1
  <2> HIDE DEF found, T, fs
  <2>4. found \in Seq(T)
    BY <2>1, <2>2, <2>3
  <2> QED BY <2>4, ListFacts
<1>7. Range(found) = {found[k] : k \in DOMAIN z.image.faces}
  BY DEF Range
<1> HIDE DEF found
<1>8. frames' = [frames EXCEPT ![f] = y]
  BY <1>1, <1>2
<1>f. frames = [g \in DOMAIN frames |-> frames[g]]
  <2>1. frames \in Seq(Range(frames))
    BY DEF FlowOK, IsList
  <2> QED BY <2>1
<1>9. DOMAIN frames' = DOMAIN frames /\ frames'[f] = y
      /\ \A g \in DOMAIN frames : g # f => frames'[g] = frames[g]
  BY <1>1, <1>8, <1>f
<1>z. \A o \in Range(z.objs) : RectOK(o, z.image)
  BY <1>1 DEF FacesInImage
<1>l. IsList(z.objs)
  BY <1>1 DEF IsFrame
<1> HIDE DEF z
<1>10. y.objs = z.objs \o found /\ y.image = z.image
  BY <1>1, <1>6, FacesFrame
<1>11. \A o \in Range(z.objs \o found) : RectOK(o, z.image)
  BY <1>5, <1>6, <1>7, <1>l, <1>z, ConcatLists
<1> HIDE DEF y
<1>12. \A g \in DOMAIN frames : frames'[g].image = frames[g].image
  BY <1>9, <1>10 DEF z
<1>13. \A g \in DOMAIN frames' : ~frames'[g].eos =>
        \A o \in Range(frames'[g].objs) : RectOK(o, frames'[g].image)
  BY <1>9, <1>10, <1>11 DEF FacesInImage
<1>14. \A a \in late' : \A o \in Range(a.objs) : RectOK(o, frames'[a.frame].image)
  <2>1. \A a \in late : a.frame \in DOMAIN frames
    BY DEF FlowOK, HeldOK, Plain
  <2> QED BY <1>2, <1>12, <2>1 DEF FacesInImage
<1> QED BY <1>13, <1>14 DEF FacesInImage

LEMMA FlowRects ==
    ASSUME GraphIInv, StartOK, MainOK, FlowOK, FacesInImage, Flow
    PROVE  FacesInImage'
<1>1. ASSUME UNCHANGED <<frames, late>> PROVE FacesInImage'
  BY <1>1 DEF FacesInImage
<1>2. ASSUME NEW x, IsFrame(x), ~x.eos => x.objs = << >>,
             frames' = Append(frames, x), UNCHANGED late
      PROVE  FacesInImage'
  <2>1. /\ DOMAIN frames' = DOMAIN frames \cup {Len(frames) + 1}
        /\ frames'[Len(frames) + 1] = x
        /\ \A f \in DOMAIN frames : frames'[f] = frames[f]
    BY <1>2, NewFrame
  <2>2. \A a \in late : a.frame \in DOMAIN frames
    BY DEF FlowOK, HeldOK, Plain
  <2>3. \A a \in late' : frames'[a.frame] = frames[a.frame]
    BY <1>2, <2>1, <2>2
  <2>4. ~x.eos => \A o \in Range(x.objs) : RectOK(o, x.image)
    <3>1. Range(<< >>) = {}
      BY DEF Range
    <3> QED BY <1>2, <3>1
  <2>5. \A f \in DOMAIN frames' : ~frames'[f].eos =>
          \A o \in Range(frames'[f].objs) : RectOK(o, frames'[f].image)
    BY <2>1, <2>4 DEF FacesInImage
  <2>6. \A a \in late' : \A o \in Range(a.objs) : RectOK(o, frames'[a.frame].image)
    BY <1>2, <2>3 DEF FacesInImage
  <2> QED BY <2>5, <2>6 DEF FacesInImage
<1>3. CASE SourceFrame
  <2> DEFINE x == [eos |-> FALSE, image |-> Head(stream), objs |-> << >>]
  <2>1. /\ frames' = Append(frames, x) /\ UNCHANGED late
        /\ stream # << >> /\ Head(stream) # Moved
    BY <1>3 DEF SourceFrame
  <2>2. Head(stream) \in Images \cup {NoImage}
    <3> DEFINE S == Images \cup {NoImage, Moved}
    <3>1. stream \in Seq(S)
      BY DEF FlowOK
    <3> HIDE DEF S
    <3>2. Head(stream) \in S
      BY <2>1, <3>1, HeadType
    <3> QED BY <2>1, <3>2 DEF S
  <2>3. IsFrame(x) /\ x.objs = << >>
    <3>1. IsList(<< >>)
      BY DEF IsList
    <3> QED BY <2>2, <3>1 DEF IsFrame
  <2> HIDE DEF x
  <2> QED BY <1>2, <2>1, <2>3
<1>4. CASE SourceEos
  <2> DEFINE x == [eos |-> TRUE]
  <2>1. frames' = Append(frames, x) /\ UNCHANGED late
    BY <1>4 DEF SourceEos
  <2>2. IsFrame(x) /\ x.eos
    BY DEF IsFrame
  <2> HIDE DEF x
  <2> QED BY <1>2, <2>1, <2>2
<1>5. CASE Crash \/ MainCrash \/ MainRun \/ SourceCrash \/ MainExit \/ ObserverStop
  BY <1>1, <1>5 DEF MainCrash, MainRun, SourceCrash, MainExit, ObserverStop,
                    Crash, pathVars, flowVars
<1>6. ASSUME NEW n \in ModuleNames, Process(n) PROVE FacesInImage'
  <2>1. CASE Detect(n)
    BY <2>1, DetectRects
  <2>2. CASE ~Detect(n)
    <3>1. UNCHANGED <<frames, late>>
      BY <1>6, <2>2 DEF Process, ProcessEos, Collect, PassOn, Show, Warp, Crash,
                        pathVars, flowVars
    <3> QED BY <1>1, <3>1
  <2> QED BY <2>1, <2>2
<1>7. ASSUME NEW t \in Threads, Transmit(t) PROVE FacesInImage'
  BY <1>1, <1>7 DEF Transmit
<1>8. ASSUME NEW n \in ModuleNames, Respond(n) PROVE FacesInImage'
  BY <1>8, RespondRects
<1> QED BY <1>3, <1>4, <1>5, <1>6, <1>7, <1>8, FinishRects, MissingCrash DEF Decode

\* Every face that a frame has or will have lies in its image, whichever module
\* found it (Postprocess, DetectObjs, OpencvDetect).
THEOREM FacesInImageCorrect == PathSpec => []FacesInImage
<1>1. PathInit => FacesInImage
  BY DEF PathInit, FacesInImage
<1>2. ASSUME PathIInv, FacesInImage, [PathNext]_programVars PROVE FacesInImage'
  <2>1. CASE Flow
    BY <1>2, <2>1, FlowRects DEF PathIInv
  <2>2. CASE UNCHANGED pathVars
    BY <1>2, <2>2 DEF FacesInImage, pathVars, flowVars
  <2> QED BY <1>2, <2>1, <2>2 DEF PathNext, programVars
<1> QED BY <1>1, <1>2, PathInvariance, PTL DEF PathSpec

-----------------------------------------------------------------------------
(* Lists of frames in order.                                               *)

Before(S, T) == \A x \in S : \A y \in T : x < y

\* Those of the frames F that are in s are in order.
Rising(s, F) == \A i, j \in DOMAIN s : (i < j /\ s[i] \in F /\ s[j] \in F) => s[i] < s[j]

SentRising(s, F) ==
    \A i, j \in DOMAIN s :
        (i < j /\ s[i].to = s[j].to /\ s[i].frame \in F /\ s[j].frame \in F) =>
            s[i].frame < s[j].frame

SentTo(s, m, F) == {s[i].frame : i \in {k \in DOMAIN s : s[k].to = m}} \cap F

LEMMA RisingTail ==
    ASSUME NEW D, NEW s \in Seq(D), s # << >>, NEW F, Rising(s, F)
    PROVE  /\ Rising(Tail(s), F)
           /\ Range(Tail(s)) \subseteq Range(s) /\ Head(s) \in Range(s)
           /\ Head(s) \in F => Before({Head(s)}, Range(Tail(s)) \cap F)
<1>1. /\ Len(s) \in Nat /\ Len(s) > 0 /\ DOMAIN s = 1 .. Len(s) /\ Head(s) = s[1]
      /\ DOMAIN Tail(s) = 1 .. Len(s) - 1
      /\ \A i \in 1 .. Len(s) - 1 : Tail(s)[i] = s[i + 1]
  OBVIOUS
<1>2. \A i \in 1 .. Len(s) - 1 : i + 1 \in 1 .. Len(s) /\ 1 < i + 1 /\ 1 \in 1 .. Len(s)
  BY <1>1
<1>3. Rising(Tail(s), F)
  <2> SUFFICES ASSUME NEW i \in 1 .. Len(s) - 1, NEW j \in 1 .. Len(s) - 1,
                      i < j, s[i + 1] \in F, s[j + 1] \in F
               PROVE  s[i + 1] < s[j + 1]
    BY <1>1 DEF Rising
  <2>1. i + 1 < j + 1
    BY <1>1
  <2> QED BY <1>1, <1>2, <2>1 DEF Rising
<1>4. Range(Tail(s)) \subseteq Range(s) /\ Head(s) \in Range(s)
  BY <1>1, <1>2 DEF Range
<1>5. Head(s) \in F => Before({Head(s)}, Range(Tail(s)) \cap F)
  <2> SUFFICES ASSUME s[1] \in F, NEW i \in 1 .. Len(s) - 1, s[i + 1] \in F
               PROVE  s[1] < s[i + 1]
    BY <1>1 DEF Before, Range
  <2> QED BY <1>1, <1>2 DEF Rising
<1> QED BY <1>3, <1>4, <1>5

LEMMA RisingAppend ==
    ASSUME NEW D, NEW s \in Seq(D), NEW f \in D, NEW F, Rising(s, F),
           f \in F => Before(Range(s) \cap F, {f})
    PROVE  /\ Rising(Append(s, f), F)
           /\ Range(Append(s, f)) = Range(s) \cup {f}
<1>1. /\ Len(s) \in Nat /\ DOMAIN s = 1 .. Len(s)
      /\ DOMAIN Append(s, f) = 1 .. Len(s) + 1
      /\ Append(s, f)[Len(s) + 1] = f
      /\ \A i \in 1 .. Len(s) : Append(s, f)[i] = s[i]
  OBVIOUS
<1> DEFINE a == Append(s, f)
<1> HIDE DEF a
<1>2. ASSUME NEW i \in 1 .. Len(s) + 1, NEW j \in 1 .. Len(s) + 1, i < j,
             a[i] \in F, a[j] \in F
      PROVE  a[i] < a[j]
  <2>1. i \in 1 .. Len(s) /\ a[i] = s[i]
    BY <1>1, <1>2 DEF a
  <2>2. CASE j = Len(s) + 1
    <3>1. a[j] = f
      BY <1>1, <2>2 DEF a
    <3>2. s[i] \in Range(s) \cap F
      BY <1>1, <1>2, <2>1 DEF Range
    <3> QED BY <1>2, <2>1, <3>1, <3>2 DEF Before
  <2>3. CASE j # Len(s) + 1
    <3>1. j \in 1 .. Len(s) /\ a[j] = s[j]
      BY <1>1, <2>3 DEF a
    <3> QED BY <1>1, <1>2, <2>1, <3>1 DEF Rising
  <2> QED BY <2>2, <2>3
<1>3. Rising(a, F)
  BY <1>1, <1>2 DEF Rising, a
<1>4. Range(a) = Range(s) \cup {f}
  <2>1. \A i \in 1 .. Len(s) : i \in 1 .. Len(s) + 1
    BY <1>1
  <2>2. Len(s) + 1 \in 1 .. Len(s) + 1
    BY <1>1
  <2>3. \A i \in 1 .. Len(s) + 1 : i \in 1 .. Len(s) \/ i = Len(s) + 1
    BY <1>1
  <2> QED BY <1>1, <2>1, <2>2, <2>3 DEF Range, a
<1> QED BY <1>3, <1>4 DEF a

LEMMA SentTail ==
    ASSUME NEW D, NEW G, NEW s \in Seq([frame : D, to : G]), s # << >>,
           NEW F, SentRising(s, F)
    PROVE  /\ SentRising(Tail(s), F)
           /\ \A m : SentTo(Tail(s), m, F) \subseteq SentTo(s, m, F)
           /\ Head(s).frame \in F =>
                /\ Head(s).frame \in SentTo(s, Head(s).to, F)
                /\ Before({Head(s).frame}, SentTo(Tail(s), Head(s).to, F))
           /\ Head(s).frame \in D /\ Head(s).to \in G
<1> DEFINE S == [frame : D, to : G]
<1>h. Head(s).frame \in D /\ Head(s).to \in G
  <2>1. s \in Seq(S)
    OBVIOUS
  <2> HIDE DEF S
  <2>2. Head(s) \in S
    BY <2>1, HeadType
  <2> QED BY <2>2 DEF S
<1>s. s \in Seq(S)
  OBVIOUS
<1> HIDE DEF S
<1>1. /\ Len(s) \in Nat /\ Len(s) > 0 /\ DOMAIN s = 1 .. Len(s) /\ Head(s) = s[1]
      /\ DOMAIN Tail(s) = 1 .. Len(s) - 1
      /\ \A i \in 1 .. Len(s) - 1 : Tail(s)[i] = s[i + 1]
  BY <1>s
<1>2. \A i \in 1 .. Len(s) - 1 : i + 1 \in 1 .. Len(s) /\ 1 < i + 1 /\ 1 \in 1 .. Len(s)
  BY <1>1
<1>3. SentRising(Tail(s), F)
  <2> SUFFICES ASSUME NEW i \in 1 .. Len(s) - 1, NEW j \in 1 .. Len(s) - 1,
                      i < j, s[i + 1].to = s[j + 1].to,
                      s[i + 1].frame \in F, s[j + 1].frame \in F
               PROVE  s[i + 1].frame < s[j + 1].frame
    BY <1>1 DEF SentRising
  <2>1. i + 1 < j + 1
    BY <1>1
  <2> QED BY <1>1, <1>2, <2>1 DEF SentRising
<1>4. \A m : SentTo(Tail(s), m, F) \subseteq SentTo(s, m, F)
  BY <1>1, <1>2 DEF SentTo
<1>5. Head(s).frame \in F => Head(s).frame \in SentTo(s, Head(s).to, F)
  BY <1>1 DEF SentTo
<1>6. Head(s).frame \in F => Before({Head(s).frame}, SentTo(Tail(s), Head(s).to, F))
  <2> SUFFICES ASSUME s[1].frame \in F, NEW i \in 1 .. Len(s) - 1,
                      s[i + 1].to = s[1].to, s[i + 1].frame \in F
               PROVE  s[1].frame < s[i + 1].frame
    BY <1>1 DEF Before, SentTo
  <2> QED BY <1>1, <1>2 DEF SentRising
<1> QED BY <1>3, <1>4, <1>5, <1>6, <1>h

\* The pushes of one frame go each to another module.
LEMMA SentPushes ==
    ASSUME MapsOK, CountsAgree, ~FanIn, NEW n \in Created, NEW f, NEW F
    PROVE  /\ SentRising(Pushes(n, f), F)
           /\ \A i, j \in DOMAIN Pushes(n, f) :
                 Pushes(n, f)[i].to = Pushes(n, f)[j].to => i = j
           /\ \A m : SentTo(Pushes(n, f), m, F) \subseteq {f} \cap F
           /\ \A m \in Targets(n) : f \in F => f \in SentTo(Pushes(n, f), m, F)
<1> DEFINE p == Pushes(n, f)
           o == output_connectors[n]
<1>1. DOMAIN p = DOMAIN o /\ \A i \in DOMAIN o : p[i].frame = f /\ p[i].to = o[i]
  BY DEF Pushes
<1>2. \A i, j \in DOMAIN o : o[i] = o[j] => i = j
  BY OnlyLink
<1> HIDE DEF p
<1>3. \A i, j \in DOMAIN p : p[i].to = p[j].to => i = j
  BY <1>1, <1>2
<1>4. SentRising(p, F)
  <2>1. \A i \in DOMAIN p : ~(i < i)
    <3>1. o \in Seq(Created)
      BY DEF MapsOK
    <3>2. DOMAIN o \subseteq Nat
      BY <3>1
    <3> QED BY <1>1, <3>2
  <2> QED BY <1>3, <2>1 DEF SentRising
<1>5. \A m : SentTo(p, m, F) \subseteq {f} \cap F
  BY <1>1 DEF SentTo
<1>6. \A m \in Targets(n) : f \in F => f \in SentTo(p, m, F)
  BY <1>1 DEF SentTo, Targets, Range
<1> QED BY <1>3, <1>4, <1>5, <1>6 DEF p

LEMMA SentNone ==
    ASSUME NEW F
    PROVE  SentRising(<< >>, F) /\ \A m : SentTo(<< >>, m, F) = {}
BY DEF SentRising, SentTo

LEMMA RisingNone ==
    ASSUME NEW F
    PROVE  Rising(<< >>, F) /\ Range(<< >>) = {}
BY DEF Rising, Range

LEMMA SentConcat ==
    ASSUME NEW S, NEW s \in Seq(S), NEW q \in Seq(S), NEW F,
           SentRising(s, F), SentRising(q, F),
           \A m : Before(SentTo(s, m, F), SentTo(q, m, F))
    PROVE  /\ SentRising(s \o q, F)
           /\ \A m : SentTo(s \o q, m, F) = SentTo(s, m, F) \cup SentTo(q, m, F)
<1>1. /\ Len(s) \in Nat /\ Len(q) \in Nat
      /\ DOMAIN s = 1 .. Len(s) /\ DOMAIN q = 1 .. Len(q)
      /\ DOMAIN (s \o q) = 1 .. (Len(s) + Len(q))
      /\ \A k \in 1 .. (Len(s) + Len(q)) :
           (s \o q)[k] = IF k <= Len(s) THEN s[k] ELSE q[k - Len(s)]
  OBVIOUS
<1> DEFINE a == s \o q
           l == Len(s)
           r == Len(q)
<1>2. \A k \in 1 .. l + r : \/ k \in 1 .. l /\ a[k] = s[k]
                            \/ k - l \in 1 .. r /\ a[k] = q[k - l]
  <2> TAKE k \in 1 .. l + r
  <2>1. CASE k <= l
    BY <1>1, <2>1
  <2>2. CASE ~(k <= l)
    BY <1>1, <2>2
  <2> QED BY <2>1, <2>2
<1>3. /\ \A k \in 1 .. l : k \in 1 .. l + r /\ a[k] = s[k]
      /\ \A k \in 1 .. r : k + l \in 1 .. l + r /\ a[k + l] = q[k]
  <2>1. ASSUME NEW k \in 1 .. l PROVE k \in 1 .. l + r /\ a[k] = s[k]
    BY <1>1
  <2>2. ASSUME NEW k \in 1 .. r PROVE k + l \in 1 .. l + r /\ a[k + l] = q[k]
    <3>1. k + l \in 1 .. l + r /\ ~(k + l <= l) /\ (k + l) - l = k
      BY <1>1
    <3> QED BY <1>1, <3>1
  <2> QED BY <2>1, <2>2
<1>4. DOMAIN a = 1 .. l + r /\ DOMAIN s = 1 .. l /\ DOMAIN q = 1 .. r /\ l \in Nat /\ r \in Nat
  BY <1>1
<1> HIDE DEF a, l, r
<1>5. \A m : SentTo(a, m, F) = SentTo(s, m, F) \cup SentTo(q, m, F)
  <2> TAKE m
  <2>1. SentTo(a, m, F) \subseteq SentTo(s, m, F) \cup SentTo(q, m, F)
    <3> SUFFICES ASSUME NEW k \in 1 .. l + r, a[k].to = m, a[k].frame \in F
                 PROVE  a[k].frame \in SentTo(s, m, F) \cup SentTo(q, m, F)
      BY <1>4 DEF SentTo
    <3> QED BY <1>2, <1>4 DEF SentTo
  <2>2. SentTo(s, m, F) \subseteq SentTo(a, m, F)
    BY <1>3, <1>4 DEF SentTo
  <2>3. SentTo(q, m, F) \subseteq SentTo(a, m, F)
    BY <1>3, <1>4 DEF SentTo
  <2> QED BY <2>1, <2>2, <2>3
<1>6. SentRising(a, F)
  <2> SUFFICES ASSUME NEW i \in 1 .. l + r, NEW j \in 1 .. l + r, i < j,
                      a[i].to = a[j].to, a[i].frame \in F, a[j].frame \in F
               PROVE  a[i].frame < a[j].frame
    BY <1>4 DEF SentRising
  <2>1. CASE i \in 1 .. l /\ a[i] = s[i] /\ j \in 1 .. l /\ a[j] = s[j]
    BY <1>4, <2>1 DEF SentRising
  <2>2. CASE /\ i \in 1 .. l /\ a[i] = s[i]
             /\ j - l \in 1 .. r /\ a[j] = q[j - l]
    <3>1. s[i].frame \in SentTo(s, s[i].to, F)
      BY <1>4, <2>2 DEF SentTo
    <3>2. q[j - l].frame \in SentTo(q, s[i].to, F)
      BY <1>4, <2>2 DEF SentTo
    <3> QED BY <2>2, <3>1, <3>2 DEF Before
  <2>3. CASE /\ i - l \in 1 .. r /\ a[i] = q[i - l]
             /\ j - l \in 1 .. r /\ a[j] = q[j - l]
    <3>1. i - l < j - l
      BY <1>4
    <3> QED BY <1>4, <2>3, <3>1 DEF SentRising
  <2>4. ~(i - l \in 1 .. r /\ j \in 1 .. l)
    BY <1>4
  <2> QED BY <1>2, <2>1, <2>2, <2>3, <2>4
<1> QED BY <1>5, <1>6 DEF a

\* The pushes of a batch, in its order.
LEMMA SentBatch ==
    ASSUME MapsOK, CountsAgree, ~FanIn, NEW n \in Created, NEW D, NEW F,
           NEW batch \in Seq(D), Rising(batch, F),
           NEW E, NEW v \in Seq(E), Len(v) = Len(batch),
           \A k \in 1 .. Len(batch) : v[k] = Pushes(n, batch[k])
    PROVE  /\ SentRising(FlattenSeq(v), F)
           /\ \A m : SentTo(FlattenSeq(v), m, F) \subseteq Range(batch) \cap F
<1> DEFINE N == Len(batch)
           S == [frame : D, to : Targets(n)]
           Upto(k) == {batch[i] : i \in 1 .. k} \cap F
           Good(x, k) == /\ x \in Seq(S) /\ SentRising(x, F)
                         /\ \A m : SentTo(x, m, F) \subseteq Upto(k)
<1>1. N \in Nat /\ DOMAIN batch = 1 .. N /\ \A k \in 1 .. N : batch[k] \in D
  OBVIOUS
<1>2. Len(v) = N /\ \A k \in 1 .. N : v[k] = Pushes(n, batch[k])
  BY <1>1
<1>3. \A k \in 1 .. N : /\ v[k] \in Seq(S) /\ SentRising(v[k], F)
                        /\ \A m : SentTo(v[k], m, F) \subseteq {batch[k]} \cap F
  <2> TAKE k \in 1 .. N
  <2> DEFINE b == batch[k]
  <2>1. b \in D /\ v[k] = Pushes(n, b)
    BY <1>1, <1>2
  <2> HIDE DEF b
  <2>2. Pushes(n, b) \in Seq(S)
    BY <2>1, PushesType
  <2>3. SentRising(Pushes(n, b), F) /\ \A m : SentTo(Pushes(n, b), m, F) \subseteq {b} \cap F
    BY SentPushes
  <2> QED BY <2>1, <2>2, <2>3 DEF b
<1> HIDE DEF S
<1>4. Good(<< >>, 0)
  BY SentNone, EmptyType
<1>5. ASSUME NEW k \in Nat, k + 1 \in 1 .. N, NEW x, Good(x, k)
      PROVE  Good(x \o v[k + 1], k + 1)
  <2>1. \A y \in Upto(k) : batch[k + 1] \in F => y < batch[k + 1]
    <3> SUFFICES ASSUME NEW i \in 1 .. k, batch[i] \in F, batch[k + 1] \in F
                 PROVE  batch[i] < batch[k + 1]
      OBVIOUS
    <3>1. i \in 1 .. N /\ i < k + 1
      BY <1>1, <1>5
    <3> QED BY <1>1, <1>5, <3>1 DEF Rising
  <2>2. \A m : Before(SentTo(x, m, F), SentTo(v[k + 1], m, F))
    BY <1>3, <1>5, <2>1 DEF Before
  <2>3. Upto(k) \cup ({batch[k + 1]} \cap F) \subseteq Upto(k + 1)
    <3>1. \A i \in 1 .. k : i \in 1 .. k + 1
      BY <1>5
    <3>2. k + 1 \in 1 .. k + 1
      BY <1>5
    <3> QED BY <3>1, <3>2
  <2> HIDE DEF Upto
  <2>4. /\ x \in Seq(S) /\ v[k + 1] \in Seq(S)
        /\ SentRising(x, F) /\ SentRising(v[k + 1], F)
    BY <1>3, <1>5
  <2>5. x \o v[k + 1] \in Seq(S)
    BY <2>4
  <2>6. /\ SentRising(x \o v[k + 1], F)
        /\ \A m : SentTo(x \o v[k + 1], m, F) = SentTo(x, m, F) \cup SentTo(v[k + 1], m, F)
    BY <2>2, <2>4, SentConcat
  <2>7. \A m : SentTo(x \o v[k + 1], m, F) \subseteq Upto(k + 1)
    BY <1>3, <1>5, <2>3, <2>6
  <2> QED BY <2>5, <2>6, <2>7
<1> HIDE DEF Good
<1>6. PICK f : /\ \A i \in 1 .. Len(v) : f[i] = IF i = 1 THEN v[i] ELSE f[i - 1] \o v[i]
               /\ Len(v) # 0 => FlattenSeq(v) = f[Len(v)]
  BY <1>1, <1>2, FlattenUnfold
<1> DEFINE Right == {k \in Nat : k \in 1 .. N => Good(f[k], k)}
<1>7. Nat \subseteq Right
  <2>1. 0 \in Right
    BY <1>1
  <2>2. ASSUME NEW k \in Nat, k \in Right, k + 1 \in 1 .. N PROVE Good(f[k + 1], k + 1)
    <3>1. CASE k = 0
      <4>1. f[1] = v[1]
        BY <1>2, <1>6, <2>2, <3>1
      <4>2. << >> \o v[1] = v[1]
        <5>1. v[1] \in Seq(S)
          BY <1>3, <2>2, <3>1
        <5> QED BY <5>1
      <4>3. Good(<< >> \o v[0 + 1], 0 + 1)
        BY <1>4, <1>5, <2>2, <3>1
      <4> QED BY <3>1, <4>1, <4>2, <4>3
    <3>2. CASE k # 0
      <4>1. k \in 1 .. N /\ k + 1 # 1 /\ (k + 1) - 1 = k
        BY <1>1, <2>2, <3>2
      <4>2. f[k + 1] = f[k] \o v[k + 1]
        BY <1>2, <1>6, <2>2, <4>1
      <4> QED BY <1>5, <2>2, <4>1, <4>2
    <3> QED BY <3>1, <3>2
  <2>3. ASSUME NEW k \in Nat, k \in Right PROVE k + 1 \in Right
    <3>1. k + 1 \in 1 .. N => Good(f[k + 1], k + 1)
      BY <2>2, <2>3
    <3> QED BY <3>1
  <2> HIDE DEF Right
  <2> QED BY <2>1, <2>3, NatSetInduction
<1>8. Good(FlattenSeq(v), N)
  <2>1. CASE N = 0
    <3>1. FlattenSeq(v) = v /\ v = << >>
      BY <1>1, <1>2, <2>1, FlattenUnfold
    <3> QED BY <1>4, <2>1, <3>1
  <2>2. CASE N # 0
    <3>1. N \in 1 .. N /\ N \in Nat
      BY <1>1, <2>2
    <3> QED BY <1>2, <1>6, <1>7, <2>2, <3>1
  <2> QED BY <2>1, <2>2
<1>9. Upto(N) = Range(batch) \cap F
  BY <1>1 DEF Range
<1> QED BY <1>8, <1>9 DEF Good

-----------------------------------------------------------------------------
(* A mark for each module: what came to it and what will come.             *)

Resp(n) == <<n, "response">>
Infers(n) == n \in Names /\ modules_map[n] = "Inference"

\* The frames that a module holds and those it has still to give to another.
Queued(n) == Range(queue[n]) \cap Plain
Collected(n) == Range(batch_array[n])
Asked(n) == UNION {Range(b) : b \in Range(requests[n])}
Held(n) == Queued(n) \cup Collected(n) \cup Asked(n)
Sent(n, m) == SentTo(sending[Loop(n)], m, Plain) \cup SentTo(sending[Resp(n)], m, Plain)

\* Inference holds frames and gives them on in a response, all others at once.
KindOK(n) ==
    IF Infers(n) THEN \A i \in DOMAIN sending[Loop(n)] : sending[Loop(n)][i].frame \notin Plain
    ELSE sending[Resp(n)] = << >> /\ batch_array[n] = << >> /\ requests[n] = << >>

\* A module holds its frames in order.
RequestsRising(n) ==
    /\ \A i \in DOMAIN requests[n] : Rising(requests[n][i], Plain)
    /\ \A i, j \in DOMAIN requests[n] :
         i < j => Before(Range(requests[n][i]), Range(requests[n][j]))

HeldRising(n) ==
    /\ Rising(queue[n], Plain) /\ Rising(batch_array[n], Plain)
    /\ RequestsRising(n)
    /\ Before(Asked(n), Collected(n)) /\ Before(Asked(n), Queued(n))
    /\ Before(Collected(n), Queued(n))

LocalOK(n) ==
    /\ KindOK(n)
    /\ HeldRising(n)
    /\ SentRising(sending[Loop(n)], Plain) /\ SentRising(sending[Resp(n)], Plain)

\* A mark for each module: the frames that came to it are at most that, those
\* that will come are more.  No frame that a link leads to "source" goes on.
MarkOf(mark, n) == IF n = "source" THEN Len(frames) ELSE mark[n]
Due(n) == IF n = "source" THEN {} ELSE Held(n)

LinkOK(mark, n, m) ==
    /\ mark[m] <= MarkOf(mark, n)
    /\ \A x \in Sent(n, m) : mark[m] < x /\ x <= MarkOf(mark, n)
    /\ \A y \in Due(n) : mark[m] < y
    /\ Before(Sent(n, m), Due(n))

OrderOK(mark) ==
    \A n \in ModuleNames : /\ LocalOK(n)
                           /\ \A x \in Held(n) : x <= mark[n]
                           /\ \A m \in Targets(n) : LinkOK(mark, n, m)

SameAt(n) == /\ queue'[n] = queue[n] /\ batch_array'[n] = batch_array[n]
             /\ requests'[n] = requests[n]
             /\ sending'[Loop(n)] = sending[Loop(n)] /\ sending'[Resp(n)] = sending[Resp(n)]

LEMMA HeldTypes ==
    ASSUME FlowOK, NEW n \in ModuleNames
    PROVE  /\ Range(queue[n]) \subseteq DOMAIN frames
           /\ Queued(n) \subseteq Plain /\ Collected(n) \subseteq Plain /\ Asked(n) \subseteq Plain
           /\ Held(n) \subseteq Plain
           /\ Plain \subseteq Nat /\ Plain \subseteq DOMAIN frames
           /\ DOMAIN frames = 1 .. Len(frames) /\ Len(frames) \in Nat
           /\ \A m : Sent(n, m) \subseteq Plain
           /\ queue[n] \in Seq(DOMAIN frames) /\ batch_array[n] \in Seq(Plain)
           /\ requests[n] \in Seq(Seq(Plain))
<1> DEFINE B == {b \in Seq(Plain) : Len(b) = Batch}
<1>1. /\ queue[n] \in Seq(DOMAIN frames) /\ batch_array[n] \in Seq(Plain)
      /\ requests[n] \in Seq(B)
  BY DEF FlowOK, HeldOK
<1>2. Range(queue[n]) \subseteq DOMAIN frames /\ Collected(n) \subseteq Plain
  BY <1>1, ListFacts DEF Collected
<1>3. Asked(n) \subseteq Plain
  <2>1. Range(requests[n]) \subseteq B
    <3> HIDE DEF B
    <3> QED BY <1>1, ListFacts
  <2>2. \A b \in B : Range(b) \subseteq Plain
    BY ListFacts
  <2> QED BY <2>1, <2>2 DEF Asked
<1>4. DOMAIN frames = 1 .. Len(frames) /\ Len(frames) \in Nat
  <2>1. frames \in Seq(Range(frames))
    BY DEF FlowOK, IsList
  <2> QED BY <2>1
<1>5. Plain \subseteq Nat /\ Plain \subseteq DOMAIN frames
  BY <1>4 DEF Plain
<1>6. requests[n] \in Seq(Seq(Plain))
  <2>1. B \subseteq Seq(Plain)
    OBVIOUS
  <2> HIDE DEF B
  <2> QED BY <1>1, <2>1, SeqWider
<1> QED BY <1>1, <1>2, <1>3, <1>4, <1>5, <1>6 DEF Held, Queued, Sent, SentTo

\* What does not change at a module stays in order.
LEMMA HeldSame ==
    ASSUME FlowOK, FramesKept, NEW n \in ModuleNames,
           queue'[n] = queue[n], batch_array'[n] = batch_array[n], requests'[n] = requests[n]
    PROVE  /\ Held(n)' = Held(n) /\ Due(n)' = Due(n)
           /\ HeldRising(n) => HeldRising(n)'
<1>1. \A x \in DOMAIN frames : x \in Plain' <=> x \in Plain
  BY DEF FramesKept, Plain
<1>2. /\ Range(queue[n]) \subseteq DOMAIN frames
      /\ Collected(n) \subseteq Plain /\ Asked(n) \subseteq Plain
      /\ Plain \subseteq DOMAIN frames
      /\ requests[n] \in Seq(Seq(Plain)) /\ batch_array[n] \in Seq(Plain)
      /\ queue[n] \in Seq(DOMAIN frames)
  BY HeldTypes
<1>4. /\ Queued(n)' = Queued(n) /\ Collected(n)' = Collected(n) /\ Asked(n)' = Asked(n)
  BY <1>1, <1>2 DEF Queued, Collected, Asked
<1>5. Held(n)' = Held(n) /\ Due(n)' = Due(n)
  BY <1>4 DEF Held, Due
<1>11. \A s : Range(s) \subseteq DOMAIN frames => (Rising(s, Plain) => Rising(s, Plain'))
  BY <1>1 DEF Rising, Range
<1>12. RequestsRising(n) => RequestsRising(n)'
  <2>1. \A i \in DOMAIN requests[n] : Range(requests[n][i]) \subseteq DOMAIN frames
    <3>1. \A i \in DOMAIN requests[n] : Range(requests[n][i]) \subseteq Asked(n)
      BY DEF Asked, Range
    <3> QED BY <1>2, <3>1
  <2> QED BY <1>11, <2>1 DEF RequestsRising
<1>13. HeldRising(n) => HeldRising(n)'
  <2>1. Range(batch_array[n]) \subseteq DOMAIN frames
    BY <1>2 DEF Collected
  <2> QED BY <1>2, <1>4, <1>11, <1>12, <2>1 DEF HeldRising
<1> QED BY <1>5, <1>13

LEMMA LocalSame ==
    ASSUME GraphIInv, FlowOK, FramesKept, SameGraph, NEW n \in ModuleNames, SameAt(n)
    PROVE  /\ LocalOK(n) => LocalOK(n)'
           /\ Held(n)' = Held(n) /\ Due(n)' = Due(n)
           /\ \A m : Sent(n, m)' = Sent(n, m)
<1>1. \A x \in DOMAIN frames : x \in Plain' <=> x \in Plain
  BY DEF FramesKept, Plain
<1>2. Plain \subseteq DOMAIN frames
  BY DEF Plain
<1>3. /\ \A i \in DOMAIN sending[Loop(n)] : sending[Loop(n)][i].frame \in DOMAIN frames
      /\ \A i \in DOMAIN sending[Resp(n)] : sending[Resp(n)][i].frame \in DOMAIN frames
  <2>1. /\ sending[Loop(n)] \in Seq([frame : DOMAIN frames, to : Targets(n)])
        /\ sending[Resp(n)] \in Seq([frame : Plain, to : Targets(n)])
    BY DEF FlowOK, SendingOK, Loop, Resp
  <2> QED BY <1>2, <2>1, PushFacts
<1>4. /\ Held(n)' = Held(n) /\ Due(n)' = Due(n)
      /\ HeldRising(n) => HeldRising(n)'
  BY HeldSame DEF SameAt
<1>5. \A m : /\ SentTo(sending[Loop(n)], m, Plain') = SentTo(sending[Loop(n)], m, Plain)
             /\ SentTo(sending[Resp(n)], m, Plain') = SentTo(sending[Resp(n)], m, Plain)
  BY <1>1, <1>3 DEF SentTo
<1>6. \A m : Sent(n, m)' = Sent(n, m)
  BY <1>5 DEF Sent, SameAt
<1>7. Infers(n)' <=> Infers(n)
  BY SameFacts DEF Infers
<1>8. KindOK(n) => KindOK(n)'
  BY <1>1, <1>3, <1>7 DEF KindOK, SameAt
<1>9. /\ SentRising(sending[Loop(n)], Plain) => SentRising(sending[Loop(n)], Plain')
      /\ SentRising(sending[Resp(n)], Plain) => SentRising(sending[Resp(n)], Plain')
  BY <1>1, <1>3 DEF SentRising
<1> QED BY <1>4, <1>6, <1>8, <1>9 DEF LocalOK, SameAt

LEMMA TargetsNamed ==
    ASSUME GraphIInv
    PROVE  \A k : Targets(k) \subseteq ModuleNames
<1>1. /\ output_connectors \in [Created -> Seq(Created)]
      /\ Created \subseteq ModuleNames
  BY DEF GraphIInv, MapsOK
<1>2. \A k \in Created : output_connectors[k] \in Seq(Created)
  BY <1>1
<1>3. \A k \in Created : Range(output_connectors[k]) \subseteq Created
  BY <1>2, ListFacts
<1> QED BY <1>1, <1>3 DEF Targets

\* A link where only what the module held has moved on.
LEMMA LinkMoved ==
    ASSUME FlowOK, FlowOK', NEW mark \in [ModuleNames -> Nat],
           NEW n \in ModuleNames, NEW m \in ModuleNames,
           LinkOK(mark, n, m), Len(frames) <= Len(frames'),
           NEW Out \in SUBSET Due(n), \A x \in Out : x <= mark[n],
           Before(Out, Due(n)'), Due(n)' \subseteq Due(n),
           Sent(n, m)' \subseteq Sent(n, m) \cup Out
    PROVE  LinkOK(mark, n, m)'
<1>1. /\ Len(frames) \in Nat /\ Len(frames') \in Nat /\ mark[n] \in Nat /\ mark[m] \in Nat
  BY HeldTypes
<1>2. Sent(n, m) \subseteq Nat /\ Out \subseteq Nat
  BY HeldTypes DEF Due
<1>3. MarkOf(mark, n) <= MarkOf(mark, n)' /\ MarkOf(mark, n) \in Nat /\ MarkOf(mark, n)' \in Nat
  BY <1>1 DEF MarkOf
<1>4. \A x \in Out : x <= MarkOf(mark, n)
  BY DEF Due, MarkOf
<1>5. ASSUME NEW x \in Sent(n, m)' PROVE mark[m] < x /\ x <= MarkOf(mark, n)'
  <2>1. x \in Sent(n, m) \cup Out /\ x \in Nat
    BY <1>2, <1>5
  <2>2. mark[m] < x
    BY <2>1 DEF LinkOK
  <2>3. x <= MarkOf(mark, n)
    BY <1>4, <2>1 DEF LinkOK
  <2> QED BY <1>3, <2>1, <2>2, <2>3
<1>6. \A y \in Due(n)' : mark[m] < y
  <2>1. \A y \in Due(n) : mark[m] < y
    BY DEF LinkOK
  <2> QED BY <2>1
<1>7. Before(Sent(n, m)', Due(n)')
  BY DEF LinkOK, Before
<1>8. mark[m] <= MarkOf(mark, n)'
  BY <1>1, <1>3 DEF LinkOK
<1> QED BY <1>5, <1>6, <1>7, <1>8 DEF LinkOK

\* One module has taken, collected or answered; the others stay as they are.
LEMMA OrderMoved ==
    ASSUME GraphIInv, FlowOK, FlowOK', FramesKept, SameGraph, Len(frames) <= Len(frames'),
           NEW mark \in [ModuleNames -> Nat], OrderOK(mark),
           NEW n \in ModuleNames, n # "source",
           \A k \in ModuleNames \ {n} : SameAt(k),
           LocalOK(n)', Held(n)' \subseteq Held(n),
           NEW Out \in SUBSET Held(n), Before(Out, Held(n)'),
           \A m \in Targets(n) : Sent(n, m)' \subseteq Sent(n, m) \cup Out
    PROVE  OrderOK(mark)'
<1>1. \A k : Targets(k)' = Targets(k)
  BY SameFacts
<1>2. \A k \in ModuleNames : Targets(k) \subseteq ModuleNames
  BY TargetsNamed
<1>3. ASSUME NEW k \in ModuleNames
      PROVE  /\ LocalOK(k)'
             /\ \A x \in Held(k)' : x <= mark[k]
             /\ \A m \in Targets(k)' : LinkOK(mark, k, m)'
  <2>1. CASE k = n
    <3>1. \A x \in Held(n) : x <= mark[n]
      BY DEF OrderOK
    <3>2. ASSUME NEW m \in Targets(n) PROVE LinkOK(mark, n, m)'
      <4>1. /\ m \in ModuleNames /\ LinkOK(mark, n, m)
        BY <1>2, <3>2 DEF OrderOK
      <4>2. Due(n) = Held(n) /\ Due(n)' = Held(n)'
        BY DEF Due
      <4> QED BY <3>1, <3>2, <4>1, <4>2, LinkMoved
    <3> QED BY <1>1, <2>1, <3>1, <3>2
  <2>2. CASE k # n
    <3>1. /\ LocalOK(k)' /\ Held(k)' = Held(k) /\ Due(k)' = Due(k)
          /\ \A m : Sent(k, m)' = Sent(k, m)
      BY <2>2, LocalSame DEF OrderOK
    <3>2. ASSUME NEW m \in Targets(k) PROVE LinkOK(mark, k, m)'
      <4>1. m \in ModuleNames /\ LinkOK(mark, k, m)
        BY <1>2, <3>2 DEF OrderOK
      <4>2. Before({}, Due(k)')
        BY DEF Before
      <4> QED BY <3>1, <4>1, <4>2, LinkMoved
    <3> QED BY <1>1, <3>1, <3>2 DEF OrderOK
  <2> QED BY <2>1, <2>2
<1> QED BY <1>3 DEF OrderOK

LEMMA OrderSame ==
    ASSUME GraphIInv, FlowOK, FlowOK', FramesKept, SameGraph, Len(frames) <= Len(frames'),
           NEW mark \in [ModuleNames -> Nat], OrderOK(mark),
           UNCHANGED <<queue, sending, batch_array, requests>>
    PROVE  OrderOK(mark)'
<1>1. \A k : Targets(k)' = Targets(k)
  BY SameFacts
<1>2. \A k \in ModuleNames : Targets(k) \subseteq ModuleNames
  BY TargetsNamed
<1>3. ASSUME NEW k \in ModuleNames
      PROVE  /\ LocalOK(k)'
             /\ \A x \in Held(k)' : x <= mark[k]
             /\ \A m \in Targets(k)' : LinkOK(mark, k, m)'
  <2>1. /\ LocalOK(k)' /\ Held(k)' = Held(k) /\ Due(k)' = Due(k)
        /\ \A m : Sent(k, m)' = Sent(k, m)
    BY LocalSame DEF OrderOK, SameAt
  <2>2. ASSUME NEW m \in Targets(k) PROVE LinkOK(mark, k, m)'
    <3>1. m \in ModuleNames /\ LinkOK(mark, k, m)
      BY <1>2, <2>2 DEF OrderOK
    <3>2. Before({}, Due(k)')
      BY DEF Before
    <3> QED BY <2>1, <3>1, <3>2, LinkMoved
  <2> QED BY <1>1, <2>1, <2>2 DEF OrderOK
<1> QED BY <1>3 DEF OrderOK

-----------------------------------------------------------------------------
(* The steps keep the frames in order.                                     *)

\* The frames that a module has given on and no other has taken.
Transit(n) == UNION {Sent(n, m) \cup Queued(m) : m \in Targets(n)}

\* Marks only rise; what comes to a module is more than its mark was; what is
\* under way from Inference was before.
StepOK(mark, next) ==
    /\ OrderOK(next)'
    /\ \A k \in ModuleNames : /\ mark[k] <= next[k]
                              /\ \A y \in Held(k)' : y \in Held(k) \/ mark[k] < y
    /\ \A k \in ModuleNames : Infers(k) => Transit(k)' \subseteq Transit(k)

LEMMA StepKept ==
    ASSUME GraphIInv, SameGraph, NEW mark \in [ModuleNames -> Nat], OrderOK(mark)',
           \A k \in ModuleNames : Held(k)' \subseteq Held(k),
           \A k \in ModuleNames : Queued(k)' \subseteq Queued(k),
           \A k \in ModuleNames : Infers(k) =>
              \A m \in Targets(k) : Sent(k, m)' \subseteq Sent(k, m)
    PROVE  StepOK(mark, mark)
<1>1. \A k \in ModuleNames : mark[k] <= mark[k]
  OBVIOUS
<1>2. \A k : Targets(k)' = Targets(k) /\ Targets(k) \subseteq ModuleNames
  BY SameFacts, TargetsNamed
<1>3. ASSUME NEW k \in ModuleNames, Infers(k) PROVE Transit(k)' \subseteq Transit(k)
  <2>1. \A m \in Targets(k) : Sent(k, m)' \cup Queued(m)' \subseteq Sent(k, m) \cup Queued(m)
    BY <1>2, <1>3
  <2> QED BY <1>2, <2>1 DEF Transit
<1> QED BY <1>1, <1>3 DEF StepOK

LEMMA ThreadFacts ==
    ASSUME NEW n \in ModuleNames
    PROVE  /\ Loop(n) \in Threads /\ Resp(n) \in Threads /\ Loop(n) # Resp(n)
           /\ \A k : k # n => Loop(k) # Loop(n) /\ Resp(k) # Resp(n)
           /\ \A k : Loop(k) # Resp(n) /\ Resp(k) # Loop(n)
BY DEF Loop, Resp, Threads

\* TaskLoop takes a frame that its module gives on at once.
LEMMA OrderTake ==
    ASSUME GraphIInv, StartOK, MainOK, FlowOK, FlowOK', FramesKept, Plain' = Plain,
           SameGraph, Len(frames) <= Len(frames'), ~FanIn,
           NEW mark \in [ModuleNames -> Nat], OrderOK(mark),
           NEW n \in ModuleNames, Takes(n), TakeAndPass(n),
           Infers(n) => Taken(n) \notin Plain, UNCHANGED <<batch_array, requests>>
    PROVE  /\ StepOK(mark, mark)
           /\ Taken(n) \in Plain => /\ Taken(n) \in Held(n)
                                   /\ Before({Taken(n)}, Held(n)')
<1> DEFINE f == Taken(n)
           q == queue[n]
           Out == {f} \cap Plain
<1>1. /\ n \in Created /\ n # "source" /\ q # << >> /\ sending[Loop(n)] = << >>
      /\ MapsOK /\ CountsAgree
  BY BusyFacts DEF Takes, Transmitted, GraphIInv
<1>2. /\ queue \in [ModuleNames -> Seq(DOMAIN frames)] /\ DOMAIN sending = Threads
      /\ q \in Seq(DOMAIN frames) /\ f = Head(q)
  BY DEF FlowOK, SendingOK, Taken
<1>3. /\ queue'[n] = Tail(q) /\ \A k \in ModuleNames \ {n} : queue'[k] = queue[k]
      /\ sending'[Loop(n)] = Pushes(n, f) /\ sending'[Resp(n)] = sending[Resp(n)]
      /\ \A k \in ModuleNames \ {n} :
           sending'[Loop(k)] = sending[Loop(k)] /\ sending'[Resp(k)] = sending[Resp(k)]
  BY <1>2, ThreadFacts DEF TakeAndPass
<1>4. \A k \in ModuleNames \ {n} : SameAt(k)
  BY <1>3 DEF SameAt
<1>5. LocalOK(n)
  BY DEF OrderOK
<1>6. /\ Rising(Tail(q), Plain) /\ Range(Tail(q)) \subseteq Range(q) /\ f \in Range(q)
      /\ f \in Plain => Before({f}, Range(Tail(q)) \cap Plain)
  BY <1>1, <1>2, <1>5, RisingTail DEF LocalOK, HeldRising
<1>7. /\ SentRising(Pushes(n, f), Plain)
      /\ \A m : SentTo(Pushes(n, f), m, Plain) \subseteq Out
      /\ \A i \in DOMAIN Pushes(n, f) : Pushes(n, f)[i].frame = f
  BY <1>1, SentPushes, ZenonT(40) DEF Pushes
<1> HIDE DEF f, q
<1>8. Infers(n)' <=> Infers(n)
  BY SameFacts DEF Infers
<1>9. /\ Queued(n)' = Range(Tail(q)) \cap Plain /\ Queued(n)' \subseteq Queued(n)
      /\ Collected(n)' = Collected(n) /\ Asked(n)' = Asked(n)
  BY <1>3, <1>6 DEF Queued, Collected, Asked, q
<1>10. LocalOK(n)'
  <2>1. KindOK(n)'
    BY <1>3, <1>5, <1>7, <1>8 DEF LocalOK, KindOK, f
  <2>2. HeldRising(n)'
    <3>1. Rising(queue[n], Plain)'
      BY <1>3, <1>6
    <3>2. RequestsRising(n)' /\ Rising(batch_array[n], Plain)'
      BY <1>5 DEF LocalOK, HeldRising, RequestsRising
    <3> QED BY <1>5, <1>9, <3>1, <3>2 DEF LocalOK, HeldRising, Before
  <2>3. /\ SentRising(sending[Loop(n)], Plain)' /\ SentRising(sending[Resp(n)], Plain)'
    BY <1>3, <1>5, <1>7 DEF LocalOK
  <2> QED BY <2>1, <2>2, <2>3 DEF LocalOK
<1>11. Held(n)' \subseteq Held(n) /\ Out \subseteq Held(n)
  BY <1>6, <1>9 DEF Held, Queued, q
<1>12. Before(Out, Held(n)')
  <2>1. f \in Plain => Collected(n) = {} /\ Asked(n) = {}
    <3>1. f \in Plain => batch_array[n] = << >> /\ requests[n] = << >>
      BY <1>5 DEF LocalOK, KindOK, f
    <3>2. Range(<< >>) = {}
      BY DEF Range
    <3> QED BY <3>1, <3>2 DEF Collected, Asked
  <2> QED BY <1>6, <1>9, <2>1 DEF Before, Held
<1>13. \A m \in Targets(n) : Sent(n, m)' \subseteq Sent(n, m) \cup Out
  BY <1>3, <1>7 DEF Sent
<1>14. OrderOK(mark)'
  BY <1>1, <1>4, <1>10, <1>11, <1>12, <1>13, OrderMoved
<1>15. \A k \in ModuleNames \ {n} : Held(k)' = Held(k) /\ \A m : Sent(k, m)' = Sent(k, m)
  BY <1>4, LocalSame
<1>16. \A k \in ModuleNames : Queued(k)' \subseteq Queued(k)
  BY <1>4, <1>9 DEF Queued, SameAt
<1>17. Infers(n) => Out = {}
  BY DEF f
<1>21. Taken(n) \in Plain => Taken(n) \in Held(n) /\ Before({Taken(n)}, Held(n)')
  BY <1>11, <1>12 DEF f
<1> HIDE DEF Out
<1>18. \A k \in ModuleNames : Infers(k) =>
         \A m \in Targets(k) : Sent(k, m)' \subseteq Sent(k, m)
  BY <1>13, <1>15, <1>17
<1>19. \A k \in ModuleNames : Held(k)' \subseteq Held(k)
  BY <1>11, <1>15
<1>20. StepOK(mark, mark)
  BY <1>14, <1>16, <1>18, <1>19, StepKept
<1> QED BY <1>20, <1>21

\* Inference collects a frame.
LEMMA OrderCollect ==
    ASSUME GraphIInv, StartOK, MainOK, FlowOK, FlowOK',
           NEW mark \in [ModuleNames -> Nat], OrderOK(mark),
           NEW n \in ModuleNames, Collect(n)
    PROVE  StepOK(mark, mark)
<1> DEFINE f == Taken(n)
           q == queue[n]
           c == batch_array[n]
           batch == Append(c, f)
           r == requests[n]
<1>1. /\ n \in Created /\ n # "source" /\ q # << >> /\ sending[Loop(n)] = << >>
      /\ SameGraph /\ f = Head(q)
  BY BusyFacts DEF Collect, Takes, Transmitted, graphVars, SameGraph, Taken
<1>2. /\ queue' = [queue EXCEPT ![n] = Tail(@)]
      /\ \/ /\ requests' = [requests EXCEPT ![n] = Append(r, batch)]
            /\ batch_array' = [batch_array EXCEPT ![n] = << >>]
         \/ /\ batch_array' = [batch_array EXCEPT ![n] = batch]
            /\ UNCHANGED requests
      /\ UNCHANGED <<frames, sending, late>>
      /\ ~frames[f].eos /\ Infers(n)
  BY DEF Collect, Infers, Takes
<1>3. FramesKept /\ Plain' = Plain
  BY <1>2, SameFrames
<1>4. /\ queue \in [ModuleNames -> Seq(DOMAIN frames)]
      /\ batch_array \in [ModuleNames -> Seq(Plain)]
      /\ DOMAIN requests = ModuleNames
  BY DEF FlowOK, HeldOK
<1>5. /\ q \in Seq(DOMAIN frames) /\ c \in Seq(Plain) /\ r \in Seq(Seq(Plain))
      /\ Collected(n) \subseteq Plain /\ Asked(n) \subseteq Plain /\ Plain \subseteq Nat
  BY HeldTypes
<1>6. f \in Plain
  <2>1. f \in DOMAIN frames
    BY <1>1, <1>5
  <2> QED BY <1>2, <2>1 DEF Plain
<1>7. LocalOK(n) /\ HeldRising(n)
  BY DEF OrderOK, LocalOK
<1>8. /\ Rising(Tail(q), Plain) /\ Range(Tail(q)) \subseteq Range(q) /\ f \in Range(q)
      /\ Before({f}, Range(Tail(q)) \cap Plain)
  BY <1>1, <1>5, <1>6, <1>7, RisingTail DEF HeldRising
<1>9. Range(q) = Range(Tail(q)) \cup {f}
  <2>1. /\ Len(q) \in Nat /\ DOMAIN q = 1 .. Len(q) /\ f = q[1]
        /\ DOMAIN Tail(q) = 1 .. Len(q) - 1
        /\ \A i \in 1 .. Len(q) - 1 : Tail(q)[i] = q[i + 1]
    BY <1>1, <1>5
  <2>2. \A i \in 1 .. Len(q) : i = 1 \/ (i - 1 \in 1 .. Len(q) - 1 /\ (i - 1) + 1 = i)
    BY <2>1
  <2>3. ASSUME NEW i \in 1 .. Len(q) PROVE q[i] \in Range(Tail(q)) \cup {f}
    <3>1. CASE i = 1
      BY <2>1, <3>1
    <3>2. CASE i # 1
      <4>1. i - 1 \in DOMAIN Tail(q) /\ Tail(q)[i - 1] = q[i]
        BY <2>1, <2>2, <3>2
      <4> QED BY <4>1 DEF Range
    <3> QED BY <3>1, <3>2
  <2>4. Range(q) \subseteq Range(Tail(q)) \cup {f}
    BY <2>1, <2>3 DEF Range
  <2> QED BY <1>8, <2>4
<1>10. /\ Rising(batch, Plain) /\ Range(batch) = Collected(n) \cup {f}
       /\ batch \in Seq(Plain)
  <2>1. f \in Queued(n)
    BY <1>6, <1>8 DEF Queued
  <2>2. Before(Range(c) \cap Plain, {f})
    BY <1>7, <2>1 DEF HeldRising, Before, Collected
  <2>3. Rising(c, Plain) /\ batch \in Seq(Plain)
    BY <1>5, <1>6, <1>7 DEF HeldRising
  <2> QED BY <1>5, <1>6, <2>2, <2>3, RisingAppend DEF Collected
<1> HIDE DEF f, q, batch, r, c
<1>11. /\ queue'[n] = Tail(q) /\ \A k \in ModuleNames \ {n} : queue'[k] = queue[k]
       /\ \A k \in ModuleNames \ {n} :
            batch_array'[k] = batch_array[k] /\ requests'[k] = requests[k]
       /\ \/ requests'[n] = Append(r, batch) /\ batch_array'[n] = << >>
          \/ requests'[n] = r /\ batch_array'[n] = batch
  BY <1>2, <1>4 DEF q, r
<1>12. /\ Range(Append(r, batch)) = Range(r) \cup {batch}
       /\ Len(r) \in Nat /\ DOMAIN r = 1 .. Len(r)
       /\ DOMAIN Append(r, batch) = 1 .. Len(r) + 1
       /\ Append(r, batch)[Len(r) + 1] = batch
       /\ \A i \in 1 .. Len(r) : Append(r, batch)[i] = r[i]
  <2> DEFINE S == Seq(Plain)
  <2>1. r \in Seq(S) /\ batch \in S
    BY <1>5, <1>10
  <2> HIDE DEF S
  <2>2. /\ Len(r) \in Nat /\ DOMAIN r = 1 .. Len(r)
        /\ DOMAIN Append(r, batch) = 1 .. Len(r) + 1
        /\ Append(r, batch)[Len(r) + 1] = batch
        /\ \A i \in 1 .. Len(r) : Append(r, batch)[i] = r[i]
    BY <2>1
  <2>3. /\ \A i \in 1 .. Len(r) : i \in 1 .. Len(r) + 1
        /\ Len(r) + 1 \in 1 .. Len(r) + 1
        /\ \A i \in 1 .. Len(r) + 1 : i \in 1 .. Len(r) \/ i = Len(r) + 1
    BY <2>2
  <2>4. Range(Append(r, batch)) = Range(r) \cup {batch}
    BY <2>2, <2>3 DEF Range
  <2> QED BY <2>2, <2>4
<1>13. Queued(n)' = Range(Tail(q)) \cap Plain
  BY <1>3, <1>11 DEF Queued
<1>14. Queued(n) = Queued(n)' \cup {f}
  BY <1>6, <1>9, <1>13 DEF Queued, q
<1>15. /\ Before(Asked(n), Collected(n)) /\ Before(Asked(n), Queued(n))
       /\ Before(Collected(n), Queued(n)) /\ Before({f}, Queued(n)')
       /\ Rising(Tail(q), Plain) /\ RequestsRising(n)
  BY <1>7, <1>8, <1>13 DEF HeldRising
<1>16. \/ Asked(n)' = Asked(n) \cup Collected(n) \cup {f} /\ Collected(n)' = {}
       \/ Asked(n)' = Asked(n) /\ Collected(n)' = Collected(n) \cup {f}
  <2>1. CASE requests'[n] = Append(r, batch) /\ batch_array'[n] = << >>
    <3>1. Range(<< >>) = {}
      BY DEF Range
    <3>2. Asked(n)' = Asked(n) \cup Range(batch)
      BY <1>12, <2>1 DEF Asked, r
    <3> QED BY <1>10, <2>1, <3>1, <3>2 DEF Collected
  <2>2. CASE requests'[n] = r /\ batch_array'[n] = batch
    BY <1>10, <2>2 DEF Asked, Collected, r
  <2> QED BY <1>11, <2>1, <2>2
<1>17. Held(n)' = Held(n)
  BY <1>14, <1>16 DEF Held
<1>18. RequestsRising(n)'
  <2>1. CASE requests'[n] = Append(r, batch)
    <3> DEFINE a == Append(r, batch)
    <3>1. \A i \in 1 .. Len(r) : Rising(r[i], Plain) /\ Range(r[i]) \subseteq Asked(n)
      BY <1>12, <1>15 DEF RequestsRising, Asked, Range, r
    <3>2. \A i \in 1 .. Len(r) : Before(Range(r[i]), Range(batch))
      BY <1>10, <1>14, <1>15, <3>1 DEF Before
    <3>3. \A i \in 1 .. Len(r) + 1 : Rising(a[i], Plain)
      <4>1. \A i \in 1 .. Len(r) + 1 : i \in 1 .. Len(r) \/ i = Len(r) + 1
        BY <1>12
      <4> QED BY <1>10, <1>12, <3>1, <4>1
    <3>4. ASSUME NEW i \in 1 .. Len(r) + 1, NEW j \in 1 .. Len(r) + 1, i < j
          PROVE  Before(Range(a[i]), Range(a[j]))
      <4>1. i \in 1 .. Len(r) /\ a[i] = r[i]
        BY <1>12, <3>4
      <4>2. CASE j = Len(r) + 1
        BY <1>12, <3>2, <4>1, <4>2
      <4>3. CASE j # Len(r) + 1
        <5>1. j \in 1 .. Len(r) /\ a[j] = r[j]
          BY <1>12, <4>3
        <5> QED BY <1>12, <1>15, <3>4, <4>1, <5>1 DEF RequestsRising, r
      <4> QED BY <4>2, <4>3
    <3> HIDE DEF a
    <3>5. DOMAIN a = 1 .. Len(r) + 1 /\ requests'[n] = a
      BY <1>12, <2>1 DEF a
    <3> QED BY <1>3, <3>3, <3>4, <3>5 DEF RequestsRising
  <2>2. CASE requests'[n] = r
    BY <1>3, <1>15, <2>2 DEF RequestsRising, r
  <2> QED BY <1>11, <2>1, <2>2
<1>19. LocalOK(n)'
  <2>1. Infers(n)' /\ KindOK(n)'
    <3>1. Infers(n)'
      BY <1>1, <1>2, SameFacts DEF Infers
    <3> QED BY <1>2, <1>3, <1>7, <3>1 DEF LocalOK, KindOK
  <2>2. Rising(queue[n], Plain)' /\ Rising(batch_array[n], Plain)'
    BY <1>3, <1>10, <1>11, <1>15, RisingNone
  <2>3. /\ Before(Asked(n), Collected(n))' /\ Before(Asked(n), Queued(n))'
        /\ Before(Collected(n), Queued(n))'
    BY <1>14, <1>15, <1>16 DEF Before
  <2>4. HeldRising(n)'
    BY <1>18, <2>2, <2>3 DEF HeldRising
  <2>5. /\ SentRising(sending[Loop(n)], Plain)' /\ SentRising(sending[Resp(n)], Plain)'
    BY <1>2, <1>3, <1>7 DEF LocalOK
  <2> QED BY <2>1, <2>4, <2>5 DEF LocalOK
<1>20. \A k \in ModuleNames \ {n} : SameAt(k)
  BY <1>2, <1>11 DEF SameAt
<1>21. \A m : Sent(n, m)' = Sent(n, m)
  BY <1>2, <1>3 DEF Sent
<1>22. Len(frames) <= Len(frames')
  BY <1>2, HeldTypes
<1>23. OrderOK(mark)'
  <2> DEFINE Out == {}
  <2>1. Out \in SUBSET Held(n) /\ Before(Out, Held(n)')
    BY DEF Before
  <2> QED BY <1>1, <1>3, <1>17, <1>19, <1>20, <1>21, <1>22, <2>1, OrderMoved
<1>24. \A k \in ModuleNames : Held(k)' \subseteq Held(k)
  BY <1>1, <1>3, <1>17, <1>20, LocalSame
<1>25. \A k \in ModuleNames : Queued(k)' \subseteq Queued(k)
  BY <1>3, <1>14, <1>20 DEF Queued, SameAt
<1>26. \A k \in ModuleNames : \A m : Sent(k, m)' = Sent(k, m)
  BY <1>1, <1>3, <1>20, <1>21, LocalSame
<1> QED BY <1>1, <1>23, <1>24, <1>25, <1>26, StepKept

LEMMA TailRange ==
    ASSUME NEW S, NEW s \in Seq(S), s # << >>
    PROVE  /\ Len(s) \in Nat /\ DOMAIN s = 1 .. Len(s) /\ 1 \in DOMAIN s /\ Head(s) = s[1]
           /\ DOMAIN Tail(s) = 1 .. Len(s) - 1
           /\ \A i \in 1 .. Len(s) - 1 : i + 1 \in DOMAIN s /\ Tail(s)[i] = s[i + 1]
           /\ Range(Tail(s)) \subseteq Range(s) /\ Head(s) \in Range(s)
<1>1. /\ Len(s) \in Nat /\ DOMAIN s = 1 .. Len(s) /\ 1 \in DOMAIN s /\ Head(s) = s[1]
      /\ DOMAIN Tail(s) = 1 .. Len(s) - 1
      /\ \A i \in 1 .. Len(s) - 1 : i + 1 \in 1 .. Len(s) /\ Tail(s)[i] = s[i + 1]
  OBVIOUS
<1> QED BY <1>1 DEF Range

\* A response is given: what the module held longest goes on.
LEMMA RespondOrder ==
    ASSUME GraphIInv, StartOK, MainOK, FlowOK, ~FanIn, NEW n \in ModuleNames,
           LocalOK(n), Respond(n)
    PROVE  LET batch == Head(requests[n])
               Out == Range(batch)
           IN  /\ SameGraph /\ Plain' = Plain /\ FramesKept /\ DOMAIN frames' = DOMAIN frames
               /\ n # "source" /\ Infers(n)
               /\ batch \in Seq(Plain) /\ Len(batch) = Batch
               /\ \A i, j \in 1 .. Batch : batch[i] = batch[j] => i = j
               /\ \A k \in ModuleNames \ {n} : SameAt(k)
               /\ LocalOK(n)' /\ Held(n)' \subseteq Held(n)
               /\ Out \subseteq Held(n) /\ Before(Out, Held(n)')
               /\ \A m : Sent(n, m)' \subseteq Out
<1> DEFINE r == requests[n]
           batch == Head(r)
           v == [k \in 1 .. Batch |-> Pushes(n, batch[k])]
           all == FlattenSeq(v)
           Out == Range(batch)
           B == {b \in Seq(Plain) : Len(b) = Batch}
<1>1. /\ SameGraph /\ r # << >> /\ sending[Resp(n)] = << >>
      /\ requests' = [requests EXCEPT ![n] = Tail(@)]
      /\ sending' = [sending EXCEPT ![Resp(n)] = all]
      /\ UNCHANGED <<main, queue, batch_array>>
  BY DEF Respond, graphVars, SameGraph, Transmitted, Resp
<1>2. FramesKept /\ Plain' = Plain /\ DOMAIN frames' = DOMAIN frames
  BY RespondFacts, MoreFacts
<1>3. /\ requests \in [ModuleNames -> Seq(B)] /\ n \in Created /\ DOMAIN sending = Threads
      /\ r \in Seq(B) /\ MapsOK /\ CountsAgree /\ Plain \subseteq Nat
  BY <1>1, HeldTypes DEF FlowOK, HeldOK, SendingOK, GraphIInv
<1>4. batch \in Seq(Plain) /\ Len(batch) = Batch
  <2> HIDE DEF B
  <2>1. batch \in B
    BY <1>1, <1>3, HeadType
  <2> HIDE DEF batch
  <2> QED BY <2>1 DEF B
<1>5. Infers(n) /\ n # "source"
  <2>1. main # "start"
    BY <1>1 DEF MainOK
  <2>2. modules_map["source"] = "Source"
    BY <2>1 DEF MainOK
  <2>3. Infers(n)
    BY <1>1 DEF LocalOK, KindOK
  <2> QED BY <2>2, <2>3 DEF Infers
<1>6. /\ Len(r) \in Nat /\ DOMAIN r = 1 .. Len(r) /\ 1 \in DOMAIN r /\ batch = r[1]
      /\ DOMAIN Tail(r) = 1 .. Len(r) - 1
      /\ \A i \in 1 .. Len(r) - 1 : i + 1 \in DOMAIN r /\ Tail(r)[i] = r[i + 1]
      /\ Range(Tail(r)) \subseteq Range(r) /\ batch \in Range(r)
  <2> HIDE DEF B
  <2> QED BY <1>1, <1>3, TailRange
<1>7. RequestsRising(n) /\ HeldRising(n)
  BY DEF LocalOK, HeldRising
<1> HIDE DEF r, batch, B
<1>8. Rising(batch, Plain)
  BY <1>6, <1>7 DEF RequestsRising, r
<1>9. \A i, j \in 1 .. Batch : batch[i] = batch[j] => i = j
  <2>1. DOMAIN batch = 1 .. Batch /\ \A i \in 1 .. Batch : batch[i] \in Plain /\ batch[i] \in Nat
    <3>1. DOMAIN batch = 1 .. Batch /\ \A i \in 1 .. Batch : batch[i] \in Plain
      BY <1>4
    <3> QED BY <3>1, HeldTypes
  <2>2. \A i, j \in 1 .. Batch : i < j => batch[i] < batch[j]
    BY <1>8, <2>1 DEF Rising
  <2>3. Batch \in Nat
    BY FramePathAssumption DEF FramePathAssumption
  <2> QED BY <2>1, <2>2, <2>3
<1>10. /\ requests'[n] = Tail(r)
       /\ \A k \in ModuleNames \ {n} : requests'[k] = requests[k]
       /\ sending'[Resp(n)] = all /\ \A k \in ModuleNames : sending'[Loop(k)] = sending[Loop(k)]
       /\ \A k \in ModuleNames \ {n} : sending'[Resp(k)] = sending[Resp(k)]
  BY <1>1, <1>3, ThreadFacts DEF r
<1>11. \A k \in ModuleNames \ {n} : SameAt(k)
  BY <1>1, <1>10 DEF SameAt
<1>12. /\ SentRising(all, Plain)
       /\ \A m : SentTo(all, m, Plain) \subseteq Out
  <2> DEFINE E == {Pushes(n, batch[k]) : k \in 1 .. Batch}
  <2>1. v \in Seq(E) /\ Len(v) = Len(batch) /\ \A k \in 1 .. Len(batch) : v[k] = Pushes(n, batch[k])
    BY <1>4, FramePathAssumption DEF FramePathAssumption
  <2> HIDE DEF v, E
  <2>2. /\ SentRising(FlattenSeq(v), Plain)
        /\ \A m : SentTo(FlattenSeq(v), m, Plain) \subseteq Range(batch) \cap Plain
    BY <1>3, <1>4, <1>8, <2>1, SentBatch
  <2> QED BY <2>2
<1> HIDE DEF all
<1>13. /\ Queued(n)' = Queued(n) /\ Collected(n)' = Collected(n)
       /\ Asked(n)' \subseteq Asked(n) /\ Out \subseteq Asked(n)
  BY <1>1, <1>2, <1>6, <1>10 DEF Queued, Collected, Asked, r
<1>14. Before(Out, Asked(n)')
  <2> SUFFICES ASSUME NEW x \in Out, NEW i \in 1 .. Len(r) - 1, NEW y \in Range(r[i + 1])
               PROVE  x < y
    BY <1>6, <1>10 DEF Before, Asked, Range
  <2>1. i + 1 \in DOMAIN r /\ 1 < i + 1 /\ 1 \in DOMAIN r
    BY <1>6
  <2> QED BY <1>6, <1>7, <2>1 DEF RequestsRising, Before, r
<1>15. Before(Out, Held(n)') /\ Held(n)' \subseteq Held(n) /\ Out \subseteq Held(n)
  BY <1>7, <1>13, <1>14 DEF Before, Held, HeldRising
<1>16. RequestsRising(n)'
  <2>1. \A i \in 1 .. Len(r) - 1 : Rising(Tail(r)[i], Plain)
    BY <1>6, <1>7 DEF RequestsRising, r
  <2>2. ASSUME NEW i \in 1 .. Len(r) - 1, NEW j \in 1 .. Len(r) - 1, i < j
        PROVE  Before(Range(Tail(r)[i]), Range(Tail(r)[j]))
    <3>1. i + 1 < j + 1
      BY <1>6, <2>2
    <3> QED BY <1>6, <1>7, <2>2, <3>1 DEF RequestsRising, r
  <2> QED BY <1>2, <1>6, <1>10, <2>1, <2>2 DEF RequestsRising
<1>17. HeldRising(n)'
  <2>1. Rising(queue[n], Plain)' /\ Rising(batch_array[n], Plain)'
    BY <1>1, <1>2, <1>7 DEF HeldRising
  <2>2. /\ Before(Asked(n), Collected(n))' /\ Before(Asked(n), Queued(n))'
        /\ Before(Collected(n), Queued(n))'
    BY <1>7, <1>13 DEF HeldRising, Before
  <2> QED BY <1>16, <2>1, <2>2 DEF HeldRising
<1>18. LocalOK(n)'
  <2>1. Infers(n)'
    BY <1>1, <1>5, SameFacts DEF Infers
  <2>2. KindOK(n)'
    BY <1>2, <1>5, <1>10, <2>1 DEF LocalOK, KindOK
  <2>3. /\ SentRising(sending[Loop(n)], Plain)' /\ SentRising(sending[Resp(n)], Plain)'
    BY <1>2, <1>10, <1>12 DEF LocalOK
  <2> QED BY <1>17, <2>2, <2>3 DEF LocalOK
<1>19. \A m : Sent(n, m)' \subseteq Out
  <2>1. \A m : SentTo(sending[Loop(n)], m, Plain) = {}
    BY <1>5 DEF LocalOK, KindOK, SentTo
  <2> QED BY <1>2, <1>10, <1>12, <2>1 DEF Sent
<1> QED BY <1>1, <1>2, <1>4, <1>5, <1>9, <1>11, <1>15, <1>18, <1>19 DEF batch, r

LEMMA OrderRespond ==
    ASSUME GraphIInv, StartOK, MainOK, FlowOK, FlowOK', ~FanIn,
           NEW mark \in [ModuleNames -> Nat], OrderOK(mark),
           NEW n \in ModuleNames, Respond(n)
    PROVE  OrderOK(mark)'
<1> DEFINE Out == Range(Head(requests[n]))
<1>1. /\ SameGraph /\ FramesKept /\ DOMAIN frames' = DOMAIN frames /\ n # "source"
      /\ \A k \in ModuleNames \ {n} : SameAt(k)
      /\ LocalOK(n)' /\ Held(n)' \subseteq Held(n)
      /\ Out \subseteq Held(n) /\ Before(Out, Held(n)')
      /\ \A m : Sent(n, m)' \subseteq Out
  BY RespondOrder DEF OrderOK
<1>2. Len(frames) <= Len(frames')
  <2>1. frames \in Seq(Range(frames)) /\ frames' \in Seq(Range(frames'))
    BY DEF FlowOK, IsList
  <2>2. /\ Len(frames) \in Nat /\ DOMAIN frames = 1 .. Len(frames)
        /\ Len(frames') \in Nat /\ DOMAIN frames' = 1 .. Len(frames')
    BY <2>1
  <2> QED BY <1>1, <2>2
<1> HIDE DEF Out
<1>3. \A m \in Targets(n) : Sent(n, m)' \subseteq Sent(n, m) \cup Out
  BY <1>1
<1> QED BY <1>1, <1>2, <1>3, OrderMoved

\* What a push in progress takes with it: no later push to the same module, and
\* nothing that is held, is of an earlier frame.
LEMMA HeadOfSending ==
    ASSUME GraphIInv, FlowOK, NEW n \in ModuleNames, LocalOK(n),
           NEW t \in {Loop(n), Resp(n)}, sending[t] # << >>,
           sending' = [sending EXCEPT ![t] = Tail(@)], Plain' = Plain,
           NEW head, head = Head(sending[t])
    PROVE  /\ head.to \in Targets(n) /\ head.frame \in DOMAIN frames
           /\ head.frame \in Plain =>
                head.frame \in Sent(n, head.to) /\ Before({head.frame}, Sent(n, head.to)')
           /\ \A m : Sent(n, m)' \subseteq Sent(n, m)
           /\ SentRising(sending'[Loop(n)], Plain) /\ SentRising(sending'[Resp(n)], Plain)
           /\ \A i \in DOMAIN sending'[Loop(n)] : \E j \in DOMAIN sending[Loop(n)] :
                sending'[Loop(n)][i] = sending[Loop(n)][j]
           /\ sending[Resp(n)] = << >> => sending'[Resp(n)] = << >>
<1> DEFINE s == sending[t]
           G == Targets(n)
<1>1. /\ DOMAIN sending = Threads
      /\ sending[Loop(n)] \in Seq([frame : DOMAIN frames, to : G])
      /\ sending[Resp(n)] \in Seq([frame : DOMAIN frames, to : G])
      /\ sending[Resp(n)] \in Seq([frame : Plain, to : G])
      /\ Plain \subseteq DOMAIN frames
  <2>1. /\ DOMAIN sending = Threads
        /\ sending[Loop(n)] \in Seq([frame : DOMAIN frames, to : G])
        /\ sending[Resp(n)] \in Seq([frame : Plain, to : G])
    BY DEF FlowOK, SendingOK, Loop, Resp
  <2>2. Plain \subseteq DOMAIN frames
    BY DEF Plain
  <2>3. [frame : Plain, to : G] \subseteq [frame : DOMAIN frames, to : G]
    BY <2>2
  <2> DEFINE S == [frame : Plain, to : G]
             T == [frame : DOMAIN frames, to : G]
  <2> HIDE DEF S, T
  <2>4. Seq(S) \subseteq Seq(T)
    BY <2>3, SeqWider DEF S, T
  <2> QED BY <2>1, <2>2, <2>4 DEF S, T
<1>2. s \in Seq([frame : DOMAIN frames, to : G]) /\ SentRising(s, Plain) /\ s # << >>
      /\ head = Head(s)
  BY <1>1 DEF LocalOK
<1> HIDE DEF s, G
<1>3. /\ SentRising(Tail(s), Plain)
      /\ \A m : SentTo(Tail(s), m, Plain) \subseteq SentTo(s, m, Plain)
      /\ head.frame \in Plain =>
           /\ head.frame \in SentTo(s, head.to, Plain)
           /\ Before({head.frame}, SentTo(Tail(s), head.to, Plain))
      /\ head.frame \in DOMAIN frames /\ head.to \in G
  BY <1>2, SentTail
<1>4. \A i \in DOMAIN Tail(s) : \E j \in DOMAIN s : Tail(s)[i] = s[j]
  <2> DEFINE T == [frame : DOMAIN frames, to : G]
  <2>1. s \in Seq(T) /\ s # << >>
    BY <1>2
  <2> HIDE DEF T
  <2>2. /\ DOMAIN Tail(s) = 1 .. Len(s) - 1
        /\ \A i \in 1 .. Len(s) - 1 : i + 1 \in DOMAIN s /\ Tail(s)[i] = s[i + 1]
    BY <2>1, TailRange
  <2> QED BY <2>2
<1>5. /\ sending'[t] = Tail(s)
      /\ t = Loop(n) => sending'[Resp(n)] = sending[Resp(n)]
      /\ t = Resp(n) => sending'[Loop(n)] = sending[Loop(n)]
  BY <1>1, ThreadFacts DEF s
<1>6. CASE t = Loop(n)
  <2>1. head.frame \in Plain => sending[Resp(n)] = << >>
    <3>1. Head(s) = s[1] /\ 1 \in DOMAIN s
      <4> DEFINE T == [frame : DOMAIN frames, to : G]
      <4>1. s \in Seq(T) /\ s # << >>
        BY <1>2
      <4> HIDE DEF T
      <4> QED BY <4>1, TailRange
    <3>2. Infers(n) => s[1].frame \notin Plain
      BY <1>6, <3>1 DEF LocalOK, KindOK, s
    <3>3. ~Infers(n) => sending[Resp(n)] = << >>
      BY DEF LocalOK, KindOK
    <3>4. head = s[1]
      BY <1>2, <3>1
    <3> HIDE DEF s
    <3> QED BY <3>2, <3>3, <3>4
  <2>2. head.frame \in Plain => Before({head.frame}, Sent(n, head.to)')
    BY <1>3, <1>5, <1>6, <2>1, SentNone DEF Sent
  <2>3. head.frame \in Plain => head.frame \in Sent(n, head.to)
    BY <1>3, <1>6 DEF Sent, s
  <2>4. \A m : Sent(n, m)' \subseteq Sent(n, m)
    <3>1. sending'[Loop(n)] = Tail(s) /\ sending'[Resp(n)] = sending[Resp(n)] /\ sending[Loop(n)] = s
      BY <1>5, <1>6 DEF s
    <3>2. \A m : Sent(n, m)' = SentTo(sending'[Loop(n)], m, Plain) \cup SentTo(sending'[Resp(n)], m, Plain)
      BY DEF Sent
    <3> QED BY <1>3, <3>1, <3>2 DEF Sent
  <2>5. SentRising(sending'[Loop(n)], Plain) /\ SentRising(sending'[Resp(n)], Plain)
    BY <1>3, <1>5, <1>6 DEF LocalOK
  <2> QED BY <1>3, <1>4, <1>5, <1>6, <2>2, <2>3, <2>4, <2>5 DEF s, G
<1>7. CASE t = Resp(n)
  <2>1. SentTo(sending[Loop(n)], head.to, Plain) = {}
    <3>1. Infers(n)
      BY <1>2, <1>7 DEF LocalOK, KindOK, s
    <3> QED BY <3>1 DEF LocalOK, KindOK, SentTo
  <2>2. head.frame \in Plain => Before({head.frame}, Sent(n, head.to)')
    BY <1>3, <1>5, <1>7, <2>1 DEF Sent
  <2>3. head.frame \in Plain => head.frame \in Sent(n, head.to)
    BY <1>3, <1>7 DEF Sent, s
  <2>4. \A m : Sent(n, m)' \subseteq Sent(n, m)
    <3>1. sending'[Resp(n)] = Tail(s) /\ sending'[Loop(n)] = sending[Loop(n)] /\ sending[Resp(n)] = s
      BY <1>5, <1>7 DEF s
    <3>2. \A m : Sent(n, m)' = SentTo(sending'[Loop(n)], m, Plain) \cup SentTo(sending'[Resp(n)], m, Plain)
      BY DEF Sent
    <3> QED BY <1>3, <3>1, <3>2 DEF Sent
  <2>5. SentRising(sending'[Loop(n)], Plain) /\ SentRising(sending'[Resp(n)], Plain)
    BY <1>3, <1>5, <1>7 DEF LocalOK
  <2>6. sending[Resp(n)] = << >> => sending'[Resp(n)] = << >>
    BY <1>2, <1>7 DEF s
  <2> QED BY <1>3, <1>5, <1>7, <2>2, <2>3, <2>4, <2>5, <2>6 DEF s, G
<1> QED BY <1>6, <1>7

\* What a connector is given.
LEMMA QueueAppended ==
    ASSUME FlowOK, Plain' = Plain, NEW to \in ModuleNames, NEW f \in DOMAIN frames,
           queue' = [queue EXCEPT ![to] = Append(@, f)], UNCHANGED <<batch_array, requests>>,
           HeldRising(to), f \in Plain => Before(Held(to), {f})
    PROVE  /\ HeldRising(to)' /\ Held(to)' = Held(to) \cup ({f} \cap Plain)
           /\ Queued(to)' = Queued(to) \cup ({f} \cap Plain)
           /\ \A k \in ModuleNames \ {to} : queue'[k] = queue[k]
<1> DEFINE q == queue[to]
<1>1. queue \in [ModuleNames -> Seq(DOMAIN frames)] /\ q \in Seq(DOMAIN frames)
  BY DEF FlowOK
<1>2. queue'[to] = Append(q, f) /\ \A k \in ModuleNames \ {to} : queue'[k] = queue[k]
  BY <1>1
<1>3. f \in Plain => Before(Range(q) \cap Plain, {f})
  BY DEF Before, Held, Queued
<1>4. Rising(q, Plain)
  BY DEF HeldRising
<1>5. Rising(Append(q, f), Plain) /\ Range(Append(q, f)) = Range(q) \cup {f}
  <2>1. PICK D : D = DOMAIN frames
    OBVIOUS
  <2>2. PICK F : F = Plain
    OBVIOUS
  <2>3. PICK s \in Seq(D) : s = q
    BY <1>1, <2>1
  <2>4. f \in D /\ Rising(s, F)
    BY <1>4, <2>1, <2>2, <2>3
  <2>5. f \in F => Before(Range(s) \cap F, {f})
    BY <1>3, <2>2, <2>3
  <2> HIDE DEF q
  <2>6. Rising(Append(s, f), F) /\ Range(Append(s, f)) = Range(s) \cup {f}
    <3>1. CASE f \in F
      <4>1. Before(Range(s) \cap F, {f})
        BY <2>5, <3>1
      <4> QED BY ONLY s \in Seq(D), <2>4, <3>1, <4>1, RisingAppend
    <3>2. CASE f \notin F
      BY ONLY s \in Seq(D), <2>4, <3>2, RisingAppend, ZenonT(60)
    <3> QED BY <3>1, <3>2
  <2> QED BY <2>2, <2>3, <2>6
<1> HIDE DEF q
<1>6. Queued(to)' = Queued(to) \cup ({f} \cap Plain)
  BY <1>2, <1>5 DEF Queued, q
<1>7. Collected(to)' = Collected(to) /\ Asked(to)' = Asked(to)
  BY DEF Collected, Asked
<1>8. Held(to)' = Held(to) \cup ({f} \cap Plain)
  BY <1>6, <1>7 DEF Held
<1>9. RequestsRising(to)' /\ Rising(batch_array[to], Plain)'
  BY DEF HeldRising, RequestsRising
<1>10. /\ Before(Asked(to), Collected(to))' /\ Before(Asked(to), Queued(to))'
       /\ Before(Collected(to), Queued(to))'
  BY <1>6, <1>7 DEF Before, Held, HeldRising
<1>11. HeldRising(to)'
  BY <1>2, <1>5, <1>9, <1>10 DEF HeldRising
<1> QED BY <1>2, <1>6, <1>8, <1>11

\* A push of TransmitData.
LEMMA OrderTransmit ==
    ASSUME GraphIInv, FlowOK, ~FanIn,
           NEW mark \in [ModuleNames -> Nat], OrderOK(mark),
           NEW t \in Threads, Transmit(t)
    PROVE  \E next \in [ModuleNames -> Nat] : StepOK(mark, next)
<1>1. PICK n \in ModuleNames : t \in {Loop(n), Resp(n)}
  BY DEF Threads, Loop, Resp
<1>2. PICK head : head = Head(sending[t])
  OBVIOUS
<1> DEFINE to == head.to
           f == head.frame
<1>3. /\ sending[t] # << >> /\ SameGraph
      /\ \/ queue' = [queue EXCEPT ![to] = Append(@, f)]
         \/ UNCHANGED queue
      /\ sending' = [sending EXCEPT ![t] = Tail(@)]
      /\ UNCHANGED <<frames, batch_array, requests>>
  BY <1>2 DEF Transmit, Transmitted, graphVars, SameGraph
<1>4. FramesKept /\ Plain' = Plain /\ Plain \subseteq Nat
  BY <1>3, SameFrames, HeldTypes
<1>5. LocalOK(n)
  BY DEF OrderOK
<1>6. /\ to \in Targets(n) /\ f \in DOMAIN frames
      /\ f \in Plain => f \in Sent(n, to) /\ Before({f}, Sent(n, to)')
      /\ \A m : Sent(n, m)' \subseteq Sent(n, m)
      /\ SentRising(sending'[Loop(n)], Plain) /\ SentRising(sending'[Resp(n)], Plain)
      /\ \A i \in DOMAIN sending'[Loop(n)] : \E j \in DOMAIN sending[Loop(n)] :
           sending'[Loop(n)][i] = sending[Loop(n)][j]
      /\ sending[Resp(n)] = << >> => sending'[Resp(n)] = << >>
  BY <1>1, <1>2, <1>3, <1>4, <1>5, HeadOfSending
<1>7. /\ MapsOK /\ CountsAgree /\ \A k : Targets(k) \subseteq ModuleNames
      /\ DOMAIN sending = Threads
  BY TargetsNamed DEF GraphIInv, FlowOK, SendingOK
<1>8. to \in ModuleNames
  BY <1>6, <1>7
<1>9. LinkOK(mark, n, to)
  BY <1>6 DEF OrderOK
<1>10. f \in Plain => mark[to] < f /\ f <= MarkOf(mark, n)
  BY <1>6, <1>9 DEF LinkOK
<1>11. f \in Plain => Before(Held(to), {f})
  <2>1. \A x \in Held(to) : x <= mark[to]
    BY <1>8 DEF OrderOK
  <2>2. Held(to) \subseteq Nat /\ mark[to] \in Nat
    BY <1>8, HeldTypes
  <2>3. ASSUME f \in Plain, NEW x \in Held(to) PROVE x < f
    <3>1. f \in Nat /\ mark[to] < f
      BY <1>4, <1>10, <2>3
    <3>2. x \in Nat /\ x <= mark[to] /\ mark[to] \in Nat
      BY <2>1, <2>2, <2>3
    <3> HIDE DEF to, f
    <3> QED BY <3>1, <3>2
  <2> QED BY <2>3 DEF Before
<1> HIDE DEF to, f
<1> DEFINE g == f \in Plain /\ queue' # queue
           next == [k \in ModuleNames |-> IF g /\ k = to THEN f ELSE mark[k]]
<1>12. PICK gone \in {0, 1} : gone = 1 <=> g
  <2>1. CASE g
    <3> WITNESS 1 \in {0, 1}
    <3> QED BY <2>1
  <2>2. CASE ~g
    <3> WITNESS 0 \in {0, 1}
    <3> QED BY <2>2
  <2> QED BY <2>1, <2>2
<1>13. /\ \A k \in ModuleNames : HeldRising(k)'
       /\ \A k \in ModuleNames : IF gone = 1 /\ k = to
            THEN Held(k)' = Held(k) \cup {f} /\ Queued(k)' = Queued(k) \cup {f}
            ELSE Held(k)' = Held(k) /\ Queued(k)' = Queued(k)
  <2>1. CASE UNCHANGED queue
    <3>1. \A k \in ModuleNames : HeldRising(k)' /\ Held(k)' = Held(k)
      BY <1>3, <1>4, <2>1, HeldSame DEF OrderOK, LocalOK
    <3>2. \A k \in ModuleNames : Queued(k)' = Queued(k)
      BY <1>4, <2>1 DEF Queued
    <3> QED BY <1>12, <2>1, <3>1, <3>2
  <2>2. CASE queue' = [queue EXCEPT ![to] = Append(@, f)] /\ queue' # queue
    <3>1. HeldRising(to)
      BY <1>8 DEF OrderOK, LocalOK
    <3>2. /\ HeldRising(to)' /\ Held(to)' = Held(to) \cup ({f} \cap Plain)
          /\ Queued(to)' = Queued(to) \cup ({f} \cap Plain)
          /\ \A k \in ModuleNames \ {to} : queue'[k] = queue[k]
      BY <1>3, <1>4, <1>6, <1>8, <1>11, <2>2, <3>1, QueueAppended
    <3>3. \A k \in ModuleNames \ {to} : HeldRising(k)' /\ Held(k)' = Held(k)
      BY <1>3, <1>4, <3>2, HeldSame DEF OrderOK, LocalOK
    <3>4. \A k \in ModuleNames \ {to} : Queued(k)' = Queued(k)
      BY <1>4, <3>2 DEF Queued
    <3>5. gone = 1 <=> f \in Plain
      BY <1>12, <2>2
    <3> QED BY <3>2, <3>3, <3>4, <3>5
  <2> QED BY <1>3, <2>1, <2>2
<1>14. next \in [ModuleNames -> Nat] /\ \A k \in ModuleNames :
         /\ next[k] = IF gone = 1 /\ k = to THEN f ELSE mark[k]
         /\ mark[k] <= next[k] /\ mark[k] \in Nat /\ next[k] \in Nat
  <2>1. \A k \in ModuleNames : mark[k] \in Nat
    OBVIOUS
  <2>2. gone = 1 => f \in Nat /\ mark[to] < f
    BY <1>4, <1>10, <1>12
  <2>3. \A k \in ModuleNames : /\ next[k] = IF gone = 1 /\ k = to THEN f ELSE mark[k]
    BY <1>12
  <2> QED BY <1>8, <1>12, <2>1, <2>2, <2>3
<1>15. PICK after \in [ModuleNames -> Nat] :
         \A k \in ModuleNames :
           /\ after[k] = IF gone = 1 /\ k = to THEN f ELSE mark[k]
           /\ mark[k] <= after[k] /\ mark[k] \in Nat /\ after[k] \in Nat
  BY <1>14
<1>16. gone = 1 => f \in Plain /\ f \in Nat /\ mark[to] < f /\ f <= MarkOf(mark, n)
  BY <1>4, <1>10, <1>12
<1> HIDE DEF g, next
<1>17. /\ \A k \in ModuleNames \ {n} : sending'[Loop(k)] = sending[Loop(k)]
                                       /\ sending'[Resp(k)] = sending[Resp(k)]
  BY <1>1, <1>3, <1>7, ThreadFacts
<1>18. \A k \in ModuleNames : \A m : Sent(k, m)' \subseteq Sent(k, m)
  BY <1>4, <1>6, <1>17 DEF Sent
<1>19. ASSUME NEW k \in ModuleNames PROVE LocalOK(k)'
  <2>1. LocalOK(k)
    BY DEF OrderOK
  <2>2. Infers(k)' <=> Infers(k)
    BY <1>3, SameFacts DEF Infers
  <2>3. CASE k # n
    <3>1. KindOK(k)'
      <4>1. /\ sending'[Loop(k)] = sending[Loop(k)] /\ sending'[Resp(k)] = sending[Resp(k)]
            /\ UNCHANGED <<batch_array, requests>> /\ KindOK(k)
        BY <1>3, <1>17, <2>1, <2>3 DEF LocalOK
      <4> QED BY <1>4, <2>2, <4>1 DEF KindOK
    <3>2. /\ SentRising(sending[Loop(k)], Plain)' /\ SentRising(sending[Resp(k)], Plain)'
      BY <1>4, <1>17, <2>1, <2>3 DEF LocalOK
    <3> QED BY <1>13, <3>1, <3>2 DEF LocalOK
  <2>4. CASE k = n
    <3>1. KindOK(n)'
      BY <1>3, <1>4, <1>6, <2>1, <2>2, <2>4 DEF LocalOK, KindOK
    <3>2. /\ SentRising(sending[Loop(n)], Plain)' /\ SentRising(sending[Resp(n)], Plain)'
      BY <1>4, <1>6
    <3> QED BY <1>13, <2>4, <3>1, <3>2 DEF LocalOK
  <2> QED BY <2>3, <2>4
<1>20. ASSUME NEW k \in ModuleNames, NEW y \in Held(k)'
       PROVE  y <= after[k] /\ (y \in Held(k) \/ mark[k] < y)
  <2>1. \A x \in Held(k) : x <= mark[k] /\ x \in Nat
    <3>1. Held(k) \subseteq Nat
      BY HeldTypes
    <3> QED BY <3>1 DEF OrderOK
  <2>2. CASE y \in Held(k)
    BY <1>15, <2>1, <2>2
  <2>3. CASE y \notin Held(k)
    <3>1. gone = 1 /\ k = to /\ y = f
      BY <1>13, <1>20, <2>3
    <3> QED BY <1>15, <1>16, <3>1
  <2> QED BY <2>2, <2>3
<1>21. \A k \in ModuleNames : MarkOf(mark, k) <= MarkOf(after, k)'
         /\ MarkOf(mark, k) \in Nat /\ MarkOf(after, k)' \in Nat
  <2>1. Len(frames) \in Nat
    BY HeldTypes
  <2> QED BY <1>3, <1>15, <2>1 DEF MarkOf
<1>22. ASSUME NEW k \in ModuleNames, NEW m \in Targets(k) PROVE LinkOK(after, k, m)'
  <2>1. LinkOK(mark, k, m) /\ m \in ModuleNames
    BY <1>7 DEF OrderOK
  <2>2. /\ Sent(k, m)' \subseteq Sent(k, m) /\ Sent(k, m) \subseteq Nat
        /\ Due(k) \subseteq Nat /\ Held(k) \subseteq Nat
    <3>1. Sent(k, m) \subseteq Nat /\ Held(k) \subseteq Nat
      BY HeldTypes
    <3> QED BY <1>18, <3>1 DEF Due
  <2>3. CASE gone = 1 /\ m = to
    <3>1. k = n
      <4>1. n \in Created /\ k \in Created /\ to \in Range(output_connectors[n])
            /\ to \in Range(output_connectors[k])
        BY <1>6, <2>3 DEF Targets
      <4>2. PICK i \in DOMAIN output_connectors[n], j \in DOMAIN output_connectors[k] :
              output_connectors[n][i] = output_connectors[k][j]
        BY <4>1 DEF Range
      <4> QED BY <1>7, <4>1, <4>2, OnlyLink
    <3>2. Due(n)' \subseteq Due(n)
      <4>1. CASE n = "source"
        BY <4>1 DEF Due
      <4>2. CASE n # "source"
        <5>1. n # to
          <6>1. n = to => f <= mark[to]
            BY <1>16, <2>3, <4>2 DEF MarkOf
          <6>2. mark[to] \in Nat
            BY <1>8
          <6> QED BY <1>16, <2>3, <6>1, <6>2
        <5> QED BY <1>13, <4>2, <5>1 DEF Due
      <4> QED BY <4>1, <4>2
    <3>3. after[m] = f /\ f <= MarkOf(after, n)'
      <4>1. after[m] = f
        BY <1>8, <1>15, <2>3
      <4>2. f <= MarkOf(mark, n)
        BY <1>16, <2>3
      <4> QED BY <1>16, <1>21, <2>3, <4>1, <4>2
    <3>4. f \in Sent(n, to) /\ Before({f}, Sent(n, to)') /\ Before(Sent(n, to), Due(n))
          /\ Due(n) \subseteq Nat
      BY <1>6, <1>9, <1>16, <2>2, <2>3, <3>1 DEF LinkOK
    <3>5. \A x \in Sent(n, to)' : f < x /\ x <= MarkOf(after, n)'
      <4> TAKE x \in Sent(n, to)'
      <4>1. f < x
        BY <3>4 DEF Before
      <4>2. x \in Nat /\ x <= MarkOf(mark, n)
        BY <1>9, <2>2, <2>3, <3>1 DEF LinkOK
      <4> QED BY <1>21, <4>1, <4>2
    <3>6. \A y \in Due(n)' : f < y
      BY <3>2, <3>4 DEF Before
    <3>7. Before(Sent(n, to)', Due(n)')
      BY <2>2, <2>3, <3>1, <3>2, <3>4 DEF Before
    <3> QED BY <2>3, <3>1, <3>3, <3>5, <3>6, <3>7 DEF LinkOK
  <2>4. CASE ~(gone = 1 /\ m = to)
    <3>1. after[m] = mark[m]
      BY <1>15, <2>1, <2>4
    <3>2. \A x \in Sent(k, m)' : mark[m] < x /\ x <= MarkOf(mark, k) /\ x \in Nat
      BY <2>1, <2>2 DEF LinkOK
    <3>3. \A y \in Due(k)' : y \in Due(k) \/ (k # "source" /\ gone = 1 /\ k = to /\ y = f)
      BY <1>13 DEF Due
    <3>4. mark[m] <= MarkOf(mark, k) /\ mark[m] \in Nat
      BY <2>1 DEF LinkOK
    <3>5. ASSUME NEW y \in Due(k)'
          PROVE  mark[m] < y /\ \A x \in Sent(k, m)' : x < y
      <4>1. CASE y \in Due(k)
        BY <2>1, <2>2, <4>1 DEF LinkOK, Before
      <4>2. CASE k # "source" /\ gone = 1 /\ k = to /\ y = f
        <5>1. MarkOf(mark, k) = mark[to] /\ mark[to] \in Nat
          BY <1>8, <4>2 DEF MarkOf
        <5> QED BY <1>16, <3>2, <3>4, <4>2, <5>1
      <4> QED BY <3>3, <3>5, <4>1, <4>2
    <3>6. mark[m] <= MarkOf(after, k)' /\ \A x \in Sent(k, m)' : x <= MarkOf(after, k)'
      BY <1>21, <3>2, <3>4
    <3>7. Before(Sent(k, m)', Due(k)')
      BY <3>5 DEF Before
    <3> QED BY <3>1, <3>2, <3>5, <3>6, <3>7 DEF LinkOK
  <2> QED BY <2>3, <2>4
<1>23. \A k : Targets(k)' = Targets(k)
  BY <1>3, SameFacts
<1>24. OrderOK(after)'
  BY <1>19, <1>20, <1>22, <1>23 DEF OrderOK
<1>25. ASSUME NEW k \in ModuleNames, Infers(k) PROVE Transit(k)' \subseteq Transit(k)
  <2>1. ASSUME NEW m \in Targets(k), NEW y \in Sent(k, m)' \cup Queued(m)'
        PROVE  y \in Transit(k)
    <3>1. CASE y \in Sent(k, m)' \/ y \in Queued(m)
      BY <1>18, <2>1, <3>1 DEF Transit
    <3>2. CASE y \in Queued(m)' /\ y \notin Queued(m)
      <4>1. gone = 1 /\ m = to /\ y = f
        BY <1>7, <1>13, <3>2
      <4>2. k = n
        <5>1. n \in Created /\ k \in Created /\ to \in Range(output_connectors[n])
              /\ to \in Range(output_connectors[k])
          BY <1>6, <2>1, <4>1 DEF Targets
        <5>2. PICK i \in DOMAIN output_connectors[n], j \in DOMAIN output_connectors[k] :
                output_connectors[n][i] = output_connectors[k][j]
          BY <5>1 DEF Range
        <5> QED BY <1>7, <5>1, <5>2, OnlyLink
      <4>3. f \in Sent(n, to)
        BY <1>6, <1>16, <4>1
      <4> QED BY <2>1, <4>1, <4>2, <4>3 DEF Transit
    <3> QED BY <2>1, <3>1, <3>2
  <2> QED BY <1>23, <2>1 DEF Transit
<1>26. StepOK(mark, after)
  BY <1>15, <1>20, <1>24, <1>25 DEF StepOK
<1> QED BY <1>15, <1>26

\* Stop empties the queues and ends all threads but main's.
LEMMA OrderStop ==
    ASSUME GraphIInv, FlowOK, FlowOK', NEW mark \in [ModuleNames -> Nat], OrderOK(mark),
           ObserverStop
    PROVE  StepOK(mark, mark)
<1>1. /\ SameGraph /\ UNCHANGED <<frames, batch_array, requests>>
      /\ \A k \in ModuleNames : queue'[k] = << >>
      /\ \A t \in Threads : sending'[t] = sending[t] \/ sending'[t] = << >>
  BY DEF ObserverStop, SameGraph
<1>2. FramesKept /\ Plain' = Plain /\ Len(frames) <= Len(frames')
  BY <1>1, SameFrames, HeldTypes DEF FlowOK, IsList
<1>3. ASSUME NEW k \in ModuleNames
      PROVE  /\ LocalOK(k)' /\ Held(k)' \subseteq Held(k) /\ Queued(k)' = {}
             /\ Due(k)' \subseteq Due(k)
             /\ \A m : Sent(k, m)' \subseteq Sent(k, m)
  <2>1. LocalOK(k)
    BY DEF OrderOK
  <2>2. Loop(k) \in Threads /\ Resp(k) \in Threads
    BY ThreadFacts
  <2>3. /\ queue'[k] = << >>
        /\ sending'[Loop(k)] = sending[Loop(k)] \/ sending'[Loop(k)] = << >>
        /\ sending'[Resp(k)] = sending[Resp(k)] \/ sending'[Resp(k)] = << >>
    BY <1>1, <2>2
  <2>4. Queued(k)' = {} /\ Collected(k)' = Collected(k) /\ Asked(k)' = Asked(k)
    BY <1>1, <2>3, RisingNone DEF Queued, Collected, Asked
  <2>5. Held(k)' \subseteq Held(k) /\ Due(k)' \subseteq Due(k)
    BY <2>4 DEF Held, Due
  <2>6. HeldRising(k)'
    <3>1. Rising(queue[k], Plain)' /\ Rising(batch_array[k], Plain)' /\ RequestsRising(k)'
      BY <1>1, <1>2, <2>1, <2>3, RisingNone DEF LocalOK, HeldRising, RequestsRising
    <3>2. Before(Asked(k), Collected(k))
      BY <2>1 DEF LocalOK, HeldRising
    <3> QED BY <2>4, <3>1, <3>2 DEF HeldRising, Before
  <2>7. Infers(k)' <=> Infers(k)
    BY <1>1, SameFacts DEF Infers
  <2>8. KindOK(k)'
    BY <1>1, <1>2, <2>1, <2>3, <2>7 DEF LocalOK, KindOK
  <2>9. /\ SentRising(sending[Loop(k)], Plain)' /\ SentRising(sending[Resp(k)], Plain)'
        /\ \A m : SentTo(sending[Loop(k)], m, Plain)' \subseteq SentTo(sending[Loop(k)], m, Plain)
        /\ \A m : SentTo(sending[Resp(k)], m, Plain)' \subseteq SentTo(sending[Resp(k)], m, Plain)
    BY <1>2, <2>1, <2>3, SentNone DEF LocalOK
  <2>10. \A m : Sent(k, m)' \subseteq Sent(k, m)
    BY <2>9 DEF Sent
  <2> QED BY <2>4, <2>5, <2>6, <2>8, <2>9, <2>10 DEF LocalOK
<1>4. \A k : Targets(k)' = Targets(k) /\ Targets(k) \subseteq ModuleNames
  BY <1>1, SameFacts, TargetsNamed
<1>5. ASSUME NEW k \in ModuleNames, NEW m \in Targets(k) PROVE LinkOK(mark, k, m)'
  <2>1. m \in ModuleNames /\ LinkOK(mark, k, m)
    BY <1>4 DEF OrderOK
  <2>2. PICK Out : Out = {}
    OBVIOUS
  <2>3. Out \in SUBSET Due(k) /\ Before(Out, Due(k)') /\ \A x \in Out : x <= mark[k]
    BY <2>2 DEF Before
  <2>4. Due(k)' \subseteq Due(k) /\ Sent(k, m)' \subseteq Sent(k, m) \cup Out
    BY <1>3
  <2> QED BY <1>2, <2>1, <2>3, <2>4, LinkMoved
<1>6. OrderOK(mark)'
  BY <1>3, <1>4, <1>5 DEF OrderOK
<1> QED BY <1>1, <1>3, <1>6, StepKept

\* Source gives on a new frame: no mark changes.
LEMMA OrderSource ==
    ASSUME GraphIInv, MainOK, FlowOK, FlowOK', ~FanIn,
           NEW mark \in [ModuleNames -> Nat], OrderOK(mark),
           SourceFrame \/ SourceEos
    PROVE  StepOK(mark, mark) /\ FramesKept /\ SameGraph
           /\ DOMAIN frames' = DOMAIN frames \cup {Len(frames) + 1}
           /\ \A f \in DOMAIN frames : frames'[f] = frames[f]
<1> DEFINE f == Len(frames) + 1
           n == "source"
<1>1. PICK x : /\ IsFrame(x) /\ frames' = Append(frames, x)
  <2>1. CASE SourceFrame
    <3> DEFINE y == [eos |-> FALSE, image |-> Head(stream), objs |-> << >>]
               S == Images \cup {NoImage, Moved}
    <3>1. frames' = Append(frames, y) /\ stream # << >> /\ Head(stream) # Moved
      BY <2>1 DEF SourceFrame
    <3>2. Head(stream) \in Images \cup {NoImage}
      <4>1. stream \in Seq(S)
        BY DEF FlowOK
      <4> HIDE DEF S
      <4>2. Head(stream) \in S
        BY <3>1, <4>1, HeadType
      <4> QED BY <3>1, <4>2 DEF S
    <3>3. IsFrame(y)
      BY <3>2 DEF IsFrame, IsList
    <3> QED BY <3>1, <3>3
  <2>2. CASE SourceEos
    BY <2>2 DEF SourceEos, IsFrame
  <2> QED BY <2>1, <2>2
<1>2. /\ main = "run" /\ SameGraph
      /\ sending[Loop(n)] = << >>
      /\ sending' = [sending EXCEPT ![Loop(n)] = Pushes(n, f)]
      /\ UNCHANGED <<queue, batch_array, requests, late>>
  BY DEF SourceFrame, SourceEos, RightMove, SameGraph, graphVars, Transmitted
<1>3. /\ FramesKept /\ DOMAIN frames' = DOMAIN frames \cup {f} /\ f \notin DOMAIN frames
      /\ \A g \in DOMAIN frames : frames'[g] = frames[g]
  BY <1>1, NewFrame
<1>4. /\ Len(frames) \in Nat /\ Len(frames') = f
      /\ Plain \subseteq DOMAIN frames /\ Plain \subseteq Nat
  <2>1. frames \in Seq(Range(frames) \cup {x})
    <3>1. frames \in Seq(Range(frames))
      BY DEF FlowOK, IsList
    <3> QED BY <3>1, SeqWider
  <2> QED BY <1>1, <2>1, HeldTypes DEF Plain
<1>5. /\ n \in ModuleNames /\ n \in Created /\ MapsOK /\ CountsAgree /\ ~Infers(n)
      /\ DOMAIN sending = Threads
  <2>1. "source" \in ModuleNames
    BY FramePathAssumption DEF FramePathAssumption
  <2>2. modules_map["source"] = "Source"
    BY <1>2 DEF MainOK
  <2> QED BY <1>2, <2>1, <2>2, SourceCreated DEF GraphIInv, Infers, FlowOK, SendingOK
<1> HIDE DEF f
<1>6. /\ sending'[Loop(n)] = Pushes(n, f) /\ sending'[Resp(n)] = sending[Resp(n)]
      /\ \A k \in ModuleNames \ {n} : SameAt(k)
  BY <1>2, <1>5, ThreadFacts DEF SameAt
<1>7. /\ SentRising(Pushes(n, f), Plain')
      /\ \A m : SentTo(Pushes(n, f), m, Plain') \subseteq {f}
  <2>1. PICK F : F = Plain'
    OBVIOUS
  <2>2. SentRising(Pushes(n, f), F) /\ \A m : SentTo(Pushes(n, f), m, F) \subseteq {f} \cap F
    BY <1>5, SentPushes
  <2> QED BY <2>1, <2>2
<1>8. \A k \in ModuleNames : /\ Held(k)' = Held(k) /\ Due(k)' = Due(k)
                             /\ HeldRising(k) => HeldRising(k)'
  BY <1>2, <1>3, HeldSame
<1>9. LocalOK(n)
  BY <1>5 DEF OrderOK
<1>10. sending[Resp(n)] = << >>
  BY <1>5, <1>9 DEF LocalOK, KindOK
<1>11. LocalOK(n)'
  <2>1. ~Infers(n)'
    BY <1>2, <1>5, SameFacts DEF Infers
  <2>2. KindOK(n)'
    BY <1>2, <1>5, <1>6, <1>9, <2>1 DEF LocalOK, KindOK
  <2>3. SentRising(sending[Loop(n)], Plain)' /\ SentRising(sending[Resp(n)], Plain)'
    BY <1>6, <1>7, <1>10, SentNone
  <2> QED BY <1>5, <1>8, <1>9, <2>2, <2>3 DEF LocalOK
<1>12. \A m : Sent(n, m)' \subseteq {f}
  BY <1>6, <1>7, <1>10, SentNone DEF Sent
<1>13. \A k \in ModuleNames \ {n} : LocalOK(k)' /\ \A m : Sent(k, m)' = Sent(k, m)
  BY <1>2, <1>3, <1>6, LocalSame DEF OrderOK
<1>14. \A k : Targets(k)' = Targets(k) /\ Targets(k) \subseteq ModuleNames
  BY <1>2, SameFacts, TargetsNamed
<1>15. Len(frames) <= Len(frames') /\ f = Len(frames) + 1
  BY <1>4 DEF f
<1>16. ASSUME NEW k \in ModuleNames, NEW m \in Targets(k) PROVE LinkOK(mark, k, m)'
  <2>1. m \in ModuleNames /\ LinkOK(mark, k, m)
    BY <1>14 DEF OrderOK
  <2>2. CASE k = n
    <3>1. mark[m] <= Len(frames) /\ mark[m] \in Nat /\ MarkOf(mark, n)' = f
      BY <1>4, <2>1, <2>2 DEF LinkOK, MarkOf
    <3>2. mark[m] < f /\ f <= MarkOf(mark, n)' /\ mark[m] <= MarkOf(mark, n)'
      BY <1>4, <1>15, <3>1
    <3>3. Due(n)' = {}
      BY DEF Due
    <3> QED BY <1>12, <2>2, <3>2, <3>3 DEF LinkOK, Before
  <2>3. CASE k # n
    <3>1. PICK Out : Out = {}
      OBVIOUS
    <3>2. Out \in SUBSET Due(k) /\ Before(Out, Due(k)') /\ \A z \in Out : z <= mark[k]
      BY <3>1 DEF Before
    <3>3. Due(k)' \subseteq Due(k) /\ Sent(k, m)' \subseteq Sent(k, m) \cup Out
      BY <1>8, <1>13, <2>3
    <3> QED BY <1>15, <2>1, <3>2, <3>3, LinkMoved
  <2> QED BY <2>2, <2>3
<1>17. OrderOK(mark)'
  <2>1. \A k \in ModuleNames : \A y \in Held(k)' : y <= mark[k]
    BY <1>8 DEF OrderOK
  <2> QED BY <1>11, <1>13, <1>14, <1>16, <2>1 DEF OrderOK
<1>18. \A k \in ModuleNames : Queued(k)' = Queued(k)
  <2>1. \A g \in DOMAIN frames : g \in Plain' <=> g \in Plain
    BY <1>3 DEF FramesKept, Plain
  <2>2. \A k \in ModuleNames : Range(queue[k]) \subseteq DOMAIN frames
    BY HeldTypes
  <2> QED BY <1>2, <1>4, <2>1, <2>2 DEF Queued
<1>19. \A k \in ModuleNames : Infers(k) => \A m \in Targets(k) : Sent(k, m)' \subseteq Sent(k, m)
  BY <1>5, <1>13
<1>20. StepOK(mark, mark)
  BY <1>2, <1>8, <1>17, <1>18, <1>19, StepKept
<1> QED BY <1>2, <1>3, <1>20 DEF f

-----------------------------------------------------------------------------
(* The faces of a frame, and the matrices it is warped with.               *)

NoneLate(f) == \A x \in late : x.frame # f
Untouched(f) == frames[f].objs = << >> /\ NoneLate(f)

\* A frame has what the network found, or one task has still to add it, or to end
\* the process for want of data.
Done(f) == \/ NoneLate(f) /\ Answers(frames[f].objs, frames[f].image)
           \/ /\ frames[f].objs = << >>
              /\ \E x \in late : /\ x.frame = f
                                 /\ x.null \/ Answers(x.objs, frames[f].image)
                                 /\ \A y \in late : y.frame = f => y = x

\* What comes to Inference has no faces; what it has given on has all.
FoundOK(mark, n) == /\ \A f \in Plain : (f > mark[n] \/ f \in Held(n)) => Untouched(f)
                    /\ \A f \in Transit(n) : Done(f)

\* A warped frame came before those that the module has still to warp.
WarpedOK(mark) ==
    /\ DOMAIN src_points = ModuleNames
    /\ \A x \in warped : /\ x.by \in ModuleNames \ {"source"}
                         /\ x.frame \in Nat /\ x.frame <= mark[x.by]
                         /\ \A y \in Held(x.by) : x.frame < y
    /\ \A n \in ModuleNames : src_points[n] # << >> => \E x \in warped : x.by = n
    /\ OwnMatrices

Detects == OneDetector /\ conf.outputs = OutputNum

MarkOK(mark) == /\ OrderOK(mark) /\ WarpedOK(mark)
                /\ Detects => \A n \in ModuleNames : Infers(n) => FoundOK(mark, n)

Marked == \E mark \in [ModuleNames -> Nat] : MarkOK(mark)

\* Before main runs the decoder nothing has been warped.
MarksOK ==
    /\ main = "start" => warped = {} /\ src_points = [n \in ModuleNames |-> << >>]
    /\ ~FanIn => Marked

\* Sequences of which at most one has elements, put together.
LEMMA FlattenOne ==
    ASSUME NEW N \in Nat \ {0}, NEW S, NEW v \in Seq(Seq(S)), Len(v) = N, NEW k \in Nat,
           \A j \in 1 .. N : j # k => v[j] = << >>
    PROVE  FlattenSeq(v) = IF k \in 1 .. N THEN v[k] ELSE << >>
<1>1. Len(v) \in Nat /\ \A j \in 1 .. N : v[j] \in Seq(S)
  OBVIOUS
<1>2. PICK f : /\ \A i \in 1 .. N : f[i] = IF i = 1 THEN v[i] ELSE f[i - 1] \o v[i]
               /\ FlattenSeq(v) = f[N]
  BY <1>1, FlattenUnfold
<1> DEFINE Part(m) == IF k \in 1 .. m THEN v[k] ELSE << >>
           One == {m \in Nat : m \in 1 .. N => f[m] = Part(m)}
<1>3. Nat \subseteq One
  <2>1. 0 \in One
    OBVIOUS
  <2>2. ASSUME NEW m \in Nat, m \in One, m + 1 \in 1 .. N PROVE f[m + 1] = Part(m + 1)
    <3>1. CASE m = 0
      <4>1. f[m + 1] = v[1]
        BY <1>2, <2>2, <3>1
      <4>2. CASE k = 1
        BY <3>1, <4>1, <4>2
      <4>3. CASE k # 1
        <5>1. v[1] = << >> /\ k \notin 1 .. m + 1
          BY <2>2, <3>1, <4>3
        <5> QED BY <4>1, <5>1
      <4> QED BY <4>2, <4>3
    <3>2. CASE m # 0
      <4>1. m \in 1 .. N /\ m + 1 # 1 /\ (m + 1) - 1 = m
        BY <2>2, <3>2
      <4>2. f[m + 1] = f[m] \o v[m + 1] /\ f[m] = Part(m)
        BY <1>2, <2>2, <4>1
      <4>3. v[m + 1] \in Seq(S) /\ << >> \in Seq(S)
        BY <1>1, <2>2
      <4>4. \A s \in Seq(S) : << >> \o s = s /\ s \o << >> = s
        OBVIOUS
      <4>5. CASE k = m + 1
        <5>1. f[m] = << >> /\ k \in 1 .. m + 1
          BY <2>2, <4>2, <4>5
        <5> QED BY <4>2, <4>3, <4>4, <4>5, <5>1
      <4>6. CASE k # m + 1
        <5>1. v[m + 1] = << >> /\ (k \in 1 .. m + 1 <=> k \in 1 .. m)
          BY <2>2, <4>6
        <5>2. Part(m) \in Seq(S) /\ Part(m + 1) = Part(m)
          BY <1>1, <4>1, <4>3, <5>1
        <5> HIDE DEF Part
        <5> QED BY <4>2, <4>4, <5>1, <5>2
      <4> QED BY <4>5, <4>6
    <3> QED BY <3>1, <3>2
  <2>3. ASSUME NEW m \in Nat, m \in One PROVE m + 1 \in One
    <3>1. m + 1 \in 1 .. N => f[m + 1] = Part(m + 1)
      BY <2>2, <2>3
    <3> HIDE DEF Part
    <3> QED BY <3>1
  <2> HIDE DEF One
  <2> QED BY <2>1, <2>3, NatSetInduction
<1>4. N \in 1 .. N /\ N \in One
  BY <1>3
<1> QED BY <1>2, <1>4

HeldNumbers == \A k \in ModuleNames : Held(k) \subseteq Nat

LEMMA HeldNat == FlowOK => HeldNumbers
BY HeldTypes DEF HeldNumbers

LEMMA HeldNext == FlowOK' => HeldNumbers'
BY HeldNat, PTL

LEMMA WarpedKept ==
    ASSUME FlowOK, FlowOK', NEW mark \in [ModuleNames -> Nat], NEW next \in [ModuleNames -> Nat],
           \A k \in ModuleNames : /\ mark[k] <= next[k]
                                  /\ \A y \in Held(k)' : y \in Held(k) \/ mark[k] < y,
           WarpedOK(mark), UNCHANGED <<src_points, warped>>
    PROVE  WarpedOK(next)'
<1>1. \A k \in ModuleNames : Held(k)' \subseteq Nat
  BY HeldNext DEF HeldNumbers
<1>2. ASSUME NEW x \in warped
      PROVE  /\ x.by \in ModuleNames \ {"source"} /\ x.frame \in Nat
             /\ x.frame <= next[x.by] /\ \A y \in Held(x.by)' : x.frame < y
  <2>1. /\ x.by \in ModuleNames \ {"source"} /\ x.frame \in Nat /\ x.frame <= mark[x.by]
        /\ \A y \in Held(x.by) : x.frame < y
    BY DEF WarpedOK
  <2>2. mark[x.by] \in Nat /\ next[x.by] \in Nat /\ mark[x.by] <= next[x.by]
    BY <2>1
  <2>3. ASSUME NEW y \in Held(x.by)' PROVE x.frame < y
    <3>1. y \in Nat /\ (y \in Held(x.by) \/ mark[x.by] < y)
      BY <1>1, <2>1
    <3> QED BY <2>1, <2>2, <3>1
  <2>4. x.frame <= next[x.by]
    BY <2>1, <2>2
  <2> QED BY <2>1, <2>3, <2>4
<1>3. OwnMatrices'
  BY DEF WarpedOK, OwnMatrices
<1>4. \A n \in ModuleNames : src_points'[n] # << >> => \E x \in warped' : x.by = n
  BY DEF WarpedOK
<1> QED BY <1>2, <1>3, <1>4 DEF WarpedOK

\* No frame changes, and none that is new has faces.
LEMMA FoundKept ==
    ASSUME FlowOK, FlowOK', FramesKept, NEW mark \in [ModuleNames -> Nat],
           NEW next \in [ModuleNames -> Nat], StepOK(mark, next),
           \A f \in DOMAIN frames : frames'[f] = frames[f],
           \A f \in Plain' : f \notin Plain => frames'[f].objs = << >>, UNCHANGED late,
           NEW n \in ModuleNames, Infers(n), FoundOK(mark, n)
    PROVE  FoundOK(next, n)'
<1>1. /\ \A f : NoneLate(f)' = NoneLate(f)
      /\ \A x \in late : x.frame \in Plain
  BY DEF NoneLate, FlowOK, HeldOK
<1>2. /\ Plain \subseteq Nat /\ Plain \subseteq DOMAIN frames
      /\ \A m : Sent(n, m) \subseteq Plain /\ Queued(m) \subseteq Plain
  BY HeldTypes DEF Queued
<1>3. Transit(n) \subseteq Plain
  BY <1>2 DEF Transit
<1>4. ASSUME NEW f \in Plain', f > next[n] \/ f \in Held(n)' PROVE Untouched(f)'
  <2>1. CASE f \in Plain
    <3>1. f \in Nat /\ mark[n] \in Nat /\ next[n] \in Nat /\ mark[n] <= next[n]
      BY <1>2, <2>1 DEF StepOK
    <3>2. f > mark[n] \/ f \in Held(n)
      BY <1>4, <3>1 DEF StepOK
    <3>3. Untouched(f) /\ frames'[f] = frames[f]
      BY <1>2, <2>1, <3>2 DEF FoundOK
    <3> QED BY <1>1, <3>3 DEF Untouched
  <2>2. CASE f \notin Plain
    <3>1. frames'[f].objs = << >>
      BY <2>2
    <3>2. NoneLate(f)
      BY <1>1, <2>2 DEF NoneLate
    <3> QED BY <1>1, <3>1, <3>2 DEF Untouched
  <2> QED BY <2>1, <2>2
<1>5. ASSUME NEW f \in Transit(n)' PROVE Done(f)'
  <2>1. f \in Transit(n) /\ f \in DOMAIN frames
    BY <1>2, <1>3, <1>5 DEF StepOK
  <2>2. Done(f) /\ frames'[f] = frames[f]
    BY <2>1 DEF FoundOK
  <2> QED BY <1>1, <2>2 DEF Done
<1> QED BY <1>4, <1>5 DEF FoundOK

LEMMA DetectsSame ==
    ASSUME SameGraph
    PROVE  Detects' = Detects /\ \A n : Infers(n)' <=> Infers(n)
BY SameFacts DEF Detects, OneDetector, Infers

\* A step that gives no frame faces and warps none.
LEMMA MarkQuiet ==
    ASSUME FlowOK, FlowOK', FramesKept, SameGraph,
           NEW mark \in [ModuleNames -> Nat], NEW next \in [ModuleNames -> Nat],
           MarkOK(mark), StepOK(mark, next),
           \A f \in DOMAIN frames : frames'[f] = frames[f],
           \A f \in Plain' : f \notin Plain => frames'[f].objs = << >>,
           UNCHANGED <<late, src_points, warped>>
    PROVE  MarkOK(next)'
<1>1. WarpedOK(next)'
  BY WarpedKept DEF MarkOK, StepOK
<1>2. Detects' => \A n \in ModuleNames : Infers(n)' => FoundOK(next, n)'
  <2>1. ASSUME Detects, NEW n \in ModuleNames, Infers(n) PROVE FoundOK(next, n)'
    <3>1. FoundOK(mark, n)
      BY <2>1 DEF MarkOK
    <3> QED BY <2>1, <3>1, FoundKept
  <2> QED BY <2>1, DetectsSame
<1>3. OrderOK(next)'
  BY DEF StepOK
<1> QED BY <1>1, <1>2, <1>3 DEF MarkOK

\* A step that only changes the phase, main and what is to be decoded.
LEMMA MarkSame ==
    ASSUME GraphIInv, FlowOK, FlowOK', SameGraph, NEW mark \in [ModuleNames -> Nat],
           MarkOK(mark), UNCHANGED <<frames, flowVars, warpVars>>
    PROVE  MarkOK(mark)'
<1>1. UNCHANGED <<queue, sending, batch_array, requests, late, src_points, warped>>
  BY DEF flowVars, warpVars
<1>2. FramesKept /\ Plain' = Plain /\ Len(frames) <= Len(frames')
  BY SameFrames, HeldTypes
<1>3. OrderOK(mark)'
  BY <1>1, <1>2, OrderSame DEF MarkOK
<1>4. \A k \in ModuleNames : Held(k)' = Held(k)
  BY <1>1, <1>2, HeldSame
<1>5. \A k \in ModuleNames : Queued(k)' = Queued(k) /\ \A m : Sent(k, m)' = Sent(k, m)
  BY <1>1, <1>2 DEF Queued, Sent
<1>6. StepOK(mark, mark)
  BY <1>3, <1>4, <1>5, StepKept
<1> QED BY <1>1, <1>2, <1>6, MarkQuiet

\* A frame is warped.
LEMMA MarkWarp ==
    ASSUME GraphIInv, StartOK, MainOK, FlowOK, FlowOK', ~FanIn,
           NEW mark \in [ModuleNames -> Nat], MarkOK(mark),
           NEW n \in ModuleNames, Warp(n)
    PROVE  MarkOK(mark)'
<1>1. CASE Crash
  BY <1>1, MarkSame DEF Crash, SameGraph, pathVars
<1> DEFINE f == Taken(n)
           own == [k \in DOMAIN Faces(n) |-> <<f, k>>]
           new == [by |-> n, frame |-> f, matrices |-> SubSeq(Matrices(n), 1, Len(Faces(n)))]
<1>2. CASE /\ src_points' = [src_points EXCEPT ![n] = Matrices(n)]
           /\ warped' = warped \cup {new}
           /\ TakeAndPass(n)
           /\ UNCHANGED <<graphVars, main, stream, frames, batch_array, requests, late, endVars>>
  <2>1. /\ Takes(n) /\ ~frames[f].eos /\ SameGraph /\ modules_map[n] = "OpencvWarp"
        /\ UNCHANGED <<frames, batch_array, requests, late>>
    BY <1>2 DEF Warp, graphVars, SameGraph
  <2>2. FramesKept /\ Plain' = Plain /\ Len(frames) <= Len(frames') /\ Plain \subseteq Nat
    BY <2>1, SameFrames, HeldTypes
  <2>3. f \in Plain /\ IsList(Faces(n)) /\ n # "source"
    <3>1. f \in Plain /\ n # "source"
      BY <2>1, TakenPlain, BusyFacts
    <3>2. IsFrame(frames[f])
      BY <3>1 DEF Plain, FlowOK
    <3> QED BY <2>1, <3>1, <3>2 DEF IsFrame, Faces
  <2>4. /\ StepOK(mark, mark) /\ f \in Held(n) /\ Before({f}, Held(n)')
    <3>1. ~Infers(n)
      BY <2>1 DEF Infers
    <3> QED BY <1>2, <2>1, <2>2, <2>3, <3>1, OrderTake DEF MarkOK
  <2>5. Detects' => \A k \in ModuleNames : Infers(k)' => FoundOK(mark, k)'
    <3>1. ASSUME Detects, NEW k \in ModuleNames, Infers(k) PROVE FoundOK(mark, k)'
      <4>1. FoundOK(mark, k)
        BY <3>1 DEF MarkOK
      <4> QED BY <2>1, <2>2, <2>4, <3>1, <4>1, FoundKept
    <3> QED BY <2>1, <3>1, DetectsSame
  <2>6. WarpedOK(mark) /\ f \in Nat /\ f <= mark[n] /\ OrderOK(mark)'
    BY <2>2, <2>3, <2>4 DEF MarkOK, OrderOK, StepOK
  <2>7. ASSUME NEW x \in warped'
        PROVE  /\ x.by \in ModuleNames \ {"source"} /\ x.frame \in Nat
               /\ x.frame <= mark[x.by] /\ \A y \in Held(x.by)' : x.frame < y
    <3>1. CASE x = new
      <4>1. x.by = n /\ x.frame = f
        BY <3>1
      <4>2. \A y \in Held(n)' : f < y
        BY <2>4 DEF Before
      <4> QED BY <2>3, <2>6, <4>1, <4>2
    <3>2. CASE x \in warped
      <4>1. /\ x.by \in ModuleNames \ {"source"} /\ x.frame \in Nat /\ x.frame <= mark[x.by]
            /\ \A y \in Held(x.by) : x.frame < y
        BY <2>6, <3>2 DEF WarpedOK
      <4>2. ASSUME NEW y \in Held(x.by)' PROVE x.frame < y
        <5>1. y \in Held(x.by) \/ mark[x.by] < y
          BY <2>4, <4>1 DEF StepOK
        <5>2. y \in Nat /\ mark[x.by] \in Nat
          BY <4>1, HeldNext DEF HeldNumbers
        <5> QED BY <4>1, <5>1, <5>2
      <4> QED BY <4>1, <4>2
    <3> HIDE DEF new
    <3> QED BY <1>2, <3>1, <3>2
  <2>8. DOMAIN src_points = ModuleNames
    BY <2>6 DEF WarpedOK
  <2>9. ASSUME NEW k \in ModuleNames, src_points'[k] # << >> PROVE \E x \in warped' : x.by = k
    <3>1. CASE k = n
      <4>1. new.by = n
        OBVIOUS
      <4> HIDE DEF new
      <4> QED BY <1>2, <3>1, <4>1
    <3>2. CASE k # n
      <4>1. src_points[k] # << >>
        BY <1>2, <2>8, <2>9, <3>2
      <4> QED BY <1>2, <2>6, <4>1 DEF WarpedOK
    <3> QED BY <3>1, <3>2
  <2>10. \/ \A k \in DOMAIN new.matrices : new.matrices[k] = <<new.frame, k>>
         \/ \E y \in warped : y.by = new.by /\ y.frame < new.frame
    <3>1. CASE src_points[n] = << >>
      <4>1. Len(Faces(n)) \in Nat /\ DOMAIN Faces(n) = 1 .. Len(Faces(n))
        BY <2>3 DEF IsList
      <4> DEFINE S == {<<f, k>> : k \in DOMAIN Faces(n)}
      <4>2. own \in Seq(S) /\ Len(own) = Len(Faces(n)) /\ \A k \in DOMAIN own : own[k] = <<f, k>>
        BY <4>1
      <4>3. Matrices(n) = << >> \o own
        BY <3>1 DEF Matrices
      <4> HIDE DEF own, S
      <4>4. << >> \o own = own
        BY <4>2
      <4>5. SubSeq(own, 1, Len(own)) = own
        BY <4>2
      <4>6. new.matrices = own /\ new.frame = f
        BY <4>2, <4>3, <4>4, <4>5
      <4> HIDE DEF new
      <4> QED BY <4>2, <4>6
    <3>2. CASE src_points[n] # << >>
      <4>1. PICK y \in warped : y.by = n
        BY <2>6, <3>2 DEF WarpedOK
      <4>2. y.frame < f
        BY <2>4, <2>6, <4>1 DEF WarpedOK
      <4> QED BY <4>1, <4>2
    <3> QED BY <3>1, <3>2
  <2> HIDE DEF new
  <2>11. OwnMatrices'
    BY <1>2, <2>6, <2>10 DEF WarpedOK, OwnMatrices
  <2>12. WarpedOK(mark)'
    BY <1>2, <2>7, <2>8, <2>9, <2>11 DEF WarpedOK
  <2> QED BY <2>5, <2>6, <2>12 DEF MarkOK
<1> QED BY <1>1, <1>2 DEF Warp

\* A task that was not waited for adds the faces it has found.
LEMMA MarkFinish ==
    ASSUME GraphIInv, FlowOK, FlowOK', NEW mark \in [ModuleNames -> Nat], MarkOK(mark), Finish
    PROVE  MarkOK(mark)'
<1>1. PICK x \in late : /\ ~x.null
                        /\ frames' = WithFaces(frames, x.frame, x.objs)
                        /\ late' = late \ {x}
  BY DEF Finish
<1>2. /\ SameGraph /\ UNCHANGED <<queue, sending, batch_array, requests, src_points, warped>>
  BY DEF Finish, graphVars, SameGraph, warpVars
<1>3. /\ FramesKept /\ Plain' = Plain /\ DOMAIN frames' = DOMAIN frames
      /\ Len(frames) <= Len(frames')
  <2>1. FramesKept /\ Plain' = Plain /\ DOMAIN frames' = DOMAIN frames
    BY FinishFacts, MoreFacts
  <2>2. frames \in Seq(Range(frames)) /\ frames' \in Seq(Range(frames'))
    BY DEF FlowOK, IsList
  <2>3. /\ Len(frames) \in Nat /\ DOMAIN frames = 1 .. Len(frames)
        /\ Len(frames') \in Nat /\ DOMAIN frames' = 1 .. Len(frames')
    BY <2>2
  <2> QED BY <2>1, <2>3
<1>4. OrderOK(mark)'
  BY <1>2, <1>3, OrderSame DEF MarkOK
<1>5. \A k \in ModuleNames : Held(k)' = Held(k)
  BY <1>2, <1>3, HeldSame
<1>6. \A k \in ModuleNames : Queued(k)' = Queued(k) /\ \A m : Sent(k, m)' = Sent(k, m)
  BY <1>2, <1>3 DEF Queued, Sent
<1>7. StepOK(mark, mark)
  BY <1>2, <1>4, <1>5, <1>6, StepKept
<1>8. WarpedOK(mark)'
  BY <1>2, <1>7, WarpedKept DEF MarkOK, StepOK
<1> DEFINE f == x.frame
           z == frames[f]
           y == [z EXCEPT !.objs = @ \o x.objs]
<1>9. f \in Plain /\ IsList(x.objs) /\ f \in DOMAIN frames /\ ~z.eos /\ IsFrame(z)
  BY DEF FlowOK, HeldOK, Plain
<1>10. frames'[f] = y /\ \A g \in DOMAIN frames : g # f => frames'[g] = frames[g]
  <2>1. frames' = [frames EXCEPT ![f] = y]
    BY <1>1, <1>9 DEF WithFaces
  <2>2. frames = [g \in DOMAIN frames |-> frames[g]]
    <3>1. frames \in Seq(Range(frames))
      BY DEF FlowOK, IsList
    <3> QED BY <3>1
  <2> HIDE DEF y
  <2> QED BY <1>9, <2>1, <2>2
<1> HIDE DEF z
<1>11. y.image = z.image /\ y.objs = z.objs \o x.objs
  BY <1>9, FacesFrame
<1>12. z.objs = << >> => y.objs = x.objs
  <2>1. x.objs \in Seq(Range(x.objs))
    BY <1>9 DEF IsList
  <2>2. << >> \o x.objs = x.objs
    BY <2>1
  <2> QED BY <1>11, <2>2
<1> HIDE DEF y
<1>13. ~NoneLate(f)
  BY DEF NoneLate
<1>14. ASSUME NEW g \in DOMAIN frames, Untouched(g) PROVE Untouched(g)'
  <2>1. g # f /\ frames'[g] = frames[g]
    BY <1>10, <1>13, <1>14 DEF Untouched
  <2> QED BY <1>1, <1>14, <2>1 DEF Untouched, NoneLate
<1>15. ASSUME NEW g \in DOMAIN frames, Done(g) PROVE Done(g)'
  <2>1. CASE g # f
    <3>1. frames'[g] = frames[g]
      BY <1>10, <2>1
    <3>2. \A a : a.frame = g => (a \in late' <=> a \in late)
      BY <1>1, <2>1
    <3> QED BY <1>15, <3>1, <3>2 DEF Done, NoneLate
  <2>2. CASE g = f
    <3>1. /\ z.objs = << >> /\ Answers(x.objs, z.image)
          /\ \A a \in late : a.frame = f => a = x
      BY <1>1, <1>13, <1>15, <2>2 DEF Done, z
    <3>2. NoneLate(f)'
      BY <1>1, <3>1 DEF NoneLate
    <3>3. Answers(frames'[f].objs, frames'[f].image)
      BY <1>10, <1>11, <1>12, <3>1
    <3> QED BY <2>2, <3>2, <3>3 DEF Done
  <2> QED BY <2>1, <2>2
<1>16. Detects' => \A n \in ModuleNames : Infers(n)' => FoundOK(mark, n)'
  <2>1. ASSUME Detects, NEW n \in ModuleNames, Infers(n) PROVE FoundOK(mark, n)'
    <3>1. FoundOK(mark, n)
      BY <2>1 DEF MarkOK
    <3>2. Plain \subseteq DOMAIN frames /\ Transit(n)' \subseteq Transit(n)
      BY <1>7, <2>1 DEF Plain, StepOK
    <3>3. Transit(n) \subseteq DOMAIN frames
      BY <3>2, HeldTypes, TargetsNamed DEF Transit, Queued
    <3>4. \A g \in Plain' : (g > mark[n] \/ g \in Held(n)') => Untouched(g)'
      BY <1>3, <1>5, <1>14, <3>1, <3>2 DEF FoundOK
    <3>5. \A g \in Transit(n)' : Done(g)'
      BY <1>15, <3>1, <3>2, <3>3 DEF FoundOK
    <3> QED BY <3>4, <3>5 DEF FoundOK
  <2> QED BY <1>2, <2>1, DetectsSame
<1> QED BY <1>4, <1>8, <1>16 DEF MarkOK

\* OpencvDetect finds faces: then no module is Inference, or two look for faces.
LEMMA MarkDetect ==
    ASSUME GraphIInv, StartOK, MainOK, FlowOK, FlowOK', ~FanIn,
           NEW mark \in [ModuleNames -> Nat], MarkOK(mark),
           NEW n \in ModuleNames, Detect(n)
    PROVE  MarkOK(mark)'
<1>1. /\ Takes(n) /\ TakeAndPass(n) /\ SameGraph /\ modules_map[n] = "OpencvDetect"
      /\ UNCHANGED <<batch_array, requests, src_points, warped>>
  BY DEF Detect, graphVars, SameGraph, warpVars
<1>2. /\ FramesKept /\ Plain' = Plain /\ DOMAIN frames' = DOMAIN frames
      /\ Len(frames) <= Len(frames')
  <2>1. FramesKept /\ Plain' = Plain /\ DOMAIN frames' = DOMAIN frames
    BY DetectFacts, MoreFacts
  <2>2. frames \in Seq(Range(frames)) /\ frames' \in Seq(Range(frames'))
    BY DEF FlowOK, IsList
  <2>3. /\ Len(frames) \in Nat /\ DOMAIN frames = 1 .. Len(frames)
        /\ Len(frames') \in Nat /\ DOMAIN frames' = 1 .. Len(frames')
    BY <2>2
  <2> QED BY <2>1, <2>3
<1>3. ~Infers(n) /\ n \in Names
  BY <1>1 DEF Infers, Takes
<1>4. StepOK(mark, mark)
  BY <1>1, <1>2, <1>3, OrderTake DEF MarkOK
<1>5. OrderOK(mark)' /\ WarpedOK(mark)'
  BY <1>1, <1>4, WarpedKept DEF MarkOK, StepOK
<1>6. Detects => \A k \in ModuleNames : ~Infers(k)
  BY <1>1, <1>3 DEF Detects, OneDetector, Infers
<1> QED BY <1>1, <1>5, <1>6, DetectsSame DEF MarkOK

\* A response gives each frame of its batch what the network found in it, or
\* leaves it to a task that was not waited for.
LEMMA RespondAnswers ==
    ASSUME GraphIInv, FlowOK, conf.outputs = OutputNum, NEW n \in ModuleNames, Respond(n),
           NEW batch, batch = Head(requests[n]), batch \in Seq(Plain), Len(batch) = Batch,
           \A i, j \in 1 .. Batch : batch[i] = batch[j] => i = j,
           \A f \in Range(batch) : Untouched(f)
    PROVE  /\ \A f \in DOMAIN frames : f \notin Range(batch) =>
                /\ frames'[f] = frames[f]
                /\ \A x : x.frame = f => (x \in late' <=> x \in late)
           /\ \A f \in Range(batch) : Done(f)'
<1> DEFINE b == Head(requests[n])
<1>q. PICK nulls \in NullData(b) :
           \E result :
             /\ \A k \in 1 .. Batch :
                  result[k] \in IF k \in nulls THEN {Nothing} ELSE Outcomes(b[k])
             /\ \E behind \in SUBSET {k \in 1 .. Batch :
                                        \E j \in 1 .. k - 1 : result[j].thrown} :
                  /\ nulls \subseteq behind
                  /\ late' = late \cup
                       {[frame |-> b[k], at |-> k, objs |-> result[k].objs,
                         null |-> k \in nulls] : k \in behind}
                  /\ frames' = AllWithFaces(b, result, behind)
  BY ZenonT(60) DEF Respond
<1>r. PICK result :
             /\ \A k \in 1 .. Batch :
                  result[k] \in IF k \in nulls THEN {Nothing} ELSE Outcomes(b[k])
             /\ \E behind \in SUBSET {k \in 1 .. Batch :
                                        \E j \in 1 .. k - 1 : result[j].thrown} :
                  /\ nulls \subseteq behind
                  /\ late' = late \cup
                       {[frame |-> b[k], at |-> k, objs |-> result[k].objs,
                         null |-> k \in nulls] : k \in behind}
                  /\ frames' = AllWithFaces(b, result, behind)
  BY <1>q
<1>l. PICK behind \in SUBSET {k \in 1 .. Batch : \E j \in 1 .. k - 1 : result[j].thrown} :
             /\ nulls \subseteq behind
             /\ late' = late \cup
                  {[frame |-> b[k], at |-> k, objs |-> result[k].objs,
                    null |-> k \in nulls] : k \in behind}
             /\ frames' = AllWithFaces(b, result, behind)
  BY <1>r
<1>b. b = batch
  OBVIOUS
<1> HIDE DEF b
<1>1. /\ nulls \subseteq behind /\ behind \in SUBSET (1 .. Batch)
      /\ \A k \in 1 .. Batch : IF k \in nulls THEN result[k] = Nothing
                                              ELSE result[k] \in Outcomes(batch[k])
      /\ late' = late \cup
           {[frame |-> batch[k], at |-> k, objs |-> result[k].objs,
             null |-> k \in nulls] : k \in behind}
      /\ frames' = AllWithFaces(batch, result, behind)
  <2>1. \A k \in 1 .. Batch : IF k \in nulls THEN result[k] = Nothing
                                             ELSE result[k] \in Outcomes(batch[k])
    BY <1>r, <1>b
  <2>2. behind \in SUBSET (1 .. Batch)
    BY <1>l
  <2> QED BY <1>l, <1>b, <2>1, <2>2
<1> DEFINE Rest(k) == [frame |-> batch[k], at |-> k, objs |-> result[k].objs,
                       null |-> k \in nulls]
<1>2. /\ Batch \in Nat \ {0} /\ DOMAIN batch = 1 .. Batch
      /\ \A k \in 1 .. Batch : batch[k] \in Plain /\ batch[k] \in Range(batch)
  <2>1. Batch \in Nat \ {0}
    BY FramePathAssumption DEF FramePathAssumption
  <2> QED BY <2>1 DEF Range
<1>3. \A k \in 1 .. Batch : /\ IsList(result[k].objs)
                            /\ k \notin nulls =>
                                 Answers(result[k].objs, frames[batch[k]].image)
  <2> TAKE k \in 1 .. Batch
  <2>0. IsList(Nothing.objs)
    BY DEF Nothing, IsList
  <2> SUFFICES ASSUME k \notin nulls
               PROVE  /\ IsList(result[k].objs)
                      /\ Answers(result[k].objs, frames[batch[k]].image)
    BY <1>1, <2>0
  <2>1. result[k] \in Outcomes(batch[k])
    BY <1>1
  <2>2. PICK y \in Found : /\ y.image = frames[batch[k]].image /\ y.outputs = conf.outputs
                           /\ result[k] \in y.results
    BY <2>1 DEF Outcomes
  <2>3. y.image \in Images /\ y.results = Postprocess(y.image, y.outputs)
    BY <2>2 DEF Found
  <2>4. result[k] \in Postprocess(y.image, OutputNum) /\ IsImage(y.image)
    BY <2>2, <2>3, ImageFacts
  <2>5. Answers(result[k].objs, y.image)
    BY <2>4, PostprocessAnswers
  <2> QED BY <2>1, <2>2, <2>5, OutcomeFacts
<1>4. late' = late \cup {Rest(k) : k \in behind}
  BY <1>1
<1>5. \A k \in behind : /\ Rest(k).frame = batch[k] /\ Rest(k).objs = result[k].objs
                        /\ Rest(k).null <=> k \in nulls
  OBVIOUS
<1> HIDE DEF Rest
<1>6. ASSUME NEW f \in DOMAIN frames, f \notin Range(batch)
      PROVE  /\ frames'[f] = frames[f]
             /\ \A x : x.frame = f => (x \in late' <=> x \in late)
  <2>1. frames'[f] = frames[f]
    BY <1>1, <1>6 DEF AllWithFaces
  <2>2. \A x : x.frame = f => x \notin {Rest(k) : k \in behind}
    BY <1>2, <1>5, <1>6
  <2> QED BY <1>4, <2>1, <2>2
<1>7. ASSUME NEW k \in 1 .. Batch PROVE Done(batch[k])'
  <2> DEFINE f == batch[k]
             v == [j \in 1 .. Batch |->
                     IF batch[j] = f /\ j \notin behind THEN result[j].objs ELSE << >>]
             more == FlattenSeq(v)
             x == frames[f]
             S == Range(result[k].objs)
  <2>1. f \in Range(batch) /\ f \in DOMAIN frames /\ ~x.eos /\ IsFrame(x)
    BY <1>2 DEF Plain, FlowOK
  <2>2. x.objs = << >> /\ NoneLate(f)
    BY <2>1, SMTT(30) DEF Untouched
  <2>3. frames'[f] = [x EXCEPT !.objs = @ \o more]
    BY <1>1, <2>1 DEF AllWithFaces
  <2>4. /\ v = [j \in 1 .. Batch |-> v[j]]
        /\ \A j \in 1 .. Batch : j # k => v[j] = << >>
        /\ v[k] = IF k \in behind THEN << >> ELSE result[k].objs
    OBVIOUS
  <2>5. result[k].objs \in Seq(S)
    BY <1>3 DEF IsList
  <2> HIDE DEF v, S, x
  <2>6. more = v[k] /\ v[k] \in Seq(S)
    <3> DEFINE T == Seq(S)
    <3>1. << >> \in T /\ v[k] \in T
      <4>1. << >> \in T
        BY EmptyType
      <4> HIDE DEF T
      <4>2. result[k].objs \in T
        BY <2>5 DEF T
      <4> QED BY <2>4, <4>1, <4>2
    <3>2. \A j \in 1 .. Batch : v[j] \in T
      BY <2>4, <3>1
    <3> HIDE DEF T
    <3>3. v \in [1 .. Batch -> T]
      BY <2>4, <3>2
    <3>4. v \in Seq(T) /\ Len(v) = Batch
      BY <1>2, <3>3
    <3>5. k \in Nat /\ k \in 1 .. Batch
      BY <1>2
    <3>6. v \in Seq(Seq(S))
      BY <3>4 DEF T
    <3> QED BY <1>2, <2>4, <3>1, <3>4, <3>5, <3>6, FlattenOne DEF T
  <2> HIDE DEF more
  <2>7. frames'[f].image = x.image /\ frames'[f].objs = v[k]
    <3>1. IsList(more)
      BY <2>6, ListFacts
    <3>2. LET y == [x EXCEPT !.objs = @ \o more] IN
          y.image = x.image /\ y.objs = x.objs \o more
      BY <2>1, <3>1, FacesFrame
    <3>3. << >> \o more = more
      BY <2>6
    <3> QED BY <2>2, <2>3, <2>6, <3>2, <3>3
  <2>8. k \notin nulls => Answers(result[k].objs, x.image)
    BY <1>3 DEF x
  <2>9. \A y \in late' : y.frame = f => k \in behind /\ y = Rest(k)
    <3> SUFFICES ASSUME NEW y \in late', y.frame = f PROVE k \in behind /\ y = Rest(k)
      OBVIOUS
    <3>1. y \notin late
      BY <2>2 DEF NoneLate
    <3>2. PICK j \in behind : y = Rest(j)
      BY <1>4, <3>1
    <3>3. batch[j] = batch[k] /\ j \in 1 .. Batch
      BY <1>5, <3>2
    <3> QED BY <3>2, <3>3
  <2>10. CASE k \notin behind
    <3>1. NoneLate(f)'
      BY <2>9, <2>10 DEF NoneLate
    <3>2. Answers(frames'[f].objs, frames'[f].image)
      BY <1>1, <2>4, <2>7, <2>8, <2>10
    <3> QED BY <3>1, <3>2 DEF Done
  <2>11. CASE k \in behind
    <3>1. frames'[f].objs = << >>
      BY <2>4, <2>7, <2>11
    <3>2. Rest(k) \in late' /\ Rest(k).frame = f /\ Rest(k).objs = result[k].objs
      BY <1>4, <1>5, <2>11
    <3>3. Rest(k).null \/ Answers(Rest(k).objs, frames'[f].image)
      BY <1>5, <2>7, <2>8, <2>11, <3>2
    <3> QED BY <2>9, <3>1, <3>2, <3>3 DEF Done
  <2> QED BY <2>10, <2>11
<1>8. \A f \in Range(batch) : Done(f)'
  <2> SUFFICES ASSUME NEW f \in Range(batch) PROVE Done(f)'
    OBVIOUS
  <2>1. PICK k \in 1 .. Batch : f = batch[k]
    BY <1>2 DEF Range
  <2> QED BY <1>7, <2>1 DEF Done, NoneLate
<1> QED BY <1>6, <1>8

LEMMA MarkRespond ==
    ASSUME GraphIInv, StartOK, MainOK, FlowOK, FlowOK', ~FanIn,
           NEW mark \in [ModuleNames -> Nat], MarkOK(mark),
           NEW n \in ModuleNames, Respond(n)
    PROVE  MarkOK(mark)'
<1>1. PICK batch : batch = Head(requests[n])
  OBVIOUS
<1> DEFINE Out == Range(batch)
<1>2. /\ SameGraph /\ Plain' = Plain /\ FramesKept /\ DOMAIN frames' = DOMAIN frames
      /\ n # "source" /\ Infers(n)
      /\ batch \in Seq(Plain) /\ Len(batch) = Batch
      /\ \A i, j \in 1 .. Batch : batch[i] = batch[j] => i = j
      /\ \A k \in ModuleNames \ {n} : SameAt(k)
      /\ Held(n)' \subseteq Held(n)
      /\ Out \subseteq Held(n) /\ Before(Out, Held(n)')
      /\ \A m : Sent(n, m)' \subseteq Out
  BY <1>1, RespondOrder DEF MarkOK, OrderOK
<1>3. OrderOK(mark)'
  BY OrderRespond DEF MarkOK
<1>4. UNCHANGED <<queue, src_points, warped>>
  BY DEF Respond, warpVars
<1>5. \A k \in ModuleNames : Held(k)' \subseteq Held(k)
  BY <1>2, LocalSame
<1>6. WarpedOK(mark)'
  BY <1>4, <1>5, WarpedKept DEF MarkOK
<1>7. ASSUME Detects, NEW k \in ModuleNames, Infers(k) PROVE FoundOK(mark, k)'
  <2>1. k = n
    <3>1. Infers(n) /\ Infers(k)
      BY <1>2, <1>7
    <3> QED BY <1>7, <3>1 DEF Detects, OneDetector, Infers
  <2>2. FoundOK(mark, n)
    BY <1>2, <1>7 DEF MarkOK
  <2>3. /\ Plain \subseteq DOMAIN frames /\ Held(n) \subseteq Plain /\ Plain \subseteq Nat
        /\ \A m : Queued(m) \subseteq Plain
    BY HeldTypes DEF Queued
  <2>4. \A f \in Out : Untouched(f)
    BY <1>2, <2>2, <2>3 DEF FoundOK
  <2> HIDE DEF Out
  <2>5. /\ \A f \in DOMAIN frames : f \notin Out =>
             /\ frames'[f] = frames[f]
             /\ \A x : x.frame = f => (x \in late' <=> x \in late)
        /\ \A f \in Out : Done(f)'
    BY <1>1, <1>2, <1>7, <2>4, RespondAnswers, SMTT(30) DEF Detects, Out
  <2>6. ASSUME NEW f \in Plain', f > mark[n] \/ f \in Held(n)' PROVE Untouched(f)'
    <3>1. f \in Plain /\ f \in DOMAIN frames /\ f \in Nat
      BY <1>2, <2>3
    <3>2. f \notin Out
      <4>1. CASE f \in Held(n)'
        <5>1. f \in Out => f < f
          BY <1>2, <4>1 DEF Before
        <5> QED BY <3>1, <5>1
      <4>2. CASE f > mark[n]
        <5>1. f \in Out => f <= mark[n]
          BY <1>2 DEF MarkOK, OrderOK
        <5>2. mark[n] \in Nat
          OBVIOUS
        <5> QED BY <3>1, <4>2, <5>1, <5>2
      <4> QED BY <2>6, <4>1, <4>2
    <3>3. Untouched(f)
      BY <1>2, <2>2, <2>6, <3>1 DEF FoundOK
    <3> QED BY <2>5, <3>1, <3>2, <3>3 DEF Untouched, NoneLate
  <2>7. ASSUME NEW f \in Transit(n)' PROVE Done(f)'
    <3>1. CASE f \in Out
      BY <2>5, <3>1
    <3>2. CASE f \notin Out
      <4>1. PICK m : m \in Targets(n)' /\ (f \in Sent(n, m)' \/ f \in Queued(m)')
        BY <2>7 DEF Transit
      <4>2. m \in Targets(n) /\ f \in Queued(m)' /\ Queued(m)' = Queued(m)
        BY <1>2, <1>4, <3>2, <4>1, SameFacts DEF Queued
      <4>3. f \in Transit(n) /\ f \in DOMAIN frames
        BY <2>3, <4>2 DEF Transit
      <4>4. Done(f)
        BY <2>2, <4>3 DEF FoundOK
      <4>5. frames'[f] = frames[f] /\ \A x : x.frame = f => (x \in late' <=> x \in late)
        BY <2>5, <3>2, <4>3
      <4> QED BY <4>4, <4>5 DEF Done, NoneLate
    <3> QED BY <3>1, <3>2
  <2>8. FoundOK(mark, n)'
    BY <2>6, <2>7 DEF FoundOK
  <2> QED BY <2>1, <2>8
<1>8. Detects' => \A k \in ModuleNames : Infers(k)' => FoundOK(mark, k)'
  BY <1>2, <1>7, DetectsSame
<1> QED BY <1>3, <1>6, <1>8 DEF MarkOK

\* Each module's frames stay in order, and their faces what they should be.
LEMMA MarkFlow ==
    ASSUME GraphIInv, StartOK, MainOK, FlowOK, FlowOK', ~FanIn,
           NEW mark \in [ModuleNames -> Nat], MarkOK(mark), Flow
    PROVE  \E next \in [ModuleNames -> Nat] : MarkOK(next)'
<1>1. CASE MarkOK(mark)'
  BY <1>1
<1>2. CASE Crash \/ MainCrash \/ MainRun \/ SourceCrash \/ MainExit
  <2>1. SameGraph /\ UNCHANGED <<frames, flowVars, warpVars>>
    BY <1>2 DEF MainCrash, MainRun, SourceCrash, MainExit, Crash, pathVars, graphVars,
                SameGraph
  <2> QED BY <1>1, <2>1, MarkSame
<1>3. CASE SourceFrame \/ SourceEos
  <2>1. /\ StepOK(mark, mark) /\ FramesKept /\ SameGraph
        /\ DOMAIN frames' = DOMAIN frames \cup {Len(frames) + 1}
        /\ \A f \in DOMAIN frames : frames'[f] = frames[f]
    BY <1>3, OrderSource DEF MarkOK
  <2>2. UNCHANGED <<late, src_points, warped>>
    BY <1>3 DEF SourceFrame, SourceEos, warpVars
  <2>3. ASSUME NEW f \in Plain', f \notin Plain PROVE frames'[f].objs = << >>
    <3>1. f = Len(frames) + 1 /\ ~frames'[f].eos
      BY <2>1, <2>3 DEF Plain, FramesKept
    <3>2. frames \in Seq(Range(frames))
      BY DEF FlowOK, IsList
    <3>3. CASE SourceFrame
      <4> DEFINE x == [eos |-> FALSE, image |-> Head(stream), objs |-> << >>]
      <4>1. frames' = Append(frames, x) /\ x.objs = << >>
        BY <3>3 DEF SourceFrame
      <4> HIDE DEF x
      <4>2. frames \in Seq(Range(frames) \cup {x})
        BY <3>2, SeqWider
      <4>3. frames'[Len(frames) + 1] = x
        BY <4>1, <4>2
      <4> QED BY <3>1, <4>1, <4>3
    <3>4. CASE SourceEos
      <4> DEFINE x == [eos |-> TRUE]
      <4>1. frames' = Append(frames, x) /\ x.eos
        BY <3>4 DEF SourceEos
      <4> HIDE DEF x
      <4>2. frames \in Seq(Range(frames) \cup {x})
        BY <3>2, SeqWider
      <4>3. frames'[Len(frames) + 1] = x
        BY <4>1, <4>2
      <4> QED BY <3>1, <4>1, <4>3
    <3> QED BY <1>3, <3>3, <3>4
  <2> QED BY <1>1, <2>1, <2>2, <2>3, MarkQuiet
<1>4. ASSUME NEW next \in [ModuleNames -> Nat], StepOK(mark, next), SameGraph,
             UNCHANGED <<frames, late, src_points, warped>>
      PROVE  MarkOK(next)'
  <2>1. FramesKept /\ Plain' = Plain
    BY <1>4, SameFrames
  <2> QED BY <1>4, <2>1, MarkQuiet
<1>5. ASSUME NEW n \in ModuleNames, ProcessEos(n) \/ PassOn(n) PROVE MarkOK(mark)'
  <2>1. /\ Takes(n) /\ TakeAndPass(n) /\ SameGraph
        /\ UNCHANGED <<frames, batch_array, requests, late, src_points, warped>>
    BY <1>5 DEF ProcessEos, PassOn, RightMove, SameGraph, graphVars, warpVars
  <2>2. Infers(n) => Taken(n) \notin Plain
    BY <1>5 DEF ProcessEos, PassOn, Infers, Plain
  <2>3. FramesKept /\ Plain' = Plain /\ Len(frames) <= Len(frames')
    BY <2>1, SameFrames, HeldTypes
  <2>4. StepOK(mark, mark)
    BY <2>1, <2>2, <2>3, OrderTake DEF MarkOK
  <2> QED BY <1>4, <2>1, <2>4
<1>6. ASSUME NEW n \in ModuleNames, Show(n) PROVE MarkOK(mark)'
  <2>1. CASE Crash
    BY <2>1, MarkSame DEF Crash, SameGraph, pathVars
  <2>2. CASE TakeAndPass(n) /\ UNCHANGED <<graphVars, main, stream, frames, batch_array,
                                           requests, late, endVars, warpVars>>
    <3>1. /\ Takes(n) /\ SameGraph /\ ~Infers(n)
          /\ UNCHANGED <<frames, batch_array, requests, late, src_points, warped>>
      BY <1>6, <2>2 DEF Show, SameGraph, graphVars, warpVars, Infers
    <3>2. FramesKept /\ Plain' = Plain /\ Len(frames) <= Len(frames')
      BY <3>1, SameFrames, HeldTypes
    <3>3. StepOK(mark, mark)
      BY <2>2, <3>1, <3>2, OrderTake DEF MarkOK
    <3> QED BY <1>4, <3>1, <3>3
  <2> QED BY <1>6, <2>1, <2>2 DEF Show
<1>7. ASSUME NEW n \in ModuleNames, Collect(n) PROVE MarkOK(mark)'
  <2>1. SameGraph /\ UNCHANGED <<frames, late, src_points, warped>>
    BY <1>7 DEF Collect, SameGraph, graphVars, warpVars
  <2>2. StepOK(mark, mark)
    BY <1>7, OrderCollect DEF MarkOK
  <2> QED BY <1>4, <2>1, <2>2
<1>8. ASSUME NEW n \in ModuleNames, Process(n) PROVE MarkOK(mark)'
  BY <1>5, <1>6, <1>7, <1>8, MarkDetect, MarkWarp DEF Process
<1>9. ASSUME NEW t \in Threads, Transmit(t)
      PROVE  \E next \in [ModuleNames -> Nat] : MarkOK(next)'
  <2>1. SameGraph /\ UNCHANGED <<frames, late, src_points, warped>>
    BY <1>9 DEF Transmit, SameGraph, graphVars, warpVars
  <2>2. PICK next \in [ModuleNames -> Nat] : StepOK(mark, next)
    BY <1>9, OrderTransmit DEF MarkOK
  <2> QED BY <1>4, <2>1, <2>2
<1>10. CASE ObserverStop
  <2>1. SameGraph /\ UNCHANGED <<frames, late, src_points, warped>>
    BY <1>10 DEF ObserverStop, SameGraph, warpVars
  <2>2. StepOK(mark, mark)
    BY <1>10, OrderStop DEF MarkOK
  <2> QED BY <1>1, <1>4, <2>1, <2>2
<1>11. CASE Finish
  BY <1>1, <1>11, MarkFinish
<1>12. ASSUME NEW n \in ModuleNames, Respond(n) PROVE MarkOK(mark)'
  BY <1>12, MarkRespond
<1> QED BY <1>1, <1>2, <1>3, <1>8, <1>9, <1>10, <1>11, <1>12, MissingCrash
      DEF Decode

-----------------------------------------------------------------------------
(* Before main has called Run, and the invariant of the order.             *)

NoneWarped == warped = {} /\ src_points = [n \in ModuleNames |-> << >>]
AtStart == main = "start" /\ GraphIInv /\ MainOK /\ FlowOK /\ NoneWarped

\* Before main has called Run nothing has moved: all marks are 0.
LEMMA MarkStart == AtStart => Marked
<1> SUFFICES ASSUME AtStart PROVE Marked
  OBVIOUS
<1>1. /\ GraphIInv /\ MainOK /\ FlowOK /\ warped = {}
      /\ src_points = [n \in ModuleNames |-> << >>]
      /\ frames = << >> /\ late = {}
      /\ \A n \in ModuleNames : /\ queue[n] = << >> /\ batch_array[n] = << >>
                                /\ requests[n] = << >>
      /\ \A t \in Threads : sending[t] = << >>
  BY DEF AtStart, NoneWarped, MainOK
<1>2. PICK mark \in [ModuleNames -> Nat] : mark = [n \in ModuleNames |-> 0]
  OBVIOUS
<1>3. Plain = {} /\ Len(frames) = 0
  BY <1>1 DEF Plain
<1>4. \A n \in ModuleNames : /\ Queued(n) = {} /\ Collected(n) = {} /\ Asked(n) = {}
                             /\ Held(n) = {} /\ Due(n) = {}
  <2>1. Range(<< >>) = {}
    BY DEF Range
  <2> QED BY <1>1, <2>1 DEF Queued, Collected, Asked, Held, Due
<1>5. ASSUME NEW n \in ModuleNames
      PROVE  /\ sending[Loop(n)] = << >> /\ sending[Resp(n)] = << >>
             /\ \A m : Sent(n, m) = {}
  <2>1. sending[Loop(n)] = << >> /\ sending[Resp(n)] = << >>
    BY <1>1, ThreadFacts
  <2> QED BY <2>1, SentNone DEF Sent
<1>6. ASSUME NEW n \in ModuleNames PROVE LocalOK(n)
  <2>1. KindOK(n)
    BY <1>1, <1>5 DEF KindOK
  <2>2. HeldRising(n)
    BY <1>1, <1>4, RisingNone DEF HeldRising, RequestsRising, Before
  <2> QED BY <1>5, <2>1, <2>2, SentNone DEF LocalOK
<1>7. \A k : Targets(k) \subseteq ModuleNames
  BY <1>1, TargetsNamed
<1>8. OrderOK(mark)
  <2>1. ASSUME NEW n \in ModuleNames, NEW m \in Targets(n) PROVE LinkOK(mark, n, m)
    <3>1. mark[m] = 0 /\ MarkOf(mark, n) = 0
      BY <1>2, <1>3, <1>7 DEF MarkOf
    <3> QED BY <1>4, <1>5, <3>1 DEF LinkOK, Before
  <2> QED BY <1>4, <1>6, <2>1 DEF OrderOK
<1>9. WarpedOK(mark)
  BY <1>1 DEF WarpedOK, OwnMatrices
<1>10. \A n \in ModuleNames : FoundOK(mark, n)
  <2>1. \A n \in ModuleNames : Transit(n) = {}
    BY <1>4, <1>5, <1>7 DEF Transit
  <2> QED BY <1>3, <2>1 DEF FoundOK
<1> QED BY <1>2, <1>8, <1>9, <1>10 DEF Marked, MarkOK

LEMMA MarkStartNext == AtStart' => Marked'
BY MarkStart, PTL

LEMMA MarksInit == PathInit => MarksOK
<1> SUFFICES ASSUME PathInit PROVE MarksOK
  OBVIOUS
<1>1. PathIInv /\ main = "start" /\ NoneWarped
  BY PathInvInit DEF PathInit, NoneWarped
<1>2. Marked
  BY <1>1, MarkStart DEF AtStart, PathIInv
<1> QED BY <1>1, <1>2 DEF MarksOK, NoneWarped

LEMMA MarksNext ==
    ASSUME PathIInv, PathIInv', MarksOK, [PathNext]_programVars
    PROVE  MarksOK'
<1>1. /\ GraphIInv /\ StartOK /\ MainOK /\ FlowOK
      /\ GraphIInv' /\ MainOK' /\ FlowOK'
  BY DEF PathIInv
<1>2. CASE (Build \/ Start) /\ UNCHANGED pathVars
  <2>1. main = "start" /\ UNCHANGED <<main, src_points, warped>>
    <3>1. phase \in Early \cup {"open"}
      BY <1>2 DEF Build, Start, BuildPipelineByJSONFile, BuildAdd, BuildAddNull,
                  BuildAdded, BuildLink, BuildLinked, Open, Launch, Early
    <3>2. UNCHANGED <<main, src_points, warped>>
      BY <1>2 DEF pathVars, warpVars
    <3> QED BY <1>1, <3>1, <3>2 DEF MainOK, Early, Late
  <2>2. NoneWarped /\ NoneWarped' /\ main' = "start"
    BY <2>1 DEF MarksOK, NoneWarped
  <2>3. Marked'
    BY <1>1, <2>2, MarkStartNext DEF AtStart
  <2> QED BY <2>2, <2>3 DEF MarksOK, NoneWarped
<1>3. CASE Flow
  <2>1. SameGraph /\ FanIn' = FanIn
    BY <1>1, <1>3, FlowKeeps, SameFacts
  <2>2. main' = "start" => NoneWarped'
    <3>1. CASE main = "start"
      <4>1. MainCrash \/ MainRun
        BY <1>1, <1>3, <3>1, QuietFlow
      <4>2. UNCHANGED <<src_points, warped>>
        BY <4>1 DEF MainCrash, MainRun, Crash, pathVars, warpVars
      <4> QED BY <3>1, <4>2 DEF MarksOK, NoneWarped
    <3>2. CASE main # "start"
      <4>1. main' = main \/ main' \in {"run", "eos", "exit"}
        BY <1>3, MissingCrash, ZenonT(60) DEF Decode, MainCrash, MainRun, SourceFrame, SourceCrash, SourceEos,
                    MainExit, Process, ProcessEos, Collect, Detect, PassOn, Show, Warp,
                    Respond, Finish, Transmit, ObserverStop, Crash, pathVars
      <4> QED BY <3>2, <4>1, SMTT(30)
    <3> QED BY <3>1, <3>2
  <2>3. ~FanIn => Marked'
    <3> SUFFICES ASSUME ~FanIn PROVE Marked'
      OBVIOUS
    <3>1. PICK mark \in [ModuleNames -> Nat] : MarkOK(mark)
      BY DEF MarksOK, Marked
    <3>2. \E next \in [ModuleNames -> Nat] : MarkOK(next)'
      BY <1>1, <1>3, <3>1, MarkFlow
    <3> QED BY <3>2 DEF Marked
  <2> QED BY <2>1, <2>2, <2>3 DEF MarksOK, NoneWarped
<1>4. CASE UNCHANGED programVars
  <2>1. UNCHANGED <<graphVars, main, frames, flowVars, warpVars>> /\ SameGraph
    BY <1>4 DEF programVars, pathVars, graphVars, SameGraph
  <2>2. ~FanIn => Marked'
    <3> SUFFICES ASSUME ~FanIn PROVE Marked'
      OBVIOUS
    <3>1. PICK mark \in [ModuleNames -> Nat] : MarkOK(mark)
      BY DEF MarksOK, Marked
    <3>2. MarkOK(mark)'
      BY <1>1, <2>1, <3>1, MarkSame
    <3> QED BY <3>2 DEF Marked
  <2>3. main' = "start" => NoneWarped'
    BY <2>1 DEF MarksOK, NoneWarped, warpVars
  <2>4. FanIn' = FanIn
    BY <2>1, SameFacts
  <2> QED BY <2>2, <2>3, <2>4 DEF MarksOK, NoneWarped
<1> QED BY <1>2, <1>3, <1>4 DEF PathNext

\* For every configuration and input there is a mark for each module such that
\* the frames that came to it are at most that and those still to come are more:
\* unless a module is linked into twice, TaskLoop, Process, Response and
\* TransmitData keep the frames in the order of the source.
THEOREM OrderInvariance == PathSpec => [](PathIInv /\ MarksOK)
<1>1. PathInit => MarksOK
  BY MarksInit
<1>2. PathIInv /\ PathIInv' /\ MarksOK /\ [PathNext]_programVars => MarksOK'
  BY MarksNext
<1> QED BY <1>1, <1>2, PathInvariance, PTL DEF PathSpec

\* What is under way from Inference is between it and a successor.
LEMMA AnsweredFacts ==
    ASSUME PathIInv, NEW f \in Answered, ~frames[f].eos
    PROVE  \E n \in ModuleNames : Infers(n) /\ f \in Transit(n)
<1> DEFINE PushedBy(n) == {p.frame : p \in Range(sending[<<n, "response">>])}
           QueuedBy(n) == UNION {Range(queue[m]) : m \in Range(output_connectors[n])}
<1>1. MapsOK /\ FlowOK
  BY DEF PathIInv, GraphIInv
<1>2. PICK n \in Names : /\ modules_map[n] = "Inference"
         /\ \/ \E p \in Range(sending[<<n, "response">>]) : f = p.frame
            \/ \E m \in Range(output_connectors[n]) : f \in Range(queue[m])
  <2>1. Answered = UNION {PushedBy(n) \cup QueuedBy(n) :
                          n \in {m \in Names : modules_map[m] = "Inference"}}
    BY DEF Answered
  <2> HIDE DEF PushedBy, QueuedBy
  <2>2. PICK n \in {m \in Names : modules_map[m] = "Inference"} :
                  f \in PushedBy(n) \cup QueuedBy(n)
    BY <2>1, Zenon
  <2> QED BY <2>2 DEF PushedBy, QueuedBy
<1>3. n \in Created /\ n \in ModuleNames /\ Infers(n)
  BY <1>1, <1>2, FramePathAssumption DEF FramePathAssumption, MapsOK, Infers
<1>4. CASE \E p \in Range(sending[<<n, "response">>]) : f = p.frame
  <2>1. sending[Resp(n)] \in Seq([frame : Plain, to : Targets(n)])
    BY <1>1, <1>3 DEF FlowOK, SendingOK, Resp
  <2>2. PICK i \in DOMAIN sending[Resp(n)] : f = sending[Resp(n)][i].frame
    BY <1>4 DEF Range, Resp
  <2>3. sending[Resp(n)][i].frame \in Plain /\ sending[Resp(n)][i].to \in Targets(n)
    BY <2>1, <2>2, PushFacts
  <2>4. f \in Sent(n, sending[Resp(n)][i].to)
    BY <2>2, <2>3 DEF Sent, SentTo
  <2> QED BY <1>3, <2>3, <2>4 DEF Transit
<1>5. CASE \E m \in Range(output_connectors[n]) : f \in Range(queue[m])
  <2>1. PICK m \in Targets(n) : f \in Range(queue[m])
    BY <1>3, <1>5 DEF Targets
  <2>2. m \in ModuleNames
    BY TargetsNamed DEF PathIInv
  <2>3. f \in DOMAIN frames
    BY <1>1, <2>1, <2>2, HeldTypes
  <2>4. f \in Queued(m)
    BY <2>1, <2>3 DEF Queued, Plain
  <2> QED BY <1>3, <2>1, <2>4 DEF Transit
<1> QED BY <1>2, <1>4, <1>5

LEMMA FacesFacts == PathIInv /\ MarksOK /\ FacesInImage => FacesSound
<1> SUFFICES ASSUME PathIInv, MarksOK, FacesInImage PROVE FacesSound
  OBVIOUS
<1>1. ~FanIn => OwnMatrices
  BY DEF MarksOK, Marked, MarkOK, WarpedOK
<1>2. ASSUME OneDetector, conf.outputs = OutputNum, NEW f \in Answered, ~frames[f].eos,
             \A x \in late : x.frame # f
      PROVE  Answers(frames[f].objs, frames[f].image)
  <2>1. PICK n \in ModuleNames : Infers(n) /\ f \in Transit(n)
    BY <1>2, AnsweredFacts
  <2>2. PICK mark \in [ModuleNames -> Nat] : MarkOK(mark)
    BY <1>2 DEF OneDetector, MarksOK, Marked
  <2>3. Done(f)
    BY <1>2, <2>1, <2>2 DEF MarkOK, Detects, FoundOK
  <2> QED BY <1>2, <2>3 DEF Done
<1> QED BY <1>1, <1>2 DEF FacesSound

\* For every configuration, input and image: each face lies in its image; where
\* no other module looks for faces, what Inference gives on is what FilterAnchor,
\* nms_cpu and Postprocess promise of that frame's own image, whatever a batch
\* and Response mix; and OpencvWarp uses a frame's own matrices for the first
\* frame with faces.
THEOREM FacesSoundCorrect == PathSpec => []FacesSound
BY OrderInvariance, FacesInImageCorrect, FacesFacts, PTL

=============================================================================
