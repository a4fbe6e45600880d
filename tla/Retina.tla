------------------------------- MODULE Retina -------------------------------
(***************************************************************************)
(* The post-processing of the face detector: the anchors of its three      *)
(* feature maps, the regression of boxes and landmarks, nms_cpu, and       *)
(* Postprocess, which cuts the faces out of the image                      *)
(* (modules/inference/postproc).                                           *)
(*                                                                         *)
(* Floats are integers in units of 1/Sub pixel, rounded down.  A rectangle *)
(* is <<x1, y1, x2, y2>>, as in CRect2f and in Anchor's finalbox.  Scores  *)
(* are percentages.  The network's offsets are in units of 1/Sub of the    *)
(* anchor's size, and of ln 2 where the code takes an exponential.         *)
(*                                                                         *)
(* A feature map is the set of its hits: the cells whose values matter,    *)
(* with the score, delta and landmarks found there.  All others have a     *)
(* score that the threshold refuses.                                       *)
(***************************************************************************)
EXTENDS Integers, Sequences, FiniteSets, SequencesExt

CONSTANTS InputW, InputH,   \* the network's input
          LimitW, LimitH    \* 1280 and 720: the largest frame Postprocess expects

ASSUME RetinaAssumption ==
    /\ InputW \in Nat \ {0} /\ InputH \in Nat \ {0}
    /\ LimitW \in Nat /\ LimitH \in Nat

Sub == 4
Threshold == 80       \* of a score, percent
NmsThreshold == 40    \* of an overlap, percent
OutputNum == 9        \* outputs of the network: three per feature map
LandmarkNum == 5      \* landmarks of an anchor

FeatStride == <<32, 16, 8>>
AnchorCfg == [l \in 1 .. 3 |->
                [scales |-> <<<<32, 16>>, <<8, 4>>, <<2, 1>>>>[l],
                 ratios |-> <<1>>, base |-> 16]]

-----------------------------------------------------------------------------
Width(r) == r[3] - r[1] + Sub
Height(r) == r[4] - r[2] + Sub
CentreX(r) == r[1] + (Width(r) - Sub) \div 2
CentreY(r) == r[2] + (Height(r) - Sub) \div 2

\* The rectangle of size w x h round the centre (x, y).
Around(x, y, w, h) == <<x - (w - Sub) \div 2, y - (h - Sub) \div 2,
                        x + (w - Sub) \div 2, y + (h - Sub) \div 2>>

Sqrt(n) == CHOOSE s \in 0 .. n : s * s <= n /\ n < (s + 1) * (s + 1)

RatioEnum(anchor, ratios) ==
    [s \in DOMAIN ratios |->
        LET ws == Sqrt((Width(anchor) * Height(anchor)) \div ratios[s])
        IN  Around(CentreX(anchor), CentreY(anchor), ws, ws * ratios[s])]

ScaleEnum(ratioAnchors, scales) ==
    LET Scaled(r) == [s \in DOMAIN scales |->
            Around(CentreX(r), CentreY(r), Width(r) * scales[s],
                   Height(r) * scales[s])]
    IN  FlattenSeq([a \in DOMAIN ratioAnchors |-> Scaled(ratioAnchors[a])])

\* AnchorGenerator::Init of each feature map.
PresetAnchors ==
    [l \in 1 .. 3 |->
        LET cfg == AnchorCfg[l]
            base == <<0, 0, (cfg.base - 1) * Sub, (cfg.base - 1) * Sub>>
        IN  ScaleEnum(RatioEnum(base, cfg.ratios), cfg.scales)]

-----------------------------------------------------------------------------
\* What the network finds at a cell: numbers for one of the anchors there.
IsHit(hit) ==
    /\ hit.level \in DOMAIN FeatStride /\ hit.a \in DOMAIN PresetAnchors[hit.level]
    /\ hit.i \in Nat /\ hit.j \in Nat /\ hit.score \in 0 .. 100
    /\ hit.delta \in Int \X Int \X Int \X Int
    /\ \A p \in 1 .. LandmarkNum : hit.pts[p] \in Int \X Int

\* From the network's input to a frame of another size.
ToFrame(v, size, input) == (v * size) \div input

Exp(d) == IF d >= 0 THEN <<2 ^ d, 1>> ELSE <<1, 2 ^ (-d)>>
Times(v, fraction) == (v * fraction[1]) \div fraction[2]

BboxPred(anchor, delta, w, h) ==
    LET box == Around(delta[1] * (Width(anchor) \div Sub) + CentreX(anchor),
                      delta[2] * (Height(anchor) \div Sub) + CentreY(anchor),
                      Times(Width(anchor), Exp(delta[3])),
                      Times(Height(anchor), Exp(delta[4])))
    IN  <<ToFrame(box[1], w, InputW), ToFrame(box[2], h, InputH),
          ToFrame(box[3], w, InputW), ToFrame(box[4], h, InputH)>>

LandmarkPred(anchor, deltas, w, h) ==
    [p \in 1 .. LandmarkNum |->
        <<ToFrame(deltas[p][1] * (Width(anchor) \div Sub) + CentreX(anchor),
                  w, InputW),
          ToFrame(deltas[p][2] * (Height(anchor) \div Sub) + CentreY(anchor),
                  h, InputH)>>]

\* The anchor at a cell of a feature map.
AnchorAt(hit) ==
    LET preset == PresetAnchors[hit.level][hit.a]
        x == hit.i * FeatStride[hit.level] * Sub
        y == hit.j * FeatStride[hit.level] * Sub
    IN  <<x + preset[1], y + preset[2], x + preset[3], y + preset[4]>>

\* FilterAnchor without landmarks, and FilterAnchor.  Both walk over all cells
\* and anchors; a hit stays part of its proposal so that no two are equal.
FilterBoxes(hits, level, w, h) ==
    {[hit |-> hit, score |-> hit.score,
      box |-> BboxPred(AnchorAt(hit), hit.delta, w, h)] :
        hit \in {x \in hits : x.level = level /\ x.score > Threshold}}

FilterAnchor(hits, level, w, h) ==
    {[score |-> b.score, box |-> b.box, hit |-> b.hit,
      pts |-> LandmarkPred(AnchorAt(b.hit), b.hit.pts, w, h)] :
        b \in FilterBoxes(hits, level, w, h)}

-----------------------------------------------------------------------------
Larger(a, b) == IF a > b THEN a ELSE b
Smaller(a, b) == IF a < b THEN a ELSE b

\* The intersection of two boxes, and whether its share of their union is more
\* than the threshold.  Nothing divided by no union is at most it, and no share
\* of a negative one is more.
InterArea(a, b) ==
    Larger(Smaller(a[3], b[3]) - Larger(a[1], b[1]) + Sub, 0)
    * Larger(Smaller(a[4], b[4]) - Larger(a[2], b[2]) + Sub, 0)

Overlapping(a, b) ==
    LET inter == InterArea(a, b)
        union == Width(a) * Height(a) + Width(b) * Height(b) - inter
    IN  union = 0 \/ (union > 0 /\ 100 * inter > NmsThreshold * union)

\* Mutant of Dropped: only the box before is compared.
DroppedNext(sorted, keep, k) ==
    \E j \in 1 .. k - 1 :
        j = k - 1 /\ keep[j] /\ Overlapping(sorted[j].box, sorted[k].box)

\* A turn of the loop of nms_cpu keeps the first box there is and drops those
\* that overlap it: a box is dropped in the turn of a box before it, if ever.
Dropped(sorted, keep, k) ==
    \E j \in 1 .. k - 1 : keep[j] /\ Overlapping(sorted[j].box, sorted[k].box)

Nms(sorted) ==
    LET keep[k \in DOMAIN sorted] == ~Dropped(sorted, keep, k)
    IN  FlattenSeq([k \in DOMAIN sorted |->
                      IF keep[k] THEN <<sorted[k]>> ELSE << >>])

\* What std::sort may return: equal scores come in any order.
Sorted(proposals) ==
    {s \in SetToSeqs(proposals) :
        \A k \in 1 .. Len(s) - 1 : s[k].score >= s[k + 1].score}

-----------------------------------------------------------------------------
\* static_cast<int>
Trunc(v) == IF v >= 0 THEN v \div Sub ELSE -((-v) \div Sub)

\* CLIP(v / size), kept multiplied by size.
Clip(v, size) == Larger(0, Smaller(v, size * Sub))

\* A face turned by less than 45 degrees: the nose is between the eyes.
Frontal(a) == a.pts[1][1] <= a.pts[3][1] /\ a.pts[3][1] <= a.pts[2][1]

\* The rows and columns of an anchor in a frame, as Postprocess limits them.
RowRange(box) == <<Trunc(Larger(box[2], 0)), Trunc(Smaller(box[4], LimitH * Sub))>>
ColRange(box) == <<Larger(Trunc(box[1]), 0), Smaller(Trunc(box[3]), LimitW)>>

\* cv::Mat::operator() throws unless the range lies in the image.
InRange(range, size) == range[1] <= range[2] /\ range[2] <= size

\* A landmark, from the corner of its box.
Offset(a, p) == <<a.pts[p][1] - a.box[1], a.pts[p][2] - a.box[2]>>

\* DetectObjs: the face with its normalised box, its rectangle and landmarks.
FaceOf(a, w, h) ==
    LET row == RowRange(a.box)
        col == ColRange(a.box)
    IN  [score |-> a.score,
         x |-> Clip(a.box[1], w), y |-> Clip(a.box[2], h),
         w |-> Clip(a.box[3], w) - Clip(a.box[1], w),
         h |-> Clip(a.box[4], h) - Clip(a.box[2], h),
         fp |-> <<Offset(a, 1), Offset(a, 2), Offset(a, 3)>>,
         rect |-> [x |-> col[1], y |-> row[1], width |-> col[2] - col[1],
                   height |-> row[2] - row[1]]]

Within(a, w, h) == InRange(RowRange(a.box), h) /\ InRange(ColRange(a.box), w)

\* The frontal faces of the anchors that nms_cpu kept; the first that does not
\* lie in the image throws, and those before it stay.
CutOut(kept, w, h) ==
    LET before == {k \in DOMAIN kept :
                     \A j \in 1 .. k : Frontal(kept[j]) => Within(kept[j], w, h)}
    IN  [objs |-> FlattenSeq([k \in 1 .. Cardinality(before) |->
                     IF Frontal(kept[k]) THEN <<FaceOf(kept[k], w, h)>> ELSE << >>]),
         thrown |-> before # DOMAIN kept]

\* The proposals of the three feature maps.
Proposals(image) ==
    UNION {FilterAnchor(image.hits, l, image.w, image.h) : l \in DOMAIN FeatStride}

\* All that Postprocess may find in an image: proposals, nms, faces.  Any other
\* number of outputs than nine is refused.
Postprocess(image, outputs) ==
    IF outputs # OutputNum THEN {[objs |-> << >>, thrown |-> FALSE]}
    ELSE {CutOut(Nms(s), image.w, image.h) : s \in Sorted(Proposals(image))}

-----------------------------------------------------------------------------
(* What Postprocess promises, without its algorithm.                       *)

\* A choice of proposals none of which overlap, such that each proposal left
\* out overlaps one with at least its score.
Representative(kept, all) ==
    /\ \A a, b \in kept : a # b => ~Overlapping(a.box, b.box)
    /\ \A p \in all \ kept : \E a \in kept :
         a.score >= p.score /\ Overlapping(a.box, p.box)

Selections(image) == {kept \in SUBSET Proposals(image) :
                        Representative(kept, Proposals(image))}

\* The faces of a frame: those of the frontal ones of such a choice, by
\* descending score; all of them, unless one does not lie in the image.
FacesOf(objs, kept, image) ==
    LET frontal == {a \in kept : Frontal(a)}
        faces == {FaceOf(a, image.w, image.h) : a \in frontal}
    IN  /\ \A k \in 1 .. Len(objs) - 1 : objs[k].score >= objs[k + 1].score
        /\ Range(objs) \subseteq faces
        /\ (\A a \in frontal : Within(a, image.w, image.h)) =>
              Len(objs) = Cardinality(frontal) /\ Range(objs) = faces

Answers(objs, image) == \E kept \in Selections(image) : FacesOf(objs, kept, image)

\* A rectangle lies in its image, and for an image that does not exceed
\* 1280 x 720 it is the normalised box in pixels.
RectOK(o, image) ==
    /\ o.rect.x >= 0 /\ o.rect.width >= 0 /\ o.rect.x + o.rect.width <= image.w
    /\ o.rect.y >= 0 /\ o.rect.height >= 0 /\ o.rect.y + o.rect.height <= image.h
    /\ (o.fp # << >> /\ image.w <= LimitW /\ image.h <= LimitH) =>
         /\ o.rect.x = Trunc(o.x) /\ o.rect.width = Trunc(o.x + o.w) - Trunc(o.x)
         /\ o.rect.y = Trunc(o.y) /\ o.rect.height = Trunc(o.y + o.h) - Trunc(o.y)
=============================================================================
